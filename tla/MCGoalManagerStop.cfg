\* A stop while the route is computed: the vehicle is sent off all the same.
SPECIFICATION Spec
CONSTANTS
  gate = gate
  nowhere = nowhere
  a1 = a1
  a2 = a2
  p1 = p1
  None = None
  Names <- MCNames
  Places <- MCPlaces
  Anchors <- MCAnchors
  Destinations <- MCDestinations
  UsePoseStart = FALSE
  RequireReady = TRUE
PROPERTY StopStartsNothing
