\* Routes that start at the nearest anchor, which changes while a task runs.
SPECIFICATION Spec
CONSTANTS
  gate = gate
  nowhere = nowhere
  a1 = a1
  a2 = a2
  p1 = p1
  None = None
  Names <- MCNames
  Places <- MCPlaces
  Anchors <- MCAnchors
  Destinations <- MCDestinations
  UsePoseStart = FALSE
  RequireReady = TRUE
INVARIANT TypeOK
PROPERTY ImplementsTask
PROPERTY NeverWedged
PROPERTY StopEndsHeldGoal
