--------------------------- MODULE GoalManagerProofs ---------------------------
(***************************************************************************)
(* The goal manager implements NavigationTask, for every route graph, any  *)
(* set of destinations and anchors and both ways to start a route; it is   *)
(* never wedged, and a stop of a held goal ends it.                        *)
(***************************************************************************)
EXTENDS GoalManager, TLAPS

Starts == Anchors \union {None}
Goals  == {None} \union [anchor : Starts] \union [anchor : Starts, dest : Places]

Awaits(s) == response_of = s \/ result_of = s

\* What each stage was given is what the task began with, and only the server
\* the manager waits for has work to do.
ChainInv ==
  /\ goal \in [Servers -> Goals] /\ pending_path \in Goals
  /\ busy => current_dest_id \in Places
  /\ \A s \in Servers : server[s] \in {"asked", "running"} => Awaits(s)
  /\ Awaits("compute") => goal["compute"] = TaskOf
  /\ Awaits("navigate") => /\ ~UsePoseStart /\ goal["navigate"] = [anchor |-> current_anchor_id]
                           /\ pending_path = TaskOf
  /\ Awaits("follow") => goal["follow"] = TaskOf

ManagerInv == TypeOK /\ ChainInv

-----------------------------------------------------------------------------
\* None is neither a task nor a goal of one.
LEMMA TaskIsATask ==
  ASSUME ManagerInv, busy
  PROVE  /\ TaskOf = Path(IF UsePoseStart THEN None ELSE current_anchor_id, current_dest_id)
         /\ TaskOf \in [anchor : Starts, dest : Places] /\ TaskOf # None
         /\ [anchor |-> current_anchor_id] \in [anchor : Starts]
         /\ [anchor |-> current_anchor_id] # None
BY ManagerAssumption DEF ManagerInv, TypeOK, ChainInv, TaskOf, Path, Starts

LEMMA ManagerInit == Init => ManagerInv
<1> SUFFICES ASSUME Init PROVE ManagerInv
  OBVIOUS
<1>1. TypeOK
  BY DEF Init, TypeOK, ServerStates, Servers
<1>2. ChainInv
  BY DEF Init, ChainInv, Goals, Awaits, Servers
<1> QED BY <1>1, <1>2 DEF ManagerInv

\* Ending the request while no server has work.
LEMMA ResetInv ==
  ASSUME ManagerInv, Reset, UNCHANGED <<inputs, nav2>>,
         \A s \in Servers : server[s] \notin {"asked", "running"}
  PROVE  ManagerInv'
<1>1. TypeOK'
  BY DEF Reset, inputs, nav2, ManagerInv, TypeOK
<1>2. ChainInv'
  BY DEF Reset, nav2, ManagerInv, ChainInv, Awaits, Servers, Goals
<1> QED BY <1>1, <1>2 DEF ManagerInv

\* Sending a goal on while no server has work.
LEMMA SendTypes ==
  ASSUME ManagerInv, NEW s \in Servers, NEW g \in Goals, Send(s, g),
         \A x \in Servers : server[x] \notin {"asked", "running"}
  PROVE  /\ server' \in [Servers -> ServerStates] /\ cancels' \subseteq Servers
         /\ goal' \in [Servers -> Goals] /\ goal'[s] = g
         /\ response_of' = s /\ result_of' = "none"
         /\ \A x \in Servers : server'[x] \in {"asked", "running"} => x = s
         /\ \A x \in Servers : server'[x] # "running"
BY DEF Send, ManagerInv, TypeOK, ChainInv, ServerStates

\* Once the result awaited is there, no server has work.
LEMMA NothingRuns ==
  ASSUME ManagerInv, NEW s \in Servers, Awaits(s), server[s] \notin {"asked", "running"}
  PROVE  \A x \in Servers : server[x] \notin {"asked", "running"}
BY DEF ManagerInv, TypeOK, ChainInv, Awaits, Servers

LEMMA GotoNameInv == ASSUME ManagerInv, NEW n \in Names, GotoName(n) PROVE ManagerInv'
<1>1. \A s \in Servers : server[s] \notin {"asked", "running"}
  BY DEF GotoName, ManagerInv, TypeOK, ChainInv, Awaits, Servers
<1>2. DEFINE g == Path(IF UsePoseStart THEN None ELSE nearest_anchor_id, Destinations[n])
<1>3. Destinations[n] \in Places /\ g \in Goals
  BY ManagerAssumption DEF GotoName, ManagerInv, TypeOK, Path, Goals, Starts
<1>4. TaskOf' = g
  BY DEF GotoName, TaskOf
<1>5. Send("compute", g)
  BY DEF GotoName
<1>6. TypeOK'
  <2>1. /\ server' \in [Servers -> ServerStates] /\ cancels' \subseteq Servers
        /\ response_of' = "compute" /\ result_of' = "none"
    BY <1>1, <1>3, <1>5, SendTypes DEF Servers
  <2> QED BY <2>1, <1>3 DEF GotoName, ManagerInv, TypeOK, Servers, inputs
<1>7. ChainInv'
  <2>1. /\ goal' \in [Servers -> Goals] /\ goal'["compute"] = g
        /\ response_of' = "compute" /\ result_of' = "none"
        /\ \A x \in Servers : server'[x] \in {"asked", "running"} => x = "compute"
    BY <1>1, <1>3, <1>5, SendTypes DEF Servers
  <2> HIDE DEF g
  <2> QED BY <1>3, <1>4, <2>1 DEF GotoName, ChainInv, Awaits, Goals
<1> QED BY <1>6, <1>7 DEF ManagerInv

LEMMA StopInv == ManagerInv /\ Stop => ManagerInv'
<1> SUFFICES ASSUME ManagerInv, Stop PROVE ManagerInv'
  OBVIOUS
<1>1. cancels' \subseteq Servers /\ stopped' \subseteq handles
  BY DEF Stop, HandlesToCancel, Servers, ManagerInv, TypeOK
<1>2. TypeOK'
  BY <1>1 DEF Stop, inputs, ManagerInv, TypeOK
<1>3. TaskOf' = TaskOf
  BY DEF Stop, TaskOf
<1>4. ChainInv'
  BY <1>3 DEF Stop, ManagerInv, ChainInv, Awaits
<1> QED BY <1>2, <1>4 DEF ManagerInv

\* A response or the failure of a stage.
LEMMA AnswerInv ==
  ASSUME ManagerInv, NEW s \in Servers, GoalResponse(s) \/ StageFails(s)
  PROVE  ManagerInv'
<1>1. CASE GoalResponse(s) /\ server[s] = "rejected"
  BY <1>1, NothingRuns, ResetInv DEF GoalResponse, Awaits
<1>2. CASE GoalResponse(s) /\ server[s] # "rejected"
  <2>1. TaskOf' = TaskOf
    BY <1>2 DEF GoalResponse, TaskOf
  <2>2. \A x \in Servers : Awaits(x)' <=> Awaits(x)
    BY <1>2 DEF GoalResponse, Awaits, ManagerInv, TypeOK, Servers
  <2>3. TypeOK'
    BY <1>2 DEF GoalResponse, inputs, nav2, ManagerInv, TypeOK, Servers
  <2>4. ChainInv'
    BY <1>2, <2>1, <2>2 DEF GoalResponse, nav2, ManagerInv, ChainInv, Servers
  <2> QED BY <2>3, <2>4 DEF ManagerInv
<1>3. CASE StageFails(s)
  BY <1>3, NothingRuns, ResetInv DEF StageFails, Awaits
<1> QED BY <1>1, <1>2, <1>3

\* A stage hands on to one that drives.
LEMMA StageInv ==
  ASSUME ManagerInv, busy, pending_path' = TaskOf, KeepRequest,
         \A x \in Servers : server[x] \notin {"asked", "running"},
         \/ Send("follow", TaskOf)
         \/ ~UsePoseStart /\ Send("navigate", [anchor |-> current_anchor_id])
  PROVE  ManagerInv'
<1> DEFINE a == [anchor |-> current_anchor_id]
<1>1. TaskOf \in Goals /\ a \in Goals /\ TaskOf' = TaskOf
  BY TaskIsATask DEF Goals, KeepRequest, TaskOf
<1>2. PICK s \in {"navigate", "follow"} :
        Send(s, IF s = "follow" THEN TaskOf ELSE a) /\ (s = "navigate" => ~UsePoseStart)
  OBVIOUS
<1> DEFINE g == IF s = "follow" THEN TaskOf ELSE a
<1>3. g \in Goals /\ s \in Servers
  BY <1>1 DEF Servers
<1> HIDE DEF g
<1>4. /\ server' \in [Servers -> ServerStates] /\ cancels' \subseteq Servers
      /\ goal' \in [Servers -> Goals] /\ goal'[s] = g
      /\ response_of' = s /\ result_of' = "none"
      /\ \A x \in Servers : server'[x] \in {"asked", "running"} => x = s
  BY <1>2, <1>3, SendTypes DEF g
<1>5. TypeOK'
  BY <1>3, <1>4 DEF KeepRequest, inputs, ManagerInv, TypeOK
<1>6. ChainInv'
  BY <1>1, <1>2, <1>4 DEF g, KeepRequest, ManagerInv, ChainInv, Awaits
<1> QED BY <1>5, <1>6 DEF ManagerInv

LEMMA ResultInv ==
  ManagerInv /\ (ComputeRouteResult \/ NavigateResult \/ FollowPathResult) => ManagerInv'
<1> SUFFICES ASSUME ManagerInv, ComputeRouteResult \/ NavigateResult \/ FollowPathResult
             PROVE  ManagerInv'
  OBVIOUS
<1>1. busy /\ \A x \in Servers : server[x] \notin {"asked", "running"}
  <2>1. PICK s \in Servers : result_of = s /\ server[s] = "succeeded"
    BY DEF ComputeRouteResult, NavigateResult, FollowPathResult, Servers
  <2>2. \A x \in Servers : server[x] \notin {"asked", "running"}
    BY <2>1, NothingRuns DEF Awaits
  <2> QED BY <2>1, <2>2 DEF ManagerInv, TypeOK, Servers
<1>2. CASE ComputeRouteResult
  <2>1. goal["compute"] = TaskOf
    BY <1>2 DEF ComputeRouteResult, ManagerInv, ChainInv, Awaits
  <2>2. CASE Reset /\ UNCHANGED <<inputs, nav2>>
    BY <1>1, <2>2, ResetInv
  <2>3. CASE pending_path' = goal["compute"] /\ SendFollowPath(goal["compute"])
    BY <1>1, <2>1, <2>3, StageInv DEF SendFollowPath
  <2>4. CASE ~UsePoseStart /\ pending_path' = goal["compute"] /\ SendNavigateToAnchor
    BY <1>1, <2>1, <2>4, StageInv DEF SendNavigateToAnchor, StageAAnchor
  <2> QED BY <1>2, <2>2, <2>3, <2>4 DEF ComputeRouteResult
<1>3. CASE NavigateResult
  <2>1. pending_path = TaskOf
    BY <1>3 DEF NavigateResult, ManagerInv, ChainInv, Awaits
  <2>2. pending_path # None
    BY <1>1, <2>1, TaskIsATask
  <2> QED BY <1>1, <1>3, <2>1, <2>2, StageInv DEF NavigateResult, SendFollowPath
<1>4. CASE FollowPathResult
  BY <1>1, <1>4, ResetInv DEF FollowPathResult
<1> QED BY <1>2, <1>3, <1>4

\* What becomes of a goal at its server.
LEMMA ServerInv ==
  ASSUME ManagerInv, NEW s \in Servers,
         ServerAnswers(s) \/ ServerFinishes(s) \/ ServerCancels(s)
  PROVE  ManagerInv'
<1>1. PICK x \in ServerStates : server' = [server EXCEPT ![s] = x]
  BY DEF ServerAnswers, ServerFinishes, ServerCancels, Becomes, ServerStates,
         ManagerInv, TypeOK
<1>2. x \in {"asked", "running"} => server[s] \in {"asked", "running"}
  BY <1>1 DEF ServerAnswers, ServerFinishes, ServerCancels, Becomes, ManagerInv, TypeOK
<1>3. UNCHANGED <<goal, request, inputs>> /\ cancels' \subseteq cancels
  BY DEF ServerAnswers, ServerFinishes, ServerCancels, Becomes
<1>4. TypeOK'
  BY <1>1, <1>3 DEF request, inputs, ManagerInv, TypeOK
<1>5. ChainInv'
  BY <1>1, <1>2, <1>3 DEF request, ManagerInv, TypeOK, ChainInv, Awaits, TaskOf
<1> QED BY <1>4, <1>5 DEF ManagerInv

LEMMA ManagerStep == ManagerInv /\ [Next]_vars => ManagerInv'
<1> SUFFICES ASSUME ManagerInv, [Next]_vars PROVE ManagerInv'
  OBVIOUS
<1>1. CASE UNCHANGED vars \/ SystemStatus \/ NearestAnchor
  <2>1. UNCHANGED <<request, nav2>>
    BY <1>1 DEF vars, SystemStatus, NearestAnchor
  <2>2. nav_ready' \in BOOLEAN /\ nearest_anchor_id' \in Anchors \union {None}
    BY <1>1 DEF vars, inputs, SystemStatus, NearestAnchor, ManagerInv, TypeOK
  <2>3. TypeOK'
    BY <2>1, <2>2 DEF request, nav2, ManagerInv, TypeOK
  <2>4. ChainInv'
    BY <2>1 DEF request, nav2, ManagerInv, ChainInv, Awaits, TaskOf
  <2> QED BY <2>3, <2>4 DEF ManagerInv
<1> QED BY <1>1, StopInv, AnswerInv, ResultInv, GotoNameInv, ServerInv DEF Next, Delivery

\* The invariant holds of every behaviour of the manager with its servers.
THEOREM ManagerInvariant == Spec => []ManagerInv
BY ManagerInit, ManagerStep, PTL DEF Spec

\* The variables of the manager keep their types; busy means exactly that one
\* callback is awaited.
THEOREM ManagerTypeCorrect == Spec => []TypeOK
BY ManagerInvariant, PTL DEF ManagerInv

-----------------------------------------------------------------------------
(* Refinement. *)

LEMMA InitSim == Init => Task!Init
BY DEF Init, Task!Init, TaskOf, DriveOf, Running, Servers

\* Only the server the manager waits for can run, so what drives the vehicle is
\* that server's goal, if it is one that drives.
LEMMA WhatDrives ==
  ASSUME ManagerInv
  PROVE  /\ Running("navigate") => /\ busy /\ Awaits("navigate") /\ ~Running("follow")
                                   /\ ~UsePoseStart
                                   /\ goal["navigate"] = Task!ToAnchor(TaskOf)
         /\ Running("follow") => busy /\ Awaits("follow") /\ goal["follow"] = TaskOf
<1>1. ASSUME Running("navigate")
      PROVE  /\ busy /\ Awaits("navigate") /\ ~Running("follow") /\ ~UsePoseStart
             /\ goal["navigate"] = Task!ToAnchor(TaskOf)
  <2>1. Awaits("navigate") /\ busy /\ ~Running("follow")
    BY <1>1 DEF ManagerInv, TypeOK, ChainInv, Running, Awaits, Servers
  <2>2. ~UsePoseStart /\ goal["navigate"] = [anchor |-> current_anchor_id]
    BY <2>1 DEF ManagerInv, ChainInv
  <2>3. TaskOf = Path(current_anchor_id, current_dest_id)
    BY <2>1, <2>2, TaskIsATask
  <2> QED BY <2>1, <2>2, <2>3 DEF Task!ToAnchor, Path
<1>2. ASSUME Running("follow") PROVE busy /\ Awaits("follow") /\ goal["follow"] = TaskOf
  BY <1>2 DEF ManagerInv, TypeOK, ChainInv, Running, Awaits, Servers
<1> QED BY <1>1, <1>2

\* A step that leaves the servers alone, and begins, ends or keeps the task.
LEMMA QuietStep ==
  ASSUME ManagerInv, ManagerInv', UNCHANGED DriveOf,
         TaskOf' = TaskOf \/ (~busy /\ busy') \/ (busy /\ ~busy' /\ DriveOf = None)
  PROVE  [Task!Next]_(Task!taskVars)
<1>1. CASE TaskOf' = TaskOf
  BY <1>1 DEF Task!taskVars
<1>2. CASE ~busy /\ busy'
  <2>1. TaskOf = None
    BY <1>2 DEF TaskOf
  <2>2. \E a \in Anchors \union {None}, d \in Places : TaskOf' = [anchor |-> a, dest |-> d]
    <3>1. busy' /\ current_dest_id' \in Places /\ current_anchor_id' \in Anchors \union {None}
      BY <1>2 DEF ManagerInv, TypeOK, ChainInv
    <3> QED BY <3>1 DEF TaskOf, Path
  <2> QED BY <2>1, <2>2 DEF Task!Next, Task!Begin
<1>3. CASE busy /\ ~busy' /\ DriveOf = None
  <2>1. TaskOf # None /\ TaskOf' = None
    BY <1>3, TaskIsATask DEF TaskOf
  <2> QED BY <1>3, <2>1 DEF Task!Next, Task!End
<1> QED BY <1>1, <1>2, <1>3

LEMMA StillWhenNothingRuns ==
  ASSUME \A s \in Servers : server[s] # "running" PROVE DriveOf = None
BY DEF DriveOf, Running, Servers

\* A server begins or ceases to drive the vehicle, or does not drive it at all.
LEMMA ServerSim ==
  ASSUME ManagerInv, ManagerInv', NEW s \in Servers,
         ServerAnswers(s) \/ ServerFinishes(s) \/ ServerCancels(s)
  PROVE  [Task!Next]_(Task!taskVars)
<1>1. PICK x \in ServerStates : server' = [server EXCEPT ![s] = x]
  BY DEF ServerAnswers, ServerFinishes, ServerCancels, Becomes, ServerStates,
         ManagerInv, TypeOK
<1>2. TaskOf' = TaskOf /\ goal' = goal /\ busy' = busy
  BY DEF ServerAnswers, ServerFinishes, ServerCancels, Becomes, request, TaskOf
<1>3. CASE DriveOf' = DriveOf
  BY <1>2, <1>3 DEF Task!taskVars
<1>4. CASE DriveOf' # DriveOf
  <2>1. s \in {"navigate", "follow"} /\ server'[s] # server[s]
    BY <1>1, <1>2, <1>4 DEF DriveOf, Running, Servers, ManagerInv, TypeOK
  <2>2. \A y \in Servers : y # s => server'[y] = server[y]
    BY <1>1 DEF ManagerInv, TypeOK
  <2>3. CASE Running(s)
    <3>1. ~Running(s)'
      BY <1>1, <2>1, <2>3 DEF Running, ManagerInv, TypeOK
    <3>2. DriveOf' = None
      BY <2>1, <2>2, <2>3, <3>1, WhatDrives DEF DriveOf, Running, Servers, Awaits,
         ManagerInv, TypeOK
    <3> QED BY <1>2, <1>4, <3>2 DEF Task!Next, Task!Halt
  <2>4. CASE ~Running(s)
    <3>1. Running(s)'
      BY <1>1, <1>2, <1>4, <2>1, <2>2, <2>4 DEF Running, DriveOf, Servers
    <3>2. server[s] = "asked" /\ Awaits(s)
      BY <1>1, <2>1, <2>4, <3>1 DEF ServerAnswers, ServerFinishes, ServerCancels, Becomes, Running,
         ManagerInv, TypeOK, ChainInv
    <3>3. DriveOf = None
      BY <2>1, <2>4, <3>2, WhatDrives DEF DriveOf, Running, Awaits, ManagerInv, TypeOK
    <3>4. busy /\ TaskOf # None
      BY <3>2, TaskIsATask DEF Awaits, ManagerInv, TypeOK, Servers
    <3>5. DriveOf' \in {TaskOf, Task!ToAnchor(TaskOf)}
      <4>1. (Running("navigate") => goal["navigate"] = Task!ToAnchor(TaskOf))'
        BY WhatDrives, PTL
      <4>2. (Running("follow") => goal["follow"] = TaskOf)'
        BY WhatDrives, PTL
      <4>3. CASE s = "navigate"
        BY <1>2, <3>1, <4>1, <4>3 DEF DriveOf, Task!ToAnchor
      <4>4. CASE s = "follow"
        <5>1. ~Running("navigate")'
          BY <2>2, <3>3, <3>2, <4>4, WhatDrives DEF Running, Servers, Awaits, ManagerInv, TypeOK
        <5> QED BY <1>2, <3>1, <4>2, <4>4, <5>1 DEF DriveOf
      <4> QED BY <2>1, <4>3, <4>4
    <3> QED BY <1>2, <3>3, <3>4, <3>5 DEF Task!Next, Task!DriveToAnchor, Task!FollowRoute
  <2> QED BY <2>3, <2>4
<1> QED BY <1>3, <1>4

\* Every step of the manager, its servers and its inputs is a step of the task
\* or none.
LEMMA StepSim ==
  ASSUME ManagerInv, ManagerInv', [Next]_vars PROVE [Task!Next]_(Task!taskVars)
<1>1. CASE UNCHANGED vars \/ SystemStatus \/ NearestAnchor \/ Stop
  <2>1. TaskOf' = TaskOf /\ DriveOf' = DriveOf
    BY <1>1 DEF vars, request, nav2, SystemStatus, NearestAnchor, Stop, TaskOf, DriveOf, Running
  <2> QED BY <2>1 DEF Task!taskVars
<1>2. ASSUME NEW n \in Names, GotoName(n) PROVE [Task!Next]_(Task!taskVars)
  <2>1. ~busy /\ busy' /\ \A s \in Servers : server[s] # "running"
    BY <1>2 DEF GotoName, ManagerInv, TypeOK, ChainInv, Awaits, Servers
  <2>2. \A s \in Servers : server'[s] # "running"
    BY <1>2, <2>1 DEF GotoName, Send, ManagerInv, TypeOK
  <2>3. DriveOf = None /\ DriveOf' = None
    BY <2>1, <2>2 DEF DriveOf, Running, Servers
  <2> QED BY <2>1, <2>3, QuietStep
<1>3. CASE Delivery
  <2>1. busy
    BY <1>3 DEF Delivery, GoalResponse, StageFails, ComputeRouteResult, NavigateResult,
                FollowPathResult, ManagerInv, TypeOK, Servers
  <2>2. UNCHANGED server \/ \A s \in Servers : server[s] # "running" /\ server'[s] # "running"
    <3>1. CASE \E s \in Servers : GoalResponse(s) \/ StageFails(s)
      BY <3>1 DEF GoalResponse, StageFails, nav2
    <3>2. CASE ComputeRouteResult \/ NavigateResult \/ FollowPathResult
      <4>1. PICK s \in Servers : result_of = s /\ server[s] = "succeeded"
        BY <3>2 DEF ComputeRouteResult, NavigateResult, FollowPathResult, Servers
      <4>2. \A x \in Servers : server[x] \notin {"asked", "running"}
        BY <4>1, NothingRuns DEF Awaits
      <4>3. UNCHANGED server \/ \E x \in Servers : server' = [server EXCEPT ![x] = "asked"]
        BY <3>2 DEF ComputeRouteResult, NavigateResult, FollowPathResult, SendFollowPath,
                    SendNavigateToAnchor, Send, nav2, Servers
      <4> QED BY <4>2, <4>3 DEF ManagerInv, TypeOK
    <3> QED BY <1>3, <3>1, <3>2 DEF Delivery
  <2>3. UNCHANGED goal \/ \A s \in Servers : server[s] # "running" /\ server'[s] # "running"
    <3>1. CASE UNCHANGED nav2
      BY <3>1 DEF nav2
    <3>2. CASE ~UNCHANGED nav2
      <4>1. PICK x \in Servers : \E g : Send(x, g)
        BY <1>3, <3>2 DEF Delivery, GoalResponse, StageFails, ComputeRouteResult, NavigateResult,
                          FollowPathResult, SendFollowPath, SendNavigateToAnchor, Servers
      <4>2. PICK s \in Servers : result_of = s /\ server[s] = "succeeded"
        BY <1>3, <3>2 DEF Delivery, GoalResponse, StageFails, ComputeRouteResult, NavigateResult,
                          FollowPathResult, Servers
      <4>3. \A y \in Servers : server[y] \notin {"asked", "running"}
        BY <4>2, NothingRuns DEF Awaits
      <4> QED BY <4>1, <4>3 DEF Send, ManagerInv, TypeOK
    <3> QED BY <3>1, <3>2
  <2>4. DriveOf' = DriveOf
    BY <2>2, <2>3 DEF DriveOf, Running, Servers
  <2>5. busy' => TaskOf' = TaskOf
    BY <1>3, <2>1 DEF Delivery, GoalResponse, StageFails, ComputeRouteResult, NavigateResult,
       FollowPathResult, SendFollowPath, SendNavigateToAnchor, KeepRequest, Reset, TaskOf
  <2>6. ~busy' => DriveOf = None
    <3>1. ~busy' => \A s \in Servers : server'[s] # "running"
      BY DEF ManagerInv, TypeOK, ChainInv, Awaits, Servers
    <3>2. ~busy' => DriveOf' = None
      BY <3>1 DEF DriveOf, Running, Servers
    <3> QED BY <2>4, <3>2
  <2> QED BY <2>1, <2>4, <2>5, <2>6, QuietStep
<1> QED BY <1>1, <1>2, <1>3, ServerSim DEF Next

\* The goal manager keeps the promise of NavigationTask, whatever the anchors,
\* the destinations and the answers of Nav2 are, and whenever a stop comes.
THEOREM ManagerImplementsTask == Spec => ImplementsTask
<1>1. Init => Task!Init
  BY InitSim
<1>2. ManagerInv /\ ManagerInv' /\ [Next]_vars => [Task!Next]_(Task!taskVars)
  BY StepSim
<1> QED BY <1>1, <1>2, ManagerInvariant, PTL DEF Spec, ImplementsTask, Task!Spec

-----------------------------------------------------------------------------
(* Progress, in the stages of a request: a server was asked, its response    *)
(* is there, the end of its goal is there.                                   *)
Ended == {"succeeded", "canceled", "aborted"}

Asked(s)     == response_of = s /\ server[s] = "asked"
Responded(s) == response_of = s /\ server[s] # "asked"
EndedAt(s)   == result_of = s /\ server[s] \in Ended
Moving       == ~busy \/ \E s \in Servers : Running(s)

(* Where a callback has something to deliver.                                *)
CanDeliver == \E s \in Servers : Responded(s) \/ EndedAt(s)

\* A request goes through the servers in one order and asks none twice.
OrderInv ==
  /\ response_of = "compute" => handles = {}
  /\ Awaits("compute") => handles \subseteq {"compute"}
  /\ response_of = "navigate" => handles \subseteq {"compute"}
  /\ Awaits("navigate") => handles \subseteq {"compute", "navigate"}
  /\ response_of = "follow" => "follow" \notin handles

\* A result is awaited of an accepted goal only, and a stop that came while it
\* was awaited has its cancel request on the way for as long as the goal runs.
AwaitInv ==
  \A s \in Servers :
    /\ response_of = s => server[s] # "idle"
    /\ result_of = s => Running(s) \/ server[s] \in Ended
    /\ s \in stopped /\ result_of = s /\ Running(s) => s \in cancels

LEMMA OrderStep == ManagerInv /\ OrderInv /\ [Next]_vars => OrderInv'
<1> SUFFICES ASSUME ManagerInv, OrderInv, [Next]_vars PROVE OrderInv'
  OBVIOUS
<1> USE DEF OrderInv, Awaits
<1>1. ASSUME UNCHANGED <<handles, response_of, result_of>> PROVE OrderInv'
  BY <1>1
<1>2. ASSUME Reset PROVE OrderInv'
  BY <1>2 DEF Reset
<1>3. ASSUME NEW n \in Names, GotoName(n) PROVE OrderInv'
  BY <1>3 DEF GotoName, Send, ManagerInv, TypeOK
<1>4. ASSUME NEW s \in Servers, GoalResponse(s) PROVE OrderInv'
  BY <1>4, <1>2 DEF GoalResponse, Servers
<1>5. ASSUME ComputeRouteResult \/ NavigateResult \/ FollowPathResult PROVE OrderInv'
  BY <1>5, <1>2 DEF ComputeRouteResult, NavigateResult, FollowPathResult,
                    SendFollowPath, SendNavigateToAnchor, Send, KeepRequest
<1> QED
  BY <1>1, <1>2, <1>3, <1>4, <1>5
  DEF Next, vars, request, Delivery, SystemStatus, NearestAnchor, Stop, StageFails,
      ServerAnswers, ServerFinishes, ServerCancels, Becomes

LEMMA AwaitStep == ManagerInv /\ OrderInv /\ AwaitInv /\ [Next]_vars => AwaitInv'
<1> SUFFICES ASSUME ManagerInv, OrderInv, AwaitInv, [Next]_vars PROVE AwaitInv'
  OBVIOUS
<1> USE DEF AwaitInv, Running, Ended
<1>1. ASSUME UNCHANGED request, UNCHANGED nav2 PROVE AwaitInv'
  BY <1>1 DEF request, nav2
<1>2. ASSUME Reset PROVE AwaitInv'
  BY <1>2 DEF Reset, Servers
<1>3. ASSUME NEW s \in Servers, NEW g, Send(s, g) PROVE AwaitInv'
  BY <1>3 DEF Send, Servers, ManagerInv, TypeOK
<1>4. ASSUME Stop PROVE AwaitInv'
  BY <1>4 DEF Stop, HandlesToCancel, ManagerInv, TypeOK, Servers
<1>5. ASSUME NEW s \in Servers, GoalResponse(s) PROVE AwaitInv'
  <2>1. CASE server[s] = "rejected"
    BY <1>5, <2>1, <1>2 DEF GoalResponse
  <2>2. CASE server[s] # "rejected"
    <3>1. /\ response_of = s /\ server[s] \in {"running", "succeeded", "canceled", "aborted"}
          /\ response_of' = "none" /\ result_of' = s /\ UNCHANGED <<stopped, server, cancels>>
      BY <1>5, <2>2 DEF GoalResponse, nav2, ManagerInv, TypeOK, ServerStates
    <3>2. s \notin stopped
      BY <3>1 DEF OrderInv, ManagerInv, TypeOK, Servers
    <3> QED BY <3>1, <3>2 DEF Servers
  <2> QED BY <2>1, <2>2
<1>6. ASSUME NEW s \in Servers, ServerAnswers(s) \/ ServerFinishes(s) \/ ServerCancels(s)
      PROVE  AwaitInv'
  BY <1>6 DEF ServerAnswers, ServerFinishes, ServerCancels, Becomes, request, Servers,
              ManagerInv, TypeOK
<1>7. ASSUME ComputeRouteResult \/ NavigateResult \/ FollowPathResult PROVE AwaitInv'
  <2>1. Reset \/ \E s \in Servers : \E g : Send(s, g)
    BY <1>7 DEF ComputeRouteResult, NavigateResult, FollowPathResult, SendFollowPath,
                SendNavigateToAnchor, Servers
  <2> QED BY <2>1, <1>2, <1>3
<1>8. ASSUME NEW n \in Names, GotoName(n) PROVE AwaitInv'
  BY <1>8, <1>3 DEF GotoName, Servers
<1> QED
  BY <1>1, <1>2, <1>4, <1>5, <1>6, <1>7, <1>8
  DEF Next, vars, Delivery, SystemStatus, NearestAnchor, StageFails

\* A goal that is asked for is answered, and a goal that was stopped while it
\* was held has ended or is about to be cancelled, through every stage and
\* whatever crosses the stop (goal_manager_node.py).
THEOREM ProgressInvariant == Spec => [](OrderInv /\ AwaitInv)
<1>1. Init => OrderInv /\ AwaitInv
  BY DEF Init, OrderInv, AwaitInv, Awaits, Servers
<1> QED BY <1>1, OrderStep, AwaitStep, ManagerInvariant, PTL DEF Spec

-----------------------------------------------------------------------------
(* Liveness.  The provers cannot evaluate ENABLED: that a callback, or an    *)
(* action of a server, is enabled where its guard holds is a hypothesis.     *)
DeliveryIsEnabled == [](CanDeliver => ENABLED <<Delivery>>_vars)
ServerIsEnabled(s) ==
  /\ [](server[s] = "asked" => ENABLED <<ServerAnswers(s)>>_vars)
  /\ [](s \in cancels => ENABLED <<ServerCancels(s)>>_vars)
ServersAreEnabled == \A s \in Servers : ServerIsEnabled(s)

GuardsEnable == DeliveryIsEnabled /\ ServersAreEnabled

LEMMA OneServer ==
  ASSUME NEW s \in Servers
  PROVE  /\ ServersFairness => ServerFairness(s)
         /\ ServersAreEnabled => ServerIsEnabled(s)
BY DEF ServersFairness, ServersAreEnabled

\* What any step, and what the fair one, does in each stage of a request.
LEMMA AskedStep ==
  ASSUME ManagerInv, NEW s \in Servers, Asked(s), [Next]_vars
  PROVE  /\ Asked(s)' \/ Responded(s)'
         /\ ServerAnswers(s) => Responded(s)'
<1> USE DEF Asked, Responded
<1>1. response_of = s /\ server[s] = "asked" /\ result_of = "none" /\ busy
  BY DEF ManagerInv, TypeOK, Servers
<1>2. response_of' = s
  BY <1>1
  DEF Next, vars, request, SystemStatus, NearestAnchor, Stop, Delivery, GoalResponse, StageFails,
      ComputeRouteResult, NavigateResult, FollowPathResult, GotoName, ServerAnswers,
      ServerFinishes, ServerCancels, Becomes, Servers
<1>3. ASSUME ServerAnswers(s) PROVE server'[s] # "asked"
  BY <1>3 DEF ServerAnswers, Becomes, ManagerInv, TypeOK
<1> QED BY <1>2, <1>3

LEMMA RespondedStep ==
  ASSUME ManagerInv, NEW s \in Servers, Responded(s), [Next]_vars
  PROVE  /\ Responded(s)' \/ ~busy' \/ result_of' = s
         /\ Delivery => ~busy' \/ result_of' = s
<1> USE DEF Responded
<1>1. response_of = s /\ server[s] # "asked" /\ result_of = "none" /\ busy
  BY DEF ManagerInv, TypeOK, Servers
<1>2. ASSUME Delivery PROVE ~busy' \/ result_of' = s
  BY <1>1, <1>2
  DEF Delivery, GoalResponse, StageFails, ComputeRouteResult, NavigateResult, FollowPathResult,
      Reset, Servers
<1>3. ASSUME ~Delivery PROVE response_of' = s /\ server'[s] # "asked"
  <2>1. CASE UNCHANGED vars \/ SystemStatus \/ NearestAnchor \/ Stop
    BY <1>1, <2>1 DEF vars, request, nav2, SystemStatus, NearestAnchor, Stop
  <2>2. ASSUME NEW n \in Names, GotoName(n) PROVE FALSE
    BY <1>1, <2>2 DEF GotoName
  <2>3. ASSUME NEW z \in Servers, ServerAnswers(z) \/ ServerFinishes(z) \/ ServerCancels(z)
        PROVE  response_of' = s /\ server'[s] # "asked"
    <3>1. response_of' = s
      BY <1>1, <2>3 DEF request, ServerAnswers, ServerFinishes, ServerCancels, Becomes
    <3>2. PICK x : /\ x # "asked" \/ x = server[z]
                   /\ server' = [server EXCEPT ![z] = x]
      BY <2>3 DEF ServerAnswers, ServerFinishes, ServerCancels, Becomes
    <3> QED BY <1>1, <3>1, <3>2 DEF ManagerInv, TypeOK
  <2> QED BY <1>3, <2>1, <2>2, <2>3 DEF Next
<1> QED BY <1>2, <1>3

\* Where a request goes from the end of a goal.
OnFrom(s) ==
  \/ ~busy
  \/ s = "compute" /\ Asked("navigate")
  \/ s # "follow" /\ Asked("follow")

LEMMA EndedStep ==
  ASSUME ManagerInv, NEW s \in Servers, EndedAt(s), [Next]_vars
  PROVE  /\ (EndedAt(s)' /\ stopped \subseteq stopped') \/ (OnFrom(s)' /\ result_of' = "none")
         /\ Delivery => OnFrom(s)' /\ result_of' = "none"
<1> USE DEF EndedAt, Ended
<1>1. result_of = s /\ server[s] \in Ended /\ response_of = "none" /\ busy
  BY DEF ManagerInv, TypeOK, Servers
<1>2. ASSUME Delivery PROVE OnFrom(s)' /\ result_of' = "none"
  <2>1. ASSUME Reset PROVE OnFrom(s)' /\ result_of' = "none"
    BY <2>1 DEF Reset, OnFrom
  <2>2. ASSUME NEW z \in Servers, NEW g, Send(z, g)
        PROVE  Asked(z)' /\ result_of' = "none"
    BY <2>2 DEF Send, Asked, ManagerInv, TypeOK
  <2>3. CASE \E z \in Servers : GoalResponse(z) \/ StageFails(z)
    BY <1>1, <2>1, <2>3 DEF GoalResponse, StageFails, Servers
  <2>4. CASE ComputeRouteResult
    BY <1>1, <2>1, <2>2, <2>4
    DEF ComputeRouteResult, SendFollowPath, SendNavigateToAnchor, OnFrom, Servers
  <2>5. CASE NavigateResult
    BY <1>1, <2>1, <2>2, <2>5 DEF NavigateResult, SendFollowPath, OnFrom, Servers
  <2>6. CASE FollowPathResult
    BY <2>1, <2>6 DEF FollowPathResult
  <2> QED BY <1>2, <2>3, <2>4, <2>5, <2>6 DEF Delivery
<1>3. ASSUME ~Delivery PROVE result_of' = s /\ server'[s] \in Ended /\ stopped \subseteq stopped'
  BY <1>1, <1>3
  DEF Next, vars, request, nav2, SystemStatus, NearestAnchor, Stop, GotoName, ServerAnswers,
      ServerFinishes, ServerCancels, Becomes, ManagerInv, TypeOK
<1> QED BY <1>2, <1>3

\* The goal of a server was stopped while it was held: it runs with its cancel
\* request on the way, or it has ended and its result is there.
StopWaits(s)  == s \in stopped /\ result_of = s /\ Running(s)
StopLands(s)  == s \in stopped /\ EndedAt(s)
StopIsOver(s) == result_of # s

LEMMA StopWaitsStep ==
  ASSUME ManagerInv, AwaitInv, NEW s \in Servers, StopWaits(s), [Next]_vars
  PROVE  /\ StopWaits(s)' \/ StopLands(s)'
         /\ ServerCancels(s) => StopLands(s)'
<1> USE DEF StopWaits, StopLands, EndedAt, Ended, Running
<1>1. result_of = s /\ server[s] = "running" /\ response_of = "none" /\ busy /\ s \in stopped
  BY DEF ManagerInv, TypeOK, Servers
<1>2. ~Delivery
  BY <1>1
  DEF Delivery, GoalResponse, StageFails, ComputeRouteResult, NavigateResult, FollowPathResult,
      Servers
<1>3. result_of' = s /\ s \in stopped'
  BY <1>1, <1>2
  DEF Next, vars, request, SystemStatus, NearestAnchor, Stop, GotoName, ServerAnswers,
      ServerFinishes, ServerCancels, Becomes
<1>4. server'[s] \in {"running"} \cup Ended
  BY <1>1, <1>2
  DEF Next, vars, nav2, SystemStatus, NearestAnchor, Stop, GotoName, ServerAnswers,
      ServerFinishes, ServerCancels, Becomes, ManagerInv, TypeOK
<1>5. ASSUME ServerCancels(s) PROVE server'[s] = "canceled"
  BY <1>1, <1>5 DEF ServerCancels, Becomes, ManagerInv, TypeOK
<1> QED BY <1>3, <1>4, <1>5

LEMMA StopLandsStep ==
  ASSUME ManagerInv, NEW s \in Servers, StopLands(s), [Next]_vars
  PROVE  /\ StopLands(s)' \/ StopIsOver(s)'
         /\ Delivery => StopIsOver(s)'
BY EndedStep DEF StopLands, StopIsOver, Servers

LEMMA OneStopEnds ==
  ASSUME NEW s \in Servers
  PROVE  Spec /\ ServerFairness(s) /\ DeliveryIsEnabled /\ ServerIsEnabled(s) => StopEnds(s)
<1>1. ManagerInv /\ AwaitInv /\ StopWaits(s) /\ [Next]_vars => StopWaits(s)' \/ StopLands(s)'
  BY StopWaitsStep
<1>2. ManagerInv /\ AwaitInv /\ StopWaits(s) /\ [Next]_vars /\ <<ServerCancels(s)>>_vars
        => StopLands(s)'
  BY StopWaitsStep
<1>3. ManagerInv /\ StopLands(s) /\ [Next]_vars => StopLands(s)' \/ StopIsOver(s)'
  BY StopLandsStep
<1>4. ManagerInv /\ StopLands(s) /\ [Next]_vars /\ <<Delivery>>_vars => StopIsOver(s)'
  BY StopLandsStep
<1>5. AwaitInv /\ StopWaits(s) => s \in cancels
  BY DEF AwaitInv, StopWaits
<1>6. StopLands(s) => CanDeliver
  BY DEF StopLands, CanDeliver
<1>7. AwaitInv /\ (s \in stopped /\ result_of = s) => StopWaits(s) \/ StopLands(s)
  BY DEF AwaitInv, StopWaits, StopLands, EndedAt
<1>8. StopIsOver(s) => result_of # s
  BY DEF StopIsOver
<1>9. Spec /\ ServerFairness(s) /\ ServerIsEnabled(s) => (StopWaits(s) ~> StopLands(s))
  BY <1>1, <1>2, <1>5, ManagerInvariant, ProgressInvariant, PTL
  DEF Spec, ServerFairness, ServerIsEnabled
<1>10. Spec /\ DeliveryIsEnabled => (StopLands(s) ~> StopIsOver(s))
  BY <1>3, <1>4, <1>6, ManagerInvariant, PTL DEF Spec, Fairness, DeliveryIsEnabled
<1> QED BY <1>7, <1>8, <1>9, <1>10, ProgressInvariant, PTL DEF StopEnds

\* A stop that came while the handle of the goal was held ends that goal's
\* wait, whichever stage the request is in and whatever crosses the stop
\* (goal_manager_node.py, _stop_callback and the result callbacks).
THEOREM StopEndsHeldGoalHolds == Spec /\ GuardsEnable => StopEndsHeldGoal
<1>1. Spec => ServersFairness
  BY PTL DEF Spec, Fairness
<1>2. ASSUME NEW s \in Servers
      PROVE  Spec /\ GuardsEnable => StopEnds(s)
  BY <1>1, OneServer, OneStopEnds DEF GuardsEnable
<1> QED BY <1>2 DEF StopEndsHeldGoal

\* Each server's part of a request is over after a while: the next server is
\* asked, the request ends, or the goal has begun to run.
Stage(s)    == Asked(s) \/ Responded(s) \/ EndedAt(s)
StageEnds(s) == Stage(s) ~> (OnFrom(s) \/ Moving)

LEMMA OneStageEnds ==
  ASSUME NEW s \in Servers
  PROVE  Spec /\ ServerFairness(s) /\ DeliveryIsEnabled /\ ServerIsEnabled(s) => StageEnds(s)
<1>1. ManagerInv /\ Asked(s) /\ [Next]_vars => Asked(s)' \/ Responded(s)'
  BY AskedStep
<1>2. ManagerInv /\ Asked(s) /\ [Next]_vars /\ <<ServerAnswers(s)>>_vars => Responded(s)'
  BY AskedStep
<1>3. Asked(s) => server[s] = "asked"
  BY DEF Asked
<1>4. ManagerInv /\ Responded(s) /\ [Next]_vars /\ AwaitInv'
        => Responded(s)' \/ EndedAt(s)' \/ Moving'
  BY RespondedStep DEF AwaitInv, EndedAt, Moving
<1>5. ManagerInv /\ Responded(s) /\ [Next]_vars /\ AwaitInv' /\ <<Delivery>>_vars
        => EndedAt(s)' \/ Moving'
  BY RespondedStep DEF AwaitInv, EndedAt, Moving
<1>6. Responded(s) \/ EndedAt(s) => CanDeliver
  BY DEF CanDeliver
<1>7. ManagerInv /\ EndedAt(s) /\ [Next]_vars => EndedAt(s)' \/ OnFrom(s)'
  BY EndedStep
<1>8. ManagerInv /\ EndedAt(s) /\ [Next]_vars /\ <<Delivery>>_vars => OnFrom(s)'
  BY EndedStep
<1>9. Spec /\ ServerFairness(s) /\ ServerIsEnabled(s) => (Asked(s) ~> Responded(s))
  BY <1>1, <1>2, <1>3, ManagerInvariant, PTL DEF Spec, ServerFairness, ServerIsEnabled
<1>10. Spec /\ DeliveryIsEnabled => (Responded(s) ~> (EndedAt(s) \/ Moving))
  BY <1>4, <1>5, <1>6, ManagerInvariant, ProgressInvariant, PTL
  DEF Spec, Fairness, DeliveryIsEnabled
<1>11. Spec /\ DeliveryIsEnabled => (EndedAt(s) ~> OnFrom(s))
  BY <1>6, <1>7, <1>8, ManagerInvariant, PTL DEF Spec, Fairness, DeliveryIsEnabled
<1> QED BY <1>9, <1>10, <1>11, PTL DEF Stage, StageEnds

\* The manager is never wedged: whatever is asked and stopped and answered, again
\* and again it is idle or a goal of Nav2 runs (goal_manager_node.py, the three
\* chained stages and every _finish_*).
THEOREM NeverWedgedHolds == Spec /\ GuardsEnable => NeverWedged
<1>1. Spec => ServersFairness
  BY PTL DEF Spec, Fairness
<1>2. ASSUME NEW s \in Servers PROVE Spec /\ GuardsEnable => StageEnds(s)
  BY <1>1, OneServer, OneStageEnds DEF GuardsEnable
<1>3. Spec /\ GuardsEnable
        => StageEnds("compute") /\ StageEnds("navigate") /\ StageEnds("follow")
  BY <1>2 DEF Servers
<1>4. ManagerInv /\ AwaitInv => Moving \/ Stage("compute") \/ Stage("navigate") \/ Stage("follow")
  BY DEF ManagerInv, AwaitInv, TypeOK, Servers, Moving, Stage, Asked, Responded, EndedAt
<1>5. OnFrom("compute") => Moving \/ Stage("navigate") \/ Stage("follow")
  BY DEF OnFrom, Moving, Stage
<1>6. OnFrom("navigate") => Moving \/ Stage("follow")
  BY DEF OnFrom, Moving, Stage
<1>7. OnFrom("follow") => Moving
  BY DEF OnFrom, Moving
<1>8. Spec /\ GuardsEnable => []<>Moving
  BY <1>3, <1>4, <1>5, <1>6, <1>7, ManagerInvariant, ProgressInvariant, PTL DEF StageEnds
<1> QED BY <1>8, PTL DEF NeverWedged, Moving
=============================================================================
