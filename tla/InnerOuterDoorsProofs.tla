------------------------ MODULE InnerOuterDoorsProofs ------------------------
(***************************************************************************)
(* The invariants of InnerOuterDoors, for all users, keys and lengths of   *)
(* operation. Each is kept by one event of the outer workflow together     *)
(* with what Follow makes the inner one do in it, so most lemmas are about *)
(* these two functions; the steps of the threads follow from them.         *)
(***************************************************************************)
EXTENDS InnerOuterDoors, TLAPS

Waiting == "WaitOuterDoorOpen"

(* v waits for its timer only while the timer runs, or its expiry does (b).  *)
Armed(v, b) == v.st \in TimedStates \ {"WaitLockDoorError"} => v.timer \/ b

Creds(o, i) == i.user1 \in {NoUser, o.user1} /\ i.user2 \in {NoUser, o.user2}
Follows(o, i) == i.st = Waiting => o.st \notin CancelStates

Moves(w, e, g) == Target(w.st, e, g) # w.st
LogsOut(w, e, g, ok) == Moves(w, e, g) /\ Entered(w, e, g, ok) \in LogoutStates

-----------------------------------------------------------------------------
(* What both workflows inherit from their state machine.                     *)

(* Every row leads from a state, on an event, to a state. *)
LEMMA RowsAreTransitions ==
    \A r \in Transitions : r[2] \in Events /\ r[4] \in States
BY DEF Transitions, IdleTable, WaitOuterDoorOpenTable, TimeDelayTable,
       AccessTimeTable, WaitUnlockDoorTable, WaitOpenDoorTable,
       WaitCloseDoorTable, WaitCloseDoorWarningTable, WaitCloseDoorErrorTable,
       WaitLockDoorTable, WaitLockDoorErrorTable, OpenDoorViolationTable,
       DoorLockAndOpenTable, WaitUnlockDoorWithOpenDoorTable,
       States, TimedStates, BuzzStates, Events

(* The machine only moves along a row. *)
LEMMA MovesAlongRow ==
    ASSUME NEW st \in States, NEW e \in Events, NEW g, Target(st, e, g) # st
    PROVE  \E r \in Transitions :
             r[1] = st /\ r[2] = e /\ r[3] \in g /\ r[4] = Target(st, e, g)
<1>1. Enabled(st, e, g) = {r \in Transitions : r[1] = st /\ r[2] = e /\ r[3] \in g}
  BY DEF Enabled, Rows
<1>2. Enabled(st, e, g) # {}
  BY DEF Target
<1>3. PICK r \in Enabled(st, e, g) : r = CHOOSE x \in Enabled(st, e, g) : TRUE
  BY <1>2
<1>4. Target(st, e, g) = r[4]
  BY <1>2, <1>3 DEF Target
<1>. QED  BY <1>1, <1>3, <1>4

(* An event leaves the machine in a state. *)
LEMMA TargetType ==
    ASSUME NEW st \in States, NEW e \in Events, NEW g
    PROVE  Target(st, e, g) \in States
BY RowsAreTransitions, MovesAlongRow

(* Guards that mention the login hold only when the login is complete. *)
LEMMA GuardsMean ==
    ASSUME NEW w, NEW k, NEW locked, NEW open
    PROVE  LET g == Guards(w, k, locked, open) IN
           /\ "any" \in g
           /\ "complete" \in g \/ "noDelay" \in g => isLoginComplete(w, k)
           /\ "noDelay" \in g => ~hasTimeDelay(w, k, open)
BY DEF Guards

(* An expiry takes the machine out of every state that waits for one. *)
LEMMA ExpiryLeaves ==
    ASSUME NEW st \in TimedStates \ {"WaitLockDoorError"}, NEW g, "any" \in g
    PROVE  Target(st, "TIMER_EXPIRED", g) # st
<1>1. PICK r \in Transitions : r[1] = st /\ r[2] = "TIMER_EXPIRED" /\ r[3] = "any"
  <2>1. /\ <<"TimeDelay", "TIMER_EXPIRED", "any", "AccessTime">> \in TimeDelayTable
        /\ <<"AccessTime", "TIMER_EXPIRED", "any", "Idle">> \in AccessTimeTable
        /\ <<"WaitUnlockDoor", "TIMER_EXPIRED", "any", "Idle">> \in WaitUnlockDoorTable
        /\ <<"WaitOpenDoor", "TIMER_EXPIRED", "any", "WaitLockDoor">> \in WaitOpenDoorTable
        /\ <<"WaitCloseDoor", "TIMER_EXPIRED", "any", "WaitCloseDoorWarning">>
             \in WaitCloseDoorTable
        /\ <<"WaitCloseDoorWarning", "TIMER_EXPIRED", "any", "WaitCloseDoorError">>
             \in WaitCloseDoorWarningTable
        /\ <<"WaitLockDoor", "TIMER_EXPIRED", "any", "WaitLockDoorError">>
             \in WaitLockDoorTable
        /\ <<"WaitUnlockDoorWithOpenDoor", "TIMER_EXPIRED", "any", "DoorLockAndOpen">>
             \in WaitUnlockDoorWithOpenDoorTable
    BY DEF TimeDelayTable, AccessTimeTable, WaitUnlockDoorTable, WaitOpenDoorTable,
           WaitCloseDoorTable, WaitCloseDoorWarningTable, WaitLockDoorTable,
           WaitUnlockDoorWithOpenDoorTable
  <2>2. PICK to : <<st, "TIMER_EXPIRED", "any", to>> \in Transitions
    BY <2>1 DEF Transitions, TimedStates
  <2>. QED  BY <2>2
<1>2. st \in States /\ "TIMER_EXPIRED" \in Events
  BY DEF States, Events
<1>3. Enabled(st, "TIMER_EXPIRED", g) =
        {x \in Transitions : x[1] = st /\ x[2] = "TIMER_EXPIRED" /\ x[3] \in g}
  BY <1>2 DEF Enabled, Rows
<1>4. Enabled(st, "TIMER_EXPIRED", g) # {}
  BY <1>1, <1>3
<1>5. PICK x \in Enabled(st, "TIMER_EXPIRED", g) :
        x = CHOOSE y \in Enabled(st, "TIMER_EXPIRED", g) : TRUE
  BY <1>4
<1>6. x \in Transitions /\ x[1] = st /\ x[2] = "TIMER_EXPIRED"
      /\ Target(st, "TIMER_EXPIRED", g) = x[4]
  BY <1>3, <1>4, <1>5 DEF Target
<1>7. x[4] # x[1]
  BY <1>6 DEF Transitions, IdleTable, WaitOuterDoorOpenTable, TimeDelayTable,
       AccessTimeTable, WaitUnlockDoorTable, WaitOpenDoorTable,
       WaitCloseDoorTable, WaitCloseDoorWarningTable, WaitCloseDoorErrorTable,
       WaitLockDoorTable, WaitLockDoorErrorTable, OpenDoorViolationTable,
       DoorLockAndOpenTable, WaitUnlockDoorWithOpenDoorTable
<1>. QED  BY <1>6, <1>7

LEMMA ErrorStateType == \A st : ErrorState(st) \in States
BY DEF ErrorState, States, BuzzStates, TimedStates

(* What entering a state does to a workflow. *)
LEMMA EnterFields ==
    ASSUME NEW u \in Workflow, NEW st \in States
    PROVE  LET y == Enter(u, st) IN
           /\ y \in Workflow /\ y.st = st
           /\ st \in TimedStates => y.timer
<1>. DEFINE t == st \in TimedStates \/ (u.timer /\ u.st \notin TimedStates)
            h == u.hasUnlocked /\ st # "Idle"
            n == u.generate /\ st # "Idle"
<1>1. t \in BOOLEAN /\ h \in BOOLEAN /\ n \in BOOLEAN
  OBVIOUS
<1>2. st \in TimedStates => t
  OBVIOUS
<1>3. CASE st \in LogoutStates
  <2>1. Enter(u, st) = [removeLoggedUsers(u) EXCEPT !.st = st, !.timer = t,
                          !.hasUnlocked = h, !.generate = n]
    BY <1>3 DEF Enter
  <2>. HIDE DEF t, h, n
  <2>. QED  BY <1>1, <1>2, <2>1 DEF removeLoggedUsers, Workflow
<1>4. CASE st \notin LogoutStates
  <2>1. Enter(u, st) = [u EXCEPT !.st = st, !.timer = t,
                          !.hasUnlocked = h, !.generate = n]
    BY <1>4 DEF Enter
  <2>. HIDE DEF t, h, n
  <2>. QED  BY <1>1, <1>2, <1>4, <2>1 DEF Workflow
<1>. QED  BY <1>3, <1>4

(* executeStateMachine returns a workflow in the state Entered names. *)
LEMMA ExecuteType ==
    ASSUME NEW w \in Workflow, NEW e \in Events, NEW g, NEW ok \in BOOLEAN
    PROVE  /\ executeStateMachine(w, e, g, ok) \in Workflow
           /\ executeStateMachine(w, e, g, ok).st = Entered(w, e, g, ok)
           /\ Entered(w, e, g, ok) \in States
<1>1. w.st \in States
  BY DEF Workflow
<1>2. Target(w.st, e, g) \in States
  BY <1>1, TargetType
<1>3. Entered(w, e, g, ok) \in States /\ \A st : ErrorState(st) \in States
  BY <1>2, ErrorStateType DEF Entered
<1>4. ConsumeForce(w, e, g) \in Workflow /\ ConsumeForce(w, e, g).st = w.st
  BY DEF ConsumeForce, Workflow
<1>7. ASSUME NEW v \in Workflow
      PROVE  /\ [v EXCEPT !.hasUnlocked = TRUE] \in Workflow
             /\ [v EXCEPT !.hasUnlocked = TRUE].st = v.st
  BY DEF Workflow
<1>8. CASE Target(w.st, e, g) = w.st
  BY <1>2, <1>3, <1>4, <1>8 DEF executeStateMachine, Entered, SendsUnlock
<1>9. CASE Target(w.st, e, g) # w.st
  BY <1>2, <1>3, <1>4, <1>7, <1>9, EnterFields DEF executeStateMachine, Entered
<1>. QED  BY <1>8, <1>9

(* An event that moves a workflow into a timed state leaves its timer        *)
(* running, and one that does not move it leaves the timer alone.            *)
LEMMA ExecuteFields ==
    ASSUME NEW w \in Workflow, NEW e \in Events, NEW g, NEW ok \in BOOLEAN
    PROVE  LET x == executeStateMachine(w, e, g, ok) IN
           /\ Moves(w, e, g) /\ x.st \in TimedStates => x.timer
           /\ ~Moves(w, e, g) => x.st = w.st /\ x.timer = w.timer
<1>. DEFINE v == ConsumeForce(w, e, g)
            x == executeStateMachine(w, e, g, ok)
            n == Entered(w, e, g, ok)
<1>1. v \in Workflow /\ v.st = w.st /\ v.timer = w.timer
  BY DEF ConsumeForce, Workflow
<1>2. n \in States
  BY ExecuteType
<1>3. CASE ~Moves(w, e, g)
  BY <1>1, <1>3 DEF executeStateMachine, SendsUnlock, Moves
<1>4. CASE Moves(w, e, g)
  <2>1. x = Enter(v, n) \/ x = [Enter(v, n) EXCEPT !.hasUnlocked = TRUE]
    BY <1>4 DEF executeStateMachine, Entered, Moves
  <2>. HIDE DEF v, x, n
  <2>2. /\ Enter(v, n) \in Workflow /\ Enter(v, n).st = n
        /\ n \in TimedStates => Enter(v, n).timer
    BY <1>1, <1>2, EnterFields
  <2>3. x.st = n /\ (n \in TimedStates => x.timer)
    BY <2>1, <2>2 DEF Workflow
  <2>. QED  BY <1>4, <2>3 DEF x
<1>. QED  BY <1>3, <1>4

-----------------------------------------------------------------------------
(* Only the outer door makes a workflow wait for it ...                      *)
LEMMA WaitsWhenTold ==
    ASSUME NEW st \in States, NEW e \in Events, NEW g, Target(st, e, g) = Waiting
    PROVE  st = Waiting \/ e = "OUTER_DOOR_START"
<1>. SUFFICES ASSUME st # Waiting PROVE e = "OUTER_DOOR_START"
  OBVIOUS
<1>1. PICK r \in Transitions :
        r[1] = st /\ r[2] = e /\ r[3] \in g /\ r[4] = Target(st, e, g)
  BY MovesAlongRow
<1>. QED
  BY <1>1 DEF Waiting, Transitions, IdleTable, WaitOuterDoorOpenTable, TimeDelayTable,
       AccessTimeTable, WaitUnlockDoorTable, WaitOpenDoorTable,
       WaitCloseDoorTable, WaitCloseDoorWarningTable, WaitCloseDoorErrorTable,
       WaitLockDoorTable, WaitLockDoorErrorTable, OpenDoorViolationTable,
       DoorLockAndOpenTable, WaitUnlockDoorWithOpenDoorTable

(* ... and cancelOuterDoor ends the wait.                                    *)
LEMMA CancelEndsWait ==
    ASSUME NEW g, "any" \in g
    PROVE  Target(Waiting, "OUTER_DOOR_CANCEL", g) = "Idle"
<1>. DEFINE e == "OUTER_DOOR_CANCEL"
            row == <<Waiting, e, "any", "Idle">>
<1>1. row \in Transitions
  BY DEF Waiting, Transitions, WaitOuterDoorOpenTable
<1>2. Waiting \in States /\ e \in Events
  BY DEF Waiting, States, Events
<1>3. Enabled(Waiting, e, g) = {x \in Transitions : x[1] = Waiting /\ x[2] = e /\ x[3] \in g}
  BY <1>2 DEF Enabled, Rows
<1>4. Enabled(Waiting, e, g) # {}
  BY <1>1, <1>3
<1>5. PICK x \in Enabled(Waiting, e, g) : x = CHOOSE y \in Enabled(Waiting, e, g) : TRUE
  BY <1>4
<1>6. x \in Transitions /\ x[1] = Waiting /\ x[2] = e /\ Target(Waiting, e, g) = x[4]
  BY <1>3, <1>4, <1>5 DEF Target
<1>7. x[4] = "Idle"
  BY <1>6 DEF Waiting, Transitions, IdleTable, WaitOuterDoorOpenTable, TimeDelayTable,
       AccessTimeTable, WaitUnlockDoorTable, WaitOpenDoorTable,
       WaitCloseDoorTable, WaitCloseDoorWarningTable, WaitCloseDoorErrorTable,
       WaitLockDoorTable, WaitLockDoorErrorTable, OpenDoorViolationTable,
       DoorLockAndOpenTable, WaitUnlockDoorWithOpenDoorTable
<1>. QED  BY <1>6, <1>7

(* The states that log the users out are the only ones that do.              *)
LEMMA EnterUsers ==
    ASSUME NEW v \in Workflow, NEW st \in States
    PROVE  IF st \in LogoutStates
           THEN Enter(v, st).user1 = NoUser /\ Enter(v, st).user2 = NoUser
           ELSE Enter(v, st).user1 = v.user1 /\ Enter(v, st).user2 = v.user2
BY DEF Enter, removeLoggedUsers, Workflow

LEMMA ExecuteUsers ==
    ASSUME NEW w \in Workflow, NEW e \in Events, NEW g, NEW ok \in BOOLEAN
    PROVE  LET x == executeStateMachine(w, e, g, ok) IN
           IF LogsOut(w, e, g, ok) THEN x.user1 = NoUser /\ x.user2 = NoUser
           ELSE x.user1 = w.user1 /\ x.user2 = w.user2
<1>. DEFINE to == Target(w.st, e, g)
            v == ConsumeForce(w, e, g)
            x == executeStateMachine(w, e, g, ok)
<1>1. v \in Workflow /\ v.user1 = w.user1 /\ v.user2 = w.user2
  BY DEF ConsumeForce, Workflow
<1>2. to \in States /\ ErrorState(to) \in States
  BY TargetType, ErrorStateType DEF Workflow
<1>3. CASE to = w.st
  BY <1>1, <1>3 DEF executeStateMachine, LogsOut, Moves
<1>4. CASE to # w.st /\ ~(SendsUnlock(w, e, g) /\ ok)
  <2>1. x = Enter(v, Entered(w, e, g, ok)) /\ Entered(w, e, g, ok) \in States
    BY <1>2, <1>4 DEF executeStateMachine, Entered
  <2>. HIDE DEF v, x
  <2>. QED  BY <1>1, <1>4, <2>1, EnterUsers DEF LogsOut, Moves, x
<1>5. CASE to # w.st /\ SendsUnlock(w, e, g) /\ ok
  <2>1. x = [Enter(v, to) EXCEPT !.hasUnlocked = TRUE] /\ Entered(w, e, g, ok) = to
    BY <1>5 DEF executeStateMachine, Entered
  <2>2. Enter(v, to) \in Workflow
    BY <1>1, <1>2, EnterFields
  <2>. HIDE DEF v, x, to
  <2>3. x.user1 = Enter(v, to).user1 /\ x.user2 = Enter(v, to).user2
    BY <2>1, <2>2 DEF Workflow
  <2>. QED  BY <1>1, <1>2, <1>5, <2>1, <2>3, EnterUsers DEF LogsOut, Moves, x, to
<1>. QED  BY <1>3, <1>4, <1>5

-----------------------------------------------------------------------------
(* One event of a workflow.                                                  *)
LEMMA ExecuteArmed ==
    ASSUME NEW w \in Workflow, NEW e \in Events, NEW g, NEW ok \in BOOLEAN, NEW b,
           Armed(w, b)
    PROVE  Armed(executeStateMachine(w, e, g, ok), b)
BY ExecuteFields, ExecuteType DEF Armed, Moves

LEMMA ExecuteWaits ==
    ASSUME NEW w \in Workflow, NEW e \in Events, NEW g, NEW ok \in BOOLEAN,
           executeStateMachine(w, e, g, ok).st = Waiting
    PROVE  w.st = Waiting \/ e = "OUTER_DOOR_START"
<1>1. Entered(w, e, g, ok) = Waiting
  BY ExecuteType
<1>2. Target(w.st, e, g) = Waiting
  BY <1>1 DEF Entered, ErrorState, Waiting
<1>. QED  BY <1>2, WaitsWhenTold DEF Workflow

LEMMA CancelledNotWaiting ==
    ASSUME NEW w \in Workflow, NEW g, "any" \in g, NEW ok \in BOOLEAN
    PROVE  executeStateMachine(w, "OUTER_DOOR_CANCEL", g, ok).st # Waiting
<1>. SUFFICES ASSUME executeStateMachine(w, "OUTER_DOOR_CANCEL", g, ok).st = Waiting
              PROVE  FALSE
  OBVIOUS
<1>1. "OUTER_DOOR_CANCEL" \in Events
  BY DEF Events
<1>2. w.st = Waiting
  BY <1>1, ExecuteWaits
<1>3. Entered(w, "OUTER_DOOR_CANCEL", g, ok) = Waiting
  BY <1>1, ExecuteType
<1>4. Target(w.st, "OUTER_DOOR_CANCEL", g) = Waiting
  BY <1>3 DEF Entered, ErrorState, Waiting
<1>. QED  BY <1>2, <1>4, CancelEndsWait DEF Waiting

-----------------------------------------------------------------------------
(* What Follow does to the inner workflow in an event of the outer one.      *)
LEMMA OuterGuardsAny == \A o : "any" \in OuterGuards(o)
BY GuardsMean DEF OuterGuards

LEMMA InnerGuardsAny == \A i : "any" \in InnerGuards(i)
BY GuardsMean DEF InnerGuards

LEMMA RunInnerFields ==
    ASSUME NEW i \in Workflow, NEW e \in Events, NEW ok \in BOOLEAN
    PROVE  LET y == RunInner(i, e, ok) IN
           /\ y \in Workflow
           /\ \A b \in BOOLEAN : Armed(i, b) => Armed(y, b)
           /\ \/ y.user1 = i.user1 /\ y.user2 = i.user2
              \/ y.user1 = NoUser /\ y.user2 = NoUser
           /\ y.st = Waiting => i.st = Waiting \/ e = "OUTER_DOOR_START"
           /\ e = "OUTER_DOOR_CANCEL" => y.st # Waiting
<1>. DEFINE g == InnerGuards(i)
            y == executeStateMachine(i, e, g, ok)
<1>1. y \in Workflow
  BY ExecuteType
<1>2. \A b \in BOOLEAN : Armed(i, b) => Armed(y, b)
  BY ExecuteArmed
<1>3. \/ y.user1 = i.user1 /\ y.user2 = i.user2
      \/ y.user1 = NoUser /\ y.user2 = NoUser
  BY ExecuteUsers
<1>4. y.st = Waiting => i.st = Waiting \/ e = "OUTER_DOOR_START"
  BY ExecuteWaits
<1>5. e = "OUTER_DOOR_CANCEL" => y.st # Waiting
  BY InnerGuardsAny, CancelledNotWaiting
<1>. QED  BY <1>1, <1>2, <1>3, <1>4, <1>5 DEF RunInner

LEMMA ClearUsersFields ==
    ASSUME NEW i \in Workflow
    PROVE  LET y == ClearUsers(i) IN
           /\ y \in Workflow /\ y.st = i.st /\ y.timer = i.timer
           /\ y.user1 = NoUser /\ y.user2 = NoUser
BY DEF ClearUsers, Workflow

(* With the link set, an event that moves the outer workflow into a state    *)
(* that cancels stops the wait of the inner one, one that logs the users out of the outer       *)
(* workflow takes them from the inner one, and any other leaves the inner    *)
(* workflow its users or takes both.                                         *)
LEMMA FollowFields ==
    ASSUME NEW o \in Workflow, NEW i \in Workflow, NEW e \in Events, NEW ok \in BOOLEAN
    PROVE  LET y == Follow(o, i, e, ok)
               g == OuterGuards(o)
           IN  /\ y \in Workflow
               /\ \A b \in BOOLEAN : Armed(i, b) => Armed(y, b)
               /\ ~linked \/ ~Moves(o, e, g) => y = i
               /\ \/ y.user1 = i.user1 /\ y.user2 = i.user2
                  \/ y.user1 = NoUser /\ y.user2 = NoUser
               /\ linked /\ LogsOut(o, e, g, ok) => y.user1 = NoUser /\ y.user2 = NoUser
               /\ linked /\ Moves(o, e, g) /\ Entered(o, e, g, ok) \in CancelStates => y.st # Waiting
<1>. DEFINE g  == OuterGuards(o)
            st == Entered(o, e, g, ok)
            i1 == IF o.st = "Idle" THEN RunInner(i, "OUTER_DOOR_START", TRUE) ELSE i
            i2 == IF st \in CancelStates THEN RunInner(i1, "OUTER_DOOR_CANCEL", TRUE) ELSE i1
            y  == Follow(o, i, e, ok)
<1>1. y = IF ~linked \/ ~Moves(o, e, g) THEN i
          ELSE IF st \in LogoutStates THEN ClearUsers(i2) ELSE i2
  BY DEF Follow, StartAndCancel, Moves
<1>2. "OUTER_DOOR_START" \in Events /\ "OUTER_DOOR_CANCEL" \in Events
  BY DEF Events
<1>3. /\ i1 \in Workflow
      /\ \A b \in BOOLEAN : Armed(i, b) => Armed(i1, b)
      /\ \/ i1.user1 = i.user1 /\ i1.user2 = i.user2
         \/ i1.user1 = NoUser /\ i1.user2 = NoUser
  BY <1>2, RunInnerFields
<1>. HIDE DEF i1, st
<1>4. /\ i2 \in Workflow
      /\ \A b \in BOOLEAN : Armed(i1, b) => Armed(i2, b)
      /\ \/ i2.user1 = i1.user1 /\ i2.user2 = i1.user2
         \/ i2.user1 = NoUser /\ i2.user2 = NoUser
      /\ st \in CancelStates => i2.st # Waiting
  BY <1>2, <1>3, RunInnerFields
<1>. HIDE DEF i2
<1>5. LET c == ClearUsers(i2) IN
      /\ c \in Workflow /\ c.st = i2.st /\ c.timer = i2.timer
      /\ c.user1 = NoUser /\ c.user2 = NoUser
  BY <1>4, ClearUsersFields
<1>6. \A b \in BOOLEAN : Armed(i2, b) => Armed(ClearUsers(i2), b)
  BY <1>5 DEF Armed
<1>. HIDE DEF y, g
<1>7. CASE ~linked \/ ~Moves(o, e, g)
  BY <1>1, <1>7 DEF LogsOut, y, g
<1>8. CASE ~(~linked \/ ~Moves(o, e, g)) /\ st \in LogoutStates
  <2>1. y = ClearUsers(i2)
    BY <1>1, <1>8
  <2>. QED  BY <1>3, <1>4, <1>5, <1>6, <1>8, <2>1 DEF y, g, st
<1>9. CASE ~(~linked \/ ~Moves(o, e, g)) /\ st \notin LogoutStates
  <2>1. y = i2
    BY <1>1, <1>9
  <2>. QED  BY <1>3, <1>4, <1>9, <2>1 DEF LogsOut, y, g, st
<1>. QED  BY <1>7, <1>8, <1>9

(* A step that leaves the expiry alone need only keep its workflows armed.   *)
Keeps(v, w) == w \in Workflow /\ \A b \in BOOLEAN : Armed(v, b) => Armed(w, b)

(* An event of the outer workflow keeps what the two workflows share.        *)
LEMMA EventPair ==
    ASSUME NEW o \in Workflow, NEW i \in Workflow, NEW e \in Events, NEW ok \in BOOLEAN
    PROVE  LET x == RunOuter(o, e, ok)
               y == Follow(o, i, e, ok)
           IN  /\ x \in Workflow /\ y \in Workflow
               /\ Keeps(o, x) /\ Keeps(i, y)
               /\ linked /\ Creds(o, i) => Creds(x, y)
               /\ linked /\ Follows(o, i) => Follows(x, y)
               /\ ~linked => y = i
<1>. DEFINE g == OuterGuards(o)
            x == RunOuter(o, e, ok)
            y == Follow(o, i, e, ok)
<1>1. x = executeStateMachine(o, e, g, ok)
  BY DEF RunOuter
<1>2. /\ x \in Workflow /\ x.st = Entered(o, e, g, ok)
      /\ ~Moves(o, e, g) => x.st = o.st
  BY <1>1, ExecuteType, ExecuteFields DEF Moves
<1>3. \A b \in BOOLEAN : Armed(o, b) => Armed(x, b)
  BY <1>1, ExecuteArmed
<1>4. IF LogsOut(o, e, g, ok) THEN x.user1 = NoUser /\ x.user2 = NoUser
      ELSE x.user1 = o.user1 /\ x.user2 = o.user2
  BY <1>1, ExecuteUsers
<1>5. /\ y \in Workflow
      /\ \A b \in BOOLEAN : Armed(i, b) => Armed(y, b)
      /\ ~linked \/ ~Moves(o, e, g) => y = i
      /\ \/ y.user1 = i.user1 /\ y.user2 = i.user2
         \/ y.user1 = NoUser /\ y.user2 = NoUser
      /\ linked /\ LogsOut(o, e, g, ok) => y.user1 = NoUser /\ y.user2 = NoUser
      /\ linked /\ Moves(o, e, g) /\ Entered(o, e, g, ok) \in CancelStates => y.st # Waiting
  BY FollowFields
<1>. HIDE DEF x, y, g
<1>6. ASSUME linked, Creds(o, i) PROVE Creds(x, y)
  BY <1>4, <1>5, <1>6 DEF Creds
<1>7. ASSUME linked, Follows(o, i) PROVE Follows(x, y)
  BY <1>2, <1>5, <1>7 DEF Follows
<1>8. Keeps(o, x) /\ Keeps(i, y)
  BY <1>2, <1>3, <1>5 DEF Keeps
<1>. QED  BY <1>2, <1>5, <1>6, <1>7, <1>8 DEF x, y, g

(* The operator's calls on the users of a workflow.                          *)
LEMMA UserFields ==
    ASSUME NEW w \in Workflow, NEW u \in Users
    PROVE  /\ removeLoggedUsers(w) \in Workflow
           /\ removeLoggedUsers(w).user1 = NoUser /\ removeLoggedUsers(w).user2 = NoUser
           /\ \A v \in {removeLoggedUsers(w), LoggedIn(w, u),
                        [w EXCEPT !.user1 = u], [w EXCEPT !.user2 = u]} :
                v \in Workflow /\ v.st = w.st /\ v.timer = w.timer
BY DEF removeLoggedUsers, LoggedIn, Workflow

(* onLoginUser gives both workflows the same user in the same place.         *)
LoginInner(o, i, u) ==
    IF ~linked THEN i
    ELSE IF o.user1 = NoUser THEN [i EXCEPT !.user1 = u] ELSE [i EXCEPT !.user2 = u]

LEMMA LoginPair ==
    ASSUME NEW o \in Workflow, NEW i \in Workflow, NEW u \in Users
    PROVE  LET x == LoggedIn(o, u)
               y == LoginInner(o, i, u)
           IN  /\ x \in Workflow /\ x.st = o.st /\ x.timer = o.timer
               /\ y \in Workflow /\ y.st = i.st /\ y.timer = i.timer
               /\ Creds(o, i) /\ linked => Creds(x, y)
               /\ ~linked => y = i
<1>1. /\ LoggedIn(o, u) \in Workflow /\ LoggedIn(o, u).st = o.st
      /\ LoggedIn(o, u).timer = o.timer
  BY UserFields
<1>2. LET y == LoginInner(o, i, u) IN
      y \in Workflow /\ y.st = i.st /\ y.timer = i.timer
  BY UserFields DEF LoginInner
<1>3. ASSUME Creds(o, i), linked PROVE Creds(LoggedIn(o, u), LoginInner(o, i, u))
  <2>1. CASE o.user1 = NoUser
    <3>1. /\ LoggedIn(o, u).user1 = u /\ LoggedIn(o, u).user2 = o.user2
          /\ LoginInner(o, i, u).user1 = u /\ LoginInner(o, i, u).user2 = i.user2
      BY <1>3, <2>1 DEF LoggedIn, LoginInner, Workflow
    <3>. QED  BY <1>3, <3>1 DEF Creds
  <2>2. CASE o.user1 # NoUser
    <3>1. /\ LoggedIn(o, u).user1 = o.user1 /\ LoggedIn(o, u).user2 = u
          /\ LoginInner(o, i, u).user1 = i.user1 /\ LoginInner(o, i, u).user2 = u
      BY <1>3, <2>2 DEF LoggedIn, LoginInner, Workflow
    <3>. QED  BY <1>3, <3>1 DEF Creds
  <2>. QED  BY <2>1, <2>2
<1>. QED  BY <1>1, <1>2, <1>3 DEF LoginInner

LEMMA LogOutFields ==
    ASSUME NEW w \in Workflow
    PROVE  LET x == removeLoggedUsers(w) IN
           /\ x \in Workflow /\ x.st = w.st /\ x.timer = w.timer
           /\ x.user1 = NoUser /\ x.user2 = NoUser
BY DEF removeLoggedUsers, Workflow

-----------------------------------------------------------------------------
(* The invariant of the timers: both workflows are well formed, and each has *)
(* its timer or its expiry on the way while it waits for one.                *)
Pair ==
    /\ outer \in Workflow /\ inner \in Workflow
    /\ Armed(outer, expiry = <<"outer", "calling">>)
    /\ Armed(inner, expiry = <<"inner", "calling">>)

LEMMA KeepsPair ==
    ASSUME Pair, Keeps(outer, outer'), Keeps(inner, inner'), expiry' = expiry
    PROVE  Pair'
<1>. DEFINE b == expiry = <<"outer", "calling">>
            c == expiry = <<"inner", "calling">>
<1>1. b \in BOOLEAN /\ c \in BOOLEAN
  OBVIOUS
<1>2. Armed(outer, b) /\ Armed(inner, c)
  BY DEF Pair
<1>3. outer' \in Workflow /\ inner' \in Workflow
  BY DEF Keeps
<1>. HIDE DEF b, c
<1>4. Armed(outer', b) /\ Armed(inner', c)
  BY <1>1, <1>2 DEF Keeps
<1>. QED  BY <1>3, <1>4 DEF Pair, Armed, b, c

LEMMA KeepsSame ==
    ASSUME NEW v \in Workflow, NEW w \in Workflow, w.st = v.st, w.timer = v.timer
    PROVE  Keeps(v, w)
BY DEF Keeps, Armed

LEMMA KeepsLogOut ==
    ASSUME NEW w \in Workflow
    PROVE  Keeps(w, removeLoggedUsers(w)) /\ Keeps(w, ClearUsers(w)) /\ Keeps(w, w)
BY LogOutFields, ClearUsersFields, KeepsSame

LEMMA KeepsRunInner ==
    ASSUME NEW i \in Workflow, NEW e \in Events, NEW ok \in BOOLEAN
    PROVE  Keeps(i, RunInner(i, e, ok))
BY RunInnerFields DEF Keeps

LEMMA KeepsEvent ==
    ASSUME NEW o \in Workflow, NEW i \in Workflow, NEW e \in Events, NEW ok \in BOOLEAN
    PROVE  Keeps(o, RunOuter(o, e, ok)) /\ Keeps(i, Follow(o, i, e, ok))
BY EventPair

LEMMA KeepsTrans ==
    ASSUME NEW u \in Workflow, NEW v, NEW w, Keeps(u, v), Keeps(v, w)
    PROVE  Keeps(u, w)
BY DEF Keeps

LEMMA EventNames ==
    /\ {"USER_LOGIN", "CANCEL_TIME_DELAY", "OPEN_DOOR", "CLOSE_DOOR", "LOCK_DOOR",
        "TIMER_EXPIRED", "OUTER_DOOR_OPEN"} \subseteq Events
    /\ TRUE \in BOOLEAN
BY DEF Events

(* An expiry ends the wait it is for.                                        *)
LEMMA ExpiryRuns ==
    ASSUME NEW w \in Workflow, NEW g, "any" \in g, NEW x,
           x = executeStateMachine(w, "TIMER_EXPIRED", g, TRUE)
    PROVE  Armed(x, FALSE)
<1>. SUFFICES ASSUME x.st \in TimedStates \ {"WaitLockDoorError"} PROVE x.timer
  BY DEF Armed
<1>1. "TIMER_EXPIRED" \in Events /\ w.st \in States
  BY DEF Events, Workflow
<1>2. CASE Target(w.st, "TIMER_EXPIRED", g) # w.st
  BY <1>1, <1>2, ExecuteFields DEF Moves
<1>3. CASE Target(w.st, "TIMER_EXPIRED", g) = w.st
  <2>1. x.st = w.st
    BY <1>1, <1>3, ExecuteFields DEF Moves
  <2>. QED  BY <1>3, <2>1, ExpiryLeaves
<1>. QED  BY <1>2, <1>3

LEMMA TimerPair ==
    ASSUME Pair, Timer
    PROVE  Pair'
<1>. PICK d \in Doors : TimerPick(d) \/ TimerExpire(d) \/ timerExpired(d)
  BY DEF Timer
<1>1. CASE TimerPick(d)
  <2>1. /\ expiry = <<>> /\ expiry' = <<d, "picked">>
        /\ outer' = outer /\ inner' = inner
    BY <1>1 DEF TimerPick, None
  <2>. QED  BY <2>1 DEF Pair, Armed
<1>2. CASE TimerExpire(d)
  <2>1. expiry = <<d, "picked">> /\ expiry' = <<d, "calling">>
    BY <1>2 DEF TimerExpire
  <2>2. Armed(outer, FALSE) /\ Armed(inner, FALSE)
    BY <2>1 DEF Pair, Armed
  <2>3. CASE d = "outer"
    <3>1. outer' = [outer EXCEPT !.timer = FALSE] /\ inner' = inner
      BY <1>2, <2>3 DEF TimerExpire
    <3>2. outer' \in Workflow
      BY <3>1 DEF Pair, Workflow
    <3>. QED  BY <2>1, <2>2, <2>3, <3>1, <3>2 DEF Pair, Armed
  <2>4. CASE d = "inner"
    <3>1. inner' = [inner EXCEPT !.timer = FALSE] /\ outer' = outer
      BY <1>2, <2>4 DEF TimerExpire
    <3>2. inner' \in Workflow
      BY <3>1 DEF Pair, Workflow
    <3>. QED  BY <2>1, <2>2, <2>4, <3>1, <3>2 DEF Pair, Armed
  <2>. QED  BY <2>3, <2>4 DEF Doors
<1>3. CASE timerExpired(d)
  <2>1. expiry = <<d, "calling">> /\ expiry' = <<>> /\ "TIMER_EXPIRED" \in Events
    BY <1>3, EventNames DEF timerExpired, None
  <2>2. CASE d = "outer"
    <3>1. outer' = RunOuter(outer, "TIMER_EXPIRED", TRUE)
          /\ inner' = Follow(outer, inner, "TIMER_EXPIRED", TRUE)
      BY <1>3, <2>2 DEF timerExpired, OuterStep
    <3>2. Keeps(outer, outer') /\ Keeps(inner, inner')
      BY <2>1, <3>1, KeepsEvent DEF Pair
    <3>3. Armed(outer', FALSE)
      BY <3>1, ExpiryRuns, OuterGuardsAny DEF RunOuter, Pair
    <3>4. Armed(inner, FALSE)
      BY <2>1, <2>2 DEF Pair, Armed
    <3>. QED  BY <2>1, <3>2, <3>3, <3>4 DEF Pair, Keeps, Armed
  <2>3. CASE d = "inner"
    <3>1. outer' = outer /\ inner' = RunInner(inner, "TIMER_EXPIRED", TRUE)
      BY <1>3, <2>3 DEF timerExpired
    <3>2. Keeps(inner, inner')
      BY <2>1, <3>1, KeepsRunInner DEF Pair
    <3>3. Armed(inner', FALSE)
      BY <3>1, ExpiryRuns, InnerGuardsAny DEF RunInner, Pair
    <3>4. Armed(outer, FALSE)
      BY <2>1, <2>3 DEF Pair, Armed
    <3>. QED  BY <2>1, <3>1, <3>2, <3>3, <3>4 DEF Pair, Keeps, Armed
  <2>. QED  BY <2>2, <2>3 DEF Doors
<1>. QED  BY <1>1, <1>2, <1>3

(* What the operator does leaves both workflows armed ...                    *)
LEMMA UiKeeps ==
    ASSUME Pair, Ui
    PROVE  Keeps(outer, outer') /\ Keeps(inner, inner') /\ expiry' = expiry
<1>1. outer \in Workflow /\ inner \in Workflow
  BY DEF Pair
<1>2. Keeps(outer, outer) /\ Keeps(inner, inner)
  BY <1>1, KeepsLogOut
<1>3. ASSUME NEW l, LogOut(l) PROVE Keeps(outer, outer') /\ Keeps(inner, inner')
  BY <1>1, <1>3, KeepsLogOut DEF LogOut
<1>4. CASE \E target \in Targets : UiOpenDoor(target)
  BY <1>2, <1>3, <1>4 DEF UiOpenDoor
<1>5. CASE UiAnswer
  BY <1>3, <1>5 DEF UiAnswer
<1>6. CASE UiCancel
  BY <1>3, <1>6 DEF UiCancel
<1>7. CASE CancelTimeDelay
  <2>1. /\ outer' = RunOuter(outer, "CANCEL_TIME_DELAY", TRUE)
        /\ inner' = Follow(outer, inner, "CANCEL_TIME_DELAY", TRUE) /\ expiry' = expiry
    BY <1>7 DEF CancelTimeDelay, OuterStep
  <2>2. "CANCEL_TIME_DELAY" \in Events
    BY EventNames
  <2>. QED  BY <1>1, <2>1, <2>2, KeepsEvent
<1>8. CASE \E u \in Users, ok \in BOOLEAN : UiLogin(u, ok)
  <2>. PICK u \in Users, ok \in BOOLEAN : UiLogin(u, ok)
    BY <1>8
  <2>. DEFINE o == LoggedIn(outer, u)
              i == LoginInner(outer, inner, u)
  <2>1. /\ expiry' = expiry
        /\ \/ LogOut(linked)
           \/ outer' = outer /\ inner' = inner
           \/ outer' = RunOuter(o, "USER_LOGIN", ok) /\ inner' = Follow(o, i, "USER_LOGIN", ok)
    BY DEF UiLogin, OuterStep, LoginInner
  <2>2. /\ o \in Workflow /\ o.st = outer.st /\ o.timer = outer.timer
        /\ i \in Workflow /\ i.st = inner.st /\ i.timer = inner.timer
    BY <1>1, LoginPair
  <2>. HIDE DEF o, i
  <2>3. Keeps(outer, o) /\ Keeps(inner, i) /\ "USER_LOGIN" \in Events
    BY <1>1, <2>2, KeepsSame, EventNames
  <2>4. /\ Keeps(o, RunOuter(o, "USER_LOGIN", ok))
        /\ Keeps(i, Follow(o, i, "USER_LOGIN", ok))
    BY <2>2, <2>3, KeepsEvent
  <2>. QED  BY <1>1, <1>2, <1>3, <2>1, <2>3, <2>4, KeepsTrans
<1>. QED  BY <1>4, <1>5, <1>6, <1>7, <1>8 DEF Ui

(* ... and so does what the sensors report.                                  *)
LEMMA DispatchKeeps ==
    ASSUME Pair, Dispatch
    PROVE  Keeps(outer, outer') /\ Keeps(inner, inner') /\ expiry' = expiry
<1>1. outer \in Workflow /\ inner \in Workflow /\ TRUE \in BOOLEAN
  BY DEF Pair
<1>2. Keeps(outer, outer) /\ Keeps(inner, inner)
  BY <1>1, KeepsLogOut
<1>3. ASSUME NEW e \in Events
      PROVE  /\ Keeps(outer, RunOuter(outer, e, TRUE))
             /\ Keeps(inner, Follow(outer, inner, e, TRUE))
  BY <1>1, KeepsEvent
<1>4. CASE \E d \in Doors, value \in {0, 1} : PlungerEvent(d, value)
  BY <1>2, <1>4 DEF PlungerEvent
<1>5. CASE \E ok \in BOOLEAN : OuterDoorOpen(ok)
  <2>. PICK ok \in BOOLEAN : OuterDoorOpen(ok)
    BY <1>5
  <2>. DEFINE i == Follow(outer, inner, "OPEN_DOOR", TRUE)
  <2>1. /\ expiry' = expiry
        /\ outer' = RunOuter(outer, "OPEN_DOOR", TRUE)
        /\ inner' = i \/ inner' = RunInner(i, "OUTER_DOOR_OPEN", ok)
    BY DEF OuterDoorOpen, Call
  <2>2. "OPEN_DOOR" \in Events /\ "OUTER_DOOR_OPEN" \in Events
    BY EventNames
  <2>3. Keeps(outer, outer') /\ Keeps(inner, i)
    BY <1>3, <2>1, <2>2
  <2>. HIDE DEF i
  <2>4. Keeps(i, RunInner(i, "OUTER_DOOR_OPEN", ok))
    BY <2>2, <2>3, KeepsRunInner DEF Keeps
  <2>. QED  BY <1>1, <2>1, <2>3, <2>4, KeepsTrans
<1>6. CASE OuterDoorClose
  BY <1>3, <1>6, EventNames DEF OuterDoorClose, OuterStep, Call
<1>7. CASE OuterLocked
  BY <1>3, <1>7, EventNames DEF OuterLocked, OuterStep, Call
<1>8. CASE \E e \in {"OPEN_DOOR", "CLOSE_DOOR", "LOCK_DOOR"} : InnerDoorEvent(e)
  <2>. PICK e \in {"OPEN_DOOR", "CLOSE_DOOR", "LOCK_DOOR"} : InnerDoorEvent(e)
    BY <1>8
  <2>1. outer' = outer /\ expiry' = expiry /\ inner' = RunInner(inner, e, TRUE)
    BY DEF InnerDoorEvent, Call
  <2>2. e \in Events
    BY EventNames
  <2>. QED  BY <1>1, <1>2, <2>1, <2>2, KeepsRunInner
<1>. QED  BY <1>4, <1>5, <1>6, <1>7, <1>8 DEF Dispatch

LEMMA PairStep ==
    ASSUME Pair, [Next]_vars
    PROVE  Pair'
<1>1. CASE Ui
  BY <1>1, UiKeeps, KeepsPair
<1>2. CASE Dispatch
  BY <1>2, DispatchKeeps, KeepsPair
<1>3. CASE Timer
  BY <1>3, TimerPair
<1>4. CASE UNCHANGED vars
  BY <1>4 DEF vars, Pair, Armed
<1>. QED  BY <1>1, <1>2, <1>3, <1>4 DEF Next

LEMMA PairInit ==
    ASSUME Init
    PROVE  Pair
<1>1. NewWorkflow \in Workflow /\ NewWorkflow.st = "Idle"
  BY DEF NewWorkflow, Workflow, States
<1>. QED  BY <1>1 DEF Init, Pair, Armed, TimedStates

(* Neither door waits for a timer that does not run: the pair never stops    *)
(* half way, whatever doors the operator asks for.                           *)
THEOREM NeverStuckPairAlways == Spec => []NeverStuckPair
<1>1. Init => Pair
  BY PairInit
<1>2. Pair /\ [Next]_vars => Pair'
  BY PairStep
<1>3. Pair => NeverStuckPair
  BY DEF Pair, Armed, NeverStuckPair
<1>. QED  BY <1>1, <1>2, <1>3, PTL DEF Spec

-----------------------------------------------------------------------------
(* The invariant of what the two doors share, while the operator only opens  *)
(* the inner door: an inner workflow that is not linked yet has no users and *)
(* does not wait; a linked one waits for an operation of the outer workflow  *)
(* and has users of it.                                                      *)
Detached(i) == i.user1 = NoUser /\ i.user2 = NoUser /\ i.st # Waiting

Tied(l, o, i) == IF l THEN Creds(o, i) /\ Follows(o, i) ELSE Detached(i)

Shared == Tied(linked, outer, inner)

LEMMA DetachedIsTied ==
    ASSUME NEW l, NEW o, NEW i, Tied(l, o, i)
    PROVE  Creds(o, i) /\ Follows(o, i)
BY DEF Tied, Detached, Creds, Follows

LEMMA TiedLogOut ==
    ASSUME NEW o \in Workflow, NEW i \in Workflow, NEW l, Tied(l, o, i)
    PROVE  /\ Tied(TRUE, removeLoggedUsers(o), ClearUsers(i))
           /\ ~l => Tied(l, removeLoggedUsers(o), i)
<1>1. /\ removeLoggedUsers(o).st = o.st /\ ClearUsers(i).st = i.st
      /\ ClearUsers(i).user1 = NoUser /\ ClearUsers(i).user2 = NoUser
  BY LogOutFields, ClearUsersFields
<1>2. Follows(o, i)
  BY DetachedIsTied
<1>. QED  BY <1>1, <1>2 DEF Tied, Creds, Follows

LEMMA TiedEvent ==
    ASSUME NEW o \in Workflow, NEW i \in Workflow, NEW e \in Events, NEW ok \in BOOLEAN,
           Tied(linked, o, i)
    PROVE  Tied(linked, RunOuter(o, e, ok), Follow(o, i, e, ok))
BY EventPair DEF Tied

LEMMA TiedLogin ==
    ASSUME NEW o \in Workflow, NEW i \in Workflow, NEW u \in Users, Tied(linked, o, i)
    PROVE  Tied(linked, LoggedIn(o, u), LoginInner(o, i, u))
<1>. DEFINE x == LoggedIn(o, u)
            y == LoginInner(o, i, u)
<1>1. /\ x.st = o.st /\ y.st = i.st
      /\ Creds(o, i) /\ linked => Creds(x, y)
      /\ ~linked => y = i
  BY LoginPair
<1>. HIDE DEF x, y
<1>2. Tied(linked, x, y)
  BY <1>1 DEF Tied, Follows
<1>. QED  BY <1>2 DEF x, y

LEMMA TiedRunInner ==
    ASSUME NEW l, NEW o, NEW i \in Workflow, NEW e \in Events, NEW ok \in BOOLEAN,
           e # "OUTER_DOOR_START", Tied(l, o, i)
    PROVE  Tied(l, o, RunInner(i, e, ok))
<1>. DEFINE y == RunInner(i, e, ok)
<1>1. /\ \/ y.user1 = i.user1 /\ y.user2 = i.user2
         \/ y.user1 = NoUser /\ y.user2 = NoUser
      /\ y.st = Waiting => i.st = Waiting
  BY RunInnerFields
<1>. HIDE DEF y
<1>2. Tied(l, o, y)
  BY <1>1 DEF Tied, Creds, Follows, Detached
<1>. QED  BY <1>2 DEF y

LEMMA UiTied ==
    ASSUME Targets = {"inner"}, Pair, Shared, Ui
    PROVE  Shared'
<1>1. outer \in Workflow /\ inner \in Workflow
  BY DEF Pair
<1>2. CASE \E target \in Targets : UiOpenDoor(target)
  <2>1. UiOpenDoor("inner")
    BY <1>2
  <2>2. linked' = TRUE
    BY <2>1 DEF UiOpenDoor
  <2>3. \/ outer' = outer /\ inner' = inner
        \/ outer' = removeLoggedUsers(outer) /\ inner' = ClearUsers(inner)
    BY <2>1, <2>2 DEF UiOpenDoor, LogOut
  <2>4. Tied(TRUE, outer, inner)
    BY DetachedIsTied DEF Shared, Tied
  <2>5. Tied(TRUE, removeLoggedUsers(outer), ClearUsers(inner))
    BY <1>1, <2>4, TiedLogOut
  <2>6. Tied(TRUE, outer', inner')
    BY <2>3, <2>4, <2>5
  <2>. QED  BY <2>2, <2>6 DEF Shared
<1>3. ASSUME LogOut(linked), linked' = linked PROVE Shared'
  <2>1. Tied(linked, outer', inner')
    BY <1>1, <1>3, TiedLogOut DEF Shared, LogOut, Tied
  <2>. QED  BY <1>3, <2>1 DEF Shared
<1>4. CASE UiAnswer
  BY <1>3, <1>4 DEF UiAnswer
<1>5. CASE UiCancel
  BY <1>3, <1>5 DEF UiCancel
<1>6. CASE CancelTimeDelay
  <2>1. /\ outer' = RunOuter(outer, "CANCEL_TIME_DELAY", TRUE)
        /\ inner' = Follow(outer, inner, "CANCEL_TIME_DELAY", TRUE) /\ linked' = linked
    BY <1>6 DEF CancelTimeDelay, OuterStep
  <2>2. "CANCEL_TIME_DELAY" \in Events
    BY EventNames
  <2>3. Tied(linked, outer', inner')
    BY <1>1, <2>1, <2>2, TiedEvent DEF Shared
  <2>. QED  BY <2>1, <2>3 DEF Shared
<1>7. CASE \E u \in Users, ok \in BOOLEAN : UiLogin(u, ok)
  <2>. PICK u \in Users, ok \in BOOLEAN : UiLogin(u, ok)
    BY <1>7
  <2>. DEFINE o == LoggedIn(outer, u)
              i == LoginInner(outer, inner, u)
  <2>1. /\ linked' = linked
        /\ \/ LogOut(linked)
           \/ outer' = outer /\ inner' = inner
           \/ outer' = RunOuter(o, "USER_LOGIN", ok) /\ inner' = Follow(o, i, "USER_LOGIN", ok)
    BY DEF UiLogin, OuterStep, LoginInner
  <2>2. o \in Workflow /\ i \in Workflow /\ Tied(linked, o, i)
    BY <1>1, LoginPair, TiedLogin DEF Shared
  <2>. HIDE DEF o, i
  <2>3. Tied(linked, RunOuter(o, "USER_LOGIN", ok), Follow(o, i, "USER_LOGIN", ok))
    BY <2>2, EventNames, TiedEvent
  <2>. QED  BY <1>3, <2>1, <2>3 DEF Shared
<1>. QED  BY <1>2, <1>4, <1>5, <1>6, <1>7 DEF Ui

LEMMA DispatchTied ==
    ASSUME Pair, Shared, Dispatch
    PROVE  Shared'
<1>1. outer \in Workflow /\ inner \in Workflow
  BY DEF Pair
<1>2. ASSUME NEW e \in Events
      PROVE  Tied(linked, RunOuter(outer, e, TRUE), Follow(outer, inner, e, TRUE))
  BY <1>1, TiedEvent DEF Shared
<1>3. CASE \E d \in Doors, value \in {0, 1} : PlungerEvent(d, value)
  BY <1>3 DEF PlungerEvent, Shared
<1>4. CASE \E ok \in BOOLEAN : OuterDoorOpen(ok)
  <2>. PICK ok \in BOOLEAN : OuterDoorOpen(ok)
    BY <1>4
  <2>. DEFINE x == RunOuter(outer, "OPEN_DOOR", TRUE)
              i == Follow(outer, inner, "OPEN_DOOR", TRUE)
  <2>1. /\ linked' = linked /\ outer' = x
        /\ inner' = i \/ inner' = RunInner(i, "OUTER_DOOR_OPEN", ok)
    BY DEF OuterDoorOpen, Call
  <2>2. "OPEN_DOOR" \in Events /\ "OUTER_DOOR_OPEN" \in Events /\ TRUE \in BOOLEAN
    BY EventNames
  <2>3. Tied(linked, x, i) /\ i \in Workflow
    BY <1>1, <1>2, <2>2, EventPair
  <2>. HIDE DEF x, i
  <2>4. Tied(linked, x, RunInner(i, "OUTER_DOOR_OPEN", ok))
    BY <2>2, <2>3, TiedRunInner
  <2>. QED  BY <2>1, <2>3, <2>4 DEF Shared
<1>5. CASE OuterDoorClose
  <2>1. /\ outer' = RunOuter(outer, "CLOSE_DOOR", TRUE)
        /\ inner' = Follow(outer, inner, "CLOSE_DOOR", TRUE) /\ linked' = linked
    BY <1>5 DEF OuterDoorClose, OuterStep, Call
  <2>. QED  BY <1>2, <2>1, EventNames DEF Shared
<1>6. CASE OuterLocked
  <2>1. /\ outer' = RunOuter(outer, "LOCK_DOOR", TRUE)
        /\ inner' = Follow(outer, inner, "LOCK_DOOR", TRUE) /\ linked' = linked
    BY <1>6 DEF OuterLocked, OuterStep, Call
  <2>. QED  BY <1>2, <2>1, EventNames DEF Shared
<1>7. CASE \E e \in {"OPEN_DOOR", "CLOSE_DOOR", "LOCK_DOOR"} : InnerDoorEvent(e)
  <2>. PICK e \in {"OPEN_DOOR", "CLOSE_DOOR", "LOCK_DOOR"} : InnerDoorEvent(e)
    BY <1>7
  <2>1. outer' = outer /\ linked' = linked /\ inner' = RunInner(inner, e, TRUE)
    BY DEF InnerDoorEvent, Call
  <2>2. e \in Events /\ e # "OUTER_DOOR_START"
    BY EventNames
  <2>3. Tied(linked, outer, RunInner(inner, e, TRUE))
    BY <1>1, <2>2, TiedRunInner DEF Shared
  <2>. QED  BY <2>1, <2>3 DEF Shared
<1>. QED  BY <1>3, <1>4, <1>5, <1>6, <1>7 DEF Dispatch

LEMMA TimerTied ==
    ASSUME Pair, Shared, Timer
    PROVE  Shared'
<1>. PICK d \in Doors : TimerPick(d) \/ TimerExpire(d) \/ timerExpired(d)
  BY DEF Timer
<1>1. outer \in Workflow /\ inner \in Workflow
  BY DEF Pair
<1>2. CASE TimerPick(d)
  BY <1>2 DEF TimerPick, Shared
<1>3. CASE TimerExpire(d)
  <2>1. \A w \in Workflow : LET v == [w EXCEPT !.timer = FALSE] IN
          v.st = w.st /\ v.user1 = w.user1 /\ v.user2 = w.user2
    BY DEF Workflow
  <2>2. /\ linked' = linked
        /\ outer'.st = outer.st /\ outer'.user1 = outer.user1 /\ outer'.user2 = outer.user2
        /\ inner'.st = inner.st /\ inner'.user1 = inner.user1 /\ inner'.user2 = inner.user2
    BY <1>1, <1>3, <2>1 DEF TimerExpire
  <2>. QED  BY <2>2 DEF Shared, Tied, Creds, Follows, Detached
<1>4. CASE timerExpired(d)
  <2>1. "TIMER_EXPIRED" \in Events /\ "TIMER_EXPIRED" # "OUTER_DOOR_START" /\ linked' = linked
    BY <1>4, EventNames DEF timerExpired
  <2>2. \/ /\ outer' = RunOuter(outer, "TIMER_EXPIRED", TRUE)
           /\ inner' = Follow(outer, inner, "TIMER_EXPIRED", TRUE)
        \/ outer' = outer /\ inner' = RunInner(inner, "TIMER_EXPIRED", TRUE)
    BY <1>4 DEF timerExpired, OuterStep
  <2>3. /\ Tied(linked, RunOuter(outer, "TIMER_EXPIRED", TRUE),
                Follow(outer, inner, "TIMER_EXPIRED", TRUE))
        /\ Tied(linked, outer, RunInner(inner, "TIMER_EXPIRED", TRUE))
    BY <1>1, <2>1, TiedEvent, TiedRunInner DEF Shared
  <2>. QED  BY <2>1, <2>2, <2>3 DEF Shared
<1>. QED  BY <1>2, <1>3, <1>4

LEMMA SharedAlways ==
    ASSUME Targets = {"inner"}
    PROVE  Spec => [](Pair /\ Shared)
<1>1. Init => Pair /\ Shared
  <2>1. Init => Shared
    BY DEF Init, NewWorkflow, Shared, Tied, Detached, Waiting
  <2>. QED  BY <2>1, PairInit
<1>2. Pair /\ Shared /\ [Next]_vars => Pair' /\ Shared'
  <2>. SUFFICES ASSUME Pair, Shared, [Next]_vars PROVE Pair' /\ Shared'
    OBVIOUS
  <2>1. CASE UNCHANGED vars
    <3>1. linked' = linked /\ outer' = outer /\ inner' = inner
      BY <2>1 DEF vars
    <3>2. Pair'
      BY <2>1, PairStep
    <3>. QED  BY <3>1, <3>2 DEF Shared
  <2>. QED  BY <2>1, PairStep, UiTied, DispatchTied, TimerTied DEF Next
<1>. QED  BY <1>1, <1>2, PTL DEF Spec

(* While the operator opens the inner door only, an inner workflow waits for *)
(* an operation of the outer one that is still in progress: every way out of *)
(* the operation, an expiry or a refused command included, tells it.         *)
THEOREM InnerWaitsForOuterAlways ==
    ASSUME Targets = {"inner"}
    PROVE  Spec => []InnerWaitsForOuter
<1>1. Pair /\ Shared => InnerWaitsForOuter
  BY DetachedIsTied DEF Shared, Follows, Waiting, InnerWaitsForOuter
<1>. QED  BY <1>1, SharedAlways, PTL

(* While the operator opens the inner door only, the credentials the inner   *)
(* door would be unlocked with are those logged in at the outer one.         *)
THEOREM SameCredentialsAlways ==
    ASSUME Targets = {"inner"}
    PROVE  Spec => []SameCredentials
<1>1. Pair /\ Shared => SameCredentials
  BY DetachedIsTied DEF Shared, Creds, SameCredentials
<1>. QED  BY <1>1, SharedAlways, PTL

-----------------------------------------------------------------------------
(* An outer opening that is a violation sends the inner door no command: the *)
(* wait is cancelled, with its users, before onOuterDoorOpen. The invariant: *)
(* a workflow in Idle or waiting for the outer door has not been unlocked.   *)
Quiet(v) == v.st \in {"Idle", Waiting} => ~v.hasUnlocked

Violation == "OpenDoorViolation"

LEMMA WaitsFromIdle ==
    ASSUME NEW st \in States, NEW e \in Events, NEW g, Target(st, e, g) = Waiting,
           st # Waiting
    PROVE  st = "Idle"
<1>1. PICK r \in Transitions :
        r[1] = st /\ r[2] = e /\ r[3] \in g /\ r[4] = Target(st, e, g)
  BY MovesAlongRow
<1>. QED
  BY <1>1 DEF Waiting, Transitions, IdleTable, WaitOuterDoorOpenTable, TimeDelayTable,
       AccessTimeTable, WaitUnlockDoorTable, WaitOpenDoorTable,
       WaitCloseDoorTable, WaitCloseDoorWarningTable, WaitCloseDoorErrorTable,
       WaitLockDoorTable, WaitLockDoorErrorTable, OpenDoorViolationTable,
       DoorLockAndOpenTable, WaitUnlockDoorWithOpenDoorTable

(* startOuterDoorOpen leaves a workflow that already waits as it is.         *)
LEMMA StartIgnored ==
    ASSUME NEW g
    PROVE  Target(Waiting, "OUTER_DOOR_START", g) = Waiting
<1>1. Waiting \in States /\ "OUTER_DOOR_START" \in Events
  BY DEF Waiting, States, Events
<1>2. SUFFICES ASSUME Target(Waiting, "OUTER_DOOR_START", g) # Waiting PROVE FALSE
  OBVIOUS
<1>3. PICK r \in Transitions : r[1] = Waiting /\ r[2] = "OUTER_DOOR_START"
  BY <1>1, <1>2, MovesAlongRow
<1>. QED
  BY <1>3 DEF Waiting, Transitions, IdleTable, WaitOuterDoorOpenTable, TimeDelayTable,
       AccessTimeTable, WaitUnlockDoorTable, WaitOpenDoorTable,
       WaitCloseDoorTable, WaitCloseDoorWarningTable, WaitCloseDoorErrorTable,
       WaitLockDoorTable, WaitLockDoorErrorTable, OpenDoorViolationTable,
       DoorLockAndOpenTable, WaitUnlockDoorWithOpenDoorTable

(* Entering a state unlocks nothing, and Idle forgets the unlocking.         *)
LEMMA EnterUnlocked ==
    ASSUME NEW v \in Workflow, NEW st \in States
    PROVE  /\ Enter(v, st).hasUnlocked => v.hasUnlocked
           /\ st = "Idle" => ~Enter(v, st).hasUnlocked
BY DEF Enter, removeLoggedUsers, Workflow

(* Only a command unlocks, and a workflow without users sends none.          *)
LEMMA ExecuteUnlocked ==
    ASSUME NEW w \in Workflow, NEW e \in Events, NEW g, NEW ok \in BOOLEAN
    PROVE  LET x == executeStateMachine(w, e, g, ok) IN
           /\ Quiet(w) => Quiet(x)
           /\ w.user1 = NoUser /\ ~w.hasUnlocked => ~x.hasUnlocked
<1>. DEFINE to == Target(w.st, e, g)
            v == ConsumeForce(w, e, g)
            x == executeStateMachine(w, e, g, ok)
            n == Entered(w, e, g, ok)
<1>1. v \in Workflow /\ v.st = w.st /\ v.hasUnlocked = w.hasUnlocked
  BY DEF ConsumeForce, Workflow
<1>2. w.st \in States /\ to \in States /\ n \in States
  BY TargetType, ExecuteType DEF Workflow
<1>3. CASE to = w.st
  BY <1>1, <1>3 DEF executeStateMachine, Quiet
<1>4. CASE to # w.st /\ SendsUnlock(w, e, g) /\ ok
  <2>1. x.st = n /\ n = to /\ to \in UnlockStates /\ w.user1 # NoUser
    BY <1>4, ExecuteType DEF Entered, SendsUnlock
  <2>. QED  BY <2>1 DEF Quiet, Waiting, UnlockStates
<1>5. CASE to # w.st /\ ~(SendsUnlock(w, e, g) /\ ok)
  <2>1. x = Enter(v, n)
    BY <1>5 DEF executeStateMachine, Entered
  <2>. HIDE DEF v, x, n, to
  <2>2. x.st = n /\ (x.hasUnlocked => w.hasUnlocked) /\ (n = "Idle" => ~x.hasUnlocked)
    BY <1>1, <1>2, <2>1, EnterUnlocked, EnterFields
  <2>3. ASSUME n = Waiting PROVE w.st = "Idle"
    <3>1. to = Waiting
      BY <2>3 DEF n, to, Entered, ErrorState, Waiting
    <3>. QED  BY <1>2, <1>5, <3>1, WaitsFromIdle DEF to
  <2>. QED  BY <2>2, <2>3 DEF Quiet, x
<1>. QED  BY <1>3, <1>4, <1>5

LEMMA ClearUsersQuiet ==
    ASSUME NEW i \in Workflow
    PROVE  ClearUsers(i).hasUnlocked = i.hasUnlocked /\ (Quiet(i) => Quiet(ClearUsers(i)))
BY DEF ClearUsers, Quiet, Workflow

(* cancelOuterDoor takes a wait to Idle, users and all.                      *)
LEMMA CancelledIdle ==
    ASSUME NEW i \in Workflow, i.st = Waiting
    PROVE  LET y == RunInner(i, "OUTER_DOOR_CANCEL", TRUE)
           IN  y.st = "Idle" /\ y.user1 = NoUser
<1>. DEFINE e == "OUTER_DOOR_CANCEL"
            g == InnerGuards(i)
<1>1. e \in Events /\ "any" \in g
  BY InnerGuardsAny DEF Events
<1>2. Target(i.st, e, g) = "Idle" /\ i.st # "Idle"
  BY <1>1, CancelEndsWait DEF Waiting
<1>3. Entered(i, e, g, TRUE) = "Idle"
  BY <1>2 DEF Entered
<1>. QED  BY <1>1, <1>2, <1>3, ExecuteType, ExecuteUsers DEF RunInner, LogsOut, Moves, LogoutStates

LEMMA WaitingStarts ==
    ASSUME NEW i \in Workflow, i.st = Waiting
    PROVE  LET y == RunInner(i, "OUTER_DOOR_START", TRUE) IN y \in Workflow /\ y.st = Waiting
<1>1. "OUTER_DOOR_START" \in Events
  BY DEF Events
<1>2. ~Moves(i, "OUTER_DOOR_START", InnerGuards(i))
  BY StartIgnored DEF Moves
<1>. QED  BY <1>1, <1>2, ExecuteType, ExecuteFields DEF RunInner

(* An event of the outer workflow keeps the inner one quiet, and a violation *)
(* leaves a waiting one without users.                                       *)
LEMMA FollowQuiet ==
    ASSUME NEW o \in Workflow, NEW i \in Workflow, NEW e \in Events, NEW ok \in BOOLEAN,
           Quiet(i)
    PROVE  LET x == RunOuter(o, e, ok)
               y == Follow(o, i, e, ok)
           IN  /\ Quiet(y)
               /\ x.st = Violation /\ o.st # Violation /\ i.st = Waiting =>
                    ~y.hasUnlocked /\ (linked => y.user1 = NoUser)
<1>. DEFINE g  == OuterGuards(o)
            st == Entered(o, e, g, ok)
            i1 == IF o.st = "Idle" THEN RunInner(i, "OUTER_DOOR_START", TRUE) ELSE i
            i2 == IF st \in CancelStates THEN RunInner(i1, "OUTER_DOOR_CANCEL", TRUE) ELSE i1
            x  == RunOuter(o, e, ok)
            y  == Follow(o, i, e, ok)
<1>1. y = IF ~linked \/ ~Moves(o, e, g) THEN i
          ELSE IF st \in LogoutStates THEN ClearUsers(i2) ELSE i2
  BY DEF Follow, StartAndCancel, Moves
<1>2. x.st = st /\ (~Moves(o, e, g) => x.st = o.st)
  BY ExecuteType, ExecuteFields DEF RunOuter
<1>3. "OUTER_DOOR_START" \in Events /\ "OUTER_DOOR_CANCEL" \in Events
  BY DEF Events
<1>4. ASSUME NEW j \in Workflow, NEW f \in Events, Quiet(j)
      PROVE  RunInner(j, f, TRUE) \in Workflow /\ Quiet(RunInner(j, f, TRUE))
  BY <1>4, ExecuteType, ExecuteUnlocked DEF RunInner
<1>5. i1 \in Workflow /\ Quiet(i1) /\ (i.st = Waiting => i1.st = Waiting)
  BY <1>3, <1>4, WaitingStarts
<1>. HIDE DEF i1
<1>6. i2 \in Workflow /\ Quiet(i2)
  BY <1>3, <1>4, <1>5
<1>7. ASSUME st \in CancelStates, i.st = Waiting PROVE i2.st = "Idle" /\ i2.user1 = NoUser
  BY <1>5, <1>7, CancelledIdle
<1>. HIDE DEF i2, x, y, st, g
<1>8. Quiet(y)
  BY <1>1, <1>6, ClearUsersQuiet
<1>9. ASSUME x.st = Violation, o.st # Violation, i.st = Waiting
      PROVE  ~y.hasUnlocked /\ (linked => y.user1 = NoUser)
  <2>1. st = Violation /\ Moves(o, e, g) /\ st \in CancelStates /\ st \notin LogoutStates
    BY <1>2, <1>9 DEF Violation, CancelStates, LogoutStates
  <2>2. CASE linked
    <3>1. y = i2 /\ y.st = "Idle" /\ y.user1 = NoUser
      BY <1>1, <1>7, <1>9, <2>1, <2>2
    <3>. QED  BY <1>8, <3>1 DEF Quiet
  <2>3. CASE ~linked
    BY <1>1, <1>9, <2>3 DEF Quiet
  <2>. QED  BY <2>2, <2>3
<1>. QED  BY <1>8, <1>9 DEF x, y

Locked ==
    outer'.st = Violation /\ outer.st # outer'.st /\ inner.st = Waiting => ~inner'.hasUnlocked

(* onLoginUser, setUser1, setUser2 and the timer leave the state alone.      *)
LEMMA SameQuiet ==
    ASSUME NEW v, NEW w, Quiet(v), w.st = v.st, w.hasUnlocked = v.hasUnlocked
    PROVE  Quiet(w)
BY DEF Quiet

LEMMA LoginQuiet ==
    ASSUME NEW o \in Workflow, NEW i \in Workflow, NEW u \in Users
    PROVE  LoginInner(o, i, u).hasUnlocked = i.hasUnlocked
BY DEF LoginInner, Workflow

LEMMA LogOutQuiet ==
    ASSUME Pair, Quiet(inner), NEW l, LogOut(l)
    PROVE  Quiet(inner') /\ Locked
BY LogOutFields, ClearUsersQuiet DEF LogOut, Pair, Locked

LEMMA UiQuiet ==
    ASSUME Pair, Quiet(inner), Ui
    PROVE  Quiet(inner') /\ Locked
<1>1. outer \in Workflow /\ inner \in Workflow
  BY DEF Pair
<1>2. CASE \E target \in Targets : UiOpenDoor(target)
  BY <1>2, LogOutQuiet DEF UiOpenDoor, Locked
<1>3. CASE UiAnswer \/ UiCancel
  BY <1>3, LogOutQuiet DEF UiAnswer, UiCancel
<1>4. CASE CancelTimeDelay
  <2>1. "CANCEL_TIME_DELAY" \in Events
    BY EventNames
  <2>2. /\ outer' = RunOuter(outer, "CANCEL_TIME_DELAY", TRUE)
        /\ inner' = Follow(outer, inner, "CANCEL_TIME_DELAY", TRUE)
    BY <1>4 DEF CancelTimeDelay, OuterStep
  <2>. QED  BY <1>1, <2>1, <2>2, FollowQuiet DEF Locked
<1>5. CASE \E u \in Users, ok \in BOOLEAN : UiLogin(u, ok)
  <2>. PICK u \in Users, ok \in BOOLEAN : UiLogin(u, ok)
    BY <1>5
  <2>. DEFINE o == LoggedIn(outer, u)
              i == LoginInner(outer, inner, u)
  <2>1. \/ LogOut(linked)
        \/ outer' = outer /\ inner' = inner
        \/ outer' = RunOuter(o, "USER_LOGIN", ok) /\ inner' = Follow(o, i, "USER_LOGIN", ok)
    BY DEF UiLogin, OuterStep, LoginInner
  <2>2. /\ o \in Workflow /\ o.st = outer.st
        /\ i \in Workflow /\ i.st = inner.st /\ i.hasUnlocked = inner.hasUnlocked
    BY <1>1, LoginPair, LoginQuiet
  <2>. HIDE DEF o, i
  <2>3. Quiet(i) /\ "USER_LOGIN" \in Events
    BY <2>2, SameQuiet, EventNames
  <2>4. CASE LogOut(linked)
    BY <2>4, LogOutQuiet
  <2>5. CASE outer' = outer /\ inner' = inner
    BY <2>5 DEF Locked
  <2>6. CASE outer' = RunOuter(o, "USER_LOGIN", ok) /\ inner' = Follow(o, i, "USER_LOGIN", ok)
    BY <2>2, <2>3, <2>6, FollowQuiet DEF Locked
  <2>. QED  BY <2>1, <2>4, <2>5, <2>6
<1>. QED  BY <1>2, <1>3, <1>4, <1>5 DEF Ui

LEMMA DispatchQuiet ==
    ASSUME Pair, Quiet(inner), Dispatch
    PROVE  Quiet(inner') /\ Locked
<1>1. outer \in Workflow /\ inner \in Workflow /\ TRUE \in BOOLEAN
  BY DEF Pair
<1>2. ASSUME NEW e \in Events, outer' = RunOuter(outer, e, TRUE),
             inner' = Follow(outer, inner, e, TRUE)
      PROVE  Quiet(inner') /\ Locked
  BY <1>1, <1>2, FollowQuiet DEF Locked
<1>3. CASE \E d \in Doors, value \in {0, 1} : PlungerEvent(d, value)
  BY <1>3 DEF PlungerEvent, Locked
<1>4. CASE \E ok \in BOOLEAN : OuterDoorOpen(ok)
  <2>. PICK ok \in BOOLEAN : OuterDoorOpen(ok)
    BY <1>4
  <2>. DEFINE i == Follow(outer, inner, "OPEN_DOOR", TRUE)
  <2>1. /\ outer' = RunOuter(outer, "OPEN_DOOR", TRUE)
        /\ inner' = i \/ (linked /\ inner' = RunInner(i, "OUTER_DOOR_OPEN", ok))
    BY DEF OuterDoorOpen, Call
  <2>2. "OPEN_DOOR" \in Events /\ "OUTER_DOOR_OPEN" \in Events
    BY EventNames
  <2>3. /\ i \in Workflow /\ Quiet(i)
        /\ outer'.st = Violation /\ outer.st # Violation /\ inner.st = Waiting =>
             ~i.hasUnlocked /\ (linked => i.user1 = NoUser)
    BY <1>1, <2>1, <2>2, FollowQuiet, EventPair
  <2>. HIDE DEF i
  <2>4. /\ Quiet(RunInner(i, "OUTER_DOOR_OPEN", ok))
        /\ i.user1 = NoUser /\ ~i.hasUnlocked =>
             ~RunInner(i, "OUTER_DOOR_OPEN", ok).hasUnlocked
    BY <2>2, <2>3, ExecuteUnlocked DEF RunInner
  <2>. QED  BY <2>1, <2>3, <2>4 DEF Locked
<1>5. CASE OuterDoorClose
  BY <1>2, <1>5, EventNames DEF OuterDoorClose, OuterStep, Call
<1>6. CASE OuterLocked
  BY <1>2, <1>6, EventNames DEF OuterLocked, OuterStep, Call
<1>7. CASE \E e \in {"OPEN_DOOR", "CLOSE_DOOR", "LOCK_DOOR"} : InnerDoorEvent(e)
  <2>. PICK e \in {"OPEN_DOOR", "CLOSE_DOOR", "LOCK_DOOR"} : InnerDoorEvent(e)
    BY <1>7
  <2>1. outer' = outer /\ inner' = RunInner(inner, e, TRUE) /\ e \in Events
    BY EventNames DEF InnerDoorEvent, Call
  <2>. QED  BY <1>1, <2>1, ExecuteUnlocked DEF RunInner, Locked
<1>. QED  BY <1>3, <1>4, <1>5, <1>6, <1>7 DEF Dispatch

LEMMA TimerQuiet ==
    ASSUME Pair, Quiet(inner), Timer
    PROVE  Quiet(inner') /\ Locked
<1>1. outer \in Workflow /\ inner \in Workflow /\ TRUE \in BOOLEAN
      /\ "TIMER_EXPIRED" \in Events
  BY EventNames DEF Pair
<1>. PICK d \in Doors : TimerPick(d) \/ TimerExpire(d) \/ timerExpired(d)
  BY DEF Timer
<1>2. CASE TimerPick(d)
  BY <1>2 DEF TimerPick, Locked
<1>3. CASE TimerExpire(d)
  <2>1. outer'.st = outer.st /\ inner'.st = inner.st /\ inner'.hasUnlocked = inner.hasUnlocked
    BY <1>1, <1>3 DEF TimerExpire, Workflow
  <2>. QED  BY <2>1, SameQuiet DEF Locked
<1>4. CASE timerExpired(d)
  <2>1. \/ /\ outer' = RunOuter(outer, "TIMER_EXPIRED", TRUE)
           /\ inner' = Follow(outer, inner, "TIMER_EXPIRED", TRUE)
        \/ outer' = outer /\ inner' = RunInner(inner, "TIMER_EXPIRED", TRUE)
    BY <1>4 DEF timerExpired, OuterStep
  <2>. QED  BY <1>1, <2>1, FollowQuiet, ExecuteUnlocked DEF RunInner, Locked
<1>. QED  BY <1>2, <1>3, <1>4

(* Whatever doors the operator asks for, the opening of the outer door by    *)
(* force unlocks no inner door that was waiting for it.                      *)
THEOREM ViolationKeepsLockedAlways == Spec => ViolationKeepsLocked
<1>1. Init => Pair /\ Quiet(inner)
  <2>1. NewWorkflow.hasUnlocked = FALSE
    BY DEF NewWorkflow
  <2>2. Init => inner.hasUnlocked = FALSE
    BY <2>1 DEF Init
  <2>. QED  BY <2>2, PairInit DEF Quiet
<1>2. Pair /\ Quiet(inner) /\ [Next]_vars => Pair' /\ Quiet(inner)'
  <2>. SUFFICES ASSUME Pair, Quiet(inner), [Next]_vars PROVE Quiet(inner')
    BY PairStep
  <2>1. CASE UNCHANGED vars
    BY <2>1 DEF vars
  <2>. QED  BY <2>1, UiQuiet, DispatchQuiet, TimerQuiet DEF Next
<1>3. Pair /\ Quiet(inner) /\ [Next]_vars =>
        [outer'.st = "OpenDoorViolation" /\ outer.st # outer'.st
         /\ inner.st = "WaitOuterDoorOpen" => ~inner'.hasUnlocked]_vars
  BY UiQuiet, DispatchQuiet, TimerQuiet DEF Next, Locked, Violation, Waiting
<1>. QED  BY <1>1, <1>2, <1>3, PTL DEF Spec, ViolationKeepsLocked
==============================================================================
