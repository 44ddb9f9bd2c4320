----------------------- MODULE ExtractionWorkflowProofs -----------------------
(***************************************************************************)
(* The invariants of ExtractionWorkflow, for every set of users, every     *)
(* assignment of permissions, every number of keys and every sensor.       *)
(***************************************************************************)
EXTENDS ExtractionWorkflow, TLAPS

-----------------------------------------------------------------------------
(* What the workflow inherits from its state machine, whatever its state is. *)

(* Every row leads from a state, on an event, to a state. *)
LEMMA RowsAreTransitions ==
    \A r \in Transitions : r[2] \in Events /\ r[4] \in States
BY DEF Transitions, IdleTable, WaitOuterDoorOpenTable, TimeDelayTable,
       AccessTimeTable, WaitUnlockDoorTable, WaitOpenDoorTable,
       WaitCloseDoorTable, WaitCloseDoorWarningTable, WaitCloseDoorErrorTable,
       WaitLockDoorTable, WaitLockDoorErrorTable, OpenDoorViolationTable,
       DoorLockAndOpenTable, WaitUnlockDoorWithOpenDoorTable,
       States, TimedStates, BuzzStates, Events

(* The machine only moves along a row. *)
LEMMA MovesAlongRow ==
    ASSUME NEW st \in States, NEW e \in Events, NEW g, Target(st, e, g) # st
    PROVE  \E r \in Transitions :
             r[1] = st /\ r[2] = e /\ r[3] \in g /\ r[4] = Target(st, e, g)
<1>1. Enabled(st, e, g) = {r \in Transitions : r[1] = st /\ r[2] = e /\ r[3] \in g}
  BY DEF Enabled, Rows
<1>2. Enabled(st, e, g) # {}
  BY DEF Target
<1>3. PICK r \in Enabled(st, e, g) : r = CHOOSE x \in Enabled(st, e, g) : TRUE
  BY <1>2
<1>4. Target(st, e, g) = r[4]
  BY <1>2, <1>3 DEF Target
<1>. QED  BY <1>1, <1>3, <1>4

(* An event leaves the machine in a state. *)
LEMMA TargetType ==
    ASSUME NEW st \in States, NEW e \in Events, NEW g
    PROVE  Target(st, e, g) \in States
BY RowsAreTransitions, MovesAlongRow

(* Guards that mention the login hold only when the login is complete. *)
LEMMA GuardsMean ==
    ASSUME NEW u, NEW k, NEW locked, NEW innerOpen
    PROVE  LET g == Guards(u, k, locked, innerOpen) IN
           /\ "any" \in g
           /\ "complete" \in g \/ "noDelay" \in g => isLoginComplete(u, k)
           /\ "noDelay" \in g => ~hasTimeDelay(u, k, innerOpen)
BY DEF Guards

(* Only a login makes the machine send the unlock command, unless the outer  *)
(* door has opened.                                                          *)
LEMMA UnlockNeedsLogin ==
    ASSUME NEW st \in States, NEW e \in Events, NEW g,
           Target(st, e, g) # st, Target(st, e, g) \in UnlockStates,
           e # "OUTER_DOOR_OPEN"
    PROVE  /\ e = "USER_LOGIN"
           /\ "complete" \in g \/ "noDelay" \in g
           /\ Target(st, e, g) = "WaitUnlockDoor" =>
                \/ st = "Idle" /\ "noDelay" \in g
                \/ st = "AccessTime"
<1>1. PICK r \in Transitions :
        r[1] = st /\ r[2] = e /\ r[3] \in g /\ r[4] = Target(st, e, g)
  BY MovesAlongRow
<1>. QED
  BY <1>1 DEF Transitions, IdleTable, WaitOuterDoorOpenTable, TimeDelayTable,
       AccessTimeTable, WaitUnlockDoorTable, WaitOpenDoorTable,
       WaitCloseDoorTable, WaitCloseDoorWarningTable, WaitCloseDoorErrorTable,
       WaitLockDoorTable, WaitLockDoorErrorTable, OpenDoorViolationTable,
       DoorLockAndOpenTable, WaitUnlockDoorWithOpenDoorTable, UnlockStates

(* The states of a door that was opened, or whose lock was turned, and that  *)
(* is waited for to be closed or locked, or was not in time.                 *)
LateStates ==
    {"WaitCloseDoorWarning", "WaitCloseDoorError", "WaitLockDoor", "WaitLockDoorError"}

(* Where the states that follow an unlock command, or a violation, are       *)
(* entered from, when the outer door plays no part.                          *)
LEMMA EnteredFrom ==
    ASSUME NEW st \in States, NEW e \in Events, NEW g, Target(st, e, g) # st
    PROVE  /\ Target(st, e, g) = "WaitOpenDoor" => st = "WaitUnlockDoor"
           /\ Target(st, e, g) = "WaitCloseDoor" =>
                st \in {"WaitUnlockDoor", "WaitOpenDoor", "DoorLockAndOpen",
                        "WaitUnlockDoorWithOpenDoor"}
           /\ Target(st, e, g) = "AccessTime" => st = "TimeDelay"
           /\ Target(st, e, g) \in LateStates =>
                \/ st \in LateStates \cup {"WaitOpenDoor", "WaitCloseDoor"}
                \/ st = "Idle" /\ e = "UNLOCK_DOOR"
<1>1. PICK r \in Transitions :
        r[1] = st /\ r[2] = e /\ r[3] \in g /\ r[4] = Target(st, e, g)
  BY MovesAlongRow
<1>. QED
  BY <1>1 DEF Transitions, IdleTable, WaitOuterDoorOpenTable, TimeDelayTable,
       AccessTimeTable, WaitUnlockDoorTable, WaitOpenDoorTable,
       WaitCloseDoorTable, WaitCloseDoorWarningTable, WaitCloseDoorErrorTable,
       WaitLockDoorTable, WaitLockDoorErrorTable, OpenDoorViolationTable,
       DoorLockAndOpenTable, WaitUnlockDoorWithOpenDoorTable, LateStates

(* An expiry takes the machine out of every state that waits for one. *)
LEMMA ExpiryLeaves ==
    ASSUME NEW st \in TimedStates \ {"WaitLockDoorError"}, NEW g, "any" \in g
    PROVE  Target(st, "TIMER_EXPIRED", g) # st
<1>1. PICK r \in Transitions : r[1] = st /\ r[2] = "TIMER_EXPIRED" /\ r[3] = "any"
  <2>1. /\ <<"TimeDelay", "TIMER_EXPIRED", "any", "AccessTime">> \in TimeDelayTable
        /\ <<"AccessTime", "TIMER_EXPIRED", "any", "Idle">> \in AccessTimeTable
        /\ <<"WaitUnlockDoor", "TIMER_EXPIRED", "any", "Idle">> \in WaitUnlockDoorTable
        /\ <<"WaitOpenDoor", "TIMER_EXPIRED", "any", "WaitLockDoor">> \in WaitOpenDoorTable
        /\ <<"WaitCloseDoor", "TIMER_EXPIRED", "any", "WaitCloseDoorWarning">>
             \in WaitCloseDoorTable
        /\ <<"WaitCloseDoorWarning", "TIMER_EXPIRED", "any", "WaitCloseDoorError">>
             \in WaitCloseDoorWarningTable
        /\ <<"WaitLockDoor", "TIMER_EXPIRED", "any", "WaitLockDoorError">>
             \in WaitLockDoorTable
        /\ <<"WaitUnlockDoorWithOpenDoor", "TIMER_EXPIRED", "any", "DoorLockAndOpen">>
             \in WaitUnlockDoorWithOpenDoorTable
    BY DEF TimeDelayTable, AccessTimeTable, WaitUnlockDoorTable, WaitOpenDoorTable,
           WaitCloseDoorTable, WaitCloseDoorWarningTable, WaitLockDoorTable,
           WaitUnlockDoorWithOpenDoorTable
  <2>2. PICK to : <<st, "TIMER_EXPIRED", "any", to>> \in Transitions
    BY <2>1 DEF Transitions, TimedStates
  <2>. QED  BY <2>2
<1>2. st \in States /\ "TIMER_EXPIRED" \in Events
  BY DEF States, Events
<1>3. Enabled(st, "TIMER_EXPIRED", g) =
        {x \in Transitions : x[1] = st /\ x[2] = "TIMER_EXPIRED" /\ x[3] \in g}
  BY <1>2 DEF Enabled, Rows
<1>4. Enabled(st, "TIMER_EXPIRED", g) # {}
  BY <1>1, <1>3
<1>5. PICK x \in Enabled(st, "TIMER_EXPIRED", g) :
        x = CHOOSE y \in Enabled(st, "TIMER_EXPIRED", g) : TRUE
  BY <1>4
<1>6. x \in Transitions /\ x[1] = st /\ x[2] = "TIMER_EXPIRED"
      /\ Target(st, "TIMER_EXPIRED", g) = x[4]
  BY <1>3, <1>4, <1>5 DEF Target
<1>7. x[4] # x[1]
  BY <1>6 DEF Transitions, IdleTable, WaitOuterDoorOpenTable, TimeDelayTable,
       AccessTimeTable, WaitUnlockDoorTable, WaitOpenDoorTable,
       WaitCloseDoorTable, WaitCloseDoorWarningTable, WaitCloseDoorErrorTable,
       WaitLockDoorTable, WaitLockDoorErrorTable, OpenDoorViolationTable,
       DoorLockAndOpenTable, WaitUnlockDoorWithOpenDoorTable
<1>. QED  BY <1>6, <1>7

-----------------------------------------------------------------------------
LEMMA ErrorStateType == \A st : ErrorState(st) \in States
BY DEF ErrorState, States, BuzzStates, TimedStates

(* What entering a state does to a workflow. *)
LEMMA EnterFields ==
    ASSUME NEW u \in Workflow, NEW st \in States
    PROVE  LET y == Enter(u, st) IN
           /\ y \in Workflow /\ y.st = st /\ y.hasOpened = u.hasOpened
           /\ st \in TimedStates => y.timer
           /\ \/ y.user1 = u.user1 /\ y.user2 = u.user2
              \/ y.user1 = NoUser /\ y.user2 = NoUser
           /\ st # "Idle" /\ u.hasUnlocked => y.hasUnlocked
           /\ y.force => u.force
           /\ st = "Idle" => ~y.force
<1>. DEFINE t == st \in TimedStates \/ (u.timer /\ u.st \notin TimedStates)
            h == u.hasUnlocked /\ st # "Idle"
            n == u.generate /\ st # "Idle"
<1>1. t \in BOOLEAN /\ h \in BOOLEAN /\ n \in BOOLEAN
  OBVIOUS
<1>2. (st \in TimedStates => t) /\ (st # "Idle" /\ u.hasUnlocked => h)
  OBVIOUS
<1>3. "Idle" \in LogoutStates
  BY DEF LogoutStates
<1>4. CASE st \in LogoutStates
  <2>1. Enter(u, st) = [removeLoggedUsers(u) EXCEPT !.st = st, !.timer = t,
                          !.hasUnlocked = h, !.generate = n]
    BY <1>4 DEF Enter
  <2>. HIDE DEF t, h, n
  <2>. QED  BY <1>1, <1>2, <2>1 DEF removeLoggedUsers, Workflow
<1>5. CASE st \notin LogoutStates
  <2>1. Enter(u, st) = [u EXCEPT !.st = st, !.timer = t,
                          !.hasUnlocked = h, !.generate = n]
    BY <1>5 DEF Enter
  <2>. HIDE DEF t, h, n
  <2>. QED  BY <1>1, <1>2, <1>3, <1>5, <2>1 DEF Workflow
<1>. QED  BY <1>4, <1>5

(* executeStateMachine returns a workflow in the state Entered names. *)
LEMMA ExecuteType ==
    ASSUME NEW u \in Workflow, NEW e \in Events, NEW g, NEW ok \in BOOLEAN
    PROVE  /\ executeStateMachine(u, e, g, ok) \in Workflow
           /\ executeStateMachine(u, e, g, ok).st = Entered(u, e, g, ok)
           /\ Entered(u, e, g, ok) \in States
<1>1. u.st \in States
  BY DEF Workflow
<1>2. Target(u.st, e, g) \in States
  BY <1>1, TargetType
<1>3. Entered(u, e, g, ok) \in States /\ \A st : ErrorState(st) \in States
  BY <1>2, ErrorStateType DEF Entered
<1>4. ConsumeForce(u, e, g) \in Workflow /\ ConsumeForce(u, e, g).st = u.st
  BY DEF ConsumeForce, Workflow
<1>7. ASSUME NEW v \in Workflow
      PROVE  /\ [v EXCEPT !.hasUnlocked = TRUE] \in Workflow
             /\ [v EXCEPT !.hasUnlocked = TRUE].st = v.st
  BY DEF Workflow
<1>8. CASE Target(u.st, e, g) = u.st
  BY <1>2, <1>3, <1>4, <1>8 DEF executeStateMachine, Entered, SendsUnlock
<1>9. CASE Target(u.st, e, g) # u.st
  BY <1>2, <1>3, <1>4, <1>7, <1>9, EnterFields DEF executeStateMachine, Entered
<1>. QED  BY <1>8, <1>9

(* What an event leaves of the fields the invariants speak of: the timer     *)
(* runs in the timed state entered, the users are kept or logged out         *)
(* together, an accepted unlock command is remembered and only Idle forgets  *)
(* one, and only a login or nothing keeps the forced override.               *)
LEMMA ExecuteFields ==
    ASSUME NEW u \in Workflow, NEW e \in Events, NEW g, NEW ok \in BOOLEAN
    PROVE  LET x == executeStateMachine(u, e, g, ok)
               to == Target(u.st, e, g)
           IN  /\ to # u.st /\ x.st \in TimedStates => x.timer
               /\ to = u.st => /\ x.st = u.st /\ x.timer = u.timer
                               /\ x.hasUnlocked = u.hasUnlocked
               /\ \/ x.user1 = u.user1 /\ x.user2 = u.user2
                  \/ x.user1 = NoUser /\ x.user2 = NoUser
               /\ x.st # "Idle" /\ u.hasUnlocked => x.hasUnlocked
               /\ SendsUnlock(u, e, g) /\ ok => x.hasUnlocked
               /\ x.force => u.force
               /\ to # u.st /\ x.st = "Idle" => ~x.force
               /\ x.hasOpened = u.hasOpened
<1>. DEFINE to == Target(u.st, e, g)
            v == ConsumeForce(u, e, g)
            x == executeStateMachine(u, e, g, ok)
<1>1. /\ v \in Workflow
      /\ v.st = u.st /\ v.timer = u.timer /\ v.hasUnlocked = u.hasUnlocked
      /\ v.user1 = u.user1 /\ v.user2 = u.user2
      /\ v.hasOpened = u.hasOpened /\ (v.force => u.force)
  BY DEF ConsumeForce, Workflow
<1>3. to \in States /\ ErrorState(to) \in States
  BY TargetType, ErrorStateType DEF Workflow
<1>4. CASE to = u.st
  BY <1>1, <1>4 DEF executeStateMachine, SendsUnlock
<1>5. CASE to # u.st /\ ~SendsUnlock(u, e, g)
  <2>1. x = Enter(v, to)
    BY <1>5 DEF executeStateMachine, Entered
  <2>. HIDE DEF to, v, x
  <2>2. /\ x.st = to /\ x.hasOpened = v.hasOpened
        /\ to \in TimedStates => x.timer
        /\ \/ x.user1 = v.user1 /\ x.user2 = v.user2
           \/ x.user1 = NoUser /\ x.user2 = NoUser
        /\ to # "Idle" /\ v.hasUnlocked => x.hasUnlocked
        /\ x.force => v.force
        /\ to = "Idle" => ~x.force
    BY <1>1, <1>3, <2>1, EnterFields
  <2>3. /\ x.st \in TimedStates => x.timer
        /\ \/ x.user1 = u.user1 /\ x.user2 = u.user2
           \/ x.user1 = NoUser /\ x.user2 = NoUser
        /\ x.st # "Idle" /\ u.hasUnlocked => x.hasUnlocked
        /\ (x.force => u.force) /\ (x.st = "Idle" => ~x.force)
        /\ x.hasOpened = u.hasOpened
    BY <1>1, <2>2
  <2>. QED  BY <1>5, <2>3 DEF to, x
<1>6. CASE to # u.st /\ SendsUnlock(u, e, g) /\ ~ok
  <2>1. x = Enter(v, ErrorState(to))
    BY <1>6 DEF executeStateMachine
  <2>. HIDE DEF to, v, x
  <2>2. /\ x.st = ErrorState(to) /\ x.hasOpened = v.hasOpened
        /\ ErrorState(to) \in TimedStates => x.timer
        /\ \/ x.user1 = v.user1 /\ x.user2 = v.user2
           \/ x.user1 = NoUser /\ x.user2 = NoUser
        /\ ErrorState(to) # "Idle" /\ v.hasUnlocked => x.hasUnlocked
        /\ x.force => v.force
        /\ ErrorState(to) = "Idle" => ~x.force
    BY <1>1, <1>3, <2>1, EnterFields
  <2>3. /\ x.st \in TimedStates => x.timer
        /\ \/ x.user1 = u.user1 /\ x.user2 = u.user2
           \/ x.user1 = NoUser /\ x.user2 = NoUser
        /\ x.st # "Idle" /\ u.hasUnlocked => x.hasUnlocked
        /\ (x.force => u.force) /\ (x.st = "Idle" => ~x.force)
        /\ x.hasOpened = u.hasOpened
    BY <1>1, <2>2
  <2>. QED  BY <1>6, <2>3 DEF to, x
<1>7. CASE to # u.st /\ SendsUnlock(u, e, g) /\ ok
  <2>1. x = [Enter(v, to) EXCEPT !.hasUnlocked = TRUE]
    BY <1>7 DEF executeStateMachine
  <2>. HIDE DEF to, v, x
  <2>2. PICK y \in Workflow :
          /\ y = Enter(v, to)
          /\ y.st = to /\ y.hasOpened = v.hasOpened
          /\ to \in TimedStates => y.timer
          /\ \/ y.user1 = v.user1 /\ y.user2 = v.user2
             \/ y.user1 = NoUser /\ y.user2 = NoUser
          /\ y.force => v.force
          /\ to = "Idle" => ~y.force
    BY <1>1, <1>3, EnterFields
  <2>3. /\ x.st = y.st /\ x.hasOpened = y.hasOpened /\ x.timer = y.timer
        /\ x.user1 = y.user1 /\ x.user2 = y.user2 /\ x.force = y.force
        /\ x.hasUnlocked = TRUE
    BY <2>1, <2>2 DEF Workflow
  <2>4. /\ x.st \in TimedStates => x.timer
        /\ \/ x.user1 = u.user1 /\ x.user2 = u.user2
           \/ x.user1 = NoUser /\ x.user2 = NoUser
        /\ x.hasUnlocked /\ x.hasOpened = u.hasOpened
        /\ x.force => u.force
        /\ x.st = "Idle" => ~x.force
    BY <1>1, <2>2, <2>3
  <2>. QED  BY <1>7, <2>4 DEF to, x
<1>. QED  BY <1>4, <1>5, <1>6, <1>7

(* The buzzer's level counts the state before and after an event alike. *)
LEMMA BuzzerCounts ==
    ASSUME NEW u \in Workflow, NEW e \in Events, NEW g, NEW ok \in BOOLEAN,
           NEW level, level = IF u.st \in BuzzStates THEN 1 ELSE 0
    PROVE  BuzzerAfter(level, u, e, g, ok) =
             IF Entered(u, e, g, ok) \in BuzzStates THEN 1 ELSE 0
BY DEF BuzzerAfter, buzzerStart, buzzerStop, Entered, SendsUnlock

-----------------------------------------------------------------------------
(* Assignments to the workflow object keep its type and its state. *)
LEMMA FieldsType ==
    ASSUME NEW v \in Workflow, NEW b \in BOOLEAN
    PROVE  /\ removeLoggedUsers(v) \in Workflow
           /\ Cleanup(v) \in Workflow
           /\ [removeLoggedUsers(v) EXCEPT !.generate = b] \in Workflow
           /\ [removeLoggedUsers(v) EXCEPT !.hasOpened = FALSE, !.generate = b] \in Workflow
           /\ [v EXCEPT !.hasOpened = b] \in Workflow
           /\ [v EXCEPT !.timer = b] \in Workflow
           /\ [v EXCEPT !.force = b] \in Workflow
BY DEF removeLoggedUsers, Cleanup, Workflow

LEMMA LoggedInType ==
    ASSUME NEW v \in Workflow, NEW u \in Users
    PROVE  LoggedIn(v, u) \in Workflow
BY DEF LoggedIn, Workflow

LEMMA ExecuteInWorkflow ==
    ASSUME NEW v \in Workflow, NEW e \in Events, NEW ok \in BOOLEAN
    PROVE  Execute(v, e, ok) \in Workflow
BY ExecuteType DEF Execute

LEMMA AfterLoginType ==
    ASSUME NEW v \in Workflow, NEW u \in Users, NEW ok \in BOOLEAN
    PROVE  AfterLogin(v, u, ok) \in Workflow
<1>1. "USER_LOGIN" \in Events
  BY DEF Events
<1>. QED  BY <1>1, LoggedInType, ExecuteInWorkflow DEF AfterLogin

(* The effects of an event outside the workflow object are well typed. *)
LEMMA EffectsType ==
    ASSUME TypeOK, NEW v \in Workflow, NEW e \in Events, NEW ok \in BOOLEAN,
           Effects(v, e, ok)
    PROVE  /\ buzzer' \in Nat
           /\ alarm' \subseteq {"violation", "attention"}
           /\ keys' \subseteq Users
           /\ served' \in BOOLEAN /\ hurried' \in BOOLEAN /\ turned' \in BOOLEAN
<1>. DEFINE g == CurrentGuards(v)
<1>1. buzzer' \in Nat
  <2>1. buzzer \in Nat /\ buzzer' = BuzzerAfter(buzzer, v, e, g, ok)
    BY DEF TypeOK, Effects
  <2>. QED  BY <2>1 DEF BuzzerAfter, buzzerStart, buzzerStop
<1>2. alarm' \subseteq {"violation", "attention"}
  <2>1. Alarms(v, e, g, ok) \subseteq {"violation", "attention"}
    BY DEF Alarms
  <2>. QED  BY <2>1 DEF TypeOK, Effects
<1>3. keys' \subseteq Users
  <2>1. v.user1 \in Users \cup {NoUser} /\ v.user2 \in Users \cup {NoUser}
    BY DEF Workflow
  <2>. QED  BY <2>1 DEF TypeOK, Effects
<1>4. served' \in BOOLEAN /\ hurried' \in BOOLEAN /\ turned' \in BOOLEAN
  BY DEF TypeOK, Effects
<1>. QED  BY <1>1, <1>2, <1>3, <1>4

LEMMA LoginEffectsType ==
    ASSUME TypeOK, NEW v \in Workflow, NEW u \in Users, NEW ok \in BOOLEAN,
           LoginEffects(v, u, ok)
    PROVE  /\ buzzer' \in Nat
           /\ alarm' \subseteq {"violation", "attention"}
           /\ keys' \subseteq Users
           /\ served' \in BOOLEAN /\ hurried' \in BOOLEAN /\ turned' \in BOOLEAN
<1>1. "USER_LOGIN" \in Events
  BY DEF Events
<1>2. CASE NoEffects
  BY <1>2 DEF NoEffects, TypeOK
<1>3. CASE Effects(LoggedIn(v, u), "USER_LOGIN", ok)
  BY <1>1, <1>3, LoggedInType, EffectsType
<1>. QED  BY <1>2, <1>3 DEF LoginEffects

(* The dispatcher's calls are calls. *)
LEMMA CallsType ==
    ASSUME NEW value \in {0, 1}
    PROVE  PlungerCalls(value) \in Seq(Calls) /\ LockerCalls(value) \in Seq(Calls)
<1>1. /\ <<"OPEN_DOOR">> \in Seq(Calls) /\ <<"CLOSE_DOOR">> \in Seq(Calls)
      /\ <<"CLOSE_DOOR", "LOCK_DOOR">> \in Seq(Calls)
      /\ <<"CLOSE_DOOR", "LOCK_DOOR", "setLock">> \in Seq(Calls)
      /\ <<"OPEN_DOOR", "setUnlock">> \in Seq(Calls)
      /\ <<"LOCK_DOOR", "setLock">> \in Seq(Calls)
      /\ <<"UNLOCK_DOOR", "setUnlock">> \in Seq(Calls)
  BY DEF Calls
<1>2. PlungerCalls(value) \in Seq(Calls)
  BY <1>1 DEF PlungerCalls
<1>3. LockerCalls(value) \in Seq(Calls)
  BY <1>1 DEF LockerCalls
<1>. QED  BY <1>2, <1>3

LEMMA TailType ==
    ASSUME NEW s \in Seq(Calls), s # <<>>
    PROVE  Tail(s) \in Seq(Calls)
OBVIOUS

(* TypeOK is inductive. *)
LEMMA TypeStep == TypeOK /\ [Next]_vars => TypeOK'
<1>. SUFFICES ASSUME TypeOK, [Next]_vars PROVE TypeOK'
  OBVIOUS
<1>. USE DEF Sessions
<1>0. w \in Workflow /\ w.st \in States /\ w.generate \in BOOLEAN /\ w.force \in BOOLEAN
  BY DEF TypeOK, Workflow
<1>1. CASE UiOpenDoor
  <2>1. w' \in Workflow
    BY <1>0, <1>1, FieldsType DEF UiOpenDoor
  <2>. QED  BY <1>1, <2>1 DEF UiOpenDoor, TypeOK, NoEffects, Ghosts, device, Loop
<1>2. CASE UiStateChange
  <2>1. w' \in Workflow
    BY <1>0, <1>2 DEF UiStateChange, removeLoggedUsers, Workflow
  <2>. QED  BY <1>2, <2>1 DEF UiStateChange, TypeOK, NoEffects, Ghosts, device, Loop
<1>3. CASE UiCancel
  <2>1. w' \in Workflow
    BY <1>0, <1>3, FieldsType DEF UiCancel
  <2>. QED  BY <1>3, <2>1 DEF UiCancel, TypeOK, NoEffects, Ghosts, device
<1>4. ASSUME NEW removeCash \in BOOLEAN, UiRemoveCash(removeCash) PROVE TypeOK'
  <2>1. w' \in Workflow
    BY <1>0, <1>4, FieldsType DEF UiRemoveCash
  <2>. QED  BY <1>4, <2>1 DEF UiRemoveCash, TypeOK, NoEffects, Ghosts, device, Loop
<1>5. ASSUME NEW u \in Users, NEW ok \in BOOLEAN, UiLogin(u, ok) PROVE TypeOK'
  <2>. DEFINE v == IF session = "stateChange" THEN [w EXCEPT !.force = TRUE] ELSE w
  <2>1. v \in Workflow
    BY <1>0, FieldsType
  <2>2. /\ w' \in {Cleanup(AfterLogin(v, u, ok)), AfterLogin(v, u, ok)}
        /\ LoginEffects(v, u, ok)
    BY <1>5 DEF UiLogin
  <2>. HIDE DEF v
  <2>3. w' \in Workflow
    BY <2>1, <2>2, FieldsType, AfterLoginType
  <2>. QED  BY <1>5, <2>1, <2>2, <2>3, LoginEffectsType DEF UiLogin, TypeOK, Ghosts, device, Loop
<1>6. ASSUME NEW u \in Users, NEW ok \in BOOLEAN, ConsoleOpenDoor(u, ok) PROVE TypeOK'
  <2>. DEFINE b == w.generate \/ w.st = "Idle"
              v == [removeLoggedUsers(w) EXCEPT !.hasOpened = FALSE, !.generate = b]
  <2>1. b \in BOOLEAN
    OBVIOUS
  <2>2. w' = AfterLogin(v, u, ok) /\ LoginEffects(v, u, ok)
    <3>1. removeLoggedUsers(w).generate = w.generate
      BY <1>0 DEF removeLoggedUsers, Workflow
    <3>. QED  BY <1>0, <1>6, <3>1 DEF ConsoleOpenDoor, removeLoggedUsers, Workflow
  <2>. HIDE DEF b
  <2>3. v \in Workflow
    BY <1>0, <2>1, FieldsType
  <2>. HIDE DEF v
  <2>4. w' \in Workflow
    BY <2>2, <2>3, AfterLoginType
  <2>. QED  BY <1>6, <2>2, <2>3, <2>4, LoginEffectsType DEF ConsoleOpenDoor, TypeOK, Ghosts, device
<1>7. CASE CancelTimeDelay
  <2>1. "CANCEL_TIME_DELAY" \in Events
    BY DEF Events
  <2>2. w' \in Workflow
    BY <1>0, <1>7, <2>1, ExecuteInWorkflow DEF CancelTimeDelay
  <2>. QED  BY <1>0, <1>7, <2>1, <2>2, EffectsType DEF CancelTimeDelay, TypeOK, Ghosts, device
<1>8. CASE DoorOpen
  <2>. DEFINE v == [w EXCEPT !.hasOpened = TRUE]
              x == Execute(v, "OPEN_DOOR", TRUE)
  <2>1. v \in Workflow /\ "OPEN_DOOR" \in Events
    BY <1>0, FieldsType DEF Events
  <2>2. /\ w' = x
        /\ Effects(v, "OPEN_DOOR", TRUE)
    BY <1>8 DEF DoorOpen
  <2>. HIDE DEF v
  <2>3. x \in Workflow
    BY <2>1, ExecuteInWorkflow
  <2>. HIDE DEF x
  <2>4. w' \in Workflow
    BY <2>2, <2>3, FieldsType
  <2>5. todo' \in Seq(Calls)
    <3>1. todo # <<>> /\ todo' = Tail(todo)
      BY <1>8 DEF DoorOpen
    <3>2. todo \in Seq(Calls)
      BY DEF TypeOK
    <3>. QED  BY <3>1, <3>2, TailType
  <2>6. stale' \in BOOLEAN /\ forced' \in BOOLEAN
    BY <1>8 DEF DoorOpen, Ghosts
  <2>7. UNCHANGED <<session, expiry, plunger, locker, lockState>>
    BY <1>8 DEF DoorOpen
  <2>. QED  BY <2>1, <2>2, <2>4, <2>5, <2>6, <2>7, EffectsType DEF TypeOK
<1>9. ASSUME NEW e \in {"CLOSE_DOOR", "LOCK_DOOR", "UNLOCK_DOOR"}, DoorEvent(e) PROVE TypeOK'
  <2>1. e \in Events
    BY DEF Events
  <2>2. w' \in Workflow
    BY <1>0, <1>9, <2>1, ExecuteInWorkflow DEF DoorEvent
  <2>3. Effects(w, e, TRUE) /\ todo' \in Seq(Calls)
    <3>1. todo # <<>> /\ todo' = Tail(todo) /\ Effects(w, e, TRUE)
      BY <1>9 DEF DoorEvent
    <3>2. todo \in Seq(Calls)
      BY DEF TypeOK
    <3>. QED  BY <3>1, <3>2, TailType
  <2>4. stale' \in BOOLEAN /\ forced' \in BOOLEAN
    BY <1>9 DEF DoorEvent, Ghosts
  <2>5. UNCHANGED <<session, expiry, plunger, locker, lockState>>
    BY <1>9 DEF DoorEvent
  <2>. QED  BY <1>0, <2>1, <2>2, <2>3, <2>4, <2>5, EffectsType DEF TypeOK
<1>10. CASE SetLockState
  BY <1>10 DEF SetLockState, TypeOK, machine
<1>11. ASSUME NEW value \in {0, 1}, PlungerEvent(value) PROVE TypeOK'
  BY <1>11, CallsType DEF PlungerEvent, TypeOK, machine
<1>12. ASSUME NEW value \in {0, 1}, LockerEvent(value) PROVE TypeOK'
  BY <1>12, CallsType DEF LockerEvent, TypeOK, machine
<1>13. CASE TimerPick
  BY <1>13 DEF TimerPick, TypeOK, machine, device
<1>14. CASE TimerExpire
  <2>1. w' \in Workflow
    BY <1>0, <1>14, FieldsType DEF TimerExpire
  <2>. QED  BY <1>14, <2>1 DEF TimerExpire, TypeOK, device
<1>15. CASE timerExpired
  <2>1. "TIMER_EXPIRED" \in Events
    BY DEF Events
  <2>2. w' \in Workflow
    BY <1>0, <1>15, <2>1, ExecuteInWorkflow DEF timerExpired
  <2>. QED  BY <1>0, <1>15, <2>1, <2>2, EffectsType DEF timerExpired, TypeOK, Ghosts, device
<1>16. CASE UNCHANGED vars
  BY <1>16 DEF vars, TypeOK
<1>. QED
  BY <1>1, <1>2, <1>3, <1>4, <1>5, <1>6, <1>7, <1>8, <1>9, <1>10, <1>11, <1>12,
     <1>13, <1>14, <1>15, <1>16 DEF Next, Ui, Console, Dispatch, Sense, Timer

LEMMA TypeInit == Init => TypeOK
<1>1. NewWorkflow \in Workflow
  BY DEF NewWorkflow, Workflow, States
<1>2. <<>> \in Seq(Calls)
  OBVIOUS
<1>3. "none" \in Sessions
  BY DEF Sessions
<1>. SUFFICES ASSUME Init PROVE TypeOK
  OBVIOUS
<1>4. w \in Workflow /\ session \in Sessions /\ todo \in Seq(Calls)
  BY <1>1, <1>2, <1>3 DEF Init
<1>5. /\ plunger \in {0, 1, Unknown} /\ locker \in {0, 1, Unknown}
      /\ lockState \in {"UNDEFINED", "LOCK", "UNLOCK"}
      /\ expiry \in {"none", "picked", "calling"}
  BY DEF Init
<1>6. buzzer \in Nat
  BY DEF Init
<1>7. alarm \subseteq {"violation", "attention"} /\ keys \subseteq Users
  BY DEF Init
<1>8. /\ served \in BOOLEAN /\ hurried \in BOOLEAN /\ turned \in BOOLEAN
      /\ forced \in BOOLEAN /\ stale \in BOOLEAN
  BY DEF Init
<1>. QED  BY <1>4, <1>5, <1>6, <1>7, <1>8 DEF TypeOK

(* The type invariant of the workflow and its environment. *)
THEOREM TypeCorrect == Spec => []TypeOK
BY TypeInit, TypeStep, PTL DEF Spec
-----------------------------------------------------------------------------
(***************************************************************************)
(* The inductive invariant. What the properties leave out: which users may *)
(* be logged in together (UsersOK), how each state after an opening is     *)
(* accounted for (Accounted), that AccessTime follows a delay, served or   *)
(* cut short (Served), and that a forced override waiting in Idle belongs  *)
(* to a change of commercial state in progress (ForceOK).                  *)
(***************************************************************************)
UsersOK(v) ==
    /\ v.user1 # NoUser => v.user1 \in HasAccessToDoor
    /\ v.user2 # NoUser =>
         /\ KeyCount = 2 /\ v.user1 # NoUser /\ v.user1 # v.user2
         /\ v.user2 \in HasAccessToDoor /\ <<v.user1, v.user2>> \in HasDualAccess

Accounted ==
    /\ w.st \in {"WaitUnlockDoor", "WaitOpenDoor", "WaitUnlockDoorWithOpenDoor"} =>
         w.hasUnlocked
    /\ w.st = "OpenDoorViolation" => "violation" \in alarm
    /\ w.st \in {"DoorLockAndOpen", "WaitCloseDoor"} =>
         w.hasUnlocked \/ "violation" \in alarm
    /\ w.st \in LateStates => w.hasUnlocked \/ "violation" \in alarm \/ turned

Served == w.st = "AccessTime" => served \/ hurried

ForceOK == w.force /\ w.st = "Idle" => session = "stateChange"

IInv ==
    /\ TypeOK /\ NeverStuck /\ BuzzerMatches /\ DualControl /\ DelayRespected
    /\ UsersOK(w) /\ Accounted /\ Served /\ ForceOK

-----------------------------------------------------------------------------
(* Every step is one of three: it leaves the machine where it is (Quiet), it *)
(* takes the timer out of its table (TimerExpire), or it runs one event on a *)
(* workflow v that differs from w in the logged users at most (Ran).         *)
Same(v, x) == v.st = x.st /\ v.timer = x.timer /\ v.hasUnlocked = x.hasUnlocked

RunEvents ==
    {"USER_LOGIN", "CANCEL_TIME_DELAY", "OPEN_DOOR", "CLOSE_DOOR", "LOCK_DOOR",
     "UNLOCK_DOOR", "TIMER_EXPIRED"}

Quiet ==
    /\ Same(w', w) /\ UsersOK(w') /\ NoEffects
    /\ expiry = "calling" => expiry' = "calling"
    /\ w.st # "Idle" /\ forced => forced'

Ran(v, e, ok) ==
    /\ v \in Workflow /\ e \in RunEvents /\ ok \in BOOLEAN
    /\ Same(v, w) /\ UsersOK(v)
    /\ Same(w', Execute(v, e, ok)) /\ UsersOK(w')
    /\ Effects(v, e, ok)
    /\ e = "TIMER_EXPIRED" \/ expiry' = expiry
    /\ w'.st # "Idle" /\ forced => forced'
    /\ w'.st # "Idle" /\ w.st = "Idle" /\ e = "USER_LOGIN" /\ v.force => forced'

LEMMA RunEventsAreEvents == RunEvents \subseteq Events
BY DEF RunEvents, Events

(* Logging users out, or running an event, never makes a bad pair of users. *)
LEMMA UsersKept ==
    ASSUME NEW v \in Workflow, UsersOK(v), NEW b \in BOOLEAN
    PROVE  /\ UsersOK(removeLoggedUsers(v)) /\ Same(removeLoggedUsers(v), v)
           /\ UsersOK(Cleanup(v)) /\ Same(Cleanup(v), v)
           /\ \A e \in Events, ok \in BOOLEAN : UsersOK(Execute(v, e, ok))
<1>1. ASSUME NEW e \in Events, NEW ok \in BOOLEAN
      PROVE  UsersOK(Execute(v, e, ok))
  <2>. DEFINE x == Execute(v, e, ok)
  <2>1. \/ x.user1 = v.user1 /\ x.user2 = v.user2
        \/ x.user1 = NoUser /\ x.user2 = NoUser
    BY ExecuteFields DEF Execute
  <2>. HIDE DEF x
  <2>. QED  BY <2>1 DEF UsersOK, x
<1>2. /\ removeLoggedUsers(v).user1 = NoUser /\ removeLoggedUsers(v).user2 = NoUser
      /\ Same(removeLoggedUsers(v), v)
  BY DEF removeLoggedUsers, Same, Workflow
<1>3. /\ Cleanup(v).user1 = NoUser /\ Cleanup(v).user2 = NoUser /\ Same(Cleanup(v), v)
  BY DEF Cleanup, removeLoggedUsers, Same, Workflow
<1>. QED  BY <1>1, <1>2, <1>3 DEF UsersOK

(* An allowed login makes an allowed pair. *)
LEMMA UsersLogin ==
    ASSUME NEW v \in Workflow, UsersOK(v), NEW u \in Users,
           LoginAllowed(v, u, KeyCount), LoginCounts(v, KeyCount)
    PROVE  UsersOK(LoggedIn(v, u)) /\ Same(LoggedIn(v, u), v)
           /\ LoggedIn(v, u).force = v.force
<1>1. CASE v.user1 = NoUser
  <2>1. LoggedIn(v, u) = [v EXCEPT !.user1 = u]
    BY <1>1 DEF LoggedIn
  <2>2. LoggedIn(v, u).user1 = u /\ LoggedIn(v, u).user2 = NoUser
    BY <1>1, <2>1 DEF Workflow, UsersOK
  <2>. QED  BY <2>1, <2>2 DEF LoginAllowed, UsersOK, Same, Workflow
<1>2. CASE v.user1 # NoUser
  <2>1. LoggedIn(v, u) = [v EXCEPT !.user2 = u]
    BY <1>2 DEF LoggedIn
  <2>2. LoggedIn(v, u).user1 = v.user1 /\ LoggedIn(v, u).user2 = u
    BY <2>1 DEF Workflow
  <2>. QED  BY <1>2, <2>1, <2>2 DEF LoginAllowed, LoginCounts, UsersOK, Same, Workflow
<1>. QED  BY <1>1, <1>2

(* A login is a quiet step or runs USER_LOGIN. *)
LEMMA LoginShape ==
    ASSUME NEW v \in Workflow, Same(v, w), UsersOK(v), NEW u \in Users,
           NEW ok \in BOOLEAN, LoginEffects(v, u, ok),
           w.st \in States,
           Same(w', AfterLogin(v, u, ok)), UsersOK(w'), expiry' = expiry,
           w'.st # "Idle" /\ forced => forced',
           w'.st # "Idle" /\ w.st = "Idle" /\ v.force => forced'
    PROVE  Quiet \/ \E x, e, k : Ran(x, e, k)
<1>1. CASE LoginAllowed(v, u, KeyCount) /\ LoginCounts(v, KeyCount)
  <2>. DEFINE x == LoggedIn(v, u)
  <2>1. /\ x \in Workflow /\ UsersOK(x) /\ Same(x, v) /\ x.force = v.force
        /\ Effects(x, "USER_LOGIN", ok)
        /\ AfterLogin(v, u, ok) = Execute(x, "USER_LOGIN", ok)
    BY <1>1, LoggedInType, UsersLogin DEF LoginEffects, AfterLogin
  <2>. HIDE DEF x
  <2>2. Same(x, w)
    BY <2>1 DEF Same
  <2>3. Ran(x, "USER_LOGIN", ok)
    BY <2>1, <2>2 DEF Ran, RunEvents
  <2>. QED  BY <2>3
<1>2. CASE ~(LoginAllowed(v, u, KeyCount) /\ LoginCounts(v, KeyCount))
  <2>1. NoEffects /\ AfterLogin(v, u, ok) = v
    BY <1>2 DEF LoginEffects, AfterLogin
  <2>2. Same(w', w)
    BY <2>1 DEF Same
  <2>. QED  BY <2>1, <2>2 DEF Quiet, Same
<1>. QED  BY <1>1, <1>2
LEMMA Shape ==
    ASSUME TypeOK, UsersOK(w), ForceOK, [Next]_vars
    PROVE  Quiet \/ TimerExpire \/ \E v, e, ok : Ran(v, e, ok)
<1>0. w \in Workflow /\ w.st \in States /\ Same(w, w)
  BY DEF TypeOK, Workflow, Same
<1>1. CASE UiOpenDoor
  <2>. DEFINE v == [w EXCEPT !.hasOpened = FALSE]
  <2>1. v \in Workflow /\ Same(v, w) /\ v.user1 = w.user1 /\ v.user2 = w.user2
    BY <1>0 DEF Workflow, Same
  <2>2. w' = v \/ w' = removeLoggedUsers(v)
    BY <1>1 DEF UiOpenDoor
  <2>. HIDE DEF v
  <2>3. UsersOK(v)
    BY <2>1 DEF UsersOK
  <2>4. Same(w', w) /\ UsersOK(w')
    BY <2>1, <2>2, <2>3, UsersKept DEF Same
  <2>. QED  BY <1>1, <2>4 DEF UiOpenDoor, Ghosts, Quiet, Same
<1>2. CASE UiStateChange
  <2>1. Same(w', w) /\ w'.user1 = NoUser /\ w'.user2 = NoUser
    BY <1>0, <1>2 DEF UiStateChange, removeLoggedUsers, Same, Workflow
  <2>2. UsersOK(w')
    BY <2>1 DEF UsersOK
  <2>. QED  BY <1>2, <2>1, <2>2 DEF UiStateChange, Ghosts, Quiet, Same
<1>3. CASE UiCancel
  <2>1. Same(w', w) /\ UsersOK(w')
    BY <1>0, <1>3, UsersKept DEF UiCancel
  <2>. QED  BY <1>3, <2>1 DEF UiCancel, Ghosts, Quiet, Same
<1>4. ASSUME NEW removeCash \in BOOLEAN, UiRemoveCash(removeCash) PROVE Quiet
  <2>1. Same(w', w) /\ w'.user1 = NoUser /\ w'.user2 = NoUser
    BY <1>0, <1>4 DEF UiRemoveCash, removeLoggedUsers, Same, Workflow
  <2>2. UsersOK(w')
    BY <2>1 DEF UsersOK
  <2>. QED  BY <1>4, <2>1, <2>2 DEF UiRemoveCash, Ghosts, Quiet, Same
<1>5. ASSUME NEW u \in Users, NEW k \in BOOLEAN, UiLogin(u, k)
      PROVE  Quiet \/ \E v, e, ok : Ran(v, e, ok)
  <2>. DEFINE v == IF session = "stateChange" THEN [w EXCEPT !.force = TRUE] ELSE w
              x == AfterLogin(v, u, k)
  <2>1. v \in Workflow /\ Same(v, w) /\ v.user1 = w.user1 /\ v.user2 = w.user2
    BY <1>0 DEF Workflow, Same
  <2>2. /\ w' \in {Cleanup(x), x} /\ LoginEffects(v, u, k) /\ expiry' = expiry
        /\ w'.st # "Idle" /\ forced => forced'
        /\ w'.st # "Idle" /\ w.st = "Idle" /\ session = "stateChange" => forced'
        /\ ~LoginThrows(v, u, k) => w' = x
    BY <1>5 DEF UiLogin, Ghosts
  <2>3. v.force /\ w.st = "Idle" => session = "stateChange"
    BY DEF ForceOK
  <2>. HIDE DEF v
  <2>4. UsersOK(v)
    BY <2>1 DEF UsersOK
  <2>5. x \in Workflow /\ UsersOK(x)
    <3>1. "USER_LOGIN" \in Events
      BY DEF Events
    <3>. QED  BY <2>1, <2>4, <3>1, AfterLoginType, UsersLogin, LoggedInType, UsersKept
              DEF AfterLogin
  <2>. HIDE DEF x
  <2>6. Same(w', x) /\ UsersOK(w')
    BY <2>2, <2>5, UsersKept DEF Same
  <2>7. AfterLogin(v, u, k) = x
    BY DEF x
  <2>. QED  BY <1>0, <2>1, <2>2, <2>3, <2>4, <2>6, <2>7, LoginShape
<1>6. ASSUME NEW u \in Users, NEW k \in BOOLEAN, ConsoleOpenDoor(u, k)
      PROVE  Quiet \/ \E v, e, ok : Ran(v, e, ok)
  <2>. DEFINE v == [removeLoggedUsers(w) EXCEPT
                      !.hasOpened = FALSE, !.generate = @ \/ w.st = "Idle"]
  <2>1. /\ v \in Workflow /\ Same(v, w) /\ v.user1 = NoUser /\ v.user2 = NoUser
        /\ v.force = FALSE
    BY <1>0 DEF removeLoggedUsers, Workflow, Same
  <2>2. /\ w' = AfterLogin(v, u, k) /\ LoginEffects(v, u, k) /\ expiry' = expiry
        /\ w'.st # "Idle" /\ forced => forced'
    BY <1>6 DEF ConsoleOpenDoor, Ghosts
  <2>. HIDE DEF v
  <2>3. UsersOK(v)
    BY <2>1 DEF UsersOK
  <2>4. UsersOK(w')
    <3>1. "USER_LOGIN" \in Events
      BY DEF Events
    <3>. QED  BY <2>1, <2>2, <2>3, <3>1, UsersLogin, LoggedInType, UsersKept DEF AfterLogin
  <2>5. Same(w', AfterLogin(v, u, k))
    BY <2>2 DEF Same
  <2>. QED  BY <1>0, <2>1, <2>2, <2>3, <2>4, <2>5, LoginShape
<1>7. CASE CancelTimeDelay
  <2>1. /\ w' = Execute(w, "CANCEL_TIME_DELAY", TRUE)
        /\ Effects(w, "CANCEL_TIME_DELAY", TRUE) /\ expiry' = expiry
        /\ w'.st # "Idle" /\ forced => forced'
    BY <1>7 DEF CancelTimeDelay, Ghosts
  <2>2. "CANCEL_TIME_DELAY" \in RunEvents
    BY DEF RunEvents
  <2>3. UsersOK(w')
    BY <1>0, <2>1, <2>2, UsersKept, RunEventsAreEvents
  <2>4. Ran(w, "CANCEL_TIME_DELAY", TRUE)
    BY <1>0, <2>1, <2>2, <2>3 DEF Ran, Same
  <2>. QED  BY <2>4
<1>8. CASE DoorOpen
  <2>. DEFINE v == [w EXCEPT !.hasOpened = TRUE]
              x == Execute(v, "OPEN_DOOR", TRUE)
  <2>1. v \in Workflow /\ Same(v, w) /\ v.user1 = w.user1 /\ v.user2 = w.user2
    BY <1>0 DEF Workflow, Same
  <2>2. /\ w' = x
        /\ Effects(v, "OPEN_DOOR", TRUE) /\ expiry' = expiry
        /\ w'.st # "Idle" /\ forced => forced'
    BY <1>8 DEF DoorOpen, Ghosts
  <2>. HIDE DEF v
  <2>3. UsersOK(v) /\ "OPEN_DOOR" \in RunEvents
    BY <2>1 DEF UsersOK, RunEvents
  <2>4. UsersOK(x) /\ x \in Workflow
    BY <2>1, <2>3, UsersKept, ExecuteInWorkflow, RunEventsAreEvents
  <2>5. x = Execute(v, "OPEN_DOOR", TRUE)
    OBVIOUS
  <2>. HIDE DEF x
  <2>6. Same(w', x) /\ w'.user1 = x.user1 /\ w'.user2 = x.user2
    BY <2>2, <2>4 DEF Same, Workflow
  <2>7. UsersOK(w')
    BY <2>4, <2>6 DEF UsersOK
  <2>8. Ran(v, "OPEN_DOOR", TRUE)
    BY <2>1, <2>2, <2>3, <2>5, <2>6, <2>7 DEF Ran
  <2>. QED  BY <2>8
<1>9. ASSUME NEW d \in {"CLOSE_DOOR", "LOCK_DOOR", "UNLOCK_DOOR"}, DoorEvent(d)
      PROVE  \E v, e, ok : Ran(v, e, ok)
  <2>1. /\ w' = Execute(w, d, TRUE) /\ Effects(w, d, TRUE) /\ expiry' = expiry
        /\ w'.st # "Idle" /\ forced => forced'
    BY <1>9 DEF DoorEvent, Ghosts
  <2>2. d \in RunEvents /\ d # "USER_LOGIN"
    BY DEF RunEvents
  <2>3. UsersOK(w')
    BY <1>0, <2>1, <2>2, UsersKept, RunEventsAreEvents
  <2>4. Ran(w, d, TRUE)
    BY <1>0, <2>1, <2>2, <2>3 DEF Ran, Same
  <2>. QED  BY <2>4
<1>10. CASE SetLockState
  BY <1>0, <1>10 DEF SetLockState, machine, Quiet, NoEffects, Same, UsersOK
<1>11. ASSUME NEW value \in {0, 1}, PlungerEvent(value) PROVE Quiet
  BY <1>0, <1>11 DEF PlungerEvent, machine, Quiet, NoEffects, Same, UsersOK
<1>12. ASSUME NEW value \in {0, 1}, LockerEvent(value) PROVE Quiet
  BY <1>0, <1>12 DEF LockerEvent, machine, Quiet, NoEffects, Same, UsersOK
<1>13. CASE TimerPick
  BY <1>0, <1>13 DEF TimerPick, machine, Quiet, NoEffects, Same, UsersOK
<1>14. CASE timerExpired
  <2>1. /\ w' = Execute(w, "TIMER_EXPIRED", TRUE) /\ Effects(w, "TIMER_EXPIRED", TRUE)
        /\ w'.st # "Idle" /\ forced => forced'
    BY <1>14 DEF timerExpired, Ghosts
  <2>2. "TIMER_EXPIRED" \in RunEvents
    BY DEF RunEvents
  <2>3. UsersOK(w')
    BY <1>0, <2>1, <2>2, UsersKept, RunEventsAreEvents
  <2>4. Ran(w, "TIMER_EXPIRED", TRUE)
    BY <1>0, <2>1, <2>2, <2>3 DEF Ran, Same
  <2>. QED  BY <2>4
<1>15. CASE UNCHANGED vars
  BY <1>0, <1>15 DEF vars, Quiet, NoEffects, Same, UsersOK
<1>. QED
  BY <1>1, <1>2, <1>3, <1>4, <1>5, <1>6, <1>7, <1>8, <1>9, <1>10, <1>11, <1>12,
     <1>13, <1>14, <1>15 DEF Next, Ui, Console, Dispatch, Sense, Timer
-----------------------------------------------------------------------------
(* What the runs of an event have in common. *)
LEMMA RanFacts ==
    ASSUME TypeOK, NEW v, NEW e, NEW ok, Ran(v, e, ok)
    PROVE  LET g == CurrentGuards(v)
               to == Target(w.st, e, g)
           IN  /\ v \in Workflow /\ e \in Events /\ e # "OUTER_DOOR_OPEN"
               /\ ok \in BOOLEAN /\ w.st \in States /\ v.st = w.st
               /\ "any" \in g
               /\ w'.st = Entered(v, e, g, ok)
               /\ to # w.st /\ w'.st \in TimedStates => w'.timer
               /\ to = w.st => /\ w'.st = w.st /\ w'.timer = w.timer
                               /\ w'.hasUnlocked = w.hasUnlocked
               /\ w'.st # "Idle" /\ w.hasUnlocked => w'.hasUnlocked
               /\ SendsUnlock(v, e, g) /\ ok => w'.hasUnlocked
               /\ to # w.st /\ to \in UnlockStates =>
                    e = "USER_LOGIN" /\ isLoginComplete(v, KeyCount) /\ SendsUnlock(v, e, g)
               /\ SendsUnlock(v, e, g) => to # w.st /\ to \in UnlockStates
<1>. DEFINE g == CurrentGuards(v)
            to == Target(w.st, e, g)
            x == executeStateMachine(v, e, g, ok)
<1>1. /\ v \in Workflow /\ e \in Events /\ e # "OUTER_DOOR_OPEN"
      /\ ok \in BOOLEAN /\ w.st \in States /\ v.st = w.st
      /\ v.timer = w.timer /\ v.hasUnlocked = w.hasUnlocked
  BY RunEventsAreEvents DEF Ran, RunEvents, Same, Workflow
<1>2. /\ "any" \in g
      /\ "complete" \in g \/ "noDelay" \in g => isLoginComplete(v, KeyCount)
  BY GuardsMean DEF CurrentGuards
<1>3. w'.st = x.st /\ w'.timer = x.timer /\ w'.hasUnlocked = x.hasUnlocked
  BY DEF Ran, Same, Execute
<1>4. /\ to # w.st /\ x.st \in TimedStates => x.timer
      /\ to = w.st => /\ x.st = w.st /\ x.timer = w.timer
                      /\ x.hasUnlocked = w.hasUnlocked
      /\ x.st # "Idle" /\ w.hasUnlocked => x.hasUnlocked
      /\ SendsUnlock(v, e, g) /\ ok => x.hasUnlocked
  BY <1>1, ExecuteFields
<1>5. x.st = Entered(v, e, g, ok)
  BY <1>1, ExecuteType
<1>6. to # w.st /\ to \in UnlockStates =>
        e = "USER_LOGIN" /\ isLoginComplete(v, KeyCount) /\ SendsUnlock(v, e, g)
  BY <1>1, <1>2, UnlockNeedsLogin DEF SendsUnlock, isLoginComplete
<1>7. SendsUnlock(v, e, g) => to # w.st /\ to \in UnlockStates
  BY <1>1 DEF SendsUnlock
<1>. HIDE DEF g, x, to
<1>. QED  BY <1>1, <1>2, <1>3, <1>4, <1>5, <1>6, <1>7 DEF g, to

LEMMA NeverStuckStep ==
    ASSUME IInv, [Next]_vars
    PROVE  NeverStuck'
<1>1. CASE Quiet
  BY <1>1 DEF IInv, NeverStuck, Quiet, Same
<1>2. CASE TimerExpire
  BY <1>2 DEF TimerExpire, NeverStuck
<1>3. ASSUME NEW v, NEW e, NEW ok, Ran(v, e, ok) PROVE NeverStuck'
  <2>1. e = "TIMER_EXPIRED" \/ expiry' = expiry
    BY <1>3 DEF Ran
  <2>2. ASSUME w.st \in TimedStates \ {"WaitLockDoorError"}, e = "TIMER_EXPIRED"
        PROVE  Target(w.st, e, CurrentGuards(v)) # w.st
    BY <1>3, <2>2, RanFacts, ExpiryLeaves DEF IInv
  <2>. QED  BY <1>3, <2>1, <2>2, RanFacts DEF IInv, NeverStuck
<1>. QED  BY <1>1, <1>2, <1>3, Shape DEF IInv

LEMMA BuzzerStep ==
    ASSUME IInv, [Next]_vars
    PROVE  BuzzerMatches'
<1>1. CASE Quiet
  BY <1>1 DEF IInv, BuzzerMatches, Quiet, Same, NoEffects
<1>2. CASE TimerExpire
  BY <1>2 DEF IInv, TypeOK, Workflow, TimerExpire, BuzzerMatches
<1>3. ASSUME NEW v, NEW e, NEW ok, Ran(v, e, ok) PROVE BuzzerMatches'
  <2>1. buzzer' = BuzzerAfter(buzzer, v, e, CurrentGuards(v), ok)
    BY <1>3 DEF Ran, Effects
  <2>. QED  BY <1>3, <2>1, RanFacts, BuzzerCounts DEF IInv, BuzzerMatches
<1>. QED  BY <1>1, <1>2, <1>3, Shape DEF IInv

LEMMA DualControlStep ==
    ASSUME IInv, [Next]_vars
    PROVE  DualControl'
<1>1. CASE keys' = keys \/ keys' = {}
  BY <1>1 DEF IInv, DualControl
<1>2. ASSUME NEW v, NEW e, NEW ok, Ran(v, e, ok) PROVE DualControl'
  <2>1. CASE ~SendsUnlock(v, e, CurrentGuards(v))
    <3>1. keys' = keys \/ keys' = {}
      BY <1>2, <2>1 DEF Ran, Effects
    <3>. QED  BY <1>1, <3>1
  <2>2. CASE SendsUnlock(v, e, CurrentGuards(v))
    <3>1. keys' = {v.user1, v.user2} \ {NoUser}
      BY <1>2, <2>2 DEF Ran, Effects
    <3>2. isLoginComplete(v, KeyCount) /\ UsersOK(v) /\ v \in Workflow
      BY <1>2, <2>2, RanFacts DEF IInv, Ran
    <3>3. KeyCount \in {1, 2} /\ v.user1 # NoUser /\ v.user1 \in Users
      BY <3>2 DEF isLoginComplete, Workflow
    <3>4. CASE KeyCount = 1
      <4>1. v.user2 = NoUser
        BY <3>2, <3>4 DEF UsersOK
      <4>2. keys' = {v.user1} /\ v.user1 \in HasAccessToDoor
        BY <3>1, <3>2, <3>3, <4>1 DEF UsersOK
      <4>. QED  BY <3>3, <3>4, <4>2 DEF DualControl
    <3>5. CASE KeyCount = 2
      <4>1. v.user2 # NoUser /\ v.user2 \in Users
        BY <3>2, <3>5 DEF isLoginComplete, Workflow
      <4>2. keys' = {v.user1, v.user2}
        BY <3>1, <3>3, <4>1
      <4>. QED  BY <3>2, <3>3, <3>5, <4>1, <4>2 DEF DualControl, UsersOK
    <3>. QED  BY <3>3, <3>4, <3>5
  <2>. QED  BY <2>1, <2>2
<1>3. Quiet \/ TimerExpire => keys' = keys
  BY DEF Quiet, NoEffects, TimerExpire
<1>. QED  BY <1>1, <1>2, <1>3, Shape DEF IInv

LEMMA AccountedStep ==
    ASSUME IInv, [Next]_vars
    PROVE  Accounted'
<1>1. CASE Quiet
  BY <1>1 DEF IInv, Accounted, Quiet, Same, NoEffects
<1>2. CASE TimerExpire
  <2>1. /\ w'.st = w.st /\ w'.hasUnlocked = w.hasUnlocked
        /\ UNCHANGED <<alarm, turned>>
    BY <1>2 DEF IInv, TypeOK, Workflow, TimerExpire
  <2>. QED  BY <2>1 DEF IInv, Accounted
<1>3. ASSUME NEW v, NEW e, NEW ok, Ran(v, e, ok) PROVE Accounted'
  <2>. DEFINE g == CurrentGuards(v)
              to == Target(w.st, e, g)
  <2>1. /\ v.st = w.st /\ v.hasUnlocked = w.hasUnlocked
        /\ w'.st # "Idle" => alarm' = alarm \cup Alarms(v, e, g, ok)
        /\ w'.st # "Idle" =>
             turned' = (turned \/ (w.st = "Idle" /\ e = "UNLOCK_DOOR"))
        /\ w'.st = Entered(v, e, g, ok)
    BY <1>3, RanFacts DEF Ran, Same, Effects, IInv
  <2>2. CASE to = w.st
    <3>1. w'.st = w.st /\ w'.hasUnlocked = w.hasUnlocked
      BY <1>3, <2>2, RanFacts DEF IInv
    <3>. QED  BY <2>1, <3>1 DEF IInv, Accounted, LateStates
  <2>3. CASE to # w.st
    <3>1. to \in UnlockStates => SendsUnlock(v, e, g)
      BY <1>3, <2>3, RanFacts DEF IInv
    <3>2. SendsUnlock(v, e, g) => to \in UnlockStates
      BY <1>3, RanFacts DEF IInv
    <3>3. SendsUnlock(v, e, g) /\ ok => w'.hasUnlocked
      BY <1>3, RanFacts DEF IInv
    <3>4. w'.st # "Idle" /\ w.hasUnlocked => w'.hasUnlocked
      BY <1>3, RanFacts DEF IInv
    <3>5. /\ to = "WaitOpenDoor" => w.st = "WaitUnlockDoor"
          /\ to = "WaitCloseDoor" =>
               w.st \in {"WaitUnlockDoor", "WaitOpenDoor", "DoorLockAndOpen",
                         "WaitUnlockDoorWithOpenDoor"}
          /\ to \in LateStates =>
               \/ w.st \in LateStates \cup {"WaitOpenDoor", "WaitCloseDoor"}
               \/ w.st = "Idle" /\ e = "UNLOCK_DOOR"
      BY <1>3, <2>3, RanFacts, EnteredFrom DEF IInv
    <3>6. /\ w'.st = "OpenDoorViolation" => "violation" \in Alarms(v, e, g, ok)
          /\ w'.st = "DoorLockAndOpen" =>
               w.hasUnlocked \/ "violation" \in Alarms(v, e, g, ok)
      BY <2>1, <2>3 DEF Alarms
    <3>7. SendsUnlock(v, e, g) /\ ~ok => w'.st \in {"Idle", "DoorLockAndOpen"}
      BY <2>1, <3>2 DEF Entered, ErrorState
    <3>8. ~(SendsUnlock(v, e, g) /\ ~ok) => w'.st = to
      BY <2>1 DEF Entered
    <3>. HIDE DEF to, g
    <3>9. CASE w'.st \in LateStates
      <4>1. to \in LateStates /\ w'.st # "Idle"
        BY <3>7, <3>8, <3>9 DEF LateStates
      <4>2. w.hasUnlocked \/ "violation" \in alarm \/ turned'
        BY <2>1, <3>5, <4>1 DEF IInv, Accounted
      <4>3. w'.hasUnlocked \/ "violation" \in alarm' \/ turned'
        BY <2>1, <3>4, <4>1, <4>2
      <4>. QED  BY <3>9, <4>3 DEF Accounted, LateStates
    <3>10. CASE w'.st \notin LateStates
      BY <2>1, <3>1, <3>2, <3>3, <3>4, <3>5, <3>6, <3>7, <3>8, <3>10
      DEF IInv, Accounted, UnlockStates
    <3>. QED  BY <3>9, <3>10
  <2>. QED  BY <2>2, <2>3
<1>. QED  BY <1>1, <1>2, <1>3, Shape DEF IInv
LEMMA DelayStep ==
    ASSUME IInv, [Next]_vars
    PROVE  DelayRespected' /\ Served'
<1>1. CASE Quiet
  BY <1>1 DEF IInv, DelayRespected, Served, Quiet, Same, NoEffects
<1>2. CASE TimerExpire
  <2>1. w'.st = w.st /\ UNCHANGED <<served, hurried, keys, forced>>
    BY <1>2 DEF IInv, TypeOK, Workflow, TimerExpire
  <2>. QED  BY <2>1 DEF IInv, DelayRespected, Served
<1>3. ASSUME NEW v, NEW e, NEW ok, Ran(v, e, ok) PROVE DelayRespected' /\ Served'
  <2>. DEFINE g == CurrentGuards(v)
              to == Target(w.st, e, g)
  <2>1. /\ v \in Workflow /\ v.st = w.st /\ w.st \in States
        /\ w'.st = Entered(v, e, g, ok)
        /\ e \in Events /\ e # "OUTER_DOOR_OPEN"
        /\ to # w.st /\ to \in UnlockStates =>
             e = "USER_LOGIN" /\ isLoginComplete(v, KeyCount) /\ SendsUnlock(v, e, g)
        /\ SendsUnlock(v, e, g) => to # w.st /\ to \in UnlockStates
    BY <1>3, RanFacts DEF IInv
  <2>2. /\ served' = (w'.st # "Idle" /\ (served \/ (EndsDelay(w'.st) /\ ~stale)))
        /\ hurried' = (w'.st # "Idle" /\ (hurried \/ (EndsDelay(w'.st) /\ stale)))
        /\ keys' = IF SendsUnlock(v, e, g) THEN {v.user1, v.user2} \ {NoUser}
                   ELSE IF w'.st = "Idle" THEN {} ELSE keys
        /\ w'.st # "Idle" /\ forced => forced'
        /\ w'.st # "Idle" /\ w.st = "Idle" /\ e = "USER_LOGIN" /\ v.force => forced'
    BY <1>3, <2>1 DEF Ran, Effects
  <2>3. Served' /\ (w'.st # "Idle" /\ (served \/ hurried) => served' \/ hurried')
    <3>1. w'.st = "AccessTime" => to = "AccessTime"
      BY <2>1 DEF Entered, ErrorState
    <3>2. CASE w'.st = "AccessTime" /\ w.st = "TimeDelay"
      BY <2>2, <3>2 DEF Served, EndsDelay
    <3>3. CASE w'.st = "AccessTime" /\ w.st # "TimeDelay"
      <4>1. to = w.st
        BY <2>1, <3>1, <3>3, EnteredFrom
      <4>. QED  BY <2>2, <3>1, <3>3, <4>1 DEF Served, IInv
    <3>. QED  BY <2>2, <3>2, <3>3 DEF Served
  <2>4. w'.st = "WaitOpenDoor" /\ to # w.st => w.st = "WaitUnlockDoor" /\ to = w'.st
    <3>1. w'.st = "WaitOpenDoor" => to = w'.st
      BY <2>1 DEF Entered, ErrorState
    <3>. QED  BY <2>1, <3>1, EnteredFrom
  <2>5. w'.st = "WaitUnlockDoor" => to = w'.st
    BY <2>1 DEF Entered, ErrorState
  <2>6. CASE to = w.st
    <3>1. w'.st = w.st /\ ~SendsUnlock(v, e, g)
      BY <1>3, <2>1, <2>6, RanFacts DEF IInv
    <3>. QED  BY <2>2, <2>3, <3>1 DEF IInv, DelayRespected
  <2>7. CASE to # w.st /\ w'.st = "WaitOpenDoor"
    <3>1. w.st = "WaitUnlockDoor" /\ ~SendsUnlock(v, e, g)
      BY <2>1, <2>4, <2>7 DEF UnlockStates
    <3>. QED  BY <2>2, <2>3, <2>7, <3>1 DEF IInv, DelayRespected
  <2>8. CASE to # w.st /\ w'.st = "WaitUnlockDoor"
    <3>1. to = "WaitUnlockDoor" /\ to \in UnlockStates
      BY <2>5, <2>8 DEF UnlockStates
    <3>2. \/ w.st = "Idle" /\ "noDelay" \in g
          \/ w.st = "AccessTime"
      BY <2>1, <2>8, <3>1, UnlockNeedsLogin
    <3>3. /\ e = "USER_LOGIN" /\ isLoginComplete(v, KeyCount)
          /\ keys' = {v.user1, v.user2} \ {NoUser}
      BY <2>1, <2>2, <2>8, <3>1
    <3>4. CASE w.st = "AccessTime"
      BY <2>2, <2>3, <2>8, <3>4 DEF IInv, Served, DelayRespected
    <3>5. CASE w.st = "Idle" /\ "noDelay" \in g
      <4>1. ~hasTimeDelay(v, KeyCount, FALSE)
        BY <3>5, GuardsMean DEF CurrentGuards
      <4>2. v.user1 # NoUser /\ NoUser \notin TimeDelayOverride
        BY <3>3, UserAssumption DEF isLoginComplete
      <4>3. \/ v.force \/ ~DelayOpenTime
            \/ v.user1 \in TimeDelayOverride \/ v.user2 \in TimeDelayOverride
        BY <4>1 DEF hasTimeDelay
      <4>4. v.force => forced'
        BY <2>2, <2>8, <3>3, <3>5
      <4>5. v.user1 \in TimeDelayOverride \/ v.user2 \in TimeDelayOverride =>
              keys' \cap TimeDelayOverride # {}
        BY <3>3, <4>2
      <4>. QED  BY <2>3, <4>3, <4>4, <4>5 DEF DelayRespected
    <3>. QED  BY <3>2, <3>4, <3>5
  <2>9. CASE w'.st \notin {"WaitUnlockDoor", "WaitOpenDoor"}
    BY <2>3, <2>9 DEF DelayRespected
  <2>. QED  BY <2>6, <2>7, <2>8, <2>9
<1>. QED  BY <1>1, <1>2, <1>3, Shape DEF IInv

(* What running an event does to the forced override. *)
LEMMA ExecuteForce ==
    ASSUME NEW v \in Workflow, NEW e \in Events, NEW ok \in BOOLEAN
    PROVE  LET x == Execute(v, e, ok) IN
           /\ x.force => v.force
           /\ x.force /\ x.st = "Idle" => v.st = "Idle"
<1>. DEFINE x == Execute(v, e, ok)
<1>1. LET to == Target(v.st, e, CurrentGuards(v)) IN
      /\ x.force => v.force
      /\ to # v.st /\ x.st = "Idle" => ~x.force
      /\ to = v.st => x.st = v.st
  BY ExecuteFields DEF Execute
<1>. QED  BY <1>1

LEMMA AfterLoginForce ==
    ASSUME NEW v \in Workflow, NEW u \in Users, NEW ok \in BOOLEAN
    PROVE  LET x == AfterLogin(v, u, ok) IN
           /\ x \in Workflow
           /\ x.force => v.force
           /\ x.force /\ x.st = "Idle" => v.st = "Idle"
<1>1. LoggedIn(v, u) \in Workflow /\ "USER_LOGIN" \in Events
  BY LoggedInType DEF Events
<1>2. /\ LoggedIn(v, u).force = v.force
      /\ LoggedIn(v, u).st = v.st
  BY DEF LoggedIn, Workflow
<1>. QED  BY <1>1, <1>2, ExecuteForce, AfterLoginType DEF AfterLogin

LEMMA CleanFields ==
    ASSUME NEW v \in Workflow
    PROVE  removeLoggedUsers(v).force = FALSE /\ Cleanup(v).force = FALSE
BY DEF removeLoggedUsers, Cleanup, Workflow

(* A forced override waiting in Idle belongs to its change of state. *)
LEMMA ForceStep ==
    ASSUME IInv, [Next]_vars
    PROVE  ForceOK'
<1>0. w \in Workflow /\ w.st \in States /\ ForceOK
  BY DEF IInv, TypeOK, Workflow
<1>1. CASE UiOpenDoor
  <2>1. session = "none"
    BY <1>1 DEF UiOpenDoor
  <2>2. w'.st = w.st /\ (w'.force => w.force)
    BY <1>0, <1>1 DEF UiOpenDoor, removeLoggedUsers, Workflow
  <2>. QED  BY <1>0, <2>1, <2>2 DEF ForceOK
<1>2. CASE UiStateChange
  <2>1. w'.force = FALSE
    BY <1>0, <1>2 DEF UiStateChange, removeLoggedUsers, Workflow
  <2>. QED  BY <1>0, <1>2, <2>1 DEF UiStateChange, ForceOK
<1>3. CASE UiCancel
  <2>1. w'.force = FALSE
    BY <1>0, <1>3, CleanFields DEF UiCancel
  <2>. QED  BY <1>0, <1>3, <2>1 DEF UiCancel, ForceOK
<1>4. ASSUME NEW removeCash \in BOOLEAN, UiRemoveCash(removeCash) PROVE ForceOK'
  <2>1. w'.force = FALSE
    BY <1>0, <1>4 DEF UiRemoveCash, removeLoggedUsers, Workflow
  <2>. QED  BY <1>0, <1>4, <2>1 DEF UiRemoveCash, ForceOK
<1>5. ASSUME NEW u \in Users, NEW ok \in BOOLEAN, UiLogin(u, ok) PROVE ForceOK'
  <2>. DEFINE v == IF session = "stateChange" THEN [w EXCEPT !.force = TRUE] ELSE w
              x == AfterLogin(v, u, ok)
  <2>1. /\ v \in Workflow /\ v.st = w.st
        /\ session # "stateChange" => v.force = w.force
    BY <1>0 DEF Workflow
  <2>2. /\ LoginThrows(v, u, ok) => w' = Cleanup(x)
        /\ ~LoginThrows(v, u, ok) =>
             w' = x /\ session' = IF w'.st \in LoginStates THEN session ELSE "none"
    BY <1>5 DEF UiLogin, Loop
  <2>. HIDE DEF v
  <2>3. /\ x \in Workflow
        /\ x.force => v.force
        /\ x.force /\ x.st = "Idle" => w.st = "Idle"
    BY <2>1, AfterLoginForce
  <2>. HIDE DEF x
  <2>5. ForceOK'
    <3>1. CASE LoginThrows(v, u, ok)
      BY <2>2, <2>3, <3>1, CleanFields DEF ForceOK
    <3>2. CASE ~LoginThrows(v, u, ok)
      <4>1. "Idle" \in LoginStates
        BY DEF LoginStates
      <4>. QED  BY <1>0, <2>1, <2>2, <2>3, <3>2, <4>1 DEF ForceOK
    <3>. QED  BY <3>1, <3>2
  <2>. QED  BY <2>5
<1>6. ASSUME NEW u \in Users, NEW ok \in BOOLEAN, ConsoleOpenDoor(u, ok)
      PROVE  ForceOK'
  <2>. DEFINE v == [removeLoggedUsers(w) EXCEPT
                      !.hasOpened = FALSE, !.generate = @ \/ w.st = "Idle"]
  <2>1. v \in Workflow /\ v.force = FALSE
    BY <1>0 DEF removeLoggedUsers, Workflow
  <2>2. w' = AfterLogin(v, u, ok)
    BY <1>6 DEF ConsoleOpenDoor
  <2>. HIDE DEF v
  <2>3. ~w'.force
    BY <2>1, <2>2, AfterLoginForce
  <2>. QED  BY <2>2, <2>3 DEF ForceOK
<1>8. CASE DoorOpen
  <2>. DEFINE v == [w EXCEPT !.hasOpened = TRUE]
              x == Execute(v, "OPEN_DOOR", TRUE)
  <2>1. v \in Workflow /\ v.st = w.st /\ v.force = w.force
    BY <1>0 DEF Workflow
  <2>2. /\ w' = x
        /\ "OPEN_DOOR" \in Events /\ session' = session
    BY <1>8 DEF DoorOpen, Events
  <2>. HIDE DEF v
  <2>3. /\ x \in Workflow /\ (x.force => w.force)
        /\ x.force /\ x.st = "Idle" => w.st = "Idle"
    BY <2>1, <2>2, ExecuteForce, ExecuteInWorkflow
  <2>. HIDE DEF x
  <2>4. w'.force = x.force /\ w'.st = x.st
    BY <2>2, <2>3 DEF Workflow
  <2>5. ForceOK'
    BY <1>0, <2>2, <2>3, <2>4 DEF ForceOK
  <2>. QED  BY <2>5
<1>9. ASSUME NEW e \in Events, w' = Execute(w, e, TRUE), UNCHANGED session
      PROVE  ForceOK'
  <2>1. /\ (w'.force => w.force)
        /\ w'.force /\ w'.st = "Idle" => w.st = "Idle"
    BY <1>0, <1>9, ExecuteForce
  <2>. QED  BY <1>0, <1>9, <2>1 DEF ForceOK
<1>7. CASE CancelTimeDelay
  BY <1>7, <1>9 DEF CancelTimeDelay, Events
<1>10. ASSUME NEW e \in {"CLOSE_DOOR", "LOCK_DOOR", "UNLOCK_DOOR"}, DoorEvent(e)
       PROVE  ForceOK'
  BY <1>9, <1>10 DEF DoorEvent, Events
<1>11. CASE timerExpired
  BY <1>9, <1>11 DEF timerExpired, Events, device
<1>12. CASE TimerExpire
  <2>1. w'.st = w.st /\ w'.force = w.force
    BY <1>0, <1>12 DEF TimerExpire, Workflow
  <2>. QED  BY <1>0, <1>12, <2>1 DEF TimerExpire, ForceOK
<1>13. CASE UNCHANGED <<w, session>>
  BY <1>0, <1>13 DEF ForceOK
<1>14. SetLockState \/ TimerPick \/ (\E value \in {0, 1} : PlungerEvent(value) \/ LockerEvent(value))
         \/ UNCHANGED vars => UNCHANGED <<w, session>>
  BY DEF SetLockState, TimerPick, PlungerEvent, LockerEvent, machine, vars
<1>. QED
  BY <1>1, <1>2, <1>3, <1>4, <1>5, <1>6, <1>7, <1>8, <1>10, <1>11, <1>12, <1>13,
     <1>14 DEF Next, Ui, Console, Dispatch, Sense, Timer

LEMMA UsersStep ==
    ASSUME IInv, [Next]_vars
    PROVE  UsersOK(w)'
<1>1. CASE TimerExpire
  <2>1. w'.user1 = w.user1 /\ w'.user2 = w.user2
    BY <1>1 DEF IInv, TypeOK, Workflow, TimerExpire
  <2>. QED  BY <2>1 DEF IInv, UsersOK
<1>2. Quiet \/ (\E v, e, ok : Ran(v, e, ok)) => UsersOK(w')
  BY DEF Quiet, Ran
<1>. QED  BY <1>1, <1>2, Shape DEF IInv, UsersOK

-----------------------------------------------------------------------------
LEMMA InvInit == Init => IInv
<1>. SUFFICES ASSUME Init PROVE IInv
  OBVIOUS
<1>1. /\ w.st = "Idle" /\ w.user1 = NoUser /\ w.user2 = NoUser /\ w.force = FALSE
      /\ keys = {} /\ buzzer = 0
  BY DEF Init, NewWorkflow
<1>2. "Idle" \notin TimedStates /\ "Idle" \notin BuzzStates
  BY DEF TimedStates, BuzzStates
<1>. QED
  BY <1>1, <1>2, TypeInit DEF IInv, NeverStuck, BuzzerMatches, DualControl,
     DelayRespected, UsersOK, Accounted, Served, ForceOK, LateStates

LEMMA InvStep == IInv /\ [Next]_vars => IInv'
<1>. SUFFICES ASSUME IInv, [Next]_vars PROVE IInv'
  OBVIOUS
<1>1. TypeOK'
  BY TypeStep DEF IInv
<1>. QED
  BY <1>1, NeverStuckStep, BuzzerStep, DualControlStep, AccountedStep, DelayStep,
     ForceStep, UsersStep DEF IInv

THEOREM Invariance == Spec => []IInv
BY InvInit, InvStep, PTL DEF Spec

(* A workflow that waits for its timer never loses it, whatever the threads  *)
(* do between the timer thread's release of its mutex and the callback.      *)
THEOREM NeverStuckAlways == Spec => []NeverStuck
<1>1. IInv => NeverStuck
  BY DEF IInv
<1>. QED  BY <1>1, Invariance, PTL

(* The buzzer sounds in exactly the states that sound it. *)
THEOREM BuzzerAlways == Spec => []BuzzerMatches
<1>1. IInv => BuzzerMatches
  BY DEF IInv
<1>. QED  BY <1>1, Invariance, PTL

(* Every unlock command carries the users the door asks for. *)
THEOREM DualControlAlways == Spec => []DualControl
<1>1. IInv => DualControl
  BY DEF IInv
<1>. QED  BY <1>1, Invariance, PTL

(* A closed door is opened only after its whole delay, or a delay that a     *)
(* stale expiry cut short, or by those excused from it.                      *)
THEOREM DelayAlways == Spec => []DelayRespected
<1>1. IInv => DelayRespected
  BY DEF IInv
<1>. QED  BY <1>1, Invariance, PTL

(* In every state after an opening: an unlock command, the violation alarm,  *)
(* or a lock turned while the workflow was in Idle.                          *)
THEOREM AccountedAlways == Spec => []AccountedOpening
<1>1. IInv => AccountedOpening
  BY DEF IInv, Accounted, AccountedOpening, LateStates
<1>. QED  BY <1>1, Invariance, PTL
=============================================================================
