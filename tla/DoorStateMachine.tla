--------------------------- MODULE DoorStateMachine ---------------------------
(***************************************************************************)
(* The state machine of one door (ExtractionWorkflow.m): its transition    *)
(* tables, what entering and leaving a state does to the workflow object,  *)
(* and executeStateMachine (state_machine.c), which runs one event to      *)
(* completion. Everything here is a function of a workflow record; the     *)
(* modules that own a door apply it in their actions.                      *)
(***************************************************************************)
EXTENDS Naturals, FiniteSets

CONSTANTS
    Users,              \* the users known to the machine
    NoUser,             \* NULL
    HasAccessToDoor,    \* users whose profile may open the doors
    HasDualAccess,      \* pairs of users whose profiles may open a door together
    TimeDelayOverride,  \* users whose profile skips the time delay
    DelayOpenTime       \* is a time delay configured? (getDelayOpenTime # 0)

ASSUME UserAssumption ==
    /\ NoUser \notin Users
    /\ HasAccessToDoor \subseteq Users
    /\ HasDualAccess \subseteq (Users \X Users)
    /\ TimeDelayOverride \subseteq Users
    /\ DelayOpenTime \in BOOLEAN

-----------------------------------------------------------------------------
(* States with a timer: the entry action starts it, the exit action stops it. *)
TimedStates ==
    {"TimeDelay", "AccessTime", "WaitUnlockDoor", "WaitUnlockDoorWithOpenDoor",
     "WaitOpenDoor", "WaitCloseDoor", "WaitCloseDoorWarning", "WaitLockDoor",
     "WaitLockDoorError"}

(* States that sound the buzzer from entry to exit. *)
BuzzStates ==
    {"AccessTime", "WaitCloseDoorWarning", "WaitCloseDoorError",
     "WaitLockDoorError", "DoorLockAndOpen", "OpenDoorViolation"}

(* States whose entry action calls removeLoggedUsers. *)
LogoutStates == {"Idle", "AccessTime", "DoorLockAndOpen"}

(* States whose entry action sends the unlock command. *)
UnlockStates == {"WaitUnlockDoor", "WaitUnlockDoorWithOpenDoor"}

(* States in which the operator is asked to log in. *)
LoginStates ==
    {"Idle", "AccessTime", "DoorLockAndOpen", "WaitCloseDoor",
     "WaitCloseDoorWarning", "WaitCloseDoorError", "OpenDoorViolation"}

States == TimedStates \cup BuzzStates \cup {"Idle", "WaitOuterDoorOpen"}

Events ==
    {"USER_LOGIN", "CANCEL_TIME_DELAY", "UNLOCK_ERROR", "OPEN_DOOR",
     "CLOSE_DOOR", "LOCK_DOOR", "UNLOCK_DOOR", "TIMER_EXPIRED",
     "OUTER_DOOR_START", "OUTER_DOOR_OPEN", "OUTER_DOOR_CANCEL"}

(* The workflow object. *)
Workflow ==
    [st: States, user1: Users \cup {NoUser}, user2: Users \cup {NoUser},
     hasUnlocked: BOOLEAN, generate: BOOLEAN, hasOpened: BOOLEAN,
     force: BOOLEAN, timer: BOOLEAN]

(* initialize: a new workflow. *)
NewWorkflow ==
    [st |-> "Idle", user1 |-> NoUser, user2 |-> NoUser,
     hasUnlocked |-> FALSE, generate |-> FALSE, hasOpened |-> FALSE,
     force |-> FALSE, timer |-> FALSE]

-----------------------------------------------------------------------------
(* Rows <<state, event, guard, new state>>. A table is searched top down for *)
(* the first row whose guard holds; the guards below are mutually exclusive, *)
(* so a set of rows is enough. Events without a row leave the state as it is.*)
IdleTable ==
    {<<"Idle", "USER_LOGIN", "delay", "TimeDelay">>,
     <<"Idle", "USER_LOGIN", "noDelay", "WaitUnlockDoor">>,
     <<"Idle", "OPEN_DOOR", "locked", "DoorLockAndOpen">>,
     <<"Idle", "OPEN_DOOR", "notLocked", "OpenDoorViolation">>,
     <<"Idle", "UNLOCK_DOOR", "any", "WaitLockDoor">>,
     <<"Idle", "OUTER_DOOR_START", "any", "WaitOuterDoorOpen">>,
     <<"Idle", "OUTER_DOOR_OPEN", "any", "WaitUnlockDoor">>}

WaitOuterDoorOpenTable ==
    {<<"WaitOuterDoorOpen", "UNLOCK_ERROR", "any", "Idle">>,
     <<"WaitOuterDoorOpen", "CANCEL_TIME_DELAY", "any", "Idle">>,
     <<"WaitOuterDoorOpen", "OUTER_DOOR_CANCEL", "any", "Idle">>,
     <<"WaitOuterDoorOpen", "OPEN_DOOR", "locked", "DoorLockAndOpen">>,
     <<"WaitOuterDoorOpen", "OPEN_DOOR", "notLocked", "OpenDoorViolation">>,
     <<"WaitOuterDoorOpen", "OUTER_DOOR_OPEN", "any", "WaitUnlockDoor">>}

TimeDelayTable ==
    {<<"TimeDelay", "TIMER_EXPIRED", "any", "AccessTime">>,
     <<"TimeDelay", "USER_LOGIN", "any", "Idle">>,
     <<"TimeDelay", "CANCEL_TIME_DELAY", "any", "Idle">>,
     <<"TimeDelay", "OPEN_DOOR", "locked", "DoorLockAndOpen">>,
     <<"TimeDelay", "OPEN_DOOR", "notLocked", "OpenDoorViolation">>,
     <<"TimeDelay", "UNLOCK_DOOR", "any", "OpenDoorViolation">>}

AccessTimeTable ==
    {<<"AccessTime", "TIMER_EXPIRED", "any", "Idle">>,
     <<"AccessTime", "USER_LOGIN", "complete", "WaitUnlockDoor">>,
     <<"AccessTime", "UNLOCK_ERROR", "any", "Idle">>,
     <<"AccessTime", "OPEN_DOOR", "locked", "DoorLockAndOpen">>,
     <<"AccessTime", "OPEN_DOOR", "notLocked", "OpenDoorViolation">>}

(* Mutation: the row for the timer is missing. *)
WaitUnlockDoorTableNoTimer ==
    {<<"WaitUnlockDoor", "OPEN_DOOR", "any", "WaitCloseDoor">>,
     <<"WaitUnlockDoor", "UNLOCK_ERROR", "any", "Idle">>,
     <<"WaitUnlockDoor", "UNLOCK_DOOR", "any", "WaitOpenDoor">>}

WaitUnlockDoorTable ==
    {<<"WaitUnlockDoor", "TIMER_EXPIRED", "any", "Idle">>,
     <<"WaitUnlockDoor", "OPEN_DOOR", "any", "WaitCloseDoor">>,
     <<"WaitUnlockDoor", "UNLOCK_ERROR", "any", "Idle">>,
     <<"WaitUnlockDoor", "UNLOCK_DOOR", "any", "WaitOpenDoor">>}

WaitOpenDoorTable ==
    {<<"WaitOpenDoor", "TIMER_EXPIRED", "any", "WaitLockDoor">>,
     <<"WaitOpenDoor", "OPEN_DOOR", "any", "WaitCloseDoor">>,
     <<"WaitOpenDoor", "UNLOCK_ERROR", "any", "Idle">>,
     <<"WaitOpenDoor", "LOCK_DOOR", "any", "Idle">>}

WaitCloseDoorTable ==
    {<<"WaitCloseDoor", "USER_LOGIN", "complete", "WaitUnlockDoorWithOpenDoor">>,
     <<"WaitCloseDoor", "TIMER_EXPIRED", "any", "WaitCloseDoorWarning">>,
     <<"WaitCloseDoor", "CLOSE_DOOR", "any", "WaitLockDoor">>,
     <<"WaitCloseDoor", "LOCK_DOOR", "any", "DoorLockAndOpen">>}

WaitCloseDoorWarningTable ==
    {<<"WaitCloseDoorWarning", "USER_LOGIN", "complete", "WaitUnlockDoorWithOpenDoor">>,
     <<"WaitCloseDoorWarning", "TIMER_EXPIRED", "any", "WaitCloseDoorError">>,
     <<"WaitCloseDoorWarning", "CLOSE_DOOR", "any", "WaitLockDoor">>,
     <<"WaitCloseDoorWarning", "LOCK_DOOR", "any", "DoorLockAndOpen">>}

WaitCloseDoorErrorTable ==
    {<<"WaitCloseDoorError", "USER_LOGIN", "complete", "WaitUnlockDoorWithOpenDoor">>,
     <<"WaitCloseDoorError", "CLOSE_DOOR", "any", "WaitLockDoor">>,
     <<"WaitCloseDoorError", "LOCK_DOOR", "any", "DoorLockAndOpen">>}

WaitLockDoorTable ==
    {<<"WaitLockDoor", "TIMER_EXPIRED", "any", "WaitLockDoorError">>,
     <<"WaitLockDoor", "LOCK_DOOR", "any", "Idle">>,
     <<"WaitLockDoor", "OPEN_DOOR", "any", "WaitCloseDoorWarning">>}

WaitLockDoorErrorTable ==
    {<<"WaitLockDoorError", "LOCK_DOOR", "any", "Idle">>,
     <<"WaitLockDoorError", "OPEN_DOOR", "any", "WaitCloseDoorWarning">>}

OpenDoorViolationTable ==
    {<<"OpenDoorViolation", "USER_LOGIN", "complete", "WaitUnlockDoorWithOpenDoor">>,
     <<"OpenDoorViolation", "CLOSE_DOOR", "any", "Idle">>,
     <<"OpenDoorViolation", "LOCK_DOOR", "any", "DoorLockAndOpen">>}

DoorLockAndOpenTable ==
    {<<"DoorLockAndOpen", "CLOSE_DOOR", "any", "Idle">>,
     <<"DoorLockAndOpen", "USER_LOGIN", "complete", "WaitUnlockDoorWithOpenDoor">>,
     <<"DoorLockAndOpen", "UNLOCK_DOOR", "any", "WaitCloseDoor">>}

WaitUnlockDoorWithOpenDoorTable ==
    {<<"WaitUnlockDoorWithOpenDoor", "TIMER_EXPIRED", "any", "DoorLockAndOpen">>,
     <<"WaitUnlockDoorWithOpenDoor", "UNLOCK_ERROR", "any", "DoorLockAndOpen">>,
     <<"WaitUnlockDoorWithOpenDoor", "UNLOCK_DOOR", "any", "WaitCloseDoor">>}

Transitions ==
    UNION {IdleTable, WaitOuterDoorOpenTable, TimeDelayTable, AccessTimeTable,
           WaitUnlockDoorTable, WaitOpenDoorTable, WaitCloseDoorTable,
           WaitCloseDoorWarningTable, WaitCloseDoorErrorTable,
           WaitLockDoorTable, WaitLockDoorErrorTable, OpenDoorViolationTable,
           DoorLockAndOpenTable, WaitUnlockDoorWithOpenDoorTable}

-----------------------------------------------------------------------------
(* isLoginComplete, for a door that asks for keyCount keys. *)
isLoginComplete(w, keyCount) ==
    /\ keyCount \in {1, 2}
    /\ w.user1 # NoUser
    /\ keyCount = 2 => w.user2 # NoUser

(* hasTimeDelay: nothing excuses these users from the configured delay. *)
hasTimeDelay(w, keyCount, innerOpen) ==
    /\ ~w.force
    /\ w.user1 \notin TimeDelayOverride
    /\ ~innerOpen
    /\ ~(keyCount = 2 /\ w.user1 # NoUser /\ w.user2 \in TimeDelayOverride)
    /\ DelayOpenTime

(* The guards that hold in w. locked is the lock state stored in the Door    *)
(* object; innerOpen is FALSE for a door without an inner door.              *)
Guards(w, keyCount, locked, innerOpen) ==
    {"any", IF locked THEN "locked" ELSE "notLocked"} \cup
    (IF ~isLoginComplete(w, keyCount) THEN {"incomplete"}
     ELSE {"complete",
           IF hasTimeDelay(w, keyCount, innerOpen) THEN "delay" ELSE "noDelay"})

(* The rows of a state and an event, and those of them the guards select. *)
Rows ==
    [st \in States |-> [e \in Events |-> {r \in Transitions : r[1] = st /\ r[2] = e}]]

Enabled(st, e, guards) == {r \in Rows[st][e] : r[3] \in guards}

Target(st, e, guards) ==
    IF Enabled(st, e, guards) = {} THEN st
    ELSE (CHOOSE r \in Enabled(st, e, guards) : TRUE)[4]

(* unLockDoor sends a command: with no logged user it returns silently. *)
SendsUnlock(w, e, guards) ==
    /\ Target(w.st, e, guards) # w.st
    /\ Target(w.st, e, guards) \in UnlockStates
    /\ w.user1 # NoUser

(* Where UNLOCK_ERROR, raised inside the entry action, takes the machine. *)
ErrorState(st) == IF st = "WaitUnlockDoor" THEN "Idle" ELSE "DoorLockAndOpen"

(* The state the event ends in; ok: the safe box accepted the command. *)
Entered(w, e, guards, ok) ==
    IF SendsUnlock(w, e, guards) /\ ~ok
    THEN ErrorState(Target(w.st, e, guards)) ELSE Target(w.st, e, guards)

(* Mutation: the forced override survives the users it was meant for. *)
removeLoggedUsersKeepForce(w) ==
    [w EXCEPT !.user1 = NoUser, !.user2 = NoUser]

removeLoggedUsers(w) ==
    [w EXCEPT !.user1 = NoUser, !.user2 = NoUser, !.force = FALSE]

(* Mutation: the entry action runs before the exit action. *)
EnterBeforeExit(w, st) ==
    LET v == IF st \in LogoutStates THEN removeLoggedUsers(w) ELSE w
    IN  [v EXCEPT !.st = st,
                  !.timer = (st \in TimedStates \/ w.timer) /\ w.st \notin TimedStates,
                  !.hasUnlocked = w.hasUnlocked /\ st # "Idle",
                  !.generate = w.generate /\ st # "Idle"]

(* Exit action of w.st, then entry action of st. *)
Enter(w, st) ==
    LET v == IF st \in LogoutStates THEN removeLoggedUsers(w) ELSE w
    IN  [v EXCEPT !.st = st,
                  !.timer = st \in TimedStates \/ (w.timer /\ w.st \notin TimedStates),
                  !.hasUnlocked = w.hasUnlocked /\ st # "Idle",
                  !.generate = w.generate /\ st # "Idle"]

(* hasTimeDelay consumes the forced override it finds. *)
ConsumeForce(w, e, guards) ==
    [w EXCEPT !.force = @ /\ ~(w.st = "Idle" /\ e = "USER_LOGIN"
                               /\ "complete" \in guards)]

(* executeStateMachine: one event, run to completion. A command that the     *)
(* safe box refuses raises UNLOCK_ERROR from inside the entry action, so the *)
(* caller sees the error state entered and then an exception (Throws).       *)
executeStateMachine(w, e, guards, ok) ==
    LET v == ConsumeForce(w, e, guards) IN
    IF Target(w.st, e, guards) = w.st THEN v
    ELSE IF ~SendsUnlock(w, e, guards) THEN Enter(v, Entered(w, e, guards, ok))
    ELSE IF ok
         THEN [Enter(v, Target(w.st, e, guards)) EXCEPT !.hasUnlocked = TRUE]
         ELSE Enter(v, ErrorState(Target(w.st, e, guards)))

Throws(w, e, guards, ok) == SendsUnlock(w, e, guards) /\ ~ok

(* Mutation: a door opened while locked is not a violation. *)
AlarmsNotIfLocked(w, e, guards, ok) ==
    {a \in {"violation", "attention"} :
       /\ Target(w.st, e, guards) # w.st
       /\ \/ a = "violation" /\ Entered(w, e, guards, ok) = "OpenDoorViolation"
          \/ a = "attention" /\ Entered(w, e, guards, ok) = "WaitCloseDoorError"}

(* Alarms the entry actions and the actions of the rows switch on.           *)
(* "violation": activateSoundAlarm; "attention": activateAlarm.              *)
Alarms(w, e, guards, ok) ==
    LET moved == Target(w.st, e, guards) # w.st
        st    == Entered(w, e, guards, ok)
    IN  {a \in {"violation", "attention"} :
           \/ /\ a = "violation" /\ moved
              /\ \/ st = "OpenDoorViolation"
                 \/ st = "DoorLockAndOpen" /\ ~w.hasUnlocked
           \/ /\ a = "attention"
              /\ \/ moved /\ st = "WaitCloseDoorError"
                 \/ w.st = "WaitLockDoorError" /\ e = "TIMER_EXPIRED"}

(* Buzzer.m counts its users: buzzerStop of the state left, buzzerStart of   *)
(* the state entered.                                                        *)
buzzerStart(level) == level + 1

buzzerStop(level) == IF level = 0 THEN 0 ELSE level - 1

(* Mutation: leaving a state forgets buzzerStop when the next one is silent. *)
BuzzerNotStopped(level, w, e, guards, ok) ==
    LET st == Entered(w, e, guards, ok)
    IN  IF w.st \notin BuzzStates /\ st \in BuzzStates THEN buzzerStart(level) ELSE level

BuzzerAfter(level, w, e, guards, ok) ==
    LET st      == Entered(w, e, guards, ok)
        stopped == IF w.st \in BuzzStates THEN buzzerStop(level) ELSE level
    IN  IF Target(w.st, e, guards) = w.st THEN level
        ELSE IF st \in BuzzStates THEN buzzerStart(stopped) ELSE stopped

(* Mutation: nothing compares the second user with the first. *)
LoginAllowedSameUser(w, u, keyCount) == u \in HasAccessToDoor

(* The checks and assignments of onLoginUser before the event is raised.     *)
LoginAllowed(w, u, keyCount) ==
    /\ u \in HasAccessToDoor
    /\ w.user1 # NoUser /\ keyCount = 2 =>
         u # w.user1 /\ <<w.user1, u>> \in HasDualAccess

(* With one key and somebody already logged in, the call has no effect.      *)
LoginCounts(w, keyCount) == w.user1 = NoUser \/ keyCount = 2

LoggedIn(w, u) ==
    IF w.user1 = NoUser THEN [w EXCEPT !.user1 = u] ELSE [w EXCEPT !.user2 = u]
=============================================================================
