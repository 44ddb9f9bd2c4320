-------------------------- MODULE ExtractionWorkflow --------------------------
(***************************************************************************)
(* The workflow that opens one door of the safe: the state machine of      *)
(* DoorStateMachine driven, without any lock, by four threads:             *)
(*   - the operator's screen (JMainMenuForm, JCommercialStateChangeForm),  *)
(*     which blocks in dialogs between reading the state and acting on it; *)
(*   - the console (SystemOpRequest, ExtractionController);                *)
(*   - the dispatcher of device events (CimEventDispatcher);               *)
(*   - the timer thread (ctimers.c, OTimer.m), which releases its mutex    *)
(*     before it runs an expiry.                                           *)
(* A handler runs to completion; two handlers of one device event, and the *)
(* store of the sensor's value after them, are separate steps.             *)
(***************************************************************************)
EXTENDS DoorStateMachine, Sequences

CONSTANTS
    KeyCount,   \* keys the door asks for
    Sensor      \* the sensors wired to the door: "BOTH", "PLUNGER", "LOCKER"

ASSUME DoorAssumption ==
    /\ KeyCount \in Nat
    /\ Sensor \in {"BOTH", "PLUNGER", "LOCKER"}

VARIABLES
    w,          \* the workflow object
    session,    \* what the operator's screen is waiting for
    todo,       \* calls the dispatcher still owes to the current device event
    plunger,    \* last value of the plunger sensor dispatched: 0 open, 1 closed
    locker,     \* last value of the lock sensor dispatched: 0 locked, 1 not
    lockState,  \* lock state stored in the Door object
    expiry,     \* what the timer thread is doing with this door's timer
    buzzer,     \* nesting level of the buzzer
    alarm,      \* alarms raised since the workflow was last in Idle
    keys,       \* users carried by the last unlock command since Idle
    served,     \* a time delay ran its whole time since Idle
    hurried,    \* a time delay was cut short by a stale expiry since Idle
    turned,     \* the lock was turned in Idle, with no command, and no Idle since
    forced,     \* a change of commercial state is opening the door
    stale       \* the expiry in flight is older than the time delay it will end

machine == <<w, buzzer, alarm, keys, served, hurried, turned, forced, stale>>
device == <<todo, plunger, locker, lockState>>
vars == <<w, session, todo, plunger, locker, lockState, expiry, buzzer, alarm,
          keys, served, hurried, turned, forced, stale>>

-----------------------------------------------------------------------------
Sessions == {"none", "asking", "login", "stateChange"}
Calls == {"OPEN_DOOR", "CLOSE_DOOR", "LOCK_DOOR", "UNLOCK_DOOR", "setLock", "setUnlock"}
Unknown == 2

Init ==
    /\ w = NewWorkflow
    /\ session = "none"
    /\ todo = <<>>
    /\ plunger = Unknown /\ locker = Unknown
    /\ lockState = "UNDEFINED"
    /\ expiry = "none"
    /\ buzzer = 0
    /\ alarm = {} /\ keys = {}
    /\ served = FALSE /\ hurried = FALSE /\ turned = FALSE
    /\ forced = FALSE /\ stale = FALSE

CurrentGuards(v) == Guards(v, KeyCount, lockState = "LOCK", FALSE)

(* The delay ends: on its own expiry, or at once on a stale one.             *)
EndsDelay(st) == w.st = "TimeDelay" /\ st = "AccessTime"

(* What event e, reaching a workflow whose fields were just set to v, does   *)
(* outside the workflow object (and to the ghost variables).                 *)
Effects(v, e, ok) ==
    LET g  == CurrentGuards(v)
        st == Entered(v, e, g, ok)
    IN  /\ buzzer' = BuzzerAfter(buzzer, v, e, g, ok)
        /\ alarm' = IF st = "Idle" THEN {} ELSE alarm \cup Alarms(v, e, g, ok)
        /\ keys' = IF SendsUnlock(v, e, g) THEN {v.user1, v.user2} \ {NoUser}
                   ELSE IF st = "Idle" THEN {} ELSE keys
        /\ served' = (st # "Idle" /\ (served \/ (EndsDelay(st) /\ ~stale)))
        /\ hurried' = (st # "Idle" /\ (hurried \/ (EndsDelay(st) /\ stale)))
        /\ turned' = (st # "Idle" /\ (turned \/ (w.st = "Idle" /\ e = "UNLOCK_DOOR")))

NoEffects == UNCHANGED <<buzzer, alarm, keys, served, hurried, turned>>

(* Ghosts: the expiry in flight was taken before this time delay began; the  *)
(* door is being opened without its delay by a change of commercial state.   *)
Ghosts(byStateChange) ==
    /\ stale' = /\ w'.st = "TimeDelay" /\ expiry' # "none"
                /\ IF w.st = "TimeDelay" THEN stale ELSE expiry # "none"
    /\ forced' = (w'.st # "Idle" /\ (forced \/ byStateChange))

Execute(v, e, ok) == executeStateMachine(v, e, CurrentGuards(v), ok)

-----------------------------------------------------------------------------
(* What the screens do when the operator gives up or onLoginUser throws. *)
Cleanup(v) == [removeLoggedUsers(v) EXCEPT !.generate = FALSE]

(* onLoginUser(u) on a workflow whose fields were just set to v; the screens *)
(* catch its exceptions and clean up, the console does not.                  *)
LoginThrows(v, u, ok) ==
    \/ ~LoginAllowed(v, u, KeyCount)
    \/ /\ LoginCounts(v, KeyCount)
       /\ Throws(LoggedIn(v, u), "USER_LOGIN", CurrentGuards(LoggedIn(v, u)), ok)

AfterLogin(v, u, ok) ==
    IF LoginAllowed(v, u, KeyCount) /\ LoginCounts(v, KeyCount)
    THEN Execute(LoggedIn(v, u), "USER_LOGIN", ok) ELSE v

LoginEffects(v, u, ok) ==
    IF LoginAllowed(v, u, KeyCount) /\ LoginCounts(v, KeyCount)
    THEN Effects(LoggedIn(v, u), "USER_LOGIN", ok) ELSE NoEffects

(* The screens ask for another user while the state is one of LoginStates. *)
Loop(s) == session' = IF w'.st \in LoginStates THEN s ELSE "none"

-----------------------------------------------------------------------------
(* JMainMenuForm.openDoor up to its first dialog. In Idle the time lock of   *)
(* the door may end it; in Idle and AccessTime the operator is asked whether *)
(* the cash is removed.                                                      *)
UiOpenDoor ==
    /\ session = "none"
    /\ LET v == [w EXCEPT !.hasOpened = FALSE] IN
       \/ w.st = "Idle" /\ w' = v /\ UNCHANGED session
       \/ w.st \in {"Idle", "AccessTime"} /\ w' = v /\ session' = "asking"
       \/ /\ w.st \notin {"Idle", "AccessTime"}
          /\ w' = removeLoggedUsers(v) /\ Loop("login")
    /\ NoEffects /\ UNCHANGED <<expiry, device>> /\ Ghosts(FALSE)

(* The answer of askRemoveCash; the state may have changed meanwhile. *)
UiRemoveCash(removeCash) ==
    /\ session = "asking"
    /\ w' = [removeLoggedUsers(w) EXCEPT !.generate = removeCash]
    /\ Loop("login")
    /\ NoEffects /\ UNCHANGED <<expiry, device>> /\ Ghosts(FALSE)

(* JCommercialStateChangeForm opens a door to take it out of service. *)
UiStateChange ==
    /\ session = "none"
    /\ w' = [removeLoggedUsers(w) EXCEPT
               !.generate = @ /\ w.st \notin {"Idle", "AccessTime"}]
    /\ Loop("stateChange")
    /\ NoEffects /\ UNCHANGED <<expiry, device>> /\ Ghosts(FALSE)

(* validateUser returns a user: the state may have changed meanwhile. *)
UiLogin(u, ok) ==
    LET v == IF session = "stateChange" THEN [w EXCEPT !.force = TRUE] ELSE w IN
    /\ session \in {"login", "stateChange"}
    /\ w' = IF LoginThrows(v, u, ok) THEN Cleanup(AfterLogin(v, u, ok))
            ELSE AfterLogin(v, u, ok)
    /\ LoginEffects(v, u, ok)
    /\ IF LoginThrows(v, u, ok) THEN session' = "none" ELSE Loop(session)
    /\ UNCHANGED <<expiry, device>> /\ Ghosts(session = "stateChange" /\ w.st = "Idle")

(* validateUser returns NULL: the operator pressed "back". *)
UiCancel ==
    /\ session \in {"login", "stateChange"}
    /\ w' = Cleanup(w)
    /\ session' = "none"
    /\ NoEffects /\ UNCHANGED <<expiry, device>> /\ Ghosts(FALSE)

(* SystemOpRequest.openDoor: no dialogs, the logged user only. *)
ConsoleOpenDoor(u, ok) ==
    LET v == [removeLoggedUsers(w) EXCEPT
                !.hasOpened = FALSE, !.generate = @ \/ w.st = "Idle"] IN
    /\ w' = AfterLogin(v, u, ok)
    /\ LoginEffects(v, u, ok)
    /\ UNCHANGED <<session, expiry, device>> /\ Ghosts(FALSE)

(* ExtractionController.cancelTimeDelay, by one of the users the delay was   *)
(* started for (they are not kept in the model: no other operation reads     *)
(* them).                                                                    *)
CancelTimeDelay ==
    /\ w.st = "TimeDelay"
    /\ w' = Execute(w, "CANCEL_TIME_DELAY", TRUE)
    /\ Effects(w, "CANCEL_TIME_DELAY", TRUE)
    /\ UNCHANGED <<session, expiry, device>> /\ Ghosts(FALSE)

-----------------------------------------------------------------------------
(* The calls CimEventDispatcher.run makes for a sensor of this door. *)
PlungerCalls(value) ==
    IF value = 0 THEN <<"OPEN_DOOR">>
    ELSE IF Sensor = "PLUNGER" THEN <<"CLOSE_DOOR", "LOCK_DOOR">> ELSE <<"CLOSE_DOOR">>

LockerCalls(value) ==
    CASE Sensor = "LOCKER" /\ value = 0 -> <<"CLOSE_DOOR", "LOCK_DOOR", "setLock">>
      [] Sensor = "LOCKER" /\ value = 1 -> <<"OPEN_DOOR", "setUnlock">>
      [] Sensor # "LOCKER" /\ value = 0 -> <<"LOCK_DOOR", "setLock">>
      [] OTHER                          -> <<"UNLOCK_DOOR", "setUnlock">>

(* The safe box reports a sensor when its value changes. *)
PlungerEvent(value) ==
    /\ Sensor \in {"PLUNGER", "BOTH"} /\ todo = <<>> /\ plunger # value
    /\ plunger' = value /\ todo' = PlungerCalls(value)
    /\ UNCHANGED <<machine, session, expiry, locker, lockState>>

LockerEvent(value) ==
    /\ Sensor \in {"LOCKER", "BOTH"} /\ todo = <<>> /\ locker # value
    /\ locker' = value /\ todo' = LockerCalls(value)
    /\ UNCHANGED <<machine, session, expiry, plunger, lockState>>

(* onDoorOpen; the extraction that the first opening since hasOpened was     *)
(* reset may generate changes nothing here.                                  *)
DoorOpen ==
    LET v == [w EXCEPT !.hasOpened = TRUE] IN
    /\ todo # <<>> /\ Head(todo) = "OPEN_DOOR"
    /\ w' = Execute(v, "OPEN_DOOR", TRUE)
    /\ Effects(v, "OPEN_DOOR", TRUE)
    /\ todo' = Tail(todo)
    /\ UNCHANGED <<session, expiry, plunger, locker, lockState>> /\ Ghosts(FALSE)

(* onDoorClose, onLocked, onUnLocked. *)
DoorEvent(e) ==
    /\ todo # <<>> /\ Head(todo) = e
    /\ w' = Execute(w, e, TRUE)
    /\ Effects(w, e, TRUE)
    /\ todo' = Tail(todo)
    /\ UNCHANGED <<session, expiry, plunger, locker, lockState>> /\ Ghosts(FALSE)

(* Mutation: the device's own code is stored, not the LockState it stands for. *)
SetLockStateRaw ==
    /\ todo # <<>> /\ Head(todo) \in {"setLock", "setUnlock"}
    /\ lockState' = Head(todo)
    /\ todo' = Tail(todo)
    /\ UNCHANGED <<machine, session, expiry, plunger, locker>>

(* setLockState, after the handlers. *)
SetLockState ==
    /\ todo # <<>> /\ Head(todo) \in {"setLock", "setUnlock"}
    /\ lockState' = IF Head(todo) = "setLock" THEN "LOCK" ELSE "UNLOCK"
    /\ todo' = Tail(todo)
    /\ UNCHANGED <<machine, session, expiry, plunger, locker>>

-----------------------------------------------------------------------------
(* handle_ctimers finds the timer expired and releases the mutex. *)
TimerPick ==
    /\ expiry = "none" /\ w.timer
    /\ expiry' = "picked"
    /\ UNCHANGED <<machine, session, device>>

(* OTimer.expireTimer takes a one-shot timer out of the table, even if it    *)
(* was stopped or started again since.                                       *)
TimerExpire ==
    /\ expiry = "picked"
    /\ expiry' = "calling"
    /\ w' = [w EXCEPT !.timer = FALSE]
    /\ UNCHANGED <<buzzer, alarm, keys, served, hurried, turned, forced, stale,
                   session, device>>

(* ... and then calls timerExpired. *)
timerExpired ==
    /\ expiry = "calling"
    /\ expiry' = "none"
    /\ w' = Execute(w, "TIMER_EXPIRED", TRUE)
    /\ Effects(w, "TIMER_EXPIRED", TRUE)
    /\ UNCHANGED <<session, device>> /\ Ghosts(FALSE)

-----------------------------------------------------------------------------
Ui ==
    \/ UiOpenDoor \/ UiStateChange \/ UiCancel
    \/ \E removeCash \in BOOLEAN : UiRemoveCash(removeCash)
    \/ \E u \in Users, ok \in BOOLEAN : UiLogin(u, ok)

Console ==
    \/ \E u \in Users, ok \in BOOLEAN : ConsoleOpenDoor(u, ok)
    \/ CancelTimeDelay

Dispatch ==
    \/ DoorOpen \/ SetLockState
    \/ \E e \in {"CLOSE_DOOR", "LOCK_DOOR", "UNLOCK_DOOR"} : DoorEvent(e)

Sense == \E value \in {0, 1} : PlungerEvent(value) \/ LockerEvent(value)

Timer == TimerPick \/ TimerExpire \/ timerExpired

Next == Ui \/ Console \/ Dispatch \/ Sense \/ Timer

Spec == Init /\ [][Next]_vars

(* The timer thread is a loop that never stops (thread_handle, ctimers.c).   *)
Fairness == WF_vars(Timer)
FairSpec == Spec /\ Fairness

-----------------------------------------------------------------------------
(* Every variable has its type. *)
TypeOK ==
    /\ w \in Workflow
    /\ session \in Sessions
    /\ todo \in Seq(Calls)
    /\ plunger \in {0, 1, Unknown} /\ locker \in {0, 1, Unknown}
    /\ lockState \in {"UNDEFINED", "LOCK", "UNLOCK"}
    /\ expiry \in {"none", "picked", "calling"}
    /\ buzzer \in Nat
    /\ alarm \subseteq {"violation", "attention"}
    /\ keys \subseteq Users
    /\ served \in BOOLEAN /\ hurried \in BOOLEAN /\ turned \in BOOLEAN
    /\ forced \in BOOLEAN /\ stale \in BOOLEAN

(* A workflow that waits is never forgotten: in every state that waits for   *)
(* its timer, the timer is armed or its expiry is on its way, whatever the   *)
(* threads did between the release of the timer mutex and the callback.      *)
(* (WaitLockDoorError stays after its expiry, with the alarm on.)            *)
NeverStuck ==
    w.st \in TimedStates \ {"WaitLockDoorError"} => w.timer \/ expiry = "calling"

(* The buzzer's nesting level counts exactly the state that sounds it: it is *)
(* never left on after the door is back to rest, never silent in an alarm.   *)
BuzzerMatches == buzzer = IF w.st \in BuzzStates THEN 1 ELSE 0

(* Every unlock command sent since Idle carried as many users as the door    *)
(* has keys, each with access to the door, and two different users only if   *)
(* their profiles may open it together (onLoginUser, isLoginComplete).       *)
DualControl ==
    keys # {} =>
      /\ KeyCount \in {1, 2} /\ keys \subseteq HasAccessToDoor
      /\ KeyCount = 1 => \E u \in Users : keys = {u}
      /\ KeyCount = 2 => \E u, v \in Users :
                            u # v /\ keys = {u, v} /\ <<u, v>> \in HasDualAccess

(* A closed door is being opened only after a time delay that ran its whole  *)
(* time, or by users whose profile skips it, or to take the door out of      *)
(* service; or after a delay cut short by an expiry that the timer thread    *)
(* had taken before the delay began (ctimers.c, line 83: the mutex is        *)
(* released before the callback), the one way around it the code leaves.     *)
DelayRespected ==
    w.st \in {"WaitUnlockDoor", "WaitOpenDoor"} =>
      \/ served \/ hurried
      \/ ~DelayOpenTime
      \/ keys \cap TimeDelayOverride # {}
      \/ forced

(* A door is waited for to be opened only after an unlock command. A door    *)
(* waited for to be closed or locked was opened after one too, or it set off *)
(* the violation alarm, or its lock was turned while the workflow was in     *)
(* Idle: the table takes the latter to WaitLockDoor without an alarm, and an *)
(* opening goes on to WaitCloseDoorWarning. There is no other way, and none  *)
(* at all into WaitCloseDoor, the normal opening.                            *)
AccountedOpening ==
    LET commanded == w.hasUnlocked
        alarmed   == "violation" \in alarm
    IN  /\ w.st \in {"WaitUnlockDoor", "WaitOpenDoor"} => commanded
        /\ w.st \in {"WaitCloseDoor", "DoorLockAndOpen", "OpenDoorViolation",
                     "WaitUnlockDoorWithOpenDoor"} => commanded \/ alarmed
        /\ w.st \in {"WaitCloseDoorWarning", "WaitCloseDoorError",
                     "WaitLockDoor", "WaitLockDoorError"} =>
             commanded \/ alarmed \/ turned

(* No state waits for ever: each timed state is left, and a lock that is not *)
(* turned raises the alarm.                                                  *)
Progress ==
    /\ \A s \in TimedStates \ {"WaitLockDoorError"} : w.st = s ~> w.st # s
    /\ w.st = "WaitLockDoorError" ~>
         w.st # "WaitLockDoorError" \/ "attention" \in alarm

(* TimeDelay: "Esta esperando que expire el timer de TimeDelay para          *)
(* continuar": AccessTime is reached on the expiry of that timer.            *)
DelayFullyServed ==
    [][w.st = "TimeDelay" /\ w'.st = "AccessTime" => ~stale]_vars

(* WaitCloseDoorError: "Error: el usuario no cerro la puerta": the door has  *)
(* not been closed.                                                          *)
ErrorMeansOpen == w.st = "WaitCloseDoorError" /\ todo = <<>> => plunger # 1
=============================================================================
