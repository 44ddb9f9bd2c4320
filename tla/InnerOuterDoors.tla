--------------------------- MODULE InnerOuterDoors ---------------------------
(***************************************************************************)
(* An inner door behind an outer one. Each has its own workflow; the outer *)
(* one, while linked (setInnerDoorWorkflow), passes its users and its      *)
(* events on to the inner one, and the inner door is unlocked by the       *)
(* opening of the outer door. Both doors have a plunger only, so the lock  *)
(* state is never stored; the operator leaves the cash, so no extraction   *)
(* is generated and hasOpened does not matter (see ExtractionWorkflow).    *)
(***************************************************************************)
EXTENDS DoorStateMachine, Sequences

CONSTANTS
    InnerKeyCount,  \* keys of the inner door
    OuterKeyCount,  \* keys of the outer door
    Targets         \* the doors the operator asks for: "inner", "outer"

ASSUME PairAssumption ==
    InnerKeyCount \in Nat /\ OuterKeyCount \in Nat /\ Targets \subseteq {"inner", "outer"}

VARIABLES
    outer, inner,   \* the two workflows
    linked,         \* is the inner workflow set in the outer one?
    session,        \* what the operator's screen is waiting for
    todo,           \* calls <<door, call>> the dispatcher still owes
    plunger,        \* last value dispatched of each plunger: 0 open, 1 closed
    innerOpen,      \* door state stored in the inner Door object
    expiry,         \* <<door, stage>>: the expiry the timer thread is running
    buzzer          \* nesting level of the buzzer

vars == <<outer, inner, linked, session, todo, plunger, innerOpen, expiry, buzzer>>

Doors == {"outer", "inner"}
None == <<>>

Init ==
    /\ outer = NewWorkflow /\ inner = NewWorkflow
    /\ linked = FALSE
    /\ session = "none"
    /\ todo = <<>>
    /\ plunger = [d \in Doors |-> 1]
    /\ innerOpen = FALSE
    /\ expiry = None
    /\ buzzer = 0

-----------------------------------------------------------------------------
KeyCount == IF linked THEN InnerKeyCount ELSE OuterKeyCount
OuterGuards(o) == Guards(o, KeyCount, FALSE, linked /\ innerOpen)
InnerGuards(i) == Guards(i, InnerKeyCount, FALSE, FALSE)

RunInner(i, e, ok) == executeStateMachine(i, e, InnerGuards(i), ok)

ClearUsers(i) == [i EXCEPT !.user1 = NoUser, !.user2 = NoUser]

(* Mutation: openDoorViolationEntry does not tell the inner door. *)
CancelStatesNoViolation == {"Idle", "WaitLockDoorError", "WaitCloseDoorError"}

(* Outer states whose entry action calls cancelOuterDoor of the inner door. *)
CancelStates == {"Idle", "WaitLockDoorError", "OpenDoorViolation", "WaitCloseDoorError"}

(* Mutation: idleEntry and the others do not tell the inner door. *)
StartNoCancel(o, i, st) ==
    IF o.st = "Idle" THEN RunInner(i, "OUTER_DOOR_START", TRUE) ELSE i

(* idleExit of the outer workflow starts the inner one; an entry action of   *)
(* CancelStates cancels it.                                                  *)
StartAndCancel(o, i, st) ==
    LET i1 == IF o.st = "Idle" THEN RunInner(i, "OUTER_DOOR_START", TRUE) ELSE i
    IN  IF st \in CancelStates THEN RunInner(i1, "OUTER_DOOR_CANCEL", TRUE) ELSE i1

(* Mutation: removeLoggedUsers leaves the users of the inner door. *)
FollowKeepUsers(o, i, e, ok) ==
    IF ~linked \/ Target(o.st, e, OuterGuards(o)) = o.st THEN i
    ELSE StartAndCancel(o, i, Entered(o, e, OuterGuards(o), ok))

(* What event e of the outer workflow does to the linked inner one: exit and *)
(* entry actions, and removeLoggedUsers, which clears its users.             *)
Follow(o, i, e, ok) ==
    LET st == Entered(o, e, OuterGuards(o), ok)
        i1 == StartAndCancel(o, i, st)
    IN  IF ~linked \/ Target(o.st, e, OuterGuards(o)) = o.st THEN i
        ELSE IF st \in LogoutStates THEN ClearUsers(i1) ELSE i1

RunOuter(o, e, ok) == executeStateMachine(o, e, OuterGuards(o), ok)

(* Event e of the outer workflow, from records whose fields were just set. *)
OuterStep(o, i, e, ok, level) ==
    /\ outer' = RunOuter(o, e, ok)
    /\ inner' = Follow(o, i, e, ok)
    /\ buzzer' = BuzzerAfter(level, o, e, OuterGuards(o), ok)

Loop == session' = IF outer'.st \in LoginStates THEN "login" ELSE "none"

(* removeLoggedUsers of the outer workflow, called by the screen. *)
LogOut(l) ==
    /\ outer' = removeLoggedUsers(outer)
    /\ inner' = IF l THEN ClearUsers(inner) ELSE inner

-----------------------------------------------------------------------------
(* JMainMenuForm.openDoor for either door works on the outer workflow. *)
UiOpenDoor(target) ==
    /\ session = "none"
    /\ linked' = (target = "inner")
    /\ \/ /\ outer.st \in {"Idle", "AccessTime"} /\ session' = "asking"
          /\ UNCHANGED <<outer, inner>>
       \/ outer.st \notin {"Idle", "AccessTime"} /\ LogOut(linked') /\ Loop
    /\ UNCHANGED <<todo, plunger, innerOpen, expiry, buzzer>>

(* The operator answers the questions before the login. *)
UiAnswer ==
    /\ session = "asking"
    /\ LogOut(linked) /\ Loop
    /\ UNCHANGED <<linked, todo, plunger, innerOpen, expiry, buzzer>>

(* onLoginUser of the outer workflow; both workflows get the user. *)
UiLogin(u, ok) ==
    LET o == LoggedIn(outer, u)
        i == IF ~linked THEN inner
             ELSE IF outer.user1 = NoUser THEN [inner EXCEPT !.user1 = u]
             ELSE [inner EXCEPT !.user2 = u]
    IN  /\ session = "login"
        /\ \/ /\ ~LoginAllowed(outer, u, KeyCount)
              /\ LogOut(linked) /\ session' = "none" /\ UNCHANGED buzzer
           \/ /\ LoginAllowed(outer, u, KeyCount) /\ ~LoginCounts(outer, KeyCount)
              /\ Loop /\ UNCHANGED <<outer, inner, buzzer>>
           \/ /\ LoginAllowed(outer, u, KeyCount) /\ LoginCounts(outer, KeyCount)
              /\ OuterStep(o, i, "USER_LOGIN", ok, buzzer)
              /\ IF Throws(o, "USER_LOGIN", OuterGuards(o), ok)
                 THEN session' = "none" ELSE Loop
        /\ UNCHANGED <<linked, todo, plunger, innerOpen, expiry>>

UiCancel ==
    /\ session = "login"
    /\ LogOut(linked)
    /\ session' = "none"
    /\ UNCHANGED <<linked, todo, plunger, innerOpen, expiry, buzzer>>

(* ExtractionController.cancelTimeDelay: idleEntry has already told the      *)
(* inner door, so the second cancelOuterDoor finds it in Idle.               *)
CancelTimeDelay ==
    /\ outer.st = "TimeDelay"
    /\ OuterStep(outer, inner, "CANCEL_TIME_DELAY", TRUE, buzzer)
    /\ UNCHANGED <<linked, session, todo, plunger, innerOpen, expiry>>

-----------------------------------------------------------------------------
(* The dispatcher: a plunger reports a change; PLUNGER doors have no lock    *)
(* sensor, and their closing stands for locking.                             *)
PlungerEvent(d, value) ==
    /\ todo = <<>> /\ plunger[d] # value
    /\ plunger' = [plunger EXCEPT ![d] = value]
    /\ todo' = IF value = 0 THEN <<<<d, "OPEN_DOOR">>>>
               ELSE <<<<d, "CLOSE_DOOR">>, <<d, "LOCK_DOOR">>>>
    /\ UNCHANGED <<outer, inner, linked, session, innerOpen, expiry, buzzer>>

Call(d, call) ==
    /\ todo # <<>> /\ Head(todo) = <<d, call>> /\ todo' = Tail(todo)
    /\ UNCHANGED <<linked, session, plunger, expiry>>

(* onDoorOpen of the outer door: its own event, and then the inner door is   *)
(* unlocked with the users it was given.                                     *)
OuterDoorOpen(ok) ==
    LET level == IF linked THEN buzzerStop(buzzer) ELSE buzzer
        i     == Follow(outer, inner, "OPEN_DOOR", TRUE)
        mid   == BuzzerAfter(level, outer, "OPEN_DOOR", OuterGuards(outer), TRUE)
        opens == linked /\ ~innerOpen
    IN  /\ Call("outer", "OPEN_DOOR")
        /\ outer' = RunOuter(outer, "OPEN_DOOR", TRUE)
        /\ inner' = IF opens THEN RunInner(i, "OUTER_DOOR_OPEN", ok) ELSE i
        /\ buzzer' = IF opens THEN BuzzerAfter(mid, i, "OUTER_DOOR_OPEN", InnerGuards(i), ok)
                     ELSE mid
        /\ UNCHANGED innerOpen

(* onDoorClose: closing the outer door before the inner one sounds the buzzer. *)
OuterDoorClose ==
    /\ Call("outer", "CLOSE_DOOR")
    /\ OuterStep(outer, inner, "CLOSE_DOOR", TRUE,
                 IF linked /\ innerOpen THEN buzzerStart(buzzer) ELSE buzzer)
    /\ UNCHANGED innerOpen

OuterLocked ==
    /\ Call("outer", "LOCK_DOOR")
    /\ OuterStep(outer, inner, "LOCK_DOOR", TRUE, buzzer)
    /\ UNCHANGED innerOpen

(* The inner door's own events; its door state is stored after the handler. *)
InnerDoorEvent(e) ==
    /\ Call("inner", e)
    /\ inner' = RunInner(inner, e, TRUE)
    /\ buzzer' = BuzzerAfter(buzzer, inner, e, InnerGuards(inner), TRUE)
    /\ innerOpen' = IF e = "OPEN_DOOR" THEN TRUE
                    ELSE IF e = "CLOSE_DOOR" THEN FALSE ELSE innerOpen
    /\ UNCHANGED outer

-----------------------------------------------------------------------------
(* The timer thread: handle_ctimers finds a timer expired and releases the   *)
(* mutex, OTimer.expireTimer takes it out of the table, timerExpired runs.   *)
TimerPick(d) ==
    /\ expiry = None
    /\ (d = "outer" /\ outer.timer) \/ (d = "inner" /\ inner.timer)
    /\ expiry' = <<d, "picked">>
    /\ UNCHANGED <<outer, inner, linked, session, todo, plunger, innerOpen, buzzer>>

TimerExpire(d) ==
    /\ expiry = <<d, "picked">> /\ expiry' = <<d, "calling">>
    /\ outer' = IF d = "outer" THEN [outer EXCEPT !.timer = FALSE] ELSE outer
    /\ inner' = IF d = "inner" THEN [inner EXCEPT !.timer = FALSE] ELSE inner
    /\ UNCHANGED <<linked, session, todo, plunger, innerOpen, buzzer>>

timerExpired(d) ==
    /\ expiry = <<d, "calling">> /\ expiry' = None
    /\ \/ d = "outer" /\ OuterStep(outer, inner, "TIMER_EXPIRED", TRUE, buzzer)
       \/ /\ d = "inner" /\ inner' = RunInner(inner, "TIMER_EXPIRED", TRUE)
          /\ buzzer' = BuzzerAfter(buzzer, inner, "TIMER_EXPIRED", InnerGuards(inner), TRUE)
          /\ UNCHANGED outer
    /\ UNCHANGED <<linked, session, todo, plunger, innerOpen>>

-----------------------------------------------------------------------------
Ui ==
    \/ \E target \in Targets : UiOpenDoor(target)
    \/ UiAnswer \/ UiCancel \/ CancelTimeDelay
    \/ \E u \in Users, ok \in BOOLEAN : UiLogin(u, ok)

Dispatch ==
    \/ \E d \in Doors, value \in {0, 1} : PlungerEvent(d, value)
    \/ \E ok \in BOOLEAN : OuterDoorOpen(ok)
    \/ OuterDoorClose \/ OuterLocked
    \/ \E e \in {"OPEN_DOOR", "CLOSE_DOOR", "LOCK_DOOR"} : InnerDoorEvent(e)

Timer == \E d \in Doors : TimerPick(d) \/ TimerExpire(d) \/ timerExpired(d)

Next == Ui \/ Dispatch \/ Timer

Spec == Init /\ [][Next]_vars

-----------------------------------------------------------------------------
(* Every variable has its type. *)
TypeOK ==
    /\ outer \in Workflow /\ inner \in Workflow
    /\ linked \in BOOLEAN /\ innerOpen \in BOOLEAN
    /\ session \in {"none", "asking", "login"}
    /\ todo \in Seq(Doors \X {"OPEN_DOOR", "CLOSE_DOOR", "LOCK_DOOR"})
    /\ plunger \in [Doors -> {0, 1}]
    /\ expiry \in (Doors \X {"picked", "calling"}) \cup {None}
    /\ buzzer \in Nat

(* An inner door that waits for the outer one waits for an operation in      *)
(* progress: when the outer workflow is back in Idle (cancelled, expired,    *)
(* refused or finished), or in violation or alarm, the inner one, which has  *)
(* no timer of its own in that state, does not wait any more (idleExit,      *)
(* cancelOuterDoor).                                                         *)
InnerWaitsForOuter == inner.st = "WaitOuterDoorOpen" => outer.st \notin CancelStates

(* The users the inner door would be unlocked with are the users logged in   *)
(* at the outer door: no credentials outlive the operation they were typed   *)
(* for (setUser1, setUser2, removeLoggedUsers).                              *)
SameCredentials ==
    /\ inner.user1 \in {NoUser, outer.user1}
    /\ inner.user2 \in {NoUser, outer.user2}

(* An opening of the outer door that is a violation does not unlock an inner *)
(* door that waits for the outer one: openDoorViolationEntry takes the wait  *)
(* and the users from it before onDoorOpen gets to onOuterDoorOpen.          *)
ViolationKeepsLocked ==
    [][outer'.st = "OpenDoorViolation" /\ outer.st # outer'.st
       /\ inner.st = "WaitOuterDoorOpen" => ~inner'.hasUnlocked]_vars

(* Both doors: a timed state has its timer or its expiry on the way. *)
NeverStuckPair ==
    /\ outer.st \in TimedStates \ {"WaitLockDoorError"} => outer.timer \/ expiry = <<"outer", "calling">>
    /\ inner.st \in TimedStates \ {"WaitLockDoorError"} => inner.timer \/ expiry = <<"inner", "calling">>

(* isLoginComplete: "Si no hay usuario 2 y la puerta es Dual Key entonces    *)
(* aun no se completo el proceso de login": the command that unlocks a dual  *)
(* key inner door carries two users.                                         *)
InnerDualControl ==
    [][inner.st # "WaitUnlockDoor" /\ inner'.st = "WaitUnlockDoor"
       /\ inner'.hasUnlocked /\ InnerKeyCount = 2 => inner'.user2 # NoUser]_vars
=============================================================================
