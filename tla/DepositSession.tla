--------------------------- MODULE DepositSession ---------------------------
(***************************************************************************)
(* A validated drop from its start to its end: CimManager's current state, *)
(* the one CimStateDeposit object and its deposit, the validator and the   *)
(* threads that act on them.                                               *)
(*                                                                         *)
(* Operators (screen, console, point of sale) start and end drops whenever *)
(* they like and the timer thread ends them for inactivity: both run       *)
(* setCurrentState, which has no lock of its own; deactivateState and      *)
(* activateState hold the mutex of CimStateDeposit while they wait for the *)
(* validator to stop or to start.  That is reported by the event           *)
(* dispatcher, the thread that also adds the bills, without the mutex.  A  *)
(* step of a thread ends where another one may change what it reads next.  *)
(* The variables of hist are histories: no action tests them.              *)
(*                                                                         *)
(* One cash with one validator; a bill is a number, a deposit is numbered  *)
(* as it is started, 0 stands for NULL.  Files and the recovery after a    *)
(* power cut are DepositRecovery's subject.                                *)
(***************************************************************************)
EXTENDS Integers, Sequences, FiniteSets

CONSTANTS
    Operators,     \* the threads that start and end drops
    Pos,           \* those of them that are POSAcceptor, which looks at its myDrop
    WarningTime,   \* CimGeneralSettings getWarningTime
    MaxDeposits,   \* bound: drops started
    MaxBills,      \* bound: bills stacked
    MaxOthers      \* bound: what else is asked for or reported: operators' requests
                   \* to end a drop or to go on with it, reports of the last drops,
                   \* errors of the validator and its bag, rejected bills

ASSUME SessionAssumption ==
    /\ "timer" \notin Operators /\ "nobody" \notin Operators /\ Pos \subseteq Operators
    /\ WarningTime \in Nat
    /\ MaxDeposits \in Nat /\ MaxBills \in Nat /\ MaxOthers \in Nat

VARIABLES
    cur,       \* CimManager's myCurrentState
    dep,       \* CimStateDeposit's myDeposit
    mutex,     \* who holds CimStateDeposit's myMutex, or "nobody"
    th,        \* where each thread is, and the state it sets
    drop,      \* whether POSAcceptor's myDrop is set
    inactive,  \* whether myInactivityTimer is started
    close,     \* whether myCloseTimer is started
    mem,       \* the bills of each deposit, in memory
    temp,      \* the bills of the temporary deposit
    booked,    \* the bills of the stored deposits
    stores,    \* how often each deposit has been stored
    audited,   \* the bills audited as stacked without a drop
    want,      \* the last command sent to the validator
    hw,        \* what the validator does
    events,    \* the dispatcher's queue
    acc,       \* myAcceptorState
    status,    \* myBillAcceptorStatus, "OPEN" while the error is that of the bag
    bag,       \* myStackerSensorStatus
    hand,      \* what the dispatcher is doing, with which bill
    early,     \* whether a wait for the validator ended on an error
    crossed,   \* whether a drop was started across another drop or call: see StartAcross
    unwatched, \* whether the drop in progress was opened without its bag and timers
    used       \* how much of each bound is used

ses == <<cur, dep, mutex, th, drop>>
timers == <<inactive, close>>
money == <<mem, temp, booked, stores, audited>>
val == <<want, hw, events>>
device == <<acc, status, bag, hand>>
hist == <<early, crossed, unwatched>>
vars == <<ses, timers, money, val, device, hist, used>>

Threads == Operators \cup {"timer"}
Deposits == 1..MaxDeposits
Bills == 1..MaxBills
Event == [kind : {"START", "STOP", "ERROR", "OK", "OUT", "IN", "REJECTED"}, bill : {0}]
             \cup [kind : {"ACCEPTED"}, bill : Bills]
Work == [pc : {"idle"}, bill : {0}] \cup [pc : {"add", "save"}, bill : Bills]
Signal(k) == [kind |-> k, bill |-> 0]
Stacked(n) == [kind |-> "ACCEPTED", bill |-> n]
Bounded == {"deposits", "bills", "others"}
Held == {"closing", "ending", "clear", "reset", "null", "opening", "opened"}

Init ==
    /\ cur = "Idle" /\ dep = 0 /\ mutex = "nobody" /\ drop = FALSE
    /\ th = [t \in Threads |-> [pc |-> "ready", to |-> "Idle"]]
    /\ inactive = FALSE /\ close = FALSE
    /\ mem = [d \in Deposits |-> {}] /\ temp = {} /\ booked = {} /\ audited = {}
    /\ stores = [d \in Deposits |-> 0]
    /\ want = "STOP" /\ hw = "STOP" /\ events = <<>>
    /\ acc = "STOP" /\ status = "OK" /\ bag = "IN" /\ hand = [pc |-> "idle", bill |-> 0]
    /\ early = FALSE /\ crossed = FALSE /\ unwatched = FALSE
    /\ used = [b \in Bounded |-> 0]

At(t, pc) == th[t].pc = pc
Goto(t, pc) == th' = [th EXCEPT ![t].pc = pc]
Use(what, max) == used[what] < max /\ used' = [used EXCEPT ![what] = @ + 1]

-----------------------------------------------------------------------------
(* setCurrentState, by an operator or by the timer thread. *)

\* A thread that has started a drop and has not set its state yet; the threads
\* that are in setCurrentState.
Beginning(t) == th[t].to = "Deposit" /\ th[t].pc \in {"deactivate", "assign"}
Calling(t) == th[t].pc \notin {"ready", "inactivity", "close"}

\* A drop is started although one is in progress or a call has not returned; and
\* a call that sets Idle begins between the two steps of a start.
StartAcross == cur = "Deposit" \/ \E t \in Threads : Calling(t)
EndAcross == \E t \in Threads : Beginning(t)

\* POSAcceptor looks at its own myDrop, the screen and the console at nothing.
openCash(t) == t \in Pos => ~drop
closeCash(t) == t \in Pos => drop

\* startDeposit puts its deposit into the one CimStateDeposit whatever it finds.
\* That the bag is in has been looked at before, by the callers.
startDeposit(t) ==
    /\ At(t, "ready") /\ openCash(t) /\ Use("deposits", MaxDeposits)
    /\ dep' = used.deposits + 1
    /\ th' = [th EXCEPT ![t] = [pc |-> "deactivate", to |-> "Deposit"]]
    /\ crossed' = (crossed \/ StartAcross)
    /\ UNCHANGED <<cur, mutex, drop, timers, money, val, device, early, unwatched>>

endDeposit(t) ==
    /\ At(t, "ready") /\ closeCash(t) /\ Use("others", MaxOthers)
    /\ th' = [th EXCEPT ![t] = [pc |-> "deactivate", to |-> "Idle"]]
    /\ crossed' = (crossed \/ EndAcross)
    /\ UNCHANGED <<cur, dep, mutex, drop, timers, money, val, device, early, unwatched>>

\* Mutant: nobody waits for the mutex.
deactivateStateUnlocked(t) ==
    /\ At(t, "deactivate")
    /\ \/ /\ cur = "Idle" \/ dep = 0
          /\ Goto(t, "assign")
          /\ UNCHANGED <<mutex, timers, want>>
       \/ /\ cur = "Deposit" /\ dep # 0
          /\ mutex' = t /\ want' = "STOP" /\ inactive' = FALSE /\ close' = FALSE
          /\ Goto(t, "closing")
    /\ UNCHANGED <<cur, dep, drop, money, hw, events, device, hist, used>>

\* deactivateState of the current state: Idle has nothing to do, Deposit takes
\* the mutex and, if it has a deposit, stops the timers and the validator.
deactivateState(t) ==
    /\ At(t, "deactivate")
    /\ \/ /\ cur = "Idle" \/ (mutex = "nobody" /\ dep = 0)
          /\ Goto(t, "assign")
          /\ UNCHANGED <<mutex, timers, want>>
       \/ /\ cur = "Deposit" /\ mutex = "nobody" /\ dep # 0
          /\ mutex' = t /\ want' = "STOP" /\ inactive' = FALSE /\ close' = FALSE
          /\ Goto(t, "closing")
    /\ UNCHANGED <<cur, dep, drop, money, hw, events, device, hist, used>>

\* Mutant: the validator is told to stop and not waited for.
closeAtOnce(t) ==
    /\ At(t, "closing") /\ Goto(t, "ending")
    /\ UNCHANGED <<cur, dep, mutex, drop, timers, money, val, device, hist, used>>

\* BillAcceptor close: waits until the validator has stopped or has an error.
\* Then the observers are told.
closed(t) ==
    /\ At(t, "closing") /\ (acc = "STOP" \/ status # "OK")
    /\ early' = (early \/ acc = "START")
    /\ Goto(t, "ending")
    /\ UNCHANGED <<cur, dep, mutex, drop, timers, money, val, device, crossed, unwatched, used>>

\* DepositManager endDeposit, of what myDeposit is now: a deposit with bills is
\* stored, an empty one is not.
store(t) ==
    /\ At(t, "ending")
    /\ \/ /\ dep # 0 /\ mem[dep] # {}
          /\ booked' = booked \cup mem[dep] /\ stores' = [stores EXCEPT ![dep] = @ + 1]
          /\ Goto(t, "clear")
       \/ /\ dep # 0 => mem[dep] = {}
          /\ UNCHANGED <<booked, stores>> /\ Goto(t, "reset")
    /\ UNCHANGED <<cur, dep, mutex, drop, timers, mem, temp, audited, val, device, hist, used>>

\* Mutant: the temporary deposit is left behind.
clearDepositForgotten(t) ==
    /\ At(t, "clear") /\ Goto(t, "reset")
    /\ UNCHANGED <<cur, dep, mutex, drop, timers, money, val, device, hist, used>>

clearDeposit(t) ==
    /\ At(t, "clear") /\ temp' = {} /\ Goto(t, "reset")
    /\ UNCHANGED <<cur, dep, mutex, drop, timers, mem, booked, stores, audited, val, device, hist, used>>

resetDrop(t) ==
    /\ At(t, "reset") /\ drop' = FALSE /\ Goto(t, "null")
    /\ UNCHANGED <<cur, dep, mutex, timers, money, val, device, hist, used>>

\* The end of deactivateState: myDeposit becomes NULL and the mutex is released.
forgetDeposit(t) ==
    /\ At(t, "null") /\ dep' = 0 /\ mutex' = "nobody" /\ Goto(t, "assign")
    /\ unwatched' = FALSE
    /\ UNCHANGED <<cur, drop, timers, money, val, device, early, crossed, used>>

assignState(t) ==
    /\ At(t, "assign") /\ cur' = th[t].to /\ Goto(t, "activate")
    /\ UNCHANGED <<dep, mutex, drop, timers, money, val, device, hist, used>>

\* activateState of what the current state is now.  Without a deposit there is
\* no cash whose validator could be opened.
activateState(t) ==
    /\ At(t, "activate")
    /\ \/ cur = "Idle" /\ Goto(t, "done") /\ UNCHANGED <<mutex, want>>
       \/ /\ cur = "Deposit" /\ mutex = "nobody" /\ mutex' = t
          /\ \/ dep # 0 /\ bag = "IN" /\ want' = "START" /\ Goto(t, "opening")
             \/ dep = 0 /\ UNCHANGED want /\ Goto(t, "opened")
    /\ UNCHANGED <<cur, dep, drop, timers, money, hw, events, device, hist, used>>

\* BillAcceptor open throws while the bag is out: the mutex is released, no timer
\* is started, the deposit stays and the exception ends the caller's call too.
openThrows(t) ==
    /\ At(t, "activate") /\ cur = "Deposit" /\ mutex = "nobody" /\ dep # 0 /\ bag = "OUT"
    /\ th' = [th EXCEPT ![t] = [pc |-> "ready", to |-> "Idle"]]
    /\ unwatched' = (~inactive /\ ~close)
    /\ UNCHANGED <<cur, dep, mutex, drop, timers, money, val, device, early, crossed, used>>

\* BillAcceptor open: waits until the validator has started or has an error.
opened(t) ==
    /\ At(t, "opening") /\ (acc = "START" \/ status # "OK")
    /\ early' = (early \/ acc = "STOP")
    /\ Goto(t, "opened")
    /\ UNCHANGED <<cur, dep, mutex, drop, timers, money, val, device, crossed, unwatched, used>>

\* Mutant: the inactivity timer waits for the first bill.
watchInactivityLater(t) ==
    /\ At(t, "opened") /\ mutex' = "nobody" /\ Goto(t, "done")
    /\ UNCHANGED <<cur, dep, drop, timers, money, val, device, hist, used>>

\* Mutant: the mutex is not released.
watchInactivityLocked(t) ==
    /\ At(t, "opened") /\ inactive' = TRUE /\ Goto(t, "done")
    /\ UNCHANGED <<cur, dep, mutex, drop, close, money, val, device, hist, used>>

\* The end of activateState: the inactivity timer is started.
watchInactivity(t) ==
    /\ At(t, "opened") /\ inactive' = TRUE /\ mutex' = "nobody" /\ Goto(t, "done")
    /\ UNCHANGED <<cur, dep, drop, close, money, val, device, hist, used>>

\* Back in the caller: POSAcceptor keeps the deposit it has started and forgets
\* the one it has ended, the timer's handlers forget it too, and the screen and
\* the console know nothing of myDrop.
return(t) ==
    /\ At(t, "done")
    /\ \/ t \in Pos /\ drop' = (th[t].to = "Deposit")
       \/ t = "timer" /\ drop' = FALSE
       \/ t \in Operators \ Pos /\ UNCHANGED drop
    /\ th' = [th EXCEPT ![t] = [pc |-> "ready", to |-> "Idle"]]
    /\ UNCHANGED <<cur, dep, mutex, timers, money, val, device, hist, used>>

\* POSAcceptor's report of the last drops takes myDrop for the deposits it loads.
dropsReport(t) ==
    /\ At(t, "ready") /\ t \in Pos /\ Use("others", MaxOthers) /\ drop' = FALSE
    /\ UNCHANGED <<cur, dep, mutex, th, timers, money, val, device, hist>>

setCurrentState(t) ==
    \/ deactivateState(t) \/ closed(t) \/ store(t) \/ clearDeposit(t) \/ resetDrop(t)
    \/ forgetDeposit(t) \/ assignState(t) \/ activateState(t) \/ openThrows(t)
    \/ opened(t) \/ watchInactivity(t) \/ return(t)

-----------------------------------------------------------------------------
(* The timers: an expiry that has been taken is not revoked by a stop. *)

resetTimers == close' = FALSE /\ inactive' = TRUE

needMoreTime(t) ==
    /\ At(t, "ready") /\ Use("others", MaxOthers)
    /\ cur = "Deposit" /\ resetTimers
    /\ UNCHANGED <<ses, money, val, device, hist>>

expireInactivity ==
    /\ At("timer", "ready") /\ inactive /\ inactive' = FALSE /\ Goto("timer", "inactivity")
    /\ UNCHANGED <<cur, dep, mutex, drop, close, money, val, device, hist, used>>

expireClose ==
    /\ At("timer", "ready") /\ close /\ close' = FALSE /\ Goto("timer", "close")
    /\ UNCHANGED <<cur, dep, mutex, drop, inactive, money, val, device, hist, used>>

inactivityTimerHandler ==
    /\ At("timer", "inactivity")
    /\ \/ /\ WarningTime = 0 /\ UNCHANGED close /\ crossed' = (crossed \/ EndAcross)
          /\ th' = [th EXCEPT !["timer"] = [pc |-> "deactivate", to |-> "Idle"]]
       \/ WarningTime # 0 /\ close' = TRUE /\ UNCHANGED crossed /\ Goto("timer", "ready")
    /\ UNCHANGED <<cur, dep, mutex, drop, inactive, money, val, device, early, unwatched, used>>

closeTimerHandler ==
    /\ At("timer", "close")
    /\ th' = [th EXCEPT !["timer"] = [pc |-> "deactivate", to |-> "Idle"]]
    /\ crossed' = (crossed \/ EndAcross)
    /\ UNCHANGED <<cur, dep, mutex, drop, timers, money, val, device, early, unwatched, used>>

TimerThread == expireInactivity \/ expireClose \/ inactivityTimerHandler \/ closeTimerHandler

-----------------------------------------------------------------------------
(* The validator, and the dispatcher of its events. *)

Obey ==
    /\ hw # want /\ hw' = want /\ events' = Append(events, Signal(want))
    /\ UNCHANGED <<ses, timers, money, want, device, hist, used>>

\* A bill is stacked, or rejected.
Insert ==
    /\ hw = "START"
    /\ \/ Use("bills", MaxBills) /\ events' = Append(events, Stacked(used.bills + 1))
       \/ Use("others", MaxOthers) /\ events' = Append(events, Signal("REJECTED"))
    /\ UNCHANGED <<ses, timers, money, want, hw, device, hist>>

Fail ==
    /\ Use("others", MaxOthers)
    /\ \E s \in {"ERROR", "OK", "OUT", "IN"} \ {status, bag} : events' = Append(events, Signal(s))
    /\ UNCHANGED <<ses, timers, money, want, hw, device, hist>>

Take == hand.pc = "idle" /\ events # <<>> /\ events' = Tail(events)

\* BillAcceptor statusChange and communicationError.
statusChange ==
    /\ Take
    /\ \/ Head(events).kind \in {"START", "STOP"} /\ acc' = Head(events).kind /\ UNCHANGED status
       \/ Head(events).kind \in {"ERROR", "OK"} /\ status' = Head(events).kind /\ UNCHANGED acc
    /\ UNCHANGED <<ses, timers, money, want, hw, bag, hand, hist, used>>

\* stackerSensorStatusChange: a bag that is out is an error of its own, which only
\* the bag's return or an OK of the validator clears.
stackerSensorStatusChange ==
    /\ Take /\ Head(events).kind \in {"OUT", "IN"} /\ bag' = Head(events).kind
    /\ status' = (IF bag' = "OUT" THEN "OPEN" ELSE IF status = "OPEN" THEN "OK" ELSE status)
    /\ UNCHANGED <<ses, timers, money, want, hw, acc, hand, hist, used>>

\* CimStateDeposit onBillRejected; Idle only passes it on.
onBillRejected ==
    /\ Take /\ Head(events).kind = "REJECTED"
    /\ \/ acc = "START" /\ cur = "Deposit" /\ resetTimers
       \/ (acc = "STOP" \/ cur = "Idle") /\ UNCHANGED timers
    /\ UNCHANGED <<ses, money, want, hw, device, hist, used>>

\* CimManager onBillAccepted, and that of the current state up to the deposit.
onBillAccepted ==
    /\ Take /\ Head(events).kind = "ACCEPTED"
    /\ \/ /\ acc = "STOP" \/ cur = "Idle"
          /\ audited' = audited \cup {Head(events).bill} /\ UNCHANGED <<hand, timers>>
       \/ /\ acc = "START" /\ cur = "Deposit" /\ resetTimers
          /\ hand' = [pc |-> "add", bill |-> Head(events).bill] /\ UNCHANGED audited
    /\ UNCHANGED <<ses, mem, temp, booked, stores, want, hw, acc, status, bag, hist, used>>

\* Mutant: the bill waits for the mutex, so as not to meet the end of the drop.
addDepositDetailLocked ==
    /\ hand.pc = "add" /\ mutex = "nobody"
    /\ mem' = IF dep = 0 THEN mem ELSE [mem EXCEPT ![dep] = @ \cup {hand.bill}]
    /\ hand' = [hand EXCEPT !.pc = "save"]
    /\ UNCHANGED <<ses, timers, temp, booked, stores, audited, val, acc, status, bag, hist, used>>

\* addDepositDetail of myDeposit; a message to NULL does nothing.
addDepositDetail ==
    /\ hand.pc = "add"
    /\ mem' = IF dep = 0 THEN mem ELSE [mem EXCEPT ![dep] = @ \cup {hand.bill}]
    /\ hand' = [hand EXCEPT !.pc = "save"]
    /\ UNCHANGED <<ses, timers, temp, booked, stores, audited, val, acc, status, bag, hist, used>>

\* saveDepositDetail in the temporary deposit of myDeposit's cash.
saveDepositDetail ==
    /\ hand.pc = "save"
    /\ temp' = IF dep = 0 THEN temp ELSE temp \cup {hand.bill}
    /\ hand' = [pc |-> "idle", bill |-> 0]
    /\ UNCHANGED <<ses, timers, mem, booked, stores, audited, val, acc, status, bag, hist, used>>

Dispatcher ==
    \/ statusChange \/ stackerSensorStatusChange \/ onBillRejected \/ onBillAccepted
    \/ addDepositDetail \/ saveDepositDetail

-----------------------------------------------------------------------------

Operator(t) == startDeposit(t) \/ endDeposit(t) \/ needMoreTime(t) \/ dropsReport(t)

Next ==
    \/ \E t \in Operators : Operator(t)
    \/ \E t \in Threads : setCurrentState(t)
    \/ TimerThread \/ Obey \/ Insert \/ Fail \/ Dispatcher

Spec == Init /\ [][Next]_vars

\* Every thread keeps running, the timer thread calls back what has expired and
\* the validator obeys (each step changes what the subscript names).  No operator
\* has to do anything.
FairSpec ==
    /\ Spec /\ \A t \in Operators : WF_th(setCurrentState(t))
    /\ WF_th(setCurrentState("timer") \/ TimerThread) /\ WF_val(Obey) /\ WF_vars(Dispatcher)

-----------------------------------------------------------------------------
(* Properties. *)

\* Type of the state; a thread that is not between lock and unlock does not hold
\* the mutex.
TypeOK ==
    /\ cur \in {"Idle", "Deposit"} /\ dep \in Deposits \cup {0}
    /\ mutex \in Threads \cup {"nobody"} /\ \A t \in Threads : mutex = t => th[t].pc \in Held
    /\ drop \in BOOLEAN
    /\ th \in [Threads -> [pc : Held \cup {"ready", "deactivate", "assign", "activate", "done",
                                           "inactivity", "close"}, to : {"Idle", "Deposit"}]]
    /\ inactive \in BOOLEAN /\ close \in BOOLEAN
    /\ mem \in [Deposits -> SUBSET Bills] /\ temp \subseteq Bills /\ booked \subseteq Bills
    /\ stores \in [Deposits -> Nat] /\ audited \subseteq Bills
    /\ want \in {"START", "STOP"} /\ hw \in {"START", "STOP"}
    /\ events \in Seq(Event)
    /\ acc \in {"START", "STOP"} /\ status \in {"OK", "ERROR", "OPEN"}
    /\ bag \in {"IN", "OUT"}
    /\ hand \in Work
    /\ early \in BOOLEAN /\ crossed \in BOOLEAN /\ unwatched \in BOOLEAN
    /\ used \in [Bounded -> Nat]

Queued == { events[i].bill : i \in 1..Len(events) }

\* Every bill the validator has stacked is still to be dispatched, or is in the
\* deposit in progress, or in a stored one.  An error of the validator ends the
\* waits for it and what the property says.
BillAccounted ==
    ~early => \A b \in 1..used.bills :
        b \in Queued \cup {hand.bill} \cup booked \cup (IF dep = 0 THEN {} ELSE mem[dep])

\* The same until a drop is started across another one or across a call in
\* progress, which setCurrentState lets pass and then loses bills: whatever ends
\* the drop, and however often, and whenever the next one is started, no bill
\* arrives after its deposit was stored or when there is no drop, because the end
\* of a drop waits for the validator's stop, which the dispatcher takes after the
\* bills.
BillAccountedApart == ~crossed => BillAccounted

\* A drop ended by two threads at once is stored once (the mutex and the test of
\* myDeposit in deactivateState).
StoredOnce == \A d \in Deposits : stores[d] <= 1

\* With no call in progress and no event left, no drop means a validator that
\* does not take bills and no temporary deposit that a restart would store again;
\* until a drop is started across another one.
AtRest ==
    (~early /\ ~crossed /\ events = <<>> /\ hand.pc = "idle" /\ \A t \in Threads : At(t, "ready"))
        => /\ cur = "Idle" => dep = 0 /\ acc = "STOP" /\ hw = "STOP"
           /\ dep = 0 => temp = {}

\* Every call to startDeposit and endDeposit returns, although it waits for the
\* dispatcher with the mutex held.
CallsReturn == \A t \in Threads : ~At(t, "ready") ~> At(t, "ready")

\* A drop that nobody ends is ended by the timers, unless it was started across
\* another one, or with the bag out: activateState then ends by an exception and
\* nobody watches over the deposit it leaves.
DropEnds == dep # 0 ~> dep = 0 \/ crossed \/ unwatched
=============================================================================
