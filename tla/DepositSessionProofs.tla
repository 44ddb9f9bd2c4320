------------------------ MODULE DepositSessionProofs ------------------------
(***************************************************************************)
(* No deposit is stored twice, whoever starts and ends drops and whenever: *)
(* for every set of operators and all bounds.  And no bill is lost before  *)
(* a drop is started across another one or across a call that ends one.    *)
(***************************************************************************)
EXTENDS DepositSession, SequenceTheorems, TLAPS

\* What the argument needs of the types.
Shape ==
    /\ dep \in Deposits \cup {0} /\ mutex \in Threads \cup {"nobody"}
    /\ th \in [Threads -> [pc : Held \cup {"ready", "deactivate", "assign", "activate", "done",
                                           "inactivity", "close"}, to : {"Idle", "Deposit"}]]
    /\ stores \in [Deposits -> Nat]
    /\ used \in [Bounded -> Nat]

\* The mutex excludes: it is held by the thread between lock and unlock.
Exclusive == \A t \in Threads : th[t].pc \in Held <=> mutex = t

\* A deposit that has not been started has not been stored.
Started ==
    /\ dep <= used.deposits /\ used.deposits <= MaxDeposits
    /\ \A d \in Deposits : d > used.deposits => stores[d] = 0

\* The current deposit has been stored only while its thread, which still holds
\* the mutex, is about to forget it.
Forgetting ==
    dep # 0 /\ stores[dep] # 0 =>
        \E t \in Threads : mutex = t /\ th[t].pc \in {"clear", "reset", "null"}

IInv == Shape /\ Exclusive /\ Started /\ Forgetting /\ StoredOnce

\* The rest of the types, with the bound that keeps a new bill one of Bills.
Flags ==
    /\ cur \in {"Idle", "Deposit"} /\ drop \in BOOLEAN /\ inactive \in BOOLEAN /\ close \in BOOLEAN
    /\ want \in {"START", "STOP"} /\ hw \in {"START", "STOP"}
    /\ acc \in {"START", "STOP"} /\ status \in {"OK", "ERROR", "OPEN"} /\ bag \in {"IN", "OUT"}
Histories == early \in BOOLEAN /\ crossed \in BOOLEAN /\ unwatched \in BOOLEAN
Money ==
    /\ mem \in [Deposits -> SUBSET Bills] /\ temp \subseteq Bills /\ booked \subseteq Bills
    /\ audited \subseteq Bills
Queue ==
    /\ events \in Seq(Event) /\ hand \in Work
Rest == Flags /\ Histories /\ Money /\ Queue

LEMMA InitIInv == Init => IInv
<1> SUFFICES ASSUME Init PROVE IInv
  OBVIOUS
<1> USE SessionAssumption DEF Init
<1>1. Shape
  BY DEF Shape, Threads, Deposits
<1>2. Exclusive
  BY DEF Exclusive, Threads, Held
<1>3. Started /\ Forgetting /\ StoredOnce
  BY DEF Started, Forgetting, StoredOnce, Deposits, Bounded
<1> QED
  BY <1>1, <1>2, <1>3 DEF IInv

\* A step that leaves the threads, the mutex, the current deposit and the stores alone.
LEMMA Frame ==
  ASSUME IInv, UNCHANGED <<dep, mutex, th, stores>>,
         used' = used \/ \E w \in {"bills", "others"} : used' = [used EXCEPT ![w] = @ + 1]
  PROVE  IInv'
<1>1. used'.deposits = used.deposits /\ Shape'
  BY DEF IInv, Shape, Bounded, Deposits
<1> QED
  BY <1>1 DEF IInv, Shape, Exclusive, Started, Forgetting, StoredOnce

Pcs == Held \cup {"ready", "deactivate", "assign", "activate", "done", "inactivity", "close"}

\* A thread that moves outside the mutex.
LEMMA Outside ==
  ASSUME NEW t \in Threads, NEW q \in Pcs \ Held, NEW s \in {"Idle", "Deposit"}, IInv,
         th[t].pc \notin Held, th' = [th EXCEPT ![t] = [pc |-> q, to |-> s]],
         UNCHANGED <<dep, mutex, stores>>,
         used' = used \/ used' = [used EXCEPT !["others"] = @ + 1]
  PROVE  IInv'
<1>1. used'.deposits = used.deposits /\ used' \in [Bounded -> Nat]
  BY DEF IInv, Shape, Bounded, Deposits
<1> QED
  BY <1>1 DEF IInv, Shape, Exclusive, Started, Forgetting, StoredOnce, Held, Pcs

\* What a thread's move changes of th.
LEMMA Move ==
  ASSUME NEW t \in Threads, NEW q \in Pcs, Shape, Goto(t, q)
  PROVE  /\ th' \in [Threads -> [pc : Pcs, to : {"Idle", "Deposit"}]]
         /\ th'[t].pc = q /\ th'[t].to = th[t].to
         /\ \A u \in Threads : u # t => th'[u] = th[u]
  BY DEF Shape, Goto, Pcs

\* A thread that moves outside the mutex and keeps the state it sets.
LEMMA Away ==
  ASSUME NEW t \in Threads, NEW q \in Pcs \ Held, IInv,
         th[t].pc \notin Held, Goto(t, q), UNCHANGED <<dep, mutex, stores, used>>
  PROVE  IInv'
<1>1. th'[t].pc = q /\ \A u \in Threads : u # t => th'[u] = th[u]
  BY Move DEF IInv
<1>2. Shape'
  BY Move DEF IInv, Shape, Pcs
<1>3. Exclusive' /\ Forgetting'
  BY <1>1 DEF IInv, Exclusive, Forgetting, Held
<1> QED
  BY <1>2, <1>3 DEF IInv, Started, StoredOnce

\* A thread that takes the mutex.
LEMMA Lock ==
  ASSUME NEW t \in Threads, NEW q \in {"closing", "opening", "opened"}, IInv,
         mutex = "nobody", mutex' = t, Goto(t, q), UNCHANGED <<dep, stores, used>>
  PROVE  IInv'
<1>0. q \in Pcs /\ q \in Held
  BY DEF Pcs, Held
<1>1. th'[t].pc = q /\ \A u \in Threads : u # t => th'[u] = th[u]
  BY <1>0, Move DEF IInv
<1>2. Shape'
  BY <1>0, Move DEF IInv, Shape, Pcs
<1>3. \A u \in Threads : u # "nobody" /\ th[u].pc \notin Held
  BY SessionAssumption DEF IInv, Exclusive, Threads
<1>4. Exclusive'
  BY <1>0, <1>1, <1>3 DEF Exclusive
<1>5. Forgetting'
  BY <1>3 DEF IInv, Forgetting
<1> QED
  BY <1>2, <1>4, <1>5 DEF IInv, Started, StoredOnce

\* A thread that moves with the mutex, or releases it.
LEMMA Inside ==
  ASSUME NEW t \in Threads, NEW q \in Pcs, IInv, th[t].pc \in Held, Goto(t, q),
         \/ q \in Held /\ mutex' = mutex /\ dep' = dep
         \/ q \notin Held /\ mutex' = "nobody" /\ dep' \in {dep, 0},
         th[t].pc \in {"clear", "reset", "null"} => q \in {"reset", "null"} \/ dep' = 0,
         UNCHANGED <<stores, used>>
  PROVE  IInv'
<1>1. th'[t].pc = q /\ \A u \in Threads : u # t => th'[u] = th[u]
  BY Move DEF IInv
<1>2. Shape'
  BY Move DEF IInv, Shape, Pcs
<1>3. mutex = t /\ \A u \in Threads : u # "nobody" /\ (u # t => th[u].pc \notin Held)
  BY SessionAssumption DEF IInv, Exclusive, Threads
<1>4. Exclusive'
  BY <1>1, <1>3 DEF Exclusive
<1>5. Forgetting'
  <2> SUFFICES ASSUME dep' # 0, stores[dep'] # 0
               PROVE  \E u \in Threads : mutex' = u /\ th'[u].pc \in {"clear", "reset", "null"}
    BY DEF Forgetting
  <2>1. dep' = dep /\ th[t].pc \in {"clear", "reset", "null"}
    BY <1>3 DEF IInv, Forgetting
  <2>2. q \in {"reset", "null"} /\ q \in Held
    BY <2>1 DEF Held
  <2> QED
    BY <1>1, <1>3, <2>2
<1>6. Started'
  BY DEF IInv, Started, Shape, Bounded, Deposits
<1> QED
  BY <1>2, <1>4, <1>5, <1>6 DEF IInv, StoredOnce

LEMMA StepIInv == IInv /\ [Next]_vars => IInv'
<1> SUFFICES ASSUME IInv, [Next]_vars PROVE IInv'
  OBVIOUS
<1> USE SessionAssumption
<1>0. CASE UNCHANGED vars
  BY <1>0, Frame DEF vars, ses, money
\* The operators.
<1>1. ASSUME NEW t \in Operators, startDeposit(t) PROVE IInv'
  <2>1. t \in Threads /\ th[t].pc = "ready" /\ used.deposits < MaxDeposits /\ dep' = used.deposits + 1
        /\ used' = [used EXCEPT !["deposits"] = @ + 1] /\ mutex' = mutex /\ stores' = stores
        /\ th' = [th EXCEPT ![t] = [pc |-> "deactivate", to |-> "Deposit"]]
    BY <1>1 DEF startDeposit, Use, At, Threads, money
  <2>2. used'.deposits = used.deposits + 1 /\ used' \in [Bounded -> Nat] /\ used.deposits \in Nat
    BY <2>1 DEF IInv, Shape, Bounded, Deposits
  <2>3. dep' \in Deposits /\ stores[dep'] = 0
    BY <2>1, <2>2, SessionAssumption DEF IInv, Shape, Started, Deposits
  <2>4. Shape' /\ Exclusive'
    BY <2>1, <2>2, <2>3 DEF IInv, Shape, Exclusive, Held
  <2>5. Started'
    BY <2>1, <2>2, <2>3 DEF IInv, Started, Deposits
  <2>6. Forgetting' /\ StoredOnce'
    BY <2>1, <2>3 DEF IInv, Forgetting, StoredOnce
  <2> QED
    BY <2>4, <2>5, <2>6 DEF IInv
<1>2. ASSUME NEW t \in Operators, endDeposit(t) PROVE IInv'
  BY <1>2, Outside DEF endDeposit, Use, At, Threads, money, Pcs, Held
<1>3. ASSUME NEW t \in Operators, needMoreTime(t) \/ dropsReport(t) PROVE IInv'
  BY <1>3, Frame DEF needMoreTime, dropsReport, Use, ses, money
\* setCurrentState.
<1>4. ASSUME NEW t \in Threads, setCurrentState(t) PROVE IInv'
  <2>1. CASE deactivateState(t)
    <3>1. CASE Goto(t, "assign") /\ UNCHANGED mutex
      BY <2>1, <3>1, Away DEF deactivateState, At, money, Pcs, Held
    <3>2. CASE mutex = "nobody" /\ mutex' = t /\ Goto(t, "closing")
      BY <2>1, <3>2, Lock DEF deactivateState, money
    <3> QED
      BY <2>1, <3>1, <3>2 DEF deactivateState
  <2>2. CASE closed(t)
    BY <2>2, Inside DEF closed, At, money, Pcs, Held
  <2>3. CASE store(t)
    <3>0. th[t].pc = "ending" /\ mutex = t /\ UNCHANGED <<dep, mutex, used>>
      BY <2>3 DEF store, At, IInv, Exclusive, Held
    <3>1. CASE Goto(t, "reset") /\ UNCHANGED stores
      BY <3>0, <3>1, Inside DEF Pcs, Held
    <3>2. CASE /\ dep # 0 /\ stores' = [stores EXCEPT ![dep] = @ + 1] /\ Goto(t, "clear")
      <4>1. dep \in Deposits /\ stores[dep] = 0
        BY <3>0, <3>2 DEF IInv, Shape, Forgetting
      <4>2. /\ stores' \in [Deposits -> Nat] /\ stores'[dep] = 1
            /\ \A d \in Deposits : d # dep => stores'[d] = stores[d]
        BY <3>2, <4>1 DEF IInv, Shape, Deposits
      <4>3. th'[t].pc = "clear" /\ \A u \in Threads : u # t => th'[u] = th[u]
        BY <3>2, Move DEF IInv, Pcs, Held
      <4>4. Shape'
        BY <3>0, <3>2, <4>2, Move DEF IInv, Shape, Pcs, Held
      <4>5. Exclusive' /\ Forgetting'
        BY <3>0, <4>3 DEF IInv, Exclusive, Forgetting, Held
      <4>6. Started'
        <5>1. dep <= used.deposits /\ used.deposits \in Nat
          BY DEF IInv, Started, Shape, Bounded
        <5>2. \A d \in Deposits : d > used.deposits => d # dep /\ stores[d] = 0
          BY <5>1, <4>1 DEF IInv, Started, Deposits
        <5> QED
          BY <3>0, <4>2, <5>1, <5>2 DEF IInv, Started
      <4>7. StoredOnce'
        BY <4>1, <4>2 DEF IInv, StoredOnce
      <4> QED
        BY <4>4, <4>5, <4>6, <4>7 DEF IInv
    <3> QED
      BY <2>3, <3>1, <3>2 DEF store
  <2>4. CASE clearDeposit(t)
    BY <2>4, Inside DEF clearDeposit, At, money, Pcs, Held
  <2>5. CASE resetDrop(t)
    BY <2>5, Inside DEF resetDrop, At, money, Pcs, Held
  <2>6. CASE forgetDeposit(t)
    BY <2>6, Inside DEF forgetDeposit, At, money, Pcs, Held
  <2>7. CASE assignState(t)
    BY <2>7, Away DEF assignState, At, money, Pcs, Held
  <2>8. CASE activateState(t)
    <3>1. CASE Goto(t, "done") /\ UNCHANGED mutex
      BY <2>8, <3>1, Away DEF activateState, At, money, Pcs, Held
    <3>2. CASE mutex = "nobody" /\ mutex' = t /\ (Goto(t, "opening") \/ Goto(t, "opened"))
      BY <2>8, <3>2, Lock DEF activateState, money
    <3> QED
      BY <2>8, <3>1, <3>2 DEF activateState
  <2>9. CASE opened(t)
    BY <2>9, Inside DEF opened, At, money, Pcs, Held
  <2>10. CASE watchInactivity(t)
    BY <2>10, Inside DEF watchInactivity, At, money, Pcs, Held
  <2>11. CASE return(t)
    BY <2>11, Outside DEF return, At, money, Pcs, Held
  <2>12. CASE openThrows(t)
    BY <2>12, Outside DEF openThrows, At, money, Pcs, Held
  <2> QED
    BY <1>4, <2>1, <2>2, <2>3, <2>4, <2>5, <2>6, <2>7, <2>8, <2>9, <2>10, <2>11, <2>12 DEF setCurrentState
\* The timer thread, the validator and the dispatcher.
<1>5. CASE TimerThread
  <2> USE DEF Threads, Pcs, Held, At, money
  <2>1. CASE expireInactivity
    BY <2>1, Away DEF expireInactivity
  <2>2. CASE expireClose
    BY <2>2, Away DEF expireClose
  <2>3. CASE inactivityTimerHandler
    <3>1. CASE Goto("timer", "ready")
      BY <2>3, <3>1, Away DEF inactivityTimerHandler
    <3>2. CASE th' = [th EXCEPT !["timer"] = [pc |-> "deactivate", to |-> "Idle"]]
      BY <2>3, <3>2, Outside DEF inactivityTimerHandler
    <3> QED
      BY <2>3, <3>1, <3>2 DEF inactivityTimerHandler
  <2>4. CASE closeTimerHandler
    BY <2>4, Outside DEF closeTimerHandler
  <2> QED
    BY <1>5, <2>1, <2>2, <2>3, <2>4 DEF TimerThread
<1>6. CASE Obey \/ Insert \/ Fail
  BY <1>6, Frame DEF Obey, Insert, Fail, Use, ses, money
<1>7. CASE Dispatcher
  BY <1>7, Frame DEF Dispatcher, statusChange, stackerSensorStatusChange, onBillRejected, onBillAccepted, addDepositDetail,
                     saveDepositDetail, ses, money
<1> QED
  BY <1>0, <1>1, <1>2, <1>3, <1>4, <1>5, <1>6, <1>7 DEF Next, Operator

LEMMA InitRest == Init => Rest
<1> SUFFICES ASSUME Init PROVE Rest
  OBVIOUS
<1>1. Flags
  BY DEF Init, Flags
<1>2. Histories
  BY DEF Init, Histories
<1>3. Money /\ Queue
  BY DEF Init, Money, Queue, Work
<1> QED
  BY <1>1, <1>2, <1>3 DEF Rest

\* The histories keep their types, and early and crossed stay once they are set.
LEMMA StepHistories ==
  ASSUME Histories, [Next]_vars
  PROVE  Histories' /\ (early => early') /\ (crossed => crossed')
<1>1. CASE UNCHANGED hist
  BY <1>1 DEF hist, Histories
<1>2. ASSUME NEW P, crossed' = (crossed \/ P), UNCHANGED <<early, unwatched>>
      PROVE  Histories' /\ (early => early') /\ (crossed => crossed')
  BY <1>2, Zenon DEF Histories
<1>3. ASSUME NEW P, early' = (early \/ P), UNCHANGED <<crossed, unwatched>>
      PROVE  Histories' /\ (early => early') /\ (crossed => crossed')
  BY <1>3, Zenon DEF Histories
<1>4. ASSUME UNCHANGED <<early, crossed>>, unwatched' \in BOOLEAN
      PROVE  Histories' /\ (early => early') /\ (crossed => crossed')
  BY <1>4 DEF Histories
<1>5. ASSUME NEW t \in Operators, Operator(t)
      PROVE  \/ UNCHANGED hist
             \/ crossed' = (crossed \/ StartAcross) /\ UNCHANGED <<early, unwatched>>
             \/ crossed' = (crossed \/ EndAcross) /\ UNCHANGED <<early, unwatched>>
  BY <1>5, Zenon DEF Operator, startDeposit, endDeposit, needMoreTime, dropsReport
<1>6. ASSUME NEW t \in Threads, setCurrentState(t)
      PROVE  \/ UNCHANGED hist
             \/ early' = (early \/ acc = "START") /\ UNCHANGED <<crossed, unwatched>>
             \/ early' = (early \/ acc = "STOP") /\ UNCHANGED <<crossed, unwatched>>
             \/ UNCHANGED <<early, crossed>> /\ unwatched' \in BOOLEAN
  BY <1>6, Zenon DEF setCurrentState, deactivateState, closed, store, clearDeposit, resetDrop, forgetDeposit,
       assignState, activateState, openThrows, opened, watchInactivity, return
<1>7. CASE TimerThread
  <2>1. \/ UNCHANGED hist
        \/ crossed' = (crossed \/ EndAcross) /\ UNCHANGED <<early, unwatched>>
    BY <1>7, Zenon DEF TimerThread, expireInactivity, expireClose, inactivityTimerHandler, closeTimerHandler, hist
  <2> QED
    BY <1>1, <1>2, <2>1
<1>8. CASE Obey \/ Insert \/ Fail \/ Dispatcher \/ UNCHANGED vars
  <2>1. UNCHANGED hist
    BY <1>8, Zenon DEF Obey, Insert, Fail, Dispatcher, statusChange, stackerSensorStatusChange,
         onBillRejected, onBillAccepted, addDepositDetail, saveDepositDetail, vars
  <2> QED
    BY <1>1, <2>1
<1> QED
  BY <1>1, <1>2, <1>3, <1>4, <1>5, <1>6, <1>7, <1>8, Zenon DEF Next

LEMMA StepRest == IInv /\ Rest /\ [Next]_vars => Rest'
<1> SUFFICES ASSUME IInv, Rest, [Next]_vars PROVE Rest'
  OBVIOUS
<1> USE SessionAssumption DEF ses, timers, money, val, device, hist
<1>H. Histories'
  BY StepHistories DEF Rest
<1>0. CASE UNCHANGED vars
  BY <1>0 DEF vars, Rest, Flags, Histories, Money, Queue
<1>1. ASSUME NEW t \in Operators, Operator(t) PROVE Rest'
  <2>1. Flags'
    <3>1. CASE startDeposit(t) \/ endDeposit(t)
      <4>1. UNCHANGED <<cur, drop, inactive, close, want, hw, acc, status, bag>>
        BY <3>1, Zenon DEF startDeposit, endDeposit
      <4> QED
        BY <4>1 DEF Rest, Flags
    <3>2. CASE needMoreTime(t)
      <4>1. /\ UNCHANGED <<cur, drop, want, hw, acc, status, bag>>
            /\ close' = FALSE /\ inactive' = TRUE
        BY <3>2, Zenon DEF needMoreTime, resetTimers
      <4> QED
        BY <4>1 DEF Rest, Flags
    <3>3. CASE dropsReport(t)
      <4>1. /\ UNCHANGED <<cur, inactive, close, want, hw, acc, status, bag>>
            /\ drop' = FALSE
        BY <3>3, Zenon DEF dropsReport
      <4> QED
        BY <4>1 DEF Rest, Flags
    <3> QED
      BY <1>1, <3>1, <3>2, <3>3 DEF Operator
  <2>2. Money' /\ Queue'
    BY <1>1 DEF Operator, startDeposit, endDeposit, needMoreTime, dropsReport, Rest, Money, Queue
  <2> QED
    BY <1>H, <2>1, <2>2 DEF Rest
<1>2. ASSUME NEW t \in Threads, setCurrentState(t) PROVE Rest'
  <2>0. th[t].to \in {"Idle", "Deposit"} /\ dep \in Deposits \cup {0}
    BY DEF IInv, Shape
  <2>1. CASE deactivateState(t) \/ closed(t) \/ clearDeposit(t) \/ resetDrop(t) \/ forgetDeposit(t)
    <3>1. Flags'
      <4>1. CASE deactivateState(t)
        BY <4>1, Zenon DEF deactivateState, Rest, Flags
      <4>2. CASE closed(t)
        BY <4>2, Zenon DEF closed, Rest, Flags
      <4>3. CASE clearDeposit(t)
        BY <4>3, Zenon DEF clearDeposit, Rest, Flags
      <4>4. CASE resetDrop(t)
        BY <4>4, Zenon DEF resetDrop, Rest, Flags
      <4>5. CASE forgetDeposit(t)
        BY <4>5, Zenon DEF forgetDeposit, Rest, Flags
      <4> QED
        BY <2>1, <4>1, <4>2, <4>3, <4>4, <4>5
    <3>2. Money' /\ Queue'
      BY <2>1 DEF deactivateState, closed, clearDeposit, resetDrop, forgetDeposit, Rest, Money, Queue
    <3> QED
      BY <1>H, <3>1, <3>2 DEF Rest
  <2>2. CASE store(t)
    BY <1>H, <2>0, <2>2 DEF store, Rest, Flags, Money, Queue
  <2>3. CASE assignState(t)
    BY <1>H, <2>0, <2>3 DEF assignState, Rest, Flags, Money, Queue
  <2>4. CASE activateState(t) \/ openThrows(t) \/ opened(t) \/ watchInactivity(t) \/ return(t)
    <3>1. Flags'
      <4>1. CASE activateState(t)
        BY <4>1, Zenon DEF activateState, Rest, Flags
      <4>2. CASE openThrows(t)
        BY <4>2, Zenon DEF openThrows, Rest, Flags
      <4>3. CASE opened(t)
        BY <4>3, Zenon DEF opened, Rest, Flags
      <4>4. CASE watchInactivity(t)
        BY <4>4, Zenon DEF watchInactivity, Rest, Flags
      <4>5. CASE return(t)
        BY <4>5, Zenon DEF return, Rest, Flags
      <4> QED
        BY <2>4, <4>1, <4>2, <4>3, <4>4, <4>5
    <3>2. Money' /\ Queue'
      BY <2>4 DEF activateState, openThrows, opened, watchInactivity, return, Rest, Money, Queue
    <3> QED
      BY <1>H, <3>1, <3>2 DEF Rest
  <2> QED
    BY <1>2, <2>1, <2>2, <2>3, <2>4 DEF setCurrentState
<1>3. CASE TimerThread
  <2>1. Flags'
    <3>1. CASE expireInactivity
      BY <3>1, Zenon DEF expireInactivity, Rest, Flags
    <3>2. CASE expireClose
      BY <3>2, Zenon DEF expireClose, Rest, Flags
    <3>3. CASE inactivityTimerHandler
      BY <3>3, Zenon DEF inactivityTimerHandler, Rest, Flags
    <3>4. CASE closeTimerHandler
      BY <3>4, Zenon DEF closeTimerHandler, Rest, Flags
    <3> QED
      BY <1>3, <3>1, <3>2, <3>3, <3>4 DEF TimerThread
  <2>2. Money' /\ Queue'
    BY <1>3 DEF TimerThread, expireInactivity, expireClose, inactivityTimerHandler, closeTimerHandler, Rest, Money, Queue
  <2> QED
    BY <1>H, <2>1, <2>2 DEF Rest
\* What the validator reports is an event.
<1>4. CASE Obey \/ Insert \/ Fail
  <2>1. ASSUME NEW k \in {"START", "STOP", "ERROR", "OK", "OUT", "IN", "REJECTED"} PROVE Signal(k) \in Event
    BY DEF Signal, Event
  <2>2. ASSUME used.bills < MaxBills PROVE Stacked(used.bills + 1) \in Event
    BY <2>2 DEF IInv, Shape, Bounded, Stacked, Event, Bills
  <2>3. \E e \in Event : events' = Append(events, e)
    <3>1. CASE Obey
      BY <2>1, <3>1 DEF Obey, Rest, Flags
    <3>2. CASE Insert
      BY <2>1, <2>2, <3>2 DEF Insert, Use
    <3>3. CASE Fail
      BY <2>1, <3>3 DEF Fail
    <3> QED
      BY <1>4, <3>1, <3>2, <3>3
  <2>4. Flags' /\ Money'
    BY <1>4 DEF Obey, Insert, Fail, Rest, Flags, Money
  <2>5. Queue'
    BY <1>4, <2>3 DEF Obey, Insert, Fail, Rest, Queue
  <2> QED
    BY <1>H, <2>4, <2>5 DEF Rest
<1>5. CASE Dispatcher
  <2>0. ASSUME Take PROVE Head(events) \in Event /\ events' \in Seq(Event)
    BY <2>0 DEF Take, Rest, Queue
  <2>1. CASE statusChange \/ stackerSensorStatusChange
    BY <1>H, <2>0, <2>1 DEF statusChange, stackerSensorStatusChange, Rest, Flags, Money, Queue
  <2>2. CASE onBillRejected
    BY <1>H, <2>0, <2>2 DEF onBillRejected, resetTimers, Rest, Flags, Money, Queue
  <2>3. CASE onBillAccepted
    <3>1. Head(events).bill \in Bills
      BY <2>0, <2>3 DEF onBillAccepted, Event
    <3>2. Flags'
      BY <2>3 DEF onBillAccepted, resetTimers, Rest, Flags
    <3>3. Queue'
      BY <2>0, <2>3, <3>1 DEF onBillAccepted, Rest, Queue, Work
    <3>4. Money'
      BY <2>3, <3>1 DEF onBillAccepted, Rest, Money
    <3> QED
      BY <1>H, <3>2, <3>3, <3>4 DEF Rest
  <2>4. CASE addDepositDetail
    <3>1. hand.bill \in Bills /\ [hand EXCEPT !.pc = "save"] \in Work /\ dep \in Deposits \cup {0}
      BY <2>4 DEF addDepositDetail, Rest, Queue, Work, IInv, Shape
    <3>2. Flags' /\ Queue'
      BY <2>4, <3>1 DEF addDepositDetail, Rest, Flags, Queue
    <3>3. Money'
      BY <2>4, <3>1 DEF addDepositDetail, Rest, Money
    <3> QED
      BY <1>H, <3>2, <3>3 DEF Rest
  <2>5. CASE saveDepositDetail
    <3>1. hand.bill \in Bills
      BY <2>5 DEF saveDepositDetail, Rest, Queue, Work
    <3>2. Flags' /\ Queue'
      BY <2>5 DEF saveDepositDetail, Rest, Flags, Queue, Work
    <3>3. Money'
      BY <2>5, <3>1 DEF saveDepositDetail, Rest, Money
    <3> QED
      BY <1>H, <3>2, <3>3 DEF Rest
  <2> QED
    BY <1>5, <2>1, <2>2, <2>3, <2>4, <2>5 DEF Dispatcher
<1> QED
  BY <1>0, <1>1, <1>2, <1>3, <1>4, <1>5 DEF Next

\* A deposit is stored at most once, whatever the threads that start drops, end
\* them and let them expire do at the same time: the mutex of CimStateDeposit and
\* its test of myDeposit are enough.
THEOREM DepositStoredOnce == Spec => []StoredOnce
<1>1. IInv => StoredOnce
  BY DEF IInv
<1> QED
  BY InitIInv, StepIInv, <1>1, PTL DEF Spec

\* The types hold, and no thread that has left the handlers of CimStateDeposit
\* still holds its mutex, which every end of a drop needs.
THEOREM SessionTypes == Spec => []TypeOK
<1>1. Init => IInv /\ Rest
  BY InitIInv, InitRest
<1>2. IInv /\ Rest /\ [Next]_vars => IInv' /\ Rest'
  BY StepIInv, StepRest
<1>3. IInv /\ Rest => TypeOK
  BY DEF IInv, Shape, Exclusive, Rest, Flags, Histories, Money, Queue, TypeOK
<1> QED
  BY <1>1, <1>2, <1>3, PTL DEF Spec

-----------------------------------------------------------------------------
(* Bills are accounted for until a drop is started across another one or     *)
(* across a call that ends one.                                              *)

\* A drop starts with nothing else going on, and no drop outlives its end.
Starting ==
    /\ \A t \in Threads : th[t].to = "Deposit" =>
         th[t].pc \in {"deactivate", "assign", "activate", "opening", "opened", "done"}
    /\ \A t \in Threads : Beginning(t) =>
         cur = "Idle" /\ dep # 0 /\ \A u \in Threads \ {t} : ~Calling(u)
    /\ dep # 0 /\ cur = "Idle" => \E t \in Threads : Beginning(t)
    /\ \A t \in Threads : th[t].pc = "assign" /\ th[t].to = "Idle" => dep = 0

\* What the thread that holds the mutex has told the validator.
Commanded ==
    \A t \in Threads :
        /\ th[t].pc \in {"closing", "ending", "clear", "reset", "null"} => want = "STOP"
        /\ th[t].pc = "opening" => want = "START"

\* A step that leaves the threads, the state and the deposit alone.
LEMMA SameStarting ==
  ASSUME Starting, UNCHANGED <<cur, dep, th>>
  PROVE  Starting'
  BY DEF Starting, Beginning, Calling

\* A thread that goes on, and changes neither the state nor the deposit.
LEMMA GoStarting ==
  ASSUME NEW t \in Threads, NEW q \in Pcs, Shape, Starting, Goto(t, q), UNCHANGED <<cur, dep>>,
         Calling(t) \/ q \in {"ready", "inactivity", "close"},
         th[t].pc \in {"deactivate", "assign"} =>
             th[t].to = "Idle" \/ q = "assign" \/ cur = "Deposit",
         th[t].to = "Deposit" =>
             q \in {"deactivate", "assign", "activate", "opening", "opened", "done"},
         th[t].to = "Deposit" /\ th[t].pc \notin {"deactivate", "assign"} =>
             q \notin {"deactivate", "assign"},
         q = "assign" /\ th[t].to = "Idle" => dep = 0
  PROVE  Starting'
<1>1. /\ th'[t].pc = q /\ th'[t].to = th[t].to
      /\ \A u \in Threads : u # t => th'[u] = th[u]
  BY Move
<1>2. th[t].to \in {"Idle", "Deposit"}
  BY DEF Shape
<1>3. \A u \in Threads : th'[u].to = "Deposit" =>
         th'[u].pc \in {"deactivate", "assign", "activate", "opening", "opened", "done"}
  BY <1>1 DEF Starting
<1>4. ASSUME NEW u \in Threads, Beginning(u)'
      PROVE  /\ Beginning(u) /\ \A v \in Threads \ {u} : ~Calling(v)'
  <2>1. Beginning(u)
    BY <1>1, <1>4 DEF Beginning
  <2>2. \A v \in Threads \ {u} : ~Calling(v)
    BY <2>1 DEF Starting
  <2> QED
    BY <1>1, <2>1, <2>2 DEF Calling
<1>5. ASSUME dep # 0, cur = "Idle" PROVE \E u \in Threads : Beginning(u)'
  <2>1. PICK u \in Threads : Beginning(u)
    BY <1>5 DEF Starting
  <2>2. CASE u # t
    BY <1>1, <2>1, <2>2 DEF Beginning
  <2>3. CASE u = t
    BY <1>1, <1>5, <2>1, <2>3 DEF Beginning
  <2> QED
    BY <2>2, <2>3
<1>6. \A u \in Threads : th'[u].pc = "assign" /\ th'[u].to = "Idle" => dep' = 0
  BY <1>1 DEF Starting
<1>7. \A u \in Threads : Beginning(u)' =>
         cur' = "Idle" /\ dep' # 0 /\ \A v \in Threads \ {u} : ~Calling(v)'
  BY <1>4 DEF Starting
<1> QED
  BY <1>3, <1>5, <1>6, <1>7 DEF Starting

LEMMA StepStarting ==
  ASSUME IInv, Rest, Starting, ~crossed', [Next]_vars
  PROVE  Starting'
<1> USE DEF timers, ses, device, val, money
<1>0. Shape /\ cur \in {"Idle", "Deposit"}
  BY DEF IInv, Rest, Flags
<1>1. CASE UNCHANGED vars
  BY <1>1, SameStarting DEF vars
<1>2. ASSUME NEW t \in Operators, startDeposit(t) PROVE Starting'
  <2>1. /\ t \in Threads /\ cur = "Idle" /\ \A u \in Threads : ~Calling(u)
        /\ dep' = used.deposits + 1 /\ used.deposits \in Nat /\ cur' = cur
        /\ th' = [th EXCEPT ![t] = [pc |-> "deactivate", to |-> "Deposit"]]
    BY <1>0, <1>2 DEF startDeposit, StartAcross, Threads, Shape, Bounded
  <2>2. /\ th'[t].pc = "deactivate" /\ th'[t].to = "Deposit"
        /\ \A u \in Threads : u # t => th'[u] = th[u]
    BY <1>0, <2>1 DEF Shape
  <2>3. \A u \in Threads : th[u].to # "Deposit"
    BY <2>1 DEF Starting, Calling
  <2>4. dep' # 0
    BY <2>1
  <2>5. \A u \in Threads \ {t} : ~Calling(u)' /\ ~Beginning(u)' /\ th'[u].pc # "assign"
    BY <2>1, <2>2, <2>3 DEF Calling, Beginning
  <2> QED
    BY <2>1, <2>2, <2>3, <2>4, <2>5 DEF Starting, Beginning
\* A call that sets Idle begins while no drop is being started.
<1>3. ASSUME NEW t \in Threads, th' = [th EXCEPT ![t] = [pc |-> "deactivate", to |-> "Idle"]],
             ~EndAcross, UNCHANGED <<cur, dep>>
      PROVE  Starting'
  <2>1. /\ th'[t].to = "Idle" /\ th'[t].pc = "deactivate"
        /\ \A u \in Threads : u # t => th'[u] = th[u]
    BY <1>0, <1>3 DEF Shape
  <2>2. \A u \in Threads : ~Beginning(u)
    BY <1>3 DEF EndAcross
  <2> QED
    BY <1>3, <2>1, <2>2 DEF Starting, Beginning
<1>9. ASSUME NEW t \in Operators, endDeposit(t) PROVE Starting'
  BY <1>3, <1>9 DEF endDeposit, Threads
<1>4. ASSUME NEW t \in Operators, needMoreTime(t) \/ dropsReport(t) PROVE Starting'
  BY <1>4, SameStarting DEF needMoreTime, dropsReport
<1>5. ASSUME NEW t \in Threads, setCurrentState(t) PROVE Starting'
  <2> USE <1>0 DEF Pcs, Held, At
  <2>0. /\ th[t].to \in {"Idle", "Deposit"}
        /\ ~(th[t].to = "Deposit" /\ th[t].pc \in
             {"closing", "ending", "clear", "reset", "null", "ready", "inactivity", "close"})
        /\ Calling(t)
    BY <1>5 DEF Shape, Starting, Calling, setCurrentState, deactivateState, closed, store, clearDeposit,
                resetDrop, forgetDeposit, assignState, activateState, openThrows, opened,
                watchInactivity, return
  <2>1. CASE deactivateState(t)
    <3>1. CASE Goto(t, "assign")
      <4>1. ASSUME th[t].to = "Idle", dep # 0 PROVE FALSE
        <5>1. th[t].pc = "deactivate" /\ cur = "Idle"
          <6>1. th'[t].pc = "assign"
            BY <3>1, Move
          <6> QED
            BY <2>1, <4>1, <6>1, Move DEF deactivateState
        <5>2. PICK u \in Threads : Beginning(u)
          BY <4>1, <5>1 DEF Starting
        <5>3. u # t
          BY <4>1, <5>2 DEF Beginning
        <5> QED
          BY <2>0, <5>2, <5>3 DEF Starting
      <4> QED
        BY <2>0, <2>1, <3>1, <4>1, GoStarting DEF deactivateState
    <3>2. CASE Goto(t, "closing") /\ cur = "Deposit"
      <4>1. th[t].to = "Idle"
        BY <2>0, <2>1, <3>2 DEF deactivateState, Starting, Beginning
      <4> QED
        BY <2>0, <2>1, <3>2, <4>1, GoStarting DEF deactivateState
    <3> QED
      BY <2>1, <3>1, <3>2 DEF deactivateState
  <2>2. CASE closed(t)
    BY <2>0, <2>2, GoStarting DEF closed
  <2>3. CASE store(t)
    BY <2>0, <2>3, GoStarting DEF store
  <2>4. CASE clearDeposit(t)
    BY <2>0, <2>4, GoStarting DEF clearDeposit
  <2>5. CASE resetDrop(t)
    BY <2>0, <2>5, GoStarting DEF resetDrop
  <2>6. CASE forgetDeposit(t)
    <3>1. Goto(t, "assign") /\ th[t].pc = "null" /\ dep' = 0 /\ UNCHANGED cur
      BY <2>6 DEF forgetDeposit
    <3>2. /\ th'[t].pc = "assign" /\ th'[t].to = "Idle"
          /\ \A u \in Threads : u # t => th'[u] = th[u]
      BY <2>0, <3>1, Move
    <3>3. \A u \in Threads : ~Beginning(u)
      BY <2>0, <3>1 DEF Starting, Beginning
    <3> QED
      BY <3>1, <3>2, <3>3 DEF Starting, Beginning
  <2>7. CASE assignState(t)
    <3>1. Goto(t, "activate") /\ th[t].pc = "assign" /\ cur' = th[t].to /\ UNCHANGED dep
      BY <2>7 DEF assignState
    <3>2. /\ th'[t].pc = "activate" /\ th'[t].to = th[t].to
          /\ \A u \in Threads : u # t => th'[u] = th[u]
      BY <3>1, Move
    <3>3. \A u \in Threads : u # t => ~Beginning(u)
      BY <2>0 DEF Starting
    <3>4. th[t].to = "Idle" => dep = 0
      BY <3>1 DEF Starting
    <3> QED
      BY <2>0, <3>1, <3>2, <3>3, <3>4 DEF Starting, Beginning
  <2>8. CASE activateState(t)
    <3>1. CASE Goto(t, "done")
      BY <2>0, <2>8, <3>1, GoStarting DEF activateState
    <3>2. CASE Goto(t, "opening")
      BY <2>0, <2>8, <3>2, GoStarting DEF activateState
    <3>3. CASE Goto(t, "opened")
      BY <2>0, <2>8, <3>3, GoStarting DEF activateState
    <3> QED
      BY <2>8, <3>1, <3>2, <3>3 DEF activateState
  <2>9. CASE opened(t)
    BY <2>0, <2>9, GoStarting DEF opened
  <2>10. CASE watchInactivity(t)
    BY <2>0, <2>10, GoStarting DEF watchInactivity
  <2>11. CASE return(t) \/ openThrows(t)
    <3>1. th' = [th EXCEPT ![t] = [pc |-> "ready", to |-> "Idle"]] /\ th[t].pc \in {"done", "activate"}
          /\ UNCHANGED <<cur, dep>>
      BY <2>11 DEF return, openThrows
    <3>2. /\ th'[t].pc = "ready" /\ th'[t].to = "Idle"
          /\ \A u \in Threads : u # t => th'[u] = th[u]
      BY <3>1 DEF Shape
    <3>3. \A u \in Threads : ~Beginning(u)
      BY <2>0, <3>1 DEF Starting, Beginning
    <3> QED
      BY <3>1, <3>2, <3>3 DEF Starting, Beginning
  <2> QED
    BY <1>5, <2>1, <2>2, <2>3, <2>4, <2>5, <2>6, <2>7, <2>8, <2>9, <2>10, <2>11 DEF setCurrentState
<1>6. CASE TimerThread
  <2> USE <1>0 DEF Pcs, Held, At, Threads
  <2>0. th["timer"].to \in {"Idle", "Deposit"} /\ ~(th["timer"].to = "Deposit" /\ th["timer"].pc \in
          {"closing", "ending", "clear", "reset", "null", "ready", "inactivity", "close"})
    BY DEF Shape, Starting
  <2>1. CASE expireInactivity
    BY <2>0, <2>1, GoStarting DEF expireInactivity
  <2>2. CASE expireClose
    BY <2>0, <2>2, GoStarting DEF expireClose
  <2>3. CASE inactivityTimerHandler
    <3>1. CASE Goto("timer", "ready")
      BY <2>0, <2>3, <3>1, GoStarting DEF inactivityTimerHandler
    <3>2. CASE th' = [th EXCEPT !["timer"] = [pc |-> "deactivate", to |-> "Idle"]] /\ ~EndAcross
      BY <1>3, <2>3, <3>2 DEF inactivityTimerHandler
    <3> QED
      BY <2>3, <3>1, <3>2 DEF inactivityTimerHandler
  <2>4. CASE closeTimerHandler
    BY <1>3, <2>4 DEF closeTimerHandler
  <2> QED
    BY <1>6, <2>1, <2>2, <2>3, <2>4 DEF TimerThread
<1>7. CASE Obey \/ Insert \/ Fail
  BY <1>7, SameStarting DEF Obey, Insert, Fail
<1>8. CASE Dispatcher
  BY <1>8, SameStarting DEF Dispatcher, statusChange, stackerSensorStatusChange, onBillRejected,
                            onBillAccepted, addDepositDetail, saveDepositDetail
<1> QED
  BY <1>1, <1>2, <1>4, <1>5, <1>6, <1>7, <1>8, <1>9 DEF Next, Operator

\* Outside the mutex nothing is sent to the validator.
LEMMA GoCommanded ==
  ASSUME NEW t \in Threads, NEW q \in Pcs, Shape, Commanded, Goto(t, q), want' = want,
         q \in {"closing", "ending", "clear", "reset", "null"} =>
             th[t].pc \in {"closing", "ending", "clear", "reset", "null"},
         q # "opening"
  PROVE  Commanded'
<1>1. th'[t].pc = q /\ \A u \in Threads : u # t => th'[u] = th[u]
  BY Move
<1> QED
  BY <1>1 DEF Commanded

LEMMA StepCommanded ==
  ASSUME IInv, Commanded, [Next]_vars
  PROVE  Commanded'
<1> USE DEF timers, ses, device, val, money
<1>0. Shape
  BY DEF IInv
<1>1. CASE UNCHANGED vars
  BY <1>1 DEF vars, Commanded
<1>2. ASSUME NEW t \in Operators, Operator(t) PROVE Commanded'
  <2>1. /\ want' = want
        /\ \/ th' = th
           \/ th' = [th EXCEPT ![t] = [pc |-> "deactivate", to |-> "Deposit"]]
           \/ th' = [th EXCEPT ![t] = [pc |-> "deactivate", to |-> "Idle"]]
    BY <1>2 DEF Operator, startDeposit, endDeposit, needMoreTime, dropsReport
  <2>2. \A u \in Threads : th'[u] = th[u] \/ th'[u].pc = "deactivate"
    BY <1>0, <2>1 DEF Shape, Threads
  <2> QED
    BY <2>1, <2>2 DEF Commanded
<1>3. ASSUME NEW t \in Threads, setCurrentState(t) PROVE Commanded'
  <2> USE <1>0 DEF Pcs, Held, At
  <2>0. ASSUME mutex = "nobody",
               \/ Goto(t, "closing") /\ want' = "STOP"
               \/ Goto(t, "opening") /\ want' = "START"
        PROVE  Commanded'
    <3>1. /\ \/ th'[t].pc = "closing" /\ want' = "STOP"
             \/ th'[t].pc = "opening" /\ want' = "START"
          /\ \A u \in Threads : u # t => th'[u] = th[u]
      BY <2>0, Move
    <3>2. \A u \in Threads : th[u].pc \notin Held
      BY <2>0, SessionAssumption DEF IInv, Exclusive, Threads
    <3> QED
      BY <2>0, <3>1, <3>2 DEF Commanded
  <2>1. CASE deactivateState(t)
    <3>1. CASE Goto(t, "assign") /\ want' = want
      BY <2>1, <3>1, GoCommanded
    <3>2. CASE Goto(t, "closing") /\ want' = "STOP" /\ mutex = "nobody"
      BY <2>0, <3>2
    <3> QED
      BY <2>1, <3>1, <3>2 DEF deactivateState
  <2>2. CASE closed(t)
    BY <2>2, GoCommanded DEF closed
  <2>3. CASE store(t)
    BY <2>3, GoCommanded DEF store
  <2>4. CASE clearDeposit(t)
    BY <2>4, GoCommanded DEF clearDeposit
  <2>5. CASE resetDrop(t)
    BY <2>5, GoCommanded DEF resetDrop
  <2>6. CASE forgetDeposit(t)
    BY <2>6, GoCommanded DEF forgetDeposit
  <2>7. CASE assignState(t)
    BY <2>7, GoCommanded DEF assignState
  <2>8. CASE activateState(t)
    <3>1. CASE (Goto(t, "done") \/ Goto(t, "opened")) /\ want' = want
      BY <3>1, GoCommanded
    <3>2. CASE Goto(t, "opening") /\ want' = "START" /\ mutex = "nobody"
      BY <2>0, <3>2
    <3> QED
      BY <2>8, <3>1, <3>2 DEF activateState
  <2>9. CASE opened(t)
    BY <2>9, GoCommanded DEF opened
  <2>10. CASE watchInactivity(t)
    BY <2>10, GoCommanded DEF watchInactivity
  <2>11. CASE return(t) \/ openThrows(t)
    <3>1. \A u \in Threads : th'[u] = th[u] \/ th'[u].pc = "ready"
      BY <2>11 DEF return, openThrows, Shape
    <3>2. want' = want
      BY <2>11 DEF return, openThrows
    <3> QED
      BY <3>1, <3>2 DEF Commanded
  <2> QED
    BY <1>3, <2>1, <2>2, <2>3, <2>4, <2>5, <2>6, <2>7, <2>8, <2>9, <2>10, <2>11 DEF setCurrentState
<1>4. CASE TimerThread
  <2>1. /\ want' = want
        /\ \A u \in Threads : th'[u] = th[u] \/
             th'[u].pc \in {"inactivity", "close", "ready", "deactivate"}
    BY <1>0, <1>4 DEF TimerThread, expireInactivity, expireClose, inactivityTimerHandler,
                      closeTimerHandler, Goto, Shape
  <2> QED
    BY <2>1 DEF Commanded
<1>5. CASE Obey \/ Insert \/ Fail \/ Dispatcher
  <2>1. UNCHANGED <<want, th>>
    BY <1>5 DEF Obey, Insert, Fail, Dispatcher, statusChange, stackerSensorStatusChange, onBillRejected,
                onBillAccepted, addDepositDetail, saveDepositDetail
  <2> QED
    BY <2>1 DEF Commanded
<1> QED
  BY <1>1, <1>2, <1>3, <1>4, <1>5 DEF Next

-----------------------------------------------------------------------------
\* The starts and stops the validator has reported and the dispatcher has not
\* taken: at most one, and the bills are on the right side of it.
Switches(q) == {i \in 1 .. Len(q) : q[i].kind \in {"START", "STOP"}}
Ordered(q, a, h) ==
    /\ \A i \in Switches(q) : q[i].kind = h /\ a # h
    /\ \A i, j \in Switches(q) : i = j
    /\ a # h => Switches(q) # {}
    /\ \A i \in 1 .. Len(q) : q[i].kind = "ACCEPTED" =>
         \/ a = "START" /\ \A j \in Switches(q) : i < j
         \/ h = "START" /\ (a = "START" \/ \E j \in Switches(q) : j < i)

LEMMA SwitchesAppend ==
  ASSUME NEW q \in Seq(Event), NEW e \in Event
  PROVE  /\ Append(q, e) \in Seq(Event) /\ Len(Append(q, e)) = Len(q) + 1 /\ Len(q) \in Nat
         /\ \A i \in 1 .. Len(q) : Append(q, e)[i] = q[i]
         /\ Append(q, e)[Len(q) + 1] = e
         /\ Switches(Append(q, e)) =
              IF e.kind \in {"START", "STOP"} THEN Switches(q) \cup {Len(q) + 1} ELSE Switches(q)
<1>1. /\ Append(q, e) \in Seq(Event) /\ Len(Append(q, e)) = Len(q) + 1
      /\ \A i \in 1 .. Len(q) : Append(q, e)[i] = q[i]
      /\ Append(q, e)[Len(q) + 1] = e
  BY AppendProperties
<1>2. Len(q) \in Nat
  BY LenProperties
<1>3. \A i : i \in 1 .. Len(q) + 1 <=> i \in 1 .. Len(q) \/ i = Len(q) + 1
  BY <1>2
<1>4. \A i : i \in Switches(Append(q, e)) <=>
        i \in Switches(q) \/ (i = Len(q) + 1 /\ e.kind \in {"START", "STOP"})
  BY <1>1, <1>2, <1>3 DEF Switches
<1> QED
  BY <1>1, <1>2, <1>4

\* A bill or any other report that is no switch goes to the end.
LEMMA OrderedPut ==
  ASSUME NEW q \in Seq(Event), NEW e \in Event, NEW a, NEW h, Ordered(q, a, h),
         e.kind \notin {"START", "STOP"}, e.kind = "ACCEPTED" => h = "START"
  PROVE  Ordered(Append(q, e), a, h)
<1> DEFINE r == Append(q, e)
<1>1. /\ Len(r) = Len(q) + 1 /\ Len(q) \in Nat /\ Switches(r) = Switches(q)
      /\ \A i \in 1 .. Len(q) : r[i] = q[i]
      /\ r[Len(q) + 1] = e
  BY SwitchesAppend
<1> HIDE DEF r
<1>2. \A i \in Switches(q) : i \in 1 .. Len(q)
  BY DEF Switches
<1>3. \A i \in Switches(r) : r[i].kind = h /\ a # h
  BY <1>1, <1>2 DEF Ordered
<1>4. (\A i, j \in Switches(r) : i = j) /\ (a # h => Switches(r) # {})
  BY <1>1 DEF Ordered
<1>5. ASSUME NEW i \in 1 .. Len(r), r[i].kind = "ACCEPTED"
      PROVE  \/ a = "START" /\ \A j \in Switches(r) : i < j
             \/ h = "START" /\ (a = "START" \/ \E j \in Switches(r) : j < i)
  <2>1. CASE i \in 1 .. Len(q)
    BY <1>1, <1>5, <2>1 DEF Ordered
  <2>2. CASE i = Len(q) + 1
    <3>1. h = "START"
      BY <1>1, <1>5, <2>2
    <3>2. a # "START" => \E j \in Switches(r) : j < i
      BY <1>1, <1>2, <2>2, <3>1 DEF Ordered
    <3> QED
      BY <3>1, <3>2
  <2>3. i \in 1 .. Len(q) \/ i = Len(q) + 1
    BY <1>1
  <2> QED
    BY <2>1, <2>2, <2>3
<1> QED
  BY <1>3, <1>4, <1>5 DEF Ordered, r

\* The validator switches, once the last switch has been taken.
LEMMA OrderedSwitch ==
  ASSUME NEW q \in Seq(Event), NEW e \in Event, NEW a \in {"START", "STOP"},
         Ordered(q, a, a), e.kind \in {"START", "STOP"}, e.kind # a
  PROVE  Ordered(Append(q, e), a, e.kind)
<1> DEFINE r == Append(q, e)
<1>0. Switches(q) = {}
  BY DEF Ordered
<1>1. /\ Len(r) = Len(q) + 1 /\ Len(q) \in Nat /\ Switches(r) = {Len(q) + 1}
      /\ \A i \in 1 .. Len(q) : r[i] = q[i]
      /\ r[Len(q) + 1] = e
  BY <1>0, SwitchesAppend
<1> HIDE DEF r
<1>2. \A i \in 1 .. Len(r) : r[i].kind = "ACCEPTED" => a = "START" /\ i < Len(q) + 1
  <2> SUFFICES ASSUME NEW i \in 1 .. Len(r), r[i].kind = "ACCEPTED"
               PROVE  a = "START" /\ i < Len(q) + 1
    OBVIOUS
  <2>1. i # Len(q) + 1
    BY <1>1
  <2>2. i \in 1 .. Len(q)
    BY <1>1, <2>1
  <2> QED
    BY <1>1, <2>2 DEF Ordered
<1> QED
  BY <1>1, <1>2 DEF Ordered, r

\* The dispatcher takes the first report.
LEMMA OrderedTake ==
  ASSUME NEW q \in Seq(Event), q # <<>>, NEW a \in {"START", "STOP"}, NEW h \in {"START", "STOP"},
         Ordered(q, a, h)
  PROVE  /\ Head(q).kind \in {"START", "STOP"} => Head(q).kind = h /\ Ordered(Tail(q), h, h)
         /\ Head(q).kind \notin {"START", "STOP"} => Ordered(Tail(q), a, h)
         /\ Head(q).kind = "ACCEPTED" => a = "START"
<1>1. /\ Len(q) \in Nat \ {0} /\ Head(q) = q[1] /\ Len(Tail(q)) = Len(q) - 1
      /\ \A i \in 1 .. Len(q) - 1 : Tail(q)[i] = q[i + 1]
  BY EmptySeq, HeadTailProperties
<1>2. \A i : i \in Switches(Tail(q)) <=> i \in 1 .. Len(q) - 1 /\ i + 1 \in Switches(q)
  BY <1>1 DEF Switches
<1>3. 1 \in 1 .. Len(q) /\ \A i \in Switches(q) : i \in 1 .. Len(q)
  BY <1>1 DEF Switches
<1>4. ASSUME Head(q).kind \in {"START", "STOP"}
      PROVE  Head(q).kind = h /\ Ordered(Tail(q), h, h)
  <2>1. 1 \in Switches(q) /\ q[1].kind = h /\ a # h
    BY <1>1, <1>3, <1>4 DEF Switches, Ordered
  <2>2. \A j \in Switches(q) : j = 1
    BY <2>1 DEF Ordered
  <2>3. Switches(Tail(q)) = {}
    BY <1>1, <1>2, <2>2
  <2>4. ASSUME NEW i \in 1 .. Len(Tail(q)), Tail(q)[i].kind = "ACCEPTED" PROVE h = "START"
    <3>1. i + 1 \in 1 .. Len(q) /\ q[i + 1].kind = "ACCEPTED" /\ ~(i + 1 < 1)
      BY <1>1, <2>4
    <3> QED
      BY <2>1, <3>1 DEF Ordered
  <2> QED
    BY <1>1, <2>1, <2>3, <2>4 DEF Ordered
<1>5. ASSUME Head(q).kind \notin {"START", "STOP"}
      PROVE  Ordered(Tail(q), a, h)
  <2>1. 1 \notin Switches(q)
    BY <1>1, <1>5 DEF Switches
  <2>2. \A j \in Switches(q) : j - 1 \in Switches(Tail(q)) /\ (j - 1) + 1 = j
    BY <1>1, <1>2, <1>3, <2>1
  <2>3. \A i \in Switches(Tail(q)) : Tail(q)[i].kind = h /\ a # h
    BY <1>1, <1>2 DEF Ordered
  <2>4. \A i, j \in Switches(Tail(q)) : i = j
    <3> SUFFICES ASSUME NEW i \in Switches(Tail(q)), NEW j \in Switches(Tail(q)) PROVE i = j
      OBVIOUS
    <3>1. i + 1 = j + 1
      BY <1>2 DEF Ordered
    <3> QED
      BY <1>1, <1>2, <3>1
  <2>5. a # h => Switches(Tail(q)) # {}
    BY <2>2 DEF Ordered
  <2>6. ASSUME NEW i \in 1 .. Len(Tail(q)), Tail(q)[i].kind = "ACCEPTED"
        PROVE  \/ a = "START" /\ \A j \in Switches(Tail(q)) : i < j
               \/ h = "START" /\ (a = "START" \/ \E j \in Switches(Tail(q)) : j < i)
    <3>1. i + 1 \in 1 .. Len(q) /\ q[i + 1].kind = "ACCEPTED"
      BY <1>1, <2>6
    <3>2. CASE a = "START" /\ \A j \in Switches(q) : i + 1 < j
      BY <1>1, <1>2, <3>2
    <3>3. CASE h = "START" /\ a = "START"
      BY <3>3
    <3>4. CASE h = "START" /\ \E j \in Switches(q) : j < i + 1
      <4>1. PICK j \in Switches(q) : j < i + 1
        BY <3>4
      <4>2. j - 1 < i
        BY <1>1, <1>3, <4>1
      <4> QED
        BY <2>2, <3>4, <4>1, <4>2
    <3> QED
      BY <3>1, <3>2, <3>3, <3>4 DEF Ordered
  <2> QED
    BY <2>3, <2>4, <2>5, <2>6 DEF Ordered
<1>6. ASSUME Head(q).kind = "ACCEPTED" PROVE a = "START"
  <2>1. \A j \in Switches(q) : ~(j < 1)
    BY <1>3, <1>1
  <2> QED
    BY <1>1, <1>3, <1>6, <2>1 DEF Ordered
<1> QED
  BY <1>4, <1>5, <1>6

-----------------------------------------------------------------------------
\* Unless a wait ended on an error, the validator does what it was last told,
\* but for the drop that waits for it, and takes bills only for a deposit.
Settled ==
    /\ (\A t \in Threads : th[t].pc \notin {"opening", "closing"}) => acc = hw /\ hw = want
    /\ acc # hw => hw = want
    /\ "START" \in {acc, hw, want} => dep # 0 /\ cur = "Deposit"
    /\ Ordered(events, acc, hw)

\* The end of a drop goes on once the validator has stopped.
LEMMA Stopped ==
  ASSUME IInv, Commanded, Settled, NEW t \in Threads,
         th[t].pc \in {"ending", "clear", "reset", "null"}
  PROVE  acc = "STOP" /\ hw = "STOP" /\ want = "STOP"
<1>1. \A u \in Threads : u # t => th[u].pc \notin Held
  BY DEF IInv, Exclusive, Held
<1>2. \A u \in Threads : th[u].pc \notin {"opening", "closing"}
  BY <1>1 DEF Held
<1> QED
  BY <1>2 DEF Settled, Commanded

\* A step of a thread that neither tells the validator nor waits for it.
LEMMA KeepSettled ==
  ASSUME Settled, UNCHANGED <<acc, hw, want, events>>,
         \/ \A u \in Threads : th[u].pc \in {"opening", "closing"} =>
                               th'[u].pc \in {"opening", "closing"}
         \/ acc = hw /\ hw = want,
         "START" \in {acc, hw, want} => dep' # 0 /\ cur' = "Deposit"
  PROVE  Settled'
  BY DEF Settled

LEMMA GoSettled ==
  ASSUME Settled, NEW t \in Threads, NEW q \in Pcs, Shape, Goto(t, q),
         UNCHANGED <<acc, hw, want, events, cur, dep>>,
         th[t].pc \in {"opening", "closing"} => acc = hw /\ hw = want
  PROVE  Settled'
<1>1. \A u \in Threads : u # t => th'[u] = th[u]
  BY Move
<1>2. "START" \in {acc, hw, want} => dep' # 0 /\ cur' = "Deposit"
  BY DEF Settled
<1> QED
  BY <1>1, <1>2, KeepSettled

\* Nobody waits for the validator while the mutex is free.
LEMMA FreeSettled ==
  ASSUME IInv, Settled, mutex = "nobody"
  PROVE  acc = hw /\ hw = want
<1>1. \A u \in Threads : th[u].pc \notin Held
  BY SessionAssumption DEF IInv, Exclusive, Threads
<1> QED
  BY <1>1 DEF Settled, Held

LEMMA ThreadSettled ==
  ASSUME IInv, Rest, Starting, Commanded, Settled, ~early', NEW t \in Threads, setCurrentState(t)
  PROVE  Settled'
<1> USE DEF timers, ses, device, val, money, Pcs, Held, At
<1>0. Shape
  BY DEF IInv
<1>1. CASE deactivateState(t)
  <2>1. CASE Goto(t, "assign") /\ UNCHANGED want
    BY <1>0, <1>1, <2>1, GoSettled DEF deactivateState
  <2>2. CASE Goto(t, "closing") /\ want' = "STOP" /\ mutex = "nobody" /\ dep # 0 /\ cur = "Deposit"
    <3>1. acc = hw /\ UNCHANGED <<acc, hw, events, dep, cur>>
      BY <1>1, <2>2, FreeSettled DEF deactivateState
    <3>2. th'[t].pc = "closing"
      BY <1>0, <2>2, Move
    <3> QED
      BY <2>2, <3>1, <3>2 DEF Settled
  <2> QED
    BY <1>1, <2>1, <2>2 DEF deactivateState
<1>2. CASE closed(t)
  <2>1. Goto(t, "ending") /\ th[t].pc = "closing" /\ UNCHANGED <<acc, hw, want, events, cur, dep>>
    BY <1>2 DEF closed
  <2>2. acc = "STOP" /\ want = "STOP"
    BY <1>2, <2>1 DEF closed, Commanded, Rest, Flags
  <2>3. acc = hw /\ hw = want
    BY <2>2 DEF Settled
  <2> QED
    BY <1>0, <2>1, <2>3, GoSettled
<1>3. CASE store(t)
  <2>1. (Goto(t, "clear") \/ Goto(t, "reset")) /\ th[t].pc = "ending"
        /\ UNCHANGED <<acc, hw, want, events, cur, dep>>
    BY <1>3 DEF store
  <2> QED
    BY <1>0, <2>1, GoSettled
<1>4. CASE clearDeposit(t)
  BY <1>0, <1>4, GoSettled DEF clearDeposit
<1>5. CASE resetDrop(t)
  BY <1>0, <1>5, GoSettled DEF resetDrop
<1>6. CASE forgetDeposit(t)
  <2>1. th[t].pc = "null" /\ UNCHANGED <<acc, hw, want, events>>
    BY <1>6 DEF forgetDeposit
  <2> QED
    BY <2>1, Stopped, KeepSettled
<1>7. CASE assignState(t)
  <2>1. Goto(t, "activate") /\ th[t].pc = "assign" /\ cur' = th[t].to
        /\ UNCHANGED <<acc, hw, want, events, dep>>
    BY <1>7 DEF assignState
  <2>2. th[t].to \in {"Idle", "Deposit"} /\ \A u \in Threads : u # t => th'[u] = th[u]
    BY <1>0, <2>1, Move DEF Shape
  <2>3. "START" \in {acc, hw, want} => dep' # 0 /\ cur' = "Deposit"
    BY <2>1, <2>2 DEF Settled, Starting
  <2> QED
    BY <2>1, <2>2, <2>3, KeepSettled
<1>8. CASE activateState(t)
  <2>1. CASE (Goto(t, "done") \/ Goto(t, "opened")) /\ UNCHANGED want
    <3>1. th[t].pc = "activate" /\ UNCHANGED <<acc, hw, events, cur, dep>>
      BY <1>8 DEF activateState
    <3> QED
      BY <1>0, <2>1, <3>1, GoSettled
  <2>2. CASE Goto(t, "opening") /\ want' = "START" /\ mutex = "nobody" /\ dep # 0 /\ cur = "Deposit"
    <3>1. acc = hw /\ UNCHANGED <<acc, hw, events, dep, cur>>
      BY <1>8, <2>2, FreeSettled DEF activateState
    <3>2. th'[t].pc = "opening"
      BY <1>0, <2>2, Move
    <3> QED
      BY <2>2, <3>1, <3>2 DEF Settled
  <2> QED
    BY <1>8, <2>1, <2>2 DEF activateState
<1>9. CASE opened(t)
  <2>1. Goto(t, "opened") /\ th[t].pc = "opening" /\ UNCHANGED <<acc, hw, want, events, cur, dep>>
    BY <1>9 DEF opened
  <2>2. acc = "START" /\ want = "START"
    BY <1>9, <2>1 DEF opened, Commanded, Rest, Flags
  <2>3. acc = hw /\ hw = want
    BY <2>2 DEF Settled
  <2> QED
    BY <1>0, <2>1, <2>3, GoSettled
<1>10. CASE watchInactivity(t)
  BY <1>0, <1>10, GoSettled DEF watchInactivity
<1>11. CASE return(t) \/ openThrows(t)
  <2>1. /\ th[t].pc \in {"done", "activate"} /\ UNCHANGED <<acc, hw, want, events, cur, dep>>
        /\ \A u \in Threads : u # t => th'[u] = th[u]
    BY <1>0, <1>11 DEF return, openThrows, Shape
  <2>2. "START" \in {acc, hw, want} => dep' # 0 /\ cur' = "Deposit"
    BY <2>1 DEF Settled
  <2> QED
    BY <2>1, <2>2, KeepSettled
<1> QED
  BY <1>1, <1>2, <1>3, <1>4, <1>5, <1>6, <1>7, <1>8, <1>9, <1>10, <1>11 DEF setCurrentState

LEMMA StepSettled ==
  ASSUME IInv, Rest, Starting, Commanded, Settled, ~early', [Next]_vars
  PROVE  Settled'
<1> USE DEF timers, ses, device, val, money
<1>0. Shape /\ Flags /\ events \in Seq(Event)
  BY DEF IInv, Rest, Queue
<1>1. CASE UNCHANGED vars
  BY <1>1, KeepSettled DEF vars, Settled
<1>2. ASSUME NEW t \in Operators, Operator(t) PROVE Settled'
  <2>1. UNCHANGED <<acc, hw, want, events, cur>> /\ (dep' = dep \/ startDeposit(t))
    BY <1>2 DEF Operator, startDeposit, endDeposit, needMoreTime, dropsReport
  <2>2. startDeposit(t) => dep' # 0
    BY <1>0 DEF startDeposit, Shape, Bounded
  <2>3. \A u \in Threads : th'[u] = th[u] \/ th[u].pc = "ready"
    BY <1>0, <1>2 DEF Operator, startDeposit, endDeposit, needMoreTime, dropsReport, At, Shape, Threads
  <2>4. "START" \in {acc, hw, want} => dep' # 0 /\ cur' = "Deposit"
    BY <2>1, <2>2 DEF Settled
  <2> QED
    BY <2>1, <2>3, <2>4, KeepSettled
<1>3. ASSUME NEW t \in Threads, setCurrentState(t) PROVE Settled'
  BY <1>3, ThreadSettled
<1>4. CASE TimerThread
  <2>1. /\ UNCHANGED <<acc, hw, want, events, cur, dep>>
        /\ \A u \in Threads : th'[u] = th[u] \/ th[u].pc \in {"ready", "inactivity", "close"}
    BY <1>0, <1>4 DEF TimerThread, expireInactivity, expireClose, inactivityTimerHandler,
                      closeTimerHandler, Goto, At, Shape
  <2>2. "START" \in {acc, hw, want} => dep' # 0 /\ cur' = "Deposit"
    BY <2>1 DEF Settled
  <2> QED
    BY <2>1, <2>2, KeepSettled
<1>5. CASE Obey
  <2>1. /\ hw # want /\ hw' = want /\ UNCHANGED <<acc, want, th, dep, cur>>
        /\ events' = Append(events, Signal(want))
    BY <1>5 DEF Obey
  <2>2. acc = hw /\ Ordered(events, acc, acc)
    BY <2>1 DEF Settled
  <2>3. Signal(want) \in Event /\ Signal(want).kind = want
    BY <1>0 DEF Signal, Event, Flags
  <2>4. Ordered(events', acc', hw')
    BY <1>0, <2>1, <2>2, <2>3, OrderedSwitch DEF Flags
  <2> QED
    BY <2>1, <2>2, <2>4 DEF Settled
<1>6. CASE Insert \/ Fail
  <2>1. UNCHANGED <<acc, hw, want, th, dep, cur>>
    BY <1>6 DEF Insert, Fail
  <2>2. PICK e \in Event : /\ events' = Append(events, e) /\ e.kind \notin {"START", "STOP"}
                           /\ e.kind = "ACCEPTED" => hw = "START"
    <3>1. \A k \in {"ERROR", "OK", "OUT", "IN", "REJECTED"} : Signal(k) \in Event /\ Signal(k).kind = k
      BY DEF Signal, Event
    <3>2. used.bills < MaxBills =>
            Stacked(used.bills + 1) \in Event /\ Stacked(used.bills + 1).kind = "ACCEPTED"
      BY <1>0, SessionAssumption DEF Shape, Bounded, Stacked, Event, Bills
    <3>3. CASE Insert
      BY <3>1, <3>2, <3>3 DEF Insert, Use
    <3>4. CASE Fail
      BY <3>1, <3>4 DEF Fail
    <3> QED
      BY <1>6, <3>3, <3>4
  <2>3. Ordered(events', acc', hw')
    BY <1>0, <2>1, <2>2, OrderedPut DEF Settled
  <2> QED
    BY <2>1, <2>3 DEF Settled
<1>7. CASE Dispatcher
  <2>1. UNCHANGED <<hw, want, th, dep, cur>>
    BY <1>7 DEF Dispatcher, statusChange, stackerSensorStatusChange, onBillRejected, onBillAccepted, addDepositDetail,
                saveDepositDetail
  <2>2. CASE Take
    <3>0. acc \in {"START", "STOP"} /\ hw \in {"START", "STOP"} /\ events # <<>> /\ events' = Tail(events)
      BY <1>0, <2>2 DEF Flags, Take
    <3>1. /\ Head(events).kind \in {"START", "STOP"} =>
               Head(events).kind = hw /\ Ordered(Tail(events), hw, hw)
          /\ Head(events).kind \notin {"START", "STOP"} => Ordered(Tail(events), acc, hw)
      BY <1>0, <3>0, OrderedTake DEF Settled
    <3>2. CASE Head(events).kind \in {"START", "STOP"}
      <4>1. acc' = hw
        BY <1>7, <2>2, <3>1, <3>2 DEF Dispatcher, statusChange, stackerSensorStatusChange, onBillRejected, onBillAccepted,
                    addDepositDetail, saveDepositDetail, Take
      <4> QED
        BY <2>1, <3>0, <3>1, <3>2, <4>1 DEF Settled
    <3>3. CASE Head(events).kind \notin {"START", "STOP"}
      <4>1. acc' = acc
        BY <1>7, <3>3 DEF Dispatcher, statusChange, stackerSensorStatusChange, onBillRejected, onBillAccepted,
                    addDepositDetail, saveDepositDetail
      <4> QED
        BY <2>1, <3>0, <3>1, <3>3, <4>1 DEF Settled
    <3> QED
      BY <3>2, <3>3
  <2>3. CASE ~Take
    <3>1. UNCHANGED <<acc, events>>
      BY <1>7, <2>3 DEF Dispatcher, statusChange, stackerSensorStatusChange, onBillRejected, onBillAccepted, addDepositDetail,
                saveDepositDetail
    <3> QED
      BY <2>1, <3>1, KeepSettled DEF Settled
  <2> QED
    BY <2>2, <2>3
<1> QED
  BY <1>1, <1>2, <1>3, <1>4, <1>5, <1>6, <1>7 DEF Next

-----------------------------------------------------------------------------
\* The bills of the drop in progress.
Current == IF dep = 0 THEN {} ELSE mem[dep]

\* A bill the dispatcher handles is safe, and what a drop leaves is stored.
Kept ==
    /\ hand.pc # "idle" => acc = "START"
    /\ hand.pc = "save" => hand.bill \in Current
    /\ \A t \in Threads : th[t].pc \in {"clear", "reset", "null"} => Current \subseteq booked
    /\ temp \subseteq Current
    /\ \A t \in Threads : th[t].pc \in {"reset", "null"} => temp = {}

Accounted == \A b \in 1 .. used.bills : b \in Queued \cup {hand.bill} \cup booked \cup Current

LEMMA QueuedPut ==
  ASSUME events \in Seq(Event), NEW e \in Event, events' = Append(events, e)
  PROVE  Queued' = Queued \cup {e.bill}
<1>1. /\ Len(events') = Len(events) + 1 /\ Len(events) \in Nat
      /\ \A i \in 1 .. Len(events) : events'[i] = events[i]
      /\ events'[Len(events) + 1] = e
  BY SwitchesAppend
<1>2. \A i : i \in 1 .. Len(events) + 1 <=> i \in 1 .. Len(events) \/ i = Len(events) + 1
  BY <1>1
<1> QED
  BY <1>1, <1>2 DEF Queued

LEMMA QueuedTake ==
  ASSUME events \in Seq(Event), Take
  PROVE  Queued \subseteq Queued' \cup {Head(events).bill}
<1>1. /\ Len(events) \in Nat \ {0} /\ Head(events) = events[1] /\ Len(events') = Len(events) - 1
      /\ \A i \in 1 .. Len(events) - 1 : events'[i] = events[i + 1]
  BY EmptySeq, HeadTailProperties DEF Take
<1>2. ASSUME NEW i \in 1 .. Len(events)
      PROVE  events[i].bill \in Queued' \cup {Head(events).bill}
  <2>1. CASE i = 1
    BY <1>1, <2>1
  <2>2. CASE i # 1
    <3>1. i - 1 \in 1 .. Len(events') /\ events'[i - 1] = events[i]
      BY <1>1, <2>2
    <3> QED
      BY <3>1 DEF Queued
  <2> QED
    BY <2>1, <2>2
<1> QED
  BY <1>2 DEF Queued

\* A step that leaves the dispatcher and the drop in progress alone.
LEMMA SameKept ==
  ASSUME Kept, Accounted, UNCHANGED <<acc, hand, events, dep, mem>>, used'.bills = used.bills,
         booked \subseteq booked', temp' \subseteq temp,
         \A u \in Threads : th'[u].pc \in {"clear", "reset", "null"} => Current \subseteq booked',
         \A u \in Threads : th'[u].pc \in {"reset", "null"} => temp' = {}
  PROVE  Kept' /\ Accounted'
<1>1. Current' = Current /\ Queued' = Queued
  BY DEF Current, Queued
<1>2. Kept'
  BY <1>1 DEF Kept
<1> QED
  BY <1>1, <1>2 DEF Accounted

\* The same, of a thread that does not end a drop.
LEMMA GoKept ==
  ASSUME Kept, Accounted, NEW t \in Threads, NEW q \in Pcs \ {"clear", "reset", "null"}, Shape,
         Goto(t, q), UNCHANGED <<acc, hand, events, dep, mem, booked, temp>>,
         used'.bills = used.bills
  PROVE  Kept' /\ Accounted'
<1>1. th'[t].pc = q /\ \A u \in Threads : u # t => th'[u] = th[u]
  BY Move
<1>2. \A u \in Threads : th'[u].pc \in {"clear", "reset", "null"} => Current \subseteq booked'
  BY <1>1 DEF Kept
<1>3. \A u \in Threads : th'[u].pc \in {"reset", "null"} => temp' = {}
  BY <1>1 DEF Kept
<1> QED
  BY <1>2, <1>3, SameKept

LEMMA ThreadKept ==
  ASSUME IInv, Commanded, Settled, Kept, Accounted, NEW t \in Threads, setCurrentState(t)
  PROVE  Kept' /\ Accounted'
<1> USE DEF timers, ses, device, val, money, Pcs, Held, At
<1>0. Shape
  BY DEF IInv
<1>1. CASE deactivateState(t)
  <2>1. Goto(t, "assign") \/ Goto(t, "closing")
    BY <1>1 DEF deactivateState
  <2> QED
    BY <1>0, <1>1, <2>1, GoKept DEF deactivateState
<1>2. CASE closed(t)
  BY <1>0, <1>2, GoKept DEF closed
<1>3. CASE store(t)
  <2>0. UNCHANGED <<acc, hand, events, dep, mem, temp, used>>
    BY <1>3 DEF store
  <2>1. CASE dep # 0 /\ booked' = booked \cup mem[dep] /\ Goto(t, "clear")
    <3>1. th'[t].pc = "clear" /\ \A u \in Threads : u # t => th'[u] = th[u]
      BY <1>0, <2>1, Move
    <3>2. Current \subseteq booked'
      BY <2>1 DEF Current
    <3>3. \A u \in Threads : th'[u].pc \in {"reset", "null"} => temp' = {}
      BY <2>0, <3>1 DEF Kept
    <3> QED
      BY <2>0, <2>1, <3>2, <3>3, SameKept
  <2>2. CASE (dep # 0 => mem[dep] = {}) /\ UNCHANGED booked
    <3>1. Current = {} /\ temp' = {}
      BY <2>0, <2>2 DEF Current, Kept
    <3> QED
      BY <2>0, <2>2, <3>1, SameKept
  <2> QED
    BY <1>3, <2>1, <2>2 DEF store
<1>4. CASE clearDeposit(t)
  <2>1. /\ th[t].pc = "clear" /\ Goto(t, "reset") /\ temp' = {}
        /\ UNCHANGED <<acc, hand, events, dep, mem, booked, used>>
    BY <1>4 DEF clearDeposit
  <2>2. Current \subseteq booked
    BY <2>1 DEF Kept
  <2> QED
    BY <2>1, <2>2, SameKept
<1>5. CASE resetDrop(t)
  <2>1. /\ th[t].pc = "reset" /\ UNCHANGED <<acc, hand, events, dep, mem, booked, temp, used>>
    BY <1>5 DEF resetDrop
  <2>2. Current \subseteq booked /\ temp = {}
    BY <2>1 DEF Kept
  <2> QED
    BY <2>1, <2>2, SameKept
<1>6. CASE forgetDeposit(t)
  <2>1. /\ th[t].pc = "null" /\ dep' = 0
        /\ UNCHANGED <<acc, hand, events, mem, booked, temp, used>>
    BY <1>6 DEF forgetDeposit
  <2>2. Current \subseteq booked /\ temp = {} /\ acc = "STOP"
    BY <2>1, Stopped DEF Kept
  <2>3. hand.pc = "idle"
    BY <2>2 DEF Kept
  <2>4. Current' = {} /\ Queued' = Queued
    BY <2>1 DEF Current, Queued
  <2>5. Kept'
    BY <2>1, <2>2, <2>3, <2>4 DEF Kept
  <2> QED
    BY <2>1, <2>2, <2>4, <2>5 DEF Accounted
<1>7. CASE assignState(t)
  BY <1>0, <1>7, GoKept DEF assignState
<1>8. CASE activateState(t)
  <2>1. Goto(t, "done") \/ Goto(t, "opening") \/ Goto(t, "opened")
    BY <1>8 DEF activateState
  <2> QED
    BY <1>0, <1>8, <2>1, GoKept DEF activateState
<1>9. CASE opened(t)
  BY <1>0, <1>9, GoKept DEF opened
<1>10. CASE watchInactivity(t)
  BY <1>0, <1>10, GoKept DEF watchInactivity
<1>11. CASE return(t) \/ openThrows(t)
  <2>1. /\ UNCHANGED <<acc, hand, events, dep, mem, booked, temp, used>>
        /\ \A u \in Threads : th'[u] = th[u] \/ th'[u].pc = "ready"
    BY <1>0, <1>11 DEF return, openThrows, Shape
  <2>2. \A u \in Threads : /\ th'[u].pc \in {"clear", "reset", "null"} => Current \subseteq booked'
                           /\ th'[u].pc \in {"reset", "null"} => temp' = {}
    BY <2>1 DEF Kept
  <2> QED
    BY <2>1, <2>2, SameKept
<1> QED
  BY <1>1, <1>2, <1>3, <1>4, <1>5, <1>6, <1>7, <1>8, <1>9, <1>10, <1>11 DEF setCurrentState

LEMMA StepKept ==
  ASSUME IInv, Rest, Starting, Commanded, Settled, Kept, Accounted, ~crossed', [Next]_vars
  PROVE  Kept' /\ Accounted'
<1> USE DEF timers, ses, device, val, money
<1>0. Shape /\ Flags /\ events \in Seq(Event)
  BY DEF IInv, Rest, Queue
<1>1. CASE UNCHANGED vars
  <2>1. \A u \in Threads : /\ th'[u].pc \in {"clear", "reset", "null"} => Current \subseteq booked'
                           /\ th'[u].pc \in {"reset", "null"} => temp' = {}
    BY <1>1 DEF vars, Kept
  <2> QED
    BY <1>1, <2>1, SameKept DEF vars
<1>2. ASSUME NEW t \in Operators, startDeposit(t) PROVE Kept' /\ Accounted'
  <2>1. /\ cur = "Idle" /\ \A u \in Threads : ~Calling(u)
        /\ th' = [th EXCEPT ![t] = [pc |-> "deactivate", to |-> "Deposit"]]
        /\ UNCHANGED <<acc, hand, events, mem, booked, temp>>
        /\ used' = [used EXCEPT !["deposits"] = @ + 1]
    BY <1>0, <1>2 DEF startDeposit, StartAcross, Use, Flags
  <2>2. dep = 0
    BY <2>1 DEF Starting, Beginning, Calling
  <2>3. Current = {} /\ temp = {} /\ hand.pc # "save" /\ Queued' = Queued
    BY <2>1, <2>2 DEF Current, Kept, Queued
  <2>4. \A u \in Threads : th'[u].pc \in {"ready", "inactivity", "close", "deactivate"}
    BY <1>0, <2>1 DEF Shape, Calling
  <2>5. used'.bills = used.bills
    BY <1>0, <2>1 DEF Shape, Bounded
  <2>6. Kept'
    BY <2>1, <2>3, <2>4 DEF Kept
  <2> QED
    BY <2>1, <2>3, <2>5, <2>6 DEF Accounted
<1>3. ASSUME NEW t \in Operators, endDeposit(t) \/ needMoreTime(t) \/ dropsReport(t)
      PROVE  Kept' /\ Accounted'
  <2>1. /\ UNCHANGED <<acc, hand, events, dep, mem, booked, temp>> /\ used'.bills = used.bills
        /\ \A u \in Threads : th'[u] = th[u] \/ th'[u].pc = "deactivate"
    BY <1>0, <1>3 DEF endDeposit, needMoreTime, dropsReport, Use, Shape, Bounded, Threads
  <2>2. \A u \in Threads : /\ th'[u].pc \in {"clear", "reset", "null"} => Current \subseteq booked'
                           /\ th'[u].pc \in {"reset", "null"} => temp' = {}
    BY <2>1 DEF Kept
  <2> QED
    BY <2>1, <2>2, SameKept
<1>4. ASSUME NEW t \in Threads, setCurrentState(t) PROVE Kept' /\ Accounted'
  BY <1>4, ThreadKept
<1>5. CASE TimerThread
  <2>1. /\ UNCHANGED <<acc, hand, events, dep, mem, booked, temp, used>>
        /\ \A u \in Threads : th'[u] = th[u] \/
             th'[u].pc \in {"inactivity", "close", "ready", "deactivate"}
    BY <1>0, <1>5 DEF TimerThread, expireInactivity, expireClose, inactivityTimerHandler,
                      closeTimerHandler, Goto, Shape
  <2>2. \A u \in Threads : /\ th'[u].pc \in {"clear", "reset", "null"} => Current \subseteq booked'
                           /\ th'[u].pc \in {"reset", "null"} => temp' = {}
    BY <2>1 DEF Kept
  <2> QED
    BY <2>1, <2>2, SameKept
<1>6. CASE Obey \/ Insert \/ Fail
  <2>1. UNCHANGED <<acc, hand, th, dep, mem, booked, temp>>
    BY <1>6 DEF Obey, Insert, Fail
  <2>2. PICK e \in Event : /\ events' = Append(events, e)
                           /\ \A b \in 1 .. used'.bills : b \in 1 .. used.bills \/ b = e.bill
    <3>1. \A k \in {"START", "STOP", "ERROR", "OK", "OUT", "IN", "REJECTED"} : Signal(k) \in Event
      BY DEF Signal, Event
    <3>2. used.bills < MaxBills =>
            Stacked(used.bills + 1) \in Event /\ Stacked(used.bills + 1).bill = used.bills + 1
      BY <1>0, SessionAssumption DEF Shape, Bounded, Stacked, Event, Bills
    <3>3. CASE Insert /\ Use("bills", MaxBills) /\ events' = Append(events, Stacked(used.bills + 1))
      <4>1. used.bills \in Nat /\ used.bills < MaxBills /\ used'.bills = used.bills + 1
        BY <1>0, <3>3 DEF Use, Shape, Bounded
      <4>2. \A b \in 1 .. used.bills + 1 : b \in 1 .. used.bills \/ b = used.bills + 1
        BY <4>1
      <4> QED
        BY <3>2, <3>3, <4>1, <4>2
    <3>4. CASE /\ events' = Append(events, Signal("REJECTED"))
               /\ Use("others", MaxOthers)
      <4>1. used'.bills = used.bills
        BY <1>0, <3>4 DEF Use, Shape, Bounded
      <4> QED
        BY <3>1, <3>4, <4>1
    <3>5. CASE Obey
      BY <1>0, <3>1, <3>5 DEF Obey, Flags
    <3>6. CASE Fail
      <4>1. used'.bills = used.bills
        BY <1>0, <3>6 DEF Fail, Use, Shape, Bounded
      <4> QED
        BY <3>1, <3>6, <4>1 DEF Fail
    <3> QED
      BY <1>6, <3>3, <3>4, <3>5, <3>6 DEF Insert
  <2>3. Queued' = Queued \cup {e.bill} /\ Current' = Current
    BY <1>0, <2>1, <2>2, QueuedPut DEF Current
  <2>4. Kept'
    BY <2>1, <2>3 DEF Kept
  <2>5. Accounted'
    BY <2>1, <2>2, <2>3 DEF Accounted
  <2> QED
    BY <2>4, <2>5
<1>7. CASE statusChange \/ stackerSensorStatusChange \/ onBillRejected
  <2>1. /\ Take /\ Head(events).kind # "ACCEPTED" /\ events # <<>>
        /\ UNCHANGED <<hand, th, dep, mem, booked, temp, used>>
    BY <1>7 DEF statusChange, stackerSensorStatusChange, onBillRejected, Take
  <2>2. Head(events).bill = 0
    BY <1>0, <2>1, HeadTailProperties DEF Event
  <2>3. Queued \subseteq Queued' \cup {0} /\ Current' = Current /\ hand.pc = "idle"
    BY <1>0, <2>1, <2>2, QueuedTake DEF Current, Take
  <2>4. Kept'
    BY <2>1, <2>3 DEF Kept
  <2>5. \A b \in 1 .. used.bills : b # 0
    BY <1>0 DEF Shape, Bounded
  <2>6. Accounted'
    BY <2>1, <2>3, <2>5 DEF Accounted
  <2> QED
    BY <2>4, <2>6
<1>8. CASE onBillAccepted
  <2>1. /\ Take /\ Head(events).kind = "ACCEPTED" /\ events # <<>> /\ hand.pc = "idle"
        /\ UNCHANGED <<acc, th, dep, mem, booked, temp, used>>
    BY <1>8 DEF onBillAccepted, Take
  <2>2. acc = "START"
    BY <1>0, <2>1, OrderedTake DEF Settled, Flags
  <2>3. cur = "Deposit"
    BY <2>2 DEF Settled
  <2>4. hand' = [pc |-> "add", bill |-> Head(events).bill]
    BY <1>8, <2>2, <2>3 DEF onBillAccepted
  <2>5. Queued \subseteq Queued' \cup {Head(events).bill} /\ Current' = Current
    BY <1>0, <2>1, QueuedTake DEF Current
  <2>6. hand.bill = 0 /\ \A b \in 1 .. used.bills : b # 0
    BY <1>0, <2>1 DEF Rest, Queue, Work, Shape, Bounded
  <2>7. Kept'
    BY <2>1, <2>2, <2>4, <2>5 DEF Kept
  <2>8. Accounted'
    BY <2>1, <2>4, <2>5, <2>6 DEF Accounted
  <2> QED
    BY <2>7, <2>8
\* The dispatcher has a bill in hand: the validator has not stopped.
<1>9. ASSUME hand.pc # "idle"
      PROVE  /\ acc = "START" /\ dep # 0 /\ dep \in Deposits
             /\ \A u \in Threads : th[u].pc \notin {"clear", "reset", "null"}
  <2>1. acc = "START"
    BY <1>9 DEF Kept
  <2> QED
    BY <1>0, <2>1, Stopped DEF Settled, Shape
<1>10. CASE addDepositDetail
  <2>1. /\ hand.pc = "add" /\ hand' = [hand EXCEPT !.pc = "save"]
        /\ UNCHANGED <<acc, events, th, dep, booked, temp, used>>
        /\ mem' = IF dep = 0 THEN mem ELSE [mem EXCEPT ![dep] = @ \cup {hand.bill}]
    BY <1>10 DEF addDepositDetail
  <2>2. hand' = [pc |-> "save", bill |-> hand.bill]
    BY <2>1 DEF Rest, Queue, Work
  <2>3. Current' = Current \cup {hand.bill} /\ Queued' = Queued
    BY <1>9, <2>1 DEF Current, Queued, Rest, Money
  <2>4. Kept'
    BY <1>9, <2>1, <2>2, <2>3 DEF Kept
  <2>5. Accounted'
    BY <2>1, <2>2, <2>3 DEF Accounted
  <2> QED
    BY <2>4, <2>5
<1>11. CASE saveDepositDetail
  <2>1. /\ hand.pc = "save" /\ hand' = [pc |-> "idle", bill |-> 0]
        /\ UNCHANGED <<acc, events, th, dep, mem, booked, used>>
        /\ temp' \subseteq temp \cup {hand.bill}
    BY <1>11 DEF saveDepositDetail
  <2>2. Current' = Current /\ Queued' = Queued /\ hand.bill \in Current
    BY <2>1 DEF Current, Queued, Kept
  <2>3. Kept'
    BY <1>9, <2>1, <2>2 DEF Kept
  <2>4. Accounted'
    BY <2>1, <2>2 DEF Accounted
  <2> QED
    BY <2>3, <2>4
<1> QED
  BY <1>1, <1>2, <1>3, <1>4, <1>5, <1>6, <1>7, <1>8, <1>10, <1>11 DEF Next, Operator, Dispatcher

-----------------------------------------------------------------------------
Valve == ~early => Settled /\ Kept /\ Accounted
JInv == IInv /\ Rest /\ Commanded /\ (~crossed => Starting /\ Valve)

LEMMA InitJInv == Init => JInv
<1> SUFFICES ASSUME Init PROVE JInv
  OBVIOUS
<1>1. IInv /\ Rest
  BY InitIInv, InitRest
<1>2. Starting /\ Commanded
  BY DEF Init, Starting, Beginning, Commanded
<1>3. Ordered(<<>>, "STOP", "STOP")
  <2>1. Len(<<>>) = 0
    BY EmptySeq
  <2>2. Switches(<<>>) = {}
    BY <2>1 DEF Switches
  <2> QED
    BY <2>1, <2>2 DEF Ordered
<1>4. Settled
  BY <1>3 DEF Init, Settled
<1>5. Kept /\ Accounted
  BY DEF Init, Kept, Accounted, Bounded, Current
<1> QED
  BY <1>1, <1>2, <1>4, <1>5 DEF JInv, Valve

LEMMA StepJInv == JInv /\ [Next]_vars => JInv'
<1> SUFFICES ASSUME JInv, [Next]_vars PROVE JInv'
  OBVIOUS
<1> USE DEF JInv
<1>1. IInv' /\ Rest' /\ Commanded'
  BY StepIInv, StepRest, StepCommanded
<1>2. (early => early') /\ (crossed => crossed')
  BY StepHistories DEF Rest
<1>3. ASSUME ~crossed' PROVE Starting' /\ Valve'
  <2>1. Starting /\ Valve
    BY <1>2, <1>3
  <2>2. Starting'
    BY <1>3, <2>1, StepStarting
  <2>3. ASSUME ~early' PROVE Settled' /\ Kept' /\ Accounted'
    BY <1>2, <1>3, <2>1, <2>3, StepSettled, StepKept DEF Valve
  <2> QED
    BY <2>2, <2>3 DEF Valve
<1> QED
  BY <1>1, <1>3

\* No bill is lost: while no wait for the validator has ended on an error, and
\* until a drop is started across another one or across a call in progress, each
\* bill the validator has stacked is on its way to the drop in progress, in it, or
\* stored.  It holds for every set of operators, whatever they look at before they
\* call, and all bounds; after such a start it does not (run pos_drop).
THEOREM BillAccountedApartAlways == Spec => []BillAccountedApart
<1>1. JInv => BillAccountedApart
  BY DEF JInv, Valve, Accounted, Current, BillAccountedApart, BillAccounted
<1> QED
  BY InitJInv, StepJInv, <1>1, PTL DEF Spec

\* With nothing going on and no drop, the validator takes no bills, and no
\* temporary deposit is left that a restart would store again; with the same two
\* exceptions.
THEOREM AtRestAlways == Spec => []AtRest
<1>1. JInv => AtRest
  <2> SUFFICES ASSUME JInv, ~early, ~crossed, \A t \in Threads : th[t].pc = "ready"
               PROVE  /\ cur = "Idle" => dep = 0 /\ acc = "STOP" /\ hw = "STOP"
                      /\ dep = 0 => temp = {}
    BY DEF AtRest, At
  <2>1. cur = "Idle" => dep = 0
    BY DEF JInv, Starting, Beginning
  <2>2. dep = 0 => temp = {}
    BY DEF JInv, Valve, Kept, Current
  <2>3. dep = 0 => acc = "STOP" /\ hw = "STOP"
    BY DEF JInv, Valve, Settled, Rest, Flags
  <2> QED
    BY <2>1, <2>2, <2>3
<1> QED
  BY InitJInv, StepJInv, <1>1, PTL DEF Spec
=============================================================================
