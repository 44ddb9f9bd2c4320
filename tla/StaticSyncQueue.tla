------------------------------ MODULE StaticSyncQueue --------------------------
(***************************************************************************)
(* StaticSyncQueue.m over queue.c: a circular buffer under a mutex, and a  *)
(* semaphore that counts its elements. It carries the events of the        *)
(* devices to their dispatcher, the answers of the safe box to whoever     *)
(* sent the command, the status of the validators and the printer's work.  *)
(* Each access to the mutex, the semaphore and the buffer is a step.       *)
(***************************************************************************)
EXTENDS Naturals, Sequences, FiniteSets

CONSTANTS
    Producers,  \* threads that push
    Consumers,  \* threads that pop
    MaxCount,   \* elements the queue is created for
    MaxPushes,  \* bound: pushes of each producer
    NoThread    \* the mutex is free

ASSUME QueueAssumption ==
    /\ IsFiniteSet(Producers) /\ Producers \cap Consumers = {}
    /\ NoThread \notin Producers \cup Consumers
    /\ MaxCount \in Nat \ {0} /\ MaxPushes \in Nat

Threads == Producers \cup Consumers
Element == Producers \X (1 .. MaxPushes)

VARIABLES
    buf, indexFirst, indexLast, count,  \* the circular buffer
    mySem,      \* count of the semaphore
    myMutex,    \* who holds the mutex
    pc,         \* where each thread is
    pushes,     \* pushes each producer has begun
    got,        \* the element each consumer copied
    taken,      \* the elements taken, in order
    failed      \* exceptions thrown

queue == <<buf, indexFirst, indexLast, count>>
vars == <<queue, mySem, myMutex, pc, pushes, got, taken, failed>>

Nothing == <<>>

Init ==
    /\ buf = [i \in 0 .. MaxCount - 1 |-> Nothing]
    /\ indexFirst = 0 /\ indexLast = 0 /\ count = 0
    /\ mySem = 0 /\ myMutex = NoThread
    /\ pc = [t \in Threads |-> "idle"]
    /\ pushes = [p \in Producers |-> 0]
    /\ got = [c \in Consumers |-> Nothing]
    /\ taken = <<>> /\ failed = {}

Goto(t, from, to) == pc[t] = from /\ pc' = [pc EXCEPT ![t] = to]

(* Mutation: the mutex is not waited for. *)
lockAtOnce(t, from, to) ==
    /\ myMutex' = t
    /\ Goto(t, from, to)
    /\ UNCHANGED <<queue, mySem, pushes, got, taken, failed>>

lock(t, from, to) ==
    /\ myMutex = NoThread /\ myMutex' = t
    /\ Goto(t, from, to)
    /\ UNCHANGED <<queue, mySem, pushes, got, taken, failed>>

unLock(t, from, to) ==
    /\ myMutex' = NoThread
    /\ Goto(t, from, to)
    /\ UNCHANGED <<queue, mySem, pushes, got, taken, failed>>

(* An exception leaves the method where it is: the mutex stays locked. *)
Throw(t, ex) ==
    /\ pc' = [pc EXCEPT ![t] = "thrown"]
    /\ failed' = failed \cup {ex}
    /\ UNCHANGED <<queue, mySem, myMutex, pushes, got, taken>>

(* The caller catches it and goes on. *)
Catch(t) ==
    /\ Goto(t, "thrown", "idle")
    /\ UNCHANGED <<queue, mySem, myMutex, pushes, got, taken, failed>>

-----------------------------------------------------------------------------
(* A producer has something to push: the environment. *)
pushElement(p) ==
    /\ Goto(p, "idle", "pushLock")
    /\ pushes[p] < MaxPushes
    /\ pushes' = [pushes EXCEPT ![p] = @ + 1]
    /\ UNCHANGED <<queue, mySem, myMutex, got, taken, failed>>

(* qAdd copies the element ... *)
qAdd(p) ==
    /\ pc[p] = "qAdd"
    /\ IF count = MaxCount
       THEN Throw(p, "QUEUE_IS_FULL_EX")
       ELSE /\ Goto(p, "qAdd", "qAdded")
            /\ buf' = [buf EXCEPT ![indexLast] = <<p, pushes[p]>>]
            /\ UNCHANGED <<indexFirst, indexLast, count, mySem, myMutex, pushes, got,
                           taken, failed>>

(* ... and advances. *)
qAdded(p) ==
    /\ Goto(p, "qAdded", "pushUnLock")
    /\ count' = count + 1
    /\ indexLast' = (indexLast + 1) % MaxCount
    /\ UNCHANGED <<buf, indexFirst, mySem, myMutex, pushes, got, taken, failed>>

(* Mutation: nobody is woken. *)
postForgotten(p) ==
    /\ Goto(p, "post", "idle")
    /\ UNCHANGED <<queue, mySem, myMutex, pushes, got, taken, failed>>

post(p) ==
    /\ Goto(p, "post", "idle")
    /\ mySem' = mySem + 1
    /\ UNCHANGED <<queue, myMutex, pushes, got, taken, failed>>

(* popBuffer. Mutation: it does not wait for an element. *)
waitNot(c) ==
    /\ Goto(c, "idle", "popLock")
    /\ UNCHANGED <<queue, mySem, myMutex, pushes, got, taken, failed>>

wait(c) ==
    /\ Goto(c, "idle", "popLock")
    /\ mySem > 0 /\ mySem' = mySem - 1
    /\ UNCHANGED <<queue, myMutex, pushes, got, taken, failed>>

(* qRemove: qGetElement copies the oldest element ... *)
qGetElement(c) ==
    /\ pc[c] = "qGetElement"
    /\ IF count = 0
       THEN Throw(c, "QUEUE_IS_EMPTY_EX")
       ELSE /\ Goto(c, "qGetElement", "qRemove")
            /\ got' = [got EXCEPT ![c] = buf[indexFirst]]
            /\ UNCHANGED <<queue, mySem, myMutex, pushes, taken, failed>>

(* ... and the queue advances. *)
qRemove(c) ==
    /\ Goto(c, "qRemove", "popUnLock")
    /\ count' = count - 1
    /\ indexFirst' = (indexFirst + 1) % MaxCount
    /\ taken' = Append(taken, got[c])
    /\ UNCHANGED <<buf, indexLast, mySem, myMutex, pushes, got, failed>>

Producer(p) ==
    \/ lock(p, "pushLock", "qAdd") \/ qAdd(p) \/ qAdded(p)
    \/ unLock(p, "pushUnLock", "post") \/ post(p) \/ Catch(p)

Consumer(c) ==
    \/ wait(c) \/ lock(c, "popLock", "qGetElement") \/ qGetElement(c) \/ qRemove(c)
    \/ unLock(c, "popUnLock", "idle")

Next ==
    \/ \E p \in Producers : pushElement(p) \/ Producer(p)
    \/ \E c \in Consumers : Consumer(c)

Spec == Init /\ [][Next]_vars

(* A thread that can go on does. *)
Fairness ==
    /\ \A p \in Producers : WF_vars(Producer(p))
    /\ \A c \in Consumers : WF_vars(Consumer(c))
FairSpec == Spec /\ Fairness

-----------------------------------------------------------------------------
(* Every variable has its type. *)
TypeOK ==
    /\ buf \in [0 .. MaxCount - 1 -> Element \cup {Nothing}]
    /\ indexFirst \in 0 .. MaxCount - 1 /\ indexLast \in 0 .. MaxCount - 1
    /\ count \in 0 .. MaxCount /\ mySem \in Nat
    /\ myMutex \in Threads \cup {NoThread}
    /\ pushes \in [Producers -> 0 .. MaxPushes]
    /\ got \in [Consumers -> Element \cup {Nothing}]
    /\ taken \in Seq(Element)

(* No consumer finds the queue empty after the semaphore let it through: the *)
(* element is in before it is announced, and the consumers let through are   *)
(* never more than the elements.                                             *)
NeverEmpty == "QUEUE_IS_EMPTY_EX" \notin failed

Contents == [i \in 1 .. count |-> buf[(indexFirst + i - 1) % MaxCount]]

FifoQueue == INSTANCE Fifo WITH contents <- Contents, out <- taken

(* The circular buffer is a queue: elements come out once, in order. *)
ImplementsFifo == FifoQueue!Spec

InQueue(e) == \E i \in 1 .. count : Contents[i] = e
Taken(e) == \E i \in 1 .. Len(taken) : taken[i] = e

(* An element in the queue is taken, unless a push finds the queue full: no  *)
(* wake-up is lost between the semaphore and the mutex.                      *)
DeliveredUnlessFull == \A e \in Element :
    InQueue(e) ~> Taken(e) \/ "QUEUE_IS_FULL_EX" \in failed

(* "Agrega un elemento a la cola, si hay alguien esperando, lo despierta     *)
(* para que continue su ejecucion": an element in the queue is taken.        *)
Delivered == \A e \in Element : InQueue(e) ~> Taken(e)
=============================================================================
