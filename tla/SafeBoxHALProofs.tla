--------------------------- MODULE SafeBoxHALProofs ---------------------------
(***************************************************************************)
(* The invariants of SafeBoxHAL, for any number of threads, locks and       *)
(* places in the queues. An answer is taken by its own call: of the         *)
(* commands whose answer is waited for at most one per device is anywhere   *)
(* between the queue and the answers (Flight), because whoever gives one is *)
(* alone on the device: by the mutex on the board (Holds), on a lock as     *)
(* long as two threads have not opened it at once (OneUnLock, shared). The  *)
(* connection of the validators                                             *)
(* reaches the board (Configured), and a queue overflows only by the calls  *)
(* that gave up (Owed).                                                     *)
(***************************************************************************)
EXTENDS SafeBoxHAL, FiniteSetTheorems, SequenceTheorems, TLAPS

Cmd == [op: Operations, dev: Devices, caller: Callers, n: Nat]

Types ==
    /\ pc \in [Callers -> {"idle", "begun", "add", "wait", "pop"}]
    /\ call \in [Callers -> Cmd]
    /\ myMutex \in Callers \cup {NoThread}
    /\ queuedActions \in Seq(Cmd)
    /\ answers \in [Devices -> Seq([of: Cmd, read: BOOLEAN])]
    /\ timedOut \in [Devices -> Nat] /\ mixed \in BOOLEAN
    /\ \A c \in Callers : pc[c] = "add" => qElem \in Cmd
    /\ thread = "answer" => current \in Cmd

Busy(c) == pc[c] \in {"add", "wait", "pop"}
Waiter(c) == pc[c] \in {"wait", "pop"}

(* Only locks are unlocked, and nobody waits for an answer that never comes. *)
Kinds == \A c \in Callers :
    /\ pc[c] # "idle" => (call[c].op = "unLock" <=> call[c].dev \in Locks)
    /\ Waiter(c) => Waits(call[c].op)

Holds == \A c \in Callers : Busy(c) /\ UsesMutex(call[c].op) => myMutex = c

OneUnLock == \A c, o \in Callers :
    /\ pc[c] # "idle" /\ pc[o] # "idle" /\ call[c].op = "unLock"
    /\ call[c].dev = call[o].dev /\ call[c].dev \notin shared
    => c = o

Clean(d) == timedOut[d] = 0 /\ d \notin shared /\ ~mixed

InQueue(d, i) ==
    i \in 1 .. Len(queuedActions) /\ queuedActions[i].dev = d /\ Waits(queuedActions[i].op)
Sent(d) == thread = "answer" /\ current.dev = d /\ Waits(current.op)

Flight(d) == Clean(d) =>
    /\ \A i, j \in Nat : InQueue(d, i) /\ InQueue(d, j) => i = j
    /\ \A i \in Nat : InQueue(d, i) =>
         /\ ~Sent(d) /\ answers[d] = <<>>
         /\ \E c \in Callers : Waiter(c) /\ call[c] = queuedActions[i]
    /\ Sent(d) =>
         /\ answers[d] = <<>>
         /\ \E c \in Callers : Waiter(c) /\ call[c] = current
    /\ answers[d] # <<>> =>
         /\ Len(answers[d]) = 1
         /\ \E c \in Callers : Waiter(c) /\ call[c] = Head(answers[d]).of /\ call[c].dev = d

Seen == \A c \in Callers :
    pc[c] = "pop" /\ Clean(call[c].dev) => answers[call[c].dev] # <<>>

IInv ==
    /\ Types /\ Kinds /\ Holds /\ OneUnLock
    /\ \A d \in Devices : Flight(d)
    /\ Seen

-----------------------------------------------------------------------------
(* Whoever waits for a device is alone on it. *)
LEMMA Alone ==
    ASSUME Types, Kinds, Holds, OneUnLock, NEW c \in Callers, NEW o \in Callers,
           Busy(c), Busy(o), Waits(call[c].op), Waits(call[o].op),
           call[c].dev = call[o].dev, call[c].dev \notin shared
    PROVE  c = o
<1>1. pc[c] # "idle" /\ pc[o] # "idle"  BY DEF Busy
<1>2. CASE call[c].op = "unLock"  BY <1>1, <1>2 DEF OneUnLock
<1>3. CASE call[c].op # "unLock"
  <2>1. call[o].op # "unLock"  BY <1>1, <1>3 DEF Kinds
  <2>2. UsesMutex(call[c].op) /\ UsesMutex(call[o].op)
    BY <1>3, <2>1 DEF UsesMutex, Waits
  <2>. QED  BY <2>2 DEF Holds
<1>. QED  BY <1>2, <1>3

LEMMA TailOfOne ==
    ASSUME NEW S, NEW s \in Seq(S), Len(s) = 1
    PROVE  Tail(s) = <<>>
<1>1. Tail(s) \in Seq(S) /\ Len(Tail(s)) = 0  OBVIOUS
<1>. QED  BY <1>1, EmptySeq

(* The answer a call is about to take is its own. *)
LEMMA OwnFromInv == IInv => OwnAnswer
<1>. SUFFICES ASSUME IInv, NEW c \in Callers,
                     pc[c] = "pop", timedOut[call[c].dev] = 0,
                     call[c].dev \notin shared, ~mixed
              PROVE  /\ answers[call[c].dev] # <<>>
                     /\ Head(answers[call[c].dev]).of = call[c]
  BY DEF OwnAnswer
<1>. DEFINE d == call[c].dev
<1>1. d \in Devices  BY DEF IInv, Types, Cmd
<1>2. Clean(d)  BY DEF Clean
<1>3. answers[d] # <<>>  BY <1>2 DEF IInv, Seen
<1>4. PICK o \in Callers :
        Waiter(o) /\ call[o] = Head(answers[d]).of /\ call[o].dev = d
  BY <1>1, <1>2, <1>3 DEF IInv, Flight
<1>5. Busy(c) /\ Busy(o) /\ Waiter(c)  BY <1>4 DEF Busy, Waiter
<1>6. Waits(call[c].op) /\ Waits(call[o].op)  BY <1>4, <1>5 DEF IInv, Kinds
<1>7. o = c  BY <1>2, <1>4, <1>5, <1>6, Alone DEF IInv, Clean
<1>. QED  BY <1>3, <1>4, <1>7

LEMMA InitInv == Init => IInv
<1>. SUFFICES ASSUME Init PROVE IInv  OBVIOUS
<1>. USE DEF Init
<1>1. Types
  <2>1. call \in [Callers -> Cmd]
    <3>1. SAFEBOX \in Devices /\ "sbCommand" \in Operations  BY DEF Devices, Operations
    <3>2. ASSUME NEW c \in Callers
          PROVE  [op |-> "sbCommand", dev |-> SAFEBOX, caller |-> c, n |-> 0] \in Cmd
      BY <3>1 DEF Cmd
    <3>. QED  BY <3>2
  <2>2. answers \in [Devices -> Seq([of: Cmd, read: BOOLEAN])]  OBVIOUS
  <2>3. queuedActions \in Seq(Cmd)  OBVIOUS
  <2>. QED  BY <2>1, <2>2, <2>3 DEF Types
<1>2. Kinds /\ Holds /\ OneUnLock /\ Seen
  BY DEF Kinds, Holds, OneUnLock, Seen, Busy, Waiter
<1>3. ASSUME NEW d \in Devices PROVE Flight(d)
  <2>1. answers[d] = <<>> /\ thread # "answer" /\ Len(queuedActions) = 0  OBVIOUS
  <2>. QED  BY <2>1 DEF Flight, InQueue, Sent
<1>. QED  BY <1>1, <1>2, <1>3 DEF IInv

-----------------------------------------------------------------------------
(* The threads of the program and the queues between them. *)
traffic == <<pc, call, myMutex, qElem, queuedActions, answers, timedOut, shared,
             mixed>>

(* A step of the board's thread that sends no command, of the start-up or of *)
(* the line leaves the invariant alone.                                      *)
Away == /\ UNCHANGED traffic
        /\ \/ UNCHANGED <<thread, current>>
           \/ thread' # "answer"

LEMMA AwayInv == IInv /\ Away => IInv'
<1>. SUFFICES ASSUME IInv, Away PROVE IInv'  OBVIOUS
<1>. USE DEF IInv, Away, traffic
<1>1. Types'  BY DEF Types
<1>2. Kinds' /\ Holds' /\ OneUnLock'  BY DEF Kinds, Holds, OneUnLock, Busy, Waiter
<1>3. Seen'  BY DEF Seen, Clean
<1>4. ASSUME NEW d \in Devices PROVE Flight(d)'
  <2>1. Flight(d)  OBVIOUS
  <2>. QED  BY <2>1 DEF Flight, InQueue, Sent, Clean, Waiter
<1>. QED  BY <1>1, <1>2, <1>3, <1>4

LEMMA AwaySteps ==
    ASSUME \/ billAcceptorSetParams \/ LineLost \/ LineBack
           \/ SendConfig \/ valConfigApplied \/ safeBoxGr1GetStatus
           \/ safeBoxProcessQueuedElem /\ queuedActions = <<>>
           \/ UNCHANGED vars
    PROVE  Away
<1>. USE DEF Away, traffic, callers, vars
<1>1. CASE billAcceptorSetParams  BY <1>1 DEF billAcceptorSetParams
<1>2. CASE LineLost  BY <1>2 DEF LineLost
<1>3. CASE LineBack  BY <1>3 DEF LineBack
<1>4. CASE SendConfig  BY <1>4 DEF SendConfig
<1>5. CASE valConfigApplied  BY <1>5 DEF valConfigApplied, Polled
<1>6. CASE safeBoxGr1GetStatus  BY <1>6 DEF safeBoxGr1GetStatus
<1>7. CASE safeBoxProcessQueuedElem /\ queuedActions = <<>>
  BY <1>7 DEF safeBoxProcessQueuedElem
<1>8. CASE UNCHANGED vars  BY <1>8
<1>. QED  BY <1>1, <1>2, <1>3, <1>4, <1>5, <1>6, <1>7, <1>8
-----------------------------------------------------------------------------
(* A step of one caller that is not waiting on the device, or goes on        *)
(* waiting, leaves what is in flight for it alone.                           *)
Others(c) == \A o \in Callers \ {c} : pc'[o] = pc[o] /\ call'[o] = call[o]

LEMMA FlightKeptQueue ==
    ASSUME NEW d \in Devices, NEW c \in Callers, Flight(d), Others(c),
           \A i \in Nat : InQueue(d, i)' <=> InQueue(d, i),
           \A i \in Nat : InQueue(d, i) => queuedActions'[i] = queuedActions[i],
           UNCHANGED <<thread, current>>, answers'[d] = answers[d],
           Clean(d)' => Clean(d),
           \/ ~Waiter(c) \/ call[c].dev # d
           \/ Waiter(c)' /\ call'[c] = call[c]
    PROVE  Flight(d)'
<1>. SUFFICES ASSUME Clean(d)' PROVE Flight(d)'  BY DEF Flight
<1>1. Clean(d)  OBVIOUS
<1>2. ASSUME NEW x, x.dev = d, \E o \in Callers : Waiter(o) /\ call[o] = x
      PROVE  \E o \in Callers : Waiter(o)' /\ call'[o] = x
  <2>1. PICK o \in Callers : Waiter(o) /\ call[o] = x  BY <1>2
  <2>2. Waiter(o)' /\ call'[o] = x  BY <1>2, <2>1 DEF Others, Waiter
  <2>. QED  BY <2>2
<1>3. \A i \in Nat : InQueue(d, i)' <=> InQueue(d, i)  OBVIOUS
<1>4. Sent(d)' <=> Sent(d)  BY DEF Sent
<1>5. \A i, j \in Nat : InQueue(d, i)' /\ InQueue(d, j)' => i = j
  BY <1>1, <1>3 DEF Flight
<1>6. ASSUME NEW i \in Nat, InQueue(d, i)'
      PROVE  /\ ~Sent(d)' /\ answers'[d] = <<>>
             /\ \E o \in Callers : Waiter(o)' /\ call'[o] = queuedActions'[i]
  <2>1. InQueue(d, i) /\ queuedActions[i].dev = d  BY <1>3, <1>6 DEF InQueue
  <2>2. \E o \in Callers : Waiter(o) /\ call[o] = queuedActions[i]
    BY <1>1, <2>1 DEF Flight
  <2>3. ~Sent(d) /\ answers[d] = <<>>  BY <1>1, <2>1 DEF Flight
  <2>. QED  BY <1>2, <1>4, <2>1, <2>2, <2>3
<1>7. ASSUME Sent(d)'
      PROVE  /\ answers'[d] = <<>>
             /\ \E o \in Callers : Waiter(o)' /\ call'[o] = current'
  <2>1. current.dev = d  BY <1>4, <1>7 DEF Sent
  <2>2. /\ answers[d] = <<>>
        /\ \E o \in Callers : Waiter(o) /\ call[o] = current
    BY <1>1, <1>4, <1>7 DEF Flight
  <2>. QED  BY <1>2, <2>1, <2>2
<1>8. ASSUME answers'[d] # <<>>
      PROVE  /\ Len(answers'[d]) = 1
             /\ \E o \in Callers :
                  Waiter(o)' /\ call'[o] = Head(answers'[d]).of /\ call'[o].dev = d
  <2>. DEFINE x == Head(answers[d]).of
  <2>1. /\ Len(answers[d]) = 1
        /\ \E o \in Callers : Waiter(o) /\ call[o] = x /\ call[o].dev = d
    BY <1>1, <1>8 DEF Flight
  <2>2. x.dev = d  BY <2>1
  <2>3. \E o \in Callers : Waiter(o)' /\ call'[o] = x  BY <1>2, <2>1, <2>2
  <2>. QED  BY <2>1, <2>2, <2>3
<1>. QED  BY <1>5, <1>6, <1>7, <1>8 DEF Flight

-----------------------------------------------------------------------------
(* The steps of a caller. *)
LEMMA FlightKept ==
    ASSUME NEW d \in Devices, NEW c \in Callers, Flight(d), Others(c),
           UNCHANGED <<queuedActions, thread, current>>, answers'[d] = answers[d],
           Clean(d)' => Clean(d),
           \/ ~Waiter(c) \/ call[c].dev # d
           \/ Waiter(c)' /\ call'[c] = call[c]
    PROVE  Flight(d)'
<1>1. \A i \in Nat : InQueue(d, i)' <=> InQueue(d, i)  BY DEF InQueue
<1>. QED  BY <1>1, FlightKeptQueue

LEMMA BeginInv ==
    ASSUME IInv, NEW c \in Callers, NEW op \in Operations, NEW dev \in Devices,
           op = "unLock" <=> dev \in Locks, Begin(c, op, dev)
    PROVE  IInv'
<1>. USE DEF IInv, Begin, Goto
<1>. DEFINE new == [op |-> op, dev |-> dev, caller |-> c, n |-> call[c].n + 1]
<1>0. shared \subseteq shared'  OBVIOUS
<1>1. new \in Cmd  BY DEF Types, Cmd
<1>2. pc' = [pc EXCEPT ![c] = "begun"] /\ call' = [call EXCEPT ![c] = new]  OBVIOUS
<1>3. Types'  BY <1>1, <1>2 DEF Types
<1>4. Others(c) /\ pc'[c] = "begun" /\ call'[c] = new  BY <1>2 DEF Others, Types
<1>5. Kinds'  BY <1>4 DEF Kinds, Waiter, Others
<1>6. Holds'  BY <1>4 DEF Holds, Busy, Others
<1>7. OneUnLock'
  <2>. SUFFICES ASSUME NEW a \in Callers, NEW b \in Callers,
                       pc'[a] # "idle", pc'[b] # "idle", call'[a].op = "unLock",
                       call'[a].dev = call'[b].dev, call'[a].dev \notin shared', a # b
                PROVE  FALSE
    BY DEF OneUnLock
  <2>1. call'[a].dev \in Locks  BY <1>5 DEF Kinds
  <2>2. call'[b].op = "unLock"  BY <1>5, <2>1 DEF Kinds
  <2>3. ASSUME NEW o \in Callers, o # c, pc'[o] # "idle", call'[o].dev = dev,
               op = "unLock"
        PROVE  dev \in shared'
    <3>1. pc[o] # "idle" /\ call[o].dev = dev  BY <1>4, <2>3 DEF Others
    <3>. QED  BY <2>3, <3>1
  <2>4. CASE a = c  BY <1>4, <2>3, <2>4
  <2>5. CASE b = c  BY <1>4, <2>2, <2>3, <2>5
  <2>6. CASE a # c /\ b # c
    <3>1. call'[a] = call[a] /\ call'[b] = call[b] /\ pc'[a] = pc[a] /\ pc'[b] = pc[b]
      BY <1>4, <2>6 DEF Others
    <3>2. call[a].dev \notin shared  BY <1>0, <3>1
    <3>. QED  BY <3>1, <3>2 DEF OneUnLock
  <2>. QED  BY <2>4, <2>5, <2>6
<1>8. Seen'  BY <1>0, <1>4 DEF Seen, Clean, Others
<1>9. \A d \in Devices : Flight(d)'
  <2>. SUFFICES ASSUME NEW d \in Devices PROVE Flight(d)'  OBVIOUS
  <2>1. Clean(d)' => Clean(d)  BY <1>0 DEF Clean
  <2>2. ~Waiter(c)  BY DEF Waiter
  <2>. QED  BY <1>4, <2>1, <2>2, FlightKept
<1>. QED  BY <1>3, <1>5, <1>6, <1>7, <1>8, <1>9

LEMMA FillInv == ASSUME IInv, NEW c \in Callers, Fill(c) PROVE IInv'
<1>. USE DEF IInv, Fill, Goto
<1>1. Others(c) /\ pc'[c] = "add" /\ call'[c] = call[c]  BY DEF Others, Types
<1>2. Types'  BY DEF Types
<1>3. Kinds'  BY <1>1 DEF Kinds, Waiter, Others
<1>4. Holds'
  <2>1. ASSUME NEW o \in Callers \ {c}, Busy(o), UsesMutex(call[o].op)
        PROVE  myMutex = o /\ ~UsesMutex(call[c].op)
    BY <2>1, SafeBoxAssumption DEF Holds
  <2>. QED  BY <1>1, <2>1 DEF Holds, Busy, Others
<1>5. OneUnLock'  BY <1>1 DEF OneUnLock, Others
<1>6. Seen'  BY <1>1 DEF Seen, Clean, Others
<1>7. \A d \in Devices : Flight(d)'  BY <1>1, FlightKept DEF Waiter, Clean
<1>. QED  BY <1>2, <1>3, <1>4, <1>5, <1>6, <1>7

LEMMA CountSeenInv == ASSUME IInv, NEW c \in Callers, CountSeen(c) PROVE IInv'
<1>. USE DEF IInv, CountSeen, Goto
<1>1. Others(c) /\ pc'[c] = "pop" /\ call'[c] = call[c]  BY DEF Others, Types
<1>2. Types'  BY DEF Types
<1>3. Kinds'  BY <1>1 DEF Kinds, Waiter, Others
<1>4. Holds'  BY <1>1 DEF Holds, Busy, Others
<1>5. OneUnLock'  BY <1>1 DEF OneUnLock, Others
<1>6. Seen'  BY <1>1 DEF Seen, Clean, Others
<1>7. \A d \in Devices : Flight(d)'  BY <1>1, FlightKept DEF Waiter, Clean
<1>. QED  BY <1>2, <1>3, <1>4, <1>5, <1>6, <1>7

LEMMA TimeoutInv == ASSUME IInv, NEW c \in Callers, Timeout(c) PROVE IInv'
<1>. USE DEF IInv, Timeout, Goto
<1>1. Others(c) /\ pc'[c] = "idle" /\ call'[c] = call[c]  BY DEF Others, Types
<1>2. call[c].dev \in Devices  BY DEF Types, Cmd
<1>3. Types'
  <2>1. timedOut' \in [Devices -> Nat]  BY <1>2 DEF Types
  <2>2. myMutex' \in Callers \cup {NoThread}  BY DEF Types, UnLock
  <2>3. pc' \in [Callers -> {"idle", "begun", "add", "wait", "pop"}]  BY DEF Types
  <2>4. \A o \in Callers : pc'[o] = "add" => qElem' \in Cmd  BY <1>1 DEF Types, Others
  <2>. QED  BY <2>1, <2>2, <2>3, <2>4 DEF Types
<1>4. Kinds'  BY <1>1 DEF Kinds, Waiter, Others
<1>5. Holds'  BY <1>1 DEF Holds, Busy, Others, UnLock
<1>6. OneUnLock'  BY <1>1 DEF OneUnLock, Others
<1>7. ASSUME NEW d \in Devices, Clean(d)' PROVE Clean(d) /\ call[c].dev # d
  <2>1. timedOut[d] \in Nat  BY DEF Types
  <2>. QED  BY <1>2, <1>7, <2>1 DEF Clean, Types
<1>8. Seen'
  <2>. SUFFICES ASSUME NEW o \in Callers, pc'[o] = "pop", Clean(call[o].dev)', o # c
                PROVE  answers[call[o].dev] # <<>>
    BY <1>1 DEF Seen, Others
  <2>1. call[o].dev \in Devices /\ pc[o] = "pop"  BY <1>1 DEF Types, Cmd, Others
  <2>2. Clean(call[o].dev)  BY <1>7, <2>1 DEF Clean
  <2>. QED  BY <2>1, <2>2 DEF Seen
<1>9. ASSUME NEW d \in Devices PROVE Flight(d)'
  <2>1. CASE call[c].dev = d  BY <1>7, <2>1 DEF Flight
  <2>2. CASE call[c].dev # d  BY <1>1, <1>7, <2>2, FlightKept
  <2>. QED  BY <2>1, <2>2
<1>. QED  BY <1>3, <1>4, <1>5, <1>6, <1>8, <1>9

LEMMA PopInv == ASSUME IInv, NEW c \in Callers, Pop(c) PROVE IInv'
<1>. USE DEF IInv
<1>. DEFINE dev == call[c].dev
<1>1. /\ pc[c] = "pop" /\ answers[dev] # <<>>
      /\ answers' = [answers EXCEPT ![dev] = Tail(@)]
      /\ UNCHANGED <<qElem, timedOut, shared, mixed, queuedActions, thread, current>>
      /\ UNCHANGED myMutex \/ UnLock(c)
  BY DEF Pop, Goto
<1>2. PICK to \in {"begun", "idle"} : pc' = [pc EXCEPT ![c] = to]
  BY DEF Pop, Goto
<1>3. UNCHANGED call \/ call' = [call EXCEPT ![c].n = @ + 1]
  BY DEF Pop, Another
<1>4. dev \in Devices /\ call[c] \in Cmd  BY DEF Types, Cmd
<1>5. /\ Others(c) /\ pc'[c] = to
      /\ call'[c].op = call[c].op /\ call'[c].dev = call[c].dev
  BY <1>2, <1>3, <1>4 DEF Others, Types, Cmd
<1>6. Types'
  <2>1. call' \in [Callers -> Cmd]
    <3>1. [call[c] EXCEPT !.n = @ + 1] \in Cmd  BY <1>4 DEF Cmd
    <3>. QED  BY <1>3, <3>1 DEF Types
  <2>2. answers' \in [Devices -> Seq([of: Cmd, read: BOOLEAN])]
    <3>1. answers[dev] \in Seq([of: Cmd, read: BOOLEAN])  BY <1>4 DEF Types
    <3>2. Tail(answers[dev]) \in Seq([of: Cmd, read: BOOLEAN])  BY <1>1, <3>1
    <3>. QED  BY <1>1, <3>2 DEF Types
  <2>3. myMutex' \in Callers \cup {NoThread}  BY <1>1 DEF Types, UnLock
  <2>4. pc' \in [Callers -> {"idle", "begun", "add", "wait", "pop"}]  BY <1>2 DEF Types
  <2>5. \A o \in Callers : pc'[o] = "add" => qElem' \in Cmd
    BY <1>1, <1>5 DEF Types, Others
  <2>. QED  BY <1>1, <2>1, <2>2, <2>3, <2>4, <2>5 DEF Types
<1>7. Kinds'  BY <1>1, <1>5 DEF Kinds, Waiter, Others
<1>8. Holds'  BY <1>1, <1>5 DEF Holds, Busy, Others, UnLock
<1>9. OneUnLock'  BY <1>1, <1>5 DEF OneUnLock, Others
<1>10. Seen'
  <2>. SUFFICES ASSUME NEW o \in Callers, pc'[o] = "pop", Clean(call[o].dev)'
                PROVE  answers'[call'[o].dev] # <<>>
    BY DEF Seen
  <2>1. o # c  BY <1>5
  <2>2. pc[o] = "pop" /\ call'[o] = call[o]  BY <1>5, <2>1 DEF Others
  <2>3. Clean(call[o].dev) /\ call[o].dev \in Devices
    BY <1>1, <2>2 DEF Clean, Types, Cmd
  <2>4. Waits(call[c].op) /\ Waits(call[o].op) /\ Busy(c) /\ Busy(o)
    BY <1>1, <2>2 DEF Kinds, Busy, Waiter
  <2>5. call[o].dev # dev  BY <2>1, <2>3, <2>4, Alone DEF Clean
  <2>6. answers'[call[o].dev] = answers[call[o].dev]  BY <1>1, <2>3, <2>5 DEF Types
  <2>. QED  BY <2>2, <2>3, <2>6 DEF Seen
<1>11. ASSUME NEW d \in Devices PROVE Flight(d)'
  <2>1. CASE d = dev
    <3>. SUFFICES ASSUME Clean(d) PROVE Flight(d)'  BY <1>1 DEF Flight, Clean
    <3>1. answers[d] # <<>>  BY <1>1, <2>1
    <3>2. Len(answers[d]) = 1  BY <3>1 DEF Flight
    <3>3. answers[d] \in Seq([of: Cmd, read: BOOLEAN])  BY DEF Types
    <3>4. Tail(answers[d]) = <<>>  BY <3>2, <3>3, TailOfOne
    <3>5. answers'[d] = <<>>  BY <1>1, <2>1, <3>4 DEF Types
    <3>6. \A i \in Nat : ~InQueue(d, i)  BY <3>1 DEF Flight
    <3>7. ~Sent(d)  BY <3>1 DEF Flight
    <3>8. (\A i \in Nat : ~InQueue(d, i)') /\ ~Sent(d)'
      BY <1>1, <3>6, <3>7 DEF InQueue, Sent
    <3>. QED  BY <3>5, <3>8 DEF Flight
  <2>2. CASE d # dev
    <3>1. answers'[d] = answers[d]  BY <1>1, <2>2 DEF Types
    <3>2. Clean(d)' => Clean(d)  BY <1>1 DEF Clean
    <3>. QED  BY <1>1, <1>5, <2>2, <3>1, <3>2, FlightKept
  <2>. QED  BY <2>1, <2>2
<1>. QED  BY <1>6, <1>7, <1>8, <1>9, <1>10, <1>11

LEMMA AddInv == ASSUME IInv, NEW c \in Callers, Add(c) PROVE IInv'
<1>. USE DEF IInv
<1>. DEFINE dev == call[c].dev
            last == Len(queuedActions) + 1
<1>1. /\ pc[c] = "add" /\ queuedActions' = Append(queuedActions, qElem)
      /\ mixed' = (mixed \/ qElem # call[c])
      /\ UNCHANGED <<call, qElem, timedOut, shared, answers, thread, current>>
  BY DEF Add
<1>2. \/ /\ Waits(call[c].op) /\ pc' = [pc EXCEPT ![c] = "wait"] /\ UNCHANGED myMutex
      \/ /\ ~Waits(call[c].op) /\ pc' = [pc EXCEPT ![c] = "idle"] /\ UnLock(c)
  BY DEF Add, Goto
<1>3. /\ Others(c) /\ pc'[c] \in {"wait", "idle"}
      /\ pc'[c] = "wait" <=> Waits(call[c].op)
  BY <1>1, <1>2 DEF Others, Types
<1>4. dev \in Devices /\ qElem \in Cmd /\ queuedActions \in Seq(Cmd)
  BY <1>1 DEF Types, Cmd
<1>5. Types'
  <2>1. queuedActions' \in Seq(Cmd)  BY <1>1, <1>4
  <2>2. myMutex' \in Callers \cup {NoThread}  BY <1>2 DEF Types, UnLock
  <2>3. pc' \in [Callers -> {"idle", "begun", "add", "wait", "pop"}]  BY <1>2 DEF Types
  <2>4. mixed' \in BOOLEAN  BY <1>1
  <2>. QED  BY <1>1, <1>4, <2>1, <2>2, <2>3, <2>4 DEF Types
<1>6. Kinds'  BY <1>1, <1>3 DEF Kinds, Waiter, Others
<1>7. Holds'  BY <1>1, <1>2, <1>3 DEF Holds, Busy, Others, UnLock
<1>8. OneUnLock'  BY <1>1, <1>3 DEF OneUnLock, Others
<1>9. Seen'  BY <1>1, <1>3 DEF Seen, Clean, Others
<1>10. \A i \in Nat : i # last =>
         /\ i \in 1 .. Len(queuedActions)' <=> i \in 1 .. Len(queuedActions)
         /\ i \in 1 .. Len(queuedActions) => queuedActions'[i] = queuedActions[i]
  BY <1>1, <1>4
<1>11. last \in 1 .. Len(queuedActions)' /\ queuedActions'[last] = qElem
  BY <1>1, <1>4
<1>12. ASSUME NEW d \in Devices PROVE Flight(d)'
  <2>. SUFFICES ASSUME Clean(d)' PROVE Flight(d)'  BY DEF Flight
  <2>1. Clean(d) /\ qElem = call[c]  BY <1>1 DEF Clean, Types
  <2>2. CASE dev = d /\ Waits(call[c].op)
    <3>1. ASSUME NEW o \in Callers, Waiter(o) PROVE call[o].dev # d
      <4>1. Busy(o) /\ Busy(c) /\ Waits(call[o].op) /\ o # c
        BY <1>1, <3>1 DEF Kinds, Busy, Waiter
      <4>. QED  BY <2>1, <2>2, <4>1, Alone DEF Clean
    <3>2. \A i \in Nat : ~InQueue(d, i)  BY <2>1, <3>1 DEF Flight, InQueue
    <3>3. ~Sent(d)  BY <2>1, <3>1 DEF Flight, Sent
    <3>4. answers[d] = <<>>  BY <2>1, <3>1 DEF Flight
    <3>5. \A i \in Nat : InQueue(d, i)' <=> i = last
      BY <1>4, <1>10, <1>11, <2>1, <2>2, <3>2 DEF InQueue
    <3>6. ~Sent(d)' /\ answers'[d] = <<>>  BY <1>1, <3>3, <3>4 DEF Sent
    <3>7. Waiter(c)' /\ call'[c] = queuedActions'[last]
      BY <1>1, <1>3, <1>11, <2>1, <2>2 DEF Waiter
    <3>. QED  BY <3>5, <3>6, <3>7 DEF Flight
  <2>3. CASE ~(dev = d /\ Waits(call[c].op))
    <3>1. \A i \in Nat : InQueue(d, i)' <=> InQueue(d, i)
      BY <1>4, <1>10, <1>11, <2>1, <2>3 DEF InQueue
    <3>2. \A i \in Nat : InQueue(d, i) => queuedActions'[i] = queuedActions[i]
      BY <1>4, <1>10 DEF InQueue
    <3>3. ~Waiter(c)  BY <1>1 DEF Waiter
    <3>. QED  BY <1>1, <1>3, <2>1, <3>1, <3>2, <3>3, FlightKeptQueue
  <2>. QED  BY <2>2, <2>3
<1>. QED  BY <1>5, <1>6, <1>7, <1>8, <1>9, <1>12

-----------------------------------------------------------------------------
(* The steps of the board's thread that move a command. *)
LEMMA ProcessInv ==
    ASSUME IInv, safeBoxProcessQueuedElem, queuedActions # <<>>
    PROVE  IInv'
<1>. USE DEF IInv
<1>1. /\ thread = "queue" /\ thread' = "answer" /\ current' = Head(queuedActions)
      /\ queuedActions' = Tail(queuedActions)
      /\ UNCHANGED <<pc, call, myMutex, qElem, answers, timedOut, shared, mixed>>
  BY DEF safeBoxProcessQueuedElem, callers
<1>2. queuedActions \in Seq(Cmd)  BY DEF Types
<1>3. /\ Head(queuedActions) = queuedActions[1] /\ Head(queuedActions) \in Cmd
      /\ Tail(queuedActions) \in Seq(Cmd)
      /\ Len(Tail(queuedActions)) = Len(queuedActions) - 1
      /\ \A i \in 1 .. Len(queuedActions) - 1 : Tail(queuedActions)[i] = queuedActions[i + 1]
      /\ Len(queuedActions) \in Nat \ {0}
  BY <1>2
<1>4. Types'  BY <1>1, <1>3 DEF Types
<1>5. Kinds' /\ Holds' /\ OneUnLock'
  BY <1>1 DEF Kinds, Holds, OneUnLock, Busy, Waiter
<1>6. Seen'  BY <1>1 DEF Seen, Clean
<1>7. ASSUME NEW d \in Devices PROVE Flight(d)'
  <2>. SUFFICES ASSUME Clean(d)' PROVE Flight(d)'  BY DEF Flight
  <2>1. Clean(d) /\ ~Sent(d)  BY <1>1 DEF Clean, Sent
  <2>2. ASSUME NEW i \in Nat, InQueue(d, i)'
        PROVE  InQueue(d, i + 1) /\ queuedActions'[i] = queuedActions[i + 1]
    BY <1>1, <1>3, <2>2 DEF InQueue
  <2>3. Sent(d)' => InQueue(d, 1)  BY <1>1, <1>3 DEF InQueue, Sent
  <2>4. \A i, j \in Nat : InQueue(d, i)' /\ InQueue(d, j)' => i = j
    <3>. SUFFICES ASSUME NEW i \in Nat, NEW j \in Nat, InQueue(d, i)', InQueue(d, j)'
                  PROVE  i = j
      OBVIOUS
    <3>1. InQueue(d, i + 1) /\ InQueue(d, j + 1)  BY <2>2
    <3>2. i + 1 = j + 1  BY <2>1, <3>1 DEF Flight
    <3>. QED  BY <3>2
  <2>5. ASSUME NEW i \in Nat, InQueue(d, i)'
        PROVE  /\ ~Sent(d)' /\ answers'[d] = <<>>
               /\ \E c \in Callers : Waiter(c)' /\ call'[c] = queuedActions'[i]
    <3>1. InQueue(d, i + 1) /\ queuedActions'[i] = queuedActions[i + 1]  BY <2>2, <2>5
    <3>2. i # 0  BY <2>5 DEF InQueue
    <3>3. ~InQueue(d, 1)  BY <2>1, <3>1, <3>2 DEF Flight
    <3>4. /\ answers[d] = <<>>
          /\ \E c \in Callers : Waiter(c) /\ call[c] = queuedActions[i + 1]
      BY <2>1, <3>1 DEF Flight
    <3>. QED  BY <1>1, <2>3, <3>1, <3>3, <3>4 DEF Waiter
  <2>6. ASSUME Sent(d)'
        PROVE  /\ answers'[d] = <<>>
               /\ \E c \in Callers : Waiter(c)' /\ call'[c] = current'
    <3>1. /\ answers[d] = <<>>
          /\ \E c \in Callers : Waiter(c) /\ call[c] = queuedActions[1]
      BY <2>1, <2>3, <2>6 DEF Flight
    <3>. QED  BY <1>1, <1>3, <3>1 DEF Waiter
  <2>7. answers'[d] # <<>> =>
          /\ Len(answers'[d]) = 1
          /\ \E c \in Callers :
               Waiter(c)' /\ call'[c] = Head(answers'[d]).of /\ call'[c].dev = d
    BY <1>1, <2>1 DEF Flight, Waiter
  <2>. QED  BY <2>4, <2>5, <2>6, <2>7 DEF Flight
<1>. QED  BY <1>4, <1>5, <1>6, <1>7

LEMMA AppendTyped ==
    ASSUME NEW S, NEW s \in Seq(S), NEW e \in S
    PROVE  Append(s, e) \in Seq(S)
OBVIOUS

LEMMA WriteReadInv == ASSUME IInv, safeBoxWriteRead PROVE IInv'
<1>. USE DEF IInv
<1>. DEFINE answer == [of |-> current, read |-> line = "up"]
            appended == [answers EXCEPT ![current.dev] = Append(@, answer)]
<1>1. /\ thread = "answer" /\ thread' # "answer"
      /\ UNCHANGED <<pc, call, myMutex, qElem, timedOut, shared, mixed, queuedActions>>
      /\ \/ answers' = answers
         \/ answers' = appended /\ Waits(current.op)
  BY DEF safeBoxWriteRead, callers, Answers
<1>2. current \in Cmd /\ current.dev \in Devices /\ answer.of = current
  BY <1>1 DEF Types, Cmd
<1>3. \A d \in Devices : answers[d] \in Seq([of: Cmd, read: BOOLEAN])  BY DEF Types
<1>4. answers' = appended =>
        /\ answers'[current.dev] = Append(answers[current.dev], answer)
        /\ \A d \in Devices \ {current.dev} : answers'[d] = answers[d]
  BY <1>2 DEF Types
<1>5. Types'
  <2>1. answer \in [of: Cmd, read: BOOLEAN]  BY <1>2
  <2>2. Append(answers[current.dev], answer) \in Seq([of: Cmd, read: BOOLEAN])
    <3>. HIDE DEF answer
    <3>1. answers[current.dev] \in Seq([of: Cmd, read: BOOLEAN])  BY <1>2, <1>3
    <3>. QED  BY <2>1, <3>1, AppendTyped
  <2>3. answers' \in [Devices -> Seq([of: Cmd, read: BOOLEAN])]
    BY <1>1, <1>2, <2>2 DEF Types
  <2>. QED  BY <1>1, <2>3 DEF Types
<1>6. Kinds' /\ Holds' /\ OneUnLock'
  BY <1>1 DEF Kinds, Holds, OneUnLock, Busy, Waiter
<1>7. ASSUME NEW d \in Devices, answers[d] # <<>> PROVE answers'[d] # <<>>
  <2>1. Append(answers[d], answer) # <<>>  BY <1>3
  <2>. QED  BY <1>1, <1>4, <1>7, <2>1
<1>8. Seen'
  <2>. SUFFICES ASSUME NEW c \in Callers, pc[c] = "pop", Clean(call[c].dev)
                PROVE  answers'[call[c].dev] # <<>>
    BY <1>1 DEF Seen, Clean
  <2>1. call[c].dev \in Devices  BY DEF Types, Cmd
  <2>. QED  BY <1>7, <2>1 DEF Seen
<1>9. ASSUME NEW d \in Devices PROVE Flight(d)'
  <2>. SUFFICES ASSUME Clean(d) PROVE Flight(d)'  BY <1>1 DEF Flight, Clean
  <2>1. ~Sent(d)'  BY <1>1 DEF Sent
  <2>2. \A i \in Nat : InQueue(d, i)' <=> InQueue(d, i)  BY <1>1 DEF InQueue
  <2>3. CASE answers'[d] = answers[d]
    BY <1>1, <2>1, <2>2, <2>3 DEF Flight, Waiter
  <2>4. CASE answers'[d] # answers[d]
    <3>1. d = current.dev /\ Waits(current.op) /\ answers' = appended
      BY <1>1, <1>4, <2>4
    <3>2. Sent(d)  BY <1>1, <3>1 DEF Sent
    <3>3. \A i \in Nat : ~InQueue(d, i)'  BY <2>2, <3>2 DEF Flight
    <3>4. answers[d] = <<>>  BY <3>2 DEF Flight
    <3>5. answers'[d] = <<answer>>  BY <1>4, <3>1, <3>4
    <3>6. PICK c \in Callers : Waiter(c) /\ call[c] = current  BY <3>2 DEF Flight
    <3>7. Len(answers'[d]) = 1 /\ Head(answers'[d]).of = current  BY <1>2, <3>5
    <3>8. Waiter(c)' /\ call'[c] = current /\ call'[c].dev = d
      BY <1>1, <3>1, <3>6 DEF Waiter
    <3>. QED  BY <2>1, <3>3, <3>7, <3>8 DEF Flight
  <2>. QED  BY <2>3, <2>4
<1>. QED  BY <1>5, <1>6, <1>8, <1>9

-----------------------------------------------------------------------------
(* What the commands, their queue and their answers keep at every step. *)
THEOREM Invariance == Spec => []IInv
<1>1. Init => IInv  BY InitInv
<1>2. IInv /\ [Next]_vars => IInv'
  <2>. SUFFICES ASSUME IInv, [Next]_vars PROVE IInv'  OBVIOUS
  <2>1. CASE \E c \in Callers, op \in Operations, d \in Devices :
               op \in Does[c] /\ (op = "unLock" <=> d \in Locks) /\ Begin(c, op, d)
    BY <2>1, BeginInv
  <2>2. ASSUME NEW c \in Callers, Caller(c) PROVE IInv'
    BY <2>2, FillInv, AddInv, CountSeenInv, PopInv, TimeoutInv DEF Caller
  <2>3. CASE safeBoxProcessQueuedElem
    <3>1. CASE queuedActions = <<>>  BY <2>3, <3>1, AwaySteps, AwayInv
    <3>2. CASE queuedActions # <<>>  BY <2>3, <3>2, ProcessInv
    <3>. QED  BY <3>1, <3>2
  <2>4. CASE safeBoxWriteRead  BY <2>4, WriteReadInv
  <2>5. CASE \/ billAcceptorSetParams \/ LineLost \/ LineBack \/ UNCHANGED vars
             \/ SendConfig \/ valConfigApplied \/ safeBoxGr1GetStatus
    BY <2>5, AwaySteps, AwayInv
  <2>. QED  BY <2>1, <2>2, <2>3, <2>4, <2>5 DEF Next, safeBoxMgrRun
<1>. QED  BY <1>1, <1>2, PTL DEF Spec

(* However many threads call, an answer is taken by the call whose command   *)
(* it answers, as long as no earlier call on the device gave up and no two   *)
(* threads opened its lock, or filled the global element of safeBoxMgr.m, at *)
(* once.                                                                     *)
THEOREM OwnAnswerAlways == Spec => []OwnAnswer
<1>. QED  BY Invariance, OwnFromInv, PTL
-----------------------------------------------------------------------------
(* Why the configuration reaches the board: it is sent whole once (Whole),   *)
(* and an error that a lost line begins leaves it pending until the line is  *)
(* back (Pending).                                                           *)
Whole ==
    /\ allConfigured => valConfig = Validators
    /\ thread = "config" /\ allConfigured => sentConfig = Validators
Pending == ~glitch /\ commError /\ line = "down" => valConfigPending
Configured == line \in {"up", "down"} /\ Whole /\ Pending /\ ConfigReaches

(* The calls and their commands do not concern the configuration, unless the *)
(* program ends.                                                             *)
Unconcerned ==
    /\ UNCHANGED <<commError, config, wire>>
    /\ \/ thread' \in {"aborted", thread}
       \/ /\ thread # "config" /\ thread' # "config" /\ Running

LEMMA CallersUnconcerned ==
    ASSUME NEW c \in Callers,
           \/ \E op \in Operations, d \in Devices : Begin(c, op, d)
           \/ Caller(c)
    PROVE  Unconcerned
<1>. USE DEF Unconcerned
<1>1. CASE \E op \in Operations, d \in Devices : Begin(c, op, d)  BY <1>1 DEF Begin
<1>2. CASE Fill(c)  BY <1>2 DEF Fill
<1>3. CASE Add(c)  BY <1>3 DEF Add
<1>4. CASE CountSeen(c)  BY <1>4 DEF CountSeen
<1>5. CASE Pop(c)  BY <1>5 DEF Pop
<1>6. CASE Timeout(c)  BY <1>6 DEF Timeout
<1>. QED  BY <1>1, <1>2, <1>3, <1>4, <1>5, <1>6 DEF Caller

LEMMA BoardUnconcerned ==
    ASSUME safeBoxProcessQueuedElem \/ safeBoxWriteRead \/ UNCHANGED vars
    PROVE  Unconcerned
<1>1. CASE safeBoxProcessQueuedElem
  BY <1>1 DEF Unconcerned, safeBoxProcessQueuedElem, Running
<1>2. CASE safeBoxWriteRead  BY <1>2 DEF Unconcerned, safeBoxWriteRead, Running
<1>3. CASE UNCHANGED vars  BY <1>3 DEF Unconcerned, vars
<1>. QED  BY <1>1, <1>2, <1>3

LEMMA UnconcernedKeeps ==
    ASSUME Configured, Unconcerned
    PROVE  Configured'
BY DEF Configured, Whole, Pending, ConfigReaches, Unconcerned, config, wire, Started,
       OnceMore, Running

LEMMA ConfiguredNext == Configured /\ [Next]_vars => Configured'
<1>. SUFFICES ASSUME Configured, [Next]_vars PROVE Configured'  OBVIOUS
<1>. USE DEF Configured, Whole, Pending, ConfigReaches, Running, Started, OnceMore
<1>1. CASE billAcceptorSetParams  BY <1>1 DEF billAcceptorSetParams, wire, Validators
<1>2. CASE SendConfig  BY <1>2 DEF SendConfig, wire
<1>3. CASE valConfigApplied
  <2>1. /\ thread = "config" /\ thread' # "config"
        /\ UNCHANGED <<valConfig, setting, allConfigured, commError, line, glitch>>
    BY <1>3 DEF valConfigApplied, Polled, wire
  <2>2. CASE line = "up"
    <3>1. boardConfig' = sentConfig  BY <1>3, <2>2 DEF valConfigApplied
    <3>. QED  BY <2>1, <2>2, <3>1
  <2>3. CASE line # "up"
    <3>1. UNCHANGED valConfigPending  BY <1>3, <2>3 DEF valConfigApplied
    <3>2. Whole'  BY <2>1
    <3>3. Pending'  BY <2>1, <3>1
    <3>4. ~ConfigReaches' => ~glitch /\ commError /\ line # "up" /\ ~valConfigPending
      BY <2>1, <2>3, <3>1
    <3>. QED  BY <2>1, <3>2, <3>3, <3>4
  <2>. QED  BY <2>2, <2>3
<1>4. CASE safeBoxGr1GetStatus  BY <1>4 DEF safeBoxGr1GetStatus, wire
<1>5. CASE LineLost  BY <1>5 DEF LineLost
<1>6. CASE LineBack  BY <1>6 DEF LineBack, config
<1>7. CASE safeBoxProcessQueuedElem \/ safeBoxWriteRead \/ UNCHANGED vars
  BY <1>7, BoardUnconcerned, UnconcernedKeeps
<1>8. ASSUME NEW c \in Callers, NEW op \in Operations, NEW d \in Devices, Begin(c, op, d)
      PROVE  Configured'
  BY <1>8, CallersUnconcerned, UnconcernedKeeps
<1>9. ASSUME NEW c \in Callers, Caller(c) PROVE Configured'
  BY <1>9, CallersUnconcerned, UnconcernedKeeps
<1>. QED  BY <1>1, <1>2, <1>3, <1>4, <1>5, <1>6, <1>7, <1>8, <1>9 DEF Next, safeBoxMgrRun

(* Whatever order the validators are set in and the line lost and restored   *)
(* in, a board that has nothing left to be sent has the connection of both   *)
(* validators (glitches of the line aside).                                  *)
THEOREM ConfigReachesAlways == Spec => []ConfigReaches
<1>1. Init => Configured
  BY DEF Init, Configured, Whole, Pending, ConfigReaches, Started, OnceMore, Validators
<1>2. Configured => ConfigReaches  BY DEF Configured
<1>. QED  BY <1>1, <1>2, ConfiguredNext, PTL DEF Spec
-----------------------------------------------------------------------------
(* Why only calls that gave up fill the queue of a device: what is on its    *)
(* way to it, and in it, is at most one more than the calls that gave up     *)
(* while one waits, and no more than them while none does.                   *)
Waiting(d) == {i \in 1 .. Len(queuedActions) : InQueue(d, i)}
Awaited(d) == \E c \in Callers : Waiter(c) /\ call[c].dev = d
One(b) == IF b THEN 1 ELSE 0

Owed(d) ==
    Len(answers[d]) + Cardinality(Waiting(d)) + One(Sent(d)) <= timedOut[d] + One(Awaited(d))

NInv == /\ ~mixed => \A d \in Devices \ shared : Owed(d)
        /\ NeverAborted

LEMMA WaitingFinite ==
    ASSUME Types, NEW d \in Devices
    PROVE  /\ IsFiniteSet(Waiting(d)) /\ Cardinality(Waiting(d)) \in Nat
           /\ Len(answers[d]) \in Nat /\ timedOut[d] \in Nat
<1>1. Len(queuedActions) \in Nat /\ Len(answers[d]) \in Nat /\ timedOut[d] \in Nat
  BY DEF Types
<1>2. IsFiniteSet(1 .. Len(queuedActions))  BY <1>1, FS_Interval
<1>3. IsFiniteSet(Waiting(d))  BY <1>2, FS_Subset DEF Waiting
<1>. QED  BY <1>1, <1>3, FS_CardinalityType

(* The places of a queue count as many commands after the first has left it. *)
LEMMA ShiftedAsMany ==
    ASSUME NEW S \in SUBSET Nat, NEW T \in SUBSET Nat, IsFiniteSet(S), 0 \notin S,
           \A i \in Nat : i \in T <=> i + 1 \in S
    PROVE  Cardinality(T) = Cardinality(S)
<1>. DEFINE f == [j \in S |-> j - 1]
<1>1. \A j \in S : j \in Nat /\ j - 1 \in Nat /\ (j - 1) + 1 = j
  <2>. SUFFICES ASSUME NEW j \in S PROVE j \in Nat /\ j - 1 \in Nat /\ (j - 1) + 1 = j
    OBVIOUS
  <2>1. j \in Nat /\ j # 0  OBVIOUS
  <2>. QED  BY <2>1
<1>2. \A j \in S : j - 1 \in T  BY <1>1
<1>3. f \in [S -> T]  BY <1>2
<1>4. ASSUME NEW i \in T PROVE \E j \in S : f[j] = i
  <2>1. i + 1 \in S /\ (i + 1) - 1 = i  OBVIOUS
  <2>. QED  BY <2>1
<1>5. ASSUME NEW a \in S, NEW b \in S, f[a] = f[b] PROVE a = b
  <2>1. a - 1 = b - 1 /\ a \in Nat /\ b \in Nat  BY <1>5, <1>1
  <2>. QED  BY <2>1
<1>6. f \in Bijection(S, T)
  <2>. HIDE DEF f
  <2>. QED  BY <1>3, <1>4, <1>5 DEF Bijection, Injection, Surjection, IsInjective
<1>7. ExistsBijection(S, T)  BY <1>6 DEF ExistsBijection
<1>. QED  BY <1>7, FS_Bijection

LEMMA OneMonotone ==
    ASSUME NEW a \in BOOLEAN, NEW b \in BOOLEAN, a => b
    PROVE  One(a) <= One(b)
BY DEF One

(* A step that neither gives a command nor takes an answer.                  *)
LEMMA OwedKept ==
    ASSUME Types, NEW d \in Devices, Owed(d),
           UNCHANGED <<queuedActions, answers, timedOut>>,
           Sent(d)' => Sent(d), Awaited(d) => Awaited(d)'
    PROVE  Owed(d)'
<1>1. Waiting(d)' = Waiting(d)  BY DEF Waiting, InQueue
<1>. DEFINE k == Cardinality(Waiting(d))
<1>2. k \in Nat /\ Len(answers[d]) \in Nat /\ timedOut[d] \in Nat  BY WaitingFinite
<1>3. Len(answers[d]) + k + One(Sent(d)) <= timedOut[d] + One(Awaited(d))  BY DEF Owed
<1>4. One(Sent(d)') <= One(Sent(d)) /\ One(Awaited(d)) <= One(Awaited(d)')
  BY OneMonotone DEF Sent, Awaited
<1>5. One(Sent(d)) \in 0 .. 1 /\ One(Sent(d)') \in 0 .. 1  BY DEF One
<1>6. One(Awaited(d)) \in 0 .. 1 /\ One(Awaited(d)') \in 0 .. 1  BY DEF One
<1>7. Len(answers[d]) + k + One(Sent(d)') <= timedOut[d] + One(Awaited(d)')
  <2>. HIDE DEF k
  <2>. QED  BY <1>2, <1>3, <1>4, <1>5, <1>6
<1>. QED  BY <1>1, <1>7 DEF Owed

(* A step of a caller that waits as before, or for nothing.                  *)
Same(c) == \/ Waiter(c) /\ Waiter(c)' /\ call'[c].dev = call[c].dev
           \/ ~Waiter(c) /\ ~Waiter(c)'

LEMMA AwaitedSame ==
    ASSUME NEW d \in Devices, NEW c \in Callers, Others(c),
           \/ call[c].dev # d /\ call'[c].dev = call[c].dev
           \/ Same(c)
    PROVE  Awaited(d)' = Awaited(d)
<1>1. ASSUME Awaited(d) PROVE Awaited(d)'
  <2>1. PICK o \in Callers : Waiter(o) /\ call[o].dev = d  BY <1>1 DEF Awaited
  <2>2. Waiter(o)' /\ call'[o].dev = d  BY <2>1 DEF Others, Waiter, Same
  <2>. QED  BY <2>2 DEF Awaited
<1>2. ASSUME Awaited(d)' PROVE Awaited(d)
  <2>1. PICK o \in Callers : Waiter(o)' /\ call'[o].dev = d  BY <1>2 DEF Awaited
  <2>2. Waiter(o) /\ call[o].dev = d  BY <2>1 DEF Others, Waiter, Same
  <2>. QED  BY <2>2 DEF Awaited
<1>. QED  BY <1>1, <1>2 DEF Awaited

LEMMA QuietOwed ==
    ASSUME Types, NEW d \in Devices, Owed(d), Away
    PROVE  Owed(d)'
<1>1. Sent(d)' => Sent(d)  BY DEF Away, Sent
<1>2. Awaited(d) => Awaited(d)'  BY DEF Away, traffic, Awaited, Waiter
<1>3. UNCHANGED <<queuedActions, answers, timedOut>>  BY DEF Away, traffic
<1>. QED  BY <1>1, <1>2, <1>3, OwedKept

LEMMA BeginOwed ==
    ASSUME Types, NEW d \in Devices, Owed(d), NEW c \in Callers, NEW op, NEW dev,
           Begin(c, op, dev)
    PROVE  Owed(d)'
<1>1. Others(c) /\ pc[c] = "idle" /\ pc'[c] = "begun"
  BY DEF Begin, Goto, Others, Types
<1>2. Same(c)  BY <1>1 DEF Same, Waiter
<1>3. UNCHANGED <<queuedActions, answers, timedOut, thread, current>>  BY DEF Begin
<1>4. Sent(d)' = Sent(d)  BY <1>3 DEF Sent
<1>5. Awaited(d)' = Awaited(d)  BY <1>1, <1>2, AwaitedSame
<1>. QED  BY <1>3, <1>4, <1>5, OwedKept

LEMMA FillOwed ==
    ASSUME Types, NEW d \in Devices, Owed(d), NEW c \in Callers, Fill(c)
    PROVE  Owed(d)'
<1>1. Others(c) /\ pc[c] = "begun" /\ pc'[c] = "add"
  BY DEF Fill, Goto, Others, Types
<1>2. Same(c)  BY <1>1 DEF Same, Waiter
<1>3. UNCHANGED <<queuedActions, answers, timedOut, thread, current>>  BY DEF Fill
<1>4. Sent(d)' = Sent(d)  BY <1>3 DEF Sent
<1>5. Awaited(d)' = Awaited(d)  BY <1>1, <1>2, AwaitedSame
<1>. QED  BY <1>3, <1>4, <1>5, OwedKept

LEMMA CountSeenOwed ==
    ASSUME Types, NEW d \in Devices, Owed(d), NEW c \in Callers, CountSeen(c)
    PROVE  Owed(d)'
<1>1. Others(c) /\ pc[c] = "wait" /\ pc'[c] = "pop" /\ call' = call
  BY DEF CountSeen, Goto, Others, Types
<1>2. Same(c)  BY <1>1 DEF Same, Waiter
<1>3. UNCHANGED <<queuedActions, answers, timedOut, thread, current>>  BY DEF CountSeen
<1>4. Sent(d)' = Sent(d)  BY <1>3 DEF Sent
<1>5. Awaited(d)' = Awaited(d)  BY <1>1, <1>2, AwaitedSame
<1>. QED  BY <1>3, <1>4, <1>5, OwedKept

(* Giving up leaves one more behind than waits; an answer taken, one less.   *)
LEMMA TimeoutOwed ==
    ASSUME Types, NEW d \in Devices, Owed(d), NEW c \in Callers, Timeout(c)
    PROVE  Owed(d)'
<1>1. /\ Others(c) /\ call' = call
      /\ timedOut' = [timedOut EXCEPT ![call[c].dev] = @ + 1]
      /\ UNCHANGED <<queuedActions, answers, thread, current>>
  BY DEF Timeout, Goto, Others, Types
<1>2. Sent(d)' = Sent(d) /\ Waiting(d)' = Waiting(d)
  BY <1>1 DEF Sent, Waiting, InQueue
<1>. DEFINE k == Cardinality(Waiting(d))
<1>3. k \in Nat /\ Len(answers[d]) \in Nat /\ timedOut[d] \in Nat  BY WaitingFinite
<1>4. Len(answers[d]) + k + One(Sent(d)) <= timedOut[d] + One(Awaited(d))  BY DEF Owed
<1>5. One(Sent(d)) \in 0 .. 1 /\ One(Awaited(d)) \in 0 .. 1 /\ One(Awaited(d)') \in 0 .. 1
  BY DEF One
<1>6. timedOut'[d] + One(Awaited(d)') >= timedOut[d] + One(Awaited(d))
  <2>1. CASE call[c].dev = d
    <3>1. timedOut'[d] = timedOut[d] + 1  BY <1>1, <2>1 DEF Types
    <3>. QED  BY <1>3, <1>5, <3>1
  <2>2. CASE call[c].dev # d
    <3>1. Awaited(d)' = Awaited(d)  BY <1>1, <2>2, AwaitedSame
    <3>2. timedOut'[d] = timedOut[d]  BY <1>1, <2>2 DEF Types
    <3>. QED  BY <1>3, <1>5, <3>1, <3>2
  <2>. QED  BY <2>1, <2>2
<1>7. timedOut'[d] \in Nat  BY <1>1, <1>3 DEF Types
<1>8. Len(answers[d]) + k + One(Sent(d)) <= timedOut'[d] + One(Awaited(d)')
  <2>. HIDE DEF k
  <2>. QED  BY <1>3, <1>4, <1>5, <1>6, <1>7
<1>. QED  BY <1>1, <1>2, <1>8 DEF Owed

LEMMA TailOneLess ==
    ASSUME NEW S, NEW s \in Seq(S), s # <<>>
    PROVE  Len(Tail(s)) + 1 = Len(s)
OBVIOUS

LEMMA PopOwed ==
    ASSUME Types, NEW d \in Devices, Owed(d), NEW c \in Callers, Pop(c)
    PROVE  Owed(d)'
<1>. DEFINE dev == call[c].dev
<1>1. /\ answers[dev] # <<>> /\ answers' = [answers EXCEPT ![dev] = Tail(@)]
      /\ UNCHANGED <<timedOut, queuedActions, thread, current>>
  BY DEF Pop
<1>2. PICK to \in {"begun", "idle"} : pc' = [pc EXCEPT ![c] = to]
  BY DEF Pop, Goto
<1>3. UNCHANGED call \/ call' = [call EXCEPT ![c].n = @ + 1]
  BY DEF Pop, Another
<1>4. call[c] \in Cmd  BY DEF Types
<1>5. Others(c) /\ call'[c].dev = dev
  BY <1>2, <1>3, <1>4 DEF Others, Types, Cmd
<1>6. Sent(d)' = Sent(d) /\ Waiting(d)' = Waiting(d)
  BY <1>1 DEF Sent, Waiting, InQueue
<1>. DEFINE k == Cardinality(Waiting(d))
<1>7. k \in Nat /\ Len(answers[d]) \in Nat /\ timedOut[d] \in Nat  BY WaitingFinite
<1>8. Len(answers[d]) + k + One(Sent(d)) <= timedOut[d] + One(Awaited(d))  BY DEF Owed
<1>9. One(Sent(d)) \in 0 .. 1 /\ One(Awaited(d)) \in 0 .. 1 /\ One(Awaited(d)') \in 0 .. 1
  BY DEF One
<1>10. /\ Len(answers'[d]) \in Nat
       /\ Len(answers'[d]) + One(Awaited(d)) <= Len(answers[d]) + One(Awaited(d)')
  <2>1. CASE dev = d
    <3>1. answers[d] \in Seq([of: Cmd, read: BOOLEAN])  BY DEF Types
    <3>2. answers'[d] = Tail(answers[d])  BY <1>1, <2>1 DEF Types
    <3>3. Tail(answers[d]) \in Seq([of: Cmd, read: BOOLEAN])  BY <1>1, <2>1, <3>1
    <3>4. Len(answers'[d]) + 1 = Len(answers[d])  BY <1>1, <2>1, <3>1, <3>2, TailOneLess
    <3>5. Len(answers'[d]) \in Nat  BY <3>2, <3>3
    <3>. QED  BY <1>7, <1>9, <3>4, <3>5
  <2>2. CASE dev # d
    <3>1. Awaited(d)' = Awaited(d)  BY <1>5, <2>2, AwaitedSame
    <3>2. answers'[d] = answers[d]  BY <1>1, <2>2 DEF Types
    <3>. QED  BY <1>7, <1>9, <3>1, <3>2
  <2>. QED  BY <2>1, <2>2
<1>11. Len(answers'[d]) + k + One(Sent(d)) <= timedOut[d] + One(Awaited(d)')
  <2>. DEFINE m == Len(answers[d])
              n == Len(answers'[d])
              owed == timedOut[d]
  <2>1. m \in Nat /\ n \in Nat /\ owed \in Nat /\ k \in Nat  BY <1>7, <1>10
  <2>2. m + k + One(Sent(d)) <= owed + One(Awaited(d))  BY <1>8
  <2>3. n + One(Awaited(d)) <= m + One(Awaited(d)')  BY <1>10
  <2>. HIDE DEF k, m, n, owed
  <2>4. n + k + One(Sent(d)) <= owed + One(Awaited(d)')  BY <1>9, <2>1, <2>2, <2>3
  <2>. QED  BY <2>4 DEF n, owed
<1>. QED  BY <1>1, <1>6, <1>11 DEF Owed

(* A command is given by a call that is alone on the device.                 *)
LEMMA AddOwed ==
    ASSUME IInv, NEW d \in Devices, d \notin shared, Owed(d), NEW c \in Callers, Add(c),
           ~mixed'
    PROVE  Owed(d)'
<1>. DEFINE dev == call[c].dev
            last == Len(queuedActions) + 1
<1>1. /\ pc[c] = "add" /\ queuedActions' = Append(queuedActions, qElem)
      /\ mixed' = (mixed \/ qElem # call[c])
      /\ UNCHANGED <<call, timedOut, answers, thread, current>>
  BY DEF Add
<1>2. \/ Waits(call[c].op) /\ pc' = [pc EXCEPT ![c] = "wait"]
      \/ ~Waits(call[c].op) /\ pc' = [pc EXCEPT ![c] = "idle"]
  BY DEF Add, Goto
<1>3. Types  BY DEF IInv
<1>4. /\ Others(c) /\ pc'[c] \in {"wait", "idle"}
      /\ pc'[c] = "wait" <=> Waits(call[c].op)
  BY <1>1, <1>2, <1>3 DEF Others, Types
<1>5. qElem = call[c] /\ qElem \in Cmd /\ queuedActions \in Seq(Cmd)
  BY <1>1, <1>3 DEF Types
<1>6. /\ \A i \in Nat : i # last =>
           /\ i \in 1 .. Len(queuedActions') <=> i \in 1 .. Len(queuedActions)
           /\ i \in 1 .. Len(queuedActions) => queuedActions'[i] = queuedActions[i]
      /\ last \in 1 .. Len(queuedActions') /\ queuedActions'[last] = qElem
      /\ last \in Nat /\ last \notin 1 .. Len(queuedActions)
  BY <1>1, <1>5
<1>7. Sent(d)' = Sent(d)  BY <1>1 DEF Sent
<1>. DEFINE k == Cardinality(Waiting(d))
            m == Len(answers[d])
            owed == timedOut[d]
<1>8. k \in Nat /\ m \in Nat /\ owed \in Nat /\ IsFiniteSet(Waiting(d))
  BY <1>3, WaitingFinite
<1>9. m + k + One(Sent(d)) <= owed + One(Awaited(d))  BY DEF Owed
<1>10. One(Sent(d)) \in 0 .. 1  BY DEF One
<1>11. CASE dev = d /\ Waits(call[c].op)
  <2>1. ~Awaited(d)
    <3>. SUFFICES ASSUME NEW o \in Callers, Waiter(o), call[o].dev = d PROVE FALSE
      BY DEF Awaited
    <3>1. Busy(o) /\ Busy(c) /\ Waits(call[o].op) /\ o # c
      BY <1>1 DEF IInv, Kinds, Busy, Waiter
    <3>. QED  BY <1>11, <3>1, Alone DEF IInv
  <2>2. Awaited(d)'
    <3>1. Waiter(c)' /\ call'[c].dev = d  BY <1>1, <1>4, <1>11 DEF Waiter
    <3>. QED  BY <3>1 DEF Awaited
  <2>3. \A i \in Nat : InQueue(d, i)' <=> InQueue(d, i) \/ i = last
    BY <1>5, <1>6, <1>11 DEF InQueue
  <2>4. Waiting(d)' = Waiting(d) \cup {last} /\ last \notin Waiting(d)
    BY <1>6, <2>3 DEF Waiting, InQueue
  <2>5. Cardinality(Waiting(d)') = k + 1  BY <1>8, <2>4, FS_AddElement
  <2>6. One(Awaited(d)) = 0 /\ One(Awaited(d)') = 1  BY <2>1, <2>2 DEF One
  <2>7. m + (k + 1) + One(Sent(d)) <= owed + One(Awaited(d)')
    <3>. HIDE DEF k, m, owed
    <3>. QED  BY <1>8, <1>9, <1>10, <2>6
  <2>8. Len(answers'[d]) = m /\ timedOut'[d] = owed  BY <1>1
  <2>. QED  BY <1>7, <2>5, <2>7, <2>8 DEF Owed
<1>12. CASE ~(dev = d /\ Waits(call[c].op))
  <2>1. \A i \in Nat : InQueue(d, i)' <=> InQueue(d, i)
    BY <1>5, <1>6, <1>12 DEF InQueue
  <2>2. Waiting(d)' = Waiting(d)  BY <2>1 DEF Waiting, InQueue
  <2>3. Awaited(d)' = Awaited(d)
    <3>1. call'[c].dev = call[c].dev /\ ~Waiter(c)  BY <1>1 DEF Waiter
    <3>2. CASE Waits(call[c].op)  BY <1>4, <1>12, <3>1, <3>2, AwaitedSame
    <3>3. CASE ~Waits(call[c].op)
      <4>1. Same(c)  BY <1>4, <3>1, <3>3 DEF Same, Waiter
      <4>. QED  BY <1>4, <4>1, AwaitedSame
    <3>. QED  BY <3>2, <3>3
  <2>4. Len(answers'[d]) = m /\ timedOut'[d] = owed  BY <1>1
  <2>. QED  BY <1>7, <1>9, <2>2, <2>3, <2>4 DEF Owed
<1>. QED  BY <1>11, <1>12

(* Sending a command and answering it leave what is owed as it was.          *)
LEMMA ProcessOwed ==
    ASSUME Types, NEW d \in Devices, Owed(d), safeBoxProcessQueuedElem,
           queuedActions # <<>>
    PROVE  Owed(d)'
<1>1. /\ thread = "queue" /\ thread' = "answer" /\ current' = Head(queuedActions)
      /\ queuedActions' = Tail(queuedActions)
      /\ UNCHANGED <<pc, call, answers, timedOut>>
  BY DEF safeBoxProcessQueuedElem, callers
<1>2. queuedActions \in Seq(Cmd)  BY DEF Types
<1>3. /\ Head(queuedActions) = queuedActions[1]
      /\ Len(Tail(queuedActions)) = Len(queuedActions) - 1
      /\ \A i \in 1 .. Len(queuedActions) - 1 : Tail(queuedActions)[i] = queuedActions[i + 1]
      /\ Len(queuedActions) \in Nat \ {0}
  BY <1>2
<1>4. ~Sent(d) /\ (Sent(d)' <=> InQueue(d, 1))
  BY <1>1, <1>3 DEF Sent, InQueue
<1>5. Awaited(d)' = Awaited(d)  BY <1>1 DEF Awaited, Waiter
<1>. DEFINE k == Cardinality(Waiting(d))
            next == Cardinality(Waiting(d)')
            m == Len(answers[d])
            owed == timedOut[d]
<1>6. k \in Nat /\ m \in Nat /\ owed \in Nat /\ IsFiniteSet(Waiting(d))
  BY WaitingFinite
<1>7. next + One(InQueue(d, 1)) = k
  <2>. DEFINE S == Waiting(d) \ {1}
              T == Waiting(d)'
  <2>1. IsFiniteSet(S) /\ Cardinality(S) + One(InQueue(d, 1)) = k
    <3>1. 1 \in Waiting(d) <=> InQueue(d, 1)  BY <1>3 DEF Waiting
    <3>2. /\ IsFiniteSet(S)
          /\ Cardinality(S) = IF 1 \in Waiting(d) THEN k - 1 ELSE k
      BY <1>6, FS_RemoveElement
    <3>. HIDE DEF k, S
    <3>. QED  BY <1>6, <3>1, <3>2 DEF One
  <2>2. S \in SUBSET Nat /\ T \in SUBSET Nat /\ 0 \notin S  BY DEF Waiting
  <2>3. ASSUME NEW i \in Nat PROVE i \in T <=> i + 1 \in S
    <3>1. i \in T <=> i \in 1 .. Len(queuedActions') /\ queuedActions'[i].dev = d
                      /\ Waits(queuedActions'[i].op)
      BY DEF Waiting, InQueue
    <3>2. i + 1 \in S <=> i + 1 \in 1 .. Len(queuedActions) /\ i + 1 # 1
                          /\ queuedActions[i + 1].dev = d /\ Waits(queuedActions[i + 1].op)
      BY DEF Waiting, InQueue
    <3>3. i \in 1 .. Len(queuedActions') <=> i + 1 \in 1 .. Len(queuedActions) /\ i + 1 # 1
      BY <1>1, <1>3
    <3>4. i \in 1 .. Len(queuedActions') => queuedActions'[i] = queuedActions[i + 1]
      BY <1>1, <1>3
    <3>. QED  BY <3>1, <3>2, <3>3, <3>4
  <2>4. Cardinality(T) = Cardinality(S)
    <3>. HIDE DEF S, T
    <3>. QED  BY <2>1, <2>2, <2>3, ShiftedAsMany
  <2>. QED  BY <2>1, <2>4
<1>8. m + k + One(Sent(d)) <= owed + One(Awaited(d))  BY DEF Owed
<1>9. One(Sent(d)) = 0 /\ One(Sent(d)') = One(InQueue(d, 1))  BY <1>4 DEF One
<1>10. One(InQueue(d, 1)) \in 0 .. 1 /\ One(Awaited(d)) \in 0 .. 1  BY DEF One
<1>11. m + next + One(Sent(d)') <= owed + One(Awaited(d))
  <2>1. next = k - One(InQueue(d, 1))
    <3>1. IsFiniteSet(Waiting(d)')
      <4>1. Len(queuedActions') \in Nat  BY <1>1, <1>3
      <4>2. IsFiniteSet(1 .. Len(queuedActions'))  BY <4>1, FS_Interval
      <4>. QED  BY <4>2, FS_Subset DEF Waiting
    <3>2. next \in Nat  BY <3>1, FS_CardinalityType
    <3>. HIDE DEF k, next
    <3>. QED  BY <1>6, <1>7, <1>10, <3>2
  <2>. HIDE DEF k, next, m, owed
  <2>. QED  BY <1>6, <1>8, <1>9, <1>10, <2>1
<1>12. Len(answers'[d]) = m /\ timedOut'[d] = owed  BY <1>1
<1>. QED  BY <1>5, <1>11, <1>12 DEF Owed

LEMMA AppendOneMore ==
    ASSUME NEW S, NEW s \in Seq(S), NEW e
    PROVE  Len(Append(s, e)) = Len(s) + 1
OBVIOUS

LEMMA WriteReadOwed ==
    ASSUME Types, NEW d \in Devices, Owed(d), safeBoxWriteRead
    PROVE  Owed(d)'
<1>. DEFINE answer == [of |-> current, read |-> line = "up"]
            appended == [answers EXCEPT ![current.dev] = Append(@, answer)]
<1>1. /\ thread = "answer" /\ thread' # "answer"
      /\ UNCHANGED <<pc, call, timedOut, queuedActions>>
      /\ \/ answers' = answers
         \/ answers' = appended /\ Waits(current.op)
  BY DEF safeBoxWriteRead, callers, Answers
<1>2. Waiting(d)' = Waiting(d) /\ Awaited(d)' = Awaited(d) /\ ~Sent(d)'
  BY <1>1 DEF Waiting, InQueue, Awaited, Waiter, Sent
<1>. DEFINE k == Cardinality(Waiting(d))
            m == Len(answers[d])
            n == Len(answers'[d])
            owed == timedOut[d]
<1>3. k \in Nat /\ m \in Nat /\ owed \in Nat  BY WaitingFinite
<1>4. m + k + One(Sent(d)) <= owed + One(Awaited(d))  BY DEF Owed
<1>5. n \in Nat /\ n <= m + One(Sent(d))
  <2>1. CASE answers'[d] = answers[d]
    <3>1. n = m /\ One(Sent(d)) \in 0 .. 1  BY <2>1 DEF One
    <3>. HIDE DEF n, m
    <3>. QED  BY <1>3, <3>1
  <2>2. CASE answers'[d] # answers[d]
    <3>1. current.dev = d /\ Waits(current.op) /\ answers'[d] = Append(answers[d], answer)
      BY <1>1, <2>2 DEF Types
    <3>2. Sent(d)  BY <1>1, <3>1 DEF Sent
    <3>3. answers[d] \in Seq([of: Cmd, read: BOOLEAN])  BY DEF Types
    <3>4. n = m + 1
      <4>. HIDE DEF answer
      <4>. QED  BY <3>1, <3>3, AppendOneMore
    <3>5. One(Sent(d)) = 1  BY <3>2 DEF One
    <3>. HIDE DEF n, m
    <3>. QED  BY <1>3, <3>4, <3>5
  <2>. QED  BY <2>1, <2>2
<1>6. One(Sent(d)') = 0 /\ One(Sent(d)) \in 0 .. 1 /\ One(Awaited(d)) \in 0 .. 1
  BY <1>2 DEF One
<1>7. n + k + One(Sent(d)') <= owed + One(Awaited(d))
  <2>. HIDE DEF k, m, n, owed
  <2>. QED  BY <1>3, <1>4, <1>5, <1>6
<1>. QED  BY <1>1, <1>2, <1>7 DEF Owed

-----------------------------------------------------------------------------
(* The program ends only where an answer finds no place.                     *)
Overflow ==
    /\ thread = "answer" /\ Waits(current.op) /\ Len(answers[current.dev]) = AnswerCount
    /\ UNCHANGED <<current, timedOut, shared, mixed>>

LEMMA OnlyOverflow ==
    ASSUME [Next]_vars, thread' = "aborted"
    PROVE  UNCHANGED <<thread, current, timedOut, shared, mixed>> \/ Overflow
<1>. USE DEF config, wire, callers
<1>1. CASE billAcceptorSetParams  BY <1>1 DEF billAcceptorSetParams
<1>2. CASE SendConfig  BY <1>2 DEF SendConfig
<1>3. CASE valConfigApplied  BY <1>3 DEF valConfigApplied, Polled
<1>4. CASE safeBoxGr1GetStatus  BY <1>4 DEF safeBoxGr1GetStatus
<1>5. CASE LineLost \/ LineBack  BY <1>5 DEF LineLost, LineBack
<1>6. CASE safeBoxProcessQueuedElem  BY <1>6 DEF safeBoxProcessQueuedElem
<1>7. CASE safeBoxWriteRead  BY <1>7 DEF safeBoxWriteRead, Answers, Overflow
<1>8. CASE UNCHANGED vars  BY <1>8 DEF vars
<1>9. ASSUME Running, thread' = thread PROVE FALSE  BY <1>9 DEF Running
<1>10. ASSUME NEW c \in Callers, NEW op \in Operations, NEW d \in Devices, Begin(c, op, d)
       PROVE  FALSE
  BY <1>9, <1>10 DEF Begin
<1>11. ASSUME NEW c \in Callers, Caller(c) PROVE FALSE
  BY <1>9, <1>11 DEF Caller, Fill, Add, CountSeen, Pop, Timeout
<1>. QED  BY <1>1, <1>2, <1>3, <1>4, <1>5, <1>6, <1>7, <1>8, <1>10, <1>11
          DEF Next, safeBoxMgrRun

LEMMA OverflowOwed ==
    ASSUME Types, Overflow, Owed(current.dev)
    PROVE  timedOut[current.dev] >= AnswerCount
<1>. DEFINE d == current.dev
            k == Cardinality(Waiting(d))
            owed == timedOut[d]
<1>1. d \in Devices /\ Sent(d)  BY DEF Types, Overflow, Cmd, Sent
<1>2. k \in Nat /\ owed \in Nat  BY <1>1, WaitingFinite
<1>3. AnswerCount + k + One(Sent(d)) <= owed + One(Awaited(d))
  BY <1>1 DEF Overflow, Owed
<1>4. One(Sent(d)) = 1 /\ One(Awaited(d)) \in 0 .. 1  BY <1>1 DEF One
<1>5. AnswerCount \in Nat  BY SafeBoxAssumption
<1>6. owed >= AnswerCount
  <2>. HIDE DEF k, owed, d
  <2>. QED  BY <1>2, <1>3, <1>4, <1>5
<1>. QED  BY <1>6

LEMMA MixedStays == ASSUME IInv, [Next]_vars, ~mixed' PROVE ~mixed
<1>. USE DEF config, wire, callers
<1>1. ASSUME NEW c \in Callers, NEW op \in Operations, NEW d \in Devices, Begin(c, op, d)
      PROVE  ~mixed
  BY <1>1 DEF Begin
<1>2. ASSUME NEW c \in Callers, Caller(c) PROVE ~mixed
  BY <1>2 DEF Caller, Fill, Add, CountSeen, Pop, Timeout
<1>. QED
  BY <1>1, <1>2 DEF Next, safeBoxMgrRun, billAcceptorSetParams, SendConfig,
     valConfigApplied, safeBoxGr1GetStatus, safeBoxProcessQueuedElem, safeBoxWriteRead,
     LineLost, LineBack, vars

LEMMA SharedStays == ASSUME IInv, [Next]_vars PROVE shared \subseteq shared'
<1>. USE DEF config, wire, callers
<1>1. ASSUME NEW c \in Callers, NEW op \in Operations, NEW d \in Devices, Begin(c, op, d)
      PROVE  shared \subseteq shared'
  BY <1>1 DEF Begin
<1>2. ASSUME NEW c \in Callers, Caller(c) PROVE shared \subseteq shared'
  BY <1>2 DEF Caller, Fill, Add, CountSeen, Pop, Timeout
<1>. QED
  BY <1>1, <1>2 DEF Next, safeBoxMgrRun, billAcceptorSetParams, SendConfig,
     valConfigApplied, safeBoxGr1GetStatus, safeBoxProcessQueuedElem, safeBoxWriteRead,
     LineLost, LineBack, vars

LEMMA OwedNext ==
    ASSUME IInv, [Next]_vars, ~mixed', NEW d \in Devices, d \notin shared, Owed(d)
    PROVE  Owed(d)'
<1>. USE DEF IInv
<1>1. CASE \/ billAcceptorSetParams \/ LineLost \/ LineBack \/ UNCHANGED vars
           \/ SendConfig \/ valConfigApplied \/ safeBoxGr1GetStatus
           \/ safeBoxProcessQueuedElem /\ queuedActions = <<>>
  BY <1>1, AwaySteps, QuietOwed
<1>2. CASE safeBoxProcessQueuedElem /\ queuedActions # <<>>  BY <1>2, ProcessOwed
<1>3. CASE safeBoxWriteRead  BY <1>3, WriteReadOwed
<1>4. ASSUME NEW c \in Callers, NEW op \in Operations, NEW e \in Devices, Begin(c, op, e)
      PROVE  Owed(d)'
  BY <1>4, BeginOwed
<1>5. ASSUME NEW c \in Callers, Caller(c) PROVE Owed(d)'
  <2>1. CASE Fill(c)  BY <2>1, FillOwed
  <2>2. CASE Add(c)  BY <2>2, AddOwed
  <2>3. CASE CountSeen(c)  BY <2>3, CountSeenOwed
  <2>4. CASE Pop(c)  BY <2>4, PopOwed
  <2>5. CASE Timeout(c)  BY <2>5, TimeoutOwed
  <2>. QED  BY <1>5, <2>1, <2>2, <2>3, <2>4, <2>5 DEF Caller
<1>. QED  BY <1>1, <1>2, <1>3, <1>4, <1>5 DEF Next, safeBoxMgrRun

LEMMA NInvNext == IInv /\ NInv /\ [Next]_vars => NInv'
<1>. SUFFICES ASSUME IInv, NInv, [Next]_vars PROVE NInv'  OBVIOUS
<1>1. ~mixed' => \A d \in Devices \ shared' : Owed(d)'
  BY MixedStays, SharedStays, OwedNext DEF NInv
<1>2. NeverAborted'
  <2>. SUFFICES ASSUME thread' = "aborted", current'.dev \notin shared', ~mixed'
                PROVE  timedOut'[current'.dev] >= AnswerCount
    BY DEF NeverAborted
  <2>1. ~mixed  BY MixedStays
  <2>2. CASE Overflow
    <3>1. current.dev \in Devices \ shared
      BY <2>2 DEF Overflow, IInv, Types, Cmd
    <3>2. timedOut[current.dev] >= AnswerCount
      BY <2>1, <2>2, <3>1, OverflowOwed DEF IInv, NInv
    <3>. QED  BY <2>2, <3>2 DEF Overflow
  <2>3. CASE UNCHANGED <<thread, current, timedOut, shared, mixed>>
    BY <2>1, <2>3 DEF NInv, NeverAborted
  <2>. QED  BY <2>2, <2>3, OnlyOverflow
<1>. QED  BY <1>1, <1>2 DEF NInv

(* However many threads call and however often the line is lost, the queue   *)
(* of a device overflows, which ends the program, only once as many calls on *)
(* the device have given up as it has places, unless two threads opened its  *)
(* lock, or filled the global element of safeBoxMgr.m, at once.              *)
THEOREM NeverAbortedAlways == Spec => []NeverAborted
<1>1. Init => NInv
  <2>. SUFFICES ASSUME Init PROVE NInv  OBVIOUS
  <2>1. NeverAborted  BY DEF Init, NeverAborted
  <2>2. ASSUME NEW d \in Devices PROVE Owed(d)
    <3>1. Waiting(d) = {}  BY DEF Init, Waiting
    <3>2. Cardinality(Waiting(d)) = 0  BY <3>1, FS_EmptySet
    <3>3. ~Sent(d) /\ ~Awaited(d) /\ Len(answers[d]) = 0 /\ timedOut[d] = 0
      BY DEF Init, Sent, Awaited, Waiter
    <3>. QED  BY <3>2, <3>3 DEF Owed, One
  <2>. QED  BY <2>1, <2>2 DEF NInv
<1>2. NInv => NeverAborted  BY DEF NInv
<1>. QED  BY <1>1, <1>2, NInvNext, Invariance, PTL DEF Spec
=============================================================================
