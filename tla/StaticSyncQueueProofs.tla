------------------------- MODULE StaticSyncQueueProofs -------------------------
(***************************************************************************)
(* The queue between threads, for any number of producers and consumers    *)
(* and any size: no consumer the semaphore let through finds it empty, and *)
(* the circular buffer is a first in, first out queue.                     *)
(***************************************************************************)
EXTENDS StaticSyncQueue, FiniteSetTheorems, SequenceTheorems, TLAPS

(* Where the mutex is held, unless an exception left the method. *)
Inside == {"qAdd", "qAdded", "pushUnLock", "qGetElement", "qRemove", "popUnLock"}

Places == Inside \cup {"idle", "pushLock", "post", "thrown", "popLock"}

(* Consumers the semaphore let through, and pushes not yet announced to it. *)
Through == {c \in Consumers : pc[c] \in {"popLock", "qGetElement", "qRemove"}}
Announcing == {p \in Producers : pc[p] \in {"pushUnLock", "post"}}

(* The place of the element number i, the oldest being 0. *)
Slot(i) == (indexFirst + i) % MaxCount

Control ==
    /\ pc \in [Threads -> Places]
    /\ \A p \in Producers :
         pc[p] \in {"idle", "pushLock", "qAdd", "qAdded", "pushUnLock", "post", "thrown"}
    /\ \A c \in Consumers :
         pc[c] \in {"idle", "popLock", "qGetElement", "qRemove", "popUnLock"}
    /\ \A p \in Producers : pc[p] # "idle" => pushes[p] # 0

Exclusive == \A t \in Threads : pc[t] \in Inside => myMutex = t

(* The elements stand one after another from the first. *)
Ring ==
    /\ indexLast = Slot(count)
    /\ \A i \in 0 .. MaxCount - 1 : i < count => buf[Slot(i)] \in Element

Halfway ==
    /\ \A p \in Producers : pc[p] = "qAdded" =>
         count < MaxCount /\ buf[indexLast] = <<p, pushes[p]>>
    /\ \A c \in Consumers : pc[c] = "qRemove" => got[c] = buf[indexFirst]

(* Each element is counted by the semaphore, or is on its way in or out. *)
Announced ==
    /\ IsFiniteSet(Through) /\ IsFiniteSet(Announcing)
    /\ mySem + Cardinality(Through) + Cardinality(Announcing) = count

IInv == TypeOK /\ Control /\ Exclusive /\ Ring /\ Halfway /\ Announced /\ NeverEmpty
-----------------------------------------------------------------------------
(* The places of the ring. *)
LEMMA Modulo ==
    \A m \in Nat \ {0}, a \in Nat :
        /\ a < m => a % m = a
        /\ a >= m /\ a < 2 * m => a % m = a - m
<1>. SUFFICES ASSUME NEW m \in Nat \ {0}, NEW a \in Nat
              PROVE  /\ a < m => a % m = a
                     /\ a >= m /\ a < 2 * m => a % m = a - m
  OBVIOUS
<1>1. CASE a < m  BY <1>1
<1>2. CASE a >= m /\ a < 2 * m
  <2>. DEFINE b == a - m
  <2>1. b \in Nat /\ b < m  BY <1>2
  <2>2. b % m = b  BY <2>1
  <2>3. (b + m) % m = b % m  BY <2>1
  <2>. QED  BY <1>2, <2>1, <2>2, <2>3
<1>. QED  BY <1>1, <1>2

LEMMA NextPlace ==
    \A k \in 0 .. MaxCount - 1 :
        (k + 1) % MaxCount = IF k + 1 < MaxCount THEN k + 1 ELSE 0
<1>. SUFFICES ASSUME NEW k \in 0 .. MaxCount - 1
              PROVE  (k + 1) % MaxCount = IF k + 1 < MaxCount THEN k + 1 ELSE 0
  OBVIOUS
<1>1. MaxCount \in Nat \ {0}  BY QueueAssumption
<1>2. \A a \in Nat : /\ a < MaxCount => a % MaxCount = a
                    /\ a >= MaxCount /\ a < 2 * MaxCount => a % MaxCount = a - MaxCount
  BY <1>1, Modulo
<1>3. CASE k + 1 < MaxCount  BY <1>1, <1>2, <1>3
<1>4. CASE k + 1 = MaxCount  BY <1>1, <1>2, <1>4
<1>. QED  BY <1>1, <1>3, <1>4

LEMMA SlotFacts ==
    ASSUME TypeOK
    PROVE  /\ \A i \in 0 .. MaxCount :
                /\ indexFirst + i < MaxCount => Slot(i) = indexFirst + i
                /\ indexFirst + i >= MaxCount => Slot(i) = indexFirst + i - MaxCount
                /\ Slot(i) \in 0 .. MaxCount - 1
           /\ \A i, j \in 0 .. MaxCount - 1 : Slot(i) = Slot(j) => i = j
<1>1. MaxCount \in Nat \ {0}  BY QueueAssumption
<1>2. indexFirst \in 0 .. MaxCount - 1  BY DEF TypeOK
<1>3. ASSUME NEW i \in 0 .. MaxCount
      PROVE  /\ indexFirst + i < MaxCount => Slot(i) = indexFirst + i
             /\ indexFirst + i >= MaxCount => Slot(i) = indexFirst + i - MaxCount
             /\ Slot(i) \in 0 .. MaxCount - 1
  <2>1. /\ indexFirst + i < MaxCount => (indexFirst + i) % MaxCount = indexFirst + i
        /\ indexFirst + i >= MaxCount =>
             (indexFirst + i) % MaxCount = (indexFirst + i) - MaxCount
    <3>1. \A a \in Nat : /\ a < MaxCount => a % MaxCount = a
                        /\ a >= MaxCount /\ a < 2 * MaxCount => a % MaxCount = a - MaxCount
      BY <1>1, Modulo
    <3>. QED  BY <1>1, <1>2, <3>1
  <2>. QED  BY <1>1, <1>2, <2>1 DEF Slot
<1>4. \A i, j \in 0 .. MaxCount - 1 : Slot(i) = Slot(j) => i = j
  <2>. TAKE i, j \in 0 .. MaxCount - 1
  <2>1. i \in 0 .. MaxCount /\ j \in 0 .. MaxCount  BY <1>1
  <2>. QED  BY <1>1, <1>2, <1>3, <2>1
<1>. QED  BY <1>3, <1>4

(* One thread moves, the others stay. *)
Moved(t, to) ==
    /\ pc' \in [Threads -> Places] /\ pc'[t] = to
    /\ \A u \in Threads \ {t} : pc'[u] = pc[u]
    /\ t \in Producers => \A c \in Consumers : pc'[c] = pc[c]
    /\ t \in Consumers => \A p \in Producers : pc'[p] = pc[p]

LEMMA Moves ==
    ASSUME Control, NEW t \in Threads, NEW from, NEW to \in Places, Goto(t, from, to)
    PROVE  Moved(t, to)
<1>1. pc \in [Threads -> Places]  BY DEF Control
<1>2. pc' \in [Threads -> Places] /\ pc'[t] = to /\ \A u \in Threads \ {t} : pc'[u] = pc[u]
  BY <1>1 DEF Goto
<1>3. Producers \cap Consumers = {} /\ Threads = Producers \cup Consumers
  BY QueueAssumption DEF Threads
<1>. QED  BY <1>2, <1>3 DEF Moved

LEMMA SomeInside ==
    ASSUME Exclusive, NEW t \in Threads, NEW u \in Threads,
           pc[t] \in Inside, pc[u] \in Inside
    PROVE  t = u
BY DEF Exclusive

(* Steps that leave the queue and the semaphore alone. *)
LEMMA SameAnnounced ==
    ASSUME Announced, UNCHANGED <<mySem, count>>,
           \A c \in Consumers : pc'[c] \in {"popLock", "qGetElement", "qRemove"} <=>
                                pc[c] \in {"popLock", "qGetElement", "qRemove"},
           \A p \in Producers : pc'[p] \in {"pushUnLock", "post"} <=>
                                pc[p] \in {"pushUnLock", "post"}
    PROVE  Announced'
<1>1. Through' = Through /\ Announcing' = Announcing  BY DEF Through, Announcing
<1>. QED  BY <1>1 DEF Announced

LEMMA SameRing ==
    ASSUME Ring, UNCHANGED queue
    PROVE  Ring'
BY DEF Ring, Slot, queue

LEMMA LockInv ==
    ASSUME IInv, NEW t \in Threads, NEW from, NEW to, lock(t, from, to),
           \/ t \in Producers /\ from = "pushLock" /\ to = "qAdd"
           \/ t \in Consumers /\ from = "popLock" /\ to = "qGetElement"
    PROVE  IInv'
<1>. USE DEF IInv
<1>1. /\ myMutex = NoThread /\ myMutex' = t /\ pc[t] = from /\ pc' = [pc EXCEPT ![t] = to]
      /\ UNCHANGED <<buf, indexFirst, indexLast, count, mySem, pushes, got, taken, failed>>
  BY DEF lock, Goto, queue
<1>2. /\ pc' \in [Threads -> Places] /\ pc'[t] = to
      /\ \A u \in Threads \ {t} : pc'[u] = pc[u]
      /\ t \in Producers => \A c \in Consumers : pc'[c] = pc[c]
      /\ t \in Consumers => \A p \in Producers : pc'[p] = pc[p]
  <2>1. Control /\ Goto(t, from, to)  BY DEF lock
  <2>2. t \in Threads /\ to \in Places  BY DEF Threads, Places, Inside
  <2>3. Moved(t, to)  BY <2>1, <2>2, Moves
  <2>. QED  BY <2>3 DEF Moved
<1>3. \A u \in Threads : pc[u] \notin Inside  BY <1>1, QueueAssumption DEF Exclusive, Threads
<1>4. TypeOK'  BY <1>1 DEF TypeOK
<1>5. Control'  BY <1>1, <1>2 DEF Control, Threads
<1>6. Exclusive'  BY <1>1, <1>2, <1>3 DEF Exclusive
<1>7. Ring'  BY <1>1, SameRing DEF queue
<1>8. Halfway'  BY <1>1, <1>2, <1>3 DEF Halfway, Threads, Inside
<1>9. Announced'  BY <1>1, <1>2, SameAnnounced DEF Threads
<1>10. NeverEmpty'  BY <1>1 DEF NeverEmpty
<1>. QED  BY <1>4, <1>5, <1>6, <1>7, <1>8, <1>9, <1>10

LEMMA UnLockInv ==
    ASSUME IInv, NEW t \in Threads, NEW from, NEW to, unLock(t, from, to),
           \/ t \in Producers /\ from = "pushUnLock" /\ to = "post"
           \/ t \in Consumers /\ from = "popUnLock" /\ to = "idle"
    PROVE  IInv'
<1>. USE DEF IInv
<1>1. /\ myMutex' = NoThread /\ pc[t] = from /\ pc' = [pc EXCEPT ![t] = to]
      /\ UNCHANGED <<buf, indexFirst, indexLast, count, mySem, pushes, got, taken, failed>>
  BY DEF unLock, Goto, queue
<1>2. /\ pc' \in [Threads -> Places] /\ pc'[t] = to
      /\ \A u \in Threads \ {t} : pc'[u] = pc[u]
      /\ t \in Producers => \A c \in Consumers : pc'[c] = pc[c]
      /\ t \in Consumers => \A p \in Producers : pc'[p] = pc[p]
  <2>1. Control /\ Goto(t, from, to)  BY DEF unLock
  <2>2. t \in Threads /\ to \in Places  BY DEF Threads, Places, Inside
  <2>3. Moved(t, to)  BY <2>1, <2>2, Moves
  <2>. QED  BY <2>3 DEF Moved
<1>3. pc[t] \in Inside /\ \A u \in Threads \ {t} : pc[u] \notin Inside
  BY <1>1, SomeInside DEF Inside
<1>4. TypeOK'  BY <1>1 DEF TypeOK
<1>5. Control'  BY <1>1, <1>2 DEF Control, Threads
<1>6. Exclusive'  BY <1>2, <1>3 DEF Exclusive, Inside
<1>7. Ring'  BY <1>1, SameRing DEF queue
<1>8. Halfway'  BY <1>1, <1>2, <1>3 DEF Halfway, Threads, Inside
<1>9. Announced'  BY <1>1, <1>2, SameAnnounced DEF Threads
<1>10. NeverEmpty'  BY <1>1 DEF NeverEmpty
<1>. QED  BY <1>4, <1>5, <1>6, <1>7, <1>8, <1>9, <1>10

LEMMA PushElementInv ==
    ASSUME IInv, NEW p \in Producers, pushElement(p)
    PROVE  IInv'
<1>. USE DEF IInv
<1>1. /\ pc[p] = "idle" /\ pc' = [pc EXCEPT ![p] = "pushLock"]
      /\ pushes[p] < MaxPushes /\ pushes' = [pushes EXCEPT ![p] = @ + 1]
      /\ UNCHANGED <<buf, indexFirst, indexLast, count, mySem, myMutex, got, taken, failed>>
  BY DEF pushElement, Goto, queue
<1>2. /\ pc' \in [Threads -> Places] /\ pc'[p] = "pushLock"
      /\ \A u \in Threads \ {p} : pc'[u] = pc[u]
      /\ \A c \in Consumers : pc'[c] = pc[c]
  <2>1. Control /\ Goto(p, "idle", "pushLock")  BY DEF pushElement
  <2>2. p \in Threads /\ "pushLock" \in Places  BY DEF Threads, Places, Inside
  <2>3. Moved(p, "pushLock")  BY <2>1, <2>2, Moves
  <2>. QED  BY <2>3 DEF Moved
<1>3. /\ pushes' \in [Producers -> 0 .. MaxPushes] /\ pushes'[p] # 0
      /\ \A q \in Producers \ {p} : pushes'[q] = pushes[q]
  <2>1. pushes \in [Producers -> 0 .. MaxPushes] /\ MaxPushes \in Nat
    BY QueueAssumption DEF TypeOK
  <2>. QED  BY <1>1, <2>1
<1>4. TypeOK'  BY <1>1, <1>3 DEF TypeOK
<1>5. Control'  BY <1>1, <1>2, <1>3 DEF Control, Threads
<1>6. Exclusive'  BY <1>1, <1>2 DEF Exclusive, Inside, Threads
<1>7. Ring'  BY <1>1, SameRing DEF queue
<1>8. Halfway'  BY <1>1, <1>2, <1>3 DEF Halfway, Threads
<1>9. Announced'  BY <1>1, <1>2, SameAnnounced DEF Threads
<1>10. NeverEmpty'  BY <1>1 DEF NeverEmpty
<1>. QED  BY <1>4, <1>5, <1>6, <1>7, <1>8, <1>9, <1>10

LEMMA CatchInv ==
    ASSUME IInv, NEW p \in Producers, Catch(p)
    PROVE  IInv'
<1>. USE DEF IInv
<1>1. /\ pc[p] = "thrown" /\ pc' = [pc EXCEPT ![p] = "idle"]
      /\ UNCHANGED <<buf, indexFirst, indexLast, count, mySem, myMutex, pushes, got, taken,
                     failed>>
  BY DEF Catch, Goto, queue
<1>2. /\ pc' \in [Threads -> Places] /\ pc'[p] = "idle"
      /\ \A u \in Threads \ {p} : pc'[u] = pc[u]
      /\ \A c \in Consumers : pc'[c] = pc[c]
  <2>1. Control /\ Goto(p, "thrown", "idle")  BY DEF Catch
  <2>2. p \in Threads /\ "idle" \in Places  BY DEF Threads, Places, Inside
  <2>3. Moved(p, "idle")  BY <2>1, <2>2, Moves
  <2>. QED  BY <2>3 DEF Moved
<1>3. TypeOK'  BY <1>1 DEF TypeOK
<1>4. Control'  BY <1>1, <1>2 DEF Control, Threads
<1>5. Exclusive'  BY <1>1, <1>2 DEF Exclusive, Inside, Threads
<1>6. Ring'  BY <1>1, SameRing DEF queue
<1>7. Halfway'  BY <1>1, <1>2 DEF Halfway, Threads
<1>8. Announced'  BY <1>1, <1>2, SameAnnounced DEF Threads
<1>9. NeverEmpty'  BY <1>1 DEF NeverEmpty
<1>. QED  BY <1>3, <1>4, <1>5, <1>6, <1>7, <1>8, <1>9

(* The semaphore's count and the threads on their way are numbers. *)
LEMMA AnnouncedNat ==
    ASSUME Announced
    PROVE  Cardinality(Through) \in Nat /\ Cardinality(Announcing) \in Nat
BY FS_CardinalityType DEF Announced

LEMMA PostInv ==
    ASSUME IInv, NEW p \in Producers, post(p)
    PROVE  IInv'
<1>. USE DEF IInv
<1>1. /\ pc[p] = "post" /\ mySem' = mySem + 1
      /\ UNCHANGED <<buf, indexFirst, indexLast, count, myMutex, pushes, got, taken, failed>>
  BY DEF post, Goto, queue
<1>2. /\ pc' \in [Threads -> Places] /\ pc'[p] = "idle"
      /\ \A u \in Threads \ {p} : pc'[u] = pc[u]
      /\ \A c \in Consumers : pc'[c] = pc[c]
  <2>1. Control /\ Goto(p, "post", "idle")  BY DEF post
  <2>2. p \in Threads /\ "idle" \in Places  BY DEF Threads, Places, Inside
  <2>3. Moved(p, "idle")  BY <2>1, <2>2, Moves
  <2>. QED  BY <2>3 DEF Moved
<1>3. TypeOK'  BY <1>1 DEF TypeOK
<1>4. Control'  BY <1>1, <1>2 DEF Control, Threads
<1>5. Exclusive'  BY <1>1, <1>2 DEF Exclusive, Inside, Threads
<1>6. Ring'  BY <1>1, SameRing DEF queue
<1>7. Halfway'  BY <1>1, <1>2 DEF Halfway, Threads
<1>8. Announced'
  <2>1. Through' = Through  BY <1>2 DEF Through
  <2>2. Announcing' = Announcing \ {p} /\ p \in Announcing
    BY <1>1, <1>2 DEF Announcing, Threads
  <2>3. /\ IsFiniteSet(Announcing')
        /\ Cardinality(Announcing') = Cardinality(Announcing) - 1
    BY <2>2, FS_RemoveElement DEF Announced
  <2>. QED  BY <1>1, <2>1, <2>3, AnnouncedNat DEF Announced, TypeOK
<1>9. NeverEmpty'  BY <1>1 DEF NeverEmpty
<1>. QED  BY <1>3, <1>4, <1>5, <1>6, <1>7, <1>8, <1>9

LEMMA WaitInv ==
    ASSUME IInv, NEW c \in Consumers, wait(c)
    PROVE  IInv'
<1>. USE DEF IInv
<1>1. /\ pc[c] = "idle" /\ mySem > 0 /\ mySem' = mySem - 1
      /\ UNCHANGED <<buf, indexFirst, indexLast, count, myMutex, pushes, got, taken, failed>>
  BY DEF wait, Goto, queue
<1>2. /\ pc' \in [Threads -> Places] /\ pc'[c] = "popLock"
      /\ \A u \in Threads \ {c} : pc'[u] = pc[u]
      /\ \A p \in Producers : pc'[p] = pc[p]
  <2>1. Control /\ Goto(c, "idle", "popLock")  BY DEF wait
  <2>2. c \in Threads /\ "popLock" \in Places  BY DEF Threads, Places, Inside
  <2>3. Moved(c, "popLock")  BY <2>1, <2>2, Moves
  <2>. QED  BY <2>3 DEF Moved
<1>3. TypeOK'  BY <1>1 DEF TypeOK
<1>4. Control'  BY <1>1, <1>2 DEF Control, Threads
<1>5. Exclusive'  BY <1>1, <1>2 DEF Exclusive, Inside, Threads
<1>6. Ring'  BY <1>1, SameRing DEF queue
<1>7. Halfway'  BY <1>1, <1>2 DEF Halfway, Threads
<1>8. Announced'
  <2>1. Announcing' = Announcing  BY <1>2 DEF Announcing
  <2>2. Through' = Through \cup {c} /\ c \notin Through  BY <1>1, <1>2 DEF Through, Threads
  <2>3. IsFiniteSet(Through') /\ Cardinality(Through') = Cardinality(Through) + 1
    BY <2>2, FS_AddElement DEF Announced
  <2>. QED  BY <1>1, <2>1, <2>3, AnnouncedNat DEF Announced, TypeOK
<1>9. NeverEmpty'  BY <1>1 DEF NeverEmpty
<1>. QED  BY <1>3, <1>4, <1>5, <1>6, <1>7, <1>8, <1>9

(* Whoever the semaphore let through finds an element. *)
LEMMA ElementWaits ==
    ASSUME IInv, NEW c \in Consumers, pc[c] \in {"popLock", "qGetElement", "qRemove"}
    PROVE  count > 0 /\ buf[indexFirst] \in Element
<1>. USE DEF IInv
<1>1. c \in Through  BY DEF Through
<1>2. Cardinality(Through) > 0
  <2>1. Cardinality(Through) # 0  BY <1>1, FS_EmptySet DEF Announced
  <2>. QED  BY <2>1, AnnouncedNat
<1>3. count > 0  BY <1>2, AnnouncedNat DEF Announced, TypeOK
<1>4. Slot(0) = indexFirst /\ 0 \in 0 .. MaxCount - 1
  <2>1. MaxCount \in Nat \ {0} /\ 0 \in 0 .. MaxCount  BY QueueAssumption
  <2>. QED  BY <2>1, SlotFacts DEF TypeOK
<1>. QED  BY <1>3, <1>4 DEF Ring

LEMMA QGetElementInv ==
    ASSUME IInv, NEW c \in Consumers, qGetElement(c)
    PROVE  IInv'
<1>. USE DEF IInv
<1>0. pc[c] = "qGetElement"  BY DEF qGetElement
<1>1. count > 0 /\ buf[indexFirst] \in Element  BY <1>0, ElementWaits
<1>2. /\ Goto(c, "qGetElement", "qRemove") /\ got' = [got EXCEPT ![c] = buf[indexFirst]]
      /\ UNCHANGED <<buf, indexFirst, indexLast, count, mySem, myMutex, pushes, taken, failed>>
  BY <1>1 DEF qGetElement, queue, TypeOK
<1>3. /\ pc' \in [Threads -> Places] /\ pc'[c] = "qRemove"
      /\ \A u \in Threads \ {c} : pc'[u] = pc[u]
      /\ \A p \in Producers : pc'[p] = pc[p]
  <2>1. Control /\ Goto(c, "qGetElement", "qRemove")  BY <1>2
  <2>2. c \in Threads /\ "qRemove" \in Places  BY DEF Threads, Places, Inside
  <2>3. Moved(c, "qRemove")  BY <2>1, <2>2, Moves
  <2>. QED  BY <2>3 DEF Moved
<1>4. \A u \in Threads \ {c} : pc[u] \notin Inside
  BY <1>0, SomeInside DEF Inside, Threads
<1>5. TypeOK'  BY <1>1, <1>2 DEF TypeOK
<1>6. Control'  BY <1>0, <1>2, <1>3 DEF Control, Threads
<1>7. Exclusive'  BY <1>0, <1>2, <1>3 DEF Exclusive, Inside, Threads
<1>8. Ring'  BY <1>2, SameRing DEF queue
<1>9. Halfway'
  <2>1. got'[c] = buf'[indexFirst']  BY <1>2 DEF TypeOK
  <2>. QED  BY <1>2, <1>3, <1>4, <2>1 DEF Halfway, Threads, Inside
<1>10. Announced'  BY <1>0, <1>2, <1>3, SameAnnounced DEF Threads
<1>11. NeverEmpty'  BY <1>2 DEF NeverEmpty
<1>. QED  BY <1>5, <1>6, <1>7, <1>8, <1>9, <1>10, <1>11

LEMMA QAddInv ==
    ASSUME IInv, NEW p \in Producers, qAdd(p)
    PROVE  IInv'
<1>. USE DEF IInv
<1>0. pc[p] = "qAdd" /\ p \in Threads  BY DEF qAdd, Threads
<1>1. \A u \in Threads \ {p} : pc[u] \notin Inside  BY <1>0, SomeInside DEF Inside
<1>2. CASE count = MaxCount
  <2>1. /\ pc' = [pc EXCEPT ![p] = "thrown"] /\ failed' = failed \cup {"QUEUE_IS_FULL_EX"}
        /\ UNCHANGED <<buf, indexFirst, indexLast, count, mySem, myMutex, pushes, got, taken>>
    BY <1>2 DEF qAdd, Throw, queue
  <2>2. /\ pc' \in [Threads -> Places] /\ pc'[p] = "thrown"
        /\ \A u \in Threads \ {p} : pc'[u] = pc[u]
        /\ \A c \in Consumers : pc'[c] = pc[c]
    <3>1. Control /\ Goto(p, "qAdd", "thrown")  BY <1>0, <2>1 DEF Goto
    <3>2. "thrown" \in Places  BY DEF Places
    <3>3. Moved(p, "thrown")  BY <1>0, <3>1, <3>2, Moves
    <3>. QED  BY <3>3 DEF Moved
  <2>3. TypeOK'  BY <2>1 DEF TypeOK
  <2>4. Control'  BY <1>0, <2>1, <2>2 DEF Control, Threads
  <2>5. Exclusive'  BY <1>0, <2>1, <2>2 DEF Exclusive, Inside
  <2>6. Ring'  BY <2>1, SameRing DEF queue
  <2>7. Halfway'  BY <1>0, <2>1, <2>2 DEF Halfway, Threads
  <2>8. Announced'  BY <1>0, <2>1, <2>2, SameAnnounced DEF Threads
  <2>9. NeverEmpty'  BY <2>1 DEF NeverEmpty
  <2>. QED  BY <2>3, <2>4, <2>5, <2>6, <2>7, <2>8, <2>9
<1>3. CASE count # MaxCount
  <2>1. /\ Goto(p, "qAdd", "qAdded") /\ buf' = [buf EXCEPT ![indexLast] = <<p, pushes[p]>>]
        /\ UNCHANGED <<indexFirst, indexLast, count, mySem, myMutex, pushes, got, taken, failed>>
    BY <1>3 DEF qAdd
  <2>2. /\ pc' \in [Threads -> Places] /\ pc'[p] = "qAdded"
        /\ \A u \in Threads \ {p} : pc'[u] = pc[u]
        /\ \A c \in Consumers : pc'[c] = pc[c]
    <3>1. "qAdded" \in Places  BY DEF Places, Inside
    <3>2. Moved(p, "qAdded")  BY <1>0, <2>1, <3>1, Moves
    <3>. QED  BY <3>2 DEF Moved
  <2>3. <<p, pushes[p]>> \in Element
    <3>1. pushes[p] \in 0 .. MaxPushes /\ pushes[p] # 0  BY <1>0 DEF TypeOK, Control
    <3>2. pushes[p] \in 1 .. MaxPushes  BY <3>1, QueueAssumption
    <3>. QED  BY <3>2 DEF Element
  <2>4. count < MaxCount /\ count \in 0 .. MaxCount - 1  BY <1>3, QueueAssumption DEF TypeOK
  <2>5. /\ buf' \in [0 .. MaxCount - 1 -> Element \cup {Nothing}]
        /\ buf'[indexLast] = <<p, pushes[p]>>
        /\ \A k \in 0 .. MaxCount - 1 : k # indexLast => buf'[k] = buf[k]
    <3>1. /\ buf \in [0 .. MaxCount - 1 -> Element \cup {Nothing}]
          /\ indexLast \in 0 .. MaxCount - 1
      BY DEF TypeOK
    <3>. QED  BY <2>1, <2>3, <3>1
  <2>6. TypeOK'  BY <2>1, <2>5 DEF TypeOK
  <2>7. Control'  BY <1>0, <2>1, <2>2 DEF Control, Threads
  <2>8. Exclusive'  BY <1>0, <2>1, <2>2 DEF Exclusive, Inside
  <2>9. Ring'
    <3>1. \A i \in 0 .. MaxCount : Slot(i)' = Slot(i)  BY <2>1 DEF Slot
    <3>2. indexLast = Slot(count)  BY DEF Ring
    <3>3. ASSUME NEW i \in 0 .. MaxCount - 1, i < count
          PROVE  buf'[Slot(i)] = buf[Slot(i)] /\ buf[Slot(i)] \in Element
      <4>1. Slot(i) \in 0 .. MaxCount - 1  BY SlotFacts, QueueAssumption
      <4>2. i # count  BY <2>4, <3>3
      <4>3. Slot(i) # Slot(count)  BY <2>4, <4>2, SlotFacts
      <4>. QED  BY <2>5, <3>2, <3>3, <4>1, <4>3 DEF Ring
    <3>. QED  BY <2>1, <2>4, <3>1, <3>2, <3>3 DEF Ring, Slot
  <2>10. Halfway'
    <3>1. \A q \in Producers \ {p} : pc'[q] # "qAdded"
      BY <1>1, <2>2 DEF Inside, Threads
    <3>2. \A c \in Consumers : pc'[c] # "qRemove"
      <4>1. Producers \cap Consumers = {}  BY QueueAssumption
      <4>. QED  BY <1>1, <2>2, <4>1 DEF Inside, Threads
    <3>3. count' < MaxCount /\ buf'[indexLast'] = <<p, pushes'[p]>>  BY <2>1, <2>4, <2>5
    <3>. QED  BY <3>1, <3>2, <3>3 DEF Halfway
  <2>11. Announced'
    <3>1. \A q \in Producers : pc'[q] \in {"pushUnLock", "post"} <=>
                               pc[q] \in {"pushUnLock", "post"}
      BY <1>0, <2>2 DEF Threads
    <3>. QED  BY <2>1, <2>2, <3>1, SameAnnounced
  <2>12. NeverEmpty'  BY <2>1 DEF NeverEmpty
  <2>. QED  BY <2>6, <2>7, <2>8, <2>9, <2>10, <2>11, <2>12
<1>. QED  BY <1>2, <1>3

(* The element just copied is at the end. *)
LEMMA CopiedIsLast ==
    ASSUME IInv, NEW p \in Producers, pc[p] = "qAdded"
    PROVE  /\ count < MaxCount /\ buf[indexLast] = <<p, pushes[p]>>
           /\ <<p, pushes[p]>> \in Element
           /\ \A u \in Threads \ {p} : pc[u] \notin Inside
<1>. USE DEF IInv
<1>1. count < MaxCount /\ buf[indexLast] = <<p, pushes[p]>>  BY DEF Halfway
<1>2. pushes[p] \in 0 .. MaxPushes /\ pushes[p] # 0  BY DEF TypeOK, Control
<1>3. <<p, pushes[p]>> \in Element  BY <1>2, QueueAssumption DEF Element
<1>4. \A u \in Threads \ {p} : pc[u] \notin Inside  BY SomeInside DEF Inside, Threads
<1>. QED  BY <1>1, <1>3, <1>4

LEMMA QAddedInv ==
    ASSUME IInv, NEW p \in Producers, qAdded(p)
    PROVE  IInv'
<1>. USE DEF IInv
<1>0. pc[p] = "qAdded" /\ p \in Threads  BY DEF qAdded, Goto, Threads
<1>1. /\ Goto(p, "qAdded", "pushUnLock")
      /\ count' = count + 1 /\ indexLast' = (indexLast + 1) % MaxCount
      /\ UNCHANGED <<buf, indexFirst, mySem, myMutex, pushes, got, taken, failed>>
  BY DEF qAdded
<1>2. /\ pc' \in [Threads -> Places] /\ pc'[p] = "pushUnLock"
      /\ \A u \in Threads \ {p} : pc'[u] = pc[u]
      /\ \A c \in Consumers : pc'[c] = pc[c]
  <2>1. "pushUnLock" \in Places  BY DEF Places, Inside
  <2>2. Moved(p, "pushUnLock")  BY <1>0, <1>1, <2>1, Moves
  <2>. QED  BY <2>2 DEF Moved
<1>3. /\ count < MaxCount /\ buf[indexLast] \in Element
      /\ \A u \in Threads \ {p} : pc[u] \notin Inside
  BY <1>0, CopiedIsLast
<1>4. /\ MaxCount \in Nat \ {0} /\ count \in 0 .. MaxCount - 1
      /\ indexFirst \in 0 .. MaxCount - 1 /\ indexLast \in 0 .. MaxCount - 1
  BY <1>3, QueueAssumption DEF TypeOK
<1>5. indexLast' = IF indexLast + 1 < MaxCount THEN indexLast + 1 ELSE 0
  BY <1>1, <1>4, NextPlace
<1>6. TypeOK'  BY <1>1, <1>4, <1>5 DEF TypeOK
<1>7. Control'  BY <1>0, <1>1, <1>2 DEF Control, Threads
<1>8. Exclusive'  BY <1>0, <1>1, <1>2 DEF Exclusive, Inside
<1>9. Ring'
  <2>1. \A i \in 0 .. MaxCount : Slot(i)' = Slot(i)  BY <1>1 DEF Slot
  <2>2. indexLast = Slot(count)  BY DEF Ring
  <2>3. Slot(count + 1) = indexLast'
    <3>1. count \in 0 .. MaxCount /\ count + 1 \in 0 .. MaxCount  BY <1>4
    <3>2. /\ indexFirst + count < MaxCount => Slot(count) = indexFirst + count
          /\ indexFirst + count >= MaxCount => Slot(count) = indexFirst + count - MaxCount
      BY <3>1, SlotFacts
    <3>3. /\ indexFirst + (count + 1) < MaxCount => Slot(count + 1) = indexFirst + (count + 1)
          /\ indexFirst + (count + 1) >= MaxCount =>
               Slot(count + 1) = indexFirst + (count + 1) - MaxCount
      BY <3>1, SlotFacts
    <3>. QED  BY <1>4, <1>5, <2>2, <3>2, <3>3
  <2>4. \A i \in 0 .. MaxCount - 1 : i < count + 1 => buf[Slot(i)] \in Element
    <3>. SUFFICES ASSUME NEW i \in 0 .. MaxCount - 1, i < count + 1
                  PROVE  buf[Slot(i)] \in Element
      OBVIOUS
    <3>1. CASE i < count  BY <3>1 DEF Ring
    <3>2. CASE i = count  BY <1>3, <2>2, <3>2
    <3>. QED  BY <1>4, <3>1, <3>2
  <2>5. count + 1 \in 0 .. MaxCount /\ \A i \in 0 .. MaxCount - 1 : i \in 0 .. MaxCount
    BY <1>4
  <2>6. indexLast' = Slot(count)'  BY <1>1, <2>3 DEF Slot
  <2>7. \A i \in 0 .. MaxCount - 1 : i < count' => buf'[Slot(i)'] \in Element
    BY <1>1, <2>1, <2>4, <2>5
  <2>. QED  BY <2>6, <2>7 DEF Ring, Slot
<1>10. Halfway'
  <2>1. \A q \in Producers : pc'[q] # "qAdded"  BY <1>0, <1>2, <1>3 DEF Inside, Threads
  <2>2. \A c \in Consumers : pc'[c] # "qRemove"
    <3>1. Producers \cap Consumers = {}  BY QueueAssumption
    <3>. QED  BY <1>2, <1>3, <3>1 DEF Inside, Threads
  <2>. QED  BY <2>1, <2>2 DEF Halfway
<1>11. Announced'
  <2>1. Through' = Through  BY <1>2 DEF Through
  <2>2. Announcing' = Announcing \cup {p} /\ p \notin Announcing
    BY <1>0, <1>2 DEF Announcing, Threads
  <2>3. /\ IsFiniteSet(Announcing')
        /\ Cardinality(Announcing') = Cardinality(Announcing) + 1
    BY <2>2, FS_AddElement DEF Announced
  <2>. QED  BY <1>1, <1>4, <2>1, <2>3, AnnouncedNat DEF Announced, TypeOK
<1>12. NeverEmpty'  BY <1>1 DEF NeverEmpty
<1>. QED  BY <1>6, <1>7, <1>8, <1>9, <1>10, <1>11, <1>12

(* The element about to go out is the oldest. *)
LEMMA OldestGoes ==
    ASSUME IInv, NEW c \in Consumers, pc[c] = "qRemove"
    PROVE  /\ count > 0 /\ got[c] = buf[indexFirst] /\ got[c] \in Element
           /\ \A u \in Threads \ {c} : pc[u] \notin Inside
<1>. USE DEF IInv
<1>1. count > 0 /\ buf[indexFirst] \in Element  BY ElementWaits
<1>2. got[c] = buf[indexFirst]  BY DEF Halfway
<1>3. \A u \in Threads \ {c} : pc[u] \notin Inside  BY SomeInside DEF Inside, Threads
<1>. QED  BY <1>1, <1>2, <1>3

(* When the first goes, each of the others is one place nearer. *)
LEMMA Nearer ==
    ASSUME TypeOK, indexFirst' = (indexFirst + 1) % MaxCount, NEW i \in 0 .. MaxCount - 1
    PROVE  (indexFirst' + i) % MaxCount = Slot(i + 1)
<1>1. /\ MaxCount \in Nat \ {0} /\ indexFirst \in 0 .. MaxCount - 1
      /\ i \in 0 .. MaxCount /\ i + 1 \in 0 .. MaxCount
  BY QueueAssumption DEF TypeOK
<1>2. indexFirst' = IF indexFirst + 1 < MaxCount THEN indexFirst + 1 ELSE 0
  BY <1>1, NextPlace
<1>3. /\ indexFirst + (i + 1) < MaxCount => Slot(i + 1) = indexFirst + (i + 1)
      /\ indexFirst + (i + 1) >= MaxCount => Slot(i + 1) = indexFirst + (i + 1) - MaxCount
  BY <1>1, SlotFacts
<1>4. /\ indexFirst' + i < MaxCount => (indexFirst' + i) % MaxCount = indexFirst' + i
      /\ indexFirst' + i >= MaxCount =>
           (indexFirst' + i) % MaxCount = (indexFirst' + i) - MaxCount
  <2>1. \A a \in Nat : /\ a < MaxCount => a % MaxCount = a
                       /\ a >= MaxCount /\ a < 2 * MaxCount => a % MaxCount = a - MaxCount
    BY <1>1, Modulo
  <2>. QED  BY <1>1, <1>2, <2>1
<1>. QED  BY <1>1, <1>2, <1>3, <1>4

LEMMA QRemoveInv ==
    ASSUME IInv, NEW c \in Consumers, qRemove(c)
    PROVE  IInv'
<1>. USE DEF IInv
<1>0. pc[c] = "qRemove" /\ c \in Threads  BY DEF qRemove, Goto, Threads
<1>1. /\ Goto(c, "qRemove", "popUnLock") /\ taken' = Append(taken, got[c])
      /\ count' = count - 1 /\ indexFirst' = (indexFirst + 1) % MaxCount
      /\ UNCHANGED <<buf, indexLast, mySem, myMutex, pushes, got, failed>>
  BY DEF qRemove
<1>2. /\ pc' \in [Threads -> Places] /\ pc'[c] = "popUnLock"
      /\ \A u \in Threads \ {c} : pc'[u] = pc[u]
      /\ \A p \in Producers : pc'[p] = pc[p]
  <2>1. "popUnLock" \in Places  BY DEF Places, Inside
  <2>2. Moved(c, "popUnLock")  BY <1>0, <1>1, <2>1, Moves
  <2>. QED  BY <2>2 DEF Moved
<1>3. /\ count > 0 /\ got[c] \in Element
      /\ \A u \in Threads \ {c} : pc[u] \notin Inside
  BY <1>0, OldestGoes
<1>4. /\ MaxCount \in Nat \ {0} /\ count \in 1 .. MaxCount /\ count - 1 \in 0 .. MaxCount - 1
      /\ indexFirst \in 0 .. MaxCount - 1
  BY <1>3, QueueAssumption DEF TypeOK
<1>5. indexFirst' = IF indexFirst + 1 < MaxCount THEN indexFirst + 1 ELSE 0
  BY <1>1, <1>4, NextPlace
<1>6. TypeOK'
  <2>1. taken' \in Seq(Element)  BY <1>1, <1>3 DEF TypeOK
  <2>. QED  BY <1>1, <1>4, <1>5, <2>1 DEF TypeOK
<1>7. Control'  BY <1>0, <1>1, <1>2 DEF Control, Threads
<1>8. Exclusive'  BY <1>0, <1>1, <1>2 DEF Exclusive, Inside
<1>9. Ring'
  <2>1. \A i \in 0 .. MaxCount - 1 : (indexFirst' + i) % MaxCount = Slot(i + 1)
    BY <1>1, Nearer
  <2>2. indexLast' = (indexFirst' + count') % MaxCount
    <3>1. (indexFirst' + (count - 1)) % MaxCount = Slot((count - 1) + 1)  BY <1>4, <2>1
    <3>2. (count - 1) + 1 = count  BY <1>4
    <3>3. indexLast = Slot(count)  BY DEF Ring
    <3>4. count' = count - 1 /\ indexLast' = indexLast  BY <1>1
    <3>. QED  BY <3>1, <3>2, <3>3, <3>4
  <2>3. ASSUME NEW i \in 0 .. MaxCount - 1, i < count'
        PROVE  buf'[(indexFirst' + i) % MaxCount] \in Element
    <3>1. i + 1 \in 0 .. MaxCount - 1 /\ i + 1 < count  BY <1>1, <1>4, <2>3
    <3>. QED  BY <1>1, <2>1, <3>1 DEF Ring
  <2>. QED  BY <2>2, <2>3 DEF Ring, Slot
<1>10. Halfway'
  <2>1. \A u \in Consumers : pc'[u] # "qRemove"  BY <1>0, <1>2, <1>3 DEF Inside, Threads
  <2>2. \A p \in Producers : pc'[p] # "qAdded"
    <3>1. Producers \cap Consumers = {}  BY QueueAssumption
    <3>. QED  BY <1>2, <1>3, <3>1 DEF Inside, Threads
  <2>. QED  BY <2>1, <2>2 DEF Halfway
<1>11. Announced'
  <2>1. Announcing' = Announcing  BY <1>2 DEF Announcing
  <2>2. Through' = Through \ {c} /\ c \in Through  BY <1>0, <1>2 DEF Through, Threads
  <2>3. IsFiniteSet(Through') /\ Cardinality(Through') = Cardinality(Through) - 1
    BY <2>2, FS_RemoveElement DEF Announced
  <2>4. count' = count - 1 /\ mySem' = mySem  BY <1>1
  <2>5. mySem \in Nat /\ count \in Nat  BY <1>4 DEF TypeOK
  <2>. QED  BY <2>1, <2>3, <2>4, <2>5, AnnouncedNat DEF Announced
<1>12. NeverEmpty'  BY <1>1 DEF NeverEmpty
<1>. QED  BY <1>6, <1>7, <1>8, <1>9, <1>10, <1>11, <1>12

-----------------------------------------------------------------------------
LEMMA InitInv == Init => IInv
<1>. SUFFICES ASSUME Init PROVE IInv  OBVIOUS
<1>1. MaxCount \in Nat \ {0}  BY QueueAssumption
<1>2. TypeOK  BY <1>1, QueueAssumption DEF Init, TypeOK
<1>3. Control  BY DEF Init, Control, Threads, Places
<1>4. Exclusive  BY DEF Init, Exclusive, Inside
<1>5. Ring
  <2>1. 0 \in 0 .. MaxCount /\ indexFirst = 0 /\ count = 0 /\ indexLast = 0
    BY <1>1 DEF Init
  <2>2. Slot(0) = 0  BY <1>1, <1>2, <2>1, SlotFacts
  <2>. QED  BY <1>1, <2>1, <2>2 DEF Ring
<1>6. Halfway  BY DEF Init, Halfway, Threads
<1>7. Announced
  <2>1. Through = {} /\ Announcing = {}  BY DEF Init, Through, Announcing, Threads
  <2>. QED  BY <2>1, FS_EmptySet DEF Init, Announced
<1>8. NeverEmpty  BY DEF Init, NeverEmpty
<1>. QED  BY <1>2, <1>3, <1>4, <1>5, <1>6, <1>7, <1>8 DEF IInv

LEMMA StutterInv == IInv /\ UNCHANGED vars => IInv'
<1>. SUFFICES ASSUME IInv, UNCHANGED vars PROVE IInv'  OBVIOUS
<1>. USE DEF IInv, vars, queue
<1>1. TypeOK'  BY DEF TypeOK
<1>2. Control' /\ Exclusive' /\ Halfway' /\ NeverEmpty'
  BY DEF Control, Exclusive, Halfway, NeverEmpty
<1>3. Ring'  BY SameRing
<1>4. Announced'  BY SameAnnounced
<1>. QED  BY <1>1, <1>2, <1>3, <1>4

LEMMA NextInv == IInv /\ [Next]_vars => IInv'
<1>. SUFFICES ASSUME IInv, [Next]_vars PROVE IInv'  OBVIOUS
<1>1. ASSUME NEW p \in Producers, pushElement(p) \/ Producer(p) PROVE IInv'
  <2>. p \in Threads  BY DEF Threads
  <2>1. CASE pushElement(p)  BY <2>1, PushElementInv
  <2>2. CASE lock(p, "pushLock", "qAdd")  BY <2>2, LockInv
  <2>3. CASE qAdd(p)  BY <2>3, QAddInv
  <2>4. CASE qAdded(p)  BY <2>4, QAddedInv
  <2>5. CASE unLock(p, "pushUnLock", "post")  BY <2>5, UnLockInv
  <2>6. CASE post(p)  BY <2>6, PostInv
  <2>7. CASE Catch(p)  BY <2>7, CatchInv
  <2>. QED  BY <1>1, <2>1, <2>2, <2>3, <2>4, <2>5, <2>6, <2>7 DEF Producer
<1>2. ASSUME NEW c \in Consumers, Consumer(c) PROVE IInv'
  <2>. c \in Threads  BY DEF Threads
  <2>1. CASE wait(c)  BY <2>1, WaitInv
  <2>2. CASE lock(c, "popLock", "qGetElement")  BY <2>2, LockInv
  <2>3. CASE qGetElement(c)  BY <2>3, QGetElementInv
  <2>4. CASE qRemove(c)  BY <2>4, QRemoveInv
  <2>5. CASE unLock(c, "popUnLock", "idle")  BY <2>5, UnLockInv
  <2>. QED  BY <1>2, <2>1, <2>2, <2>3, <2>4, <2>5 DEF Consumer
<1>3. CASE UNCHANGED vars  BY <1>3, StutterInv
<1>. QED  BY <1>1, <1>2, <1>3 DEF Next

(* The invariant of StaticSyncQueue.m: under the mutex the ring holds its    *)
(* elements one after another, and each is counted by the semaphore or is    *)
(* on its way in or out.                                                     *)
THEOREM Invariance == Spec => []IInv
<1>. QED  BY InitInv, NextInv, PTL DEF Spec

(* popBuffer never throws QUEUE_IS_EMPTY_EX, however many threads pop and    *)
(* push, and however small the queue.                                        *)
THEOREM NeverEmptyAlways == Spec => []NeverEmpty
<1>1. IInv => NeverEmpty  BY DEF IInv
<1>. QED  BY <1>1, Invariance, PTL

(* Every variable of the queue keeps its type: the indexes stay in the       *)
(* buffer and the counter between nothing and the size.                      *)
THEOREM TypeCorrect == Spec => []TypeOK
<1>1. IInv => TypeOK  BY DEF IInv
<1>. QED  BY <1>1, Invariance, PTL

-----------------------------------------------------------------------------
(* The contents of the ring, as a sequence. *)
ContentsOK ==
    /\ Contents \in Seq(Element) /\ Len(Contents) = count
    /\ \A i \in 1 .. count : Contents[i] = buf[Slot(i - 1)]

LEMMA ContentsFacts == IInv => ContentsOK
<1>. SUFFICES ASSUME IInv PROVE ContentsOK  OBVIOUS
<1>1. count \in 0 .. MaxCount /\ MaxCount \in Nat \ {0} /\ indexFirst \in 0 .. MaxCount - 1
  BY QueueAssumption DEF IInv, TypeOK
<1>2. ASSUME NEW i \in 1 .. count
      PROVE  /\ (indexFirst + i - 1) % MaxCount = Slot(i - 1)
             /\ buf[Slot(i - 1)] \in Element
  <2>1. indexFirst + i - 1 = indexFirst + (i - 1)  BY <1>1
  <2>2. i - 1 \in 0 .. MaxCount - 1 /\ i - 1 < count  BY <1>1
  <2>3. (indexFirst + i - 1) % MaxCount = Slot(i - 1)  BY <2>1, Zenon DEF Slot
  <2>. QED  BY <2>2, <2>3 DEF IInv, Ring
<1>3. \A i \in 1 .. count : Contents[i] = buf[Slot(i - 1)] /\ Contents[i] \in Element
  BY <1>2 DEF Contents
<1>4. Contents \in [1 .. count -> Element]  BY <1>3 DEF Contents
<1>5. Contents \in Seq(Element) /\ Len(Contents) = count  BY <1>1, <1>4
<1>. QED  BY <1>3, <1>5 DEF ContentsOK

(* The element goes in where the ring ends. *)
LEMMA QAddedPuts ==
    ASSUME IInv, ContentsOK, ContentsOK', NEW p \in Producers, qAdded(p)
    PROVE  /\ <<p, pushes[p]>> \in Element
           /\ Contents' = Append(Contents, <<p, pushes[p]>>) /\ UNCHANGED taken
<1>. DEFINE e == <<p, pushes[p]>>
<1>1. /\ pc[p] = "qAdded" /\ count' = count + 1
      /\ UNCHANGED <<buf, indexFirst, taken>>
  BY DEF qAdded, Goto
<1>2. e \in Element /\ buf[indexLast] = e  BY <1>1, CopiedIsLast
<1>3. count \in Nat /\ indexLast = Slot(count)  BY DEF IInv, TypeOK, Ring
<1>. HIDE DEF e
<1>4. /\ Contents \in Seq(Element) /\ Len(Contents) = count
      /\ Contents' \in Seq(Element) /\ Len(Contents') = count + 1
  BY <1>1 DEF ContentsOK
<1>5. /\ Append(Contents, e) \in Seq(Element) /\ Len(Append(Contents, e)) = count + 1
      /\ \A i \in 1 .. count : Append(Contents, e)[i] = Contents[i]
      /\ Append(Contents, e)[count + 1] = e
  BY <1>2, <1>4, AppendProperties
<1>6. \A i \in 1 .. count + 1 : Contents'[i] = buf[Slot(i - 1)]
  BY <1>1 DEF ContentsOK, Slot
<1>7. ASSUME NEW i \in 1 .. count + 1
      PROVE  Contents'[i] = Append(Contents, e)[i]
  <2>1. CASE i \in 1 .. count  BY <1>5, <1>6, <2>1 DEF ContentsOK
  <2>2. CASE i = count + 1
    <3>1. i - 1 = count  BY <1>3, <2>2
    <3>. QED  BY <1>2, <1>3, <1>5, <1>6, <2>2, <3>1
  <2>3. i \in 1 .. count \/ i = count + 1  BY <1>3
  <2>. QED  BY <2>1, <2>2, <2>3
<1>8. Contents' = Append(Contents, e)  BY <1>4, <1>5, <1>7, SeqEqual
<1>. QED  BY <1>1, <1>2, <1>8 DEF e

(* The oldest goes out, and the rest follow in their order. *)
LEMMA QRemoveGets ==
    ASSUME IInv, ContentsOK, ContentsOK', NEW c \in Consumers, qRemove(c)
    PROVE  /\ Contents # <<>> /\ taken' = Append(taken, Head(Contents))
           /\ Contents' = Tail(Contents)
<1>1. /\ pc[c] = "qRemove" /\ count' = count - 1 /\ taken' = Append(taken, got[c])
      /\ buf' = buf /\ indexFirst' = (indexFirst + 1) % MaxCount
  BY DEF qRemove, Goto
<1>2. count > 0 /\ got[c] = buf[indexFirst]  BY <1>1, OldestGoes
<1>3. /\ MaxCount \in Nat \ {0} /\ count \in 1 .. MaxCount
      /\ indexFirst \in 0 .. MaxCount - 1 /\ TypeOK
  BY <1>2, QueueAssumption DEF IInv, TypeOK
<1>4. /\ Contents \in Seq(Element) /\ Len(Contents) = count
      /\ Contents' \in Seq(Element) /\ Len(Contents') = count'
  BY DEF ContentsOK
<1>5. Contents # <<>>
  <2>1. Len(<<>>) = 0  OBVIOUS
  <2>. QED  BY <1>2, <1>4, <2>1
<1>6. /\ Tail(Contents) \in Seq(Element) /\ Len(Tail(Contents)) = count'
      /\ \A i \in 1 .. count' : Tail(Contents)[i] = Contents[i + 1]
  BY <1>1, <1>4, <1>5, HeadTailProperties
<1>7. ASSUME NEW i \in 1 .. count'
      PROVE  Contents'[i] = Tail(Contents)[i]
  <2>1. i - 1 \in 0 .. MaxCount - 1 /\ i + 1 \in 1 .. count /\ (i - 1) + 1 = (i + 1) - 1
    BY <1>1, <1>3
  <2>2. (indexFirst' + (i - 1)) % MaxCount = Slot((i - 1) + 1)  BY <1>1, <1>3, <2>1, Nearer
  <2>3. Contents'[i] = buf[Slot((i + 1) - 1)]
    <3>1. Contents'[i] = buf'[(indexFirst' + (i - 1)) % MaxCount]  BY DEF ContentsOK, Slot
    <3>. QED  BY <1>1, <2>1, <2>2, <3>1
  <2>4. Contents[i + 1] = buf[Slot((i + 1) - 1)]  BY <2>1 DEF ContentsOK
  <2>. QED  BY <1>6, <2>3, <2>4
<1>8. Contents' = Tail(Contents)  BY <1>4, <1>6, <1>7, SeqEqual
<1>9. got[c] = Head(Contents)
  <2>1. 1 - 1 = 0 /\ 1 \in 1 .. count /\ 0 \in 0 .. MaxCount /\ indexFirst + 0 = indexFirst
    BY <1>3
  <2>2. Slot(0) = indexFirst  BY <1>3, <2>1, SlotFacts
  <2>3. Contents[1] = buf[indexFirst]  BY <2>1, <2>2 DEF ContentsOK
  <2>. QED  BY <1>2, <1>4, <1>5, <2>3
<1>. QED  BY <1>1, <1>5, <1>8, <1>9

(* The rest leaves the contents alone: only a half-made copy is written, at  *)
(* the end of the ring.                                                      *)
LEMMA OthersKeep ==
    ASSUME IInv, ContentsOK, ContentsOK', [Next]_vars,
           ~\E p \in Producers : qAdded(p), ~\E c \in Consumers : qRemove(c)
    PROVE  UNCHANGED <<Contents, taken>>
<1>1. UNCHANGED <<indexFirst, count, taken>>
  <2>1. ASSUME NEW p \in Producers, pushElement(p) \/ Producer(p)
        PROVE  UNCHANGED <<indexFirst, count, taken>>
    BY <2>1 DEF Producer, pushElement, lock, unLock, qAdd, post, Catch, Throw, queue
  <2>2. ASSUME NEW c \in Consumers, Consumer(c)
        PROVE  UNCHANGED <<indexFirst, count, taken>>
    BY <2>2 DEF Consumer, wait, lock, unLock, qGetElement, Throw, queue
  <2>3. CASE UNCHANGED vars  BY <2>3 DEF vars, queue
  <2>. QED  BY <2>1, <2>2, <2>3 DEF Next
<1>2. CASE buf' = buf  BY <1>1, <1>2 DEF Contents
<1>3. CASE buf' # buf
  <2>1. PICK p \in Producers : qAdd(p)
    <3>1. ASSUME NEW p \in Producers, pushElement(p) \/ Producer(p) PROVE qAdd(p)
      BY <1>3, <3>1 DEF Producer, pushElement, lock, unLock, post, Catch, queue
    <3>2. ASSUME NEW c \in Consumers, Consumer(c) PROVE FALSE
      BY <1>3, <3>2 DEF Consumer, wait, lock, unLock, qGetElement, Throw, queue
    <3>3. CASE UNCHANGED vars  BY <1>3, <3>3 DEF vars, queue
    <3>. QED  BY <3>1, <3>2, <3>3 DEF Next
  <2>2. buf' = [buf EXCEPT ![indexLast] = <<p, pushes[p]>>] /\ count # MaxCount
    BY <1>3, <2>1 DEF qAdd, Throw, queue
  <2>3. /\ count \in 0 .. MaxCount - 1 /\ MaxCount \in Nat \ {0}
        /\ buf \in [0 .. MaxCount - 1 -> Element \cup {Nothing}] /\ indexLast = Slot(count)
    BY <2>2, QueueAssumption DEF IInv, TypeOK, Ring
  <2>4. ASSUME NEW i \in 1 .. count PROVE Contents'[i] = Contents[i]
    <3>1. i - 1 \in 0 .. MaxCount - 1 /\ i - 1 # count /\ i - 1 \in 0 .. MaxCount  BY <2>3
    <3>2. Slot(i - 1) # indexLast /\ Slot(i - 1) \in 0 .. MaxCount - 1
      BY <2>3, <3>1, SlotFacts DEF IInv
    <3>3. buf'[Slot(i - 1)] = buf[Slot(i - 1)]  BY <2>2, <2>3, <3>2
    <3>4. Contents'[i] = buf'[Slot(i - 1)]  BY <1>1 DEF ContentsOK, Slot
    <3>. QED  BY <3>3, <3>4 DEF ContentsOK
  <2>5. Contents' = Contents  BY <1>1, <2>4, SeqEqual DEF ContentsOK
  <2>. QED  BY <1>1, <2>5
<1>. QED  BY <1>2, <1>3

(* The circular buffer under its mutex implements the queue the threads rely *)
(* on: elements come out once each, in the order in which they went in.      *)
THEOREM FifoRefinement == Spec => ImplementsFifo
<1>1. Init => FifoQueue!Init
  <2>. SUFFICES ASSUME Init PROVE FifoQueue!Init  OBVIOUS
  <2>1. IInv  BY InitInv
  <2>2. ContentsOK  BY <2>1, ContentsFacts
  <2>3. Contents \in Seq(Element) /\ Len(Contents) = 0  BY <2>2 DEF ContentsOK, Init
  <2>4. Contents = <<>>  BY <2>3, EmptySeq
  <2>. QED  BY <2>4 DEF Init, FifoQueue!Init
<1>2. IInv /\ ContentsOK /\ ContentsOK' /\ [Next]_vars => [FifoQueue!Next]_<<Contents, taken>>
  <2>. SUFFICES ASSUME IInv, ContentsOK, ContentsOK', [Next]_vars
                PROVE  [FifoQueue!Next]_<<Contents, taken>>
    OBVIOUS
  <2>1. ASSUME NEW p \in Producers, qAdded(p) PROVE FifoQueue!Next
    <3>1. FifoQueue!Put(<<p, pushes[p]>>) /\ <<p, pushes[p]>> \in Element
      BY <2>1, QAddedPuts DEF FifoQueue!Put
    <3>. QED  BY <3>1 DEF FifoQueue!Next
  <2>2. ASSUME NEW c \in Consumers, qRemove(c) PROVE FifoQueue!Next
    <3>1. FifoQueue!Get  BY <2>2, QRemoveGets DEF FifoQueue!Get
    <3>. QED  BY <3>1 DEF FifoQueue!Next
  <2>3. CASE (~\E p \in Producers : qAdded(p)) /\ ~\E c \in Consumers : qRemove(c)
    BY <2>3, OthersKeep
  <2>. QED  BY <2>1, <2>2, <2>3
<1>. QED  BY <1>1, <1>2, ContentsFacts, Invariance, PTL DEF Spec, ImplementsFifo, FifoQueue!Spec
=============================================================================
