---------------------------- MODULE TimersProofs ----------------------------
(***************************************************************************)
(* The properties of Timers, for every set of timers and every table, and  *)
(* that its one-shot timers are those of OneShotTimers. How many slots a   *)
(* timer may have depends on where its client is: none while it is being   *)
(* prepared or is inactive, one after that, and one more while its own     *)
(* expiry is between myIsActive and the table.                             *)
(***************************************************************************)
EXTENDS Timers, FiniteSetTheorems, WellFoundedInduction, TLAPS

(* The client of t has it stopped, or is about to put it in the table. *)
Prepared(t) == client[t] \in {"init", "set", "add"} \/ (client[t] = "idle" /\ ~myIsActive[t])

(* The expiry of t is about to take it out of the table. *)
Expiring(t) == thread = "delete" /\ current = t

None(t) == \A i \in Slots : timers[i] # t
AtMostOne(t) == \A i, j \in Slots : timers[i] = t /\ timers[j] = t => i = j
AtMostTwo(t) ==
    \A i, j, k \in Slots : timers[i] = t /\ timers[j] = t /\ timers[k] = t
                           => i = j \/ j = k \/ i = k

(* The slots of each timer. *)
Count ==
    \A t \in Timers :
      /\ Prepared(t) /\ ~Expiring(t) => None(t)
      /\ Prepared(t) \/ ~Expiring(t) => AtMostOne(t)
      /\ AtMostTwo(t)

(* An expires of 0 is seen by the client that set it only. *)
Dated ==
    \A t \in Timers :
      /\ client[t] = "add" => expires[t] # "zero"
      /\ client[t] # "set" /\ ~None(t) => expires[t] # "zero"

CurrentOK == thread # "scan" => current \in Timers

IInv == TypeOK /\ Count /\ Dated /\ CurrentOK

-----------------------------------------------------------------------------
(* A set of slots has a first one. *)
LEMMA MinIn ==
    ASSUME NEW S \in SUBSET Slots, S # {}
    PROVE  Min(S) \in S
<1>1. S \subseteq Nat
  BY DEF Slots
<1>2. \E x \in S : \A y \in S : ~(<<y, x>> \in OpToRel(<, Nat))
  BY <1>1, WFMin, NatLessThanWellFounded, Zenon
<1>3. OpToRel(<, Nat) = {p \in Nat \X Nat : p[1] < p[2]}
  BY Zenon DEF OpToRel
<1>4. PICK x \in S : \A y \in S : ~(<<y, x>> \in OpToRel(<, Nat))
  BY <1>2, Zenon
<1>5. \A y \in S : x =< y
  <2>. SUFFICES ASSUME NEW y \in S PROVE ~(y < x)
    BY <1>1
  <2>1. y < x => <<y, x>> \in {p \in Nat \X Nat : p[1] < p[2]}
    BY <1>1
  <2>. QED  BY <1>3, <1>4, <2>1, Zenon
<1>. QED  BY <1>4, <1>5 DEF Min

(* del_ctimer empties one slot of t, if t has any. *)
LEMMA DelSlot ==
    ASSUME TypeOK, NEW t \in Timers
    PROVE  \/ None(t) /\ del_ctimer(t) = timers
           \/ \E m \in Slots : timers[m] = t /\ del_ctimer(t) = [timers EXCEPT ![m] = NoTimer]
<1>1. CASE SlotsOf(t) = {}
  BY <1>1 DEF SlotsOf, None, del_ctimer
<1>2. CASE SlotsOf(t) # {}
  <2>1. SlotsOf(t) \in SUBSET Slots
    BY DEF SlotsOf
  <2>2. Min(SlotsOf(t)) \in SlotsOf(t)
    BY <1>2, <2>1, MinIn
  <2>. QED  BY <1>2, <2>2 DEF SlotsOf, del_ctimer
<1>. QED  BY <1>1, <1>2

(* add_ctimer fills one slot that was empty, if there is any. *)
LEMMA AddSlot ==
    ASSUME TypeOK, NEW t \in Timers, add_ctimer(t)
    PROVE  \/ timers' = timers
           \/ \E m \in Slots : timers[m] = NoTimer /\ timers' = [timers EXCEPT ![m] = t]
<1>1. CASE get_free_slot = {}
  BY <1>1 DEF add_ctimer
<1>2. CASE get_free_slot # {}
  <2>1. get_free_slot \in SUBSET Slots
    BY DEF get_free_slot, SlotsOf
  <2>2. Min(get_free_slot) \in get_free_slot
    BY <1>2, <2>1, MinIn
  <2>. QED  BY <1>2, <2>2 DEF add_ctimer, get_free_slot, SlotsOf
<1>. QED  BY <1>1, <1>2

-----------------------------------------------------------------------------
LEMMA SlotOne == 1 \in Slots
<1>1. MaxCtimers \in Nat /\ Cardinality(Timers) \in Nat /\ MaxCtimers > Cardinality(Timers)
  BY TimersAssumption, FS_CardinalityType
<1>. QED  BY <1>1 DEF Slots

LEMMA InitInv == Init => IInv
<1>. SUFFICES ASSUME Init PROVE IInv
  OBVIOUS
<1>1. NoTimer \notin Timers
  BY TimersAssumption
<1>2. TypeOK
  BY SlotOne DEF Init, TypeOK
<1>3. \A t \in Timers : None(t)
  BY <1>1 DEF Init, None
<1>4. Count
  BY <1>3 DEF Count, None, AtMostOne, AtMostTwo
<1>5. Dated
  BY <1>3 DEF Init, Dated
<1>6. CurrentOK
  BY DEF Init, CurrentOK
<1>. QED  BY <1>2, <1>4, <1>5, <1>6 DEF IInv

-----------------------------------------------------------------------------
(* A step of a client, or of time, that leaves the table alone. *)
LEMMA FieldStep ==
    ASSUME IInv, NEW t \in Timers,
           \/ start(t) \/ stop(t) \/ init_ctimer(t) \/ SetExpires(t) \/ Activate(t)
           \/ Deactivate(t, "restart", "restartDelete") \/ Deactivate(t, "stop", "stopDelete")
           \/ Elapse(t)
    PROVE  IInv'
<1>. USE DEF start, stop, init_ctimer, SetExpires, Activate, Deactivate, Elapse, Goto,
             object, scan
<1>1. TypeOK'
  BY DEF IInv, TypeOK
<1>2. timers' = timers /\ thread' = thread /\ current' = current
  OBVIOUS
<1>3. \A u \in Timers : Prepared(u)' => Prepared(u)
  BY DEF IInv, TypeOK, Prepared
<1>4. Count'
  BY <1>2, <1>3 DEF IInv, Count, None, AtMostOne, AtMostTwo, Expiring
<1>5. Dated'
  BY <1>2 DEF IInv, TypeOK, Dated, None
<1>6. CurrentOK'
  BY <1>2 DEF IInv, CurrentOK
<1>. QED  BY <1>1, <1>4, <1>5, <1>6 DEF IInv

(* A timer leaves one of its slots. *)
LEMMA DeleteStep ==
    ASSUME IInv, NEW t \in Timers,
           \/ Delete(t, "restartDelete", "init")
           \/ Delete(t, "stopDelete", "idle")
    PROVE  IInv'
<1>. USE DEF Delete, Goto, object, scan
<1>1. NoTimer \notin Timers
  BY TimersAssumption
<1>2. \/ None(t) /\ timers' = timers
      \/ \E m \in Slots : timers[m] = t /\ timers' = [timers EXCEPT ![m] = NoTimer]
  BY DelSlot DEF IInv
<1>3. TypeOK'
  BY <1>2 DEF IInv, TypeOK
<1>4. \A u \in Timers, i \in Slots : timers'[i] = u => timers[i] = u
  BY <1>1, <1>2 DEF IInv, TypeOK
<1>5. ~Prepared(t)
  BY DEF Prepared
<1>6. AtMostOne(t)'
  BY <1>1, <1>2, <1>4 DEF IInv, TypeOK, Count, AtMostTwo, AtMostOne, None
<1>7. ~Expiring(t) => None(t)'
  BY <1>1, <1>2, <1>4, <1>5 DEF IInv, TypeOK, Count, AtMostOne, None
<1>8. \A u \in Timers \ {t} : Prepared(u)' = Prepared(u)
  BY DEF IInv, TypeOK, Prepared
<1>9. Count'
  <2>. SUFFICES ASSUME NEW u \in Timers
                PROVE  /\ Prepared(u)' /\ ~Expiring(u)' => None(u)'
                       /\ Prepared(u)' \/ ~Expiring(u)' => AtMostOne(u)'
                       /\ AtMostTwo(u)'
    BY DEF Count
  <2>1. Expiring(u)' = Expiring(u)
    BY DEF Expiring
  <2>2. CASE u = t
    BY <2>1, <2>2, <1>6, <1>7 DEF AtMostOne, AtMostTwo
  <2>3. CASE u # t
    BY <2>1, <2>3, <1>4, <1>8 DEF IInv, Count, None, AtMostOne, AtMostTwo
  <2>. QED  BY <2>2, <2>3
<1>10. Dated'
  BY <1>4 DEF IInv, TypeOK, Dated, None
<1>11. CurrentOK'
  BY DEF IInv, CurrentOK
<1>. QED  BY <1>3, <1>9, <1>10, <1>11 DEF IInv

(* A timer gets a slot. *)
LEMMA AddStep ==
    ASSUME IInv, NEW t \in Timers, add_ctimer(t)
    PROVE  IInv'
<1>1. /\ client[t] = "add" /\ client' = [client EXCEPT ![t] = "activate"]
      /\ UNCHANGED <<object, scan>> /\ refused' \in BOOLEAN
  BY DEF add_ctimer, Goto, IInv, TypeOK
<1>2. \/ timers' = timers
      \/ \E m \in Slots : timers[m] = NoTimer /\ timers' = [timers EXCEPT ![m] = t]
  BY AddSlot DEF IInv
<1>. USE DEF object, scan
<1>3. TypeOK'
  BY <1>1, <1>2 DEF IInv, TypeOK
<1>4. \A u \in Timers \ {t}, i \in Slots : timers'[i] = u => timers[i] = u
  BY <1>2 DEF IInv, TypeOK
<1>5. Prepared(t) /\ ~Prepared(t)'
  BY <1>1, <1>3 DEF IInv, TypeOK, Prepared
<1>6. AtMostTwo(t)' /\ (~Expiring(t) => AtMostOne(t)')
  BY <1>2, <1>5 DEF IInv, TypeOK, Count, AtMostTwo, AtMostOne, None
<1>7. \A u \in Timers \ {t} : Prepared(u)' = Prepared(u)
  BY <1>1 DEF IInv, TypeOK, Prepared
<1>8. Count'
  <2>. SUFFICES ASSUME NEW u \in Timers
                PROVE  /\ Prepared(u)' /\ ~Expiring(u)' => None(u)'
                       /\ Prepared(u)' \/ ~Expiring(u)' => AtMostOne(u)'
                       /\ AtMostTwo(u)'
    BY DEF Count
  <2>1. Expiring(u)' = Expiring(u)
    BY <1>1 DEF Expiring
  <2>2. CASE u = t
    BY <2>1, <2>2, <1>5, <1>6
  <2>3. CASE u # t
    BY <2>1, <2>3, <1>4, <1>7 DEF IInv, Count, None, AtMostOne, AtMostTwo
  <2>. QED  BY <2>2, <2>3
<1>9. Dated'
  BY <1>1, <1>4 DEF IInv, TypeOK, Dated, None
<1>10. CurrentOK'
  BY <1>1 DEF IInv, CurrentOK
<1>. QED  BY <1>3, <1>8, <1>9, <1>10 DEF IInv

(* Steps of the timer thread. *)
LEMMA ThreadStep ==
    ASSUME IInv, handle_ctimers
    PROVE  IInv'
<1>1. \A i \in Slots : NextSlot(i) \in Slots
  BY SlotOne, TimersAssumption DEF NextSlot, Slots
<1>. USE DEF object
<1>2. CASE Pass \/ Pick \/ Call \/ Return
  <2>. USE <1>2 DEF Pass, Pick, Call, Return
  <2>1. TypeOK' /\ CurrentOK'
    BY <1>1 DEF IInv, TypeOK, CurrentOK, Due
  <2>2. timers' = timers /\ client' = client /\ myIsActive' = myIsActive
    OBVIOUS
  <2>3. \A t \in Timers : Prepared(t)' = Prepared(t)
    BY <2>2 DEF Prepared
  <2>4. \A t \in Timers : ~Expiring(t) /\ ~Expiring(t)'
    BY DEF Expiring
  <2>5. Count'
    BY <2>2, <2>3, <2>4 DEF IInv, Count, None, AtMostOne, AtMostTwo
  <2>6. \A t \in Timers : expires'[t] = expires[t] \/ expires'[t] = "future"
    BY DEF IInv, TypeOK
  <2>7. Dated'
    BY <2>2, <2>6 DEF IInv, Dated, None
  <2>. QED  BY <2>1, <2>5, <2>7 DEF IInv
<1>3. CASE Expire
  <2>. USE <1>3 DEF Expire
  <2>1. TypeOK' /\ CurrentOK'
    BY DEF IInv, TypeOK, CurrentOK
  <2>2. timers' = timers /\ client' = client /\ expires' = expires
    OBVIOUS
  <2>3. \A t \in Timers : ~Expiring(t)
    BY DEF Expiring
  <2>4. \A t \in Timers : Expiring(t)' \/ Prepared(t)' = Prepared(t)
    BY DEF IInv, TypeOK, Prepared, Expiring
  <2>5. Count'
    BY <2>2, <2>3, <2>4 DEF IInv, Count, None, AtMostOne, AtMostTwo
  <2>6. Dated'
    BY <2>2 DEF IInv, Dated, None
  <2>. QED  BY <2>1, <2>5, <2>6 DEF IInv
<1>4. CASE ExpireDelete
  <2>. USE <1>4 DEF ExpireDelete
  <2>1. current \in Timers /\ NoTimer \notin Timers
    BY TimersAssumption DEF IInv, CurrentOK
  <2>2. \/ None(current) /\ timers' = timers
        \/ \E m \in Slots :
             timers[m] = current /\ timers' = [timers EXCEPT ![m] = NoTimer]
    BY <2>1, DelSlot DEF IInv
  <2>3. TypeOK' /\ CurrentOK'
    BY <2>1, <2>2 DEF IInv, TypeOK, CurrentOK
  <2>4. \A t \in Timers, i \in Slots : timers'[i] = t => timers[i] = t
    BY <2>1, <2>2 DEF IInv, TypeOK
  <2>5. \A t \in Timers : Prepared(t)' = Prepared(t) /\ ~Expiring(t)'
    BY DEF Prepared, Expiring
  <2>6. AtMostOne(current)'
    BY <2>1, <2>2, <2>4 DEF IInv, TypeOK, Count, AtMostTwo, AtMostOne, None
  <2>7. Prepared(current) => None(current)'
    BY <2>1, <2>2, <2>4 DEF IInv, TypeOK, Count, AtMostOne, None
  <2>8. Count'
    <3>. SUFFICES ASSUME NEW t \in Timers
                  PROVE  (Prepared(t) => None(t)') /\ AtMostOne(t)' /\ AtMostTwo(t)'
      BY <2>5 DEF Count
    <3>1. CASE t = current
      BY <3>1, <2>6, <2>7 DEF AtMostOne, AtMostTwo
    <3>2. CASE t # current
      <4>1. ~Expiring(t)
        BY <3>2 DEF Expiring
      <4>. QED  BY <4>1, <2>4 DEF IInv, Count, None, AtMostOne, AtMostTwo
    <3>. QED  BY <3>1, <3>2
  <2>9. Dated'
    BY <2>4 DEF IInv, Dated, None
  <2>. QED  BY <2>3, <2>8, <2>9 DEF IInv
<1>. QED  BY <1>2, <1>3, <1>4 DEF handle_ctimers

LEMMA NextInv == IInv /\ [Next]_vars => IInv'
<1>. SUFFICES ASSUME IInv, [Next]_vars PROVE IInv'
  OBVIOUS
<1>1. CASE handle_ctimers
  BY <1>1, ThreadStep
<1>2. ASSUME NEW t \in Timers, Client(t) PROVE IInv'
  BY <1>2, FieldStep, DeleteStep, AddStep DEF Client
<1>3. ASSUME NEW t \in Timers, Elapse(t) PROVE IInv'
  BY <1>3, FieldStep
<1>4. CASE UNCHANGED vars
  BY <1>4 DEF vars, object, scan, IInv, TypeOK, Count, Dated, CurrentOK, Prepared, Expiring,
              None, AtMostOne, AtMostTwo
<1>. QED  BY <1>1, <1>2, <1>3, <1>4 DEF Next

(* The slots of every timer are as many as its client and its expiry allow,  *)
(* in every state of the table (OTimer.m, ctimers.c).                        *)
THEOREM Invariance == Spec => []IInv
<1>. QED  BY InitInv, NextInv, PTL DEF Spec

(* A timer is in two slots only during its own expiry: start stops an active *)
(* timer before it adds it.                                                  *)
THEOREM OneSlotAlways == Spec => []OneSlot
<1>1. IInv => OneSlot
  <2>. SUFFICES ASSUME IInv, NEW i \in Slots, NEW j \in Slots, i # j,
                       timers[i] = timers[j], timers[i] # NoTimer
                PROVE  thread = "delete" /\ current = timers[i]
    BY DEF OneSlot
  <2>1. timers[i] \in Timers
    BY DEF IInv, TypeOK
  <2>2. ~AtMostOne(timers[i])
    BY DEF AtMostOne
  <2>. QED  BY <2>1, <2>2 DEF IInv, Count, Expiring
<1>. QED  BY <1>1, Invariance, PTL

(* The thread takes no timer before its time: handle_ctimers never sees the  *)
(* expires of 0 that init_ctimer sets.                                       *)
THEOREM NeverEarlyAlways == Spec => NeverEarly
<1>1. IInv /\ [Next]_vars =>
        [thread = "scan" /\ thread' # "scan" => expires[timers[slot]] = "past"]_vars
  <2>. SUFFICES ASSUME IInv, Next, thread = "scan", thread' # "scan"
                PROVE  expires[timers[slot]] = "past"
    BY DEF vars, scan
  <2>1. Pick
    BY DEF Next, handle_ctimers, Pass, Pick, Expire, ExpireDelete, Call, Return, Client,
           Elapse, start, stop, Deactivate, Delete, init_ctimer, SetExpires, add_ctimer,
           Activate, scan
  <2>2. timers[slot] \in Timers /\ slot \in Slots
    BY <2>1 DEF Pick, Due, IInv, TypeOK
  <2>3. expires[timers[slot]] \in {"zero", "past"}
    BY <2>1, <2>2 DEF Pick, Due, IInv, TypeOK
  <2>4. ~None(timers[slot]) /\ ~Expiring(timers[slot])
    BY <2>2 DEF None, Expiring
  <2>5. client[timers[slot]] # "set"
    BY <2>2, <2>4 DEF IInv, Count, Prepared
  <2>. QED  BY <2>2, <2>3, <2>4, <2>5 DEF IInv, Dated
<1>. QED  BY <1>1, Invariance, PTL DEF Spec, NeverEarly

(* The variables of the timer table keep their types. *)
THEOREM TypeCorrect == Spec => []TypeOK
<1>. QED  BY Invariance, PTL DEF IInv

-----------------------------------------------------------------------------
(* No map takes the slots to the timers without taking two to the same.      *)
LEMMA MoreSlots ==
    ASSUME NEW g \in [Slots -> Timers]
    PROVE  \E i, j \in Slots : i # j /\ g[i] = g[j]
<1>1. IsFiniteSet(Slots) /\ Cardinality(Slots) = MaxCtimers
  <2>1. MaxCtimers \in Nat /\ MaxCtimers > 0
    BY TimersAssumption, FS_CardinalityType
  <2>. QED  BY <2>1, FS_Interval DEF Slots
<1>2. IsFiniteSet(Timers) /\ Cardinality(Timers) < Cardinality(Slots)
  BY <1>1, TimersAssumption, FS_CardinalityType
<1>. QED  BY <1>1, <1>2, FS_PigeonHole

(* The timer that is about to be added is in no slot that is not about to be *)
(* left, so that a slot is free.                                             *)
LEMMA FreeSlot ==
    ASSUME IInv, NEW t \in Timers, client[t] = "add"
    PROVE  get_free_slot # {}
<1>. SUFFICES ASSUME \A i \in Slots : timers[i] # NoTimer PROVE FALSE
  BY DEF get_free_slot, SlotsOf
<1>1. timers \in [Slots -> Timers]
  BY DEF IInv, TypeOK
<1>2. Prepared(t)
  BY DEF Prepared
<1>3. PICK a, b \in Slots : a # b /\ timers[a] = timers[b]
  BY <1>1, MoreSlots
<1>4. timers[a] \in Timers /\ ~AtMostOne(timers[a])
  BY <1>1, <1>3 DEF AtMostOne
<1>5. Expiring(timers[a]) /\ timers[a] # t
  BY <1>2, <1>4 DEF IInv, Count
<1>6. None(t)
  BY <1>2, <1>5 DEF IInv, Count, Expiring
<1>. DEFINE g == [timers EXCEPT ![b] = t]
<1>7. g \in [Slots -> Timers]
  BY <1>1
<1>8. PICK i, j \in Slots : i # j /\ g[i] = g[j]
  <2>. HIDE DEF g
  <2>. QED  BY <1>7, MoreSlots
<1>9. i # b /\ j # b
  BY <1>1, <1>6, <1>8 DEF None
<1>10. timers[i] = timers[j] /\ timers[i] \in Timers
  BY <1>1, <1>8, <1>9
<1>11. CASE timers[i] = timers[a]
  BY <1>3, <1>4, <1>8, <1>9, <1>10, <1>11 DEF IInv, Count, AtMostTwo
<1>12. CASE timers[i] # timers[a]
  <2>1. ~Expiring(timers[i])
    BY <1>5, <1>12 DEF Expiring
  <2>. QED  BY <1>8, <1>10, <2>1 DEF IInv, Count, AtMostOne
<1>. QED  BY <1>11, <1>12

(* A slot more than there are timers is enough for every start: start, which *)
(* ignores what add_ctimer answers, never loses its time-out.                *)
THEOREM NeverRefusedAlways == Spec => []NeverRefused
<1>1. Init => NeverRefused
  BY DEF Init, NeverRefused
<1>2. IInv /\ NeverRefused /\ [Next]_vars => NeverRefused'
  <2>. SUFFICES ASSUME IInv, NeverRefused, [Next]_vars PROVE NeverRefused'
    OBVIOUS
  <2>1. ASSUME NEW t \in Timers, add_ctimer(t) PROVE NeverRefused'
    <3>1. get_free_slot # {}
      BY <2>1, FreeSlot DEF add_ctimer, Goto
    <3>. QED  BY <2>1, <3>1 DEF add_ctimer, NeverRefused
  <2>. QED
    BY <2>1 DEF NeverRefused, Next, handle_ctimers, Pass, Pick, Expire, ExpireDelete, Call,
       Return, Client, Elapse, start, stop, Deactivate, Delete, init_ctimer, SetExpires,
       Activate, vars
<1>. QED  BY <1>1, <1>2, Invariance, PTL DEF Spec

-----------------------------------------------------------------------------
(* What the owners of the one-shot timers see of them: the variables of      *)
(* OneShotTimers.                                                            *)
OneShot == Timers \ Periodic
Starting == [t \in OneShot |->
               client[t] \in {"restart", "restartDelete", "init", "set", "add"}]
Armed == [t \in OneShot |-> SlotsOf(t) # {}]
Expiries == [t \in OneShot |-> Expiry(t)]
Again == [t \in OneShot |-> thread = "delete" /\ current = t /\ Cardinality(SlotsOf(t)) > 1]

LEMMA MoreThanOne ==
    ASSUME NEW S, IsFiniteSet(S)
    PROVE  Cardinality(S) > 1 <=> \E i, j \in S : i # j
<1>1. Cardinality(S) \in Nat
  BY FS_CardinalityType
<1>2. Cardinality(S) = 0 <=> S = {}
  BY FS_EmptySet
<1>3. Cardinality(S) = 1 <=> \E x : S = {x}
  BY FS_Singleton
<1>4. ASSUME S # {}, ~\E x : S = {x} PROVE \E i, j \in S : i # j
  <2>1. PICK i \in S : TRUE
    BY <1>4
  <2>2. S # {i}
    BY <1>4
  <2>. QED  BY <2>1, <2>2
<1>. QED  BY <1>1, <1>2, <1>3, <1>4

(* Only an expiry can find two slots of its timer.                           *)
AgainOK == \A t \in OneShot : Again[t] <=> ~AtMostOne(t)

LEMMA AgainFromInv == IInv => AgainOK
<1>. SUFFICES ASSUME IInv, NEW t \in OneShot PROVE Again[t] <=> ~AtMostOne(t)
  BY DEF AgainOK
<1>1. IsFiniteSet(SlotsOf(t))
  <2>1. MaxCtimers \in Nat
    BY TimersAssumption
  <2>2. IsFiniteSet(Slots)
    BY <2>1, FS_Interval DEF Slots
  <2>. QED  BY <2>2, FS_Subset DEF SlotsOf
<1>2. Cardinality(SlotsOf(t)) > 1 <=> \E i, j \in SlotsOf(t) : i # j
  BY <1>1, MoreThanOne
<1>3. Cardinality(SlotsOf(t)) > 1 <=> ~AtMostOne(t)
  BY <1>2 DEF SlotsOf, AtMostOne
<1>4. ~AtMostOne(t) => thread = "delete" /\ current = t
  BY DEF IInv, Count, Expiring, OneShot
<1>. QED  BY <1>3, <1>4 DEF Again

LEMMA Replaced ==
    ASSUME NEW S, NEW f, NEW g, NEW t \in S, NEW b,
           f = [u \in S |-> f[u]], g = [u \in S |-> g[u]],
           g[t] = b, \A u \in S \ {t} : g[u] = f[u]
    PROVE  g = [f EXCEPT ![t] = b]
OBVIOUS

(* The steps of OneShotTimers, in these variables.                           *)
LEMMA AbstractSteps ==
    ASSUME NEW t \in OneShot
    PROVE  /\ /\ ~Starting[t] /\ Starting' = [Starting EXCEPT ![t] = TRUE]
              /\ UNCHANGED <<Armed, Expiries, Again>>
              => Abstract!CallStart(t)
           /\ \A c \in BOOLEAN :
                /\ Starting[t] /\ Starting' = [Starting EXCEPT ![t] = FALSE]
                /\ UNCHANGED Expiries /\ (c => Expiries[t] = "picked")
                /\ Armed' = [Armed EXCEPT ![t] = TRUE] /\ Again' = [Again EXCEPT ![t] = c]
                => Abstract!Start(t)
           /\ \A b \in BOOLEAN :
                /\ UNCHANGED <<Starting, Expiries>>
                /\ b => Expiries[t] = "picked" /\ Armed[t]
                /\ Armed' = [Armed EXCEPT ![t] = b] /\ Again' = [Again EXCEPT ![t] = FALSE]
                => Abstract!Stop(t)
           /\ /\ Armed[t] /\ Expiries[t] = "none"
              /\ Expiries' = [Expiries EXCEPT ![t] = "picked"]
              /\ UNCHANGED <<Starting, Armed, Again>>
              => Abstract!Pick(t)
           /\ /\ Expiries[t] = "picked" /\ Expiries' = [Expiries EXCEPT ![t] = "calling"]
              /\ Armed' = [Armed EXCEPT ![t] = Again[t]]
              /\ Again' = [Again EXCEPT ![t] = FALSE] /\ UNCHANGED Starting
              => Abstract!Expire(t)
           /\ /\ Expiries[t] = "calling" /\ Expiries' = [Expiries EXCEPT ![t] = "none"]
              /\ UNCHANGED <<Starting, Armed, Again>>
              => Abstract!Call(t)
<1>. USE DEF Starting, Armed, Expiries, Again, OneShot
<1>1. /\ ~Starting[t] /\ Starting' = [Starting EXCEPT ![t] = TRUE]
      /\ UNCHANGED <<Armed, Expiries, Again>>
      => Abstract!CallStart(t)
  BY Zenon DEF Abstract!CallStart, Abstract!Owner
<1>2. \A c \in BOOLEAN :
        /\ Starting[t] /\ Starting' = [Starting EXCEPT ![t] = FALSE]
        /\ UNCHANGED Expiries /\ (c => Expiries[t] = "picked")
        /\ Armed' = [Armed EXCEPT ![t] = TRUE] /\ Again' = [Again EXCEPT ![t] = c]
        => Abstract!Start(t)
  BY Zenon DEF Abstract!Start, Abstract!Owner, Abstract!Arm
<1>3. \A b \in BOOLEAN :
        /\ UNCHANGED <<Starting, Expiries>>
        /\ b => Expiries[t] = "picked" /\ Armed[t]
        /\ Armed' = [Armed EXCEPT ![t] = b] /\ Again' = [Again EXCEPT ![t] = FALSE]
        => Abstract!Stop(t)
  BY Zenon DEF Abstract!Stop, Abstract!Arm
<1>4. /\ Armed[t] /\ Expiries[t] = "none"
      /\ Expiries' = [Expiries EXCEPT ![t] = "picked"]
      /\ UNCHANGED <<Starting, Armed, Again>>
      => Abstract!Pick(t)
  BY Zenon DEF Abstract!Pick, Abstract!Move
<1>5. /\ Expiries[t] = "picked" /\ Expiries' = [Expiries EXCEPT ![t] = "calling"]
      /\ Armed' = [Armed EXCEPT ![t] = Again[t]]
      /\ Again' = [Again EXCEPT ![t] = FALSE] /\ UNCHANGED Starting
      => Abstract!Expire(t)
  BY Zenon DEF Abstract!Expire, Abstract!Move, Abstract!Arm
<1>6. /\ Expiries[t] = "calling" /\ Expiries' = [Expiries EXCEPT ![t] = "none"]
      /\ UNCHANGED <<Starting, Armed, Again>>
      => Abstract!Call(t)
  BY Zenon DEF Abstract!Call, Abstract!Move
<1>. HIDE DEF Starting, Armed, Expiries, Again, OneShot
<1>. QED  BY <1>1, <1>2, <1>3, <1>4, <1>5, <1>6

(* A step as the owners see it.                                              *)
seen == <<Starting, Armed, Expiries, Again>>
SeenStep == (\E t \in OneShot : \/ Abstract!CallStart(t) \/ Abstract!Start(t)
                                \/ Abstract!Stop(t) \/ Abstract!Pick(t)
                                \/ Abstract!Expire(t) \/ Abstract!Call(t))
            \/ UNCHANGED seen

(* What a step of the table, or of a client, leaves alone.                   *)
LEMMA TableSame ==
    ASSUME UNCHANGED <<timers, scan>>
    PROVE  UNCHANGED <<Armed, Expiries, Again>>
BY DEF scan, Armed, Expiries, Again, SlotsOf, Expiry

LEMMA ClientSame ==
    ASSUME NEW t \in Timers, NEW from, NEW to, IInv, Goto(t, from, to),
           t \in OneShot =>
             (from \in {"restart", "restartDelete", "init", "set", "add"}
                <=> to \in {"restart", "restartDelete", "init", "set", "add"})
    PROVE  UNCHANGED Starting
<1>1. ASSUME NEW u \in OneShot PROVE Starting'[u] = Starting[u]
  <2>1. client[t] = from /\ client'[t] = to
    BY DEF Goto, IInv, TypeOK
  <2>2. u # t => client'[u] = client[u]
    BY DEF Goto, IInv, TypeOK, OneShot
  <2>. QED  BY <2>1, <2>2 DEF Starting, OneShot
<1>. QED  BY <1>1 DEF Starting, OneShot

LEMMA StartingSet ==
    ASSUME NEW t \in OneShot, NEW from, NEW to, IInv, Goto(t, from, to), NEW b \in BOOLEAN,
           b <=> to \in {"restart", "restartDelete", "init", "set", "add"}
    PROVE  Starting' = [Starting EXCEPT ![t] = b]
<1>1. client'[t] = to /\ t \in OneShot
  BY DEF Goto, IInv, TypeOK, OneShot
<1>2. Starting'[t] = b
  BY <1>1 DEF Starting
<1>3. ASSUME NEW u \in OneShot \ {t} PROVE Starting'[u] = Starting[u]
  <2>1. client'[u] = client[u]
    BY DEF Goto, IInv, TypeOK, OneShot
  <2>. QED  BY <2>1 DEF Starting
<1>4. /\ Starting = [u \in OneShot |-> Starting[u]]
      /\ Starting' = [u \in OneShot |-> Starting'[u]]
  BY DEF Starting
<1>. QED  BY <1>2, <1>3, <1>4, Replaced

(* The steps that neither begin a start nor touch the table.                 *)
LEMMA FieldSeen ==
    ASSUME IInv, NEW t \in Timers,
           \/ stop(t) \/ init_ctimer(t) \/ SetExpires(t) \/ Activate(t)
           \/ Deactivate(t, "restart", "restartDelete") \/ Deactivate(t, "stop", "stopDelete")
           \/ Elapse(t)
    PROVE  SeenStep
<1>1. UNCHANGED <<timers, scan>>
  BY DEF stop, init_ctimer, SetExpires, Activate, Deactivate, Elapse
<1>. DEFINE kept == Starting' = Starting
<1>2. stop(t) => kept
  BY ClientSame DEF stop
<1>3. init_ctimer(t) => kept
  BY ClientSame DEF init_ctimer
<1>4. SetExpires(t) => kept
  BY ClientSame DEF SetExpires
<1>5. Activate(t) => kept
  BY ClientSame DEF Activate
<1>6. Deactivate(t, "restart", "restartDelete") => kept
  BY ClientSame DEF Deactivate
<1>7. Deactivate(t, "stop", "stopDelete") => kept
  BY ClientSame DEF Deactivate
<1>8. Elapse(t) => kept
  BY DEF Elapse, Starting
<1>. QED  BY <1>1, <1>2, <1>3, <1>4, <1>5, <1>6, <1>7, <1>8, TableSame DEF SeenStep, seen

LEMMA StartSeen ==
    ASSUME IInv, NEW t \in Timers, start(t)
    PROVE  SeenStep
<1>1. UNCHANGED <<Armed, Expiries, Again>>
  BY TableSame DEF start
<1>2. PICK to \in {"restart", "init"} : Goto(t, "idle", to)
  BY DEF start
<1>3. CASE t \in OneShot
  <2>1. Starting' = [Starting EXCEPT ![t] = TRUE]
    BY <1>2, <1>3, StartingSet
  <2>2. ~Starting[t]
    BY <1>2, <1>3 DEF Starting, Goto
  <2>3. Abstract!CallStart(t)
    BY <1>1, <1>3, <2>1, <2>2, AbstractSteps
  <2>. QED  BY <1>3, <2>3 DEF SeenStep
<1>4. CASE t \notin OneShot
  BY <1>1, <1>2, <1>4, ClientSame DEF SeenStep, seen
<1>. QED  BY <1>3, <1>4

(* The slots of the other timers, and of t, after del_ctimer.                *)
LEMMA Deleted ==
    ASSUME IInv, NEW t \in Timers, timers' = del_ctimer(t)
    PROVE  /\ \A u \in Timers \ {t} : SlotsOf(u)' = SlotsOf(u)
           /\ SlotsOf(t)' # {} <=> ~AtMostOne(t)
           /\ AtMostOne(t)'
<1>1. timers \in [Slots -> Timers \cup {NoTimer}] /\ NoTimer \notin Timers
  BY TimersAssumption DEF IInv, TypeOK
<1>2. CASE None(t) /\ timers' = timers
  BY <1>2 DEF SlotsOf, None, AtMostOne
<1>3. CASE \E m \in Slots : timers[m] = t /\ timers' = [timers EXCEPT ![m] = NoTimer]
  <2>1. PICK m \in Slots : timers[m] = t /\ timers' = [timers EXCEPT ![m] = NoTimer]
    BY <1>3
  <2>2. \A i \in Slots : timers'[i] = IF i = m THEN NoTimer ELSE timers[i]
    BY <1>1, <2>1
  <2>3. \A u \in Timers \ {t} : SlotsOf(u)' = SlotsOf(u)
    BY <1>1, <2>1, <2>2 DEF SlotsOf
  <2>4. SlotsOf(t)' # {} <=> \E i \in Slots \ {m} : timers[i] = t
    BY <1>1, <2>2 DEF SlotsOf
  <2>5. (\E i \in Slots \ {m} : timers[i] = t) <=> ~AtMostOne(t)
    BY <2>1 DEF AtMostOne
  <2>6. AtMostOne(t)'
    BY <1>1, <2>1, <2>2 DEF IInv, Count, AtMostTwo, AtMostOne
  <2>. QED  BY <2>3, <2>4, <2>5, <2>6
<1>. QED  BY <1>2, <1>3, DelSlot DEF IInv

(* The functions of the one-shot timers, where one of them changes.          *)
LEMMA ArmedSet ==
    ASSUME NEW t \in OneShot, \A u \in OneShot \ {t} : SlotsOf(u)' = SlotsOf(u),
           NEW b \in BOOLEAN, b <=> SlotsOf(t)' # {}
    PROVE  Armed' = [Armed EXCEPT ![t] = b]
<1>1. Armed'[t] = b /\ \A u \in OneShot \ {t} : Armed'[u] = Armed[u]
  BY DEF Armed
<1>2. Armed = [u \in OneShot |-> Armed[u]] /\ Armed' = [u \in OneShot |-> Armed'[u]]
  BY DEF Armed
<1>. QED  BY <1>1, <1>2, Replaced

LEMMA AgainSet ==
    ASSUME AgainOK, AgainOK', NEW t \in OneShot,
           \A u \in OneShot \ {t} : SlotsOf(u)' = SlotsOf(u),
           NEW b \in BOOLEAN, b <=> ~AtMostOne(t)'
    PROVE  Again' = [Again EXCEPT ![t] = b]
<1>1. ASSUME NEW u \in OneShot \ {t} PROVE Again'[u] = Again[u]
  <2>1. AtMostOne(u)' <=> AtMostOne(u)
    BY <1>1 DEF AtMostOne, SlotsOf
  <2>2. Again[u] \in BOOLEAN /\ Again'[u] \in BOOLEAN
    BY DEF Again
  <2>. QED  BY <2>1, <2>2 DEF AgainOK
<1>2. Again'[t] = b
  <2>1. Again'[t] \in BOOLEAN
    BY DEF Again
  <2>. QED  BY <2>1 DEF AgainOK
<1>3. Again = [u \in OneShot |-> Again[u]] /\ Again' = [u \in OneShot |-> Again'[u]]
  BY DEF Again
<1>. QED  BY <1>1, <1>2, <1>3, Replaced

LEMMA TablesKept ==
    ASSUME AgainOK, AgainOK', \A u \in OneShot : SlotsOf(u)' = SlotsOf(u)
    PROVE  UNCHANGED <<Armed, Again>>
<1>1. Armed' = Armed
  BY DEF Armed
<1>2. ASSUME NEW u \in OneShot PROVE Again'[u] = Again[u]
  <2>1. AtMostOne(u)' <=> AtMostOne(u)
    BY DEF AtMostOne, SlotsOf
  <2>2. Again[u] \in BOOLEAN /\ Again'[u] \in BOOLEAN
    BY DEF Again
  <2>. QED  BY <2>1, <2>2 DEF AgainOK
<1>3. Again' = Again
  BY <1>2 DEF Again
<1>. QED  BY <1>1, <1>3

(* Two slots are an expiry that is under way.                                *)
LEMMA TwoPicked ==
    ASSUME IInv, NEW t \in OneShot, ~AtMostOne(t)
    PROVE  Expiries[t] = "picked" /\ Armed[t]
<1>1. thread = "delete" /\ current = t /\ t \in Timers
  BY DEF IInv, Count, Expiring, OneShot
<1>2. Expiries[t] = "picked"
  BY <1>1 DEF Expiries, Expiry
<1>3. SlotsOf(t) # {}
  BY DEF AtMostOne, SlotsOf
<1>. QED  BY <1>2, <1>3 DEF Armed

LEMMA DeleteSeen ==
    ASSUME IInv, AgainOK, AgainOK', NEW t \in Timers,
           \/ Delete(t, "restartDelete", "init")
           \/ Delete(t, "stopDelete", "idle")
    PROVE  SeenStep
<1>1. timers' = del_ctimer(t) /\ UNCHANGED scan
  BY DEF Delete
<1>2. UNCHANGED Starting
  BY ClientSame DEF Delete
<1>3. UNCHANGED Expiries
  BY <1>1 DEF scan, Expiries, Expiry
<1>4. CASE t \in OneShot
  <2>. DEFINE b == ~AtMostOne(t)
  <2>1. /\ \A u \in OneShot \ {t} : SlotsOf(u)' = SlotsOf(u)
        /\ SlotsOf(t)' # {} <=> b
        /\ AtMostOne(t)'
    BY <1>1, Deleted DEF OneShot
  <2>2. Armed' = [Armed EXCEPT ![t] = b]
    BY <1>4, <2>1, ArmedSet
  <2>3. Again' = [Again EXCEPT ![t] = FALSE]
    BY <1>4, <2>1, AgainSet
  <2>4. b => Expiries[t] = "picked" /\ Armed[t]
    BY <1>4, TwoPicked
  <2>5. b \in BOOLEAN
    OBVIOUS
  <2>6. Abstract!Stop(t)
    <3>. HIDE DEF b
    <3>. QED  BY <1>2, <1>3, <1>4, <2>2, <2>3, <2>4, <2>5, AbstractSteps
  <2>. QED  BY <1>4, <2>6 DEF SeenStep
<1>5. CASE t \notin OneShot
  <2>1. \A u \in OneShot : SlotsOf(u)' = SlotsOf(u)
    BY <1>1, <1>5, Deleted DEF OneShot
  <2>. QED  BY <1>2, <1>3, <2>1, TablesKept DEF SeenStep, seen
<1>. QED  BY <1>4, <1>5

LEMMA AddSeen ==
    ASSUME IInv, IInv', AgainOK, AgainOK', NEW t \in Timers, add_ctimer(t)
    PROVE  SeenStep
<1>1. PICK m \in Slots : timers[m] = NoTimer /\ timers' = [timers EXCEPT ![m] = t]
  <2>1. get_free_slot # {} /\ get_free_slot \in SUBSET Slots
    BY FreeSlot DEF add_ctimer, Goto, get_free_slot, SlotsOf
  <2>2. Min(get_free_slot) \in get_free_slot
    BY <2>1, MinIn
  <2>. QED  BY <2>1, <2>2 DEF add_ctimer, get_free_slot, SlotsOf
<1>2. timers \in [Slots -> Timers \cup {NoTimer}] /\ NoTimer \notin Timers
  BY TimersAssumption DEF IInv, TypeOK
<1>3. \A i \in Slots : timers'[i] = IF i = m THEN t ELSE timers[i]
  BY <1>1, <1>2
<1>4. SlotsOf(t)' # {} /\ \A u \in Timers \ {t} : SlotsOf(u)' = SlotsOf(u)
  BY <1>1, <1>2, <1>3 DEF SlotsOf
<1>5. UNCHANGED Expiries
  BY DEF add_ctimer, scan, Expiries, Expiry
<1>6. Goto(t, "add", "activate") /\ UNCHANGED scan
  BY DEF add_ctimer
<1>7. CASE t \in OneShot
  <2>. DEFINE c == ~AtMostOne(t)'
  <2>1. Starting' = [Starting EXCEPT ![t] = FALSE] /\ Starting[t]
    <3>1. Starting[t]
      BY <1>6, <1>7 DEF Starting, Goto
    <3>2. FALSE <=> "activate" \in {"restart", "restartDelete", "init", "set", "add"}
      OBVIOUS
    <3>3. FALSE \in BOOLEAN
      OBVIOUS
    <3>4. Starting' = [Starting EXCEPT ![t] = FALSE]
      BY <1>6, <1>7, <3>2, <3>3, StartingSet, Zenon
    <3>. QED  BY <3>1, <3>4
  <2>2. Armed' = [Armed EXCEPT ![t] = TRUE]
    BY <1>4, <1>7, ArmedSet DEF OneShot
  <2>3. Again' = [Again EXCEPT ![t] = c]
    BY <1>4, <1>7, AgainSet DEF OneShot
  <2>4. c => Expiries[t] = "picked"
    <3>. SUFFICES ASSUME ~AtMostOne(t)' PROVE Expiries[t] = "picked"
      OBVIOUS
    <3>1. Expiring(t)'
      BY DEF IInv, Count
    <3>2. thread = "delete" /\ current = t
      BY <1>6, <3>1 DEF Expiring, scan
    <3>. QED  BY <1>7, <3>2 DEF Expiries, Expiry
  <2>5. c \in BOOLEAN
    OBVIOUS
  <2>6. Abstract!Start(t)
    <3>. HIDE DEF c
    <3>. QED  BY <1>5, <1>7, <2>1, <2>2, <2>3, <2>4, <2>5, AbstractSteps
  <2>. QED  BY <1>7, <2>6 DEF SeenStep
<1>8. CASE t \notin OneShot
  <2>1. \A u \in OneShot : SlotsOf(u)' = SlotsOf(u)
    BY <1>4, <1>8 DEF OneShot
  <2>2. UNCHANGED Starting
    BY <1>6, <1>8, ClientSame
  <2>. QED  BY <1>5, <2>1, <2>2, TablesKept DEF SeenStep, seen
<1>. QED  BY <1>7, <1>8

-----------------------------------------------------------------------------
(* The steps of the timer thread, as the owners see them.                    *)
LEMMA ExpirySet ==
    ASSUME NEW t \in OneShot, NEW b, Expiries'[t] = b,
           \A u \in OneShot \ {t} : Expiries'[u] = Expiries[u]
    PROVE  Expiries' = [Expiries EXCEPT ![t] = b]
<1>1. /\ Expiries = [u \in OneShot |-> Expiries[u]]
      /\ Expiries' = [u \in OneShot |-> Expiries'[u]]
  BY DEF Expiries
<1>. QED  BY <1>1, Replaced

LEMMA ThreadClient ==
    ASSUME handle_ctimers
    PROVE  UNCHANGED Starting
BY DEF handle_ctimers, Pass, Pick, Expire, ExpireDelete, Call, Return, Starting

LEMMA PickSeen ==
    ASSUME IInv, AgainOK, AgainOK', Pick
    PROVE  SeenStep
<1>1. /\ thread = "scan" /\ current' = timers[slot] /\ UNCHANGED timers
      /\ thread' = IF current' \in Periodic THEN "call" ELSE "expire"
      /\ current' \in Timers /\ slot \in Slots
  BY DEF Pick, Due, IInv, TypeOK
<1>2. UNCHANGED <<Armed, Again>>
  <2>1. \A u \in OneShot : SlotsOf(u)' = SlotsOf(u)
    BY <1>1 DEF SlotsOf
  <2>. QED  BY <2>1, TablesKept
<1>3. UNCHANGED Starting
  BY ThreadClient DEF handle_ctimers
<1>4. \A u \in OneShot : Expiries[u] = "none"
  BY <1>1 DEF Expiries, Expiry
<1>5. CASE current' \in OneShot
  <2>. DEFINE t == current'
  <2>1. Armed[t] /\ thread' = "expire"
    BY <1>1, <1>5 DEF Armed, SlotsOf, OneShot
  <2>2. Expiries'[t] = "picked" /\ \A u \in OneShot \ {t} : Expiries'[u] = "none"
    BY <1>5, <2>1 DEF Expiries, Expiry
  <2>3. Expiries' = [Expiries EXCEPT ![t] = "picked"]
    BY <1>4, <1>5, <2>2, ExpirySet
  <2>4. Abstract!Pick(t)
    BY <1>2, <1>3, <1>4, <1>5, <2>1, <2>3, AbstractSteps
  <2>. QED  BY <1>5, <2>4 DEF SeenStep
<1>6. CASE current' \notin OneShot
  <2>1. \A u \in OneShot : Expiries'[u] = "none"
    BY <1>6 DEF Expiries, Expiry
  <2>2. Expiries' = Expiries
    BY <1>4, <2>1 DEF Expiries
  <2>. QED  BY <1>2, <1>3, <2>2 DEF SeenStep, seen
<1>. QED  BY <1>5, <1>6

LEMMA ExpireSeen ==
    ASSUME IInv, AgainOK, AgainOK', Expire
    PROVE  SeenStep
<1>1. thread = "expire" /\ thread' = "delete" /\ UNCHANGED <<current, timers>>
  BY DEF Expire
<1>2. UNCHANGED <<Armed, Again>>
  <2>1. \A u \in OneShot : SlotsOf(u)' = SlotsOf(u)
    BY <1>1 DEF SlotsOf
  <2>. QED  BY <2>1, TablesKept
<1>3. UNCHANGED Starting
  BY ThreadClient DEF handle_ctimers
<1>4. UNCHANGED Expiries
  BY <1>1 DEF Expiries, Expiry
<1>. QED  BY <1>2, <1>3, <1>4 DEF SeenStep, seen

LEMMA ExpireDeleteSeen ==
    ASSUME IInv, AgainOK, AgainOK', ExpireDelete
    PROVE  SeenStep
<1>1. PICK t \in Timers : t = current
  BY DEF ExpireDelete, IInv, CurrentOK
<1>2. /\ thread = "delete" /\ thread' = "call" /\ current' = t
      /\ timers' = del_ctimer(t)
  BY <1>1 DEF ExpireDelete
<1>3. UNCHANGED Starting
  BY ThreadClient DEF handle_ctimers
<1>4. \A u \in OneShot \ {t} : Expiries'[u] = Expiries[u]
  BY <1>1, <1>2 DEF Expiries, Expiry
<1>5. /\ \A u \in Timers \ {t} : SlotsOf(u)' = SlotsOf(u)
      /\ SlotsOf(t)' # {} <=> ~AtMostOne(t)
      /\ AtMostOne(t)'
  BY <1>2, Deleted
<1>6. \A u \in OneShot \ {t} : SlotsOf(u)' = SlotsOf(u)
  BY <1>5 DEF OneShot
<1>7. CASE t \in OneShot
  <2>1. Expiries[t] = "picked" /\ Expiries'[t] = "calling"
    BY <1>1, <1>2, <1>7 DEF Expiries, Expiry
  <2>2. Expiries' = [Expiries EXCEPT ![t] = "calling"]
    BY <1>4, <1>7, <2>1, ExpirySet
  <2>3. Again[t] \in BOOLEAN /\ (Again[t] <=> SlotsOf(t)' # {})
    <3>1. Again[t] \in BOOLEAN
      BY <1>7 DEF Again
    <3>. QED  BY <1>5, <1>7, <3>1 DEF AgainOK
  <2>4. Armed' = [Armed EXCEPT ![t] = Again[t]]
    <3>1. PICK b \in BOOLEAN : b = Again[t]
      BY <2>3
    <3>. QED  BY <1>6, <1>7, <2>3, <3>1, ArmedSet
  <2>5. Again' = [Again EXCEPT ![t] = FALSE]
    BY <1>5, <1>6, <1>7, AgainSet
  <2>6. Abstract!Expire(t)
    BY <1>3, <1>7, <2>1, <2>2, <2>4, <2>5, AbstractSteps
  <2>. QED  BY <1>7, <2>6 DEF SeenStep
<1>8. CASE t \notin OneShot
  <2>1. \A u \in OneShot : SlotsOf(u)' = SlotsOf(u)
    BY <1>6, <1>8
  <2>2. Expiries' = Expiries
    BY <1>4, <1>8 DEF Expiries
  <2>. QED  BY <1>3, <2>1, <2>2, TablesKept DEF SeenStep, seen
<1>. QED  BY <1>7, <1>8

LEMMA CallSeen ==
    ASSUME IInv, AgainOK, AgainOK', Call
    PROVE  SeenStep
<1>1. thread = "call" /\ thread' = "called" /\ UNCHANGED <<current, timers>>
  BY DEF Call
<1>2. UNCHANGED <<Armed, Again>>
  <2>1. \A u \in OneShot : SlotsOf(u)' = SlotsOf(u)
    BY <1>1 DEF SlotsOf
  <2>. QED  BY <2>1, TablesKept
<1>3. UNCHANGED Starting
  BY ThreadClient DEF handle_ctimers
<1>4. \A u \in OneShot : Expiries'[u] = "none" /\ (u # current => Expiries[u] = "none")
  BY <1>1 DEF Expiries, Expiry
<1>5. CASE current \in OneShot
  <2>1. Expiries[current] = "calling"
    BY <1>1, <1>5 DEF Expiries, Expiry
  <2>2. Expiries' = [Expiries EXCEPT ![current] = "none"]
    BY <1>4, <1>5, ExpirySet
  <2>3. Abstract!Call(current)
    BY <1>2, <1>3, <1>5, <2>1, <2>2, AbstractSteps
  <2>. QED  BY <1>5, <2>3 DEF SeenStep
<1>6. CASE current \notin OneShot
  <2>1. Expiries' = Expiries
    BY <1>4, <1>6 DEF Expiries
  <2>. QED  BY <1>2, <1>3, <2>1 DEF SeenStep, seen
<1>. QED  BY <1>5, <1>6

LEMMA RestSeen ==
    ASSUME IInv, AgainOK, AgainOK', Pass \/ Return \/ UNCHANGED vars
    PROVE  SeenStep
<1>1. UNCHANGED <<timers, client>>
  BY DEF Pass, Return, vars
<1>2. UNCHANGED <<Armed, Again>>
  <2>1. \A u \in OneShot : SlotsOf(u)' = SlotsOf(u)
    BY <1>1 DEF SlotsOf
  <2>. QED  BY <2>1, TablesKept
<1>3. UNCHANGED Starting
  BY <1>1 DEF Starting
<1>4. UNCHANGED Expiries
  <2>1. CASE Return
    BY <2>1 DEF Return, Expiries, Expiry
  <2>2. CASE Pass \/ UNCHANGED vars
    BY <2>2 DEF Pass, vars, scan, Expiries, Expiry
  <2>. QED  BY <2>1, <2>2
<1>. QED  BY <1>2, <1>3, <1>4 DEF SeenStep, seen

LEMMA NextSeen ==
    ASSUME IInv, IInv', AgainOK, AgainOK', [Next]_vars
    PROVE  SeenStep
<1>1. CASE handle_ctimers
  BY <1>1, PickSeen, ExpireSeen, ExpireDeleteSeen, CallSeen, RestSeen DEF handle_ctimers
<1>2. ASSUME NEW t \in Timers, Client(t) PROVE SeenStep
  BY <1>2, StartSeen, FieldSeen, DeleteSeen, AddSeen DEF Client
<1>3. ASSUME NEW t \in Timers, Elapse(t) PROVE SeenStep
  BY <1>3, FieldSeen
<1>4. CASE UNCHANGED vars
  BY <1>4, RestSeen
<1>. QED  BY <1>1, <1>2, <1>3, <1>4 DEF Next

(* Each one-shot timer of the table is the timer that the workflows of the   *)
(* doors are modelled with: an expiry that was picked is not revoked, takes  *)
(* the starts that came before it with it, and leaves at most one that       *)
(* slipped in (OTimer.m expireTimer, start and stop).                        *)
THEOREM OneShotRefinement == Spec => ImplementsOneShot
<1>1. Init => Abstract!Init
  <2>. SUFFICES ASSUME Init PROVE Abstract!Init
    OBVIOUS
  <2>1. \A t \in Timers : SlotsOf(t) = {}
    BY TimersAssumption DEF Init, SlotsOf
  <2>2. ASSUME NEW t \in OneShot
        PROVE  /\ Starting[t] = FALSE /\ Armed[t] = FALSE
               /\ Expiries[t] = "none" /\ Again[t] = FALSE
    <3>1. t \in Timers /\ thread = "scan" /\ client[t] = "idle"
      BY DEF Init, OneShot
    <3>2. Starting[t] = FALSE
      <4>1. ~(client[t] \in {"restart", "restartDelete", "init", "set", "add"})
        BY <3>1
      <4>2. (client[t] \in {"restart", "restartDelete", "init", "set", "add"}) = FALSE
        BY <4>1
      <4>3. Starting[t]
              = (client[t] \in {"restart", "restartDelete", "init", "set", "add"})
        BY Zenon DEF Starting
      <4>. QED  BY <4>2, <4>3, Zenon
    <3>3. Expiries[t] = "none"
      BY <3>1 DEF Expiries, Expiry
    <3>4. Again[t] = FALSE
      BY <3>1 DEF Again
    <3>5. Armed[t] = FALSE
      BY <2>1, <3>1 DEF Armed
    <3>. QED  BY <3>2, <3>3, <3>4, <3>5
  <2>3. /\ Starting = [t \in OneShot |-> FALSE] /\ Armed = [t \in OneShot |-> FALSE]
        /\ Expiries = [t \in OneShot |-> "none"] /\ Again = [t \in OneShot |-> FALSE]
    BY <2>2 DEF Starting, Armed, Expiries, Again
  <2>. QED  BY <2>3, Zenon DEF Abstract!Init, OneShot, Starting, Armed, Expiries, Again
<1>2. SeenStep => \/ Abstract!Next
                  \/ UNCHANGED seen
  BY Zenon DEF SeenStep, Abstract!Next, OneShot
<1>3. IInv /\ IInv' /\ AgainOK /\ AgainOK' /\ [Next]_vars => SeenStep
  BY NextSeen
<1>4. Abstract!Next \/ UNCHANGED seen
        => [Abstract!Next]_<<[t \in Timers \ Periodic |->
                               client[t] \in {"restart", "restartDelete", "init", "set", "add"}],
                             [t \in Timers \ Periodic |-> SlotsOf(t) # {}],
                             [t \in Timers \ Periodic |-> Expiry(t)],
                             [t \in Timers \ Periodic |->
                               thread = "delete" /\ current = t
                               /\ Cardinality(SlotsOf(t)) > 1]>>
  BY DEF seen, OneShot, Starting, Armed, Expiries, Again
<1>. QED  BY <1>1, <1>2, <1>3, <1>4, Invariance, AgainFromInv, PTL
          DEF Spec, ImplementsOneShot, Abstract!Spec
=============================================================================
