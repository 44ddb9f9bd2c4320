------------------------ MODULE DepositRecoveryProofs ------------------------
(***************************************************************************)
(* The store of automatic drops under power cuts, for any cashes, bills,   *)
(* bounds and number of cuts: no bill is invented or lost, totals and      *)
(* numbers agree, and the store implements DepositLedger. Two hypotheses   *)
(* stand for two flaws of the code: no cut follows one that fell between   *)
(* the two deletions of a temporary deposit (~CutAgain, run                *)
(* temp_leftovers), and no two cashes open a drop in one second            *)
(* (~SameSecond: DepositManager.m compares a cash with itself).            *)
(***************************************************************************)
EXTENDS DepositRecovery, FiniteSetTheorems, SequenceTheorems, WellFoundedInduction, TLAPS

(* The bills of the drop a cash opened last. *)
Cur(c) == dropped[c][opened[c]]

OneMore(x, b) == [x EXCEPT ![b] = @ + 1]

(* The deposit of a cash is being stored, its record already written. *)
Busy(c) == job.pc # "none" /\ job.from = c
Writing == job.pc \in {"details", "clearHeader", "clearDetails", "process"}

InSession(c) == session[c].open # NoTime
Of(i, c, t) == i \in DOMAIN deposits /\ deposits[i].cash = c /\ deposits[i].open = t
InDisk(c, t) == \E i \in DOMAIN deposits : Of(i, c, t)

(* A deposit is still in its temporary one. *)
Doubtful(i) == header[deposits[i].cash] = deposits[i].open

Types ==
    /\ header \in [Cashes -> Times \cup {NoTime}]
    /\ details \in [Cashes -> [Bills -> Nat]]
    /\ deposits \in Seq(Deposits)
    /\ stacked \in [Cashes -> [qty: Nat, last: Nat]]
    /\ pending \in [Cashes -> {<<>>} \cup {<<b>> : b \in Bills}]
    /\ session \in [Cashes -> [open: Times \cup {NoTime}, bills: [Bills -> Nat]]]
    /\ saveDeposit \in [Cashes -> BOOLEAN]
    /\ lastNumber \in Nat /\ total \in [Bills -> Nat]
    /\ job \in Jobs \cup {NoJob}
    /\ left \subseteq Cashes /\ phase \in {"up", "down", "recover"}
    /\ last \in {<<>>} \cup {<<d>> : d \in Deposits}
    /\ dropped \in [Cashes -> [Times -> [Bills -> Nat]]]
    /\ opened \in [Cashes -> Times \cup {NoTime}]
    /\ crashes \in Nat

(* What a power cut leaves of the memory, and who is still to be recovered. *)
Phases ==
    /\ phase # "up" => \A c \in Cashes : ~InSession(c) /\ ~saveDeposit[c]
    /\ phase = "down" => job.pc = "none"
    /\ phase = "recover" => \A c \in Cashes : header[c] # NoTime \/ Busy(c) => c \in left

(* Every drop has an opening time of its own, and none has bills before it. *)
Clock ==
    /\ \A c, d \in Cashes : opened[c] # NoTime /\ opened[c] = opened[d] => c = d
    /\ \A c \in Cashes, t \in Times : t > opened[c] => dropped[c][t] = NoBills
    /\ \A i \in DOMAIN deposits :
         /\ deposits[i].open <= opened[deposits[i].cash]
         /\ \A c \in Cashes : opened[c] = deposits[i].open => c = deposits[i].cash

(* The validator counts the bills of the last drop, and knows the last bill. *)
Counted == \A c \in Cashes :
    /\ opened[c] = NoTime => stacked[c].qty = 0
    /\ opened[c] # NoTime => stacked[c].qty = Qty(Cur(c))
    /\ stacked[c].qty # 0 => stacked[c].last \in Bills

(* A drop in memory has all its bills but the one whose event is pending. *)
Sessions == \A c \in Cashes :
    /\ ~InSession(c) => session[c] = NoSession /\ pending[c] = <<>>
    /\ InSession(c) =>
         /\ session[c].open = opened[c] /\ ~InDisk(c, opened[c]) /\ ~Busy(c)
         /\ pending[c] = <<>> => session[c].bills = Cur(c)
         /\ pending[c] # <<>> =>
              /\ stacked[c].qty # 0 /\ pending[c] = <<stacked[c].last>>
              /\ Cur(c) = OneMore(session[c].bills, stacked[c].last)
         /\ header[c] = NoTime => session[c].bills = NoBills

(* A temporary deposit is that of the last drop and has all its bills, or    *)
(* all but the last, as long as a recovery may still read it.                *)
Temps == \A c \in Cashes :
    /\ phase = "up" => (saveDeposit[c] <=> header[c] # NoTime)
    /\ header[c] = NoTime /\ crashes < MaxCrashes =>
         details[c] = NoBills \/ (Busy(c) /\ job.pc = "clearDetails")
    /\ header[c] # NoTime =>
         /\ header[c] = opened[c] /\ Cur(c) # NoBills
         /\ phase = "up" => InSession(c) \/ Busy(c)
         /\ InSession(c) /\ crashes < MaxCrashes => details[c] = session[c].bills
         /\ Busy(c) /\ phase = "up" /\ crashes < MaxCrashes => details[c] = Cur(c)
         /\ phase # "up" =>
              \/ details[c] = Cur(c)
              \/ stacked[c].qty # 0 /\ Cur(c) = OneMore(details[c], stacked[c].last)

(* The details still to be written are the last ones. *)
Rest(todo, bills, written) ==
    /\ todo \subseteq Details(bills)
    /\ \A b \in Bills : written[b] = IF b \in todo THEN 0 ELSE bills[b]
    /\ \A b \in Details(bills) \ todo, d \in todo : b < d

JobOK == job.pc # "none" =>
    /\ job.open = opened[job.from] /\ job.clear = job.from
    /\ job.bills = Cur(job.from) /\ job.bills # NoBills
    /\ ~InSession(job.from)
    /\ header[job.from] =
         IF job.pc \in {"header", "details", "clearHeader"} THEN job.open ELSE NoTime
    /\ job.pc = "header" =>
         ~job.append /\ ~InDisk(job.from, job.open) /\ job.todo = Details(job.bills)
    /\ Writing => Of(Len(deposits), job.from, job.open)
    /\ job.pc = "details" => job.todo # {} /\ Rest(job.todo, job.bills, LastDeposit.bills)
    /\ Writing /\ job.pc # "details" => LastDeposit.bills = job.bills

(* The details written so far. *)
Partial(i) == \E todo \in SUBSET Bills : Rest(todo, Cur(deposits[i].cash), deposits[i].bills)
Whole(i) == deposits[i].bills = dropped[deposits[i].cash][deposits[i].open]

(* Deposits are numbered, stored once, and whole unless in doubt. *)
Numbered == \A i \in DOMAIN deposits : deposits[i].number = i
Once == \A i, j \in DOMAIN deposits :
    deposits[i].cash = deposits[j].cash /\ deposits[i].open = deposits[j].open => i = j
Stores ==
    /\ Numbered /\ Once
    /\ \A i \in DOMAIN deposits :
         IF Doubtful(i) THEN i = Len(deposits) /\ Partial(i) ELSE Whole(i)

(* What recoverDeposits took for the last deposit. *)
Lasts == phase = "recover" =>
    /\ last # <<>> =>
         /\ InDisk(last[1].cash, last[1].open)
         /\ last[1].cash \in left =>
              IF job.pc = "none" THEN last[1] = LastDeposit ELSE job.from = last[1].cash
    /\ job.pc \in {"none", "header"} /\ deposits # <<>> /\ Doubtful(Len(deposits)) =>
         last = <<LastDeposit>>

(* Where the bills of a drop are. *)
Accounted == \A c \in Cashes, t \in Times : dropped[c][t] # NoBills =>
    \/ InDisk(c, t) \/ header[c] = t \/ session[c].open = t \/ <<c, t>> \in audited
    \/ opened[c] = t /\ (phase = "down" \/ (phase = "recover" /\ c \in left))

Totals == phase # "down" =>
    /\ lastNumber = IF Writing /\ ~job.append THEN Len(deposits) - 1 ELSE Len(deposits)
    /\ \A b \in Bills :
         StoredTotal[b] =
           total[b] + IF Writing /\ ~job.append THEN LastDeposit.bills[b] ELSE 0

IInv ==
    /\ Types /\ Phases /\ Clock /\ Counted /\ Sessions /\ Temps /\ JobOK /\ Stores /\ Lasts
    /\ Accounted /\ Totals
-----------------------------------------------------------------------------
(* Sums as numbers of units. *)
Strip(x, a, n) == {x} \X ((a + 1) .. (a + n))

LEMMA StripSize ==
    ASSUME NEW x, NEW a \in Nat, NEW n \in Nat
    PROVE  IsFiniteSet(Strip(x, a, n)) /\ Cardinality(Strip(x, a, n)) = n
<1>. DEFINE I == (a + 1) .. (a + n)
<1>1. IsFiniteSet(I) /\ Cardinality(I) = n
  <2>1. a + 1 \in Int /\ a + n \in Int  OBVIOUS
  <2>2. IsFiniteSet(I) /\ Cardinality(I) = IF a + 1 > a + n THEN 0 ELSE (a + n) - (a + 1) + 1
    BY <2>1, FS_Interval
  <2>. QED  BY <2>2
<1>2. IsFiniteSet({x}) /\ Cardinality({x}) = 1  BY FS_Singleton
<1>. HIDE DEF I
<1>3. IsFiniteSet({x} \X I) /\ Cardinality({x} \X I) = Cardinality({x}) * Cardinality(I)
  BY <1>1, <1>2, FS_Product
<1>4. Cardinality({x} \X I) = n  BY <1>1, <1>2, <1>3
<1>. QED  BY <1>3, <1>4 DEF I, Strip

LEMMA UnitsFinite ==
    ASSUME NEW S, IsFiniteSet(S), NEW f, \A y \in S : f[y] \in Nat
    PROVE  IsFiniteSet(Units(S, f)) /\ SumOver(S, f) \in Nat
<1>. DEFINE F == [x \in S |-> {x} \X (1 .. f[x])]
            T == {F[x] : x \in S}
<1>1. F \in Surjection(S, T)  BY DEF Surjection
<1>2. IsFiniteSet(T)  BY <1>1, FS_Surjection
<1>3. ASSUME NEW u \in T PROVE IsFiniteSet(u)
  <2>1. PICK x \in S : u = {x} \X (1 .. f[x])  BY <1>3
  <2>2. IsFiniteSet(Strip(x, 0, f[x]))  BY StripSize
  <2>. QED  BY <2>1, <2>2 DEF Strip
<1>4. IsFiniteSet(UNION T)  BY <1>2, <1>3, FS_UNION
<1>5. UNION T = Units(S, f)  BY DEF Units
<1>. QED  BY <1>4, <1>5, FS_CardinalityType DEF SumOver

LEMMA UnitsMember ==
    ASSUME NEW S, NEW f, NEW u
    PROVE  u \in Units(S, f) <=> \E x \in S : \E k \in 1 .. f[x] : u = <<x, k>>
BY DEF Units

LEMMA SumChange ==
    ASSUME NEW S, IsFiniteSet(S), NEW f, \A y \in S : f[y] \in Nat,
           NEW x \in S, NEW n \in Nat, NEW g, g[x] = f[x] + n,
           \A y \in S \ {x} : g[y] = f[y]
    PROVE  SumOver(S, g) = SumOver(S, f) + n
<1>. DEFINE more == {x} \X ((f[x] + 1) .. (f[x] + n))
<1>1. Units(S, g) = Units(S, f) \cup more
  <2>1. ASSUME NEW u \in Units(S, g) PROVE u \in Units(S, f) \cup more
    <3>1. PICK y \in S : \E k \in 1 .. g[y] : u = <<y, k>>  BY <2>1, UnitsMember
    <3>2. PICK k \in 1 .. g[y] : u = <<y, k>>  BY <3>1
    <3>3. CASE y # x  BY <3>2, <3>3, UnitsMember
    <3>4. CASE y = x
      <4>1. k \in 1 .. f[x] \/ k \in (f[x] + 1) .. (f[x] + n)  BY <3>2, <3>4
      <4>. QED  BY <3>2, <3>4, <4>1, UnitsMember
    <3>. QED  BY <3>3, <3>4
  <2>2. ASSUME NEW u \in Units(S, f) PROVE u \in Units(S, g)
    <3>1. PICK y \in S : \E k \in 1 .. f[y] : u = <<y, k>>  BY <2>2, UnitsMember
    <3>2. PICK k \in 1 .. f[y] : u = <<y, k>>  BY <3>1
    <3>3. k \in 1 .. g[y]  BY <3>2
    <3>. QED  BY <3>2, <3>3, UnitsMember
  <2>3. ASSUME NEW u \in more PROVE u \in Units(S, g)
    <3>1. PICK k \in (f[x] + 1) .. (f[x] + n) : u = <<x, k>>  BY <2>3
    <3>2. k \in 1 .. g[x]  BY <3>1
    <3>. QED  BY <3>1, <3>2, UnitsMember
  <2>. QED  BY <2>1, <2>2, <2>3
<1>2. Units(S, f) \cap more = {}
  <2>. SUFFICES ASSUME NEW u \in Units(S, f), u \in more PROVE FALSE  OBVIOUS
  <2>1. PICK y \in S : \E k \in 1 .. f[y] : u = <<y, k>>  BY UnitsMember
  <2>. QED  BY <2>1
<1>3. IsFiniteSet(more) /\ Cardinality(more) = n
  <2>1. f[x] \in Nat  OBVIOUS
  <2>2. IsFiniteSet(Strip(x, f[x], n)) /\ Cardinality(Strip(x, f[x], n)) = n
    BY <2>1, StripSize
  <2>. QED  BY <2>2 DEF Strip
<1>4. IsFiniteSet(Units(S, f)) /\ SumOver(S, f) \in Nat  BY UnitsFinite
<1>5. Cardinality(Units(S, f) \cap more) = 0  BY <1>2, FS_EmptySet
<1>6. Cardinality(Units(S, f) \cup more) = Cardinality(Units(S, f)) + Cardinality(more) - 0
  <2>. HIDE DEF more
  <2>. QED  BY <1>3, <1>4, <1>5, FS_Union
<1>. QED  BY <1>1, <1>3, <1>4, <1>6 DEF SumOver

LEMMA SumOneMore ==
    ASSUME NEW S, IsFiniteSet(S), NEW f \in [S -> Nat], NEW x \in S
    PROVE  SumOver(S, [f EXCEPT ![x] = @ + 1]) = SumOver(S, f) + 1
<1>1. ASSUME NEW g, g[x] = f[x] + 1, \A y \in S \ {x} : g[y] = f[y]
      PROVE  SumOver(S, g) = SumOver(S, f) + 1
  BY <1>1, SumChange
<1>. QED  BY <1>1

LEMMA SumSame ==
    ASSUME NEW S, NEW f, NEW T, NEW g, S \subseteq T,
           \A y \in S : g[y] = f[y], \A y \in T \ S : g[y] = 0
    PROVE  SumOver(T, g) = SumOver(S, f)
<1>1. \A u : u \in Units(T, g) <=> u \in Units(S, f)
  <2>. TAKE u
  <2>1. ASSUME u \in Units(T, g) PROVE u \in Units(S, f)
    <3>1. PICK y \in T : \E k \in 1 .. g[y] : u = <<y, k>>  BY <2>1, UnitsMember
    <3>2. y \in S  BY <3>1
    <3>. QED  BY <3>1, <3>2, UnitsMember
  <2>2. ASSUME u \in Units(S, f) PROVE u \in Units(T, g)
    <3>1. PICK y \in S : \E k \in 1 .. f[y] : u = <<y, k>>  BY <2>2, UnitsMember
    <3>. QED  BY <3>1, UnitsMember
  <2>. QED  BY <2>1, <2>2
<1>2. Units(T, g) = Units(S, f)  BY <1>1
<1>. QED  BY <1>2 DEF SumOver

LEMMA SumEmpty ==
    ASSUME NEW f
    PROVE  SumOver({}, f) = 0
<1>1. Units({}, f) = {}  BY DEF Units
<1>. QED  BY <1>1, FS_EmptySet DEF SumOver

LEMMA SumZero ==
    ASSUME NEW S, NEW f, \A y \in S : f[y] = 0
    PROVE  SumOver(S, f) = 0
<1>1. SumOver(S, f) = SumOver({}, f)  BY SumSame
<1>. QED  BY <1>1, SumEmpty

LEMMA SumOne ==
    ASSUME NEW f, NEW x, f[x] \in Nat
    PROVE  SumOver({x}, f) = f[x]
<1>. DEFINE z == [y \in {x} |-> 0]
<1>1. SumOver({x}, z) = 0  BY SumZero
<1>2. SumOver({x}, f) = SumOver({x}, z) + f[x]
  <2>1. IsFiniteSet({x})  BY FS_Singleton
  <2>. QED  BY <2>1, SumChange
<1>. QED  BY <1>1, <1>2

LEMMA SumPositive ==
    ASSUME NEW S, IsFiniteSet(S), NEW f, \A y \in S : f[y] \in Nat,
           NEW x \in S, f[x] # 0
    PROVE  SumOver(S, f) # 0
<1>1. <<x, 1>> \in Units(S, f)  BY UnitsMember
<1>2. IsFiniteSet(Units(S, f))  BY UnitsFinite
<1>. QED  BY <1>1, <1>2, FS_EmptySet DEF SumOver

LEMMA QtyFacts ==
    ASSUME NEW x \in [Bills -> Nat]
    PROVE  /\ Qty(x) \in Nat
           /\ Qty(x) = 0 <=> x = NoBills
           /\ \A b \in Bills : Qty(OneMore(x, b)) = Qty(x) + 1
<1>. USE DepositAssumption
<1>1. Qty(x) \in Nat  BY UnitsFinite DEF Qty
<1>2. Qty(NoBills) = 0  BY SumZero DEF Qty, NoBills
<1>3. ASSUME x # NoBills PROVE Qty(x) # 0
  <2>1. PICK b \in Bills : x[b] # 0  BY <1>3 DEF NoBills
  <2>. QED  BY <2>1, SumPositive DEF Qty
<1>4. ASSUME NEW b \in Bills PROVE Qty(OneMore(x, b)) = Qty(x) + 1
  BY SumOneMore DEF Qty, OneMore
<1>. QED  BY <1>1, <1>2, <1>3, <1>4

LEMMA MinFacts ==
    ASSUME NEW T, T \subseteq Nat, T # {}
    PROVE  Min(T) \in T /\ \A d \in T : Min(T) <= d
<1>1. \E x \in T : \A y \in T : ~(<<y, x>> \in OpToRel(<, Nat))
  BY WFMin, NatLessThanWellFounded, Zenon
<1>2. OpToRel(<, Nat) = {p \in Nat \X Nat : p[1] < p[2]}
  BY Zenon DEF OpToRel
<1>3. PICK x \in T : \A y \in T : ~(<<y, x>> \in OpToRel(<, Nat))  BY <1>1
<1>4. \A y \in T : x <= y
  <2>. TAKE y \in T
  <2>1. x \in Nat /\ y \in Nat  OBVIOUS
  <2>2. ~(y < x)  BY <1>2, <1>3, <2>1
  <2>. QED  BY <2>1, <2>2
<1>. QED  BY <1>4 DEF Min
-----------------------------------------------------------------------------
(* What the parts of the invariant give. *)
LEMMA DepositsFacts ==
    ASSUME Types
    PROVE  /\ Len(deposits) \in Nat /\ DOMAIN deposits = 1 .. Len(deposits)
           /\ \A i \in DOMAIN deposits : deposits[i] \in Deposits
           /\ deposits # <<>> => Len(deposits) \in DOMAIN deposits
           /\ deposits = <<>> => Len(deposits) = 0
<1>1. deposits \in Seq(Deposits)  BY DEF Types
<1>2. Len(deposits) \in Nat /\ DOMAIN deposits = 1 .. Len(deposits)
  BY <1>1, LenProperties
<1>3. \A i \in DOMAIN deposits : deposits[i] \in Deposits  BY <1>1, <1>2, ElementOfSeq
<1>4. deposits # <<>> => Len(deposits) # 0  BY <1>1, EmptySeq
<1>5. deposits = <<>> => Len(deposits) = 0  BY EmptySeq
<1>. QED  BY <1>2, <1>3, <1>4, <1>5

LEMMA TimeFacts ==
    /\ Times \subseteq Nat /\ NoTime = 0 /\ NoTime \notin Times
    /\ Types => \A c \in Cashes : opened[c] \in Nat
<1>1. Times \subseteq Nat /\ NoTime = 0 /\ NoTime \notin Times
  BY DepositAssumption DEF Times, NoTime
<1>2. ASSUME Types, NEW c \in Cashes PROVE opened[c] \in Nat
  <2>1. opened \in [Cashes -> Times \cup {NoTime}]  BY <1>2 DEF Types
  <2>2. opened[c] \in Times \cup {NoTime}  BY <2>1
  <2>3. NoTime \in Nat  BY DEF NoTime
  <2>. QED  BY <1>1, <2>2, <2>3
<1>. QED  BY <1>1, <1>2

LEMMA CurType ==
    ASSUME Types, NEW c \in Cashes, opened[c] # NoTime
    PROVE  opened[c] \in Times /\ Cur(c) \in [Bills -> Nat]
BY DEF Types, Cur

LEMMA InitInv == Init => IInv
<1>. SUFFICES ASSUME Init PROVE IInv  OBVIOUS
<1>. USE DEF Init
<1>1. NoBills \in [Bills -> Nat] /\ 0 \in Nat  BY DEF NoBills
<1>2. Types
  BY <1>1, DepositAssumption, EmptySeq DEF Types, Deposits, NoSession, NoTime, NoJob
<1>3. DOMAIN deposits = {} /\ Len(deposits) = 0  OBVIOUS
<1>4. Phases /\ Clock /\ Counted  BY <1>3 DEF Phases, Clock, Counted, InSession, NoSession, NoTime
<1>5. Sessions /\ JobOK  BY DEF Sessions, InSession, JobOK, NoSession, NoJob
<1>6. Temps /\ Stores /\ Lasts  BY <1>3 DEF Temps, Stores, Numbered, Once, Lasts, NoJob, Writing
<1>7. Accounted  BY DEF Accounted
<1>8. Totals
  <2>1. \A b \in Bills : StoredTotal[b] = SumOver({}, InDeposits(b))
    BY <1>3 DEF StoredTotal
  <2>2. \A b \in Bills : StoredTotal[b] = 0  BY <2>1, SumEmpty
  <2>. QED  BY <1>3, <2>2 DEF Totals, Writing, NoJob, NoBills
<1>. QED  BY <1>2, <1>4, <1>5, <1>6, <1>7, <1>8 DEF IInv

(* Steps that leave the stored deposits alone. *)
LEMMA SameDeposits ==
    ASSUME UNCHANGED deposits
    PROVE  /\ \A i, c, t : Of(i, c, t)' <=> Of(i, c, t)
           /\ \A c, t : InDisk(c, t)' <=> InDisk(c, t)
           /\ \A b \in Bills : StoredTotal'[b] = StoredTotal[b]
           /\ LastDeposit' = LastDeposit
BY DEF Of, InDisk, StoredTotal, InDeposits, LastDeposit

LEMMA SameStores ==
    ASSUME Stores, UNCHANGED deposits,
           \A i \in DOMAIN deposits : /\ Doubtful(i)' => Doubtful(i) /\ (Partial(i) => Partial(i)')
                                      /\ ~Doubtful(i)' => Whole(i)'
    PROVE  Stores'
<1>1. Numbered' /\ Once'  BY DEF Stores, Numbered, Once
<1>2. DOMAIN deposits' = DOMAIN deposits /\ Len(deposits') = Len(deposits)  OBVIOUS
<1>. QED  BY <1>1, <1>2 DEF Stores

LEMMA AllSameStores ==
    ASSUME Stores, UNCHANGED <<header, deposits, dropped, opened>>
    PROVE  Stores'
<1>1. \A i \in DOMAIN deposits : /\ Doubtful(i)' <=> Doubtful(i)
                                 /\ Partial(i)' <=> Partial(i)
                                 /\ Whole(i)' <=> Whole(i)
  BY DEF Doubtful, Partial, Whole, Cur, Rest, Details
<1>. QED  BY <1>1, SameStores DEF Stores

LEMMA SameClock ==
    ASSUME Clock, UNCHANGED <<deposits, dropped, opened>>
    PROVE  Clock'
BY DEF Clock

LEMMA SameTotals ==
    ASSUME Totals, UNCHANGED <<deposits, total, lastNumber>>, phase # "down",
           Writing' /\ ~job'.append <=> Writing /\ ~job.append
    PROVE  Totals'
BY SameDeposits DEF Totals

LEMMA NewDepositInv ==
    ASSUME IInv, ~SameSecond, NEW c \in Cashes, NEW t \in Times, getNewDeposit(c, t)
    PROVE  IInv'
<1>. USE DEF IInv
<1>1. /\ phase = "up" /\ session[c] = NoSession /\ job = NoJob /\ t > opened[c]
      /\ \A d \in Cashes : t > opened[d]
      /\ session' = [session EXCEPT ![c] = [open |-> t, bills |-> NoBills]]
      /\ opened' = [opened EXCEPT ![c] = t]
      /\ stacked' = [stacked EXCEPT ![c] = [qty |-> 0, last |-> 0]]
      /\ UNCHANGED <<header, details, deposits, pending, dropped, saveDeposit, lastNumber,
                     total, job, left, phase, last, audited, crashes>>
  BY DEF getNewDeposit, disk
<1>2. ~InSession(c) /\ ~Busy(c) /\ job.pc = "none" /\ pending[c] = <<>>
  BY <1>1 DEF InSession, NoSession, Busy, NoJob, NoTime, Sessions
<1>3. header[c] = NoTime  BY <1>1, <1>2 DEF Temps
<1>4. NoBills \in [Bills -> Nat] /\ t # NoTime  BY DEF NoBills, Times, NoTime
<1>5. Types'  BY <1>1, <1>4 DEF Types
<1>6. /\ opened'[c] = t /\ Cur(c)' = NoBills
      /\ \A d \in Cashes \ {c} : opened'[d] = opened[d] /\ Cur(d)' = Cur(d)
  BY <1>1 DEF Clock, Cur, Types
<1>7. Phases'  BY <1>1 DEF Phases, InSession, Busy
<1>8. \A i \in DOMAIN deposits :
        /\ deposits[i].open <= opened[deposits[i].cash] /\ deposits[i].open < t
        /\ deposits[i].cash \in Cashes /\ deposits[i].open \in Times
  BY <1>1, DepositsFacts, TimeFacts DEF Clock, Deposits
<1>9. Clock'
  <2>1. \A d, e \in Cashes : opened'[d] # NoTime /\ opened'[d] = opened'[e] => d = e
    BY <1>1, <1>6, TimeFacts DEF Clock
  <2>2. \A d \in Cashes, u \in Times : u > opened'[d] => dropped'[d][u] = NoBills
    BY <1>1, <1>6, TimeFacts DEF Clock
  <2>3. \A i \in DOMAIN deposits :
          /\ deposits[i].open <= opened'[deposits[i].cash]
          /\ \A d \in Cashes : opened'[d] = deposits[i].open => d = deposits[i].cash
    BY <1>1, <1>6, <1>8, TimeFacts DEF Clock
  <2>. QED  BY <1>1, <2>1, <2>2, <2>3 DEF Clock
<1>10. Counted'
  BY <1>1, <1>4, <1>6, QtyFacts DEF Counted, Types
<1>11. Sessions'
  <2>1. ~InDisk(c, t)'  BY <1>1, <1>8, TimeFacts DEF InDisk, Of
  <2>2. session'[c].open = t /\ session'[c].bills = NoBills /\ pending'[c] = <<>> /\ ~Busy(c)'
    BY <1>1, <1>2 DEF Busy, Types
  <2>3. \A d \in Cashes \ {c} :
          /\ session'[d] = session[d] /\ stacked'[d] = stacked[d]
          /\ InSession(d)' <=> InSession(d)
          /\ Busy(d)' <=> Busy(d)
          /\ InDisk(d, opened[d])' <=> InDisk(d, opened[d])
    BY <1>1, <1>6 DEF InSession, Busy, InDisk, Of
  <2>4. UNCHANGED <<header, pending>>  BY <1>1
  <2>. QED  BY <1>4, <1>6, <2>1, <2>2, <2>3, <2>4 DEF Sessions, InSession
<1>12. Temps'  BY <1>1, <1>2, <1>3, <1>6 DEF Temps, InSession, Busy, Types
<1>13. JobOK'  BY <1>1, <1>2 DEF JobOK
<1>14. Stores'
  <2>1. \A i \in DOMAIN deposits :
          Doubtful(i) => Cur(deposits[i].cash)' = Cur(deposits[i].cash)
    BY <1>1, <1>3, <1>6, <1>8, TimeFacts DEF Doubtful
  <2>2. \A i \in DOMAIN deposits : Doubtful(i)' <=> Doubtful(i)  BY <1>1 DEF Doubtful
  <2>3. \A i \in DOMAIN deposits : Doubtful(i) /\ Partial(i) => Partial(i)'
    BY <1>1, <2>1 DEF Partial, Rest, Details
  <2>4. \A i \in DOMAIN deposits : Whole(i)' <=> Whole(i)  BY <1>1 DEF Whole
  <2>. QED  BY <1>1, <2>2, <2>3, <2>4, SameStores DEF Stores
<1>15. Lasts' /\ Totals'
  BY <1>1, <1>2 DEF Lasts, Totals, Writing, StoredTotal, InDeposits, LastDeposit
<1>16. Accounted'
  <2>1. \A d \in Cashes, u \in Times : session[d].open = u => session'[d].open = u
    BY <1>1, TimeFacts DEF NoSession, Types
  <2>. QED  BY <1>1, <2>1 DEF Accounted, InDisk, Of
<1>. QED  BY <1>5, <1>7, <1>9, <1>10, <1>11, <1>12, <1>13, <1>14, <1>15, <1>16
LEMMA StackBillInv ==
    ASSUME IInv, NEW c \in Cashes, NEW b \in Bills, StackBill(c, b)
    PROVE  IInv'
<1>. USE DEF IInv
<1>1. /\ phase = "up" /\ session[c] # NoSession /\ pending[c] = <<>>
      /\ stacked' = [stacked EXCEPT ![c] = [qty |-> @.qty + 1, last |-> b]]
      /\ pending' = [pending EXCEPT ![c] = <<b>>]
      /\ dropped' = [dropped EXCEPT ![c][session[c].open][b] = @ + 1]
      /\ UNCHANGED <<header, details, deposits, session, saveDeposit, lastNumber, total, job,
                     left, phase, last, audited, opened, crashes>>
  BY DEF StackBill, disk, memory
<1>2. /\ InSession(c) /\ session[c].open = opened[c] /\ opened[c] \in Times
      /\ ~InDisk(c, opened[c]) /\ ~Busy(c)
  BY <1>1, CurType, TimeFacts DEF Sessions, InSession
<1>3. /\ Cur(c) \in [Bills -> Nat] /\ Cur(c)' = OneMore(Cur(c), b)
      /\ \A d \in Cashes \ {c} : Cur(d)' = Cur(d)
      /\ \A d \in Cashes, t \in Times :
           d # c \/ t # opened[c] => dropped'[d][t] = dropped[d][t]
  BY <1>1, <1>2 DEF Cur, OneMore, Types
<1>4. /\ stacked'[c] = [qty |-> stacked[c].qty + 1, last |-> b]
      /\ stacked[c].qty \in Nat /\ b \in Nat
      /\ \A d \in Cashes \ {c} : stacked'[d] = stacked[d] /\ pending'[d] = pending[d]
      /\ pending'[c] = <<b>>
  BY <1>1, DepositAssumption DEF Types
<1>5. Types'
  <2>1. dropped' \in [Cashes -> [Times -> [Bills -> Nat]]]  BY <1>1, <1>2 DEF Types
  <2>2. stacked' \in [Cashes -> [qty: Nat, last: Nat]]  BY <1>1, <1>4 DEF Types
  <2>3. pending' \in [Cashes -> {<<>>} \cup {<<d>> : d \in Bills}]  BY <1>1 DEF Types
  <2>. QED  BY <1>1, <2>1, <2>2, <2>3 DEF Types
<1>6. Phases'  BY <1>1 DEF Phases, InSession, Busy
<1>7. Clock'  BY <1>1, <1>2, <1>3, TimeFacts DEF Clock
<1>8. Counted'
  <2>1. Qty(Cur(c))' = stacked[c].qty + 1
    <3>1. Qty(OneMore(Cur(c), b)) = stacked[c].qty + 1
      BY <1>2, <1>3, QtyFacts, TimeFacts DEF Counted
    <3>. QED  BY <1>3, <3>1 DEF Qty
  <2>2. \A d \in Cashes \ {c} : Qty(Cur(d))' = Qty(Cur(d))  BY <1>3 DEF Qty
  <2>. QED  BY <1>1, <1>2, <1>4, <2>1, <2>2, TimeFacts DEF Counted
<1>9. Sessions'
  <2>1. \A d \in Cashes : /\ session'[d] = session[d] /\ header'[d] = header[d]
                          /\ opened'[d] = opened[d]
                          /\ InSession(d)' <=> InSession(d)
                          /\ Busy(d)' <=> Busy(d)
                          /\ InDisk(d, opened[d])' <=> InDisk(d, opened[d])
    BY <1>1, SameDeposits DEF InSession, Busy, InDisk, Of
  <2>2. session[c].bills = Cur(c)  BY <1>1, <1>2 DEF Sessions
  <2>3. pending'[c] = <<stacked'[c].last>> /\ stacked'[c].last = b /\ stacked'[c].qty # 0
        /\ pending'[c] # <<>>
    BY <1>4
  <2>. QED  BY <1>2, <1>3, <1>4, <2>1, <2>2, <2>3 DEF Sessions
<1>10. Temps'
  <2>1. Cur(c)' # NoBills  BY <1>3 DEF OneMore, NoBills
  <2>. QED  BY <1>1, <1>2, <1>3, <1>4, <2>1 DEF Temps, InSession, Busy
<1>11. JobOK'
  <2>1. job.pc # "none" => job.from # c /\ job.from \in Cashes
    BY <1>2 DEF JobOK, Types, Jobs, NoJob
  <2>. QED  BY <1>1, <1>3, <2>1, SameDeposits DEF JobOK, InSession, Writing
<1>12. Stores'
  <2>1. \A i \in DOMAIN deposits :
          /\ deposits[i].cash \in Cashes /\ deposits[i].open \in Times
          /\ deposits[i].cash = c => deposits[i].open # opened[c]
    BY <1>2, DepositsFacts DEF Deposits, InDisk, Of
  <2>2. \A i \in DOMAIN deposits : Doubtful(i) => deposits[i].cash # c
    BY <2>1, TimeFacts DEF Doubtful, Temps
  <2>3. \A i \in DOMAIN deposits : Doubtful(i)' <=> Doubtful(i)  BY <1>1 DEF Doubtful
  <2>4. \A i \in DOMAIN deposits : Doubtful(i) /\ Partial(i) => Partial(i)'
    <3>1. \A i \in DOMAIN deposits :
            Doubtful(i) => Cur(deposits[i].cash)' = Cur(deposits[i].cash)
      BY <1>1, <1>3, <2>1, <2>2
    <3>. QED  BY <1>1, <3>1 DEF Partial, Rest, Details
  <2>5. \A i \in DOMAIN deposits : Whole(i)' <=> Whole(i)
    BY <1>1, <1>3, <2>1 DEF Whole
  <2>. QED  BY <1>1, <2>3, <2>4, <2>5, SameStores DEF Stores
<1>13. Lasts'  BY <1>1 DEF Lasts
<1>14. Accounted'
  BY <1>1, <1>2, <1>3, SameDeposits DEF Accounted
<1>15. Totals'  BY <1>1, SameTotals DEF Writing
<1>. QED
  BY <1>5, <1>6, <1>7, <1>8, <1>9, <1>10, <1>11, <1>12, <1>13, <1>14, <1>15

LEMMA AddDepositInv ==
    ASSUME IInv, NEW c \in Cashes, addDeposit(c)
    PROVE  IInv'
<1>. USE DEF IInv
<1>1. /\ phase = "up" /\ pending[c] # <<>> /\ ~saveDeposit[c]
      /\ header' = [header EXCEPT ![c] = session[c].open]
      /\ saveDeposit' = [saveDeposit EXCEPT ![c] = TRUE]
      /\ UNCHANGED <<details, deposits, stacked, pending, dropped, session, lastNumber, total,
                     job, left, phase, last, audited, opened, crashes>>
  BY DEF addDeposit, device
<1>2. /\ InSession(c) /\ session[c].open = opened[c] /\ opened[c] \in Times
      /\ ~InDisk(c, opened[c]) /\ ~Busy(c)
  BY <1>1, CurType, TimeFacts DEF Sessions, InSession
<1>3. header[c] = NoTime  BY <1>1 DEF Temps
<1>4. /\ header'[c] = opened[c] /\ saveDeposit'[c] = TRUE
      /\ \A d \in Cashes \ {c} : header'[d] = header[d] /\ saveDeposit'[d] = saveDeposit[d]
  BY <1>1, <1>2 DEF Types
<1>5. Types'  BY <1>1, <1>2 DEF Types
<1>6. Phases'  BY <1>1 DEF Phases
<1>7. Clock' /\ Counted'  BY <1>1, SameClock DEF Counted, Cur, Qty
<1>8. Sessions'
  BY <1>1, <1>2, <1>4, SameDeposits, TimeFacts DEF Sessions, InSession, Busy, Cur
<1>9. Temps'
  <2>1. session[c].bills = NoBills /\ Cur(c) = OneMore(session[c].bills, stacked[c].last)
        /\ stacked[c].last \in Bills
    BY <1>1, <1>2, <1>3 DEF Sessions, Counted
  <2>2. Cur(c) # NoBills
    <3>1. OneMore(NoBills, stacked[c].last)[stacked[c].last] = 1
      BY <2>1 DEF OneMore, NoBills
    <3>. QED  BY <2>1, <3>1 DEF NoBills
  <2>3. crashes < MaxCrashes => details[c] = NoBills  BY <1>2, <1>3 DEF Temps
  <2>. QED  BY <1>1, <1>2, <1>4, <2>1, <2>2, <2>3 DEF Temps, InSession, Busy, Cur
<1>10. JobOK'
  <2>1. job.pc # "none" => job.from # c /\ job.from \in Cashes
    BY <1>2 DEF JobOK, Types, Jobs, NoJob
  <2>. QED  BY <1>1, <1>4, <2>1, SameDeposits DEF JobOK, InSession, Writing, Cur
<1>11. Stores'
  <2>1. \A i \in DOMAIN deposits :
          /\ deposits[i].cash \in Cashes /\ deposits[i].open \in Times
          /\ deposits[i].cash = c => deposits[i].open # opened[c]
    BY <1>2, DepositsFacts DEF Deposits, InDisk, Of
  <2>2. \A i \in DOMAIN deposits : Doubtful(i)' <=> Doubtful(i)
    BY <1>1, <1>3, <1>4, <2>1, TimeFacts DEF Doubtful
  <2>3. \A i \in DOMAIN deposits : (Partial(i)' <=> Partial(i)) /\ (Whole(i)' <=> Whole(i))
    BY <1>1 DEF Partial, Whole, Rest, Details, Cur
  <2>. QED  BY <1>1, <2>2, <2>3, SameStores DEF Stores
<1>12. Lasts'  BY <1>1 DEF Lasts
<1>13. Accounted'
  BY <1>1, <1>3, <1>4, SameDeposits, TimeFacts DEF Accounted
<1>14. Totals'  BY <1>1, SameTotals DEF Writing
<1>. QED
  BY <1>5, <1>6, <1>7, <1>8, <1>9, <1>10, <1>11, <1>12, <1>13, <1>14
LEMMA SaveDetailInv ==
    ASSUME IInv, NEW c \in Cashes, saveDepositDetail(c)
    PROVE  IInv'
<1>. USE DEF IInv
<1>. DEFINE b == stacked[c].last
<1>1. /\ phase = "up" /\ pending[c] # <<>> /\ saveDeposit[c]
      /\ session' = [session EXCEPT ![c].bills[Head(pending[c])] =
                       session[c].bills[Head(pending[c])] + 1]
      /\ details' = [details EXCEPT ![c][Head(pending[c])] =
                       session[c].bills[Head(pending[c])] + 1]
      /\ pending' = [pending EXCEPT ![c] = <<>>]
      /\ UNCHANGED <<header, deposits, stacked, dropped, saveDeposit, lastNumber, total, job,
                     left, phase, last, audited, opened, crashes>>
  BY DEF saveDepositDetail
<1>2. /\ InSession(c) /\ session[c].open = opened[c] /\ opened[c] \in Times
      /\ ~InDisk(c, opened[c]) /\ ~Busy(c)
  BY <1>1, CurType, TimeFacts DEF Sessions, InSession
<1>3. header[c] # NoTime  BY <1>1 DEF Temps
<1>4. /\ Head(pending[c]) = b /\ b \in Bills
      /\ Cur(c) = OneMore(session[c].bills, b) /\ session[c].bills \in [Bills -> Nat]
  BY <1>1, <1>2 DEF Sessions, Counted, Types
<1>5. /\ session'[c].open = opened[c] /\ session'[c].bills = Cur(c)
      /\ pending'[c] = <<>>
      /\ \A d \in Cashes \ {c} : session'[d] = session[d] /\ pending'[d] = pending[d]
  <2>1. session[c] \in [open: Times \cup {NoTime}, bills: [Bills -> Nat]]  BY DEF Types
  <2>2. session'[c] = [session[c] EXCEPT !.bills[b] = session[c].bills[b] + 1]
    BY <1>1, <1>4 DEF Types
  <2>3. session'[c].open = opened[c]
        /\ session'[c].bills = [session[c].bills EXCEPT ![b] = session[c].bills[b] + 1]
    BY <1>2, <2>1, <2>2
  <2>4. \A d \in Cashes \ {c} : session'[d] = session[d] /\ pending'[d] = pending[d]
    BY <1>1 DEF Types
  <2>. QED  BY <1>1, <1>4, <2>3, <2>4 DEF Types, OneMore
<1>6. /\ crashes < MaxCrashes => details'[c] = Cur(c)
      /\ \A d \in Cashes \ {c} : details'[d] = details[d]
  <2>1. crashes < MaxCrashes => details[c] = session[c].bills
    BY <1>2, <1>3 DEF Temps
  <2>. QED  BY <1>1, <1>4, <2>1 DEF OneMore, Types
<1>7. Types'
  <2>1. session[c].bills[b] + 1 \in Nat  BY <1>4
  <2>2. details' \in [Cashes -> [Bills -> Nat]]  BY <1>1, <1>4, <2>1 DEF Types
  <2>3. session' \in [Cashes -> [open: Times \cup {NoTime}, bills: [Bills -> Nat]]]
    BY <1>1, <1>4, <2>1 DEF Types
  <2>4. pending' \in [Cashes -> {<<>>} \cup {<<d>> : d \in Bills}]  BY <1>1 DEF Types
  <2>. QED  BY <1>1, <2>2, <2>3, <2>4 DEF Types
<1>8. \A d \in Cashes : (InSession(d)' <=> InSession(d)) /\ (Busy(d)' <=> Busy(d)) /\ Cur(d)' = Cur(d)
  BY <1>1, <1>2, <1>5 DEF InSession, Busy, Cur
<1>9. Phases'  BY <1>1 DEF Phases
<1>10. Clock' /\ Counted'  BY <1>1, SameClock DEF Counted, Cur, Qty
<1>11. Sessions'
  BY <1>1, <1>2, <1>3, <1>5, <1>8, SameDeposits DEF Sessions
<1>12. Temps'
  BY <1>1, <1>2, <1>3, <1>5, <1>6, <1>8 DEF Temps
<1>13. JobOK'
  <2>1. job.pc # "none" => job.from \in Cashes  BY DEF Types, Jobs, NoJob
  <2>. QED  BY <1>1, <1>8, <2>1, SameDeposits DEF JobOK, Writing
<1>14. Stores'  BY <1>1, AllSameStores
<1>15. Lasts'  BY <1>1 DEF Lasts
<1>16. Accounted'
  BY <1>1, <1>2, <1>5, SameDeposits DEF Accounted
<1>17. Totals'  BY <1>1, SameTotals DEF Writing
<1>. QED
  BY <1>7, <1>9, <1>10, <1>11, <1>12, <1>13, <1>14, <1>15, <1>16, <1>17

LEMMA EndDepositInv ==
    ASSUME IInv, NEW c \in Cashes, endDeposit(c)
    PROVE  IInv'
<1>. USE DEF IInv
<1>1. /\ phase = "up" /\ session[c] # NoSession /\ pending[c] = <<>> /\ job = NoJob
      /\ session' = [session EXCEPT ![c] = NoSession]
      /\ job' = Storing(c, session[c].open, session[c].bills)
      /\ UNCHANGED <<header, details, deposits, stacked, pending, dropped, saveDeposit,
                     lastNumber, total, left, phase, last, audited, opened, crashes>>
  BY DEF endDeposit, disk, device
<1>2. /\ InSession(c) /\ session[c].open = opened[c] /\ opened[c] \in Times
      /\ ~InDisk(c, opened[c]) /\ session[c].bills = Cur(c)
      /\ Cur(c) \in [Bills -> Nat] /\ job.pc = "none"
  BY <1>1, CurType, TimeFacts DEF Sessions, InSession, NoJob
<1>3. Cur(c) = NoBills <=> header[c] = NoTime  BY <1>2 DEF Temps, Sessions
<1>4. /\ ~InSession(c)' /\ session'[c] = NoSession
      /\ \A d \in Cashes \ {c} :
           session'[d] = session[d] /\ (InSession(d)' <=> InSession(d)) /\ ~Busy(d)'
      /\ \A d \in Cashes : ~Busy(d) /\ Cur(d)' = Cur(d)
  BY <1>1, <1>2 DEF InSession, NoSession, Busy, Cur, Storing, NoJob, Types
<1>5. CASE Cur(c) = NoBills
  <2>1. job' = NoJob /\ job' = job /\ job'.pc = "none"
    BY <1>1, <1>2, <1>5 DEF Storing, NoJob
  <2>2. Types'
    <3>1. session' \in [Cashes -> [open: Times \cup {NoTime}, bills: [Bills -> Nat]]]
      BY <1>1 DEF Types, NoSession, NoBills
    <3>. QED  BY <1>1, <2>1, <3>1 DEF Types
  <2>3. Phases'  BY <1>1 DEF Phases
  <2>4. Clock' /\ Counted'  BY <1>1, SameClock DEF Counted, Cur, Qty
  <2>5. Sessions'
    BY <1>1, <1>4, <2>1, SameDeposits DEF Sessions, Busy
  <2>6. Temps'  BY <1>1, <1>3, <1>4, <1>5, <2>1 DEF Temps, Busy
  <2>7. JobOK'  BY <2>1 DEF JobOK
  <2>8. Stores'  BY <1>1, AllSameStores
  <2>9. Lasts'  BY <1>1 DEF Lasts
  <2>10. Accounted'
    <3>1. dropped[c][opened[c]] = NoBills  BY <1>5 DEF Cur
    <3>. QED  BY <1>1, <1>2, <1>4, <3>1, SameDeposits DEF Accounted
  <2>11. Totals'  BY <1>1, <2>1, SameTotals DEF Writing
  <2>. QED  BY <2>2, <2>3, <2>4, <2>5, <2>6, <2>7, <2>8, <2>9, <2>10, <2>11
<1>6. CASE Cur(c) # NoBills
  <2>1. /\ job' = [pc |-> "header", from |-> c, open |-> opened[c], bills |-> Cur(c),
                   todo |-> Details(Cur(c)), append |-> FALSE, clear |-> c]
        /\ header[c] = opened[c]
    BY <1>1, <1>2, <1>3, <1>6 DEF Storing, Temps
  <2>2. Types'
    <3>1. session' \in [Cashes -> [open: Times \cup {NoTime}, bills: [Bills -> Nat]]]
      BY <1>1 DEF Types, NoSession, NoBills
    <3>2. job' \in Jobs  BY <1>2, <2>1 DEF Jobs, Details
    <3>. QED  BY <1>1, <3>1, <3>2 DEF Types
  <2>3. Phases'  BY <1>1 DEF Phases
  <2>4. Clock' /\ Counted'  BY <1>1, SameClock DEF Counted, Cur, Qty
  <2>5. Busy(c)' /\ job'.pc = "header" /\ \A d \in Cashes \ {c} : ~Busy(d)'
    BY <2>1 DEF Busy
  <2>6. Sessions'  BY <1>1, <1>4, <2>5, SameDeposits DEF Sessions
  <2>7. Temps'
    <3>1. crashes < MaxCrashes => details[c] = Cur(c)  BY <1>2, <1>3, <1>6 DEF Temps
    <3>. QED  BY <1>1, <1>3, <1>4, <1>6, <2>1, <2>5, <3>1 DEF Temps
  <2>8. JobOK'
    BY <1>1, <1>2, <1>4, <1>6, <2>1, SameDeposits DEF JobOK, Writing
  <2>9. Stores'  BY <1>1, AllSameStores
  <2>10. Lasts'  BY <1>1 DEF Lasts
  <2>11. Accounted'
    BY <1>1, <1>2, <1>4, <2>1, SameDeposits DEF Accounted
  <2>12. Totals'  BY <1>1, <1>2, <2>1, SameTotals DEF Writing
  <2>. QED  BY <2>2, <2>3, <2>4, <2>6, <2>7, <2>8, <2>9, <2>10, <2>11, <2>12
<1>. QED  BY <1>5, <1>6
(* What a job in progress says of its cash. *)
LEMMA JobFacts ==
    ASSUME Types, Clock, JobOK, job.pc # "none"
    PROVE  /\ job \in Jobs /\ job.from \in Cashes /\ job.open \in Times
           /\ job.open = opened[job.from] /\ opened[job.from] \in Times
           /\ Cur(job.from) = dropped[job.from][job.open] /\ Cur(job.from) \in [Bills -> Nat]
           /\ Writing => /\ Len(deposits) \in DOMAIN deposits /\ deposits # <<>>
                         /\ LastDeposit = deposits[Len(deposits)]
                         /\ LastDeposit.cash = job.from /\ LastDeposit.open = job.open
                         /\ InDisk(job.from, job.open)
<1>1. job \in Jobs /\ job.from \in Cashes /\ job.open \in Times
  BY DEF Types, Jobs, NoJob
<1>2. job.open = opened[job.from]  BY DEF JobOK
<1>3. Writing => Of(Len(deposits), job.from, job.open)  BY DEF JobOK
<1>4. deposits = <<>> => DOMAIN deposits = {}  OBVIOUS
<1>. QED  BY <1>1, <1>2, <1>3, <1>4 DEF Cur, Of, InDisk, LastDeposit, Types

LEMMA ClearHeaderInv ==
    ASSUME IInv, clearHeader
    PROVE  IInv'
<1>. USE DEF IInv
<1>. DEFINE c == job.from
<1>1. /\ job.pc = "clearHeader"
      /\ header' = [header EXCEPT ![job.clear] = NoTime]
      /\ saveDeposit' = [saveDeposit EXCEPT ![job.clear] = FALSE]
      /\ job' = [job EXCEPT !.pc = "clearDetails"]
      /\ UNCHANGED <<details, deposits, stacked, pending, dropped, session, lastNumber, total,
                     left, phase, last, audited, opened, crashes>>
  BY DEF clearHeader, At, OnDisk, device
<1>2. /\ job.pc # "none" /\ Writing /\ job.clear = c /\ ~InSession(c)
      /\ header[c] = job.open /\ LastDeposit.bills = job.bills /\ job.bills = Cur(c)
  BY <1>1 DEF JobOK, Writing
<1>3. /\ job \in Jobs /\ c \in Cashes /\ job.open \in Times /\ job.open = opened[c]
      /\ opened[c] \in Times /\ Cur(c) = dropped[c][job.open]
      /\ Len(deposits) \in DOMAIN deposits /\ LastDeposit = deposits[Len(deposits)]
      /\ LastDeposit.cash = c /\ LastDeposit.open = job.open /\ InDisk(c, job.open)
  BY <1>2, JobFacts
<1>4. /\ job' \in Jobs /\ job'.pc = "clearDetails" /\ job'.from = job.from
      /\ job'.open = job.open /\ job'.bills = job.bills /\ job'.clear = job.clear
      /\ job'.append = job.append
  BY <1>1, <1>3 DEF Jobs
<1>5. /\ header'[c] = NoTime /\ saveDeposit'[c] = FALSE
      /\ \A d \in Cashes \ {c} : header'[d] = header[d] /\ saveDeposit'[d] = saveDeposit[d]
  BY <1>1, <1>2, <1>3 DEF Types
<1>6. \A d \in Cashes : /\ Busy(d)' <=> Busy(d)
                        /\ InSession(d)' <=> InSession(d)
                        /\ Cur(d)' = Cur(d)
                        /\ Busy(d) <=> d = c
  BY <1>1, <1>2, <1>4 DEF Busy, InSession, Cur
<1>7. Types'  BY <1>1, <1>2, <1>3, <1>4 DEF Types
<1>8. Phases'  BY <1>1, <1>2, <1>4, <1>5, <1>6, TimeFacts DEF Phases
<1>9. Clock' /\ Counted'  BY <1>1, SameClock DEF Counted, Cur, Qty
<1>10. Sessions'
  BY <1>1, <1>2, <1>5, <1>6, SameDeposits DEF Sessions
<1>11. Temps'
  BY <1>1, <1>2, <1>4, <1>5, <1>6, TimeFacts DEF Temps
<1>12. JobOK'
  BY <1>1, <1>2, <1>3, <1>4, <1>5, <1>6, SameDeposits DEF JobOK, Writing
<1>13. Stores'
  <2>1. \A i \in DOMAIN deposits :
          deposits[i].cash \in Cashes /\ deposits[i].open \in Times
    BY DepositsFacts DEF Deposits
  <2>2. \A i \in DOMAIN deposits :
          /\ deposits[i].cash = c => ~Doubtful(i)'
          /\ deposits[i].cash # c => (Doubtful(i)' <=> Doubtful(i))
    BY <1>1, <1>5, <2>1, TimeFacts DEF Doubtful
  <2>3. \A i \in DOMAIN deposits : (Partial(i)' <=> Partial(i)) /\ (Whole(i)' <=> Whole(i))
    BY <1>1 DEF Partial, Whole, Rest, Details, Cur
  <2>4. ASSUME NEW i \in DOMAIN deposits, deposits[i].cash = c PROVE Whole(i)
    <3>1. CASE ~Doubtful(i)  BY <3>1 DEF Stores
    <3>2. CASE Doubtful(i)
      <4>1. i = Len(deposits)  BY <3>2 DEF Stores
      <4>. QED  BY <1>2, <1>3, <4>1 DEF Whole
    <3>. QED  BY <3>1, <3>2
  <2>. QED  BY <1>1, <2>2, <2>3, <2>4, SameStores DEF Stores
<1>14. Lasts'  BY <1>1, <1>2, <1>4, SameDeposits DEF Lasts
<1>15. Accounted'
  <2>1. \A d \in Cashes, t \in Times : header[d] = t => header'[d] = t \/ InDisk(d, t)
    BY <1>2, <1>3, <1>5
  <2>. QED  BY <1>1, <2>1, SameDeposits DEF Accounted
<1>16. Totals'
  <2>1. phase # "down"  BY <1>2 DEF Phases
  <2>. QED  BY <1>1, <1>2, <1>4, <2>1, SameTotals DEF Writing
<1>. QED
  BY <1>7, <1>8, <1>9, <1>10, <1>11, <1>12, <1>13, <1>14, <1>15, <1>16

LEMMA ClearDetailsInv ==
    ASSUME IInv, clearDetails
    PROVE  IInv'
<1>. USE DEF IInv
<1>. DEFINE c == job.from
<1>1. /\ job.pc = "clearDetails"
      /\ details' = [details EXCEPT ![job.clear] = NoBills]
      /\ job' = [job EXCEPT !.pc = "process"]
      /\ UNCHANGED <<header, deposits, stacked, pending, dropped, session, saveDeposit,
                     lastNumber, total, left, phase, last, audited, opened, crashes>>
  BY DEF clearDetails, At, OnDisk, device
<1>2. job.pc # "none" /\ Writing /\ job.clear = c /\ header[c] = NoTime
  BY <1>1 DEF JobOK, Writing
<1>3. job \in Jobs /\ c \in Cashes  BY <1>2, JobFacts
<1>4. /\ job' \in Jobs /\ job'.pc = "process" /\ job'.from = job.from
      /\ job'.open = job.open /\ job'.bills = job.bills /\ job'.clear = job.clear
      /\ job'.append = job.append
  BY <1>1, <1>3 DEF Jobs
<1>5. details'[c] = NoBills /\ \A d \in Cashes \ {c} : details'[d] = details[d]
  BY <1>1, <1>2, <1>3 DEF Types
<1>6. \A d \in Cashes : /\ Busy(d)' <=> Busy(d)
                        /\ InSession(d)' <=> InSession(d)
                        /\ Cur(d)' = Cur(d)
                        /\ Busy(d) <=> d = c
  BY <1>1, <1>2, <1>4 DEF Busy, InSession, Cur
<1>7. Types'
  <2>1. NoBills \in [Bills -> Nat]  BY DEF NoBills
  <2>. QED  BY <1>1, <1>2, <1>3, <1>4, <2>1 DEF Types
<1>8. Phases'  BY <1>1, <1>4, <1>6 DEF Phases
<1>9. Clock' /\ Counted'  BY <1>1, SameClock DEF Counted, Cur, Qty
<1>10. Sessions'  BY <1>1, <1>6, SameDeposits DEF Sessions
<1>11. Temps'  BY <1>1, <1>2, <1>4, <1>5, <1>6 DEF Temps
<1>12. JobOK'
  BY <1>1, <1>3, <1>4, <1>6, SameDeposits DEF JobOK, Writing
<1>13. Stores'  BY <1>1, AllSameStores
<1>14. Lasts'  BY <1>1, <1>2, <1>4, SameDeposits DEF Lasts
<1>15. Accounted'  BY <1>1, SameDeposits DEF Accounted
<1>16. Totals'
  <2>1. phase # "down"  BY <1>2 DEF Phases
  <2>. QED  BY <1>1, <1>2, <1>4, <2>1, SameTotals DEF Writing
<1>. QED
  BY <1>7, <1>8, <1>9, <1>10, <1>11, <1>12, <1>13, <1>14, <1>15, <1>16

LEMMA ProcessInv ==
    ASSUME IInv, processDeposit
    PROVE  IInv'
<1>. USE DEF IInv
<1>. DEFINE c == job.from
<1>1. /\ job.pc = "process" /\ job' = NoJob
      /\ total' = IF job.append THEN total ELSE Plus(total, job.bills)
      /\ lastNumber' = IF job.append THEN lastNumber ELSE LastDeposit.number
      /\ left' = left \ {c}
      /\ UNCHANGED <<header, details, deposits, stacked, pending, dropped, session,
                     saveDeposit, phase, last, audited, opened, crashes>>
  BY DEF processDeposit, At, disk, device
<1>2. /\ job.pc # "none" /\ Writing /\ header[c] = NoTime
      /\ job.bills = Cur(c) /\ LastDeposit.bills = job.bills
  BY <1>1 DEF JobOK, Writing
<1>3. /\ job \in Jobs /\ c \in Cashes /\ job.open \in Times /\ job.open = opened[c]
      /\ opened[c] \in Times /\ Cur(c) \in [Bills -> Nat]
      /\ Len(deposits) \in DOMAIN deposits /\ LastDeposit = deposits[Len(deposits)]
      /\ LastDeposit.cash = c /\ LastDeposit.open = job.open /\ InDisk(c, job.open)
  BY <1>2, JobFacts
<1>4. LastDeposit.number = Len(deposits) /\ Len(deposits) \in Nat
  BY <1>3, DepositsFacts DEF Stores, Numbered
<1>5. job'.pc = "none" /\ ~Writing'  BY <1>1 DEF NoJob, Writing
<1>6. \A d \in Cashes : /\ ~Busy(d)' /\ (Busy(d) <=> d = c)
                        /\ InSession(d)' <=> InSession(d)
                        /\ Cur(d)' = Cur(d)
  BY <1>1, <1>2, <1>5 DEF Busy, InSession, Cur
<1>7. Types'
  <2>1. total' \in [Bills -> Nat]  BY <1>1, <1>2, <1>3 DEF Types, Plus
  <2>2. lastNumber' \in Nat  BY <1>1, <1>4 DEF Types
  <2>. QED  BY <1>1, <2>1, <2>2 DEF Types
<1>8. Phases'  BY <1>1, <1>2, <1>5, <1>6 DEF Phases
<1>9. Clock' /\ Counted'  BY <1>1, SameClock DEF Counted, Cur, Qty
<1>10. Sessions'  BY <1>1, <1>6, SameDeposits DEF Sessions
<1>11. Temps'  BY <1>1, <1>2, <1>6 DEF Temps
<1>12. JobOK'  BY <1>5 DEF JobOK
<1>13. Stores'  BY <1>1, AllSameStores
<1>14. Lasts'
  <2>1. ~Doubtful(Len(deposits))'
    BY <1>1, <1>2, <1>3, TimeFacts DEF Doubtful, LastDeposit
  <2>2. phase = "recover" /\ last # <<>> => last[1].cash \notin left'
    BY <1>1, <1>2 DEF Lasts
  <2>3. Len(deposits') = Len(deposits) /\ last' = last /\ phase' = phase  BY <1>1
  <2>. QED  BY <1>1, <2>1, <2>2, <2>3, SameDeposits DEF Lasts
<1>15. Accounted'
  <2>1. \A d \in Cashes, t \in Times :
          opened[d] = t /\ d \in left => d \in left' \/ InDisk(d, t)
    BY <1>1, <1>3
  <2>. QED  BY <1>1, <2>1, SameDeposits DEF Accounted
<1>16. Totals'
  <2>1. phase # "down"  BY <1>2 DEF Phases
  <2>2. lastNumber' = Len(deposits)  BY <1>1, <1>2, <1>4, <2>1 DEF Totals
  <2>3. \A b \in Bills : StoredTotal[b] = total'[b]
    BY <1>1, <1>2, <1>3, <2>1 DEF Totals, Plus, Types
  <2>4. \A b \in Bills : StoredTotal'[b] = total'[b] /\ total'[b] \in Nat
    BY <1>7, <2>3, SameDeposits, <1>1 DEF Types
  <2>5. Len(deposits') = Len(deposits)  BY <1>1
  <2>. QED  BY <1>5, <2>2, <2>4, <2>5 DEF Totals
<1>. QED
  BY <1>7, <1>8, <1>9, <1>10, <1>11, <1>12, <1>13, <1>14, <1>15, <1>16

(* What writing the record of a deposit, or one of its details, does to the  *)
(* drops that are on disk.                                                   *)
LEMMA StoreDisk ==
    ASSUME Types, store
    PROVE  \A d, t : InDisk(d, t)' <=> (InDisk(d, t) \/ (d = job.from /\ t = job.open))
<1>. SUFFICES ASSUME NEW c, c = job.from, NEW o, o = job.open, NEW n, n = Len(deposits)
              PROVE  \A d, t : InDisk(d, t)' <=> (InDisk(d, t) \/ (d = c /\ t = o))
  OBVIOUS
<1>. DEFINE new == [number |-> lastNumber + 1, cash |-> c, open |-> o, bills |-> NoBills]
<1>1. deposits' = Append(deposits, new) /\ n \in Nat /\ DOMAIN deposits = 1 .. n
  BY DepositsFacts DEF store
<1>2. /\ DOMAIN deposits' = DOMAIN deposits \cup {n + 1}
      /\ \A i \in DOMAIN deposits : deposits'[i] = deposits[i]
      /\ deposits'[n + 1] = new
  BY <1>1 DEF Types
<1>3. \A d, t : Of(n + 1, d, t)' <=> (d = c /\ t = o)  BY <1>2 DEF Of
<1>4. \A i \in DOMAIN deposits : \A d, t : Of(i, d, t)' <=> Of(i, d, t)  BY <1>2 DEF Of
<1>5. \A d, t : InDisk(d, t)' <=> \E i \in DOMAIN deposits' : Of(i, d, t)'  BY DEF InDisk
<1>6. \A d, t : InDisk(d, t) <=> \E i \in DOMAIN deposits : Of(i, d, t)  BY DEF InDisk
<1>. QED  BY <1>2, <1>3, <1>4, <1>5, <1>6

LEMMA StoreDetailsDisk ==
    ASSUME Types, storeDetails
    PROVE  \A d, t : InDisk(d, t)' <=> InDisk(d, t)
<1>1. /\ DOMAIN deposits' = DOMAIN deposits
      /\ \A i \in DOMAIN deposits : /\ deposits'[i].cash = deposits[i].cash
                                    /\ deposits'[i].open = deposits[i].open
  BY DepositsFacts DEF storeDetails, Deposits
<1>2. \A i, d, t : Of(i, d, t)' <=> Of(i, d, t)  BY <1>1 DEF Of
<1>. QED  BY <1>1, <1>2 DEF InDisk

LEMMA StoreInv ==
    ASSUME IInv, store
    PROVE  IInv'
<1>. USE DEF IInv
<1>. SUFFICES ASSUME NEW c, c = job.from, NEW n, n = Len(deposits) PROVE IInv'
  OBVIOUS
<1>. DEFINE new == [number |-> lastNumber + 1, cash |-> c, open |-> job.open, bills |-> NoBills]
<1>1. /\ job.pc = "header"
      /\ deposits' = Append(deposits, new)
      /\ job' = [job EXCEPT !.pc = "details"]
      /\ UNCHANGED <<header, details, saveDeposit, total, stacked, pending, dropped, session,
                     lastNumber, left, phase, last, audited, opened, crashes>>
  BY DEF store, At, OnDisk, device
<1>2. /\ job.pc # "none" /\ ~Writing /\ ~job.append /\ ~InDisk(c, job.open)
      /\ job.todo = Details(job.bills) /\ header[c] = job.open /\ job.bills = Cur(c)
      /\ Cur(c) # NoBills /\ ~InSession(c) /\ job.clear = c
  BY <1>1 DEF JobOK, Writing
<1>3. /\ job \in Jobs /\ c \in Cashes /\ job.open \in Times /\ job.open = opened[c]
      /\ opened[c] \in Times /\ Cur(c) = dropped[c][job.open] /\ Cur(c) \in [Bills -> Nat]
  BY <1>2, JobFacts
<1>4. phase # "down"  BY <1>2 DEF Phases
<1>5. NoBills \in [Bills -> Nat] /\ \A b \in Bills : NoBills[b] = 0  BY DEF NoBills
<1>6. /\ n \in Nat /\ DOMAIN deposits = 1 .. n /\ lastNumber = n
      /\ \A i \in DOMAIN deposits : deposits[i] \in Deposits
  BY <1>2, <1>4, DepositsFacts DEF Totals
<1>7. new \in Deposits  BY <1>3, <1>5, <1>6 DEF Deposits
<1>8. /\ deposits' \in Seq(Deposits) /\ Len(deposits') = n + 1
      /\ DOMAIN deposits' = DOMAIN deposits \cup {n + 1}
      /\ \A i \in DOMAIN deposits : deposits'[i] = deposits[i]
      /\ deposits'[n + 1] = new /\ LastDeposit' = new
      /\ n + 1 \notin DOMAIN deposits
  <2>1. deposits \in Seq(Deposits)  BY DEF Types
  <2>. HIDE DEF new
  <2>2. /\ deposits' \in Seq(Deposits) /\ Len(deposits') = n + 1
        /\ \A i \in 1 .. n : deposits'[i] = deposits[i]
        /\ deposits'[n + 1] = new
    BY <1>1, <1>7, <2>1, AppendProperties
  <2>3. DOMAIN deposits' = 1 .. (n + 1)  BY <2>2, LenProperties
  <2>. QED  BY <1>6, <2>2, <2>3 DEF LastDeposit
<1>9. /\ job' \in Jobs /\ job'.pc = "details" /\ job'.from = c /\ job'.open = job.open
      /\ job'.bills = job.bills /\ job'.clear = c /\ job'.append = job.append
      /\ job'.todo = job.todo
  BY <1>1, <1>2, <1>3 DEF Jobs
<1>10. \A d \in Cashes : /\ Busy(d)' <=> Busy(d)
                         /\ InSession(d)' <=> InSession(d)
                         /\ Cur(d)' = Cur(d)
                         /\ Busy(d) <=> d = c
  BY <1>1, <1>2, <1>9 DEF Busy, InSession, Cur
<1>11. \A d \in Cashes, t \in Times :
         InDisk(d, t)' <=> (InDisk(d, t) \/ (d = c /\ t = job.open))
  BY StoreDisk
<1>12. ASSUME NEW i \in DOMAIN deposits, Doubtful(i) PROVE FALSE
  <2>. DEFINE d == deposits[i].cash
  <2>1. d \in Cashes /\ deposits[i].open \in Times  BY <1>6 DEF Deposits
  <2>2. i = Len(deposits)  BY <1>12 DEF Stores
  <2>3. header[d] = deposits[i].open /\ header[d] # NoTime  BY <1>12, <2>1, TimeFacts DEF Doubtful
  <2>4. InDisk(d, header[d])  BY <2>3 DEF InDisk, Of
  <2>5. d # c  BY <1>2, <2>4
  <2>6. header[d] = opened[d]  BY <2>1, <2>3 DEF Temps
  <2>7. CASE phase = "up"
    <3>1. InSession(d)  BY <1>10, <2>1, <2>3, <2>5, <2>7 DEF Temps
    <3>. QED  BY <2>1, <2>4, <2>6, <3>1 DEF Sessions
  <2>8. CASE phase = "recover"
    <3>1. deposits # <<>> /\ Doubtful(Len(deposits))  BY <1>12, <2>2
    <3>2. last = <<LastDeposit>>  BY <1>1, <2>8, <3>1 DEF Lasts
    <3>3. last # <<>> /\ last[1].cash = d  BY <2>2, <3>2 DEF LastDeposit
    <3>4. d \in left  BY <2>1, <2>3, <2>8 DEF Phases
    <3>. QED  BY <1>2, <2>5, <2>8, <3>3, <3>4 DEF Lasts
  <2>. QED  BY <1>4, <2>7, <2>8 DEF Types
<1>13. Types'  BY <1>1, <1>8, <1>9 DEF Types
<1>14. Phases'  BY <1>1, <1>9, <1>10 DEF Phases
<1>15. Clock'
  <2>1. \A d \in Cashes, t \in Times : t > opened'[d] => dropped'[d][t] = NoBills
    BY <1>1 DEF Clock
  <2>2. \A d, e \in Cashes : opened'[d] # NoTime /\ opened'[d] = opened'[e] => d = e
    BY <1>1 DEF Clock
  <2>3. ASSUME NEW i \in DOMAIN deposits'
        PROVE  /\ deposits'[i].open <= opened'[deposits'[i].cash]
               /\ \A d \in Cashes : opened'[d] = deposits'[i].open => d = deposits'[i].cash
    <3>1. CASE i \in DOMAIN deposits  BY <1>1, <1>8, <3>1 DEF Clock
    <3>2. CASE i = n + 1
      <4>1. deposits'[i].cash = c /\ deposits'[i].open = opened[c]  BY <1>3, <1>8, <3>2
      <4>. QED  BY <1>1, <1>3, <4>1, TimeFacts DEF Clock
    <3>. QED  BY <1>8, <3>1, <3>2
  <2>. QED  BY <2>1, <2>2, <2>3 DEF Clock
<1>16. Counted'  BY <1>1 DEF Counted, Cur, Qty
<1>17. Sessions'
  <2>1. \A d \in Cashes : /\ session'[d] = session[d] /\ pending'[d] = pending[d]
                          /\ stacked'[d] = stacked[d] /\ opened'[d] = opened[d]
                          /\ header'[d] = header[d]
    BY <1>1
  <2>2. \A d \in Cashes : InSession(d) => ~InDisk(d, opened[d])'
    <3>1. \A d \in Cashes : InSession(d) => opened[d] \in Times /\ ~InDisk(d, opened[d]) /\ d # c
      BY <1>2, <1>10, CurType DEF Sessions, InSession
    <3>. QED  BY <1>1, <1>11, <3>1
  <2>. QED  BY <1>10, <2>1, <2>2 DEF Sessions
<1>18. Temps'  BY <1>1, <1>2, <1>9, <1>10 DEF Temps
<1>19. JobOK'
  <2>1. Of(Len(deposits), c, job.open)'  BY <1>8, <1>9 DEF Of
  <2>2. job.todo # {}
    <3>1. PICK b \in Bills : Cur(c)[b] # 0  BY <1>2, <1>3 DEF NoBills
    <3>. QED  BY <1>2, <3>1 DEF Details
  <2>3. Rest(job.todo, job.bills, NoBills)
    <3>1. job.bills \in [Bills -> Nat]  BY <1>2, <1>3
    <3>. QED  BY <1>2, <1>5, <3>1 DEF Rest, Details
  <2>4. LastDeposit'.bills = NoBills  BY <1>8
  <2>5. Cur(job.from)' = Cur(c) /\ ~InSession(job.from)' /\ opened' = opened /\ header' = header
    BY <1>1, <1>2, <1>3, <1>9 DEF Cur, InSession
  <2>6. job'.open = opened'[job'.from] /\ job'.clear = job'.from /\ job'.bills = Cur(job.from)'
        /\ job'.bills # NoBills /\ ~InSession(job.from)'
    BY <1>2, <1>3, <1>9, <2>5
  <2>7. job'.todo # {} /\ Rest(job'.todo, job'.bills, LastDeposit'.bills)
    BY <1>9, <2>2, <2>3, <2>4
  <2>8. Rest(job.todo, job.bills, LastDeposit.bills)'  BY <2>7 DEF Rest, Details
  <2>9. Of(Len(deposits), job.from, job.open)'  BY <1>9, <2>1
  <2>10. header'[job'.from] = job'.open  BY <1>2, <1>9, <2>5
  <2>. QED  BY <1>9, <2>6, <2>7, <2>8, <2>9, <2>10 DEF JobOK
<1>20. Stores'
  <2>1. Numbered'
    <3>1. deposits'[n + 1].number = n + 1  BY <1>6, <1>8
    <3>. QED  BY <1>8, <3>1 DEF Numbered, Stores
  <2>2. Once'
    <3>1. \A i \in DOMAIN deposits : ~(deposits[i].cash = c /\ deposits[i].open = job.open)
      BY <1>2 DEF InDisk, Of
    <3>2. deposits'[n + 1].cash = c /\ deposits'[n + 1].open = job.open  BY <1>8
    <3>3. \A i \in DOMAIN deposits' : i \in DOMAIN deposits \/ i = n + 1  BY <1>8
    <3>4. \A i, j \in DOMAIN deposits :
            deposits[i].cash = deposits[j].cash /\ deposits[i].open = deposits[j].open => i = j
      BY DEF Stores, Once
    <3>. QED  BY <1>8, <3>1, <3>2, <3>3, <3>4 DEF Once
  <2>3. ASSUME NEW i \in DOMAIN deposits PROVE ~Doubtful(i)' /\ Whole(i)'
    <3>1. ~Doubtful(i) /\ Whole(i)  BY <1>12 DEF Stores
    <3>. QED  BY <1>1, <1>8, <3>1 DEF Doubtful, Whole
  <2>4. Partial(n + 1)' /\ Doubtful(n + 1)'
    <3>1. deposits'[n + 1].bills = NoBills /\ deposits'[n + 1].cash = c
          /\ deposits'[n + 1].open = job.open
      BY <1>8
    <3>2. Rest(Details(Cur(c)), Cur(c), NoBills)  BY <1>3, <1>5 DEF Rest, Details
    <3>3. Details(Cur(c)) \in SUBSET Bills  BY DEF Details
    <3>4. Cur(deposits[n + 1].cash)' = Cur(c)  BY <1>1, <3>1 DEF Cur
    <3>5. Rest(Details(Cur(c)), Cur(deposits[n + 1].cash)', deposits'[n + 1].bills)
      BY <3>1, <3>2, <3>4
    <3>6. Partial(n + 1)'  BY <3>3, <3>5 DEF Partial, Rest, Details
    <3>. QED  BY <1>1, <1>2, <3>1, <3>6 DEF Doubtful
  <2>5. \A i \in DOMAIN deposits' :
          IF Doubtful(i)' THEN i = Len(deposits') /\ Partial(i)' ELSE Whole(i)'
    BY <1>8, <2>3, <2>4
  <2>. QED  BY <2>1, <2>2, <2>5 DEF Stores
<1>21. Lasts'
  <2>1. \A d \in Cashes, t \in Times : InDisk(d, t) => InDisk(d, t)'  BY <1>11
  <2>2. last # <<>> => last[1].cash \in Cashes /\ last[1].open \in Times
    BY DEF Types, Deposits
  <2>. QED  BY <1>1, <1>2, <1>9, <2>1, <2>2 DEF Lasts
<1>22. Accounted'
  <2>1. \A d \in Cashes, t \in Times : InDisk(d, t) => InDisk(d, t)'  BY <1>11
  <2>. QED  BY <1>1, <2>1 DEF Accounted
<1>23. Totals'
  <2>1. ASSUME NEW b \in Bills PROVE StoredTotal'[b] = StoredTotal[b]
    <3>1. \A i \in DOMAIN deposits : InDeposits(b)'[i] = InDeposits(b)[i]
      BY <1>8 DEF InDeposits
    <3>2. \A i \in DOMAIN deposits' \ DOMAIN deposits : InDeposits(b)'[i] = 0
      BY <1>5, <1>8 DEF InDeposits
    <3>3. SumOver(DOMAIN deposits', InDeposits(b)') = SumOver(DOMAIN deposits, InDeposits(b))
      BY <1>8, <3>1, <3>2, SumSame
    <3>4. StoredTotal'[b] = SumOver(DOMAIN deposits', InDeposits(b)')
      BY DEF StoredTotal, InDeposits, SumOver, Units
    <3>. QED  BY <3>3, <3>4 DEF StoredTotal
  <2>2. \A b \in Bills : StoredTotal[b] = total[b] + 0 /\ total[b] \in Nat
    BY <1>2, <1>4 DEF Totals, Types
  <2>3. Writing' /\ ~job'.append  BY <1>2, <1>9 DEF Writing
  <2>4. \A b \in Bills : LastDeposit'.bills[b] = 0  BY <1>5, <1>8
  <2>5. lastNumber' = Len(deposits') - 1  BY <1>1, <1>6, <1>8
  <2>. QED  BY <1>1, <2>1, <2>2, <2>3, <2>4, <2>5 DEF Totals
<1>. QED
  BY <1>13, <1>14, <1>15, <1>16, <1>17, <1>18, <1>19, <1>20, <1>21, <1>22, <1>23

(* Writing the first of the missing details leaves the rest missing. *)
Writes(bills, m, written, w) == \A b \in Bills : w[b] = IF b = m THEN bills[m] ELSE written[b]

LEMMA RestWritten ==
    ASSUME NEW todo, NEW bills, NEW written, NEW w,
           bills \in [Bills -> Nat], written \in [Bills -> Nat], w \in [Bills -> Nat],
           Rest(todo, bills, written), todo # {}, Writes(bills, Min(todo), written, w)
    PROVE  /\ Min(todo) \in todo /\ bills[Min(todo)] \in Nat /\ written[Min(todo)] = 0
           /\ Rest(todo \ {Min(todo)}, bills, w)
           /\ todo = {Min(todo)} => w = bills
<1>. SUFFICES ASSUME NEW m, m = Min(todo)
              PROVE  /\ m \in todo /\ bills[m] \in Nat /\ written[m] = 0
                     /\ Rest(todo \ {m}, bills, w)
                     /\ todo = {m} => w = bills
  OBVIOUS
<1>1. todo \subseteq Bills /\ Bills \subseteq Nat
  BY DepositAssumption DEF Rest, Details
<1>2. m \in todo /\ \A d \in todo : m <= d  BY <1>1, MinFacts
<1>3. \A b \in Bills : w[b] = IF b \in todo \ {m} THEN 0 ELSE bills[b]
  BY <1>1, <1>2 DEF Rest, Writes
<1>4. ASSUME NEW b \in Details(bills) \ (todo \ {m}), NEW d \in todo \ {m} PROVE b < d
  <2>1. CASE b = m  BY <1>1, <1>2, <2>1
  <2>2. CASE b # m  BY <2>2 DEF Rest
  <2>. QED  BY <2>1, <2>2
<1>5. Rest(todo \ {m}, bills, w)  BY <1>3, <1>4 DEF Rest
<1>6. ASSUME todo = {m} PROVE w = bills
  <2>1. todo \ {m} = {}  BY <1>6
  <2>2. \A b \in Bills : w[b] = bills[b]  BY <1>3, <2>1
  <2>. QED  BY <2>2
<1>. QED  BY <1>1, <1>5, <1>6, <1>2 DEF Rest

LEMMA StoreDetailsInv ==
    ASSUME IInv, storeDetails
    PROVE  IInv'
<1>. USE DEF IInv
<1>. SUFFICES ASSUME NEW c, c = job.from, NEW n, n = Len(deposits), NEW m, m = Min(job.todo)
              PROVE  IInv'
  OBVIOUS
<1>1. /\ job.pc = "details" /\ job.todo # {}
      /\ deposits' = [deposits EXCEPT ![n].bills[m] = @ + job.bills[m]]
      /\ total' = IF job.append THEN [total EXCEPT ![m] = @ + job.bills[m]] ELSE total
      /\ job' = [job EXCEPT !.todo = @ \ {m},
                            !.pc = IF job.todo = {m} THEN "clearHeader" ELSE "details"]
      /\ UNCHANGED <<header, details, saveDeposit, stacked, pending, dropped, session,
                     lastNumber, left, phase, last, audited, opened, crashes>>
  BY DEF storeDetails, At, OnDisk, device
<1>2. /\ job.pc # "none" /\ Writing /\ job.clear = c /\ ~InSession(c)
      /\ header[c] = job.open /\ job.bills = Cur(c) /\ Cur(c) # NoBills
      /\ Rest(job.todo, job.bills, LastDeposit.bills) /\ Of(Len(deposits), c, job.open)
  BY <1>1 DEF JobOK, Writing
<1>3. /\ job \in Jobs /\ c \in Cashes /\ job.open \in Times /\ job.open = opened[c]
      /\ opened[c] \in Times /\ Cur(c) = dropped[c][job.open] /\ Cur(c) \in [Bills -> Nat]
      /\ n \in DOMAIN deposits /\ LastDeposit = deposits[n]
      /\ deposits[n].cash = c /\ deposits[n].open = job.open
  BY <1>2, JobFacts
<1>4. /\ n \in Nat /\ DOMAIN deposits = 1 .. n /\ deposits[n] \in Deposits
      /\ \A i \in DOMAIN deposits : deposits[i] \in Deposits
  BY <1>3, DepositsFacts
<1>5. deposits[n].bills \in [Bills -> Nat]  BY <1>4 DEF Deposits
<1>. DEFINE w == [deposits[n].bills EXCEPT ![m] = job.bills[m]]
<1>6. /\ m \in job.todo /\ m \in Bills /\ job.bills[m] \in Nat /\ deposits[n].bills[m] = 0
      /\ Rest(job.todo \ {m}, Cur(c), w)
      /\ job.todo = {m} => w = Cur(c)
  <2>1. Rest(job.todo, Cur(c), deposits[n].bills) /\ job.bills[m] = Cur(c)[m]
    BY <1>1, <1>2, <1>3
  <2>2. m \in job.todo
    <3>1. job.todo \subseteq Nat  BY <2>1, DepositAssumption DEF Rest, Details
    <3>. QED  BY <1>1, <3>1, MinFacts
  <2>3. m \in Bills  BY <2>1, <2>2 DEF Rest, Details
  <2>4. \A b \in Bills : w[b] = IF b = m THEN Cur(c)[m] ELSE deposits[n].bills[b]
    BY <1>5, <2>1, <2>3
  <2>5. w \in [Bills -> Nat]  BY <1>3, <1>5, <2>1, <2>3
  <2>. HIDE DEF w
  <2>6. /\ Cur(c)[m] \in Nat /\ deposits[n].bills[m] = 0
        /\ Rest(job.todo \ {m}, Cur(c), w) /\ (job.todo = {m} => w = Cur(c))
    <3>. DEFINE todo == job.todo
                bills == Cur(c)
                written == deposits[n].bills
    <3>1. /\ bills \in [Bills -> Nat] /\ written \in [Bills -> Nat] /\ w \in [Bills -> Nat]
          /\ Rest(todo, bills, written)
      BY <1>3, <1>5, <2>1, <2>5
    <3>2. todo # {} /\ m = Min(todo)  BY <1>1
    <3>3. Writes(bills, Min(todo), written, w)  BY <2>4, <3>2 DEF Writes
    <3>. HIDE DEF todo, bills, written
    <3>4. /\ bills[Min(todo)] \in Nat /\ written[Min(todo)] = 0
          /\ Rest(todo \ {Min(todo)}, bills, w)
          /\ todo = {Min(todo)} => w = bills
      BY ONLY <3>1, <3>2, <3>3, RestWritten
    <3>. QED  BY <3>2, <3>4 DEF todo, bills, written
  <2>. QED  BY <2>1, <2>2, <2>3, <2>6
<1>7. w \in [Bills -> Nat] /\ \A b \in Bills : w[b] = IF b = m THEN job.bills[m] ELSE deposits[n].bills[b]
  BY <1>5, <1>6
<1>8. deposits' = [deposits EXCEPT ![n] = [@ EXCEPT !.bills = w]]
  <2>1. deposits[n].bills[m] + job.bills[m] = job.bills[m]  BY <1>6
  <2>2. [deposits EXCEPT ![n].bills[m] = @ + job.bills[m]] =
          [deposits EXCEPT ![n] = [@ EXCEPT !.bills =
                             [deposits[n].bills EXCEPT ![m] = deposits[n].bills[m] + job.bills[m]]]]
    BY <1>3
  <2>. QED  BY <1>1, <2>1, <2>2
<1>. HIDE DEF w
<1>9. /\ deposits' \in Seq(Deposits) /\ Len(deposits') = n /\ DOMAIN deposits' = DOMAIN deposits
      /\ \A i \in DOMAIN deposits \ {n} : deposits'[i] = deposits[i]
      /\ deposits'[n] = [deposits[n] EXCEPT !.bills = w]
  <2>1. deposits \in Seq(Deposits)  BY DEF Types
  <2>2. [deposits[n] EXCEPT !.bills = w] \in Deposits  BY <1>4, <1>7 DEF Deposits
  <2>3. deposits' \in Seq(Deposits) /\ Len(deposits') = n
        /\ \A i \in 1 .. n : deposits'[i] = IF i = n THEN [deposits[n] EXCEPT !.bills = w] ELSE deposits[i]
    BY <1>3, <1>4, <1>8, <2>1, <2>2, ExceptSeq
  <2>. QED  BY <1>3, <1>4, <1>8, <2>3
<1>10. /\ deposits'[n].bills = w /\ deposits'[n].cash = c /\ deposits'[n].open = job.open
       /\ deposits'[n].number = deposits[n].number /\ LastDeposit' = deposits'[n]
  BY <1>3, <1>4, <1>9 DEF Deposits, LastDeposit
<1>11. /\ \A i \in DOMAIN deposits : /\ deposits'[i].cash = deposits[i].cash
                                     /\ deposits'[i].open = deposits[i].open
                                     /\ deposits'[i].number = deposits[i].number
       /\ \A i \in DOMAIN deposits \ {n} : deposits'[i].bills = deposits[i].bills
  BY <1>3, <1>9, <1>10
<1>12. /\ job' \in Jobs /\ job'.pc = IF job.todo = {m} THEN "clearHeader" ELSE "details"
       /\ job'.from = c /\ job'.open = job.open /\ job'.bills = job.bills /\ job'.clear = c
       /\ job'.append = job.append /\ job'.todo = job.todo \ {m}
  BY <1>1, <1>2, <1>3 DEF Jobs
<1>13. \A d \in Cashes : /\ Busy(d)' <=> Busy(d)
                         /\ InSession(d)' <=> InSession(d)
                         /\ Cur(d)' = Cur(d)
                         /\ Busy(d) <=> d = c
  BY <1>1, <1>2, <1>12 DEF Busy, InSession, Cur
<1>14. \A d, t : InDisk(d, t)' <=> InDisk(d, t)  BY StoreDetailsDisk
<1>15. Types'
  <2>1. total' \in [Bills -> Nat]
    <3>1. total \in [Bills -> Nat]  BY DEF Types
    <3>. QED  BY <1>1, <1>6, <3>1
  <2>. QED  BY <1>1, <1>9, <1>12, <2>1 DEF Types
<1>16. Phases'  BY <1>1, <1>12, <1>13 DEF Phases
<1>17. Clock'  BY <1>1, <1>9, <1>11 DEF Clock
<1>18. Counted'  BY <1>1 DEF Counted, Cur, Qty
<1>19. Sessions'
  <2>1. \A d \in Cashes : InDisk(d, opened[d])' <=> InDisk(d, opened[d])  BY <1>1, <1>14
  <2>. QED  BY <1>1, <1>13, <2>1 DEF Sessions
<1>20. Temps'  BY <1>1, <1>2, <1>12, <1>13 DEF Temps
<1>21. JobOK'
  <2>1. Of(Len(deposits), job.from, job.open)'  BY <1>3, <1>9, <1>10, <1>12 DEF Of
  <2>2. /\ job'.open = opened'[job'.from] /\ job'.clear = job'.from
        /\ job'.bills = Cur(job.from)' /\ job'.bills # NoBills /\ ~InSession(job.from)'
        /\ header'[job'.from] = job'.open
    <3>1. Cur(job.from)' = Cur(c) /\ (InSession(job.from)' <=> InSession(c))
      BY <1>1, <1>3, <1>12 DEF Cur, InSession
    <3>. QED  BY <1>1, <1>2, <1>3, <1>12, <3>1
  <2>3. CASE job.todo = {m}
    <3>1. job'.pc = "clearHeader" /\ LastDeposit'.bills = job'.bills
      BY <1>2, <1>6, <1>10, <1>12, <2>3
    <3>. QED  BY <2>1, <2>2, <3>1 DEF JobOK
  <2>4. CASE job.todo # {m}
    <3>1. job'.pc = "details" /\ job'.todo # {}  BY <1>6, <1>12, <2>4
    <3>2. Rest(job'.todo, job'.bills, LastDeposit'.bills)  BY <1>2, <1>6, <1>10, <1>12
    <3>3. Rest(job.todo, job.bills, LastDeposit.bills)'  BY <3>2 DEF Rest, Details
    <3>. QED  BY <2>1, <2>2, <3>1, <3>3 DEF JobOK
  <2>. QED  BY <2>3, <2>4
<1>22. Stores'
  <2>1. Numbered'  BY <1>9, <1>11 DEF Stores, Numbered
  <2>2. Once'  BY <1>9, <1>11 DEF Stores, Once
  <2>3. \A i \in DOMAIN deposits : Doubtful(i)' <=> Doubtful(i)  BY <1>1, <1>11 DEF Doubtful
  <2>4. ASSUME NEW i \in DOMAIN deposits, i # n PROVE ~Doubtful(i)' /\ Whole(i)'
    <3>1. ~Doubtful(i) /\ Whole(i)  BY <2>4 DEF Stores
    <3>. QED  BY <1>1, <1>11, <2>3, <2>4, <3>1 DEF Whole
  <2>5. Doubtful(n)' /\ Partial(n)'
    <3>1. Cur(deposits[n].cash)' = Cur(c)  BY <1>1, <1>10 DEF Cur
    <3>2. Rest(job.todo \ {m}, Cur(deposits[n].cash)', deposits'[n].bills)
      BY <1>6, <1>10, <3>1
    <3>3. job.todo \ {m} \in SUBSET Bills  BY <1>6 DEF Rest, Details
    <3>4. Partial(n)'  BY <3>2, <3>3 DEF Partial, Rest, Details
    <3>. QED  BY <1>1, <1>2, <1>10, <3>4 DEF Doubtful
  <2>6. \A i \in DOMAIN deposits' :
          IF Doubtful(i)' THEN i = Len(deposits') /\ Partial(i)' ELSE Whole(i)'
    BY <1>9, <2>4, <2>5
  <2>. QED  BY <2>1, <2>2, <2>6 DEF Stores
<1>23. Lasts'  BY <1>1, <1>2, <1>12, <1>14 DEF Lasts
<1>24. Accounted'  BY <1>1, <1>14 DEF Accounted
<1>25. Totals'
  <2>1. ASSUME NEW b \in Bills
        PROVE  StoredTotal'[b] = IF b = m THEN StoredTotal[m] + job.bills[m] ELSE StoredTotal[b]
    <3>1. /\ InDeposits(b)'[n] = w[b] /\ InDeposits(b)[n] = deposits[n].bills[b]
          /\ \A i \in DOMAIN deposits \ {n} : InDeposits(b)'[i] = InDeposits(b)[i]
          /\ \A i \in DOMAIN deposits : InDeposits(b)[i] \in Nat
      BY <1>3, <1>4, <1>9, <1>10 DEF InDeposits, Deposits
    <3>2. StoredTotal'[b] = SumOver(DOMAIN deposits, InDeposits(b)')
      BY <1>9 DEF StoredTotal, InDeposits, SumOver, Units
    <3>3. StoredTotal[b] = SumOver(DOMAIN deposits, InDeposits(b))  BY DEF StoredTotal
    <3>4. CASE b # m
      <4>1. \A i \in DOMAIN deposits : InDeposits(b)'[i] = InDeposits(b)[i]
        BY <1>7, <3>1, <3>4
      <4>2. SumOver(DOMAIN deposits, InDeposits(b)') = SumOver(DOMAIN deposits, InDeposits(b))
        BY <4>1, SumSame
      <4>. QED  BY <3>2, <3>3, <3>4, <4>2
    <3>5. CASE b = m
      <4>1. InDeposits(b)'[n] = InDeposits(b)[n] + job.bills[m]
        BY <1>6, <1>7, <3>1, <3>5
      <4>2. IsFiniteSet(DOMAIN deposits)  BY <1>4, FS_Interval
      <4>. DEFINE f == InDeposits(b)
                  g == InDeposits(b)'
                  S == DOMAIN deposits
                  k == job.bills[m]
      <4>3. /\ IsFiniteSet(S) /\ n \in S /\ k \in Nat /\ g[n] = f[n] + k
            /\ \A i \in S : f[i] \in Nat
            /\ \A i \in S \ {n} : g[i] = f[i]
        <5>1. n \in S /\ k \in Nat /\ IsFiniteSet(S)  BY <1>3, <1>6, <4>2
        <5>2. g[n] = f[n] + k  BY <4>1
        <5>3. \A i \in S : f[i] \in Nat  BY <3>1
        <5>4. \A i \in S \ {n} : g[i] = f[i]  BY <3>1
        <5>. QED  BY <5>1, <5>2, <5>3, <5>4
      <4>4. SumOver(S, g) = SumOver(S, f) + k
        <5>. HIDE DEF f, g, S, k
        <5>. QED  BY <4>3, SumChange
      <4>. QED  BY <3>2, <3>3, <3>5, <4>4
    <3>. QED  BY <3>4, <3>5
  <2>2. phase # "down"  BY <1>2 DEF Phases
  <2>3. Writing' /\ job'.append = job.append  BY <1>12 DEF Writing
  <2>4. lastNumber' = IF Writing' /\ ~job'.append THEN Len(deposits') - 1 ELSE Len(deposits')
    BY <1>1, <1>2, <1>9, <2>2, <2>3 DEF Totals
  <2>5. \A b \in Bills : LastDeposit'.bills[b] = w[b] /\ w[b] \in Nat /\ total[b] \in Nat
    BY <1>7, <1>10 DEF Types
  <2>6. CASE job.append
    <3>1. \A b \in Bills : StoredTotal[b] = total[b]  BY <1>2, <2>2, <2>5, <2>6 DEF Totals
    <3>2. \A b \in Bills : total'[b] = IF b = m THEN total[m] + job.bills[m] ELSE total[b]
      BY <1>1, <2>6 DEF Types
    <3>3. \A b \in Bills : StoredTotal'[b] = total'[b] + 0
      BY <1>6, <2>1, <2>5, <3>1, <3>2
    <3>. QED  BY <1>1, <2>3, <2>4, <2>6, <3>3 DEF Totals
  <2>7. CASE ~job.append
    <3>1. \A b \in Bills : StoredTotal[b] = total[b] + deposits[n].bills[b]
      BY <1>2, <1>3, <2>2, <2>7 DEF Totals
    <3>2. \A b \in Bills : StoredTotal'[b] = total'[b] + LastDeposit'.bills[b]
      BY <1>1, <1>6, <1>7, <2>1, <2>5, <2>7, <3>1
    <3>. QED  BY <1>1, <2>3, <2>4, <2>7, <3>2 DEF Totals
  <2>. QED  BY <2>6, <2>7
<1>. QED
  BY <1>15, <1>16, <1>17, <1>18, <1>19, <1>20, <1>21, <1>22, <1>23, <1>24, <1>25
-----------------------------------------------------------------------------
(* A power cut, and what the next start does. *)
LEMMA CrashInv ==
    ASSUME IInv, ~CutAgain, Crash
    PROVE  IInv'
<1>. USE DEF IInv
<1>1. /\ phase # "down" /\ crashes < MaxCrashes /\ phase' = "down"
      /\ crashes' = IF job.pc = "clearDetails" THEN MaxCrashes ELSE crashes + 1
      /\ pending' = [c \in Cashes |-> <<>>]
      /\ session' = [c \in Cashes |-> NoSession]
      /\ saveDeposit' = [c \in Cashes |-> FALSE]
      /\ job' = NoJob /\ left' = {} /\ last' = <<>>
      /\ UNCHANGED <<header, details, deposits, stacked, dropped, lastNumber, total, audited,
                     opened>>
  BY DEF Crash, disk
<1>2. job'.pc = "none" /\ \A c \in Cashes : ~InSession(c)' /\ ~Busy(c)' /\ Cur(c)' = Cur(c)
  BY <1>1 DEF InSession, NoSession, Busy, Cur, NoJob
<1>3. Types'
  <2>1. session' \in [Cashes -> [open: Times \cup {NoTime}, bills: [Bills -> Nat]]]
    BY <1>1 DEF NoSession, NoBills
  <2>2. crashes' \in Nat  BY <1>1, DepositAssumption DEF Types
  <2>. QED  BY <1>1, <2>1, <2>2 DEF Types
<1>4. Phases'  BY <1>1, <1>2 DEF Phases
<1>5. Clock' /\ Counted'  BY <1>1, SameClock DEF Counted, Cur, Qty
<1>6. Sessions'  BY <1>1, <1>2 DEF Sessions
<1>7. Temps'
  <2>1. ASSUME NEW c \in Cashes, header[c] = NoTime, crashes' < MaxCrashes
        PROVE  details[c] = NoBills
    <3>1. job.pc # "clearDetails"  BY <1>1, <2>1, DepositAssumption
    <3>. QED  BY <1>1, <2>1, <3>1 DEF Temps
  <2>2. ASSUME NEW c \in Cashes, header[c] # NoTime
        PROVE  \/ details[c] = Cur(c)
               \/ stacked[c].qty # 0 /\ Cur(c) = OneMore(details[c], stacked[c].last)
    <3>1. CASE phase = "up" /\ InSession(c)
      <4>1. details[c] = session[c].bills  BY <1>1, <2>2, <3>1 DEF Temps
      <4>. QED  BY <3>1, <4>1 DEF Sessions
    <3>2. CASE phase = "up" /\ Busy(c)  BY <1>1, <2>2, <3>2 DEF Temps
    <3>3. CASE phase # "up"  BY <2>2, <3>3 DEF Temps
    <3>. QED  BY <2>2, <3>1, <3>2, <3>3 DEF Temps
  <2>. QED  BY <1>1, <1>2, <2>1, <2>2 DEF Temps
<1>8. JobOK'  BY <1>2 DEF JobOK
<1>9. Stores'  BY <1>1, AllSameStores
<1>10. Lasts' /\ Totals'  BY <1>1 DEF Lasts, Totals
<1>11. Accounted'
  <2>1. \A c \in Cashes, t \in Times : session[c].open = t => opened[c] = t
    BY TimeFacts DEF Sessions, InSession
  <2>. QED  BY <1>1, <2>1, SameDeposits DEF Accounted
<1>. QED  BY <1>3, <1>4, <1>5, <1>6, <1>7, <1>8, <1>9, <1>10, <1>11

LEMMA StoredTotalType ==
    ASSUME Types
    PROVE  StoredTotal \in [Bills -> Nat]
<1>1. IsFiniteSet(DOMAIN deposits)  BY DepositsFacts, FS_Interval
<1>2. ASSUME NEW b \in Bills PROVE StoredTotal[b] \in Nat
  <2>1. \A i \in DOMAIN deposits : InDeposits(b)[i] \in Nat
    BY DepositsFacts DEF InDeposits, Deposits
  <2>. QED  BY <1>1, <2>1, UnitsFinite DEF StoredTotal
<1>. QED  BY <1>2 DEF StoredTotal

LEMMA BootInv ==
    ASSUME IInv, Boot
    PROVE  IInv'
<1>. USE DEF IInv
<1>1. /\ phase = "down" /\ phase' = "recover"
      /\ lastNumber' = IF deposits = <<>> THEN 0 ELSE LastDeposit.number
      /\ total' = StoredTotal /\ left' = Cashes
      /\ last' = IF deposits = <<>> THEN <<>> ELSE <<LastDeposit>>
      /\ UNCHANGED <<header, details, deposits, stacked, pending, dropped, session,
                     saveDeposit, job, audited, opened, crashes>>
  BY DEF Boot, disk, device
<1>2. job.pc = "none"  BY <1>1 DEF Phases
<1>3. \A c \in Cashes : /\ InSession(c)' <=> InSession(c)
                        /\ Busy(c)' <=> Busy(c)
                        /\ Cur(c)' = Cur(c)
  BY <1>1 DEF InSession, Busy, Cur
<1>4. /\ deposits # <<>> => /\ LastDeposit \in Deposits /\ LastDeposit.number = Len(deposits)
                            /\ InDisk(LastDeposit.cash, LastDeposit.open)
      /\ deposits = <<>> => Len(deposits) = 0
      /\ Len(deposits) \in Nat
  BY DepositsFacts DEF LastDeposit, Stores, Numbered, InDisk, Of
<1>5. lastNumber' = Len(deposits)  BY <1>1, <1>4
<1>6. Types'
  <2>1. total' \in [Bills -> Nat]  BY <1>1, StoredTotalType
  <2>2. last' \in {<<>>} \cup {<<d>> : d \in Deposits}  BY <1>1, <1>4
  <2>. QED  BY <1>1, <1>4, <1>5, <2>1, <2>2 DEF Types
<1>7. Phases'  BY <1>1, <1>3 DEF Phases
<1>8. Clock' /\ Counted'  BY <1>1, SameClock DEF Counted, Cur, Qty
<1>9. Sessions'  BY <1>1, <1>3, SameDeposits DEF Sessions
<1>10. Temps'  BY <1>1, <1>3 DEF Temps
<1>11. JobOK'  BY <1>1, <1>2 DEF JobOK
<1>12. Stores'  BY <1>1, AllSameStores
<1>13. Lasts'
  <2>1. last' # <<>> => /\ deposits # <<>> /\ last'[1] = LastDeposit
                        /\ InDisk(last'[1].cash, last'[1].open)
    BY <1>1, <1>4
  <2>2. last' # <<>> => InDisk(last[1].cash, last[1].open)'
    BY <1>1, <2>1 DEF InDisk, Of
  <2>. QED  BY <1>1, <1>2, <2>1, <2>2, SameDeposits DEF Lasts
<1>14. Accounted'  BY <1>1, SameDeposits DEF Accounted
<1>15. Totals'
  <2>1. \A b \in Bills : StoredTotal'[b] = total'[b] + 0
    BY <1>1, SameDeposits, StoredTotalType
  <2>2. ~Writing' /\ Len(deposits') = Len(deposits)  BY <1>1, <1>2 DEF Writing
  <2>. QED  BY <1>5, <2>1, <2>2 DEF Totals
<1>. QED
  BY <1>6, <1>7, <1>8, <1>9, <1>10, <1>11, <1>12, <1>13, <1>14, <1>15

LEMMA RecoveredInv ==
    ASSUME IInv, Recovered
    PROVE  IInv'
<1>. USE DEF IInv
<1>1. /\ phase = "recover" /\ left = {} /\ job = NoJob /\ phase' = "up"
      /\ UNCHANGED <<header, details, deposits, stacked, pending, dropped, session,
                     saveDeposit, lastNumber, total, job, left, last, audited, opened, crashes>>
  BY DEF Recovered, disk, device
<1>2. \A c \in Cashes : /\ InSession(c)' <=> InSession(c)
                        /\ Busy(c)' <=> Busy(c)
                        /\ Cur(c)' = Cur(c)
  BY <1>1 DEF InSession, Busy, Cur
<1>3. Types'  BY <1>1 DEF Types
<1>4. Phases'  BY <1>1 DEF Phases
<1>5. Clock' /\ Counted'  BY <1>1, SameClock DEF Counted, Cur, Qty
<1>6. Sessions'  BY <1>1, <1>2, SameDeposits DEF Sessions
<1>7. Temps'
  <2>1. \A c \in Cashes : header[c] = NoTime /\ ~saveDeposit[c]  BY <1>1 DEF Phases
  <2>. QED  BY <1>1, <1>2, <2>1 DEF Temps
<1>8. JobOK'
  <2>1. job'.pc = "none"  BY <1>1 DEF NoJob
  <2>. QED  BY <2>1 DEF JobOK
<1>9. Stores'  BY <1>1, AllSameStores
<1>10. Lasts'  BY <1>1 DEF Lasts
<1>11. Accounted'  BY <1>1, SameDeposits DEF Accounted
<1>12. Totals'  BY <1>1, SameTotals DEF Writing
<1>. QED  BY <1>3, <1>4, <1>5, <1>6, <1>7, <1>8, <1>9, <1>10, <1>11, <1>12

LEMMA RecoverNothingInv ==
    ASSUME IInv, NEW c \in Cashes, RecoverNothing(c)
    PROVE  IInv'
<1>. USE DEF IInv
<1>1. /\ phase = "recover" /\ job = NoJob /\ c \in left /\ header[c] = NoTime
      /\ left' = left \ {c}
      /\ audited' = IF stacked[c].qty > 0 THEN audited \cup {<<c, opened[c]>>} ELSE audited
      /\ UNCHANGED <<header, details, deposits, stacked, pending, dropped, session,
                     saveDeposit, lastNumber, total, job, phase, last, opened, crashes>>
  BY DEF RecoverNothing, Turn, disk, device
<1>2. job.pc = "none"  BY <1>1 DEF NoJob
<1>3. \A d \in Cashes : /\ InSession(d)' <=> InSession(d)
                        /\ ~Busy(d) /\ ~Busy(d)'
                        /\ Cur(d)' = Cur(d)
  BY <1>1, <1>2 DEF InSession, Busy, Cur
<1>4. Types'  BY <1>1 DEF Types
<1>5. Phases'  BY <1>1, <1>3 DEF Phases
<1>6. Clock' /\ Counted'  BY <1>1, SameClock DEF Counted, Cur, Qty
<1>7. Sessions'  BY <1>1, <1>3, SameDeposits DEF Sessions
<1>8. Temps'  BY <1>1, <1>3 DEF Temps
<1>9. JobOK'  BY <1>1, <1>2 DEF JobOK
<1>10. Stores'  BY <1>1, AllSameStores
<1>11. Lasts'  BY <1>1, <1>2, SameDeposits DEF Lasts, Doubtful
<1>12. Accounted'
  <2>1. ASSUME opened[c] \in Times, Cur(c) # NoBills PROVE <<c, opened[c]>> \in audited'
    <3>1. stacked[c].qty = Qty(Cur(c)) /\ Cur(c) \in [Bills -> Nat]
      BY <2>1, CurType, TimeFacts DEF Counted
    <3>2. Qty(Cur(c)) \in Nat /\ Qty(Cur(c)) # 0  BY <2>1, <3>1, QtyFacts
    <3>. QED  BY <1>1, <3>1, <3>2
  <2>2. \A d \in Cashes, t \in Times :
          dropped[d][t] # NoBills /\ opened[d] = t /\ d \in left =>
            d \in left' \/ <<d, t>> \in audited'
    BY <1>1, <2>1 DEF Cur
  <2>. QED  BY <1>1, <2>2, SameDeposits DEF Accounted
<1>13. Totals'  BY <1>1, SameTotals DEF Writing
<1>. QED
  BY <1>4, <1>5, <1>6, <1>7, <1>8, <1>9, <1>10, <1>11, <1>12, <1>13

(* What a recovery reads of a temporary deposit is all that was dropped, the *)
(* bill whose event was lost included.                                       *)
LEMMA RecoveredBills ==
    ASSUME IInv, phase = "recover", job = NoJob, NEW c \in Cashes, header[c] # NoTime
    PROVE  /\ TempDeposit(c) = Cur(c) /\ header[c] = opened[c] /\ opened[c] \in Times
           /\ Cur(c) \in [Bills -> Nat] /\ Cur(c) # NoBills
<1>. USE DEF IInv
<1>1. /\ header[c] = opened[c] /\ Cur(c) # NoBills
      /\ \/ details[c] = Cur(c)
         \/ stacked[c].qty # 0 /\ Cur(c) = OneMore(details[c], stacked[c].last)
  BY DEF Temps
<1>2. opened[c] \in Times /\ Cur(c) \in [Bills -> Nat]  BY <1>1, CurType
<1>3. stacked[c].qty = Qty(Cur(c)) /\ (stacked[c].qty # 0 => stacked[c].last \in Bills)
  BY <1>1 DEF Counted
<1>4. details[c] \in [Bills -> Nat]  BY DEF Types
<1>5. Qty(Cur(c)) \in Nat /\ Qty(details[c]) \in Nat  BY <1>2, <1>4, QtyFacts
<1>6. CASE details[c] = Cur(c)
  <2>1. ~(Qty(details[c]) < stacked[c].qty)  BY <1>3, <1>5, <1>6
  <2>. QED  BY <1>1, <1>2, <1>6, <2>1 DEF TempDeposit
<1>7. CASE stacked[c].qty # 0 /\ Cur(c) = OneMore(details[c], stacked[c].last)
  <2>1. Qty(Cur(c)) = Qty(details[c]) + 1  BY <1>3, <1>4, <1>7, QtyFacts
  <2>2. stacked[c].qty > 0 /\ Qty(details[c]) < stacked[c].qty
    BY <1>3, <1>5, <2>1
  <2>3. TempDeposit(c) = OneMore(details[c], stacked[c].last)
    BY <2>2 DEF TempDeposit, OneMore
  <2>. QED  BY <1>1, <1>2, <1>7, <2>3
<1>. QED  BY <1>1, <1>6, <1>7

LEMMA RecoverStoreInv ==
    ASSUME IInv, NEW c \in Cashes, RecoverStore(c)
    PROVE  IInv'
<1>. USE DEF IInv
<1>1. /\ phase = "recover" /\ job = NoJob /\ c \in left /\ header[c] # NoTime
      /\ last # <<>> /\ last[1].cash \in left => c = last[1].cash
      /\ ~StoredBefore(c)
      /\ job' = Storing(c, header[c], TempDeposit(c))
      /\ left' = IF job' = NoJob THEN left \ {c} ELSE left
      /\ UNCHANGED <<header, details, deposits, stacked, pending, dropped, session,
                     saveDeposit, lastNumber, total, phase, last, audited, opened, crashes>>
  BY DEF RecoverStore, Turn, disk, device
<1>2. job.pc = "none"  BY <1>1 DEF NoJob
<1>3. /\ TempDeposit(c) = Cur(c) /\ header[c] = opened[c] /\ opened[c] \in Times
      /\ Cur(c) \in [Bills -> Nat] /\ Cur(c) # NoBills
  BY <1>1, RecoveredBills
<1>4. job' = [pc |-> "header", from |-> c, open |-> opened[c], bills |-> Cur(c),
              todo |-> Details(Cur(c)), append |-> FALSE, clear |-> c]
  BY <1>1, <1>3 DEF Storing
<1>5. /\ job' \in Jobs /\ job'.pc = "header" /\ job'.from = c /\ left' = left
  <2>1. job'.pc = "header" /\ job'.from = c  BY <1>4
  <2>2. job' # NoJob  BY <2>1 DEF NoJob
  <2>3. job' \in Jobs  BY <1>3, <1>4 DEF Jobs, Details
  <2>. QED  BY <1>1, <2>1, <2>2, <2>3
<1>6. \A d \in Cashes : /\ ~InSession(d) /\ ~InSession(d)'
                        /\ ~Busy(d) /\ (Busy(d)' <=> d = c)
                        /\ Cur(d)' = Cur(d)
  BY <1>1, <1>2, <1>5 DEF InSession, Busy, Cur, Phases
<1>7. ~InDisk(c, opened[c])
  <2>. SUFFICES ASSUME NEW i, Of(i, c, opened[c]) PROVE FALSE  BY DEF InDisk
  <2>1. i \in DOMAIN deposits /\ Doubtful(i) /\ deposits[i].open = header[c]
    BY <1>3 DEF Of, Doubtful
  <2>2. i = Len(deposits) /\ deposits # <<>>  BY <2>1 DEF Stores
  <2>3. last = <<LastDeposit>>  BY <1>1, <1>2, <2>1, <2>2 DEF Lasts
  <2>4. last # <<>> /\ last[1].open = header[c]  BY <2>1, <2>2, <2>3 DEF LastDeposit
  <2>. QED  BY <1>1, <2>4 DEF StoredBefore
<1>8. Types'  BY <1>1, <1>5 DEF Types
<1>9. Phases'  BY <1>1, <1>5, <1>6 DEF Phases
<1>10. Clock' /\ Counted'  BY <1>1, SameClock DEF Counted, Cur, Qty
<1>11. Sessions'  BY <1>1, <1>6 DEF Sessions
<1>12. Temps'  BY <1>1, <1>2, <1>6 DEF Temps
<1>13. JobOK'
  <2>1. ~InDisk(c, opened[c])'  BY <1>1, <1>7, SameDeposits
  <2>. QED  BY <1>1, <1>3, <1>4, <1>6, <2>1 DEF JobOK, Writing, InDisk, Of
<1>14. Stores'  BY <1>1, AllSameStores
<1>15. Lasts'  BY <1>1, <1>2, <1>5, SameDeposits DEF Lasts, Doubtful
<1>16. Accounted'  BY <1>1, <1>5, SameDeposits DEF Accounted
<1>17. Totals'  BY <1>1, <1>2, <1>5, SameTotals DEF Writing
<1>. QED
  BY <1>8, <1>9, <1>10, <1>11, <1>12, <1>13, <1>14, <1>15, <1>16, <1>17

(* The details from the position of the first one not written are those that *)
(* are not written.                                                          *)
LEMMA MissingFacts ==
    ASSUME NEW x, NEW w, NEW todo,
           x \in [Bills -> Nat], w \in [Bills -> Nat], Rest(todo, x, w)
    PROVE  /\ Missing(x, Cardinality(Details(w))) = todo
           /\ ~(Cardinality(Details(x)) < Cardinality(Details(w)))
<1>1. Details(w) = Details(x) \ todo /\ todo \subseteq Details(x) /\ Details(x) \subseteq Bills
  BY DEF Rest, Details
<1>2. Bills \subseteq Nat /\ IsFiniteSet(Bills)  BY DepositAssumption
<1>3. IsFiniteSet(Details(x)) /\ IsFiniteSet(Details(w))  BY <1>1, <1>2, FS_Subset
<1>4. /\ Cardinality(Details(x)) \in Nat /\ Cardinality(Details(w)) \in Nat
      /\ Cardinality(Details(w)) <= Cardinality(Details(x))
  BY <1>1, <1>3, FS_CardinalityType, FS_Subset
<1>. DEFINE Before(b) == {d \in Details(x) : d < b}
<1>5. \A b : /\ IsFiniteSet(Before(b)) /\ Cardinality(Before(b)) \in Nat
  BY <1>3, FS_Subset, FS_CardinalityType
<1>6. ASSUME NEW b \in todo PROVE Cardinality(Before(b)) >= Cardinality(Details(w))
  <2>1. Details(w) \subseteq Before(b)  BY <1>1 DEF Rest
  <2>2. Cardinality(Details(w)) <= Cardinality(Before(b))
    <3>1. IsFiniteSet(Before(b))  BY <1>5
    <3>. HIDE DEF Before
    <3>. QED  BY <2>1, <3>1, FS_Subset
  <2>. QED  BY <1>4, <1>5, <2>2
<1>7. ASSUME NEW b \in Details(w) PROVE ~(Cardinality(Before(b)) >= Cardinality(Details(w)))
  <2>1. b \in Nat /\ Before(b) \subseteq Details(w) /\ b \notin Before(b)
    <3>1. ASSUME NEW d \in Before(b) PROVE d \notin todo
      <4>1. d \in Nat /\ b \in Nat /\ d < b  BY <1>1, <1>2
      <4>2. d \in todo => b < d  BY <1>1 DEF Rest
      <4>. QED  BY <4>1, <4>2
    <3>2. b \in Nat  BY <1>1, <1>2
    <3>3. Before(b) \subseteq Details(w)  BY <1>1, <3>1
    <3>4. b \notin Before(b)  BY <3>2
    <3>. QED  BY <3>2, <3>3, <3>4
  <2>2. Before(b) # Details(w)  BY <2>1
  <2>3. Cardinality(Before(b)) <= Cardinality(Details(w))
        /\ (Cardinality(Before(b)) = Cardinality(Details(w)) => Before(b) = Details(w))
    <3>. HIDE DEF Before
    <3>. QED  BY <1>3, <2>1, FS_Subset
  <2>. QED  BY <1>4, <1>5, <2>2, <2>3
<1>8. Missing(x, Cardinality(Details(w))) =
        {b \in Details(x) : Cardinality(Before(b)) >= Cardinality(Details(w))}
  BY DEF Missing
<1>. HIDE DEF Before
<1>. QED  BY <1>1, <1>4, <1>6, <1>7, <1>8

LEMMA RecoverAppendInv ==
    ASSUME IInv, NEW c \in Cashes, RecoverAppend(c)
    PROVE  IInv'
<1>. USE DEF IInv
<1>. SUFFICES ASSUME NEW k, k = Cardinality(Details(last[1].bills)),
                     NEW less, less = (Cardinality(Details(TempDeposit(c))) < k),
                     NEW todo, todo = IF less THEN {} ELSE Missing(TempDeposit(c), k)
              PROVE  IInv'
  OBVIOUS
<1>1. /\ phase = "recover" /\ job = NoJob /\ c \in left /\ header[c] # NoTime
      /\ last # <<>> /\ last[1].cash \in left => c = last[1].cash
      /\ last # <<>> /\ header[c] = last[1].open
      /\ job' = [pc |-> IF todo = {} THEN "clearHeader" ELSE "details",
                 from |-> c, open |-> header[c], bills |-> TempDeposit(c),
                 todo |-> todo, append |-> TRUE,
                 clear |-> IF less THEN last[1].cash ELSE LastDeposit.cash]
      /\ UNCHANGED <<header, details, deposits, stacked, pending, dropped, session,
                     saveDeposit, lastNumber, total, left, phase, last, audited, opened, crashes>>
  BY DEF RecoverAppend, Turn, StoredBefore, disk, device
<1>2. job.pc = "none"  BY <1>1 DEF NoJob
<1>3. /\ TempDeposit(c) = Cur(c) /\ header[c] = opened[c] /\ opened[c] \in Times
      /\ Cur(c) \in [Bills -> Nat] /\ Cur(c) # NoBills
  BY <1>1, RecoveredBills
<1>4. c = last[1].cash
  <2>1. PICK i \in DOMAIN deposits : Of(i, last[1].cash, last[1].open)
    BY <1>1 DEF Lasts, InDisk, Of
  <2>. QED  BY <1>1, <1>3, <2>1 DEF Clock, Of
<1>5. /\ last[1] = LastDeposit /\ Of(Len(deposits), c, opened[c])
      /\ Doubtful(Len(deposits)) /\ LastDeposit \in Deposits
  <2>1. last[1] = LastDeposit  BY <1>1, <1>2, <1>4 DEF Lasts
  <2>2. deposits # <<>>  BY <1>1 DEF Lasts, InDisk, Of
  <2>3. Len(deposits) \in DOMAIN deposits /\ LastDeposit \in Deposits
    BY <2>2, DepositsFacts DEF LastDeposit
  <2>. QED  BY <1>1, <1>3, <1>4, <2>1, <2>3 DEF LastDeposit, Of, Doubtful
<1>6. \E rest \in SUBSET Bills : Rest(rest, Cur(c), LastDeposit.bills)
  <2>1. Partial(Len(deposits))  BY <1>5 DEF Stores, Of
  <2>. QED  BY <1>5, <2>1 DEF Partial, LastDeposit, Of
<1>7. ~less /\ Rest(todo, Cur(c), LastDeposit.bills)
  <2>. SUFFICES ASSUME NEW w, w = LastDeposit.bills, NEW x, x = Cur(c)
                PROVE  ~less /\ Rest(todo, x, w)
    OBVIOUS
  <2>1. w \in [Bills -> Nat] /\ x \in [Bills -> Nat]  BY <1>3, <1>5 DEF Deposits
  <2>2. PICK rest : Rest(rest, x, w)  BY <1>6
  <2>3. Missing(x, Cardinality(Details(w))) = rest
        /\ ~(Cardinality(Details(x)) < Cardinality(Details(w)))
    BY ONLY <2>1, <2>2, MissingFacts
  <2>4. k = Cardinality(Details(w))  BY <1>5
  <2>5. ~less  BY <1>3, <2>3, <2>4
  <2>6. todo = rest  BY <1>3, <2>3, <2>4, <2>5
  <2>. QED  BY <2>2, <2>5, <2>6
<1>8. /\ job' = [pc |-> IF todo = {} THEN "clearHeader" ELSE "details", from |-> c,
                 open |-> opened[c], bills |-> Cur(c), todo |-> todo, append |-> TRUE,
                 clear |-> c]
      /\ todo \subseteq Bills
      /\ todo = {} => LastDeposit.bills = Cur(c)
  <2>1. LastDeposit.cash = c  BY <1>5 DEF Of, LastDeposit
  <2>2. todo \subseteq Bills  BY <1>7 DEF Rest, Details
  <2>3. ASSUME todo = {} PROVE LastDeposit.bills = Cur(c)
    <3>1. \A b \in Bills : LastDeposit.bills[b] = Cur(c)[b]  BY <1>7, <2>3 DEF Rest
    <3>2. LastDeposit.bills \in [Bills -> Nat]  BY <1>5 DEF Deposits
    <3>. QED  BY <1>3, <3>1, <3>2
  <2>. QED  BY <1>1, <1>3, <1>7, <2>1, <2>2, <2>3
<1>9. /\ job' \in Jobs /\ job'.pc \in {"clearHeader", "details"} /\ job'.from = c
      /\ job'.append = TRUE
  <2>1. job' \in Jobs  BY <1>3, <1>8 DEF Jobs
  <2>. QED  BY <1>8, <2>1
<1>10. \A d \in Cashes : /\ ~InSession(d) /\ ~InSession(d)'
                         /\ ~Busy(d) /\ (Busy(d)' <=> d = c)
                         /\ Cur(d)' = Cur(d)
  BY <1>1, <1>2, <1>9 DEF InSession, Busy, Cur, Phases
<1>11. Types'  BY <1>1, <1>9 DEF Types
<1>12. Phases'  BY <1>1, <1>9, <1>10 DEF Phases
<1>13. Clock' /\ Counted'  BY <1>1, SameClock DEF Counted, Cur, Qty
<1>14. Sessions'  BY <1>1, <1>10 DEF Sessions
<1>15. Temps'  BY <1>1, <1>2, <1>10 DEF Temps
<1>16. JobOK'
  <2>1. Of(Len(deposits), job.from, job.open)'  BY <1>1, <1>5, <1>8 DEF Of
  <2>2. /\ job'.open = opened'[job'.from] /\ job'.clear = job'.from
        /\ job'.bills = Cur(job.from)' /\ job'.bills # NoBills /\ ~InSession(job.from)'
        /\ header'[job'.from] = job'.open
    BY <1>1, <1>3, <1>8, <1>10 DEF Cur, InSession
  <2>3. todo # {} => Rest(job.todo, job.bills, LastDeposit.bills)'
    BY <1>1, <1>7, <1>8 DEF Rest, Details, LastDeposit
  <2>4. todo = {} => LastDeposit'.bills = job'.bills
    BY <1>1, <1>8 DEF LastDeposit
  <2>5. job'.pc = (IF todo = {} THEN "clearHeader" ELSE "details") /\ job'.todo = todo
    BY <1>8
  <2>. QED  BY <2>1, <2>2, <2>3, <2>4, <2>5 DEF JobOK
<1>17. Stores'  BY <1>1, AllSameStores
<1>18. Lasts'  BY <1>1, <1>4, <1>9, SameDeposits DEF Lasts
<1>19. Accounted'  BY <1>1, SameDeposits DEF Accounted
<1>20. Totals'  BY <1>1, <1>2, <1>9, SameTotals DEF Writing
<1>. QED
  BY <1>11, <1>12, <1>13, <1>14, <1>15, <1>16, <1>17, <1>18, <1>19, <1>20

LEMMA StutterInv ==
    ASSUME IInv, UNCHANGED vars
    PROVE  IInv'
<1>. USE DEF IInv, vars, disk, device, memory
<1>1. Types' /\ Phases' /\ Clock' /\ Counted'
  BY DEF Types, Phases, Clock, Counted, InSession, Busy, Cur, Qty
<1>2. Sessions' /\ Temps'
  BY DEF Sessions, Temps, InSession, Busy, Cur, InDisk, Of
<1>3. JobOK'  BY DEF JobOK, InSession, Cur, InDisk, Of, Writing, Rest, Details, LastDeposit
<1>4. Stores'  BY AllSameStores
<1>5. Lasts' /\ Accounted'  BY DEF Lasts, Accounted, InDisk, Of, Doubtful, LastDeposit
<1>6. Totals'  BY DEF Totals, Writing, StoredTotal, InDeposits, LastDeposit
<1>. QED  BY <1>1, <1>2, <1>3, <1>4, <1>5, <1>6

-----------------------------------------------------------------------------
(* The state of the drops as the code should leave it holds wherever the     *)
(* power fails, but for the two flaws the hypotheses exclude.                *)
THEOREM Invariance ==
    ASSUME ~CutAgain, ~SameSecond
    PROVE  Spec => []IInv
<1>1. Init => IInv  BY InitInv
<1>2. IInv /\ [Next]_vars => IInv'
  <2>. SUFFICES ASSUME IInv, [Next]_vars PROVE IInv'  OBVIOUS
  <2>1. ASSUME NEW c \in Cashes, Live(c) PROVE IInv'
    BY <2>1, NewDepositInv, StackBillInv, AddDepositInv, SaveDetailInv, EndDepositInv DEF Live
  <2>2. ASSUME Job PROVE IInv'
    BY <2>2, StoreInv, StoreDetailsInv, ClearHeaderInv, ClearDetailsInv, ProcessInv DEF Job
  <2>3. ASSUME Recovery PROVE IInv'
    BY <2>3, BootInv, RecoveredInv, RecoverNothingInv, RecoverStoreInv, RecoverAppendInv
       DEF Recovery
  <2>4. ASSUME Crash PROVE IInv'  BY <2>4, CrashInv
  <2>5. ASSUME UNCHANGED vars PROVE IInv'  BY <2>5, StutterInv
  <2>. QED  BY <2>1, <2>2, <2>3, <2>4, <2>5 DEF Next
<1>. QED  BY <1>1, <1>2, PTL DEF Spec

LEMMA StoredFacts ==
    ASSUME IInv, NEW c \in Cashes, NEW t \in Times
    PROVE  /\ ~InDisk(c, t) => Stored(c, t) = NoBills
           /\ \A i : Of(i, c, t) => /\ Stored(c, t) = deposits[i].bills
                                    /\ i \in DOMAIN deposits /\ deposits[i] \in Deposits
<1>. USE DEF IInv
<1>1. ASSUME ~InDisk(c, t) PROVE Stored(c, t) = NoBills
  <2>1. DepositsOf(c, t) = {}  BY <1>1 DEF DepositsOf, InDisk, Of
  <2>2. \A b \in Bills : SumOver({}, InDeposits(b)) = 0  BY SumEmpty
  <2>. QED  BY <2>1, <2>2 DEF Stored, NoBills
<1>2. ASSUME NEW i, Of(i, c, t)
      PROVE  /\ Stored(c, t) = deposits[i].bills
             /\ i \in DOMAIN deposits /\ deposits[i] \in Deposits
  <2>1. i \in DOMAIN deposits /\ deposits[i] \in Deposits  BY <1>2, DepositsFacts DEF Of
  <2>2. DepositsOf(c, t) = {i}  BY <1>2 DEF DepositsOf, Of, Stores, Once
  <2>3. ASSUME NEW b \in Bills PROVE SumOver({i}, InDeposits(b)) = deposits[i].bills[b]
    <3>1. InDeposits(b)[i] = deposits[i].bills[b] /\ deposits[i].bills[b] \in Nat
      BY <2>1 DEF InDeposits, Deposits
    <3>. QED  BY <3>1, SumOne
  <2>4. deposits[i].bills \in [Bills -> Nat]  BY <2>1 DEF Deposits
  <2>. QED  BY <2>1, <2>2, <2>3, <2>4 DEF Stored
<1>. QED  BY <1>1, <1>2

(* What is in doubt is part of the drop; what is not is all of it. *)
LEMMA StoredBills ==
    ASSUME IInv, NEW c \in Cashes, NEW t \in Times, InDisk(c, t)
    PROVE  /\ header[c] # t => Stored(c, t) = dropped[c][t]
           /\ header[c] = t => \A b \in Bills : Stored(c, t)[b] <= dropped[c][t][b]
<1>. USE DEF IInv
<1>1. PICK i : Of(i, c, t)  BY DEF InDisk
<1>2. /\ Stored(c, t) = deposits[i].bills /\ i \in DOMAIN deposits
      /\ deposits[i].cash = c /\ deposits[i].open = t
  BY <1>1, StoredFacts DEF Of
<1>3. ASSUME header[c] # t PROVE Stored(c, t) = dropped[c][t]
  <2>1. Whole(i)  BY <1>2, <1>3 DEF Stores, Doubtful
  <2>. QED  BY <1>2, <2>1 DEF Whole
<1>4. ASSUME header[c] = t, NEW b \in Bills PROVE Stored(c, t)[b] <= dropped[c][t][b]
  <2>1. Partial(i) /\ t = opened[c]  BY <1>2, <1>4, TimeFacts DEF Stores, Doubtful, Temps
  <2>2. PICK todo \in SUBSET Bills : Rest(todo, Cur(c), deposits[i].bills)
    BY <1>2, <2>1 DEF Partial
  <2>3. deposits[i].bills[b] = IF b \in todo THEN 0 ELSE Cur(c)[b]  BY <2>2 DEF Rest
  <2>4. Cur(c)[b] \in Nat /\ Cur(c)[b] = dropped[c][t][b]  BY <2>1 DEF Types, Cur
  <2>. QED  BY <1>2, <2>3, <2>4
<1>. QED  BY <1>3, <1>4

(* Deposit numbers are consecutive, whatever is being stored or recovered:   *)
(* the last number is what the store holds, less the deposit being written.  *)
THEOREM NumbersConsecutiveAlways ==
    ASSUME ~CutAgain, ~SameSecond
    PROVE  Spec => []NumbersConsecutive
<1>1. IInv => NumbersConsecutive  BY DEF IInv, Stores, Numbered, NumbersConsecutive
<1>. QED  BY <1>1, Invariance, PTL

(* Whenever no deposit is being ended, the contents of the extraction are    *)
(* those of the stored deposits.                                             *)
THEOREM TotalsMatchAlways ==
    ASSUME ~CutAgain, ~SameSecond
    PROVE  Spec => []TotalsMatch
<1>1. ASSUME IInv PROVE TotalsMatch
  <2>. SUFFICES ASSUME phase = "up", job = NoJob PROVE total = StoredTotal
    BY DEF TotalsMatch
  <2>1. ~Writing  BY DEF Writing, NoJob
  <2>2. total \in [Bills -> Nat] /\ StoredTotal \in [Bills -> Nat]
    BY <1>1, StoredTotalType DEF IInv, Types
  <2>3. \A b \in Bills : StoredTotal[b] = total[b] + 0  BY <1>1, <2>1 DEF IInv, Totals
  <2>4. \A b \in Bills : StoredTotal[b] = total[b]  BY <2>2, <2>3
  <2>. QED  BY <2>2, <2>4
<1>. QED  BY <1>1, Invariance, PTL

(* No bill is entered twice and none is made up: what is stored for a drop   *)
(* never exceeds what went into the safe.                                    *)
THEOREM NothingInventedAlways ==
    ASSUME ~CutAgain, ~SameSecond
    PROVE  Spec => []NothingInvented
<1>1. ASSUME IInv PROVE NothingInvented
  <2>. SUFFICES ASSUME NEW c \in Cashes, NEW t \in Times, NEW b \in Bills
                PROVE  Stored(c, t)[b] <= dropped[c][t][b]
    BY DEF NothingInvented
  <2>1. dropped[c][t][b] \in Nat  BY <1>1 DEF IInv, Types
  <2>2. CASE InDisk(c, t)
    <3>1. CASE header[c] = t  BY <1>1, <2>2, <3>1, StoredBills
    <3>2. CASE header[c] # t
      <4>1. Stored(c, t)[b] = dropped[c][t][b]  BY <1>1, <2>2, <3>2, StoredBills
      <4>. QED  BY <2>1, <4>1
    <3>. QED  BY <3>1, <3>2
  <2>3. CASE ~InDisk(c, t)
    <3>1. Stored(c, t)[b] = 0  BY <1>1, <2>3, StoredFacts DEF NoBills
    <3>. QED  BY <2>1, <3>1
  <2>. QED  BY <2>2, <2>3
<1>. QED  BY <1>1, Invariance, PTL

(* No bill is lost: once the machine is up and a drop is over, every bill of *)
(* it is stored, or its only bill was audited.                               *)
THEOREM NothingLostAlways ==
    ASSUME ~CutAgain, ~SameSecond
    PROVE  Spec => []NothingLost
<1>1. ASSUME IInv PROVE NothingLost
  <2>. SUFFICES ASSUME NEW c \in Cashes, NEW t \in Times, Closed(c, t)
                PROVE  \/ Stored(c, t) = dropped[c][t]
                       \/ <<c, t>> \in audited /\ Stored(c, t) = NoBills
    BY DEF NothingLost
  <2>. USE <1>1 DEF IInv
  <2>1. /\ phase = "up" /\ session[c].open # t
        /\ job # NoJob => ~(job.from = c /\ job.open = t)
    BY DEF Closed
  <2>2. header[c] # t
    <3>. SUFFICES ASSUME header[c] = t PROVE FALSE  OBVIOUS
    <3>1. opened[c] = t /\ (InSession(c) \/ Busy(c))  BY <2>1, TimeFacts DEF Temps
    <3>2. ~InSession(c)  BY <2>1, <3>1 DEF Sessions
    <3>3. job.pc # "none" /\ job.from = c  BY <3>1, <3>2 DEF Busy
    <3>4. job # NoJob /\ job.open = t  BY <3>1, <3>3 DEF JobOK, NoJob
    <3>. QED  BY <2>1, <3>3, <3>4
  <2>3. CASE InDisk(c, t)  BY <2>2, <2>3, StoredBills
  <2>4. CASE ~InDisk(c, t)
    <3>1. Stored(c, t) = NoBills  BY <2>4, StoredFacts
    <3>2. dropped[c][t] # NoBills => <<c, t>> \in audited
      BY <2>1, <2>2, <2>4 DEF Accounted
    <3>. QED  BY <3>1, <3>2
  <2>. QED  BY <2>3, <2>4
<1>. QED  BY <1>1, Invariance, PTL

(* A temporary deposit is completed into the last stored one only when that  *)
(* is of its own cash: the opening times, the one thing the code compares,   *)
(* then tell the drops apart.                                                *)
THEOREM MergedIntoOwnCashAlways ==
    ASSUME ~CutAgain, ~SameSecond
    PROVE  Spec => []MergedIntoOwnCash
<1>1. ASSUME IInv PROVE MergedIntoOwnCash
  <2>. SUFFICES ASSUME job # NoJob, job.append PROVE LastDeposit.cash = job.from
    BY DEF MergedIntoOwnCash
  <2>. USE <1>1 DEF IInv
  <2>1. job \in Jobs  BY DEF Types
  <2>2. job.pc # "none" /\ job.pc # "header"  BY <2>1 DEF Jobs, JobOK
  <2>3. Writing  BY <2>1, <2>2 DEF Jobs, Writing
  <2>. QED  BY <2>2, <2>3, JobFacts
<1>. QED  BY <1>1, Invariance, PTL

-----------------------------------------------------------------------------
(* The refinement of the ledger. *)
Booked(c, t) == IF InDoubt(c, t) THEN NoBills ELSE Stored(c, t)
Entered(c, t) == InDisk(c, t) /\ header[c] # t

(* A drop is in the ledger when it is stored and its temporary header gone. *)
LEMMA BookedFacts ==
    ASSUME IInv, NEW c \in Cashes, NEW t \in Times
    PROVE  Booked(c, t) = IF Entered(c, t) THEN dropped[c][t] ELSE NoBills
<1>. USE DEF IInv
<1>1. ASSUME ~InDisk(c, t) PROVE Booked(c, t) = NoBills
  BY <1>1, StoredFacts DEF Booked
<1>2. ASSUME header[c] = t PROVE Booked(c, t) = NoBills
  BY <1>2 DEF Booked, InDoubt
<1>3. ASSUME InDisk(c, t), header[c] # t PROVE Booked(c, t) = dropped[c][t]
  <2>1. Stored(c, t) = dropped[c][t]  BY <1>3, StoredBills
  <2>2. session[c].open # t  BY <1>3, TimeFacts DEF Sessions, InSession
  <2>3. ASSUME job # NoJob, job.from = c, job.open = t,
               job.pc \in {"header", "details", "clearHeader"}
        PROVE  FALSE
    BY <1>3, <2>3 DEF JobOK
  <2>4. ~InDoubt(c, t)  BY <1>3, <2>2, <2>3 DEF InDoubt
  <2>. QED  BY <2>1, <2>4 DEF Booked
<1>. QED  BY <1>1, <1>2, <1>3 DEF Entered

BookedOK == \A c \in Cashes, t \in Times :
    Booked(c, t) = IF Entered(c, t) THEN dropped[c][t] ELSE NoBills

LEMMA SameBooked ==
    ASSUME BookedOK, BookedOK', UNCHANGED dropped,
           \A c \in Cashes, t \in Times : Entered(c, t)' <=> Entered(c, t)
    PROVE  \A c \in Cashes, t \in Times : Booked(c, t)' = Booked(c, t)
BY DEF BookedOK, NoBills

(* The end of a temporary deposit's header is the only step that books. *)
LEMMA ClearHeaderBooks ==
    ASSUME IInv, BookedOK, BookedOK', clearHeader
    PROVE  \E d \in Cashes, u \in Times :
             /\ Booked(d, u) = NoBills /\ dropped[d][u] # NoBills
             /\ \A c \in Cashes, t \in Times :
                  Booked(c, t)' = IF c = d /\ t = u THEN dropped[d][u] ELSE Booked(c, t)
             /\ UNCHANGED dropped
<1>. USE DEF IInv
<1>. SUFFICES ASSUME NEW d, d = job.from, NEW u, u = job.open
              PROVE  /\ d \in Cashes /\ u \in Times
                     /\ Booked(d, u) = NoBills /\ dropped[d][u] # NoBills
                     /\ \A c \in Cashes, t \in Times :
                          Booked(c, t)' = IF c = d /\ t = u THEN dropped[d][u] ELSE Booked(c, t)
                     /\ UNCHANGED dropped
  OBVIOUS
<1>1. /\ job.pc = "clearHeader" /\ job.clear = d /\ header[d] = u /\ job.bills = Cur(d)
      /\ job.bills # NoBills /\ job.pc # "none" /\ Writing
  BY DEF clearHeader, At, JobOK, Writing
<1>2. d \in Cashes /\ u \in Times /\ u = opened[d] /\ InDisk(d, u)  BY <1>1, JobFacts
<1>3. /\ header'[d] = NoTime /\ \A c \in Cashes \ {d} : header'[c] = header[c]
      /\ UNCHANGED <<deposits, dropped>>
  BY <1>1, <1>2 DEF clearHeader, OnDisk, device, Types
<1>4. Entered(d, u)' /\ ~Entered(d, u)
  BY <1>1, <1>2, <1>3, SameDeposits, TimeFacts DEF Entered
<1>5. ASSUME NEW c \in Cashes, NEW t \in Times, ~(c = d /\ t = u)
      PROVE  Entered(c, t)' <=> Entered(c, t)
  <2>1. CASE c = d  BY <1>1, <1>3, <1>5, <2>1, SameDeposits, TimeFacts DEF Entered
  <2>2. CASE c # d  BY <1>3, <2>2, SameDeposits DEF Entered
  <2>. QED  BY <2>1, <2>2
<1>6. Booked(d, u) = NoBills /\ Booked(d, u)' = dropped[d][u]
  BY <1>2, <1>3, <1>4 DEF BookedOK
<1>7. ASSUME NEW c \in Cashes, NEW t \in Times, ~(c = d /\ t = u)
      PROVE  Booked(c, t)' = Booked(c, t)
  BY <1>3, <1>5, <1>7 DEF BookedOK, NoBills
<1>8. dropped[d][u] # NoBills  BY <1>1, <1>2 DEF Cur
<1>. QED  BY <1>2, <1>3, <1>6, <1>7, <1>8

(* A bill is only added to a drop that is not in the ledger. *)
LEMMA StackBillDrops ==
    ASSUME IInv, BookedOK, BookedOK', NEW c \in Cashes, NEW b \in Bills, StackBill(c, b)
    PROVE  \E u \in Times :
             /\ Booked(c, u) = NoBills
             /\ dropped' = [dropped EXCEPT ![c][u][b] = @ + 1]
             /\ \A d \in Cashes, t \in Times : Booked(d, t)' = Booked(d, t)
<1>. USE DEF IInv
<1>1. /\ phase = "up" /\ session[c] # NoSession
      /\ dropped' = [dropped EXCEPT ![c][session[c].open][b] = @ + 1]
      /\ UNCHANGED <<header, deposits>>
  BY DEF StackBill, disk
<1>2. InSession(c) /\ session[c].open = opened[c] /\ opened[c] \in Times /\ ~InDisk(c, opened[c])
  BY <1>1, CurType, TimeFacts DEF Sessions, InSession
<1>3. \A d \in Cashes, t \in Times : Entered(d, t)' <=> Entered(d, t)
  BY <1>1, SameDeposits DEF Entered
<1>4. ~Entered(c, opened[c])  BY <1>2 DEF Entered
<1>5. \A d \in Cashes, t \in Times : d # c \/ t # opened[c] => dropped'[d][t] = dropped[d][t]
  BY <1>1, <1>2 DEF Types
<1>6. Booked(c, opened[c]) = NoBills  BY <1>2, <1>4 DEF BookedOK
<1>7. \A d \in Cashes, t \in Times : Booked(d, t)' = Booked(d, t)
  BY <1>3, <1>4, <1>5 DEF BookedOK, NoBills
<1>. QED  BY <1>1, <1>2, <1>6, <1>7

(* Every other step leaves the ledger as it is. *)
LEMMA OthersStutter ==
    ASSUME IInv, BookedOK, BookedOK', [Next]_vars, ~clearHeader,
           \A c \in Cashes, b \in Bills : ~StackBill(c, b)
    PROVE  UNCHANGED dropped /\ \A c \in Cashes, t \in Times : Booked(c, t)' = Booked(c, t)
<1>. USE DEF IInv
<1>1. SUFFICES /\ UNCHANGED dropped
               /\ \A c \in Cashes, t \in Times : Entered(c, t)' <=> Entered(c, t)
  BY SameBooked
<1>2. ASSUME UNCHANGED <<header, deposits, dropped>>
      PROVE  /\ UNCHANGED dropped
             /\ \A c \in Cashes, t \in Times : Entered(c, t)' <=> Entered(c, t)
  BY <1>2, SameDeposits DEF Entered
<1>3. ASSUME NEW c \in Cashes, addDeposit(c)
      PROVE  /\ UNCHANGED dropped
             /\ \A d \in Cashes, t \in Times : Entered(d, t)' <=> Entered(d, t)
  <2>1. /\ phase = "up" /\ pending[c] # <<>> /\ ~saveDeposit[c]
        /\ header' = [header EXCEPT ![c] = session[c].open] /\ UNCHANGED <<deposits, dropped>>
    BY <1>3 DEF addDeposit, device
  <2>2. /\ session[c].open = opened[c] /\ ~InDisk(c, opened[c]) /\ header[c] = NoTime
    BY <2>1 DEF Sessions, Temps
  <2>3. header'[c] = opened[c] /\ \A d \in Cashes \ {c} : header'[d] = header[d]
    BY <2>1, <2>2 DEF Types
  <2>4. ASSUME NEW d \in Cashes, NEW t \in Times PROVE Entered(d, t)' <=> Entered(d, t)
    <3>1. CASE d = c  BY <2>1, <2>2, <2>3, <3>1, SameDeposits, TimeFacts DEF Entered
    <3>2. CASE d # c  BY <2>1, <2>3, <3>2, SameDeposits DEF Entered
    <3>. QED  BY <3>1, <3>2
  <2>. QED  BY <2>1, <2>4
<1>4. ASSUME store
      PROVE  /\ UNCHANGED dropped
             /\ \A d \in Cashes, t \in Times : Entered(d, t)' <=> Entered(d, t)
  <2>1. job.pc = "header" /\ header[job.from] = job.open  BY <1>4 DEF store, At, JobOK
  <2>2. UNCHANGED <<header, dropped>>  BY <1>4 DEF store, OnDisk, device
  <2>3. \A d, t : InDisk(d, t)' <=> (InDisk(d, t) \/ (d = job.from /\ t = job.open))
    BY <1>4, StoreDisk
  <2>. QED  BY <2>1, <2>2, <2>3 DEF Entered
<1>5. ASSUME storeDetails
      PROVE  /\ UNCHANGED dropped
             /\ \A d \in Cashes, t \in Times : Entered(d, t)' <=> Entered(d, t)
  <2>1. UNCHANGED <<header, dropped>>  BY <1>5 DEF storeDetails, OnDisk, device
  <2>2. \A d, t : InDisk(d, t)' <=> InDisk(d, t)  BY <1>5, StoreDetailsDisk
  <2>. QED  BY <2>1, <2>2 DEF Entered
<1>6. CASE \E c \in Cashes : Live(c)
  <2>1. PICK c \in Cashes : Live(c)  BY <1>6
  <2>2. CASE addDeposit(c)  BY <1>3, <2>2
  <2>3. CASE ~addDeposit(c)
    <3>1. (\E t \in Times : getNewDeposit(c, t)) \/ saveDepositDetail(c) \/ endDeposit(c)
      BY <2>1, <2>3 DEF Live
    <3>2. UNCHANGED <<header, deposits, dropped>>
      BY <3>1 DEF getNewDeposit, saveDepositDetail, endDeposit, disk, device
    <3>. QED  BY <1>2, <3>2
  <2>. QED  BY <2>2, <2>3
<1>7. CASE Job
  <2>1. store \/ storeDetails \/ clearDetails \/ processDeposit  BY <1>7 DEF Job
  <2>2. clearDetails \/ processDeposit => UNCHANGED <<header, deposits, dropped>>
    BY DEF clearDetails, processDeposit, OnDisk, disk, device
  <2>. QED  BY <1>2, <1>4, <1>5, <2>1, <2>2
<1>8. CASE Recovery \/ Crash \/ UNCHANGED vars
  <2>1. UNCHANGED <<header, deposits, dropped>>
    BY <1>8 DEF Recovery, Boot, Recovered, RecoverNothing, RecoverStore, RecoverAppend, Crash,
       vars, disk, device
  <2>. QED  BY <1>2, <2>1
<1>. QED  BY <1>6, <1>7, <1>8 DEF Next

(* The store of the deposits implements the ledger: a drop is booked all at  *)
(* once and once only, and no bill is added to it afterwards.                *)
THEOREM LedgerRefinement ==
    ASSUME ~CutAgain, ~SameSecond
    PROVE  Spec => ImplementsLedger
<1>. DEFINE Books == [c \in Cashes |-> [t \in Times |-> Booked(c, t)]]
<1>1. Init => Ledger!Init
  <2>. SUFFICES ASSUME Init PROVE Ledger!Init  OBVIOUS
  <2>1. DOMAIN deposits = {}  BY DEF Init
  <2>2. \A c \in Cashes, t \in Times : Booked(c, t) = NoBills
    BY <2>1, InitInv, StoredFacts DEF Booked, InDisk, Of
  <2>3. Books = [c \in Cashes |-> [t \in Times |-> NoBills]]  BY <2>2
  <2>4. dropped = [c \in Cashes |-> [t \in Times |-> NoBills]]  BY DEF Init
  <2>. QED  BY <2>3, <2>4 DEF Ledger!Init, Ledger!Empty, Ledger!NoBills, NoBills, Booked
<1>2. IInv => BookedOK  BY BookedFacts DEF BookedOK
<1>3. IInv /\ BookedOK /\ BookedOK' /\ [Next]_vars => [Ledger!Next]_<<dropped, Books>>
  <2>. SUFFICES ASSUME IInv, BookedOK, BookedOK', [Next]_vars
                PROVE  [Ledger!Next]_<<dropped, Books>>
    OBVIOUS
  <2>1. CASE clearHeader
    <3>1. PICK d \in Cashes, u \in Times :
             /\ Booked(d, u) = NoBills /\ dropped[d][u] # NoBills
             /\ \A c \in Cashes, t \in Times :
                  Booked(c, t)' = IF c = d /\ t = u THEN dropped[d][u] ELSE Booked(c, t)
             /\ UNCHANGED dropped
      BY <2>1, ClearHeaderBooks
    <3>2. Books' = [Books EXCEPT ![d][u] = dropped[d][u]]  BY <3>1
    <3>3. Ledger!Book(d, u)  BY <3>1, <3>2 DEF Ledger!Book, Ledger!NoBills, NoBills, Booked
    <3>. QED  BY <3>3 DEF Ledger!Next
  <2>2. CASE \E c \in Cashes, b \in Bills : StackBill(c, b)
    <3>1. PICK c \in Cashes, b \in Bills : StackBill(c, b)  BY <2>2
    <3>2. PICK u \in Times :
             /\ Booked(c, u) = NoBills
             /\ dropped' = [dropped EXCEPT ![c][u][b] = @ + 1]
             /\ \A d \in Cashes, t \in Times : Booked(d, t)' = Booked(d, t)
      BY <3>1, StackBillDrops
    <3>3. Books' = Books  BY <3>2
    <3>4. Ledger!Drop(c, u, b)  BY <3>2, <3>3 DEF Ledger!Drop, Ledger!NoBills, NoBills, Booked
    <3>. QED  BY <3>4 DEF Ledger!Next
  <2>3. CASE ~clearHeader /\ ~\E c \in Cashes, b \in Bills : StackBill(c, b)
    <3>1. UNCHANGED dropped /\ \A c \in Cashes, t \in Times : Booked(c, t)' = Booked(c, t)
      BY <2>3, OthersStutter
    <3>2. Books' = Books  BY <3>1
    <3>. QED  BY <3>1, <3>2
  <2>. QED  BY <2>1, <2>2, <2>3
<1>4. Books = [c \in Cashes |-> [t \in Times |-> IF InDoubt(c, t) THEN NoBills ELSE Stored(c, t)]]
  BY DEF Booked
<1>. QED  BY <1>1, <1>2, <1>3, Invariance, PTL DEF Spec, ImplementsLedger, Ledger!Spec, Booked
=============================================================================
