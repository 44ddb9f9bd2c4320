--------------------------- MODULE DepositRecovery ---------------------------
(***************************************************************************)
(* Automatic drops and the power: every bill goes first to a temporary     *)
(* deposit on disk (TempDepositDAO), the end of the drop moves it to the   *)
(* deposits (DepositManager.endDeposit), and a restart finishes whatever a *)
(* power cut left half done (recoverDeposits). Each record written or file *)
(* emptied is a step, and the power may fail between any two.              *)
(* The details of a drop are kept by denomination and in order of          *)
(* denomination (Deposit.addDepositDetail), so they are a function of the  *)
(* denomination here; a detail exists when its quantity is not 0.          *)
(* One cash has one validator and one currency; deposits are ended one at  *)
(* a time.                                                                 *)
(***************************************************************************)
EXTENDS Naturals, Sequences, FiniteSets, FiniteSetsExt

CONSTANTS
    Cashes,         \* the cashes of the safe
    Bills,          \* denominations
    MaxTime,        \* bound: drops are opened at times 1 .. MaxTime
    MaxBills,       \* bound: bills of one drop
    MaxCrashes,     \* bound: power cuts
    CutAgain,       \* may the power fail after a cut between the two deletions?
    SameSecond      \* may drops of two cashes be opened in the same second?

ASSUME DepositAssumption ==
    /\ Bills \subseteq Nat /\ IsFiniteSet(Bills)
    /\ MaxTime \in Nat /\ MaxBills \in Nat /\ MaxCrashes \in Nat
    /\ CutAgain \in BOOLEAN /\ SameSecond \in BOOLEAN

Times == 1 .. MaxTime
NoTime == 0
NoBills == [b \in Bills |-> 0]

VARIABLES
    header,     \* disk: opening time of each cash's temporary deposit
    details,    \* disk: details of each cash's temporary deposit
    deposits,   \* disk: the stored deposits
    stacked,    \* validator: bills stacked since the drop began, and the last one
    pending,    \* bills stacked whose event has not been handled
    session,    \* memory: the open deposit of each cash
    saveDeposit,\* memory: the header of the temporary deposit has been saved
    lastNumber, \* memory: number of the last deposit
    total,      \* memory: contents of the current extraction
    job,        \* memory: the endDeposit or recovery in progress
    left,       \* memory: cashes still to be recovered; phase of the machine
    phase,
    last,       \* memory: the last deposit as recoverDeposits found it
    dropped,    \* bills that went into the safe, by cash and opening time
    audited,    \* drops whose only bill was audited as stacked without drop
    opened,     \* opening time of the last drop of each cash
    crashes     \* power cuts so far

disk == <<header, details, deposits>>
device == <<stacked, pending, dropped>>
memory == <<session, saveDeposit, lastNumber, total, job, left, phase, last>>
vars == <<disk, device, memory, audited, opened, crashes>>

-----------------------------------------------------------------------------
Deposits == [number: Nat, cash: Cashes, open: Times, bills: [Bills -> Nat]]
Jobs == [pc: {"header", "details", "clearHeader", "clearDetails", "process"},
         from: Cashes, open: Times, bills: [Bills -> Nat], todo: SUBSET Bills,
         append: BOOLEAN, clear: Cashes]
NoJob == [pc |-> "none"]
NoSession == [open |-> NoTime, bills |-> NoBills]

Plus(x, y) == [b \in Bills |-> x[b] + y[b]]
Details(x) == {b \in Bills : x[b] # 0}

(* The sum of f over S, by counting its units. *)
Units(S, f) == UNION {{x} \X (1 .. f[x]) : x \in S}
SumOver(S, f) == Cardinality(Units(S, f))

Qty(x) == SumOver(Bills, x)
InDeposits(b) == [i \in DOMAIN deposits |-> deposits[i].bills[b]]
StoredTotal == [b \in Bills |-> SumOver(DOMAIN deposits, InDeposits(b))]
LastDeposit == deposits[Len(deposits)]

Init ==
    /\ header = [c \in Cashes |-> NoTime] /\ details = [c \in Cashes |-> NoBills]
    /\ deposits = <<>>
    /\ stacked = [c \in Cashes |-> [qty |-> 0, last |-> 0]]
    /\ pending = [c \in Cashes |-> <<>>]
    /\ session = [c \in Cashes |-> NoSession]
    /\ saveDeposit = [c \in Cashes |-> FALSE]
    /\ lastNumber = 0 /\ total = NoBills
    /\ job = NoJob /\ left = {} /\ phase = "up" /\ last = <<>>
    /\ dropped = [c \in Cashes |-> [t \in Times |-> NoBills]]
    /\ audited = {} /\ opened = [c \in Cashes |-> NoTime] /\ crashes = 0

-----------------------------------------------------------------------------
(* getNewDeposit: the opening time is the clock's, in seconds. *)
getNewDeposit(c, t) ==
    /\ phase = "up" /\ session[c] = NoSession /\ job = NoJob
    /\ t > opened[c]
    /\ \A d \in Cashes : IF SameSecond THEN t >= opened[d] ELSE t > opened[d]
    /\ session' = [session EXCEPT ![c] = [open |-> t, bills |-> NoBills]]
    /\ opened' = [opened EXCEPT ![c] = t]
    /\ stacked' = [stacked EXCEPT ![c] = [qty |-> 0, last |-> 0]]
    /\ UNCHANGED <<disk, pending, dropped, saveDeposit, lastNumber, total, job, left,
                   phase, last, audited, crashes>>

(* The validator stacks a bill and counts it; its event is on the way. *)
StackBill(c, b) ==
    /\ phase = "up" /\ session[c] # NoSession /\ pending[c] = <<>>
    /\ stacked[c].qty < MaxBills
    /\ stacked' = [stacked EXCEPT ![c] = [qty |-> @.qty + 1, last |-> b]]
    /\ pending' = [pending EXCEPT ![c] = <<b>>]
    /\ dropped' = [dropped EXCEPT ![c][session[c].open][b] = @ + 1]
    /\ UNCHANGED <<disk, memory, audited, opened, crashes>>

(* saveDepositDetail, first bill: the header of the temporary deposit. *)
addDeposit(c) ==
    /\ phase = "up" /\ pending[c] # <<>> /\ ~saveDeposit[c]
    /\ header' = [header EXCEPT ![c] = session[c].open]
    /\ saveDeposit' = [saveDeposit EXCEPT ![c] = TRUE]
    /\ UNCHANGED <<details, deposits, device, session, lastNumber, total, job, left,
                   phase, last, audited, opened, crashes>>

(* onBillAccepted and saveDepositDetail: the detail of this denomination is  *)
(* added or its quantity updated, in memory and on disk.                     *)
saveDepositDetail(c) ==
    LET b   == Head(pending[c])
        qty == session[c].bills[b] + 1
    IN  /\ phase = "up" /\ pending[c] # <<>> /\ saveDeposit[c]
        /\ session' = [session EXCEPT ![c].bills[b] = qty]
        /\ details' = [details EXCEPT ![c][b] = qty]
        /\ pending' = [pending EXCEPT ![c] = <<>>]
        /\ UNCHANGED <<header, deposits, stacked, dropped, saveDeposit, lastNumber, total,
                       job, left, phase, last, audited, opened, crashes>>

-----------------------------------------------------------------------------
(* What endDeposit has to do; a deposit without bills is not stored. *)
Storing(c, t, bills) ==
    IF bills = NoBills THEN NoJob
    ELSE [pc |-> "header", from |-> c, open |-> t, bills |-> bills,
          todo |-> Details(bills), append |-> FALSE, clear |-> c]

endDeposit(c) ==
    LET s == session[c] IN
    /\ phase = "up" /\ s # NoSession /\ pending[c] = <<>> /\ job = NoJob
    /\ session' = [session EXCEPT ![c] = NoSession]
    /\ job' = Storing(c, s.open, s.bills)
    /\ UNCHANGED <<disk, device, saveDeposit, lastNumber, total, left, phase, last,
                   audited, opened, crashes>>

At(pc) == job.pc = pc
OnDisk == UNCHANGED <<device, session, lastNumber, left, phase, last, audited, opened, crashes>>

(* DepositDAO.store: the deposit ... *)
store ==
    /\ At("header")
    /\ deposits' = Append(deposits, [number |-> lastNumber + 1, cash |-> job.from,
                                     open |-> job.open, bills |-> NoBills])
    /\ job' = [job EXCEPT !.pc = "details"]
    /\ UNCHANGED <<header, details, saveDeposit, total>> /\ OnDisk

(* ... and its details, one record each, in order of denomination. A         *)
(* recovery that only completes them adds each one to the extraction too.    *)
storeDetails ==
    /\ At("details") /\ job.todo # {}
    /\ LET b == Min(job.todo) IN
       /\ deposits' = [deposits EXCEPT ![Len(deposits)].bills[b] = @ + job.bills[b]]
       /\ total' = IF job.append THEN [total EXCEPT ![b] = @ + job.bills[b]] ELSE total
       /\ job' = [job EXCEPT !.todo = @ \ {b},
                             !.pc = IF job.todo = {b} THEN "clearHeader" ELSE "details"]
    /\ UNCHANGED <<header, details, saveDeposit>> /\ OnDisk

(* TempDepositDAO.clearDeposit empties two files, of the cash of the stored  *)
(* deposit.                                                                  *)
clearHeader ==
    /\ At("clearHeader")
    /\ header' = [header EXCEPT ![job.clear] = NoTime]
    /\ saveDeposit' = [saveDeposit EXCEPT ![job.clear] = FALSE]
    /\ job' = [job EXCEPT !.pc = "clearDetails"]
    /\ UNCHANGED <<details, deposits, total>> /\ OnDisk

clearDetails ==
    /\ At("clearDetails")
    /\ details' = [details EXCEPT ![job.clear] = NoBills]
    /\ job' = [job EXCEPT !.pc = "process"]
    /\ UNCHANGED <<header, deposits, saveDeposit, total>> /\ OnDisk

(* Mutation: the extraction is not told of the deposit. *)
processDepositForgotten ==
    /\ At("process")
    /\ job' = NoJob
    /\ UNCHANGED <<session, saveDeposit, total>>
    /\ lastNumber' = IF job.append THEN lastNumber ELSE LastDeposit.number
    /\ left' = left \ {job.from}
    /\ UNCHANGED <<disk, device, phase, last, audited, opened, crashes>>

(* Mutation: the number of the deposit is not taken. *)
processDepositSameNumber ==
    /\ At("process")
    /\ job' = NoJob
    /\ total' = IF job.append THEN total ELSE Plus(total, job.bills)
    /\ left' = left \ {job.from}
    /\ UNCHANGED <<disk, device, session, saveDeposit, lastNumber, phase, last, audited,
                   opened, crashes>>

(* ExtractionManager.processDeposit, and the number is taken. *)
processDeposit ==
    /\ At("process")
    /\ job' = NoJob
    /\ total' = IF job.append THEN total ELSE Plus(total, job.bills)
    /\ lastNumber' = IF job.append THEN lastNumber ELSE LastDeposit.number
    /\ left' = left \ {job.from}
    /\ UNCHANGED <<disk, device, session, saveDeposit, phase, last, audited, opened, crashes>>

-----------------------------------------------------------------------------
(* The power fails; the disk and the validator's count survive. Without      *)
(* CutAgain a cut between the two deletions of clearDeposit is the last one. *)
Crash ==
    /\ phase # "down" /\ crashes < MaxCrashes
    /\ phase' = "down"
    /\ crashes' = IF job.pc = "clearDetails" /\ ~CutAgain THEN MaxCrashes ELSE crashes + 1
    /\ pending' = [c \in Cashes |-> <<>>]
    /\ session' = [c \in Cashes |-> NoSession]
    /\ saveDeposit' = [c \in Cashes |-> FALSE]
    /\ job' = NoJob /\ left' = {} /\ last' = <<>>
    /\ UNCHANGED <<disk, stacked, dropped, lastNumber, total, audited, opened>>

(* DepositManager.initialize and ExtractionManager.loadExtractions. *)
Boot ==
    /\ phase = "down" /\ phase' = "recover"
    /\ lastNumber' = IF deposits = <<>> THEN 0 ELSE LastDeposit.number
    /\ total' = StoredTotal
    /\ left' = Cashes
    /\ last' = IF deposits = <<>> THEN <<>> ELSE <<LastDeposit>>
    /\ UNCHANGED <<disk, device, session, saveDeposit, job, audited, opened, crashes>>

(* Mutation: the cashes are taken in any order. *)
TurnAnyOrder(c) == phase = "recover" /\ job = NoJob /\ c \in left

(* recoverDeposits takes the cash of the last deposit first. *)
Turn(c) ==
    /\ phase = "recover" /\ job = NoJob /\ c \in left
    /\ last # <<>> /\ last[1].cash \in left => c = last[1].cash

(* No temporary deposit: a bill the validator counts is only audited. *)
RecoverNothing(c) ==
    /\ Turn(c) /\ header[c] = NoTime
    /\ left' = left \ {c}
    /\ audited' = IF stacked[c].qty > 0 THEN audited \cup {<<c, opened[c]>>} ELSE audited
    /\ UNCHANGED <<disk, device, session, saveDeposit, lastNumber, total, job, phase, last,
                   opened, crashes>>

(* Mutation: the bill the validator counted is not added. *)
TempDepositAsSaved(c) == details[c]

(* The temporary deposit, with the bill whose event the power cut swallowed. *)
TempDeposit(c) ==
    IF stacked[c].qty > 0 /\ Qty(details[c]) < stacked[c].qty
    THEN [details[c] EXCEPT ![stacked[c].last] = @ + 1] ELSE details[c]

(* Mutation: the temporary deposit is always stored as a new one. *)
StoredBeforeNever(c) == FALSE

(* The last deposit is the one this temporary deposit was going to: only     *)
(* the opening times are compared.                                           *)
StoredBefore(c) == last # <<>> /\ header[c] = last[1].open

RecoverStore(c) ==
    /\ Turn(c) /\ header[c] # NoTime /\ ~StoredBefore(c)
    /\ job' = Storing(c, header[c], TempDeposit(c))
    /\ left' = IF job' = NoJob THEN left \ {c} ELSE left
    /\ UNCHANGED <<disk, device, session, saveDeposit, lastNumber, total, phase, last,
                   audited, opened, crashes>>

(* Mutation: the first missing detail is skipped. *)
MissingOffByOne(temp, n) == {b \in Details(temp) : Cardinality({d \in Details(temp) : d < b}) > n}

(* The details from position n on. *)
Missing(temp, n) == {b \in Details(temp) : Cardinality({d \in Details(temp) : d < b}) >= n}

(* The deposit exists: only its missing details are written. *)
RecoverAppend(c) ==
    /\ Turn(c) /\ header[c] # NoTime /\ StoredBefore(c)
    /\ LET temp == TempDeposit(c)
           n    == Cardinality(Details(last[1].bills))
           less == Cardinality(Details(temp)) < n
           todo == IF less THEN {} ELSE Missing(temp, n)
       IN  job' = [pc |-> IF todo = {} THEN "clearHeader" ELSE "details",
                   from |-> c, open |-> header[c], bills |-> temp,
                   todo |-> todo, append |-> TRUE,
                   clear |-> IF less THEN last[1].cash ELSE LastDeposit.cash]
    /\ UNCHANGED <<disk, device, session, saveDeposit, lastNumber, total, left, phase, last,
                   audited, opened, crashes>>

Recovered ==
    /\ phase = "recover" /\ left = {} /\ job = NoJob
    /\ phase' = "up"
    /\ UNCHANGED <<disk, device, session, saveDeposit, lastNumber, total, job, left, last,
                   audited, opened, crashes>>

-----------------------------------------------------------------------------
Live(c) ==
    \/ \E t \in Times : getNewDeposit(c, t)
    \/ \E b \in Bills : StackBill(c, b)
    \/ addDeposit(c) \/ saveDepositDetail(c) \/ endDeposit(c)

Job == store \/ storeDetails \/ clearHeader \/ clearDetails \/ processDeposit

Recovery ==
    \/ Boot \/ Recovered
    \/ \E c \in Cashes : RecoverNothing(c) \/ RecoverStore(c) \/ RecoverAppend(c)

Next == (\E c \in Cashes : Live(c)) \/ Job \/ Recovery \/ Crash

Spec == Init /\ [][Next]_vars

-----------------------------------------------------------------------------
(* Every variable has its type. *)
TypeOK ==
    /\ header \in [Cashes -> Times \cup {NoTime}]
    /\ details \in [Cashes -> [Bills -> Nat]]
    /\ deposits \in Seq(Deposits)
    /\ \A c \in Cashes : stacked[c].qty \in 0 .. MaxBills /\ Len(pending[c]) <= 1
    /\ \A c \in Cashes : session[c].open \in Times \cup {NoTime}
    /\ saveDeposit \in [Cashes -> BOOLEAN]
    /\ lastNumber \in Nat /\ total \in [Bills -> Nat]
    /\ job # NoJob => job \in Jobs
    /\ left \subseteq Cashes /\ phase \in {"up", "down", "recover"}
    /\ audited \subseteq Cashes \X Times /\ crashes \in 0 .. MaxCrashes

(* The bills stored for the drop of cash c opened at t. *)
DepositsOf(c, t) == {i \in DOMAIN deposits : deposits[i].cash = c /\ deposits[i].open = t}
Stored(c, t) == [b \in Bills |-> SumOver(DepositsOf(c, t), InDeposits(b))]

(* The drop is over: nothing in memory or in progress will change it. *)
Closed(c, t) ==
    /\ phase = "up" /\ session[c].open # t
    /\ job # NoJob => ~(job.from = c /\ job.open = t)

(* No bill is entered twice and none is made up: what is stored for a drop   *)
(* never exceeds what went into the safe, wherever the power failed, during  *)
(* a recovery too ("Elimino el deposito temporal").                          *)
NothingInvented ==
    \A c \in Cashes, t \in Times, b \in Bills : Stored(c, t)[b] <= dropped[c][t][b]

(* No bill is lost: once the machine is up and the drop is over, every bill  *)
(* of it is stored, the one whose event the power cut swallowed included; a  *)
(* first bill that had no temporary deposit yet is audited.                  *)
NothingLost ==
    \A c \in Cashes, t \in Times : Closed(c, t) =>
      \/ Stored(c, t) = dropped[c][t]
      \/ <<c, t>> \in audited /\ Stored(c, t) = NoBills

(* The contents of the current extraction are those of the stored deposits   *)
(* whenever no deposit is being ended.                                       *)
TotalsMatch == phase = "up" /\ job = NoJob => total = StoredTotal

(* Deposit numbers are consecutive: no crash repeats or skips one. *)
NumbersConsecutive == \A i \in DOMAIN deposits : deposits[i].number = i

(* "Si difiere la fecha/hora del ultimo deposito y el cash": a temporary     *)
(* deposit is merged into the last deposit only when that is of its cash.    *)
MergedIntoOwnCash == job # NoJob /\ job.append => LastDeposit.cash = job.from

(* The store implements the ledger: a drop is booked when its temporary      *)
(* header is gone, all at once and once only.                                *)
InDoubt(c, t) ==
    \/ header[c] = t
    \/ session[c].open = t
    \/ job # NoJob /\ ~job.append /\ job.from = c /\ job.open = t
         /\ job.pc \in {"header", "details", "clearHeader"}

Ledger == INSTANCE DepositLedger WITH
    booked <- [c \in Cashes |-> [t \in Times |-> IF InDoubt(c, t) THEN NoBills ELSE Stored(c, t)]]

ImplementsLedger == Ledger!Spec
=============================================================================
