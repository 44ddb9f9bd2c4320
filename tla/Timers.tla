------------------------------- MODULE Timers -------------------------------
(***************************************************************************)
(* OTimer.m and ctimers.c: every timer of the program sits in one table of *)
(* slots, which a thread of its own scans. The table is read and written   *)
(* under a mutex, one operation at a time; the fields of a timer and its   *)
(* myIsActive are not protected, and each access to them is a step.        *)
(* One thread at a time starts or stops a given timer.                     *)
(***************************************************************************)
EXTENDS Naturals, FiniteSets, FiniteSetsExt

CONSTANTS
    Timers,     \* the OTimer objects
    Periodic,   \* those that are not one-shot
    MaxCtimers, \* slots of the table (MAX_CTIMERS)
    NoTimer     \* an empty slot

ASSUME TimersAssumption ==
    /\ Periodic \subseteq Timers /\ IsFiniteSet(Timers)
    /\ NoTimer \notin Timers
    /\ MaxCtimers \in Nat /\ MaxCtimers > Cardinality(Timers)

Slots == 1 .. MaxCtimers

VARIABLES
    timers,     \* the table
    expires,    \* "zero", or the time of expiry is in the "future" or "past"
    myIsActive, \* of each timer
    client,     \* where the thread that starts or stops each timer is
    thread,     \* where the timer thread is, at which slot, with which timer
    slot,
    current,
    refused     \* a start found no free slot

object == <<expires, myIsActive>>
scan == <<thread, slot, current>>
vars == <<timers, object, client, scan, refused>>

Init ==
    /\ timers = [i \in Slots |-> NoTimer]
    /\ expires = [t \in Timers |-> "zero"]
    /\ myIsActive = [t \in Timers |-> FALSE]
    /\ client = [t \in Timers |-> "idle"]
    /\ thread = "scan" /\ slot = 1 /\ current = NoTimer
    /\ refused = FALSE

-----------------------------------------------------------------------------
SlotsOf(t) == {i \in Slots : timers[i] = t}

(* Mutation: the last slot is never used. *)
get_free_slotOffByOne == {i \in Slots \ {MaxCtimers} : timers[i] = NoTimer}

get_free_slot == SlotsOf(NoTimer)

(* The table without the first slot of t. *)
del_ctimer(t) ==
    IF SlotsOf(t) = {} THEN timers ELSE [timers EXCEPT ![Min(SlotsOf(t))] = NoTimer]

Goto(t, from, to) == client[t] = from /\ client' = [client EXCEPT ![t] = to]

(* Mutation: a timer that is active is not stopped. *)
startNotStopping(t) ==
    /\ Goto(t, "idle", "init")
    /\ UNCHANGED <<timers, object, scan, refused>>

(* start: a timer that is active is stopped first. *)
start(t) ==
    /\ Goto(t, "idle", IF myIsActive[t] THEN "restart" ELSE "init")
    /\ UNCHANGED <<timers, object, scan, refused>>

stop(t) ==
    /\ Goto(t, "idle", "stop")
    /\ UNCHANGED <<timers, object, scan, refused>>

(* stop, on its own or within start: myIsActive, then the table. *)
Deactivate(t, from, to) ==
    /\ Goto(t, from, to)
    /\ myIsActive' = [myIsActive EXCEPT ![t] = FALSE]
    /\ UNCHANGED <<timers, expires, scan, refused>>

Delete(t, from, to) ==
    /\ Goto(t, from, to)
    /\ timers' = del_ctimer(t)
    /\ UNCHANGED <<object, scan, refused>>

init_ctimer(t) ==
    /\ Goto(t, "init", "set")
    /\ expires' = [expires EXCEPT ![t] = "zero"]
    /\ UNCHANGED <<timers, myIsActive, scan, refused>>

SetExpires(t) ==
    /\ Goto(t, "set", "add")
    /\ expires' = [expires EXCEPT ![t] = "future"]
    /\ UNCHANGED <<timers, myIsActive, scan, refused>>

(* add_ctimer: start does not look at its answer. *)
add_ctimer(t) ==
    /\ Goto(t, "add", "activate")
    /\ IF get_free_slot = {}
       THEN refused' = TRUE /\ UNCHANGED timers
       ELSE timers' = [timers EXCEPT ![Min(get_free_slot)] = t] /\ UNCHANGED refused
    /\ UNCHANGED <<object, scan>>

Activate(t) ==
    /\ Goto(t, "activate", "idle")
    /\ myIsActive' = [myIsActive EXCEPT ![t] = TRUE]
    /\ UNCHANGED <<timers, expires, scan, refused>>

Client(t) ==
    \/ start(t) \/ stop(t)
    \/ Deactivate(t, "restart", "restartDelete") \/ Delete(t, "restartDelete", "init")
    \/ Deactivate(t, "stop", "stopDelete") \/ Delete(t, "stopDelete", "idle")
    \/ init_ctimer(t) \/ SetExpires(t) \/ add_ctimer(t) \/ Activate(t)

-----------------------------------------------------------------------------
(* Time passes. *)
Elapse(t) ==
    /\ expires[t] = "future"
    /\ expires' = [expires EXCEPT ![t] = "past"]
    /\ UNCHANGED <<timers, myIsActive, client, scan, refused>>

(* Mutation: the scan leaves out its last slot. *)
NextSlotSkipsLast(i) == IF i >= MaxCtimers - 1 THEN 1 ELSE i + 1

NextSlot(i) == IF i = MaxCtimers THEN 1 ELSE i + 1

Due == timers[slot] # NoTimer /\ expires[timers[slot]] # "future"

(* handle_ctimers: this slot is empty or its timer has not expired. *)
Pass ==
    /\ thread = "scan" /\ ~Due
    /\ slot' = NextSlot(slot)
    /\ UNCHANGED <<timers, object, client, thread, current, refused>>

(* The timer has expired; the mutex is released. *)
Pick ==
    /\ thread = "scan" /\ Due
    /\ current' = timers[slot]
    /\ thread' = IF current' \in Periodic THEN "call" ELSE "expire"
    /\ UNCHANGED <<timers, object, client, slot, refused>>

(* expireTimer, of a timer that is not periodic. *)
Expire ==
    /\ thread = "expire" /\ thread' = "delete"
    /\ myIsActive' = [myIsActive EXCEPT ![current] = FALSE]
    /\ UNCHANGED <<timers, expires, client, slot, current, refused>>

(* Mutation: the timer that expired stays in the table. *)
ExpireDeleteForgotten ==
    /\ thread = "delete" /\ thread' = "call"
    /\ UNCHANGED <<timers, object, client, slot, current, refused>>

ExpireDelete ==
    /\ thread = "delete" /\ thread' = "call"
    /\ timers' = del_ctimer(current)
    /\ UNCHANGED <<object, client, slot, current, refused>>

(* The callback of the owner. *)
Call ==
    /\ thread = "call" /\ thread' = "called"
    /\ UNCHANGED <<timers, object, client, slot, current, refused>>

(* Mutation: the code of 13/06/2007 that handle_ctimers keeps in a comment.  *)
ReturnResetting ==
    /\ thread = "called" /\ thread' = "scan"
    /\ expires' = [expires EXCEPT ![current] = IF current \in Periodic THEN "future" ELSE "zero"]
    /\ slot' = NextSlot(slot) /\ current' = NoTimer
    /\ UNCHANGED <<timers, myIsActive, client, refused>>

(* Back from the callback: a periodic timer begins another period. *)
Return ==
    /\ thread = "called" /\ thread' = "scan"
    /\ expires' = IF current \in Periodic
                  THEN [expires EXCEPT ![current] = "future"] ELSE expires
    /\ slot' = NextSlot(slot) /\ current' = NoTimer
    /\ UNCHANGED <<timers, myIsActive, client, refused>>

handle_ctimers == Pass \/ Pick \/ Expire \/ ExpireDelete \/ Call \/ Return

Next == handle_ctimers \/ \E t \in Timers : Client(t) \/ Elapse(t)

Spec == Init /\ [][Next]_vars

(* thread_handle is a loop that never stops, and time passes. *)
Fairness == WF_vars(handle_ctimers) /\ \A t \in Timers : WF_vars(Elapse(t))
FairSpec == Spec /\ Fairness

-----------------------------------------------------------------------------
(* Every variable has its type. *)
TypeOK ==
    /\ timers \in [Slots -> Timers \cup {NoTimer}]
    /\ expires \in [Timers -> {"zero", "future", "past"}]
    /\ myIsActive \in [Timers -> BOOLEAN]
    /\ client \in [Timers -> {"idle", "restart", "restartDelete", "stop", "stopDelete",
                              "init", "set", "add", "activate"}]
    /\ thread \in {"scan", "expire", "delete", "call", "called"}
    /\ slot \in Slots /\ current \in Timers \cup {NoTimer}
    /\ refused \in BOOLEAN

(* A slot more than there are timers is enough: a timer is in two slots only *)
(* while its own expiry is between myIsActive and the table, and there is    *)
(* one such expiry at a time. add_ctimer's refusal would be a time-out that  *)
(* never comes, since start ignores it.                                      *)
NeverRefused == ~refused

(* A timer is in one slot at most, except during its own expiry; two slots   *)
(* would fire it again after it was stopped.                                 *)
OneSlot ==
    \A i, j \in Slots : i # j /\ timers[i] = timers[j] /\ timers[i] # NoTimer
                       => thread = "delete" /\ current = timers[i]

(* The thread takes no timer before its time: the expires of 0 that start    *)
(* passes through is never in the table ("me generaba que se disparara       *)
(* inmediatamente un timer luego de que expirara y en la funcion de callback *)
(* lo volvia a agregar").                                                    *)
NeverEarly ==
    [][thread = "scan" /\ thread' # "scan" => expires[timers[slot]] = "past"]_vars

(* A timer that was started fires or is stopped. *)
Fires == \A t \in Timers : SlotsOf(t) # {} ~>
            SlotsOf(t) = {} \/ (thread = "call" /\ current = t)

(* Each one-shot timer is the timer that its owner's model assumes, and one  *)
(* start arms it once: a start that slips in between the two steps of        *)
(* expireTimer takes a second slot, of which one is left.                    *)
Expiry(t) ==
    CASE current = t /\ thread \in {"expire", "delete"} -> "picked"
      [] current = t /\ thread = "call"                 -> "calling"
      [] OTHER                                          -> "none"

Abstract == INSTANCE OneShotTimers WITH
    OneShot <- Timers \ Periodic,
    starting <- [t \in Timers \ Periodic |->
                   client[t] \in {"restart", "restartDelete", "init", "set", "add"}],
    armed <- [t \in Timers \ Periodic |-> SlotsOf(t) # {}],
    expiry <- [t \in Timers \ Periodic |-> Expiry(t)],
    again <- [t \in Timers \ Periodic |->
                thread = "delete" /\ current = t /\ Cardinality(SlotsOf(t)) > 1]

ImplementsOneShot == Abstract!Spec
=============================================================================
