---------------------------- MODULE OneShotTimers ----------------------------
(***************************************************************************)
(* What the owners of one-shot OTimers may rely on, and no more. Each is   *)
(* the timer of ExtractionWorkflow and InnerOuterDoors: an expiry that has *)
(* been picked is not revoked by stopping or starting the timer, and takes *)
(* the starts that came before it with it. One start arms a timer once.    *)
(***************************************************************************)
CONSTANT OneShot    \* the timers

VARIABLES
    starting,   \* its owner has called start
    armed,      \* the timer is counting
    expiry,     \* what the timer thread is doing with it
    again       \* the start after the pick counts as one after the expiry

Init ==
    /\ starting = [t \in OneShot |-> FALSE]
    /\ armed = [t \in OneShot |-> FALSE]
    /\ expiry = [t \in OneShot |-> "none"]
    /\ again = [t \in OneShot |-> FALSE]

Owner(t, b) == starting' = [starting EXCEPT ![t] = b]
Arm(t, b, c) == armed' = [armed EXCEPT ![t] = b] /\ again' = [again EXCEPT ![t] = c]
Move(t, from, to) == expiry[t] = from /\ expiry' = [expiry EXCEPT ![t] = to]

(* The owner calls start, which takes effect some time later. *)
CallStart(t) == ~starting[t] /\ Owner(t, TRUE) /\ UNCHANGED <<armed, expiry, again>>

Start(t) ==
    /\ starting[t] /\ Owner(t, FALSE) /\ UNCHANGED expiry
    /\ \E c \in BOOLEAN : Arm(t, TRUE, c) /\ (c => expiry[t] = "picked")

(* Once the timer is picked only its expiry disarms it for certain. *)
Stop(t) ==
    /\ \E b \in BOOLEAN : Arm(t, b, FALSE) /\ (b => expiry[t] = "picked" /\ armed[t])
    /\ UNCHANGED <<starting, expiry>>

Pick(t) == armed[t] /\ Move(t, "none", "picked") /\ UNCHANGED <<starting, armed, again>>

Expire(t) == Move(t, "picked", "calling") /\ Arm(t, again[t], FALSE) /\ UNCHANGED starting

Call(t) == Move(t, "calling", "none") /\ UNCHANGED <<starting, armed, again>>

Next ==
    \E t \in OneShot :
      CallStart(t) \/ Start(t) \/ Stop(t) \/ Pick(t) \/ Expire(t) \/ Call(t)

Spec == Init /\ [][Next]_<<starting, armed, expiry, again>>
=============================================================================
