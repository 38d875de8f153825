------------------------------ MODULE KitScript ------------------------------
(***************************************************************************)
(* A script that makes one call of the kit after the other, and what it    *)
(* sees of each.  KitCalls and KitDialogs are the two kinds of call.       *)
(***************************************************************************)
EXTENDS KitValues

VARIABLES
    call,       \* the call being made, [op, argv], or none
    pc,         \* where it is; "idle" between calls
    promise,    \* "none", "pending", "settled"; "dropped" when JavaScript never got it
    seen        \* what JavaScript saw, in order

NoCall == [op |-> "none", argv |-> <<>>]

Idle == call = NoCall /\ pc = "idle" /\ promise = "none" /\ seen = <<>>

Invoke(calls, at) ==
    /\ pc = "idle"
    /\ call' \in calls /\ pc' = at
    /\ UNCHANGED <<promise, seen>>

GiveBack(at) ==
    /\ pc = at
    /\ call' = NoCall /\ pc' = "idle" /\ promise' = "none" /\ seen' = <<>>

\* What JavaScript sees: how it is told, with an error (or none) and a value.
See(how, err, value) == seen' = Append(seen, [how |-> how, err |-> err, value |-> value])
=============================================================================
