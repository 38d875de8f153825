------------------------------ MODULE UkeyCall ------------------------------
(***************************************************************************)
(* What opening a UKey PIN dialog promises its caller (cert_manager_api.h, *)
(* CmOpenUkeyAuthDialog): the call returns an error, and that is all; or   *)
(* it is accepted, and the callback is invoked exactly once, which may be  *)
(* before the call returns.                                                *)
(*                                                                         *)
(* One call does less: when the service died under it, it returns an error *)
(* and its callback is invoked nevertheless if that had begun before, and  *)
(* then at any time, also after the error.  The API says nothing of that.  *)
(***************************************************************************)
CONSTANT Calls

VARIABLES
    returned,       \* "no", or "accepted", "refused" or "failed"
    started,        \* calls with a result that is on its way to the callback
    answered,       \* calls whose callback was invoked
    lost            \* calls of processes that are gone

vars == <<returned, started, answered, lost>>

Init ==
    /\ returned = [call \in Calls |-> "no"]
    /\ started = {}
    /\ answered = {}
    /\ lost = {}

Return(call, how) ==
    /\ returned[call] = "no"
    /\ returned' = [returned EXCEPT ![call] = how]
    /\ UNCHANGED <<started, answered, lost>>

Accept(call) == Return(call, "accepted")

Refuse(call) == call \notin started /\ Return(call, "refused")

\* The service is gone; the result may have come.
Fail(call) == Return(call, "failed")

Start(call) ==
    /\ call \notin started
    /\ returned[call] \in {"no", "accepted"}
    /\ started' = started \cup {call}
    /\ UNCHANGED <<returned, answered, lost>>

Answer(call) ==
    /\ call \in started \ answered
    /\ answered' = answered \cup {call}
    /\ UNCHANGED <<returned, started, lost>>

\* The caller's process is gone.
Lose(call) ==
    /\ lost' = lost \cup {call}
    /\ UNCHANGED <<returned, started, answered>>

Next == \E call \in Calls :
    Accept(call) \/ Refuse(call) \/ Fail(call) \/ Start(call) \/ Answer(call) \/ Lose(call)

MustStart(call) == returned[call] = "accepted" /\ call \notin lost /\ Start(call)
MustAnswer(call) == call \notin lost /\ Answer(call)

Spec ==
    /\ Init /\ [][Next]_vars
    /\ \A call \in Calls : WF_vars(MustStart(call)) /\ WF_vars(MustAnswer(call))
=============================================================================
