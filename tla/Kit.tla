--------------------------------- MODULE Kit ---------------------------------
(***************************************************************************)
(* The Node-API kit as a script meets it: calls of functions (KitCalls)    *)
(* and of dialogs (KitDialogs), one at a time.                             *)
(***************************************************************************)
EXTENDS KitCalls, KitDialogs

Init == Idle /\ ApiInit /\ DialogInit

CallStep == ApiNext /\ UNCHANGED <<device, via, dialog, sa>>
DialogStep == DialogNext /\ UNCHANGED api
Next == CallStep \/ DialogStep

Spec == Init /\ [][Next]_<<call, pc, promise, seen, api, device, via, dialog, sa>>
=============================================================================
