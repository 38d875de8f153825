----------------------------- MODULE MCUkeyAuth -----------------------------
(* Bounds of the runs over UkeyAuth: the times keep the order they have in *)
(* the code, keep-alive < unload and total + grace < fallback.             *)
EXTENDS UkeyAuth

CONSTANTS call1, call2, driver1

TwoCalls == {call1, call2}
OneCall == {call1}
OneDriver == {driver1}
=============================================================================
