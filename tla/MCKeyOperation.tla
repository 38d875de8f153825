--------------------------- MODULE MCKeyOperation ---------------------------
(* Bounds of the runs over KeyOperation.                                   *)
EXTENDS KeyOperation, TLC

CONSTANTS t1, t2, h1, h2, h3, user1, app1, app2, key1, key2

TwoThreads == {t1, t2}
ThreeHandles == {h1, h2, h3}
OneUser == {user1}
TwoApps == {app1, app2}
TwoKeys == {key1, key2}
AnyAbortable == BOOLEAN

Symmetry ==
    Permutations(TwoThreads) \cup Permutations(ThreeHandles) \cup
    Permutations(TwoApps) \cup Permutations(TwoKeys)
=============================================================================
