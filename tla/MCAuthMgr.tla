----------------------------- MODULE MCAuthMgr -----------------------------
(* Bounds of the runs over AuthMgr.                                        *)
EXTENDS AuthMgr, TLC

CONSTANTS t1, t2, producer, client, other, key, el1, el2, none

TwoThreads == {t1, t2}
ClientAndProducer == {producer, client}
TwoClients == {producer, client, other}
OneKey == {key}
OneLevel == {el1}
TwoLevels == {el1, el2}
ProducerOf == [uri \in OneKey |-> producer]

Symmetry == Permutations(TwoThreads) \cup Permutations({client, other})
=============================================================================
