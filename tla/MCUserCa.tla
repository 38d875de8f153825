------------------------------ MODULE MCUserCa ------------------------------
(* Bounds of the runs over UserCa.                                         *)
EXTENDS UserCa

CONSTANTS t1, app1, app2, ca1, ca2, alias1, subject1

OneThread == {t1}
OneApp == {app1}
TwoApps == {app1, app2}
RootAndRenewed == {ca1, ca2}
SameSubject == [cert \in Certs |-> subject1]
Singles == {<<ca1>>, <<ca2>>}
SinglesAndBundle == Singles \cup {<<ca1, ca2>>}
Nothing == {}
OneAlias == {alias1}
OneLegacy == {<<app1, ca1>>}
Anything == FaultKinds
=============================================================================
