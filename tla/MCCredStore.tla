---------------------------- MODULE MCCredStore ----------------------------
(* Bounds of the runs over CredStore.                                      *)
EXTENDS CredStore, TLC

CONSTANTS t1, pub, pub2, pri, sys

OneThread == {t1}
AllStores == {pub, pub2, pri, sys}
PublicOnly == {pub}
None == {}

\* The two public credentials are alike.
PublicAlike == Permutations({pub, pub2})

StoreOf == [uri \in Uris |-> IF uri = pri THEN "private"
                             ELSE IF uri = sys THEN "system" ELSE "public"]

\* CmInstallAppCertEx with CHAIN_KEY lets any level through, for every store; two are
\* enough to ask for another one than the key is imported at.
TwoLevels == [store \in Stores |-> {EL1, EL2}]

\* The level CmInstallAppCert fills in.
DefaultLevel == [store \in Stores |-> IF store = "public" THEN {EL2} ELSE {EL1}]
=============================================================================
