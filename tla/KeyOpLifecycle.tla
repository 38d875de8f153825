--------------------------- MODULE KeyOpLifecycle ---------------------------
(***************************************************************************)
(* What a client of the certificate manager may rely on about sign/verify  *)
(* operations, without the table, its lock, its counter or the threads:    *)
(* an operation is opened once, for one caller and one key; it becomes     *)
(* usable when it is registered; at most Capacity operations are usable;   *)
(* registering one may displace at most one other; a removal event takes   *)
(* every usable operation it concerns away at once; an operation that      *)
(* cannot be named any more but is still open was lost by a failure of its *)
(* own; what is closed stays closed and never signs, and an operation      *)
(* signs at most once.                                                     *)
(***************************************************************************)
EXTENDS Integers, FiniteSets

CONSTANTS UserIds, Uids, Uris, Handles, Capacity

VARIABLES
    phase,        \* handle |-> "none", "opening", "usable", "lost" or "closed"
    holder,       \* handle |-> the caller and key it was opened for
    losses,       \* failures that may have lost an operation
    signed        \* handles that produced a signature

lifecycleVars == <<phase, holder, losses, signed>>

Holders == [caller : [userId : UserIds, uid : Uids], uri : Uris]

In(name) == {h \in Handles : phase[h] = name}

\* There are never more lost operations than failures.
Accounted == Cardinality(In("lost"))' <= losses'

\* The phase of an operation when those gone are closed, but for the ones a
\* failure leaves open.
After(h, gone, left) ==
    IF h \in left THEN "lost" ELSE IF h \in gone THEN "closed" ELSE phase[h]

Open(h, who) ==
    /\ phase[h] = "none"
    /\ phase' = [phase EXCEPT ![h] = "opening"]
    /\ holder' = [g \in DOMAIN holder \cup {h} |->
                     IF g = h THEN who ELSE holder[g]]
    /\ UNCHANGED <<losses, signed>>

\* Registering h takes at most one usable operation away, its victim.
Register(h) ==
    /\ phase[h] = "opening"
    /\ \E victim \in {{}} \cup {{g} : g \in In("usable")} :
       \E left \in SUBSET victim :
          /\ Cardinality(In("usable") \ victim) < Capacity
          /\ phase' = [g \in Handles |->
                          IF g = h THEN "usable" ELSE After(g, victim, left)]
          /\ losses' = losses + Cardinality(left)
    /\ UNCHANGED <<holder, signed>>

\* Something fails.
Fail ==
    /\ losses' = losses + 1
    /\ UNCHANGED <<phase, holder, signed>>

\* A failure, now or before, leaves an operation open that nobody can name.
Lose(h) ==
    /\ phase[h] \in {"opening", "usable"}
    /\ phase' = [phase EXCEPT ![h] = "lost"]
    /\ losses' \in {losses, losses + 1}
    /\ Accounted
    /\ UNCHANGED <<holder, signed>>

\* One operation ends: finished, aborted or failed.
Close(h) ==
    /\ phase[h] \in {"usable", "lost"}
    /\ phase' = [phase EXCEPT ![h] = "closed"]
    /\ signed' \in {signed, signed \cup {h}}
    /\ UNCHANGED <<holder, losses>>

Concerned(type, who) ==
    {h \in In("usable") :
        LET held == holder[h]
        IN  CASE type = "BY_USERID" -> held.caller.userId = who.caller.userId
              [] type = "BY_UID" -> held.caller = who.caller
              [] type = "BY_URI" -> held.uri = who.uri
              [] type = "BY_ALL" -> held = who}

RemoveAll(type, who) ==
    /\ UNCHANGED <<holder, signed>>
    /\ LET gone == Concerned(type, who)
       IN  \E left \in SUBSET gone :
              /\ losses' = losses + Cardinality(left)
              /\ phase' = [h \in Handles |-> After(h, gone, left)]

LifecycleInit ==
    /\ phase = [h \in Handles |-> "none"]
    /\ holder = [h \in {} |-> 0]
    /\ losses = 0
    /\ signed = {}

LifecycleNext ==
    \/ \E h \in Handles :
          \/ \E who \in Holders : Open(h, who)
          \/ Register(h)
          \/ Lose(h)
          \/ Close(h)
    \/ Fail
    \/ \E type \in {"BY_USERID", "BY_UID", "BY_URI", "BY_ALL"}, who \in Holders :
          RemoveAll(type, who)

LifecycleSpec == LifecycleInit /\ [][LifecycleNext]_lifecycleVars
=============================================================================
