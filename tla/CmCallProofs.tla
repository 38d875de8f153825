---------------------------- MODULE CmCallProofs ----------------------------
(***************************************************************************)
(* Proofs about CmCall, for every set of callers and of calls with any     *)
(* arguments: any stores, URIs, user ids and blobs.                        *)
(*                                                                         *)
(* A list of checks passes only if each check does; from that, what each   *)
(* function of cert_manager_check.c and cert_manager_service.c lets pass   *)
(* (...Checked), what each handler then does (...IsRight), what the table  *)
(* of the handlers does with a code and what code a function of the SDK    *)
(* asks for.  The invariant of the way of a call rests on the last two.    *)
(***************************************************************************)
EXTENDS CmCall, FiniteSetTheorems, WellFoundedInduction, TLAPS

-----------------------------------------------------------------------------
(* Lists of checks.                                                         *)

\* A set of naturals that is not empty has a least element.
LEMMA LeastExists ==
    ASSUME NEW S \in SUBSET Nat, S # {}
    PROVE  \E n \in S : \A m \in S : n <= m
<1> DEFINE R == StrictSubsetOrdering(Nat)
           T == {0 .. n : n \in S}
<1>1. \A n \in Nat : 0 .. n \in FiniteSubsetsOf(Nat)
  BY FS_Interval DEF FiniteSubsetsOf
<1>2. T \subseteq FiniteSubsetsOf(Nat) /\ T # {}
  BY <1>1
<1>3. IsWellFoundedOn(R, FiniteSubsetsOf(Nat))
  BY FS_StrictSubsetOrderingWellFounded
<1> HIDE DEF R, T
<1>4. PICK x \in T : \A y \in T : ~(<<y, x>> \in R)
  BY <1>2, <1>3, WFMin
<1>5. PICK n \in S : x = 0 .. n
  BY DEF T
<1>6. \A m \in S : n <= m
  <2> SUFFICES ASSUME NEW m \in S, m < n PROVE FALSE
    OBVIOUS
  <2>1. 0 .. m \subseteq 0 .. n /\ n \in 0 .. n /\ n \notin 0 .. m
    OBVIOUS
  <2>2. 0 .. m \in SUBSET Nat /\ 0 .. n \in SUBSET Nat
    OBVIOUS
  <2>3. <<0 .. m, 0 .. n>> \in R
    BY <2>1, <2>2 DEF R, StrictSubsetOrdering
  <2>4. 0 .. m \in T
    BY DEF T
  <2> QED
    BY <1>4, <1>5, <2>3, <2>4
<1> QED
  BY <1>6

\* A list of checks, whose errors are errors, and none of the errors a message
\* is refused with for its form; and one that is passed.
IsCheck(a) == a[2] \notin {"SUCCESS", "PARAM_NOT_EXIST", "IPC_PARAM_SIZE_INVALID"}
Checks(s) == s \in Seq({s[i] : i \in DOMAIN s}) /\ \A i \in DOMAIN s : IsCheck(s[i])
Passes(s) == \A i \in DOMAIN s : ~s[i][1]

LEMMA NothingFails ==
    ASSUME NEW s, Checks(s), FirstError(s) = "SUCCESS"
    PROVE  Passes(s)
<1> DEFINE failing == {i \in DOMAIN s : s[i][1]}
<1>1. SUFFICES ASSUME failing # {} PROVE FALSE
  BY DEF Passes
<1>2. failing \in SUBSET Nat
  BY DEF Checks
<1>3. \E n \in failing : \A m \in failing : n <= m
  BY <1>1, <1>2, LeastExists
<1> DEFINE first == CHOOSE i \in failing : \A j \in failing : i <= j
<1>4. first \in failing
  BY <1>3
<1>5. FirstError(s) = s[first][2]
  BY <1>1 DEF FirstError
<1>6. first \in DOMAIN s
  BY <1>4
<1> HIDE DEF first
<1> QED
  BY <1>5, <1>6 DEF Checks, IsCheck

LEMMA NoChecks == Checks(<<>>)
  BY DEF Checks
LEMMA OneCheck ==
    ASSUME NEW a, IsCheck(a)
    PROVE  Checks(<<a>>) /\ (Passes(<<a>>) => ~a[1])
<1> DEFINE s == <<a>>
<1>1. DOMAIN s = {1} /\ s[1] = a /\ s \in Seq({s[i] : i \in DOMAIN s})
  OBVIOUS
<1> HIDE DEF s
<1> QED
  BY <1>1 DEF Checks, Passes, s
LEMMA TwoChecks ==
    ASSUME NEW a, NEW b, IsCheck(a), IsCheck(b)
    PROVE  Checks(<<a, b>>) /\ (Passes(<<a, b>>) => ~a[1] /\ ~b[1])
<1> DEFINE s == <<a, b>>
<1>1. DOMAIN s = {1, 2} /\ s[1] = a /\ s[2] = b /\ s \in Seq({s[i] : i \in DOMAIN s})
  OBVIOUS
<1> HIDE DEF s
<1> QED
  BY <1>1 DEF Checks, Passes, s
LEMMA ThreeChecks ==
    ASSUME NEW a, NEW b, NEW d, IsCheck(a), IsCheck(b), IsCheck(d)
    PROVE  Checks(<<a, b, d>>) /\ (Passes(<<a, b, d>>) => ~a[1] /\ ~b[1] /\ ~d[1])
<1> DEFINE s == <<a, b, d>>
<1>1. DOMAIN s = {1, 2, 3} /\ s[1] = a /\ s[2] = b /\ s[3] = d /\ s \in Seq({s[i] : i \in DOMAIN s})
  OBVIOUS
<1> HIDE DEF s
<1> QED
  BY <1>1 DEF Checks, Passes, s
LEMMA FourChecks ==
    ASSUME NEW a, NEW b, NEW d, NEW e, IsCheck(a), IsCheck(b), IsCheck(d), IsCheck(e)
    PROVE  Checks(<<a, b, d, e>>) /\ (Passes(<<a, b, d, e>>) => ~a[1] /\ ~b[1] /\ ~d[1] /\ ~e[1])
<1> DEFINE s == <<a, b, d, e>>
<1>1. /\ DOMAIN s = {1, 2, 3, 4} /\ s[1] = a /\ s[2] = b /\ s[3] = d /\ s[4] = e
      /\ s \in Seq({s[i] : i \in DOMAIN s})
  OBVIOUS
<1> HIDE DEF s
<1> QED
  BY <1>1 DEF Checks, Passes, s
LEMMA FiveChecks ==
    ASSUME NEW a, NEW b, NEW d, NEW e, NEW f, IsCheck(a), IsCheck(b), IsCheck(d), IsCheck(e), IsCheck(f)
    PROVE  Checks(<<a, b, d, e, f>>) /\ (Passes(<<a, b, d, e, f>>) => ~a[1] /\ ~b[1] /\ ~d[1] /\ ~e[1] /\ ~f[1])
<1> DEFINE s == <<a, b, d, e, f>>
<1>1. /\ DOMAIN s = {1, 2, 3, 4, 5} /\ s[1] = a /\ s[2] = b /\ s[3] = d /\ s[4] = e /\ s[5] = f
      /\ s \in Seq({s[i] : i \in DOMAIN s})
  OBVIOUS
<1> HIDE DEF s
<1> QED
  BY <1>1 DEF Checks, Passes, s

\* Two lists, one after the other, are passed if both are.
LEMMA BothChecks ==
    ASSUME NEW s, NEW t, Checks(s), Checks(t)
    PROVE  Checks(s \o t) /\ (Passes(s \o t) => Passes(s) /\ Passes(t))
<1> DEFINE S == {s[i] : i \in DOMAIN s}
           T == {t[i] : i \in DOMAIN t}
           A == S \cup T
           l == s \o t
<1>1. s \in Seq(A) /\ t \in Seq(A)
  BY DEF Checks
<1> HIDE DEF A
<1>2. l \in Seq(A) /\ Len(l) = Len(s) + Len(t) /\ DOMAIN l = 1..Len(l)
  BY <1>1
<1>3. \A i \in 1..Len(s) : l[i] = s[i]
  BY <1>1
<1>4. \A i \in 1..Len(t) : l[Len(s) + i] = t[i]
  BY <1>1
<1>5. ASSUME NEW i \in DOMAIN l PROVE IsCheck(l[i])
  <2>1. CASE i \in 1..Len(s)
    BY <1>1, <1>3, <2>1 DEF Checks
  <2>2. CASE i \notin 1..Len(s)
    <3>1. i - Len(s) \in 1..Len(t) /\ i = Len(s) + (i - Len(s))
      BY <1>1, <1>2, <2>2
    <3>2. l[i] = t[i - Len(s)]
      BY <1>4, <3>1
    <3> QED
      BY <1>1, <3>1, <3>2 DEF Checks
  <2> QED
    BY <2>1, <2>2
<1> HIDE DEF l
<1>6. l \in Seq({l[i] : i \in DOMAIN l})
  BY <1>2
<1>7. \A i \in 1..Len(s) : i \in DOMAIN l
  BY <1>1, <1>2
<1>8. \A i \in 1..Len(t) : Len(s) + i \in DOMAIN l
  BY <1>1, <1>2
<1>9. DOMAIN s = 1..Len(s) /\ DOMAIN t = 1..Len(t)
  BY <1>1
<1>10. Passes(l) => Passes(s) /\ Passes(t)
  BY <1>3, <1>4, <1>7, <1>8, <1>9 DEF Passes
<1> QED
  BY <1>5, <1>6, <1>10 DEF Checks, l

-----------------------------------------------------------------------------
(* What the checks say when they pass.                                      *)

LEMMA DeniedIsCheck == ASSUME NEW g PROVE IsCheck(Denied(g))
  BY DEF IsCheck, Denied
LEMMA Permitted ==
    ASSUME NEW c
    PROVE  /\ ~Denied(CmHasCommonPermission(c))[1] => CmHasCommonPermission(c)
           /\ IsCheck(NotSystem(c)) /\ (~NotSystem(c)[1] => CmIsSystemApp(c))
  BY DEF Denied, NotSystem, IsCheck
LEMMA UriIsGood == ASSUME NEW uri PROVE IsCheck(BadUri(uri)) /\ (~BadUri(uri)[1] => CheckUri(uri))
  BY DEF BadUri, IsCheck

\* A verdict is that of its list.
LEMMA VerdictPasses ==
    ASSUME NEW s, NEW x, Checks(s)
    PROVE  Verdict(s, x).ctx = x /\ (Verdict(s, x).err = "SUCCESS" => Passes(s))
  BY NothingFails DEF Verdict

LEMMA GetCAPermission ==
    ASSUME NEW c, NEW store
    PROVE  /\ Checks(CmHasGetCAPermission(c, store))
           /\ Passes(CmHasGetCAPermission(c, store)) =>
                /\ CmHasCommonPermission(c) /\ store \in {"SYSTEM_TRUSTED", "USER_TRUSTED"}
                /\ store = "SYSTEM_TRUSTED" => CmIsSystemApp(c)
<1>1. CASE store = "SYSTEM_TRUSTED"
  <2> DEFINE a == Denied(CmHasPrivilegedPermission(c) /\ CmHasCommonPermission(c))
             b == NotSystem(c)
  <2>1. CmHasGetCAPermission(c, store) = <<a, b>>
    BY <1>1 DEF CmHasGetCAPermission
  <2>2. IsCheck(a) /\ IsCheck(b) /\ (~b[1] => CmIsSystemApp(c))
    BY Permitted DEF IsCheck, Denied
  <2>3. ~a[1] => CmHasCommonPermission(c)
    BY DEF Denied
  <2> HIDE DEF a, b
  <2> QED
    BY <1>1, <2>1, <2>2, <2>3, TwoChecks
<1>2. CASE store = "USER_TRUSTED"
  <2> DEFINE a == Denied(CmHasCommonPermission(c))
  <2>1. CmHasGetCAPermission(c, store) = <<a>>
    BY <1>2 DEF CmHasGetCAPermission
  <2> QED
    BY <1>2, <2>1, DeniedIsCheck, Permitted, OneCheck
<1>3. CASE store \notin {"SYSTEM_TRUSTED", "USER_TRUSTED"}
  <2> DEFINE a == <<TRUE, "INVALID_ARGUMENT">>
  <2>1. CmHasGetCAPermission(c, store) = <<a>>
    BY <1>3 DEF CmHasGetCAPermission
  <2>2. IsCheck(a) /\ a[1]
    BY DEF IsCheck
  <2> HIDE DEF a
  <2> QED
    BY <1>3, <2>1, <2>2, OneCheck
<1> QED
  BY <1>1, <1>2, <1>3

LEMMA PermissionsNeeded ==
    ASSUME NEW c, NEW pri \in BOOLEAN, NEW com \in BOOLEAN
    PROVE  /\ Checks(CheckPermission(c, pri, com))
           /\ Passes(CheckPermission(c, pri, com)) =>
                (com => CmHasCommonPermission(c)) /\ (pri => CmIsSystemApp(c))
<1> DEFINE a == Denied(pri => CmHasPrivilegedPermission(c))
           b == <<pri /\ ~CmIsSystemApp(c), "NOT_SYSTEM_APP">>
           d == Denied(com => CmHasCommonPermission(c))
<1>1. CheckPermission(c, pri, com) = <<a, b, d>>
  BY DEF CheckPermission
<1>2. IsCheck(a) /\ IsCheck(b) /\ IsCheck(d)
  BY DEF IsCheck, Denied
<1>3. (~b[1] => (pri => CmIsSystemApp(c))) /\ (~d[1] => (com => CmHasCommonPermission(c)))
  BY DEF Denied
<1> HIDE DEF a, b, d
<1> QED
  BY <1>1, <1>2, <1>3, ThreeChecks

\* The checks of system CA certificates.
LEMMA SystemCertListChecked ==
    ASSUME NEW c, NEW x, NEW store, NEW v, v = CmServiceGetSystemCertListCheck(c, x, store), v.err = "SUCCESS"
    PROVE  v.ctx = x /\ CmHasCommonPermission(c) /\ CmIsSystemApp(c)
<1> DEFINE a == <<store # "SYSTEM_TRUSTED", "INVALID_ARGUMENT_STORE_TYPE">>
           t == CmHasGetCAPermission(c, store)
<1>1. v = Verdict(<<a>> \o t, x)
  BY DEF CmServiceGetSystemCertListCheck
<1>2. IsCheck(a) /\ (~a[1] => store = "SYSTEM_TRUSTED")
  BY DEF IsCheck
<1> HIDE DEF a, t
<1>3. Checks(<<a>>) /\ Checks(t)
  BY <1>2, OneCheck, GetCAPermission DEF t
<1>4. v.ctx = x /\ Passes(<<a>>) /\ Passes(t)
  BY <1>1, <1>3, BothChecks, VerdictPasses
<1> QED
  BY <1>2, <1>4, OneCheck, GetCAPermission DEF t

LEMMA SystemCertChecked ==
    ASSUME NEW c, NEW x, NEW store, NEW uri, NEW v,
           v = CmServiceGetSystemCertCheck(c, x, store, uri), v.err = "SUCCESS"
    PROVE  v.ctx = x /\ CmHasCommonPermission(c) /\ CmIsSystemApp(c) /\ store = "SYSTEM_TRUSTED"
<1> DEFINE a == <<store # "SYSTEM_TRUSTED", "INVALID_ARGUMENT_STORE_TYPE">>
           b == BadUri(uri)
           t == CmHasGetCAPermission(c, store)
<1>1. v = Verdict(<<a, b>> \o t, x)
  BY DEF CmServiceGetSystemCertCheck
<1>2. IsCheck(a) /\ IsCheck(b) /\ (~a[1] => store = "SYSTEM_TRUSTED")
  BY UriIsGood DEF IsCheck
<1> HIDE DEF a, b, t
<1>3. Checks(<<a, b>>) /\ Checks(t)
  BY <1>2, TwoChecks, GetCAPermission DEF t
<1>4. v.ctx = x /\ Passes(<<a, b>>) /\ Passes(t)
  BY <1>1, <1>3, BothChecks, VerdictPasses
<1> QED
  BY <1>2, <1>4, TwoChecks, GetCAPermission DEF t

LEMMA SetCertStatusChecked ==
    ASSUME NEW c, NEW x, NEW store, NEW uri, NEW status, NEW v,
           v = CmServiceSetCertStatusCheck(c, x, store, uri, status), v.err = "SUCCESS"
    PROVE  v.ctx = x /\ CmHasCommonPermission(c) /\ CmIsSystemApp(c)
<1> DEFINE a == <<store # "SYSTEM_TRUSTED", "INVALID_ARGUMENT_STORE_TYPE">>
           b == BadUri(uri)
           d == <<status \notin {0, 1}, "INVALID_ARGUMENT_STATUS">>
           e == Denied(CmHasPrivilegedPermission(c) /\ CmHasCommonPermission(c))
           f == NotSystem(c)
<1>1. v = Verdict(<<a, b, d, e, f>>, x)
  BY DEF CmServiceSetCertStatusCheck
<1>2. IsCheck(a) /\ IsCheck(b) /\ IsCheck(d) /\ IsCheck(e) /\ IsCheck(f)
  BY UriIsGood, Permitted DEF IsCheck, Denied
<1>3. (~e[1] => CmHasCommonPermission(c)) /\ (~f[1] => CmIsSystemApp(c))
  BY Permitted DEF Denied
<1> HIDE DEF a, b, d, e, f
<1>4. v.ctx = x /\ Passes(<<a, b, d, e, f>>)
  BY <1>1, <1>2, FiveChecks, VerdictPasses
<1> QED
  BY <1>2, <1>3, <1>4, FiveChecks

\* Whose certificate it is.  Of an application only its user's, or user 0's if
\* it is a CA.
OwnOrPublic(x, y, type) == y.userId = x.userId \/ (type = "CERTIFICATE" /\ y.userId = SA_USER)

LEMMA CallerAndUriChecked ==
    ASSUME NEW x, NEW uri, NEW type, NEW uid \in BOOLEAN, NEW v,
           v = CheckAndUpdateCallerAndUri(x, uri, type, uid), v.err = "SUCCESS", x.userId # SA_USER
    PROVE  OwnOrPublic(x, v.ctx, type)
<1> DEFINE a == <<uri.type # type, "INVALID_ARGUMENT_URI">>
           b == <<x.userId # SA_USER /\ x.userId # uri.user
                  /\ ~(type = "CERTIFICATE" /\ uri.user = SA_USER), "INVALID_ARGUMENT_USER_ID">>
           d == <<uid /\ x.userId = SA_USER /\ x.uid # uri.app, "INVALID_ARGUMENT_UID">>
           y == [userId |-> uri.user, uid |-> uri.app]
<1>1. v = Verdict(<<a, b, d>>, y)
  BY DEF CheckAndUpdateCallerAndUri
<1>2. IsCheck(a) /\ IsCheck(b) /\ IsCheck(d)
  BY DEF IsCheck
<1>3. ~b[1] => x.userId = uri.user \/ (type = "CERTIFICATE" /\ uri.user = SA_USER)
  OBVIOUS
<1>4. y.userId = uri.user
  OBVIOUS
<1> HIDE DEF a, b, d, y
<1>5. v.ctx = y /\ Passes(<<a, b, d>>)
  BY <1>1, <1>2, ThreeChecks, VerdictPasses
<1> QED
  BY <1>2, <1>3, <1>4, <1>5, ThreeChecks DEF OwnOrPublic

LEMMA UserCertInfoChecked ==
    ASSUME NEW x, NEW uri, NEW store, NEW v, v = CmServiceGetCertInfo(x, uri, store), v.err = "SUCCESS",
           x.userId # SA_USER
    PROVE  OwnOrPublic(x, v.ctx, "CERTIFICATE") /\ (store = "SYSTEM_TRUSTED" => v.ctx = x)
<1>1. CASE store = "USER_TRUSTED" /\ CheckUri(uri)
  <2>1. v = CheckAndUpdateCallerAndUri(x, uri, "CERTIFICATE", FALSE)
    BY <1>1 DEF CmServiceGetCertInfo, CmServiceGetUserCertInfoCheck
  <2> QED
    BY <1>1, <2>1, CallerAndUriChecked
<1>2. CASE ~(store = "USER_TRUSTED" /\ CheckUri(uri))
  <2>1. v.ctx = x
    BY <1>2 DEF CmServiceGetCertInfo, Verdict
  <2> QED
    BY <2>1 DEF OwnOrPublic
<1> QED
  BY <1>1, <1>2

MayChangeCAs(c) == CmHasUserTrustedPermission(c) \/ CmHasEnterpriseUserTrustedPermission(c)

LEMMA UninstallUserCertChecked ==
    ASSUME NEW c, NEW x, NEW uri, NEW v, v = CmServiceUninstallUserCertCheck(c, x, uri), v.err = "SUCCESS"
    PROVE  MayChangeCAs(c) /\ (x.userId # SA_USER => OwnOrPublic(x, v.ctx, "CERTIFICATE"))
<1> DEFINE a == BadUri(uri)
           b == Denied(CmHasEnterpriseUserTrustedPermission(c) \/ CmHasUserTrustedPermission(c))
           w == Verdict(<<a, b>>, x)
<1>1. w.err = "SUCCESS" /\ v = CheckAndUpdateCallerAndUri(w.ctx, uri, "CERTIFICATE", TRUE)
  BY DEF CmServiceUninstallUserCertCheck, Then
<1>2. IsCheck(a) /\ IsCheck(b) /\ (~b[1] => MayChangeCAs(c))
  BY UriIsGood DEF IsCheck, Denied, MayChangeCAs
<1> HIDE DEF a, b
<1>3. w.ctx = x /\ Passes(<<a, b>>)
  BY <1>1, <1>2, TwoChecks, VerdictPasses
<1> HIDE DEF w
<1> QED
  BY <1>1, <1>2, <1>3, TwoChecks, CallerAndUriChecked

LEMMA SetUserCertStatusChecked ==
    ASSUME NEW c, NEW x, NEW uri, NEW v, v = CmServiceSetUserCertStatusCheck(c, x, uri), v.err = "SUCCESS"
    PROVE  /\ CmHasCommonPermission(c) /\ CmIsSystemApp(c)
           /\ x.userId # SA_USER => OwnOrPublic(x, v.ctx, "CERTIFICATE")
<1> DEFINE a == Denied(CmHasCommonPermission(c) /\ CmHasUserTrustedPermission(c))
           b == NotSystem(c)
           d == BadUri(uri)
           w == Verdict(<<a, b, d>>, x)
<1>1. w.err = "SUCCESS" /\ v = CheckAndUpdateCallerAndUri(w.ctx, uri, "CERTIFICATE", TRUE)
  BY DEF CmServiceSetUserCertStatusCheck, Then
<1>2. IsCheck(a) /\ IsCheck(b) /\ IsCheck(d) /\ (~a[1] => CmHasCommonPermission(c)) /\ (~b[1] => CmIsSystemApp(c))
  <2>1. IsCheck(a) /\ (~a[1] => CmHasCommonPermission(c))
    BY DEF IsCheck, Denied
  <2> HIDE DEF a
  <2> QED
    BY <2>1, UriIsGood, Permitted
<1> HIDE DEF a, b, d
<1>3. w.ctx = x /\ Passes(<<a, b, d>>)
  BY <1>1, <1>2, ThreeChecks, VerdictPasses
<1> HIDE DEF w
<1> QED
  BY <1>1, <1>2, <1>3, ThreeChecks, CallerAndUriChecked

LEMMA UserIdChecked ==
    ASSUME NEW id, NEW x, NEW v, v = CmCheckAndUpdateCallerUserId(id, x), v.err = "SUCCESS", x.userId # SA_USER,
           x = [userId |-> x.userId, uid |-> x.uid]
    PROVE  OwnOrPublic(x, v.ctx, "CERTIFICATE")
<1> DEFINE a == <<x.userId # SA_USER /\ id \notin {0, INVALID}, "INVALID_ARGUMENT_USER_ID">>
           y == IF id = INVALID THEN x ELSE [x EXCEPT !.userId = id]
<1>1. v = Verdict(<<a>>, y)
  BY DEF CmCheckAndUpdateCallerUserId
<1>2. IsCheck(a) /\ (~a[1] => id \in {0, INVALID})
  BY DEF IsCheck
<1>3. y.userId = IF id = INVALID THEN x.userId ELSE id
  OBVIOUS
<1> HIDE DEF a, y
<1>4. v.ctx = y /\ Passes(<<a>>)
  BY <1>1, <1>2, OneCheck, VerdictPasses
<1> QED
  BY <1>2, <1>3, <1>4, OneCheck DEF OwnOrPublic, SA_USER

LEMMA InstallUserCertChecked ==
    ASSUME NEW c, NEW x, NEW cert, NEW alias, NEW id, NEW v,
           v = CmServiceInstallUserCertCheck(c, x, cert, alias, id), v.err = "SUCCESS",
           x = [userId |-> x.userId, uid |-> x.uid]
    PROVE  MayChangeCAs(c) /\ (x.userId # SA_USER => OwnOrPublic(x, v.ctx, "CERTIFICATE"))
<1> DEFINE a == <<~CmCheckBlob(cert) \/ cert.form = "huge", "INVALID_ARGUMENT_APP_CERT">>
           b == <<alias.form # "ok" /\ (alias.form # "noname" \/ "USER_TRUSTED" = "PRI_CREDENTIAL"),
                  "INVALID_ARGUMENT_ALIAS">>
           d == Denied(CmHasEnterpriseUserTrustedPermission(c) \/ CmHasUserTrustedPermission(c))
           l == (<<a>> \o <<b>>) \o <<d>>
           w == Verdict(l, x)
<1>1. w.err = "SUCCESS" /\ v = CmCheckAndUpdateCallerUserId(id, w.ctx)
  BY DEF CmServiceInstallUserCertCheck, CmCheckCertAlias, Then
<1>2. IsCheck(a) /\ IsCheck(b) /\ IsCheck(d)
  BY DEF IsCheck, Denied
<1>3. ~d[1] => MayChangeCAs(c)
  BY DEF Denied, MayChangeCAs
<1> HIDE DEF a, b, d
<1>4. Checks(<<a>> \o <<b>>) /\ Checks(<<d>>)
  BY <1>2, OneCheck, BothChecks
<1>5. w.ctx = x /\ Passes(<<d>>)
  BY <1>1, <1>4, BothChecks, VerdictPasses
<1> HIDE DEF w
<1> QED
  BY <1>1, <1>2, <1>3, <1>5, OneCheck, UserIdChecked

LEMMA UriComparedIsSame ==
    ASSUME NEW x, NEW uri PROVE CmComparisonCallerIdWithUri(x, uri).ctx = x
  BY DEF CmComparisonCallerIdWithUri, Verdict

\* An application names no user when it lists CAs.
LEMMA CertListChecked ==
    ASSUME NEW x, NEW id, NEW scope, NEW store, NEW v,
           v = CmServiceGetCertList(x, id, scope, store), v.err = "SUCCESS"
    PROVE  v.ctx = x /\ (store = "USER_TRUSTED" /\ x.userId # SA_USER => id = INVALID)
<1> DEFINE a == <<scope \notin {"ALL_USER", "CURRENT_USER", "GLOBAL_USER"}, "INVALID_ARGUMENT_SCOPE">>
           b == <<store = "USER_TRUSTED" /\ x.userId # SA_USER /\ id # INVALID, "INVALID_ARGUMENT_USER_ID">>
           d == <<store \notin {"USER_TRUSTED", "SYSTEM_TRUSTED"}, "INVALID_ARGUMENT_STORE_TYPE">>
<1>1. v = Verdict(<<a, b, d>>, x)
  BY DEF CmServiceGetCertList
<1>2. IsCheck(a) /\ IsCheck(b) /\ IsCheck(d)
  BY DEF IsCheck
<1>3. ~b[1] => (store = "USER_TRUSTED" /\ x.userId # SA_USER => id = INVALID)
  OBVIOUS
<1> HIDE DEF a, b, d
<1>4. v.ctx = x /\ Passes(<<a, b, d>>)
  BY <1>1, <1>2, ThreeChecks, VerdictPasses
<1> QED
  BY <1>2, <1>3, <1>4, ThreeChecks

\* Credentials.  What a caller that is no application of the system may have is
\* its private ones.
MayHave(c, store) == CmHasCommonPermission(c) /\ (store = "PRI_CREDENTIAL" \/ CmIsSystemApp(c))

LEMMA StorePermitted ==
    ASSUME NEW c, NEW store, CmPermissionCheck(c, store), CmIsSystemAppByStoreType(c, store)
    PROVE  MayHave(c, store)
  BY DEF CmPermissionCheck, CmIsSystemAppByStoreType, MayHave

LEMMA AppCertParamChecked ==
    ASSUME NEW a PROVE Checks(CmCheckAppCertParam(a))
<1> DEFINE b == <<a.store \notin CREDENTIAL_STORES, "INVALID_ARGUMENT_STORE_TYPE">>
           d == <<a.level \notin {"EL1", "EL2", "EL4"}, "INVALID_ARGUMENT">>
           e == <<a.credFormat \notin {"FILE_P12", "CHAIN_KEY"}, "INVALID_ARGUMENT">>
           f == <<a.aliasFormat \notin {"DEFAULT", "SHA256"}, "INVALID_ARGUMENT">>
           g == <<~CmCheckBlob(a.appCert) \/ a.appCert.form = "huge", "INVALID_ARGUMENT_APP_CERT">>
           h == <<a.alias.form # "ok" /\ (a.alias.form # "noname" \/ a.store = "PRI_CREDENTIAL"),
                  "INVALID_ARGUMENT_ALIAS">>
           k == <<a.credFormat = "FILE_P12" /\ a.pwd.form # "ok", "INVALID_ARGUMENT_APP_PWD">>
           m == <<a.credFormat # "FILE_P12" /\ (~CmCheckBlob(a.privKey) \/ a.privKey.form = "huge"),
                  "INVALID_ARGUMENT_CRED_PREVKEY">>
<1>1. CmCheckAppCertParam(a) = (<<b, d, e, f, g>> \o <<h>>) \o <<k, m>>
  BY DEF CmCheckAppCertParam, CmCheckCertAlias
<1>2. IsCheck(b) /\ IsCheck(d) /\ IsCheck(e) /\ IsCheck(f) /\ IsCheck(g) /\ IsCheck(h) /\ IsCheck(k) /\ IsCheck(m)
  BY DEF IsCheck
<1> HIDE DEF b, d, e, f, g, h, k, m
<1>3. Checks(<<b, d, e, f, g>>) /\ Checks(<<h>>) /\ Checks(<<k, m>>)
  BY <1>2, OneCheck, TwoChecks, FiveChecks
<1> QED
  BY <1>1, <1>3, BothChecks

LEMMA UserIdKept ==
    ASSUME NEW id, NEW x, NEW store, x.userId # SA_USER
    PROVE  CmCheckUserIdAndUpdateContext(id, x, store).ctx = x
  BY DEF CmCheckUserIdAndUpdateContext, Verdict

LEMMA InstallAppCertChecked ==
    ASSUME NEW c, NEW x, NEW a, NEW v, v = CmServiceInstallAppCertCheck(c, x, a), v.err = "SUCCESS"
    PROVE  MayHave(c, a.store) /\ (x.userId # SA_USER => v.ctx = x)
<1> DEFINE b == Denied(CmPermissionCheck(c, a.store))
           d == <<~CmIsSystemAppByStoreType(c, a.store), "NOT_SYSTEM_APP">>
           u == Verdict(CmCheckAppCertParam(a), x)
           w == IF u.err = "SUCCESS"
                THEN IF a.store = "PRI_CREDENTIAL" THEN Pass(u.ctx)
                     ELSE CmCheckUserIdAndUpdateContext(a.userId, u.ctx, a.store)
                ELSE u
<1>1. w.err = "SUCCESS" /\ v = Verdict(<<b, d>>, w.ctx)
  BY DEF CmServiceInstallAppCertCheck, Then
<1>2. u.ctx = x
  BY DEF Verdict
<1>3. IsCheck(b) /\ IsCheck(d)
  BY DEF IsCheck, Denied
<1>4. ~b[1] /\ ~d[1] => CmPermissionCheck(c, a.store) /\ CmIsSystemAppByStoreType(c, a.store)
  BY DEF Denied
<1>5. x.userId # SA_USER => w.ctx = x
  <2>1. Pass(x).ctx = x
    BY DEF Pass, Verdict
  <2> QED
    BY <1>2, <2>1, UserIdKept
<1> HIDE DEF b, d, u, w
<1>6. v.ctx = w.ctx /\ Passes(<<b, d>>)
  BY <1>1, <1>3, TwoChecks, VerdictPasses
<1> QED
  BY <1>3, <1>4, <1>5, <1>6, TwoChecks, StorePermitted

LEMMA UninstallAppCertChecked ==
    ASSUME NEW c, NEW x, NEW store, NEW uri, NEW v,
           v = CmServiceUninstallAppCertCheck(c, x, store, uri), v.err = "SUCCESS"
    PROVE  MayHave(c, store) /\ (x.userId # SA_USER => v.ctx.userId = x.userId)
<1> DEFINE a == <<store \notin CREDENTIAL_STORES, "INVALID_ARGUMENT_STORE_TYPE">>
           b == BadUri(uri)
           d == Denied(CmPermissionCheck(c, store))
           e == <<~CmIsSystemAppByStoreType(c, store), "NOT_SYSTEM_APP">>
           w == Verdict(<<a, b, d, e>>, x)
<1>1. w.err = "SUCCESS" /\ v = IF store = "SYS_CREDENTIAL"
                               THEN CheckAndUpdateCallerAndUri(w.ctx, uri, "SYS_KEY", TRUE) ELSE Pass(w.ctx)
  BY DEF CmServiceUninstallAppCertCheck, Then
<1>2. IsCheck(a) /\ IsCheck(b) /\ IsCheck(d) /\ IsCheck(e)
  BY UriIsGood DEF IsCheck, Denied
<1>3. ~d[1] /\ ~e[1] => CmPermissionCheck(c, store) /\ CmIsSystemAppByStoreType(c, store)
  BY DEF Denied
<1> HIDE DEF a, b, d, e
<1>4. w.ctx = x /\ Passes(<<a, b, d, e>>)
  BY <1>1, <1>2, FourChecks, VerdictPasses
<1>5. Pass(x).ctx = x
  BY DEF Pass, Verdict
<1> HIDE DEF w
<1>6. ASSUME x.userId # SA_USER PROVE v.ctx.userId = x.userId
  <2>1. CASE store = "SYS_CREDENTIAL"
    <3>1. v = CheckAndUpdateCallerAndUri(x, uri, "SYS_KEY", TRUE)
      BY <1>1, <1>4, <2>1
    <3>2. OwnOrPublic(x, v.ctx, "SYS_KEY")
      BY <1>6, <3>1, CallerAndUriChecked
    <3> QED
      BY <3>2 DEF OwnOrPublic
  <2>2. CASE store # "SYS_CREDENTIAL"
    BY <1>1, <1>4, <1>5, <2>2
  <2> QED
    BY <2>1, <2>2
<1> QED
  BY <1>2, <1>3, <1>4, <1>6, FourChecks, StorePermitted

LEMMA RemoveAllChecked ==
    ASSUME NEW c, NEW x, NEW v, v = CmRemoveAllAppCert(c, x), v.err = "SUCCESS"
    PROVE  v.ctx = x /\ CmHasCommonPermission(c) /\ CmIsSystemApp(c)
<1> DEFINE a == Denied(CmHasPrivilegedPermission(c) /\ CmHasCommonPermission(c) /\ CmHasSystemAppPermission(c))
           b == NotSystem(c)
<1>1. v = Verdict(<<a, b>>, x)
  BY DEF CmRemoveAllAppCert
<1>2. IsCheck(a) /\ IsCheck(b) /\ (~a[1] => CmHasCommonPermission(c)) /\ (~b[1] => CmIsSystemApp(c))
  BY Permitted DEF IsCheck, Denied
<1> HIDE DEF a, b
<1> QED
  BY <1>1, <1>2, TwoChecks, VerdictPasses

LEMMA SysAppCertListChecked ==
    ASSUME NEW c, NEW x
    PROVE  /\ Checks(CmGetSysAppCertListCheck(c, x))
           /\ Passes(CmGetSysAppCertListCheck(c, x)) => CmHasCommonPermission(c) /\ CmIsSystemApp(c)
<1> DEFINE a == <<x.userId = SA_USER, "INVALID_ARGUMENT_USER_ID">>
           b == Denied(CmHasCommonPermission(c))
           d == NotSystem(c)
<1>1. CmGetSysAppCertListCheck(c, x) = <<a, b, d>>
  BY DEF CmGetSysAppCertListCheck
<1>2. IsCheck(a) /\ IsCheck(b) /\ IsCheck(d) /\ (~b[1] => CmHasCommonPermission(c)) /\ (~d[1] => CmIsSystemApp(c))
  BY Permitted DEF IsCheck, Denied
<1> HIDE DEF a, b, d
<1> QED
  BY <1>1, <1>2, ThreeChecks

LEMMA AppCertListChecked ==
    ASSUME NEW c, NEW x, NEW store, NEW v, v = CmServiceGetAppCertListCheck(c, x, store), v.err = "SUCCESS"
    PROVE  v.ctx = x /\ CmHasCommonPermission(c) /\ CmIsSystemApp(c)
<1> DEFINE a == <<store \notin CREDENTIAL_STORES, "INVALID_ARGUMENT_STORE_TYPE">>
           b == Denied(CmHasPrivilegedPermission(c) /\ CmHasCommonPermission(c))
           d == NotSystem(c)
           t == IF store = "SYS_CREDENTIAL" THEN CmGetSysAppCertListCheck(c, x) ELSE <<b, d>>
<1>1. v = Verdict(<<a>> \o t, x)
  BY DEF CmServiceGetAppCertListCheck
<1>2. IsCheck(a) /\ IsCheck(b) /\ IsCheck(d)
  BY Permitted DEF IsCheck, Denied
<1>3. (~b[1] => CmHasCommonPermission(c)) /\ (~d[1] => CmIsSystemApp(c))
  BY Permitted DEF Denied
<1> HIDE DEF a, b, d
<1>4. Checks(<<a>>) /\ Checks(t) /\ (Passes(t) => CmHasCommonPermission(c) /\ CmIsSystemApp(c))
  BY <1>2, <1>3, OneCheck, TwoChecks, SysAppCertListChecked
<1> HIDE DEF t
<1> QED
  BY <1>1, <1>4, BothChecks, VerdictPasses

LEMMA CallingAppCertListChecked ==
    ASSUME NEW c, NEW x, NEW store, NEW v,
           v = CmServiceGetCallingAppCertListCheck(c, x, store), v.err = "SUCCESS"
    PROVE  v.ctx = x /\ MayHave(c, store)
<1> DEFINE a == <<store \notin CREDENTIAL_STORES, "INVALID_ARGUMENT_STORE_TYPE">>
           b == Denied(CmHasCommonPermission(c))
           d == Denied(CmHasPrivilegedPermission(c))
           e == NotSystem(c)
           t == CASE store = "SYS_CREDENTIAL" -> CmGetSysAppCertListCheck(c, x)
                  [] store = "PRI_CREDENTIAL" -> <<b>>
                  [] OTHER -> <<b, d, e>>
<1>1. v = Verdict(<<a>> \o t, x)
  BY DEF CmServiceGetCallingAppCertListCheck
<1>2. IsCheck(a) /\ IsCheck(b) /\ IsCheck(d) /\ IsCheck(e)
  BY Permitted DEF IsCheck, Denied
<1>3. (~b[1] => CmHasCommonPermission(c)) /\ (~e[1] => CmIsSystemApp(c))
  BY Permitted DEF Denied
<1> HIDE DEF a, b, d, e
<1>4. Checks(t) /\ (Passes(t) => MayHave(c, store))
  <2>1. CASE store = "SYS_CREDENTIAL"
    BY <2>1, SysAppCertListChecked DEF MayHave
  <2>2. CASE store = "PRI_CREDENTIAL"
    BY <1>2, <1>3, <2>2, OneCheck DEF MayHave
  <2>3. CASE store \notin {"SYS_CREDENTIAL", "PRI_CREDENTIAL"}
    <3>1. t = <<b, d, e>>
      BY <2>3
    <3> QED
      BY <1>2, <1>3, <3>1, ThreeChecks DEF MayHave
  <2> QED
    BY <2>1, <2>2, <2>3
<1>5. Checks(<<a>>)
  BY <1>2, OneCheck
<1> HIDE DEF t
<1> QED
  BY <1>1, <1>4, <1>5, BothChecks, VerdictPasses

LEMMA GetAppCertChecked ==
    ASSUME NEW c, NEW x, NEW store, NEW uri, NEW v,
           v = CmServiceGetAppCertCheck(c, x, store, uri), v.err = "SUCCESS"
    PROVE  /\ CmHasCommonPermission(c) /\ (store = "SYS_CREDENTIAL" => CmIsSystemApp(c))
           /\ x.userId # SA_USER => v.ctx.userId = x.userId
<1> DEFINE a == <<store \notin CREDENTIAL_STORES, "INVALID_ARGUMENT_STORE_TYPE">>
           b == BadUri(uri)
           d == Denied(CmHasCommonPermission(c))
           e == Denied(CmHasSystemAppPermission(c))
           f == NotSystem(c)
           w == Verdict(<<a, b, d>>, x)
           u == CheckAndUpdateCallerAndUri(w.ctx, uri, "SYS_KEY", FALSE)
<1>1. w.err = "SUCCESS" /\ v = IF store # "SYS_CREDENTIAL" THEN Pass(w.ctx)
                               ELSE IF u.err = "SUCCESS" THEN Verdict(<<e, f>>, u.ctx) ELSE u
  BY DEF CmServiceGetAppCertCheck, Then
<1>2. IsCheck(a) /\ IsCheck(b) /\ IsCheck(d) /\ IsCheck(e) /\ IsCheck(f)
  BY UriIsGood, Permitted DEF IsCheck, Denied
<1>3. (~d[1] => CmHasCommonPermission(c)) /\ (~f[1] => CmIsSystemApp(c))
  BY Permitted DEF Denied
<1> HIDE DEF a, b, d, e, f
<1>4. w.ctx = x /\ Passes(<<a, b, d>>)
  BY <1>1, <1>2, ThreeChecks, VerdictPasses
<1>5. Pass(x).ctx = x
  BY DEF Pass, Verdict
<1> HIDE DEF w
<1>6. CASE store # "SYS_CREDENTIAL"
  BY <1>1, <1>2, <1>3, <1>4, <1>5, <1>6, ThreeChecks
<1>7. CASE store = "SYS_CREDENTIAL"
  <2>1. u.err = "SUCCESS" /\ v = Verdict(<<e, f>>, u.ctx)
    BY <1>1, <1>7
  <2>2. x.userId # SA_USER => u.ctx.userId = x.userId
    BY <1>4, <2>1, CallerAndUriChecked DEF OwnOrPublic
  <2> HIDE DEF u
  <2>3. v.ctx = u.ctx /\ Passes(<<e, f>>)
    BY <1>1, <1>2, <2>1, TwoChecks, VerdictPasses
  <2> QED
    BY <1>2, <1>3, <1>4, <2>2, <2>3, TwoChecks, ThreeChecks
<1> QED
  BY <1>6, <1>7

\* Using a credential.
LEMMA GetAppCertKeepsContext ==
    ASSUME NEW c, NEW x, NEW store, NEW uri PROVE CmServiceGetAppCert(c, x, store, uri).ctx = x
  BY DEF CmServiceGetAppCert, Verdict

LEMMA GrantChecked ==
    ASSUME NEW c, NEW x, NEW uri, NEW auth, NEW v,
           v = CmServiceGrantAppCertificate(c, x, uri, auth), v.err = "SUCCESS"
    PROVE  v.ctx = x /\ CmHasCommonPermission(c) /\ CmIsSystemApp(c)
<1> DEFINE a == BadUri(uri)
           b == <<~CmCheckBlob(auth), "INVALID_ARGUMENT_URI">>
           t == CheckPermission(c, TRUE, TRUE)
           w == Verdict(<<a, b>> \o t, x)
<1>1. w.err = "SUCCESS" /\ v = Verdict(CmCheckCallerIsProducer(w.ctx, uri), w.ctx)
  BY DEF CmServiceGrantAppCertificate, Then
<1>2. IsCheck(a) /\ IsCheck(b)
  BY UriIsGood DEF IsCheck
<1> HIDE DEF a, b
<1>3. Checks(<<a, b>>) /\ Checks(t) /\ (Passes(t) => CmHasCommonPermission(c) /\ CmIsSystemApp(c))
  BY <1>2, TwoChecks, PermissionsNeeded
<1> HIDE DEF t
<1>4. w.ctx = x /\ Passes(t)
  BY <1>1, <1>3, BothChecks, VerdictPasses
<1> HIDE DEF w
<1>5. v.ctx = x
  BY <1>1, <1>4 DEF Verdict
<1> QED
  BY <1>3, <1>4, <1>5

\* Which credential a key is used of: the caller's own, one made out to it, or
\* one of its user.
MayUse(x, uri) ==
    /\ uri.type = "APP_KEY" => (uri.user = x.userId /\ uri.app = x.uid) \/ uri.client = x.uid
    /\ uri.type = "SYS_KEY" /\ x.userId # SA_USER => uri.user = x.userId

LEMMA UseChecked ==
    ASSUME NEW c, NEW x, NEW uri, NEW v, v.err = "SUCCESS",
           v = Verdict(CheckAndGetStore(c, x, uri) \o CmCheckAndGetCommonUri(x, StoreOf(uri), uri), x)
    PROVE  v.ctx = x /\ MayUse(x, uri)
<1> DEFINE a == Denied(CmHasSystemAppPermission(c))
           b == <<x.userId # SA_USER /\ x.userId # uri.user, "INVALID_ARGUMENT_USER_ID">>
           d == <<uri.type # "SYS_KEY", "INVALID_ARGUMENT_URI">>
           e == <<uri.type # "APP_KEY", "INVALID_ARGUMENT_URI">>
           f == CheckCommonPermission(x, uri)
<1>1. IsCheck(a) /\ IsCheck(b) /\ IsCheck(d) /\ IsCheck(e) /\ IsCheck(f)
  BY DEF IsCheck, Denied, CheckCommonPermission
<1>2. ~b[1] /\ x.userId # SA_USER => uri.user = x.userId
  OBVIOUS
<1>3. ~f[1] => (uri.user = x.userId /\ uri.app = x.uid) \/ uri.client = x.uid
  BY DEF CheckCommonPermission, IsProducer
<1>4. CASE uri.type = "SYS_KEY"
  <2>1. CheckAndGetStore(c, x, uri) = <<a, b>> /\ CmCheckAndGetCommonUri(x, StoreOf(uri), uri) = <<d>>
    BY <1>4 DEF CheckAndGetStore, CmCheckAndGetCommonUri, StoreOf
  <2> HIDE DEF a, b, d
  <2>2. Checks(<<a, b>>) /\ Checks(<<d>>)
    BY <1>1, OneCheck, TwoChecks
  <2>3. v.ctx = x /\ Passes(<<a, b>>)
    BY <2>1, <2>2, BothChecks, VerdictPasses
  <2> QED
    BY <1>1, <1>2, <1>4, <2>3, TwoChecks DEF MayUse
<1>5. CASE uri.type # "SYS_KEY"
  <2>1. CheckAndGetStore(c, x, uri) = <<>> /\ CmCheckAndGetCommonUri(x, StoreOf(uri), uri) = <<e, f>>
    BY <1>5 DEF CheckAndGetStore, CmCheckAndGetCommonUri, StoreOf
  <2> HIDE DEF e, f
  <2>2. Checks(<<>>) /\ Checks(<<e, f>>)
    BY <1>1, NoChecks, TwoChecks
  <2>3. v.ctx = x /\ Passes(<<e, f>>)
    BY <2>1, <2>2, BothChecks, VerdictPasses
  <2> QED
    BY <1>1, <1>3, <1>5, <2>3, TwoChecks DEF MayUse
<1> QED
  BY <1>4, <1>5

LEMMA InitChecked ==
    ASSUME NEW c, NEW x, NEW uri, NEW handle, NEW v, v = CmServiceInit(c, x, uri, handle), v.err = "SUCCESS"
    PROVE  v.ctx = x /\ CmHasCommonPermission(c) /\ MayUse(x, uri)
<1> DEFINE a == BadUri(uri)
           b == <<~CmCheckBlob(handle), "INVALID_ARGUMENT_HANDLE">>
           t == CheckPermission(c, FALSE, TRUE)
           w == Verdict(<<a, b>> \o t, x)
<1>1. /\ w.err = "SUCCESS"
      /\ v = Verdict(CheckAndGetStore(c, w.ctx, uri)
                     \o CmCheckAndGetCommonUri(w.ctx, StoreOf(uri), uri), w.ctx)
  BY DEF CmServiceInit, Then
<1>2. IsCheck(a) /\ IsCheck(b)
  BY UriIsGood DEF IsCheck
<1> HIDE DEF a, b
<1>3. Checks(<<a, b>>) /\ Checks(t) /\ (Passes(t) => CmHasCommonPermission(c))
  BY <1>2, TwoChecks, PermissionsNeeded
<1> HIDE DEF t
<1>4. w.ctx = x /\ Passes(t)
  BY <1>1, <1>3, BothChecks, VerdictPasses
<1> HIDE DEF w
<1> QED
  BY <1>1, <1>3, <1>4, UseChecked

\* Going on with a session.
LEMMA SessionChecked ==
    ASSUME NEW c, NEW x, NEW a, NEW v, IsCheck(a), v = Verdict(<<a>> \o CheckPermission(c, FALSE, TRUE), x),
           v.err = "SUCCESS"
    PROVE  v.ctx = x /\ CmHasCommonPermission(c)
<1> DEFINE t == CheckPermission(c, FALSE, TRUE)
<1>1. Checks(<<a>>) /\ Checks(t) /\ (Passes(t) => CmHasCommonPermission(c))
  BY OneCheck, PermissionsNeeded
<1>2. v = Verdict(<<a>> \o t, x)
  OBVIOUS
<1> HIDE DEF t
<1>3. Checks(<<a>> \o t) /\ (Passes(<<a>> \o t) => Passes(t))
  BY <1>1, BothChecks
<1>4. v.ctx = x /\ (v.err = "SUCCESS" => Passes(<<a>> \o t))
  BY <1>2, <1>3, VerdictPasses
<1> QED
  BY <1>1, <1>3, <1>4

LEMMA UpdateChecked ==
    ASSUME NEW c, NEW x, NEW handle, NEW inData, NEW v, v = CmServiceUpdate(c, x, handle, inData),
           v.err = "SUCCESS"
    PROVE  v.ctx = x /\ CmHasCommonPermission(c)
<1> DEFINE a == <<~CmCheckBlob(handle), "INVALID_ARGUMENT_HANDLE">>
           b == <<~CmCheckBlob(inData), "INVALID_ARGUMENT">>
           t == CheckPermission(c, FALSE, TRUE)
<1>1. v = Verdict(<<a, b>> \o t, x)
  BY DEF CmServiceUpdate
<1>2. IsCheck(a) /\ IsCheck(b)
  BY DEF IsCheck
<1> HIDE DEF a, b
<1>3. Checks(<<a, b>>) /\ Checks(t) /\ (Passes(t) => CmHasCommonPermission(c))
  BY <1>2, TwoChecks, PermissionsNeeded
<1> HIDE DEF t
<1> QED
  BY <1>1, <1>3, BothChecks, VerdictPasses

LEMMA FinishChecked ==
    ASSUME NEW c, NEW x, NEW handle, NEW v, v = CmServiceFinish(c, x, handle), v.err = "SUCCESS"
    PROVE  v.ctx = x /\ CmHasCommonPermission(c)
<1> DEFINE a == <<~CmCheckBlob(handle), "INVALID_ARGUMENT_HANDLE">>
<1>1. v = Verdict(<<a>> \o CheckPermission(c, FALSE, TRUE), x) /\ IsCheck(a)
  BY DEF CmServiceFinish, IsCheck
<1> HIDE DEF a
<1> QED
  BY <1>1, SessionChecked

LEMMA IsAuthorizedChecked ==
    ASSUME NEW c, NEW x, NEW uri, NEW v, v = CmServiceIsAuthorizedApp(c, x, uri), v.err = "SUCCESS"
    PROVE  v.ctx = x /\ CmHasCommonPermission(c)
<1> DEFINE a == <<~CheckUri(uri), "INVALID_ARGUMENT">>
<1>1. v = Verdict(<<a>> \o CheckPermission(c, FALSE, TRUE), x) /\ IsCheck(a)
  BY DEF CmServiceIsAuthorizedApp, IsCheck
<1> HIDE DEF a
<1> QED
  BY <1>1, SessionChecked

LEMMA CheckAppPermissionKeepsContext ==
    ASSUME NEW c, NEW x, NEW uri PROVE CmServiceCheckAppPermission(c, x, uri).ctx = x
  BY DEF CmServiceCheckAppPermission, Then, Verdict

-----------------------------------------------------------------------------
(* Handlers.  What each lets pass is the caller's to do.                    *)

ContextOf(c) == [userId |-> c.userId, uid |-> c.uid]

SystemManages(c, h) ==
    /\ \/ CmHasCommonPermission(c)
       \/ h.work \in {"CmInstallUserTrustedCert", "CmUninstallUserTrustedCert"} /\ MayChangeCAs(c)
    /\ \/ CmIsSystemApp(c)
       \/ h.work \in CA_WORK \cup KEY_USE \cup UKEY_WORK
       \/ (h.work \in {"CmInstallAppCert", "CmUninstallAppCert", "CmCallingGetAppCertList"}
           /\ h.args.store = "PRI_CREDENTIAL")
       \/ h.work = "CmGetAppCert" /\ h.args.store # "SYS_CREDENTIAL"

\* The user it is for.
ForUser(c, h) ==
    c.userId # SA_USER => \/ h.ctx.userId = c.userId
                          \/ h.ctx.userId = SA_USER /\ h.work \in CA_WORK
UsesOwn(c, h) == h.work = "CmInit" => MayUse(ContextOf(c), h.args.authUri)
ListsOwn(c, h) ==
    h.work = "CmGetUserCACertList" =>
        /\ h.ctx = ContextOf(c)
        /\ h.args.store = "USER_TRUSTED" /\ c.userId # SA_USER => h.args.userId = INVALID

Right(c, h) == SystemManages(c, h) /\ ForUser(c, h) /\ UsesOwn(c, h) /\ ListsOwn(c, h)

\* Most work is no use of a key and no list.
LEMMA OtherWork ==
    ASSUME NEW c, NEW h, h.work \notin {"CmInit", "CmGetUserCACertList"}
    PROVE  UsesOwn(c, h) /\ ListsOwn(c, h)
  BY DEF UsesOwn, ListsOwn
LEMMA SystemsWork ==
    ASSUME NEW c, NEW h, CmHasCommonPermission(c), CmIsSystemApp(c)
    PROVE  SystemManages(c, h)
  BY DEF SystemManages
LEMMA OwnUser ==
    ASSUME NEW c, NEW h, c.userId # SA_USER => h.ctx.userId = c.userId
    PROVE  ForUser(c, h)
  BY DEF ForUser
LEMMA ContextIsOwn ==
    ASSUME NEW c PROVE ContextOf(c).userId = c.userId /\ ContextOf(c).uid = c.uid
                       /\ ContextOf(c) = [userId |-> ContextOf(c).userId, uid |-> ContextOf(c).uid]
  BY DEF ContextOf
LEMMA CAsWork ==
    ASSUME NEW c, NEW h, h.work \in CA_WORK,
           c.userId # SA_USER => OwnOrPublic(ContextOf(c), h.ctx, "CERTIFICATE")
    PROVE  ForUser(c, h)
  BY ContextIsOwn DEF ForUser, OwnOrPublic

LEMMA GetCertificateListIsRight ==
    ASSUME NEW c, NEW p, NEW out, NEW h,
           h = CmIpcServiceGetCertificateList(c, ContextOf(c), p, out), h.err = "SUCCESS"
    PROVE  h.work = "CmGetCertList" /\ Right(c, h)
<1> DEFINE x == ContextOf(c)
           v == CmServiceGetSystemCertListCheck(c, x, h.args.store)
           w == CmServiceGetCertList(v.ctx, INVALID, "ALL_USER", h.args.store)
<1>1. h.work = "CmGetCertList" /\ v.err = "SUCCESS" /\ w.err = "SUCCESS" /\ h.ctx = w.ctx
  BY DEF CmIpcServiceGetCertificateList, Handle, Then, Refused
<1>2. v.ctx = x /\ CmHasCommonPermission(c) /\ CmIsSystemApp(c)
  BY <1>1, SystemCertListChecked
<1>3. w.ctx = v.ctx
  BY <1>1, CertListChecked
<1> HIDE DEF v, w
<1> QED
  BY <1>1, <1>2, <1>3, SystemsWork, OtherWork, OwnUser, ContextIsOwn DEF Right

LEMMA GetCertificateInfoIsRight ==
    ASSUME NEW c, NEW p, NEW out, NEW h,
           h = CmIpcServiceGetCertificateInfo(c, ContextOf(c), p, out), h.err = "SUCCESS"
    PROVE  h.work = "CmGetCertInfo" /\ Right(c, h)
<1> DEFINE x == ContextOf(c)
           v == CmServiceGetSystemCertCheck(c, x, h.args.store, h.args.certUri)
           w == CmServiceGetCertInfo(v.ctx, h.args.certUri, h.args.store)
<1>1. h.work = "CmGetCertInfo" /\ v.err = "SUCCESS" /\ w.err = "SUCCESS" /\ h.ctx = w.ctx
  BY DEF CmIpcServiceGetCertificateInfo, Handle, Then, Refused
<1>2. v.ctx = x /\ CmHasCommonPermission(c) /\ CmIsSystemApp(c) /\ h.args.store = "SYSTEM_TRUSTED"
  BY <1>1, SystemCertChecked
<1>3. c.userId # SA_USER => w.ctx = x
  BY <1>1, <1>2, UserCertInfoChecked, ContextIsOwn
<1> HIDE DEF v, w
<1> QED
  BY <1>1, <1>2, <1>3, SystemsWork, OtherWork, OwnUser, ContextIsOwn DEF Right

LEMMA SetCertStatusIsRight ==
    ASSUME NEW c, NEW p, NEW out, NEW h,
           h = CmIpcServiceSetCertStatus(c, ContextOf(c), p, out), h.err = "SUCCESS"
    PROVE  h.work = "CmSetCertStatus" /\ Right(c, h)
<1> DEFINE x == ContextOf(c)
           v == CmServiceSetCertStatusCheck(c, x, h.args.store, h.args.certUri, h.args.status)
<1>1. h.work = "CmSetCertStatus" /\ v.err = "SUCCESS" /\ h.ctx = v.ctx
  BY DEF CmIpcServiceSetCertStatus, Handle, Refused
<1>2. v.ctx = x /\ CmHasCommonPermission(c) /\ CmIsSystemApp(c)
  BY <1>1, SetCertStatusChecked
<1> HIDE DEF v
<1> QED
  BY <1>1, <1>2, SystemsWork, OtherWork, OwnUser, ContextIsOwn DEF Right

LEMMA PrivateWork ==
    ASSUME NEW c, NEW h, MayHave(c, h.args.store),
           h.work \in {"CmInstallAppCert", "CmUninstallAppCert", "CmCallingGetAppCertList"}
    PROVE  SystemManages(c, h)
  BY DEF SystemManages, MayHave

LEMMA InstallAppCertIsRight ==
    ASSUME NEW c, NEW p, NEW out, NEW h,
           h = CmIpcServiceInstallAppCert(c, ContextOf(c), p, out), h.err = "SUCCESS"
    PROVE  h.work = "CmInstallAppCert" /\ Right(c, h)
<1> DEFINE x == ContextOf(c)
           v == CmServiceInstallAppCertCheck(c, x, h.args)
<1>1. h.work = "CmInstallAppCert" /\ v.err = "SUCCESS" /\ h.ctx = v.ctx
  BY DEF CmIpcServiceInstallAppCert, Handle, Refused
<1>2. MayHave(c, h.args.store) /\ (c.userId # SA_USER => v.ctx = x)
  BY <1>1, InstallAppCertChecked, ContextIsOwn
<1> HIDE DEF v
<1> QED
  BY <1>1, <1>2, PrivateWork, OtherWork, OwnUser, ContextIsOwn DEF Right

LEMMA UninstallAppCertIsRight ==
    ASSUME NEW c, NEW p, NEW out, NEW h,
           h = CmIpcServiceUninstallAppCert(c, ContextOf(c), p, out), h.err = "SUCCESS"
    PROVE  h.work = "CmUninstallAppCert" /\ Right(c, h)
<1> DEFINE x == ContextOf(c)
           v == CmServiceUninstallAppCertCheck(c, x, h.args.store, h.args.keyUri)
<1>1. h.work = "CmUninstallAppCert" /\ v.err = "SUCCESS" /\ h.ctx = v.ctx
  BY DEF CmIpcServiceUninstallAppCert, Handle, Refused
<1>2. MayHave(c, h.args.store) /\ (c.userId # SA_USER => v.ctx.userId = c.userId)
  BY <1>1, UninstallAppCertChecked, ContextIsOwn
<1> HIDE DEF v
<1> QED
  BY <1>1, <1>2, PrivateWork, OtherWork, OwnUser DEF Right

LEMMA UninstallAllAppCertIsRight ==
    ASSUME NEW c, NEW p, NEW out, NEW h,
           h = CmIpcServiceUninstallAllAppCert(c, ContextOf(c), p, out), h.err = "SUCCESS"
    PROVE  h.work = "CmUninstallAllAppCert" /\ Right(c, h)
<1> DEFINE v == CmRemoveAllAppCert(c, ContextOf(c))
<1>1. h.work = "CmUninstallAllAppCert" /\ v.err = "SUCCESS" /\ h.ctx = v.ctx
  BY DEF CmIpcServiceUninstallAllAppCert, HandleAll
<1>2. v.ctx = ContextOf(c) /\ CmHasCommonPermission(c) /\ CmIsSystemApp(c)
  BY <1>1, RemoveAllChecked
<1> HIDE DEF v
<1> QED
  BY <1>1, <1>2, SystemsWork, OtherWork, OwnUser, ContextIsOwn DEF Right

LEMMA GetAppCertListIsRight ==
    ASSUME NEW c, NEW p, NEW out, NEW h,
           h = CmIpcServiceGetAppCertList(c, ContextOf(c), p, out), h.err = "SUCCESS"
    PROVE  h.work = "CmGetAppCertList" /\ Right(c, h)
<1> DEFINE v == CmServiceGetAppCertListCheck(c, ContextOf(c), h.args.store)
<1>1. h.work = "CmGetAppCertList" /\ v.err = "SUCCESS" /\ h.ctx = v.ctx
  BY DEF CmIpcServiceGetAppCertList, Handle, Refused
<1>2. v.ctx = ContextOf(c) /\ CmHasCommonPermission(c) /\ CmIsSystemApp(c)
  BY <1>1, AppCertListChecked
<1> HIDE DEF v
<1> QED
  BY <1>1, <1>2, SystemsWork, OtherWork, OwnUser, ContextIsOwn DEF Right

\* It works for the application that is named, of the same user.
LEMMA GetAppCertListByUidIsRight ==
    ASSUME NEW c, NEW p, NEW out, NEW h,
           h = CmIpcServiceGetAppCertListByUid(c, ContextOf(c), p, out), h.err = "SUCCESS"
    PROVE  h.work = "CmGetAppCertListByUid" /\ Right(c, h)
<1> DEFINE x == [ContextOf(c) EXCEPT !.uid = h.args.appUid]
           v == CmServiceGetAppCertListCheck(c, x, h.args.store)
<1>1. h.work = "CmGetAppCertListByUid" /\ v.err = "SUCCESS" /\ h.ctx = v.ctx
  BY DEF CmIpcServiceGetAppCertListByUid, Handle, Refused
<1>2. v.ctx = x /\ CmHasCommonPermission(c) /\ CmIsSystemApp(c)
  BY <1>1, AppCertListChecked
<1>3. x.userId = c.userId
  BY DEF ContextOf
<1> HIDE DEF v, x
<1> QED
  BY <1>1, <1>2, <1>3, SystemsWork, OtherWork, OwnUser DEF Right

LEMMA GetCallingAppCertListIsRight ==
    ASSUME NEW c, NEW p, NEW out, NEW h,
           h = CmIpcServiceGetCallingAppCertList(c, ContextOf(c), p, out), h.err = "SUCCESS"
    PROVE  h.work = "CmCallingGetAppCertList" /\ Right(c, h)
<1> DEFINE v == CmServiceGetCallingAppCertListCheck(c, ContextOf(c), h.args.store)
<1>1. h.work = "CmCallingGetAppCertList" /\ v.err = "SUCCESS" /\ h.ctx = v.ctx
  BY DEF CmIpcServiceGetCallingAppCertList, Handle, Refused
<1>2. v.ctx = ContextOf(c) /\ MayHave(c, h.args.store)
  BY <1>1, CallingAppCertListChecked
<1> HIDE DEF v
<1> QED
  BY <1>1, <1>2, PrivateWork, OtherWork, OwnUser, ContextIsOwn DEF Right

LEMMA KeyWork ==
    ASSUME NEW c, NEW h, CmHasCommonPermission(c),
           h.work \in {"CmGetUserCACertList", "CmGetUserCertInfo", "CmInit", "CmUpdate", "CmFinish",
                       "CmAbort", "CmIsAuthorizedApp", "CmCheckAppPermission", "CmGetUkeyCertList",
                       "CmGetUkeyCert", "CmImportUkeyCert"}
    PROVE  SystemManages(c, h)
  BY DEF SystemManages, CA_WORK, KEY_USE, UKEY_WORK

LEMMA UkeyWorkIsRight ==
    ASSUME NEW c, NEW p, NEW tags, NEW work \in {"CmGetUkeyCertList", "CmGetUkeyCert"}, NEW h,
           h = CmIpcServiceGetUkeyCertListCommon(c, ContextOf(c), p, tags, work), h.err = "SUCCESS"
    PROVE  h.work = work /\ Right(c, h)
<1> DEFINE a == Denied(CmHasCommonPermission(c))
           v == Verdict(<<a>>, ContextOf(c))
<1>1. h.work = work /\ v.err = "SUCCESS" /\ h.ctx = v.ctx
  BY DEF CmIpcServiceGetUkeyCertListCommon, Handle, Refused
<1>2. IsCheck(a) /\ (~a[1] => CmHasCommonPermission(c))
  BY DeniedIsCheck, Permitted
<1> HIDE DEF a
<1>3. v.ctx = ContextOf(c) /\ CmHasCommonPermission(c)
  BY <1>1, <1>2, OneCheck, VerdictPasses
<1> HIDE DEF v
<1> QED
  BY <1>1, <1>3, KeyWork, OtherWork, OwnUser, ContextIsOwn DEF Right

LEMMA GetUkeyCertListIsRight ==
    ASSUME NEW c, NEW p, NEW out, NEW h,
           h = CmIpcServiceGetUkeyCertList(c, ContextOf(c), p, out), h.err = "SUCCESS"
    PROVE  h.work = "CmGetUkeyCertList" /\ Right(c, h)
  BY UkeyWorkIsRight DEF CmIpcServiceGetUkeyCertList
LEMMA GetUkeyCertIsRight ==
    ASSUME NEW c, NEW p, NEW out, NEW h,
           h = CmIpcServiceGetUkeyCert(c, ContextOf(c), p, out), h.err = "SUCCESS"
    PROVE  h.work = "CmGetUkeyCert" /\ Right(c, h)
  BY UkeyWorkIsRight DEF CmIpcServiceGetUkeyCert

LEMMA GetAppCertIsRight ==
    ASSUME NEW c, NEW p, NEW out, NEW h,
           h = CmIpcServiceGetAppCert(c, ContextOf(c), p, out), h.err = "SUCCESS"
    PROVE  h.work = "CmGetAppCert" /\ Right(c, h)
<1> DEFINE x == ContextOf(c)
           v == CmServiceGetAppCertCheck(c, x, h.args.store, h.args.keyUri)
           w == CmServiceGetAppCert(c, v.ctx, h.args.store, h.args.keyUri)
<1>1. h.work = "CmGetAppCert" /\ v.err = "SUCCESS" /\ w.err = "SUCCESS" /\ h.ctx = w.ctx
  BY DEF CmIpcServiceGetAppCert, Handle, Then, Refused
<1>2. /\ CmHasCommonPermission(c) /\ (h.args.store = "SYS_CREDENTIAL" => CmIsSystemApp(c))
      /\ c.userId # SA_USER => v.ctx.userId = c.userId
  BY <1>1, GetAppCertChecked, ContextIsOwn
<1>3. w.ctx = v.ctx
  BY GetAppCertKeepsContext
<1> HIDE DEF v, w
<1>4. SystemManages(c, h)
  BY <1>1, <1>2 DEF SystemManages
<1> QED
  BY <1>1, <1>2, <1>3, <1>4, OtherWork, OwnUser DEF Right

LEMMA GrantAppCertificateIsRight ==
    ASSUME NEW c, NEW p, NEW out, NEW h,
           h = CmIpcServiceGrantAppCertificate(c, ContextOf(c), p, out), h.err = "SUCCESS"
    PROVE  h.work = "CmGrantAppCertificate" /\ Right(c, h)
<1> DEFINE v == CmServiceGrantAppCertificate(c, ContextOf(c), h.args.keyUri, Blob(out))
<1>1. h.work = "CmGrantAppCertificate" /\ v.err = "SUCCESS" /\ h.ctx = v.ctx
  BY DEF CmIpcServiceGrantAppCertificate, Handle, Refused
<1>2. v.ctx = ContextOf(c) /\ CmHasCommonPermission(c) /\ CmIsSystemApp(c)
  BY <1>1, GrantChecked
<1> HIDE DEF v
<1> QED
  BY <1>1, <1>2, SystemsWork, OtherWork, OwnUser, ContextIsOwn DEF Right

LEMMA GetAuthorizedAppListIsRight ==
    ASSUME NEW c, NEW p, NEW out, NEW h,
           h = CmIpcServiceGetAuthorizedAppList(c, ContextOf(c), p, out), h.err = "SUCCESS"
    PROVE  h.work = "CmGetAuthorizedAppList" /\ Right(c, h)
<1> DEFINE u == Verdict(<< <<~CmCheckBlob(Blob(out)), "BUFFER_TOO_SMALL">> >>, ContextOf(c))
           v == CmServiceGetAuthorizedAppList(c, u.ctx, h.args.keyUri)
<1>1. h.work = "CmGetAuthorizedAppList" /\ v.err = "SUCCESS" /\ h.ctx = v.ctx
  BY DEF CmIpcServiceGetAuthorizedAppList, Handle, Then, Refused
<1>2. u.ctx = ContextOf(c)
  BY DEF Verdict
<1> HIDE DEF u
<1>3. v.ctx = ContextOf(c) /\ CmHasCommonPermission(c) /\ CmIsSystemApp(c)
  BY <1>1, <1>2, GrantChecked DEF CmServiceGetAuthorizedAppList
<1> HIDE DEF v
<1> QED
  BY <1>1, <1>3, SystemsWork, OtherWork, OwnUser, ContextIsOwn DEF Right

LEMMA IsAuthorizedAppIsRight ==
    ASSUME NEW c, NEW p, NEW out, NEW h,
           h = CmIpcServiceIsAuthorizedApp(c, ContextOf(c), p, out), h.err = "SUCCESS"
    PROVE  h.work = "CmIsAuthorizedApp" /\ Right(c, h)
<1> DEFINE v == CmServiceIsAuthorizedApp(c, ContextOf(c), h.args.authUri)
<1>1. h.work = "CmIsAuthorizedApp" /\ v.err = "SUCCESS" /\ h.ctx = v.ctx
  BY DEF CmIpcServiceIsAuthorizedApp, Handle, Refused
<1>2. v.ctx = ContextOf(c) /\ CmHasCommonPermission(c)
  BY <1>1, IsAuthorizedChecked
<1> HIDE DEF v
<1> QED
  BY <1>1, <1>2, KeyWork, OtherWork, OwnUser, ContextIsOwn DEF Right

LEMMA RemoveGrantedAppIsRight ==
    ASSUME NEW c, NEW p, NEW out, NEW h,
           h = CmIpcServiceRemoveGrantedApp(c, ContextOf(c), p, out), h.err = "SUCCESS"
    PROVE  h.work = "CmRemoveGrantedApp" /\ Right(c, h)
<1> DEFINE v == CmServiceGetAuthorizedAppList(c, ContextOf(c), h.args.keyUri)
<1>1. h.work = "CmRemoveGrantedApp" /\ v.err = "SUCCESS" /\ h.ctx = v.ctx
  BY DEF CmIpcServiceRemoveGrantedApp, Handle, Refused
<1>2. v.ctx = ContextOf(c) /\ CmHasCommonPermission(c) /\ CmIsSystemApp(c)
  BY <1>1, GrantChecked DEF CmServiceGetAuthorizedAppList
<1> HIDE DEF v
<1> QED
  BY <1>1, <1>2, SystemsWork, OtherWork, OwnUser, ContextIsOwn DEF Right

LEMMA InitIsRight ==
    ASSUME NEW c, NEW p, NEW out, NEW h,
           h = CmIpcServiceInit(c, ContextOf(c), p, out), h.err = "SUCCESS"
    PROVE  h.work = "CmInit" /\ Right(c, h)
<1> DEFINE u == Verdict(<< <<~CmCheckBlob(h.args.spec), "INVALID_ARGUMENT_SIGN_SPEC">> >>, ContextOf(c))
           v == CmServiceInit(c, u.ctx, h.args.authUri, Blob(out))
<1>1. h.work = "CmInit" /\ v.err = "SUCCESS" /\ h.ctx = v.ctx
  BY DEF CmIpcServiceInit, Handle, Then, Refused
<1>2. u.ctx = ContextOf(c)
  BY DEF Verdict
<1> HIDE DEF u
<1>3. v.ctx = ContextOf(c) /\ CmHasCommonPermission(c) /\ MayUse(ContextOf(c), h.args.authUri)
  BY <1>1, <1>2, InitChecked
<1> HIDE DEF v
<1>4. UsesOwn(c, h) /\ ListsOwn(c, h)
  BY <1>1, <1>3 DEF UsesOwn, ListsOwn
<1> QED
  BY <1>1, <1>3, <1>4, KeyWork, OwnUser, ContextIsOwn DEF Right

LEMMA UpdateIsRight ==
    ASSUME NEW c, NEW p, NEW out, NEW h,
           h = CmIpcServiceUpdate(c, ContextOf(c), p, out), h.err = "SUCCESS"
    PROVE  h.work = "CmUpdate" /\ Right(c, h)
<1> DEFINE v == CmServiceUpdate(c, ContextOf(c), h.args.handle, h.args.inData)
<1>1. h.work = "CmUpdate" /\ v.err = "SUCCESS" /\ h.ctx = v.ctx
  BY DEF CmIpcServiceUpdate, Handle, Refused
<1>2. v.ctx = ContextOf(c) /\ CmHasCommonPermission(c)
  BY <1>1, UpdateChecked
<1> HIDE DEF v
<1> QED
  BY <1>1, <1>2, KeyWork, OtherWork, OwnUser, ContextIsOwn DEF Right

LEMMA FinishIsRight ==
    ASSUME NEW c, NEW p, NEW out, NEW h,
           h = CmIpcServiceFinish(c, ContextOf(c), p, out), h.err = "SUCCESS"
    PROVE  h.work = "CmFinish" /\ Right(c, h)
<1> DEFINE v == CmServiceFinish(c, ContextOf(c), h.args.handle)
<1>1. h.work = "CmFinish" /\ v.err = "SUCCESS" /\ h.ctx = v.ctx
  BY DEF CmIpcServiceFinish, Handle, Refused
<1>2. v.ctx = ContextOf(c) /\ CmHasCommonPermission(c)
  BY <1>1, FinishChecked
<1> HIDE DEF v
<1> QED
  BY <1>1, <1>2, KeyWork, OtherWork, OwnUser, ContextIsOwn DEF Right

LEMMA AbortIsRight ==
    ASSUME NEW c, NEW p, NEW out, NEW h,
           h = CmIpcServiceAbort(c, ContextOf(c), p, out), h.err = "SUCCESS"
    PROVE  h.work = "CmAbort" /\ Right(c, h)
<1> DEFINE v == CmServiceFinish(c, ContextOf(c), h.args.handle)
<1>1. h.work = "CmAbort" /\ v.err = "SUCCESS" /\ h.ctx = v.ctx
  BY DEF CmIpcServiceAbort, Handle, Refused
<1>2. v.ctx = ContextOf(c) /\ CmHasCommonPermission(c)
  BY <1>1, FinishChecked
<1> HIDE DEF v
<1> QED
  BY <1>1, <1>2, KeyWork, OtherWork, OwnUser, ContextIsOwn DEF Right

LEMMA GetUserCertListIsRight ==
    ASSUME NEW c, NEW p, NEW out, NEW h,
           h = CmIpcServiceGetUserCertList(c, ContextOf(c), p, out), h.err = "SUCCESS"
    PROVE  h.work = "CmGetUserCACertList" /\ Right(c, h)
<1> DEFINE t == CmHasGetCAPermission(c, h.args.store)
           u == Verdict(t, ContextOf(c))
           v == CmServiceGetCertList(u.ctx, h.args.userId, h.args.scope, h.args.store)
<1>1. h.work = "CmGetUserCACertList" /\ u.err = "SUCCESS" /\ v.err = "SUCCESS" /\ h.ctx = v.ctx
  BY DEF CmIpcServiceGetUserCertList, Handle, Then, Refused
<1>2. Checks(t) /\ (Passes(t) => CmHasCommonPermission(c))
  BY GetCAPermission
<1> HIDE DEF t
<1>3. u.ctx = ContextOf(c) /\ CmHasCommonPermission(c)
  BY <1>1, <1>2, VerdictPasses
<1> HIDE DEF u
<1>4. v.ctx = ContextOf(c) /\ (h.args.store = "USER_TRUSTED" /\ c.userId # SA_USER => h.args.userId = INVALID)
  BY <1>1, <1>3, CertListChecked, ContextIsOwn
<1> HIDE DEF v
<1>5. UsesOwn(c, h) /\ ListsOwn(c, h)
  BY <1>1, <1>4 DEF UsesOwn, ListsOwn
<1> QED
  BY <1>1, <1>3, <1>4, <1>5, KeyWork, OwnUser, ContextIsOwn DEF Right

LEMMA GetUserCertInfoIsRight ==
    ASSUME NEW c, NEW p, NEW out, NEW h,
           h = CmIpcServiceGetUserCertInfo(c, ContextOf(c), p, out), h.err = "SUCCESS"
    PROVE  h.work = "CmGetUserCertInfo" /\ Right(c, h)
<1> DEFINE a == Denied(CmHasCommonPermission(c))
           u == Verdict(<<a>>, ContextOf(c))
           v == CmServiceGetCertInfo(u.ctx, h.args.certUri, h.args.store)
<1>1. h.work = "CmGetUserCertInfo" /\ u.err = "SUCCESS" /\ v.err = "SUCCESS" /\ h.ctx = v.ctx
  BY DEF CmIpcServiceGetUserCertInfo, Handle, Then, Refused
<1>2. IsCheck(a) /\ (~a[1] => CmHasCommonPermission(c))
  BY DeniedIsCheck, Permitted
<1> HIDE DEF a
<1>3. u.ctx = ContextOf(c) /\ CmHasCommonPermission(c)
  BY <1>1, <1>2, OneCheck, VerdictPasses
<1> HIDE DEF u
<1>4. c.userId # SA_USER => OwnOrPublic(ContextOf(c), v.ctx, "CERTIFICATE")
  BY <1>1, <1>3, UserCertInfoChecked, ContextIsOwn
<1> HIDE DEF v
<1>5. ForUser(c, h)
  BY <1>1, <1>4, CAsWork DEF CA_WORK
<1> QED
  BY <1>1, <1>3, <1>5, KeyWork, OtherWork DEF Right

LEMMA SetUserCertStatusIsRight ==
    ASSUME NEW c, NEW p, NEW out, NEW h,
           h = CmIpcServiceSetUserCertStatus(c, ContextOf(c), p, out), h.err = "SUCCESS"
    PROVE  h.work = "CmSetUserCertStatus" /\ Right(c, h)
<1> DEFINE v == CmServiceSetUserCertStatusCheck(c, ContextOf(c), h.args.certUri)
<1>1. h.work = "CmSetUserCertStatus" /\ v.err = "SUCCESS" /\ h.ctx = v.ctx
  BY DEF CmIpcServiceSetUserCertStatus, Handle, Refused
<1>2. /\ CmHasCommonPermission(c) /\ CmIsSystemApp(c)
      /\ c.userId # SA_USER => OwnOrPublic(ContextOf(c), v.ctx, "CERTIFICATE")
  BY <1>1, SetUserCertStatusChecked, ContextIsOwn
<1> HIDE DEF v
<1>3. ForUser(c, h)
  BY <1>1, <1>2, CAsWork DEF CA_WORK
<1> QED
  BY <1>1, <1>2, <1>3, SystemsWork, OtherWork DEF Right

LEMMA ChangeWork ==
    ASSUME NEW c, NEW h, MayChangeCAs(c), h.work \in {"CmInstallUserTrustedCert", "CmUninstallUserTrustedCert"}
    PROVE  SystemManages(c, h)
  BY DEF SystemManages, CA_WORK

LEMMA InstallUserCertIsRight ==
    ASSUME NEW c, NEW p, NEW out, NEW h,
           h = CmIpcServiceInstallUserCert(c, ContextOf(c), p, out), h.err = "SUCCESS"
    PROVE  h.work = "CmInstallUserTrustedCert" /\ Right(c, h)
<1> DEFINE u == CmServiceInstallUserCertCheck(c, ContextOf(c), h.args.userCert, h.args.alias, h.args.userId)
           l == << <<~CmCheckBlob(Blob(out)), "INVALID_ARGUMENT">>,
                   <<h.args.format \notin {"PEM_DER", "P7B"}, "NOT_SUPPORTED">> >>
           v == Verdict(l, u.ctx)
<1>1. h.work = "CmInstallUserTrustedCert" /\ u.err = "SUCCESS" /\ v.err = "SUCCESS" /\ h.ctx = v.ctx
  BY DEF CmIpcServiceInstallUserCert, Handle, Then, Refused
<1>2. MayChangeCAs(c) /\ (c.userId # SA_USER => OwnOrPublic(ContextOf(c), u.ctx, "CERTIFICATE"))
  BY <1>1, InstallUserCertChecked, ContextIsOwn
<1>3. v.ctx = u.ctx
  BY DEF Verdict
<1> HIDE DEF u, v
<1>4. ForUser(c, h)
  BY <1>1, <1>2, <1>3, CAsWork DEF CA_WORK
<1> QED
  BY <1>1, <1>2, <1>4, ChangeWork, OtherWork DEF Right

LEMMA UninstallUserCertIsRight ==
    ASSUME NEW c, NEW p, NEW out, NEW h,
           h = CmIpcServiceUninstallUserCert(c, ContextOf(c), p, out), h.err = "SUCCESS"
    PROVE  h.work = "CmUninstallUserTrustedCert" /\ Right(c, h)
<1> DEFINE u == CmServiceUninstallUserCertCheck(c, ContextOf(c), h.args.certUri)
           v == CmComparisonCallerIdWithUri(u.ctx, h.args.certUri)
<1>1. h.work = "CmUninstallUserTrustedCert" /\ u.err = "SUCCESS" /\ v.err = "SUCCESS" /\ h.ctx = v.ctx
  BY DEF CmIpcServiceUninstallUserCert, Handle, Then, Refused
<1>2. MayChangeCAs(c) /\ (c.userId # SA_USER => OwnOrPublic(ContextOf(c), u.ctx, "CERTIFICATE"))
  BY <1>1, UninstallUserCertChecked, ContextIsOwn
<1>3. v.ctx = u.ctx
  BY UriComparedIsSame
<1> HIDE DEF u, v
<1>4. ForUser(c, h)
  BY <1>1, <1>2, <1>3, CAsWork DEF CA_WORK
<1> QED
  BY <1>1, <1>2, <1>4, ChangeWork, OtherWork DEF Right

LEMMA UninstallAllUserCertIsRight ==
    ASSUME NEW c, NEW p, NEW out, NEW h,
           h = CmIpcServiceUninstallAllUserCert(c, ContextOf(c), p, out), h.err = "SUCCESS"
    PROVE  h.work = "CmUninstallAllUserTrustedCert" /\ Right(c, h)
<1> DEFINE a == Denied(CmHasCommonPermission(c) /\ CmHasUserTrustedPermission(c))
           b == NotSystem(c)
           v == Verdict(<<a, b>>, ContextOf(c))
<1>1. h.work = "CmUninstallAllUserTrustedCert" /\ v.err = "SUCCESS" /\ h.ctx = v.ctx
  BY DEF CmIpcServiceUninstallAllUserCert, HandleAll
<1>2. IsCheck(a) /\ IsCheck(b) /\ (~a[1] => CmHasCommonPermission(c)) /\ (~b[1] => CmIsSystemApp(c))
  BY Permitted DEF IsCheck, Denied
<1> HIDE DEF a, b
<1>3. v.ctx = ContextOf(c) /\ CmHasCommonPermission(c) /\ CmIsSystemApp(c)
  BY <1>1, <1>2, TwoChecks, VerdictPasses
<1> HIDE DEF v
<1> QED
  BY <1>1, <1>3, SystemsWork, OtherWork, OwnUser, ContextIsOwn DEF Right

\* It asks for the application that is named, of the same user.
LEMMA CheckAppPermissionIsRight ==
    ASSUME NEW c, NEW p, NEW out, NEW h,
           h = CmIpcServiceCheckAppPermission(c, ContextOf(c), p, out), h.err = "SUCCESS"
    PROVE  h.work = "CmCheckAppPermission" /\ Right(c, h)
<1> DEFINE a == Denied(CmHasCommonPermission(c))
           x == [ContextOf(c) EXCEPT !.uid = h.args.appUid]
           u == Verdict(<<a>>, x)
           v == CmServiceCheckAppPermission(c, u.ctx, h.args.keyUri)
<1>1. h.work = "CmCheckAppPermission" /\ u.err = "SUCCESS" /\ h.ctx = v.ctx
  BY DEF CmIpcServiceCheckAppPermission, Handle, Then, Refused
<1>2. IsCheck(a) /\ (~a[1] => CmHasCommonPermission(c))
  BY DeniedIsCheck, Permitted
<1>3. x.userId = c.userId
  BY DEF ContextOf
<1> HIDE DEF a, x
<1>4. u.ctx = x /\ CmHasCommonPermission(c)
  BY <1>1, <1>2, OneCheck, VerdictPasses
<1>5. v.ctx = u.ctx
  BY CheckAppPermissionKeepsContext
<1> HIDE DEF u, v
<1> QED
  BY <1>1, <1>3, <1>4, <1>5, KeyWork, OtherWork, OwnUser DEF Right

LEMMA ImportUkeyCertIsRight ==
    ASSUME NEW c, NEW p, NEW out, NEW h,
           h = CmIpcServiceImportUkeyCert(c, ContextOf(c), p, out), h.err = "SUCCESS"
    PROVE  h.work = "CmImportUkeyCert" /\ Right(c, h)
<1> DEFINE a == <<h.args.cert.form = "huge", "INVALID_ARGUMENT_LENGTH_TOO_LARGE">>
           b == Denied(CmHasCommonPermission(c))
           v == Verdict(<<a, b>>, ContextOf(c))
<1>1. h.work = "CmImportUkeyCert" /\ v.err = "SUCCESS" /\ h.ctx = v.ctx
  BY DEF CmIpcServiceImportUkeyCert, Handle, Refused
<1>2. IsCheck(a) /\ IsCheck(b) /\ (~b[1] => CmHasCommonPermission(c))
  BY DeniedIsCheck, Permitted DEF IsCheck
<1> HIDE DEF a, b
<1>3. v.ctx = ContextOf(c) /\ CmHasCommonPermission(c)
  BY <1>1, <1>2, TwoChecks, VerdictPasses
<1> HIDE DEF v
<1> QED
  BY <1>1, <1>3, KeyWork, OtherWork, OwnUser, ContextIsOwn DEF Right

-----------------------------------------------------------------------------
(* The table.                                                               *)

LEMMA RefusedWorksNot == ASSUME NEW err, NEW x PROVE Refused(err, x).work = ""
  BY DEF Refused

WorkAt ==
    [INSTALL_APP_CERTIFICATE |-> "CmInstallAppCert",
     UNINSTALL_APP_CERTIFICATE |-> "CmUninstallAppCert",
     UNINSTALL_ALL_APP_CERTIFICATE |-> "CmUninstallAllAppCert",
     GET_APP_CERTIFICATE_LIST |-> "CmGetAppCertList",
     GET_CALLING_APP_CERTIFICATE_LIST |-> "CmCallingGetAppCertList",
     GET_APP_CERTIFICATE |-> "CmGetAppCert",
     GET_APP_CERTIFICATE_LIST_BY_UID |-> "CmGetAppCertListByUid",
     GRANT_APP_CERT |-> "CmGrantAppCertificate",
     GET_AUTHED_LIST |-> "CmGetAuthorizedAppList",
     CHECK_IS_AUTHED_APP |-> "CmIsAuthorizedApp",
     REMOVE_GRANT_APP |-> "CmRemoveGrantedApp",
     INIT |-> "CmInit",
     UPDATE |-> "CmUpdate",
     FINISH |-> "CmFinish",
     ABORT |-> "CmAbort",
     GET_USER_CERTIFICATE_LIST |-> "CmGetUserCACertList",
     GET_USER_CERTIFICATE_INFO |-> "CmGetUserCertInfo",
     SET_USER_CERTIFICATE_STATUS |-> "CmSetUserCertStatus",
     INSTALL_USER_CERTIFICATE |-> "CmInstallUserTrustedCert",
     UNINSTALL_USER_CERTIFICATE |-> "CmUninstallUserTrustedCert",
     UNINSTALL_ALL_USER_CERTIFICATE |-> "CmUninstallAllUserTrustedCert",
     GET_CERTIFICATE_LIST |-> "CmGetCertList",
     GET_CERTIFICATE_INFO |-> "CmGetCertInfo",
     SET_CERTIFICATE_STATUS |-> "CmSetCertStatus",
     CHECK_APP_PERMISSION |-> "CmCheckAppPermission",
     GET_UKEY_CERTIFICATE_LIST |-> "CmGetUkeyCertList",
     GET_UKEY_CERTIFICATE |-> "CmGetUkeyCert",
     IMPORT_UKEY_CERTIFICATE |-> "CmImportUkeyCert"]

\* Every row of the table is right, and a code without one does no work.
LEMMA ProcessMessageIsRight ==
    ASSUME NEW c, NEW code, NEW p, NEW out, NEW h,
           h = ProcessMessage(code, c, ContextOf(c), p, out), h.err = "SUCCESS"
    PROVE  /\ h.work # "" => Right(c, h)
           /\ code \in DOMAIN WorkAt => h.work = WorkAt[code]
<1>1. CASE code = "INSTALL_APP_CERTIFICATE"
  <2>1. h = CmIpcServiceInstallAppCert(c, ContextOf(c), p, out)
    BY <1>1 DEF ProcessMessage
  <2> QED
    BY <1>1, <2>1, InstallAppCertIsRight DEF WorkAt
<1>2. CASE code = "UNINSTALL_APP_CERTIFICATE"
  <2>1. h = CmIpcServiceUninstallAppCert(c, ContextOf(c), p, out)
    BY <1>2 DEF ProcessMessage
  <2> QED
    BY <1>2, <2>1, UninstallAppCertIsRight DEF WorkAt
<1>3. CASE code = "UNINSTALL_ALL_APP_CERTIFICATE"
  <2>1. h = CmIpcServiceUninstallAllAppCert(c, ContextOf(c), p, out)
    BY <1>3 DEF ProcessMessage
  <2> QED
    BY <1>3, <2>1, UninstallAllAppCertIsRight DEF WorkAt
<1>4. CASE code = "GET_APP_CERTIFICATE_LIST"
  <2>1. h = CmIpcServiceGetAppCertList(c, ContextOf(c), p, out)
    BY <1>4 DEF ProcessMessage
  <2> QED
    BY <1>4, <2>1, GetAppCertListIsRight DEF WorkAt
<1>5. CASE code = "GET_CALLING_APP_CERTIFICATE_LIST"
  <2>1. h = CmIpcServiceGetCallingAppCertList(c, ContextOf(c), p, out)
    BY <1>5 DEF ProcessMessage
  <2> QED
    BY <1>5, <2>1, GetCallingAppCertListIsRight DEF WorkAt
<1>6. CASE code = "GET_APP_CERTIFICATE"
  <2>1. h = CmIpcServiceGetAppCert(c, ContextOf(c), p, out)
    BY <1>6 DEF ProcessMessage
  <2> QED
    BY <1>6, <2>1, GetAppCertIsRight DEF WorkAt
<1>7. CASE code = "GET_APP_CERTIFICATE_LIST_BY_UID"
  <2>1. h = CmIpcServiceGetAppCertListByUid(c, ContextOf(c), p, out)
    BY <1>7 DEF ProcessMessage
  <2> QED
    BY <1>7, <2>1, GetAppCertListByUidIsRight DEF WorkAt
<1>8. CASE code = "GRANT_APP_CERT"
  <2>1. h = CmIpcServiceGrantAppCertificate(c, ContextOf(c), p, out)
    BY <1>8 DEF ProcessMessage
  <2> QED
    BY <1>8, <2>1, GrantAppCertificateIsRight DEF WorkAt
<1>9. CASE code = "GET_AUTHED_LIST"
  <2>1. h = CmIpcServiceGetAuthorizedAppList(c, ContextOf(c), p, out)
    BY <1>9 DEF ProcessMessage
  <2> QED
    BY <1>9, <2>1, GetAuthorizedAppListIsRight DEF WorkAt
<1>10. CASE code = "CHECK_IS_AUTHED_APP"
  <2>1. h = CmIpcServiceIsAuthorizedApp(c, ContextOf(c), p, out)
    BY <1>10 DEF ProcessMessage
  <2> QED
    BY <1>10, <2>1, IsAuthorizedAppIsRight DEF WorkAt
<1>11. CASE code = "REMOVE_GRANT_APP"
  <2>1. h = CmIpcServiceRemoveGrantedApp(c, ContextOf(c), p, out)
    BY <1>11 DEF ProcessMessage
  <2> QED
    BY <1>11, <2>1, RemoveGrantedAppIsRight DEF WorkAt
<1>12. CASE code = "INIT"
  <2>1. h = CmIpcServiceInit(c, ContextOf(c), p, out)
    BY <1>12 DEF ProcessMessage
  <2> QED
    BY <1>12, <2>1, InitIsRight DEF WorkAt
<1>13. CASE code = "UPDATE"
  <2>1. h = CmIpcServiceUpdate(c, ContextOf(c), p, out)
    BY <1>13 DEF ProcessMessage
  <2> QED
    BY <1>13, <2>1, UpdateIsRight DEF WorkAt
<1>14. CASE code = "FINISH"
  <2>1. h = CmIpcServiceFinish(c, ContextOf(c), p, out)
    BY <1>14 DEF ProcessMessage
  <2> QED
    BY <1>14, <2>1, FinishIsRight DEF WorkAt
<1>15. CASE code = "ABORT"
  <2>1. h = CmIpcServiceAbort(c, ContextOf(c), p, out)
    BY <1>15 DEF ProcessMessage
  <2> QED
    BY <1>15, <2>1, AbortIsRight DEF WorkAt
<1>16. CASE code = "GET_USER_CERTIFICATE_LIST"
  <2>1. h = CmIpcServiceGetUserCertList(c, ContextOf(c), p, out)
    BY <1>16 DEF ProcessMessage
  <2> QED
    BY <1>16, <2>1, GetUserCertListIsRight DEF WorkAt
<1>17. CASE code = "GET_USER_CERTIFICATE_INFO"
  <2>1. h = CmIpcServiceGetUserCertInfo(c, ContextOf(c), p, out)
    BY <1>17 DEF ProcessMessage
  <2> QED
    BY <1>17, <2>1, GetUserCertInfoIsRight DEF WorkAt
<1>18. CASE code = "SET_USER_CERTIFICATE_STATUS"
  <2>1. h = CmIpcServiceSetUserCertStatus(c, ContextOf(c), p, out)
    BY <1>18 DEF ProcessMessage
  <2> QED
    BY <1>18, <2>1, SetUserCertStatusIsRight DEF WorkAt
<1>19. CASE code = "INSTALL_USER_CERTIFICATE"
  <2>1. h = CmIpcServiceInstallUserCert(c, ContextOf(c), p, out)
    BY <1>19 DEF ProcessMessage
  <2> QED
    BY <1>19, <2>1, InstallUserCertIsRight DEF WorkAt
<1>20. CASE code = "UNINSTALL_USER_CERTIFICATE"
  <2>1. h = CmIpcServiceUninstallUserCert(c, ContextOf(c), p, out)
    BY <1>20 DEF ProcessMessage
  <2> QED
    BY <1>20, <2>1, UninstallUserCertIsRight DEF WorkAt
<1>21. CASE code = "UNINSTALL_ALL_USER_CERTIFICATE"
  <2>1. h = CmIpcServiceUninstallAllUserCert(c, ContextOf(c), p, out)
    BY <1>21 DEF ProcessMessage
  <2> QED
    BY <1>21, <2>1, UninstallAllUserCertIsRight DEF WorkAt
<1>22. CASE code = "GET_CERTIFICATE_LIST"
  <2>1. h = CmIpcServiceGetCertificateList(c, ContextOf(c), p, out)
    BY <1>22 DEF ProcessMessage
  <2> QED
    BY <1>22, <2>1, GetCertificateListIsRight DEF WorkAt
<1>23. CASE code = "GET_CERTIFICATE_INFO"
  <2>1. h = CmIpcServiceGetCertificateInfo(c, ContextOf(c), p, out)
    BY <1>23 DEF ProcessMessage
  <2> QED
    BY <1>23, <2>1, GetCertificateInfoIsRight DEF WorkAt
<1>24. CASE code = "SET_CERTIFICATE_STATUS"
  <2>1. h = CmIpcServiceSetCertStatus(c, ContextOf(c), p, out)
    BY <1>24 DEF ProcessMessage
  <2> QED
    BY <1>24, <2>1, SetCertStatusIsRight DEF WorkAt
<1>25. CASE code = "CHECK_APP_PERMISSION"
  <2>1. h = CmIpcServiceCheckAppPermission(c, ContextOf(c), p, out)
    BY <1>25 DEF ProcessMessage
  <2> QED
    BY <1>25, <2>1, CheckAppPermissionIsRight DEF WorkAt
<1>26. CASE code = "GET_UKEY_CERTIFICATE_LIST"
  <2>1. h = CmIpcServiceGetUkeyCertList(c, ContextOf(c), p, out)
    BY <1>26 DEF ProcessMessage
  <2> QED
    BY <1>26, <2>1, GetUkeyCertListIsRight DEF WorkAt
<1>27. CASE code = "GET_UKEY_CERTIFICATE"
  <2>1. h = CmIpcServiceGetUkeyCert(c, ContextOf(c), p, out)
    BY <1>27 DEF ProcessMessage
  <2> QED
    BY <1>27, <2>1, GetUkeyCertIsRight DEF WorkAt
<1>28. CASE code = "IMPORT_UKEY_CERTIFICATE"
  <2>1. h = CmIpcServiceImportUkeyCert(c, ContextOf(c), p, out)
    BY <1>28 DEF ProcessMessage
  <2> QED
    BY <1>28, <2>1, ImportUkeyCertIsRight DEF WorkAt
<1>29. CASE code \notin DOMAIN WorkAt
  <2>1. h = Refused("SUCCESS", ContextOf(c))
    BY <1>29 DEF ProcessMessage, WorkAt
  <2>2. h.work = ""
    BY <2>1, RefusedWorksNot
  <2> QED
    BY <1>29, <2>2
<1> QED
  BY <1>1, <1>2, <1>3, <1>4, <1>5, <1>6, <1>7, <1>8, <1>9, <1>10, <1>11, <1>12, <1>13, <1>14, <1>15,
     <1>16, <1>17, <1>18, <1>19, <1>20, <1>21, <1>22, <1>23, <1>24, <1>25, <1>26, <1>27, <1>28,
     <1>29 DEF WorkAt

-----------------------------------------------------------------------------
(* Requests.                                                                *)

\* A request that is made has this code.
AsksFor(q, code) == q.err = "SUCCESS" => q.code = code

LEMMA RequestAsks == ASSUME NEW code, NEW params, NEW out PROVE Request(code, params, out).code = code
  BY DEF Request, Refuse
LEMMA ParcelAsks ==
    ASSUME NEW code, NEW params, NEW out
    PROVE  [Request(code, params, out) EXCEPT !.via = "parcel"].code = code
  BY DEF Request, Refuse
LEMMA UnpackedAsks ==
    ASSUME NEW code, NEW params, NEW out, NEW into, NEW err
    PROVE  Unpacked(Request(code, params, out), into, err).code = code
  BY DEF Request, Refuse, Unpacked
LEMMA AskAsks ==
    ASSUME NEW checks, NEW q, NEW code, q.code = code
    PROVE  AsksFor(Ask(checks, q), code)
  BY DEF AsksFor, Ask, Refuse
LEMMA AskTwice ==
    ASSUME NEW checks, NEW q, NEW code, AsksFor(q, code)
    PROVE  AsksFor(Ask(checks, q), code)
  BY DEF AsksFor, Ask, Refuse

\* Each function of the SDK asks for the row of the table that does its work.
LEMMA InvokeAsks ==
    ASSUME NEW op \in SdkFunctions, NEW a, Invoke(op, a).err = "SUCCESS"
    PROVE  Invoke(op, a).code \in DOMAIN WorkAt /\ WorkAt[Invoke(op, a).code] = WorkOf(op)
<1>1. CASE op = "CmGetCertList"
  <2>1. AsksFor(CmGetCertList(a), "GET_CERTIFICATE_LIST")
    BY UnpackedAsks, AskAsks DEF CmGetCertList, GetCertificateList,
       CmCertificateListUnpackFromService
  <2> QED
    BY <1>1, <2>1 DEF Invoke, AsksFor, WorkAt, WorkOf
<1>2. CASE op = "CmGetCertInfo"
  <2>1. AsksFor(CmGetCertInfo(a), "GET_CERTIFICATE_INFO")
    BY UnpackedAsks, AskAsks DEF CmGetCertInfo, GetCertificateInfo,
       CmCertificateInfoUnpackFromService
  <2> QED
    BY <1>2, <2>1 DEF Invoke, AsksFor, WorkAt, WorkOf
<1>3. CASE op = "CmSetCertStatus"
  <2>1. AsksFor(CmSetCertStatus(a), "SET_CERTIFICATE_STATUS")
    BY RequestAsks, AskAsks DEF CmSetCertStatus, SetCertificateStatus
  <2> QED
    BY <1>3, <2>1 DEF Invoke, AsksFor, WorkAt, WorkOf
<1>4. CASE op = "CmInstallAppCertEx"
  <2>1. AsksFor(CmInstallAppCertEx(a), "INSTALL_APP_CERTIFICATE")
    BY RequestAsks, AskAsks DEF CmInstallAppCertEx, CmClientInstallAppCert
  <2> QED
    BY <1>4, <2>1 DEF Invoke, AsksFor, WorkAt, WorkOf
<1>5. CASE op = "CmInstallAppCert"
  <2>1. AsksFor(CmInstallAppCert(a), "INSTALL_APP_CERTIFICATE")
    BY RequestAsks, AskAsks DEF CmInstallAppCert, CmClientInstallAppCert
  <2> QED
    BY <1>5, <2>1 DEF Invoke, AsksFor, WorkAt, WorkOf
<1>6. CASE op = "CmInstallSystemAppCert"
  <2>1. AsksFor(CmInstallSystemAppCert(a), "INSTALL_APP_CERTIFICATE")
    BY RequestAsks, AskAsks DEF CmInstallSystemAppCert, CmClientInstallSystemAppCert,
       CmClientInstallAppCert
  <2> QED
    BY <1>6, <2>1 DEF Invoke, AsksFor, WorkAt, WorkOf
<1>7. CASE op = "CmUninstallAppCert"
  <2>1. AsksFor(CmUninstallAppCert(a), "UNINSTALL_APP_CERTIFICATE")
    BY RequestAsks, AskAsks DEF CmUninstallAppCert, UninstallAppCert
  <2> QED
    BY <1>7, <2>1 DEF Invoke, AsksFor, WorkAt, WorkOf
<1>8. CASE op = "CmUninstallAllAppCert"
  <2>1. AsksFor(CmUninstallAllAppCert(a), "UNINSTALL_ALL_APP_CERTIFICATE")
    BY RequestAsks DEF CmUninstallAllAppCert, CmClientUninstallAllAppCert, AsksFor
  <2> QED
    BY <1>8, <2>1 DEF Invoke, AsksFor, WorkAt, WorkOf
<1>9. CASE op = "CmGetAppCertList"
  <2>1. AsksFor(CmGetAppCertList(a), "GET_APP_CERTIFICATE_LIST")
    BY RequestAsks, AskAsks DEF CmGetAppCertList, GetAppCertListCommon
  <2> QED
    BY <1>9, <2>1 DEF Invoke, AsksFor, WorkAt, WorkOf
<1>10. CASE op = "CmGetAppCertListByUid"
  <2>1. AsksFor(CmGetAppCertListByUid(a), "GET_APP_CERTIFICATE_LIST_BY_UID")
    BY RequestAsks, AskAsks DEF CmGetAppCertListByUid, GetAppCertListCommon
  <2> QED
    BY <1>10, <2>1 DEF Invoke, AsksFor, WorkAt, WorkOf
<1>11. CASE op = "CmCallingGetAppCertList"
  <2>1. AsksFor(CmCallingGetAppCertList(a), "GET_CALLING_APP_CERTIFICATE_LIST")
    BY RequestAsks, AskAsks DEF CmCallingGetAppCertList, GetAppCertListCommon
  <2> QED
    BY <1>11, <2>1 DEF Invoke, AsksFor, WorkAt, WorkOf
<1>12. CASE op = "CmGetAppCert"
  <2>1. AsksFor(CmGetAppCert(a), "GET_APP_CERTIFICATE")
    BY UnpackedAsks, AskAsks DEF CmGetAppCert, GetAppCert, CmCredentialUnpackFromService
  <2> QED
    BY <1>12, <2>1 DEF Invoke, AsksFor, WorkAt, WorkOf
<1>13. CASE op = "CmGrantAppCertificate"
  <2>1. AsksFor(CmGrantAppCertificate(a), "GRANT_APP_CERT")
    BY RequestAsks, AskAsks, AskTwice DEF CmGrantAppCertificate, CmClientGrantAppCertificate
  <2> QED
    BY <1>13, <2>1 DEF Invoke, AsksFor, WorkAt, WorkOf
<1>14. CASE op = "CmGetAuthorizedAppList"
  <2>1. AsksFor(CmGetAuthorizedAppList(a), "GET_AUTHED_LIST")
    BY RequestAsks, AskAsks, AskTwice DEF CmGetAuthorizedAppList, CmClientGetAuthorizedAppList
  <2> QED
    BY <1>14, <2>1 DEF Invoke, AsksFor, WorkAt, WorkOf
<1>15. CASE op = "CmIsAuthorizedApp"
  <2>1. AsksFor(CmIsAuthorizedApp(a), "CHECK_IS_AUTHED_APP")
    BY RequestAsks, AskAsks, AskTwice DEF CmIsAuthorizedApp, CmClientIsAuthorizedApp
  <2> QED
    BY <1>15, <2>1 DEF Invoke, AsksFor, WorkAt, WorkOf
<1>16. CASE op = "CmRemoveGrantedApp"
  <2>1. AsksFor(CmRemoveGrantedApp(a), "REMOVE_GRANT_APP")
    BY RequestAsks, AskAsks, AskTwice DEF CmRemoveGrantedApp, CmClientRemoveGrantedApp
  <2> QED
    BY <1>16, <2>1 DEF Invoke, AsksFor, WorkAt, WorkOf
<1>17. CASE op = "CmInit"
  <2>1. AsksFor(CmInit(a), "INIT")
    BY RequestAsks, AskAsks, AskTwice DEF CmInit, CmClientInit
  <2> QED
    BY <1>17, <2>1 DEF Invoke, AsksFor, WorkAt, WorkOf
<1>18. CASE op = "CmUpdate"
  <2>1. AsksFor(CmUpdate(a), "UPDATE")
    BY RequestAsks, AskAsks, AskTwice DEF CmUpdate, CmClientUpdate
  <2> QED
    BY <1>18, <2>1 DEF Invoke, AsksFor, WorkAt, WorkOf
<1>19. CASE op = "CmFinish"
  <2>1. AsksFor(CmFinish(a), "FINISH")
    BY RequestAsks, AskAsks, AskTwice DEF CmFinish, CmClientFinish
  <2> QED
    BY <1>19, <2>1 DEF Invoke, AsksFor, WorkAt, WorkOf
<1>20. CASE op = "CmAbort"
  <2>1. AsksFor(CmAbort(a), "ABORT")
    BY RequestAsks, AskAsks, AskTwice DEF CmAbort, CmClientAbort
  <2> QED
    BY <1>20, <2>1 DEF Invoke, AsksFor, WorkAt, WorkOf
<1>21. CASE op = "CmGetUserCertList"
  <2>1. AsksFor(CmGetUserCertList(a), "GET_USER_CERTIFICATE_LIST")
    BY UnpackedAsks, AskAsks DEF CmGetUserCertList, GetUserCertList,
       CmCertificateListUnpackFromService
  <2> QED
    BY <1>21, <2>1 DEF Invoke, AsksFor, WorkAt, WorkOf
<1>22. CASE op = "CmGetUserCACertList"
  <2>1. AsksFor(CmGetUserCACertList(a), "GET_USER_CERTIFICATE_LIST")
    BY UnpackedAsks, AskAsks DEF CmGetUserCACertList, GetUserCertList,
       CmCertificateListUnpackFromService
  <2> QED
    BY <1>22, <2>1 DEF Invoke, AsksFor, WorkAt, WorkOf
<1>23. CASE op = "CmGetUserCertInfo"
  <2>1. AsksFor(CmGetUserCertInfo(a), "GET_USER_CERTIFICATE_INFO")
    BY UnpackedAsks, AskAsks DEF CmGetUserCertInfo, GetUserCertInfo,
       CmCertificateInfoUnpackFromService
  <2> QED
    BY <1>23, <2>1 DEF Invoke, AsksFor, WorkAt, WorkOf
<1>24. CASE op = "CmSetUserCertStatus"
  <2>1. AsksFor(CmSetUserCertStatus(a), "SET_USER_CERTIFICATE_STATUS")
    BY RequestAsks, AskAsks DEF CmSetUserCertStatus, SetUserCertStatus
  <2> QED
    BY <1>24, <2>1 DEF Invoke, AsksFor, WorkAt, WorkOf
<1>25. CASE op = "CmInstallUserTrustedCert"
  <2>1. AsksFor(CmInstallUserTrustedCert(a), "INSTALL_USER_CERTIFICATE")
    BY RequestAsks, AskAsks, AskTwice DEF CmInstallUserTrustedCert, CmInstallUserCACert,
       CmInstallUserTrustedCertByFormat, CmClientInstallUserTrustedCert
  <2> QED
    BY <1>25, <2>1 DEF Invoke, AsksFor, WorkAt, WorkOf
<1>26. CASE op = "CmInstallUserCACert"
  <2>1. AsksFor(CmInstallUserCACert(a), "INSTALL_USER_CERTIFICATE")
    BY RequestAsks, AskAsks, AskTwice DEF CmInstallUserCACert, CmInstallUserTrustedCertByFormat,
       CmClientInstallUserTrustedCert
  <2> QED
    BY <1>26, <2>1 DEF Invoke, AsksFor, WorkAt, WorkOf
<1>27. CASE op = "CmInstallUserTrustedP7BCert"
  <2>1. AsksFor(CmInstallUserTrustedP7BCert(a), "INSTALL_USER_CERTIFICATE")
    BY RequestAsks, AskAsks, AskTwice DEF CmInstallUserTrustedP7BCert,
       CmInstallUserTrustedCertByFormat, CmClientInstallUserTrustedCert
  <2> QED
    BY <1>27, <2>1 DEF Invoke, AsksFor, WorkAt, WorkOf
<1>28. CASE op = "CmUninstallUserTrustedCert"
  <2>1. AsksFor(CmUninstallUserTrustedCert(a), "UNINSTALL_USER_CERTIFICATE")
    BY RequestAsks, AskAsks DEF CmUninstallUserTrustedCert, UninstallUserCert
  <2> QED
    BY <1>28, <2>1 DEF Invoke, AsksFor, WorkAt, WorkOf
<1>29. CASE op = "CmUninstallAllUserTrustedCert"
  <2>1. AsksFor(CmUninstallAllUserTrustedCert(a), "UNINSTALL_ALL_USER_CERTIFICATE")
    BY RequestAsks DEF CmUninstallAllUserTrustedCert, CmClientUninstallAllUserTrustedCert, AsksFor
  <2> QED
    BY <1>29, <2>1 DEF Invoke, AsksFor, WorkAt, WorkOf
<1>30. CASE op = "CmGetUkeyCertList"
  <2>1. AsksFor(CmGetUkeyCertList(a), "GET_UKEY_CERTIFICATE_LIST")
    BY ParcelAsks, AskAsks DEF CmGetUkeyCertList, GetUkeyCertList
  <2> QED
    BY <1>30, <2>1 DEF Invoke, AsksFor, WorkAt, WorkOf
<1>31. CASE op = "CmGetUkeyCert"
  <2>1. AsksFor(CmGetUkeyCert(a), "GET_UKEY_CERTIFICATE")
    BY ParcelAsks, AskAsks DEF CmGetUkeyCert, GetUkeyCertList
  <2> QED
    BY <1>31, <2>1 DEF Invoke, AsksFor, WorkAt, WorkOf
<1>32. CASE op = "CmImportUkeyCert"
  <2>1. AsksFor(CmImportUkeyCert(a), "IMPORT_UKEY_CERTIFICATE")
    BY RequestAsks, AskAsks DEF CmImportUkeyCert, CmClientImportUkeyCert
  <2> QED
    BY <1>32, <2>1 DEF Invoke, AsksFor, WorkAt, WorkOf
<1>33. CASE op = "CmCheckAppPermission"
  <2>1. AsksFor(CmCheckAppPermission(a), "CHECK_APP_PERMISSION")
    BY UnpackedAsks, AskAsks DEF CmCheckAppPermission, CmClientCheckAppPermission,
       CmAppPermissionUnpackFromService
  <2> QED
    BY <1>33, <2>1 DEF Invoke, AsksFor, WorkAt, WorkOf
<1> QED
  BY <1>1, <1>2, <1>3, <1>4, <1>5, <1>6, <1>7, <1>8, <1>9, <1>10, <1>11, <1>12, <1>13, <1>14, <1>15,
     <1>16, <1>17, <1>18, <1>19, <1>20, <1>21, <1>22, <1>23, <1>24, <1>25, <1>26, <1>27, <1>28,
     <1>29, <1>30, <1>31, <1>32, <1>33 DEF SdkFunctions

-----------------------------------------------------------------------------
(* The way of a call.                                                       *)

OnTheWay == pc \in {"serialize", "load", "send", "handle", "reply"}

\* What was asked for, and of whom.
CallKept ==
    OnTheWay => /\ call.c \in Callers /\ call.op \in SdkFunctions
                /\ request.code \in DOMAIN WorkAt /\ WorkAt[request.code] = WorkOf(call.op)

\* What is let pass is what was asked for, and right.
HandlerIsRight ==
    pc = "handle" /\ handler.err = "SUCCESS" =>
        handler.work = WorkOf(call.op) /\ handler.work # "" /\ Right(call.c, handler)

\* Nothing is replied before there is a handler, and then once; and it is no
\* success unless the work was done.
RepliesKept ==
    /\ pc \notin {"reply", "done"} => replies = <<>>
    /\ pc = "reply" => /\ replies # <<>>
                       /\ replies[1] = "SUCCESS" => replies = <<"SUCCESS">> /\ handler.work = WorkOf(call.op)

\* The call returns once.
ReturnKept == /\ pc \in {"idle", "serialize", "load", "send", "handle", "reply", "done"}
              /\ pc # "done" => rc = ""

CallInv == CallKept /\ HandlerIsRight /\ RepliesKept /\ ReturnKept /\ SuccessIsReal

LEMMA RightWork == \A op \in SdkFunctions : WorkOf(op) # ""
  BY DEF SdkFunctions, WorkOf
LEMMA ErrorsStay == \A err : err # "SUCCESS" => ConvertErrorCode(err) # "SUCCESS"
  BY DEF ConvertErrorCode

LEMMA OneReply == \A code : Append(<<>>, code) = <<code>>
  OBVIOUS

LEMMA CallInvStarts == Init => CallInv
  BY DEF Init, CallInv, CallKept, HandlerIsRight, RepliesKept, ReturnKept, SuccessIsReal, OnTheWay

LEMMA CallInvStays == CallInv /\ [Next]_vars => CallInv'
<1> SUFFICES ASSUME CallInv, [Next]_vars PROVE CallInv'
  OBVIOUS
<1> USE DEF CallInv
<1>1. CASE Call
  <2>1. PICK k \in Calls, c \in Callers :
            /\ call' = [op |-> k.op, a |-> k.a, c |-> c]
            /\ request' = Invoke(k.op, k.a)
            /\ IF request'.err = "SUCCESS" THEN Goto("serialize") ELSE Return(request'.err)
    BY <1>1 DEF Call
  <2>2. call'.op \in SdkFunctions /\ call'.c \in Callers /\ call'.op = k.op
    BY <2>1, CallsAssumption
  <2>3. request'.err = "SUCCESS" =>
            request'.code \in DOMAIN WorkAt /\ WorkAt[request'.code] = WorkOf(call'.op)
    BY <2>1, <2>2, InvokeAsks
  <2>4. pc = "idle" /\ replies' = replies /\ handler' = handler
    BY <1>1 DEF Call
  <2>5. CASE request'.err = "SUCCESS"
    <3>1. pc' = "serialize" /\ rc' = rc
      BY <2>1, <2>5 DEF Goto
    <3> QED
      BY <2>2, <2>3, <2>4, <2>5, <3>1
         DEF CallKept, HandlerIsRight, RepliesKept, ReturnKept, SuccessIsReal, OnTheWay
  <2>6. CASE request'.err # "SUCCESS"
    <3>1. pc' = "done" /\ rc' # "SUCCESS"
      BY <2>1, <2>6 DEF Return
    <3> QED
      BY <3>1 DEF CallKept, HandlerIsRight, RepliesKept, ReturnKept, SuccessIsReal, OnTheWay
  <2> QED
    BY <2>5, <2>6
<1>2. CASE Serialize
  <2>1. PICK size \in SetSizes(request.params) :
            IF CmBuildParamSet(size).err = "SUCCESS" THEN Goto("load") ELSE Return(CmBuildParamSet(size).err)
    BY <1>2 DEF Serialize
  <2>2. \/ pc' = "load" /\ rc' = rc
        \/ pc' = "done" /\ rc' # "SUCCESS"
    BY <2>1 DEF Goto, Return
  <2> QED
    BY <1>2, <2>2
       DEF Serialize, CallKept, HandlerIsRight, RepliesKept, ReturnKept, SuccessIsReal, OnTheWay
<1>3. CASE SerializeOverflows \/ SerializeNoMemory
  <2>1. /\ pc' = "done" /\ rc' \in {"INVALID_PARAMSET_ARG", "MALLOC_FAIL"}
        /\ UNCHANGED <<call, request, service, handler, replies>>
    BY <1>3 DEF SerializeOverflows, SerializeNoMemory, Return
  <2> QED
    BY <2>1 DEF CallKept, HandlerIsRight, RepliesKept, ReturnKept, SuccessIsReal, OnTheWay
<1>4. CASE Load
  BY <1>4 DEF Load, Goto, Return, CallKept, HandlerIsRight, RepliesKept, ReturnKept, SuccessIsReal, OnTheWay
<1>5. CASE OnRemoteRequest
  <2>1. pc = "send" /\ UNCHANGED <<call, request, message, service, replies, wiped>>
    BY <1>5 DEF OnRemoteRequest
  <2>2. CASE pc' = "done" /\ rc' # "SUCCESS"
    BY <2>2 DEF CallKept, HandlerIsRight, RepliesKept, ReturnKept, SuccessIsReal, OnTheWay
  <2>3. CASE /\ Goto("handle")
             /\ handler' = ProcessMessage(request.code, call.c, [userId |-> call.c.userId, uid |-> call.c.uid],
                                          CmParamsToParamSet(request.params), message.out)
    <3>1. handler' = ProcessMessage(request.code, call.c, ContextOf(call.c),
                                    CmParamsToParamSet(request.params), message.out)
      BY <2>3 DEF ContextOf
    <3>2. call.op \in SdkFunctions /\ request.code \in DOMAIN WorkAt /\ WorkAt[request.code] = WorkOf(call.op)
      BY <2>1 DEF CallKept, OnTheWay
    <3>3. handler'.err = "SUCCESS" =>
              handler'.work = WorkOf(call.op) /\ handler'.work # "" /\ Right(call.c, handler')
      <4>1. PICK h : h = handler'
        OBVIOUS
      <4>2. h = ProcessMessage(request.code, call.c, ContextOf(call.c),
                               CmParamsToParamSet(request.params), message.out)
        BY <3>1, <4>1
      <4> SUFFICES ASSUME h.err = "SUCCESS"
                   PROVE  h.work = WorkOf(call.op) /\ h.work # "" /\ Right(call.c, h)
        BY <4>1
      <4>3. /\ h.work # "" => Right(call.c, h)
            /\ request.code \in DOMAIN WorkAt => h.work = WorkAt[request.code]
        <5>1. PICK c : c = call.c
          OBVIOUS
        <5>2. PICK code : code = request.code
          OBVIOUS
        <5>3. PICK p : p = CmParamsToParamSet(request.params)
          OBVIOUS
        <5>4. PICK out : out = message.out
          OBVIOUS
        <5>5. h = ProcessMessage(code, c, ContextOf(c), p, out)
          BY <4>2, <5>1, <5>2, <5>3, <5>4
        <5>6. (h.work # "" => Right(c, h)) /\ (code \in DOMAIN WorkAt => h.work = WorkAt[code])
          BY <5>5, ProcessMessageIsRight
        <5> QED
          BY <5>1, <5>2, <5>6
      <4> QED
        BY <3>2, <4>3, RightWork
    <3>4. HandlerIsRight'
      BY <2>1, <3>3 DEF HandlerIsRight
    <3> QED
      BY <2>1, <2>3, <3>4 DEF Goto, CallKept, RepliesKept, ReturnKept, SuccessIsReal, OnTheWay
  <2> QED
    BY <1>5, <2>2, <2>3 DEF OnRemoteRequest, Return
<1>6. CASE HandleNoMemory
  <2>1. pc = "handle" /\ handler' = Refused("MALLOC_FAIL", handler.ctx)
        /\ UNCHANGED <<pc, call, request, message, service, replies, rc, wiped>>
    BY <1>6 DEF HandleNoMemory
  <2>2. handler'.err # "SUCCESS"
    BY <2>1 DEF Refused
  <2> QED
    BY <2>1, <2>2 DEF CallKept, HandlerIsRight, RepliesKept, ReturnKept, SuccessIsReal, OnTheWay
<1>7. CASE SendRefusal
  <2>1. pc = "handle" /\ pc' = "reply" /\ UNCHANGED <<rc, call, request, message, service, handler, wiped>>
    BY <1>7 DEF SendRefusal, Goto
  <2>2. handler.err # "SUCCESS"
    BY <1>7, <2>1 DEF SendRefusal, HandlerIsRight
  <2>3. replies' = <<ConvertErrorCode(handler.err)>>
    <3>1. replies = <<>> /\ replies' = Append(replies, ConvertErrorCode(handler.err))
      BY <1>7, <2>1, <2>2 DEF SendRefusal, Reply, RepliesKept
    <3> QED
      BY <3>1, OneReply
  <2>4. replies' # <<>> /\ replies'[1] # "SUCCESS"
    BY <2>2, <2>3, ErrorsStay
  <2> QED
    BY <2>1, <2>4 DEF CallKept, HandlerIsRight, RepliesKept, ReturnKept, SuccessIsReal, OnTheWay
<1>8. CASE Work
  <2>1. pc = "handle" /\ pc' = "reply" /\ UNCHANGED <<rc, call, request, message, service, handler, wiped>>
    BY <1>8 DEF Work, Goto
  <2>2. handler.work = WorkOf(call.op)
    BY <1>8, <2>1 DEF Work, HandlerIsRight
  <2>3. PICK err \in {"SUCCESS", "NOT_EXIST"} : replies' = <<ConvertErrorCode(err)>>
    <3>1. replies = <<>>
      BY <2>1 DEF RepliesKept
    <3>2. PICK err \in {"SUCCESS", "NOT_EXIST"} : replies' = Append(replies, ConvertErrorCode(err))
      BY <1>8 DEF Work, Reply
    <3> QED
      BY <3>1, <3>2, OneReply
  <2>4. /\ replies' # <<>>
        /\ replies'[1] = "SUCCESS" => replies' = <<"SUCCESS">>
    BY <2>3
  <2> QED
    BY <2>1, <2>2, <2>4 DEF CallKept, HandlerIsRight, RepliesKept, ReturnKept, SuccessIsReal, OnTheWay
<1>9. CASE Dies
  <2>1. UNCHANGED <<call, request, message, handler, replies, wiped>>
    BY <1>9 DEF Dies
  <2>2. CASE pc' = "done" /\ rc' = "DEAD_OBJECT"
    BY <2>2 DEF CallKept, HandlerIsRight, RepliesKept, ReturnKept, SuccessIsReal, OnTheWay
  <2>3. CASE UNCHANGED <<pc, rc>>
    BY <2>1, <2>3 DEF CallKept, HandlerIsRight, RepliesKept, ReturnKept, SuccessIsReal, OnTheWay
  <2> QED
    BY <1>9, <2>2, <2>3 DEF Dies, Return
<1>10. CASE ReadReply
  <2>1. pc = "reply" /\ pc' = "done" /\ UNCHANGED <<call, request, message, service, handler, replies>>
    BY <1>10 DEF ReadReply, Return
  <2>2. replies # <<>>
    BY <2>1 DEF RepliesKept
  <2>3. rc' = "SUCCESS" => replies[1] = "SUCCESS"
    BY <1>10, <2>2 DEF ReadReply, Return
  <2>4. rc' = "SUCCESS" => replies = <<"SUCCESS">> /\ handler.work = WorkOf(call.op)
    BY <2>1, <2>3 DEF RepliesKept
  <2> QED
    BY <2>1, <2>4 DEF CallKept, HandlerIsRight, RepliesKept, ReturnKept, SuccessIsReal, OnTheWay
<1>11. CASE Done
  BY <1>11 DEF Done, CallKept, HandlerIsRight, RepliesKept, ReturnKept, SuccessIsReal, OnTheWay
<1>12. CASE UNCHANGED vars
  BY <1>12 DEF vars, CallKept, HandlerIsRight, RepliesKept, ReturnKept, SuccessIsReal, OnTheWay
<1> QED
  BY <1>1, <1>2, <1>3, <1>4, <1>5, <1>6, <1>7, <1>8, <1>9, <1>10, <1>11, <1>12 DEF Next

LEMMA CallInvHolds == Spec => []CallInv
<1> QED
  BY CallInvStarts, CallInvStays, PTL DEF Spec

\* A call of the SDK that returns success was replied to once, with success,
\* and by the handler of what it is about, whatever was out of memory or died.
THEOREM SuccessMeansDone == Spec => []SuccessIsReal
<1>1. CallInv => SuccessIsReal
  BY DEF CallInv
<1> QED
  BY <1>1, CallInvHolds, PTL

\* No handler lets a call pass without the permission it takes, nor an
\* application that is not of the system further than its private credentials,
\* the CAs of users, ukeys and the use of keys.
THEOREM SystemManagesTheRest == Spec => []OnlyTheSystemManages
<1>1. CallInv => OnlyTheSystemManages
  BY DEF CallInv, HandlerIsRight, Right, SystemManages, MayChangeCAs, OnlyTheSystemManages, Works
<1> QED
  BY <1>1, CallInvHolds, PTL

\* Whatever is in its arguments, an application works for its own user, or on
\* CAs for user 0, and opens only keys that are its own or made out to it.
THEOREM UsersAreApart == Spec => []UserIsolation
<1>1. CallInv => UserIsolation
  <2> SUFFICES ASSUME CallInv, Works, call.c.token = "hap"
               PROVE  /\ \/ handler.ctx.userId = call.c.userId
                         \/ handler.ctx.userId = SA_USER /\ handler.work \in CA_WORK
                      /\ handler.work = "CmInit" => MayUse(ContextOf(call.c), handler.args.authUri)
                      /\ call.c.userId # SA_USER
    BY ContextIsOwn DEF UserIsolation, MayUse
  <2>1. Right(call.c, handler) /\ call.c \in Callers
    BY DEF CallInv, HandlerIsRight, CallKept, OnTheWay, Works
  <2>2. call.c.userId # SA_USER
    BY <2>1, CallersAssumption
  <2> QED
    BY <2>1, <2>2 DEF Right, ForUser, UsesOwn
<1> QED
  BY <1>1, CallInvHolds, PTL

LEMMA ListHasUsers ==
    ASSUME NEW x, NEW id, NEW scope, NEW l, l = CmServiceGetUserCACertList(x, id, scope),
           x.userId # SA_USER => id = INVALID
    PROVE  /\ \A i, j \in DOMAIN l : l[i] = l[j] => i = j
           /\ \A i \in DOMAIN l : l[i] \in {SA_USER, IF x.userId = SA_USER THEN id ELSE x.userId}
<1> DEFINE other == IF x.userId = SA_USER THEN id ELSE x.userId
<1>1. \/ l = <<SA_USER>> \/ l = <<other>>
      \/ l = <<SA_USER, other>> /\ other # SA_USER
      \/ l = <<other, SA_USER>> /\ other # SA_USER
  BY DEF CmServiceGetUserCACertList, CmGetUserCertPathList
<1> HIDE DEF other
<1>2. /\ \A i, j \in DOMAIN l : l[i] = l[j] => i = j
      /\ \A i \in DOMAIN l : l[i] \in {SA_USER, other}
  BY <1>1
<1> QED
  BY <1>2 DEF other

\* A list of user CAs covers the users the caller may see and reads no
\* directory twice, for every user and scope that is given.
THEOREM ListsTheirUsers == Spec => []ListedUsers
<1>1. CallInv => ListedUsers
  <2> SUFFICES ASSUME CallInv, Works, handler.work = "CmGetUserCACertList", handler.args.store = "USER_TRUSTED",
                      NEW l, l = CmServiceGetUserCACertList(handler.ctx, handler.args.userId, handler.args.scope)
               PROVE  /\ \A i, j \in DOMAIN l : l[i] = l[j] => i = j
                      /\ \A i \in DOMAIN l :
                           l[i] \in {SA_USER, IF call.c.userId = SA_USER THEN handler.args.userId
                                              ELSE call.c.userId}
    BY DEF ListedUsers
  <2>1. ListsOwn(call.c, handler)
    BY DEF CallInv, HandlerIsRight, Works, Right
  <2>2. /\ handler.ctx.userId = call.c.userId
        /\ call.c.userId # SA_USER => handler.args.userId = INVALID
    BY <2>1, ContextIsOwn DEF ListsOwn
  <2>3. /\ \A i, j \in DOMAIN l : l[i] = l[j] => i = j
        /\ \A i \in DOMAIN l :
             l[i] \in {SA_USER, IF handler.ctx.userId = SA_USER THEN handler.args.userId
                                ELSE handler.ctx.userId}
    BY <2>2, ListHasUsers
  <2> QED
    BY <2>2, <2>3
<1> QED
  BY <1>1, CallInvHolds, PTL

\* Sizes.
LEMMA SizedMessage == \A size : [NoMessage EXCEPT !.size = size].size = size
  BY DEF NoMessage
LEMMA SizesAtRest == NoMessage.size = 1 /\ NotWiped.bytes = 0 /\ NotWiped.block = 0
  BY DEF NoMessage, DEFAULT, NotWiped

WipeInv ==
    /\ message.size \in 1..4 /\ wiped.bytes \in 0..4 /\ wiped.block \in 0..4
    /\ pc # "done" => wiped.bytes <= wiped.block
    /\ WipeStaysInBlock

\* A parameter set is wiped within its block, unless there was no memory for
\* the larger block it had grown to, or a blob was too long to be added to others.
THEOREM WipesStayInBlock == Spec => []WipeStaysInBlock
<1> USE DEF WipeInv, WipeStaysInBlock, DEFAULT, LARGE, MAX_MALLOC, MAX_SET
<1>1. Init => WipeInv
  <2>1. Init => pc = "idle" /\ message = NoMessage /\ wiped = NotWiped
    BY DEF Init
  <2> QED
    BY <2>1, SizesAtRest
<1>2. WipeInv /\ [Next]_vars => WipeInv'
  <2> SUFFICES ASSUME WipeInv, [Next]_vars PROVE WipeInv'
    OBVIOUS
  <2>1. CASE Call
    BY <2>1 DEF Call
  <2>2. CASE Serialize
    <3>1. PICK size \in SetSizes(request.params) :
              /\ message' = [size |-> size, words |-> Words(request.via), out |-> request.out.form]
              /\ wiped' = IF CmBuildParamSet(size).err = "SUCCESS" THEN wiped
                          ELSE [bytes |-> CmBuildParamSet(size).bytes, block |-> CmBuildParamSet(size).block]
      BY <2>2 DEF Serialize
    <3>2. size \in 1..4
      BY DEF SetSizes
    <3>3. wiped' = wiped \/ wiped' = [bytes |-> DEFAULT, block |-> DEFAULT]
      BY <3>1 DEF CmBuildParamSet
    <3>4. wiped'.bytes \in 0..4 /\ wiped'.block \in 0..4 /\ wiped'.bytes <= wiped'.block
      BY <2>2, <3>3 DEF Serialize
    <3> QED
      BY <3>1, <3>2, <3>4
  <2>3. CASE SerializeNoMemory
    <3>1. PICK size \in SetSizes(request.params) :
              \E at \in {"set", "answer", "block"} :
                  /\ message'.size = size
                  /\ \/ wiped' = NotWiped
                     \/ wiped' = [bytes |-> size, block |-> DEFAULT]
                     \/ wiped' = [bytes |-> size, block |-> size]
      BY <2>3, SizedMessage DEF SerializeNoMemory
    <3>2. size \in 1..4
      BY DEF SetSizes
    <3>3. wiped'.bytes \in 0..4 /\ wiped'.block \in 0..4
      BY <3>1, <3>2, SizesAtRest
    <3>4. pc' = "done" /\ rc' = "MALLOC_FAIL" /\ message'.size = size
      BY <2>3, <3>1 DEF SerializeNoMemory, Return
    <3> QED
      BY <3>2, <3>3, <3>4
  <2>4. CASE SerializeOverflows
    <3>1. PICK size \in GrownSizes(request.params) : wiped' = [bytes |-> size, block |-> DEFAULT]
      BY <2>4 DEF SerializeOverflows
    <3>2. size \in 1..4
      BY <3>1 DEF GrownSizes, SetSizes
    <3>3. /\ pc' = "done" /\ rc' = "INVALID_PARAMSET_ARG" /\ UNCHANGED <<message, request>>
      BY <2>4 DEF SerializeOverflows, Return
    <3> QED
      BY <3>1, <3>2, <3>3
  <2>13. CASE Load
    BY <2>13 DEF Load, Goto, Return
  <2>5. CASE OnRemoteRequest
    BY <2>5 DEF OnRemoteRequest, Return, Goto
  <2>6. CASE HandleNoMemory
    BY <2>6 DEF HandleNoMemory
  <2>7. CASE SendRefusal
    BY <2>7 DEF SendRefusal, Goto
  <2>8. CASE Work
    BY <2>8 DEF Work, Goto
  <2>9. CASE Dies
    BY <2>9 DEF Dies, Return
  <2>10. CASE ReadReply
    BY <2>10 DEF ReadReply
  <2>11. CASE Done
    <3>1. pc' = "idle" /\ message' = NoMessage /\ wiped' = NotWiped
      BY <2>11 DEF Done
    <3> QED
      BY <3>1, SizesAtRest
  <2>12. CASE UNCHANGED vars
    BY <2>12 DEF vars
  <2> QED
    BY <2>1, <2>2, <2>3, <2>4, <2>5, <2>6, <2>7, <2>8, <2>9, <2>10, <2>11, <2>12, <2>13
       DEF Next
<1>3. WipeInv => WipeStaysInBlock
  OBVIOUS
<1> HIDE DEF WipeInv, WipeStaysInBlock
<1> QED
  BY <1>1, <1>2, <1>3, PTL DEF Spec
============================================================================
