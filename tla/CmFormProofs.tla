---------------------------- MODULE CmFormProofs ----------------------------
(***************************************************************************)
(* Proofs about the form of a call of CmCall, for every set of callers and *)
(* of calls: that a message is read as it was written, and that the work   *)
(* gets the arguments of the caller.                                       *)
(*                                                                         *)
(* Under which tags each handler reads (...Reads), under which each        *)
(* function of the SDK writes (...Sends, ...IsGood), and that what is      *)
(* written under a tag is what is read under it (Arrives); no check        *)
(* refuses a call with an error about the form of the message (...Fine).   *)
(***************************************************************************)
EXTENDS CmCallProofs

-----------------------------------------------------------------------------
(* Errors.                                                                  *)

\* It is no error about the form of the message.
Fine(err) == err \notin {"PARAM_NOT_EXIST", "IPC_PARAM_SIZE_INVALID"}

LEMMA VerdictFine == ASSUME NEW s, NEW x, Checks(s) PROVE Fine(Verdict(s, x).err)
<1> DEFINE failing == {i \in DOMAIN s : s[i][1]}
           first == CHOOSE i \in failing : \A j \in failing : i <= j
<1>1. Verdict(s, x).err = FirstError(s)
  BY DEF Verdict
<1>2. CASE failing = {}
  BY <1>1, <1>2 DEF FirstError, Fine
<1>3. CASE failing # {}
  <2>1. failing \in SUBSET Nat
    BY DEF Checks
  <2>2. \E n \in failing : \A m \in failing : n <= m
    BY <1>3, <2>1, LeastExists
  <2>3. first \in failing
    BY <2>2
  <2>4. FirstError(s) = s[first][2]
    BY <1>3 DEF FirstError
  <2>5. first \in DOMAIN s
    BY <2>3
  <2> HIDE DEF first
  <2> QED
    BY <1>1, <2>4, <2>5 DEF Checks, IsCheck, Fine
<1> QED
  BY <1>2, <1>3

LEMMA OneFine == ASSUME NEW a, NEW x, IsCheck(a) PROVE Fine(Verdict(<<a>>, x).err)
  BY OneCheck, VerdictFine
LEMMA TwoFine == ASSUME NEW a, NEW b, NEW x, IsCheck(a), IsCheck(b) PROVE Fine(Verdict(<<a, b>>, x).err)
  BY TwoChecks, VerdictFine
LEMMA ThreeFine ==
    ASSUME NEW a, NEW b, NEW d, NEW x, IsCheck(a), IsCheck(b), IsCheck(d)
    PROVE  Fine(Verdict(<<a, b, d>>, x).err)
  BY ThreeChecks, VerdictFine
LEMMA BothFine ==
    ASSUME NEW s, NEW t, NEW x, Checks(s), Checks(t) PROVE Fine(Verdict(s \o t, x).err)
  BY BothChecks, VerdictFine
LEMMA PassFine == ASSUME NEW x PROVE Fine(Pass(x).err)
  BY NoChecks, VerdictFine DEF Pass

LEMMA SystemCertListFine ==
    ASSUME NEW c, NEW x, NEW store PROVE Fine(CmServiceGetSystemCertListCheck(c, x, store).err)
<1> DEFINE a == <<store # "SYSTEM_TRUSTED", "INVALID_ARGUMENT_STORE_TYPE">>
<1>1. CmServiceGetSystemCertListCheck(c, x, store) = Verdict(<<a>> \o CmHasGetCAPermission(c, store), x)
  BY DEF CmServiceGetSystemCertListCheck
<1>2. IsCheck(a)
  BY DEF IsCheck
<1> HIDE DEF a
<1> QED
  BY <1>1, <1>2, OneCheck, GetCAPermission, BothFine

LEMMA SystemCertFine ==
    ASSUME NEW c, NEW x, NEW store, NEW uri PROVE Fine(CmServiceGetSystemCertCheck(c, x, store, uri).err)
<1> DEFINE a == <<store # "SYSTEM_TRUSTED", "INVALID_ARGUMENT_STORE_TYPE">>
           b == BadUri(uri)
<1>1. CmServiceGetSystemCertCheck(c, x, store, uri) = Verdict(<<a, b>> \o CmHasGetCAPermission(c, store), x)
  BY DEF CmServiceGetSystemCertCheck
<1>2. IsCheck(a) /\ IsCheck(b)
  BY UriIsGood DEF IsCheck
<1> HIDE DEF a, b
<1> QED
  BY <1>1, <1>2, TwoChecks, GetCAPermission, BothFine

LEMMA SetCertStatusFine ==
    ASSUME NEW c, NEW x, NEW store, NEW uri, NEW status
    PROVE  Fine(CmServiceSetCertStatusCheck(c, x, store, uri, status).err)
<1> DEFINE a == <<store # "SYSTEM_TRUSTED", "INVALID_ARGUMENT_STORE_TYPE">>
           b == BadUri(uri)
           d == <<status \notin {0, 1}, "INVALID_ARGUMENT_STATUS">>
           e == Denied(CmHasPrivilegedPermission(c) /\ CmHasCommonPermission(c))
           f == NotSystem(c)
<1>1. CmServiceSetCertStatusCheck(c, x, store, uri, status) = Verdict(<<a, b, d, e, f>>, x)
  BY DEF CmServiceSetCertStatusCheck
<1>2. IsCheck(a) /\ IsCheck(b) /\ IsCheck(d) /\ IsCheck(e) /\ IsCheck(f)
  BY UriIsGood, Permitted, DeniedIsCheck DEF IsCheck
<1> HIDE DEF a, b, d, e, f
<1> QED
  BY <1>1, <1>2, FiveChecks, VerdictFine

LEMMA CallerAndUriFine ==
    ASSUME NEW x, NEW uri, NEW type, NEW uid \in BOOLEAN
    PROVE  Fine(CheckAndUpdateCallerAndUri(x, uri, type, uid).err)
<1> DEFINE a == <<uri.type # type, "INVALID_ARGUMENT_URI">>
           b == <<x.userId # SA_USER /\ x.userId # uri.user
                  /\ ~(type = "CERTIFICATE" /\ uri.user = SA_USER), "INVALID_ARGUMENT_USER_ID">>
           d == <<uid /\ x.userId = SA_USER /\ x.uid # uri.app, "INVALID_ARGUMENT_UID">>
           y == [userId |-> uri.user, uid |-> uri.app]
<1>1. CheckAndUpdateCallerAndUri(x, uri, type, uid) = Verdict(<<a, b, d>>, y)
  BY DEF CheckAndUpdateCallerAndUri
<1>2. IsCheck(a) /\ IsCheck(b) /\ IsCheck(d)
  BY DEF IsCheck
<1> HIDE DEF a, b, d, y
<1> QED
  BY <1>1, <1>2, ThreeFine

LEMMA CertInfoFine ==
    ASSUME NEW x, NEW uri, NEW store PROVE Fine(CmServiceGetCertInfo(x, uri, store).err)
<1> DEFINE a == BadUri(uri)
           b == <<store # "SYSTEM_TRUSTED", "INVALID_ARGUMENT_STORE_TYPE">>
<1>1. IsCheck(a) /\ IsCheck(b)
  BY UriIsGood DEF IsCheck
<1>2. CASE store = "USER_TRUSTED" /\ CheckUri(uri)
  <2>1. CmServiceGetCertInfo(x, uri, store) = CheckAndUpdateCallerAndUri(x, uri, "CERTIFICATE", FALSE)
    BY <1>2 DEF CmServiceGetCertInfo, CmServiceGetUserCertInfoCheck
  <2> QED
    BY <2>1, CallerAndUriFine
<1>3. CASE ~(store = "USER_TRUSTED" /\ CheckUri(uri))
  <2>1. CmServiceGetCertInfo(x, uri, store) = Verdict(<<a, b>>, x)
    BY <1>3 DEF CmServiceGetCertInfo
  <2> HIDE DEF a, b
  <2> QED
    BY <1>1, <2>1, TwoFine
<1> QED
  BY <1>2, <1>3

LEMMA UninstallUserCertFine ==
    ASSUME NEW c, NEW x, NEW uri PROVE Fine(CmServiceUninstallUserCertCheck(c, x, uri).err)
<1> DEFINE a == BadUri(uri)
           b == Denied(CmHasEnterpriseUserTrustedPermission(c) \/ CmHasUserTrustedPermission(c))
           w == Verdict(<<a, b>>, x)
<1>1. \/ CmServiceUninstallUserCertCheck(c, x, uri) = w
      \/ CmServiceUninstallUserCertCheck(c, x, uri)
             = CheckAndUpdateCallerAndUri(w.ctx, uri, "CERTIFICATE", TRUE)
  BY DEF CmServiceUninstallUserCertCheck, Then
<1>2. IsCheck(a) /\ IsCheck(b)
  BY UriIsGood, DeniedIsCheck
<1> HIDE DEF a, b
<1>3. Fine(w.err)
  BY <1>2, TwoFine
<1> HIDE DEF w
<1> QED
  BY <1>1, <1>3, CallerAndUriFine

LEMMA SetUserCertStatusFine ==
    ASSUME NEW c, NEW x, NEW uri PROVE Fine(CmServiceSetUserCertStatusCheck(c, x, uri).err)
<1> DEFINE a == Denied(CmHasCommonPermission(c) /\ CmHasUserTrustedPermission(c))
           b == NotSystem(c)
           d == BadUri(uri)
           w == Verdict(<<a, b, d>>, x)
<1>1. \/ CmServiceSetUserCertStatusCheck(c, x, uri) = w
      \/ CmServiceSetUserCertStatusCheck(c, x, uri)
             = CheckAndUpdateCallerAndUri(w.ctx, uri, "CERTIFICATE", TRUE)
  BY DEF CmServiceSetUserCertStatusCheck, Then
<1>2. IsCheck(a) /\ IsCheck(b) /\ IsCheck(d)
  BY UriIsGood, Permitted, DeniedIsCheck
<1> HIDE DEF a, b, d
<1>3. Fine(w.err)
  BY <1>2, ThreeFine
<1> HIDE DEF w
<1> QED
  BY <1>1, <1>3, CallerAndUriFine

LEMMA InstallUserCertFine ==
    ASSUME NEW c, NEW x, NEW cert, NEW alias, NEW id
    PROVE  Fine(CmServiceInstallUserCertCheck(c, x, cert, alias, id).err)
<1> DEFINE a == <<~CmCheckBlob(cert) \/ cert.form = "huge", "INVALID_ARGUMENT_APP_CERT">>
           b == <<alias.form # "ok" /\ (alias.form # "noname" \/ "USER_TRUSTED" = "PRI_CREDENTIAL"),
                  "INVALID_ARGUMENT_ALIAS">>
           d == Denied(CmHasEnterpriseUserTrustedPermission(c) \/ CmHasUserTrustedPermission(c))
           w == Verdict((<<a>> \o <<b>>) \o <<d>>, x)
           e == <<w.ctx.userId # SA_USER /\ id \notin {0, INVALID}, "INVALID_ARGUMENT_USER_ID">>
           y == IF id = INVALID THEN w.ctx ELSE [w.ctx EXCEPT !.userId = id]
<1>1. \/ CmServiceInstallUserCertCheck(c, x, cert, alias, id) = w
      \/ CmServiceInstallUserCertCheck(c, x, cert, alias, id) = Verdict(<<e>>, y)
  BY DEF CmServiceInstallUserCertCheck, CmCheckCertAlias, CmCheckAndUpdateCallerUserId, Then
<1>2. IsCheck(a) /\ IsCheck(b) /\ IsCheck(d) /\ IsCheck(e)
  BY DEF IsCheck, Denied
<1> HIDE DEF a, b, d, e, y
<1>3. Checks(<<a>>) /\ Checks(<<b>>) /\ Checks(<<d>>)
  BY <1>2, OneCheck
<1>4. Checks((<<a>> \o <<b>>) \o <<d>>)
  BY <1>3, BothChecks
<1> QED
  BY <1>1, <1>2, <1>4, VerdictFine, OneFine

LEMMA UriComparedFine == ASSUME NEW x, NEW uri PROVE Fine(CmComparisonCallerIdWithUri(x, uri).err)
<1> DEFINE a == BadUri(uri)
           b == <<<<x.userId, x.uid>> # <<uri.user, uri.app>>, "INVALID_ARGUMENT_URI">>
<1>1. CmComparisonCallerIdWithUri(x, uri) = Verdict(<<a, b>>, x)
  BY DEF CmComparisonCallerIdWithUri
<1>2. IsCheck(a) /\ IsCheck(b)
  BY UriIsGood DEF IsCheck
<1> HIDE DEF a, b
<1> QED
  BY <1>1, <1>2, TwoFine

LEMMA CertListFine ==
    ASSUME NEW x, NEW id, NEW scope, NEW store PROVE Fine(CmServiceGetCertList(x, id, scope, store).err)
<1> DEFINE a == <<scope \notin {"ALL_USER", "CURRENT_USER", "GLOBAL_USER"}, "INVALID_ARGUMENT_SCOPE">>
           b == <<store = "USER_TRUSTED" /\ x.userId # SA_USER /\ id # INVALID, "INVALID_ARGUMENT_USER_ID">>
           d == <<store \notin {"USER_TRUSTED", "SYSTEM_TRUSTED"}, "INVALID_ARGUMENT_STORE_TYPE">>
<1>1. CmServiceGetCertList(x, id, scope, store) = Verdict(<<a, b, d>>, x)
  BY DEF CmServiceGetCertList
<1>2. IsCheck(a) /\ IsCheck(b) /\ IsCheck(d)
  BY DEF IsCheck
<1> HIDE DEF a, b, d
<1> QED
  BY <1>1, <1>2, ThreeFine

LEMMA InstallAppCertFine ==
    ASSUME NEW c, NEW x, NEW a PROVE Fine(CmServiceInstallAppCertCheck(c, x, a).err)
<1> DEFINE b == Denied(CmPermissionCheck(c, a.store))
           d == <<~CmIsSystemAppByStoreType(c, a.store), "NOT_SYSTEM_APP">>
           u == Verdict(CmCheckAppCertParam(a), x)
           nobody == a.userId \in {0, INVALID}
           e == <<IF u.ctx.userId = SA_USER THEN nobody /\ a.store # "CREDENTIAL"
                  ELSE a.userId # INVALID, "INVALID_ARGUMENT_USER_ID">>
           y == IF u.ctx.userId # SA_USER \/ nobody THEN u.ctx ELSE [u.ctx EXCEPT !.userId = a.userId]
           w == IF a.store = "PRI_CREDENTIAL" THEN Pass(u.ctx) ELSE Verdict(<<e>>, y)
<1>1. \/ CmServiceInstallAppCertCheck(c, x, a) = u
      \/ CmServiceInstallAppCertCheck(c, x, a) = w
      \/ CmServiceInstallAppCertCheck(c, x, a) = Verdict(<<b, d>>, w.ctx)
  BY DEF CmServiceInstallAppCertCheck, Then, CmCheckUserIdAndUpdateContext
<1>2. IsCheck(b) /\ IsCheck(d) /\ IsCheck(e)
  BY DEF IsCheck, Denied
<1>3. Fine(u.err)
  BY AppCertParamChecked, VerdictFine
<1> HIDE DEF b, d, e, u, y
<1>4. Fine(w.err)
  BY <1>2, PassFine, OneFine
<1> HIDE DEF w
<1> QED
  BY <1>1, <1>2, <1>3, <1>4, TwoFine

LEMMA UninstallAppCertFine ==
    ASSUME NEW c, NEW x, NEW store, NEW uri PROVE Fine(CmServiceUninstallAppCertCheck(c, x, store, uri).err)
<1> DEFINE a == <<store \notin CREDENTIAL_STORES, "INVALID_ARGUMENT_STORE_TYPE">>
           b == BadUri(uri)
           d == Denied(CmPermissionCheck(c, store))
           e == <<~CmIsSystemAppByStoreType(c, store), "NOT_SYSTEM_APP">>
           w == Verdict(<<a, b, d, e>>, x)
<1>1. \/ CmServiceUninstallAppCertCheck(c, x, store, uri) = w
      \/ CmServiceUninstallAppCertCheck(c, x, store, uri)
             = CheckAndUpdateCallerAndUri(w.ctx, uri, "SYS_KEY", TRUE)
      \/ CmServiceUninstallAppCertCheck(c, x, store, uri) = Pass(w.ctx)
  BY DEF CmServiceUninstallAppCertCheck, Then
<1>2. IsCheck(a) /\ IsCheck(b) /\ IsCheck(d) /\ IsCheck(e)
  BY UriIsGood, DeniedIsCheck DEF IsCheck
<1> HIDE DEF a, b, d, e
<1>3. Fine(w.err)
  BY <1>2, FourChecks, VerdictFine
<1> HIDE DEF w
<1> QED
  BY <1>1, <1>3, CallerAndUriFine, PassFine

LEMMA RemoveAllFine == ASSUME NEW c, NEW x PROVE Fine(CmRemoveAllAppCert(c, x).err)
<1> DEFINE a == Denied(CmHasPrivilegedPermission(c) /\ CmHasCommonPermission(c) /\ CmHasSystemAppPermission(c))
<1>1. CmRemoveAllAppCert(c, x) = Verdict(<<a, NotSystem(c)>>, x)
  BY DEF CmRemoveAllAppCert
<1> QED
  BY <1>1, DeniedIsCheck, Permitted, TwoFine

LEMMA AppCertListFine ==
    ASSUME NEW c, NEW x, NEW store PROVE Fine(CmServiceGetAppCertListCheck(c, x, store).err)
<1> DEFINE a == <<store \notin CREDENTIAL_STORES, "INVALID_ARGUMENT_STORE_TYPE">>
           b == Denied(CmHasPrivilegedPermission(c) /\ CmHasCommonPermission(c))
           d == NotSystem(c)
           t == IF store = "SYS_CREDENTIAL" THEN CmGetSysAppCertListCheck(c, x) ELSE <<b, d>>
<1>1. CmServiceGetAppCertListCheck(c, x, store) = Verdict(<<a>> \o t, x)
  BY DEF CmServiceGetAppCertListCheck
<1>2. IsCheck(a) /\ IsCheck(b) /\ IsCheck(d)
  BY Permitted, DeniedIsCheck DEF IsCheck
<1> HIDE DEF a, b, d
<1>3. Checks(<<a>>) /\ Checks(t)
  BY <1>2, OneCheck, TwoChecks, SysAppCertListChecked
<1> HIDE DEF t
<1> QED
  BY <1>1, <1>3, BothFine

LEMMA CallingAppCertListFine ==
    ASSUME NEW c, NEW x, NEW store PROVE Fine(CmServiceGetCallingAppCertListCheck(c, x, store).err)
<1> DEFINE a == <<store \notin CREDENTIAL_STORES, "INVALID_ARGUMENT_STORE_TYPE">>
           b == Denied(CmHasCommonPermission(c))
           d == Denied(CmHasPrivilegedPermission(c))
           e == NotSystem(c)
           t == CASE store = "SYS_CREDENTIAL" -> CmGetSysAppCertListCheck(c, x)
                  [] store = "PRI_CREDENTIAL" -> <<b>>
                  [] OTHER -> <<b, d, e>>
<1>1. CmServiceGetCallingAppCertListCheck(c, x, store) = Verdict(<<a>> \o t, x)
  BY DEF CmServiceGetCallingAppCertListCheck
<1>2. IsCheck(a) /\ IsCheck(b) /\ IsCheck(d) /\ IsCheck(e)
  BY Permitted, DeniedIsCheck DEF IsCheck
<1> HIDE DEF a, b, d, e
<1>3. \/ t = CmGetSysAppCertListCheck(c, x)
      \/ t = <<b>>
      \/ t = <<b, d, e>>
  OBVIOUS
<1> HIDE DEF t
<1>4. Checks(<<a>>) /\ Checks(t)
  BY <1>2, <1>3, OneCheck, ThreeChecks, SysAppCertListChecked
<1> QED
  BY <1>1, <1>4, BothFine

LEMMA GetAppCertCheckFine ==
    ASSUME NEW c, NEW x, NEW store, NEW uri PROVE Fine(CmServiceGetAppCertCheck(c, x, store, uri).err)
<1> DEFINE a == <<store \notin CREDENTIAL_STORES, "INVALID_ARGUMENT_STORE_TYPE">>
           b == BadUri(uri)
           d == Denied(CmHasCommonPermission(c))
           e == Denied(CmHasSystemAppPermission(c))
           f == NotSystem(c)
           w == Verdict(<<a, b, d>>, x)
           u == CheckAndUpdateCallerAndUri(w.ctx, uri, "SYS_KEY", FALSE)
<1>1. \/ CmServiceGetAppCertCheck(c, x, store, uri) = w
      \/ CmServiceGetAppCertCheck(c, x, store, uri) = Pass(w.ctx)
      \/ CmServiceGetAppCertCheck(c, x, store, uri) = u
      \/ CmServiceGetAppCertCheck(c, x, store, uri) = Verdict(<<e, f>>, u.ctx)
  BY DEF CmServiceGetAppCertCheck, Then
<1>2. IsCheck(a) /\ IsCheck(b) /\ IsCheck(d) /\ IsCheck(e) /\ IsCheck(f)
  BY UriIsGood, Permitted, DeniedIsCheck DEF IsCheck
<1> HIDE DEF a, b, d, e, f
<1>3. Fine(w.err)
  BY <1>2, ThreeFine
<1> HIDE DEF w
<1>4. Fine(u.err)
  BY CallerAndUriFine
<1> HIDE DEF u
<1> QED
  BY <1>1, <1>2, <1>3, <1>4, TwoFine, PassFine

\* Checks of who may use a credential.
LEMMA ProducerChecks == ASSUME NEW x, NEW uri PROVE Checks(CmCheckCallerIsProducer(x, uri))
<1> DEFINE a == BadUri(uri)
           b == <<uri.type # "APP_KEY", "INVALID_ARGUMENT_URI">>
           d == <<~IsProducer(x, uri), "NOT_PERMITTED">>
<1>1. CmCheckCallerIsProducer(x, uri) = <<a, b, d>>
  BY DEF CmCheckCallerIsProducer
<1>2. IsCheck(a) /\ IsCheck(b) /\ IsCheck(d)
  BY UriIsGood DEF IsCheck
<1> HIDE DEF a, b, d
<1> QED
  BY <1>1, <1>2, ThreeChecks

LEMMA CommonUriChecks ==
    ASSUME NEW x, NEW store, NEW uri PROVE Checks(CmCheckAndGetCommonUri(x, store, uri))
<1> DEFINE a == <<uri.type # "SYS_KEY", "INVALID_ARGUMENT_URI">>
           b == <<uri.type # "APP_KEY", "INVALID_ARGUMENT_URI">>
           d == CheckCommonPermission(x, uri)
<1>1. CmCheckAndGetCommonUri(x, store, uri) = <<a>> \/ CmCheckAndGetCommonUri(x, store, uri) = <<b, d>>
  BY DEF CmCheckAndGetCommonUri
<1>2. IsCheck(a) /\ IsCheck(b) /\ IsCheck(d)
  BY DEF IsCheck, CheckCommonPermission
<1> HIDE DEF a, b, d
<1> QED
  BY <1>1, <1>2, OneCheck, TwoChecks

LEMMA StoreChecks == ASSUME NEW c, NEW x, NEW uri PROVE Checks(CheckAndGetStore(c, x, uri))
<1> DEFINE a == Denied(CmHasSystemAppPermission(c))
           b == <<x.userId # SA_USER /\ x.userId # uri.user, "INVALID_ARGUMENT_USER_ID">>
<1>1. CheckAndGetStore(c, x, uri) = <<>> \/ CheckAndGetStore(c, x, uri) = <<a, b>>
  BY DEF CheckAndGetStore
<1>2. IsCheck(a) /\ IsCheck(b)
  BY DeniedIsCheck DEF IsCheck
<1> HIDE DEF a, b
<1> QED
  BY <1>1, <1>2, NoChecks, TwoChecks

LEMMA GetAppCertFine ==
    ASSUME NEW c, NEW x, NEW store, NEW uri PROVE Fine(CmServiceGetAppCert(c, x, store, uri).err)
<1>1. PICK s : /\ CmServiceGetAppCert(c, x, store, uri) = Verdict(s, x)
               /\ \/ s = CmCheckAndGetCommonUri(x, store, uri)
                  \/ s = <<>>
                  \/ s = CheckPermission(c, TRUE, FALSE)
  BY DEF CmServiceGetAppCert
<1> QED
  BY <1>1, CommonUriChecks, NoChecks, PermissionsNeeded, VerdictFine

LEMMA GrantFine ==
    ASSUME NEW c, NEW x, NEW uri, NEW auth PROVE Fine(CmServiceGrantAppCertificate(c, x, uri, auth).err)
<1> DEFINE a == BadUri(uri)
           b == <<~CmCheckBlob(auth), "INVALID_ARGUMENT_URI">>
           w == Verdict(<<a, b>> \o CheckPermission(c, TRUE, TRUE), x)
<1>1. \/ CmServiceGrantAppCertificate(c, x, uri, auth) = w
      \/ CmServiceGrantAppCertificate(c, x, uri, auth) = Verdict(CmCheckCallerIsProducer(w.ctx, uri), w.ctx)
  BY DEF CmServiceGrantAppCertificate, Then
<1>2. IsCheck(a) /\ IsCheck(b)
  BY UriIsGood DEF IsCheck
<1> HIDE DEF a, b
<1>3. Fine(w.err)
  BY <1>2, TwoChecks, PermissionsNeeded, BothFine
<1> HIDE DEF w
<1> QED
  BY <1>1, <1>3, ProducerChecks, VerdictFine

LEMMA InitFine ==
    ASSUME NEW c, NEW x, NEW uri, NEW handle PROVE Fine(CmServiceInit(c, x, uri, handle).err)
<1> DEFINE a == BadUri(uri)
           b == <<~CmCheckBlob(handle), "INVALID_ARGUMENT_HANDLE">>
           w == Verdict(<<a, b>> \o CheckPermission(c, FALSE, TRUE), x)
           s == CheckAndGetStore(c, w.ctx, uri)
           t == CmCheckAndGetCommonUri(w.ctx, StoreOf(uri), uri)
<1>1. \/ CmServiceInit(c, x, uri, handle) = w
      \/ CmServiceInit(c, x, uri, handle) = Verdict(s \o t, w.ctx)
  BY DEF CmServiceInit, Then
<1>2. IsCheck(a) /\ IsCheck(b)
  BY UriIsGood DEF IsCheck
<1>3. Checks(s) /\ Checks(t)
  BY StoreChecks, CommonUriChecks
<1> HIDE DEF a, b, s, t
<1>4. Fine(w.err)
  BY <1>2, TwoChecks, PermissionsNeeded, BothFine
<1> HIDE DEF w
<1> QED
  BY <1>1, <1>3, <1>4, BothFine

LEMMA UpdateFine ==
    ASSUME NEW c, NEW x, NEW handle, NEW inData PROVE Fine(CmServiceUpdate(c, x, handle, inData).err)
<1> DEFINE a == <<~CmCheckBlob(handle), "INVALID_ARGUMENT_HANDLE">>
           b == <<~CmCheckBlob(inData), "INVALID_ARGUMENT">>
<1>1. CmServiceUpdate(c, x, handle, inData) = Verdict(<<a, b>> \o CheckPermission(c, FALSE, TRUE), x)
  BY DEF CmServiceUpdate
<1>2. IsCheck(a) /\ IsCheck(b)
  BY DEF IsCheck
<1> HIDE DEF a, b
<1> QED
  BY <1>1, <1>2, TwoChecks, PermissionsNeeded, BothFine

LEMMA FinishFine == ASSUME NEW c, NEW x, NEW handle PROVE Fine(CmServiceFinish(c, x, handle).err)
<1> DEFINE a == <<~CmCheckBlob(handle), "INVALID_ARGUMENT_HANDLE">>
<1>1. CmServiceFinish(c, x, handle) = Verdict(<<a>> \o CheckPermission(c, FALSE, TRUE), x) /\ IsCheck(a)
  BY DEF CmServiceFinish, IsCheck
<1> HIDE DEF a
<1> QED
  BY <1>1, OneCheck, PermissionsNeeded, BothFine

LEMMA IsAuthorizedFine == ASSUME NEW c, NEW x, NEW uri PROVE Fine(CmServiceIsAuthorizedApp(c, x, uri).err)
<1> DEFINE a == <<~CheckUri(uri), "INVALID_ARGUMENT">>
<1>1. CmServiceIsAuthorizedApp(c, x, uri) = Verdict(<<a>> \o CheckPermission(c, FALSE, TRUE), x) /\ IsCheck(a)
  BY DEF CmServiceIsAuthorizedApp, IsCheck
<1> HIDE DEF a
<1> QED
  BY <1>1, OneCheck, PermissionsNeeded, BothFine

LEMMA CheckAppPermissionFine ==
    ASSUME NEW c, NEW x, NEW uri PROVE Fine(CmServiceCheckAppPermission(c, x, uri).err)
<1> DEFINE w == Verdict(<<BadUri(uri)>>, x)
           s == CheckAndGetStore(c, w.ctx, uri)
           t == CmCheckAndGetCommonUri(w.ctx, StoreOf(uri), uri)
<1>1. \/ CmServiceCheckAppPermission(c, x, uri) = w
      \/ CmServiceCheckAppPermission(c, x, uri) = Verdict(s \o t, w.ctx)
  BY DEF CmServiceCheckAppPermission, Then
<1>2. Checks(s) /\ Checks(t)
  BY StoreChecks, CommonUriChecks
<1>3. Fine(w.err)
  BY UriIsGood, OneFine
<1> HIDE DEF w, s, t
<1> QED
  BY <1>1, <1>2, <1>3, BothFine

-----------------------------------------------------------------------------
(* Under which tags a handler reads its arguments.                          *)

AllSent(p, tags) == \A f \in DOMAIN tags : IsSent(p, tags[f])
Read(p, tags) == [f \in DOMAIN tags |-> GetNormalParam(p, tags[f])]

\* What the handler h made of the parameters p if all of them are there.
Reads(h, p, tags, reply) ==
    AllSent(p, tags) => Fine(h.err) /\ h.args = Read(p, tags) /\ h.reply = reply

LEMMA GetCertificateListReads ==
    ASSUME NEW c, NEW x, NEW p, NEW out, NEW h, h = CmIpcServiceGetCertificateList(c, x, p, out)
    PROVE  Reads(h, p, [store |-> U(0)], "outData")
<1> DEFINE tags == [store |-> U(0)]
           a == Read(p, tags)
           u == CmServiceGetSystemCertListCheck(c, x, a.store)
           v == CmServiceGetCertList(u.ctx, INVALID, "ALL_USER", a.store)
<1> SUFFICES ASSUME AllSent(p, tags) PROVE Fine(h.err) /\ h.args = a /\ h.reply = "outData"
  BY DEF Reads
<1>1. h.err \in {u.err, v.err} /\ h.args = a /\ h.reply = "outData"
  BY DEF CmIpcServiceGetCertificateList, Handle, Then, AllSent, Read
<1> HIDE DEF a
<1>2. Fine(u.err) /\ Fine(v.err)
  BY SystemCertListFine, CertListFine
<1> HIDE DEF u, v
<1> QED
  BY <1>1, <1>2

LEMMA GetCertificateInfoReads ==
    ASSUME NEW c, NEW x, NEW p, NEW out, NEW h, h = CmIpcServiceGetCertificateInfo(c, x, p, out)
    PROVE  Reads(h, p, [certUri |-> B(0), store |-> U(0)], "outData")
<1> DEFINE tags == [certUri |-> B(0), store |-> U(0)]
           a == Read(p, tags)
           u == CmServiceGetSystemCertCheck(c, x, a.store, a.certUri)
           v == CmServiceGetCertInfo(u.ctx, a.certUri, a.store)
<1> SUFFICES ASSUME AllSent(p, tags) PROVE Fine(h.err) /\ h.args = a /\ h.reply = "outData"
  BY DEF Reads
<1>1. h.err \in {u.err, v.err} /\ h.args = a /\ h.reply = "outData"
  BY DEF CmIpcServiceGetCertificateInfo, Handle, Then, AllSent, Read
<1> HIDE DEF a
<1>2. Fine(u.err) /\ Fine(v.err)
  BY SystemCertFine, CertInfoFine
<1> HIDE DEF u, v
<1> QED
  BY <1>1, <1>2

LEMMA SetCertStatusReads ==
    ASSUME NEW c, NEW x, NEW p, NEW out, NEW h, h = CmIpcServiceSetCertStatus(c, x, p, out)
    PROVE  Reads(h, p, [certUri |-> B(0), store |-> U(0), status |-> U(1)], "none")
<1> DEFINE tags == [certUri |-> B(0), store |-> U(0), status |-> U(1)]
           a == Read(p, tags)
           v == CmServiceSetCertStatusCheck(c, x, a.store, a.certUri, a.status)
<1> SUFFICES ASSUME AllSent(p, tags) PROVE Fine(h.err) /\ h.args = a /\ h.reply = "none"
  BY DEF Reads
<1>1. h.err \in {v.err} /\ h.args = a /\ h.reply = "none"
  BY DEF CmIpcServiceSetCertStatus, Handle, Then, AllSent, Read
<1> HIDE DEF a
<1>2. Fine(v.err)
  BY SetCertStatusFine
<1> HIDE DEF v
<1> QED
  BY <1>1, <1>2

LEMMA InstallAppCertReads ==
    ASSUME NEW c, NEW x, NEW p, NEW out, NEW h, h = CmIpcServiceInstallAppCert(c, x, p, out)
    PROVE  Reads(h, p, [appCert |-> B(0), pwd |-> B(1), alias |-> B(2), privKey |-> B(3), store |-> U(0),
                    userId |-> U(1), level |-> U(2), credFormat |-> U(3), aliasFormat |-> U(4)], "outData")
<1> DEFINE tags == [appCert |-> B(0), pwd |-> B(1), alias |-> B(2), privKey |-> B(3), store |-> U(0),
                     userId |-> U(1), level |-> U(2), credFormat |-> U(3), aliasFormat |-> U(4)]
           a == Read(p, tags)
           v == CmServiceInstallAppCertCheck(c, x, a)
<1> SUFFICES ASSUME AllSent(p, tags) PROVE Fine(h.err) /\ h.args = a /\ h.reply = "outData"
  BY DEF Reads
<1>1. h.err \in {v.err} /\ h.args = a /\ h.reply = "outData"
  BY DEF CmIpcServiceInstallAppCert, Handle, Then, AllSent, Read
<1> HIDE DEF a
<1>2. Fine(v.err)
  BY InstallAppCertFine
<1> HIDE DEF v
<1> QED
  BY <1>1, <1>2

LEMMA UninstallAppCertReads ==
    ASSUME NEW c, NEW x, NEW p, NEW out, NEW h, h = CmIpcServiceUninstallAppCert(c, x, p, out)
    PROVE  Reads(h, p, [keyUri |-> B(0), store |-> U(0)], "none")
<1> DEFINE tags == [keyUri |-> B(0), store |-> U(0)]
           a == Read(p, tags)
           v == CmServiceUninstallAppCertCheck(c, x, a.store, a.keyUri)
<1> SUFFICES ASSUME AllSent(p, tags) PROVE Fine(h.err) /\ h.args = a /\ h.reply = "none"
  BY DEF Reads
<1>1. h.err \in {v.err} /\ h.args = a /\ h.reply = "none"
  BY DEF CmIpcServiceUninstallAppCert, Handle, Then, AllSent, Read
<1> HIDE DEF a
<1>2. Fine(v.err)
  BY UninstallAppCertFine
<1> HIDE DEF v
<1> QED
  BY <1>1, <1>2

LEMMA GetAppCertListReads ==
    ASSUME NEW c, NEW x, NEW p, NEW out, NEW h, h = CmIpcServiceGetAppCertList(c, x, p, out)
    PROVE  Reads(h, p, [store |-> U(0)], "own")
<1> DEFINE tags == [store |-> U(0)]
           a == Read(p, tags)
           v == CmServiceGetAppCertListCheck(c, x, a.store)
<1> SUFFICES ASSUME AllSent(p, tags) PROVE Fine(h.err) /\ h.args = a /\ h.reply = "own"
  BY DEF Reads
<1>1. h.err \in {v.err} /\ h.args = a /\ h.reply = "own"
  BY DEF CmIpcServiceGetAppCertList, Handle, Then, AllSent, Read
<1> HIDE DEF a
<1>2. Fine(v.err)
  BY AppCertListFine
<1> HIDE DEF v
<1> QED
  BY <1>1, <1>2

LEMMA GetAppCertListByUidReads ==
    ASSUME NEW c, NEW x, NEW p, NEW out, NEW h, h = CmIpcServiceGetAppCertListByUid(c, x, p, out)
    PROVE  Reads(h, p, [store |-> U(0), appUid |-> U(1)], "own")
<1> DEFINE tags == [store |-> U(0), appUid |-> U(1)]
           a == Read(p, tags)
           v == CmServiceGetAppCertListCheck(c, [x EXCEPT !.uid = a.appUid], a.store)
<1> SUFFICES ASSUME AllSent(p, tags) PROVE Fine(h.err) /\ h.args = a /\ h.reply = "own"
  BY DEF Reads
<1>1. h.err \in {v.err} /\ h.args = a /\ h.reply = "own"
  BY DEF CmIpcServiceGetAppCertListByUid, Handle, Then, AllSent, Read
<1> HIDE DEF a
<1>2. Fine(v.err)
  BY AppCertListFine
<1> HIDE DEF v
<1> QED
  BY <1>1, <1>2

LEMMA GetCallingAppCertListReads ==
    ASSUME NEW c, NEW x, NEW p, NEW out, NEW h, h = CmIpcServiceGetCallingAppCertList(c, x, p, out)
    PROVE  Reads(h, p, [store |-> U(0)], "own")
<1> DEFINE tags == [store |-> U(0)]
           a == Read(p, tags)
           v == CmServiceGetCallingAppCertListCheck(c, x, a.store)
<1> SUFFICES ASSUME AllSent(p, tags) PROVE Fine(h.err) /\ h.args = a /\ h.reply = "own"
  BY DEF Reads
<1>1. h.err \in {v.err} /\ h.args = a /\ h.reply = "own"
  BY DEF CmIpcServiceGetCallingAppCertList, Handle, Then, AllSent, Read
<1> HIDE DEF a
<1>2. Fine(v.err)
  BY CallingAppCertListFine
<1> HIDE DEF v
<1> QED
  BY <1>1, <1>2

LEMMA GetAppCertReads ==
    ASSUME NEW c, NEW x, NEW p, NEW out, NEW h, h = CmIpcServiceGetAppCert(c, x, p, out)
    PROVE  Reads(h, p, [keyUri |-> B(0), store |-> U(0)], "own")
<1> DEFINE tags == [keyUri |-> B(0), store |-> U(0)]
           a == Read(p, tags)
           u == CmServiceGetAppCertCheck(c, x, a.store, a.keyUri)
           v == CmServiceGetAppCert(c, u.ctx, a.store, a.keyUri)
<1> SUFFICES ASSUME AllSent(p, tags) PROVE Fine(h.err) /\ h.args = a /\ h.reply = "own"
  BY DEF Reads
<1>1. h.err \in {u.err, v.err} /\ h.args = a /\ h.reply = "own"
  BY DEF CmIpcServiceGetAppCert, Handle, Then, AllSent, Read
<1> HIDE DEF a
<1>2. Fine(u.err) /\ Fine(v.err)
  BY GetAppCertCheckFine, GetAppCertFine
<1> HIDE DEF u, v
<1> QED
  BY <1>1, <1>2

LEMMA GrantAppCertificateReads ==
    ASSUME NEW c, NEW x, NEW p, NEW out, NEW h, h = CmIpcServiceGrantAppCertificate(c, x, p, out)
    PROVE  Reads(h, p, [keyUri |-> B(0), appUid |-> U(1)], "outData")
<1> DEFINE tags == [keyUri |-> B(0), appUid |-> U(1)]
           a == Read(p, tags)
           v == CmServiceGrantAppCertificate(c, x, a.keyUri, Blob(out))
<1> SUFFICES ASSUME AllSent(p, tags) PROVE Fine(h.err) /\ h.args = a /\ h.reply = "outData"
  BY DEF Reads
<1>1. h.err \in {v.err} /\ h.args = a /\ h.reply = "outData"
  BY DEF CmIpcServiceGrantAppCertificate, Handle, Then, AllSent, Read
<1> HIDE DEF a
<1>2. Fine(v.err)
  BY GrantFine
<1> HIDE DEF v
<1> QED
  BY <1>1, <1>2

LEMMA GetAuthorizedAppListReads ==
    ASSUME NEW c, NEW x, NEW p, NEW out, NEW h, h = CmIpcServiceGetAuthorizedAppList(c, x, p, out)
    PROVE  Reads(h, p, [keyUri |-> B(0)], "outData")
<1> DEFINE tags == [keyUri |-> B(0)]
           a == Read(p, tags)
           e == <<~CmCheckBlob(Blob(out)), "BUFFER_TOO_SMALL">>
           u == Verdict(<<e>>, x)
           v == CmServiceGrantAppCertificate(c, u.ctx, a.keyUri, Blob("ok"))
<1> SUFFICES ASSUME AllSent(p, tags) PROVE Fine(h.err) /\ h.args = a /\ h.reply = "outData"
  BY DEF Reads
<1>1. h.err \in {u.err, v.err} /\ h.args = a /\ h.reply = "outData"
  BY DEF CmIpcServiceGetAuthorizedAppList, CmServiceGetAuthorizedAppList, Handle, Then, AllSent, Read
<1>2. IsCheck(e)
  BY DEF IsCheck, Denied
<1> HIDE DEF a, e
<1>3. Fine(u.err) /\ Fine(v.err)
  BY <1>2, OneFine, GrantFine
<1> HIDE DEF u, v
<1> QED
  BY <1>1, <1>3

LEMMA IsAuthorizedAppReads ==
    ASSUME NEW c, NEW x, NEW p, NEW out, NEW h, h = CmIpcServiceIsAuthorizedApp(c, x, p, out)
    PROVE  Reads(h, p, [authUri |-> B(0)], "none")
<1> DEFINE tags == [authUri |-> B(0)]
           a == Read(p, tags)
           v == CmServiceIsAuthorizedApp(c, x, a.authUri)
<1> SUFFICES ASSUME AllSent(p, tags) PROVE Fine(h.err) /\ h.args = a /\ h.reply = "none"
  BY DEF Reads
<1>1. h.err \in {v.err} /\ h.args = a /\ h.reply = "none"
  BY DEF CmIpcServiceIsAuthorizedApp, Handle, Then, AllSent, Read
<1> HIDE DEF a
<1>2. Fine(v.err)
  BY IsAuthorizedFine
<1> HIDE DEF v
<1> QED
  BY <1>1, <1>2

LEMMA RemoveGrantedAppReads ==
    ASSUME NEW c, NEW x, NEW p, NEW out, NEW h, h = CmIpcServiceRemoveGrantedApp(c, x, p, out)
    PROVE  Reads(h, p, [keyUri |-> B(0), appUid |-> U(1)], "none")
<1> DEFINE tags == [keyUri |-> B(0), appUid |-> U(1)]
           a == Read(p, tags)
           v == CmServiceGrantAppCertificate(c, x, a.keyUri, Blob("ok"))
<1> SUFFICES ASSUME AllSent(p, tags) PROVE Fine(h.err) /\ h.args = a /\ h.reply = "none"
  BY DEF Reads
<1>1. h.err \in {v.err} /\ h.args = a /\ h.reply = "none"
  BY DEF CmIpcServiceRemoveGrantedApp, CmServiceGetAuthorizedAppList, Handle, Then, AllSent, Read
<1> HIDE DEF a
<1>2. Fine(v.err)
  BY GrantFine
<1> HIDE DEF v
<1> QED
  BY <1>1, <1>2

LEMMA InitReads ==
    ASSUME NEW c, NEW x, NEW p, NEW out, NEW h, h = CmIpcServiceInit(c, x, p, out)
    PROVE  Reads(h, p, [authUri |-> B(0), spec |-> B(1)], "outData")
<1> DEFINE tags == [authUri |-> B(0), spec |-> B(1)]
           a == Read(p, tags)
           e == <<~CmCheckBlob(a.spec), "INVALID_ARGUMENT_SIGN_SPEC">>
           u == Verdict(<<e>>, x)
           v == CmServiceInit(c, u.ctx, a.authUri, Blob(out))
<1> SUFFICES ASSUME AllSent(p, tags) PROVE Fine(h.err) /\ h.args = a /\ h.reply = "outData"
  BY DEF Reads
<1>1. h.err \in {u.err, v.err} /\ h.args = a /\ h.reply = "outData"
  BY DEF CmIpcServiceInit, Handle, Then, AllSent, Read
<1>2. IsCheck(e)
  BY DEF IsCheck, Denied
<1> HIDE DEF a, e
<1>3. Fine(u.err) /\ Fine(v.err)
  BY <1>2, OneFine, InitFine
<1> HIDE DEF u, v
<1> QED
  BY <1>1, <1>3

LEMMA UpdateReads ==
    ASSUME NEW c, NEW x, NEW p, NEW out, NEW h, h = CmIpcServiceUpdate(c, x, p, out)
    PROVE  Reads(h, p, [handle |-> B(0), inData |-> B(1)], "none")
<1> DEFINE tags == [handle |-> B(0), inData |-> B(1)]
           a == Read(p, tags)
           v == CmServiceUpdate(c, x, a.handle, a.inData)
<1> SUFFICES ASSUME AllSent(p, tags) PROVE Fine(h.err) /\ h.args = a /\ h.reply = "none"
  BY DEF Reads
<1>1. h.err \in {v.err} /\ h.args = a /\ h.reply = "none"
  BY DEF CmIpcServiceUpdate, Handle, Then, AllSent, Read
<1> HIDE DEF a
<1>2. Fine(v.err)
  BY UpdateFine
<1> HIDE DEF v
<1> QED
  BY <1>1, <1>2

LEMMA FinishReads ==
    ASSUME NEW c, NEW x, NEW p, NEW out, NEW h, h = CmIpcServiceFinish(c, x, p, out)
    PROVE  Reads(h, p, [handle |-> B(0), inData |-> B(1)], "outData")
<1> DEFINE tags == [handle |-> B(0), inData |-> B(1)]
           a == Read(p, tags)
           v == CmServiceFinish(c, x, a.handle)
<1> SUFFICES ASSUME AllSent(p, tags) PROVE Fine(h.err) /\ h.args = a /\ h.reply = "outData"
  BY DEF Reads
<1>1. h.err \in {v.err} /\ h.args = a /\ h.reply = "outData"
  BY DEF CmIpcServiceFinish, Handle, Then, AllSent, Read
<1> HIDE DEF a
<1>2. Fine(v.err)
  BY FinishFine
<1> HIDE DEF v
<1> QED
  BY <1>1, <1>2

LEMMA AbortReads ==
    ASSUME NEW c, NEW x, NEW p, NEW out, NEW h, h = CmIpcServiceAbort(c, x, p, out)
    PROVE  Reads(h, p, [handle |-> B(0)], "none")
<1> DEFINE tags == [handle |-> B(0)]
           a == Read(p, tags)
           v == CmServiceFinish(c, x, a.handle)
<1> SUFFICES ASSUME AllSent(p, tags) PROVE Fine(h.err) /\ h.args = a /\ h.reply = "none"
  BY DEF Reads
<1>1. h.err \in {v.err} /\ h.args = a /\ h.reply = "none"
  BY DEF CmIpcServiceAbort, Handle, Then, AllSent, Read
<1> HIDE DEF a
<1>2. Fine(v.err)
  BY FinishFine
<1> HIDE DEF v
<1> QED
  BY <1>1, <1>2

LEMMA GetUserCertListReads ==
    ASSUME NEW c, NEW x, NEW p, NEW out, NEW h, h = CmIpcServiceGetUserCertList(c, x, p, out)
    PROVE  Reads(h, p, [store |-> U(0), userId |-> U(1), scope |-> U(2)], "outData")
<1> DEFINE tags == [store |-> U(0), userId |-> U(1), scope |-> U(2)]
           a == Read(p, tags)
           u == Verdict(CmHasGetCAPermission(c, a.store), x)
           v == CmServiceGetCertList(u.ctx, a.userId, a.scope, a.store)
<1> SUFFICES ASSUME AllSent(p, tags) PROVE Fine(h.err) /\ h.args = a /\ h.reply = "outData"
  BY DEF Reads
<1>1. h.err \in {u.err, v.err} /\ h.args = a /\ h.reply = "outData"
  BY DEF CmIpcServiceGetUserCertList, Handle, Then, AllSent, Read
<1> HIDE DEF a
<1>2. Fine(u.err) /\ Fine(v.err)
  BY GetCAPermission, VerdictFine, CertListFine
<1> HIDE DEF u, v
<1> QED
  BY <1>1, <1>2

LEMMA GetUserCertInfoReads ==
    ASSUME NEW c, NEW x, NEW p, NEW out, NEW h, h = CmIpcServiceGetUserCertInfo(c, x, p, out)
    PROVE  Reads(h, p, [certUri |-> B(0), store |-> U(0)], "outData")
<1> DEFINE tags == [certUri |-> B(0), store |-> U(0)]
           a == Read(p, tags)
           e == Denied(CmHasCommonPermission(c))
           u == Verdict(<<e>>, x)
           v == CmServiceGetCertInfo(u.ctx, a.certUri, a.store)
<1> SUFFICES ASSUME AllSent(p, tags) PROVE Fine(h.err) /\ h.args = a /\ h.reply = "outData"
  BY DEF Reads
<1>1. h.err \in {u.err, v.err} /\ h.args = a /\ h.reply = "outData"
  BY DEF CmIpcServiceGetUserCertInfo, Handle, Then, AllSent, Read
<1>2. IsCheck(e)
  BY DEF IsCheck, Denied
<1> HIDE DEF a, e
<1>3. Fine(u.err) /\ Fine(v.err)
  BY <1>2, OneFine, CertInfoFine
<1> HIDE DEF u, v
<1> QED
  BY <1>1, <1>3

LEMMA SetUserCertStatusReads ==
    ASSUME NEW c, NEW x, NEW p, NEW out, NEW h, h = CmIpcServiceSetUserCertStatus(c, x, p, out)
    PROVE  Reads(h, p, [certUri |-> B(0), store |-> U(0), status |-> U(1)], "none")
<1> DEFINE tags == [certUri |-> B(0), store |-> U(0), status |-> U(1)]
           a == Read(p, tags)
           v == CmServiceSetUserCertStatusCheck(c, x, a.certUri)
<1> SUFFICES ASSUME AllSent(p, tags) PROVE Fine(h.err) /\ h.args = a /\ h.reply = "none"
  BY DEF Reads
<1>1. h.err \in {v.err} /\ h.args = a /\ h.reply = "none"
  BY DEF CmIpcServiceSetUserCertStatus, Handle, Then, AllSent, Read
<1> HIDE DEF a
<1>2. Fine(v.err)
  BY SetUserCertStatusFine
<1> HIDE DEF v
<1> QED
  BY <1>1, <1>2

LEMMA InstallUserCertReads ==
    ASSUME NEW c, NEW x, NEW p, NEW out, NEW h, h = CmIpcServiceInstallUserCert(c, x, p, out)
    PROVE  Reads(h, p, [userCert |-> B(0), alias |-> B(1), userId |-> U(0), status |-> U(1), format |-> U(2)], "outData")
<1> DEFINE tags == [userCert |-> B(0), alias |-> B(1), userId |-> U(0), status |-> U(1), format |-> U(2)]
           a == Read(p, tags)
           e == <<~CmCheckBlob(Blob(out)), "INVALID_ARGUMENT">>
           f == <<a.format \notin {"PEM_DER", "P7B"}, "NOT_SUPPORTED">>
           u == CmServiceInstallUserCertCheck(c, x, a.userCert, a.alias, a.userId)
           v == Verdict(<<e, f>>, u.ctx)
<1> SUFFICES ASSUME AllSent(p, tags) PROVE Fine(h.err) /\ h.args = a /\ h.reply = "outData"
  BY DEF Reads
<1>1. h.err \in {u.err, v.err} /\ h.args = a /\ h.reply = "outData"
  BY DEF CmIpcServiceInstallUserCert, Handle, Then, AllSent, Read
<1>2. IsCheck(e) /\ IsCheck(f)
  BY DEF IsCheck, Denied
<1> HIDE DEF a, e, f
<1>3. Fine(u.err) /\ Fine(v.err)
  BY <1>2, InstallUserCertFine, TwoFine
<1> HIDE DEF u, v
<1> QED
  BY <1>1, <1>3

LEMMA UninstallUserCertReads ==
    ASSUME NEW c, NEW x, NEW p, NEW out, NEW h, h = CmIpcServiceUninstallUserCert(c, x, p, out)
    PROVE  Reads(h, p, [certUri |-> B(0)], "none")
<1> DEFINE tags == [certUri |-> B(0)]
           a == Read(p, tags)
           u == CmServiceUninstallUserCertCheck(c, x, a.certUri)
           v == CmComparisonCallerIdWithUri(u.ctx, a.certUri)
<1> SUFFICES ASSUME AllSent(p, tags) PROVE Fine(h.err) /\ h.args = a /\ h.reply = "none"
  BY DEF Reads
<1>1. h.err \in {u.err, v.err} /\ h.args = a /\ h.reply = "none"
  BY DEF CmIpcServiceUninstallUserCert, Handle, Then, AllSent, Read
<1> HIDE DEF a
<1>2. Fine(u.err) /\ Fine(v.err)
  BY UninstallUserCertFine, UriComparedFine
<1> HIDE DEF u, v
<1> QED
  BY <1>1, <1>2

LEMMA CheckAppPermissionReads ==
    ASSUME NEW c, NEW x, NEW p, NEW out, NEW h, h = CmIpcServiceCheckAppPermission(c, x, p, out)
    PROVE  Reads(h, p, [keyUri |-> B(0), appUid |-> U(0)], "outData")
<1> DEFINE tags == [keyUri |-> B(0), appUid |-> U(0)]
           a == Read(p, tags)
           e == Denied(CmHasCommonPermission(c))
           u == Verdict(<<e>>, [x EXCEPT !.uid = a.appUid])
           v == CmServiceCheckAppPermission(c, u.ctx, a.keyUri)
<1> SUFFICES ASSUME AllSent(p, tags) PROVE Fine(h.err) /\ h.args = a /\ h.reply = "outData"
  BY DEF Reads
<1>1. h.err \in {u.err, v.err} /\ h.args = a /\ h.reply = "outData"
  BY DEF CmIpcServiceCheckAppPermission, Handle, Then, AllSent, Read
<1>2. IsCheck(e)
  BY DEF IsCheck, Denied
<1> HIDE DEF a, e
<1>3. Fine(u.err) /\ Fine(v.err)
  BY <1>2, OneFine, CheckAppPermissionFine
<1> HIDE DEF u, v
<1> QED
  BY <1>1, <1>3

LEMMA GetUkeyCertListReads ==
    ASSUME NEW c, NEW x, NEW p, NEW out, NEW h, h = CmIpcServiceGetUkeyCertList(c, x, p, out)
    PROVE  Reads(h, p, [provider |-> B(0), purpose |-> U(0)], "parcel")
<1> DEFINE tags == [provider |-> B(0), purpose |-> U(0)]
           a == Read(p, tags)
           e == Denied(CmHasCommonPermission(c))
           v == Verdict(<<e>>, x)
<1> SUFFICES ASSUME AllSent(p, tags) PROVE Fine(h.err) /\ h.args = a /\ h.reply = "parcel"
  BY DEF Reads
<1>1. h.err \in {v.err} /\ h.args = a /\ h.reply = "parcel"
  BY DEF CmIpcServiceGetUkeyCertList, CmIpcServiceGetUkeyCertListCommon, Handle, Then, AllSent, Read
<1>2. IsCheck(e)
  BY DEF IsCheck, Denied
<1> HIDE DEF a, e
<1>3. Fine(v.err)
  BY <1>2, OneFine
<1> HIDE DEF v
<1> QED
  BY <1>1, <1>3

LEMMA GetUkeyCertReads ==
    ASSUME NEW c, NEW x, NEW p, NEW out, NEW h, h = CmIpcServiceGetUkeyCert(c, x, p, out)
    PROVE  Reads(h, p, [keyUri |-> B(0), purpose |-> U(0)], "parcel")
<1> DEFINE tags == [keyUri |-> B(0), purpose |-> U(0)]
           a == Read(p, tags)
           e == Denied(CmHasCommonPermission(c))
           v == Verdict(<<e>>, x)
<1> SUFFICES ASSUME AllSent(p, tags) PROVE Fine(h.err) /\ h.args = a /\ h.reply = "parcel"
  BY DEF Reads
<1>1. h.err \in {v.err} /\ h.args = a /\ h.reply = "parcel"
  BY DEF CmIpcServiceGetUkeyCert, CmIpcServiceGetUkeyCertListCommon, Handle, Then, AllSent, Read
<1>2. IsCheck(e)
  BY DEF IsCheck, Denied
<1> HIDE DEF a, e
<1>3. Fine(v.err)
  BY <1>2, OneFine
<1> HIDE DEF v
<1> QED
  BY <1>1, <1>3

LEMMA ImportUkeyCertReads ==
    ASSUME NEW c, NEW x, NEW p, NEW out, NEW h, h = CmIpcServiceImportUkeyCert(c, x, p, out)
    PROVE  Reads(h, p, [keyUri |-> B(0), cert |-> B(1), purpose |-> U(0)], "parcel")
<1> DEFINE tags == [keyUri |-> B(0), cert |-> B(1), purpose |-> U(0)]
           a == Read(p, tags)
           e == <<a.cert.form = "huge", "INVALID_ARGUMENT_LENGTH_TOO_LARGE">>
           f == Denied(CmHasCommonPermission(c))
           v == Verdict(<<e, f>>, x)
<1> SUFFICES ASSUME AllSent(p, tags) PROVE Fine(h.err) /\ h.args = a /\ h.reply = "parcel"
  BY DEF Reads
<1>1. h.err \in {v.err} /\ h.args = a /\ h.reply = "parcel"
  BY DEF CmIpcServiceImportUkeyCert, Handle, Then, AllSent, Read
<1>2. IsCheck(e) /\ IsCheck(f)
  BY DEF IsCheck, Denied
<1> HIDE DEF a, e, f
<1>3. Fine(v.err)
  BY <1>2, TwoFine
<1> HIDE DEF v
<1> QED
  BY <1>1, <1>3


\* Two handlers read nothing.
LEMMA NothingRead == ASSUME NEW p PROVE Read(p, <<>>) = <<>>
  BY DEF Read
LEMMA UninstallAllAppCertReads ==
    ASSUME NEW c, NEW x, NEW p, NEW out, NEW h, h = CmIpcServiceUninstallAllAppCert(c, x, p, out)
    PROVE  Reads(h, p, <<>>, "none")
<1>1. h.err = CmRemoveAllAppCert(c, x).err /\ h.args = <<>> /\ h.reply = "none"
  BY DEF CmIpcServiceUninstallAllAppCert, HandleAll
<1> QED
  BY <1>1, RemoveAllFine, NothingRead DEF Reads

LEMMA UninstallAllUserCertReads ==
    ASSUME NEW c, NEW x, NEW p, NEW out, NEW h, h = CmIpcServiceUninstallAllUserCert(c, x, p, out)
    PROVE  Reads(h, p, <<>>, "none")
<1> DEFINE a == Denied(CmHasCommonPermission(c) /\ CmHasUserTrustedPermission(c))
<1>1. h.err = Verdict(<<a, NotSystem(c)>>, x).err /\ h.args = <<>> /\ h.reply = "none"
  BY DEF CmIpcServiceUninstallAllUserCert, HandleAll
<1> QED
  BY <1>1, DeniedIsCheck, Permitted, TwoFine, NothingRead DEF Reads

\* The tags that go with a code, and how it is answered.
TagsAt(code) ==
    CASE code = "INSTALL_APP_CERTIFICATE" ->
           [appCert |-> B(0), pwd |-> B(1), alias |-> B(2), privKey |-> B(3), store |-> U(0),
            userId |-> U(1), level |-> U(2), credFormat |-> U(3), aliasFormat |-> U(4)]
      [] code = "UNINSTALL_APP_CERTIFICATE" -> [keyUri |-> B(0), store |-> U(0)]
      [] code = "UNINSTALL_ALL_APP_CERTIFICATE" -> <<>>
      [] code = "GET_APP_CERTIFICATE_LIST" -> [store |-> U(0)]
      [] code = "GET_CALLING_APP_CERTIFICATE_LIST" -> [store |-> U(0)]
      [] code = "GET_APP_CERTIFICATE" -> [keyUri |-> B(0), store |-> U(0)]
      [] code = "GET_APP_CERTIFICATE_LIST_BY_UID" -> [store |-> U(0), appUid |-> U(1)]
      [] code = "GRANT_APP_CERT" -> [keyUri |-> B(0), appUid |-> U(1)]
      [] code = "GET_AUTHED_LIST" -> [keyUri |-> B(0)]
      [] code = "CHECK_IS_AUTHED_APP" -> [authUri |-> B(0)]
      [] code = "REMOVE_GRANT_APP" -> [keyUri |-> B(0), appUid |-> U(1)]
      [] code = "INIT" -> [authUri |-> B(0), spec |-> B(1)]
      [] code = "UPDATE" -> [handle |-> B(0), inData |-> B(1)]
      [] code = "FINISH" -> [handle |-> B(0), inData |-> B(1)]
      [] code = "ABORT" -> [handle |-> B(0)]
      [] code = "GET_USER_CERTIFICATE_LIST" -> [store |-> U(0), userId |-> U(1), scope |-> U(2)]
      [] code = "GET_USER_CERTIFICATE_INFO" -> [certUri |-> B(0), store |-> U(0)]
      [] code = "SET_USER_CERTIFICATE_STATUS" -> [certUri |-> B(0), store |-> U(0), status |-> U(1)]
      [] code = "INSTALL_USER_CERTIFICATE" ->
           [userCert |-> B(0), alias |-> B(1), userId |-> U(0), status |-> U(1),
            format |-> U(2)]
      [] code = "UNINSTALL_USER_CERTIFICATE" -> [certUri |-> B(0)]
      [] code = "UNINSTALL_ALL_USER_CERTIFICATE" -> <<>>
      [] code = "GET_CERTIFICATE_LIST" -> [store |-> U(0)]
      [] code = "GET_CERTIFICATE_INFO" -> [certUri |-> B(0), store |-> U(0)]
      [] code = "SET_CERTIFICATE_STATUS" -> [certUri |-> B(0), store |-> U(0), status |-> U(1)]
      [] code = "CHECK_APP_PERMISSION" -> [keyUri |-> B(0), appUid |-> U(0)]
      [] code = "GET_UKEY_CERTIFICATE_LIST" -> [provider |-> B(0), purpose |-> U(0)]
      [] code = "GET_UKEY_CERTIFICATE" -> [keyUri |-> B(0), purpose |-> U(0)]
      [] code = "IMPORT_UKEY_CERTIFICATE" -> [keyUri |-> B(0), cert |-> B(1), purpose |-> U(0)]
ReplyAt(code) ==
    CASE code \in
            {"INSTALL_APP_CERTIFICATE", "GRANT_APP_CERT", "GET_AUTHED_LIST", "INIT", "FINISH",
             "GET_USER_CERTIFICATE_LIST", "GET_USER_CERTIFICATE_INFO", "INSTALL_USER_CERTIFICATE",
             "GET_CERTIFICATE_LIST", "GET_CERTIFICATE_INFO", "CHECK_APP_PERMISSION"} -> "outData"
      [] code \in
            {"GET_APP_CERTIFICATE_LIST", "GET_CALLING_APP_CERTIFICATE_LIST",
             "GET_APP_CERTIFICATE", "GET_APP_CERTIFICATE_LIST_BY_UID"} -> "own"
      [] code \in
            {"GET_UKEY_CERTIFICATE_LIST", "GET_UKEY_CERTIFICATE", "IMPORT_UKEY_CERTIFICATE"} -> "parcel"
      [] OTHER -> "none"

\* The table of the handlers.
LEMMA ProcessMessageReads ==
    ASSUME NEW c, NEW x, NEW p, NEW out, NEW h, NEW code \in DOMAIN WorkAt,
           h = ProcessMessage(code, c, x, p, out)
    PROVE  Reads(h, p, TagsAt(code), ReplyAt(code))
<1>1. CASE code = "INSTALL_APP_CERTIFICATE"
  <2>1. h = CmIpcServiceInstallAppCert(c, x, p, out)
    BY <1>1 DEF ProcessMessage
  <2> QED
    BY <1>1, <2>1, InstallAppCertReads DEF TagsAt, ReplyAt
<1>2. CASE code = "UNINSTALL_APP_CERTIFICATE"
  <2>1. h = CmIpcServiceUninstallAppCert(c, x, p, out)
    BY <1>2 DEF ProcessMessage
  <2> QED
    BY <1>2, <2>1, UninstallAppCertReads DEF TagsAt, ReplyAt
<1>3. CASE code = "UNINSTALL_ALL_APP_CERTIFICATE"
  <2>1. h = CmIpcServiceUninstallAllAppCert(c, x, p, out)
    BY <1>3 DEF ProcessMessage
  <2> QED
    BY <1>3, <2>1, UninstallAllAppCertReads DEF TagsAt, ReplyAt
<1>4. CASE code = "GET_APP_CERTIFICATE_LIST"
  <2>1. h = CmIpcServiceGetAppCertList(c, x, p, out)
    BY <1>4 DEF ProcessMessage
  <2> QED
    BY <1>4, <2>1, GetAppCertListReads DEF TagsAt, ReplyAt
<1>5. CASE code = "GET_CALLING_APP_CERTIFICATE_LIST"
  <2>1. h = CmIpcServiceGetCallingAppCertList(c, x, p, out)
    BY <1>5 DEF ProcessMessage
  <2> QED
    BY <1>5, <2>1, GetCallingAppCertListReads DEF TagsAt, ReplyAt
<1>6. CASE code = "GET_APP_CERTIFICATE"
  <2>1. h = CmIpcServiceGetAppCert(c, x, p, out)
    BY <1>6 DEF ProcessMessage
  <2> QED
    BY <1>6, <2>1, GetAppCertReads DEF TagsAt, ReplyAt
<1>7. CASE code = "GET_APP_CERTIFICATE_LIST_BY_UID"
  <2>1. h = CmIpcServiceGetAppCertListByUid(c, x, p, out)
    BY <1>7 DEF ProcessMessage
  <2> QED
    BY <1>7, <2>1, GetAppCertListByUidReads DEF TagsAt, ReplyAt
<1>8. CASE code = "GRANT_APP_CERT"
  <2>1. h = CmIpcServiceGrantAppCertificate(c, x, p, out)
    BY <1>8 DEF ProcessMessage
  <2> QED
    BY <1>8, <2>1, GrantAppCertificateReads DEF TagsAt, ReplyAt
<1>9. CASE code = "GET_AUTHED_LIST"
  <2>1. h = CmIpcServiceGetAuthorizedAppList(c, x, p, out)
    BY <1>9 DEF ProcessMessage
  <2> QED
    BY <1>9, <2>1, GetAuthorizedAppListReads DEF TagsAt, ReplyAt
<1>10. CASE code = "CHECK_IS_AUTHED_APP"
  <2>1. h = CmIpcServiceIsAuthorizedApp(c, x, p, out)
    BY <1>10 DEF ProcessMessage
  <2> QED
    BY <1>10, <2>1, IsAuthorizedAppReads DEF TagsAt, ReplyAt
<1>11. CASE code = "REMOVE_GRANT_APP"
  <2>1. h = CmIpcServiceRemoveGrantedApp(c, x, p, out)
    BY <1>11 DEF ProcessMessage
  <2> QED
    BY <1>11, <2>1, RemoveGrantedAppReads DEF TagsAt, ReplyAt
<1>12. CASE code = "INIT"
  <2>1. h = CmIpcServiceInit(c, x, p, out)
    BY <1>12 DEF ProcessMessage
  <2> QED
    BY <1>12, <2>1, InitReads DEF TagsAt, ReplyAt
<1>13. CASE code = "UPDATE"
  <2>1. h = CmIpcServiceUpdate(c, x, p, out)
    BY <1>13 DEF ProcessMessage
  <2> QED
    BY <1>13, <2>1, UpdateReads DEF TagsAt, ReplyAt
<1>14. CASE code = "FINISH"
  <2>1. h = CmIpcServiceFinish(c, x, p, out)
    BY <1>14 DEF ProcessMessage
  <2> QED
    BY <1>14, <2>1, FinishReads DEF TagsAt, ReplyAt
<1>15. CASE code = "ABORT"
  <2>1. h = CmIpcServiceAbort(c, x, p, out)
    BY <1>15 DEF ProcessMessage
  <2> QED
    BY <1>15, <2>1, AbortReads DEF TagsAt, ReplyAt
<1>16. CASE code = "GET_USER_CERTIFICATE_LIST"
  <2>1. h = CmIpcServiceGetUserCertList(c, x, p, out)
    BY <1>16 DEF ProcessMessage
  <2> QED
    BY <1>16, <2>1, GetUserCertListReads DEF TagsAt, ReplyAt
<1>17. CASE code = "GET_USER_CERTIFICATE_INFO"
  <2>1. h = CmIpcServiceGetUserCertInfo(c, x, p, out)
    BY <1>17 DEF ProcessMessage
  <2> QED
    BY <1>17, <2>1, GetUserCertInfoReads DEF TagsAt, ReplyAt
<1>18. CASE code = "SET_USER_CERTIFICATE_STATUS"
  <2>1. h = CmIpcServiceSetUserCertStatus(c, x, p, out)
    BY <1>18 DEF ProcessMessage
  <2> QED
    BY <1>18, <2>1, SetUserCertStatusReads DEF TagsAt, ReplyAt
<1>19. CASE code = "INSTALL_USER_CERTIFICATE"
  <2>1. h = CmIpcServiceInstallUserCert(c, x, p, out)
    BY <1>19 DEF ProcessMessage
  <2> QED
    BY <1>19, <2>1, InstallUserCertReads DEF TagsAt, ReplyAt
<1>20. CASE code = "UNINSTALL_USER_CERTIFICATE"
  <2>1. h = CmIpcServiceUninstallUserCert(c, x, p, out)
    BY <1>20 DEF ProcessMessage
  <2> QED
    BY <1>20, <2>1, UninstallUserCertReads DEF TagsAt, ReplyAt
<1>21. CASE code = "UNINSTALL_ALL_USER_CERTIFICATE"
  <2>1. h = CmIpcServiceUninstallAllUserCert(c, x, p, out)
    BY <1>21 DEF ProcessMessage
  <2> QED
    BY <1>21, <2>1, UninstallAllUserCertReads DEF TagsAt, ReplyAt
<1>22. CASE code = "GET_CERTIFICATE_LIST"
  <2>1. h = CmIpcServiceGetCertificateList(c, x, p, out)
    BY <1>22 DEF ProcessMessage
  <2> QED
    BY <1>22, <2>1, GetCertificateListReads DEF TagsAt, ReplyAt
<1>23. CASE code = "GET_CERTIFICATE_INFO"
  <2>1. h = CmIpcServiceGetCertificateInfo(c, x, p, out)
    BY <1>23 DEF ProcessMessage
  <2> QED
    BY <1>23, <2>1, GetCertificateInfoReads DEF TagsAt, ReplyAt
<1>24. CASE code = "SET_CERTIFICATE_STATUS"
  <2>1. h = CmIpcServiceSetCertStatus(c, x, p, out)
    BY <1>24 DEF ProcessMessage
  <2> QED
    BY <1>24, <2>1, SetCertStatusReads DEF TagsAt, ReplyAt
<1>25. CASE code = "CHECK_APP_PERMISSION"
  <2>1. h = CmIpcServiceCheckAppPermission(c, x, p, out)
    BY <1>25 DEF ProcessMessage
  <2> QED
    BY <1>25, <2>1, CheckAppPermissionReads DEF TagsAt, ReplyAt
<1>26. CASE code = "GET_UKEY_CERTIFICATE_LIST"
  <2>1. h = CmIpcServiceGetUkeyCertList(c, x, p, out)
    BY <1>26 DEF ProcessMessage
  <2> QED
    BY <1>26, <2>1, GetUkeyCertListReads DEF TagsAt, ReplyAt
<1>27. CASE code = "GET_UKEY_CERTIFICATE"
  <2>1. h = CmIpcServiceGetUkeyCert(c, x, p, out)
    BY <1>27 DEF ProcessMessage
  <2> QED
    BY <1>27, <2>1, GetUkeyCertReads DEF TagsAt, ReplyAt
<1>28. CASE code = "IMPORT_UKEY_CERTIFICATE"
  <2>1. h = CmIpcServiceImportUkeyCert(c, x, p, out)
    BY <1>28 DEF ProcessMessage
  <2> QED
    BY <1>28, <2>1, ImportUkeyCertReads DEF TagsAt, ReplyAt
<1> QED
  BY <1>1, <1>2, <1>3, <1>4, <1>5, <1>6, <1>7, <1>8, <1>9, <1>10, <1>11, <1>12, <1>13, <1>14,
     <1>15, <1>16, <1>17, <1>18, <1>19, <1>20, <1>21, <1>22, <1>23, <1>24, <1>25, <1>26, <1>27,
     <1>28 DEF WorkAt

-----------------------------------------------------------------------------
(* What is written under a tag is what is read under it.                    *)

\* Every argument has a tag of its own.
Tagged(tags) ==
    /\ \A f, g \in DOMAIN tags : tags[f] = tags[g] => f = g
    /\ \A f \in DOMAIN tags : \E i \in Nat : tags[f] \in {B(i), U(i)}
\* The arguments e under these tags, and the argument v as it is read.
Pairs(tags, e) == {<<tags[f], e[f]>> : f \in DOMAIN tags}
Arriving(tag, v) == IF tag[1] = "BUFFER" /\ ~CmCheckBlob(v) THEN Blob("empty") ELSE v

LEMMA ParamOfTag ==
    ASSUME NEW tags, NEW e, NEW f \in DOMAIN tags, Tagged(tags)
    PROVE  tags[f] \in DOMAIN Params(Pairs(tags, e)) /\ Params(Pairs(tags, e))[tags[f]] = e[f]
<1> DEFINE P == Pairs(tags, e)
           q == CHOOSE q \in P : q[1] = tags[f]
<1>1. <<tags[f], e[f]>> \in P
  BY DEF Pairs
<1>2. q \in P /\ q[1] = tags[f]
  BY <1>1
<1>3. tags[f] \in {r[1] : r \in P}
  BY <1>1
<1>4. tags[f] \in DOMAIN Params(P) /\ Params(P)[tags[f]] = q[2]
  BY <1>3 DEF Params
<1> HIDE DEF q
<1>5. PICK g \in DOMAIN tags : q = <<tags[g], e[g]>>
  BY <1>2 DEF Pairs
<1>6. g = f
  BY <1>2, <1>5 DEF Tagged
<1> QED
  BY <1>4, <1>5, <1>6

LEMMA NoOtherTag ==
    ASSUME NEW tags, NEW e, NEW t \in DOMAIN Params(Pairs(tags, e))
    PROVE  \E f \in DOMAIN tags : t = tags[f]
  BY DEF Params, Pairs

LEMMA Arrives ==
    ASSUME NEW tags, NEW e, NEW p, Tagged(tags), p = CmParamsToParamSet(Params(Pairs(tags, e)))
    PROVE  AllSent(p, tags) /\ \A f \in DOMAIN tags : Read(p, tags)[f] = Arriving(tags[f], e[f])
<1> DEFINE q == Params(Pairs(tags, e))
           sent(tag) == IF tag[1] = "BUFFER" /\ ~CmCheckBlob(q[tag]) THEN N(tag[2]) ELSE tag
<1>1. p = [t \in {sent(tag) : tag \in DOMAIN q} |-> IF t[1] = "NULL" THEN Blob("ok") ELSE q[t]]
  BY DEF CmParamsToParamSet
<1> SUFFICES ASSUME NEW f \in DOMAIN tags
             PROVE  IsSent(p, tags[f]) /\ GetNormalParam(p, tags[f]) = Arriving(tags[f], e[f])
  BY DEF AllSent, Read
<1>2. tags[f] \in DOMAIN q /\ q[tags[f]] = e[f]
  BY ParamOfTag
<1>3. \A t \in DOMAIN q : \E g \in DOMAIN tags : t = tags[g]
  BY NoOtherTag
<1> HIDE DEF q
<1>4. PICK i \in Nat : tags[f] \in {B(i), U(i)}
  BY DEF Tagged
<1>5. CASE tags[f] = U(i)
  <2>1. tags[f][1] = "UINT32" /\ sent(tags[f]) = tags[f]
    BY <1>5 DEF U
  <2>2. tags[f] \in DOMAIN p /\ p[tags[f]] = e[f]
    BY <1>1, <1>2, <2>1
  <2> QED
    BY <2>1, <2>2 DEF IsSent, GetNormalParam, Arriving
<1>6. CASE tags[f] = B(i) /\ CmCheckBlob(e[f])
  <2>1. tags[f][1] = "BUFFER" /\ sent(tags[f]) = tags[f]
    BY <1>2, <1>6 DEF B
  <2>2. tags[f] \in DOMAIN p /\ p[tags[f]] = e[f]
    BY <1>1, <1>2, <2>1
  <2> QED
    BY <1>6, <2>1, <2>2 DEF IsSent, GetNormalParam, Arriving
<1>7. CASE tags[f] = B(i) /\ ~CmCheckBlob(e[f])
  <2>1. tags[f][1] = "BUFFER" /\ tags[f][2] = i /\ sent(tags[f]) = N(i)
    BY <1>2, <1>7 DEF B
  <2>2. N(i) \in DOMAIN p
    BY <1>1, <1>2, <2>1
  <2>3. tags[f] \notin DOMAIN p
    <3> SUFFICES ASSUME tags[f] \in DOMAIN p PROVE FALSE
      OBVIOUS
    <3>1. PICK t \in DOMAIN q : sent(t) = B(i)
      BY <1>1, <1>7
    <3>2. PICK g \in DOMAIN tags : t = tags[g]
      BY <1>3, <3>1
    <3>3. sent(t) = N(t[2]) \/ sent(t) = t
      OBVIOUS
    <3>4. N(t[2]) # B(i)
      BY DEF N, B
    <3>5. t = B(i)
      BY <3>1, <3>3, <3>4
    <3>6. sent(t) = N(i)
      BY <1>7, <2>1, <3>5
    <3> QED
      BY <3>1, <3>6 DEF N, B
  <2> QED
    BY <1>7, <2>1, <2>2, <2>3 DEF IsSent, GetNormalParam, Arriving
<1> QED
  BY <1>4, <1>5, <1>6, <1>7

LEMMA TagsAreTheirOwn == \A code \in DOMAIN WorkAt : Tagged(TagsAt(code))
<1> SUFFICES ASSUME NEW code \in DOMAIN WorkAt PROVE Tagged(TagsAt(code))
  OBVIOUS
<1>1. CASE code = "INSTALL_APP_CERTIFICATE"
  BY <1>1 DEF TagsAt, Tagged, B, U
<1>2. CASE code = "UNINSTALL_APP_CERTIFICATE"
  BY <1>2 DEF TagsAt, Tagged, B, U
<1>3. CASE code = "UNINSTALL_ALL_APP_CERTIFICATE"
  BY <1>3 DEF TagsAt, Tagged, B, U
<1>4. CASE code = "GET_APP_CERTIFICATE_LIST"
  BY <1>4 DEF TagsAt, Tagged, B, U
<1>5. CASE code = "GET_CALLING_APP_CERTIFICATE_LIST"
  BY <1>5 DEF TagsAt, Tagged, B, U
<1>6. CASE code = "GET_APP_CERTIFICATE"
  BY <1>6 DEF TagsAt, Tagged, B, U
<1>7. CASE code = "GET_APP_CERTIFICATE_LIST_BY_UID"
  BY <1>7 DEF TagsAt, Tagged, B, U
<1>8. CASE code = "GRANT_APP_CERT"
  BY <1>8 DEF TagsAt, Tagged, B, U
<1>9. CASE code = "GET_AUTHED_LIST"
  BY <1>9 DEF TagsAt, Tagged, B, U
<1>10. CASE code = "CHECK_IS_AUTHED_APP"
  BY <1>10 DEF TagsAt, Tagged, B, U
<1>11. CASE code = "REMOVE_GRANT_APP"
  BY <1>11 DEF TagsAt, Tagged, B, U
<1>12. CASE code = "INIT"
  BY <1>12 DEF TagsAt, Tagged, B, U
<1>13. CASE code = "UPDATE"
  BY <1>13 DEF TagsAt, Tagged, B, U
<1>14. CASE code = "FINISH"
  BY <1>14 DEF TagsAt, Tagged, B, U
<1>15. CASE code = "ABORT"
  BY <1>15 DEF TagsAt, Tagged, B, U
<1>16. CASE code = "GET_USER_CERTIFICATE_LIST"
  BY <1>16 DEF TagsAt, Tagged, B, U
<1>17. CASE code = "GET_USER_CERTIFICATE_INFO"
  BY <1>17 DEF TagsAt, Tagged, B, U
<1>18. CASE code = "SET_USER_CERTIFICATE_STATUS"
  BY <1>18 DEF TagsAt, Tagged, B, U
<1>19. CASE code = "INSTALL_USER_CERTIFICATE"
  BY <1>19 DEF TagsAt, Tagged, B, U
<1>20. CASE code = "UNINSTALL_USER_CERTIFICATE"
  BY <1>20 DEF TagsAt, Tagged, B, U
<1>21. CASE code = "UNINSTALL_ALL_USER_CERTIFICATE"
  BY <1>21 DEF TagsAt, Tagged, B, U
<1>22. CASE code = "GET_CERTIFICATE_LIST"
  BY <1>22 DEF TagsAt, Tagged, B, U
<1>23. CASE code = "GET_CERTIFICATE_INFO"
  BY <1>23 DEF TagsAt, Tagged, B, U
<1>24. CASE code = "SET_CERTIFICATE_STATUS"
  BY <1>24 DEF TagsAt, Tagged, B, U
<1>25. CASE code = "CHECK_APP_PERMISSION"
  BY <1>25 DEF TagsAt, Tagged, B, U
<1>26. CASE code = "GET_UKEY_CERTIFICATE_LIST"
  BY <1>26 DEF TagsAt, Tagged, B, U
<1>27. CASE code = "GET_UKEY_CERTIFICATE"
  BY <1>27 DEF TagsAt, Tagged, B, U
<1>28. CASE code = "IMPORT_UKEY_CERTIFICATE"
  BY <1>28 DEF TagsAt, Tagged, B, U
<1> QED
  BY <1>1, <1>2, <1>3, <1>4, <1>5, <1>6, <1>7, <1>8, <1>9, <1>10, <1>11, <1>12, <1>13, <1>14,
     <1>15, <1>16, <1>17, <1>18, <1>19, <1>20, <1>21, <1>22, <1>23, <1>24, <1>25, <1>26, <1>27,
     <1>28 DEF WorkAt

-----------------------------------------------------------------------------
(* What a function of the SDK sends.                                        *)

\* The request r that is made with the code for the message and with pairs of
\* tags and values; and q is this one, or refuses for another reason than the
\* form of the message.
HasFields(r, code, pairs, out, via) ==
    /\ r.err = "SUCCESS" /\ r.code = code /\ r.params = Params(pairs) /\ r.out = out /\ r.via = via
    /\ Fine(r.unpack)
Sent(q, code, pairs, out, via) ==
    Fine(q.err) /\ (q.err = "SUCCESS" => HasFields(q, code, pairs, out, via))

LEMMA RequestHas ==
    ASSUME NEW code, NEW pairs, NEW out PROVE HasFields(Request(code, pairs, out), code, pairs, out, "request")
<1> DEFINE p == Params(pairs)
<1>1. Request(code, pairs, out) =
          [Refuse("SUCCESS") EXCEPT !.code = code, !.params = p, !.out = out, !.via = "request"]
  BY DEF Request
<1> HIDE DEF p
<1>2. /\ Request(code, pairs, out).err = "SUCCESS" /\ Request(code, pairs, out).code = code
      /\ Request(code, pairs, out).params = p /\ Request(code, pairs, out).out = out
      /\ Request(code, pairs, out).via = "request" /\ Request(code, pairs, out).unpack = "SUCCESS"
  BY <1>1 DEF Refuse
<1> QED
  BY <1>2 DEF HasFields, Fine, p

\* A request as RequestHas, but the fields that Unpacked and GetUkeyCertList change.
LEMMA RequestIs ==
    ASSUME NEW code, NEW pairs, NEW out
    PROVE  \E d : Request(code, pairs, out) =
                      [err |-> "SUCCESS", code |-> code, params |-> d, out |-> out, via |-> "request",
                       unpack |-> "SUCCESS"]
                  /\ d = Params(pairs)
<1> DEFINE p == Params(pairs)
<1>1. Request(code, pairs, out) =
          [Refuse("SUCCESS") EXCEPT !.code = code, !.params = p, !.out = out, !.via = "request"]
  BY DEF Request
<1> HIDE DEF p
<1>2. Request(code, pairs, out) = [err |-> "SUCCESS", code |-> code, params |-> p, out |-> out,
                                   via |-> "request", unpack |-> "SUCCESS"]
  BY <1>1 DEF Refuse
<1> QED
  BY <1>2 DEF p

LEMMA UnpackedHas ==
    ASSUME NEW code, NEW pairs, NEW out, NEW into, NEW err, Fine(err)
    PROVE  HasFields(Unpacked(Request(code, pairs, out), into, err), code, pairs, out, "request")
<1>1. PICK d : Request(code, pairs, out) = [err |-> "SUCCESS", code |-> code, params |-> d, out |-> out,
                                            via |-> "request", unpack |-> "SUCCESS"]
               /\ d = Params(pairs)
  BY RequestIs
<1>2. PICK r : r = Unpacked(Request(code, pairs, out), into, err)
  OBVIOUS
<1>3. r.err = "SUCCESS" /\ r.code = code /\ r.params = d /\ r.out = out /\ r.via = "request"
      /\ r.unpack \in {"SUCCESS", err}
  BY <1>1, <1>2 DEF Unpacked
<1> QED
  BY <1>1, <1>2, <1>3 DEF HasFields, Fine

LEMMA ParcelHas ==
    ASSUME NEW code, NEW pairs, NEW out
    PROVE  HasFields([Request(code, pairs, out) EXCEPT !.via = "parcel"], code, pairs, out, "parcel")
<1>1. PICK d : Request(code, pairs, out) = [err |-> "SUCCESS", code |-> code, params |-> d, out |-> out,
                                            via |-> "request", unpack |-> "SUCCESS"]
               /\ d = Params(pairs)
  BY RequestIs
<1>2. PICK r : r = [Request(code, pairs, out) EXCEPT !.via = "parcel"]
  OBVIOUS
<1>3. r.err = "SUCCESS" /\ r.code = code /\ r.params = d /\ r.out = out /\ r.via = "parcel"
      /\ r.unpack = "SUCCESS"
  BY <1>1, <1>2
<1> QED
  BY <1>1, <1>2, <1>3 DEF HasFields, Fine

LEMMA RefuseSends ==
    ASSUME NEW err, Fine(err), err # "SUCCESS", NEW code, NEW pairs, NEW out, NEW via
    PROVE  Sent(Refuse(err), code, pairs, out, via)
<1>1. Refuse(err).err = err
  BY DEF Refuse
<1> QED
  BY <1>1 DEF Sent
LEMMA HasIsSent ==
    ASSUME NEW r, NEW code, NEW pairs, NEW out, NEW via, HasFields(r, code, pairs, out, via)
    PROVE  Sent(r, code, pairs, out, via)
  BY DEF HasFields, Sent, Fine
LEMMA AskAgainSends ==
    ASSUME NEW s, NEW q, NEW code, NEW pairs, NEW out, NEW via, Checks(s), Sent(q, code, pairs, out, via)
    PROVE  Sent(Ask(s, q), code, pairs, out, via)
<1>1. CASE FirstError(s) = "SUCCESS"
  BY <1>1 DEF Ask
<1>2. CASE FirstError(s) # "SUCCESS"
  <2>1. Fine(FirstError(s))
    <3>1. Verdict(s, 0).err = FirstError(s)
      BY DEF Verdict
    <3> QED
      BY <3>1, VerdictFine
  <2>2. Ask(s, q) = Refuse(FirstError(s))
    BY <1>2 DEF Ask
  <2> QED
    BY <1>2, <2>1, <2>2, RefuseSends
<1> QED
  BY <1>1, <1>2
LEMMA AskSends ==
    ASSUME NEW s, NEW r, NEW code, NEW pairs, NEW out, NEW via, Checks(s),
           HasFields(r, code, pairs, out, via)
    PROVE  Sent(Ask(s, r), code, pairs, out, via)
  BY HasIsSent, AskAgainSends

LEMMA ChecksOfSdk ==
    /\ \A blob, err : err \in {"NULL_POINTER", "INVALID_ARGUMENT"} => IsCheck(Null(blob, err))
    /\ \A blob : IsCheck(Invalid(blob))
    /\ \A store : IsCheck(InvalidStore(store))
  BY DEF IsCheck, Null, Invalid, InvalidStore

LEMMA CmGetCertListSends ==
    ASSUME NEW a
    PROVE  Sent(CmGetCertList(a), "GET_CERTIFICATE_LIST",
                {<<U(0), a.store>>},
                Buffer("ok"), "request")
<1> DEFINE pairs == {<<U(0), a.store>>}
           err == "BUFFER_TOO_SMALL"
           r == Unpacked(Request("GET_CERTIFICATE_LIST", pairs, Buffer("ok")), a.list, err)
           b == Null(a.list, "NULL_POINTER")
           c == <<~CmCheckBlob(a.list) \/ a.store # "SYSTEM_TRUSTED", "INVALID_ARGUMENT">>
<1>1. CmGetCertList(a) = Ask(<<b, c>>, r)
  BY DEF CmGetCertList, GetCertificateList, CmCertificateListUnpackFromService
<1>2. IsCheck(b) /\ IsCheck(c)
  BY ChecksOfSdk DEF IsCheck
<1>3. Fine(err)
  BY DEF Fine
<1> HIDE DEF b, c, pairs, err
<1>4. HasFields(r, "GET_CERTIFICATE_LIST", pairs, Buffer("ok"), "request")
  BY <1>3, UnpackedHas
<1> HIDE DEF r
<1>5. Sent(Ask(<<b, c>>, r),
          "GET_CERTIFICATE_LIST", pairs, Buffer("ok"), "request")
  BY <1>2, <1>4, TwoChecks, AskSends
<1> QED
  BY <1>1, <1>5 DEF pairs

LEMMA CmGetCertInfoSends ==
    ASSUME NEW a
    PROVE  Sent(CmGetCertInfo(a), "GET_CERTIFICATE_INFO",
                {<<B(0), a.certUri>>, <<U(0), a.store>>},
                Buffer("ok"), "request")
<1> DEFINE pairs == {<<B(0), a.certUri>>, <<U(0), a.store>>}
           err == "BUFFER_TOO_SMALL"
           r == Unpacked(Request("GET_CERTIFICATE_INFO", pairs, Buffer("ok")), a.info, err)
           b == Null(a.certUri, "NULL_POINTER")
           c == Null(a.info, "NULL_POINTER")
           d == <<~CmCheckBlob(a.info) \/ a.store # "SYSTEM_TRUSTED", "INVALID_ARGUMENT">>
<1>1. CmGetCertInfo(a) = Ask(<<b, c, d>>, r)
  BY DEF CmGetCertInfo, GetCertificateInfo, CmCertificateInfoUnpackFromService
<1>2. IsCheck(b) /\ IsCheck(c) /\ IsCheck(d)
  BY ChecksOfSdk DEF IsCheck
<1>3. Fine(err)
  BY DEF Fine
<1> HIDE DEF b, c, d, pairs, err
<1>4. HasFields(r, "GET_CERTIFICATE_INFO", pairs, Buffer("ok"), "request")
  BY <1>3, UnpackedHas
<1> HIDE DEF r
<1>5. Sent(Ask(<<b, c, d>>, r),
          "GET_CERTIFICATE_INFO", pairs, Buffer("ok"), "request")
  BY <1>2, <1>4, ThreeChecks, AskSends
<1> QED
  BY <1>1, <1>5 DEF pairs

LEMMA CmSetCertStatusSends ==
    ASSUME NEW a
    PROVE  Sent(CmSetCertStatus(a), "SET_CERTIFICATE_STATUS",
                {<<B(0), a.certUri>>, <<U(0), a.store>>, <<U(1), BoolToStatus(a.on)>>},
                NoOut, "request")
<1> DEFINE pairs == {<<B(0), a.certUri>>, <<U(0), a.store>>, <<U(1), BoolToStatus(a.on)>>}
           r == Request("SET_CERTIFICATE_STATUS", pairs, NoOut)
           b == Null(a.certUri, "NULL_POINTER")
           c == <<a.store # "SYSTEM_TRUSTED", "INVALID_ARGUMENT">>
<1>1. CmSetCertStatus(a) = Ask(<<b, c>>, r)
  BY DEF CmSetCertStatus, SetCertificateStatus
<1>2. IsCheck(b) /\ IsCheck(c)
  BY ChecksOfSdk DEF IsCheck
<1> HIDE DEF b, c, pairs
<1>3. HasFields(r, "SET_CERTIFICATE_STATUS", pairs, NoOut, "request")
  BY RequestHas
<1> HIDE DEF r
<1>4. Sent(Ask(<<b, c>>, r),
          "SET_CERTIFICATE_STATUS", pairs, NoOut, "request")
  BY <1>2, <1>3, TwoChecks, AskSends
<1> QED
  BY <1>1, <1>4 DEF pairs

LEMMA CmInstallAppCertExSends ==
    ASSUME NEW a
    PROVE  Sent(CmInstallAppCertEx(a), "INSTALL_APP_CERTIFICATE",
                {<<B(0), a.appCert>>, <<B(1), a.pwd>>, <<B(2), a.alias>>, <<B(3), a.privKey>>, <<U(0),
                 a.store>>, <<U(1), a.userId>>, <<U(2), a.level>>, <<U(3), a.credFormat>>, <<U(4),
                 a.aliasFormat>>},
                CallerBlob(a.keyUri), "request")
<1> DEFINE pairs == {<<B(0), a.appCert>>, <<B(1), a.pwd>>, <<B(2), a.alias>>, <<B(3), a.privKey>>, <<U(0),
                     a.store>>, <<U(1), a.userId>>, <<U(2), a.level>>, <<U(3), a.credFormat>>, <<U(4),
                     a.aliasFormat>>}
           r == Request("INSTALL_APP_CERTIFICATE", pairs, CallerBlob(a.keyUri))
           b == NullParam(a)
           c == <<a.level \notin {"EL1", "EL2", "EL4"} \/ a.credFormat \notin {"FILE_P12", "CHAIN_KEY"}, "INVALID_ARGUMENT">>
           d == <<a.credFormat = "FILE_P12" /\ (a.pwd.form = "null" \/ a.userId # INVALID
                                             \/ a.store # "PRI_CREDENTIAL"), "INVALID_ARGUMENT">>
           e == <<a.credFormat # "FILE_P12" /\ a.privKey.form = "null", "INVALID_ARGUMENT">>
<1>1. CmInstallAppCertEx(a) = Ask(<<b, c, d, e>>, r)
  BY DEF CmInstallAppCertEx, CmClientInstallAppCert
<1>2. IsCheck(b) /\ IsCheck(c) /\ IsCheck(d) /\ IsCheck(e)
  BY  DEF IsCheck, NullParam
<1> HIDE DEF b, c, d, e, pairs
<1>3. HasFields(r, "INSTALL_APP_CERTIFICATE", pairs, CallerBlob(a.keyUri), "request")
  BY RequestHas
<1> HIDE DEF r
<1>4. Sent(Ask(<<b, c, d, e>>, r),
          "INSTALL_APP_CERTIFICATE", pairs, CallerBlob(a.keyUri), "request")
  BY <1>2, <1>3, FourChecks, AskSends
<1> QED
  BY <1>1, <1>4 DEF pairs

LEMMA CmInstallAppCertSends ==
    ASSUME NEW a
    PROVE  Sent(CmInstallAppCert(a), "INSTALL_APP_CERTIFICATE",
                {<<B(0), a.appCert>>, <<B(1), a.pwd>>, <<B(2), a.alias>>, <<B(3), Blob("empty")>>,
                 <<U(0), a.store>>, <<U(1), INVALID>>, <<U(2), IF a.store = "CREDENTIAL" THEN "EL2" ELSE
                 "EL1">>, <<U(3), "FILE_P12">>, <<U(4), "DEFAULT">>},
                CallerBlob(a.keyUri), "request")
<1> DEFINE pairs == {<<B(0), a.appCert>>, <<B(1), a.pwd>>, <<B(2), a.alias>>, <<B(3), Blob("empty")>>,
                     <<U(0), a.store>>, <<U(1), INVALID>>, <<U(2), IF a.store = "CREDENTIAL" THEN "EL2" ELSE
                     "EL1">>, <<U(3), "FILE_P12">>, <<U(4), "DEFAULT">>}
           r == Request("INSTALL_APP_CERTIFICATE", pairs, CallerBlob(a.keyUri))
           b == NullParam(a)
           c == Null(a.pwd, "INVALID_ARGUMENT")
           d == InvalidStore(a.store)
<1>1. CmInstallAppCert(a) = Ask(<<b, c, d>>, r)
  BY DEF CmInstallAppCert, CmClientInstallAppCert
<1>2. IsCheck(b) /\ IsCheck(c) /\ IsCheck(d)
  BY ChecksOfSdk DEF IsCheck, NullParam
<1> HIDE DEF b, c, d, pairs
<1>3. HasFields(r, "INSTALL_APP_CERTIFICATE", pairs, CallerBlob(a.keyUri), "request")
  BY RequestHas
<1> HIDE DEF r
<1>4. Sent(Ask(<<b, c, d>>, r),
          "INSTALL_APP_CERTIFICATE", pairs, CallerBlob(a.keyUri), "request")
  BY <1>2, <1>3, ThreeChecks, AskSends
<1> QED
  BY <1>1, <1>4 DEF pairs

LEMMA CmInstallSystemAppCertSends ==
    ASSUME NEW a
    PROVE  Sent(CmInstallSystemAppCert(a), "INSTALL_APP_CERTIFICATE",
                {<<B(0), a.appCert>>, <<B(1), a.pwd>>, <<B(2), a.alias>>, <<B(3), Blob("empty")>>,
                 <<U(0), a.store>>, <<U(1), a.userId>>, <<U(2), "EL1">>, <<U(3), "FILE_P12">>, <<U(4),
                 "DEFAULT">>},
                CallerBlob(a.keyUri), "request")
<1> DEFINE pairs == {<<B(0), a.appCert>>, <<B(1), a.pwd>>, <<B(2), a.alias>>, <<B(3), Blob("empty")>>,
                     <<U(0), a.store>>, <<U(1), a.userId>>, <<U(2), "EL1">>, <<U(3), "FILE_P12">>, <<U(4),
                     "DEFAULT">>}
           r == Request("INSTALL_APP_CERTIFICATE", pairs, CallerBlob(a.keyUri))
           b == NullParam(a)
           c == Null(a.pwd, "INVALID_ARGUMENT")
           d == <<a.store # "SYS_CREDENTIAL" \/ a.userId \in {0, INVALID}, "INVALID_ARGUMENT">>
<1>1. CmInstallSystemAppCert(a) = Ask(<<b, c, d>>, r)
  BY DEF CmInstallSystemAppCert, CmClientInstallSystemAppCert, CmClientInstallAppCert
<1>2. IsCheck(b) /\ IsCheck(c) /\ IsCheck(d)
  BY ChecksOfSdk DEF IsCheck, NullParam
<1> HIDE DEF b, c, d, pairs
<1>3. HasFields(r, "INSTALL_APP_CERTIFICATE", pairs, CallerBlob(a.keyUri), "request")
  BY RequestHas
<1> HIDE DEF r
<1>4. Sent(Ask(<<b, c, d>>, r),
          "INSTALL_APP_CERTIFICATE", pairs, CallerBlob(a.keyUri), "request")
  BY <1>2, <1>3, ThreeChecks, AskSends
<1> QED
  BY <1>1, <1>4 DEF pairs

LEMMA CmUninstallAppCertSends ==
    ASSUME NEW a
    PROVE  Sent(CmUninstallAppCert(a), "UNINSTALL_APP_CERTIFICATE",
                {<<B(0), a.keyUri>>, <<U(0), a.store>>},
                NoOut, "request")
<1> DEFINE pairs == {<<B(0), a.keyUri>>, <<U(0), a.store>>}
           r == Request("UNINSTALL_APP_CERTIFICATE", pairs, NoOut)
           b == Null(a.keyUri, "INVALID_ARGUMENT")
           c == InvalidStore(a.store)
<1>1. CmUninstallAppCert(a) = Ask(<<b, c>>, r)
  BY DEF CmUninstallAppCert, UninstallAppCert
<1>2. IsCheck(b) /\ IsCheck(c)
  BY ChecksOfSdk
<1> HIDE DEF b, c, pairs
<1>3. HasFields(r, "UNINSTALL_APP_CERTIFICATE", pairs, NoOut, "request")
  BY RequestHas
<1> HIDE DEF r
<1>4. Sent(Ask(<<b, c>>, r),
          "UNINSTALL_APP_CERTIFICATE", pairs, NoOut, "request")
  BY <1>2, <1>3, TwoChecks, AskSends
<1> QED
  BY <1>1, <1>4 DEF pairs

LEMMA CmUninstallAllAppCertSends ==
    ASSUME NEW a
    PROVE  Sent(CmUninstallAllAppCert(a), "UNINSTALL_ALL_APP_CERTIFICATE",
                {},
                NoOut, "request")
<1> DEFINE pairs == {}
           r == Request("UNINSTALL_ALL_APP_CERTIFICATE", pairs, NoOut)
<1>1. CmUninstallAllAppCert(a) = r
  BY DEF CmUninstallAllAppCert, CmClientUninstallAllAppCert, NoParams
<1> HIDE DEF pairs
<1>2. HasFields(r, "UNINSTALL_ALL_APP_CERTIFICATE", pairs, NoOut, "request")
  BY RequestHas
<1> HIDE DEF r
<1> QED
  BY <1>1, <1>2, HasIsSent DEF pairs

LEMMA CmGetAppCertListSends ==
    ASSUME NEW a
    PROVE  Sent(CmGetAppCertList(a), "GET_APP_CERTIFICATE_LIST",
                {<<U(0), a.store>>},
                Received, "request")
<1> DEFINE pairs == {<<U(0), a.store>>}
           r == Request("GET_APP_CERTIFICATE_LIST", pairs, Received)
           b == Null(a.list, "INVALID_ARGUMENT")
           c == InvalidStore(a.store)
<1>1. CmGetAppCertList(a) = Ask(<<b, c>>, r)
  BY DEF CmGetAppCertList, GetAppCertListCommon
<1>2. IsCheck(b) /\ IsCheck(c)
  BY ChecksOfSdk
<1> HIDE DEF b, c, pairs
<1>3. HasFields(r, "GET_APP_CERTIFICATE_LIST", pairs, Received, "request")
  BY RequestHas
<1> HIDE DEF r
<1>4. Sent(Ask(<<b, c>>, r),
          "GET_APP_CERTIFICATE_LIST", pairs, Received, "request")
  BY <1>2, <1>3, TwoChecks, AskSends
<1> QED
  BY <1>1, <1>4 DEF pairs

LEMMA CmGetAppCertListByUidSends ==
    ASSUME NEW a
    PROVE  Sent(CmGetAppCertListByUid(a), "GET_APP_CERTIFICATE_LIST_BY_UID",
                {<<U(0), a.store>>, <<U(1), a.appUid>>},
                Received, "request")
<1> DEFINE pairs == {<<U(0), a.store>>, <<U(1), a.appUid>>}
           r == Request("GET_APP_CERTIFICATE_LIST_BY_UID", pairs, Received)
           b == Null(a.list, "INVALID_ARGUMENT")
           c == InvalidStore(a.store)
<1>1. CmGetAppCertListByUid(a) = Ask(<<b, c>>, r)
  BY DEF CmGetAppCertListByUid, GetAppCertListCommon
<1>2. IsCheck(b) /\ IsCheck(c)
  BY ChecksOfSdk
<1> HIDE DEF b, c, pairs
<1>3. HasFields(r, "GET_APP_CERTIFICATE_LIST_BY_UID", pairs, Received, "request")
  BY RequestHas
<1> HIDE DEF r
<1>4. Sent(Ask(<<b, c>>, r),
          "GET_APP_CERTIFICATE_LIST_BY_UID", pairs, Received, "request")
  BY <1>2, <1>3, TwoChecks, AskSends
<1> QED
  BY <1>1, <1>4 DEF pairs

LEMMA CmCallingGetAppCertListSends ==
    ASSUME NEW a
    PROVE  Sent(CmCallingGetAppCertList(a), "GET_CALLING_APP_CERTIFICATE_LIST",
                {<<U(0), a.store>>},
                Received, "request")
<1> DEFINE pairs == {<<U(0), a.store>>}
           r == Request("GET_CALLING_APP_CERTIFICATE_LIST", pairs, Received)
           b == Null(a.list, "INVALID_ARGUMENT")
           c == InvalidStore(a.store)
<1>1. CmCallingGetAppCertList(a) = Ask(<<b, c>>, r)
  BY DEF CmCallingGetAppCertList, GetAppCertListCommon
<1>2. IsCheck(b) /\ IsCheck(c)
  BY ChecksOfSdk
<1> HIDE DEF b, c, pairs
<1>3. HasFields(r, "GET_CALLING_APP_CERTIFICATE_LIST", pairs, Received, "request")
  BY RequestHas
<1> HIDE DEF r
<1>4. Sent(Ask(<<b, c>>, r),
          "GET_CALLING_APP_CERTIFICATE_LIST", pairs, Received, "request")
  BY <1>2, <1>3, TwoChecks, AskSends
<1> QED
  BY <1>1, <1>4 DEF pairs

LEMMA CmGetAppCertSends ==
    ASSUME NEW a
    PROVE  Sent(CmGetAppCert(a), "GET_APP_CERTIFICATE",
                {<<B(0), a.keyUri>>, <<U(0), a.store>>},
                Buffer("ok"), "request")
<1> DEFINE pairs == {<<B(0), a.keyUri>>, <<U(0), a.store>>}
           err == "INVALID_ARGUMENT"
           r == Unpacked(Request("GET_APP_CERTIFICATE", pairs, Buffer("ok")), a.credential, err)
           b == Null(a.keyUri, "INVALID_ARGUMENT")
           c == Null(a.credential, "INVALID_ARGUMENT")
           d == InvalidStore(a.store)
<1>1. CmGetAppCert(a) = Ask(<<b, c, d>>, r)
  BY DEF CmGetAppCert, GetAppCert, CmCredentialUnpackFromService
<1>2. IsCheck(b) /\ IsCheck(c) /\ IsCheck(d)
  BY ChecksOfSdk
<1>3. Fine(err)
  BY DEF Fine
<1> HIDE DEF b, c, d, pairs, err
<1>4. HasFields(r, "GET_APP_CERTIFICATE", pairs, Buffer("ok"), "request")
  BY <1>3, UnpackedHas
<1> HIDE DEF r
<1>5. Sent(Ask(<<b, c, d>>, r),
          "GET_APP_CERTIFICATE", pairs, Buffer("ok"), "request")
  BY <1>2, <1>4, ThreeChecks, AskSends
<1> QED
  BY <1>1, <1>5 DEF pairs

LEMMA CmGrantAppCertificateSends ==
    ASSUME NEW a
    PROVE  Sent(CmGrantAppCertificate(a), "GRANT_APP_CERT",
                {<<B(0), a.keyUri>>, <<U(1), a.appUid>>},
                CallerBlob(a.authUri), "request")
<1> DEFINE pairs == {<<B(0), a.keyUri>>, <<U(1), a.appUid>>}
           r == Request("GRANT_APP_CERT", pairs, CallerBlob(a.authUri))
           b == Null(a.keyUri, "INVALID_ARGUMENT")
           c == Null(a.authUri, "INVALID_ARGUMENT")
           d == Invalid(a.keyUri)
           e == Invalid(a.authUri)
<1>1. CmGrantAppCertificate(a) = Ask(<<b, c>>, Ask(<<d, e>>, r))
  BY DEF CmGrantAppCertificate, CmClientGrantAppCertificate
<1>2. IsCheck(b) /\ IsCheck(c) /\ IsCheck(d) /\ IsCheck(e)
  BY ChecksOfSdk
<1> HIDE DEF b, c, d, e, pairs
<1>3. HasFields(r, "GRANT_APP_CERT", pairs, CallerBlob(a.authUri), "request")
  BY RequestHas
<1> HIDE DEF r
<1>4. Sent(Ask(<<d, e>>, r),
          "GRANT_APP_CERT", pairs, CallerBlob(a.authUri), "request")
  BY <1>2, <1>3, TwoChecks, AskSends
<1>5. Sent(Ask(<<b, c>>, Ask(<<d, e>>, r)),
          "GRANT_APP_CERT", pairs, CallerBlob(a.authUri), "request")
  BY <1>2, <1>4, TwoChecks, AskAgainSends
<1> QED
  BY <1>1, <1>5 DEF pairs

LEMMA CmGetAuthorizedAppListSends ==
    ASSUME NEW a
    PROVE  Sent(CmGetAuthorizedAppList(a), "GET_AUTHED_LIST",
                {<<B(0), a.keyUri>>},
                Buffer(a.list.form), "request")
<1> DEFINE pairs == {<<B(0), a.keyUri>>}
           r == Request("GET_AUTHED_LIST", pairs, Buffer(a.list.form))
           b == Null(a.keyUri, "INVALID_ARGUMENT")
           c == Null(a.list, "INVALID_ARGUMENT")
           d == Invalid(a.keyUri)
           e == <<a.list.form = "toobig", "INVALID_ARGUMENT">>
<1>1. CmGetAuthorizedAppList(a) = Ask(<<b, c>>, Ask(<<d, e>>, r))
  BY DEF CmGetAuthorizedAppList, CmClientGetAuthorizedAppList
<1>2. IsCheck(b) /\ IsCheck(c) /\ IsCheck(d) /\ IsCheck(e)
  BY ChecksOfSdk DEF IsCheck
<1> HIDE DEF b, c, d, e, pairs
<1>3. HasFields(r, "GET_AUTHED_LIST", pairs, Buffer(a.list.form), "request")
  BY RequestHas
<1> HIDE DEF r
<1>4. Sent(Ask(<<d, e>>, r),
          "GET_AUTHED_LIST", pairs, Buffer(a.list.form), "request")
  BY <1>2, <1>3, TwoChecks, AskSends
<1>5. Sent(Ask(<<b, c>>, Ask(<<d, e>>, r)),
          "GET_AUTHED_LIST", pairs, Buffer(a.list.form), "request")
  BY <1>2, <1>4, TwoChecks, AskAgainSends
<1> QED
  BY <1>1, <1>5 DEF pairs

LEMMA CmIsAuthorizedAppSends ==
    ASSUME NEW a
    PROVE  Sent(CmIsAuthorizedApp(a), "CHECK_IS_AUTHED_APP",
                {<<B(0), a.authUri>>},
                NoOut, "request")
<1> DEFINE pairs == {<<B(0), a.authUri>>}
           r == Request("CHECK_IS_AUTHED_APP", pairs, NoOut)
           b == Null(a.authUri, "INVALID_ARGUMENT")
           c == Invalid(a.authUri)
<1>1. CmIsAuthorizedApp(a) = Ask(<<b>>, Ask(<<c>>, r))
  BY DEF CmIsAuthorizedApp, CmClientIsAuthorizedApp
<1>2. IsCheck(b) /\ IsCheck(c)
  BY ChecksOfSdk
<1> HIDE DEF b, c, pairs
<1>3. HasFields(r, "CHECK_IS_AUTHED_APP", pairs, NoOut, "request")
  BY RequestHas
<1> HIDE DEF r
<1>4. Sent(Ask(<<c>>, r),
          "CHECK_IS_AUTHED_APP", pairs, NoOut, "request")
  BY <1>2, <1>3, OneCheck, AskSends
<1>5. Sent(Ask(<<b>>, Ask(<<c>>, r)),
          "CHECK_IS_AUTHED_APP", pairs, NoOut, "request")
  BY <1>2, <1>4, OneCheck, AskAgainSends
<1> QED
  BY <1>1, <1>5 DEF pairs

LEMMA CmRemoveGrantedAppSends ==
    ASSUME NEW a
    PROVE  Sent(CmRemoveGrantedApp(a), "REMOVE_GRANT_APP",
                {<<B(0), a.keyUri>>, <<U(1), a.appUid>>},
                NoOut, "request")
<1> DEFINE pairs == {<<B(0), a.keyUri>>, <<U(1), a.appUid>>}
           r == Request("REMOVE_GRANT_APP", pairs, NoOut)
           b == Null(a.keyUri, "INVALID_ARGUMENT")
           c == Invalid(a.keyUri)
<1>1. CmRemoveGrantedApp(a) = Ask(<<b>>, Ask(<<c>>, r))
  BY DEF CmRemoveGrantedApp, CmClientRemoveGrantedApp
<1>2. IsCheck(b) /\ IsCheck(c)
  BY ChecksOfSdk
<1> HIDE DEF b, c, pairs
<1>3. HasFields(r, "REMOVE_GRANT_APP", pairs, NoOut, "request")
  BY RequestHas
<1> HIDE DEF r
<1>4. Sent(Ask(<<c>>, r),
          "REMOVE_GRANT_APP", pairs, NoOut, "request")
  BY <1>2, <1>3, OneCheck, AskSends
<1>5. Sent(Ask(<<b>>, Ask(<<c>>, r)),
          "REMOVE_GRANT_APP", pairs, NoOut, "request")
  BY <1>2, <1>4, OneCheck, AskAgainSends
<1> QED
  BY <1>1, <1>5 DEF pairs

LEMMA CmInitSends ==
    ASSUME NEW a
    PROVE  Sent(CmInit(a), "INIT",
                {<<B(0), a.authUri>>, <<B(1), a.spec>>},
                CallerBlob(a.handle), "request")
<1> DEFINE pairs == {<<B(0), a.authUri>>, <<B(1), a.spec>>}
           r == Request("INIT", pairs, CallerBlob(a.handle))
           b == Null(a.authUri, "INVALID_ARGUMENT")
           c == Null(a.spec, "INVALID_ARGUMENT")
           d == Null(a.handle, "INVALID_ARGUMENT")
           e == Invalid(a.authUri)
           f == Invalid(a.handle)
<1>1. CmInit(a) = Ask(<<b, c, d>>, Ask(<<e, f>>, r))
  BY DEF CmInit, CmClientInit
<1>2. IsCheck(b) /\ IsCheck(c) /\ IsCheck(d) /\ IsCheck(e) /\ IsCheck(f)
  BY ChecksOfSdk
<1> HIDE DEF b, c, d, e, f, pairs
<1>3. HasFields(r, "INIT", pairs, CallerBlob(a.handle), "request")
  BY RequestHas
<1> HIDE DEF r
<1>4. Sent(Ask(<<e, f>>, r),
          "INIT", pairs, CallerBlob(a.handle), "request")
  BY <1>2, <1>3, TwoChecks, AskSends
<1>5. Sent(Ask(<<b, c, d>>, Ask(<<e, f>>, r)),
          "INIT", pairs, CallerBlob(a.handle), "request")
  BY <1>2, <1>4, ThreeChecks, AskAgainSends
<1> QED
  BY <1>1, <1>5 DEF pairs

LEMMA CmUpdateSends ==
    ASSUME NEW a
    PROVE  Sent(CmUpdate(a), "UPDATE",
                {<<B(0), a.handle>>, <<B(1), a.inData>>},
                NoOut, "request")
<1> DEFINE pairs == {<<B(0), a.handle>>, <<B(1), a.inData>>}
           r == Request("UPDATE", pairs, NoOut)
           b == Null(a.handle, "INVALID_ARGUMENT")
           c == Null(a.inData, "INVALID_ARGUMENT")
           d == Invalid(a.handle)
           e == Invalid(a.inData)
<1>1. CmUpdate(a) = Ask(<<b, c>>, Ask(<<d, e>>, r))
  BY DEF CmUpdate, CmClientUpdate
<1>2. IsCheck(b) /\ IsCheck(c) /\ IsCheck(d) /\ IsCheck(e)
  BY ChecksOfSdk
<1> HIDE DEF b, c, d, e, pairs
<1>3. HasFields(r, "UPDATE", pairs, NoOut, "request")
  BY RequestHas
<1> HIDE DEF r
<1>4. Sent(Ask(<<d, e>>, r),
          "UPDATE", pairs, NoOut, "request")
  BY <1>2, <1>3, TwoChecks, AskSends
<1>5. Sent(Ask(<<b, c>>, Ask(<<d, e>>, r)),
          "UPDATE", pairs, NoOut, "request")
  BY <1>2, <1>4, TwoChecks, AskAgainSends
<1> QED
  BY <1>1, <1>5 DEF pairs

LEMMA CmFinishSends ==
    ASSUME NEW a
    PROVE  Sent(CmFinish(a), "FINISH",
                {<<B(0), a.handle>>, <<B(1), a.inData>>},
                CallerBlob(a.outData), "request")
<1> DEFINE pairs == {<<B(0), a.handle>>, <<B(1), a.inData>>}
           r == Request("FINISH", pairs, CallerBlob(a.outData))
           b == Null(a.handle, "INVALID_ARGUMENT")
           c == Null(a.inData, "INVALID_ARGUMENT")
           d == Null(a.outData, "INVALID_ARGUMENT")
           e == Invalid(a.handle)
<1>1. CmFinish(a) = Ask(<<b, c, d>>, Ask(<<e>>, r))
  BY DEF CmFinish, CmClientFinish
<1>2. IsCheck(b) /\ IsCheck(c) /\ IsCheck(d) /\ IsCheck(e)
  BY ChecksOfSdk
<1> HIDE DEF b, c, d, e, pairs
<1>3. HasFields(r, "FINISH", pairs, CallerBlob(a.outData), "request")
  BY RequestHas
<1> HIDE DEF r
<1>4. Sent(Ask(<<e>>, r),
          "FINISH", pairs, CallerBlob(a.outData), "request")
  BY <1>2, <1>3, OneCheck, AskSends
<1>5. Sent(Ask(<<b, c, d>>, Ask(<<e>>, r)),
          "FINISH", pairs, CallerBlob(a.outData), "request")
  BY <1>2, <1>4, ThreeChecks, AskAgainSends
<1> QED
  BY <1>1, <1>5 DEF pairs

LEMMA CmAbortSends ==
    ASSUME NEW a
    PROVE  Sent(CmAbort(a), "ABORT",
                {<<B(0), a.handle>>},
                NoOut, "request")
<1> DEFINE pairs == {<<B(0), a.handle>>}
           r == Request("ABORT", pairs, NoOut)
           b == Null(a.handle, "INVALID_ARGUMENT")
           c == Invalid(a.handle)
<1>1. CmAbort(a) = Ask(<<b>>, Ask(<<c>>, r))
  BY DEF CmAbort, CmClientAbort
<1>2. IsCheck(b) /\ IsCheck(c)
  BY ChecksOfSdk
<1> HIDE DEF b, c, pairs
<1>3. HasFields(r, "ABORT", pairs, NoOut, "request")
  BY RequestHas
<1> HIDE DEF r
<1>4. Sent(Ask(<<c>>, r),
          "ABORT", pairs, NoOut, "request")
  BY <1>2, <1>3, OneCheck, AskSends
<1>5. Sent(Ask(<<b>>, Ask(<<c>>, r)),
          "ABORT", pairs, NoOut, "request")
  BY <1>2, <1>4, OneCheck, AskAgainSends
<1> QED
  BY <1>1, <1>5 DEF pairs

LEMMA CmGetUserCertListSends ==
    ASSUME NEW a
    PROVE  Sent(CmGetUserCertList(a), "GET_USER_CERTIFICATE_LIST",
                {<<U(0), a.store>>, <<U(1), INVALID>>, <<U(2), "ALL_USER">>},
                Buffer("ok"), "request")
<1> DEFINE pairs == {<<U(0), a.store>>, <<U(1), INVALID>>, <<U(2), "ALL_USER">>}
           err == "BUFFER_TOO_SMALL"
           r == Unpacked(Request("GET_USER_CERTIFICATE_LIST", pairs, Buffer("ok")), a.list, err)
           b == Null(a.list, "NULL_POINTER")
<1>1. CmGetUserCertList(a) = Ask(<<b>>, r)
  BY DEF CmGetUserCertList, GetUserCertList, CmCertificateListUnpackFromService
<1>2. IsCheck(b)
  BY ChecksOfSdk
<1>3. Fine(err)
  BY DEF Fine
<1> HIDE DEF b, pairs, err
<1>4. HasFields(r, "GET_USER_CERTIFICATE_LIST", pairs, Buffer("ok"), "request")
  BY <1>3, UnpackedHas
<1> HIDE DEF r
<1>5. Sent(Ask(<<b>>, r),
          "GET_USER_CERTIFICATE_LIST", pairs, Buffer("ok"), "request")
  BY <1>2, <1>4, OneCheck, AskSends
<1> QED
  BY <1>1, <1>5 DEF pairs

LEMMA CmGetUserCACertListSends ==
    ASSUME NEW a
    PROVE  Sent(CmGetUserCACertList(a), "GET_USER_CERTIFICATE_LIST",
                {<<U(0), "USER_TRUSTED">>, <<U(1), a.userId>>, <<U(2), a.scope>>},
                Buffer("ok"), "request")
<1> DEFINE pairs == {<<U(0), "USER_TRUSTED">>, <<U(1), a.userId>>, <<U(2), a.scope>>}
           err == "BUFFER_TOO_SMALL"
           r == Unpacked(Request("GET_USER_CERTIFICATE_LIST", pairs, Buffer("ok")), a.list, err)
           b == Null(a.list, "NULL_POINTER")
<1>1. CmGetUserCACertList(a) = Ask(<<b>>, r)
  BY DEF CmGetUserCACertList, GetUserCertList, CmCertificateListUnpackFromService
<1>2. IsCheck(b)
  BY ChecksOfSdk
<1>3. Fine(err)
  BY DEF Fine
<1> HIDE DEF b, pairs, err
<1>4. HasFields(r, "GET_USER_CERTIFICATE_LIST", pairs, Buffer("ok"), "request")
  BY <1>3, UnpackedHas
<1> HIDE DEF r
<1>5. Sent(Ask(<<b>>, r),
          "GET_USER_CERTIFICATE_LIST", pairs, Buffer("ok"), "request")
  BY <1>2, <1>4, OneCheck, AskSends
<1> QED
  BY <1>1, <1>5 DEF pairs

LEMMA CmGetUserCertInfoSends ==
    ASSUME NEW a
    PROVE  Sent(CmGetUserCertInfo(a), "GET_USER_CERTIFICATE_INFO",
                {<<B(0), a.certUri>>, <<U(0), a.store>>},
                Buffer("ok"), "request")
<1> DEFINE pairs == {<<B(0), a.certUri>>, <<U(0), a.store>>}
           err == "BUFFER_TOO_SMALL"
           r == Unpacked(Request("GET_USER_CERTIFICATE_INFO", pairs, Buffer("ok")), a.info, err)
           b == Null(a.certUri, "NULL_POINTER")
           c == Null(a.info, "NULL_POINTER")
<1>1. CmGetUserCertInfo(a) = Ask(<<b, c>>, r)
  BY DEF CmGetUserCertInfo, GetUserCertInfo, CmCertificateInfoUnpackFromService
<1>2. IsCheck(b) /\ IsCheck(c)
  BY ChecksOfSdk
<1>3. Fine(err)
  BY DEF Fine
<1> HIDE DEF b, c, pairs, err
<1>4. HasFields(r, "GET_USER_CERTIFICATE_INFO", pairs, Buffer("ok"), "request")
  BY <1>3, UnpackedHas
<1> HIDE DEF r
<1>5. Sent(Ask(<<b, c>>, r),
          "GET_USER_CERTIFICATE_INFO", pairs, Buffer("ok"), "request")
  BY <1>2, <1>4, TwoChecks, AskSends
<1> QED
  BY <1>1, <1>5 DEF pairs

LEMMA CmSetUserCertStatusSends ==
    ASSUME NEW a
    PROVE  Sent(CmSetUserCertStatus(a), "SET_USER_CERTIFICATE_STATUS",
                {<<B(0), a.certUri>>, <<U(0), a.store>>, <<U(1), BoolToStatus(a.on)>>},
                NoOut, "request")
<1> DEFINE pairs == {<<B(0), a.certUri>>, <<U(0), a.store>>, <<U(1), BoolToStatus(a.on)>>}
           r == Request("SET_USER_CERTIFICATE_STATUS", pairs, NoOut)
           b == Null(a.certUri, "NULL_POINTER")
<1>1. CmSetUserCertStatus(a) = Ask(<<b>>, r)
  BY DEF CmSetUserCertStatus, SetUserCertStatus
<1>2. IsCheck(b)
  BY ChecksOfSdk
<1> HIDE DEF b, pairs
<1>3. HasFields(r, "SET_USER_CERTIFICATE_STATUS", pairs, NoOut, "request")
  BY RequestHas
<1> HIDE DEF r
<1>4. Sent(Ask(<<b>>, r),
          "SET_USER_CERTIFICATE_STATUS", pairs, NoOut, "request")
  BY <1>2, <1>3, OneCheck, AskSends
<1> QED
  BY <1>1, <1>4 DEF pairs

LEMMA CmInstallUserTrustedCertSends ==
    ASSUME NEW a
    PROVE  Sent(CmInstallUserTrustedCert(a), "INSTALL_USER_CERTIFICATE",
                {<<B(0), a.userCert>>, <<B(1), a.alias>>, <<U(0), INVALID>>, <<U(1),
                 BoolToStatus(TRUE)>>, <<U(2), "PEM_DER">>},
                CallerBlob(a.certUri), "request")
<1> DEFINE pairs == {<<B(0), a.userCert>>, <<B(1), a.alias>>, <<U(0), INVALID>>, <<U(1),
                     BoolToStatus(TRUE)>>, <<U(2), "PEM_DER">>}
           r == Request("INSTALL_USER_CERTIFICATE", pairs, CallerBlob(a.certUri))
           b == Null(a.userCert, "INVALID_ARGUMENT")
           c == Null(a.alias, "INVALID_ARGUMENT")
           d == Null(a.certUri, "INVALID_ARGUMENT")
           e == Invalid(a.userCert)
           f == Invalid(a.alias)
           g == Invalid(a.certUri)
           h == <<a.mode = "unreadable", "GET_ADVSECMODE_PARAM_FAIL">>
           i == <<a.mode = "advanced", "DEVICE_ENTER_ADVSECMODE">>
<1>1. CmInstallUserTrustedCert(a) = Ask(<<b, c, d>>, Ask(<<e, f, g, h, i>>, Ask(<<e, f, g>>, r)))
  BY DEF CmInstallUserTrustedCert, CmInstallUserCACert, CmInstallUserTrustedCertByFormat,
     CmClientInstallUserTrustedCert
<1>2. IsCheck(b) /\ IsCheck(c) /\ IsCheck(d) /\ IsCheck(e) /\ IsCheck(f) /\ IsCheck(g) /\
      IsCheck(h) /\ IsCheck(i)
  BY ChecksOfSdk DEF IsCheck
<1> HIDE DEF b, c, d, e, f, g, h, i, pairs
<1>3. HasFields(r, "INSTALL_USER_CERTIFICATE", pairs, CallerBlob(a.certUri), "request")
  BY RequestHas
<1> HIDE DEF r
<1>4. Sent(Ask(<<e, f, g>>, r),
          "INSTALL_USER_CERTIFICATE", pairs, CallerBlob(a.certUri), "request")
  BY <1>2, <1>3, ThreeChecks, AskSends
<1>5. Sent(Ask(<<e, f, g, h, i>>, Ask(<<e, f, g>>, r)),
          "INSTALL_USER_CERTIFICATE", pairs, CallerBlob(a.certUri), "request")
  BY <1>2, <1>4, FiveChecks, AskAgainSends
<1>6. Sent(Ask(<<b, c, d>>, Ask(<<e, f, g, h, i>>, Ask(<<e, f, g>>, r))),
          "INSTALL_USER_CERTIFICATE", pairs, CallerBlob(a.certUri), "request")
  BY <1>2, <1>5, ThreeChecks, AskAgainSends
<1> QED
  BY <1>1, <1>6 DEF pairs

LEMMA CmInstallUserCACertSends ==
    ASSUME NEW a
    PROVE  Sent(CmInstallUserCACert(a), "INSTALL_USER_CERTIFICATE",
                {<<B(0), a.userCert>>, <<B(1), a.alias>>, <<U(0), a.userId>>, <<U(1),
                 BoolToStatus(a.on)>>, <<U(2), "PEM_DER">>},
                CallerBlob(a.certUri), "request")
<1> DEFINE pairs == {<<B(0), a.userCert>>, <<B(1), a.alias>>, <<U(0), a.userId>>, <<U(1),
                     BoolToStatus(a.on)>>, <<U(2), "PEM_DER">>}
           r == Request("INSTALL_USER_CERTIFICATE", pairs, CallerBlob(a.certUri))
           b == Invalid(a.userCert)
           c == Invalid(a.alias)
           d == Invalid(a.certUri)
           e == <<a.mode = "unreadable", "GET_ADVSECMODE_PARAM_FAIL">>
           f == <<a.mode = "advanced", "DEVICE_ENTER_ADVSECMODE">>
<1>1. CmInstallUserCACert(a) = Ask(<<b, c, d, e, f>>, Ask(<<b, c, d>>, r))
  BY DEF CmInstallUserCACert, CmInstallUserTrustedCertByFormat, CmClientInstallUserTrustedCert
<1>2. IsCheck(b) /\ IsCheck(c) /\ IsCheck(d) /\ IsCheck(e) /\ IsCheck(f)
  BY ChecksOfSdk DEF IsCheck
<1> HIDE DEF b, c, d, e, f, pairs
<1>3. HasFields(r, "INSTALL_USER_CERTIFICATE", pairs, CallerBlob(a.certUri), "request")
  BY RequestHas
<1> HIDE DEF r
<1>4. Sent(Ask(<<b, c, d>>, r),
          "INSTALL_USER_CERTIFICATE", pairs, CallerBlob(a.certUri), "request")
  BY <1>2, <1>3, ThreeChecks, AskSends
<1>5. Sent(Ask(<<b, c, d, e, f>>, Ask(<<b, c, d>>, r)),
          "INSTALL_USER_CERTIFICATE", pairs, CallerBlob(a.certUri), "request")
  BY <1>2, <1>4, FiveChecks, AskAgainSends
<1> QED
  BY <1>1, <1>5 DEF pairs

LEMMA CmInstallUserTrustedP7BCertSends ==
    ASSUME NEW a
    PROVE  Sent(CmInstallUserTrustedP7BCert(a), "INSTALL_USER_CERTIFICATE",
                {<<B(0), a.userCert>>, <<B(1), a.alias>>, <<U(0), a.userId>>, <<U(1),
                 BoolToStatus(a.on)>>, <<U(2), "P7B">>},
                CallerBlob(Blob("ok")), "request")
<1> DEFINE pairs == {<<B(0), a.userCert>>, <<B(1), a.alias>>, <<U(0), a.userId>>, <<U(1),
                     BoolToStatus(a.on)>>, <<U(2), "P7B">>}
           r == Request("INSTALL_USER_CERTIFICATE", pairs, CallerBlob(Blob("ok")))
           b == Invalid(a.userCert)
           c == Invalid(a.alias)
           d == Null(a.certUri, "INVALID_ARGUMENT")
           e == Invalid(Blob("ok"))
           f == <<a.mode = "unreadable", "GET_ADVSECMODE_PARAM_FAIL">>
           g == <<a.mode = "advanced", "DEVICE_ENTER_ADVSECMODE">>
<1>1. CmInstallUserTrustedP7BCert(a) = Ask(<<b, c, d>>, Ask(<<b, c, e, f, g>>, Ask(<<b, c, e>>, r)))
  BY DEF CmInstallUserTrustedP7BCert, CmInstallUserTrustedCertByFormat,
     CmClientInstallUserTrustedCert
<1>2. IsCheck(b) /\ IsCheck(c) /\ IsCheck(d) /\ IsCheck(e) /\ IsCheck(f) /\ IsCheck(g)
  BY ChecksOfSdk DEF IsCheck
<1> HIDE DEF b, c, d, e, f, g, pairs
<1>3. HasFields(r, "INSTALL_USER_CERTIFICATE", pairs, CallerBlob(Blob("ok")), "request")
  BY RequestHas
<1> HIDE DEF r
<1>4. Sent(Ask(<<b, c, e>>, r),
          "INSTALL_USER_CERTIFICATE", pairs, CallerBlob(Blob("ok")), "request")
  BY <1>2, <1>3, ThreeChecks, AskSends
<1>5. Sent(Ask(<<b, c, e, f, g>>, Ask(<<b, c, e>>, r)),
          "INSTALL_USER_CERTIFICATE", pairs, CallerBlob(Blob("ok")), "request")
  BY <1>2, <1>4, FiveChecks, AskAgainSends
<1>6. Sent(Ask(<<b, c, d>>, Ask(<<b, c, e, f, g>>, Ask(<<b, c, e>>, r))),
          "INSTALL_USER_CERTIFICATE", pairs, CallerBlob(Blob("ok")), "request")
  BY <1>2, <1>5, ThreeChecks, AskAgainSends
<1> QED
  BY <1>1, <1>6 DEF pairs

LEMMA CmUninstallUserTrustedCertSends ==
    ASSUME NEW a
    PROVE  Sent(CmUninstallUserTrustedCert(a), "UNINSTALL_USER_CERTIFICATE",
                {<<B(0), a.certUri>>},
                NoOut, "request")
<1> DEFINE pairs == {<<B(0), a.certUri>>}
           r == Request("UNINSTALL_USER_CERTIFICATE", pairs, NoOut)
           b == Null(a.certUri, "INVALID_ARGUMENT")
<1>1. CmUninstallUserTrustedCert(a) = Ask(<<b>>, r)
  BY DEF CmUninstallUserTrustedCert, UninstallUserCert
<1>2. IsCheck(b)
  BY ChecksOfSdk
<1> HIDE DEF b, pairs
<1>3. HasFields(r, "UNINSTALL_USER_CERTIFICATE", pairs, NoOut, "request")
  BY RequestHas
<1> HIDE DEF r
<1>4. Sent(Ask(<<b>>, r),
          "UNINSTALL_USER_CERTIFICATE", pairs, NoOut, "request")
  BY <1>2, <1>3, OneCheck, AskSends
<1> QED
  BY <1>1, <1>4 DEF pairs

LEMMA CmUninstallAllUserTrustedCertSends ==
    ASSUME NEW a
    PROVE  Sent(CmUninstallAllUserTrustedCert(a), "UNINSTALL_ALL_USER_CERTIFICATE",
                {},
                NoOut, "request")
<1> DEFINE pairs == {}
           r == Request("UNINSTALL_ALL_USER_CERTIFICATE", pairs, NoOut)
<1>1. CmUninstallAllUserTrustedCert(a) = r
  BY DEF CmUninstallAllUserTrustedCert, CmClientUninstallAllUserTrustedCert, NoParams
<1> HIDE DEF pairs
<1>2. HasFields(r, "UNINSTALL_ALL_USER_CERTIFICATE", pairs, NoOut, "request")
  BY RequestHas
<1> HIDE DEF r
<1> QED
  BY <1>1, <1>2, HasIsSent DEF pairs

LEMMA CmGetUkeyCertListSends ==
    ASSUME NEW a
    PROVE  Sent(CmGetUkeyCertList(a), "GET_UKEY_CERTIFICATE_LIST",
                {<<B(0), a.provider>>, <<U(0), a.purpose>>},
                Received, "parcel")
<1> DEFINE pairs == {<<B(0), a.provider>>, <<U(0), a.purpose>>}
           r == [Request("GET_UKEY_CERTIFICATE_LIST", pairs, Received) EXCEPT !.via = "parcel"]
           b == Null(a.provider, "NULL_POINTER")
           c == Null(a.list, "NULL_POINTER")
           d == NoUkeySupport(a)
<1>1. CmGetUkeyCertList(a) = Ask(<<b, c, d>>, r)
  BY DEF CmGetUkeyCertList, GetUkeyCertList
<1>2. IsCheck(b) /\ IsCheck(c) /\ IsCheck(d)
  BY ChecksOfSdk DEF IsCheck, NoUkeySupport
<1> HIDE DEF b, c, d, pairs
<1>3. HasFields(r, "GET_UKEY_CERTIFICATE_LIST", pairs, Received, "parcel")
  BY ParcelHas
<1> HIDE DEF r
<1>4. Sent(Ask(<<b, c, d>>, r),
          "GET_UKEY_CERTIFICATE_LIST", pairs, Received, "parcel")
  BY <1>2, <1>3, ThreeChecks, AskSends
<1> QED
  BY <1>1, <1>4 DEF pairs

LEMMA CmGetUkeyCertSends ==
    ASSUME NEW a
    PROVE  Sent(CmGetUkeyCert(a), "GET_UKEY_CERTIFICATE",
                {<<B(0), a.keyUri>>, <<U(0), a.purpose>>},
                Received, "parcel")
<1> DEFINE pairs == {<<B(0), a.keyUri>>, <<U(0), a.purpose>>}
           r == [Request("GET_UKEY_CERTIFICATE", pairs, Received) EXCEPT !.via = "parcel"]
           b == Null(a.keyUri, "NULL_POINTER")
           c == Null(a.list, "NULL_POINTER")
           d == NoUkeySupport(a)
<1>1. CmGetUkeyCert(a) = Ask(<<b, c, d>>, r)
  BY DEF CmGetUkeyCert, GetUkeyCertList
<1>2. IsCheck(b) /\ IsCheck(c) /\ IsCheck(d)
  BY ChecksOfSdk DEF IsCheck, NoUkeySupport
<1> HIDE DEF b, c, d, pairs
<1>3. HasFields(r, "GET_UKEY_CERTIFICATE", pairs, Received, "parcel")
  BY ParcelHas
<1> HIDE DEF r
<1>4. Sent(Ask(<<b, c, d>>, r),
          "GET_UKEY_CERTIFICATE", pairs, Received, "parcel")
  BY <1>2, <1>3, ThreeChecks, AskSends
<1> QED
  BY <1>1, <1>4 DEF pairs

LEMMA CmImportUkeyCertSends ==
    ASSUME NEW a
    PROVE  Sent(CmImportUkeyCert(a), "IMPORT_UKEY_CERTIFICATE",
                {<<B(0), a.keyUri>>, <<B(1), a.cert>>, <<U(0), a.purpose>>},
                Received, "request")
<1> DEFINE pairs == {<<B(0), a.keyUri>>, <<B(1), a.cert>>, <<U(0), a.purpose>>}
           r == Request("IMPORT_UKEY_CERTIFICATE", pairs, Received)
           b == Null(a.keyUri, "NULL_POINTER")
           c == Null(a.cert, "NULL_POINTER")
           d == NoUkeySupport(a)
<1>1. CmImportUkeyCert(a) = Ask(<<b, c, d>>, r)
  BY DEF CmImportUkeyCert, CmClientImportUkeyCert
<1>2. IsCheck(b) /\ IsCheck(c) /\ IsCheck(d)
  BY ChecksOfSdk DEF IsCheck, NoUkeySupport
<1> HIDE DEF b, c, d, pairs
<1>3. HasFields(r, "IMPORT_UKEY_CERTIFICATE", pairs, Received, "request")
  BY RequestHas
<1> HIDE DEF r
<1>4. Sent(Ask(<<b, c, d>>, r),
          "IMPORT_UKEY_CERTIFICATE", pairs, Received, "request")
  BY <1>2, <1>3, ThreeChecks, AskSends
<1> QED
  BY <1>1, <1>4 DEF pairs

LEMMA CmCheckAppPermissionSends ==
    ASSUME NEW a
    PROVE  Sent(CmCheckAppPermission(a), "CHECK_APP_PERMISSION",
                {<<B(0), a.keyUri>>, <<U(0), a.appUid>>},
                Buffer("ok"), "request")
<1> DEFINE pairs == {<<B(0), a.keyUri>>, <<U(0), a.appUid>>}
           err == IF a.huksAlias.form = "null" THEN "NULL_POINTER" ELSE "INVALID_ARGUMENT"
           r == Unpacked(Request("CHECK_APP_PERMISSION", pairs, Buffer("ok")), a.huksAlias, err)
           b == Null(a.keyUri, "NULL_POINTER")
<1>1. CmCheckAppPermission(a) = Ask(<<b>>, r)
  BY DEF CmCheckAppPermission, CmClientCheckAppPermission, CmAppPermissionUnpackFromService
<1>2. IsCheck(b)
  BY ChecksOfSdk
<1>3. Fine(err)
  BY DEF Fine
<1> HIDE DEF b, pairs, err
<1>4. HasFields(r, "CHECK_APP_PERMISSION", pairs, Buffer("ok"), "request")
  BY <1>3, UnpackedHas
<1> HIDE DEF r
<1>5. Sent(Ask(<<b>>, r),
          "CHECK_APP_PERMISSION", pairs, Buffer("ok"), "request")
  BY <1>2, <1>4, OneCheck, AskSends
<1> QED
  BY <1>1, <1>5 DEF pairs


-----------------------------------------------------------------------------
(* A request is good for the function op with the arguments a if it is     *)
(* sent with the words its code asks for, room for the answer where one is *)
(* given, and what is read under its tags is what op is to hand on.        *)

IsGood(q, op, a) ==
    /\ Fine(q.err)
    /\ q.err = "SUCCESS" =>
         /\ Fine(q.unpack) /\ q.code \in DOMAIN WorkAt /\ (q.via = "request") = HasOutSize(q.code)
         /\ ReplyAt(q.code) \in {"outData", "own"} => q.out.kind # "none"
         /\ \E e : /\ q.params = Params(Pairs(TagsAt(q.code), e))
                   /\ \A f \in DOMAIN TagsAt(q.code) : Arriving(TagsAt(q.code)[f], e[f]) = Expected(op, a, f)

LEMMA SentIsGood ==
    ASSUME NEW q, NEW op, NEW a, NEW code, NEW tags, NEW e, NEW out, NEW via,
           tags = TagsAt(code), Sent(q, code, Pairs(tags, e), out, via),
           \A f \in DOMAIN tags : Arriving(tags[f], e[f]) = Expected(op, a, f),
           code \in DOMAIN WorkAt, (via = "request") = HasOutSize(code),
           ReplyAt(code) \in {"outData", "own"} => out.kind # "none"
    PROVE  IsGood(q, op, a)
  BY DEF IsGood, Sent, HasFields

LEMMA CmGetCertListIsGood == ASSUME NEW a PROVE IsGood(CmGetCertList(a), "CmGetCertList", a)
<1> DEFINE tags == [store |-> U(0)]
           e == [store |-> a.store]
           out == Buffer("ok")
<1>1. tags = TagsAt("GET_CERTIFICATE_LIST")
  BY DEF TagsAt
<1>2. {<<U(0), a.store>>} = Pairs(tags, e)
  BY DEF Pairs
<1>3. \A f \in DOMAIN tags : Arriving(tags[f], e[f]) = Expected("CmGetCertList", a, f)
  BY DEF Arriving, Expected, Implied, NUMBERS, B, U, BoolToStatus, Blob, CmCheckBlob
<1>4. /\ "GET_CERTIFICATE_LIST" \in DOMAIN WorkAt /\ ("request" = "request") = HasOutSize("GET_CERTIFICATE_LIST")
      /\ ReplyAt("GET_CERTIFICATE_LIST") \in {"outData", "own"} => out.kind # "none"
  BY DEF WorkAt, HasOutSize, ReplyAt, Buffer
<1>5. Sent(CmGetCertList(a), "GET_CERTIFICATE_LIST", Pairs(tags, e), out, "request")
  BY <1>2, CmGetCertListSends
<1> HIDE DEF tags, e, out
<1> QED
  BY <1>1, <1>3, <1>4, <1>5, SentIsGood

LEMMA CmGetCertInfoIsGood == ASSUME NEW a PROVE IsGood(CmGetCertInfo(a), "CmGetCertInfo", a)
<1> DEFINE tags == [certUri |-> B(0), store |-> U(0)]
           e == [certUri |-> a.certUri, store |-> a.store]
           out == Buffer("ok")
<1>1. tags = TagsAt("GET_CERTIFICATE_INFO")
  BY DEF TagsAt
<1>2. {<<B(0), a.certUri>>, <<U(0), a.store>>} = Pairs(tags, e)
  BY DEF Pairs
<1>3. \A f \in DOMAIN tags : Arriving(tags[f], e[f]) = Expected("CmGetCertInfo", a, f)
  BY DEF Arriving, Expected, Implied, NUMBERS, B, U, BoolToStatus, Blob, CmCheckBlob
<1>4. /\ "GET_CERTIFICATE_INFO" \in DOMAIN WorkAt /\ ("request" = "request") = HasOutSize("GET_CERTIFICATE_INFO")
      /\ ReplyAt("GET_CERTIFICATE_INFO") \in {"outData", "own"} => out.kind # "none"
  BY DEF WorkAt, HasOutSize, ReplyAt, Buffer
<1>5. Sent(CmGetCertInfo(a), "GET_CERTIFICATE_INFO", Pairs(tags, e), out, "request")
  BY <1>2, CmGetCertInfoSends
<1> HIDE DEF tags, e, out
<1> QED
  BY <1>1, <1>3, <1>4, <1>5, SentIsGood

LEMMA CmSetCertStatusIsGood == ASSUME NEW a PROVE IsGood(CmSetCertStatus(a), "CmSetCertStatus", a)
<1> DEFINE tags == [certUri |-> B(0), store |-> U(0), status |-> U(1)]
           e == [certUri |-> a.certUri, store |-> a.store, status |-> BoolToStatus(a.on)]
           out == NoOut
<1>1. tags = TagsAt("SET_CERTIFICATE_STATUS")
  BY DEF TagsAt
<1>2. {<<B(0), a.certUri>>, <<U(0), a.store>>, <<U(1), BoolToStatus(a.on)>>} = Pairs(tags, e)
  BY DEF Pairs
<1>3. \A f \in DOMAIN tags : Arriving(tags[f], e[f]) = Expected("CmSetCertStatus", a, f)
  BY DEF Arriving, Expected, Implied, NUMBERS, B, U, BoolToStatus, Blob, CmCheckBlob
<1>4. /\ "SET_CERTIFICATE_STATUS" \in DOMAIN WorkAt /\ ("request" = "request") = HasOutSize("SET_CERTIFICATE_STATUS")
      /\ ReplyAt("SET_CERTIFICATE_STATUS") \in {"outData", "own"} => out.kind # "none"
  BY DEF WorkAt, HasOutSize, ReplyAt, NoOut
<1>5. Sent(CmSetCertStatus(a), "SET_CERTIFICATE_STATUS", Pairs(tags, e), out, "request")
  BY <1>2, CmSetCertStatusSends
<1> HIDE DEF tags, e, out
<1> QED
  BY <1>1, <1>3, <1>4, <1>5, SentIsGood

LEMMA CmInstallAppCertExIsGood == ASSUME NEW a PROVE IsGood(CmInstallAppCertEx(a), "CmInstallAppCertEx", a)
<1> DEFINE tags == [appCert |-> B(0), pwd |-> B(1), alias |-> B(2), privKey |-> B(3), store |-> U(0),
                   userId |-> U(1), level |-> U(2), credFormat |-> U(3), aliasFormat |-> U(4)]
           e == [appCert |-> a.appCert, pwd |-> a.pwd, alias |-> a.alias, privKey |-> a.privKey, store
                |-> a.store, userId |-> a.userId, level |-> a.level, credFormat |-> a.credFormat,
                aliasFormat |-> a.aliasFormat]
           out == CallerBlob(a.keyUri)
<1>1. tags = TagsAt("INSTALL_APP_CERTIFICATE")
  BY DEF TagsAt
<1>2. {<<B(0), a.appCert>>, <<B(1), a.pwd>>, <<B(2), a.alias>>, <<B(3), a.privKey>>, <<U(0),
      a.store>>, <<U(1), a.userId>>, <<U(2), a.level>>, <<U(3), a.credFormat>>, <<U(4),
      a.aliasFormat>>} = Pairs(tags, e)
  BY DEF Pairs
<1>3. \A f \in DOMAIN tags : Arriving(tags[f], e[f]) = Expected("CmInstallAppCertEx", a, f)
  BY DEF Arriving, Expected, Implied, NUMBERS, B, U, BoolToStatus, Blob, CmCheckBlob
<1>4. /\ "INSTALL_APP_CERTIFICATE" \in DOMAIN WorkAt /\ ("request" = "request") = HasOutSize("INSTALL_APP_CERTIFICATE")
      /\ ReplyAt("INSTALL_APP_CERTIFICATE") \in {"outData", "own"} => out.kind # "none"
  BY DEF WorkAt, HasOutSize, ReplyAt, CallerBlob
<1>5. Sent(CmInstallAppCertEx(a), "INSTALL_APP_CERTIFICATE", Pairs(tags, e), out, "request")
  BY <1>2, CmInstallAppCertExSends
<1> HIDE DEF tags, e, out
<1> QED
  BY <1>1, <1>3, <1>4, <1>5, SentIsGood

LEMMA CmInstallAppCertIsGood == ASSUME NEW a PROVE IsGood(CmInstallAppCert(a), "CmInstallAppCert", a)
<1> DEFINE tags == [appCert |-> B(0), pwd |-> B(1), alias |-> B(2), privKey |-> B(3), store |-> U(0),
                   userId |-> U(1), level |-> U(2), credFormat |-> U(3), aliasFormat |-> U(4)]
           e == [appCert |-> a.appCert, pwd |-> a.pwd, alias |-> a.alias, privKey |-> Blob("empty"),
                store |-> a.store, userId |-> INVALID, level |-> IF a.store = "CREDENTIAL" THEN "EL2"
                ELSE "EL1", credFormat |-> "FILE_P12", aliasFormat |-> "DEFAULT"]
           out == CallerBlob(a.keyUri)
<1>1. tags = TagsAt("INSTALL_APP_CERTIFICATE")
  BY DEF TagsAt
<1>2. {<<B(0), a.appCert>>, <<B(1), a.pwd>>, <<B(2), a.alias>>, <<B(3), Blob("empty")>>,
      <<U(0), a.store>>, <<U(1), INVALID>>, <<U(2), IF a.store = "CREDENTIAL" THEN "EL2" ELSE
      "EL1">>, <<U(3), "FILE_P12">>, <<U(4), "DEFAULT">>} = Pairs(tags, e)
  BY DEF Pairs
<1>3. \A f \in DOMAIN tags : Arriving(tags[f], e[f]) = Expected("CmInstallAppCert", a, f)
  BY DEF Arriving, Expected, Implied, NUMBERS, B, U, BoolToStatus, Blob, CmCheckBlob
<1>4. /\ "INSTALL_APP_CERTIFICATE" \in DOMAIN WorkAt /\ ("request" = "request") = HasOutSize("INSTALL_APP_CERTIFICATE")
      /\ ReplyAt("INSTALL_APP_CERTIFICATE") \in {"outData", "own"} => out.kind # "none"
  BY DEF WorkAt, HasOutSize, ReplyAt, CallerBlob
<1>5. Sent(CmInstallAppCert(a), "INSTALL_APP_CERTIFICATE", Pairs(tags, e), out, "request")
  BY <1>2, CmInstallAppCertSends
<1> HIDE DEF tags, e, out
<1> QED
  BY <1>1, <1>3, <1>4, <1>5, SentIsGood

LEMMA CmInstallSystemAppCertIsGood == ASSUME NEW a PROVE IsGood(CmInstallSystemAppCert(a), "CmInstallSystemAppCert", a)
<1> DEFINE tags == [appCert |-> B(0), pwd |-> B(1), alias |-> B(2), privKey |-> B(3), store |-> U(0),
                   userId |-> U(1), level |-> U(2), credFormat |-> U(3), aliasFormat |-> U(4)]
           e == [appCert |-> a.appCert, pwd |-> a.pwd, alias |-> a.alias, privKey |-> Blob("empty"),
                store |-> a.store, userId |-> a.userId, level |-> "EL1", credFormat |-> "FILE_P12",
                aliasFormat |-> "DEFAULT"]
           out == CallerBlob(a.keyUri)
<1>1. tags = TagsAt("INSTALL_APP_CERTIFICATE")
  BY DEF TagsAt
<1>2. {<<B(0), a.appCert>>, <<B(1), a.pwd>>, <<B(2), a.alias>>, <<B(3), Blob("empty")>>,
      <<U(0), a.store>>, <<U(1), a.userId>>, <<U(2), "EL1">>, <<U(3), "FILE_P12">>, <<U(4),
      "DEFAULT">>} = Pairs(tags, e)
  BY DEF Pairs
<1>3. \A f \in DOMAIN tags : Arriving(tags[f], e[f]) = Expected("CmInstallSystemAppCert", a, f)
  BY DEF Arriving, Expected, Implied, NUMBERS, B, U, BoolToStatus, Blob, CmCheckBlob
<1>4. /\ "INSTALL_APP_CERTIFICATE" \in DOMAIN WorkAt /\ ("request" = "request") = HasOutSize("INSTALL_APP_CERTIFICATE")
      /\ ReplyAt("INSTALL_APP_CERTIFICATE") \in {"outData", "own"} => out.kind # "none"
  BY DEF WorkAt, HasOutSize, ReplyAt, CallerBlob
<1>5. Sent(CmInstallSystemAppCert(a), "INSTALL_APP_CERTIFICATE", Pairs(tags, e), out, "request")
  BY <1>2, CmInstallSystemAppCertSends
<1> HIDE DEF tags, e, out
<1> QED
  BY <1>1, <1>3, <1>4, <1>5, SentIsGood

LEMMA CmUninstallAppCertIsGood == ASSUME NEW a PROVE IsGood(CmUninstallAppCert(a), "CmUninstallAppCert", a)
<1> DEFINE tags == [keyUri |-> B(0), store |-> U(0)]
           e == [keyUri |-> a.keyUri, store |-> a.store]
           out == NoOut
<1>1. tags = TagsAt("UNINSTALL_APP_CERTIFICATE")
  BY DEF TagsAt
<1>2. {<<B(0), a.keyUri>>, <<U(0), a.store>>} = Pairs(tags, e)
  BY DEF Pairs
<1>3. \A f \in DOMAIN tags : Arriving(tags[f], e[f]) = Expected("CmUninstallAppCert", a, f)
  BY DEF Arriving, Expected, Implied, NUMBERS, B, U, BoolToStatus, Blob, CmCheckBlob
<1>4. /\ "UNINSTALL_APP_CERTIFICATE" \in DOMAIN WorkAt /\ ("request" = "request") = HasOutSize("UNINSTALL_APP_CERTIFICATE")
      /\ ReplyAt("UNINSTALL_APP_CERTIFICATE") \in {"outData", "own"} => out.kind # "none"
  BY DEF WorkAt, HasOutSize, ReplyAt, NoOut
<1>5. Sent(CmUninstallAppCert(a), "UNINSTALL_APP_CERTIFICATE", Pairs(tags, e), out, "request")
  BY <1>2, CmUninstallAppCertSends
<1> HIDE DEF tags, e, out
<1> QED
  BY <1>1, <1>3, <1>4, <1>5, SentIsGood

LEMMA CmUninstallAllAppCertIsGood == ASSUME NEW a PROVE IsGood(CmUninstallAllAppCert(a), "CmUninstallAllAppCert", a)
<1> DEFINE tags == <<>>
           e == <<>>
           out == NoOut
<1>1. tags = TagsAt("UNINSTALL_ALL_APP_CERTIFICATE")
  BY DEF TagsAt
<1>2. {} = Pairs(tags, e)
  BY DEF Pairs
<1>3. \A f \in DOMAIN tags : Arriving(tags[f], e[f]) = Expected("CmUninstallAllAppCert", a, f)
  BY DEF Arriving, Expected, Implied, NUMBERS, B, U, BoolToStatus, Blob, CmCheckBlob
<1>4. /\ "UNINSTALL_ALL_APP_CERTIFICATE" \in DOMAIN WorkAt /\ ("request" = "request") = HasOutSize("UNINSTALL_ALL_APP_CERTIFICATE")
      /\ ReplyAt("UNINSTALL_ALL_APP_CERTIFICATE") \in {"outData", "own"} => out.kind # "none"
  BY DEF WorkAt, HasOutSize, ReplyAt, NoOut
<1>5. Sent(CmUninstallAllAppCert(a), "UNINSTALL_ALL_APP_CERTIFICATE", Pairs(tags, e), out, "request")
  BY <1>2, CmUninstallAllAppCertSends
<1> HIDE DEF tags, e, out
<1> QED
  BY <1>1, <1>3, <1>4, <1>5, SentIsGood

LEMMA CmGetAppCertListIsGood == ASSUME NEW a PROVE IsGood(CmGetAppCertList(a), "CmGetAppCertList", a)
<1> DEFINE tags == [store |-> U(0)]
           e == [store |-> a.store]
           out == Received
<1>1. tags = TagsAt("GET_APP_CERTIFICATE_LIST")
  BY DEF TagsAt
<1>2. {<<U(0), a.store>>} = Pairs(tags, e)
  BY DEF Pairs
<1>3. \A f \in DOMAIN tags : Arriving(tags[f], e[f]) = Expected("CmGetAppCertList", a, f)
  BY DEF Arriving, Expected, Implied, NUMBERS, B, U, BoolToStatus, Blob, CmCheckBlob
<1>4. /\ "GET_APP_CERTIFICATE_LIST" \in DOMAIN WorkAt /\ ("request" = "request") = HasOutSize("GET_APP_CERTIFICATE_LIST")
      /\ ReplyAt("GET_APP_CERTIFICATE_LIST") \in {"outData", "own"} => out.kind # "none"
  BY DEF WorkAt, HasOutSize, ReplyAt, Received
<1>5. Sent(CmGetAppCertList(a), "GET_APP_CERTIFICATE_LIST", Pairs(tags, e), out, "request")
  BY <1>2, CmGetAppCertListSends
<1> HIDE DEF tags, e, out
<1> QED
  BY <1>1, <1>3, <1>4, <1>5, SentIsGood

LEMMA CmGetAppCertListByUidIsGood == ASSUME NEW a PROVE IsGood(CmGetAppCertListByUid(a), "CmGetAppCertListByUid", a)
<1> DEFINE tags == [store |-> U(0), appUid |-> U(1)]
           e == [store |-> a.store, appUid |-> a.appUid]
           out == Received
<1>1. tags = TagsAt("GET_APP_CERTIFICATE_LIST_BY_UID")
  BY DEF TagsAt
<1>2. {<<U(0), a.store>>, <<U(1), a.appUid>>} = Pairs(tags, e)
  BY DEF Pairs
<1>3. \A f \in DOMAIN tags : Arriving(tags[f], e[f]) = Expected("CmGetAppCertListByUid", a, f)
  BY DEF Arriving, Expected, Implied, NUMBERS, B, U, BoolToStatus, Blob, CmCheckBlob
<1>4. /\ "GET_APP_CERTIFICATE_LIST_BY_UID" \in DOMAIN WorkAt /\ ("request" = "request") = HasOutSize("GET_APP_CERTIFICATE_LIST_BY_UID")
      /\ ReplyAt("GET_APP_CERTIFICATE_LIST_BY_UID") \in {"outData", "own"} => out.kind # "none"
  BY DEF WorkAt, HasOutSize, ReplyAt, Received
<1>5. Sent(CmGetAppCertListByUid(a), "GET_APP_CERTIFICATE_LIST_BY_UID", Pairs(tags, e), out, "request")
  BY <1>2, CmGetAppCertListByUidSends
<1> HIDE DEF tags, e, out
<1> QED
  BY <1>1, <1>3, <1>4, <1>5, SentIsGood

LEMMA CmCallingGetAppCertListIsGood == ASSUME NEW a PROVE IsGood(CmCallingGetAppCertList(a), "CmCallingGetAppCertList", a)
<1> DEFINE tags == [store |-> U(0)]
           e == [store |-> a.store]
           out == Received
<1>1. tags = TagsAt("GET_CALLING_APP_CERTIFICATE_LIST")
  BY DEF TagsAt
<1>2. {<<U(0), a.store>>} = Pairs(tags, e)
  BY DEF Pairs
<1>3. \A f \in DOMAIN tags : Arriving(tags[f], e[f]) = Expected("CmCallingGetAppCertList", a, f)
  BY DEF Arriving, Expected, Implied, NUMBERS, B, U, BoolToStatus, Blob, CmCheckBlob
<1>4. /\ "GET_CALLING_APP_CERTIFICATE_LIST" \in DOMAIN WorkAt /\ ("request" = "request") = HasOutSize("GET_CALLING_APP_CERTIFICATE_LIST")
      /\ ReplyAt("GET_CALLING_APP_CERTIFICATE_LIST") \in {"outData", "own"} => out.kind # "none"
  BY DEF WorkAt, HasOutSize, ReplyAt, Received
<1>5. Sent(CmCallingGetAppCertList(a), "GET_CALLING_APP_CERTIFICATE_LIST", Pairs(tags, e), out, "request")
  BY <1>2, CmCallingGetAppCertListSends
<1> HIDE DEF tags, e, out
<1> QED
  BY <1>1, <1>3, <1>4, <1>5, SentIsGood

LEMMA CmGetAppCertIsGood == ASSUME NEW a PROVE IsGood(CmGetAppCert(a), "CmGetAppCert", a)
<1> DEFINE tags == [keyUri |-> B(0), store |-> U(0)]
           e == [keyUri |-> a.keyUri, store |-> a.store]
           out == Buffer("ok")
<1>1. tags = TagsAt("GET_APP_CERTIFICATE")
  BY DEF TagsAt
<1>2. {<<B(0), a.keyUri>>, <<U(0), a.store>>} = Pairs(tags, e)
  BY DEF Pairs
<1>3. \A f \in DOMAIN tags : Arriving(tags[f], e[f]) = Expected("CmGetAppCert", a, f)
  BY DEF Arriving, Expected, Implied, NUMBERS, B, U, BoolToStatus, Blob, CmCheckBlob
<1>4. /\ "GET_APP_CERTIFICATE" \in DOMAIN WorkAt /\ ("request" = "request") = HasOutSize("GET_APP_CERTIFICATE")
      /\ ReplyAt("GET_APP_CERTIFICATE") \in {"outData", "own"} => out.kind # "none"
  BY DEF WorkAt, HasOutSize, ReplyAt, Buffer
<1>5. Sent(CmGetAppCert(a), "GET_APP_CERTIFICATE", Pairs(tags, e), out, "request")
  BY <1>2, CmGetAppCertSends
<1> HIDE DEF tags, e, out
<1> QED
  BY <1>1, <1>3, <1>4, <1>5, SentIsGood

LEMMA CmGrantAppCertificateIsGood == ASSUME NEW a PROVE IsGood(CmGrantAppCertificate(a), "CmGrantAppCertificate", a)
<1> DEFINE tags == [keyUri |-> B(0), appUid |-> U(1)]
           e == [keyUri |-> a.keyUri, appUid |-> a.appUid]
           out == CallerBlob(a.authUri)
<1>1. tags = TagsAt("GRANT_APP_CERT")
  BY DEF TagsAt
<1>2. {<<B(0), a.keyUri>>, <<U(1), a.appUid>>} = Pairs(tags, e)
  BY DEF Pairs
<1>3. \A f \in DOMAIN tags : Arriving(tags[f], e[f]) = Expected("CmGrantAppCertificate", a, f)
  BY DEF Arriving, Expected, Implied, NUMBERS, B, U, BoolToStatus, Blob, CmCheckBlob
<1>4. /\ "GRANT_APP_CERT" \in DOMAIN WorkAt /\ ("request" = "request") = HasOutSize("GRANT_APP_CERT")
      /\ ReplyAt("GRANT_APP_CERT") \in {"outData", "own"} => out.kind # "none"
  BY DEF WorkAt, HasOutSize, ReplyAt, CallerBlob
<1>5. Sent(CmGrantAppCertificate(a), "GRANT_APP_CERT", Pairs(tags, e), out, "request")
  BY <1>2, CmGrantAppCertificateSends
<1> HIDE DEF tags, e, out
<1> QED
  BY <1>1, <1>3, <1>4, <1>5, SentIsGood

LEMMA CmGetAuthorizedAppListIsGood == ASSUME NEW a PROVE IsGood(CmGetAuthorizedAppList(a), "CmGetAuthorizedAppList", a)
<1> DEFINE tags == [keyUri |-> B(0)]
           e == [keyUri |-> a.keyUri]
           out == Buffer(a.list.form)
<1>1. tags = TagsAt("GET_AUTHED_LIST")
  BY DEF TagsAt
<1>2. {<<B(0), a.keyUri>>} = Pairs(tags, e)
  BY DEF Pairs
<1>3. \A f \in DOMAIN tags : Arriving(tags[f], e[f]) = Expected("CmGetAuthorizedAppList", a, f)
  BY DEF Arriving, Expected, Implied, NUMBERS, B, U, BoolToStatus, Blob, CmCheckBlob
<1>4. /\ "GET_AUTHED_LIST" \in DOMAIN WorkAt /\ ("request" = "request") = HasOutSize("GET_AUTHED_LIST")
      /\ ReplyAt("GET_AUTHED_LIST") \in {"outData", "own"} => out.kind # "none"
  BY DEF WorkAt, HasOutSize, ReplyAt, Buffer
<1>5. Sent(CmGetAuthorizedAppList(a), "GET_AUTHED_LIST", Pairs(tags, e), out, "request")
  BY <1>2, CmGetAuthorizedAppListSends
<1> HIDE DEF tags, e, out
<1> QED
  BY <1>1, <1>3, <1>4, <1>5, SentIsGood

LEMMA CmIsAuthorizedAppIsGood == ASSUME NEW a PROVE IsGood(CmIsAuthorizedApp(a), "CmIsAuthorizedApp", a)
<1> DEFINE tags == [authUri |-> B(0)]
           e == [authUri |-> a.authUri]
           out == NoOut
<1>1. tags = TagsAt("CHECK_IS_AUTHED_APP")
  BY DEF TagsAt
<1>2. {<<B(0), a.authUri>>} = Pairs(tags, e)
  BY DEF Pairs
<1>3. \A f \in DOMAIN tags : Arriving(tags[f], e[f]) = Expected("CmIsAuthorizedApp", a, f)
  BY DEF Arriving, Expected, Implied, NUMBERS, B, U, BoolToStatus, Blob, CmCheckBlob
<1>4. /\ "CHECK_IS_AUTHED_APP" \in DOMAIN WorkAt /\ ("request" = "request") = HasOutSize("CHECK_IS_AUTHED_APP")
      /\ ReplyAt("CHECK_IS_AUTHED_APP") \in {"outData", "own"} => out.kind # "none"
  BY DEF WorkAt, HasOutSize, ReplyAt, NoOut
<1>5. Sent(CmIsAuthorizedApp(a), "CHECK_IS_AUTHED_APP", Pairs(tags, e), out, "request")
  BY <1>2, CmIsAuthorizedAppSends
<1> HIDE DEF tags, e, out
<1> QED
  BY <1>1, <1>3, <1>4, <1>5, SentIsGood

LEMMA CmRemoveGrantedAppIsGood == ASSUME NEW a PROVE IsGood(CmRemoveGrantedApp(a), "CmRemoveGrantedApp", a)
<1> DEFINE tags == [keyUri |-> B(0), appUid |-> U(1)]
           e == [keyUri |-> a.keyUri, appUid |-> a.appUid]
           out == NoOut
<1>1. tags = TagsAt("REMOVE_GRANT_APP")
  BY DEF TagsAt
<1>2. {<<B(0), a.keyUri>>, <<U(1), a.appUid>>} = Pairs(tags, e)
  BY DEF Pairs
<1>3. \A f \in DOMAIN tags : Arriving(tags[f], e[f]) = Expected("CmRemoveGrantedApp", a, f)
  BY DEF Arriving, Expected, Implied, NUMBERS, B, U, BoolToStatus, Blob, CmCheckBlob
<1>4. /\ "REMOVE_GRANT_APP" \in DOMAIN WorkAt /\ ("request" = "request") = HasOutSize("REMOVE_GRANT_APP")
      /\ ReplyAt("REMOVE_GRANT_APP") \in {"outData", "own"} => out.kind # "none"
  BY DEF WorkAt, HasOutSize, ReplyAt, NoOut
<1>5. Sent(CmRemoveGrantedApp(a), "REMOVE_GRANT_APP", Pairs(tags, e), out, "request")
  BY <1>2, CmRemoveGrantedAppSends
<1> HIDE DEF tags, e, out
<1> QED
  BY <1>1, <1>3, <1>4, <1>5, SentIsGood

LEMMA CmInitIsGood == ASSUME NEW a PROVE IsGood(CmInit(a), "CmInit", a)
<1> DEFINE tags == [authUri |-> B(0), spec |-> B(1)]
           e == [authUri |-> a.authUri, spec |-> a.spec]
           out == CallerBlob(a.handle)
<1>1. tags = TagsAt("INIT")
  BY DEF TagsAt
<1>2. {<<B(0), a.authUri>>, <<B(1), a.spec>>} = Pairs(tags, e)
  BY DEF Pairs
<1>3. \A f \in DOMAIN tags : Arriving(tags[f], e[f]) = Expected("CmInit", a, f)
  BY DEF Arriving, Expected, Implied, NUMBERS, B, U, BoolToStatus, Blob, CmCheckBlob
<1>4. /\ "INIT" \in DOMAIN WorkAt /\ ("request" = "request") = HasOutSize("INIT")
      /\ ReplyAt("INIT") \in {"outData", "own"} => out.kind # "none"
  BY DEF WorkAt, HasOutSize, ReplyAt, CallerBlob
<1>5. Sent(CmInit(a), "INIT", Pairs(tags, e), out, "request")
  BY <1>2, CmInitSends
<1> HIDE DEF tags, e, out
<1> QED
  BY <1>1, <1>3, <1>4, <1>5, SentIsGood

LEMMA CmUpdateIsGood == ASSUME NEW a PROVE IsGood(CmUpdate(a), "CmUpdate", a)
<1> DEFINE tags == [handle |-> B(0), inData |-> B(1)]
           e == [handle |-> a.handle, inData |-> a.inData]
           out == NoOut
<1>1. tags = TagsAt("UPDATE")
  BY DEF TagsAt
<1>2. {<<B(0), a.handle>>, <<B(1), a.inData>>} = Pairs(tags, e)
  BY DEF Pairs
<1>3. \A f \in DOMAIN tags : Arriving(tags[f], e[f]) = Expected("CmUpdate", a, f)
  BY DEF Arriving, Expected, Implied, NUMBERS, B, U, BoolToStatus, Blob, CmCheckBlob
<1>4. /\ "UPDATE" \in DOMAIN WorkAt /\ ("request" = "request") = HasOutSize("UPDATE")
      /\ ReplyAt("UPDATE") \in {"outData", "own"} => out.kind # "none"
  BY DEF WorkAt, HasOutSize, ReplyAt, NoOut
<1>5. Sent(CmUpdate(a), "UPDATE", Pairs(tags, e), out, "request")
  BY <1>2, CmUpdateSends
<1> HIDE DEF tags, e, out
<1> QED
  BY <1>1, <1>3, <1>4, <1>5, SentIsGood

LEMMA CmFinishIsGood == ASSUME NEW a PROVE IsGood(CmFinish(a), "CmFinish", a)
<1> DEFINE tags == [handle |-> B(0), inData |-> B(1)]
           e == [handle |-> a.handle, inData |-> a.inData]
           out == CallerBlob(a.outData)
<1>1. tags = TagsAt("FINISH")
  BY DEF TagsAt
<1>2. {<<B(0), a.handle>>, <<B(1), a.inData>>} = Pairs(tags, e)
  BY DEF Pairs
<1>3. \A f \in DOMAIN tags : Arriving(tags[f], e[f]) = Expected("CmFinish", a, f)
  BY DEF Arriving, Expected, Implied, NUMBERS, B, U, BoolToStatus, Blob, CmCheckBlob
<1>4. /\ "FINISH" \in DOMAIN WorkAt /\ ("request" = "request") = HasOutSize("FINISH")
      /\ ReplyAt("FINISH") \in {"outData", "own"} => out.kind # "none"
  BY DEF WorkAt, HasOutSize, ReplyAt, CallerBlob
<1>5. Sent(CmFinish(a), "FINISH", Pairs(tags, e), out, "request")
  BY <1>2, CmFinishSends
<1> HIDE DEF tags, e, out
<1> QED
  BY <1>1, <1>3, <1>4, <1>5, SentIsGood

LEMMA CmAbortIsGood == ASSUME NEW a PROVE IsGood(CmAbort(a), "CmAbort", a)
<1> DEFINE tags == [handle |-> B(0)]
           e == [handle |-> a.handle]
           out == NoOut
<1>1. tags = TagsAt("ABORT")
  BY DEF TagsAt
<1>2. {<<B(0), a.handle>>} = Pairs(tags, e)
  BY DEF Pairs
<1>3. \A f \in DOMAIN tags : Arriving(tags[f], e[f]) = Expected("CmAbort", a, f)
  BY DEF Arriving, Expected, Implied, NUMBERS, B, U, BoolToStatus, Blob, CmCheckBlob
<1>4. /\ "ABORT" \in DOMAIN WorkAt /\ ("request" = "request") = HasOutSize("ABORT")
      /\ ReplyAt("ABORT") \in {"outData", "own"} => out.kind # "none"
  BY DEF WorkAt, HasOutSize, ReplyAt, NoOut
<1>5. Sent(CmAbort(a), "ABORT", Pairs(tags, e), out, "request")
  BY <1>2, CmAbortSends
<1> HIDE DEF tags, e, out
<1> QED
  BY <1>1, <1>3, <1>4, <1>5, SentIsGood

LEMMA CmGetUserCertListIsGood == ASSUME NEW a PROVE IsGood(CmGetUserCertList(a), "CmGetUserCertList", a)
<1> DEFINE tags == [store |-> U(0), userId |-> U(1), scope |-> U(2)]
           e == [store |-> a.store, userId |-> INVALID, scope |-> "ALL_USER"]
           out == Buffer("ok")
<1>1. tags = TagsAt("GET_USER_CERTIFICATE_LIST")
  BY DEF TagsAt
<1>2. {<<U(0), a.store>>, <<U(1), INVALID>>, <<U(2), "ALL_USER">>} = Pairs(tags, e)
  BY DEF Pairs
<1>3. \A f \in DOMAIN tags : Arriving(tags[f], e[f]) = Expected("CmGetUserCertList", a, f)
  BY DEF Arriving, Expected, Implied, NUMBERS, B, U, BoolToStatus, Blob, CmCheckBlob
<1>4. /\ "GET_USER_CERTIFICATE_LIST" \in DOMAIN WorkAt /\ ("request" = "request") = HasOutSize("GET_USER_CERTIFICATE_LIST")
      /\ ReplyAt("GET_USER_CERTIFICATE_LIST") \in {"outData", "own"} => out.kind # "none"
  BY DEF WorkAt, HasOutSize, ReplyAt, Buffer
<1>5. Sent(CmGetUserCertList(a), "GET_USER_CERTIFICATE_LIST", Pairs(tags, e), out, "request")
  BY <1>2, CmGetUserCertListSends
<1> HIDE DEF tags, e, out
<1> QED
  BY <1>1, <1>3, <1>4, <1>5, SentIsGood

LEMMA CmGetUserCACertListIsGood == ASSUME NEW a PROVE IsGood(CmGetUserCACertList(a), "CmGetUserCACertList", a)
<1> DEFINE tags == [store |-> U(0), userId |-> U(1), scope |-> U(2)]
           e == [store |-> "USER_TRUSTED", userId |-> a.userId, scope |-> a.scope]
           out == Buffer("ok")
<1>1. tags = TagsAt("GET_USER_CERTIFICATE_LIST")
  BY DEF TagsAt
<1>2. {<<U(0), "USER_TRUSTED">>, <<U(1), a.userId>>, <<U(2), a.scope>>} = Pairs(tags, e)
  BY DEF Pairs
<1>3. \A f \in DOMAIN tags : Arriving(tags[f], e[f]) = Expected("CmGetUserCACertList", a, f)
  BY DEF Arriving, Expected, Implied, NUMBERS, B, U, BoolToStatus, Blob, CmCheckBlob
<1>4. /\ "GET_USER_CERTIFICATE_LIST" \in DOMAIN WorkAt /\ ("request" = "request") = HasOutSize("GET_USER_CERTIFICATE_LIST")
      /\ ReplyAt("GET_USER_CERTIFICATE_LIST") \in {"outData", "own"} => out.kind # "none"
  BY DEF WorkAt, HasOutSize, ReplyAt, Buffer
<1>5. Sent(CmGetUserCACertList(a), "GET_USER_CERTIFICATE_LIST", Pairs(tags, e), out, "request")
  BY <1>2, CmGetUserCACertListSends
<1> HIDE DEF tags, e, out
<1> QED
  BY <1>1, <1>3, <1>4, <1>5, SentIsGood

LEMMA CmGetUserCertInfoIsGood == ASSUME NEW a PROVE IsGood(CmGetUserCertInfo(a), "CmGetUserCertInfo", a)
<1> DEFINE tags == [certUri |-> B(0), store |-> U(0)]
           e == [certUri |-> a.certUri, store |-> a.store]
           out == Buffer("ok")
<1>1. tags = TagsAt("GET_USER_CERTIFICATE_INFO")
  BY DEF TagsAt
<1>2. {<<B(0), a.certUri>>, <<U(0), a.store>>} = Pairs(tags, e)
  BY DEF Pairs
<1>3. \A f \in DOMAIN tags : Arriving(tags[f], e[f]) = Expected("CmGetUserCertInfo", a, f)
  BY DEF Arriving, Expected, Implied, NUMBERS, B, U, BoolToStatus, Blob, CmCheckBlob
<1>4. /\ "GET_USER_CERTIFICATE_INFO" \in DOMAIN WorkAt /\ ("request" = "request") = HasOutSize("GET_USER_CERTIFICATE_INFO")
      /\ ReplyAt("GET_USER_CERTIFICATE_INFO") \in {"outData", "own"} => out.kind # "none"
  BY DEF WorkAt, HasOutSize, ReplyAt, Buffer
<1>5. Sent(CmGetUserCertInfo(a), "GET_USER_CERTIFICATE_INFO", Pairs(tags, e), out, "request")
  BY <1>2, CmGetUserCertInfoSends
<1> HIDE DEF tags, e, out
<1> QED
  BY <1>1, <1>3, <1>4, <1>5, SentIsGood

LEMMA CmSetUserCertStatusIsGood == ASSUME NEW a PROVE IsGood(CmSetUserCertStatus(a), "CmSetUserCertStatus", a)
<1> DEFINE tags == [certUri |-> B(0), store |-> U(0), status |-> U(1)]
           e == [certUri |-> a.certUri, store |-> a.store, status |-> BoolToStatus(a.on)]
           out == NoOut
<1>1. tags = TagsAt("SET_USER_CERTIFICATE_STATUS")
  BY DEF TagsAt
<1>2. {<<B(0), a.certUri>>, <<U(0), a.store>>, <<U(1), BoolToStatus(a.on)>>} = Pairs(tags, e)
  BY DEF Pairs
<1>3. \A f \in DOMAIN tags : Arriving(tags[f], e[f]) = Expected("CmSetUserCertStatus", a, f)
  BY DEF Arriving, Expected, Implied, NUMBERS, B, U, BoolToStatus, Blob, CmCheckBlob
<1>4. /\ "SET_USER_CERTIFICATE_STATUS" \in DOMAIN WorkAt /\ ("request" = "request") = HasOutSize("SET_USER_CERTIFICATE_STATUS")
      /\ ReplyAt("SET_USER_CERTIFICATE_STATUS") \in {"outData", "own"} => out.kind # "none"
  BY DEF WorkAt, HasOutSize, ReplyAt, NoOut
<1>5. Sent(CmSetUserCertStatus(a), "SET_USER_CERTIFICATE_STATUS", Pairs(tags, e), out, "request")
  BY <1>2, CmSetUserCertStatusSends
<1> HIDE DEF tags, e, out
<1> QED
  BY <1>1, <1>3, <1>4, <1>5, SentIsGood

UserCertTags == [userCert |-> B(0), alias |-> B(1), userId |-> U(0), status |-> U(1), format |-> U(2)]
UserCertArgs(cert, alias, user, status, format) ==
    [userCert |-> cert, alias |-> alias, userId |-> user, status |-> status, format |-> format]

LEMMA UserCertPairs ==
    ASSUME NEW cert, NEW alias, NEW user, NEW status, NEW format
    PROVE  {<<B(0), cert>>, <<B(1), alias>>, <<U(0), user>>, <<U(1), status>>, <<U(2), format>>}
           = Pairs(UserCertTags, UserCertArgs(cert, alias, user, status, format))
  BY DEF Pairs, UserCertTags, UserCertArgs

LEMMA CmInstallUserTrustedCertIsGood == ASSUME NEW a PROVE IsGood(CmInstallUserTrustedCert(a), "CmInstallUserTrustedCert", a)
<1> DEFINE tags == UserCertTags
           e == UserCertArgs(a.userCert, a.alias, INVALID, BoolToStatus(TRUE), "PEM_DER")
           out == CallerBlob(a.certUri)
<1>1. tags = TagsAt("INSTALL_USER_CERTIFICATE")
  BY DEF TagsAt, UserCertTags
<1>2. {<<B(0), a.userCert>>, <<B(1), a.alias>>, <<U(0), INVALID>>, <<U(1),
      BoolToStatus(TRUE)>>, <<U(2), "PEM_DER">>} = Pairs(tags, e)
  <2>1. PICK on : on = BoolToStatus(TRUE)
    OBVIOUS
  <2>2. {<<B(0), a.userCert>>, <<B(1), a.alias>>, <<U(0), INVALID>>, <<U(1), on>>, <<U(2), "PEM_DER">>}
        = Pairs(UserCertTags, UserCertArgs(a.userCert, a.alias, INVALID, on, "PEM_DER"))
    BY UserCertPairs
  <2> QED
    BY Zenon, <2>1, <2>2
<1>3. \A f \in DOMAIN tags : Arriving(tags[f], e[f]) = Expected("CmInstallUserTrustedCert", a, f)
  BY DEF UserCertTags, UserCertArgs, Arriving, Expected, Implied, NUMBERS, B, U, BoolToStatus, Blob, CmCheckBlob
<1>4. /\ "INSTALL_USER_CERTIFICATE" \in DOMAIN WorkAt /\ ("request" = "request") = HasOutSize("INSTALL_USER_CERTIFICATE")
      /\ ReplyAt("INSTALL_USER_CERTIFICATE") \in {"outData", "own"} => out.kind # "none"
  BY DEF WorkAt, HasOutSize, ReplyAt, CallerBlob
<1>5. Sent(CmInstallUserTrustedCert(a), "INSTALL_USER_CERTIFICATE", Pairs(tags, e), out, "request")
  BY <1>2, CmInstallUserTrustedCertSends
<1> HIDE DEF tags, e, out
<1> QED
  BY <1>1, <1>3, <1>4, <1>5, SentIsGood

LEMMA CmInstallUserCACertIsGood == ASSUME NEW a PROVE IsGood(CmInstallUserCACert(a), "CmInstallUserCACert", a)
<1> DEFINE tags == UserCertTags
           e == UserCertArgs(a.userCert, a.alias, a.userId, BoolToStatus(a.on), "PEM_DER")
           out == CallerBlob(a.certUri)
<1>1. tags = TagsAt("INSTALL_USER_CERTIFICATE")
  BY DEF TagsAt, UserCertTags
<1>2. {<<B(0), a.userCert>>, <<B(1), a.alias>>, <<U(0), a.userId>>, <<U(1),
      BoolToStatus(a.on)>>, <<U(2), "PEM_DER">>} = Pairs(tags, e)
  BY UserCertPairs
<1>3. \A f \in DOMAIN tags : Arriving(tags[f], e[f]) = Expected("CmInstallUserCACert", a, f)
  BY DEF UserCertTags, UserCertArgs, Arriving, Expected, Implied, NUMBERS, B, U, BoolToStatus, Blob, CmCheckBlob
<1>4. /\ "INSTALL_USER_CERTIFICATE" \in DOMAIN WorkAt /\ ("request" = "request") = HasOutSize("INSTALL_USER_CERTIFICATE")
      /\ ReplyAt("INSTALL_USER_CERTIFICATE") \in {"outData", "own"} => out.kind # "none"
  BY DEF WorkAt, HasOutSize, ReplyAt, CallerBlob
<1>5. Sent(CmInstallUserCACert(a), "INSTALL_USER_CERTIFICATE", Pairs(tags, e), out, "request")
  BY <1>2, CmInstallUserCACertSends
<1> HIDE DEF tags, e, out
<1> QED
  BY <1>1, <1>3, <1>4, <1>5, SentIsGood

LEMMA CmInstallUserTrustedP7BCertIsGood == ASSUME NEW a PROVE IsGood(CmInstallUserTrustedP7BCert(a), "CmInstallUserTrustedP7BCert", a)
<1> DEFINE tags == UserCertTags
           e == UserCertArgs(a.userCert, a.alias, a.userId, BoolToStatus(a.on), "P7B")
           out == CallerBlob(Blob("ok"))
<1>1. tags = TagsAt("INSTALL_USER_CERTIFICATE")
  BY DEF TagsAt, UserCertTags
<1>2. {<<B(0), a.userCert>>, <<B(1), a.alias>>, <<U(0), a.userId>>, <<U(1),
      BoolToStatus(a.on)>>, <<U(2), "P7B">>} = Pairs(tags, e)
  BY UserCertPairs
<1>3. \A f \in DOMAIN tags : Arriving(tags[f], e[f]) = Expected("CmInstallUserTrustedP7BCert", a, f)
  BY DEF UserCertTags, UserCertArgs, Arriving, Expected, Implied, NUMBERS, B, U, BoolToStatus, Blob, CmCheckBlob
<1>4. /\ "INSTALL_USER_CERTIFICATE" \in DOMAIN WorkAt /\ ("request" = "request") = HasOutSize("INSTALL_USER_CERTIFICATE")
      /\ ReplyAt("INSTALL_USER_CERTIFICATE") \in {"outData", "own"} => out.kind # "none"
  BY DEF WorkAt, HasOutSize, ReplyAt, CallerBlob
<1>5. Sent(CmInstallUserTrustedP7BCert(a), "INSTALL_USER_CERTIFICATE", Pairs(tags, e), out, "request")
  BY <1>2, CmInstallUserTrustedP7BCertSends
<1> HIDE DEF tags, e, out
<1> QED
  BY <1>1, <1>3, <1>4, <1>5, SentIsGood

LEMMA CmUninstallUserTrustedCertIsGood == ASSUME NEW a PROVE IsGood(CmUninstallUserTrustedCert(a), "CmUninstallUserTrustedCert", a)
<1> DEFINE tags == [certUri |-> B(0)]
           e == [certUri |-> a.certUri]
           out == NoOut
<1>1. tags = TagsAt("UNINSTALL_USER_CERTIFICATE")
  BY DEF TagsAt
<1>2. {<<B(0), a.certUri>>} = Pairs(tags, e)
  BY DEF Pairs
<1>3. \A f \in DOMAIN tags : Arriving(tags[f], e[f]) = Expected("CmUninstallUserTrustedCert", a, f)
  BY DEF Arriving, Expected, Implied, NUMBERS, B, U, BoolToStatus, Blob, CmCheckBlob
<1>4. /\ "UNINSTALL_USER_CERTIFICATE" \in DOMAIN WorkAt /\ ("request" = "request") = HasOutSize("UNINSTALL_USER_CERTIFICATE")
      /\ ReplyAt("UNINSTALL_USER_CERTIFICATE") \in {"outData", "own"} => out.kind # "none"
  BY DEF WorkAt, HasOutSize, ReplyAt, NoOut
<1>5. Sent(CmUninstallUserTrustedCert(a), "UNINSTALL_USER_CERTIFICATE", Pairs(tags, e), out, "request")
  BY <1>2, CmUninstallUserTrustedCertSends
<1> HIDE DEF tags, e, out
<1> QED
  BY <1>1, <1>3, <1>4, <1>5, SentIsGood

LEMMA CmUninstallAllUserTrustedCertIsGood == ASSUME NEW a PROVE IsGood(CmUninstallAllUserTrustedCert(a), "CmUninstallAllUserTrustedCert", a)
<1> DEFINE tags == <<>>
           e == <<>>
           out == NoOut
<1>1. tags = TagsAt("UNINSTALL_ALL_USER_CERTIFICATE")
  BY DEF TagsAt
<1>2. {} = Pairs(tags, e)
  BY DEF Pairs
<1>3. \A f \in DOMAIN tags : Arriving(tags[f], e[f]) = Expected("CmUninstallAllUserTrustedCert", a, f)
  BY DEF Arriving, Expected, Implied, NUMBERS, B, U, BoolToStatus, Blob, CmCheckBlob
<1>4. /\ "UNINSTALL_ALL_USER_CERTIFICATE" \in DOMAIN WorkAt /\ ("request" = "request") = HasOutSize("UNINSTALL_ALL_USER_CERTIFICATE")
      /\ ReplyAt("UNINSTALL_ALL_USER_CERTIFICATE") \in {"outData", "own"} => out.kind # "none"
  BY DEF WorkAt, HasOutSize, ReplyAt, NoOut
<1>5. Sent(CmUninstallAllUserTrustedCert(a), "UNINSTALL_ALL_USER_CERTIFICATE", Pairs(tags, e), out, "request")
  BY <1>2, CmUninstallAllUserTrustedCertSends
<1> HIDE DEF tags, e, out
<1> QED
  BY <1>1, <1>3, <1>4, <1>5, SentIsGood

LEMMA CmGetUkeyCertListIsGood == ASSUME NEW a PROVE IsGood(CmGetUkeyCertList(a), "CmGetUkeyCertList", a)
<1> DEFINE tags == [provider |-> B(0), purpose |-> U(0)]
           e == [provider |-> a.provider, purpose |-> a.purpose]
           out == Received
<1>1. tags = TagsAt("GET_UKEY_CERTIFICATE_LIST")
  BY DEF TagsAt
<1>2. {<<B(0), a.provider>>, <<U(0), a.purpose>>} = Pairs(tags, e)
  BY DEF Pairs
<1>3. \A f \in DOMAIN tags : Arriving(tags[f], e[f]) = Expected("CmGetUkeyCertList", a, f)
  BY DEF Arriving, Expected, Implied, NUMBERS, B, U, BoolToStatus, Blob, CmCheckBlob
<1>4. /\ "GET_UKEY_CERTIFICATE_LIST" \in DOMAIN WorkAt /\ ("parcel" = "request") = HasOutSize("GET_UKEY_CERTIFICATE_LIST")
      /\ ReplyAt("GET_UKEY_CERTIFICATE_LIST") \in {"outData", "own"} => out.kind # "none"
  BY DEF WorkAt, HasOutSize, ReplyAt, Received
<1>5. Sent(CmGetUkeyCertList(a), "GET_UKEY_CERTIFICATE_LIST", Pairs(tags, e), out, "parcel")
  BY <1>2, CmGetUkeyCertListSends
<1> HIDE DEF tags, e, out
<1> QED
  BY <1>1, <1>3, <1>4, <1>5, SentIsGood

LEMMA CmGetUkeyCertIsGood == ASSUME NEW a PROVE IsGood(CmGetUkeyCert(a), "CmGetUkeyCert", a)
<1> DEFINE tags == [keyUri |-> B(0), purpose |-> U(0)]
           e == [keyUri |-> a.keyUri, purpose |-> a.purpose]
           out == Received
<1>1. tags = TagsAt("GET_UKEY_CERTIFICATE")
  BY DEF TagsAt
<1>2. {<<B(0), a.keyUri>>, <<U(0), a.purpose>>} = Pairs(tags, e)
  BY DEF Pairs
<1>3. \A f \in DOMAIN tags : Arriving(tags[f], e[f]) = Expected("CmGetUkeyCert", a, f)
  BY DEF Arriving, Expected, Implied, NUMBERS, B, U, BoolToStatus, Blob, CmCheckBlob
<1>4. /\ "GET_UKEY_CERTIFICATE" \in DOMAIN WorkAt /\ ("parcel" = "request") = HasOutSize("GET_UKEY_CERTIFICATE")
      /\ ReplyAt("GET_UKEY_CERTIFICATE") \in {"outData", "own"} => out.kind # "none"
  BY DEF WorkAt, HasOutSize, ReplyAt, Received
<1>5. Sent(CmGetUkeyCert(a), "GET_UKEY_CERTIFICATE", Pairs(tags, e), out, "parcel")
  BY <1>2, CmGetUkeyCertSends
<1> HIDE DEF tags, e, out
<1> QED
  BY <1>1, <1>3, <1>4, <1>5, SentIsGood

LEMMA CmImportUkeyCertIsGood == ASSUME NEW a PROVE IsGood(CmImportUkeyCert(a), "CmImportUkeyCert", a)
<1> DEFINE tags == [keyUri |-> B(0), cert |-> B(1), purpose |-> U(0)]
           e == [keyUri |-> a.keyUri, cert |-> a.cert, purpose |-> a.purpose]
           out == Received
<1>1. tags = TagsAt("IMPORT_UKEY_CERTIFICATE")
  BY DEF TagsAt
<1>2. {<<B(0), a.keyUri>>, <<B(1), a.cert>>, <<U(0), a.purpose>>} = Pairs(tags, e)
  BY DEF Pairs
<1>3. \A f \in DOMAIN tags : Arriving(tags[f], e[f]) = Expected("CmImportUkeyCert", a, f)
  BY DEF Arriving, Expected, Implied, NUMBERS, B, U, BoolToStatus, Blob, CmCheckBlob
<1>4. /\ "IMPORT_UKEY_CERTIFICATE" \in DOMAIN WorkAt /\ ("request" = "request") = HasOutSize("IMPORT_UKEY_CERTIFICATE")
      /\ ReplyAt("IMPORT_UKEY_CERTIFICATE") \in {"outData", "own"} => out.kind # "none"
  BY DEF WorkAt, HasOutSize, ReplyAt, Received
<1>5. Sent(CmImportUkeyCert(a), "IMPORT_UKEY_CERTIFICATE", Pairs(tags, e), out, "request")
  BY <1>2, CmImportUkeyCertSends
<1> HIDE DEF tags, e, out
<1> QED
  BY <1>1, <1>3, <1>4, <1>5, SentIsGood

LEMMA CmCheckAppPermissionIsGood == ASSUME NEW a PROVE IsGood(CmCheckAppPermission(a), "CmCheckAppPermission", a)
<1> DEFINE tags == [keyUri |-> B(0), appUid |-> U(0)]
           e == [keyUri |-> a.keyUri, appUid |-> a.appUid]
           out == Buffer("ok")
<1>1. tags = TagsAt("CHECK_APP_PERMISSION")
  BY DEF TagsAt
<1>2. {<<B(0), a.keyUri>>, <<U(0), a.appUid>>} = Pairs(tags, e)
  BY DEF Pairs
<1>3. \A f \in DOMAIN tags : Arriving(tags[f], e[f]) = Expected("CmCheckAppPermission", a, f)
  BY DEF Arriving, Expected, Implied, NUMBERS, B, U, BoolToStatus, Blob, CmCheckBlob
<1>4. /\ "CHECK_APP_PERMISSION" \in DOMAIN WorkAt /\ ("request" = "request") = HasOutSize("CHECK_APP_PERMISSION")
      /\ ReplyAt("CHECK_APP_PERMISSION") \in {"outData", "own"} => out.kind # "none"
  BY DEF WorkAt, HasOutSize, ReplyAt, Buffer
<1>5. Sent(CmCheckAppPermission(a), "CHECK_APP_PERMISSION", Pairs(tags, e), out, "request")
  BY <1>2, CmCheckAppPermissionSends
<1> HIDE DEF tags, e, out
<1> QED
  BY <1>1, <1>3, <1>4, <1>5, SentIsGood

\* What every function of the SDK sends arrives.
LEMMA InvokeIsGood == ASSUME NEW op \in SdkFunctions, NEW a PROVE IsGood(Invoke(op, a), op, a)
<1>1. CASE op = "CmGetCertList"
  BY <1>1, CmGetCertListIsGood DEF Invoke
<1>2. CASE op = "CmGetCertInfo"
  BY <1>2, CmGetCertInfoIsGood DEF Invoke
<1>3. CASE op = "CmSetCertStatus"
  BY <1>3, CmSetCertStatusIsGood DEF Invoke
<1>4. CASE op = "CmInstallAppCertEx"
  BY <1>4, CmInstallAppCertExIsGood DEF Invoke
<1>5. CASE op = "CmInstallAppCert"
  BY <1>5, CmInstallAppCertIsGood DEF Invoke
<1>6. CASE op = "CmInstallSystemAppCert"
  BY <1>6, CmInstallSystemAppCertIsGood DEF Invoke
<1>7. CASE op = "CmUninstallAppCert"
  BY <1>7, CmUninstallAppCertIsGood DEF Invoke
<1>8. CASE op = "CmUninstallAllAppCert"
  BY <1>8, CmUninstallAllAppCertIsGood DEF Invoke
<1>9. CASE op = "CmGetAppCertList"
  BY <1>9, CmGetAppCertListIsGood DEF Invoke
<1>10. CASE op = "CmGetAppCertListByUid"
  BY <1>10, CmGetAppCertListByUidIsGood DEF Invoke
<1>11. CASE op = "CmCallingGetAppCertList"
  BY <1>11, CmCallingGetAppCertListIsGood DEF Invoke
<1>12. CASE op = "CmGetAppCert"
  BY <1>12, CmGetAppCertIsGood DEF Invoke
<1>13. CASE op = "CmGrantAppCertificate"
  BY <1>13, CmGrantAppCertificateIsGood DEF Invoke
<1>14. CASE op = "CmGetAuthorizedAppList"
  BY <1>14, CmGetAuthorizedAppListIsGood DEF Invoke
<1>15. CASE op = "CmIsAuthorizedApp"
  BY <1>15, CmIsAuthorizedAppIsGood DEF Invoke
<1>16. CASE op = "CmRemoveGrantedApp"
  BY <1>16, CmRemoveGrantedAppIsGood DEF Invoke
<1>17. CASE op = "CmInit"
  BY <1>17, CmInitIsGood DEF Invoke
<1>18. CASE op = "CmUpdate"
  BY <1>18, CmUpdateIsGood DEF Invoke
<1>19. CASE op = "CmFinish"
  BY <1>19, CmFinishIsGood DEF Invoke
<1>20. CASE op = "CmAbort"
  BY <1>20, CmAbortIsGood DEF Invoke
<1>21. CASE op = "CmGetUserCertList"
  BY <1>21, CmGetUserCertListIsGood DEF Invoke
<1>22. CASE op = "CmGetUserCACertList"
  BY <1>22, CmGetUserCACertListIsGood DEF Invoke
<1>23. CASE op = "CmGetUserCertInfo"
  BY <1>23, CmGetUserCertInfoIsGood DEF Invoke
<1>24. CASE op = "CmSetUserCertStatus"
  BY <1>24, CmSetUserCertStatusIsGood DEF Invoke
<1>25. CASE op = "CmInstallUserTrustedCert"
  BY <1>25, CmInstallUserTrustedCertIsGood DEF Invoke
<1>26. CASE op = "CmInstallUserCACert"
  BY <1>26, CmInstallUserCACertIsGood DEF Invoke
<1>27. CASE op = "CmInstallUserTrustedP7BCert"
  BY <1>27, CmInstallUserTrustedP7BCertIsGood DEF Invoke
<1>28. CASE op = "CmUninstallUserTrustedCert"
  BY <1>28, CmUninstallUserTrustedCertIsGood DEF Invoke
<1>29. CASE op = "CmUninstallAllUserTrustedCert"
  BY <1>29, CmUninstallAllUserTrustedCertIsGood DEF Invoke
<1>30. CASE op = "CmGetUkeyCertList"
  BY <1>30, CmGetUkeyCertListIsGood DEF Invoke
<1>31. CASE op = "CmGetUkeyCert"
  BY <1>31, CmGetUkeyCertIsGood DEF Invoke
<1>32. CASE op = "CmImportUkeyCert"
  BY <1>32, CmImportUkeyCertIsGood DEF Invoke
<1>33. CASE op = "CmCheckAppPermission"
  BY <1>33, CmCheckAppPermissionIsGood DEF Invoke
<1> QED
  BY <1>1, <1>2, <1>3, <1>4, <1>5, <1>6, <1>7, <1>8, <1>9, <1>10, <1>11, <1>12, <1>13, <1>14,
     <1>15, <1>16, <1>17, <1>18, <1>19, <1>20, <1>21, <1>22, <1>23, <1>24, <1>25, <1>26,
     <1>27, <1>28, <1>29, <1>30, <1>31, <1>32, <1>33 DEF SdkFunctions

-----------------------------------------------------------------------------
(* The calls.                                                              *)

LEMMA FirstWord == \A via : Words(via)[1] = "outSize" <=> via = "request"
  BY DEF Words

LEMMA ConvertedFine == \A err : Fine(err) => Fine(ConvertErrorCode(err))
  BY DEF Fine, ConvertErrorCode

\* A call on its way has a good request, whose words are sent; a handler was
\* handed the arguments; no reply complains about the form; and nothing is
\* returned before the end.
Asked == OnTheWay => request.err = "SUCCESS" /\ IsGood(request, call.op, call.a)
WordsSent == pc \in {"load", "send"} => message.words = Words(request.via)
Handed ==
    pc = "handle" /\ handler.err = "SUCCESS" =>
        /\ handler.reply = ReplyAt(request.code)
        /\ \A f \in DOMAIN handler.args : handler.args[f] = Expected(call.op, call.a, f)
AnswersFine == Fine(handler.err) /\ (replies # <<>> => Fine(replies[1]))
SizesRefused ==
    rc = "IPC_PARAM_SIZE_INVALID" =>
        pc = "done" /\ (message.size >= MAX_MALLOC \/ message.out \in {"huge", "toobig"})

FormInv == Asked /\ WordsSent /\ Handed /\ AnswersFine /\ SizesRefused

LEMMA HandlerGetsArguments ==
    ASSUME IsGood(request, call.op, call.a), request.err = "SUCCESS",
           handler' = ProcessMessage(request.code, call.c, [userId |-> call.c.userId, uid |-> call.c.uid],
                                     CmParamsToParamSet(request.params), message.out)
    PROVE  /\ Fine(handler'.err) /\ handler'.reply = ReplyAt(request.code)
           /\ \A f \in DOMAIN handler'.args : handler'.args[f] = Expected(call.op, call.a, f)
<1>1. PICK q : q = request
  OBVIOUS
<1>2. PICK op : op = call.op
  OBVIOUS
<1>3. PICK a : a = call.a
  OBVIOUS
<1>4. PICK c : c = call.c
  OBVIOUS
<1>5. PICK out : out = message.out
  OBVIOUS
<1>6. PICK x : x = [userId |-> c.userId, uid |-> c.uid]
  OBVIOUS
<1>7. PICK p : p = CmParamsToParamSet(q.params)
  OBVIOUS
<1>8. PICK h : h = handler'
  OBVIOUS
<1>9. h = ProcessMessage(q.code, c, x, p, out)
  BY <1>1, <1>4, <1>5, <1>6, <1>7, <1>8
<1>10. q.err = "SUCCESS" /\ IsGood(q, op, a)
  BY <1>1, <1>2, <1>3
<1>11. PICK code : code = q.code
  OBVIOUS
<1>12. PICK tags : tags = TagsAt(code)
  OBVIOUS
<1>13. code \in DOMAIN WorkAt
  BY <1>10, <1>11 DEF IsGood
<1>14. PICK e : /\ q.params = Params(Pairs(tags, e))
                /\ \A f \in DOMAIN tags : Arriving(tags[f], e[f]) = Expected(op, a, f)
  BY <1>10, <1>11, <1>12 DEF IsGood
<1>15. AllSent(p, tags) /\ \A f \in DOMAIN tags : Read(p, tags)[f] = Arriving(tags[f], e[f])
  <2>1. Tagged(tags)
    BY <1>12, <1>13, TagsAreTheirOwn
  <2>2. p = CmParamsToParamSet(Params(Pairs(tags, e)))
    BY <1>7, <1>14
  <2> QED
    BY <2>1, <2>2, Arrives
<1>16. Fine(h.err) /\ h.args = Read(p, tags) /\ h.reply = ReplyAt(code)
  <2>1. h = ProcessMessage(code, c, x, p, out)
    BY <1>9, <1>11
  <2>2. Reads(h, p, tags, ReplyAt(code))
    BY <1>12, <1>13, <2>1, ProcessMessageReads
  <2> QED
    BY <1>15, <2>2 DEF Reads
<1>17. DOMAIN Read(p, tags) = DOMAIN tags
  BY DEF Read
<1>18. \A f \in DOMAIN h.args : h.args[f] = Expected(op, a, f)
  BY <1>14, <1>15, <1>16, <1>17
<1> QED
  BY <1>1, <1>2, <1>3, <1>8, <1>11, <1>16, <1>18

LEMMA AtRest == Fine(NoHandler.err) /\ "" # "IPC_PARAM_SIZE_INVALID"
<1>1. Fine("") /\ NoHandler.err = ""
  BY Zenon DEF Fine, NoHandler
<1> QED
  BY Zenon, <1>1

LEMMA FormInvStarts == Init => FormInv
<1>1. Init => pc = "idle" /\ handler = NoHandler /\ replies = <<>> /\ rc # "IPC_PARAM_SIZE_INVALID"
  BY Zenon, AtRest DEF Init
<1>2. Init => Fine(handler.err)
  BY <1>1, AtRest
<1> QED
  BY <1>1, <1>2 DEF FormInv, Asked, WordsSent, Handed, AnswersFine, SizesRefused, OnTheWay

LEMMA FormInvStays == FormInv /\ CallInv /\ [Next]_vars => FormInv'
<1> SUFFICES ASSUME FormInv, CallInv, [Next]_vars PROVE FormInv'
  OBVIOUS
<1> USE DEF FormInv
<1>1. CASE Call
  <2>1. PICK k \in Calls, c \in Callers :
            /\ call' = [op |-> k.op, a |-> k.a, c |-> c]
            /\ request' = Invoke(k.op, k.a)
            /\ IF request'.err = "SUCCESS" THEN Goto("serialize") ELSE Return(request'.err)
    BY <1>1 DEF Call
  <2>2. call'.op = k.op /\ call'.a = k.a /\ k.op \in SdkFunctions
    BY <2>1, CallsAssumption
  <2>3. IsGood(request', call'.op, call'.a)
    <3>1. PICK a : a = k.a
      OBVIOUS
    <3>2. IsGood(Invoke(k.op, a), k.op, a)
      BY <2>2, InvokeIsGood
    <3>3. request' = Invoke(k.op, a) /\ call'.op = k.op /\ call'.a = a
      BY <2>1, <2>2, <3>1
    <3> HIDE DEF IsGood
    <3> QED
      BY <3>2, <3>3
  <2>4. pc = "idle" /\ UNCHANGED <<message, service, handler, replies, wiped>>
    BY <1>1 DEF Call
  <2>5. CASE request'.err = "SUCCESS" /\ pc' = "serialize" /\ rc' = rc
    BY <2>3, <2>4, <2>5 DEF Asked, WordsSent, Handed, AnswersFine, SizesRefused, OnTheWay
  <2>6. CASE request'.err # "SUCCESS" /\ pc' = "done" /\ rc' = request'.err
    <3>1. Fine(request'.err)
      BY <2>3 DEF IsGood
    <3> QED
      BY <2>4, <2>6, <3>1 DEF Asked, WordsSent, Handed, AnswersFine, SizesRefused, OnTheWay, Fine
  <2> QED
    BY <2>1, <2>5, <2>6 DEF Goto, Return
<1>2. CASE Serialize
  <2>1. PICK size \in SetSizes(request.params) :
            /\ message' = [size |-> size, words |-> Words(request.via), out |-> request.out.form]
            /\ IF CmBuildParamSet(size).err = "SUCCESS" THEN Goto("load") ELSE Return(CmBuildParamSet(size).err)
    BY <1>2 DEF Serialize
  <2>2. pc = "serialize" /\ UNCHANGED <<call, request, service, handler, replies>>
    BY <1>2 DEF Serialize
  <2>3. message'.words = Words(request.via)
    BY <2>1
  <2>4. \/ pc' = "load" /\ rc' = rc
        \/ pc' = "done" /\ rc' = "INVALID_PARAMSET_ARG"
    BY <2>1 DEF Goto, Return, CmBuildParamSet
  <2> QED
    BY <2>2, <2>3, <2>4 DEF Asked, WordsSent, Handed, AnswersFine, SizesRefused, OnTheWay
<1>3. CASE SerializeOverflows \/ SerializeNoMemory
  <2>1. /\ pc' = "done" /\ rc' \in {"INVALID_PARAMSET_ARG", "MALLOC_FAIL"}
        /\ UNCHANGED <<call, request, service, handler, replies>>
    BY <1>3 DEF SerializeOverflows, SerializeNoMemory, Return
  <2> QED
    BY <2>1 DEF Asked, WordsSent, Handed, AnswersFine, SizesRefused, OnTheWay
<1>4. CASE Load
  <2>1. pc = "load" /\ UNCHANGED <<call, request, message, handler, replies, wiped>>
    BY <1>4 DEF Load
  <2>2. \/ pc' = "send" /\ rc' = rc
        \/ pc' = "done" /\ rc' = "NULL_POINTER"
    BY <1>4 DEF Load, Goto, Return
  <2> QED
    BY <2>1, <2>2 DEF Asked, WordsSent, Handed, AnswersFine, SizesRefused, OnTheWay
<1>5. CASE OnRemoteRequest
  <2>1. pc = "send" /\ UNCHANGED <<call, request, message, service, replies, wiped>>
    BY <1>5 DEF OnRemoteRequest
  <2>2. request.err = "SUCCESS" /\ IsGood(request, call.op, call.a)
    BY <2>1 DEF Asked, OnTheWay
  <2>3. CASE FormError # "SUCCESS" /\ Return(FormError) /\ UNCHANGED handler
    <3>1. (message.words[1] = "outSize") = HasOutSize(request.code)
      <4>1. message.words = Words(request.via)
        BY <2>1 DEF WordsSent
      <4>2. (request.via = "request") = HasOutSize(request.code)
        BY <2>2 DEF IsGood
      <4> QED
        BY <4>1, <4>2, FirstWord
    <3>2. message.size >= MAX_MALLOC \/ message.out \in {"huge", "toobig"}
      BY <2>3, <3>1 DEF FormError
    <3> QED
      BY <2>1, <2>3, <3>2 DEF Return, Asked, WordsSent, Handed, AnswersFine, SizesRefused, OnTheWay
  <2>4. CASE Return("MALLOC_FAIL") /\ UNCHANGED handler
    BY <2>1, <2>4 DEF Return, Asked, WordsSent, Handed, AnswersFine, SizesRefused, OnTheWay
  <2>5. CASE /\ Goto("handle")
             /\ handler' = ProcessMessage(request.code, call.c, [userId |-> call.c.userId, uid |-> call.c.uid],
                                          CmParamsToParamSet(request.params), message.out)
    <3>1. /\ Fine(handler'.err) /\ handler'.reply = ReplyAt(request.code)
          /\ \A f \in DOMAIN handler'.args : handler'.args[f] = Expected(call.op, call.a, f)
      BY <2>2, <2>5, HandlerGetsArguments
    <3>2. pc' = "handle" /\ rc' = rc
      BY <2>5 DEF Goto
    <3>3. Handed'
      BY <2>1, <3>1 DEF Handed
    <3>4. Asked' /\ WordsSent' /\ AnswersFine' /\ SizesRefused'
      BY <2>1, <3>1, <3>2 DEF Asked, WordsSent, AnswersFine, SizesRefused, OnTheWay
    <3> QED
      BY <3>3, <3>4
  <2> QED
    BY <1>5, <2>3, <2>4, <2>5 DEF OnRemoteRequest
<1>6. CASE HandleNoMemory
  <2>1. pc = "handle" /\ handler' = Refused("MALLOC_FAIL", handler.ctx)
        /\ UNCHANGED <<pc, call, request, message, service, replies, rc, wiped>>
    BY <1>6 DEF HandleNoMemory
  <2>2. handler'.err = "MALLOC_FAIL"
    BY <2>1 DEF Refused
  <2> QED
    BY <2>1, <2>2 DEF Asked, WordsSent, Handed, AnswersFine, SizesRefused, OnTheWay, Fine
<1>7. CASE SendRefusal
  <2>1. pc = "handle" /\ pc' = "reply" /\ UNCHANGED <<rc, call, request, message, service, handler, wiped>>
    BY <1>7 DEF SendRefusal, Goto
  <2>2. replies' = replies \/ replies' = <<ConvertErrorCode(handler.err)>>
    <3>1. replies = <<>>
      BY <2>1 DEF CallInv, RepliesKept
    <3>2. replies' = replies \/ replies' = Append(replies, ConvertErrorCode(handler.err))
      BY <1>7 DEF SendRefusal, Reply
    <3> QED
      BY <3>1, <3>2, OneReply
  <2>3. replies' # <<>> => Fine(replies'[1])
    BY <2>2, ConvertedFine DEF AnswersFine
  <2> QED
    BY <2>1, <2>3 DEF Asked, WordsSent, Handed, AnswersFine, SizesRefused, OnTheWay
<1>8. CASE Work
  <2>1. pc = "handle" /\ pc' = "reply" /\ UNCHANGED <<rc, call, request, message, service, handler, wiped>>
    BY <1>8 DEF Work, Goto
  <2>2. PICK err \in {"SUCCESS", "NOT_EXIST"} : replies' = <<ConvertErrorCode(err)>>
    <3>1. replies = <<>>
      BY <2>1 DEF CallInv, RepliesKept
    <3>2. PICK err \in {"SUCCESS", "NOT_EXIST"} : replies' = Append(replies, ConvertErrorCode(err))
      BY <1>8 DEF Work, Reply
    <3> QED
      BY <3>1, <3>2, OneReply
  <2>3. Fine(replies'[1])
    BY <2>2, ConvertedFine DEF Fine
  <2> QED
    BY <2>1, <2>3 DEF Asked, WordsSent, Handed, AnswersFine, SizesRefused, OnTheWay
<1>9. CASE Dies
  <2>1. UNCHANGED <<call, request, message, handler, replies, wiped>>
    BY <1>9 DEF Dies
  <2>2. \/ pc' = "done" /\ rc' = "DEAD_OBJECT"
        \/ UNCHANGED <<pc, rc>>
    BY <1>9 DEF Dies, Return
  <2> QED
    BY <2>1, <2>2 DEF Asked, WordsSent, Handed, AnswersFine, SizesRefused, OnTheWay
<1>10. CASE ReadReply
  <2>1. pc = "reply" /\ pc' = "done" /\ UNCHANGED <<call, request, message, service, handler, replies>>
    BY <1>10 DEF ReadReply, Return
  <2>2. Fine(request.unpack)
    BY <2>1 DEF Asked, OnTheWay, IsGood
  <2>3. replies # <<>> => Fine(replies[1])
    BY DEF AnswersFine
  <2>4. rc' # "IPC_PARAM_SIZE_INVALID"
    BY <1>10, <2>2, <2>3 DEF ReadReply, Return, Fine
  <2> QED
    BY <2>1, <2>4 DEF Asked, WordsSent, Handed, AnswersFine, SizesRefused, OnTheWay
<1>11. CASE Done
  <2>1. pc' = "idle" /\ rc' # "IPC_PARAM_SIZE_INVALID" /\ replies' = <<>> /\ handler' = NoHandler
    BY Zenon, <1>11, AtRest DEF Done
  <2>2. Fine(handler'.err)
    BY <2>1, AtRest
  <2> QED
    BY <2>1, <2>2 DEF Asked, WordsSent, Handed, AnswersFine, SizesRefused, OnTheWay
<1>12. CASE UNCHANGED vars
  BY <1>12 DEF vars, Asked, WordsSent, Handed, AnswersFine, SizesRefused, OnTheWay
<1> QED
  BY <1>1, <1>2, <1>3, <1>4, <1>5, <1>6, <1>7, <1>8, <1>9, <1>10, <1>11, <1>12 DEF Next

LEMMA FormInvHolds == Spec => []FormInv
<1> HIDE DEF FormInv, CallInv
<1> QED
  BY FormInvStarts, FormInvStays, CallInvHolds, PTL DEF Spec

\* What a function of the SDK was asked for is what the handler is about to
\* do, and each of its arguments is the caller's or the one implied, for every
\* call and whatever its arguments are: the tags under which the client writes
\* are those under which the handler reads.
THEOREM ArgumentsDoArrive == Spec => []ArgumentsArrive
<1>1. FormInv /\ CallInv => ArgumentsArrive
  BY DEF FormInv, Handed, CallInv, HandlerIsRight, ArgumentsArrive, Works
<1> QED
  BY <1>1, FormInvHolds, CallInvHolds, PTL

\* No call fails for the form of its message: every handler finds all it reads,
\* only too large a size is refused, and there is room for data it answers with.
THEOREM FormIsNoReason == Spec => []NotRefusedForItsForm
<1>1. FormInv => NotRefusedForItsForm
  <2> SUFFICES ASSUME FormInv PROVE NotRefusedForItsForm
    OBVIOUS
  <2>1. Works => OnTheWay /\ handler.reply = ReplyAt(request.code)
    BY DEF FormInv, Handed, Works, OnTheWay
  <2>2. Works => (ReplyAt(request.code) \in {"outData", "own"} => request.out.kind # "none")
    BY <2>1 DEF FormInv, Asked, IsGood
  <2> QED
    BY <2>1, <2>2 DEF FormInv, AnswersFine, SizesRefused, Fine, NotRefusedForItsForm
<1> QED
  BY <1>1, FormInvHolds, PTL
============================================================================
