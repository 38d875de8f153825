----------------------------- MODULE KitProofs ------------------------------
(****************************************************************************)
(* Proofs for Kit.  A function of the kit answers in the way its entry      *)
(* chose, and the entry chose by whether a callback is among the arguments: *)
(* one lemma per function shows that (ChosenBy), for every list of values,  *)
(* and ApiInv carries it through the worker and the completion.  Another    *)
(* lemma per function shows that it asks the SDK for what its arguments say *)
(* (IsRight), which WorkInv carries to what JavaScript is told.  A dialog   *)
(* is answered by its first event or, when the service shows it, by its one *)
(* result or an error; DialogInv says which is on the way in every phase.   *)
(****************************************************************************)
EXTENDS Kit, TLAPS

vars == <<call, pc, promise, seen, api, device, via, dialog, sa>>

ApiPcs == {"parse", "work", "execute", "complete", "done"}
Phases == ApiPcs \cup {"idle", "check", "query", "start", "open", "over"}

-----------------------------------------------------------------------------
(* The invariant of the dialogs.                                            *)
Once == \E s : seen = <<s>>

\* Nothing is shown, and nothing asked of the service, before a dialog is
\* started: neither between two calls nor while a function runs.
NotStarted ==
    pc \in Phases \ {"start", "open", "over"} => via = "none" /\ NoDialog /\ NoSa

NothingSeen ==
    /\ pc \notin {"done", "open", "over"} => seen = <<>>
    /\ pc \in {"idle", "check", "query"} => promise = "none"
    /\ pc = "done" => Once

\* At most one result waits for JavaScript, and only after the answer.
QueueIsShort ==
    /\ queue = <<>> \/ \E code : queue = <<code>>
    /\ "dialog" \notin answered => queue = <<>>

Starting ==
    pc = "start" =>
        /\ via \in {"extension", "ability", "sa"} /\ NoDialog /\ promise = "pending"
        /\ via # "sa" => NoSa
        /\ via = "sa" => \/ NoSa
                         \/ /\ ukeyResult = "live" /\ QueueIsShort
                            /\ returned = [c \in {"dialog"} |-> "no"] /\ answered \subseteq started

\* A dialog shown from here did not start, or was not answered, or was
\* answered by the first of the events that answer.
EndType == [kind : {"release", "error", "result", "receive", "destroy"}, code : EndCodes \cup {"0"}, uri : {"empty", "uri"}]

Dropped == pc = "over" /\ promise = "dropped" /\ ends = <<>> /\ \E s : seen = <<s>> /\ s.how = "throw"
Unanswered ==
    /\ promise = "pending" /\ seen = <<>> /\ alreadyCallback = FALSE /\ Telling = {}
    /\ pc = "over" => via = "extension"
FirstTells(s) ==
    \A i \in Telling : (\A j \in Telling : i <= j) =>
        /\ s.err = IF ends[i].code = "0" THEN "none" ELSE DialogErrorCode(ends[i].code)
        /\ ends[i].code = "0" => s.value = ProcessCallback(ends[i].uri)
Answered ==
    /\ promise = "settled" /\ alreadyCallback = TRUE /\ modal # "shown" /\ Telling # {}
    /\ \E s : seen = <<s>> /\ FirstTells(s)

Shown ==
    pc \in {"open", "over"} /\ via \in {"extension", "ability"} =>
        /\ NoSa /\ ends \in Seq(EndType) /\ uri \in {"empty", "uri"}
        /\ Dropped \/ Unanswered \/ Answered

\* A dialog the service shows: the context could not be made; the result is
\* awaited, or was told; the call was refused, or failed with or without a
\* result before or after the error; or JavaScript is gone.
ContextNotMade == pc = "over" /\ NoSa /\ promise = "settled" /\ Once
ResultAwaited ==
    /\ pc = "open" /\ ukeyResult = "live" /\ returned["dialog"] = "accepted"
    /\ QueueIsShort /\ promise = "pending" /\ seen = <<>>
Released ==
    \/ pc = "open" /\ ukeyResult = "released"
    \/ pc = "over" /\ ukeyResult \in {"freed", "used"} /\ queue = <<>>
ResultTold ==
    /\ Released /\ ukeyResult # "used" /\ returned["dialog"] = "accepted"
    /\ queue = <<>> /\ "dialog" \in answered /\ promise = "settled" /\ Once
CallRefused ==
    /\ Released /\ ukeyResult # "used" /\ returned["dialog"] = "refused"
    /\ queue = <<>> /\ "dialog" \notin started /\ promise = "settled" /\ Once
Twice == Len(seen) = 2
CallFailed ==
    /\ Released /\ returned["dialog"] = "failed"
    /\ QueueIsShort /\ promise = "settled"
    /\ Once \/ (Twice /\ queue = <<>> /\ "dialog" \in answered)
LeftByJavaScript ==
    /\ pc = "over" /\ ukeyResult \in {"freed", "used"} /\ "dialog" \in lost /\ queue = <<>>
    /\ \/ promise = "pending" /\ seen = <<>>
       \/ promise = "settled" /\ Once
       \/ promise = "settled" /\ Twice /\ returned["dialog"] = "failed"

Served ==
    via = "sa" /\ pc \in {"open", "over"} =>
        ContextNotMade \/ ResultAwaited \/ ResultTold \/ CallRefused \/ CallFailed \/ LeftByJavaScript

\* A call that ended before it chose a dialog.
Ended ==
    via = "none" =>
        /\ pc # "open"
        /\ pc = "over" => NoDialog /\ NoSa /\ promise \in {"none", "settled"} /\ Once

DialogInv ==
    /\ pc \in Phases /\ via \in {"none", "extension", "ability", "sa"}
    /\ NotStarted /\ NothingSeen /\ Starting /\ Shown /\ Served /\ Ended

-----------------------------------------------------------------------------
\* What FirstEndAnswers and NobodyWaits say follows from it.
LEMMA DialogInvIsEnough == DialogInv => FirstEndAnswers /\ NobodyWaits
<1> SUFFICES ASSUME DialogInv PROVE FirstEndAnswers /\ NobodyWaits
  OBVIOUS
<1>1. ASSUME via # "sa" PROVE Len(seen) <= 1
  <2>1. seen = <<>> \/ Once
    BY <1>1 DEF DialogInv, NothingSeen, Once, Shown, Ended, Dropped, Unanswered, Answered
  <2>2. CASE seen = <<>>
    BY <2>2
  <2>3. ASSUME NEW s, seen = <<s>> PROVE Len(seen) <= 1
    BY <2>3
  <2> QED
    BY <2>1, <2>2, <2>3 DEF Once
<1>2. ASSUME via \in {"extension", "ability"}, pc \in {"open", "over"}, promise # "dropped"
      PROVE  /\ promise = "settled" <=> Telling # {}
             /\ \A i \in Telling : (\A j \in Telling : i <= j) =>
                  LET first == ends[i]
                  IN  /\ modal # "shown"
                      /\ seen[1].err = IF first.code = "0" THEN "none" ELSE DialogErrorCode(first.code)
                      /\ first.code = "0" => seen[1].value = ProcessCallback(first.uri)
  <2>1. Unanswered \/ Answered
    BY <1>2 DEF DialogInv, Shown, Dropped
  <2>2. CASE Unanswered
    BY <2>2 DEF Unanswered
  <2>3. CASE Answered
    <3>1. PICK s : seen = <<s>> /\ FirstTells(s)
      BY <2>3 DEF Answered
    <3>2. seen[1] = s
      BY <3>1
    <3> QED
      BY <2>3, <3>1, <3>2 DEF Answered, FirstTells
  <2> QED
    BY <2>1, <2>2, <2>3
<1>3. FirstEndAnswers
  BY <1>1, <1>2 DEF FirstEndAnswers
<1>4. NobodyWaits
  <2> SUFFICES ASSUME pc = "over" PROVE NobodyWaits
    BY DEF NobodyWaits
  <2>1. CASE via \in {"extension", "ability"}
    <3>1. ukeyResult = "none" /\ queue = <<>>
      BY <2>1 DEF DialogInv, Shown, NoSa
    <3>2. CASE Dropped
      BY <3>1, <3>2 DEF Dropped, NobodyWaits
    <3>3. CASE Unanswered
      BY <3>1, <3>3 DEF Unanswered, NobodyWaits
    <3>4. CASE Answered
      BY <3>1, <3>4 DEF Answered, NobodyWaits
    <3> QED
      BY <2>1, <3>2, <3>3, <3>4 DEF DialogInv, Shown
  <2>2. CASE via = "sa"
    <3>1. /\ Once => Len(seen) = 1
          /\ Twice => Len(seen) = 2
      BY DEF Once, Twice
    <3>2. CASE ContextNotMade
      BY <3>1, <3>2 DEF ContextNotMade, NoSa, NobodyWaits
    <3>3. CASE ResultTold \/ CallRefused
      BY <3>1, <3>3 DEF Released, ResultTold, CallRefused, NobodyWaits
    <3>4. CASE CallFailed
      BY <2>2, <3>1, <3>4 DEF Released, CallFailed, NobodyWaits, Failed
    <3>5. CASE LeftByJavaScript
      BY <2>2, <3>1, <3>5 DEF LeftByJavaScript, NobodyWaits, Failed, Gone
    <3> QED
      BY <2>2, <3>2, <3>3, <3>4, <3>5 DEF DialogInv, Served, ResultAwaited
  <2>3. CASE via = "none"
    BY <2>3 DEF DialogInv, Ended, Once, NoSa, NobodyWaits
  <2> QED
    BY <2>1, <2>2, <2>3 DEF DialogInv
<1> QED
  BY <1>3, <1>4

LEMMA DialogInvHoldsAtFirst == Init => DialogInv
  BY DEF Init, Idle, DialogInit, DialogInv, Phases, ApiPcs, NotStarted, NothingSeen, Starting, Shown,
         Served, Ended

-----------------------------------------------------------------------------
(* The steps of a function touch nothing of a dialog.                       *)
LEMMA CallStepKeepsDialogInv ==
    ASSUME DialogInv, CallStep
    PROVE  DialogInv'
<1>1. /\ pc \in ApiPcs \cup {"idle"} /\ pc' \in ApiPcs \cup {"idle"}
      /\ UNCHANGED <<device, via, dialog, sa>>
  BY DEF CallStep, ApiNext, Call, Invoke, CreateContext, ParseParams, AsyncWork, Execute, Complete,
         Return, GiveBack, ApiPcs
<1>2. /\ seen = <<>> \/ pc = "done"
      /\ pc = "idle" => promise = "none"
  BY <1>1 DEF DialogInv, NothingSeen, ApiPcs
<1>3. /\ pc' # "done" => seen' = <<>>
      /\ pc' = "idle" => promise' = "none"
      /\ pc' = "done" => \E s : seen' = <<s>>
  <2>1. CASE Call \/ Return
    BY <1>2, <2>1 DEF Call, Invoke, Return, GiveBack
  <2>4. CASE CreateContext \/ ParseParams
    <3>1. /\ seen = <<>> /\ pc' # "idle"
          /\ \/ pc' # "done" /\ seen' = seen
             \/ pc' = "done" /\ \E s : seen' = Append(seen, s)
      BY <1>2, <2>4 DEF CreateContext, ParseParams, See
    <3> QED
      BY <3>1
  <2>2. ASSUME NEW c \in context, AsyncWork(c) \/ Execute(c)
        PROVE  \/ pc' \notin {"idle", "done"} /\ seen' = <<>>
               \/ pc' = "done" /\ \E s : seen' = <<s>>
    <3>1. /\ seen = <<>> /\ pc' # "idle"
          /\ \/ pc' # "done" /\ seen' = seen
             \/ pc' = "done" /\ \E s : seen' = Append(seen, s)
      BY <1>2, <2>2 DEF AsyncWork, Execute, See
    <3> QED
      BY <3>1
  <2>3. ASSUME NEW c \in context, Complete(c)
        PROVE  pc' = "done" /\ \E s : seen' = <<s>>
    <3>1. pc' = "done" /\ seen = <<>>
      BY <1>2, <2>3 DEF Complete
    <3>2. \E s : seen' = Append(seen, s)
      BY <2>3 DEF Complete, See
    <3> QED
      BY <3>1, <3>2
  <2> QED
    BY <2>1, <2>2, <2>3, <2>4 DEF CallStep, ApiNext
<1>4. pc' \in Phases \ {"start", "open", "over", "check", "query"}
  BY <1>1 DEF Phases, ApiPcs
<1>5. via = "none" /\ NoDialog /\ NoSa
  BY <1>1 DEF DialogInv, NotStarted, Phases, ApiPcs
<1>6. via' = "none" /\ NoDialog' /\ NoSa'
  BY <1>1, <1>5 DEF NoDialog, NoSa, SA!Init, dialog, sa, service
<1> QED
  BY <1>3, <1>4, <1>6
     DEF DialogInv, NotStarted, NothingSeen, Once, Starting, Shown, Served, Ended

-----------------------------------------------------------------------------
(* What is done before a dialog is shown.                                   *)
LEMMA ChecksKeepDialogInv ==
    ASSUME DialogInv,
           \/ CallDialog \/ CMNapiSupportsCACertDialog \/ Check
           \/ TryOpenUkeyAuthDialogViaSa \/ OpenAuthDialogForUkeyProvider
    PROVE  DialogInv'
<1>1. pc \in {"idle", "check", "query"} /\ UNCHANGED <<dialog, sa>>
  BY DEF CallDialog, Invoke, CMNapiSupportsCACertDialog, Check, TryOpenUkeyAuthDialogViaSa,
         OpenAuthDialogForUkeyProvider
<1>2. /\ via = "none" /\ NoDialog /\ NoSa /\ seen = <<>> /\ promise = "none"
  BY <1>1 DEF DialogInv, NotStarted, NothingSeen, Phases
<1>3. NoDialog' /\ NoSa'
  BY <1>1, <1>2 DEF NoDialog, NoSa, SA!Init, dialog, sa, service
<1>4. NoSa' => queue' = <<>> /\ ukeyResult' = "none" /\ QueueIsShort'
  BY DEF NoSa, QueueIsShort
<1>5. CASE pc' \in {"check", "query"} /\ via' = "none" /\ seen' = <<>> /\ promise' = "none"
  BY <1>3, <1>5 DEF DialogInv, Phases, NotStarted, NothingSeen, Starting, Shown, Served, Ended
<1>6. CASE pc' = "start" /\ via' \in {"extension", "ability", "sa"} /\ seen' = <<>> /\ promise' = "pending"
  BY <1>3, <1>4, <1>6 DEF DialogInv, Phases, NotStarted, NothingSeen, Starting, Shown, Served, Ended
<1>7. CASE /\ pc' = "over" /\ via' = "none" /\ promise' \in {"none", "settled"}
           /\ \E s : seen' = <<s>>
  BY <1>3, <1>7 DEF DialogInv, Phases, NotStarted, NothingSeen, Once, Starting, Shown, Served, Ended
<1>8. CASE CallDialog \/ CMNapiSupportsCACertDialog
  BY <1>2, <1>5, <1>7, <1>8 DEF CallDialog, Invoke, CMNapiSupportsCACertDialog, See
<1>9. CASE Check
  <2>1. CASE Failing(Checks(call.op, call.argv, device)) = {}
    BY <1>2, <1>5, <1>6, <1>9, <2>1 DEF Check
  <2>2. CASE Failing(Checks(call.op, call.argv, device)) # {}
    BY <1>2, <1>7, <1>9, <2>2 DEF Check, Settle, Throw, See
  <2> QED
    BY <2>1, <2>2
<1>10. CASE TryOpenUkeyAuthDialogViaSa
  BY <1>2, <1>6, <1>10
     DEF TryOpenUkeyAuthDialogViaSa, DirectLaunchUkeyAuthDialog, StartUkeyPinAbility
<1>11. CASE OpenAuthDialogForUkeyProvider
  BY <1>2, <1>6, <1>11 DEF OpenAuthDialogForUkeyProvider
<1> QED
  BY <1>8, <1>9, <1>10, <1>11

LEMMA StartKeepsDialogInv ==
    ASSUME DialogInv, StartUIExtensionAbility \/ StartUIAbility
    PROVE  DialogInv'
<1>1. /\ pc = "start" /\ via \in {"extension", "ability"} /\ via' = via
      /\ UNCHANGED <<call, ends, alreadyCallback, uri, sa>>
  BY DEF StartUIExtensionAbility, StartUIAbility, dialog
<1>2. NoDialog /\ NoSa /\ seen = <<>> /\ promise = "pending"
  BY <1>1 DEF DialogInv, Starting, NothingSeen
<1>3. /\ NoSa' /\ ends' = <<>> /\ ends' \in Seq(EndType) /\ alreadyCallback' = FALSE
      /\ uri' \in {"empty", "uri"} /\ Telling' = {}
  BY <1>1, <1>2 DEF NoDialog, NoSa, SA!Init, sa, service, Telling
<1>4. \/ pc' = "open" /\ promise' = "pending" /\ seen' = <<>>
      \/ /\ pc' = "over" /\ promise' = "dropped"
         /\ \E s : seen' = <<s>> /\ s.how = "throw"
  <2>1. CASE pc' = "open"
    BY <1>2, <2>1 DEF StartUIExtensionAbility, StartUIAbility, Throw
  <2>2. ASSUME NEW err, Throw(err) PROVE \E s : seen' = <<s>> /\ s.how = "throw"
    <3>1. seen' = <<[how |-> "throw", err |-> err, value |-> "none"]>>
      BY <1>2, <2>2 DEF Throw, See
    <3> QED
      BY <3>1
  <2>3. CASE pc' # "open"
    BY <1>2, <2>2, <2>3 DEF StartUIExtensionAbility, StartUIAbility, Throw
  <2> QED
    BY <2>1, <2>3
<1>5. Dropped' \/ Unanswered'
  BY <1>3, <1>4 DEF Dropped, Unanswered
<1> QED
  BY <1>1, <1>3, <1>4, <1>5
     DEF DialogInv, Phases, NotStarted, NothingSeen, Starting, Shown, Served, Ended

-----------------------------------------------------------------------------
(* The events of a dialog that is shown from here.                          *)

\* An event is recorded; it answers when it is the first that does.
LEMMA EventKeepsDialogInv ==
    ASSUME DialogInv, via \in {"extension", "ability"}, pc' \in {"open", "over"},
           NEW kind \in {"release", "error", "result", "receive", "destroy"},
           NEW code \in EndCodes \cup {"0"}, NEW u \in {"empty", "uri"}, NEW v,
           End(kind, code, u), ProcessCallback(v) = ProcessCallback(u), uri' \in {"empty", "uri"},
           \/ /\ SetErrorCode(code, v)
              /\ kind # "destroy" \/ call.op = "openCertificateManagerDialog"
           \/ /\ UNCHANGED <<alreadyCallback, modal, promise, seen>>
              /\ kind = "destroy" /\ call.op # "openCertificateManagerDialog" /\ via = "extension"
    PROVE  DialogInv'
<1> PICK event : event = [kind |-> kind, code |-> code, uri |-> u]
  OBVIOUS
<1> PICK next : next = Len(ends) + 1
  OBVIOUS
<1>1. /\ pc = "open" /\ ends' = Append(ends, event) /\ ends \in Seq(EndType) /\ event \in EndType
      /\ UNCHANGED <<call, via, sa>> /\ NoSa
      /\ Unanswered \/ Answered
  BY DEF End, DialogInv, Shown, Dropped, EndType
<1>2. NoSa'
  BY <1>1 DEF NoSa, SA!Init, sa, service
<1>3. /\ ends' \in Seq(EndType) /\ DOMAIN ends' = DOMAIN ends \cup {next}
      /\ \A i \in DOMAIN ends : ends'[i] = ends[i] /\ i < next /\ i \in Nat
      /\ next \notin DOMAIN ends /\ ends'[next] = event /\ next \in Nat
  BY <1>1
<1>4. Telling' = Telling \cup {i \in {next} : kind # "destroy" \/ call.op = "openCertificateManagerDialog"}
  BY <1>1, <1>3 DEF Telling
<1>5. \A x : ProcessCallback(x)' = ProcessCallback(x)
  BY <1>1 DEF ProcessCallback
<1>6. Unanswered' \/ Answered'
  <2>1. CASE Answered
    <3>1. UNCHANGED <<alreadyCallback, promise, seen, modal>>
      BY <2>1 DEF Answered, SetErrorCode
    <3>2. PICK s : seen = <<s>> /\ FirstTells(s)
      BY <2>1 DEF Answered
    <3>3. Telling # {} /\ Telling \subseteq DOMAIN ends
      BY <2>1 DEF Answered, Telling
    <3>4. FirstTells(s)'
      <4> SUFFICES ASSUME NEW i \in Telling', \A j \in Telling' : i <= j
                   PROVE  /\ s.err = IF ends'[i].code = "0" THEN "none" ELSE DialogErrorCode(ends'[i].code)
                          /\ ends'[i].code = "0" => s.value = ProcessCallback(ends'[i].uri)
        BY <1>5 DEF FirstTells
      <4>1. i # next
        BY <1>3, <1>4, <3>3
      <4>2. i \in Telling /\ \A j \in Telling : i <= j
        BY <1>4, <4>1
      <4>3. ends'[i] = ends[i]
        BY <1>3, <3>3, <4>2
      <4> QED
        BY <3>2, <4>2, <4>3 DEF FirstTells
    <3> QED
      BY <1>4, <2>1, <3>1, <3>2, <3>4 DEF Answered
  <2>2. CASE Unanswered /\ UNCHANGED <<alreadyCallback, modal, promise, seen>>
    <3>1. kind = "destroy" /\ call.op # "openCertificateManagerDialog" /\ via = "extension"
      BY <2>2 DEF Unanswered, SetErrorCode
    <3> QED
      BY <1>1, <1>4, <2>2, <3>1 DEF Unanswered
  <2>3. CASE Unanswered /\ ~UNCHANGED <<alreadyCallback, modal, promise, seen>>
    <3>1. /\ SetErrorCode(code, v) /\ alreadyCallback = FALSE /\ seen = <<>>
          /\ kind # "destroy" \/ call.op = "openCertificateManagerDialog"
      BY <2>3 DEF Unanswered
    <3>2. Telling' = {next}
      BY <1>4, <2>3, <3>1 DEF Unanswered
    <3>3. alreadyCallback' = TRUE /\ modal' # "shown" /\ promise' = "settled"
      BY <3>1 DEF SetErrorCode, Settle
    <3>4. PICK s : /\ seen' = <<s>>
                   /\ s.err = IF code = "0" THEN "none" ELSE DialogErrorCode(code)
                   /\ code = "0" => s.value = ProcessCallback(v)
      <4>1. CASE code = "0"
        <5>1. seen' = <<[how |-> "promise", err |-> "none", value |-> ProcessCallback(v)]>>
          BY <3>1, <4>1 DEF SetErrorCode, Settle, See
        <5> QED
          BY <4>1, <5>1
      <4>2. CASE code # "0"
        <5>1. seen' = <<[how |-> "promise", err |-> DialogErrorCode(code), value |-> "undefined"]>>
          BY <3>1, <4>2 DEF SetErrorCode, Settle, See
        <5> QED
          BY <4>2, <5>1
      <4> QED
        BY <4>1, <4>2
    <3>5. FirstTells(s)'
      BY <1>3, <1>5, <3>2, <3>4 DEF FirstTells
    <3> QED
      BY <3>2, <3>3, <3>4, <3>5 DEF Answered
  <2> QED
    BY <1>1, <2>1, <2>2, <2>3
<1> QED
  BY <1>1, <1>2, <1>3, <1>6
     DEF DialogInv, Phases, NotStarted, NothingSeen, Starting, Shown, Served, Ended

LEMMA EventsKeepDialogInv ==
    ASSUME DialogInv,
           \/ \E code \in EndCodes : OnRelease(code) \/ OnError(code) \/ OnResult(code)
           \/ \E u \in {"empty", "uri"} : OnReceive(u)
           \/ OnDestroy
    PROVE  DialogInv'
<1>1. pc = "open" /\ via \in {"extension", "ability"}
  BY DEF OnRelease, OnError, OnResult, OnReceive, OnDestroy, End
<1>2. uri \in {"empty", "uri"}
  BY <1>1 DEF DialogInv, Shown
<1>3. ASSUME NEW code \in EndCodes, OnRelease(code) \/ OnError(code) \/ OnResult(code)
      PROVE  DialogInv'
  <2>1. \E kind \in {"release", "error", "result"} :
           End(kind, code, uri) /\ SetErrorCode(code, uri) /\ uri' = uri /\ pc' \in {"open", "over"}
    BY <1>1, <1>3 DEF OnRelease, OnError, OnResult
  <2> QED
    BY <1>1, <1>2, <2>1, EventKeepsDialogInv
<1>4. ASSUME NEW u \in {"empty", "uri"}, OnReceive(u) PROVE DialogInv'
  <2>1. ProcessCallback(uri') = ProcessCallback(u) /\ uri' \in {"empty", "uri"}
    BY <1>2, <1>4 DEF OnReceive, ProcessCallback
  <2>2. End("receive", "0", u) /\ SetErrorCode("0", uri') /\ pc' = "open"
    BY <1>1, <1>4 DEF OnReceive
  <2> QED
    BY <1>1, <2>1, <2>2, EventKeepsDialogInv
<1>5. ASSUME OnDestroy PROVE DialogInv'
  BY <1>1, <1>2, <1>5, EventKeepsDialogInv DEF OnDestroy
<1> QED
  BY <1>3, <1>4, <1>5

-----------------------------------------------------------------------------
(* A dialog the service shows, and the end of a call.                       *)
\* The call itself, which returns the promise or rejects it.
LEMMA CallKeepsServed ==
    ASSUME DialogInv, CmOpenUkeyAuthDialog
    PROVE  Served'
<1>1. /\ pc = "start" /\ via = "sa" /\ pc' = "open" /\ queue' = queue
      /\ seen = <<>> /\ promise = "pending" /\ QueueIsShort
      /\ returned = [c \in {"dialog"} |-> "no"] /\ answered \subseteq started
  BY DEF CmOpenUkeyAuthDialog, DialogInv, Starting, NothingSeen, NoSa
<1>2. CASE SA!Accept("dialog") /\ UNCHANGED <<promise, seen, ukeyResult>>
  <2>1. returned'["dialog"] = "accepted" /\ answered' = answered
    BY <1>1, <1>2 DEF SA!Accept, SA!Return
  <2> QED
    BY <1>1, <1>2, <2>1 DEF CmOpenUkeyAuthDialog, Served, ResultAwaited, QueueIsShort
<1>3. ASSUME NEW code \in EndCodes \ {"0"}, CmOpenUkeyAuthDialogRefused(code)
      PROVE  Served'
  <2>1. /\ promise' = "settled" /\ Once' /\ ukeyResult' = "released"
        /\ UNCHANGED <<started, answered>>
    BY <1>1, <1>3
       DEF CmOpenUkeyAuthDialogRefused, SettleSaResult, Settle, See, Once, SA!Refuse, SA!Fail, SA!Return
  <2>2. CASE SA!Refuse("dialog")
    <3>1. returned'["dialog"] = "refused" /\ "dialog" \notin started
      BY <1>1, <2>2 DEF SA!Refuse, SA!Return
    <3> QED
      BY <1>1, <2>1, <3>1 DEF QueueIsShort, Served, CallRefused, Released
  <2>3. CASE SA!Fail("dialog")
    <3>1. returned'["dialog"] = "failed"
      BY <1>1, <2>3 DEF SA!Fail, SA!Return
    <3> QED
      <4>1. QueueIsShort'
        BY <1>1, <2>1 DEF QueueIsShort
      <4> QED
        BY <1>1, <2>1, <3>1, <4>1 DEF Served, CallFailed, Released
  <2> QED
    BY <1>3, <2>2, <2>3 DEF CmOpenUkeyAuthDialogRefused
<1> QED
  BY <1>2, <1>3 DEF CmOpenUkeyAuthDialog

\* A result on its way, or arriving: a call that was refused has none, one that
\* was answered has no other.
LEMMA ResultKeepsServed ==
    ASSUME DialogInv, via = "sa", pc \in {"open", "over"},
           ResultIsOnItsWay \/ \E code \in EndCodes : UkeyAuthDialogResultCallback(code)
    PROVE  Served'
<1>1. CASE ResultIsOnItsWay
  BY <1>1
     DEF ResultIsOnItsWay, SA!Start, DialogInv, Served, ContextNotMade, NoSa, ResultAwaited, Released,
         ResultTold, CallRefused, CallFailed, LeftByJavaScript, Once, Twice, QueueIsShort
<1>2. ASSUME NEW code \in EndCodes, UkeyAuthDialogResultCallback(code) PROVE Served'
  <2>1. /\ UNCHANGED <<pc, via, promise, seen, returned, started, lost>>
        /\ "dialog" \in started \ answered /\ "dialog" \in answered'
    BY <1>2 DEF UkeyAuthDialogResultCallback, SA!Answer
  <2>2. ~ContextNotMade /\ ~ResultTold /\ ~CallRefused
    BY <2>1 DEF ContextNotMade, NoSa, SA!Init, ResultTold, CallRefused
  <2>3. CASE ResultAwaited
    <3>1. queue' = Append(queue, code) /\ ukeyResult' = ukeyResult /\ queue = <<>>
      BY <1>2, <2>1, <2>3 DEF UkeyAuthDialogResultCallback, ResultAwaited, QueueIsShort
    <3>2. queue' = <<code>>
      BY <3>1
    <3> QED
      BY <2>1, <2>3, <3>1, <3>2 DEF Served, ResultAwaited, QueueIsShort
  <2>4. CASE CallFailed
    <3>1. Once /\ queue = <<>>
      BY <2>1, <2>4 DEF CallFailed, QueueIsShort
    <3>2. CASE pc = "open"
      <4>1. queue' = Append(queue, code) /\ ukeyResult' = ukeyResult
        BY <1>2, <2>4, <3>2 DEF UkeyAuthDialogResultCallback, CallFailed, Released
      <4>2. queue' = <<code>>
        BY <3>1, <4>1
      <4> QED
        BY <2>1, <2>4, <3>1, <3>2, <4>1, <4>2 DEF Served, CallFailed, Released, QueueIsShort, Once
    <3>3. CASE pc = "over"
      BY <1>2, <2>1, <2>4, <3>1, <3>3
         DEF UkeyAuthDialogResultCallback, Served, CallFailed, Released, QueueIsShort, Once
    <3> QED
      BY <3>2, <3>3
  <2>5. CASE LeftByJavaScript
    BY <1>2, <2>1, <2>5
       DEF UkeyAuthDialogResultCallback, Served, LeftByJavaScript, Once, Twice
  <2> QED
    BY <2>2, <2>3, <2>4, <2>5 DEF DialogInv, Served
<1> QED
  BY <1>1, <1>2

LEMMA AppendMakesTwo ==
    ASSUME NEW one, NEW other, NEW s, s = <<one>>
    PROVE  Len(Append(s, other)) = 2
<1>1. s \in Seq({one, other}) /\ other \in {one, other} /\ Len(s) = 1
  OBVIOUS
<1>2. Len(Append(s, other)) = Len(s) + 1
  BY <1>1
<1> QED
  BY <1>1, <1>2

\* What JavaScript runs: a result that was queued settles the promise, for the
\* second time only when the call had failed.
LEMMA JavaScriptKeepsServed ==
    ASSUME DialogInv, via = "sa", via' = via, pc \in {"open", "over"},
           UvTsfnCallback \/ UvTsfnFinalize \/ JavaScriptIsGone
    PROVE  Served'
<1>0. pc = "open" /\ (ResultAwaited \/ ResultTold \/ CallRefused \/ CallFailed)
  BY DEF UvTsfnCallback, UvTsfnFinalize, JavaScriptIsGone, DialogInv, Served, ContextNotMade,
         LeftByJavaScript
<1>1. CASE UvTsfnCallback
  <2>1. /\ UNCHANGED <<pc, returned, answered>> /\ ukeyResult' = "released" /\ promise' = "settled"
        /\ queue # <<>> /\ queue' = Tail(queue)
    BY <1>1 DEF UvTsfnCallback, SettleSaResult, Settle, service
  <2>2. ~ResultTold /\ ~CallRefused
    BY <2>1 DEF ResultTold, CallRefused
  <2>3. /\ queue' = <<>> /\ "dialog" \in answered
    <3>1. QueueIsShort
      BY <1>0, <2>2 DEF ResultAwaited, CallFailed
    <3> QED
      BY <2>1, <3>1 DEF QueueIsShort
  <2>4. PICK s : seen' = Append(seen, s)
    BY <1>1 DEF UvTsfnCallback, SettleSaResult, Settle, See
  <2>5. CASE ResultAwaited
    <3>1. seen' = <<s>>
      BY <2>4, <2>5 DEF ResultAwaited
    <3> QED
      BY <1>0, <2>1, <2>3, <2>5, <3>1 DEF Served, ResultAwaited, ResultTold, Released, Once
  <2>6. CASE CallFailed
    <3>1. PICK first : seen = <<first>>
      BY <2>1, <2>6 DEF CallFailed, Once
    <3>2. Twice'
      BY <2>4, <3>1, AppendMakesTwo DEF Twice
    <3> QED
      BY <1>0, <2>1, <2>3, <2>6, <3>2 DEF Served, CallFailed, Released, QueueIsShort
  <2> QED
    BY <1>0, <2>2, <2>5, <2>6
<1>2. CASE UvTsfnFinalize
  <2>1. /\ UNCHANGED <<promise, returned, started, answered, lost, queue, seen>> /\ queue = <<>>
        /\ ukeyResult = "released" /\ ukeyResult' = "freed" /\ pc' = "over"
    BY <1>2 DEF UvTsfnFinalize, service
  <2>2. ~ResultAwaited
    BY <2>1 DEF ResultAwaited
  <2> QED
    BY <1>0, <2>1, <2>2
       DEF Served, ResultTold, CallRefused, CallFailed, Released, QueueIsShort, Once, Twice
<1>3. CASE JavaScriptIsGone
  <2>1. /\ UNCHANGED <<promise, seen, returned>> /\ "dialog" \in lost'
        /\ queue' = <<>> /\ ukeyResult' = "freed" /\ pc' = "over"
    BY <1>3 DEF JavaScriptIsGone, SA!Lose
  <2> QED
    BY <1>0, <2>1
       DEF Served, LeftByJavaScript, ResultAwaited, ResultTold, CallRefused, CallFailed, Once, Twice
<1> QED
  BY <1>1, <1>2, <1>3

LEMMA ServiceKeepsDialogInv ==
    ASSUME DialogInv,
           \/ CreateUkeyResultTsfn \/ CmOpenUkeyAuthDialog \/ ResultIsOnItsWay
           \/ \E code \in EndCodes : UkeyAuthDialogResultCallback(code)
           \/ UvTsfnCallback \/ UvTsfnFinalize \/ JavaScriptIsGone
    PROVE  DialogInv'
<1> USE DEF Released
<1>1. /\ pc \in {"start", "open", "over"} /\ via = "sa" /\ via' = via
      /\ pc = "start" => NoDialog
  <2>1. NoSa => ~(ResultIsOnItsWay \/ (\E code \in EndCodes : UkeyAuthDialogResultCallback(code)) \/ UvTsfnCallback)
    BY DEF NoSa, SA!Init, ResultIsOnItsWay, UkeyAuthDialogResultCallback, SA!Answer, UvTsfnCallback
  <2>2. NoSa => ~UvTsfnFinalize
    BY DEF NoSa, UvTsfnFinalize
  <2>3. ~NoSa => pc \in {"start", "open", "over"} /\ via = "sa"
    BY DEF DialogInv, NotStarted, Starting, Shown, Ended, Phases
  <2> QED
    BY <2>1, <2>2, <2>3
       DEF DialogInv, Starting, CreateUkeyResultTsfn, CmOpenUkeyAuthDialog, ResultIsOnItsWay,
           UkeyAuthDialogResultCallback, UvTsfnCallback, UvTsfnFinalize, JavaScriptIsGone
<1>2. /\ pc = "start" => seen = <<>> /\ promise = "pending"
      /\ dialog' = dialog /\ (NoDialog => NoDialog')
  BY <1>1
     DEF DialogInv, NothingSeen, Starting, NoDialog, dialog, CreateUkeyResultTsfn,
         CmOpenUkeyAuthDialog, ResultIsOnItsWay, UkeyAuthDialogResultCallback, UvTsfnCallback,
         UvTsfnFinalize, JavaScriptIsGone
<1>3. \A code : SettleSaResult(code) =>
        /\ promise' = "settled"
        /\ \E s : seen' = Append(seen, s)
  BY DEF SettleSaResult, Settle, See
<1>4. CASE pc' = "start"
  <2> SUFFICES Starting'
    BY <1>1, <1>2, <1>4 DEF DialogInv, Phases, NotStarted, NothingSeen, Shown, Served, Ended,
       CreateUkeyResultTsfn, CmOpenUkeyAuthDialog, ResultIsOnItsWay, UkeyAuthDialogResultCallback,
       UvTsfnCallback, UvTsfnFinalize, JavaScriptIsGone
  <2>1. pc = "start" /\ UNCHANGED <<promise, returned>> /\ NoDialog'
    BY <1>1, <1>2, <1>4
       DEF CreateUkeyResultTsfn, CmOpenUkeyAuthDialog, ResultIsOnItsWay, UkeyAuthDialogResultCallback,
           UvTsfnCallback, UvTsfnFinalize, JavaScriptIsGone, SA!Start, SA!Answer, service
  <2>2. CASE CreateUkeyResultTsfn
    BY <1>1, <1>4, <2>1, <2>2
       DEF DialogInv, Starting, CreateUkeyResultTsfn, NoSa, SA!Init, QueueIsShort, service
  <2>3. CASE ResultIsOnItsWay
    BY <1>1, <2>1, <2>3 DEF DialogInv, Starting, ResultIsOnItsWay, SA!Start, NoSa, QueueIsShort
  <2>4. ASSUME NEW code \in EndCodes, UkeyAuthDialogResultCallback(code) PROVE Starting'
    <3>1. /\ ~NoSa /\ ukeyResult' = ukeyResult /\ queue' = Append(queue, code)
          /\ "dialog" \notin answered /\ "dialog" \in answered' /\ answered' \subseteq started'
      BY <1>1, <2>1, <2>4
         DEF DialogInv, Starting, UkeyAuthDialogResultCallback, SA!Answer, NoSa, SA!Init
    <3>2. queue' = <<code>>
      <4>1. queue = <<>>
        BY <1>1, <2>1, <3>1 DEF DialogInv, Starting, QueueIsShort
      <4> QED
        BY <3>1, <4>1
    <3> QED
      BY <1>1, <2>1, <3>1, <3>2 DEF DialogInv, Starting, QueueIsShort
  <2> QED
    BY <1>4, <2>1, <2>2, <2>3, <2>4
       DEF CmOpenUkeyAuthDialog, UvTsfnCallback, UvTsfnFinalize, JavaScriptIsGone
<1>5. CASE pc' # "start"
  <2>1. pc' \in {"open", "over"} /\ (pc = "over" => pc' = "over")
    BY <1>1, <1>5
       DEF CreateUkeyResultTsfn, CmOpenUkeyAuthDialog, ResultIsOnItsWay, UkeyAuthDialogResultCallback,
           UvTsfnCallback, UvTsfnFinalize, JavaScriptIsGone
  <2> SUFFICES Served'
    BY <1>1, <1>2, <1>5, <2>1 DEF DialogInv, Phases, NotStarted, NothingSeen, Starting, Shown, Ended
  <2>2. CASE CreateUkeyResultTsfn
    <3>1. pc = "start" /\ pc' = "over" /\ NoSa /\ NoSa'
      BY <1>1, <1>5, <2>2
         DEF DialogInv, Starting, CreateUkeyResultTsfn, NoSa, SA!Init, service
    <3>2. promise' = "settled" /\ Once'
      BY <1>2, <2>2, <3>1 DEF CreateUkeyResultTsfn, Settle, See, Once
    <3> QED
      BY <3>1, <3>2 DEF Served, ContextNotMade
  <2>3. CASE CmOpenUkeyAuthDialog
    BY <1>1, <1>2, <1>3, <2>3, CallKeepsServed
  <2>4. CASE ResultIsOnItsWay
    BY <1>1, <1>5, <2>1, <2>4, ResultKeepsServed DEF ResultIsOnItsWay
  <2>5. ASSUME NEW code \in EndCodes, UkeyAuthDialogResultCallback(code) PROVE Served'
    BY <1>1, <1>5, <2>1, <2>5, ResultKeepsServed DEF UkeyAuthDialogResultCallback
  <2>6. CASE UvTsfnCallback \/ UvTsfnFinalize \/ JavaScriptIsGone
    <3>1. pc \in {"open", "over"}
      BY <2>6 DEF UvTsfnCallback, UvTsfnFinalize, JavaScriptIsGone
    <3> QED
      BY <1>1, <2>6, <3>1, JavaScriptKeepsServed
  <2> QED
    BY <2>2, <2>3, <2>4, <2>5, <2>6
<1> QED
  BY <1>4, <1>5

LEMMA ReturnKeepsDialogInv ==
    ASSUME DialogInv, ReturnFromDialog
    PROVE  DialogInv'
<1>1. pc' = "idle" /\ promise' = "none" /\ seen' = <<>> /\ via' = "none" /\ NoDialog' /\ NoSa'
  BY DEF ReturnFromDialog, GiveBack, NoDialog, NoSa, SA!Init
<1> QED
  BY <1>1 DEF DialogInv, Phases, NotStarted, NothingSeen, Starting, Shown, Served, Ended

LEMMA DialogInvIsInvariant == Spec => []DialogInv
<1>1. DialogInv /\ [Next]_vars => DialogInv'
  <2> SUFFICES ASSUME DialogInv, [Next]_vars PROVE DialogInv'
    OBVIOUS
  <2>1. CASE CallStep
    BY <2>1, CallStepKeepsDialogInv
  <2>2. CASE DialogStep
    BY <2>2, ChecksKeepDialogInv, StartKeepsDialogInv, EventsKeepDialogInv, ServiceKeepsDialogInv,
       ReturnKeepsDialogInv
       DEF DialogStep, DialogNext
  <2>3. CASE UNCHANGED vars
    BY <2>3
       DEF vars, sa, dialog, DialogInv, NotStarted, NothingSeen, Once, Starting, Shown, Served,
           Ended, NoDialog, NoSa, SA!Init, QueueIsShort, Dropped, Unanswered, Answered, FirstTells,
           Telling, ProcessCallback, service, ContextNotMade, ResultAwaited, Released, ResultTold,
           CallRefused, Twice, CallFailed, LeftByJavaScript
  <2> QED
    BY <2>1, <2>2, <2>3 DEF Next
<1> QED
  BY <1>1, DialogInvHoldsAtFirst, PTL DEF Spec, vars

\* Of all that a dialog shown from here says, the first word that answers is the
\* answer, for every order and number of events: alreadyCallback is set with it
\* and never reset, so that neither the error nor the uri is overwritten before
\* the promise is settled (cm_napi_dialog_callback.cpp:42-124).
THEOREM FirstEventAnswers == Spec => []FirstEndAnswers
  BY DialogInvIsInvariant, DialogInvIsEnough, PTL

\* A dialog call that is over has settled its promise or given none, freed its
\* queue and its result context, wherever it failed: before the promise, before
\* the dialog was shown, in the service, or while the result was on its way to
\* JavaScript (cm_napi_open_ukey_auth_dialog.cpp:148-459).  Two ends leave it
\* without an answer, and a death of the service under the call may settle it
\* twice or use what was freed; every other call is answered once.
THEOREM NobodyIsLeftWaiting == Spec => []NobodyWaits
  BY DialogInvIsInvariant, DialogInvIsEnough, PTL

-----------------------------------------------------------------------------
(* How a function answers is decided by its name and by whether one of its  *)
(* arguments is a callback.                                                 *)
GivesCallback(argv) == \E i \in DOMAIN argv : Type[argv[i]] = "function"
AnyArguments == {"getUkeyCertificateList", "getUkeyCertificate", "getCertificateStorePath",
                 "uninstallAllUserTrustedCertificate"}
SyncApis == {"installUserTrustedCertificateSync", "uninstallUserTrustedCertificateSync",
             "getCertificateStorePath"}
PromiseApis == {"getPrivateCertificates", "getUkeyCertificateList", "getUkeyCertificate",
                "uninstallAllUserTrustedCertificate"}

\* The entries of an API that never calls back: it answers by the promise, and
\* a callback is no argument it understands.
ByPromise(entries, argv) == \A c \in entries : c.promise = TRUE /\ c.sync = FALSE /\ ~GivesCallback(argv)
BySync(entries, argv) == \A c \in entries : c.promise = FALSE /\ c.sync = TRUE /\ ~GivesCallback(argv)
ByChoice(entries, argv) == \A c \in entries : c.promise = ~GivesCallback(argv) /\ c.sync = FALSE

ChosenBy(c, op, argv) ==
    /\ c.sync = (op \in SyncApis)
    /\ c.promise = (op \notin SyncApis /\ (op \in PromiseApis \/ ~GivesCallback(argv)))
    /\ op \in SyncApis \ AnyArguments => ~GivesCallback(argv)

LEMMA WiderArity ==
    ASSUME NEW argv, NEW k \in Nat, NEW m \in Nat, NEW n \in Nat, m <= n, Arity(argv, k, m)
    PROVE  Arity(argv, k, n)
  BY DEF Arity

LEMMA NoCallbackAmong ==
    ASSUME NEW argv \in Seq(DOMAIN Type), NEW k \in Nat, NEW n \in Nat, Arity(argv, k, n),
           \A i \in 1..n : Type[Arg(argv, i)] # "function"
    PROVE  ~GivesCallback(argv)
  BY DEF GivesCallback, Arg, Arity

\* The last argument that an API may be given decides.
LEMMA LastIsCallback ==
    ASSUME NEW argv \in Seq(DOMAIN Type), NEW k \in Nat, NEW n \in Nat \ {0}, Arity(argv, k, n),
           \A i \in 1..n - 1 : Type[Arg(argv, i)] # "function",
           NEW f \in GetCallback(Arg(argv, n))
    PROVE  (f = "none") = ~GivesCallback(argv)
<1>1. CASE Type[Arg(argv, n)] = "function"
  <2>1. n \in DOMAIN argv /\ Arg(argv, n) = argv[n]
    BY <1>1, ValuesAssumption DEF Arg
  <2>2. f = argv[n] /\ f # "none"
    BY <1>1, <2>1, ValuesAssumption DEF GetCallback, HasProps
  <2>3. GivesCallback(argv)
    BY <1>1, <2>1 DEF GivesCallback
  <2> QED
    BY <2>2, <2>3
<1>2. CASE Type[Arg(argv, n)] # "function"
  <2>1. f = "none"
    BY <1>2 DEF GetCallback
  <2>2. \A i \in 1..n : Type[Arg(argv, i)] # "function"
    BY <1>2
  <2>3. ~GivesCallback(argv)
    BY <2>2, NoCallbackAmong
  <2> QED
    BY <2>1, <2>3
<1> QED
  BY <1>1, <1>2

\* What a parser accepts is no function.
LEMMA ParsedIsNoFunction ==
    ASSUME NEW v
    PROVE  /\ \A x \in GetUint8Array(v) : x = v /\ Type[v] # "function"
           /\ \A x \in ParseStringOrEmpty(v) : x = v /\ Type[v] # "function"
           /\ \A x \in ParseString(v) : x = v /\ Type[v] # "function"
           /\ \A x \in ParsePasswd(v) : x = v /\ Type[v] # "function"
           /\ \A x \in ParseUint32(v) : x = v /\ Type[v] # "function"
           /\ \A x \in ParseBoolean(v) : x = v /\ Type[v] # "function"
           /\ \A names : \A x \in OneOf(v, names) : x = v /\ Type[v] # "function"
           /\ IsObject(v) => Type[v] # "function"
  BY DEF GetUint8Array, ParseStringOrEmpty, ParseString, ParsePasswd, ParseUint32, ParseBoolean, OneOf,
         IsObject

-----------------------------------------------------------------------------
(* Each function of the module.                                             *)
LEMMA InstallAppCertAnswers ==
    ASSUME NEW argv \in Seq(DOMAIN Type), NEW store
    PROVE  /\ store = Private => ByChoice(CMNapiInstallAppCertCommon(argv, store), argv)
           /\ store # Private => ByPromise(CMNapiInstallAppCertCommon(argv, store), argv)
<1>1. ASSUME NEW p \in InstallAppCertParseParams(argv, store), store = Private
      PROVE  (p.cb = "none") = ~GivesCallback(argv)
  <2>1. PICK last \in GetLevelOrCallback(Arg(argv, 4)) : p.cb = last.cb
    BY <1>1 DEF InstallAppCertParseParams
  <2>2. /\ Arity(argv, 3, 4) /\ GetUint8Array(Arg(argv, 1)) # {} /\ ParsePasswd(Arg(argv, 2)) # {}
        /\ ParseString(Arg(argv, 3)) # {}
    BY <1>1 DEF InstallAppCertParseParams
  <2>3. \A i \in 1..3 : Type[Arg(argv, i)] # "function"
    BY <2>2, ParsedIsNoFunction
  <2>4. CASE Type[Arg(argv, 4)] = "number"
    <3>1. last.cb = "none"
      BY <2>1, <2>4 DEF GetLevelOrCallback
    <3>2. \A i \in 1..4 : Type[Arg(argv, i)] # "function"
      BY <2>3, <2>4
    <3> QED
      BY <2>1, <2>2, <3>1, <3>2, NoCallbackAmong
  <2>5. CASE Type[Arg(argv, 4)] # "number"
    <3>1. last.cb \in GetCallback(Arg(argv, 4))
      BY <2>1, <2>5 DEF GetLevelOrCallback, OneOf, ParseUint32
    <3> QED
      BY <2>1, <2>2, <2>3, <3>1, LastIsCallback
  <2> QED
    BY <2>4, <2>5
<1>2. ASSUME NEW p \in InstallAppCertParseParams(argv, store), store # Private
      PROVE  ~GivesCallback(argv)
  <2>1. Arity(argv, 2, 2) /\ GetUint8Array(Arg(argv, 1)) # {} /\ ParsePasswd(Arg(argv, 2)) # {}
    BY <1>2 DEF InstallAppCertParseParams
  <2>2. \A i \in 1..2 : Type[Arg(argv, i)] # "function"
    BY <2>1, ParsedIsNoFunction
  <2> QED
    BY <2>1, <2>2, NoCallbackAmong
<1>3. CASE store = Private
  BY <1>1, <1>3
     DEF Entry, Work, CMNapiInstallAppCertCommon, InstallAppCertAsyncWork, ByChoice
<1>4. CASE store # Private
  <2>1. \A p : InstallAppCertAsyncWork(p, store).promise = TRUE /\ InstallAppCertAsyncWork(p, store).sync = FALSE
    BY <1>4 DEF InstallAppCertAsyncWork, Work
  <2> QED
    BY <1>2, <1>4, <2>1 DEF Entry, CMNapiInstallAppCertCommon, ByPromise
<1> QED
  BY <1>3, <1>4

\* One uri and, for the private store, a callback: two functions share it.
LEMMA UriAndCallbackChoose ==
    ASSUME NEW argv \in Seq(DOMAIN Type), NEW store, NEW p \in UriAndCallback(argv, store)
    PROVE  (p.cb = "none") = ~GivesCallback(argv)
<1>1. /\ Arity(argv, 1, IF store = Private THEN 2 ELSE 1)
      /\ ParseString(Arg(argv, 1)) # {} /\ p.cb \in GetCallback(Arg(argv, 2))
  BY DEF UriAndCallback
<1>3. Arity(argv, 1, 2)
  BY <1>1, WiderArity
<1>2. \A i \in 1..2 - 1 : Type[Arg(argv, i)] # "function"
  BY <1>1, ParsedIsNoFunction
<1> QED
  BY <1>1, <1>2, <1>3, LastIsCallback

LEMMA UriAnswers ==
    ASSUME NEW argv \in Seq(DOMAIN Type), NEW store
    PROVE  /\ ByChoice(CMNapiUninstallAppCertCommon(argv, store), argv)
           /\ ByChoice(CMNapiGetAppCertInfoCommon(argv, store), argv)
  BY UriAndCallbackChoose
     DEF Entry, Work, CMNapiUninstallAppCertCommon, UninstallAppCertParseParams, UninstallAppCertAsyncWork,
         CMNapiGetAppCertInfoCommon, GetAppCertInfoParseParams, GetAppCertInfoAsyncWork, ByChoice

LEMMA GetAppCertListAnswers ==
    ASSUME NEW argv \in Seq(DOMAIN Type), NEW store
    PROVE  /\ ByChoice(CMNapiGetAppCertListCommon(argv, store), argv)
           /\ \A c \in CMNapiGetCallingAppCertListCommon(argv, store) : c.promise = TRUE /\ c.sync = FALSE
<1>1. ASSUME NEW p \in GetAppCertListParseParams(argv, store)
      PROVE  (p.cb = "none") = ~GivesCallback(argv)
  <2>1. Arity(argv, 0, IF store = Private THEN 1 ELSE 0) /\ p.cb \in GetCallback(Arg(argv, 1))
    BY <1>1 DEF GetAppCertListParseParams
  <2>2. Arity(argv, 0, 1)
    BY <2>1, WiderArity
  <2> QED
    BY <2>1, <2>2, LastIsCallback
<1> QED
  BY <1>1
     DEF Entry, Work, CMNapiGetAppCertListCommon, GetAppCertListAsyncWork, CMNapiGetCallingAppCertListCommon,
         GetCallingAppCertListAsyncWork, ByChoice

LEMMA UninstallAllAnswers ==
    ASSUME NEW argv \in Seq(DOMAIN Type)
    PROVE  ByPromise(CMNapiUninstallAllAppCert(argv), argv)
<1>1. ASSUME NEW p \in UninstallAllAppCertParseParams(argv) PROVE ~GivesCallback(argv)
  BY <1>1 DEF UninstallAllAppCertParseParams, Arity, GivesCallback
<1> QED
  BY <1>1 DEF Entry, Work, CMNapiUninstallAllAppCert, ByPromise

LEMMA ListByUidAnswers ==
    ASSUME NEW argv \in Seq(DOMAIN Type), NEW store
    PROVE  ByPromise(CMNapiGetAppCertListByUidCommon(argv, store), argv)
<1>1. ASSUME NEW p \in GetAppCertListByUidParseParams(argv) PROVE ~GivesCallback(argv)
  <2>1. Arity(argv, 1, 1) /\ ParseUint32(Arg(argv, 1)) # {}
    BY <1>1 DEF GetAppCertListByUidParseParams
  <2>2. \A i \in 1..1 : Type[Arg(argv, i)] # "function"
    BY <2>1, ParsedIsNoFunction
  <2> QED
    BY <2>1, <2>2, NoCallbackAmong
<1> QED
  BY <1>1 DEF Entry, Work, CMNapiGetAppCertListByUidCommon, ByPromise

LEMMA SetCertStatusAnswers ==
    ASSUME NEW argv \in Seq(DOMAIN Type)
    PROVE  ByPromise(CMNapiSetCertStatus(argv), argv)
<1>1. ASSUME NEW p \in SetCertStatusParseParams(argv) PROVE ~GivesCallback(argv)
  <2>1. /\ Arity(argv, 3, 3) /\ ParseString(Arg(argv, 1)) # {} /\ ParseBoolean(Arg(argv, 3)) # {}
        /\ OneOf(Arg(argv, 2), {"CM_CA_CERT_USER"}) # {}
    BY <1>1 DEF SetCertStatusParseParams
  <2>2. \A i \in 1..3 : Type[Arg(argv, i)] # "function"
    BY <2>1, ParsedIsNoFunction
  <2> QED
    BY <2>1, <2>2, NoCallbackAmong
<1> QED
  BY <1>1 DEF Entry, Work, CMNapiSetCertStatus, ByPromise

LEMMA GetCertInfoAnswers ==
    ASSUME NEW argv \in Seq(DOMAIN Type), NEW store
    PROVE  ByPromise(CMNapiGetCertInfo(argv, store), argv)
<1>1. ASSUME NEW p \in GetCertInfoParseParams(argv) PROVE ~GivesCallback(argv)
  <2>1. Arity(argv, 1, 1) /\ ParseString(Arg(argv, 1)) # {}
    BY <1>1 DEF GetCertInfoParseParams
  <2>2. \A i \in 1..1 : Type[Arg(argv, i)] # "function"
    BY <2>1, ParsedIsNoFunction
  <2> QED
    BY <2>1, <2>2, NoCallbackAmong
<1> QED
  BY <1>1 DEF Entry, Work, CMNapiGetCertInfo, ByPromise

LEMMA GetCertListAnswers ==
    ASSUME NEW argv \in Seq(DOMAIN Type), NEW store
    PROVE  ByPromise(CMNapiGetCertList(argv, store), argv)
<1>1. ASSUME NEW p \in GetCertListParseParams(argv, store) PROVE ~GivesCallback(argv)
  <2>1. CASE Len(argv) = 0
    BY <2>1 DEF GivesCallback
  <2>2. CASE Len(argv) # 0
    <3>1. Len(argv) = 1 /\ OneOf(argv[1], IsValidCertScope) # {}
      BY <1>1, <2>2 DEF GetCertListParseParams
    <3> QED
      BY <3>1, ParsedIsNoFunction DEF GivesCallback
  <2> QED
    BY <2>1, <2>2
<1> QED
  BY <1>1 DEF Entry, Work, CMNapiGetCertList, ByPromise

LEMMA InstallUserTrustedCertAnswers ==
    ASSUME NEW argv \in Seq(DOMAIN Type)
    PROVE  ByPromise(CMNapiInstallUserTrustedCert(argv), argv)
<1>1. ASSUME NEW p \in ParseInstallUserCertParams(argv) PROVE ~GivesCallback(argv)
  <2>1. Len(argv) = 1 /\ IsObject(argv[1])
    BY <1>1 DEF ParseInstallUserCertParams, Arity
  <2> QED
    BY <2>1, ParsedIsNoFunction DEF GivesCallback
<1> QED
  BY <1>1 DEF Entry, Work, CMNapiInstallUserTrustedCert, InstallUserCertAsyncWork, ByPromise

LEMMA InstallUserCertSyncAnswers ==
    ASSUME NEW argv \in Seq(DOMAIN Type)
    PROVE  BySync(CMNapiInstallUserTrustedCertSync(argv), argv)
<1>1. ASSUME NEW p \in ParseInstallUserCertSyncParams(argv) PROVE ~GivesCallback(argv)
  <2>1. Arity(argv, 2, 2) /\ GetUint8Array(Arg(argv, 1)) # {} /\ ParseUint32(Arg(argv, 2)) # {}
    BY <1>1 DEF ParseInstallUserCertSyncParams
  <2>2. \A i \in 1..2 : Type[Arg(argv, i)] # "function"
    BY <2>1, ParsedIsNoFunction
  <2> QED
    BY <2>1, <2>2, NoCallbackAmong
<1> QED
  BY <1>1 DEF Entry, Work, CMNapiInstallUserTrustedCertSync, Sync, BySync

LEMMA UninstallUserCertSyncAnswers ==
    ASSUME NEW argv \in Seq(DOMAIN Type)
    PROVE  BySync(CMNapiUninstallUserCertSync(argv), argv)
<1>1. ASSUME NEW p \in ParseUninstallUserCertSyncParams(argv) PROVE ~GivesCallback(argv)
  <2>1. Arity(argv, 1, 1) /\ ParseString(Arg(argv, 1)) # {}
    BY <1>1 DEF ParseUninstallUserCertSyncParams, GetCertInfoParseParams
  <2>2. \A i \in 1..1 : Type[Arg(argv, i)] # "function"
    BY <2>1, ParsedIsNoFunction
  <2> QED
    BY <2>1, <2>2, NoCallbackAmong
<1>2. Sync.promise = FALSE /\ Sync.sync = TRUE
  BY DEF Sync
<1>3. ASSUME NEW c \in CMNapiUninstallUserCertSync(argv)
      PROVE  c.promise = FALSE /\ c.sync = TRUE /\ ~GivesCallback(argv)
  <2>1. PICK p \in ParseUninstallUserCertSyncParams(argv) :
           c = Entry(p, Sdk("CmUninstallUserTrustedCert", [certUri |-> p.certUri]),
                     Gives("undefined", "undefined"), Sync)
    BY <1>3 DEF CMNapiUninstallUserCertSync
  <2> QED
    BY <1>1, <1>2, <2>1 DEF Entry
<1> QED
  BY <1>3 DEF BySync

LEMMA GrantAnswers ==
    ASSUME NEW argv \in Seq(DOMAIN Type)
    PROVE  ByPromise(CMNapiGrantPublicCertificate(argv), argv)
<1>1. ASSUME NEW p \in ParseGrantUidParams(argv) PROVE ~GivesCallback(argv)
  <2>1. Arity(argv, 2, 2) /\ ParseString(Arg(argv, 1)) # {} /\ ParseUint32(Arg(argv, 2)) # {}
    BY <1>1 DEF ParseGrantUidParams
  <2>2. \A i \in 1..2 : Type[Arg(argv, i)] # "function"
    BY <2>1, ParsedIsNoFunction
  <2> QED
    BY <2>1, <2>2, NoCallbackAmong
<1> QED
  BY <1>1 DEF Entry, Work, CMNapiGrantPublicCertificate, GrantUidAsyncWork, ByPromise

LEMMA RemoveGrantedAnswers ==
    ASSUME NEW argv \in Seq(DOMAIN Type)
    PROVE  ByPromise(CMNapiRemoveGrantedPublic(argv), argv)
<1>1. ASSUME NEW p \in ParseGrantUidParams(argv) PROVE ~GivesCallback(argv)
  <2>1. Arity(argv, 2, 2) /\ ParseString(Arg(argv, 1)) # {} /\ ParseUint32(Arg(argv, 2)) # {}
    BY <1>1 DEF ParseGrantUidParams
  <2>2. \A i \in 1..2 : Type[Arg(argv, i)] # "function"
    BY <2>1, ParsedIsNoFunction
  <2> QED
    BY <2>1, <2>2, NoCallbackAmong
<1> QED
  BY <1>1 DEF Entry, Work, CMNapiRemoveGrantedPublic, RemoveUidAsyncWork, ByPromise

LEMMA IsAuthorizedAnswers ==
    ASSUME NEW argv \in Seq(DOMAIN Type)
    PROVE  ByPromise(CMNapiIsAuthorizedApp(argv), argv)
<1>1. ASSUME NEW p \in ParseIsAuthedParams(argv) PROVE ~GivesCallback(argv)
  <2>1. Arity(argv, 1, 1) /\ ParseString(Arg(argv, 1)) # {}
    BY <1>1 DEF ParseIsAuthedParams
  <2>2. \A i \in 1..1 : Type[Arg(argv, i)] # "function"
    BY <2>1, ParsedIsNoFunction
  <2> QED
    BY <2>1, <2>2, NoCallbackAmong
<1> QED
  BY <1>1 DEF Entry, Work, CMNapiIsAuthorizedApp, IsAuthedAsyncWork, ByPromise

LEMMA AuthorizedListAnswers ==
    ASSUME NEW argv \in Seq(DOMAIN Type)
    PROVE  ByPromise(CMNapiGetAuthorizedAppList(argv), argv)
<1>1. ASSUME NEW p \in ParseIsAuthedParams(argv) PROVE ~GivesCallback(argv)
  <2>1. Arity(argv, 1, 1) /\ ParseString(Arg(argv, 1)) # {}
    BY <1>1 DEF ParseIsAuthedParams
  <2>2. \A i \in 1..1 : Type[Arg(argv, i)] # "function"
    BY <2>1, ParsedIsNoFunction
  <2> QED
    BY <2>1, <2>2, NoCallbackAmong
<1> QED
  BY <1>1 DEF Entry, Work, CMNapiGetAuthorizedAppList, GetUidListAsyncWork, ByPromise

LEMMA ImportAnswers ==
    ASSUME NEW argv \in Seq(DOMAIN Type)
    PROVE  ByPromise(CMNapiImportUkeyCert(argv), argv)
<1>1. ASSUME NEW p \in ParseImportParams(argv) PROVE ~GivesCallback(argv)
  <2>1. /\ Arity(argv, 3, 3) /\ ParseString(Arg(argv, 1)) # {} /\ GetUint8Array(Arg(argv, 2)) # {}
        /\ IsObject(Arg(argv, 3))
    BY <1>1 DEF ParseImportParams
  <2>2. \A i \in 1..3 : Type[Arg(argv, i)] # "function"
    BY <2>1, ParsedIsNoFunction
  <2> QED
    BY <2>1, <2>2, NoCallbackAmong
<1> QED
  BY <1>1 DEF Entry, Work, CMNapiImportUkeyCert, ImportUkeyCertAsyncWork, ByPromise

LEMMA InitAnswers ==
    ASSUME NEW argv \in Seq(DOMAIN Type)
    PROVE  ByChoice(CMNapiInit(argv), argv)
<1>1. ASSUME NEW p \in ParseCMInitParams(argv) PROVE (p.cb = "none") = ~GivesCallback(argv)
  <2>1. /\ Arity(argv, 2, 3) /\ ParseString(Arg(argv, 1)) # {} /\ IsObject(Arg(argv, 2))
        /\ p.cb \in GetCallback(Arg(argv, 3))
    BY <1>1 DEF ParseCMInitParams, ParseSpec
  <2>2. \A i \in 1..3 - 1 : Type[Arg(argv, i)] # "function"
    BY <2>1, ParsedIsNoFunction
  <2> QED
    BY <2>1, <2>2, LastIsCallback
<1> QED
  BY <1>1 DEF Entry, Work, CMNapiInit, CMInitAsyncWork, ByChoice

LEMMA UpdateAnswers ==
    ASSUME NEW argv \in Seq(DOMAIN Type)
    PROVE  ByChoice(CMNapiUpdate(argv), argv)
<1>1. ASSUME NEW p \in ParseCMUpdateParams(argv) PROVE (p.cb = "none") = ~GivesCallback(argv)
  <2>1. /\ Arity(argv, 2, 3) /\ GetUint8Array(Arg(argv, 1)) # {} /\ GetUint8Array(Arg(argv, 2)) # {}
        /\ p.cb \in GetCallback(Arg(argv, 3))
    BY <1>1 DEF ParseCMUpdateParams
  <2>2. \A i \in 1..3 - 1 : Type[Arg(argv, i)] # "function"
    BY <2>1, ParsedIsNoFunction
  <2> QED
    BY <2>1, <2>2, LastIsCallback
<1> QED
  BY <1>1 DEF Entry, Work, CMNapiUpdate, CMUpdateAsyncWork, ByChoice

LEMMA AbortAnswers ==
    ASSUME NEW argv \in Seq(DOMAIN Type)
    PROVE  ByChoice(CMNapiAbort(argv), argv)
<1>1. ASSUME NEW p \in ParseCMAbortParams(argv) PROVE (p.cb = "none") = ~GivesCallback(argv)
  <2>1. /\ Arity(argv, 1, 2) /\ GetUint8Array(Arg(argv, 1)) # {} /\ p.cb \in GetCallback(Arg(argv, 2))
    BY <1>1 DEF ParseCMAbortParams
  <2>2. \A i \in 1..2 - 1 : Type[Arg(argv, i)] # "function"
    BY <2>1, ParsedIsNoFunction
  <2> QED
    BY <2>1, <2>2, LastIsCallback
<1> QED
  BY <1>1 DEF Entry, Work, CMNapiAbort, CMAbortAsyncWork, ByChoice

\* finish takes its second argument for a callback or for a signature.
LEMMA FinishAnswers ==
    ASSUME NEW argv \in Seq(DOMAIN Type)
    PROVE  ByChoice(CMNapiFinish(argv), argv)
<1>1. ASSUME NEW p \in ParseCMFinishParams(argv) PROVE (p.cb = "none") = ~GivesCallback(argv)
  <2>1. PICK h \in GetUint8Array(Arg(argv, 1)) :
           /\ Len(argv) \in 1..3
           /\ Len(argv) = 1 => p \in ProcessFinishOneParam(h)
           /\ Len(argv) = 2 => p \in ProcessFinishTwoParam(h, argv[2])
           /\ Len(argv) = 3 => p \in ProcessFinishThreeParam(h, argv[2], argv[3])
    BY <1>1 DEF ParseCMFinishParams, Arity
  <2>2. Type[Arg(argv, 1)] # "function"
    BY <2>1, ParsedIsNoFunction
  <2>3. CASE Len(argv) = 1
    <3>1. p.cb = "none"
      BY <2>1, <2>3 DEF ProcessFinishOneParam, Signs
    <3>2. Arity(argv, 1, 1) /\ \A i \in 1..1 : Type[Arg(argv, i)] # "function"
      BY <2>2, <2>3 DEF Arity
    <3> QED
      BY <3>1, <3>2, NoCallbackAmong
  <2>4. CASE Len(argv) = 2 /\ Type[argv[2]] = "function"
    <3>1. p.cb = argv[2]
      BY <2>1, <2>4 DEF ProcessFinishTwoParam, Signs
    <3>2. 2 \in DOMAIN argv /\ argv[2] \in DOMAIN Type
      BY <2>4
    <3>3. GivesCallback(argv)
      BY <2>4, <3>2 DEF GivesCallback
    <3> QED
      BY <3>1, <3>2, <3>3, ValuesAssumption
  <2>5. CASE Len(argv) = 2 /\ Type[argv[2]] # "function"
    <3>1. p.cb = "none"
      BY <2>1, <2>5 DEF ProcessFinishTwoParam, Verifies
    <3>2. Arity(argv, 2, 2) /\ Arg(argv, 2) = argv[2]
      BY <2>5 DEF Arity, Arg
    <3>3. \A i \in 1..2 : Type[Arg(argv, i)] # "function"
      BY <2>2, <2>5, <3>2
    <3> QED
      BY <3>1, <3>2, <3>3, NoCallbackAmong
  <2>6. CASE Len(argv) = 3
    <3>1. PICK f \in GetCallback(argv[3]) : p \in Verifies(h, argv[2], f)
      BY <2>1, <2>6 DEF ProcessFinishThreeParam
    <3>2. p.cb = f /\ GetUint8Array(argv[2]) # {}
      BY <3>1 DEF Verifies
    <3>3. f \in GetCallback(Arg(argv, 3)) /\ GetUint8Array(Arg(argv, 2)) # {}
      BY <2>6, <3>2 DEF Arg
    <3>4. \A i \in 1..3 - 1 : Type[Arg(argv, i)] # "function"
      BY <2>2, <3>3, ParsedIsNoFunction
    <3>5. Arity(argv, 3, 3)
      BY <2>6 DEF Arity
    <3>6. (f = "none") = ~GivesCallback(argv)
      <4> DEFINE n == 3
      <4>1. n \in Nat \ {0} /\ Arity(argv, 3, n)
        BY <3>5
      <4>2. f \in GetCallback(Arg(argv, n)) /\ \A i \in 1..n - 1 : Type[Arg(argv, i)] # "function"
        BY <3>3, <3>4
      <4> HIDE DEF n
      <4> QED
        BY <4>1, <4>2, LastIsCallback
    <3> QED
      BY <3>2, <3>6
  <2> QED
    BY <2>1, <2>3, <2>4, <2>5, <2>6
<1> QED
  BY <1>1 DEF Entry, Work, CMNapiFinish, CMFinishAsyncWork, ByChoice

\* These look at no more than the properties of their arguments, which a
\* function may have, or at none.
LEMMA AnyArgumentsAnswer ==
    ASSUME NEW argv
    PROVE  /\ \A c \in CMNapiGetUkeyCertList(argv) : c.promise = TRUE /\ c.sync = FALSE
           /\ \A c \in CMNapiGetUkeyCert(argv) : c.promise = TRUE /\ c.sync = FALSE
           /\ \A c \in CMNapiUninstallAllUserTrustedCert(argv) : c.promise = TRUE /\ c.sync = FALSE
           /\ \A c \in CMNapiGetCertStorePath(argv) : c.promise = FALSE /\ c.sync = TRUE
  BY DEF Entry, Work,
         CMNapiGetUkeyCertList, GetUkeyCertListAsyncWork, CMNapiGetUkeyCert, GetUkeyCertAsyncWork,
         CMNapiUninstallAllUserTrustedCert, UninstallAllUserCertAsyncWork, CMNapiGetCertStorePath, Sync

\* All of them together.
LEMMA EveryApiIsChosen ==
    ASSUME NEW op \in CredentialNames \cup CertificateNames \cup KeyNames,
           NEW argv \in Seq(DOMAIN Type), NEW c \in Parse(op, argv)
    PROVE  ChosenBy(c, op, argv)
<1> DEFINE sync == op \in SyncApis
           answersByPromise == op \notin SyncApis /\ (op \in PromiseApis \/ ~GivesCallback(argv))
<1>0. /\ c.sync = sync /\ c.promise = answersByPromise
      /\ op \in SyncApis \ AnyArguments => ~GivesCallback(argv)
      => ChosenBy(c, op, argv)
  BY DEF ChosenBy
<1>1. ASSUME NEW entries, ByPromise(entries, argv), op \notin SyncApis, c \in entries
      PROVE  ChosenBy(c, op, argv)
  <2>1. c.promise = TRUE /\ c.sync = FALSE /\ ~GivesCallback(argv)
    BY <1>1 DEF ByPromise
  <2>2. sync = FALSE /\ answersByPromise = TRUE
    BY <1>1, <2>1
  <2> QED
    BY <1>0, <1>1, <2>1, <2>2
<1>2. ASSUME NEW entries, ByChoice(entries, argv), op \notin SyncApis \cup PromiseApis, c \in entries
      PROVE  ChosenBy(c, op, argv)
  <2>1. c.promise = ~GivesCallback(argv) /\ c.sync = FALSE
    BY <1>2 DEF ByChoice
  <2>2. sync = FALSE /\ answersByPromise = ~GivesCallback(argv)
    BY <1>2
  <2> QED
    BY <1>0, <1>2, <2>1, <2>2
<1>3. ASSUME NEW entries, BySync(entries, argv), op \in SyncApis, c \in entries
      PROVE  ChosenBy(c, op, argv)
  <2>1. c.promise = FALSE /\ c.sync = TRUE /\ ~GivesCallback(argv)
    BY <1>3 DEF BySync
  <2>2. sync = TRUE /\ answersByPromise = FALSE
    BY <1>3
  <2> QED
    BY <1>0, <2>1, <2>2
<1>7. ASSUME c.promise = TRUE, c.sync = FALSE, op \in PromiseApis
      PROVE  ChosenBy(c, op, argv)
  <2>1. op \notin SyncApis
    BY <1>7 DEF PromiseApis, SyncApis
  <2>2. sync = FALSE /\ answersByPromise = TRUE
    BY <1>7, <2>1
  <2> QED
    BY <1>0, <1>7, <2>1, <2>2
<1>8. ASSUME c.promise = FALSE, c.sync = TRUE, op = "getCertificateStorePath"
      PROVE  ChosenBy(c, op, argv)
  <2>1. op \in SyncApis /\ op \in AnyArguments
    BY <1>8 DEF SyncApis, AnyArguments
  <2>2. sync = TRUE /\ answersByPromise = FALSE
    BY <2>1
  <2> QED
    BY <1>0, <1>8, <2>1, <2>2
<1>4. CASE op \in CredentialNames
  <2>1. c \in CredentialApis(op, argv)
    BY <1>4 DEF Parse
  <2>2. CASE op \in {"installPublicCertificate", "installPrivateCertificate", "installSystemAppCertificate"}
    BY <1>1, <1>2, <2>1, <2>2, InstallAppCertAnswers
       DEF CredentialApis, SyncApis, PromiseApis, Private, Public, System
  <2>3. CASE op \in {"uninstallPublicCertificate", "uninstallPrivateCertificate",
                     "uninstallSystemAppCertificate", "getPublicCertificate", "getPrivateCertificate",
                     "getSystemAppCertificate"}
    BY <1>2, <2>1, <2>3, UriAnswers DEF CredentialApis, SyncApis, PromiseApis
  <2>4. CASE op \in {"getAllPublicCertificates", "getAllAppPrivateCertificates", "getAllSystemAppCertificates"}
    BY <1>2, <2>1, <2>4, GetAppCertListAnswers DEF CredentialApis, SyncApis, PromiseApis
  <2>5. CASE op = "getPrivateCertificates"
    BY <1>7, <2>1, <2>5, GetAppCertListAnswers DEF CredentialApis, PromiseApis
  <2>6. CASE op \in {"uninstallAllAppCertificate", "getAllAppPrivateCertificatesByUid"}
    BY <1>1, <2>1, <2>6, UninstallAllAnswers, ListByUidAnswers DEF CredentialApis, SyncApis
  <2> QED
    BY <1>4, <2>2, <2>3, <2>4, <2>5, <2>6 DEF CredentialNames
<1>5. CASE op \in CertificateNames
  <2>1. c \in CertificateApis(op, argv)
    BY <1>5 DEF Parse, CredentialNames, CertificateNames
  <2>2. CASE op \in {"getSystemTrustedCertificateList", "getAllUserTrustedCertificates",
                     "getSystemTrustedCertificate", "getUserTrustedCertificate", "setCertificateStatus",
                     "installUserTrustedCertificate"}
    BY <1>1, <2>1, <2>2, GetCertListAnswers, GetCertInfoAnswers, SetCertStatusAnswers,
       InstallUserTrustedCertAnswers
       DEF CertificateApis, SyncApis
  <2>3. CASE op \in {"installUserTrustedCertificateSync", "uninstallUserTrustedCertificateSync"}
    BY <1>3, <2>1, <2>3, InstallUserCertSyncAnswers, UninstallUserCertSyncAnswers
       DEF CertificateApis, SyncApis
  <2>4. CASE op \in {"uninstallAllUserTrustedCertificate", "getCertificateStorePath"}
    BY <1>7, <1>8, <2>1, <2>4, AnyArgumentsAnswer DEF CertificateApis, PromiseApis
  <2> QED
    BY <1>5, <2>2, <2>3, <2>4 DEF CertificateNames
<1>6. CASE op \in KeyNames
  <2>1. c \in KeyApis(op, argv)
    BY <1>6 DEF Parse, CredentialNames, CertificateNames, KeyNames
  <2>2. CASE op \in {"grantPublicCertificate", "removeGrantedPublicCertificate", "isAuthorizedApp",
                     "getAuthorizedAppList", "importUkeyCertificate"}
    BY <1>1, <2>1, <2>2, GrantAnswers, RemoveGrantedAnswers, IsAuthorizedAnswers, AuthorizedListAnswers,
       ImportAnswers
       DEF KeyApis, SyncApis
  <2>3. CASE op \in {"init", "update", "finish", "abort"}
    BY <1>2, <2>1, <2>3, InitAnswers, UpdateAnswers, FinishAnswers, AbortAnswers
       DEF KeyApis, SyncApis, PromiseApis
  <2>4. CASE op \in {"getUkeyCertificateList", "getUkeyCertificate"}
    BY <1>7, <2>1, <2>4, AnyArgumentsAnswer DEF KeyApis, PromiseApis
  <2> QED
    BY <1>6, <2>2, <2>3, <2>4 DEF KeyNames
<1> QED
  BY <1>4, <1>5, <1>6

-----------------------------------------------------------------------------
(* The invariant of a call of a function.                                   *)
PromiseOf(c) == IF c.promise THEN "pending" ELSE "none"

ApiInv ==
    /\ pc \in ApiPcs => call \in Calls
    /\ pc \in {"parse", "work"} => promise = "none"
    /\ pc \in {"work", "execute", "complete"} =>
          \A c \in context : ChosenBy(c, call.op, call.argv)
    /\ pc = "execute" => \A c \in context : promise = PromiseOf(c) /\ ~c.sync
    /\ pc = "complete" => \A c \in context : promise = PromiseOf(c)
    /\ OneOutcome

LEMMA ChosenAlike ==
    ASSUME NEW op, NEW argv, NEW c, NEW d, ChosenBy(c, op, argv), ChosenBy(d, op, argv)
    PROVE  c.promise = d.promise /\ c.sync = d.sync
  BY DEF ChosenBy

\* A dialog runs between the functions, and touches nothing of theirs.
LEMMA DialogStepIsNoFunction ==
    ASSUME DialogStep
    PROVE  pc \notin ApiPcs /\ pc' \notin ApiPcs /\ UNCHANGED api
<1>1. CASE \E code \in EndCodes : OnRelease(code) \/ OnError(code) \/ OnResult(code)
  BY <1>1 DEF OnRelease, OnError, OnResult, End, ApiPcs, DialogStep
<1>2. CASE OnDestroy \/ \E u \in {"empty", "uri"} : OnReceive(u)
  BY <1>2 DEF OnReceive, OnDestroy, End, ApiPcs, DialogStep
<1>3. CASE \/ CallDialog \/ CMNapiSupportsCACertDialog \/ TryOpenUkeyAuthDialogViaSa
           \/ OpenAuthDialogForUkeyProvider \/ ReturnFromDialog
  BY <1>3 DEF CallDialog, Invoke, CMNapiSupportsCACertDialog, TryOpenUkeyAuthDialogViaSa,
              OpenAuthDialogForUkeyProvider, ReturnFromDialog, GiveBack, ApiPcs, DialogStep
<1>4. CASE Check \/ StartUIExtensionAbility \/ StartUIAbility
  BY <1>4 DEF Check, StartUIExtensionAbility, StartUIAbility, Throw, ApiPcs, DialogStep
<1>5. CASE \/ CreateUkeyResultTsfn \/ CmOpenUkeyAuthDialog \/ ResultIsOnItsWay
           \/ \E code \in EndCodes : UkeyAuthDialogResultCallback(code)
           \/ UvTsfnCallback \/ UvTsfnFinalize \/ JavaScriptIsGone
  BY <1>5 DEF CreateUkeyResultTsfn, CmOpenUkeyAuthDialog, ResultIsOnItsWay, UkeyAuthDialogResultCallback,
              UvTsfnCallback, UvTsfnFinalize, JavaScriptIsGone, ApiPcs, DialogStep
<1> QED
  BY <1>1, <1>2, <1>3, <1>4, <1>5 DEF DialogStep, DialogNext

LEMMA DialogStepKeepsApiInv ==
    ASSUME DialogStep, ApiInv
    PROVE  ApiInv'
  BY DialogStepIsNoFunction DEF ApiInv, OneOutcome, ApiPcs

\* A call that threw, or had no memory, was over before it answered.
LEMMA ThrownIsOneOutcome ==
    ASSUME pc' = "done", held' = 0, promise' \in {"none", "dropped"}, NEW s, seen' = <<s>>,
           s.how \in {"throw", "noMemory"}
    PROVE  OneOutcome'
<1>1. Len(seen') = 1 /\ seen'[1] = s
  OBVIOUS
<1> QED
  BY <1>1 DEF OneOutcome

LEMMA CallStepKeepsApiInv ==
    ASSUME CallStep, DialogInv, ApiInv
    PROVE  ApiInv'
<1>1. /\ pc \notin {"done", "open", "over"} => seen = <<>>
      /\ pc = "idle" => promise = "none"
  BY DEF DialogInv, NothingSeen
<1>2. CASE Call
  BY <1>1, <1>2 DEF Call, Invoke, ApiInv, OneOutcome
<1>3. CASE CreateContext
  <2>1. CASE pc' = "done"
    <3>1. \E s : seen' = Append(seen, s) /\ s.how \in {"throw", "noMemory"}
      BY <1>3, <2>1 DEF CreateContext, See
    <3>2. held' = 0 /\ promise' = "none" /\ seen = <<>>
      BY <1>1, <1>3, <2>1 DEF CreateContext, ApiInv
    <3>3. OneOutcome'
      BY <2>1, <3>1, <3>2, ThrownIsOneOutcome
    <3> QED
      BY <1>3, <2>1, <3>3 DEF CreateContext, ApiInv, ApiPcs
  <2>2. CASE pc' # "done"
    BY <1>3, <2>2 DEF CreateContext, ApiInv, OneOutcome, ApiPcs
  <2> QED
    BY <2>1, <2>2
<1>4. CASE ParseParams
  <2>1. CASE context' = {}
    <3>1. \E s : seen' = Append(seen, s) /\ s.how \in {"throw", "noMemory"}
      BY <1>4, <2>1 DEF ParseParams, See
    <3>2. pc' = "done" /\ held' = 0 /\ promise' = "none" /\ seen = <<>>
      BY <1>1, <1>4, <2>1 DEF ParseParams, ApiInv
    <3>3. OneOutcome'
      BY <3>1, <3>2, ThrownIsOneOutcome
    <3> QED
      BY <1>4, <3>2, <3>3 DEF ParseParams, ApiInv, ApiPcs
  <2>2. CASE context' # {}
    <3>1. pc = "parse" /\ pc' = "work" /\ context' = Parse(call.op, call.argv) /\ UNCHANGED <<call, promise>>
      BY <1>4, <2>2 DEF ParseParams
    <3>2. call \in Calls /\ promise = "none"
      BY <3>1 DEF ApiInv, ApiPcs
    <3>3. \A c \in context' : ChosenBy(c, call.op, call.argv)
      BY <3>1, <3>2, CallsAssumption, EveryApiIsChosen
    <3> QED
      BY <3>1, <3>2, <3>3 DEF ApiInv, ApiPcs, OneOutcome
  <2> QED
    BY <2>1, <2>2
<1>5. ASSUME NEW c \in context, AsyncWork(c) PROVE ApiInv'
  <2>1. /\ pc = "work" /\ ~c.sync /\ call \in Calls /\ seen = <<>> /\ UNCHANGED <<call, context>>
        /\ \A d \in context : ChosenBy(d, call.op, call.argv)
    BY <1>1, <1>5 DEF AsyncWork, ApiInv, ApiPcs
  <2>2. \A d \in context : d.promise = c.promise /\ ~d.sync
    BY <2>1, ChosenAlike
  <2>3. CASE pc' = "execute"
    <3>1. promise' = PromiseOf(c)
      BY <1>5, <2>3 DEF AsyncWork, PromiseOf
    <3>2. \A d \in context : promise' = PromiseOf(d) /\ ~d.sync
      BY <2>2, <3>1 DEF PromiseOf
    <3> QED
      BY <2>1, <2>3, <3>2 DEF ApiInv, OneOutcome
  <2>4. CASE pc' # "execute"
    <3>1. \E s : seen' = Append(seen, s) /\ s.how \in {"throw", "noMemory"}
      BY <1>5, <2>4 DEF AsyncWork, See
    <3>2. pc' = "done" /\ held' = 0 /\ promise' \in {"none", "dropped"}
      BY <1>5, <2>4 DEF AsyncWork
    <3>3. OneOutcome'
      BY <2>1, <3>1, <3>2, ThrownIsOneOutcome
    <3> QED
      BY <2>1, <3>2, <3>3 DEF ApiInv
  <2> QED
    BY <2>3, <2>4
<1>6. ASSUME NEW c \in context, Execute(c) PROVE ApiInv'
  <2>1. /\ pc \in {"work", "execute"} /\ pc' = "complete" /\ call \in Calls
        /\ UNCHANGED <<call, context, promise>> /\ (pc = "work" => c.sync)
        /\ \A d \in context : ChosenBy(d, call.op, call.argv)
    BY <1>6 DEF Execute, ApiInv, ApiPcs
  <2>2. \A d \in context : promise = PromiseOf(d)
    BY <2>1 DEF ApiInv, ChosenBy, PromiseOf
  <2>3. \A d \in context : PromiseOf(d)' = PromiseOf(d)
    BY DEF PromiseOf
  <2> QED
    BY <2>1, <2>2, <2>3 DEF ApiInv, OneOutcome
<1>7. ASSUME NEW c \in context, Complete(c) PROVE ApiInv'
  <2>1. /\ pc = "complete" /\ pc' = "done" /\ held' = 0 /\ call \in Calls /\ seen = <<>>
        /\ UNCHANGED call /\ ChosenBy(c, call.op, call.argv) /\ promise = PromiseOf(c)
        /\ promise' = IF promise = "pending" THEN "settled" ELSE promise
    BY <1>1, <1>7 DEF Complete, ApiInv, ApiPcs
  <2> DEFINE how == IF c.sync THEN "return" ELSE IF c.promise THEN "promise" ELSE "callback"
  <2>2. PICK s : seen' = Append(seen, s) /\ s.how \in {how, IF c.sync THEN "throw" ELSE how}
    BY <1>7 DEF Complete, See
  <2>3. Len(seen') = 1 /\ seen'[1] = s
    BY <2>1, <2>2
  <2>4. HasCallback' <=> call.op \notin AnyArguments /\ GivesCallback(call.argv)
    BY <2>1 DEF HasCallback, AnyArguments, GivesCallback
  <2>5. OneOutcome'
    <3>1. CASE call.op \in SyncApis
      <4>1. s.how \in {"return", "throw"} /\ promise' = "none" /\ ~HasCallback'
        BY <2>1, <2>2, <2>4, <3>1 DEF ChosenBy, PromiseOf
      <4> QED
        BY <2>1, <2>3, <4>1 DEF OneOutcome
    <3>2. CASE call.op \notin SyncApis /\ (call.op \in PromiseApis \/ ~GivesCallback(call.argv))
      <4>1. s.how = "promise" /\ promise' = "settled"
        BY <2>1, <2>2, <3>2 DEF ChosenBy, PromiseOf
      <4>2. ~(HasCallback' /\ call.op # "getPrivateCertificates")
        BY <2>4, <3>2 DEF PromiseApis, AnyArguments
      <4> QED
        BY <2>1, <2>3, <4>1, <4>2 DEF OneOutcome
    <3>3. CASE /\ call.op \notin SyncApis \cup PromiseApis /\ GivesCallback(call.argv)
      <4>1. s.how = "callback" /\ promise' = "none"
        BY <2>1, <2>2, <3>3 DEF ChosenBy, PromiseOf
      <4>2. HasCallback'
        BY <2>4, <3>3 DEF PromiseApis, SyncApis, AnyArguments
      <4> QED
        BY <2>1, <2>3, <4>1, <4>2 DEF OneOutcome
    <3> QED
      BY <3>1, <3>2, <3>3
  <2> QED
    BY <2>1, <2>5 DEF ApiInv
<1>8. CASE Return
  BY <1>8 DEF Return, GiveBack, ApiInv, ApiPcs, OneOutcome
<1> QED
  BY <1>2, <1>3, <1>4, <1>5, <1>6, <1>7, <1>8 DEF CallStep, ApiNext

LEMMA ApiInvIsInvariant == Spec => []ApiInv
<1>1. Init => ApiInv
  BY DEF Init, Idle, ApiInv, OneOutcome, ApiPcs
<1>2. DialogInv /\ ApiInv /\ [Next]_vars => ApiInv'
  <2> SUFFICES ASSUME DialogInv, ApiInv, [Next]_vars PROVE ApiInv'
    OBVIOUS
  <2>1. CASE UNCHANGED vars
    BY <2>1 DEF vars, api, ApiInv, OneOutcome, HasCallback, PromiseOf, ChosenBy
  <2> QED
    BY <2>1, CallStepKeepsApiInv, DialogStepKeepsApiInv DEF Next
<1> QED
  BY <1>1, <1>2, DialogInvIsInvariant, PTL DEF Spec, vars

\* Every function of the kit, given any number of values of any kinds and with
\* any result of the SDK and of the runtime, has one outcome and by the way the
\* caller chose: its callback ran once if it gave one, else its promise is no
\* longer pending (cm_napi_common.cpp:580-617 and the completions).
THEOREM EveryCallHasOneOutcome == Spec => []OneOutcome
<1>1. ApiInv => OneOutcome
  BY DEF ApiInv
<1> QED
  BY <1>1, ApiInvIsInvariant, PTL

-----------------------------------------------------------------------------
(* What a function asks of the SDK, and which codes end as a success.       *)
Asks(c, op, argv) ==
    \/ c.fn = "none" /\ c.a # "SUCCESS"
    \/ c.fn # "none" /\ Fits(c, Expected(op, argv))
EndsWell(op, code) ==
    code = "SUCCESS" \/ (op = "uninstallPrivateCertificate" /\ code = "CMR_ERROR_NOT_EXIST")
Tells(c, op) == \A code : Recoded(c, code) = "SUCCESS" <=> EndsWell(op, code)
IsRight(c, op, argv) == Asks(c, op, argv) /\ Tells(c, op)

LEMMA EntryHas ==
    ASSUME NEW p, NEW execute, NEW resolve, NEW work
    PROVE  /\ Entry(p, execute, resolve, work).fn = execute.fn
           /\ Entry(p, execute, resolve, work).a = execute.a
           /\ Entry(p, execute, resolve, work).recode = resolve.recode
  BY DEF Entry

LEMMA SdkHas == ASSUME NEW fn, NEW a PROVE Sdk(fn, a).fn = fn /\ Sdk(fn, a).a = a
  BY DEF Sdk

LEMMA GivesAsItIs ==
    ASSUME NEW some, NEW none
    PROVE  Gives(some, none).recode = <<>>
  BY DEF Gives

LEMMA ZeroAsItIs == RemoveUidResove.recode = <<>> /\ IsAuthedResolve.recode = <<>>
  BY DEF RemoveUidResove, IsAuthedResolve, Gives

LEMMA UnchangedCodes ==
    ASSUME NEW c, NEW op, c.recode = <<>>, op # "uninstallPrivateCertificate"
    PROVE  Tells(c, op)
<1>1. \A code : Recoded(c, code) = code
  <2>1. DOMAIN c.recode = {}
    OBVIOUS
  <2> QED
    BY <2>1 DEF Recoded
<1> QED
  BY <1>1 DEF Tells, EndsWell

LEMMA SameIsAsked ==
    ASSUME NEW c, NEW op, NEW argv, NEW fn, NEW a, c.fn = fn, fn # "none", c.a = a,
           Expected(op, argv) = Asked(fn, a)
    PROVE  Asks(c, op, argv)
  BY DEF Asks, Fits, Asked

\* The options an object leaves out have the value the parser gives them.
LEMMA OptionsRead ==
    ASSUME NEW v
    PROVE  /\ \A x \in ParseCertScope(v) : x = Option(v, "certScope", "CM_CURRENT_USER")
           /\ \A x \in ParseCertFormat(v) : (x = "P7B") <=> (Prop(v, "certFormat") = "P7B")
           /\ \A x \in GetPadding(v) : x = Option(v, "padding", "CM_PADDING_PSS")
           /\ \A x \in GetDigest(v) : x = Option(v, "digest", "CM_DIGEST_SHA256")
           /\ \A names : \A x \in ParseUkeyInfo(v, names) : x = Option(v, "certPurpose", "CM_CERT_PURPOSE_DEFAULT")
  BY ParsedIsNoFunction DEF ParseCertScope, ParseCertFormat, GetPadding, GetDigest, ParseUkeyInfo, Option

LEMMA GrantAsks ==
    ASSUME NEW argv \in Seq(DOMAIN Type), NEW c \in CMNapiGrantPublicCertificate(argv)
    PROVE  IsRight(c, "grantPublicCertificate", argv)
<1> DEFINE a == [keyUri |-> argv[1], appUid |-> argv[2]]
<1>1. PICK p \in ParseGrantUidParams(argv) : \E work :
         c = Entry(p, GrantUidExecute(p), GrantUidResolve, work)
  BY DEF CMNapiGrantPublicCertificate
<1>2. p.keyUri = argv[1] /\ p.appUid = argv[2]
  BY ParsedIsNoFunction DEF ParseGrantUidParams, Arity, Arg
<1>3. c.fn = "CmGrantAppCertificate" /\ c.a = a /\ c.recode = <<>>
  BY <1>1, <1>2, EntryHas, SdkHas, GivesAsItIs DEF GrantUidExecute, GrantUidResolve
<1>4. Expected("grantPublicCertificate", argv) = Asked("CmGrantAppCertificate", a)
  BY DEF Expected
<1> HIDE DEF a
<1> QED
  BY <1>3, <1>4, SameIsAsked, UnchangedCodes DEF IsRight

LEMMA RemoveGrantedAsks ==
    ASSUME NEW argv \in Seq(DOMAIN Type), NEW c \in CMNapiRemoveGrantedPublic(argv)
    PROVE  IsRight(c, "removeGrantedPublicCertificate", argv)
<1> DEFINE a == [keyUri |-> argv[1], appUid |-> argv[2]]
<1>1. PICK p \in ParseGrantUidParams(argv) : \E work :
         c = Entry(p, RemoveUidExecute(p), RemoveUidResove, work)
  BY DEF CMNapiRemoveGrantedPublic
<1>2. p.keyUri = argv[1] /\ p.appUid = argv[2]
  BY ParsedIsNoFunction DEF ParseGrantUidParams, Arity, Arg
<1>3. c.fn = "CmRemoveGrantedApp" /\ c.a = a /\ c.recode = <<>>
  BY <1>1, <1>2, EntryHas, SdkHas, GivesAsItIs, ZeroAsItIs DEF RemoveUidExecute
<1>4. Expected("removeGrantedPublicCertificate", argv) = Asked("CmRemoveGrantedApp", a)
  BY DEF Expected
<1> HIDE DEF a
<1> QED
  BY <1>3, <1>4, SameIsAsked, UnchangedCodes DEF IsRight

LEMMA IsAuthorizedAsks ==
    ASSUME NEW argv \in Seq(DOMAIN Type), NEW c \in CMNapiIsAuthorizedApp(argv)
    PROVE  IsRight(c, "isAuthorizedApp", argv)
<1> DEFINE a == [keyUri |-> argv[1]]
<1>1. PICK p \in ParseIsAuthedParams(argv) : \E work :
         c = Entry(p, IsAuthedExecute(p), IsAuthedResolve, work)
  BY DEF CMNapiIsAuthorizedApp
<1>2. p.keyUri = argv[1]
  BY ParsedIsNoFunction DEF ParseIsAuthedParams, Arity, Arg
<1>3. c.fn = "CmIsAuthorizedApp" /\ c.a = a /\ c.recode = <<>>
  BY <1>1, <1>2, EntryHas, SdkHas, GivesAsItIs, ZeroAsItIs DEF IsAuthedExecute
<1>4. Expected("isAuthorizedApp", argv) = Asked("CmIsAuthorizedApp", a)
  BY DEF Expected
<1> HIDE DEF a
<1> QED
  BY <1>3, <1>4, SameIsAsked, UnchangedCodes DEF IsRight

LEMMA AuthorizedListAsks ==
    ASSUME NEW argv \in Seq(DOMAIN Type), NEW c \in CMNapiGetAuthorizedAppList(argv)
    PROVE  IsRight(c, "getAuthorizedAppList", argv)
<1> DEFINE a == [keyUri |-> argv[1]]
<1>1. PICK p \in ParseIsAuthedParams(argv) : \E work :
         c = Entry(p, GetUidListExecute(p), GetUidListResolve, work)
  BY DEF CMNapiGetAuthorizedAppList
<1>2. p.keyUri = argv[1]
  BY ParsedIsNoFunction DEF ParseIsAuthedParams, Arity, Arg
<1>3. c.fn = "CmGetAuthorizedAppList" /\ c.a = a /\ c.recode = <<>>
  BY <1>1, <1>2, EntryHas, SdkHas, GivesAsItIs DEF GetUidListExecute, GetUidListResolve
<1>4. Expected("getAuthorizedAppList", argv) = Asked("CmGetAuthorizedAppList", a)
  BY DEF Expected
<1> HIDE DEF a
<1> QED
  BY <1>3, <1>4, SameIsAsked, UnchangedCodes DEF IsRight

LEMMA InitAsks ==
    ASSUME NEW argv \in Seq(DOMAIN Type), NEW c \in CMNapiInit(argv)
    PROVE  IsRight(c, "init", argv)
<1> DEFINE a == [authUri |-> argv[1], purpose |-> Prop(argv[2], "purpose"),
                 padding |-> Option(argv[2], "padding", "CM_PADDING_PSS"),
                 digest |-> Option(argv[2], "digest", "CM_DIGEST_SHA256")]
<1>1. PICK p \in ParseCMInitParams(argv) : \E work : c = Entry(p, InitExecute(p), InitResolve, work)
  BY DEF CMNapiInit
<1>2. /\ p.authUri = argv[1] /\ p.spec.purpose = Prop(argv[2], "purpose")
       /\ p.spec.padding = Option(argv[2], "padding", "CM_PADDING_PSS")
       /\ p.spec.digest = Option(argv[2], "digest", "CM_DIGEST_SHA256")
  BY ParsedIsNoFunction, OptionsRead DEF ParseCMInitParams, ParseSpec, Arity, Arg
<1>3. c.fn = "CmInit" /\ c.a = a /\ c.recode = <<>>
  BY <1>1, <1>2, EntryHas, SdkHas, GivesAsItIs DEF InitExecute, InitResolve
<1>4. Expected("init", argv) = Asked("CmInit", a)
  BY DEF Expected
<1> HIDE DEF a
<1> QED
  BY <1>3, <1>4, SameIsAsked, UnchangedCodes DEF IsRight

LEMMA UpdateAsks ==
    ASSUME NEW argv \in Seq(DOMAIN Type), NEW c \in CMNapiUpdate(argv)
    PROVE  IsRight(c, "update", argv)
<1> DEFINE a == [handle |-> argv[1], inData |-> argv[2]]
<1>1. PICK p \in ParseCMUpdateParams(argv) : \E work :
         c = Entry(p, UpdateExecute(p), UpdateOrAbortResolve, work)
  BY DEF CMNapiUpdate
<1>2. p.handle = argv[1] /\ p.inData = argv[2]
  BY ParsedIsNoFunction DEF ParseCMUpdateParams, Arity, Arg
<1>3. c.fn = "CmUpdate" /\ c.a = a /\ c.recode = <<>>
  BY <1>1, <1>2, EntryHas, SdkHas, GivesAsItIs DEF UpdateExecute, UpdateOrAbortResolve
<1>4. Expected("update", argv) = Asked("CmUpdate", a)
  BY DEF Expected
<1> HIDE DEF a
<1> QED
  BY <1>3, <1>4, SameIsAsked, UnchangedCodes DEF IsRight

LEMMA AbortAsks ==
    ASSUME NEW argv \in Seq(DOMAIN Type), NEW c \in CMNapiAbort(argv)
    PROVE  IsRight(c, "abort", argv)
<1> DEFINE a == [handle |-> argv[1]]
<1>1. PICK p \in ParseCMAbortParams(argv) : \E work :
         c = Entry(p, AbortExecute(p), UpdateOrAbortResolve, work)
  BY DEF CMNapiAbort
<1>2. p.handle = argv[1]
  BY ParsedIsNoFunction DEF ParseCMAbortParams, Arity, Arg
<1>3. c.fn = "CmAbort" /\ c.a = a /\ c.recode = <<>>
  BY <1>1, <1>2, EntryHas, SdkHas, GivesAsItIs DEF AbortExecute, UpdateOrAbortResolve
<1>4. Expected("abort", argv) = Asked("CmAbort", a)
  BY DEF Expected
<1> HIDE DEF a
<1> QED
  BY <1>3, <1>4, SameIsAsked, UnchangedCodes DEF IsRight

LEMMA UkeyCertListAsks ==
    ASSUME NEW argv \in Seq(DOMAIN Type), NEW c \in CMNapiGetUkeyCertList(argv)
    PROVE  IsRight(c, "getUkeyCertificateList", argv)
<1> DEFINE a == [ukeyProvider |-> argv[1],
                 certPurpose |-> Option(argv[2], "certPurpose", "CM_CERT_PURPOSE_DEFAULT")]
<1>1. PICK p \in GetUkeyCertListParseParams(argv) : \E work :
         c = Entry(p, GetUkeyCertListExecute(p), GetUkeyCertListWriteResult, work)
  BY DEF CMNapiGetUkeyCertList
<1>2. /\ p.ukeyProvider = argv[1]
       /\ p.certPurpose = Option(argv[2], "certPurpose", "CM_CERT_PURPOSE_DEFAULT")
  BY ParsedIsNoFunction, OptionsRead DEF GetUkeyCertListParseParams, Arity, Arg
<1>3. c.fn = "CmGetUkeyCertList" /\ c.a = a /\ c.recode = <<>>
  BY <1>1, <1>2, EntryHas, SdkHas, GivesAsItIs DEF GetUkeyCertListExecute, GetUkeyCertListWriteResult
<1>4. Expected("getUkeyCertificateList", argv) = Asked("CmGetUkeyCertList", a)
  BY DEF Expected
<1> HIDE DEF a
<1> QED
  BY <1>3, <1>4, SameIsAsked, UnchangedCodes DEF IsRight

LEMMA UkeyCertAsks ==
    ASSUME NEW argv \in Seq(DOMAIN Type), NEW c \in CMNapiGetUkeyCert(argv)
    PROVE  IsRight(c, "getUkeyCertificate", argv)
<1> DEFINE a == [keyUri |-> argv[1],
                 certPurpose |-> Option(argv[2], "certPurpose", "CM_CERT_PURPOSE_DEFAULT")]
<1>1. PICK p \in GetUkeyCertParseParams(argv) : \E work :
         c = Entry(p, GetUkeyCertExecute(p), GetUkeyCertWriteResult, work)
  BY DEF CMNapiGetUkeyCert
<1>2. /\ p.keyUri = argv[1]
       /\ p.certPurpose = Option(argv[2], "certPurpose", "CM_CERT_PURPOSE_DEFAULT")
  BY ParsedIsNoFunction, OptionsRead DEF GetUkeyCertParseParams, Arity, Arg
<1>3. c.fn = "CmGetUkeyCert" /\ c.a = a /\ c.recode = <<>>
  BY <1>1, <1>2, EntryHas, SdkHas, GivesAsItIs DEF GetUkeyCertExecute, GetUkeyCertWriteResult
<1>4. Expected("getUkeyCertificate", argv) = Asked("CmGetUkeyCert", a)
  BY DEF Expected
<1> HIDE DEF a
<1> QED
  BY <1>3, <1>4, SameIsAsked, UnchangedCodes DEF IsRight

LEMMA ImportAsks ==
    ASSUME NEW argv \in Seq(DOMAIN Type), NEW c \in CMNapiImportUkeyCert(argv)
    PROVE  IsRight(c, "importUkeyCertificate", argv)
<1> DEFINE a == [keyUri |-> argv[1], cert |-> argv[2],
                 certPurpose |-> Option(argv[3], "certPurpose", "CM_CERT_PURPOSE_DEFAULT")]
<1>1. PICK p \in ParseImportParams(argv) : \E work :
         c = Entry(p, ImportUkeyCertExecute(p), Gives("undefined", "undefined"), work)
  BY DEF CMNapiImportUkeyCert
<1>2. /\ p.keyUri = argv[1] /\ p.cert = argv[2]
       /\ p.certPurpose = Option(argv[3], "certPurpose", "CM_CERT_PURPOSE_DEFAULT")
  BY ParsedIsNoFunction, OptionsRead DEF ParseImportParams, Arity, Arg
<1>3. c.fn = "CmImportUkeyCert" /\ c.a = a /\ c.recode = <<>>
  BY <1>1, <1>2, EntryHas, SdkHas, GivesAsItIs DEF ImportUkeyCertExecute
<1>4. Expected("importUkeyCertificate", argv) = Asked("CmImportUkeyCert", a)
  BY DEF Expected
<1> HIDE DEF a
<1> QED
  BY <1>3, <1>4, SameIsAsked, UnchangedCodes DEF IsRight

LEMMA SetCertStatusAsks ==
    ASSUME NEW argv \in Seq(DOMAIN Type), NEW c \in CMNapiSetCertStatus(argv)
    PROVE  IsRight(c, "setCertificateStatus", argv)
<1> DEFINE a == [certUri |-> argv[1], store |-> "CM_USER_TRUSTED_STORE", status |-> argv[3]]
<1>1. PICK p \in SetCertStatusParseParams(argv) : \E work :
         c = Entry(p, SetCertStatusExecute(p), SetCertStatusResolve, work)
  BY DEF CMNapiSetCertStatus
<1>2. p.certUri = argv[1] /\ p.status = argv[3]
  BY ParsedIsNoFunction DEF SetCertStatusParseParams, Arity, Arg
<1>3. c.fn = "CmSetUserCertStatus" /\ c.a = a /\ c.recode = <<>>
  BY <1>1, <1>2, EntryHas, SdkHas, GivesAsItIs DEF SetCertStatusExecute, SetCertStatusResolve
<1>4. Expected("setCertificateStatus", argv) = Asked("CmSetUserCertStatus", a)
  BY DEF Expected, StoreOf
<1> HIDE DEF a
<1> QED
  BY <1>3, <1>4, SameIsAsked, UnchangedCodes DEF IsRight

LEMMA UninstallUserCertSyncAsks ==
    ASSUME NEW argv \in Seq(DOMAIN Type), NEW c \in CMNapiUninstallUserCertSync(argv)
    PROVE  IsRight(c, "uninstallUserTrustedCertificateSync", argv)
<1> DEFINE a == [certUri |-> argv[1]]
<1>1. PICK p \in ParseUninstallUserCertSyncParams(argv) : \E work :
         c = Entry(p, Sdk("CmUninstallUserTrustedCert", [certUri |-> p.certUri]),
                   Gives("undefined", "undefined"), work)
  BY DEF CMNapiUninstallUserCertSync
<1>2. p.certUri = argv[1]
  BY ParsedIsNoFunction DEF ParseUninstallUserCertSyncParams, GetCertInfoParseParams, Arity, Arg
<1>3. c.fn = "CmUninstallUserTrustedCert" /\ c.a = a /\ c.recode = <<>>
  BY <1>1, <1>2, EntryHas, SdkHas, GivesAsItIs
<1>4. Expected("uninstallUserTrustedCertificateSync", argv) = Asked("CmUninstallUserTrustedCert", a)
  BY DEF Expected
<1> HIDE DEF a
<1> QED
  BY <1>3, <1>4, SameIsAsked, UnchangedCodes DEF IsRight

LEMMA GetAppCertInfoAsks ==
    ASSUME NEW argv \in Seq(DOMAIN Type),
           NEW op \in {"getPublicCertificate", "getPrivateCertificate", "getSystemAppCertificate"},
           NEW c \in CMNapiGetAppCertInfoCommon(argv, StoreOf(op))
    PROVE  IsRight(c, op, argv)
<1> DEFINE a == [keyUri |-> argv[1], store |-> StoreOf(op)]
<1>1. PICK p \in GetAppCertInfoParseParams(argv, StoreOf(op)) : \E work :
         c = Entry(p, GetAppCertInfoExecute(p, StoreOf(op)), GetAppCertInfoWriteResult(StoreOf(op)), work)
  BY DEF CMNapiGetAppCertInfoCommon
<1>2. p.keyUri = argv[1]
  BY ParsedIsNoFunction DEF GetAppCertInfoParseParams, UriAndCallback, Arity, Arg
<1>3. c.fn = "CmGetAppCert" /\ c.a = a /\ c.recode = <<>>
  BY <1>1, <1>2, EntryHas, SdkHas, GivesAsItIs DEF GetAppCertInfoExecute, GetAppCertInfoWriteResult
<1>4. Expected(op, argv) = Asked("CmGetAppCert", a)
  BY DEF Expected
<1> HIDE DEF a
<1> QED
  BY <1>3, <1>4, SameIsAsked, UnchangedCodes DEF IsRight

LEMMA GetAppCertListAsks ==
    ASSUME NEW argv \in Seq(DOMAIN Type),
           NEW op \in {"getAllPublicCertificates", "getAllAppPrivateCertificates", "getAllSystemAppCertificates"},
           NEW c \in CMNapiGetAppCertListCommon(argv, StoreOf(op))
    PROVE  IsRight(c, op, argv)
<1> DEFINE a == [store |-> StoreOf(op)]
<1>1. PICK p \in GetAppCertListParseParams(argv, StoreOf(op)) : \E work :
         c = Entry(p, GetAppCertListExecute(StoreOf(op)), GetAppCertListWriteResult(StoreOf(op)), work)
  BY DEF CMNapiGetAppCertListCommon
<1>3. c.fn = "CmGetAppCertList" /\ c.a = a /\ c.recode = <<>>
  BY <1>1, EntryHas, SdkHas, GivesAsItIs DEF GetAppCertListExecute, GetAppCertListWriteResult
<1>4. Expected(op, argv) = Asked("CmGetAppCertList", a)
  BY DEF Expected
<1> HIDE DEF a
<1> QED
  BY <1>3, <1>4, SameIsAsked, UnchangedCodes DEF IsRight

LEMMA GetCallingAppCertListAsks ==
    ASSUME NEW argv \in Seq(DOMAIN Type),
           NEW op \in {"getPrivateCertificates"},
           NEW c \in CMNapiGetCallingAppCertListCommon(argv, StoreOf(op))
    PROVE  IsRight(c, op, argv)
<1> DEFINE a == [store |-> StoreOf(op)]
<1>1. PICK p \in GetAppCertListParseParams(argv, StoreOf(op)) : \E work :
         c = Entry(p, GetCallingAppCertListExecute(StoreOf(op)),
                   GetAppCertListWriteResult(StoreOf(op)), work)
  BY DEF CMNapiGetCallingAppCertListCommon
<1>3. c.fn = "CmCallingGetAppCertList" /\ c.a = a /\ c.recode = <<>>
  BY <1>1, EntryHas, SdkHas, GivesAsItIs DEF GetCallingAppCertListExecute, GetAppCertListWriteResult
<1>4. Expected(op, argv) = Asked("CmCallingGetAppCertList", a)
  BY DEF Expected
<1> HIDE DEF a
<1> QED
  BY <1>3, <1>4, SameIsAsked, UnchangedCodes DEF IsRight

LEMMA ListByUidAsks ==
    ASSUME NEW argv \in Seq(DOMAIN Type),
           NEW op \in {"getAllAppPrivateCertificatesByUid"},
           NEW c \in CMNapiGetAppCertListByUidCommon(argv, StoreOf(op))
    PROVE  IsRight(c, op, argv)
<1> DEFINE a == [store |-> StoreOf(op), appUid |-> argv[1]]
<1>1. PICK p \in GetAppCertListByUidParseParams(argv) : \E work :
         c = Entry(p, GetAppCertListByUidExecute(p, StoreOf(op)), GetAppCertListByUidWriteResult, work)
  BY DEF CMNapiGetAppCertListByUidCommon
<1>2. p.appUid = argv[1]
  BY ParsedIsNoFunction DEF GetAppCertListByUidParseParams, Arity, Arg
<1>3. c.fn = "CmGetAppCertListByUid" /\ c.a = a /\ c.recode = <<>>
  BY <1>1, <1>2, EntryHas, SdkHas, GivesAsItIs DEF GetAppCertListByUidExecute, GetAppCertListByUidWriteResult
<1>4. Expected(op, argv) = Asked("CmGetAppCertListByUid", a)
  BY DEF Expected
<1> HIDE DEF a
<1> QED
  BY <1>3, <1>4, SameIsAsked, UnchangedCodes DEF IsRight

LEMMA InstallAppCertAsks ==
    ASSUME NEW argv \in Seq(DOMAIN Type),
           NEW op \in {"installPublicCertificate", "installPrivateCertificate", "installSystemAppCertificate"},
           NEW c \in CMNapiInstallAppCertCommon(argv, StoreOf(op))
    PROVE  IsRight(c, op, argv)
<1>1. PICK p \in InstallAppCertParseParams(argv, StoreOf(op)) : \E work :
         c = Entry(p, InstallAppCertExecute(p, StoreOf(op)), InstallAppCertResolve(StoreOf(op)), work)
  BY DEF CMNapiInstallAppCertCommon
<1>2. p.keystore = argv[1] /\ p.keystorePwd = argv[2] /\ (StoreOf(op) = Private => p.keyAlias = argv[3])
  BY ParsedIsNoFunction DEF InstallAppCertParseParams, Arity, Arg
<1>3. CASE op = "installPrivateCertificate"
  <2>1. StoreOf(op) = Private
    BY <1>3 DEF StoreOf
  <2>2. c.fn = "CmInstallAppCertEx" /\ c.a = [appCert |-> argv[1], appCertPwd |-> argv[2], certAlias |-> argv[3],
              store |-> Private, userId |-> "INIT_INVALID_VALUE", level |-> p.level, credFormat |-> "FILE_P12"]
    BY <1>1, <1>2, <2>1, EntryHas, SdkHas DEF InstallAppCertExecute
  <2>3. Expected(op, argv) =
          Asked("CmInstallAppCertEx", [appCert |-> argv[1], appCertPwd |-> argv[2], certAlias |-> argv[3],
                                       store |-> Private, userId |-> "INIT_INVALID_VALUE"])
    BY <1>3, <2>1 DEF Expected
  <2>4. Asks(c, op, argv)
    BY <2>2, <2>3 DEF Asks, Fits, Asked
  <2>5. c.recode = [CMR_ERROR_PASSWORD_IS_ERR |-> "CMR_ERROR_INVALID_CERT_FORMAT"]
    BY <1>1, <2>1, EntryHas DEF InstallAppCertResolve, Gives
  <2>6. Tells(c, op)
    BY <1>3, <2>5 DEF Tells, EndsWell, Recoded
  <2> QED
    BY <2>4, <2>6 DEF IsRight
<1>4. CASE op # "installPrivateCertificate"
  <2> DEFINE a == [appCert |-> argv[1], appCertPwd |-> argv[2], store |-> StoreOf(op)]
  <2>1. StoreOf(op) # Private
    BY <1>4 DEF StoreOf, Private, Public, System
  <2>2. c.fn = "CmInstallAppCert"
        /\ c.a = [appCert |-> argv[1], appCertPwd |-> argv[2], certAlias |-> p.keyAlias, store |-> StoreOf(op)]
    BY <1>1, <1>2, <2>1, EntryHas, SdkHas DEF InstallAppCertExecute
  <2>3. Expected(op, argv) = Asked("CmInstallAppCert", a)
    BY <1>4 DEF Expected
  <2>4. Asks(c, op, argv)
    BY <2>2, <2>3 DEF Asks, Fits, Asked
  <2>5. c.recode = <<>>
    BY <1>1, <2>1, EntryHas DEF InstallAppCertResolve, Gives
  <2> QED
    BY <2>4, <2>5, UnchangedCodes DEF IsRight
<1> QED
  BY <1>3, <1>4

LEMMA UninstallAppCertAsks ==
    ASSUME NEW argv \in Seq(DOMAIN Type),
           NEW op \in {"uninstallPublicCertificate", "uninstallPrivateCertificate", "uninstallSystemAppCertificate"},
           NEW c \in CMNapiUninstallAppCertCommon(argv, StoreOf(op))
    PROVE  IsRight(c, op, argv)
<1> DEFINE a == [keyUri |-> argv[1], store |-> StoreOf(op)]
<1>1. PICK p \in UninstallAppCertParseParams(argv, StoreOf(op)) : \E work :
         c = Entry(p, UninstallAppCertExecute(p, StoreOf(op)), UninstallAppCertResolve(StoreOf(op)), work)
  BY DEF CMNapiUninstallAppCertCommon
<1>2. p.keyUri = argv[1]
  BY ParsedIsNoFunction DEF UninstallAppCertParseParams, UriAndCallback, Arity, Arg
<1>3. c.fn = "CmUninstallAppCert" /\ c.a = a
  BY <1>1, <1>2, EntryHas, SdkHas DEF UninstallAppCertExecute
<1>4. Expected(op, argv) = Asked("CmUninstallAppCert", a)
  BY DEF Expected
<1> HIDE DEF a
<1>5. Asks(c, op, argv)
  BY <1>3, <1>4, SameIsAsked
<1>6. CASE op = "uninstallPrivateCertificate"
  <2>1. StoreOf(op) = Private
    BY <1>6 DEF StoreOf
  <2>2. c.recode = [CMR_ERROR_NOT_EXIST |-> "SUCCESS"]
    BY <1>1, <2>1, EntryHas DEF UninstallAppCertResolve, Gives
  <2>3. Tells(c, op)
    BY <1>6, <2>2 DEF Tells, EndsWell, Recoded
  <2> QED
    BY <1>5, <2>3 DEF IsRight
<1>7. CASE op # "uninstallPrivateCertificate"
  <2>1. StoreOf(op) # Private
    BY <1>7 DEF StoreOf, Private, Public, System
  <2>2. c.recode = <<>>
    BY <1>1, <2>1, EntryHas DEF UninstallAppCertResolve, Gives
  <2> QED
    BY <1>5, <1>7, <2>2, UnchangedCodes DEF IsRight
<1> QED
  BY <1>6, <1>7

\* These ask without an argument.
LEMMA NothingIsAsked ==
    ASSUME NEW c, NEW op, NEW argv, c.fn # "none", c.fn \in Expected(op, argv).fn, Expected(op, argv).a = <<>>
    PROVE  Asks(c, op, argv)
<1>1. DOMAIN Expected(op, argv).a = {}
  OBVIOUS
<1> QED
  BY <1>1 DEF Asks, Fits

LEMMA UninstallAllAsks ==
    ASSUME NEW argv \in Seq(DOMAIN Type)
    PROVE  /\ \A c \in CMNapiUninstallAllAppCert(argv) : IsRight(c, "uninstallAllAppCertificate", argv)
           /\ \A c \in CMNapiUninstallAllUserTrustedCert(argv) : IsRight(c, "uninstallAllUserTrustedCertificate", argv)
<1>1. ASSUME NEW c \in CMNapiUninstallAllAppCert(argv) PROVE IsRight(c, "uninstallAllAppCertificate", argv)
  <2>1. PICK p, work : c = Entry(p, UninstallAllAppCertExecute, UninstallAllAppCertResolve, work)
    BY <1>1 DEF CMNapiUninstallAllAppCert
  <2>2. c.fn = "CmUninstallAllAppCert" /\ c.recode = <<>>
    BY <2>1, EntryHas, SdkHas, GivesAsItIs DEF UninstallAllAppCertExecute, UninstallAllAppCertResolve
  <2>3. Expected("uninstallAllAppCertificate", argv) = Asked("CmUninstallAllAppCert", <<>>)
    BY DEF Expected
  <2> QED
    BY <2>2, <2>3, NothingIsAsked, UnchangedCodes DEF Asked, IsRight
<1>2. ASSUME NEW c \in CMNapiUninstallAllUserTrustedCert(argv)
      PROVE  IsRight(c, "uninstallAllUserTrustedCertificate", argv)
  <2>1. PICK p, work : c = Entry(p, Sdk("CmUninstallAllUserTrustedCert", <<>>), Gives("undefined", "undefined"), work)
    BY <1>2 DEF CMNapiUninstallAllUserTrustedCert
  <2>2. c.fn = "CmUninstallAllUserTrustedCert" /\ c.recode = <<>>
    BY <2>1, EntryHas, SdkHas, GivesAsItIs
  <2>3. Expected("uninstallAllUserTrustedCertificate", argv) = Asked("CmUninstallAllUserTrustedCert", <<>>)
    BY DEF Expected
  <2> QED
    BY <2>2, <2>3, NothingIsAsked, UnchangedCodes DEF Asked, IsRight
<1> QED
  BY <1>1, <1>2

LEMMA StorePathAsks ==
    ASSUME NEW argv \in Seq(DOMAIN Type), NEW c \in CMNapiGetCertStorePath(argv)
    PROVE  IsRight(c, "getCertificateStorePath", argv)
<1>1. PICK p, work : c = Entry(p, GetCertStorePath(p), Gives("path", "path"), work)
  BY DEF CMNapiGetCertStorePath
<1>2. c.fn \in {"Path", "SystemStoreSm", "UserOfCaller"} /\ c.recode = <<>>
  BY <1>1, EntryHas, SdkHas, GivesAsItIs DEF GetCertStorePath
<1>3. Expected("getCertificateStorePath", argv) = [fn |-> {"Path", "SystemStoreSm", "UserOfCaller"}, a |-> <<>>]
  BY DEF Expected
<1> QED
  BY <1>2, <1>3, NothingIsAsked, UnchangedCodes DEF IsRight

LEMMA GetCertListAsks ==
    ASSUME NEW argv \in Seq(DOMAIN Type)
    PROVE  /\ \A c \in CMNapiGetCertList(argv, "CM_SYSTEM_TRUSTED_STORE") :
                 IsRight(c, "getSystemTrustedCertificateList", argv)
           /\ \A c \in CMNapiGetCertList(argv, "CM_USER_TRUSTED_STORE") :
                 IsRight(c, "getAllUserTrustedCertificates", argv)
<1>1. ASSUME NEW store, NEW c \in CMNapiGetCertList(argv, store)
      PROVE  \E p \in GetCertListParseParams(argv, store) :
               c.fn = GetCertListExecute(p, store).fn /\ c.a = GetCertListExecute(p, store).a /\ c.recode = <<>>
  <2>1. PICK p \in GetCertListParseParams(argv, store) :
          \E work : c = Entry(p, GetCertListExecute(p, store), GetCertListWriteResult(store), work)
    BY <1>1 DEF CMNapiGetCertList
  <2> QED
    BY <2>1, EntryHas, GivesAsItIs DEF GetCertListWriteResult
<1>2. ASSUME NEW c \in CMNapiGetCertList(argv, "CM_SYSTEM_TRUSTED_STORE")
      PROVE  IsRight(c, "getSystemTrustedCertificateList", argv)
  <2> DEFINE a == [store |-> "CM_SYSTEM_TRUSTED_STORE"]
  <2>3. \E p : /\ c.fn = GetCertListExecute(p, "CM_SYSTEM_TRUSTED_STORE").fn
               /\ c.a = GetCertListExecute(p, "CM_SYSTEM_TRUSTED_STORE").a /\ c.recode = <<>>
    BY <1>1
  <2>1. c.fn = "CmGetCertList" /\ c.a = a /\ c.recode = <<>>
    BY <2>3, SdkHas DEF GetCertListExecute
  <2>2. Expected("getSystemTrustedCertificateList", argv) = Asked("CmGetCertList", a)
    BY DEF Expected, StoreOf
  <2> HIDE DEF a
  <2> QED
    BY <2>1, <2>2, SameIsAsked, UnchangedCodes DEF IsRight
<1>3. ASSUME NEW c \in CMNapiGetCertList(argv, "CM_USER_TRUSTED_STORE")
      PROVE  IsRight(c, "getAllUserTrustedCertificates", argv)
  <2>1. PICK p \in GetCertListParseParams(argv, "CM_USER_TRUSTED_STORE") :
          /\ c.fn = GetCertListExecute(p, "CM_USER_TRUSTED_STORE").fn
          /\ c.a = GetCertListExecute(p, "CM_USER_TRUSTED_STORE").a /\ c.recode = <<>>
    BY <1>1
  <2>2. CASE argv = <<>>
    <3> DEFINE a == [store |-> "CM_USER_TRUSTED_STORE"]
    <3>1. p.scope = "none"
      BY <2>2 DEF GetCertListParseParams
    <3>2. c.fn = "CmGetUserCertList" /\ c.a = a
      BY <2>1, <3>1, SdkHas DEF GetCertListExecute
    <3>3. Expected("getAllUserTrustedCertificates", argv) = Asked("CmGetUserCertList", a)
      BY <2>2 DEF Expected
    <3> HIDE DEF a
    <3> QED
      BY <2>1, <3>2, <3>3, SameIsAsked, UnchangedCodes DEF IsRight
  <2>3. CASE argv # <<>>
    <3>1. p.scope = argv[1] /\ p.scope # "none"
      BY <2>3, ParsedIsNoFunction DEF GetCertListParseParams, OneOf, IsValidCertScope
    <3>2. c.fn = "CmGetUserCACertList" /\ c.a = [userId |-> "INIT_INVALID_VALUE", scope |-> argv[1]]
      BY <2>1, <3>1, SdkHas DEF GetCertListExecute
    <3>3. Expected("getAllUserTrustedCertificates", argv) = Asked("CmGetUserCACertList", [scope |-> argv[1]])
      BY <2>3 DEF Expected
    <3>4. Asks(c, "getAllUserTrustedCertificates", argv)
      BY <3>2, <3>3 DEF Asks, Fits, Asked
    <3> QED
      BY <2>1, <3>4, UnchangedCodes DEF IsRight
  <2> QED
    BY <2>2, <2>3
<1> QED
  BY <1>2, <1>3

LEMMA GetCertInfoAsks ==
    ASSUME NEW argv \in Seq(DOMAIN Type),
           NEW op \in {"getSystemTrustedCertificate", "getUserTrustedCertificate"},
           NEW c \in CMNapiGetCertInfo(argv, StoreOf(op))
    PROVE  IsRight(c, op, argv)
<1> DEFINE a == [certUri |-> argv[1], store |-> StoreOf(op)]
           fn == IF StoreOf(op) = "CM_SYSTEM_TRUSTED_STORE" THEN "CmGetCertInfo" ELSE "CmGetUserCertInfo"
<1>1. PICK p \in GetCertInfoParseParams(argv) : \E work :
         c = Entry(p, GetCertInfoExecute(p, StoreOf(op)), GetCertInfoWriteResult(StoreOf(op)), work)
  BY DEF CMNapiGetCertInfo
<1>2. p.certUri = argv[1]
  BY ParsedIsNoFunction DEF GetCertInfoParseParams, Arity, Arg
<1>3. c.fn = fn /\ c.a = a /\ c.recode = <<>>
  BY <1>1, <1>2, EntryHas, SdkHas, GivesAsItIs DEF GetCertInfoExecute, GetCertInfoWriteResult
<1>4. Expected(op, argv) = Asked(fn, a) /\ fn # "none"
  BY DEF Expected, StoreOf
<1> HIDE DEF a, fn
<1> QED
  BY <1>3, <1>4, SameIsAsked, UnchangedCodes DEF IsRight

LEMMA InstallUserCertExecutes ==
    ASSUME NEW p
    PROVE  LET x == InstallUserCertExecute(p)
           IN  \/ x.fn = "none" /\ x.a = "CMR_ERROR_INVALID_ARGUMENT"
               \/ /\ x.fn = IF p.certFormat = "P7B" THEN "CmInstallUserTrustedP7BCert" ELSE "CmInstallUserCACert"
                  /\ x.a = [userCert |-> p.userCert, userId |-> UserOf(p.certScope), status |-> "true"]
  BY SdkHas DEF InstallUserCertExecute, ScopeUser, Fails, UserOf

LEMMA InstallUserTrustedCertAsks ==
    ASSUME NEW argv \in Seq(DOMAIN Type), NEW c \in CMNapiInstallUserTrustedCert(argv)
    PROVE  IsRight(c, "installUserTrustedCertificate", argv)
<1> DEFINE op == "installUserTrustedCertificate"
           fn == IF Prop(argv[1], "certFormat") = "P7B" THEN "CmInstallUserTrustedP7BCert" ELSE "CmInstallUserCACert"
           data == Prop(argv[1], "certData")
           user == UserOf(Option(argv[1], "certScope", "CM_CURRENT_USER"))
<1>1. PICK p \in ParseInstallUserCertParams(argv) : \E work :
         c = Entry(p, InstallUserCertExecute(p), ConvertInstallCertResult(p), work)
  BY DEF CMNapiInstallUserTrustedCert
<1>2. /\ p.userCert = data /\ (p.certFormat = "P7B" <=> Prop(argv[1], "certFormat") = "P7B")
      /\ p.certScope = Option(argv[1], "certScope", "CM_CURRENT_USER")
  BY ParsedIsNoFunction, OptionsRead DEF ParseInstallUserCertParams, Arity, Arg
<1>3. c.recode = <<>> /\ c.fn = InstallUserCertExecute(p).fn /\ c.a = InstallUserCertExecute(p).a
  BY <1>1, EntryHas, GivesAsItIs DEF ConvertInstallCertResult
<1>4. \/ c.fn = "none" /\ c.a = "CMR_ERROR_INVALID_ARGUMENT"
      \/ c.fn = fn /\ c.a = [userCert |-> data, userId |-> user, status |-> "true"]
  BY <1>2, <1>3, InstallUserCertExecutes
<1>5. Expected(op, argv) = Asked(fn, [userCert |-> data, status |-> "true", userId |-> user])
  BY DEF Expected
<1>6. fn # "none"
  OBVIOUS
<1> HIDE DEF fn, data, user
<1>7. Asks(c, op, argv)
  BY <1>4, <1>5, <1>6 DEF Asks, Fits, Asked
<1> QED
  BY <1>3, <1>7, UnchangedCodes DEF IsRight

LEMMA InstallUserCertSyncAsks ==
    ASSUME NEW argv \in Seq(DOMAIN Type), NEW c \in CMNapiInstallUserTrustedCertSync(argv)
    PROVE  IsRight(c, "installUserTrustedCertificateSync", argv)
<1> DEFINE op == "installUserTrustedCertificateSync"
           user == UserOf(argv[2])
<1>1. PICK p \in ParseInstallUserCertSyncParams(argv) : \E work :
         c = Entry(p, InstallUserCertSyncExecute(p), Gives("uri", "uri"), work)
  BY DEF CMNapiInstallUserTrustedCertSync
<1>2. p.userCert = argv[1] /\ p.certFormat = "PEM_DER" /\ p.certScope = argv[2]
  BY ParsedIsNoFunction DEF ParseInstallUserCertSyncParams, Arity, Arg
<1>3. c.recode = <<>> /\ c.fn = InstallUserCertExecute(p).fn /\ c.a = InstallUserCertExecute(p).a
  BY <1>1, EntryHas, GivesAsItIs DEF InstallUserCertSyncExecute
<1>4. \/ c.fn = "none" /\ c.a = "CMR_ERROR_INVALID_ARGUMENT"
      \/ c.fn = "CmInstallUserCACert" /\ c.a = [userCert |-> argv[1], userId |-> user, status |-> "true"]
  BY <1>2, <1>3, InstallUserCertExecutes
<1>5. Expected(op, argv) = Asked("CmInstallUserCACert", [userCert |-> argv[1], status |-> "true", userId |-> user])
  BY DEF Expected
<1> HIDE DEF user
<1>7. Asks(c, op, argv)
  BY <1>4, <1>5 DEF Asks, Fits, Asked
<1> QED
  BY <1>3, <1>7, UnchangedCodes DEF IsRight

\* The one that signs is told by its arguments.
LEMMA FinishAsks ==
    ASSUME NEW argv \in Seq(DOMAIN Type), NEW c \in CMNapiFinish(argv)
    PROVE  IsRight(c, "finish", argv)
<1> DEFINE signs == Len(argv) = 1 \/ Type[argv[2]] = "function"
           a == IF signs THEN [handle |-> argv[1], inData |-> "empty", outData |-> "out"]
                ELSE [handle |-> argv[1], inData |-> argv[2], outData |-> "empty"]
<1>1. PICK p \in ParseCMFinishParams(argv) : \E work :
         c = Entry(p, FinishExecute(p), ConvertResultSignature(p), work)
  BY DEF CMNapiFinish
<1>2. /\ p.handle = argv[1] /\ (p.isSign <=> signs)
      /\ p.signature = IF signs THEN "out" ELSE argv[2]
  <2>1. PICK h \in GetUint8Array(Arg(argv, 1)) :
          /\ Arity(argv, 1, 3)
          /\ p \in CASE Len(argv) = 1 -> ProcessFinishOneParam(h)
                     [] Len(argv) = 2 -> ProcessFinishTwoParam(h, argv[2])
                     [] OTHER -> ProcessFinishThreeParam(h, argv[2], argv[3])
    BY DEF ParseCMFinishParams
  <2>2. h = argv[1]
    BY <2>1, ParsedIsNoFunction DEF Arity, Arg
  <2>3. CASE Len(argv) = 1
    BY <2>1, <2>2, <2>3 DEF ProcessFinishOneParam, Signs
  <2>4. CASE Len(argv) = 2
    BY <2>1, <2>2, <2>4, ParsedIsNoFunction DEF ProcessFinishTwoParam, Signs, Verifies
  <2>5. CASE Len(argv) \notin {1, 2}
    BY <2>1, <2>2, <2>5, ParsedIsNoFunction DEF ProcessFinishThreeParam, Verifies
  <2> QED
    BY <2>3, <2>4, <2>5
<1>3. c.recode = <<>> /\ c.fn = FinishExecute(p).fn /\ c.a = FinishExecute(p).a
  BY <1>1, EntryHas, GivesAsItIs DEF ConvertResultSignature
<1>4. c.fn = "CmFinish" /\ c.a = a
  BY <1>2, <1>3, SdkHas DEF FinishExecute
<1>5. Expected("finish", argv) = Asked("CmFinish", a)
  BY DEF Expected
<1> HIDE DEF a, signs
<1> QED
  BY <1>3, <1>4, <1>5, SameIsAsked, UnchangedCodes DEF IsRight

\* All of them together.
LEMMA EveryApiIsRight ==
    ASSUME NEW op \in CredentialNames \cup CertificateNames \cup KeyNames,
           NEW argv \in Seq(DOMAIN Type), NEW c \in Parse(op, argv)
    PROVE  IsRight(c, op, argv)
<1>1. CASE op \in CredentialNames
  <2>1. c \in CredentialApis(op, argv)
    BY <1>1 DEF Parse
  <2>2. CASE op \in {"installPublicCertificate", "installPrivateCertificate", "installSystemAppCertificate"}
    <3>1. c \in CMNapiInstallAppCertCommon(argv, StoreOf(op))
      BY <2>1, <2>2 DEF CredentialApis, StoreOf
    <3> QED
      BY <2>2, <3>1, InstallAppCertAsks
  <2>3. CASE op \in {"uninstallPublicCertificate", "uninstallPrivateCertificate", "uninstallSystemAppCertificate"}
    <3>1. c \in CMNapiUninstallAppCertCommon(argv, StoreOf(op))
      BY <2>1, <2>3 DEF CredentialApis, StoreOf
    <3> QED
      BY <2>3, <3>1, UninstallAppCertAsks
  <2>4. CASE op \in {"getPublicCertificate", "getPrivateCertificate", "getSystemAppCertificate"}
    <3>1. c \in CMNapiGetAppCertInfoCommon(argv, StoreOf(op))
      BY <2>1, <2>4 DEF CredentialApis, StoreOf
    <3> QED
      BY <2>4, <3>1, GetAppCertInfoAsks
  <2>5. CASE op \in {"getAllPublicCertificates", "getAllAppPrivateCertificates", "getAllSystemAppCertificates"}
    <3>1. c \in CMNapiGetAppCertListCommon(argv, StoreOf(op))
      BY <2>1, <2>5 DEF CredentialApis, StoreOf
    <3> QED
      BY <2>5, <3>1, GetAppCertListAsks
  <2>6. CASE op = "getPrivateCertificates"
    <3>1. c \in CMNapiGetCallingAppCertListCommon(argv, StoreOf(op))
      BY <2>1, <2>6 DEF CredentialApis, StoreOf
    <3> QED
      BY <2>6, <3>1, GetCallingAppCertListAsks
  <2>7. CASE op = "getAllAppPrivateCertificatesByUid"
    <3>1. c \in CMNapiGetAppCertListByUidCommon(argv, StoreOf(op))
      BY <2>1, <2>7 DEF CredentialApis, StoreOf
    <3> QED
      BY <2>7, <3>1, ListByUidAsks
  <2>8. CASE op = "uninstallAllAppCertificate"
    BY <2>1, <2>8, UninstallAllAsks DEF CredentialApis
  <2> QED
    BY <1>1, <2>2, <2>3, <2>4, <2>5, <2>6, <2>7, <2>8 DEF CredentialNames
<1>2. CASE op \in CertificateNames
  <2>1. c \in CertificateApis(op, argv)
    BY <1>2 DEF Parse, CredentialNames, CertificateNames
  <2>2. CASE op \in {"getSystemTrustedCertificate", "getUserTrustedCertificate"}
    <3>1. c \in CMNapiGetCertInfo(argv, StoreOf(op))
      BY <2>1, <2>2 DEF CertificateApis, StoreOf
    <3> QED
      BY <2>2, <3>1, GetCertInfoAsks
  <2>3. CASE op \in {"getSystemTrustedCertificateList", "getAllUserTrustedCertificates", "setCertificateStatus"}
    BY <2>1, <2>3, GetCertListAsks, SetCertStatusAsks DEF CertificateApis
  <2>4. CASE op \in {"installUserTrustedCertificate", "installUserTrustedCertificateSync"}
    BY <2>1, <2>4, InstallUserTrustedCertAsks, InstallUserCertSyncAsks DEF CertificateApis
  <2>5. CASE op \in {"uninstallAllUserTrustedCertificate", "uninstallUserTrustedCertificateSync",
                     "getCertificateStorePath"}
    BY <2>1, <2>5, UninstallAllAsks, UninstallUserCertSyncAsks, StorePathAsks DEF CertificateApis
  <2> QED
    BY <1>2, <2>2, <2>3, <2>4, <2>5 DEF CertificateNames
<1>3. CASE op \in KeyNames
  <2>1. c \in KeyApis(op, argv)
    BY <1>3 DEF Parse, CredentialNames, CertificateNames, KeyNames
  <2>2. CASE op \in {"grantPublicCertificate", "removeGrantedPublicCertificate", "isAuthorizedApp",
                     "getAuthorizedAppList"}
    BY <2>1, <2>2, GrantAsks, RemoveGrantedAsks, IsAuthorizedAsks, AuthorizedListAsks DEF KeyApis
  <2>3. CASE op \in {"init", "update", "finish", "abort"}
    BY <2>1, <2>3, InitAsks, UpdateAsks, FinishAsks, AbortAsks DEF KeyApis
  <2>4. CASE op \in {"getUkeyCertificateList", "getUkeyCertificate", "importUkeyCertificate"}
    BY <2>1, <2>4, UkeyCertListAsks, UkeyCertAsks, ImportAsks DEF KeyApis
  <2> QED
    BY <1>3, <2>2, <2>3, <2>4 DEF KeyNames
<1> QED
  BY <1>1, <1>2, <1>3

-----------------------------------------------------------------------------
(* The invariant of the request to the SDK and what is told of it.          *)
Done == \E r \in sdk : Accepted(r) /\ Fits(r, Expected(call.op, call.argv))

\* The SDK was not asked before the worker ran; the code the worker left is a
\* success if what was asked for was done.
WorkInv ==
    /\ pc \notin {"complete", "done"} => sdk = {}
    /\ pc \in {"work", "execute", "complete"} => \A c \in context : IsRight(c, call.op, call.argv)
    /\ pc = "complete" => (result = "SUCCESS" <=> Done)
    /\ SuccessIsDone

LEMMA NoErrorIsNone ==
    ASSUME NEW c
    PROVE  ErrorOf(c) # "none"
<1>1. \A code : TranformErrorCode(code) # "none"
  BY DEF TranformErrorCode, NATIVE_CODE_TO_JS_CODE_MAP
<1> QED
  BY <1>1 DEF ErrorOf

LEMMA DialogStepKeepsWorkInv ==
    ASSUME DialogStep, DialogInv, WorkInv
    PROVE  WorkInv'
<1>1. pc \notin ApiPcs /\ pc' \notin ApiPcs /\ UNCHANGED api
  BY DialogStepIsNoFunction
<1> QED
  BY <1>1 DEF WorkInv, SuccessIsDone, ApiPcs, api

LEMMA ExecuteKeepsWorkInv ==
    ASSUME NEW c \in context, Execute(c), WorkInv
    PROVE  WorkInv'
<1>1. /\ pc \in {"work", "execute"} /\ pc' = "complete" /\ UNCHANGED <<call, context>>
      /\ sdk = {} /\ \A d \in context : IsRight(d, call.op, call.argv)
  BY DEF Execute, WorkInv
<1>2. Done' <=> \E r \in sdk' : EndsWell(call.op, r.code) /\ Fits(r, Expected(call.op, call.argv))
  BY <1>1 DEF Done, Accepted, EndsWell
<1>3. (result' = "SUCCESS") <=> Done'
  <2>1. CASE UNCHANGED sdk
    <3>1. result' # "SUCCESS"
      <4>1. (c.fn = "none" /\ result' = c.a) \/ result' = "CMR_ERROR_MALLOC_FAIL"
        BY <1>1, <2>1 DEF Execute
      <4>2. c.fn = "none" => c.a # "SUCCESS"
        BY <1>1 DEF IsRight, Asks
      <4> QED
        BY <4>1, <4>2
    <3> QED
      BY <1>1, <1>2, <2>1, <3>1
  <2>2. ASSUME NEW code, c.fn # "none", result' = Recoded(c, code), sdk' = {[fn |-> c.fn, a |-> c.a, code |-> code]}
        PROVE  (result' = "SUCCESS") <=> Done'
    <3>1. Fits(c, Expected(call.op, call.argv)) /\ Tells(c, call.op)
      BY <1>1, <2>2 DEF IsRight, Asks
    <3>2. PICK r : r = [fn |-> c.fn, a |-> c.a, code |-> code]
      OBVIOUS
    <3>3. Fits(r, Expected(call.op, call.argv)) /\ r.code = code
      BY <3>1, <3>2 DEF Fits
    <3>4. Done' <=> EndsWell(call.op, code)
      BY <1>2, <2>2, <3>2, <3>3
    <3> QED
      BY <2>2, <3>1, <3>4 DEF Tells
  <2> QED
    BY <2>1, <2>2 DEF Execute
<1>4. \A d \in context' : IsRight(d, call'.op, call'.argv)
  BY <1>1
<1> QED
  BY <1>1, <1>3, <1>4 DEF WorkInv, SuccessIsDone

LEMMA CompleteKeepsWorkInv ==
    ASSUME NEW c \in context, Complete(c), DialogInv, WorkInv
    PROVE  WorkInv'
<1>1. /\ pc = "complete" /\ pc' = "done" /\ UNCHANGED <<call, context, sdk, result>> /\ seen = <<>>
      /\ (result = "SUCCESS") <=> Done
  BY DEF Complete, WorkInv, DialogInv, NothingSeen
<1>2. Done' <=> Done
  BY <1>1 DEF Done, Accepted
<1>3. PICK s : seen' = Append(seen, s) /\ ((s.err = "none") <=> (result = "SUCCESS"))
  <2>1. CASE result = "SUCCESS"
    BY <2>1 DEF Complete, See
  <2>2. CASE result # "SUCCESS"
    BY <2>2, NoErrorIsNone DEF Complete, See
  <2> QED
    BY <2>1, <2>2
<1>4. seen'[1] = s
  BY <1>1, <1>3
<1>5. SuccessIsDone'
  BY <1>1, <1>2, <1>3, <1>4 DEF SuccessIsDone, Done
<1> QED
  BY <1>1, <1>5 DEF WorkInv

LEMMA CallStepKeepsWorkInv ==
    ASSUME CallStep, DialogInv, ApiInv, WorkInv
    PROVE  WorkInv'
<1>1. pc \notin {"done", "open", "over"} => seen = <<>>
  BY DEF DialogInv, NothingSeen
<1>2. CASE Call
  BY <1>2 DEF Call, Invoke, api, WorkInv, SuccessIsDone
<1>3. CASE CreateContext \/ (ParseParams /\ context' = {}) \/ \E c \in context : AsyncWork(c) /\ pc' = "done"
  <2>1. /\ \/ pc' = "parse"
           \/ pc' = "done" /\ \E s : seen' = Append(seen, s) /\ s.how \in {"throw", "noMemory"}
        /\ pc \in {"parse", "work"} /\ UNCHANGED sdk
    <3>1. CASE CreateContext
      BY <3>1 DEF CreateContext, See
    <3>2. CASE ParseParams /\ context' = {}
      BY <3>2 DEF ParseParams, See
    <3>3. ASSUME NEW c \in context, AsyncWork(c), pc' = "done"
          PROVE  /\ \E s : seen' = Append(seen, s) /\ s.how \in {"throw", "noMemory"}
                 /\ pc = "work" /\ UNCHANGED sdk
      BY <3>3 DEF AsyncWork, See
    <3> QED
      BY <1>3, <3>1, <3>2, <3>3
  <2>2. pc' = "done" => seen'[1].how \in {"throw", "noMemory"}
    BY <1>1, <2>1
  <2> QED
    BY <2>1, <2>2 DEF WorkInv, SuccessIsDone
<1>4. CASE ParseParams /\ context' # {}
  <2>1. pc = "parse" /\ pc' = "work" /\ context' = Parse(call.op, call.argv) /\ UNCHANGED <<call, sdk>>
    BY <1>4 DEF ParseParams
  <2>2. call \in Calls
    BY <2>1 DEF ApiInv, ApiPcs
  <2>3. \A c \in context' : IsRight(c, call.op, call.argv)
    BY <2>1, <2>2, CallsAssumption, EveryApiIsRight
  <2> QED
    BY <2>1, <2>3 DEF WorkInv, SuccessIsDone
<1>5. ASSUME NEW c \in context, AsyncWork(c), pc' # "done" PROVE WorkInv'
  <2>1. pc = "work" /\ pc' = "execute" /\ UNCHANGED <<call, context, sdk>>
    BY <1>5 DEF AsyncWork
  <2> QED
    BY <2>1 DEF WorkInv, SuccessIsDone
<1>6. CASE Return
  BY <1>6 DEF Return, GiveBack, WorkInv, SuccessIsDone
<1> QED
  BY <1>2, <1>3, <1>4, <1>5, <1>6, ExecuteKeepsWorkInv, CompleteKeepsWorkInv DEF CallStep, ApiNext

\* JavaScript is told of a success exactly when the SDK was asked for what the
\* arguments say, each in its place, and succeeded: for each of the 36
\* functions of the kit, any values of any kinds and any codes of the SDK
\* (every ...Execute and ...Complete of the kit).
THEOREM SuccessIsWhatWasAsked == Spec => []SuccessIsDone
<1>1. Init => WorkInv
  BY DEF Init, Idle, ApiInit, WorkInv, SuccessIsDone
<1>2. DialogInv /\ ApiInv /\ WorkInv /\ [Next]_vars => WorkInv'
  <2> SUFFICES ASSUME DialogInv, ApiInv, WorkInv, [Next]_vars PROVE WorkInv'
    OBVIOUS
  <2>1. CASE UNCHANGED vars
    BY <2>1 DEF vars, api, WorkInv, SuccessIsDone, Done, Accepted
  <2> QED
    BY <2>1, CallStepKeepsWorkInv, DialogStepKeepsWorkInv DEF Next
<1>3. WorkInv => SuccessIsDone
  BY DEF WorkInv
<1> QED
  BY <1>1, <1>2, <1>3, ApiInvIsInvariant, DialogInvIsInvariant, PTL DEF Spec, vars
=============================================================================
