-------------------------- MODULE ShadowSyncSafety --------------------------
(***************************************************************************)
(* Why the timeout-and-resend loop keeps device and shadow in agreement:   *)
(* the inductive invariant behind SyncUnlessStale, and its proof.          *)
(*                                                                         *)
(* The argument, in the code's terms.  A token is fresh when it is taken  *)
(* (line 850), so every report and every response in transit is told     *)
(* apart by its token.  The service gives each report one verdict, and a  *)
(* response to the outstanding report carries the powerOn the shadow     *)
(* holds, since nothing queued after that report exists yet and nothing    *)
(* queued before it is left.  So when the accepted callback writes         *)
(* ulReportedPowerOnState (line 685) it writes the shadow's value, and     *)
(* when no write happens the timeout (line 888) puts the sentinel there.   *)
(***************************************************************************)
EXTENDS ShadowSyncProofs, TLAPS

(* The hypotheses on the constants, each shown necessary by a run: a tick  *)
(* count that is a multiple of 10^6 gives token 0 (token_zero); an         *)
(* application clientToken that strtoul reads as a device token passes the *)
(* check at line 661 (app_token); a delta powerOn equal to the           *)
(* sentinel (sentinel); a shadow that holds another value than the         *)
(* device's initial 0 (restart).                                           *)
SyncHypotheses ==
    /\ 0 \notin Tokens
    /\ AppTokens \cap Tokens = {}
    /\ INVALID_POWERON_STATE \notin Values
    /\ InitShadowReported = {0}

(* The responses in transit or in the callback.                            *)
InTransit == inbox \cup (IF cb = CbIdle THEN {} ELSE {cb.msg})

AccOf(t) == {a \in InTransit : a.topic = "accepted" /\ a.clientToken = t}

RejOf(t) == {a \in InTransit : a.topic = "rejected" /\ a.clientToken = t}

(* Reports in the queue carry distinct tokens.                             *)
ReportTokensDistinct ==
    \A i, j \in DOMAIN toShadow :
        toShadow[i].clientToken = toShadow[j].clientToken => i = j

(* The report of the current token is the last one queued.                 *)
CurrentReportLast ==
    \A i \in DOMAIN toShadow :
        toShadow[i].clientToken = ulClientToken => i = Len(toShadow)

(* An accepted response echoes the powerOn of the report with its token.   *)
ResponseMatchesReport ==
    \A i \in DOMAIN toShadow : \A a \in AccOf(toShadow[i].clientToken) :
        a.powerOn = toShadow[i].powerOn

(* A report that has been answered is at the head, and keeps the verdict   *)
(* it was given.                                                           *)
VerdictConsistent ==
    \A i \in DOMAIN toShadow :
        /\ RejOf(toShadow[i].clientToken) # {} => i = 1 /\ headVerdict = "rejected"
        /\ AccOf(toShadow[i].clientToken) # {} => i = 1 /\ headVerdict = "accepted"

(* Once the outstanding report is accepted, its responses carry the        *)
(* shadow's powerOn and it is the only report left.                        *)
CurrentAcceptedMatchesShadow ==
    ulClientToken \in Tokens /\ AccOf(ulClientToken) # {} =>
        /\ \A a \in AccOf(ulClientToken) : a.powerOn = shadowReported
        /\ \A i \in DOMAIN toShadow : toShadow[i].clientToken = ulClientToken

(* An accepted response carries a reported powerOn exactly when it is the  *)
(* service's answer to a report, not the application's.                    *)
ServiceAccepted ==
    \A a \in InTransit :
        a.topic = "accepted" => (a.clientToken \in Tokens <=> a.powerOn \in Values)

(* The accepted callback notifies only after its write (line 685 before    *)
(* 689), unless the timeout has put the sentinel since.                    *)
NotifyAfterWrite ==
    /\ cb.step = "notify"
    /\ cb.msg.topic = "accepted"
    /\ cb.msg.clientToken = ulClientToken
    /\ ulClientToken \in Tokens
    => ulReportedPowerOnState \in {cb.msg.powerOn, INVALID_POWERON_STATE}

(* A queued report cannot make the shadow disagree with the reported state: *)
(* it carries that state, is not valid JSON, has been rejected, or is the  *)
(* outstanding report, still unanswered.                                   *)
Benign(i) ==
    \/ toShadow[i].powerOn = ulReportedPowerOnState
    \/ ~toShadow[i].ok
    \/ i = 1 /\ headVerdict = "rejected"
    \/ /\ toShadow[i].clientToken = ulClientToken
       /\ ulClientToken \in Tokens
       /\ pc \in {"wait", "timedOut"}
       /\ ~answered

(* The outstanding report has been accepted and its response not yet       *)
(* handled.                                                                *)
CurrentAccepted ==
    /\ ulClientToken \in Tokens
    /\ pc \in {"wait", "timedOut"}
    /\ ~answered
    /\ RejOf(ulClientToken) = {}
    /\ \A i \in DOMAIN toShadow :
         toShadow[i].clientToken = ulClientToken /\ toShadow[i].powerOn = shadowReported
    /\ toShadow # <<>> => headVerdict = "accepted"

(* Unless a race has struck, a reported state other than the sentinel is   *)
(* the shadow's, or the outstanding report has just been accepted.         *)
ReportedMatchesShadow ==
    ~stale /\ ulReportedPowerOnState # INVALID_POWERON_STATE =>
        \/ /\ shadowReported = ulReportedPowerOnState
           /\ \A i \in DOMAIN toShadow : Benign(i)
        \/ CurrentAccepted

SyncInv ==
    /\ IInv
    /\ ReportTokensDistinct
    /\ CurrentReportLast
    /\ ResponseMatchesReport
    /\ VerdictConsistent
    /\ CurrentAcceptedMatchesShadow
    /\ ServiceAccepted
    /\ NotifyAfterWrite
    /\ ReportedMatchesShadow

-----------------------------------------------------------------------------
(* The conjuncts about the queue and the responses, which only the          *)
(* network, the service, the callbacks and the token change.               *)
Correlation ==
    /\ ReportTokensDistinct
    /\ CurrentReportLast
    /\ ResponseMatchesReport
    /\ VerdictConsistent
    /\ CurrentAcceptedMatchesShadow
    /\ ServiceAccepted

LEMMA SyncInvSplit ==
    SyncInv <=> IInv /\ Correlation /\ NotifyAfterWrite /\ ReportedMatchesShadow
BY DEF SyncInv, Correlation

LEMMA SyncInvSplitNext ==
    SyncInv' <=> IInv' /\ Correlation' /\ NotifyAfterWrite' /\ ReportedMatchesShadow'
BY DEF SyncInv, Correlation

(* The initial state satisfies SyncInv: nothing is queued or in transit,   *)
(* and device and shadow both hold 0.                                       *)
LEMMA InitSyncInv == SyncHypotheses /\ Init => SyncInv
<1> SUFFICES ASSUME SyncHypotheses, Init PROVE SyncInv
  OBVIOUS
<1>1. IInv
  BY InitIInv
<1>2. InTransit = {}
  BY DEF Init, InTransit
<1>3. Correlation
  BY <1>2 DEF Init, Correlation, ReportTokensDistinct, CurrentReportLast,
     ResponseMatchesReport, VerdictConsistent, CurrentAcceptedMatchesShadow,
     ServiceAccepted, AccOf, RejOf
<1>4. NotifyAfterWrite
  BY DEF Init, NotifyAfterWrite, CbIdle
<1>5. ReportedMatchesShadow
  BY DEF Init, SyncHypotheses, ReportedMatchesShadow
<1>6. QED
  BY <1>1, <1>3, <1>4, <1>5, SyncInvSplit

(* A step that leaves the queue, the verdict, the responses, the callback, *)
(* the shadow and the token alone keeps Correlation.                        *)
LEMMA CorrelationFrame ==
    ASSUME Correlation,
           UNCHANGED <<toShadow, headVerdict, inbox, cb, shadowReported, ulClientToken>>
    PROVE  Correlation'
BY DEF Correlation, ReportTokensDistinct, CurrentReportLast,
   ResponseMatchesReport, VerdictConsistent, CurrentAcceptedMatchesShadow,
   ServiceAccepted, AccOf, RejOf, InTransit

-----------------------------------------------------------------------------
(* The shadow task's steps that touch neither the token nor the reported   *)
(* state.                                                                  *)
LEMMA TaskControlSyncInv ==
    ASSUME SyncHypotheses, SyncInv,
           CheckUnchanged \/ CheckChanged \/ WaitTimeout \/ Sleep
    PROVE  SyncInv'
<1>1. IInv'
  BY NextIInv, SyncInvSplit DEF Next, ShadowTask
<1>2. UNCHANGED <<toShadow, headVerdict, inbox, cb, shadowReported, ulClientToken,
                  ulReportedPowerOnState, answered, stale>>
  BY DEF CheckUnchanged, CheckChanged, WaitTimeout, Sleep, env, ghost
<1>3. Correlation'
  BY <1>2, CorrelationFrame, SyncInvSplit
<1>4. NotifyAfterWrite'
  BY <1>2, SyncInvSplit DEF NotifyAfterWrite
<1>5. ReportedMatchesShadow'
  <2>1. CASE WaitTimeout
    BY <1>2, <2>1, SyncInvSplit
       DEF WaitTimeout, ReportedMatchesShadow, Benign, CurrentAccepted, RejOf,
           AccOf, InTransit
  <2>2. CASE ~WaitTimeout
    <3>1. pc \notin {"wait", "timedOut"} /\ pc' \notin {"wait", "timedOut"}
      BY <2>2 DEF CheckUnchanged, CheckChanged, Sleep
    <3>2. QED
      BY <1>2, <3>1, SyncInvSplit
         DEF ReportedMatchesShadow, Benign, CurrentAccepted
  <2>3. QED
    BY <2>1, <2>2
<1>6. QED
  BY <1>1, <1>3, <1>4, <1>5, SyncInvSplitNext

(* Lines 881-889: the sentinel makes ReportedMatchesShadow hold trivially. *)
LEMMA TimedOutSyncInv ==
    ASSUME SyncHypotheses, SyncInv, TimedOut
    PROVE  SyncInv'
<1>1. IInv'
  BY NextIInv, SyncInvSplit DEF Next, ShadowTask
<1>2. UNCHANGED <<toShadow, headVerdict, inbox, cb, shadowReported, ulClientToken>>
  BY DEF TimedOut, env
<1>3. Correlation'
  BY <1>2, CorrelationFrame, SyncInvSplit
<1>4. ulReportedPowerOnState' = INVALID_POWERON_STATE
  BY DEF TimedOut
<1>5. NotifyAfterWrite' /\ ReportedMatchesShadow'
  BY <1>4 DEF NotifyAfterWrite, ReportedMatchesShadow
<1>6. QED
  BY <1>1, <1>3, <1>5, SyncInvSplitNext

(* Line 879: a wait ended by a notification that no response to the        *)
(* current report gave makes stale; otherwise the response has been        *)
(* handled and no queued report is the unanswered outstanding one.         *)
LEMMA WaitNotifiedSyncInv ==
    ASSUME SyncHypotheses, SyncInv, WaitNotified
    PROVE  SyncInv'
<1>1. IInv'
  BY NextIInv, SyncInvSplit DEF Next, ShadowTask
<1>2. UNCHANGED <<toShadow, headVerdict, inbox, cb, shadowReported, ulClientToken,
                  ulReportedPowerOnState, answered>>
  BY DEF WaitNotified, env
<1>3. Correlation'
  BY <1>2, CorrelationFrame, SyncInvSplit
<1>4. NotifyAfterWrite'
  BY <1>2, SyncInvSplit DEF NotifyAfterWrite
<1>5. ReportedMatchesShadow'
  <2>1. CASE ~answered
    BY <2>1 DEF WaitNotified, ReportedMatchesShadow
  <2>2. CASE answered
    <3>1. ~CurrentAccepted
      BY <2>2 DEF CurrentAccepted
    <3>2. ~stale /\ ulReportedPowerOnState # INVALID_POWERON_STATE =>
            /\ shadowReported = ulReportedPowerOnState
            /\ \A i \in DOMAIN toShadow : Benign(i)
      BY <3>1, SyncInvSplit DEF ReportedMatchesShadow
    <3>3. ASSUME NEW i \in DOMAIN toShadow, Benign(i) PROVE Benign(i)'
      BY <1>2, <2>2, <3>3 DEF Benign
    <3>4. stale' = stale
      <4>1. stale \in BOOLEAN
        BY SyncInvSplit DEF IInv, TypeOK
      <4>2. QED
        BY <2>2, <4>1, Zenon DEF WaitNotified
    <3>5. QED
      BY <1>2, <3>2, <3>3, <3>4 DEF ReportedMatchesShadow
  <2>3. QED
    BY <2>1, <2>2
<1>6. QED
  BY <1>1, <1>3, <1>4, <1>5, SyncInvSplitNext

(* Line 893: token 0 is no device token, so nothing is outstanding.        *)
LEMMA ClearTokenSyncInv ==
    ASSUME SyncHypotheses, SyncInv, ClearToken
    PROVE  SyncInv'
<1>1. IInv'
  BY NextIInv, SyncInvSplit DEF Next, ShadowTask
<1>2. UNCHANGED <<toShadow, headVerdict, inbox, cb, shadowReported,
                  ulReportedPowerOnState, answered, stale>>
  BY DEF ClearToken, env, ghost
<1>3. ulClientToken' = 0 /\ 0 \notin Tokens /\ pc = "clear" /\ pc' = "sleep"
  BY DEF ClearToken, SyncHypotheses
<1>4. toShadow \in Seq(ReportDocs)
  BY SyncInvSplit DEF IInv, TypeOK
<1>5. \A i \in DOMAIN toShadow : toShadow[i].clientToken \in Tokens
  <2>1. \A i \in DOMAIN toShadow : toShadow[i] \in ReportDocs
    BY <1>4
  <2>2. QED
    BY <2>1, Zenon DEF ReportDocs
<1>6. Correlation'
  <2>1. CurrentReportLast'
    BY <1>2, <1>3, <1>5 DEF CurrentReportLast
  <2>2. CurrentAcceptedMatchesShadow'
    BY <1>3 DEF CurrentAcceptedMatchesShadow
  <2>3. (ReportTokensDistinct /\ ResponseMatchesReport /\ VerdictConsistent
         /\ ServiceAccepted)'
    BY <1>2, SyncInvSplit
       DEF Correlation, ReportTokensDistinct, ResponseMatchesReport,
           VerdictConsistent, ServiceAccepted, AccOf, RejOf, InTransit
  <2>3a. QED
    BY <2>1, <2>2, <2>3 DEF Correlation
<1>7. NotifyAfterWrite'
  BY <1>3 DEF NotifyAfterWrite
<1>8. ReportedMatchesShadow'
  BY <1>2, <1>3, SyncInvSplit DEF ReportedMatchesShadow, Benign, CurrentAccepted
<1>9. QED
  BY <1>1, <1>6, <1>7, <1>8, SyncInvSplitNext

(* A token no report, response or callback carries has no response in      *)
(* transit.                                                                *)
LEMMA FreshToken ==
    ASSUME NEW t, t \notin InFlightTokens
    PROVE  /\ AccOf(t) = {}
           /\ RejOf(t) = {}
           /\ \A i \in DOMAIN toShadow : toShadow[i].clientToken # t
           /\ cb # CbIdle => cb.msg.clientToken # t
<1>1. \A a \in InTransit : a.topic \in {"accepted", "rejected"} => a.clientToken # t
  BY DEF InTransit, InFlightTokens
<1>2. QED
  BY <1>1 DEF AccOf, RejOf, InFlightTokens

(* Lines 850-874: the report carries a fresh token and is the outstanding  *)
(* one, unanswered, until the wait ends.                                   *)
LEMMA PublishSyncInv ==
    ASSUME SyncHypotheses, SyncInv, Publish
    PROVE  SyncInv'
<1> USE DEF SyncHypotheses
<1>1. IInv'
  BY NextIInv, SyncInvSplit DEF Next, ShadowTask
<1>2. PICK t \in Tokens \ InFlightTokens :
        /\ ulClientToken' = t
        /\ IF Len(toShadow) < MaxInFlight
             THEN /\ toShadow' = Append(toShadow, EncodeReport(ulCurrentPowerOnState, t))
                  /\ pc' = "wait"
             ELSE /\ pc' = "clear"
                  /\ UNCHANGED toShadow
  BY DEF Publish
<1>3. UNCHANGED <<ulReportedPowerOnState, cb, headVerdict, inbox, shadowReported, stale>>
      /\ answered' = FALSE /\ pc = "publish"
  BY DEF Publish
<1>4. /\ AccOf(t) = {} /\ RejOf(t) = {}
      /\ \A i \in DOMAIN toShadow : toShadow[i].clientToken # t
      /\ cb # CbIdle => cb.msg.clientToken # t
  BY <1>2, FreshToken
<1>5. InTransit' = InTransit
  BY <1>3 DEF InTransit, AccOf, RejOf
<1>6. toShadow \in Seq(ReportDocs) /\ Len(toShadow) <= MaxInFlight
  BY SyncInvSplit DEF IInv, TypeOK
<1>7. Correlation /\ ReportedMatchesShadow
  BY SyncInvSplit
<1>8. NotifyAfterWrite'
  <2>1. CASE cb = CbIdle
    BY <2>1, <1>3 DEF NotifyAfterWrite, CbIdle
  <2>2. CASE cb # CbIdle
    BY <2>2, <1>2, <1>3, <1>4 DEF NotifyAfterWrite
  <2>3. QED
    BY <2>1, <2>2
<1>9. ~CurrentAccepted
  BY <1>3 DEF CurrentAccepted
<1>10. ~stale /\ ulReportedPowerOnState # INVALID_POWERON_STATE =>
         /\ shadowReported = ulReportedPowerOnState
         /\ \A i \in DOMAIN toShadow :
              \/ toShadow[i].powerOn = ulReportedPowerOnState
              \/ ~toShadow[i].ok
              \/ i = 1 /\ headVerdict = "rejected"
  BY <1>3, <1>7, <1>9 DEF ReportedMatchesShadow, Benign
<1>11. CASE Len(toShadow) < MaxInFlight
  <2> DEFINE r == EncodeReport(ulCurrentPowerOnState, t)
  <2>1. toShadow' = Append(toShadow, r) /\ pc' = "wait"
    BY <1>2, <1>11
  <2>2. /\ DOMAIN toShadow' = 1..(Len(toShadow) + 1)
        /\ \A i \in DOMAIN toShadow : toShadow'[i] = toShadow[i] /\ i # Len(toShadow) + 1
        /\ toShadow'[Len(toShadow) + 1] = r
        /\ Len(toShadow') = Len(toShadow) + 1
    BY <2>1, <1>6
  <2>3. r.clientToken = t
    BY DEF EncodeReport
  <2>4. Correlation'
    <3>0. \A i \in DOMAIN toShadow' :
            \/ i \in DOMAIN toShadow /\ toShadow'[i] = toShadow[i]
            \/ i = Len(toShadow) + 1 /\ toShadow'[i].clientToken = t
      BY <2>2, <2>3, <1>6
    <3>1. ReportTokensDistinct'
      <4>1. SUFFICES ASSUME NEW i \in DOMAIN toShadow', NEW j \in DOMAIN toShadow',
                            toShadow'[i].clientToken = toShadow'[j].clientToken
                     PROVE  i = j
        BY DEF ReportTokensDistinct
      <4>2. QED
        BY <4>1, <3>0, <1>4, <1>7 DEF Correlation, ReportTokensDistinct
    <3>2. CurrentReportLast'
      <4>1. SUFFICES ASSUME NEW i \in DOMAIN toShadow',
                            toShadow'[i].clientToken = ulClientToken'
                     PROVE  i = Len(toShadow')
        BY DEF CurrentReportLast
      <4>2. QED
        BY <4>1, <3>0, <2>2, <1>2, <1>4
    <3>3. ResponseMatchesReport'
      <4>1. SUFFICES ASSUME NEW i \in DOMAIN toShadow', NEW a \in InTransit,
                            a.topic = "accepted",
                            a.clientToken = toShadow'[i].clientToken
                     PROVE  a.powerOn = toShadow'[i].powerOn
        BY <1>5 DEF ResponseMatchesReport, AccOf
      <4>3. CASE i \in DOMAIN toShadow /\ toShadow'[i] = toShadow[i]
        BY <4>1, <4>3, <1>7 DEF Correlation, ResponseMatchesReport, AccOf
      <4>4. CASE i = Len(toShadow) + 1 /\ toShadow'[i].clientToken = t
        BY <4>1, <4>4, <1>4 DEF AccOf
      <4>5. QED
        BY <3>0, <4>3, <4>4
    <3>4. VerdictConsistent'
      <4>1. SUFFICES ASSUME NEW i \in DOMAIN toShadow'
                     PROVE  /\ {a \in InTransit : a.topic = "rejected"
                                   /\ a.clientToken = toShadow'[i].clientToken} # {}
                               => i = 1 /\ headVerdict = "rejected"
                            /\ {a \in InTransit : a.topic = "accepted"
                                   /\ a.clientToken = toShadow'[i].clientToken} # {}
                               => i = 1 /\ headVerdict = "accepted"
        BY <1>3, <1>5 DEF VerdictConsistent, AccOf, RejOf
      <4>3. CASE i \in DOMAIN toShadow /\ toShadow'[i] = toShadow[i]
        BY <4>3, <1>7 DEF Correlation, VerdictConsistent, AccOf, RejOf
      <4>4. CASE i = Len(toShadow) + 1 /\ toShadow'[i].clientToken = t
        BY <4>4, <1>4 DEF AccOf, RejOf
      <4>5. QED
        BY <3>0, <4>3, <4>4
    <3>5. CurrentAcceptedMatchesShadow'
      BY <1>2, <1>4, <1>5 DEF CurrentAcceptedMatchesShadow, AccOf
    <3>6. ServiceAccepted'
      BY <1>5, <1>7 DEF Correlation, ServiceAccepted
    <3>7. QED
      BY <3>1, <3>2, <3>3, <3>4, <3>5, <3>6 DEF Correlation
  <2>5. ReportedMatchesShadow'
    <3>1. SUFFICES ASSUME ~stale, ulReportedPowerOnState # INVALID_POWERON_STATE
                   PROVE  /\ shadowReported' = ulReportedPowerOnState'
                          /\ \A i \in DOMAIN toShadow' : Benign(i)'
      BY <1>3 DEF ReportedMatchesShadow
    <3>2. ASSUME NEW i \in DOMAIN toShadow' PROVE Benign(i)'
      <4>1. CASE i = Len(toShadow) + 1
        BY <4>1, <2>1, <2>2, <2>3, <1>2, <1>3 DEF Benign
      <4>2. CASE i \in DOMAIN toShadow
        BY <4>2, <2>2, <1>3, <1>10, <3>1 DEF Benign
      <4>3. QED
        BY <4>1, <4>2, <2>2
    <3>3. QED
      BY <3>2, <1>3, <1>10, <3>1
  <2>6. QED
    BY <1>1, <1>8, <2>4, <2>5, SyncInvSplitNext
<1>12. CASE ~(Len(toShadow) < MaxInFlight)
  <2>1. UNCHANGED toShadow /\ pc' = "clear"
    BY <1>2, <1>12
  <2>2. Correlation'
    <3>1. CurrentReportLast'
      BY <2>1, <1>2, <1>4 DEF CurrentReportLast
    <3>2. CurrentAcceptedMatchesShadow'
      BY <1>2, <1>4, <1>5 DEF CurrentAcceptedMatchesShadow, AccOf
    <3>3. (ReportTokensDistinct /\ ResponseMatchesReport /\ VerdictConsistent
           /\ ServiceAccepted)'
      BY <2>1, <1>3, <1>5, <1>7
         DEF Correlation, ReportTokensDistinct, ResponseMatchesReport,
             VerdictConsistent, ServiceAccepted, AccOf, RejOf
    <3>4. QED
      BY <3>1, <3>2, <3>3 DEF Correlation
  <2>3. ReportedMatchesShadow'
    BY <2>1, <1>3, <1>10 DEF ReportedMatchesShadow, Benign, CurrentAccepted
  <2>4. QED
    BY <1>1, <1>8, <2>2, <2>3, SyncInvSplitNext
<1>13. QED
  BY <1>11, <1>12

(* A step that only takes responses out of transit, leaving the queue, the *)
(* verdict, the shadow and the token alone, keeps Correlation.             *)
LEMMA CorrelationShrink ==
    ASSUME Correlation, InTransit' \subseteq InTransit,
           UNCHANGED <<toShadow, headVerdict, shadowReported, ulClientToken>>
    PROVE  Correlation'
<1>1. \A t : AccOf(t)' \subseteq AccOf(t) /\ RejOf(t)' \subseteq RejOf(t)
  BY DEF AccOf, RejOf
<1>2. CurrentAcceptedMatchesShadow'
  BY <1>1 DEF Correlation, CurrentAcceptedMatchesShadow
<1>3. ResponseMatchesReport' /\ VerdictConsistent'
  BY <1>1 DEF Correlation, ResponseMatchesReport, VerdictConsistent
<1>4. ServiceAccepted'
  BY DEF Correlation, ServiceAccepted
<1>5. ReportTokensDistinct' /\ CurrentReportLast'
  BY DEF Correlation, ReportTokensDistinct, CurrentReportLast
<1>6. QED
  BY <1>2, <1>3, <1>4, <1>5 DEF Correlation

(* Lines 511-582, 628-681 and 723-779: a callback takes a message off the  *)
(* network and at most starts on it, so nothing new is in transit; an      *)
(* accepted response of the current token that lacks powerOn (line 679)   *)
(* is the application's, which SyncHypotheses keeps off the device tokens.*)
LEMMA ReceiveSyncInv ==
    ASSUME SyncHypotheses, SyncInv, Receive
    PROVE  SyncInv'
<1> USE DEF SyncHypotheses
<1>1. IInv'
  BY NextIInv, SyncInvSplit DEF Next, AgentTask
<1>2. PICK m \in inbox : /\ Take(m)
                         /\ ReceiveDelta(m) \/ ReceiveAccepted(m) \/ ReceiveRejected(m)
  BY DEF Receive
<1>3. UNCHANGED <<toShadow, headVerdict, shadowReported, ulClientToken,
                  ulReportedPowerOnState, pc, answered, stale>> /\ cb = CbIdle
  BY <1>2 DEF Receive, ghost, ReceiveDelta, ReceiveAccepted, ReceiveRejected
<1>4. \/ cb' = CbIdle
      \/ /\ cb' = [step |-> cb'.step, msg |-> m] /\ cb'.step \in CbSteps
         /\ m.topic \in {"accepted", "rejected"} /\ m.clientToken = ulClientToken
         /\ cb'.step = "notify" /\ m.topic = "accepted" => m.powerOn = NoValue
  BY <1>2, <1>3 DEF ReceiveDelta, ReceiveAccepted, ReceiveRejected, CbSteps
<1>5. InTransit' \subseteq InTransit
  <2>1. inbox' \subseteq inbox
    BY <1>2 DEF Take
  <2>2. CASE cb' = CbIdle
    BY <2>1, <2>2, <1>3 DEF InTransit
  <2>3. CASE cb' # CbIdle
    BY <2>1, <2>3, <1>3, <1>4 DEF InTransit
  <2>4. QED
    BY <2>2, <2>3
<1>6. Correlation'
  BY <1>3, <1>5, CorrelationShrink, SyncInvSplit
<1>7. NotifyAfterWrite'
  <2>1. CASE cb' = CbIdle
    BY <2>1 DEF NotifyAfterWrite, CbIdle
  <2>2. CASE cb' # CbIdle
    <3>1. SUFFICES ASSUME cb'.step = "notify", m.topic = "accepted",
                          ulClientToken \in Tokens
                   PROVE  FALSE
      BY <1>3, <1>4, <2>2 DEF NotifyAfterWrite
    <3>2. m \in InTransit /\ m.powerOn = NoValue
      BY <1>3, <1>4, <2>2, <3>1 DEF InTransit
    <3>3. m.powerOn \in Values
      BY <1>3, <1>4, <2>2, <3>1, <3>2, SyncInvSplit DEF Correlation, ServiceAccepted
    <3>4. QED
      BY <3>2, <3>3, ConstAssumption
  <2>3. QED
    BY <2>1, <2>2
<1>8. ReportedMatchesShadow'
  <2>1. RejOf(ulClientToken)' \subseteq RejOf(ulClientToken)
    BY <1>3, <1>5 DEF RejOf
  <2>2. CurrentAccepted => CurrentAccepted'
    BY <1>3, <2>1 DEF CurrentAccepted
  <2>3. \A i \in DOMAIN toShadow : Benign(i) => Benign(i)'
    BY <1>3 DEF Benign
  <2>4. QED
    BY <1>3, <2>2, <2>3, SyncInvSplit DEF ReportedMatchesShadow
<1>9. QED
  BY <1>1, <1>6, <1>7, <1>8, SyncInvSplitNext

(* Line 685: a write for the current token stores the powerOn of an        *)
(* accepted response to the outstanding report, which is the shadow's and  *)
(* that of every report still queued.                                      *)
LEMMA AcceptedWriteSyncInv ==
    ASSUME SyncHypotheses, SyncInv, AcceptedWrite
    PROVE  SyncInv'
<1> USE DEF SyncHypotheses
<1> DEFINE p == cb.msg.powerOn
<1>1. IInv'
  BY NextIInv, SyncInvSplit DEF Next, AgentTask
<1>2. /\ cb.step = "write" /\ cb.msg.topic = "accepted" /\ p \in Values
      /\ cb # CbIdle
  BY SyncInvSplit DEF AcceptedWrite, IInv, WriteHasValue, CbIdle
<1>3. /\ ulReportedPowerOnState' = p
      /\ cb' = [cb EXCEPT !.step = "notify"]
      /\ stale' = (stale \/ cb.msg.clientToken # ulClientToken)
      /\ UNCHANGED <<ulClientToken, pc, toShadow, headVerdict, inbox,
                     shadowReported, answered>>
  BY DEF AcceptedWrite, env
<1>4. cb \in [step : CbSteps, msg : AcceptedDocs \cup RejectedDocs]
  BY <1>2, SyncInvSplit DEF IInv, TypeOK
<1>5. cb' # CbIdle /\ cb'.msg = cb.msg /\ cb'.step = "notify"
  BY <1>3, <1>4 DEF CbIdle
<1>6. InTransit' = InTransit
  BY <1>2, <1>3, <1>5 DEF InTransit
<1>7. Correlation'
  BY <1>3, <1>6, CorrelationShrink, SyncInvSplit
<1>8. NotifyAfterWrite'
  BY <1>3, <1>5 DEF NotifyAfterWrite
<1>9. ReportedMatchesShadow'
  <2>1. SUFFICES ASSUME ~stale'
                 PROVE  /\ shadowReported' = ulReportedPowerOnState'
                        /\ \A i \in DOMAIN toShadow' : Benign(i)'
    BY DEF ReportedMatchesShadow
  <2>2. cb.msg.clientToken = ulClientToken
    <3>1. stale \in BOOLEAN
      BY SyncInvSplit DEF IInv, TypeOK
    <3>2. QED
      BY <1>3, <2>1, <3>1, Zenon
  <2>3. cb.msg \in AccOf(ulClientToken)
    BY <1>2, <2>2 DEF AccOf, InTransit
  <2>4. ulClientToken \in Tokens
    BY <1>2, <2>2, <2>3, SyncInvSplit DEF Correlation, ServiceAccepted, AccOf
  <2>5. /\ p = shadowReported
        /\ \A i \in DOMAIN toShadow : toShadow[i].clientToken = ulClientToken
    BY <2>3, <2>4, SyncInvSplit DEF Correlation, CurrentAcceptedMatchesShadow
  <2>6. \A i \in DOMAIN toShadow : toShadow[i].powerOn = p
    BY <2>3, <2>5, SyncInvSplit DEF Correlation, ResponseMatchesReport
  <2>7. QED
    BY <1>3, <2>5, <2>6 DEF Benign
<1>10. QED
  BY <1>1, <1>7, <1>8, <1>9, SyncInvSplitNext

(* Lines 689 and 782: the notification that answers the outstanding report *)
(* comes after its accepted response has been written (NotifyAfterWrite),  *)
(* or from a rejection of the head; either way the report is benign once   *)
(* answered.                                                               *)
LEMMA NotifyGiveSyncInv ==
    ASSUME SyncHypotheses, SyncInv, NotifyGive
    PROVE  SyncInv'
<1> USE DEF SyncHypotheses
<1>1. IInv'
  BY NextIInv, SyncInvSplit DEF Next, AgentTask
<1>2. /\ cb.step = "notify" /\ cb' = CbIdle
      /\ answered' = (answered \/ cb.msg.clientToken = ulClientToken)
      /\ UNCHANGED <<ulReportedPowerOnState, ulClientToken, pc, toShadow,
                     headVerdict, inbox, shadowReported, stale>>
  BY DEF NotifyGive, env
<1>3. /\ cb \in [step : CbSteps, msg : AcceptedDocs \cup RejectedDocs]
      /\ cb # CbIdle
      /\ answered \in BOOLEAN
  BY <1>2, SyncInvSplit DEF IInv, TypeOK, CbIdle
<1>4. cb.msg \in InTransit /\ cb.msg.topic \in {"accepted", "rejected"}
  BY <1>3 DEF InTransit, AcceptedDocs, RejectedDocs
<1>5. InTransit' \subseteq InTransit
  BY <1>2 DEF InTransit
<1>6. Correlation'
  BY <1>2, <1>5, CorrelationShrink, SyncInvSplit
<1>7. NotifyAfterWrite'
  BY <1>2 DEF NotifyAfterWrite, CbIdle
<1>8. RejOf(ulClientToken)' \subseteq RejOf(ulClientToken)
  BY <1>2, <1>5 DEF RejOf
<1>9. ReportedMatchesShadow'
  <2>1. SUFFICES ASSUME ~stale, ulReportedPowerOnState # INVALID_POWERON_STATE
                 PROVE  ReportedMatchesShadow'
    BY <1>2 DEF ReportedMatchesShadow
  <2>2. CASE cb.msg.clientToken # ulClientToken
    <3>1. answered' = answered
      BY <1>2, <1>3, <2>2, Zenon
    <3>2. CurrentAccepted => CurrentAccepted'
      BY <1>2, <1>8, <3>1 DEF CurrentAccepted
    <3>3. \A i \in DOMAIN toShadow : Benign(i) => Benign(i)'
      BY <1>2, <3>1 DEF Benign
    <3>4. QED
      BY <1>2, <2>1, <3>2, <3>3, SyncInvSplit DEF ReportedMatchesShadow
  <2>3. CASE cb.msg.clientToken = ulClientToken
    <3>1. answered' = TRUE
      BY <1>2, <2>3, Zenon
    <3>2. SUFFICES /\ shadowReported = ulReportedPowerOnState
                   /\ \A i \in DOMAIN toShadow : Benign(i)'
      BY <1>2 DEF ReportedMatchesShadow
    (* An accepted response of the current token carries the reported state. *)
    <3>3. cb.msg.topic = "accepted" /\ ulClientToken \in Tokens
            => ulReportedPowerOnState = cb.msg.powerOn
      BY <1>2, <2>1, <2>3, SyncInvSplit DEF NotifyAfterWrite
    <3>4. CASE CurrentAccepted
      <4>1. ulClientToken \in Tokens /\ RejOf(ulClientToken) = {}
        BY <3>4 DEF CurrentAccepted
      <4>2. cb.msg.topic = "accepted"
        BY <1>4, <2>3, <4>1 DEF RejOf
      <4>3. cb.msg \in AccOf(ulClientToken)
        BY <1>4, <2>3, <4>2 DEF AccOf
      <4>4. cb.msg.powerOn = shadowReported
        BY <4>1, <4>3, SyncInvSplit DEF Correlation, CurrentAcceptedMatchesShadow
      <4>5. shadowReported = ulReportedPowerOnState
        BY <3>3, <4>1, <4>2, <4>4
      <4>6. QED
        BY <1>2, <3>4, <4>5 DEF CurrentAccepted, Benign
    <3>5. CASE ~CurrentAccepted
      <4>1. /\ shadowReported = ulReportedPowerOnState
            /\ \A i \in DOMAIN toShadow : Benign(i)
        BY <2>1, <3>5, SyncInvSplit DEF ReportedMatchesShadow
      <4>2. ASSUME NEW i \in DOMAIN toShadow PROVE Benign(i)'
        <5>1. CASE /\ toShadow[i].clientToken = ulClientToken
                   /\ ulClientToken \in Tokens
          <6>1. CASE cb.msg.topic = "accepted"
            <7>1. cb.msg \in AccOf(toShadow[i].clientToken)
              BY <1>4, <2>3, <5>1, <6>1 DEF AccOf
            <7>2. toShadow[i].powerOn = cb.msg.powerOn
              BY <7>1, SyncInvSplit DEF Correlation, ResponseMatchesReport
            <7>3. QED
              BY <1>2, <3>3, <5>1, <6>1, <7>2 DEF Benign
          <6>2. CASE cb.msg.topic = "rejected"
            <7>1. cb.msg \in RejOf(toShadow[i].clientToken)
              BY <1>4, <2>3, <5>1, <6>2 DEF RejOf
            <7>2. i = 1 /\ headVerdict = "rejected"
              BY <7>1, SyncInvSplit DEF Correlation, VerdictConsistent
            <7>3. QED
              BY <1>2, <7>2 DEF Benign
          <6>3. QED
            BY <1>4, <6>1, <6>2
        <5>2. CASE ~(toShadow[i].clientToken = ulClientToken /\ ulClientToken \in Tokens)
          BY <1>2, <4>1, <5>2 DEF Benign
        <5>3. QED
          BY <5>1, <5>2
      <4>3. QED
        BY <4>1, <4>2
    <3>6. QED
      BY <3>4, <3>5
  <2>4. QED
    BY <2>2, <2>3
<1>10. QED
  BY <1>1, <1>6, <1>7, <1>9, SyncInvSplitNext

-----------------------------------------------------------------------------
(* The environment.                                                        *)

(* The reports behind the head keep their order when the head leaves.      *)
LEMMA TailIndex ==
    ASSUME NEW S, NEW s \in Seq(S), s # <<>>
    PROVE  /\ Tail(s) \in Seq(S)
           /\ Len(Tail(s)) = Len(s) - 1
           /\ \A i \in DOMAIN Tail(s) :
                /\ i + 1 \in DOMAIN s /\ i + 1 # 1
                /\ Tail(s)[i] = s[i + 1]
  BY SMT

(* A lost report leaves the ones behind it alone; if it was the accepted   *)
(* outstanding report it was the only one queued (CurrentReportLast).      *)
LEMMA LoseReportSyncInv ==
    ASSUME SyncHypotheses, SyncInv, LoseReport
    PROVE  SyncInv'
<1>1. IInv'
  BY NextIInv, SyncInvSplit DEF Next, Environment
<1>2. /\ toShadow # <<>> /\ toShadow' = Tail(toShadow) /\ headVerdict' = "none"
      /\ UNCHANGED <<device, inbox, shadowReported, ghost>>
  BY DEF LoseReport
<1>3. UNCHANGED <<ulReportedPowerOnState, ulClientToken, pc, cb, answered, stale>>
  BY <1>2 DEF device, ghost
<1>4. toShadow \in Seq(ReportDocs)
  BY SyncInvSplit DEF IInv, TypeOK
<1>5. /\ Len(toShadow') = Len(toShadow) - 1
      /\ \A i \in DOMAIN toShadow' :
           /\ i + 1 \in DOMAIN toShadow /\ i + 1 # 1
           /\ toShadow'[i] = toShadow[i + 1]
  BY <1>2, <1>4, TailIndex
<1>6. InTransit' = InTransit
  BY <1>2, <1>3 DEF InTransit
<1>7. Correlation
  BY SyncInvSplit
<1>8. Correlation'
  <2>1. ReportTokensDistinct'
    <3>1. SUFFICES ASSUME NEW i \in DOMAIN toShadow', NEW j \in DOMAIN toShadow',
                          toShadow'[i].clientToken = toShadow'[j].clientToken
                   PROVE  i = j
      BY DEF ReportTokensDistinct
    <3>2. i + 1 = j + 1
      BY <3>1, <1>5, <1>7 DEF Correlation, ReportTokensDistinct
    <3>3. QED
      BY <3>2, <1>4
  <2>2. CurrentReportLast'
    BY <1>3, <1>5, <1>7 DEF Correlation, CurrentReportLast
  <2>3. ResponseMatchesReport'
    BY <1>5, <1>6, <1>7 DEF Correlation, ResponseMatchesReport, AccOf
  <2>4. VerdictConsistent'
    BY <1>5, <1>6, <1>7 DEF Correlation, VerdictConsistent, AccOf, RejOf
  <2>5. CurrentAcceptedMatchesShadow'
    BY <1>2, <1>3, <1>5, <1>6, <1>7 DEF Correlation, CurrentAcceptedMatchesShadow, AccOf
  <2>6. ServiceAccepted'
    BY <1>6, <1>7 DEF Correlation, ServiceAccepted
  <2>7. QED
    BY <2>1, <2>2, <2>3, <2>4, <2>5, <2>6 DEF Correlation
<1>9. NotifyAfterWrite'
  BY <1>3, SyncInvSplit DEF NotifyAfterWrite
<1>10. ReportedMatchesShadow'
  <2>1. \A i \in DOMAIN toShadow' : Benign(i + 1) => Benign(i)'
    BY <1>2, <1>3, <1>5 DEF Benign
  <2>2. CurrentAccepted => toShadow' = <<>>
    <3>1. SUFFICES ASSUME CurrentAccepted PROVE Len(toShadow) = 1
      BY <1>2, <1>4, <1>5
    <3>2. 1 \in DOMAIN toShadow
      BY <1>2, <1>4
    <3>3. toShadow[1].clientToken = ulClientToken
      BY <3>1, <3>2 DEF CurrentAccepted
    <3>4. QED
      BY <1>7, <3>2, <3>3 DEF Correlation, CurrentReportLast
  <2>3. CurrentAccepted => CurrentAccepted'
    BY <1>2, <1>3, <1>6, <2>2 DEF CurrentAccepted, RejOf
  <2>4. QED
    BY <1>2, <1>3, <1>5, <2>1, <2>3, SyncInvSplit DEF ReportedMatchesShadow
<1>11. QED
  BY <1>1, <1>8, <1>9, <1>10, SyncInvSplitNext

(* A lost message only takes a response out of transit.                    *)
LEMMA LoseMessageSyncInv ==
    ASSUME SyncHypotheses, SyncInv, LoseMessage
    PROVE  SyncInv'
<1>1. IInv'
  BY NextIInv, SyncInvSplit DEF Next, Environment
<1>2. UNCHANGED <<toShadow, headVerdict, shadowReported, ulClientToken,
                  ulReportedPowerOnState, pc, cb, answered, stale>>
      /\ inbox' \subseteq inbox
  BY DEF LoseMessage, device, ghost
<1>3. InTransit' \subseteq InTransit
  BY <1>2 DEF InTransit
<1>4. Correlation'
  BY <1>2, <1>3, CorrelationShrink, SyncInvSplit
<1>5. NotifyAfterWrite'
  BY <1>2, SyncInvSplit DEF NotifyAfterWrite
<1>6. ReportedMatchesShadow'
  <2>1. CurrentAccepted => CurrentAccepted'
    BY <1>2, <1>3 DEF CurrentAccepted, RejOf
  <2>2. \A i \in DOMAIN toShadow : Benign(i) => Benign(i)'
    BY <1>2 DEF Benign
  <2>3. QED
    BY <1>2, <2>1, <2>2, SyncInvSplit DEF ReportedMatchesShadow
<1>7. QED
  BY <1>1, <1>4, <1>5, <1>6, SyncInvSplitNext

(* The application's update adds a delta, which is no response, and an    *)
(* accepted response with a token no report has (SyncHypotheses) and no    *)
(* reported state.                                                          *)
LEMMA CloudUpdateDesiredSyncInv ==
    ASSUME SyncHypotheses, SyncInv, CloudUpdateDesired
    PROVE  SyncInv'
<1> USE DEF SyncHypotheses
<1>1. IInv'
  BY NextIInv, SyncInvSplit DEF Next, Environment
<1>2. PICK v \in Values, at \in AppTokens :
        inbox' = inbox \cup
          {[topic |-> "delta", version |-> shadowVersion + 1,
            powerOn |-> IF v = shadowReported THEN NoValue ELSE v],
           [topic |-> "accepted", clientToken |-> at, powerOn |-> NoValue]}
  BY DEF CloudUpdateDesired
<1>3. UNCHANGED <<toShadow, headVerdict, shadowReported, ulClientToken,
                  ulReportedPowerOnState, pc, cb, answered, stale>>
  BY DEF CloudUpdateDesired, device, ghost
<1> DEFINE app == [topic |-> "accepted", clientToken |-> at, powerOn |-> NoValue]
<1>4. \A a \in InTransit' : a \in InTransit \/ a.topic = "delta" \/ a = app
  BY <1>2, <1>3 DEF InTransit
<1>5. at \notin Tokens /\ NoValue \notin Values
  BY ConstAssumption
<1>6. toShadow \in Seq(ReportDocs)
  BY SyncInvSplit DEF IInv, TypeOK
<1>7. \A i \in DOMAIN toShadow : toShadow[i].clientToken \in Tokens
  <2>1. \A i \in DOMAIN toShadow : toShadow[i] \in ReportDocs
    BY <1>6
  <2>2. QED
    BY <2>1, Zenon DEF ReportDocs
<1>8. \A x \in Tokens : AccOf(x)' = AccOf(x) /\ RejOf(x)' = RejOf(x)
  BY <1>2, <1>3, <1>4, <1>5 DEF AccOf, RejOf, InTransit
<1>9. Correlation'
  <2>1. (ReportTokensDistinct /\ CurrentReportLast)'
    BY <1>3, SyncInvSplit DEF Correlation, ReportTokensDistinct, CurrentReportLast
  <2>2. (ResponseMatchesReport /\ VerdictConsistent)'
    BY <1>3, <1>7, <1>8, SyncInvSplit
       DEF Correlation, ResponseMatchesReport, VerdictConsistent
  <2>3. CurrentAcceptedMatchesShadow'
    BY <1>3, <1>8, SyncInvSplit DEF Correlation, CurrentAcceptedMatchesShadow
  <2>4. ServiceAccepted'
    BY <1>4, <1>5, SyncInvSplit DEF Correlation, ServiceAccepted
  <2>5. QED
    BY <2>1, <2>2, <2>3, <2>4 DEF Correlation
<1>10. NotifyAfterWrite'
  BY <1>3, SyncInvSplit DEF NotifyAfterWrite
<1>11. ReportedMatchesShadow'
  <2>1. CurrentAccepted => CurrentAccepted'
    BY <1>3, <1>8 DEF CurrentAccepted
  <2>2. \A i \in DOMAIN toShadow : Benign(i) => Benign(i)'
    BY <1>3 DEF Benign
  <2>3. QED
    BY <1>3, <2>1, <2>2, SyncInvSplit DEF ReportedMatchesShadow
<1>12. QED
  BY <1>1, <1>9, <1>10, <1>11, SyncInvSplitNext

(* The service accepts the head report r (token t, powerOn v) and answers  *)
(* with [accepted, t, v].  If r is the outstanding unanswered report it is  *)
(* the only one queued, and the state becomes CurrentAccepted; otherwise   *)
(* r is benign and valid and not rejected, so it carries the reported       *)
(* state and the shadow keeps agreeing with it.                            *)
LEMMA ShadowAcceptSyncInv ==
    ASSUME SyncHypotheses, SyncInv, ShadowAccept
    PROVE  SyncInv'
<1> USE DEF SyncHypotheses
<1> DEFINE r == Head(toShadow)
           t == r.clientToken
           v == r.powerOn
           acc == [topic |-> "accepted", clientToken |-> t, powerOn |-> v]
           Open == /\ t = ulClientToken /\ ulClientToken \in Tokens
                   /\ pc \in {"wait", "timedOut"} /\ ~answered
<1>1. IInv'
  BY NextIInv, SyncInvSplit DEF Next, Environment
<1>2. /\ toShadow # <<>> /\ r.ok /\ shadowReported' = v
      /\ inbox' = inbox \cup {acc}
      /\ headVerdict # "rejected"
      /\ \/ toShadow' = Tail(toShadow) /\ headVerdict' = "none"
         \/ UNCHANGED toShadow /\ headVerdict' = "accepted"
      /\ UNCHANGED <<device, ghost>>
  BY DEF ShadowAccept
<1>3. UNCHANGED <<ulReportedPowerOnState, ulClientToken, pc, cb, answered, stale>>
  BY <1>2 DEF device, ghost
<1>4. toShadow \in Seq(ReportDocs) /\ 1 \in DOMAIN toShadow /\ r = toShadow[1]
  BY <1>2, SyncInvSplit DEF IInv, TypeOK
<1>5. t \in Tokens /\ v \in Values
  <2>1. r \in ReportDocs
    BY <1>4
  <2>2. QED
    BY <2>1, Zenon DEF ReportDocs
<1>6. /\ \A x : AccOf(x)' = AccOf(x) \cup (IF x = t THEN {acc} ELSE {})
      /\ \A x : RejOf(x)' = RejOf(x)
  BY <1>2, <1>3 DEF AccOf, RejOf, InTransit
<1>6a. /\ AccOf(ulClientToken)' = AccOf(ulClientToken) \cup
                                    (IF ulClientToken = t THEN {acc} ELSE {})
       /\ RejOf(ulClientToken)' = RejOf(ulClientToken)
  BY <1>2, <1>3 DEF AccOf, RejOf, InTransit
<1>7. Correlation
  BY SyncInvSplit
<1>8. \A i \in DOMAIN toShadow : toShadow[i].clientToken = t => i = 1
  BY <1>4, <1>7 DEF Correlation, ReportTokensDistinct
<1>9. \A i \in DOMAIN toShadow : RejOf(toShadow[i].clientToken) = {}
  BY <1>2, <1>7 DEF Correlation, VerdictConsistent
(* The outstanding report accepted: it is alone in the queue.              *)
<1>10. t = ulClientToken => Len(toShadow) = 1
  BY <1>4, <1>7 DEF Correlation, CurrentReportLast
<1>11. \A i \in DOMAIN toShadow' :
         \/ UNCHANGED toShadow /\ i \in DOMAIN toShadow /\ headVerdict' = "accepted"
         \/ i + 1 \in DOMAIN toShadow /\ i + 1 # 1 /\ toShadow'[i] = toShadow[i + 1]
  BY <1>2, <1>4, TailIndex
<1>12. Correlation'
  <2>1. ReportTokensDistinct' /\ CurrentReportLast'
    <3>1. CASE UNCHANGED toShadow
      BY <1>3, <1>7, <3>1 DEF Correlation, ReportTokensDistinct, CurrentReportLast
    <3>2. CASE toShadow' = Tail(toShadow)
      <4>1. /\ Len(toShadow') = Len(toShadow) - 1
            /\ \A i \in DOMAIN toShadow' :
                 /\ i + 1 \in DOMAIN toShadow /\ toShadow'[i] = toShadow[i + 1]
        BY <1>2, <1>4, <3>2, TailIndex
      <4>2. ReportTokensDistinct'
        <5>1. SUFFICES ASSUME NEW i \in DOMAIN toShadow', NEW j \in DOMAIN toShadow',
                              toShadow'[i].clientToken = toShadow'[j].clientToken
                       PROVE  i = j
          BY DEF ReportTokensDistinct
        <5>2. i + 1 = j + 1
          BY <5>1, <4>1, <1>7 DEF Correlation, ReportTokensDistinct
        <5>3. QED
          BY <5>2, <4>1, <1>4
      <4>3. QED
        BY <1>3, <1>7, <4>1, <4>2 DEF Correlation, CurrentReportLast
    <3>3. QED
      BY <1>2, <3>1, <3>2
  <2>2. ResponseMatchesReport'
    <3>1. SUFFICES ASSUME NEW i \in DOMAIN toShadow', NEW a \in InTransit',
                          a.topic = "accepted",
                          a.clientToken = toShadow'[i].clientToken
                   PROVE  a.powerOn = toShadow'[i].powerOn
      BY DEF ResponseMatchesReport, AccOf
    <3>2. a \in InTransit \/ a = acc
      BY <1>2, <1>3 DEF InTransit
    <3>3. CASE UNCHANGED toShadow /\ i \in DOMAIN toShadow
      <4>1. CASE a = acc
        BY <1>4, <1>8, <3>1, <3>3, <4>1
      <4>2. CASE a \in InTransit
        BY <1>7, <3>1, <3>3, <4>2 DEF Correlation, ResponseMatchesReport, AccOf
      <4>3. QED
        BY <3>2, <4>1, <4>2
    <3>4. CASE i + 1 \in DOMAIN toShadow /\ i + 1 # 1 /\ toShadow'[i] = toShadow[i + 1]
      <4>1. a # acc
        BY <1>8, <3>1, <3>4
      <4>2. QED
        BY <1>7, <3>1, <3>2, <3>4, <4>1 DEF Correlation, ResponseMatchesReport, AccOf
    <3>5. QED
      BY <1>11, <3>3, <3>4
  <2>3. VerdictConsistent'
    <3>1. SUFFICES ASSUME NEW i \in DOMAIN toShadow'
                   PROVE  /\ RejOf(toShadow'[i].clientToken) = {}
                          /\ AccOf(toShadow'[i].clientToken) \cup
                               (IF toShadow'[i].clientToken = t THEN {acc} ELSE {}) # {}
                             => i = 1 /\ headVerdict' = "accepted"
      BY <1>6 DEF VerdictConsistent
    <3>2. CASE UNCHANGED toShadow /\ i \in DOMAIN toShadow /\ headVerdict' = "accepted"
      BY <1>7, <1>8, <1>9, <3>2 DEF Correlation, VerdictConsistent
    <3>3. CASE i + 1 \in DOMAIN toShadow /\ i + 1 # 1 /\ toShadow'[i] = toShadow[i + 1]
      BY <1>7, <1>8, <1>9, <3>3 DEF Correlation, VerdictConsistent
    <3>4. QED
      BY <1>11, <3>2, <3>3
  <2>4. CurrentAcceptedMatchesShadow'
    <3>1. SUFFICES ASSUME ulClientToken \in Tokens, AccOf(ulClientToken)' # {}
                   PROVE  /\ \A a \in AccOf(ulClientToken)' : a.powerOn = v
                          /\ \A i \in DOMAIN toShadow' :
                               toShadow'[i].clientToken = ulClientToken
      BY <1>2, <1>3 DEF CurrentAcceptedMatchesShadow
    <3>2. CASE t = ulClientToken
      <4>1. Len(toShadow) = 1
        BY <1>10, <3>2
      <4>2. \A a \in AccOf(ulClientToken) : a.powerOn = v
        BY <1>4, <1>7, <3>2 DEF Correlation, ResponseMatchesReport
      <4>3. \A i \in DOMAIN toShadow' : toShadow'[i] = r
        BY <1>4, <1>11, <4>1
      <4>4. QED
        BY <1>6a, <3>2, <4>2, <4>3
    <3>3. CASE t # ulClientToken
      <4>1. AccOf(ulClientToken) # {}
        BY <1>6a, <3>1, <3>3
      <4>2. FALSE
        BY <1>4, <1>7, <3>1, <3>3, <4>1 DEF Correlation, CurrentAcceptedMatchesShadow
      <4>3. QED
        BY <4>2
    <3>4. QED
      BY <3>2, <3>3
  <2>5. ServiceAccepted'
    BY <1>2, <1>3, <1>5, <1>7 DEF Correlation, ServiceAccepted, InTransit
  <2>6. QED
    BY <2>1, <2>2, <2>3, <2>4, <2>5 DEF Correlation
<1>13. NotifyAfterWrite'
  BY <1>3, SyncInvSplit DEF NotifyAfterWrite
<1>14. ReportedMatchesShadow'
  <2>1. SUFFICES ASSUME ~stale, ulReportedPowerOnState # INVALID_POWERON_STATE
                 PROVE  ReportedMatchesShadow'
    BY <1>3 DEF ReportedMatchesShadow
  <2>2. CASE Open
    <3>1. Len(toShadow) = 1
      BY <1>10, <2>2
    <3>2. \A i \in DOMAIN toShadow' : toShadow'[i] = r
      BY <1>4, <1>11, <3>1
    <3>3. toShadow' # <<>> => headVerdict' = "accepted"
      BY <1>2, <1>4, <3>1
    <3>4. RejOf(ulClientToken)' = {}
      BY <1>4, <1>6a, <1>9, <2>2
    <3>5. CurrentAccepted'
      BY <1>2, <1>3, <2>2, <3>2, <3>3, <3>4 DEF CurrentAccepted
    <3>6. QED
      BY <3>5 DEF ReportedMatchesShadow
  <2>3. CASE ~Open
    <3>1. ~CurrentAccepted
      BY <1>4, <2>3 DEF CurrentAccepted
    <3>2. /\ shadowReported = ulReportedPowerOnState
          /\ \A i \in DOMAIN toShadow : Benign(i)
      BY <2>1, <3>1, SyncInvSplit DEF ReportedMatchesShadow
    <3>3. v = ulReportedPowerOnState
      BY <1>2, <1>4, <2>3, <3>2 DEF Benign
    <3>4. \A i \in DOMAIN toShadow' : Benign(i)'
      <4>1. SUFFICES ASSUME NEW i \in DOMAIN toShadow' PROVE Benign(i)'
        OBVIOUS
      <4>2. CASE UNCHANGED toShadow /\ i \in DOMAIN toShadow /\ headVerdict' = "accepted"
        <5>1. CASE i = 1
          BY <1>3, <1>4, <3>3, <4>2, <5>1 DEF Benign
        <5>2. CASE i # 1
          BY <1>3, <3>2, <4>2, <5>2 DEF Benign
        <5>3. QED
          BY <5>1, <5>2
      <4>3. CASE i + 1 \in DOMAIN toShadow /\ i + 1 # 1 /\ toShadow'[i] = toShadow[i + 1]
        BY <1>3, <3>2, <4>3 DEF Benign
      <4>4. QED
        BY <1>11, <4>2, <4>3
    <3>5. shadowReported' = ulReportedPowerOnState'
      BY <1>2, <1>3, <3>3
    <3>6. QED
      BY <3>4, <3>5 DEF ReportedMatchesShadow
  <2>4. QED
    BY <2>2, <2>3
<1>15. QED
  BY <1>1, <1>12, <1>13, <1>14, SyncInvSplitNext

(* The service rejects the head report, which has no accepted response     *)
(* (its verdict is not "accepted"), so no accepted outstanding report is   *)
(* queued; the rejection carries the head's token or none, and a rejected  *)
(* head is benign.                                                          *)
LEMMA ShadowRejectSyncInv ==
    ASSUME SyncHypotheses, SyncInv, ShadowReject
    PROVE  SyncInv'
<1> USE DEF SyncHypotheses
<1> DEFINE r == Head(toShadow)
           t == r.clientToken
           rej == [topic |-> "rejected",
                   clientToken |-> IF r.ok THEN r.clientToken ELSE NoToken]
<1>1. IInv'
  BY NextIInv, SyncInvSplit DEF Next, Environment
<1>2. /\ toShadow # <<>> /\ headVerdict # "accepted"
      /\ inbox' = inbox \cup {rej}
      /\ \/ toShadow' = Tail(toShadow) /\ headVerdict' = "none"
         \/ UNCHANGED toShadow /\ headVerdict' = "rejected"
      /\ UNCHANGED <<device, shadowReported, ghost>>
  BY DEF ShadowReject
<1>3. UNCHANGED <<ulReportedPowerOnState, ulClientToken, pc, cb, answered, stale>>
  BY <1>2 DEF device, ghost
<1>4. toShadow \in Seq(ReportDocs) /\ 1 \in DOMAIN toShadow /\ r = toShadow[1]
  BY <1>2, SyncInvSplit DEF IInv, TypeOK
<1>5. \A i \in DOMAIN toShadow : toShadow[i].clientToken \in Tokens
  <2>1. \A i \in DOMAIN toShadow : toShadow[i] \in ReportDocs
    BY <1>4
  <2>2. QED
    BY <2>1, Zenon DEF ReportDocs
<1>6. rej.clientToken \in {t, NoToken} /\ NoToken \notin Tokens
  BY ConstAssumption
<1>7. /\ \A x : AccOf(x)' = AccOf(x)
      /\ \A x : RejOf(x)' = RejOf(x) \cup (IF x = rej.clientToken THEN {rej} ELSE {})
      /\ RejOf(ulClientToken)' = RejOf(ulClientToken) \cup
                                 (IF ulClientToken = rej.clientToken THEN {rej} ELSE {})
      /\ AccOf(ulClientToken)' = AccOf(ulClientToken)
  BY <1>2, <1>3 DEF AccOf, RejOf, InTransit
<1>8. Correlation
  BY SyncInvSplit
<1>9. \A i \in DOMAIN toShadow : toShadow[i].clientToken = t => i = 1
  BY <1>4, <1>8 DEF Correlation, ReportTokensDistinct
<1>7a. InTransit' = InTransit \cup {rej}
  BY <1>2, <1>3 DEF InTransit
<1>10. \A i \in DOMAIN toShadow : \A a \in InTransit' :
         a.topic = "accepted" => a.clientToken # toShadow[i].clientToken
  <2>1. \A i \in DOMAIN toShadow : AccOf(toShadow[i].clientToken) = {}
    BY <1>2, <1>8 DEF Correlation, VerdictConsistent
  <2>2. QED
    BY <1>7a, <2>1 DEF AccOf
<1>11. \A i \in DOMAIN toShadow' :
         \/ UNCHANGED toShadow /\ i \in DOMAIN toShadow /\ headVerdict' = "rejected"
         \/ i + 1 \in DOMAIN toShadow /\ i + 1 # 1 /\ toShadow'[i] = toShadow[i + 1]
  BY <1>2, <1>4, TailIndex
(* A queued report other than the head has no rejection in transit.        *)
<1>12. \A i \in DOMAIN toShadow : i # 1 => \A a \in InTransit' :
         a.topic = "rejected" => a.clientToken # toShadow[i].clientToken
  <2>1. SUFFICES ASSUME NEW i \in DOMAIN toShadow, i # 1, NEW a \in InTransit',
                        a.topic = "rejected", a.clientToken = toShadow[i].clientToken
                 PROVE  FALSE
    OBVIOUS
  <2>2. CASE a = rej
    BY <1>5, <1>6, <1>9, <2>1, <2>2
  <2>3. CASE a \in InTransit
    <3>1. a \in RejOf(toShadow[i].clientToken)
      BY <2>1, <2>3 DEF RejOf
    <3>2. QED
      BY <1>8, <2>1, <3>1 DEF Correlation, VerdictConsistent
  <2>4. QED
    BY <1>7a, <2>2, <2>3
<1>13. Correlation'
  <2>1. ReportTokensDistinct' /\ CurrentReportLast'
    <3>1. CASE UNCHANGED toShadow
      BY <1>3, <1>8, <3>1 DEF Correlation, ReportTokensDistinct, CurrentReportLast
    <3>2. CASE toShadow' = Tail(toShadow)
      <4>1. /\ Len(toShadow') = Len(toShadow) - 1
            /\ \A i \in DOMAIN toShadow' :
                 /\ i + 1 \in DOMAIN toShadow /\ toShadow'[i] = toShadow[i + 1]
        BY <1>2, <1>4, <3>2, TailIndex
      <4>2. ReportTokensDistinct'
        <5>1. SUFFICES ASSUME NEW i \in DOMAIN toShadow', NEW j \in DOMAIN toShadow',
                              toShadow'[i].clientToken = toShadow'[j].clientToken
                       PROVE  i = j
          BY DEF ReportTokensDistinct
        <5>2. i + 1 = j + 1
          BY <5>1, <4>1, <1>8 DEF Correlation, ReportTokensDistinct
        <5>3. QED
          BY <5>2, <4>1, <1>4
      <4>3. QED
        BY <1>3, <1>8, <4>1, <4>2 DEF Correlation, CurrentReportLast
    <3>3. QED
      BY <1>2, <3>1, <3>2
  <2>2. ResponseMatchesReport'
    <3>1. SUFFICES ASSUME NEW i \in DOMAIN toShadow', NEW a \in InTransit',
                          a.topic = "accepted",
                          a.clientToken = toShadow'[i].clientToken
                   PROVE  FALSE
      BY DEF ResponseMatchesReport, AccOf
    <3>2. QED
      BY <1>10, <1>11, <3>1
  <2>3. VerdictConsistent'
    <3>1. SUFFICES ASSUME NEW i \in DOMAIN toShadow'
                   PROVE  /\ (\E a \in InTransit' : a.topic = "rejected"
                                /\ a.clientToken = toShadow'[i].clientToken)
                             => i = 1 /\ headVerdict' = "rejected"
                          /\ \A a \in InTransit' : a.topic = "accepted"
                                => a.clientToken # toShadow'[i].clientToken
      BY DEF VerdictConsistent, AccOf, RejOf
    <3>2. \A a \in InTransit' : a.topic = "accepted"
            => a.clientToken # toShadow'[i].clientToken
      BY <1>10, <1>11
    <3>3. CASE UNCHANGED toShadow /\ i \in DOMAIN toShadow /\ headVerdict' = "rejected"
      <4>1. CASE i = 1
        BY <3>2, <3>3, <4>1
      <4>2. CASE i # 1
        BY <1>12, <3>2, <3>3, <4>2
      <4>3. QED
        BY <4>1, <4>2
    <3>4. CASE i + 1 \in DOMAIN toShadow /\ i + 1 # 1 /\ toShadow'[i] = toShadow[i + 1]
      BY <1>12, <3>2, <3>4
    <3>5. QED
      BY <1>11, <3>3, <3>4
  <2>4. CurrentAcceptedMatchesShadow'
    <3>1. SUFFICES ASSUME ulClientToken \in Tokens, AccOf(ulClientToken) # {}
                   PROVE  /\ \A a \in AccOf(ulClientToken) : a.powerOn = shadowReported
                          /\ \A i \in DOMAIN toShadow' :
                               toShadow'[i].clientToken = ulClientToken
      BY <1>2, <1>3, <1>7 DEF CurrentAcceptedMatchesShadow
    <3>2. \A i \in DOMAIN toShadow : toShadow[i].clientToken = ulClientToken
      BY <1>8, <3>1 DEF Correlation, CurrentAcceptedMatchesShadow
    <3>3. QED
      BY <1>8, <1>11, <3>1, <3>2 DEF Correlation, CurrentAcceptedMatchesShadow
  <2>5. ServiceAccepted'
    BY <1>2, <1>3, <1>8 DEF Correlation, ServiceAccepted, InTransit
  <2>6. QED
    BY <2>1, <2>2, <2>3, <2>4, <2>5 DEF Correlation
<1>14. NotifyAfterWrite'
  BY <1>3, SyncInvSplit DEF NotifyAfterWrite
<1>15. ReportedMatchesShadow'
  <2>1. SUFFICES ASSUME ~stale, ulReportedPowerOnState # INVALID_POWERON_STATE
                 PROVE  /\ shadowReported' = ulReportedPowerOnState'
                        /\ \A i \in DOMAIN toShadow' : Benign(i)'
    BY <1>3 DEF ReportedMatchesShadow
  <2>2. ~CurrentAccepted
    BY <1>2 DEF CurrentAccepted
  <2>3. /\ shadowReported = ulReportedPowerOnState
        /\ \A i \in DOMAIN toShadow : Benign(i)
    BY <2>1, <2>2, SyncInvSplit DEF ReportedMatchesShadow
  <2>4. ASSUME NEW i \in DOMAIN toShadow' PROVE Benign(i)'
    <3>1. CASE UNCHANGED toShadow /\ i \in DOMAIN toShadow /\ headVerdict' = "rejected"
      <4>1. CASE i = 1
        BY <3>1, <4>1 DEF Benign
      <4>2. CASE i # 1
        BY <1>3, <2>3, <3>1, <4>2 DEF Benign
      <4>3. QED
        BY <4>1, <4>2
    <3>2. CASE i + 1 \in DOMAIN toShadow /\ i + 1 # 1 /\ toShadow'[i] = toShadow[i + 1]
      BY <1>3, <2>3, <3>2 DEF Benign
    <3>3. QED
      BY <1>11, <3>1, <3>2
  <2>5. QED
    BY <1>2, <1>3, <2>3, <2>4
<1>16. QED
  BY <1>1, <1>13, <1>14, <1>15, SyncInvSplitNext

-----------------------------------------------------------------------------
(* A stuttering step changes nothing.                                      *)
LEMMA StutterSyncInv ==
    ASSUME SyncInv, UNCHANGED vars
    PROVE  SyncInv'
<1>1. UNCHANGED <<ulCurrentPowerOnState, ulReportedPowerOnState, ulClientToken,
                  ulCurrentVersion, ulNotifiedValue, pc, cb, toShadow, headVerdict,
                  inbox, shadowReported, shadowVersion, answered, stale>>
  BY DEF vars, device, env, ghost
<1>2. IInv'
  BY <1>1, SyncInvSplit DEF IInv, TypeOK, WriteHasValue
<1>3. Correlation'
  BY <1>1, CorrelationFrame, SyncInvSplit
<1>4. (NotifyAfterWrite /\ ReportedMatchesShadow)'
  BY <1>1, SyncInvSplit
     DEF NotifyAfterWrite, ReportedMatchesShadow, Benign, CurrentAccepted, RejOf,
         InTransit
<1>5. QED
  BY <1>2, <1>3, <1>4, SyncInvSplitNext

(* SyncInv is inductive.                                                    *)
LEMMA NextSyncInv ==
    ASSUME SyncHypotheses, SyncInv, [Next]_vars
    PROVE  SyncInv'
<1>1. CASE ShadowTask
  BY <1>1, TaskControlSyncInv, PublishSyncInv, WaitNotifiedSyncInv,
     TimedOutSyncInv, ClearTokenSyncInv DEF ShadowTask
<1>2. CASE AgentTask
  BY <1>2, ReceiveSyncInv, AcceptedWriteSyncInv, NotifyGiveSyncInv DEF AgentTask
<1>3. CASE Environment
  BY <1>3, ShadowAcceptSyncInv, ShadowRejectSyncInv, CloudUpdateDesiredSyncInv,
     LoseReportSyncInv, LoseMessageSyncInv DEF Environment
<1>4. CASE UNCHANGED vars
  BY <1>4, StutterSyncInv
<1>5. QED
  BY <1>1, <1>2, <1>3, <1>4 DEF Next

(* SyncInv holds in every reachable state, for every set of values, tokens *)
(* and application tokens that meets SyncHypotheses, and for every bound.   *)
THEOREM SyncInvariant ==
    ASSUME SyncHypotheses
    PROVE  Spec => []SyncInv
<1>1. Init => SyncInv
  BY InitSyncInv
<1>2. SyncInv /\ [Next]_vars => SyncInv'
  BY NextSyncInv
<1>3. QED
  BY <1>1, <1>2, PTL DEF Spec

(* SyncInv gives SyncUnlessStale: at a quiescent check with no change to   *)
(* report (line 841), the reported state is a powerOn value, not the       *)
(* sentinel, and nothing is outstanding, so the shadow holds it.           *)
LEMMA SyncInvImpliesSyncUnlessStale ==
    ASSUME SyncHypotheses, SyncInv
    PROVE  SyncUnlessStale
<1>1. SUFFICES ASSUME ~stale, Quiescent,
                      ulCurrentPowerOnState = ulReportedPowerOnState
               PROVE  shadowReported = ulCurrentPowerOnState
  BY DEF SyncUnlessStale, SyncWhenQuiescent
<1>2. ulReportedPowerOnState # INVALID_POWERON_STATE
  BY <1>1, SyncInvSplit DEF IInv, TypeOK, SyncHypotheses
<1>3. ~CurrentAccepted
  BY <1>1 DEF Quiescent, CurrentAccepted
<1>4. QED
  BY <1>1, <1>2, <1>3, SyncInvSplit DEF ReportedMatchesShadow

(* The timeout-and-resend loop of lines 839-898 keeps device and shadow in *)
(* agreement whenever everything has settled (SyncUnlessStale), through    *)
(* any loss, duplication and reordering of reports and responses, in every *)
(* run in which neither callback race has struck, for every instance that  *)
(* meets SyncHypotheses.                                                    *)
THEOREM SyncUnlessStaleThm ==
    ASSUME SyncHypotheses
    PROVE  Spec => []SyncUnlessStale
<1>1. SyncInv => SyncUnlessStale
  BY SyncInvImpliesSyncUnlessStale
<1>2. QED
  BY <1>1, SyncInvariant, PTL
=============================================================================
