----------------------------- MODULE ShadowSync -----------------------------
(***************************************************************************)
(* The powerOn synchronisation engine of shadow_device_task.c, together    *)
(* with the environment it talks to: the MQTT transport and the AWS IoT    *)
(* Device Shadow service.                                                  *)
(*                                                                         *)
(* Device side (modelled from the source):                                 *)
(*   - the loop of vShadowDeviceTask (lines 839-898), one action per       *)
(*     statement that touches shared state;                                *)
(*   - prvIncomingPublishUpdateDeltaCallback (476-583);                    *)
(*   - prvIncomingPublishUpdateAcceptedCallback (587-692), split at its    *)
(*     token check, its write of the reported state and its notification;  *)
(*   - prvIncomingPublishUpdateRejectedCallback (696-785);                 *)
(*   - the task-notification value used by ulTaskNotifyTake and            *)
(*     xTaskNotifyGive, a counting semaphore.                              *)
(* The callbacks run on the MQTT agent task, one at a time, concurrently   *)
(* with the shadow task.                                                   *)
(*                                                                         *)
(* Environment (not code of this repository):                              *)
(*   - toShadow: the reports on their way to the shadow service, in the    *)
(*     order MQTT delivers them; the head may be lost or delivered again   *)
(*     (QoS 1 retransmission);                                             *)
(*   - inbox: publishes on update/delta, update/accepted and               *)
(*     update/rejected on their way to the device, in no particular order; *)
(*     each may be lost or delivered more than once;                       *)
(*   - the shadow service, which accepts or rejects each report, and a     *)
(*     cloud application that changes the desired state.                  *)
(***************************************************************************)
EXTENDS Naturals, Sequences, FiniteSets

CONSTANTS
    Values,             \* powerOn values a delta may carry (strtoul of any uint32)
    Tokens,             \* client tokens xTaskGetTickCount() % 1000000 can yield
    AppTokens,          \* clientToken of the cloud application's updates, as strtoul reads it
    InitShadowReported, \* reported powerOn the shadow may hold when the task starts
    NoValue,            \* a document without the powerOn field
    NoToken,            \* a document without a clientToken field
    MaxVersion,         \* bound: number of desired-state changes of the cloud application
    MaxInFlight,        \* bound: reports queued in the agent and the network (queue capacity)
    MaxNotify           \* bound: notification count of the shadow task

(* shadowexampleINVALID_POWERON_STATE, line 147. *)
INVALID_POWERON_STATE == 2

ASSUME ConstAssumption ==
    /\ Values \subseteq Nat
    /\ 0 \in Values
    /\ Tokens \subseteq Nat
    /\ Tokens # {}
    /\ NoValue \notin Nat
    /\ NoToken \notin Nat
    /\ AppTokens \subseteq Nat \cup {NoToken}
    /\ InitShadowReported \subseteq Values \cup {NoValue}
    /\ InitShadowReported # {}
    /\ MaxVersion \in Nat
    /\ MaxInFlight \in Nat \ {0}
    /\ MaxNotify \in Nat \ {0}

(* The tokens are tick counts modulo 1000000 (line 850).                   *)
ASSUME TokenRange == Tokens \subseteq 0..999999

VARIABLES
    (* ShadowDeviceCtx_t, lines 170-182, and the static ulCurrentVersion of *)
    (* the delta callback, line 479.                                        *)
    ulCurrentPowerOnState,
    ulReportedPowerOnState,
    ulClientToken,
    ulCurrentVersion,
    (* The notification value of the shadow task.                           *)
    ulNotifiedValue,
    (* The statement the shadow task is at.                                 *)
    pc,
    (* The callback the MQTT agent task is executing: "idle", or the step   *)
    (* it has reached and the message it handles.                           *)
    cb,
    (* Environment.                                                          *)
    toShadow, headVerdict, inbox, shadowReported, shadowVersion,
    (* History: a response to the outstanding report has notified the task  *)
    (* since it was published; "stale" latches once a wait has been ended   *)
    (* by a notification no response to the outstanding report gave, or a   *)
    (* callback has written the reported state for a report that is no      *)
    (* longer outstanding.                                                  *)
    answered, stale

device == <<ulCurrentPowerOnState, ulReportedPowerOnState, ulClientToken,
            ulCurrentVersion, ulNotifiedValue, pc, cb>>
env    == <<toShadow, headVerdict, inbox, shadowReported, shadowVersion>>
ghost  == <<answered, stale>>
vars   == <<device, env, ghost>>

-----------------------------------------------------------------------------
(* Documents.                                                              *)

(* The report built by snprintf at lines 857-861 into a buffer of          *)
(* shadowexampleSHADOW_REPORTED_JSON_LENGTH + 1 bytes.  The buffer holds   *)
(* exactly one digit of powerOn ("%1u"); a wider value makes snprintf drop *)
(* the closing brace, and the shadow receives a document that is not JSON. *)
EncodeReport(v, t) == [ok |-> v < 10, powerOn |-> v, clientToken |-> t]

ReportDocs == [ok : BOOLEAN, powerOn : Values, clientToken : Tokens]

AcceptedDocs == [topic : {"accepted"}, clientToken : Tokens \cup AppTokens,
                 powerOn : Values \cup {NoValue}]
RejectedDocs == [topic : {"rejected"}, clientToken : Tokens \cup {NoToken}]
DeltaDocs    == [topic : {"delta"}, version : 1..MaxVersion,
                 powerOn : Values \cup {NoValue}]
InboxDocs    == AcceptedDocs \cup RejectedDocs \cup DeltaDocs

(* The steps of the accepted and rejected callbacks after the token check. *)
CbSteps == {"write", "notify"}

(* The agent task runs no callback.                                        *)
CbIdle == [step |-> "idle", msg |-> [topic |-> "none"]]

(* Tokens of reports and responses still in transit or in a callback.  A   *)
(* tick-based token repeats only after 10^6 ticks; the comment at lines   *)
(* 91-94 requires a token to be unique while its update is outstanding,   *)
(* and the model draws a new token among those no such message carries.   *)
InFlightTokens ==
    {toShadow[i].clientToken : i \in DOMAIN toShadow}
        \cup {m.clientToken : m \in {x \in inbox : x.topic # "delta"}}
        \cup (IF cb = CbIdle THEN {} ELSE {cb.msg.clientToken})

-----------------------------------------------------------------------------
TypeOK ==
    /\ ulCurrentPowerOnState \in Values
    /\ ulReportedPowerOnState \in Values \cup {INVALID_POWERON_STATE}
    /\ ulClientToken \in Tokens \cup {0}
    /\ ulCurrentVersion \in 0..MaxVersion
    /\ ulNotifiedValue \in 0..MaxNotify
    /\ pc \in {"check", "publish", "wait", "timedOut", "clear", "sleep"}
    /\ cb \in {CbIdle} \cup [step : CbSteps, msg : AcceptedDocs \cup RejectedDocs]
    /\ toShadow \in Seq(ReportDocs)
    /\ Len(toShadow) <= MaxInFlight
    /\ headVerdict \in {"none", "accepted", "rejected"}
    /\ inbox \subseteq InboxDocs
    /\ shadowReported \in Values \cup {NoValue}
    /\ shadowVersion \in 0..MaxVersion
    /\ answered \in BOOLEAN
    /\ stale \in BOOLEAN

(* vShadowDeviceTask after a successful subscription: xShadowCtx = { 0 }   *)
(* (line 796) leaves both powerOn fields at 0 and the token at 0;          *)
(* xTaskNotifyWait in prvSubscribeToShadowUpdateTopics clears the          *)
(* notification value on exit (line 401).                                   *)
Init ==
    /\ ulCurrentPowerOnState = 0
    /\ ulReportedPowerOnState = 0
    /\ ulClientToken = 0
    /\ ulCurrentVersion = 0
    /\ ulNotifiedValue = 0
    /\ pc = "check"
    /\ cb = CbIdle
    /\ toShadow = <<>>
    /\ headVerdict = "none"
    /\ inbox = {}
    /\ shadowReported \in InitShadowReported
    /\ shadowVersion = 0
    /\ answered = FALSE
    /\ stale = FALSE

-----------------------------------------------------------------------------
(* The shadow task, lines 839-898.                                          *)

(* Line 841: no change since the last report; go to the delay.             *)
CheckUnchanged ==
    /\ pc = "check"
    /\ ulCurrentPowerOnState = ulReportedPowerOnState
    /\ pc' = "sleep"
    /\ UNCHANGED <<ulCurrentPowerOnState, ulReportedPowerOnState, ulClientToken,
                   ulCurrentVersion, ulNotifiedValue, cb, env, ghost>>

(* Line 841: the state changed; a report is due.                           *)
CheckChanged ==
    /\ pc = "check"
    /\ ulCurrentPowerOnState # ulReportedPowerOnState
    /\ pc' = "publish"
    /\ UNCHANGED <<ulCurrentPowerOnState, ulReportedPowerOnState, ulClientToken,
                   ulCurrentVersion, ulNotifiedValue, cb, env, ghost>>

(* Mutation: the token is not kept unique while its update is           *)
(* outstanding (the comment at lines 91-94), as with a coarser tick.       *)
PublishReusedToken ==
    /\ pc = "publish"
    /\ \E t \in Tokens :
         /\ ulClientToken' = t
         /\ IF Len(toShadow) < MaxInFlight
              THEN /\ toShadow' = Append(toShadow, EncodeReport(ulCurrentPowerOnState, t))
                   /\ pc' = "wait"
              ELSE /\ pc' = "clear"
                   /\ UNCHANGED toShadow
    /\ answered' = FALSE
    /\ UNCHANGED <<ulCurrentPowerOnState, ulReportedPowerOnState, ulCurrentVersion,
                   ulNotifiedValue, cb, headVerdict, inbox, shadowReported,
                   shadowVersion, stale>>

(* Lines 850-874: take a new token, encode the current state (read again,  *)
(* line 860) and post the publish to the agent.  MQTTAgent_Publish fails   *)
(* when the agent's queue stays full; the task then skips the wait.        *)
Publish ==
    /\ pc = "publish"
    /\ \E t \in Tokens \ InFlightTokens :
         /\ ulClientToken' = t
         /\ IF Len(toShadow) < MaxInFlight
              THEN /\ toShadow' = Append(toShadow, EncodeReport(ulCurrentPowerOnState, t))
                   /\ pc' = "wait"
              ELSE /\ pc' = "clear"
                   /\ UNCHANGED toShadow
    /\ answered' = FALSE
    /\ UNCHANGED <<ulCurrentPowerOnState, ulReportedPowerOnState, ulCurrentVersion,
                   ulNotifiedValue, cb, headVerdict, inbox, shadowReported,
                   shadowVersion, stale>>

(* Line 879, ulTaskNotifyTake( pdFALSE, ... ): the notification value is    *)
(* non-zero, so the take returns it and decrements it by one.              *)
WaitNotified ==
    /\ pc = "wait"
    /\ ulNotifiedValue > 0
    /\ ulNotifiedValue' = ulNotifiedValue - 1
    /\ pc' = "clear"
    /\ stale' = (stale \/ ~answered)
    /\ UNCHANGED <<ulCurrentPowerOnState, ulReportedPowerOnState, ulClientToken,
                   ulCurrentVersion, cb, env, answered>>

(* Line 879: shadow_SIGNAL_TIMEOUT expires with no notification.           *)
WaitTimeout ==
    /\ pc = "wait"
    /\ ulNotifiedValue = 0
    /\ pc' = "timedOut"
    /\ UNCHANGED <<ulCurrentPowerOnState, ulReportedPowerOnState, ulClientToken,
                   ulCurrentVersion, ulNotifiedValue, cb, env, ghost>>

(* Mutation: the timeout branch forgets line 888 and keeps the last       *)
(* reported state, as if the report had been answered.                     *)
TimedOutKeepReported ==
    /\ pc = "timedOut"
    /\ pc' = "clear"
    /\ UNCHANGED <<ulCurrentPowerOnState, ulReportedPowerOnState, ulClientToken,
                   ulCurrentVersion, ulNotifiedValue, cb, env, ghost>>

(* Mutation: a timeout is taken for success and the current state is      *)
(* recorded as reported instead of the sentinel.                           *)
TimedOutAssumeAccepted ==
    /\ pc = "timedOut"
    /\ ulReportedPowerOnState' = ulCurrentPowerOnState
    /\ pc' = "clear"
    /\ UNCHANGED <<ulCurrentPowerOnState, ulClientToken, ulCurrentVersion,
                   ulNotifiedValue, cb, env, ghost>>

(* Lines 881-889: after a timeout, force the next cycle to report again.   *)
TimedOut ==
    /\ pc = "timedOut"
    /\ ulReportedPowerOnState' = INVALID_POWERON_STATE
    /\ pc' = "clear"
    /\ UNCHANGED <<ulCurrentPowerOnState, ulClientToken, ulCurrentVersion,
                   ulNotifiedValue, cb, env, ghost>>

(* Line 893: clear the client token.                                       *)
ClearToken ==
    /\ pc = "clear"
    /\ ulClientToken' = 0
    /\ pc' = "sleep"
    /\ UNCHANGED <<ulCurrentPowerOnState, ulReportedPowerOnState, ulCurrentVersion,
                   ulNotifiedValue, cb, env, ghost>>

(* Lines 896-897: vTaskDelay, then the next check.                         *)
Sleep ==
    /\ pc = "sleep"
    /\ pc' = "check"
    /\ UNCHANGED <<ulCurrentPowerOnState, ulReportedPowerOnState, ulClientToken,
                   ulCurrentVersion, ulNotifiedValue, cb, env, ghost>>

-----------------------------------------------------------------------------
(* The callbacks, run by the MQTT agent task when it takes message m off   *)
(* the network.  The message stays in transit when it is delivered again. *)

Take(m) == inbox' \in {inbox \ {m}, inbox}

(* Mutation: the result of the state.powerOn search (line 567) is not      *)
(* checked, and whatever the search left is stored.                        *)
ReceiveDeltaUnchecked(m) ==
    /\ m.topic = "delta"
    /\ IF m.version <= ulCurrentVersion
         THEN UNCHANGED <<ulCurrentVersion, ulCurrentPowerOnState>>
         ELSE /\ ulCurrentVersion' = m.version
              /\ ulCurrentPowerOnState' = m.powerOn
    /\ UNCHANGED <<ulReportedPowerOnState, ulClientToken, ulNotifiedValue, pc, cb>>

(* prvIncomingPublishUpdateDeltaCallback, lines 511-582: discard a version *)
(* not newer than the last one; otherwise record the version and, if the   *)
(* document has state.powerOn, apply it.                                   *)
ReceiveDelta(m) ==
    /\ m.topic = "delta"
    /\ IF m.version <= ulCurrentVersion
         THEN UNCHANGED <<ulCurrentVersion, ulCurrentPowerOnState>>
         ELSE /\ ulCurrentVersion' = m.version
              /\ ulCurrentPowerOnState' = IF m.powerOn = NoValue
                                            THEN ulCurrentPowerOnState
                                            ELSE m.powerOn
    /\ UNCHANGED <<ulReportedPowerOnState, ulClientToken, ulNotifiedValue, pc, cb>>

(* prvIncomingPublishUpdateAcceptedCallback, lines 628-681: ignore a       *)
(* document without clientToken or with another token than ulClientToken; *)
(* otherwise go on to write state.reported.powerOn, or, when the document  *)
(* lacks it (line 679), straight to the notification.                      *)
ReceiveAccepted(m) ==
    /\ m.topic = "accepted"
    /\ IF m.clientToken = NoToken \/ m.clientToken # ulClientToken
         THEN UNCHANGED cb
         ELSE cb' = [step |-> IF m.powerOn = NoValue THEN "notify" ELSE "write",
                     msg  |-> m]
    /\ UNCHANGED <<ulCurrentPowerOnState, ulReportedPowerOnState, ulClientToken,
                   ulCurrentVersion, ulNotifiedValue, pc>>

(* prvIncomingPublishUpdateRejectedCallback, lines 723-779: the same token *)
(* gate; a matching response only logs its error code.                     *)
ReceiveRejected(m) ==
    /\ m.topic = "rejected"
    /\ IF m.clientToken = NoToken \/ m.clientToken # ulClientToken
         THEN UNCHANGED cb
         ELSE cb' = [step |-> "notify", msg |-> m]
    /\ UNCHANGED <<ulCurrentPowerOnState, ulReportedPowerOnState, ulClientToken,
                   ulCurrentVersion, ulNotifiedValue, pc>>

Receive ==
    /\ cb = CbIdle
    /\ \E m \in inbox :
         /\ Take(m)
         /\ ReceiveDelta(m) \/ ReceiveAccepted(m) \/ ReceiveRejected(m)
    /\ UNCHANGED <<toShadow, headVerdict, shadowReported, shadowVersion, ghost>>

(* Line 685: save the accepted state as the last reported one.             *)
AcceptedWrite ==
    /\ cb.step = "write"
    /\ ulReportedPowerOnState' = cb.msg.powerOn
    /\ cb' = [cb EXCEPT !.step = "notify"]
    /\ stale' = (stale \/ cb.msg.clientToken # ulClientToken)
    /\ UNCHANGED <<ulCurrentPowerOnState, ulClientToken, ulCurrentVersion,
                   ulNotifiedValue, pc, env, answered>>

(* Lines 689 and 782: xTaskNotifyGive wakes the shadow task.               *)
NotifyGive ==
    /\ cb.step = "notify"
    /\ ulNotifiedValue < MaxNotify
    /\ ulNotifiedValue' = ulNotifiedValue + 1
    /\ answered' = (answered \/ cb.msg.clientToken = ulClientToken)
    /\ cb' = CbIdle
    /\ UNCHANGED <<ulCurrentPowerOnState, ulReportedPowerOnState, ulClientToken,
                   ulCurrentVersion, pc, env, stale>>

-----------------------------------------------------------------------------
(* Environment: the shadow service, the cloud application, the network.    *)

(* The service takes the report at the head of the queue and accepts it:  *)
(* the reported state becomes the report's, and the response echoes the   *)
(* token and the reported state.  The report may stay at the head, to be  *)
(* delivered again (QoS 1); a copy delivered again gets the same verdict.  *)
ShadowAccept ==
    /\ toShadow # <<>>
    /\ LET r == Head(toShadow) IN
         /\ r.ok
         /\ shadowReported' = r.powerOn
         /\ inbox' = inbox \cup {[topic |-> "accepted", clientToken |-> r.clientToken,
                                  powerOn |-> r.powerOn]}
    /\ headVerdict # "rejected"
    /\ \/ toShadow' = Tail(toShadow) /\ headVerdict' = "none"
       \/ UNCHANGED toShadow /\ headVerdict' = "accepted"
    /\ UNCHANGED <<device, shadowVersion, ghost>>

(* The service rejects a report (throttling, internal error); a document  *)
(* that is not JSON is rejected without a clientToken.                     *)
ShadowReject ==
    /\ toShadow # <<>>
    /\ headVerdict # "accepted"
    /\ LET r == Head(toShadow) IN
         inbox' = inbox \cup {[topic |-> "rejected",
                               clientToken |-> IF r.ok THEN r.clientToken ELSE NoToken]}
    /\ \/ toShadow' = Tail(toShadow) /\ headVerdict' = "none"
       \/ UNCHANGED toShadow /\ headVerdict' = "rejected"
    /\ UNCHANGED <<device, shadowReported, shadowVersion, ghost>>

(* The cloud application changes the desired powerOn to v.  The service   *)
(* publishes a delta with the new version, whose state holds powerOn only  *)
(* when it differs from the reported one, and answers the application on  *)
(* update/accepted with the application's token and no reported state.    *)
CloudUpdateDesired ==
    /\ shadowVersion < MaxVersion
    /\ \E v \in Values, at \in AppTokens :
         /\ shadowVersion' = shadowVersion + 1
         /\ inbox' = inbox \cup
              {[topic |-> "delta", version |-> shadowVersion + 1,
                powerOn |-> IF v = shadowReported THEN NoValue ELSE v],
               [topic |-> "accepted", clientToken |-> at, powerOn |-> NoValue]}
    /\ UNCHANGED <<device, toShadow, headVerdict, shadowReported, ghost>>

LoseReport ==
    /\ toShadow # <<>>
    /\ toShadow' = Tail(toShadow)
    /\ headVerdict' = "none"
    /\ UNCHANGED <<device, inbox, shadowReported, shadowVersion, ghost>>

LoseMessage ==
    /\ \E m \in inbox : inbox' = inbox \ {m}
    /\ UNCHANGED <<device, toShadow, headVerdict, shadowReported, shadowVersion, ghost>>

-----------------------------------------------------------------------------
ShadowTask ==
    \/ CheckUnchanged \/ CheckChanged \/ Publish \/ WaitNotified
    \/ WaitTimeout \/ TimedOut \/ ClearToken \/ Sleep

AgentTask == Receive \/ AcceptedWrite \/ NotifyGive

Environment ==
    ShadowAccept \/ ShadowReject \/ CloudUpdateDesired \/ LoseReport \/ LoseMessage

Next == ShadowTask \/ AgentTask \/ Environment

Spec == Init /\ [][Next]_vars

(* Fairness.  The shadow task and the MQTT agent task are FreeRTOS tasks   *)
(* that the scheduler keeps running, and the waits of the shadow task      *)
(* (ulTaskNotifyTake, vTaskDelay) end by a timeout: both tasks are weakly  *)
(* fair.  Of the environment three things are assumed: a QoS 1 publish is *)
(* eventually completed, so the report at the head of the queue does not  *)
(* stay there for ever; a message is delivered again only finitely often,  *)
(* so it eventually leaves the network, delivered or lost; and a valid     *)
(* report that the service keeps being offered is eventually accepted.    *)
(* Losses and rejections may go on for ever.                              *)
ReportLeavesQueue == Next /\ Len(toShadow') < Len(toShadow)

MessageLeavesInbox == Next /\ inbox' \subseteq inbox /\ inbox' # inbox

Fairness ==
    /\ WF_vars(ShadowTask)
    /\ WF_vars(AgentTask)
    /\ WF_vars(ReportLeavesQueue)
    /\ WF_vars(MessageLeavesInbox)
    /\ SF_vars(ShadowAccept)

FairSpec == Spec /\ Fairness

-----------------------------------------------------------------------------
(* Properties.                                                             *)

(* Nothing is in transit, no callback is running and the shadow task is   *)
(* at its check: the state the loop will keep until something new arrives. *)
Quiescent ==
    /\ pc = "check"
    /\ cb = CbIdle
    /\ toShadow = <<>>
    /\ inbox = {}

(* The purpose of the loop (lines 39-42, 841): once everything has         *)
(* settled and the task sees no change to report, the shadow holds the     *)
(* device's powerOn.                                                       *)
SyncWhenQuiescent ==
    Quiescent /\ ulCurrentPowerOnState = ulReportedPowerOnState
        => shadowReported = ulCurrentPowerOnState

(* The timeout-and-resend design of lines 879-893 keeps device and shadow  *)
(* in agreement under loss, duplication and reordering of every message,   *)
(* in every run in which neither of the two races of the callbacks with    *)
(* the task has happened: a wait ended by a stale notification (line 879), *)
(* or a reported state written after its report stopped being outstanding  *)
(* (line 685).                                                             *)
SyncUnlessStale == ~stale => SyncWhenQuiescent

(* The device and the shadow hold the same powerOn.                        *)
Synced == shadowReported = ulCurrentPowerOnState

(* The purpose of the report loop (lines 39-42, 839-898) as a liveness     *)
(* property: once the cloud application has stopped changing the desired   *)
(* state, the shadow comes to hold the device's powerOn for good, through  *)
(* any losses and rejections, in every run without the two callback races *)
(* that SyncUnlessStale excludes.                                          *)
EventuallySynced == []~stale => <>[]Synced

(* The comments at lines 656-659 and 885-887: a wait of the task for the   *)
(* response to its report ends with a notification only when a response to *)
(* that report has been handled.                                           *)
WakeOnlyByResponse ==
    [][pc = "wait" /\ ulNotifiedValue' < ulNotifiedValue => answered]_vars

(* ulClientToken is 0 "when not waiting on a response" (line 180), and   *)
(* the comments at lines 656-659 take a response that passes the token    *)
(* check for the response to the report being waited for: a callback gets *)
(* past the check (lines 661, 756) only between the publish (850) and the *)
(* token clear (893), never for a report whose wait is over.               *)
MatchOnlyWhileOutstanding ==
    [][cb = CbIdle /\ cb' # CbIdle => pc \in {"wait", "timedOut", "clear"}]_vars
=============================================================================
