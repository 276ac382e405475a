# TLA+ verification of the device-shadow powerOn synchronisation

Source: `src/Projects/B-U585I-IOT02A/tz_disabled/Src/mqtt/shadow_device_task.c`
(line numbers below refer to this file).

## The system

The shadow device task keeps one device property, `powerOn`, in step with
the AWS IoT Device Shadow of the device.  Two FreeRTOS tasks share the
context `ShadowDeviceCtx_t` (lines 150-188):

* **the shadow task** (`vShadowDeviceTask`, 789-905) runs the report loop.
  When `ulCurrentPowerOnState` differs from `ulReportedPowerOnState` (841),
  it takes a token from the tick count (850), formats a report (857-861),
  publishes it through the MQTT agent (867), and waits up to 30 s on its
  task notification (879).  A timeout sets the reported state to the
  sentinel 2 so that the next cycle resends it (888).  The task then
  clears the token (893) and sleeps (897);
* **the MQTT agent task** runs the three incoming-publish callbacks one at
  a time:
  * the **delta** callback (476-583) applies `state.powerOn` of a delta
    whose version is newer than the static `ulCurrentVersion`;
  * the **accepted** callback (587-692), on a token match, copies
    `state.reported.powerOn` into `ulReportedPowerOnState` and calls
    `xTaskNotifyGive`;
  * the **rejected** callback (696-785), on a token match, only calls
    `xTaskNotifyGive`.

The task notification is a counting semaphore.  `xTaskNotifyGive` adds one
and `ulTaskNotifyTake(pdFALSE, ...)` takes one.

## Inventory

| Part | Source | Module | Status |
|---|---|---|---|
| Synchronization controller | 839-898 | `ShadowSync` | modelled |
| Delta ingestion | 476-583 | `ShadowSync` | modelled |
| Update-response correlation | 587-785 | `ShadowSync` | modelled |
| Document codec | 96-122, 857-861, strtoul calls | `ShadowSync` | partly: the report's one-digit field is modelled; parsing is reduced to the fields found |
| Subscription setup | 348-472, 831-839, 900-904 | `ShadowStartup` | modelled |
| Context initialisation | 271-344 | none | not modelled: topic strings and allocation only |
| MQTT agent, transport, JSON library, shadow service | outside the source | environment of `ShadowSync` | interface only |

## Modules

* `ShadowSync.tla` is the device and its environment.
  * Variables: the four context fields, `ulNotifiedValue` (the
    notification count), `pc` (the statement the shadow task is at) and
    `cb` (the callback the agent task is in, and its step).
  * Environment: `toShadow` (reports in QoS 1 order; the head may be lost
    or redelivered), `headVerdict` (a redelivered copy gets the verdict of
    its first copy), `inbox` (responses and deltas, unordered, each lost
    or delivered any number of times), and `shadowReported` and
    `shadowVersion` of the service.
  * History variables: `answered` (a response to the outstanding report
    has notified since the publish) and `stale` (a wait has ended with a
    notification that no response to the current report gave, or the
    accepted callback has written the state of a report that is no longer
    outstanding).

  The shadow task has one action per statement that touches shared state:
  `CheckUnchanged`, `CheckChanged`, `Publish` (including the
  full-agent-queue branch), `WaitNotified`, `WaitTimeout`, `TimedOut`,
  `ClearToken` and `Sleep`.  The callbacks are split into three steps at
  the points where the shadow task can interleave:
  * `Receive`, which is the token check or the whole delta callback;
  * `AcceptedWrite` (line 685);
  * `NotifyGive` (lines 689 and 782).

  The environment actions are `ShadowAccept`, `ShadowReject`,
  `CloudUpdateDesired`, `LoseReport` and `LoseMessage`.  A token is drawn
  among the values no message in transit carries.  This follows the
  uniqueness requirement of lines 91-94: a tick-derived token repeats only
  after 10^6 ticks.
* `ShadowStartup.tla` is the start-up of the shadow task:
  `prvSubscribeToShadowUpdateTopics` (348-454), the SUBACK callback
  `prvSubscribeCommandCallback` (458-472), the task's choice between the
  report loop and `vTaskDelete` (831-839, 900-904), and the cycles of
  the report loop as far as the task notification goes.
  * Variables: `spc` (the statement), `xStatus`, `cmd` (the subscribe
    command: none, queued, completed), `registered` (topics with a
    callback), the notification value `nValue` and its pending state
    `nPending`, `outstanding` (a report awaits its response), and the
    history variable `ackRc` (the SUBACK's return code).
  * The notification is modelled by what each FreeRTOS call does to it:
    `xTaskNotifyStateClear` clears only the pending state (382);
    `xTaskNotifyWait(0, 0xFFFFFFFF)` waits for the pending state and clears
    the value on exit (401); `xTaskNotify(eSetValueWithOverwrite)` sets
    both (469); `xTaskNotifyGive` adds one; `ulTaskNotifyTake(pdFALSE)`
    takes one and leaves the state cleared (879).
  * Actions: `ClearState`, `PostSubscribe` (the retry loop 388-395; a
    failed post changes nothing), `AckWaitNotified`, `AckWaitTimeout`,
    `RegDelta`, `RegAccepted`, `RegRejected` (each registration succeeds
    or fails; `submgr_addSubscription` is outside this source), `Publish`
    (the check at 841 finds a change only once the delta callback is
    registered: `ulCurrentPowerOnState` is written only by that callback
    and starts equal to `ulReportedPowerOnState`),
    `WaitNotified`, `WaitTimeout`, and on the agent's side
    `SubscribeComplete` (at any time after the post, also after the ack
    wait ended) and `ResponseGive` (a response callback, when registered,
  once or again for a redelivered response).
* `MCShadowSync.tla` holds the TLC instances: model values for the absent
  field and token, and the small sets below.
* `MCShadowStartup.tla` is the TLC instance of the start-up.
* `MCShadowSyncSafety.tla` puts the `MCShadowSync` instances together
  with `ShadowSyncSafety`, so that TLC can check the inductive invariant
  `SyncInv`.
* `ShadowSyncProofs.tla`, `ShadowSyncSafety.tla` and
  `ShadowStartupProofs.tla` hold the TLAPS proofs.

## Runs

The `ShadowSync` runs use `MaxVersion = 2` and `MaxNotify = 2`.  Two
desired-state changes are enough for a stale and a fresh delta to race.
A notification count of 2 is enough for one surplus notification to exist
next to a genuine one.  The sync run allows `MaxInFlight = 2` queued
reports.  The task waits for each report, but after a timeout the old
report may still be queued in the agent or the network when the next one
is published.  Two queued reports exercise the conjuncts of `SyncInv`
about tokens and the order of the queue.  The violation runs use
`MaxInFlight = 1`, which is enough for their traces.  The liveness runs
use `MaxVersion = 1`: one desired-state change already makes the task
report, lose, time out and resend, and the fair state graph with two
changes takes over four minutes to search.

The startup run uses seven return codes {0, ..., 6} with
`MQTTSuccess = 0` (MQTTStatus_t has more), and `MaxNotify = 4`; the
startup_no_delta run needs only {0, 1, 2, 3}.  The runs do not check
deadlock: after `vTaskDelete` (903) the task is gone for good, and a loop
without the delta callback never finds a change to report.

`MaxNotify` bounds the notification count in both modules.  In the code
`xTaskNotifyGive` never blocks; in the model a give that would pass the
bound is not taken, which only removes states with larger counts.  With
`MaxNotify = 2`, one surplus notification next to a genuine one is
reachable, which is what both races need.

| Run | cfg | Expect | Checks | Shows |
|---|---|---|---|---|
| sync | `MCShadowSync.cfg` (module `MCShadowSyncSafety`) | pass (about 1.05M states) | `TypeOK`, `SyncUnlessStale`, `SyncInv` | With tokens {1,2}, values {0,1}, two queued reports and a shadow that starts at the device's 0, device and shadow agree whenever the system settles, unless a callback race has struck; the inductive invariant of the proof holds in every reachable state. |
| live | `MCShadowSyncLive.cfg` | pass (about 78K states) | `EventuallySynced` | Under the fairness below, and without the two callback races, the shadow eventually holds the device's powerOn for good. |
| truncate | `MCShadowSyncTruncate.cfg` | violation | `EventuallySynced` | With powerOn 10 the report is truncated by snprintf (857).  The service rejects it without a clientToken, nobody answers, and the task times out and resends for ever. |
| restart | `MCShadowSyncRestart.cfg` | violation | `SyncWhenQuiescent` | The shadow holds 1 from before a restart.  The context starts with reported = 0, so the device's 0 is never reported. |
| stale_wake | `MCShadowSyncStaleWake.cfg` | violation | `WakeOnlyByResponse` | A response matched between the timeout (879) and the token clear (893) leaves a notification behind.  That notification ends the next wait before any response to the new report. |
| desync | `MCShadowSyncDesync.cfg` | violation | `SyncWhenQuiescent` | A duplicated response gives two notifications.  The second ends the next wait early, and the device settles while disagreeing with the shadow. |
| app_token | `MCShadowSyncAppToken.cfg` | violation | `SyncUnlessStale` | The application's update/accepted has no reported state.  Its numeric clientToken equals the outstanding token, so it ends the wait (679, 689) with the reported state unchanged.  The device's own response comes after the token clear and is ignored.  A delta back to the old value then leaves the device settled apart from the shadow, with no race involved. |
| token_zero | `MCShadowSyncTokenZero.cfg` | violation | `MatchOnlyWhileOutstanding` | The tick count modulo 10^6 can be 0, the value the token is cleared to (893).  A report with token 0 times out, and its late update/accepted passes the token check while the task sleeps. |
| sentinel | `MCShadowSyncSentinel.cfg` | violation | `SyncUnlessStale` | A delta sets powerOn to 2, the sentinel's value.  After a timeout, the task takes 2 as already reported and never resends it. |
| startup | `MCShadowStartup.cfg` | pass (115 states) | `LoopHasResponseCallbacks`, `DeltaOnlyAfterSubscribed` | Whatever the SUBACK returns and whenever it arrives, and whichever registration fails, the report loop runs only with both response callbacks, and the delta callback is registered only after a SUBACK with MQTTSuccess. |
| startup_no_delta | `MCShadowStartupNoDelta.cfg` | violation | `LoopHasDeltaCallback` | When the SUBACK wait times out, the else branch (414-417) only logs.  `xStatus` is still the success of the subscribe loop, so the response callbacks are registered and the loop runs without a delta callback, although spec section 7 makes a failed initial subscription fatal. |

`SyncUnlessStale` states what the timeout-and-resend design achieves
under loss and duplication of every message and reordering of responses
and deltas.  Reports reach the service in the order they were published
(QoS 1 publishes of one connection).  The `stale` flag marks the runs
where the two known races (stale_wake, desync) have struck.  Excluding
them keeps the property about the rest of the design.  The passing runs
fire every action.  Each of their properties has a mutant in
`PROJECT.json` that TLC catches:
* `TimedOutKeepReported` (no reset to the sentinel) breaks `SyncUnlessStale`;
* `PublishReusedToken` (a token reused while its report is outstanding)
  breaks `SyncInv`;
* `ReceiveDeltaUnchecked` (no check for a missing field) breaks `TypeOK`;
* `TimedOutAssumeAccepted` (a timeout taken as acceptance) breaks
  `EventuallySynced`;
* `RegRejectedIgnoreStatus` (the last xStatus check dropped) breaks
  `LoopHasResponseCallbacks`;
* `AckWaitNotifiedAnyValue` (the return code not checked at 403) breaks
  `DeltaOnlyAfterSubscribed`.

### Fairness (`FairSpec` in `ShadowSync.tla`)

* Weak fairness of `ShadowTask` and of `AgentTask`: both are FreeRTOS
  tasks that block only with timeouts, or on an inbox with messages in
  it, so each enabled task eventually runs.
* Weak fairness of a report leaving the QoS 1 queue: the agent completes
  a QoS 1 publish by delivering it or giving it up.
* Weak fairness of a message leaving the inbox: the broker redelivers a
  message only finitely often.
* Strong fairness of `ShadowAccept`: a service that keeps getting a valid
  report eventually accepts one.  Rejection and loss may still happen any
  number of times.

Without the last one nothing can be promised, since the service may
reject for ever.  The truncate run shows that even this fairness is not
enough when the report is never valid.

## Proofs (`ShadowSyncProofs.tla`)

The proofs hold for every value of the constants that `ConstAssumption`
admits.  (The token range 0..999999 is a separate assumption,
`TokenRange`, that no proof needs.)

* `TypeCorrect`: `Spec => []TypeOK`.  `TypeOK` is not inductive on its
  own, because `AcceptedWrite` copies `cb.msg.powerOn`.  That field is a
  value only because the accepted callback reaches its write step with an
  accepted document whose powerOn was found.  The inductive invariant is
  `IInv == TypeOK /\ WriteHasValue`.  TLC checked it on the sync instance
  before it was proved.  Its proof has one lemma per group of actions
  (shadow task, `Receive`, the callback steps, environment).

## Proofs (`ShadowSyncSafety.tla`)

`SyncUnlessStaleThm`: `Spec => []SyncUnlessStale`, for every value set,
token set, queue bound and notification bound that meets
`SyncHypotheses`.  Three of its four hypotheses are necessary, and a
violation run shows each:
* the application's tokens are never device tokens (app_token);
* no delta carries the sentinel 2 (sentinel);
* the shadow starts at the device's initial 0 (restart).

The fourth, that the device's tokens never include 0, is there for the
proof: with it the cleared token matches no message, which `SyncInv`
uses at `ClearToken`.  TLC finds `SyncUnlessStale` holding without it
(tokens {0, 1}, one or two queued reports), so on those instances a late
match through token 0 ends only in states that `stale` already excludes;
it is not shown necessary.  What token 0 does break, the meaning of the
cleared token, is shown by the token_zero run.  The code guarantees none of
the hypotheses; the theorem says what the design achieves where they
hold.

`SyncUnlessStale` is far from inductive.  The strengthening `SyncInv`
adds three groups of facts.

The first group is about the messages in transit, and relies on tokens
being drawn fresh (line 850):
* queued reports carry distinct tokens (`ReportTokensDistinct`);
* the report of the current token is the last one (`CurrentReportLast`);
* an accepted response echoes its report's powerOn
  (`ResponseMatchesReport`);
* an answered report is at the head, with a single verdict
  (`VerdictConsistent`);
* once the outstanding report is accepted, its responses carry the
  shadow's powerOn and it is the only report left
  (`CurrentAcceptedMatchesShadow`);
* an accepted response has a powerOn exactly when its token is a device
  token (`ServiceAccepted`).

The second is about the callback: it notifies only after its write,
unless the timeout has put the sentinel in the meantime
(`NotifyAfterWrite`).

The third is the heart of the argument (`ReportedMatchesShadow`).  Unless
a race has struck and unless the reported state is the sentinel, one of
two things holds:
* the shadow holds the reported state, and every queued report is benign
  (`Benign`): it carries that state, is not valid, has been rejected, or
  is the outstanding unanswered report;
* the outstanding report has just been accepted (`CurrentAccepted`).

TLC checked `SyncInv` on the sync run before it was proved.  The proof
has one lemma per action, and each lemma has one step per conjunct the
action can disturb.  `ShadowAccept` and `NotifyGive` are the cases that
carry the argument: the first moves the state into `CurrentAccepted`, and
the second leaves it.  `SyncInvariant` states `Spec => []SyncInv`.

## Proofs (`ShadowStartupProofs.tla`)

The proofs hold for every set of return codes and every bound that
`StartupAssumption` admits.  They rest on the inductive invariant
`StartInv`.  It strengthens `TypeOK` and `LoopHasResponseCallbacks` with
four facts about the protocol:
* the command cannot complete before it is posted (`CmdFollowsTask`);
* nothing notifies the task before the SUBACK (`NoEarlyNotification`);
* a notification pending at the ack wait holds the SUBACK's return code
  (`AckValueIsReturnCode`);
* the delta registration follows a successful SUBACK (`DeltaAfterSuccess`).

A fifth fact is that the rejected registration is tried with a success
status only after the accepted one succeeded (`AcceptedBeforeRejected`).
TLC checked `StartInv` on the startup instance before it was proved.
Zenon proves the Boolean part of the type invariant, and SMT proves the
rest, one step per action.

* `LoopHasResponseCallbacksThm` and `DeltaOnlyAfterSubscribedThm`:
  `Spec => []P` for the two invariants of the startup run, from
  `StartInvariant` (`Spec => []StartInv`).

Only TLC checks `EventuallySynced`, the liveness property, and the
violated properties.  Every safety invariant of a passing run is proved.

## Not modelled, and out of the prover's reach

* Context initialisation (271-344) is string building and allocation.
* The MQTT agent, the broker, the JSON library and the shadow service are
  outside the source.  They are modelled only at their interface.
* A refinement of `ShadowSync` onto an abstract request/response
  specification is not stated.  Because of the two races a wait can end
  on a stale notification, so the abstraction would hold only on the
  behaviours `stale` excludes, a history condition that a refinement
  mapping cannot express.
* TLAPS proves neither liveness nor ENABLED.  `EventuallySynced` is
  model-checked only.
