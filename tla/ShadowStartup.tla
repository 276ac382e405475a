---------------------------- MODULE ShadowStartup ----------------------------
(***************************************************************************)
(* Start-up of the shadow task: prvSubscribeToShadowUpdateTopics (lines    *)
(* 348-454) with the completion callback prvSubscribeCommandCallback       *)
(* (458-472), the hand-over to the report loop (831-839), and the first    *)
(* waits of that loop (867-893) reduced to what they do to the task        *)
(* notification.                                                           *)
(*                                                                         *)
(* The notification of the shadow task has a value and a pending state.    *)
(*   - xTaskNotifyStateClear clears the pending state, not the value;      *)
(*   - xTaskNotify(eSetValueWithOverwrite) sets the value and the state;   *)
(*   - xTaskNotifyWait(0, 0xFFFFFFFF) waits for the pending state and, if  *)
(*     notified, returns the value and clears it on exit;                  *)
(*   - xTaskNotifyGive adds one to the value; ulTaskNotifyTake(pdFALSE)    *)
(*     waits for a non-zero value and takes one from it.                   *)
(* The MQTT agent completes the subscribe command at a time of its own,    *)
(* also after the task has stopped waiting for it.  submgr_addSubscription *)
(* is not part of this source; each call succeeds or fails.                *)
(***************************************************************************)
EXTENDS Naturals

CONSTANTS
    ReturnCodes,   \* MQTTStatus_t values the agent may pass to the callback
    MQTTSuccess,   \* the value of MQTTSuccess
    MaxNotify      \* bound: notification value the task may accumulate

ASSUME StartupAssumption ==
    /\ ReturnCodes \subseteq Nat
    /\ MQTTSuccess \in ReturnCodes
    /\ MaxNotify \in Nat \ {0}

Topics == {"delta", "accepted", "rejected"}

VARIABLES
    spc,         \* the statement the shadow task is at
    xStatus,     \* xStatus of prvSubscribeToShadowUpdateTopics: TRUE for MQTTSuccess
    cmd,         \* the subscribe command: "none", "queued", "completed"
    registered,  \* topics whose incoming-publish callback is registered
    nValue,      \* notification value of the shadow task
    nPending,    \* notification state of the shadow task
    outstanding, \* a report of the loop awaits its response
    ackRc        \* history: the return codes the subscribe command completed with

vars == <<spc, xStatus, cmd, registered, nValue, nPending, outstanding, ackRc>>

(* The statements of the report loop.                                      *)
LoopStates == {"publish", "wait"}

TypeOK ==
    /\ spc \in {"clearState", "post", "waitAck", "regDelta", "regAccepted",
                "regRejected", "deleted"} \cup LoopStates
    /\ xStatus \in BOOLEAN
    /\ cmd \in {"none", "queued", "completed"}
    /\ registered \subseteq Topics
    /\ nValue \in Nat
    /\ nPending \in BOOLEAN
    /\ outstanding \in BOOLEAN
    /\ ackRc \subseteq ReturnCodes

(* The task has just been created: nothing is registered, nobody has       *)
(* notified it.                                                            *)
Init ==
    /\ spc = "clearState"
    /\ xStatus = TRUE
    /\ cmd = "none"
    /\ registered = {}
    /\ nValue = 0
    /\ nPending = FALSE
    /\ outstanding = FALSE
    /\ ackRc = {}

-----------------------------------------------------------------------------
(* The shadow task.                                                        *)

(* Line 382: xTaskNotifyStateClear( NULL ).                                *)
ClearState ==
    /\ spc = "clearState"
    /\ nPending' = FALSE
    /\ spc' = "post"
    /\ UNCHANGED <<xStatus, cmd, registered, nValue, outstanding, ackRc>>

(* Lines 388-395: MQTTAgent_Subscribe is retried until the agent's queue   *)
(* takes the command; a failed attempt changes nothing.                    *)
PostSubscribe ==
    /\ spc = "post"
    /\ cmd' = "queued"
    /\ xStatus' = TRUE
    /\ spc' = "waitAck"
    /\ UNCHANGED <<registered, nValue, nPending, outstanding, ackRc>>

(* Mutant: the return code is not checked, as if line 403 tested only     *)
(* xTaskNotifyWait.                                                        *)
AckWaitNotifiedAnyValue ==
    /\ spc = "waitAck"
    /\ nPending
    /\ nPending' = FALSE
    /\ nValue' = 0
    /\ spc' = "regDelta"
    /\ UNCHANGED <<xStatus, cmd, registered, outstanding, ackRc>>

(* Lines 401-411: notified with MQTTSuccess; the value is cleared on exit. *)
(* Any other value, like a timeout (414-417), skips the delta callback     *)
(* and leaves xStatus at the MQTTSuccess of the subscribe loop.            *)
AckWaitNotified ==
    /\ spc = "waitAck"
    /\ nPending
    /\ nPending' = FALSE
    /\ nValue' = 0
    /\ spc' = IF nValue = MQTTSuccess THEN "regDelta" ELSE "regAccepted"
    /\ UNCHANGED <<xStatus, cmd, registered, outstanding, ackRc>>

(* Lines 401-402 and 414-417: shadow_SIGNAL_TIMEOUT expires.               *)
AckWaitTimeout ==
    /\ spc = "waitAck"
    /\ ~nPending
    /\ spc' = "regAccepted"
    /\ UNCHANGED <<xStatus, cmd, registered, nValue, nPending, outstanding, ackRc>>

(* submgr_addSubscription of topic, succeeding or failing.                 *)
Register(topic, next) ==
    /\ \E ok \in BOOLEAN :
         /\ xStatus' = ok
         /\ registered' = IF ok THEN registered \cup {topic} ELSE registered
    /\ spc' = next

(* Lines 407-411: the delta callback.                                      *)
RegDelta ==
    /\ spc = "regDelta"
    /\ Register("delta", "regAccepted")
    /\ UNCHANGED <<cmd, nValue, nPending, outstanding, ackRc>>

(* Lines 419-431: the accepted callback, unless a registration failed.     *)
RegAccepted ==
    /\ spc = "regAccepted"
    /\ IF xStatus
         THEN Register("accepted", "regRejected")
         ELSE /\ spc' = "regRejected"
              /\ UNCHANGED <<xStatus, registered>>
    /\ UNCHANGED <<cmd, nValue, nPending, outstanding, ackRc>>

(* Mutant: the xStatus check before the last registration is dropped and *)
(* the function returns success whatever came before.                      *)
RegRejectedIgnoreStatus ==
    /\ spc = "regRejected"
    /\ \E ok \in BOOLEAN :
         /\ xStatus' = ok
         /\ registered' = IF ok THEN registered \cup {"rejected"} ELSE registered
    /\ spc' = "publish"
    /\ UNCHANGED <<cmd, nValue, nPending, outstanding, ackRc>>

(* Lines 433-453 and 837-904: the rejected callback, unless a registration *)
(* failed; the function returns xStatus == MQTTSuccess, and the task runs  *)
(* the report loop or deletes itself.                                      *)
RegRejected ==
    /\ spc = "regRejected"
    /\ IF xStatus
         THEN /\ \E ok \in BOOLEAN :
                   /\ xStatus' = ok
                   /\ registered' = IF ok THEN registered \cup {"rejected"} ELSE registered
                   /\ spc' = IF ok THEN "publish" ELSE "deleted"
         ELSE /\ spc' = "deleted"
              /\ UNCHANGED <<xStatus, registered>>
    /\ UNCHANGED <<cmd, nValue, nPending, outstanding, ackRc>>

(* Lines 841-876: the check at 841 finds a change, and a report is         *)
(* published and waited for.  ulCurrentPowerOnState is written only by the *)
(* delta callback (line 578) and starts equal to ulReportedPowerOnState    *)
(* (xShadowCtx = { 0 }, line 796); the reported state leaves that value    *)
(* only after a report (885-888).  Without the delta callback the check    *)
(* never finds a change and the loop only sleeps.                          *)
Publish ==
    /\ spc = "publish"
    /\ "delta" \in registered
    /\ outstanding' = TRUE
    /\ spc' = "wait"
    /\ UNCHANGED <<xStatus, cmd, registered, nValue, nPending, ackRc>>

(* Line 879, ulTaskNotifyTake( pdFALSE, ... ) finds a non-zero value; it   *)
(* leaves the notification state cleared.                                  *)
WaitNotified ==
    /\ spc = "wait"
    /\ nValue > 0
    /\ nValue' = nValue - 1
    /\ nPending' = FALSE
    /\ outstanding' = FALSE
    /\ spc' = "publish"
    /\ UNCHANGED <<xStatus, cmd, registered, ackRc>>

(* Lines 879-893: the wait times out; the token is cleared.                *)
WaitTimeout ==
    /\ spc = "wait"
    /\ nValue = 0
    /\ nPending' = FALSE
    /\ outstanding' = FALSE
    /\ spc' = "publish"
    /\ UNCHANGED <<xStatus, cmd, registered, nValue, ackRc>>

-----------------------------------------------------------------------------
(* The MQTT agent task.                                                    *)

(* Lines 458-472: the subscribe command completes with return code rc, and *)
(* xTaskNotify( ..., eSetValueWithOverwrite ) stores it, whatever the task *)
(* is doing by then.                                                       *)
SubscribeComplete ==
    /\ cmd = "queued"
    /\ \E rc \in ReturnCodes :
         /\ nValue' = rc
         /\ ackRc' = {rc}
    /\ nPending' = TRUE
    /\ cmd' = "completed"
    /\ UNCHANGED <<spc, xStatus, registered, outstanding>>

(* Lines 685-689 and 782: the accepted or rejected callback, registered,   *)
(* matches the outstanding report's token and calls xTaskNotifyGive; a     *)
(* QoS 1 redelivery of the response does it again.                         *)
ResponseGive ==
    /\ spc = "wait"
    /\ outstanding
    /\ registered \cap {"accepted", "rejected"} # {}
    /\ nValue < MaxNotify
    /\ nValue' = nValue + 1
    /\ nPending' = TRUE
    /\ UNCHANGED <<spc, xStatus, cmd, registered, outstanding, ackRc>>

-----------------------------------------------------------------------------
Next ==
    \/ ClearState \/ PostSubscribe \/ AckWaitNotified \/ AckWaitTimeout
    \/ RegDelta \/ RegAccepted \/ RegRejected
    \/ Publish \/ WaitNotified \/ WaitTimeout
    \/ SubscribeComplete \/ ResponseGive

Spec == Init /\ [][Next]_vars

-----------------------------------------------------------------------------
(* Properties.                                                             *)

(* The report loop runs only when both response callbacks are registered: *)
(* the chain of checks at lines 419-453 makes a failed registration end    *)
(* the task, so that a report is never published with nobody to take its  *)
(* response.                                                               *)
LoopHasResponseCallbacks ==
    spc \in LoopStates => {"accepted", "rejected"} \subseteq registered

(* The delta callback is registered only after the subscribe command has   *)
(* completed with MQTTSuccess (line 403), although the value read at 401   *)
(* passes through the task notification that other callers also write.   *)
DeltaOnlyAfterSubscribed ==
    "delta" \in registered => ackRc = {MQTTSuccess}

(* Spec section 3: the session starts once the subscriptions are           *)
(* established, so the report loop runs with the delta callback in place. *)
LoopHasDeltaCallback ==
    spc \in LoopStates => "delta" \in registered
=============================================================================
