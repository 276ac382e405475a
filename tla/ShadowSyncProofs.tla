-------------------------- MODULE ShadowSyncProofs --------------------------
(***************************************************************************)
(* Proofs about ShadowSync, for every value of the constants that          *)
(* ConstAssumption admits.                                                 *)
(***************************************************************************)
EXTENDS ShadowSync, TLAPS

(* TypeOK is not inductive by itself: AcceptedWrite stores cb.msg.powerOn  *)
(* (line 685), which is a powerOn value only because the accepted callback *)
(* reaches that step with an update/accepted document whose                *)
(* state.reported.powerOn was found (line 679).                            *)
WriteHasValue ==
    cb.step = "write" => cb.msg.topic = "accepted" /\ cb.msg.powerOn \in Values

IInv == TypeOK /\ WriteHasValue

-----------------------------------------------------------------------------
(* A document of the inbox is told apart by its topic.                     *)
LEMMA InboxTopics ==
    ASSUME NEW m \in InboxDocs
    PROVE  /\ m.topic = "accepted" => m \in AcceptedDocs
           /\ m.topic = "rejected" => m \in RejectedDocs
           /\ m.topic = "delta"    => m \in DeltaDocs
BY DEF InboxDocs, AcceptedDocs, RejectedDocs, DeltaDocs

(* The idle callback record is not a step of a callback.                   *)
LEMMA IdleNotStep == CbIdle.step \notin CbSteps
BY DEF CbIdle, CbSteps

-----------------------------------------------------------------------------
(* The initial state vShadowDeviceTask starts from satisfies the invariant. *)
LEMMA InitIInv == Init => IInv
<1> SUFFICES ASSUME Init PROVE IInv
  OBVIOUS
<1>1. TypeOK
  <2>1. /\ ulCurrentPowerOnState \in Values
        /\ ulReportedPowerOnState \in Values \cup {INVALID_POWERON_STATE}
        /\ ulClientToken \in Tokens \cup {0}
        /\ ulCurrentVersion \in 0..MaxVersion
        /\ ulNotifiedValue \in 0..MaxNotify
    BY ConstAssumption DEF Init
  <2>2. /\ cb \in {CbIdle} \cup [step : CbSteps, msg : AcceptedDocs \cup RejectedDocs]
        /\ toShadow \in Seq(ReportDocs) /\ Len(toShadow) <= MaxInFlight
        /\ inbox \subseteq InboxDocs
    BY ConstAssumption DEF Init
  <2>3. /\ shadowReported \in Values \cup {NoValue}
        /\ shadowVersion \in 0..MaxVersion
    BY ConstAssumption DEF Init
  <2>4. QED
    BY <2>1, <2>2, <2>3 DEF Init, TypeOK
<1>2. WriteHasValue
  BY DEF Init, WriteHasValue, CbIdle
<1>3. QED
  BY <1>1, <1>2 DEF IInv

(* The shadow task's steps preserve the invariant.                         *)
LEMMA ShadowTaskIInv == IInv /\ ShadowTask => IInv'
<1> SUFFICES ASSUME IInv, ShadowTask PROVE IInv'
  OBVIOUS
<1> USE ConstAssumption DEF IInv, TypeOK, WriteHasValue
<1>1. CASE CheckUnchanged \/ CheckChanged \/ WaitTimeout \/ ClearToken \/ Sleep
  BY <1>1 DEF CheckUnchanged, CheckChanged, WaitTimeout, ClearToken, Sleep,
              env, ghost
<1>2. CASE Publish
  <2>1. PICK t \in Tokens \ InFlightTokens :
              /\ ulClientToken' = t
              /\ IF Len(toShadow) < MaxInFlight
                   THEN /\ toShadow' = Append(toShadow, EncodeReport(ulCurrentPowerOnState, t))
                        /\ pc' = "wait"
                   ELSE /\ pc' = "clear"
                        /\ UNCHANGED toShadow
    BY <1>2 DEF Publish
  <2>2. EncodeReport(ulCurrentPowerOnState, t) \in ReportDocs
    BY DEF EncodeReport, ReportDocs
  <2>3. toShadow' \in Seq(ReportDocs) /\ Len(toShadow') <= MaxInFlight
    <3>1. CASE Len(toShadow) < MaxInFlight
      <4>1. toShadow' = Append(toShadow, EncodeReport(ulCurrentPowerOnState, t))
        BY <2>1, <3>1
      <4>2. QED
        BY <4>1, <2>2, <3>1
    <3>2. CASE ~(Len(toShadow) < MaxInFlight)
      BY <2>1, <3>2
    <3>3. QED
      BY <3>1, <3>2
  <2>4. ulClientToken' \in Tokens /\ pc' \in {"wait", "clear"}
    BY <2>1
  <2>5. UNCHANGED <<ulCurrentPowerOnState, ulReportedPowerOnState, ulCurrentVersion,
                    ulNotifiedValue, cb, headVerdict, inbox, shadowReported,
                    shadowVersion, stale>> /\ answered' = FALSE
    BY <1>2 DEF Publish
  <2>6. QED
    BY <2>3, <2>4, <2>5
<1>3. CASE WaitNotified
  BY <1>3 DEF WaitNotified, env
<1>4. CASE TimedOut
  BY <1>4 DEF TimedOut, INVALID_POWERON_STATE, env, ghost
<1>5. QED
  BY <1>1, <1>2, <1>3, <1>4 DEF ShadowTask

(* A callback taking a message off the network preserves the invariant.    *)
LEMMA ReceiveIInv == IInv /\ Receive => IInv'
<1> SUFFICES ASSUME IInv, Receive PROVE IInv'
  OBVIOUS
<1> USE ConstAssumption DEF IInv, TypeOK, WriteHasValue
<1>1. PICK m \in inbox :
           /\ Take(m)
           /\ ReceiveDelta(m) \/ ReceiveAccepted(m) \/ ReceiveRejected(m)
  BY DEF Receive
<1>2. m \in InboxDocs
  OBVIOUS
<1>3. inbox' \subseteq InboxDocs
  BY <1>1 DEF Take
<1>4. UNCHANGED <<toShadow, headVerdict, shadowReported, shadowVersion, answered, stale>>
  BY DEF Receive, ghost
<1>5. CASE ReceiveDelta(m)
  <2>1. m \in DeltaDocs
    BY <1>2, <1>5, InboxTopics DEF ReceiveDelta
  <2>2. m.version \in 1..MaxVersion /\ m.powerOn \in Values \cup {NoValue}
    BY <2>1 DEF DeltaDocs
  <2>3. QED
    BY <1>3, <1>4, <1>5, <2>2 DEF ReceiveDelta
<1>6. CASE ReceiveAccepted(m)
  <2>1. m \in AcceptedDocs
    BY <1>2, <1>6, InboxTopics DEF ReceiveAccepted
  <2>2. m.topic = "accepted" /\ m.powerOn \in Values \cup {NoValue}
    BY <2>1 DEF AcceptedDocs
  <2>3. cb' \in {CbIdle} \cup [step : CbSteps, msg : AcceptedDocs \cup RejectedDocs]
    BY <1>6, <2>1 DEF ReceiveAccepted, CbSteps
  <2>4. WriteHasValue'
    BY <1>6, <2>2, IdleNotStep DEF ReceiveAccepted, CbSteps
  <2>5. QED
    BY <1>3, <1>4, <1>6, <2>3, <2>4 DEF ReceiveAccepted
<1>7. CASE ReceiveRejected(m)
  <2>1. m \in RejectedDocs
    BY <1>2, <1>7, InboxTopics DEF ReceiveRejected
  <2>2. cb' \in {CbIdle} \cup [step : CbSteps, msg : AcceptedDocs \cup RejectedDocs]
    BY <1>7, <2>1 DEF ReceiveRejected, CbSteps
  <2>3. WriteHasValue'
    BY <1>7, IdleNotStep DEF ReceiveRejected
  <2>4. QED
    BY <1>3, <1>4, <1>7, <2>2, <2>3 DEF ReceiveRejected
<1>8. QED
  BY <1>1, <1>5, <1>6, <1>7

(* The rest of the agent task's callback steps preserve the invariant.    *)
LEMMA CallbackStepsIInv == IInv /\ (AcceptedWrite \/ NotifyGive) => IInv'
<1> SUFFICES ASSUME IInv, AcceptedWrite \/ NotifyGive PROVE IInv'
  OBVIOUS
<1> USE ConstAssumption DEF IInv, TypeOK, WriteHasValue
<1>1. CASE AcceptedWrite
  <2>1. cb \in [step : CbSteps, msg : AcceptedDocs \cup RejectedDocs]
    BY <1>1, IdleNotStep DEF AcceptedWrite, CbIdle
  <2>2. cb' \in [step : CbSteps, msg : AcceptedDocs \cup RejectedDocs]
    BY <1>1, <2>1 DEF AcceptedWrite, CbSteps
  <2>3. QED
    BY <1>1, <2>1, <2>2 DEF AcceptedWrite, CbSteps, env, INVALID_POWERON_STATE
<1>2. CASE NotifyGive
  BY <1>2, IdleNotStep DEF NotifyGive, CbIdle, env
<1>3. QED
  BY <1>1, <1>2

(* The shadow service, the cloud application and the network preserve     *)
(* the invariant.                                                          *)
LEMMA EnvironmentIInv == IInv /\ Environment => IInv'
<1> SUFFICES ASSUME IInv, Environment PROVE IInv'
  OBVIOUS
<1> USE ConstAssumption DEF IInv, TypeOK, WriteHasValue
<1>1. CASE ShadowAccept
  <2>1. Head(toShadow) \in ReportDocs /\ Tail(toShadow) \in Seq(ReportDocs)
        /\ Len(Tail(toShadow)) <= MaxInFlight
    BY <1>1 DEF ShadowAccept
  <2>2. inbox' \subseteq InboxDocs /\ shadowReported' \in Values
    BY <1>1, <2>1 DEF ShadowAccept, ReportDocs, InboxDocs, AcceptedDocs
  <2>3. toShadow' \in Seq(ReportDocs) /\ Len(toShadow') <= MaxInFlight
        /\ headVerdict' \in {"none", "accepted", "rejected"}
    BY <1>1, <2>1 DEF ShadowAccept
  <2>4. UNCHANGED <<device, shadowVersion, answered, stale>>
    BY <1>1 DEF ShadowAccept, ghost
  <2>5. QED
    BY <2>2, <2>3, <2>4 DEF device
<1>2. CASE ShadowReject
  <2>1. Head(toShadow) \in ReportDocs /\ Tail(toShadow) \in Seq(ReportDocs)
        /\ Len(Tail(toShadow)) <= MaxInFlight
    BY <1>2 DEF ShadowReject
  <2>2. inbox' \subseteq InboxDocs
    BY <1>2, <2>1 DEF ShadowReject, ReportDocs, InboxDocs, RejectedDocs
  <2>3. toShadow' \in Seq(ReportDocs) /\ Len(toShadow') <= MaxInFlight
        /\ headVerdict' \in {"none", "accepted", "rejected"}
    BY <1>2, <2>1 DEF ShadowReject
  <2>4. UNCHANGED <<device, shadowReported, shadowVersion, answered, stale>>
    BY <1>2 DEF ShadowReject, ghost
  <2>5. QED
    BY <2>2, <2>3, <2>4 DEF device
<1>3. CASE CloudUpdateDesired
  <2>1. inbox' \subseteq InboxDocs /\ shadowVersion' \in 0..MaxVersion
    BY <1>3 DEF CloudUpdateDesired, InboxDocs, AcceptedDocs, DeltaDocs
  <2>2. UNCHANGED <<device, toShadow, headVerdict, shadowReported, answered, stale>>
    BY <1>3 DEF CloudUpdateDesired, ghost
  <2>3. QED
    BY <2>1, <2>2 DEF device
<1>4. CASE LoseReport
  BY <1>4 DEF LoseReport, device, ghost
<1>5. CASE LoseMessage
  BY <1>5 DEF LoseMessage, device, ghost
<1>6. QED
  BY <1>1, <1>2, <1>3, <1>4, <1>5 DEF Environment

(* The strengthened type invariant is inductive.                           *)
LEMMA NextIInv == IInv /\ [Next]_vars => IInv'
<1> SUFFICES ASSUME IInv, [Next]_vars PROVE IInv'
  OBVIOUS
<1>1. CASE UNCHANGED vars
  BY <1>1 DEF vars, device, env, ghost, IInv, TypeOK, WriteHasValue
<1>2. QED
  BY <1>1, ShadowTaskIInv, ReceiveIInv, CallbackStepsIInv, EnvironmentIInv
     DEF Next, AgentTask

-----------------------------------------------------------------------------
(* Every variable of the device, the agent's callback and the environment  *)
(* keeps its type in every behaviour: in particular ulReportedPowerOnState *)
(* is a powerOn value or the sentinel after any interleaving of the       *)
(* accepted callback's write (line 685) with the task's timeout (888).     *)
THEOREM TypeCorrect == Spec => []TypeOK
<1>1. IInv => TypeOK
  BY DEF IInv
<1>2. QED
  BY InitIInv, NextIInv, <1>1, PTL DEF Spec
=============================================================================
