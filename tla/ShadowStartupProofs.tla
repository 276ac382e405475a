------------------------- MODULE ShadowStartupProofs -------------------------
(***************************************************************************)
(* Proofs about the start-up of the shadow task (ShadowStartup), for every *)
(* set of return codes and every bound that StartupAssumption admits.      *)
(***************************************************************************)
EXTENDS ShadowStartup, TLAPS

(* Before the subscribe command is posted nothing can complete it.         *)
CmdFollowsTask ==
    spc \in {"clearState", "post"} => cmd = "none"

(* Until the SUBACK has completed, nothing notifies the task before its    *)
(* report loop: the state cleared at line 382 stays clear.                 *)
NoEarlyNotification ==
    spc \in {"clearState", "post", "waitAck"} /\ cmd # "completed" => ~nPending

(* A pending notification seen by the ack wait holds the SUBACK's return   *)
(* code (eSetValueWithOverwrite at 469).                                   *)
AckValueIsReturnCode ==
    spc = "waitAck" /\ nPending => cmd = "completed" /\ ackRc = {nValue}

(* The delta registration is reached, or done, only after a SUBACK with    *)
(* MQTTSuccess.                                                            *)
DeltaAfterSuccess ==
    spc = "regDelta" \/ "delta" \in registered =>
        cmd = "completed" /\ ackRc = {MQTTSuccess}

(* The rejected registration is tried with xStatus = MQTTSuccess only      *)
(* after the accepted one succeeded.                                       *)
AcceptedBeforeRejected ==
    spc = "regRejected" /\ xStatus => "accepted" \in registered

StartInv ==
    /\ TypeOK
    /\ CmdFollowsTask
    /\ NoEarlyNotification
    /\ AckValueIsReturnCode
    /\ DeltaAfterSuccess
    /\ AcceptedBeforeRejected
    /\ LoopHasResponseCallbacks

-----------------------------------------------------------------------------
(* TypeOK in two parts: the Boolean-valued variables, which Zenon handles, *)
(* and the rest, for SMT.                                                  *)
TypeBool ==
    /\ xStatus \in BOOLEAN
    /\ nPending \in BOOLEAN
    /\ outstanding \in BOOLEAN

TypeData ==
    /\ spc \in {"clearState", "post", "waitAck", "regDelta", "regAccepted",
                "regRejected", "deleted"} \cup LoopStates
    /\ cmd \in {"none", "queued", "completed"}
    /\ registered \subseteq Topics
    /\ nValue \in Nat
    /\ ackRc \subseteq ReturnCodes

(* The conjuncts of StartInv about the protocol.                           *)
Protocol ==
    /\ CmdFollowsTask
    /\ NoEarlyNotification
    /\ AckValueIsReturnCode
    /\ DeltaAfterSuccess
    /\ AcceptedBeforeRejected
    /\ LoopHasResponseCallbacks

LEMMA StartInvSplit == StartInv <=> TypeBool /\ TypeData /\ Protocol
BY Zenon DEF StartInv, TypeOK, TypeBool, TypeData, Protocol

(* StartInv holds initially: the task has done nothing yet.                *)
LEMMA InitStartInv == Init => StartInv
<1> SUFFICES ASSUME Init PROVE TypeBool /\ TypeData /\ Protocol
  BY StartInvSplit
<1>1. TypeBool
  BY Zenon DEF Init, TypeBool
<1>2. TypeData /\ Protocol
  BY StartupAssumption
     DEF Init, TypeData, Protocol, CmdFollowsTask, NoEarlyNotification,
         AckValueIsReturnCode, DeltaAfterSuccess, AcceptedBeforeRejected,
         LoopHasResponseCallbacks, LoopStates, Topics
<1>3. QED
  BY <1>1, <1>2

(* Every step of the task and of the agent keeps the Boolean variables     *)
(* Boolean.                                                                *)
LEMMA NextTypeBool == TypeBool /\ [Next]_vars => TypeBool'
BY Zenon
   DEF TypeBool, Next, vars, ClearState, PostSubscribe, AckWaitNotified,
       AckWaitTimeout, RegDelta, RegAccepted, RegRejected, Register, Publish,
       WaitNotified, WaitTimeout, SubscribeComplete, ResponseGive

(* Every step of the task and of the agent preserves the rest of StartInv. *)
LEMMA NextProtocol ==
    TypeBool /\ TypeData /\ Protocol /\ [Next]_vars => TypeData' /\ Protocol'
<1> SUFFICES ASSUME TypeBool, TypeData, Protocol, [Next]_vars
             PROVE TypeData' /\ Protocol'
  OBVIOUS
<1> USE StartupAssumption
    DEF TypeBool, TypeData, Protocol, CmdFollowsTask, NoEarlyNotification,
        AckValueIsReturnCode, DeltaAfterSuccess, AcceptedBeforeRejected,
        LoopHasResponseCallbacks, LoopStates, Topics
<1>1. CASE ClearState
  BY <1>1 DEF ClearState
<1>2. CASE PostSubscribe
  BY <1>2 DEF PostSubscribe
<1>3. CASE AckWaitNotified
  BY <1>3 DEF AckWaitNotified
<1>4. CASE AckWaitTimeout
  BY <1>4 DEF AckWaitTimeout
<1>5. CASE RegDelta
  BY <1>5 DEF RegDelta, Register
<1>6. CASE RegAccepted
  BY <1>6 DEF RegAccepted, Register
<1>7. CASE RegRejected
  <2>1. spc = "regRejected"
        /\ UNCHANGED <<cmd, nValue, nPending, outstanding, ackRc>>
    BY <1>7 DEF RegRejected
  <2>2. CASE xStatus /\ spc' = "publish"
    <3>1. registered' = registered \cup {"rejected"}
      BY <1>7, <2>2 DEF RegRejected
    <3>2. QED
      BY <2>1, <2>2, <3>1
  <2>3. CASE ~(xStatus /\ spc' = "publish")
    <3>1. spc' = "deleted"
      BY <1>7, <2>3 DEF RegRejected
    <3>2. registered' \in {registered, registered \cup {"rejected"}}
      BY <1>7 DEF RegRejected
    <3>3. QED
      BY <2>1, <3>1, <3>2
  <2>4. QED
    BY <2>2, <2>3
<1>8. CASE Publish
  BY <1>8 DEF Publish
<1>9. CASE WaitNotified
  BY <1>9 DEF WaitNotified
<1>10. CASE WaitTimeout
  BY <1>10 DEF WaitTimeout
<1>11. CASE SubscribeComplete
  BY <1>11 DEF SubscribeComplete
<1>12. CASE ResponseGive
  BY <1>12 DEF ResponseGive
<1>13. CASE UNCHANGED vars
  BY <1>13 DEF vars
<1>14. QED
  BY <1>1, <1>2, <1>3, <1>4, <1>5, <1>6, <1>7, <1>8, <1>9, <1>10, <1>11,
     <1>12, <1>13 DEF Next

LEMMA NextStartInv == StartInv /\ [Next]_vars => StartInv'
<1> SUFFICES ASSUME StartInv, [Next]_vars PROVE StartInv'
  OBVIOUS
<1>1. TypeBool /\ TypeData /\ Protocol
  BY StartInvSplit
<1>2. TypeBool'
  BY <1>1, NextTypeBool
<1>3. TypeData' /\ Protocol'
  BY <1>1, NextProtocol
<1>4. QED
  BY Zenon, <1>2, <1>3 DEF StartInv, TypeOK, TypeBool, TypeData, Protocol

(* StartInv is an invariant of the start-up.                               *)
THEOREM StartInvariant == Spec => []StartInv
BY InitStartInv, NextStartInv, PTL DEF Spec

(* The chain of xStatus checks at lines 419-453 lets the report loop run   *)
(* only with the accepted and rejected callbacks registered, whatever the  *)
(* SUBACK returns and whichever registration fails.                        *)
THEOREM LoopHasResponseCallbacksThm == Spec => []LoopHasResponseCallbacks
BY StartInvariant, PTL DEF StartInv

(* The delta callback is registered only after the SUBACK completed with   *)
(* MQTTSuccess (line 403), for every set of return codes.                  *)
THEOREM DeltaOnlyAfterSubscribedThm == Spec => []DeltaOnlyAfterSubscribed
<1>1. StartInv => DeltaOnlyAfterSubscribed
  BY DEF StartInv, DeltaAfterSuccess, DeltaOnlyAfterSubscribed
<1>2. QED
  BY <1>1, StartInvariant, PTL

=============================================================================
