---------------------------- MODULE NodeCounters ----------------------------
(***************************************************************************)
(* The stored context of a node (node/common/LoRa.c:566-598, :706-711):    *)
(* the state machine of LoRaNode together with the session and the uplink  *)
(* counter that NvmCtxMgmtStore writes and NvmCtxMgmtRestore reads, and    *)
(* what the network server knows of them.                                  *)
(*                                                                         *)
(* A server ignores a frame whose counter it has passed, and every frame   *)
(* of a session it has replaced.  Only differences of counters matter:     *)
(* ahead, from the node to the server, and unstored, from the store to the *)
(* node.  Every step is a step of LoRaNode.                                *)
(***************************************************************************)
EXTENDS LoRaNode

CONSTANT MaxFrames  \* bound: the differences stop growing here

ASSUME MaxFramesAssumption == MaxFrames \in Nat

VARIABLES
  session,   \* (external) the MAC's: none, the server's, or an older one
  stored,    \* (external) the session in the stored context
  unstored,  \* (external) frames counted since the last store or join
  ahead      \* (external) frames the server will ignore

counterVars == <<session, stored, unstored, ahead>>
allVars == <<vars, counterVars>>

Session == {"none", "current", "replaced"}

CountersTypeOK ==
  /\ session \in Session
  /\ stored \in Session
  /\ unstored \in 0 .. MaxFrames
  /\ ahead \in 0 .. MaxFrames

CountersInit ==
  /\ Init
  /\ session = "none"
  /\ stored = "none"
  /\ unstored = 0
  /\ ahead = 0

Bounded(n) == IF n > MaxFrames THEN MaxFrames ELSE n

-----------------------------------------------------------------------------

\* MlmeConfirm of MLME_JOIN with status OK: both sides count from 0, and the
\* server has replaced what is stored, if anything is.
JoinCounters ==
  /\ MlmeConfirmJoined
  /\ session' = "current"
  /\ stored' = IF stored = "none" THEN "none" ELSE "replaced"
  /\ unstored' = 0
  /\ ahead' = 0

\* An uplink the MAC accepted.  A frame that is lost on the air leaves the
\* server where it was, behind the node if it was not ahead.
UplinkCounted ==
  /\ CaseSend
  /\ IF macRequest = "none" /\ macRequest' = "uplink"
     THEN /\ unstored' = Bounded(unstored + 1)
          /\ ahead' = IF ahead = 0 THEN 0 ELSE ahead - 1
     ELSE UNCHANGED <<unstored, ahead>>
  /\ UNCHANGED <<session, stored>>

\* NvmCtxMgmtStore, with success or not.
Store ==
  /\ CaseSleep
  /\ \/ /\ nvmSession' = activated
        /\ stored' = session
        /\ unstored' = 0
     \/ /\ nvmSession' = nvmSession
        /\ UNCHANGED <<stored, unstored>>
  /\ UNCHANGED <<session, ahead>>

\* NvmCtxMgmtRestore, with success or not.
Restore ==
  /\ CaseRestore
  /\ session' = IF activated' THEN stored ELSE "none"
  /\ UNCHANGED <<stored, unstored, ahead>>

\* The node falls back to the stored counter.  A server that was behind the
\* node may have seen any part of what the store has not.
Forget ==
  /\ Reset
  /\ session' = "none"
  /\ unstored' = 0
  /\ ahead' \in IF session = "none" THEN {ahead}
                ELSE IF session # stored THEN {0}
                ELSE IF ahead = 0 THEN 0 .. unstored
                ELSE {Bounded(ahead + unstored)}
  /\ UNCHANGED stored

CountersUnchanged ==
  /\ \/ InitializeMac \/ Halted \/ LoRaMacProcess
     \/ RequestContinues \/ MlmeConfirmFailed \/ McpsConfirm
     \/ NoUplinkWanted \/ McpsIndication \/ MlmeIndication
     \/ Dispatch \/ CaseStart \/ CaseJoin \/ CaseSendDone
     \/ CaseCycleJoin \/ ArmJoin \/ CaseCycleRun \/ ArmRun
     \/ SleepPending \/ SleepLowPower \/ LeaveCritical
     \/ TimerInterrupt \/ OnMacProcessNotify
  /\ UNCHANGED counterVars

CountersNext ==
  \/ JoinCounters \/ UplinkCounted \/ Store \/ Restore \/ Forget
  \/ CountersUnchanged

CountersSpec == CountersInit /\ [][CountersNext]_allVars

AcceptedAndCounted == UplinkCounted /\ Accepted

CountersFairSpec == CountersSpec /\ Fairness
=============================================================================
