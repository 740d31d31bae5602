--------------------------- MODULE LoRaNodeProofs ---------------------------
(***************************************************************************)
(* The node's state machine is correct for every number of restarts and    *)
(* every result of the activation query.  The argument is the inductive    *)
(* invariant IInv of LoRaNodeProperties; TLC checks the same formula on    *)
(* small instances.                                                        *)
(***************************************************************************)
EXTENDS LoRaNodeProperties, TLAPS

-----------------------------------------------------------------------------
(* Type correctness                                                        *)

\* The reset handler leaves every variable in its type.
LEMMA TypeInit == Init => TypeOK
  <1> SUFFICES ASSUME Init PROVE TypeOK
    OBVIOUS
  <1>1. resets \in 0 .. MaxResets
    BY MaxResetsAssumption DEF Init
  <1> QED
    BY <1>1, Zenon DEF Init, TypeOK, Location, eDeviceState

\* JoinNetwork leaves the state in DEVICE_STATE_SLEEP or _CYCLE_JOIN and the
\* MAC with a join request or the request it had.
LEMMA JoinNetworkType ==
  ASSUME TypeOK, JoinNetwork
  PROVE  /\ DeviceState' \in {"SLEEP", "CYCLE_JOIN"}
         /\ macRequest' \in {"none", "join", "uplink"}
  BY DEF TypeOK, JoinNetwork

\* The timer's callback keeps what it writes in its type.
LEMMA TimerEventType ==
  ASSUME TypeOK, OnTxNextPacketTimerEvent
  PROVE  /\ DeviceState' \in eDeviceState
         /\ NextTx' \in BOOLEAN
         /\ TxNextPacketTimer' = "stopped"
         /\ macRequest' \in {"none", "join", "uplink"}
  BY JoinNetworkType DEF TypeOK, OnTxNextPacketTimerEvent, eDeviceState

\* No statement, callback or interrupt leaves the types.
LEMMA TypeStep == TypeOK /\ [Next]_vars => TypeOK'
  <1> SUFFICES ASSUME TypeOK, [Next]_vars PROVE TypeOK'
    OBVIOUS
  <1> USE DEF TypeOK, Location, envVars
  <1>1. CASE InitializeMac
    BY <1>1 DEF InitializeMac
  <1>2. CASE Halted
    BY <1>2 DEF Halted, vars
  <1>3. CASE LoRaMacProcess
    BY <1>3, Zenon DEF LoRaMacProcess
  <1>4. CASE Callbacks
    <2>1. CASE RequestContinues
      BY <2>1 DEF RequestContinues
    <2>2. CASE MlmeConfirmJoined
      BY <2>2, Zenon DEF MlmeConfirmJoined, eDeviceState
    <2>3. CASE MlmeConfirmFailed
      BY <2>3 DEF MlmeConfirmFailed, eDeviceState
    <2>4. CASE McpsConfirm
      BY <2>4 DEF McpsConfirm
    <2>5. CASE NoUplinkWanted
      BY <2>5 DEF NoUplinkWanted
    <2>6. CASE McpsIndication
      BY <2>6, TimerEventType DEF McpsIndication
    <2>7. CASE MlmeIndication
      BY <2>7, TimerEventType DEF MlmeIndication
    <2> QED
      BY <1>4, <2>1, <2>2, <2>3, <2>4, <2>5, <2>6, <2>7
      DEF Callbacks, Confirm
  <1>5. CASE Cases
    <2>1. CASE Dispatch
      BY <2>1 DEF Dispatch, CaseOf, eDeviceState
    <2>2. CASE CaseRestore
      BY <2>2 DEF CaseRestore, eDeviceState
    <2>3. CASE CaseStart
      BY <2>3 DEF CaseStart, eDeviceState
    <2>4. CASE CaseJoin
      BY <2>4, JoinNetworkType DEF CaseJoin, eDeviceState
    <2>5. CASE CaseSend
      BY <2>5 DEF CaseSend, SendFrame
    <2>6. CASE CaseSendDone
      BY <2>6 DEF CaseSendDone, eDeviceState
    <2>7. CASE CaseCycleJoin \/ ArmJoin
      BY <2>7 DEF CaseCycleJoin, ArmJoin, eDeviceState
    <2>8. CASE CaseCycleRun \/ ArmRun
      BY <2>8 DEF CaseCycleRun, ArmRun, eDeviceState
    <2>9. CASE CaseSleep
      BY <2>9 DEF CaseSleep
    <2>10. CASE SleepPending \/ SleepLowPower \/ LeaveCritical
      BY <2>10 DEF SleepPending, SleepLowPower, LeaveCritical
    <2> QED
      BY <1>5, <2>1, <2>2, <2>3, <2>4, <2>5, <2>6, <2>7, <2>8, <2>9, <2>10
      DEF Cases
  <1>6. CASE TimerInterrupt
    BY <1>6, TimerEventType DEF TimerInterrupt
  <1>7. CASE OnMacProcessNotify
    BY <1>7, Zenon DEF OnMacProcessNotify
  <1>8. CASE Reset
    <2>1. resets' \in 0 .. MaxResets
      BY <1>8, MaxResetsAssumption DEF Reset
    <2> QED
      BY <1>8, <2>1, Zenon DEF Reset, eDeviceState
  <1>9. CASE UNCHANGED vars
    BY <1>9 DEF vars
  <1> QED
    BY <1>1, <1>2, <1>3, <1>4, <1>5, <1>6, <1>7, <1>8, <1>9
    DEF Next, MainLoop

\* Every variable keeps its type in every reachable state.
THEOREM TypeCorrect == Spec => []TypeOK
  <1>1. Init => TypeOK
    BY TypeInit
  <1>2. TypeOK /\ [Next]_vars => TypeOK'
    BY TypeStep
  <1> QED
    BY <1>1, <1>2, PTL DEF Spec

-----------------------------------------------------------------------------
(* The inductive invariant                                                 *)

\* The state after a reset satisfies the invariant.
LEMMA InductiveInit == Init => IInv
  <1> SUFFICES ASSUME Init PROVE IInv
    OBVIOUS
  <1>1. TypeOK
    BY TypeInit
  <1>2. CaseFitsState /\ SessionFitsState /\ UnjoinedNodeCanSend
    BY DEF Init, CaseFitsState, SessionFitsState, UnjoinedNodeCanSend
  <1>3. EventIsFlagged /\ LowPowerMissesNoMacEvent
    BY DEF Init, EventIsFlagged, LowPowerMissesNoMacEvent
  <1>4. InterruptMeetsSleepingLoop /\ DelayFitsSession
    BY DEF Init, InterruptMeetsSleepingLoop, DelayFitsSession, TimerArmed
  <1>5. DueUplinkCanBeSent /\ OneJoinAtATime
    BY DEF Init, DueUplinkCanBeSent, OneJoinAtATime
  <1>6. NeverStranded
    BY DEF Init, NeverStranded, Parked
  <1> QED
    BY <1>1, <1>2, <1>3, <1>4, <1>5, <1>6 DEF IInv

\* Every statement, callback and interrupt preserves the invariant.
LEMMA InductiveStep == IInv /\ [Next]_vars => IInv'
  <1> SUFFICES ASSUME IInv, [Next]_vars PROVE IInv'
    OBVIOUS
  <1> USE DEF IInv, CaseFitsState, SessionFitsState, UnjoinedNodeCanSend,
              EventIsFlagged, InterruptMeetsSleepingLoop, DueUplinkCanBeSent,
              OneJoinAtATime, DelayFitsSession, LowPowerMissesNoMacEvent,
              NeverStranded, Parked, TimerArmed
  <1> HIDE DEF TypeOK
  <1>0. TypeOK'
    BY TypeStep
  <1>1. CASE InitializeMac
    BY <1>0, <1>1 DEF InitializeMac, LoopOwnsState, Location, envVars
  <1>2. CASE Halted
    BY <1>0, <1>2 DEF Halted, vars, LoopOwnsState
  <1>3. CASE LoRaMacProcess
    BY <1>0, <1>3 DEF LoRaMacProcess, LoopOwnsState, Location
  <1>4. CASE Callbacks
    <2> USE DEF LoopOwnsState, Location, envVars
    <2>1. CASE RequestContinues
      BY <1>0, <2>1 DEF RequestContinues
    <2>2. CASE MlmeConfirmJoined
      BY <1>0, <2>2 DEF MlmeConfirmJoined
    <2>3. CASE MlmeConfirmFailed
      BY <1>0, <2>3 DEF MlmeConfirmFailed
    <2>4. CASE McpsConfirm
      BY <1>0, <2>4 DEF McpsConfirm
    <2>5. CASE NoUplinkWanted
      BY <1>0, <2>5 DEF NoUplinkWanted
    \* The timer is stopped, so only the sleeping loop could be stranded; with
    \* a session the callback sends, and a query that fails is excluded where
    \* NeverStranded says anything.
    <2>6. CASE McpsIndication \/ MlmeIndication
      <3>1. activated /\ activated' /\ macRequest # "join"
        BY <2>6 DEF McpsIndication, MlmeIndication
      <3>2. /\ TxNextPacketTimer' = "stopped"
            /\ macRequest' = macRequest
            /\ \/ DeviceState' = "SEND" /\ NextTx' = TRUE
               \/ "ERROR" \in MibStatus /\ UNCHANGED <<DeviceState, NextTx>>
        BY <2>6, <3>1
        DEF McpsIndication, MlmeIndication, OnTxNextPacketTimerEvent
      <3>3. /\ pc = "indicate"
            /\ pc' \in {"indicate", "dispatch"}
            /\ UNCHANGED <<IsMacProcessPending, macIrq>>
        BY <2>6 DEF McpsIndication, MlmeIndication
      <3> QED
        BY <1>0, <3>1, <3>2, <3>3
    <2> QED
      BY <1>4, <2>1, <2>2, <2>3, <2>4, <2>5, <2>6
      DEF Callbacks, Confirm
  <1>5. CASE Cases
    <2> USE DEF LoopOwnsState, Location, envVars
    <2>1. CASE Dispatch
      BY <1>0, <2>1 DEF Dispatch, CaseOf, TypeOK, eDeviceState
    <2>2. CASE CaseRestore
      BY <1>0, <2>2 DEF CaseRestore
    <2>3. CASE CaseStart
      BY <1>0, <2>3 DEF CaseStart
    <2>4. CASE CaseJoin
      BY <1>0, <2>4 DEF CaseJoin, JoinNetwork
    <2>5. CASE CaseSend
      BY <1>0, <2>5 DEF CaseSend, SendFrame
    <2>6. CASE CaseSendDone
      BY <1>0, <2>6 DEF CaseSendDone
    <2>7. CASE CaseCycleJoin \/ ArmJoin
      BY <1>0, <2>7 DEF CaseCycleJoin, ArmJoin
    <2>8. CASE CaseCycleRun \/ ArmRun
      BY <1>0, <2>8 DEF CaseCycleRun, ArmRun
    <2>9. CASE CaseSleep
      BY <1>0, <2>9 DEF CaseSleep
    <2>10. CASE SleepPending \/ SleepLowPower \/ LeaveCritical
      BY <1>0, <2>10 DEF SleepPending, SleepLowPower, LeaveCritical
    <2> QED
      BY <1>5, <2>1, <2>2, <2>3, <2>4, <2>5, <2>6, <2>7, <2>8, <2>9, <2>10
      DEF Cases
  \* An expiry finds the loop asleep and outside the code that would undo what
  \* the callback writes.
  <1>6. CASE TimerInterrupt
    <2>1. /\ DeviceState = "SLEEP"
          /\ pc \in {"process", "confirm", "indicate", "dispatch",
                    "case_SLEEP", "critical"}
          /\ macRequest # "join"
      BY <1>6 DEF TimerInterrupt, InterruptsEnabled, LoopOwnsState, TypeOK
    <2>2. UNCHANGED <<pc, IsMacProcessPending, macIrq, activated>>
      BY <1>6 DEF TimerInterrupt, envVars
    <2>3. /\ TxNextPacketTimer' = "stopped"
          /\ \/ ~activated /\ JoinNetwork /\ NextTx' = NextTx
             \/ /\ activated
                /\ DeviceState' = "SEND"
                /\ NextTx' = TRUE
                /\ macRequest' = macRequest
             \/ /\ "ERROR" \in MibStatus
                /\ UNCHANGED <<DeviceState, NextTx, macRequest>>
      BY <1>6 DEF TimerInterrupt, OnTxNextPacketTimerEvent
    <2> QED
      BY <1>0, <2>1, <2>2, <2>3 DEF JoinNetwork
  <1>7. CASE OnMacProcessNotify
    BY <1>0, <1>7 DEF OnMacProcessNotify, InterruptsEnabled, LoopOwnsState
  <1>8. CASE Reset
    BY <1>0, <1>8 DEF Reset
  <1>9. CASE UNCHANGED vars
    BY <1>0, <1>9 DEF vars, LoopOwnsState
  <1> QED
    BY <1>1, <1>2, <1>3, <1>4, <1>5, <1>6, <1>7, <1>8, <1>9
    DEF Next, MainLoop

\* The invariant holds in every reachable state.
THEOREM Inductive == Spec => []IInv
  <1> QED
    BY InductiveInit, InductiveStep, PTL DEF Spec

-----------------------------------------------------------------------------
(* What follows from the invariant                                         *)

\* A sleeping node has its timer armed or a join request with the MAC, as
\* long as the MAC answers the activation query.
THEOREM NodeNeverStranded == Spec => []NeverStranded
  <1>1. IInv => NeverStranded
    BY DEF IInv
  <1> QED
    BY <1>1, Inductive, PTL

\* The timer's interrupt never lands in code that overwrites the state it set.
THEOREM NoExpiryIsLost == Spec => []InterruptMeetsSleepingLoop
  <1>1. IInv => InterruptMeetsSleepingLoop
    BY DEF IInv
  <1> QED
    BY <1>1, Inductive, PTL

\* A due uplink can be sent: the session exists and NextTx is set.
THEOREM DueUplinkIsSendable == Spec => []DueUplinkCanBeSent
  <1>1. IInv => DueUplinkCanBeSent
    BY DEF IInv
  <1> QED
    BY <1>1, Inductive, PTL

\* There is never a second join request on its way, nor one that would throw
\* a session away.
THEOREM JoinsAreExclusive == Spec => []OneJoinAtATime
  <1>1. IInv => OneJoinAtATime
    BY DEF IInv
  <1> QED
    BY <1>1, Inductive, PTL

\* The timer runs with the join delay exactly while there is no session.
THEOREM DelayIsRight == Spec => []DelayFitsSession
  <1>1. IInv => DelayFitsSession
    BY DEF IInv
  <1> QED
    BY <1>1, Inductive, PTL

\* No MAC event is unseen in the branch in which the clocks may stop.
THEOREM NoEventMissedInLowPower == Spec => []LowPowerMissesNoMacEvent
  <1>1. IInv => LowPowerMissesNoMacEvent
    BY DEF IInv
  <1> QED
    BY <1>1, Inductive, PTL

\* Only the second half of DEVICE_STATE_SEND and a restart end a due uplink.
LEMMA DueUplinkStep ==
  ASSUME IInv, [Next]_vars, DeviceState = "SEND", DeviceState' # "SEND"
  PROVE  pc = "sent" \/ resets' # resets
  <1> SUFFICES ASSUME pc # "sent" PROVE resets' # resets
    OBVIOUS
  <1>1. pc \notin {"init", "halted", "case_RESTORE", "case_START", "case_JOIN",
                   "case_CYCLE_JOIN", "case_CYCLE_RUN"}
    BY DEF IInv, CaseFitsState
  <1>2. activated /\ macRequest # "join" /\ ~TimerArmed
    BY DEF IInv, DueUplinkCanBeSent, OneJoinAtATime, InterruptMeetsSleepingLoop
  <1>3. ~MainLoop
    BY <1>1, <1>2
    DEF MainLoop, InitializeMac, Halted, vars, LoRaMacProcess, Callbacks,
        Confirm, RequestContinues, MlmeConfirmJoined, MlmeConfirmFailed,
        McpsConfirm, NoUplinkWanted, McpsIndication, MlmeIndication,
        OnTxNextPacketTimerEvent, Cases, Dispatch, CaseRestore, CaseStart,
        CaseJoin, CaseSend, CaseSendDone, CaseCycleJoin, ArmJoin,
        CaseCycleRun, ArmRun, CaseSleep, SleepPending, SleepLowPower,
        LeaveCritical
  <1>4. ~TimerInterrupt /\ ~OnMacProcessNotify /\ ~UNCHANGED vars
    BY <1>2 DEF TimerInterrupt, OnMacProcessNotify, vars
  <1>5. Reset
    BY <1>3, <1>4 DEF Next
  <1> QED
    BY <1>5, MaxResetsAssumption DEF Reset, IInv, TypeOK

\* An uplink that is due is attempted before the node does anything else.
THEOREM EveryDueUplinkIsAttempted == Spec => DueUplinkIsAttempted
  <1>1. IInv /\ [Next]_vars
          => [DeviceState = "SEND" /\ DeviceState' # "SEND"
                => pc = "sent" \/ resets' # resets]_vars
    BY DueUplinkStep
  <1> QED
    BY <1>1, Inductive, PTL DEF Spec, DueUplinkIsAttempted

-----------------------------------------------------------------------------
(* The state machine implements NodeContract                               *)

\* A step that leaves these alone leaves the phase alone.
LEMMA PhaseUnchanged ==
  ASSUME UNCHANGED <<DeviceState, macRequest, activated>>,
         pc = "sent" <=> pc' = "sent"
  PROVE  UNCHANGED phase
  BY DEF phase, sessionPhase, joinPhase

\* A step that asks to join, or fails to, is the contract's Ask.
LEMMA AskStep ==
  ASSUME ~activated, ~activated',
         DeviceState \in {"JOIN", "SLEEP"},
         \/ macRequest' = "join" /\ DeviceState' = "SLEEP"
         \/ macRequest' # "join" /\ DeviceState' = "CYCLE_JOIN"
  PROVE  Contract!Ask
  BY DEF Contract!Ask, Contract!Move, phase, joinPhase

\* Callbacks ask again, accept a join, or make the next uplink due.
LEMMA CallbackRefines ==
  ASSUME IInv, Callbacks PROVE Contract!Next \/ UNCHANGED phase
  <1>1. CASE RequestContinues \/ McpsConfirm \/ NoUplinkWanted
    BY <1>1
    DEF RequestContinues, McpsConfirm, NoUplinkWanted, IInv, SessionFitsState,
        phase, sessionPhase, joinPhase
  <1>2. CASE MlmeConfirmJoined
    BY <1>2
    DEF MlmeConfirmJoined, IInv, OneJoinAtATime, phase, sessionPhase, joinPhase,
        Contract!Next, Contract!Accept, Contract!Move
  <1>3. CASE MlmeConfirmFailed
    <2>1. ~activated /\ ~activated' /\ DeviceState = "SLEEP"
      BY <1>3 DEF MlmeConfirmFailed, IInv, OneJoinAtATime
    <2> QED
      BY <1>3, <2>1, AskStep DEF MlmeConfirmFailed, Contract!Next
  <1>4. CASE McpsIndication \/ MlmeIndication
    BY <1>4
    DEF McpsIndication, MlmeIndication, OnTxNextPacketTimerEvent, IInv,
        SessionFitsState, TypeOK, eDeviceState, phase, sessionPhase,
        Contract!Next, Contract!Expire, Contract!Resume, Contract!Move
  <1> QED
    BY <1>1, <1>2, <1>3, <1>4 DEF Callbacks, Confirm

\* The cases of the switch boot, attempt the uplink and rest.
LEMMA CaseRefines ==
  ASSUME IInv, Cases PROVE Contract!Next \/ UNCHANGED phase
  <1> USE DEF IInv, CaseFitsState, SessionFitsState
  <1>1. CASE Dispatch \/ CaseSleep \/ SleepPending \/ SleepLowPower
             \/ LeaveCritical \/ ArmJoin \/ ArmRun
    <2>1. UNCHANGED <<DeviceState, macRequest, activated>>
      BY <1>1
      DEF Dispatch, CaseSleep, SleepPending, SleepLowPower, LeaveCritical,
          ArmJoin, ArmRun
    <2>2. pc # "sent"
      BY <1>1
      DEF Dispatch, CaseSleep, SleepPending, SleepLowPower, LeaveCritical,
          ArmJoin, ArmRun
    <2>3. pc' # "sent"
      BY <1>1
      DEF Dispatch, CaseOf, CaseSleep, SleepPending, SleepLowPower,
          LeaveCritical, ArmJoin, ArmRun, TypeOK, eDeviceState
    <2> QED
      BY <2>1, <2>2, <2>3, PhaseUnchanged
  <1>2. CASE CaseRestore
    BY <1>2 DEF CaseRestore, phase
  <1>3. CASE CaseStart
    BY <1>3
    DEF CaseStart, phase, sessionPhase, Contract!Next, Contract!Resume,
        Contract!Move
  <1>4. CASE CaseJoin
    BY <1>4, AskStep DEF CaseJoin, JoinNetwork, Contract!Next
  <1>5. CASE CaseSend
    BY <1>5
    DEF CaseSend, phase, sessionPhase, Contract!Next, Contract!Attempt,
        Contract!Move
  <1>6. CASE CaseSendDone
    BY <1>6
    DEF CaseSendDone, phase, sessionPhase, Contract!Next, Contract!Rest,
        Contract!Move
  <1>7. CASE CaseCycleJoin \/ CaseCycleRun
    BY <1>7 DEF CaseCycleJoin, CaseCycleRun, phase, sessionPhase, joinPhase
  <1> QED
    BY <1>1, <1>2, <1>3, <1>4, <1>5, <1>6, <1>7 DEF Cases

\* An expiry asks again without a session and is the contract's Expire with one.
LEMMA TimerRefines ==
  ASSUME IInv, TimerInterrupt PROVE Contract!Next \/ UNCHANGED phase
  <1>1. DeviceState = "SLEEP" /\ pc # "sent" /\ macRequest # "join"
    BY DEF TimerInterrupt, IInv, InterruptMeetsSleepingLoop, OneJoinAtATime,
           LoopOwnsState, Location
  <1>2. UNCHANGED <<pc, activated>>
    BY DEF TimerInterrupt
  <1>3. CASE ~activated /\ JoinNetwork
    BY <1>1, <1>2, <1>3, AskStep DEF JoinNetwork, Contract!Next
  <1>4. CASE activated /\ DeviceState' = "SEND"
    BY <1>1, <1>2, <1>4
    DEF phase, sessionPhase, Contract!Next, Contract!Expire, Contract!Move
  <1>5. CASE UNCHANGED <<DeviceState, macRequest>>
    BY <1>2, <1>5, PhaseUnchanged
  <1> QED
    BY <1>3, <1>4, <1>5 DEF TimerInterrupt, OnTxNextPacketTimerEvent

\* Every step of the node is a step of the contract or none that it sees, and
\* the node starts where the contract starts: the safety part of
\* ImplementsContract.
THEOREM NodeRefinesContract == Spec => Contract!Spec
  <1>1. Init => Contract!Init
    BY DEF Init, Contract!Init, phase
  <1>2. IInv /\ [Next]_vars => [Contract!Next]_phase
    <2> SUFFICES ASSUME IInv, [Next]_vars
                 PROVE  Contract!Next \/ UNCHANGED phase
      OBVIOUS
    <2>1. CASE InitializeMac \/ LoRaMacProcess \/ OnMacProcessNotify
      BY <2>1, PhaseUnchanged
      DEF InitializeMac, LoRaMacProcess, OnMacProcessNotify
    <2>2. CASE Callbacks
      BY <2>2, CallbackRefines
    <2>3. CASE Cases
      BY <2>3, CaseRefines
    <2>4. CASE TimerInterrupt
      BY <2>4, TimerRefines
    <2>5. CASE Reset
      <3>1. phase \in Contract!Phase
        BY DEF phase, sessionPhase, joinPhase, Contract!Phase
      <3>2. phase' = "boot"
        BY <2>5 DEF Reset, phase
      <3> QED
        BY <3>1, <3>2 DEF Contract!Next, Contract!Restart, Contract!Move
    <2>6. CASE Halted \/ UNCHANGED vars
      BY <2>6, PhaseUnchanged DEF Halted, vars
    <2> QED
      BY <2>1, <2>2, <2>3, <2>4, <2>5, <2>6 DEF Next, MainLoop
  <1> QED
    BY <1>1, <1>2, Inductive, PTL DEF Spec, Contract!Spec
=============================================================================
