------------------------------ MODULE LoRaNode ------------------------------
(***************************************************************************)
(* The state machine every cosyfir node runs (node/common/LoRa.c): the     *)
(* endless loop of RunLoRaStateMachine, the MAC callbacks it serves and    *)
(* the two interrupts that preempt it.                                     *)
(*                                                                         *)
(* The main loop is cut where an interrupt can make a difference: pc names *)
(* the statement the loop stands at.  The LoRaMAC library, its timers and  *)
(* its non-volatile store (NvmCtxMgmt) are not in the repository; they are *)
(* modelled from the calls LoRa.c makes and the results it distinguishes.  *)
(***************************************************************************)
EXTENDS Naturals

CONSTANTS
  MibStatus,  \* results LoRaMacMibGetRequestConfirm can give the activation query
  MaxResets   \* bound: how often the microcontroller restarts

ASSUME MibStatusAssumption == MibStatus \subseteq {"OK", "ERROR"}
ASSUME MaxResetsAssumption == MaxResets \in Nat

VARIABLES
  pc,                   \* the statement the main loop stands at
  DeviceState,          \* the state the next switch will dispatch on
  NextTx,               \* a new packet can be sent
  IsMacProcessPending,  \* set by the MAC's interrupts, cleared when sleeping
  TxNextPacketTimer,    \* stopped, or armed with the join or the run delay
  macRequest,           \* (external) the request the MAC is working on
  macIrq,               \* (external) raised, not yet seen by LoRaMacProcess
  activated,            \* (external) NetworkActivation # ACTIVATION_TYPE_NONE
  nvmSession,           \* (external) the stored context holds a session
  resets

vars == <<pc, DeviceState, NextTx, IsMacProcessPending, TxNextPacketTimer,
          macRequest, macIrq, activated, nvmSession, resets>>

\* What lives in the MAC library or survives a restart.
envVars == <<macIrq, nvmSession, resets>>

eDeviceState == {"RESTORE", "START", "JOIN", "SEND", "CYCLE_JOIN",
                 "CYCLE_RUN", "SLEEP"}

\* "init" is the call of LoRaMacInitialization and "halted" the empty loop
\* after it failed; "process", "confirm" and "indicate" are LoRaMacProcess and
\* the callbacks it makes; "dispatch" is the switch.  The other values are the
\* bodies of its cases: a case that shares data with an interrupt takes two
\* steps or more.  "low_power" is the branch of DEVICE_STATE_SLEEP in which
\* the microcontroller may stop its clocks.
Location == {"init", "halted", "process", "confirm", "indicate", "dispatch",
             "case_RESTORE", "case_START", "case_JOIN", "case_SEND",
             "sent", "case_CYCLE_JOIN", "case_CYCLE_RUN", "arm_join",
             "arm_run", "case_SLEEP", "critical", "low_power"}

\* Interrupts are masked between CRITICAL_SECTION_BEGIN and _END.
InterruptsEnabled == pc # "low_power"

TimerArmed == TxNextPacketTimer # "stopped"

TypeOK ==
  /\ pc \in Location
  /\ DeviceState \in eDeviceState
  /\ NextTx \in BOOLEAN
  /\ IsMacProcessPending \in {0, 1}
  /\ TxNextPacketTimer \in {"stopped", "join", "run"}
  /\ macRequest \in {"none", "join", "uplink"}
  /\ macIrq \in BOOLEAN
  /\ activated \in BOOLEAN
  /\ nvmSession \in BOOLEAN
  /\ resets \in 0 .. MaxResets

\* (mutant) NextTx left FALSE until the first expiry of the timer
InitNotReady ==
  /\ pc = "init"
  /\ DeviceState = "RESTORE"
  /\ NextTx = FALSE
  /\ IsMacProcessPending = 0
  /\ TxNextPacketTimer = "stopped"
  /\ macRequest = "none"
  /\ macIrq = FALSE
  /\ activated = FALSE
  /\ nvmSession = FALSE
  /\ resets = 0

\* The values of the file-scope variables after the reset handler ran.
Init ==
  /\ pc = "init"
  /\ DeviceState = "RESTORE"
  /\ NextTx = TRUE
  /\ IsMacProcessPending = 0
  /\ TxNextPacketTimer = "stopped"
  /\ macRequest = "none"
  /\ macIrq = FALSE
  /\ activated = FALSE
  /\ nvmSession = FALSE
  /\ resets = 0

-----------------------------------------------------------------------------
(* Functions the handlers share                                            *)

\* (mutant) a refused request leaves the node asleep, without a retry
JoinNetworkOnce ==
  /\ DeviceState' = "SLEEP"
  /\ \/ macRequest = "none" /\ macRequest' = "join"
     \/ UNCHANGED macRequest

\* JoinNetwork: only an idle MAC accepts MLME_JOIN; with any other status than
\* OK the node retries after the join delay.
JoinNetwork ==
  \/ /\ macRequest = "none"
     /\ macRequest' = "join"
     /\ DeviceState' = "SLEEP"
  \/ /\ DeviceState' = "CYCLE_JOIN"
     /\ UNCHANGED macRequest

\* (mutant) no TimerStop
OnTimerEventNoStop ==
  /\ "OK" \in MibStatus
  /\ IF activated
     THEN DeviceState' = "SEND" /\ NextTx' = TRUE /\ UNCHANGED macRequest
     ELSE JoinNetwork /\ UNCHANGED NextTx
  /\ UNCHANGED TxNextPacketTimer

\* (mutant) the activation is not looked at
OnTimerEventRejoin ==
  /\ TxNextPacketTimer' = "stopped"
  /\ JoinNetwork
  /\ UNCHANGED NextTx

\* OnTxNextPacketTimerEvent: run by the timer's interrupt, and called directly
\* by the two indication handlers.  A query that fails leaves everything but
\* the timer as it was.
OnTxNextPacketTimerEvent ==
  /\ TxNextPacketTimer' = "stopped"
  /\ \/ /\ "OK" \in MibStatus
        /\ ~activated
        /\ JoinNetwork
        /\ UNCHANGED NextTx
     \/ /\ "OK" \in MibStatus
        /\ activated
        /\ DeviceState' = "SEND"
        /\ NextTx' = TRUE
        /\ UNCHANGED macRequest
     \/ /\ "ERROR" \in MibStatus
        /\ UNCHANGED <<DeviceState, NextTx, macRequest>>

\* SendFrame returns FALSE when the MAC took the frame.  A frame with data and
\* the empty frame that only flushes MAC commands differ in nothing the state
\* machine sees.
SendFrame ==
  \/ /\ macRequest = "none"
     /\ macRequest' = "uplink"
     /\ NextTx' = FALSE
  \/ /\ NextTx' = TRUE
     /\ UNCHANGED macRequest

\* LoRaMacMcpsRequest returns OK: the MAC was idle and takes the frame.
Accepted == macRequest = "none" /\ macRequest' = "uplink"

-----------------------------------------------------------------------------
(* Start of the program                                                    *)

InitializeMac ==
  /\ pc = "init"
  /\ pc' \in {"process", "halted"}
  /\ UNCHANGED <<DeviceState, NextTx, IsMacProcessPending, TxNextPacketTimer,
                 macRequest, activated, envVars>>

\* The fatal error: while (1) {}
Halted ==
  /\ pc = "halted"
  /\ UNCHANGED vars

-----------------------------------------------------------------------------
(* Radio.IrqProcess and LoRaMacProcess, with the callbacks they make       *)

\* (mutant) called only when the flag is set, which the sleeping case clears
LoRaMacProcessIfPending ==
  /\ pc = "process"
  /\ pc' = IF macIrq /\ IsMacProcessPending = 1 THEN "confirm" ELSE "dispatch"
  /\ macIrq' = (macIrq /\ IsMacProcessPending = 0)
  /\ UNCHANGED <<DeviceState, NextTx, IsMacProcessPending, TxNextPacketTimer,
                 macRequest, activated, nvmSession, resets>>

\* Called in every iteration, whether IsMacProcessPending is set or not.
LoRaMacProcess ==
  /\ pc = "process"
  /\ pc' = IF macIrq THEN "confirm" ELSE "dispatch"
  /\ macIrq' = FALSE
  /\ UNCHANGED <<DeviceState, NextTx, IsMacProcessPending, TxNextPacketTimer,
                 macRequest, activated, nvmSession, resets>>

\* The interrupt was an intermediate one (transmission done, first window
\* closed): no confirmation is due yet.
RequestContinues ==
  /\ pc = "confirm"
  /\ pc' = "indicate"
  /\ UNCHANGED <<DeviceState, NextTx, IsMacProcessPending, TxNextPacketTimer,
                 macRequest, activated, envVars>>

\* MlmeConfirm of MLME_JOIN with status OK: the MAC has a session.
MlmeConfirmJoined ==
  /\ pc = "confirm"
  /\ macRequest = "join"
  /\ macRequest' = "none"
  /\ activated' = TRUE
  /\ DeviceState' = "SEND"
  /\ pc' = "indicate"
  /\ UNCHANGED <<NextTx, IsMacProcessPending, TxNextPacketTimer, envVars>>

\* MlmeConfirm of MLME_JOIN with another status: the request is over when the
\* callback runs, and JoinNetwork issues the next one, or fails to.
MlmeConfirmFailed ==
  /\ pc = "confirm"
  /\ macRequest = "join"
  /\ \/ macRequest' = "join" /\ DeviceState' = "SLEEP"
     \/ macRequest' = "none" /\ DeviceState' = "CYCLE_JOIN"
  /\ pc' = "indicate"
  /\ UNCHANGED <<NextTx, IsMacProcessPending, TxNextPacketTimer, activated,
                 envVars>>

\* McpsConfirm prints, and changes nothing the state machine reads.
McpsConfirm ==
  /\ pc = "confirm"
  /\ macRequest = "uplink"
  /\ macRequest' = "none"
  /\ pc' = "indicate"
  /\ UNCHANGED <<DeviceState, NextTx, IsMacProcessPending, TxNextPacketTimer,
                 activated, envVars>>

\* McpsIndication without FramePending (or with a bad status), MlmeIndication
\* of another kind than MLME_SCHEDULE_UPLINK, or no indication at all.
\* ParseRxFrame is empty in both node programs.
NoUplinkWanted ==
  /\ pc = "indicate"
  /\ pc' = "dispatch"
  /\ UNCHANGED <<DeviceState, NextTx, IsMacProcessPending, TxNextPacketTimer,
                 macRequest, activated, envVars>>

\* McpsIndication with FramePending set: the server has more data.  Only a
\* node with a session receives downlinks.
McpsIndication ==
  /\ pc = "indicate"
  /\ activated
  /\ OnTxNextPacketTimerEvent
  /\ pc' = "dispatch"
  /\ UNCHANGED <<IsMacProcessPending, activated, envVars>>

\* MlmeIndication of MLME_SCHEDULE_UPLINK: the MAC wants an uplink.  It comes
\* before the indication of the downlink that caused it.
MlmeIndication ==
  /\ pc = "indicate"
  /\ activated
  /\ OnTxNextPacketTimerEvent
  /\ UNCHANGED <<pc, IsMacProcessPending, activated, envVars>>

-----------------------------------------------------------------------------
(* The cases of the switch                                                 *)

CaseOf ==
  [RESTORE    |-> "case_RESTORE",
   START      |-> "case_START",
   JOIN       |-> "case_JOIN",
   SEND       |-> "case_SEND",
   CYCLE_JOIN |-> "case_CYCLE_JOIN",
   CYCLE_RUN  |-> "case_CYCLE_RUN",
   SLEEP      |-> "case_SLEEP"]

\* switch (DeviceState): from here on an interrupt may already have changed
\* the variable the case was chosen by.
Dispatch ==
  /\ pc = "dispatch"
  /\ pc' = CaseOf[DeviceState]
  /\ UNCHANGED <<DeviceState, NextTx, IsMacProcessPending, TxNextPacketTimer,
                 macRequest, activated, envVars>>

\* NvmCtxMgmtRestore gives back the stored session, or fails and leaves the
\* MAC with the commissioned keys and no session.
CaseRestore ==
  /\ pc = "case_RESTORE"
  /\ activated' \in {nvmSession, FALSE}
  /\ DeviceState' = "START"
  /\ pc' = "process"
  /\ UNCHANGED <<NextTx, IsMacProcessPending, TxNextPacketTimer, macRequest,
                 envVars>>

\* TimerInit, the MIB settings, LoRaMacStart and the activation query; the
\* case repeats until the query succeeds.
CaseStart ==
  /\ pc = "case_START"
  /\ TxNextPacketTimer' = "stopped"
  /\ \/ /\ "OK" \in MibStatus
        /\ DeviceState' = IF activated THEN "SEND" ELSE "JOIN"
        /\ NextTx' = (activated \/ NextTx)
     \/ /\ "ERROR" \in MibStatus
        /\ UNCHANGED <<DeviceState, NextTx>>
  /\ pc' = "process"
  /\ UNCHANGED <<IsMacProcessPending, macRequest, activated, envVars>>

CaseJoin ==
  /\ pc = "case_JOIN"
  /\ JoinNetwork
  /\ pc' = "process"
  /\ UNCHANGED <<NextTx, IsMacProcessPending, TxNextPacketTimer, activated,
                 envVars>>

\* DEVICE_STATE_SEND, first half: PrepareTxFrame and SendFrame.
CaseSend ==
  /\ pc = "case_SEND"
  /\ IF NextTx THEN SendFrame ELSE UNCHANGED <<NextTx, macRequest>>
  /\ pc' = "sent"
  /\ UNCHANGED <<DeviceState, IsMacProcessPending, TxNextPacketTimer,
                 activated, envVars>>

\* (mutant) the join delay is used for the next uplink
CaseSendDoneJoinDelay ==
  /\ pc = "sent"
  /\ DeviceState' = "CYCLE_JOIN"
  /\ pc' = "process"
  /\ UNCHANGED <<NextTx, IsMacProcessPending, TxNextPacketTimer, macRequest,
                 activated, envVars>>

\* DEVICE_STATE_SEND, second half: the state is overwritten, whatever it is.
CaseSendDone ==
  /\ pc = "sent"
  /\ DeviceState' = "CYCLE_RUN"
  /\ pc' = "process"
  /\ UNCHANGED <<NextTx, IsMacProcessPending, TxNextPacketTimer, macRequest,
                 activated, envVars>>

\* DEVICE_STATE_CYCLE_JOIN and _RUN: the state goes to sleep before the timer
\* starts.
CaseCycleJoin ==
  /\ pc = "case_CYCLE_JOIN"
  /\ DeviceState' = "SLEEP"
  /\ pc' = "arm_join"
  /\ UNCHANGED <<NextTx, IsMacProcessPending, TxNextPacketTimer, macRequest,
                 activated, envVars>>

\* (mutant) TimerSetValue without TimerStart
ArmJoinNotStarted ==
  /\ pc = "arm_join"
  /\ pc' = "process"
  /\ UNCHANGED <<DeviceState, NextTx, IsMacProcessPending, TxNextPacketTimer,
                 macRequest, activated, envVars>>

ArmJoin ==
  /\ pc = "arm_join"
  /\ TxNextPacketTimer' = "join"
  /\ pc' = "process"
  /\ UNCHANGED <<DeviceState, NextTx, IsMacProcessPending, macRequest,
                 activated, envVars>>

\* (mutant) the timer starts before the state is written
CaseCycleRunTimerFirst ==
  /\ pc = "case_CYCLE_RUN"
  /\ TxNextPacketTimer' = "run"
  /\ DeviceState' \in {"CYCLE_RUN", "SLEEP"}
  /\ pc' = "arm_run"
  /\ UNCHANGED <<NextTx, IsMacProcessPending, macRequest, activated, envVars>>

CaseCycleRun ==
  /\ pc = "case_CYCLE_RUN"
  /\ DeviceState' = "SLEEP"
  /\ pc' = "arm_run"
  /\ UNCHANGED <<NextTx, IsMacProcessPending, TxNextPacketTimer, macRequest,
                 activated, envVars>>

\* (mutant) TimerSetValue without TimerStart
ArmRunNotStarted ==
  /\ pc = "arm_run"
  /\ pc' = "process"
  /\ UNCHANGED <<DeviceState, NextTx, IsMacProcessPending, TxNextPacketTimer,
                 macRequest, activated, envVars>>

ArmRun ==
  /\ pc = "arm_run"
  /\ TxNextPacketTimer' = "run"
  /\ pc' = "process"
  /\ UNCHANGED <<DeviceState, NextTx, IsMacProcessPending, macRequest,
                 activated, envVars>>

\* DEVICE_STATE_SLEEP: NvmCtxMgmtStore, which may do nothing ...
CaseSleep ==
  /\ pc = "case_SLEEP"
  /\ nvmSession' \in {activated, nvmSession}
  /\ pc' = "critical"
  /\ UNCHANGED <<DeviceState, NextTx, IsMacProcessPending, TxNextPacketTimer,
                 macRequest, macIrq, activated, resets>>

\* (mutant) the flag is cleared and the clocks stop all the same
SleepPendingIgnored ==
  /\ pc = "critical"
  /\ IsMacProcessPending = 1
  /\ IsMacProcessPending' = 0
  /\ pc' = "low_power"
  /\ UNCHANGED <<DeviceState, NextTx, TxNextPacketTimer, macRequest,
                 activated, envVars>>

\* (mutant) the sleeping state is written again
SleepPendingAgain ==
  /\ pc = "critical"
  /\ IsMacProcessPending = 1
  /\ IsMacProcessPending' = 0
  /\ DeviceState' = "SLEEP"
  /\ pc' = "process"
  /\ UNCHANGED <<NextTx, TxNextPacketTimer, macRequest, activated, envVars>>

\* ... and the critical section: a pending MAC event keeps the clocks running.
SleepPending ==
  /\ pc = "critical"
  /\ IsMacProcessPending = 1
  /\ IsMacProcessPending' = 0
  /\ pc' = "process"
  /\ UNCHANGED <<DeviceState, NextTx, TxNextPacketTimer, macRequest,
                 activated, envVars>>

SleepLowPower ==
  /\ pc = "critical"
  /\ IsMacProcessPending = 0
  /\ pc' = "low_power"
  /\ UNCHANGED <<DeviceState, NextTx, IsMacProcessPending, TxNextPacketTimer,
                 macRequest, activated, envVars>>

\* (mutant) the branch waits for the MAC with its interrupts masked
LeaveCriticalWaiting ==
  /\ pc = "low_power"
  /\ IsMacProcessPending = 1
  /\ pc' = "process"
  /\ UNCHANGED <<DeviceState, NextTx, IsMacProcessPending, TxNextPacketTimer,
                 macRequest, activated, envVars>>

\* The call of BoardLowPowerHandler is commented out: the branch does nothing.
LeaveCritical ==
  /\ pc = "low_power"
  /\ pc' = "process"
  /\ UNCHANGED <<DeviceState, NextTx, IsMacProcessPending, TxNextPacketTimer,
                 macRequest, activated, envVars>>

-----------------------------------------------------------------------------
(* Interrupts, and the power supply                                        *)

\* The armed timer expires: the callback runs to its end in the interrupt.
TimerInterrupt ==
  /\ InterruptsEnabled
  /\ TimerArmed
  /\ OnTxNextPacketTimerEvent
  /\ UNCHANGED <<pc, IsMacProcessPending, activated, envVars>>

\* The radio or a MAC timer has something for LoRaMacProcess, and says so
\* through OnMacProcessNotify.  A class A device is silent between requests.
OnMacProcessNotify ==
  /\ InterruptsEnabled
  /\ macRequest # "none"
  /\ macIrq' = TRUE
  /\ IsMacProcessPending' = 1
  /\ UNCHANGED <<pc, DeviceState, NextTx, TxNextPacketTimer, macRequest,
                 activated, nvmSession, resets>>

\* Everything but the stored context is lost.
Reset ==
  /\ resets < MaxResets
  /\ resets' = resets + 1
  /\ pc' = "init"
  /\ DeviceState' = "RESTORE"
  /\ NextTx' = TRUE
  /\ IsMacProcessPending' = 0
  /\ TxNextPacketTimer' = "stopped"
  /\ macRequest' = "none"
  /\ macIrq' = FALSE
  /\ activated' = FALSE
  /\ UNCHANGED nvmSession

-----------------------------------------------------------------------------

Confirm == MlmeConfirmJoined \/ MlmeConfirmFailed \/ McpsConfirm

Callbacks ==
  \/ RequestContinues \/ Confirm
  \/ NoUplinkWanted \/ McpsIndication \/ MlmeIndication

Cases ==
  \/ Dispatch \/ CaseRestore \/ CaseStart \/ CaseJoin
  \/ CaseSend \/ CaseSendDone
  \/ CaseCycleJoin \/ ArmJoin \/ CaseCycleRun \/ ArmRun
  \/ CaseSleep \/ SleepPending \/ SleepLowPower \/ LeaveCritical

\* One statement of RunLoRaStateMachine.
MainLoop ==
  \/ InitializeMac \/ Halted
  \/ LoRaMacProcess \/ Callbacks \/ Cases

Next == MainLoop \/ TimerInterrupt \/ OnMacProcessNotify \/ Reset

Spec == Init /\ [][Next]_vars

\* The loop never returns.  An interrupt that is masked stays pending, so it
\* is served although the mask comes and goes; the MAC answers every request
\* it accepted, and does not report downlinks without end.
Fairness ==
  /\ WF_vars(MainLoop)
  /\ SF_vars(TimerInterrupt)
  /\ SF_vars(OnMacProcessNotify)
  /\ SF_vars(Confirm)
  /\ SF_vars(NoUplinkWanted)

FairSpec == Spec /\ Fairness
=============================================================================
