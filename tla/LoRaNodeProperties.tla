------------------------- MODULE LoRaNodeProperties -------------------------
(***************************************************************************)
(* What the node's state machine must get right whatever the order in      *)
(* which the main loop, the timer interrupt and the MAC's interrupts run.  *)
(***************************************************************************)
EXTENDS LoRaNode

\* The loop has gone to sleep and has no statement left that arms the timer.
Parked == DeviceState = "SLEEP" /\ pc \notin {"arm_join", "arm_run"}

\* Code that runs to its end before the timer can be armed: the initialisation
\* and every case of the switch that writes DeviceState or NextTx.
LoopOwnsState ==
  pc \in Location \ {"process", "confirm", "indicate", "dispatch",
                     "case_SLEEP", "critical", "low_power"}

\* A sleeping node always has something that will wake it: its timer is armed
\* or a join request is still to be confirmed (LoRa.c: JoinNetwork,
\* OnTxNextPacketTimerEvent and the CYCLE cases).  It presumes that the MAC
\* answers the activation query, the one case with no way out (LoRa.c:243).
NeverStranded ==
  MibStatus = {"OK"} => (Parked => TimerArmed \/ macRequest = "join")

\* The timer's interrupt never lands inside code that would overwrite the
\* state it sets, so an expiry cannot be lost: the timer is armed only after
\* the loop wrote SLEEP, and nothing before the next expiry writes again.
InterruptMeetsSleepingLoop ==
  TimerArmed => DeviceState = "SLEEP" /\ ~LoopOwnsState

\* When an uplink is due it will not be skipped and can be sent: the node has
\* a session and NextTx is set, also after a join, where MlmeConfirm sets the
\* state but not NextTx.
DueUplinkCanBeSent ==
  DeviceState = "SEND" /\ pc # "sent" => NextTx /\ activated

\* While a join request is with the MAC there is no second one on its way: no
\* retry timer runs, the loop sleeps, and there is no session to be thrown
\* away by a new join.
OneJoinAtATime ==
  macRequest = "join" => DeviceState = "SLEEP" /\ ~TimerArmed /\ ~activated

\* The delay of an armed timer is the join delay exactly as long as the node
\* has no session (LoRa.h:80-83), though other handlers give and use the
\* session while the timer runs.
DelayFitsSession ==
  TimerArmed => (TxNextPacketTimer = "run" <=> activated)

\* In the branch where the clocks may stop, LoRaMacProcess has seen every
\* interrupt of the MAC (the flag of LoRa.c:117-122), although interrupts
\* arrive between its call and the test of the flag.
LowPowerMissesNoMacEvent == pc = "low_power" => ~macIrq

\* The warning of LoRa.c:120 says that the flag being 0 is enough to stop the
\* clocks.  It would be if nothing else were left to do in that branch.
LowPowerOnlyWhenIdle == pc = "low_power" => DeviceState = "SLEEP"

\* An uplink that is due is never given up for another state before SendFrame
\* had its turn, unless the microcontroller restarts.
DueUplinkIsAttempted ==
  [][DeviceState = "SEND" /\ DeviceState' # "SEND"
       => pc = "sent" \/ resets' # resets]_vars

-----------------------------------------------------------------------------
(* The inductive invariant                                                 *)

\* A MAC event that LoRaMacProcess has not seen is flagged, from the moment
\* LoRaMacProcess is over until the flag is tested.
EventIsFlagged ==
  pc \notin {"process", "low_power"} /\ macIrq => IsMacProcessPending = 1

\* The case being executed was chosen by the state it still finds; only the
\* sleeping case can be overtaken.
CaseFitsState ==
  /\ pc \in {"init", "case_RESTORE"} => DeviceState = "RESTORE"
  /\ pc = "halted"          => DeviceState = "RESTORE"
  /\ pc = "case_START"      => DeviceState = "START"
  /\ pc = "case_JOIN"       => DeviceState = "JOIN"
  /\ pc = "case_SEND"       => DeviceState = "SEND"
  /\ pc = "sent"            => DeviceState = "SEND"
  /\ pc = "case_CYCLE_JOIN" => DeviceState = "CYCLE_JOIN"
  /\ pc = "case_CYCLE_RUN"  => DeviceState = "CYCLE_RUN"
  /\ pc \in {"arm_join", "arm_run"} => DeviceState = "SLEEP"

\* Before the first join or restored session nothing has been sent, so NextTx
\* still has its initial value.
UnjoinedNodeCanSend == ~activated => NextTx

\* Which states a node with a session can be in, and which one without.
SessionFitsState ==
  /\ DeviceState \in {"CYCLE_RUN", "SEND"} => activated
  /\ DeviceState \in {"RESTORE", "JOIN", "CYCLE_JOIN"} => ~activated
  /\ pc = "arm_join" => ~activated /\ macRequest # "join"
  /\ pc = "arm_run" => activated
  /\ DeviceState \in {"RESTORE", "START", "JOIN"} =>
       macRequest = "none"
  /\ macRequest = "uplink" => activated

\* All of it together: TypeOK and the facts above make every property of the
\* first part inductive.
IInv ==
  /\ TypeOK
  /\ CaseFitsState
  /\ SessionFitsState
  /\ UnjoinedNodeCanSend
  /\ EventIsFlagged
  /\ InterruptMeetsSleepingLoop
  /\ DueUplinkCanBeSent
  /\ OneJoinAtATime
  /\ DelayFitsSession
  /\ LowPowerMissesNoMacEvent
  /\ NeverStranded

-----------------------------------------------------------------------------
(* Liveness, under Fairness                                                *)

\* Nothing blocks the actions that Fairness speaks of where they are due: the
\* loop has a way on from every statement but the endless loop after a fatal
\* error, also from the critical section, whoever is not masked and has
\* something to say can say it, and an idle MAC can take a frame.
StepsEnabled ==
  /\ pc # "halted" => ENABLED <<MainLoop>>_vars
  /\ InterruptsEnabled /\ TimerArmed => ENABLED <<TimerInterrupt>>_vars
  /\ InterruptsEnabled /\ macRequest # "none" /\ ~macIrq =>
       ENABLED <<OnMacProcessNotify>>_vars
  /\ pc = "confirm" /\ macRequest # "none" => ENABLED <<Confirm>>_vars
  /\ pc = "indicate" => ENABLED <<NoUplinkWanted>>_vars
  /\ pc = "case_SEND" /\ NextTx /\ macRequest = "none" =>
       ENABLED <<CaseSend /\ Accepted>>_vars

\* A node with a session comes back to the sending case for ever: an uplink
\* that is refused, a late confirmation or an indication at a bad moment
\* never is the last thing that happens (Readme.md:142-143).
UplinksKeepComing == activated ~> (pc = "case_SEND" \/ ~activated)

\* A node without a session has a join request with the MAC, or asks again,
\* for ever, unless its MAC could not be initialised.
JoinKeepsBeingTried ==
  []<>(\/ activated
       \/ macRequest = "join"
       \/ DeviceState = "CYCLE_JOIN"
       \/ pc = "halted")

\* An uplink is with the MAC, which has not confirmed it yet.
InFlight == activated /\ macRequest = "uplink"

Answered == macRequest = "none" \/ ~activated

\* The confirmation of an uplink that the MAC has accepted reaches McpsConfirm,
\* or the node restarts.  Events are raised in an interrupt, flagged in
\* IsMacProcessPending, which the loop clears without looking at the MAC, and
\* seen in LoRaMacProcess only: no order of the three loses the last event of
\* an uplink, after which the MAC is silent (LoRa.c:258, :518-521,
\* :562, :713-725).
UplinkIsAnswered == InFlight ~> Answered

-----------------------------------------------------------------------------
(* The node implements its contract                                        *)

\* With a session: the case of DEVICE_STATE_SEND that is being executed, the
\* uplink that waits for it, or the time in between.
sessionPhase ==
  IF pc = "sent" THEN "sent"
  ELSE IF DeviceState = "SEND" THEN "due" ELSE "waiting"

joinPhase == IF macRequest = "join" THEN "joining" ELSE "backoff"

phase ==
  IF DeviceState \in {"RESTORE", "START", "JOIN"} THEN "boot"
  ELSE IF activated THEN sessionPhase ELSE joinPhase

Contract == INSTANCE NodeContract WITH phase <- phase

\* Every step of the state machine is a step of the contract or leaves its
\* phase alone, and what the contract promises to happen happens.
ImplementsContract == Contract!FairSpec
=============================================================================
