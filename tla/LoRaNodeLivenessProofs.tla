----------------------- MODULE LoRaNodeLivenessProofs -----------------------
(***************************************************************************)
(* The node's liveness properties follow from its fairness, for every      *)
(* number of restarts.  The provers know nothing of ENABLED: where the     *)
(* actions of Fairness are enabled is the hypothesis StepsEnabled, which   *)
(* TLC checks; everything else is proved.                                  *)
(*                                                                         *)
(* The argument has three parts: the loop always comes back to the switch; *)
(* there it takes the case of the state it is in; and from every state the *)
(* chosen cases and the timer lead to the one that is promised.            *)
(***************************************************************************)
EXTENDS LoRaNodeProofs

\* What is true of every rest of a fair behaviour.
Running == [][Next]_vars /\ []IInv /\ []StepsEnabled /\ Fairness

\* A fair behaviour runs like that from its first state on.
LEMMA FairNodeRuns == FairSpec /\ []StepsEnabled => Running
  BY Inductive, PTL DEF FairSpec, Spec, Running

-----------------------------------------------------------------------------
(* The loop comes back to the switch                                       *)

\* Where the loop goes from each statement, as long as nobody resets it.
NextLocation ==
  [init            |-> {"process", "halted"},
   halted          |-> {},
   process         |-> {"confirm", "dispatch"},
   confirm         |-> {"indicate"},
   indicate        |-> {"dispatch"},
   dispatch        |-> {"case_RESTORE", "case_START", "case_JOIN",
                        "case_SEND", "case_CYCLE_JOIN", "case_CYCLE_RUN",
                        "case_SLEEP"},
   case_RESTORE    |-> {"process"},
   case_START      |-> {"process"},
   case_JOIN       |-> {"process"},
   case_SEND       |-> {"sent"},
   sent            |-> {"process"},
   case_CYCLE_JOIN |-> {"arm_join"},
   case_CYCLE_RUN  |-> {"arm_run"},
   arm_join        |-> {"process"},
   arm_run         |-> {"process"},
   case_SLEEP      |-> {"critical"},
   critical        |-> {"process", "low_power"},
   low_power       |-> {"process"}]

\* How many statements the switch is away, at most; a halted node has none
\* left to go.
Distance ==
  [halted          |-> 0,
   dispatch        |-> 0,
   indicate        |-> 1,
   confirm         |-> 2,
   process         |-> 3,
   init            |-> 4,
   case_RESTORE    |-> 4,
   case_START      |-> 4,
   case_JOIN       |-> 4,
   sent            |-> 4,
   arm_join        |-> 4,
   arm_run         |-> 4,
   low_power       |-> 4,
   case_SEND       |-> 5,
   case_CYCLE_JOIN |-> 5,
   case_CYCLE_RUN  |-> 5,
   critical        |-> 5,
   case_SLEEP      |-> 6]

Away(n) == Distance[pc] = n
Closer(n) == Distance[pc] < n

\* Each statement is followed by those of the program text.
LEMMA LocationStep ==
  ASSUME TypeOK, [Next]_vars, ~Reset, pc' # pc
  PROVE  pc' \in NextLocation[pc]
  <1> USE DEF NextLocation
  <1>1. CASE InitializeMac \/ Halted \/ LoRaMacProcess
    BY <1>1 DEF InitializeMac, Halted, LoRaMacProcess, vars
  <1>2. CASE Callbacks
    BY <1>2
    DEF Callbacks, Confirm, RequestContinues, MlmeConfirmJoined,
        MlmeConfirmFailed, McpsConfirm, NoUplinkWanted, McpsIndication,
        MlmeIndication
  <1>3. CASE Dispatch
    BY <1>3 DEF Dispatch, CaseOf, TypeOK, eDeviceState
  <1>4. CASE CaseRestore \/ CaseStart \/ CaseJoin
    <2>1. /\ pc \in {"case_RESTORE", "case_START", "case_JOIN"}
          /\ pc' = "process"
      BY <1>4 DEF CaseRestore, CaseStart, CaseJoin
    <2> QED
      BY <2>1
  <1>5. CASE CaseSend \/ CaseSendDone
    BY <1>5 DEF CaseSend, CaseSendDone
  <1>6. CASE CaseCycleJoin \/ ArmJoin \/ CaseCycleRun \/ ArmRun
    <2>1. \/ pc = "case_CYCLE_JOIN" /\ pc' = "arm_join"
          \/ pc = "arm_join" /\ pc' = "process"
          \/ pc = "case_CYCLE_RUN" /\ pc' = "arm_run"
          \/ pc = "arm_run" /\ pc' = "process"
      BY <1>6 DEF CaseCycleJoin, ArmJoin, CaseCycleRun, ArmRun
    <2> QED
      BY <2>1
  <1>7. CASE CaseSleep \/ SleepPending \/ SleepLowPower \/ LeaveCritical
    <2>1. \/ pc = "case_SLEEP" /\ pc' = "critical"
          \/ pc = "critical" /\ pc' \in {"process", "low_power"}
          \/ pc = "low_power" /\ pc' = "process"
      BY <1>7 DEF CaseSleep, SleepPending, SleepLowPower, LeaveCritical
    <2> QED
      BY <2>1
  <1>8. CASE TimerInterrupt \/ OnMacProcessNotify \/ UNCHANGED vars
    BY <1>8 DEF TimerInterrupt, OnMacProcessNotify, vars
  <1> QED
    BY <1>1, <1>2, <1>3, <1>4, <1>5, <1>6, <1>7, <1>8
    DEF Next, MainLoop, Cases

\* Only the sending case leads to the statement that overwrites the state.
LEMMA SentAfterSend ==
  ASSUME IInv, [Next]_vars, ~Reset, pc # "sent", pc' = "sent"
  PROVE  pc = "case_SEND" /\ DeviceState = "SEND"
  <1>1. pc \in Location /\ pc' \in NextLocation[pc]
    BY LocationStep DEF IInv, TypeOK
  <1>2. pc = "case_SEND"
    BY <1>1 DEF NextLocation, Location
  <1> QED
    BY <1>2 DEF IInv, CaseFitsState

\* A step of the loop that changes anything goes on to another statement,
\* except that a MAC may call several callbacks (LoRa.c:488-530).
LEMMA LoopMoves ==
  ASSUME TypeOK, <<MainLoop>>_vars, pc # "indicate" PROVE pc' # pc
  <1>1. CASE InitializeMac \/ Halted \/ LoRaMacProcess
    BY <1>1 DEF InitializeMac, Halted, LoRaMacProcess
  <1>2. CASE Callbacks
    BY <1>2
    DEF Callbacks, Confirm, RequestContinues, MlmeConfirmJoined,
        MlmeConfirmFailed, McpsConfirm, NoUplinkWanted, McpsIndication,
        MlmeIndication
  <1>3. CASE Dispatch
    BY <1>3 DEF Dispatch, CaseOf, TypeOK, eDeviceState
  <1>4. CASE Cases /\ ~Dispatch
    BY <1>4
    DEF Cases, CaseRestore, CaseStart, CaseJoin, CaseSend, CaseSendDone,
        CaseCycleJoin, ArmJoin, CaseCycleRun, ArmRun, CaseSleep,
        SleepPending, SleepLowPower, LeaveCritical
  <1> QED
    BY <1>1, <1>2, <1>3, <1>4 DEF MainLoop

\* Wherever the loop goes, except from the switch itself, it comes closer.
LEMMA StepsCloser ==
  ASSUME TypeOK, [Next]_vars, ~Reset, pc' # pc, pc # "dispatch"
  PROVE  Distance[pc'] < Distance[pc]
  BY LocationStep DEF TypeOK, Location, NextLocation, Distance

\* From n statements away the loop comes closer, and never moves away.
Approaches(n) ==
  /\ IInv /\ Away(n) /\ [Next]_vars /\ [~Reset]_vars => (Away(n) \/ Closer(n))'
  /\ IInv /\ Away(n) /\ <<MainLoop>>_vars /\ [~Reset]_vars => Closer(n)'
  /\ IInv /\ Away(n) /\ StepsEnabled => ENABLED <<MainLoop>>_vars

\* It does so from everywhere but "indicate", where the MAC may call several
\* callbacks.
LEMMA ComesCloser == \A n \in 2 .. 6 : Approaches(n)
  <1> SUFFICES ASSUME NEW n \in 2 .. 6 PROVE Approaches(n)
    OBVIOUS
  <1> USE DEF Away, Closer, Distance, IInv
  <1>1. IInv /\ Away(n) => pc \notin {"dispatch", "halted", "indicate"}
    OBVIOUS
  <1>2. ASSUME IInv, Away(n), [Next]_vars, [~Reset]_vars, pc' # pc
        PROVE  Closer(n)'
    BY <1>1, <1>2, StepsCloser DEF vars
  <1>3. IInv /\ Away(n) /\ <<MainLoop>>_vars => pc' # pc /\ [Next]_vars
    BY <1>1, LoopMoves DEF Next
  <1>4. IInv /\ Away(n) /\ StepsEnabled => ENABLED <<MainLoop>>_vars
    BY <1>1 DEF StepsEnabled
  <1> QED
    BY <1>2, <1>3, <1>4 DEF Approaches

\* As long as nobody resets it the loop comes back to the switch for ever,
\* unless it never began.
LEMMA LoopTurns ==
  Running /\ <>[][~Reset]_vars => []<>(pc \in {"dispatch", "halted"})
  <1> USE DEF Away, Closer, Distance
  <1>1. Running /\ <>[][~Reset]_vars => <>[](Away(1) => <>Closer(1))
    <2>1. IInv /\ Away(1) => pc = "indicate"
      BY DEF IInv, TypeOK, Location
    <2>2. IInv /\ Away(1) /\ [Next]_vars /\ [~Reset]_vars
            => (Away(1) \/ Closer(1))'
      BY <2>1, StepsCloser DEF IInv, vars
    <2>3. <<NoUplinkWanted>>_vars => Closer(1)'
      BY DEF NoUplinkWanted
    <2>4. IInv /\ Away(1) /\ StepsEnabled => ENABLED <<NoUplinkWanted>>_vars
      BY <2>1 DEF StepsEnabled
    <2> HIDE DEF Away, Closer
    <2> QED
      BY <2>2, <2>3, <2>4, PTL DEF Running, Fairness
  <1>2. /\ Approaches(2) /\ Approaches(3) /\ Approaches(4)
        /\ Approaches(5) /\ Approaches(6)
    BY ComesCloser
  <1>3. IInv => /\ Away(6) \/ Closer(6)
                /\ Closer(6) => Away(5) \/ Closer(5)
                /\ Closer(5) => Away(4) \/ Closer(4)
                /\ Closer(4) => Away(3) \/ Closer(3)
                /\ Closer(3) => Away(2) \/ Closer(2)
                /\ Closer(2) => Away(1) \/ Closer(1)
                /\ Closer(1) => pc \in {"dispatch", "halted"}
    BY DEF IInv, TypeOK, Location
  <1> HIDE DEF Away, Closer
  <1> QED
    BY <1>1, <1>2, <1>3, PTL DEF Approaches, Running, Fairness

\* A reset ends the session, and a node with a session is not halted.
LEMMA SessionLoopTurns ==
  Running => (activated ~> (activated /\ pc = "dispatch") \/ ~activated)
  <1>1. activated /\ activated' => [~Reset]_vars
    BY DEF Reset
  <1>2. IInv /\ activated => pc # "halted"
    BY DEF IInv, CaseFitsState, SessionFitsState
  <1>3. pc \in {"dispatch", "halted"} /\ pc # "halted" => pc = "dispatch"
    OBVIOUS
  <1> QED
    BY <1>1, <1>2, <1>3, LoopTurns, PTL DEF Running, Fairness

-----------------------------------------------------------------------------
(* The switch takes the case of the state                                  *)

\* Statements that only their own action leaves.
LEMMA StatementStep ==
  ASSUME [Next]_vars, ~Reset, pc' # pc
  PROVE  /\ pc = "process" => LoRaMacProcess
         /\ pc = "dispatch" => Dispatch
         /\ pc = "case_RESTORE" => CaseRestore
         /\ pc = "case_START" => CaseStart
         /\ pc = "case_JOIN" => CaseJoin
         /\ pc = "sent" => CaseSendDone
  BY DEF Next, MainLoop, InitializeMac, Halted, LoRaMacProcess, Callbacks,
         Confirm, RequestContinues, MlmeConfirmJoined, MlmeConfirmFailed,
         McpsConfirm, NoUplinkWanted, McpsIndication, MlmeIndication, Cases,
         Dispatch, CaseRestore, CaseStart, CaseJoin, CaseSend, CaseSendDone,
         CaseCycleJoin, ArmJoin, CaseCycleRun, ArmRun, CaseSleep,
         SleepPending, SleepLowPower, LeaveCritical, TimerInterrupt,
         OnMacProcessNotify, vars

\* The state is changed by the case it was dispatched to, by whoever wants an
\* uplink while there is a session, and by whoever asks to join while there
\* is none.
LEMMA StateChange ==
  ASSUME IInv, [Next]_vars, ~Reset, DeviceState' # DeviceState,
         MibStatus = {"OK"}
  PROVE  \/ DeviceState' = "SEND" /\ DeviceState # "SEND" /\ activated'
         \/ pc = "sent" /\ DeviceState' = "CYCLE_RUN"
         \/ pc = CaseOf[DeviceState] /\ DeviceState # "SLEEP"
         \/ DeviceState = "SLEEP" /\ DeviceState' = "CYCLE_JOIN"
  <1> USE DEF IInv, CaseFitsState, SessionFitsState, CaseOf
  <1>1. CASE InitializeMac \/ Halted \/ LoRaMacProcess
    BY <1>1 DEF InitializeMac, Halted, LoRaMacProcess, vars
  <1>2. CASE Callbacks
    BY <1>2
    DEF Callbacks, Confirm, RequestContinues, MlmeConfirmJoined,
        MlmeConfirmFailed, McpsConfirm, NoUplinkWanted, McpsIndication,
        MlmeIndication, OnTxNextPacketTimerEvent, OneJoinAtATime
  <1>3. CASE Cases
    <2>1. CASE CaseSendDone
      BY <2>1 DEF CaseSendDone
    <2>2. CASE CaseRestore \/ CaseStart \/ CaseJoin
      <3>1. pc \in {"case_RESTORE", "case_START", "case_JOIN"}
        BY <2>2 DEF CaseRestore, CaseStart, CaseJoin
      <3> QED
        BY <3>1
    <2>3. CASE CaseCycleJoin \/ CaseCycleRun
      <3>1. pc \in {"case_CYCLE_JOIN", "case_CYCLE_RUN"}
        BY <2>3 DEF CaseCycleJoin, CaseCycleRun
      <3> QED
        BY <3>1
    <2> QED
      BY <1>3, <2>1, <2>2, <2>3
      DEF Cases, Dispatch, CaseSend, ArmJoin, ArmRun, CaseSleep,
          SleepPending, SleepLowPower, LeaveCritical
  <1>4. CASE TimerInterrupt
    BY <1>4
    DEF TimerInterrupt, OnTxNextPacketTimerEvent, JoinNetwork,
        InterruptMeetsSleepingLoop
  <1>5. CASE OnMacProcessNotify \/ UNCHANGED vars
    BY <1>5 DEF OnMacProcessNotify, vars
  <1> QED
    BY <1>1, <1>2, <1>3, <1>4, <1>5 DEF Next, MainLoop

Due == activated /\ DeviceState = "SEND" /\ pc # "sent"

\* The case of state D has been chosen, or it has not: then only the switch
\* or a request for an uplink can change what the loop does next.
Chosen(D) == DeviceState = D /\ pc = CaseOf[D]
Waits(D) == DeviceState = D /\ pc \notin {"sent", CaseOf[D]}
Outcome(D) == Chosen(D) \/ (D # "SEND" /\ Due)

IsChosen(D) ==
  /\ IInv /\ Waits(D) /\ [Next]_vars /\ [~Reset]_vars
       => (Waits(D) \/ Outcome(D))'
  /\ IInv /\ Waits(D) /\ pc = "dispatch" /\ [Next]_vars /\ [~Reset]_vars
       => (Waits(D) /\ pc = "dispatch")' \/ Outcome(D)'
  /\ IInv /\ Waits(D) /\ pc = "dispatch" /\ <<MainLoop>>_vars
       /\ [~Reset]_vars => Outcome(D)'

\* States other than that of a sleeping node lead to their case.
LEMMA CaseIsChosen ==
  MibStatus = {"OK"} => \A D \in eDeviceState \ {"SLEEP"} : IsChosen(D)
  <1> SUFFICES ASSUME MibStatus = {"OK"}, NEW D \in eDeviceState \ {"SLEEP"}
               PROVE  IsChosen(D)
    OBVIOUS
  <1>1. ASSUME IInv, Waits(D), [Next]_vars, [~Reset]_vars
        PROVE  (Waits(D) \/ Outcome(D))'
    <2>1. CASE UNCHANGED <<pc, DeviceState>>
      BY <1>1, <2>1 DEF Waits
    <2>2. CASE ~ UNCHANGED <<pc, DeviceState>>
      <3>1. ~Reset
        BY <1>1, <2>2 DEF vars
      <3>2. pc' # "sent"
        BY <1>1, <3>1, SentAfterSend DEF Waits, CaseOf
      <3>3. CASE DeviceState' = DeviceState
        BY <1>1, <3>2, <3>3 DEF Waits, Outcome, Chosen
      <3>4. CASE DeviceState' # DeviceState
        BY <1>1, <3>1, <3>2, <3>4, StateChange DEF Waits, Outcome, Due
      <3> QED
        BY <3>3, <3>4
    <2> QED
      BY <2>1, <2>2
  <1>2. ASSUME IInv, Waits(D), pc = "dispatch", [Next]_vars, [~Reset]_vars
        PROVE  (Waits(D) /\ pc = "dispatch")' \/ Outcome(D)'
    <2> SUFFICES ASSUME ~Outcome(D)' PROVE pc' = "dispatch"
      BY <1>1, <1>2
    <2>1. Waits(D)'
      BY <1>1, <1>2
    <2>2. pc' # CaseOf[DeviceState]
      BY <1>2, <2>1 DEF Waits
    <2>3. CASE pc' # pc
      <3>1. ~Reset
        BY <1>2, <2>3 DEF vars
      <3> QED
        BY <1>2, <2>2, <2>3, <3>1, StatementStep DEF Dispatch
    <2> QED
      BY <1>2, <2>3
  <1>3. ASSUME IInv, Waits(D), pc = "dispatch", <<MainLoop>>_vars,
               [~Reset]_vars
        PROVE  Outcome(D)'
    <2>1. pc' # pc /\ [Next]_vars
      BY <1>3, LoopMoves DEF IInv, Next
    <2> QED
      BY <1>2, <1>3, <2>1
  <1> QED
    BY <1>1, <1>2, <1>3 DEF IsChosen

\* The same along a behaviour: for a node nobody resets any more, and for one
\* that has a session.
LEMMA WaitsEnd ==
  ASSUME MibStatus = {"OK"}
  PROVE  /\ Running /\ <>[][~Reset]_vars =>
           /\ <>[](Waits("RESTORE") => <>(Outcome("RESTORE") \/ pc = "halted"))
           /\ <>[](Waits("START") => <>(Outcome("START") \/ pc = "halted"))
           /\ <>[](Waits("JOIN") => <>(Outcome("JOIN") \/ pc = "halted"))
         /\ Running =>
           /\ activated /\ Waits("SEND") ~> Outcome("SEND") \/ ~activated
           /\ activated /\ Waits("START") ~> Outcome("START") \/ ~activated
           /\ activated /\ Waits("CYCLE_RUN")
                ~> Outcome("CYCLE_RUN") \/ ~activated
  <1>1. /\ IsChosen("RESTORE") /\ IsChosen("START") /\ IsChosen("JOIN")
        /\ IsChosen("SEND") /\ IsChosen("CYCLE_RUN")
    BY CaseIsChosen DEF eDeviceState
  <1>2. IInv /\ StepsEnabled /\ pc = "dispatch" => ENABLED <<MainLoop>>_vars
    BY DEF StepsEnabled
  <1>3. pc \in {"dispatch", "halted"} => pc = "dispatch" \/ pc = "halted"
    OBVIOUS
  <1>4. activated /\ activated' => [~Reset]_vars
    BY DEF Reset
  <1>5. Running /\ <>[][~Reset]_vars =>
          <>[](Waits("RESTORE") => <>(Outcome("RESTORE") \/ pc = "halted"))
    BY <1>1, <1>2, <1>3, LoopTurns, PTL DEF IsChosen, Running, Fairness
  <1>6. Running /\ <>[][~Reset]_vars =>
          <>[](Waits("START") => <>(Outcome("START") \/ pc = "halted"))
    BY <1>1, <1>2, <1>3, LoopTurns, PTL DEF IsChosen, Running, Fairness
  <1>7. Running /\ <>[][~Reset]_vars =>
          <>[](Waits("JOIN") => <>(Outcome("JOIN") \/ pc = "halted"))
    BY <1>1, <1>2, <1>3, LoopTurns, PTL DEF IsChosen, Running, Fairness
  <1>8. Running =>
          (activated /\ Waits("SEND") ~> Outcome("SEND") \/ ~activated)
    BY <1>1, <1>2, <1>4, SessionLoopTurns, PTL DEF IsChosen, Running, Fairness
  <1>9. Running =>
          (activated /\ Waits("START") ~> Outcome("START") \/ ~activated)
    BY <1>1, <1>2, <1>4, SessionLoopTurns, PTL DEF IsChosen, Running, Fairness
  <1>10. Running => (activated /\ Waits("CYCLE_RUN")
                       ~> Outcome("CYCLE_RUN") \/ ~activated)
    BY <1>1, <1>2, <1>4, SessionLoopTurns, PTL DEF IsChosen, Running, Fairness
  <1> QED
    BY <1>5, <1>6, <1>7, <1>8, <1>9, <1>10, PTL

-----------------------------------------------------------------------------
(* Uplinks keep coming                                                     *)

Asleep == activated /\ DeviceState = "SLEEP"
Armed == Asleep /\ TimerArmed

\* A sleeping node with a session wakes to send.
LEMMA SleeperWakes ==
  ASSUME MibStatus = {"OK"}
  PROVE  Running => (Asleep ~> Due \/ ~activated)
  <1>1. IInv /\ Asleep /\ [Next]_vars => (Asleep \/ Due \/ ~activated)'
    <2> SUFFICES ASSUME IInv, Asleep, [Next]_vars, activated',
                        DeviceState' # DeviceState
                 PROVE  Due'
      BY DEF Asleep
    <2>1. ~Reset /\ pc # "sent"
      BY DEF Reset, Asleep, IInv, CaseFitsState
    <2>2. IInv'
      BY InductiveStep
    <2>3. pc' # "sent"
      BY <2>1, SentAfterSend DEF Asleep
    <2> QED
      BY <2>1, <2>2, <2>3, StateChange
      DEF Asleep, Due, IInv, SessionFitsState
  <1>2. IInv /\ Armed /\ [Next]_vars => (Armed \/ Due \/ ~activated)'
    <2> SUFFICES ASSUME IInv, Armed, [Next]_vars, ~Due', activated'
                 PROVE  Armed'
      OBVIOUS
    <2>1. Asleep' /\ pc \notin {"arm_run", "arm_join"}
      BY <1>1 DEF Armed, Asleep, IInv, InterruptMeetsSleepingLoop,
         LoopOwnsState, Location
    <2>2. IInv' /\ ~Reset
      BY InductiveStep DEF Reset
    <2>3. macRequest' # "join"
      BY <2>2 DEF IInv, OneJoinAtATime
    <2>4. pc' \notin {"arm_run", "arm_join"}
      <3>1. pc \notin {"case_CYCLE_RUN", "case_CYCLE_JOIN"} /\ pc \in Location
        BY DEF Armed, Asleep, IInv, TypeOK, CaseFitsState
      <3> QED
        BY <2>1, <2>2, <3>1, LocationStep DEF NextLocation, Location, IInv
    <2> QED
      BY <2>1, <2>2, <2>3, <2>4 DEF Armed, Asleep, IInv, NeverStranded, Parked
  <1>3. IInv /\ Armed /\ <<TimerInterrupt>>_vars => (Due \/ ~activated)'
    <2> SUFFICES ASSUME IInv, Armed, TimerInterrupt PROVE Due'
      OBVIOUS
    <2>1. pc # "sent" /\ pc' = pc
      BY DEF TimerInterrupt, IInv, CaseFitsState, Armed, Asleep
    <2> QED
      BY <2>1 DEF TimerInterrupt, OnTxNextPacketTimerEvent, Armed, Asleep, Due
  <1>4. IInv /\ Asleep /\ pc = "dispatch" => Armed
    BY DEF Asleep, Armed, IInv, NeverStranded, Parked, OneJoinAtATime
  <1>5. StepsEnabled /\ Armed /\ pc = "dispatch"
          => ENABLED <<TimerInterrupt>>_vars
    BY DEF StepsEnabled, Armed, InterruptsEnabled
  <1>6. Asleep => activated
    BY DEF Asleep
  <1>7. Armed => Asleep
    BY DEF Armed
  <1> QED
    BY <1>1, <1>2, <1>3, <1>4, <1>5, <1>6, <1>7, SessionLoopTurns, PTL
    DEF Running, Fairness

\* A node whose MAC answers the activation query sends for as long as it has
\* a session, through every restart: UplinksKeepComing.
THEOREM UplinksNeverCease ==
  ASSUME MibStatus = {"OK"}
  PROVE  FairSpec /\ []StepsEnabled => UplinksKeepComing
  <1> DEFINE Arrived == pc = "case_SEND" \/ ~activated
             Sent == activated /\ pc = "sent"
  <1>1. IInv /\ activated =>
          \/ Waits("SEND") \/ Waits("START") \/ Waits("CYCLE_RUN")
          \/ Chosen("SEND") \/ Chosen("START") \/ Chosen("CYCLE_RUN")
          \/ Asleep \/ Sent
    BY DEF IInv, TypeOK, eDeviceState, SessionFitsState, Waits, Chosen,
           Asleep, CaseOf
  <1>2. Due => Waits("SEND") \/ Arrived
    BY DEF Due, Waits, CaseOf
  <1>3. /\ Outcome("SEND") => Arrived
        /\ Outcome("START") => Chosen("START") \/ Due
        /\ Outcome("CYCLE_RUN") => Chosen("CYCLE_RUN") \/ Due
        /\ Chosen("SEND") => Arrived
        /\ ~activated => Arrived
    BY DEF Outcome, Chosen, CaseOf
  <1>4. IInv /\ activated /\ Chosen("START") /\ [Next]_vars
          => ((activated /\ Chosen("START")) \/ Due \/ Arrived)'
    <2> SUFFICES ASSUME IInv, activated, Chosen("START"), [Next]_vars,
                        activated'
                 PROVE  Chosen("START")' \/ Due'
      OBVIOUS
    <2>1. pc = "case_START" /\ ~Reset
      BY DEF Chosen, CaseOf, Reset
    <2>2. CASE pc' = pc
      BY <2>1, <2>2, InductiveStep DEF Chosen, CaseOf, IInv, CaseFitsState
    <2>3. CASE pc' # pc
      BY <2>1, <2>3, StatementStep DEF CaseStart, Due
    <2> QED
      BY <2>2, <2>3
  <1>5. IInv /\ activated /\ Chosen("CYCLE_RUN") /\ [Next]_vars
          => ((activated /\ Chosen("CYCLE_RUN")) \/ Due \/ Asleep
                \/ Arrived)'
    <2> SUFFICES ASSUME IInv, activated, Chosen("CYCLE_RUN"), [Next]_vars,
                        activated'
                 PROVE  Chosen("CYCLE_RUN")' \/ Asleep'
      OBVIOUS
    <2>1. pc = "case_CYCLE_RUN" /\ ~Reset
      BY DEF Chosen, CaseOf, Reset
    <2>2. pc' = pc \/ pc' = "arm_run"
      BY <2>1, LocationStep DEF NextLocation, IInv
    <2> QED
      BY <2>1, <2>2, InductiveStep
      DEF Chosen, CaseOf, Asleep, IInv, CaseFitsState
  <1>6. IInv /\ Sent /\ [Next]_vars
          => (Sent \/ (activated /\ Waits("CYCLE_RUN")) \/ Arrived)'
    <2> SUFFICES ASSUME IInv, Sent, [Next]_vars, activated', pc' # "sent"
                 PROVE  Waits("CYCLE_RUN")'
      OBVIOUS
    <2>1. CaseSendDone
      BY StatementStep DEF Reset
    <2> QED
      BY <2>1 DEF CaseSendDone, Waits, CaseOf
  <1>7. /\ IInv /\ Chosen("START") /\ <<MainLoop>>_vars => ~Chosen("START")'
        /\ IInv /\ Chosen("CYCLE_RUN") /\ <<MainLoop>>_vars
             => ~Chosen("CYCLE_RUN")'
        /\ IInv /\ Sent /\ <<MainLoop>>_vars => ~Sent'
    BY LoopMoves DEF IInv, Chosen, CaseOf
  <1>8. StepsEnabled /\ (Chosen("START") \/ Chosen("CYCLE_RUN") \/ Sent)
          => ENABLED <<MainLoop>>_vars
    BY DEF StepsEnabled, Chosen, CaseOf
  <1>9. UplinksKeepComing <=> (activated ~> Arrived)
    BY DEF UplinksKeepComing
  <1>10. Due => activated
    BY DEF Due
  <1>11. Sent => activated
    OBVIOUS
  <1> HIDE DEF Arrived, Sent
  <1> QED
    BY <1>1, <1>2, <1>3, <1>4, <1>5, <1>6, <1>7, <1>8, <1>9, <1>10, <1>11,
       WaitsEnd, SleeperWakes, FairNodeRuns, PTL
    DEF Running, Fairness

-----------------------------------------------------------------------------
(* The network is asked for ever                                           *)

\* What JoinKeepsBeingTried promises, state by state.
Tried ==
  \/ activated
  \/ macRequest = "join"
  \/ DeviceState = "CYCLE_JOIN"
  \/ pc = "halted"

\* A node without a session whose retry timer runs asks again.
Backoff == ~activated /\ macRequest # "join" /\ DeviceState = "SLEEP"
Retrying == Backoff /\ TimerArmed

\* ... as long as nobody resets it: the timer fires while the loop is at the
\* switch, if not before.
LEMMA RetryIsMade ==
  ASSUME MibStatus = {"OK"}
  PROVE  Running /\ <>[][~Reset]_vars => <>[](Backoff => <>Tried)
  <1>1. IInv /\ Backoff /\ [Next]_vars /\ [~Reset]_vars
          => (Backoff \/ Tried)'
    <2> SUFFICES ASSUME IInv, Backoff, [Next]_vars, [~Reset]_vars,
                        DeviceState' # DeviceState, ~Tried'
                 PROVE  FALSE
      BY DEF Backoff, Tried
    <2>1. ~Reset /\ pc # "sent"
      BY DEF Backoff, IInv, CaseFitsState, vars
    <2> QED
      BY <2>1, StateChange DEF Backoff, Tried
  <1>2. IInv /\ Retrying /\ [Next]_vars /\ [~Reset]_vars
          => (Retrying \/ Tried)'
    <2> SUFFICES ASSUME IInv, Retrying, [Next]_vars, [~Reset]_vars, ~Tried'
                 PROVE  Retrying'
      OBVIOUS
    <2>1. Backoff'
      BY <1>1 DEF Retrying
    <2>2. IInv'
      BY InductiveStep
    <2>3. pc' \notin {"arm_run", "arm_join"}
      <3>1. pc \in Location \ {"arm_run", "arm_join", "case_CYCLE_RUN",
                               "case_CYCLE_JOIN"}
        BY DEF Retrying, Backoff, IInv, TypeOK, CaseFitsState, LoopOwnsState,
               InterruptMeetsSleepingLoop, Location
      <3>2. CASE pc' = pc
        BY <3>1, <3>2
      <3>3. CASE pc' # pc
        <4>1. ~Reset
          BY <3>3 DEF vars
        <4> QED
          BY <3>1, <3>3, <4>1, LocationStep DEF NextLocation, Location, IInv
      <3> QED
        BY <3>2, <3>3
    <2> QED
      BY <2>1, <2>2, <2>3
      DEF Retrying, Backoff, IInv, NeverStranded, Parked
  <1>3. IInv /\ Retrying /\ <<TimerInterrupt>>_vars => Tried'
    BY DEF Retrying, Backoff, TimerInterrupt, OnTxNextPacketTimerEvent,
           JoinNetwork, Tried
  <1>4. IInv /\ Backoff /\ pc = "dispatch" => Retrying
    BY DEF Backoff, Retrying, IInv, NeverStranded, Parked
  <1>5. StepsEnabled /\ Retrying /\ pc = "dispatch"
          => ENABLED <<TimerInterrupt>>_vars
    BY DEF StepsEnabled, Retrying, InterruptsEnabled
  <1>6. pc \in {"dispatch", "halted"} => pc = "dispatch" \/ Tried
    BY DEF Tried
  <1>7. Retrying => Backoff
    BY DEF Retrying
  <1> QED
    BY <1>1, <1>2, <1>3, <1>4, <1>5, <1>6, <1>7, LoopTurns, PTL
    DEF Running, Fairness

\* A node that is not reset for ever asks for a session until it has one:
\* JoinKeepsBeingTried.
THEOREM JoinNeverGivenUp ==
  ASSUME MibStatus = {"OK"}
  PROVE  FairSpec /\ []StepsEnabled /\ <>[][~Reset]_vars
           => JoinKeepsBeingTried
  <1>1. IInv =>
          \/ Waits("RESTORE") \/ Waits("START") \/ Waits("JOIN")
          \/ Chosen("RESTORE") \/ Chosen("START") \/ Chosen("JOIN")
          \/ Backoff \/ Tried
    BY DEF IInv, TypeOK, eDeviceState, CaseFitsState, SessionFitsState,
           Waits, Chosen, Backoff, Tried, CaseOf
  <1>2. /\ Outcome("RESTORE") => Chosen("RESTORE") \/ Tried
        /\ Outcome("START") => Chosen("START") \/ Tried
        /\ Outcome("JOIN") => Chosen("JOIN") \/ Tried
        /\ pc = "halted" => Tried
    BY DEF Outcome, Due, Tried
  <1>3. IInv /\ Chosen("RESTORE") /\ [Next]_vars /\ [~Reset]_vars
          => (Chosen("RESTORE") \/ Waits("START") \/ Tried)'
    <2> SUFFICES ASSUME IInv, Chosen("RESTORE"), [Next]_vars, [~Reset]_vars,
                        pc' # pc
                 PROVE  Waits("START")'
      BY InductiveStep DEF Chosen, CaseOf, IInv, CaseFitsState
    <2>1. CaseRestore
      BY StatementStep DEF Chosen, CaseOf, vars
    <2> QED
      BY <2>1 DEF CaseRestore, Waits, CaseOf
  <1>4. IInv /\ Chosen("START") /\ [Next]_vars /\ [~Reset]_vars
          => (Chosen("START") \/ Waits("JOIN") \/ Tried)'
    <2> SUFFICES ASSUME IInv, Chosen("START"), [Next]_vars, [~Reset]_vars,
                        pc' # pc, ~Tried'
                 PROVE  Waits("JOIN")'
      BY InductiveStep DEF Chosen, CaseOf, IInv, CaseFitsState
    <2>1. CaseStart
      BY StatementStep DEF Chosen, CaseOf, vars
    <2> QED
      BY <2>1 DEF CaseStart, Waits, CaseOf, Tried
  <1>5. IInv /\ Chosen("JOIN") /\ [Next]_vars /\ [~Reset]_vars
          => (Chosen("JOIN") \/ Tried)'
    <2> SUFFICES ASSUME IInv, Chosen("JOIN"), [Next]_vars, [~Reset]_vars,
                        pc' # pc
                 PROVE  Tried'
      BY InductiveStep DEF Chosen, CaseOf, IInv, CaseFitsState
    <2>1. CaseJoin
      BY StatementStep DEF Chosen, CaseOf, vars
    <2> QED
      BY <2>1 DEF CaseJoin, JoinNetwork, Tried
  <1>6. IInv /\ <<MainLoop>>_vars
          => /\ Chosen("RESTORE") => ~Chosen("RESTORE")'
             /\ Chosen("START") => ~Chosen("START")'
             /\ Chosen("JOIN") => ~Chosen("JOIN")'
    BY LoopMoves DEF IInv, Chosen, CaseOf
  <1>7. StepsEnabled /\ (Chosen("RESTORE") \/ Chosen("START") \/ Chosen("JOIN"))
          => ENABLED <<MainLoop>>_vars
    BY DEF StepsEnabled, Chosen, CaseOf
  <1>8. JoinKeepsBeingTried <=> []<>Tried
    BY DEF JoinKeepsBeingTried, Tried
  <1> QED
    BY <1>1, <1>2, <1>3, <1>4, <1>5, <1>6, <1>7, <1>8, WaitsEnd, RetryIsMade,
       FairNodeRuns, PTL
    DEF Running, Fairness

-----------------------------------------------------------------------------
(* The MAC's answers arrive                                                *)

\* Between the switch and the next call of LoRaMacProcess.
InCase == pc \in Location \ {"process", "confirm", "indicate", "dispatch"}

\* The loop of a node with a session calls LoRaMacProcess for ever.
LEMMA MacIsServed ==
  Running => (activated ~> (activated /\ pc = "process") \/ ~activated)
  <1>1. IInv /\ activated /\ InCase /\ [Next]_vars
          => (InCase \/ pc = "process" \/ ~activated)'
    <2> SUFFICES ASSUME IInv, InCase, [Next]_vars, activated', pc' # pc
                 PROVE  InCase' \/ pc' = "process"
      BY DEF InCase
    <2>1. ~Reset
      BY DEF Reset
    <2> QED
      BY <2>1, LocationStep, InductiveStep
      DEF InCase, NextLocation, Location, IInv, TypeOK
  <1>2. IInv /\ pc = "dispatch" /\ [Next]_vars
          => (pc = "dispatch" \/ InCase \/ ~activated)'
    <2> SUFFICES ASSUME IInv, pc = "dispatch", [Next]_vars, activated',
                        pc' # pc
                 PROVE  InCase'
      OBVIOUS
    <2>1. ~Reset
      BY DEF Reset
    <2> QED
      BY <2>1, LocationStep DEF InCase, NextLocation, Location, IInv
  <1>3. IInv /\ pc = "dispatch" /\ <<MainLoop>>_vars => ~(pc = "dispatch")'
    BY LoopMoves DEF IInv
  <1>4. StepsEnabled /\ pc = "dispatch" => ENABLED <<MainLoop>>_vars
    BY DEF StepsEnabled
  <1>5. InCase => ~(pc = "dispatch")
    BY DEF InCase
  <1> QED
    BY <1>1, <1>2, <1>3, <1>4, <1>5, SessionLoopTurns, PTL
    DEF Running, Fairness

\* An uplink that the MAC has accepted is confirmed, or the node restarts:
\* UplinkIsAnswered.  No order of the MAC's interrupts and the loop loses the
\* confirmation.
THEOREM UplinkIsConfirmed ==
  FairSpec /\ []StepsEnabled => UplinkIsAnswered
  <1>1. IInv /\ InFlight /\ [Next]_vars => (InFlight \/ Answered)'
    <2> SUFFICES ASSUME IInv, InFlight, [Next]_vars, activated'
                 PROVE  macRequest' \in {"none", "uplink"}
      BY DEF InFlight, Answered
    <2>1. macRequest' \in {"none", "join", "uplink"} /\ macRequest' # "join"
      BY InductiveStep DEF IInv, TypeOK, OneJoinAtATime
    <2> QED
      BY <2>1
  <1>2. IInv /\ InFlight /\ macIrq /\ [Next]_vars
          => (macIrq \/ pc = "confirm" \/ Answered)'
    <2> SUFFICES ASSUME InFlight, macIrq, [Next]_vars, activated', ~macIrq'
                 PROVE  pc' = "confirm"
      BY DEF Answered
    <2>1. ~Reset
      BY DEF Reset
    <2> QED
      BY <2>1
      DEF Next, MainLoop, InitializeMac, Halted, LoRaMacProcess, Callbacks,
          Confirm, RequestContinues, MlmeConfirmJoined, MlmeConfirmFailed,
          McpsConfirm, NoUplinkWanted, McpsIndication, MlmeIndication, Cases,
          Dispatch, CaseRestore, CaseStart, CaseJoin, CaseSend, CaseSendDone,
          CaseCycleJoin, ArmJoin, CaseCycleRun, ArmRun, CaseSleep,
          SleepPending, SleepLowPower, LeaveCritical, TimerInterrupt,
          OnMacProcessNotify, vars, envVars
  <1>3. IInv /\ pc = "process" /\ [Next]_vars
          => (pc = "process" \/ pc = "confirm" \/ ~macIrq \/ Answered)'
    <2> SUFFICES ASSUME IInv, pc = "process", [Next]_vars, activated',
                        pc' # "process"
                 PROVE  pc' = "confirm" \/ ~macIrq'
      BY DEF Answered
    <2> QED
      BY StatementStep DEF Reset, LoRaMacProcess
  <1>4. IInv /\ pc = "process" /\ <<MainLoop>>_vars => ~(pc = "process")'
    BY LoopMoves DEF IInv
  <1>5. StepsEnabled /\ pc = "process" => ENABLED <<MainLoop>>_vars
    BY DEF StepsEnabled
  <1>6. StepsEnabled /\ InFlight /\ pc = "dispatch"
          => macIrq \/ ENABLED <<OnMacProcessNotify>>_vars
    BY DEF StepsEnabled, InFlight, InterruptsEnabled
  <1>7. <<OnMacProcessNotify>>_vars => macIrq'
    BY DEF OnMacProcessNotify
  <1>8. StepsEnabled /\ InFlight /\ pc = "confirm"
          => ENABLED <<Confirm>>_vars
    BY DEF StepsEnabled, InFlight
  <1>9. InFlight /\ <<Confirm>>_vars => Answered'
    BY DEF InFlight, Answered, Confirm, MlmeConfirmJoined,
           MlmeConfirmFailed, McpsConfirm
  <1>10. InFlight => activated /\ ~Answered
    BY DEF InFlight, Answered
  <1>11. ~activated => Answered
    BY DEF Answered
  <1> QED
    BY <1>1, <1>2, <1>3, <1>4, <1>5, <1>6, <1>7, <1>8, <1>9, <1>10, <1>11,
       MacIsServed, SessionLoopTurns, FairNodeRuns, PTL
    DEF Running, Fairness, UplinkIsAnswered
=============================================================================
