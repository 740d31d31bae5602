------------------------- MODULE NodeCountersProofs -------------------------
(***************************************************************************)
(* A node resumes a session that the server has replaced only after two    *)
(* restarts, and catches up with a server that is ahead of it, for any     *)
(* number of restarts and any bound on the counters.                       *)
(***************************************************************************)
EXTENDS NodeCountersProperties, LoRaNodeLivenessProofs

-----------------------------------------------------------------------------
(* A node with counters is a node                                          *)

LEMMA CountersStepIsStep == [CountersNext]_allVars => [Next]_vars
  <1>1. JoinCounters => Next
    BY DEF JoinCounters, Next, MainLoop, Callbacks, Confirm
  <1>2. UplinkCounted => Next
    BY DEF UplinkCounted, Next, MainLoop, Cases
  <1>3. Store => Next
    BY DEF Store, Next, MainLoop, Cases
  <1>4. Restore => Next
    BY DEF Restore, Next, MainLoop, Cases
  <1>5. Forget => Next
    BY DEF Forget, Next
  <1>6. CountersUnchanged => Next
    BY DEF CountersUnchanged, Next, MainLoop, Callbacks, Confirm, Cases
  <1> QED
    BY <1>1, <1>2, <1>3, <1>4, <1>5, <1>6 DEF CountersNext, allVars

\* Whatever is stored, the state machine behaves as LoRaNode says.
THEOREM CountersImplementNode == CountersSpec => Spec
  <1>1. CountersInit => Init
    BY DEF CountersInit
  <1> QED
    BY <1>1, CountersStepIsStep, PTL DEF CountersSpec, Spec

-----------------------------------------------------------------------------
(* The two sessions                                                        *)

LEMMA CountersInvInit == CountersInit => CountersInv
  <1> SUFFICES ASSUME CountersInit
               PROVE  CountersInv
    OBVIOUS
  <1>1. IInv
    BY InductiveInit DEF CountersInit
  <1>2. CountersTypeOK
    BY MaxFramesAssumption DEF CountersInit, CountersTypeOK, Session
  <1>3. SessionsAgree
    BY DEF CountersInit, Init, SessionsAgree
  <1>4. StoredSessionIsUsed /\ ReplacedOnlyAfterTwoRestarts
    BY DEF CountersInit, StoredSessionIsUsed, ReplacedOnlyAfterTwoRestarts
  <1> QED
    BY <1>1, <1>2, <1>3, <1>4 DEF CountersInv

LEMMA BoundedType == \A n \in Nat : Bounded(n) \in 0 .. MaxFrames
  BY MaxFramesAssumption DEF Bounded

\* The steps that leave both sessions alone, and do not end the MAC's.
LEMMA SessionsKept ==
  ASSUME CountersInv, IInv', CountersTypeOK',
         UNCHANGED <<session, stored, activated, nvmSession, resets>>
  PROVE  CountersInv'
  BY DEF CountersInv, SessionsAgree, StoredSessionIsUsed,
         ReplacedOnlyAfterTwoRestarts

LEMMA CountersInvStep == CountersInv /\ [CountersNext]_allVars => CountersInv'
  <1> SUFFICES ASSUME CountersInv, [CountersNext]_allVars
               PROVE  CountersInv'
    OBVIOUS
  <1> USE DEF CountersInv
  <1>1. IInv'
    BY CountersStepIsStep, InductiveStep
  <1>2. resets \in Nat /\ resets' \in Nat
    BY <1>1, MaxResetsAssumption DEF IInv, TypeOK
  <1>3. CASE JoinCounters
    <2>1. macRequest = "join" /\ activated' = TRUE
      BY <1>3 DEF JoinCounters, MlmeConfirmJoined
    <2>2. ~activated
      BY <2>1 DEF IInv, OneJoinAtATime
    <2>3. nvmSession' = nvmSession /\ resets' = resets
      BY <1>3 DEF JoinCounters, MlmeConfirmJoined, envVars
    <2>4. /\ session' = "current"
          /\ stored' = IF stored = "none" THEN "none" ELSE "replaced"
          /\ unstored' = 0 /\ ahead' = 0
      BY <1>3 DEF JoinCounters
    <2>5. CountersTypeOK'
      BY <2>4, MaxFramesAssumption DEF CountersTypeOK, Session
    <2>6. SessionsAgree'
      BY <2>1, <2>3, <2>4 DEF SessionsAgree
    <2>7. StoredSessionIsUsed'
      BY <2>4 DEF StoredSessionIsUsed
    <2>8. ReplacedOnlyAfterTwoRestarts'
      BY <1>2, <2>2, <2>3, <2>4
      DEF SessionsAgree, StoredSessionIsUsed, ReplacedOnlyAfterTwoRestarts
    <2> QED
      BY <1>1, <2>5, <2>6, <2>7, <2>8
  <1>4. CASE UplinkCounted
    <2>1. UNCHANGED <<session, stored, activated, nvmSession, resets>>
      BY <1>4 DEF UplinkCounted, CaseSend, envVars
    <2>2. unstored' \in 0 .. MaxFrames /\ ahead' \in 0 .. MaxFrames
      BY <1>4, BoundedType, MaxFramesAssumption
      DEF UplinkCounted, CountersTypeOK
    <2>3. CountersTypeOK'
      BY <2>1, <2>2 DEF CountersTypeOK
    <2> QED
      BY <1>1, <2>1, <2>3, SessionsKept
  <1>5. CASE Store
    <2>1. UNCHANGED <<session, ahead, activated, resets>>
      BY <1>5 DEF Store, CaseSleep
    <2>2. CASE nvmSession' = activated /\ stored' = session /\ unstored' = 0
      <3>1. CountersTypeOK'
        BY <2>1, <2>2, MaxFramesAssumption DEF CountersTypeOK
      <3>2. SessionsAgree'
        BY <2>1, <2>2 DEF SessionsAgree
      <3>3. StoredSessionIsUsed'
        BY <2>1, <2>2 DEF StoredSessionIsUsed
      <3>4. ReplacedOnlyAfterTwoRestarts'
        BY <1>2, <2>1, <2>2 DEF ReplacedOnlyAfterTwoRestarts
      <3> QED
        BY <1>1, <3>1, <3>2, <3>3, <3>4
    <2>3. CASE nvmSession' = nvmSession /\ UNCHANGED <<stored, unstored>>
      <3>1. CountersTypeOK'
        BY <2>1, <2>3 DEF CountersTypeOK
      <3> QED
        BY <1>1, <2>1, <2>3, <3>1, SessionsKept
    <2> QED
      BY <1>5, <2>2, <2>3 DEF Store
  <1>6. CASE Restore
    <2>1. /\ UNCHANGED <<stored, unstored, ahead, nvmSession, resets>>
          /\ session' = IF activated' THEN stored ELSE "none"
          /\ activated' \in {nvmSession, FALSE}
      BY <1>6 DEF Restore, CaseRestore, envVars
    <2>2. ~activated
      BY <1>6 DEF Restore, CaseRestore, IInv, CaseFitsState, SessionFitsState
    <2>3. CountersTypeOK'
      BY <2>1 DEF CountersTypeOK, Session
    <2>4. SessionsAgree'
      <3>1. CASE activated' = FALSE
        BY <2>1, <3>1 DEF SessionsAgree
      <3>2. CASE activated' = nvmSession
        BY <2>1, <3>2 DEF SessionsAgree
      <3> QED
        BY <2>1, <3>1, <3>2
    <2>5. session = "none"
      BY <2>2 DEF SessionsAgree
    <2>6. StoredSessionIsUsed' /\ ReplacedOnlyAfterTwoRestarts'
      BY <1>2, <2>1, <2>5
      DEF StoredSessionIsUsed, ReplacedOnlyAfterTwoRestarts
    <2> QED
      BY <1>1, <2>3, <2>4, <2>5, <2>6
  <1>7. CASE Forget
    <2>1. /\ UNCHANGED <<stored, nvmSession>>
          /\ session' = "none" /\ unstored' = 0
          /\ activated' = FALSE /\ resets' = resets + 1
      BY <1>7 DEF Forget, Reset
    <2>2. ahead' \in 0 .. MaxFrames
      BY <1>7, BoundedType, MaxFramesAssumption DEF Forget, CountersTypeOK
    <2>3. CountersTypeOK'
      BY <2>1, <2>2, MaxFramesAssumption DEF CountersTypeOK, Session
    <2>4. SessionsAgree'
      BY <2>1 DEF SessionsAgree
    <2>5. StoredSessionIsUsed' /\ ReplacedOnlyAfterTwoRestarts'
      BY <1>2, <2>1 DEF StoredSessionIsUsed, ReplacedOnlyAfterTwoRestarts
    <2> QED
      BY <1>1, <2>3, <2>4, <2>5
  <1>8. CASE CountersUnchanged
    <2>1. UNCHANGED <<session, stored, unstored, ahead>>
      BY <1>8 DEF CountersUnchanged, counterVars
    <2>2. UNCHANGED <<activated, nvmSession, resets>>
      BY <1>8
      DEF CountersUnchanged, InitializeMac, Halted, LoRaMacProcess,
          RequestContinues, MlmeConfirmFailed, McpsConfirm, NoUplinkWanted,
          McpsIndication, MlmeIndication, Dispatch, CaseStart, CaseJoin,
          CaseSendDone, CaseCycleJoin, ArmJoin, CaseCycleRun, ArmRun,
          SleepPending, SleepLowPower, LeaveCritical, TimerInterrupt,
          OnMacProcessNotify, vars, envVars
    <2>3. CountersTypeOK'
      BY <2>1 DEF CountersTypeOK
    <2> QED
      BY <1>1, <2>1, <2>2, <2>3, SessionsKept
  <1>9. CASE UNCHANGED allVars
    <2>1. CountersTypeOK'
      BY <1>9 DEF allVars, counterVars, CountersTypeOK
    <2> QED
      BY <1>1, <1>9, <2>1, SessionsKept DEF allVars, counterVars, vars
  <1> QED
    BY <1>3, <1>4, <1>5, <1>6, <1>7, <1>8, <1>9 DEF CountersNext

\* The sessions of the MAC, of the store and of the server, at every moment
\* (LoRa.c:569, :708).
THEOREM CountersInductive == CountersSpec => []CountersInv
  BY CountersInvInit, CountersInvStep, PTL DEF CountersSpec

\* One restart never makes a node resume a session that the server has
\* replaced (LoRa.c:245, :569, :627, :708).
THEOREM OneRestartIsSafe == CountersSpec => []ReplacedOnlyAfterTwoRestarts
  <1>1. CountersInv => ReplacedOnlyAfterTwoRestarts
    BY DEF CountersInv
  <1> QED
    BY <1>1, CountersInductive, PTL

-----------------------------------------------------------------------------
(* Catching up                                                             *)

\* The server does not get further ahead of a session it knows: only an
\* accepted uplink changes the difference, and a restart ends the session.
LEMMA NeverFallsBehind ==
  ASSUME CountersInv, session = "current", [CountersNext]_allVars,
         session' # "none"
  PROVE  /\ session' = "current"
         /\ ahead' \in {ahead, ahead - 1}
  <1>1. activated
    BY DEF CountersInv, SessionsAgree
  <1>2. ~JoinCounters /\ ~Restore
    BY <1>1
    DEF JoinCounters, MlmeConfirmJoined, Confirm, Restore, CaseRestore,
        CountersInv, IInv, CaseFitsState, SessionFitsState, OneJoinAtATime
  <1> QED
    BY <1>2
    DEF CountersNext, UplinkCounted, Store, Forget, CountersUnchanged,
        counterVars, allVars

\* An idle MAC of a node with a session remains idle until it takes an uplink.
LEMMA IdleUntilCounted ==
  ASSUME CountersInv, session = "current", macRequest = "none",
         [CountersNext]_allVars, session' # "none"
  PROVE  macRequest' = "none" \/ AcceptedAndCounted
  <1>1. activated
    BY DEF CountersInv, SessionsAgree
  <1>2. CASE JoinCounters \/ Restore \/ Store
    BY <1>2
    DEF JoinCounters, MlmeConfirmJoined, Restore, CaseRestore, Store,
        CaseSleep, envVars
  <1>3. CASE UplinkCounted
    <2>1. CASE NextTx
      BY <1>3, <2>1
      DEF UplinkCounted, CaseSend, SendFrame, AcceptedAndCounted, Accepted
    <2>2. CASE ~NextTx
      BY <1>3, <2>2 DEF UplinkCounted, CaseSend
    <2> QED
      BY <2>1, <2>2
  <1>4. CASE Forget
    BY <1>4 DEF Forget
  <1>5. CASE CountersUnchanged
    <2>1. pc # "case_JOIN"
      BY <1>1 DEF CountersInv, IInv, CaseFitsState, SessionFitsState
    <2> QED
      BY <1>1, <1>5, <2>1
      DEF CountersUnchanged, InitializeMac, Halted, LoRaMacProcess,
          RequestContinues, MlmeConfirmFailed, McpsConfirm, NoUplinkWanted,
          McpsIndication, MlmeIndication, Dispatch, CaseStart, CaseJoin,
          CaseSendDone, CaseCycleJoin, ArmJoin, CaseCycleRun, ArmRun,
          SleepPending, SleepLowPower, LeaveCritical, TimerInterrupt,
          OnMacProcessNotify, OnTxNextPacketTimerEvent, vars
  <1>6. CASE UNCHANGED allVars
    BY <1>6 DEF allVars, vars
  <1> QED
    BY <1>2, <1>3, <1>4, <1>5, <1>6 DEF CountersNext

\* Every step of CatchesUp: whatever the server is ahead by, it is ahead by
\* less some time later, or the node restarts.  The MAC becomes idle
\* (UplinkIsConfirmed) and stays so; the attempts keep coming
\* (UplinksNeverCease) until it takes one and counts it.
THEOREM CatchesUpFrameByFrame ==
  ASSUME MibStatus = {"OK"},
         NEW n \in Nat \ {0}
  PROVE  /\ CountersFairSpec
         /\ []CountersStepsEnabled
         /\ SF_allVars(AcceptedAndCounted)
         => (session = "current" /\ ahead = n
               ~> ahead = n - 1 \/ session = "none")
  <1> DEFINE Behind == session = "current" /\ ahead = n
             LessBehind == ahead = n - 1 \/ session = "none"
  <1>1. CountersFairSpec /\ []CountersStepsEnabled
          => /\ FairSpec
             /\ []StepsEnabled
             /\ []CountersInv
    <2>1. CountersStepsEnabled => StepsEnabled
      BY DEF CountersStepsEnabled
    <2> QED
      BY <2>1, CountersImplementNode, CountersInductive, PTL
      DEF CountersFairSpec, FairSpec
  <1>2. CountersInv /\ Behind /\ [CountersNext]_allVars
          => (Behind \/ LessBehind)'
    BY NeverFallsBehind
  <1>3. CountersInv /\ Behind /\ macRequest = "none"
          /\ [CountersNext]_allVars => (macRequest = "none" \/ LessBehind)'
    BY IdleUntilCounted, NeverFallsBehind
    DEF AcceptedAndCounted, Accepted, UplinkCounted
  <1>4. CountersInv /\ Behind => activated
    BY DEF CountersInv, SessionsAgree
  <1>5. CountersInv /\ Behind => InFlight \/ macRequest = "none"
    BY <1>4 DEF CountersInv, IInv, TypeOK, OneJoinAtATime, InFlight
  <1>6. Answered => macRequest = "none" \/ ~activated
    BY DEF Answered
  <1>7. CountersInv /\ CountersStepsEnabled /\ Behind /\ pc = "case_SEND"
          /\ macRequest = "none" => ENABLED <<AcceptedAndCounted>>_allVars
    BY DEF CountersInv, IInv, CaseFitsState, DueUplinkCanBeSent,
           CountersStepsEnabled
  <1>8. CountersInv /\ Behind /\ <<AcceptedAndCounted>>_allVars => LessBehind'
    BY DEF AcceptedAndCounted, Accepted, UplinkCounted
  <1> HIDE DEF Behind, LessBehind
  <1>9. CountersFairSpec /\ []CountersStepsEnabled
          /\ SF_allVars(AcceptedAndCounted) => (Behind ~> LessBehind)
    BY <1>1, <1>2, <1>3, <1>4, <1>5, <1>6, <1>7, <1>8, UplinksNeverCease,
       UplinkIsConfirmed, PTL
    DEF CountersFairSpec, CountersSpec, UplinksKeepComing,
        UplinkIsAnswered
  <1> QED
    BY <1>9, PTL DEF Behind, LessBehind
=============================================================================
