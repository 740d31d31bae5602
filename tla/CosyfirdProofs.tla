--------------------------- MODULE CosyfirdProofs ---------------------------
(***************************************************************************)
(* The daemon's safety properties, for every set of messages, every number *)
(* of topics and every number of deliveries.  The argument is the          *)
(* inductive invariant IInv of CosyfirdProperties, which TLC checks too.   *)
(***************************************************************************)
EXTENDS CosyfirdProperties, TLAPS

-----------------------------------------------------------------------------
(* Type correctness                                                        *)

\* The program starts with every variable in its type.
LEMMA TypeInit == Init => TypeOK
  <1> SUFFICES ASSUME Init PROVE TypeOK
    OBVIOUS
  <1>1. DataOK
    BY NTopicsAssumption, MaxDeliveriesAssumption
    DEF Init, DataOK, MainLocation, NetLocation
  <1>2. FlagsOK
    BY Zenon DEF Init, FlagsOK
  <1> QED
    BY <1>1, <1>2 DEF TypeOK

\* No step of either thread takes a location, a window or a counter out of
\* its type.
LEMMA DataStep == DataOK /\ [Next]_vars => DataOK'
  <1> SUFFICES ASSUME DataOK, [Next]_vars PROVE DataOK'
    OBVIOUS
  <1> USE DEF DataOK, MainLocation, NetLocation, mainVars, windows, library
  <1>1. CASE Main
    BY <1>1
    DEF Main, HandleArgs, LoadFile, GetEmptyConfig,
        GetMqttConfig, ConstructClient, TestRunning, OtherKey,
        QuitDisconnect, QuitLoopStop, QuitJoin, CheckException, Linger,
        Unwind, DestroyBase, Catch
  <1>2. CASE User \/ Crash
    BY <1>2 DEF User, QuitKey, WaitForExit, Crash
  <1>3. CASE Callback
    BY <1>3, NTopicsAssumption
    DEF NetUnchanged, Callback, Subscribe, ParseMessage, DisplayMessage,
        DisplayPayload, PayloadOf, SaveException, NotifyMain, NetDisconnect,
        NetLoopStop
  <1>4. CASE Library
    BY <1>4, NTopicsAssumption, MaxDeliveriesAssumption
    DEF NetUnchanged, Library, OnConnect, OnMessage, ConnectionLost,
        NetworkThreadEnds, LibraryGivesUp
  <1>5. CASE UNCHANGED vars
    BY <1>5 DEF vars
  <1> QED
    BY <1>1, <1>2, <1>3, <1>4, <1>5 DEF Next, Network, Terminated

\* Nor does it make a flag anything but TRUE or FALSE.
LEMMA FlagsStep == FlagsOK /\ [Next]_vars => FlagsOK'
  <1> SUFFICES ASSUME FlagsOK, [Next]_vars PROVE FlagsOK'
    OBVIOUS
  <1> USE DEF FlagsOK, mainVars, windows, library
  <1>1. CASE Main
    BY <1>1, Zenon
    DEF Main, HandleArgs, LoadFile, GetEmptyConfig,
        GetMqttConfig, ConstructClient, TestRunning, OtherKey,
        QuitDisconnect, QuitLoopStop, QuitJoin, CheckException, Linger,
        Unwind, DestroyBase, Catch
  <1>2. CASE User \/ Crash
    BY <1>2, Zenon DEF User, QuitKey, WaitForExit, Crash
  <1>3. CASE Callback
    BY <1>3, Zenon
    DEF NetUnchanged, Callback, Subscribe, ParseMessage, DisplayMessage,
        DisplayPayload, SaveException, NotifyMain, NetDisconnect, NetLoopStop
  <1>4. CASE Library
    BY <1>4, Zenon
    DEF NetUnchanged, Library, OnConnect, OnMessage, ConnectionLost,
        NetworkThreadEnds, LibraryGivesUp
  <1>5. CASE UNCHANGED vars
    BY <1>5, Zenon DEF vars
  <1> QED
    BY <1>1, <1>2, <1>3, <1>4, <1>5 DEF Next, Network, Terminated

\* Every variable keeps its type in every reachable state.
THEOREM TypeCorrect == Spec => []TypeOK
  <1>1. TypeOK /\ [Next]_vars => TypeOK'
    BY DataStep, FlagsStep DEF TypeOK
  <1> QED
    BY <1>1, TypeInit, PTL DEF Spec

-----------------------------------------------------------------------------
(* The inductive invariant                                                 *)

\* The invariant holds when the program starts.
LEMMA InductiveInit == Init => IInv
  <1> SUFFICES ASSUME Init PROVE IInv
    OBVIOUS
  <1>1. TypeOK
    BY TypeInit
  <1>2. ThreadHasClient /\ StopHasReason /\ JoinableUnlessFailed
    BY DEF Init, ThreadHasClient, StopHasReason, JoinableUnlessFailed,
           Forwarding, Starting
  <1>3. Joined /\ ExitFitsLocation /\ DestroyedForReason /\ LeavesForGood
    BY DEF Init, Joined, ExitFitsLocation, DestroyedForReason, LeavesForGood,
           NetworkStopped
  <1>4. NoSilentShutdown /\ SubscribedOrGone /\ SubscribedWhenCalled
    BY DEF Init, NoSilentShutdown, SubscribedOrGone, SubscribedWhenCalled
  <1>5. WindowsWhenCalled /\ PayloadFitsMessage
    BY DEF Init, WindowsWhenCalled, PayloadFitsMessage
  <1> QED
    BY <1>1, <1>2, <1>3, <1>4, <1>5 DEF IInv

\* Every statement of the main thread preserves the invariant.
LEMMA MainPreserves ==
  ASSUME IInv, TypeOK', Main \/ User \/ Crash PROVE IInv'
  <1> USE DEF IInv, ThreadHasClient, StopHasReason, JoinableUnlessFailed,
              Joined, ExitFitsLocation, DestroyedForReason,
              LeavesForGood, NoSilentShutdown, SubscribedOrGone,
              SubscribedWhenCalled, WindowsWhenCalled, PayloadFitsMessage,
              NetworkStopped, Forwarding, Starting, mainVars, windows, library
  <1>1. CASE HandleArgs
    BY <1>1 DEF HandleArgs
  <1>2. CASE LoadFile \/ GetEmptyConfig \/ GetMqttConfig
    BY <1>2 DEF LoadFile, GetEmptyConfig, GetMqttConfig
  <1>3. CASE ConstructClient
    BY <1>3 DEF ConstructClient
  <1>4. CASE TestRunning
    BY <1>4 DEF TestRunning
  <1>5. CASE OtherKey
    BY <1>5 DEF OtherKey
  <1>6. CASE QuitDisconnect
    BY <1>6 DEF QuitDisconnect
  <1>7. CASE QuitLoopStop
    BY <1>7 DEF QuitLoopStop
  <1>8. CASE QuitJoin
    BY <1>8 DEF QuitJoin
  <1>9. CASE CheckException
    BY <1>9 DEF CheckException
  <1>10. CASE Linger
    BY <1>10 DEF Linger
  <1>11. CASE Unwind
    BY <1>11 DEF Unwind
  <1>12. CASE DestroyBase
    BY <1>12 DEF DestroyBase
  <1>13. CASE Catch
    BY <1>13 DEF Catch
  <1>14. CASE QuitKey
    BY <1>14 DEF QuitKey
  <1>15. CASE WaitForExit
    BY <1>15 DEF WaitForExit
  <1>16. CASE Crash
    BY <1>16 DEF Crash
  <1> QED
    BY <1>1, <1>2, <1>3, <1>4, <1>5, <1>6, <1>7, <1>8, <1>9, <1>10, <1>11,
       <1>12, <1>13, <1>14, <1>15, <1>16
    DEF Main, User

\* So does everything that happens in the network thread.
LEMMA NetworkPreserves ==
  ASSUME IInv, TypeOK', Network PROVE IInv'
  <1> USE DEF IInv, ThreadHasClient, StopHasReason, JoinableUnlessFailed,
              Joined, ExitFitsLocation, DestroyedForReason,
              LeavesForGood, NoSilentShutdown, SubscribedOrGone,
              SubscribedWhenCalled, WindowsWhenCalled, PayloadFitsMessage,
              NetworkStopped, Forwarding, Starting, mainVars, windows,
              NetUnchanged
  <1>1. CASE Subscribe
    BY <1>1 DEF Subscribe
  <1>2. CASE ParseMessage
    BY <1>2 DEF ParseMessage
  <1>3. CASE DisplayMessage
    BY <1>3 DEF DisplayMessage
  <1>4. CASE DisplayPayload
    BY <1>4 DEF DisplayPayload
  <1>5. CASE SaveException
    BY <1>5 DEF SaveException
  <1>6. CASE NotifyMain
    BY <1>6 DEF NotifyMain
  <1>7. CASE NetDisconnect
    BY <1>7 DEF NetDisconnect
  <1>8. CASE NetLoopStop
    BY <1>8 DEF NetLoopStop
  <1>9. CASE OnConnect
    BY <1>9 DEF OnConnect
  <1>10. CASE OnMessage
    BY <1>10 DEF OnMessage
  <1>11. CASE ConnectionLost
    BY <1>11 DEF ConnectionLost
  <1>12. CASE NetworkThreadEnds
    BY <1>12 DEF NetworkThreadEnds
  <1>13. CASE LibraryGivesUp
    BY <1>13 DEF LibraryGivesUp
  <1> QED
    BY <1>1, <1>2, <1>3, <1>4, <1>5, <1>6, <1>7, <1>8, <1>9, <1>10, <1>11,
       <1>12, <1>13
    DEF Network, Callback, Library

\* The invariant holds in every reachable state.
THEOREM Inductive == Spec => []IInv
  <1>1. IInv /\ [Next]_vars => IInv'
    <2> SUFFICES ASSUME IInv, [Next]_vars PROVE IInv'
      OBVIOUS
    <2>1. TypeOK'
      BY DataStep, FlagsStep DEF IInv, TypeOK
    <2>2. CASE UNCHANGED vars
      BY <2>1, <2>2
      DEF vars, mainVars, windows, library, IInv, ThreadHasClient,
          StopHasReason, JoinableUnlessFailed, Joined, ExitFitsLocation,
          DestroyedForReason, LeavesForGood, NoSilentShutdown,
          SubscribedOrGone, SubscribedWhenCalled, WindowsWhenCalled,
          PayloadFitsMessage, NetworkStopped, Forwarding, Starting
    <2> QED
      BY <2>1, <2>2, MainPreserves, NetworkPreserves DEF Next, Terminated
  <1> QED
    BY <1>1, InductiveInit, PTL DEF Spec

-----------------------------------------------------------------------------
(* What follows from the invariant                                         *)

\* EXIT_SUCCESS means that the network thread has ended and left no exception.
THEOREM SuccessIsClean == Spec => []CleanExit
  <1>1. IInv => CleanExit
    BY DEF IInv, Joined, CleanExit
  <1> QED
    BY <1>1, Inductive, PTL

\* Without an exception the daemon stops only after 'q'.
THEOREM ShutdownHasReason == Spec => []NoSilentShutdown
  <1>1. IInv => NoSilentShutdown
    BY DEF IInv
  <1> QED
    BY <1>1, Inductive, PTL

\* The main thread finds the exception it looks for: ExceptionIsSettled.
THEOREM NoExceptionIsMissed == Spec => []ExceptionIsSettled
  <1>1. IInv => ExceptionIsSettled
    BY DEF IInv, StopHasReason, ThreadHasClient, Joined, NetworkStopped,
           ExceptionIsSettled
  <1> QED
    BY <1>1, Inductive, PTL

\* A connected client has asked for every topic, or is going down.
THEOREM Subscribed == Spec => []SubscribedOrGone
  <1>1. IInv => SubscribedOrGone
    BY DEF IInv
  <1> QED
    BY <1>1, Inductive, PTL

\* The windows show the same message, or the daemon is going down.
THEOREM WindowsAgree == Spec => []PayloadFitsMessage
  <1>1. IInv => PayloadFitsMessage
    BY DEF IInv
  <1> QED
    BY <1>1, Inductive, PTL

-----------------------------------------------------------------------------
(* The contract                                                            *)

\* A statement of the main thread is a step of the contract or a stutter.
LEMMA MainRefines ==
  ASSUME IInv, Main \/ User \/ Crash
  PROVE  [Contract!Next]_(Contract!vars)
  <1> USE DEF IInv, TypeOK, DataOK, ThreadHasClient, StopHasReason, Joined,
              ExitFitsLocation, DestroyedForReason, NoSilentShutdown,
              NetworkStopped, Starting,
              JoinableUnlessFailed, Forwarding,
              mainVars, library, ContractPhase, ContractStatus,
              Contract!vars, Contract!Next, Contract!Move, Contract!End
  <1>1. CASE HandleArgs
    BY <1>1 DEF HandleArgs, Contract!Inform
  <1>2. CASE LoadFile \/ GetEmptyConfig \/ GetMqttConfig
    BY <1>2 DEF LoadFile, GetEmptyConfig, GetMqttConfig, Contract!Fail
  <1>3. CASE ConstructClient
    BY <1>3 DEF ConstructClient, Contract!Serve, Contract!Fail
  <1>4. CASE TestRunning
    BY <1>4 DEF TestRunning
  <1>5. CASE OtherKey
    BY <1>5 DEF OtherKey
  <1>6. CASE QuitDisconnect
    BY <1>6 DEF QuitDisconnect
  <1>7. CASE QuitLoopStop
    BY <1>7 DEF QuitLoopStop
  <1>8. CASE QuitJoin
    BY <1>8 DEF QuitJoin
  <1>9. CASE CheckException
    BY <1>9 DEF CheckException
  <1>10. CASE Linger
    BY <1>10 DEF Linger
  <1>11. CASE Unwind
    BY <1>11 DEF Unwind
  <1>12. CASE DestroyBase
    BY <1>12 DEF DestroyBase, Contract!Leave
  <1>13. CASE Catch
    BY <1>13 DEF Catch, Contract!Report
  <1>14. CASE QuitKey
    BY <1>14 DEF QuitKey, Contract!Quit
  <1>15. CASE WaitForExit
    BY <1>15 DEF WaitForExit, Contract!Confirm
  <1>16. CASE Crash
    BY <1>16 DEF Crash, Contract!Crash
  <1> QED
    BY <1>1, <1>2, <1>3, <1>4, <1>5, <1>6, <1>7, <1>8, <1>9, <1>10, <1>11,
       <1>12, <1>13, <1>14, <1>15, <1>16
    DEF Main, User

\* Of the network thread only the saved exception can be seen in the contract.
LEMMA NetworkRefines ==
  ASSUME IInv, Network
  PROVE  [Contract!Next]_(Contract!vars)
  <1> USE DEF NetUnchanged, mainVars, ContractPhase, ContractStatus,
              Contract!vars
  <1>1. CASE SaveException
    BY <1>1 DEF SaveException, IInv, TypeOK, DataOK, MainLocation,
                ThreadHasClient, Joined, ExitFitsLocation,
                DestroyedForReason, NetworkStopped,
                Starting, Network, Contract!Next, Contract!Fail, Contract!Move
  <1>2. ASSUME Callback \/ Library, ~SaveException
        PROVE  UNCHANGED <<mainVars, client, m_exceptionPointer>>
    <2>1. CASE Callback
      BY <1>2, <2>1 DEF Callback, Subscribe, ParseMessage, DisplayMessage,
         DisplayPayload, NotifyMain, NetDisconnect, NetLoopStop
    <2>2. CASE Library
      BY <2>2 DEF Library, OnConnect, OnMessage, ConnectionLost,
         NetworkThreadEnds, LibraryGivesUp
    <2> QED
      BY <1>2, <2>1, <2>2
  <1> QED
    BY <1>1, <1>2 DEF Network

\* The daemon implements the safety part of its contract (app.cpp:85-172,
\* mqttclient.cpp:90-213).
THEOREM DaemonRefinesContract == Spec => Contract!Spec
  <1>1. Init => Contract!Init
    BY DEF Init, Contract!Init, ContractPhase, ContractStatus
  <1>2. IInv /\ [Next]_vars => [Contract!Next]_(Contract!vars)
    <2> SUFFICES ASSUME IInv, [Next]_vars
                 PROVE  [Contract!Next]_(Contract!vars)
      OBVIOUS
    <2>1. CASE UNCHANGED vars
      BY <2>1 DEF vars, mainVars, windows, library, ContractPhase,
                  ContractStatus, Contract!vars
    <2> QED
      BY <2>1, MainRefines, NetworkRefines DEF Next, Terminated
  <1> QED
    BY <1>1, <1>2, Inductive, PTL DEF Spec, Contract!Spec

-----------------------------------------------------------------------------
(* Liveness: callbacks return                                              *)

\* What is true of every rest of a fair behaviour.  Where the actions of
\* Fairness are enabled is taken from StepsEnabled, which TLC checks.
Running == [][Next]_vars /\ []IInv /\ []StepsEnabled /\ Fairness

\* A fair behaviour runs like that from its first state on.
LEMMA FairDaemonRuns == FairSpec /\ []StepsEnabled => Running
  BY Inductive, PTL DEF FairSpec, Spec, Running

\* How many statements a callback has left, at most.
CallbackDistance ==
  [none       |-> 0,
   library    |-> 0,
   ended      |-> 0,
   loop_stop  |-> 1,
   disconnect |-> 2,
   flag       |-> 3,
   save       |-> 4,
   payload    |-> 5,
   display    |-> 6,
   parse      |-> 7,
   subscribe  |-> 8]

NetDistance ==
  IF netPc = "subscribe" THEN 8 + (NTopics - subscribed)
  ELSE CallbackDistance[netPc]

NetAway(n) == NetDistance = n
NetCloser(n) == NetDistance < n

\* A callback that has n statements left gets on, and nothing throws it back.
Returns(n) ==
  /\ IInv /\ NetAway(n) /\ [Next]_vars => (NetAway(n) \/ NetCloser(n))'
  /\ IInv /\ NetAway(n) /\ <<mainPc # "done" /\ Callback>>_vars => NetCloser(n)'
  /\ IInv /\ NetAway(n) /\ StepsEnabled =>
       mainPc = "done" \/ ENABLED <<mainPc # "done" /\ Callback>>_vars

\* Every statement of a callback leaves fewer of them.
LEMMA CallbackGetsOn ==
  ASSUME IInv, Callback PROVE NetDistance' < NetDistance
  <1> USE NTopicsAssumption
      DEF IInv, TypeOK, DataOK, NetDistance, CallbackDistance, library
  <1>1. CASE Subscribe
    BY <1>1 DEF Subscribe
  <1>2. CASE ParseMessage \/ DisplayMessage \/ DisplayPayload
    BY <1>2 DEF ParseMessage, DisplayMessage, DisplayPayload
  <1>3. CASE SaveException \/ NotifyMain \/ NetDisconnect \/ NetLoopStop
    BY <1>3 DEF SaveException, NotifyMain, NetDisconnect, NetLoopStop
  <1> QED
    BY <1>1, <1>2, <1>3 DEF Callback

\* So a callback comes closer to its return wherever it stands.
LEMMA CallbackReturns == \A n \in Nat \ {0} : Returns(n)
  <1> SUFFICES ASSUME NEW n \in Nat \ {0} PROVE Returns(n)
    OBVIOUS
  <1>1. IInv /\ NetAway(n) => netPc \notin {"none", "library", "ended"}
    BY DEF NetAway, NetDistance, CallbackDistance
  <1>2. ASSUME IInv, NetAway(n), [Next]_vars
        PROVE  NetAway(n)' \/ NetCloser(n)'
    <2>1. CASE UNCHANGED <<netPc, subscribed>>
      BY <1>2, <2>1 DEF NetAway, NetDistance
    <2>2. CASE Callback
      BY <1>2, <2>2, CallbackGetsOn DEF NetAway, NetCloser
    <2>3. CASE Main /\ ~ UNCHANGED <<netPc, subscribed>>
      <3>1. netPc' = "ended"
        BY <1>1, <1>2, <2>3
        DEF Main, HandleArgs, LoadFile, GetEmptyConfig, GetMqttConfig,
            ConstructClient, TestRunning, OtherKey, QuitDisconnect,
            QuitLoopStop, QuitJoin, CheckException, Linger, Unwind,
            DestroyBase, Catch, IInv, ThreadHasClient, Starting, library
      <3> QED
        BY <3>1 DEF NetCloser, NetDistance, CallbackDistance
    <2> QED
      BY <1>1, <1>2, <2>1, <2>2, <2>3
      DEF Next, User, QuitKey, WaitForExit, Crash, Network, Library,
          OnConnect, OnMessage, ConnectionLost, NetworkThreadEnds,
          LibraryGivesUp, Terminated, vars, library
  <1>3. IInv /\ NetAway(n) /\ <<mainPc # "done" /\ Callback>>_vars
          => NetCloser(n)'
    BY CallbackGetsOn DEF NetAway, NetCloser
  <1>4. IInv /\ NetAway(n) /\ StepsEnabled =>
          mainPc = "done" \/ ENABLED <<mainPc # "done" /\ Callback>>_vars
    BY <1>1 DEF StepsEnabled
  <1> QED
    BY <1>2, <1>3, <1>4 DEF Returns

\* The network thread comes back to the library for ever.  The code has five
\* topics to subscribe to (mqttclient.hpp:63-74).
LEMMA LibraryRegained ==
  ASSUME NTopics <= 5
  PROVE  Running => []<>(netPc \in {"none", "library", "ended"}
                           \/ mainPc = "done")
  <1>1. NTopics \in 0 .. 5
    BY NTopicsAssumption
  <1>2. IInv => /\ netPc \in NetLocation
                /\ NTopics - subscribed \in 0 .. 5
    BY <1>1 DEF IInv, TypeOK, DataOK
  <1>3. IInv => NetDistance \in 0 .. 13
    BY <1>2 DEF NetLocation, NetDistance, CallbackDistance
  <1>4. IInv => /\ NetAway(13) \/ NetCloser(13)
                /\ NetCloser(13) => NetAway(12) \/ NetCloser(12)
                /\ NetCloser(12) => NetAway(11) \/ NetCloser(11)
                /\ NetCloser(11) => NetAway(10) \/ NetCloser(10)
                /\ NetCloser(10) => NetAway(9) \/ NetCloser(9)
                /\ NetCloser(9) => NetAway(8) \/ NetCloser(8)
                /\ NetCloser(8) => NetAway(7) \/ NetCloser(7)
                /\ NetCloser(7) => NetAway(6) \/ NetCloser(6)
                /\ NetCloser(6) => NetAway(5) \/ NetCloser(5)
                /\ NetCloser(5) => NetAway(4) \/ NetCloser(4)
                /\ NetCloser(4) => NetAway(3) \/ NetCloser(3)
                /\ NetCloser(3) => NetAway(2) \/ NetCloser(2)
                /\ NetCloser(2) => NetAway(1) \/ NetCloser(1)
    BY <1>3 DEF NetAway, NetCloser
  <1>5. IInv /\ NetCloser(1) => netPc \in {"none", "library", "ended"}
    BY <1>2 DEF NetLocation, NetCloser, NetDistance, CallbackDistance
  <1>6. /\ Returns(1) /\ Returns(2) /\ Returns(3) /\ Returns(4) /\ Returns(5)
        /\ Returns(6) /\ Returns(7) /\ Returns(8) /\ Returns(9) /\ Returns(10)
        /\ Returns(11) /\ Returns(12) /\ Returns(13)
    BY CallbackReturns
  <1> QED
    BY <1>4, <1>5, <1>6, PTL DEF Returns, Running, Fairness

-----------------------------------------------------------------------------
(* Liveness: the main thread leaves                                        *)

\* The daemon is on its way out: m_running is never set again.
Stopping == client # "none" /\ ~m_running

\* How many statements App::run has left then, at most, before it returns or
\* waits for the user.
RunDistance ==
  [wait_exit    |-> 0,
   done         |-> 0,
   catch        |-> 1,
   destroy      |-> 2,
   linger       |-> 3,
   unwind       |-> 3,
   check        |-> 4,
   loop         |-> 5,
   q_join       |-> 6,
   q_loop_stop  |-> 7,
   q_disconnect |-> 8,
   key          |-> 9]

OnWayOut == Stopping /\ mainPc \in DOMAIN RunDistance
RunAway(n) == OnWayOut /\ RunDistance[mainPc] = n
RunCloser(n) == OnWayOut /\ RunDistance[mainPc] < n

\* Nothing takes a program back that is on its way out.
LEMMA StoppingForGood ==
  ASSUME IInv, Stopping, [Next]_vars
  PROVE  Stopping' /\ (mainPc' = mainPc \/ Main \/ Crash \/ User)
  BY DEF IInv, ThreadHasClient, Starting, Stopping, Next, Main, HandleArgs,
         LoadFile, GetEmptyConfig, GetMqttConfig, ConstructClient,
         TestRunning, OtherKey, QuitDisconnect, QuitLoopStop, QuitJoin,
         CheckException, Linger, Unwind, DestroyBase, Catch, User, QuitKey,
         WaitForExit, Crash, Network, Callback, Subscribe, ParseMessage,
         DisplayMessage, DisplayPayload, SaveException, NotifyMain,
         NetDisconnect, NetLoopStop, Library, OnConnect, OnMessage,
         ConnectionLost, NetworkThreadEnds, LibraryGivesUp, NetUnchanged,
         Terminated, mainVars, windows, library, vars

\* Every statement of the main thread leaves fewer of them.
LEMMA MainGetsOn ==
  ASSUME IInv, Stopping, mainPc \notin {"wait_exit", "done"},
         Main \/ Crash \/ User
  PROVE  /\ {mainPc, mainPc'} \subseteq DOMAIN RunDistance
         /\ RunDistance[mainPc'] < RunDistance[mainPc]
  <1> USE DEF IInv, RunDistance
  <1>1. ~Starting
    BY DEF Stopping, ThreadHasClient
  <1>2. CASE TestRunning
    BY <1>2 DEF TestRunning, Stopping
  <1>3. CASE OtherKey \/ QuitKey
    BY <1>3 DEF OtherKey, QuitKey
  <1>4. CASE QuitDisconnect \/ QuitLoopStop \/ QuitJoin
    BY <1>4 DEF QuitDisconnect, QuitLoopStop, QuitJoin
  <1>5. CASE CheckException \/ Linger \/ Unwind
    BY <1>5 DEF CheckException, Linger, Unwind
  <1>6. CASE DestroyBase \/ Catch
    BY <1>6 DEF DestroyBase, Catch
  <1>7. CASE Crash
    <2>1. mainPc' = "done" /\ client = "destroyed"
      BY <1>7 DEF Crash
    <2>2. mainPc \in {"destroy", "catch"}
      BY <1>1, <2>1 DEF TypeOK, DataOK, MainLocation, ThreadHasClient, Starting
    <2> QED
      BY <2>1, <2>2
  <1> QED
    BY <1>1, <1>2, <1>3, <1>4, <1>5, <1>6, <1>7
    DEF Main, User, HandleArgs, LoadFile, GetEmptyConfig, GetMqttConfig,
        ConstructClient, WaitForExit, Starting

\* From n statements before the end the main thread gets on.
Leaves(n) ==
  /\ IInv /\ RunAway(n) /\ [Next]_vars => (RunAway(n) \/ RunCloser(n))'
  /\ IInv /\ RunAway(n) /\ <<Main>>_vars => RunCloser(n)'
  /\ IInv /\ RunAway(n) /\ StepsEnabled =>
       mainPc = "q_join" \/ ENABLED <<Main>>_vars

\* It does so everywhere but in loop_stop, where it waits for the other thread.
LEMMA MainLeaves == \A n \in 1 .. 9 : Leaves(n)
  <1> SUFFICES ASSUME NEW n \in 1 .. 9 PROVE Leaves(n)
    OBVIOUS
  <1>1. RunAway(n) => Stopping /\ mainPc \notin {"wait_exit", "done"}
    BY DEF OnWayOut, RunAway, RunDistance
  <1>2. ASSUME IInv, RunAway(n), [Next]_vars
        PROVE  RunAway(n)' \/ RunCloser(n)'
    <2>1. CASE mainPc' = mainPc
      BY <1>1, <1>2, <2>1, StoppingForGood DEF OnWayOut, RunAway
    <2>2. CASE Main \/ Crash \/ User
      BY <1>1, <1>2, <2>2, StoppingForGood, MainGetsOn
      DEF OnWayOut, RunAway, RunCloser
    <2> QED
      BY <1>1, <1>2, <2>1, <2>2, StoppingForGood
  <1>3. IInv /\ RunAway(n) /\ <<Main>>_vars => RunCloser(n)'
    BY <1>1, StoppingForGood, MainGetsOn DEF OnWayOut, RunAway, RunCloser, Next
  <1>4. IInv /\ RunAway(n) /\ StepsEnabled =>
          mainPc = "q_join" \/ ENABLED <<Main>>_vars
    BY <1>1 DEF StepsEnabled
  <1> QED
    BY <1>2, <1>3, <1>4 DEF Leaves

\* client.loop_stop() returns: the network thread, told to disconnect, ends,
\* unless messages that were received before are delivered without end.
LEMMA ThreadIsJoined ==
  ASSUME NTopics <= 5
  PROVE  Running /\ <>[][~OnMessage]_vars
           => (mainPc = "q_join" ~> ~(mainPc = "q_join"))
  <1> DEFINE Joining == mainPc = "q_join"
             InLibrary == netPc = "library"
             Ended == netPc = "ended"
  <1>1. IInv /\ Joining /\ InLibrary /\ [Next]_vars /\ [~OnMessage]_vars
          => (InLibrary \/ Ended \/ ~Joining)'
    <2> SUFFICES ASSUME IInv, Joining, InLibrary, [Next]_vars,
                        [~OnMessage]_vars, netPc' # "library", Joining'
                 PROVE  netPc' = "ended"
      OBVIOUS
    <2>1. disconnecting
      BY DEF IInv, LeavesForGood
    <2> QED
      BY <2>1
      DEF Next, Main, HandleArgs, LoadFile, GetEmptyConfig, GetMqttConfig,
          ConstructClient, TestRunning, OtherKey, QuitDisconnect,
          QuitLoopStop, QuitJoin, CheckException, Linger, Unwind,
          DestroyBase, Catch, User, QuitKey, WaitForExit, Crash, Network,
          Callback, Subscribe, ParseMessage, DisplayMessage, DisplayPayload,
          SaveException, NotifyMain, NetDisconnect, NetLoopStop, Library,
          OnConnect, ConnectionLost, NetworkThreadEnds, LibraryGivesUp,
          Terminated, vars
  <1>2. <<mainPc # "done" /\ NetworkThreadEnds>>_vars => Ended'
    BY DEF NetworkThreadEnds
  <1>3. IInv /\ StepsEnabled /\ Joining /\ InLibrary
          => ENABLED <<mainPc # "done" /\ NetworkThreadEnds>>_vars
    BY DEF StepsEnabled, IInv, LeavesForGood
  <1>4. IInv /\ Joining /\ Ended /\ [Next]_vars => (Ended \/ ~Joining)'
    BY DEF Next, Main, HandleArgs, LoadFile, GetEmptyConfig, GetMqttConfig,
           ConstructClient, TestRunning, OtherKey, QuitDisconnect,
           QuitLoopStop, QuitJoin, CheckException, Linger, Unwind,
           DestroyBase, Catch, User, QuitKey, WaitForExit, Crash, Network,
           Callback, Subscribe, ParseMessage, DisplayMessage, DisplayPayload,
           SaveException, NotifyMain, NetDisconnect, NetLoopStop, Library,
           OnConnect, OnMessage, ConnectionLost, NetworkThreadEnds,
           LibraryGivesUp, Terminated, vars, mainVars
  <1>5. Joining /\ <<Main>>_vars => ~Joining'
    BY DEF Main, HandleArgs, LoadFile, GetEmptyConfig, GetMqttConfig,
           ConstructClient, TestRunning, OtherKey, QuitDisconnect,
           QuitLoopStop, QuitJoin, CheckException, Linger, Unwind,
           DestroyBase, Catch
  <1>6. StepsEnabled /\ Joining /\ Ended => ENABLED <<Main>>_vars
    BY DEF StepsEnabled
  <1>7. IInv /\ Joining /\ (netPc \in {"none", "library", "ended"}
                            \/ mainPc = "done")
          => InLibrary \/ Ended
    BY DEF IInv, ThreadHasClient
  <1>8. Joining <=> mainPc = "q_join"
    OBVIOUS
  <1> HIDE DEF Joining, InLibrary, Ended
  <1> QED
    BY <1>1, <1>2, <1>3, <1>4, <1>5, <1>6, <1>7, <1>8, LibraryRegained, PTL
    DEF Running, Fairness

\* A daemon that is on its way out comes to its end or to the prompt.
LEMMA StoppingStops ==
  ASSUME NTopics <= 5
  PROVE  Running /\ <>[][~OnMessage]_vars => (Stopping ~> RunCloser(1))
  <1>1. /\ Leaves(1) /\ Leaves(2) /\ Leaves(3) /\ Leaves(4) /\ Leaves(5)
        /\ Leaves(6) /\ Leaves(7) /\ Leaves(8) /\ Leaves(9)
    BY MainLeaves
  <1>2. IInv /\ Stopping => mainPc \in DOMAIN RunDistance
    BY DEF IInv, TypeOK, DataOK, MainLocation, ThreadHasClient, Starting,
           Stopping, RunDistance
  <1>3. IInv => /\ Stopping => RunAway(9) \/ RunCloser(9)
                /\ RunCloser(9) => RunAway(8) \/ RunCloser(8)
                /\ RunCloser(8) => RunAway(7) \/ RunCloser(7)
                /\ RunCloser(7) => RunAway(6) \/ RunCloser(6)
                /\ RunCloser(6) => RunAway(5) \/ RunCloser(5)
                /\ RunCloser(5) => RunAway(4) \/ RunCloser(4)
                /\ RunCloser(4) => RunAway(3) \/ RunCloser(3)
                /\ RunCloser(3) => RunAway(2) \/ RunCloser(2)
                /\ RunCloser(2) => RunAway(1) \/ RunCloser(1)
    BY <1>2 DEF OnWayOut, RunAway, RunCloser, RunDistance
  <1>4. /\ RunAway(6) => mainPc = "q_join"
        /\ mainPc = "q_join" => ~RunAway(1) /\ ~RunAway(2) /\ ~RunAway(3)
                                  /\ ~RunAway(4) /\ ~RunAway(5) /\ ~RunAway(7)
                                  /\ ~RunAway(8) /\ ~RunAway(9)
    BY DEF OnWayOut, RunAway, RunDistance
  <1> QED
    BY <1>1, <1>3, <1>4, ThreadIsJoined, PTL DEF Leaves, Running, Fairness

\* 'q' ends the program or reaches the prompt, whatever the network thread is
\* doing, provided that deliveries end: QuitIsHonoured.
THEOREM QuitEndsDaemon ==
  ASSUME NTopics <= 5
  PROVE  FairSpec /\ []StepsEnabled /\ <>[][~OnMessage]_vars
           => QuitIsHonoured
  <1>1. IInv /\ quit => Stopping
    BY DEF IInv, Joined, ThreadHasClient, Stopping
  <1>2. RunCloser(1) => mainPc \in {"wait_exit", "done"}
    BY DEF OnWayOut, RunCloser, RunDistance
  <1> QED
    BY <1>1, <1>2, StoppingStops, FairDaemonRuns, PTL
    DEF QuitIsHonoured, Running

\* An exception of the network thread reaches the prompt, or the program
\* crashes on the way, provided that deliveries end: ErrorReachesUser.
THEOREM ErrorIsShown ==
  ASSUME NTopics <= 5
  PROVE  FairSpec /\ []StepsEnabled /\ <>[][~OnMessage]_vars
           => ErrorReachesUser
  <1> DEFINE Saved == m_exceptionPointer /\ netPc = "flag"
  <1>1. IInv /\ m_exceptionPointer => Saved \/ Stopping
    BY DEF IInv, LeavesForGood, ThreadHasClient, Stopping
  <1>2. m_exceptionPointer /\ [Next]_vars => m_exceptionPointer'
    BY DEF Next, Main, HandleArgs, LoadFile, GetEmptyConfig, GetMqttConfig,
           ConstructClient, TestRunning, OtherKey, QuitDisconnect,
           QuitLoopStop, QuitJoin, CheckException, Linger, Unwind,
           DestroyBase, Catch, User, QuitKey, WaitForExit, Crash, Network,
           Callback, Subscribe, ParseMessage, DisplayMessage, DisplayPayload,
           SaveException, NotifyMain, NetDisconnect, NetLoopStop, Library,
           OnConnect, OnMessage, ConnectionLost, NetworkThreadEnds,
           LibraryGivesUp, Terminated, vars
  <1>3. Saved /\ <<mainPc # "done" /\ Callback>>_vars => ~Saved'
    BY DEF Callback, Subscribe, ParseMessage, DisplayMessage, DisplayPayload,
           SaveException, NotifyMain, NetDisconnect, NetLoopStop
  <1>4. StepsEnabled /\ Saved
          => mainPc = "done" \/ ENABLED <<mainPc # "done" /\ Callback>>_vars
    BY DEF StepsEnabled
  <1>5. IInv /\ m_exceptionPointer /\ (mainPc = "done" \/ RunCloser(1))
          => mainPc = "wait_exit" \/ exitStatus \in {"FAILURE", "CRASH"}
    BY DEF OnWayOut, RunCloser, RunDistance, IInv, Joined, LeavesForGood,
           TypeOK, DataOK
  <1> HIDE DEF Saved
  <1> QED
    BY <1>1, <1>2, <1>3, <1>4, <1>5, StoppingStops, FairDaemonRuns, PTL
    DEF ErrorReachesUser, Running, Fairness
=============================================================================
