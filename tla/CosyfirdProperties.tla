------------------------- MODULE CosyfirdProperties -------------------------
(***************************************************************************)
(* What the two threads of the daemon must get right in every order of     *)
(* their statements.                                                       *)
(***************************************************************************)
EXTENDS Cosyfird

NetworkStopped == netPc \in {"none", "ended"}

\* App::run returns EXIT_SUCCESS only when no exception of the network thread
\* was left behind and that thread has ended (app.cpp:129-134, 155-162,
\* against mqttclient.cpp:90-99 at any moment of it).
CleanExit == exitStatus = "SUCCESS" => NetworkStopped /\ ~m_exceptionPointer

\* The daemon goes down quietly only because the user asked for it: whoever
\* sees m_running FALSE for another reason also sees the exception.
NoSilentShutdown == mainPc = "linger" => quit

\* A connected client is subscribed to every topic, also after it was
\* reconnected, or the daemon is on its way down (mqttclient.cpp:101-129).
SubscribedOrGone ==
  netPc = "library" /\ online => subscribed = NTopics \/ m_exceptionPointer

\* The two windows belong to the same message whenever no message is being
\* handled: a message that fails halfway takes the daemon down and does not
\* leave an older node's bytes beside it (mqttclient.cpp:161-212).
PayloadFitsMessage ==
  netPc = "library" /\ ~m_exceptionPointer /\ messageWindow # "empty"
    => payloadWindow = PayloadOf(messageWindow)

\* m_exceptionPointer is no atomic, and the main thread looks at it without a
\* lock: when it does, no thread is left that could write the exception it
\* looks for, or that one is already there (app.cpp:156-159, against
\* mqttclient.cpp:90-99).
ExceptionIsSettled == mainPc = "check" => NetworkStopped \/ m_exceptionPointer

\* "Stop this network thread" (mqttclient.cpp:96): the client is not destroyed
\* under a thread that still runs its callbacks.
ThreadStopsBeforeClient == client = "destroyed" => NetworkStopped

-----------------------------------------------------------------------------
(* Liveness, under Fairness                                                *)

\* Nothing blocks the actions that Fairness speaks of where they are due: the
\* main thread waits for nobody but the user and, in loop_stop, the network
\* thread; a callback has a way on from each of its statements.
StepsEnabled ==
  /\ mainPc \notin {"q_join", "wait_exit", "done"} => ENABLED <<Main>>_vars
  /\ mainPc = "q_join" /\ netPc = "ended" => ENABLED <<Main>>_vars
  /\ mainPc # "done" /\ netPc \notin {"none", "library", "ended"} =>
       ENABLED <<mainPc # "done" /\ Callback>>_vars
  /\ mainPc # "done" /\ netPc = "library" /\ disconnecting =>
       ENABLED <<mainPc # "done" /\ NetworkThreadEnds>>_vars

\* 'q' ends the program, or at least reaches the prompt of the error handler,
\* whatever the network thread is doing (app.cpp:129-134).
QuitIsHonoured == quit ~> mainPc \in {"wait_exit", "done"}

\* An exception of the network thread is shown to the user, who must confirm
\* it, unless the program crashes on the way (app.cpp:155-171).
ErrorReachesUser ==
  m_exceptionPointer
    ~> mainPc = "wait_exit" \/ exitStatus \in {"FAILURE", "CRASH"}

-----------------------------------------------------------------------------
(* Refinement                                                              *)

\* A configuration that could not be parsed has failed, whatever the parser's
\* constructor made of it.
ContractPhase ==
  IF mainPc = "done" THEN "over"
  ELSE IF mainPc = "wait_exit" THEN "prompt"
  ELSE IF m_exceptionPointer \/ mainPc \in {"get_empty", "catch"} THEN "failed"
  ELSE IF quit THEN "leaving"
  ELSE IF client = "none" THEN "starting" ELSE "serving"

ContractStatus == IF mainPc = "done" THEN exitStatus ELSE "none"

Contract == INSTANCE DaemonContract
              WITH phase <- ContractPhase, status <- ContractStatus

\* The two threads, whatever their order, keep the promise of DaemonContract,
\* its liveness included (app.cpp:85-172, mqttclient.cpp:90-213).
ImplementsContract == Contract!FairSpec

-----------------------------------------------------------------------------
(* The inductive invariant                                                 *)

\* The statements of forwardExceptionToMainThread after the first one.
Forwarding == netPc \in {"flag", "disconnect", "loop_stop"}

\* The statements of App::run before there is a client.
Starting ==
  mainPc \in {"args", "config", "get_empty", "get_config", "construct"}

\* The network thread lives exactly as long as the client can have one.
ThreadHasClient ==
  /\ client = "none" <=> netPc = "none"
  /\ client = "alive" <=>
       mainPc \in {"loop", "key", "q_disconnect", "q_loop_stop", "q_join",
                   "check", "linger", "unwind"}
  /\ Starting => client = "none"
  /\ client = "none" =>
       ~m_exceptionPointer /\ ~quit /\ ~online /\ messageWindow = "empty"
  /\ mainPc = "destroy" => client = "destroyed"

\* m_running was cleared for a reason the main thread can see.
StopHasReason ==
  /\ Starting => m_running
  /\ client # "none" /\ ~m_running => quit \/ m_exceptionPointer

\* Only forwardExceptionToMainThread and a loop_stop that was worth its name
\* make a later loop_stop return at once.
JoinableUnlessFailed ==
  /\ Forwarding => m_exceptionPointer
  /\ client = "alive" /\ ~threaded => netPc = "ended" \/ m_exceptionPointer

\* Where the thread has been waited for.
Joined ==
  /\ quit => ~m_running
  /\ mainPc \in {"q_disconnect", "q_loop_stop", "q_join"} => quit
  /\ mainPc = "key" => ~quit
  /\ mainPc = "check" => ~m_running
  /\ quit /\ mainPc \notin {"q_disconnect", "q_loop_stop", "q_join"}
       => netPc = "ended" \/ m_exceptionPointer
  /\ mainPc = "linger" \/ exitStatus = "SUCCESS" =>
       NetworkStopped /\ ~m_exceptionPointer

\* Which statement of App::run has set the result.
ExitFitsLocation ==
  /\ exitStatus = "SUCCESS" => mainPc \in {"destroy", "done"}
  /\ exitStatus \in {"FAILURE", "CRASH"} => mainPc = "done"

\* The client is destroyed because of an exception, or on the way out.
DestroyedForReason ==
  /\ mainPc = "unwind" => m_exceptionPointer
  /\ client = "destroyed" =>
       m_exceptionPointer \/ (quit /\ exitStatus = "SUCCESS")

\* on_message finds and leaves the subscriptions as on_connect left them.
SubscribedWhenCalled ==
  netPc \in {"parse", "display", "payload"} /\ online =>
    subscribed = NTopics \/ m_exceptionPointer

\* The windows agree up to the moment on_message changes the first of them.
WindowsWhenCalled ==
  /\ netPc = "payload" => messageWindow = message
  /\ netPc \in {"subscribe", "parse", "display"} /\ ~m_exceptionPointer
       /\ messageWindow # "empty"
       => payloadWindow = PayloadOf(messageWindow)

\* A program that is on its way out stays on it: the main thread waits only
\* for a thread that was told to disconnect, and has been notified once
\* NotifyMain is over.
LeavesForGood ==
  /\ mainPc \in {"q_loop_stop", "q_join"} => disconnecting
  /\ mainPc \in {"check", "linger", "unwind", "destroy"} => ~m_running
  /\ m_exceptionPointer /\ netPc # "flag" => ~m_running
  /\ mainPc = "done" => exitStatus # "none"

\* All of it together: TypeOK and the facts above make the safety properties
\* inductive; CleanExit is part of Joined.
IInv ==
  /\ TypeOK
  /\ ThreadHasClient
  /\ StopHasReason
  /\ JoinableUnlessFailed
  /\ Joined
  /\ ExitFitsLocation
  /\ DestroyedForReason
  /\ LeavesForGood
  /\ NoSilentShutdown
  /\ SubscribedWhenCalled
  /\ SubscribedOrGone
  /\ WindowsWhenCalled
  /\ PayloadFitsMessage
=============================================================================
