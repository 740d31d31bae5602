------------------------------ MODULE Cosyfird ------------------------------
(***************************************************************************)
(* The daemon cosyfird on the server: the main thread, which runs App::run *)
(* (server/source/cosyfird/app.cpp), and the network thread, in which      *)
(* libmosquitto calls MqttClient::on_connect and ::on_message              *)
(* (server/source/network/mqttclient.cpp).                                 *)
(*                                                                         *)
(* The threads share m_running, m_exceptionPointer, the windows and the    *)
(* client object.  mainPc and netPc name the statement a thread stands at; *)
(* a handler is cut between any two statements that touch what is shared.  *)
(* libmosquitto is not in the repository: it connects, reconnects,         *)
(* delivers messages, and ends its thread once it is told to disconnect.   *)
(***************************************************************************)
EXTENDS Naturals

CONSTANTS
  Uplinks,       \* messages of a node, with a payload_raw
  Events,        \* JSON objects without one: activations, sent, acks
  NonObjects,    \* JSON that has no members
  Malformed,     \* anything else a broker may send
  NTopics,       \* length of m_genericTopics
  MaxDeliveries  \* bound: messages the broker delivers

Messages == Uplinks \cup Events \cup NonObjects \cup Malformed

ASSUME NTopicsAssumption == NTopics \in Nat
ASSUME MaxDeliveriesAssumption == MaxDeliveries \in Nat
ASSUME MessagesAssumption == {"empty", "no_bytes"} \cap Messages = {}

VARIABLES
  mainPc, netPc,
  m_running,           \* App: atomic, the client's m_appRunStatus
  m_exceptionPointer,  \* MqttClient: whether it points to an exception
  client,              \* the MqttClient object of App::run
  messageWindow,       \* the message " Last full MQTT message " shows
  payloadWindow,       \* the message whose bytes " Last payload (hex) " shows
  exitStatus,          \* what App::run returns
  quit,                \* the user pressed 'q' in the main loop
  message,             \* (external) the message on_message was called with
  threaded,            \* (external) loop_stop would wait for the thread
  disconnecting,       \* (external) disconnect was called
  online,              \* (external) the broker accepted the connection
  subscribed,          \* (external) how many topics the broker was asked for
  delivered

mainVars == <<mainPc, exitStatus, quit>>
windows == <<messageWindow, payloadWindow>>
library == <<message, threaded, disconnecting, online, subscribed, delivered>>
vars == <<mainVars, netPc, m_running, m_exceptionPointer, client, windows,
          library>>

\* "args" is the return from handleArgs, "get_empty" and "get_config" the
\* getters on a configuration that was not and that was parsed, "destroy" the
\* destructor of mosquittopp after that of MqttClient.
MainLocation == {"args", "config", "get_empty", "get_config", "construct",
                 "loop", "key", "q_disconnect",
                 "q_loop_stop", "q_join", "check", "linger", "unwind",
                 "destroy", "catch", "wait_exit", "done"}

\* "library" is code of libmosquitto.  "subscribe" belongs to on_connect;
\* "parse", "display" and "payload" to on_message; "save" to "loop_stop" are
\* the statements of forwardExceptionToMainThread.
NetLocation == {"none", "library", "subscribe", "parse", "display", "payload",
                "save", "flag", "disconnect", "loop_stop", "ended"}

DataOK ==
  /\ mainPc \in MainLocation
  /\ netPc \in NetLocation
  /\ client \in {"none", "alive", "destroyed"}
  /\ messageWindow \in {"empty"} \cup Messages
  /\ payloadWindow \in {"empty", "no_bytes"} \cup Uplinks
  /\ exitStatus \in {"none", "SUCCESS", "FAILURE", "CRASH"}
  /\ message \in {"empty"} \cup Messages
  /\ subscribed \in 0 .. NTopics
  /\ delivered \in 0 .. MaxDeliveries

FlagsOK ==
  /\ {m_running, m_exceptionPointer, quit} \subseteq BOOLEAN
  /\ {threaded, disconnecting, online} \subseteq BOOLEAN

TypeOK == DataOK /\ FlagsOK

Init ==
  /\ mainPc = "args" /\ netPc = "none"
  /\ m_running = TRUE
  /\ m_exceptionPointer = FALSE
  /\ client = "none"
  /\ messageWindow = "empty" /\ payloadWindow = "empty"
  /\ exitStatus = "none"
  /\ quit = FALSE
  /\ message = "empty"
  /\ threaded = FALSE /\ disconnecting = FALSE
  /\ online = FALSE /\ subscribed = 0
  /\ delivered = 0

-----------------------------------------------------------------------------
(* The main thread: App::handleArgs and App::run                           *)

\* An option that only informs, or is not known, makes run return at once.
HandleArgs ==
  /\ mainPc = "args"
  /\ \/ mainPc' = "config" /\ UNCHANGED <<m_running, exitStatus>>
     \/ m_running' = FALSE /\ exitStatus' = "SUCCESS" /\ mainPc' = "done"
  /\ UNCHANGED <<quit, netPc, m_exceptionPointer, client, windows, library>>

\* (mutant) the getters of an empty configuration return empty values
GetEmptyConfigQuietly ==
  /\ mainPc = "get_empty"
  /\ mainPc' = "construct"
  /\ UNCHANGED <<exitStatus, quit, netPc, m_running, m_exceptionPointer,
                 client, windows, library>>

\* The constructor of ConfigParser: a file that cannot be opened is thrown on,
\* one that cannot be parsed is only reported.
LoadFile ==
  /\ mainPc = "config"
  /\ mainPc' \in {"catch", "get_empty", "get_config"}
  /\ UNCHANGED <<exitStatus, quit, netPc, m_running, m_exceptionPointer,
                 client, windows, library>>

\* getMqttConfig: the first value of an empty configuration throws, ...
GetEmptyConfig ==
  /\ mainPc = "get_empty"
  /\ mainPc' = "catch"
  /\ UNCHANGED <<exitStatus, quit, netPc, m_running, m_exceptionPointer,
                 client, windows, library>>

\* ... as does a value that is missing or has another type.
GetMqttConfig ==
  /\ mainPc = "get_config"
  /\ mainPc' \in {"construct", "catch"}
  /\ UNCHANGED <<exitStatus, quit, netPc, m_running, m_exceptionPointer,
                 client, windows, library>>

\* The constructor of MqttClient: the network thread is started last, so
\* a constructor that throws leaves no thread behind.
ConstructClient ==
  /\ mainPc = "construct"
  /\ \/ /\ mainPc' = "catch"
        /\ UNCHANGED <<netPc, client, threaded>>
     \/ /\ mainPc' = "loop"
        /\ client' = "alive"
        /\ threaded' = TRUE
        /\ netPc' = "library"
  /\ UNCHANGED <<exitStatus, quit, m_running, m_exceptionPointer, windows,
                 message, disconnecting, online, subscribed, delivered>>

\* while (m_running)
TestRunning ==
  /\ mainPc = "loop"
  /\ mainPc' = IF m_running THEN "key" ELSE "check"
  /\ UNCHANGED <<exitStatus, quit, netPc, m_running, m_exceptionPointer,
                 client, windows, library>>

\* No key, 's', KEY_RESIZE or any other key: nothing the threads share changes.
OtherKey ==
  /\ mainPc = "key"
  /\ mainPc' = "loop"
  /\ UNCHANGED <<exitStatus, quit, netPc, m_running, m_exceptionPointer,
                 client, windows, library>>

\* (mutant) 'q' stops the loop but not the client
QuitKeyOnly ==
  /\ mainPc = "key"
  /\ quit' = TRUE
  /\ m_running' = FALSE
  /\ mainPc' = "loop"
  /\ UNCHANGED <<exitStatus, netPc, m_exceptionPointer, client, windows,
                 library>>

QuitKey ==
  /\ mainPc = "key"
  /\ quit' = TRUE
  /\ m_running' = FALSE
  /\ mainPc' = "q_disconnect"
  /\ UNCHANGED <<exitStatus, netPc, m_exceptionPointer, client, windows,
                 library>>

\* (mutant) loop_stop without disconnect
QuitDisconnectMissing ==
  /\ mainPc = "q_disconnect"
  /\ mainPc' = "q_loop_stop"
  /\ UNCHANGED <<exitStatus, quit, netPc, m_running, m_exceptionPointer,
                 client, windows, library>>

QuitDisconnect ==
  /\ mainPc = "q_disconnect"
  /\ disconnecting' = TRUE
  /\ mainPc' = "q_loop_stop"
  /\ UNCHANGED <<exitStatus, quit, netPc, m_running, m_exceptionPointer,
                 client, windows, message, threaded, online, subscribed,
                 delivered>>

\* client.loop_stop() waits for the thread, unless the thread itself called
\* loop_stop before.
QuitLoopStop ==
  /\ mainPc = "q_loop_stop"
  /\ mainPc' = IF threaded THEN "q_join" ELSE "loop"
  /\ UNCHANGED <<exitStatus, quit, netPc, m_running, m_exceptionPointer,
                 client, windows, library>>

QuitJoin ==
  /\ mainPc = "q_join"
  /\ netPc = "ended"
  /\ threaded' = FALSE
  /\ mainPc' = "loop"
  /\ UNCHANGED <<exitStatus, quit, netPc, m_running, m_exceptionPointer,
                 client, windows, message, disconnecting, online, subscribed,
                 delivered>>

\* if (client.getExceptionPointer()) std::rethrow_exception(...)
CheckException ==
  /\ mainPc = "check"
  /\ mainPc' = IF m_exceptionPointer THEN "unwind" ELSE "linger"
  /\ UNCHANGED <<exitStatus, quit, netPc, m_running, m_exceptionPointer,
                 client, windows, library>>

\* sleep_for(1s); return EXIT_SUCCESS, which destroys the client ...
Linger ==
  /\ mainPc = "linger"
  /\ exitStatus' = "SUCCESS"
  /\ client' = "destroyed"
  /\ mainPc' = "destroy"
  /\ UNCHANGED <<quit, netPc, m_running, m_exceptionPointer, windows, library>>

\* ... as does the exception on its way to the handler.
Unwind ==
  /\ mainPc = "unwind"
  /\ client' = "destroyed"
  /\ mainPc' = "destroy"
  /\ UNCHANGED <<exitStatus, quit, netPc, m_running, m_exceptionPointer,
                 windows, library>>

\* ~mosquittopp cancels the thread and waits for it, if loop_stop would.
DestroyBase ==
  /\ mainPc = "destroy"
  /\ threaded' = FALSE
  /\ netPc' = IF threaded THEN "ended" ELSE netPc
  /\ mainPc' = IF exitStatus = "SUCCESS" THEN "done" ELSE "catch"
  /\ UNCHANGED <<exitStatus, quit, m_running, m_exceptionPointer, client,
                 windows, message, disconnecting, online, subscribed,
                 delivered>>

\* catch (const std::exception&): the message goes to the log window.
Catch ==
  /\ mainPc = "catch"
  /\ mainPc' = "wait_exit"
  /\ UNCHANGED <<exitStatus, quit, netPc, m_running, m_exceptionPointer,
                 client, windows, library>>

\* waitForExit sees 'q'.
WaitForExit ==
  /\ mainPc = "wait_exit"
  /\ exitStatus' = "FAILURE"
  /\ mainPc' = "done"
  /\ UNCHANGED <<quit, netPc, m_running, m_exceptionPointer, client, windows,
                 library>>

\* The network thread uses the client after its destruction: the program may
\* go on as if nothing happened, or end here.
Crash ==
  /\ client = "destroyed"
  /\ netPc \notin {"none", "ended"}
  /\ mainPc # "done"
  /\ exitStatus' = "CRASH"
  /\ mainPc' = "done"
  /\ UNCHANGED <<quit, netPc, m_running, m_exceptionPointer, client, windows,
                 library>>

-----------------------------------------------------------------------------
(* The network thread: MqttClient's callbacks                              *)

\* What the payload window shows of a message.
PayloadOf(m) == IF m \in Uplinks THEN m ELSE "no_bytes"

\* What the callbacks of the client leave alone.
NetUnchanged == UNCHANGED <<mainVars, client, delivered>>

\* on_connect, at the first connection and after every reconnection; a broker
\* that refuses makes it throw.
OnConnect ==
  /\ netPc = "library"
  /\ ~online
  /\ ~disconnecting
  /\ \/ online' = TRUE /\ netPc' = "subscribe"
     \/ online' = FALSE /\ netPc' = "save"
  /\ UNCHANGED <<m_running, m_exceptionPointer, windows, message, threaded,
                 disconnecting, subscribed>>
  /\ NetUnchanged

\* (mutant) a topic that cannot be subscribed to ends the loop silently
SubscribeIgnored ==
  /\ netPc = "subscribe"
  /\ \/ /\ subscribed < NTopics
        /\ \/ subscribed' = subscribed + 1 /\ netPc' = "subscribe"
           \/ subscribed' = subscribed /\ netPc' = "library"
     \/ /\ subscribed = NTopics
        /\ netPc' = "library"
        /\ UNCHANGED subscribed
  /\ UNCHANGED <<m_running, m_exceptionPointer, windows, message, threaded,
                 disconnecting, online>>
  /\ NetUnchanged

\* for (auto& topic : m_genericTopics): the first failure throws.
Subscribe ==
  /\ netPc = "subscribe"
  /\ \/ /\ subscribed < NTopics
        /\ \/ subscribed' = subscribed + 1 /\ netPc' = "subscribe"
           \/ subscribed' = subscribed /\ netPc' = "save"
     \/ /\ subscribed = NTopics
        /\ netPc' = "library"
        /\ UNCHANGED subscribed
  /\ UNCHANGED <<m_running, m_exceptionPointer, windows, message, threaded,
                 disconnecting, online>>
  /\ NetUnchanged

\* on_message is called, also with what was received before disconnect.
OnMessage ==
  /\ netPc = "library"
  /\ online
  /\ subscribed > 0
  /\ delivered < MaxDeliveries
  /\ delivered' = delivered + 1
  /\ message' \in Messages
  /\ netPc' = "parse"
  /\ UNCHANGED <<mainVars, client, m_running, m_exceptionPointer, windows,
                 threaded, disconnecting, online, subscribed>>

\* reader->parse throws on what is no JSON text.
ParseMessage ==
  /\ netPc = "parse"
  /\ netPc' = IF message \in Malformed THEN "save" ELSE "display"
  /\ UNCHANGED <<m_running, m_exceptionPointer, windows, message, threaded,
                 disconnecting, online, subscribed>>
  /\ NetUnchanged

DisplayMessage ==
  /\ netPc = "display"
  /\ messageWindow' = message
  /\ netPc' = "payload"
  /\ UNCHANGED <<m_running, m_exceptionPointer, payloadWindow, message,
                 threaded, disconnecting, online, subscribed>>
  /\ NetUnchanged

\* (mutant) a message without members is ignored from here on
DisplayPayloadSwallowing ==
  /\ netPc = "payload"
  /\ netPc' = "library"
  /\ payloadWindow' = CASE message \in Uplinks    -> message
                       [] message \in NonObjects -> payloadWindow
                       [] OTHER                  -> "no_bytes"
  /\ UNCHANGED <<m_running, m_exceptionPointer, messageWindow, message,
                 threaded, disconnecting, online, subscribed>>
  /\ NetUnchanged

\* jsonRoot["payload_raw"] throws on JSON without members, and is the empty
\* string where the member is missing.
DisplayPayload ==
  /\ netPc = "payload"
  /\ IF message \in NonObjects
     THEN netPc' = "save" /\ UNCHANGED payloadWindow
     ELSE netPc' = "library" /\ payloadWindow' = PayloadOf(message)
  /\ UNCHANGED <<m_running, m_exceptionPointer, messageWindow, message,
                 threaded, disconnecting, online, subscribed>>
  /\ NetUnchanged

\* (mutant) the main thread is notified before the pointer is saved
SaveExceptionLate ==
  /\ netPc = "save"
  /\ \/ /\ m_running
        /\ m_running' = FALSE
        /\ UNCHANGED <<m_exceptionPointer, netPc>>
     \/ /\ ~m_running
        /\ m_exceptionPointer' = TRUE
        /\ netPc' = "flag"
        /\ UNCHANGED m_running
  /\ UNCHANGED <<windows, message, threaded, disconnecting, online, subscribed>>
  /\ NetUnchanged

\* forwardExceptionToMainThread: save the pointer, ...
SaveException ==
  /\ netPc = "save"
  /\ m_exceptionPointer' = TRUE
  /\ netPc' = "flag"
  /\ UNCHANGED <<m_running, windows, message, threaded, disconnecting, online,
                 subscribed>>
  /\ NetUnchanged

\* (mutant) the main thread is not notified
NotifyMainNot ==
  /\ netPc = "flag"
  /\ netPc' = "disconnect"
  /\ UNCHANGED <<m_running, m_exceptionPointer, windows, message, threaded,
                 disconnecting, online, subscribed>>
  /\ NetUnchanged

\* ... notify the main thread, ...
NotifyMain ==
  /\ netPc = "flag"
  /\ m_running' = FALSE
  /\ netPc' = "disconnect"
  /\ UNCHANGED <<m_exceptionPointer, windows, message, threaded, disconnecting,
                 online, subscribed>>
  /\ NetUnchanged

\* ... disconnect() ...
NetDisconnect ==
  /\ netPc = "disconnect"
  /\ disconnecting' = TRUE
  /\ netPc' = "loop_stop"
  /\ UNCHANGED <<m_running, m_exceptionPointer, windows, message, threaded,
                 online, subscribed>>
  /\ NetUnchanged

\* (mutant) loop_stop waits for the thread that called it
NetLoopStopWaiting ==
  /\ netPc = "loop_stop"
  /\ ~threaded
  /\ netPc' = "library"
  /\ UNCHANGED <<m_running, m_exceptionPointer, windows, message, threaded,
                 disconnecting, online, subscribed>>
  /\ NetUnchanged

\* ... and loop_stop().  A thread cannot wait for itself: the call returns,
\* and from then on nobody else waits for it either.
NetLoopStop ==
  /\ netPc = "loop_stop"
  /\ threaded' = FALSE
  /\ netPc' = "library"
  /\ UNCHANGED <<m_running, m_exceptionPointer, windows, message,
                 disconnecting, online, subscribed>>
  /\ NetUnchanged

\* The connection breaks, and the broker forgets the subscriptions.
ConnectionLost ==
  /\ netPc = "library"
  /\ online
  /\ online' = FALSE
  /\ subscribed' = 0
  /\ UNCHANGED <<netPc, m_running, m_exceptionPointer, windows, message,
                 threaded, disconnecting>>
  /\ NetUnchanged

\* The thread leaves its loop after disconnect.
NetworkThreadEnds ==
  /\ netPc = "library"
  /\ disconnecting
  /\ netPc' = "ended"
  /\ UNCHANGED <<m_running, m_exceptionPointer, windows, message, threaded,
                 disconnecting, online, subscribed>>
  /\ NetUnchanged

\* An error the library does not recover from; the client overrides no
\* callback that would tell.
LibraryGivesUp ==
  /\ netPc = "library"
  /\ ~disconnecting
  /\ netPc' = "ended"
  /\ UNCHANGED <<m_running, m_exceptionPointer, windows, message, threaded,
                 disconnecting, online, subscribed>>
  /\ NetUnchanged

-----------------------------------------------------------------------------

Main ==
  \/ HandleArgs \/ LoadFile \/ GetEmptyConfig \/ GetMqttConfig
  \/ ConstructClient
  \/ TestRunning \/ OtherKey
  \/ QuitDisconnect \/ QuitLoopStop \/ QuitJoin
  \/ CheckException \/ Linger \/ Unwind \/ DestroyBase \/ Catch

User == QuitKey \/ WaitForExit

Callback ==
  \/ Subscribe
  \/ ParseMessage \/ DisplayMessage \/ DisplayPayload
  \/ SaveException \/ NotifyMain \/ NetDisconnect \/ NetLoopStop

Library ==
  \/ OnConnect \/ OnMessage \/ ConnectionLost
  \/ NetworkThreadEnds \/ LibraryGivesUp

\* The process is over when App::run returned.
Network == mainPc # "done" /\ (Callback \/ Library)

Terminated == mainPc = "done" /\ UNCHANGED vars

Next == Main \/ User \/ Crash \/ Network \/ Terminated

Spec == Init /\ [][Next]_vars

\* Both threads are scheduled, and a thread that was told to disconnect ends;
\* the user need not press a key.
Fairness ==
  /\ WF_vars(Main)
  /\ WF_vars(mainPc # "done" /\ Callback)
  /\ WF_vars(mainPc # "done" /\ NetworkThreadEnds)

FairSpec == Spec /\ Fairness
=============================================================================
