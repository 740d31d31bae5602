# A TLA+ verification project for cosyfir

cosyfir is a LoRaWAN system: battery-driven **nodes** (`node/`, C on a
microcontroller) send measurements through The Things Network (TTN), and a
**daemon** on a server (`server/`, C++17) subscribes to TTN's MQTT broker and
shows the last message in a terminal.  This directory models the parts whose
correctness depends on the order in which things happen, checks them with TLC on
small instances, and proves the most important properties with TLAPS for all
instances.

## 1. Inventory

| Part | State | Operations | Interacts with |
|---|---|---|---|
| Node state machine (`node/common/LoRa.c`) | `DeviceState`, `NextTx`, `IsMacProcessPending`, the timer `TxNextPacketTimer`, `AppData` | `RunLoRaStateMachine` and its seven cases, `JoinNetwork`, `SendFrame`, the MAC callbacks `McpsConfirm`, `McpsIndication`, `MlmeConfirm`, `MlmeIndication`, the interrupts `OnTxNextPacketTimerEvent`, `OnMacProcessNotify` | calls the LoRaMAC library, which calls back from `LoRaMacProcess`; interrupts preempt the loop; `NvmCtxMgmt` survives a restart; calls `PrepareTxFrame`/`ParseRxFrame` of the node program |
| Sensor and actuator programs (`node/sensor/main.c`, `node/actuator/main.c`) | `AppDataBuffer`, `AppDataSize` | `PrepareTxFrame`, `ParseRxFrame` (empty) | called by the state machine, call the driver |
| DS18B20 driver (`node/sensor/ds18b20.c`) | `LastMeasuredTemperature`, the UART's baud rate | `Ds18b20Reset`, `SendByte`, `ReadByte`, `ReadTemperature` | one-wire bus through the UART |
| Daemon, main thread (`server/source/cosyfird/app.cpp`) | `m_running`, the windows, the client object | `handleArgs`, `run` | reads keys; creates, stops and destroys the client; reads the exception pointer |
| Daemon, network thread (`server/source/network/mqttclient.cpp`) | `m_exceptionPointer`, `m_genericTopics` | constructor, destructor, `on_connect`, `on_message`, `forwardExceptionToMainThread` | called by libmosquitto in its own thread; writes the windows and `m_running` |
| Configuration (`server/source/cosyfird/configparser.cpp`) | the YAML document | constructor, `getMqttConfig` | throws into `App::run` |
| Text user interface (`server/source/tui/`) | ncurses windows, cursors, pending streams | `printLine`, `display`, `showString`, `addString`, `keepVisible`, `waitForExit`, `getKeyStroke` | written by both threads without a lock |

External, and modelled only from how this code uses them: LoRaMac-node,
libmosquitto, ncurses, yaml-cpp, jsoncpp, libb64.

**What is hard.**  On the node: two kinds of interrupts against a main loop that
shares plain variables with them, requests that are refused or answered late,
restarts, a flag that decides whether clocks may stop.  In the daemon: two
threads, an exception handed from one to the other, a shutdown that either may
begin, an object that must outlive the thread that uses it, reconnections.  The
complete list with the lines is under `hazards` in `PROJECT.json`.

**What makes each part correct.**

- State machine: the node never sleeps without something that wakes it; an
  expired timer is never overwritten; a due uplink is attempted; one join at a
  time and none with a session; uplinks and joins never cease.  An uplink that
  somebody asked for is not forgotten, the report of an uplink is about that
  uplink, and one restart costs the node neither its session nor the server's
  ear for ever.
- Driver and sensor program: a value that is sent as fresh was measured; the
  baud rate fits the phase of the protocol.
- Daemon: success means that nothing was left behind; it ends for a reason the
  user knows; errors reach the user; 'q' always works; a connected client has
  all subscriptions; the two windows belong together; the client outlives its
  thread (it does not, see section 5).
- Windows: a line of the log is written as a whole (two at a time are not, see
  section 5), and disorder never spreads; the payload window shows the first
  bytes and says how many are missing.

## 2. Modules

| Module | Content |
|---|---|
| `LoRaNode` | the node: one action per statement group of `RunLoRaStateMachine`, per callback and per interrupt |
| `NodeContract` | abstract specification: what a node promises |
| `NodeFrames` | `LoRaNode` with `AppDataBuffer`, `AppData` and the frame in flight |
| `NodeCounters` | `LoRaNode` with the stored session and its uplink counter |
| `SensorNode` | the DS18B20 driver, the sensor on its wire, `PrepareTxFrame` of the sensor program |
| `SensorContract` | abstract specification: what a measurement promises the node |
| `Cosyfird` | the daemon: the main thread and the network thread |
| `DaemonContract` | abstract specification: what the daemon promises its user |
| `PayloadDisplay` | the payload step of `on_message`, with `showString` |
| `PayloadContract` | abstract specification: what the user sees of a payload |
| `LogWindow` | the log window, written by two threads character by character |
| `<M>Properties` | the properties of `<M>`, its inductive invariant, the mapping to its contract |
| `<M>Proofs` | the theorems about `<M>` |
| `LoRaNodeLivenessProofs` | the liveness theorems of `LoRaNode` |
| `MC<M>` | the modules TLC runs; `MCNodeCounters` serves `LoRaNode` too |

`NodeFrames` and `NodeCounters` compose with `LoRaNode` by superposition: each
of their actions is an action of `LoRaNode` together with what the same lines
write into the added variables.  That every step of theirs is a step of
`LoRaNode` is the first theorem of their proof modules, so what holds of the
node holds of both.

Definitions marked `(mutant)` in a module are plausible wrong versions of the
definition that follows them.  Nothing uses them; they show that a property
notices the mistake (`mutants` in `PROJECT.json`).

### The node

`pc` is the statement the main loop stands at.  The loop is cut wherever an
interrupt can make a difference: before `LoRaMacProcess`, before the `switch`,
inside each case that shares a variable with an interrupt, before and inside the
critical section.  A case that an interrupt could overtake is two actions:
`CaseSend` / `CaseSendDone` (the assignment at line 676 comes after a call of
750 ms and more), `CaseCycleRun` / `ArmRun` (694 and 702), `CaseSleep` and the
two branches of the critical section.  Handlers that run to their end in an
interrupt are one action.

The MAC is three variables: the request it works on (`macRequest`), an event it
raised and `LoRaMacProcess` has not seen (`macIrq`), whether there is a session
(`activated`).  It may refuse any request, answers with success or failure, may
raise any number of events before it answers, and may deliver indications that
ask for an uplink.  `Reset` restarts the microcontroller at any statement; only
the stored session survives.

`NodeFrames`: `PrepareTxFrame` writes some sample (the model values `Samples`),
`SendFrame` chooses the frame with it or the empty one, whose port is never
assigned and therefore any value of `Garbage`, and overwrites `AppData` before
it knows whether the MAC takes the frame.  `Described` is what `McpsConfirm`
prints, `onAir` what the MAC took, `overtaken` that another attempt came after
it.  `wanted` is set when an indication asks for an uplink and cleared when one
is accepted.

`NodeCounters`: frame counters are the library's, but when they are stored and
restored is decided in `LoRa.c`.  Only two differences matter and only they are
variables: how far the store is behind the node (`unstored`) and the server
ahead of it (`ahead`).  `session` and `stored` say whether the MAC and the store
hold the server's session or one it has replaced.  A frame may be lost on the
air: `Forget` chooses how much of the unstored the server has seen.

### The sensor

`SensorNode` runs `Ds18b20ReadTemperature` transfer by transfer: the reset pulse
at 9600 baud, then single bytes at 115200, each of them a transfer that may
fail or be garbled.  A byte is eight UART bytes, one for each bit, and the
answer is put together from what comes back (`TxBuffer`, `Answer`).  The sensor
keeps a scratchpad, may lose its power at any moment (its power-on value is 85 degrees),
and follows the protocol: presence after a reset, then a skip-ROM, then a
command.  The temperature is a 16 bit word; the frame takes its two bytes.

`SensorContract` knows nothing of bytes, bits and transfers: a call that was
asked converts once at most, and answers with that one value, or with 0 and a
failure, or, if it was disturbed and does not know, with anything; what is sent
is the answer.  `SensorNodeProperties` maps the statements to its three phases.

### The daemon

`mainPc` and `netPc` are the statements of the two threads.  The order of the
four statements of `forwardExceptionToMainThread` (93 to 98) and of the 'q' key
(131 to 133) is kept, each its own action.  Reading the configuration is three
actions: `LoadFile` with both handlers of the parser's constructor, and
`GetEmptyConfig` or `GetMqttConfig` on what it left behind.  Messages are four
sets of model values: those with a payload, JSON objects without one
(activations, sent, acks), JSON without members, and what cannot be parsed; a
message of the third set fails after it was shown.

libmosquitto: the thread calls `on_connect` whenever it is not connected,
delivers messages while it is, may lose the connection (the session is clean, so
the subscriptions are gone), may give up, and ends after `disconnect`, but
perhaps not before it delivered what it had already received.  `loop_stop` waits
for the thread, except when the thread calls it itself: then it returns at once,
and later calls do not wait either.  The destructor of `mosquittopp` ends a
thread that nobody stopped.  A network thread that uses a destroyed client may
go on or end the program (`Crash`).

`DaemonContract` knows six phases: a daemon that starts informs its user or
serves; it leaves when it is asked to; once something failed it does not serve
again, shows the error and ends with failure when the user confirmed it.  It
ends with success only when nothing failed.  `CosyfirdProperties` maps the
statements of the two threads to these phases.

### The windows

`PayloadDisplay` is the loop of lines 186 to 197 with its types: `validBytes` is
a `uint8_t` (arithmetic modulo `CounterModulus`, which no payload reaches: the
node's buffer holds 242 bytes, `LORAWAN_APP_DATA_MAX_SIZE`), the `get` that fails ends the
loop, `setw(2)` is used up by the first output, and the column of the centred
line is computed in the arithmetic of `size_t`.  A line is the numbers in it and
its length in columns.  `PayloadContract` says the same without the loop: the
first bytes of the payload appear at once, in a line whose length is computed
from all of them together, and the warning follows.

`LogWindow` is the destructor of `StatusStream` without a lock: `localtime` into
one shared buffer, `put_time` from it, then `addString` character by character.
The window is a matrix of cells with one cursor; a newline in the last row
scrolls.  `localtime` and the window of ncurses are external.

## 3. Runs

| Run | Shows | Bounds |
|---|---|---|
| `node_safety` | the safety properties, where the fair actions are enabled, `DueUplinkIsAttempted`, that uplinks and join attempts never cease, that an uplink the MAC accepted is confirmed, that the node implements `NodeContract` with its fairness, and what a restart costs it | 2 restarts, counter differences up to 3 |
| `node_mib_faults` | type correctness and the inductive invariants of `LoRaNode` and `NodeCounters` with activation queries that fail | the same |
| `node_low_power` | **violation**: low power is possible with an uplink due | no restart |
| `node_frames` | the report is about the frame that was sent; an uplink that was asked for is sent | 2 samples, 3 values of an unassigned port, 1 restart |
| `sensor_safety` | an undisturbed measurement is sent as it was made, a failed one as 0; type correctness and the inductive invariant; it implements `SensorContract` | 3 temperatures (0, 25 degrees and a negative one), the power-on value 85 degrees, one battery level |
| `sensor_stale` | **violation**: success is reported for what was not measured | as `sensor_safety` |
| `daemon_safety` | type correctness, the safety properties and the inductive invariant of the daemon; an exception is settled when the main thread looks for it; where the fair actions are enabled; 'q' and errors end it; it implements `DaemonContract` with its fairness | 5 topics (the code's number), 3 deliveries, 5 messages of four kinds |
| `daemon_client_lifetime` | **violation**: the client is destroyed under its thread | 1 topic, 1 delivery |
| `payload_display` | what the payload window shows, where, and when the warning comes; type correctness and the inductive invariant, of which `LineFits` is a part; it implements `PayloadContract` with its fairness | payloads of 0, 1, 3, 7, 8, 9 and 242 bytes, in any order |
| `payload_digits` | **violation**: not every byte has two digits | as `payload_display` |
| `log_window` | a line printed alone is whole, disorder ends | 2 threads, 2 texts, 2 times, 2 rows of 3 cells |
| `log_torn` | **violation**: lines printed at the same time are torn | as `log_window` |

`node_safety` runs `NodeCounters`, every step of which is a step of `LoRaNode`
and which adds no condition to any: the properties of the node are checked on
the same behaviours.  The runs that pass explore the invariants and the temporal
properties of a module together, so that each sees the largest instance.

The node has no counter but `resets`; every run explores its complete state
space, and a second restart already finds a stored session of a node that was
itself restored.  Two restarts are also the fewest after which a replaced
session can be resumed, and `ReplacedOnlyAfterTwoRestarts` is violated with one
restart less as soon as a handler joins with a session.  Two samples tell an old
frame from a new one; a port that was never assigned is the right one, zero or
another.  In the daemon a message matters only through its kind and whether it
equals the one in a window: two uplinks show that an old payload is not taken
for a new one, three deliveries allow a shown, a failing and a late message in
one behaviour.  The payloads are the lengths
around the eight bytes the window shows, and up to the longest frame the node's
buffer allows.  Two threads are all the program has; a line is two characters,
its date and its text, so two of each tell whose is whose, a line printed alone
fits into a row of three cells, mixed ones wrap, and every second line scrolls.
The measurements of a sensor follow one another without end, so that each starts
from whatever an earlier one left.  Texts, times and threads are interchangeable
model values and no temporal property is checked there, so the symmetry is sound.
Deadlock is checked in every run: the node never stops (`Halted` is the code's
own endless loop), and a daemon that has returned takes the step `Terminated`.

### Fairness

- Node: the main loop runs for ever, so weak fairness of `MainLoop`.  The timer
  and the MAC's interrupts are masked in the critical section and stay pending,
  so an interrupt that is possible again and again is served: strong fairness of
  `TimerInterrupt` and `OnMacProcessNotify`.  The MAC answers each request it
  accepted (`Confirm`) and does not deliver indications for ever
  (`NoUplinkWanted`).  Both are promises of the library; without them no program
  on top of it could make progress.
- Frames and counters: besides, for `WantedIsSent` and `CatchesUp` alone, a MAC
  that is asked again and again while it is idle takes a frame in the end
  (`Accepted`, `AcceptedAndCounted`), because its duty cycle passes.
  Nothing is assumed about the store: with a server that always signals more
  data, or a MAC slower than the duty cycle, the loop need never pass
  `DEVICE_STATE_SLEEP` with an idle MAC, so that every uplink is stored in the
  end is not a property of this code.
- Daemon: both threads are scheduled, and the library's thread ends after it was
  told to disconnect.  Nothing is assumed about the user or the broker.
- Payloads: `on_message` runs to its end once it was called (`FairSpec`); nobody
  promises another message.
- Sensor: none.  `SensorContract` is a safety specification, because the driver
  is straight-line code with bounded delays; that it comes to an end is plain.

## 4. Proofs

The theorems about safety and refinement hold for every value of the constants:
any number of restarts, topics, deliveries, messages, threads and window sizes,
with or without failing queries.  The liveness theorems have premises, which the
paragraph on them names.

*Node.*  The safety properties are not inductive by themselves: that an
interrupt meets a sleeping loop, for instance, needs to know which case the loop
is in, which follows from `DeviceState` only because no interrupt can have
changed it since the dispatch, which is the property again.  `IInv` adds the
state each case was chosen by (`CaseFitsState`), which states a node can be in
with and without a session (`SessionFitsState`), that NextTx keeps its initial
value until the first session (`UnjoinedNodeCanSend`) and that unseen MAC events
are flagged (`EventIsFlagged`).  `InductiveStep` has one step per action, split
where the argument needs it: an expiry (`TimerInterrupt`) is located first, then
its outcomes are listed.  `EveryDueUplinkIsAttempted` proves the action property
from the same invariant.  `NodeRefinesContract` maps every step to a step of the
contract or to none.

*Frames.*  `FramesImplementNode`, then `ReportIsTrue` from `FramesInv`: an
accepted attempt leaves `AppData` and the frame in flight equal, and no step but
an attempt touches either.

*Counters.*  `OneRestartIsSafe` needs `IInv` of the node: a join can be
confirmed only while there is no session (`OneJoinAtATime`), so only a restart
whose restore failed can make the server replace what is stored
(`StoredSessionIsUsed`).

*Sensor.*  `IInv` follows the protocol: which command the sensor has heard by
which statement, which bytes of the scratchpad are read, and that the UART's
rate fits.  `UndisturbedIsFresh` holds for every 16 bit temperature,
`FailureIsZero` for failures at any transfer.
`MeasurementRefinesContract` maps each reset and each ignored transfer to a
disturbance or to nothing, the convert command that was heard to `Convert`, and
the last byte to the answer.  It needs two things more: that a call converts
once at most (`OneConversion`), and that the two bytes put together are the word
that was split (`TwoBytes`, `ByteSurvivesWire`).

*Daemon.*  `IInv` of `CosyfirdProperties` says in which statements the client
exists, that `m_running` is false only for a reason the main thread will see,
that an unjoinable thread has saved its exception, and that the windows agree
until `on_message` changes the first.  `SuccessIsClean`, `ShutdownHasReason`,
`NoExceptionIsMissed`, `Subscribed` and `WindowsAgree` follow, and `DaemonRefinesContract`, which
besides needs that the client is destroyed for a reason only.

*Windows.*  `PayloadDisplay`'s `IInv` relates the counter, the bytes read and
the line (`CounterFollows`); `WarningCorrect` and `BeginningIsShown` follow for
all payloads the assumption on their length admits.  The invariant also says
that the line the loop has put together has exactly the columns that the
contract computes from the set of its numbers with two digits (`LineGrows`, an
argument about cardinalities); with it `DisplayRefinesContract` shows that the
unsigned column of `showString` is the middle.  `LogWindow`'s `IInv`
follows a line that is printed alone (`Undisturbed`) and keeps it above every
place where a thread will still put something (`LoneLinesAreAbove`).

*Liveness.*  The provers know nothing of ENABLED.  So the places where each fair
action is enabled are written down as an invariant (`StepsEnabled` of
`LoRaNodeProperties` and of `CosyfirdProperties`, `CountersStepsEnabled`), TLC
checks it on the runs, and the liveness theorems have it as a premise.
Everything else, the fairness included, comes from the specification.

- Node.  The loop always returns to its `switch`, because each statement of an
  iteration is closer to the end than the one before (`LoopTurns`); the switch
  takes the case of the state, which no interrupt changes in between
  (`CaseIsChosen`, from `IInv`); the cases and the timer lead from every state to
  a transmission (`UplinksNeverCease`).  `UplinkIsConfirmed` proves
  `UplinkIsAnswered` and needs the MAC's answer besides: an event that the MAC
  raised stays until the loop has called `LoRaMacProcess`, whatever the loop does
  with `IsMacProcessPending` in the meantime.  `JoinNeverGivenUp` argues about a node that is never reset
  again: that only finitely many of a bounded number of restarts can happen is
  an induction over the counter, so it is a premise (`<>[][~Reset]_vars`).
  `UplinksNeverCease`, `JoinNeverGivenUp` and what follows from them are about
  activation queries that succeed (`MibStatus = {"OK"}`), as `node_safety` is: a
  node whose query fails may sleep without its timer.  With LoRaMac-node this
  query cannot fail.
- Frames.  `WantedUplinkIsSent`: the session stays, the attempts keep coming, and
  between two of them the MAC becomes idle and remains so until one is accepted
  (`IdleUntilAccepted`).  Nothing but an accepted attempt clears `wanted`.
- Counters.  `CatchesUpFrameByFrame` is one round of `CatchesUp`, for every
  distance: with the same argument as before, a frame is accepted and counted.
  `SF_allVars(AcceptedAndCounted)`, the hypothesis of `CatchesUp`, is a premise
  here too.
- Daemon.  `QuitEndsDaemon` and `ErrorIsShown`: a callback of the library returns
  (`CallbackReturns`), so after `loop_stop` the thread ends; each statement of the
  main thread is closer to the end than the one before (`MainLeaves`), and once
  it leaves it does not come back (`LeavesForGood`, a part of `IInv`).
  The number of topics is at most five (`mqttclient.hpp:63` to 74 has five), for
  each subscription is a step of its own; and the broker's deliveries end
  (`<>[][~OnMessage]_vars`), which the bound on them implies by an induction.

`CatchesUpFrameByFrame` is not a property of a run: TLC checks what follows from
it (`CatchesUp`).

Only model-checked: that the rounds of `CatchesUp` add up (an induction over how
far the server is ahead), the liveness halves of the three contracts that have one (their
fairness is ENABLED under a substitution), and the premises above: the three
invariants about ENABLED, and that a bounded number of restarts and deliveries
comes to an end.

## 5. Findings

1. `LoRa.c:120` calls a cleared `IsMacProcessPending` sufficient for low power.
   It is not: the timer's interrupt does not set the flag (`node_low_power`).
   The call that would use it is commented out at line 723.
2. `mqttclient.cpp:96` says that the network thread is stopped; but the main
   thread is notified before, and a thread cannot wait for itself, so the main
   thread may destroy the client while the network thread still uses it
   (`daemon_client_lifetime`).
3. `ds18b20.c:156` reads "the measured temperature" although the results of
   skip-ROM and convert are ignored: a scratchpad that no conversion filled is
   sent as a measurement (`sensor_stale`).
4. `Readme.md:147` shows two digits for each byte; `setw(2)` at
   `mqttclient.cpp:181` is used up by the separator (`payload_digits`).
5. `window.hpp:51` promises a line with its date; two threads that print at the
   same time tear lines and swap dates (`log_torn`).

## 6. Not modelled

- Build files and key material: no behaviour.
- What the node prints besides the frame it reports (MAC status, keys, radio
  parameters): nothing reads it and no document says anything of it.
- Terminal colours, frames and titles, and what `keepVisible` does after the
  user resized the terminal: ncurses decides that, and the code asks nothing of
  it.
- The libraries themselves (LoRaMac-node, libmosquitto, ncurses, yaml-cpp,
  jsoncpp, libb64): they are external and appear as the outcomes this code
  distinguishes.  The composition of a node and the daemon over a broker adds
  nothing: The Things Network between them is in neither program.
- Time.  `LoRa.c:397` schedules an uplink "as soon as possible"; an attempt the
  MAC refuses is repeated a whole duty cycle later.  `WantedIsSent` says that it
  is repeated, not when.
- A replaced session that a node resumed after two restarts is never given up,
  because no handler looks at whether anybody answers.  The model reaches the
  state; the repository promises nothing that it contradicts.
- What the report says of an uplink when a second attempt was made before its
  confirmation.  `AppData` is then the second frame, sent or refused, and the
  report is about the wrong one; `ReportFitsFrame` speaks of the other case.
  Nothing in the repository promises more.
