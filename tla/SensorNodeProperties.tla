------------------------ MODULE SensorNodeProperties ------------------------
(***************************************************************************)
(* What a frame of the sensor node says about the temperature, with a      *)
(* sensor and a wire that fail at any transfer.                            *)
(***************************************************************************)
EXTENDS SensorNode

\* The receiver's reading of the frame (Readme.md, example payload): two
\* bytes, the high one first.
FrameTemperature == AppDataBuffer[2] * 256 + AppDataBuffer[3]

\* A call that meets no failure succeeds and sends what the sensor converted
\* in this very call, in whatever state earlier calls that broke off left
\* the UART's rate, the sensor and LastMeasuredTemperature
\* (ds18b20.c:106-176, main.c:70-77).
UndisturbedFrameIsFresh ==
  pc = "framed" /\ ~disturbed =>
    /\ returned
    /\ measured # Nothing
    /\ FrameTemperature = measured

\* A measurement the driver knows to have failed is sent as 0 at whichever
\* transfer it failed, and never as the temperature of an earlier frame
\* (ds18b20.c:146-150, 157-161, 166-171).
FailureSendsZero ==
  pc = "framed" /\ ~returned => FrameTemperature = 0

\* "Read the measured temperature from the sensor" (ds18b20.c:156): a call
\* that reports success has measured one.
SuccessIsMeasured == pc = "framed" /\ returned => measured # Nothing

-----------------------------------------------------------------------------
(* Refinement                                                              *)

ContractPhase ==
  CASE pc \in {"idle", "framed"} -> "resting"
    [] pc = "fill"               -> "answered"
    [] OTHER                     -> "measuring"

Contract == INSTANCE SensorContract
  WITH phase       <- ContractPhase,
       success     <- returned,
       temperature <- LastMeasuredTemperature,
       sent        <- FrameTemperature

\* The eight transfers of a measurement, each of which may fail or be
\* garbled, are one measurement to the node, as SensorContract says: nothing
\* that earlier calls left behind gets into its answer, and nothing comes
\* between the answer and the frame (ds18b20.c:43-181, main.c:64-82).
ImplementsContract == Contract!Spec

-----------------------------------------------------------------------------
(* The inductive invariant                                                 *)

\* All bytes of the transmission phase go out at 115200 baud.
BaudFitsPhase ==
  pc \in {"skip_convert", "convert", "reset_read", "skip_read", "scratchpad",
          "lsb", "msb"} => baud = 115200

\* Without a disturbance the sensor waits for exactly the next transfer.
SensorFollows ==
  ~disturbed =>
    /\ pc = "reset_convert" => sensor # "absent"
    /\ pc \in {"skip_convert", "skip_read"} => sensor = "rom"
    /\ pc \in {"convert", "scratchpad"} => sensor = "function"
    /\ pc = "reset_read" => sensor # "absent"
    /\ pc = "lsb" => sensor = "lsb"
    /\ pc = "msb" => sensor = "msb"

\* Without a disturbance the value on its way is the one just converted.
ValueFollows ==
  ~disturbed =>
    /\ pc \in {"reset_read", "skip_read", "scratchpad", "lsb", "msb"}
         => measured # Nothing /\ scratchpad = measured
    /\ pc = "msb" => lsb = measured % 256
    /\ pc = "fill" =>
         returned /\ measured # Nothing /\ LastMeasuredTemperature = measured

\* A call converts once at most.
OneConversion ==
  pc \in {"reset_convert", "skip_convert", "convert"} => measured = Nothing

\* A failure is remembered as 0 until the frame is filled.
ZeroAfterFailure ==
  pc = "fill" /\ ~returned => LastMeasuredTemperature = 0

IInv ==
  /\ TypeOK
  /\ BaudFitsPhase
  /\ SensorFollows
  /\ ValueFollows
  /\ OneConversion
  /\ ZeroAfterFailure
  /\ UndisturbedFrameIsFresh
  /\ FailureSendsZero
=============================================================================
