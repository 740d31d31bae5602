----------------------------- MODULE SensorNode -----------------------------
(***************************************************************************)
(* The measurement of the sensor node: PrepareTxFrame                      *)
(* (node/sensor/main.c), which the state machine calls before each uplink, *)
(* and the DS18B20 driver below it (node/sensor/ds18b20.c).                *)
(*                                                                         *)
(* The driver speaks the one-wire protocol through a UART: a reset pulse   *)
(* at 9600 baud, then one UART byte per bit at 115200.  Nothing else       *)
(* touches the UART, so pc moves from one transfer to the next.  The       *)
(* sensor on the wire and the UART (UartSingleWireTxRx) are not in the     *)
(* repository; transfers fail or are garbled, and the sensor loses its     *)
(* power, at any moment.                                                   *)
(***************************************************************************)
EXTENDS Integers, Sequences

CONSTANTS
  Temperatures,   \* what a conversion may yield, as 16 bit
  PowerOnValue,   \* scratchpad of a sensor that has not converted yet
  BatteryLevels   \* results of BoardGetBatteryLevel

Byte == 0 .. 255
Word == {t \in Nat : t < 65536}

ASSUME TemperaturesAssumption == Temperatures \subseteq Word
ASSUME PowerOnValueAssumption == PowerOnValue \in Word
ASSUME BatteryLevelsAssumption == BatteryLevels \subseteq Byte

VARIABLES
  pc,
  baud,                     \* the UART's rate
  LastMeasuredTemperature,
  lsb,                      \* the first byte read from the scratchpad
  returned,                 \* result of Ds18b20ReadTemperature
  AppDataBuffer,            \* battery level, temperature high byte, low byte
  sensor,                   \* (external) what the DS18B20 waits for
  scratchpad,               \* (external) its last conversion
  measured,                 \* what it converted in this call, or Nothing
  disturbed                 \* a transfer of this call failed or was garbled,
                            \* or the sensor had no power during it

driver == <<pc, baud, LastMeasuredTemperature, lsb, returned, AppDataBuffer>>
wire == <<sensor, scratchpad, measured, disturbed>>
vars == <<driver, wire>>

\* The transfers of Ds18b20ReadTemperature in their order: twice a reset and
\* a skip-ROM command, first to convert and then to read two bytes.  "fill"
\* is the rest of PrepareTxFrame, "framed" its end.
Location == {"idle", "reset_convert", "skip_convert", "convert",
             "reset_read", "skip_read", "scratchpad", "lsb", "msb",
             "fill", "framed"}

SensorState == {"absent", "idle", "rom", "function", "lsb", "msb"}

\* No conversion in this call.
Nothing == -1

DataOK ==
  /\ pc \in Location
  /\ baud \in {9600, 115200}
  /\ LastMeasuredTemperature \in Word
  /\ lsb \in Byte
  /\ AppDataBuffer \in Byte \X Byte \X Byte
  /\ sensor \in SensorState
  /\ scratchpad \in Word
  /\ measured \in Temperatures \cup {Nothing}

FlagsOK == returned \in BOOLEAN /\ disturbed \in BOOLEAN

TypeOK == DataOK /\ FlagsOK

\* After SetupUartForDs18b20; file-scope variables are zero.
Init ==
  /\ pc = "idle"
  /\ baud = 9600
  /\ LastMeasuredTemperature = 0
  /\ lsb = 0
  /\ returned = FALSE
  /\ AppDataBuffer = <<0, 0, 0>>
  /\ sensor \in {"absent", "idle"}
  /\ scratchpad = PowerOnValue
  /\ measured = Nothing
  /\ disturbed = FALSE

-----------------------------------------------------------------------------
(* Ds18b20SendByte: eight UART bytes for the eight bits of one             *)

Weight == <<1, 2, 4, 8, 16, 32, 64, 128>>

\* The least significant bit goes first; a 1 is a byte of ones.
TxBuffer(sendByte) ==
  [i \in 1 .. 8 |-> IF (sendByte \div Weight[i]) % 2 = 1 THEN 255 ELSE 0]

\* (mutant) the bits are put together in the order they were not sent in
AnswerReversed(rxBuffer) ==
  LET bit(i) == IF rxBuffer[9 - i] = 255 THEN Weight[i] ELSE 0
  IN  bit(1) + bit(2) + bit(3) + bit(4) + bit(5) + bit(6) + bit(7) + bit(8)

\* Whatever is not a byte of ones was pulled down by the sensor.
Answer(rxBuffer) ==
  LET bit(i) == IF rxBuffer[i] = 255 THEN Weight[i] ELSE 0
  IN  bit(1) + bit(2) + bit(3) + bit(4) + bit(5) + bit(6) + bit(7) + bit(8)

-----------------------------------------------------------------------------
(* The sensor (external)                                                   *)

SkipRom == 204         \* 0xCC
ConvertT == 68         \* 0x44
ReadScratchpad == 190  \* 0xBE

\* A byte on the wire.  The sensor understands it at the right rate and in
\* the right order; after anything else it waits for the next reset.
Hear(byte) ==
  \/ /\ baud = 115200 /\ sensor = "rom" /\ byte = SkipRom
     /\ sensor' = "function"
     /\ UNCHANGED <<scratchpad, measured>>
  \/ /\ baud = 115200 /\ sensor = "function" /\ byte = ConvertT
     /\ sensor' = "idle"
     /\ scratchpad' \in Temperatures
     /\ measured' = scratchpad'
  \/ /\ baud = 115200 /\ sensor = "function" /\ byte = ReadScratchpad
     /\ sensor' = "lsb"
     /\ UNCHANGED <<scratchpad, measured>>
  \/ /\ ~ (baud = 115200 /\ \/ sensor = "rom" /\ byte = SkipRom
                            \/ sensor = "function"
                               /\ byte \in {ConvertT, ReadScratchpad})
     /\ sensor' = IF sensor = "absent" THEN "absent" ELSE "idle"
     /\ UNCHANGED <<scratchpad, measured>>

\* What the sensor sends next; a wire nobody pulls down reads as ones.
Sends ==
  IF baud # 115200 THEN 255
  ELSE IF sensor = "lsb" THEN scratchpad % 256
  ELSE IF sensor = "msb" THEN scratchpad \div 256 ELSE 255

AfterSending ==
  IF sensor = "lsb" THEN "msb" ELSE IF sensor = "absent" THEN "absent" ELSE "idle"

SensorLost ==
  /\ sensor # "absent"
  /\ sensor' = "absent"
  /\ disturbed' = TRUE
  /\ UNCHANGED <<driver, scratchpad, measured>>

SensorPowered ==
  /\ sensor = "absent"
  /\ sensor' = "idle"
  /\ scratchpad' = PowerOnValue
  /\ UNCHANGED <<driver, measured, disturbed>>

-----------------------------------------------------------------------------
(* The driver                                                              *)

\* (mutant) the last temperature stays where it is
FailQuietly ==
  /\ returned' = FALSE
  /\ pc' = "fill"
  /\ UNCHANGED <<LastMeasuredTemperature, lsb>>

\* LastMeasuredTemperature = 0; return false;
Fail ==
  /\ LastMeasuredTemperature' = 0
  /\ returned' = FALSE
  /\ pc' = "fill"
  /\ UNCHANGED lsb

\* (mutant) the UART stays at the rate of the reset pulse
Ds18b20ResetSlow(next) ==
  /\ baud' = 9600
  /\ \/ /\ sensor # "absent"
        /\ sensor' = "rom"
        /\ pc' = next
        /\ UNCHANGED <<LastMeasuredTemperature, returned, lsb, disturbed>>
     \/ /\ UNCHANGED sensor
        /\ disturbed' = TRUE
        /\ Fail
  /\ UNCHANGED <<AppDataBuffer, scratchpad, measured>>

\* Ds18b20Reset, and what its caller does when it returns false.  An answer
\* that differs from the request counts as presence, also when it is noise.
Ds18b20Reset(next) ==
  /\ \/ /\ sensor # "absent"
        /\ sensor' = "rom"
        /\ baud' = 115200
        /\ pc' = next
        /\ UNCHANGED <<LastMeasuredTemperature, returned, lsb, disturbed>>
     \/ /\ UNCHANGED sensor
        /\ disturbed' = TRUE
        /\ baud' = 115200
        /\ pc' = next
        /\ UNCHANGED <<LastMeasuredTemperature, returned, lsb>>
     \/ /\ sensor' \in {sensor, IF sensor = "absent" THEN "absent" ELSE "rom"}
        /\ disturbed' = TRUE
        /\ baud' = 9600
        /\ Fail
  /\ UNCHANGED <<AppDataBuffer, scratchpad, measured>>

\* Ds18b20SendByte where the caller ignores the result: the sensor heard the
\* byte, or not.
SendIgnoringResult(byte, next) ==
  /\ \/ Hear(byte) /\ UNCHANGED disturbed
     \/ UNCHANGED <<sensor, scratchpad, measured>> /\ disturbed' = TRUE
  /\ pc' = next
  /\ UNCHANGED <<baud, LastMeasuredTemperature, lsb, returned, AppDataBuffer>>

\* PrepareTxFrame is called with port 2, and measures first.
PrepareTxFrame ==
  /\ pc \in {"idle", "framed"}
  /\ pc' = "reset_convert"
  /\ measured' = Nothing
  /\ disturbed' = (sensor = "absent")
  /\ UNCHANGED <<baud, LastMeasuredTemperature, lsb, returned, AppDataBuffer,
                 sensor, scratchpad>>

ResetToConvert ==
  /\ pc = "reset_convert"
  /\ Ds18b20Reset("skip_convert")

SkipRomToConvert ==
  /\ pc = "skip_convert"
  /\ SendIgnoringResult(SkipRom, "convert")

\* Ds18b20StartTempConversion and the 750 ms a conversion takes at most.
StartTempConversion ==
  /\ pc = "convert"
  /\ SendIgnoringResult(ConvertT, "reset_read")

ResetToRead ==
  /\ pc = "reset_read"
  /\ Ds18b20Reset("skip_read")

SkipRomToRead ==
  /\ pc = "skip_read"
  /\ SendIgnoringResult(SkipRom, "scratchpad")

ReadScratchpadCommand ==
  /\ pc = "scratchpad"
  /\ SendIgnoringResult(ReadScratchpad, "lsb")

\* Ds18b20ReadByte(&lsb): the byte on the wire, a garbled one, or a failure.
ReadLsb ==
  /\ pc = "lsb"
  /\ \/ /\ lsb' = Answer(TxBuffer(Sends))
        /\ sensor' = AfterSending
        /\ pc' = "msb"
        /\ UNCHANGED <<LastMeasuredTemperature, returned, disturbed>>
     \/ /\ lsb' \in {0, 255}
        /\ sensor' \in {sensor, AfterSending}
        /\ disturbed' = TRUE
        /\ pc' = "msb"
        /\ UNCHANGED <<LastMeasuredTemperature, returned>>
     \/ /\ sensor' \in {sensor, AfterSending}
        /\ disturbed' = TRUE
        /\ Fail
  /\ UNCHANGED <<baud, AppDataBuffer, scratchpad, measured>>

\* (mutant) the high byte is shifted too far
ReadMsbShifted ==
  /\ pc = "msb"
  /\ LastMeasuredTemperature' = Answer(TxBuffer(Sends)) * 512 + lsb
  /\ sensor' = AfterSending
  /\ returned' = TRUE
  /\ pc' = "fill"
  /\ UNCHANGED <<baud, lsb, AppDataBuffer, scratchpad, measured, disturbed>>

\* Ds18b20ReadByte(&msb), and LastMeasuredTemperature = (msb << 8) | lsb.
ReadMsb ==
  /\ pc = "msb"
  /\ \/ /\ LastMeasuredTemperature' = Answer(TxBuffer(Sends)) * 256 + lsb
        /\ sensor' = AfterSending
        /\ returned' = TRUE
        /\ pc' = "fill"
        /\ UNCHANGED <<lsb, disturbed>>
     \/ /\ LastMeasuredTemperature' \in {lsb, 255 * 256 + lsb}
        /\ sensor' \in {sensor, AfterSending}
        /\ disturbed' = TRUE
        /\ returned' = TRUE
        /\ pc' = "fill"
        /\ UNCHANGED lsb
     \/ /\ sensor' \in {sensor, AfterSending}
        /\ disturbed' = TRUE
        /\ Fail
  /\ UNCHANGED <<baud, AppDataBuffer, scratchpad, measured>>

\* The rest of PrepareTxFrame, whether the measurement succeeded or not.
FillBuffer ==
  /\ pc = "fill"
  /\ \E level \in BatteryLevels :
       AppDataBuffer' = <<level,
                          LastMeasuredTemperature \div 256,
                          LastMeasuredTemperature % 256>>
  /\ pc' = "framed"
  /\ UNCHANGED <<baud, LastMeasuredTemperature, lsb, returned, wire>>

-----------------------------------------------------------------------------

Driver ==
  \/ PrepareTxFrame
  \/ ResetToConvert \/ SkipRomToConvert \/ StartTempConversion
  \/ ResetToRead \/ SkipRomToRead \/ ReadScratchpadCommand
  \/ ReadLsb \/ ReadMsb
  \/ FillBuffer

Next == Driver \/ SensorLost \/ SensorPowered

Spec == Init /\ [][Next]_vars
=============================================================================
