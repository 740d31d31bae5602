-------------------------- MODULE SensorNodeProofs --------------------------
(***************************************************************************)
(* The measurement is correct for all temperatures, battery levels and     *)
(* power-on values, and for every pattern of failing transfers.            *)
(***************************************************************************)
EXTENDS SensorNodeProperties, TLAPS

-----------------------------------------------------------------------------
(* Bytes on the wire                                                       *)

\* A bit of a byte, as the quotient that TxBuffer and Answer work with.
LEMMA BitsOfByte ==
  ASSUME NEW b \in Byte
  PROVE  b = 1 * (b % 2) + 2 * ((b \div 2) % 2) + 4 * ((b \div 4) % 2)
             + 8 * ((b \div 8) % 2) + 16 * ((b \div 16) % 2)
             + 32 * ((b \div 32) % 2) + 64 * ((b \div 64) % 2)
             + 128 * ((b \div 128) % 2)
  BY SMTT(60) DEF Byte

\* What Ds18b20SendByte puts on the wire it reads back as the same byte, if
\* the sensor sends it.
LEMMA ByteSurvivesWire ==
  ASSUME NEW b \in Byte
  PROVE  Answer(TxBuffer(b)) = b
  <1> DEFINE q(w) == (b \div w) % 2
  <1>1. \A i \in 1 .. 8 : TxBuffer(b)[i] = IF q(Weight[i]) = 1 THEN 255 ELSE 0
    BY DEF TxBuffer
  <1> QED
    BY <1>1, BitsOfByte, SMTT(60) DEF Answer, Weight, Byte

\* The members of Byte and Word, for arithmetic.
LEMMA Bytes == \A b : b \in Byte <=> b \in Nat /\ b <= 255
  BY DEF Byte

LEMMA Words == \A t : t \in Word <=> t \in Nat /\ t < 65536
  BY DEF Word

\* Two bytes and the 16 bit they stand for.
LEMMA TwoBytes ==
  ASSUME NEW t \in Word
  PROVE  /\ t \div 256 \in Byte
         /\ t % 256 \in Byte
         /\ (t \div 256) * 256 + (t % 256) = t
  <1>1. t \in Nat /\ t < 65536
    BY Words
  <1>2. t \div 256 \in Int /\ t % 256 \in Int
    BY <1>1
  <1>3. /\ 0 <= t \div 256 /\ t \div 256 <= 255
        /\ 0 <= t % 256 /\ t % 256 <= 255
        /\ (t \div 256) * 256 + (t % 256) = t
    BY <1>1
  <1> QED
    BY <1>2, <1>3, Bytes

\* The sensor always sends a byte, and the driver reads that byte.
LEMMA ReadsWhatIsSent ==
  ASSUME DataOK
  PROVE  Sends \in Byte /\ Answer(TxBuffer(Sends)) = Sends
  <1>1. scratchpad \div 256 \in Byte /\ scratchpad % 256 \in Byte
    BY TwoBytes DEF DataOK
  <1>2. 255 \in Byte
    BY Bytes
  <1>3. Sends \in Byte
    BY <1>1, <1>2, SMT DEF Sends
  <1> QED
    BY <1>3, ByteSurvivesWire

-----------------------------------------------------------------------------
(* Type correctness                                                        *)

\* After the start every variable has its type.
LEMMA TypeInit == Init => TypeOK
  <1>1. Init => DataOK
    BY PowerOnValueAssumption, Bytes, Words
    DEF Init, DataOK, Location, SensorState, Nothing
  <1>2. Init => returned = FALSE /\ disturbed = FALSE
    BY DEF Init
  <1>3. Init => FlagsOK
    BY <1>2, Zenon DEF FlagsOK
  <1> QED
    BY <1>1, <1>3 DEF TypeOK

\* Each step assigns truth values to the two flags.
LEMMA FlagsStep == FlagsOK /\ [Next]_vars => FlagsOK'
  <1> SUFFICES ASSUME FlagsOK, [Next]_vars PROVE FlagsOK'
    OBVIOUS
  <1>1. CASE PrepareTxFrame
    BY <1>1, Zenon DEF PrepareTxFrame, FlagsOK
  <1>2. CASE ResetToConvert \/ ResetToRead
    <2>1. PICK next \in Location : Ds18b20Reset(next)
      BY <1>2 DEF ResetToConvert, ResetToRead, Location
    <2>2. /\ disturbed' = disturbed \/ disturbed' = TRUE
          /\ returned' = returned \/ returned' = FALSE
      BY <2>1 DEF Ds18b20Reset, Fail
    <2> QED
      BY <2>2, Zenon DEF FlagsOK
  <1>3. CASE SkipRomToConvert \/ StartTempConversion \/ SkipRomToRead
               \/ ReadScratchpadCommand
    BY <1>3, Zenon
    DEF SkipRomToConvert, StartTempConversion, SkipRomToRead,
        ReadScratchpadCommand, SendIgnoringResult, FlagsOK
  <1>4. CASE ReadLsb
    BY <1>4, Zenon DEF ReadLsb, Fail, FlagsOK
  <1>5. CASE ReadMsb
    BY <1>5, Zenon DEF ReadMsb, Fail, FlagsOK
  <1>6. CASE FillBuffer
    BY <1>6, Zenon DEF FillBuffer, wire, FlagsOK
  <1>7. CASE SensorLost
    BY <1>7, Zenon DEF SensorLost, driver, FlagsOK
  <1>8. CASE SensorPowered
    BY <1>8, Zenon DEF SensorPowered, driver, FlagsOK
  <1>9. CASE UNCHANGED vars
    BY <1>9, Zenon DEF vars, driver, wire, FlagsOK
  <1> QED
    BY <1>1, <1>2, <1>3, <1>4, <1>5, <1>6, <1>7, <1>8, <1>9, Zenon
    DEF Next, Driver

\* A byte on the wire leaves sensor and scratchpad in their types.
LEMMA HearType ==
  ASSUME DataOK, NEW b, Hear(b)
  PROVE  /\ sensor' \in SensorState
         /\ scratchpad' \in Word
         /\ measured' \in Temperatures \cup {Nothing}
  <1>1. sensor' \in SensorState
    BY DEF Hear, SensorState
  <1>2. \/ scratchpad' \in Temperatures /\ measured' = scratchpad'
        \/ scratchpad' = scratchpad /\ measured' = measured
    BY DEF Hear
  <1> QED
    BY <1>1, <1>2, TemperaturesAssumption DEF DataOK

\* A transfer whose result is ignored keeps the types.
LEMMA SendType ==
  ASSUME DataOK, NEW b, NEW next \in Location, SendIgnoringResult(b, next)
  PROVE  DataOK'
  <1>1. CASE Hear(b)
    BY <1>1, HearType DEF SendIgnoringResult, DataOK
  <1>2. CASE UNCHANGED <<sensor, scratchpad, measured>>
    BY <1>2 DEF SendIgnoringResult, DataOK
  <1> QED
    BY <1>1, <1>2 DEF SendIgnoringResult

\* A reset keeps the types, whatever the answer.
LEMMA ResetType ==
  ASSUME DataOK, NEW next \in Location, Ds18b20Reset(next)
  PROVE  DataOK'
  BY Words DEF Ds18b20Reset, Fail, DataOK, SensorState, Location

\* No transfer, failure or loss of power leaves the types.
LEMMA DataStep == DataOK /\ [Next]_vars => DataOK'
  <1> SUFFICES ASSUME DataOK, [Next]_vars PROVE DataOK'
    OBVIOUS
  <1>1. CASE PrepareTxFrame
    BY <1>1 DEF PrepareTxFrame, DataOK, Location
  <1>2. CASE ResetToConvert \/ ResetToRead
    BY <1>2, ResetType DEF ResetToConvert, ResetToRead, Location
  <1>3. CASE SkipRomToConvert \/ StartTempConversion \/ SkipRomToRead
               \/ ReadScratchpadCommand
    BY <1>3, SendType
    DEF SkipRomToConvert, StartTempConversion, SkipRomToRead,
        ReadScratchpadCommand, Location
  <1>4. CASE ReadLsb
    <2>1. Answer(TxBuffer(Sends)) \in Byte /\ {0, 255} \subseteq Byte
      BY ReadsWhatIsSent, Bytes
    <2> QED
      BY <1>4, <2>1, Words
      DEF ReadLsb, Fail, DataOK, AfterSending, SensorState, Location
  <1>5. CASE ReadMsb
    <2>1. Answer(TxBuffer(Sends)) * 256 + lsb \in Word
      BY ReadsWhatIsSent, Bytes, Words DEF DataOK
    <2>2. {lsb, 255 * 256 + lsb} \subseteq Word
      BY Bytes, Words DEF DataOK
    <2> QED
      BY <1>5, <2>1, <2>2, Words
      DEF ReadMsb, Fail, DataOK, AfterSending, SensorState, Location
  <1>6. CASE FillBuffer
    <2>1. LastMeasuredTemperature \div 256 \in Byte
          /\ LastMeasuredTemperature % 256 \in Byte
      BY TwoBytes DEF DataOK
    <2>2. PICK level \in BatteryLevels :
            AppDataBuffer' = <<level, LastMeasuredTemperature \div 256,
                               LastMeasuredTemperature % 256>>
      BY <1>6, Zenon DEF FillBuffer
    <2>3. AppDataBuffer' \in Byte \X Byte \X Byte
      BY <2>1, <2>2, BatteryLevelsAssumption
    <2> QED
      BY <1>6, <2>3 DEF FillBuffer, DataOK, Location, wire
  <1>7. CASE SensorLost
    BY <1>7 DEF SensorLost, DataOK, SensorState, driver
  <1>8. CASE SensorPowered
    BY <1>8, PowerOnValueAssumption
    DEF SensorPowered, DataOK, SensorState, driver
  <1>9. CASE UNCHANGED vars
    BY <1>9 DEF vars, driver, wire, DataOK
  <1> QED
    BY <1>1, <1>2, <1>3, <1>4, <1>5, <1>6, <1>7, <1>8, <1>9 DEF Next, Driver

\* Both together.
LEMMA TypeStep == TypeOK /\ [Next]_vars => TypeOK'
  BY FlagsStep, DataStep DEF TypeOK

\* Every variable keeps its type in every reachable state.
THEOREM TypeCorrect == Spec => []TypeOK
  BY TypeInit, TypeStep, PTL DEF Spec

-----------------------------------------------------------------------------
(* The inductive invariant                                                 *)

\* Nothing has been sent or measured at the start.
LEMMA InvInit == Init => IInv
  <1> SUFFICES ASSUME Init PROVE IInv
    OBVIOUS
  <1> QED
    BY TypeInit
    DEF Init, IInv, BaudFitsPhase, SensorFollows, ValueFollows,
        OneConversion, ZeroAfterFailure, UndisturbedFrameIsFresh, FailureSendsZero

\* Each step keeps the invariant; the transfers are told apart by what the
\* sensor heard.
LEMMA InvStep == IInv /\ [Next]_vars => IInv'
  <1> SUFFICES ASSUME IInv, [Next]_vars PROVE IInv'
    OBVIOUS
  <1> USE DEF BaudFitsPhase, SensorFollows, ValueFollows, OneConversion,
              ZeroAfterFailure, UndisturbedFrameIsFresh, FailureSendsZero,
              FrameTemperature
  <1>0. TypeOK /\ TypeOK' /\ DataOK
    BY TypeStep DEF IInv, TypeOK
  <1>1. CASE PrepareTxFrame
    <2>1. pc' = "reset_convert" /\ sensor' = sensor /\ measured' = Nothing
      BY <1>1 DEF PrepareTxFrame
    <2>2. ~disturbed' => sensor # "absent"
      BY <1>1, Zenon DEF PrepareTxFrame
    <2> QED
      BY <1>0, <2>1, <2>2 DEF IInv
  <1>2. CASE ResetToConvert
    BY <1>0, <1>2 DEF IInv, ResetToConvert, Ds18b20Reset, Fail
  <1>3. CASE SkipRomToConvert
    BY <1>0, <1>3
    DEF IInv, SkipRomToConvert, SendIgnoringResult, Hear, SkipRom, ConvertT,
        ReadScratchpad
  <1>4. CASE StartTempConversion
    <2>1. Nothing \notin Temperatures
      BY TemperaturesAssumption, Words DEF Nothing
    <2> QED
      BY <1>0, <1>4, <2>1
      DEF IInv, StartTempConversion, SendIgnoringResult, Hear, SkipRom,
          ConvertT, ReadScratchpad
  <1>5. CASE ResetToRead
    BY <1>0, <1>5 DEF IInv, ResetToRead, Ds18b20Reset, Fail
  <1>6. CASE SkipRomToRead
    BY <1>0, <1>6
    DEF IInv, SkipRomToRead, SendIgnoringResult, Hear, SkipRom, ConvertT,
        ReadScratchpad
  <1>7. CASE ReadScratchpadCommand
    BY <1>0, <1>7
    DEF IInv, ReadScratchpadCommand, SendIgnoringResult, Hear, SkipRom,
        ConvertT, ReadScratchpad
  <1>8. CASE ReadLsb
    BY <1>0, <1>8, ReadsWhatIsSent
    DEF IInv, ReadLsb, Fail, Sends, AfterSending
  <1>9. CASE ReadMsb
    <2>1. \A t \in Word : (t \div 256) * 256 + (t % 256) = t
      BY TwoBytes
    <2>2. scratchpad \in Word
      BY <1>0 DEF DataOK
    <2> QED
      BY <1>0, <1>9, <2>1, <2>2, ReadsWhatIsSent
      DEF IInv, ReadMsb, Fail, Sends, AfterSending
  <1>10. CASE FillBuffer
    <2>1. \A t \in Word : (t \div 256) * 256 + (t % 256) = t
      BY TwoBytes
    <2>2. LastMeasuredTemperature \in Word
      BY <1>0 DEF DataOK
    <2>3. FrameTemperature' = LastMeasuredTemperature
      BY <1>10, <2>1, <2>2 DEF FillBuffer
    <2> QED
      BY <1>0, <1>10, <2>3 DEF IInv, FillBuffer, wire
  <1>11. CASE SensorLost
    BY <1>0, <1>11 DEF IInv, SensorLost, driver
  <1>12. CASE SensorPowered
    BY <1>0, <1>12 DEF IInv, SensorPowered, driver
  <1>13. CASE UNCHANGED vars
    BY <1>0, <1>13 DEF IInv, vars, driver, wire
  <1> QED
    BY <1>1, <1>2, <1>3, <1>4, <1>5, <1>6, <1>7, <1>8, <1>9, <1>10, <1>11,
       <1>12, <1>13
    DEF Next, Driver

\* The invariant holds in every reachable state.
THEOREM Inductive == Spec => []IInv
  BY InvInit, InvStep, PTL DEF Spec

\* A call without a failing transfer sends the temperature it measured.
THEOREM UndisturbedIsFresh == Spec => []UndisturbedFrameIsFresh
  <1>1. IInv => UndisturbedFrameIsFresh
    BY DEF IInv
  <1> QED
    BY <1>1, Inductive, PTL

\* A known failure is sent as 0.
THEOREM FailureIsZero == Spec => []FailureSendsZero
  <1>1. IInv => FailureSendsZero
    BY DEF IInv
  <1> QED
    BY <1>1, Inductive, PTL
-----------------------------------------------------------------------------
(* Refinement                                                              *)

\* At the start nothing has been asked for.
LEMMA ContractInit == Init => Contract!Init
  <1> SUFFICES ASSUME Init PROVE Contract!Init
    OBVIOUS
  <1>1. /\ ContractPhase = "resting"
        /\ FrameTemperature = 0
        /\ LastMeasuredTemperature = 0
        /\ measured = Nothing
    BY DEF Init, ContractPhase, FrameTemperature
  <1>2. disturbed = FALSE /\ returned = FALSE
    BY DEF Init
  <1> QED
    BY <1>1, <1>2, Zenon DEF Contract!Init

\* A call that breaks off has met a disturbance and answers 0.
LEMMA FailIsFail ==
  ASSUME Fail, disturbed' = TRUE, UNCHANGED <<measured, AppDataBuffer>>,
         ContractPhase = "measuring"
  PROVE  Contract!Fail
  <1>1. ContractPhase' = "answered"
    BY DEF Fail, ContractPhase
  <1>2. /\ returned' = FALSE
        /\ LastMeasuredTemperature' = 0
        /\ FrameTemperature' = FrameTemperature
    BY DEF Fail, FrameTemperature
  <1> QED
    BY <1>1, <1>2, Zenon DEF Contract!Fail, Contract!Answer

\* A reset is a disturbance at most, unless the call breaks off.
LEMMA ResetIsQuiet ==
  ASSUME NEW next \in Location, Ds18b20Reset(next),
         ContractPhase = "measuring",
         next \notin {"idle", "fill", "framed"}
  PROVE  [Contract!Next]_(Contract!vars)
  <1>1. CASE pc' = next /\ UNCHANGED <<LastMeasuredTemperature, returned>>
    <2>1. /\ ContractPhase' = ContractPhase
          /\ FrameTemperature' = FrameTemperature
          /\ LastMeasuredTemperature' = LastMeasuredTemperature
          /\ measured' = measured
      BY <1>1 DEF Ds18b20Reset, ContractPhase, FrameTemperature
    <2>2. returned' = returned
      BY <1>1, Zenon
    <2>3. disturbed' = disturbed \/ disturbed' = TRUE
      BY DEF Ds18b20Reset
    <2> QED
      BY <2>1, <2>2, <2>3, Zenon
      DEF Contract!Next, Contract!Disturb, Contract!vars
  <1>2. CASE Fail /\ disturbed' = TRUE
    BY <1>2, FailIsFail DEF Ds18b20Reset, Contract!Next
  <1>3. \/ pc' = next /\ UNCHANGED <<LastMeasuredTemperature, returned>>
        \/ Fail /\ disturbed' = TRUE
    BY DEF Ds18b20Reset
  <1> QED
    BY <1>1, <1>2, <1>3, Zenon

\* A transfer whose result is ignored is a conversion, if the sensor hears
\* one, or a disturbance, or nothing.
LEMMA SendIsQuiet ==
  ASSUME NEW b, NEW next \in Location, SendIgnoringResult(b, next),
         ContractPhase = "measuring",
         next \notin {"idle", "fill", "framed"},
         b = ConvertT => measured = Nothing
  PROVE  [Contract!Next]_(Contract!vars)
  <1>1. /\ ContractPhase' = ContractPhase
        /\ FrameTemperature' = FrameTemperature
        /\ LastMeasuredTemperature' = LastMeasuredTemperature
    BY DEF SendIgnoringResult, ContractPhase, FrameTemperature
  <1>2. returned' = returned
    BY Zenon DEF SendIgnoringResult
  <1>3. CASE measured' = measured
    <2>1. disturbed' = disturbed \/ disturbed' = TRUE
      BY Zenon DEF SendIgnoringResult
    <2> QED
      BY <1>1, <1>2, <1>3, <2>1, Zenon
      DEF Contract!Next, Contract!Disturb, Contract!vars
  <1>4. CASE measured' # measured
    <2>1. Hear(b) /\ disturbed' = disturbed
      BY <1>4 DEF SendIgnoringResult
    <2>2. b = ConvertT /\ measured' \in Temperatures
      BY <1>4, <2>1 DEF Hear
    <2> QED
      BY <1>1, <1>2, <2>1, <2>2, Zenon
      DEF Contract!Next, Contract!Convert
  <1> QED
    BY <1>3, <1>4

\* Every step of the driver, the sensor and the wire is a step of the
\* contract, or invisible to it.
LEMMA ContractStep ==
  IInv /\ IInv' /\ [Next]_vars => [Contract!Next]_(Contract!vars)
  <1> SUFFICES ASSUME IInv, IInv', [Next]_vars
               PROVE  [Contract!Next]_(Contract!vars)
    OBVIOUS
  <1>0. DataOK /\ DataOK' /\ FlagsOK'
    BY DEF IInv, TypeOK
  <1>1. CASE PrepareTxFrame
    <2>1. /\ ContractPhase = "resting" /\ ContractPhase' = "measuring"
          /\ FrameTemperature' = FrameTemperature
          /\ LastMeasuredTemperature' = LastMeasuredTemperature
          /\ measured' = Nothing
      BY <1>1 DEF PrepareTxFrame, ContractPhase, FrameTemperature
    <2>2. returned' = returned /\ disturbed' \in BOOLEAN
      BY <1>0, <1>1, Zenon DEF PrepareTxFrame, FlagsOK
    <2> QED
      BY <2>1, <2>2, Zenon DEF Contract!Next, Contract!Ask
  <1>2. CASE ResetToConvert
    BY <1>2, ResetIsQuiet DEF ResetToConvert, ContractPhase, Location
  <1>3. CASE SkipRomToConvert
    BY <1>3, SendIsQuiet
    DEF SkipRomToConvert, ContractPhase, Location, SkipRom, ConvertT
  <1>4. CASE StartTempConversion
    BY <1>4, SendIsQuiet
    DEF StartTempConversion, ContractPhase, Location, IInv, OneConversion
  <1>5. CASE ResetToRead
    BY <1>5, ResetIsQuiet DEF ResetToRead, ContractPhase, Location
  <1>6. CASE SkipRomToRead
    BY <1>6, SendIsQuiet
    DEF SkipRomToRead, ContractPhase, Location, SkipRom, ConvertT
  <1>7. CASE ReadScratchpadCommand
    BY <1>7, SendIsQuiet
    DEF ReadScratchpadCommand, ContractPhase, Location, ReadScratchpad,
        ConvertT
  <1>8. CASE ReadLsb
    <2>1. CASE pc' = "msb" /\ UNCHANGED <<LastMeasuredTemperature, returned>>
      <3>1. /\ ContractPhase' = ContractPhase
            /\ FrameTemperature' = FrameTemperature
            /\ LastMeasuredTemperature' = LastMeasuredTemperature
            /\ measured' = measured
        BY <1>8, <2>1 DEF ReadLsb, ContractPhase, FrameTemperature
      <3>2. returned' = returned
        BY <2>1, Zenon
      <3>3. disturbed' = disturbed \/ disturbed' = TRUE
        BY <1>8 DEF ReadLsb
      <3> QED
        BY <3>1, <3>2, <3>3, Zenon
        DEF Contract!Next, Contract!Disturb, Contract!vars
    <2>2. CASE Fail /\ disturbed' = TRUE
      BY <1>8, <2>2, FailIsFail DEF ReadLsb, ContractPhase, Contract!Next
    <2> QED
      BY <1>8, <2>1, <2>2, Zenon DEF ReadLsb
  <1>9. CASE ReadMsb
    <2>1. ContractPhase = "measuring" /\ ContractPhase' = "answered"
      BY <1>9 DEF ReadMsb, Fail, ContractPhase
    <2>2. /\ FrameTemperature' = FrameTemperature
          /\ measured' = measured
      BY <1>9 DEF ReadMsb, FrameTemperature
    <2>3. CASE Fail /\ disturbed' = TRUE
      BY <1>9, <2>1, <2>3, FailIsFail DEF ReadMsb, Contract!Next
    <2>4. CASE returned' = TRUE /\ disturbed' = TRUE
      <3>1. LastMeasuredTemperature' \in Word
        BY <1>0 DEF DataOK
      <3> QED
        BY <2>1, <2>2, <2>4, <3>1, Zenon
        DEF Contract!Next, Contract!Succeed, Contract!Answer
    <2>5. CASE returned' = TRUE /\ disturbed' = disturbed
      <3>1. LastMeasuredTemperature' \in Word
        BY <1>0 DEF DataOK
      <3>2. CASE disturbed
        <4>1. disturbed' = TRUE
          BY <1>0, <2>5, <3>2, Zenon DEF FlagsOK
        <4> QED
          BY <2>4, <2>5, <4>1
      <3>3. CASE ~disturbed
        <4>1. ~disturbed' /\ pc' = "fill"
          BY <1>9, <2>5, <3>3, Zenon DEF ReadMsb, Fail
        <4>2. measured' # Nothing /\ LastMeasuredTemperature' = measured'
          BY <4>1 DEF IInv, ValueFollows
        <4> QED
          BY <2>1, <2>2, <2>5, <3>1, <4>2, Zenon
          DEF Contract!Next, Contract!Succeed, Contract!Answer
      <3> QED
        BY <3>2, <3>3
    <2> QED
      BY <1>9, <2>3, <2>4, <2>5, Zenon DEF ReadMsb
  <1>10. CASE FillBuffer
    <2>1. (LastMeasuredTemperature \div 256) * 256
            + (LastMeasuredTemperature % 256) = LastMeasuredTemperature
      BY <1>0, TwoBytes DEF DataOK
    <2>2. /\ FrameTemperature' = LastMeasuredTemperature
          /\ ContractPhase = "answered" /\ ContractPhase' = "resting"
          /\ LastMeasuredTemperature' = LastMeasuredTemperature
          /\ measured' = measured
      BY <1>10, <2>1
      DEF FillBuffer, FrameTemperature, ContractPhase, wire
    <2>3. returned' = returned /\ disturbed' = disturbed
      BY <1>10, Zenon DEF FillBuffer, wire
    <2> QED
      BY <2>2, <2>3, Zenon DEF Contract!Next, Contract!Send
  <1>11. CASE SensorLost
    <2>1. /\ ContractPhase' = ContractPhase
          /\ FrameTemperature' = FrameTemperature
          /\ LastMeasuredTemperature' = LastMeasuredTemperature
          /\ measured' = measured
      BY <1>11 DEF SensorLost, driver, FrameTemperature, ContractPhase
    <2>2. returned' = returned /\ disturbed' = TRUE
      BY <1>11, Zenon DEF SensorLost, driver
    <2> QED
      BY <2>1, <2>2, Zenon DEF Contract!Next, Contract!Disturb
  <1>12. CASE UNCHANGED <<driver, measured, disturbed>>
    <2>1. /\ ContractPhase' = ContractPhase
          /\ FrameTemperature' = FrameTemperature
          /\ LastMeasuredTemperature' = LastMeasuredTemperature
          /\ measured' = measured
      BY <1>12 DEF driver, FrameTemperature, ContractPhase
    <2>2. returned' = returned /\ disturbed' = disturbed
      BY <1>12, Zenon DEF driver
    <2> QED
      BY <2>1, <2>2, Zenon DEF Contract!vars
  <1>13. CASE SensorPowered \/ UNCHANGED vars
    BY <1>12, <1>13 DEF SensorPowered, vars, wire
  <1> QED
    BY <1>1, <1>2, <1>3, <1>4, <1>5, <1>6, <1>7, <1>8, <1>9, <1>10, <1>11,
       <1>13
    DEF Next, Driver

\* To the node the transfers of the driver are one measurement, as
\* SensorContract describes it, whatever fails on the wire.
THEOREM MeasurementRefinesContract == Spec => ImplementsContract
  BY ContractInit, ContractStep, Inductive, PTL
  DEF Spec, ImplementsContract, Contract!Spec
=============================================================================
