------------------------ MODULE PayloadDisplayProofs ------------------------
(***************************************************************************)
(* The window and the warning are right for every set of payloads that fit *)
(* a LoRaWAN frame, and for every sequence of messages.                    *)
(***************************************************************************)
EXTENDS PayloadDisplayProperties, FiniteSetTheorems, TLAPS

-----------------------------------------------------------------------------
(* Lemmas                                                                  *)

\* The members of Byte, for arithmetic.
LEMMA Bytes == \A b : b \in Byte <=> b \in Nat /\ b <= 255
  BY DEF Byte

\* A beginning that grows by the next element is the next longer beginning.
LEMMA NextBeginning ==
  ASSUME NEW s \in Seq(Byte), NEW n \in 0 .. (Len(s) - 1)
  PROVE  Append(SubSeq(s, 1, n), s[n + 1]) = SubSeq(s, 1, n + 1)
  OBVIOUS

\* The column of a line that is not longer than the window.
LEMMA CentreColumn ==
  ASSUME NEW n \in Nat, n <= WindowWidth
  PROVE  LET c == ((WindowWidth - n) % SizeModulus) \div 2
         IN  /\ c \in Nat
             /\ 2 * c + n \in {WindowWidth - 1, WindowWidth}
             /\ c + n <= WindowWidth
  <1>1. (WindowWidth - n) % SizeModulus = WindowWidth - n
    BY SizeModulusAssumption DEF WindowWidth
  <1> QED
    BY <1>1 DEF WindowWidth

\* The numbers with two digits in a beginning of the bytes.
TwoDigits(s, n) == {i \in 1 .. n : s[i] > 15}

\* There are no more of them than numbers.
LEMMA TwoDigitsFinite ==
  ASSUME NEW s, NEW n \in Nat
  PROVE  /\ IsFiniteSet(TwoDigits(s, n))
         /\ Cardinality(TwoDigits(s, n)) \in 0 .. n
  <1>1. IsFiniteSet(1 .. n) /\ Cardinality(1 .. n) = n
    BY FS_Interval
  <1>2. TwoDigits(s, n) \in SUBSET (1 .. n)
    BY DEF TwoDigits
  <1>3. /\ IsFiniteSet(TwoDigits(s, n))
        /\ Cardinality(TwoDigits(s, n)) <= n
    BY <1>1, <1>2, FS_Subset
  <1>4. Cardinality(TwoDigits(s, n)) \in Nat
    BY <1>3, FS_CardinalityType
  <1> QED
    BY <1>3, <1>4

\* One cardinality for the contract and for the theorems about finite sets.
LEMMA SameCardinality == \A S : Contract!Cardinality(S) = Cardinality(S)
  BY Zenon DEF Contract!Cardinality, Cardinality

\* The columns of a line, from the numbers with two digits.
LEMMA LineSizeIs ==
  ASSUME NEW s \in Seq(Byte)
  PROVE  Contract!LineSize(s) =
           Separator + Len(s) * (1 + Separator)
             + Cardinality(TwoDigits(s, Len(s)))
  BY SameCardinality DEF Contract!LineSize, TwoDigits

\* A line takes a separator at least, and five columns for each number at most.
LEMMA LineSizeBound ==
  ASSUME NEW s \in Seq(Byte)
  PROVE  /\ Contract!LineSize(s) \in Nat
         /\ Contract!LineSize(s) <= Separator + Len(s) * (2 + Separator)
  <1>1. Len(s) \in Nat
    OBVIOUS
  <1>2. Cardinality(TwoDigits(s, Len(s))) \in 0 .. Len(s)
    BY <1>1, TwoDigitsFinite
  <1> QED
    BY <1>1, <1>2, LineSizeIs DEF Separator

\* The line that on_message begins with.
LEMMA EmptyLine == Contract!LineSize(<<>>) = Separator
  <1>1. TwoDigits(<<>>, 0) = {}
    BY DEF TwoDigits
  <1>2. <<>> \in Seq(Byte) /\ Len(<<>>) = 0
    OBVIOUS
  <1>3. Contract!LineSize(<<>>) =
          Separator + 0 * (1 + Separator) + Cardinality(TwoDigits(<<>>, 0))
    BY <1>2, LineSizeIs
  <1>4. Cardinality(TwoDigits(<<>>, 0)) = 0
    BY <1>1, FS_EmptySet
  <1> QED
    BY <1>3, <1>4 DEF Separator

\* What the loop adds to a line for another byte is what the line grows by.
LEMMA LineGrows ==
  ASSUME NEW s \in Seq(Byte), NEW b \in Byte
  PROVE  Contract!LineSize(Append(s, b)) =
           Contract!LineSize(s) + Digits(b) + Separator
  <1> DEFINE t == Append(s, b)
             n == Len(s)
  <1>1. /\ n \in Nat /\ Len(t) = n + 1 /\ t \in Seq(Byte)
        /\ t[n + 1] = b
        /\ \A i \in 1 .. n : t[i] = s[i]
    OBVIOUS
  <1>2. Cardinality(TwoDigits(t, n + 1)) =
          Cardinality(TwoDigits(s, n)) + (IF b > 15 THEN 1 ELSE 0)
    <2>0. /\ IsFiniteSet(TwoDigits(s, n))
          /\ Cardinality(TwoDigits(s, n)) \in Nat
      BY <1>1, TwoDigitsFinite
    <2>1. CASE b > 15
      <3>1. TwoDigits(t, n + 1) = TwoDigits(s, n) \cup {n + 1}
        BY <1>1, <2>1 DEF TwoDigits
      <3>2. n + 1 \notin TwoDigits(s, n)
        BY <1>1 DEF TwoDigits
      <3> QED
        BY <2>0, <2>1, <3>1, <3>2, FS_AddElement
    <2>2. CASE ~ (b > 15)
      <3>1. TwoDigits(t, n + 1) = TwoDigits(s, n)
        BY <1>1, <2>2 DEF TwoDigits
      <3> QED
        BY <2>0, <2>2, <3>1
    <2> QED
      BY <2>1, <2>2
  <1>3. Digits(b) = 1 + (IF b > 15 THEN 1 ELSE 0)
    BY Bytes DEF Digits
  <1>4. Cardinality(TwoDigits(s, n)) \in Nat
    BY <1>1, TwoDigitsFinite
  <1>5. Contract!LineSize(s) =
          Separator + n * (1 + Separator) + Cardinality(TwoDigits(s, n))
    BY LineSizeIs
  <1>6. Contract!LineSize(t) =
          Separator + (n + 1) * (1 + Separator)
            + Cardinality(TwoDigits(t, n + 1))
    BY <1>1, LineSizeIs
  <1> HIDE DEF t, n
  <1> QED
    BY <1>1, <1>2, <1>3, <1>4, <1>5, <1>6 DEF Separator, t

-----------------------------------------------------------------------------
(* The inductive invariant                                                 *)

\* Nothing is shown at the start.
LEMMA InvInit == Init => IInv
  <1> SUFFICES ASSUME Init PROVE IInv
    OBVIOUS
  <1>1. TypeOK
    BY Bytes DEF Init, TypeOK
  <1> QED
    BY <1>1, MaxPayloadAssumption, Bytes
    DEF Init, IInv, CounterFollows, LineFits, ShowsFirstBytes, WarningIsTrue,
        Smaller, WindowWidth, Separator, BYTE_COUNT

\* A message's bytes are counted without a wrap, and printed in order.
LEMMA InvStep == IInv /\ [Next]_vars => IInv'
  <1> SUFFICES ASSUME IInv, [Next]_vars PROVE IInv'
    OBVIOUS
  <1> USE DEF CounterFollows, LineFits, ShowsFirstBytes, WarningIsTrue
  <1>0. 0 \in Byte
    BY Bytes
  <1>1. CASE Decode
    <2>1. out' \in Seq(Byte) /\ Len(out') <= MaxPayload
      BY <1>1, PayloadsAssumption DEF Decode
    <2>2. TypeOK'
      BY <1>0, <1>1, <2>1 DEF IInv, TypeOK, Decode, Separator
    <2>3. CounterFollows'
      BY <1>1, <2>1, EmptyLine
      DEF IInv, TypeOK, Decode, Smaller, BYTE_COUNT
    <2> QED
      BY <1>1, <2>2, <2>3 DEF IInv, Decode
  <1>2. CASE GetByte
    <2>1. gets' = gets + 1 /\ gets + 1 <= Len(out) /\ gets \in Nat
      BY <1>2 DEF IInv, TypeOK, GetByte
    <2>2. validBytes' = gets + 1 /\ gets + 1 <= 255
      <3>1. gets + 1 <= 255
        BY <2>1, MaxPayloadAssumption, Bytes DEF IInv
      <3>2. (gets + 1) % 256 = gets + 1
        BY <2>1, <3>1
      <3> QED
        BY <1>2, <3>1, <3>2 DEF IInv, GetByte, CounterModulus
    <2>3. out[gets + 1] \in Byte
      BY <2>1 DEF IInv, TypeOK
    <2>4. CASE gets + 1 <= BYTE_COUNT
      <3>1. /\ text = SubSeq(out, 1, gets)
            /\ text' = Append(text, out[gets + 1])
            /\ size' = size + Digits(out[gets + 1]) + Separator
        BY <1>2, <2>1, <2>2, <2>4
        DEF IInv, TypeOK, GetByte, Smaller, BYTE_COUNT
      <3>2. text' = SubSeq(out, 1, gets + 1)
        BY <2>1, <3>1, NextBeginning DEF IInv, TypeOK
      <3>3. text' \in Seq(Byte) /\ Len(text') = Len(text) + 1
        BY <2>3, <3>1 DEF IInv, TypeOK
      <3>4. size' = Contract!LineSize(text') /\ size' \in Nat
        <4>1. size = Contract!LineSize(text)
          BY <1>2 DEF IInv, GetByte
        <4> QED
          BY <2>3, <3>1, <3>3, <4>1, LineGrows, LineSizeBound
          DEF IInv, TypeOK
      <3> QED
        <4>1. validBytes' \in Byte /\ gets' \in Nat
          BY <2>1, <2>2, Bytes
        <4>2. TypeOK'
          BY <1>2, <3>3, <3>4, <4>1, Zenon DEF IInv, TypeOK, GetByte
        <4>3. CounterFollows'
          <5>1. Smaller(gets + 1, BYTE_COUNT) = gets + 1
            BY <2>1, <2>4 DEF Smaller, BYTE_COUNT
          <5> QED
            BY <1>2, <2>1, <2>2, <3>2, <3>4, <5>1 DEF IInv, GetByte
        <4> QED
          BY <1>2, <4>2, <4>3 DEF IInv, GetByte
    <2>5. CASE ~ (gets + 1 <= BYTE_COUNT)
      <3>1. validBytes' \in Byte /\ gets' \in Nat
        BY <2>1, <2>2, Bytes
      <3>2. UNCHANGED <<pc, out, text, size, window, warning>>
        BY <1>2, <2>2, <2>5 DEF GetByte, sstring
      <3>3. TypeOK'
        BY <3>1, <3>2 DEF IInv, TypeOK
      <3>4. text' = SubSeq(out, 1, Smaller(gets + 1, BYTE_COUNT))
        BY <2>1, <2>5, <3>2 DEF IInv, Smaller, BYTE_COUNT
      <3> QED
        BY <1>2, <2>1, <2>2, <3>2, <3>3, <3>4 DEF IInv, GetByte
    <2> QED
      BY <2>4, <2>5
  <1>3. CASE GetEnd
    BY <1>3 DEF IInv, TypeOK, GetEnd, sstring
  <1>4. CASE ShowString
    <2>1. Len(text) <= BYTE_COUNT
      BY <1>4 DEF IInv, TypeOK, ShowString, Smaller, BYTE_COUNT
    <2>2. size \in Nat /\ size <= WindowWidth
      <3>1. text \in Seq(Byte) /\ Len(text) \in Nat
        BY DEF IInv, TypeOK
      <3>2. size = Contract!LineSize(text)
        BY <1>4 DEF IInv, ShowString
      <3>3. size \in Nat /\ size <= Separator + Len(text) * (2 + Separator)
        BY <3>1, <3>2, LineSizeBound, Zenon
      <3> QED
        BY <2>1, <3>1, <3>3 DEF Separator, WindowWidth, BYTE_COUNT
    <2>3. /\ window'.column \in Nat
          /\ 2 * window'.column + size \in {WindowWidth - 1, WindowWidth}
          /\ window'.column + size <= WindowWidth
          /\ window'.text = text /\ window'.size = size
          /\ window' \in [column : Nat, text : Seq(Byte), size : Nat]
      BY <1>4, <2>2, CentreColumn DEF IInv, TypeOK, ShowString
    <2> QED
      BY <1>4, <2>3 DEF IInv, TypeOK, ShowString, sstring
  <1>5. CASE Warn
    <2>1. warning' \in Byte
      BY <1>0, <1>5 DEF IInv, TypeOK, Warn
    <2>2. Len(text) = Smaller(Len(out), BYTE_COUNT)
      BY <1>5 DEF IInv, TypeOK, Warn, Smaller, BYTE_COUNT
    <2> QED
      BY <1>5, <2>1, <2>2, Bytes
      DEF IInv, TypeOK, Warn, sstring, Smaller, BYTE_COUNT
  <1>6. CASE UNCHANGED vars
    BY <1>6 DEF IInv, TypeOK, vars, sstring
  <1> QED
    BY <1>1, <1>2, <1>3, <1>4, <1>5, <1>6 DEF Next

\* The invariant holds in every reachable state.
THEOREM Inductive == Spec => []IInv
  BY InvInit, InvStep, PTL DEF Spec

\* Every variable keeps its type.
THEOREM TypeCorrect == Spec => []TypeOK
  <1>1. IInv => TypeOK
    BY DEF IInv
  <1> QED
    BY <1>1, Inductive, PTL

\* The window shows the beginning of the payload.
THEOREM BeginningIsShown == Spec => []ShowsFirstBytes
  <1>1. IInv => ShowsFirstBytes
    BY DEF IInv
  <1> QED
    BY <1>1, Inductive, PTL

\* The warning comes when it should and names the right number.
THEOREM WarningCorrect == Spec => []WarningIsTrue
  <1>1. IInv => WarningIsTrue
    BY DEF IInv
  <1> QED
    BY <1>1, Inductive, PTL

\* The line is inside the window.
THEOREM LinesFit == Spec => []LineFits
  <1>1. IInv => LineFits
    BY DEF IInv
  <1> QED
    BY <1>1, Inductive, PTL
-----------------------------------------------------------------------------
(* Refinement                                                              *)

\* Before the first message nothing is shown.
LEMMA ContractInit == Init => Contract!Init
  BY DEF Init, Contract!Init, ContractPhase

\* The loop is invisible, and what follows it is a step of the contract.
LEMMA ContractStep ==
  IInv /\ [Next]_vars => [Contract!Next]_(Contract!vars)
  <1> SUFFICES ASSUME IInv, [Next]_vars
               PROVE  [Contract!Next]_(Contract!vars)
    OBVIOUS
  <1>1. CASE Decode
    BY <1>1 DEF Decode, ContractPhase, Contract!Next, Contract!Receive
  <1>2. CASE GetByte \/ GetEnd
    BY <1>2 DEF GetByte, GetEnd, ContractPhase, Contract!vars
  <1>3. CASE ShowString
    <2>1. /\ out \in Seq(Byte) /\ text \in Seq(Byte) /\ size \in Nat
          /\ gets = Len(out)
          /\ text = SubSeq(out, 1, Smaller(gets, BYTE_COUNT))
          /\ size = Contract!LineSize(text)
      BY <1>3 DEF IInv, TypeOK, CounterFollows, ShowString
    <2>2. text = Contract!ShownBytes(out) /\ Len(text) <= BYTE_COUNT
      BY <2>1 DEF Smaller, Contract!ShownBytes, BYTE_COUNT
    <2>3. size <= WindowWidth
      <3>1. size <= Separator + Len(text) * (2 + Separator)
        BY <2>1, LineSizeBound, Zenon
      <3>2. Len(text) \in Nat
        BY <2>1
      <3> QED
        BY <2>1, <2>2, <3>1, <3>2 DEF Separator, BYTE_COUNT, WindowWidth
    <2>4. (WindowWidth - size) % SizeModulus = WindowWidth - size
      BY <2>1, <2>3, SizeModulusAssumption DEF WindowWidth
    <2>5. window' = Contract!Centred(Contract!ShownBytes(out))
      BY <1>3, <2>1, <2>2, <2>4 DEF ShowString, Contract!Centred
    <2> QED
      BY <1>3, <2>5
      DEF ShowString, ContractPhase, Contract!Next, Contract!Show
  <1>4. CASE Warn
    <2>1. validBytes = Len(out)
      BY <1>4 DEF IInv, CounterFollows, Warn
    <2> QED
      BY <1>4, <2>1
      DEF Warn, ContractPhase, Contract!Next, Contract!Warn
  <1>5. CASE UNCHANGED vars
    BY <1>5 DEF vars, ContractPhase, Contract!vars
  <1> QED
    BY <1>1, <1>2, <1>3, <1>4, <1>5 DEF Next

\* A message's line and warning are those PayloadContract asks for: the line
\* has exactly the columns of its numbers, and lies in the middle.
THEOREM DisplayRefinesContract == Spec => Contract!Spec
  BY ContractInit, ContractStep, Inductive, PTL DEF Spec, Contract!Spec
=============================================================================
