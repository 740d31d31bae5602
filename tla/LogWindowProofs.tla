--------------------------- MODULE LogWindowProofs ---------------------------
(***************************************************************************)
(* A line that is printed alone is whole and stays whole, for any number   *)
(* of threads, any set of texts and times, and every size of the window.   *)
(***************************************************************************)
EXTENDS LogWindowProperties, TLAPS

USE HeightAssumption, WidthAssumption

-----------------------------------------------------------------------------
(* Types                                                                   *)

\* The cursor and the cells after a row has been finished.
LEMMA NextRowTypes ==
  ASSUME NEW cells \in Screen, NEW row \in Row, NEW ls \in SUBSET Line,
         NextRow(cells, row, ls)
  PROVE  /\ cursor' \in Position
         /\ cursor'.column = 1
         /\ screen' \in Screen
         /\ lines' \subseteq Line
  <1>1. CASE row < Height
    BY <1>1 DEF NextRow, Position, Row, Column
  <1>2. CASE row = Height
    <2>1. cursor' = [row |-> Height, column |-> 1]
      BY <1>2 DEF NextRow
    <2>2. ScrolledCells(cells) \in Screen
      BY DEF ScrolledCells, Screen, Row, Column
    <2>3. ASSUME NEW l \in ls, l.row > 1
          PROVE  [l EXCEPT !.row = l.row - 1] \in Line
      BY <2>3 DEF Line, Row
    <2>4. ScrolledLines(ls) \subseteq Line
      BY <2>3 DEF ScrolledLines
    <2> QED
      BY <1>2, <2>1, <2>2, <2>4 DEF NextRow, Position, Row, Column
  <1> QED
    BY <1>1, <1>2 DEF Row

LEMMA TypeInit == Init => TypeOK
  <1>1. Init => DataOK
    BY DEF Init, DataOK, Position, Screen, Row, Column
  <1>2. Init => alone \in [Threads -> BOOLEAN]
    BY DEF Init
  <1> QED
    BY <1>1, <1>2 DEF TypeOK

LEMMA TypeStep == TypeOK /\ [Next]_vars => TypeOK'
  <1> SUFFICES ASSUME TypeOK, [Next]_vars
               PROVE  TypeOK'
    OBVIOUS
  <1> USE DEF TypeOK
  <1>1. ASSUME NEW t \in Threads, PrintLine(t)
        PROVE  TypeOK'
    BY <1>1 DEF PrintLine, DataOK, window
  <1>2. ASSUME NEW t \in Threads, Localtime(t)
        PROVE  TypeOK'
    <2>1. DataOK'
      BY <1>2 DEF Localtime, DataOK, window, stream
    <2>2. alone' \in [Threads -> BOOLEAN]
      BY <1>2, Zenon DEF Localtime
    <2> QED
      BY <2>1, <2>2
  <1>3. ASSUME NEW t \in Threads, PutTime(t)
        PROVE  TypeOK'
    BY <1>3 DEF PutTime, DataOK, window
  <1>4. ASSUME NEW t \in Threads, FindCursor(t)
        PROVE  TypeOK'
    BY <1>4 DEF FindCursor, DataOK, window
  <1>5. ASSUME NEW t \in Threads, PutCharacter(t)
        PROVE  TypeOK'
    <2> DEFINE row == at[t].row
               column == at[t].column
               cells == [screen EXCEPT ![row][column] = Character(t)]
    <2>1. row \in Row /\ column \in Column
      BY DEF DataOK, Position
    <2>2. Character(t) \in Times \cup Texts
      BY DEF Character, DataOK
    <2>3. cells \in Screen
      BY <2>1, <2>2 DEF DataOK, Screen
    <2>4. /\ cursor' \in Position
          /\ screen' \in Screen
          /\ lines' \subseteq Line
      <3>1. CASE column < Width
        <4> HIDE DEF cells
        <4>1. cursor' = [row |-> row, column |-> column + 1]
          BY <1>5, <3>1 DEF PutCharacter
        <4>2. screen' = cells /\ lines' = lines
          BY <1>5, <3>1 DEF PutCharacter, cells
        <4> QED
          BY <2>1, <2>3, <3>1, <4>1, <4>2 DEF Position, Column, DataOK
      <3>2. CASE column = Width
        <4>1. NextRow(cells, row, lines)
          BY <1>5, <3>2 DEF PutCharacter
        <4> QED
          BY <2>1, <2>3, <4>1, NextRowTypes DEF DataOK
      <3> QED
        BY <2>1, <3>1, <3>2 DEF Column
    <2>5. next' \in [Threads -> 1 .. 3]
      BY <1>5 DEF PutCharacter, DataOK
    <2> QED
      BY <1>5, <2>4, <2>5 DEF PutCharacter, DataOK
  <1>6. ASSUME NEW t \in Threads, PutNewline(t)
        PROVE  TypeOK'
    <2> DEFINE row == at[t].row
               cells == [screen EXCEPT ![row] =
                          [c \in Column |->
                             IF c < at[t].column THEN screen[row][c] ELSE Blank]]
               line == [row |-> row, date |-> m_timePoint[t],
                        text |-> m_message[t], alone |-> alone[t]]
    <2>1. row \in Row
      BY DEF DataOK, Position
    <2>2. cells \in Screen
      BY <2>1 DEF DataOK, Screen
    <2>3. line \in Line
      <3>1. alone[t] \in BOOLEAN
        BY Zenon
      <3> QED
        BY <2>1, <3>1 DEF DataOK, Line
    <2>4. NextRow(cells, row, lines \cup {line})
      BY <1>6 DEF PutNewline
    <2> HIDE DEF cells, line, row
    <2>5. /\ cursor' \in Position
          /\ screen' \in Screen
          /\ lines' \subseteq Line
      BY <2>1, <2>2, <2>3, <2>4, NextRowTypes DEF DataOK
    <2> QED
      BY <1>6, <2>5 DEF PutNewline, DataOK, stream
  <1>7. CASE UNCHANGED vars
    BY <1>7 DEF vars, stream, window, DataOK
  <1> QED
    BY <1>1, <1>2, <1>3, <1>4, <1>5, <1>6, <1>7 DEF Next

\* Every variable of the window and of the streams keeps its type
\* (tui/window.hpp, tui/stream.hpp).
THEOREM TypeCorrect == Spec => []TypeOK
  BY TypeInit, TypeStep, PTL DEF Spec

-----------------------------------------------------------------------------
(* Lone lines                                                              *)


\* Finishing a row keeps the lone lines at or above it, moves them up by at
\* most one, and leaves the cursor below them.
LEMMA NextRowKeepsLoneLines ==
  ASSUME NEW cells \in Screen, NEW row \in Row, NEW ls \in SUBSET Line,
         NextRow(cells, row, ls),
         \A l \in ls : l.alone => ShowsIn(cells, l.row, l) /\ l.row <= row
  PROVE  /\ \A l \in lines' : l.alone => ShowsIn(screen', l.row, l)
         /\ \A l \in lines' : l.alone => l.row < cursor'.row
         /\ \A l \in lines' : l.alone =>
              \E k \in ls : k.alone /\ l.row <= k.row
  <1>1. CASE row < Height
    <2>1. /\ cursor' = [row |-> row + 1, column |-> 1]
          /\ screen' = cells
          /\ lines' = ls
      BY <1>1 DEF NextRow
    <2> QED
      BY <2>1 DEF Line, Row
  <1>2. CASE row = Height
    <2>1. /\ cursor' = [row |-> Height, column |-> 1]
          /\ screen' = ScrolledCells(cells)
          /\ lines' = ScrolledLines(ls)
      BY <1>2 DEF NextRow
    <2>2. ASSUME NEW l \in lines', l.alone
          PROVE  /\ ShowsIn(screen', l.row, l)
                 /\ l.row < cursor'.row
                 /\ \E k \in ls : k.alone /\ l.row <= k.row
      <3>1. PICK k \in ls : k.row > 1 /\ l = [k EXCEPT !.row = k.row - 1]
        BY <2>1 DEF ScrolledLines
      <3>2. /\ k \in Line
            /\ l.row = k.row - 1
            /\ l.date = k.date
            /\ l.text = k.text
            /\ k.alone
        BY <2>2, <3>1 DEF Line
      <3>3. ShowsIn(cells, k.row, k)
        BY <3>2
      <3>4. k.row \in Row /\ l.row \in Row /\ l.row # Height
        BY <3>1, <3>2 DEF Line, Row
      <3>5. screen'[l.row] = cells[k.row]
        BY <2>1, <3>2, <3>4 DEF ScrolledCells, Row
      <3>6. ShowsIn(screen', l.row, l)
        BY <3>2, <3>3, <3>5 DEF ShowsIn
      <3> QED
        BY <2>1, <3>2, <3>4, <3>6 DEF Row
    <2> QED
      BY <2>2
  <1> QED
    BY <1>1, <1>2 DEF Row

LEMMA InvInit == Init => IInv
  <1> SUFFICES ASSUME Init
               PROVE  IInv
    OBVIOUS
  <1>1. TypeOK
    BY TypeInit
  <1>2. lines = {} /\ cursor.column = 1 /\ \A t \in Threads : ~Printing(t)
    BY DEF Init, Printing
  <1> QED
    BY <1>1, <1>2 DEF IInv, LoneLineIsWhole, MixingEnds, LoneLinesAreAbove,
                      LoneThreadIsUndisturbed

\* The actions that do not touch the window.
LEMMA WindowUntouched ==
  ASSUME IInv, TypeOK', UNCHANGED window,
         \A t \in Threads : Printing(t) => Printing(t)',
         \A t \in Threads : pc'[t] = "put" =>
            at'[t] = cursor \/ (pc[t] = "put" /\ at'[t] = at[t])
  PROVE  /\ LoneLineIsWhole'
         /\ MixingEnds'
         /\ LoneLinesAreAbove'
  <1>1. screen' = screen /\ cursor' = cursor /\ lines' = lines
    BY DEF window
  <1>2. LoneLineIsWhole'
    BY <1>1 DEF IInv, LoneLineIsWhole, ShowsIn
  <1>3. MixingEnds'
    BY <1>1 DEF IInv, MixingEnds
  <1>4. LoneLinesAreAbove'
    BY <1>1 DEF IInv, LoneLinesAreAbove
  <1> QED
    BY <1>2, <1>3, <1>4

LEMMA PrintLineKeeps ==
  ASSUME IInv, TypeOK', NEW t \in Threads, PrintLine(t)
  PROVE  IInv'
  <1> USE DEF PrintLine
  <1>0. TypeOK /\ DataOK
    BY DEF IInv, TypeOK
  <1>1. \A u \in Threads : pc'[u] = IF u = t THEN "stream" ELSE pc[u]
    BY <1>0 DEF DataOK
  <1>2. \A u \in Threads : Printing(u)' <=> Printing(u)
    BY <1>1 DEF Printing
  <1>3. LoneLineIsWhole' /\ MixingEnds' /\ LoneLinesAreAbove'
    BY <1>1, <1>2, WindowUntouched
  <1>4. ASSUME NEW u \in Threads, u # t
        PROVE  m_timePoint'[u] = m_timePoint[u] /\ m_message'[u] = m_message[u]
    BY <1>0, <1>4 DEF DataOK
  <1>5. ASSUME NEW u \in Threads, alone'[u], Printing(u)'
        PROVE  Undisturbed(u)'
    <2>1. u # t /\ pc'[u] = pc[u] /\ Undisturbed(u)
      BY <1>1, <1>2, <1>5 DEF IInv, LoneThreadIsUndisturbed, Printing
    <2> QED
      BY <1>2, <1>4, <2>1 DEF Undisturbed, window
  <1> QED
    BY <1>3, <1>5 DEF IInv, LoneThreadIsUndisturbed

LEMMA LocaltimeKeeps ==
  ASSUME IInv, TypeOK', NEW t \in Threads, Localtime(t)
  PROVE  IInv'
  <1> USE DEF Localtime
  <1>0. TypeOK /\ DataOK
    BY DEF IInv, TypeOK
  <1>1. \A u \in Threads : pc'[u] = IF u = t THEN "date" ELSE pc[u]
    BY <1>0 DEF DataOK
  <1>2. \A u \in Threads : Printing(u)' <=> u = t \/ Printing(u)
    BY <1>1 DEF Printing
  <1>3. LoneLineIsWhole' /\ MixingEnds' /\ LoneLinesAreAbove'
    BY <1>1, <1>2, WindowUntouched DEF stream
  <1>4. ASSUME NEW u \in Threads, alone'[u], Printing(u)'
        PROVE  Undisturbed(u)'
    <2>1. u = t /\ \A v \in Threads \ {t} : ~Printing(v)
      BY <1>4, Zenon
    <2>2. ~Printing(t)
      BY DEF Printing
    <2>3. cursor.column = 1
      BY <2>1, <2>2 DEF IInv, MixingEnds
    <2> QED
      BY <1>1, <1>2, <2>1, <2>3 DEF Undisturbed, window, stream
  <1> QED
    BY <1>3, <1>4 DEF IInv, LoneThreadIsUndisturbed

LEMMA PutTimeKeeps ==
  ASSUME IInv, TypeOK', NEW t \in Threads, PutTime(t)
  PROVE  IInv'
  <1> USE DEF PutTime
  <1>0. TypeOK /\ DataOK
    BY DEF IInv, TypeOK
  <1>1. \A u \in Threads : pc'[u] = IF u = t THEN "find" ELSE pc[u]
    BY <1>0 DEF DataOK
  <1>2. \A u \in Threads : Printing(u)' <=> Printing(u)
    BY <1>1 DEF Printing
  <1>3. LoneLineIsWhole' /\ MixingEnds' /\ LoneLinesAreAbove'
    BY <1>1, <1>2, WindowUntouched
  <1>4. /\ string'[t] = [date |-> tm, text |-> m_message[t]]
        /\ next'[t] = 1
    BY <1>0 DEF DataOK
  <1>5. ASSUME NEW u \in Threads, alone'[u], Printing(u)'
        PROVE  Undisturbed(u)'
    <2>1. Undisturbed(u)
      BY <1>2, <1>5 DEF IInv, LoneThreadIsUndisturbed
    <2>2. u = t
      BY <2>1 DEF Undisturbed, Printing
    <2> QED
      BY <1>1, <1>2, <1>4, <2>1, <2>2 DEF Undisturbed, window
  <1> QED
    BY <1>3, <1>5 DEF IInv, LoneThreadIsUndisturbed

LEMMA FindCursorKeeps ==
  ASSUME IInv, TypeOK', NEW t \in Threads, FindCursor(t)
  PROVE  IInv'
  <1> USE DEF FindCursor
  <1>0. TypeOK /\ DataOK
    BY DEF IInv, TypeOK
  <1>1. \A u \in Threads :
          /\ pc'[u] = IF u = t THEN "put" ELSE pc[u]
          /\ at'[u] = IF u = t THEN cursor ELSE at[u]
    BY <1>0 DEF DataOK
  <1>2. \A u \in Threads : Printing(u)' <=> Printing(u)
    BY <1>1 DEF Printing
  <1>3. LoneLineIsWhole' /\ MixingEnds' /\ LoneLinesAreAbove'
    BY <1>1, <1>2, WindowUntouched
  <1>4. ASSUME NEW u \in Threads, alone'[u], Printing(u)'
        PROVE  Undisturbed(u)'
    <2>1. Undisturbed(u)
      BY <1>2, <1>4 DEF IInv, LoneThreadIsUndisturbed
    <2>2. u = t
      BY <2>1 DEF Undisturbed, Printing
    <2> QED
      BY <1>1, <1>2, <2>1, <2>2 DEF Undisturbed, window
  <1> QED
    BY <1>3, <1>4 DEF IInv, LoneThreadIsUndisturbed

LEMMA PutCharacterKeeps ==
  ASSUME IInv, TypeOK', NEW t \in Threads, PutCharacter(t)
  PROVE  IInv'
  <1> DEFINE row == at[t].row
             column == at[t].column
             cells == [screen EXCEPT ![row][column] = Character(t)]
  <1>0. TypeOK /\ DataOK
    BY DEF IInv, TypeOK
  <1>1. /\ pc[t] = "put"
        /\ next[t] \in {1, 2}
        /\ next'[t] = next[t] + 1
        /\ \A u \in Threads : pc'[u] = IF u = t THEN "find" ELSE pc[u]
        /\ UNCHANGED <<tm, alone, m_timePoint, m_message, string, at>>
    BY <1>0 DEF PutCharacter, DataOK
  <1>2. \A u \in Threads : Printing(u)' <=> Printing(u)
    BY <1>1 DEF Printing
  <1>3. row \in Row /\ column \in Column
    BY <1>0 DEF DataOK, Position
  <1>4. cells \in Screen
    <2>1. Character(t) \in Times \cup Texts
      BY <1>0 DEF Character, DataOK
    <2> QED
      BY <1>0, <1>3, <2>1 DEF DataOK, Screen
  <1>5. \A l \in lines : l.alone => l.row < row /\ ShowsIn(cells, l.row, l)
    <2>1. ASSUME NEW l \in lines, l.alone
          PROVE  l.row < row /\ ShowsIn(cells, l.row, l)
      <3>1. l.row < row /\ l.row \in Row
        BY <1>0, <1>1, <2>1 DEF IInv, LoneLinesAreAbove, DataOK, Line
      <3>2. cells[l.row] = screen[l.row]
        BY <1>0, <1>3, <3>1 DEF DataOK, Screen, Row
      <3> QED
        BY <2>1, <3>1, <3>2 DEF IInv, LoneLineIsWhole, ShowsIn
    <2> QED
      BY <2>1
  <1>6. /\ \A l \in lines' : l.alone => ShowsIn(screen', l.row, l)
        /\ \A l \in lines' : l.alone => l.row < cursor'.row
        /\ \A l \in lines' : l.alone =>
              \E k \in lines : k.alone /\ l.row <= k.row
    <2>1. CASE column < Width
      <3>1. /\ screen' = cells
            /\ cursor' = [row |-> row, column |-> column + 1]
            /\ lines' = lines
        BY <2>1 DEF PutCharacter
      <3> HIDE DEF cells
      <3> QED
        BY <1>0, <1>5, <3>1 DEF DataOK, Line, Row
    <2>2. CASE column = Width
      <3>1. NextRow(cells, row, lines)
        BY <2>2 DEF PutCharacter
      <3> HIDE DEF cells, row
      <3>2. \A l \in lines : l.alone => ShowsIn(cells, l.row, l) /\ l.row <= row
        BY <1>0, <1>3, <1>5 DEF DataOK, Line, Row
      <3> QED
        BY <1>0, <1>3, <1>4, <3>1, <3>2, NextRowKeepsLoneLines DEF DataOK
    <2> QED
      BY <1>3, <2>1, <2>2 DEF Column
  <1>7. LoneLinesAreAbove'
    <2>1. ASSUME NEW l \in lines', l.alone,
                 NEW u \in Threads, pc'[u] = "put"
          PROVE  l.row < at'[u].row
      <3>1. PICK k \in lines : k.alone /\ l.row <= k.row
        BY <1>6, <2>1
      <3>2. k.row < at[u].row
        BY <1>1, <2>1, <3>1 DEF IInv, LoneLinesAreAbove
      <3>3. lines' \subseteq Line
        BY DEF TypeOK, DataOK
      <3>4. l.row \in Int /\ k.row \in Int /\ at[u].row \in Int
        BY <1>0, <3>1, <3>3 DEF DataOK, Line, Row, Position
      <3> QED
        BY <1>1, <3>1, <3>2, <3>4
    <2> QED
      BY <1>6, <2>1 DEF LoneLinesAreAbove
  <1>8. MixingEnds'
    BY <1>1, <1>2 DEF MixingEnds, Printing
  <1>9. ASSUME NEW u \in Threads, alone'[u], Printing(u)'
        PROVE  Undisturbed(u)'
    <2>1. Undisturbed(u)
      BY <1>1, <1>2, <1>9 DEF IInv, LoneThreadIsUndisturbed
    <2>2. u = t
      BY <1>1, <2>1 DEF Undisturbed, Printing
    <2>3. at[t] = cursor /\ column = next[t] /\ column < Width
      BY <1>1, <2>1, <2>2 DEF Undisturbed
    <2>4. /\ screen' = cells
          /\ cursor' = [row |-> row, column |-> column + 1]
      BY <2>3 DEF PutCharacter
    <2>5. /\ screen'[row][column] = Character(t)
          /\ \A c \in Column \ {column} : screen'[row][c] = screen[row][c]
      BY <1>0, <1>3, <2>4 DEF DataOK, Screen
    <2>6. Character(t) = IF next[t] = 1 THEN m_timePoint[t] ELSE m_message[t]
      BY <1>1, <2>1, <2>2 DEF Character, Undisturbed
    <2>7. /\ screen'[row][1] = m_timePoint[t]
          /\ next[t] = 2 => screen'[row][2] = m_message[t]
      BY <1>1, <2>1, <2>2, <2>3, <2>5, <2>6 DEF Undisturbed, Column
    <2> HIDE DEF cells
    <2> QED
      BY <1>1, <1>2, <2>1, <2>2, <2>3, <2>4, <2>7 DEF Undisturbed
  <1> QED
    BY <1>6, <1>7, <1>8, <1>9 DEF IInv, LoneLineIsWhole, LoneThreadIsUndisturbed

LEMMA PutNewlineKeeps ==
  ASSUME IInv, TypeOK', NEW t \in Threads, PutNewline(t)
  PROVE  IInv'
  <1> DEFINE row == at[t].row
             cells == [screen EXCEPT ![row] =
                         [c \in Column |->
                            IF c < at[t].column THEN screen[row][c] ELSE Blank]]
             line == [row |-> row, date |-> m_timePoint[t],
                      text |-> m_message[t], alone |-> alone[t]]
  <1>0. TypeOK /\ DataOK
    BY DEF IInv, TypeOK
  <1>1. /\ pc[t] = "put"
        /\ next[t] = 3
        /\ NextRow(cells, row, lines \cup {line})
        /\ \A u \in Threads : pc'[u] = IF u = t THEN "idle" ELSE pc[u]
        /\ UNCHANGED <<tm, alone, stream>>
    BY <1>0 DEF PutNewline, DataOK
  <1>2. row \in Row /\ at[t].column \in Column
    BY <1>0 DEF DataOK, Position
  <1>3. cells \in Screen
    BY <1>0, <1>2 DEF DataOK, Screen
  <1>4. line \in Line
    <2>1. alone[t] \in BOOLEAN
      BY <1>0, Zenon DEF TypeOK
    <2> QED
      BY <1>0, <1>2, <2>1 DEF DataOK, Line
  <1>5. \A l \in lines : l.alone => l.row < row /\ ShowsIn(cells, l.row, l)
    <2>1. ASSUME NEW l \in lines, l.alone
          PROVE  l.row < row /\ ShowsIn(cells, l.row, l)
      <3>1. l.row < row /\ l.row \in Row
        BY <1>0, <1>1, <2>1 DEF IInv, LoneLinesAreAbove, DataOK, Line
      <3>2. cells[l.row] = screen[l.row]
        BY <1>0, <1>2, <3>1 DEF DataOK, Screen, Row
      <3> QED
        BY <2>1, <3>1, <3>2 DEF IInv, LoneLineIsWhole, ShowsIn
    <2> QED
      BY <2>1
  <1>6. alone[t] => ShowsIn(cells, row, line)
    <2>1. SUFFICES ASSUME alone[t]
                   PROVE  ShowsIn(cells, row, line)
      OBVIOUS
    <2>2. Undisturbed(t)
      BY <1>1, <2>1 DEF IInv, LoneThreadIsUndisturbed, Printing
    <2>3. /\ at[t].column = 3
          /\ screen[row][1] = m_timePoint[t]
          /\ screen[row][2] = m_message[t]
      BY <1>1, <2>2 DEF Undisturbed
    <2>4. cells[row] = [c \in Column |->
                          IF c < 3 THEN screen[row][c] ELSE Blank]
      BY <1>0, <1>2, <2>3 DEF DataOK, Screen
    <2>5. \A c \in Column : c < 3 <=> c = 1 \/ c = 2
      BY DEF Column
    <2> QED
      BY <2>3, <2>4, <2>5 DEF ShowsIn
  <1>7. \A l \in lines \cup {line} :
           l.alone => ShowsIn(cells, l.row, l) /\ l.row <= row
    <2>1. \A l \in lines : l.alone => l.row <= row
      <3> HIDE DEF cells, row
      <3> QED
        BY <1>0, <1>2, <1>5 DEF DataOK, Line, Row
    <2>2. line.alone = alone[t] /\ line.row = row /\ row <= row
      BY <1>2 DEF Row
    <2> HIDE DEF cells, row, line
    <2> QED
      BY <1>5, <1>6, <2>1, <2>2
  <1>8. /\ \A l \in lines' : l.alone => ShowsIn(screen', l.row, l)
        /\ \A l \in lines' : l.alone => l.row < cursor'.row
        /\ \A l \in lines' : l.alone =>
              \E k \in lines \cup {line} : k.alone /\ l.row <= k.row
    <2>1. lines \cup {line} \subseteq Line
      BY <1>0, <1>4 DEF DataOK
    <2> HIDE DEF cells, row, line
    <2> QED
      BY <1>1, <1>2, <1>3, <1>7, <2>1, NextRowKeepsLoneLines
  <1>9. ASSUME NEW u \in Threads, u # t, Printing(u)
        PROVE  ~alone[t]
    BY <1>1, <1>9 DEF IInv, LoneThreadIsUndisturbed, Undisturbed, Printing
  <1>10. LoneLinesAreAbove'
    <2>1. ASSUME NEW l \in lines', l.alone,
                 NEW u \in Threads, pc'[u] = "put"
          PROVE  l.row < at'[u].row
      <3>1. PICK k \in lines \cup {line} : k.alone /\ l.row <= k.row
        BY <1>8, <2>1
      <3>2. u # t /\ Printing(u) /\ pc[u] = "put"
        BY <1>1, <2>1 DEF Printing
      <3>3. k \in lines
        BY <1>9, <3>1, <3>2
      <3>4. k.row < at[u].row
        BY <3>1, <3>2, <3>3 DEF IInv, LoneLinesAreAbove
      <3>5. lines' \subseteq Line
        BY DEF TypeOK, DataOK
      <3>6. l.row \in Int /\ k.row \in Int /\ at[u].row \in Int
        BY <1>0, <3>3, <3>5 DEF DataOK, Line, Row, Position
      <3> QED
        BY <1>1, <3>1, <3>4, <3>6 DEF stream
    <2> QED
      BY <1>8, <2>1 DEF LoneLinesAreAbove
  <1>11. MixingEnds'
    <2>1. lines \cup {line} \subseteq Line
      BY <1>0, <1>4 DEF DataOK
    <2> HIDE DEF cells, row, line
    <2> QED
      BY <1>1, <1>2, <1>3, <2>1, NextRowTypes DEF MixingEnds
  <1>12. ASSUME NEW u \in Threads, alone'[u], Printing(u)'
         PROVE  FALSE
    <2>1. u # t /\ Printing(u) /\ alone[u]
      BY <1>1, <1>12 DEF Printing
    <2>2. Undisturbed(u)
      BY <2>1 DEF IInv, LoneThreadIsUndisturbed
    <2> QED
      BY <1>1, <2>1, <2>2 DEF Undisturbed, Printing
  <1> QED
    BY <1>8, <1>10, <1>11, <1>12
    DEF IInv, LoneLineIsWhole, LoneThreadIsUndisturbed

LEMMA InvStep == IInv /\ [Next]_vars => IInv'
  <1> SUFFICES ASSUME IInv, [Next]_vars
               PROVE  IInv'
    OBVIOUS
  <1>1. TypeOK'
    BY TypeStep DEF IInv
  <1>2. CASE Next
    BY <1>1, <1>2, PrintLineKeeps, LocaltimeKeeps, PutTimeKeeps,
       FindCursorKeeps, PutCharacterKeeps, PutNewlineKeeps DEF Next
  <1>3. CASE UNCHANGED vars
    BY <1>3 DEF vars, stream, window, IInv, TypeOK, DataOK, LoneLineIsWhole,
                MixingEnds, LoneLinesAreAbove, LoneThreadIsUndisturbed,
                Undisturbed, Printing, ShowsIn
  <1> QED
    BY <1>2, <1>3

\* The inductive invariant of the log window (tui/status_stream.cpp:29-41,
\* tui/window.cpp:88-92).
THEOREM Inductive == Spec => []IInv
  BY InvInit, InvStep, PTL DEF Spec

\* A line during whose printing nobody else printed is whole until it scrolls
\* away (tui/status_stream.cpp:29-41).
THEOREM LoneLinesAreWhole == Spec => []LoneLineIsWhole
  <1>1. IInv => LoneLineIsWhole
    BY DEF IInv
  <1> QED
    BY <1>1, Inductive, PTL

\* When nobody prints the next line begins in a row of its own
\* (tui/status_stream.cpp:31).
THEOREM MixingAlwaysEnds == Spec => []MixingEnds
  <1>1. IInv => MixingEnds
    BY DEF IInv
  <1> QED
    BY <1>1, Inductive, PTL
=============================================================================
