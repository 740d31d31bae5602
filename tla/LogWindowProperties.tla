------------------------- MODULE LogWindowProperties -------------------------
(***************************************************************************)
(* What two threads that print lines into one window may do to them.       *)
(***************************************************************************)
EXTENDS LogWindow

\* Some row of cells shows line l and nothing else.
ShowsIn(cells, r, l) ==
  cells[r] = [c \in Column |->
                IF c = 1 THEN l.date ELSE IF c = 2 THEN l.text ELSE Blank]

\* A line during whose printing nobody else printed is whole, with its own
\* date, and stays so until it scrolls out of the window, whatever the threads
\* did to each other's lines before and do afterwards
\* (status_stream.cpp:29-41, window.cpp:88-92).
LoneLineIsWhole == \A l \in lines : l.alone => ShowsIn(screen, l.row, l)

\* After lines have been mixed the next one begins in a row of its own: when
\* nobody prints, the cursor is at the beginning of a row.
MixingEnds ==
  (\A t \in Threads : ~Printing(t)) => cursor.column = 1

\* "Prints a line with date" (window.hpp:51), said of each line.
LinesAreWhole == \A l \in lines : ShowsIn(screen, l.row, l)

-----------------------------------------------------------------------------
(* The inductive invariant                                                 *)

\* The lone lines lie above every place where something will be put.
LoneLinesAreAbove ==
  \A l \in lines : l.alone =>
    /\ l.row < cursor.row
    /\ \A t \in Threads : pc[t] = "put" => l.row < at[t].row

\* A thread that prints alone finds everything as it left it.
Undisturbed(t) ==
  /\ \A u \in Threads \ {t} : ~Printing(u)
  /\ pc[t] = "date" => tm = m_timePoint[t] /\ cursor.column = 1
  /\ pc[t] \in {"find", "put"} =>
       /\ string[t] = [date |-> m_timePoint[t], text |-> m_message[t]]
       /\ cursor.column = next[t]
       /\ next[t] > 1 => screen[cursor.row][1] = m_timePoint[t]
       /\ next[t] > 2 => screen[cursor.row][2] = m_message[t]
  /\ pc[t] = "put" => at[t] = cursor

LoneThreadIsUndisturbed ==
  \A t \in Threads : alone[t] /\ Printing(t) => Undisturbed(t)

IInv ==
  /\ TypeOK
  /\ LoneLineIsWhole
  /\ MixingEnds
  /\ LoneLinesAreAbove
  /\ LoneThreadIsUndisturbed
=============================================================================
