------------------------------ MODULE LogWindow ------------------------------
(***************************************************************************)
(* The log window of the daemon, into which the main thread and the        *)
(* network thread print without a lock (server/source/tui/window.cpp,      *)
(* stream.cpp, status_stream.cpp).                                         *)
(*                                                                         *)
(* A statement "printLine() << ..." constructs a StatusStream, which takes *)
(* the time, and prints in its destructor.  ncurses and std::localtime are *)
(* not in the repository: localtime returns one buffer to all threads, and *)
(* a character is put where the cursor was found, which then moves on.     *)
(* A line has two characters here, its date and its text; one that is      *)
(* longer than the window counts as one row.                               *)
(***************************************************************************)
EXTENDS Integers

CONSTANTS
  Threads,
  Texts,    \* what is printed
  Times,    \* what the system clock may say
  Blank,    \* an empty cell
  Height,   \* rows of the window
  Width     \* columns of the window

ASSUME HeightAssumption == Height \in Nat /\ Height >= 2
ASSUME WidthAssumption == Width \in Nat /\ Width >= 3
ASSUME TimesAssumption == Times # {}
ASSUME TextsAssumption == Texts # {}

VARIABLES
  pc,          \* where each thread is in its statement
  m_timePoint, \* the stream's time
  m_message,   \* the stream's text
  tm,          \* the buffer behind std::localtime
  string,      \* messageWithDate: the two characters of the line
  next,        \* which of them waddstr puts next; 3 is the newline
  at,          \* where waddch found the cursor
  screen,      \* the cells of m_subWindow
  cursor,
  alone,       \* no other destructor ran during this one
  lines        \* the lines that are complete, with the row they ended in

stream == <<m_timePoint, m_message, string, next, at>>
window == <<screen, cursor, lines>>
vars == <<pc, tm, alone, stream, window>>

Row == 1 .. Height
Column == 1 .. Width
Position == [row : Row, column : Column]
Screen == [Row -> [Column -> Times \cup Texts \cup {Blank}]]

\* A thread prints from the destructor of its stream.
Printing(t) == pc[t] \in {"date", "find", "put"}

Line == [row : Row, date : Times, text : Texts, alone : BOOLEAN]

DataOK ==
  /\ pc \in [Threads -> {"idle", "stream", "date", "find", "put"}]
  /\ m_timePoint \in [Threads -> Times]
  /\ m_message \in [Threads -> Texts]
  /\ tm \in Times
  /\ string \in [Threads -> [date : Times, text : Texts]]
  /\ next \in [Threads -> 1 .. 3]
  /\ at \in [Threads -> Position]
  /\ screen \in Screen
  /\ cursor \in Position
  /\ lines \subseteq Line

TypeOK == DataOK /\ alone \in [Threads -> BOOLEAN]

\* A window that nobody has printed to; what a thread has not assigned yet is
\* arbitrary.
Init ==
  /\ pc = [t \in Threads |-> "idle"]
  /\ m_timePoint \in [Threads -> Times]
  /\ m_message \in [Threads -> Texts]
  /\ tm \in Times
  /\ \E d \in Times, m \in Texts :
       string = [t \in Threads |-> [date |-> d, text |-> m]]
  /\ next = [t \in Threads |-> 1]
  /\ at = [t \in Threads |-> [row |-> 1, column |-> 1]]
  /\ screen = [r \in Row |-> [c \in Column |-> Blank]]
  /\ cursor = [row |-> 1, column |-> 1]
  /\ alone = [t \in Threads |-> FALSE]
  /\ lines = {}

-----------------------------------------------------------------------------
(* The statement                                                           *)

\* printLine(), and the operators << that append to m_message.
PrintLine(t) ==
  /\ pc[t] = "idle"
  /\ \E time \in Times : m_timePoint' = [m_timePoint EXCEPT ![t] = time]
  /\ \E text \in Texts : m_message' = [m_message EXCEPT ![t] = text]
  /\ pc' = [pc EXCEPT ![t] = "stream"]
  /\ UNCHANGED <<tm, string, next, at, alone, window>>

\* ~StatusStream: std::localtime fills its buffer ...
Localtime(t) ==
  /\ pc[t] = "stream"
  /\ tm' = m_timePoint[t]
  /\ alone' = [u \in Threads |->
                 u = t /\ \A v \in Threads \ {t} : ~Printing(v)]
  /\ pc' = [pc EXCEPT ![t] = "date"]
  /\ UNCHANGED <<stream, window>>

\* ... from which put_time makes the date of messageWithDate.
PutTime(t) ==
  /\ pc[t] = "date"
  /\ string' = [string EXCEPT ![t] = [date |-> tm, text |-> m_message[t]]]
  /\ next' = [next EXCEPT ![t] = 1]
  /\ pc' = [pc EXCEPT ![t] = "find"]
  /\ UNCHANGED <<tm, alone, m_timePoint, m_message, at, window>>

-----------------------------------------------------------------------------
(* Window::addString: waddstr, character by character                      *)

FindCursor(t) ==
  /\ pc[t] = "find"
  /\ at' = [at EXCEPT ![t] = cursor]
  /\ pc' = [pc EXCEPT ![t] = "put"]
  /\ UNCHANGED <<tm, alone, m_timePoint, m_message, string, next, window>>

\* All rows move up by one.
ScrolledCells(cells) ==
  [r \in Row |-> IF r = Height THEN [c \in Column |-> Blank] ELSE cells[r + 1]]

ScrolledLines(ls) ==
  {[l EXCEPT !.row = l.row - 1] : l \in {k \in ls : k.row > 1}}

\* (mutant) Without scrollok the cursor stays in the last row.
NextRowNoScroll(cells, row, ls) ==
  /\ cursor' = [row |-> IF row < Height THEN row + 1 ELSE row, column |-> 1]
  /\ screen' = cells
  /\ lines' = ls

\* The cursor goes to the beginning of the next row; behind the last one the
\* window scrolls.
NextRow(cells, row, ls) ==
  \/ /\ row < Height
     /\ cursor' = [row |-> row + 1, column |-> 1]
     /\ screen' = cells
     /\ lines' = ls
  \/ /\ row = Height
     /\ cursor' = [row |-> Height, column |-> 1]
     /\ screen' = ScrolledCells(cells)
     /\ lines' = ScrolledLines(ls)

Character(t) == IF next[t] = 1 THEN string[t].date ELSE string[t].text

\* A character of the line; behind the last column the next row begins.
PutCharacter(t) ==
  /\ pc[t] = "put"
  /\ next[t] < 3
  /\ LET row    == at[t].row
         column == at[t].column
         cells  == [screen EXCEPT ![row][column] = Character(t)]
     IN  \/ /\ column < Width
            /\ screen' = cells
            /\ cursor' = [row |-> row, column |-> column + 1]
            /\ UNCHANGED lines
         \/ /\ column = Width
            /\ NextRow(cells, row, lines)
  /\ next' = [next EXCEPT ![t] = next[t] + 1]
  /\ pc' = [pc EXCEPT ![t] = "find"]
  /\ UNCHANGED <<tm, alone, m_timePoint, m_message, string, at>>

\* (mutant) The destructor does not append the newline.
PutNoNewline(t) ==
  /\ pc[t] = "put"
  /\ next[t] = 3
  /\ lines' = lines \cup {[row |-> at[t].row, date |-> m_timePoint[t],
                           text |-> m_message[t], alone |-> alone[t]]}
  /\ pc' = [pc EXCEPT ![t] = "idle"]
  /\ UNCHANGED <<tm, alone, stream, screen, cursor>>

\* The newline clears the rest of its row.
PutNewline(t) ==
  /\ pc[t] = "put"
  /\ next[t] = 3
  /\ LET row   == at[t].row
         cells == [screen EXCEPT ![row] =
                     [c \in Column |->
                        IF c < at[t].column THEN screen[row][c] ELSE Blank]]
         line  == [row |-> row, date |-> m_timePoint[t], text |-> m_message[t],
                   alone |-> alone[t]]
     IN  NextRow(cells, row, lines \cup {line})
  /\ pc' = [pc EXCEPT ![t] = "idle"]
  /\ UNCHANGED <<tm, alone, stream>>

-----------------------------------------------------------------------------

Next ==
  \E t \in Threads :
    \/ PrintLine(t) \/ Localtime(t) \/ PutTime(t)
    \/ FindCursor(t) \/ PutCharacter(t) \/ PutNewline(t)

Spec == Init /\ [][Next]_vars
=============================================================================
