------------------------------ MODULE History ------------------------------
(***************************************************************************)
(* The line that is being edited and the commands of the past:             *)
(* src/shell/readline.c and src/shell/history.c.  A line is made of words, *)
(* each standing for its characters; a cell of the buffer holds a word.    *)
(***************************************************************************)
EXTENDS Naturals, Sequences, FiniteSetsExt

CONSTANTS
  Typed,      \* bound: what the user may type on an empty line, sequences of words
  End, Junk,  \* END_STRING; what uninitialised memory reads as
  BufLen,     \* BUFLEN, in words
  Initial,    \* INITIAL_HISTORY_LINES
  MaxLines,   \* bound: the commands that are ever saved
  Wild,       \* bound: how far past the newest command the arrow down is pressed
  Files       \* bound: the lines that ~/.sisop_history may have at the start

ASSUME HistoryAssumption ==
  /\ BufLen \in Nat \ {0} /\ Initial \in Nat /\ MaxLines \in Nat /\ Wild \in Nat
  /\ End # Junk
  /\ \A text \in Typed : Len(text) <= BufLen
  /\ \A file \in Files : file \in Seq(Seq(STRING))

VARIABLES
  buffer,    \* the cells of readline.c:buffer
  i,         \* read_line()'s index of the next cell
  lines,     \* history_arr up to last_line_pos, as lines
  alloc,     \* alloc_size
  printPos,  \* history_print_pos
  smashed    \* something has been written past the end of history_arr

histVars == <<lines, alloc, printPos, smashed>>
editVars == <<buffer, i>>

Grow == 2    \* HISTORY_GROWING_FACTOR

Blank == [k \in 1..BufLen + 1 |-> End]

\* The string that starts at cell k.
TextFrom(cells, k) ==
  LET stop == Min({n \in k..Len(cells) : cells[n] = End}) IN SubSeq(cells, k, stop - 1)

\* strcpy() leaves what is behind the end of a shorter string.
Strcpy(cells, text) ==
  [k \in DOMAIN cells |-> IF k <= Len(text) THEN text[k]
                          ELSE IF k = Len(text) + 1 THEN End ELSE cells[k]]

\* The array after load_history() has read n lines: what it is first given, or that
\* grown as often as they needed, and no more.
Loaded(n) ==
  {a \in n + 1 .. Max({Initial + 1, n * Grow}) :
     \E k \in 0..n : a = (Initial + 1) * Grow^k}

HistoryInit ==
  /\ buffer = Blank /\ i = 0
  /\ lines \in Files
  /\ alloc \in Loaded(Len(lines))
  /\ printPos = Len(lines)
  /\ smashed = FALSE

-----------------------------------------------------------------------------
(* read_line()                                                             *)

\* The user goes on typing while there are commands to be saved.
Editing == Len(lines) < MaxLines

Type(text) ==
  /\ Editing /\ i = 0
  /\ buffer' = [k \in DOMAIN buffer |-> IF k <= Len(text) THEN text[k] ELSE buffer[k]]
  /\ i' = Len(text)
  /\ UNCHANGED histVars

Delete ==
  /\ Editing /\ i > 0
  /\ buffer' = [buffer EXCEPT ![i] = End]
  /\ i' = i - 1
  /\ UNCHANGED histVars

Show(text) == buffer' = Strcpy(buffer, text) /\ i' = Len(text)

\* Where the two arrows leave history_print_pos.
UpPos == IF printPos = 0 THEN 0 ELSE printPos - 1
AtNewest == lines = <<>> \/ printPos + 1 = Len(lines)

\* get_previous_command() and get_next_command(), when the array has the line.
Up ==
  /\ Editing /\ UpPos < Len(lines)
  /\ printPos' = UpPos /\ Show(lines[UpPos + 1])
  /\ UNCHANGED <<lines, alloc, smashed>>

UpNothing ==
  /\ Editing /\ lines = <<>> /\ printPos = 0
  /\ Show(<<>>) /\ UNCHANGED histVars

Down ==
  /\ Editing /\ ~AtNewest /\ printPos + 1 < Len(lines)
  /\ printPos' = printPos + 1 /\ Show(lines[printPos + 2])
  /\ UNCHANGED <<lines, alloc, smashed>>

DownNothing ==
  /\ Editing /\ AtNewest
  /\ Show(<<>>) /\ UNCHANGED histVars

\* From a fresh prompt the arrow down goes past the NULL that ends the array, to
\* memory that nobody has written, and further each time; the arrow up comes back
\* over it.  strcpy() of it may end the shell, and of the NULL does (DeadArrow).
DownJunk ==
  /\ Editing /\ ~AtNewest /\ printPos \in Len(lines) .. Len(lines) + Wild - 1
  /\ printPos' = printPos + 1 /\ Show(<<Junk>>)
  /\ UNCHANGED <<lines, alloc, smashed>>

UpJunk ==
  /\ Editing /\ UpPos > Len(lines)
  /\ printPos' = UpPos /\ Show(<<Junk>>)
  /\ UNCHANGED <<lines, alloc, smashed>>

\* The arrows that may read a wild pointer, or read the NULL.
DeadArrow == Editing /\ ~AtNewest /\ printPos >= Len(lines)

Edit ==
  \/ \E text \in Typed : Type(text)
  \/ Delete \/ Up \/ UpNothing \/ Down \/ DownNothing \/ DownJunk \/ UpJunk

-----------------------------------------------------------------------------
\* Seeded fault: the array grows one command too late.
GrownLate == IF Len(lines) > alloc THEN alloc * Grow ELSE alloc

\* _save_command_in_memory(): the size of the array that the command goes to.
Grown == IF Len(lines) >= alloc THEN alloc * Grow ELSE alloc

Save(text) ==
  /\ alloc' = Grown
  /\ lines' = Append(lines, text)
  /\ printPos' = Len(lines) + 1
  /\ smashed' = (smashed \/ Len(lines) + 1 >= Grown)

\* A command is only ever stored inside the array; its NULL may be one past it.
HistoryHeld == Len(lines) <= alloc
=============================================================================
