------------------------------ MODULE Console ------------------------------
(***************************************************************************)
(* The text console: printc and the cursor of project/Project/io.c,        *)
(* sys_write_console (devices.c) and the loop of sys_write (sys.c) that    *)
(* feeds it, with itoa of libc.c, by which programs print numbers.         *)
(*                                                                         *)
(* A console is a record: the cursor, the cells written since the text     *)
(* began, and the bytes sent to the debug port 0xe9.                       *)
(***************************************************************************)
EXTENDS Integers, Sequences, SequencesExt

CONSTANTS
  NUM_COLUMNS, NUM_ROWS,   \* of the screen: 80 and 25
  START_ROW,               \* of the first text: 19
  TAM_BUFFER               \* bytes sys_write copies at a time: 512

ASSUME ConsoleAssumption ==
  /\ NUM_COLUMNS \in Nat \ {0} /\ NUM_ROWS \in Nat \ {0}
  /\ START_ROW \in 0 .. NUM_ROWS - 1
  /\ TAM_BUFFER \in Nat \ {0}

NewLine == 10
Zero == 48                 \* the characters '0' to '9' are 48 to 57

Booted == [x |-> 0, y |-> START_ROW, shown |-> << >>, e9 |-> << >>]

NextRow(con) == [con EXCEPT !.x = 0, !.y = (con.y + 1) % NUM_ROWS]

\* the cells written so far, with one more or one written over
Put(shown, here, c) ==
  [cell \in DOMAIN shown \cup {here} |-> IF cell = here THEN c ELSE shown[cell]]

\* the column compared with > instead of >=
printcMutant(con, c) ==
  LET out == [con EXCEPT !.e9 = Append(con.e9, c)]
      put == [out EXCEPT !.x = con.x + 1,
                         !.shown = Put(con.shown, con.y * NUM_COLUMNS + con.x, c)]
  IN IF c = NewLine THEN NextRow(out)
     ELSE IF put.x > NUM_COLUMNS THEN NextRow(put) ELSE put

(***************************************************************************)
(* A character goes to port 0xe9 and to the cell under the cursor, which   *)
(* moves on; the rows start again at the top, nothing is scrolled.         *)
(***************************************************************************)
printc(con, c) ==
  LET out == [con EXCEPT !.e9 = Append(con.e9, c)]
      put == [out EXCEPT !.x = con.x + 1,
                         !.shown = Put(con.shown, con.y * NUM_COLUMNS + con.x, c)]
  IN IF c = NewLine THEN NextRow(out)
     ELSE IF put.x >= NUM_COLUMNS THEN NextRow(put) ELSE put

\* after[i]: once the first i characters are out
sys_write_console(con, buffer) ==
  LET after[i \in 0 .. Len(buffer)] ==
        IF i = 0 THEN con ELSE printc(after[i - 1], buffer[i])
  IN after[Len(buffer)]

\* the buffer is not moved on after a full chunk
ChunkMutant(text, k) ==
  LET left == Len(text) - k * TAM_BUFFER IN
  SubSeq(text, 1, IF left > TAM_BUFFER THEN TAM_BUFFER ELSE left)

\* what copy_from_user puts in localbuffer the k-th time, counted from 0
Chunk(text, k) ==
  LET start == k * TAM_BUFFER
      left == Len(text) - start
  IN SubSeq(text, start + 1, start + (IF left > TAM_BUFFER THEN TAM_BUFFER ELSE left))

(***************************************************************************)
(* The loop of sys_write: a full chunk as long as more than one is left,   *)
(* then the rest.                                                          *)
(***************************************************************************)
Chunks(text) == (Len(text) + TAM_BUFFER - 1) \div TAM_BUFFER

WriteLoop(con, text) ==
  LET after[k \in 0 .. Chunks(text)] ==
        IF k = 0 THEN con ELSE sys_write_console(after[k - 1], Chunk(text, k - 1))
  IN after[Chunks(text)]

-----------------------------------------------------------------------------
(* itoa and strlen *)

\* the digits as the first loop finds them, the lowest first
Digits(a) ==
  LET digits[n \in 0 .. a] ==
        IF n = 0 THEN << >> ELSE <<(n % 10) + Zero>> \o digits[n \div 10]
  IN digits[a]

\* the second loop runs to the end and swaps everything twice
SwappedMutant(b) == b

\* the second loop: the i-th from the left and from the right, up to the middle
Swapped(b) ==
  LET half == Len(b) \div 2 IN
  [i \in DOMAIN b |-> IF i <= half \/ i > Len(b) - half THEN b[Len(b) + 1 - i] ELSE b[i]]

\* of a negative number nothing is printed, not even its sign
itoa(a) ==
  IF a = 0 THEN <<Zero>>
  ELSE IF a < 0 THEN << >>
  ELSE Swapped(Digits(a))

=============================================================================
