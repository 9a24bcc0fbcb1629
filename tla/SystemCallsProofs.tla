-------------------------- MODULE SystemCallsProofs --------------------------
(***************************************************************************)
(* Theorems about SystemCalls for any screen, buffer size, threads and     *)
(* texts.  The loops of the console are recursive functions; what they do  *)
(* is proved by induction on their passes.                                 *)
(***************************************************************************)
EXTENDS SystemCalls, DataLemmas, FiniteSetTheorems

-----------------------------------------------------------------------------
(* The console *)

Consoles == [x : 0 .. NUM_COLUMNS - 1, y : 0 .. NUM_ROWS - 1,
             shown : UNION {[D -> Nat] : D \in SUBSET Nat}, e9 : Seq(Nat)]

LEMMA printcType ==
  ASSUME NEW tty \in Consoles, NEW c \in Nat
  PROVE  printc(tty, c) \in Consoles /\ printc(tty, c).e9 = Append(tty.e9, c)
<1>1. /\ tty.x \in Nat /\ tty.y \in Nat /\ tty.x < NUM_COLUMNS
      /\ NUM_COLUMNS \in Nat \ {0} /\ NUM_ROWS \in Nat \ {0}
      /\ (tty.y + 1) % NUM_ROWS \in 0 .. NUM_ROWS - 1
      /\ tty.e9 \in Seq(Nat)
  BY ConsoleAssumption DEF Consoles
<1> DEFINE cell == tty.y * NUM_COLUMNS + tty.x
           shown == Put(tty.shown, cell, c)
           put == [[tty EXCEPT !.e9 = Append(tty.e9, c)] EXCEPT !.x = tty.x + 1, !.shown = shown]
<1>2. cell \in Nat
  <2> DEFINE x == tty.x
             y == tty.y
  <2>1. x \in Nat /\ y \in Nat /\ NUM_COLUMNS \in Nat
    BY <1>1
  <2> HIDE DEF x, y
  <2>2. y * NUM_COLUMNS + x \in Nat
    BY SMT, <2>1
  <2> QED
    BY <2>2 DEF x, y
<1>3. shown \in UNION {[D -> Nat] : D \in SUBSET Nat}
  <2> HIDE DEF cell
  <2>1. PICK D \in SUBSET Nat : tty.shown \in [D -> Nat]
    BY DEF Consoles
  <2>2. shown \in [D \cup {cell} -> Nat]
    BY <1>2, <2>1 DEF Put
  <2> QED
    BY <1>2, <2>2
<1>4. Append(tty.e9, c) \in Seq(Nat)
  BY <1>1
<1>5. tty = [x |-> tty.x, y |-> tty.y, shown |-> tty.shown, e9 |-> tty.e9]
  BY DEF Consoles
<1> HIDE DEF shown
<1>6. CASE c = NewLine
  <2>1. printc(tty, c) = [x |-> 0, y |-> (tty.y + 1) % NUM_ROWS, shown |-> tty.shown,
                          e9 |-> Append(tty.e9, c)]
    BY <1>5, <1>6 DEF printc, NextRow
  <2> QED
    BY <1>1, <1>4, <2>1 DEF Consoles
<1>7. CASE c # NewLine /\ tty.x + 1 >= NUM_COLUMNS
  <2>1. printc(tty, c) = [x |-> 0, y |-> (tty.y + 1) % NUM_ROWS, shown |-> shown,
                          e9 |-> Append(tty.e9, c)]
    BY <1>5, <1>7 DEF printc, NextRow, shown
  <2> QED
    BY <1>1, <1>3, <1>4, <2>1 DEF Consoles
<1>8. CASE c # NewLine /\ ~(tty.x + 1 >= NUM_COLUMNS)
  <2>1. printc(tty, c) = [x |-> tty.x + 1, y |-> tty.y, shown |-> shown,
                          e9 |-> Append(tty.e9, c)]
    BY <1>5, <1>8 DEF printc, NextRow, shown
  <2>2. tty.x + 1 \in 0 .. NUM_COLUMNS - 1 /\ tty.y \in 0 .. NUM_ROWS - 1
    BY <1>1, <1>8 DEF Consoles
  <2> QED
    BY <1>3, <1>4, <2>1, <2>2 DEF Consoles
<1> QED
  BY <1>6, <1>7, <1>8

LEMMA ConcatAppend ==
  ASSUME NEW a \in Seq(Nat), NEW b \in Seq(Nat), NEW e \in Nat
  PROVE  a \o Append(b, e) = Append(a \o b, e)
<1>1. <<e>> \in Seq(Nat) /\ a \o b \in Seq(Nat)
  OBVIOUS
<1>2. Append(b, e) = b \o <<e>>
  BY AppendIsConcat
<1>3. Append(a \o b, e) = (a \o b) \o <<e>>
  BY <1>1, AppendIsConcat
<1> QED
  BY <1>1, <1>2, <1>3, ConcatAssociative

(* a set of consoles that characters do not leave *)
Kept(S) == \A tty \in S, c \in Nat : printc(tty, c) \in S

LEMMA ConsKept == Consoles \in SUBSET Consoles /\ Kept(Consoles)
  BY printcType DEF Kept

(* the loop of sys_write_console, unrolled *)
LEMMA OneChunk ==
  ASSUME NEW S \in SUBSET Consoles, Kept(S), NEW tty \in S, NEW buffer \in Seq(Nat)
  PROVE  \E f \in [0 .. Len(buffer) -> S] :
           /\ f[0] = tty
           /\ \A i \in 1 .. Len(buffer) : f[i] = printc(f[i - 1], buffer[i])
           /\ sys_write_console(tty, buffer) = f[Len(buffer)]
<1> DEFINE n == Len(buffer)
           step == [p \in S \X (1 .. n) |-> printc(p[1], buffer[p[2]])]
           g == CHOOSE g : g = [i \in 0 .. n |-> IF i = 0 THEN tty ELSE printc(g[i - 1], buffer[i])]
<1>1. sys_write_console(tty, buffer) = g[n]
  BY DEF sys_write_console
<1>2. n \in Nat /\ \A i \in 1 .. n : buffer[i] \in Nat
  BY LenProperties, ElementOfSeq
<1>22. n \in Nat
  BY <1>2
<1> HIDE DEF n
<1>3. step \in [S \X (1 .. n) -> S]
  BY <1>2 DEF Kept
<1>4. PICK f \in Runs(n, S, tty, step) : TRUE
  <2> HIDE DEF step
  <2> QED
    BY <1>22, <1>3, Recurrence
<1>44. /\ f \in [0 .. n -> S] /\ f[0] = tty
       /\ \A i \in 1 .. n : f[i] = step[<<f[i - 1], i>>]
  BY DEF Runs
<1>5. ASSUME NEW i \in 1 .. n PROVE f[i] = printc(f[i - 1], buffer[i])
  <2>1. f[i] = step[<<f[i - 1], i>>]
    BY <1>44
  <2>2. f[i - 1] \in S
    BY <1>22, <1>44
  <2>3. <<f[i - 1], i>> \in S \X (1 .. n)
    BY <2>2
  <2> QED
    BY <2>1, <2>3
<1>6. f = [i \in 0 .. n |-> IF i = 0 THEN tty ELSE printc(f[i - 1], buffer[i])]
  BY <1>2, <1>44, <1>5
<1>7. g = [i \in 0 .. n |-> IF i = 0 THEN tty ELSE printc(g[i - 1], buffer[i])]
  BY <1>6
<1> HIDE DEF g
<1>8. g[0] = tty /\ \A i \in 1 .. n : g[i] = printc(g[i - 1], buffer[i])
  BY <1>2, <1>7
<1>9. f = g
  <2>1. g = [i \in 0 .. n |-> g[i]]
    BY <1>7
  <2> QED
    <3>1. StayTogether(n, f, g)
      BY <1>5, <1>8 DEF StayTogether
    <3>2. f[0] = g[0]
      BY <1>44, <1>8
    <3> QED
      BY <1>22, <1>44, <2>1, <3>1, <3>2, SameByInduction
<1> QED
  BY <1>1, <1>44, <1>5, <1>9 DEF n

(***************************************************************************)
(* sys_write_console sends its bytes out in order, after what has been     *)
(* sent before.                                                            *)
(***************************************************************************)
LEMMA ConsoleWrites ==
  ASSUME NEW S \in SUBSET Consoles, Kept(S), NEW tty \in S, NEW buffer \in Seq(Nat)
  PROVE  /\ sys_write_console(tty, buffer) \in S
         /\ sys_write_console(tty, buffer).e9 = tty.e9 \o buffer
<1> DEFINE n == Len(buffer)
<1>1. PICK f \in [0 .. n -> S] :
        /\ f[0] = tty
        /\ \A i \in 1 .. n : f[i] = printc(f[i - 1], buffer[i])
        /\ sys_write_console(tty, buffer) = f[n]
  BY OneChunk
<1>2. n \in Nat /\ tty.e9 \in Seq(Nat)
  BY LenProperties DEF Consoles
<1> DEFINE G == {m \in Nat : m <= n => f[m].e9 = tty.e9 \o SubSeq(buffer, 1, m)}
<1>3. 0 \in G
  <2>1. tty.e9 \o SubSeq(buffer, 1, 0) = tty.e9
    BY <1>2, SubSeqEmpty, ConcatEmptySeq
  <2> QED
    BY <1>1, <2>1
<1>4. ASSUME NEW m \in Nat, m \in G PROVE m + 1 \in G
  <2> SUFFICES ASSUME m + 1 <= n
               PROVE  f[m + 1].e9 = tty.e9 \o SubSeq(buffer, 1, m + 1)
    OBVIOUS
  <2>1. f[m] \in S /\ f[m + 1] = printc(f[m], buffer[m + 1]) /\ buffer[m + 1] \in Nat
    <3>1. m + 1 \in 1 .. n /\ (m + 1) - 1 = m /\ m \in 0 .. n
      BY <1>2
    <3> QED
      BY <1>1, <3>1, ElementOfSeq
  <2>2. f[m + 1].e9 = Append(tty.e9 \o SubSeq(buffer, 1, m), buffer[m + 1])
    <3>1. f[m].e9 = tty.e9 \o SubSeq(buffer, 1, m)
      <4>1. m <= n
        BY <1>2
      <4> QED
        BY <1>4, <4>1
    <3>2. f[m + 1].e9 = Append(f[m].e9, buffer[m + 1])
      BY <2>1, printcType
    <3> QED
      BY <3>1, <3>2
  <2>3. /\ SubSeq(buffer, 1, m + 1) = Append(SubSeq(buffer, 1, m), buffer[m + 1])
        /\ SubSeq(buffer, 1, m) \in Seq(Nat)
    <3>1. 1 \in 1 .. n + 1 /\ m + 1 \in 1 .. n /\ (m + 1) - 1 = m
      BY <1>2
    <3> QED
      BY <3>1, SubSeqProperties, AppendProperties
  <2>4. tty.e9 \o Append(SubSeq(buffer, 1, m), buffer[m + 1])
          = Append(tty.e9 \o SubSeq(buffer, 1, m), buffer[m + 1])
    BY <1>2, <2>1, <2>3, ConcatAppend
  <2> QED
    BY <2>2, <2>3, <2>4
<1> HIDE DEF G, n
<1>5. n \in G
  BY <1>2, <1>3, <1>4, InductionOnSet
<1>6. SubSeq(buffer, 1, n) = buffer
  BY SubSeqFull DEF n
<1> QED
  <2>1. f[n] \in S /\ n <= n
    BY <1>1, <1>2
  <2>2. f[n].e9 = tty.e9 \o SubSeq(buffer, 1, n)
    BY <1>5, <2>1 DEF G
  <2> QED
    BY <1>1, <1>6, <2>1, <2>2

(***************************************************************************)
(* The chunks that sys_write copies are adjacent and end with the text:    *)
(* once k of them are copied, Upto(text, k) bytes are.                     *)
(***************************************************************************)
Upto(text, k) == IF k * TAM_BUFFER > Len(text) THEN Len(text) ELSE k * TAM_BUFFER

LEMMA ChunksCoverText ==
  ASSUME NEW text \in Seq(Nat)
  PROVE  /\ Chunks(text) \in Nat
         /\ Upto(text, 0) = 0 /\ Upto(text, Chunks(text)) = Len(text)
         /\ \A k \in Nat : Upto(text, k) \in 0 .. Len(text)
         /\ \A k \in Nat : k < Chunks(text) => k * TAM_BUFFER < Len(text)
<1> DEFINE n == Len(text)
           T == TAM_BUFFER
           C == (n + T - 1) \div T
<1>1. n \in Nat /\ T \in Nat /\ T >= 1
  BY LenProperties, ConsoleAssumption
<1>2. Chunks(text) = C
  BY DEF Chunks
<1> HIDE DEF n, T
<1>3. C \in Nat /\ T * C <= n + T - 1 /\ n + T - 1 < T * (C + 1)
  BY SMT, <1>1
<1> HIDE DEF C
<1>4. T * (C + 1) = T * C + T /\ T * C = C * T
  BY SMT, <1>1, <1>3
<1>5. C * T >= n
  BY <1>1, <1>3, <1>4
<1>6. ASSUME NEW k \in Nat, k < C PROVE k * T < n
  <2>1. k + 1 <= C
    BY <1>3, <1>6
  <2>2. (k + 1) * T <= C * T
    BY SMT, <1>1, <1>3, <2>1
  <2>3. (k + 1) * T = k * T + T
    BY SMT, <1>1
  <2>4. k * T \in Nat /\ C * T \in Nat
    BY <1>1, <1>3
  <2> QED
    BY SMT, <1>1, <1>3, <1>4, <2>2, <2>3, <2>4
<1>7. \A k \in Nat : Upto(text, k) \in 0 .. n
  <2>1. \A k \in Nat : k * T \in Nat
    BY <1>1
  <2> QED
    BY <1>1, <2>1 DEF Upto, n, T
<1>8. 0 * T = 0
  BY <1>1
<1>9. Upto(text, 0) = 0 /\ Upto(text, C) = n
  <2>1. C * T \in Nat
    BY <1>1, <1>3
  <2> QED
    BY <1>1, <1>5, <1>8, <2>1 DEF Upto, n, T
<1> QED
  BY <1>2, <1>3, <1>6, <1>7, <1>9 DEF n, T

LEMMA ChunkIsNext ==
  ASSUME NEW text \in Seq(Nat), NEW k \in Nat, k < Chunks(text)
  PROVE  /\ Chunk(text, k) \in Seq(Nat)
         /\ SubSeq(text, 1, Upto(text, k)) \o Chunk(text, k)
              = SubSeq(text, 1, Upto(text, k + 1))
<1> DEFINE n == Len(text)
           T == TAM_BUFFER
           s == k * T
<1>1. n \in Nat /\ T \in Nat /\ T >= 1 /\ s \in Nat /\ s < n
  BY LenProperties, ConsoleAssumption, ChunksCoverText
<1>2. Upto(text, k) = s
  BY <1>1 DEF Upto
<1>3. (k + 1) * T = s + T
  BY SMT, <1>1
<1>4. Upto(text, k + 1) = IF s + T > n THEN n ELSE s + T
  BY <1>3 DEF Upto
<1>5. Chunk(text, k) = SubSeq(text, s + 1, s + (IF n - s > T THEN T ELSE n - s))
  BY DEF Chunk
<1> HIDE DEF n, T, s
<1> DEFINE e == Upto(text, k + 1)
<1>6. Chunk(text, k) = SubSeq(text, s + 1, e) /\ e \in s .. n
  BY <1>1, <1>4, <1>5
<1> HIDE DEF e
<1>7. SubSeq(text, 1, s) \o SubSeq(text, s + 1, e) = SubSeq(text, 1, e)
  <2>1. 1 \in 1 .. n + 1 /\ s \in 1 - 1 .. n /\ e \in s .. n
    BY <1>1, <1>6
  <2> QED
    BY <2>1, ConcatAdjacentSubSeq DEF n
<1>8. Chunk(text, k) \in Seq(Nat)
  <2>1. s + 1 \in Int /\ e \in Int /\ \A i \in s + 1 .. e : text[i] \in Nat
    <3>1. \A i \in s + 1 .. e : i \in 1 .. n
      BY <1>1, <1>6
    <3> QED
      BY <1>1, <1>6, <3>1, ElementOfSeq DEF n
  <2> QED
    BY <1>6, <2>1, SubSeqProperties
<1> QED
  BY <1>2, <1>6, <1>7, <1>8 DEF e

(* the loop of sys_write, unrolled *)
LEMMA LoopUnrolled ==
  ASSUME NEW S \in SUBSET Consoles, Kept(S), NEW tty \in S, NEW text \in Seq(Nat)
  PROVE  \E f \in [0 .. Chunks(text) -> S] :
           /\ f[0] = tty
           /\ \A k \in 1 .. Chunks(text) :
                f[k] = sys_write_console(f[k - 1], Chunk(text, k - 1))
           /\ WriteLoop(tty, text) = f[Chunks(text)]
<1> DEFINE n == Chunks(text)
           step == [p \in S \X (1 .. n) |-> sys_write_console(p[1], Chunk(text, p[2] - 1))]
           g == CHOOSE g : g = [k \in 0 .. n |->
                  IF k = 0 THEN tty ELSE sys_write_console(g[k - 1], Chunk(text, k - 1))]
<1>1. WriteLoop(tty, text) = g[n]
  BY DEF WriteLoop
<1>2. n \in Nat
  BY ChunksCoverText
<1> HIDE DEF n
<1>3. step \in [S \X (1 .. n) -> S]
  <2>1. \A c \in S, k \in 1 .. n : sys_write_console(c, Chunk(text, k - 1)) \in S
    <3> SUFFICES ASSUME NEW c \in S, NEW k \in 1 .. n
                 PROVE  sys_write_console(c, Chunk(text, k - 1)) \in S
      OBVIOUS
    <3>1. k - 1 \in Nat /\ k - 1 < Chunks(text)
      BY <1>2 DEF n
    <3>2. Chunk(text, k - 1) \in Seq(Nat)
      BY <3>1, ChunkIsNext
    <3> QED
      BY <3>2, ConsoleWrites
  <2> QED
    BY <2>1
<1>4. PICK f \in Runs(n, S, tty, step) : TRUE
  <2> HIDE DEF step
  <2> QED
    BY <1>2, <1>3, Recurrence
<1>5. /\ f \in [0 .. n -> S] /\ f[0] = tty
      /\ \A k \in 1 .. n : f[k] = step[<<f[k - 1], k>>]
  BY DEF Runs
<1>6. ASSUME NEW k \in 1 .. n
      PROVE  f[k] = sys_write_console(f[k - 1], Chunk(text, k - 1))
  <2>1. f[k] = step[<<f[k - 1], k>>]
    BY <1>5
  <2>2. <<f[k - 1], k>> \in S \X (1 .. n)
    BY <1>2, <1>5
  <2> QED
    BY <2>1, <2>2
<1>7. f = [k \in 0 .. n |->
             IF k = 0 THEN tty ELSE sys_write_console(f[k - 1], Chunk(text, k - 1))]
  BY <1>2, <1>5, <1>6
<1>8. g = [k \in 0 .. n |->
             IF k = 0 THEN tty ELSE sys_write_console(g[k - 1], Chunk(text, k - 1))]
  BY <1>7
<1> HIDE DEF g
<1>9. /\ g[0] = tty
      /\ \A k \in 1 .. n : g[k] = sys_write_console(g[k - 1], Chunk(text, k - 1))
  BY <1>2, <1>8
<1>10. f = g
  <2>1. g = [k \in 0 .. n |-> g[k]]
    BY <1>8
  <2>2. StayTogether(n, f, g)
    BY <1>6, <1>9 DEF StayTogether
  <2>3. f[0] = g[0]
    BY <1>5, <1>9
  <2> QED
    BY <1>2, <1>5, <2>1, <2>2, <2>3, SameByInduction
<1> QED
  BY <1>1, <1>5, <1>6, <1>10 DEF n

(***************************************************************************)
(* sys_write puts out its whole text, in order, however long it is and     *)
(* whatever the size of the buffer.                                        *)
(***************************************************************************)
LEMMA LoopWrites ==
  ASSUME NEW S \in SUBSET Consoles, Kept(S), NEW tty \in S, tty.e9 = << >>, NEW text \in Seq(Nat)
  PROVE  WriteLoop(tty, text) \in S /\ WriteLoop(tty, text).e9 = text
<1> DEFINE n == Chunks(text)
<1>1. PICK f \in [0 .. n -> S] :
        /\ f[0] = tty
        /\ \A k \in 1 .. n : f[k] = sys_write_console(f[k - 1], Chunk(text, k - 1))
        /\ WriteLoop(tty, text) = f[n]
  BY LoopUnrolled
<1>2. n \in Nat
  BY ChunksCoverText
<1> DEFINE G == {m \in Nat : m <= n => f[m].e9 = SubSeq(text, 1, Upto(text, m))}
<1>3. 0 \in G
  <2>1. SubSeq(text, 1, Upto(text, 0)) = << >>
    BY ChunksCoverText, SubSeqEmpty
  <2> QED
    BY <1>1, <2>1
<1>4. ASSUME NEW m \in Nat, m \in G PROVE m + 1 \in G
  <2> SUFFICES ASSUME m + 1 <= n
               PROVE  f[m + 1].e9 = SubSeq(text, 1, Upto(text, m + 1))
    OBVIOUS
  <2>1. m + 1 \in 1 .. n /\ (m + 1) - 1 = m /\ m \in 0 .. n /\ m < n /\ m <= n
    BY <1>2
  <2>2. f[m] \in S /\ f[m + 1] = sys_write_console(f[m], Chunk(text, m))
    BY <1>1, <2>1
  <2>3. f[m].e9 = SubSeq(text, 1, Upto(text, m))
    BY <1>4, <2>1
  <2>4. /\ Chunk(text, m) \in Seq(Nat)
        /\ SubSeq(text, 1, Upto(text, m)) \o Chunk(text, m)
             = SubSeq(text, 1, Upto(text, m + 1))
    BY <2>1, ChunkIsNext
  <2> QED
    BY <2>2, <2>3, <2>4, ConsoleWrites
<1>5. n \in G
  <2> HIDE DEF G, n
  <2> QED
    BY <1>2, <1>3, <1>4, InductionOnSet
<1>6. f[n] \in S /\ f[n].e9 = SubSeq(text, 1, Upto(text, n))
  BY <1>1, <1>2, <1>5
<1> QED
  BY <1>1, <1>6, ChunksCoverText, SubSeqFull

-----------------------------------------------------------------------------
(* The cells of the screen, the last followed by the first *)

Cells == NUM_COLUMNS * NUM_ROWS

LEMMA OnceAround ==
  ASSUME NEW m \in Nat \ {0}, NEW n \in 0 .. m - 1
  PROVE  n % m = n /\ (n + m) % m = n /\ (n - m) % m = n
<1>1. n % m = n
  BY SMT
<1>2. (n + m) % m = n
  BY SMT
<1>3. (n - m) % m = n
  BY SMT
<1> QED
  BY <1>1, <1>2, <1>3

(* the j-th cell after s, and back to j *)
LEMMA Ring ==
  ASSUME NEW m \in Nat \ {0}, NEW s \in 0 .. m - 1, NEW j \in 0 .. m - 1
  PROVE  /\ (s + j) % m = IF s + j < m THEN s + j ELSE s + j - m
         /\ (s + j) % m \in 0 .. m - 1
         /\ (((s + j) % m) - s) % m = j
<1>1. CASE s + j < m
  <2>1. (s + j) % m = s + j
    BY <1>1, OnceAround
  <2>2. (s + j) - s = j
    OBVIOUS
  <2>3. j % m = j
    BY OnceAround
  <2> QED
    BY <1>1, <2>1, <2>2, <2>3
<1>2. CASE ~(s + j < m)
  <2> DEFINE n == s + j - m
  <2>1. n \in 0 .. m - 1 /\ n + m = s + j /\ n - s = j - m
    BY <1>2
  <2>2. (s + j) % m = n
    BY <2>1, OnceAround
  <2>3. (j - m) % m = j
    BY OnceAround
  <2> QED
    BY <1>2, <2>1, <2>2, <2>3
<1> QED
  BY <1>1, <1>2

LEMMA CellsFact ==
  /\ NUM_COLUMNS \in Nat \ {0} /\ NUM_ROWS \in Nat \ {0} /\ Cells \in Nat \ {0}
  /\ \A y \in 0 .. NUM_ROWS - 1, x \in 0 .. NUM_COLUMNS - 1 :
       y * NUM_COLUMNS + x \in 0 .. Cells - 1
<1>1. /\ NUM_COLUMNS \in Nat /\ NUM_COLUMNS >= 1
      /\ NUM_ROWS \in Nat /\ NUM_ROWS >= 1
  BY ConsoleAssumption
<1>2. Cells \in Nat
  BY <1>1 DEF Cells
<1>3. ASSUME NEW y \in 0 .. NUM_ROWS - 1, NEW x \in 0 .. NUM_COLUMNS - 1
      PROVE  y * NUM_COLUMNS + x \in 0 .. Cells - 1
  <2>1. y + 1 <= NUM_ROWS
    BY <1>1
  <2>2. (y + 1) * NUM_COLUMNS <= NUM_ROWS * NUM_COLUMNS
    BY SMT, <1>1, <2>1
  <2>3. (y + 1) * NUM_COLUMNS = y * NUM_COLUMNS + NUM_COLUMNS
    BY SMT, <1>1
  <2>4. y * NUM_COLUMNS \in Nat /\ NUM_ROWS * NUM_COLUMNS = Cells
    BY SMT, <1>1 DEF Cells
  <2> QED
    BY <1>1, <1>2, <2>2, <2>3, <2>4
<1>4. Cells # 0
  <2>1. 0 \in 0 .. NUM_ROWS - 1 /\ 0 \in 0 .. NUM_COLUMNS - 1
    BY <1>1
  <2>2. 0 * NUM_COLUMNS + 0 \in 0 .. Cells - 1
    BY <1>3, <2>1
  <2> QED
    BY <1>2, <2>2
<1> QED
  BY <1>1, <1>2, <1>3, <1>4

(* a character fills the cell under the cursor, which goes to the next one *)
LEMMA NextCell ==
  ASSUME NEW tty \in Consoles, NEW c \in Nat, c # NewLine
  PROVE  /\ tty.y * NUM_COLUMNS + tty.x \in 0 .. Cells - 1
         /\ printc(tty, c).y * NUM_COLUMNS + printc(tty, c).x
              = ((tty.y * NUM_COLUMNS + tty.x) + 1) % Cells
         /\ printc(tty, c).shown = Put(tty.shown, tty.y * NUM_COLUMNS + tty.x, c)
<1> DEFINE x == tty.x
           y == tty.y
           here == y * NUM_COLUMNS + x
           after == printc(tty, c)
<1>1. /\ x \in 0 .. NUM_COLUMNS - 1 /\ y \in 0 .. NUM_ROWS - 1
      /\ tty = [x |-> tty.x, y |-> tty.y, shown |-> tty.shown, e9 |-> tty.e9]
  BY DEF Consoles
<1>2. here \in 0 .. Cells - 1
  BY <1>1, CellsFact
<1>3. /\ after.shown = Put(tty.shown, here, c)
      /\ IF x + 1 >= NUM_COLUMNS THEN after.x = 0 /\ after.y = (y + 1) % NUM_ROWS
         ELSE after.x = x + 1 /\ after.y = y
  <2>1. CASE x + 1 >= NUM_COLUMNS
    BY <1>1, <2>1 DEF printc, NextRow
  <2>2. CASE ~(x + 1 >= NUM_COLUMNS)
    BY <1>1, <2>2 DEF printc, NextRow
  <2> QED
    BY <2>1, <2>2
<1> HIDE DEF after, x, y
<1>4. NUM_COLUMNS \in Nat \ {0} /\ NUM_ROWS \in Nat \ {0} /\ Cells \in Nat \ {0}
  BY CellsFact
<1>5. (y + 1) * NUM_COLUMNS = y * NUM_COLUMNS + NUM_COLUMNS /\ y * NUM_COLUMNS \in Nat
  BY SMT, <1>1, <1>4
<1>6. CASE ~(x + 1 >= NUM_COLUMNS)
  <2>1. after.y * NUM_COLUMNS + after.x = here + 1
    BY <1>1, <1>3, <1>4, <1>5, <1>6
  <2>2. here + 1 \in 0 .. Cells - 1
    <3>1. x + 1 \in 0 .. NUM_COLUMNS - 1
      BY <1>1, <1>4, <1>6
    <3>2. y * NUM_COLUMNS + (x + 1) \in 0 .. Cells - 1
      BY <1>1, <3>1, CellsFact
    <3> QED
      BY <1>1, <1>4, <1>5, <3>2
  <2>3. (here + 1) % Cells = here + 1
    BY <1>4, <2>2, OnceAround
  <2> QED
    BY <1>2, <1>3, <2>1, <2>3 DEF x, y, after
<1>7. CASE x + 1 >= NUM_COLUMNS /\ y + 1 < NUM_ROWS
  <2>1. y + 1 \in 0 .. NUM_ROWS - 1 /\ (y + 1) % NUM_ROWS = y + 1
    <3>1. y + 1 \in 0 .. NUM_ROWS - 1
      BY <1>1, <1>4, <1>7
    <3> QED
      BY <1>4, <3>1, OnceAround
  <2>2. x + 1 = NUM_COLUMNS /\ after.x = 0 /\ after.y = y + 1
    BY <1>1, <1>3, <1>4, <1>7, <2>1
  <2>3. after.y * NUM_COLUMNS + after.x = here + 1
    BY <1>1, <1>4, <1>5, <2>2
  <2>4. here + 1 \in 0 .. Cells - 1
    <3> DEFINE z == 0
               row == y + 1
    <3>1. z \in 0 .. NUM_COLUMNS - 1 /\ row \in 0 .. NUM_ROWS - 1
      BY <1>4, <2>1
    <3> HIDE DEF z, row
    <3>2. row * NUM_COLUMNS + z \in 0 .. Cells - 1
      BY <3>1, CellsFact
    <3> QED
      BY <1>1, <1>4, <1>5, <2>2, <3>2 DEF z, row
  <2>5. (here + 1) % Cells = here + 1
    BY <1>4, <2>4, OnceAround
  <2> QED
    BY <1>2, <1>3, <2>3, <2>5 DEF x, y, after
<1>8. CASE x + 1 >= NUM_COLUMNS /\ ~(y + 1 < NUM_ROWS)
  <2>1. x + 1 = NUM_COLUMNS /\ y + 1 = NUM_ROWS
    BY <1>1, <1>4, <1>8
  <2>2. (0 + NUM_ROWS) % NUM_ROWS = 0 /\ (0 + Cells) % Cells = 0
    <3> DEFINE z == 0
    <3>1. z \in 0 .. NUM_ROWS - 1 /\ z \in 0 .. Cells - 1
      BY <1>4
    <3> HIDE DEF z
    <3>2. (z + NUM_ROWS) % NUM_ROWS = z /\ (z + Cells) % Cells = z
      BY <1>4, <3>1, OnceAround
    <3> QED
      BY <3>2 DEF z
  <2>3. 0 + NUM_ROWS = NUM_ROWS /\ 0 + Cells = Cells /\ 0 * NUM_COLUMNS + 0 = 0
    BY <1>4
  <2>4. after.y * NUM_COLUMNS + after.x = 0
    BY <1>3, <1>8, <2>1, <2>2, <2>3
  <2>5. here + 1 = Cells
    <3>1. NUM_ROWS * NUM_COLUMNS = Cells
      BY SMT, <1>4 DEF Cells
    <3> QED
      BY <1>1, <1>4, <1>5, <2>1, <3>1
  <2> QED
    BY <1>2, <1>3, <2>2, <2>3, <2>4, <2>5 DEF x, y, after
<1> QED
  BY <1>6, <1>7, <1>8

(***************************************************************************)
(* The consoles whose text, begun in cell s, stands on the screen, as long *)
(* as it has no new line and no more characters than the screen has cells. *)
(***************************************************************************)
Place(s, e9) == {(s + i - 1) % Cells : i \in DOMAIN e9}

FilledFrom(s) ==
  {tty \in Consoles : NewLine \notin ToSet(tty.e9) /\ Len(tty.e9) <= Cells =>
     /\ tty.y * NUM_COLUMNS + tty.x = (s + Len(tty.e9)) % Cells
     /\ tty.shown = [cell \in Place(s, tty.e9) |-> tty.e9[((cell - s) % Cells) + 1]]}

LEMMA FilledKept ==
  ASSUME NEW s \in 0 .. Cells - 1
  PROVE  FilledFrom(s) \in SUBSET Consoles /\ Kept(FilledFrom(s))
<1> SUFFICES ASSUME NEW tty \in FilledFrom(s), NEW c \in Nat
             PROVE  printc(tty, c) \in FilledFrom(s)
  BY DEF Kept, FilledFrom
<1> DEFINE e9 == tty.e9
           after == printc(tty, c)
           L == Len(e9)
           here == tty.y * NUM_COLUMNS + tty.x
<1>1. tty \in Consoles /\ after \in Consoles /\ after.e9 = Append(e9, c) /\ e9 \in Seq(Nat)
  BY printcType DEF FilledFrom, Consoles
<1>2. /\ L \in Nat /\ Len(after.e9) = L + 1 /\ DOMAIN e9 = 1 .. L
      /\ DOMAIN after.e9 = 1 .. L + 1
      /\ after.e9[L + 1] = c /\ \A i \in 1 .. L : after.e9[i] = e9[i]
  BY <1>1, AppendProperties, LenProperties
<1> SUFFICES ASSUME NewLine \notin ToSet(after.e9), Len(after.e9) <= Cells
             PROVE  /\ after.y * NUM_COLUMNS + after.x = (s + Len(after.e9)) % Cells
                    /\ after.shown = [cell \in Place(s, after.e9) |->
                                        after.e9[((cell - s) % Cells) + 1]]
  BY <1>1 DEF FilledFrom
<1>3. c # NewLine /\ NewLine \notin ToSet(e9)
  <2>1. L + 1 \in 1 .. L + 1 /\ \A j \in 1 .. L : j \in 1 .. L + 1
    BY <1>2
  <2>2. \A j \in 1 .. L + 1 : after.e9[j] # NewLine
    BY <1>2 DEF ToSet
  <2>3. \A j \in 1 .. L : e9[j] # NewLine
    BY <1>2, <2>1, <2>2
  <2> QED
    BY <1>2, <2>1, <2>2, <2>3 DEF ToSet
<1>4. Cells \in Nat \ {0} /\ L + 1 <= Cells /\ L \in 0 .. Cells - 1 /\ L <= Cells
  BY <1>2, CellsFact
<1>5. /\ here = (s + L) % Cells
      /\ tty.shown = [cell \in Place(s, e9) |-> e9[((cell - s) % Cells) + 1]]
  BY <1>3, <1>4 DEF FilledFrom
<1>6. /\ after.y * NUM_COLUMNS + after.x = (here + 1) % Cells
      /\ after.shown = Put(tty.shown, here, c)
  BY <1>1, <1>3, NextCell
<1> HIDE DEF after, here, e9, L
<1>7. (here + 1) % Cells = (s + (L + 1)) % Cells
  <2>1. CASE s + L < Cells
    <3>1. here = s + L
      BY <1>4, <1>5, <2>1, Ring
    <3>2. here + 1 = s + (L + 1)
      BY <1>4, <3>1
    <3> QED
      BY <3>2
  <2>2. CASE ~(s + L < Cells)
    <3> DEFINE n == s + L - Cells + 1
    <3>1. here = s + L - Cells
      BY <1>4, <1>5, <2>2, Ring
    <3>2. n \in 0 .. Cells - 1 /\ here + 1 = n /\ s + (L + 1) = n + Cells
      BY <1>4, <2>2, <3>1
    <3> HIDE DEF n
    <3> QED
      BY <1>4, <3>2, OnceAround
  <2> QED
    BY <2>1, <2>2
<1>8. \A i \in 1 .. L + 1 : (((s + i - 1) % Cells) - s) % Cells = i - 1
  <2> SUFFICES ASSUME NEW i \in 1 .. L + 1
               PROVE  (((s + i - 1) % Cells) - s) % Cells = i - 1
    OBVIOUS
  <2> DEFINE j == i - 1
  <2>1. j \in 0 .. Cells - 1 /\ s + i - 1 = s + j
    BY <1>2, <1>4
  <2> HIDE DEF j
  <2>2. (((s + j) % Cells) - s) % Cells = j
    BY <1>4, <2>1, Ring
  <2> QED
    BY <2>1, <2>2 DEF j
<1>9. Place(s, after.e9) = Place(s, e9) \cup {here}
  <2>1. 1 .. L + 1 = 1 .. L \cup {L + 1} /\ s + (L + 1) - 1 = s + L
    BY <1>2
  <2>2. Place(s, after.e9) = {(s + i - 1) % Cells : i \in 1 .. L \cup {L + 1}}
    BY <1>2, <2>1 DEF Place
  <2>3. Place(s, e9) = {(s + i - 1) % Cells : i \in 1 .. L}
    BY <1>2 DEF Place
  <2>4. here = (s + (L + 1) - 1) % Cells
    BY <1>5, <2>1
  <2> QED
    BY <2>2, <2>3, <2>4
<1>10. here \notin Place(s, e9)
  <2> SUFFICES ASSUME NEW i \in 1 .. L, (s + i - 1) % Cells = here PROVE FALSE
    BY <1>2 DEF Place
  <2>1. s + (L + 1) - 1 = s + L /\ i \in 1 .. L + 1 /\ L + 1 \in 1 .. L + 1
    BY <1>2
  <2>2. (here - s) % Cells = i - 1 /\ (here - s) % Cells = (L + 1) - 1
    BY <1>5, <1>8, <2>1
  <2> QED
    BY <1>2, <2>2
<1>11. \A cell \in Place(s, e9) :
         after.e9[((cell - s) % Cells) + 1] = e9[((cell - s) % Cells) + 1]
  <2> SUFFICES ASSUME NEW i \in 1 .. L
               PROVE  LET cell == (s + i - 1) % Cells
                      IN after.e9[((cell - s) % Cells) + 1] = e9[((cell - s) % Cells) + 1]
    BY <1>2 DEF Place
  <2>1. i \in 1 .. L + 1 /\ (i - 1) + 1 = i
    BY <1>2
  <2>2. (((s + i - 1) % Cells) - s) % Cells = i - 1
    BY <1>8, <2>1
  <2> QED
    BY <1>2, <2>1, <2>2
<1>12. after.e9[((here - s) % Cells) + 1] = c
  <2>1. s + (L + 1) - 1 = s + L /\ L + 1 \in 1 .. L + 1 /\ (L + 1) - 1 = L
    BY <1>2
  <2>2. (here - s) % Cells = L
    BY <1>5, <1>8, <2>1
  <2> QED
    BY <1>2, <2>2
<1>13. after.shown = [cell \in Place(s, after.e9) |-> after.e9[((cell - s) % Cells) + 1]]
  <2>1. DOMAIN tty.shown = Place(s, e9)
    BY <1>5
  <2>2. after.shown = [cell \in Place(s, after.e9) |->
                         IF cell = here THEN c ELSE tty.shown[cell]]
    BY <1>6, <1>9, <2>1 DEF Put
  <2>3. \A cell \in Place(s, after.e9) :
          (IF cell = here THEN c ELSE tty.shown[cell]) = after.e9[((cell - s) % Cells) + 1]
    BY <1>5, <1>9, <1>10, <1>11, <1>12
  <2> QED
    BY <2>2, <2>3
<1> QED
  BY <1>2, <1>6, <1>7, <1>13

-----------------------------------------------------------------------------
(* Numbers as text *)

(* the loop of itoa over a number, unrolled: one digit off at each pass *)
LEMMA DigitsUnrolled ==
  ASSUME NEW a \in Nat
  PROVE  \E d : /\ d[0] = << >>
                /\ \A n \in 1 .. a : d[n] = <<(n % 10) + Zero>> \o d[n \div 10]
                /\ Digits(a) = d[a]
<1> DEFINE IsDigits(f, m) ==
             f = [n \in 0 .. m |-> IF n = 0 THEN << >>
                                   ELSE <<(n % 10) + Zero>> \o f[n \div 10]]
           G == {m \in Nat : \E f : IsDigits(f, m)}
           g == CHOOSE g : IsDigits(g, a)
<1>1. Digits(a) = g[a]
  BY DEF Digits
<1>2. \A n \in Nat : n # 0 => n \div 10 \in 0 .. n - 1
  BY SMT
<1>3. 0 \in G
  <2>1. IsDigits([n \in 0 .. 0 |-> << >>], 0)
    OBVIOUS
  <2> QED
    BY <2>1
<1>4. ASSUME NEW m \in Nat, m \in G PROVE m + 1 \in G
  <2>1. PICK f : IsDigits(f, m)
    BY <1>4
  <2> DEFINE h == [n \in 0 .. m + 1 |->
                     IF n = m + 1 THEN <<((m + 1) % 10) + Zero>> \o f[(m + 1) \div 10]
                     ELSE f[n]]
             r == [n \in 0 .. m + 1 |-> IF n = 0 THEN << >>
                                        ELSE <<(n % 10) + Zero>> \o h[n \div 10]]
  <2>2. ASSUME NEW n \in 0 .. m + 1 PROVE h[n] = r[n]
    <3>1. CASE n = m + 1
      <4>1. (m + 1) \div 10 \in 0 .. m
        BY <1>2
      <4>2. h[(m + 1) \div 10] = f[(m + 1) \div 10]
        BY <4>1
      <4> QED
        BY <3>1, <4>2
    <3>2. CASE n # m + 1 /\ n # 0
      <4>1. n \in 0 .. m /\ n \div 10 \in 0 .. m
        BY <1>2, <3>2
      <4>2. h[n \div 10] = f[n \div 10] /\ h[n] = f[n]
        BY <4>1
      <4>3. f[n] = <<(n % 10) + Zero>> \o f[n \div 10]
        BY <2>1, <3>2, <4>1
      <4> QED
        BY <3>2, <4>2, <4>3
    <3>3. CASE n = 0
      BY <2>1, <3>3
    <3> QED
      BY <3>1, <3>2, <3>3
  <2>3. h = r
    BY <2>2
  <2>4. IsDigits(h, m + 1)
    BY <2>3
  <2> HIDE DEF IsDigits, h
  <2> QED
    BY <2>4
<1>5. IsDigits(g, a)
  <2>1. a \in G
    <3> HIDE DEF G
    <3> QED
      BY <1>3, <1>4, InductionOnSet
  <2> QED
    BY <2>1
<1> HIDE DEF g
<1>6. g[0] = << >> /\ \A n \in 1 .. a : g[n] = <<(n % 10) + Zero>> \o g[n \div 10]
  <2>1. 0 \in 0 .. a /\ \A n \in 1 .. a : n \in 0 .. a /\ n # 0
    OBVIOUS
  <2>2. \A n \in 0 .. a : g[n] = IF n = 0 THEN << >>
                                 ELSE <<(n % 10) + Zero>> \o g[n \div 10]
    BY <1>5
  <2> QED
    BY <2>1, <2>2
<1> QED
  BY <1>1, <1>6

LEMMA ReversePrepended ==
  ASSUME NEW s \in Seq(Nat), NEW c \in Nat
  PROVE  /\ <<c>> \o s \in Seq(Nat)
         /\ Reverse(s) \in Seq(Nat)
         /\ Reverse(<<c>> \o s) = Append(Reverse(s), c)
<1> DEFINE n == Len(s)
           b == <<c>> \o s
           v == Reverse(s)
<1>1. n \in Nat /\ <<c>> \in Seq(Nat) /\ Len(<<c>>) = 1 /\ <<c>>[1] = c
      /\ \A i \in 1 .. n : s[i] \in Nat
  BY LenProperties, ElementOfSeq
<1>2. /\ b \in Seq(Nat) /\ Len(b) = n + 1
      /\ \A i \in 1 .. n + 1 : b[i] = IF i <= 1 THEN c ELSE s[i - 1]
  BY <1>1, ConcatProperties
<1>3. v = [i \in 1 .. n |-> s[(n - i) + 1]]
  BY DEF Reverse
<1>4. Reverse(b) = [i \in 1 .. n + 1 |-> b[((n + 1) - i) + 1]]
  BY <1>2 DEF Reverse
<1> HIDE DEF n, b, v
<1>5. v \in [1 .. n -> Nat]
  <2>1. \A i \in 1 .. n : (n - i) + 1 \in 1 .. n
    BY <1>1
  <2> QED
    BY <1>1, <1>3, <2>1
<1>6. v \in Seq(Nat) /\ Len(v) = n
  BY <1>1, <1>5, SeqDef, LenProperties
<1>7. /\ Append(v, c) \in Seq(Nat) /\ Len(Append(v, c)) = n + 1
      /\ \A i \in 1 .. n : Append(v, c)[i] = v[i]
      /\ Append(v, c)[n + 1] = c
  BY <1>6, AppendProperties
<1>8. Append(v, c) = [i \in 1 .. n + 1 |-> Append(v, c)[i]]
  BY <1>7, LenProperties
<1>9. ASSUME NEW i \in 1 .. n + 1 PROVE Append(v, c)[i] = b[((n + 1) - i) + 1]
  <2>1. CASE i = n + 1
    <3>1. ((n + 1) - i) + 1 = 1 /\ 1 \in 1 .. n + 1
      BY <1>1, <2>1
    <3>2. b[1] = c
      BY <1>2, <3>1
    <3>3. b[((n + 1) - i) + 1] = c
      BY <3>1, <3>2
    <3> QED
      BY <1>7, <2>1, <3>3
  <2>2. CASE i # n + 1
    <3>1. /\ i \in 1 .. n
          /\ ((n + 1) - i) + 1 \in 1 .. n + 1 /\ ~(((n + 1) - i) + 1 <= 1)
          /\ (((n + 1) - i) + 1) - 1 = (n - i) + 1
      BY <1>1, <2>2
    <3>2. b[((n + 1) - i) + 1] = s[(n - i) + 1]
      BY <1>2, <3>1
    <3> QED
      BY <1>3, <1>7, <3>1, <3>2
  <2> QED
    BY <2>1, <2>2
<1>10. Append(v, c) = Reverse(b)
  BY <1>4, <1>8, <1>9
<1> QED
  BY <1>2, <1>6, <1>10 DEF b, v

(* the second loop of itoa reverses the digits *)
LEMMA SwappedIsReverse ==
  ASSUME NEW b \in Seq(Nat)
  PROVE  Swapped(b) = Reverse(b)
<1> DEFINE n == Len(b)
           half == n \div 2
<1>1. n \in Nat /\ DOMAIN b = 1 .. n
  BY LenProperties
<1>2. Swapped(b) = [i \in 1 .. n |->
                      IF i <= half \/ i > n - half THEN b[n + 1 - i] ELSE b[i]]
  BY <1>1 DEF Swapped
<1>3. Reverse(b) = [i \in 1 .. n |-> b[(n - i) + 1]]
  BY DEF Reverse
<1> HIDE DEF n
<1>4. half \in Nat /\ (n = 2 * half \/ n = 2 * half + 1)
  BY SMT, <1>1
<1> HIDE DEF half
<1>5. ASSUME NEW i \in 1 .. n
      PROVE  (IF i <= half \/ i > n - half THEN b[n + 1 - i] ELSE b[i]) = b[(n - i) + 1]
  <2>1. n + 1 - i = (n - i) + 1
    BY <1>1
  <2>2. ~(i <= half \/ i > n - half) => i = (n - i) + 1
    BY <1>1, <1>4
  <2> QED
    BY <2>1, <2>2
<1> QED
  BY <1>2, <1>3, <1>5

LEMMA ValueUnrolled ==
  ASSUME NEW text \in Seq(Nat)
  PROVE  \E f \in [0 .. Len(text) -> Int] :
           /\ f[0] = 0
           /\ \A i \in 1 .. Len(text) : f[i] = 10 * f[i - 1] + text[i] - Zero
           /\ Value(text) = f[Len(text)]
<1> DEFINE n == Len(text)
           step == [p \in Int \X (1 .. n) |-> 10 * p[1] + text[p[2]] - Zero]
           g == CHOOSE g : g = [i \in 0 .. n |->
                  IF i = 0 THEN 0 ELSE 10 * g[i - 1] + text[i] - Zero]
<1>1. Value(text) = g[n]
  BY DEF Value
<1>2. n \in Nat /\ \A i \in 1 .. n : text[i] \in Nat
  BY LenProperties, ElementOfSeq
<1> HIDE DEF n
<1>3. step \in [Int \X (1 .. n) -> Int]
  BY <1>2 DEF Zero
<1>4. PICK f \in Runs(n, Int, 0, step) : TRUE
  <2> HIDE DEF step
  <2> DEFINE zero == 0
  <2>1. zero \in Int
    OBVIOUS
  <2> HIDE DEF zero
  <2>2. Runs(n, Int, zero, step) # {}
    BY <1>2, <1>3, <2>1, Recurrence
  <2> QED
    BY <2>2 DEF zero
<1>5. /\ f \in [0 .. n -> Int] /\ f[0] = 0
      /\ \A i \in 1 .. n : f[i] = step[<<f[i - 1], i>>]
  BY DEF Runs
<1>6. ASSUME NEW i \in 1 .. n PROVE f[i] = 10 * f[i - 1] + text[i] - Zero
  <2>1. f[i] = step[<<f[i - 1], i>>]
    BY <1>5
  <2>2. <<f[i - 1], i>> \in Int \X (1 .. n)
    BY <1>2, <1>5
  <2> QED
    BY <2>1, <2>2
<1>7. f = [i \in 0 .. n |-> IF i = 0 THEN 0 ELSE 10 * f[i - 1] + text[i] - Zero]
  BY <1>2, <1>5, <1>6
<1>8. g = [i \in 0 .. n |-> IF i = 0 THEN 0 ELSE 10 * g[i - 1] + text[i] - Zero]
  BY <1>7
<1> HIDE DEF g
<1>9. g[0] = 0 /\ \A i \in 1 .. n : g[i] = 10 * g[i - 1] + text[i] - Zero
  BY <1>2, <1>8
<1>10. f = g
  <2>1. g = [i \in 0 .. n |-> g[i]]
    BY <1>8
  <2>2. StayTogether(n, f, g)
    BY <1>6, <1>9 DEF StayTogether
  <2>3. f[0] = g[0]
    BY <1>5, <1>9
  <2> QED
    BY <1>2, <1>5, <2>1, <2>2, <2>3, SameByInduction
<1> QED
  BY <1>1, <1>5, <1>6, <1>10 DEF n

LEMMA ValueAppended ==
  ASSUME NEW s \in Seq(Nat), NEW c \in Nat
  PROVE  /\ Value(<< >>) = 0
         /\ Value(s) \in Int
         /\ Value(Append(s, c)) = 10 * Value(s) + c - Zero
<1>1. Value(<< >>) = 0
  <2>1. << >> \in Seq(Nat) /\ Len(<< >>) = 0
    BY EmptySeq
  <2> QED
    BY <2>1, ValueUnrolled
<1> DEFINE n == Len(s)
           t == Append(s, c)
<1>2. n \in Nat
  BY LenProperties
<1>3. /\ t \in Seq(Nat) /\ Len(t) = n + 1 /\ t[n + 1] = c
      /\ \A i \in 1 .. n : t[i] = s[i]
  BY AppendProperties
<1>4. PICK f \in [0 .. n -> Int] :
        /\ f[0] = 0
        /\ \A i \in 1 .. n : f[i] = 10 * f[i - 1] + s[i] - Zero
        /\ Value(s) = f[n]
  BY ValueUnrolled
<1>5. PICK g \in [0 .. Len(t) -> Int] :
        /\ g[0] = 0
        /\ \A i \in 1 .. Len(t) : g[i] = 10 * g[i - 1] + t[i] - Zero
        /\ Value(t) = g[Len(t)]
  <2> HIDE DEF t
  <2> QED
    BY <1>3, ValueUnrolled
<1> HIDE DEF n, t
<1> DEFINE h == [i \in 0 .. n |-> g[i]]
<1>6. f = h
  <2>1. ASSUME NEW i \in 1 .. n, f[i - 1] = h[i - 1] PROVE f[i] = h[i]
    <3>1. i \in 1 .. n + 1 /\ i \in 0 .. n /\ i - 1 \in 0 .. n
      BY <1>2
    <3>2. h[i] = g[i] /\ h[i - 1] = g[i - 1] /\ t[i] = s[i]
      BY <1>3, <3>1
    <3>3. g[i] = 10 * g[i - 1] + t[i] - Zero
      BY <1>3, <1>5, <3>1
    <3> QED
      BY <1>4, <2>1, <3>2, <3>3
  <2>2. StayTogether(n, f, h)
    BY <2>1 DEF StayTogether
  <2>3. f[0] = h[0] /\ h = [i \in 0 .. n |-> h[i]]
    BY <1>2, <1>4, <1>5
  <2> HIDE DEF h
  <2> QED
    BY <1>2, <1>4, <2>2, <2>3, SameByInduction
<1>7. g[n] = Value(s) /\ Value(s) \in Int
  <2>1. n \in 0 .. n
    BY <1>2
  <2> QED
    BY <1>4, <1>6, <2>1
<1>8. g[n + 1] = 10 * g[n] + c - Zero
  <2>1. n + 1 \in 1 .. n + 1 /\ (n + 1) - 1 = n
    BY <1>2
  <2> QED
    BY <1>3, <1>5, <2>1
<1> QED
  BY <1>1, <1>3, <1>5, <1>7, <1>8 DEF t

(***************************************************************************)
(* itoa writes a number that reads back as itself, whatever its size.      *)
(***************************************************************************)
THEOREM itoaReadsBack ==
  ASSUME NEW a \in Nat
  PROVE  itoa(a) \in Seq(Nat) /\ Value(itoa(a)) = a
<1>1. PICK d : /\ d[0] = << >>
               /\ \A n \in 1 .. a : d[n] = <<(n % 10) + Zero>> \o d[n \div 10]
               /\ Digits(a) = d[a]
  BY DigitsUnrolled
<1> DEFINE Right(n) == d[n] \in Seq(Nat) /\ Value(Reverse(d[n])) = n
           G == {m \in Nat : m <= a => \A n \in 0 .. m : Right(n)}
<1>2. Right(0)
  <2>1. Reverse(<< >>) = << >> /\ << >> \in Seq(Nat)
    BY EmptySeq DEF Reverse
  <2> QED
    BY <1>1, <2>1, ValueAppended
<1>3. ASSUME NEW m \in Nat, m \in G PROVE m + 1 \in G
  <2> SUFFICES ASSUME m + 1 <= a PROVE Right(m + 1)
    BY <1>3
  <2> DEFINE q == (m + 1) \div 10
             c == ((m + 1) % 10) + Zero
  <2>1. q \in 0 .. m /\ c \in Nat /\ m + 1 = 10 * q + c - Zero
    BY SMT DEF Zero
  <2>2. Right(q)
    BY <1>3, <2>1
  <2>3. d[m + 1] = <<c>> \o d[q]
    <3>1. m + 1 \in 1 .. a
      OBVIOUS
    <3> HIDE DEF Right, G
    <3> QED
      BY <1>1, <3>1
  <2> HIDE DEF q, c
  <2>4. /\ d[m + 1] \in Seq(Nat)
        /\ Reverse(d[q]) \in Seq(Nat)
        /\ Reverse(d[m + 1]) = Append(Reverse(d[q]), c)
    BY <2>1, <2>2, <2>3, ReversePrepended
  <2>5. Value(Reverse(d[m + 1])) = 10 * Value(Reverse(d[q])) + c - Zero
    BY <2>1, <2>4, ValueAppended
  <2> QED
    BY <2>1, <2>2, <2>4, <2>5
<1>4. Right(a)
  <2>1. 0 \in G
    BY <1>2
  <2>2. a \in G
    <3> HIDE DEF G
    <3> QED
      BY <1>3, <2>1, InductionOnSet
  <2> QED
    BY <2>2
<1> HIDE DEF Right
<1>5. CASE a = 0
  <2>1. << >> \in Seq(Nat) /\ Zero \in Nat /\ Append(<< >>, Zero) = <<Zero>>
    BY EmptySeq DEF Zero
  <2>2. Value(<<Zero>>) = 10 * 0 + Zero - Zero
    BY <2>1, ValueAppended
  <2>3. Value(<<Zero>>) = 0
    BY <2>2 DEF Zero
  <2> QED
    BY <1>5, <2>1, <2>3 DEF itoa
<1>6. CASE a # 0
  <2>1. itoa(a) = Reverse(d[a])
    BY <1>1, <1>4, <1>6, SwappedIsReverse DEF itoa, Right
  <2>2. Reverse(d[a]) \in Seq(Nat)
    BY <1>4, ReversePrepended DEF Right
  <2> QED
    BY <1>4, <2>1, <2>2 DEF Right
<1> QED
  BY <1>5, <1>6

-----------------------------------------------------------------------------
(* Calls *)

Calls == [fn : DOMAIN Number, fd : Int, buffer : Int, nbytes : Int,
          text : Seq(Nat), asked : Nat, again : BOOLEAN]

(* what write and perror pass on, or what check_fd and the sign refuse *)
WritesItsText(c) ==
  c.fn \in {"write", "perror"} =>
    /\ c.nbytes = Len(c.text) \/ c.nbytes < 0 \/ c.fd # 1
    /\ c.fn = "perror" => c.text = itoa(c.asked)

CallOK(t) ==
  pc[t] # "user" => call[t] \in Calls /\ WritesItsText(call[t])

NotANumber(value) == value \in Int /\ value \notin 0 .. 36

(* at the first entry eax holds the number of the wrapper, at the second one of *)
(* pthread_create a result of clone, which is no number of the table            *)
EntryOK(t) ==
  stopped = "no" /\ pc[t] = "sysenter" =>
    IF call[t].again THEN call[t].fn = "pthread_create" /\ NotANumber(eax[t])
    ELSE eax[t] = Number[call[t].fn] /\ routines[t] = 0

ResultOK(t) ==
  pc[t] = "back" =>
    /\ call[t].fn = "pthread_create" => NotANumber(eax[t])
    /\ call[t].fn \in Tests /\ eax[t] < 0 => -eax[t] \in Errors

SysInv ==
  /\ SysTypeOK
  /\ con \in Consoles
  /\ call \in [Thread -> Calls \cup {Program}]
  /\ routines \in [Thread -> {0, 1}]
  /\ \A t \in Thread : CallOK(t) /\ EntryOK(t) /\ ResultOK(t)
  /\ OneRoutinePerCall
  /\ WriteInOrder
  /\ ScreenShowsText

Routines == {"sys_write", "sys_GetKeyboardState", "sys_get_stats", "sys_clone",
             "sys_exit", "sys_pthread_exit"} \cup DOMAIN Simply

LEMMA MaxSyscallIs36 == MAX_SYSCALL = 36
<1>1. DOMAIN sys_call_table = 0 .. 35
  BY DEF sys_call_table
<1>2. Cardinality(0 .. 35) = 36
  <2> DEFINE a == 0
             b == 35
  <2>1. a \in Int /\ b \in Int /\ ~(a > b) /\ b - a + 1 = 36
    OBVIOUS
  <2> HIDE DEF a, b
  <2>2. Cardinality(a .. b) = IF a > b THEN 0 ELSE b - a + 1
    BY <2>1, FS_Interval
  <2>3. Cardinality(a .. b) = 36
    BY <2>1, <2>2
  <2> QED
    BY <2>3 DEF a, b
<1> QED
  BY <1>1, <1>2 DEF MAX_SYSCALL

LEMMA NumbersAreRoutines ==
  ASSUME NEW fn \in DOMAIN Number
  PROVE  /\ Number[fn] \in 0 .. 35
         /\ Entry(Number[fn]) \in Routines
         /\ Entry(Number[fn]) = "sys_write" <=> fn \in {"write", "perror"}
         /\ fn \in {"pthread_create", "fork"} => Entry(Number[fn]) = "sys_clone"
         /\ Entry(Number[fn]) = "sys_StartScreen" => fn \notin Tests
<1>1. Number[fn] \in 0 .. 35
  BY DEF Number
<1>2. Entry(Number[fn]) = sys_call_table[Number[fn]]
  BY <1>1 DEF Entry, sys_call_table
<1>3. sys_call_table[Number[fn]] \in Routines
  BY <1>1 DEF sys_call_table, Routines, Simply
<1>4. sys_call_table[Number[fn]] = "sys_write" <=> Number[fn] = 4
  BY <1>1 DEF sys_call_table
<1>5. Number[fn] = 4 <=> fn \in {"write", "perror"}
  BY DEF Number
<1>6. sys_call_table[Number[fn]] = "sys_StartScreen" => Number[fn] = 6
  BY <1>1 DEF sys_call_table
<1>7. Number[fn] = 6 => fn = "StartScreen"
  BY DEF Number
<1>8. fn \in {"pthread_create", "fork"} => Number[fn] = 7
  BY DEF Number
<1>9. Number[fn] = 7 => sys_call_table[Number[fn]] = "sys_clone"
  BY DEF sys_call_table
<1> QED
  BY <1>1, <1>2, <1>3, <1>4, <1>5, <1>6, <1>7, <1>8, <1>9 DEF Tests

LEMMA BootedCons == Booted \in Consoles /\ << >> \in UNION {[D -> Nat] : D \in SUBSET Nat}
<1>1. << >> \in [{} -> Nat] /\ << >> \in Seq(Nat)
  BY EmptySeq
<1>2. << >> \in UNION {[D -> Nat] : D \in SUBSET Nat}
  BY <1>1
<1>3. START_ROW \in 0 .. NUM_ROWS - 1 /\ 0 \in 0 .. NUM_COLUMNS - 1
  BY ConsoleAssumption
<1> QED
  BY <1>1, <1>2, <1>3 DEF Booted, Consoles

LEMMA SysInitInv == Init => SysInv
<1> SUFFICES ASSUME Init PROVE SysInv
  OBVIOUS
<1>1. con \in Consoles
  BY BootedCons DEF Init
<1>2. SysTypeOK
  <2>1. con.x \in 0 .. NUM_COLUMNS - 1 /\ con.y \in 0 .. NUM_ROWS - 1
    BY <1>1 DEF Consoles
  <2>2. global_TID \in FirstTID .. FirstTID + MaxClones
    BY SystemCallsAssumption DEF Init, FirstTID
  <2> QED
    BY <2>1, <2>2, SystemCallsAssumption DEF Init, SysTypeOK, Program
<1>3. \A t \in Thread : CallOK(t) /\ EntryOK(t) /\ ResultOK(t)
  BY DEF Init, CallOK, EntryOK, ResultOK
<1>4. OneRoutinePerCall
  BY DEF Init, OneRoutinePerCall
<1>5. WriteInOrder /\ ScreenShowsText
  BY DEF Init, WriteInOrder, ScreenShowsText, HasWritten
<1>6. call \in [Thread -> Calls \cup {Program}] /\ routines \in [Thread -> {0, 1}]
  BY DEF Init
<1> QED
  BY <1>1, <1>2, <1>3, <1>4, <1>5, <1>6 DEF SysInv

(***************************************************************************)
(* What a dispatch can do: refuse the number, run a routine that only      *)
(* returns something, end the process, write, or end the thread.           *)
(***************************************************************************)
Refused(t) ==
  /\ call[t].again
  /\ Returns(t, -ENOSYS)
  /\ UNCHANGED <<alive, global_TID, con, writer, start, stopped, routines>>

Answers(t) ==
  /\ \E value \in Int :
       /\ Returns(t, value)
       /\ call[t].fn \in Tests /\ value < 0 => -value \in Errors
       /\ call[t].fn = "pthread_create" => NotANumber(value)
       /\ call[t].fn \in {"write", "perror"} => value < 0
  /\ alive' \subseteq Thread
  /\ global_TID' \in FirstTID .. FirstTID + MaxClones
  /\ UNCHANGED <<con, writer, start, stopped>>

Ends == \E why \in {"exit", "page fault"} : Stop(why)

Writes(t) ==
  /\ call[t].fn \in {"write", "perror"}
  /\ call[t].nbytes = Len(call[t].text)
  /\ Returns(t, call[t].nbytes)
  /\ con' = WriteLoop([con EXCEPT !.shown = << >>, !.e9 = << >>], call[t].text)
  /\ writer' = t
  /\ start' = con.y * NUM_COLUMNS + con.x
  /\ UNCHANGED <<alive, global_TID, stopped>>

ThreadEnds(t) ==
  /\ alive' = alive \ {t}
  /\ pc' = [pc EXCEPT ![t] = "user"]
  /\ UNCHANGED <<global_TID, con, writer, start, stopped, eax>>

LEMMA RunsOneRoutine ==
  ASSUME NEW t, NEW routine \in Routines, Run(t, routine)
  PROVE  /\ routine = "sys_write" => sys_write(t)
         /\ routine = "sys_GetKeyboardState" => sys_GetKeyboardState(t)
         /\ routine = "sys_get_stats" => sys_get_stats(t)
         /\ routine = "sys_clone" => sys_clone(t)
         /\ routine = "sys_exit" => sys_exit
         /\ routine = "sys_pthread_exit" => sys_pthread_exit(t)
         /\ routine \in DOMAIN Simply =>
              \E value \in Simply[routine] : Returns(t, value) /\ Quiet
<1>1. {"sys_write", "sys_GetKeyboardState", "sys_get_stats", "sys_clone", "sys_exit",
       "sys_pthread_exit", "beyond the table"} \cap DOMAIN Simply = {}
  BY DEF Simply
<1> QED
  BY <1>1 DEF Run, Routines

LEMMA DispatchCases ==
  ASSUME SysInv, NEW t \in Thread, Dispatch(t)
  PROVE  /\ stopped = "no" /\ pc[t] = "sysenter" /\ call[t] \in Calls
         /\ UNCHANGED <<call, errno>>
         /\ \/ Refused(t)
            \/ /\ routines' = [routines EXCEPT ![t] = 1]
               /\ ~call[t].again
               /\ Answers(t) \/ Ends \/ Writes(t) \/ ThreadEnds(t)
<1> DEFINE c == call[t]
<1>1. /\ stopped = "no" /\ pc[t] = "sysenter" /\ c \in Calls /\ WritesItsText(c)
      /\ UNCHANGED <<call, errno>>
      /\ IF c.again THEN c.fn = "pthread_create" /\ NotANumber(eax[t])
         ELSE eax[t] = Number[c.fn] /\ routines[t] = 0
  BY DEF Dispatch, SysInv, CallOK, EntryOK
<1>2. alive \subseteq Thread /\ global_TID \in FirstTID .. FirstTID + MaxClones
  BY DEF SysInv, SysTypeOK
<1>3. CASE c.again
  <2>1. eax[t] \notin 0 .. MAX_SYSCALL
    BY <1>1, <1>3, MaxSyscallIs36 DEF NotANumber
  <2>2. Returns(t, -ENOSYS) /\ Quiet /\ UNCHANGED routines
    BY <2>1 DEF Dispatch
  <2> QED
    BY <1>1, <1>3, <2>2 DEF Refused, Quiet
<1>4. CASE ~c.again
  <2> DEFINE routine == Entry(Number[c.fn])
  <2>0. c.fn \in DOMAIN Number
    BY <1>1 DEF Calls
  <2>1. /\ eax[t] \in 0 .. MAX_SYSCALL /\ routine \in Routines
        /\ routine = "sys_write" <=> c.fn \in {"write", "perror"}
        /\ c.fn \in {"pthread_create", "fork"} => routine = "sys_clone"
        /\ routine = "sys_StartScreen" => c.fn \notin Tests
    <3>1. Number[c.fn] \in 0 .. MAX_SYSCALL
      BY <2>0, NumbersAreRoutines, MaxSyscallIs36
    <3> QED
      BY <1>1, <1>4, <2>0, <3>1, NumbersAreRoutines
  <2>2. routines' = [routines EXCEPT ![t] = 1] /\ Run(t, routine)
    <3>1. routines' = [routines EXCEPT ![t] = @ + 1] /\ Run(t, Entry(eax[t]))
      BY <2>1 DEF Dispatch
    <3>2. eax[t] = Number[c.fn] /\ routines[t] + 1 = 1
      BY <1>1, <1>4
    <3> QED
      BY <3>1, <3>2
  <2> HIDE DEF routine
  <2>3. CASE routine = "sys_write"
    <3>1. sys_write(t)
      BY <2>1, <2>2, <2>3, RunsOneRoutine
    <3>2. c.fn \in {"write", "perror"}
      BY <2>1, <2>3
    <3>3. CASE RefusalOfWrite(c) # 0 /\ Returns(t, RefusalOfWrite(c)) /\ Quiet
      <4>1. RefusalOfWrite(c) \in {-EBADF, -EINVAL, -EFAULT}
        BY <3>3 DEF RefusalOfWrite
      <4>2. RefusalOfWrite(c) \in Int /\ RefusalOfWrite(c) < 0 /\ -RefusalOfWrite(c) \in Errors
        BY <4>1 DEF EBADF, EINVAL, EFAULT, Errors
      <4>3. Answers(t)
        BY <1>2, <3>2, <3>3, <4>2 DEF Answers, Quiet
      <4> QED
        BY <1>1, <1>4, <2>2, <4>3
    <3>4. CASE RefusalOfWrite(c) = 0 /\ ~Unmapped(c.buffer, c.nbytes)
      <4>1. c.fd = 1 /\ ~(c.nbytes < 0)
        BY <3>4 DEF RefusalOfWrite, EBADF, EINVAL
      <4>2. c.nbytes = Len(c.text)
        BY <1>1, <3>2, <4>1 DEF WritesItsText
      <4>3. Writes(t)
        BY <3>1, <3>2, <3>4, <4>2 DEF sys_write, Writes
      <4> QED
        BY <1>1, <1>4, <2>2, <4>3
    <3>5. CASE Stop("page fault")
      BY <1>1, <1>4, <2>2, <3>5 DEF Ends
    <3> QED
      BY <3>1, <3>3, <3>4, <3>5 DEF sys_write
  <2>4. CASE routine \in {"sys_GetKeyboardState", "sys_get_stats"}
    <3>1. c.fn \notin {"pthread_create", "write", "perror"}
      BY <2>1, <2>4
    <3>2. PICK size \in Nat, refusals \in SUBSET {-EINVAL, -ESRCH} : Fill(t, size, refusals)
      BY <2>1, <2>2, <2>4, RunsOneRoutine DEF sys_GetKeyboardState, sys_get_stats
    <3>3. Ends \/ \E value \in {-EINVAL, -ESRCH, -EFAULT, 0} : Returns(t, value) /\ Quiet
      BY <3>2 DEF Fill, Ends
    <3>4. \A value \in {-EINVAL, -ESRCH, -EFAULT, 0} :
            value \in Int /\ (value < 0 => -value \in Errors)
      BY DEF EINVAL, ESRCH, EFAULT, Errors
    <3>5. Ends \/ Answers(t)
      BY <1>2, <3>1, <3>3, <3>4 DEF Answers, Quiet
    <3> QED
      BY <1>1, <1>4, <2>2, <3>5
  <2>5. CASE routine = "sys_clone"
    <3>1. sys_clone(t)
      BY <2>1, <2>2, <2>5, RunsOneRoutine
    <3>2. c.fn \notin {"write", "perror"}
      BY <2>1, <2>5
    <3>3. ASSUME NEW e \in {ENOMEM, EAGAIN}, Returns(t, -e), Quiet PROVE Answers(t)
      <4>1. -e \in Int /\ -e < 0 /\ -(-e) \in Errors /\ NotANumber(-e)
        BY <3>3 DEF ENOMEM, EAGAIN, Errors, NotANumber
      <4> QED
        BY <1>2, <3>2, <3>3, <4>1 DEF Answers, Quiet
    <3>4. ASSUME global_TID < FirstTID + MaxClones, global_TID' = global_TID + 1,
                 Returns(t, global_TID + 1),
                 UNCHANGED alive \/ \E child \in Thread \ alive : alive' = alive \cup {child},
                 UNCHANGED <<con, writer, start, stopped>>
          PROVE  Answers(t)
      <4>1. /\ global_TID + 1 \in Int /\ ~(global_TID + 1 < 0)
            /\ NotANumber(global_TID + 1)
            /\ global_TID' \in FirstTID .. FirstTID + MaxClones
        BY <1>2, <3>4, SystemCallsAssumption DEF FirstTID, NotANumber
      <4>2. alive' \subseteq Thread
        BY <1>2, <3>4
      <4> QED
        BY <3>2, <3>4, <4>1, <4>2 DEF Answers
    <3> QED
      BY <1>1, <1>4, <2>2, <3>1, <3>3, <3>4 DEF sys_clone
  <2>6. CASE routine = "sys_exit"
    BY <1>1, <1>4, <2>1, <2>2, <2>6, RunsOneRoutine DEF sys_exit, Ends
  <2>7. CASE routine = "sys_pthread_exit"
    BY <1>1, <1>4, <2>1, <2>2, <2>7, RunsOneRoutine
       DEF sys_pthread_exit, sys_exit, Ends, ThreadEnds
  <2>8. CASE routine \in DOMAIN Simply
    <3>1. c.fn \notin {"pthread_create", "write", "perror"}
      BY <2>1, <2>8 DEF Simply
    <3>2. PICK value \in Simply[routine] : Returns(t, value) /\ Quiet
      BY <2>1, <2>2, <2>8, RunsOneRoutine
    <3>3. value \in Int /\ (routine # "sys_StartScreen" /\ value < 0 => -value \in Errors)
      <4>1. CASE routine = "sys_StartScreen"
        <5>1. PastDataPage \in Int /\ PAGE_SIZE \in Int /\ NUM_PAG_DATA \in Int
          BY AccessAssumption DEF PastDataPage, FirstDataPage
        <5>2. (PastDataPage + NUM_PAG_DATA) * PAGE_SIZE \in Int
          BY <5>1
        <5> QED
          BY <3>2, <4>1, <5>2 DEF Simply
      <4>2. CASE routine # "sys_StartScreen"
        <5>1. value \in {-ENOSYS, -EINVAL, -EAGAIN, -ENOMEM, 0, 1}
          BY <2>8, <3>2, <4>2 DEF Simply
        <5> QED
          BY <5>1 DEF ENOSYS, EINVAL, EAGAIN, ENOMEM, Errors
      <4> QED
        BY <4>1, <4>2
    <3>4. Answers(t)
      BY <1>2, <2>1, <3>1, <3>2, <3>3 DEF Answers, Quiet
    <3> QED
      BY <1>1, <1>4, <2>2, <3>4
  <2> QED
    BY <2>1, <2>3, <2>4, <2>5, <2>6, <2>7, <2>8 DEF Routines
<1> QED
  BY <1>3, <1>4

LEMMA SysFacts ==
  ASSUME SysInv
  PROVE  /\ alive \subseteq Thread /\ Thread \subseteq Nat
         /\ pc \in [Thread -> {"user", "sysenter", "back"}]
         /\ call \in [Thread -> Calls \cup {Program}]
         /\ eax \in [Thread -> Int] /\ routines \in [Thread -> {0, 1}]
         /\ errno \in Errors \cup {0} /\ errno \in Nat
         /\ con \in Consoles /\ writer \in Thread
<1>1. Errors \cup {0} \subseteq Nat
  BY DEF Errors, ESRCH, EBADF, EAGAIN, ENOMEM, EFAULT, EINVAL, ENOSYS
<1> QED
  BY <1>1, SystemCallsAssumption DEF SysInv, SysTypeOK

LEMMA ProgramIsNoCall == Program \notin Calls /\ Program.fn = "none" /\ "none" \notin DOMAIN Number
  BY DEF Program, Calls, Number

(* the parts of SysTypeOK that follow from the rest, for the state after a step *)
LEMMA RestOfType ==
  ASSUME con' \in Consoles, call' \in [Thread -> Calls \cup {Program}],
         alive' \subseteq Thread, pc' \in [Thread -> {"user", "sysenter", "back"}],
         eax' \in [Thread -> Int], errno' \in Errors \cup {0},
         global_TID' \in FirstTID .. FirstTID + MaxClones, writer' \in Thread,
         stopped' \in {"no", "exit", "page fault", "wild jump"}
  PROVE  SysTypeOK'
<1>1. con'.x \in 0 .. NUM_COLUMNS - 1 /\ con'.y \in 0 .. NUM_ROWS - 1
  BY DEF Consoles
<1>2. \A t \in Thread : call'[t].fn \in DOMAIN Number \cup {"none"}
  <2> SUFFICES ASSUME NEW t \in Thread PROVE call'[t].fn \in DOMAIN Number \cup {"none"}
    OBVIOUS
  <2>1. CASE call'[t] = Program
    BY <2>1, ProgramIsNoCall
  <2>2. CASE call'[t] \in Calls
    BY <2>2 DEF Calls
  <2> QED
    BY <2>1, <2>2
<1> QED
  BY <1>1, <1>2, SystemCallsAssumption DEF SysTypeOK

(* a write stays written as long as its thread and the console are left alone *)
LEMMA StillWritten ==
  ASSUME SysInv, UNCHANGED <<con, start>>,
         \A u \in Thread : HasWritten(u)' => HasWritten(u) /\ call'[u] = call[u] /\ eax'[u] = eax[u]
  PROVE  WriteInOrder' /\ ScreenShowsText'
<1>1. WriteInOrder'
  BY DEF SysInv, WriteInOrder
<1>2. ScreenShowsText'
  BY DEF SysInv, ScreenShowsText
<1> QED
  BY <1>1, <1>2

LEMMA EnterInv ==
  ASSUME SysInv, NEW t \in Thread, NEW c \in Calls, WritesItsText(c), ~c.again, Enter(t, c)
  PROVE  SysInv'
<1>1. /\ pc' = [pc EXCEPT ![t] = "sysenter"]
      /\ call' = [call EXCEPT ![t] = c]
      /\ eax' = [eax EXCEPT ![t] = Number[c.fn]]
      /\ routines' = [routines EXCEPT ![t] = 0]
      /\ UNCHANGED <<alive, errno, global_TID, con, writer, start, stopped>>
  BY DEF Enter
<1>2. Number[c.fn] \in Int
  <2>1. c.fn \in DOMAIN Number
    BY DEF Calls
  <2> QED
    BY <2>1, NumbersAreRoutines
<1>3. /\ call' \in [Thread -> Calls \cup {Program}]
      /\ eax' \in [Thread -> Int] /\ routines' \in [Thread -> {0, 1}]
      /\ pc' \in [Thread -> {"user", "sysenter", "back"}]
  BY <1>1, <1>2, SysFacts
<1>4. SysTypeOK'
  <2>1. /\ global_TID' \in FirstTID .. FirstTID + MaxClones
        /\ stopped' \in {"no", "exit", "page fault", "wild jump"}
    BY <1>1 DEF SysInv, SysTypeOK
  <2> QED
    BY <1>1, <1>3, <2>1, SysFacts, RestOfType
<1>5. /\ pc'[t] = "sysenter" /\ call'[t] = c /\ eax'[t] = Number[c.fn] /\ routines'[t] = 0
      /\ \A u \in Thread \ {t} : pc'[u] = pc[u] /\ call'[u] = call[u] /\ eax'[u] = eax[u]
                                 /\ routines'[u] = routines[u]
  BY <1>1, SysFacts
<1>6. \A u \in Thread : CallOK(u)' /\ EntryOK(u)' /\ ResultOK(u)'
  BY <1>1, <1>5 DEF SysInv, CallOK, EntryOK, ResultOK
<1>7. OneRoutinePerCall'
  <2>1. \A u \in Thread : routines'[u] <= 1
    BY <1>3
  <2>2. stopped' # "wild jump"
    BY <1>1 DEF SysInv, OneRoutinePerCall
  <2> QED
    BY <2>1, <2>2 DEF OneRoutinePerCall
<1>8. WriteInOrder' /\ ScreenShowsText'
  <2> SUFFICES ASSUME NEW u \in Thread, HasWritten(u)'
               PROVE  HasWritten(u) /\ call'[u] = call[u] /\ eax'[u] = eax[u]
    BY <1>1, StillWritten
  <2> QED
    BY <1>1, <1>5 DEF HasWritten
<1> QED
  BY <1>1, <1>3, <1>4, <1>6, <1>7, <1>8, SysFacts DEF SysInv

LEMMA CallAgainInv ==
  ASSUME SysInv, NEW t \in Thread, CallAgain(t)
  PROVE  SysInv'
<1>1. /\ pc[t] = "back" /\ call[t].fn = "pthread_create" /\ ~call[t].again
      /\ call' = [call EXCEPT ![t].again = TRUE]
      /\ pc' = [pc EXCEPT ![t] = "sysenter"]
      /\ UNCHANGED <<alive, eax, errno, global_TID, con, writer, start, routines, stopped>>
  BY DEF CallAgain, Back, CallsTwice
<1>2. call[t] \in Calls /\ NotANumber(eax[t])
  BY <1>1 DEF SysInv, CallOK, ResultOK
<1> DEFINE c == [call[t] EXCEPT !.again = TRUE]
<1>3. c \in Calls /\ c.again /\ c.fn = "pthread_create"
  BY <1>1, <1>2 DEF Calls
<1>4. call' = [call EXCEPT ![t] = c]
  BY <1>1
<1> HIDE DEF c
<1>5. /\ call' \in [Thread -> Calls \cup {Program}]
      /\ pc' \in [Thread -> {"user", "sysenter", "back"}]
  BY <1>1, <1>3, <1>4, SysFacts
<1>6. SysTypeOK'
  <2>1. /\ global_TID' \in FirstTID .. FirstTID + MaxClones
        /\ stopped' \in {"no", "exit", "page fault", "wild jump"}
    BY <1>1 DEF SysInv, SysTypeOK
  <2> QED
    BY <1>1, <1>5, <2>1, SysFacts, RestOfType
<1>7. /\ pc'[t] = "sysenter" /\ call'[t] = c
      /\ \A u \in Thread \ {t} : pc'[u] = pc[u] /\ call'[u] = call[u]
      /\ eax' = eax /\ routines' = routines
  BY <1>1, <1>4, SysFacts
<1>8. \A u \in Thread : CallOK(u)' /\ EntryOK(u)' /\ ResultOK(u)'
  <2>1. CallOK(t)' /\ EntryOK(t)' /\ ResultOK(t)'
    BY <1>2, <1>3, <1>7 DEF CallOK, EntryOK, ResultOK, WritesItsText
  <2>2. \A u \in Thread \ {t} : CallOK(u)' /\ EntryOK(u)' /\ ResultOK(u)'
    BY <1>1, <1>7 DEF SysInv, CallOK, EntryOK, ResultOK
  <2> QED
    BY <2>1, <2>2
<1>9. OneRoutinePerCall'
  BY <1>1 DEF SysInv, OneRoutinePerCall
<1>10. WriteInOrder' /\ ScreenShowsText'
  <2> SUFFICES ASSUME NEW u \in Thread, HasWritten(u)'
               PROVE  HasWritten(u) /\ call'[u] = call[u] /\ eax'[u] = eax[u]
    BY <1>1, StillWritten
  <2> QED
    BY <1>1, <1>7 DEF HasWritten
<1> QED
  BY <1>1, <1>5, <1>6, <1>8, <1>9, <1>10, SysFacts DEF SysInv

LEMMA LeaveInv ==
  ASSUME SysInv, NEW t \in Thread, Leave(t), errno' \in Errors \cup {0}
  PROVE  SysInv'
<1>1. /\ pc' = [pc EXCEPT ![t] = "user"]
      /\ call' = [call EXCEPT ![t] = Program]
      /\ eax' = [eax EXCEPT ![t] = 0]
      /\ routines' = [routines EXCEPT ![t] = 0]
      /\ UNCHANGED <<alive, global_TID, writer, stopped>>
      /\ Forget(t)
  BY DEF Leave
<1>2. con' \in Consoles /\ (writer # t => con' = con)
  <2>1. CASE t = writer
    <3>1. con' = [con EXCEPT !.shown = << >>, !.e9 = << >>]
      BY <1>1, <2>1 DEF Forget
    <3>2. << >> \in Seq(Nat)
      BY EmptySeq
    <3> QED
      BY <2>1, <3>1, <3>2, BootedCons, SysFacts DEF Consoles
  <2>2. CASE t # writer
    BY <1>1, <2>2, SysFacts DEF Forget
  <2> QED
    BY <2>1, <2>2
<1>3. /\ call' \in [Thread -> Calls \cup {Program}]
      /\ eax' \in [Thread -> Int] /\ routines' \in [Thread -> {0, 1}]
      /\ pc' \in [Thread -> {"user", "sysenter", "back"}]
  BY <1>1, SysFacts
<1>4. SysTypeOK'
  <2>1. /\ global_TID' \in FirstTID .. FirstTID + MaxClones
        /\ stopped' \in {"no", "exit", "page fault", "wild jump"}
    BY <1>1 DEF SysInv, SysTypeOK
  <2> QED
    BY <1>1, <1>2, <1>3, <2>1, SysFacts, RestOfType
<1>5. /\ pc'[t] = "user" /\ routines'[t] = 0
      /\ \A u \in Thread \ {t} : pc'[u] = pc[u] /\ call'[u] = call[u] /\ eax'[u] = eax[u]
                                 /\ routines'[u] = routines[u]
  BY <1>1, SysFacts
<1>6. \A u \in Thread : CallOK(u)' /\ EntryOK(u)' /\ ResultOK(u)'
  BY <1>1, <1>5 DEF SysInv, CallOK, EntryOK, ResultOK
<1>7. OneRoutinePerCall'
  <2>1. \A u \in Thread : routines'[u] <= 1
    BY <1>3
  <2>2. stopped' # "wild jump"
    BY <1>1 DEF SysInv, OneRoutinePerCall
  <2> QED
    BY <2>1, <2>2 DEF OneRoutinePerCall
<1>8. WriteInOrder' /\ ScreenShowsText'
  <2>1. CASE writer = t
    <3>1. \A u \in Thread : ~HasWritten(u)'
      BY <1>1, <1>5, <2>1 DEF HasWritten
    <3> QED
      BY <3>1 DEF WriteInOrder, ScreenShowsText
  <2>2. CASE writer # t
    <3>1. con' = con /\ start' = start
      BY <1>1, <2>2 DEF Forget
    <3> SUFFICES ASSUME NEW u \in Thread, HasWritten(u)'
                 PROVE  HasWritten(u) /\ call'[u] = call[u] /\ eax'[u] = eax[u]
      BY <3>1, StillWritten
    <3> QED
      BY <1>1, <1>5, <2>2 DEF HasWritten
  <2> QED
    BY <2>1, <2>2
<1> QED
  BY <1>2, <1>3, <1>4, <1>6, <1>7, <1>8 DEF SysInv

(* a dispatch that gives an answer, or none, and leaves the console alone *)
Outcome(t) ==
  \/ UNCHANGED <<pc, eax>> /\ stopped' # "no"
  \/ pc' = [pc EXCEPT ![t] = "user"] /\ eax' = eax
  \/ \E value \in Int :
       /\ Returns(t, value)
       /\ call[t].fn \in Tests /\ value < 0 => -value \in Errors
       /\ call[t].fn = "pthread_create" => NotANumber(value)
       /\ call[t].fn \in {"write", "perror"} => value < 0

LEMMA NotBoth == ASSUME NEW n \in Int, n < 0, n >= 0 PROVE FALSE
  OBVIOUS

LEMMA AtMostOne == \A f \in [Thread -> {0, 1}] : \A u \in Thread : f[u] <= 1
  OBVIOUS

LEMMA AnswerInv ==
  ASSUME SysInv, NEW t \in Thread, stopped = "no", pc[t] = "sysenter", call[t] \in Calls,
         UNCHANGED <<call, errno, con, writer, start>>,
         routines' \in [Thread -> {0, 1}], alive' \subseteq Thread,
         global_TID' \in FirstTID .. FirstTID + MaxClones,
         stopped' \in {"no", "exit", "page fault"},
         Outcome(t),
         \A u \in Thread \ {t} : routines'[u] = routines[u]
  PROVE  SysInv'
<1>1. /\ pc' \in [Thread -> {"user", "sysenter", "back"}] /\ eax' \in [Thread -> Int]
      /\ \A u \in Thread \ {t} : pc'[u] = pc[u] /\ eax'[u] = eax[u]
      /\ \/ pc'[t] = "user"
         \/ pc'[t] = "sysenter" /\ stopped' # "no"
         \/ /\ pc'[t] = "back"
            /\ call[t].fn \in Tests /\ eax'[t] < 0 => -eax'[t] \in Errors
            /\ call[t].fn = "pthread_create" => NotANumber(eax'[t])
            /\ call[t].fn \in {"write", "perror"} => eax'[t] < 0
  <2>1. pc \in [Thread -> {"user", "sysenter", "back"}] /\ eax \in [Thread -> Int]
    BY SysFacts
  <2>2. CASE UNCHANGED <<pc, eax>> /\ stopped' # "no"
    BY <2>1, <2>2
  <2>3. CASE pc' = [pc EXCEPT ![t] = "user"] /\ eax' = eax
    BY <2>1, <2>3
  <2>4. ASSUME NEW value \in Int, Returns(t, value),
               call[t].fn \in Tests /\ value < 0 => -value \in Errors,
               call[t].fn = "pthread_create" => NotANumber(value),
               call[t].fn \in {"write", "perror"} => value < 0
        PROVE  /\ pc' \in [Thread -> {"user", "sysenter", "back"}]
               /\ eax' \in [Thread -> Int]
               /\ \A u \in Thread \ {t} : pc'[u] = pc[u] /\ eax'[u] = eax[u]
               /\ pc'[t] = "back" /\ eax'[t] = value
    BY <2>1, <2>4 DEF Returns
  <2> QED
    BY <2>2, <2>3, <2>4 DEF Outcome
<1>2. SysTypeOK'
  BY <1>1, SysFacts, RestOfType
<1>3. \A u \in Thread \ {t} : CallOK(u)' /\ EntryOK(u)' /\ ResultOK(u)'
  BY <1>1 DEF SysInv, CallOK, EntryOK, ResultOK
<1>4. CallOK(t)' /\ EntryOK(t)' /\ ResultOK(t)'
  BY <1>1 DEF SysInv, CallOK, EntryOK, ResultOK
<1>5. OneRoutinePerCall'
  <2>1. \A u \in Thread : routines'[u] <= 1
    BY AtMostOne
  <2> QED
    BY <2>1 DEF OneRoutinePerCall
<1>6. WriteInOrder' /\ ScreenShowsText'
  <2> SUFFICES ASSUME NEW u \in Thread, HasWritten(u)'
               PROVE  HasWritten(u) /\ call'[u] = call[u] /\ eax'[u] = eax[u]
    BY StillWritten
  <2>1. u # t
    <3> SUFFICES ASSUME u = t PROVE FALSE
      OBVIOUS
    <3>1. pc'[t] = "back" /\ call[t].fn \in {"write", "perror"} /\ eax'[t] >= 0
      BY DEF HasWritten
    <3>2. eax'[t] < 0 /\ eax'[t] \in Int
      BY <1>1, <3>1
    <3> QED
      BY <3>1, <3>2, NotBoth
  <2> QED
    BY <1>1, <2>1 DEF HasWritten
<1> QED
  BY <1>2, <1>3, <1>4, <1>5, <1>6, SysFacts DEF SysInv

LEMMA WritesInv ==
  ASSUME SysInv, NEW t \in Thread, stopped = "no", call[t] \in Calls,
         UNCHANGED <<call, errno>>,
         routines' = [routines EXCEPT ![t] = 1], Writes(t), WritesItsText(call[t])
  PROVE  SysInv'
<1> DEFINE text == call[t].text
           fresh == [con EXCEPT !.shown = << >>, !.e9 = << >>]
<1>1. text \in Seq(Nat) /\ Len(text) \in Nat
  BY DEF Calls
<1>2. con' \in FilledFrom(start') /\ con' \in Consoles /\ con'.e9 = text
  <2>1. << >> \in Seq(Nat) /\ con \in Consoles
    BY EmptySeq, SysFacts
  <2>2. fresh \in Consoles /\ fresh.e9 = << >> /\ fresh.shown = << >>
        /\ fresh.x = con.x /\ fresh.y = con.y
    BY <2>1, BootedCons DEF Consoles
  <2> HIDE DEF fresh
  <2>3. start' \in 0 .. Cells - 1 /\ fresh.y * NUM_COLUMNS + fresh.x = start'
    <3>1. con.y \in 0 .. NUM_ROWS - 1 /\ con.x \in 0 .. NUM_COLUMNS - 1
      BY <2>1 DEF Consoles
    <3> QED
      BY <2>2, <3>1, CellsFact DEF Writes
  <2>4. fresh \in FilledFrom(start')
    <3>1. start' + 0 = start' /\ start' \in Nat
      <4>1. Cells \in Nat
        BY CellsFact
      <4>2. \A n \in 0 .. Cells - 1 : n \in Nat /\ n + 0 = n
        BY <4>1
      <4> QED
        BY <2>3, <4>2
    <3>2. start' % Cells = start'
      BY <2>3, CellsFact, OnceAround
    <3>3. Place(start', fresh.e9) = {} /\ Len(fresh.e9) = 0
      BY <2>2 DEF Place
    <3>4. fresh.shown = [cell \in Place(start', fresh.e9) |->
                           fresh.e9[((cell - start') % Cells) + 1]]
      BY <2>2, <3>3
    <3> QED
      BY <2>2, <2>3, <3>1, <3>2, <3>3, <3>4 DEF FilledFrom
  <2>5. FilledFrom(start') \in SUBSET Consoles /\ Kept(FilledFrom(start'))
    BY <2>3, FilledKept
  <2>6. WriteLoop(fresh, text) \in FilledFrom(start') /\ WriteLoop(fresh, text).e9 = text
    BY <1>1, <2>2, <2>4, <2>5, LoopWrites
  <2> QED
    BY <2>5, <2>6 DEF Writes, fresh
<1>3. /\ pc' \in [Thread -> {"user", "sysenter", "back"}] /\ eax' \in [Thread -> Int]
      /\ routines' \in [Thread -> {0, 1}]
      /\ pc'[t] = "back" /\ eax'[t] = Len(text)
      /\ \A u \in Thread \ {t} : pc'[u] = pc[u] /\ eax'[u] = eax[u] /\ routines'[u] = routines[u]
      /\ writer' = t /\ UNCHANGED <<alive, global_TID, stopped>>
      /\ call[t].fn \in {"write", "perror"}
  BY <1>1, SysFacts DEF Writes, Returns
<1>4. SysTypeOK'
  <2>1. /\ global_TID' \in FirstTID .. FirstTID + MaxClones
        /\ stopped' \in {"no", "exit", "page fault", "wild jump"}
    BY <1>3 DEF SysInv, SysTypeOK
  <2> QED
    BY <1>2, <1>3, <2>1, SysFacts, RestOfType
<1>5. \A u \in Thread \ {t} : CallOK(u)' /\ EntryOK(u)' /\ ResultOK(u)'
  BY <1>3 DEF SysInv, CallOK, EntryOK, ResultOK
<1>6. CallOK(t)' /\ EntryOK(t)' /\ ResultOK(t)'
  BY <1>1, <1>3 DEF CallOK, EntryOK, ResultOK
<1>7. OneRoutinePerCall'
  <2>1. routines' \in [Thread -> {0, 1}]
    BY <1>3
  <2>2. \A u \in Thread : routines'[u] <= 1
    BY <2>1, AtMostOne
  <2> QED
    BY <1>3, <2>2 DEF OneRoutinePerCall
<1>8. WriteInOrder'
  BY <1>2, <1>3 DEF WriteInOrder, HasWritten
<1>9. ScreenShowsText'
  <2> SUFFICES ASSUME NewLine \notin ToSet(text), Len(text) <= Cells
               PROVE  con'.shown = [cell \in {(start' + i - 1) % Cells : i \in DOMAIN text} |->
                                      text[((cell - start') % Cells) + 1]]
    BY <1>3 DEF ScreenShowsText, HasWritten, Cells
  <2> QED
    BY <1>2 DEF FilledFrom, Place
<1> QED
  BY <1>2, <1>3, <1>4, <1>5, <1>6, <1>7, <1>8, <1>9, SysFacts DEF SysInv

LEMMA DispatchInv ==
  ASSUME SysInv, NEW t \in Thread, Dispatch(t)
  PROVE  SysInv'
<1>1. /\ stopped = "no" /\ pc[t] = "sysenter" /\ call[t] \in Calls
      /\ UNCHANGED <<call, errno>>
      /\ WritesItsText(call[t]) /\ EntryOK(t)
  BY DispatchCases DEF SysInv, CallOK
<1>2. /\ global_TID \in FirstTID .. FirstTID + MaxClones
      /\ alive \subseteq Thread /\ routines \in [Thread -> {0, 1}]
  BY DEF SysInv, SysTypeOK
<1>3. CASE Refused(t)
  <2>1. call[t].fn = "pthread_create"
    BY <1>1, <1>3 DEF EntryOK, Refused
  <2>2. -ENOSYS \in Int /\ -(-ENOSYS) \in Errors /\ NotANumber(-ENOSYS)
    <3>1. ENOSYS = 38 /\ ENOSYS \in Errors
      BY DEF ENOSYS, Errors
    <3> QED
      BY <3>1 DEF NotANumber
  <2> QED
    BY <1>1, <1>2, <1>3, <2>1, <2>2, AnswerInv DEF Refused, Outcome
<1>4. CASE /\ routines' = [routines EXCEPT ![t] = 1]
           /\ Answers(t) \/ Ends \/ Writes(t) \/ ThreadEnds(t)
  <2>1. /\ routines' \in [Thread -> {0, 1}]
        /\ \A u \in Thread \ {t} : routines'[u] = routines[u]
    BY <1>2, <1>4
  <2>2. CASE Answers(t)
    BY <1>1, <1>2, <2>1, <2>2, AnswerInv DEF Answers, Outcome
  <2>3. CASE Ends
    BY <1>1, <1>2, <2>1, <2>3, AnswerInv DEF Ends, Stop, Outcome
  <2>4. CASE Writes(t)
    BY <1>1, <1>4, <2>4, WritesInv
  <2>5. CASE ThreadEnds(t)
    BY <1>1, <1>2, <2>1, <2>5, AnswerInv DEF ThreadEnds, Outcome
  <2> QED
    BY <1>4, <2>2, <2>3, <2>4, <2>5
<1> QED
  BY <1>3, <1>4, DispatchCases

LEMMA SysStep == SysInv /\ [Next]_vars => SysInv'
<1> SUFFICES ASSUME SysInv, [Next]_vars PROVE SysInv'
  OBVIOUS
<1>0. << >> \in Seq(Nat) /\ errno \in Nat /\ errno \in Errors \cup {0}
  BY EmptySeq, SysFacts
<1>1. ASSUME NEW t \in Thread, NEW fn \in DOMAIN Number, Simple(t, fn) PROVE SysInv'
  <2> DEFINE c == Arguments(fn, 0, 0, 0, << >>)
  <2>1. c \in Calls /\ ~c.again /\ WritesItsText(c) /\ Enter(t, c)
    BY <1>0, <1>1 DEF Simple, Arguments, Calls, WritesItsText
  <2> HIDE DEF c
  <2> QED
    BY <2>1, EnterInv
<1>2. ASSUME NEW t \in Thread, NEW fn \in DOMAIN Number, NEW buffer \in Buffers,
             PassBuffer(t, fn, buffer)
      PROVE  SysInv'
  <2> DEFINE c == Arguments(fn, 0, buffer, 0, << >>)
  <2>1. c \in Calls /\ ~c.again /\ WritesItsText(c) /\ Enter(t, c)
    BY <1>0, <1>2, SystemCallsAssumption DEF PassBuffer, Arguments, Calls, WritesItsText
  <2> HIDE DEF c
  <2> QED
    BY <2>1, EnterInv
<1>3. ASSUME NEW t \in Thread, NEW buffer \in Buffers, NEW text \in Texts,
             write(t, buffer, text)
      PROVE  SysInv'
  <2> DEFINE c == Arguments("write", 1, buffer, Len(text), text)
  <2>1. text \in Seq(Nat) /\ Len(text) \in Int /\ buffer \in Int /\ "write" \in DOMAIN Number
    BY SystemCallsAssumption DEF Number
  <2>2. c \in Calls /\ ~c.again /\ WritesItsText(c) /\ Enter(t, c)
    BY <1>3, <2>1 DEF write, Arguments, Calls, WritesItsText
  <2> HIDE DEF c
  <2> QED
    BY <2>2, EnterInv
<1>4. ASSUME NEW t \in Thread, writeBadly(t) PROVE SysInv'
  <2>1. PICK fd \in {0, 1} :
          Enter(t, Arguments("write", fd, FirstDataPage * PAGE_SIZE, -fd, << >>))
    BY <1>4 DEF writeBadly
  <2> DEFINE address == FirstDataPage * PAGE_SIZE
             c == Arguments("write", fd, address, -fd, << >>)
  <2>2. address \in Int /\ "write" \in DOMAIN Number /\ -fd \in Int
    BY AccessAssumption DEF FirstDataPage, Number
  <2> HIDE DEF address
  <2>3. c \in Calls /\ ~c.again /\ WritesItsText(c)
    BY <1>0, <2>2 DEF Arguments, Calls, WritesItsText
  <2>4. Enter(t, c)
    BY <2>1 DEF address
  <2> HIDE DEF c
  <2> QED
    BY <2>3, <2>4, EnterInv
<1>5. ASSUME NEW t \in Thread, perror(t) PROVE SysInv'
  <2> DEFINE text == itoa(errno)
             address == StackPage(t) * PAGE_SIZE
             c == [Arguments("perror", 1, address, Len(text), text) EXCEPT !.asked = errno]
  <2>1. text \in Seq(Nat) /\ Len(text) \in Int /\ "perror" \in DOMAIN Number
    BY <1>0, itoaReadsBack DEF Number
  <2>2. address \in Int
    <3>1. t \in Nat /\ PAGE_SIZE \in Int /\ PastDataPage \in Int /\ NUM_PAG_DATA \in Int
      BY AccessAssumption, SystemCallsAssumption DEF PastDataPage, FirstDataPage
    <3>2. StackPage(t) \in Int
      BY <3>1 DEF StackPage
    <3> QED
      BY <3>1, <3>2
  <2>3. text = itoa(errno)
    OBVIOUS
  <2>4. Enter(t, c)
    BY <1>5 DEF perror
  <2> HIDE DEF address, text
  <2> DEFINE before == Arguments("perror", 1, address, Len(text), text)
  <2>5. before \in Calls /\ ~before.again /\ before.text = text /\ before.nbytes = Len(text)
    BY <1>0, <2>1, <2>2 DEF Arguments, Calls
  <2>6. c = [before EXCEPT !.asked = errno]
    OBVIOUS
  <2> HIDE DEF c, before
  <2>7. /\ c \in Calls /\ ~c.again
        /\ c.text = text /\ c.nbytes = Len(text) /\ c.asked = errno
    BY <1>0, <2>5, <2>6 DEF Calls
  <2>8. WritesItsText(c)
    BY <2>3, <2>7 DEF WritesItsText
  <2> QED
    BY <2>4, <2>7, <2>8, EnterInv
<1>6. ASSUME NEW t \in Thread, Return(t) PROVE SysInv'
  <2>1. Leave(t) /\ errno' \in Errors \cup {0}
    BY <1>0, <1>6 DEF Return
  <2> QED
    BY <2>1, LeaveInv
<1>7. ASSUME NEW t \in Thread, nok(t) PROVE SysInv'
  <2>1. -eax[t] \in Errors
    BY <1>7 DEF nok, Back, SysInv, ResultOK
  <2>2. Leave(t) /\ errno' \in Errors \cup {0}
    BY <1>7, <2>1 DEF nok
  <2> QED
    BY <2>2, LeaveInv
<1>8. CASE UNCHANGED vars
  <2>1. WriteInOrder' /\ ScreenShowsText'
    BY <1>8, StillWritten DEF vars, HasWritten
  <2>2. SysTypeOK' /\ OneRoutinePerCall'
    BY <1>8 DEF vars, SysInv, SysTypeOK, OneRoutinePerCall
  <2>3. \A t \in Thread : CallOK(t)' /\ EntryOK(t)' /\ ResultOK(t)'
    BY <1>8 DEF vars, SysInv, CallOK, EntryOK, ResultOK
  <2> QED
    BY <1>8, <2>1, <2>2, <2>3 DEF vars, SysInv
<1> QED
  BY <1>1, <1>2, <1>3, <1>4, <1>5, <1>6, <1>7, <1>8, DispatchInv, CallAgainInv DEF Next

LEMMA SysInvHolds == Spec => []SysInv
<1> QED
  BY SysInitInv, SysStep, PTL DEF Spec

(***************************************************************************)
(* The state of the calls is as the code declares it: the cursor stays on  *)
(* the screen, and errno is 0 or the positive code of an error that some   *)
(* routine returns.                                                        *)
(***************************************************************************)
THEOREM CallsAreTyped == Spec => []SysTypeOK
<1>1. SysInv => SysTypeOK
  BY DEF SysInv
<1> QED
  BY <1>1, SysInvHolds, PTL

(***************************************************************************)
(* A wrapper runs at most one routine of the kernel, and no number that    *)
(* reaches entry.S jumps beyond the table: pthread_create, which enters    *)
(* the kernel a second time with its result as the number, is refused.     *)
(***************************************************************************)
THEOREM OneRoutineEach == Spec => []OneRoutinePerCall
<1>1. SysInv => OneRoutinePerCall
  BY DEF SysInv
<1> QED
  BY <1>1, SysInvHolds, PTL

(***************************************************************************)
(* A write that succeeds has put out its text, whole and in order, for any *)
(* length of the text and any size of the kernel's buffer.                 *)
(***************************************************************************)
THEOREM WritesInOrder == Spec => []WriteInOrder
<1>1. SysInv => WriteInOrder
  BY DEF SysInv
<1> QED
  BY <1>1, SysInvHolds, PTL

(***************************************************************************)
(* A text of one line that fits on the screen stands in the cells from the *)
(* cursor on, for any size of the screen, any cursor and any cuts of the   *)
(* text into chunks.                                                       *)
(***************************************************************************)
THEOREM WrittenIsShown == Spec => []ScreenShowsText
<1>1. SysInv => ScreenShowsText
  BY DEF SysInv
<1> QED
  BY <1>1, SysInvHolds, PTL

(***************************************************************************)
(* The digits that perror prints read as the errno it read, whatever other *)
(* threads do to errno between the two.                                    *)
(***************************************************************************)
THEOREM PerrorIsTrue == Spec => []PerrorShowsErrno
<1>1. SysInv => PerrorShowsErrno
  <2> SUFFICES ASSUME SysInv, NEW t \in Thread, HasWritten(t), call[t].fn = "perror"
               PROVE  Value(con.e9) = call[t].asked
    BY DEF PerrorShowsErrno
  <2>1. con.e9 = call[t].text
    BY DEF SysInv, WriteInOrder
  <2>2. call[t] \in Calls /\ call[t].text = itoa(call[t].asked)
    BY DEF SysInv, CallOK, WritesItsText, HasWritten
  <2>3. call[t].asked \in Nat
    BY <2>2 DEF Calls
  <2> QED
    BY <2>1, <2>2, <2>3, itoaReadsBack
<1> QED
  BY <1>1, SysInvHolds, PTL

==============================================================================
