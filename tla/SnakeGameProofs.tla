--------------------------- MODULE SnakeGameProofs ---------------------------
(***************************************************************************)
(* Theorems about what access_ok accepts, for any layout of the pages of a *)
(* program, about the keyboard, for any keys, and about the game, for a    *)
(* board of any size.                                                      *)
(***************************************************************************)
EXTENDS SnakeGame, TLAPS

-----------------------------------------------------------------------------
(* access_ok *)

\* The switch falls through: what may be read may also be written.
THEOREM TypeMakesNoDifference ==
  ASSUME NEW addr \in Nat, NEW size \in Nat
  PROVE  access_ok(VERIFY_WRITE, addr, size) <=> access_ok(VERIFY_READ, addr, size)
<1>1. FirstDataPage \in Nat /\ FirstDataPage >= USER_FIRST_PAGE /\ USER_FIRST_PAGE \in Nat
  BY AccessAssumption DEF FirstDataPage
<1>2. Page(addr) \in Int
  BY AccessAssumption DEF Page
<1> QED
  BY <1>1, <1>2 DEF access_ok, VERIFY_READ, VERIFY_WRITE

\* The size that mm_address.h and the machine give a page; a word counts whole pages.
Machine == PAGE_SIZE = 4096 /\ WORD % PAGE_SIZE = 0

(***************************************************************************)
(* A block whose end wraps around the address space is refused, unless it  *)
(* is nearly as long as that: its end then lies on a lower page.           *)
(***************************************************************************)
LEMMA NoWrap ==
  ASSUME Machine, NEW type, NEW addr \in 0 .. (WORD - 1),
         NEW size \in 0 .. (WORD - PAGE_SIZE), access_ok(type, addr, size)
  PROVE  addr + size < WORD
<1> SUFFICES ASSUME addr + size >= WORD PROVE FALSE
  BY SMT, AccessAssumption DEF Machine
<1>1. (addr + size) % WORD = addr + size - WORD
  BY SMT, AccessAssumption DEF Machine
<1>2. Page(addr + size - WORD) < Page(addr)
  BY SMT, AccessAssumption DEF Machine, Page
<1> QED
  BY SMT, <1>1, <1>2, AccessAssumption DEF access_ok, Machine, Page

(***************************************************************************)
(* What is accepted, of a size of at most WORD - PAGE_SIZE, begins in the  *)
(* pages of the program and touches no page but these and the one behind   *)
(* the data: there the bound is one too high, since it is compared with    *)
(* the page of the byte after the block.  Longer blocks wrap around, and   *)
(* some of them are accepted.                                              *)
(***************************************************************************)
THEOREM AcceptedStaysInUser ==
  ASSUME Machine, NEW type, NEW addr \in 0 .. (WORD - 1),
         NEW size \in 0 .. (WORD - PAGE_SIZE), access_ok(type, addr, size)
  PROVE  Touched(addr, size) \subseteq UserPages \cup {PastDataPage}
<1>1. addr + size < WORD
  BY NoWrap
<1>2. (addr + size) % WORD = addr + size
  BY SMT, <1>1, AccessAssumption DEF Machine
<1>3. PastDataPage \in Int /\ FirstDataPage \in Int /\ FirstDataPage >= USER_FIRST_PAGE
  BY AccessAssumption DEF PastDataPage, FirstDataPage
<1>4. Page(addr) >= USER_FIRST_PAGE /\ Page(addr + size) <= PastDataPage
  BY SMT, <1>2, <1>3, AccessAssumption DEF access_ok, Machine, Page
<1>5. size # 0 => Page(addr + size - 1) <= Page(addr + size)
  BY SMT, AccessAssumption DEF Machine, Page
<1>6. /\ Page(addr) \in Int /\ Page(addr + size) \in Int
      /\ Page(addr + size - 1) \in Int
  BY SMT, AccessAssumption DEF Machine, Page
<1>7. ASSUME size # 0, NEW p \in Page(addr) .. Page(addr + size - 1)
      PROVE  p \in UserPages \cup {PastDataPage}
  BY <1>3, <1>4, <1>5, <1>6, <1>7, AccessAssumption DEF UserPages
<1> QED
  BY <1>7 DEF Touched

\* Nothing that lies in the pages of the program is refused, for reading or for writing.
THEOREM UserIsAccepted ==
  ASSUME Machine, PastDataPage * PAGE_SIZE < WORD,
         NEW type \in {VERIFY_READ, VERIFY_WRITE}, NEW addr \in 0 .. (WORD - 1),
         NEW size \in 1 .. (WORD - 1), Touched(addr, size) \subseteq UserPages
  PROVE  access_ok(type, addr, size)
<1>1. PastDataPage \in Int /\ FirstDataPage \in Int /\ USER_FIRST_PAGE \in Int
  BY AccessAssumption DEF PastDataPage, FirstDataPage
<1>2. /\ Page(addr) \in Int /\ Page(addr + size - 1) \in Int
      /\ Page(addr) <= Page(addr + size - 1)
  BY SMT, AccessAssumption DEF Machine, Page
<1>3. Page(addr) \in Touched(addr, size) /\ Page(addr + size - 1) \in Touched(addr, size)
  BY <1>2 DEF Touched
<1>4. Page(addr) >= USER_FIRST_PAGE /\ Page(addr + size - 1) <= PastDataPage - 1
  BY <1>1, <1>2, <1>3 DEF UserPages
<1>5. addr + size <= PastDataPage * 4096
  BY SMT, <1>1, <1>4, AccessAssumption DEF Machine, Page
<1>6. (addr + size) % WORD = addr + size
  BY SMT, <1>1, <1>5, AccessAssumption DEF Machine
<1>7. Page(addr + size) <= PastDataPage /\ Page(addr) <= Page(addr + size)
  BY SMT, <1>1, <1>5, AccessAssumption DEF Machine, Page
<1> QED
  BY <1>1, <1>2, <1>4, <1>6, <1>7 DEF access_ok

-----------------------------------------------------------------------------
(* The keyboard *)

\* The arrays of the second thread lie where clone puts its stack: too high for access_ok.
LEMMA ArraysRefused ==
  ASSUME NEW k \in {1, 2}, NEW old
  PROVE  sys_GetKeyboardState(Buffer(k), old) = old
<1> DEFINE low == (k - 1) * 256
           addr == FreePage * PAGE_SIZE + low
<1>1. /\ PAGE_SIZE \in Nat /\ PAGE_SIZE > 512 /\ FreePage \in Nat /\ WORD \in Nat
      /\ (FreePage + 1) * PAGE_SIZE <= WORD
      /\ low \in 0 .. 256
  BY StackAssumption, AccessAssumption
<1>2. FreePage > PastDataPage /\ PastDataPage \in Nat
  BY StackAssumption, AccessAssumption DEF PastDataPage, FirstDataPage
<1> HIDE DEF low
<1>3. (FreePage + 1) * PAGE_SIZE = FreePage * PAGE_SIZE + PAGE_SIZE
  BY SMT, <1>1
<1>4. FreePage * PAGE_SIZE \in Nat
  BY <1>1
<1>5. addr + 256 \in Nat /\ addr + 256 < WORD /\ addr + 256 = FreePage * PAGE_SIZE + (low + 256)
  BY <1>1, <1>3, <1>4
<1>6. (addr + 256) % WORD = addr + 256
  BY SMT, <1>1, <1>5
<1>7. (FreePage * PAGE_SIZE + (low + 256)) \div PAGE_SIZE = FreePage
  BY SMT, <1>1
<1>8. Page((addr + 256) % WORD) = FreePage
  BY <1>5, <1>6, <1>7 DEF Page
<1>9. ~(FreePage <= PastDataPage)
  BY <1>1, <1>2
<1>10. Buffer(k) = addr
  BY DEF Buffer, low
<1> HIDE DEF addr
<1>11. ~access_ok(VERIFY_WRITE, addr, 256)
  BY <1>8, <1>9 DEF access_ok
<1> QED
  BY <1>10, <1>11 DEF sys_GetKeyboardState

KeyInv == held \subseteq Key /\ KeysTracked

LEMMA KeyInterruptInv ==
  ASSUME KeyInv, NEW key \in Key, KeyInterrupt(key)
  PROVE  KeyInv'
<1> DEFINE c == char_map[key]
<1>1. CASE key \in held
  <2>1. held' = held \ {key} /\ keyboard_state' = keyboard_state \ ({c} \ HighChars)
    BY <1>1 DEF KeyInterrupt, keyboard_routine
  <2>2. ASSUME NEW char \in Char
        PROVE  LET down == \E k \in held' : char_map[k] = char IN
               /\ char \in keyboard_state' => down /\ char \notin HighChars
               /\ down /\ ~Shared(char) /\ char \notin HighChars
                    => char \in keyboard_state'
    <3>1. CASE char = c
      <4>1. char \notin keyboard_state'
        BY <2>1, <3>1 DEF KeyInv, KeysTracked
      <4>2. (\E k \in held' : char_map[k] = char) => Shared(char)
        BY <2>1, <3>1 DEF Shared, KeyInv
      <4> QED
        BY <4>1, <4>2
    <3>2. CASE char # c
      <4>1. char \in keyboard_state' <=> char \in keyboard_state
        BY <2>1, <3>2
      <4>2. (\E k \in held' : char_map[k] = char) <=> (\E k \in held : char_map[k] = char)
        BY <2>1, <3>2
      <4> QED
        BY <4>1, <4>2 DEF KeyInv, KeysTracked
    <3> QED
      BY <3>1, <3>2
  <2>3. KeysTracked'
    BY <2>2, Zenon DEF KeysTracked, Char, Shared
  <2> QED
    BY <2>1, <2>3 DEF KeyInv
<1>2. CASE key \notin held
  <2>1. held' = held \cup {key} /\ keyboard_state' = keyboard_state \cup ({c} \ HighChars)
    BY <1>2 DEF KeyInterrupt, keyboard_routine
  <2>2. KeysTracked'
    BY <2>1 DEF KeyInv, KeysTracked
  <2> QED
    BY <2>1, <2>2 DEF KeyInv
<1> QED
  BY <1>1, <1>2

-----------------------------------------------------------------------------
(* The board *)

Keys == ToSet(keys_for_dirs)

(* the second thread begins when the first has created it, and next_dir has been *)
(* chosen by looking at saw unless it is about to choose by the i-th key         *)
NotBack ==
  /\ mainpc = "create" => pollpc = "none"
  /\ IF pollpc = "choose" THEN i <= 4 ELSE game.next_dir # Opposite(saw)

GameInv == GameTypeOK /\ BoardStaysEmpty /\ keyboard \in Garbage /\ NotBack

LEMMA KeysAre == Keys = {"w", "a", "s", "d"} /\ DOMAIN keys_for_dirs = 1 .. 4
                 /\ \A k \in 1 .. 4 : keys_for_dirs[k] \in {"w", "a", "s", "d"}
<1>1. DOMAIN keys_for_dirs = 1 .. 4
  BY DEF keys_for_dirs
<1>2. 1 .. 4 = {1, 2, 3, 4}
  OBVIOUS
<1>3. Keys = {keys_for_dirs[k] : k \in {1, 2, 3, 4}}
  BY <1>1, <1>2 DEF Keys, ToSet
<1>4. /\ keys_for_dirs[1] = "w" /\ keys_for_dirs[2] = "a"
      /\ keys_for_dirs[3] = "s" /\ keys_for_dirs[4] = "d"
  BY DEF keys_for_dirs
<1> QED
  BY <1>1, <1>2, <1>3, <1>4

(* the loop of move for a snake of one cell: it comes to an end where it began *)
LEMMA BodyOfOne ==
  ASSUME NEW g, g.length = 1, g.grid = EmptyBoard, NEW p \in Cell, ~Border(p)
  PROVE  Body(g, p) = [grid |-> [EmptyBoard EXCEPT ![p] = 1], at |-> p]
<1> DEFINE start == [grid |-> g.grid, at |-> p]
           f == CHOOSE f : f = [k \in 0 .. 1 |-> IF k = 0 THEN start ELSE Follow(f[k - 1], k)]
           h == [k \in 0 .. 1 |-> IF k = 0 THEN start ELSE Follow(start, 1)]
<1>1. Body(g, p) = f[1]
  BY DEF Body
<1>2. h = [k \in 0 .. 1 |-> IF k = 0 THEN start ELSE Follow(h[k - 1], k)]
  <2>1. \A k \in 0 .. 1 : k = 0 \/ (k = 1 /\ k - 1 = 0)
    OBVIOUS
  <2>2. h[0] = start /\ h[1] = Follow(start, 1)
    OBVIOUS
  <2> HIDE DEF start
  <2> QED
    BY <2>1, <2>2
<1>3. f = [k \in 0 .. 1 |-> IF k = 0 THEN start ELSE Follow(f[k - 1], k)]
  BY <1>2
<1> HIDE DEF f
<1>4. f[0] = start /\ f[1] = Follow(f[0], 1)
  BY <1>3
<1>5. Follow(start, 1) = [grid |-> [EmptyBoard EXCEPT ![p] = 1], at |-> p]
  <2> DEFINE grid == [EmptyBoard EXCEPT ![p] = 1]
             same == {j \in 0 .. 3 : isValidPos(Neighbour(p, j)) /\ grid[Neighbour(p, j)] = 1}
  <2>1. ASSUME NEW j \in 0 .. 3, isValidPos(Neighbour(p, j)) PROVE grid[Neighbour(p, j)] # 1
    <3>1. Neighbour(p, j) # p /\ Neighbour(p, j) \in Cell
      <4>1. p[1] \in Int /\ p[2] \in Int /\ p = <<p[1], p[2]>>
        BY GameAssumption DEF Cell
      <4>2. /\ j + 1 \in 1 .. 4
            /\ x_dirs[j + 1] \in Int /\ y_dirs[j + 1] \in Int
            /\ x_dirs[j + 1] # 0 \/ y_dirs[j + 1] # 0
        <5>1. j \in {0, 1, 2, 3}
          OBVIOUS
        <5> QED
          BY <5>1 DEF x_dirs, y_dirs
      <4>3. Neighbour(p, j) = <<p[1] + x_dirs[j + 1], p[2] + y_dirs[j + 1]>>
        BY DEF Neighbour
      <4>4. Neighbour(p, j) # p
        <5> SUFFICES ASSUME Neighbour(p, j) = p PROVE FALSE
          OBVIOUS
        <5>1. p[1] + x_dirs[j + 1] = p[1] /\ p[2] + y_dirs[j + 1] = p[2]
          BY <4>3
        <5> DEFINE a == x_dirs[j + 1]
                   b == y_dirs[j + 1]
                   m == p[1]
                   n == p[2]
        <5>2. a \in Int /\ b \in Int /\ m \in Int /\ n \in Int
              /\ m + a = m /\ n + b = n /\ (a # 0 \/ b # 0)
          BY <4>1, <4>2, <5>1
        <5> HIDE DEF a, b, m, n
        <5> QED
          BY <5>2
      <4>5. Neighbour(p, j) \in Cell
        BY <2>1, <4>1, <4>2, <4>3, GameAssumption DEF isValidPos, Cell
      <4> QED
        BY <4>4, <4>5
    <3> QED
      BY <3>1 DEF EmptyBoard, Wall
  <2>2. same = {}
    BY <2>1
  <2>3. Follow(start, 1) = [grid |-> grid, at |-> IF same = {} THEN p ELSE Neighbour(p, Min(same))]
    BY DEF Follow
  <2> QED
    BY <2>2, <2>3
<1> QED
  BY <1>1, <1>4, <1>5

LEMMA MoveKeepsBoard ==
  ASSUME NEW g \in sgs, g.length = 1, g.grid = EmptyBoard, ~Border(g.head), NEW d \in Direction
  PROVE  /\ move(g, d) \in sgs
         /\ move(g, d).grid = EmptyBoard /\ move(g, d).length = 1
         /\ ~Border(move(g, d).head)
         /\ move(g, d).next_dir = g.next_dir
<1> DEFINE p == Neighbour(g.head, d)
           turned == [g EXCEPT !.dir = d]
<1>1. /\ turned \in sgs /\ turned.length = 1 /\ turned.grid = EmptyBoard
      /\ turned.next_dir = g.next_dir /\ turned.head = g.head
  BY DEF sgs
<1>2. CASE ~isValidPos(p) \/ Collides(g, AsChar(g.grid[p]))
  <2>1. move(g, d) = [turned EXCEPT !.alive = FALSE]
    BY <1>2 DEF move
  <2> QED
    BY <1>1, <2>1 DEF sgs
<1>3. CASE isValidPos(p) /\ ~Collides(g, AsChar(g.grid[p]))
  <2>1. p \in Cell
    <3>1. g.head[1] \in Int /\ g.head[2] \in Int
      BY GameAssumption DEF sgs, Cell
    <3>2. x_dirs[d + 1] \in Int /\ y_dirs[d + 1] \in Int
      <4>1. d \in {0, 1, 2, 3}
        BY DEF Direction
      <4> QED
        BY <4>1 DEF x_dirs, y_dirs
    <3> QED
      BY <1>3, <3>1, <3>2, GameAssumption DEF Neighbour, isValidPos, Cell
  <2>2. ~Border(p)
    <3> SUFFICES ASSUME Border(p) PROVE FALSE
      OBVIOUS
    <3>1. g.grid[p] = -1
      BY <2>1 DEF EmptyBoard, Wall
    <3>2. AsChar(-1) = -1
      BY DEF AsChar
    <3> QED
      BY <1>3, <3>1, <3>2 DEF Collides, Wall
  <2>3. g.grid[p] = 0 /\ AsChar(0) = 0 /\ AsChar(g.grid[p]) # Fruit
    <3>1. g.grid[p] = 0
      BY <2>1, <2>2 DEF EmptyBoard
    <3>2. AsChar(0) = 0
      BY DEF AsChar
    <3> QED
      BY <3>1, <3>2 DEF Fruit
  <2> HIDE DEF p, turned
  <2>4. Body(turned, p) = [grid |-> [EmptyBoard EXCEPT ![p] = 1], at |-> p]
    BY <1>1, <2>1, <2>2, BodyOfOne
  <2>5. move(g, d) = Moved(turned, p)
    BY <1>3 DEF move, p, turned
  <2>6. AsChar(turned.grid[p]) # Fruit
    BY <1>1, <2>3
  <2>7. Moved(turned, p) = [turned EXCEPT !.head = p,
                              !.grid = [[EmptyBoard EXCEPT ![p] = 1] EXCEPT ![p] = 0]]
    BY <2>4, <2>6 DEF Moved
  <2>8. [[EmptyBoard EXCEPT ![p] = 1] EXCEPT ![p] = 0] = EmptyBoard
    BY <2>1, <2>2 DEF EmptyBoard
  <2>9. Moved(turned, p) = [turned EXCEPT !.head = p, !.grid = EmptyBoard]
    BY <2>7, <2>8
  <2>10. EmptyBoard \in [Cell -> Int]
    BY DEF EmptyBoard, Wall
  <2> QED
    BY <1>1, <2>1, <2>2, <2>5, <2>9, <2>10 DEF sgs
<1> QED
  BY <1>2, <1>3

(* the direction getNextDir returns is never the opposite of the one it is given *)
LEMMA NeverBack ==
  ASSUME NEW key \in Keys, NEW dir \in Direction
  PROVE  /\ getNextDir(key, dir) \in Direction
         /\ getNextDir(key, dir) # Opposite(dir)
<1>1. key \in {"w", "a", "s", "d"}
  BY KeysAre
<1>2. DirOf(key) \in {0, 1, 2, 3}
  BY <1>1 DEF DirOf, UP, LEFT, DOWN, RIGHT
<1>3. dir \in {0, 1, 2, 3}
  BY DEF Direction
<1> HIDE DEF Keys
<1>4. Opposite(0) = 2 /\ Opposite(1) = 3 /\ Opposite(2) = 0 /\ Opposite(3) = 1
  BY DEF Opposite
<1> QED
  BY <1>2, <1>3, <1>4 DEF getNextDir, Direction

-----------------------------------------------------------------------------
(* The two threads *)

LEMMA GameInit == Init => GameInv
<1> SUFFICES ASSUME Init PROVE GameInv
  OBVIOUS
<1>1. game = NewGame /\ keyboard \in Garbage /\ keyboard \in [1 .. 2 -> SUBSET Keys]
  BY GarbageAssumption DEF Init, Keys
<1>2. /\ <<3, 3>> \in Cell /\ ~Border(<<3, 3>>)
      /\ EmptyBoard \in [Cell -> Int]
  BY GameAssumption DEF Cell, Border, EmptyBoard, Wall
<1>3. game \in sgs /\ ~Border(game.head)
  BY <1>1, <1>2 DEF NewGame, sgs, RIGHT, Direction
<1>4. GameTypeOK
  <2>1. \A k \in {1, 2} : keyboard[k] \in SUBSET ToSet(keys_for_dirs)
    BY <1>1 DEF Keys
  <2>2. 0 \in 0 .. Period - 1
    BY GameAssumption
  <2> QED
    BY <1>3, <2>1, <2>2 DEF Init, GameTypeOK, RIGHT, Direction
<1>5. BoardStaysEmpty
  BY <1>1 DEF Init, NewGame, BoardStaysEmpty
<1>6. NotBack
  BY <1>1 DEF Init, NewGame, NotBack, Opposite, RIGHT
<1> QED
  BY <1>1, <1>4, <1>5, <1>6 DEF GameInv

(* what the second thread reads into its arrays is what they held *)
LEMMA FetchNothing ==
  ASSUME keyboard \in Garbage, NEW k \in {1, 2}, Fetch(k)
  PROVE  keyboard' = keyboard
<1>1. keyboard \in [1 .. 2 -> SUBSET Keys]
  BY GarbageAssumption DEF Keys
<1>2. keyboard' = [keyboard EXCEPT ![k] = keyboard[k]]
  BY ArraysRefused DEF Fetch
<1> QED
  BY <1>1, <1>2

LEMMA KeyboardStays ==
  ASSUME GameInv, [Next]_vars
  PROVE  keyboard' = keyboard
<1>1. recent \in {1, 2} /\ 3 - recent \in {1, 2} /\ keyboard \in Garbage
  BY DEF GameInv, GameTypeOK
<1>2. CASE FirstStates \/ SecondState \/ Poll
  BY <1>1, <1>2, FetchNothing DEF FirstStates, SecondState, Poll
<1> QED
  BY <1>2 DEF Next, First, Second, KeyStep, Create, StartScreen, Loop, Update, LookAtKey,
              ChooseDir, Pause, gamevars, vars

LEMMA GameStep == GameInv /\ [Next]_vars => GameInv'
<1> SUFFICES ASSUME GameInv, [Next]_vars PROVE GameInv'
  OBVIOUS
<1>0. keyboard' = keyboard
  BY KeyboardStays
<1> USE DEF GameInv
<1>1. CASE Create
  BY <1>0, <1>1 DEF Create, GameTypeOK, BoardStaysEmpty, NotBack
<1>2. CASE StartScreen
  BY <1>0, <1>2 DEF StartScreen, GameTypeOK, BoardStaysEmpty, NotBack
<1>3. CASE Loop
  <2>1. cnt' \in 0 .. Period - 1 /\ moving' \in Direction
    BY <1>3, GameAssumption DEF Loop, GameTypeOK, sgs
  <2>2. screen' \in {<<>>, EmptyPicture}
    BY <1>3 DEF Loop, BoardStaysEmpty, EmptyPicture
  <2> QED
    BY <1>0, <1>3, <2>1, <2>2 DEF Loop, GameTypeOK, BoardStaysEmpty, NotBack
<1>4. CASE Update
  <2> DEFINE moved == move(game, moving)
  <2>1. /\ game \in sgs /\ game.length = 1 /\ game.grid = EmptyBoard
        /\ ~Border(game.head) /\ moving \in Direction
    BY DEF GameTypeOK, BoardStaysEmpty
  <2>2. /\ moved \in sgs /\ moved.grid = EmptyBoard /\ moved.length = 1
        /\ ~Border(moved.head) /\ moved.next_dir = game.next_dir
    BY <2>1, MoveKeepsBoard
  <2>3. /\ game' \in IF moved.length # game.length THEN spawnFruit(moved) ELSE {moved}
        /\ mainpc' \in {"returned", "fault", "loop"}
        /\ screen' \in {drawGame(game'.grid), screen}
        /\ UNCHANGED <<cnt, moving, pollpc, recent, i, saw>>
    BY <1>4 DEF Update
  <2> HIDE DEF moved
  <2>4. game' = moved
    BY <2>1, <2>2, <2>3
  <2>5. screen' \in {<<>>, EmptyPicture}
    BY <2>2, <2>3, <2>4 DEF BoardStaysEmpty, EmptyPicture
  <2> QED
    BY <1>0, <2>2, <2>3, <2>4, <2>5 DEF GameTypeOK, BoardStaysEmpty, NotBack
<1>5. CASE FirstStates
  BY <1>0, <1>5 DEF FirstStates, Polling, GameTypeOK, BoardStaysEmpty, NotBack
<1>6. CASE SecondState
  BY <1>0, <1>6 DEF SecondState, Polling, GameTypeOK, BoardStaysEmpty, NotBack
<1>7. CASE Poll
  BY <1>0, <1>7 DEF Poll, Polling, GameTypeOK, BoardStaysEmpty, NotBack
<1>8. CASE LookAtKey
  <2>1. saw' \in Direction /\ i' \in 1 .. 5 /\ pollpc' \in {"look", "choose"}
    BY <1>8 DEF LookAtKey, Polling, GameTypeOK, sgs
  <2>2. pollpc' # "choose" => saw' = saw /\ pollpc # "choose"
    BY <1>8 DEF LookAtKey, Polling
  <2>3. game' = game /\ screen' = screen /\ UNCHANGED <<mainpc, cnt, moving, recent>>
    BY <1>8 DEF LookAtKey
  <2>4. GameTypeOK'
    BY <1>0, <2>1, <2>3 DEF GameTypeOK
  <2>5. pollpc = "look" /\ (pollpc' = "choose" => i' = i /\ i <= 4)
    BY <1>8 DEF LookAtKey, Polling
  <2>6. NotBack'
    BY <2>2, <2>3, <2>5 DEF NotBack
  <2> QED
    BY <1>0, <2>3, <2>4, <2>6 DEF BoardStaysEmpty
<1>9. CASE ChooseDir
  <2> DEFINE chosen == getNextDir(keys_for_dirs[i], saw)
  <2>1. i \in 1 .. 4 /\ saw \in Direction
    BY <1>9 DEF ChooseDir, Polling, GameTypeOK, NotBack
  <2>2. keys_for_dirs[i] \in Keys
    BY <2>1, KeysAre
  <2>3. chosen \in Direction /\ chosen # Opposite(saw)
    BY <2>1, <2>2, NeverBack
  <2>4. /\ game' = [game EXCEPT !.next_dir = chosen]
        /\ i' = i + 1 /\ pollpc' = "look"
        /\ UNCHANGED <<screen, mainpc, cnt, moving, recent, saw>>
    BY <1>9 DEF ChooseDir
  <2> HIDE DEF chosen
  <2>5. /\ game' \in sgs /\ game'.grid = game.grid /\ game'.length = game.length
        /\ game'.head = game.head /\ game'.next_dir = chosen
    BY <2>3, <2>4 DEF GameTypeOK, sgs
  <2>6. GameTypeOK'
    BY <1>0, <2>1, <2>4, <2>5 DEF GameTypeOK
  <2>7. NotBack'
    BY <1>9, <2>3, <2>4, <2>5 DEF NotBack, ChooseDir, Polling
  <2> QED
    BY <1>0, <2>4, <2>5, <2>6, <2>7 DEF BoardStaysEmpty
<1>10. CASE Pause
  BY <1>0, <1>10 DEF Pause, Polling, GameTypeOK, BoardStaysEmpty, NotBack
<1>11. CASE KeyStep \/ UNCHANGED vars
  BY <1>0, <1>11 DEF KeyStep, gamevars, vars, GameTypeOK, BoardStaysEmpty, NotBack
<1> QED
  BY <1>1, <1>2, <1>3, <1>4, <1>5, <1>6, <1>7, <1>8, <1>9, <1>10, <1>11
     DEF Next, First, Second

LEMMA GameInvHolds == Spec => []GameInv
<1> QED
  BY GameInit, GameStep, PTL DEF Spec

(***************************************************************************)
(* However the threads interleave, the head stays inside the walls and the *)
(* struct game holds what its C type and its readers expect.               *)
(***************************************************************************)
THEOREM GameIsTyped == Spec => []GameTypeOK
<1>1. GameInv => GameTypeOK
  BY DEF GameInv
<1> QED
  BY <1>1, GameInvHolds, PTL

(***************************************************************************)
(* On a board of any size the snake never leaves a trace, grows or meets a *)
(* fruit: move clears the cell that it has just entered.  The comments of  *)
(* user.c (30, 68, 115-118) describe a snake that eats and grows; what is  *)
(* proved here is how far the program is from them.                        *)
(***************************************************************************)
THEOREM BoardNeverFills == Spec => []BoardStaysEmpty
<1>1. GameInv => BoardStaysEmpty
  BY DEF GameInv
<1> QED
  BY <1>1, GameInvHolds, PTL

(***************************************************************************)
(* The unlocked reads of game->dir let the snake turn back on itself only  *)
(* if the direction has changed since the second thread looked at it.      *)
(***************************************************************************)
THEOREM TurnsAreLegal == Spec => []TurnIsLegal
<1>1. GameInv => TurnIsLegal
  BY DEF GameInv, NotBack, TurnIsLegal
<1> QED
  BY <1>1, GameInvHolds, PTL

(***************************************************************************)
(* No key ever reaches the game: wherever clone places the stack of the    *)
(* second thread, access_ok refuses its arrays.  It says for every layout  *)
(* what a run shows on one: project/readme.md:33 and 177 promise the game  *)
(* its keys.                                                               *)
(***************************************************************************)
THEOREM KeysNeverArrive == Spec => KeysIgnored
<1>1. GameInv /\ [Next]_vars => [keyboard' = keyboard]_vars
  BY KeyboardStays
<1> QED
  BY <1>1, GameInvHolds, PTL DEF Spec, KeysIgnored

(***************************************************************************)
(* The driver never takes a character for down when no key of it is, and   *)
(* misses one only if several keys share it or its code is above 127, for  *)
(* any keys and characters.                                                *)
(***************************************************************************)
THEOREM KeysAreTracked == Spec => []KeysTracked
<1>1. Init => KeyInv
  BY DEF Init, initKeyboardState, KeyInv, KeysTracked
<1>2. KeyInv /\ [Next]_vars => KeyInv'
  <2> SUFFICES ASSUME KeyInv, [Next]_vars PROVE KeyInv'
    OBVIOUS
  <2>1. ASSUME NEW key \in Key, KeyInterrupt(key) PROVE KeyInv'
    BY <2>1, KeyInterruptInv
  <2>2. CASE UNCHANGED <<held, keyboard_state>>
    BY <2>2 DEF KeyInv, KeysTracked
  <2>3. First \/ Second \/ UNCHANGED vars => UNCHANGED <<held, keyboard_state>>
    BY DEF First, Second, Create, StartScreen, Loop, Update, FirstStates, SecondState,
           Poll, LookAtKey, ChooseDir, Pause, vars
  <2> QED
    BY <2>1, <2>2, <2>3 DEF Next, KeyStep
<1>3. KeyInv => KeysTracked
  BY DEF KeyInv
<1> QED
  BY <1>1, <1>2, <1>3, PTL DEF Spec

=============================================================================
