----------------------------- MODULE SnakeGame -----------------------------
(***************************************************************************)
(* The game of project/Project/user.c: the first thread moves the snake    *)
(* and draws the board, a second one polls the keyboard and chooses the    *)
(* next direction.  They share the struct game and take no lock.           *)
(*                                                                         *)
(* The bits of the two keyboard arrays that matter are the set of the keys *)
(* for directions that are down.  A cell of the board is a picture of 3 by *)
(* 3 characters on the screen.  What is printed is left out.               *)
(***************************************************************************)
EXTENDS Keyboard, Sequences, FiniteSets, SequencesExt, FiniteSetsExt

CONSTANTS
  X_size, Y_size,
  Period,         \* rounds of the loop of main for a move: 100
  Garbage,        \* what the two arrays of poll_keyboard may hold at first
  FreePage,       \* where clone places the stack of the second thread
  Behind          \* what is read for x_dirs[4] and y_dirs[4]: both have 4 elements

\* the board fits on the screen, so that no two cells share a character of it
ASSUME GameAssumption ==
  /\ X_size \in Nat /\ X_size >= 5 /\ 3 * X_size <= 80
  /\ Y_size \in Nat /\ Y_size >= 5 /\ 3 * Y_size <= 25
  /\ Period \in Nat \ {0, 1}

\* A page has room for both arrays, and clone places stacks NUM_PAG_DATA pages behind
\* the data or further on, in the address space.
ASSUME StackAssumption ==
  /\ PAGE_SIZE > 512 /\ NUM_PAG_DATA > 0
  /\ FreePage \in Nat /\ FreePage >= PastDataPage + NUM_PAG_DATA
  /\ (FreePage + 1) * PAGE_SIZE <= WORD

RIGHT == 0
UP == 1
LEFT == 2
DOWN == 3
x_dirs == <<1, 0, -1, 0>>
y_dirs == <<0, -1, 0, 1>>
keys_for_dirs == <<"w", "a", "s", "d">>

ASSUME GarbageAssumption == Garbage \subseteq [1 .. 2 -> SUBSET ToSet(keys_for_dirs)]

Wall == -1
Fruit == -2

VARIABLES
  game,         \* struct sgs
  screen,       \* the picture in each cell; <<>> as long as nothing is drawn
  mainpc, cnt,  \* the first thread; after a move it has drawn
  moving,       \* the direction move has read in next_dir
  pollpc,       \* the second thread: none yet, or where it is in its loop
  keyboard,     \* keyboard1 and keyboard2
  recent,       \* recent_keyboard
  i,            \* the key for which updateSelectedDir looks next
  saw           \* game->dir when it last read it

gamevars == <<game, screen, mainpc, cnt, moving, pollpc, keyboard, recent, i, saw>>
vars == <<held, keyboard_state, gamevars>>

Cell == (0 .. X_size - 1) \X (0 .. Y_size - 1)

isValidPos(p) == p[1] > 0 /\ p[1] < X_size /\ p[2] > 0 /\ p[2] < Y_size

Border(p) == p[1] \in {0, X_size - 1} \/ p[2] \in {0, Y_size - 1}

EmptyBoard == [p \in Cell |-> IF Border(p) THEN Wall ELSE 0]

Direction == 0 .. 3

\* the seed is left out: spawnFruit may find any number; alive is a boolean
sgs == [grid : [Cell -> Int], length : Nat, head : Cell,
        dir : Direction, next_dir : Direction, alive : BOOLEAN]

\* The head is not entered in the board, and there is no first fruit.
NewGame == [grid |-> EmptyBoard, length |-> 1, head |-> <<3, 3>>,
            dir |-> RIGHT, next_dir |-> RIGHT, alive |-> TRUE]

Init ==
  /\ initKeyboardState
  /\ game = NewGame /\ screen = <<>>
  /\ mainpc = "create" /\ cnt = 0 /\ moving = RIGHT
  /\ pollpc = "none"
  /\ keyboard \in Garbage
  /\ recent = 1 /\ i = 1 /\ saw = RIGHT

-----------------------------------------------------------------------------
(* move and spawnFruit *)

Neighbour(p, j) == <<p[1] + x_dirs[j + 1], p[2] + y_dirs[j + 1]>>

\* an int as a char
AsChar(n) == ((n + 128) % 256) - 128

\* The body moves up: the cell becomes the k-th of the snake, and the first
\* neighbour that was the k-th so far is the next cell.
Follow(body, k) ==
  LET grid == [body.grid EXCEPT ![body.at] = k]
      same == {j \in 0 .. 3 : LET p == Neighbour(body.at, j) IN isValidPos(p) /\ grid[p] = k}
  IN [grid |-> grid, at |-> IF same = {} THEN body.at ELSE Neighbour(body.at, Min(same))]

\* once the snake lies in the cells from p on, and the cell behind it
Body(g, p) ==
  LET body[k \in 0 .. g.length] ==
        IF k = 0 THEN [grid |-> g.grid, at |-> p] ELSE Follow(body[k - 1], k)
  IN body[g.length]

Collides(g, value) == value = Wall \/ (value > 0 /\ value # g.length)

\* The cell behind the snake is cleared, or becomes its tail if it has eaten.
Moved(g, p) ==
  LET body == Body(g, p)
      eaten == AsChar(g.grid[p]) = Fruit
  IN IF eaten
     THEN [g EXCEPT !.head = p, !.length = g.length + 1,
                    !.grid = [body.grid EXCEPT ![body.at] = g.length + 1]]
     ELSE [g EXCEPT !.head = p, !.grid = [body.grid EXCEPT ![body.at] = 0]]

moveMutant(g, d) ==
  LET p == Neighbour(g.head, d)
      turned == [g EXCEPT !.dir = d]
  IN IF ~isValidPos(p) THEN [turned EXCEPT !.alive = FALSE] ELSE Moved(turned, p)

move(g, d) ==
  LET p == Neighbour(g.head, d)
      turned == [g EXCEPT !.dir = d]
  IN IF ~isValidPos(p) \/ Collides(g, AsChar(g.grid[p]))
     THEN [turned EXCEPT !.alive = FALSE]
     ELSE Moved(turned, p)

Free(grid) == {p \in Cell : grid[p] = 0}

Before(p, q) == p[1] < q[1] \/ (p[1] = q[1] /\ p[2] < q[2])

\* The remainder of the seed chooses among the free cells, in the order of the scan:
\* never the last one, and for 0 it is the first cell of all, whatever that holds.
spawnFruit(g) ==
  LET free == Free(g.grid)
      chosen == {<<0, 0>>} \cup {p \in free : \E q \in free : Before(p, q)}
  IN {[g EXCEPT !.grid[p] = Fruit] : p \in chosen}

-----------------------------------------------------------------------------
(* drawGame: in each cell a character at some of nine places, seen from its middle *)

draw_char(c, places) == [char |-> c, places |-> places]

drawSpecial(element) ==
  CASE element = Wall -> draw_char("X", (-1 .. 1) \X (-1 .. 1))
    [] element = Fruit -> draw_char("O", {<<0, 0>>})
    [] OTHER -> draw_char(" ", {})

Towards(dir) == IF dir \in Direction THEN Neighbour(<<0, 0>>, dir) ELSE Behind

drawBody(prev, next) == draw_char("X", {<<0, 0>>, Towards(prev), Towards(next)})

\* where the n-th cell of the snake is, seen from p; 4 if nowhere
DirTo(grid, p, n) ==
  LET dirs == {d \in Direction : isValidPos(Neighbour(p, d)) /\ grid[Neighbour(p, d)] = n}
  IN IF dirs = {} THEN 4 ELSE Max(dirs)

drawGame(grid) ==
  [p \in Cell |->
     IF grid[p] <= 0 THEN drawSpecial(grid[p])
     ELSE drawBody(IF grid[p] = 1 THEN 4 ELSE DirTo(grid, p, grid[p] - 1),
                   DirTo(grid, p, grid[p] + 1))]

-----------------------------------------------------------------------------
(* The first thread: main *)

\* pthread_create returns -1 whatever happens, which main does not take for an
\* error; there is a second thread if clone has found a struct and a frame.
Create ==
  /\ mainpc = "create"
  /\ mainpc' = "screen"
  /\ pollpc' \in {"none", "first"}
  /\ UNCHANGED <<held, keyboard_state, game, screen, cnt, moving, keyboard, recent, i, saw>>

\* Without a frame for the screen its address is -1: main draws there and faults.
StartScreen ==
  /\ mainpc = "screen"
  /\ mainpc' \in {"loop", "fault"}
  /\ UNCHANGED <<held, keyboard_state, game, screen, cnt, moving, pollpc, keyboard, recent, i, saw>>

\* the counter is looked at after it has been reset
LoopMutant ==
  /\ mainpc = "loop"
  /\ cnt' = IF cnt + 1 = Period THEN 0 ELSE cnt + 1
  /\ mainpc' = IF cnt' = Period THEN "move" ELSE "loop"
  /\ moving' = IF cnt' = Period THEN game.next_dir ELSE moving
  /\ screen' = IF cnt' = Period THEN screen ELSE drawGame(game.grid)
  /\ UNCHANGED <<held, keyboard_state, game, pollpc, keyboard, recent, i, saw>>

\* One round without a move, or up to where move has read next_dir
Loop ==
  /\ mainpc = "loop"
  /\ \/ /\ cnt + 1 # Period
        /\ cnt' = cnt + 1
        /\ screen' = drawGame(game.grid)
        /\ UNCHANGED <<mainpc, moving>>
     \/ /\ cnt + 1 = Period
        /\ cnt' = 0
        /\ mainpc' = "move"
        /\ moving' = game.next_dir
        /\ UNCHANGED screen
  /\ UNCHANGED <<held, keyboard_state, game, pollpc, keyboard, recent, i, saw>>

\* The rest of update. When the snake has died main returns to no address; without a
\* free cell spawnFruit divides by zero.
Update ==
  /\ mainpc = "move"
  /\ LET moved == move(game, moving)
         eaten == moved.length # game.length
     IN /\ game' \in IF eaten THEN spawnFruit(moved) ELSE {moved}
        /\ mainpc' = IF ~moved.alive THEN "returned"
                     ELSE IF eaten /\ Free(moved.grid) = {} THEN "fault" ELSE "loop"
  /\ screen' = IF mainpc' = "loop" THEN drawGame(game'.grid) ELSE screen
  /\ UNCHANGED <<held, keyboard_state, cnt, moving, pollpc, keyboard, recent, i, saw>>

-----------------------------------------------------------------------------
(* The second thread: poll_keyboard *)

Stopped == mainpc \in {"returned", "fault"}

Polling(where) == ~Stopped /\ pollpc = where

\* The arrays are on the stack of the thread.
Buffer(k) == FreePage * PAGE_SIZE + (k - 1) * 256

Fetch(k) ==
  keyboard' = [keyboard EXCEPT ![k] = sys_GetKeyboardState(Buffer(k), keyboard[k])]

FirstStates ==
  /\ Polling("first")
  /\ pollpc' = "second"
  /\ Fetch(1)
  /\ UNCHANGED <<held, keyboard_state, game, screen, mainpc, cnt, moving, recent, i, saw>>

SecondState ==
  /\ Polling("second")
  /\ pollpc' = "poll"
  /\ Fetch(2)
  /\ UNCHANGED <<held, keyboard_state, game, screen, mainpc, cnt, moving, recent, i, saw>>

\* the array that is not the recent one is filled and becomes it
Poll ==
  /\ Polling("poll")
  /\ Fetch(3 - recent)
  /\ recent' = 3 - recent
  /\ i' = 1
  /\ pollpc' = "look"
  /\ UNCHANGED <<held, keyboard_state, game, screen, mainpc, cnt, moving, saw>>

\* updateSelectedDir: keys that are down now and were not, in this order
JustPressed(k) == k \in keyboard[recent] /\ k \notin keyboard[3 - recent]

LookAtKey ==
  /\ Polling("look")
  /\ i <= 4
  /\ IF JustPressed(keys_for_dirs[i])
     THEN pollpc' = "choose" /\ saw' = game.dir /\ UNCHANGED i
     ELSE i' = i + 1 /\ UNCHANGED <<pollpc, saw>>
  /\ UNCHANGED <<held, keyboard_state, game, screen, mainpc, cnt, moving, keyboard, recent>>

DirOf(key) == CASE key = "w" -> UP [] key = "a" -> LEFT [] key = "s" -> DOWN [] key = "d" -> RIGHT

Opposite(d) == (d + 2) % 4

getNextDirMutant(key, dir) == DirOf(key)

\* A key for the opposite of dir is not ignored: it chooses dir.
getNextDir(key, dir) == IF dir = Opposite(DirOf(key)) THEN dir ELSE DirOf(key)

ChooseDir ==
  /\ Polling("choose")
  /\ game' = [game EXCEPT !.next_dir = getNextDir(keys_for_dirs[i], saw)]
  /\ i' = i + 1
  /\ pollpc' = "look"
  /\ UNCHANGED <<held, keyboard_state, screen, mainpc, cnt, moving, keyboard, recent, saw>>

\* pause(100): at least one tick
Pause ==
  /\ Polling("look")
  /\ i > 4
  /\ pollpc' = "poll"
  /\ UNCHANGED <<held, keyboard_state, game, screen, mainpc, cnt, moving, keyboard, recent, i, saw>>

-----------------------------------------------------------------------------
KeyStep == \E key \in Key : KeyInterrupt(key) /\ UNCHANGED gamevars

First == Create \/ StartScreen \/ Loop \/ Update
Second == FirstStates \/ SecondState \/ Poll \/ LookAtKey \/ ChooseDir \/ Pause

Next == First \/ Second \/ KeyStep

Spec == Init /\ [][Next]_vars

\* The threads have the same priority, and ready ones take turns.
FairSpec == Spec /\ WF_vars(First) /\ WF_vars(Second)

-----------------------------------------------------------------------------
(* Properties *)

\* Whatever the thread for the keyboard does between the reads and the writes of
\* move, the head stays inside the walls, also when the snake dies.
GameTypeOK ==
  /\ game \in sgs /\ ~Border(game.head)
  /\ mainpc \in {"create", "screen", "loop", "move", "returned", "fault"}
  /\ cnt \in 0 .. Period - 1
  /\ moving \in Direction
  /\ pollpc \in {"none", "first", "second", "poll", "look", "choose"}
  /\ \A k \in {1, 2} : keyboard[k] \in SUBSET ToSet(keys_for_dirs)
  /\ recent \in {1, 2} /\ i \in 1 .. 5
  /\ saw \in Direction

EmptyPicture == drawGame(EmptyBoard)

\* Since main enters no head, move clears the cell it has just written: what is drawn
\* is an empty board, in which a fruit never appears and the snake never grows.
BoardStaysEmpty ==
  /\ game.grid = EmptyBoard /\ game.length = 1
  /\ screen \in {<<>>, EmptyPicture}

\* However the two threads interleave, the snake is about to turn back on itself only
\* if its direction has changed since the choice, which looked at game->dir once.
TurnIsLegal == pollpc # "choose" /\ game.next_dir = Opposite(game.dir) => saw # game.dir

\* What project/readme.md:33 and 177 say of GetKeyboardState: it copies the state of the
\* keyboard to the array that the second thread passes, and so the game has its input.
KeysDelivered ==
  [][Poll => keyboard'[recent'] = keyboard_state \cap ToSet(keys_for_dirs)]_vars

\* What the code does instead: no key reaches the game.  clone puts the stack of the
\* thread where access_ok takes no buffer, so both arrays keep what was in the frame.
KeysIgnored == [][keyboard' = keyboard]_vars

\* The snake moves again and again until it dies, at whatever pace keys are polled,
\* unless there was no frame for the screen.
GameGoesOn == []<><<Update>>_vars \/ <>Stopped

=============================================================================
