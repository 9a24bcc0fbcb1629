----------------------------- MODULE BootImage -----------------------------
(***************************************************************************)
(* From the linked files to the first user instruction: build.c puts boot  *)
(* sector, system and user in one image and patches their sizes into it;   *)
(* read_it of bootsect.S loads the image from the disk to address 0x10000, *)
(* track by track; main of system.c moves the user part to its pages.      *)
(*                                                                         *)
(* Contents are not modelled byte by byte: what matters of a block of      *)
(* memory is which sector of the disk it holds.                            *)
(***************************************************************************)
EXTENDS Integers, Sequences, FiniteSets

CONSTANTS
  SystemSizes, UserSizes,  \* sizes in bytes of the two linked files
  SEC_PISTA,               \* sectors per track of the disks in use
  MaxFailures              \* bound on the reads that the BIOS fails to do

SECTOR == 512
SEGMENT == 128               \* sectors in the 64 kB an offset register spans
Paragraphs(segments) == 4096 * segments

SYSSEG == 1                  \* segment registers, in units of 64 kB
INITSEG == 9

\* Sectors of one track have to fit in 64 kB, or shl cx,#9 loses bits.
ASSUME BootAssumption ==
  /\ SystemSizes \subseteq Nat /\ UserSizes \subseteq Nat
  /\ SEC_PISTA \subseteq 2 .. (SEGMENT - 1)
  /\ MaxFailures \in Nat

NUM_PAG_USER == 28           \* NUM_PAG_CODE + NUM_PAG_DATA
PAGE_SIZE == 4096

VARIABLES
  pc,               \* what comes next
  system, user,     \* the sizes of the files
  image,            \* the parts of the image written so far
  syssize,          \* the word at 500 of the image
  p_sys_size, p_usr_size,   \* the words at 512 and 516
  sectors,          \* per track, of the disk in the drive
  es, bx,           \* where the next track goes: segment, and offset in sectors
  sread, head, track,       \* where it comes from
  loaded,           \* what has been read: blocks of memory and their sectors
  failures,
  moved             \* the bytes of the image moved to the user pages

build == <<system, user, image, syssize, p_sys_size, p_usr_size, sectors>>
loader == <<es, bx, sread, head, track, loaded, failures>>
vars == <<pc, system, user, image, syssize, p_sys_size, p_usr_size, sectors,
          es, bx, sread, head, track, loaded, failures, moved>>

Nothing == [from |-> 0, length |-> 0]

Init ==
  /\ pc = "bootsect"
  /\ system \in SystemSizes /\ user \in UserSizes /\ sectors \in SEC_PISTA
  /\ image = <<>>
  /\ syssize = 0 /\ p_sys_size = 0 /\ p_usr_size = 0
  /\ es = SYSSEG /\ bx = 0
  /\ sread = 0 /\ head = 0 /\ track = 0
  /\ loaded = {} /\ failures = 0 /\ moved = Nothing

-----------------------------------------------------------------------------
(* build.c *)

die == pc' = "died"

\* A part of the image is read from its file and written, or build dies.
Write(part, length, next) ==
  /\ \/ image' = Append(image, [part |-> part, length |-> length]) /\ pc' = next
     \/ UNCHANGED image /\ die
  /\ UNCHANGED <<system, user, syssize, p_sys_size, p_usr_size, sectors, moved>>
  /\ UNCHANGED loader

\* minix_open checks the header of ld86; the rest must be one sector.
WriteBootSector == pc = "bootsect" /\ Write("boot", SECTOR, "system")
WriteSystem == pc = "system" /\ Write("system", system, "user")
WriteUser == pc = "user" /\ Write("user", user, "patch")

\* The sizes are patched in: that of the image in paragraphs and two bytes, the
\* other ones in bytes and three of them.
im_size == ((system + user + 15) \div 16) % 2^16

p_sysMutant == (SECTOR + system) % 2^24

p_sys == system % 2^24

PatchSizes ==
  /\ pc = "patch"
  /\ \/ /\ syssize' = im_size
        /\ p_sys_size' = p_sys
        /\ p_usr_size' = user % 2^24
        /\ pc' = "boot"
     \/ die /\ UNCHANGED <<syssize, p_sys_size, p_usr_size>>
  /\ UNCHANGED <<system, user, image, sectors, moved>>
  /\ UNCHANGED loader

-----------------------------------------------------------------------------
(* bootsect.S *)

\* The boot sector moves itself out of the way. read_it counts it as read.
StartLoader ==
  /\ pc = "boot"
  /\ pc' = "read_it"
  /\ es' = SYSSEG /\ bx' = 0
  /\ sread' = 1 /\ head' = 0 /\ track' = 0
  /\ UNCHANGED <<loaded, failures, moved>>
  /\ UNCHANGED build

\* A block is 512 bytes of memory, counted from 0x10000.
Block == (es - SYSSEG) * SEGMENT + bx
LoaderBlock == (INITSEG - SYSSEG) * SEGMENT

\* The sector of the disk that comes next, counted from 0
NextSector == (2 * track + head) * sectors + sread

AllReadMutant == Paragraphs(es - SYSSEG) = syssize

\* The loop looks at the segment only.
AllRead == Paragraphs(es - SYSSEG) > syssize

CountMutant ==
  LET rest == sectors - sread IN IF bx + rest > SEGMENT THEN SEGMENT - bx - 1 ELSE rest

\* The rest of the track, or what fits up to the end of the segment
Count ==
  LET rest == sectors - sread IN IF bx + rest > SEGMENT THEN SEGMENT - bx ELSE rest

\* read_track: int 0x13 puts Count sectors at es:bx. Nobody looks at the carry it
\* sets when it fails, and then memory stays as it was.
read_track ==
  \/ /\ loaded' = loaded \cup {[at |-> Block, sector |-> NextSector, count |-> Count]}
     /\ UNCHANGED failures
  \/ /\ failures < MaxFailures
     /\ failures' = failures + 1
     /\ UNCHANGED loaded

AdvanceMutant ==
  IF sread + Count = sectors
  THEN /\ sread' = 0
       /\ head' = 1 - head
       /\ track' = track + 1
  ELSE sread' = sread + Count /\ UNCHANGED <<head, track>>

\* After the last sector of a track comes the other head, after both the next track.
Advance ==
  IF sread + Count = sectors
  THEN /\ sread' = 0
       /\ head' = 1 - head
       /\ track' = IF head = 1 THEN track + 1 ELSE track
  ELSE sread' = sread + Count /\ UNCHANGED <<head, track>>

\* One round of the loop of read_it. What reaches INITSEG overwrites the loader.
ReadTrack ==
  /\ pc = "read_it"
  /\ ~AllRead
  /\ read_track
  /\ Advance
  /\ IF bx + Count = SEGMENT
     THEN bx' = 0 /\ es' = (es + 1) % 16
     ELSE bx' = bx + Count /\ UNCHANGED es
  /\ pc' = IF Block + Count > LoaderBlock THEN "lost" ELSE "read_it"
  /\ UNCHANGED build /\ UNCHANGED moved

Holds(block) == \E e \in loaded : block \in e.at .. (e.at + e.count - 1)

\* Protected mode, and the jump to 0x10010, where main is if it has been read
EnterKernel ==
  /\ pc = "read_it"
  /\ AllRead
  /\ pc' = IF Holds(0) THEN "main" ELSE "nowhere"
  /\ UNCHANGED build /\ UNCHANGED loader /\ UNCHANGED moved

-----------------------------------------------------------------------------
(* main of system.c: user code and data are moved to the pages of task 1, which
   init_task1 has mapped. There are NUM_PAG_USER of them. *)

\* by words, then the bytes that remain
copy_data(start, size) == moved' = [from |-> start, length |-> size]

MoveUser ==
  /\ pc = "main"
  /\ IF p_usr_size <= NUM_PAG_USER * PAGE_SIZE
     THEN /\ copy_data(p_sys_size, p_usr_size)
          /\ pc' = "usr_main"
     ELSE pc' = "page fault" /\ UNCHANGED moved
  /\ UNCHANGED build /\ UNCHANGED loader

Next ==
  \/ WriteBootSector \/ WriteSystem \/ WriteUser \/ PatchSizes
  \/ StartLoader \/ ReadTrack \/ EnterKernel
  \/ MoveUser

Spec == Init /\ [][Next]_vars

FairSpec == Spec /\ WF_vars(ReadTrack \/ EnterKernel)

-----------------------------------------------------------------------------
(* Properties *)

Phase == {"bootsect", "system", "user", "patch", "died", "boot", "read_it", "lost",
          "nowhere", "main", "usr_main", "page fault"}

Extent == [at : Nat, sector : Nat, count : Nat \ {0}]

BootTypeOK ==
  /\ pc \in Phase
  /\ system \in Nat /\ user \in Nat /\ sectors \in 2 .. (SEGMENT - 1)
  /\ syssize \in 0 .. (2^16 - 1)
  /\ p_sys_size \in 0 .. (2^24 - 1) /\ p_usr_size \in 0 .. (2^24 - 1)
  /\ es \in 0 .. 15 /\ bx \in 0 .. (SEGMENT - 1)
  /\ sread \in 0 .. (sectors - 1) /\ head \in {0, 1} /\ track \in Nat
  /\ loaded \subseteq Extent
  /\ failures \in 0 .. MaxFailures

\* The comment above read_it: no read crosses a 64 kB boundary. Nor does one cross
\* the end of a track, and every sector lands where its number says, whatever the
\* number of sectors of a track: the boot sector, number 0, is not loaded.
EverySectorInPlace ==
  \A e \in loaded :
    /\ e.sector = e.at + 1
    /\ e.at \div SEGMENT = (e.at + e.count - 1) \div SEGMENT
    /\ e.sector \div sectors = (e.sector + e.count - 1) \div sectors

\* build counts paragraphs, and the loader goes on while it has loaded no more than
\* they are: an image fits if it ends a paragraph before 0x90000.
Fits == (system + user + 15) \div 16 < Paragraphs(INITSEG - SYSSEG)

\* The loader reads whole segments, but never over itself while the image fits.
LoaderSurvives == pc = "lost" => ~Fits

\* Where the user part starts in memory, counted from 0x10000
UserStart == image[1].length + image[2].length - SECTOR

\* What main moves is the user part, all of it, and it has been loaded: the sizes
\* patched by build, the loop of the loader and the layout of the image agree.
UserArrives ==
  pc = "usr_main" /\ Fits /\ failures = 0 =>
    /\ moved = [from |-> UserStart, length |-> image[3].length]
    /\ \A block \in 0 .. ((system + user + SECTOR - 1) \div SECTOR - 1) : Holds(block)

\* The loader of an image that fits ends: it enters the kernel, which is not there
\* when the BIOS failed to read its first track.
BootEnds == (pc = "read_it" /\ Fits) ~> (pc \in {"main", "nowhere"})

=============================================================================
