-------------------------- MODULE BootImageProofs --------------------------
(***************************************************************************)
(* build.c, the loader of bootsect.S and main, for files of any size and   *)
(* disks with any number of sectors per track below 128, however often the *)
(* BIOS fails.                                                             *)
(***************************************************************************)
EXTENDS BootImage, SequenceTheorems, TLAPS

LEMMA QuotientOf ==
  ASSUME NEW q \in Nat, NEW s \in Nat, s > 0, NEW r \in 0 .. (s - 1)
  PROVE  (q * s + r) \div s = q
BY SMT

LEMMA NextTrack ==
  ASSUME NEW q \in Nat, NEW s \in Nat
  PROVE  (q + 1) * s = q * s + s
BY SMT

\* Where the loader is: the next sector goes where its number says.
Registers ==
  pc = "read_it" =>
    /\ es \in SYSSEG .. INITSEG /\ bx \in 0 .. (SEGMENT - 1)
    /\ head \in {0, 1} /\ track \in Nat /\ sread \in 0 .. (sectors - 1)
    /\ NextSector = Block + 1

\* The loader compares with the size that build has patched.
SizePatched == pc \in {"boot", "read_it"} => syssize = im_size

BootInv ==
  /\ system \in Nat /\ user \in Nat /\ sectors \in 2 .. (SEGMENT - 1)
  /\ Registers /\ EverySectorInPlace
  /\ SizePatched /\ LoaderSurvives

LEMMA InitBootInv == Init => BootInv
BY BootAssumption DEF Init, BootInv, Registers, EverySectorInPlace, SEGMENT,
                      SizePatched, LoaderSurvives

\* What one round of the loop reads is in its place.
LEMMA ReadInPlace ==
  ASSUME BootInv, pc = "read_it",
         NEW e, e = [at |-> Block, sector |-> NextSector, count |-> Count]
  PROVE  /\ e.sector = e.at + 1
         /\ e.at \div SEGMENT = (e.at + e.count - 1) \div SEGMENT
         /\ e.sector \div sectors = (e.sector + e.count - 1) \div sectors
<1> DEFINE t == 2 * track + head
<1>1. /\ es \in Nat /\ es >= 1 /\ bx \in 0 .. 127 /\ sectors \in 2 .. 127
      /\ head \in {0, 1} /\ track \in Nat /\ sread \in 0 .. (sectors - 1)
      /\ NextSector = Block + 1
  BY DEF BootInv, Registers, SYSSEG, INITSEG, SEGMENT
<1>2. Count \in Nat /\ Count >= 1 /\ Count <= sectors - sread /\ Count <= 128 - bx
  BY <1>1 DEF Count, SEGMENT
<1>3. Block \div 128 = (Block + Count - 1) \div 128
  BY <1>1, <1>2 DEF Block, SEGMENT, SYSSEG
<1>4. t \in Nat /\ NextSector = t * sectors + sread
  BY <1>1 DEF NextSector
<1>5. NextSector \div sectors = t
  BY <1>1, <1>4, QuotientOf
<1>6. (NextSector + Count - 1) \div sectors = t
  <2> DEFINE r == sread + Count - 1
  <2>1. r \in 0 .. (sectors - 1)
    BY <1>1, <1>2
  <2>2. t * sectors \in Nat
    BY <1>1, <1>4
  <2>3. NextSector + Count - 1 = t * sectors + r
    BY <1>1, <1>2, <1>4, <2>2
  <2> HIDE DEF r, t
  <2> QED
    BY <1>1, <1>4, <2>1, <2>3, QuotientOf
<1> QED
  BY <1>1, <1>3, <1>5, <1>6 DEF SEGMENT

\* And the registers then tell where the next round continues.
LEMMA RegistersAdvance ==
  ASSUME BootInv, ReadTrack
  PROVE  Registers'
<1> SUFFICES ASSUME pc' = "read_it"
             PROVE  /\ es' \in SYSSEG .. INITSEG /\ bx' \in 0 .. (SEGMENT - 1)
                    /\ head' \in {0, 1} /\ track' \in Nat
                    /\ sread' \in 0 .. (sectors - 1)
                    /\ NextSector' = Block' + 1
  BY DEF Registers, ReadTrack, build
<1>1. /\ es \in 1 .. 9 /\ bx \in 0 .. 127 /\ sectors \in 2 .. 127
      /\ head \in {0, 1} /\ track \in Nat /\ sread \in 0 .. (sectors - 1)
      /\ NextSector = Block + 1 /\ sectors' = sectors
  BY DEF BootInv, Registers, SYSSEG, INITSEG, SEGMENT, ReadTrack, build
<1>2. Count \in Nat /\ Count >= 1 /\ Count <= sectors - sread /\ Count <= 128 - bx
  BY <1>1 DEF Count, SEGMENT
<1>3. Block + Count <= 1024
  BY <1>1, <1>2 DEF ReadTrack, Block, LoaderBlock, SEGMENT, INITSEG, SYSSEG
<1>4. /\ es' \in 1 .. 9 /\ bx' \in 0 .. 127
      /\ Block' = Block + Count
  BY <1>1, <1>2, <1>3 DEF ReadTrack, Block, SEGMENT, SYSSEG
<1>5. /\ head' \in {0, 1} /\ track' \in Nat /\ sread' \in 0 .. (sectors - 1)
      /\ NextSector' = NextSector + Count
  <2> DEFINE t == 2 * track + head
  <2>1. t \in Nat /\ t * sectors \in Nat /\ NextSector = t * sectors + sread
    BY <1>1 DEF NextSector
  <2>2. CASE sread + Count = sectors
    <3>1. sread' = 0 /\ head' = 1 - head /\ track' = IF head = 1 THEN track + 1 ELSE track
      BY <2>2 DEF ReadTrack, Advance
    <3>2. head' \in {0, 1} /\ track' \in Nat /\ 2 * track' + head' = t + 1
      BY <1>1, <3>1
    <3>3. NextSector' = (t + 1) * sectors
      BY <1>1, <3>1, <3>2 DEF NextSector
    <3>4. (t + 1) * sectors = t * sectors + sectors
      BY <1>1, <2>1, NextTrack
    <3> QED
      BY <1>1, <1>2, <2>1, <2>2, <3>1, <3>2, <3>3, <3>4
  <2>3. CASE sread + Count # sectors
    <3>1. sread' = sread + Count /\ head' = head /\ track' = track
      BY <2>3 DEF ReadTrack, Advance
    <3>2. NextSector' = t * sectors + sread + Count
      BY <1>1, <1>2, <2>1, <3>1 DEF NextSector
    <3> QED
      BY <1>1, <1>2, <2>1, <2>3, <3>1, <3>2
  <2> QED
    BY <2>2, <2>3
<1>6. NextSector' = Block' + 1
  <2>1. Block \in Int
    BY <1>1 DEF Block, SEGMENT, SYSSEG
  <2> QED
    BY <2>1, <1>1, <1>2, <1>4, <1>5
<1> QED
  BY <1>1, <1>4, <1>5, <1>6 DEF SYSSEG, INITSEG, SEGMENT

\* A loader that reads over itself has met an image that does not fit.
LEMMA LoaderLost ==
  ASSUME BootInv, ReadTrack, pc' = "lost"
  PROVE  ~Fits
<1>1. /\ es \in 1 .. 9 /\ bx \in 0 .. 127 /\ sectors \in 2 .. 127
      /\ sread \in 0 .. (sectors - 1)
  BY DEF BootInv, Registers, SYSSEG, INITSEG, SEGMENT, ReadTrack
<1>2. Count \in Nat /\ Count <= 128 - bx
  BY <1>1 DEF Count, SEGMENT
<1>3. Block + Count > 1024
  BY DEF ReadTrack, LoaderBlock, SEGMENT, INITSEG, SYSSEG
<1>4. es = 9
  BY <1>1, <1>2, <1>3 DEF Block, SEGMENT, SYSSEG
<1>5. ~(32768 > im_size)
  BY <1>4 DEF ReadTrack, AllRead, Paragraphs, SYSSEG, BootInv, SizePatched
<1> SUFFICES ASSUME Fits PROVE FALSE
  OBVIOUS
<1> DEFINE size == (system + user + 15) \div 16
<1>6. size \in Nat /\ size < 32768
  BY DEF Fits, Paragraphs, INITSEG, SYSSEG, BootInv
<1>7. im_size < 32768
  BY SMT, <1>6 DEF im_size
<1>8. im_size \in Int
  BY SMT, <1>6 DEF im_size
<1> QED
  BY <1>5, <1>7, <1>8

LEMMA NextBootInv == BootInv /\ [Next]_vars => BootInv'
<1> SUFFICES ASSUME BootInv, [Next]_vars PROVE BootInv'
  OBVIOUS
<1> USE DEF SizePatched, LoaderSurvives, Fits, im_size
<1>1. CASE WriteBootSector \/ WriteSystem \/ WriteUser
  BY <1>1 DEF WriteBootSector, WriteSystem, WriteUser, Write, die, BootInv, Registers,
              EverySectorInPlace, loader
<1>2. CASE PatchSizes
  BY <1>2 DEF PatchSizes, die, BootInv, Registers, EverySectorInPlace, loader
<1>3. CASE StartLoader
  BY <1>3 DEF StartLoader, BootInv, Registers, EverySectorInPlace, build,
              SYSSEG, INITSEG, SEGMENT, NextSector, Block
<1>4. CASE ReadTrack
  <2>1. Registers'
    BY <1>4, RegistersAdvance
  <2>2. /\ system' = system /\ user' = user /\ syssize' = syssize
        /\ sectors' = sectors /\ pc = "read_it" /\ pc' \in {"read_it", "lost"}
    BY <1>4 DEF ReadTrack, build
  <2>3. \A e \in loaded' \ loaded :
          e = [at |-> Block, sector |-> NextSector, count |-> Count]
    BY <1>4 DEF ReadTrack, read_track
  <2>4. EverySectorInPlace'
    BY <2>2, <2>3, ReadInPlace DEF BootInv, EverySectorInPlace
  <2>5. LoaderSurvives'
    BY <1>4, <2>2, LoaderLost
  <2> QED
    BY <2>1, <2>2, <2>4, <2>5 DEF BootInv
<1>5. CASE EnterKernel \/ MoveUser
  BY <1>5 DEF EnterKernel, MoveUser, copy_data, BootInv, Registers, EverySectorInPlace, loader, build
<1>6. CASE UNCHANGED vars
  BY <1>6 DEF vars, BootInv, Registers, EverySectorInPlace, NextSector, Block
<1> QED
  BY <1>1, <1>2, <1>3, <1>4, <1>5, <1>6 DEF Next

(***************************************************************************)
(* No read crosses a 64 kB boundary or the end of a track, and each sector *)
(* is put where the kernel was linked to find it.                          *)
(***************************************************************************)
THEOREM EverySectorIsInPlace == Spec => []EverySectorInPlace
<1>1. BootInv => EverySectorInPlace
  BY DEF BootInv
<1> QED
  BY <1>1, InitBootInv, NextBootInv, PTL DEF Spec

\* The loader reads whole segments, more than the image, but over itself only when the
\* image has a paragraph too many.
THEOREM LoaderAlwaysSurvives == Spec => []LoaderSurvives
<1>1. BootInv => LoaderSurvives
  BY DEF BootInv
<1> QED
  BY <1>1, InitBootInv, NextBootInv, PTL DEF Spec

(***************************************************************************)
(* Types: the patched words have the widths that build gives them, and the *)
(* registers of the loader stay in range until it has lost itself.         *)
(***************************************************************************)
LEMMA Widths ==
  \A n \in Nat : n % 2^16 \in 0 .. (2^16 - 1) /\ n % 2^24 \in 0 .. (2^24 - 1)
<1>1. \A n \in Nat : n % 2^16 \in 0 .. (2^16 - 1)
  BY SMT
<1>2. \A n \in Nat : n % 2^24 \in 0 .. (2^24 - 1)
  BY SMT
<1> QED
  BY <1>1, <1>2

LEMMA InitBootType == Init => BootTypeOK
<1> SUFFICES ASSUME Init PROVE BootTypeOK
  OBVIOUS
<1>1. 0 \in 0 .. (2^16 - 1) /\ 0 \in 0 .. (2^24 - 1)
  BY SMT
<1>2. system \in Nat /\ user \in Nat /\ sectors \in 2 .. (SEGMENT - 1) /\ MaxFailures \in Nat
  BY BootAssumption DEF Init
<1>3. sread \in 0 .. (sectors - 1) /\ failures \in 0 .. MaxFailures
  BY <1>2 DEF Init, SEGMENT
<1> QED
  BY <1>1, <1>2, <1>3 DEF Init, BootTypeOK, Phase, SYSSEG, SEGMENT

LEMMA ReadTypes ==
  ASSUME BootInv, BootTypeOK, ReadTrack
  PROVE  BootTypeOK'
<1>1. /\ es \in 1 .. 9 /\ bx \in 0 .. 127 /\ sectors \in 2 .. 127
      /\ head \in {0, 1} /\ track \in Nat /\ sread \in 0 .. (sectors - 1)
      /\ NextSector = Block + 1
  BY DEF BootInv, Registers, SYSSEG, INITSEG, SEGMENT, ReadTrack
<1>2. Count \in Nat /\ Count >= 1 /\ Count <= sectors - sread /\ Count <= 128 - bx
  BY <1>1 DEF Count, SEGMENT
<1>3. Block \in Nat /\ NextSector \in Nat
  BY <1>1 DEF Block, SEGMENT, SYSSEG
<1>4. /\ UNCHANGED <<system, user, syssize, p_sys_size, p_usr_size, sectors>>
      /\ pc' \in Phase
  BY DEF ReadTrack, build, Phase
<1>5. es' \in 0 .. 15 /\ bx' \in 0 .. (SEGMENT - 1)
  BY <1>1, <1>2 DEF ReadTrack, SEGMENT
<1>6. sread' \in 0 .. (sectors - 1) /\ head' \in {0, 1} /\ track' \in Nat
  BY <1>1, <1>2 DEF ReadTrack, Advance
<1>7. loaded' \subseteq Extent
  <2>1. [at |-> Block, sector |-> NextSector, count |-> Count] \in Extent
    BY <1>2, <1>3 DEF Extent
  <2> QED
    BY <2>1 DEF ReadTrack, read_track, BootTypeOK
<1>8. failures' \in 0 .. MaxFailures
  BY BootAssumption DEF ReadTrack, read_track, BootTypeOK
<1> QED
  BY <1>4, <1>5, <1>6, <1>7, <1>8 DEF BootTypeOK

LEMMA NextBootType == BootInv /\ BootTypeOK /\ [Next]_vars => BootTypeOK'
<1> SUFFICES ASSUME BootInv, BootTypeOK, [Next]_vars PROVE BootTypeOK'
  OBVIOUS
<1>1. CASE WriteBootSector \/ WriteSystem \/ WriteUser
  BY <1>1 DEF WriteBootSector, WriteSystem, WriteUser, Write, die, BootTypeOK, Phase, loader
<1>2. CASE PatchSizes
  <2>1. system + user + 15 \in Nat /\ SECTOR \in Nat
    BY DEF BootTypeOK, SECTOR
  <2>2. (system + user + 15) \div 16 \in Nat
    BY SMT, <2>1
  <2>3. /\ im_size \in 0 .. (2^16 - 1) /\ p_sys \in 0 .. (2^24 - 1)
        /\ user % 2^24 \in 0 .. (2^24 - 1)
    BY <2>2, Widths DEF im_size, p_sys, BootTypeOK
  <2>4. /\ syssize' \in {syssize, im_size} /\ p_sys_size' \in {p_sys_size, p_sys}
        /\ p_usr_size' \in {p_usr_size, user % 2^24} /\ pc' \in Phase
        /\ UNCHANGED <<system, user, sectors, es, bx, sread, head, track, loaded, failures>>
    BY <1>2 DEF PatchSizes, die, loader, Phase
  <2> QED
    BY <2>3, <2>4 DEF BootTypeOK
<1>3. CASE StartLoader
  <2>1. 1 \in 0 .. (sectors - 1)
    BY DEF BootTypeOK, SEGMENT
  <2> QED
    BY <1>3, <2>1 DEF StartLoader, build, BootTypeOK, Phase, SYSSEG, SEGMENT
<1>4. CASE ReadTrack
  BY <1>4, ReadTypes
<1>5. CASE EnterKernel \/ MoveUser
  BY <1>5 DEF EnterKernel, MoveUser, copy_data, BootTypeOK, Phase, loader, build
<1>6. CASE UNCHANGED vars
  BY <1>6 DEF vars, BootTypeOK
<1> QED
  BY <1>1, <1>2, <1>3, <1>4, <1>5, <1>6 DEF Next

\* The words that build patches keep their widths, and the loader's segment, offset
\* and place on the disk stay in range, for any files and disks, failed reads included.
THEOREM BootIsTyped == Spec => []BootTypeOK
<1>1. BootInv /\ BootTypeOK /\ [Next]_vars => (BootInv /\ BootTypeOK)'
  BY NextBootInv, NextBootType
<1> QED
  BY <1>1, InitBootInv, InitBootType, PTL DEF Spec

-----------------------------------------------------------------------------
(* The user part: what build writes, what it patches and what is loaded *)

Built == pc \notin {"bootsect", "system", "user", "died"}

Patched == Built /\ pc # "patch"

Part == [part : {"boot", "system", "user"}, length : Nat]

\* The parts are in the image in this order.
ImageInOrder ==
  /\ image \in Seq(Part)
  /\ pc = "bootsect" => Len(image) = 0
  /\ pc = "system" => Len(image) = 1
  /\ pc = "user" => Len(image) = 2
  /\ Built => Len(image) = 3
  /\ pc \notin {"died", "bootsect"} => image[1].length = SECTOR
  /\ pc \notin {"died", "bootsect", "system"} => image[2].length = system
  /\ Built => image[3].length = user

\* main finds both sizes as they were patched in.
SizesPatched == Patched => p_sys_size = p_sys /\ p_usr_size = user % 2^24

\* Without a failure, no block below the one that comes next has been left out.
NothingLeftOut ==
  pc = "read_it" /\ failures = 0 => \A block \in 0 .. (Block - 1) : Holds(block)

Blocks == (system + user + SECTOR - 1) \div SECTOR

\* In main, the image is in memory.
ImageLoaded ==
  pc \in {"main", "usr_main"} /\ Fits /\ failures = 0 =>
    \A block \in 0 .. (Blocks - 1) : Holds(block)

UserMoved == pc = "usr_main" => moved = [from |-> p_sys_size, length |-> p_usr_size]

ImageInv ==
  /\ ImageInOrder /\ SizesPatched /\ NothingLeftOut /\ ImageLoaded /\ UserMoved
  /\ failures \in Nat
  /\ ~Built \/ pc \in {"patch", "boot"} => loaded = {}

LEMMA InitImageInv == Init => ImageInv
BY DEF Init, ImageInv, ImageInOrder, SizesPatched, NothingLeftOut, ImageLoaded,
       UserMoved, Built, Patched

\* What a round of the loop reads follows what has been read.
LEMMA ReadContinues ==
  ASSUME BootInv, ReadTrack, ImageInv, pc' = "read_it", failures' = 0
  PROVE  \A block \in 0 .. (Block' - 1) : Holds(block)'
<1>1. /\ es \in 1 .. 9 /\ bx \in 0 .. 127 /\ sectors \in 2 .. 127
      /\ sread \in 0 .. (sectors - 1) /\ pc = "read_it"
  BY DEF BootInv, Registers, SYSSEG, INITSEG, SEGMENT, ReadTrack
<1>2. Count \in Nat /\ Count >= 1 /\ Count <= 128 - bx
  BY <1>1 DEF Count, SEGMENT
<1>3. Block + Count <= 1024
  BY <1>1, <1>2 DEF ReadTrack, Block, LoaderBlock, SEGMENT, INITSEG, SYSSEG
<1>4. Block' = Block + Count /\ Block \in Int
  BY <1>1, <1>2, <1>3 DEF ReadTrack, Block, SEGMENT, SYSSEG
<1>5. /\ failures = 0
      /\ loaded' = loaded \cup {[at |-> Block, sector |-> NextSector, count |-> Count]}
  BY DEF ReadTrack, read_track, ImageInv
<1>6. \A block \in 0 .. (Block - 1) : Holds(block)
  BY <1>1, <1>5 DEF ImageInv, NothingLeftOut
<1> SUFFICES ASSUME NEW block \in 0 .. (Block' - 1) PROVE Holds(block)'
  OBVIOUS
<1>7. CASE block < Block
  BY <1>4, <1>5, <1>6, <1>7 DEF Holds
<1>8. CASE block >= Block
  <2> DEFINE e == [at |-> Block, sector |-> NextSector, count |-> Count]
  <2>1. e \in loaded' /\ e.at = Block /\ e.count = Count
    BY <1>5
  <2>2. block \in Block .. (Block + Count - 1)
    BY <1>2, <1>4, <1>8
  <2> HIDE DEF e
  <2> QED
    BY <2>1, <2>2 DEF Holds
<1> QED
  BY <1>4, <1>7, <1>8

\* When the segment has passed the size, all of the image has been read.
LEMMA AllReadIsAll ==
  ASSUME BootInv, pc = "read_it", AllRead, Fits
  PROVE  Blocks <= Block /\ Blocks \in Int
<1>1. es \in 1 .. 9 /\ bx \in 0 .. 127 /\ system \in Nat /\ user \in Nat
  BY DEF BootInv, Registers, SYSSEG, INITSEG, SEGMENT
<1> DEFINE paragraphs == (system + user + 15) \div 16
<1>2. paragraphs \in Nat /\ paragraphs < 32768
  BY <1>1 DEF Fits, Paragraphs, INITSEG, SYSSEG
<1>3. im_size = paragraphs
  BY SMT, <1>2 DEF im_size
<1>4. 4096 * (es - 1) > paragraphs
  BY <1>3 DEF AllRead, Paragraphs, SYSSEG, BootInv, SizePatched
<1>5. Blocks \in Int /\ Blocks <= (es - 1) * 128
  BY SMT, <1>1, <1>4 DEF Blocks, SECTOR
<1> QED
  BY <1>1, <1>5 DEF Block, SEGMENT, SYSSEG

\* build writes the next part behind the others.
LEMMA PartAppended ==
  ASSUME image \in Seq(Part), NEW new \in Part, NEW n \in Nat, Len(image) = n,
         image' = Append(image, new)
  PROVE  /\ image' \in Seq(Part)
         /\ Len(image') = n + 1
         /\ \A i \in 1 .. n : image'[i] = image[i]
         /\ image'[n + 1] = new
BY AppendProperties

LEMMA NextImageInv == BootInv /\ ImageInv /\ [Next]_vars => ImageInv'
<1> SUFFICES ASSUME BootInv, ImageInv, [Next]_vars PROVE ImageInv'
  OBVIOUS
<1> USE DEF ImageInv, Built, Patched
<1>1. CASE WriteBootSector
  <2> DEFINE new == [part |-> "boot", length |-> SECTOR]
  <2>1. /\ pc = "bootsect" /\ system' = system /\ user' = user
        /\ \/ pc' = "system" /\ image' = Append(image, new)
           \/ pc' = "died" /\ image' = image
        /\ failures' = failures /\ loaded' = loaded
    BY <1>1 DEF WriteBootSector, Write, die, loader
  <2>2. new \in Part /\ new.length = SECTOR
    BY SMT DEF BootInv, Registers, SECTOR, Part
  <2>3. ASSUME pc' = "system" PROVE ImageInOrder'
    <3> HIDE DEF new
    <3>1. Len(image) = 0 /\ image' = Append(image, new) /\ image \in Seq(Part)
      BY <2>1, <2>3 DEF ImageInOrder
    <3>2. /\ image' \in Seq(Part) /\ Len(image') = 1 /\ image'[1] = new
      BY <2>2, <3>1, PartAppended
    <3> QED
      BY <2>1, <2>2, <2>3, <3>2 DEF ImageInOrder
  <2>4. ASSUME pc' = "died" PROVE ImageInOrder'
    BY <2>1, <2>4 DEF ImageInOrder
  <2> QED
    BY <2>1, <2>3, <2>4 DEF SizesPatched, NothingLeftOut, ImageLoaded, UserMoved
<1>2. CASE WriteSystem
  <2> DEFINE new == [part |-> "system", length |-> system]
  <2>1. /\ pc = "system" /\ system' = system /\ user' = user
        /\ \/ pc' = "user" /\ image' = Append(image, new)
           \/ pc' = "died" /\ image' = image
        /\ failures' = failures /\ loaded' = loaded
    BY <1>2 DEF WriteSystem, Write, die, loader
  <2>2. new \in Part /\ new.length = system
    BY SMT DEF BootInv, Registers, SECTOR, Part
  <2>3. ASSUME pc' = "user" PROVE ImageInOrder'
    <3> HIDE DEF new
    <3>1. Len(image) = 1 /\ image' = Append(image, new) /\ image \in Seq(Part)
      BY <2>1, <2>3 DEF ImageInOrder
    <3>2. /\ image' \in Seq(Part) /\ Len(image') = 2 /\ image'[2] = new
          /\ image'[1] = image[1]
      BY <2>2, <3>1, PartAppended
    <3> QED
      BY <2>1, <2>2, <2>3, <3>2 DEF ImageInOrder
  <2>4. ASSUME pc' = "died" PROVE ImageInOrder'
    BY <2>1, <2>4 DEF ImageInOrder
  <2> QED
    BY <2>1, <2>3, <2>4 DEF SizesPatched, NothingLeftOut, ImageLoaded, UserMoved
<1>3. CASE WriteUser
  <2> DEFINE new == [part |-> "user", length |-> user]
  <2>1. /\ pc = "user" /\ system' = system /\ user' = user
        /\ \/ pc' = "patch" /\ image' = Append(image, new)
           \/ pc' = "died" /\ image' = image
        /\ failures' = failures /\ loaded' = loaded
    BY <1>3 DEF WriteUser, Write, die, loader
  <2>2. new \in Part /\ new.length = user
    BY SMT DEF BootInv, Registers, SECTOR, Part
  <2>3. ASSUME pc' = "patch" PROVE ImageInOrder'
    <3> HIDE DEF new
    <3>1. Len(image) = 2 /\ image' = Append(image, new) /\ image \in Seq(Part)
      BY <2>1, <2>3 DEF ImageInOrder
    <3>2. /\ image' \in Seq(Part) /\ Len(image') = 3 /\ image'[3] = new
          /\ image'[1] = image[1] /\ image'[2] = image[2]
      BY <2>2, <3>1, PartAppended
    <3> QED
      BY <2>1, <2>2, <2>3, <3>2 DEF ImageInOrder
  <2>4. ASSUME pc' = "died" PROVE ImageInOrder'
    BY <2>1, <2>4 DEF ImageInOrder
  <2> QED
    BY <2>1, <2>3, <2>4 DEF SizesPatched, NothingLeftOut, ImageLoaded, UserMoved
<1>4. CASE PatchSizes
  <2>1. /\ pc = "patch" /\ pc' \in {"boot", "died"} /\ system' = system /\ user' = user
        /\ image' = image /\ failures' = failures /\ loaded' = loaded
    BY <1>4 DEF PatchSizes, die, loader
  <2>2. ImageInOrder'
    BY <2>1 DEF ImageInOrder
  <2>3. SizesPatched'
    BY <1>4, <2>1, SMT DEF PatchSizes, die, SizesPatched, p_sys
  <2>4. pc' = "boot" => loaded' = {}
    BY <2>1
  <2> QED
    BY <2>1, <2>2, <2>3, <2>4 DEF NothingLeftOut, ImageLoaded, UserMoved
<1>5. CASE StartLoader
  <2>1. ImageInOrder' /\ SizesPatched'
    BY <1>5 DEF StartLoader, build, p_sys, ImageInOrder, SizesPatched
  <2>2. NothingLeftOut' /\ ImageLoaded' /\ UserMoved'
    BY <1>5 DEF StartLoader, NothingLeftOut, ImageLoaded, UserMoved, Block, SYSSEG, SEGMENT
  <2> QED
    BY <1>5, <2>1, <2>2 DEF StartLoader
<1>6. CASE ReadTrack
  <2>1. /\ pc = "read_it" /\ pc' \in {"read_it", "lost"} /\ failures' \in Nat
        /\ moved' = moved
    BY <1>6 DEF ReadTrack, read_track
  <2>2. ImageInOrder' /\ SizesPatched'
    BY <1>6, <2>1 DEF ReadTrack, build, p_sys, ImageInOrder, SizesPatched
  <2>3. NothingLeftOut'
    BY <1>6, ReadContinues DEF NothingLeftOut
  <2> QED
    BY <2>1, <2>2, <2>3 DEF ImageLoaded, UserMoved
<1>7. CASE EnterKernel
  <2>1. /\ pc = "read_it" /\ pc' \in {"main", "nowhere"}
        /\ system' = system /\ user' = user /\ failures' = failures
        /\ loaded' = loaded /\ moved' = moved /\ AllRead
    BY <1>7 DEF EnterKernel, build, loader
  <2>2. ImageInOrder' /\ SizesPatched'
    BY <1>7, <2>1 DEF EnterKernel, build, p_sys, ImageInOrder, SizesPatched
  <2>3. ImageLoaded'
    <3> SUFFICES ASSUME Fits, failures = 0, NEW block \in 0 .. (Blocks - 1)
                 PROVE  Holds(block)
      BY <2>1 DEF ImageLoaded, Fits, Blocks, Holds
    <3>1. Blocks <= Block /\ Blocks \in Int
      BY <2>1, AllReadIsAll
    <3>2. Block \in Int
      BY <2>1 DEF BootInv, Registers, Block, SEGMENT, SYSSEG, INITSEG
    <3> QED
      BY <2>1, <3>1, <3>2 DEF NothingLeftOut
  <2> QED
    BY <2>1, <2>2, <2>3 DEF NothingLeftOut, UserMoved
<1>8. CASE MoveUser
  <2>1. /\ pc = "main" /\ pc' \in {"usr_main", "page fault"}
        /\ system' = system /\ user' = user /\ failures' = failures
        /\ loaded' = loaded /\ p_sys_size' = p_sys_size /\ p_usr_size' = p_usr_size
    BY <1>8 DEF MoveUser, copy_data, build, loader
  <2>2. ImageInOrder' /\ SizesPatched'
    BY <1>8, <2>1 DEF MoveUser, copy_data, build, p_sys, ImageInOrder, SizesPatched
  <2>3. ImageLoaded' /\ NothingLeftOut'
    BY <2>1 DEF ImageLoaded, NothingLeftOut, Fits, Blocks, Holds
  <2>4. UserMoved'
    BY <1>8, <2>1 DEF MoveUser, copy_data, UserMoved
  <2> QED
    BY <2>1, <2>2, <2>3, <2>4
<1>9. CASE UNCHANGED vars
  BY <1>9 DEF vars, ImageInOrder, SizesPatched, p_sys, NothingLeftOut, Block, Holds,
              ImageLoaded, Fits, Blocks, UserMoved
<1> QED
  BY <1>1, <1>2, <1>3, <1>4, <1>5, <1>6, <1>7, <1>8, <1>9 DEF Next

(***************************************************************************)
(* build, the loader and main agree, for every image that fits: what is    *)
(* moved to the user's pages is the user part, whole, and it was loaded.   *)
(***************************************************************************)
THEOREM UserAlwaysArrives == Spec => []UserArrives
<1>1. ASSUME BootInv, ImageInv PROVE UserArrives
  <2> SUFFICES ASSUME pc = "usr_main", Fits, failures = 0
               PROVE  /\ moved = [from |-> UserStart, length |-> image[3].length]
                      /\ \A block \in 0 .. (Blocks - 1) : Holds(block)
    BY DEF UserArrives, Blocks
  <2>1. system \in Nat /\ user \in Nat /\ system + user < 524288
    BY <1>1 DEF BootInv, Fits, Paragraphs, INITSEG, SYSSEG
  <2>2. p_sys_size = system /\ p_usr_size = user
    BY SMT, <1>1, <2>1 DEF ImageInv, SizesPatched, Patched, Built, p_sys
  <2>3. /\ image[1].length = SECTOR /\ image[2].length = system /\ image[3].length = user
    BY SMT, <1>1 DEF ImageInv, ImageInOrder, Built, SECTOR
  <2>4. UserStart = system
    BY <2>1, <2>3 DEF UserStart, SECTOR
  <2> QED
    BY <1>1, <2>2, <2>3, <2>4 DEF ImageInv, UserMoved, ImageLoaded
<1>2. Init => BootInv /\ ImageInv
  BY InitBootInv, InitImageInv
<1>3. BootInv /\ ImageInv /\ [Next]_vars => (BootInv /\ ImageInv)'
  BY NextBootInv, NextImageInv
<1> QED
  BY <1>1, <1>2, <1>3, PTL DEF Spec

=============================================================================
