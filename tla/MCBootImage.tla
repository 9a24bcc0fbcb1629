---------------------------- MODULE MCBootImage ----------------------------
(***************************************************************************)
(* Instances of BootImage for TLC: sizes at the edges of segments.         *)
(***************************************************************************)
EXTENDS BootImage

kB == 1024
\* One byte, the ends of the first and the last segment, what just fits and one byte
\* more than that
MCSystemSizes == {1, 64 * kB - 16, 64 * kB, 200 * kB, 448 * kB,
                  2^19 - 4 * kB - 16, 2^19 - 4 * kB - 15}
MCUserSizes == {1, 4 * kB, 112 * kB, 112 * kB + 1}

=============================================================================
