--------------------------- MODULE MCSystemCalls ---------------------------
(***************************************************************************)
(* Instances of SystemCalls for TLC: the pages as in mm_address.h, a       *)
(* screen of two rows of three, and a buffer of two bytes.                 *)
(***************************************************************************)
EXTENDS SystemCalls

\* the kernel's last byte, the program's first and last ones, and the last of all
MCBuffers == {USER_FIRST_PAGE * PAGE_SIZE - 1, USER_FIRST_PAGE * PAGE_SIZE,
              PastDataPage * PAGE_SIZE - 1, WORD - 1}

a == 97
MCTexts == {<< >>, <<a, NewLine, a + 1>>, <<a, a + 1, a + 2, a + 3>>,
            <<a, a + 1, a + 2, a + 3, a + 4>>}
=============================================================================
