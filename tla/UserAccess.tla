----------------------------- MODULE UserAccess -----------------------------
(***************************************************************************)
(* Which addresses of a program the kernel agrees to read or write for it: *)
(* access_ok of project/Project/utils.c, with the pages of mm_address.h.   *)
(***************************************************************************)
EXTENDS Integers

CONSTANTS
  PAGE_SIZE,
  USER_FIRST_PAGE,   \* the pages below are the kernel's
  NUM_PAG_CODE,
  NUM_PAG_DATA,
  WORD               \* addresses are taken modulo WORD: 2^32

ASSUME AccessAssumption ==
  /\ PAGE_SIZE \in Nat \ {0}
  /\ USER_FIRST_PAGE \in Nat
  /\ NUM_PAG_CODE \in Nat /\ NUM_PAG_DATA \in Nat
  /\ WORD \in Nat \ {0}

VERIFY_READ == 0
VERIFY_WRITE == 1

FirstDataPage == USER_FIRST_PAGE + NUM_PAG_CODE
PastDataPage == FirstDataPage + NUM_PAG_DATA

Page(addr) == addr \div PAGE_SIZE

(***************************************************************************)
(* The case for VERIFY_WRITE has no break: what is not data goes on to the *)
(* test for reading.  addr_fin is the page of the first byte behind the    *)
(* block, and PastDataPage the first one behind the data.                  *)
(***************************************************************************)
access_ok(type, addr, size) ==
  LET addr_ini == Page(addr)
      addr_fin == Page((addr + size) % WORD)
  IN /\ addr_fin >= addr_ini
     /\ \/ /\ type = VERIFY_WRITE
           /\ addr_ini >= FirstDataPage
           /\ addr_fin <= PastDataPage
        \/ /\ addr_ini >= USER_FIRST_PAGE
           /\ addr_fin <= PastDataPage

\* the pages a block of memory touches
Touched(addr, size) == IF size = 0 THEN {} ELSE Page(addr) .. Page(addr + size - 1)

\* the pages a program may read; init_task1 and clone map all of them
UserPages == USER_FIRST_PAGE .. PastDataPage - 1

=============================================================================
