------------------------------ MODULE Keyboard ------------------------------
(***************************************************************************)
(* The keyboard driver of project/Project/interrupt.c: an interrupt for    *)
(* each key that goes down or up, and keyboard_state, by characters, from  *)
(* which GetKeyboardState copies.  The index is a char, which is signed:   *)
(* for a character above 127 the driver writes up to 95 bytes in front of  *)
(* the array, to memory that is not modelled.                              *)
(***************************************************************************)
EXTENDS UserAccess

CONSTANTS
  Key,        \* keys with a character in char_map
  char_map,   \* the character of each key; several keys may share one
  HighChars   \* the characters above 127: the accented ones of char_map

VARIABLES
  held,            \* the keys that are down: not known to the kernel
  keyboard_state   \* the characters it takes to be down

Char == {char_map[key] : key \in Key}

initKeyboardState == held = {} /\ keyboard_state = {}

\* whether the key went down is taken from the wrong bit
keyboard_routineMutant(key, make) ==
  keyboard_state' = IF make THEN keyboard_state \cup ({char_map[key]} \ HighChars)
                            ELSE keyboard_state

\* bit 7 of the scan code tells whether the key went down
keyboard_routine(key, make) ==
  LET entry == {char_map[key]} \ HighChars IN
  keyboard_state' = IF make THEN keyboard_state \cup entry ELSE keyboard_state \ entry

KeyInterrupt(key) ==
  /\ held' = IF key \in held THEN held \ {key} ELSE held \cup {key}
  /\ keyboard_routine(key, key \notin held)

\* what a buffer of 256 bytes at addr that held old holds after the call: the
\* kernel refuses a buffer that is not in the code or the data of the program
sys_GetKeyboardState(addr, old) ==
  IF access_ok(VERIFY_WRITE, addr, 256) THEN keyboard_state ELSE old

Shared(char) == \E k, l \in Key : k # l /\ char_map[k] = char /\ char_map[l] = char

\* After any sequence of keys going up and down, no character is reported down
\* unless a key of it is, and one that a single key has is reported whenever it is,
\* if it is not a high one: those never are.  Of a character that keys share, one key
\* going up hides that another is down.
KeysTracked ==
  \A char \in Char :
    LET down == \E key \in held : char_map[key] = char IN
    /\ char \in keyboard_state => down /\ char \notin HighChars
    /\ down /\ ~Shared(char) /\ char \notin HighChars => char \in keyboard_state

=============================================================================
