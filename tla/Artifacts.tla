----------------------------- MODULE Artifacts -----------------------------
(***************************************************************************)
(* What internal/storage/interface.go promises to the rest of the system:  *)
(* a key, once Put has returned it, names the complete bytes from then on, *)
(* however often the same bytes are put again.                             *)
(***************************************************************************)
CONSTANT Content     \* the byte strings; a key is a function of its bytes

VARIABLES stored,    \* contents that can be read back complete
          told       \* contents whose key was returned to somebody

vars == <<stored, told>>

Init == stored = {} /\ told = {}

(* Storing bytes and returning their key may be one step. *)
Store(c) ==
    /\ stored' = stored \cup {c}
    /\ told' \in {told, told \cup {c}}

Tell(c) ==
    /\ c \in stored
    /\ told' = told \cup {c}
    /\ UNCHANGED stored

Next == \E c \in Content : Store(c) \/ Tell(c)

Spec == Init /\ [][Next]_vars
=============================================================================
