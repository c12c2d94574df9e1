------------------------------- MODULE Vault -------------------------------
(***************************************************************************)
(* What sealing promises about a folder's memory, whatever the files and   *)
(* the order they are written in: there is a plaintext and a protected     *)
(* copy, records move between them, and a copy of a record is given up     *)
(* only while the other one exists.  Only the host takes a record away.    *)
(***************************************************************************)
CONSTANTS Records, Erasable

VARIABLES plain, cipher

vars == <<plain, cipher>>

Init == plain = {} /\ cipher = {}

Remember(r) ==
    /\ r \notin plain \cup cipher
    /\ plain' = plain \cup {r}
    /\ UNCHANGED cipher

Protect(R) ==
    /\ R \subseteq plain
    /\ cipher' = cipher \cup R
    /\ UNCHANGED plain

Shed(R) ==
    /\ R \subseteq plain \cap cipher
    /\ plain' = plain \ R
    /\ UNCHANGED cipher

Restore(R) ==
    /\ R \subseteq cipher
    /\ plain' = plain \cup R
    /\ UNCHANGED cipher

Release(R) ==
    /\ R \subseteq plain \cap cipher
    /\ cipher' = cipher \ R
    /\ UNCHANGED plain

Erase(R) ==
    /\ R \subseteq (plain \cap Erasable) \ cipher
    /\ plain' = plain \ R
    /\ UNCHANGED cipher

Next ==
    \/ \E r \in Records : Remember(r)
    \/ \E R \in SUBSET Records :
          Protect(R) \/ Shed(R) \/ Restore(R) \/ Release(R) \/ Erase(R)

Spec == Init /\ [][Next]_vars
=============================================================================
