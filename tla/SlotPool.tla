------------------------------ MODULE SlotPool ------------------------------
(***************************************************************************)
(* What scanSem promises (src/api/server.go, the comment over scanSem and  *)
(* the one over releaseSlot): a pool of Cap slots.  A client takes a slot   *)
(* only while fewer than Cap are taken, gives back the slot it holds        *)
(* exactly once, and the death of the server process empties the pool.     *)
(* UploadAdmission implements this specification.                          *)
(***************************************************************************)
EXTENDS Naturals, FiniteSets

CONSTANTS Clients,      \* whoever can hold a slot
          Cap           \* the number of slots

VARIABLE holders        \* the clients that hold a slot

Init == holders = {}

Acquire(c) == /\ c \notin holders
              /\ Cardinality(holders) < Cap
              /\ holders' = holders \cup {c}

Release(c) == /\ c \in holders
              /\ holders' = holders \ {c}

Reset == holders' = {}

Next == \/ \E c \in Clients : Acquire(c) \/ Release(c)
        \/ Reset

Spec == Init /\ [][Next]_holders
=============================================================================
