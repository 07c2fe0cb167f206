----------------------------- MODULE MCFairLock -----------------------------
(* An instance of FairLock for TLC: two reflections and a deduplication, which waits
   for longer, its id between theirs. *)
EXTENDS FairLock

MCTimeout == [c \in Clients |-> IF c \in Reflectors THEN 0 ELSE 2]

=============================================================================
