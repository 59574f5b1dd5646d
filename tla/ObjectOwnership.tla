-------------------------- MODULE ObjectOwnership --------------------------
(***************************************************************************)
(* What the claim model of spec 4.1 promises, whatever the search that     *)
(* picks the objects: each shared DRM object is free or held by one       *)
(* holder; a holder with nothing takes a set of free objects in one step,  *)
(* and gives up everything it holds in one step.  An object never passes   *)
(* directly from one holder to another, and no holder adds to what it     *)
(* already holds.                                                          *)
(***************************************************************************)
CONSTANTS
  Holders,   \* the displays that claim objects
  Objects,   \* the shared objects
  NoHolder   \* the owner of a free object

VARIABLE owner

Free == {o \in Objects : owner[o] = NoHolder}

Init == owner = [o \in Objects |-> NoHolder]

(* A holder that holds nothing takes the free objects S.                  *)
Acquire(h, S) ==
  /\ \A o \in Objects : owner[o] # h
  /\ S \subseteq Free
  /\ owner' = [o \in Objects |-> IF o \in S THEN h ELSE owner[o]]

(* A holder gives up everything it holds.                                 *)
ReleaseAll(h) ==
  owner' = [o \in Objects |-> IF owner[o] = h THEN NoHolder ELSE owner[o]]

Next == \E h \in Holders : (\E S \in SUBSET Objects : Acquire(h, S))
                           \/ ReleaseAll(h)

Spec == Init /\ [][Next]_owner

=============================================================================
