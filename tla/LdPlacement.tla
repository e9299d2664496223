----------------------------- MODULE LdPlacement -----------------------------
(***************************************************************************)
(* What the placement of the linker promises, without regions and chains:  *)
(* sections with an origin go there, in the order they are given; the      *)
(* others go, the largest first, to the lowest address with enough room;   *)
(* and the linker gives up only when there is none.                        *)
(*                                                                         *)
(* Linker implements it for the inputs that keep its chain whole.          *)
(***************************************************************************)
EXTENDS Integers, Sequences

CONSTANT MaxAddr

VARIABLES
  entries,      (* the sections: records with fixed, origin and size       *)
  place,        (* the address of a section, -1 while it has none          *)
  outcome       (* "placing" or "failed"                                   *)

vars == <<entries, place, outcome>>

Bytes(e) == place[e] .. place[e] + entries[e].size - 1

Used == UNION {Bytes(e) : e \in {e \in DOMAIN entries : place[e] # -1}}

(* A section of no bytes still needs a free byte to start at.              *)
Room(e, a) ==
  /\ a + entries[e].size <= MaxAddr /\ a < MaxAddr
  /\ a \notin Used
  /\ Used \cap (a .. a + entries[e].size - 1) = {}

Waiting(fixed) ==
  {e \in DOMAIN entries : /\ entries[e].fixed = fixed
                          /\ place[e] = -1
                          /\ fixed \/ entries[e].size > 0}

NextFixed(e) ==
  e \in Waiting(TRUE) /\ \A f \in Waiting(TRUE) : e <= f

NextMovable(e) ==
  /\ Waiting(TRUE) = {}
  /\ e \in Waiting(FALSE)
  /\ \A f \in Waiting(FALSE) :
       \/ entries[f].size < entries[e].size
       \/ entries[f].size = entries[e].size /\ e <= f

Lowest(e, a) == Room(e, a) /\ \A b \in 0 .. a - 1 : ~Room(e, b)

Put(e, a) == place' = [place EXCEPT ![e] = a] /\ UNCHANGED <<entries, outcome>>

PlaceFixed(e) ==
  NextFixed(e) /\ Room(e, entries[e].origin) /\ Put(e, entries[e].origin)

PlaceMovable(e) ==
  /\ NextMovable(e)
  /\ \E a \in 0 .. MaxAddr : Lowest(e, a) /\ Put(e, a)

GiveUp(e) ==
  /\ \/ NextFixed(e) /\ ~Room(e, entries[e].origin)
     \/ NextMovable(e) /\ \A a \in 0 .. MaxAddr : ~Room(e, a)
  /\ outcome' = "failed"
  /\ UNCHANGED <<entries, place>>

Init ==
  /\ place = [e \in DOMAIN entries |-> -1]
  /\ outcome = "placing"

Next ==
  /\ outcome = "placing"
  /\ \E e \in DOMAIN entries : PlaceFixed(e) \/ PlaceMovable(e) \/ GiveUp(e)

Spec == Init /\ [][Next]_vars

=============================================================================
