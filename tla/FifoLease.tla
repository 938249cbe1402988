----------------------------- MODULE FifoLease -----------------------------
(***************************************************************************)
(* What the admission of spawns and continuations promises the callers of  *)
(* one parent session: a line.  A call joins its end, the first in line    *)
(* gets the lease, and a call may leave the line from any place.  There is *)
(* no map and no promise here; the module Admission implements it.         *)
(***************************************************************************)
CONSTANTS
  Call,      \* those who want the lease
  Parent,    \* one lease for each parent
  ParentOf   \* whose lease a call wants

VARIABLES
  place,  \* new, waiting, holding, or left
  ahead   \* who is in line in front of a call

vars == <<place, ahead>>

InLine == {c \in Call : place[c] \in {"waiting", "holding"}}

Init == place = [c \in Call |-> "new"] /\ ahead = [c \in Call |-> {}]

Join(c) ==
  /\ place[c] = "new" /\ place' = [place EXCEPT ![c] = "waiting"]
  /\ ahead' = [ahead EXCEPT ![c] = {d \in InLine : ParentOf[d] = ParentOf[c]}]

Grant(c) ==
  /\ place[c] = "waiting" /\ ahead[c] = {}
  /\ place' = [place EXCEPT ![c] = "holding"] /\ UNCHANGED ahead

Leave(c) ==
  /\ place[c] # "left" /\ place' = [place EXCEPT ![c] = "left"]
  /\ ahead' = [d \in Call |-> ahead[d] \ {c}]

Next == \E c \in Call : Join(c) \/ Grant(c) \/ Leave(c)

Spec == Init /\ [][Next]_vars

\* The first in line is served, and whoever has the lease gives it back.
FairSpec ==
  /\ Spec
  /\ \A c \in Call : WF_vars(Grant(c)) /\ WF_vars(place[c] = "holding" /\ Leave(c))
=============================================================================
