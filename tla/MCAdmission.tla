---------------------------- MODULE MCAdmission ----------------------------
(* Instances of Admission: three calls of one parent and one of another.   *)
EXTENDS Admission

CONSTANTS c1, c2, c3, c4, p1, p2

MCParentOf == [c \in Call |-> IF c = c4 THEN p2 ELSE p1]

=============================================================================
