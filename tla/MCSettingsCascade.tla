------------------------- MODULE MCSettingsCascade -------------------------
(* Instances of SettingsCascade: two keys, a good value, one the schema      *)
(* refuses, and an array.  Callers clear the key that both the user and a    *)
(* higher layer set, so that the first clears it and the next finds nothing  *)
(* to do; others set the other key, in the user's file to a value that does  *)
(* not validate, on the higher layer to the array.                           *)
EXTENDS SettingsCascade

CONSTANTS n1, n2, k1, k2, good, bad, arr, w1, w2

Patches == {[k \in {k1} |-> Absent]}

Sec(S) == [k \in Key |-> IF k \in S THEN good ELSE Absent]
Doc(S) == [n \in Namespace |-> Sec(S)]
Files == {[l \in Layer |-> Doc({k1})]}

OneReport == {"event"}
BothReports == {"event", "poll"}
Set(l, k, v) == [layer |-> l, ns |-> n1, key |-> k, value |-> v]
Edits == {Set("user", k2, bad), Set("upper", k2, arr)}
GoodEdits == {Set("user", k2, good)}

=============================================================================
