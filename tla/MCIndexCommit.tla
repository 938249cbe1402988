--------------------------- MODULE MCIndexCommit ---------------------------
(* Instances of IndexCommit for TLC. *)
EXTENDS IndexCommit

CONSTANTS s1, s2, s3, r1, r2, t1, t2

MCWithinNone == {}
\* "t1.md" is the end of "t2.md", as in profile.md and user-profile.md.
MCWithinSuffix == {<<t1, t2>>}

\* The locals of a commit are gone when it has ended: states that differ in
\* them only are the same.
Live(w) ==
  IF Ended(w) THEN <<pc[w], IF pc[w] = "conflict" THEN foreign[w] ELSE 0>>
  ELSE <<pc[w], batch[w], names[w], fresh[w], content[w], round[w], moved[w],
         foreign[w], IF w \in Rewriter THEN <<seen[w], base[w]>> ELSE <<>>>>
MCView == <<index, files, pressure, [w \in Writer |-> Live(w)]>>
=============================================================================
