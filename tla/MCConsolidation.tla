-------------------------- MODULE MCConsolidation --------------------------
(* Instances of Consolidation for TLC. *)
EXTENDS Consolidation, TLC

CONSTANTS p1, p2, d1, d2, s1

MCTwo == d1 :> p1 @@ d2 :> p2

\* What a dream has read and will not use again is forgotten: states that
\* differ in it only are the same.  Of the stamp of a dream that has ended only
\* whether it is still on the lock counts (in MCTwo nobody else writes it), and
\* only for a dream that must give its lock up; the starts of the completed
\* dreams count until a stale stamp is taken over.
RollingBack == {"throwRead", "throwWrite", "rollRead", "rollWrite"}
Releasing == {"relRead", "relWrite"}
Ended(a) ==
  IF a \in Dream \cap Fragile THEN "end"
  ELSE <<pc[a], a \in Dream /\ pc[a] = "end" /\ lock = Stamp(a)>>
Live(a) ==
  <<IF pc[a] \in {"end", "dead"} THEN Ended(a) ELSE pc[a],
    IF a \in Saver \/ pc[a] \in Idle THEN <<>>
    ELSE <<at[a],
           IF pc[a] \in RollingBack THEN <<>> ELSE <<served[a], late[a]>>,
           IF pc[a] = "readEpoch" THEN forced[a] ELSE 0,
           IF pc[a] \in (Holding \ Releasing) \cup {"acqWrite", "acqVerify"} THEN prior[a] ELSE 0>>,
    IF pc[a] \in MarkerWriting THEN keep[a] ELSE <<>>,
    IF pc[a] \in LockWriting \cup MarkerWriting THEN <<stale[a], blind[a]>> ELSE <<>>>>
MCView == <<now, files, inflight, [a \in Actor |-> Live(a)],
            IF reclaimed THEN <<>> ELSE completed, reclaimed>>
=============================================================================
