-------------------------- MODULE AdmissionProofs --------------------------
(* Mutual exclusion and order of the admission, for any number of calls    *)
(* and parents.                                                            *)
EXTENDS Admission, TLAPS

USE AdmissionAssumption DEF Goto, Siblings, Came

LEMMA InitTypeOK == Init => TypeOK
BY DEF Init, TypeOK, Label

LEMMA NextTypeOK == TypeOK /\ [Next]_vars => TypeOK'
<1> SUFFICES ASSUME TypeOK, [Next]_vars PROVE TypeOK'
  OBVIOUS
<1> USE DEF TypeOK, Label
<1>1. ASSUME NEW c \in Call, Abort(c) PROVE TypeOK'
  BY <1>1 DEF Abort
<1>2. ASSUME NEW c \in Call, Refuse(c) PROVE TypeOK'
  BY <1>2 DEF Refuse
<1>3. ASSUME NEW c \in Call, Enqueue(c) PROVE TypeOK'
  BY <1>3 DEF Enqueue
<1>4. ASSUME NEW c \in Call, Called(c) PROVE TypeOK'
  BY <1>4 DEF Called, TurnCame
<1>5. ASSUME NEW c \in Call, Grant(c) PROVE TypeOK'
  BY <1>5 DEF Grant
<1>6. ASSUME NEW c \in Call, Cancel(c) PROVE TypeOK'
  BY <1>6 DEF Cancel
<1>7. ASSUME NEW c \in Call, Release(c) PROVE TypeOK'
  BY <1>7 DEF Release
<1>8. ASSUME NEW c \in Call, Settle(c) PROVE TypeOK'
  BY <1>8 DEF Settle, TurnCame
<1>9. ASSUME NEW c \in Call, Cleanup(c) PROVE TypeOK'
  BY <1>9 DEF Cleanup
<1>10. CASE UNCHANGED vars
  BY <1>10 DEF vars
<1> QED
  BY <1>1, <1>2, <1>3, <1>4, <1>5, <1>6, <1>7, <1>8, <1>9, <1>10 DEF Next

\* Every variable keeps its type; a tail is settled by calls that are through.
THEOREM TypeCorrect == Spec => []TypeOK
BY InitTypeOK, NextTypeOK, PTL DEF Spec

-----------------------------------------------------------------------------
(* The chain *)

\* A call's own promise is resolved when the call is through.
Through == released = {c \in Call : pc[c] \in {"cancelled", "done", "gone"}}

\* The calls of a parent that came are in an order, and a tail settles only
\* after the tails of all calls before it.
OrderBy(c, d) ==
  /\ d \in before[c] => c \in Came /\ d \in Came /\ ParentOf[d] = ParentOf[c] /\ c \notin before[d]
  /\ c \in Came /\ d \in Came /\ ParentOf[c] = ParentOf[d] => c = d \/ d \in before[c] \/ c \in before[d]
  /\ d \in before[c] => before[d] \subseteq before[c]
  /\ d \in before[c] /\ c \in settled => d \in settled

\* A call waits for the last call before it whose tail was still in the map.
PreviousBy(c) ==
  /\ c \in Came /\ previous[c] = NoCall => before[c] \subseteq settled
  /\ previous[c] # NoCall =>
       previous[c] \in before[c] /\ before[c] \subseteq before[previous[c]] \cup {previous[c]}
  /\ pc[c] \in {"called", "holding"} => before[c] \subseteq settled

\* The map names the last call of a parent, or all tails are settled.
TailBy(p) ==
  /\ tails[p] = NoCall => \A c \in Came : ParentOf[c] = p => c \in settled
  /\ tails[p] # NoCall =>
       /\ ParentOf[tails[p]] = p /\ tails[p] \in Came /\ pc[tails[p]] # "gone"
       /\ \A c \in Came : ParentOf[c] = p => c = tails[p] \/ c \in before[tails[p]]

ChainInv ==
  /\ Through
  /\ \A c, d \in Call : OrderBy(c, d)
  /\ \A c \in Call : PreviousBy(c)
  /\ \A p \in Parent : TailBy(p)

LEMMA InitChainInv == Init => ChainInv
BY DEF Init, ChainInv, Through, OrderBy, PreviousBy, TailBy

LEMMA NextThrough == TypeOK /\ Through /\ [Next]_vars => Through'
<1> SUFFICES ASSUME TypeOK, Through, [Next]_vars PROVE Through'
  OBVIOUS
<1> USE DEF TypeOK, Through
<1>1. ASSUME NEW c \in Call, Abort(c) PROVE Through'
  BY <1>1 DEF Abort
<1>2. ASSUME NEW c \in Call, Refuse(c) PROVE Through'
  BY <1>2 DEF Refuse
<1>3. ASSUME NEW c \in Call, Enqueue(c) PROVE Through'
  BY <1>3 DEF Enqueue
<1>4. ASSUME NEW c \in Call, Called(c) PROVE Through'
  BY <1>4 DEF Called, TurnCame
<1>5. ASSUME NEW c \in Call, Grant(c) PROVE Through'
  BY <1>5 DEF Grant
<1>6. ASSUME NEW c \in Call, Cancel(c) PROVE Through'
  BY <1>6 DEF Cancel
<1>7. ASSUME NEW c \in Call, Release(c) PROVE Through'
  BY <1>7 DEF Release
<1>8. ASSUME NEW c \in Call, Settle(c) PROVE Through'
  BY <1>8 DEF Settle, TurnCame
<1>9. ASSUME NEW c \in Call, Cleanup(c) PROVE Through'
  BY <1>9 DEF Cleanup
<1>10. CASE UNCHANGED vars
  BY <1>10 DEF vars
<1> QED
  BY <1>1, <1>2, <1>3, <1>4, <1>5, <1>6, <1>7, <1>8, <1>9, <1>10 DEF Next

LEMMA NextOrder ==
  TypeOK /\ ChainInv /\ [Next]_vars => \A a, b \in Call : OrderBy(a, b)'
<1> SUFFICES ASSUME TypeOK, ChainInv, [Next]_vars, NEW a \in Call, NEW b \in Call
             PROVE  OrderBy(a, b)'
  OBVIOUS
<1> USE DEF TypeOK, ChainInv, OrderBy, PreviousBy, Through
<1>1. ASSUME NEW c \in Call, Abort(c) PROVE OrderBy(a, b)'
  BY <1>1 DEF Abort
<1>2. ASSUME NEW c \in Call, Refuse(c) PROVE OrderBy(a, b)'
  BY <1>2 DEF Refuse
<1>3. ASSUME NEW c \in Call, Enqueue(c) PROVE OrderBy(a, b)'
  BY <1>3 DEF Enqueue
<1>4. ASSUME NEW c \in Call, Called(c) PROVE OrderBy(a, b)'
  BY <1>4 DEF Called, TurnCame
<1>5. ASSUME NEW c \in Call, Grant(c) PROVE OrderBy(a, b)'
  BY <1>5 DEF Grant
<1>6. ASSUME NEW c \in Call, Cancel(c) PROVE OrderBy(a, b)'
  BY <1>6 DEF Cancel
<1>7. ASSUME NEW c \in Call, Release(c) PROVE OrderBy(a, b)'
  BY <1>7 DEF Release
<1>8. ASSUME NEW c \in Call, Settle(c) PROVE OrderBy(a, b)'
  BY <1>8 DEF Settle, TurnCame
<1>9. ASSUME NEW c \in Call, Cleanup(c) PROVE OrderBy(a, b)'
  BY <1>9 DEF Cleanup
<1>10. CASE UNCHANGED vars
  BY <1>10 DEF vars
<1> QED
  BY <1>1, <1>2, <1>3, <1>4, <1>5, <1>6, <1>7, <1>8, <1>9, <1>10 DEF Next

LEMMA NextPrevious ==
  TypeOK /\ ChainInv /\ [Next]_vars => \A a \in Call : PreviousBy(a)'
<1> SUFFICES ASSUME TypeOK, ChainInv, [Next]_vars, NEW a \in Call PROVE PreviousBy(a)'
  OBVIOUS
<1> USE DEF TypeOK, ChainInv, OrderBy, PreviousBy, TailBy
<1>1. ASSUME NEW c \in Call, Abort(c) PROVE PreviousBy(a)'
  BY <1>1 DEF Abort
<1>2. ASSUME NEW c \in Call, Refuse(c) PROVE PreviousBy(a)'
  BY <1>2 DEF Refuse
<1>3. ASSUME NEW c \in Call, Enqueue(c) PROVE PreviousBy(a)'
  BY <1>3 DEF Enqueue
<1>4. ASSUME NEW c \in Call, Called(c) PROVE PreviousBy(a)'
  BY <1>4 DEF Called, TurnCame
<1>5. ASSUME NEW c \in Call, Grant(c) PROVE PreviousBy(a)'
  BY <1>5 DEF Grant
<1>6. ASSUME NEW c \in Call, Cancel(c) PROVE PreviousBy(a)'
  BY <1>6 DEF Cancel
<1>7. ASSUME NEW c \in Call, Release(c) PROVE PreviousBy(a)'
  BY <1>7 DEF Release
<1>8. ASSUME NEW c \in Call, Settle(c) PROVE PreviousBy(a)'
  BY <1>8 DEF Settle, TurnCame
<1>9. ASSUME NEW c \in Call, Cleanup(c) PROVE PreviousBy(a)'
  BY <1>9 DEF Cleanup
<1>10. CASE UNCHANGED vars
  BY <1>10 DEF vars
<1> QED
  BY <1>1, <1>2, <1>3, <1>4, <1>5, <1>6, <1>7, <1>8, <1>9, <1>10 DEF Next

LEMMA NextTail ==
  TypeOK /\ ChainInv /\ [Next]_vars => \A p \in Parent : TailBy(p)'
<1> SUFFICES ASSUME TypeOK, ChainInv, [Next]_vars, NEW p \in Parent PROVE TailBy(p)'
  OBVIOUS
<1> USE DEF TypeOK, ChainInv, OrderBy, TailBy, Through
<1>1. ASSUME NEW c \in Call, Abort(c) PROVE TailBy(p)'
  BY <1>1 DEF Abort
<1>2. ASSUME NEW c \in Call, Refuse(c) PROVE TailBy(p)'
  BY <1>2 DEF Refuse
<1>3. ASSUME NEW c \in Call, Enqueue(c) PROVE TailBy(p)'
  BY <1>3 DEF Enqueue
<1>4. ASSUME NEW c \in Call, Called(c) PROVE TailBy(p)'
  BY <1>4 DEF Called, TurnCame
<1>5. ASSUME NEW c \in Call, Grant(c) PROVE TailBy(p)'
  BY <1>5 DEF Grant
<1>6. ASSUME NEW c \in Call, Cancel(c) PROVE TailBy(p)'
  BY <1>6 DEF Cancel
<1>7. ASSUME NEW c \in Call, Release(c) PROVE TailBy(p)'
  BY <1>7 DEF Release
<1>8. ASSUME NEW c \in Call, Settle(c) PROVE TailBy(p)'
  BY <1>8 DEF Settle, TurnCame
<1>9. ASSUME NEW c \in Call, Cleanup(c) PROVE TailBy(p)'
  BY <1>9 DEF Cleanup
<1>10. CASE UNCHANGED vars
  BY <1>10 DEF vars
<1> QED
  BY <1>1, <1>2, <1>3, <1>4, <1>5, <1>6, <1>7, <1>8, <1>9, <1>10 DEF Next

LEMMA NextChainInv == TypeOK /\ ChainInv /\ [Next]_vars => ChainInv'
<1>1. TypeOK /\ ChainInv /\ [Next]_vars => Through'
  BY NextThrough DEF ChainInv
<1> QED  BY <1>1, NextOrder, NextPrevious, NextTail, Zenon DEF ChainInv

\* At most one call of a parent holds the lease.
THEOREM LeaseExclusive == Spec => []OneHolder
<1>1. TypeOK /\ ChainInv => OneHolder
  <2> SUFFICES ASSUME TypeOK, ChainInv, NEW c \in Call, NEW d \in Call, ParentOf[c] = ParentOf[d],
                      pc[c] = "holding", pc[d] = "holding", d \in before[c]
               PROVE  FALSE
    BY DEF OneHolder, ChainInv, OrderBy
  <2>1. d \in released
    BY DEF ChainInv, PreviousBy, TypeOK
  <2> QED  BY <2>1 DEF ChainInv, Through
<1> QED
  BY <1>1, InitTypeOK, NextTypeOK, InitChainInv, NextChainInv, PTL DEF Spec

\* The lease goes in the order of the calls.
THEOREM LeaseInOrder == Spec => Fifo
<1> DEFINE Safe(c) == pc[c] # "holding" /\ pc'[c] = "holding" =>
                        \A d \in before[c] : pc[d] \in {"done", "cancelled", "gone"}
<1>1. TypeOK /\ ChainInv /\ [Next]_vars => [\A c \in Call : Safe(c)]_vars
  <2> SUFFICES ASSUME TypeOK, ChainInv, Next, NEW a \in Call, pc[a] # "holding", pc'[a] = "holding"
               PROVE  \A d \in before[a] : pc[d] \in {"done", "cancelled", "gone"}
    OBVIOUS
  <2>1. pc[a] = "called"
    BY DEF TypeOK, Next, Abort, Refuse, Enqueue, Called, Grant, Cancel, Release, Settle, Cleanup
  <2>2. before[a] \subseteq released
    BY <2>1 DEF ChainInv, PreviousBy, TypeOK
  <2> QED  BY <2>2 DEF ChainInv, Through
<1> QED
  BY <1>1, InitTypeOK, NextTypeOK, InitChainInv, NextChainInv, PTL DEF Spec, Fifo

\* A parent's entry never names a call that is gone.
THEOREM TailsFresh == Spec => []NoStaleTail
<1>1. ChainInv => NoStaleTail
  BY DEF ChainInv, TailBy, NoStaleTail
<1> QED
  BY <1>1, InitTypeOK, NextTypeOK, InitChainInv, NextChainInv, PTL DEF Spec

-----------------------------------------------------------------------------
(* The refinement *)

\* Where the calls are after a step, and in the line.
LEMMA LineMove ==
  ASSUME TypeOK, NEW c \in Call, NEW label \in Label, pc' = [pc EXCEPT ![c] = label]
  PROVE  /\ \A d \in Call : pc'[d] = IF d = c THEN label ELSE pc[d]
         /\ InLine' = IF label \in {"waiting", "called", "holding"} THEN InLine \cup {c}
                      ELSE InLine \ {c}
BY DEF TypeOK, InLine

\* A call that stays in the line, or stays out of it, leaves the line as it is.
LEMMA LineStays ==
  ASSUME TypeOK, NEW c \in Call, NEW label \in Label, pc' = [pc EXCEPT ![c] = label],
         label \in {"waiting", "called", "holding"} <=> c \in InLine
  PROVE  InLine' = InLine
<1>1. CASE label \in {"waiting", "called", "holding"}
  <2>1. InLine' = InLine \cup {c}
    BY <1>1, LineMove
  <2> QED  BY <1>1, <2>1
<1>2. CASE label \notin {"waiting", "called", "holding"}
  <2>1. InLine' = InLine \ {c}
    BY <1>2, LineMove
  <2> QED  BY <1>2, <2>1
<1> QED  BY <1>1, <1>2

\* The first steps of a call, and its end, keep or change its place in line.
LEMMA InitLease == Init => Lease!Init
BY DEF Init, Lease!Init, Place, InLine

LEMMA StepLease ==
  ASSUME TypeOK, ChainInv, Next
  PROVE  Lease!Next \/ UNCHANGED Lease!vars
<1> USE DEF Label
<1>1. ASSUME NEW c \in Call, Abort(c) \/ Settle(c) PROVE UNCHANGED Lease!vars
  <2>1. pc' = pc /\ before' = before
    BY <1>1 DEF Abort, Settle
  <2> QED  BY <2>1 DEF Lease!vars, InLine
<1>2. ASSUME NEW c \in Call, Called(c) PROVE UNCHANGED Lease!vars
  <2>0. pc' = [pc EXCEPT ![c] = "called"] /\ pc[c] = "waiting"
    BY <1>2 DEF Called
  <2>1. InLine' = InLine /\ \A d \in Call : Place(pc'[d]) = Place(pc[d])
    <3>0. c \in InLine
      BY <2>0 DEF InLine
    <3>1. InLine' = InLine
      BY <2>0, <3>0, LineStays
    <3> QED  BY <2>0, <3>1 DEF Place, TypeOK
  <2> QED  BY <1>2, <2>1 DEF Called, Lease!vars
<1>3. ASSUME NEW c \in Call, Cleanup(c) PROVE UNCHANGED Lease!vars
  <2>0. pc' = [pc EXCEPT ![c] = "gone"] /\ pc[c] \in {"done", "cancelled"}
    BY <1>3 DEF Cleanup
  <2>1. InLine' = InLine /\ \A d \in Call : Place(pc'[d]) = Place(pc[d])
    <3>0. c \notin InLine
      BY <2>0 DEF InLine
    <3>1. InLine' = InLine
      BY <2>0, <3>0, LineStays
    <3> QED  BY <2>0, <3>1 DEF Place, TypeOK
  <2> QED  BY <1>3, <2>1 DEF Cleanup, Lease!vars
<1>4. ASSUME NEW c \in Call, Enqueue(c) PROVE Lease!Join(c)
  <2>1. /\ InLine' = InLine \cup {c} /\ c \notin InLine /\ Place(pc[c]) = "new"
        /\ \A d \in Call : Place(pc'[d]) = IF d = c THEN "waiting" ELSE Place(pc[d])
    <3>1. pc' = [pc EXCEPT ![c] = "waiting"] /\ pc[c] = "idle"
      BY <1>4 DEF Enqueue
    <3>2. InLine' = InLine \cup {c} /\ c \notin InLine
      <4>1. c \notin InLine
        BY <3>1 DEF InLine
      <4>2. InLine' = InLine \cup {c}
        BY <3>1, LineMove
      <4> QED  BY <4>1, <4>2
    <3> QED  BY <3>1, <3>2 DEF Place, TypeOK
  <2>2. \A d \in Call : before[d] \subseteq Came /\ (d # c => c \notin before[d])
    BY <1>4 DEF Enqueue, ChainInv, OrderBy, TypeOK
  <2>3. /\ \A d \in Call \ {c} : before'[d] \cap InLine' = before[d] \cap InLine
        /\ before'[c] \cap InLine' = {d \in InLine : ParentOf[d] = ParentOf[c]}
    BY <1>4, <2>1, <2>2 DEF Enqueue, TypeOK, InLine
  <2>4. Lease!InLine = InLine
    BY DEF Lease!InLine, Place, InLine, TypeOK
  <2> QED  BY <2>1, <2>3, <2>4 DEF Lease!Join
<1>5. ASSUME NEW c \in Call, Grant(c) PROVE Lease!Grant(c)
  <2>1. /\ InLine' = InLine /\ Place(pc[c]) = "waiting"
        /\ \A d \in Call : Place(pc'[d]) = IF d = c THEN "holding" ELSE Place(pc[d])
    <3>1. pc' = [pc EXCEPT ![c] = "holding"] /\ pc[c] = "called"
      BY <1>5 DEF Grant
    <3>0. c \in InLine
      BY <3>1 DEF InLine
    <3>2. InLine' = InLine
      BY <3>0, <3>1, LineStays
    <3> QED  BY <3>1, <3>2 DEF Place, TypeOK
  <2>2. before[c] \cap InLine = {}
    BY <1>5 DEF Grant, ChainInv, PreviousBy, Through, TypeOK, InLine
  <2> QED  BY <1>5, <2>1, <2>2 DEF Lease!Grant, Grant
<1>6. ASSUME NEW c \in Call, Refuse(c) \/ Cancel(c) \/ Release(c) PROVE Lease!Leave(c)
  <2>1. /\ InLine' = InLine \ {c} /\ Place(pc[c]) # "left" /\ before' = before
        /\ \A d \in Call : Place(pc'[d]) = IF d = c THEN "left" ELSE Place(pc[d])
    <3>1. PICK label \in {"refused", "cancelled", "done"} : pc' = [pc EXCEPT ![c] = label]
      BY <1>6 DEF Refuse, Cancel, Release
    <3>2. pc[c] \in {"idle", "waiting", "called", "holding"} /\ before' = before
      BY <1>6 DEF Refuse, Cancel, Release
    <3>3. InLine' = InLine \ {c}
      BY <3>1, LineMove
    <3> QED  BY <3>1, <3>2, <3>3 DEF Place, TypeOK
  <2> QED  BY <2>1 DEF Lease!Leave
<1> QED
  BY <1>1, <1>2, <1>3, <1>4, <1>5, <1>6 DEF Next, Lease!Next

\* Each step of the chain of promises is a step of the line of callers, or none.
THEOREM LeaseImplemented == Spec => Lease!Spec
<1>1. TypeOK /\ ChainInv /\ [Next]_vars => [Lease!Next]_(Lease!vars)
  <2>1. CASE Next
    BY <2>1, StepLease
  <2>2. CASE UNCHANGED vars
    BY <2>2 DEF vars, Lease!vars, Place, InLine
  <2> QED  BY <2>1, <2>2
<1> QED
  BY <1>1, InitLease, InitTypeOK, NextTypeOK, InitChainInv, NextChainInv, PTL DEF Spec, Lease!Spec

=============================================================================
