------------------------- MODULE IndexCommitProofs -------------------------
(* Invariants and action properties of IndexCommit, for every set of       *)
(* topics and writers, every number of rounds and every cap.               *)
EXTENDS IndexCommit, FiniteSetTheorems, TLAPS

USE CommitAssumption DEF Writer, Desc

-----------------------------------------------------------------------------
(* What a builder makes of a document *)

Additions(w, doc) == PointerAdditions(doc, base[w], seen[w])

\* A write-back keeps some of the model's lines and all of the additions.
LEMMA RewriteShape ==
  ASSUME NEW w \in Rewriter, NEW doc, NEW new \in Built(w, doc)
  PROVE  /\ ~(Cardinality(Additions(w, doc)) > Cap)
         /\ \E kept \in SUBSET Pointers(base[w]) :
              /\ new = MergeIndex(kept, base[w], doc, Additions(w, doc))
              /\ \/ Cardinality(kept) + Cardinality(Additions(w, doc)) <= Cap
                 \/ Cardinality(kept) <= Cap - Cardinality(Additions(w, doc))
<1> DEFINE A == Additions(w, doc)
<1>1. w \notin Saver
  OBVIOUS
<1>2. new \in IF Cardinality(A) > Cap THEN {} ELSE Carved(base[w], doc, A)
  BY <1>1, Zenon DEF Built, BuiltFrom, Additions
<1> HIDE DEF A
<1>3. ~(Cardinality(A) > Cap) /\ new \in Carved(base[w], doc, A)
  BY <1>2
<1>4. QED  BY <1>3 DEF Carved, A

\* Every document a writer builds is an index.
LEMMA BuiltType ==
  ASSUME TypeOK, NEW w \in Writer, NEW doc \in Index, NEW new \in Built(w, doc)
  PROVE  new \in Index
<1>1. CASE w \in Saver
  <2>1. new \in {Upsert(doc, t, w) : t \in {u \in names[w] : SaveAccepted(w, doc, u)}}
    BY <1>1, Zenon DEF Built, BuiltFrom
  <2>2. PICK t \in names[w] : new = Upsert(doc, t, w)
    BY <2>1
  <2> QED  BY <1>1, <2>2 DEF Upsert, TypeOK, Index, Desc
<1>2. CASE w \in Rewriter
  <2>1. PICK kept \in SUBSET Pointers(base[w]) :
           new = MergeIndex(kept, base[w], doc, Additions(w, doc))
    BY <1>2, RewriteShape
  <2>2. base[w] \in Index
    BY <1>2 DEF TypeOK
  <2> QED  BY <2>1, <2>2 DEF MergeIndex, Index
<1> QED  BY <1>1, <1>2

\* It points to nothing but what the old index, the batch or the rewrite names.
LEMMA BuiltPointers ==
  ASSUME TypeOK, NEW w \in Writer, NEW doc \in Index, NEW new \in Built(w, doc)
  PROVE  Pointers(new) \subseteq
           Pointers(doc) \cup (IF w \in Saver THEN names[w] ELSE Pointers(base[w]))
<1>1. CASE w \in Saver
  BY <1>1 DEF Built, BuiltFrom, Upsert, TypeOK, Index, Pointers
<1>2. CASE w \in Rewriter
  <2>1. PICK kept \in SUBSET Pointers(base[w]) :
           new = MergeIndex(kept, base[w], doc, Additions(w, doc))
    BY <1>2, RewriteShape
  <2> QED  BY <1>2, <2>1 DEF MergeIndex, Additions, PointerAdditions, Pointers
<1> QED  BY <1>1, <1>2

-----------------------------------------------------------------------------
(* Types *)

\* A writer that is not through with its commit has a round left.
RoundLeft ==
  \A w \in Writer : pc[w] \in {"idle", "forked"} \cup Committing => round[w] < Attempts

TypeInv == TypeOK /\ RoundLeft

LEMMA InitTypeInv == Init => TypeInv
<1> SUFFICES ASSUME Init PROVE TypeInv
  OBVIOUS
<1>1. index \in Index
  BY DEF Init, Index
<1>2. Empty \in Index
  BY DEF Empty, Index
<1>3. seen \in [Rewriter -> Index] /\ base \in [Rewriter -> Index]
  BY <1>2 DEF Init
<1>4. fresh \in [Writer -> Index] /\ content \in [Writer -> Index]
  BY <1>2 DEF Init
<1>5. /\ batch \in [Writer -> SUBSET Topic] /\ names \in [Writer -> SUBSET Topic]
      /\ round \in [Writer -> 0..Attempts] /\ foreign \in [Writer -> 0..Attempts]
      /\ pc \in [Writer -> Label] /\ files \in SUBSET Topic
  BY DEF Init, Label
<1>6. pressure \in BOOLEAN /\ moved \in [Writer -> BOOLEAN]
  BY DEF Init
<1>7. RoundLeft
  BY DEF Init, RoundLeft
<1> QED
  BY <1>1, <1>3, <1>4, <1>5, <1>6, <1>7 DEF TypeInv, TypeOK

LEMMA NextTypeInv == TypeInv /\ [Next]_vars => TypeInv'
<1> SUFFICES ASSUME TypeInv, [Next]_vars PROVE TypeInv'
  OBVIOUS
<1> USE DEF TypeInv, TypeOK, RoundLeft, Goto, locals, history
<1>1. ASSUME NEW s \in Saver, NEW t \in Topic, StartSave(s, t) PROVE TypeInv'
  BY <1>1 DEF StartSave, Label, Committing
<1>2. ASSUME NEW r \in Rewriter, Dispatch(r) PROVE TypeInv'
  <2>1. \A doc \in Baselines : doc \in Index
    BY DEF Baselines, Restricted, Index
  <2> QED  BY <1>2, <2>1 DEF Dispatch, Label, Committing
<1>3. ASSUME NEW r \in Rewriter, Report(r) PROVE TypeInv'
  <2>1. \A own : Rewrites(r, own) \subseteq Index
    BY DEF Rewrites, Index
  <2> QED  BY <1>3, <2>1 DEF Report, Label, Committing
<1>4. ASSUME NEW r \in Rewriter, Killed(r) PROVE TypeInv'
  BY <1>4 DEF Killed, Label, Committing
<1>5. ASSUME NEW w \in Writer, Read(w) PROVE TypeInv'
  <2>1. \A doc \in Built(w, index) : doc \in Index
    BY BuiltType
  <2> QED  BY <1>5, <2>1 DEF Read, Label, Committing
<1>6. ASSUME NEW w \in Writer, WriteTopic(w) PROVE TypeInv'
  BY <1>6 DEF WriteTopic
<1>7. ASSUME NEW w \in Writer, Verify(w) PROVE TypeInv'
  BY <1>7 DEF Verify, NextRound, Label, Committing
<1>8. ASSUME NEW w \in Writer, WriteIndex(w) PROVE TypeInv'
  BY <1>8 DEF WriteIndex, Label, Committing
<1>9. ASSUME NEW w \in Writer, ReadBack(w) PROVE TypeInv'
  BY <1>9 DEF ReadBack, NextRound, Label, Committing
<1>10. ASSUME NEW w \in Writer, Arm(w) PROVE TypeInv'
  <2>1. pressure' \in BOOLEAN
    BY <1>10, Zenon DEF Arm
  <2> QED  BY <1>10, <2>1 DEF Arm, Label, Committing
<1>11. ASSUME NEW w \in Writer, EndPlain(w) PROVE TypeInv'
  BY <1>11 DEF EndPlain, Label, Committing
<1>12. ASSUME NEW w \in Writer, Fail(w) PROVE TypeInv'
  BY <1>12 DEF Fail, Label, Committing
<1>13. CASE UNCHANGED vars
  BY <1>13 DEF vars
<1> QED
  BY <1>1, <1>2, <1>3, <1>4, <1>5, <1>6, <1>7, <1>8, <1>9, <1>10, <1>11, <1>12, <1>13
  DEF Next, Step

\* Every variable keeps its type in every behaviour.
THEOREM TypeCorrect == Spec => []TypeOK
<1>1. TypeInv => TypeOK
  BY DEF TypeInv
<1> QED  BY <1>1, InitTypeInv, NextTypeInv, PTL DEF Spec

-----------------------------------------------------------------------------
(* Conflicts *)

\* Each round used up is paid for by a foreign change, and so is the round
\* under way once the index is not what the round read or wrote.
ConflictBy(w) ==
  /\ pc[w] \in {"idle", "forked"} => round[w] = 0
  /\ pc[w] \in Committing => foreign[w] >= round[w]
  /\ pc[w] \in {"topics", "write"} /\ index # fresh[w] => foreign[w] > round[w]
  /\ pc[w] = "readback" /\ index # content[w] => foreign[w] > round[w]
  /\ pc[w] = "conflict" => foreign[w] >= Attempts

ConflictInv == \A w \in Writer : ConflictBy(w)

LEMMA NextConflictInv ==
  TypeInv /\ ConflictInv /\ [Next]_vars => ConflictInv'
<1> SUFFICES ASSUME TypeInv, ConflictInv, [Next]_vars PROVE ConflictInv'
  OBVIOUS
<1> USE DEF TypeInv, TypeOK, ConflictInv, ConflictBy, Goto, locals, history, Committing
<1>1. ASSUME NEW s \in Saver, NEW t \in Topic, StartSave(s, t) PROVE ConflictInv'
  BY <1>1 DEF StartSave
<1>2. ASSUME NEW r \in Rewriter, Dispatch(r) PROVE ConflictInv'
  BY <1>2 DEF Dispatch
<1>3. ASSUME NEW r \in Rewriter, Report(r) PROVE ConflictInv'
  BY <1>3 DEF Report
<1>4. ASSUME NEW r \in Rewriter, Killed(r) PROVE ConflictInv'
  BY <1>4 DEF Killed
<1>5. ASSUME NEW w \in Writer, Read(w) PROVE ConflictInv'
  BY <1>5 DEF Read
<1>6. ASSUME NEW w \in Writer, WriteTopic(w) PROVE ConflictInv'
  BY <1>6 DEF WriteTopic
<1>7. ASSUME NEW w \in Writer, Verify(w) PROVE ConflictInv'
  BY <1>7 DEF Verify, NextRound
<1>8. ASSUME NEW w \in Writer, WriteIndex(w) PROVE ConflictInv'
  <2>1. /\ pc'[w] = "readback" /\ index' = content'[w]
        /\ foreign'[w] = foreign[w] /\ round' = round /\ pc[w] = "write"
    BY <1>8 DEF WriteIndex
  <2>2. ASSUME NEW v \in Writer, v # w
        PROVE  /\ pc'[v] = pc[v] /\ fresh'[v] = fresh[v] /\ content'[v] = content[v]
               /\ foreign'[v] >= foreign[v]
               /\ pc[v] \in Committing /\ index' # index => foreign'[v] > round[v]
    <3>1. /\ pc'[v] = pc[v] /\ fresh' = fresh /\ content' = content
          /\ foreign'[v] = IF /\ pc[v] \in Committing /\ index' # index
                              /\ foreign[v] < Attempts
                           THEN foreign[v] + 1 ELSE foreign[v]
      BY <1>8, <2>2 DEF WriteIndex
    <3>2. /\ foreign[v] \in Nat /\ round[v] \in Nat /\ Attempts \in Nat
          /\ pc[v] \in Committing => foreign[v] >= round[v] /\ round[v] < Attempts
      BY DEF RoundLeft
    <3> QED  BY <3>1, <3>2
  <2>3. ASSUME NEW v \in Writer, v # w PROVE ConflictBy(v)'
    <3>1. ConflictBy(v) /\ round'[v] = round[v]
      BY <2>1
    <3>2. /\ foreign[v] \in Nat /\ foreign'[v] \in Nat /\ round[v] \in Nat
      BY <1>8 DEF WriteIndex
    <3> QED  BY <2>2, <2>3, <3>1, <3>2
  <2>4. ConflictBy(w)'
    BY <2>1
  <2> QED  BY <2>3, <2>4
<1>9. ASSUME NEW w \in Writer, ReadBack(w) PROVE ConflictInv'
  BY <1>9 DEF ReadBack, NextRound
<1>10. ASSUME NEW w \in Writer, Arm(w) PROVE ConflictInv'
  BY <1>10 DEF Arm
<1>11. ASSUME NEW w \in Writer, EndPlain(w) PROVE ConflictInv'
  BY <1>11 DEF EndPlain
<1>12. ASSUME NEW w \in Writer, Fail(w) PROVE ConflictInv'
  BY <1>12 DEF Fail
<1>13. CASE UNCHANGED vars
  BY <1>13 DEF vars
<1> QED
  BY <1>1, <1>2, <1>3, <1>4, <1>5, <1>6, <1>7, <1>8, <1>9, <1>10, <1>11, <1>12, <1>13
  DEF Next, Step

\* A commit ends in a conflict only when others changed the index in each of
\* its rounds.
THEOREM ConflictNeedsOthers == Spec => []ConflictIsForeign
<1>1. Init => ConflictInv
  BY DEF Init, ConflictInv, ConflictBy, Committing
<1>2. ConflictInv => ConflictIsForeign
  BY DEF ConflictInv, ConflictBy, ConflictIsForeign
<1> QED
  BY <1>1, <1>2, InitTypeInv, NextTypeInv, NextConflictInv, PTL DEF Spec

-----------------------------------------------------------------------------
(* Dangling pointers *)

\* The model's rewrite may point to its own batch, a content under way to what
\* is left of the batch, and the index only to what is written.
DanglingInv ==
  /\ Pointers(index) \subseteq files
  /\ \A r \in Rewriter :
       /\ Pointers(seen[r]) \subseteq files
       /\ pc[r] \in Committing => Pointers(base[r]) \subseteq files \cup names[r]
  /\ \A w \in Writer :
       /\ pc[w] = "topics" => Pointers(content[w]) \subseteq files \cup batch[w]
       /\ pc[w] = "write" => Pointers(content[w]) \subseteq files

LEMMA NextDanglingInv ==
  TypeInv /\ DanglingInv /\ [Next]_vars => DanglingInv'
<1> SUFFICES ASSUME TypeInv, DanglingInv, [Next]_vars PROVE DanglingInv'
  OBVIOUS
<1> USE DEF TypeInv, TypeOK, DanglingInv, Goto, locals, history, Committing
<1>1. ASSUME NEW s \in Saver, NEW t \in Topic, StartSave(s, t) PROVE DanglingInv'
  BY <1>1 DEF StartSave, Pointers
<1>2. ASSUME NEW r \in Rewriter, Dispatch(r) PROVE DanglingInv'
  <2>1. \A doc \in Baselines : Pointers(doc) \subseteq files
    BY DEF Baselines, Restricted, Pointers
  <2> QED  BY <1>2, <2>1 DEF Dispatch, Pointers
<1>3. ASSUME NEW r \in Rewriter, Report(r) PROVE DanglingInv'
  <2>1. \A own : \A doc \in Rewrites(r, own) : Pointers(doc) \subseteq files \cup own
    BY DEF Rewrites, Pointers
  <2> QED  BY <1>3, <2>1 DEF Report, Pointers
<1>4. ASSUME NEW r \in Rewriter, Killed(r) PROVE DanglingInv'
  BY <1>4 DEF Killed, Pointers
<1>5. ASSUME NEW w \in Writer, Read(w) PROVE DanglingInv'
  <2>1. ASSUME NEW doc \in Built(w, index)
        PROVE  Pointers(doc) \subseteq files \cup names[w]
    BY <1>5, <2>1, BuiltPointers DEF Read
  <2> QED  BY <1>5, <2>1 DEF Read, Pointers
<1>6. ASSUME NEW w \in Writer, WriteTopic(w) PROVE DanglingInv'
  BY <1>6 DEF WriteTopic, Pointers
<1>7. ASSUME NEW w \in Writer, Verify(w) PROVE DanglingInv'
  BY <1>7 DEF Verify, NextRound, Pointers
<1>8. ASSUME NEW w \in Writer, WriteIndex(w) PROVE DanglingInv'
  BY <1>8 DEF WriteIndex, Pointers
<1>9. ASSUME NEW w \in Writer, ReadBack(w) PROVE DanglingInv'
  BY <1>9 DEF ReadBack, NextRound, Pointers
<1>10. ASSUME NEW w \in Writer, Arm(w) PROVE DanglingInv'
  BY <1>10 DEF Arm, Pointers
<1>11. ASSUME NEW w \in Writer, EndPlain(w) PROVE DanglingInv'
  BY <1>11 DEF EndPlain, Pointers
<1>12. ASSUME NEW w \in Writer, Fail(w) PROVE DanglingInv'
  BY <1>12 DEF Fail, Pointers
<1>13. CASE UNCHANGED vars
  BY <1>13 DEF vars, Pointers
<1> QED
  BY <1>1, <1>2, <1>3, <1>4, <1>5, <1>6, <1>7, <1>8, <1>9, <1>10, <1>11, <1>12, <1>13
  DEF Next, Step

\* The index points to files that exist only, in every state.
THEOREM PointersExist == Spec => []NoDanglingPointer
<1>1. Init => DanglingInv
  BY DEF Init, DanglingInv, Pointers, Empty, Committing
<1>2. DanglingInv => NoDanglingPointer
  BY DEF DanglingInv, NoDanglingPointer
<1> QED
  BY <1>1, <1>2, InitTypeInv, NextTypeInv, NextDanglingInv, PTL DEF Spec

-----------------------------------------------------------------------------
(* Lost updates *)

\* What a writer is about to write was built from what it read, and that is
\* still the index unless another wrote it since the verify.
BuiltBy(w) ==
  /\ pc[w] \in {"topics", "write"} => content[w] \in Built(w, fresh[w])
  /\ pc[w] = "write" /\ ~moved[w] => index = fresh[w]

BuiltInv == \A w \in Writer : BuiltBy(w)

LEMMA NextBuiltInv ==
  TypeInv /\ BuiltInv /\ [Next]_vars => BuiltInv'
<1> SUFFICES ASSUME TypeInv, BuiltInv, [Next]_vars, NEW v \in Writer
             PROVE  BuiltBy(v)'
  BY DEF BuiltInv
<1>0. BuiltBy(v)
  BY DEF BuiltInv
<1> USE DEF TypeInv, TypeOK, Goto, locals, history, BuiltBy, Built
<1>1. ASSUME NEW s \in Saver, NEW t \in Topic, StartSave(s, t) PROVE BuiltBy(v)'
  BY <1>0, <1>1 DEF StartSave
<1>2. ASSUME NEW r \in Rewriter, Dispatch(r) PROVE BuiltBy(v)'
  BY <1>0, <1>2 DEF Dispatch
<1>3. ASSUME NEW r \in Rewriter, Report(r) PROVE BuiltBy(v)'
  <2>1. CASE v = r
    BY <1>3, <2>1 DEF Report
  <2>2. CASE v # r
    <3>1. /\ names'[v] = names[v] /\ pc'[v] = pc[v] /\ seen' = seen
          /\ fresh' = fresh /\ content' = content /\ index' = index /\ moved' = moved
      BY <1>3, <2>2 DEF Report
    <3>2. CASE v \in Saver
      BY <1>0, <3>1, <3>2 DEF BuiltFrom
    <3>3. CASE v \in Rewriter
      <4>1. base'[v] = base[v]
        BY <1>3, <2>2, <3>3 DEF Report
      <4> QED  BY <1>0, <3>1, <4>1
    <3> QED  BY <3>2, <3>3
  <2> QED  BY <2>1, <2>2
<1>4. ASSUME NEW r \in Rewriter, Killed(r) PROVE BuiltBy(v)'
  BY <1>0, <1>4 DEF Killed
<1>5. ASSUME NEW w \in Writer, Read(w) PROVE BuiltBy(v)'
  BY <1>0, <1>5 DEF Read
<1>6. ASSUME NEW w \in Writer, WriteTopic(w) PROVE BuiltBy(v)'
  BY <1>0, <1>6 DEF WriteTopic
<1>7. ASSUME NEW w \in Writer, Verify(w) PROVE BuiltBy(v)'
  BY <1>0, <1>7 DEF Verify, NextRound
<1>8. ASSUME NEW w \in Writer, WriteIndex(w) PROVE BuiltBy(v)'
  BY <1>0, <1>8 DEF WriteIndex
<1>9. ASSUME NEW w \in Writer, ReadBack(w) PROVE BuiltBy(v)'
  BY <1>0, <1>9 DEF ReadBack, NextRound
<1>10. ASSUME NEW w \in Writer, Arm(w) PROVE BuiltBy(v)'
  BY <1>0, <1>10 DEF Arm
<1>11. ASSUME NEW w \in Writer, EndPlain(w) PROVE BuiltBy(v)'
  BY <1>0, <1>11 DEF EndPlain
<1>12. ASSUME NEW w \in Writer, Fail(w) PROVE BuiltBy(v)'
  BY <1>0, <1>12 DEF Fail
<1>13. CASE UNCHANGED vars
  BY <1>0, <1>13 DEF vars
<1> QED
  BY <1>1, <1>2, <1>3, <1>4, <1>5, <1>6, <1>7, <1>8, <1>9, <1>10, <1>11, <1>12, <1>13
  DEF Next, Step

LEMMA BuiltAlways == Spec => [](TypeInv /\ BuiltInv)
<1>1. Init => BuiltInv
  BY DEF Init, BuiltInv, BuiltBy
<1> QED  BY <1>1, InitTypeInv, NextTypeInv, NextBuiltInv, PTL DEF Spec

\* What an index write makes of the index when nobody slipped in.
LEMMA WriteEffect ==
  ASSUME TypeInv, BuiltInv, [Next]_vars, NEW w \in Writer, Writes(w), ~moved[w]
  PROVE  index \in Index /\ index' \in Built(w, index)
<1> USE DEF TypeInv, TypeOK, Goto, locals, history, Writes
<1>1. index' = content[w]
  <2>1. ASSUME NEW x \in Writer, NEW label, label # "readback", Goto(x, label)
        PROVE  FALSE
    BY <2>1
  <2>2. ASSUME NEW x \in Writer PROVE ~Verify(x) /\ ~ReadBack(x)
    BY <2>1 DEF Verify, ReadBack, NextRound
  <2>3. ASSUME NEW x \in Writer PROVE ~Read(x) /\ ~WriteTopic(x) /\ ~Arm(x) /\ ~EndPlain(x)
    <3>1. ~Read(x)
      BY <2>1 DEF Read
    <3>2. ~WriteTopic(x)
      BY DEF WriteTopic
    <3>3. ~Arm(x) /\ ~EndPlain(x)
      <4>1. Arm(x) => Goto(x, "rejected") \/ Goto(x, "done")
        BY Zenon DEF Arm
      <4> QED  BY <2>1, <4>1 DEF EndPlain
    <3> QED  BY <3>1, <3>2, <3>3
  <2>4. ASSUME NEW x \in Writer PROVE ~Fail(x)
    BY <2>1 DEF Fail
  <2>5. ASSUME NEW r \in Rewriter PROVE ~Dispatch(r) /\ ~Report(r) /\ ~Killed(r)
    BY <2>1 DEF Dispatch, Report, Killed
  <2>6. ASSUME NEW s \in Saver, NEW t \in Topic PROVE ~StartSave(s, t)
    BY <2>1 DEF StartSave
  <2>7. PICK x \in Writer : WriteIndex(x)
    BY <2>2, <2>3, <2>4, <2>5, <2>6 DEF Next, Step, vars
  <2>8. x = w
    BY <2>7 DEF WriteIndex
  <2> QED  BY <2>7, <2>8 DEF WriteIndex
<1> QED  BY <1>1 DEF BuiltInv, BuiltBy

\* With no file name the end of another, a pointer is lost or changed only by
\* its own topic's save, by a rewrite that was shown or names it, or in the
\* window between a verify and its write.
THEOREM LossNeedsWindow == ASSUME Within = {} PROVE Spec => OnlyWindowLoses
<1>1. ASSUME TypeInv, BuiltInv, [Next]_vars, NEW w \in Writer, NEW t \in Pointers(index),
             Writes(w), ~moved[w], index'[t] # index[t]
      PROVE  IF w \in Saver THEN t \in names[w]
             ELSE t \in Pointers(seen[w]) \cup Pointers(base[w])
  <2>1. index \in Index /\ index' \in Built(w, index)
    BY <1>1, WriteEffect
  <2>2. CASE w \in Saver
    BY <1>1, <2>1, <2>2 DEF Built, BuiltFrom, Upsert, Index, Pointers
  <2>3. CASE w \in Rewriter
    <3>1. PICK kept \in SUBSET Pointers(base[w]) :
             index' = MergeIndex(kept, base[w], index, Additions(w, index))
      BY <2>1, <2>3, RewriteShape
    <3>2. t \notin Additions(w, index)
      BY <1>1, <3>1 DEF MergeIndex, Pointers
    <3>3. Mentions(base[w], t) \/ Mentions(seen[w], t)
      BY <1>1, <3>2 DEF Additions, PointerAdditions
    <3> QED  BY <2>3, <3>3 DEF Mentions
  <2> QED  BY <2>2, <2>3
<1>2. TypeInv /\ BuiltInv /\ [Next]_vars =>
        [\A w \in Writer, t \in Pointers(index) :
           Writes(w) /\ ~moved[w] /\ index'[t] # index[t] =>
             IF w \in Saver THEN t \in names[w]
             ELSE t \in Pointers(seen[w]) \cup Pointers(base[w])]_vars
  BY <1>1
<1> QED  BY <1>2, BuiltAlways, PTL DEF Spec, OnlyWindowLoses

\* A write brings back no pointer outside that window: it adds its own topic,
\* or what the rewrite names.
THEOREM NothingComesBack == Spec => NoResurrection
<1>1. ASSUME TypeInv, BuiltInv, [Next]_vars, NEW w \in Writer,
             NEW t \in Topic \ Pointers(index), Writes(w), ~moved[w], index'[t] # None
      PROVE  IF w \in Saver THEN t \in names[w] ELSE t \in Pointers(base[w])
  <2>1. index \in Index /\ index' \in Built(w, index)
    BY <1>1, WriteEffect
  <2>2. index' \in [Topic -> Desc \cup {None}] /\ t \in Pointers(index')
    BY <1>1, <2>1, BuiltType DEF TypeInv, Index, Pointers
  <2> QED  BY <1>1, <2>1, <2>2, BuiltPointers DEF TypeInv
<1>2. TypeInv /\ BuiltInv /\ [Next]_vars =>
        [\A w \in Writer, t \in Topic \ Pointers(index) :
           Writes(w) /\ ~moved[w] /\ index'[t] # None =>
             IF w \in Saver THEN t \in names[w] ELSE t \in Pointers(base[w])]_vars
  BY <1>1
<1> QED  BY <1>2, BuiltAlways, PTL DEF Spec, NoResurrection

-----------------------------------------------------------------------------
(* The cap *)

\* Only a memory_save builds a document over the cap, from one that was.
LEMMA BuiltWithinCap ==
  ASSUME TypeOK, NEW w \in Writer, NEW doc \in Index, NEW new \in Built(w, doc),
         OverCap(new)
  PROVE  OverCap(doc) /\ w \in Saver \ Learner
<1>1. CASE w \in Saver
  BY <1>1 DEF Built, BuiltFrom, SaveAccepted
<1>2. CASE w \in Rewriter
  <2> DEFINE A == Additions(w, doc)
  <2>1. PICK kept \in SUBSET Pointers(base[w]) :
          /\ new = MergeIndex(kept, base[w], doc, A)
          /\ \/ Cardinality(kept) + Cardinality(A) <= Cap
             \/ Cardinality(kept) <= Cap - Cardinality(A)
    BY <1>2, RewriteShape
  <2>2. IsFiniteSet(kept) /\ IsFiniteSet(A) /\ IsFiniteSet(kept \cup A)
    <3>1. kept \subseteq Topic /\ A \subseteq Topic
      BY DEF Pointers, Additions, PointerAdditions
    <3> QED  BY <3>1, FS_Subset, FS_Union
  <2>3. Pointers(new) \subseteq kept \cup A
    BY <2>1 DEF MergeIndex, Pointers
  <2> HIDE DEF A
  <2>4. Cardinality(kept \cup A) <= Cardinality(kept) + Cardinality(A)
    <3>1. Cardinality(kept \cup A) =
            Cardinality(kept) + Cardinality(A) - Cardinality(kept \cap A)
      BY <2>2, FS_Union
    <3>2. IsFiniteSet(kept \cap A)
      BY <2>2, FS_Subset
    <3>3. /\ Cardinality(kept) \in Nat /\ Cardinality(A) \in Nat
          /\ Cardinality(kept \cap A) \in Nat
      BY <2>2, <3>2, FS_CardinalityType
    <3> QED  BY <3>1, <3>3
  <2>5. Cardinality(Pointers(new)) <= Cardinality(kept \cup A)
    BY <2>2, <2>3, FS_Subset
  <2>6. Cardinality(Pointers(new)) <= Cap
    BY <2>1, <2>2, <2>3, <2>4, <2>5, FS_CardinalityType, FS_Subset
  <2> QED  BY <2>6, <2>2, <2>3, FS_Subset, FS_CardinalityType DEF OverCap, Lines
<1> QED  BY <1>1, <1>2

\* Outside the window no write takes the index over its cap, and none but a
\* memory_save leaves it there.
THEOREM CapHolds == Spec => CapKept
<1>1. ASSUME TypeInv, BuiltInv, [Next]_vars, NEW w \in Writer, Writes(w), ~moved[w],
             OverCap(index')
      PROVE  OverCap(index) /\ w \in Saver \ Learner
  BY <1>1, WriteEffect, BuiltWithinCap DEF TypeInv
<1>2. TypeInv /\ BuiltInv /\ [Next]_vars =>
        [\A w \in Writer : Writes(w) /\ ~moved[w] /\ OverCap(index') =>
           OverCap(index) /\ w \in Saver \ Learner]_vars
  BY <1>1
<1> QED  BY <1>2, BuiltAlways, PTL DEF Spec, CapKept

=============================================================================
