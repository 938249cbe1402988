---------------------------- MODULE IndexCommit ----------------------------
(***************************************************************************)
(* The optimistic commit protocol of the memory index MEMORY.md            *)
(* (packages/memory/memory/src/index-commit.ts) with its four callers: the *)
(* memory_save tool (save.ts), `/learn apply` (command-learn/src/write.ts) *)
(* and the write-backs of the extraction and dream forks (memory-job.ts).  *)
(* The writers share one memory directory and no lock; an await separates  *)
(* any two file operations, so each of them is an action here.             *)
(*                                                                         *)
(* An index is a function from topics to the description its pointer line  *)
(* carries, None for a topic with no line.  The order of the lines, lines  *)
(* that point nowhere and the bytes of a line are abstracted: the size of  *)
(* an index is its number of pointer lines.                                *)
(***************************************************************************)
EXTENDS Integers, FiniteSets

CONSTANTS
  Topic,      \* topic files, named <topic>.md
  Saver,      \* calls of memory_save and of /learn apply, one save each
  Learner,    \* the savers that are /learn apply
  Rewriter,   \* extraction and dream jobs, one write-back each
  Old, None,  \* description of a line written before the model starts; no line
  Attempts,   \* commit rounds (12 in the code)
  Cap,        \* MAX_ENTRYPOINT_LINES
  Within,     \* <<a, b>> when the text "a.md" occurs inside "b.md"
  Workspace   \* whether the directory is a workspace's, not the global one

Writer == Saver \cup Rewriter
Desc == Writer \cup {Old}
Index == [Topic -> Desc \cup {None}]

ASSUME CommitAssumption ==
  /\ Saver \cap Rewriter = {} /\ Learner \subseteq Saver
  /\ Old \notin Writer /\ None \notin Writer /\ Old # None
  /\ IsFiniteSet(Topic) /\ IsFiniteSet(Writer)
  /\ Attempts \in 1..999
  /\ Cap \in Nat
  /\ Within \subseteq Topic \X Topic
  /\ Workspace \in BOOLEAN

VARIABLES
  index,     \* MEMORY.md
  files,     \* topic files that exist
  pressure,  \* whether .consolidation-needed is armed
  pc,        \* where each writer is in its commit
  batch,     \* topic files a writer's batch still has to write
  names,     \* all topics of a writer's batch
  seen,      \* the baseline index a rewriter's model was shown
  base,      \* the model's full rewrite of the index
  fresh,     \* the index read at the start of a round
  content,   \* the index the round builds
  round,     \* the rounds a writer has used up
  moved,     \* history: another wrote the index since the writer's pre-write verify
  foreign    \* history: changes others made to the index during the writer's
             \* commit, counted up to Attempts

locals == <<batch, names, seen, base, fresh, content, round>>
history == <<moved, foreign>>
vars == <<index, files, pressure, pc, locals, history>>

-----------------------------------------------------------------------------
(* Documents *)

Pointers(doc) == {t \in Topic : doc[t] # None}
Empty == [t \in Topic |-> None]
Lines(doc) == Cardinality(Pointers(doc))

\* What String.includes(target) finds in a document: the topic's own pointer,
\* or one whose file name ends with the topic's.
Mentions(doc, t) ==
  \E u \in Pointers(doc) : u = t \/ <<t, u>> \in Within

Upsert(doc, t, w) == [doc EXCEPT ![t] = w]

PointerAdditions(cur, mod, baseline) ==
  {t \in Pointers(cur) : ~Mentions(mod, t) /\ ~Mentions(baseline, t)}

MergeIndex(kept, mod, cur, additions) ==
  [t \in Topic |-> IF t \in additions THEN cur[t]
                   ELSE IF t \in kept THEN mod[t] ELSE None]

\* The documents carveEntrypointRoom may produce: the model's part whole when
\* it fits beside the additions, otherwise some of its lines (the code drops
\* lines from its tail until the line and byte budgets are met).
Carved(mod, cur, additions) ==
  LET own == Pointers(mod) IN
  {MergeIndex(kept, mod, cur, additions) : kept \in
     IF Cardinality(own) + Cardinality(additions) <= Cap THEN {own}
     ELSE {k \in SUBSET own : Cardinality(k) <= Cap - Cardinality(additions)}}

-----------------------------------------------------------------------------
(* What a writer's builder makes of a fresh read *)

OverCap(doc) == Lines(doc) > Cap

\* Mutant: the save that pushes the index over its cap is let through too.
SaveAcceptedOpen(s, doc, t) ==
  s \notin Learner \/ ~OverCap(Upsert(doc, t, s))

\* memory_save accepts an index that was over its cap already, /learn does not.
SaveAccepted(s, doc, t) ==
  \/ ~OverCap(Upsert(doc, t, s))
  \/ s \notin Learner /\ OverCap(doc)

BuiltFrom(w, doc, own, mod, baseline) ==
  IF w \in Saver
  THEN {Upsert(doc, t, w) : t \in {u \in own : SaveAccepted(w, doc, u)}}
  ELSE LET additions == PointerAdditions(doc, mod, baseline) IN
       IF Cardinality(additions) > Cap THEN {} ELSE Carved(mod, doc, additions)

Built(w, doc) == BuiltFrom(w, doc, names[w], base[w], seen[w])

\* A rejected memory_save arms the pressure marker of a workspace directory.
ArmsOnReject(w) == w \in Saver \ Learner /\ Workspace

-----------------------------------------------------------------------------
Init ==
  /\ files \in SUBSET Topic
  /\ \E S \in SUBSET files : index = [t \in Topic |-> IF t \in S THEN Old ELSE None]
  /\ pressure = FALSE
  /\ pc = [w \in Writer |-> "idle"]
  /\ batch = [w \in Writer |-> {}]
  /\ names = [w \in Writer |-> {}]
  /\ seen = [r \in Rewriter |-> Empty]
  /\ base = [r \in Rewriter |-> Empty]
  /\ fresh = [w \in Writer |-> Empty]
  /\ content = [w \in Writer |-> Empty]
  /\ round = [w \in Writer |-> 0]
  /\ moved = [w \in Writer |-> FALSE]
  /\ foreign = [w \in Writer |-> 0]

Goto(w, label) == pc' = [pc EXCEPT ![w] = label]

StartSave(s, t) ==
  /\ pc[s] = "idle" /\ Goto(s, "read")
  /\ batch' = [batch EXCEPT ![s] = {t}]
  /\ names' = [names EXCEPT ![s] = {t}]
  /\ UNCHANGED <<index, files, pressure, seen, base, fresh, content, round, history>>

\* The baseline of a fork: a dream reads the whole index, an extraction the
\* part of it that fits its prompt, or the names of the topic files when there
\* is no index.
Restricted(doc, S) == [t \in Topic |-> IF t \in S THEN doc[t] ELSE None]
Baselines ==
  {Restricted(index, S) : S \in SUBSET Pointers(index)}
  \cup {[t \in Topic |-> IF t \in files /\ index = Empty THEN Old ELSE index[t]]}

Dispatch(r) ==
  /\ pc[r] = "idle" /\ Goto(r, "forked")
  /\ \E doc \in Baselines : seen' = [seen EXCEPT ![r] = doc]
  /\ UNCHANGED <<index, files, pressure, batch, names, base, fresh, content, round, history>>

\* The fork completes with a report of topic files and, mostly, an index.  The
\* index points to files that exist or that it reports; a line of it is the
\* model's own, or as the baseline had it.
Rewrites(r, own) ==
  {doc \in [Topic -> {r, None} \cup Desc] :
     \A t \in Topic : \/ doc[t] = None
                      \/ doc[t] = r /\ t \in files \cup own
                      \/ doc[t] = seen[r][t]}

Report(r) ==
  /\ pc[r] = "forked"
  /\ \E own \in SUBSET Topic :
       /\ batch' = [batch EXCEPT ![r] = own]
       /\ names' = [names EXCEPT ![r] = own]
       /\ \/ \E doc \in Rewrites(r, own) : base' = [base EXCEPT ![r] = doc] /\ Goto(r, "read")
          \/ Goto(r, "plain") /\ UNCHANGED base
  /\ UNCHANGED <<index, files, pressure, seen, fresh, content, round, history>>

\* The session is torn down or the fork stops before it reports, or the report
\* is not valid.
Killed(r) ==
  /\ pc[r] = "forked" /\ Goto(r, "failed")
  /\ UNCHANGED <<index, files, pressure, locals, history>>

\* readIndexStrict, then the builder: it throws (out of the loop) or it gives
\* the content of the round.
Read(w) ==
  /\ pc[w] = "read"
  /\ fresh' = [fresh EXCEPT ![w] = index]
  /\ batch' = [batch EXCEPT ![w] = names[w]]
  /\ \/ /\ Built(w, index) = {}
        /\ Goto(w, IF ArmsOnReject(w) THEN "arm" ELSE "rejected")
        /\ UNCHANGED content
     \/ \E doc \in Built(w, index) :
          content' = [content EXCEPT ![w] = doc] /\ Goto(w, "topics")
  /\ UNCHANGED <<index, files, pressure, names, seen, base, round, history>>

\* The topic files go first.  A report without an index is only topic files.
WriteTopic(w) ==
  /\ pc[w] \in {"topics", "plain"}
  /\ \E t \in batch[w] :
       files' = files \cup {t} /\ batch' = [batch EXCEPT ![w] = @ \ {t}]
  /\ UNCHANGED <<index, pressure, pc, names, seen, base, fresh, content, round, history>>

EndPlain(r) ==
  /\ pc[r] = "plain" /\ batch[r] = {} /\ Goto(r, "done")
  /\ UNCHANGED <<index, files, pressure, locals, history>>

\* Mutants: the last round is given away; rounds not counted.
NextRoundEarly(w) ==
  /\ round' = [round EXCEPT ![w] = @ + 1]
  /\ Goto(w, IF round[w] + 2 >= Attempts THEN "conflict" ELSE "read")
NextRoundForever(w) == UNCHANGED round /\ Goto(w, "read")

NextRound(w) ==
  /\ round' = [round EXCEPT ![w] = @ + 1]
  /\ Goto(w, IF round[w] + 1 = Attempts THEN "conflict" ELSE "read")

\* Mutants: the index is not compared with the round's read; it is written
\* before the topic files.
VerifyUnchecked(w) ==
  /\ pc[w] = "topics" /\ batch[w] = {} /\ Goto(w, "write")
  /\ moved' = [moved EXCEPT ![w] = FALSE]
  /\ UNCHANGED <<index, files, pressure, batch, names, seen, base, fresh, content, round, foreign>>
VerifyEarly(w) ==
  /\ pc[w] = "topics"
  /\ \/ index = fresh[w] /\ Goto(w, "write") /\ UNCHANGED round
     \/ index # fresh[w] /\ NextRound(w)
  /\ moved' = [moved EXCEPT ![w] = FALSE]
  /\ UNCHANGED <<index, files, pressure, batch, names, seen, base, fresh, content, foreign>>

Verify(w) ==
  /\ pc[w] = "topics" /\ batch[w] = {}
  /\ \/ index = fresh[w] /\ Goto(w, "write") /\ UNCHANGED round
     \/ index # fresh[w] /\ NextRound(w)
  /\ moved' = [moved EXCEPT ![w] = FALSE]
  /\ UNCHANGED <<index, files, pressure, batch, names, seen, base, fresh, content, foreign>>

Committing == {"read", "topics", "write", "readback"}

WriteIndex(w) ==
  /\ pc[w] = "write" /\ Goto(w, "readback")
  /\ index' = content[w]
  /\ moved' = [v \in Writer |-> v # w /\ (moved[v] \/ pc[v] = "write")]
  /\ foreign' = [v \in Writer |-> IF /\ v # w /\ pc[v] \in Committing /\ index' # index
                                     /\ foreign[v] < Attempts
                                  THEN foreign[v] + 1 ELSE foreign[v]]
  /\ UNCHANGED <<files, pressure, locals>>

\* A save that found the index over its cap already still queues the repair.
ReadBack(w) ==
  /\ pc[w] = "readback"
  /\ \/ /\ index = content[w]
        /\ Goto(w, IF ArmsOnReject(w) /\ OverCap(fresh[w]) THEN "repair" ELSE "done")
        /\ UNCHANGED round
     \/ index # content[w] /\ NextRound(w)
  /\ UNCHANGED <<index, files, pressure, batch, names, seen, base, fresh, content, history>>

\* armPressure is best-effort: it may not land.
Arm(s) ==
  /\ \/ pc[s] = "arm" /\ Goto(s, "rejected")
     \/ pc[s] = "repair" /\ Goto(s, "done")
  /\ pressure' \in {pressure, TRUE}
  /\ UNCHANGED <<index, files, locals, history>>

\* A file operation throws: the error leaves the commit.
Fail(w) ==
  /\ pc[w] \in Committing \cup {"plain"} /\ Goto(w, "failed")
  /\ UNCHANGED <<index, files, pressure, locals, history>>

Step(w) ==
  \/ Read(w) \/ WriteTopic(w) \/ Verify(w) \/ WriteIndex(w) \/ ReadBack(w)
  \/ Arm(w) \/ EndPlain(w)

Next ==
  \/ \E s \in Saver, t \in Topic : StartSave(s, t)
  \/ \E r \in Rewriter : Dispatch(r) \/ Report(r) \/ Killed(r)
  \/ \E w \in Writer : Step(w) \/ Fail(w)

Spec == Init /\ [][Next]_vars
FairSpec == Spec /\ \A w \in Writer : WF_vars(Step(w))

-----------------------------------------------------------------------------
(* Properties *)

Label == {"idle", "forked", "plain", "arm", "repair", "rejected", "conflict",
          "failed", "done"} \cup Committing

\* Every variable keeps its type.
TypeOK ==
  /\ index \in Index /\ files \in SUBSET Topic /\ pressure \in BOOLEAN
  /\ pc \in [Writer -> Label]
  /\ batch \in [Writer -> SUBSET Topic] /\ names \in [Writer -> SUBSET Topic]
  /\ seen \in [Rewriter -> Index] /\ base \in [Rewriter -> Index]
  /\ fresh \in [Writer -> Index] /\ content \in [Writer -> Index]
  /\ round \in [Writer -> 0..Attempts]
  /\ moved \in [Writer -> BOOLEAN] /\ foreign \in [Writer -> 0..Attempts]

\* The index never points to a topic file that is not written yet, whoever
\* rewrites it and wherever a writer fails (commitMemoryWrites' header comment).
NoDanglingPointer == Pointers(index) \subseteq files

\* A commit gives up with a conflict only when others changed the index at
\* least once in each of its rounds: no round is charged for the writer's own
\* write, and no foreign change is charged twice.
ConflictIsForeign ==
  \A w \in Writer : pc[w] = "conflict" => foreign[w] >= Attempts

Writes(w) == pc[w] = "write" /\ pc'[w] = "readback"

\* A pointer of the index is lost, or gets another line, only by a save of that
\* topic, by a rewrite whose model was shown the pointer or names the topic
\* itself, or by a write after which a foreign write slipped in between the
\* pre-write verify and the write (the residual window of the header comment).
OnlyWindowLoses ==
  [][\A w \in Writer, t \in Pointers(index) :
       Writes(w) /\ ~moved[w] /\ index'[t] # index[t] =>
         IF w \in Saver THEN t \in names[w]
         ELSE t \in Pointers(seen[w]) \cup Pointers(base[w])]_vars

\* Nothing comes back that a rewrite removed: outside that window a save adds
\* no pointer but its own, and a rewrite adds only what it names.
NoResurrection ==
  [][\A w \in Writer, t \in Topic \ Pointers(index) :
       Writes(w) /\ ~moved[w] /\ index'[t] # None =>
         IF w \in Saver THEN t \in names[w] ELSE t \in Pointers(base[w])]_vars

\* Outside that window no write takes the index over its cap, and only a
\* memory_save leaves an index over its cap that was over it already.
CapKept ==
  [][\A w \in Writer : Writes(w) /\ ~moved[w] /\ OverCap(index') =>
       OverCap(index) /\ w \in Saver \ Learner]_vars

Ended(w) == pc[w] \in {"done", "rejected", "conflict", "failed"}

\* Every commit that starts ends, though its writers may overwrite one another.
CommitsEnd == \A w \in Writer : pc[w] \in Committing ~> Ended(w)

=============================================================================
