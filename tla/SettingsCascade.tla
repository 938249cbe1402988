-------------------------- MODULE SettingsCascade --------------------------
(***************************************************************************)
(* The settings of a session: a cache of the merged settings files, with   *)
(* one section for each namespace, that the process writes through to the  *)
(* user's file while the user and other processes edit the files           *)
(* (packages/settings: settings-provider and settings-cascade).  Writes to *)
(* a namespace wait for each other; behind them one chain of operations    *)
(* runs the persists, the raw edits and the reloads that the file watchers *)
(* ask for.  A step is what runs between two awaits.                       *)
(***************************************************************************)
EXTENDS Integers, Sequences

CONSTANTS
  Namespace, Key, Value,
  Invalid,      \* the values the schema of a namespace refuses
  Arrays,       \* the values that are arrays
  Absent,       \* the value of a key that a section does not have
  Malformed,    \* the content of a file that does not parse
  Unread,       \* a source the running load has not read yet
  Writer,       \* the calls of update, replace, mutate and editUserSection
  Editor,       \* those that may be calls of editUserSection
  Patch,        \* what a call may ask for: new values of some keys
  Reload,       \* a reload, in the chain of operations
  NoRevision,   \* a call without an expected revision
  InitialFile,  \* the files a session may start with
  MaxAttempts,  \* rounds of a persist (MAX_PERSIST_ATTEMPTS, MAX_EDIT_ATTEMPTS)
  Source,       \* who notices a change of a file: chokidar and watchFile
  Edit,         \* the keys that others may set
  Fragile,      \* the layers whose files others may leave half-written
  MaxEdits      \* bound on the edits from outside

Cell == Value \cup {Absent}
Section == [Key -> Cell]
Document == [Namespace -> Section]
Layer == {"user", "upper"}   \* the user's file, and the layers above it merged

ASSUME SettingsAssumption ==
  /\ Namespace # {} /\ Patch # {}
  /\ Invalid \subseteq Value /\ Arrays \subseteq Value /\ Absent \notin Value
  /\ Malformed \notin Document /\ Unread \notin Document /\ Unread # Malformed
  /\ Editor \subseteq Writer /\ Reload \notin Writer /\ NoRevision \notin Nat
  /\ \A p \in Patch : DOMAIN p \subseteq Key /\ \A k \in DOMAIN p : p[k] \in Cell
  /\ MaxAttempts \in Nat \ {0} /\ MaxEdits \in Nat /\ Fragile \subseteq Layer
  /\ Edit \subseteq [layer : Layer, ns : Namespace, key : Key, value : Cell]
  /\ InitialFile \subseteq [Layer -> Document]

VARIABLES
  file,      \* the content of each layer
  document,  \* the published document
  shadow,    \* the cascade's mirror of it, the base of the diffs
  resolved,  \* the value each namespace's owner reads
  revision,  \* the revision of each namespace
  queue,     \* the writes waiting for each namespace, the running one first
  ops,       \* the chain of operations, the running one first
  pc,        \* where each call is
  call,      \* what it asked for
  work,      \* what it has computed and read
  loading,   \* the running operation is reading the sources
  got,       \* what it has read
  due,       \* the sources that have yet to report a change of a file
  life,      \* up; closed: the watchers; stopped: the writes; down
  drain,     \* operations the disposer still waits for
  edits,     \* edits from outside so far
  exposed,   \* history: an edit hit the running write after its last look
  reverted   \* history: namespaces a write without changes set back

vars == <<file, document, shadow, resolved, revision, queue, ops, pc, call, work,
          loading, got, due, life, drain, edits, exposed, reverted>>
cache == <<document, shadow, resolved, revision, reverted>>
world == <<file, due, edits, exposed>>
chain == <<ops, drain, loading, got>>
calls == <<queue, pc, call, work>>

Blank == [k \in Key |-> Absent]
NoWork == [current |-> Blank, base |-> Blank, section |-> Blank,
           before |-> [n \in Namespace |-> Blank], attempt |-> 0]
NoCall == [kind |-> "edit", ns |-> CHOOSE n \in Namespace : TRUE, patch |-> CHOOSE p \in Patch : TRUE,
           expected |-> NoRevision]
AllUnread == [l \in Layer |-> Unread]

Closed == life # "up"
Stopped == life \in {"stopped", "down"}
Valid(s) == \A k \in Key : s[k] \notin Invalid

\* The path ops of a mutate, a merge or a whole section, on a section.
Apply(s, p) == [k \in Key |-> IF k \in DOMAIN p THEN p[k] ELSE s[k]]

\* What leads from one section to another, key by key.  An array differs from
\* every other array, an equal one too (deepEqual): it is always set.
Diff(s, t) == [k \in {j \in Key : s[j] # t[j] \/ t[j] \in Arrays} |-> t[k]]

\* Higher layers win.
Merge(f) ==
  [n \in Namespace |-> [k \in Key |-> IF f["upper"][n][k] # Absent THEN f["upper"][n][k]
                                      ELSE f["user"][n][k]]]

Init ==
  /\ file \in InitialFile
  /\ document = Merge(file) /\ shadow = document /\ resolved = document
  /\ \A n \in Namespace : Valid(document[n])
  /\ revision = [n \in Namespace |-> 0]
  /\ queue = [n \in Namespace |-> <<>>] /\ ops = <<>>
  /\ pc = [w \in Writer |-> "idle"]
  /\ call = [w \in Writer |-> NoCall] /\ work = [w \in Writer |-> NoWork]
  /\ loading = FALSE /\ got = AllUnread
  /\ due = {} /\ life = "up" /\ drain = 0
  /\ edits = 0 /\ exposed = FALSE /\ reverted = {}

Goto(w, label) == pc' = [pc EXCEPT ![w] = label]
Ns(w) == call[w].ns
Running(w) == ops # <<>> /\ Head(ops) = w
Enqueue(o) == ops' = Append(ops, o)

\* The running operation settles: the next one may start.
Proceed == ops' = Tail(ops) /\ drain' = IF drain = 0 THEN 0 ELSE drain - 1

\* Mutant: a call that fails stops the queue of its namespace.
LeavePoisoned(w, label) ==
  /\ Goto(w, label)
  /\ queue' = [n \in Namespace |-> IF label # "failed" /\ queue[n] # <<>> /\ Head(queue[n]) = w
                                   THEN Tail(queue[n]) ELSE queue[n]]
  /\ work' = [work EXCEPT ![w] = NoWork]
  /\ call' = IF label = "saved" THEN call ELSE [call EXCEPT ![w] = NoCall]

\* The call settles: it leaves the queue of its namespace, if it is in one.
Leave(w, label) ==
  /\ Goto(w, label)
  /\ queue' = [n \in Namespace |-> IF queue[n] # <<>> /\ Head(queue[n]) = w
                                   THEN Tail(queue[n]) ELSE queue[n]]
  /\ work' = [work EXCEPT ![w] = NoWork]
  /\ call' = IF label = "saved" THEN call ELSE [call EXCEPT ![w] = NoCall]

-----------------------------------------------------------------------------
(* The files *)

Rewritten(l, content) ==
  /\ file' = [file EXCEPT ![l] = content] /\ due' = Source
  /\ exposed' = (exposed \/ (l = "user" /\ \E w \in Writer : pc[w] = "rename"))
  /\ UNCHANGED <<cache, chain, calls, life>>

Edited == edits < MaxEdits /\ edits' = edits + 1

\* Somebody else edits a key of a file, leaves it half-written, or mends it.
EditKey(e) ==
  /\ file[e.layer] # Malformed /\ file[e.layer][e.ns][e.key] # e.value
  /\ Rewritten(e.layer, [file[e.layer] EXCEPT ![e.ns][e.key] = e.value]) /\ Edited

Break(l) == l \in Fragile /\ file[l] # Malformed /\ Rewritten(l, Malformed) /\ Edited
Mend(l) == file[l] = Malformed /\ Rewritten(l, [n \in Namespace |-> Blank]) /\ UNCHANGED edits

\* A watcher reports a change of a file, and a reload is queued.
Notice(s) ==
  /\ s \in due /\ ~Closed
  /\ due' = due \ {s} /\ Enqueue(Reload)
  /\ UNCHANGED <<file, edits, exposed, cache, calls, loading, got, drain, life>>

-----------------------------------------------------------------------------
(* Reloads *)

\* The new document takes the place of the old one; a namespace whose section
\* does not validate keeps its last good value, and its revision.
Publish(doc) ==
  /\ document' = doc /\ shadow' = doc /\ reverted' = {}
  /\ resolved' = [n \in Namespace |-> IF Valid(doc[n]) THEN doc[n] ELSE resolved[n]]
  /\ revision' = [n \in Namespace |-> IF Valid(doc[n]) /\ doc[n] # document[n]
                                      THEN revision[n] + 1 ELSE revision[n]]

StartReload ==
  /\ Running(Reload) /\ ~loading /\ ~Closed
  /\ loading' = TRUE
  /\ UNCHANGED <<cache, world, calls, ops, drain, got, life>>

SkipReload ==
  /\ Running(Reload) /\ ~loading /\ Closed /\ Proceed
  /\ UNCHANGED <<cache, world, calls, loading, got, life>>

\* load(): the sources are read one by one, in any order.
ReadSource(l) ==
  /\ loading /\ got[l] = Unread
  /\ got' = [got EXCEPT ![l] = file[l]]
  /\ UNCHANGED <<cache, world, calls, ops, drain, loading, life>>

AllRead == loading /\ \A l \in Layer : got[l] # Unread
Readable(f) == \A l \in Layer : f[l] # Malformed

\* A reload that fails keeps the last good document.  The reload at the end
\* of an edit fails the edit.
Loaded ==
  /\ AllRead
  /\ loading' = FALSE /\ got' = AllUnread /\ Proceed
  /\ IF Readable(got) THEN Publish(Merge(got)) ELSE UNCHANGED cache
  /\ IF Head(ops) = Reload THEN UNCHANGED calls
     ELSE Leave(Head(ops), IF Readable(got) THEN "saved" ELSE "failed")
  /\ UNCHANGED <<world, life>>

-----------------------------------------------------------------------------
(* Writes *)

\* update, replace and mutate: the call takes its place behind the others of
\* its namespace, with the revision the caller has read, if any.
Write(w, n, p, r) ==
  /\ pc[w] = "idle" /\ ~Stopped
  /\ call' = [call EXCEPT ![w] = [kind |-> "write", ns |-> n, patch |-> p, expected |-> r]]
  /\ queue' = [queue EXCEPT ![n] = Append(@, w)]
  /\ Goto(w, "queued")
  /\ UNCHANGED <<cache, world, chain, work, life>>

\* editUserSection: straight to the chain of operations.
EditSection(w, n, p) ==
  /\ pc[w] = "idle" /\ w \in Editor
  /\ call' = [call EXCEPT ![w] = [kind |-> "edit", ns |-> n, patch |-> p, expected |-> NoRevision]]
  /\ Enqueue(w) /\ Goto(w, "chained")
  /\ UNCHANGED <<cache, world, queue, work, drain, loading, got, life>>

AtFront(w) == pc[w] = "queued" /\ Head(queue[Ns(w)]) = w
Wanted(w) == Apply(document[Ns(w)], call[w].patch)

\* Mutant: the revision is compared when the call is made.
ConflictAtCall(w) == FALSE

\* The caller's revision is compared at the front of the queue.
Conflict(w) == call[w].expected # NoRevision /\ call[w].expected # revision[Ns(w)]

Reject(w) ==
  /\ AtFront(w)
  /\ \/ Stopped /\ Leave(w, "failed")
     \/ ~Stopped /\ Conflict(w) /\ Leave(w, "conflict")
     \/ ~Stopped /\ ~Conflict(w) /\ ~Valid(Wanted(w)) /\ Leave(w, "failed")
  /\ UNCHANGED <<cache, world, chain, life>>

\* The section is computed from the document, the base of the diff is frozen,
\* and the persist is queued.
Persist(w) ==
  /\ AtFront(w) /\ ~Stopped /\ ~Conflict(w) /\ Valid(Wanted(w))
  /\ work' = [work EXCEPT ![w] = [NoWork EXCEPT !.current = document[Ns(w)],
                                                !.base = shadow[Ns(w)], !.section = Wanted(w)]]
  /\ Enqueue(w) /\ Goto(w, "chained")
  /\ UNCHANGED <<cache, world, queue, call, drain, loading, got, life>>

\* Mutant: the base is the shadow as it is now.
LiveDelta(w) ==
  IF call[w].kind = "edit" THEN call[w].patch ELSE Diff(shadow[Ns(w)], work[w].section)

\* What the running operation changes in the user's own section.
Delta(w) ==
  IF call[w].kind = "edit" THEN call[w].patch ELSE Diff(work[w].base, work[w].section)

\* Storage has the section: the cache says so, and the owner hears of it
\* unless the service has stopped meanwhile.
Store(w) ==
  LET n == Ns(w) IN LET s == work[w].section IN
  /\ shadow' = [shadow EXCEPT ![n] = s] /\ document' = [document EXCEPT ![n] = s]
  /\ revision' = IF Stopped \/ s = work[w].current THEN revision ELSE [revision EXCEPT ![n] = @ + 1]
  /\ resolved' = IF Stopped THEN resolved ELSE [resolved EXCEPT ![n] = s]

\* A round of the running operation begins.
Round(w) == Running(w) /\ pc[w] \in {"chained", "again"}

\* Nothing to write: the file is left alone.
StoreNothing(w) ==
  /\ Round(w) /\ call[w].kind = "write" /\ DOMAIN Delta(w) = {}
  /\ Store(w)
  /\ reverted' = IF document[Ns(w)] # work[w].section THEN reverted \cup {Ns(w)} ELSE reverted
  /\ Leave(w, "same") /\ Proceed
  /\ UNCHANGED <<world, loading, got, life>>

\* An edit does nothing if the watchers are closed when its first round begins,
\* or when it would change nothing.
Late(w) == call[w].kind = "edit" /\ pc[w] = "chained" /\ Closed

EditNothing(w) ==
  /\ Round(w) /\ call[w].kind = "edit"
  /\ \/ Late(w)
     \/ file["user"] # Malformed /\ Apply(file["user"][Ns(w)], Delta(w)) = file["user"][Ns(w)]
  /\ Leave(w, "same") /\ Proceed
  /\ UNCHANGED <<cache, world, loading, got, life>>

Changing(w) == Round(w) /\ DOMAIN Delta(w) # {} /\ ~Late(w)

\* The first read of a round: a file that does not parse is an error.
ReadFile(w) ==
  /\ Changing(w) /\ file["user"] # Malformed
  /\ call[w].kind = "edit" => Apply(file["user"][Ns(w)], Delta(w)) # file["user"][Ns(w)]
  /\ work' = [work EXCEPT ![w].before = file["user"]] /\ Goto(w, "recheck")
  /\ UNCHANGED <<cache, world, chain, queue, call, life>>

FailRead(w) ==
  /\ Changing(w) /\ file["user"] = Malformed
  /\ Leave(w, "failed") /\ Proceed
  /\ UNCHANGED <<cache, world, loading, got, life>>

\* Mutant: the file is not looked at again.
ConfirmAny(w) ==
  /\ Running(w) /\ pc[w] = "recheck" /\ Goto(w, "rename")
  /\ UNCHANGED <<cache, world, chain, queue, call, work, life>>

\* The second read: the file is still what the first one found.
Confirm(w) ==
  /\ Running(w) /\ pc[w] = "recheck" /\ file["user"] = work[w].before
  /\ Goto(w, "rename")
  /\ UNCHANGED <<cache, world, chain, queue, call, work, life>>

\* A file that changed starts another round, and after the last round the
\* call fails.
Retry(w) ==
  /\ Running(w) /\ pc[w] = "recheck" /\ file["user"] # work[w].before
  /\ work[w].attempt + 1 < MaxAttempts
  /\ work' = [work EXCEPT ![w].attempt = @ + 1]
  /\ Goto(w, "again")
  /\ UNCHANGED <<cache, world, chain, queue, call, life>>

GiveUp(w) ==
  /\ Running(w) /\ pc[w] = "recheck" /\ file["user"] # work[w].before
  /\ work[w].attempt + 1 >= MaxAttempts
  /\ Leave(w, "failed") /\ Proceed
  /\ UNCHANGED <<cache, world, loading, got, life>>

\* A write may rewrite the file though it leaves its section as it was.
Outcome(w) == IF work[w].section = work[w].current THEN "same" ELSE "saved"

\* Mutant: the watchers are told to ignore the session's own renames.
RenameUnnoticed(w) ==
  /\ Running(w) /\ pc[w] = "rename"
  /\ file' = [file EXCEPT !["user"] = [work[w].before EXCEPT ![Ns(w)] = Apply(@, Delta(w))]]
  /\ due' = due /\ exposed' = FALSE
  /\ IF call[w].kind = "write"
     THEN /\ Store(w) /\ reverted' = reverted /\ Leave(w, Outcome(w)) /\ Proceed
          /\ UNCHANGED <<loading, got>>
     ELSE /\ loading' = TRUE /\ Goto(w, "republish")
          /\ UNCHANGED <<cache, queue, call, work, ops, drain, got>>
  /\ UNCHANGED <<edits, life>>

\* The rename: the write commits; the edit goes on to reload.
Rename(w) ==
  /\ Running(w) /\ pc[w] = "rename"
  /\ file' = [file EXCEPT !["user"] = [work[w].before EXCEPT ![Ns(w)] = Apply(@, Delta(w))]]
  /\ due' = Source /\ exposed' = FALSE
  /\ IF call[w].kind = "write"
     THEN /\ Store(w) /\ reverted' = reverted /\ Leave(w, Outcome(w)) /\ Proceed
          /\ UNCHANGED <<loading, got>>
     ELSE /\ loading' = TRUE /\ Goto(w, "republish")
          /\ UNCHANGED <<cache, queue, call, work, ops, drain, got>>
  /\ UNCHANGED <<edits, life>>

\* Mutant: a rename that fails leaves the shadow advanced.
FailRenameAhead(w) ==
  /\ Running(w) /\ pc[w] = "rename" /\ Leave(w, "failed") /\ Proceed
  /\ exposed' = FALSE
  /\ shadow' = IF call[w].kind = "write" THEN [shadow EXCEPT ![Ns(w)] = work[w].section] ELSE shadow
  /\ UNCHANGED <<document, resolved, revision, reverted, file, due, edits, loading, got, life>>

\* The temporary file cannot be written or renamed: nothing has changed.
FailRename(w) ==
  /\ Running(w) /\ pc[w] = "rename" /\ Leave(w, "failed") /\ Proceed
  /\ exposed' = FALSE
  /\ UNCHANGED <<cache, file, due, edits, loading, got, life>>

-----------------------------------------------------------------------------
(* Dispose: the cascade's disposer closes the watchers and waits for the     *)
(* operations queued so far, then the provider's refuses new writes and      *)
(* waits for the queued ones.                                                *)

Close ==
  /\ life = "up" /\ life' = "closed"
  /\ UNCHANGED <<cache, world, calls, chain>>

WatchersClosed ==
  /\ life = "closed" /\ life' = "draining" /\ drain' = Len(ops)
  /\ UNCHANGED <<cache, world, calls, ops, loading, got>>

Stop ==
  /\ life = "draining" /\ drain = 0 /\ life' = "stopped"
  /\ UNCHANGED <<cache, world, calls, chain>>

\* Mutant: the queued writes are not waited for.
DownEarly ==
  /\ life = "stopped" /\ life' = "down"
  /\ UNCHANGED <<cache, world, calls, chain>>

Down ==
  /\ life = "stopped" /\ \A n \in Namespace : queue[n] = <<>>
  /\ life' = "down"
  /\ UNCHANGED <<cache, world, calls, chain>>

Foreign ==
  (\E e \in Edit : EditKey(e)) \/ (\E l \in Layer : Break(l) \/ Mend(l))

Ask(w) ==
  \E n \in Namespace, p \in Patch :
    \/ \E r \in {NoRevision, revision[n]} : Write(w, n, p, r)
    \/ EditSection(w, n, p)

AtQueue(w) == Reject(w) \/ Persist(w)

Operate ==
  \/ StartReload \/ SkipReload \/ Loaded \/ \E l \in Layer : ReadSource(l)
  \/ \E w \in Writer : \/ StoreNothing(w) \/ EditNothing(w) \/ ReadFile(w) \/ FailRead(w)
                       \/ Confirm(w) \/ Retry(w) \/ GiveUp(w) \/ Rename(w) \/ FailRename(w)

Dispose == WatchersClosed \/ Stop \/ Down

Next ==
  \/ Foreign \/ Operate \/ Close \/ Dispose
  \/ \E s \in Source : Notice(s)
  \/ \E w \in Writer : Ask(w) \/ AtQueue(w)

Spec == Init /\ [][Next]_vars

\* The session's own next steps: reads, writes, reports of the watchers, the turn
\* of a queued call, the rest of a dispose.
GoOn ==
  \/ Operate \/ Dispose
  \/ \E s \in Source : Notice(s)
  \/ \E w \in Writer : AtQueue(w)

\* While the session can go on it does, in whatever order; that anyone writes,
\* edits or disposes is not assumed.
FairSpec == Spec /\ WF_vars(GoOn)

-----------------------------------------------------------------------------
(* Properties *)

Settled == {"saved", "same", "failed", "conflict"}
Chained == {"chained", "again", "recheck", "rename", "republish"}
Label == {"idle", "queued"} \cup Chained \cup Settled
Call == [kind : {"write", "edit"}, ns : Namespace, patch : Patch, expected : Nat \cup {NoRevision}]
Work == [current : Section, base : Section, section : Section, before : Document, attempt : Nat]

\* Every variable keeps its type.
TypeOK ==
  /\ file \in [Layer -> Document \cup {Malformed}]
  /\ document \in Document /\ shadow \in Document /\ resolved \in Document
  /\ revision \in [Namespace -> Nat]
  /\ queue \in [Namespace -> Seq(Writer)] /\ ops \in Seq(Writer \cup {Reload})
  /\ pc \in [Writer -> Label] /\ call \in [Writer -> Call] /\ work \in [Writer -> Work]
  /\ loading \in BOOLEAN /\ got \in [Layer -> Document \cup {Malformed, Unread}]
  /\ due \subseteq Source /\ life \in {"up", "closed", "draining", "stopped", "down"}
  /\ drain \in Nat /\ edits \in Nat /\ exposed \in BOOLEAN /\ reverted \subseteq Namespace

\* The two halves of the cache agree, whatever fails on the way: the shadow is
\* the document, and every owner reads its section or, when that does not
\* validate, a value that does.
Coherent ==
  /\ shadow = document
  /\ ~Stopped => \A n \in Namespace : Valid(document[n]) => resolved[n] = document[n]
  /\ \A n \in Namespace : Valid(resolved[n])

\* The keys a write sets although nobody asked for it: the arrays of the merged
\* section, those a higher layer contributes or another process has just changed
\* in the file among them.
Resent(w) ==
  IF call[w].kind = "write" THEN {k \in Key : work[w].section[k] \in Arrays} ELSE {}

\* A write changes nothing in the user's file but keys that its caller named,
\* and arrays, which it sets to what they were when it was computed: not a key
\* that a higher layer contributes, that a reload has brought in since, or that
\* another process has set, unless the other process writes between the last
\* look at the file and the rename.
OnlyAskedChanged ==
  [][\A w \in Writer :
       pc[w] = "rename" /\ pc'[w] \in {"saved", "same", "republish"} /\ ~exposed =>
         \A n \in Namespace, k \in Key :
           file'["user"][n][k] # file["user"][n][k] =>
             /\ n = Ns(w)
             /\ \/ k \in DOMAIN call[w].patch
                \/ k \in Resent(w) /\ file'["user"][n][k] = work[w].base[k]]_vars

\* Of two writes that carry the same revision of a namespace, one changes it
\* at the most.
OneWinner ==
  \A v, w \in Writer :
    pc[v] = "saved" /\ pc[w] = "saved" /\ call[v].kind = "write" /\ call[w].kind = "write"
    /\ Ns(v) = Ns(w) /\ call[v].expected = call[w].expected /\ call[v].expected # NoRevision => v = w

\* Once the service is down, none of its writes is on the way to the file.
DownIsQuiet ==
  life = "down" => \A w \in Writer : pc[w] \notin {"queued", "again", "recheck", "rename", "republish"}

\* Nobody waits for what is not coming: the first of a queue is a call that has not
\* settled, a call past its queue is in the chain, the first of the chain has
\* not settled, and a dispose counts no more operations than there are.
QueuesMove ==
  /\ \A n \in Namespace : queue[n] # <<>> => pc[Head(queue[n])] \in {"queued"} \cup Chained
  /\ \A w \in Writer : pc[w] \in Chained => \E i \in DOMAIN ops : ops[i] = w
  /\ ops # <<>> /\ Head(ops) # Reload => pc[Head(ops)] \in Chained
  /\ drain <= Len(ops)

\* Every call settles, and a dispose comes to its end: always there will again
\* be a moment when none is under way (a call settles, and the service goes
\* down, only once).
CallsSettle ==
  []<>(life \in {"up", "down"} /\ \A w \in Writer : pc[w] \in {"idle"} \cup Settled)

\* Once the files are left alone the session follows them, but for a namespace
\* that a write without changes has set back.  So does a key that was unset in
\* the user's file and that a higher layer has: the rename is noticed, and the
\* reload brings the value back while the process runs.
Follows ==
  <>[](life = "up" /\ Readable(file) =>
         \A n \in Namespace : n \in reverted \/ document[n] = Merge(file)[n])

\* What the documentation says of the files: an edit is followed, always.
HotReload == <>[](life = "up" /\ Readable(file) => document = Merge(file))

=============================================================================
