----------------------- MODULE SettingsCascadeProofs -----------------------
(***************************************************************************)
(* Proofs about SettingsCascade, for any namespaces, keys, files and       *)
(* calls: types, the coherence of the cache, what a write may change in    *)
(* the user's file, which writes win, what a dispose leaves behind, and    *)
(* that no queue waits for a call that has settled.                        *)
(***************************************************************************)
EXTENDS SettingsCascade, TLAPS

\* Only the running call is between its two reads and its end.
Owned == \A w \in Writer : pc[w] \in {"again", "recheck", "rename", "republish"} => Running(w)

\* A load belongs to the operation that runs.
LoadOwned == loading => ops # <<>> /\ (Head(ops) = Reload \/ pc[Head(ops)] = "republish")

\* What a write has computed: a section that validates, its patch on the
\* document of that time, and a base that was the document of that time.
Computed ==
  \A w \in Writer :
    call[w].kind = "write" /\ pc[w] \in {"chained", "again", "recheck", "rename"} =>
      /\ Valid(work[w].section) /\ work[w].base = work[w].current
      /\ work[w].section = Apply(work[w].current, call[w].patch)

\* The file is what the running call has read, unless it was edited since.
Looked == \A w \in Writer : pc[w] = "rename" /\ ~exposed => file["user"] = work[w].before

\* A patch leaves the other keys of a section alone, and keeps it a section.
LEMMA ApplyKeeps ==
  ASSUME NEW s \in Section, NEW p, NEW k \in Key, k \notin DOMAIN p
  PROVE  Apply(s, p)[k] = s[k]
BY DEF Apply

LEMMA ApplyType ==
  ASSUME NEW s \in Section, NEW p, \A k \in DOMAIN p : p[k] \in Cell
  PROVE  Apply(s, p) \in Section
BY DEF Apply, Section

LEMMA PatchType == \A p \in Patch : DOMAIN p \subseteq Key /\ \A k \in DOMAIN p : p[k] \in Cell
BY SettingsAssumption

\* A diff takes its values from the second section.
LEMMA DiffType ==
  ASSUME NEW s \in Section, NEW t \in Section
  PROVE  \A k \in DOMAIN Diff(s, t) : Diff(s, t)[k] \in Cell
BY DEF Diff, Section

LEMMA DeltaType ==
  ASSUME TypeOK, NEW w \in Writer
  PROVE  \A k \in DOMAIN Delta(w) : Delta(w)[k] \in Cell
<1>1. call[w] \in Call /\ work[w] \in Work
  BY DEF TypeOK
<1>2. \A k \in DOMAIN call[w].patch : call[w].patch[k] \in Cell
  BY <1>1, PatchType DEF Call
<1>3. work[w].base \in Section /\ work[w].section \in Section
  BY <1>1 DEF Work
<1> QED
  BY <1>2, <1>3, DiffType DEF Delta

LEMMA MergeType ==
  ASSUME NEW f, f["user"] \in Document, f["upper"] \in Document
  PROVE  Merge(f) \in Document
BY DEF Merge, Document, Section

LEMMA BlankTypes == Blank \in Section /\ NoWork \in Work /\ NoCall \in Call /\ [n \in Namespace |-> Blank] \in Document
<1>1. Blank \in Section
  BY DEF Blank, Section, Cell
<1>2. (CHOOSE n \in Namespace : TRUE) \in Namespace /\ (CHOOSE p \in Patch : TRUE) \in Patch
  BY SettingsAssumption
<1> QED
  BY <1>1, <1>2 DEF NoWork, Work, NoCall, Call, Document

\* A sequence with a head has a tail of the same type.
LEMMA ProceedType ==
  ASSUME NEW S, NEW s \in Seq(S), s # <<>>
  PROVE  Tail(s) \in Seq(S) /\ Head(s) \in S
OBVIOUS

LEMMA LeaveType ==
  ASSUME TypeOK, NEW w \in Writer, NEW label \in Label, Leave(w, label)
  PROVE  /\ pc' \in [Writer -> Label] /\ queue' \in [Namespace -> Seq(Writer)]
         /\ work' \in [Writer -> Work] /\ call' \in [Writer -> Call]
<1>1. pc' \in [Writer -> Label]
  BY DEF Leave, Goto, TypeOK
<1>2. \A n \in Namespace : queue[n] \in Seq(Writer)
  BY DEF TypeOK
<1>3. queue' \in [Namespace -> Seq(Writer)]
  BY <1>2, ProceedType DEF Leave
<1>4. work' \in [Writer -> Work] /\ call' \in [Writer -> Call]
  BY BlankTypes DEF Leave, TypeOK
<1> QED
  BY <1>1, <1>3, <1>4

-----------------------------------------------------------------------------
(* Types *)

LEMMA ProceedTypes ==
  ASSUME TypeOK, ops # <<>>, Proceed
  PROVE  ops' \in Seq(Writer \cup {Reload}) /\ drain' \in Nat
<1>1. ops \in Seq(Writer \cup {Reload}) /\ drain \in Nat
  BY DEF TypeOK
<1>2. ops' \in Seq(Writer \cup {Reload})
  BY <1>1, ProceedType DEF Proceed
<1>3. drain' \in Nat
  BY <1>1 DEF Proceed
<1> QED
  BY <1>2, <1>3

LEMMA PublishType ==
  ASSUME TypeOK, NEW doc \in Document, Publish(doc)
  PROVE  /\ document' \in Document /\ shadow' \in Document /\ resolved' \in Document
         /\ revision' \in [Namespace -> Nat] /\ reverted' \subseteq Namespace
<1>1. resolved' \in Document
  BY DEF Publish, TypeOK, Document
<1>2. revision' \in [Namespace -> Nat]
  BY DEF Publish, TypeOK
<1> QED
  BY <1>1, <1>2 DEF Publish

LEMMA StoreType ==
  ASSUME TypeOK, NEW w \in Writer, Store(w)
  PROVE  /\ document' \in Document /\ shadow' \in Document /\ resolved' \in Document
         /\ revision' \in [Namespace -> Nat]
<1>1. work[w] \in Work /\ call[w] \in Call
  BY DEF TypeOK
<1>2. work[w].section \in Section /\ Ns(w) \in Namespace
  BY <1>1 DEF Work, Call, Ns
<1>3. document' \in Document /\ shadow' \in Document /\ resolved' \in Document
  BY <1>2 DEF Store, TypeOK, Document
<1>4. revision' \in [Namespace -> Nat]
  BY <1>2 DEF Store, TypeOK
<1> QED
  BY <1>3, <1>4

LEMMA LayerFiles == ASSUME TypeOK PROVE file["user"] \in Document \cup {Malformed}
BY DEF TypeOK, Layer

LEMMA ForeignType ==
  ASSUME TypeOK, Foreign
  PROVE  TypeOK'
<1> USE DEF world, cache, chain, calls
<1>1. ASSUME NEW l \in Layer, NEW c \in Document \cup {Malformed}, Rewritten(l, c), edits' \in Nat
      PROVE  TypeOK'
  <2>1. file' \in [Layer -> Document \cup {Malformed}]
    BY <1>1 DEF Rewritten, TypeOK
  <2>2. exposed' \in BOOLEAN
    BY <1>1 DEF Rewritten, TypeOK
  <2>3. due' \subseteq Source
    BY <1>1 DEF Rewritten
  <2> QED
    BY <1>1, <2>1, <2>2, <2>3 DEF Rewritten, TypeOK
<1>2. edits \in Nat
  BY DEF TypeOK
<1>3. CASE \E e \in Edit : EditKey(e)
  <2>1. PICK e \in Edit : EditKey(e)
    BY <1>3
  <2>2. e.layer \in Layer /\ e.ns \in Namespace /\ e.key \in Key /\ e.value \in Cell
    BY SettingsAssumption
  <2>3. file[e.layer] \in Document
    BY <2>1, <2>2 DEF EditKey, TypeOK
  <2>4. [file[e.layer] EXCEPT ![e.ns][e.key] = e.value] \in Document
    BY <2>2, <2>3 DEF Document, Section
  <2>5. edits' \in Nat
    BY <1>2, <2>1 DEF EditKey, Edited
  <2> QED
    BY <1>1, <2>1, <2>2, <2>4, <2>5 DEF EditKey
<1>4. ASSUME NEW l \in Layer, Break(l) \/ Mend(l)
      PROVE  TypeOK'
  BY <1>1, <1>2, <1>4, BlankTypes DEF Break, Mend, Edited
<1> QED
  BY <1>3, <1>4 DEF Foreign

LEMMA QueueType ==
  ASSUME TypeOK, NEW w \in Writer, Ask(w) \/ AtQueue(w)
  PROVE  TypeOK'
<1> USE DEF world, cache, chain, calls
<1>1. \A n \in Namespace : queue[n] \in Seq(Writer) /\ revision[n] \in Nat
  BY DEF TypeOK
<1>2. ops \in Seq(Writer \cup {Reload})
  BY DEF TypeOK
<1>3. ASSUME NEW n \in Namespace, NEW p \in Patch, NEW r \in {NoRevision, revision[n]}, Write(w, n, p, r)
      PROVE  TypeOK'
  <2>1. [kind |-> "write", ns |-> n, patch |-> p, expected |-> r] \in Call
    BY <1>1, <1>3 DEF Call
  <2>2. call' \in [Writer -> Call]
    BY <1>3, <2>1 DEF Write, TypeOK
  <2>3. Append(queue[n], w) \in Seq(Writer)
    BY <1>1
  <2>4. queue' \in [Namespace -> Seq(Writer)]
    BY <1>3, <2>3 DEF Write, TypeOK
  <2>5. pc' \in [Writer -> Label]
    BY <1>3 DEF Write, Goto, TypeOK, Label, Chained
  <2> QED
    BY <1>3, <2>2, <2>4, <2>5 DEF Write, TypeOK
<1>4. Append(ops, w) \in Seq(Writer \cup {Reload})
  BY <1>2
<1>5. ASSUME NEW n \in Namespace, NEW p \in Patch, EditSection(w, n, p)
      PROVE  TypeOK'
  <2>1. [kind |-> "edit", ns |-> n, patch |-> p, expected |-> NoRevision] \in Call
    BY DEF Call
  <2>2. call' \in [Writer -> Call]
    BY <1>5, <2>1 DEF EditSection, TypeOK
  <2>3. ops' \in Seq(Writer \cup {Reload})
    BY <1>5, <1>4 DEF EditSection, Enqueue
  <2>4. pc' \in [Writer -> Label]
    BY <1>5 DEF EditSection, Goto, TypeOK, Label, Chained
  <2> QED
    BY <1>5, <2>2, <2>3, <2>4 DEF EditSection, TypeOK
<1>6. CASE Reject(w)
  <2>1. Leave(w, "failed") \/ Leave(w, "conflict")
    BY <1>6 DEF Reject
  <2>2. "failed" \in Label /\ "conflict" \in Label
    BY DEF Label, Chained, Settled
  <2>3. /\ pc' \in [Writer -> Label] /\ queue' \in [Namespace -> Seq(Writer)]
        /\ work' \in [Writer -> Work] /\ call' \in [Writer -> Call]
    BY <2>1, <2>2, LeaveType
  <2> QED
    BY <1>6, <2>3 DEF Reject, TypeOK
<1>7. CASE Persist(w)
  <2>1. call[w] \in Call
    BY DEF TypeOK
  <2>2. Ns(w) \in Namespace /\ \A k \in DOMAIN call[w].patch : call[w].patch[k] \in Cell
    BY <2>1, PatchType DEF Call, Ns
  <2>3. document[Ns(w)] \in Section /\ shadow[Ns(w)] \in Section
    BY <2>2 DEF TypeOK, Document
  <2>4. Wanted(w) \in Section
    BY <2>2, <2>3, ApplyType DEF Wanted
  <2>5. work' \in [Writer -> Work]
    BY <1>7, <2>3, <2>4, BlankTypes DEF Persist, TypeOK, Work, NoWork
  <2>6. ops' \in Seq(Writer \cup {Reload})
    BY <1>7, <1>4 DEF Persist, Enqueue
  <2>7. pc' \in [Writer -> Label]
    BY <1>7 DEF Persist, Goto, TypeOK, Label, Chained
  <2> QED
    BY <1>7, <2>5, <2>6, <2>7 DEF Persist, TypeOK
<1> QED
  BY <1>3, <1>5, <1>6, <1>7 DEF Ask, AtQueue

LEMMA ReloadType ==
  ASSUME TypeOK, LoadOwned, StartReload \/ SkipReload \/ Loaded \/ \E l \in Layer : ReadSource(l)
  PROVE  TypeOK'
<1> USE DEF world, cache, chain, calls
<1>1. CASE StartReload
  BY <1>1 DEF StartReload, TypeOK
<1>2. CASE SkipReload
  BY <1>2, ProceedTypes DEF SkipReload, TypeOK, Running
<1>3. ASSUME NEW l \in Layer, ReadSource(l)
      PROVE  TypeOK'
  <2>1. got' \in [Layer -> Document \cup {Malformed, Unread}]
    BY <1>3 DEF ReadSource, TypeOK
  <2> QED
    BY <1>3, <2>1 DEF ReadSource, TypeOK
<1>4. CASE Loaded
  <2>1. ops # <<>> /\ (Head(ops) = Reload \/ pc[Head(ops)] = "republish")
    BY <1>4 DEF Loaded, AllRead, LoadOwned
  <2>2. ops' \in Seq(Writer \cup {Reload}) /\ drain' \in Nat
    BY <1>4, <2>1, ProceedTypes DEF Loaded
  <2>3. got["user"] \in Document \cup {Malformed, Unread} /\ got["upper"] \in Document \cup {Malformed, Unread}
    BY DEF TypeOK, Layer
  <2>4. Readable(got) => Merge(got) \in Document
    BY <1>4, <2>3, MergeType DEF Loaded, AllRead, Readable, Layer
  <2>5. /\ document' \in Document /\ shadow' \in Document /\ resolved' \in Document
        /\ revision' \in [Namespace -> Nat] /\ reverted' \subseteq Namespace
    <3>1. CASE Readable(got)
      BY <1>4, <2>4, <3>1, PublishType DEF Loaded
    <3>2. CASE ~Readable(got)
      BY <1>4, <3>2 DEF Loaded, TypeOK
    <3> QED
      BY <3>1, <3>2
  <2>6. got' \in [Layer -> Document \cup {Malformed, Unread}] /\ loading' \in BOOLEAN
    BY <1>4 DEF Loaded, AllUnread
  <2>7. /\ pc' \in [Writer -> Label] /\ queue' \in [Namespace -> Seq(Writer)]
        /\ work' \in [Writer -> Work] /\ call' \in [Writer -> Call]
    <3>1. CASE Head(ops) = Reload
      BY <1>4, <3>1 DEF Loaded, TypeOK
    <3>2. CASE Head(ops) # Reload
      <4>1. Head(ops) \in Writer
        BY <2>1, <3>2, ProceedType DEF TypeOK
      <4>2. Leave(Head(ops), IF Readable(got) THEN "saved" ELSE "failed")
        BY <1>4, <3>2 DEF Loaded
      <4>3. (IF Readable(got) THEN "saved" ELSE "failed") \in Label
        BY DEF Label, Chained, Settled
      <4> QED
        BY <4>1, <4>2, <4>3, LeaveType
    <3> QED
      BY <3>1, <3>2
  <2> QED
    BY <1>4, <2>2, <2>5, <2>6, <2>7 DEF Loaded, TypeOK
<1> QED
  BY <1>1, <1>2, <1>3, <1>4

\* A write that renames has changed its section, or only the file.
LEMMA OutcomeSettled ==
  ASSUME NEW w \in Writer
  PROVE  Outcome(w) \in {"same", "saved"} /\ Outcome(w) \in Settled /\ Outcome(w) \in Label
BY DEF Outcome, Settled, Label, Chained

LEMMA RoundType ==
  ASSUME TypeOK, NEW w \in Writer,
         \/ StoreNothing(w) \/ EditNothing(w) \/ ReadFile(w) \/ FailRead(w)
         \/ Confirm(w) \/ Retry(w) \/ GiveUp(w) \/ Rename(w) \/ FailRename(w)
  PROVE  TypeOK'
<1> USE DEF world, cache, chain, calls
<1>1. "saved" \in Label /\ "same" \in Label /\ "failed" \in Label
  BY DEF Label, Chained, Settled
<1>2. call[w] \in Call /\ work[w] \in Work
  BY DEF TypeOK
<1>3. Ns(w) \in Namespace
  BY <1>2 DEF Ns, Call
<1>4. CASE StoreNothing(w)
  <2>1. ops' \in Seq(Writer \cup {Reload}) /\ drain' \in Nat
    BY <1>4, ProceedTypes DEF StoreNothing, Round, Running
  <2>2. /\ pc' \in [Writer -> Label] /\ queue' \in [Namespace -> Seq(Writer)]
        /\ work' \in [Writer -> Work] /\ call' \in [Writer -> Call]
    BY <1>1, <1>4, LeaveType DEF StoreNothing
  <2>3. /\ document' \in Document /\ shadow' \in Document /\ resolved' \in Document
        /\ revision' \in [Namespace -> Nat]
    BY <1>4, StoreType DEF StoreNothing
  <2>4. reverted' \subseteq Namespace
    BY <1>3, <1>4 DEF StoreNothing, TypeOK
  <2> QED
    BY <1>4, <2>1, <2>2, <2>3, <2>4 DEF StoreNothing, TypeOK
<1>5. CASE EditNothing(w) \/ FailRead(w) \/ GiveUp(w) \/ FailRename(w)
  <2>1. ops' \in Seq(Writer \cup {Reload}) /\ drain' \in Nat
    BY <1>5, ProceedTypes DEF EditNothing, FailRead, GiveUp, FailRename, Changing, Round, Running
  <2>2. /\ pc' \in [Writer -> Label] /\ queue' \in [Namespace -> Seq(Writer)]
        /\ work' \in [Writer -> Work] /\ call' \in [Writer -> Call]
    BY <1>1, <1>5, LeaveType DEF EditNothing, FailRead, GiveUp, FailRename
  <2> QED
    BY <1>5, <2>1, <2>2 DEF EditNothing, FailRead, GiveUp, FailRename, TypeOK
<1>6. CASE ReadFile(w)
  <2>1. file["user"] \in Document
    BY <1>6, LayerFiles DEF ReadFile
  <2>2. work' \in [Writer -> Work]
    BY <1>6, <2>1 DEF ReadFile, TypeOK, Work
  <2>3. pc' \in [Writer -> Label]
    BY <1>6 DEF ReadFile, Goto, TypeOK, Label, Chained
  <2> QED
    BY <1>6, <2>2, <2>3 DEF ReadFile, TypeOK
<1>7. CASE Confirm(w) \/ Retry(w)
  <2>1. pc' \in [Writer -> Label]
    BY <1>7 DEF Confirm, Retry, Goto, TypeOK, Label, Chained
  <2>2. work[w].attempt + 1 \in Nat
    BY <1>2 DEF Work
  <2>3. work' \in [Writer -> Work]
    BY <1>7, <2>2 DEF Confirm, Retry, TypeOK, Work
  <2> QED
    BY <1>7, <2>1, <2>3 DEF Confirm, Retry, TypeOK
<1>8. CASE Rename(w)
  <2>1. work[w].before \in Document /\ work[w].before[Ns(w)] \in Section
    BY <1>2, <1>3 DEF Work, Document
  <2>2. Apply(work[w].before[Ns(w)], Delta(w)) \in Section
    BY <2>1, ApplyType, DeltaType
  <2>3. [work[w].before EXCEPT ![Ns(w)] = Apply(@, Delta(w))] \in Document
    BY <2>1, <2>2 DEF Document
  <2>4. file' \in [Layer -> Document \cup {Malformed}] /\ due' \subseteq Source /\ exposed' \in BOOLEAN
    BY <1>8, <2>3 DEF Rename, TypeOK, Layer
  <2>5. CASE call[w].kind = "write"
    <3>1. Store(w) /\ Leave(w, Outcome(w)) /\ Proceed /\ UNCHANGED <<loading, got, reverted>>
      BY <1>8, <2>5 DEF Rename
    <3>2. ops' \in Seq(Writer \cup {Reload}) /\ drain' \in Nat
      BY <1>8, <3>1, ProceedTypes DEF Rename, Running
    <3>3. /\ pc' \in [Writer -> Label] /\ queue' \in [Namespace -> Seq(Writer)]
          /\ work' \in [Writer -> Work] /\ call' \in [Writer -> Call]
      BY <3>1, LeaveType, OutcomeSettled
    <3>4. /\ document' \in Document /\ shadow' \in Document /\ resolved' \in Document
          /\ revision' \in [Namespace -> Nat]
      BY <3>1, StoreType
    <3> QED
      BY <1>8, <2>4, <3>1, <3>2, <3>3, <3>4 DEF Rename, TypeOK
  <2>6. CASE call[w].kind # "write"
    <3>1. pc' \in [Writer -> Label] /\ loading' \in BOOLEAN
      BY <1>8, <2>6 DEF Rename, Goto, TypeOK, Label, Chained
    <3> QED
      BY <1>8, <2>4, <2>6, <3>1 DEF Rename, TypeOK
  <2> QED
    BY <2>5, <2>6
<1> QED
  BY <1>4, <1>5, <1>6, <1>7, <1>8

LEMMA LifeType ==
  ASSUME TypeOK, Close \/ Dispose \/ \E s \in Source : Notice(s)
  PROVE  TypeOK'
<1> USE DEF world, cache, chain, calls
<1>1. CASE Close \/ Stop \/ Down
  BY <1>1 DEF Close, Stop, Down, TypeOK
<1>2. CASE WatchersClosed
  <2>1. drain' \in Nat
    BY <1>2 DEF WatchersClosed, TypeOK
  <2> QED
    BY <1>2, <2>1 DEF WatchersClosed, TypeOK
<1>3. ASSUME NEW s \in Source, Notice(s)
      PROVE  TypeOK'
  <2>1. ops' \in Seq(Writer \cup {Reload})
    BY <1>3 DEF Notice, Enqueue, TypeOK
  <2> QED
    BY <1>3, <2>1 DEF Notice, TypeOK
<1> QED
  BY <1>1, <1>2, <1>3 DEF Dispose

-----------------------------------------------------------------------------
(* Who runs *)

\* What a step of the chain does to its head, seen from a call w.
LEMMA ProceedOwned ==
  ASSUME TypeOK, Owned, NEW v \in Writer, Running(v), NEW label \in Settled, Leave(v, label)
  PROVE  Owned'
<1>1. ASSUME NEW w \in Writer, pc'[w] \in {"again", "recheck", "rename", "republish"}
      PROVE  FALSE
  <2>1. w # v
    BY <1>1 DEF Leave, Goto, TypeOK, Settled
  <2>2. pc[w] \in {"again", "recheck", "rename", "republish"}
    BY <1>1, <2>1 DEF Leave, Goto, TypeOK
  <2> QED
    BY <2>1, <2>2 DEF Owned, Running
<1> QED
  BY <1>1 DEF Owned

Busy == {"again", "recheck", "rename", "republish"}

\* A step that leaves the head of the chain alone keeps it the running call's.
LEMMA KeepOwned ==
  ASSUME TypeOK, Owned, LoadOwned, NEW o \in Writer \cup {Reload}, Enqueue(o) \/ UNCHANGED ops,
         UNCHANGED loading,
         \A w \in Writer : pc'[w] \in Busy => pc[w] \in Busy \/ Running(w),
         \A w \in Writer : pc[w] = "republish" => pc'[w] = "republish"
  PROVE  Owned' /\ LoadOwned'
<1>1. ops \in Seq(Writer \cup {Reload})
  BY DEF TypeOK
<1>2. ASSUME ops # <<>>
      PROVE  ops' # <<>> /\ Head(ops') = Head(ops) /\ Head(ops) \in Writer \cup {Reload}
  BY <1>1, <1>2 DEF Enqueue
<1>3. Owned'
  BY <1>2 DEF Owned, Running, Busy
<1>4. LoadOwned'
  BY <1>2 DEF LoadOwned
<1> QED
  BY <1>3, <1>4

\* While no load runs, a step that ends the running call keeps the invariants.
LEMMA EndOwned ==
  ASSUME TypeOK, Owned, LoadOwned, NEW v \in Writer, Running(v), pc[v] \notin {"republish"},
         NEW label \in Settled, Leave(v, label), UNCHANGED loading
  PROVE  Owned' /\ LoadOwned'
<1>1. Owned'
  BY ProceedOwned
<1>2. ~loading
  BY SettingsAssumption DEF LoadOwned, Running
<1> QED
  BY <1>1, <1>2 DEF LoadOwned

LEMMA OwnedStep ==
  ASSUME TypeOK, Owned, LoadOwned, Next
  PROVE  Owned' /\ LoadOwned'
<1> USE DEF world, cache, chain, calls
<1>0. Reload \in Writer \cup {Reload} /\ {"same", "failed", "saved", "conflict"} = Settled
  BY DEF Settled
<1>1. CASE Foreign
  <2>1. UNCHANGED <<ops, loading, pc>>
    BY <1>1 DEF Foreign, EditKey, Break, Mend, Rewritten
  <2> QED
    BY <1>0, <2>1, KeepOwned
<1>2. CASE Close \/ Dispose
  <2>1. UNCHANGED <<ops, loading, pc>>
    BY <1>2 DEF Close, Dispose, WatchersClosed, Stop, Down
  <2> QED
    BY <1>0, <2>1, KeepOwned
<1>3. ASSUME NEW s \in Source, Notice(s)
      PROVE  Owned' /\ LoadOwned'
  <2>1. Enqueue(Reload) /\ UNCHANGED <<loading, pc>>
    BY <1>3 DEF Notice
  <2> QED
    BY <1>0, <2>1, KeepOwned
<1>4. ASSUME NEW w \in Writer, Ask(w) \/ AtQueue(w)
      PROVE  Owned' /\ LoadOwned'
  <2>1. UNCHANGED loading /\ (Enqueue(w) \/ UNCHANGED ops)
    BY <1>4 DEF Ask, AtQueue, Write, EditSection, Reject, Persist
  <2>2. \E label \in {"queued", "chained", "failed", "conflict"} : Goto(w, label)
    BY <1>4 DEF Ask, AtQueue, Write, EditSection, Reject, Persist, Leave
  <2>3. pc[w] \in {"idle", "queued"}
    BY <1>4 DEF Ask, AtQueue, Write, EditSection, Reject, Persist, AtFront
  <2>4. \A v \in Writer : pc'[v] \in Busy => pc[v] \in Busy \/ Running(v)
    BY <2>2 DEF Goto, TypeOK, Busy
  <2>5. \A v \in Writer : pc[v] = "republish" => pc'[v] = "republish"
    BY <2>2, <2>3 DEF Goto, TypeOK
  <2> QED
    BY <2>1, <2>4, <2>5, KeepOwned
<1>5. CASE StartReload
  <2>1. Owned'
    BY <1>5 DEF StartReload, Owned, Running
  <2>2. LoadOwned'
    BY <1>5 DEF StartReload, LoadOwned, Running
  <2> QED
    BY <2>1, <2>2
<1>6. CASE SkipReload
  <2>1. Owned'
    BY <1>6, SettingsAssumption DEF SkipReload, Owned, Running
  <2>2. LoadOwned'
    BY <1>6 DEF SkipReload, LoadOwned
  <2> QED
    BY <2>1, <2>2
<1>7. ASSUME NEW l \in Layer, ReadSource(l)
      PROVE  Owned' /\ LoadOwned'
  <2>1. UNCHANGED <<ops, loading, pc>>
    BY <1>7 DEF ReadSource
  <2> QED
    BY <1>0, <2>1, KeepOwned
<1>8. CASE Loaded
  <2>1. ops # <<>> /\ (Head(ops) = Reload \/ pc[Head(ops)] = "republish") /\ ~loading'
    BY <1>8 DEF Loaded, AllRead, LoadOwned
  <2>2. CASE Head(ops) = Reload
    <3>1. UNCHANGED pc
      BY <1>8, <2>2 DEF Loaded
    <3>2. Owned'
      BY <2>2, <3>1, SettingsAssumption DEF Owned, Running
    <3> QED
      BY <2>1, <3>2 DEF LoadOwned
  <2>3. CASE Head(ops) # Reload
    <3>1. Head(ops) \in Writer
      BY <2>1, <2>3, ProceedType DEF TypeOK
    <3>2. Leave(Head(ops), IF Readable(got) THEN "saved" ELSE "failed")
      BY <1>8, <2>3 DEF Loaded
    <3>3. (IF Readable(got) THEN "saved" ELSE "failed") \in Settled
      BY DEF Settled
    <3>4. Owned'
      BY <2>1, <3>1, <3>2, <3>3, ProceedOwned DEF Running
    <3> QED
      BY <2>1, <3>4 DEF LoadOwned
  <2> QED
    BY <2>2, <2>3
<1>9. ASSUME NEW w \in Writer,
             \/ StoreNothing(w) \/ EditNothing(w) \/ FailRead(w) \/ GiveUp(w) \/ FailRename(w)
             \/ Rename(w) /\ call[w].kind = "write"
      PROVE  Owned' /\ LoadOwned'
  <2>1. Running(w) /\ pc[w] # "republish"
    BY <1>9 DEF StoreNothing, EditNothing, FailRead, Changing, Round, GiveUp, FailRename, Rename
  <2>2. UNCHANGED loading /\ \E label \in {"same", "failed", "saved", "conflict"} : Leave(w, label)
    BY <1>9, OutcomeSettled DEF StoreNothing, EditNothing, FailRead, Changing, Round, GiveUp, FailRename, Rename
  <2> QED
    BY <1>0, <2>1, <2>2, EndOwned
<1>10. ASSUME NEW w \in Writer, ReadFile(w) \/ Confirm(w) \/ Retry(w)
       PROVE  Owned' /\ LoadOwned'
  <2>1. UNCHANGED <<loading, ops>> /\ Running(w) /\ pc[w] # "republish"
    BY <1>10 DEF ReadFile, Changing, Round, Confirm, Retry
  <2>2. \E label \in {"recheck", "rename", "again"} : Goto(w, label)
    BY <1>10 DEF ReadFile, Confirm, Retry
  <2>3. \A v \in Writer : pc'[v] \in Busy => pc[v] \in Busy \/ Running(v)
    BY <2>1, <2>2 DEF Goto, TypeOK
  <2>4. \A v \in Writer : pc[v] = "republish" => pc'[v] = "republish"
    BY <2>1, <2>2 DEF Goto, TypeOK
  <2> QED
    BY <1>0, <2>1, <2>3, <2>4, KeepOwned
<1>11. ASSUME NEW w \in Writer, Rename(w), call[w].kind # "write"
       PROVE  Owned' /\ LoadOwned'
  <2>1. loading' /\ Goto(w, "republish") /\ UNCHANGED ops /\ Running(w)
    BY <1>11 DEF Rename
  <2>2. Owned'
    BY <2>1 DEF Owned, Running, Goto, TypeOK
  <2>3. LoadOwned'
    BY <2>1 DEF LoadOwned, Running, Goto, TypeOK
  <2> QED
    BY <2>2, <2>3
<1> QED
  BY <1>1, <1>2, <1>3, <1>4, <1>5, <1>6, <1>7, <1>8, <1>9, <1>10, <1>11 DEF Next, Operate

-----------------------------------------------------------------------------
(* The cache *)

LEMMA InitValid == ASSUME Init PROVE \A n \in Namespace : Valid(resolved[n])
BY DEF Init

LEMMA StoreCoherent ==
  ASSUME TypeOK, Coherent, NEW w \in Writer, Store(w), Valid(work[w].section), UNCHANGED life
  PROVE  Coherent'
<1>1. Ns(w) \in Namespace
  BY DEF TypeOK, Ns, Call
<1>2. shadow' = document'
  BY DEF Store, Coherent
<1>3. \A n \in Namespace : Valid(resolved'[n])
  BY <1>1 DEF Store, Coherent, TypeOK, Document
<1>4. ASSUME ~Stopped', NEW n \in Namespace, Valid(document'[n])
      PROVE  resolved'[n] = document'[n]
  BY <1>1, <1>4 DEF Store, Coherent, TypeOK, Document, Stopped
<1> QED
  BY <1>2, <1>3, <1>4 DEF Coherent, Valid

LEMMA PublishCoherent ==
  ASSUME TypeOK, Coherent, NEW doc \in Document, Publish(doc)
  PROVE  Coherent'
<1>1. \A n \in Namespace : Valid(resolved'[n])
  BY DEF Publish, Coherent
<1>2. \A n \in Namespace : Valid(document'[n]) => resolved'[n] = document'[n]
  BY DEF Publish
<1> QED
  BY <1>1, <1>2 DEF Publish, Coherent, Valid

LEMMA CoherentStep ==
  ASSUME TypeOK, LoadOwned, Computed, Coherent, Next
  PROVE  Coherent'
<1> USE DEF world, cache, chain, calls
<1>1. CASE UNCHANGED cache /\ (Stopped => Stopped')
  BY <1>1 DEF Coherent, Valid
<1>2. CASE Foreign
  BY <1>1, <1>2 DEF Foreign, EditKey, Break, Mend, Rewritten, Stopped
<1>3. CASE Close \/ Dispose \/ \E s \in Source : Notice(s)
  BY <1>1, <1>3 DEF Close, Dispose, WatchersClosed, Stop, Down, Notice, Stopped
<1>4. ASSUME NEW w \in Writer, Ask(w) \/ AtQueue(w)
      PROVE  Coherent'
  BY <1>1, <1>4 DEF Ask, AtQueue, Write, EditSection, Reject, Persist, Stopped
<1>5. CASE StartReload \/ SkipReload \/ \E l \in Layer : ReadSource(l)
  BY <1>1, <1>5 DEF StartReload, SkipReload, ReadSource, Stopped
<1>6. CASE Loaded
  <2>1. CASE Readable(got)
    <3>1. got["user"] \in Document \cup {Malformed, Unread} /\ got["upper"] \in Document \cup {Malformed, Unread}
      BY DEF TypeOK, Layer
    <3>2. Merge(got) \in Document
      BY <1>6, <2>1, <3>1, MergeType DEF Loaded, AllRead, Readable, Layer
    <3>3. Publish(Merge(got))
      BY <1>6, <2>1 DEF Loaded
    <3> QED
      BY <3>2, <3>3, PublishCoherent
  <2>2. CASE ~Readable(got)
    BY <1>1, <1>6, <2>2 DEF Loaded, Stopped
  <2> QED
    BY <2>1, <2>2
<1>7. ASSUME NEW w \in Writer, StoreNothing(w) \/ Rename(w), call[w].kind = "write"
      PROVE  Coherent'
  <2>1. Store(w) /\ UNCHANGED life
    BY <1>7 DEF StoreNothing, Rename
  <2>2. pc[w] \in {"chained", "again", "recheck", "rename"}
    BY <1>7 DEF StoreNothing, Round, Rename
  <2>3. Valid(work[w].section)
    BY <1>7, <2>2 DEF Computed
  <2> QED
    BY <2>1, <2>3, StoreCoherent
<1>8. ASSUME NEW w \in Writer,
             \/ EditNothing(w) \/ ReadFile(w) \/ FailRead(w) \/ Confirm(w) \/ Retry(w) \/ GiveUp(w)
             \/ FailRename(w) \/ (Rename(w) /\ call[w].kind # "write")
      PROVE  Coherent'
  BY <1>1, <1>8 DEF EditNothing, ReadFile, FailRead, Confirm, Retry, GiveUp, FailRename, Rename, Stopped
<1>9. \A w \in Writer : StoreNothing(w) => call[w].kind = "write"
  BY DEF StoreNothing
<1>10. ASSUME NEW w \in Writer,
              \/ StoreNothing(w) \/ EditNothing(w) \/ ReadFile(w) \/ FailRead(w)
              \/ Confirm(w) \/ Retry(w) \/ GiveUp(w) \/ Rename(w) \/ FailRename(w)
       PROVE  Coherent'
  BY <1>7, <1>8, <1>9, <1>10
<1>11. CASE Operate
  BY <1>5, <1>6, <1>10, <1>11 DEF Operate
<1> QED
  BY <1>2, <1>3, <1>4, <1>11 DEF Next

\* A call that is where it was with what it had keeps what it has computed.
LEMMA ComputedStep ==
  ASSUME TypeOK, LoadOwned, Computed, Coherent, Next
  PROVE  Computed'
<1> USE DEF world, cache, chain, calls
<1> DEFINE OnWay == {"chained", "again", "recheck", "rename"}
<1> DEFINE Has(w) == /\ Valid(work[w].section) /\ work[w].base = work[w].current
                     /\ work[w].section = Apply(work[w].current, call[w].patch)
<1>1. ASSUME \A w \in Writer : call'[w].kind = "write" /\ pc'[w] \in OnWay =>
               \/ /\ pc[w] \in OnWay /\ call'[w] = call[w]
                  /\ work'[w].section = work[w].section /\ work'[w].base = work[w].base
                  /\ work'[w].current = work[w].current
               \/ Has(w)'
      PROVE  Computed'
  BY <1>1 DEF Computed, Valid, Apply
<1>2. ASSUME NEW v \in Writer, \E label \in Settled : Leave(v, label)
      PROVE  Computed'
  <2>1. PICK label \in Settled : Leave(v, label)
    BY <1>2
  <2>2. \A w \in Writer : pc'[w] \in OnWay => w # v
    BY <2>1 DEF Leave, Goto, TypeOK, Settled
  <2>3. \A w \in Writer : w # v => pc'[w] = pc[w] /\ call'[w] = call[w] /\ work'[w] = work[w]
    BY <2>1 DEF Leave, Goto, TypeOK
  <2> HIDE DEF OnWay
  <2> QED
    BY <1>1, <2>2, <2>3
<1>3. CASE UNCHANGED calls
  BY <1>1, <1>3
<1>4. CASE Foreign \/ Close \/ Dispose \/ \E s \in Source : Notice(s)
  <2>1. UNCHANGED calls
    BY <1>4 DEF Foreign, EditKey, Break, Mend, Rewritten, Close, Dispose, WatchersClosed, Stop, Down, Notice
  <2> QED
    BY <1>3, <2>1
<1>5. CASE StartReload \/ SkipReload \/ \E l \in Layer : ReadSource(l)
  BY <1>3, <1>5 DEF StartReload, SkipReload, ReadSource
<1>6. CASE Loaded
  <2>1. CASE Head(ops) = Reload
    BY <1>3, <1>6, <2>1 DEF Loaded
  <2>2. CASE Head(ops) # Reload
    <3>1. Head(ops) \in Writer
      BY <1>6, <2>2, ProceedType DEF Loaded, AllRead, LoadOwned, TypeOK
    <3>2. Leave(Head(ops), IF Readable(got) THEN "saved" ELSE "failed")
      BY <1>6, <2>2 DEF Loaded
    <3>3. (IF Readable(got) THEN "saved" ELSE "failed") \in Settled
      BY DEF Settled
    <3> QED
      BY <1>2, <3>1, <3>2, <3>3
  <2> QED
    BY <2>1, <2>2
<1>7. ASSUME NEW v \in Writer,
             \/ Reject(v) \/ StoreNothing(v) \/ EditNothing(v) \/ FailRead(v) \/ GiveUp(v) \/ FailRename(v)
             \/ Rename(v) /\ call[v].kind = "write"
      PROVE  Computed'
  <2>1. "same" \in Settled /\ "failed" \in Settled /\ "saved" \in Settled /\ "conflict" \in Settled
    BY DEF Settled
  <2>2. \E label \in Settled : Leave(v, label)
    BY <1>7, <2>1, OutcomeSettled DEF Reject, StoreNothing, EditNothing, FailRead, GiveUp, FailRename, Rename
  <2> QED
    BY <1>2, <2>2
<1>8. ASSUME NEW v \in Writer, NEW n \in Namespace, NEW p \in Patch,
             \/ \E r \in {NoRevision, revision[n]} : Write(v, n, p, r)
             \/ EditSection(v, n, p)
      PROVE  Computed'
  <2>1. pc'[v] = "queued" \/ call'[v].kind = "edit"
    BY <1>8 DEF Write, EditSection, Goto, TypeOK
  <2>2. \A w \in Writer : w # v => pc'[w] = pc[w] /\ call'[w] = call[w]
    BY <1>8 DEF Write, EditSection, Goto, TypeOK
  <2>3. work' = work
    BY <1>8 DEF Write, EditSection
  <2> QED
    BY <1>1, <2>1, <2>2, <2>3
<1>9. ASSUME NEW v \in Writer, Persist(v)
      PROVE  Computed'
  <2>1. \A w \in Writer : w # v => pc'[w] = pc[w] /\ call'[w] = call[w] /\ work'[w] = work[w]
    BY <1>9 DEF Persist, Goto, TypeOK
  <2>2. /\ work'[v].section = Wanted(v) /\ work'[v].base = shadow[Ns(v)]
        /\ work'[v].current = document[Ns(v)] /\ call'[v] = call[v]
    BY <1>9 DEF Persist, NoWork, TypeOK
  <2>3. Has(v)'
    BY <1>9, <2>2 DEF Persist, Wanted, Coherent, Valid, Apply
  <2> HIDE DEF OnWay, Has
  <2> QED
    BY <1>1, <2>1, <2>3
<1>10. ASSUME NEW v \in Writer, ReadFile(v) \/ Confirm(v) \/ Retry(v) \/ (Rename(v) /\ call[v].kind # "write")
       PROVE  Computed'
  <2>1. pc[v] \in OnWay /\ call' = call
    BY <1>10 DEF ReadFile, Changing, Round, Confirm, Retry, Rename
  <2>2. \A w \in Writer : w # v => pc'[w] = pc[w] /\ work'[w] = work[w]
    BY <1>10 DEF ReadFile, Confirm, Retry, Rename, Goto, TypeOK
  <2>3. /\ work'[v].section = work[v].section /\ work'[v].base = work[v].base
        /\ work'[v].current = work[v].current
    BY <1>10 DEF ReadFile, Confirm, Retry, Rename, TypeOK, Work
  <2> HIDE DEF OnWay
  <2> QED
    BY <1>1, <2>1, <2>2, <2>3
<1> QED
  BY <1>4, <1>5, <1>6, <1>7, <1>8, <1>9, <1>10 DEF Next, Operate, Ask, AtQueue

LEMMA LookedStep ==
  ASSUME TypeOK, Owned, Looked, Next
  PROVE  Looked'
<1> USE DEF world, cache, chain, calls
<1>1. ASSUME file'["user"] = file["user"], exposed' = exposed,
             \A w \in Writer : pc'[w] = "rename" => pc[w] = "rename" /\ work'[w].before = work[w].before
      PROVE  Looked'
  BY <1>1 DEF Looked
<1>2. ASSUME NEW v \in Writer, \E label \in Settled : Leave(v, label)
      PROVE  \A w \in Writer : pc'[w] = "rename" => pc[w] = "rename" /\ work'[w] = work[w]
  <2>1. PICK label \in Settled : Leave(v, label)
    BY <1>2
  <2> QED
    BY <2>1 DEF Leave, Goto, TypeOK, Settled
<1>3. CASE Foreign
  <2>1. \E l \in Layer : Rewritten(l, file'[l])
    <3>1. ASSUME NEW e \in Edit, EditKey(e)
          PROVE  \E l \in Layer : Rewritten(l, file'[l])
      <4>1. e.layer \in Layer
        BY SettingsAssumption
      <4>2. file'[e.layer] = [file[e.layer] EXCEPT ![e.ns][e.key] = e.value]
        BY <3>1, <4>1 DEF EditKey, Rewritten, TypeOK
      <4> QED
        BY <3>1, <4>1, <4>2 DEF EditKey
    <3>2. ASSUME NEW l \in Layer, Break(l) \/ Mend(l)
          PROVE  Rewritten(l, file'[l])
      BY <3>2 DEF Break, Mend, Rewritten, TypeOK
    <3> QED
      BY <1>3, <3>1, <3>2 DEF Foreign
  <2>2. PICK l \in Layer : Rewritten(l, file'[l])
    BY <2>1
  <2>3. CASE l = "user"
    BY <2>2, <2>3 DEF Rewritten, Looked
  <2>4. CASE l # "user"
    <3>1. file'["user"] = file["user"]
      BY <2>2, <2>4 DEF Rewritten, TypeOK, Layer
    <3>2. exposed' = exposed
      BY <2>2, <2>4 DEF Rewritten, TypeOK
    <3> QED
      BY <1>1, <2>2, <3>1, <3>2 DEF Rewritten
  <2> QED
    BY <2>3, <2>4
<1>4. CASE Close \/ Dispose \/ \E s \in Source : Notice(s)
  <2>1. UNCHANGED <<file, exposed, pc, work>>
    BY <1>4 DEF Close, Dispose, WatchersClosed, Stop, Down, Notice
  <2> QED
    BY <1>1, <2>1
<1>5. ASSUME NEW w \in Writer, Ask(w) \/ Persist(w)
      PROVE  Looked'
  <2>1. UNCHANGED <<file, exposed>>
    BY <1>5 DEF Ask, Write, EditSection, Persist
  <2>2. \A v \in Writer : pc'[v] = "rename" => v # w
    BY <1>5 DEF Ask, Write, EditSection, Persist, Goto, TypeOK
  <2>3. \A v \in Writer : v # w => pc'[v] = pc[v] /\ work'[v] = work[v]
    BY <1>5 DEF Ask, Write, EditSection, Persist, Goto, TypeOK
  <2> QED
    BY <1>1, <2>1, <2>2, <2>3
<1>6. CASE StartReload \/ SkipReload \/ \E l \in Layer : ReadSource(l)
  <2>1. UNCHANGED <<file, exposed, pc, work>>
    BY <1>6 DEF StartReload, SkipReload, ReadSource
  <2> QED
    BY <1>1, <2>1
<1>7. CASE Loaded
  <2>1. UNCHANGED <<file, exposed>>
    BY <1>7 DEF Loaded
  <2>2. \A w \in Writer : pc'[w] = "rename" => pc[w] = "rename" /\ work'[w] = work[w]
    <3>1. CASE Head(ops) = Reload
      BY <1>7, <3>1 DEF Loaded
    <3>2. CASE Head(ops) # Reload
      BY <1>7, <3>2 DEF Loaded, Leave, Goto, TypeOK
    <3> QED
      BY <3>1, <3>2
  <2> QED
    BY <1>1, <2>1, <2>2
<1>8. ASSUME NEW v \in Writer,
             Reject(v) \/ StoreNothing(v) \/ EditNothing(v) \/ FailRead(v) \/ GiveUp(v)
      PROVE  Looked'
  <2>1. "same" \in Settled /\ "failed" \in Settled /\ "conflict" \in Settled
    BY DEF Settled
  <2>2. \E label \in Settled : Leave(v, label)
    BY <1>8, <2>1 DEF Reject, StoreNothing, EditNothing, FailRead, GiveUp
  <2>3. UNCHANGED <<file, exposed>>
    BY <1>8 DEF Reject, StoreNothing, EditNothing, FailRead, GiveUp
  <2> QED
    BY <1>1, <1>2, <2>2, <2>3
<1>9. ASSUME NEW v \in Writer, Rename(v) \/ FailRename(v)
      PROVE  Looked'
  <2>1. \A w \in Writer : pc[w] = "rename" => w = v
    BY <1>9 DEF Rename, FailRename, Owned, Running
  <2>2. \E label \in {"saved", "same", "failed", "republish"} : Goto(v, label)
    BY <1>9, OutcomeSettled DEF Rename, FailRename, Leave
  <2>3. \A w \in Writer : pc'[w] # "rename"
    BY <2>1, <2>2 DEF Goto, TypeOK
  <2> QED
    BY <2>3 DEF Looked
<1>10. ASSUME NEW v \in Writer, ReadFile(v) \/ Retry(v)
       PROVE  Looked'
  <2>1. UNCHANGED <<file, exposed>>
    BY <1>10 DEF ReadFile, Retry
  <2>2. \A w \in Writer : pc'[w] = "rename" => w # v
    BY <1>10 DEF ReadFile, Retry, Goto, TypeOK
  <2>3. \A w \in Writer : w # v => pc'[w] = pc[w] /\ work'[w] = work[w]
    BY <1>10 DEF ReadFile, Retry, Goto, TypeOK
  <2> QED
    BY <1>1, <2>1, <2>2, <2>3
<1>11. ASSUME NEW v \in Writer, Confirm(v)
       PROVE  Looked'
  BY <1>11 DEF Confirm, Goto, TypeOK, Looked
<1> QED
  BY <1>3, <1>4, <1>5, <1>6, <1>7, <1>8, <1>9, <1>10, <1>11 DEF Next, Operate, AtQueue

-----------------------------------------------------------------------------
(* The theorems *)

IInv == TypeOK /\ Owned /\ LoadOwned /\ Computed /\ Looked /\ Coherent

LEMMA InitInv == Init => IInv
<1> SUFFICES ASSUME Init PROVE IInv
  OBVIOUS
<1>1. file \in [Layer -> Document]
  BY SettingsAssumption DEF Init
<1>2. Merge(file) \in Document
  BY <1>1, MergeType DEF Layer
<1>3. TypeOK
  <2>1. file \in [Layer -> Document \cup {Malformed}] /\ got \in [Layer -> Document \cup {Malformed, Unread}]
    BY <1>1 DEF Init, AllUnread
  <2>2. document \in Document /\ shadow \in Document /\ resolved \in Document
    BY <1>2 DEF Init
  <2>3. revision \in [Namespace -> Nat] /\ queue \in [Namespace -> Seq(Writer)] /\ ops \in Seq(Writer \cup {Reload})
    BY DEF Init
  <2>4. pc \in [Writer -> Label] /\ call \in [Writer -> Call] /\ work \in [Writer -> Work]
    BY BlankTypes DEF Init, Label, Chained
  <2> QED
    BY <2>1, <2>2, <2>3, <2>4 DEF Init, TypeOK
<1>4. Owned /\ LoadOwned /\ Computed /\ Looked
  BY DEF Init, Owned, LoadOwned, Computed, Looked
<1>5. Coherent
  BY DEF Init, Coherent, Stopped
<1> QED
  BY <1>3, <1>4, <1>5 DEF IInv

LEMMA NextInv == IInv /\ [Next]_vars => IInv'
<1> SUFFICES ASSUME IInv, [Next]_vars PROVE IInv'
  OBVIOUS
<1>1. CASE Next
  <2>1. TypeOK'
    BY <1>1, ForeignType, LifeType, QueueType, ReloadType, RoundType DEF IInv, Next, Operate
  <2> QED
    BY <1>1, <2>1, OwnedStep, ComputedStep, CoherentStep, LookedStep DEF IInv
<1>2. CASE UNCHANGED vars
  BY <1>2 DEF vars, IInv, TypeOK, Owned, LoadOwned, Computed, Looked, Coherent, Running, Valid, Apply, Stopped
<1> QED
  BY <1>1, <1>2

\* The inductive invariant holds of every state of every instance.
THEOREM Invariance == Spec => []IInv
BY InitInv, NextInv, PTL DEF Spec

\* Every variable keeps its type.
THEOREM TypeCorrect == Spec => []TypeOK
<1>1. IInv => TypeOK
  BY DEF IInv
<1> QED
  BY <1>1, Invariance, PTL

\* The document, the shadow and the values of the owners agree in every state.
THEOREM CacheCoherent == Spec => []Coherent
<1>1. IInv => Coherent
  BY DEF IInv
<1> QED
  BY <1>1, Invariance, PTL

\* A write reaches no key of the file that its caller did not name, but for the
\* arrays of the section, which it sets to what they were.
THEOREM OnlyAsked == Spec => OnlyAskedChanged
<1> DEFINE Asked == \A w \in Writer :
       pc[w] = "rename" /\ pc'[w] \in {"saved", "same", "republish"} /\ ~exposed =>
         \A n \in Namespace, k \in Key :
           file'["user"][n][k] # file["user"][n][k] =>
             /\ n = Ns(w)
             /\ \/ k \in DOMAIN call[w].patch
                \/ k \in Resent(w) /\ file'["user"][n][k] = work[w].base[k]
<1>1. ASSUME IInv, [Next]_vars
      PROVE  [Asked]_vars
  <2> SUFFICES ASSUME NEW w \in Writer, pc[w] = "rename", pc'[w] \in {"saved", "same", "republish"}, ~exposed,
                      NEW n \in Namespace, NEW k \in Key,
                      file'["user"][n][k] # file["user"][n][k]
               PROVE  /\ n = Ns(w)
                      /\ \/ k \in DOMAIN call[w].patch
                         \/ k \in Resent(w) /\ file'["user"][n][k] = work[w].base[k]
    OBVIOUS
  <2>1. Running(w) /\ Next
    BY <1>1 DEF IInv, Owned, vars
  <2>2. CASE Rename(w)
    <3>1. call[w] \in Call /\ work[w] \in Work /\ file \in [Layer -> Document \cup {Malformed}]
      BY <1>1 DEF IInv, TypeOK
    <3>2. file["user"] = work[w].before /\ Ns(w) \in Namespace /\ work[w].before \in Document
      BY <1>1, <3>1 DEF IInv, Looked, Ns, Call, Work
    <3>3. file'["user"] = [work[w].before EXCEPT ![Ns(w)] = Apply(@, Delta(w))]
      BY <2>2, <3>1 DEF Rename, Layer
    <3>4. n = Ns(w) /\ Apply(work[w].before[n], Delta(w))[k] # work[w].before[n][k]
      BY <3>2, <3>3 DEF Document
    <3>5. work[w].before[n] \in Section
      BY <3>2 DEF Document
    <3>6. k \in DOMAIN Delta(w)
      BY <3>4, <3>5, ApplyKeeps
    <3>7. CASE call[w].kind = "edit"
      BY <3>4, <3>6, <3>7 DEF Delta
    <3>8. CASE call[w].kind = "write"
      <4>1. work[w].base[k] # work[w].section[k] \/ work[w].section[k] \in Arrays
        BY <3>6, <3>8 DEF Delta, Diff
      <4>2. work[w].base \in Section /\ work[w].section = Apply(work[w].base, call[w].patch)
        BY <1>1, <3>1, <3>8 DEF IInv, Computed, Work
      <4>3. CASE k \in DOMAIN call[w].patch
        BY <3>4, <4>3
      <4>4. CASE k \notin DOMAIN call[w].patch
        <5>1. work[w].section[k] = work[w].base[k]
          BY <4>2, <4>4, ApplyKeeps
        <5>2. k \in Resent(w)
          BY <3>8, <4>1, <5>1 DEF Resent
        <5>3. file'["user"][n][k] = Delta(w)[k]
          BY <3>2, <3>3, <3>4, <3>5, <3>6 DEF Document, Apply
        <5>4. Delta(w)[k] = work[w].section[k]
          BY <3>6, <3>8 DEF Delta, Diff
        <5> QED
          BY <3>4, <5>1, <5>2, <5>3, <5>4
      <4> QED
        BY <4>3, <4>4
    <3> QED
      BY <3>1, <3>7, <3>8 DEF Call
  <2>3. CASE ~Rename(w)
    <3>1. ASSUME UNCHANGED pc
          PROVE  FALSE
      BY <3>1
    <3>2. ASSUME NEW v \in Writer, NEW label \in Label, Goto(v, label), v # w \/ label \notin {"saved", "same", "republish"}
          PROVE  FALSE
      BY <1>1, <3>2 DEF Goto, IInv, TypeOK
    <3>3. CASE Foreign
      BY <3>1, <3>3 DEF Foreign, EditKey, Break, Mend, Rewritten, calls
    <3>4. CASE Close \/ Dispose \/ \E s \in Source : Notice(s)
      BY <3>1, <3>4 DEF Close, Dispose, WatchersClosed, Stop, Down, Notice, calls
    <3>5. CASE StartReload \/ SkipReload \/ \E l \in Layer : ReadSource(l)
      BY <3>1, <3>5 DEF StartReload, SkipReload, ReadSource, calls
    <3>6. CASE Loaded
      <4>1. Head(ops) = w /\ w # Reload
        BY <2>1, SettingsAssumption DEF Running
      <4> QED
        BY <1>1, <3>6, <4>1 DEF Loaded, AllRead, IInv, LoadOwned
    <3>7. ASSUME NEW v \in Writer, Ask(v) \/ AtQueue(v)
          PROVE  FALSE
      <4>1. pc[v] \in {"idle", "queued"}
        BY <3>7 DEF Ask, AtQueue, Write, EditSection, Reject, Persist, AtFront
      <4>2. \E label \in Label : Goto(v, label)
        BY <3>7 DEF Ask, AtQueue, Write, EditSection, Reject, Persist, Leave, Label, Chained, Settled
      <4> QED
        BY <3>2, <4>1, <4>2
    <3>8. ASSUME NEW v \in Writer,
                 \/ StoreNothing(v) \/ EditNothing(v) \/ ReadFile(v) \/ FailRead(v)
                 \/ Confirm(v) \/ Retry(v) \/ GiveUp(v) \/ Rename(v) \/ FailRename(v)
          PROVE  FALSE
      <4>1. v = w
        BY <2>1, <3>8 DEF StoreNothing, EditNothing, ReadFile, FailRead, Changing, Round, Confirm, Retry, GiveUp,
                          Rename, FailRename, Running
      <4>2. FailRename(w)
        BY <2>3, <3>8, <4>1 DEF StoreNothing, EditNothing, ReadFile, FailRead, Changing, Round, Confirm, Retry, GiveUp
      <4>3. Goto(w, "failed") /\ "failed" \in Label
        BY <4>2 DEF FailRename, Leave, Label, Chained, Settled
      <4> QED
        BY <3>2, <4>3
    <3>9. CASE Operate
      BY <3>5, <3>6, <3>8, <3>9 DEF Operate
    <3> QED
      BY <2>1, <3>3, <3>4, <3>7, <3>9 DEF Next
  <2> QED
    BY <2>2, <2>3
<1> QED
  BY <1>1, Invariance, PTL DEF Spec, OnlyAskedChanged

-----------------------------------------------------------------------------
(* The queues of the namespaces                                            *)

Past == {"chained", "again", "recheck", "rename"}

\* A write that has passed the comparison of its revision, or waits for it.
OnWay(w) == call[w].kind = "write" /\ pc[w] \in Past
Waiting(w) == pc[w] = "queued" \/ OnWay(w)

\* In the queue of a namespace are its waiting writes, each once; only the
\* first may be on its way to the file.
InPlace(w, n, i) ==
  /\ call[w].kind = "write" /\ call[w].ns = n
  /\ pc[w] = "queued" \/ (i = 1 /\ pc[w] \in Past)

QueuedFor(n, i) == InPlace(queue[n][i], n, i)

Queued ==
  /\ \A n \in Namespace : \A i \in 1..Len(queue[n]) : QueuedFor(n, i)
  /\ \A n \in Namespace : \A i, j \in 1..Len(queue[n]) : queue[n][i] = queue[n][j] => i = j
  /\ \A w \in Writer : Waiting(w) => \E i \in 1..Len(queue[Ns(w)]) : queue[Ns(w)][i] = w

LEMMA NsType == ASSUME TypeOK PROVE \A w \in Writer : Ns(w) \in Namespace
BY DEF TypeOK, Call, Ns

LEMMA OneOnWay ==
  ASSUME TypeOK, Queued, NEW v \in Writer, NEW w \in Writer, OnWay(v), Waiting(w), Ns(v) = Ns(w)
  PROVE  /\ queue[Ns(v)] # <<>> /\ Head(queue[Ns(v)]) = v
         /\ OnWay(w) => v = w
<1>1. queue[Ns(v)] \in Seq(Writer) /\ Ns(v) \in Namespace
  BY NsType DEF TypeOK
<1>2. ASSUME NEW u \in Writer, OnWay(u), Ns(u) = Ns(v)
      PROVE  queue[Ns(v)][1] = u /\ queue[Ns(v)] # <<>>
  <2>1. PICK i \in 1..Len(queue[Ns(v)]) : queue[Ns(v)][i] = u
    BY <1>2 DEF Queued, Waiting
  <2>2. i = 1
    BY <1>1, <1>2, <2>1 DEF Queued, QueuedFor, InPlace, Ns, OnWay, Past
  <2> QED
    BY <1>1, <2>1, <2>2
<1>3. queue[Ns(v)][1] = v /\ queue[Ns(v)] # <<>>
  BY <1>2
<1>4. OnWay(w) => v = w
  BY <1>2, <1>3
<1> QED
  BY <1>1, <1>3, <1>4

\* A step that moves nothing in a queue, and no waiting write out of its place.
LEMMA QueuedKept ==
  ASSUME TypeOK, Queued, UNCHANGED <<queue, call>>,
         \A w \in Writer : \/ pc'[w] = pc[w]
                           \/ call[w].kind = "edit" /\ pc[w] # "queued" /\ pc'[w] # "queued"
                           \/ pc[w] \in Past /\ pc'[w] \in Past
  PROVE  Queued'
<1>1. \A w \in Writer : Ns(w)' = Ns(w)
  BY DEF Ns
<1>2. ASSUME NEW n \in Namespace, NEW i \in 1..Len(queue[n])
      PROVE  QueuedFor(n, i)'
  <2>1. queue[n][i] \in Writer
    BY DEF TypeOK
  <2>2. InPlace(queue[n][i], n, i)
    BY DEF Queued, QueuedFor
  <2>3. ASSUME NEW w \in Writer, InPlace(w, n, i)
        PROVE  InPlace(w, n, i)'
    BY <2>3 DEF InPlace, Past
  <2>4. PICK w \in Writer : w = queue[n][i] /\ InPlace(w, n, i)
    BY <2>1, <2>2
  <2>5. InPlace(w, n, i)' /\ queue'[n][i] = w
    BY <2>3, <2>4
  <2> QED
    BY <2>5 DEF QueuedFor, InPlace
<1>3. ASSUME NEW w \in Writer, Waiting(w)' PROVE Waiting(w)
  BY <1>3 DEF Waiting, OnWay, Past
<1> QED
  BY <1>1, <1>2, <1>3 DEF Queued

\* A call settles that is first in its queue, or in none.
LEMMA QueuedLeaves ==
  ASSUME TypeOK, Queued, NEW v \in Writer, NEW label \in Settled, Leave(v, label),
         \/ pc[v] = "queued" /\ Head(queue[Ns(v)]) = v
         \/ OnWay(v)
         \/ call[v].kind = "edit"
  PROVE  Queued'
<1>0. \A n \in Namespace : queue[n] \in Seq(Writer)
  BY DEF TypeOK
<1>1. \A w \in Writer : w # v => pc'[w] = pc[w] /\ call'[w] = call[w] /\ Ns(w)' = Ns(w)
  BY DEF Leave, Goto, TypeOK, Ns
<1>2. pc'[v] \in Settled /\ ~Waiting(v)'
  BY DEF Leave, Goto, TypeOK, Settled, Waiting, OnWay, Past
<1>3. Waiting(v) => queue[Ns(v)] # <<>> /\ Head(queue[Ns(v)]) = v
  <2>1. CASE OnWay(v)
    BY <2>1, OneOnWay DEF Waiting
  <2>2. CASE pc[v] = "queued"
    <3>1. PICK i \in 1..Len(queue[Ns(v)]) : queue[Ns(v)][i] = v
      BY <2>2 DEF Queued, Waiting
    <3>2. queue[Ns(v)] # <<>> /\ call[v].kind = "write"
      BY <1>0, <3>1, NsType DEF Queued, QueuedFor, InPlace
    <3> QED
      BY <2>2, <3>2 DEF OnWay, Past
  <2> QED
    BY <2>1, <2>2 DEF Waiting
<1>4. ASSUME NEW n \in Namespace
      PROVE  IF Waiting(v) /\ n = Ns(v)
             THEN /\ queue'[n] = Tail(queue[n]) /\ Len(queue[n]) \in Nat
                  /\ queue[n] # <<>> /\ queue[n][1] = v /\ Len(queue'[n]) = Len(queue[n]) - 1
                  /\ \A i \in 1..Len(queue[n]) - 1 :
                       queue'[n][i] = queue[n][i + 1] /\ i + 1 \in 2..Len(queue[n])
             ELSE queue'[n] = queue[n] /\ \A i \in 1..Len(queue[n]) : queue[n][i] # v
  <2>1. CASE Waiting(v) /\ n = Ns(v)
    <3>1. queue[n] # <<>> /\ Head(queue[n]) = v /\ queue[n] \in Seq(Writer)
      BY <1>0, <1>3, <2>1
    <3>2. queue'[n] = Tail(queue[n])
      BY <3>1 DEF Leave
    <3> QED
      BY <2>1, <3>1, <3>2
  <2>2. CASE ~(Waiting(v) /\ n = Ns(v))
    <3>1. ASSUME NEW i \in 1..Len(queue[n]), queue[n][i] = v PROVE FALSE
      BY <2>2, <3>1 DEF Queued, QueuedFor, InPlace, Ns, Waiting, OnWay
    <3>2. queue[n] # <<>> => Head(queue[n]) # v
      BY <1>0, <3>1
    <3>3. queue'[n] = queue[n]
      BY <3>2 DEF Leave
    <3> QED
      BY <2>2, <3>1, <3>3
  <2> QED
    BY <2>1, <2>2
<1>5. ASSUME NEW n \in Namespace, NEW i \in 1..Len(queue'[n])
      PROVE  \E j \in 1..Len(queue[n]) :
               /\ queue'[n][i] = queue[n][j] /\ queue[n][j] # v /\ i <= j
               /\ Waiting(v) /\ n = Ns(v) => j = i + 1
               /\ ~(Waiting(v) /\ n = Ns(v)) => j = i
  <2>1. CASE Waiting(v) /\ n = Ns(v)
    <3>1. i + 1 \in 1..Len(queue[n]) /\ queue'[n][i] = queue[n][i + 1] /\ i + 1 # 1 /\ 1 \in 1..Len(queue[n])
      BY <1>4, <1>5, <2>1
    <3>2. queue[n][i + 1] # v
      BY <1>4, <2>1, <3>1 DEF Queued
    <3> QED
      BY <1>5, <2>1, <3>1, <3>2
  <2>2. CASE ~(Waiting(v) /\ n = Ns(v))
    BY <1>0, <1>4, <1>5, <2>2
  <2> QED
    BY <2>1, <2>2
<1>6. ASSUME NEW n \in Namespace, NEW i \in 1..Len(queue'[n])
      PROVE  QueuedFor(n, i)'
  <2>1. PICK j \in 1..Len(queue[n]) :
          /\ queue'[n][i] = queue[n][j] /\ queue[n][j] # v /\ i <= j
          /\ Waiting(v) /\ n = Ns(v) => j = i + 1
          /\ ~(Waiting(v) /\ n = Ns(v)) => j = i
    BY <1>5
  <2>2. queue[n][j] \in Writer /\ i \in Nat /\ j \in Nat /\ i >= 1
    BY <1>0
  <2>3. InPlace(queue[n][j], n, j)
    BY DEF Queued, QueuedFor
  <2>4. PICK w \in Writer : w = queue[n][j] /\ InPlace(w, n, j)
    BY <2>2, <2>3
  <2>5. w # v /\ queue'[n][i] = w /\ (j = 1 => i = 1)
    BY <2>1, <2>2, <2>4
  <2>6. InPlace(w, n, i)'
    BY <1>1, <2>4, <2>5 DEF InPlace
  <2> QED
    BY <2>5, <2>6 DEF QueuedFor, InPlace
<1>7. ASSUME NEW n \in Namespace, NEW i \in 1..Len(queue'[n]), NEW j \in 1..Len(queue'[n]),
             queue'[n][i] = queue'[n][j]
      PROVE  i = j
  <2>1. CASE Waiting(v) /\ n = Ns(v)
    <3>1. /\ i + 1 \in 1..Len(queue[n]) /\ j + 1 \in 1..Len(queue[n])
          /\ queue'[n][i] = queue[n][i + 1] /\ queue'[n][j] = queue[n][j + 1]
      BY <1>4, <1>7, <2>1
    <3>2. i + 1 = j + 1
      BY <1>7, <3>1 DEF Queued
    <3> QED
      BY <1>7, <3>2
  <2>2. CASE ~(Waiting(v) /\ n = Ns(v))
    BY <1>4, <1>7, <2>2 DEF Queued
  <2> QED
    BY <2>1, <2>2
<1>8. ASSUME NEW w \in Writer, Waiting(w)'
      PROVE  \E i \in 1..Len(queue'[Ns(w)']) : queue'[Ns(w)'][i] = w
  <2>1. w # v /\ Waiting(w) /\ Ns(w)' = Ns(w)
    BY <1>1, <1>2, <1>8 DEF Waiting, OnWay
  <2>2. PICK j \in 1..Len(queue[Ns(w)]) : queue[Ns(w)][j] = w
    BY <2>1 DEF Queued
  <2>3. Ns(w) \in Namespace
    BY NsType
  <2>4. CASE Waiting(v) /\ Ns(w) = Ns(v)
    <3>1. j # 1 /\ j - 1 \in 1..Len(queue[Ns(w)]) - 1 /\ (j - 1) + 1 = j
      BY <1>4, <2>1, <2>2, <2>3, <2>4
    <3>2. j - 1 \in 1..Len(queue'[Ns(w)]) /\ queue'[Ns(w)][j - 1] = w
      BY <1>4, <2>2, <2>3, <2>4, <3>1
    <3> QED
      BY <2>1, <3>2
  <2>5. CASE ~(Waiting(v) /\ Ns(w) = Ns(v))
    BY <1>4, <2>1, <2>2, <2>3, <2>5
  <2> QED
    BY <2>4, <2>5
<1>9. (\A n \in Namespace : \A i \in 1..Len(queue[n]) : QueuedFor(n, i))'
  BY <1>6
<1> QED
  BY <1>7, <1>8, <1>9 DEF Queued

\* A load that is not a reload's belongs to an edit.
Republishing == \A w \in Writer : pc[w] = "republish" => call[w].kind = "edit"

\* A call goes in at the end of its queue.
LEMMA WriteQueued ==
  ASSUME TypeOK, Queued, NEW v \in Writer, NEW n \in Namespace, NEW p \in Patch, NEW r, Write(v, n, p, r)
  PROVE  Queued'
<1>0. \A m \in Namespace : queue[m] \in Seq(Writer)
  BY DEF TypeOK
<1>1. /\ pc'[v] = "queued" /\ call'[v].kind = "write" /\ call'[v].ns = n
      /\ \A w \in Writer : w # v => pc'[w] = pc[w] /\ call'[w] = call[w]
  BY DEF Write, Goto, TypeOK
<1>2. \A m \in Namespace : \A i \in 1..Len(queue[m]) : queue[m][i] # v
  BY DEF Write, Queued, QueuedFor, InPlace, Past
<1>3. queue'[n] = Append(queue[n], v) /\ \A m \in Namespace : m # n => queue'[m] = queue[m]
  BY DEF Write, TypeOK
<1>4. ASSUME NEW m \in Namespace
      PROVE  /\ Len(queue[m]) \in Nat
             /\ Len(queue'[m]) = IF m = n THEN Len(queue[m]) + 1 ELSE Len(queue[m])
             /\ \A i \in 1..Len(queue[m]) : queue'[m][i] = queue[m][i]
             /\ m = n => queue'[m][Len(queue[m]) + 1] = v
  BY <1>0, <1>3
<1>5. ASSUME NEW m \in Namespace, NEW i \in 1..Len(queue'[m])
      PROVE  i \in 1..Len(queue[m]) \/ (m = n /\ queue'[m][i] = v /\ i = Len(queue[m]) + 1)
  BY <1>4, <1>5
<1>6. ASSUME NEW m \in Namespace, NEW i \in 1..Len(queue'[m])
      PROVE  QueuedFor(m, i)'
  <2>1. CASE i \in 1..Len(queue[m])
    <3>1. PICK w \in Writer : w = queue[m][i] /\ InPlace(w, m, i)
      BY <1>0, <2>1 DEF Queued, QueuedFor
    <3>2. queue'[m][i] = w /\ w # v
      BY <1>2, <1>4, <2>1, <3>1
    <3>3. InPlace(w, m, i)'
      BY <1>1, <3>1, <3>2 DEF InPlace
    <3> QED
      BY <3>2, <3>3 DEF QueuedFor, InPlace
  <2>2. CASE m = n /\ queue'[m][i] = v
    BY <1>1, <2>2 DEF QueuedFor, InPlace
  <2> QED
    BY <1>5, <2>1, <2>2
<1>7. ASSUME NEW m \in Namespace, NEW i \in 1..Len(queue'[m]), NEW j \in 1..Len(queue'[m]),
             queue'[m][i] = queue'[m][j]
      PROVE  i = j
  <2>1. \A k \in 1..Len(queue[m]) : queue'[m][k] # v /\ queue'[m][k] = queue[m][k]
    BY <1>2, <1>4
  <2>2. CASE i \in 1..Len(queue[m]) /\ j \in 1..Len(queue[m])
    BY <1>7, <2>1, <2>2 DEF Queued
  <2> QED
    BY <1>5, <1>7, <2>1, <2>2
<1>8. ASSUME NEW w \in Writer, Waiting(w)'
      PROVE  \E i \in 1..Len(queue'[Ns(w)']) : queue'[Ns(w)'][i] = w
  <2>1. CASE w = v
    <3>1. Ns(w)' = n
      BY <1>1, <2>1 DEF Ns
    <3>2. Len(queue[n]) + 1 \in 1..Len(queue'[n])
      BY <1>4
    <3> QED
      BY <1>4, <2>1, <3>1, <3>2
  <2>2. CASE w # v
    <3>1. Waiting(w) /\ Ns(w)' = Ns(w) /\ Ns(w) \in Namespace
      BY <1>1, <1>8, <2>2, NsType DEF Waiting, OnWay, Ns
    <3>2. PICK i \in 1..Len(queue[Ns(w)]) : queue[Ns(w)][i] = w
      BY <3>1 DEF Queued
    <3>3. i \in 1..Len(queue'[Ns(w)]) /\ queue'[Ns(w)][i] = w
      BY <1>4, <3>1, <3>2
    <3> QED
      BY <3>1, <3>3
  <2> QED
    BY <2>1, <2>2
<1>9. (\A m \in Namespace : \A i \in 1..Len(queue[m]) : QueuedFor(m, i))'
  BY <1>6
<1> QED
  BY <1>7, <1>8, <1>9 DEF Queued

\* The first of a queue goes on its way, in its place.
LEMMA PersistQueued ==
  ASSUME TypeOK, Queued, NEW v \in Writer, Persist(v)
  PROVE  Queued'
<1>0. \A m \in Namespace : queue[m] \in Seq(Writer)
  BY DEF TypeOK
<1>1. /\ pc'[v] = "chained" /\ queue' = queue /\ call' = call
      /\ \A w \in Writer : w # v => pc'[w] = pc[w]
  BY DEF Persist, Goto, TypeOK
<1>2. pc[v] = "queued" /\ Head(queue[Ns(v)]) = v /\ Ns(v) \in Namespace
  BY NsType DEF Persist, AtFront
<1>3. PICK k \in 1..Len(queue[Ns(v)]) : queue[Ns(v)][k] = v
  BY <1>2 DEF Queued, Waiting
<1>4. call[v].kind = "write" /\ 1 \in 1..Len(queue[Ns(v)]) /\ queue[Ns(v)][1] = v
  BY <1>0, <1>2, <1>3 DEF Queued, QueuedFor, InPlace
<1>5. ASSUME NEW n \in Namespace, NEW i \in 1..Len(queue[n])
      PROVE  QueuedFor(n, i)'
  <2>1. PICK w \in Writer : w = queue[n][i] /\ InPlace(w, n, i)
    BY <1>0 DEF Queued, QueuedFor
  <2>2. CASE w # v
    <3>1. InPlace(w, n, i)'
      BY <1>1, <2>1, <2>2 DEF InPlace
    <3> QED
      BY <1>1, <2>1, <3>1 DEF QueuedFor, InPlace
  <2>3. CASE w = v
    <3>1. n = Ns(v)
      BY <2>1, <2>3 DEF InPlace, Ns
    <3>2. \A a, b \in 1..Len(queue[n]) : queue[n][a] = queue[n][b] => a = b
      BY DEF Queued
    <3>3. 1 \in 1..Len(queue[n]) /\ queue[n][1] = queue[n][i]
      BY <1>4, <2>1, <2>3, <3>1
    <3>4. i = 1
      BY <3>2, <3>3
    <3>5. InPlace(v, n, i)'
      BY <1>1, <1>4, <3>1, <3>4 DEF InPlace, Ns, Past
    <3> QED
      BY <1>1, <2>1, <2>3, <3>5 DEF QueuedFor, InPlace
  <2> QED
    BY <2>2, <2>3
<1>6. ASSUME NEW w \in Writer, Waiting(w)'
      PROVE  Waiting(w) /\ Ns(w)' = Ns(w)
  BY <1>1, <1>2, <1>6 DEF Waiting, OnWay, Ns
<1>7. (\A m \in Namespace : \A i \in 1..Len(queue[m]) : QueuedFor(m, i))'
  BY <1>1, <1>5
<1>8. (\A w \in Writer : Waiting(w) => \E i \in 1..Len(queue[Ns(w)]) : queue[Ns(w)][i] = w)'
  BY <1>1, <1>6 DEF Queued
<1>9. (\A n \in Namespace : \A i, j \in 1..Len(queue[n]) : queue[n][i] = queue[n][j] => i = j)'
  BY <1>1 DEF Queued
<1> QED
  BY <1>7, <1>8, <1>9 DEF Queued

LEMMA QueuedStep ==
  ASSUME TypeOK, LoadOwned, Republishing, Queued, Next
  PROVE  Queued'
<1> USE DEF world, cache, chain, calls
<1>1. CASE UNCHANGED calls
  BY <1>1, QueuedKept
<1>2. CASE Foreign \/ Close \/ Dispose \/ \E s \in Source : Notice(s)
  <2>1. UNCHANGED calls
    BY <1>2 DEF Foreign, EditKey, Break, Mend, Rewritten, Close, Dispose, WatchersClosed, Stop, Down, Notice
  <2> QED
    BY <1>1, <2>1
<1>3. CASE StartReload \/ SkipReload \/ \E l \in Layer : ReadSource(l)
  BY <1>1, <1>3 DEF StartReload, SkipReload, ReadSource
<1>4. CASE Loaded
  <2>1. CASE Head(ops) = Reload
    BY <1>1, <1>4, <2>1 DEF Loaded
  <2>2. CASE Head(ops) # Reload
    <3>1. Head(ops) \in Writer /\ pc[Head(ops)] = "republish"
      BY <1>4, <2>2, ProceedType DEF Loaded, AllRead, LoadOwned, TypeOK
    <3>2. Leave(Head(ops), IF Readable(got) THEN "saved" ELSE "failed")
      BY <1>4, <2>2 DEF Loaded
    <3>3. (IF Readable(got) THEN "saved" ELSE "failed") \in Settled
      BY DEF Settled
    <3>4. call[Head(ops)].kind = "edit"
      BY <3>1 DEF Republishing
    <3> QED
      BY <3>1, <3>2, <3>3, <3>4, QueuedLeaves
  <2> QED
    BY <2>1, <2>2
<1>5. ASSUME NEW v \in Writer,
             \/ Reject(v) \/ StoreNothing(v) \/ EditNothing(v) \/ FailRead(v) \/ GiveUp(v) \/ FailRename(v)
             \/ Rename(v) /\ call[v].kind = "write"
      PROVE  Queued'
  <2>1. "same" \in Settled /\ "failed" \in Settled /\ "saved" \in Settled /\ "conflict" \in Settled
    BY DEF Settled
  <2>2. \E label \in Settled : Leave(v, label)
    BY <1>5, <2>1, OutcomeSettled DEF Reject, StoreNothing, EditNothing, FailRead, GiveUp, FailRename, Rename
  <2>3. call[v].kind \in {"write", "edit"}
    BY DEF TypeOK, Call
  <2>4. pc[v] \in Past \/ (pc[v] = "queued" /\ Head(queue[Ns(v)]) = v)
    BY <1>5 DEF Reject, AtFront, StoreNothing, EditNothing, FailRead, Changing, Round, GiveUp, FailRename, Rename, Past
  <2>5. \/ pc[v] = "queued" /\ Head(queue[Ns(v)]) = v
        \/ OnWay(v)
        \/ call[v].kind = "edit"
    BY <2>3, <2>4 DEF OnWay
  <2> QED
    BY <2>2, <2>5, QueuedLeaves
<1>6. ASSUME NEW v \in Writer, NEW n \in Namespace, NEW p \in Patch, EditSection(v, n, p)
      PROVE  Queued'
  <2>1. /\ pc'[v] = "chained" /\ call'[v].kind = "edit" /\ queue' = queue /\ pc[v] = "idle"
        /\ \A w \in Writer : w # v => pc'[w] = pc[w] /\ call'[w] = call[w]
    BY <1>6 DEF EditSection, Goto, TypeOK
  <2>2. ASSUME NEW m \in Namespace, NEW i \in 1..Len(queue[m])
        PROVE  QueuedFor(m, i)'
    <3>1. PICK w \in Writer : w = queue[m][i] /\ InPlace(w, m, i)
      BY DEF TypeOK, Queued, QueuedFor
    <3>2. InPlace(w, m, i)'
      BY <2>1, <3>1 DEF InPlace, Past
    <3> QED
      BY <2>1, <3>1, <3>2 DEF QueuedFor, InPlace
  <2>3. ASSUME NEW w \in Writer, Waiting(w)'
        PROVE  Waiting(w) /\ Ns(w)' = Ns(w)
    BY <2>1, <2>3 DEF Waiting, OnWay, Ns
  <2>4. (\A m \in Namespace : \A i \in 1..Len(queue[m]) : QueuedFor(m, i))'
    BY <2>1, <2>2
  <2>5. (\A w \in Writer : Waiting(w) => \E i \in 1..Len(queue[Ns(w)]) : queue[Ns(w)][i] = w)'
    BY <2>1, <2>3 DEF Queued
  <2>6. (\A m \in Namespace : \A i, j \in 1..Len(queue[m]) : queue[m][i] = queue[m][j] => i = j)'
    BY <2>1 DEF Queued
  <2> QED
    BY <2>4, <2>5, <2>6 DEF Queued
<1>7. ASSUME NEW v \in Writer, ReadFile(v) \/ Confirm(v) \/ Retry(v) \/ (Rename(v) /\ call[v].kind # "write")
      PROVE  Queued'
  <2>1. UNCHANGED <<queue, call>> /\ pc[v] \in Past
    BY <1>7 DEF ReadFile, Changing, Round, Confirm, Retry, Rename, Past
  <2>2. pc'[v] \in Past \/ (call[v].kind = "edit" /\ pc'[v] # "queued" /\ pc[v] # "queued")
    BY <1>7, <2>1 DEF ReadFile, Confirm, Retry, Rename, Goto, TypeOK, Call, Past
  <2>3. \A w \in Writer : w # v => pc'[w] = pc[w]
    BY <1>7 DEF ReadFile, Confirm, Retry, Rename, Goto, TypeOK
  <2> QED
    BY <2>1, <2>2, <2>3, QueuedKept
<1> QED
  BY <1>2, <1>3, <1>4, <1>5, <1>6, <1>7, WriteQueued, PersistQueued DEF Next, Operate, Ask, AtQueue

-----------------------------------------------------------------------------
(* How a call moves *)

\* What a step may do to a call: a write starts to wait while the service is
\* not stopped and with the revision of that time or none, passes the front of
\* its queue in a Persist, its reads in a ReadFile, and is saved by a Rename.
StartsWaiting(w) ==
  /\ ~Stopped /\ Waiting(w)' /\ ~OnWay(w)' /\ call'[w].kind = "write"
  /\ call'[w].expected \in {NoRevision, revision[Ns(w)']}

Moved(w) ==
  /\ Waiting(w)' => StartsWaiting(w) \/ (Waiting(w) /\ call'[w] = call[w])
  /\ OnWay(w)' => OnWay(w) \/ Persist(w)
  /\ pc'[w] = "saved" /\ call'[w].kind = "write" =>
       call'[w] = call[w] /\ (pc[w] = "saved" \/ (Rename(w) /\ call[w].kind = "write"))
  /\ pc'[w] \in {"again", "recheck", "rename"} =>
       call'[w] = call[w] /\ (pc[w] \in {"again", "recheck", "rename"} \/ ReadFile(w))
  /\ pc'[w] = "republish" =>
       call'[w] = call[w] /\ (pc[w] = "republish" \/ (pc[w] = "rename" /\ call[w].kind = "edit"))

LEMMA MovedStep ==
  ASSUME TypeOK, LoadOwned, Republishing, Next
  PROVE  \A w \in Writer : Moved(w)
<1> USE DEF world, cache, chain, calls
<1>1. ASSUME NEW w \in Writer, pc'[w] = pc[w], call'[w] = call[w], work'[w] = work[w]
      PROVE  Moved(w)
  <2>1. Waiting(w)' <=> Waiting(w)
    BY <1>1 DEF Waiting, OnWay
  <2>2. OnWay(w)' <=> OnWay(w)
    BY <1>1 DEF OnWay
  <2> QED
    BY <1>1, <2>1, <2>2 DEF Moved
<1>2. ASSUME NEW w \in Writer, pc'[w] \in Settled,
             pc'[w] = "saved" /\ call'[w].kind = "write" => call'[w] = call[w] /\ Rename(w) /\ call[w].kind = "write"
      PROVE  Moved(w)
  <2>1. ~Waiting(w)' /\ ~OnWay(w)'
    BY <1>2 DEF Waiting, OnWay, Past, Settled
  <2> QED
    BY <1>2, <2>1 DEF Moved, Settled
<1>3. CASE UNCHANGED calls
  BY <1>1, <1>3
<1>4. CASE Foreign \/ Close \/ Dispose \/ \E s \in Source : Notice(s)
  <2>1. UNCHANGED calls
    BY <1>4 DEF Foreign, EditKey, Break, Mend, Rewritten, Close, Dispose, WatchersClosed, Stop, Down, Notice
  <2> QED
    BY <1>3, <2>1
<1>5. CASE StartReload \/ SkipReload \/ \E l \in Layer : ReadSource(l)
  BY <1>3, <1>5 DEF StartReload, SkipReload, ReadSource
<1>6. ASSUME NEW v \in Writer, NEW label \in Settled, Leave(v, label),
             label = "saved" /\ call[v].kind = "write" => Rename(v)
      PROVE  \A w \in Writer : Moved(w)
  <2>1. pc'[v] = label /\ (label = "saved" => call' = call)
    BY <1>6 DEF Leave, Goto, TypeOK
  <2>2. Moved(v)
    BY <1>2, <1>6, <2>1
  <2>3. \A w \in Writer : w # v => pc'[w] = pc[w] /\ call'[w] = call[w] /\ work'[w] = work[w]
    BY <1>6 DEF Leave, Goto, TypeOK
  <2> QED
    BY <1>1, <2>2, <2>3
<1>7. CASE Loaded
  <2>1. CASE Head(ops) = Reload
    BY <1>3, <1>7, <2>1 DEF Loaded
  <2>2. CASE Head(ops) # Reload
    <3>1. Head(ops) \in Writer /\ pc[Head(ops)] = "republish"
      BY <1>7, <2>2, ProceedType DEF Loaded, AllRead, LoadOwned, TypeOK
    <3>2. Leave(Head(ops), IF Readable(got) THEN "saved" ELSE "failed")
      BY <1>7, <2>2 DEF Loaded
    <3>3. (IF Readable(got) THEN "saved" ELSE "failed") \in Settled
      BY DEF Settled
    <3>4. call[Head(ops)].kind = "edit"
      BY <3>1 DEF Republishing
    <3> QED
      BY <1>6, <3>1, <3>2, <3>3, <3>4
  <2> QED
    BY <2>1, <2>2
<1>8. ASSUME NEW v \in Writer,
             \/ Reject(v) \/ StoreNothing(v) \/ EditNothing(v) \/ FailRead(v) \/ GiveUp(v) \/ FailRename(v)
             \/ Rename(v) /\ call[v].kind = "write"
      PROVE  \A w \in Writer : Moved(w)
  <2>1. "same" \in Settled /\ "failed" \in Settled /\ "saved" \in Settled /\ "conflict" \in Settled
    BY DEF Settled
  <2>2. \E label \in Settled : Leave(v, label) /\ (label = "saved" => Rename(v))
    BY <1>8, <2>1, OutcomeSettled DEF Reject, StoreNothing, EditNothing, FailRead, GiveUp, FailRename, Rename
  <2> QED
    BY <1>6, <2>2
<1>9. ASSUME NEW v \in Writer, NEW n \in Namespace, NEW p \in Patch, NEW r \in {NoRevision, revision[n]},
             Write(v, n, p, r)
      PROVE  \A w \in Writer : Moved(w)
  <2>1. /\ pc'[v] = "queued" /\ call'[v].kind = "write" /\ call'[v].ns = n /\ call'[v].expected = r
        /\ \A w \in Writer : w # v => pc'[w] = pc[w] /\ call'[w] = call[w] /\ work'[w] = work[w]
    BY <1>9 DEF Write, Goto, TypeOK
  <2>2. Waiting(v)' /\ ~OnWay(v)' /\ StartsWaiting(v)
    BY <1>9, <2>1 DEF Write, StartsWaiting, Waiting, OnWay, Past, Ns
  <2>3. Moved(v)
    BY <2>1, <2>2 DEF Moved
  <2> QED
    BY <1>1, <2>1, <2>3
<1>10. ASSUME NEW v \in Writer, NEW n \in Namespace, NEW p \in Patch, EditSection(v, n, p)
       PROVE  \A w \in Writer : Moved(w)
  <2>1. /\ pc'[v] = "chained" /\ call'[v].kind = "edit"
        /\ \A w \in Writer : w # v => pc'[w] = pc[w] /\ call'[w] = call[w] /\ work'[w] = work[w]
    BY <1>10 DEF EditSection, Goto, TypeOK
  <2>2. ~Waiting(v)' /\ ~OnWay(v)'
    BY <2>1 DEF Waiting, OnWay
  <2>3. Moved(v)
    BY <2>1, <2>2 DEF Moved
  <2> QED
    BY <1>1, <2>1, <2>3
<1>11. ASSUME NEW v \in Writer, Persist(v)
       PROVE  \A w \in Writer : Moved(w)
  <2>1. /\ pc'[v] = "chained" /\ call' = call /\ pc[v] = "queued"
        /\ \A w \in Writer : w # v => pc'[w] = pc[w] /\ work'[w] = work[w]
    BY <1>11 DEF Persist, AtFront, Goto, TypeOK
  <2>2. Waiting(v)
    BY <2>1 DEF Waiting
  <2>3. Moved(v)
    BY <1>11, <2>1, <2>2 DEF Moved
  <2> QED
    BY <1>1, <2>1, <2>3
<1>12. ASSUME NEW v \in Writer, ReadFile(v) \/ Confirm(v) \/ Retry(v) \/ (Rename(v) /\ call[v].kind # "write")
       PROVE  \A w \in Writer : Moved(w)
  <2>1. /\ call' = call /\ pc[v] \in Past
        /\ \A w \in Writer : w # v => pc'[w] = pc[w] /\ work'[w] = work[w]
    BY <1>12 DEF ReadFile, Changing, Round, Confirm, Retry, Rename, Goto, TypeOK, Past
  <2>2. work'[v].section = work[v].section /\ work'[v].base = work[v].base
    BY <1>12 DEF ReadFile, Confirm, Retry, Rename, TypeOK, Work
  <2>3. \/ /\ pc'[v] \in {"again", "recheck", "rename"}
           /\ pc[v] \in {"again", "recheck", "rename"} \/ ReadFile(v)
        \/ pc'[v] = "republish" /\ pc[v] = "rename" /\ call[v].kind = "edit"
    BY <1>12 DEF ReadFile, Confirm, Retry, Rename, Goto, TypeOK, Call
  <2>4. (Waiting(v)' => Waiting(v)) /\ (OnWay(v)' => OnWay(v))
    BY <2>1, <2>3 DEF Waiting, OnWay, Past
  <2>5. Moved(v)
    BY <2>1, <2>2, <2>3, <2>4 DEF Moved
  <2> QED
    BY <1>1, <2>1, <2>5
<1> QED
  BY <1>4, <1>5, <1>7, <1>8, <1>9, <1>10, <1>11, <1>12 DEF Next, Operate, Ask, AtQueue

-----------------------------------------------------------------------------
(* Stopping, and the revisions *)

\* An edit between its two reads and its end is one the disposer waits for.
Drained ==
  \A w \in Writer : call[w].kind = "edit" /\ pc[w] \in Busy =>
    life \in {"up", "closed"} \/ (life = "draining" /\ drain > 0)

\* Once the service is down no write waits.
Quiet == life = "down" => \A w \in Writer : ~Waiting(w)

\* The revision a waiting write carries is not of the future.  The one a saved
\* write carried is of the past, unless the service has stopped: then nothing
\* else is on its way in that namespace, and nothing will be.
Versioned ==
  \A w \in Writer : call[w].kind = "write" /\ call[w].expected # NoRevision =>
    /\ Waiting(w) => call[w].expected <= revision[Ns(w)]
    /\ pc[w] = "saved" => \/ call[w].expected < revision[Ns(w)]
                          \/ Stopped /\ \A v \in Writer : OnWay(v) => Ns(v) # Ns(w)

\* A write on its way does not carry the revision of one that is saved.
Exclusive ==
  \A v, w \in Writer :
    OnWay(v) /\ pc[w] = "saved" /\ call[w].kind = "write" /\ Ns(v) = Ns(w)
    /\ call[v].expected = call[w].expected => call[w].expected = NoRevision

\* Revisions only grow, and what has stopped stays so.
LEMMA RevisionGrows ==
  ASSUME TypeOK, Next
  PROVE  /\ \A n \in Namespace : revision[n] \in Nat /\ revision'[n] \in Nat /\ revision[n] <= revision'[n]
         /\ Stopped => Stopped'
<1> USE DEF world, cache, chain, calls
<1>0. \A n \in Namespace : revision[n] \in Nat
  BY DEF TypeOK
<1>1. CASE UNCHANGED revision /\ (Stopped => Stopped')
  BY <1>0, <1>1
<1>2. CASE Foreign
  BY <1>1, <1>2 DEF Foreign, EditKey, Break, Mend, Rewritten, Stopped
<1>3. CASE Close \/ Dispose \/ \E s \in Source : Notice(s)
  BY <1>1, <1>3 DEF Close, Dispose, WatchersClosed, Stop, Down, Notice, Stopped
<1>4. ASSUME NEW w \in Writer, Ask(w) \/ AtQueue(w)
      PROVE  UNCHANGED revision /\ (Stopped => Stopped')
  BY <1>4 DEF Ask, AtQueue, Write, EditSection, Reject, Persist, Stopped
<1>5. CASE StartReload \/ SkipReload \/ \E l \in Layer : ReadSource(l)
  BY <1>1, <1>5 DEF StartReload, SkipReload, ReadSource, Stopped
<1>6. CASE Loaded
  <2>1. CASE Readable(got)
    <3>1. Publish(Merge(got)) /\ UNCHANGED life
      BY <1>6, <2>1 DEF Loaded
    <3> QED
      BY <1>0, <3>1 DEF Publish, Stopped
  <2>2. CASE ~Readable(got)
    BY <1>1, <1>6, <2>2 DEF Loaded, Stopped
  <2> QED
    BY <2>1, <2>2
<1>7. ASSUME NEW w \in Writer, StoreNothing(w) \/ (Rename(w) /\ call[w].kind = "write")
      PROVE  /\ \A n \in Namespace : revision'[n] \in Nat /\ revision[n] <= revision'[n]
             /\ Stopped => Stopped'
  <2>1. Store(w) /\ UNCHANGED life
    BY <1>7 DEF StoreNothing, Rename
  <2>2. revision' = revision \/ revision' = [revision EXCEPT ![Ns(w)] = @ + 1]
    BY <2>1 DEF Store
  <2>3. \A n \in Namespace : revision'[n] = revision[n] \/ revision'[n] = revision[n] + 1
    BY <2>2 DEF TypeOK
  <2>4. \A n \in Namespace : revision'[n] \in Nat /\ revision[n] <= revision'[n]
    BY <1>0, <2>3
  <2> QED
    BY <2>1, <2>4 DEF Stopped
<1>8. ASSUME NEW w \in Writer,
             \/ EditNothing(w) \/ ReadFile(w) \/ FailRead(w) \/ Confirm(w) \/ Retry(w) \/ GiveUp(w)
             \/ FailRename(w) \/ (Rename(w) /\ call[w].kind # "write")
      PROVE  UNCHANGED revision /\ (Stopped => Stopped')
  BY <1>8 DEF EditNothing, ReadFile, FailRead, Confirm, Retry, GiveUp, FailRename, Rename, Stopped
<1> QED
  BY <1>0, <1>1, <1>2, <1>3, <1>4, <1>5, <1>6, <1>7, <1>8 DEF Next, Operate

\* While a call is between its two reads and its end no other operation ends.
LEMMA BusyRuns ==
  ASSUME TypeOK, Owned, LoadOwned, Next, NEW w \in Writer, pc[w] \in Busy, pc'[w] \in Busy
  PROVE  /\ UNCHANGED drain \/ WatchersClosed
         /\ UNCHANGED life \/ Close \/ Dispose
<1> USE DEF world, cache, chain, calls
<1>1. Running(w) /\ w # Reload
  BY SettingsAssumption DEF Owned, Busy
<1>2. ASSUME NEW v \in Writer, Running(v), NEW label \in Settled, Leave(v, label)
      PROVE  FALSE
  <2>1. pc'[w] = label
    BY <1>1, <1>2 DEF Running, Leave, Goto, TypeOK
  <2> QED
    BY <2>1 DEF Busy, Settled
<1>3. CASE Foreign
  BY <1>3 DEF Foreign, EditKey, Break, Mend, Rewritten
<1>4. CASE Close \/ Dispose \/ \E s \in Source : Notice(s)
  BY <1>4 DEF Close, Dispose, WatchersClosed, Stop, Down, Notice
<1>5. ASSUME NEW v \in Writer, Ask(v) \/ AtQueue(v)
      PROVE  UNCHANGED <<drain, life>>
  BY <1>5 DEF Ask, AtQueue, Write, EditSection, Reject, Persist
<1>6. CASE StartReload \/ \E l \in Layer : ReadSource(l)
  BY <1>6 DEF StartReload, ReadSource
<1>7. CASE SkipReload
  BY <1>1, <1>7 DEF SkipReload, Running
<1>8. CASE Loaded
  <2>1. Head(ops) = w /\ Running(w)
    BY <1>1 DEF Running
  <2>2. Leave(w, IF Readable(got) THEN "saved" ELSE "failed")
    BY <1>1, <1>8, <2>1 DEF Loaded
  <2>3. (IF Readable(got) THEN "saved" ELSE "failed") \in Settled
    BY DEF Settled
  <2> QED
    BY <1>2, <2>1, <2>2, <2>3
<1>9. ASSUME NEW v \in Writer,
             \/ StoreNothing(v) \/ EditNothing(v) \/ FailRead(v) \/ GiveUp(v) \/ FailRename(v)
             \/ Rename(v) /\ call[v].kind = "write"
      PROVE  FALSE
  <2>1. "same" \in Settled /\ "failed" \in Settled /\ "saved" \in Settled
    BY DEF Settled
  <2>2. Running(v) /\ \E label \in Settled : Leave(v, label)
    BY <1>9, <2>1, OutcomeSettled DEF StoreNothing, EditNothing, FailRead, Changing, Round, GiveUp, FailRename, Rename
  <2> QED
    BY <1>2, <2>2
<1>10. ASSUME NEW v \in Writer, ReadFile(v) \/ Confirm(v) \/ Retry(v) \/ (Rename(v) /\ call[v].kind # "write")
       PROVE  UNCHANGED <<drain, life>>
  BY <1>10 DEF ReadFile, Confirm, Retry, Rename
<1> QED
  BY <1>3, <1>4, <1>5, <1>6, <1>7, <1>8, <1>9, <1>10 DEF Next, Operate

LEMMA DrainedStep ==
  ASSUME TypeOK, Owned, LoadOwned, Republishing, Drained, Next
  PROVE  Drained'
<1> SUFFICES ASSUME NEW w \in Writer, call'[w].kind = "edit", pc'[w] \in Busy
             PROVE  life' \in {"up", "closed"} \/ (life' = "draining" /\ drain' > 0)
  BY DEF Drained
<1>1. Moved(w)
  BY MovedStep
<1>2. call'[w] = call[w] /\ (pc[w] \in Busy \/ (ReadFile(w) /\ pc[w] = "chained"))
  BY <1>1 DEF Moved, Busy, ReadFile, Changing, Round
<1>3. CASE ReadFile(w) /\ pc[w] = "chained"
  <2>1. ~Closed /\ life' = life
    BY <1>2, <1>3 DEF ReadFile, Changing, Late
  <2> QED
    BY <2>1 DEF Closed
<1>4. CASE pc[w] \in Busy
  <2>1. life \in {"up", "closed"} \/ (life = "draining" /\ drain > 0)
    BY <1>2, <1>4 DEF Drained
  <2>2. Running(w)
    BY <1>4 DEF Owned, Busy
  <2>3. UNCHANGED drain \/ WatchersClosed
    BY <1>4, BusyRuns
  <2>4. UNCHANGED life \/ Close \/ Dispose
    BY <1>4, BusyRuns
  <2>5. CASE WatchersClosed
    <3>1. ops \in Seq(Writer \cup {Reload}) /\ ops # <<>>
      BY <2>2 DEF TypeOK, Running
    <3>2. Len(ops) > 0
      BY <3>1
    <3> QED
      BY <2>5, <3>2 DEF WatchersClosed
  <2>6. CASE Close
    BY <2>6 DEF Close
  <2>7. CASE Stop \/ Down
    BY <2>1, <2>7 DEF Stop, Down
  <2>8. CASE UNCHANGED <<life, drain>>
    BY <2>1, <2>8
  <2> QED
    BY <2>3, <2>4, <2>5, <2>6, <2>7, <2>8 DEF Dispose
<1> QED
  BY <1>2, <1>3, <1>4

LEMMA QuietStep ==
  ASSUME TypeOK, LoadOwned, Republishing, Queued, Quiet, Next
  PROVE  Quiet'
<1> SUFFICES ASSUME NEW w \in Writer, life' = "down", Waiting(w)'
             PROVE  FALSE
  BY DEF Quiet
<1>1. life = "down" \/ Down
  BY DEF Next, Foreign, EditKey, Break, Mend, Rewritten, Close, Dispose, WatchersClosed, Stop, Notice, Operate,
         Ask, AtQueue, Write, EditSection, Reject, Persist, StartReload, SkipReload, ReadSource, Loaded,
         StoreNothing, EditNothing, FailRead, GiveUp, FailRename, Rename, ReadFile, Confirm, Retry
<1>2. Stopped
  BY <1>1 DEF Down, Stopped
<1>3. Waiting(w)
  BY <1>2, MovedStep DEF Moved, StartsWaiting
<1>4. CASE life = "down"
  BY <1>3, <1>4 DEF Quiet
<1>5. CASE Down
  <2>1. PICK i \in 1..Len(queue[Ns(w)]) : queue[Ns(w)][i] = w
    BY <1>3 DEF Queued
  <2>2. queue[Ns(w)] = <<>>
    BY <1>5, NsType DEF Down
  <2> QED
    BY <2>1, <2>2
<1> QED
  BY <1>1, <1>4, <1>5

LEMMA VersionedStep ==
  ASSUME TypeOK, LoadOwned, Computed, Republishing, Queued, Versioned, Next
  PROVE  Versioned'
<1> SUFFICES ASSUME NEW w \in Writer, call'[w].kind = "write", call'[w].expected # NoRevision
             PROVE  /\ Waiting(w)' => call'[w].expected <= revision'[Ns(w)']
                    /\ pc'[w] = "saved" => \/ call'[w].expected < revision'[Ns(w)']
                                           \/ Stopped' /\ \A v \in Writer : OnWay(v)' => Ns(v)' # Ns(w)'
  BY DEF Versioned
<1>0. TypeOK'
  BY ForeignType, LifeType, QueueType, ReloadType, RoundType DEF Next, Operate
<1>1. \A v \in Writer : Moved(v)
  BY MovedStep
<1>2. /\ \A n \in Namespace : revision[n] \in Nat /\ revision'[n] \in Nat /\ revision[n] <= revision'[n]
      /\ Stopped => Stopped'
  BY RevisionGrows
<1>3. call'[w].expected \in Nat /\ Ns(w)' \in Namespace
  BY <1>0 DEF TypeOK, Call, Ns
<1>4. ASSUME Waiting(w)'
      PROVE  call'[w].expected <= revision'[Ns(w)']
  <2>1. CASE StartsWaiting(w)
    BY <1>2, <1>3, <2>1 DEF StartsWaiting
  <2>2. CASE Waiting(w) /\ call'[w] = call[w]
    <3>1. Ns(w)' = Ns(w) /\ call[w].expected <= revision[Ns(w)]
      BY <2>2 DEF Versioned, Ns
    <3> QED
      BY <1>2, <1>3, <2>2, <3>1
  <2> QED
    BY <1>1, <1>4, <2>1, <2>2 DEF Moved
<1>5. ASSUME Stopped, NEW v \in Writer, OnWay(v)'
      PROVE  OnWay(v) /\ Ns(v)' = Ns(v)
  <2>1. Waiting(v)' /\ Moved(v)
    BY <1>1, <1>5 DEF Waiting, OnWay
  <2>2. call'[v] = call[v] /\ (OnWay(v) \/ Persist(v))
    BY <1>5, <2>1 DEF Moved, StartsWaiting
  <2> QED
    BY <1>5, <2>2 DEF Persist, Ns
<1>6. ASSUME pc'[w] = "saved"
      PROVE  \/ call'[w].expected < revision'[Ns(w)']
             \/ Stopped' /\ \A v \in Writer : OnWay(v)' => Ns(v)' # Ns(w)'
  <2>1. call'[w] = call[w] /\ (pc[w] = "saved" \/ (Rename(w) /\ call[w].kind = "write"))
    BY <1>1, <1>6 DEF Moved
  <2>2. Ns(w)' = Ns(w)
    BY <2>1 DEF Ns
  <2>3. CASE pc[w] = "saved"
    <3>1. \/ call[w].expected < revision[Ns(w)]
          \/ Stopped /\ \A v \in Writer : OnWay(v) => Ns(v) # Ns(w)
      BY <2>1, <2>3 DEF Versioned
    <3>2. CASE call[w].expected < revision[Ns(w)]
      BY <1>2, <1>3, <2>1, <2>2, <3>2
    <3>3. CASE Stopped /\ \A v \in Writer : OnWay(v) => Ns(v) # Ns(w)
      BY <1>2, <1>5, <2>2, <3>3
    <3> QED
      BY <3>1, <3>2, <3>3
  <2>4. CASE Rename(w) /\ call[w].kind = "write"
    <3>1. OnWay(w) /\ Waiting(w) /\ pc[w] = "rename" /\ Store(w)
      BY <2>4 DEF Rename, OnWay, Waiting, Past
    <3>2. call[w].expected <= revision[Ns(w)]
      BY <2>1, <3>1 DEF Versioned
    <3>3. CASE Stopped
      <4>1. ASSUME NEW v \in Writer, OnWay(v)', Ns(v)' = Ns(w)'
            PROVE  FALSE
        <5>1. OnWay(v) /\ Ns(v) = Ns(w)
          BY <1>5, <2>2, <3>3, <4>1
        <5>2. v = w
          BY <3>1, <5>1, OneOnWay
        <5> QED
          BY <1>6, <4>1, <5>2 DEF OnWay, Past
      <4> QED
        BY <1>2, <3>3, <4>1
    <3>4. CASE ~Stopped
      <4>1. pc'[w] = Outcome(w)
        BY <2>4 DEF Rename, Leave, Goto, TypeOK
      <4>2. work[w].section # work[w].current
        BY <1>6, <4>1 DEF Outcome
      <4>3. revision' = [revision EXCEPT ![Ns(w)] = @ + 1]
        BY <3>1, <3>4, <4>2 DEF Store
      <4>4. revision'[Ns(w)] = revision[Ns(w)] + 1
        BY <1>3, <2>2, <4>3 DEF TypeOK
      <4> QED
        BY <1>2, <1>3, <2>1, <2>2, <3>2, <4>4
    <3> QED
      BY <3>3, <3>4
  <2> QED
    BY <2>1, <2>3, <2>4
<1> QED
  BY <1>4, <1>6

\* A call on its way, or saved, asks for what it asked for before the step.
LEMMA SameCall ==
  ASSUME NEW w \in Writer, Moved(w),
         OnWay(w)' \/ (pc'[w] = "saved" /\ call'[w].kind = "write")
  PROVE  call'[w] = call[w] /\ Ns(w)' = Ns(w)
<1>1. CASE OnWay(w)'
  <2>1. Waiting(w)'
    BY <1>1 DEF Waiting, OnWay
  <2> QED
    BY <1>1, <2>1 DEF Moved, StartsWaiting, Ns
<1> QED
  BY <1>1 DEF Moved, Ns

LEMMA ExclusiveStep ==
  ASSUME TypeOK, LoadOwned, Republishing, Queued, Versioned, Exclusive, Next
  PROVE  Exclusive'
<1> SUFFICES ASSUME NEW v \in Writer, NEW w \in Writer,
                    OnWay(v)', pc'[w] = "saved", call'[w].kind = "write", Ns(v)' = Ns(w)',
                    call'[v].expected = call'[w].expected, call'[w].expected # NoRevision
             PROVE  FALSE
  BY DEF Exclusive
<1>1. Moved(v) /\ Moved(w)
  BY MovedStep
<1>2. call'[v] = call[v] /\ Ns(v)' = Ns(v) /\ call'[w] = call[w] /\ Ns(w)' = Ns(w)
  BY <1>1, SameCall
<1>3. /\ OnWay(v) \/ Persist(v)
      /\ pc[w] = "saved" \/ (Rename(w) /\ call[w].kind = "write")
  BY <1>1 DEF Moved
<1>4. v # w
  BY DEF OnWay, Past
<1>5. CASE OnWay(v) /\ pc[w] = "saved"
  BY <1>2, <1>5 DEF Exclusive
<1>6. CASE OnWay(v) /\ Rename(w)
  <2>1. OnWay(w) /\ Waiting(w)
    BY <1>2, <1>6 DEF Rename, OnWay, Waiting, Past
  <2> QED
    BY <1>2, <1>4, <1>6, <2>1, OneOnWay
<1>7. CASE Persist(v) /\ pc[w] = "saved"
  <2>1. call[v].expected = revision[Ns(v)] /\ ~Stopped
    BY <1>2, <1>7 DEF Persist, Conflict
  <2>2. call[w].expected < revision[Ns(w)]
    BY <1>2, <1>7, <2>1 DEF Versioned
  <2>3. Ns(v) = Ns(w) /\ call[v].expected = call[w].expected
    BY <1>2
  <2>4. Ns(w) \in Namespace
    BY NsType
  <2>5. revision[Ns(w)] \in Nat
    BY <2>4 DEF TypeOK
  <2> QED
    BY <2>1, <2>2, <2>3, <2>5
<1>8. CASE Persist(v) /\ Rename(w)
  BY <1>4, <1>8 DEF Persist, Rename, Goto, TypeOK
<1> QED
  BY <1>3, <1>5, <1>6, <1>7, <1>8

LEMMA WinnerStep ==
  ASSUME TypeOK, LoadOwned, Republishing, Exclusive, OneWinner, Next
  PROVE  OneWinner'
<1> SUFFICES ASSUME NEW v \in Writer, NEW w \in Writer, pc'[v] = "saved", pc'[w] = "saved",
                    call'[v].kind = "write", call'[w].kind = "write", Ns(v)' = Ns(w)',
                    call'[v].expected = call'[w].expected, call'[v].expected # NoRevision
             PROVE  v = w
  BY DEF OneWinner
<1>1. Moved(v) /\ Moved(w)
  BY MovedStep
<1>2. call'[v] = call[v] /\ Ns(v)' = Ns(v) /\ call'[w] = call[w] /\ Ns(w)' = Ns(w)
  BY <1>1, SameCall
<1>3. /\ pc[v] = "saved" \/ (Rename(v) /\ call[v].kind = "write")
      /\ pc[w] = "saved" \/ (Rename(w) /\ call[w].kind = "write")
  BY <1>1 DEF Moved
<1>4. \A u \in Writer : Rename(u) /\ call[u].kind = "write" => OnWay(u) /\ Running(u)
  BY DEF Rename, OnWay, Past
<1>5. CASE pc[v] = "saved" /\ pc[w] = "saved"
  BY <1>2, <1>5 DEF OneWinner
<1>6. CASE OnWay(v) /\ pc[w] = "saved"
  BY <1>2, <1>6 DEF Exclusive
<1>7. CASE OnWay(w) /\ pc[v] = "saved"
  BY <1>2, <1>7 DEF Exclusive
<1>8. CASE Running(v) /\ Running(w)
  BY <1>8 DEF Running
<1> QED
  BY <1>3, <1>4, <1>5, <1>6, <1>7, <1>8

-----------------------------------------------------------------------------
(* The theorems about the queues *)

CallInv ==
  /\ Republishing /\ Queued
  /\ Drained /\ Quiet
  /\ Versioned /\ Exclusive /\ OneWinner

LEMMA CallInvariance == Spec => []CallInv
<1>1. Init => CallInv
  <2> SUFFICES ASSUME Init PROVE CallInv
    OBVIOUS
  <2>1. \A w \in Writer : pc[w] = "idle" /\ ~Waiting(w) /\ ~OnWay(w)
    BY DEF Init, Waiting, OnWay, Past
  <2>2. Queued
    BY <2>1 DEF Init, Queued
  <2> QED
    BY <2>1, <2>2 DEF CallInv, Republishing, Drained, Busy, Quiet, Versioned, Exclusive, OneWinner
<1>2. IInv /\ CallInv /\ [Next]_vars => CallInv'
  <2> SUFFICES ASSUME IInv, CallInv, [Next]_vars PROVE CallInv'
    OBVIOUS
  <2>1. TypeOK /\ Owned /\ LoadOwned /\ Computed
    BY DEF IInv
  <2>2. CASE Next
    <3>1. Republishing'
      BY <2>1, <2>2, MovedStep DEF CallInv, Moved, Republishing
    <3>2. Queued' /\ Drained' /\ Quiet'
      BY <2>1, <2>2, QueuedStep, DrainedStep, QuietStep DEF CallInv
    <3>3. Versioned' /\ Exclusive' /\ OneWinner'
      BY <2>1, <2>2, VersionedStep, ExclusiveStep, WinnerStep DEF CallInv
    <3> QED
      BY <3>1, <3>2, <3>3 DEF CallInv
  <2>3. CASE UNCHANGED vars
    BY <2>3 DEF vars, CallInv, Republishing, Queued, QueuedFor, InPlace, Drained, Quiet, Versioned,
                Exclusive, OneWinner, Waiting, OnWay, Ns, Stopped
  <2> QED
    BY <2>2, <2>3
<1> QED
  BY <1>1, <1>2, Invariance, PTL DEF Spec

\* Two saved writes of a namespace carried different revisions.
THEOREM RevisionsWin == Spec => []OneWinner
<1>1. CallInv => OneWinner
  BY DEF CallInv
<1> QED
  BY <1>1, CallInvariance, PTL

\* No call of a service that is down is between its turn in a queue and its end.
THEOREM QuietDown == Spec => []DownIsQuiet
<1>1. IInv /\ CallInv => DownIsQuiet
  <2> SUFFICES ASSUME TypeOK, Republishing, Drained, Quiet, life = "down", NEW w \in Writer
               PROVE  pc[w] \notin {"queued", "again", "recheck", "rename", "republish"}
    BY DEF IInv, CallInv, DownIsQuiet
  <2>1. call[w].kind \in {"write", "edit"}
    BY DEF TypeOK, Call
  <2>2. ~Waiting(w)
    BY DEF Quiet
  <2>3. ~(call[w].kind = "edit" /\ pc[w] \in Busy)
    BY DEF Drained
  <2> QED
    BY <2>1, <2>2, <2>3 DEF Waiting, OnWay, Past, Busy, Republishing
<1> QED
  BY <1>1, Invariance, CallInvariance, PTL


-----------------------------------------------------------------------------
(* The chain of operations *)

\* In the chain are the calls between their turn and their end, each once, and
\* reloads.
Linked ==
  /\ \A w \in Writer : pc[w] \in Chained => \E i \in 1..Len(ops) : ops[i] = w
  /\ \A i \in 1..Len(ops) : ops[i] # Reload => pc[ops[i]] \in Chained
  /\ \A i, j \in 1..Len(ops) : ops[i] = ops[j] /\ ops[i] # Reload => i = j
  /\ drain <= Len(ops)

\* What a step may do to the chain: nothing, add a reload or a call, or end the
\* operation that runs.
SameCalls == \A w \in Writer : pc'[w] \in Chained <=> pc[w] \in Chained
Rests == UNCHANGED ops /\ SameCalls /\ drain' \in {drain, Len(ops)}
Links(o) ==
  /\ Enqueue(o) /\ UNCHANGED drain
  /\ o # Reload => pc[o] \notin Chained
  /\ \A w \in Writer : pc'[w] \in Chained <=> w = o \/ pc[w] \in Chained
Unlinks(o) ==
  /\ Running(o) /\ Proceed
  /\ \A w \in Writer : pc'[w] \in Chained <=> w # o /\ pc[w] \in Chained

LEMMA ChainFacts ==
  ASSUME NEW S, NEW s \in Seq(S), NEW o \in S
  PROVE  /\ Len(s) \in Nat /\ \A i \in 1..Len(s) : s[i] \in S
         /\ Append(s, o) \in Seq(S) /\ Len(Append(s, o)) = Len(s) + 1
         /\ Append(s, o)[Len(s) + 1] = o /\ \A i \in 1..Len(s) : Append(s, o)[i] = s[i]
         /\ s # <<>> => /\ Head(s) = s[1] /\ Len(Tail(s)) = Len(s) - 1 /\ Len(s) >= 1
                        /\ \A i \in 1..(Len(s) - 1) : Tail(s)[i] = s[i + 1]
OBVIOUS

LEMMA LinksLinked ==
  ASSUME TypeOK, Linked, NEW o \in Writer \cup {Reload}, Links(o)
  PROVE  Linked'
<1>1. ops \in Seq(Writer \cup {Reload}) /\ drain \in Nat /\ Reload \notin Writer
  BY SettingsAssumption DEF TypeOK
<1>2. /\ Len(ops) \in Nat /\ Len(ops') = Len(ops) + 1 /\ ops'[Len(ops) + 1] = o
      /\ \A i \in 1..Len(ops) : ops'[i] = ops[i] /\ ops[i] \in Writer \cup {Reload}
  BY <1>1, ChainFacts DEF Links, Enqueue
<1>3. \A i \in 1..Len(ops') : i \in 1..Len(ops) \/ i = Len(ops) + 1
  BY <1>2
<1>4. \A w \in Writer : pc'[w] \in Chained => \E i \in 1..Len(ops') : ops'[i] = w
  <2> SUFFICES ASSUME NEW w \in Writer, pc'[w] \in Chained
               PROVE  \E i \in 1..Len(ops') : ops'[i] = w
    OBVIOUS
  <2>1. CASE w = o
    BY <1>2, <2>1
  <2>2. CASE w # o
    <3>1. PICK i \in 1..Len(ops) : ops[i] = w
      BY <2>2 DEF Links, Linked
    <3> QED
      BY <1>2, <3>1
  <2> QED
    BY <2>1, <2>2
<1>5. \A i \in 1..Len(ops) : ops[i] # Reload => ops[i] # o
  BY DEF Links, Linked
<1>6. \A i \in 1..Len(ops') : ops'[i] # Reload => pc'[ops'[i]] \in Chained
  BY <1>1, <1>2, <1>3 DEF Links, Linked
<1>7. \A i, j \in 1..Len(ops') : ops'[i] = ops'[j] /\ ops'[i] # Reload => i = j
  BY <1>2, <1>3, <1>5 DEF Linked
<1>8. drain' <= Len(ops')
  BY <1>1, <1>2 DEF Links, Linked
<1> QED
  BY <1>4, <1>6, <1>7, <1>8 DEF Linked

LEMMA UnlinksLinked ==
  ASSUME TypeOK, Linked, NEW o \in Writer \cup {Reload}, Unlinks(o)
  PROVE  Linked'
<1>1. ops \in Seq(Writer \cup {Reload}) /\ drain \in Nat /\ Reload \notin Writer /\ ops # <<>>
  BY SettingsAssumption DEF TypeOK, Unlinks, Running
<1>2. /\ Len(ops) \in Nat /\ Len(ops) >= 1 /\ Len(ops') = Len(ops) - 1 /\ ops[1] = o
      /\ \A i \in 1..(Len(ops) - 1) : ops'[i] = ops[i + 1]
      /\ \A i \in 1..Len(ops) : ops[i] \in Writer \cup {Reload}
  BY <1>1, ChainFacts DEF Unlinks, Running, Proceed
<1>3. \A i \in 1..Len(ops') : i \in 1..(Len(ops) - 1) /\ i + 1 \in 1..Len(ops) /\ i + 1 # 1
  BY <1>2
<1>4. \A w \in Writer : pc'[w] \in Chained => \E i \in 1..Len(ops') : ops'[i] = w
  <2> SUFFICES ASSUME NEW w \in Writer, pc'[w] \in Chained
               PROVE  \E i \in 1..Len(ops') : ops'[i] = w
    OBVIOUS
  <2>1. PICK i \in 1..Len(ops) : ops[i] = w
    BY DEF Unlinks, Linked
  <2>2. i # 1
    BY <1>2, <2>1 DEF Unlinks
  <2>3. i - 1 \in 1..Len(ops') /\ i - 1 \in 1..(Len(ops) - 1) /\ (i - 1) + 1 = i
    BY <1>2, <2>2
  <2> QED
    BY <1>2, <2>1, <2>3
<1>5. \A i \in 1..Len(ops') : ops'[i] # Reload => pc'[ops'[i]] \in Chained
  <2> SUFFICES ASSUME NEW i \in 1..Len(ops'), ops'[i] # Reload
               PROVE  pc'[ops'[i]] \in Chained
    OBVIOUS
  <2>1. ops'[i] = ops[i + 1] /\ i + 1 \in 1..Len(ops) /\ i + 1 # 1 /\ 1 \in 1..Len(ops)
    BY <1>2, <1>3
  <2>2. ops[i + 1] \in Writer /\ pc[ops[i + 1]] \in Chained
    BY <1>2, <2>1 DEF Linked
  <2>3. ops[i + 1] # o
    BY <1>2, <2>1 DEF Linked
  <2> QED
    BY <2>1, <2>2, <2>3 DEF Unlinks
<1>6. \A i, j \in 1..Len(ops') : ops'[i] = ops'[j] /\ ops'[i] # Reload => i = j
  <2> SUFFICES ASSUME NEW i \in 1..Len(ops'), NEW j \in 1..Len(ops'), ops'[i] = ops'[j], ops'[i] # Reload
               PROVE  i = j
    OBVIOUS
  <2>1. ops'[i] = ops[i + 1] /\ ops'[j] = ops[j + 1] /\ i + 1 \in 1..Len(ops) /\ j + 1 \in 1..Len(ops)
    BY <1>2, <1>3
  <2>2. i + 1 = j + 1
    BY <2>1 DEF Linked
  <2> QED
    BY <2>2
<1>7. drain' <= Len(ops')
  BY <1>1, <1>2 DEF Unlinks, Proceed, Linked
<1> QED
  BY <1>4, <1>5, <1>6, <1>7 DEF Linked

LEMMA LinkedStep ==
  ASSUME TypeOK, LoadOwned, Linked, Next
  PROVE  Linked'
<1> USE DEF world, cache, chain, calls
<1>0. ops \in Seq(Writer \cup {Reload}) /\ Reload \notin Writer /\ Len(ops) \in Nat
  BY SettingsAssumption DEF TypeOK
<1>1. ASSUME Rests PROVE Linked'
  <2>1. Len(ops) <= Len(ops) /\ \A i \in 1..Len(ops) : ops[i] \in Writer \cup {Reload}
    BY <1>0
  <2> QED
    BY <1>1, <2>1 DEF Rests, SameCalls, Linked
<1>2. ASSUME NEW v \in Writer, Running(v), Proceed, NEW label \in Settled, Leave(v, label)
      PROVE  Linked'
  <2>1. Unlinks(v)
    BY <1>2 DEF Unlinks, Leave, Goto, TypeOK, Settled, Chained
  <2> QED
    BY <2>1, UnlinksLinked
<1>3. CASE Foreign \/ Close \/ Dispose \/ StartReload \/ \E l \in Layer : ReadSource(l)
  <2>1. UNCHANGED <<ops, pc>> /\ drain' \in {drain, Len(ops)}
    BY <1>3 DEF Foreign, EditKey, Break, Mend, Rewritten, Close, Dispose, WatchersClosed, Stop, Down,
                StartReload, ReadSource
  <2> QED
    BY <1>1, <2>1 DEF Rests, SameCalls
<1>4. ASSUME NEW s \in Source, Notice(s)
      PROVE  Linked'
  <2>1. Links(Reload)
    BY <1>0, <1>4 DEF Notice, Links
  <2> QED
    BY <2>1, LinksLinked
<1>5. CASE SkipReload
  <2>1. Unlinks(Reload)
    BY <1>0, <1>5 DEF SkipReload, Unlinks
  <2> QED
    BY <2>1, UnlinksLinked
<1>6. CASE Loaded
  <2>1. ops # <<>> /\ Proceed
    BY <1>6 DEF Loaded, AllRead, LoadOwned
  <2>2. CASE Head(ops) = Reload
    <3>1. Unlinks(Reload)
      BY <1>0, <1>6, <2>1, <2>2 DEF Loaded, Unlinks, Running
    <3> QED
      BY <3>1, UnlinksLinked
  <2>3. CASE Head(ops) # Reload
    <3>1. Head(ops) \in Writer /\ Running(Head(ops))
      BY <2>1, <2>3, ProceedType DEF TypeOK, Running
    <3>2. Leave(Head(ops), IF Readable(got) THEN "saved" ELSE "failed")
      BY <1>6, <2>3 DEF Loaded
    <3>3. (IF Readable(got) THEN "saved" ELSE "failed") \in Settled
      BY DEF Settled
    <3> QED
      BY <1>2, <2>1, <3>1, <3>2, <3>3
  <2> QED
    BY <2>2, <2>3
<1>7. ASSUME NEW v \in Writer,
             \/ StoreNothing(v) \/ EditNothing(v) \/ FailRead(v) \/ GiveUp(v) \/ FailRename(v)
             \/ Rename(v) /\ call[v].kind = "write"
      PROVE  Linked'
  <2>1. "same" \in Settled /\ "failed" \in Settled /\ "saved" \in Settled
    BY DEF Settled
  <2>2. Running(v) /\ Proceed /\ \E label \in Settled : Leave(v, label)
    BY <1>7, <2>1, OutcomeSettled DEF StoreNothing, EditNothing, FailRead, Changing, Round, GiveUp, FailRename, Rename
  <2> QED
    BY <1>2, <2>2
<1>8. ASSUME NEW v \in Writer, ReadFile(v) \/ Confirm(v) \/ Retry(v) \/ (Rename(v) /\ call[v].kind # "write")
      PROVE  Linked'
  <2>1. UNCHANGED <<ops, drain>> /\ pc[v] \in Chained /\ \E label \in Chained : Goto(v, label)
    BY <1>8 DEF ReadFile, Changing, Round, Confirm, Retry, Rename, Chained
  <2>2. SameCalls
    BY <2>1 DEF SameCalls, Goto, TypeOK
  <2> QED
    BY <1>1, <2>1, <2>2 DEF Rests
<1>9. ASSUME NEW v \in Writer, NEW n \in Namespace, NEW p \in Patch, NEW r, Write(v, n, p, r)
      PROVE  Linked'
  <2>1. Rests
    BY <1>9 DEF Write, Rests, SameCalls, Goto, TypeOK, Chained
  <2> QED
    BY <1>1, <2>1
<1>10. ASSUME NEW v \in Writer, NEW n \in Namespace, NEW p \in Patch, EditSection(v, n, p) \/ Persist(v)
       PROVE  Linked'
  <2>1. Links(v)
    BY <1>0, <1>10 DEF EditSection, Persist, AtFront, Links, Goto, TypeOK, Chained
  <2> QED
    BY <2>1, LinksLinked
<1>11. ASSUME NEW v \in Writer, Reject(v)
       PROVE  Linked'
  <2>1. UNCHANGED <<ops, drain>> /\ pc[v] = "queued" /\ \E label \in {"failed", "conflict"} : Goto(v, label)
    BY <1>11 DEF Reject, AtFront, Leave
  <2>2. SameCalls
    BY <2>1 DEF SameCalls, Goto, TypeOK, Chained
  <2> QED
    BY <1>1, <2>1, <2>2 DEF Rests
<1>12. Namespace # {} /\ Patch # {}
  BY SettingsAssumption
<1> QED
  BY <1>3, <1>4, <1>5, <1>6, <1>7, <1>8, <1>9, <1>10, <1>11, <1>12 DEF Next, Operate, Ask, AtQueue

LEMMA LinkedInvariance == Spec => []Linked
<1>1. Init => Linked
  BY DEF Init, Linked, Chained
<1>2. IInv /\ Linked /\ [Next]_vars => Linked'
  <2>1. ASSUME IInv, Linked, UNCHANGED vars PROVE Linked'
    BY <2>1 DEF vars, Linked
  <2> QED
    BY <2>1, LinkedStep DEF IInv
<1> QED
  BY <1>1, <1>2, Invariance, PTL DEF Spec

\* Nobody waits for what is not coming: the first of a queue and the first of
\* the chain have not settled, a call past its queue is in the chain, and a
\* dispose counts no more operations than there are.
THEOREM QueuesGoOn == Spec => []QueuesMove
<1>1. IInv /\ CallInv /\ Linked => QueuesMove
  <2> SUFFICES ASSUME TypeOK, Queued, Linked PROVE QueuesMove
    BY DEF IInv, CallInv
  <2>1. ASSUME NEW n \in Namespace, queue[n] # <<>>
        PROVE  pc[Head(queue[n])] \in {"queued"} \cup Chained
    <3>1. queue[n] \in Seq(Writer)
      BY DEF TypeOK
    <3>2. 1 \in 1..Len(queue[n]) /\ Head(queue[n]) = queue[n][1]
      BY <2>1, <3>1
    <3> QED
      BY <3>2 DEF Queued, QueuedFor, InPlace, Past, Chained
  <2>2. ops \in Seq(Writer \cup {Reload})
    BY DEF TypeOK
  <2>3. DOMAIN ops = 1..Len(ops) /\ (ops # <<>> => 1 \in 1..Len(ops) /\ Head(ops) = ops[1])
    BY <2>2
  <2> QED
    BY <2>1, <2>3 DEF Linked, QueuesMove
<1> QED
  BY <1>1, Invariance, CallInvariance, LinkedInvariance, PTL

=============================================================================
