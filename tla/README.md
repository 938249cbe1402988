# dsh-cc: specifications, model checking and proofs

dsh-cc is a coding agent: a plugin host (the harness) runs an agent loop, and
the packages under `src/packages/` add to it memory, subagents, MCP servers,
settings, permissions, an ACP server and a terminal interface.  Nearly all of
it is single-threaded TypeScript, so that two pieces of code interleave only
where one of them awaits; several processes share files under `~/.dsh`.  This
directory holds TLA+ models of the parts whose correctness rests on what
happens between two awaits or between two processes, TLC instances that check
them and TLAPS proofs for every instance.

* `X.tla` is a component, `XProofs.tla` its theorems, `MCX.tla` with
  `X*.cfg` its instances.
* `PROJECT.json` lists components, runs, mutants, the source lines of every
  definition, findings, hazards and theorems.
* A definition marked *Mutant* in a comment is a plausible bug; it stands next
  to the definition it replaces and shows that some property would notice.

Check a module with `tlc -workers 2 -config X.cfg MCX`, prove one with
`tlapm XProofs.tla`.

## 1. Inventory

### Modelled

**Memory index commit** (`memory/memory/src/{index-commit,save,writeback}.ts`,
`session/command-learn/src/write.ts`, `memory-consolidation/src/memory-job.ts`).
State: the index `MEMORY.md`, the topic files it points to, the marker
`.consolidation-needed`.  Operations: `memory_save` and `/learn apply` add one
line; the write-back of an extraction or a dream replaces the index by what a
model wrote, minutes after it was shown a baseline.  All four go through
`commitMemoryWrites`: topic files first, then up to 12 rounds of read, build,
verify, write and read back, with no lock.  Hard: everything between two file
operations, failures in the middle, a rewrite from a stale baseline, the cap.
Correct when the index never points to nothing, when nobody's line is lost or
brought back except in the window the header comment concedes, when a conflict
is reported for foreign writes only, and when every commit ends.

**Memory consolidation, "dream"** (`memory-consolidation/src/{index,lock,gates}.ts`,
`memory/src/pressure.ts`).  State: the lock file (its stamp is at once the
holder and the time of the last consolidation), the pressure marker, one
in-flight flag per process.  Operations: the gates at a turn end, acquire by
write and verify, dispatch, release or rollback, clear of the marker, arming by
saves.  Hard: the race of two processes, a lock that outlives the stale window,
crashes, a clear that meets a later arm.  Correct when a holder is disturbed
only as the protocol concedes, when a free lock's epoch is a consolidation,
when no arm disappears unserved, and when no throw strands the lock.

**Subagent admission** (`subagent/resume-pins/src/admission.ts`).  State: per
parent session the tail of a promise chain.  Operations: enqueue, grant,
cancellation at any point, release, settling of tails, removal of the map entry.
Correct when one call holds the lease, in order of arrival, and no turn is lost.

**Epoch collector** (`subagent/task/src/{epoch-collector,suppress-settled}.ts`).
State: the collecting tool calls, a shared watch map and one pair of listeners,
the marks of notices to suppress, the inbox of the parent.  Operations:
reserve, start (which may throw), promotion to the background, abort, start and
end of an epoch, the notice of the harness, the pre-step that filters notices.
Correct when every call gets its own child's terminal, each first epoch is
accounted for once, and no other notice is dropped.

**MCP connection supervisor** (`mcp/mcp-client/src/{connection,tools,resources,prompts}.ts`).
State: the current client, the retry timer and failure count, attempts and
whether each generation was seen to close, a serialized chain of registration
swaps, what is registered and who holds the disposers.  Operations: attempts,
close signals, retries, give-up, swaps (which ask the server), list_changed
notifications, dispose.  Correct when two server processes never overlap, one
outage has one actor and an exact budget, the registries follow the live
client, and give-up and dispose leave nothing.

**Child release** (`subagent/task/src/grace-window.ts`,
`interaction/command-agents/src/release.ts`, the records of
`subagent/task/src/background-start.ts`, the gate of
`subagent/resume-pins/src/plugin.ts`).  State, per child: the entry of the arm
registry, a timer, and the marks `tombstoned`, `releasing` and `released`.
Operations: record at dispatch, arm at the end of an epoch, expiry, promotion,
clear at a start, arming on resume; a release with its gates, its mark, a drain
it observes for ten seconds, polls and handlers of a late end.  Hard: a message
that is delivered while the window expires, a drain that never settles, two
releases of one child.  Correct when no live child is tombstoned, no settled one
goes unwatched, no mark stays behind and every release returns.

**Settings** (`settings/settings-provider/src/provider.ts`,
`settings/settings-cascade/src/{index,persist}.ts`).  State: the files of the
layers, the published document with its revisions, the cascade's shadow of it,
a queue of writes per namespace and one chain of persists, edits and reloads.
Operations: update, replace, mutate and edits of the user's section, reloads
asked for by two watchers, persists that re-read before they rename and retry,
disposal.  Hard: edits of other processes at any point of a persist, reloads
queued in front of a write, renames that fail.  Correct when a write changes
what was asked, one of two writes against one revision wins, and the cache
follows the files.

**ACP prompt** (`acp/cc-acp/src/{session,cancellation-status,lifecycle}.ts`).
State: the one prompt in flight with its record, the updates that wait for
delivery, the teardown.  Operations: prompt, admission, routing, hand-over to
the Agent, cancel, the rounds of the settlement, close.  Hard: a cancellation,
the end of the turn, a late child and an Agent error race to answer.  Correct
when a prompt is answered once, when its work and updates are over.

### How they interact

A `memory_save` over the cap arms the marker (IndexCommit's last step) that
lets a dream start early (Consolidation's `Gates`); the dream's job ends in the
write-back that IndexCommit models.  The two share no other state and are
checked apart; each treats what the other does as an arbitrary step (`JobEnds`
ends as it likes, a rewriter is dispatched at any time).  Admission precedes the
start of a child, the epoch collector and the record of the grace window follow
it; a promotion of the collector is `Promote` of ChildRelease, which takes it at
any time, and the mark of a release is read by the copy of a collect that the
drain aborts (`EvictionSeen`).  The supervisor publishes into the tool registry
of `core/tools`, of which only the rule that names are unique within a layer
matters here.  Settings and the ACP session share no state with the others.

### Not modelled

| part | state and operations | hard | why not |
|---|---|---|---|
| one-shot ledger, ephemeral reaper (`subagent/task`) | rows by run id, disposal of settled ephemerals | pruning under an active run | next; see below |
| MCP control (`mcp-client/src/index.ts`) | the current supervisor | overlapping reconnect and disconnect | next |
| resume pins, workflow journal, handoff store | pins, journal, artifacts with expiry on disk | sweeps by two processes, replays | after these |
| retry attendant, completion gate, moa, advisor | ledgers per session | expiry against an ask in flight, stale judge answers | after these |
| permission rules, cost gate, 429 retry | pure decisions | precedence, bounds | operators; shell words are text analysis |
| ACP connection (`acp/cc-acp` above the session) | formats, model switching | I/O | I/O |
| hooks, tools, plugins, skills, slash commands | external commands and files | I/O | I/O |
| compaction, context | transcript rewrites | text | text |
| TUI | rendering, driver queue | queue only | mostly rendering |
| vwa, presets, test support, vendored `pi-tui` | separate or no state of their own | | no shared logic |

Of modelled components, left out are: in Settings unregistering, observers,
environment overrides, aliases and the union of arrays; in the supervisor
`callTool`, `toolCount`, the deferred-tool seam and OAuth; in the dream the scan
of the sessions and the extraction single-flight; in the release the words.
The repository is large (2900 files) and most of it is rendering, text and
process I/O; the models take the parts whose state is shared across awaits.

Seen and not modelled: the reaper looks its child up by parent, label and start
time, never by id (`ephemeral-reaper.ts`, `singleCandidate`), and gives up when
two rows match.  When its own row has ended, or was never written, and one
sibling with the same label started later, the one match is the sibling.

## 2. Plan

Done, each with its proofs: IndexCommit, Consolidation, Admission (with its
abstract specification FifoLease), EpochCollector, McpConnection,
SettingsCascade, AcpPrompt, ChildRelease.

Would come next: `McpControl` above McpConnection, whose supervisors it sees as
started, disposed or leaked; the one-shot ledger beside ChildRelease; an
abstract bounded-retry automaton that McpConnection implements and a mutual
exclusion with expiry for the dream lock; operators for the precedence of
permission rules against a reference definition.  Every safety property of a
passing run has its theorem; what comes next is to be written so that the same
can be done for it.

The instances are few on purpose, one per question.

## 3. Models and code

### IndexCommit

A document is a function from topics to the author of its line (or `None`):
the text of a line matters only in that it was replaced.  `Within` says which
file name is the end of another, because the code compares with
`String.includes`.  `pc` of a writer follows `commitMemoryWrites`: `Read`,
`WriteTopic` (one file at a time), `Verify`, `WriteIndex`, `ReadBack`,
`NextRound`; `StartSave`, `Dispatch`, `Report` and `Killed` are the callers;
`Arm` the marker a save sets afterwards; `Fail` a throw of any file operation.
`Carved` is the room made for concurrent lines: the code drops lines from the
tail of the model's part, here any lines may go.  The histories `moved` and
`foreign` say whether somebody else wrote since the verify and how often.

### Consolidation

Time is a counter; `Stale`, `Cooldown`, `MinAge` and `MinJob` are the code's
windows in its unit.  One action per file operation: `AcqRead`, `AcqWrite`,
`AcqVerify`, `RelRead`, `RelWrite`, `RollRead`, `RollWrite`, the same for the
marker; in between, `Dispatch` and `JobEnds` (ends, fails, is retried, is
killed).  `Crash` kills a process at any point.  Any file operation of the dreams
and savers in `Fragile` may fail, each with its own consequence: a lock that
cannot be read counts as empty and is taken, a stamp that cannot be read back
makes the dream give way and stays, a marker that cannot be read is forced with
the arm captured before and left alone by a clear, a write may be lost or end the
dream.  `stale[a]` is history: a file changed between the read and the write that
rests on it; `blind[a]` that this read failed; `late[d]` that an arm `Landed`
behind the first read of a dream and that no write on a stale or a failed read
(`Overwritten`) has put an older marker over it.

### Admission

`Enqueue` puts a call's tail in the map and chains it on the previous one;
`Settle` is the resolution of a tail, which waits for the previous tail and the
call's own release; `Called` is the microtask that wakes the waiter, separate
from `Grant` and `Cancel`, since an abort may land between the two; `Cleanup`
is the `tail.then(...)` that removes the entry.

`FifoLease` says what this promises: a line for each parent, whose first is
served and which anyone may leave.  A call is `ahead` of another when it came
before and has not let go; with this mapping Admission implements FifoLease,
its fairness included (`ImplementsLease`).

### EpochCollector

`Reserve` marks, watches and subscribes before `start()`; `Started` and
`StartThrows` settle it; `EpochStarts` and `EpochEnds` are the bus events of the
harness (`Heard`: captured run id); `Notify` is its settled notice.  `PreStep`
claims a part of the inbox, `Suppress` is the filter after `next()` returned;
notices may arrive in between (`crossed`).  The harness is external: a child
starts and ends epochs in order and may notify late.

### McpConnection

Generations are numbered; `phase[g]` is the await at which `connectGeneration`
of `g` is (`connecting`, a swap it waits for, `closing`), `chain` the queue of
`enqueue`, `asked` whether its head is waiting for the server.  `GenerationDown`
with `ScheduleReconnect` is what every failure funnels through.  A swap is one
action per await: `SwapAsks`, then `ToolsListed`, `ToolsRefused` or
`ToolsFailed`; `SwapResources` has no await.  Prompts are registered one by one
while they are fetched: `PromptRegistered` is the first that is (`loading`), the
others stutter; from then on the registry holds names that only the swap under
way knows of, until `PromptsListed` disposes of the old ones and hands the new
over.  `NothingLeaked` allows for this time, and `StopsClean` asks that nothing
of it is left.  `connectedAt` is down, fresh
or past the stability window.  The pages of a list, the deferred-tool seam and
the text of names are left out; a list is its version, and an answer holds any
version between the request and now.  The history `since` counts reconnects
since a connection was last stable, `missed` whether the last swap of tools
failed.

### SettingsCascade

A document maps namespaces to sections, a section maps keys to values or
`Absent`; a file may also be `Malformed`.  `Diff` is the code's: two `Arrays`
differ, equal ones too.  The layers above the user's file are
merged into one.  `Write` and `EditSection` are the calls, `queue` the writes of
a namespace, `ops` the chain.  A persist is `ReadFile`, `Confirm` (the re-read
before the rename), `Rename`, with `Retry`, `GiveUp`, `FailRead` and
`FailRename`; a round begins at `chained` or, after a retry, `again`, and an edit
looks only at the first whether the watchers are closed (`Late`); a reload is `StartReload`, `ReadSource` of each layer, `Loaded`.
`Foreign` edits, breaks or mends a file, `Notice` is a watcher.  The assignment
of `load()` to the shadow and the publication are one step, since no await lies
between them.

### AcpPrompt

`inflight` is the record of the prompt in flight with the fields the code
keeps; `settle` says at which await the settlement is.  `Call`, `Admit`, `Queue`
are the stages of `prompt()`, `Cancel` and `Close` the client's calls, the
`Settle...` actions the rounds: rest of the Agent, children, updates, and again
if the log grew meanwhile.  The Agent is external: it starts turns from its
inbox, updates, ends, fails, delegates, is maintained or vanishes.  Chains of
microtasks between two awaits are one step; `claimed` stands for the number of
the turn, of which only the comparison with the prompt's own matters; updates
about tools never fail a prompt.

### ChildRelease

One child is enough, since every map and set is keyed by the child.  `child` is
what the harness does with it; a child that entered the registry goes on to its
epoch, and a drain removes it once the epoch is over, at once or while a release
still polls.  `timer` is the window the pending timer runs with, so that a timer
that outlives a promotion would show.  `Fire` may come at any time after the
arming.  `Issue` marks and issues the drain, as nothing awaits between the last
look at the signal and the drain; `Hears`, `Polled`, `TimesOut` and `Late` are
what follows; `Rejected` is one definition because the handler in time and the
late one treat a rejection alike.  A read of the registry may fail at any time.

## 4. Runs

| run | what it asks | instance |
|---|---|---|
| `commit_rewrite` | a save and a write-back against each other, failures anywhere; do commits end | 2 topics, 3 rounds, cap 1, fair |
| `commit_suffix` | *violated*: one name the end of another | 2 topics, 2 rounds |
| `dream` | who may take a stamp, what a free lock says, arms against clears, when a process is busy; lock and process are given up | 2 dreams, 2 processes, 1 save, time 2, stale 1, failing file operations, fair |
| `admission` | a FIFO lease, nobody forgotten | 4 calls, 2 parents, fair |
| `epoch` | terminals, accounts, notices, leaks; calls end | 2 calls, 2 epochs, fair |
| `mcp` | overlap, budget, registries; outages and disposal end | 4 generations, 1 retry, 1 list change, queue 2, fair |
| `mcp_bridge` | *violated*: the bridge after a swap | 2 generations |
| `settings` | coherence, revisions, what a write changes, disposal, queues that stand; the cache follows the files | 2 calls, 2 keys, a value, a refused one and an array, 2 edits from outside, 2 rounds, fair |
| `settings_reload` | *violated*: a write that changes nothing behind a reload | the same, 1 edit, two watchers |
| `acp` | when a prompt is answered, and that it is; nobody waits in vain | 2 prompts or a prompt and a message, 1 undelivered update, fair |
| `acp_cancel` | *violated*: a cancellation during the routing | the same |
| `release` | tombstone, timer and marks; releases return, settled children lapse | 1 child, 2 releases, 2 polls, fair |

A component that stops for ever is a matter of liveness, which TLC checks under
fairness and no theorem reaches.  What the code has to keep for it at every
single step is an invariant, though, and three are stated for it:
`BusyIsLaunch` (a process is marked busy exactly while a dream of its own is
being started), `QueuesMove` (the first of a queue or of the chain is a call that
is still under way) and `NoVainWait` (whoever waits for the Agent or for updates
waits for an Agent that has not come to rest and for updates that are still to
be delivered).  They say what a lost wake-up would break first, and they are
proved.

*Why the bounds are enough.*  A conflict of commits needs two writers and one
pointer that is not theirs; a cap of 1 makes two topics one too many, and three
rounds are two retries and the last.  The lock needs a holder and a reclaimer;
within time 2 a stamp made at 1 goes stale, is taken over, and meets the late
release of its owner.  One dream and the save meet failing operations, the other
dream does not; that a save blind to the marker lowers it under a third arm takes
two saves and is left to the proofs.  Its instance identifies states that differ only in what
a dream will not use again (`MCView`), which keeps every property's value.
Four calls have a first, a middle and a last of one chain and a bystander.  Two
collectors share the listeners; two epochs are the collected one and a later
one.  With one retry allowed, four generations contain a full outage, a recovery
past the stability window and a second outage that is given up; two queued swaps
put a notification behind the give-up and before it.  Two settings calls with
two edits from outside have one edit in front of a persist and one inside it,
one of them may put an array on the higher layer, and two rounds are one retry
and the last; other namespaces only wait in the
same chain.  Two prompts are one in flight and one refused or following.  Two
releases share the mark; of two polls one is repeated and one is the last.
The theorems hold without these bounds, as far as they reach.  `/learn`
(`Learner`) is left to the proofs: it differs from `memory_save` in one
condition on the cap.

Deadlock is not checked where the system really stops: writers commit once,
dreams run once, calls are made once, a supervisor, a session or a service is
disposed of, a child may be gone.

*Fairness.*  Weak fairness of the steps of a commit, of a dream and of the
clock: a started async function is resumed and its file operations settle
(`CommitsEnd`, `DreamEnds`); a process need not crash and nobody has to begin.
Admission: the event loop runs ready continuations and a creation settles.
EpochCollector: the harness runs an accepted child's first epoch to its end and
notifies, and a step that is awake takes the inbox (strong fairness of `Enters`,
since the parent may step with an empty inbox in between).  McpConnection:
`connect`, `close` and requests are bounded by timeouts, timers fire, promises
resume.  Nothing is assumed of a server: it may crash, hang until the timeout or
never close.  Settings: one condition, `WF(GoOn)`: as long as operations,
disposal or watchers have something to do, something is done, in whatever
order; nobody has to write or edit.  AcpPrompt: the Agent ends its turns and
rests, children and maintenance end, deliveries settle, and the session's own
continuations run; the client need not cancel or close.  ChildRelease: timers
fire and continuations run, and the harness answers `listChildren`; it need not
end an epoch or settle a drain.

## 5. Findings

* `commit_suffix`: `pointerAdditions` (index-commit.ts:144) tests
  `includes('profile.md')`, which holds when the rewrite only names
  `user-profile.md`; a concurrent save of `profile` loses its pointer although
  no model has seen it, which the comments at :12 and :130 exclude.
* `mcp_bridge`: the resource bridge is registered before its predecessor is
  disposed of; the registry refuses the duplicate names, the refusal is logged,
  the predecessor goes, and the bridge is gone after a reconnect
  (connection.ts:247, resources.ts:70, against connection.ts:3 and :17).
* `settings_reload`: a write takes its base, then queues behind a reload that
  publishes an external edit; finding that it changes nothing against that base,
  it writes no file and sets the cache back (settings-cascade index.ts:314,
  provider.ts:433, against index.ts:180).  The file is not reported again.
* `settings`, `OnlyAskedChanged`: `deepEqual` is false for two equal arrays, and
  the base of the diff is a clone, so every write sets every array of the
  namespace in the user's file: the arrays of higher layers are copied in, and
  one that another process has changed is put back (persist.ts:29,
  settings-cascade index.ts:259, against persist.ts:42 and the README of
  settings-cascade, line 34).  The property excepts these arrays, `Resent`, and says
  what they are set to; TLC refutes it without the exception.
* `settings`, `Follows`: a key that a write unsets and a higher layer has comes
  back in the running process, since the rename of the write itself is noticed
  and reloads the files; the same README, line 55, has it hold until a restart.
* `acp_cancel`: a cancellation between the mark `messageQueued` and the
  hand-over completes at once, and the message is still handed to the Agent
  (session.ts:303, against turns.spec.ts:363 and cancellation-status.ts:65).

Met while modelling, shown by earlier instances or a variant of a property, and
not kept as runs:

* A dream that cannot read the lock takes it, from a live holder with a fresh
  stamp too (lock.ts:109-111; `tryAcquireLock` documents `null` when blocked).
  `HolderUndisturbed` names the failed read beside the stale window and the race.
* A forced launch that cannot read the marker writes the arm it captured over a
  newer one (pressure.ts:138), and the clear of its dream then takes both; the
  arm that landed late is lost without a race.  `ArmServed` says that some arm
  stands after such a write, `LateArmSurvives` excepts it through `Overwritten`.
* An edit whose round is repeated goes on though the watchers have closed since
  (edit-user-section.ts:58 looks once); the disposer waits for it.
* A failed dream that took over a crashed one rolls the lock back to the crashed
  dream's start, which then counts as the last consolidation (lock.ts:53, :96).
  `EpochHonest` is therefore stated until a stale lock is taken over.
* Between the claim of `next()` and the filter, a notice of a later epoch is
  dropped in place of the collected one (suppress-settled.ts:78 against
  epoch-collector.ts:138).  `OnlyCollectedDropped` names this window.
* The expected revision of a settings write is compared before its persist
  queues (provider.ts:420): a reload ahead of it may move the namespace.
  `OneWinner` is about two writes of this process.
* An arm takes a stamp newer than the marker it reads, not newer than every arm
  before (pressure.ts:89).  After a clear, or after a stale write that put an
  older marker back, the next arm starts from the clock and may repeat the stamp
  that a running dream serves; that dream's clear then takes it
  (`marker.armed > served`, pressure.ts:162), which the comment there excludes.
  The proof of `LateArmSurvives` asked for this case, and TLC shows it with two
  saves (2 million states, too many for the fair run, which has one).  `Landed`
  and `Overwritten` name it; the theorem holds for any number of saves.
* Two releases of one child share the mark `releasing`: the rejection of the one
  withdraws it while the drain of the other is in flight, although
  release.ts:69-72 calls a retry's mark "clobber-proof" and release-agent.ts
  declares the tool safe to run in parallel.  A collect that this drain aborts is
  then told that the child can be resumed.  Leaving out the condition on settled
  drains, TLC refutes `EvictionSeen` in seven states.
* A released child that comes back and whose second release is refused keeps the
  mark, since `clearReleasing` does nothing for a released child; a stop of it is
  answered as if it were being released (command-agents index.ts:132).
  `MarkAccounted` is stated for children never released.

## 6. Proofs

Each proof module shows an inductive invariant and derives the properties from
it.  Assumptions are those on the constants, named in the component's module
and evaluated by TLC on every instance.

* **IndexCommitProofs** (any writers, topics, rounds, cap): types; every commit
  has counted a foreign change in each round it used up (`ConflictNeedsOthers`);
  a writer past its topic files has them on disk and what it builds points to
  existing files only (`PointersExist`); while nobody moved the index, the
  round's document is the current one and `content` is what the builder makes
  of it (`LossNeedsWindow`, for `Within = {}`, which `commit_suffix` shows to be
  needed; `NothingComesBack`, `CapHolds`).
* **ConsolidationProofs** (any processes, dreams, savers, windows): types with
  "no stamp is from the future"; what a pending write of the lock rests on
  unless `stale` or `blind` (`HoldersUndisturbed`, from `GuardBy`: who writes
  the lock on a good read has read a free, a stale or its own stamp), the same
  for the marker (`ArmsServed`, from `MarkerBy`), and which epochs a dream may roll back to until a stale lock
  is taken over (`EpochsHonest`).  `Standing`: while a dream is under way, an arm
  that landed late has a stamp newer than the one the dream serves, or a clear
  has taken all arms.  It needs what a good read fixes of each write of the
  marker (`MarkerBy`): an arm is newer than what it read, a forced launch keeps
  an absent marker absent, a clear keeps what is newer than its own
  (`LateArmsSurvive`).  `OneLaunch`, that one dream of a process is being started
  at a time, makes `BusyIsLaunch` inductive: a dream that returns takes back a
  flag that no other relies on (`BusyIsLaunching`).
* **AdmissionProofs** (any calls and parents): a call waits for one call of its
  parent, nobody else waits for that one, and a settled tail is settled with
  all before it.  `LeaseExclusive`, `LeaseInOrder`, `TailsFresh` follow.
* **EpochCollectorProofs** (any calls and epochs): where a call is determines
  its watch, its mark and the state of its child; notices are accounted for
  once outside the claim-to-filter window.  `WatchesHold`, `TerminalIsFirst`,
  `AccountsOnce`, `OthersHeard`, `MarksAreDue`.
* **McpConnectionProofs** (any policy, capabilities, generations, queue):
  `Placed`: every generation but the last is settled and closed, and an armed
  timer means that the last one is too; `Counted`: `failedAttempts` is the
  number of reconnects since a stable connection, plus one while a retry is
  pending; `Queued`: an attempt waits for exactly the swap it queued;
  `Cleared`: whoever gave up has the clearing queued, or all is cleared and no
  swap is under way.  `Queued` is needed since resuming an attempt for a swap
  of another would settle a generation twice.  `NeverOverlaps`,
  `OneActorAlways`, `BudgetKept`, `NothingLeaks` (by kind of name, and by
  the swap that fetches prompts, which is at the head of the chain), and the half
  of `StopsClean` about giving up.
  `DisposeInv` adds what dispose() has waited for and that no step undoes it
  (`StopsCleanly`).  `FreshInv` follows the tools from the notice to the
  registry: a client past its initial swap has the announced version or a swap
  of its own queued (`Served`); the running swap asks for a version not older
  than what was told before it started, and a notice that comes while it runs
  has queued another behind it (`Asking`); the initial swap is queued while the
  attempt waits for it (`Initial`).  Without `Asking` the answer of the running
  swap could count as the later version (`ToolsAreFresh`).
* **SettingsCascadeProofs** (any namespaces, keys, files, calls): only the
  running call is between its reads and its end (`Owned`), a load belongs to the
  running operation, what a call has computed is its patch on the document of
  that time (`Computed`), and the file is what it read unless `exposed`.
  `CacheCoherent` and `OnlyAsked` follow.  `Queued`: a namespace's queue holds
  its waiting writes, each once, and only its first is past the comparison of
  revisions.  `Versioned`: the revision of a saved write is of the past, unless
  the service has stopped and nothing of that namespace is on its way;
  `Exclusive`: a write on its way does not carry the revision of a saved one.
  The comparison is made at the head of the queue, so `Queued` is what makes it
  good until the write is saved (`RevisionsWin`).  `Drained` and `Quiet` say
  that what the disposer did not wait for has not started (`QuietDown`).
  `Linked`: the chain holds the calls past their queue, each once, and reloads;
  with `Queued` it gives `QueuesGoOn`.
* **AcpPromptProofs** (any number of prompts): `RestInv` says who holds the slot
  and what the settlement knows at each of its awaits unless the log grew;
  `AnswerAtRest` follows.  `OverInv` adds that a message is in the inbox, turned
  or over, and that an answered prompt is over (`AnswerIsFinal`).  `HeardInv`: the
  updates of a prompt whose cancellation waits for n updates are among the first
  n, since the Agent has let go of it (`OverInv`), and a prompt that was never
  queued has none on their way (`CancelledIsHeard`).  `NoVainWait` is inductive
  over these: every change of the Agent's status either leaves it busy or meets
  whoever waits, and no count of updates exceeds those on their way
  (`WaitsAreMet`).
* **ChildReleaseProofs** (any releases and polls): whoever is past its dispatch
  is recorded, which makes `TombstoneHonest` inductive (`TombstonesHonest`); a
  release that polls has a resolved drain, which does the same for
  `MarkAccounted` and `EvictionSeen` (`MarksAccounted`, `EvictionsSeen`).
* The refinement of FifoLease (**AdmissionProofs**, `LeaseImplemented`): initial
  states and steps; its fairness is checked by TLC only.

Only model-checked: liveness (`CommitsEnd`, `DreamEnds`, `CallEnds`,
`Ends`, `CallsSettle`, `Follows`, `Answers`, `Retires`) and the fairness half of
`ImplementsLease`, for which the prover has no rules; and of course the
violations.

## 7. Assumptions on what is outside

* `fs` writes of one small file are read whole or not at all; a read fails or
  sees the last write.  Only the code writes the lock and the marker.
* The harness starts and ends the epochs of a child in order, notifies each
  once, and wakes the parent for a notice.
* The MCP SDK calls `onclose` once or more and in any order with its answers;
  requests and `close()` end.  The tool registry refuses a name that is taken;
  whether the skill registry does is left open (prompts may or may not be
  registered).
* A model's rewrite of the index is arbitrary within the names it may use.
* A child ends every epoch it starts, and an activation in the registry begins
  one (ChildRelease).  `ctx.agents` is there when the grace window is mounted, so
  that the promotion its timer asks for does not throw (`Fire` leaves out the
  failure that grace-window.ts:160-162 swallows).
* The harness' Agent runs what is in its inbox in order, and `whenIdle` resolves
  when it is idle and not maintained (AcpPrompt).
* A rename replaces a file at once; a watcher reports a change late, or once for
  several (SettingsCascade).
