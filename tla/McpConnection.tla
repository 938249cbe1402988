--------------------------- MODULE McpConnection ---------------------------
(* The connection supervisor of one MCP server                             *)
(* (mcp/mcp-client/src/connection.ts).  A generation is one client with    *)
(* its transport, numbered from 1; 0 stands for none.  What a generation   *)
(* publishes goes into the tool registry, whose names are taken by one     *)
(* owner at a time, under the serialized chain of registration swaps.      *)
(* A list of tools is its version; what is told by the SDK (answers, close *)
(* signals, notifications) may come in any order the transport allows.     *)
EXTENDS Naturals, Sequences

CONSTANTS
  MaxAttempts,  \* policy.maxAttempts
  Enabled,      \* policy.enabled
  Strict,       \* config.failOnStartupError
  Caps,         \* what the server declares besides tools
  MaxGen,       \* bound: generations that are started
  MaxList,      \* bound: changes of the server's tool list
  MaxQueue      \* bound: swaps on the chain when a notification comes

ASSUME ConnectionAssumption ==
  /\ MaxAttempts \in Nat \ {0} /\ MaxGen \in Nat \ {0}
  /\ MaxList \in Nat /\ MaxQueue \in Nat
  /\ Enabled \in BOOLEAN /\ Strict \in BOOLEAN
  /\ Caps \subseteq {"resources", "prompts"}

Gen == 1..MaxGen
Owner == 0..MaxGen
Kind == {"tools", "resources", "prompts"}

VARIABLES
  disposed, client, timer, failedAttempts,
  connectedAt,    \* "down", "fresh", or "stable" past the stability window
  born,           \* generations started; the last one's attempt is `settling`
  phase,          \* where connectGeneration of a generation is
  closed,         \* closeObserved
  chain,          \* the swaps queued on syncChain
  asked,          \* the head has started: the list version when it asked, or Idle
  registrations,  \* whose disposers the supervisor holds, by kind
  published,      \* who owns the server's names in the registries, by kind
  loading,        \* the prompt swap under way has registered skills already
  held,           \* the list version that is registered
  list, told,     \* the server's list version, and the last one notified
  teardown,       \* where dispose() is
  missed,         \* history: the last swap of the tools failed
  since           \* history: reconnects since a connection was last stable

supervisor == <<disposed, client, timer, failedAttempts, connectedAt>>
attempt == <<born, phase>>
swaps == <<registrations, published, loading, held, missed>>
server == <<list, told>>
vars == <<supervisor, attempt, closed, chain, asked, swaps, server, teardown, since>>

Idle == MaxList + 1
Unsettled == {"connecting", "tools", "resources", "prompts", "closing"}
Phase == {"none", "settled"} \cup Unsettled
GiveUp == [kind |-> "giveUp", gen |-> 0, own |-> FALSE]
Swap == [kind : Kind, gen : Gen, own : BOOLEAN] \cup {GiveUp}

TypeOK ==
  /\ disposed \in BOOLEAN /\ timer \in BOOLEAN /\ missed \in BOOLEAN /\ loading \in BOOLEAN
  /\ client \in Owner /\ born \in Gen /\ since \in Nat
  /\ failedAttempts \in 0..MaxAttempts + 1
  /\ connectedAt \in {"down", "fresh", "stable"}
  /\ phase \in [Gen -> Phase] /\ closed \in [Gen -> BOOLEAN]
  /\ chain \in Seq(Swap) /\ asked \in 0..Idle
  /\ registrations \in [Kind -> Owner] /\ published \in [Kind -> Owner]
  /\ list \in 0..MaxList /\ told \in 0..MaxList /\ held \in 0..MaxList
  /\ teardown \in {"live", "closing", "settling", "draining", "done"}

Init ==
  /\ disposed = FALSE /\ timer = FALSE /\ failedAttempts = 0 /\ connectedAt = "down"
  /\ client = 1 /\ born = 1
  /\ phase = [g \in Gen |-> IF g = 1 THEN "connecting" ELSE "none"]
  /\ closed = [g \in Gen |-> FALSE]
  /\ chain = <<>> /\ asked = Idle
  /\ registrations = [k \in Kind |-> 0] /\ published = [k \in Kind |-> 0]
  /\ loading = FALSE /\ held = 0 /\ list = 0 /\ told = 0
  /\ teardown = "live" /\ missed = FALSE /\ since = 0

IsCurrent(g) == ~disposed /\ client = g
GaveUp == failedAttempts > MaxAttempts
Goto(g, label) == phase' = [phase EXCEPT ![g] = label]

-----------------------------------------------------------------------------
(* Going down.  `queue` is what the same step leaves on the chain.         *)

ScheduleReconnect(queue) ==
  LET n == (IF connectedAt = "stable" THEN 0 ELSE failedAttempts) + 1 IN
  \/ ~Enabled /\ chain' = queue /\ UNCHANGED <<timer, failedAttempts, connectedAt>>
  \/ /\ Enabled /\ failedAttempts' = n /\ connectedAt' = "down"
     /\ \/ n <= MaxAttempts /\ timer' = TRUE /\ chain' = queue
        \/ n > MaxAttempts /\ chain' = Append(queue, GiveUp) /\ UNCHANGED timer

GenerationDown(g, queue) ==
  \/ ~IsCurrent(g) /\ chain' = queue /\ UNCHANGED supervisor
  \/ IsCurrent(g) /\ client' = 0 /\ ScheduleReconnect(queue) /\ UNCHANGED disposed

\* generation.onclose: the transport is gone.  An unsettled attempt sees it
\* later; a second signal of the same generation finds it replaced.
CloseSignal(g) ==
  /\ phase[g] # "none" /\ closed' = [closed EXCEPT ![g] = TRUE]
  /\ \/ phase[g] = "settled" /\ GenerationDown(g, chain)
     \/ phase[g] # "settled" /\ UNCHANGED <<supervisor, chain>>
  /\ UNCHANGED <<attempt, asked, swaps, server, teardown, since>>

\* The reconnect timer fires: a new generation.
Reconnect ==
  /\ timer /\ timer' = FALSE /\ born < MaxGen
  /\ born' = born + 1 /\ client' = born + 1 /\ Goto(born + 1, "connecting")
  /\ since' = since + 1 /\ told' = list
  /\ UNCHANGED <<disposed, failedAttempts, connectedAt, closed, chain, asked, swaps,
                 list, teardown>>

\* Time passes: a connection outlives the stability window.
Age ==
  /\ connectedAt = "fresh" /\ client # 0 /\ connectedAt' = "stable" /\ since' = 0
  /\ UNCHANGED <<disposed, client, timer, failedAttempts, attempt, closed, chain, asked,
                 swaps, server, teardown>>

-----------------------------------------------------------------------------
(* One attempt: connectGeneration.                                         *)

Own(kind, g) == [kind |-> kind, gen |-> g, own |-> TRUE]

\* The swap an attempt queues after those in `done`, if there is one left.
After(done) == ({"tools"} \cup Caps) \ done
NextSwap(done) == IF "tools" \in After(done) THEN "tools"
                  ELSE IF "resources" \in After(done) THEN "resources" ELSE "prompts"
DoneAt == [tools |-> {"tools"}, resources |-> {"tools", "resources"}, prompts |-> Kind]

\* Mutant: a connect that succeeds starts a fresh budget.
SettleResets(g, queue) ==
  /\ Goto(g, "settled")
  /\ \/ closed[g] /\ GenerationDown(g, queue)
     \/ /\ ~closed[g] /\ chain' = queue /\ failedAttempts' = 0
        /\ connectedAt' = IF IsCurrent(g) THEN "fresh" ELSE connectedAt
        /\ UNCHANGED <<disposed, client, timer>>

\* The end of a successful attempt.
Settle(g, queue) ==
  /\ Goto(g, "settled")
  /\ \/ closed[g] /\ GenerationDown(g, queue)
     \/ /\ ~closed[g] /\ chain' = queue
        /\ connectedAt' = IF IsCurrent(g) THEN "fresh" ELSE connectedAt
        /\ UNCHANGED <<disposed, client, timer, failedAttempts>>

Queue(g, done, queue) ==
  \/ After(done) = {} /\ Settle(g, queue)
  \/ /\ After(done) # {} /\ chain' = Append(queue, Own(NextSwap(done), g))
     /\ Goto(g, NextSwap(done)) /\ UNCHANGED supervisor

Connected(g) ==
  /\ phase[g] = "connecting"
  /\ \/ closed[g] /\ Goto(g, "settled") /\ GenerationDown(g, chain)
     \/ ~closed[g] /\ Queue(g, {}, chain)
  /\ UNCHANGED <<born, closed, asked, swaps, server, teardown, since>>

ConnectRejected(g) ==
  /\ phase[g] = "connecting" /\ Goto(g, "closing")
  /\ UNCHANGED <<supervisor, born, closed, chain, asked, swaps, server, teardown, since>>

\* Mutant: the end of a failed attempt schedules no retry.
QuiescedSilent(g) ==
  /\ phase[g] = "closing" /\ closed[g] /\ Goto(g, "settled")
  /\ UNCHANGED <<supervisor, born, closed, chain, asked, swaps, server, teardown, since>>

\* The catch path closes the generation and waits for its close signal ...
Quiesced(g) ==
  /\ phase[g] = "closing" /\ closed[g] /\ Goto(g, "settled") /\ GenerationDown(g, chain)
  /\ UNCHANGED <<born, closed, asked, swaps, server, teardown, since>>

\* Mutant: a generation that does not close is replaced like any other.
NotQuiescedRetries(g) ==
  /\ phase[g] = "closing" /\ ~closed[g] /\ Goto(g, "settled") /\ GenerationDown(g, chain)
  /\ UNCHANGED <<born, closed, asked, swaps, server, teardown, since>>

\* ... but not for ever: then nothing replaces what may still run.
NotQuiesced(g) ==
  /\ phase[g] = "closing" /\ ~closed[g] /\ Goto(g, "settled")
  /\ client' = IF IsCurrent(g) THEN 0 ELSE client
  /\ UNCHANGED <<disposed, timer, failedAttempts, connectedAt, born, closed, chain, asked,
                 swaps, server, teardown, since>>

-----------------------------------------------------------------------------
(* The chain of registration swaps.                                        *)

swap == Head(chain)

\* Mutant: the attempt is not told that its swap failed.
ResumeForgets(ok) ==
  \/ ~(swap.own /\ ok) /\ chain' = Tail(chain) /\ UNCHANGED <<supervisor, phase>>
  \/ swap.own /\ ok /\ Queue(swap.gen, DoneAt[swap.kind], Tail(chain))

\* The attempt that queued the swap goes on; a notification's swap is done.
Resume(ok) ==
  \/ ~swap.own /\ chain' = Tail(chain) /\ UNCHANGED <<supervisor, phase>>
  \/ swap.own /\ ok /\ Queue(swap.gen, DoneAt[swap.kind], Tail(chain))
  \/ swap.own /\ ~ok /\ chain' = Tail(chain) /\ Goto(swap.gen, "closing") /\ UNCHANGED supervisor

Clear == /\ registrations' = [k \in Kind |-> 0] /\ published' = [k \in Kind |-> 0]
         /\ UNCHANGED <<loading, held, missed>>

Register(kind, old, new) ==
  /\ registrations' = [registrations EXCEPT ![kind] = old]
  /\ published' = [published EXCEPT ![kind] = new]

At(kind) == chain # <<>> /\ asked = Idle /\ swap.kind = kind
RestOfSwap == UNCHANGED <<born, closed, server, teardown, since>>

\* Mutant: giving up leaves the bridge and the prompts in place.
SwapGiveUpTools ==
  /\ At("giveUp") /\ Register("tools", 0, 0) /\ UNCHANGED <<loading, held, missed>>
  /\ chain' = Tail(chain) /\ UNCHANGED <<supervisor, phase, asked>> /\ RestOfSwap

SwapGiveUp ==
  /\ At("giveUp") /\ Clear /\ chain' = Tail(chain)
  /\ UNCHANGED <<supervisor, phase, asked>> /\ RestOfSwap

\* A swap of a generation that was replaced meanwhile does nothing.
SwapSkipped ==
  /\ chain # <<>> /\ asked = Idle /\ swap.kind # "giveUp" /\ ~IsCurrent(swap.gen)
  /\ Resume(TRUE) /\ UNCHANGED <<swaps, asked>> /\ RestOfSwap

\* syncTools and syncPrompts ask the server; the chain waits.
SwapAsks ==
  /\ At("tools") \/ At("prompts")
  /\ IsCurrent(swap.gen) /\ asked' = list
  /\ UNCHANGED <<supervisor, phase, chain, swaps>> /\ RestOfSwap

\* Mutant: the disposers of a refused bridge replace the live ones undisposed.
SwapResourcesLost ==
  /\ At("resources") /\ IsCurrent(swap.gen)
  /\ IF published["resources"] = 0 THEN Register("resources", swap.gen, swap.gen)
     ELSE Register("resources", 0, published["resources"])
  /\ Resume(TRUE) /\ UNCHANGED <<loading, held, missed, asked>> /\ RestOfSwap

\* syncResources registers its tools before the old ones are disposed: a name
\* that is still taken is refused, and the old owner gives it up all the same.
SwapResources ==
  /\ At("resources") /\ IsCurrent(swap.gen)
  /\ LET owner == IF published["resources"] = 0 THEN swap.gen ELSE 0
     IN Register("resources", owner, owner)
  /\ Resume(TRUE) /\ UNCHANGED <<loading, held, missed, asked>> /\ RestOfSwap

Answering(kind) == asked # Idle /\ swap.kind = kind /\ asked' = Idle

\* The tools are listed as they were at some moment since the request, and
\* the old generation is swapped for the new one.
ToolsListed ==
  /\ Answering("tools")
  /\ \E v \in asked..list : held' = v
  /\ Register("tools", swap.gen, swap.gen) /\ missed' = FALSE
  /\ Resume(TRUE) /\ UNCHANGED loading /\ RestOfSwap

\* The same, when someone else has taken one of the names: nothing is
\* registered, and the activation attempt fails in strict mode.  An unchanged
\* list of the same client is not swapped.
ToolsRefused ==
  /\ Answering("tools") /\ ~(registrations["tools"] = swap.gen /\ asked = held /\ held = list)
  /\ LET throws == Strict /\ swap.own /\ swap.gen = 1
     IN /\ Register("tools", IF throws THEN registrations["tools"] ELSE 0, 0)
        /\ Resume(~throws)
  /\ missed' = TRUE /\ UNCHANGED <<loading, held>> /\ RestOfSwap

\* The request fails: the last good generation stays.
ToolsFailed ==
  /\ Answering("tools") /\ missed' = TRUE /\ Resume(FALSE)
  /\ UNCHANGED <<registrations, published, loading, held>> /\ RestOfSwap

\* The prompts are fetched one by one, and each that could be is registered at
\* once, beside the old ones: until the last only this swap knows of them.
PromptRegistered ==
  /\ asked # Idle /\ swap.kind = "prompts" /\ ~loading /\ loading' = TRUE
  /\ UNCHANGED <<supervisor, phase, chain, asked, registrations, published, held, missed>>
  /\ RestOfSwap

\* The new prompts replace the old ones; there may be none, as when the list
\* cannot be fetched.
PromptsListed ==
  /\ Answering("prompts")
  /\ LET owner == IF loading THEN swap.gen ELSE 0 IN Register("prompts", owner, owner)
  /\ loading' = FALSE /\ Resume(TRUE) /\ UNCHANGED <<held, missed>> /\ RestOfSwap

-----------------------------------------------------------------------------
(* Notifications of the server.                                            *)

ListChanges ==
  /\ list < MaxList /\ list' = list + 1
  /\ UNCHANGED <<supervisor, attempt, closed, chain, asked, swaps, told, teardown, since>>

Announced(kind, g) ==
  /\ phase[g] # "none" /\ ~closed[g] /\ Len(chain) < MaxQueue
  /\ \/ kind = "tools" /\ told < list /\ told' = told + 1
     \/ kind \in Caps /\ UNCHANGED told
  /\ UNCHANGED <<supervisor, attempt, closed, asked, swaps, list, teardown, since>>

\* Mutant: a notification is dropped while a swap is queued or under way.
NotifiedQuiet(kind, g) ==
  /\ Announced(kind, g)
  /\ chain' = IF IsCurrent(g) /\ chain = <<>>
              THEN Append(chain, [kind |-> kind, gen |-> g, own |-> FALSE]) ELSE chain

Notified(kind, g) ==
  /\ Announced(kind, g)
  /\ chain' = IF IsCurrent(g) THEN Append(chain, [kind |-> kind, gen |-> g, own |-> FALSE])
              ELSE chain

-----------------------------------------------------------------------------
(* dispose()                                                               *)

Dispose ==
  /\ teardown = "live" /\ disposed' = TRUE /\ timer' = FALSE /\ client' = 0
  /\ teardown' = IF client # 0 THEN "closing" ELSE "settling"
  /\ UNCHANGED <<failedAttempts, connectedAt, attempt, closed, chain, asked, swaps, server,
                 since>>

\* close() has returned and its signal came or was waited for long enough.
DisposeClosed ==
  /\ teardown = "closing" /\ teardown' = "settling"
  /\ UNCHANGED <<supervisor, attempt, closed, chain, asked, swaps, server, since>>

DisposeSettled ==
  /\ teardown = "settling" /\ phase[born] = "settled" /\ teardown' = "draining"
  /\ UNCHANGED <<supervisor, attempt, closed, chain, asked, swaps, server, since>>

\* Mutant: the swaps in flight are not awaited.
DisposeDrainedEarly ==
  /\ teardown = "draining" /\ Clear /\ teardown' = "done"
  /\ UNCHANGED <<supervisor, attempt, closed, chain, asked, server, since>>

DisposeDrained ==
  /\ teardown = "draining" /\ chain = <<>> /\ Clear /\ teardown' = "done"
  /\ UNCHANGED <<supervisor, attempt, closed, chain, asked, server, since>>

-----------------------------------------------------------------------------
Attempt(g) == Connected(g) \/ ConnectRejected(g) \/ Quiesced(g) \/ NotQuiesced(g)
Chain == \/ SwapGiveUp \/ SwapSkipped \/ SwapAsks \/ SwapResources
         \/ ToolsListed \/ ToolsRefused \/ ToolsFailed \/ PromptRegistered \/ PromptsListed
Teardown == DisposeClosed \/ DisposeSettled \/ DisposeDrained

Next ==
  \/ \E g \in Gen : Attempt(g) \/ CloseSignal(g) \/ \E k \in Kind : Notified(k, g)
  \/ Chain \/ Reconnect \/ Age \/ ListChanges \/ Dispose \/ Teardown

Spec == Init /\ [][Next]_vars

\* Requests, close() and the waits for a close signal are all bounded by
\* timeouts, armed timers fire and the promises of the chain are resumed.
\* Nobody has to crash, to change a list, to stay up or to dispose.
Fairness == /\ \A g \in Gen : WF_vars(Attempt(g))
            /\ WF_vars(Chain) /\ WF_vars(Reconnect) /\ WF_vars(Teardown)
FairSpec == Spec /\ Fairness

-----------------------------------------------------------------------------
(* Properties *)

\* A generation is started only when every earlier one has been seen to
\* close: two server processes of one supervisor never overlap, although
\* attempts fail, connects resolve on dead transports and close signals
\* are lost (the close barrier of connection.ts).
NoOverlap == \A g \in Gen : g < born => closed[g]

\* One outage is handled by one actor: a pending retry means that no client,
\* no attempt and no disposal is under way, and the client is the last
\* generation or none (isCurrent makes racing signals idempotent).
OneActor ==
  /\ timer => client = 0 /\ phase[born] = "settled" /\ ~disposed
  /\ client \in {0, born}

\* A server that never stays up gets maxAttempts reconnects, neither more
\* although its connects succeed, nor fewer before the supervisor gives up.
Budget == since <= MaxAttempts /\ (GaveUp => since = MaxAttempts)

\* When the supervisor has given up and its queue has run dry nothing of the
\* server is left in a registry, whichever swaps were in flight.
GaveUpClean == GaveUp /\ chain = <<>> => ~loading /\ \A k \in Kind : published[k] = 0

\* After dispose() nothing is registered, queued, timed or under way.
DisposedClean ==
  teardown = "done" => /\ chain = <<>> /\ ~timer /\ phase[born] = "settled" /\ ~loading
                       /\ \A k \in Kind : published[k] = 0

\* However it stops, the supervisor leaves nothing behind.
StopsClean == GaveUpClean /\ DisposedClean

\* Whatever is registered can be unregistered: the supervisor holds the
\* disposers of all that carries the server's names, but for the skills that a
\* prompt swap has registered while it is still fetching (syncPrompts); these
\* are held by that swap, which is under way and hands them over at its end.
NothingLeaked ==
  /\ \A k \in Kind : published[k] # 0 => registrations[k] = published[k]
  /\ loading => chain # <<>> /\ asked # Idle /\ swap.kind = "prompts"

\* Once connected and quiet, the model sees the tools of the live client in
\* the last version the server announced: no notification is swallowed by a
\* swap that is under way or by the initial one.
ToolsFresh ==
  connectedAt # "down" /\ client # 0 /\ chain = <<>> /\ told = list /\ ~missed =>
    published["tools"] = client /\ held = list

\* Once connected and quiet, a server that declares resources has its bridge
\* registered for the live client ("keeps the harness registries in sync with
\* the live generation").
BridgeServed ==
  connectedAt # "down" /\ client # 0 /\ chain = <<>> /\ "resources" \in Caps =>
    published["resources"] = client

\* dispose() returns, whatever it interrupts.
DisposeEnds == disposed ~> teardown = "done"

\* An outage ends: up again, given up and cleaned, or stopped because the old
\* generation did not close; unless somebody disposes.  (The last conjunct of
\* the premise keeps the outage within the bound of the model.)
Stopped == client = 0 /\ ~timer /\ phase[born] = "settled" /\ chain = <<>>
OutageEnds ==
  ~disposed /\ timer /\ born + (MaxAttempts + 1 - failedAttempts) <= MaxGen
    ~> connectedAt # "down" \/ Stopped \/ disposed

\* Nothing the supervisor waits for holds it for ever.
Ends == DisposeEnds /\ OutageEnds
=============================================================================
