----------------------------- MODULE Admission -----------------------------
(***************************************************************************)
(* The admission of spawns and continuations, one at a time for each       *)
(* parent session (packages/subagent/resume-pins/src/admission.ts): a      *)
(* chain of promises.  Each call waits for the tail it found in the map,   *)
(* leaves its own tail there, and takes the tail out again once it has     *)
(* settled, if it is still the last.  The steps are those of the event     *)
(* loop: what an acquire does before its await, its continuation, a        *)
(* release, and the settling of a tail.                                    *)
(***************************************************************************)
EXTENDS Integers

CONSTANTS
  Call,      \* calls of acquireAdmission
  Parent,    \* parent sessions
  ParentOf,  \* the session a call is for
  NoCall     \* no tail: the map has no entry

ASSUME AdmissionAssumption ==
  NoCall \notin Call /\ ParentOf \in [Call -> Parent]

VARIABLES
  pc,        \* where each call is
  tails,     \* the map: the call whose tail is the last of each parent
  previous,  \* the call a call waits for
  released,  \* the calls whose own promise is resolved
  settled,   \* the calls whose tail is settled: they and all before them
  aborted,   \* the calls whose signal is aborted
  before     \* history: the calls that came before, for the same parent

vars == <<pc, tails, previous, released, settled, aborted, before>>

Goto(c, label) == pc' = [pc EXCEPT ![c] = label]
Siblings(c) == {d \in Call : ParentOf[d] = ParentOf[c]}
Came == {c \in Call : pc[c] \notin {"idle", "refused"}}

Init ==
  /\ pc = [c \in Call |-> "idle"]
  /\ tails = [p \in Parent |-> NoCall]
  /\ previous = [c \in Call |-> NoCall]
  /\ released = {} /\ settled = {} /\ aborted = {}
  /\ before = [c \in Call |-> {}]

\* The signal of a call may abort at any time.
Abort(c) ==
  /\ c \notin aborted /\ aborted' = aborted \cup {c}
  /\ UNCHANGED <<pc, tails, previous, released, settled, before>>

\* signal.throwIfAborted() at the entry.
Refuse(c) ==
  /\ pc[c] = "idle" /\ c \in aborted /\ Goto(c, "refused")
  /\ UNCHANGED <<tails, previous, released, settled, aborted, before>>

\* Up to the await: the call takes its place in the chain.
Enqueue(c) ==
  /\ pc[c] = "idle" /\ c \notin aborted /\ Goto(c, "waiting")
  /\ previous' = [previous EXCEPT ![c] = tails[ParentOf[c]]]
  /\ tails' = [tails EXCEPT ![ParentOf[c]] = c]
  /\ before' = [before EXCEPT ![c] = Came \cap Siblings(c)]
  /\ UNCHANGED <<released, settled, aborted>>

TurnCame(c) == previous[c] = NoCall \/ previous[c] \in settled

\* The race is settled by the predecessor; the continuation runs later, and
\* looks at the signal again.
Called(c) ==
  /\ pc[c] = "waiting" /\ TurnCame(c) /\ Goto(c, "called")
  /\ UNCHANGED <<tails, previous, released, settled, aborted, before>>

Grant(c) ==
  /\ pc[c] = "called" /\ c \notin aborted /\ Goto(c, "holding")
  /\ UNCHANGED <<tails, previous, released, settled, aborted, before>>

\* Mutant: a call that is aborted after its turn came keeps the turn.
CancelKeeping(c) ==
  /\ pc[c] \in {"waiting", "called"} /\ c \in aborted /\ Goto(c, "cancelled")
  /\ released' = IF pc[c] = "waiting" THEN released \cup {c} ELSE released
  /\ UNCHANGED <<tails, previous, settled, aborted, before>>

\* The waiter leaves the queue: its turn passes straight on.
Cancel(c) ==
  /\ pc[c] \in {"waiting", "called"} /\ c \in aborted /\ Goto(c, "cancelled")
  /\ released' = released \cup {c}
  /\ UNCHANGED <<tails, previous, settled, aborted, before>>

\* The lease: the finally of the caller, once the creation has settled.
Release(c) ==
  /\ pc[c] = "holding" /\ Goto(c, "done")
  /\ released' = released \cup {c}
  /\ UNCHANGED <<tails, previous, settled, aborted, before>>

\* Mutant: the tail is the call's own promise, whatever comes before it.
SettleAlone(c) ==
  /\ c \in released \ settled
  /\ settled' = settled \cup {c}
  /\ UNCHANGED <<pc, tails, previous, released, aborted, before>>

\* The tail of a call settles after the tail before it and its own promise.
Settle(c) ==
  /\ c \in released \ settled /\ TurnCame(c)
  /\ settled' = settled \cup {c}
  /\ UNCHANGED <<pc, tails, previous, released, aborted, before>>

\* Mutant: a cancelled waiter has no cleanup.
CleanupDone(c) ==
  /\ pc[c] \in {"done", "cancelled"} /\ c \in settled /\ Goto(c, "gone")
  /\ tails' = [tails EXCEPT ![ParentOf[c]] = IF @ = c /\ pc[c] = "done" THEN NoCall ELSE @]
  /\ UNCHANGED <<previous, released, settled, aborted, before>>

\* tail.then(cleanup)
Cleanup(c) ==
  /\ pc[c] \in {"done", "cancelled"} /\ c \in settled /\ Goto(c, "gone")
  /\ tails' = [tails EXCEPT ![ParentOf[c]] = IF @ = c THEN NoCall ELSE @]
  /\ UNCHANGED <<previous, released, settled, aborted, before>>

Next ==
  \E c \in Call :
    \/ Abort(c) \/ Refuse(c) \/ Enqueue(c) \/ Called(c) \/ Grant(c)
    \/ Cancel(c) \/ Release(c) \/ Settle(c) \/ Cleanup(c)

Spec == Init /\ [][Next]_vars

\* The event loop runs what is ready, and a creation settles.
FairSpec ==
  /\ Spec
  /\ \A c \in Call : WF_vars(Called(c) \/ Grant(c) \/ Cancel(c)) /\ WF_vars(Release(c))
                     /\ WF_vars(Settle(c)) /\ WF_vars(Cleanup(c))

-----------------------------------------------------------------------------
(* The line of callers that the chain of promises stands for *)

InLine == {c \in Call : pc[c] \in {"waiting", "called", "holding"}}

Place(label) ==
  IF label = "idle" THEN "new" ELSE IF label \in {"waiting", "called"} THEN "waiting"
  ELSE IF label = "holding" THEN "holding" ELSE "left"

Lease == INSTANCE FifoLease WITH
  place <- [c \in Call |-> Place(pc[c])], ahead <- [c \in Call |-> before[c] \cap InLine]

-----------------------------------------------------------------------------
(* Properties *)

Label == {"idle", "refused", "waiting", "called", "holding", "cancelled", "done", "gone"}

\* Every variable keeps its type; a tail is settled by calls that are through.
TypeOK ==
  /\ pc \in [Call -> Label] /\ tails \in [Parent -> Call \cup {NoCall}]
  /\ previous \in [Call -> Call \cup {NoCall}]
  /\ released \subseteq Call /\ settled \subseteq released /\ aborted \subseteq Call
  /\ before \in [Call -> SUBSET Call]

\* At most one call of a parent holds the lease, however calls of the chain
\* are cancelled and entries of the map taken out.
OneHolder ==
  \A c, d \in Call :
    ParentOf[c] = ParentOf[d] /\ pc[c] = "holding" /\ pc[d] = "holding" => c = d

\* The lease goes in the order of the calls: when a call gets it, every call
\* of its parent that came before has held it and freed it, or has left.
Fifo ==
  [][\A c \in Call : pc[c] # "holding" /\ pc'[c] = "holding" =>
       \A d \in before[c] : pc[d] \in {"done", "cancelled", "gone"}]_vars

\* The chain of promises implements the line: the lease goes to one call of a
\* parent at a time, in the order in which they came; a call that is cancelled
\* leaves the line, and whoever is the first in line gets its turn, so that
\* no waiter is forgotten.
ImplementsLease == Lease!FairSpec

\* A parent's entry never names a call that is gone.
NoStaleTail == \A p \in Parent : tails[p] # NoCall => pc[tails[p]] # "gone"

=============================================================================
