---------------------------- MODULE ChildRelease ----------------------------
(***************************************************************************)
(* The retirement of one durable child: the grace window that tombstones   *)
(* it once it has been quiet for long enough                               *)
(* (packages/subagent/task/src/grace-window.ts), and its explicit release, *)
(* which drains its activation                                             *)
(* (packages/interaction/command-agents/src/release.ts).  Both keep their  *)
(* marks, timers and entries in maps and sets keyed by the child and never *)
(* look at two of them, so one child is enough.  A step runs from one      *)
(* await or callback to the next.                                          *)
(*                                                                         *)
(* External is what the harness does with the child: its activation        *)
(* enters the registry, runs epochs that begin with `subagent/start` and   *)
(* end with `subagent/end`, and leaves; a drain aborts the epoch, removes  *)
(* the activation and may never settle.  What a call reports in words is   *)
(* left out.                                                               *)
(***************************************************************************)
EXTENDS Naturals

CONSTANTS
  Attempt,  \* calls of runRelease for the child
  Polls     \* how often a read that finds the child is repeated: 10 in the code

ASSUME ChildReleaseAssumption == Polls \in Nat \ {0}

\* What autoReleaseMs of a definition may be: absent, 0, or a time; and the
\* windows these and the two tiers lead to.
Override == {"absent", "zero", "custom"}
Tier == {"foreground", "background"}
Off == "zero"
Unarmed == "none"

VARIABLES
  child,       \* external: what the harness does with the child
  sending,     \* a send_message passed its gates and is not delivered yet
  recorded,    \* whether the arm registry has an entry of the child
  tier,        \* the tier of that entry
  override,    \* its overrideMs
  timer,       \* the window of the pending timer
  tombstoned,  \* whether the child is in the set `tombstoned`
  releasing,   \* ... in the set `releasing`
  released,    \* ... in the set `released`
  pc,          \* where each release is
  hit,         \* whether its read before the drain found the child
  polls,       \* how often it has read the registry since the drain
  drain        \* external: the drain each release issued

entry == <<recorded, tier, override>>
marks == <<tombstoned, releasing, released>>
release == <<pc, hit, polls>>
vars == <<child, sending, entry, timer, marks, release, drain>>

Goto(a, label) == pc' = [pc EXCEPT ![a] = label]

\* The states of the child in which ctx.agents has it.
Resident == {"entered", "running", "idle"}
\* An activation that entered goes on to its epoch.
Active == {"entered", "running"}
Evicted == IF child = "idle" THEN "dormant" ELSE child
Settled == {"resolved", "teardown", "failed"}

\* guardedRegistryRead: the read may also fail.
Reads(r) == r = "blind" \/ r = (IF child \in Resident THEN "present" ELSE "absent")

(***************************************************************************)
(* The grace window.                                                       *)
(***************************************************************************)

\* resolveGraceWindowMs: an override of 0 counts as one.
Window(t, o) == IF o = "absent" THEN t ELSE o

\* cancelPendingGrace, then armGraceWindow unless the entry says never.
Arms(t, o) == timer' = IF Window(t, o) = Off THEN Unarmed ELSE Window(t, o)

\* A fresh child, or one of an earlier process that mountGraceWindowAutoRelease
\* found pinned and armed from its pin.
Init ==
  /\ \E t \in Tier, o \in Override :
       \/ /\ child = "unborn" /\ recorded = FALSE /\ timer = Unarmed
          /\ t = "background" /\ o = "absent" /\ tier = t /\ override = o
       \/ /\ child = "dormant" /\ recorded = TRUE /\ tier = t /\ override = o
          /\ timer = IF Window(t, o) = Off THEN Unarmed ELSE Window(t, o)
  /\ sending = FALSE /\ tombstoned = FALSE /\ releasing = FALSE /\ released = FALSE
  /\ pc = [a \in Attempt |-> "idle"] /\ hit = [a \in Attempt |-> FALSE]
  /\ polls = [a \in Attempt |-> 0] /\ drain = [a \in Attempt |-> "none"]

\* The dispatch records the child before it awaits the creation.
Dispatch(t, o) ==
  /\ child = "unborn" /\ child' = "creating"
  /\ recorded' = TRUE /\ tier' = t /\ override' = o
  /\ UNCHANGED <<sending, timer, marks, release, drain>>

\* External: the activation enters the registry, or its creation fails.
Created ==
  /\ child = "creating" /\ child' \in {"entered", "gone"}
  /\ UNCHANGED <<sending, entry, timer, marks, release, drain>>

\* An epoch begins: onStartGrace.
Starts ==
  /\ child \in {"entered", "idle"} /\ child' = "running"
  /\ IF recorded THEN timer' = Unarmed /\ tombstoned' = FALSE
     ELSE UNCHANGED <<timer, tombstoned>>
  /\ UNCHANGED <<sending, entry, releasing, released, release, drain>>

\* An epoch ends: armGraceWindow.  The child stays resident or leaves.
Ends ==
  /\ child = "running" /\ child' \in {"idle", "dormant"}
  /\ IF recorded THEN Arms(tier, override) ELSE UNCHANGED timer
  /\ UNCHANGED <<sending, entry, marks, release, drain>>

\* External: the harness drops the idle activation.
Leaves ==
  /\ child = "idle" /\ child' = "dormant"
  /\ UNCHANGED <<sending, entry, timer, marks, release, drain>>

\* Mutant: a child that is live again gets no new window.
FireOnce ==
  /\ timer # Unarmed /\ recorded /\ timer' = Unarmed
  /\ IF child \in Resident THEN UNCHANGED tombstoned ELSE tombstoned' = TRUE
  /\ UNCHANGED <<child, sending, entry, releasing, released, release, drain>>

\* fireGraceWindow: a child that is live again gets a new window.
Fire ==
  /\ timer # Unarmed /\ recorded
  /\ IF child \in Resident THEN Arms(tier, override) /\ UNCHANGED tombstoned
     ELSE timer' = Unarmed /\ tombstoned' = TRUE
  /\ UNCHANGED <<child, sending, entry, releasing, released, release, drain>>

\* Mutant: the pending timer is cancelled and none takes its place.
PromoteBare ==
  /\ recorded /\ child # "gone" /\ tier = "foreground" /\ tier' = "background"
  /\ timer' = Unarmed
  /\ UNCHANGED <<child, sending, recorded, override, marks, release, drain>>

\* promoteGraceTier: a collect that still waits goes to the background, before
\* the child's first end or after it.
Promote ==
  /\ recorded /\ child # "gone" /\ tier = "foreground" /\ tier' = "background"
  /\ IF timer = Unarmed THEN UNCHANGED timer ELSE Arms("background", override)
  /\ UNCHANGED <<child, sending, recorded, override, marks, release, drain>>

\* A send_message to a child without an activation passes the gate of
\* resume-pins: a tombstoned child is denied.
Send ==
  /\ child = "dormant" /\ ~sending /\ ~tombstoned /\ sending' = TRUE
  /\ UNCHANGED <<child, entry, timer, marks, release, drain>>

\* It brings the child back, if nothing else has, or is refused by a later
\* gate.
Delivers ==
  /\ sending /\ sending' = FALSE
  /\ \/ child = "dormant" /\ child' = "entered"
     \/ UNCHANGED child
  /\ UNCHANGED <<entry, timer, marks, release, drain>>

(***************************************************************************)
(* The release.                                                            *)
(***************************************************************************)

MarkReleased == releasing' = FALSE /\ released' = TRUE
ClearReleasing == releasing' = (releasing /\ released) /\ UNCHANGED released
KeepMark == UNCHANGED <<releasing, released>>

\* runRelease up to the await of listChildren.
Call(a) ==
  /\ pc[a] = "idle" /\ Goto(a, "listing")
  /\ UNCHANGED <<child, sending, entry, timer, marks, hit, polls, drain>>

\* It is aborted, or the catalog and the registry refuse it: nothing is marked.
Refused(a) ==
  /\ pc[a] = "listing" /\ Goto(a, "done")
  /\ UNCHANGED <<child, sending, entry, timer, marks, hit, polls, drain>>

\* Mutant: the mark comes before the last look at the signal.
IssueMarked(a) ==
  /\ pc[a] = "listing" /\ releasing' = TRUE
  /\ \E r \in {"present", "absent", "blind"} :
       /\ Reads(r) /\ r # "absent" /\ hit' = [hit EXCEPT ![a] = r = "present"]
  /\ \/ Goto(a, "racing") /\ drain' = [drain EXCEPT ![a] = "pending"]
     \/ Goto(a, "done") /\ UNCHANGED drain
  /\ UNCHANGED <<child, sending, entry, timer, tombstoned, released, polls>>

\* The matrix of catalog and registry lets it through: it marks the child and
\* issues the drain.  A read that fails passes if the catalog has the child.
Issue(a) ==
  /\ pc[a] = "listing" /\ Goto(a, "racing")
  /\ \E r \in {"present", "blind"} : Reads(r) /\ hit' = [hit EXCEPT ![a] = r = "present"]
  /\ releasing' = TRUE /\ drain' = [drain EXCEPT ![a] = "pending"]
  /\ UNCHANGED <<child, sending, entry, timer, tombstoned, released, polls>>

\* External: the drain removes the activation once its epoch is over, at once
\* or a little later, and a failed teardown is reported after the removal; or
\* the drain is refused.  A turn that resists the abort keeps it pending.
DrainSettles(a) ==
  /\ drain[a] = "pending"
  /\ \/ /\ child \notin Active
        /\ \/ drain' = [drain EXCEPT ![a] = "resolved"] /\ child' \in {child, Evicted}
           \/ drain' = [drain EXCEPT ![a] = "teardown"] /\ child' = Evicted
     \/ drain' = [drain EXCEPT ![a] = "failed"] /\ UNCHANGED child
  /\ UNCHANGED <<sending, entry, timer, marks, release>>

\* The drain was rejected in time, or after the call had returned: only a
\* failed teardown of a child that is gone releases it.
Rejected(a) ==
  /\ Goto(a, "done")
  /\ \/ drain[a] = "failed" /\ ClearReleasing
     \/ /\ drain[a] = "teardown"
        /\ \E r \in {"present", "absent", "blind"} :
             Reads(r) /\ IF r = "present" THEN ClearReleasing ELSE MarkReleased

\* A read after the drain resolved.  The child is released when it was there
\* and is no longer; while it still is, the read is repeated.
PostRead(a) ==
  \E r \in {"present", "absent", "blind"} :
    /\ Reads(r)
    /\ \/ /\ r = "present" /\ polls[a] < Polls /\ Goto(a, "polling")
          /\ polls' = [polls EXCEPT ![a] = @ + 1] /\ KeepMark
       \/ /\ r = "present" /\ polls[a] = Polls
          /\ Goto(a, "done") /\ ClearReleasing /\ UNCHANGED polls
       \/ /\ r # "present" /\ Goto(a, "done") /\ UNCHANGED polls
          /\ IF hit[a] THEN MarkReleased ELSE ClearReleasing

\* The drain settled within the time a call observes it.
Hears(a) ==
  /\ pc[a] = "racing"
  /\ \/ drain[a] = "resolved" /\ PostRead(a)
     \/ drain[a] \in {"failed", "teardown"} /\ Rejected(a) /\ UNCHANGED polls
  /\ UNCHANGED <<child, sending, entry, timer, tombstoned, hit, drain>>

Polled(a) ==
  /\ pc[a] = "polling" /\ PostRead(a)
  /\ UNCHANGED <<child, sending, entry, timer, tombstoned, hit, drain>>

\* Mutant: the call that gives up withdraws its mark.
TimesOutClear(a) ==
  /\ pc[a] = "racing" /\ drain[a] = "pending" /\ Goto(a, "late") /\ ClearReleasing
  /\ UNCHANGED <<child, sending, entry, timer, tombstoned, hit, polls, drain>>

\* It did not: the call returns and its mark stays.
TimesOut(a) ==
  /\ pc[a] = "racing" /\ drain[a] = "pending" /\ Goto(a, "late")
  /\ UNCHANGED <<child, sending, entry, timer, marks, hit, polls, drain>>

\* The drain settles after its call returned.  If the registry cannot be read
\* then, the mark is kept for good.
Late(a) ==
  /\ pc[a] = "late"
  /\ \/ Rejected(a)
     \/ /\ drain[a] = "resolved"
        /\ \/ Reads("absent") /\ MarkReleased /\ Goto(a, "done")
           \/ Reads("present") /\ ClearReleasing /\ Goto(a, "done")
           \/ Reads("blind") /\ KeepMark /\ Goto(a, "kept")
  /\ UNCHANGED <<child, sending, entry, timer, tombstoned, hit, polls, drain>>

Grace == Fire \/ Promote \/ Send \/ Delivers \/ \E t \in Tier, o \in Override : Dispatch(t, o)
Harness == Created \/ Starts \/ Ends \/ Leaves \/ \E a \in Attempt : DrainSettles(a)
Releases(a) == Call(a) \/ Refused(a) \/ Issue(a) \/ Hears(a) \/ Polled(a) \/ TimesOut(a) \/ Late(a)
Next == Grace \/ Harness \/ \E a \in Attempt : Releases(a)
Spec == Init /\ [][Next]_vars

\* The calls of timers and continuations happen; the harness answers
\* listChildren, but need not end an epoch or settle a drain.
FairSpec ==
  /\ Spec /\ WF_vars(Fire)
  /\ \A a \in Attempt :
       WF_vars(Refused(a) \/ Issue(a) \/ Hears(a) \/ Polled(a) \/ TimesOut(a) \/ Late(a))

(***************************************************************************)
(* Properties                                                              *)
(***************************************************************************)

\* Every variable keeps its type.
TypeOK ==
  /\ child \in {"unborn", "creating", "gone", "dormant"} \cup Resident
  /\ sending \in BOOLEAN /\ recorded \in BOOLEAN /\ tier \in Tier /\ override \in Override
  /\ timer \in Tier \cup {"custom", Unarmed}
  /\ tombstoned \in BOOLEAN /\ releasing \in BOOLEAN /\ released \in BOOLEAN
  /\ pc \in [Attempt -> {"idle", "listing", "racing", "polling", "late", "kept", "done"}]
  /\ hit \in [Attempt -> BOOLEAN] /\ polls \in [Attempt -> 0..Polls]
  /\ drain \in [Attempt -> {"none", "pending"} \cup Settled]

\* A child in the middle of an epoch or resident after one is not tombstoned,
\* though a message may bring it back while its window expires (fireGraceWindow
\* re-checks the registry, onStartGrace clears the mark).
LiveNotTombstoned == child \in {"running", "idle"} => ~tombstoned

\* No ready row is kept for ever unwatched: a settled child whose window is not
\* off is tombstoned or has a timer that runs with the window of the current
\* entry, whatever restarts, promotions, expiries and releases came before.
RowWatched ==
  child \in {"idle", "dormant"} /\ recorded /\ Window(tier, override) # Off =>
    tombstoned \/ timer = Window(tier, override)

\* A tombstone stands on a child that is gone for good, and no other settled
\* child goes unwatched.
TombstoneHonest == LiveNotTombstoned /\ RowWatched

\* The mark `releasing` of a child that was never released belongs to a release
\* at work, to one whose drain may still settle, or to one that could not read
\* the registry when it did: no abort or rejection leaves one behind.
MarkAccounted ==
  releasing /\ ~released =>
    \E a \in Attempt : pc[a] \in {"racing", "polling", "late", "kept"}

\* While a drain is in flight a collect that the drain aborts finds a mark (F12a
\* in release.ts), unless the drain of another release has settled: its handler
\* withdraws the one mark the two share.
EvictionSeen ==
  \A a \in Attempt :
    drain[a] = "pending" /\ (\A b \in Attempt : drain[b] \notin Settled) =>
      releasing \/ released

\* A settled child is tombstoned in the end, or comes back, or its window is
\* off; and every release call returns, even if its drain never settles.
Retires ==
  /\ recorded /\ child = "dormant" /\ Window(tier, override) # Off ~>
       tombstoned \/ child # "dormant"
  /\ \A a \in Attempt : pc[a] = "listing" ~> pc[a] \in {"done", "late", "kept"}

=============================================================================
