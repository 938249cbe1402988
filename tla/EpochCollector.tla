--------------------------- MODULE EpochCollector ---------------------------
(***************************************************************************)
(* A foreground subagent: the tool call of the parent waits for the first  *)
(* epoch of a resident child                                               *)
(* (packages/subagent/task/src/epoch-collector.ts), and the settlement     *)
(* notice of an epoch it has collected is dropped from the parent's inbox  *)
(* (suppress-settled.ts).  The user may release the wait to the background *)
(* (promote) or abort it, at any time from the reservation on.             *)
(*                                                                         *)
(* The child, the event bus and the inbox are the harness: a child runs    *)
(* its epochs one after another, announces the start and the end of each   *)
(* on the bus, and puts one notice for each end into the inbox of the      *)
(* parent, which claims the notices at the start of its steps.  The code   *)
(* between two awaits is one step.                                         *)
(***************************************************************************)
EXTENDS Integers

CONSTANTS
  Call,     \* collecting tool calls of one parent, each with its own child
  MaxEpoch  \* bound: epochs of a child

ASSUME EpochAssumption == MaxEpoch \in Nat \ {0}

VARIABLES
  pc,          \* where each call is, and its outcome
  promoted,    \* promote() was called
  interrupted, \* the child was told to stop
  signal,      \* the signal was aborted before the call listened
  resolved,    \* the epoch promise of a call is resolved
  watches,     \* the calls in the watch map
  runId,       \* the epoch a watch has captured, or 0
  subscribed,  \* the shared listeners are on the bus
  collected,   \* collectedForSuppression
  epoch,       \* the last epoch of the child that started
  ended,       \* the last epoch of the child that ended
  notified,    \* the last epoch the inbox was notified of
  inbox,       \* the epochs whose notices are pending
  stepping,    \* the parent is in its pre-step
  claimed,     \* the notices this pre-step has claimed
  told,        \* history: the epochs whose notices the parent was given
  dropped,     \* history: the epochs whose notices were dropped
  crossed      \* history: a notice came while an earlier one was claimed

call == <<pc, promoted, interrupted, signal, resolved>>
watch == <<watches, runId, subscribed>>
child == <<epoch, ended>>
notices == <<notified, inbox, stepping, claimed, told, dropped, crossed>>
vars == <<call, watch, collected, child, notices>>

Open == {"starting", "collecting"}
Goto(c, label) == pc' = [pc EXCEPT ![c] = label]

\* release(childId): the watch goes, and with the last one the listeners.
Unwatch(c) ==
  /\ watches' = watches \ {c}
  /\ subscribed' = (subscribed /\ watches' # {})
  /\ UNCHANGED runId

Init ==
  /\ pc = [c \in Call |-> "idle"]
  /\ promoted = [c \in Call |-> FALSE] /\ interrupted = [c \in Call |-> FALSE]
  /\ signal = [c \in Call |-> FALSE] /\ resolved = [c \in Call |-> FALSE]
  /\ watches = {} /\ runId = [c \in Call |-> 0] /\ subscribed = FALSE
  /\ collected = {}
  /\ epoch = [c \in Call |-> 0] /\ ended = [c \in Call |-> 0]
  /\ notified = [c \in Call |-> 0] /\ inbox = [c \in Call |-> {}]
  /\ stepping = FALSE /\ claimed = [c \in Call |-> {}]
  /\ told = [c \in Call |-> {}] /\ dropped = [c \in Call |-> {}]
  /\ crossed = [c \in Call |-> FALSE]

-----------------------------------------------------------------------------
(* The collecting call *)

\* Mutant: the suppression mark is left to the end of the epoch.
ReserveUnmarked(c) ==
  /\ pc[c] = "idle" /\ ~stepping /\ Goto(c, "starting")
  /\ signal' \in {signal, [signal EXCEPT ![c] = TRUE]}
  /\ watches' = watches \cup {c} /\ subscribed' = TRUE
  /\ UNCHANGED <<promoted, interrupted, resolved, runId, collected, child, notices>>

\* Up to the await of start(): mark, watch and register.
Reserve(c) ==
  /\ pc[c] = "idle" /\ ~stepping /\ Goto(c, "starting")
  /\ signal' \in {signal, [signal EXCEPT ![c] = TRUE]}
  /\ collected' = collected \cup {c}
  /\ watches' = watches \cup {c} /\ subscribed' = TRUE
  /\ UNCHANGED <<promoted, interrupted, resolved, runId, child, notices>>

\* Mutant: a promotion keeps the suppression mark.
PromoteMarked(c) ==
  /\ pc[c] \in Open /\ ~promoted[c]
  /\ promoted' = [promoted EXCEPT ![c] = TRUE]
  /\ Unwatch(c)
  /\ IF pc[c] = "collecting" THEN Goto(c, "promoted") ELSE UNCHANGED pc
  /\ UNCHANGED <<interrupted, signal, resolved, collected, child, notices>>

\* promote() of a registered call; past start() it also ends the wait.
Promote(c) ==
  /\ pc[c] \in Open /\ ~promoted[c]
  /\ promoted' = [promoted EXCEPT ![c] = TRUE]
  /\ Unwatch(c) /\ collected' = collected \ {c}
  /\ IF pc[c] = "collecting" THEN Goto(c, "promoted") ELSE UNCHANGED pc
  /\ UNCHANGED <<interrupted, signal, resolved, child, notices>>

\* The signal aborts: interrupt once, and past start() end the wait.
Abort(c) ==
  /\ pc[c] \in Open /\ ~interrupted[c] /\ ~signal[c]
  /\ interrupted' = [interrupted EXCEPT ![c] = TRUE]
  /\ IF pc[c] = "collecting" THEN Goto(c, "aborted") ELSE UNCHANGED pc
  /\ UNCHANGED <<promoted, signal, resolved, watch, collected, child, notices>>

\* Mutant: a call that was promoted during start() still waits for the epoch.
StartedPromoted(c) ==
  /\ pc[c] = "starting"
  /\ interrupted' = [interrupted EXCEPT ![c] = @ \/ signal[c]]
  /\ Goto(c, IF interrupted'[c] THEN "aborted"
             ELSE IF resolved[c] THEN "inline" ELSE "collecting")
  /\ UNCHANGED <<promoted, signal, resolved, watch, collected, child, notices>>

\* start() is through: a promotion comes first, then an abort, then the end.
Started(c) ==
  /\ pc[c] = "starting"
  /\ interrupted' = [interrupted EXCEPT ![c] = @ \/ signal[c]]
  /\ Goto(c, CASE promoted[c] -> "promoted"
               [] ~promoted[c] /\ interrupted'[c] -> "aborted"
               [] ~promoted[c] /\ ~interrupted'[c] /\ resolved[c] -> "inline"
               [] OTHER -> "collecting")
  /\ UNCHANGED <<promoted, signal, resolved, watch, collected, child, notices>>

\* Mutant: the watch of a start that failed stays.
StartThrowsWatched(c) ==
  /\ pc[c] = "starting" /\ epoch[c] = 0 /\ Goto(c, "failed")
  /\ collected' = collected \ {c}
  /\ UNCHANGED <<promoted, interrupted, signal, resolved, watch, child, notices>>

\* start() throws; the creation of the child was rolled back.
StartThrows(c) ==
  /\ pc[c] = "starting" /\ epoch[c] = 0 /\ Goto(c, "failed")
  /\ Unwatch(c) /\ collected' = collected \ {c}
  /\ UNCHANGED <<promoted, interrupted, signal, resolved, child, notices>>

-----------------------------------------------------------------------------
(* The child, on the bus *)

\* An epoch starts: the first when the call has asked for the child, a later
\* one when a message of the parent resumes it.
EpochStarts(c) ==
  /\ epoch[c] = ended[c] /\ epoch[c] < MaxEpoch
  /\ \/ epoch[c] = 0 /\ pc[c] \notin {"idle", "failed"}
     \/ epoch[c] > 0 /\ pc[c] \notin Open /\ ~stepping
  /\ epoch' = [epoch EXCEPT ![c] = @ + 1]
  /\ runId' = IF subscribed /\ c \in watches /\ runId[c] = 0
                THEN [runId EXCEPT ![c] = epoch'[c]] ELSE runId
  /\ UNCHANGED <<call, watches, subscribed, collected, ended, notices>>

Heard(c) == subscribed /\ c \in watches /\ runId[c] = epoch[c]

\* An epoch ends: the watch that captured its run is resolved and released,
\* and a call that is waiting returns the terminal.
EpochEnds(c) ==
  /\ epoch[c] > ended[c] /\ ended' = [ended EXCEPT ![c] = @ + 1]
  /\ \/ /\ Heard(c) /\ Unwatch(c)
        /\ resolved' = [resolved EXCEPT ![c] = TRUE]
        /\ IF pc[c] = "collecting" THEN Goto(c, "inline") ELSE UNCHANGED pc
     \/ ~Heard(c) /\ UNCHANGED <<pc, resolved, watch>>
  /\ UNCHANGED <<promoted, interrupted, signal, collected, epoch, notices>>

\* The notice of an epoch that ended, in the order of the ends.
Notify(c) ==
  /\ notified[c] < ended[c] /\ notified' = [notified EXCEPT ![c] = @ + 1]
  /\ inbox' = [inbox EXCEPT ![c] = @ \cup {notified'[c]}]
  /\ crossed' = [crossed EXCEPT ![c] = @ \/ claimed[c] # {}]
  /\ UNCHANGED <<call, watch, collected, child, stepping, claimed, told, dropped>>

-----------------------------------------------------------------------------
(* The pre-step of the parent *)

\* next(): a step that is entered claims what is pending.  The parent takes no
\* step while one of its tool calls is open.
PreStep ==
  /\ ~stepping /\ stepping' = TRUE /\ \A c \in Call : pc[c] \notin Open
  /\ \/ claimed' = inbox /\ inbox' = [c \in Call |-> {}]
     \/ UNCHANGED <<inbox, claimed>>
  /\ UNCHANGED <<call, watch, collected, child, notified, told, dropped, crossed>>

First(S) == {e \in S : \A f \in S : e <= f}

\* The mark of a child is popped by its first pending notice or else by its
\* first claimed one, and that notice is dropped.
Drained(c) == IF c \in collected THEN First(inbox[c]) ELSE {}
Filtered(c) == IF c \in collected /\ inbox[c] = {} THEN First(claimed[c]) ELSE {}

Suppress ==
  /\ stepping /\ stepping' = FALSE
  /\ collected' = {c \in collected : inbox[c] = {} /\ claimed[c] = {}}
  /\ inbox' = [c \in Call |-> inbox[c] \ Drained(c)]
  /\ claimed' = [c \in Call |-> {}]
  /\ told' = [c \in Call |-> told[c] \cup (claimed[c] \ Filtered(c))]
  /\ dropped' = [c \in Call |-> dropped[c] \cup Drained(c) \cup Filtered(c)]
  /\ UNCHANGED <<call, watch, child, notified, crossed>>

-----------------------------------------------------------------------------
CallStep(c) ==
  \/ Reserve(c) \/ Promote(c) \/ Abort(c) \/ Started(c) \/ StartThrows(c)
  \/ EpochStarts(c) \/ EpochEnds(c) \/ Notify(c)

Next == (\E c \in Call : CallStep(c)) \/ PreStep \/ Suppress

Spec == Init /\ [][Next]_vars

\* A start settles, a child that was accepted runs and ends its first epoch
\* and its notice arrives; the parent takes a step when something is pending
\* (the notice wakes it), and enters it.
Enters == PreStep /\ (\E c \in Call : inbox[c] # {}) /\ claimed' = inbox
FairSpec ==
  /\ Spec
  /\ \A c \in Call : /\ WF_vars(Started(c) \/ StartThrows(c))
                     /\ WF_vars(epoch[c] = 0 /\ EpochStarts(c))
                     /\ WF_vars(EpochEnds(c)) /\ WF_vars(Notify(c))
  /\ SF_vars(Enters) /\ WF_vars(Suppress)

-----------------------------------------------------------------------------
(* Properties *)

Outcome == {"inline", "promoted", "aborted", "failed"}
Label == {"idle"} \cup Open \cup Outcome
Epoch == 0..MaxEpoch
Epochs == SUBSET (1..MaxEpoch)

\* Every variable keeps its type; notices follow ends, ends follow starts, and
\* a notice that was given or dropped is out of the inbox.
TypeOK ==
  /\ pc \in [Call -> Label]
  /\ promoted \in [Call -> BOOLEAN] /\ interrupted \in [Call -> BOOLEAN]
  /\ signal \in [Call -> BOOLEAN] /\ resolved \in [Call -> BOOLEAN]
  /\ watches \subseteq Call /\ runId \in [Call -> Epoch] /\ subscribed \in BOOLEAN
  /\ collected \subseteq Call
  /\ epoch \in [Call -> Epoch] /\ ended \in [Call -> Epoch] /\ notified \in [Call -> Epoch]
  /\ \A c \in Call : notified[c] <= ended[c] /\ ended[c] <= epoch[c]
  /\ inbox \in [Call -> Epochs] /\ claimed \in [Call -> Epochs]
  /\ stepping \in BOOLEAN /\ crossed \in [Call -> BOOLEAN]
  /\ told \in [Call -> Epochs] /\ dropped \in [Call -> Epochs]
  /\ \A c \in Call : inbox[c] \cap (claimed[c] \cup told[c] \cup dropped[c]) = {}

\* A call that waits is never deaf: until the end of its first epoch it is in
\* the watch map with the listeners on the bus, and a call that has its end
\* already does not wait (subscribe-before-start, one pair of listeners).
NeverDeaf ==
  \A c \in Call :
    /\ pc[c] = "collecting" => c \in watches /\ ended[c] = 0
    /\ c \in watches => subscribed

\* A watch outlives its call only if the call was aborted and the epoch has
\* not ended; the listeners go with the last watch.
NoLeakedWatch ==
  /\ \A c \in watches : pc[c] \in Open \cup {"aborted"} /\ ended[c] = 0
  /\ subscribed => watches # {}

\* The watches on the bus are those of the calls that need them: nobody who
\* waits is without one, and nobody leaves one behind but by an abort.
WatchesMatch == NeverDeaf /\ NoLeakedWatch

\* A call takes the terminal of the first epoch of its child, in the step that
\* ends this epoch, and returns no other inline: a later epoch resolves nobody,
\* not a call either that was promoted or aborted before the first one ended.
TerminalOfFirst ==
  [][\A c \in Call :
       /\ ~resolved[c] /\ resolved'[c] => ended[c] = 0 /\ ended'[c] = 1
       /\ pc'[c] = "inline" => resolved'[c]]_vars

\* The account of a first epoch reaches the parent at most once: a terminal
\* that was returned inline is not notified as well, unless a later notice
\* came in between claim and filter.
AccountedOnce ==
  \A c \in Call : pc[c] = "inline" /\ 1 \in told[c] => crossed[c]

\* No notice is dropped but that of a first epoch that was collected or
\* aborted: a promoted child and the later epochs of any child are heard,
\* unless a later notice came in between claim and filter.
OnlyCollectedDropped ==
  \A c \in Call :
    dropped[c] # {} =>
      /\ pc[c] \in {"inline", "aborted"}
      /\ dropped[c] = {1} \/ crossed[c]

\* A mark is there as long as a notice is due to pop it, and no longer.
MarkIsDue ==
  \A c \in Call :
    c \in collected => pc[c] \in Open \cup {"inline", "aborted"} /\ dropped[c] = {} /\ 1 \notin told[c]

\* The tool call of a child that was accepted ends, and what a promoted child
\* did is told by a notice.
CallEnds ==
  \A c \in Call :
    /\ pc[c] = "starting" ~> pc[c] \in Outcome
    /\ pc[c] = "promoted" ~> 1 \in told[c]

=============================================================================
