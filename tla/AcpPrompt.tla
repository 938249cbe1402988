----------------------------- MODULE AcpPrompt -----------------------------
(***************************************************************************)
(* One session of the Agent Client Protocol server (packages/acp/cc-acp):  *)
(* the client sends prompts and cancellations and closes the session; the  *)
(* session hands each prompt to its Agent, forwards the updates the Agent  *)
(* produces, in order, and answers the prompt once the Agent, its children *)
(* and the updates have come to rest.  A step is what runs between two     *)
(* awaits; the Agent (external) is modelled from how the session uses it.  *)
(***************************************************************************)
EXTENDS Integers, Sequences

CONSTANTS
  Prompts,   \* how many prompts the client sends, numbered as they come
  Wake,      \* a message the Agent gets from elsewhere: a child, a job, a retry
  Nobody,    \* no prompt, no message
  Pending,   \* a cancellation that has not completed
  MaxArrivals,  \* bound on the prompts and the messages from elsewhere
  MaxOut     \* bound on the updates waiting for delivery

Prompt == 1 .. Prompts

ASSUME AcpAssumption ==
  /\ Prompts \in Nat /\ MaxArrivals \in Nat /\ MaxOut \in Nat
  /\ Nobody \notin Nat /\ Wake \notin Nat /\ Wake # Nobody /\ Pending \notin Nat

VARIABLES
  pc,        \* where each prompt() call is, or its answer
  slot,      \* the prompt in flight
  inflight,  \* its record: see Record
  agent,     \* the Agent: see Driver
  out,       \* the updates waiting for delivery: by which message, for which prompt
  closing,   \* where the teardown is
  calm,      \* its call of whenIdle: none, pending, met
  tail,      \* the updates it still waits for
  arrivals,  \* prompts and messages from elsewhere so far
  missed     \* history: prompts cancelled while their message was being routed

vars == <<pc, slot, inflight, agent, out, closing, calm, tail, arrivals, missed>>
teardown == <<closing, calm, tail>>

Message == Prompt \cup {Wake}
Answer == {"end_turn", "cancelled", "failed", "refused"}
Live == {"admitting", "routing", "awaiting"}
Awaited == {"none", "pending", "met"}

Driver ==
  [status : {"idle", "running"}, stopping : BOOLEAN, turn : Message \cup {Nobody},
   inbox : Seq(Message), maintenance : BOOLEAN, children : BOOLEAN, gone : BOOLEAN]

Record ==
  [settle : {"none", "admission", "idle", "children", "alone", "output", "cancelled"},
   aborted : BOOLEAN,      \* the admission controller
   queued : BOOLEAN,       \* messageQueued
   admitted : BOOLEAN,     \* admissionDone
   claimed : BOOLEAN,      \* turn: the last one the Agent started
   ended : {"none", "completed", "error", "aborted"},  \* endReason
   outputError : BOOLEAN, agentError : BOOLEAN,
   done : Nat \cup {Pending},  \* cancellationDone: the updates it still waits for
   startedIdle : BOOLEAN,
   moved : BOOLEAN,        \* the log grew since the settlement read its length
   want : Nat,             \* the updates the settlement still waits for
   idle : Awaited, cancel : Awaited]  \* whenIdle of the settlement, of the cancellation

Fresh ==
  [settle |-> "none", aborted |-> FALSE, queued |-> FALSE, admitted |-> FALSE,
   claimed |-> FALSE, ended |-> "none", outputError |-> FALSE, agentError |-> FALSE,
   done |-> Pending, startedIdle |-> FALSE, moved |-> FALSE, want |-> 0,
   idle |-> "none", cancel |-> "none"]

Answered(p) == pc[p] \in Answer
Quiet == agent.status = "idle" /\ ~agent.maintenance
IdleNow == agent.status = "idle" /\ ~inflight.moved
Cancelled == inflight.done = 0   \* cancellationDone is fulfilled

Init ==
  /\ pc = [p \in Prompt |-> "idle"] /\ slot = Nobody /\ inflight = Fresh
  /\ agent = [status |-> "idle", stopping |-> FALSE, turn |-> Nobody, inbox |-> <<>>,
              maintenance |-> FALSE, children |-> FALSE, gone |-> FALSE]
  /\ out = <<>> /\ closing = "open" /\ calm = "none" /\ tail = 0
  /\ arrivals = 0 /\ missed = {}

Goto(p, label) == pc' = [pc EXCEPT ![p] = label]

\* whenIdle(), and what it does when the Agent comes to rest.
WhenIdle == IF Quiet THEN "met" ELSE "pending"
Met(x) == IF x = "pending" THEN "met" ELSE x
AtRest(r) == [r EXCEPT !.idle = Met(r.idle), !.cancel = Met(r.cancel)]

\* cancellationDone is resolved once, with the n updates queued so far.
Resolved(r, n) == [r EXCEPT !.done = IF r.done = Pending THEN n ELSE r.done]

\* onAgentStatus of a transition to s.
Heard(r, s) ==
  IF r.queued /\ r.aborted /\ (s = "idle" \/ r.startedIdle) THEN Resolved(r, Len(out)) ELSE r

\* The log grows: the length a settlement has read is no longer current.
Logged(r) == [r EXCEPT !.moved = r.settle \in {"children", "alone", "output"}]

\* settleAfterQuiescence
Settling(r) == [r EXCEPT !.settle = IF r.settle = "none" THEN "admission" ELSE r.settle]

(*****************************  The Agent  ********************************)

\* agent.cancel drops what waits and stops what runs.
Stopped(a) == [a EXCEPT !.inbox = <<>>, !.stopping = a.stopping \/ a.status = "running"]

\* agent.followup: an Agent at rest starts to run.
Followup(m) ==
  agent' = [agent EXCEPT !.inbox = Append(agent.inbox, m),
                         !.status = IF Quiet THEN "running" ELSE agent.status]
Started(r) == IF Quiet THEN Heard(r, "running") ELSE r

WakeUp ==
  /\ arrivals < MaxArrivals /\ ~agent.gone /\ arrivals' = arrivals + 1
  /\ Followup(Wake) /\ inflight' = Started(inflight)
  /\ UNCHANGED <<pc, slot, out, teardown, missed>>

\* A new turn claims the next message; a prompt that has its turn follows.
StartTurn ==
  /\ agent.status = "running" /\ agent.turn = Nobody /\ agent.inbox # <<>> /\ ~agent.stopping
  /\ agent' = [agent EXCEPT !.turn = Head(agent.inbox), !.inbox = Tail(agent.inbox)]
  /\ inflight' = [Logged(inflight) EXCEPT
                    !.claimed = inflight.claimed \/ (slot # Nobody /\ slot = Head(agent.inbox)),
                    !.ended = IF inflight.claimed THEN "none" ELSE inflight.ended]
  /\ UNCHANGED <<pc, slot, out, teardown, arrivals, missed>>

\* assistant/message, whose delivery may fail for the prompt, or a tool's event, whose
\* delivery does not.
Update ==
  /\ agent.turn # Nobody /\ Len(out) < MaxOut
  /\ out' = Append(out, [by |-> agent.turn, for |-> IF inflight.claimed THEN slot ELSE Nobody])
  /\ inflight' = Logged(inflight)
  /\ UNCHANGED <<pc, slot, agent, teardown, arrivals, missed>>

\* The turn's last event.
EndTurn ==
  /\ agent.turn # Nobody
  /\ agent' = [agent EXCEPT !.turn = Nobody]
  /\ \E reason \in {"completed", "error", "aborted"} :
       /\ agent.stopping => reason = "aborted"
       /\ inflight' = IF inflight.claimed
                      THEN [Logged(inflight) EXCEPT !.ended = reason, !.agentError = FALSE]
                      ELSE Logged(inflight)
  /\ UNCHANGED <<pc, slot, out, teardown, arrivals, missed>>

\* A turn that cannot be written to the log has no end there: agent/error.
FailTurn ==
  /\ agent.status = "running"
  /\ \/ agent.turn # Nobody /\ agent' = [agent EXCEPT !.turn = Nobody]
     \/ /\ agent.turn = Nobody /\ agent.inbox # <<>> /\ ~agent.stopping
        /\ agent' = [agent EXCEPT !.inbox = Tail(agent.inbox)]
  /\ inflight' = IF inflight.queued THEN [Settling(inflight) EXCEPT !.agentError = TRUE]
                 ELSE inflight
  /\ UNCHANGED <<pc, slot, out, teardown, arrivals, missed>>

\* A message is removed before a turn claims it.
Remove ==
  /\ agent.inbox # <<>> /\ agent' = [agent EXCEPT !.inbox = Tail(agent.inbox)]
  /\ UNCHANGED <<pc, slot, inflight, out, teardown, arrivals, missed>>

\* The driver comes to rest, and starts again at once for what came after a cancel.
Rest ==
  /\ agent.status = "running" /\ agent.turn = Nobody
  /\ agent.inbox = <<>> \/ agent.stopping
  /\ agent' = [agent EXCEPT !.stopping = FALSE,
                            !.status = IF agent.inbox = <<>> THEN "idle" ELSE "running"]
  /\ IF agent.inbox = <<>>
     THEN inflight' = AtRest(Heard(inflight, "idle")) /\ calm' = Met(calm)
     ELSE inflight' = Heard(inflight, "idle") /\ UNCHANGED calm
  /\ UNCHANGED <<pc, slot, out, closing, tail, arrivals, missed>>

\* A maintenance task runs between the turns of an Agent that is publicly idle.
Maintain ==
  /\ Quiet /\ ~agent.gone /\ agent' = [agent EXCEPT !.maintenance = TRUE]
  /\ UNCHANGED <<pc, slot, inflight, out, teardown, arrivals, missed>>

Maintained ==
  /\ agent.maintenance
  /\ agent' = [agent EXCEPT !.maintenance = FALSE,
                            !.status = IF agent.inbox = <<>> THEN "idle" ELSE "running"]
  /\ IF agent.inbox = <<>> THEN inflight' = AtRest(inflight) /\ calm' = Met(calm)
                           ELSE inflight' = Heard(inflight, "running") /\ UNCHANGED calm
  /\ UNCHANGED <<pc, slot, out, closing, tail, arrivals, missed>>

\* A turn delegates to a child, which may end with a message to its parent (WakeUp).
Delegate ==
  /\ agent.turn # Nobody /\ ~agent.children
  /\ agent' = [agent EXCEPT !.children = TRUE] /\ inflight' = Logged(inflight)
  /\ UNCHANGED <<pc, slot, out, teardown, arrivals, missed>>

ChildEnds ==
  /\ agent.children /\ agent' = [agent EXCEPT !.children = FALSE]
  /\ UNCHANGED <<pc, slot, inflight, out, teardown, arrivals, missed>>

\* The Agent is disposed of outside the session.
Vanish ==
  /\ ~agent.gone /\ agent' = [Stopped(agent) EXCEPT !.gone = TRUE]
  /\ UNCHANGED <<pc, slot, inflight, out, teardown, arrivals, missed>>

(***************************  The session  ********************************)

\* The head of the output tail is sent, or its delivery fails.
Sent(n) == IF n = 0 THEN 0 ELSE n - 1
Deliver ==
  /\ out # <<>> /\ out' = Tail(out) /\ tail' = Sent(tail)
  /\ \E fails \in BOOLEAN :
       /\ fails => Head(out).for # Nobody
       /\ inflight' = [inflight EXCEPT
            !.outputError = inflight.outputError \/ (fails /\ Head(out).for = slot),
            !.done = IF inflight.done = Pending THEN Pending ELSE Sent(inflight.done),
            !.want = Sent(inflight.want)]
  /\ UNCHANGED <<pc, slot, agent, closing, calm, arrivals, missed>>

\* prompt: the slot is taken, and the content is checked and stored.
Call(p) ==
  /\ closing = "open" /\ pc[p] = "idle" /\ \A q \in 1 .. p - 1 : pc[q] # "idle"
  /\ arrivals < MaxArrivals /\ arrivals' = arrivals + 1
  /\ IF slot = Nobody /\ ~agent.gone THEN slot' = p /\ Goto(p, "admitting")
                                     ELSE UNCHANGED slot /\ Goto(p, "refused")
  /\ UNCHANGED <<inflight, agent, out, teardown, missed>>

\* The prompt was not queued: its cancellation answers it, or the call does.
NotQueued(p) ==
  IF inflight.aborted
  THEN /\ inflight' = [Settling(inflight) EXCEPT !.admitted = TRUE, !.queued = FALSE]
       /\ Goto(p, "awaiting") /\ UNCHANGED slot
  ELSE inflight' = Fresh /\ slot' = Nobody /\ Goto(p, "refused")

\* Mutant: the content is queued although its prompt was cancelled.
AdmitAborted(p) ==
  /\ pc[p] = "admitting"
  /\ IF agent.gone THEN NotQueued(p)
     ELSE /\ inflight' = [inflight EXCEPT !.queued = TRUE]
          /\ Goto(p, "routing") /\ UNCHANGED slot
  /\ UNCHANGED <<agent, out, teardown, arrivals, missed>>

\* Mutant: an admission that fails is not reported to whoever waits for it.
AdmitSilently(p) ==
  /\ pc[p] = "admitting"
  /\ \/ /\ ~inflight.aborted /\ ~agent.gone
        /\ inflight' = [inflight EXCEPT !.queued = TRUE]
        /\ Goto(p, "routing") /\ UNCHANGED slot
     \/ Goto(p, "awaiting") /\ UNCHANGED <<slot, inflight>>
  /\ UNCHANGED <<agent, out, teardown, arrivals, missed>>

\* admitAcpPrompt returns, or throws; then the message is routed.
Admit(p) ==
  /\ pc[p] = "admitting"
  /\ \/ /\ ~inflight.aborted /\ ~agent.gone
        /\ inflight' = [inflight EXCEPT !.queued = TRUE]
        /\ Goto(p, "routing") /\ UNCHANGED slot
     \/ NotQueued(p)
  /\ UNCHANGED <<agent, out, teardown, arrivals, missed>>

\* routeBeforeAdmission returns: the message goes to the Agent, if it is there.
Queue(p) ==
  /\ pc[p] = "routing"
  /\ IF agent.gone THEN NotQueued(p) /\ UNCHANGED agent
     ELSE /\ Followup(p) /\ Goto(p, "awaiting") /\ UNCHANGED slot
          /\ inflight' = [Settling(Started(inflight)) EXCEPT !.admitted = TRUE]
  /\ UNCHANGED <<out, teardown, arrivals, missed>>

\* Mutant: a cancellation completes at once.
RequestedAtOnce(r) == [Settling(Resolved(r, 0)) EXCEPT !.aborted = TRUE]

\* Mutant: a cancellation waits for the Agent only while it runs.
RequestedRunning(r) ==
  [Settling(IF r.queued THEN r ELSE Resolved(r, 0)) EXCEPT
     !.aborted = TRUE,
     !.startedIdle = IF r.aborted THEN r.startedIdle ELSE agent.status = "idle",
     !.cancel = IF r.queued /\ ~r.aborted /\ agent.status = "running" THEN WhenIdle ELSE r.cancel]

\* requestPromptCancellation; the Agent is asked to stop before it is waited for.
Requested(r) ==
  [Settling(IF r.queued THEN r ELSE Resolved(r, 0)) EXCEPT
     !.aborted = TRUE,
     !.startedIdle = IF r.aborted THEN r.startedIdle ELSE agent.status = "idle",
     !.cancel = IF r.queued /\ ~r.aborted THEN WhenIdle ELSE r.cancel]

Request ==
  IF slot = Nobody THEN UNCHANGED <<inflight, missed>>
  ELSE /\ inflight' = Requested(inflight)
       /\ missed' = IF pc[slot] = "routing" THEN missed \cup {slot} ELSE missed

\* session/cancel, or the cancellation of the request of a prompt.
Cancel ==
  /\ closing # "closed" /\ Request
  /\ agent' = IF slot = Nobody \/ inflight.queued THEN Stopped(agent) ELSE agent
  /\ UNCHANGED <<pc, slot, out, teardown, arrivals>>

\* The Agent has come to rest under a cancellation.
CancelDone ==
  /\ inflight.cancel = "met"
  /\ inflight' = [Resolved(inflight, Len(out)) EXCEPT !.cancel = "none"]
  /\ UNCHANGED <<pc, slot, agent, out, teardown, arrivals, missed>>

\* What the prompt is answered.
Outcome ==
  IF inflight.aborted THEN "cancelled"
  ELSE IF inflight.outputError \/ inflight.agentError \/ inflight.ended = "error" THEN "failed"
  ELSE IF inflight.ended = "none" THEN "cancelled" ELSE "end_turn"

\* The end of a settlement: the slot is freed and the prompt answered.
Finish == Goto(slot, Outcome) /\ slot' = Nobody /\ inflight' = Fresh

\* awaitQuiescence: a round starts with the Agent at rest; a cancelled one leaves.
Round == inflight' = [inflight EXCEPT !.settle = "idle", !.idle = WhenIdle, !.want = 0]
LeaveRounds == inflight' = [inflight EXCEPT !.settle = "cancelled", !.idle = "none", !.want = 0]
Stay == UNCHANGED <<pc, slot>>

SettleAdmitted ==
  /\ inflight.settle = "admission" /\ inflight.admitted
  /\ IF inflight.queued THEN Round /\ Stay ELSE Finish
  /\ UNCHANGED <<agent, out, teardown, arrivals, missed>>

\* The Agent came to rest: read the length of its log, and look for children.
SettleIdle ==
  /\ inflight.settle = "idle" /\ (inflight.idle = "met" \/ Cancelled) /\ Stay
  /\ IF inflight.aborted THEN LeaveRounds
     ELSE inflight' = [inflight EXCEPT !.settle = IF agent.children THEN "children" ELSE "alone",
                                       !.idle = "none", !.moved = FALSE]
  /\ UNCHANGED <<agent, out, teardown, arrivals, missed>>

\* waitForChildren answers: where there were some, there is another round.
SettleChildren ==
  /\ \/ inflight.settle = "children" /\ (~agent.children \/ Cancelled)
     \/ inflight.settle = "alone"
  /\ Stay
  /\ IF inflight.aborted THEN LeaveRounds
     ELSE IF inflight.settle = "alone" /\ IdleNow
     THEN inflight' = [inflight EXCEPT !.settle = "output", !.want = Len(out)]
     ELSE Round
  /\ UNCHANGED <<agent, out, teardown, arrivals, missed>>

\* Mutant: work that started while the updates drained is not looked for.
SettleDrained ==
  /\ inflight.settle = "output" /\ inflight.want = 0
  /\ IF inflight.aborted THEN LeaveRounds /\ Stay ELSE Finish
  /\ UNCHANGED <<agent, out, teardown, arrivals, missed>>

\* The updates are out: the Agent must not have moved meanwhile.
SettleOutput ==
  /\ inflight.settle = "output" /\ inflight.want = 0
  /\ IF inflight.aborted THEN LeaveRounds /\ Stay
     ELSE IF IdleNow THEN Finish ELSE Round /\ Stay
  /\ UNCHANGED <<agent, out, teardown, arrivals, missed>>

SettleCancelled ==
  /\ inflight.settle = "cancelled" /\ Cancelled /\ Finish
  /\ UNCHANGED <<agent, out, teardown, arrivals, missed>>

\* close: one teardown, whoever asks for it.
Close ==
  /\ closing = "open" /\ closing' = "admission" /\ Request
  /\ agent' = Stopped(agent)
  /\ UNCHANGED <<pc, slot, out, calm, tail, arrivals>>

CloseAdmitted ==
  /\ closing = "admission" /\ (slot = Nobody \/ inflight.admitted)
  /\ closing' = "idle" /\ calm' = WhenIdle
  /\ UNCHANGED <<pc, slot, inflight, agent, out, tail, arrivals, missed>>

CloseIdle ==
  /\ closing = "idle" /\ calm = "met"
  /\ closing' = "output" /\ calm' = "none" /\ tail' = Len(out)
  /\ UNCHANGED <<pc, slot, inflight, agent, out, arrivals, missed>>

\* The updates are out: the descendants are drained and the log is flushed.
CloseDrain ==
  /\ closing = "output" /\ tail = 0
  /\ closing' = "dispose" /\ agent' = [agent EXCEPT !.children = FALSE]
  /\ UNCHANGED <<pc, slot, inflight, out, calm, tail, arrivals, missed>>

CloseDispose ==
  /\ closing = "dispose" /\ closing' = "closed"
  /\ agent' = [Stopped(agent) EXCEPT !.gone = TRUE]
  /\ UNCHANGED <<pc, slot, inflight, out, calm, tail, arrivals, missed>>

AgentMust == StartTurn \/ EndTurn \/ Rest
AgentMay == WakeUp \/ Update \/ FailTurn \/ Remove \/ Maintain \/ Delegate \/ Vanish
SettleStep ==
  SettleAdmitted \/ SettleIdle \/ SettleChildren \/ SettleOutput \/ SettleCancelled
CloseStep == CloseAdmitted \/ CloseIdle \/ CloseDrain \/ CloseDispose

Next ==
  \/ AgentMust \/ AgentMay \/ Maintained \/ ChildEnds
  \/ Deliver \/ Cancel \/ CancelDone \/ SettleStep \/ Close \/ CloseStep
  \/ \E p \in Prompt : Call(p) \/ Admit(p) \/ Queue(p)

Spec == Init /\ [][Next]_vars

\* Every await of the session is resolved; turns, children, maintenance tasks and
\* deliveries come to an end; one prompt at a time is on its way to the Agent.
Fairness ==
  /\ WF_vars(AgentMust) /\ WF_vars(Maintained) /\ WF_vars(ChildEnds) /\ WF_vars(Deliver)
  /\ WF_vars(CancelDone) /\ WF_vars(SettleStep) /\ WF_vars(CloseStep)
  /\ WF_vars(\E p \in Prompt : Admit(p) \/ Queue(p))

FairSpec == Spec /\ Fairness

(****************************  Properties  ********************************)

\* Types and counters.
TypeOK ==
  /\ pc \in [Prompt -> {"idle"} \cup Live \cup Answer]
  /\ slot \in Prompt \cup {Nobody} /\ inflight \in Record /\ agent \in Driver
  /\ out \in Seq([by : Message, for : Prompt \cup {Nobody}])
  /\ closing \in {"open", "admission", "idle", "output", "dispose", "closed"}
  /\ calm \in Awaited /\ tail \in Nat /\ arrivals \in 0 .. MaxArrivals /\ missed \in SUBSET Prompt

\* The slot of the session is held by the one prompt() call that is not answered
\* yet: a second prompt never takes over, and an answer always gives the slot back.
SlotOwned == \A p \in Prompt : pc[p] \in Live <=> p = slot

\* A prompt is answered with the outcome of its work only when the Agent is at
\* rest, no child of it works, and the client has been sent every update.
AnsweredAtRest ==
  [][\A p \in Prompt : pc'[p] \in {"end_turn", "failed"} /\ ~Answered(p)
       => agent.status = "idle" /\ ~agent.children /\ out = <<>>]_vars

\* Once a prompt is answered the Agent neither works on it nor has it waiting,
\* unless it was cancelled while its message was being routed.
AnsweredIsOver ==
  \A p \in Prompt : Answered(p) /\ p \notin missed
    => agent.turn # p /\ \A i \in DOMAIN agent.inbox : agent.inbox[i] # p

\* The answer to a cancelled prompt comes after the updates its own turn produced.
CancelHeard ==
  [][\A p \in Prompt : pc'[p] = "cancelled" /\ ~Answered(p) /\ p \notin missed
       => \A i \in DOMAIN out : out[i].by # p]_vars

\* Whoever waits, waits for something that is still to come: for an Agent that is not at
\* rest, for no more updates than are on their way, for a settlement that goes on; and a
\* cancellation that was asked for has completed or is waited for.
NoVainWait ==
  /\ "pending" \in {inflight.idle, inflight.cancel, calm} => ~Quiet
  /\ inflight.want <= Len(out) /\ tail <= Len(out)
  /\ inflight.done # Pending => inflight.done <= Len(out)
  /\ slot # Nobody /\ pc[slot] = "awaiting" => inflight.admitted /\ inflight.settle # "none"
  /\ inflight.settle = "idle" => inflight.idle # "none"
  /\ inflight.aborted => inflight.done # Pending \/ inflight.cancel # "none"
  /\ closing = "idle" => calm # "none"

\* Every prompt is answered, and a teardown comes to its end: nobody waits for ever for
\* an admission, a cancellation, the Agent or the updates.
Answers ==
  /\ \A p \in Prompt : pc[p] = "admitting" ~> Answered(p)
  /\ closing = "admission" ~> closing = "closed"

\* cancellation-status.ts and the test "cancels without a late followup": the Agent
\* does not start to work on a prompt after its cancellation.
CancelStops == [][slot # Nobody /\ inflight.aborted => ~(agent'.turn = slot /\ agent.turn # slot)]_vars
=============================================================================
