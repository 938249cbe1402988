-------------------------- MODULE AcpPromptProofs --------------------------
(***************************************************************************)
(* What TLAPS proves of AcpPrompt: its types, who holds the slot, when a   *)
(* prompt is answered, and that nobody waits in vain.                      *)
(***************************************************************************)
EXTENDS AcpPrompt, TLAPS

\* The fields of a record that a settlement reads, but for the length of the log.
Same(r, t) ==
  /\ t \in Record
  /\ t.settle = r.settle /\ t.aborted = r.aborted /\ t.queued = r.queued
  /\ t.admitted = r.admitted /\ t.moved = r.moved /\ t.want = r.want

LEMMA FreshType == Fresh \in Record
BY AcpAssumption DEF Fresh, Record, Awaited

LEMMA ResolvedSame ==
  ASSUME NEW r \in Record, NEW n \in Nat
  PROVE  Same(r, Resolved(r, n))
BY AcpAssumption DEF Same, Resolved, Record

LEMMA HeardSame ==
  ASSUME NEW r \in Record, TypeOK, NEW s
  PROVE  Same(r, Heard(r, s))
<1>1. Len(out) \in Nat
  BY DEF TypeOK
<1> QED  BY <1>1, ResolvedSame DEF Heard, Same

LEMMA AtRestSame ==
  ASSUME NEW r \in Record
  PROVE  Same(r, AtRest(r))
BY DEF Same, AtRest, Met, Record, Awaited

LEMMA StartedSame ==
  ASSUME NEW r \in Record, TypeOK
  PROVE  Same(r, Started(r))
BY HeardSame DEF Started, Same

LEMMA LoggedType ==
  ASSUME NEW r \in Record
  PROVE  /\ Logged(r) \in Record
         /\ Logged(r).settle = r.settle /\ Logged(r).aborted = r.aborted
         /\ Logged(r).queued = r.queued /\ Logged(r).admitted = r.admitted
         /\ Logged(r).want = r.want
         /\ Logged(r).moved <=> (r.settle \in {"children", "alone", "output"})
<1> DEFINE b == r.settle \in {"children", "alone", "output"}
<1>1. b \in BOOLEAN
  OBVIOUS
<1> HIDE DEF b
<1>2. LET t == [r EXCEPT !.moved = b] IN
      /\ t \in Record /\ t.moved = b
      /\ t.settle = r.settle /\ t.aborted = r.aborted /\ t.queued = r.queued
      /\ t.admitted = r.admitted /\ t.want = r.want
  BY <1>1 DEF Record
<1> QED  BY <1>2 DEF Logged, b

LEMMA SettlingType ==
  ASSUME NEW r \in Record
  PROVE  /\ Settling(r) \in Record
         /\ Settling(r).settle = IF r.settle = "none" THEN "admission" ELSE r.settle
         /\ Settling(r).aborted = r.aborted /\ Settling(r).queued = r.queued
         /\ Settling(r).admitted = r.admitted /\ Settling(r).moved = r.moved
         /\ Settling(r).want = r.want
BY DEF Settling, Record

-----------------------------------------------------------------------------
(* Types *)

LEMMA SeqFacts ==
  ASSUME NEW S, NEW q \in Seq(S)
  PROVE  /\ Len(q) \in Nat
         /\ \A e \in S : Append(q, e) \in Seq(S) /\ Len(Append(q, e)) = Len(q) + 1
         /\ q # <<>> => Head(q) \in S /\ Tail(q) \in Seq(S) /\ Len(Tail(q)) = Len(q) - 1
         /\ <<>> \in Seq(S) /\ (q = <<>> <=> Len(q) = 0)
OBVIOUS

LEMMA AgentTypes ==
  ASSUME NEW a \in Driver
  PROVE  /\ Stopped(a) \in Driver
         /\ Stopped(a).status = a.status /\ Stopped(a).turn = a.turn
         /\ Stopped(a).inbox = <<>> /\ Stopped(a).children = a.children
         /\ Stopped(a).maintenance = a.maintenance
<1> DEFINE b == a.stopping \/ a.status = "running"
<1>1. b \in BOOLEAN /\ <<>> \in Seq(Message)
  BY DEF Driver
<1> HIDE DEF b
<1>2. LET t == [a EXCEPT !.inbox = <<>>, !.stopping = b] IN
      /\ t \in Driver /\ t.status = a.status /\ t.turn = a.turn
      /\ t.inbox = <<>> /\ t.children = a.children /\ t.maintenance = a.maintenance
  BY <1>1 DEF Driver
<1> QED  BY <1>2 DEF Stopped, b

\* What a message does to the Agent, and to the record.
LEMMA FollowupType ==
  ASSUME TypeOK, NEW m \in Message, Followup(m)
  PROVE  /\ agent' \in Driver /\ agent'.inbox = Append(agent.inbox, m)
         /\ agent'.turn = agent.turn /\ agent'.children = agent.children
         /\ agent'.maintenance = agent.maintenance
         /\ agent'.status = IF Quiet THEN "running" ELSE agent.status
<1>1. Append(agent.inbox, m) \in Seq(Message)
  BY SeqFacts DEF TypeOK, Driver
<1> QED  BY <1>1 DEF TypeOK, Followup, Driver

\* The bookkeeping of a turn that starts, of one that ends, and of a delivery.
TurnStarted ==
  [Logged(inflight) EXCEPT
     !.claimed = inflight.claimed \/ (slot # Nobody /\ slot = Head(agent.inbox)),
     !.ended = IF inflight.claimed THEN "none" ELSE inflight.ended]
TurnEnded(reason) ==
  IF inflight.claimed THEN [Logged(inflight) EXCEPT !.ended = reason, !.agentError = FALSE]
  ELSE Logged(inflight)
Delivered(fails) ==
  [inflight EXCEPT
     !.outputError = inflight.outputError \/ (fails /\ Head(out).for = slot),
     !.done = IF inflight.done = Pending THEN Pending ELSE Sent(inflight.done),
     !.want = Sent(inflight.want)]

\* A record that differs from another in what a settlement does not read.
Beside(r, t) ==
  /\ t \in Record
  /\ t.settle = r.settle /\ t.aborted = r.aborted /\ t.queued = r.queued
  /\ t.admitted = r.admitted /\ (t.moved <=> r.moved)
  /\ t.done = r.done /\ t.startedIdle = r.startedIdle /\ t.idle = r.idle /\ t.cancel = r.cancel

LEMMA TurnStartedType ==
  ASSUME TypeOK
  PROVE  Beside(Logged(inflight), TurnStarted) /\ TurnStarted.want = inflight.want
<1> DEFINE b == inflight.claimed \/ (slot # Nobody /\ slot = Head(agent.inbox))
           e == IF inflight.claimed THEN "none" ELSE inflight.ended
           r == Logged(inflight)
<1>1. /\ b \in BOOLEAN /\ e \in {"none", "completed", "error", "aborted"} /\ r \in Record
      /\ r.want = inflight.want
  BY LoggedType DEF TypeOK, Record
<1> HIDE DEF b, e, r
<1>2. LET t == [r EXCEPT !.claimed = b, !.ended = e] IN Beside(r, t) /\ t.want = inflight.want
  BY <1>1 DEF Record, Beside
<1> QED  BY <1>2 DEF TurnStarted, b, e, r

LEMMA TurnEndedType ==
  ASSUME TypeOK, NEW reason \in {"completed", "error", "aborted"}
  PROVE  Beside(Logged(inflight), TurnEnded(reason)) /\ TurnEnded(reason).want = inflight.want
<1> DEFINE r == Logged(inflight)
<1>1. r \in Record /\ r.want = inflight.want
  BY LoggedType DEF TypeOK
<1> HIDE DEF r
<1>2. LET t == [r EXCEPT !.ended = reason, !.agentError = FALSE] IN
        Beside(r, t) /\ t.want = inflight.want
  BY <1>1 DEF Record, Beside
<1>3. Beside(r, r)
  BY <1>1 DEF Beside
<1> QED  BY <1>1, <1>2, <1>3 DEF TurnEnded, r

LEMMA DeliveredType ==
  ASSUME TypeOK, NEW fails \in BOOLEAN
  PROVE  LET t == Delivered(fails) IN
         /\ t \in Record
         /\ t.settle = inflight.settle /\ t.aborted = inflight.aborted
         /\ t.queued = inflight.queued /\ t.admitted = inflight.admitted
         /\ t.moved = inflight.moved /\ t.want = Sent(inflight.want)
         /\ (t.done = Pending <=> inflight.done = Pending)
         /\ t.startedIdle = inflight.startedIdle /\ t.idle = inflight.idle
         /\ t.cancel = inflight.cancel
<1> DEFINE b == inflight.outputError \/ (fails /\ Head(out).for = slot)
           d == IF inflight.done = Pending THEN Pending ELSE Sent(inflight.done)
           r == inflight
<1>1. /\ b \in BOOLEAN /\ d \in Nat \cup {Pending} /\ r \in Record /\ Sent(r.want) \in Nat
      /\ (d = Pending <=> r.done = Pending)
  BY AcpAssumption DEF TypeOK, Record, Sent
<1> HIDE DEF b, d, r
<1>2. LET t == [r EXCEPT !.outputError = b, !.done = d, !.want = Sent(r.want)] IN
         /\ t \in Record
         /\ t.settle = r.settle /\ t.aborted = r.aborted /\ t.queued = r.queued
         /\ t.admitted = r.admitted /\ t.moved = r.moved /\ t.want = Sent(r.want)
         /\ t.done = d /\ t.startedIdle = r.startedIdle /\ t.idle = r.idle
         /\ t.cancel = r.cancel
  BY <1>1 DEF Record
<1> QED  BY <1>1, <1>2 DEF Delivered, b, d, r

LEMMA RequestedType ==
  ASSUME TypeOK
  PROVE  LET t == Requested(inflight) IN
         /\ t \in Record /\ t.aborted
         /\ t.settle = IF inflight.settle = "none" THEN "admission" ELSE inflight.settle
         /\ t.queued = inflight.queued /\ t.admitted = inflight.admitted
         /\ t.moved = inflight.moved /\ t.want = inflight.want /\ t.idle = inflight.idle
         /\ t.done = IF inflight.queued \/ inflight.done # Pending THEN inflight.done ELSE 0
         /\ t.startedIdle <=> IF inflight.aborted THEN inflight.startedIdle
                              ELSE agent.status = "idle"
         /\ t.cancel = IF inflight.queued /\ ~inflight.aborted THEN WhenIdle
                       ELSE inflight.cancel
<1> DEFINE q == Settling(IF inflight.queued THEN inflight ELSE Resolved(inflight, 0))
           b == IF inflight.aborted THEN inflight.startedIdle ELSE agent.status = "idle"
           c == IF inflight.queued /\ ~inflight.aborted THEN WhenIdle ELSE inflight.cancel
<1>1. /\ b \in BOOLEAN /\ c \in Awaited /\ q \in Record
      /\ q.settle = IF inflight.settle = "none" THEN "admission" ELSE inflight.settle
      /\ q.queued = inflight.queued /\ q.admitted = inflight.admitted
      /\ q.moved = inflight.moved /\ q.want = inflight.want /\ q.idle = inflight.idle
      /\ q.done = IF inflight.queued \/ inflight.done # Pending THEN inflight.done ELSE 0
  <2>1. b \in BOOLEAN
    BY DEF TypeOK, Record
  <2>2. c \in Awaited
    BY DEF TypeOK, Record, Awaited, WhenIdle
  <2> QED
    BY <2>1, <2>2, AcpAssumption DEF TypeOK, Record, Settling, Resolved
<1> HIDE DEF q, b, c
<1>2. LET t == [q EXCEPT !.aborted = TRUE, !.startedIdle = b, !.cancel = c] IN
        /\ t \in Record /\ t.aborted /\ t.settle = q.settle
        /\ t.queued = q.queued /\ t.admitted = q.admitted /\ t.moved = q.moved
        /\ t.want = q.want /\ t.idle = q.idle /\ t.done = q.done
        /\ t.startedIdle = b /\ t.cancel = c
  BY <1>1 DEF Record
<1>3. b <=> IF inflight.aborted THEN inflight.startedIdle ELSE agent.status = "idle"
  BY DEF b
<1> QED  BY <1>1, <1>2, <1>3 DEF Requested, q, b, c

LEMMA InitTypeOK == Init => TypeOK
<1> SUFFICES ASSUME Init PROVE TypeOK
  OBVIOUS
<1>1. agent \in Driver
  BY DEF Init, Driver
<1>2. out \in Seq([by : Message, for : Prompt \cup {Nobody}])
  BY DEF Init
<1> QED  BY <1>1, <1>2, FreshType, AcpAssumption DEF Init, TypeOK, Awaited

LEMMA NextTypeOK ==
  ASSUME TypeOK, [Next]_vars
  PROVE  TypeOK'
<1> USE DEF teardown
<1>1. CASE WakeUp
  <2>1. agent' \in Driver
    BY <1>1, FollowupType DEF WakeUp, Message
  <2>2. inflight' \in Record
    BY <1>1, StartedSame DEF WakeUp, Same, TypeOK
  <2>3. arrivals' \in 0 .. MaxArrivals
    BY <1>1, AcpAssumption DEF WakeUp, TypeOK
  <2> QED  BY <1>1, <2>1, <2>2, <2>3 DEF WakeUp, TypeOK
<1>2. CASE StartTurn
  <2>1. inflight' \in Record
    BY <1>2, TurnStartedType DEF StartTurn, TurnStarted, Beside
  <2>2. agent' \in Driver
    BY <1>2, SeqFacts DEF StartTurn, TypeOK, Driver
  <2> QED  BY <1>2, <2>1, <2>2 DEF StartTurn, TypeOK
<1>3. CASE Update
  <2>1. out' \in Seq([by : Message, for : Prompt \cup {Nobody}])
    BY <1>3, SeqFacts DEF Update, TypeOK, Driver
  <2> QED  BY <1>3, <2>1, LoggedType DEF Update, TypeOK
<1>4. CASE EndTurn
  <2>1. inflight' \in Record
    BY <1>4, TurnEndedType DEF EndTurn, TurnEnded, Beside
  <2> QED  BY <1>4, <2>1 DEF EndTurn, TypeOK, Driver
<1>5. CASE FailTurn
  <2>0. agent.inbox \in Seq(Message) /\ (agent.inbox # <<>> => Tail(agent.inbox) \in Seq(Message))
    BY SeqFacts DEF TypeOK, Driver
  <2>1. agent' \in Driver
    BY <1>5, <2>0 DEF FailTurn, TypeOK, Driver
  <2>2. inflight' \in Record
    <3>1. Settling(inflight) \in Record
      BY SettlingType DEF TypeOK
    <3>2. [Settling(inflight) EXCEPT !.agentError = TRUE] \in Record
      BY <3>1 DEF Record
    <3> QED  BY <1>5, <3>2 DEF FailTurn, TypeOK
  <2> QED  BY <1>5, <2>1, <2>2 DEF FailTurn, TypeOK
<1>6. CASE Remove
  BY <1>6, SeqFacts DEF Remove, TypeOK, Driver
<1>7. CASE Rest
  <2>1. agent' \in Driver
    BY <1>7 DEF Rest, TypeOK, Driver
  <2>2. Heard(inflight, "idle") \in Record
    BY HeardSame DEF Same, TypeOK
  <2>3. inflight' \in Record /\ calm' \in Awaited
    BY <1>7, <2>2, AtRestSame DEF Rest, Same, Met, Awaited, TypeOK
  <2> QED  BY <1>7, <2>1, <2>3 DEF Rest, TypeOK
<1>8. CASE Maintain
  BY <1>8 DEF Maintain, TypeOK, Driver
<1>9. CASE Maintained
  <2>1. agent' \in Driver
    BY <1>9 DEF Maintained, TypeOK, Driver
  <2>2. inflight' \in Record /\ calm' \in Awaited
    BY <1>9, HeardSame, AtRestSame DEF Maintained, Same, Met, Awaited, TypeOK
  <2> QED  BY <1>9, <2>1, <2>2 DEF Maintained, TypeOK
<1>10. CASE Delegate
  BY <1>10, LoggedType DEF Delegate, TypeOK, Driver
<1>11. CASE ChildEnds
  BY <1>11 DEF ChildEnds, TypeOK, Driver
<1>12. CASE Vanish
  BY <1>12, AgentTypes DEF Vanish, TypeOK, Driver
<1>13. CASE Deliver
  <2>1. out' \in Seq([by : Message, for : Prompt \cup {Nobody}]) /\ tail' \in Nat
    BY <1>13, SeqFacts DEF Deliver, TypeOK, Sent
  <2>2. inflight' \in Record
    BY <1>13, DeliveredType DEF Deliver, Delivered
  <2> QED  BY <1>13, <2>1, <2>2 DEF Deliver, TypeOK
<1>14. CASE Cancel \/ Close
  <2>1. inflight' \in Record /\ missed' \in SUBSET Prompt
    BY <1>14, RequestedType DEF Cancel, Close, Request, TypeOK
  <2>2. agent' \in Driver
    BY <1>14, AgentTypes DEF Cancel, Close, TypeOK
  <2> QED  BY <1>14, <2>1, <2>2 DEF Cancel, Close, TypeOK
<1>15. CASE CancelDone
  <2>1. Resolved(inflight, Len(out)) \in Record
    BY SeqFacts, ResolvedSame DEF TypeOK, Same
  <2> QED  BY <1>15, <2>1 DEF CancelDone, TypeOK, Record, Awaited
<1>16. CASE SettleStep
  <2>0. WhenIdle \in Awaited /\ Len(out) \in Nat /\ inflight \in Record
    BY SeqFacts DEF WhenIdle, Awaited, TypeOK
  <2>1. inflight' \in Record
    <3>1. Round \/ LeaveRounds \/ Finish => inflight' \in Record
      <4>1. \A s \in {"idle", "cancelled"}, i \in Awaited :
              [inflight EXCEPT !.settle = s, !.idle = i, !.want = 0] \in Record
        BY <2>0 DEF Record
      <4> QED  BY <2>0, <4>1, FreshType DEF Round, LeaveRounds, Finish, Awaited
    <3>2. \/ Round \/ LeaveRounds \/ Finish
          \/ \E s \in {"children", "alone"} :
               inflight' = [inflight EXCEPT !.settle = s, !.idle = "none", !.moved = FALSE]
          \/ inflight' = [inflight EXCEPT !.settle = "output", !.want = Len(out)]
      BY <1>16 DEF SettleStep, SettleAdmitted, SettleIdle, SettleChildren, SettleOutput,
        SettleCancelled
    <3>3. \A s \in {"children", "alone"} :
            [inflight EXCEPT !.settle = s, !.idle = "none", !.moved = FALSE] \in Record
      BY <2>0 DEF Record, Awaited
    <3>4. [inflight EXCEPT !.settle = "output", !.want = Len(out)] \in Record
      BY <2>0 DEF Record
    <3> QED  BY <3>1, <3>2, <3>3, <3>4
  <2>2. slot' \in Prompt \cup {Nobody} /\ pc' \in [Prompt -> {"idle"} \cup Live \cup Answer]
    BY <1>16 DEF SettleStep, SettleAdmitted, SettleIdle, SettleChildren,
      SettleOutput, SettleCancelled, Stay, Finish, TypeOK, Goto, Outcome, Answer
  <2>3. UNCHANGED <<agent, out, teardown, arrivals, missed>>
    BY <1>16 DEF SettleStep, SettleAdmitted, SettleIdle, SettleChildren,
      SettleOutput, SettleCancelled
  <2> QED  BY <2>1, <2>2, <2>3 DEF TypeOK
<1>17. CASE CloseStep
  <2>1. CASE CloseAdmitted
    BY <2>1 DEF CloseAdmitted, TypeOK, WhenIdle, Awaited
  <2>2. CASE CloseIdle
    <3>1. Len(out) \in Nat
      BY SeqFacts DEF TypeOK
    <3> QED  BY <2>2, <3>1 DEF CloseIdle, TypeOK, Awaited
  <2>3. CASE CloseDrain
    <3>1. agent' \in Driver
      BY <2>3 DEF CloseDrain, TypeOK, Driver
    <3> QED  BY <2>3, <3>1 DEF CloseDrain, TypeOK
  <2>4. CASE CloseDispose
    <3>1. agent' \in Driver
      BY <2>4, AgentTypes DEF CloseDispose, TypeOK, Driver
    <3> QED  BY <2>4, <3>1 DEF CloseDispose, TypeOK
  <2> QED  BY <1>17, <2>1, <2>2, <2>3, <2>4 DEF CloseStep
<1>18. ASSUME NEW p \in Prompt, Call(p) PROVE TypeOK'
  <2>1. \A label \in Live \cup Answer :
          [pc EXCEPT ![p] = label] \in [Prompt -> {"idle"} \cup Live \cup Answer]
    BY DEF TypeOK
  <2>2. arrivals' \in 0 .. MaxArrivals
    BY <1>18, AcpAssumption DEF Call, TypeOK
  <2>3. pc' \in [Prompt -> {"idle"} \cup Live \cup Answer] /\ slot' \in Prompt \cup {Nobody}
    BY <1>18, <2>1 DEF Call, Goto, Live, Answer, TypeOK
  <2>4. UNCHANGED <<inflight, agent, out, teardown, missed>>
    BY <1>18 DEF Call
  <2> QED  BY <2>2, <2>3, <2>4 DEF TypeOK
<1>19. ASSUME NEW p \in Prompt, NotQueued(p)
       PROVE  /\ pc' \in [Prompt -> {"idle"} \cup Live \cup Answer]
              /\ slot' \in Prompt \cup {Nobody} /\ inflight' \in Record
  <2>1. Settling(inflight) \in Record
    BY SettlingType DEF TypeOK
  <2>2. [Settling(inflight) EXCEPT !.admitted = TRUE, !.queued = FALSE] \in Record
    BY <2>1 DEF Record
  <2>3. \A label \in Live \cup Answer :
          [pc EXCEPT ![p] = label] \in [Prompt -> {"idle"} \cup Live \cup Answer]
    BY DEF TypeOK
  <2> QED  BY <1>19, <2>2, <2>3, FreshType DEF NotQueued, Goto, Live, Answer, TypeOK
<1>20. ASSUME NEW p \in Prompt, Admit(p) PROVE TypeOK'
  <2>1. CASE NotQueued(p)
    BY <1>20, <2>1, <1>19 DEF Admit, TypeOK
  <2>2. CASE inflight' = [inflight EXCEPT !.queued = TRUE] /\ Goto(p, "routing") /\ UNCHANGED slot
    <3>1. inflight' \in Record
      BY <2>2 DEF TypeOK, Record
    <3>2. pc' \in [Prompt -> {"idle"} \cup Live \cup Answer]
      BY <2>2 DEF TypeOK, Goto, Live
    <3> QED  BY <1>20, <2>2, <3>1, <3>2 DEF Admit, TypeOK
  <2> QED  BY <1>20, <2>1, <2>2 DEF Admit
<1>22. ASSUME NEW p \in Prompt, Queue(p) PROVE TypeOK'
  <2>1. CASE agent.gone
    BY <1>22, <2>1, <1>19 DEF Queue, TypeOK
  <2>2. CASE ~agent.gone
    <3>1. agent' \in Driver
      BY <1>22, <2>2, FollowupType DEF Queue, Message
    <3>2. Settling(Started(inflight)) \in Record
      BY StartedSame, SettlingType DEF Same, TypeOK
    <3>3. inflight' \in Record
      BY <1>22, <2>2, <3>2 DEF Queue, Record
    <3>4. pc' \in [Prompt -> {"idle"} \cup Live \cup Answer]
      BY <1>22, <2>2 DEF Queue, TypeOK, Goto, Live
    <3> QED  BY <1>22, <2>2, <3>1, <3>3, <3>4 DEF Queue, TypeOK
  <2> QED  BY <2>1, <2>2
<1>21. CASE UNCHANGED vars
  BY <1>21 DEF vars, TypeOK
<1> QED
  BY <1>1, <1>2, <1>3, <1>4, <1>5, <1>6, <1>7, <1>8, <1>9, <1>10, <1>11, <1>12, <1>13, <1>14,
     <1>15, <1>16, <1>17, <1>18, <1>20, <1>21, <1>22 DEF Next, AgentMust, AgentMay

\* Every variable of a session keeps its type, whatever the client and the Agent do.
THEOREM TypeCorrect == Spec => []TypeOK
BY InitTypeOK, NextTypeOK, PTL DEF Spec

-----------------------------------------------------------------------------
(* The slot, and the rest at which a prompt is answered *)

\* What the rounds of a settlement know, with children at work or not and n updates to deliver.
Rounds(r, children, n) ==
  /\ r.settle = "cancelled" => r.aborted
  /\ r.admitted /\ ~r.queued => r.aborted
  /\ r.settle = "alone" /\ ~r.moved => ~children
  /\ r.settle = "output" /\ ~r.moved => ~children /\ r.want = n

\* Nothing is queued and nothing settles without a prompt in flight.
Unheld == slot = Nobody => inflight.settle = "none" /\ ~inflight.queued

\* A message that is being routed counts as queued.
Routed == slot # Nobody => (pc[slot] = "routing" => inflight.queued)

RestInv == SlotOwned /\ Unheld /\ Routed /\ Rounds(inflight, agent.children, Len(out))

LEMMA InitRestInv == Init => RestInv
BY AcpAssumption DEF Init, RestInv, SlotOwned, Unheld, Routed, Rounds, Fresh, Live, Prompt

\* A record that the rounds cannot tell from the one before keeps what they know, and one
\* that notes a growth of the log knows less.
LEMMA RoundsSame ==
  ASSUME NEW r, NEW t, Same(r, t), NEW c, NEW n, Rounds(r, c, n)
  PROVE  Rounds(t, c, n)
BY DEF Same, Rounds

LEMMA RoundsLogged ==
  ASSUME NEW r \in Record, NEW t, Beside(Logged(r), t), NEW c, NEW n, NEW d, NEW k,
         Rounds(r, c, n)
  PROVE  Rounds(t, d, k)
BY LoggedType DEF Beside, Rounds

\* Steps of the Agent and of the updates leave the calls and the slot alone.
LEMMA CallsAlone ==
  ASSUME RestInv, UNCHANGED <<pc, slot>>, inflight'.queued = inflight.queued,
         inflight'.settle = inflight.settle \/ inflight.queued
  PROVE  SlotOwned' /\ Unheld' /\ Routed'
BY DEF RestInv, SlotOwned, Unheld, Routed

LEMMA AgentRestInv ==
  ASSUME TypeOK, RestInv, AgentMust \/ AgentMay \/ Maintained \/ ChildEnds \/ Deliver \/ CancelDone
  PROVE  RestInv'
<1> USE DEF teardown
<1>0. inflight \in Record /\ Rounds(inflight, agent.children, Len(out)) /\ Len(out) \in Nat
  BY SeqFacts DEF TypeOK, RestInv
<1>1. ASSUME NEW t \in Record, Same(inflight, t), inflight' = t, UNCHANGED <<pc, slot, out>>,
             agent'.children = agent.children \/ ~agent'.children
      PROVE  RestInv'
  <2>1. Rounds(t, agent.children, Len(out))
    BY <1>0, <1>1, RoundsSame
  <2>2. Rounds(t, agent'.children, Len(out))
    BY <1>1, <2>1 DEF Rounds
  <2>3. SlotOwned' /\ Unheld' /\ Routed'
    BY <1>1, CallsAlone DEF Same
  <2> QED  BY <1>1, <2>2, <2>3 DEF RestInv
<1>2. ASSUME NEW t, Beside(Logged(inflight), t), inflight' = t, UNCHANGED <<pc, slot>>
      PROVE  RestInv'
  <2>1. Rounds(inflight', agent'.children, Len(out'))
    BY <1>0, <1>2, RoundsLogged
  <2>2. inflight'.queued = inflight.queued /\ inflight'.settle = inflight.settle
    BY <1>0, <1>2, LoggedType DEF Beside
  <2>3. SlotOwned' /\ Unheld' /\ Routed'
    BY <1>2, <2>2, CallsAlone
  <2> QED  BY <2>1, <2>3 DEF RestInv
<1>3. Same(inflight, inflight) /\ Beside(Logged(inflight), Logged(inflight))
  BY <1>0, LoggedType DEF Same, Beside
<1>4. CASE WakeUp
  BY <1>0, <1>1, <1>4, StartedSame, FollowupType DEF WakeUp, Message, Same
<1>5. CASE StartTurn
  BY <1>2, <1>5, TurnStartedType DEF StartTurn, TurnStarted
<1>6. CASE Update
  BY <1>2, <1>3, <1>6 DEF Update
<1>7. CASE EndTurn
  BY <1>2, <1>7, TurnEndedType DEF EndTurn, TurnEnded
<1>8. CASE FailTurn
  <2>1. agent'.children = agent.children /\ UNCHANGED <<pc, slot, out>>
    BY <1>8 DEF FailTurn, TypeOK, Driver
  <2>2. CASE inflight.queued
    <3>1. /\ inflight'.settle = IF inflight.settle = "none" THEN "admission" ELSE inflight.settle
          /\ inflight'.aborted = inflight.aborted /\ inflight'.queued = inflight.queued
          /\ inflight'.admitted = inflight.admitted /\ inflight'.moved = inflight.moved
          /\ inflight'.want = inflight.want
      <4> DEFINE q == Settling(inflight)
      <4>1. inflight' = [q EXCEPT !.agentError = TRUE]
        BY <1>8, <2>2 DEF FailTurn
      <4>2. /\ q \in Record /\ q.want = inflight.want
            /\ q.settle = IF inflight.settle = "none" THEN "admission" ELSE inflight.settle
            /\ q.aborted = inflight.aborted /\ q.queued = inflight.queued
            /\ q.admitted = inflight.admitted /\ q.moved = inflight.moved
        BY <1>0, SettlingType
      <4> HIDE DEF q
      <4> QED  BY <4>1, <4>2 DEF Record
    <3>2. Rounds(inflight', agent'.children, Len(out'))
      BY <1>0, <2>1, <3>1 DEF Rounds
    <3> QED  BY <2>1, <2>2, <3>1, <3>2, CallsAlone DEF RestInv
  <2>3. CASE ~inflight.queued
    BY <1>0, <1>1, <1>3, <1>8, <2>1, <2>3 DEF FailTurn
  <2> QED  BY <2>2, <2>3
<1>9. CASE Remove \/ Maintain \/ ChildEnds \/ Vanish
  <2>1. agent'.children = agent.children \/ ~agent'.children
    BY <1>9, AgentTypes DEF Remove, Maintain, ChildEnds, Vanish, TypeOK, Driver
  <2> QED  BY <1>0, <1>1, <1>3, <1>9, <2>1 DEF Remove, Maintain, ChildEnds, Vanish
<1>10. CASE Rest
  <2>1. agent'.children = agent.children
    BY <1>10 DEF Rest, TypeOK, Driver
  <2>2. Same(inflight, Heard(inflight, "idle"))
    BY <1>0, HeardSame
  <2>3. Same(inflight, AtRest(Heard(inflight, "idle")))
    BY <2>2, AtRestSame DEF Same
  <2> QED  BY <1>1, <1>10, <2>1, <2>2, <2>3 DEF Rest, Same
<1>11. CASE Maintained
  <2>1. agent'.children = agent.children
    BY <1>11 DEF Maintained, TypeOK, Driver
  <2>2. Same(inflight, Heard(inflight, "running")) /\ Same(inflight, AtRest(inflight))
    BY <1>0, HeardSame, AtRestSame
  <2> QED  BY <1>1, <1>11, <2>1, <2>2 DEF Maintained, Same
<1>12. CASE Delegate
  BY <1>2, <1>3, <1>12 DEF Delegate
<1>13. CASE Deliver
  <2>1. PICK fails \in BOOLEAN : inflight' = Delivered(fails)
    BY <1>13 DEF Deliver, Delivered
  <2>2. /\ inflight'.settle = inflight.settle /\ inflight'.aborted = inflight.aborted
        /\ inflight'.queued = inflight.queued /\ inflight'.admitted = inflight.admitted
        /\ inflight'.moved = inflight.moved /\ inflight'.want = Sent(inflight.want)
    BY <2>1, DeliveredType
  <2>3. Len(out') = Len(out) - 1 /\ Len(out) # 0
    BY <1>13, SeqFacts DEF Deliver, TypeOK
  <2>4. Rounds(inflight', agent'.children, Len(out'))
    BY <1>0, <1>13, <2>2, <2>3 DEF Rounds, Deliver, Sent
  <2> QED  BY <1>13, <2>2, <2>4, CallsAlone DEF RestInv, Deliver
<1>14. CASE CancelDone
  <2>1. Same(inflight, Resolved(inflight, Len(out)))
    BY <1>0, ResolvedSame
  <2>2. Same(inflight, inflight')
    BY <1>14, <2>1 DEF CancelDone, Same, Record, Awaited
  <2> QED  BY <1>1, <1>14, <2>2 DEF CancelDone, Same
<1> QED
  BY <1>4, <1>5, <1>6, <1>7, <1>8, <1>9, <1>10, <1>11, <1>12, <1>13, <1>14 DEF AgentMust, AgentMay

\* A settlement that ends answers the prompt in flight; it ends with the work over, or with
\* the prompt cancelled.
LEMMA FinishRestInv ==
  ASSUME TypeOK, RestInv, Finish, UNCHANGED <<agent, out>>, slot # Nobody
  PROVE  RestInv'
<1>1. slot \in Prompt /\ slot' = Nobody /\ inflight' = Fresh /\ Nobody \notin Prompt
  BY AcpAssumption DEF Finish, TypeOK, Prompt
<1>2. pc' = [pc EXCEPT ![slot] = Outcome] /\ Outcome \in Answer
  BY DEF Finish, Goto, Outcome, Answer
<1>3. SlotOwned'
  BY <1>1, <1>2 DEF RestInv, SlotOwned, TypeOK, Live, Answer
<1>4. Unheld' /\ Routed' /\ Rounds(inflight', agent'.children, Len(out'))
  BY <1>1 DEF Unheld, Routed, Rounds, Fresh
<1> QED  BY <1>3, <1>4 DEF RestInv

\* Whatever settles has a prompt in flight.
LEMMA SettleHeld ==
  ASSUME RestInv, SettleStep
  PROVE  slot # Nobody
BY DEF RestInv, Unheld, SettleStep, SettleAdmitted, SettleIdle, SettleChildren, SettleOutput,
  SettleCancelled

LEMMA SettleRestInv ==
  ASSUME TypeOK, RestInv, SettleStep
  PROVE  RestInv'
<1>0. inflight \in Record /\ Rounds(inflight, agent.children, Len(out)) /\ slot # Nobody
  BY SettleHeld DEF TypeOK, RestInv
<1>1. UNCHANGED <<agent, out>>
  BY DEF SettleStep, SettleAdmitted, SettleIdle, SettleChildren, SettleOutput, SettleCancelled
<1>2. CASE Finish
  BY <1>0, <1>1, <1>2, FinishRestInv
<1>3. ASSUME UNCHANGED <<pc, slot>>, inflight'.queued = inflight.queued,
             Rounds(inflight', agent.children, Len(out))
      PROVE  RestInv'
  BY <1>0, <1>1, <1>3 DEF RestInv, SlotOwned, Unheld, Routed
<1>4. CASE Round /\ Stay
  <2>1. /\ inflight'.settle = "idle" /\ inflight'.queued = inflight.queued
        /\ inflight'.admitted = inflight.admitted /\ inflight'.aborted = inflight.aborted
    BY <1>0, <1>4 DEF Round, Record
  <2>2. Rounds(inflight', agent.children, Len(out))
    BY <1>0, <2>1 DEF Rounds
  <2> QED  BY <1>3, <1>4, <2>1, <2>2 DEF Stay
<1>5. CASE LeaveRounds /\ Stay /\ inflight.aborted
  <2>1. /\ inflight'.settle = "cancelled" /\ inflight'.queued = inflight.queued
        /\ inflight'.admitted = inflight.admitted /\ inflight'.aborted = inflight.aborted
    BY <1>0, <1>5 DEF LeaveRounds, Record
  <2>2. Rounds(inflight', agent.children, Len(out))
    BY <1>0, <1>5, <2>1 DEF Rounds
  <2> QED  BY <1>3, <1>5, <2>1, <2>2 DEF Stay
<1>6. CASE SettleAdmitted
  BY <1>2, <1>4, <1>6 DEF SettleAdmitted
<1>7. CASE SettleIdle
  <2>1. CASE ~inflight.aborted
    <3>1. inflight' = [inflight EXCEPT !.settle = IF agent.children THEN "children" ELSE "alone",
                                       !.idle = "none", !.moved = FALSE]
      BY <1>7, <2>1 DEF SettleIdle
    <3>2. /\ inflight'.settle = IF agent.children THEN "children" ELSE "alone"
          /\ inflight'.queued = inflight.queued
          /\ inflight'.admitted = inflight.admitted /\ inflight'.aborted = inflight.aborted
      BY <1>0, <3>1 DEF Record
    <3>3. Rounds(inflight', agent.children, Len(out))
      BY <1>0, <3>2 DEF Rounds
    <3> QED  BY <1>3, <1>7, <3>2, <3>3 DEF SettleIdle, Stay
  <2> QED  BY <1>5, <1>7, <2>1 DEF SettleIdle
<1>8. CASE SettleChildren
  <2>1. CASE inflight.settle = "alone" /\ IdleNow /\ ~inflight.aborted
    <3>1. inflight' = [inflight EXCEPT !.settle = "output", !.want = Len(out)]
      BY <1>8, <2>1 DEF SettleChildren
    <3>2. /\ inflight'.settle = "output" /\ inflight'.want = Len(out)
          /\ inflight'.queued = inflight.queued /\ inflight'.moved = inflight.moved
          /\ inflight'.admitted = inflight.admitted /\ inflight'.aborted = inflight.aborted
      BY <1>0, <3>1 DEF Record
    <3>3. Rounds(inflight', agent.children, Len(out))
      BY <1>0, <2>1, <3>2 DEF Rounds, IdleNow
    <3> QED  BY <1>3, <1>8, <3>2, <3>3 DEF SettleChildren, Stay
  <2> QED  BY <1>4, <1>5, <1>8, <2>1 DEF SettleChildren
<1>9. CASE SettleOutput
  BY <1>2, <1>4, <1>5, <1>9 DEF SettleOutput
<1>10. CASE SettleCancelled
  BY <1>2, <1>10 DEF SettleCancelled
<1> QED  BY <1>6, <1>7, <1>8, <1>9, <1>10 DEF SettleStep

\* A cancellation changes neither what is queued nor how far the settlement is.
LEMMA RequestRestInv ==
  ASSUME TypeOK, RestInv, Request, UNCHANGED <<pc, slot, out>>, agent'.children = agent.children
  PROVE  RestInv'
<1>1. CASE slot = Nobody
  BY <1>1 DEF Request, RestInv, SlotOwned, Unheld, Routed, Rounds
<1>2. CASE slot # Nobody
  <2>1. inflight' = Requested(inflight)
    BY <1>2 DEF Request
  <2>2. /\ inflight'.aborted /\ inflight'.queued = inflight.queued
        /\ inflight'.settle = IF inflight.settle = "none" THEN "admission" ELSE inflight.settle
        /\ inflight'.moved = inflight.moved /\ inflight'.want = inflight.want
    BY <2>1, RequestedType
  <2>3. Rounds(inflight', agent'.children, Len(out'))
    BY <2>2 DEF RestInv, Rounds
  <2> QED  BY <1>2, <2>2, <2>3 DEF RestInv, SlotOwned, Unheld, Routed
<1> QED  BY <1>1, <1>2

LEMMA NotQueuedRestInv ==
  ASSUME TypeOK, RestInv, NEW p \in Prompt, pc[p] \in {"admitting", "routing"}, NotQueued(p),
         UNCHANGED <<agent, out>>
  PROVE  RestInv'
<1>0. p = slot /\ inflight \in Record /\ Nobody \notin Prompt
  BY AcpAssumption DEF RestInv, SlotOwned, TypeOK, Live, Prompt
<1>1. CASE inflight.aborted
  <2> DEFINE q == Settling(inflight)
  <2>1. /\ inflight' = [q EXCEPT !.admitted = TRUE, !.queued = FALSE]
        /\ pc' = [pc EXCEPT ![p] = "awaiting"] /\ slot' = slot
    BY <1>1 DEF NotQueued, Goto
  <2>2. /\ q \in Record /\ q.want = inflight.want /\ q.moved = inflight.moved
        /\ q.settle = IF inflight.settle = "none" THEN "admission" ELSE inflight.settle
        /\ q.aborted = inflight.aborted
    BY <1>0, SettlingType
  <2> HIDE DEF q
  <2>3. /\ inflight'.settle = q.settle /\ inflight'.aborted = q.aborted
        /\ inflight'.moved = q.moved /\ inflight'.want = q.want
    BY <2>1, <2>2 DEF Record
  <2>4. Rounds(inflight', agent'.children, Len(out'))
    BY <1>1, <2>2, <2>3 DEF RestInv, Rounds
  <2>5. pc'[slot] = "awaiting" /\ SlotOwned'
    BY <1>0, <2>1 DEF RestInv, SlotOwned, TypeOK, Live
  <2> QED  BY <1>0, <2>1, <2>4, <2>5 DEF RestInv, Unheld, Routed
<1>2. CASE ~inflight.aborted
  <2>1. /\ inflight' = Fresh /\ slot' = Nobody /\ pc' = [pc EXCEPT ![p] = "refused"]
    BY <1>2 DEF NotQueued, Goto
  <2>2. SlotOwned'
    BY <1>0, <2>1 DEF RestInv, SlotOwned, TypeOK, Live
  <2> QED  BY <2>1, <2>2 DEF RestInv, Unheld, Routed, Rounds, Fresh
<1> QED  BY <1>1, <1>2

LEMMA CallRestInv ==
  ASSUME TypeOK, RestInv, NEW p \in Prompt, Call(p) \/ Admit(p) \/ Queue(p)
  PROVE  RestInv'
<1>0. inflight \in Record /\ Nobody \notin Prompt /\ (pc[p] \in {"admitting", "routing"} => p = slot)
  BY AcpAssumption DEF RestInv, SlotOwned, TypeOK, Live, Prompt
<1>1. CASE Call(p)
  <2>1. UNCHANGED <<inflight, agent, out>> /\ pc[p] = "idle"
    BY <1>1 DEF Call
  <2>2. \/ slot = Nobody /\ slot' = p /\ pc' = [pc EXCEPT ![p] = "admitting"]
        \/ slot' = slot /\ pc' = [pc EXCEPT ![p] = "refused"]
    BY <1>1 DEF Call, Goto
  <2>3. SlotOwned' /\ Unheld' /\ Routed'
    BY <1>0, <2>1, <2>2 DEF RestInv, SlotOwned, Unheld, Routed, TypeOK, Live
  <2> QED  BY <2>1, <2>3 DEF RestInv
<1>2. CASE Admit(p) /\ NotQueued(p)
  BY <1>2, NotQueuedRestInv DEF Admit
<1>3. CASE Admit(p) /\ ~NotQueued(p)
  <2>1. /\ inflight' = [inflight EXCEPT !.queued = TRUE] /\ ~inflight.aborted
        /\ pc' = [pc EXCEPT ![p] = "routing"] /\ UNCHANGED <<slot, agent, out>>
        /\ pc[p] = "admitting"
    BY <1>3 DEF Admit, Goto
  <2>2. /\ inflight'.settle = inflight.settle /\ inflight'.aborted = inflight.aborted
        /\ inflight'.queued /\ inflight'.moved = inflight.moved
        /\ inflight'.want = inflight.want
    BY <1>0, <2>1 DEF Record
  <2>3. Rounds(inflight', agent'.children, Len(out'))
    BY <2>1, <2>2 DEF RestInv, Rounds
  <2>4. SlotOwned'
    BY <1>0, <2>1 DEF RestInv, SlotOwned, TypeOK, Live
  <2> QED  BY <1>0, <2>1, <2>2, <2>3, <2>4 DEF RestInv, Unheld, Routed
<1>4. CASE Queue(p) /\ agent.gone
  BY <1>4, NotQueuedRestInv DEF Queue
<1>5. CASE Queue(p) /\ ~agent.gone
  <2> DEFINE q == Settling(Started(inflight))
  <2>1. /\ inflight' = [q EXCEPT !.admitted = TRUE] /\ Followup(p) /\ pc[p] = "routing"
        /\ pc' = [pc EXCEPT ![p] = "awaiting"] /\ UNCHANGED <<slot, out>>
    BY <1>5 DEF Queue, Goto
  <2>2. /\ q \in Record /\ q.want = inflight.want /\ q.moved = inflight.moved
        /\ q.settle = IF inflight.settle = "none" THEN "admission" ELSE inflight.settle
        /\ q.aborted = inflight.aborted /\ q.queued = inflight.queued
    BY <1>0, StartedSame, SettlingType DEF Same
  <2> HIDE DEF q
  <2>3. /\ inflight'.settle = q.settle /\ inflight'.aborted = q.aborted
        /\ inflight'.moved = q.moved /\ inflight'.want = q.want /\ inflight'.queued = q.queued
    BY <2>1, <2>2 DEF Record
  <2>4. inflight.queued
    BY <1>0, <2>1 DEF RestInv, Routed
  <2>5. agent'.children = agent.children
    BY <2>1, FollowupType DEF Message
  <2>6. Rounds(inflight', agent'.children, Len(out'))
    BY <2>1, <2>2, <2>3, <2>4, <2>5 DEF RestInv, Rounds
  <2>7. pc'[slot] = "awaiting" /\ SlotOwned'
    BY <1>0, <2>1 DEF RestInv, SlotOwned, TypeOK, Live
  <2> QED  BY <1>0, <2>1, <2>6, <2>7 DEF RestInv, Unheld, Routed
<1> QED  BY <1>1, <1>2, <1>3, <1>4, <1>5

LEMMA NextRestInv ==
  ASSUME TypeOK, RestInv, [Next]_vars
  PROVE  RestInv'
<1> USE DEF teardown
<1>1. CASE AgentMust \/ AgentMay \/ Maintained \/ ChildEnds \/ Deliver \/ CancelDone
  BY <1>1, AgentRestInv
<1>2. CASE SettleStep
  BY <1>2, SettleRestInv
<1>3. CASE Cancel \/ Close
  <2>1. agent'.children = agent.children
    BY <1>3, AgentTypes DEF Cancel, Close, TypeOK
  <2>2. Request /\ UNCHANGED <<pc, slot, out>>
    BY <1>3 DEF Cancel, Close
  <2> QED  BY <2>1, <2>2, RequestRestInv
<1>4. CASE CloseStep
  <2>1. UNCHANGED <<pc, slot, inflight, out>>
    BY <1>4 DEF CloseStep, CloseAdmitted, CloseIdle, CloseDrain, CloseDispose
  <2>2. agent'.children = agent.children \/ ~agent'.children
    BY <1>4, AgentTypes DEF CloseStep, CloseAdmitted, CloseIdle, CloseDrain, CloseDispose, TypeOK,
      Driver
  <2> QED  BY <2>1, <2>2 DEF RestInv, SlotOwned, Unheld, Routed, Rounds
<1>5. ASSUME NEW p \in Prompt, Call(p) \/ Admit(p) \/ Queue(p) PROVE RestInv'
  BY <1>5, CallRestInv
<1>6. CASE UNCHANGED vars
  BY <1>6 DEF vars, RestInv, SlotOwned, Unheld, Routed, Rounds
<1> QED  BY <1>1, <1>2, <1>3, <1>4, <1>5, <1>6 DEF Next

\* The slot of the session belongs to the prompt that is not answered yet, if there is one.
THEOREM SlotIsOwned == Spec => []SlotOwned
<1>1. RestInv => SlotOwned
  BY DEF RestInv
<1> QED
  BY <1>1, InitTypeOK, NextTypeOK, InitRestInv, NextRestInv, PTL DEF Spec

\* An outcome other than a cancellation is that of a settlement that found the Agent at rest,
\* no child at work and every update delivered, all three still true in this step.
LEMMA AnswerStep ==
  ASSUME TypeOK, RestInv, Next, NEW p \in Prompt, pc'[p] \in {"end_turn", "failed"}, ~Answered(p)
  PROVE  agent.status = "idle" /\ ~agent.children /\ out = <<>>
<1> USE DEF teardown
<1>0. pc[p] # pc'[p]
  BY DEF Answered, Answer
<1>1. CASE SettleStep
  <2>1. Finish
    BY <1>0, <1>1 DEF SettleStep, SettleAdmitted, SettleIdle, SettleChildren, SettleOutput,
      SettleCancelled, Stay
  <2>2. slot \in Prompt /\ pc' = [pc EXCEPT ![slot] = Outcome]
    BY <1>1, <2>1, SettleHeld DEF Finish, Goto, TypeOK
  <2>3. ~inflight.aborted
    BY <1>0, <2>2 DEF Outcome, TypeOK
  <2>4. SettleOutput
    BY <1>0, <1>1, <2>3 DEF SettleStep, SettleAdmitted, SettleIdle, SettleChildren, Stay,
      SettleCancelled, RestInv, Rounds, Round
  <2>5. IdleNow /\ inflight.settle = "output" /\ inflight.want = 0
    BY <1>0, <2>3, <2>4 DEF SettleOutput, Stay
  <2>6. Len(out) = 0 /\ ~agent.children
    BY <2>5 DEF RestInv, Rounds, IdleNow
  <2> QED  BY <2>5, <2>6, SeqFacts DEF IdleNow, TypeOK
<1>2. CASE Cancel \/ Close \/ CloseStep \/ CancelDone \/ Deliver \/ ChildEnds \/ Maintained
  BY <1>0, <1>2 DEF Cancel, Close, CloseStep, CancelDone, Deliver, ChildEnds, Maintained,
    CloseAdmitted, CloseIdle, CloseDrain, CloseDispose
<1>3. CASE AgentMust \/ AgentMay
  BY <1>0, <1>3 DEF AgentMust, AgentMay, StartTurn, EndTurn, Rest, WakeUp, Update, FailTurn, Remove,
    Maintain, Delegate, Vanish
<1>4. ASSUME NEW q \in Prompt, Call(q) \/ Admit(q) \/ Queue(q) PROVE FALSE
  <2>1. \E label \in {"admitting", "routing", "awaiting", "refused"} : pc' = [pc EXCEPT ![q] = label]
    BY <1>4 DEF Call, Admit, Queue, NotQueued, Goto
  <2> QED  BY <1>0, <2>1 DEF TypeOK
<1> QED  BY <1>1, <1>2, <1>3, <1>4 DEF Next

\* For any number of prompts and updates: a prompt is answered with the outcome of its work
\* only with the Agent at rest, no child at work and every update delivered.
THEOREM AnswerAtRest == Spec => AnsweredAtRest
<1>1. TypeOK /\ RestInv /\ [Next]_vars =>
        [\A p \in Prompt : pc'[p] \in {"end_turn", "failed"} /\ ~Answered(p)
           => agent.status = "idle" /\ ~agent.children /\ out = <<>>]_vars
  BY AnswerStep
<1> QED
  BY <1>1, InitTypeOK, NextTypeOK, InitRestInv, NextRestInv, PTL DEF Spec, AnsweredAtRest

-----------------------------------------------------------------------------
(* An answered prompt is over *)

Waits(p) == \E i \in DOMAIN agent.inbox : agent.inbox[i] = p
Over(p) == agent.turn # p /\ ~Waits(p)

\* The prompt in flight left the Agent, or escaped its cancellation while it was routed.
Gone == slot \in missed \/ Over(slot)

\* The Agent at rest has nothing to do.
Resting ==
  /\ agent.status = "idle" => agent.turn = Nobody
  /\ agent.maintenance => agent.status = "idle"
  /\ Quiet => agent.inbox = <<>>

\* What the record says only of a prompt that is gone.
Due(r) ==
  \/ r.startedIdle \/ r.done # Pending \/ r.cancel = "met" \/ r.idle = "met"
  \/ r.settle \in {"children", "alone", "output"} \/ (r.aborted /\ ~r.queued)

\* A cancellation has been asked for, and a settlement goes on after the admission only.
Kept(r) ==
  /\ ~r.aborted => r.done = Pending /\ r.cancel = "none" /\ ~r.startedIdle
  /\ ~r.admitted => r.settle \in {"none", "admission"} /\ r.idle = "none"

InFlight ==
  /\ Kept(inflight)
  /\ slot = Nobody => ~inflight.aborted /\ ~inflight.admitted
  /\ slot # Nobody =>
       /\ Due(inflight) => Gone
       /\ inflight.aborted => slot \in missed \/ ~Waits(slot)
       /\ pc[slot] \in {"admitting", "routing"} <=> ~inflight.admitted
       /\ pc[slot] = "routing" /\ inflight.aborted => slot \in missed

\* A message reaches the Agent when its routing is over.
Unsent == \A p \in Prompt : pc[p] \in {"idle", "admitting", "routing"} => Over(p)

OverInv == Resting /\ Unsent /\ AnsweredIsOver /\ InFlight

LEMMA InitOverInv == Init => OverInv
<1> SUFFICES ASSUME Init PROVE OverInv
  OBVIOUS
<1>1. ~Quiet \/ agent.inbox = <<>>
  BY DEF Init
<1>2. Resting /\ \A p \in Prompt : Over(p)
  BY AcpAssumption DEF Init, Resting, Over, Waits, Prompt, Quiet
<1>3. InFlight
  BY DEF Init, InFlight, Kept, Fresh
<1> QED  BY <1>2, <1>3 DEF Init, OverInv, Unsent, AnsweredIsOver, Answered, Answer

\* The fields of a record that matter here, after the operators on records.
LEMMA HeardFields ==
  ASSUME NEW r \in Record, TypeOK, NEW s
  PROVE  LET t == Heard(r, s) IN
         /\ t.startedIdle = r.startedIdle /\ t.idle = r.idle /\ t.cancel = r.cancel
         /\ t.done # Pending => \/ r.done # Pending
                                \/ r.queued /\ r.aborted /\ (s = "idle" \/ r.startedIdle)
BY AcpAssumption DEF Heard, Resolved, Record

LEMMA AtRestFields ==
  ASSUME NEW r \in Record
  PROVE  LET t == AtRest(r) IN
         /\ t.startedIdle = r.startedIdle /\ t.done = r.done
         /\ (r.idle = "none" => t.idle = "none") /\ (r.cancel = "none" => t.cancel = "none")
BY DEF AtRest, Met, Record

LEMMA LoggedFields ==
  ASSUME NEW r \in Record
  PROVE  LET t == Logged(r) IN
         /\ t.startedIdle = r.startedIdle /\ t.done = r.done
         /\ t.idle = r.idle /\ t.cancel = r.cancel
<1> DEFINE b == r.settle \in {"children", "alone", "output"}
<1>1. b \in BOOLEAN
  OBVIOUS
<1> HIDE DEF b
<1>2. LET t == [r EXCEPT !.moved = b] IN
         /\ t.startedIdle = r.startedIdle /\ t.done = r.done
         /\ t.idle = r.idle /\ t.cancel = r.cancel
  BY <1>1 DEF Record
<1> QED  BY <1>2 DEF Logged, b

LEMMA SettlingFields ==
  ASSUME NEW r \in Record
  PROVE  LET t == Settling(r) IN
         /\ t.startedIdle = r.startedIdle /\ t.done = r.done
         /\ t.idle = r.idle /\ t.cancel = r.cancel
BY DEF Settling, Record

\* Messages that leave the inbox, and one that joins it.
LEMMA InboxFacts ==
  ASSUME NEW q \in Seq(Message)
  PROVE  /\ q # <<>> => /\ \A i \in DOMAIN Tail(q) : \E j \in DOMAIN q : Tail(q)[i] = q[j]
                        /\ \E j \in DOMAIN q : Head(q) = q[j]
         /\ \A m \in Message : \A i \in DOMAIN Append(q, m) :
              Append(q, m)[i] = m \/ \E j \in DOMAIN q : Append(q, m)[i] = q[j]
<1>1. \A i \in DOMAIN Tail(q) : q # <<>> => Tail(q)[i] = q[i+1] /\ i + 1 \in DOMAIN q
  OBVIOUS
<1>2. q # <<>> => 1 \in DOMAIN q /\ Head(q) = q[1]
  OBVIOUS
<1>3. ASSUME NEW m \in Message, NEW i \in DOMAIN Append(q, m)
      PROVE  Append(q, m)[i] = m \/ (i \in DOMAIN q /\ Append(q, m)[i] = q[i])
  OBVIOUS
<1> QED  BY <1>1, <1>2, <1>3

\* A step of the Agent that takes messages away, or brings one from elsewhere, and a record
\* that says no more of its prompt than is so.
LEMMA KeepsOver ==
  ASSUME TypeOK, OverInv, UNCHANGED <<pc, slot, missed>>, Resting',
         \A p \in Prompt : (~Waits(p) => ~Waits(p)') /\ (Over(p) => agent'.turn # p),
         Kept(inflight'),
         inflight'.aborted = inflight.aborted, inflight'.admitted = inflight.admitted,
         slot # Nobody /\ Due(inflight') => Gone'
  PROVE  OverInv'
<1>1. \A p \in Prompt : Over(p) => Over(p)'
  BY DEF Over
<1>2. Unsent' /\ AnsweredIsOver'
  <2>1. \A p \in Prompt : Answered(p)' = Answered(p)
    BY DEF Answered
  <2>2. \A p \in Prompt : Answered(p) /\ p \notin missed => Over(p)
    BY DEF OverInv, AnsweredIsOver, Over, Waits
  <2>3. \A p \in Prompt : Answered(p)' /\ p \notin missed' => Over(p)'
    BY <1>1, <2>1, <2>2
  <2> QED  BY <1>1, <2>3 DEF OverInv, Unsent, AnsweredIsOver, Over, Waits
<1>3. slot # Nobody => slot \in Prompt
  BY DEF TypeOK
<1>4. InFlight'
  BY <1>1, <1>3 DEF OverInv, InFlight
<1> QED  BY <1>2, <1>4 DEF OverInv

\* What was due before is still due: the Agent does not take a prompt up again.
LEMMA StillGone ==
  ASSUME TypeOK, OverInv, UNCHANGED <<slot, missed>>, slot # Nobody, Due(inflight),
         \A p \in Prompt : (~Waits(p) => ~Waits(p)') /\ (Over(p) => agent'.turn # p)
  PROVE  Gone'
BY DEF OverInv, InFlight, Gone, Over, TypeOK

\* A record with nothing more due than before.
NoMoreDue(r, t) ==
  /\ t.settle = r.settle /\ t.aborted = r.aborted /\ t.queued = r.queued /\ t.admitted = r.admitted
  /\ (t.done = Pending <=> r.done = Pending) /\ (t.startedIdle <=> r.startedIdle)
  /\ t.idle = r.idle /\ t.cancel = r.cancel

LEMMA NoMoreOver ==
  ASSUME TypeOK, OverInv, UNCHANGED <<pc, slot, missed>>, Resting',
         NoMoreDue(inflight, inflight'),
         \A p \in Prompt : (~Waits(p) => ~Waits(p)') /\ (Over(p) => agent'.turn # p)
  PROVE  OverInv'
<1>1. Kept(inflight') /\ (Due(inflight') => Due(inflight))
  BY DEF NoMoreDue, Kept, Due, OverInv, InFlight
<1>2. slot # Nobody /\ Due(inflight') => Gone'
  BY <1>1, StillGone
<1> QED  BY <1>1, <1>2, KeepsOver DEF NoMoreDue

LEMMA AgentOverInv ==
  ASSUME TypeOK, OverInv, RestInv,
         AgentMust \/ AgentMay \/ Maintained \/ ChildEnds \/ Deliver \/ CancelDone
  PROVE  OverInv'
<1> USE DEF teardown
<1>0. /\ inflight \in Record /\ agent \in Driver /\ agent.inbox \in Seq(Message) /\ Len(out) \in Nat
      /\ Resting /\ Kept(inflight)
  BY SeqFacts DEF TypeOK, Driver, OverInv, InFlight
<1>1. NoMoreDue(inflight, inflight) /\ NoMoreDue(inflight, Logged(inflight))
  BY <1>0, LoggedType, LoggedFields DEF NoMoreDue
<1>2. ASSUME NEW t, Beside(Logged(inflight), t) PROVE NoMoreDue(inflight, t)
  BY <1>0, <1>2, LoggedType, LoggedFields DEF NoMoreDue, Beside
<1>3. ASSUME NEW p \in Prompt, agent.inbox # <<>>, agent'.inbox = Tail(agent.inbox)
      PROVE  ~Waits(p) => ~Waits(p)'
  BY <1>0, <1>3, InboxFacts DEF Waits
<1>4. CASE WakeUp
  <2>0. /\ UNCHANGED <<pc, slot, missed>> /\ inflight' = Started(inflight)
        /\ agent'.inbox = Append(agent.inbox, Wake) /\ agent'.turn = agent.turn
        /\ agent'.maintenance = agent.maintenance
        /\ agent'.status = IF Quiet THEN "running" ELSE agent.status
    BY <1>4, FollowupType DEF WakeUp, Message
  <2>1. \A p \in Prompt : (~Waits(p) => ~Waits(p)') /\ (Over(p) => agent'.turn # p)
    BY <1>0, <2>0, InboxFacts, AcpAssumption DEF Waits, Over, Message, Prompt
  <2>2. Resting'
    <3>1. ~Quiet'
      BY <2>0 DEF Quiet
    <3> QED  BY <1>0, <2>0, <3>1 DEF Resting, Quiet
  <2>3. /\ Same(inflight, inflight') /\ inflight'.startedIdle = inflight.startedIdle
        /\ inflight'.idle = inflight.idle /\ inflight'.cancel = inflight.cancel
        /\ inflight'.done # Pending => inflight.done # Pending \/ inflight.startedIdle
    <3>1. CASE Quiet
      BY <1>0, <2>0, <3>1, HeardSame, HeardFields DEF Started
    <3>2. CASE ~Quiet
      BY <1>0, <2>0, <3>2 DEF Started, Same
    <3> QED  BY <3>1, <3>2
  <2>4. Kept(inflight') /\ (Due(inflight') => Due(inflight))
    BY <1>0, <2>3 DEF Kept, Due, Same
  <2>5. slot # Nobody /\ Due(inflight') => Gone'
    BY <2>0, <2>1, <2>4, StillGone
  <2> QED  BY <2>0, <2>1, <2>2, <2>3, <2>4, <2>5, KeepsOver DEF Same
<1>5. CASE StartTurn
  <2>1. /\ agent'.inbox = Tail(agent.inbox) /\ agent'.turn = Head(agent.inbox)
        /\ agent'.status = "running" /\ agent'.maintenance = agent.maintenance
        /\ agent.inbox # <<>> /\ agent.status = "running" /\ UNCHANGED <<pc, slot, missed>>
    BY <1>0, <1>5 DEF StartTurn, Driver
  <2>2. \A p \in Prompt : (~Waits(p) => ~Waits(p)') /\ (Over(p) => agent'.turn # p)
    BY <1>0, <1>3, <2>1, InboxFacts DEF Waits, Over
  <2>3. Resting'
    BY <1>0, <2>1 DEF Resting, Quiet
  <2>4. NoMoreDue(inflight, inflight')
    BY <1>2, <1>5, TurnStartedType DEF StartTurn, TurnStarted
  <2> QED  BY <2>1, <2>2, <2>3, <2>4, NoMoreOver
<1>6. CASE Update
  BY <1>0, <1>1, <1>6, NoMoreOver DEF Update, Resting, Quiet, Waits, Over
<1>7. CASE EndTurn
  <2>1. /\ agent'.inbox = agent.inbox /\ agent'.turn = Nobody
        /\ agent'.status = agent.status /\ agent'.maintenance = agent.maintenance
        /\ UNCHANGED <<pc, slot, missed>>
    BY <1>0, <1>7 DEF EndTurn, Driver
  <2>2. Resting' /\ \A p \in Prompt : (~Waits(p) => ~Waits(p)') /\ (Over(p) => agent'.turn # p)
    BY <1>0, <2>1, AcpAssumption DEF Waits, Over, Resting, Quiet, Prompt
  <2>3. NoMoreDue(inflight, inflight')
    BY <1>2, <1>7, TurnEndedType DEF EndTurn, TurnEnded
  <2> QED  BY <2>1, <2>2, <2>3, NoMoreOver
<1>8. CASE FailTurn
  <2>1. /\ agent'.status = agent.status /\ agent'.maintenance = agent.maintenance
        /\ agent.status = "running" /\ UNCHANGED <<pc, slot, missed>>
        /\ \/ agent'.turn = Nobody /\ agent'.inbox = agent.inbox
           \/ agent'.turn = agent.turn /\ agent.inbox # <<>> /\ agent'.inbox = Tail(agent.inbox)
    BY <1>0, <1>8 DEF FailTurn, Driver
  <2>2. Resting'
    BY <1>0, <2>1 DEF Resting, Quiet
  <2>3. ASSUME NEW p \in Prompt
        PROVE  (~Waits(p) => ~Waits(p)') /\ (Over(p) => agent'.turn # p)
    <3>1. CASE agent'.turn = Nobody /\ agent'.inbox = agent.inbox
      BY <3>1, AcpAssumption DEF Waits, Prompt
    <3>2. CASE agent'.turn = agent.turn /\ agent.inbox # <<>> /\ agent'.inbox = Tail(agent.inbox)
      BY <1>3, <3>2 DEF Over
    <3> QED  BY <2>1, <3>1, <3>2
  <2>4. /\ inflight'.settle = IF inflight.settle = "none" /\ inflight.queued THEN "admission"
                              ELSE inflight.settle
        /\ inflight'.aborted = inflight.aborted /\ inflight'.queued = inflight.queued
        /\ inflight'.admitted = inflight.admitted /\ inflight'.done = inflight.done
        /\ inflight'.startedIdle = inflight.startedIdle
        /\ inflight'.idle = inflight.idle /\ inflight'.cancel = inflight.cancel
    <3>1. CASE ~inflight.queued
      BY <1>8, <3>1 DEF FailTurn
    <3>2. CASE inflight.queued
      <4> DEFINE q == Settling(inflight)
      <4>1. inflight' = [q EXCEPT !.agentError = TRUE]
        BY <1>8, <3>2 DEF FailTurn
      <4>2. /\ q \in Record /\ q.done = inflight.done /\ q.startedIdle = inflight.startedIdle
            /\ q.idle = inflight.idle /\ q.cancel = inflight.cancel
            /\ q.settle = IF inflight.settle = "none" THEN "admission" ELSE inflight.settle
            /\ q.aborted = inflight.aborted /\ q.queued = inflight.queued
            /\ q.admitted = inflight.admitted
        BY <1>0, SettlingType, SettlingFields
      <4> HIDE DEF q
      <4> QED  BY <3>2, <4>1, <4>2 DEF Record
    <3> QED  BY <3>1, <3>2
  <2>5. Kept(inflight') /\ (Due(inflight') => Due(inflight))
    BY <1>0, <2>4 DEF Kept, Due
  <2>6. slot # Nobody /\ Due(inflight') => Gone'
    BY <2>1, <2>3, <2>5, StillGone
  <2> QED  BY <2>1, <2>2, <2>3, <2>4, <2>5, <2>6, KeepsOver
<1>9. CASE Remove
  <2>1. /\ agent'.inbox = Tail(agent.inbox) /\ agent.inbox # <<>> /\ agent'.turn = agent.turn
        /\ agent'.status = agent.status /\ agent'.maintenance = agent.maintenance
        /\ UNCHANGED <<pc, slot, inflight, missed>>
    BY <1>0, <1>9 DEF Remove, Driver
  <2>2. Resting' /\ \A p \in Prompt : (~Waits(p) => ~Waits(p)') /\ (Over(p) => agent'.turn # p)
    BY <1>0, <1>3, <2>1 DEF Over, Resting, Quiet
  <2> QED  BY <1>1, <2>1, <2>2, NoMoreOver
<1>10. CASE Rest
  <2>1. /\ agent'.inbox = agent.inbox /\ agent'.turn = Nobody /\ agent.turn = Nobody
        /\ agent'.status = IF agent.inbox = <<>> THEN "idle" ELSE "running"
        /\ agent'.maintenance = agent.maintenance /\ agent.status = "running"
        /\ UNCHANGED <<pc, slot, missed>>
    BY <1>0, <1>10 DEF Rest, Driver
  <2>2. Resting' /\ \A p \in Prompt : (~Waits(p) => ~Waits(p)') /\ (Over(p) => agent'.turn # p)
    BY <1>0, <2>1 DEF Waits, Over, Resting, Quiet
  <2> DEFINE h == Heard(inflight, "idle")
  <2>3. /\ h \in Record /\ Same(inflight, h) /\ h.startedIdle = inflight.startedIdle
        /\ h.idle = inflight.idle /\ h.cancel = inflight.cancel
        /\ h.done # Pending => inflight.done # Pending \/ inflight.aborted
    BY <1>0, HeardSame, HeardFields DEF Same
  <2>4. inflight' = IF agent.inbox = <<>> THEN AtRest(h) ELSE h
    BY <1>10 DEF Rest
  <2> HIDE DEF h
  <2>5. Kept(h) /\ Kept(AtRest(h)) /\ Same(inflight, AtRest(h))
    BY <1>0, <2>3, AtRestSame, AtRestFields DEF Kept, Same
  <2>6. Kept(inflight') /\ Same(inflight, inflight')
    BY <2>3, <2>4, <2>5
  <2>7. ASSUME slot # Nobody, Due(inflight') PROVE Gone'
    <3>1. CASE Due(inflight)
      BY <2>1, <2>2, <2>7, <3>1, StillGone
    <3>2. CASE agent.inbox = <<>>
      BY <2>1, <2>7, <3>2, AcpAssumption DEF Gone, Over, Waits, TypeOK, Prompt
    <3>3. CASE ~Due(inflight) /\ agent.inbox # <<>>
      <4>1. inflight.aborted
        BY <2>3, <2>4, <2>7, <3>3 DEF Due, Same
      <4>2. slot \in missed \/ ~Waits(slot)
        BY <2>7, <4>1 DEF OverInv, InFlight
      <4> QED  BY <2>1, <2>7, <4>2 DEF Gone, Over, Waits
    <3> QED  BY <3>1, <3>2, <3>3
  <2> QED  BY <2>1, <2>2, <2>6, <2>7, KeepsOver DEF Same
<1>11. CASE Maintain
  <2>1. /\ agent'.inbox = agent.inbox /\ agent'.turn = agent.turn
        /\ agent'.status = agent.status /\ agent'.maintenance /\ Quiet
        /\ UNCHANGED <<pc, slot, inflight, missed>>
    BY <1>0, <1>11 DEF Maintain, Driver
  <2>2. Resting' /\ \A p \in Prompt : (~Waits(p) => ~Waits(p)') /\ (Over(p) => agent'.turn # p)
    BY <1>0, <2>1 DEF Over, Waits, Resting, Quiet
  <2> QED  BY <1>1, <2>1, <2>2, NoMoreOver
<1>12. CASE Maintained
  <2>1. /\ agent'.inbox = agent.inbox /\ agent'.turn = agent.turn /\ agent.turn = Nobody
        /\ agent'.status = IF agent.inbox = <<>> THEN "idle" ELSE "running"
        /\ ~agent'.maintenance /\ UNCHANGED <<pc, slot, missed>>
    BY <1>0, <1>12 DEF Maintained, Driver, Resting
  <2>2. Resting' /\ \A p \in Prompt : (~Waits(p) => ~Waits(p)') /\ (Over(p) => agent'.turn # p)
    BY <1>0, <2>1 DEF Over, Waits, Resting, Quiet
  <2>3. CASE agent.inbox = <<>>
    <3>1. inflight' = AtRest(inflight)
      BY <1>12, <2>3 DEF Maintained
    <3>2. Kept(inflight') /\ Same(inflight, inflight')
      BY <1>0, <3>1, AtRestSame, AtRestFields DEF Kept, Same
    <3>3. slot # Nobody => Gone'
      BY <2>1, <2>3, AcpAssumption DEF Gone, Over, Waits, TypeOK, Prompt
    <3> QED  BY <2>1, <2>2, <3>2, <3>3, KeepsOver DEF Same
  <2>4. CASE agent.inbox # <<>>
    <3>1. inflight' = Heard(inflight, "running")
      BY <1>12, <2>4 DEF Maintained
    <3>2. /\ Same(inflight, inflight') /\ inflight'.startedIdle = inflight.startedIdle
          /\ inflight'.idle = inflight.idle /\ inflight'.cancel = inflight.cancel
          /\ inflight'.done # Pending => inflight.done # Pending \/ inflight.startedIdle
      BY <1>0, <3>1, HeardSame, HeardFields
    <3>3. Kept(inflight') /\ (Due(inflight') => Due(inflight))
      BY <1>0, <3>2 DEF Kept, Due, Same
    <3>4. slot # Nobody /\ Due(inflight') => Gone'
      BY <2>1, <2>2, <3>3, StillGone
    <3> QED  BY <2>1, <2>2, <3>2, <3>3, <3>4, KeepsOver DEF Same
  <2> QED  BY <2>3, <2>4
<1>13. CASE Delegate \/ ChildEnds
  <2>1. /\ agent'.inbox = agent.inbox /\ agent'.turn = agent.turn
        /\ agent'.status = agent.status /\ agent'.maintenance = agent.maintenance
        /\ UNCHANGED <<pc, slot, missed>> /\ (inflight' = inflight \/ inflight' = Logged(inflight))
    BY <1>0, <1>13 DEF Delegate, ChildEnds, Driver
  <2>2. Resting' /\ \A p \in Prompt : (~Waits(p) => ~Waits(p)') /\ (Over(p) => agent'.turn # p)
    BY <1>0, <2>1 DEF Over, Waits, Resting, Quiet
  <2> QED  BY <1>1, <2>1, <2>2, NoMoreOver
<1>14. CASE Vanish
  <2>1. /\ agent'.inbox = <<>> /\ agent'.turn = agent.turn
        /\ agent'.status = agent.status /\ agent'.maintenance = agent.maintenance
        /\ UNCHANGED <<pc, slot, inflight, missed>>
    BY <1>0, <1>14, AgentTypes DEF Vanish, Driver
  <2>2. Resting' /\ \A p \in Prompt : (~Waits(p) => ~Waits(p)') /\ (Over(p) => agent'.turn # p)
    BY <1>0, <2>1 DEF Over, Waits, Resting, Quiet
  <2> QED  BY <1>1, <2>1, <2>2, NoMoreOver
<1>15. CASE Deliver
  <2>1. PICK fails \in BOOLEAN : inflight' = Delivered(fails)
    BY <1>15 DEF Deliver, Delivered
  <2>2. NoMoreDue(inflight, inflight')
    BY <2>1, DeliveredType DEF NoMoreDue
  <2>3. UNCHANGED <<pc, slot, agent, missed>>
    BY <1>15 DEF Deliver
  <2>4. Resting' /\ \A p \in Prompt : (~Waits(p) => ~Waits(p)') /\ (Over(p) => agent'.turn # p)
    BY <1>0, <2>3 DEF Over, Waits, Resting, Quiet
  <2> QED  BY <2>2, <2>3, <2>4, NoMoreOver
<1>16. CASE CancelDone
  <2> DEFINE q == Resolved(inflight, Len(out))
  <2>1. inflight' = [q EXCEPT !.cancel = "none"] /\ inflight.cancel = "met"
        /\ UNCHANGED <<pc, slot, agent, missed>>
    BY <1>16 DEF CancelDone
  <2>2. Same(inflight, q) /\ q.startedIdle = inflight.startedIdle /\ q.idle = inflight.idle
    BY <1>0, ResolvedSame DEF Resolved, Record
  <2> HIDE DEF q
  <2>3. /\ Same(inflight, inflight') /\ inflight'.startedIdle = inflight.startedIdle
        /\ inflight'.idle = inflight.idle /\ inflight'.cancel = "none"
    BY <2>1, <2>2 DEF Same, Record, Awaited
  <2>4. Kept(inflight') /\ Due(inflight)
    BY <1>0, <2>1, <2>3 DEF Kept, Due, Same
  <2>5. Resting' /\ \A p \in Prompt : (~Waits(p) => ~Waits(p)') /\ (Over(p) => agent'.turn # p)
    BY <1>0, <2>1 DEF Over, Waits, Resting, Quiet
  <2>6. slot # Nobody => Gone'
    BY <2>1, <2>4, <2>5, StillGone
  <2> QED  BY <2>1, <2>3, <2>4, <2>5, <2>6, KeepsOver DEF Same
<1> QED
  BY <1>4, <1>5, <1>6, <1>7, <1>8, <1>9, <1>10, <1>11, <1>12, <1>13, <1>14, <1>15, <1>16
  DEF AgentMust, AgentMay

\* Steps of the session that leave the Agent alone, or stop it: who is over stays over.
Undisturbed ==
  /\ agent'.turn = agent.turn
  /\ agent'.inbox = agent.inbox \/ agent'.inbox = <<>>
  /\ agent'.status = agent.status /\ agent'.maintenance = agent.maintenance

LEMMA UndisturbedOver ==
  ASSUME OverInv, Undisturbed
  PROVE  /\ Resting'
         /\ \A p \in Prompt : (~Waits(p) => ~Waits(p)') /\ (Over(p) => Over(p)')
BY DEF OverInv, Undisturbed, Over, Waits, Resting, Quiet

LEMMA StopUndisturbed ==
  ASSUME TypeOK
  PROVE  /\ agent' = agent \/ agent' = Stopped(agent) => Undisturbed
         /\ agent' = [agent EXCEPT !.children = FALSE] => Undisturbed
         /\ agent' = [Stopped(agent) EXCEPT !.gone = TRUE] => Undisturbed
BY AgentTypes DEF Undisturbed, TypeOK, Driver

\* At rest, the Agent has neither the turn of a prompt nor its message.
LEMMA QuietOver ==
  ASSUME OverInv, Quiet
  PROVE  \A p \in Prompt : Over(p)
BY AcpAssumption DEF OverInv, Resting, Quiet, Over, Waits, Prompt

LEMMA AnsweredOver ==
  ASSUME OverInv
  PROVE  \A p \in Prompt : Answered(p) /\ p \notin missed => Over(p)
BY DEF OverInv, AnsweredIsOver, Over, Waits

LEMMA CallOverInv ==
  ASSUME TypeOK, RestInv, OverInv, NEW p \in Prompt, Call(p)
  PROVE  OverInv'
<1>1. pc[p] = "idle" /\ UNCHANGED <<inflight, agent, missed>>
  BY DEF Call
<1>2. \/ slot = Nobody /\ slot' = p /\ pc' = [pc EXCEPT ![p] = "admitting"]
      \/ slot' = slot /\ pc' = [pc EXCEPT ![p] = "refused"]
  BY DEF Call, Goto
<1>3. Over(p) /\ (slot # Nobody => slot \in Prompt /\ slot # p) /\ Nobody \notin Prompt
  BY <1>1, AcpAssumption DEF OverInv, Unsent, RestInv, SlotOwned, Live, Prompt, TypeOK
<1>4. Resting' /\ \A q \in Prompt : (Over(q)' <=> Over(q)) /\ (Waits(q)' <=> Waits(q))
  BY <1>1 DEF OverInv, Resting, Quiet, Over, Waits
<1>5. Unsent'
  BY <1>2, <1>3, <1>4 DEF OverInv, Unsent, TypeOK
<1>6. AnsweredIsOver'
  <2>1. \A q \in Prompt : Answered(q)' => q = p \/ Answered(q)
    BY <1>2 DEF Answered, TypeOK
  <2>2. \A q \in Prompt : Answered(q)' /\ q \notin missed' => Over(q)'
    BY <1>1, <1>3, <1>4, <2>1, AnsweredOver
  <2> QED  BY <2>2 DEF AnsweredIsOver, Over, Waits
<1>7. InFlight'
  <2>1. CASE slot = Nobody /\ slot' = p /\ pc' = [pc EXCEPT ![p] = "admitting"]
    <3>1. pc'[p] = "admitting" /\ p \in Prompt
      BY <2>1 DEF TypeOK
    <3> QED
      BY <1>1, <1>3, <1>4, <2>1, <3>1 DEF OverInv, InFlight, Gone
  <2>2. CASE slot' = slot /\ pc' = [pc EXCEPT ![p] = "refused"]
    <3>1. slot # Nobody => pc'[slot] = pc[slot]
      BY <1>3, <2>2 DEF TypeOK
    <3> QED
      BY <1>1, <1>3, <1>4, <2>2, <3>1 DEF OverInv, InFlight, Gone
  <2> QED  BY <1>2, <2>1, <2>2
<1> QED  BY <1>4, <1>5, <1>6, <1>7 DEF OverInv

LEMMA NotQueuedOverInv ==
  ASSUME TypeOK, RestInv, OverInv, NEW p \in Prompt, pc[p] \in {"admitting", "routing"},
         NotQueued(p), UNCHANGED <<agent, missed>>
  PROVE  OverInv'
<1>0. /\ p = slot /\ slot # Nobody /\ inflight \in Record /\ Over(p) /\ Nobody \notin Prompt
      /\ Kept(inflight)
  BY AcpAssumption DEF RestInv, SlotOwned, TypeOK, Live, Prompt, OverInv, Unsent, InFlight
<1>1. PICK label \in {"awaiting", "refused"} : pc' = [pc EXCEPT ![p] = label]
  BY DEF NotQueued, Goto
<1>2. Resting' /\ \A q \in Prompt : (Over(q)' <=> Over(q)) /\ (Waits(q)' <=> Waits(q))
  BY DEF OverInv, Resting, Quiet, Over, Waits
<1>3. Unsent'
  BY <1>1, <1>2 DEF OverInv, Unsent, TypeOK
<1>4. AnsweredIsOver'
  <2>1. \A q \in Prompt : Answered(q)' => q = p \/ Answered(q)
    BY <1>1 DEF Answered, TypeOK
  <2>2. \A q \in Prompt : Answered(q)' /\ q \notin missed' => Over(q)'
    BY <1>0, <1>2, <2>1, AnsweredOver
  <2> QED  BY <2>2 DEF AnsweredIsOver, Over, Waits
<1>5. InFlight'
  <2>1. CASE inflight.aborted
    <3> DEFINE q == Settling(inflight)
    <3>1. /\ inflight' = [q EXCEPT !.admitted = TRUE, !.queued = FALSE]
          /\ pc' = [pc EXCEPT ![p] = "awaiting"] /\ slot' = slot
      BY <2>1 DEF NotQueued, Goto
    <3>2. q \in Record /\ q.aborted = inflight.aborted
      BY <1>0, SettlingType
    <3> HIDE DEF q
    <3>3. inflight'.admitted /\ inflight'.aborted
      BY <2>1, <3>1, <3>2 DEF Record
    <3>4. Gone' /\ ~Waits(slot)' /\ pc'[slot] = "awaiting"
      BY <1>0, <1>2, <3>1 DEF Gone, Over, TypeOK
    <3> QED  BY <1>0, <3>1, <3>3, <3>4 DEF InFlight, Kept
  <2>2. CASE ~inflight.aborted
    BY <2>2 DEF NotQueued, InFlight, Kept, Fresh
  <2> QED  BY <2>1, <2>2
<1> QED  BY <1>2, <1>3, <1>4, <1>5 DEF OverInv

LEMMA AdmitOverInv ==
  ASSUME TypeOK, RestInv, OverInv, NEW p \in Prompt, Admit(p)
  PROVE  OverInv'
<1>1. CASE NotQueued(p)
  BY <1>1, NotQueuedOverInv DEF Admit
<1>2. CASE ~NotQueued(p)
  <2>0. /\ inflight' = [inflight EXCEPT !.queued = TRUE] /\ ~inflight.aborted
        /\ pc' = [pc EXCEPT ![p] = "routing"] /\ UNCHANGED <<slot, agent, missed>>
        /\ pc[p] = "admitting"
    BY <1>2 DEF Admit, Goto
  <2>1. p = slot /\ slot # Nobody /\ inflight \in Record
    BY <2>0, AcpAssumption DEF RestInv, SlotOwned, TypeOK, Live, Prompt
  <2>2. /\ inflight'.settle = inflight.settle /\ inflight'.aborted = inflight.aborted
        /\ inflight'.admitted = inflight.admitted /\ inflight'.done = inflight.done
        /\ inflight'.startedIdle = inflight.startedIdle
        /\ inflight'.idle = inflight.idle /\ inflight'.cancel = inflight.cancel
    BY <2>0, <2>1 DEF Record
  <2>3. Resting' /\ \A q \in Prompt : (Over(q)' <=> Over(q)) /\ (Waits(q)' <=> Waits(q))
    BY <2>0 DEF OverInv, Resting, Quiet, Over, Waits
  <2>4. Unsent'
    BY <2>0, <2>3 DEF OverInv, Unsent, TypeOK
  <2>5. AnsweredIsOver'
    <3>1. \A q \in Prompt : Answered(q)' => Answered(q)
      BY <2>0 DEF Answered, Answer, TypeOK
    <3>2. \A q \in Prompt : Answered(q)' /\ q \notin missed' => Over(q)'
      BY <2>0, <2>3, <3>1, AnsweredOver
    <3> QED  BY <3>2 DEF AnsweredIsOver, Over, Waits
  <2>6. InFlight'
    <3>1. Kept(inflight') /\ (Due(inflight') => Due(inflight))
      BY <2>0, <2>2 DEF OverInv, InFlight, Kept, Due
    <3>2. Gone => Gone'
      BY <2>0, <2>1, <2>3 DEF Gone
    <3>3. pc[slot] = "admitting" /\ pc'[slot] = "routing"
      BY <2>0, <2>1 DEF TypeOK
    <3> QED  BY <2>0, <2>1, <2>2, <3>1, <3>2, <3>3 DEF OverInv, InFlight
  <2> QED  BY <2>3, <2>4, <2>5, <2>6 DEF OverInv
<1> QED  BY <1>1, <1>2

LEMMA QueueOverInv ==
  ASSUME TypeOK, RestInv, OverInv, NEW p \in Prompt, Queue(p)
  PROVE  OverInv'
<1>1. CASE agent.gone
  BY <1>1, NotQueuedOverInv DEF Queue
<1>2. CASE ~agent.gone
  <2> DEFINE h == Started(inflight)
             q == Settling(h)
  <2>0. /\ inflight' = [q EXCEPT !.admitted = TRUE] /\ Followup(p) /\ pc[p] = "routing"
        /\ pc' = [pc EXCEPT ![p] = "awaiting"] /\ UNCHANGED <<slot, missed>>
    BY <1>2 DEF Queue, Goto
  <2>1. /\ p = slot /\ slot # Nobody /\ inflight \in Record /\ ~inflight.admitted
        /\ inflight.queued /\ Kept(inflight) /\ pc[slot] = "routing"
        /\ inflight.aborted => slot \in missed
    BY <2>0, AcpAssumption DEF RestInv, SlotOwned, Routed, TypeOK, Live, Prompt, OverInv, InFlight
  <2>2. /\ agent'.inbox = Append(agent.inbox, p) /\ agent'.turn = agent.turn
        /\ agent'.maintenance = agent.maintenance
        /\ agent'.status = IF Quiet THEN "running" ELSE agent.status
    BY <2>0, FollowupType DEF Message
  <2>3. agent.inbox \in Seq(Message) /\ agent' \in Driver
    BY <2>0, FollowupType DEF TypeOK, Driver, Message
  <2>4. \A r \in Prompt \ {p} : (~Waits(r) => ~Waits(r)') /\ (Over(r) => Over(r)')
    BY <2>2, <2>3, InboxFacts DEF Waits, Over, Message
  <2>5. Resting'
    <3>1. ~Quiet'
      BY <2>2 DEF Quiet
    <3> QED  BY <2>2, <3>1 DEF OverInv, Resting, Quiet
  <2>6. Unsent'
    BY <2>0, <2>4 DEF OverInv, Unsent, TypeOK
  <2>7. AnsweredIsOver'
    <3>1. \A r \in Prompt : Answered(r)' => Answered(r) /\ r # p
      BY <2>0 DEF Answered, Answer, TypeOK
    <3>2. \A r \in Prompt : Answered(r)' /\ r \notin missed' => Over(r)'
      BY <2>0, <2>4, <3>1, AnsweredOver
    <3> QED  BY <3>2 DEF AnsweredIsOver, Over, Waits
  <2>8. /\ Same(inflight, h) /\ h.startedIdle = inflight.startedIdle
        /\ h.idle = inflight.idle /\ h.cancel = inflight.cancel
        /\ h.done # Pending => inflight.done # Pending \/ inflight.startedIdle
    <3>1. CASE Quiet
      BY <2>1, <3>1, HeardSame, HeardFields DEF Started
    <3>2. CASE ~Quiet
      BY <2>1, <3>2 DEF Started, Same
    <3> QED  BY <3>1, <3>2
  <2> HIDE DEF h
  <2>9. /\ q \in Record /\ q.startedIdle = inflight.startedIdle /\ q.idle = inflight.idle
        /\ q.settle = (IF inflight.settle = "none" THEN "admission" ELSE inflight.settle)
        /\ q.cancel = inflight.cancel /\ q.aborted = inflight.aborted
        /\ q.queued = inflight.queued
        /\ q.done # Pending => inflight.done # Pending \/ inflight.startedIdle
    BY <2>8, SettlingType, SettlingFields DEF Same
  <2> HIDE DEF q
  <2>10. /\ inflight'.startedIdle = inflight.startedIdle /\ inflight'.idle = inflight.idle
         /\ inflight'.settle = (IF inflight.settle = "none" THEN "admission" ELSE inflight.settle)
         /\ inflight'.cancel = inflight.cancel /\ inflight'.aborted = inflight.aborted
         /\ inflight'.queued = inflight.queued /\ inflight'.admitted
         /\ inflight'.done # Pending => inflight.done # Pending \/ inflight.startedIdle
    BY <2>0, <2>9 DEF Record
  <2>11. Due(inflight') => slot' \in missed'
    BY <2>0, <2>1, <2>10 DEF Due, Kept
  <2>12. Kept(inflight')
    BY <2>1, <2>10 DEF Kept
  <2>13. InFlight'
    <3>1. pc'[slot] = "awaiting"
      BY <2>0, <2>1 DEF TypeOK
    <3> QED  BY <2>0, <2>1, <2>10, <2>11, <2>12, <3>1 DEF InFlight, Gone
  <2> QED  BY <2>5, <2>6, <2>7, <2>13 DEF OverInv
<1> QED  BY <1>1, <1>2

LEMMA RequestOverInv ==
  ASSUME TypeOK, RestInv, OverInv, Cancel \/ Close
  PROVE  OverInv'
<1> USE DEF teardown
<1>0. /\ Request /\ UNCHANGED <<pc, slot>> /\ Kept(inflight) /\ inflight \in Record
      /\ agent' = agent \/ agent' = Stopped(agent)
      /\ slot # Nobody /\ inflight.queued => agent' = Stopped(agent)
  BY DEF Cancel, Close, OverInv, InFlight, TypeOK
<1>1. Undisturbed
  BY <1>0, StopUndisturbed
<1>2. Resting' /\ \A p \in Prompt : (~Waits(p) => ~Waits(p)') /\ (Over(p) => Over(p)')
  BY <1>1, UndisturbedOver
<1>3. missed \subseteq missed'
  BY <1>0 DEF Request
<1>4. Unsent'
  BY <1>0, <1>2 DEF OverInv, Unsent
<1>5. AnsweredIsOver'
  <2>1. \A p \in Prompt : Answered(p)' /\ p \notin missed' => Over(p)'
    BY <1>0, <1>2, <1>3, AnsweredOver DEF Answered
  <2> QED  BY <2>1 DEF AnsweredIsOver, Over, Waits
<1>6. InFlight'
  <2>1. CASE slot = Nobody
    BY <1>0, <2>1 DEF Request, OverInv, InFlight
  <2>2. CASE slot # Nobody
    <3>0. slot \in Prompt /\ slot' = slot
      BY <1>0, <2>2 DEF TypeOK
    <3>1. /\ inflight' = Requested(inflight)
          /\ missed' = IF pc[slot] = "routing" THEN missed \cup {slot} ELSE missed
      BY <1>0, <2>2 DEF Request
    <3>2. /\ inflight'.aborted
          /\ inflight'.settle = IF inflight.settle = "none" THEN "admission" ELSE inflight.settle
          /\ inflight'.queued = inflight.queued /\ inflight'.admitted = inflight.admitted
          /\ inflight'.idle = inflight.idle
          /\ inflight'.done = IF inflight.queued \/ inflight.done # Pending THEN inflight.done
                              ELSE 0
          /\ inflight'.startedIdle <=> IF inflight.aborted THEN inflight.startedIdle
                                       ELSE agent.status = "idle"
          /\ inflight'.cancel = IF inflight.queued /\ ~inflight.aborted THEN WhenIdle
                                ELSE inflight.cancel
      BY <3>1, RequestedType
    <3>3. Kept(inflight')
      BY <1>0, <3>2 DEF Kept
    <3>4. Gone => Gone'
      BY <1>2, <1>3, <3>0 DEF Gone
    <3>5. ~inflight.queued => Gone
      <4>1. CASE ~inflight.admitted
        BY <2>2, <3>0, <4>1 DEF OverInv, InFlight, Unsent, Gone
      <4>2. CASE inflight.admitted /\ ~inflight.queued
        BY <2>2, <4>2 DEF RestInv, Rounds, OverInv, InFlight, Due
      <4> QED  BY <4>1, <4>2
    <3>6. inflight.queued /\ agent.status = "idle" => Over(slot)'
      <4>1. inflight.queued => agent'.inbox = <<>>
        BY <1>0, <2>2, AgentTypes DEF TypeOK
      <4> QED
        BY <1>1, <3>0, <4>1, AcpAssumption DEF OverInv, Resting, Undisturbed, Over, Waits, Prompt
    <3>7. Due(inflight') => Gone'
      <4>1. CASE ~inflight.queued
        BY <3>4, <3>5, <4>1
      <4>2. CASE Due(inflight)
        BY <2>2, <3>4, <4>2 DEF OverInv, InFlight
      <4>3. CASE inflight.queued /\ ~Due(inflight)
        <5>1. Due(inflight') => agent.status = "idle"
          BY <3>2, <4>3 DEF Due, WhenIdle, Quiet
        <5> QED  BY <3>0, <3>6, <4>3, <5>1 DEF Gone
      <4> QED  BY <4>1, <4>2, <4>3
    <3>8. slot' \in missed' \/ ~Waits(slot)'
      <4>1. CASE ~inflight.queued
        BY <3>0, <3>4, <3>5, <4>1 DEF Gone, Over
      <4>2. CASE inflight.queued
        <5>1. agent'.inbox = <<>>
          BY <1>0, <2>2, <4>2, AgentTypes DEF TypeOK
        <5> QED  BY <5>1 DEF Waits
      <4> QED  BY <4>1, <4>2
    <3>9. pc[slot] = "routing" => slot \in missed'
      BY <3>1
    <3> QED
      BY <1>0, <2>2, <3>0, <3>2, <3>3, <3>7, <3>8, <3>9 DEF OverInv, InFlight
  <2> QED  BY <2>1, <2>2
<1> QED  BY <1>2, <1>4, <1>5, <1>6 DEF OverInv

LEMMA SettleOverInv ==
  ASSUME TypeOK, RestInv, OverInv, SettleStep
  PROVE  OverInv'
<1>0. /\ inflight \in Record /\ slot # Nobody /\ slot \in Prompt /\ Kept(inflight)
      /\ UNCHANGED <<agent, missed>> /\ Nobody \notin Prompt
  BY SettleHeld, AcpAssumption DEF TypeOK, OverInv, InFlight, SettleStep, SettleAdmitted, SettleIdle,
    SettleChildren, SettleOutput, SettleCancelled, Prompt
<1>1. Resting' /\ \A p \in Prompt : (Over(p)' <=> Over(p)) /\ (Waits(p)' <=> Waits(p))
  BY <1>0 DEF OverInv, Resting, Quiet, Over, Waits
<1>2. Due(inflight) => Gone
  BY <1>0 DEF OverInv, InFlight
<1>3. ASSUME Finish, Gone PROVE OverInv'
  <2>1. /\ pc' = [pc EXCEPT ![slot] = Outcome] /\ Outcome \in Answer
        /\ slot' = Nobody /\ inflight' = Fresh
    BY <1>3 DEF Finish, Goto, Outcome, Answer
  <2>2. Unsent'
    BY <1>0, <1>1, <2>1 DEF OverInv, Unsent, TypeOK, Answer
  <2>3. AnsweredIsOver'
    <3>1. \A p \in Prompt : Answered(p)' => p = slot \/ Answered(p)
      BY <2>1 DEF Answered, TypeOK
    <3>2. \A p \in Prompt : Answered(p)' /\ p \notin missed' => Over(p)'
      BY <1>0, <1>1, <1>3, <3>1, AnsweredOver DEF Gone
    <3> QED  BY <3>2 DEF AnsweredIsOver, Over, Waits
  <2>4. InFlight'
    BY <2>1 DEF InFlight, Kept, Fresh
  <2> QED  BY <1>1, <2>2, <2>3, <2>4 DEF OverInv
<1>4. ASSUME Stay, Kept(inflight'), Due(inflight') => Gone,
             inflight'.aborted = inflight.aborted, inflight'.admitted = inflight.admitted
      PROVE  OverInv'
  <2>1. Unsent' /\ UNCHANGED <<pc, slot>>
    BY <1>1, <1>4 DEF OverInv, Unsent, Stay
  <2>2. AnsweredIsOver'
    <3>1. \A p \in Prompt : Answered(p)' /\ p \notin missed' => Over(p)'
      BY <1>0, <1>1, <2>1, AnsweredOver DEF Answered
    <3> QED  BY <3>1 DEF AnsweredIsOver, Over, Waits
  <2>3. InFlight'
    BY <1>0, <1>1, <1>4, <2>1 DEF OverInv, InFlight, Gone
  <2> QED  BY <1>1, <2>1, <2>2, <2>3 DEF OverInv
<1>5. ASSUME Round, Stay, inflight.admitted PROVE OverInv'
  <2>1. /\ inflight'.settle = "idle" /\ inflight'.queued = inflight.queued
        /\ inflight'.admitted = inflight.admitted /\ inflight'.aborted = inflight.aborted
        /\ inflight'.done = inflight.done /\ inflight'.startedIdle = inflight.startedIdle
        /\ inflight'.cancel = inflight.cancel /\ inflight'.idle = WhenIdle
    BY <1>0, <1>5 DEF Round, Record
  <2>2. Kept(inflight')
    BY <1>0, <1>5, <2>1 DEF Kept
  <2>3. Due(inflight') => Gone
    <3>1. CASE Quiet
      BY <1>0, <3>1, QuietOver DEF Gone
    <3>2. CASE ~Quiet
      BY <1>2, <2>1, <3>2 DEF Due, WhenIdle
    <3> QED  BY <3>1, <3>2
  <2> QED  BY <1>4, <1>5, <2>1, <2>2, <2>3
<1>6. ASSUME LeaveRounds, Stay, inflight.admitted PROVE OverInv'
  <2>1. /\ inflight'.settle = "cancelled" /\ inflight'.queued = inflight.queued
        /\ inflight'.admitted = inflight.admitted /\ inflight'.aborted = inflight.aborted
        /\ inflight'.done = inflight.done /\ inflight'.startedIdle = inflight.startedIdle
        /\ inflight'.cancel = inflight.cancel /\ inflight'.idle = "none"
    BY <1>0, <1>6 DEF LeaveRounds, Record, Awaited
  <2>2. Kept(inflight') /\ (Due(inflight') => Due(inflight))
    BY <1>0, <1>6, <2>1 DEF Kept, Due
  <2> QED  BY <1>2, <1>4, <1>6, <2>1, <2>2
<1>7. CASE SettleAdmitted
  <2>1. CASE inflight.queued
    BY <1>5, <1>7, <2>1 DEF SettleAdmitted
  <2>2. CASE ~inflight.queued
    <3>1. Due(inflight) /\ Finish
      BY <1>7, <2>2 DEF SettleAdmitted, RestInv, Rounds, Due
    <3> QED  BY <1>2, <1>3, <3>1
  <2> QED  BY <2>1, <2>2
<1>8. CASE SettleIdle
  <2>1. inflight.admitted /\ Due(inflight)
    BY <1>0, <1>8, AcpAssumption DEF SettleIdle, Kept, Due, Cancelled
  <2>2. CASE inflight.aborted
    BY <1>6, <1>8, <2>1, <2>2 DEF SettleIdle
  <2>3. CASE ~inflight.aborted
    <3>1. /\ inflight'.admitted = inflight.admitted /\ inflight'.aborted = inflight.aborted
          /\ inflight'.done = inflight.done /\ inflight'.startedIdle = inflight.startedIdle
          /\ inflight'.cancel = inflight.cancel
      <4>1. inflight' = [inflight EXCEPT !.settle = IF agent.children THEN "children" ELSE "alone",
                                         !.idle = "none", !.moved = FALSE]
        BY <1>8, <2>3 DEF SettleIdle
      <4> QED  BY <1>0, <4>1 DEF Record
    <3>2. Kept(inflight')
      BY <1>0, <2>1, <3>1 DEF Kept
    <3> QED  BY <1>2, <1>4, <1>8, <2>1, <3>1, <3>2 DEF SettleIdle
  <2> QED  BY <2>2, <2>3
<1>9. CASE SettleChildren
  <2>1. inflight.admitted /\ Due(inflight)
    BY <1>0, <1>9 DEF SettleChildren, Kept, Due
  <2>2. CASE inflight' = [inflight EXCEPT !.settle = "output", !.want = Len(out)]
    <3>1. /\ inflight'.admitted = inflight.admitted /\ inflight'.aborted = inflight.aborted
          /\ inflight'.done = inflight.done /\ inflight'.startedIdle = inflight.startedIdle
          /\ inflight'.cancel = inflight.cancel
      BY <1>0, <2>2 DEF Record
    <3>2. Kept(inflight')
      BY <1>0, <2>1, <3>1 DEF Kept
    <3> QED  BY <1>2, <1>4, <1>9, <2>1, <3>1, <3>2 DEF SettleChildren
  <2> QED  BY <1>5, <1>6, <1>9, <2>1, <2>2 DEF SettleChildren
<1>10. CASE SettleOutput
  <2>1. inflight.admitted /\ Due(inflight)
    BY <1>0, <1>10 DEF SettleOutput, Kept, Due
  <2> QED  BY <1>2, <1>3, <1>5, <1>6, <1>10, <2>1 DEF SettleOutput
<1>11. CASE SettleCancelled
  <2>1. Due(inflight) /\ Finish
    BY <1>11, AcpAssumption DEF SettleCancelled, Cancelled, Due
  <2> QED  BY <1>2, <1>3, <2>1
<1> QED  BY <1>7, <1>8, <1>9, <1>10, <1>11 DEF SettleStep

LEMMA NextOverInv ==
  ASSUME TypeOK, RestInv, OverInv, [Next]_vars
  PROVE  OverInv'
<1> USE DEF teardown
<1>0. Kept(inflight)
  BY DEF OverInv, InFlight
<1>1. ASSUME UNCHANGED <<pc, slot, inflight, missed>>, Undisturbed PROVE OverInv'
  <2>1. Resting' /\ \A p \in Prompt : (~Waits(p) => ~Waits(p)') /\ (Over(p) => agent'.turn # p)
    BY <1>1, UndisturbedOver DEF Over
  <2>2. NoMoreDue(inflight, inflight')
    BY <1>1 DEF NoMoreDue
  <2> QED  BY <1>1, <2>1, <2>2, NoMoreOver
<1>2. CASE AgentMust \/ AgentMay \/ Maintained \/ ChildEnds \/ Deliver \/ CancelDone
  BY <1>2, AgentOverInv
<1>3. CASE SettleStep
  BY <1>3, SettleOverInv
<1>4. CASE Cancel \/ Close
  BY <1>4, RequestOverInv
<1>5. CASE CloseStep
  <2>1. /\ UNCHANGED <<pc, slot, inflight, missed>>
        /\ \/ agent' = agent \/ agent' = [agent EXCEPT !.children = FALSE]
           \/ agent' = [Stopped(agent) EXCEPT !.gone = TRUE]
    BY <1>5 DEF CloseStep, CloseAdmitted, CloseIdle, CloseDrain, CloseDispose
  <2> QED  BY <1>1, <2>1, StopUndisturbed
<1>6. ASSUME NEW p \in Prompt, Call(p) \/ Admit(p) \/ Queue(p) PROVE OverInv'
  BY <1>6, CallOverInv, AdmitOverInv, QueueOverInv
<1>7. CASE UNCHANGED vars
  BY <1>1, <1>7, StopUndisturbed DEF vars
<1> QED  BY <1>2, <1>3, <1>4, <1>5, <1>6, <1>7 DEF Next

\* For any number of prompts: an answered prompt has left the Agent for good, unless it was
\* cancelled while its message was being routed.
THEOREM AnswerIsFinal == Spec => []AnsweredIsOver
<1>1. OverInv => AnsweredIsOver
  BY DEF OverInv
<1> QED
  BY <1>1, InitTypeOK, NextTypeOK, InitRestInv, NextRestInv, InitOverInv, NextOverInv, PTL DEF Spec

-----------------------------------------------------------------------------
(* The updates of a cancelled prompt *)

\* No update that waits is p's, or p's are among the first n.
Silent(p) == \A i \in DOMAIN out : out[i].by # p
Within(p, n) == \A i \in DOMAIN out : out[i].by = p => i <= n

\* A prompt whose message has not reached the Agent has no update on its way.
Unsaid == \A p \in Prompt : pc[p] \in {"idle", "admitting", "routing"} => Silent(p)

\* Nor has one that was never queued; the updates of a prompt whose cancellation is done,
\* or waits for n updates, are among those n.
Counted ==
  slot # Nobody /\ slot \notin missed =>
    /\ ~inflight.queued => Silent(slot)
    /\ inflight.done # Pending => Within(slot, inflight.done)

HeardInv == Unsaid /\ Counted

LEMMA InitHeardInv == Init => HeardInv
BY DEF Init, HeardInv, Unsaid, Counted, Silent

\* Sequences of updates: their domains, what an addition and a delivery do to them.
LEMMA OutFacts ==
  ASSUME NEW S, NEW q \in Seq(S)
  PROVE  /\ DOMAIN q = 1 .. Len(q) /\ Len(q) \in Nat
         /\ \A e \in S : \A i \in DOMAIN Append(q, e) :
              IF i \in DOMAIN q THEN Append(q, e)[i] = q[i] ELSE Append(q, e)[i] = e
         /\ q # <<>> => \A i \in DOMAIN Tail(q) :
              i + 1 \in DOMAIN q /\ Tail(q)[i] = q[i + 1] /\ i \in Nat \ {0}
OBVIOUS

\* Where the cancellation stands after the operators on records.
LEMMA HeardDone ==
  ASSUME NEW r \in Record, NEW s
  PROVE  Heard(r, s).done = r.done \/ Heard(r, s).done = Len(out)
BY DEF Heard, Resolved, Record

\* A step that adds no update and takes none, and at most starts to count those on the way.
LEMMA HeardKept ==
  ASSUME TypeOK, HeardInv, UNCHANGED <<pc, slot, out>>, missed \subseteq missed',
         inflight'.queued = inflight.queued,
         \/ inflight'.done = inflight.done \/ inflight'.done = Len(out)
         \/ inflight'.done = 0 /\ ~inflight.queued
  PROVE  HeardInv'
<1>1. Unsaid'
  BY DEF HeardInv, Unsaid, Silent
<1>2. \A p : Within(p, Len(out))
  BY OutFacts DEF Within, TypeOK
<1>3. \A p : Silent(p) => Within(p, 0)
  BY DEF Silent, Within
<1>4. Counted'
  BY <1>2, <1>3 DEF HeardInv, Counted, Silent, Within
<1> QED  BY <1>1, <1>4 DEF HeardInv

LEMMA AgentHeardInv ==
  ASSUME TypeOK, OverInv, RestInv, HeardInv,
         AgentMust \/ AgentMay \/ Maintained \/ ChildEnds \/ CancelDone
  PROVE  HeardInv'
<1> USE DEF teardown
<1>0. inflight \in Record /\ Len(out) \in Nat /\ agent \in Driver
  BY SeqFacts DEF TypeOK
<1>1. CASE WakeUp
  <2>1. inflight' = Started(inflight) /\ UNCHANGED <<pc, slot, out, missed>>
    BY <1>1 DEF WakeUp
  <2>2. Same(inflight, inflight')
    BY <1>0, <2>1, StartedSame
  <2>3. inflight'.done = inflight.done \/ inflight'.done = Len(out)
    BY <1>0, <2>1, HeardDone DEF Started
  <2> QED  BY <2>1, <2>2, <2>3, HeardKept DEF Same
<1>2. CASE StartTurn
  <2>1. Beside(Logged(inflight), inflight')
    BY <1>2, TurnStartedType DEF StartTurn, TurnStarted
  <2>2. inflight'.queued = inflight.queued /\ inflight'.done = inflight.done
    BY <1>0, <2>1, LoggedType, LoggedFields DEF Beside
  <2> QED  BY <1>2, <2>2, HeardKept DEF StartTurn
<1>3. CASE EndTurn
  <2>1. Beside(Logged(inflight), inflight')
    BY <1>3, TurnEndedType DEF EndTurn, TurnEnded
  <2>2. inflight'.queued = inflight.queued /\ inflight'.done = inflight.done
    BY <1>0, <2>1, LoggedType, LoggedFields DEF Beside
  <2> QED  BY <1>3, <2>2, HeardKept DEF EndTurn
<1>4. CASE Rest
  <2> DEFINE h == Heard(inflight, "idle")
  <2>1. h \in Record /\ h.queued = inflight.queued
    BY <1>0, HeardSame DEF Same
  <2>2. h.done = inflight.done \/ h.done = Len(out)
    BY <1>0, HeardDone
  <2>3. inflight' = h \/ inflight' = AtRest(h)
    BY <1>4 DEF Rest
  <2> HIDE DEF h
  <2>4. inflight'.queued = h.queued /\ inflight'.done = h.done
    BY <2>1, <2>3, AtRestSame, AtRestFields DEF Same
  <2> QED  BY <1>4, <2>1, <2>2, <2>4, HeardKept DEF Rest
<1>5. CASE Maintained
  <2>1. inflight' = AtRest(inflight) \/ inflight' = Heard(inflight, "running")
    BY <1>5 DEF Maintained
  <2>2. inflight'.queued = inflight.queued
    BY <1>0, <2>1, HeardSame, AtRestSame DEF Same
  <2>3. inflight'.done = inflight.done \/ inflight'.done = Len(out)
    BY <1>0, <2>1, HeardDone, AtRestFields
  <2> QED  BY <1>5, <2>2, <2>3, HeardKept DEF Maintained
<1>6. CASE FailTurn
  <2> DEFINE q == Settling(inflight)
  <2>1. q \in Record /\ q.queued = inflight.queued /\ q.done = inflight.done
    BY <1>0, SettlingType, SettlingFields
  <2>2. inflight' = inflight \/ inflight' = [q EXCEPT !.agentError = TRUE]
    BY <1>6 DEF FailTurn
  <2> HIDE DEF q
  <2>3. inflight'.queued = inflight.queued /\ inflight'.done = inflight.done
    BY <2>1, <2>2 DEF Record
  <2> QED  BY <1>6, <2>3, HeardKept DEF FailTurn
<1>7. CASE Remove \/ Maintain \/ Vanish \/ ChildEnds \/ Delegate
  <2>1. inflight' = inflight \/ inflight' = Logged(inflight)
    BY <1>7 DEF Remove, Maintain, Vanish, ChildEnds, Delegate
  <2>2. inflight'.queued = inflight.queued /\ inflight'.done = inflight.done
    BY <1>0, <2>1, LoggedType, LoggedFields
  <2>3. UNCHANGED <<pc, slot, out, missed>>
    BY <1>7 DEF Remove, Maintain, Vanish, ChildEnds, Delegate
  <2> QED  BY <2>2, <2>3, HeardKept
<1>8. CASE CancelDone
  <2> DEFINE q == Resolved(inflight, Len(out))
  <2>1. Same(inflight, q) /\ (q.done = inflight.done \/ q.done = Len(out))
    BY <1>0, ResolvedSame DEF Resolved, Record
  <2>2. inflight' = [q EXCEPT !.cancel = "none"]
    BY <1>8 DEF CancelDone
  <2> HIDE DEF q
  <2>3. /\ inflight'.queued = inflight.queued
        /\ inflight'.done = inflight.done \/ inflight'.done = Len(out)
    BY <2>1, <2>2 DEF Same, Record
  <2> QED  BY <1>8, <2>3, HeardKept DEF CancelDone
<1>9. CASE Update
  <2> DEFINE u == [by |-> agent.turn, for |-> IF inflight.claimed THEN slot ELSE Nobody]
             S == [by : Message, for : Prompt \cup {Nobody}]
  <2>1. out \in Seq(S) /\ u \in S /\ u.by = agent.turn
    BY <1>9 DEF TypeOK, Update, Driver
  <2>2. out' = Append(out, u) /\ UNCHANGED <<pc, slot, agent, missed>>
    BY <1>9 DEF Update
  <2> HIDE DEF u, S
  <2>3. \A i \in DOMAIN out' : IF i \in DOMAIN out THEN out'[i] = out[i] ELSE out'[i] = u
    BY <2>1, <2>2, OutFacts
  <2>4. ASSUME NEW p \in Prompt, Over(p), Silent(p) PROVE Silent(p)'
    BY <2>1, <2>3, <2>4 DEF Over, Silent
  <2>5. ASSUME NEW p \in Prompt, NEW n, Over(p), Within(p, n) PROVE Within(p, n)'
    BY <2>1, <2>3, <2>5 DEF Over, Within
  <2>6. Unsaid'
    BY <2>2, <2>4 DEF HeardInv, Unsaid, OverInv, Unsent
  <2>7. inflight'.queued = inflight.queued /\ inflight'.done = inflight.done
    BY <1>0, <1>9, LoggedType, LoggedFields DEF Update
  <2>8. ASSUME slot # Nobody, slot \notin missed, ~inflight.queued \/ inflight.done # Pending
        PROVE  Over(slot)
    <3>1. slot \in Prompt
      BY <2>8 DEF TypeOK
    <3>2. CASE inflight.admitted
      BY <2>8, <3>2 DEF RestInv, Rounds, OverInv, InFlight, Due, Gone
    <3>3. CASE ~inflight.admitted
      BY <2>8, <3>1, <3>3 DEF OverInv, InFlight, Unsent
    <3> QED  BY <3>2, <3>3
  <2>9. Counted'
    <3>1. slot # Nobody => slot \in Prompt
      BY DEF TypeOK
    <3>2. ASSUME slot # Nobody, slot \notin missed, ~inflight.queued PROVE Silent(slot)'
      BY <2>2, <2>4, <2>8, <3>1, <3>2 DEF HeardInv, Counted, Silent
    <3>3. ASSUME slot # Nobody, slot \notin missed, inflight.done # Pending
          PROVE  Within(slot, inflight.done)'
      BY <2>2, <2>5, <2>7, <2>8, <3>1, <3>3 DEF HeardInv, Counted
    <3> QED  BY <2>2, <2>7, <3>2, <3>3 DEF Counted
  <2> QED  BY <2>6, <2>9 DEF HeardInv
<1> QED
  BY <1>1, <1>2, <1>3, <1>4, <1>5, <1>6, <1>7, <1>8, <1>9 DEF AgentMust, AgentMay

\* A delivery takes the first of the updates, and one off the count.
LEMMA DeliverHeardInv ==
  ASSUME TypeOK, HeardInv, Deliver
  PROVE  HeardInv'
<1> DEFINE S == [by : Message, for : Prompt \cup {Nobody}]
<1>0. out \in Seq(S) /\ out # <<>> /\ out' = Tail(out) /\ UNCHANGED <<pc, slot, missed>>
  BY DEF TypeOK, Deliver
<1> HIDE DEF S
<1>1. \A i \in DOMAIN out' : i + 1 \in DOMAIN out /\ out'[i] = out[i + 1] /\ i \in Nat \ {0}
  BY <1>0, OutFacts
<1>2. \A p : Silent(p) => Silent(p)'
  BY <1>1 DEF Silent
<1>3. ASSUME NEW p, NEW n \in Nat, Within(p, n)
      PROVE  \A i \in DOMAIN out' : out'[i].by = p => i <= Sent(n)
  BY <1>1, <1>3 DEF Within, Sent
<1>4. PICK fails \in BOOLEAN : inflight' = Delivered(fails)
  BY DEF Deliver, Delivered
<1>5. inflight' \in Record /\ inflight'.queued = inflight.queued
  BY <1>4, DeliveredType
<1>6. inflight'.done = IF inflight.done = Pending THEN Pending ELSE Sent(inflight.done)
  BY <1>4 DEF Delivered, TypeOK, Record
<1>7. inflight.done # Pending => inflight.done \in Nat
  BY DEF TypeOK, Record
<1>8. Unsaid'
  BY <1>0, <1>2 DEF HeardInv, Unsaid
<1>9. Counted'
  <2>1. ASSUME slot # Nobody, slot \notin missed, inflight.done # Pending
        PROVE  Within(slot, inflight.done)'
    BY <1>0, <1>3, <1>6, <1>7, <2>1 DEF HeardInv, Counted, Within
  <2>2. inflight'.done # Pending => inflight.done # Pending
    BY <1>6
  <2> QED  BY <1>0, <1>2, <1>5, <2>1, <2>2 DEF HeardInv, Counted
<1> QED  BY <1>8, <1>9 DEF HeardInv

\* A cancellation that is asked for waits for nothing if the prompt was not queued.
LEMMA RequestHeardInv ==
  ASSUME TypeOK, HeardInv, Cancel \/ Close
  PROVE  HeardInv'
<1>0. Request /\ UNCHANGED <<pc, slot, out>>
  BY DEF Cancel, Close
<1>1. CASE slot = Nobody
  BY <1>0, <1>1, HeardKept DEF Request
<1>2. CASE slot # Nobody
  <2>1. inflight' = Requested(inflight) /\ missed \subseteq missed'
    BY <1>0, <1>2 DEF Request
  <2>2. /\ inflight'.queued = inflight.queued
        /\ inflight'.done = IF inflight.queued \/ inflight.done # Pending THEN inflight.done ELSE 0
    BY <2>1, RequestedType
  <2> QED  BY <1>0, <2>1, <2>2, HeardKept
<1> QED  BY <1>1, <1>2

\* A settlement only ends with the slot free.
LEMMA SettleHeardInv ==
  ASSUME TypeOK, RestInv, HeardInv, SettleStep
  PROVE  HeardInv'
<1>0. inflight \in Record /\ slot \in Prompt /\ UNCHANGED <<out, missed>>
  BY SettleHeld DEF TypeOK, SettleStep, SettleAdmitted, SettleIdle, SettleChildren, SettleOutput,
    SettleCancelled
<1>1. CASE Finish
  <2>1. /\ pc' = [pc EXCEPT ![slot] = Outcome] /\ Outcome \in Answer /\ slot' = Nobody
    BY <1>1 DEF Finish, Goto, Outcome, Answer
  <2>2. \A p \in Prompt : pc'[p] \in {"idle", "admitting", "routing"} => pc'[p] = pc[p]
    BY <1>0, <2>1 DEF TypeOK, Answer
  <2> QED  BY <1>0, <2>1, <2>2 DEF HeardInv, Unsaid, Counted, Silent
<1>2. CASE Stay
  <2>1. /\ inflight'.queued = inflight.queued /\ inflight'.done = inflight.done
    <3>1. CASE Round \/ LeaveRounds
      BY <1>0, <3>1 DEF Round, LeaveRounds, Record
    <3>2. CASE \E s \in {"children", "alone"} :
                 inflight' = [inflight EXCEPT !.settle = s, !.idle = "none", !.moved = FALSE]
      BY <1>0, <3>2 DEF Record
    <3>3. CASE inflight' = [inflight EXCEPT !.settle = "output", !.want = Len(out)]
      BY <1>0, <3>3 DEF Record
    <3>4. ~Finish
      <4>1. Stay /\ Finish => pc'[slot] \in Answer /\ slot' = slot /\ slot' = Nobody
        BY <1>0 DEF Stay, Finish, Goto, Outcome, Answer, TypeOK
      <4> QED  BY <1>0, <1>2, <4>1, AcpAssumption DEF Prompt
    <3> QED
      BY <3>1, <3>2, <3>3, <3>4 DEF SettleStep, SettleAdmitted, SettleIdle, SettleChildren,
        SettleOutput, SettleCancelled
  <2> QED  BY <1>0, <1>2, <2>1, HeardKept DEF Stay
<1> QED
  BY <1>1, <1>2 DEF SettleStep, SettleAdmitted, SettleIdle, SettleChildren, SettleOutput,
    SettleCancelled

\* The calls of a prompt, up to its message: nothing of it is on its way yet.
LEMMA CallHeardInv ==
  ASSUME TypeOK, RestInv, OverInv, HeardInv, NEW p \in Prompt, Call(p) \/ Admit(p) \/ Queue(p)
  PROVE  HeardInv'
<1>0. /\ UNCHANGED <<out, missed>> /\ inflight \in Record /\ Nobody \notin Prompt
      /\ pc[p] \in {"idle", "admitting", "routing"} /\ Silent(p)
      /\ pc[p] # "idle" => p = slot
  BY AcpAssumption DEF Call, Admit, Queue, HeardInv, Unsaid, TypeOK, RestInv, SlotOwned, Live, Prompt
<1>1. PICK label \in {"admitting", "routing", "awaiting", "refused"} : pc' = [pc EXCEPT ![p] = label]
  BY DEF Call, Admit, Queue, NotQueued, Goto
<1>2. Unsaid'
  BY <1>0, <1>1 DEF HeardInv, Unsaid, Silent, TypeOK
<1>3. CASE slot' = p
  <2>1. Silent(p)' /\ \A n : Within(p, n)'
    BY <1>0 DEF Silent, Within
  <2> QED  BY <1>2, <1>3, <2>1 DEF HeardInv, Counted
<1>4. CASE slot' = Nobody
  BY <1>2, <1>4 DEF HeardInv, Counted
<1>5. CASE slot' = slot /\ inflight' = inflight
  BY <1>0, <1>2, <1>5 DEF HeardInv, Counted, Silent, Within
<1> QED
  BY <1>0, <1>3, <1>4, <1>5 DEF Call, Admit, Queue, NotQueued

LEMMA NextHeardInv ==
  ASSUME TypeOK, RestInv, OverInv, HeardInv, [Next]_vars
  PROVE  HeardInv'
<1> USE DEF teardown
<1>1. CASE CloseStep \/ UNCHANGED vars
  BY <1>1, HeardKept DEF CloseStep, CloseAdmitted, CloseIdle, CloseDrain, CloseDispose, vars
<1> QED
  BY <1>1, AgentHeardInv, DeliverHeardInv, RequestHeardInv, SettleHeardInv, CallHeardInv DEF Next

\* A cancelled prompt is answered when what it waited for is out, when it never reached the
\* Agent, or as a prompt that has come to rest.
LEMMA CancelStep ==
  ASSUME TypeOK, RestInv, HeardInv, Next, NEW p \in Prompt, pc'[p] = "cancelled", ~Answered(p),
         p \notin missed
  PROVE  Silent(p)
<1> USE DEF teardown
<1>0. pc[p] # pc'[p]
  BY DEF Answered, Answer
<1>1. CASE SettleStep
  <2>1. Finish
    BY <1>0, <1>1 DEF SettleStep, SettleAdmitted, SettleIdle, SettleChildren, SettleOutput,
      SettleCancelled, Stay
  <2>2. slot \in Prompt /\ slot # Nobody /\ pc' = [pc EXCEPT ![slot] = Outcome]
    BY <1>1, <2>1, SettleHeld DEF Finish, Goto, TypeOK
  <2>3. p = slot
    BY <1>0, <2>2 DEF TypeOK
  <2>4. CASE SettleAdmitted
    <3>1. ~inflight.queued
      BY <1>0, <2>4 DEF SettleAdmitted, Stay
    <3> QED  BY <2>2, <2>3, <3>1 DEF HeardInv, Counted
  <2>5. CASE SettleOutput
    <3>1. IdleNow /\ inflight.settle = "output" /\ inflight.want = 0
      BY <1>0, <2>5 DEF SettleOutput, Stay
    <3>2. Len(out) = 0
      BY <3>1 DEF RestInv, Rounds, IdleNow
    <3> QED  BY <3>2, OutFacts DEF Silent, TypeOK
  <2>6. CASE SettleCancelled
    <3>1. inflight.done = 0 /\ inflight.done # Pending
      BY <2>6, AcpAssumption DEF SettleCancelled, Cancelled
    <3>2. Within(p, 0)
      BY <2>2, <2>3, <3>1 DEF HeardInv, Counted
    <3>3. \A i \in DOMAIN out : ~(i <= 0)
      BY OutFacts DEF TypeOK
    <3> QED  BY <3>2, <3>3 DEF Within, Silent
  <2>7. CASE SettleIdle \/ SettleChildren
    BY <1>0, <2>7 DEF SettleIdle, SettleChildren, Stay
  <2> QED  BY <1>1, <2>4, <2>5, <2>6, <2>7 DEF SettleStep
<1>2. CASE Cancel \/ Close \/ CloseStep \/ CancelDone \/ Deliver \/ ChildEnds \/ Maintained
  BY <1>0, <1>2 DEF Cancel, Close, CloseStep, CancelDone, Deliver, ChildEnds, Maintained,
    CloseAdmitted, CloseIdle, CloseDrain, CloseDispose
<1>3. CASE AgentMust \/ AgentMay
  BY <1>0, <1>3 DEF AgentMust, AgentMay, StartTurn, EndTurn, Rest, WakeUp, Update, FailTurn, Remove,
    Maintain, Delegate, Vanish
<1>4. ASSUME NEW q \in Prompt, Call(q) \/ Admit(q) \/ Queue(q) PROVE FALSE
  <2>1. \E label \in {"admitting", "routing", "awaiting", "refused"} : pc' = [pc EXCEPT ![q] = label]
    BY <1>4 DEF Call, Admit, Queue, NotQueued, Goto
  <2> QED  BY <1>0, <2>1 DEF TypeOK
<1> QED  BY <1>1, <1>2, <1>3, <1>4 DEF Next

\* For any number of prompts and of updates on their way: a cancelled prompt is answered after
\* every update of its own turn, unless it was cancelled while its message was being routed.
THEOREM CancelledIsHeard == Spec => CancelHeard
<1>1. TypeOK /\ RestInv /\ HeardInv /\ [Next]_vars =>
        [\A p \in Prompt : pc'[p] = "cancelled" /\ ~Answered(p) /\ p \notin missed
           => \A i \in DOMAIN out : out[i].by # p]_vars
  BY CancelStep DEF Silent
<1> QED
  BY <1>1, InitTypeOK, NextTypeOK, InitRestInv, NextRestInv, InitOverInv, NextOverInv,
     InitHeardInv, NextHeardInv, PTL DEF Spec, CancelHeard

-----------------------------------------------------------------------------
(* Nobody waits in vain *)

\* Whoever waits for the Agent to come to rest, it has not.
Calmed == "pending" \in {inflight.idle, inflight.cancel, calm} => ~Quiet

\* What the record waits for is on its way, with n updates to deliver.
Owed(r, n) ==
  /\ r.want <= n /\ (r.done # Pending => r.done <= n)
  /\ r.settle = "idle" => r.idle # "none"
  /\ r.aborted => r.done # Pending \/ r.cancel # "none"

\* A prompt whose message was handed over, or dropped, has a settlement.
Handed == slot # Nobody /\ pc[slot] = "awaiting" => inflight.admitted /\ inflight.settle # "none"

TornDown == tail <= Len(out) /\ (closing = "idle" => calm # "none")

\* The parts of the invariant.
LEMMA WaitParts == NoVainWait <=> Calmed /\ Owed(inflight, Len(out)) /\ Handed /\ TornDown
BY DEF NoVainWait, Calmed, Owed, Handed, TornDown

\* A record that waits for no more than another, with k updates to deliver.
Follows(r, t, k) ==
  /\ t.want = r.want /\ t.aborted = r.aborted /\ t.admitted = r.admitted
  /\ t.done = r.done \/ t.done = k
  /\ t.settle = r.settle \/ (r.settle = "none" /\ t.settle = "admission")
  /\ r.idle # "none" => t.idle # "none"
  /\ r.cancel # "none" => t.cancel # "none" \/ t.done # Pending

LEMMA FollowsOwed ==
  ASSUME NEW r \in Record, NEW t \in Record, NEW n \in Nat, NEW k \in Nat, n <= k,
         Owed(r, n), Follows(r, t, k)
  PROVE  Owed(t, k)
BY AcpAssumption DEF Record, Owed, Follows

\* A step of the Agent with a record that follows, and nobody waiting for an Agent at rest.
LEMMA KeepsWaiting ==
  ASSUME TypeOK, TypeOK', NoVainWait, UNCHANGED <<pc, slot, closing, tail>>,
         Len(out) <= Len(out'), calm # "none" => calm' # "none",
         Follows(inflight, inflight', Len(out')), Calmed'
  PROVE  NoVainWait'
<1>1. /\ inflight \in Record /\ inflight' \in Record /\ Len(out) \in Nat /\ Len(out') \in Nat
      /\ tail \in Nat
  BY SeqFacts DEF TypeOK
<1>2. Owed(inflight', Len(out'))
  BY <1>1, WaitParts, FollowsOwed
<1>3. Handed' /\ TornDown'
  BY <1>1, WaitParts DEF Follows, Handed, TornDown
<1> QED  BY <1>2, <1>3 DEF NoVainWait, Calmed, Owed, Handed, TornDown

\* The waiting ends when the Agent comes to rest.
LEMMA AtRestMet ==
  ASSUME NEW r \in Record
  PROVE  LET t == AtRest(r) IN
         /\ t.idle # "pending" /\ t.cancel # "pending"
         /\ (r.idle # "none" => t.idle # "none") /\ (r.cancel # "none" => t.cancel # "none")
BY DEF AtRest, Met, Record, Awaited

LEMMA AgentWaiting ==
  ASSUME TypeOK, TypeOK', OverInv, NoVainWait,
         AgentMust \/ AgentMay \/ Maintained \/ ChildEnds \/ CancelDone
  PROVE  NoVainWait'
<1> USE DEF teardown
<1>0. /\ inflight \in Record /\ agent \in Driver /\ Len(out) \in Nat /\ calm \in Awaited
      /\ Calmed /\ Resting
  BY SeqFacts, WaitParts DEF TypeOK, OverInv
<1>1. ASSUME UNCHANGED <<pc, slot, out, closing, tail, calm>>,
             Follows(inflight, inflight', Len(out)), inflight'.idle = inflight.idle,
             inflight'.cancel \in {inflight.cancel, "none"}, Quiet' => Quiet
      PROVE  NoVainWait'
  <2>1. Calmed'
    BY <1>0, <1>1 DEF Calmed
  <2> QED  BY <1>0, <1>1, <2>1, KeepsWaiting
<1>2. ASSUME NEW t, Beside(Logged(inflight), t), t.want = inflight.want
      PROVE  /\ Follows(inflight, t, Len(out)) /\ t.idle = inflight.idle
             /\ t.cancel = inflight.cancel
  BY <1>0, <1>2, LoggedType, LoggedFields DEF Beside, Follows
<1>3. Beside(Logged(inflight), Logged(inflight)) /\ Logged(inflight).want = inflight.want
  BY <1>0, LoggedType DEF Beside
<1>4. CASE WakeUp
  <2>1. /\ UNCHANGED <<pc, slot, out, closing, tail, calm>> /\ inflight' = Started(inflight)
        /\ agent'.maintenance = agent.maintenance
        /\ agent'.status = IF Quiet THEN "running" ELSE agent.status
    BY <1>4, FollowupType DEF WakeUp, Message
  <2>2. Same(inflight, Started(inflight))
    BY <1>0, StartedSame
  <2>3. /\ inflight'.idle = inflight.idle /\ inflight'.cancel = inflight.cancel
        /\ inflight'.done = inflight.done \/ inflight'.done = Len(out)
    BY <1>0, <2>1, HeardFields, HeardDone DEF Started
  <2>4. Follows(inflight, inflight', Len(out))
    BY <2>1, <2>2, <2>3 DEF Same, Follows
  <2>5. Quiet' => Quiet
    BY <2>1 DEF Quiet
  <2> QED  BY <1>1, <2>1, <2>3, <2>4, <2>5
<1>5. CASE StartTurn
  <2>1. Beside(Logged(inflight), inflight') /\ inflight'.want = inflight.want
    BY <1>5, TurnStartedType DEF StartTurn, TurnStarted
  <2>2. Quiet' => Quiet
    BY <1>0, <1>5 DEF StartTurn, Quiet, Driver
  <2> QED  BY <1>1, <1>2, <1>5, <2>1, <2>2 DEF StartTurn
<1>6. CASE EndTurn
  <2>1. Beside(Logged(inflight), inflight') /\ inflight'.want = inflight.want
    BY <1>6, TurnEndedType DEF EndTurn, TurnEnded
  <2>2. Quiet' => Quiet
    BY <1>0, <1>6 DEF EndTurn, Quiet, Driver
  <2> QED  BY <1>1, <1>2, <1>6, <2>1, <2>2 DEF EndTurn
<1>7. CASE Update
  <2>1. inflight' = Logged(inflight) /\ UNCHANGED <<pc, slot, agent, closing, tail, calm>>
    BY <1>7 DEF Update
  <2>2. /\ Follows(inflight, inflight', Len(out)) /\ inflight'.idle = inflight.idle
        /\ inflight'.cancel = inflight.cancel /\ inflight'.done = inflight.done
    BY <1>0, <1>2, <1>3, <2>1, LoggedFields
  <2>3. Len(out') = Len(out) + 1
    BY <1>0, <1>7 DEF Update, TypeOK
  <2>4. Follows(inflight, inflight', Len(out')) /\ Len(out) <= Len(out')
    BY <1>0, <2>2, <2>3 DEF Follows
  <2>5. Calmed'
    BY <1>0, <2>1, <2>2 DEF Calmed, Quiet
  <2> QED  BY <2>1, <2>4, <2>5, KeepsWaiting
<1>8. CASE FailTurn
  <2> DEFINE q == Settling(inflight)
  <2>1. /\ q \in Record /\ q.want = inflight.want /\ q.aborted = inflight.aborted
        /\ q.settle = IF inflight.settle = "none" THEN "admission" ELSE inflight.settle
        /\ q.admitted = inflight.admitted /\ q.done = inflight.done /\ q.idle = inflight.idle
        /\ q.cancel = inflight.cancel
    BY <1>0, SettlingType, SettlingFields
  <2>2. inflight' = inflight \/ inflight' = [q EXCEPT !.agentError = TRUE]
    BY <1>8 DEF FailTurn
  <2> HIDE DEF q
  <2>3. /\ Follows(inflight, inflight', Len(out)) /\ inflight'.idle = inflight.idle
        /\ inflight'.cancel = inflight.cancel
    BY <2>1, <2>2 DEF Follows, Record
  <2>4. Quiet' => Quiet
    BY <1>0, <1>8 DEF FailTurn, Quiet, Driver
  <2> QED  BY <1>1, <1>8, <2>3, <2>4 DEF FailTurn
<1>9. CASE Remove \/ Maintain \/ Vanish \/ ChildEnds \/ Delegate
  <2>1. inflight' = inflight \/ inflight' = Logged(inflight)
    BY <1>9 DEF Remove, Maintain, Vanish, ChildEnds, Delegate
  <2>2. Follows(inflight, inflight, Len(out))
    BY DEF Follows
  <2>3. /\ Follows(inflight, inflight', Len(out)) /\ inflight'.idle = inflight.idle
        /\ inflight'.cancel = inflight.cancel
    BY <1>2, <1>3, <2>1, <2>2
  <2>4. UNCHANGED <<pc, slot, out, closing, tail, calm>>
    BY <1>9 DEF Remove, Maintain, Vanish, ChildEnds, Delegate
  <2>5. Quiet' => Quiet
    BY <1>0, <1>9, AgentTypes DEF Remove, Maintain, Vanish, ChildEnds, Delegate, Quiet, Driver
  <2> QED  BY <1>1, <2>3, <2>4, <2>5
<1>10. ASSUME NEW r \in Record, Follows(inflight, r, Len(out)), r.idle = inflight.idle,
              r.cancel = inflight.cancel, UNCHANGED <<pc, slot, out, closing, tail>>,
              IF agent.inbox = <<>> THEN inflight' = AtRest(r) /\ calm' = Met(calm)
              ELSE inflight' = r /\ calm' = calm /\ agent'.status = "running"
       PROVE  NoVainWait'
  <2>1. CASE agent.inbox = <<>>
    <3> DEFINE t == AtRest(r)
    <3>1. Same(r, t) /\ t.done = r.done
      BY AtRestSame, AtRestFields
    <3>2. /\ t.idle # "pending" /\ t.cancel # "pending"
          /\ (r.idle # "none" => t.idle # "none") /\ (r.cancel # "none" => t.cancel # "none")
      BY AtRestMet
    <3>3. inflight' = t
      BY <1>10, <2>1
    <3> HIDE DEF t
    <3>4. Follows(inflight, inflight', Len(out'))
      BY <1>10, <3>1, <3>2, <3>3 DEF Same, Follows
    <3>5. Calmed' /\ (calm # "none" => calm' # "none")
      BY <1>0, <1>10, <2>1, <3>2, <3>3 DEF Calmed, Met, Awaited
    <3> QED  BY <1>0, <1>10, <3>4, <3>5, KeepsWaiting
  <2>2. CASE agent.inbox # <<>>
    <3>1. ~Quiet' /\ inflight' = r /\ calm' = calm
      BY <1>10, <2>2 DEF Quiet
    <3> QED  BY <1>0, <1>1, <1>10, <3>1
  <2> QED  BY <2>1, <2>2
<1>11. CASE Rest
  <2> DEFINE h == Heard(inflight, "idle")
  <2>1. Same(inflight, h) /\ h.idle = inflight.idle /\ h.cancel = inflight.cancel
    BY <1>0, HeardSame, HeardFields
  <2>2. h.done = inflight.done \/ h.done = Len(out)
    BY <1>0, HeardDone
  <2>3. IF agent.inbox = <<>> THEN inflight' = AtRest(h) /\ calm' = Met(calm)
        ELSE inflight' = h /\ calm' = calm /\ agent'.status = "running"
    BY <1>0, <1>11 DEF Rest, Driver
  <2> HIDE DEF h
  <2>4. Follows(inflight, h, Len(out)) /\ h \in Record
    BY <2>1, <2>2 DEF Same, Follows
  <2> QED  BY <1>10, <1>11, <2>1, <2>3, <2>4 DEF Rest
<1>12. CASE Maintained
  <2> DEFINE h == IF agent.inbox = <<>> THEN inflight ELSE Heard(inflight, "running")
  <2>1. Same(inflight, h) /\ h.idle = inflight.idle /\ h.cancel = inflight.cancel
    BY <1>0, HeardSame, HeardFields DEF Same
  <2>2. h.done = inflight.done \/ h.done = Len(out)
    BY <1>0, HeardDone
  <2>3. IF agent.inbox = <<>> THEN inflight' = AtRest(h) /\ calm' = Met(calm)
        ELSE inflight' = h /\ calm' = calm /\ agent'.status = "running"
    BY <1>0, <1>12 DEF Maintained, Driver
  <2> HIDE DEF h
  <2>4. Follows(inflight, h, Len(out)) /\ h \in Record
    BY <2>1, <2>2 DEF Same, Follows
  <2> QED  BY <1>10, <1>12, <2>1, <2>3, <2>4 DEF Maintained
<1>13. CASE CancelDone
  <2> DEFINE q == Resolved(inflight, Len(out))
  <2>1. /\ Same(inflight, q) /\ (q.done = inflight.done \/ q.done = Len(out)) /\ q.done # Pending
        /\ q.idle = inflight.idle
    BY <1>0, ResolvedSame, AcpAssumption DEF Resolved, Record
  <2>2. inflight' = [q EXCEPT !.cancel = "none"] /\ UNCHANGED <<pc, slot, agent, out, closing, tail, calm>>
    BY <1>13 DEF CancelDone
  <2> HIDE DEF q
  <2>3. Follows(inflight, inflight', Len(out)) /\ inflight'.idle = inflight.idle /\ inflight'.cancel = "none"
    BY <2>1, <2>2 DEF Same, Record, Follows
  <2> QED  BY <1>1, <2>2, <2>3 DEF Quiet
<1> QED
  BY <1>4, <1>5, <1>6, <1>7, <1>8, <1>9, <1>11, <1>12, <1>13 DEF AgentMust, AgentMay

\* A delivery: everybody who counts the updates counts one less.
LEMMA DeliverWaiting ==
  ASSUME TypeOK, TypeOK', NoVainWait, Deliver
  PROVE  NoVainWait'
<1>0. /\ inflight \in Record /\ Len(out) \in Nat /\ tail \in Nat /\ Len(out) # 0
      /\ Len(out') = Len(out) - 1 /\ UNCHANGED <<pc, slot, agent, closing, calm>>
      /\ tail' = Sent(tail)
  BY SeqFacts DEF TypeOK, Deliver
<1>1. PICK fails \in BOOLEAN : inflight' = Delivered(fails)
  BY DEF Deliver, Delivered
<1>2. /\ inflight'.settle = inflight.settle /\ inflight'.aborted = inflight.aborted
      /\ inflight'.admitted = inflight.admitted /\ inflight'.want = Sent(inflight.want)
      /\ (inflight'.done = Pending <=> inflight.done = Pending)
      /\ inflight'.idle = inflight.idle /\ inflight'.cancel = inflight.cancel
  BY <1>1, DeliveredType
<1>3. inflight'.done = IF inflight.done = Pending THEN Pending ELSE Sent(inflight.done)
  BY <1>0, <1>1 DEF Delivered, Record
<1>4. /\ inflight.want \in Nat /\ inflight.want <= Len(out) /\ tail <= Len(out)
      /\ inflight.done # Pending => inflight.done \in Nat /\ inflight.done <= Len(out)
  BY <1>0 DEF NoVainWait, Record
<1>5. Owed(inflight', Len(out')) /\ tail' <= Len(out')
  BY <1>0, <1>2, <1>3, <1>4 DEF NoVainWait, Owed, Sent
<1> QED  BY <1>0, <1>2, <1>5 DEF NoVainWait, Owed, Quiet

\* A cancellation that is asked for completes at once, or waits for the Agent.
LEMMA RequestWaiting ==
  ASSUME TypeOK, TypeOK', NoVainWait, Cancel \/ Close
  PROVE  NoVainWait'
<1>0. /\ Request /\ UNCHANGED <<pc, slot, out, calm, tail>> /\ closing' \in {closing, "admission"}
      /\ inflight \in Record /\ Len(out) \in Nat /\ agent \in Driver
  BY SeqFacts DEF Cancel, Close, teardown, TypeOK
<1>1. agent'.status = agent.status /\ agent'.maintenance = agent.maintenance
  BY <1>0, AgentTypes DEF Cancel, Close
<1>2. CASE slot = Nobody
  BY <1>0, <1>1, <1>2 DEF Request, NoVainWait, Quiet
<1>3. CASE slot # Nobody
  <2>1. inflight' = Requested(inflight)
    BY <1>0, <1>3 DEF Request
  <2>2. /\ inflight'.aborted /\ inflight'.admitted = inflight.admitted
        /\ inflight'.settle = IF inflight.settle = "none" THEN "admission" ELSE inflight.settle
        /\ inflight'.want = inflight.want /\ inflight'.idle = inflight.idle
        /\ inflight'.done = IF inflight.queued \/ inflight.done # Pending THEN inflight.done ELSE 0
        /\ inflight'.cancel = IF inflight.queued /\ ~inflight.aborted THEN WhenIdle
                              ELSE inflight.cancel
    BY <2>1, RequestedType
  <2>3. WhenIdle # "none" /\ (WhenIdle = "pending" => ~Quiet) /\ 0 # Pending
    BY AcpAssumption DEF WhenIdle
  <2>4. Owed(inflight', Len(out'))
    BY <1>0, <2>2, <2>3 DEF NoVainWait, Owed
  <2>5. Calmed' /\ Handed' /\ TornDown'
    BY <1>0, <1>1, <2>2, <2>3 DEF NoVainWait, Calmed, Handed, TornDown, Quiet
  <2> QED  BY <2>4, <2>5 DEF NoVainWait, Calmed, Owed, Handed, TornDown
<1> QED  BY <1>2, <1>3

\* A prompt that is done leaves nothing to wait for.
LEMMA FreshWaiting ==
  ASSUME TypeOK, TypeOK', NoVainWait, slot' = Nobody, inflight' = Fresh,
         UNCHANGED <<agent, out, teardown>>
  PROVE  NoVainWait'
<1>1. Len(out) \in Nat
  BY SeqFacts DEF TypeOK
<1> QED  BY <1>1 DEF NoVainWait, Fresh, Quiet, teardown

LEMMA SettleWaiting ==
  ASSUME TypeOK, TypeOK', NoVainWait, SettleStep
  PROVE  NoVainWait'
<1>0. /\ inflight \in Record /\ Len(out) \in Nat /\ UNCHANGED <<agent, out, closing, calm, tail>>
      /\ inflight.done # Pending => inflight.done \in Nat
      /\ inflight.settle # "none"
  BY SeqFacts DEF TypeOK, Record, SettleStep, SettleAdmitted, SettleIdle, SettleChildren,
    SettleOutput, SettleCancelled, teardown
<1>1. CASE Finish
  BY <1>0, <1>1, FreshWaiting DEF Finish, teardown
<1>2. ASSUME Stay, inflight'.done = inflight.done, inflight'.cancel = inflight.cancel,
             inflight'.aborted = inflight.aborted, inflight'.admitted = inflight.admitted,
             inflight'.settle # "none", inflight'.want <= Len(out),
             inflight'.idle = "pending" => ~Quiet,
             inflight'.settle = "idle" => inflight'.idle # "none"
      PROVE  NoVainWait'
  BY <1>0, <1>2 DEF Stay, NoVainWait, Quiet
<1>3. CASE Round /\ Stay
  <2>1. inflight' = [inflight EXCEPT !.settle = "idle", !.idle = WhenIdle, !.want = 0]
    BY <1>3 DEF Round
  <2>2. WhenIdle # "none" /\ (WhenIdle = "pending" => ~Quiet)
    BY DEF WhenIdle
  <2>3. /\ inflight'.done = inflight.done /\ inflight'.cancel = inflight.cancel
        /\ inflight'.aborted = inflight.aborted /\ inflight'.admitted = inflight.admitted
        /\ inflight'.settle = "idle" /\ inflight'.want = 0 /\ inflight'.idle = WhenIdle
    BY <1>0, <2>1 DEF Record
  <2> QED  BY <1>0, <1>2, <1>3, <2>2, <2>3
<1>4. CASE LeaveRounds /\ Stay
  <2>1. /\ inflight'.done = inflight.done /\ inflight'.cancel = inflight.cancel
        /\ inflight'.aborted = inflight.aborted /\ inflight'.admitted = inflight.admitted
        /\ inflight'.settle = "cancelled" /\ inflight'.want = 0 /\ inflight'.idle = "none"
    BY <1>0, <1>4 DEF LeaveRounds, Record
  <2> QED  BY <1>0, <1>2, <1>4, <2>1
<1>5. ASSUME NEW s \in {"children", "alone"}, Stay,
             inflight' = [inflight EXCEPT !.settle = s, !.idle = "none", !.moved = FALSE]
      PROVE  NoVainWait'
  <2>1. /\ inflight'.done = inflight.done /\ inflight'.cancel = inflight.cancel
        /\ inflight'.aborted = inflight.aborted /\ inflight'.admitted = inflight.admitted
        /\ inflight'.settle = s /\ inflight'.want = inflight.want /\ inflight'.idle = "none"
    BY <1>0, <1>5 DEF Record
  <2> QED  BY <1>0, <1>2, <1>5, <2>1 DEF NoVainWait
<1>6. CASE inflight' = [inflight EXCEPT !.settle = "output", !.want = Len(out)] /\ Stay
  <2>1. /\ inflight'.done = inflight.done /\ inflight'.cancel = inflight.cancel
        /\ inflight'.aborted = inflight.aborted /\ inflight'.admitted = inflight.admitted
        /\ inflight'.settle = "output" /\ inflight'.want = Len(out) /\ inflight'.idle = inflight.idle
    BY <1>0, <1>6 DEF Record
  <2> QED  BY <1>0, <1>2, <1>6, <2>1 DEF NoVainWait
<1> QED
  BY <1>1, <1>3, <1>4, <1>5, <1>6 DEF SettleStep, SettleAdmitted, SettleIdle, SettleChildren,
    SettleOutput, SettleCancelled

\* A prompt that is admitted, dropped or handed to the Agent gets its settlement.
LEMMA CallWaiting ==
  ASSUME TypeOK, TypeOK', RestInv, NoVainWait, NEW p \in Prompt, Call(p) \/ Admit(p) \/ Queue(p)
  PROVE  NoVainWait'
<1>0. /\ inflight \in Record /\ Len(out) \in Nat /\ UNCHANGED <<out, closing, calm, tail>>
      /\ inflight.done # Pending => inflight.done \in Nat
      /\ (pc[p] \in {"admitting", "routing"} => p = slot) /\ Nobody \notin Prompt
  BY SeqFacts, AcpAssumption
  DEF Call, Admit, Queue, teardown, TypeOK, Record, RestInv, SlotOwned, Live, Prompt
<1>1. Calmed /\ Owed(inflight, Len(out)) /\ Handed /\ TornDown
  BY WaitParts
<1>2. CASE Call(p)
  <2>1. /\ UNCHANGED <<inflight, agent>>
        /\ \/ slot' = p /\ pc' = [pc EXCEPT ![p] = "admitting"]
           \/ slot' = slot /\ pc' = [pc EXCEPT ![p] = "refused"] /\ pc[p] = "idle"
    BY <1>2 DEF Call, Goto
  <2>2. Handed'
    BY <1>0, <1>1, <2>1 DEF Handed, TypeOK
  <2> QED  BY <1>0, <1>1, <2>1, <2>2 DEF NoVainWait, Calmed, Owed, Handed, TornDown, Quiet
<1>3. ASSUME NotQueued(p), UNCHANGED agent, p = slot
      PROVE  NoVainWait'
  <2>1. CASE inflight.aborted
    <3> DEFINE q == Settling(inflight)
    <3>1. /\ inflight' = [q EXCEPT !.admitted = TRUE, !.queued = FALSE]
          /\ pc' = [pc EXCEPT ![p] = "awaiting"] /\ slot' = slot
      BY <1>3, <2>1 DEF NotQueued, Goto
    <3>2. /\ q \in Record /\ q.want = inflight.want /\ q.aborted = inflight.aborted
          /\ q.settle = IF inflight.settle = "none" THEN "admission" ELSE inflight.settle
          /\ q.done = inflight.done /\ q.idle = inflight.idle /\ q.cancel = inflight.cancel
      BY <1>0, SettlingType, SettlingFields
    <3> HIDE DEF q
    <3>3. /\ inflight'.want = q.want /\ inflight'.aborted = q.aborted /\ inflight'.settle = q.settle
          /\ inflight'.done = q.done /\ inflight'.idle = q.idle /\ inflight'.cancel = q.cancel
          /\ inflight'.admitted
      BY <3>1, <3>2 DEF Record
    <3>4. inflight'.settle # "none" /\ (inflight'.settle = "idle" => inflight.settle = "idle")
      BY <3>2, <3>3
    <3>5. Owed(inflight', Len(out'))
      BY <1>0, <1>1, <3>2, <3>3, <3>4 DEF Owed
    <3>6. Calmed' /\ Handed' /\ TornDown'
      BY <1>0, <1>1, <1>3, <3>2, <3>3, <3>4 DEF Calmed, Handed, TornDown, Quiet
    <3> QED  BY <3>5, <3>6 DEF NoVainWait, Calmed, Owed, Handed, TornDown
  <2>2. CASE ~inflight.aborted
    BY <1>0, <1>3, <2>2, FreshWaiting DEF NotQueued, teardown
  <2> QED  BY <2>1, <2>2
<1>4. CASE Admit(p) /\ ~NotQueued(p)
  <2>1. /\ inflight' = [inflight EXCEPT !.queued = TRUE] /\ UNCHANGED <<slot, agent>>
        /\ pc' = [pc EXCEPT ![p] = "routing"] /\ p = slot
    BY <1>0, <1>4 DEF Admit, Goto
  <2>2. /\ inflight'.want = inflight.want /\ inflight'.aborted = inflight.aborted
        /\ inflight'.settle = inflight.settle /\ inflight'.done = inflight.done
        /\ inflight'.idle = inflight.idle /\ inflight'.cancel = inflight.cancel
        /\ pc'[slot] = "routing"
    BY <1>0, <2>1 DEF Record, TypeOK
  <2> QED  BY <1>0, <2>1, <2>2 DEF NoVainWait, Quiet
<1>5. CASE Queue(p) /\ ~agent.gone
  <2> DEFINE u == Started(inflight)
             q == Settling(u)
  <2>1. /\ inflight' = [q EXCEPT !.admitted = TRUE] /\ Followup(p) /\ p = slot
        /\ pc' = [pc EXCEPT ![p] = "awaiting"] /\ UNCHANGED slot
    BY <1>0, <1>5 DEF Queue, Goto
  <2>2. /\ u \in Record /\ u.want = inflight.want /\ u.aborted = inflight.aborted
        /\ u.settle = inflight.settle
    BY <1>0, StartedSame DEF Same
  <2>3. /\ u.idle = inflight.idle /\ u.cancel = inflight.cancel
        /\ u.done = inflight.done \/ u.done = Len(out)
    BY <1>0, HeardFields, HeardDone DEF Started
  <2>4. /\ q \in Record /\ q.want = u.want /\ q.aborted = u.aborted
        /\ q.settle = IF u.settle = "none" THEN "admission" ELSE u.settle
        /\ q.done = u.done /\ q.idle = u.idle /\ q.cancel = u.cancel
    BY <2>2, SettlingType, SettlingFields
  <2> HIDE DEF q, u
  <2>5. /\ inflight'.want = q.want /\ inflight'.aborted = q.aborted /\ inflight'.settle = q.settle
        /\ inflight'.done = q.done /\ inflight'.idle = q.idle /\ inflight'.cancel = q.cancel
        /\ inflight'.admitted
    BY <2>1, <2>4 DEF Record
  <2>6. inflight'.settle # "none" /\ (inflight'.settle = "idle" => inflight.settle = "idle")
    BY <2>2, <2>4, <2>5
  <2>7. Owed(inflight', Len(out'))
    BY <1>0, <1>1, <2>2, <2>3, <2>4, <2>5, <2>6, AcpAssumption DEF Owed
  <2>8. Quiet' => Quiet
    BY <2>1, FollowupType DEF Quiet, Message
  <2>9. Calmed' /\ Handed' /\ TornDown'
    BY <1>0, <1>1, <2>3, <2>4, <2>5, <2>6, <2>8 DEF Calmed, Handed, TornDown
  <2> QED  BY <2>7, <2>9 DEF NoVainWait, Calmed, Owed, Handed, TornDown
<1> QED
  BY <1>0, <1>2, <1>3, <1>4, <1>5 DEF Admit, Queue

LEMMA NextWaiting ==
  ASSUME TypeOK, TypeOK', RestInv, OverInv, NoVainWait, [Next]_vars
  PROVE  NoVainWait'
<1>1. CASE CloseStep
  <2>1. /\ UNCHANGED <<pc, slot, inflight, out>> /\ Len(out) \in Nat /\ agent \in Driver
        /\ agent'.status = agent.status /\ agent'.maintenance = agent.maintenance
    BY <1>1, SeqFacts, AgentTypes
    DEF CloseStep, CloseAdmitted, CloseIdle, CloseDrain, CloseDispose, TypeOK, Driver
  <2>2. \/ UNCHANGED <<tail, calm>> /\ closing' # "idle"
        \/ closing' = "idle" /\ calm' = WhenIdle /\ tail' = tail
        \/ closing' = "output" /\ calm' = "none" /\ tail' = Len(out)
    BY <1>1 DEF CloseStep, CloseAdmitted, CloseIdle, CloseDrain, CloseDispose
  <2> QED  BY <2>1, <2>2 DEF NoVainWait, Quiet, WhenIdle
<1>2. CASE UNCHANGED vars
  BY <1>2 DEF vars, teardown, NoVainWait, Quiet
<1> QED
  BY <1>1, <1>2, AgentWaiting, DeliverWaiting, RequestWaiting, SettleWaiting, CallWaiting DEF Next

\* For any number of prompts and of updates on their way: nobody waits for what has come
\* already or will not come, neither a settlement, nor a cancellation, nor the teardown.
THEOREM WaitsAreMet == Spec => []NoVainWait
<1>1. Init => NoVainWait
  BY SeqFacts DEF Init, NoVainWait, Fresh, Quiet
<1> QED
  BY <1>1, InitTypeOK, NextTypeOK, InitRestInv, NextRestInv, InitOverInv, NextOverInv,
     NextWaiting, PTL DEF Spec

=============================================================================
