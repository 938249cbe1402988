------------------------ MODULE McpConnectionProofs ------------------------
(* Safety of the connection supervisor, for any policy, capabilities and   *)
(* bounds of the model.                                                    *)
EXTENDS McpConnection, TLAPS

USE ConnectionAssumption
USE DEF Gen, Owner, supervisor, attempt, swaps, server, Goto, IsCurrent, GaveUp, GiveUp

-----------------------------------------------------------------------------
(* The chain *)

LEMMA AppendFacts ==
  ASSUME NEW S, NEW q \in Seq(S), NEW e \in S
  PROVE  /\ Append(q, e) \in Seq(S) /\ Append(q, e) # <<>> /\ Len(Append(q, e)) = Len(q) + 1
         /\ \A i \in 1..Len(q) : Append(q, e)[i] = q[i]
         /\ Append(q, e)[Len(q) + 1] = e
OBVIOUS

LEMMA TailFacts ==
  ASSUME NEW S, NEW q \in Seq(S), q # <<>>
  PROVE  /\ Tail(q) \in Seq(S) /\ Len(q) >= 1 /\ Len(Tail(q)) = Len(q) - 1
         /\ \A i \in 1..Len(q) - 1 : Tail(q)[i] = q[i + 1] /\ i + 1 \in 1..Len(q)
         /\ Head(q) = q[1] /\ Head(q) \in S /\ 1 \in 1..Len(q)
OBVIOUS

NoOwn(q) == \A i \in 1..Len(q) : ~q[i].own

\* An attempt waits for the swap it queued, and for no other.
Awaited(q, ph) ==
  /\ \A i \in 1..Len(q) : q[i].own => q[i].gen \in Gen /\ ph[q[i].gen] = q[i].kind
  /\ \A i, j \in 1..Len(q) : q[i].own /\ q[j].own => i = j

LEMMA NoOwnAwaited == ASSUME NEW q, NEW ph, NoOwn(q) PROVE Awaited(q, ph)
BY DEF NoOwn, Awaited

LEMMA AwaitedAppend ==
  ASSUME NEW q \in Seq(Swap), NEW e \in Swap, NEW ph, Awaited(q, ph), ~e.own
  PROVE  Awaited(Append(q, e), ph)
<1> DEFINE r == Append(q, e)
<1>1. Len(r) = Len(q) + 1 /\ (\A i \in 1..Len(q) : r[i] = q[i]) /\ r[Len(q) + 1] = e /\ Len(q) \in Nat
  BY AppendFacts
<1> HIDE DEF r
<1>2. \A i \in 1..Len(r) : r[i].own => i \in 1..Len(q)
  BY <1>1
<1>3. QED  BY <1>1, <1>2 DEF Awaited, r

LEMMA AwaitedTail ==
  ASSUME NEW q \in Seq(Swap), q # <<>>, NEW ph, Awaited(q, ph)
  PROVE  Awaited(Tail(q), ph) /\ (Head(q).own => NoOwn(Tail(q)))
<1> DEFINE r == Tail(q)
<1>1. /\ Len(q) \in Nat /\ Len(r) = Len(q) - 1 /\ Head(q) = q[1] /\ 1 \in 1..Len(q)
      /\ \A i \in 1..Len(q) - 1 : r[i] = q[i + 1] /\ i + 1 \in 1..Len(q)
  BY TailFacts
<1> HIDE DEF r
<1>2. \A i \in 1..Len(r) : r[i] = q[i + 1] /\ i + 1 \in 1..Len(q) /\ i + 1 # 1
  BY <1>1
<1>3. Awaited(r, ph)
  <2>1. \A i \in 1..Len(r) : r[i].own => r[i].gen \in Gen /\ ph[r[i].gen] = r[i].kind
    BY <1>2 DEF Awaited
  <2>2. ASSUME NEW i \in 1..Len(r), NEW j \in 1..Len(r), r[i].own, r[j].own PROVE i = j
    <3>1. i + 1 = j + 1
      BY <1>2, <2>2 DEF Awaited
    <3> QED  BY <3>1, <1>1
  <2> QED  BY <2>1, <2>2 DEF Awaited
<1>4. Head(q).own => NoOwn(r)
  BY <1>1, <1>2 DEF Awaited, NoOwn
<1> QED  BY <1>3, <1>4 DEF r

LEMMA AwaitedOwn ==
  ASSUME NEW q \in Seq(Swap), NoOwn(q), NEW e \in Swap, NEW ph,
         e.gen \in Gen, ph[e.gen] = e.kind
  PROVE  Awaited(Append(q, e), ph)
<1> DEFINE r == Append(q, e)
<1>1. Len(r) = Len(q) + 1 /\ (\A i \in 1..Len(q) : r[i] = q[i]) /\ r[Len(q) + 1] = e /\ Len(q) \in Nat
  BY AppendFacts
<1> HIDE DEF r
<1>2. \A i \in 1..Len(r) : r[i].own => i = Len(q) + 1
  BY <1>1 DEF NoOwn
<1> QED  BY <1>1, <1>2 DEF Awaited, r

\* An attempt that waits for no swap may move.
LEMMA AwaitedGoto ==
  ASSUME NEW q \in Seq(Swap), NEW ph \in [Gen -> Phase], Awaited(q, ph),
         NEW g \in Gen, ph[g] \notin Kind, NEW l
  PROVE  Awaited(q, [ph EXCEPT ![g] = l])
<1>1. \A i \in 1..Len(q) : q[i] \in Swap
  OBVIOUS
<1>2. ASSUME NEW i \in 1..Len(q), q[i].own PROVE q[i].gen # g
  <2>1. q[i].gen \in Gen /\ ph[q[i].gen] = q[i].kind
    BY <1>2 DEF Awaited
  <2>2. q[i].kind \in Kind
    BY <1>1, <2>1 DEF Swap, Phase, Unsettled, Kind
  <2> QED  BY <2>1, <2>2
<1> QED  BY <1>2 DEF Awaited

-----------------------------------------------------------------------------
(* The invariants *)

\* Every generation but the last is settled and closed; a pending retry has
\* its predecessor closed as well.
Placed ==
  /\ \A g \in Gen : g < born => phase[g] = "settled" /\ closed[g]
  /\ \A g \in Gen : g > born => phase[g] = "none" /\ ~closed[g]
  /\ phase[born] # "none" /\ client \in {0, born}
  /\ disposed => client = 0
  /\ timer => client = 0 /\ phase[born] = "settled" /\ closed[born] /\ ~disposed

\* What failedAttempts counts, by the state of the outage.
Counted ==
  /\ since <= MaxAttempts
  /\ GaveUp => since = MaxAttempts /\ client = 0 /\ ~timer
  /\ timer => failedAttempts = since + 1 /\ connectedAt = "down"
  /\ client # 0 => IF connectedAt = "stable" THEN since = 0 ELSE failedAttempts = since
  /\ phase[born] # "settled" => connectedAt = "down"

\* Whoever gave up has the clearing queued, or all is cleared and no swap that
\* could publish again has started.
Cleared ==
  GaveUp => \/ \E i \in 1..Len(chain) : chain[i].kind = "giveUp"
            \/ asked = Idle /\ \A k \in Kind : published[k] = 0

Queued == Awaited(chain, phase) /\ (asked # Idle => chain # <<>>)

SupervisorOK ==
  /\ disposed \in BOOLEAN /\ timer \in BOOLEAN /\ client \in Owner
  /\ failedAttempts \in 0..MaxAttempts + 1 /\ connectedAt \in {"down", "fresh", "stable"}

-----------------------------------------------------------------------------
(* Going down *)

LEMMA GiveUpType == GiveUp \in Swap /\ ~GiveUp.own /\ GiveUp.kind = "giveUp"
BY DEF Swap

\* What a disconnect decision does to the supervisor and leaves on the chain.
LEMMA DownShape ==
  ASSUME NEW g, NEW q, GenerationDown(g, q)
  PROVE  \/ UNCHANGED supervisor /\ chain' = q
         \/ /\ ~disposed /\ client = g /\ client' = 0 /\ disposed' = disposed
            /\ \/ chain' = q /\ UNCHANGED <<timer, failedAttempts, connectedAt>>
               \/ /\ failedAttempts' = (IF connectedAt = "stable" THEN 0 ELSE failedAttempts) + 1
                  /\ connectedAt' = "down"
                  /\ \/ failedAttempts' <= MaxAttempts /\ timer' = TRUE /\ chain' = q
                     \/ GaveUp' /\ timer' = timer /\ chain' = Append(q, GiveUp)
BY DEF GenerationDown, ScheduleReconnect

LEMMA DownChain ==
  ASSUME TypeOK, NEW g, NEW q \in Seq(Swap), GenerationDown(g, q)
  PROVE  /\ chain' = q \/ chain' = Append(q, GiveUp)
         /\ chain' \in Seq(Swap)
         /\ GaveUp' => (GaveUp /\ UNCHANGED supervisor) \/ (GaveUp /\ client = g)
                       \/ chain' = Append(q, GiveUp)
         /\ \A ph : Awaited(q, ph) => Awaited(chain', ph)
<1>1. chain' = q \/ chain' = Append(q, GiveUp)
  BY DownShape
<1>2. chain' \in Seq(Swap)
  BY <1>1, GiveUpType
<1>3. GaveUp' => (GaveUp /\ UNCHANGED supervisor) \/ (GaveUp /\ client = g)
                 \/ chain' = Append(q, GiveUp)
  <2>1. CASE UNCHANGED supervisor
    BY <2>1
  <2>2. CASE client = g /\ UNCHANGED failedAttempts
    BY <2>2
  <2>3. CASE failedAttempts' <= MaxAttempts
             /\ failedAttempts' = (IF connectedAt = "stable" THEN 0 ELSE failedAttempts) + 1
    BY <2>3 DEF TypeOK
  <2> QED  BY <2>1, <2>2, <2>3, DownShape
<1>4. \A ph : Awaited(q, ph) => Awaited(chain', ph)
  BY <1>1, GiveUpType, AwaitedAppend
<1> QED  BY <1>1, <1>2, <1>3, <1>4

LEMMA DownTypes ==
  ASSUME TypeOK, Counted, NEW g \in Gen, NEW q, GenerationDown(g, q)
  PROVE  SupervisorOK'
<1>1. CASE UNCHANGED supervisor
  BY <1>1 DEF TypeOK, SupervisorOK
<1>2. CASE /\ client = g /\ client' = 0 /\ disposed' = disposed
           /\ UNCHANGED <<timer, failedAttempts, connectedAt>>
  BY <1>2 DEF TypeOK, SupervisorOK
<1>3. CASE /\ client = g /\ client' = 0 /\ disposed' = disposed
           /\ failedAttempts' = (IF connectedAt = "stable" THEN 0 ELSE failedAttempts) + 1
           /\ connectedAt' = "down" /\ timer' \in {timer, TRUE}
  <2>1. failedAttempts \in Nat /\ ~GaveUp
    BY <1>3 DEF TypeOK, Counted
  <2>2. failedAttempts' \in 0..MaxAttempts + 1
    BY <1>3, <2>1
  <2>3. timer' \in BOOLEAN
    BY <1>3, Zenon DEF TypeOK
  <2>4. disposed' \in BOOLEAN
    BY <1>3, Zenon DEF TypeOK
  <2> QED  BY <1>3, <2>2, <2>3, <2>4 DEF SupervisorOK
<1> QED  BY <1>1, <1>2, <1>3, DownShape

\* A generation goes down when it is settled and closed.
LEMMA DownPlaced ==
  ASSUME TypeOK, Placed, Counted, NEW g \in Gen, NEW q, GenerationDown(g, q),
         UNCHANGED <<born, since>>, phase[g] # "none",
         phase' = phase \/ phase' = [phase EXCEPT ![g] = "settled"], phase'[g] = "settled",
         closed' = closed \/ closed' = [closed EXCEPT ![g] = TRUE], closed'[g]
  PROVE  Placed' /\ Counted'
<1>1. g <= born
  BY DEF TypeOK, Placed
<1>2. /\ \A e \in Gen : e # g => phase'[e] = phase[e] /\ closed'[e] = closed[e]
      /\ phase'[g] = "settled" /\ closed'[g]
  BY DEF TypeOK
<1>3. /\ \A e \in Gen : e < born => phase'[e] = "settled" /\ closed'[e]
      /\ \A e \in Gen : e > born => phase'[e] = "none" /\ ~closed'[e]
      /\ phase'[born] # "none"
  BY <1>1, <1>2 DEF TypeOK, Placed
<1>4. phase'[born] # "settled" => g # born /\ phase[born] # "settled"
  BY <1>2 DEF TypeOK
<1>5. CASE UNCHANGED supervisor
  <2>1. timer => phase'[born] = "settled" /\ closed'[born]
    BY <1>2 DEF Placed, TypeOK
  <2>2. Placed'
    BY <1>3, <1>5, <2>1 DEF Placed
  <2>3. Counted'
    BY <1>4, <1>5 DEF Counted
  <2> QED  BY <2>2, <2>3
<1>6. CASE ~disposed /\ client = g /\ client' = 0 /\ disposed' = disposed
  <2>1. g = born /\ ~timer /\ phase'[born] = "settled" /\ closed'[born] /\ born' = born
    BY <1>2, <1>6 DEF Placed, TypeOK
  <2>2. Placed'
    BY <1>3, <1>6, <2>1 DEF Placed
  <2>3. since \in Nat /\ failedAttempts \in Nat
    BY DEF TypeOK
  <2>4. CASE UNCHANGED <<timer, failedAttempts, connectedAt>>
    <3>1. ~GaveUp /\ since <= MaxAttempts
      BY <1>6 DEF Counted
    <3>2. ~timer' /\ ~GaveUp' /\ client' = 0 /\ phase'[born'] = "settled" /\ since' = since
      BY <1>6, <2>1, <2>4, <3>1
    <3>3. Counted'
      BY <3>1, <3>2 DEF Counted
    <3> QED  BY <2>2, <3>3
  <2>5. CASE /\ failedAttempts' = (IF connectedAt = "stable" THEN 0 ELSE failedAttempts) + 1
             /\ connectedAt' = "down"
             /\ (failedAttempts' <= MaxAttempts /\ timer' = TRUE) \/ (GaveUp' /\ timer' = timer)
    <3>1. failedAttempts' = since + 1 /\ since <= MaxAttempts
      BY <1>6, <2>3, <2>5 DEF Counted
    <3>2. GaveUp' => since = MaxAttempts /\ ~timer'
      BY <2>1, <2>3, <2>5, <3>1
    <3>3. client' = 0 /\ phase'[born'] = "settled" /\ since' = since /\ connectedAt' = "down"
      BY <1>6, <2>1, <2>5
    <3>4. Counted'
      BY <3>1, <3>2, <3>3 DEF Counted
    <3> QED  BY <2>2, <3>4
  <2> QED  BY <1>6, <2>2, <2>4, <2>5, DownShape
<1> QED  BY <1>5, <1>6, DownShape

-----------------------------------------------------------------------------
(* The steps of an attempt *)

Control ==
  /\ SupervisorOK /\ phase \in [Gen -> Phase] /\ chain \in Seq(Swap)
  /\ Placed /\ Counted /\ Awaited(chain, phase)

\* What was queued stays queued, and who gives up queues the clearing.
Kept(q) == \A i \in 1..Len(q) : \E j \in 1..Len(chain') : chain'[j] = q[i]
Clears == GaveUp' => GaveUp \/ \E j \in 1..Len(chain') : chain'[j].kind = "giveUp"

LEMMA KeptQueue ==
  ASSUME NEW q \in Seq(Swap), chain' = q \/ \E e \in Swap : chain' = Append(q, e)
  PROVE  Kept(q)
<1>1. CASE chain' = q
  BY <1>1 DEF Kept
<1>2. ASSUME NEW e \in Swap, chain' = Append(q, e) PROVE Kept(q)
  <2>1. \A i \in 1..Len(q) : i \in 1..Len(chain') /\ chain'[i] = q[i]
    BY <1>2, AppendFacts
  <2> QED  BY <2>1 DEF Kept
<1> QED  BY <1>1, <1>2

LEMMA GiveUpQueued ==
  ASSUME NEW q \in Seq(Swap), chain' = Append(q, GiveUp)
  PROVE  \E j \in 1..Len(chain') : chain'[j].kind = "giveUp"
<1>1. Len(chain') = Len(q) + 1 /\ chain'[Len(q) + 1] = GiveUp /\ Len(q) \in Nat
  BY GiveUpType, AppendFacts
<1> QED  BY <1>1, GiveUpType

LEMMA UnsettledIsLast ==
  ASSUME TypeOK, Placed, Counted, NEW g \in Gen, phase[g] \in Unsettled
  PROVE  g = born /\ ~timer /\ connectedAt = "down"
<1>1. g = born
  BY DEF TypeOK, Placed, Unsettled
<1>2. phase[born] # "settled"
  BY <1>1 DEF Unsettled
<1> QED  BY <1>1, <1>2 DEF Placed, Counted

\* An attempt goes from one wait to the next.
LEMMA MoveStep ==
  ASSUME TypeOK, Placed, Counted, NEW g \in Gen, phase[g] \in Unsettled,
         NEW l \in Unsettled, Goto(g, l), UNCHANGED <<supervisor, born, closed, since>>
  PROVE  SupervisorOK' /\ phase' \in [Gen -> Phase] /\ Placed' /\ Counted'
<1>1. g = born /\ ~timer /\ connectedAt = "down"
  BY UnsettledIsLast
<1>2. phase' \in [Gen -> Phase] /\ phase'[g] = l /\ \A e \in Gen : e # g => phase'[e] = phase[e]
  BY DEF TypeOK, Phase
<1>3. SupervisorOK'
  BY DEF TypeOK, SupervisorOK
<1>4. Placed'
  <2>1. /\ \A e \in Gen : e < born => phase'[e] = "settled"
        /\ \A e \in Gen : e > born => phase'[e] = "none"
        /\ phase'[born] # "none"
    BY <1>1, <1>2 DEF TypeOK, Placed, Unsettled
  <2> QED  BY <1>1, <2>1 DEF Placed
<1>5. Counted'
  BY <1>1 DEF Counted
<1> QED  BY <1>2, <1>3, <1>4, <1>5

\* An attempt settles in a disconnect decision.
LEMMA DownStep ==
  ASSUME TypeOK, Placed, Counted, NEW g \in Gen, phase[g] # "none", closed'[g],
         closed' = closed \/ closed' = [closed EXCEPT ![g] = TRUE],
         phase' = phase \/ phase' = [phase EXCEPT ![g] = "settled"], phase'[g] = "settled",
         NEW q \in Seq(Swap), GenerationDown(g, q), UNCHANGED <<born, since>>,
         Awaited(q, phase')
  PROVE  Control' /\ Kept(q) /\ Clears
<1>1. SupervisorOK'
  BY DownTypes
<1>2. Placed' /\ Counted'
  BY DownPlaced
<1>3. phase' \in [Gen -> Phase]
  BY DEF TypeOK, Phase
<1>4. chain' \in Seq(Swap) /\ Awaited(chain', phase') /\ (chain' = q \/ chain' = Append(q, GiveUp))
  BY DownChain
<1>5. Kept(q)
  BY <1>4, KeptQueue, GiveUpType
<1>6. Clears
  <2>1. GaveUp' => GaveUp \/ chain' = Append(q, GiveUp)
    BY DownChain
  <2> QED  BY <2>1, GiveUpQueued DEF Clears
<1> QED  BY <1>1, <1>2, <1>3, <1>4, <1>5, <1>6 DEF Control

LEMMA SettleStep ==
  ASSUME TypeOK, Placed, Counted, NEW g \in Gen, phase[g] \in Unsettled,
         NEW q \in Seq(Swap), Settle(g, q), UNCHANGED <<born, closed, since>>, NoOwn(q)
  PROVE  Control' /\ Kept(q) /\ Clears
<1>1. /\ phase' = [phase EXCEPT ![g] = "settled"] /\ phase'[g] = "settled" /\ phase[g] # "none"
      /\ phase' \in [Gen -> Phase] /\ \A e \in Gen : e # g => phase'[e] = phase[e]
  BY DEF Settle, TypeOK, Unsettled, Phase
<1>2. g = born /\ ~timer /\ connectedAt = "down"
  BY UnsettledIsLast
<1>3. Awaited(q, phase')
  BY NoOwnAwaited
<1>4. CASE closed[g] /\ GenerationDown(g, q)
  BY <1>1, <1>3, <1>4, DownStep
<1>5. CASE /\ ~closed[g] /\ chain' = q
           /\ connectedAt' = IF IsCurrent(g) THEN "fresh" ELSE connectedAt
           /\ UNCHANGED <<disposed, client, timer, failedAttempts>>
  <2>1. connectedAt' \in {"fresh", "down"} /\ (client # 0 => connectedAt' # "stable")
    BY <1>2, <1>5
  <2>2. SupervisorOK'
    BY <1>5, <2>1 DEF TypeOK, SupervisorOK
  <2>3. Placed'
    <3>1. /\ \A e \in Gen : e < born => phase'[e] = "settled"
          /\ \A e \in Gen : e > born => phase'[e] = "none"
          /\ phase'[born] # "none"
      BY <1>1, <1>2 DEF TypeOK, Placed
    <3> QED  BY <1>2, <1>5, <3>1 DEF Placed
  <2>4. Counted'
    BY <1>1, <1>2, <1>5, <2>1 DEF Counted
  <2>5. Kept(q)
    BY <1>5, KeptQueue
  <2>6. Clears
    BY <1>5 DEF Clears
  <2> QED  BY <1>1, <1>3, <1>5, <2>2, <2>3, <2>4, <2>5, <2>6 DEF Control
<1> QED  BY <1>4, <1>5 DEF Settle

LEMMA QueueStep ==
  ASSUME TypeOK, Placed, Counted, NEW g \in Gen, phase[g] \in Unsettled, NEW done,
         NEW q \in Seq(Swap), Queue(g, done, q), UNCHANGED <<born, closed, since>>, NoOwn(q)
  PROVE  Control' /\ Kept(q) /\ Clears
<1>1. CASE Settle(g, q)
  BY <1>1, SettleStep
<1>2. CASE /\ chain' = Append(q, Own(NextSwap(done), g))
           /\ Goto(g, NextSwap(done)) /\ UNCHANGED supervisor
  <2> DEFINE e == Own(NextSwap(done), g)
  <2>1. NextSwap(done) \in Kind /\ NextSwap(done) \in Unsettled
    BY DEF NextSwap, Kind, Unsettled
  <2>2. e \in Swap /\ e.gen = g /\ e.kind = NextSwap(done)
    BY <2>1 DEF Own, Swap
  <2>3. SupervisorOK' /\ phase' \in [Gen -> Phase] /\ Placed' /\ Counted'
    BY <1>2, <2>1, MoveStep
  <2>4. phase'[g] = e.kind
    BY <1>2, <2>2 DEF TypeOK
  <2> HIDE DEF e
  <2>5. chain' = Append(q, e)
    BY <1>2 DEF e
  <2>6. chain' \in Seq(Swap) /\ Awaited(chain', phase')
    BY <2>2, <2>4, <2>5, AwaitedOwn, AppendFacts
  <2>7. Kept(q)
    BY <2>2, <2>5, KeptQueue
  <2>8. Clears
    BY <1>2 DEF Clears
  <2> QED  BY <2>3, <2>6, <2>7, <2>8 DEF Control
<1> QED  BY <1>1, <1>2 DEF Queue

\* The head of the chain is done, and its attempt goes on.
LEMMA ResumeStep ==
  ASSUME TypeOK, Placed, Counted, Awaited(chain, phase), chain # <<>>, NEW ok, Resume(ok),
         UNCHANGED <<born, closed, since>>
  PROVE  Control' /\ Kept(Tail(chain)) /\ Clears
<1> DEFINE q == Tail(chain)
<1>1. q \in Seq(Swap) /\ swap \in Swap /\ swap = chain[1] /\ 1 \in 1..Len(chain)
  BY TailFacts DEF TypeOK, swap
<1>2. Awaited(q, phase) /\ (swap.own => NoOwn(q))
  BY AwaitedTail DEF TypeOK, swap
<1> HIDE DEF q
<1>3. CASE chain' = q /\ UNCHANGED <<supervisor, phase>>
  <2>1. SupervisorOK' /\ phase' \in [Gen -> Phase] /\ Placed' /\ Counted'
    BY <1>3 DEF TypeOK, SupervisorOK, Placed, Counted
  <2>2. Kept(q)
    BY <1>1, <1>3, KeptQueue
  <2>3. chain' \in Seq(Swap) /\ Awaited(chain', phase') /\ Clears
    BY <1>1, <1>2, <1>3 DEF Clears
  <2> QED  BY <2>1, <2>2, <2>3 DEF Control, q
<1>4. ASSUME swap.own PROVE swap.gen \in Gen /\ phase[swap.gen] \in Unsettled
  <2>1. swap.gen \in Gen /\ phase[swap.gen] = swap.kind
    BY <1>1, <1>4 DEF Awaited
  <2>2. swap.kind \in Kind
    BY <1>1, <2>1 DEF TypeOK, Swap, Phase, Unsettled, Kind
  <2> QED  BY <2>1, <2>2 DEF Kind, Unsettled
<1>5. CASE swap.own /\ Queue(swap.gen, DoneAt[swap.kind], q)
  BY <1>1, <1>2, <1>4, <1>5, QueueStep DEF q
<1>6. CASE swap.own /\ chain' = q /\ Goto(swap.gen, "closing") /\ UNCHANGED supervisor
  <2>1. SupervisorOK' /\ phase' \in [Gen -> Phase] /\ Placed' /\ Counted'
    <3>1. "closing" \in Unsettled
      BY DEF Unsettled
    <3> QED  BY <1>4, <1>6, <3>1, MoveStep
  <2>2. chain' \in Seq(Swap) /\ Awaited(chain', phase')
    BY <1>1, <1>2, <1>6, NoOwnAwaited
  <2>3. Kept(q) /\ Clears
    BY <1>1, <1>6, KeptQueue DEF Clears
  <2> QED  BY <2>1, <2>2, <2>3 DEF Control, q
<1> QED  BY <1>3, <1>5, <1>6 DEF Resume, q

-----------------------------------------------------------------------------
(* The inductive invariant *)

IInv == TypeOK /\ Placed /\ Counted /\ Queued /\ Cleared

Data ==
  /\ born \in Gen /\ since \in Nat /\ closed \in [Gen -> BOOLEAN] /\ asked \in 0..Idle
  /\ registrations \in [Kind -> Owner] /\ published \in [Kind -> Owner]
  /\ list \in 0..MaxList /\ told \in 0..MaxList /\ held \in 0..MaxList
  /\ teardown \in {"live", "closing", "settling", "draining", "done"}
  /\ missed \in BOOLEAN /\ loading \in BOOLEAN

LEMMA TypeParts ==
  ASSUME SupervisorOK, Data, phase \in [Gen -> Phase], chain \in Seq(Swap)
  PROVE  TypeOK
BY Zenon DEF TypeOK, SupervisorOK, Data

LEMMA TypeParts2 ==
  ASSUME Control', Data' PROVE TypeOK' /\ Placed' /\ Counted' /\ Awaited(chain, phase)'
<1>1. TypeOK'
  BY Zenon DEF TypeOK, SupervisorOK, Data, Control
<1> QED  BY <1>1 DEF Control

LEMMA InitInv == ASSUME Init PROVE IInv
<1>1. TypeOK
  <2>1. SupervisorOK
    <3>1. client \in Owner /\ failedAttempts \in 0..MaxAttempts + 1
      BY DEF Init
    <3>2. disposed \in BOOLEAN /\ timer \in BOOLEAN
      BY Zenon DEF Init
    <3>3. connectedAt \in {"down", "fresh", "stable"}
      BY DEF Init
    <3> QED  BY <3>1, <3>2, <3>3 DEF SupervisorOK
  <2>2. Data
    <3>1. closed \in [Gen -> BOOLEAN] /\ missed \in BOOLEAN /\ loading \in BOOLEAN
      BY Zenon DEF Init
    <3>2. /\ born \in Gen /\ since \in Nat /\ asked \in 0..Idle
          /\ registrations \in [Kind -> Owner] /\ published \in [Kind -> Owner]
          /\ list \in 0..MaxList /\ told \in 0..MaxList /\ held \in 0..MaxList
          /\ teardown \in {"live", "closing", "settling", "draining", "done"}
      BY DEF Init, Idle
    <3> QED  BY <3>1, <3>2 DEF Data
  <2>3. phase \in [Gen -> Phase] /\ chain \in Seq(Swap)
    BY DEF Init, Phase, Unsettled
  <2> QED  BY <2>1, <2>2, <2>3, TypeParts
<1>2. Placed
  BY DEF Init, Placed
<1>3. Counted
  BY DEF Init, Counted
<1>4. Queued /\ Cleared
  BY DEF Init, Queued, Awaited, Cleared
<1> QED  BY <1>1, <1>2, <1>3, <1>4 DEF IInv

\* A step that leaves what is queued and what is registered.
LEMMA QuietStep ==
  ASSUME IInv, Control', Data', Kept(chain), Clears, UNCHANGED <<asked, published>>
  PROVE  IInv'
<1>1. TypeOK' /\ Placed' /\ Counted' /\ Awaited(chain, phase)'
  BY TypeParts2
<1>2. asked' # Idle => chain' # <<>>
  <2>1. ASSUME asked # Idle PROVE 1 \in 1..Len(chain)
    BY <2>1, TailFacts DEF IInv, TypeOK, Queued
  <2>2. ASSUME asked # Idle PROVE \E j \in 1..Len(chain') : TRUE
    BY <2>1, <2>2 DEF Kept
  <2> QED  BY <2>2
<1>3. Cleared'
  <2> SUFFICES ASSUME GaveUp'
               PROVE  \/ \E j \in 1..Len(chain') : chain'[j].kind = "giveUp"
                      \/ asked' = Idle /\ \A k \in Kind : published'[k] = 0
    BY DEF Cleared
  <2>1. CASE GaveUp
    BY <2>1 DEF IInv, Cleared, Kept
  <2>2. CASE ~GaveUp
    BY <2>2 DEF Clears
  <2> QED  BY <2>1, <2>2
<1>4. Queued'
  BY <1>1, <1>2 DEF Queued, Idle
<1> QED  BY <1>1, <1>3, <1>4 DEF IInv

\* A step that ends the swap at the head of the chain.
LEMMA PoppedStep ==
  ASSUME IInv, Control', Data', chain # <<>>, swap.kind # "giveUp",
         Kept(Tail(chain)), Clears, asked' = Idle,
         GaveUp /\ asked = Idle => UNCHANGED published
  PROVE  IInv'
<1>1. TypeOK' /\ Placed' /\ Counted' /\ Awaited(chain, phase)'
  BY TypeParts2
<1>2. Queued'
  BY <1>1 DEF Queued, Idle
<1>3. Cleared'
  <2> SUFFICES ASSUME GaveUp'
               PROVE  \/ \E j \in 1..Len(chain') : chain'[j].kind = "giveUp"
                      \/ asked' = Idle /\ \A k \in Kind : published'[k] = 0
    BY DEF Cleared
  <2>1. CASE ~GaveUp
    BY <2>1 DEF Clears
  <2>2. ASSUME NEW i \in 1..Len(chain), chain[i].kind = "giveUp"
        PROVE  \E j \in 1..Len(chain') : chain'[j].kind = "giveUp"
    <3>1. /\ Len(chain) \in Nat /\ Len(Tail(chain)) = Len(chain) - 1 /\ swap = chain[1]
          /\ \A j \in 1..Len(chain) - 1 : Tail(chain)[j] = chain[j + 1]
      BY TailFacts DEF IInv, TypeOK, swap
    <3>2. i # 1 /\ i - 1 \in 1..Len(Tail(chain)) /\ i - 1 \in 1..Len(chain) - 1
      BY <2>2, <3>1
    <3>3. Tail(chain)[i - 1] = chain[i]
      BY <3>1, <3>2
    <3> QED  BY <2>2, <3>2, <3>3 DEF Kept
  <2>3. CASE GaveUp /\ asked = Idle /\ \A k \in Kind : published[k] = 0
    BY <2>3
  <2> QED  BY <2>1, <2>2, <2>3 DEF IInv, Cleared
<1> QED  BY <1>1, <1>2, <1>3 DEF IInv

\* A step outside the supervisor.
LEMMA CalmStep ==
  ASSUME IInv, UNCHANGED <<supervisor, attempt, closed, chain, since>>
  PROVE  Control' /\ Kept(chain) /\ Clears
<1>1. Control'
  BY DEF IInv, TypeOK, Control, SupervisorOK, Placed, Counted, Queued, Awaited
<1>2. Kept(chain)
  BY KeptQueue DEF IInv, TypeOK
<1> QED  BY <1>1, <1>2 DEF Clears

-----------------------------------------------------------------------------
(* Going down, coming up *)

LEMMA CloseSignalStep == ASSUME IInv, NEW g \in Gen, CloseSignal(g) PROVE IInv'
<1>1. Data'
  BY DEF IInv, TypeOK, CloseSignal, Data
<1>2. closed' = [closed EXCEPT ![g] = TRUE] /\ closed'[g] /\ phase' = phase /\ phase[g] # "none"
  BY DEF IInv, TypeOK, CloseSignal
<1>3. Control' /\ Kept(chain) /\ Clears
  <2>1. CASE phase[g] = "settled" /\ GenerationDown(g, chain)
    <3>1. Awaited(chain, phase')
      BY <1>2 DEF IInv, Queued
    <3> QED  BY <1>2, <2>1, <3>1, DownStep DEF IInv, TypeOK, CloseSignal
  <2>2. CASE UNCHANGED <<supervisor, chain>>
    <3>1. \A e \in Gen : closed'[e] = IF e = g THEN TRUE ELSE closed[e]
      BY <1>2 DEF IInv, TypeOK
    <3>2. Placed'
      BY <1>2, <2>2, <3>1 DEF IInv, TypeOK, Placed, CloseSignal
    <3>3. Control'
      BY <1>2, <2>2, <3>2 DEF IInv, TypeOK, Control, SupervisorOK, Counted, Queued, Awaited, CloseSignal
    <3>4. Kept(chain) /\ Clears
      BY <2>2, KeptQueue DEF IInv, TypeOK, Clears
    <3> QED  BY <3>3, <3>4
  <2> QED  BY <2>1, <2>2 DEF CloseSignal
<1> QED  BY <1>1, <1>3, QuietStep DEF CloseSignal

LEMMA ReconnectStep == ASSUME IInv, Reconnect PROVE IInv'
<1> DEFINE n == born + 1
<1>1. /\ n \in Gen /\ born' = n /\ client' = n /\ phase' = [phase EXCEPT ![n] = "connecting"]
      /\ since' = since + 1 /\ ~timer'
  BY DEF IInv, TypeOK, Reconnect
<1>2. /\ client = 0 /\ phase[born] = "settled" /\ closed[born] /\ ~disposed
      /\ failedAttempts = since + 1 /\ connectedAt = "down" /\ ~GaveUp
      /\ phase[n] = "none" /\ ~closed[n]
  BY <1>1 DEF IInv, TypeOK, Placed, Counted, Reconnect
<1>3. phase'[n] = "connecting" /\ \A e \in Gen : e # n => phase'[e] = phase[e]
  BY <1>1 DEF IInv, TypeOK
<1>4. Data'
  BY <1>1 DEF IInv, TypeOK, Reconnect, Data
<1>5. SupervisorOK' /\ phase' \in [Gen -> Phase] /\ chain' \in Seq(Swap)
  <2>1. disposed' \in BOOLEAN /\ timer' \in BOOLEAN
    BY <1>1, Zenon DEF IInv, TypeOK, Reconnect
  <2>2. client' \in Owner
    BY <1>1
  <2>3. failedAttempts' \in 0..MaxAttempts + 1 /\ connectedAt' \in {"down", "fresh", "stable"}
    BY DEF IInv, TypeOK, Reconnect
  <2>4. phase' \in [Gen -> Phase] /\ chain' \in Seq(Swap)
    BY <1>1 DEF IInv, TypeOK, Reconnect, Phase, Unsettled
  <2> QED  BY <2>1, <2>2, <2>3, <2>4 DEF SupervisorOK
<1>6. Placed'
  <2>1. /\ \A e \in Gen : e < n => phase'[e] = "settled" /\ closed[e]
        /\ \A e \in Gen : e > n => phase'[e] = "none" /\ ~closed[e]
    BY <1>1, <1>2, <1>3 DEF IInv, TypeOK, Placed
  <2> QED  BY <1>1, <1>2, <1>3, <2>1 DEF Placed, Reconnect
<1>7. Counted'
  BY <1>1, <1>2 DEF IInv, TypeOK, Counted, Reconnect
<1>8. Awaited(chain', phase')
  <2>1. phase[n] \notin Kind
    BY <1>2 DEF Kind
  <2>2. /\ chain \in Seq(Swap) /\ phase \in [Gen -> Phase] /\ Awaited(chain, phase)
        /\ chain' = chain
    BY DEF IInv, TypeOK, Queued, Reconnect
  <2> HIDE DEF n
  <2>3. Awaited(chain, [phase EXCEPT ![n] = "connecting"])
    BY <1>1, <2>1, <2>2, AwaitedGoto
  <2> QED  BY <1>1, <2>2, <2>3
<1>9. Kept(chain) /\ Clears
  BY KeptQueue DEF IInv, TypeOK, Clears, Reconnect
<1> QED  BY <1>4, <1>5, <1>6, <1>7, <1>8, <1>9, QuietStep DEF Control, Reconnect

LEMMA AgeStep == ASSUME IInv, Age PROVE IInv'
<1>1. Data'
  BY DEF IInv, TypeOK, Age, Data
<1>2. SupervisorOK' /\ phase' \in [Gen -> Phase] /\ chain' \in Seq(Swap)
  BY DEF IInv, TypeOK, Age, SupervisorOK
<1>3. Placed' /\ Counted'
  BY DEF IInv, TypeOK, Age, Placed, Counted
<1>4. Kept(chain) /\ Clears /\ Awaited(chain', phase')
  BY KeptQueue DEF IInv, TypeOK, Clears, Age, Queued
<1> QED  BY <1>1, <1>2, <1>3, <1>4, QuietStep DEF Control, Age

-----------------------------------------------------------------------------
(* The attempt *)

LEMMA ConnectedStep == ASSUME IInv, NEW g \in Gen, Connected(g) PROVE IInv'
<1>1. phase[g] \in Unsettled /\ phase[g] \notin Kind /\ phase[g] # "none" /\ g = born
  BY UnsettledIsLast DEF Connected, Unsettled, Kind, IInv
<1>2. Data'
  BY DEF IInv, TypeOK, Connected, Data
<1>3. Control' /\ Kept(chain) /\ Clears
  <2>1. CASE closed[g] /\ Goto(g, "settled") /\ GenerationDown(g, chain)
    <3>1. Awaited(chain, phase')
      BY <1>1, <2>1, AwaitedGoto DEF IInv, TypeOK, Queued
    <3>2. phase'[g] = "settled" /\ closed'[g] /\ closed' = closed
      BY <2>1 DEF IInv, TypeOK, Connected
    <3> QED  BY <1>1, <2>1, <3>1, <3>2, DownStep DEF IInv, TypeOK, Connected
  <2>2. CASE Queue(g, {}, chain)
    <3>1. NoOwn(chain)
      <4>1. ASSUME NEW i \in 1..Len(chain), chain[i].own PROVE FALSE
        <5>1. chain[i].gen \in Gen /\ phase[chain[i].gen] = chain[i].kind /\ chain[i] \in Swap
          BY <4>1 DEF IInv, TypeOK, Queued, Awaited
        <5>2. phase[chain[i].gen] \in Unsettled /\ phase[chain[i].gen] \in Kind
          BY <5>1 DEF IInv, TypeOK, Swap, Phase, Unsettled, Kind
        <5>3. chain[i].gen = g
          BY <1>1, <5>1, <5>2, UnsettledIsLast DEF IInv
        <5> QED  BY <1>1, <5>2, <5>3
      <4> QED  BY <4>1 DEF NoOwn
    <3> QED  BY <1>1, <2>2, <3>1, QueueStep DEF IInv, TypeOK, Connected
  <2> QED  BY <2>1, <2>2 DEF Connected
<1> QED  BY <1>2, <1>3, QuietStep DEF Connected

LEMMA ConnectRejectedStep == ASSUME IInv, NEW g \in Gen, ConnectRejected(g) PROVE IInv'
<1>1. phase[g] \in Unsettled /\ phase[g] \notin Kind /\ "closing" \in Unsettled
  BY DEF ConnectRejected, Unsettled, Kind
<1>2. Data'
  BY DEF IInv, TypeOK, ConnectRejected, Data
<1>3. SupervisorOK' /\ phase' \in [Gen -> Phase] /\ Placed' /\ Counted'
  BY <1>1, MoveStep DEF IInv, ConnectRejected
<1>4. Awaited(chain', phase') /\ chain' \in Seq(Swap)
  BY <1>1, AwaitedGoto DEF IInv, TypeOK, Queued, ConnectRejected
<1>5. Kept(chain) /\ Clears
  BY KeptQueue DEF IInv, TypeOK, Clears, ConnectRejected
<1> QED  BY <1>2, <1>3, <1>4, <1>5, QuietStep DEF Control, ConnectRejected

LEMMA QuiescedStep == ASSUME IInv, NEW g \in Gen, Quiesced(g) PROVE IInv'
<1>1. phase[g] \notin Kind /\ phase[g] # "none"
  BY DEF Quiesced, Kind
<1>2. Data'
  BY DEF IInv, TypeOK, Quiesced, Data
<1>3. Awaited(chain, phase')
  BY <1>1, AwaitedGoto DEF IInv, TypeOK, Queued, Quiesced
<1>4. phase'[g] = "settled" /\ closed'[g] /\ closed' = closed
  BY DEF IInv, TypeOK, Quiesced
<1>5. Control' /\ Kept(chain) /\ Clears
  BY <1>1, <1>3, <1>4, DownStep DEF IInv, TypeOK, Quiesced
<1> QED  BY <1>2, <1>5, QuietStep DEF Quiesced

LEMMA NotQuiescedStep == ASSUME IInv, NEW g \in Gen, NotQuiesced(g) PROVE IInv'
<1>1. phase[g] \in Unsettled /\ phase[g] \notin Kind
  BY DEF NotQuiesced, Unsettled, Kind
<1>2. g = born /\ ~timer /\ connectedAt = "down"
  BY <1>1, UnsettledIsLast DEF IInv
<1>3. client' = 0
  BY <1>2 DEF IInv, Placed, NotQuiesced
<1>4. /\ phase' \in [Gen -> Phase] /\ phase'[g] = "settled"
      /\ \A e \in Gen : e # g => phase'[e] = phase[e]
  BY DEF IInv, TypeOK, NotQuiesced, Phase
<1>5. Data'
  BY DEF IInv, TypeOK, NotQuiesced, Data
<1>6. SupervisorOK' /\ chain' \in Seq(Swap)
  BY <1>3 DEF IInv, TypeOK, NotQuiesced, SupervisorOK
<1>7. Placed'
  BY <1>2, <1>3, <1>4 DEF IInv, TypeOK, Placed, NotQuiesced
<1>8. Counted'
  BY <1>2, <1>3, <1>4 DEF IInv, TypeOK, Counted, NotQuiesced
<1>9. Awaited(chain', phase')
  BY <1>1, AwaitedGoto DEF IInv, TypeOK, Queued, NotQuiesced
<1>10. Kept(chain) /\ Clears
  BY KeptQueue DEF IInv, TypeOK, Clears, NotQuiesced
<1> QED  BY <1>4, <1>5, <1>6, <1>7, <1>8, <1>9, <1>10, QuietStep DEF Control, NotQuiesced

-----------------------------------------------------------------------------
(* The chain of swaps *)

\* The owners a swap may name.
LEMMA HeadFacts ==
  ASSUME IInv, chain # <<>>
  PROVE  /\ swap \in Swap /\ swap.gen \in Owner /\ Tail(chain) \in Seq(Swap)
         /\ swap.kind # "giveUp" => swap.gen \in Gen
<1>1. swap \in Swap /\ Tail(chain) \in Seq(Swap)
  BY TailFacts DEF IInv, TypeOK, swap
<1>2. \A s \in Swap : s.gen \in Owner /\ (s.kind # "giveUp" => s.gen \in Gen)
  BY DEF Swap
<1> QED  BY <1>1, <1>2

\* A supervisor with a client has not given up.
LEMMA ServedHasBudget ==
  ASSUME IInv, chain # <<>>, swap.kind # "giveUp", IsCurrent(swap.gen)
  PROVE  ~GaveUp
<1>1. client \in Gen
  BY HeadFacts
<1> QED  BY <1>1 DEF IInv, Counted

LEMMA RegisterTypes ==
  ASSUME IInv, NEW kind, NEW o \in Owner, NEW p \in Owner, Register(kind, o, p)
  PROVE  registrations' \in [Kind -> Owner] /\ published' \in [Kind -> Owner]
BY DEF IInv, TypeOK, Register

\* A swap that is done resumes its attempt.
LEMMA ResumedStep ==
  ASSUME IInv, chain # <<>>, swap.kind # "giveUp", NEW ok, Resume(ok), RestOfSwap,
         asked' = Idle, GaveUp /\ asked = Idle => UNCHANGED published,
         registrations' \in [Kind -> Owner], published' \in [Kind -> Owner],
         held' \in 0..MaxList, missed' \in BOOLEAN, loading' \in BOOLEAN
  PROVE  IInv'
<1>1. Control' /\ Kept(Tail(chain)) /\ Clears
  BY ResumeStep DEF IInv, Queued, RestOfSwap
<1>2. Data'
  BY DEF IInv, TypeOK, Data, RestOfSwap, Idle
<1> QED  BY <1>1, <1>2, PoppedStep

LEMMA SwapGiveUpStep == ASSUME IInv, SwapGiveUp PROVE IInv'
<1>1. chain # <<>> /\ asked' = Idle /\ \A k \in Kind : published'[k] = 0
  BY DEF SwapGiveUp, At, Clear
<1>2. Data'
  BY DEF IInv, TypeOK, SwapGiveUp, Clear, RestOfSwap, Data
<1>3. SupervisorOK' /\ phase' \in [Gen -> Phase] /\ Placed' /\ Counted'
  BY DEF IInv, TypeOK, SwapGiveUp, SupervisorOK, RestOfSwap, Placed, Counted
<1>4. chain' \in Seq(Swap) /\ Awaited(chain', phase')
  BY <1>1, HeadFacts, AwaitedTail DEF IInv, TypeOK, Queued, SwapGiveUp
<1>5. TypeOK' /\ Placed' /\ Counted' /\ Awaited(chain, phase)'
  BY <1>2, <1>3, <1>4, TypeParts2 DEF Control
<1> QED  BY <1>1, <1>5 DEF IInv, Queued, Cleared, Idle

LEMMA SwapSkippedStep == ASSUME IInv, SwapSkipped PROVE IInv'
<1>1. /\ registrations' \in [Kind -> Owner] /\ published' \in [Kind -> Owner]
      /\ held' \in 0..MaxList /\ missed' \in BOOLEAN /\ loading' \in BOOLEAN
  BY DEF IInv, TypeOK, SwapSkipped
<1>2. chain # <<>> /\ swap.kind # "giveUp" /\ asked' = Idle /\ UNCHANGED published
      /\ Resume(TRUE) /\ RestOfSwap
  BY DEF SwapSkipped
<1> QED  BY <1>1, <1>2, ResumedStep

LEMMA SwapAsksStep == ASSUME IInv, SwapAsks PROVE IInv'
<1>1. chain # <<>> /\ chain' = chain /\ published' = published
  BY DEF SwapAsks, At
<1>2. ~GaveUp
  <2>1. swap.kind # "giveUp" /\ IsCurrent(swap.gen)
    BY DEF SwapAsks, At
  <2> QED  BY <1>1, <2>1, ServedHasBudget
<1>3. Data'
  BY DEF IInv, TypeOK, SwapAsks, RestOfSwap, Data, Idle
<1>4. Control' /\ Kept(chain) /\ Clears
  BY CalmStep DEF SwapAsks, RestOfSwap
<1>5. TypeOK' /\ Placed' /\ Counted' /\ Awaited(chain, phase)'
  BY <1>3, <1>4, TypeParts2
<1>6. Cleared'
  BY <1>2 DEF Cleared, SwapAsks
<1> QED  BY <1>1, <1>5, <1>6 DEF IInv, Queued

LEMMA SwapResourcesStep == ASSUME IInv, SwapResources PROVE IInv'
<1>1. /\ chain # <<>> /\ swap.kind = "resources" /\ IsCurrent(swap.gen) /\ asked' = Idle
      /\ Resume(TRUE) /\ RestOfSwap /\ UNCHANGED <<loading, held, missed>>
  BY DEF SwapResources, At
<1>2. PICK o \in Owner : Register("resources", o, o)
  BY <1>1, HeadFacts DEF SwapResources
<1>3. registrations' \in [Kind -> Owner] /\ published' \in [Kind -> Owner]
  BY <1>2, RegisterTypes
<1>4. held' \in 0..MaxList /\ missed' \in BOOLEAN /\ loading' \in BOOLEAN
  BY <1>1 DEF IInv, TypeOK
<1>5. ~GaveUp
  BY <1>1, ServedHasBudget
<1> QED  BY <1>1, <1>3, <1>4, <1>5, ResumedStep

LEMMA ToolsListedStep == ASSUME IInv, ToolsListed PROVE IInv'
<1>1. /\ asked # Idle /\ chain # <<>> /\ swap.kind = "tools" /\ asked' = Idle
      /\ Resume(TRUE) /\ RestOfSwap /\ missed' = FALSE
  BY DEF ToolsListed, Answering, IInv, Queued
<1>2. registrations' \in [Kind -> Owner] /\ published' \in [Kind -> Owner]
  BY <1>1, HeadFacts, RegisterTypes DEF ToolsListed
<1>3. held' \in 0..MaxList /\ loading' \in BOOLEAN
  BY <1>1 DEF ToolsListed, IInv, TypeOK, Idle
<1> QED  BY <1>1, <1>2, <1>3, ResumedStep

LEMMA ToolsRefusedStep == ASSUME IInv, ToolsRefused PROVE IInv'
<1>1. /\ asked # Idle /\ chain # <<>> /\ swap.kind = "tools" /\ asked' = Idle
      /\ RestOfSwap /\ missed' = TRUE /\ held' = held
  BY DEF ToolsRefused, Answering, IInv, Queued
<1>2. \E ok : Resume(ok)
  BY DEF ToolsRefused
<1>3. PICK o \in Owner : Register("tools", o, 0)
  <2>1. registrations["tools"] \in Owner /\ 0 \in Owner
    BY DEF IInv, TypeOK, Kind
  <2> QED  BY <2>1 DEF ToolsRefused
<1>4. registrations' \in [Kind -> Owner] /\ published' \in [Kind -> Owner]
  BY <1>3, RegisterTypes
<1>5. held' \in 0..MaxList /\ loading' \in BOOLEAN
  BY <1>1 DEF IInv, TypeOK, ToolsRefused
<1> QED  BY <1>1, <1>2, <1>4, <1>5, ResumedStep

LEMMA ToolsFailedStep == ASSUME IInv, ToolsFailed PROVE IInv'
<1>1. /\ asked # Idle /\ chain # <<>> /\ swap.kind = "tools" /\ asked' = Idle
      /\ Resume(FALSE) /\ RestOfSwap /\ missed' = TRUE /\ held' = held
      /\ registrations' = registrations /\ published' = published
  BY DEF ToolsFailed, Answering, IInv, Queued
<1>2. /\ registrations' \in [Kind -> Owner] /\ published' \in [Kind -> Owner]
      /\ held' \in 0..MaxList /\ loading' \in BOOLEAN
  BY <1>1 DEF IInv, TypeOK, ToolsFailed
<1> QED  BY <1>1, <1>2, ResumedStep

LEMMA PromptRegisteredStep == ASSUME IInv, PromptRegistered PROVE IInv'
<1>1. loading' = TRUE
  BY DEF PromptRegistered
<1>2. Data'
  BY <1>1 DEF IInv, TypeOK, PromptRegistered, RestOfSwap, Data
<1>3. Control' /\ Kept(chain) /\ Clears
  BY CalmStep DEF PromptRegistered, RestOfSwap
<1> QED  BY <1>2, <1>3, QuietStep DEF PromptRegistered

LEMMA PromptsListedStep == ASSUME IInv, PromptsListed PROVE IInv'
<1>1. /\ asked # Idle /\ chain # <<>> /\ swap.kind = "prompts" /\ asked' = Idle
      /\ Resume(TRUE) /\ RestOfSwap /\ loading' = FALSE /\ UNCHANGED <<held, missed>>
  BY DEF PromptsListed, Answering, IInv, Queued
<1>2. PICK o \in Owner : Register("prompts", o, o)
  BY <1>1, HeadFacts DEF PromptsListed
<1>3. registrations' \in [Kind -> Owner] /\ published' \in [Kind -> Owner]
  BY <1>2, RegisterTypes
<1>4. held' \in 0..MaxList /\ missed' \in BOOLEAN /\ loading' \in BOOLEAN
  BY <1>1 DEF IInv, TypeOK
<1> QED  BY <1>1, <1>3, <1>4, ResumedStep

-----------------------------------------------------------------------------
(* The server, and dispose() *)

LEMMA ListChangesStep == ASSUME IInv, ListChanges PROVE IInv'
<1>1. Data'
  BY DEF IInv, TypeOK, ListChanges, Data
<1>2. Control' /\ Kept(chain) /\ Clears
  BY CalmStep DEF ListChanges
<1> QED  BY <1>1, <1>2, QuietStep DEF ListChanges

LEMMA NotifiedStep == ASSUME IInv, NEW g \in Gen, NEW k \in Kind, Notified(k, g) PROVE IInv'
<1> DEFINE e == [kind |-> k, gen |-> g, own |-> FALSE]
<1>1. e \in Swap /\ ~e.own
  BY DEF Swap
<1>2. /\ UNCHANGED <<supervisor, attempt, closed, asked, swaps, list, teardown, since>>
      /\ told' \in 0..MaxList
  BY DEF Notified, Announced, IInv, TypeOK
<1>3. chain' = chain \/ chain' = Append(chain, e)
  BY DEF Notified
<1> HIDE DEF e
<1>4. Data'
  BY <1>2 DEF IInv, TypeOK, Data
<1>5. SupervisorOK' /\ phase' \in [Gen -> Phase] /\ Placed' /\ Counted'
  BY <1>2 DEF IInv, TypeOK, SupervisorOK, Placed, Counted
<1>6. chain' \in Seq(Swap) /\ Awaited(chain', phase')
  <2>1. chain \in Seq(Swap) /\ Awaited(chain, phase) /\ phase' = phase
    BY <1>2 DEF IInv, TypeOK, Queued
  <2>2. Append(chain, e) \in Seq(Swap) /\ Awaited(Append(chain, e), phase)
    BY <1>1, <2>1, AppendFacts, AwaitedAppend
  <2> QED  BY <1>3, <2>1, <2>2
<1>7. Kept(chain) /\ Clears
  BY <1>1, <1>2, <1>3, KeptQueue DEF IInv, TypeOK, Clears
<1> QED  BY <1>2, <1>4, <1>5, <1>6, <1>7, QuietStep DEF Control

LEMMA DisposeStep == ASSUME IInv, Dispose PROVE IInv'
<1>1. Data'
  BY DEF IInv, TypeOK, Dispose, Data
<1>2. SupervisorOK' /\ phase' \in [Gen -> Phase] /\ chain' \in Seq(Swap)
  <2>1. disposed' \in BOOLEAN /\ timer' \in BOOLEAN
    BY Zenon DEF Dispose
  <2>2. client' \in Owner /\ failedAttempts' \in 0..MaxAttempts + 1
    BY DEF IInv, TypeOK, Dispose
  <2>3. connectedAt' \in {"down", "fresh", "stable"} /\ phase' \in [Gen -> Phase]
        /\ chain' \in Seq(Swap)
    BY DEF IInv, TypeOK, Dispose
  <2> QED  BY <2>1, <2>2, <2>3 DEF SupervisorOK
<1>3. Placed' /\ Counted'
  <2>1. ~timer' /\ client' = 0 /\ UNCHANGED <<attempt, closed, since, failedAttempts, connectedAt>>
    BY DEF Dispose
  <2>2. Placed'
    BY <2>1 DEF IInv, Placed
  <2>3. Counted'
    BY <2>1 DEF IInv, Counted
  <2> QED  BY <2>2, <2>3
<1>4. Kept(chain) /\ Clears /\ Awaited(chain', phase')
  BY KeptQueue DEF IInv, TypeOK, Clears, Dispose, Queued
<1> QED  BY <1>1, <1>2, <1>3, <1>4, QuietStep DEF Control, Dispose

LEMMA TeardownStep == ASSUME IInv, Teardown PROVE IInv'
<1>1. CASE DisposeClosed \/ DisposeSettled
  <2>1. Data'
    BY <1>1 DEF IInv, TypeOK, DisposeClosed, DisposeSettled, Data
  <2>2. Control' /\ Kept(chain) /\ Clears
    BY <1>1, CalmStep DEF DisposeClosed, DisposeSettled
  <2> QED  BY <1>1, <2>1, <2>2, QuietStep DEF DisposeClosed, DisposeSettled
<1>2. CASE DisposeDrained
  <2>1. Data'
    BY <1>2 DEF IInv, TypeOK, DisposeDrained, Clear, Data
  <2>2. Control' /\ Kept(chain) /\ Clears
    BY <1>2, CalmStep DEF DisposeDrained
  <2>3. TypeOK' /\ Placed' /\ Counted' /\ Awaited(chain, phase)'
    BY <2>1, <2>2, TypeParts2
  <2>4. asked' = Idle /\ \A k \in Kind : published'[k] = 0
    BY <1>2 DEF IInv, Queued, DisposeDrained, Clear, Idle
  <2> QED  BY <2>3, <2>4 DEF IInv, Queued, Cleared, Idle
<1> QED  BY <1>1, <1>2 DEF Teardown

-----------------------------------------------------------------------------
(* Theorems *)

LEMMA NextInv == ASSUME IInv, [Next]_vars PROVE IInv'
<1>1. CASE UNCHANGED vars
  <2>1. IInv = IInv'
    BY <1>1 DEF vars, IInv, TypeOK, Placed, Counted, Queued, Awaited, Cleared
  <2> QED  BY <2>1
<1>2. ASSUME NEW g \in Gen, Attempt(g) PROVE IInv'
  BY <1>2, ConnectedStep, ConnectRejectedStep, QuiescedStep, NotQuiescedStep DEF Attempt
<1>3. ASSUME NEW g \in Gen, CloseSignal(g) PROVE IInv'
  BY <1>3, CloseSignalStep
<1>4. ASSUME NEW g \in Gen, NEW k \in Kind, Notified(k, g) PROVE IInv'
  BY <1>4, NotifiedStep
<1>5. CASE Chain
  BY <1>5, SwapGiveUpStep, SwapSkippedStep, SwapAsksStep, SwapResourcesStep,
     ToolsListedStep, ToolsRefusedStep, ToolsFailedStep, PromptRegisteredStep,
     PromptsListedStep DEF Chain
<1>6. CASE Reconnect \/ Age \/ ListChanges \/ Dispose \/ Teardown
  BY <1>6, ReconnectStep, AgeStep, ListChangesStep, DisposeStep, TeardownStep
<1> QED  BY <1>1, <1>2, <1>3, <1>4, <1>5, <1>6 DEF Next

\* IInv is inductive; it holds in every state of every supervisor.
THEOREM InvariantHolds == Spec => []IInv
BY InitInv, NextInv, PTL DEF Spec

\* Type correctness of the supervisor.
THEOREM TypeCorrect == Spec => []TypeOK
<1>1. IInv => TypeOK
  BY DEF IInv
<1> QED  BY <1>1, InvariantHolds, PTL

\* Two server processes of one supervisor never overlap: every generation but
\* the last has been seen to close before its successor was started.
THEOREM NeverOverlaps == Spec => []NoOverlap
<1>1. IInv => NoOverlap
  BY DEF IInv, Placed, NoOverlap
<1> QED  BY <1>1, InvariantHolds, PTL

\* One outage has one actor: an armed retry excludes a client, an attempt and
\* a disposal.
THEOREM OneActorAlways == Spec => []OneActor
<1>1. IInv => OneActor
  BY DEF IInv, Placed, OneActor
<1> QED  BY <1>1, InvariantHolds, PTL

\* An outage takes at most maxAttempts reconnects, and exactly that many
\* before the supervisor gives up.
THEOREM BudgetKept == Spec => []Budget
<1>1. IInv => Budget
  BY DEF IInv, Counted, Budget
<1> QED  BY <1>1, InvariantHolds, PTL

-----------------------------------------------------------------------------
(* What a step leaves behind: dispose() and the freshness of the tools      *)

\* What may be appended to the chain.
Allowed(e) == e \in Swap /\ e.gen <= born' /\ (e.kind = "giveUp" => GaveUp')
Grown(q) == chain' = q \/ \E e : Allowed(e) /\ chain' = Append(q, e)
Later == {"resources", "prompts", "settled"}

LEMMA DownMoves ==
  ASSUME IInv, NEW g \in Gen, NEW q, GenerationDown(g, q), UNCHANGED born
  PROVE  /\ disposed' = disposed /\ client' \in {client, 0} /\ (GaveUp => GaveUp')
         /\ client = g => client' = 0
         /\ Grown(q)
<1>1. CASE UNCHANGED supervisor /\ chain' = q
  <2>1. ~(~disposed /\ client = g) \/ client' = 0
    BY <1>1 DEF GenerationDown
  <2>2. client = g => client' = 0
    BY <2>1, <1>1 DEF IInv, Placed
  <2> QED  BY <1>1, <2>2 DEF Grown
<1>2. CASE ~disposed /\ client = g /\ client' = 0 /\ disposed' = disposed
  <2>1. ~GaveUp
    BY <1>2 DEF IInv, Counted
  <2>2. chain' = q \/ (GaveUp' /\ chain' = Append(q, GiveUp))
    BY <1>2, DownShape DEF GenerationDown, ScheduleReconnect
  <2>3. GaveUp' => Allowed(GiveUp)
    BY GiveUpType DEF Allowed, IInv, TypeOK
  <2> QED  BY <1>2, <2>1, <2>2, <2>3 DEF Grown
<1> QED  BY <1>1, <1>2, DownShape

\* The attempt of g goes on after the swaps in `done`.
LEMMA QueueMoves ==
  ASSUME IInv, NEW g \in Gen, g <= born, NEW done, NEW q, Queue(g, done, q),
         UNCHANGED <<born, closed>>
  PROVE  /\ disposed' = disposed /\ client' \in {client, 0} /\ (GaveUp => GaveUp')
         /\ Grown(q)
         /\ \A e \in Gen : e # g => phase'[e] = phase[e]
         /\ "tools" \in done => phase'[g] \in Later
         /\ "tools" \notin done => phase'[g] = "tools" /\ chain' = Append(q, Own("tools", g))
                                   /\ UNCHANGED supervisor
<1>1. CASE After(done) = {} /\ Settle(g, q)
  <2>1. phase'[g] = "settled" /\ \A e \in Gen : e # g => phase'[e] = phase[e]
    BY <1>1 DEF Settle, IInv, TypeOK
  <2>2. "tools" \in done
    BY <1>1 DEF After
  <2>3. CASE closed[g] /\ GenerationDown(g, q)
    BY <2>1, <2>2, <2>3, DownMoves DEF Later
  <2>4. CASE ~closed[g] /\ chain' = q /\ UNCHANGED <<disposed, client, timer, failedAttempts>>
    BY <2>1, <2>2, <2>4 DEF Later, Grown
  <2> QED  BY <1>1, <2>3, <2>4 DEF Settle
<1>2. CASE /\ After(done) # {} /\ chain' = Append(q, Own(NextSwap(done), g))
           /\ Goto(g, NextSwap(done)) /\ UNCHANGED supervisor
  <2>1. NextSwap(done) \in Kind /\ ("tools" \in done <=> NextSwap(done) # "tools")
    BY DEF NextSwap, After, Kind
  <2>2. phase'[g] = NextSwap(done) /\ \A e \in Gen : e # g => phase'[e] = phase[e]
    BY <1>2 DEF IInv, TypeOK
  <2>3. Allowed(Own(NextSwap(done), g))
    BY <1>2, <2>1 DEF Allowed, Own, Swap, Kind
  <2> QED  BY <1>2, <2>1, <2>2, <2>3 DEF Grown, Later, Kind
<1> QED  BY <1>1, <1>2 DEF Queue

\* The head of the chain is done.
LEMMA ResumeMoves ==
  ASSUME IInv, chain # <<>>, NEW ok \in BOOLEAN, Resume(ok), UNCHANGED <<born, closed>>
  PROVE  /\ disposed' = disposed /\ client' \in {client, 0} /\ (GaveUp => GaveUp')
         /\ Grown(Tail(chain))
         /\ \A e \in Gen : e # swap.gen \/ ~swap.own => phase'[e] = phase[e]
         /\ swap.own => /\ swap.gen \in Gen /\ swap.kind \in Kind
                        /\ phase[swap.gen] = swap.kind /\ swap.gen = born
                        /\ phase'[swap.gen] \in IF ok THEN Later ELSE {"closing"}
<1>1. swap \in Swap /\ swap = chain[1] /\ 1 \in 1..Len(chain)
  BY TailFacts DEF IInv, TypeOK, swap
<1>2. ASSUME swap.own
      PROVE  /\ swap.gen \in Gen /\ swap.kind \in Kind /\ phase[swap.gen] = swap.kind
             /\ swap.gen = born
  <2>1. swap.gen \in Gen /\ phase[swap.gen] = swap.kind
    BY <1>1, <1>2 DEF IInv, Queued, Awaited
  <2>2. swap.kind \in Kind
    BY <1>1, <2>1 DEF IInv, TypeOK, Swap, Phase, Unsettled, Kind
  <2>3. phase[swap.gen] \in Unsettled
    BY <2>1, <2>2 DEF Kind, Unsettled
  <2> QED  BY <2>1, <2>2, <2>3, UnsettledIsLast DEF IInv
<1>3. CASE ~swap.own /\ chain' = Tail(chain) /\ UNCHANGED <<supervisor, phase>>
  BY <1>3 DEF Grown
<1>4. CASE swap.own /\ ok /\ Queue(swap.gen, DoneAt[swap.kind], Tail(chain))
  <2>1. "tools" \in DoneAt[swap.kind]
    BY <1>2, <1>4 DEF DoneAt, Kind
  <2>2. swap.gen <= born
    BY <1>2, <1>4 DEF IInv, TypeOK
  <2> QED  BY <1>2, <1>4, <2>1, <2>2, QueueMoves
<1>5. CASE /\ swap.own /\ ~ok /\ chain' = Tail(chain) /\ Goto(swap.gen, "closing")
           /\ UNCHANGED supervisor
  BY <1>2, <1>5 DEF Grown, IInv, TypeOK
<1> QED  BY <1>3, <1>4, <1>5 DEF Resume

\* Each step of the chain takes its head, and resumes its attempt with an outcome.
Pops == \E ok \in BOOLEAN : Resume(ok)

LEMMA ChainShape ==
  ASSUME IInv, Chain
  PROVE  /\ chain # <<>> /\ RestOfSwap
         /\ \/ SwapGiveUp
            \/ SwapAsks
            \/ PromptRegistered
            \/ Pops /\ asked' = Idle /\ swap.kind # "giveUp"
<1>1. asked # Idle => chain # <<>>
  BY DEF IInv, Queued
<1>2. CASE SwapGiveUp \/ SwapAsks \/ PromptRegistered
  BY <1>1, <1>2 DEF SwapGiveUp, SwapAsks, PromptRegistered, At
<1>3. CASE SwapSkipped \/ SwapResources
  BY <1>3 DEF SwapSkipped, SwapResources, At, Pops
<1>4. CASE ToolsListed \/ ToolsFailed \/ PromptsListed
  BY <1>1, <1>4 DEF ToolsListed, ToolsFailed, PromptsListed, Answering, Pops
<1>5. CASE ToolsRefused
  <2> DEFINE b == ~(Strict /\ swap.own /\ swap.gen = 1)
  <2>1. Resume(b)
    BY <1>5 DEF ToolsRefused
  <2>2. b \in BOOLEAN
    OBVIOUS
  <2> HIDE DEF b
  <2> QED  BY <1>1, <1>5, <2>1, <2>2 DEF ToolsRefused, Answering, Pops
<1> QED  BY <1>2, <1>3, <1>4, <1>5 DEF Chain

-----------------------------------------------------------------------------
(* What is registered *)

HeadKept == chain # <<>> => chain' # <<>> /\ Head(chain') = Head(chain)

LEMMA HeadOfAppend ==
  ASSUME NEW q \in Seq(Swap), NEW e \in Swap, q # <<>>
  PROVE  Append(q, e) # <<>> /\ Head(Append(q, e)) = Head(q)
OBVIOUS

\* Outside the steps of the chain its head stays.
LEMMA HeadStays ==
  ASSUME IInv, NEW g \in Gen, Attempt(g) \/ CloseSignal(g) \/ \E k \in Kind : Notified(k, g)
  PROVE  HeadKept
<1>1. chain \in Seq(Swap) /\ g \in Nat
  BY DEF IInv, TypeOK
<1>2. ASSUME Grown(chain) PROVE HeadKept
  BY <1>1, <1>2, HeadOfAppend DEF Grown, Allowed, HeadKept
<1>3. ASSUME chain' = chain PROVE HeadKept
  BY <1>3 DEF HeadKept
<1>4. ASSUME GenerationDown(g, chain), born' = born PROVE HeadKept
  BY <1>2, <1>4, DownMoves
<1>5. CASE Attempt(g)
  <2>1. UNCHANGED <<born, closed>>
    BY <1>5 DEF Attempt, Connected, ConnectRejected, Quiesced, NotQuiesced
  <2>2. CASE Queue(g, {}, chain) /\ Connected(g)
    <3>1. g <= born
      <4>1. phase[g] \in Unsettled
        BY <2>2 DEF Connected, Unsettled
      <4>2. g = born
        BY <4>1, UnsettledIsLast DEF IInv
      <4> QED  BY <4>2 DEF IInv, TypeOK
    <3>2. Grown(chain)
      BY <2>1, <2>2, <3>1, QueueMoves
    <3> QED  BY <1>2, <3>2
  <2> QED  BY <1>3, <1>4, <1>5, <2>1, <2>2
        DEF Attempt, Connected, ConnectRejected, Quiesced, NotQuiesced
<1>6. CASE CloseSignal(g)
  BY <1>3, <1>4, <1>6 DEF CloseSignal
<1>7. ASSUME NEW k \in Kind, Notified(k, g) PROVE HeadKept
  <2> DEFINE e == [kind |-> k, gen |-> g, own |-> FALSE]
  <2>1. e \in Swap
    BY DEF Swap
  <2>2. chain' = chain \/ chain' = Append(chain, e)
    BY <1>7 DEF Notified
  <2> HIDE DEF e
  <2> QED  BY <1>1, <1>3, <2>1, <2>2, HeadOfAppend DEF HeadKept
<1> QED  BY <1>5, <1>6, <1>7

\* The disposers the supervisor holds are those of all that is registered.
HeldByKind == \A k \in Kind : published[k] # 0 => registrations[k] = published[k]

\* What else is registered belongs to the prompt swap under way.
HeldBySwap == loading => chain # <<>> /\ asked # Idle /\ swap.kind = "prompts"

LEMMA HeldByKindStep == ASSUME IInv, HeldByKind, [Next]_vars PROVE HeldByKind'
<1>1. CASE UNCHANGED <<registrations, published>>
  BY <1>1 DEF HeldByKind
<1>2. CASE Clear
  BY <1>2 DEF HeldByKind, Clear
<1>3. ASSUME NEW kind, NEW o, NEW p, Register(kind, o, p), p \in {0, o}
      PROVE  HeldByKind'
  BY <1>3 DEF HeldByKind, Register, IInv, TypeOK
<1>4. CASE Chain
  <2>1. CASE SwapGiveUp
    BY <1>2, <2>1 DEF SwapGiveUp
  <2>2. CASE SwapSkipped \/ SwapAsks \/ ToolsFailed \/ PromptRegistered
    BY <1>1, <2>2 DEF SwapSkipped, SwapAsks, ToolsFailed, PromptRegistered
  <2>3. CASE SwapResources
    BY <1>3, <2>3 DEF SwapResources
  <2>4. CASE ToolsListed
    BY <1>3, <2>4 DEF ToolsListed
  <2>5. CASE ToolsRefused
    BY <1>3, <2>5 DEF ToolsRefused
  <2>6. CASE PromptsListed
    BY <1>3, <2>6 DEF PromptsListed
  <2> QED  BY <1>4, <2>1, <2>2, <2>3, <2>4, <2>5, <2>6 DEF Chain
<1>5. CASE Teardown
  BY <1>1, <1>2, <1>5 DEF Teardown, DisposeClosed, DisposeSettled, DisposeDrained
<1>6. ASSUME NEW g \in Gen, Attempt(g) \/ CloseSignal(g) \/ \E k \in Kind : Notified(k, g)
      PROVE  UNCHANGED <<registrations, published>>
  BY <1>6 DEF Attempt, Connected, ConnectRejected, Quiesced, NotQuiesced, CloseSignal,
     Notified, Announced
<1>7. CASE Reconnect \/ Age \/ ListChanges \/ Dispose \/ UNCHANGED vars
  BY <1>1, <1>7 DEF Reconnect, Age, ListChanges, Dispose, vars
<1> QED  BY <1>1, <1>4, <1>5, <1>6, <1>7 DEF Next

LEMMA HeldBySwapStep == ASSUME IInv, HeldBySwap, [Next]_vars PROVE HeldBySwap'
<1>1. ASSUME HeadKept, UNCHANGED <<loading, asked>> PROVE HeldBySwap'
  BY <1>1 DEF HeldBySwap, HeadKept, swap, Idle
<1>2. ASSUME ~loading' PROVE HeldBySwap'
  BY <1>2 DEF HeldBySwap
<1>3. CASE Chain
  <2>1. CASE SwapGiveUp \/ SwapSkipped \/ SwapAsks \/ SwapResources
    <3>1. asked = Idle /\ loading' = loading
      BY <2>1 DEF SwapGiveUp, SwapSkipped, SwapAsks, SwapResources, At, Clear
    <3> QED  BY <1>2, <3>1 DEF HeldBySwap
  <2>2. CASE ToolsListed \/ ToolsRefused \/ ToolsFailed
    <3>1. swap.kind = "tools" /\ loading' = loading
      BY <2>2 DEF ToolsListed, ToolsRefused, ToolsFailed, Answering
    <3> QED  BY <1>2, <3>1 DEF HeldBySwap
  <2>3. CASE PromptRegistered
    <3>1. asked # Idle /\ swap.kind = "prompts" /\ chain # <<>> /\ UNCHANGED <<chain, asked>>
      BY <2>3 DEF PromptRegistered, IInv, Queued
    <3> QED  BY <3>1 DEF HeldBySwap, swap, Idle
  <2>4. CASE PromptsListed
    BY <1>2, <2>4 DEF PromptsListed
  <2> QED  BY <1>3, <2>1, <2>2, <2>3, <2>4 DEF Chain
<1>4. ASSUME NEW g \in Gen, Attempt(g) \/ CloseSignal(g) \/ \E k \in Kind : Notified(k, g)
      PROVE  HeldBySwap'
  <2>1. UNCHANGED <<loading, asked>>
    BY <1>4 DEF Attempt, Connected, ConnectRejected, Quiesced, NotQuiesced, CloseSignal,
       Notified, Announced
  <2> QED  BY <1>1, <1>4, <2>1, HeadStays
<1>5. CASE Reconnect \/ Age \/ ListChanges \/ Dispose \/ Teardown \/ UNCHANGED vars
  <2>1. UNCHANGED <<loading, asked, chain>>
    BY <1>5 DEF Reconnect, Age, ListChanges, Dispose, Teardown, DisposeClosed, DisposeSettled,
       DisposeDrained, Clear, vars
  <2> QED  BY <1>1, <2>1 DEF HeadKept
<1> QED  BY <1>3, <1>4, <1>5 DEF Next

\* Whatever carries the server's names can be unregistered: by the disposers
\* the supervisor holds, or by the prompt swap that is under way.
THEOREM NothingLeaks == Spec => []NothingLeaked
<1>1. Init => HeldByKind /\ HeldBySwap
  BY DEF Init, HeldByKind, HeldBySwap
<1>2. NothingLeaked <=> HeldByKind /\ HeldBySwap
  BY DEF NothingLeaked, HeldByKind, HeldBySwap
<1> QED  BY <1>1, <1>2, HeldByKindStep, HeldBySwapStep, InvariantHolds, PTL DEF Spec

\* A supervisor that gave up, and whose chain is empty, has left nothing of
\* the server in a registry.
LEMMA GaveUpLeavesNothing == Spec => []GaveUpClean
<1>1. IInv /\ NothingLeaked => GaveUpClean
  <2> SUFFICES ASSUME IInv, NothingLeaked, GaveUp, chain = <<>>
               PROVE  ~loading /\ \A k \in Kind : published[k] = 0
    BY DEF GaveUpClean
  <2>1. ~\E i \in 1..Len(chain) : chain[i].kind = "giveUp"
    OBVIOUS
  <2>2. ~loading
    BY DEF NothingLeaked
  <2> QED  BY <2>1, <2>2 DEF IInv, Cleared
<1> QED  BY <1>1, InvariantHolds, NothingLeaks, PTL

-----------------------------------------------------------------------------
(* dispose() *)

\* What dispose() has waited for stays so.
DisposeInv ==
  /\ teardown # "live" => disposed
  /\ teardown \in {"draining", "done"} => phase[born] = "settled"
  /\ teardown = "done" => chain = <<>> /\ \A k \in Kind : published[k] = 0

LEMMA DisposeInvStep == ASSUME IInv, DisposeInv, [Next]_vars PROVE DisposeInv'
<1>1. ASSUME UNCHANGED <<teardown, disposed, born>>,
             teardown \in {"draining", "done"} => phase'[born] = "settled",
             teardown = "done" => UNCHANGED <<chain, published>>
      PROVE  DisposeInv'
  BY <1>1 DEF DisposeInv
<1>2. ASSUME NEW g \in Gen, Attempt(g) PROVE DisposeInv'
  <2>1. phase[g] \in Unsettled
    BY <1>2 DEF Attempt, Connected, ConnectRejected, Quiesced, NotQuiesced, Unsettled
  <2>2. phase[born] # "settled" /\ g = born
    BY <2>1, UnsettledIsLast DEF IInv, Unsettled
  <2>3. disposed' = disposed
    <3>1. CASE Connected(g) /\ Queue(g, {}, chain)
      <4>1. g <= born
        BY <2>2 DEF IInv, TypeOK
      <4> QED  BY <3>1, <4>1, QueueMoves DEF Connected
    <3>2. CASE GenerationDown(g, chain)
      BY <3>2 DEF GenerationDown
    <3>3. CASE UNCHANGED disposed
      BY <3>3
    <3> QED  BY <1>2, <3>1, <3>2, <3>3 DEF Attempt, Connected, ConnectRejected, Quiesced, NotQuiesced
  <2>4. UNCHANGED <<teardown, born>>
    BY <1>2 DEF Attempt, Connected, ConnectRejected, Quiesced, NotQuiesced
  <2> QED  BY <1>1, <2>2, <2>3, <2>4 DEF DisposeInv
<1>3. ASSUME NEW g \in Gen, CloseSignal(g) PROVE DisposeInv'
  <2>1. UNCHANGED <<teardown, born, phase, published>>
    BY <1>3 DEF CloseSignal
  <2>2. disposed' = disposed /\ (disposed => chain' = chain)
    BY <1>3 DEF CloseSignal, GenerationDown
  <2> QED  BY <1>1, <2>1, <2>2 DEF DisposeInv
<1>4. ASSUME NEW g \in Gen, NEW k \in Kind, Notified(k, g) PROVE DisposeInv'
  <2>1. UNCHANGED <<teardown, born, phase, published, disposed>>
    BY <1>4 DEF Notified, Announced
  <2>2. disposed => chain' = chain
    BY <1>4 DEF Notified
  <2> QED  BY <1>1, <2>1, <2>2 DEF DisposeInv
<1>5. CASE Chain
  <2>1. chain # <<>> /\ UNCHANGED <<teardown, born, closed>>
    BY <1>5, ChainShape DEF RestOfSwap
  <2>2. disposed' = disposed /\ (phase[born] = "settled" => phase'[born] = "settled")
    <3>1. CASE SwapGiveUp \/ SwapAsks \/ PromptRegistered
      BY <3>1 DEF SwapGiveUp, SwapAsks, PromptRegistered
    <3>2. CASE Pops
      <4>1. PICK ok \in BOOLEAN : Resume(ok)
        BY <3>2 DEF Pops
      <4>2. swap.own => phase[born] \in Kind
        BY <2>1, <4>1, ResumeMoves
      <4>3. born \in Gen
        BY DEF IInv, TypeOK
      <4> QED  BY <2>1, <4>1, <4>2, <4>3, ResumeMoves DEF Kind
    <3> QED  BY <1>5, <3>1, <3>2, ChainShape
  <2> QED  BY <1>1, <2>1, <2>2 DEF DisposeInv
<1>6. CASE Reconnect
  BY <1>6 DEF IInv, Placed, Reconnect, DisposeInv
<1>7. CASE Dispose
  BY <1>7 DEF Dispose, DisposeInv
<1>8. CASE Teardown
  BY <1>8 DEF Teardown, DisposeClosed, DisposeSettled, DisposeDrained, Clear, DisposeInv
<1>9. CASE Age \/ ListChanges \/ UNCHANGED vars
  BY <1>1, <1>9 DEF Age, ListChanges, vars, DisposeInv
<1> QED  BY <1>2, <1>3, <1>4, <1>5, <1>6, <1>7, <1>8, <1>9 DEF Next

\* A supervisor that gave up leaves no name of the server in a registry, and a
\* disposed one has nothing registered, queued, timed or under way.
THEOREM StopsCleanly == Spec => []StopsClean
<1>1. Init => DisposeInv
  BY DEF Init, DisposeInv
<1>2. IInv /\ DisposeInv /\ NothingLeaked => DisposedClean
  BY DEF IInv, Placed, DisposeInv, NothingLeaked, DisposedClean
<1>3. GaveUpClean /\ DisposedClean <=> StopsClean
  BY DEF StopsClean
<1> QED  BY <1>1, <1>2, <1>3, GaveUpLeavesNothing, NothingLeaks, DisposeInvStep, InvariantHolds, PTL DEF Spec

-----------------------------------------------------------------------------
(* The freshness of the tools *)

HasTools(q, g) == \E i \in 1..Len(q) : q[i].kind = "tools" /\ q[i].gen = g
Behind(q, g) == \E i \in 2..Len(q) : q[i].kind = "tools" /\ q[i].gen = g
OwnTools(q, g) == \E i \in 1..Len(q) : q[i].own /\ q[i].kind = "tools" /\ q[i].gen = g

\* Nobody knows more than the server, or queues for a generation to come;
\* the clearing is queued only by who gave up.
Bounds ==
  /\ told <= list /\ held <= list
  /\ \A i \in 1..Len(chain) : chain[i].gen <= born /\ (chain[i].kind = "giveUp" => GaveUp)

\* A request to a client with tools is its own, and what the server announced
\* after it was sent has a swap of its own behind it.
Asking ==
  asked # Idle =>
    /\ asked <= list
    /\ client # 0 /\ phase[client] \in Later => swap.gen = client
    /\ swap.kind = "tools" /\ swap.gen = client => told <= asked \/ Behind(chain, client)

\* The initial swap of the tools is queued while its attempt waits for it.
Initial == client # 0 /\ phase[client] = "tools" => OwnTools(chain, client)

\* A client past its initial swap has the announced tools, or they are queued.
Served ==
  client # 0 /\ phase[client] \in Later /\ ~missed =>
    (published["tools"] = client /\ told <= held) \/ HasTools(chain, client)

FreshInv == Bounds /\ Asking /\ Initial /\ Served

LEMMA QueueGrows ==
  ASSUME NEW q \in Seq(Swap), NEW e \in Swap, NEW g
  PROVE  /\ HasTools(q, g) => HasTools(Append(q, e), g)
         /\ Behind(q, g) => Behind(Append(q, e), g)
         /\ OwnTools(q, g) => OwnTools(Append(q, e), g)
         /\ e.kind = "tools" /\ e.gen = g =>
              /\ HasTools(Append(q, e), g)
              /\ q # <<>> => Behind(Append(q, e), g)
              /\ e.own => OwnTools(Append(q, e), g)
         /\ q # <<>> => Append(q, e) # <<>> /\ Head(Append(q, e)) = Head(q)
<1> DEFINE r == Append(q, e)
<1>1. /\ Len(q) \in Nat /\ Len(r) = Len(q) + 1 /\ r[Len(q) + 1] = e
      /\ \A i \in 1..Len(q) : r[i] = q[i]
  BY AppendFacts
<1>2. q # <<>> => Len(q) >= 1 /\ r # <<>> /\ Head(r) = Head(q)
  OBVIOUS
<1> HIDE DEF r
<1>3. \A i \in 1..Len(q) : i \in 1..Len(r)
  BY <1>1
<1>4. \A i \in 2..Len(q) : i \in 2..Len(r) /\ i \in 1..Len(q)
  BY <1>1
<1>5. HasTools(q, g) => HasTools(r, g)
  BY <1>1, <1>3 DEF HasTools
<1>6. Behind(q, g) => Behind(r, g)
  BY <1>1, <1>4 DEF Behind
<1>7. OwnTools(q, g) => OwnTools(r, g)
  BY <1>1, <1>3 DEF OwnTools
<1>8. Len(q) + 1 \in 1..Len(r) /\ (q # <<>> => Len(q) + 1 \in 2..Len(r))
  BY <1>1, <1>2
<1> QED  BY <1>1, <1>2, <1>5, <1>6, <1>7, <1>8 DEF HasTools, Behind, OwnTools, r

LEMMA QueueShrinks ==
  ASSUME NEW q \in Seq(Swap), q # <<>>, NEW g
  PROVE  /\ Behind(q, g) => HasTools(Tail(q), g)
         /\ HasTools(q, g) /\ ~(Head(q).kind = "tools" /\ Head(q).gen = g) => HasTools(Tail(q), g)
         /\ OwnTools(q, g) /\ ~(Head(q).own /\ Head(q).kind = "tools" /\ Head(q).gen = g) =>
              OwnTools(Tail(q), g) /\ HasTools(Tail(q), g)
<1> DEFINE r == Tail(q)
<1>1. /\ Len(q) \in Nat /\ Len(r) = Len(q) - 1 /\ Head(q) = q[1]
      /\ \A i \in 1..Len(q) - 1 : r[i] = q[i + 1]
  BY TailFacts
<1> HIDE DEF r
<1>2. \A i \in 2..Len(q) : i - 1 \in 1..Len(r) /\ r[i - 1] = q[i]
  <2> TAKE i \in 2..Len(q)
  <2>1. i - 1 \in 1..Len(q) - 1 /\ (i - 1) + 1 = i
    BY <1>1
  <2> QED  BY <1>1, <2>1
<1>3. \A i \in 1..Len(q) : i = 1 \/ i \in 2..Len(q)
  BY <1>1
<1>4. Behind(q, g) => HasTools(r, g)
  BY <1>2 DEF Behind, HasTools
<1>5. HasTools(q, g) /\ ~(Head(q).kind = "tools" /\ Head(q).gen = g) => HasTools(r, g)
  BY <1>1, <1>2, <1>3 DEF HasTools
<1>6. OwnTools(q, g) /\ ~(Head(q).own /\ Head(q).kind = "tools" /\ Head(q).gen = g) =>
        OwnTools(r, g) /\ HasTools(r, g)
  BY <1>1, <1>2, <1>3 DEF OwnTools, HasTools
<1> QED  BY <1>4, <1>5, <1>6 DEF r

LEMMA GrownQueue ==
  ASSUME NEW q \in Seq(Swap), Grown(q), NEW g
  PROVE  /\ HasTools(q, g) => HasTools(chain', g)
         /\ Behind(q, g) => Behind(chain', g)
         /\ OwnTools(q, g) => OwnTools(chain', g)
         /\ q # <<>> => chain' # <<>> /\ Head(chain') = Head(q)
<1>1. CASE chain' = q
  BY <1>1
<1>2. ASSUME NEW e \in Swap, chain' = Append(q, e)
      PROVE  /\ HasTools(q, g) => HasTools(chain', g)
             /\ Behind(q, g) => Behind(chain', g)
             /\ OwnTools(q, g) => OwnTools(chain', g)
             /\ q # <<>> => chain' # <<>> /\ Head(chain') = Head(q)
  BY <1>2, QueueGrows
<1> QED  BY <1>1, <1>2 DEF Grown, Allowed

\* What is queued stays within the bounds.
LEMMA BoundsStep ==
  ASSUME IInv, Bounds, Grown(chain) \/ (chain # <<>> /\ Grown(Tail(chain))),
         GaveUp => GaveUp', born' \in {born, born + 1}, told' <= list', held' <= list'
  PROVE  Bounds'
<1>1. ASSUME NEW q \in Seq(Swap), Grown(q),
             \A i \in 1..Len(q) : q[i].gen <= born /\ (q[i].kind = "giveUp" => GaveUp)
      PROVE  \A i \in 1..Len(chain') : chain'[i].gen <= born' /\ (chain'[i].kind = "giveUp" => GaveUp')
  <2>1. \A i \in 1..Len(q) : q[i].gen <= born' /\ (q[i].kind = "giveUp" => GaveUp')
    <3>1. \A i \in 1..Len(q) : q[i] \in Swap /\ q[i].gen \in Owner
      BY DEF Swap
    <3>2. \A n \in Owner : n <= born => n <= born'
      BY DEF IInv, TypeOK
    <3> QED  BY <1>1, <3>1, <3>2
  <2>2. CASE chain' = q
    BY <2>1, <2>2
  <2>3. ASSUME NEW e, Allowed(e), chain' = Append(q, e)
        PROVE  \A i \in 1..Len(chain') : chain'[i].gen <= born' /\ (chain'[i].kind = "giveUp" => GaveUp')
    <3>1. /\ Len(q) \in Nat /\ Len(chain') = Len(q) + 1 /\ chain'[Len(q) + 1] = e
          /\ \A i \in 1..Len(q) : chain'[i] = q[i]
      BY <2>3, AppendFacts DEF Allowed
    <3>2. \A i \in 1..Len(chain') : i \in 1..Len(q) \/ i = Len(q) + 1
      BY <3>1
    <3> QED  BY <2>1, <2>3, <3>1, <3>2 DEF Allowed
  <2> QED  BY <1>1, <2>2, <2>3 DEF Grown
<1>2. CASE Grown(chain)
  BY <1>1, <1>2 DEF Bounds, IInv, TypeOK
<1>3. CASE chain # <<>> /\ Grown(Tail(chain))
  <2>1. /\ Tail(chain) \in Seq(Swap) /\ Len(Tail(chain)) = Len(chain) - 1
        /\ \A i \in 1..Len(chain) - 1 : Tail(chain)[i] = chain[i + 1] /\ i + 1 \in 1..Len(chain)
    BY <1>3, TailFacts DEF IInv, TypeOK
  <2>2. \A i \in 1..Len(Tail(chain)) :
          Tail(chain)[i].gen <= born /\ (Tail(chain)[i].kind = "giveUp" => GaveUp)
    BY <2>1 DEF Bounds
  <2> QED  BY <1>1, <1>3, <2>1, <2>2 DEF Bounds
<1> QED  BY <1>2, <1>3

\* A step that only adds to the chain; of a client that stays, the attempt
\* moves at most to its initial swap, which it queues, or into its catch path.
LEMMA FreshGrows ==
  ASSUME IInv, FreshInv, Grown(chain), GaveUp => GaveUp',
         UNCHANGED <<born, asked, published, held, missed>>,
         list' >= list, list' \in Nat, client' \in {client, 0},
         client' # 0 => \/ phase'[client] = phase[client] \/ phase'[client] = "closing"
                        \/ phase'[client] = "tools" /\ OwnTools(chain', client),
         \/ told' = told
         \/ told' <= list' /\ (client # 0 => /\ HasTools(chain', client)
                                             /\ chain # <<>> => Behind(chain', client))
  PROVE  FreshInv'
<1>0. told \in Nat /\ list \in Nat /\ held \in Nat /\ asked \in Nat /\ chain \in Seq(Swap)
  BY DEF IInv, TypeOK, Idle
<1>1. Bounds'
  <2>1. told' <= list' /\ held' <= list'
    BY <1>0 DEF FreshInv, Bounds
  <2> QED  BY <2>1, BoundsStep DEF FreshInv
<1>2. Asking'
  <2> SUFFICES ASSUME asked # Idle
               PROVE  /\ asked <= list'
                      /\ client' # 0 /\ phase'[client'] \in Later => Head(chain').gen = client'
                      /\ Head(chain').kind = "tools" /\ Head(chain').gen = client' =>
                           told' <= asked \/ Behind(chain', client')
    BY DEF Asking, Idle, swap
  <2>1. chain # <<>> /\ Head(chain') = swap
    BY <1>0, GrownQueue DEF IInv, Queued, swap
  <2>2. asked <= list'
    BY <1>0 DEF FreshInv, Asking
  <2>3. client' # 0 /\ phase'[client'] \in Later => swap.gen = client'
    BY DEF FreshInv, Asking, Later
  <2>4. ASSUME swap.kind = "tools", swap.gen = client' PROVE told' <= asked \/ Behind(chain', client')
    <3>1. swap.gen # 0
      BY <2>1, <2>4, HeadFacts
    <3>2. client' = client
      BY <2>4, <3>1
    <3> QED  BY <1>0, <2>1, <2>4, <3>1, <3>2, GrownQueue DEF FreshInv, Asking
  <2> QED  BY <2>1, <2>2, <2>3, <2>4
<1>3. Initial'
  BY <1>0, GrownQueue DEF FreshInv, Initial
<1>4. Served'
  BY <1>0, GrownQueue DEF FreshInv, Served, Later
<1> QED  BY <1>1, <1>2, <1>3, <1>4 DEF FreshInv

\* A step that ends the swap at the head of the chain.
LEMMA FreshPops ==
  ASSUME IInv, FreshInv, chain # <<>>, Pops, UNCHANGED <<born, closed, list, told>>, asked' = Idle,
         held' <= list,
         client # 0 /\ phase[client] \in Later \cup {"tools"} /\ phase'[client] \in Later /\ ~missed' =>
           (published'["tools"] = client /\ told <= held') \/ HasTools(Tail(chain), client)
  PROVE  FreshInv'
<1>0. chain \in Seq(Swap) /\ Tail(chain) \in Seq(Swap) /\ client \in Owner
  BY TailFacts DEF IInv, TypeOK
<1>1. PICK ok \in BOOLEAN : Resume(ok)
  BY DEF Pops
<1>2. /\ client' \in {client, 0} /\ (GaveUp => GaveUp') /\ Grown(Tail(chain))
      /\ \A e \in Gen : e # swap.gen \/ ~swap.own => phase'[e] = phase[e]
      /\ swap.own => phase[swap.gen] = swap.kind /\ swap.kind \in Kind
                     /\ phase'[swap.gen] \in Later \cup {"closing"}
  BY <1>1, ResumeMoves
<1>3. Bounds'
  BY <1>2, BoundsStep DEF FreshInv, Bounds
<1>4. Asking'
  BY DEF Asking, Idle
<1>5. Initial'
  <2> SUFFICES ASSUME client' # 0, phase'[client'] = "tools" PROVE OwnTools(chain', client')
    BY DEF Initial
  <2>1. client' = client /\ client \in Gen
    BY <1>0, <1>2
  <2>2. ~(swap.own /\ swap.gen = client) /\ phase[client] = "tools"
    BY <1>2, <2>1 DEF Later
  <2>3. OwnTools(Tail(chain), client)
    BY <1>0, <2>1, <2>2, QueueShrinks DEF FreshInv, Initial, swap
  <2> QED  BY <1>0, <1>2, <2>1, <2>3, GrownQueue
<1>6. Served'
  <2> SUFFICES ASSUME client' # 0, phase'[client'] \in Later, ~missed'
               PROVE  (published'["tools"] = client' /\ told' <= held') \/ HasTools(chain', client')
    BY DEF Served
  <2>1. client' = client /\ client \in Gen
    BY <1>0, <1>2
  <2>2. phase[client] \in Later \cup {"tools"}
    BY <1>2, <2>1 DEF Later, Kind
  <2> QED  BY <1>0, <1>2, <2>1, <2>2, GrownQueue
<1> QED  BY <1>3, <1>4, <1>5, <1>6 DEF FreshInv

LEMMA AttemptFresh == ASSUME IInv, FreshInv, NEW g \in Gen, Attempt(g) PROVE FreshInv'
<1>1. /\ g = born /\ g # 0 /\ client \in {0, g} /\ (disposed => client = 0)
      /\ chain \in Seq(Swap) /\ list \in Nat
  <2>1. phase[g] \in Unsettled
    BY DEF Attempt, Connected, ConnectRejected, Quiesced, NotQuiesced, Unsettled
  <2>2. g = born
    BY <2>1, UnsettledIsLast DEF IInv
  <2> QED  BY <2>2 DEF IInv, TypeOK, Placed
<1>2. UNCHANGED <<born, asked, swaps, server, closed>>
  BY DEF Attempt, Connected, ConnectRejected, Quiesced, NotQuiesced
<1>3. CASE GenerationDown(g, chain)
  <2>1. Grown(chain) /\ (GaveUp => GaveUp') /\ client' = 0
    BY <1>1, <1>2, <1>3, DownMoves
  <2> QED  BY <1>1, <1>2, <2>1, FreshGrows
<1>4. CASE Connected(g) /\ Queue(g, {}, chain)
  <2>1. g <= born /\ "tools" \notin {}
    BY <1>1
  <2>2. /\ client' = client /\ (GaveUp => GaveUp') /\ Grown(chain)
        /\ phase'[g] = "tools" /\ chain' = Append(chain, Own("tools", g))
    BY <1>1, <1>2, <1>4, <2>1, QueueMoves
  <2>3. OwnTools(chain', g)
    <3>1. Own("tools", g) \in Swap
      BY DEF Own, Swap, Kind
    <3> QED  BY <1>1, <2>2, <3>1, QueueGrows DEF Own
  <2> QED  BY <1>1, <1>2, <2>2, <2>3, FreshGrows
<1>5. CASE ConnectRejected(g)
  <2>1. Grown(chain) /\ client' = client /\ phase'[g] = "closing" /\ (GaveUp => GaveUp')
    BY <1>5 DEF ConnectRejected, Grown, IInv, TypeOK
  <2> QED  BY <1>1, <1>2, <2>1, FreshGrows
<1>6. CASE NotQuiesced(g)
  <2>1. Grown(chain) /\ client' = 0 /\ (GaveUp => GaveUp')
    BY <1>1, <1>6 DEF NotQuiesced, Grown
  <2> QED  BY <1>1, <1>2, <2>1, FreshGrows
<1> QED  BY <1>3, <1>4, <1>5, <1>6 DEF Attempt, Connected, Quiesced

LEMMA CloseSignalFresh == ASSUME IInv, FreshInv, NEW g \in Gen, CloseSignal(g) PROVE FreshInv'
<1>1. /\ UNCHANGED <<born, asked, swaps, server, phase>> /\ list \in Nat
  BY DEF CloseSignal, IInv, TypeOK
<1>2. Grown(chain) /\ client' \in {client, 0} /\ (GaveUp => GaveUp')
  <2>1. CASE GenerationDown(g, chain)
    BY <1>1, <2>1, DownMoves
  <2>2. CASE UNCHANGED <<supervisor, chain>>
    BY <2>2 DEF Grown
  <2> QED  BY <2>1, <2>2 DEF CloseSignal
<1> QED  BY <1>1, <1>2, FreshGrows

LEMMA NotifiedFresh ==
  ASSUME IInv, FreshInv, NEW g \in Gen, NEW k \in Kind, Notified(k, g) PROVE FreshInv'
<1> DEFINE e == [kind |-> k, gen |-> g, own |-> FALSE]
<1>1. /\ UNCHANGED <<supervisor, born, phase, asked, swaps, list>>
      /\ list \in Nat /\ told \in Nat /\ chain \in Seq(Swap)
  BY DEF Notified, Announced, IInv, TypeOK
<1>2. g <= born /\ (client # 0 => g = client /\ ~disposed)
  BY DEF Notified, Announced, IInv, TypeOK, Placed
<1>3. e \in Swap /\ e.gen = g /\ e.kind = k
  BY DEF Swap
<1>4. \/ chain' = Append(chain, e)
      \/ chain' = chain /\ client = 0
  BY <1>2 DEF Notified, IInv, Placed, TypeOK
<1> HIDE DEF e
<1>5. Allowed(e)
  BY <1>1, <1>2, <1>3 DEF Allowed, Kind
<1>6. Grown(chain)
  BY <1>4, <1>5 DEF Grown
<1>7. CASE told' = told
  BY <1>1, <1>6, <1>7, FreshGrows
<1>8. CASE k = "tools" /\ told < list /\ told' = told + 1
  <2>1. client # 0 => HasTools(chain', client) /\ (chain # <<>> => Behind(chain', client))
    <3>1. HasTools(Append(chain, e), g) /\ (chain # <<>> => Behind(Append(chain, e), g))
      BY <1>1, <1>3, <1>8, QueueGrows
    <3> QED  BY <1>2, <1>4, <3>1
  <2>2. told' <= list'
    BY <1>1, <1>8
  <2> QED  BY <1>1, <1>6, <2>1, <2>2, FreshGrows
<1> QED  BY <1>7, <1>8 DEF Notified, Announced

LEMMA ReconnectFresh == ASSUME IInv, FreshInv, Reconnect PROVE FreshInv'
<1>1. /\ born' = born + 1 /\ client' = born + 1 /\ told' = list /\ born \in Nat /\ list \in Nat
      /\ UNCHANGED <<failedAttempts, chain, asked, swaps, list>>
      /\ phase'[client'] = "connecting"
  BY DEF Reconnect, IInv, TypeOK
<1>2. Bounds'
  <2>1. Grown(chain)
    BY <1>1 DEF Grown
  <2>2. held <= list
    BY DEF FreshInv, Bounds
  <2> QED  BY <1>1, <2>1, <2>2, BoundsStep DEF FreshInv
<1>3. Asking'
  <2> SUFFICES ASSUME asked # Idle PROVE asked <= list /\ swap.gen # born + 1
    BY <1>1 DEF Asking, swap, Idle, Later
  <2>1. swap.gen <= born
    <3>1. chain # <<>> /\ chain \in Seq(Swap)
      BY DEF IInv, Queued, TypeOK
    <3>2. swap = chain[1] /\ 1 \in 1..Len(chain)
      BY <3>1, TailFacts DEF swap
    <3> QED  BY <3>2 DEF FreshInv, Bounds
  <2>2. swap.gen \in Nat
    BY HeadFacts DEF IInv, Queued
  <2> QED  BY <1>1, <2>1, <2>2 DEF FreshInv, Asking
<1> QED  BY <1>1, <1>2, <1>3 DEF FreshInv, Initial, Served, Later

LEMMA ChainFresh == ASSUME IInv, FreshInv, Chain PROVE FreshInv'
<1>1. /\ chain # <<>> /\ UNCHANGED <<born, closed, list, told>>
      /\ list \in Nat /\ told \in Nat /\ held \in Nat /\ chain \in Seq(Swap) /\ told <= list /\ held <= list
  BY ChainShape DEF RestOfSwap, IInv, TypeOK, FreshInv, Bounds
<1>2. /\ swap \in Swap /\ (swap.kind # "giveUp" => swap.gen \in Gen)
      /\ swap = chain[1] /\ 1 \in 1..Len(chain) /\ client \in Owner
  BY <1>1, HeadFacts, TailFacts DEF swap, IInv, TypeOK
<1>3. CASE SwapGiveUp
  <2>1. GaveUp /\ client = 0
    BY <1>1, <1>2, <1>3 DEF SwapGiveUp, At, FreshInv, Bounds, IInv, Counted
  <2>2. client' = 0 /\ GaveUp' /\ asked' = Idle /\ chain' = Tail(chain) /\ held' = held
    BY <1>3, <2>1 DEF SwapGiveUp, At, Clear, Idle
  <2>3. Bounds'
    BY <1>1, <2>2, BoundsStep DEF FreshInv, Grown
  <2> QED  BY <2>2, <2>3 DEF FreshInv, Asking, Initial, Served, Idle
<1>4. CASE SwapAsks
  <2>1. /\ UNCHANGED <<supervisor, phase, chain, swaps>> /\ asked' = list
        /\ IsCurrent(swap.gen)
    BY <1>4 DEF SwapAsks
  <2>2. Bounds'
    BY <1>1, <2>1, BoundsStep DEF FreshInv, Grown
  <2>3. Asking'
    BY <1>1, <2>1 DEF Asking, swap
  <2> QED  BY <1>1, <2>1, <2>2, <2>3 DEF FreshInv, Initial, Served
<1>5. ASSUME Pops, asked' = Idle, held' = held, swap.kind # "giveUp",
             \/ missed' = TRUE
             \/ /\ missed' = missed /\ published'["tools"] = published["tools"]
                /\ swap.kind = "tools" /\ swap.gen = client => client = 0
      PROVE  FreshInv'
  <2>1. ASSUME client # 0, phase[client] \in Later \cup {"tools"}, phase'[client] \in Later, ~missed'
        PROVE  (published'["tools"] = client /\ told <= held') \/ HasTools(Tail(chain), client)
    <3>1. ~(swap.kind = "tools" /\ swap.gen = client) /\ published'["tools"] = published["tools"] /\ ~missed
      BY <1>5, <2>1
    <3>2. CASE phase[client] = "tools"
      BY <1>1, <2>1, <3>1, <3>2, QueueShrinks DEF FreshInv, Initial, swap
    <3>3. CASE phase[client] \in Later
      BY <1>1, <1>5, <2>1, <3>1, <3>3, QueueShrinks DEF FreshInv, Served, swap
    <3> QED  BY <2>1, <3>2, <3>3
  <2> QED  BY <1>1, <1>5, <2>1, FreshPops
<1>6. CASE SwapSkipped
  <2>1. ~(swap.gen = client /\ client # 0)
    BY <1>6 DEF SwapSkipped, IInv, Placed
  <2>2. Pops /\ asked' = Idle /\ held' = held /\ swap.kind # "giveUp" /\ missed' = missed
        /\ UNCHANGED published
    BY <1>6 DEF SwapSkipped, Pops
  <2> QED  BY <1>5, <2>1, <2>2
<1>7. CASE SwapResources
  <2>1. PICK o : Register("resources", o, o)
    BY <1>7 DEF SwapResources
  <2>2. published'["tools"] = published["tools"]
    BY <2>1 DEF Register, IInv, TypeOK, Kind
  <2>3. Pops /\ asked' = Idle /\ held' = held /\ swap.kind = "resources" /\ missed' = missed
    BY <1>7 DEF SwapResources, At, Pops
  <2> QED  BY <1>5, <2>2, <2>3
<1>8. CASE PromptsListed
  <2>1. PICK o : Register("prompts", o, o)
    BY <1>8 DEF PromptsListed
  <2>2. published'["tools"] = published["tools"]
    BY <2>1 DEF Register, IInv, TypeOK, Kind
  <2>3. Pops /\ asked' = Idle /\ held' = held /\ swap.kind = "prompts" /\ missed' = missed
    BY <1>8 DEF PromptsListed, Answering, Pops
  <2> QED  BY <1>5, <2>2, <2>3
<1>9. CASE ToolsRefused \/ ToolsFailed
  <2>1. Pops /\ asked' = Idle
    <3>1. ~SwapGiveUp /\ ~SwapAsks /\ ~PromptRegistered
      BY <1>9, <1>1 DEF ToolsRefused, ToolsFailed, Answering, SwapGiveUp, SwapAsks,
         PromptRegistered, At
    <3> QED  BY <3>1, ChainShape
  <2>2. held' = held /\ swap.kind # "giveUp" /\ missed' = TRUE
    BY <1>9 DEF ToolsRefused, ToolsFailed, Answering
  <2> QED  BY <1>5, <2>1, <2>2
<1>10. CASE ToolsListed
  <2>1. /\ Pops /\ asked' = Idle /\ asked # Idle /\ swap.kind = "tools"
        /\ held' \in asked..list /\ Register("tools", swap.gen, swap.gen)
    BY <1>10 DEF ToolsListed, Answering, Pops
  <2>2. asked \in Nat /\ asked <= held' /\ held' <= list /\ held' \in Nat
    BY <1>1, <2>1 DEF IInv, TypeOK, Idle
  <2>3. published'["tools"] = swap.gen
    BY <2>1 DEF Register, IInv, TypeOK, Kind
  <2>4. ASSUME client # 0, phase[client] \in Later \cup {"tools"}, phase'[client] \in Later
        PROVE  (published'["tools"] = client /\ told <= held') \/ HasTools(Tail(chain), client)
    <3>1. CASE swap.gen = client
      <4>1. told <= asked \/ Behind(chain, client)
        BY <2>1, <3>1 DEF FreshInv, Asking
      <4> QED  BY <1>1, <2>2, <2>3, <3>1, <4>1, QueueShrinks
    <3>2. CASE swap.gen # client
      <4>1. phase[client] = "tools"
        BY <2>1, <2>4, <3>2 DEF FreshInv, Asking
      <4> QED  BY <1>1, <2>4, <3>2, <4>1, QueueShrinks DEF FreshInv, Initial, swap
    <3> QED  BY <3>1, <3>2
  <2> QED  BY <1>1, <2>1, <2>2, <2>4, FreshPops
<1>11. CASE PromptRegistered
  <2>1. /\ UNCHANGED <<supervisor, phase, chain, asked, published, held, missed>>
        /\ UNCHANGED <<born, list, told>> /\ Grown(chain)
    BY <1>11 DEF PromptRegistered, RestOfSwap, Grown
  <2> QED  BY <1>1, <2>1, FreshGrows
<1> QED  BY <1>3, <1>4, <1>6, <1>7, <1>8, <1>9, <1>10, <1>11 DEF Chain

LEMMA FreshStep == ASSUME IInv, DisposeInv, FreshInv, [Next]_vars PROVE FreshInv'
<1>1. CASE Age \/ ListChanges \/ Dispose \/ DisposeClosed \/ DisposeSettled
  <2>1. /\ UNCHANGED <<born, phase, asked, swaps, told, chain, failedAttempts>> /\ list \in Nat
        /\ list' \in {list, list + 1} /\ client' \in {client, 0}
    BY <1>1 DEF Age, ListChanges, Dispose, DisposeClosed, DisposeSettled, IInv, TypeOK
  <2>2. Grown(chain)
    BY <2>1 DEF Grown
  <2>3. list' \in Nat /\ list' >= list
    BY <2>1
  <2> QED  BY <2>1, <2>2, <2>3, FreshGrows
<1>2. CASE DisposeDrained
  <2>1. client' = 0 /\ UNCHANGED <<born, chain, asked, failedAttempts, held, told, list>> /\ asked = Idle
    BY <1>2 DEF DisposeDrained, Clear, DisposeInv, IInv, Placed, Queued
  <2> QED  BY <2>1 DEF FreshInv, Bounds, Asking, Initial, Served, Idle
<1>3. CASE UNCHANGED vars
  BY <1>3 DEF vars, FreshInv, Bounds, Asking, Initial, Served, HasTools, Behind, OwnTools, swap, Idle
<1> QED  BY <1>1, <1>2, <1>3, AttemptFresh, CloseSignalFresh, NotifiedFresh, ReconnectFresh,
            ChainFresh DEF Next, Teardown

\* When nothing is queued and the last swap of the tools did not fail, the
\* model sees the announced tools of the live client.
THEOREM ToolsAreFresh == Spec => []ToolsFresh
<1>1. Init => DisposeInv /\ FreshInv
  BY DEF Init, DisposeInv, FreshInv, Bounds, Asking, Initial, Served, Later, Idle
<1>2. IInv /\ FreshInv => ToolsFresh
  <2> SUFFICES ASSUME IInv, FreshInv, connectedAt # "down", client # 0, chain = <<>>, told = list, ~missed
               PROVE  published["tools"] = client /\ held = list
    BY DEF ToolsFresh
  <2>1. phase[client] \in Later
    BY DEF IInv, Placed, Counted, Later
  <2>2. ~HasTools(chain, client)
    BY DEF HasTools
  <2> QED  BY <2>1, <2>2 DEF FreshInv, Served, Bounds, IInv, TypeOK
<1> QED  BY <1>1, <1>2, DisposeInvStep, FreshStep, InvariantHolds, PTL DEF Spec

=============================================================================
