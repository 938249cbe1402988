----------------------- MODULE EpochCollectorProofs -----------------------
(* Safety of the epoch collector, for any number of calls and epochs.      *)
EXTENDS EpochCollector, TLAPS

USE EpochAssumption DEF call, watch, child, notices, Goto

-----------------------------------------------------------------------------
(* Types *)

\* The notices that came are in the inbox, claimed, given or dropped, each in
\* one place only.
PlacedBy(c) ==
  /\ inbox[c] \cup claimed[c] \cup told[c] \cup dropped[c] = 1..notified[c]
  /\ inbox[c] \cap (claimed[c] \cup told[c] \cup dropped[c]) = {}
  /\ claimed[c] \cap (told[c] \cup dropped[c]) = {}
  /\ ~stepping => claimed[c] = {}

AllPlaced == \A c \in Call : PlacedBy(c)

LEMMA InitTypeOK == Init => TypeOK
<1> SUFFICES ASSUME Init PROVE TypeOK
  OBVIOUS
<1>1. /\ promoted \in [Call -> BOOLEAN] /\ interrupted \in [Call -> BOOLEAN]
      /\ signal \in [Call -> BOOLEAN] /\ resolved \in [Call -> BOOLEAN]
      /\ crossed \in [Call -> BOOLEAN] /\ subscribed \in BOOLEAN /\ stepping \in BOOLEAN
  BY DEF Init
<1>2. /\ pc \in [Call -> Label] /\ watches \subseteq Call /\ collected \subseteq Call
      /\ runId \in [Call -> Epoch] /\ epoch \in [Call -> Epoch] /\ ended \in [Call -> Epoch]
      /\ notified \in [Call -> Epoch]
  BY DEF Init, Label, Epoch
<1>3. /\ inbox \in [Call -> Epochs] /\ claimed \in [Call -> Epochs]
      /\ told \in [Call -> Epochs] /\ dropped \in [Call -> Epochs]
  <2>1. {} \in Epochs
    BY DEF Epochs
  <2> QED  BY <2>1 DEF Init
<1>4. \A c \in Call : /\ notified[c] <= ended[c] /\ ended[c] <= epoch[c]
                      /\ inbox[c] \cap (claimed[c] \cup told[c] \cup dropped[c]) = {}
  <2> SUFFICES ASSUME NEW c \in Call
               PROVE  /\ notified[c] <= ended[c] /\ ended[c] <= epoch[c]
                      /\ inbox[c] \cap (claimed[c] \cup told[c] \cup dropped[c]) = {}
    OBVIOUS
  <2>1. inbox[c] = {} /\ notified[c] = 0 /\ ended[c] = 0 /\ epoch[c] = 0
    BY DEF Init
  <2> QED  BY <2>1
<1> QED  BY <1>1, <1>2, <1>3, <1>4 DEF TypeOK

LEMMA NextTypeOK == TypeOK /\ AllPlaced /\ [Next]_vars => TypeOK'
<1> SUFFICES ASSUME TypeOK, AllPlaced, [Next]_vars PROVE TypeOK'
  OBVIOUS
<1> USE DEF TypeOK, Label, Open, Outcome, Epoch, Epochs, AllPlaced, PlacedBy
<1>1. ASSUME NEW c \in Call, Reserve(c) PROVE TypeOK'
  BY <1>1 DEF Reserve, Open
<1>2. ASSUME NEW c \in Call, Promote(c) PROVE TypeOK'
  BY <1>2 DEF Promote, Unwatch, Open
<1>3. ASSUME NEW c \in Call, Abort(c) PROVE TypeOK'
  BY <1>3 DEF Abort, Open
<1>4. ASSUME NEW c \in Call, Started(c) PROVE TypeOK'
  BY <1>4 DEF Started
<1>5. ASSUME NEW c \in Call, StartThrows(c) PROVE TypeOK'
  BY <1>5 DEF StartThrows, Unwatch
<1>6. ASSUME NEW c \in Call, EpochStarts(c) PROVE TypeOK'
  BY <1>6 DEF EpochStarts, Open
<1>7. ASSUME NEW c \in Call, EpochEnds(c) PROVE TypeOK'
  <2>1. resolved' \in [Call -> BOOLEAN]
    BY <1>7 DEF EpochEnds
  <2>2. ended' \in [Call -> Epoch] /\ \A e \in Call : notified[e] <= ended'[e] /\ ended'[e] <= epoch[e]
    BY <1>7 DEF EpochEnds
  <2>3. pc' \in [Call -> Label]
    <3>1. pc' = pc \/ pc' = [pc EXCEPT ![c] = "inline"]
      BY <1>7 DEF EpochEnds
    <3>2. pc \in [Call -> Label] /\ "inline" \in Label
      OBVIOUS
    <3> HIDE DEF TypeOK, Label
    <3> QED  BY <3>1, <3>2
  <2>4. watches' \subseteq Call /\ runId' = runId /\ subscribed' \in BOOLEAN
    BY <1>7 DEF EpochEnds, Unwatch
  <2> QED  BY <1>7, <2>1, <2>2, <2>3, <2>4 DEF EpochEnds
<1>8. ASSUME NEW c \in Call, Notify(c) PROVE TypeOK'
  <2>1. crossed' \in [Call -> BOOLEAN]
    BY <1>8, Zenon DEF Notify
  <2>2. notified' \in [Call -> Epoch] /\ \A e \in Call : notified'[e] <= ended[e]
    BY <1>8 DEF Notify
  <2>3. inbox' \in [Call -> Epochs]
    BY <1>8, <2>2 DEF Notify
  <2>4. \A e \in Call : inbox'[e] \cap (claimed[e] \cup told[e] \cup dropped[e]) = {}
    BY <1>8 DEF Notify
  <2> QED  BY <1>8, <2>1, <2>2, <2>3, <2>4 DEF Notify
<1>9. CASE PreStep
  BY <1>9 DEF PreStep, Open
<1>10. CASE Suppress
  BY <1>10 DEF Suppress, Drained, Filtered, First
<1>11. CASE UNCHANGED vars
  BY <1>11 DEF vars
<1> QED
  BY <1>1, <1>2, <1>3, <1>4, <1>5, <1>6, <1>7, <1>8, <1>9, <1>10, <1>11 DEF Next, CallStep

LEMMA UpToNext == \A n \in Nat : 1..(n + 1) = (1..n) \cup {n + 1}
OBVIOUS

LEMMA InitPlaced == Init => AllPlaced
<1> SUFFICES ASSUME Init, NEW c \in Call PROVE PlacedBy(c)
  BY DEF AllPlaced
<1>1. inbox[c] = {} /\ claimed[c] = {} /\ told[c] = {} /\ dropped[c] = {} /\ notified[c] = 0
  BY DEF Init
<1>2. 1..0 = {}
  OBVIOUS
<1> QED  BY <1>1, <1>2 DEF PlacedBy

LEMMA NextPlaced == TypeOK /\ AllPlaced /\ [Next]_vars => AllPlaced'
<1> SUFFICES ASSUME TypeOK, AllPlaced, [Next]_vars, NEW e \in Call PROVE PlacedBy(e)'
  BY DEF AllPlaced
<1> USE DEF TypeOK, Epoch, Epochs, AllPlaced, PlacedBy
<1>1. ASSUME NEW c \in Call, Reserve(c) PROVE PlacedBy(e)'
  BY <1>1 DEF Reserve, Open
<1>2. ASSUME NEW c \in Call, Promote(c) PROVE PlacedBy(e)'
  BY <1>2 DEF Promote, Unwatch, Open
<1>3. ASSUME NEW c \in Call, Abort(c) PROVE PlacedBy(e)'
  BY <1>3 DEF Abort, Open
<1>4. ASSUME NEW c \in Call, Started(c) PROVE PlacedBy(e)'
  BY <1>4 DEF Started
<1>5. ASSUME NEW c \in Call, StartThrows(c) PROVE PlacedBy(e)'
  BY <1>5 DEF StartThrows, Unwatch
<1>6. ASSUME NEW c \in Call, EpochStarts(c) PROVE PlacedBy(e)'
  BY <1>6 DEF EpochStarts, Open
<1>7. ASSUME NEW c \in Call, EpochEnds(c) PROVE PlacedBy(e)'
  BY <1>7 DEF EpochEnds, Unwatch, Heard
<1>8. ASSUME NEW c \in Call, Notify(c) PROVE PlacedBy(e)'
  <2>1. CASE e = c
    <3>1. notified[c] \in Nat /\ notified'[c] = notified[c] + 1 /\ inbox'[c] = inbox[c] \cup {notified[c] + 1}
          /\ UNCHANGED <<claimed, told, dropped, stepping>>
      BY <1>8 DEF Notify
    <3>2. 1..(notified[c] + 1) = (1..notified[c]) \cup {notified[c] + 1}
      BY <3>1, UpToNext
    <3>3. notified[c] + 1 \notin claimed[c] \cup told[c] \cup dropped[c]
      BY <3>1
    <3> QED  BY <2>1, <3>1, <3>2, <3>3
  <2>2. CASE e # c
    BY <1>8, <2>2 DEF Notify
  <2> QED  BY <2>1, <2>2
<1>9. CASE PreStep
  BY <1>9 DEF PreStep, Open
<1>10. CASE Suppress
  BY <1>10 DEF Suppress, Drained, Filtered, First
<1>11. CASE UNCHANGED vars
  BY <1>11 DEF vars
<1> QED
  BY <1>1, <1>2, <1>3, <1>4, <1>5, <1>6, <1>7, <1>8, <1>9, <1>10, <1>11 DEF Next, CallStep

\* Every variable keeps its type; notices follow ends, ends follow starts, and
\* a notice that was given or dropped is out of the inbox.
THEOREM TypeCorrect == Spec => []TypeOK
BY InitTypeOK, NextTypeOK, InitPlaced, NextPlaced, PTL DEF Spec

-----------------------------------------------------------------------------
(* The watches *)

\* A call is watched from its reservation to the end of its first epoch, to its
\* promotion or to the failure of its start.
WatchBy(c) ==
  /\ epoch[c] <= ended[c] + 1
  /\ pc[c] \in {"idle", "failed"} => epoch[c] = 0 /\ c \notin watches
  /\ pc[c] = "idle" => ~promoted[c] /\ ~resolved[c] /\ runId[c] = 0
  /\ c \in watches => subscribed /\ ended[c] = 0 /\ runId[c] = epoch[c] /\ ~resolved[c]
                      /\ pc[c] \in Open \cup {"aborted"}
  /\ promoted[c] => c \notin watches
  /\ resolved[c] => ended[c] >= 1
  /\ pc[c] = "inline" => resolved[c]
  /\ pc[c] = "starting" /\ ~promoted[c] /\ ~resolved[c] => c \in watches
  /\ pc[c] = "collecting" => ~promoted[c] /\ c \in watches

WatchInv == (subscribed => watches # {}) /\ \A c \in Call : WatchBy(c)

LEMMA InitWatchInv == Init => WatchInv
BY DEF Init, WatchInv, WatchBy, Open

LEMMA NextWatchInv == TypeOK /\ WatchInv /\ [Next]_vars => WatchInv'
<1> SUFFICES ASSUME TypeOK, WatchInv, [Next]_vars
             PROVE  (subscribed => watches # {})' /\ \A e \in Call : WatchBy(e)'
  BY DEF WatchInv
<1> USE DEF TypeOK, Epoch, WatchInv, WatchBy, Open
<1>1. ASSUME NEW c \in Call, Reserve(c) PROVE (subscribed => watches # {})' /\ \A e \in Call : WatchBy(e)'
  BY <1>1 DEF Reserve, Open
<1>2. ASSUME NEW c \in Call, Promote(c) PROVE (subscribed => watches # {})' /\ \A e \in Call : WatchBy(e)'
  BY <1>2 DEF Promote, Unwatch, Open
<1>3. ASSUME NEW c \in Call, Abort(c) PROVE (subscribed => watches # {})' /\ \A e \in Call : WatchBy(e)'
  BY <1>3 DEF Abort, Open
<1>4. ASSUME NEW c \in Call, Started(c) PROVE (subscribed => watches # {})' /\ \A e \in Call : WatchBy(e)'
  <2>1. pc[c] = "starting" /\ UNCHANGED <<promoted, resolved, watch, epoch, ended>>
        /\ \A e \in Call : e # c => pc'[e] = pc[e]
    BY <1>4 DEF Started
  <2>2. CASE promoted[c]
    <3>1. pc'[c] = "promoted"
      BY <1>4, <2>2 DEF Started
    <3> QED  BY <2>1, <2>2, <3>1
  <2>3. CASE ~promoted[c] /\ interrupted'[c]
    <3>1. pc'[c] = "aborted"
      BY <1>4, <2>3 DEF Started
    <3> QED  BY <2>1, <2>3, <3>1
  <2>4. CASE ~promoted[c] /\ ~interrupted'[c] /\ resolved[c]
    <3>1. pc'[c] = "inline"
      BY <1>4, <2>4 DEF Started
    <3> QED  BY <2>1, <2>4, <3>1
  <2>5. CASE ~promoted[c] /\ ~interrupted'[c] /\ ~resolved[c]
    <3>1. pc'[c] = "collecting"
      BY <1>4, <2>5 DEF Started
    <3> QED  BY <2>1, <2>5, <3>1
  <2> QED  BY <2>2, <2>3, <2>4, <2>5
<1>5. ASSUME NEW c \in Call, StartThrows(c) PROVE (subscribed => watches # {})' /\ \A e \in Call : WatchBy(e)'
  BY <1>5 DEF StartThrows, Unwatch
<1>6. ASSUME NEW c \in Call, EpochStarts(c) PROVE (subscribed => watches # {})' /\ \A e \in Call : WatchBy(e)'
  BY <1>6 DEF EpochStarts, Open
<1>7. ASSUME NEW c \in Call, EpochEnds(c) PROVE (subscribed => watches # {})' /\ \A e \in Call : WatchBy(e)'
  BY <1>7 DEF EpochEnds, Unwatch, Heard
<1>8. ASSUME NEW c \in Call, Notify(c) PROVE (subscribed => watches # {})' /\ \A e \in Call : WatchBy(e)'
  BY <1>8 DEF Notify
<1>9. CASE PreStep
  BY <1>9 DEF PreStep, Open
<1>10. CASE Suppress
  BY <1>10 DEF Suppress, Drained, Filtered, First
<1>11. CASE UNCHANGED vars
  BY <1>11 DEF vars
<1> QED
  BY <1>1, <1>2, <1>3, <1>4, <1>5, <1>6, <1>7, <1>8, <1>9, <1>10, <1>11 DEF Next, CallStep

\* A call that waits is watched on the bus, and a watch outlives its call only
\* if the call was aborted.
THEOREM WatchesHold == Spec => []WatchesMatch
<1>1. WatchInv => NeverDeaf
  BY DEF WatchInv, WatchBy, NeverDeaf
<1>2. TypeOK /\ WatchInv => NoLeakedWatch
  BY DEF TypeOK, WatchInv, WatchBy, NoLeakedWatch
<1>3. TypeOK /\ WatchInv => WatchesMatch
  BY <1>1, <1>2 DEF WatchesMatch
<1> QED
  BY <1>3, InitTypeOK, NextTypeOK, InitPlaced, NextPlaced, InitWatchInv, NextWatchInv, PTL DEF Spec

\* A call is resolved by the end of its child's first epoch and by nothing else.
THEOREM TerminalIsFirst == Spec => TerminalOfFirst
<1>1. ASSUME TypeOK, WatchInv, [Next]_vars, NEW c \in Call, ~resolved[c], resolved'[c]
      PROVE  ended[c] = 0 /\ ended'[c] = 1
  <2>1. EpochEnds(c)
    <3>1. ASSUME NEW d \in Call, CallStep(d)
          PROVE  EpochEnds(c)
      <4>1. EpochEnds(d) \/ UNCHANGED resolved
        BY <3>1 DEF CallStep, Reserve, Promote, Abort, Started, StartThrows, EpochStarts, Notify
      <4>2. d = c
        BY <1>1, <4>1 DEF EpochEnds, TypeOK
      <4> QED
        BY <1>1, <4>1, <4>2
    <3>2. CASE PreStep \/ Suppress \/ UNCHANGED vars
      BY <1>1, <3>2 DEF PreStep, Suppress, vars, call
    <3> QED
      BY <1>1, <3>1, <3>2 DEF Next
  <2>2. c \in watches /\ ended'[c] = ended[c] + 1
    BY <1>1, <2>1 DEF EpochEnds, Heard, TypeOK
  <2> QED
    BY <1>1, <2>2 DEF WatchInv, WatchBy
<1>2. ASSUME WatchInv', NEW c \in Call, pc'[c] = "inline"
      PROVE  resolved'[c]
  BY <1>2 DEF WatchInv, WatchBy
<1>3. TypeOK /\ WatchInv /\ WatchInv' /\ [Next]_vars =>
        [\A c \in Call :
           /\ ~resolved[c] /\ resolved'[c] => ended[c] = 0 /\ ended'[c] = 1
           /\ pc'[c] = "inline" => resolved'[c]]_vars
  BY <1>1, <1>2
<1> QED
  BY <1>3, InitTypeOK, NextTypeOK, InitPlaced, NextPlaced, InitWatchInv, NextWatchInv, PTL DEF Spec, TerminalOfFirst

-----------------------------------------------------------------------------
(* The account of an epoch *)

\* A collected child is marked until its first notice is dropped, and until
\* then no notice of it has been given.
AccountBy(c) ==
  /\ pc[c] = "idle" => ~promoted[c] /\ c \notin collected
  /\ pc[c] = "collecting" => ~promoted[c]
  /\ pc[c] \in Open => ~stepping /\ told[c] = {} /\ dropped[c] = {}
                       /\ (c \in collected <=> ~promoted[c])
  /\ c \in collected => pc[c] \in Open \cup {"inline", "aborted"} /\ told[c] = {} /\ dropped[c] = {}
  /\ pc[c] = "inline" => c \in collected \/ dropped[c] # {} \/ crossed[c]
  /\ dropped[c] # {} => pc[c] \in {"inline", "aborted"} /\ (dropped[c] = {1} \/ crossed[c])
  /\ ~crossed[c] /\ claimed[c] # {} => inbox[c] = {}
  /\ pc[c] = "inline" /\ 1 \in told[c] => crossed[c]

AccountInv == \A c \in Call : AccountBy(c)

LEMMA InitAccountInv == Init => AccountInv
<1> SUFFICES ASSUME Init, NEW c \in Call PROVE AccountBy(c)
  BY DEF AccountInv
<1>1. pc[c] = "idle" /\ collected = {} /\ told[c] = {} /\ dropped[c] = {} /\ claimed[c] = {}
  BY DEF Init
<1>2. promoted[c] = FALSE
  BY DEF Init
<1> QED  BY <1>1, <1>2 DEF AccountBy, Open

LEMMA NextAccountInv == TypeOK /\ AllPlaced /\ WatchInv /\ AccountInv /\ [Next]_vars => AccountInv'
<1> SUFFICES ASSUME TypeOK, AllPlaced, WatchInv, AccountInv, [Next]_vars, NEW e \in Call PROVE AccountBy(e)'
  BY DEF AccountInv
<1>0. pc[e] \in {"idle", "failed"} => ended[e] = 0 /\ notified[e] = 0
  BY DEF TypeOK, Epoch, WatchInv, WatchBy
<1> USE DEF TypeOK, Epoch, Epochs, AllPlaced, PlacedBy, AccountInv, AccountBy, Open
<1>1. ASSUME NEW c \in Call, Reserve(c) PROVE AccountBy(e)'
  BY <1>0, <1>1 DEF Reserve, Open
<1>2. ASSUME NEW c \in Call, Promote(c) PROVE AccountBy(e)'
  BY <1>0, <1>2 DEF Promote, Unwatch, Open
<1>3. ASSUME NEW c \in Call, Abort(c) PROVE AccountBy(e)'
  BY <1>0, <1>3 DEF Abort, Open
<1>4. ASSUME NEW c \in Call, Started(c) PROVE AccountBy(e)'
  BY <1>0, <1>4 DEF Started
<1>5. ASSUME NEW c \in Call, StartThrows(c) PROVE AccountBy(e)'
  BY <1>0, <1>5 DEF StartThrows, Unwatch
<1>6. ASSUME NEW c \in Call, EpochStarts(c) PROVE AccountBy(e)'
  BY <1>0, <1>6 DEF EpochStarts, Open
<1>7. ASSUME NEW c \in Call, EpochEnds(c) PROVE AccountBy(e)'
  BY <1>0, <1>7 DEF EpochEnds, Unwatch, Heard
<1>8. ASSUME NEW c \in Call, Notify(c) PROVE AccountBy(e)'
  BY <1>0, <1>8 DEF Notify
<1>9. CASE PreStep
  BY <1>9 DEF PreStep, Open
<1>10. CASE Suppress
  <2>1. /\ stepping /\ ~stepping' /\ UNCHANGED <<pc, promoted, crossed>>
        /\ inbox'[e] = inbox[e] \ Drained(e) /\ claimed'[e] = {}
        /\ told'[e] = told[e] \cup (claimed[e] \ Filtered(e))
        /\ dropped'[e] = dropped[e] \cup Drained(e) \cup Filtered(e)
        /\ (e \in collected' <=> e \in collected /\ inbox[e] = {} /\ claimed[e] = {})
    BY <1>10 DEF Suppress
  <2>2. AccountBy(e) /\ PlacedBy(e) /\ pc[e] \notin Open
    BY <2>1
  <2>3. CASE e \notin collected
    <3>1. Drained(e) = {} /\ Filtered(e) = {}
      BY <2>3 DEF Drained, Filtered
    <3>2. pc[e] = "inline" /\ 1 \in claimed[e] => crossed[e]
      BY <2>2, <2>3
    <3> QED  BY <2>1, <2>2, <2>3, <3>1, <3>2
  <2>4. CASE e \in collected
    <3>1. told[e] = {} /\ dropped[e] = {} /\ inbox[e] \cup claimed[e] = 1..notified[e]
          /\ pc[e] \in {"inline", "aborted"}
      BY <2>2, <2>4
    <3>2. 1 \in 1..notified[e] => First(1..notified[e]) = {1}
      BY DEF First
    <3>3. First({}) = {}
      BY DEF First
    <3>4. inbox[e] # {} \/ claimed[e] # {} => 1 \in 1..notified[e]
      BY <3>1
    <3>5. CASE crossed[e]
      <4>1. e \in collected' => Drained(e) = {} /\ Filtered(e) = {} /\ claimed[e] = {}
        BY <2>1, <3>3 DEF Drained, Filtered
      <4> QED  BY <2>1, <3>1, <3>5, <4>1
    <3>6. CASE ~crossed[e] /\ claimed[e] # {}
      <4>1. inbox[e] = {} /\ claimed[e] = 1..notified[e] /\ Filtered(e) = {1} /\ Drained(e) = {}
        BY <2>2, <2>4, <3>1, <3>2, <3>3, <3>4, <3>6 DEF Drained, Filtered
      <4> QED  BY <2>1, <3>1, <3>6, <4>1
    <3>7. CASE ~crossed[e] /\ claimed[e] = {} /\ inbox[e] # {}
      <4>1. Filtered(e) = {} /\ Drained(e) = {1}
        BY <2>4, <3>1, <3>2, <3>4, <3>7 DEF Drained, Filtered
      <4> QED  BY <2>1, <3>1, <3>7, <4>1
    <3>8. CASE ~crossed[e] /\ claimed[e] = {} /\ inbox[e] = {}
      <4>1. Filtered(e) = {} /\ Drained(e) = {}
        BY <3>3, <3>8 DEF Drained, Filtered
      <4> QED  BY <2>1, <2>2, <2>4, <3>1, <3>8, <4>1
    <3> QED  BY <3>5, <3>6, <3>7, <3>8
  <2> QED  BY <2>3, <2>4
<1>11. CASE UNCHANGED vars
  BY <1>11 DEF vars
<1> QED
  BY <1>1, <1>2, <1>3, <1>4, <1>5, <1>6, <1>7, <1>8, <1>9, <1>10, <1>11 DEF Next, CallStep

\* A terminal that was returned inline is not notified as well, unless a later
\* notice came in between claim and filter.
THEOREM AccountsOnce == Spec => []AccountedOnce
<1>1. AccountInv => AccountedOnce
  BY DEF AccountInv, AccountBy, AccountedOnce
<1> QED
  BY <1>1, InitTypeOK, NextTypeOK, InitPlaced, NextPlaced, InitWatchInv, NextWatchInv,
     InitAccountInv, NextAccountInv, PTL DEF Spec

\* No notice is dropped but that of a first epoch that was collected or aborted.
THEOREM OthersHeard == Spec => []OnlyCollectedDropped
<1>1. AccountInv => OnlyCollectedDropped
  BY DEF AccountInv, AccountBy, OnlyCollectedDropped
<1> QED
  BY <1>1, InitTypeOK, NextTypeOK, InitPlaced, NextPlaced, InitWatchInv, NextWatchInv,
     InitAccountInv, NextAccountInv, PTL DEF Spec

\* A mark is there as long as a notice is due to pop it, and no longer.
THEOREM MarksAreDue == Spec => []MarkIsDue
<1>1. AccountInv => MarkIsDue
  BY DEF AccountInv, AccountBy, MarkIsDue
<1> QED
  BY <1>1, InitTypeOK, NextTypeOK, InitPlaced, NextPlaced, InitWatchInv, NextWatchInv,
     InitAccountInv, NextAccountInv, PTL DEF Spec

=============================================================================
