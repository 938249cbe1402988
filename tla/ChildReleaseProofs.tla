------------------------- MODULE ChildReleaseProofs -------------------------
(***************************************************************************)
(* Proofs about ChildRelease, for any releases and any number of polls:    *)
(* types, the tombstone and the timer, and the two readings of the mark.   *)
(***************************************************************************)
EXTENDS ChildRelease, TLAPS

LEMMA WindowType ==
  ASSUME NEW t \in Tier, NEW o \in Override
  PROVE  /\ Window(t, o) \in {"foreground", "background", "custom", "zero"}
         /\ Window(t, o) # Off => Window(t, o) \in Tier \cup {"custom"}
BY DEF Window, Tier, Override, Off

\* What a read after the drain, and a rejection, leave.
Left(a) ==
  /\ pc' \in [Attempt -> {"idle", "listing", "racing", "polling", "late", "kept", "done"}]
  /\ releasing' \in BOOLEAN /\ released' \in BOOLEAN

LEMMA MarkTypes ==
  ASSUME TypeOK, MarkReleased \/ ClearReleasing \/ KeepMark
  PROVE  releasing' \in BOOLEAN /\ released' \in BOOLEAN
<1>1. CASE ClearReleasing
  <2> DEFINE b == releasing /\ released
  <2>1. b \in BOOLEAN
    BY DEF TypeOK
  <2>2. releasing' = b
    BY <1>1 DEF ClearReleasing
  <2> HIDE DEF b
  <2> QED
    BY <1>1, <2>1, <2>2 DEF TypeOK, ClearReleasing
<1> QED
  BY <1>1 DEF TypeOK, MarkReleased, KeepMark

LEMMA PostReadType ==
  ASSUME TypeOK, NEW a \in Attempt, PostRead(a)
  PROVE  Left(a) /\ polls' \in [Attempt -> 0..Polls]
<1> USE ChildReleaseAssumption
<1>1. /\ MarkReleased \/ ClearReleasing \/ KeepMark
      /\ Goto(a, "polling") \/ Goto(a, "done")
  BY DEF PostRead
<1>2. \/ polls[a] < Polls /\ polls' = [polls EXCEPT ![a] = @ + 1]
      \/ UNCHANGED polls
  BY DEF PostRead
<1>3. polls' \in [Attempt -> 0..Polls]
  BY <1>2 DEF TypeOK
<1>4. pc' \in [Attempt -> {"idle", "listing", "racing", "polling", "late", "kept", "done"}]
  BY <1>1 DEF TypeOK, Goto
<1> QED
  BY <1>1, <1>3, <1>4, MarkTypes DEF Left

LEMMA RejectedType == ASSUME TypeOK, NEW a \in Attempt, Rejected(a) PROVE Left(a)
<1>1. Goto(a, "done") /\ (MarkReleased \/ ClearReleasing)
  BY DEF Rejected
<1>2. pc' \in [Attempt -> {"idle", "listing", "racing", "polling", "late", "kept", "done"}]
  BY <1>1 DEF TypeOK, Goto
<1> QED
  BY <1>1, <1>2, MarkTypes DEF Left

LEMMA TypeStep == TypeOK /\ [Next]_vars => TypeOK'
<1> SUFFICES ASSUME TypeOK, [Next]_vars PROVE TypeOK'
  OBVIOUS
<1> USE ChildReleaseAssumption
<1>1. ASSUME NEW t \in Tier, NEW o \in Override, Dispatch(t, o) PROVE TypeOK'
  BY <1>1 DEF TypeOK, Dispatch, marks, release
<1>2. CASE Fire
  BY <1>2, WindowType DEF TypeOK, Fire, Arms, Unarmed, Off, entry, release, Resident
<1>3. CASE Promote
  BY <1>3, WindowType DEF TypeOK, Promote, Arms, Unarmed, Off, marks, release, Tier
<1>4. CASE Send \/ Delivers
  BY <1>4 DEF TypeOK, Send, Delivers, entry, marks, release, Resident
<1>5. CASE Created \/ Starts \/ Leaves
  BY <1>5 DEF TypeOK, Created, Starts, Leaves, Unarmed, entry, marks, release, Resident
<1>6. CASE Ends
  BY <1>6, WindowType DEF TypeOK, Ends, Arms, Unarmed, Off, entry, marks, release, Resident
<1>7. ASSUME NEW a \in Attempt, DrainSettles(a) PROVE TypeOK'
  BY <1>7 DEF TypeOK, DrainSettles, Evicted, Settled, entry, marks, release, Resident
<1>8. ASSUME NEW a \in Attempt, Call(a) \/ Refused(a) \/ TimesOut(a) PROVE TypeOK'
  BY <1>8 DEF TypeOK, Call, Refused, TimesOut, Goto, entry, marks
<1>9. ASSUME NEW a \in Attempt, Issue(a) PROVE TypeOK'
  <2>1. PICK r \in {"present", "blind"} : hit' = [hit EXCEPT ![a] = r = "present"]
    BY <1>9 DEF Issue
  <2>2. hit' \in [Attempt -> BOOLEAN]
    <3> DEFINE b == r = "present"
    <3>1. b \in BOOLEAN
      OBVIOUS
    <3>2. hit' = [hit EXCEPT ![a] = b]
      BY <2>1
    <3> HIDE DEF b
    <3> QED
      BY <3>1, <3>2 DEF TypeOK
  <2> QED
    BY <1>9, <2>2 DEF TypeOK, Issue, Goto, entry
<1>10. ASSUME NEW a \in Attempt, Hears(a) PROVE TypeOK'
  <2>1. Left(a) /\ polls' \in [Attempt -> 0..Polls]
    BY <1>10, PostReadType, RejectedType DEF Hears, TypeOK
  <2> QED
    BY <1>10, <2>1 DEF TypeOK, Hears, Left, entry
<1>11. ASSUME NEW a \in Attempt, Polled(a) PROVE TypeOK'
  <2>1. Left(a) /\ polls' \in [Attempt -> 0..Polls]
    BY <1>11, PostReadType DEF Polled
  <2> QED
    BY <1>11, <2>1 DEF TypeOK, Polled, Left, entry
<1>12. ASSUME NEW a \in Attempt, Late(a) PROVE TypeOK'
  BY <1>12 DEF TypeOK, Late, Rejected, Goto, MarkReleased, ClearReleasing, KeepMark, entry
<1>13. CASE UNCHANGED vars
  BY <1>13 DEF TypeOK, vars, entry, marks, release
<1> QED
  BY <1>1, <1>2, <1>3, <1>4, <1>5, <1>6, <1>7, <1>8, <1>9, <1>10, <1>11, <1>12, <1>13
  DEF Next, Grace, Harness, Releases

\* Every variable keeps its type.
THEOREM TypeCorrect == Spec => []TypeOK
<1>1. ASSUME Init PROVE TypeOK
  <2>1. PICK t \in Tier, o \in Override :
          \/ /\ child = "unborn" /\ recorded = FALSE /\ timer = Unarmed
             /\ t = "background" /\ o = "absent" /\ tier = t /\ override = o
          \/ /\ child = "dormant" /\ recorded = TRUE /\ tier = t /\ override = o
             /\ timer = IF Window(t, o) = Off THEN Unarmed ELSE Window(t, o)
    BY <1>1 DEF Init
  <2>2. timer \in Tier \cup {"custom", Unarmed}
    BY <2>1, WindowType
  <2>3. child \in {"unborn", "dormant"} /\ recorded \in BOOLEAN /\ tier \in Tier /\ override \in Override
    BY <2>1
  <2>4. /\ pc = [a \in Attempt |-> "idle"] /\ hit = [a \in Attempt |-> FALSE]
        /\ polls = [a \in Attempt |-> 0] /\ drain = [a \in Attempt |-> "none"]
        /\ sending = FALSE /\ tombstoned = FALSE /\ releasing = FALSE /\ released = FALSE
    BY <1>1 DEF Init
  <2>5. polls \in [Attempt -> 0..Polls] /\ hit \in [Attempt -> BOOLEAN]
    BY <2>4, ChildReleaseAssumption
  <2> QED
    BY <2>2, <2>3, <2>4, <2>5 DEF TypeOK
<1> QED
  BY <1>1, TypeStep, PTL DEF Spec

-----------------------------------------------------------------------------
(* The tombstone *)

\* Whoever has been dispatched or restored is in the arm registry.
Known == child # "unborn" => recorded

TombInv == Known /\ TombstoneHonest

LEMMA TombStep == TypeOK /\ TombInv /\ [Next]_vars => TombInv'
<1> SUFFICES ASSUME TypeOK, TombInv, [Next]_vars PROVE TombInv'
  OBVIOUS
<1> USE DEF TombInv, Known, TombstoneHonest, LiveNotTombstoned, RowWatched
<1> tier \in Tier /\ override \in Override
  BY DEF TypeOK
<1>1. ASSUME NEW t \in Tier, NEW o \in Override, Dispatch(t, o) PROVE TombInv'
  BY <1>1 DEF Dispatch
<1>2. CASE Fire
  BY <1>2, WindowType DEF Fire, Arms, entry, Resident, TypeOK
<1>3. CASE Promote
  \* Without a timer the window was off or the child is tombstoned.
  <2>1. CASE timer = Unarmed
    <3>1. Window(tier, override) # Off /\ child \in {"idle", "dormant"} => tombstoned
      BY <1>3, <2>1 DEF Promote, Unarmed, Window, Tier, Override, Off
    <3> QED
      BY <1>3, <2>1, <3>1 DEF Promote, Window, Tier, Override, Off, marks
  <2>2. CASE timer # Unarmed
    BY <1>3, <2>2 DEF Promote, Arms, Window, marks
  <2> QED
    BY <2>1, <2>2
<1>4. CASE Send \/ Delivers
  BY <1>4 DEF Send, Delivers, entry, marks, Window
<1>5. CASE Created \/ Starts \/ Leaves
  BY <1>5 DEF Created, Starts, Leaves, entry, marks, Window
<1>6. CASE Ends
  BY <1>6 DEF Ends, Arms, entry, marks, Window
<1>7. ASSUME NEW a \in Attempt, DrainSettles(a) PROVE TombInv'
  BY <1>7 DEF DrainSettles, Evicted, entry, marks, Window
<1>8. ASSUME NEW a \in Attempt, Releases(a) PROVE TombInv'
  <2>1. UNCHANGED <<child, entry, timer, tombstoned>>
    BY <1>8 DEF Releases, Call, Refused, Issue, Hears, Polled, TimesOut, Late, marks
  <2> QED
    BY <2>1 DEF entry, Window
<1>9. CASE UNCHANGED vars
  BY <1>9 DEF vars, entry, marks, Window
<1> QED
  BY <1>1, <1>2, <1>3, <1>4, <1>5, <1>6, <1>7, <1>8, <1>9 DEF Next, Grace, Harness

\* No child is tombstoned while it is live, and none that has settled is left
\* without tombstone and timer.
THEOREM TombstonesHonest == Spec => []TombstoneHonest
<1>1. Init => TombInv
  BY WindowType DEF Init, TombInv, Known, TombstoneHonest, LiveNotTombstoned, RowWatched
<1>2. TombInv => TombstoneHonest
  BY DEF TombInv
<1> QED
  BY <1>1, <1>2, TombStep, TypeCorrect, PTL DEF Spec

-----------------------------------------------------------------------------
(* The mark *)

\* Only a release whose drain resolved reads the registry again.
PollsResolved == \A a \in Attempt : pc[a] = "polling" => drain[a] = "resolved"

MarkInv == PollsResolved /\ MarkAccounted /\ EvictionSeen

LEMMA MarkStep == TypeOK /\ MarkInv /\ [Next]_vars => MarkInv'
<1> SUFFICES ASSUME TypeOK, MarkInv, [Next]_vars PROVE MarkInv'
  OBVIOUS
<1> USE DEF MarkInv, PollsResolved, MarkAccounted, EvictionSeen
<1>1. CASE Grace \/ Created \/ Starts \/ Ends \/ Leaves \/ UNCHANGED vars
  <2>1. UNCHANGED <<releasing, released, pc, drain>>
    BY <1>1 DEF Grace, Dispatch, Fire, Promote, Send, Delivers, Created, Starts, Ends, Leaves,
                marks, release, vars
  <2> QED
    BY <2>1
<1>2. ASSUME NEW a \in Attempt, DrainSettles(a) PROVE MarkInv'
  <2>1. UNCHANGED <<releasing, released, pc>> /\ drain[a] = "pending"
    BY <1>2 DEF DrainSettles, marks, release
  <2>2. PICK how \in Settled : drain' = [drain EXCEPT ![a] = how]
    BY <1>2 DEF DrainSettles, Settled
  <2>3. drain'[a] \in Settled
    BY <2>2 DEF TypeOK
  <2> QED
    BY <2>1, <2>2, <2>3 DEF TypeOK
<1>3. ASSUME NEW a \in Attempt, Call(a) \/ Refused(a) \/ TimesOut(a) PROVE MarkInv'
  <2>1. /\ UNCHANGED <<releasing, released, drain>>
        /\ \/ pc[a] = "idle" /\ Goto(a, "listing")
           \/ pc[a] = "listing" /\ Goto(a, "done")
           \/ pc[a] = "racing" /\ Goto(a, "late")
    BY <1>3 DEF Call, Refused, TimesOut, marks
  <2>2. PollsResolved' /\ EvictionSeen'
    BY <2>1 DEF Goto, TypeOK
  <2>3. MarkAccounted'
    BY <2>1 DEF Goto, TypeOK
  <2> QED
    BY <2>2, <2>3
<1>4. ASSUME NEW a \in Attempt, Issue(a) PROVE MarkInv'
  <2>1. releasing' /\ pc' = [pc EXCEPT ![a] = "racing"] /\ drain' = [drain EXCEPT ![a] = "pending"]
        /\ pc[a] = "listing"
    BY <1>4 DEF Issue, Goto
  <2>2. pc'[a] = "racing"
    BY <2>1 DEF TypeOK
  <2> QED
    BY <2>1, <2>2 DEF TypeOK
<1>5. ASSUME NEW a \in Attempt, Hears(a) \/ Polled(a) \/ Late(a) PROVE MarkInv'
  <2>1. UNCHANGED drain /\ drain[a] \in Settled
    BY <1>5 DEF Hears, Polled, Late, Rejected, Settled
  <2>2. \/ Goto(a, "polling") /\ drain[a] = "resolved"
        \/ Goto(a, "done") \/ Goto(a, "kept")
    BY <1>5 DEF Hears, Polled, Late, Rejected, PostRead
  <2>3. \/ releasing' = FALSE
        \/ releasing' = (releasing /\ released) /\ released' = released
        \/ releasing' = releasing /\ released' = released /\ (Goto(a, "polling") \/ Goto(a, "kept"))
    BY <1>5 DEF Hears, Polled, Late, Rejected, PostRead, MarkReleased, ClearReleasing, KeepMark
  <2>4. PollsResolved'
    BY <2>1, <2>2 DEF Goto, TypeOK
  <2>5. EvictionSeen'
    BY <2>1
  <2>6. MarkAccounted'
    <3>1. CASE Goto(a, "polling") \/ Goto(a, "kept")
      <4>1. pc'[a] \in {"polling", "kept"}
        BY <3>1 DEF Goto, TypeOK
      <4> QED
        BY <4>1
    <3>2. CASE ~(Goto(a, "polling") \/ Goto(a, "kept"))
      <4>1. releasing' => released'
        BY <2>3, <3>2 DEF TypeOK
      <4> QED
        BY <4>1
    <3> QED
      BY <3>1, <3>2
  <2> QED
    BY <2>4, <2>5, <2>6
<1> QED
  BY <1>1, <1>2, <1>3, <1>4, <1>5 DEF Next, Harness, Releases

LEMMA MarkInvariant == Spec => []MarkInv
<1>1. Init => MarkInv
  BY DEF Init, MarkInv, PollsResolved, MarkAccounted, EvictionSeen
<1> QED
  BY <1>1, MarkStep, TypeCorrect, PTL DEF Spec

\* The mark of a child that was never released has a release behind it.
THEOREM MarksAccounted == Spec => []MarkAccounted
<1>1. MarkInv => MarkAccounted
  BY DEF MarkInv
<1> QED
  BY <1>1, MarkInvariant, PTL

\* While drains are in flight and none has settled, the mark is there to see.
THEOREM EvictionsSeen == Spec => []EvictionSeen
<1>1. MarkInv => EvictionSeen
  BY DEF MarkInv
<1> QED
  BY <1>1, MarkInvariant, PTL
=============================================================================
