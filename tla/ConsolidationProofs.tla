------------------------ MODULE ConsolidationProofs ------------------------
(* Safety of the consolidation lock and of the pressure marker, for any    *)
(* number of processes, dreams and saves.                                  *)
EXTENDS Consolidation, TLAPS

USE ConsolidationAssumption
USE DEF Actor, files, locals, history, Idle, Goto, ReadsFile, ReadFails, Absent, WritesLock, WritesMarker,
        MayWriteLock, MayWriteMarker, Returns

-----------------------------------------------------------------------------
(* Types *)

LEMMA InitTypeOK == Init => TypeOK
<1> SUFFICES ASSUME Init PROVE TypeOK
  OBVIOUS
<1>1. now \in 1..MaxTime /\ lock \in [pid : Proc \cup {NoPid}, at : Epoch] /\ marker \in Marker
  BY DEF Init, Epoch, Marker
<1>2. inflight \in [Proc -> BOOLEAN] /\ stale \in [Actor -> BOOLEAN]
      /\ blind \in [Actor -> BOOLEAN] /\ late \in [Dream -> BOOLEAN]
  BY DEF Init
<1>3. pc \in [Actor -> Label] /\ keep \in [Actor -> Marker]
  BY <1>1 DEF Init, Label
<1>4. at \in [Dream -> Epoch] /\ served \in [Dream -> Nat] /\ forced \in [Dream -> Epoch]
      /\ prior \in [Dream -> Epoch]
  BY DEF Init, Epoch
<1>5. completed \subseteq Epoch /\ reclaimed \in BOOLEAN
  BY DEF Init
<1> QED
  BY <1>1, <1>2, <1>3, <1>4, <1>5 DEF TypeOK

\* A best-effort write keeps the type of the file and of its history.
LEMMA MayWriteLockType ==
  ASSUME TypeOK, NEW a \in Actor, NEW new \in [pid : Proc \cup {NoPid}, at : Epoch],
         MayWriteLock(a, new)
  PROVE  lock' \in [pid : Proc \cup {NoPid}, at : Epoch] /\ stale' \in [Actor -> BOOLEAN]
<1>1. CASE WritesLock(a, new)
  BY <1>1 DEF TypeOK
<1>2. CASE UNCHANGED <<lock, stale>>
  BY <1>2 DEF TypeOK
<1> QED  BY <1>1, <1>2, Zenon DEF MayWriteLock

LEMMA MayWriteMarkerType ==
  ASSUME TypeOK, NEW a \in Actor, NEW new \in Marker, MayWriteMarker(a, new)
  PROVE  marker' \in Marker /\ stale' \in [Actor -> BOOLEAN]
<1>1. CASE WritesMarker(a, new)
  BY <1>1 DEF TypeOK
<1>2. CASE UNCHANGED <<marker, stale>>
  BY <1>2 DEF TypeOK
<1> QED  BY <1>1, <1>2, Zenon DEF MayWriteMarker

\* A read, good or failed, keeps the type of its history.
LEMMA ReadType ==
  ASSUME TypeOK, NEW a \in Actor,
         ReadsFile(a) \/ ReadFails(a) \/ UNCHANGED <<stale, blind>>
  PROVE  stale' \in [Actor -> BOOLEAN] /\ blind' \in [Actor -> BOOLEAN]
<1>1. stale' = stale \/ stale' = [stale EXCEPT ![a] = FALSE]
  OBVIOUS
<1>2. blind' = blind \/ blind' = [blind EXCEPT ![a] = FALSE] \/ blind' = [blind EXCEPT ![a] = TRUE]
  OBVIOUS
<1> QED  BY <1>1, <1>2 DEF TypeOK

LEMMA NextTypeOK == TypeOK /\ [Next]_vars => TypeOK'
<1> SUFFICES ASSUME TypeOK, [Next]_vars PROVE TypeOK'
  OBVIOUS
<1> USE DEF TypeOK, Label, Epoch, Marker
<1>1. CASE Tick
  BY <1>1 DEF Tick
<1>2. ASSUME NEW d \in Dream, Begin(d) PROVE TypeOK'
  BY <1>2 DEF Begin
<1>3. ASSUME NEW d \in Dream, ReadMarker(d) PROVE TypeOK'
  BY <1>3 DEF ReadMarker
<1>4. ASSUME NEW d \in Dream, Gates(d) PROVE TypeOK'
  BY <1>4 DEF Gates
<1>5. ASSUME NEW d \in Dream, ForceRead(d) PROVE TypeOK'
  <2>1. stale' \in [Actor -> BOOLEAN] /\ blind' \in [Actor -> BOOLEAN]
    <3>1. ReadsFile(d) \/ ReadFails(d)
      BY <1>5, Zenon DEF ForceRead
    <3> HIDE DEF ReadsFile, ReadFails, TypeOK
    <3> QED  BY <3>1, ReadType, Zenon
  <2>2. keep' \in [Actor -> Marker]
    <3>1. \E m \in Marker : keep' = [keep EXCEPT ![d] = m]
      BY <1>5 DEF ForceRead, Later
    <3> HIDE DEF Marker
    <3> QED  BY <3>1
  <2>3. pc' = [pc EXCEPT ![d] = "forceWrite"]
        /\ UNCHANGED <<now, files, inflight, at, served, forced, prior, late, completed, reclaimed>>
    BY <1>5, Zenon DEF ForceRead
  <2> QED  BY <2>1, <2>2, <2>3
<1>6. ASSUME NEW d \in Dream, ForceWrite(d) PROVE TypeOK'
  <2>1. marker' \in Marker /\ stale' \in [Actor -> BOOLEAN]
    <3>1. keep[d] \in Marker /\ d \in Actor
      OBVIOUS
    <3>2. MayWriteMarker(d, keep[d])
      BY <1>6, Zenon DEF ForceWrite
    <3> HIDE DEF MayWriteMarker, TypeOK, Marker, Actor
    <3> QED  BY <3>1, <3>2, MayWriteMarkerType, Zenon
  <2>2. late' \in [Dream -> BOOLEAN]
    BY <1>6 DEF ForceWrite, Overwritten
  <2>3. pc' \in [Actor -> Label] /\ inflight' \in [Proc -> BOOLEAN]
    <3>1. pc' = [pc EXCEPT ![d] = "acqRead"] \/ pc' = [pc EXCEPT ![d] = "end"]
      BY <1>6, Zenon DEF ForceWrite
    <3>2. inflight' = inflight \/ inflight' = [inflight EXCEPT ![ProcOf[d]] = FALSE]
      BY <1>6, Zenon DEF ForceWrite
    <3> QED  BY <3>1, <3>2
  <2>4. UNCHANGED <<now, lock, locals, blind, completed, reclaimed>>
    BY <1>6, Zenon DEF ForceWrite
  <2> HIDE DEF MayWriteMarker, Label
  <2> QED  BY <2>1, <2>2, <2>3, <2>4
<1>7. ASSUME NEW d \in Dream, AcqRead(d) PROVE TypeOK'
  <2>1. pc' \in [Actor -> Label]
    <3>1. pc' = [pc EXCEPT ![d] = "end"] \/ pc' = [pc EXCEPT ![d] = "acqWrite"]
      BY <1>7, Zenon DEF AcqRead
    <3> QED  BY <3>1
  <2>2. inflight' \in [Proc -> BOOLEAN]
    <3>1. inflight' = inflight \/ inflight' = [inflight EXCEPT ![ProcOf[d]] = FALSE]
      BY <1>7, Zenon DEF AcqRead
    <3> QED  BY <3>1
  <2>3. prior' \in [Dream -> Epoch]
    <3>1. \/ prior' = prior \/ prior' = [prior EXCEPT ![d] = lock.at]
          \/ prior' = [prior EXCEPT ![d] = 0]
      BY <1>7, Zenon DEF AcqRead
    <3> QED  BY <3>1
  <2>4. stale' \in [Actor -> BOOLEAN] /\ blind' \in [Actor -> BOOLEAN]
    <3>1. ReadsFile(d) \/ ReadFails(d) \/ UNCHANGED <<stale, blind>>
      BY <1>7, Zenon DEF AcqRead
    <3> HIDE DEF ReadsFile, ReadFails, TypeOK
    <3> QED  BY <3>1, ReadType, Zenon
  <2>5. reclaimed' \in BOOLEAN
    BY <1>7, Zenon DEF AcqRead
  <2>6. UNCHANGED <<now, files, at, served, forced, keep, late, completed>>
    BY <1>7, Zenon DEF AcqRead
  <2> HIDE DEF Label
  <2> QED  BY <2>1, <2>2, <2>3, <2>4, <2>5, <2>6
<1>8. ASSUME NEW d \in Dream, AcqWrite(d) PROVE TypeOK'
  <2>1. pc' \in [Actor -> Label]
    <3>1. pc' = [pc EXCEPT ![d] = "acqVerify"] \/ pc' = [pc EXCEPT ![d] = "end"]
      BY <1>8, Zenon DEF AcqWrite
    <3> QED  BY <3>1
  <2>2. inflight' \in [Proc -> BOOLEAN]
    <3>1. inflight' = inflight \/ inflight' = [inflight EXCEPT ![ProcOf[d]] = FALSE]
      BY <1>8, Zenon DEF AcqWrite
    <3> QED  BY <3>1
  <2>3. lock' \in [pid : Proc \cup {NoPid}, at : Epoch]
    <3>1. lock' = lock \/ lock' = Stamp(d)
      BY <1>8, Zenon DEF AcqWrite
    <3> QED  BY <3>1 DEF Stamp
  <2>4. stale' \in [Actor -> BOOLEAN]
    BY <1>8 DEF AcqWrite
  <2>5. UNCHANGED <<now, marker, locals, blind, late, completed, reclaimed>>
    BY <1>8, Zenon DEF AcqWrite
  <2> HIDE DEF Label
  <2> QED  BY <2>1, <2>2, <2>3, <2>4, <2>5
<1>9. ASSUME NEW d \in Dream, AcqVerify(d) PROVE TypeOK'
  BY <1>9 DEF AcqVerify
<1>10. ASSUME NEW d \in Dream, Dispatch(d) PROVE TypeOK'
  BY <1>10 DEF Dispatch
<1>11. ASSUME NEW d \in Dream, JobEnds(d) PROVE TypeOK'
  <2>1. completed' \subseteq Epoch'
    <3>1. at[d] \in Epoch /\ Epoch' = Epoch
      BY <1>11 DEF JobEnds
    <3>2. completed' = completed \cup {at[d]} \/ completed' = completed
      BY <1>11, Zenon DEF JobEnds
    <3> HIDE DEF Epoch
    <3> QED  BY <3>1, <3>2
  <2>2. pc' \in [Actor -> Label]
    <3>1. \E l \in {"relRead", "retry", "rollRead"} : pc' = [pc EXCEPT ![d] = l]
      BY <1>11, Zenon DEF JobEnds
    <3> QED  BY <3>1
  <2> QED  BY <1>11, <2>1, <2>2 DEF JobEnds
<1>12. ASSUME NEW d \in Dream, RelRead(d) PROVE TypeOK'
  BY <1>12 DEF RelRead, GuardRead
<1>13. ASSUME NEW d \in Dream, RelWrite(d) PROVE TypeOK'
  <2>1. [pid |-> NoPid, at |-> at[d]] \in [pid : Proc \cup {NoPid}, at : Epoch]
    OBVIOUS
  <2>2. lock' \in [pid : Proc \cup {NoPid}, at : Epoch] /\ stale' \in [Actor -> BOOLEAN]
    BY <1>13, <2>1, MayWriteLockType, Zenon DEF RelWrite
  <2> HIDE DEF MayWriteLock
  <2> QED  BY <1>13, <2>2 DEF RelWrite
<1>14. ASSUME NEW d \in Dream, RollRead(d) PROVE TypeOK'
  <2>1. pc' \in [Actor -> Label]
    <3>1. \E l \in {"rollWrite", "throwWrite", "end"} : pc' = [pc EXCEPT ![d] = l]
      BY <1>14, Zenon DEF RollRead, GuardRead
    <3> QED  BY <3>1
  <2>2. inflight' \in [Proc -> BOOLEAN]
    <3>1. inflight' = inflight \/ inflight' = [inflight EXCEPT ![ProcOf[d]] = FALSE]
      BY <1>14, Zenon DEF RollRead
    <3> QED  BY <3>1
  <2>3. stale' \in [Actor -> BOOLEAN] /\ blind' \in [Actor -> BOOLEAN]
    <3>1. ReadsFile(d) \/ UNCHANGED <<stale, blind>>
      BY <1>14, Zenon DEF RollRead, GuardRead
    <3> HIDE DEF ReadsFile, ReadFails, TypeOK
    <3> QED  BY <3>1, ReadType, Zenon
  <2>4. UNCHANGED <<now, files, locals, late, completed, reclaimed>>
    BY <1>14, Zenon DEF RollRead
  <2> HIDE DEF Label
  <2> QED  BY <2>1, <2>2, <2>3, <2>4
<1>15. ASSUME NEW d \in Dream, RollWrite(d) PROVE TypeOK'
  <2>1. [pid |-> NoPid, at |-> prior[d]] \in [pid : Proc \cup {NoPid}, at : Epoch]
    OBVIOUS
  <2>2. lock' \in [pid : Proc \cup {NoPid}, at : Epoch] /\ stale' \in [Actor -> BOOLEAN]
    BY <1>15, <2>1, MayWriteLockType, Zenon DEF RollWrite
  <2>3. inflight' \in [Proc -> BOOLEAN]
    BY <1>15 DEF RollWrite
  <2> HIDE DEF MayWriteLock
  <2> QED  BY <1>15, <2>2, <2>3 DEF RollWrite
<1>16. ASSUME NEW d \in Dream, ClearRead(d) PROVE TypeOK'
  <2>1. stale' \in [Actor -> BOOLEAN] /\ blind' \in [Actor -> BOOLEAN]
    <3>1. ReadsFile(d) \/ UNCHANGED <<stale, blind>>
      BY <1>16, Zenon DEF ClearRead
    <3> HIDE DEF ReadsFile, ReadFails, TypeOK
    <3> QED  BY <3>1, ReadType, Zenon
  <2>2. keep' \in [Actor -> Marker]
    <3>1. keep' = keep \/ \E m \in Marker : keep' = [keep EXCEPT ![d] = m]
      BY <1>16 DEF ClearRead
    <3> HIDE DEF Marker
    <3> QED  BY <3>1
  <2>3. pc' = [pc EXCEPT ![d] = "clearWrite"] \/ pc' = [pc EXCEPT ![d] = "end"]
    BY <1>16, Zenon DEF ClearRead
  <2>4. UNCHANGED <<now, files, inflight, at, served, forced, prior, late, completed, reclaimed>>
    BY <1>16, Zenon DEF ClearRead
  <2> QED  BY <2>1, <2>2, <2>3, <2>4
<1>17. ASSUME NEW d \in Dream, ClearWrite(d) PROVE TypeOK'
  <2>1. marker' \in Marker /\ stale' \in [Actor -> BOOLEAN]
    <3>1. keep[d] \in Marker /\ d \in Actor
      OBVIOUS
    <3>2. MayWriteMarker(d, keep[d])
      BY <1>17, Zenon DEF ClearWrite
    <3> HIDE DEF MayWriteMarker, TypeOK, Marker, Actor
    <3> QED  BY <3>1, <3>2, MayWriteMarkerType, Zenon
  <2>2. late' \in [Dream -> BOOLEAN]
    BY <1>17 DEF ClearWrite, Overwritten
  <2> HIDE DEF MayWriteMarker
  <2> QED  BY <1>17, <2>1, <2>2 DEF ClearWrite
<1>18. ASSUME NEW s \in Saver, ArmRead(s) PROVE TypeOK'
  <2>1. stale' \in [Actor -> BOOLEAN] /\ blind' \in [Actor -> BOOLEAN]
    <3>1. ReadsFile(s) \/ ReadFails(s) \/ UNCHANGED <<stale, blind>>
      BY <1>18, Zenon DEF ArmRead
    <3> HIDE DEF ReadsFile, ReadFails, TypeOK
    <3> QED  BY <3>1, ReadType, Zenon
  <2>2. keep' \in [Actor -> Marker]
    <3>1. keep' = keep \/ \E m \in Marker : keep' = [keep EXCEPT ![s] = m]
      BY <1>18 DEF ArmRead, Later
    <3> HIDE DEF Marker
    <3> QED  BY <3>1
  <2>3. pc' = [pc EXCEPT ![s] = "armWrite"] \/ pc' = [pc EXCEPT ![s] = "end"]
    BY <1>18, Zenon DEF ArmRead
  <2>4. UNCHANGED <<now, files, inflight, at, served, forced, prior, late, completed, reclaimed>>
    BY <1>18, Zenon DEF ArmRead
  <2> QED  BY <2>1, <2>2, <2>3, <2>4
<1>19. ASSUME NEW s \in Saver, ArmWrite(s) PROVE TypeOK'
  <2>1. marker' \in Marker /\ stale' \in [Actor -> BOOLEAN]
    <3>1. keep[s] \in Marker /\ s \in Actor
      OBVIOUS
    <3>2. MayWriteMarker(s, keep[s])
      BY <1>19, Zenon DEF ArmWrite
    <3> HIDE DEF MayWriteMarker, TypeOK, Marker, Actor
    <3> QED  BY <3>1, <3>2, MayWriteMarkerType, Zenon
  <2>2. late' \in [Dream -> BOOLEAN]
    <3>1. late' = [d \in Dream |-> Landed(s, d)] \/ late' = late
      BY <1>19, Zenon DEF ArmWrite
    <3> QED  BY <3>1, Zenon DEF Landed
  <2> HIDE DEF MayWriteMarker
  <2> QED  BY <1>19, <2>1, <2>2 DEF ArmWrite
<1>20. ASSUME NEW p \in Proc, Crash(p) PROVE TypeOK'
  BY <1>20 DEF Crash
<1>21. CASE UNCHANGED vars
  BY <1>21 DEF vars
<1> QED
  BY <1>1, <1>2, <1>3, <1>4, <1>5, <1>6, <1>7, <1>8, <1>9, <1>10, <1>11,
     <1>12, <1>13, <1>14, <1>15, <1>16, <1>17, <1>18, <1>19, <1>20, <1>21
  DEF Next, DreamStep

\* Every variable keeps its type, and no stamp is from the future.
THEOREM TypeCorrect == Spec => []TypeOK
BY InitTypeOK, NextTypeOK, PTL DEF Spec

-----------------------------------------------------------------------------
(* The lock *)

\* A write of the lock whose read is still good rests on what that read found.
GuardBy(d) ==
  /\ pc[d] \notin {"idle", "dead"} => at[d] > 0
  /\ pc[d] = "acqWrite" /\ ~stale[d] /\ ~blind[d] => ~Blocks(d)
  /\ pc[d] \in {"relWrite", "rollWrite", "throwWrite"} /\ ~stale[d] => lock = Stamp(d)

GuardInv == \A d \in Dream : GuardBy(d)

LEMMA NextGuardInv == TypeOK /\ GuardInv /\ [Next]_vars => GuardInv'
<1> SUFFICES ASSUME TypeOK, GuardInv, [Next]_vars, NEW e \in Dream PROVE GuardBy(e)'
  BY DEF GuardInv
<1>0. GuardBy(e)
  BY DEF GuardInv
<1> USE DEF TypeOK, GuardBy, Blocks, Stamp, LockWriting
<1>1. CASE Tick
  BY <1>0, <1>1 DEF Tick
<1>2. ASSUME NEW d \in Dream, Begin(d) PROVE GuardBy(e)'
  BY <1>0, <1>2 DEF Begin
<1>3. ASSUME NEW d \in Dream, ReadMarker(d) PROVE GuardBy(e)'
  BY <1>0, <1>3 DEF ReadMarker
<1>4. ASSUME NEW d \in Dream, Gates(d) PROVE GuardBy(e)'
  BY <1>0, <1>4 DEF Gates
<1>5. ASSUME NEW d \in Dream, ForceRead(d) PROVE GuardBy(e)'
  BY <1>0, <1>5 DEF ForceRead, Later
<1>6. ASSUME NEW d \in Dream, ForceWrite(d) PROVE GuardBy(e)'
  BY <1>0, <1>6 DEF ForceWrite, MarkerWriting
<1>7. ASSUME NEW d \in Dream, AcqRead(d) PROVE GuardBy(e)'
  <2>1. UNCHANGED <<lock, at>> /\ pc[d] = "acqRead"
    BY <1>7 DEF AcqRead
  <2>2. \/ pc' = [pc EXCEPT ![d] = "end"] /\ UNCHANGED <<stale, blind>>
        \/ pc' = [pc EXCEPT ![d] = "acqWrite"] /\ ReadsFile(d) /\ ~Blocks(d)
        \/ pc' = [pc EXCEPT ![d] = "acqWrite"] /\ ReadFails(d)
    BY <1>7, Zenon DEF AcqRead
  <2> QED  BY <1>0, <2>1, <2>2
<1>8. ASSUME NEW d \in Dream, AcqWrite(d) PROVE GuardBy(e)'
  <2>1. UNCHANGED <<at, blind>> /\ pc[d] = "acqWrite"
    BY <1>8 DEF AcqWrite
  <2>2. \/ pc' = [pc EXCEPT ![d] = "acqVerify"] /\ WritesLock(d, Stamp(d))
        \/ pc' = [pc EXCEPT ![d] = "end"] /\ UNCHANGED <<lock, stale>>
    BY <1>8, Zenon DEF AcqWrite
  <2>3. CASE pc' = [pc EXCEPT ![d] = "acqVerify"] /\ WritesLock(d, Stamp(d))
    BY <1>0, <2>1, <2>3
  <2>4. CASE pc' = [pc EXCEPT ![d] = "end"] /\ UNCHANGED <<lock, stale>>
    BY <1>0, <2>1, <2>4
  <2> QED  BY <2>2, <2>3, <2>4, Zenon
<1>9. ASSUME NEW d \in Dream, AcqVerify(d) PROVE GuardBy(e)'
  BY <1>0, <1>9 DEF AcqVerify
<1>10. ASSUME NEW d \in Dream, Dispatch(d) PROVE GuardBy(e)'
  BY <1>0, <1>10 DEF Dispatch
<1>11. ASSUME NEW d \in Dream, JobEnds(d) PROVE GuardBy(e)'
  BY <1>0, <1>11 DEF JobEnds
<1>12. ASSUME NEW d \in Dream, RelRead(d) PROVE GuardBy(e)'
  BY <1>0, <1>12 DEF RelRead, GuardRead
<1>13. ASSUME NEW d \in Dream, RelWrite(d) PROVE GuardBy(e)'
  BY <1>0, <1>13 DEF RelWrite
<1>14. ASSUME NEW d \in Dream, RollRead(d) PROVE GuardBy(e)'
  BY <1>0, <1>14 DEF RollRead, GuardRead
<1>15. ASSUME NEW d \in Dream, RollWrite(d) PROVE GuardBy(e)'
  BY <1>0, <1>15 DEF RollWrite
<1>16. ASSUME NEW d \in Dream, ClearRead(d) PROVE GuardBy(e)'
  BY <1>0, <1>16 DEF ClearRead
<1>17. ASSUME NEW d \in Dream, ClearWrite(d) PROVE GuardBy(e)'
  BY <1>0, <1>17 DEF ClearWrite, MarkerWriting
<1>18. ASSUME NEW s \in Saver, ArmRead(s) PROVE GuardBy(e)'
  BY <1>0, <1>18 DEF ArmRead, Later
<1>19. ASSUME NEW s \in Saver, ArmWrite(s) PROVE GuardBy(e)'
  BY <1>0, <1>19 DEF ArmWrite, MarkerWriting
<1>20. ASSUME NEW p \in Proc, Crash(p) PROVE GuardBy(e)'
  BY <1>0, <1>20 DEF Crash
<1>21. CASE UNCHANGED vars
  BY <1>0, <1>21 DEF vars
<1> QED
  BY <1>1, <1>2, <1>3, <1>4, <1>5, <1>6, <1>7, <1>8, <1>9, <1>10, <1>11,
     <1>12, <1>13, <1>14, <1>15, <1>16, <1>17, <1>18, <1>19, <1>20, <1>21
  DEF Next, DreamStep
LEMMA InitGuardInv == Init => GuardInv
BY DEF Init, GuardInv, GuardBy

\* A dream's stamp is taken from it only by a dream that found it past the
\* stale window, by one whose read of the lock failed, or in the race between
\* another's read of the lock and its write.
THEOREM HoldersUndisturbed == Spec => HolderUndisturbed
<1> DEFINE Safe(d, e) == Holds(d) /\ lock' # lock /\ Stamp(e) # Stamp(d) /\ Writes(e, LockWriting) =>
                           stale[e] \/ (pc[e] = "acqWrite" /\ (blind[e] \/ at[e] - at[d] >= Stale))
<1>1. TypeOK /\ GuardInv => \A d, e \in Dream : Safe(d, e)
  <2> SUFFICES ASSUME TypeOK, GuardInv, NEW d \in Dream, NEW e \in Dream, Holds(d),
                      Stamp(e) # Stamp(d), pc[e] \in LockWriting, ~stale[e]
               PROVE  pc[e] = "acqWrite" /\ (blind[e] \/ at[e] - at[d] >= Stale)
    BY DEF Writes
  <2>1. lock = Stamp(d) /\ at[d] > 0
    BY DEF Holds, Holding, GuardInv, GuardBy
  <2>2. GuardBy(e) /\ pc[e] = "acqWrite"
    BY <2>1 DEF GuardInv, GuardBy, LockWriting
  <2>3. lock.pid # NoPid /\ lock.at = at[d]
    BY <2>1 DEF Stamp
  <2> QED
    BY <2>1, <2>2, <2>3 DEF GuardBy, Blocks, TypeOK, Epoch
<1>2. TypeOK /\ GuardInv /\ [Next]_vars => [\A d, e \in Dream : Safe(d, e)]_vars
  BY <1>1
<1> QED
  BY <1>2, InitTypeOK, NextTypeOK, InitGuardInv, NextGuardInv, PTL DEF Spec, HolderUndisturbed

-----------------------------------------------------------------------------
(* The marker *)

\* A write of the marker whose read is still good rests on what that read
\* found; without a read that succeeded nothing is cleared, and the stamp keeps
\* the arm the dream has read first.
MarkerBy(a) ==
  /\ pc[a] = "clearWrite" => ~blind[a]
  /\ pc[a] = "clearWrite" /\ ~stale[a] =>
       keep[a].armed = IF marker.armed > served[a] THEN marker.armed ELSE 0
  /\ pc[a] = "forceRead" => served[a] > 0
  /\ pc[a] = "forceWrite" /\ blind[a] => keep[a].armed > 0
  /\ pc[a] = "forceWrite" /\ ~stale[a] /\ ~blind[a] =>
       keep[a].armed >= marker.armed /\ (marker.armed = 0 => keep[a].armed = 0)
  /\ pc[a] = "armWrite" => keep[a].armed > 0
  /\ pc[a] = "armWrite" /\ ~stale[a] /\ ~blind[a] => keep[a].armed > marker.armed

\* Only a dream clears or forces, only a save arms.
Own(a) ==
  /\ a \notin Dream => pc[a] \in {"idle", "armWrite", "end"}
  /\ a \in Dream => pc[a] # "armWrite"

MarkerInv == \A a \in Actor : MarkerBy(a) /\ Own(a)

LEMMA InitMarkerInv == Init => MarkerInv
BY DEF Init, MarkerInv, MarkerBy, Own

LEMMA NextMarkerInv == TypeOK /\ MarkerInv /\ [Next]_vars => MarkerInv'
<1> SUFFICES ASSUME TypeOK, MarkerInv, [Next]_vars, NEW a \in Actor
             PROVE  MarkerBy(a)' /\ Own(a)'
  BY DEF MarkerInv
<1>0. MarkerBy(a) /\ Own(a)
  BY DEF MarkerInv
<1> USE DEF TypeOK, MarkerBy, Own, Marker, MarkerWriting
<1>1. CASE Tick
  BY <1>0, <1>1 DEF Tick
<1>2. ASSUME NEW d \in Dream, Begin(d) PROVE MarkerBy(a)' /\ Own(a)'
  BY <1>0, <1>2 DEF Begin
<1>3. ASSUME NEW d \in Dream, ReadMarker(d) PROVE MarkerBy(a)' /\ Own(a)'
  BY <1>0, <1>3 DEF ReadMarker
<1>4. ASSUME NEW d \in Dream, Gates(d) PROVE MarkerBy(a)' /\ Own(a)'
  BY <1>0, <1>4 DEF Gates
<1>5. ASSUME NEW d \in Dream, ForceRead(d) PROVE MarkerBy(a)' /\ Own(a)'
  BY <1>0, <1>5 DEF ForceRead, Later
<1>6. ASSUME NEW d \in Dream, ForceWrite(d) PROVE MarkerBy(a)' /\ Own(a)'
  <2>1. MayWriteMarker(d, keep[d]) /\ UNCHANGED <<served, keep, blind>>
        /\ (Goto(d, "acqRead") \/ Goto(d, "end"))
    BY <1>6, Zenon DEF ForceWrite
  <2>2. CASE WritesMarker(d, keep[d])
    <3>1. Own(a)' /\ (a = d => MarkerBy(a)')
      BY <1>0, <2>1
    <3>2. CASE a # d /\ pc[a] \in MarkerWriting
      <4>1. stale'[a] = TRUE /\ pc'[a] = pc[a]
        BY <2>1, <2>2, <3>2
      <4> QED  BY <1>0, <2>1, <3>1, <3>2, <4>1
    <3>3. CASE a # d /\ pc[a] \notin MarkerWriting
      BY <1>0, <2>1, <3>1, <3>3
    <3> QED  BY <3>1, <3>2, <3>3
  <2>3. CASE UNCHANGED <<marker, stale>>
    BY <1>0, <2>1, <2>3
  <2> QED  BY <2>1, <2>2, <2>3, Zenon
<1>7. ASSUME NEW d \in Dream, AcqRead(d) PROVE MarkerBy(a)' /\ Own(a)'
  BY <1>0, <1>7 DEF AcqRead
<1>8. ASSUME NEW d \in Dream, AcqWrite(d) PROVE MarkerBy(a)' /\ Own(a)'
  BY <1>0, <1>8 DEF AcqWrite
<1>9. ASSUME NEW d \in Dream, AcqVerify(d) PROVE MarkerBy(a)' /\ Own(a)'
  BY <1>0, <1>9 DEF AcqVerify
<1>10. ASSUME NEW d \in Dream, Dispatch(d) PROVE MarkerBy(a)' /\ Own(a)'
  BY <1>0, <1>10 DEF Dispatch
<1>11. ASSUME NEW d \in Dream, JobEnds(d) PROVE MarkerBy(a)' /\ Own(a)'
  BY <1>0, <1>11 DEF JobEnds
<1>12. ASSUME NEW d \in Dream, RelRead(d) PROVE MarkerBy(a)' /\ Own(a)'
  BY <1>0, <1>12 DEF RelRead, GuardRead
<1>13. ASSUME NEW d \in Dream, RelWrite(d) PROVE MarkerBy(a)' /\ Own(a)'
  BY <1>0, <1>13 DEF RelWrite
<1>14. ASSUME NEW d \in Dream, RollRead(d) PROVE MarkerBy(a)' /\ Own(a)'
  BY <1>0, <1>14 DEF RollRead, GuardRead
<1>15. ASSUME NEW d \in Dream, RollWrite(d) PROVE MarkerBy(a)' /\ Own(a)'
  BY <1>0, <1>15 DEF RollWrite
<1>16. ASSUME NEW d \in Dream, ClearRead(d) PROVE MarkerBy(a)' /\ Own(a)'
  BY <1>0, <1>16 DEF ClearRead
<1>17. ASSUME NEW d \in Dream, ClearWrite(d) PROVE MarkerBy(a)' /\ Own(a)'
  BY <1>0, <1>17 DEF ClearWrite
<1>18. ASSUME NEW s \in Saver, ArmRead(s) PROVE MarkerBy(a)' /\ Own(a)'
  BY <1>0, <1>18 DEF ArmRead, Later
<1>19. ASSUME NEW s \in Saver, ArmWrite(s) PROVE MarkerBy(a)' /\ Own(a)'
  BY <1>0, <1>19 DEF ArmWrite
<1>20. ASSUME NEW p \in Proc, Crash(p) PROVE MarkerBy(a)' /\ Own(a)'
  BY <1>0, <1>20 DEF Crash
<1>21. CASE UNCHANGED vars
  BY <1>0, <1>21 DEF vars
<1> QED
  BY <1>1, <1>2, <1>3, <1>4, <1>5, <1>6, <1>7, <1>8, <1>9, <1>10, <1>11,
     <1>12, <1>13, <1>14, <1>15, <1>16, <1>17, <1>18, <1>19, <1>20, <1>21
  DEF Next, DreamStep

\* An arm disappears only by a dream that served it or a newer one, in the race
\* between a read of the marker and the write that rests on it, or under another
\* arm of one that could not read the marker.
THEOREM ArmsServed == Spec => ArmServed
<1> DEFINE Safe == marker'.armed < marker.armed =>
                     \/ \E a \in Actor : Writes(a, MarkerWriting) /\ stale[a]
                     \/ \E a \in Actor :
                          Writes(a, {"forceWrite", "armWrite"}) /\ blind[a] /\ marker'.armed > 0
                     \/ \E d \in Dream : Writes(d, {"clearWrite"}) /\ served[d] >= marker.armed
<1>1. TypeOK /\ MarkerInv /\ [Next]_vars => [Safe]_vars
  <2> SUFFICES ASSUME TypeOK, MarkerInv, Next, marker'.armed < marker.armed PROVE Safe
    OBVIOUS
  <2>1. ASSUME NEW d \in Dream, ForceWrite(d) PROVE Safe
    <3>1. pc[d] = "forceWrite" /\ pc'[d] # pc[d]
      BY <2>1 DEF ForceWrite, TypeOK
    <3>2. marker' = keep[d]
      BY <2>1 DEF ForceWrite, TypeOK, Marker
    <3>3. stale[d] \/ (blind[d] /\ marker'.armed > 0)
      BY <3>1, <3>2 DEF MarkerInv, MarkerBy, TypeOK, Marker
    <3> QED  BY <3>1, <3>3 DEF Writes, MarkerWriting
  <2>2. ASSUME NEW d \in Dream, ClearWrite(d) PROVE Safe
    <3>1. pc[d] = "clearWrite" /\ pc'[d] # pc[d]
      BY <2>2 DEF ClearWrite, TypeOK
    <3>2. marker' = keep[d]
      BY <2>2 DEF ClearWrite, TypeOK, Marker
    <3>3. stale[d] \/ served[d] >= marker.armed
      BY <3>1, <3>2 DEF MarkerInv, MarkerBy, TypeOK, Marker
    <3> QED  BY <3>1, <3>3 DEF Writes, MarkerWriting
  <2>3. ASSUME NEW s \in Saver, ArmWrite(s) PROVE Safe
    <3>1. pc[s] = "armWrite" /\ pc'[s] # pc[s]
      BY <2>3 DEF ArmWrite, TypeOK
    <3>2. marker' = keep[s]
      BY <2>3 DEF ArmWrite, TypeOK, Marker
    <3>3. stale[s] \/ (blind[s] /\ marker'.armed > 0)
      BY <3>1, <3>2 DEF MarkerInv, MarkerBy, TypeOK, Marker
    <3> QED  BY <3>1, <3>3 DEF Writes, MarkerWriting
  <2>4. ASSUME marker' = marker PROVE Safe
    BY <2>4 DEF TypeOK, Marker
  <2> QED
    BY <2>1, <2>2, <2>3, <2>4
    DEF Next, DreamStep, Tick, Begin, ReadMarker, Gates, ForceRead, AcqRead, AcqWrite, AcqVerify,
        Dispatch, JobEnds, RelRead, RelWrite, RollRead, RollWrite, ClearRead, ArmRead, Crash
<1> QED
  BY <1>1, InitTypeOK, NextTypeOK, InitMarkerInv, NextMarkerInv, PTL DEF Spec, ArmServed

-----------------------------------------------------------------------------
(* The epoch *)

\* Until a stale stamp is taken over, whatever epoch a dream may leave in a
\* free lock is the start of a completed dream.
EpochBy(d) ==
  ~reclaimed =>
    /\ prior[d] \in completed \cup {0}
    /\ pc[d] \in {"relRead", "relWrite"} => at[d] \in completed

EpochInv == EpochHonest /\ \A d \in Dream : EpochBy(d)

LEMMA InitEpochInv == Init => EpochInv
BY DEF Init, EpochInv, EpochHonest, EpochBy

LEMMA NextEpochInv == TypeOK /\ EpochInv /\ [Next]_vars => EpochInv'
<1> SUFFICES ASSUME TypeOK, EpochInv, [Next]_vars
             PROVE  EpochHonest' /\ \A e \in Dream : EpochBy(e)'
  BY DEF EpochInv
<1> USE DEF TypeOK, EpochInv, EpochHonest, EpochBy, Blocks, Stamp
<1>1. CASE Tick
  BY <1>1 DEF Tick
<1>2. ASSUME NEW d \in Dream, Begin(d) PROVE EpochHonest' /\ \A e \in Dream : EpochBy(e)'
  BY <1>2 DEF Begin
<1>3. ASSUME NEW d \in Dream, ReadMarker(d) PROVE EpochHonest' /\ \A e \in Dream : EpochBy(e)'
  BY <1>3 DEF ReadMarker
<1>4. ASSUME NEW d \in Dream, Gates(d) PROVE EpochHonest' /\ \A e \in Dream : EpochBy(e)'
  BY <1>4 DEF Gates
<1>5. ASSUME NEW d \in Dream, ForceRead(d) PROVE EpochHonest' /\ \A e \in Dream : EpochBy(e)'
  BY <1>5 DEF ForceRead, Later
<1>6. ASSUME NEW d \in Dream, ForceWrite(d) PROVE EpochHonest' /\ \A e \in Dream : EpochBy(e)'
  BY <1>6 DEF ForceWrite
<1>7. ASSUME NEW d \in Dream, AcqRead(d) PROVE EpochHonest' /\ \A e \in Dream : EpochBy(e)'
  BY <1>7 DEF AcqRead
<1>8. ASSUME NEW d \in Dream, AcqWrite(d) PROVE EpochHonest' /\ \A e \in Dream : EpochBy(e)'
  BY <1>8 DEF AcqWrite
<1>9. ASSUME NEW d \in Dream, AcqVerify(d) PROVE EpochHonest' /\ \A e \in Dream : EpochBy(e)'
  BY <1>9 DEF AcqVerify
<1>10. ASSUME NEW d \in Dream, Dispatch(d) PROVE EpochHonest' /\ \A e \in Dream : EpochBy(e)'
  BY <1>10 DEF Dispatch
<1>11. ASSUME NEW d \in Dream, JobEnds(d) PROVE EpochHonest' /\ \A e \in Dream : EpochBy(e)'
  BY <1>11 DEF JobEnds
<1>12. ASSUME NEW d \in Dream, RelRead(d) PROVE EpochHonest' /\ \A e \in Dream : EpochBy(e)'
  BY <1>12 DEF RelRead, GuardRead
<1>13. ASSUME NEW d \in Dream, RelWrite(d) PROVE EpochHonest' /\ \A e \in Dream : EpochBy(e)'
  BY <1>13 DEF RelWrite
<1>14. ASSUME NEW d \in Dream, RollRead(d) PROVE EpochHonest' /\ \A e \in Dream : EpochBy(e)'
  BY <1>14 DEF RollRead, GuardRead
<1>15. ASSUME NEW d \in Dream, RollWrite(d) PROVE EpochHonest' /\ \A e \in Dream : EpochBy(e)'
  BY <1>15 DEF RollWrite
<1>16. ASSUME NEW d \in Dream, ClearRead(d) PROVE EpochHonest' /\ \A e \in Dream : EpochBy(e)'
  BY <1>16 DEF ClearRead
<1>17. ASSUME NEW d \in Dream, ClearWrite(d) PROVE EpochHonest' /\ \A e \in Dream : EpochBy(e)'
  BY <1>17 DEF ClearWrite
<1>18. ASSUME NEW s \in Saver, ArmRead(s) PROVE EpochHonest' /\ \A e \in Dream : EpochBy(e)'
  BY <1>18 DEF ArmRead, Later
<1>19. ASSUME NEW s \in Saver, ArmWrite(s) PROVE EpochHonest' /\ \A e \in Dream : EpochBy(e)'
  BY <1>19 DEF ArmWrite
<1>20. ASSUME NEW p \in Proc, Crash(p) PROVE EpochHonest' /\ \A e \in Dream : EpochBy(e)'
  BY <1>20 DEF Crash
<1>21. CASE UNCHANGED vars
  BY <1>21 DEF vars
<1> QED
  BY <1>1, <1>2, <1>3, <1>4, <1>5, <1>6, <1>7, <1>8, <1>9, <1>10, <1>11,
     <1>12, <1>13, <1>14, <1>15, <1>16, <1>17, <1>18, <1>19, <1>20, <1>21
  DEF Next, DreamStep

\* The epoch of a free lock is the start of a dream that completed, as long as
\* no stale lock was taken over.
THEOREM EpochsHonest == Spec => []EpochHonest
<1>1. EpochInv => EpochHonest
  BY DEF EpochInv
<1> QED
  BY <1>1, InitTypeOK, NextTypeOK, InitEpochInv, NextEpochInv, PTL DEF Spec

-----------------------------------------------------------------------------
(* The arm that comes late *)

\* While a dream is under way, the arm that landed since its first read is on
\* the marker with a newer stamp than the one it serves, or a later clear has
\* taken all arms.
StandsBy(d) ==
  /\ pc[d] \in {"idle", "readMarker"} => ~late[d]
  /\ late[d] /\ pc[d] \notin Idle => marker.armed = 0 \/ marker.armed > served[d]

Standing == \A d \in Dream : StandsBy(d)

LEMMA InitStanding == Init => Standing
BY DEF Init, Standing, StandsBy

\* A best-effort write by a read that is still good leaves the arms of others
\* where they stand, and one by a stale or failed read takes the history with it.
LEMMA WriteStands ==
  ASSUME TypeOK, MarkerInv, Standing, NEW d \in Dream, NEW e \in Dream,
         pc[d] \in {"forceWrite", "clearWrite"}, MayWriteMarker(d, keep[d]),
         late' = Overwritten(d), pc[e] \notin Idle, late'[e]
  PROVE  marker'.armed = 0 \/ marker'.armed > served[e]
<1>1. late[e] /\ (marker.armed = 0 \/ marker.armed > served[e])
  BY DEF Overwritten, Standing, StandsBy
<1>2. MarkerBy(d) /\ d \in Actor
  BY DEF MarkerInv
<1>3. CASE marker' # keep[d]
  BY <1>1, <1>3
<1>4. CASE marker' = keep[d] /\ (stale[d] \/ blind[d])
  BY <1>4 DEF Overwritten
<1>5. CASE marker' = keep[d] /\ ~stale[d] /\ ~blind[d]
  <2>1. keep[d].armed = 0 \/ keep[d].armed >= marker.armed
    BY <1>2, <1>5 DEF MarkerBy, TypeOK, Marker
  <2>2. marker.armed = 0 => keep[d].armed = 0
    BY <1>2, <1>5 DEF MarkerBy, TypeOK, Marker
  <2> QED  BY <1>1, <1>2, <1>5, <2>1, <2>2 DEF TypeOK, Marker
<1> QED  BY <1>3, <1>4, <1>5

LEMMA NextStanding == TypeOK /\ MarkerInv /\ Standing /\ [Next]_vars => Standing'
<1> SUFFICES ASSUME TypeOK, MarkerInv, Standing, [Next]_vars, NEW e \in Dream PROVE StandsBy(e)'
  BY DEF Standing
<1>0. StandsBy(e)
  BY DEF Standing
<1> USE DEF TypeOK, StandsBy
<1>1. CASE Tick
  BY <1>0, <1>1 DEF Tick
<1>2. ASSUME NEW d \in Dream, Begin(d) PROVE StandsBy(e)'
  BY <1>0, <1>2 DEF Begin
<1>3. ASSUME NEW d \in Dream, ReadMarker(d) PROVE StandsBy(e)'
  BY <1>0, <1>3 DEF ReadMarker
<1>4. ASSUME NEW d \in Dream, Gates(d) PROVE StandsBy(e)'
  BY <1>0, <1>4 DEF Gates
<1>5. ASSUME NEW d \in Dream, ForceRead(d) PROVE StandsBy(e)'
  BY <1>0, <1>5 DEF ForceRead, Later
<1>6. ASSUME NEW d \in Dream, ForceWrite(d) PROVE StandsBy(e)'
  <2>1. MayWriteMarker(d, keep[d]) /\ late' = Overwritten(d) /\ UNCHANGED served
        /\ (Goto(d, "acqRead") \/ Goto(d, "end"))
    BY <1>6, Zenon DEF ForceWrite
  <2>2. pc' = [pc EXCEPT ![d] = pc'[d]] /\ pc[d] = "forceWrite"
    BY <1>6 DEF ForceWrite
  <2>3. late'[e] => late[e]
    BY <2>1 DEF Overwritten
  <2>4. pc[e] \in {"idle", "readMarker"} <=> pc'[e] \in {"idle", "readMarker"}
    BY <2>1, <2>2
  <2>5. CASE pc'[e] \in Idle \cup {"readMarker"}
    BY <1>0, <2>3, <2>4, <2>5
  <2>6. CASE pc'[e] \notin Idle \cup {"readMarker"}
    <3>1. late'[e] => marker'.armed = 0 \/ marker'.armed > served[e]
      BY <2>1, <2>2, <2>4, <2>6, WriteStands
    <3> QED  BY <2>1, <2>4, <2>6, <3>1
  <2> QED  BY <2>5, <2>6, Zenon
<1>7. ASSUME NEW d \in Dream, AcqRead(d) PROVE StandsBy(e)'
  BY <1>0, <1>7 DEF AcqRead
<1>8. ASSUME NEW d \in Dream, AcqWrite(d) PROVE StandsBy(e)'
  BY <1>0, <1>8 DEF AcqWrite
<1>9. ASSUME NEW d \in Dream, AcqVerify(d) PROVE StandsBy(e)'
  BY <1>0, <1>9 DEF AcqVerify
<1>10. ASSUME NEW d \in Dream, Dispatch(d) PROVE StandsBy(e)'
  BY <1>0, <1>10 DEF Dispatch
<1>11. ASSUME NEW d \in Dream, JobEnds(d) PROVE StandsBy(e)'
  BY <1>0, <1>11 DEF JobEnds
<1>12. ASSUME NEW d \in Dream, RelRead(d) PROVE StandsBy(e)'
  BY <1>0, <1>12 DEF RelRead, GuardRead
<1>13. ASSUME NEW d \in Dream, RelWrite(d) PROVE StandsBy(e)'
  BY <1>0, <1>13 DEF RelWrite
<1>14. ASSUME NEW d \in Dream, RollRead(d) PROVE StandsBy(e)'
  BY <1>0, <1>14 DEF RollRead, GuardRead
<1>15. ASSUME NEW d \in Dream, RollWrite(d) PROVE StandsBy(e)'
  BY <1>0, <1>15 DEF RollWrite
<1>16. ASSUME NEW d \in Dream, ClearRead(d) PROVE StandsBy(e)'
  BY <1>0, <1>16 DEF ClearRead
<1>17. ASSUME NEW d \in Dream, ClearWrite(d) PROVE StandsBy(e)'
  <2>1. MayWriteMarker(d, keep[d]) /\ late' = Overwritten(d) /\ UNCHANGED served
        /\ Goto(d, "end")
    BY <1>17, Zenon DEF ClearWrite
  <2>2. pc' = [pc EXCEPT ![d] = pc'[d]] /\ pc[d] = "clearWrite"
    BY <1>17 DEF ClearWrite
  <2>3. late'[e] => late[e]
    BY <2>1 DEF Overwritten
  <2>4. pc[e] \in {"idle", "readMarker"} <=> pc'[e] \in {"idle", "readMarker"}
    BY <2>1, <2>2
  <2>5. CASE pc'[e] \in Idle \cup {"readMarker"}
    BY <1>0, <2>3, <2>4, <2>5
  <2>6. CASE pc'[e] \notin Idle \cup {"readMarker"}
    <3>1. late'[e] => marker'.armed = 0 \/ marker'.armed > served[e]
      BY <2>1, <2>2, <2>4, <2>6, WriteStands
    <3> QED  BY <2>1, <2>4, <2>6, <3>1
  <2> QED  BY <2>5, <2>6, Zenon
<1>18. ASSUME NEW s \in Saver, ArmRead(s) PROVE StandsBy(e)'
  BY <1>0, <1>18 DEF ArmRead, Later
<1>19. ASSUME NEW s \in Saver, ArmWrite(s) PROVE StandsBy(e)'
  <2>1. MayWriteMarker(s, keep[s]) /\ UNCHANGED served /\ Goto(s, "end") /\ s \in Actor
        /\ pc[s] = "armWrite"
    BY <1>19, Zenon DEF ArmWrite
  <2>2. pc'[e] = pc[e]
    BY <2>1
  <2>3. CASE marker' = keep[s]
    <3>1. late'[e] = Landed(s, e)
      BY <1>19, <2>3 DEF ArmWrite
    <3>2. ~stale[s] /\ ~blind[s] => keep[s].armed > marker.armed
      BY <2>1 DEF MarkerInv, MarkerBy
    <3>3. Landed(s, e) => keep[s].armed > served[e] /\ pc[e] \notin Idle \cup {"readMarker"}
      BY <3>2 DEF Landed, Marker
    <3> QED  BY <2>1, <2>2, <2>3, <3>1, <3>3
  <2>4. CASE marker' # keep[s]
    <3>1. late' = late /\ marker' = marker
      BY <1>19, <2>1, <2>4 DEF ArmWrite
    <3> QED  BY <1>0, <2>1, <2>2, <3>1
  <2> QED  BY <2>3, <2>4
<1>20. ASSUME NEW p \in Proc, Crash(p) PROVE StandsBy(e)'
  BY <1>0, <1>20 DEF Crash
<1>21. CASE UNCHANGED vars
  BY <1>0, <1>21 DEF vars
<1> QED
  BY <1>1, <1>2, <1>3, <1>4, <1>5, <1>6, <1>7, <1>8, <1>9, <1>10, <1>11, <1>12, <1>13, <1>14, <1>15, <1>16, <1>17, <1>18, <1>19, <1>20, <1>21
  DEF Next, DreamStep

\* An arm that landed after a dream's first read outlives the dream's clear,
\* unless it landed between the read and the write of that clear, or with a
\* stamp that is not new, or a write on a stale or failed read has put an arm
\* over it that is not newer than the one the dream serves.
THEOREM LateArmsSurvive == Spec => LateArmSurvives
<1> DEFINE Safe(d) == Writes(d, {"clearWrite"}) /\ late[d] /\ ~stale[d] =>
                        marker'.armed = marker.armed
<1>1. TypeOK /\ MarkerInv /\ Standing /\ [Next]_vars => [\A d \in Dream : Safe(d)]_vars
  <2> SUFFICES ASSUME TypeOK, MarkerInv, Standing, Next, NEW d \in Dream, pc[d] = "clearWrite",
                      pc'[d] # pc[d], late[d], ~stale[d]
               PROVE  marker'.armed = marker.armed
    BY DEF Writes
  <2>1. keep[d].armed = marker.armed
    <3>1. MarkerBy(d) /\ StandsBy(d)
      BY DEF MarkerInv, Standing
    <3> QED  BY <3>1 DEF MarkerBy, StandsBy, TypeOK, Marker
  <2>2. CASE ClearWrite(d)
    <3>1. MayWriteMarker(d, keep[d])
      BY <2>2, Zenon DEF ClearWrite
    <3> QED  BY <2>1, <3>1
  <2>3. CASE \E p \in Proc : Crash(p)
    BY <2>3 DEF Crash
  <2> QED
    BY <2>2, <2>3
    DEF Next, DreamStep, TypeOK, Tick, Begin, ReadMarker, Gates, ForceRead, ForceWrite, AcqRead,
        AcqWrite, AcqVerify, Dispatch, JobEnds, RelRead, RelWrite, RollRead, RollWrite, ClearRead,
        ClearWrite, GuardRead, ArmRead, ArmWrite
<1> QED
  BY <1>1, InitTypeOK, NextTypeOK, InitMarkerInv, NextMarkerInv, InitStanding, NextStanding, PTL
  DEF Spec, LateArmSurvives

-----------------------------------------------------------------------------
(* The start of a dream *)

\* One dream of a process is being started at a time.
OneLaunch ==
  \A d, e \in Dream :
    pc[d] \in Launching /\ pc[e] \in Launching /\ ProcOf[d] = ProcOf[e] => d = e

\* What a step may do to the dreams that are being started.
Starts(d) ==
  /\ pc[d] \notin Launching /\ ~inflight[ProcOf[d]]
  /\ pc' = [pc EXCEPT ![d] = "readMarker"]
  /\ inflight' = [inflight EXCEPT ![ProcOf[d]] = TRUE]
Ends(d) ==
  /\ pc[d] \in Launching /\ inflight' = [inflight EXCEPT ![ProcOf[d]] = FALSE]
  /\ \A e \in Dream : pc'[e] \in Launching <=> e # d /\ pc[e] \in Launching
Stays ==
  /\ inflight' = inflight
  /\ \A e \in Dream : pc'[e] \in Launching <=> pc[e] \in Launching

LEMMA DreamLaunch ==
  ASSUME TypeOK, NEW d \in Dream, DreamStep(d)
  PROVE  Stays \/ Ends(d)
<1> USE DEF TypeOK, Stays, Ends, Launching
<1>1. CASE ReadMarker(d)
  BY <1>1 DEF ReadMarker
<1>2. CASE Gates(d)
  BY <1>2 DEF Gates
<1>3. CASE ForceRead(d)
  BY <1>3 DEF ForceRead
<1>4. CASE ForceWrite(d)
  <2> HIDE DEF MayWriteMarker
  <2> QED  BY <1>4 DEF ForceWrite
<1>5. CASE AcqRead(d)
  BY <1>5 DEF AcqRead
<1>6. CASE AcqWrite(d)
  BY <1>6 DEF AcqWrite
<1>7. CASE AcqVerify(d)
  BY <1>7 DEF AcqVerify
<1>8. CASE Dispatch(d)
  BY <1>8 DEF Dispatch
<1>9. CASE JobEnds(d)
  BY <1>9 DEF JobEnds
<1>10. CASE RelRead(d)
  BY <1>10 DEF RelRead, GuardRead
<1>11. CASE RelWrite(d)
  BY <1>11 DEF RelWrite
<1>12. CASE RollRead(d)
  BY <1>12 DEF RollRead, GuardRead
<1>13. CASE RollWrite(d)
  BY <1>13 DEF RollWrite
<1>14. CASE ClearRead(d)
  BY <1>14 DEF ClearRead
<1>15. CASE ClearWrite(d)
  BY <1>15 DEF ClearWrite
<1> QED
  BY <1>1, <1>2, <1>3, <1>4, <1>5, <1>6, <1>7, <1>8, <1>9, <1>10, <1>11, <1>12, <1>13,
     <1>14, <1>15 DEF DreamStep

LEMMA NextLaunch == TypeOK /\ BusyIsLaunch /\ OneLaunch /\ [Next]_vars => BusyIsLaunch' /\ OneLaunch'
<1> SUFFICES ASSUME TypeOK, BusyIsLaunch, OneLaunch, [Next]_vars PROVE BusyIsLaunch' /\ OneLaunch'
  OBVIOUS
<1>1. CASE Stays
  BY <1>1 DEF Stays, BusyIsLaunch, OneLaunch
<1>2. ASSUME NEW d \in Dream, Starts(d) PROVE BusyIsLaunch' /\ OneLaunch'
  <2>1. \A e \in Dream : pc'[e] \in Launching <=> e = d \/ pc[e] \in Launching
    BY <1>2 DEF Starts, Launching, TypeOK
  <2>2. ProcOf[d] \in Proc /\ \A p \in Proc : inflight'[p] <=> p = ProcOf[d] \/ inflight[p]
    BY <1>2 DEF Starts, TypeOK
  <2>3. \A e \in Dream : pc[e] \in Launching => ProcOf[e] # ProcOf[d]
    BY <1>2, <2>2 DEF Starts, BusyIsLaunch
  <2> QED
    BY <2>1, <2>2, <2>3 DEF BusyIsLaunch, OneLaunch
<1>3. ASSUME NEW d \in Dream, Ends(d) PROVE BusyIsLaunch' /\ OneLaunch'
  <2>1. ProcOf[d] \in Proc /\ \A p \in Proc : inflight'[p] <=> p # ProcOf[d] /\ inflight[p]
    BY <1>3 DEF Ends, TypeOK
  <2>2. \A e \in Dream : pc[e] \in Launching /\ ProcOf[e] = ProcOf[d] => e = d
    BY <1>3 DEF Ends, OneLaunch
  <2> QED
    BY <1>3, <2>1, <2>2 DEF Ends, BusyIsLaunch, OneLaunch
<1>4. ASSUME NEW q \in Proc, Crash(q) PROVE BusyIsLaunch' /\ OneLaunch'
  <2>1. \A e \in Dream : pc'[e] \in Launching <=> ProcOf[e] # q /\ pc[e] \in Launching
    BY <1>4 DEF Crash, Launching, TypeOK
  <2>2. \A p \in Proc : inflight'[p] <=> p # q /\ inflight[p]
    BY <1>4 DEF Crash, TypeOK
  <2> QED
    BY <2>1, <2>2 DEF BusyIsLaunch, OneLaunch
<1>5. CASE Tick \/ UNCHANGED vars
  BY <1>1, <1>5 DEF Tick, vars, Stays
<1>6. ASSUME NEW d \in Dream, Begin(d) PROVE Starts(d)
  BY <1>6 DEF Begin, Starts, Launching
<1>7. ASSUME NEW s \in Saver, ArmRead(s) \/ ArmWrite(s) PROVE Stays
  <2>1. inflight' = inflight /\ \E label \in Label : pc' = [pc EXCEPT ![s] = label]
    BY <1>7 DEF ArmRead, ArmWrite, Label
  <2>2. \A e \in Dream : e # s
    OBVIOUS
  <2> QED
    BY <2>1, <2>2 DEF Stays, TypeOK
<1> QED
  BY <1>1, <1>2, <1>3, <1>4, <1>5, <1>6, <1>7, DreamLaunch DEF Next

\* A process is marked busy exactly while a dream of its own is being started,
\* and that dream is the only one: the next turn end starts none beside it, and
\* no way out of runDream leaves the process marked for ever.
THEOREM BusyIsLaunching == Spec => [](BusyIsLaunch /\ OneLaunch)
<1>1. Init => BusyIsLaunch /\ OneLaunch
  BY DEF Init, BusyIsLaunch, OneLaunch, Launching
<1> QED
  BY <1>1, InitTypeOK, NextTypeOK, NextLaunch, PTL DEF Spec

=============================================================================
