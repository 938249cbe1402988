--------------------------- MODULE Consolidation ---------------------------
(***************************************************************************)
(* The dream: the background consolidation of a memory directory           *)
(* (packages/memory/memory-consolidation/src/index.ts, lock.ts, gates.ts   *)
(* and packages/memory/memory/src/pressure.ts).  Processes that share the  *)
(* directory start dreams at their turn ends; a dream takes the lock file  *)
(* .consolidation-lock, runs a fork, and frees it.  Saves that hit the cap *)
(* of the index arm the marker file .consolidation-needed, which lets a    *)
(* dream start past its gates.  Both files are read and written as a whole *)
(* and nothing makes a read and the write it leads to atomic.  The file    *)
(* operations of some dreams and savers may fail, each in its own way of   *)
(* being handled.                                                          *)
(*                                                                         *)
(* A lock file [pid, at] or a marker [armed, forced] that is absent is     *)
(* modelled as zeros.  Nothing but the code writes them: what it writes    *)
(* is well formed, and a marker of zeros is never written.                 *)
(***************************************************************************)
EXTENDS Integers

CONSTANTS
  Proc,       \* processes (their pids)
  NoPid,      \* pid 0: the lock is free
  Dream,      \* runs of runDream
  ProcOf,     \* the process of a dream
  Saver,      \* calls of memory_save that arm the marker
  Stale,      \* LOCK_STALE_MS
  Cooldown,   \* pressureCooldownMinutes
  MinAge,     \* minHours
  MinJob,     \* the time a fork takes at least
  MaxTime,    \* bound of the clock
  Fragile     \* dreams and savers whose file operations may fail

ASSUME ConsolidationAssumption ==
  /\ NoPid \notin Proc /\ ProcOf \in [Dream -> Proc]
  /\ Dream \cap Saver = {}
  /\ Stale \in Nat \ {0} /\ Cooldown \in Nat /\ MinAge \in Nat /\ MinJob \in Nat
  /\ MaxTime \in Nat \ {0}
  /\ Fragile \subseteq Dream \cup Saver

VARIABLES
  now,       \* Date.now(), the same for all processes
  lock,      \* .consolidation-lock
  marker,    \* .consolidation-needed
  inflight,  \* dreamInFlight of each process
  pc,        \* where each dream and each saver is
  at,        \* the time a dream started, the epoch of its stamp
  served,    \* the arm a dream read first
  forced,    \* the last forced launch a dream read first
  prior,     \* the epoch of the lock a dream acquired
  keep,      \* the marker a dream or a saver is about to write
  stale,     \* history: the file was written by another since the read that
             \* the pending write of a dream or a saver rests on
  blind,     \* history: that read failed
  late,      \* history: an arm that Landed since a dream's first read stands
  completed, \* history: the start times of the dreams that completed
  reclaimed  \* history: a stale stamp was taken over

Actor == Dream \cup Saver
files == <<lock, marker>>
locals == <<at, served, forced, prior, keep>>
history == <<stale, blind, late, completed, reclaimed>>
vars == <<now, files, inflight, pc, locals, history>>

Later(a, b) == IF a >= b THEN a ELSE b
Stamp(d) == [pid |-> ProcOf[d], at |-> at[d]]
Goto(a, label) == pc' = [pc EXCEPT ![a] = label]

\* The writes that rest on a read of the lock, and of the marker.
LockWriting == {"acqWrite", "relWrite", "rollWrite", "throwWrite"}
MarkerWriting == {"forceWrite", "clearWrite", "armWrite"}

Idle == {"idle", "end", "dead"}

Absent == [armed |-> 0, forced |-> 0]

\* Reading a file and writing it, with their history.
ReadsFile(a) == stale' = [stale EXCEPT ![a] = FALSE] /\ blind' = [blind EXCEPT ![a] = FALSE]
ReadFails(a) == stale' = [stale EXCEPT ![a] = FALSE] /\ blind' = [blind EXCEPT ![a] = TRUE]
WritesLock(a, new) ==
  /\ lock' = new
  /\ stale' = [b \in Actor |-> stale[b] \/ (b # a /\ pc[b] \in LockWriting)]
WritesMarker(a, new) ==
  /\ marker' = new
  /\ stale' = [b \in Actor |-> stale[b] \/ (b # a /\ pc[b] \in MarkerWriting)]

\* A best-effort write: its failure is swallowed.
MayWriteLock(a, new) ==
  WritesLock(a, new) \/ (a \in Fragile /\ UNCHANGED <<lock, stale>>)
MayWriteMarker(a, new) ==
  WritesMarker(a, new) \/ (a \in Fragile /\ UNCHANGED <<marker, stale>>)

\* A write that rests on a stale read or on a failed one may put an older arm
\* over the one that landed.
Overwritten(d) ==
  IF (stale[d] \/ blind[d]) /\ marker' = keep[d]
    THEN [e \in Dream |-> late[e] /\ keep[d].armed > served[e]]
    ELSE late

Init ==
  /\ now = 1
  /\ lock = [pid |-> NoPid, at |-> 0]
  /\ marker \in {Absent, [armed |-> 1, forced |-> 0]}
  /\ inflight = [p \in Proc |-> FALSE]
  /\ pc = [a \in Actor |-> "idle"]
  /\ at = [d \in Dream |-> 0] /\ served = [d \in Dream |-> 0]
  /\ forced = [d \in Dream |-> 0] /\ prior = [d \in Dream |-> 0]
  /\ keep = [a \in Actor |-> marker]
  /\ stale = [a \in Actor |-> FALSE] /\ blind = [a \in Actor |-> FALSE]
  /\ late = [d \in Dream |-> FALSE]
  /\ completed = {} /\ reclaimed = FALSE

Tick ==
  /\ now < MaxTime /\ now' = now + 1
  /\ UNCHANGED <<files, inflight, pc, locals, history>>

-----------------------------------------------------------------------------
(* runDream up to the lock *)

\* turn-stopping: at most one dispatch at a time in a process.  (The bound of
\* the clock leaves a dream the time its fork takes.)
Begin(d) ==
  /\ pc[d] = "idle" /\ ~inflight[ProcOf[d]] /\ Goto(d, "readMarker")
  /\ now + MinJob <= MaxTime
  /\ inflight' = [inflight EXCEPT ![ProcOf[d]] = TRUE]
  /\ at' = [at EXCEPT ![d] = now]
  /\ UNCHANGED <<now, files, served, forced, prior, keep, history>>

\* Mutant: the flag is taken back after a dispatch only.
ReturnsDispatched(d) ==
  inflight' = IF pc[d] = "dispatch" THEN [inflight EXCEPT ![ProcOf[d]] = FALSE] ELSE inflight

\* runDream has returned (its fork may still run): the process may start another.
Returns(d) == inflight' = [inflight EXCEPT ![ProcOf[d]] = FALSE]

\* readPressure: a failed read says that no pressure is pending.
ReadMarker(d) ==
  /\ pc[d] = "readMarker" /\ Goto(d, "readEpoch")
  /\ \E found \in {marker} \cup (IF d \in Fragile THEN {Absent} ELSE {}) :
       /\ served' = [served EXCEPT ![d] = found.armed]
       /\ forced' = [forced EXCEPT ![d] = found.forced]
  /\ UNCHANGED <<now, files, inflight, at, prior, keep, history>>

\* The gates: an armed marker bypasses the time gate and the session gate but
\* not the cooldown; the session count is whatever the scan finds.  A failed
\* read of the epoch opens the time gate, a failed stat ends the start.
CooldownOver(d) == at[d] - forced[d] >= Cooldown
TimeGatePasses(d) == lock.at <= 0 \/ at[d] - lock.at >= MinAge

Gates(d) ==
  /\ pc[d] = "readEpoch"
  /\ \/ served[d] > 0 /\ CooldownOver(d) /\ Goto(d, "forceRead") /\ UNCHANGED inflight
     \/ served[d] > 0 /\ ~CooldownOver(d) /\ Goto(d, "end") /\ Returns(d)
     \/ /\ served[d] = 0 /\ (TimeGatePasses(d) \/ d \in Fragile)
        /\ Goto(d, "acqRead") /\ UNCHANGED inflight
     \/ (served[d] = 0 \/ d \in Fragile) /\ Goto(d, "end") /\ Returns(d)
  /\ UNCHANGED <<now, files, locals, history>>

\* markPressureForced: the newer of the arm read first and the arm now there,
\* and the arm read first if the marker cannot be read.
ForceRead(d) ==
  /\ pc[d] = "forceRead" /\ Goto(d, "forceWrite")
  /\ \/ /\ marker # Absent /\ ReadsFile(d)
        /\ keep' = [keep EXCEPT ![d] =
             [armed |-> IF marker.armed = 0 THEN 0 ELSE Later(served[d], marker.armed),
              forced |-> at[d]]]
     \/ /\ marker = Absent \/ d \in Fragile
        /\ ReadFails(d)
        /\ keep' = [keep EXCEPT ![d] = [armed |-> served[d], forced |-> at[d]]]
  /\ UNCHANGED <<now, files, inflight, at, served, forced, prior, late, completed, reclaimed>>

\* After the stamp a scan that finds no session at all skips the dream.
ForceWrite(d) ==
  /\ pc[d] = "forceWrite"
  /\ MayWriteMarker(d, keep[d])
  /\ late' = Overwritten(d)
  /\ \/ Goto(d, "acqRead") /\ UNCHANGED inflight
     \/ Goto(d, "end") /\ Returns(d)
  /\ UNCHANGED <<now, lock, locals, blind, completed, reclaimed>>

-----------------------------------------------------------------------------
(* The lock *)

Blocks(d) == lock.pid # NoPid /\ lock.at > 0 /\ at[d] - lock.at < Stale

\* A lock that cannot be read counts as empty, whoever holds it; a failed stat
\* ends the start.
AcqRead(d) ==
  /\ pc[d] = "acqRead"
  /\ \/ /\ Blocks(d) \/ d \in Fragile
        /\ Goto(d, "end") /\ Returns(d) /\ UNCHANGED <<prior, stale, blind>>
     \/ /\ ~Blocks(d) /\ Goto(d, "acqWrite") /\ UNCHANGED inflight
        /\ prior' = [prior EXCEPT ![d] = lock.at]
        /\ ReadsFile(d)
     \/ /\ d \in Fragile /\ Goto(d, "acqWrite") /\ UNCHANGED inflight
        /\ prior' = [prior EXCEPT ![d] = 0]
        /\ ReadFails(d)
  /\ reclaimed' = (reclaimed \/ (pc'[d] = "acqWrite" /\ ~blind'[d] /\ lock.pid # NoPid))
  /\ UNCHANGED <<now, files, at, served, forced, keep, late, completed>>

AcqWrite(d) ==
  /\ pc[d] = "acqWrite"
  /\ \/ Goto(d, "acqVerify") /\ WritesLock(d, Stamp(d)) /\ UNCHANGED inflight
     \/ d \in Fragile /\ Goto(d, "end") /\ Returns(d) /\ UNCHANGED <<lock, stale>>
  /\ UNCHANGED <<now, marker, locals, blind, late, completed, reclaimed>>

\* The read-back must find exactly the dream's own stamp.  One that fails gives
\* the start up and leaves the stamp.
AcqVerify(d) ==
  /\ pc[d] = "acqVerify"
  /\ \/ lock = Stamp(d) /\ Goto(d, "dispatch") /\ UNCHANGED inflight
     \/ (lock # Stamp(d) \/ d \in Fragile) /\ Goto(d, "end") /\ Returns(d)
  /\ UNCHANGED <<now, files, locals, history>>

-----------------------------------------------------------------------------
(* The fork and its outcome *)

\* Mutant: a throw of the dispatch leaves the lock as it is.
DispatchStrands(d) ==
  /\ pc[d] = "dispatch" /\ Returns(d)
  /\ Goto(d, "job") \/ Goto(d, "end")
  /\ UNCHANGED <<now, files, locals, history>>

\* The dispatch gives a running job or throws.
Dispatch(d) ==
  /\ pc[d] = "dispatch"
  /\ \/ Goto(d, "job") /\ Returns(d)
     \/ Goto(d, "throwRead") /\ UNCHANGED inflight
  /\ UNCHANGED <<now, files, locals, history>>

\* A failed job is retried once under the lock the dream holds; a killed one is not.
JobEnds(d) ==
  /\ pc[d] \in {"job", "retry"} /\ now >= at[d] + MinJob
  /\ \/ Goto(d, "relRead") /\ completed' = completed \cup {at[d]}
     \/ pc[d] = "job" /\ Goto(d, "retry") /\ UNCHANGED completed
     \/ Goto(d, "rollRead") /\ UNCHANGED completed
  /\ UNCHANGED <<now, files, inflight, locals, stale, blind, late, reclaimed>>

\* Mutant: the lock is written whoever holds it.
GuardReadOpen(d, from, write, skip) ==
  pc[d] = from /\ Goto(d, write) /\ ReadsFile(d)

\* releaseLock and rollbackLock write only if they read the dream's own stamp.
GuardRead(d, from, write, skip) ==
  /\ pc[d] = from
  /\ \/ lock = Stamp(d) /\ Goto(d, write) /\ ReadsFile(d)
     \/ (lock # Stamp(d) \/ d \in Fragile) /\ Goto(d, skip) /\ UNCHANGED <<stale, blind>>

RelRead(d) ==
  /\ GuardRead(d, "relRead", "relWrite", "clearRead")
  /\ UNCHANGED <<now, files, inflight, locals, late, completed, reclaimed>>

RelWrite(d) ==
  /\ pc[d] = "relWrite" /\ Goto(d, "clearRead")
  /\ MayWriteLock(d, [pid |-> NoPid, at |-> at[d]])
  /\ UNCHANGED <<now, marker, inflight, locals, blind, late, completed, reclaimed>>

RollRead(d) ==
  /\ \/ GuardRead(d, "rollRead", "rollWrite", "end") /\ UNCHANGED inflight
     \/ /\ GuardRead(d, "throwRead", "throwWrite", "end")
        /\ IF pc'[d] = "throwWrite" THEN UNCHANGED inflight ELSE Returns(d)
  /\ UNCHANGED <<now, files, locals, late, completed, reclaimed>>

\* Mutant: a failed dream leaves its own epoch, as a completed one does.
RollWriteEpoch(d) ==
  /\ \/ pc[d] = "rollWrite" /\ UNCHANGED inflight
     \/ pc[d] = "throwWrite" /\ Returns(d)
  /\ Goto(d, "end")
  /\ MayWriteLock(d, [pid |-> NoPid, at |-> at[d]])
  /\ UNCHANGED <<now, marker, locals, blind, late, completed, reclaimed>>

RollWrite(d) ==
  /\ \/ pc[d] = "rollWrite" /\ UNCHANGED inflight
     \/ pc[d] = "throwWrite" /\ Returns(d)
  /\ Goto(d, "end")
  /\ MayWriteLock(d, [pid |-> NoPid, at |-> prior[d]])
  /\ UNCHANGED <<now, marker, locals, blind, late, completed, reclaimed>>

\* Mutant: the marker is cleared whatever it says.
ClearReadAll(d) ==
  /\ pc[d] = "clearRead" /\ Goto(d, "clearWrite")
  /\ keep' = [keep EXCEPT ![d] = [armed |-> 0, forced |-> now]]
  /\ ReadsFile(d)
  /\ UNCHANGED <<now, files, inflight, at, served, forced, prior, late, completed, reclaimed>>

\* clearPressure: an arm newer than the one the dream served survives, and a
\* marker that is absent or cannot be read is left alone.
ClearRead(d) ==
  /\ pc[d] = "clearRead"
  /\ \/ /\ marker # Absent /\ Goto(d, "clearWrite") /\ ReadsFile(d)
        /\ keep' = [keep EXCEPT ![d] =
             [armed |-> IF marker.armed > served[d] THEN marker.armed ELSE 0, forced |-> now]]
     \/ /\ marker = Absent \/ d \in Fragile
        /\ Goto(d, "end") /\ UNCHANGED <<keep, stale, blind>>
  /\ UNCHANGED <<now, files, inflight, at, served, forced, prior, late, completed, reclaimed>>

ClearWrite(d) ==
  /\ pc[d] = "clearWrite" /\ Goto(d, "end")
  /\ MayWriteMarker(d, keep[d])
  /\ late' = Overwritten(d)
  /\ UNCHANGED <<now, lock, inflight, locals, blind, completed, reclaimed>>

-----------------------------------------------------------------------------
(* armPressure of a save *)

\* Mutant: the arm is the clock's reading, new or not.
ArmReadClock(s) ==
  /\ pc[s] = "idle" /\ Goto(s, "armWrite")
  /\ keep' = [keep EXCEPT ![s] = [armed |-> now, forced |-> marker.forced]]
  /\ ReadsFile(s)
  /\ UNCHANGED <<now, files, inflight, at, served, forced, prior, late, completed, reclaimed>>

\* A marker that cannot be read counts as never armed; a failed stat ends the
\* arming.
ArmRead(s) ==
  /\ pc[s] = "idle"
  /\ \/ /\ Goto(s, "armWrite") /\ ReadsFile(s)
        /\ keep' = [keep EXCEPT ![s] =
             [armed |-> Later(now, marker.armed + 1), forced |-> marker.forced]]
     \/ /\ s \in Fragile /\ Goto(s, "armWrite") /\ ReadFails(s)
        /\ keep' = [keep EXCEPT ![s] = [armed |-> now, forced |-> 0]]
     \/ s \in Fragile /\ Goto(s, "end") /\ UNCHANGED <<keep, stale, blind>>
  /\ UNCHANGED <<now, files, inflight, at, served, forced, prior, late, completed, reclaimed>>

\* The arm lands while a dream runs, on top of one not older than the arm the
\* dream has read first, or with a newer stamp.
Landed(s, d) ==
  /\ pc[d] \notin Idle \cup {"readMarker"}
  /\ \/ keep[s].armed > served[d]
     \/ ~stale[s] /\ ~blind[s] /\ marker.armed >= served[d]

ArmWrite(s) ==
  /\ pc[s] = "armWrite" /\ Goto(s, "end")
  /\ MayWriteMarker(s, keep[s])
  /\ late' = IF marker' = keep[s] THEN [d \in Dream |-> Landed(s, d)] ELSE late
  /\ UNCHANGED <<now, lock, inflight, locals, blind, completed, reclaimed>>

-----------------------------------------------------------------------------
\* A process dies with its dreams; a new one may get its pid.
Crash(p) ==
  /\ \E d \in Dream : ProcOf[d] = p /\ pc[d] \notin Idle
  /\ pc' = [a \in Actor |-> IF a \in Dream /\ pc[a] \notin Idle
                               THEN IF ProcOf[a] = p THEN "dead" ELSE pc[a]
                            ELSE pc[a]]
  /\ inflight' = [inflight EXCEPT ![p] = FALSE]
  /\ UNCHANGED <<now, files, locals, history>>

DreamStep(d) ==
  \/ ReadMarker(d) \/ Gates(d) \/ ForceRead(d) \/ ForceWrite(d)
  \/ AcqRead(d) \/ AcqWrite(d) \/ AcqVerify(d) \/ Dispatch(d) \/ JobEnds(d)
  \/ RelRead(d) \/ RelWrite(d) \/ RollRead(d) \/ RollWrite(d)
  \/ ClearRead(d) \/ ClearWrite(d)

Next ==
  \/ Tick
  \/ \E d \in Dream : Begin(d) \/ DreamStep(d)
  \/ \E s \in Saver : ArmRead(s) \/ ArmWrite(s)
  \/ \E p \in Proc : Crash(p)

Spec == Init /\ [][Next]_vars

\* A process runs what it has started, and its forks settle; it need not die.
FairSpec == Spec /\ WF_vars(Tick) /\ \A d \in Dream : WF_vars(DreamStep(d))

-----------------------------------------------------------------------------
(* Properties *)

Label == Idle \cup {"readMarker", "readEpoch", "forceRead", "forceWrite",
          "acqRead", "acqWrite", "acqVerify", "dispatch", "throwRead", "throwWrite",
          "job", "retry", "relRead", "relWrite", "rollRead", "rollWrite",
          "clearRead", "clearWrite", "armWrite"}
Epoch == 0..now
Marker == [armed : Nat, forced : Epoch]

\* Every variable keeps its type, and no stamp is from the future.
TypeOK ==
  /\ now \in 1..MaxTime /\ lock \in [pid : Proc \cup {NoPid}, at : Epoch] /\ marker \in Marker
  /\ inflight \in [Proc -> BOOLEAN] /\ pc \in [Actor -> Label]
  /\ at \in [Dream -> Epoch] /\ served \in [Dream -> Nat] /\ forced \in [Dream -> Epoch]
  /\ prior \in [Dream -> Epoch] /\ keep \in [Actor -> Marker]
  /\ stale \in [Actor -> BOOLEAN] /\ blind \in [Actor -> BOOLEAN]
  /\ late \in [Dream -> BOOLEAN]
  /\ completed \subseteq Epoch /\ reclaimed \in BOOLEAN

\* A dream that holds the lock: from the verified stamp to its own last write.
Holding == {"dispatch", "throwRead", "throwWrite", "job", "retry", "relRead", "relWrite",
            "rollRead", "rollWrite"}
Holds(d) == pc[d] \in Holding /\ lock = Stamp(d)

Writes(a, writing) == pc[a] \in writing /\ pc'[a] # pc[a]

\* A dream's stamp is taken from it only by a dream that found it past the
\* stale window, by one whose read of the lock failed (which takes a live and
\* fresh holder for an empty lock), or in the race between another's read of
\* the lock and the write that rests on it: a release or a rollback never frees
\* the lock under another dream (rollbackLock's comment).
HolderUndisturbed ==
  [][\A d, e \in Dream :
       Holds(d) /\ lock' # lock /\ Stamp(e) # Stamp(d) /\ Writes(e, LockWriting) =>
         stale[e] \/ (pc[e] = "acqWrite" /\ (blind[e] \/ at[e] - at[d] >= Stale))]_vars

\* The epoch of a free lock is the start of a dream that completed, as long as
\* no stale lock was taken over (readLastConsolidatedAt's contract).
EpochHonest ==
  lock.pid = NoPid /\ ~reclaimed => lock.at \in completed \cup {0}

\* A dream that is being started, up to the return of runDream.
Launching == {"readMarker", "readEpoch", "forceRead", "forceWrite", "acqRead", "acqWrite",
              "acqVerify", "dispatch", "throwRead", "throwWrite"}

\* A process is marked busy exactly while one of its dreams is being started,
\* whatever gate, lock or failure ends the start.
BusyIsLaunch ==
  \A p \in Proc : inflight[p] <=> \E d \in Dream : ProcOf[d] = p /\ pc[d] \in Launching

\* An arm disappears only by a dream that served it or a newer one, in the race
\* between a read of the marker and the write that rests on it, or by a stamp
\* or an arm of one that could not read the marker: that puts another arm over
\* it and never disarms (markPressureForced's comment).
ArmServed ==
  [][marker'.armed < marker.armed =>
       \/ \E a \in Actor : Writes(a, MarkerWriting) /\ stale[a]
       \/ \E a \in Actor : Writes(a, {"forceWrite", "armWrite"}) /\ blind[a] /\ marker'.armed > 0
       \/ \E d \in Dream : Writes(d, {"clearWrite"}) /\ served[d] >= marker.armed]_vars

\* An arm that landed after a dream's first read outlives the dream's clear,
\* unless it landed between the read and the write of that clear (issue #335
\* Face B in clearPressure's comment), or with a stamp that is not new on a
\* marker that another dream had cleared or put back behind this dream's read,
\* or a write that rests on a stale or a failed read of the marker has put an
\* arm over it that is not newer than the one the dream serves.
LateArmSurvives ==
  [][\A d \in Dream :
       Writes(d, {"clearWrite"}) /\ late[d] /\ ~stale[d] =>
         marker'.armed = marker.armed]_vars

\* A dream that got the lock gives it up, unless its process dies or its own
\* write is lost: neither a throw nor a failed retry strands it.
LockGivenUp ==
  \A d \in Dream \ Fragile : pc[d] = "dispatch" ~> lock # Stamp(d) \/ pc[d] = "dead"

\* A process whose dream runs into nothing can start the next.
ProcessFreed == \A p \in Proc : inflight[p] ~> ~inflight[p]

\* A dream always ends, for the lock and for its process.
DreamEnds == LockGivenUp /\ ProcessFreed

=============================================================================
