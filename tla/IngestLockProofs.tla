--------------------------- MODULE IngestLockProofs ---------------------------
(* Theorems of IngestLock, for every number of ingests and all timeouts that *)
(* satisfy LockAssumption.                                                   *)
EXTENDS IngestLock, FiniteSetTheorems, TLAPS

USE DEF lockVars, childVars, pathVars, faultVars

-----------------------------------------------------------------------------
(* Type correctness.                                                       *)

LEMMA TTLIsNat == TTL \in Nat /\ TTL > 0
  BY LockAssumption DEF TTL, Greater

LEMMA SafeReleaseTyped ==
  ASSUME TypeOK, NEW i \in Ingests, SafeRelease(i)
  PROVE  /\ lock' \in Ingests \cup {None}
         /\ ttl' \in 0 .. TTL
         /\ broken' \in SUBSET Ingests
         /\ faults' \in 0 .. MaxFaults
  BY TTLIsNat, LockAssumption DEF SafeRelease, CompareAndDelete, Fault, TypeOK

LEMMA AcquireTyped ==
  ASSUME TypeOK, NEW i \in Ingests, Acquire(i) PROVE TypeOK'
<1> USE TTLIsNat, LockAssumption
<1>1. CASE StartAcquire(i)
  BY <1>1 DEF StartAcquire, AcquireFrame, Goto, Send, TypeOK
<1>2. CASE Granted(i)
  BY <1>2 DEF Granted, AcquireFrame, Goto, Send, Restart, TypeOK
<1>3. CASE Refused(i)
  BY <1>3 DEF Refused, AcquireFrame, Goto, Send, Restart, TypeOK
<1>4. CASE Poll(i)
  BY <1>4 DEF Poll, AcquireFrame, Goto, Send, TypeOK
<1>5. CASE SetRaises(i)
  <2>1. cmd' \in [Ingests -> {"none", "sent", "granted", "refused", "late"}]
    BY <1>5 DEF SetRaises, Send, TypeOK
  <2>2. broken' \in SUBSET Ingests /\ faults' \in 0 .. MaxFaults
    BY <1>5 DEF SetRaises, Fault, TypeOK
  <2> QED BY <1>5, <2>1, <2>2 DEF SetRaises, AcquireFrame, Goto, TypeOK
<1>6. CASE FailOpen(i)
  BY <1>6, SafeReleaseTyped DEF FailOpen, AcquireFrame, Goto, Restart, TypeOK
<1>7. CASE CancelAcquire(i)
  <2>1. SafeRelease(i) \/ UNCHANGED <<lock, ttl, broken, faults>>
    BY <1>7 DEF CancelAcquire
  <2>2. /\ lock' \in Ingests \cup {None}
        /\ ttl' \in 0 .. TTL
        /\ broken' \in SUBSET Ingests
        /\ faults' \in 0 .. MaxFaults
    BY <2>1, SafeReleaseTyped DEF TypeOK
  <2>3. Goto(i, "settling") \/ Goto(i, "over")
    BY <1>7 DEF CancelAcquire
  <2> QED BY <1>7, <2>2, <2>3 DEF CancelAcquire, AcquireFrame, Goto, Restart, TypeOK
<1>8. CASE SettleThenRelease(i)
  BY <1>8, SafeReleaseTyped DEF SettleThenRelease, AcquireFrame, Goto, Send, TypeOK
<1> QED BY <1>1, <1>2, <1>3, <1>4, <1>5, <1>6, <1>7, <1>8 DEF Acquire

LEMMA ParentTyped ==
  ASSUME TypeOK, NEW i \in Ingests, Parent(i) PROVE TypeOK'
<1> USE TTLIsNat, LockAssumption
<1>1. CASE Spawn(i)
  BY <1>1 DEF Spawn, ParentFrame, Goto, Child, Tending, AtWork, TypeOK
<1>2. CASE ReadHandshake(i)
  <2>1. PICK at \in age[i] .. Greater(MaxEffective, age[i] + Floor) :
          due' = [due EXCEPT ![i] = at]
    BY <1>2 DEF ReadHandshake
  <2>2. at \in Nat
    BY <2>1 DEF TypeOK, Greater
  <2> QED BY <1>2, <2>1, <2>2 DEF ReadHandshake, ParentFrame, Goto, Tending, TypeOK
<1>3. CASE Announce(i)
  BY <1>3 DEF Announce, ParentFrame, Goto, Tending, TypeOK
<1>4. CASE Collect(i)
  BY <1>4 DEF Collect, ParentFrame, Goto, Restart, TypeOK
<1>5. CASE Interrupt(i)
  BY <1>5 DEF Interrupt, ParentFrame, Goto, Tending, TypeOK
<1>6. CASE ChildKilled(i)
  BY <1>6 DEF ChildKilled, ParentFrame, Goto, Child, Restart, TypeOK
<1>7. CASE CancelAnnounce(i)
  BY <1>7 DEF CancelAnnounce, ParentFrame, Goto, Restart, TypeOK
<1>8. CASE Release(i)
  <2>1. SafeRelease(i) \/ UNCHANGED <<lock, ttl, broken, faults>>
    BY <1>8 DEF Release
  <2>2. /\ lock' \in Ingests \cup {None}
        /\ ttl' \in 0 .. TTL
        /\ broken' \in SUBSET Ingests
        /\ faults' \in 0 .. MaxFaults
    BY <2>1, SafeReleaseTyped DEF TypeOK
  <2> QED BY <1>8, <2>2 DEF Release, ParentFrame, Goto, TypeOK
<1> QED BY <1>1, <1>2, <1>3, <1>4, <1>5, <1>6, <1>7, <1>8 DEF Parent

\* Every variable keeps its type: the countdown of the lock's TTL in particular
\* stays within the TTL.
THEOREM LockTypeCorrect == IngestSpec => []TypeOK
<1> USE TTLIsNat, LockAssumption
<1>1. IngestInit => TypeOK
  <2>1. IngestInit => marked \in BOOLEAN
    BY DEF IngestInit
  <2> QED BY <2>1 DEF IngestInit, TypeOK
<1>2. TypeOK /\ [IngestNext]_ingestVars => TypeOK'
  <2> SUFFICES ASSUME TypeOK, IngestNext PROVE TypeOK'
    BY DEF TypeOK, ingestVars
  <2>1. ASSUME NEW i \in Ingests, ApplySet(i) PROVE TypeOK'
    BY <2>1 DEF ApplySet, SetNX, Send, TypeOK
  <2>2. ASSUME NEW i \in Ingests, Crash(i) PROVE TypeOK'
    <3>1. cmd' \in [Ingests -> {"none", "sent", "granted", "refused", "late"}]
      BY <2>2 DEF Crash, Send, TypeOK
    <3>2. child' \in [Ingests -> {"none", "done", "gone"} \cup AtWork]
          /\ orphans' \in SUBSET Ingests
      BY <2>2 DEF Crash, Child, TypeOK
    <3> QED BY <2>2, <3>1, <3>2 DEF Crash, Goto, Restart, TypeOK
  <2>3. ASSUME NEW i \in Ingests, Converter(i) PROVE TypeOK'
    BY <2>3 DEF Converter, ChildProbe, ChildCheck, ChildSave, ChildMark, ChildFails,
      ChildFrame, Child, AtWork, TypeOK
  <2>4. CASE Expire
    BY <2>4 DEF Expire, TypeOK
  <2>5. CASE Tick
    BY <2>5 DEF Tick, TypeOK
  <2> QED BY <2>1, <2>2, <2>3, <2>4, <2>5, AcquireTyped, ParentTyped DEF IngestNext
<1> QED BY <1>1, <1>2, PTL DEF IngestSpec

-----------------------------------------------------------------------------
(* An ingest's own steps, and those of the others.                          *)

\* A step of another ingest: nothing of ingest i changes, and it neither gives
\* nor takes i's lock.
Apart(i) ==
  /\ UNCHANGED <<pc[i], cmd[i], age[i], due[i], child[i]>>
  /\ i \in unlocked' <=> i \in unlocked
  /\ i \in orphans' <=> i \in orphans
  /\ i \in crashed' <=> i \in crashed
  /\ i \in broken' <=> i \in broken
  /\ i \in copies' <=> i \in copies
  /\ lock' = i <=> lock = i
  /\ lock = i => ttl' = ttl

OwnStep(i) == ApplySet(i) \/ Acquire(i) \/ Parent(i) \/ Crash(i) \/ Converter(i)

LEMMA SafeReleaseApart ==
  ASSUME NEW i \in Ingests, NEW j \in Ingests, i # j, SafeRelease(i)
  PROVE  /\ lock' = j <=> lock = j
         /\ lock = j => ttl' = ttl
         /\ j \in broken' <=> j \in broken
  BY LockAssumption DEF SafeRelease, CompareAndDelete, Fault

LEMMA AcquireApart ==
  ASSUME TypeOK, NEW i \in Ingests, NEW j \in Ingests, i # j, Acquire(i) PROVE Apart(j)
<1> USE DEF AcquireFrame, Goto, Send, Restart, TypeOK, Apart
<1>1. CASE StartAcquire(i) BY <1>1 DEF StartAcquire
<1>2. CASE Granted(i) BY <1>2 DEF Granted
<1>3. CASE Refused(i) BY <1>3 DEF Refused
<1>4. CASE Poll(i) BY <1>4 DEF Poll
<1>5. CASE SetRaises(i) BY <1>5 DEF SetRaises, Fault
<1>6. CASE FailOpen(i) BY <1>6, SafeReleaseApart DEF FailOpen
<1>7. CASE CancelAcquire(i) BY <1>7, SafeReleaseApart DEF CancelAcquire
<1>8. CASE SettleThenRelease(i) BY <1>8, SafeReleaseApart DEF SettleThenRelease
<1> QED BY <1>1, <1>2, <1>3, <1>4, <1>5, <1>6, <1>7, <1>8 DEF Acquire

LEMMA ParentApart ==
  ASSUME TypeOK, NEW i \in Ingests, NEW j \in Ingests, i # j, Parent(i) PROVE Apart(j)
<1> USE DEF ParentFrame, Goto, Restart, Child, TypeOK, Apart
<1>1. CASE Spawn(i) BY <1>1 DEF Spawn
<1>2. CASE ReadHandshake(i) BY <1>2 DEF ReadHandshake
<1>3. CASE Announce(i) BY <1>3 DEF Announce
<1>4. CASE Collect(i) BY <1>4 DEF Collect
<1>5. CASE Interrupt(i) BY <1>5 DEF Interrupt
<1>6. CASE ChildKilled(i) BY <1>6 DEF ChildKilled
<1>7. CASE CancelAnnounce(i) BY <1>7 DEF CancelAnnounce
<1>8. CASE Release(i) BY <1>8, SafeReleaseApart DEF Release
<1> QED BY <1>1, <1>2, <1>3, <1>4, <1>5, <1>6, <1>7, <1>8 DEF Parent

LEMMA OthersKeepApart ==
  ASSUME TypeOK, NEW i \in Ingests, NEW j \in Ingests, i # j, OwnStep(i) PROVE Apart(j)
<1> USE DEF Goto, Send, Restart, Child, TypeOK, Apart
<1>1. CASE ApplySet(i)
  BY <1>1, LockAssumption DEF ApplySet, SetNX
<1>2. CASE Crash(i) BY <1>2 DEF Crash
<1>3. CASE Converter(i)
  BY <1>3 DEF Converter, ChildProbe, ChildCheck, ChildSave, ChildMark, ChildFails, ChildFrame
<1> QED BY <1>1, <1>2, <1>3, AcquireApart, ParentApart DEF OwnStep

-----------------------------------------------------------------------------
(* A lock is given up by its holder or by its TTL.                          *)

LEMMA OnlyOwnReleases ==
  ASSUME TypeOK, IngestNext, NEW i \in Ingests, lock = i, lock' # i
  PROVE  ttl = 0 \/ pc[i] \in {"release", "failopen", "settling"}
<1>1. CASE Expire
  BY <1>1 DEF Expire
<1>2. CASE Tick
  BY <1>2 DEF Tick
<1>3. CASE \E j \in Ingests : OwnStep(j)
  <2>1. OwnStep(i)
    BY <1>3, OthersKeepApart DEF Apart
  <2>2. CASE Acquire(i)
    BY <2>2, LockAssumption DEF Acquire, StartAcquire, Granted, Refused, Poll, SetRaises, FailOpen,
      CancelAcquire, SettleThenRelease
  <2>3. CASE Parent(i)
    BY <2>3 DEF Parent, Spawn, ReadHandshake, Announce, Collect, Interrupt, ChildKilled,
      CancelAnnounce, Release
  <2>4. CASE ApplySet(i)
    BY <2>4, LockAssumption DEF ApplySet, SetNX
  <2>5. CASE Crash(i) \/ Converter(i)
    BY <2>5 DEF Crash, Converter, ChildProbe, ChildCheck, ChildSave, ChildMark, ChildFails,
      ChildFrame
  <2> QED BY <2>1, <2>2, <2>3, <2>4, <2>5 DEF OwnStep
<1> QED BY <1>1, <1>2, <1>3 DEF IngestNext, OwnStep

\* The compare-and-delete of release never deletes the lock of another ingest,
\* whatever late SET or lapsed TTL gave it to that ingest.
THEOREM ReleasedByHolder == IngestSpec => OnlyHolderReleases
<1>1. TypeOK /\ [IngestNext]_ingestVars =>
        [\A i \in Ingests :
           lock = i /\ lock' # i => ttl = 0 \/ pc[i] \in {"release", "failopen", "settling"}]_ingestVars
  BY OnlyOwnReleases DEF ingestVars
<1> QED BY <1>1, LockTypeCorrect, PTL DEF IngestSpec, OnlyHolderReleases

-----------------------------------------------------------------------------
(* The child runs under its parent's lock.                                  *)

\* The longest life of a child that is not being killed.
Longest == Greater(MaxEffective, Handshake + Floor)

\* A lock just granted is whole: time does not pass before the reply is read.
Fresh(i) == pc[i] = "setting" /\ cmd[i] = "granted" => lock = i /\ ttl = TTL

\* From then on the lock's countdown loses no more than the child's age.
Held(i) ==
  pc[i] \in {"spawn"} \cup Tending /\ i \notin unlocked => lock = i /\ ttl + age[i] >= TTL

\* The age of the child is bounded by what is due next.
Clock(i) ==
  /\ pc[i] = "spawn" => age[i] = 0
  /\ pc[i] = "handshake" => age[i] <= due[i] /\ due[i] = Handshake
  /\ pc[i] \in {"announce", "await"} => age[i] <= due[i] /\ due[i] <= Longest
  /\ pc[i] = "killing" => age[i] <= due[i] /\ due[i] <= Longest + KillGrace

\* A child whose parent has not gone is tended.
Tended(i) == child[i] \in AtWork /\ i \notin orphans => pc[i] \in Tending

UnderLock(i) == Fresh(i) /\ Held(i) /\ Clock(i) /\ Tended(i)

\* The TTL outlives every child: this is where Floor < Margin is needed.
LEMMA TTLOutlives ==
  /\ Longest \in Nat
  /\ Longest + KillGrace < TTL
  /\ Handshake <= Longest
  BY LockAssumption DEF Longest, TTL, Greater

LEMMA AcquireUnderLock ==
  ASSUME TypeOK, TypeOK', NEW i \in Ingests, UnderLock(i), Acquire(i) PROVE UnderLock(i)'
<1> USE TTLIsNat
<1> USE DEF AcquireFrame, Goto, Send, Restart, TypeOK, UnderLock, Fresh, Held, Clock, Tended,
        Tending
<1>1. CASE StartAcquire(i) BY <1>1 DEF StartAcquire
<1>2. CASE Granted(i) BY <1>2 DEF Granted
<1>3. CASE Refused(i) BY <1>3 DEF Refused
<1>4. CASE Poll(i) BY <1>4 DEF Poll
<1>5. CASE SetRaises(i) BY <1>5 DEF SetRaises
<1>6. CASE FailOpen(i) BY <1>6 DEF FailOpen
<1>7. CASE CancelAcquire(i) BY <1>7 DEF CancelAcquire
<1>8. CASE SettleThenRelease(i) BY <1>8 DEF SettleThenRelease
<1> QED BY <1>1, <1>2, <1>3, <1>4, <1>5, <1>6, <1>7, <1>8 DEF Acquire

LEMMA ParentUnderLock ==
  ASSUME TypeOK, TypeOK', NEW i \in Ingests, UnderLock(i), Parent(i) PROVE UnderLock(i)'
<1> USE TTLIsNat, TTLOutlives, LockAssumption
<1> USE DEF ParentFrame, Goto, Restart, Child, TypeOK, UnderLock, Fresh, Held, Clock, Tended,
        Tending, AtWork
<1>1. CASE Spawn(i) BY <1>1 DEF Spawn
<1>2. CASE ReadHandshake(i)
  <2>1. PICK at \in age[i] .. Greater(MaxEffective, age[i] + Floor) :
          due' = [due EXCEPT ![i] = at]
    BY <1>2 DEF ReadHandshake
  <2>2. age[i] \in Nat /\ age[i] <= Handshake
    BY <1>2 DEF ReadHandshake
  <2>3. age[i] <= at /\ at <= Longest
    BY <2>1, <2>2 DEF Longest, Greater
  <2> QED BY <1>2, <2>1, <2>3 DEF ReadHandshake
<1>3. CASE Announce(i) BY <1>3 DEF Announce
<1>4. CASE Collect(i) BY <1>4 DEF Collect
<1>5. CASE Interrupt(i) BY <1>5 DEF Interrupt
<1>6. CASE ChildKilled(i) BY <1>6 DEF ChildKilled
<1>7. CASE CancelAnnounce(i) BY <1>7 DEF CancelAnnounce
<1>8. CASE Release(i) BY <1>8 DEF Release
<1> QED BY <1>1, <1>2, <1>3, <1>4, <1>5, <1>6, <1>7, <1>8 DEF Parent

LEMMA OwnUnderLock ==
  ASSUME TypeOK, TypeOK', NEW i \in Ingests, UnderLock(i), OwnStep(i) PROVE UnderLock(i)'
<1> USE DEF Goto, Send, Restart, Child, TypeOK, UnderLock, Fresh, Held, Clock, Tended, Tending
<1>1. CASE ApplySet(i)
  BY <1>1, TTLIsNat, LockAssumption DEF ApplySet, SetNX
<1>2. CASE Crash(i) BY <1>2 DEF Crash, AtWork
<1>3. CASE Converter(i)
  BY <1>3 DEF Converter, ChildProbe, ChildCheck, ChildSave, ChildMark, ChildFails, ChildFrame,
    AtWork
<1> QED BY <1>1, <1>2, <1>3, AcquireUnderLock, ParentUnderLock DEF OwnStep

LEMMA ApartUnderLock ==
  ASSUME TypeOK, NEW i \in Ingests, UnderLock(i), Apart(i) PROVE UnderLock(i)'
  BY DEF TypeOK, Apart, UnderLock, Fresh, Held, Clock, Tended, Tending

\* A lock that a child relies on has time left.
LEMMA TimeLeft ==
  ASSUME TypeOK, NEW i \in Ingests, UnderLock(i), ttl = 0
  PROVE  /\ ~(pc[i] = "setting" /\ cmd[i] = "granted")
         /\ pc[i] \in {"spawn"} \cup Tending => i \in unlocked
<1> USE TTLIsNat, TTLOutlives, LockAssumption DEF TypeOK, UnderLock
<1>1. ~(pc[i] = "setting" /\ cmd[i] = "granted")
  BY DEF Fresh
<1>2. ASSUME pc[i] \in {"spawn"} \cup Tending PROVE age[i] < TTL /\ age[i] \in Nat
  BY <1>2 DEF Clock, Tending
<1> QED BY <1>1, <1>2 DEF Held

LEMMA TimeUnderLock ==
  ASSUME TypeOK, TypeOK', NEW i \in Ingests, UnderLock(i), Tick \/ Expire PROVE UnderLock(i)'
<1>1. CASE Expire
  BY <1>1, TimeLeft DEF Expire, TypeOK, UnderLock, Fresh, Held, Clock, Tended
<1>2. CASE Tick
  <2>1. ~Overdue(i)
    BY <1>2 DEF Tick
  <2>2. pc[i] \notin {"setting", "spawn", "announce"}
    BY <2>1 DEF Overdue
  <2>3. pc[i] \in Tending => age[i] < due[i] /\ age'[i] = age[i] + 1
    BY <1>2, <2>1, <2>2 DEF Overdue, Tick, Waiting, Tending, TypeOK
  <2>4. pc[i] \in Tending /\ i \notin unlocked => ttl' = ttl - 1
    BY <1>2, TimeLeft, LockAssumption DEF Tick, UnderLock, Held, TypeOK
  <2>5. Fresh(i)' /\ Tended(i)'
    BY <1>2, <2>2 DEF Tick, UnderLock, Fresh, Tended
  <2>6. Held(i)'
    BY <1>2, <2>2, <2>3, <2>4, TTLIsNat DEF Tick, UnderLock, Held, TypeOK
  <2>7. Clock(i)'
    BY <1>2, <2>2, <2>3 DEF Tick, UnderLock, Clock, Tending, TypeOK
  <2> QED BY <2>5, <2>6, <2>7 DEF UnderLock
<1> QED BY <1>1, <1>2

LEMMA AlwaysUnderLock == IngestSpec => [](TypeOK /\ \A i \in Ingests : UnderLock(i))
<1>1. IngestInit => \A i \in Ingests : UnderLock(i)
  BY DEF IngestInit, UnderLock, Fresh, Held, Clock, Tended, Tending, AtWork
<1>2. ASSUME TypeOK, TypeOK', \A i \in Ingests : UnderLock(i), [IngestNext]_ingestVars,
             NEW i \in Ingests
      PROVE  UnderLock(i)'
  <2>1. CASE UNCHANGED ingestVars
    BY <1>2, <2>1 DEF ingestVars, UnderLock, Fresh, Held, Clock, Tended
  <2>2. CASE Tick \/ Expire
    BY <1>2, <2>2, TimeUnderLock
  <2>3. CASE \E j \in Ingests : OwnStep(j)
    BY <1>2, <2>3, OthersKeepApart, OwnUnderLock, ApartUnderLock
  <2> QED BY <1>2, <2>1, <2>2, <2>3 DEF IngestNext, OwnStep
<1>3. TypeOK /\ TypeOK' /\ (\A i \in Ingests : UnderLock(i)) /\ [IngestNext]_ingestVars =>
        (\A i \in Ingests : UnderLock(i))'
  BY <1>2
<1> QED BY <1>1, <1>3, LockTypeCorrect, PTL DEF IngestSpec

LEMMA UnderLockGuards == (\A i \in Ingests : UnderLock(i)) => ChildUnderLock
  BY DEF UnderLock, Held, Tended, ChildUnderLock, Guarded

\* The dedup check and the hash_cache_set of a child run under the lock of its
\* own ingest: the TTL outlives the child, even one that is killed at its
\* deadline, and no other ingest takes or deletes the lock meanwhile.
THEOREM ChildRunsUnderLock == IngestSpec => []ChildUnderLock
  BY AlwaysUnderLock, UnderLockGuards, PTL

-----------------------------------------------------------------------------
(* An ingest that is over has no lock.                                      *)

\* A healthy ingest holds its lock only where something will release it, and
\* every irregular SET or release has a cause that is on record.
Cleared(i) ==
  /\ cmd[i] = "late" => i \in crashed \cup broken
  /\ i \in unlocked => i \in broken
  /\ pc[i] = "failopen" => i \in broken
  /\ cmd[i] \in {"sent", "granted"} => pc[i] \in {"setting", "settling"}
  /\ lock = i /\ i \notin crashed \cup broken =>
       \/ pc[i] \in {"setting", "settling"} /\ cmd[i] = "granted"
       \/ pc[i] \in {"spawn", "release"} \cup Tending

LEMMA AcquireCleared ==
  ASSUME TypeOK, TypeOK', NEW i \in Ingests, Cleared(i), Acquire(i) PROVE Cleared(i)'
<1> USE LockAssumption
<1> USE DEF AcquireFrame, Goto, Send, Restart, TypeOK, Cleared, Tending
<1>1. CASE StartAcquire(i) BY <1>1 DEF StartAcquire
<1>2. CASE Granted(i) BY <1>2 DEF Granted
<1>3. CASE Refused(i) BY <1>3 DEF Refused
<1>4. CASE Poll(i) BY <1>4 DEF Poll
<1>5. CASE SetRaises(i) BY <1>5 DEF SetRaises, Fault
<1>6. CASE FailOpen(i) BY <1>6 DEF FailOpen, SafeRelease, CompareAndDelete, Fault
<1>7. CASE CancelAcquire(i)
  BY <1>7 DEF CancelAcquire, SafeRelease, CompareAndDelete, Fault
<1>8. CASE SettleThenRelease(i)
  BY <1>8 DEF SettleThenRelease, SafeRelease, CompareAndDelete, Fault
<1> QED BY <1>1, <1>2, <1>3, <1>4, <1>5, <1>6, <1>7, <1>8 DEF Acquire

LEMMA ParentCleared ==
  ASSUME TypeOK, TypeOK', NEW i \in Ingests, Cleared(i), Parent(i) PROVE Cleared(i)'
<1> USE LockAssumption
<1> USE DEF ParentFrame, Goto, Restart, Child, TypeOK, Cleared, Tending
<1>1. CASE Spawn(i) BY <1>1 DEF Spawn
<1>2. CASE ReadHandshake(i) BY <1>2 DEF ReadHandshake
<1>3. CASE Announce(i) BY <1>3 DEF Announce
<1>4. CASE Collect(i) BY <1>4 DEF Collect
<1>5. CASE Interrupt(i) BY <1>5 DEF Interrupt
<1>6. CASE ChildKilled(i) BY <1>6 DEF ChildKilled
<1>7. CASE CancelAnnounce(i) BY <1>7 DEF CancelAnnounce
<1>8. CASE Release(i) BY <1>8 DEF Release, SafeRelease, CompareAndDelete, Fault
<1> QED BY <1>1, <1>2, <1>3, <1>4, <1>5, <1>6, <1>7, <1>8 DEF Parent

LEMMA OwnCleared ==
  ASSUME TypeOK, TypeOK', NEW i \in Ingests, Cleared(i), OwnStep(i) PROVE Cleared(i)'
<1> USE DEF Goto, Send, Restart, Child, TypeOK, Cleared, Tending
<1>1. CASE ApplySet(i)
  BY <1>1, LockAssumption DEF ApplySet, SetNX
<1>2. CASE Crash(i) BY <1>2 DEF Crash
<1>3. CASE Converter(i)
  BY <1>3 DEF Converter, ChildProbe, ChildCheck, ChildSave, ChildMark, ChildFails, ChildFrame
<1> QED BY <1>1, <1>2, <1>3, AcquireCleared, ParentCleared DEF OwnStep

LEMMA OtherCleared ==
  ASSUME TypeOK, TypeOK', NEW i \in Ingests, Cleared(i), Apart(i) \/ Tick \/ Expire
  PROVE  Cleared(i)'
<1>1. CASE Apart(i)
  BY <1>1 DEF TypeOK, Apart, Cleared, Tending
<1>2. CASE Tick \/ Expire
  BY <1>2, LockAssumption DEF Tick, Expire, Cleared
<1> QED BY <1>1, <1>2

\* However an ingest ends, by its result, by a timeout or by a cancellation at
\* any point of the acquisition or of the conversion, it leaves no lock behind,
\* unless its process died or one of its own Redis calls failed.
THEOREM LockLeftByFaultOnly == IngestSpec => []NoLockLeftBehind
<1>1. IngestInit => \A i \in Ingests : Cleared(i)
  BY LockAssumption DEF IngestInit, Cleared, Tending
<1>2. ASSUME TypeOK, TypeOK', \A i \in Ingests : Cleared(i), [IngestNext]_ingestVars, NEW i \in Ingests
      PROVE  Cleared(i)'
  <2>1. CASE UNCHANGED ingestVars
    BY <1>2, <2>1 DEF ingestVars, Cleared
  <2>2. CASE Tick \/ Expire
    BY <1>2, <2>2, OtherCleared
  <2>3. CASE \E j \in Ingests : OwnStep(j)
    BY <1>2, <2>3, OthersKeepApart, OwnCleared, OtherCleared
  <2> QED BY <1>2, <2>1, <2>2, <2>3 DEF IngestNext, OwnStep
<1>3. TypeOK /\ TypeOK' /\ (\A i \in Ingests : Cleared(i)) /\ [IngestNext]_ingestVars =>
        (\A i \in Ingests : Cleared(i))'
  BY <1>2
<1>4. (\A i \in Ingests : Cleared(i)) => NoLockLeftBehind
  BY DEF Cleared, NoLockLeftBehind, Tending
<1> QED BY <1>1, <1>3, <1>4, LockTypeCorrect, PTL DEF IngestSpec

-----------------------------------------------------------------------------
(* One copy of the document.                                                *)

\* What explains a second copy.
Cause == \E i \in Ingests : i \in unlocked \cup orphans \/ (i \in copies /\ child[i] = "gone")

\* What an ingest's place says of its document and of the hash cache.
Saved(i) ==
  /\ i \in copies => child[i] \in {"saved", "done", "gone"}
  /\ i \in copies /\ child[i] = "done" => marked
  /\ pc[i] \in {"idle", "setting", "polling", "settling", "failopen", "spawn"} =>
       child[i] = "none"

\* Whoever has a copy or is about to make one is alone, or there is a cause.
Alone(i, j) ==
  i \in copies /\ (j \in copies \/ child[j] \in {"convert", "saved"}) => i = j \/ Cause

CopyInv ==
  /\ \A i \in Ingests : Saved(i)
  /\ \A i, j \in Ingests : Alone(i, j)

\* Only ChildSave adds a copy, only ChildCheck sends a child to convert; a dead
\* child stays dead, the mark stays, and so does what is on record.
LEMMA OwnChild ==
  ASSUME TypeOK, NEW k \in Ingests, Saved(k), OwnStep(k)
  PROVE  /\ marked => marked'
         /\ unlocked \subseteq unlocked' /\ orphans \subseteq orphans'
         /\ copies \subseteq copies'
         /\ child[k] = "gone" => child'[k] = "gone"
         /\ ~ChildSave(k) => copies' = copies
         /\ ~ChildCheck(k) /\ child'[k] \in {"convert", "saved"} =>
              child[k] \in {"convert", "saved"}
         /\ Saved(k)'
<1> USE DEF Goto, Child, TypeOK, Saved, Tending, AtWork
<1>1. CASE ApplySet(k) BY <1>1 DEF ApplySet
<1>2. CASE Acquire(k)
  <2>1. UNCHANGED <<child, copies, marked, orphans>> /\ unlocked \subseteq unlocked'
    BY <1>2 DEF Acquire, AcquireFrame, StartAcquire, Granted, Refused, Poll, SetRaises, FailOpen,
      CancelAcquire, SettleThenRelease
  <2>2. pc[k] \in {"idle", "setting", "polling", "settling", "failopen"}
    BY <1>2 DEF Acquire, StartAcquire, Granted, Refused, Poll, SetRaises, FailOpen, CancelAcquire,
      SettleThenRelease
  <2> QED BY <2>1, <2>2
<1>3. CASE Parent(k)
  <2>1. UNCHANGED <<copies, marked, unlocked>> /\ orphans \subseteq orphans'
    BY <1>3 DEF Parent, ParentFrame, Spawn, ReadHandshake, Announce, Collect, Interrupt,
      ChildKilled, CancelAnnounce, Release
  <2>2. CASE Spawn(k)
    BY <2>1, <2>2 DEF Spawn
  <2>3. CASE ChildKilled(k)
    BY <2>1, <2>3 DEF ChildKilled
  <2>4. CASE ~Spawn(k) /\ ~ChildKilled(k)
    <3>1. /\ pc'[k] \notin {"idle", "setting", "polling", "settling", "failopen", "spawn"}
          /\ child' = child
      BY <1>3, <2>4 DEF Parent, ReadHandshake, Announce, Collect, Interrupt,
        CancelAnnounce, Release
    <3> QED BY <2>1, <3>1
  <2> QED BY <2>2, <2>3, <2>4
<1>4. CASE Crash(k) BY <1>4 DEF Crash
<1>5. CASE Converter(k)
  BY <1>5 DEF Converter, ChildProbe, ChildCheck, ChildSave, ChildMark, ChildFails, ChildFrame
<1> QED BY <1>1, <1>2, <1>3, <1>4, <1>5 DEF OwnStep

LEMMA OtherSaved ==
  ASSUME TypeOK, NEW k \in Ingests, NEW i \in Ingests, i # k, Saved(k), Saved(i), OwnStep(k)
  PROVE  Saved(i)'
<1>1. Apart(i) /\ (marked => marked')
  BY OthersKeepApart, OwnChild
<1> QED BY <1>1 DEF Apart, Saved

LEMMA CauseStays ==
  ASSUME TypeOK, NEW k \in Ingests, \A i \in Ingests : Saved(i), OwnStep(k), Cause PROVE Cause'
<1>1. PICK i \in Ingests : i \in unlocked \cup orphans \/ (i \in copies /\ child[i] = "gone")
  BY DEF Cause
<1>2. /\ unlocked \subseteq unlocked' /\ orphans \subseteq orphans'
      /\ copies \subseteq copies'
      /\ child[k] = "gone" => child'[k] = "gone"
  BY OwnChild
<1>3. child[i] = "gone" => child'[i] = "gone"
  BY <1>2, OthersKeepApart DEF Apart
<1> QED BY <1>1, <1>2, <1>3 DEF Cause

\* Two children at work at the same time: one of them runs without its lock.
LEMMA TwoAtWork ==
  ASSUME \A i \in Ingests : UnderLock(i), NEW i \in Ingests, NEW j \in Ingests, i # j,
         child[i] \in AtWork, child[j] \in AtWork
  PROVE  Cause
<1>1. ChildUnderLock
  BY UnderLockGuards
<1> QED BY <1>1 DEF ChildUnderLock, Guarded, Cause

LEMMA OwnAlone ==
  ASSUME TypeOK, \A i \in Ingests : UnderLock(i), CopyInv, NEW k \in Ingests, OwnStep(k),
         NEW i \in Ingests, NEW j \in Ingests
  PROVE  Alone(i, j)'
<1>1. SUFFICES ASSUME i # j, i \in copies', j \in copies' \/ child'[j] \in {"convert", "saved"}
               PROVE  Cause
  BY CauseStays DEF Alone, CopyInv
<1>2. ASSUME NEW h \in Ingests, h # k
      PROVE  h \in copies' <=> h \in copies /\ child'[h] = child[h]
  BY <1>2, OthersKeepApart DEF Apart
<1>3. CASE ChildSave(k)
  <2>1. child[k] = "convert"
    BY <1>3 DEF ChildSave
  <2>2. CASE k = j
    BY <1>1, <1>2, <2>1, <2>2 DEF CopyInv, Alone
  <2>3. CASE k = i
    <3>1. CASE j \in copies'
      BY <1>1, <1>2, <2>1, <2>3, <3>1 DEF CopyInv, Alone
    <3>2. CASE child'[j] \in {"convert", "saved"}
      <4>1. child[j] \in AtWork
        BY <1>1, <1>3, <2>3, <3>2 DEF ChildSave, Child, TypeOK, AtWork
      <4> QED BY <1>1, <2>1, <2>3, <4>1, TwoAtWork DEF AtWork
    <3> QED BY <1>1, <3>1, <3>2
  <2>4. CASE k # i /\ k # j
    BY <1>1, <1>3, <2>4 DEF ChildSave, Child, TypeOK, CopyInv, Alone
  <2> QED BY <2>2, <2>3, <2>4
<1>4. CASE ChildCheck(k)
  <2>1. copies' = copies /\ child[k] = "check"
    BY <1>4 DEF ChildCheck
  <2>2. CASE j \in copies
    BY <1>1, <2>1, <2>2 DEF CopyInv, Alone
  <2>3. CASE j \notin copies /\ k # j
    BY <1>1, <1>4, <2>1, <2>3 DEF ChildCheck, Child, TypeOK, CopyInv, Alone
  <2>4. CASE j \notin copies /\ k = j
    <3>1. child'[j] = "convert"
      BY <1>1, <1>4, <2>1, <2>4 DEF ChildCheck, Child, TypeOK
    <3>2. ~marked
      BY <1>1, <1>4, <2>1, <2>4, <3>1 DEF ChildCheck, Child, TypeOK
    <3>3. child[i] \in {"saved", "gone"}
      BY <1>1, <2>1, <3>2 DEF CopyInv, Saved
    <3>4. CASE child[i] = "gone"
      BY <1>1, <2>1, <3>4 DEF Cause
    <3>5. CASE child[i] = "saved"
      BY <1>1, <2>1, <2>4, <3>5, TwoAtWork DEF AtWork
    <3> QED BY <3>3, <3>4, <3>5
  <2> QED BY <2>2, <2>3, <2>4
<1>5. CASE ~ChildSave(k) /\ ~ChildCheck(k)
  <2>1. copies' = copies /\ (child'[k] \in {"convert", "saved"} => child[k] \in {"convert", "saved"})
    BY <1>5, OwnChild DEF CopyInv
  <2>2. child'[j] \in {"convert", "saved"} => child[j] \in {"convert", "saved"}
    BY <2>1, OthersKeepApart DEF Apart
  <2> QED BY <1>1, <2>1, <2>2 DEF CopyInv, Alone
<1> QED BY <1>3, <1>4, <1>5

LEMMA TwoDocs ==
  ASSUME TypeOK, Cardinality(copies) > 1 PROVE \E i, j \in Ingests : i \in copies /\ j \in copies /\ i # j
<1>1. copies # {}
  BY FS_EmptySet
<1>2. PICK i \in copies : TRUE
  BY <1>1
<1>3. copies # {i}
  BY FS_Singleton
<1>4. PICK j \in copies : j # i
  BY <1>2, <1>3
<1> QED BY <1>2, <1>4 DEF TypeOK

\* The lock and the dedup check keep a file to one document: a second copy takes
\* an ingest that ran unlocked because Redis failed, a child whose parent is
\* gone, or a child that died between saving its document and marking the hash.
THEOREM SecondCopyHasCause == IngestSpec => []OneCopyPerFile
<1> DEFINE Locked == TypeOK /\ \A i \in Ingests : UnderLock(i)
<1>1. IngestInit => CopyInv
  BY DEF IngestInit, CopyInv, Saved, Alone
<1>2. Locked /\ CopyInv /\ [IngestNext]_ingestVars => CopyInv'
  <2> SUFFICES ASSUME Locked, CopyInv, [IngestNext]_ingestVars PROVE CopyInv'
    OBVIOUS
  <2>1. CASE UNCHANGED ingestVars
    BY <2>1 DEF ingestVars, CopyInv, Saved, Alone, Cause
  <2>2. CASE Tick
    BY <2>2 DEF Tick, CopyInv, Saved, Alone, Cause
  <2>3. CASE Expire
    BY <2>3 DEF Expire, CopyInv, Saved, Alone, Cause
  <2>4. ASSUME NEW k \in Ingests, OwnStep(k) PROVE CopyInv'
    <3>1. ASSUME NEW i \in Ingests PROVE Saved(i)'
      BY <2>4, OwnChild, OtherSaved DEF CopyInv
    <3>2. ASSUME NEW i \in Ingests, NEW j \in Ingests PROVE Alone(i, j)'
      BY <2>4, OwnAlone
    <3> QED BY <3>1, <3>2 DEF CopyInv
  <2> QED BY <2>1, <2>2, <2>3, <2>4 DEF IngestNext, OwnStep
<1>3. Locked /\ CopyInv => OneCopyPerFile
  BY TwoDocs DEF CopyInv, Alone, Cause, OneCopyPerFile
<1> QED BY <1>1, <1>2, <1>3, AlwaysUnderLock, PTL DEF IngestSpec

=============================================================================
