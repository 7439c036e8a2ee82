------------------------------ MODULE IngestLock ------------------------------
(***************************************************************************)
(* The per-file ingest lock around the converter child, and the dedup check *)
(* the child makes under it.  Sources: storage/ingest_lock.py,              *)
(* worker/subprocess_mgr.py, storage/hash_cache.py and the dedup and persist*)
(* steps of client/indexer.py.                                              *)
(*                                                                         *)
(* All ingests are of one file with one content: the lock is keyed on the   *)
(* file name, and another content is another document.  The document is     *)
(* persisted as a tree: a flat one is saved under no name, and the dedup     *)
(* check does not find it again (IndexPipeline).  An ingest is one           *)
(* call of _run_converter_subprocess, by an arq attempt or by               *)
(* preprocess_client; a retry is another ingest.  Time is a countdown: a     *)
(* Redis call, a spawn and the handshake callback take no time on the scale  *)
(* of the timeouts, the margin of the lock's TTL pays for them.             *)
(***************************************************************************)
EXTENDS Integers, FiniteSets

CONSTANTS
  Ingests,         \* calls of _run_converter_subprocess for the file
  None,            \* no ingest
  MaxEffective,    \* MAX_EFFECTIVE_TIMEOUT
  Handshake,       \* HANDSHAKE_TIMEOUT_S
  Floor,           \* what a child gets at least after its handshake
  KillGrace,       \* KILL_GRACE_SECONDS
  Margin,          \* TTL_MARGIN_S
  WaitBudget,      \* max_wait_s
  CallbackAwaits,  \* on_effective_timeout has an extension to write, so it awaits Redis
  MaxFaults        \* bound: Redis calls of the lock that fail in one behaviour

ASSUME LockAssumption ==
  /\ None \notin Ingests
  /\ MaxEffective \in Nat \ {0}
  /\ Handshake \in Nat \ {0}
  /\ Floor \in Nat
  /\ KillGrace \in Nat
  /\ Margin \in Nat
  /\ Floor < Margin
  /\ WaitBudget \in Nat
  /\ CallbackAwaits \in BOOLEAN
  /\ MaxFaults \in Nat

VARIABLES
  lock,      \* whose token is in the lock key
  ttl,       \* time left on the lock key
  pc,        \* where each ingest's parent is
  cmd,       \* the ingest's SET: sent, applied with its reply due, or late
  age,       \* time the ingest waits for the lock, then the age of its child
  due,       \* the age at which the parent polls again, or kills the child
  child,     \* where each converter child is
  unlocked,  \* ingests that proceeded without the lock (Redis unavailable)
  orphans,   \* children whose parent is gone
  crashed,   \* ingests whose parent died
  copies,    \* copies of the document, named by the ingest that saved them
  marked,    \* the hash cache holds the content
  broken,    \* ingests one of whose Redis calls failed
  faults     \* failing Redis calls so far

lockVars == <<lock, ttl>>
childVars == <<child, copies, marked>>
pathVars == <<unlocked, orphans, crashed>>
faultVars == <<broken, faults>>
ingestVars == <<lock, ttl, pc, cmd, age, due, child, unlocked, orphans, crashed, copies, marked,
                broken, faults>>

-----------------------------------------------------------------------------
Greater(a, b) == IF a > b THEN a ELSE b

\* Fault: the TTL covers the conversion only.
TTLOfConversion == MaxEffective

\* ttl_s of _ingest_lock_budget: the child's longest life and a margin.
TTL == Greater(MaxEffective, Handshake) + KillGrace + Margin

AtWork == {"probe", "check", "convert", "saved"}

\* The parent waits for its child.
Tending == {"handshake", "announce", "await", "killing"}

Waiting == {"polling", "handshake", "await", "killing"}

TypeOK ==
  /\ lock \in Ingests \cup {None}
  /\ ttl \in 0 .. TTL
  /\ pc \in [Ingests -> {"idle", "setting", "polling", "settling", "failopen", "spawn",
                         "release", "over"} \cup Tending]
  /\ cmd \in [Ingests -> {"none", "sent", "granted", "refused", "late"}]
  /\ age \in [Ingests -> Nat]
  /\ due \in [Ingests -> Nat]
  /\ child \in [Ingests -> {"none", "done", "gone"} \cup AtWork]
  /\ unlocked \in SUBSET Ingests
  /\ orphans \in SUBSET Ingests
  /\ crashed \in SUBSET Ingests
  /\ copies \in SUBSET Ingests
  /\ marked \in BOOLEAN
  /\ broken \in SUBSET Ingests
  /\ faults \in 0 .. MaxFaults

IngestInit ==
  /\ lock = None
  /\ ttl = 0
  /\ pc = [i \in Ingests |-> "idle"]
  /\ cmd = [i \in Ingests |-> "none"]
  /\ age = [i \in Ingests |-> 0]
  /\ due = [i \in Ingests |-> 0]
  /\ child = [i \in Ingests |-> "none"]
  /\ unlocked = {}
  /\ orphans = {}
  /\ crashed = {}
  /\ copies = {}
  /\ marked = FALSE
  /\ broken = {}
  /\ faults = 0

Goto(i, p) == pc' = [pc EXCEPT ![i] = p]
Send(i, c) == cmd' = [cmd EXCEPT ![i] = c]

\* The ingest's clock starts again, with nothing due.
Restart(i) ==
  /\ age' = [age EXCEPT ![i] = 0]
  /\ due' = [due EXCEPT ![i] = 0]

Child(i, c) == child' = [child EXCEPT ![i] = c]

\* A Redis call of ingest i fails.
Fault(i) ==
  /\ faults < MaxFaults
  /\ faults' = faults + 1
  /\ broken' = broken \cup {i}

-----------------------------------------------------------------------------
(* Redis: SET NX PX, the expiry of the key, compare-and-delete.             *)

SetNX(i) ==
  /\ lock = None
  /\ lock' = i
  /\ ttl' = TTL

\* Redis executes the ingest's SET; a late one finds nobody waiting.
ApplySet(i) ==
  /\ cmd[i] \in {"sent", "late"}
  /\ \/ SetNX(i) /\ Send(i, IF cmd[i] = "sent" THEN "granted" ELSE "none")
     \/ /\ lock # None
        /\ Send(i, IF cmd[i] = "sent" THEN "refused" ELSE "none")
        /\ UNCHANGED lockVars
  /\ UNCHANGED <<pc, age, due, childVars, pathVars, faultVars>>

Expire ==
  /\ lock # None
  /\ ttl = 0
  /\ lock' = None
  /\ UNCHANGED <<ttl, pc, cmd, age, due, childVars, pathVars, faultVars>>

\* The Lua compare-and-delete of release.
CompareAndDelete(i) ==
  /\ lock' = IF lock = i THEN None ELSE lock
  /\ ttl' = IF lock = i THEN 0 ELSE ttl

\* _safe_release, and the release in the finally block: a fault leaves the key
\* to its TTL.
SafeRelease(i) ==
  \/ CompareAndDelete(i) /\ UNCHANGED faultVars
  \/ Fault(i) /\ UNCHANGED lockVars

-----------------------------------------------------------------------------
(* ingest_lock: acquire.                                                   *)

AcquireFrame == UNCHANGED childVars

StartAcquire(i) ==
  /\ pc[i] = "idle"
  /\ Goto(i, "setting")
  /\ Send(i, "sent")
  /\ UNCHANGED <<lockVars, age, due, pathVars, faultVars>>
  /\ AcquireFrame

Granted(i) ==
  /\ pc[i] = "setting"
  /\ cmd[i] = "granted"
  /\ Goto(i, "spawn")
  /\ Send(i, "none")
  /\ Restart(i)
  /\ UNCHANGED <<lockVars, pathVars, faultVars>>
  /\ AcquireFrame

\* Still held: sleep a while, or raise IngestLockBusy when the budget is used up.
Refused(i) ==
  /\ pc[i] = "setting"
  /\ cmd[i] = "refused"
  /\ \/ /\ age[i] < WaitBudget
        /\ Goto(i, "polling")
        /\ due' = [due EXCEPT ![i] = age[i] + 1]
        /\ UNCHANGED age
     \/ /\ age[i] >= WaitBudget
        /\ Goto(i, "over")
        /\ Restart(i)
  /\ Send(i, "none")
  /\ UNCHANGED <<lockVars, pathVars, faultVars>>
  /\ AcquireFrame

Poll(i) ==
  /\ pc[i] = "polling"
  /\ age[i] >= due[i]
  /\ Goto(i, "setting")
  /\ Send(i, "sent")
  /\ UNCHANGED <<lockVars, age, due, pathVars, faultVars>>
  /\ AcquireFrame

\* The SET raises: it was applied, it was not, or Redis gets to it later.
SetRaises(i) ==
  /\ pc[i] \in {"setting", "settling"}
  /\ cmd[i] # "none"
  /\ Fault(i)
  /\ \E c \in IF cmd[i] = "sent" THEN {"none", "late"} ELSE {"none"} : Send(i, c)
  /\ Goto(i, IF pc[i] = "setting" THEN "failopen" ELSE "settling")
  /\ UNCHANGED <<lockVars, age, due, pathVars>>
  /\ AcquireFrame

\* Redis is unavailable: release best effort and run the body unlocked.
FailOpen(i) ==
  /\ pc[i] = "failopen"
  /\ SafeRelease(i)
  /\ unlocked' = unlocked \cup {i}
  /\ Goto(i, "spawn")
  /\ Restart(i)
  /\ UNCHANGED <<cmd, orphans, crashed>>
  /\ AcquireFrame

\* Cancelled while acquiring: nothing of ours is out during the sleep; a SET in
\* flight is settled first.
CancelAcquire(i) ==
  /\ \/ pc[i] = "setting" /\ Goto(i, "settling") /\ UNCHANGED <<lockVars, faultVars>>
     \/ pc[i] = "polling" /\ Goto(i, "over") /\ UNCHANGED <<lockVars, faultVars>>
     \/ pc[i] = "failopen" /\ Goto(i, "over") /\ SafeRelease(i)
  /\ Restart(i)
  /\ UNCHANGED <<cmd, pathVars>>
  /\ AcquireFrame

\* Fault: the cleanup does not wait for the SET.
ReleaseUnsettled(i) ==
  /\ pc[i] = "settling"
  /\ SafeRelease(i)
  /\ Goto(i, "over")
  /\ UNCHANGED <<cmd, age, due, pathVars>>
  /\ AcquireFrame

\* _settle_then_release, a task of its own that a second cancel cannot stop.
SettleThenRelease(i) ==
  /\ pc[i] = "settling"
  /\ cmd[i] \notin {"sent"}
  /\ SafeRelease(i)
  /\ Goto(i, "over")
  /\ Send(i, IF cmd[i] = "late" THEN "late" ELSE "none")
  /\ UNCHANGED <<age, due, pathVars>>
  /\ AcquireFrame

Acquire(i) ==
  \/ StartAcquire(i)
  \/ Granted(i)
  \/ Refused(i)
  \/ Poll(i)
  \/ SetRaises(i)
  \/ FailOpen(i)
  \/ CancelAcquire(i)
  \/ SettleThenRelease(i)

-----------------------------------------------------------------------------
(* _run_converter_child: the parent's side, under the lock.                 *)

ParentFrame == UNCHANGED <<cmd, copies, marked>>

\* Spawn the child in a session of its own; or there is no time left, or the
\* spawn fails.
Spawn(i) ==
  /\ pc[i] = "spawn"
  /\ \/ Goto(i, "handshake") /\ Child(i, "probe")
        /\ due' = [due EXCEPT ![i] = Handshake]
     \/ Goto(i, "release") /\ UNCHANGED <<child, due>>
  /\ UNCHANGED <<lockVars, age, pathVars, faultVars>>
  /\ ParentFrame

\* The handshake line, or the end of the child's output, gives the budget: at
\* least Floor from now, unless the arq deadline is nearer.
ReadHandshake(i) ==
  /\ pc[i] = "handshake"
  /\ child[i] # "probe"
  /\ Goto(i, "announce")
  /\ \E at \in age[i] .. Greater(MaxEffective, age[i] + Floor) :
       due' = [due EXCEPT ![i] = at]
  /\ UNCHANGED <<lockVars, age, child, pathVars, faultVars>>
  /\ ParentFrame

\* on_effective_timeout returns.
Announce(i) ==
  /\ pc[i] = "announce"
  /\ Goto(i, "await")
  /\ UNCHANGED <<lockVars, age, due, child, pathVars, faultVars>>
  /\ ParentFrame

\* The child has ended, one way or the other.
Collect(i) ==
  /\ pc[i] = "await"
  /\ child[i] \in {"done", "gone"}
  /\ Goto(i, "release")
  /\ Restart(i)
  /\ UNCHANGED <<lockVars, child, pathVars, faultVars>>
  /\ ParentFrame

\* A timeout, at its time, or a cancellation, at any time: SIGTERM.
Interrupt(i) ==
  /\ pc[i] \in {"handshake", "await"}
  /\ Goto(i, "killing")
  /\ due' = [due EXCEPT ![i] = age[i] + KillGrace]
  /\ UNCHANGED <<lockVars, age, child, pathVars, faultVars>>
  /\ ParentFrame

\* The group has exited, at the latest after the SIGKILL.
ChildKilled(i) ==
  /\ pc[i] = "killing"
  /\ Child(i, IF child[i] = "done" THEN "done" ELSE "gone")
  /\ Goto(i, "release")
  /\ Restart(i)
  /\ UNCHANGED <<lockVars, pathVars, faultVars>>
  /\ ParentFrame

\* The callback is awaited outside every handler that kills the child.
CancelAnnounce(i) ==
  /\ CallbackAwaits
  /\ pc[i] = "announce"
  /\ Goto(i, "release")
  /\ orphans' = IF child[i] \in AtWork THEN orphans \cup {i} ELSE orphans
  /\ Restart(i)
  /\ UNCHANGED <<lockVars, child, unlocked, crashed, faultVars>>
  /\ ParentFrame

\* The finally block of ingest_lock.
Release(i) ==
  /\ pc[i] = "release"
  /\ \/ i \in unlocked /\ UNCHANGED <<lockVars, faultVars>>
     \/ i \notin unlocked /\ SafeRelease(i)
  /\ Goto(i, "over")
  /\ UNCHANGED <<age, due, child, pathVars>>
  /\ ParentFrame

Parent(i) ==
  \/ Spawn(i)
  \/ ReadHandshake(i)
  \/ Announce(i)
  \/ Collect(i)
  \/ Interrupt(i)
  \/ ChildKilled(i)
  \/ CancelAnnounce(i)
  \/ Release(i)

\* The parent's process dies.  Its child, in a session of its own, may live on.
Crash(i) ==
  /\ pc[i] \notin {"idle", "over"}
  /\ Goto(i, "over")
  /\ crashed' = crashed \cup {i}
  /\ \E c \in IF cmd[i] = "sent" THEN {"none", "late"} ELSE {"none"} : Send(i, c)
  /\ \/ child[i] \in AtWork /\ Child(i, "gone") /\ UNCHANGED orphans
     \/ child[i] \in AtWork /\ orphans' = orphans \cup {i} /\ UNCHANGED child
     \/ child[i] \notin AtWork /\ UNCHANGED <<child, orphans>>
  /\ Restart(i)
  /\ UNCHANGED <<lockVars, unlocked, copies, marked, faultVars>>

-----------------------------------------------------------------------------
(* The child: index() of client/indexer.py.                                *)

ChildFrame == UNCHANGED <<lockVars, pc, cmd, age, due, pathVars, faultVars>>

\* The probe behind the handshake line.
ChildProbe(i) ==
  /\ child[i] = "probe"
  /\ Child(i, "check")
  /\ UNCHANGED <<copies, marked>>
  /\ ChildFrame

\* Fault: the dedup check is made before the lock matters.
CheckNothing(i) ==
  /\ child[i] = "check"
  /\ Child(i, "convert")
  /\ UNCHANGED <<copies, marked>>
  /\ ChildFrame

\* hash_cache_get and, on a match, the search for the document it belongs to.
ChildCheck(i) ==
  /\ child[i] = "check"
  /\ Child(i, IF marked /\ copies # {} THEN "done" ELSE "convert")
  /\ UNCHANGED <<copies, marked>>
  /\ ChildFrame

\* A new document id every time.
ChildSave(i) ==
  /\ child[i] = "convert"
  /\ Child(i, "saved")
  /\ copies' = copies \cup {i}
  /\ UNCHANGED marked
  /\ ChildFrame

\* hash_cache_set, the last step.
ChildMark(i) ==
  /\ child[i] = "saved"
  /\ Child(i, "done")
  /\ marked' = TRUE
  /\ UNCHANGED copies
  /\ ChildFrame

ChildFails(i) ==
  /\ child[i] \in AtWork
  /\ Child(i, "gone")
  /\ UNCHANGED <<copies, marked>>
  /\ ChildFrame

Converter(i) ==
  \/ ChildProbe(i)
  \/ ChildCheck(i)
  \/ ChildSave(i)
  \/ ChildMark(i)
  \/ ChildFails(i)

-----------------------------------------------------------------------------
(* Time.                                                                   *)

\* A parent that waits acts when its time is up; everything else it does is
\* quick.
Overdue(i) ==
  \/ pc[i] \in {"setting", "settling", "failopen", "spawn", "announce", "release"}
  \/ pc[i] \in Waiting /\ age[i] >= due[i]

Tick ==
  /\ \A i \in Ingests : ~Overdue(i)
  /\ lock # None \/ \E i \in Ingests : pc[i] \in Waiting
  /\ age' = [i \in Ingests |-> IF pc[i] \in Waiting THEN age[i] + 1 ELSE age[i]]
  /\ ttl' = IF lock # None /\ ttl > 0 THEN ttl - 1 ELSE ttl
  /\ UNCHANGED <<lock, pc, cmd, due, childVars, pathVars, faultVars>>

-----------------------------------------------------------------------------
IngestNext ==
  \/ \E i \in Ingests : ApplySet(i) \/ Acquire(i) \/ Parent(i) \/ Crash(i) \/ Converter(i)
  \/ Expire
  \/ Tick

IngestSpec == IngestInit /\ [][IngestNext]_ingestVars

-----------------------------------------------------------------------------
(* Properties.                                                             *)

\* The child is at work for a parent that took the lock.
Guarded(i) == child[i] \in AtWork /\ i \notin unlocked \cup orphans

\* The child's dedup check and its hash_cache_set both run under its parent's
\* lock, which outlives even a child that is killed at its deadline
\* (_run_converter_subprocess and _ingest_lock_budget).
ChildUnderLock == \A i \in Ingests : Guarded(i) => lock = i

\* A second copy of a document has a cause: an ingest that ran unlocked, an
\* orphaned child, or one that died between saving the document and marking it.
OneCopyPerFile ==
  Cardinality(copies) > 1 =>
    \E i \in Ingests : i \in unlocked \cup orphans \/ (i \in copies /\ child[i] = "gone")

\* A lock is given up by its holder or by its TTL, never by another ingest: a
\* holder whose TTL lapsed does not delete the next holder's lock.
OnlyHolderReleases ==
  [][\A i \in Ingests :
       lock = i /\ lock' # i => ttl = 0 \/ pc[i] \in {"release", "failopen", "settling"}]_ingestVars

\* An ingest that is through leaves no lock behind, however it was cancelled,
\* unless its process died or Redis failed it.
NoLockLeftBehind ==
  \A i \in Ingests : pc[i] = "over" /\ lock = i => i \in crashed \cup broken

=============================================================================
