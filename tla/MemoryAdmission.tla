---------------------------- MODULE MemoryAdmission ----------------------------
(***************************************************************************)
(* The gate each worker pod passes before it spawns a converter child       *)
(* (memory_admission.py, wait_for_memory): read the free memory under a     *)
(* short Redis lock, go ahead when one more conversion fits, poll while it  *)
(* does not, and go ahead anyway when the wait is over or nothing can be    *)
(* read.  A pod converts one document at a time.  Memory is counted in      *)
(* units; a conversion takes its memory some time after it was admitted.    *)
(***************************************************************************)
EXTENDS Integers, FiniteSetsExt

CONSTANTS
  Pods,      \* worker pods on the node
  None,      \* no pod
  Capacity,  \* memory of the node that conversions can have
  Floors,    \* admission floors: of a local and of an offloaded conversion
  MaxPolls,  \* MEM_ADMISSION_MAX_WAIT_S in polls
  LockTTL    \* _ADMISSION_LOCK_TTL_S in polls

VARIABLES
  pc,        \* where each pod is
  need,      \* the floor of its job, and the memory its conversion takes
  polls,     \* how often it has polled
  gotLock,   \* pods that believe they hold the admission lock
  lock,      \* who set the lock key
  ttl,       \* time left on it
  confirmed  \* pods that went ahead because there was headroom

vars == <<pc, need, polls, gotLock, lock, ttl, confirmed>>

Goto(p, s) == pc' = [pc EXCEPT ![p] = s]

\* MemAvailable, or the cgroup's headroom when that is tighter.
Available ==
  Capacity - MapThenSumSet(LAMBDA p : need[p], {p \in Pods : pc[p] = "converting"})

TypeOK ==
  /\ pc \in [Pods -> {"idle", "acquiring", "checking", "leaving", "polling", "admitted",
                      "converting"}]
  /\ need \in [Pods -> Floors]
  /\ polls \in [Pods -> 0 .. MaxPolls]
  /\ gotLock \in SUBSET Pods
  /\ lock \in Pods \cup {None}
  /\ ttl \in 0 .. LockTTL
  /\ confirmed \in SUBSET Pods

Init ==
  /\ pc = [p \in Pods |-> "idle"]
  /\ need \in [Pods -> Floors]
  /\ polls = [p \in Pods |-> 0]
  /\ gotLock = {}
  /\ lock = None
  /\ ttl = 0
  /\ confirmed = {}

\* A job reaches the gate: a PDF that is offloaded needs the smaller floor.
Arrive(p) ==
  /\ pc[p] = "idle"
  /\ Goto(p, "acquiring")
  /\ \E f \in Floors : need' = [need EXCEPT ![p] = f]
  /\ polls' = [polls EXCEPT ![p] = 0]
  /\ UNCHANGED <<gotLock, lock, ttl, confirmed>>

\* SET NX EX.  The lock is held by another pod, or Redis fails and the pod
\* counts it as acquired; the check follows in every case.
TryAcquireLock(p) ==
  /\ pc[p] = "acquiring"
  /\ Goto(p, "checking")
  /\ \/ lock = None /\ lock' = p /\ ttl' = LockTTL /\ gotLock' = gotLock \cup {p}
     \/ lock # None /\ UNCHANGED <<lock, ttl, gotLock>>
     \/ gotLock' = gotLock \cup {p} /\ UNCHANGED <<lock, ttl>>
  /\ UNCHANGED <<need, polls, confirmed>>

\* Headroom; no headroom but the wait is over; or nothing can be read.
Check(p) ==
  /\ pc[p] = "checking"
  /\ \/ /\ Available >= need[p]
        /\ Goto(p, "leaving")
        /\ confirmed' = confirmed \cup {p}
        /\ UNCHANGED polls
     \/ /\ Available < need[p]
        /\ polls[p] < MaxPolls
        /\ Goto(p, "polling")
        /\ polls' = [polls EXCEPT ![p] = @ + 1]
        /\ UNCHANGED confirmed
     \/ /\ Available < need[p]
        /\ polls[p] = MaxPolls
        /\ Goto(p, "leaving")
        /\ UNCHANGED <<polls, confirmed>>
     \/ /\ Goto(p, "leaving")
        /\ UNCHANGED <<polls, confirmed>>
  /\ UNCHANGED <<need, gotLock, lock, ttl>>

\* The finally block: a DEL that does not ask whose lock it is, and may fail.
ReleaseLock(p) ==
  IF p \in gotLock
  THEN /\ gotLock' = gotLock \ {p}
       /\ \/ lock' = None /\ ttl' = 0
          \/ UNCHANGED <<lock, ttl>>
  ELSE UNCHANGED <<gotLock, lock, ttl>>

Leave(p) ==
  /\ pc[p] = "leaving"
  /\ Goto(p, "admitted")
  /\ ReleaseLock(p)
  /\ UNCHANGED <<need, polls, confirmed>>

Poll(p) ==
  /\ pc[p] = "polling"
  /\ Goto(p, "acquiring")
  /\ ReleaseLock(p)
  /\ UNCHANGED <<need, polls, confirmed>>

\* The child is spawned and takes its memory, after the ingest lock and its own
\* start-up.
Convert(p) ==
  /\ pc[p] = "admitted"
  /\ Goto(p, "converting")
  /\ UNCHANGED <<need, polls, gotLock, lock, ttl, confirmed>>

Finish(p) ==
  /\ pc[p] \in {"admitted", "converting"}
  /\ Goto(p, "idle")
  /\ confirmed' = confirmed \ {p}
  /\ UNCHANGED <<need, polls, gotLock, lock, ttl>>

\* The lock key's own clock; at the end it expires.
LockTick ==
  /\ lock # None
  /\ ttl' = IF ttl > 0 THEN ttl - 1 ELSE 0
  /\ lock' = IF ttl > 0 THEN lock ELSE None
  /\ UNCHANGED <<pc, need, polls, gotLock, confirmed>>

Next ==
  \/ \E p \in Pods :
       \/ Arrive(p)
       \/ TryAcquireLock(p)
       \/ Check(p)
       \/ Leave(p)
       \/ Poll(p)
       \/ Convert(p)
       \/ Finish(p)
  \/ LockTick

Spec == Init /\ [][Next]_vars

-----------------------------------------------------------------------------
\* The conversions admitted because there was headroom fit into the node
\* together: of two simultaneous callers with capacity for one, one is admitted
\* (the admission test of tests/test_storage.py).
ConfirmedFitTogether ==
  LET going == {p \in confirmed : pc[p] \in {"leaving", "admitted", "converting"}} IN
  MapThenSumSet(LAMBDA p : need[p], going) <= Capacity

=============================================================================
