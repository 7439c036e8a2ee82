------------------------------ MODULE HashCache ------------------------------
(***************************************************************************)
(* The dedup entries, filename to sha256: the Redis hash that replaced the   *)
(* one JSON blob in MinIO, the blob as it is still read when Redis has no    *)
(* entry, and the purge that rewrites the blob when a document is erased.    *)
(* Source: storage/hash_cache.py.                                            *)
(*                                                                         *)
(* An entry is the name it is filed under.  A purger is one erasure's call   *)
(* of hash_cache_delete; documents of one name share the entry.              *)
(***************************************************************************)
EXTENDS Integers

CONSTANTS
  Names,       \* filenames
  Purgers,     \* calls of hash_cache_delete
  NameOf,      \* the filename each of them erases
  NoOne,       \* nobody holds the lock
  MaxFaults    \* bound: calls to a store that fail in one behaviour

ASSUME HashCacheAssumption ==
  /\ NameOf \in [Purgers -> Names]
  /\ NoOne \notin Purgers
  /\ MaxFaults \in Nat

VARIABLES
  hashes,   \* names with an entry in the Redis hash
  blob,     \* names with an entry in hashes/processed_hashes.json
  lock,     \* who holds the lock of the blob
  purge,    \* where each purger is in _purge_legacy_hash_entry
  copy,     \* the blob as the purger loaded it
  purged,   \* purgers that have put the blob back without their name
  faults    \* failing calls so far

hashVars == <<hashes, blob, lock, purge, copy, purged>>

PurgePlaces == {"idle", "lock", "load", "put", "unlock"}

HashTypeOK ==
  /\ hashes \subseteq Names
  /\ blob \subseteq Names
  /\ lock \in Purgers \cup {NoOne}
  /\ purge \in [Purgers -> PurgePlaces]
  /\ copy \in [Purgers -> SUBSET Names]
  /\ purged \subseteq Purgers
  /\ faults \in 0 .. MaxFaults

\* A deployment that still has a blob has it for every name or for none of them.
InitHashes ==
  /\ hashes = {}
  /\ blob \in {{}, Names}
  /\ lock = NoOne
  /\ purge = [p \in Purgers |-> "idle"]
  /\ copy = [p \in Purgers |-> {}]
  /\ purged = {}
  /\ faults = 0

Fault == faults < MaxFaults /\ faults' = faults + 1

-----------------------------------------------------------------------------
Served(name) == name \in hashes \cup blob

SetHash(name) ==
  /\ hashes' = hashes \cup {name}
  /\ UNCHANGED <<blob, lock, purge, copy, purged>>

\* HDEL, and the purge of the blob begins.
DeleteHash(p) ==
  /\ purge[p] = "idle"
  /\ hashes' = hashes \ {NameOf[p]}
  /\ purge' = [purge EXCEPT ![p] = "lock"]
  /\ UNCHANGED <<blob, lock, copy, purged>>

PurgeGoes(p, place) ==
  /\ purge' = [purge EXCEPT ![p] = place]
  /\ copy' = [copy EXCEPT ![p] = IF place = "put" THEN blob ELSE {}]

\* Fault: whether the SET took the lock is not looked at.
TakeLockAnyway(p) ==
  /\ purge[p] = "lock"
  /\ lock' = p
  /\ PurgeGoes(p, "load")
  /\ UNCHANGED <<hashes, blob, purged, faults>>

\* SET NX PX.
TakeLock(p) ==
  /\ purge[p] = "lock"
  /\ lock = NoOne
  /\ lock' = p
  /\ PurgeGoes(p, "load")
  /\ UNCHANGED <<hashes, blob, purged, faults>>

\* The wait for the lock ended, or Redis failed: the blob stays as it is.
GiveUpLock(p) ==
  /\ purge[p] = "lock"
  /\ \/ lock # NoOne /\ UNCHANGED faults
     \/ Fault
  /\ PurgeGoes(p, "idle")
  /\ UNCHANGED <<hashes, blob, lock, purged>>

LoadBlob(p) ==
  /\ purge[p] = "load"
  /\ PurgeGoes(p, IF NameOf[p] \in blob THEN "put" ELSE "unlock")
  /\ UNCHANGED <<hashes, blob, lock, purged, faults>>

PutBlob(p) ==
  /\ purge[p] = "put"
  /\ blob' = copy[p] \ {NameOf[p]}
  /\ purged' = purged \cup {p}
  /\ PurgeGoes(p, "unlock")
  /\ UNCHANGED <<hashes, lock, faults>>

\* MinIO refuses the read or the write of the blob: logged, and the entry stays.
BlobFails(p) ==
  /\ purge[p] \in {"load", "put"}
  /\ Fault
  /\ PurgeGoes(p, "unlock")
  /\ UNCHANGED <<hashes, blob, lock, purged>>

\* The script compares the token; when its call fails the lock is left to its TTL.
Unlock(p) ==
  /\ purge[p] = "unlock"
  /\ \/ lock' = (IF lock = p THEN NoOne ELSE lock) /\ UNCHANGED faults
     \/ UNCHANGED lock /\ Fault
  /\ PurgeGoes(p, "idle")
  /\ UNCHANGED <<hashes, blob, purged>>

\* The TTL of 30 s outlasts one small read and write, as its comment has it: the
\* lock runs out only under a holder that is no longer at work on the blob.
ExpireLock ==
  /\ lock # NoOne
  /\ purge[lock] = "idle"
  /\ lock' = NoOne
  /\ UNCHANGED <<hashes, blob, purge, copy, purged, faults>>

\* The process dies; nothing of its purge goes on.
AbandonPurge(p) ==
  /\ PurgeGoes(p, "idle")
  /\ UNCHANGED <<hashes, blob, lock, purged>>

Purge(p) ==
  TakeLock(p) \/ LoadBlob(p) \/ PutBlob(p) \/ BlobFails(p) \/ Unlock(p)

-----------------------------------------------------------------------------
\* An erasure that has put the blob back without its name never finds the name
\* there again: no erasure of another document, working on an older copy, restores
\* it (the lost update the lock of _purge_legacy_hash_entry is for).
BlobStaysPurged == \A p \in purged : NameOf[p] \notin blob
=============================================================================
