------------------------------- MODULE Erasure -------------------------------
(***************************************************************************)
(* The right-to-erasure cascade of one document, delete_doc, beside the      *)
(* ingest that writes the document's stores one by one, the readers that     *)
(* cache it and the erasures of other documents.  Sources: storage/          *)
(* documents.py, cache.py, client/indexer.py (the two persist methods),      *)
(* worker/registry_mirror.py; the dedup entry is HashCache.                  *)
(*                                                                         *)
(* A store either holds something of the document or does not.  Two of the   *)
(* keys are not the doc_id: the filename and the sha256, which the cascade   *)
(* has to find in the stores it is about to empty.  The table and figure     *)
(* stores, keyed by the doc_id and cleared without a condition, behave as    *)
(* the flat artifact does and are left out; the reconcile etag is modelled   *)
(* in Registry, and the deletion request to Loki touches no store of ours.   *)
(***************************************************************************)
EXTENDS HashCache, Sequences

CONSTANTS
  Erasers,    \* clients that erase the document, again when they like
  Readers,    \* callers of get_doc
  Name        \* the document's filename

ASSUME ErasureAssumption ==
  /\ Erasers \subseteq Purgers
  /\ Name \in Names
  /\ \A e \in Erasers : NameOf[e] = Name

VARIABLES
  kind,     \* which artifact the document has: "tree" or "flat"
  held,     \* stores with something of the document; "sha" is in the sidecar
  wrote,    \* how far the ingest is with its writes
  at,       \* the step of the manifest each erasure is at
  known,    \* the keys in its ErasureContext
  reached,  \* the steps it has completed
  failed,   \* the stores that refused its call
  calm,     \* the document was whole at its start and nothing has interfered
  read      \* where each reader is in get_doc

docVars == <<kind, held, wrote>>
eraseVars == <<at, known, reached, failed>>
erasureVars == <<docVars, eraseVars, calm, read, hashVars, faults>>

-----------------------------------------------------------------------------
\* Fault: the sidecar is removed before the hash in it is read.
SidecarFirst ==
  <<"uploads", "tree", "flat", "meta", "sha", "verdicts", "quarantine", "cache",
    "hash", "row", "preloaded">>

\* "sha" is the first half of the verdicts step, the search for the content hash.
Manifest ==
  <<"uploads", "tree", "flat", "sha", "verdicts", "meta", "quarantine", "cache",
    "hash", "row", "preloaded">>

Steps == {Manifest[i] : i \in DOMAIN Manifest} \ {"sha"}
Stores == Steps \ {"hash"}
Optional == {"flat", "verdicts", "quarantine", "preloaded"}

\* Fault: the preloaded step counts as reached when the filename is not known.
KeyOfLeniently == [s \in Steps |->
                     IF s = "hash" THEN "name"
                     ELSE IF s \in {"verdicts", "quarantine"} THEN "sha"
                     ELSE "id"]

KeyOf == [s \in Steps |->
            IF s \in {"hash", "preloaded"} THEN "name"
            ELSE IF s \in {"verdicts", "quarantine"} THEN "sha"
            ELSE "id"]

\* What goes with a store: the sidecar takes the sha256 with it.
Contents(s) == IF s = "meta" THEN {"meta", "sha"} ELSE {s}

\* The writes of _persist_tree_result or _persist_flat_result in the child, then the
\* worker parent's registry mirror: the row, and the sidecar once more.
Writes ==
  <<"artifact", "uncache", "meta", "uploads", "hash", "unquarantine", "row", "mirror">>

IngestEnded == wrote = Len(Writes)
Finished(e) == at[e] = Len(Manifest) + 1
Dead(e) == at[e] = Len(Manifest) + 2
AtStep(e, s) == at[e] \in DOMAIN Manifest /\ Manifest[at[e]] = s

ErasureTypeOK ==
  /\ HashTypeOK
  /\ kind \in {"tree", "flat"}
  /\ held \subseteq Stores \cup {"sha"}
  /\ wrote \in 0 .. Len(Writes)
  /\ at \in [Erasers -> 0 .. Len(Manifest) + 2]
  /\ known \in [Erasers -> SUBSET {"id", "name", "sha"}]
  /\ reached \in [Erasers -> SUBSET Steps]
  /\ failed \in [Erasers -> SUBSET (Steps \cup {"name"})]
  /\ calm \in [Erasers -> BOOLEAN]
  /\ read \in [Readers -> {"idle", "load", "fill"}]
  /\ "sha" \in held => "meta" \in held

\* An earlier reject of the same content may be in quarantine, and other processes
\* may have put the verdict ledger and the preloaded object there.
Init ==
  /\ InitHashes
  /\ kind \in {"tree", "flat"}
  /\ held \in {{}, {"verdicts", "quarantine", "preloaded"}}
  /\ wrote = 0
  /\ at = [e \in Erasers |-> 0]
  /\ known = [e \in Erasers |-> {}]
  /\ reached = [e \in Erasers |-> {}]
  /\ failed = [e \in Erasers |-> {}]
  /\ calm = [e \in Erasers |-> FALSE]
  /\ read = [r \in Readers |-> "idle"]

\* A step of anyone but e disturbs the erasures other than e.
Disturb(others) == calm' = [e \in Erasers |-> calm[e] /\ e \notin others]

-----------------------------------------------------------------------------
\* The ingest.

NextWrite == Writes[wrote + 1]

Written ==
  CASE NextWrite = "artifact" -> held \cup {kind}
    [] NextWrite = "uncache" -> held \ {"cache"}
    [] NextWrite = "meta" -> held \cup (IF kind = "tree" THEN {"meta", "sha"} ELSE {"meta"})
    [] NextWrite = "unquarantine" -> held \ {"quarantine"}
    [] NextWrite = "mirror" -> held \cup {"meta", "sha"}
    [] OTHER -> held \cup {NextWrite}

IngestWrites ==
  /\ ~IngestEnded
  /\ NextWrite # "hash"
  /\ held' = Written
  /\ wrote' = wrote + 1
  /\ Disturb(Erasers)
  /\ UNCHANGED <<kind, eraseVars, read, hashVars, faults>>

IngestMarks ==
  /\ ~IngestEnded
  /\ NextWrite = "hash"
  /\ SetHash(Name)
  /\ wrote' = wrote + 1
  /\ Disturb(Erasers)
  /\ UNCHANGED <<kind, held, eraseVars, read, faults>>

\* Best effort: the write is logged as failed and the ingest goes on.
IngestSkips ==
  /\ ~IngestEnded
  /\ NextWrite \in {"uncache", "uploads", "unquarantine", "mirror"}
  /\ Fault
  /\ wrote' = wrote + 1
  /\ UNCHANGED <<kind, held, eraseVars, calm, read, hashVars>>

\* Postgres refuses the row; without a pool the mirror stamps the sidecar all the same.
MirrorDegrades ==
  /\ ~IngestEnded
  /\ NextWrite = "row"
  /\ Fault
  /\ held' \in {held, held \cup {"meta"}}
  /\ wrote' = Len(Writes)
  /\ Disturb(Erasers)
  /\ UNCHANGED <<kind, eraseVars, read, hashVars>>

\* The child or its parent is killed, or a write that is not best effort fails.
IngestDies ==
  /\ wrote \in 1 .. Len(Writes) - 1
  /\ wrote' = Len(Writes)
  /\ UNCHANGED <<kind, held, eraseVars, calm, read, hashVars, faults>>

-----------------------------------------------------------------------------
\* The cascade.

Whole == held \cap {"tree", "uploads"} # {} /\ held \cap {"sha", "row"} # {}

\* load_doc, for the filename; a flat document has no tree artifact to load.  The
\* client may call again, after an answer or without one.
Begin(e) ==
  /\ at[e] \notin DOMAIN Manifest
  /\ wrote > 0
  /\ at' = [at EXCEPT ![e] = 1]
  /\ reached' = [reached EXCEPT ![e] = {}]
  /\ \/ /\ known' = [known EXCEPT ![e] = IF "tree" \in held THEN {"id", "name"} ELSE {"id"}]
        /\ failed' = [failed EXCEPT ![e] = {}]
        /\ calm' = [calm EXCEPT ![e] = IngestEnded /\ Whole]
        /\ UNCHANGED faults
     \/ /\ Fault
        /\ known' = [known EXCEPT ![e] = {"id"}]
        /\ failed' = [failed EXCEPT ![e] = {"name"}]
        /\ Disturb({e})
  /\ UNCHANGED <<docVars, read, hashVars>>

Advance(e) == at' = [at EXCEPT ![e] = @ + 1]

\* The listing gives the filename when load_doc did not.
NameFromListing(e) ==
  IF AtStep(e, "uploads") /\ "uploads" \in held THEN known[e] \cup {"name"} ELSE known[e]

EraseStore(e) ==
  /\ \E s \in Stores :
       /\ AtStep(e, s)
       /\ KeyOf[s] \in known[e]
       /\ held' = held \ Contents(s)
       /\ reached' = [reached EXCEPT ![e] = @ \cup {s}]
  /\ known' = [known EXCEPT ![e] = NameFromListing(e)]
  /\ Advance(e)
  /\ Disturb(Erasers \ {e})
  /\ UNCHANGED <<kind, wrote, failed, read, hashVars, faults>>

\* doc_cache_delete catches the RedisError: the step has been reached all the same.
Swallowed == {"cache"}

\* The store fails, before or after it did what it was asked.
EraseFails(e) ==
  /\ \E s \in Stores :
       /\ AtStep(e, s)
       /\ KeyOf[s] \in known[e]
       /\ held' \in {held, held \ Contents(s)}
       /\ failed' = [failed EXCEPT ![e] = @ \cup {s}]
       /\ reached' = [reached EXCEPT ![e] = IF s \in Swallowed THEN @ \cup {s} ELSE @]
  /\ Fault
  /\ known' \in {known, [known EXCEPT ![e] = NameFromListing(e)]}
  /\ Advance(e)
  /\ Disturb(Erasers)
  /\ UNCHANGED <<kind, wrote, read, hashVars>>

\* The key is not known: the step is skipped, with a warning in the log.
SkipStore(e) ==
  /\ \E s \in Steps : AtStep(e, s) /\ KeyOf[s] \notin known[e]
  /\ Advance(e)
  /\ UNCHANGED <<docVars, known, reached, failed, calm, read, hashVars, faults>>

\* The sidecar, or else the registry row; a read that fails is a miss.
FindSha(e) ==
  /\ AtStep(e, "sha")
  /\ \/ /\ known' = [known EXCEPT ![e] =
                       IF held \cap {"sha", "row"} # {} THEN @ \cup {"sha"} ELSE @]
        /\ UNCHANGED <<calm, faults>>
     \/ /\ Fault
        /\ \E source \in {"sha", "row"} :
             known' = [known EXCEPT ![e] = IF source \in held THEN @ \cup {"sha"} ELSE @]
        /\ Disturb({e})
  /\ Advance(e)
  /\ UNCHANGED <<docVars, reached, failed, read, hashVars>>

EraseHash(e) ==
  /\ AtStep(e, "hash")
  /\ "name" \in known[e]
  /\ "hash" \notin reached[e]
  /\ DeleteHash(e)
  /\ reached' = [reached EXCEPT ![e] = @ \cup {"hash"}]
  /\ Disturb(Erasers \ {e})
  /\ UNCHANGED <<docVars, at, known, failed, read, faults>>

EraseHashFails(e) ==
  /\ AtStep(e, "hash")
  /\ "name" \in known[e]
  /\ "hash" \notin reached[e]
  /\ Fault
  /\ failed' = [failed EXCEPT ![e] = @ \cup {"hash"}]
  /\ Advance(e)
  /\ Disturb({e})
  /\ UNCHANGED <<docVars, known, reached, read, hashVars>>

\* The purge of the blob runs within the step and never fails it.
PurgeStep(e) ==
  /\ \/ Purge(e) /\ calm' = [calm EXCEPT ![e] = @ /\ faults' = faults]
     \/ GiveUpLock(e) /\ Disturb({e})
  /\ IF purge'[e] = "idle" THEN Advance(e) ELSE UNCHANGED at
  /\ UNCHANGED <<docVars, known, reached, failed, read>>

\* The process that serves the call dies.
EraserDies(e) ==
  /\ at[e] \in DOMAIN Manifest
  /\ Fault
  /\ at' = [at EXCEPT ![e] = Len(Manifest) + 2]
  /\ AbandonPurge(e)
  /\ Disturb({e})
  /\ UNCHANGED <<docVars, known, reached, failed, read>>

Erase(e) ==
  \/ Begin(e) \/ EraseStore(e) \/ EraseFails(e) \/ SkipStore(e) \/ FindSha(e)
  \/ EraseHash(e) \/ EraseHashFails(e) \/ PurgeStep(e) \/ EraserDies(e)

\* The erasure of another document, at its hash-cache step.
OtherErases(p) ==
  /\ \/ p \notin purged /\ NameOf[p] \in hashes \cup blob /\ DeleteHash(p) /\ UNCHANGED faults
     \/ Purge(p)
     \/ GiveUpLock(p)
  /\ UNCHANGED <<docVars, eraseVars, calm, read>>

LockExpires == ExpireLock /\ UNCHANGED <<docVars, eraseVars, calm, read>>

-----------------------------------------------------------------------------
\* get_doc: the cache, else the tree artifact, else the flat one, which is cached.

LookUp(r) ==
  /\ read[r] = "idle"
  /\ wrote > 0
  /\ "cache" \notin held
  /\ read' = [read EXCEPT ![r] = "load"]
  /\ UNCHANGED <<docVars, eraseVars, calm, hashVars, faults>>

Load(r) ==
  /\ read[r] = "load"
  /\ read' = [read EXCEPT ![r] = IF kind \in held THEN "fill" ELSE "idle"]
  /\ UNCHANGED <<docVars, eraseVars, calm, hashVars, faults>>

Fill(r) ==
  /\ read[r] = "fill"
  /\ read' = [read EXCEPT ![r] = "idle"]
  /\ \/ held' = held \cup {"cache"} /\ Disturb(Erasers) /\ UNCHANGED faults
     \/ UNCHANGED <<held, calm>> /\ Fault
  /\ UNCHANGED <<kind, wrote, eraseVars, hashVars>>

\* Fault: the entry is set without a TTL.
CacheNeverExpires == FALSE /\ UNCHANGED erasureVars

\* setex gives every entry the cache's TTL.
CacheExpires ==
  /\ "cache" \in held
  /\ held' = held \ {"cache"}
  /\ UNCHANGED <<kind, wrote, eraseVars, calm, read, hashVars, faults>>

-----------------------------------------------------------------------------
Next ==
  \/ IngestWrites \/ IngestMarks \/ IngestSkips \/ MirrorDegrades \/ IngestDies
  \/ \E e \in Erasers : Erase(e)
  \/ \E p \in Purgers \ Erasers : OtherErases(p)
  \/ LockExpires
  \/ \E r \in Readers : LookUp(r) \/ Load(r) \/ Fill(r)
  \/ CacheExpires

\* A reader finishes the call it is in, and Redis drops an entry whose TTL is over.
ReadersEnd == \E r \in Readers : Load(r) \/ Fill(r)

Spec ==
  Init /\ [][Next]_erasureVars /\ WF_erasureVars(ReadersEnd) /\ WF_erasureVars(CacheExpires)

-----------------------------------------------------------------------------
\* The answer of delete_doc: no errors and no partial_purge.
Clean(e) == failed[e] \ Swallowed = {} /\ Optional \subseteq reached[e]

\* An erasure that nothing disturbs, of a document whose keys can still be found,
\* leaves nothing in any store: whatever the kind of the document and however its
\* ingest ended, the manifest looks for the filename and the content hash before it
\* deletes what they are read from.
CalmPassErases ==
  \A e \in Erasers :
    Finished(e) /\ calm[e] => held = {} /\ ~Served(Name) /\ Clean(e)

\* A clean answer means that no step was skipped.  Only errors and optional steps are
\* in the answer, so a required step that is skipped (the dedup entry, without the
\* filename) must come with an optional one that is skipped for the same reason.
GapIsReported == \A e \in Erasers : Finished(e) /\ Clean(e) => reached[e] = Steps

\* Once the document is gone for good, no reader leaves a copy of it in the cache for
\* good: one that loaded it before the erasure may still fill the cache after it, and
\* that entry runs out.
CacheComesClean == <>[](held \cap {"tree", "flat"} = {}) => <>[]("cache" \notin held)
=============================================================================
