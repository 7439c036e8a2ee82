------------------------------- MODULE Registry -------------------------------
(***************************************************************************)
(* One document in the stores that follow its ingest: the artifact and the  *)
(* sidecar in MinIO, the row in Postgres, the parked verdict and the        *)
(* reconcile etag in Redis.  Writers: the ingest, the promotion sweeps, the *)
(* reconcile cron and the erasure cascade, none of which lock one another   *)
(* out.  Sources: worker/registry_mirror.py, registry/queries.py,           *)
(* storage/verdict.py, storage/reconcile_etag.py, storage/documents.py,     *)
(* registry_backfill and promotion_sweep.py.                                *)
(*                                                                         *)
(* A verdict is named by the writer that computed it; rank is its           *)
(* VERDICT_PRIORITY.  The document is a tree document, and the override of  *)
(* the verdict comparison (VERDICT_DOWNGRADE_ENABLED) is off, its default.  *)
(* Of other documents only two things matter, both left open: whether their *)
(* erasure moved the generation, and the share of rows that are stale.      *)
(***************************************************************************)
EXTENDS Integers

CONSTANTS
  Ingest,         \* the worker that ingested the document
  Sweeps,         \* runs of promotion_sweep
  Cron,           \* the reconcile cron, when it calls the mirror
  None,           \* no object, no row, no verdict
  SlowTables,     \* the table capture may outlast the grace period of the age guard
  MaxRank,        \* the highest VERDICT_PRIORITY in use
  MaxFaults       \* bound: calls to a store that fail in one behaviour

Writers == {Ingest} \cup Sweeps
Callers == Writers \cup {Cron}

Verdicts == Writers \cup {None}

\* What matters of a sidecar: its verdict, and whether it has the fields _is_fat
\* asks for.  Equal contents have equal etags.
Sidecars == [verdict : Verdicts, fat : BOOLEAN]

Rows == [verdict : Verdicts, dated : BOOLEAN]

ASSUME RegistryAssumption ==
  /\ Ingest \notin Sweeps
  /\ Cron \notin Writers
  /\ None \notin Callers \cup Sidecars \cup Rows
  /\ SlowTables \in BOOLEAN
  /\ MaxRank \in Nat
  /\ MaxFaults \in Nat

VARIABLES
  rank,        \* priority of each writer's verdict
  artifact,    \* processed/<doc_id>.json exists
  sidecar,     \* processed/<doc_id>.meta.json
  row,         \* the doc_registry row
  retry,       \* the verdict parked under pageindex:verdict_retry:<doc_id>
  etag,        \* the content whose etag the reconcile map holds
  fresh,       \* processed_at is younger than the grace period
  at,          \* where each caller is in _upsert_registry_row
  pooled,      \* the caller has a Postgres pool
  dated,       \* the caller's fields carry processed_at
  carry,       \* the verdict the caller carries, None once it is dropped
  draft,       \* the sidecar the caller is about to put
  cron,        \* where the reconcile pass is
  seen,        \* the sidecar its listing saw
  orphan,      \* its listing saw an artifact without a sidecar
  moved,       \* this document's erasure moved the generation it read
  meta,        \* the sidecar it loaded
  erase,       \* where the erasure is
  faults       \* failing calls so far

storeVars == <<artifact, sidecar, row, retry, etag, fresh>>
callVars == <<at, pooled, dated, carry, draft>>
cronVars == <<cron, seen, orphan, moved, meta>>
vars == <<rank, storeVars, callVars, cronVars, erase, faults>>

-----------------------------------------------------------------------------
Priority(v) == IF v = None THEN -1 ELSE rank[v]

VerdictOf(file) == IF file = None THEN None ELSE file.verdict

\* "keep" is "read" by a caller whose verdict the filter has dropped.
Places == {"idle", "saved", "ready", "upsert", "filter", "read", "keep", "put", "park",
           "back", "failed"}

Stages == {"idle", "drain", "list", "generation", "stored", "load", "enrich", "enriching",
           "upsert", "store", "heal", "healing", "stale", "delete", "prune"}

TypeOK ==
  /\ rank \in [Writers -> 0 .. MaxRank]
  /\ artifact \in BOOLEAN
  /\ sidecar \in Sidecars \cup {None}
  /\ row \in Rows \cup {None}
  /\ retry \in Verdicts
  /\ etag \in Sidecars \cup {None}
  /\ fresh \in BOOLEAN
  /\ at \in [Callers -> Places]
  /\ pooled \in [Callers -> BOOLEAN]
  /\ dated \in [Callers -> BOOLEAN]
  /\ carry \in [Callers -> Verdicts]
  /\ draft \in [Callers -> Sidecars \cup {None}]
  /\ cron \in Stages
  /\ seen \in Sidecars \cup {None}
  /\ orphan \in BOOLEAN
  /\ moved \in BOOLEAN
  /\ meta \in Sidecars \cup {None}
  /\ erase \in {"idle", "artifact", "sidecar", "etag", "generation", "row", "done"}
  /\ faults \in 0 .. MaxFaults

Init ==
  /\ rank \in [Writers -> 0 .. MaxRank]
  /\ \E w \in Writers : rank[w] = 0
  /\ artifact = FALSE
  /\ sidecar = None
  /\ row = None
  /\ retry = None
  /\ etag = None
  /\ fresh = FALSE
  /\ at = [c \in Callers |-> "idle"]
  /\ pooled = [c \in Callers |-> TRUE]
  /\ dated = [c \in Callers |-> FALSE]
  /\ carry = [c \in Callers |-> None]
  /\ draft = [c \in Callers |-> None]
  /\ cron = "idle"
  /\ seen = None
  /\ orphan = FALSE
  /\ moved = FALSE
  /\ meta = None
  /\ erase = "idle"
  /\ faults = 0

Fault == faults < MaxFaults /\ faults' = faults + 1

Reaches(c, p) == at' = [at EXCEPT ![c] = p]

\* The call returns, and its locals are gone.
Ends(c, p) ==
  /\ Reaches(c, p)
  /\ pooled' = [pooled EXCEPT ![c] = TRUE]
  /\ dated' = [dated EXCEPT ![c] = FALSE]
  /\ carry' = [carry EXCEPT ![c] = None]
  /\ draft' = [draft EXCEPT ![c] = None]

-----------------------------------------------------------------------------
(* The upsert (registry/queries.py).                                       *)

\* Fault: the last writer's verdict wins.
LastVerdict(v) == IF v # None \/ row = None THEN v ELSE row.verdict

\* The higher priority wins, the newer verdict when they are equal.
WinningVerdict(v) ==
  IF row = None \/ (v # None /\ Priority(v) >= Priority(row.verdict)) THEN v ELSE row.verdict

\* One statement: insert, or update by comparison; a row keeps the date it has.
Upsert(v, d) ==
  row' = [verdict |-> WinningVerdict(v), dated |-> d \/ (row # None /\ row.dated)]

-----------------------------------------------------------------------------
(* _upsert_registry_row, one call of caller c.                             *)

\* The statement raises; it may have been committed.  Only a call that was given
\* verdict_fields, as the cron's are not, parks its verdict.
MirrorRaises(c) ==
  /\ at[c] = "upsert"
  /\ Fault
  /\ \/ UNCHANGED row
     \/ Upsert(carry[c], dated[c])
  /\ IF c = Cron THEN Ends(c, "failed")
     ELSE Reaches(c, "park") /\ UNCHANGED <<pooled, dated, carry, draft>>
  /\ UNCHANGED <<rank, artifact, sidecar, retry, etag, fresh, cronVars, erase>>

\* The statement returns the winning row, which the caller carries to the sidecar.
MirrorUpsert(c) ==
  /\ at[c] = "upsert"
  /\ Upsert(carry[c], dated[c])
  /\ carry' = [carry EXCEPT ![c] = row'.verdict]
  /\ Reaches(c, "filter")
  /\ UNCHANGED <<rank, artifact, sidecar, retry, etag, fresh, pooled, dated,
                 draft, cronVars, erase, faults>>

\* _cas_filter_sidecar_meta: a verdict below the one on file is dropped.  Without
\* an artifact there is nothing to compare with.
Filter(c) ==
  /\ at[c] = "filter"
  /\ Reaches(c, IF artifact /\ Priority(carry[c]) < Priority(VerdictOf(sidecar))
                THEN "keep" ELSE "read")
  /\ UNCHANGED <<rank, storeVars, pooled, dated, carry, draft, cronVars, erase, faults>>

\* What the filter reads cannot be read: nothing is dropped.
FilterBlind(c) ==
  /\ at[c] = "filter"
  /\ Fault
  /\ Reaches(c, "read")
  /\ UNCHANGED <<rank, storeVars, pooled, dated, carry, draft, cronVars, erase>>

\* save_doc_meta lays the fields it is given over those on file.
Merged(c, old) ==
  [verdict |-> IF at[c] = "read" THEN carry[c] ELSE VerdictOf(old),
   fat     |-> old # None /\ old.fat]

ReadAs(c, old) ==
  /\ at[c] \in {"read", "keep"}
  /\ draft' = [draft EXCEPT ![c] = Merged(c, old)]
  /\ Reaches(c, "put")
  /\ UNCHANGED <<rank, storeVars, pooled, dated, carry, cronVars, erase>>

Read(c) == ReadAs(c, sidecar) /\ UNCHANGED faults

\* _read_existing_sidecar makes an error an empty sidecar.
ReadFails(c) == ReadAs(c, None) /\ Fault

\* A failing put is logged.
Put(c) ==
  /\ at[c] = "put"
  /\ \/ sidecar' = draft[c] /\ UNCHANGED faults
     \/ Fault /\ UNCHANGED sidecar
  /\ IF pooled[c] THEN Ends(c, "back")
     ELSE Reaches(c, "park") /\ UNCHANGED <<pooled, dated, carry, draft>>
  /\ UNCHANGED <<rank, artifact, row, retry, etag, fresh, cronVars, erase>>

\* _enqueue_verdict_retry, with the writer's own verdict.
Park(c) ==
  /\ at[c] = "park"
  /\ \/ retry' = c /\ UNCHANGED faults
     \/ Fault /\ UNCHANGED retry
  /\ Ends(c, "failed")
  /\ UNCHANGED <<rank, artifact, sidecar, row, etag, fresh, cronVars, erase>>

MirrorStep(c) ==
  MirrorUpsert(c) \/ Filter(c) \/ Read(c) \/ Put(c) \/ Park(c)

MirrorFault(c) == MirrorRaises(c) \/ FilterBlind(c) \/ ReadFails(c)

-----------------------------------------------------------------------------
(* The writers.                                                            *)

\* The child saves the tree.  processed_at was stamped before the wait for the
\* table capture, which runs up to the child's own deadline.
SaveArtifact ==
  /\ at[Ingest] = "idle"
  /\ artifact' = TRUE
  /\ fresh' \in {TRUE, ~SlowTables}
  /\ Reaches(Ingest, "saved")
  /\ UNCHANGED <<rank, sidecar, row, retry, etag, pooled, dated, carry, draft,
                 cronVars, erase, faults>>

SaveSidecar ==
  /\ at[Ingest] = "saved"
  /\ sidecar' = [verdict |-> Ingest, fat |-> TRUE]
  /\ Reaches(Ingest, "ready")
  /\ UNCHANGED <<rank, artifact, row, retry, etag, fresh, pooled, dated, carry,
                 draft, cronVars, erase, faults>>

\* The parent mirrors the child's result; its pool may have failed to open, and
\* then only the sidecar is written.
MirrorIngest ==
  /\ at[Ingest] = "ready"
  /\ carry' = [carry EXCEPT ![Ingest] = Ingest]
  /\ dated' = [dated EXCEPT ![Ingest] = TRUE]
  /\ \E open \in BOOLEAN :
       /\ pooled' = [pooled EXCEPT ![Ingest] = open]
       /\ Reaches(Ingest, IF open THEN "upsert" ELSE "filter")
  /\ UNCHANGED <<rank, storeVars, draft, cronVars, erase, faults>>

\* A sweep re-judges, from the artifact, a document whose row an older version of
\* the pipeline wrote: its ingest is over.
SweepDoc(s) ==
  /\ at[s] = "idle"
  /\ at[Ingest] \in {"back", "failed"}
  /\ row # None
  /\ artifact
  /\ carry' = [carry EXCEPT ![s] = s]
  /\ dated' = [dated EXCEPT ![s] = TRUE]
  /\ Reaches(s, "upsert")
  /\ UNCHANGED <<rank, storeVars, pooled, draft, cronVars, erase, faults>>

\* The process dies; a document is ingested, and swept by one run, only once.
Dies(w) ==
  /\ at[w] \notin {"idle", "back", "failed"}
  /\ Fault
  /\ Ends(w, "failed")
  /\ UNCHANGED <<rank, storeVars, cronVars, erase>>

-----------------------------------------------------------------------------
(* One pass of reconcile_registry_drift.                                   *)

Stage(from, to) == cron = from /\ cron' = to

\* The caller's fields carry processed_at unless they are a parked verdict.
CallWith(v, d) ==
  /\ carry' = [carry EXCEPT ![Cron] = v]
  /\ dated' = [dated EXCEPT ![Cron] = d]
  /\ Reaches(Cron, "upsert")
  /\ UNCHANGED <<pooled, draft>>

CallEnds == at[Cron] \in {"back", "failed"} /\ Ends(Cron, "idle")

\* Locals of the pass are gone too.
PassEnds ==
  /\ cron' = "idle"
  /\ seen' = None
  /\ orphan' = FALSE
  /\ moved' = FALSE
  /\ meta' = None

\* The drain replays a parked verdict.
BeginPass ==
  /\ \/ retry = None /\ Stage("idle", "list") /\ UNCHANGED callVars
     \/ retry # None /\ Stage("idle", "drain") /\ CallWith(retry, FALSE)
  /\ UNCHANGED <<rank, storeVars, seen, orphan, moved, meta, erase, faults>>

\* The key cannot be read: the pass goes on without it.
DrainFails ==
  /\ Stage("idle", "list")
  /\ retry # None
  /\ Fault
  /\ UNCHANGED <<rank, storeVars, callVars, seen, orphan, moved, meta, erase>>

\* A replayed key is deleted whatever it holds by now, if it can be; another one is
\* kept.
EndDrain ==
  /\ Stage("drain", "list")
  /\ \/ at[Cron] = "back" /\ retry' = None /\ UNCHANGED faults
     \/ at[Cron] = "back" /\ Fault /\ UNCHANGED retry
     \/ at[Cron] = "failed" /\ UNCHANGED <<retry, faults>>
  /\ CallEnds
  /\ UNCHANGED <<rank, artifact, sidecar, row, etag, fresh, seen, orphan, moved, meta, erase>>

ListMinio ==
  /\ Stage("list", "generation")
  /\ seen' = sidecar
  /\ orphan' = (artifact /\ sidecar = None)
  /\ UNCHANGED <<rank, storeVars, callVars, moved, meta, erase, faults>>

ReadGeneration ==
  /\ Stage("generation", "stored")
  /\ moved' = FALSE
  /\ UNCHANGED <<rank, storeVars, callVars, seen, orphan, meta, erase, faults>>

\* Fault: orphans are left alone.
AfterUpsertsNoHeal == "stale"

AfterUpserts == IF orphan THEN "heal" ELSE "stale"

\* Only a sidecar whose etag is not the stored one is upserted.
CompareEtag ==
  /\ Stage("stored", IF seen # None /\ etag # seen THEN "load" ELSE AfterUpserts)
  /\ UNCHANGED <<rank, storeVars, callVars, seen, orphan, moved, meta, erase, faults>>

\* A fat sidecar goes to the row as it is.
LoadMeta ==
  /\ Stage("load", IF sidecar = None THEN "stale"
                   ELSE IF sidecar.fat THEN "upsert" ELSE "enrich")
  /\ meta' = sidecar
  /\ UNCHANGED <<rank, storeVars, callVars, seen, orphan, moved, erase, faults>>

LoadFails ==
  /\ Stage("load", "stale")
  /\ Fault
  /\ UNCHANGED <<rank, storeVars, callVars, seen, orphan, moved, meta, erase>>

\* A thin sidecar is completed from the artifact, with the verdict that is on file
\* now, and mirrored.
Enrich ==
  /\ Stage("enrich", "enriching")
  /\ artifact
  /\ meta' = [meta EXCEPT !.verdict = IF VerdictOf(sidecar) = None THEN @ ELSE sidecar.verdict,
                          !.fat = TRUE]
  /\ CallWith(meta'.verdict, TRUE)
  /\ UNCHANGED <<rank, storeVars, seen, orphan, moved, erase, faults>>

\* The artifact cannot be read: the sidecar goes as it is, thin and undated.
EnrichFails ==
  /\ Stage("enrich", "upsert")
  /\ IF artifact THEN Fault ELSE UNCHANGED faults
  /\ UNCHANGED <<rank, storeVars, callVars, seen, orphan, moved, meta, erase>>

EndEnrich ==
  /\ Stage("enriching", "upsert")
  /\ CallEnds
  /\ UNCHANGED <<rank, storeVars, seen, orphan, moved, meta, erase, faults>>

UpsertMeta ==
  /\ Stage("upsert", "store")
  /\ Upsert(meta.verdict, meta.fat)
  /\ meta' = None
  /\ UNCHANGED <<rank, artifact, sidecar, retry, etag, fresh, callVars, seen, orphan, moved,
                 erase, faults>>

\* A failed upsert stores no etag.
UpsertFails ==
  /\ Stage("upsert", "stale")
  /\ Fault
  /\ meta' = None
  /\ UNCHANGED <<rank, storeVars, callVars, seen, orphan, moved, erase>>

\* The etag of the listing, unless an erasure, of this document or of another one,
\* has moved the generation.
StoreEtag ==
  /\ Stage("store", "stale")
  /\ etag' \in {etag} \cup (IF moved THEN {} ELSE {seen})
  /\ moved' = FALSE
  /\ UNCHANGED <<rank, artifact, sidecar, row, retry, fresh, callVars, seen, orphan, meta,
                 erase, faults>>

\* An orphan is mirrored with the verdict on file, by now there may be one.
HealOrphan ==
  /\ Stage("heal", "healing")
  /\ artifact
  /\ CallWith(VerdictOf(sidecar), TRUE)
  /\ UNCHANGED <<rank, storeVars, seen, orphan, moved, meta, erase, faults>>

HealFails ==
  /\ Stage("heal", "stale")
  /\ IF artifact THEN Fault ELSE UNCHANGED faults
  /\ UNCHANGED <<rank, storeVars, callVars, seen, orphan, moved, meta, erase>>

EndHeal ==
  /\ Stage("healing", "stale")
  /\ CallEnds
  /\ UNCHANGED <<rank, storeVars, seen, orphan, moved, meta, erase, faults>>

Listed == seen # None \/ orphan

\* Fault: no age guard.
StaleAtAnyAge == ~Listed /\ row # None /\ row.dated

\* The age guard: an undated row is protected, a young one too.
Stale == ~Listed /\ row # None /\ row.dated /\ ~fresh

\* No row is deleted when more than half of all rows are stale.
FindStale ==
  /\ \/ Stale /\ Stage("stale", "delete")
     \/ Stage("stale", "prune")
  /\ UNCHANGED <<rank, storeVars, callVars, seen, orphan, moved, meta, erase, faults>>

\* A failing delete is logged.
DeleteStale ==
  /\ Stage("delete", "prune")
  /\ \/ row' = None /\ UNCHANGED faults
     \/ Fault /\ UNCHANGED row
  /\ UNCHANGED <<rank, artifact, sidecar, retry, etag, fresh, callVars, seen, orphan, moved,
                 meta, erase>>

PruneEtag ==
  /\ cron = "prune"
  /\ etag' = IF Listed THEN etag ELSE None
  /\ PassEnds
  /\ UNCHANGED <<rank, artifact, sidecar, row, retry, fresh, callVars, erase, faults>>

\* The pass is cut off: a call that is not caught raises, the cron's timeout, or
\* the worker dies.
CutOff ==
  /\ cron # "idle"
  /\ Fault
  /\ PassEnds
  /\ Ends(Cron, "idle")
  /\ UNCHANGED <<rank, storeVars, erase>>

CronStep ==
  \/ BeginPass \/ EndDrain \/ ListMinio \/ ReadGeneration \/ CompareEtag
  \/ LoadMeta \/ Enrich \/ EnrichFails \/ EndEnrich \/ UpsertMeta \/ StoreEtag
  \/ HealOrphan \/ HealFails \/ EndHeal \/ FindStale \/ DeleteStale \/ PruneEtag
  \/ MirrorStep(Cron)

CronFault == DrainFails \/ LoadFails \/ UpsertFails \/ CutOff \/ MirrorFault(Cron)

-----------------------------------------------------------------------------
(* The erasure cascade and the world outside.                              *)

\* Bound: a document is removed when no writer is at work on it.
AtRest ==
  /\ at[Ingest] \in {"back", "failed"}
  /\ \A s \in Sweeps : at[s] \in {"idle", "back", "failed"}

\* A step empties its store or, an error recorded, leaves it; the next one follows.
EraseArtifact ==
  /\ erase = "idle"
  /\ AtRest
  /\ artifact \/ row # None
  /\ erase' = "sidecar"
  /\ \/ artifact' = FALSE /\ UNCHANGED faults
     \/ Fault /\ UNCHANGED artifact
  /\ UNCHANGED <<rank, sidecar, row, retry, etag, fresh, callVars, cronVars>>

EraseSidecar ==
  /\ erase = "sidecar"
  /\ erase' = "etag"
  /\ \/ sidecar' = None /\ UNCHANGED faults
     \/ Fault /\ UNCHANGED sidecar
  /\ UNCHANGED <<rank, artifact, row, retry, etag, fresh, callVars, cronVars>>

\* reconcile_etag_delete makes two calls, the second only after the first.
EraseEtag ==
  /\ erase = "etag"
  /\ \/ erase' = "generation" /\ etag' = None /\ UNCHANGED faults
     \/ erase' = "row" /\ Fault /\ UNCHANGED etag
  /\ UNCHANGED <<rank, artifact, sidecar, row, retry, fresh, callVars, cronVars>>

EraseGeneration ==
  /\ erase = "generation"
  /\ erase' = "row"
  /\ \/ moved' = (cron \notin {"idle", "drain", "list", "generation"}) /\ UNCHANGED faults
     \/ Fault /\ UNCHANGED moved
  /\ UNCHANGED <<rank, storeVars, callVars, cron, seen, orphan, meta>>

EraseRow ==
  /\ erase = "row"
  /\ erase' = "done"
  /\ \/ row' = None /\ UNCHANGED faults
     \/ Fault /\ UNCHANGED row
  /\ UNCHANGED <<rank, artifact, sidecar, retry, etag, fresh, callVars, cronVars>>

Erasure == EraseArtifact \/ EraseSidecar \/ EraseEtag \/ EraseGeneration \/ EraseRow

\* The bucket is cleaned by hand.
Cleanup ==
  /\ artifact
  /\ AtRest
  /\ artifact' = FALSE
  /\ sidecar' = None
  /\ UNCHANGED <<rank, row, retry, etag, fresh, callVars, cronVars, erase, faults>>

\* processed_at leaves the grace period.  The cron's timeout is half of it, so not
\* during a pass that listed the bucket before the artifact was there.
Age ==
  /\ fresh
  /\ cron \in {"idle", "drain", "list"} \/ Listed
  /\ fresh' = FALSE
  /\ UNCHANGED <<rank, artifact, sidecar, row, retry, etag, callVars, cronVars, erase, faults>>

-----------------------------------------------------------------------------
IngestStep == SaveArtifact \/ SaveSidecar \/ MirrorIngest

WriterStep(w) == MirrorStep(w) \/ MirrorFault(w) \/ Dies(w)

Next ==
  \/ IngestStep
  \/ \E s \in Sweeps : SweepDoc(s)
  \/ \E w \in Writers : WriterStep(w)
  \/ CronStep
  \/ CronFault
  \/ Erasure
  \/ Cleanup
  \/ Age

Spec == Init /\ [][Next]_vars

\* The cron runs on a schedule, and a pass that has begun is carried on with.
FairSpec == Spec /\ WF_vars(CronStep)

-----------------------------------------------------------------------------
(* Properties.                                                             *)

\* The row has a verdict at least as high as the sidecar's.
Covered ==
  row # None /\ (sidecar = None \/ Priority(row.verdict) >= Priority(sidecar.verdict))

\* The reconcile skips a sidecar only if the row already holds what it says: a
\* sidecar whose etag is stored is covered by the row, whatever failed, was cut
\* off or overtook between the listing, the upsert and the write of the etag.  This
\* holds of one sweep: a second one, whose comparison is blind, can put its lower verdict
\* between the first one's read and put, and a pass that lists just then is deceived.
StoredEtagIsCovered ==
  (artifact /\ erase = "idle" /\ etag # None /\ sidecar = etag) => Covered

\* While nobody erases the document, no step deletes the row of an artifact that
\* is in the bucket: the stale deletion works on a listing that may be older than
\* the artifact, and only the age guard stands between.
LiveRowKept ==
  [][(row # None /\ row' = None /\ erase = "idle") => ~artifact]_vars

\* A document in the bucket gets its row, and a verdict that reached only the
\* sidecar reaches the row, after any failure, death or missing pool.
RowCatchesUp ==
  artifact ~> (Covered \/ ~artifact \/ erase # "idle")
=============================================================================
