---------------------------- MODULE RegistryProofs ----------------------------
(* Theorems of Registry, for any number of failing calls: its types, that    *)
(* the stale deletion spares the row of a document that is in the bucket,    *)
(* both for any number of sweeps, and that a stored etag is the etag of a    *)
(* sidecar the row covers, for one.                                          *)
EXTENDS Registry, TLAPS

USE DEF storeVars, callVars, cronVars, vars

-----------------------------------------------------------------------------
(* The invariants.                                                         *)

\* The cron calls the mirror with a pool, so its call parks no verdict; the sidecar it is
\* about to complete or to upsert has been loaded.
CallInv ==
  /\ pooled[Cron] /\ at[Cron] # "park"
  /\ cron \in {"enrich", "enriching", "upsert"} => meta # None

\* Before the document is ingested nothing of it is in any store, and no pass of the
\* cron has found anything of it.
BeforeInv ==
  at[Ingest] = "idle" =>
    /\ ~artifact /\ sidecar = None /\ row = None /\ retry = None
    /\ \A c \in Callers : at[c] = "idle"
    /\ cron \in {"idle", "list", "generation", "stored", "stale", "prune"}
    /\ seen = None /\ ~orphan
    /\ erase = "idle"

\* An artifact that the listing of the pass has not seen was saved after it, and is young.
ListingInv ==
  /\ cron \notin {"idle", "drain", "list"} /\ ~Listed /\ artifact => fresh
  /\ cron = "delete" => ~Listed /\ ~fresh

-----------------------------------------------------------------------------
(* Type correctness.                                                       *)

LEMMA CallersAre ==
  /\ Ingest \in Writers /\ Ingest \in Callers /\ Cron \in Callers /\ Cron \notin Writers
  /\ Sweeps \subseteq Writers /\ Writers \subseteq Callers
  /\ Writers \subseteq Verdicts /\ None \in Verdicts
  /\ None \notin Callers /\ None \notin Sidecars /\ None \notin Rows
  /\ Ingest # Cron
  BY RegistryAssumption DEF Writers, Callers, Verdicts

LEMMA FaultTyped == TypeOK /\ Fault => faults' \in 0 .. MaxFaults
  BY RegistryAssumption DEF TypeOK, Fault

LEMMA VerdictOfTyped ==
  ASSUME NEW file \in Sidecars \cup {None} PROVE VerdictOf(file) \in Verdicts
  BY CallersAre DEF VerdictOf, Sidecars

LEMMA UpsertTyped ==
  ASSUME TypeOK, NEW v \in Verdicts, NEW d \in BOOLEAN, Upsert(v, d)
  PROVE  row' \in Rows /\ row' # None
<1>1. row # None => row \in Rows
  BY DEF TypeOK
<1>2. WinningVerdict(v) \in Verdicts
  BY <1>1 DEF WinningVerdict, Rows
<1>3. (d \/ (row # None /\ row.dated)) \in BOOLEAN
  OBVIOUS
<1>4. row' \in Rows
  BY <1>2, <1>3 DEF Upsert, Rows
<1> QED BY <1>4, CallersAre

CallTypeOK ==
  /\ at \in [Callers -> Places]
  /\ pooled \in [Callers -> BOOLEAN]
  /\ dated \in [Callers -> BOOLEAN]
  /\ carry \in [Callers -> Verdicts]
  /\ draft \in [Callers -> Sidecars \cup {None}]

LEMMA EndsTyped ==
  ASSUME TypeOK, NEW c \in Callers, NEW p \in Places, Ends(c, p)
  PROVE  CallTypeOK'
  BY CallersAre DEF TypeOK, CallTypeOK, Ends, Reaches

LEMMA ReachesTyped ==
  ASSUME TypeOK, NEW c \in Callers, NEW p \in Places, Reaches(c, p)
  PROVE  at' \in [Callers -> Places]
  BY DEF TypeOK, Reaches

LEMMA CallWithTyped ==
  ASSUME TypeOK, NEW v \in Verdicts, NEW d \in BOOLEAN, CallWith(v, d)
  PROVE  CallTypeOK'
  BY CallersAre DEF TypeOK, CallTypeOK, CallWith, Reaches, Places

LEMMA MirrorTyped ==
  ASSUME TypeOK, CallInv, NEW c \in Callers, MirrorStep(c) \/ MirrorFault(c)
  PROVE  TypeOK'
<1>t. carry[c] \in Verdicts /\ dated[c] \in BOOLEAN /\ draft[c] \in Sidecars \cup {None}
  BY DEF TypeOK
<1>f. Fault \/ UNCHANGED faults
  BY DEF MirrorStep, MirrorFault, MirrorRaises, MirrorUpsert, Filter, FilterBlind, ReadAs,
         Read, ReadFails, Put, Park
<1>g. faults' \in 0 .. MaxFaults
  BY <1>f, FaultTyped DEF TypeOK
<1>1. CASE MirrorRaises(c)
  <2>1. row' \in Rows \cup {None}
    BY <1>1, <1>t, UpsertTyped DEF MirrorRaises, TypeOK
  <2>2. CallTypeOK'
    <3>1. CASE c = Cron
      BY <1>1, <3>1, EndsTyped DEF MirrorRaises, Places
    <3>2. CASE c # Cron
      BY <1>1, <3>2, ReachesTyped DEF MirrorRaises, Places, CallTypeOK, TypeOK
    <3> QED BY <3>1, <3>2
  <2> QED BY <1>1, <1>g, <2>1, <2>2 DEF MirrorRaises, TypeOK, CallTypeOK
<1>2. CASE MirrorUpsert(c)
  <2>1. row' \in Rows
    BY <1>2, <1>t, UpsertTyped DEF MirrorUpsert
  <2>2. row'.verdict \in Verdicts
    BY <2>1 DEF Rows
  <2>3. at' \in [Callers -> Places]
    BY <1>2, ReachesTyped DEF MirrorUpsert, Places
  <2>4. carry' \in [Callers -> Verdicts]
    BY <1>2, <2>2 DEF MirrorUpsert, TypeOK
  <2> QED BY <1>2, <1>g, <2>1, <2>3, <2>4 DEF MirrorUpsert, TypeOK
<1>3. CASE Filter(c) \/ FilterBlind(c)
  <2>1. at' \in [Callers -> Places]
    BY <1>3, ReachesTyped DEF Filter, FilterBlind, Places
  <2> QED BY <1>3, <1>g, <2>1 DEF Filter, FilterBlind, TypeOK
<1>4. CASE Read(c) \/ ReadFails(c)
  <2>1. PICK old \in Sidecars \cup {None} : ReadAs(c, old)
    BY <1>4 DEF Read, ReadFails, TypeOK
  <2>2. Merged(c, old) \in Sidecars
    <3>1. VerdictOf(old) \in Verdicts
      BY VerdictOfTyped
    <3>2. (old # None /\ old.fat) \in BOOLEAN
      OBVIOUS
    <3> QED BY <1>t, <3>1, <3>2 DEF Merged, Sidecars
  <2>3. at' \in [Callers -> Places]
    BY <2>1, ReachesTyped DEF ReadAs, Places
  <2>4. draft' \in [Callers -> Sidecars \cup {None}]
    BY <2>1, <2>2 DEF ReadAs, TypeOK
  <2> QED BY <2>1, <1>g, <2>3, <2>4 DEF ReadAs, TypeOK
<1>5. CASE Put(c)
  <2>1. sidecar' \in Sidecars \cup {None}
    BY <1>5, <1>t DEF Put, TypeOK
  <2>2. CallTypeOK'
    <3>1. CASE pooled[c]
      BY <1>5, <3>1, EndsTyped DEF Put, Places
    <3>2. CASE ~pooled[c]
      BY <1>5, <3>2, ReachesTyped DEF Put, Places, CallTypeOK, TypeOK
    <3> QED BY <3>1, <3>2
  <2> QED BY <1>5, <1>g, <2>1, <2>2 DEF Put, TypeOK, CallTypeOK
<1>6. CASE Park(c)
  <2>1. c \in Writers
    BY <1>6 DEF Park, CallInv, Callers
  <2>2. retry' \in Verdicts
    BY <1>6, <2>1, CallersAre DEF Park, TypeOK
  <2>3. CallTypeOK'
    BY <1>6, EndsTyped DEF Park, Places
  <2> QED BY <1>6, <1>g, <2>2, <2>3 DEF Park, TypeOK, CallTypeOK
<1> QED BY <1>1, <1>2, <1>3, <1>4, <1>5, <1>6 DEF MirrorStep, MirrorFault

LEMMA WriterTyped ==
  ASSUME TypeOK, NEW w \in Writers, IngestStep \/ (w \in Sweeps /\ SweepDoc(w)) \/ Dies(w)
  PROVE  TypeOK'
<1> USE CallersAre
<1>1. CASE SaveArtifact
  <2>1. fresh' \in BOOLEAN
    BY <1>1, RegistryAssumption DEF SaveArtifact
  <2> QED BY <1>1, <2>1, ReachesTyped DEF SaveArtifact, TypeOK, Places
<1>2. CASE SaveSidecar
  <2>1. sidecar' \in Sidecars
    BY <1>2 DEF SaveSidecar, Sidecars
  <2> QED BY <1>2, <2>1, ReachesTyped DEF SaveSidecar, TypeOK, Places
<1>3. CASE MirrorIngest
  <2>1. PICK open \in BOOLEAN :
          /\ pooled' = [pooled EXCEPT ![Ingest] = open]
          /\ Reaches(Ingest, IF open THEN "upsert" ELSE "filter")
    BY <1>3 DEF MirrorIngest
  <2>2. at' \in [Callers -> Places]
    BY <2>1, ReachesTyped DEF Places
  <2>3. pooled' \in [Callers -> BOOLEAN]
    BY <2>1 DEF TypeOK
  <2> QED BY <1>3, <2>2, <2>3 DEF MirrorIngest, TypeOK
<1>4. CASE w \in Sweeps /\ SweepDoc(w)
  <2>1. at' \in [Callers -> Places]
    BY <1>4, ReachesTyped DEF SweepDoc, Places
  <2>2. carry' \in [Callers -> Verdicts] /\ dated' \in [Callers -> BOOLEAN]
    BY <1>4 DEF SweepDoc, TypeOK
  <2> QED BY <1>4, <2>1, <2>2 DEF SweepDoc, TypeOK
<1>5. CASE Dies(w)
  <2>1. CallTypeOK'
    BY <1>5, EndsTyped DEF Dies, Places
  <2>2. faults' \in 0 .. MaxFaults
    BY <1>5, FaultTyped DEF Dies
  <2> QED BY <1>5, <2>1, <2>2 DEF Dies, TypeOK, CallTypeOK
<1> QED BY <1>1, <1>2, <1>3, <1>4, <1>5 DEF IngestStep

LEMMA EnrichedTyped ==
  ASSUME TypeOK, meta \in Sidecars, Enrich
  PROVE  meta' \in Sidecars
<1>1. VerdictOf(sidecar) # None => sidecar.verdict \in Verdicts
  BY DEF VerdictOf, TypeOK, Sidecars
<1>2. CASE VerdictOf(sidecar) = None
  BY <1>2 DEF Enrich, Sidecars
<1>3. CASE VerdictOf(sidecar) # None
  BY <1>1, <1>3 DEF Enrich, Sidecars
<1> QED BY <1>2, <1>3

LEMMA CronTyped ==
  ASSUME TypeOK, CallInv, CronStep \/ CronFault
  PROVE  TypeOK'
<1> USE CallersAre
<1>0. CASE MirrorStep(Cron) \/ MirrorFault(Cron)
  BY <1>0, MirrorTyped
<1>1. CASE BeginPass
  <2>1. CallTypeOK' /\ cron' \in Stages
    BY <1>1, CallWithTyped DEF BeginPass, Stage, Stages, TypeOK, CallTypeOK
  <2> QED BY <1>1, <2>1 DEF BeginPass, TypeOK, CallTypeOK
<1>2. CASE DrainFails
  BY <1>2, FaultTyped DEF DrainFails, Stage, Stages, TypeOK
<1>3. CASE EndDrain
  <2>1. CallTypeOK' /\ cron' \in Stages
    BY <1>3, EndsTyped DEF EndDrain, CallEnds, Stage, Stages, Places
  <2>2. retry' \in Verdicts /\ faults' \in 0 .. MaxFaults
    BY <1>3, FaultTyped DEF EndDrain, TypeOK
  <2> QED BY <1>3, <2>1, <2>2 DEF EndDrain, TypeOK, CallTypeOK
<1>4. CASE ListMinio
  <2>1. orphan' \in BOOLEAN /\ cron' \in Stages /\ seen' \in Sidecars \cup {None}
    BY <1>4 DEF ListMinio, Stage, Stages, TypeOK
  <2>2. UNCHANGED <<rank, storeVars, callVars, moved, meta, erase, faults>>
    BY <1>4 DEF ListMinio
  <2> QED BY <2>1, <2>2 DEF TypeOK
<1>19. CASE ReadGeneration
  <2>1. cron' \in Stages /\ moved' = FALSE
    BY <1>19 DEF ReadGeneration, Stage, Stages
  <2>2. UNCHANGED <<rank, storeVars, callVars, seen, orphan, meta, erase, faults>>
    BY <1>19 DEF ReadGeneration
  <2> QED BY <2>1, <2>2 DEF TypeOK
<1>5. CASE CompareEtag
  BY <1>5 DEF CompareEtag, AfterUpserts, Stage, Stages, TypeOK
<1>6. CASE LoadMeta
  BY <1>6 DEF LoadMeta, Stage, Stages, TypeOK
<1>7. CASE LoadFails
  BY <1>7, FaultTyped DEF LoadFails, Stage, Stages, TypeOK
<1>8. CASE Enrich
  <2>1. meta \in Sidecars
    BY <1>8 DEF Enrich, Stage, CallInv, TypeOK
  <2>3. meta' \in Sidecars
    BY <1>8, <2>1, EnrichedTyped
  <2>4. meta'.verdict \in Verdicts
    BY <2>3 DEF Sidecars
  <2>5. CallTypeOK'
    BY <1>8, <2>4, CallWithTyped DEF Enrich
  <2> QED BY <1>8, <2>3, <2>5 DEF Enrich, Stage, Stages, TypeOK, CallTypeOK
<1>9. CASE EnrichFails \/ HealFails
  <2>1. faults' \in 0 .. MaxFaults
    BY <1>9, FaultTyped DEF EnrichFails, HealFails, TypeOK
  <2> QED BY <1>9, <2>1 DEF EnrichFails, HealFails, Stage, Stages, TypeOK
<1>10. CASE EndEnrich \/ EndHeal
  <2>1. CallTypeOK'
    BY <1>10, EndsTyped DEF EndEnrich, EndHeal, CallEnds, Places
  <2> QED BY <1>10, <2>1 DEF EndEnrich, EndHeal, Stage, Stages, TypeOK, CallTypeOK
<1>11. CASE UpsertMeta
  <2>1. meta \in Sidecars
    BY <1>11 DEF UpsertMeta, Stage, CallInv, TypeOK
  <2>2. meta.verdict \in Verdicts /\ meta.fat \in BOOLEAN
    BY <2>1 DEF Sidecars
  <2>3. row' \in Rows
    BY <1>11, <2>2, UpsertTyped DEF UpsertMeta
  <2> QED BY <1>11, <2>3 DEF UpsertMeta, Stage, Stages, TypeOK
<1>12. CASE UpsertFails
  BY <1>12, FaultTyped DEF UpsertFails, Stage, Stages, TypeOK
<1>13. CASE StoreEtag
  <2>1. etag' \in {etag, seen}
    BY <1>13 DEF StoreEtag
  <2>2. etag' \in Sidecars \cup {None}
    BY <2>1 DEF TypeOK
  <2>3. /\ cron' \in Stages /\ moved' = FALSE
        /\ UNCHANGED <<rank, artifact, sidecar, row, retry, fresh, callVars, seen, orphan, meta,
                       erase, faults>>
    BY <1>13 DEF StoreEtag, Stage, Stages
  <2> QED BY <2>2, <2>3 DEF TypeOK
<1>14. CASE HealOrphan
  <2>1. VerdictOf(sidecar) \in Verdicts
    BY VerdictOfTyped DEF TypeOK
  <2>2. CallTypeOK'
    BY <1>14, <2>1, CallWithTyped DEF HealOrphan
  <2> QED BY <1>14, <2>2 DEF HealOrphan, Stage, Stages, TypeOK, CallTypeOK
<1>15. CASE FindStale
  BY <1>15 DEF FindStale, Stage, Stages, TypeOK
<1>16. CASE DeleteStale
  <2>1. faults' \in 0 .. MaxFaults /\ row' \in Rows \cup {None}
    BY <1>16, FaultTyped DEF DeleteStale, TypeOK
  <2> QED BY <1>16, <2>1 DEF DeleteStale, Stage, Stages, TypeOK
<1>17. CASE PruneEtag
  BY <1>17 DEF PruneEtag, PassEnds, Stages, TypeOK
<1>18. CASE CutOff
  <2>1. CallTypeOK' /\ faults' \in 0 .. MaxFaults
    BY <1>18, EndsTyped, FaultTyped DEF CutOff, Places
  <2> QED BY <1>18, <2>1 DEF CutOff, PassEnds, Stages, TypeOK, CallTypeOK
<1> QED BY <1>0, <1>1, <1>2, <1>3, <1>4, <1>5, <1>6, <1>7, <1>8, <1>9, <1>10, <1>11, <1>12,
           <1>13, <1>14, <1>15, <1>16, <1>17, <1>18, <1>19 DEF CronStep, CronFault

LEMMA OutsideTyped ==
  ASSUME TypeOK, Erasure \/ Cleanup \/ Age
  PROVE  TypeOK'
<1>1. Fault \/ UNCHANGED faults
  BY DEF Erasure, EraseArtifact, EraseSidecar, EraseEtag, EraseGeneration, EraseRow, Cleanup, Age
<1>2. faults' \in 0 .. MaxFaults
  BY <1>1, FaultTyped DEF TypeOK
<1>3. CASE EraseArtifact \/ EraseSidecar
  BY <1>2, <1>3 DEF EraseArtifact, EraseSidecar, TypeOK
<1>4. CASE EraseEtag \/ EraseRow
  BY <1>2, <1>4 DEF EraseEtag, EraseRow, TypeOK
<1>5. CASE EraseGeneration
  <2>1. moved' \in BOOLEAN
    BY <1>5 DEF EraseGeneration, TypeOK
  <2> QED BY <1>2, <1>5, <2>1 DEF EraseGeneration, TypeOK
<1>6. CASE Cleanup
  BY <1>6 DEF Cleanup, TypeOK
<1>7. CASE Age
  <2>1. /\ fresh' = FALSE
        /\ UNCHANGED <<rank, artifact, sidecar, row, retry, etag, callVars, cronVars, erase, faults>>
    BY <1>7 DEF Age
  <2> QED BY <2>1 DEF TypeOK
<1> QED BY <1>3, <1>4, <1>5, <1>6, <1>7 DEF Erasure

LEMMA StepTyped ==
  ASSUME TypeOK, CallInv, [Next]_vars
  PROVE  TypeOK'
<1>1. CASE IngestStep \/ (\E s \in Sweeps : SweepDoc(s)) \/ (\E w \in Writers : Dies(w))
  BY <1>1, WriterTyped, CallersAre
<1>2. CASE \E w \in Writers : MirrorStep(w) \/ MirrorFault(w)
  BY <1>2, MirrorTyped, CallersAre
<1>3. CASE CronStep \/ CronFault
  BY <1>3, CronTyped
<1>4. CASE Erasure \/ Cleanup \/ Age
  BY <1>4, OutsideTyped
<1>5. CASE UNCHANGED vars
  BY <1>5 DEF TypeOK
<1> QED BY <1>1, <1>2, <1>3, <1>4, <1>5 DEF Next, WriterStep

-----------------------------------------------------------------------------
(* What a step leaves alone.                                               *)

\* A step of one call of the mirror.
LEMMA MirrorFrame ==
  ASSUME TypeOK, NEW c \in Callers, MirrorStep(c) \/ MirrorFault(c)
  PROVE  /\ UNCHANGED <<rank, artifact, etag, fresh, cronVars, erase>>
         /\ at[c] \notin {"idle", "saved", "ready", "back", "failed"}
         /\ at'[c] # "idle"
         /\ c = Cron /\ pooled[c] => pooled'[c] /\ at'[c] # "park"
         /\ \A o \in Callers : o # c => at'[o] = at[o] /\ pooled'[o] = pooled[o]
         /\ row # None => row' # None
<1>t. /\ at \in [Callers -> Places] /\ pooled \in [Callers -> BOOLEAN]
      /\ carry[c] \in Verdicts /\ dated[c] \in BOOLEAN
  BY DEF TypeOK
<1>1. CASE MirrorRaises(c)
  <2>1. row # None => row' # None
    BY <1>1, <1>t, UpsertTyped DEF MirrorRaises
  <2> QED BY <1>1, <1>t, <2>1 DEF MirrorRaises, Ends, Reaches
<1>2. CASE MirrorUpsert(c)
  <2>1. row' # None
    BY <1>2, <1>t, UpsertTyped DEF MirrorUpsert
  <2> QED BY <1>2, <1>t, <2>1 DEF MirrorUpsert, Reaches
<1>3. CASE Filter(c) \/ FilterBlind(c)
  BY <1>3, <1>t DEF Filter, FilterBlind, Reaches
<1>4. CASE Read(c) \/ ReadFails(c)
  BY <1>4, <1>t DEF Read, ReadFails, ReadAs, Reaches
<1>5. CASE Put(c)
  BY <1>5, <1>t DEF Put, Ends, Reaches
<1>6. CASE Park(c)
  BY <1>6, <1>t DEF Park, Ends, Reaches
<1> QED BY <1>1, <1>2, <1>3, <1>4, <1>5, <1>6 DEF MirrorStep, MirrorFault

\* The steps of the cron's pass that are not a step of its call.
PassStep ==
  \/ BeginPass \/ DrainFails \/ EndDrain \/ ListMinio \/ ReadGeneration \/ CompareEtag
  \/ LoadMeta \/ LoadFails \/ Enrich \/ EnrichFails \/ EndEnrich \/ UpsertMeta
  \/ UpsertFails \/ StoreEtag \/ HealOrphan \/ HealFails \/ EndHeal \/ FindStale
  \/ DeleteStale \/ PruneEtag \/ CutOff

LEMMA CronStepIs ==
  CronStep \/ CronFault <=> PassStep \/ MirrorStep(Cron) \/ MirrorFault(Cron)
  BY DEF CronStep, CronFault, PassStep

\* A step of the pass touches no call but the cron's own.
LEMMA PassFrame ==
  ASSUME TypeOK, PassStep
  PROVE  /\ UNCHANGED <<rank, artifact, sidecar, fresh, erase>>
         /\ \A o \in Callers : o # Cron => at'[o] = at[o] /\ pooled'[o] = pooled[o]
         /\ pooled[Cron] => pooled'[Cron]
         /\ at[Cron] # "park" => at'[Cron] # "park"
<1>t. /\ at \in [Callers -> Places] /\ pooled \in [Callers -> BOOLEAN] /\ Cron \in Callers
  BY CallersAre DEF TypeOK
<1>1. CASE BeginPass \/ Enrich \/ HealOrphan
  BY <1>1, <1>t DEF BeginPass, Enrich, HealOrphan, CallWith, Reaches
<1>2. CASE EndDrain \/ EndEnrich \/ EndHeal \/ CutOff
  BY <1>2, <1>t DEF EndDrain, EndEnrich, EndHeal, CutOff, CallEnds, Ends, Reaches
<1>3. CASE DrainFails \/ ListMinio \/ ReadGeneration \/ CompareEtag \/ LoadMeta \/ LoadFails
  BY <1>3 DEF DrainFails, ListMinio, ReadGeneration, CompareEtag, LoadMeta, LoadFails
<1>4. CASE EnrichFails \/ UpsertMeta \/ UpsertFails \/ StoreEtag \/ HealFails
  BY <1>4 DEF EnrichFails, UpsertMeta, UpsertFails, StoreEtag, HealFails
<1>5. CASE FindStale \/ DeleteStale \/ PruneEtag
  BY <1>5 DEF FindStale, DeleteStale, PruneEtag
<1> QED BY <1>1, <1>2, <1>3, <1>4, <1>5 DEF PassStep

\* A step of a writer that is not a step of its call.
LEMMA WriterFrame ==
  ASSUME TypeOK, NEW w \in Writers, IngestStep \/ (w \in Sweeps /\ SweepDoc(w)) \/ Dies(w)
  PROVE  /\ UNCHANGED <<row, retry, cronVars, erase>>
         /\ at'[Ingest] = "idle" => at[Ingest] = "idle" /\ at[w] # "idle"
         /\ at'[Cron] = at[Cron] /\ pooled'[Cron] = pooled[Cron]
         /\ SaveArtifact \/ UNCHANGED <<artifact, fresh>>
<1>t. /\ at \in [Callers -> Places] /\ pooled \in [Callers -> BOOLEAN]
      /\ w \in Callers /\ w # Cron
  BY CallersAre DEF TypeOK
<1>1. CASE IngestStep
  BY <1>1, <1>t, CallersAre DEF IngestStep, SaveArtifact, SaveSidecar, MirrorIngest, Reaches
<1>2. CASE w \in Sweeps /\ SweepDoc(w)
  <2>1. at[Ingest] # "idle" /\ Ingest # w
    BY <1>2, RegistryAssumption DEF SweepDoc
  <2> QED BY <1>2, <1>t, <2>1, CallersAre DEF SweepDoc, Reaches
<1>3. CASE Dies(w)
  BY <1>3, <1>t, CallersAre DEF Dies, Ends, Reaches
<1> QED BY <1>1, <1>2, <1>3

LEMMA OutsideFrame ==
  ASSUME Erasure \/ Cleanup \/ Age
  PROVE  /\ UNCHANGED <<retry, callVars, cron, seen, orphan, meta>>
         /\ at[Ingest] \in {"back", "failed"} \/ erase # "idle" \/ fresh
         /\ artifact' => artifact
         /\ Age \/ UNCHANGED fresh
         /\ row' # row => erase = "row"
  BY DEF Erasure, EraseArtifact, EraseSidecar, EraseEtag, EraseGeneration, EraseRow, Cleanup,
         Age, AtRest

\* Every step is one of these.
LEMMA StepIs ==
  ASSUME [Next]_vars
  PROVE  \/ \E w \in Writers : IngestStep \/ (w \in Sweeps /\ SweepDoc(w)) \/ Dies(w)
         \/ \E c \in Callers : MirrorStep(c) \/ MirrorFault(c)
         \/ PassStep
         \/ Erasure \/ Cleanup \/ Age
         \/ UNCHANGED vars
  BY CallersAre, CronStepIs DEF Next, WriterStep

-----------------------------------------------------------------------------
(* The invariants are inductive.                                           *)

LEMMA CallInvStep ==
  ASSUME TypeOK, CallInv, [Next]_vars
  PROVE  CallInv'
<1>1. CASE \E w \in Writers : IngestStep \/ (w \in Sweeps /\ SweepDoc(w)) \/ Dies(w)
  BY <1>1, WriterFrame DEF CallInv
<1>2. CASE \E c \in Callers : MirrorStep(c) \/ MirrorFault(c)
  BY <1>2, MirrorFrame, CallersAre DEF CallInv
<1>3. CASE PassStep
  <2>1. pooled'[Cron] /\ at'[Cron] # "park"
    BY <1>3, PassFrame DEF CallInv
  <2>2. cron' \in {"enrich", "enriching", "upsert"} => meta' # None
    <3>1. CASE LoadMeta
      BY <3>1 DEF LoadMeta, Stage
    <3>2. CASE Enrich
      <4>1. meta \in Sidecars
        BY <3>2 DEF Enrich, Stage, CallInv, TypeOK
      <4>2. meta' \in Sidecars
        BY <3>2, <4>1, EnrichedTyped
      <4> QED BY <4>2, CallersAre
    <3>3. CASE EnrichFails \/ EndEnrich
      BY <3>3 DEF EnrichFails, EndEnrich, Stage, CallInv
    <3>4. CASE BeginPass \/ DrainFails \/ EndDrain \/ ListMinio \/ ReadGeneration
      BY <3>4 DEF BeginPass, DrainFails, EndDrain, ListMinio, ReadGeneration, Stage
    <3>5. CASE CompareEtag \/ LoadFails \/ UpsertMeta \/ UpsertFails \/ StoreEtag
      BY <3>5 DEF CompareEtag, AfterUpserts, LoadFails, UpsertMeta, UpsertFails, StoreEtag, Stage
    <3>6. CASE HealOrphan \/ HealFails \/ EndHeal \/ FindStale \/ DeleteStale
      BY <3>6 DEF HealOrphan, HealFails, EndHeal, FindStale, DeleteStale, Stage
    <3>7. CASE PruneEtag \/ CutOff
      BY <3>7 DEF PruneEtag, CutOff, PassEnds
    <3> QED BY <1>3, <3>1, <3>2, <3>3, <3>4, <3>5, <3>6, <3>7 DEF PassStep
  <2> QED BY <2>1, <2>2 DEF CallInv
<1>4. CASE Erasure \/ Cleanup \/ Age
  BY <1>4, OutsideFrame DEF CallInv
<1>5. CASE UNCHANGED vars
  BY <1>5 DEF CallInv
<1> QED BY <1>1, <1>2, <1>3, <1>4, <1>5, StepIs

LEMMA BeforeInvStep ==
  ASSUME TypeOK, BeforeInv, [Next]_vars
  PROVE  BeforeInv'
<1> SUFFICES ASSUME at'[Ingest] = "idle"
             PROVE  BeforeInv'
  BY DEF BeforeInv
<1>0. at[Ingest] = "idle"
  <2>1. CASE \E w \in Writers : IngestStep \/ (w \in Sweeps /\ SweepDoc(w)) \/ Dies(w)
    BY <2>1, WriterFrame
  <2>2. CASE \E c \in Callers : MirrorStep(c) \/ MirrorFault(c)
    BY <2>2, MirrorFrame, CallersAre
  <2>3. CASE PassStep
    BY <2>3, PassFrame, CallersAre
  <2>4. CASE Erasure \/ Cleanup \/ Age
    BY <2>4, OutsideFrame
  <2> QED BY <2>1, <2>2, <2>3, <2>4, StepIs
<1>b. /\ ~artifact /\ sidecar = None /\ row = None /\ retry = None
      /\ \A c \in Callers : at[c] = "idle"
      /\ cron \in {"idle", "list", "generation", "stored", "stale", "prune"}
      /\ seen = None /\ ~orphan
      /\ erase = "idle"
  BY <1>0 DEF BeforeInv
<1>1. CASE \E w \in Writers : IngestStep \/ (w \in Sweeps /\ SweepDoc(w)) \/ Dies(w)
  BY <1>1, <1>b, WriterFrame, CallersAre
<1>2. CASE \E c \in Callers : MirrorStep(c) \/ MirrorFault(c)
  BY <1>2, <1>b, MirrorFrame
<1>3. CASE PassStep
  <2>1. /\ UNCHANGED <<artifact, sidecar, erase>>
        /\ \A o \in Callers : o # Cron => at'[o] = "idle"
    BY <1>3, <1>b, PassFrame
  <2>2. /\ UNCHANGED <<row, retry>> /\ at'[Cron] = "idle"
        /\ cron' \in {"idle", "list", "generation", "stored", "stale", "prune"}
        /\ seen' = None /\ ~orphan'
    <3>0. ~DrainFails /\ ~EndDrain
      BY <1>b DEF DrainFails, EndDrain, Stage
    <3>1. CASE BeginPass
      BY <1>b, <3>1, CallersAre DEF BeginPass, Stage
    <3>2. CASE ListMinio
      <4>1. ~orphan'
        BY <1>b, <3>2, Zenon DEF ListMinio
      <4> QED BY <1>b, <3>2, <4>1, CallersAre DEF ListMinio, Stage
    <3>7. CASE ReadGeneration \/ CompareEtag
      BY <1>b, <3>7, CallersAre DEF ReadGeneration, CompareEtag, AfterUpserts, Stage
    <3>3. CASE LoadMeta \/ LoadFails \/ Enrich \/ EnrichFails \/ EndEnrich
      BY <1>b, <3>3 DEF LoadMeta, LoadFails, Enrich, EnrichFails, EndEnrich, Stage
    <3>4. CASE UpsertMeta \/ UpsertFails \/ StoreEtag \/ HealOrphan \/ HealFails \/ EndHeal
      BY <1>b, <3>4 DEF UpsertMeta, UpsertFails, StoreEtag, HealOrphan, HealFails, EndHeal, Stage
    <3>5. CASE FindStale \/ DeleteStale \/ PruneEtag
      BY <1>b, <3>5, CallersAre DEF FindStale, Stale, DeleteStale, PruneEtag, PassEnds, Stage
    <3>6. CASE CutOff
      BY <1>b, <3>6, CallersAre DEF CutOff, PassEnds, Ends, Reaches, TypeOK
    <3> QED BY <1>3, <3>0, <3>1, <3>2, <3>3, <3>4, <3>5, <3>6, <3>7 DEF PassStep
  <2> QED BY <1>b, <2>1, <2>2 DEF BeforeInv
<1>4. CASE Erasure \/ Cleanup \/ Age
  <2>1. CASE Erasure
    BY <1>b, <2>1 DEF Erasure, EraseArtifact, AtRest, EraseSidecar, EraseEtag, EraseGeneration,
                      EraseRow
  <2>2. CASE Cleanup \/ Age
    BY <1>b, <2>2 DEF Cleanup, AtRest, Age, BeforeInv
  <2> QED BY <1>4, <2>1, <2>2
<1>5. CASE UNCHANGED vars
  BY <1>5 DEF BeforeInv
<1> QED BY <1>1, <1>2, <1>3, <1>4, <1>5, StepIs

LEMMA ListingInvStep ==
  ASSUME ~SlowTables, TypeOK, BeforeInv, ListingInv, [Next]_vars
  PROVE  ListingInv'
<1> USE DEF Listed
<1>1. CASE \E w \in Writers : IngestStep \/ (w \in Sweeps /\ SweepDoc(w)) \/ Dies(w)
  <2>1. CASE SaveArtifact
    <3>1. fresh' /\ at[Ingest] = "idle" /\ UNCHANGED cronVars
      BY <2>1 DEF SaveArtifact
    <3>2. cron # "delete"
      BY <3>1 DEF BeforeInv
    <3> QED BY <3>1, <3>2 DEF ListingInv
  <2>2. CASE UNCHANGED <<artifact, fresh>>
    BY <1>1, <2>2, WriterFrame DEF ListingInv
  <2> QED BY <1>1, <2>1, <2>2, WriterFrame
<1>2. CASE \E c \in Callers : MirrorStep(c) \/ MirrorFault(c)
  BY <1>2, MirrorFrame DEF ListingInv
<1>3. CASE PassStep
  <2>1. UNCHANGED <<artifact, sidecar, fresh>>
    BY <1>3, PassFrame
  <2>2. CASE BeginPass \/ DrainFails \/ EndDrain \/ PruneEtag \/ CutOff
    <3>1. cron' \in {"idle", "drain", "list"}
      BY <2>2 DEF BeginPass, DrainFails, EndDrain, PruneEtag, CutOff, PassEnds, Stage
    <3> QED BY <3>1 DEF ListingInv
  <2>3. CASE ListMinio
    <3>1. artifact /\ sidecar = None => orphan'
      BY <2>3, Zenon DEF ListMinio
    <3>2. seen' = sidecar /\ cron' = "generation"
      BY <2>3 DEF ListMinio, Stage
    <3> QED BY <2>1, <3>1, <3>2 DEF ListingInv
  <2>4. CASE ReadGeneration \/ CompareEtag \/ LoadMeta \/ LoadFails
    BY <2>1, <2>4 DEF ReadGeneration, CompareEtag, AfterUpserts, LoadMeta, LoadFails, Stage,
                      ListingInv
  <2>5. CASE Enrich \/ EnrichFails \/ EndEnrich \/ UpsertMeta \/ UpsertFails \/ StoreEtag
    BY <2>1, <2>5 DEF Enrich, EnrichFails, EndEnrich, UpsertMeta, UpsertFails, StoreEtag, Stage,
                      ListingInv
  <2>6. CASE HealOrphan \/ HealFails \/ EndHeal
    BY <2>1, <2>6 DEF HealOrphan, HealFails, EndHeal, Stage, ListingInv
  <2>7. CASE FindStale \/ DeleteStale
    BY <2>1, <2>7 DEF FindStale, Stale, DeleteStale, Stage, ListingInv
  <2> QED BY <1>3, <2>2, <2>3, <2>4, <2>5, <2>6, <2>7 DEF PassStep
<1>4. CASE Erasure \/ Cleanup \/ Age
  <2>1. CASE Age
    BY <2>1 DEF Age, ListingInv
  <2>2. CASE UNCHANGED fresh
    BY <1>4, <2>2, OutsideFrame DEF ListingInv
  <2> QED BY <1>4, <2>1, <2>2, OutsideFrame
<1>5. CASE UNCHANGED vars
  BY <1>5 DEF ListingInv
<1> QED BY <1>1, <1>2, <1>3, <1>4, <1>5, StepIs

-----------------------------------------------------------------------------
RegistryInv == TypeOK /\ CallInv /\ BeforeInv

LEMMA InitRegistryInv == Init => RegistryInv /\ ListingInv
<1> SUFFICES ASSUME Init PROVE RegistryInv /\ ListingInv
  OBVIOUS
<1>1. CallTypeOK
  BY CallersAre DEF Init, CallTypeOK, Places
<1>2. TypeOK
  <2>1. rank \in [Writers -> 0 .. MaxRank] /\ faults \in 0 .. MaxFaults
    BY RegistryAssumption DEF Init
  <2>2. /\ artifact \in BOOLEAN /\ fresh \in BOOLEAN /\ orphan \in BOOLEAN /\ moved \in BOOLEAN
        /\ sidecar = None /\ row = None /\ retry = None /\ etag = None /\ seen = None
        /\ meta = None /\ erase = "idle" /\ cron = "idle"
    BY DEF Init
  <2> QED BY <1>1, <2>1, <2>2, CallersAre DEF TypeOK, CallTypeOK, Stages
<1>3. CallInv /\ BeforeInv /\ ListingInv
  BY CallersAre DEF Init, CallInv, BeforeInv, ListingInv
<1> QED BY <1>2, <1>3 DEF RegistryInv

LEMMA RegistryInvHolds == Spec => []RegistryInv
<1>1. RegistryInv /\ [Next]_vars => RegistryInv'
  BY StepTyped, CallInvStep, BeforeInvStep DEF RegistryInv
<1> QED BY <1>1, InitRegistryInv, PTL DEF Spec

\* Every variable keeps to its type: no call of the cron parks a verdict, and what it
\* upserts has been loaded.
THEOREM TypeCorrect == Spec => []TypeOK
<1>1. RegistryInv => TypeOK
  BY DEF RegistryInv
<1> QED BY <1>1, RegistryInvHolds, PTL

\* No step but the stale deletion and the erasure takes a row away.
LEMMA RowGoes ==
  ASSUME TypeOK, CallInv, [Next]_vars, row # None, row' = None
  PROVE  cron = "delete" \/ erase = "row"
<1>1. CASE \E w \in Writers : IngestStep \/ (w \in Sweeps /\ SweepDoc(w)) \/ Dies(w)
  BY <1>1, WriterFrame
<1>2. CASE \E c \in Callers : MirrorStep(c) \/ MirrorFault(c)
  BY <1>2, MirrorFrame
<1>3. CASE PassStep
  <2>1. CASE UpsertMeta
    <3>1. meta \in Sidecars
      BY <2>1 DEF UpsertMeta, Stage, CallInv, TypeOK
    <3>2. meta.verdict \in Verdicts /\ meta.fat \in BOOLEAN
      BY <3>1 DEF Sidecars
    <3> QED BY <2>1, <3>2, UpsertTyped DEF UpsertMeta
  <2>2. CASE DeleteStale
    BY <2>2 DEF DeleteStale, Stage
  <2>3. UpsertMeta \/ DeleteStale \/ row' = row
    BY <1>3 DEF PassStep, BeginPass, DrainFails, EndDrain, ListMinio, ReadGeneration,
                CompareEtag, LoadMeta, LoadFails, Enrich, EnrichFails, EndEnrich, UpsertFails,
                StoreEtag, HealOrphan, HealFails, EndHeal, FindStale, PruneEtag, CutOff
  <2> QED BY <2>1, <2>2, <2>3
<1>4. CASE Erasure \/ Cleanup \/ Age
  BY <1>4, OutsideFrame
<1>5. CASE UNCHANGED vars
  BY <1>5
<1> QED BY <1>1, <1>2, <1>3, <1>4, <1>5, StepIs

\* While nobody erases the document, no step deletes the row of an artifact that is in the
\* bucket, as long as processed_at is stamped close to the save (the age guard of
\* cleanup.py counts on it): whatever the listing missed is younger than the grace period.
THEOREM LiveRowSpared == ~SlowTables => (Spec => LiveRowKept)
<1> SUFFICES ASSUME ~SlowTables PROVE Spec => LiveRowKept
  OBVIOUS
<1>1. RegistryInv /\ ListingInv /\ [Next]_vars => ListingInv'
  BY ListingInvStep DEF RegistryInv
<1>2. /\ RegistryInv /\ ListingInv /\ [Next]_vars
      => [(row # None /\ row' = None /\ erase = "idle") => ~artifact]_vars
  <2> SUFFICES ASSUME RegistryInv, ListingInv, [Next]_vars, row # None, row' = None,
                      erase = "idle", artifact
               PROVE  FALSE
    OBVIOUS
  <2>1. cron = "delete"
    BY RowGoes DEF RegistryInv
  <2> QED BY <2>1 DEF ListingInv
<1> QED BY <1>1, <1>2, InitRegistryInv, RegistryInvHolds, PTL DEF Spec, LiveRowKept

-----------------------------------------------------------------------------
(* The etags.                                                              *)

Live == artifact /\ erase = "idle"
Over(w) == at[w] \in {"back", "failed"}
InCall(c) == at[c] \in {"upsert", "filter", "read", "keep", "put", "park"}

\* The row holds a verdict as high as this one.
Holds(v) == row # None /\ Priority(row.verdict) >= Priority(v)

\* The cron is in a call only where its pass waits for one, and no sweep lacks its pool.
QuietInv ==
  /\ \A s \in Sweeps : pooled[s]
  /\ cron \notin {"drain", "enriching", "healing"} => at[Cron] = "idle"
  /\ at[Ingest] = "idle" => etag = None

\* Until its ingest is over there is no verdict of the document but that of the ingest.
OfIngest(v) == v \in {Ingest, None}
AloneInv ==
  ~Over(Ingest) =>
    /\ \A s \in Sweeps : at[s] = "idle"
    /\ row # None => OfIngest(row.verdict)
    /\ sidecar # None => OfIngest(sidecar.verdict)
    /\ OfIngest(retry)
    /\ cron \in {"enrich", "enriching", "upsert"} => OfIngest(meta.verdict)
    /\ OfIngest(carry[Cron])
    /\ at[Cron] = "put" => OfIngest(draft[Cron].verdict)
    /\ InCall(Ingest) => carry[Ingest] = Ingest
    /\ at[Ingest] # "keep"
    /\ at[Ingest] = "put" => draft[Ingest].verdict = Ingest

\* What a call carries to the sidecar, and what the sidecar says, is in the row, but for
\* the verdict of the ingest: its child and a call without a pool write that one first.
Backed(c) ==
  /\ at[c] \in {"filter", "read", "keep"} => IF pooled[c] THEN Holds(carry[c]) ELSE c = Ingest
  /\ at[c] = "put" => /\ draft[c] # None
                      /\ draft[c].verdict = Ingest \/ Holds(draft[c].verdict)
BackedInv ==
  /\ \A c \in Callers : Backed(c)
  /\ sidecar # None => sidecar.verdict = Ingest \/ Holds(sidecar.verdict)

\* The verdict of the ingest is in the row, or it has left the sidecar for good.
Replaced ==
  /\ sidecar # None /\ sidecar.verdict # Ingest
  /\ \A w \in Writers : Over(w)
  /\ at[Cron] = "put" => draft[Cron].verdict # Ingest
Settled == Holds(Ingest) \/ Replaced
StillThere == sidecar # None /\ sidecar.verdict = Ingest

\* A pass that stores an etag of the ingest's verdict has seen to that.
PassingInv ==
  /\ etag # None /\ etag.verdict = Ingest => Settled
  /\ seen # None /\ seen.verdict = Ingest =>
       /\ cron \in {"generation", "stored", "load", "enrich"} => Settled \/ StillThere
       /\ cron \in {"enrich", "enriching", "upsert"} => Settled \/ meta.verdict = Ingest
       /\ cron = "store" => Settled

EtagInv == QuietInv /\ AloneInv /\ (Live => BackedInv /\ PassingInv)

-----------------------------------------------------------------------------
(* Verdicts and rows.                                                      *)

LEMMA PriorityIs ==
  ASSUME TypeOK, NEW v \in Verdicts
  PROVE  Priority(v) \in Int /\ Priority(v) >= -1 /\ Priority(None) = -1
<1>1. v # None => v \in Writers
  BY DEF Verdicts
<1>2. v # None => rank[v] \in 0 .. MaxRank
  BY <1>1 DEF TypeOK
<1>3. v # None => rank[v] \in Int /\ rank[v] >= -1
  BY <1>2, RegistryAssumption
<1> QED BY <1>3 DEF Priority

LEMMA RowIs == TypeOK /\ row # None => row.verdict \in Verdicts
  BY DEF TypeOK, Rows

LEMMA SidecarIs ==
  ASSUME NEW file \in Sidecars PROVE file # None /\ file.verdict \in Verdicts /\ file.fat \in BOOLEAN
  BY CallersAre DEF Sidecars

LEMMA UpsertGrows ==
  ASSUME TypeOK, NEW v \in Verdicts, NEW d \in BOOLEAN, Upsert(v, d)
  PROVE  /\ row' # None /\ row'.verdict \in Verdicts
         /\ Priority(row'.verdict) >= Priority(v)
         /\ row # None => Priority(row'.verdict) >= Priority(row.verdict)
         /\ row'.verdict = v \/ (row # None /\ row'.verdict = row.verdict)
<1>1. row' # None /\ row'.verdict \in Verdicts
  BY UpsertTyped DEF Rows
<1>2. row'.verdict = WinningVerdict(v)
  BY DEF Upsert
<1>3. Priority(v) \in Int /\ Priority(v) >= -1 /\ Priority(None) = -1
  BY PriorityIs
<1>4. row # None => Priority(row.verdict) \in Int /\ Priority(row.verdict) >= -1
  BY RowIs, PriorityIs
<1>5. CASE row = None
  BY <1>1, <1>2, <1>3, <1>5 DEF WinningVerdict
<1>6. CASE row # None /\ v # None /\ Priority(v) >= Priority(row.verdict)
  BY <1>1, <1>2, <1>3, <1>4, <1>6 DEF WinningVerdict
<1>7. CASE row # None /\ ~(v # None /\ Priority(v) >= Priority(row.verdict))
  <2>1. row'.verdict = row.verdict
    BY <1>2, <1>7 DEF WinningVerdict
  <2>2. Priority(row.verdict) >= Priority(v)
    BY <1>3, <1>4, <1>7
  <2> QED BY <1>1, <1>4, <1>7, <2>1, <2>2
<1> QED BY <1>5, <1>6, <1>7

\* What a step of a call does to the call and to the stores.
LEMMA MirrorMoves ==
  ASSUME TypeOK, NEW c \in Callers, MirrorStep(c) \/ MirrorFault(c)
  PROVE  /\ \A o \in Callers : o # c => carry'[o] = carry[o] /\ draft'[o] = draft[o]
         /\ pooled'[c] = pooled[c] \/ pooled'[c] = TRUE
         /\ \/ /\ at[c] = "upsert" /\ at'[c] \in {"failed", "park"}
               /\ row' = row \/ Upsert(carry[c], dated[c])
               /\ carry'[c] \in {carry[c], None} /\ (c # Cron => carry'[c] = carry[c])
               /\ UNCHANGED <<sidecar, retry>>
            \/ /\ at[c] = "upsert" /\ at'[c] = "filter"
               /\ Upsert(carry[c], dated[c])
               /\ carry'[c] = row'.verdict
               /\ UNCHANGED <<sidecar, retry>>
            \/ /\ at[c] = "filter"
               /\ \/ at'[c] = "read"
                  \/ at'[c] = "keep" /\ artifact /\ Priority(carry[c]) < Priority(VerdictOf(sidecar))
               /\ carry'[c] = carry[c] /\ pooled'[c] = pooled[c]
               /\ UNCHANGED <<row, sidecar, retry>>
            \/ /\ at[c] \in {"read", "keep"} /\ at'[c] = "put"
               /\ \E old \in {sidecar, None} : draft'[c] = Merged(c, old)
               /\ carry'[c] = carry[c]
               /\ UNCHANGED <<row, sidecar, retry>>
            \/ /\ at[c] = "put" /\ at'[c] \in {"back", "park"}
               /\ pooled[c] => at'[c] = "back"
               /\ sidecar' = draft[c] \/ sidecar' = sidecar
               /\ carry'[c] \in {carry[c], None} /\ (at'[c] = "park" => carry'[c] = carry[c])
               /\ UNCHANGED <<row, retry>>
            \/ /\ at[c] = "park" /\ at'[c] = "failed"
               /\ retry' = c \/ retry' = retry
               /\ carry'[c] = None
               /\ UNCHANGED <<row, sidecar>>
<1>t. /\ at \in [Callers -> Places] /\ pooled \in [Callers -> BOOLEAN]
      /\ carry \in [Callers -> Verdicts] /\ draft \in [Callers -> Sidecars \cup {None}]
  BY DEF TypeOK
<1>1. CASE MirrorRaises(c)
  BY <1>1, <1>t DEF MirrorRaises, Ends, Reaches
<1>2. CASE MirrorUpsert(c)
  BY <1>2, <1>t DEF MirrorUpsert, Reaches
<1>3. CASE Filter(c)
  BY <1>3, <1>t DEF Filter, Reaches
<1>4. CASE FilterBlind(c)
  BY <1>4, <1>t DEF FilterBlind, Reaches
<1>5. CASE Read(c) \/ ReadFails(c)
  <2>1. PICK old \in {sidecar, None} : ReadAs(c, old)
    BY <1>5 DEF Read, ReadFails
  <2>2. draft'[c] = Merged(c, old)
    BY <2>1, <1>t DEF ReadAs
  <2> QED BY <2>1, <2>2, <1>t DEF ReadAs, Reaches
<1>6. CASE Put(c)
  BY <1>6, <1>t DEF Put, Ends, Reaches
<1>7. CASE Park(c)
  BY <1>7, <1>t DEF Park, Ends, Reaches
<1> QED BY <1>1, <1>2, <1>3, <1>4, <1>5, <1>6, <1>7 DEF MirrorStep, MirrorFault

\* The verdict of what a call is about to put.
LEMMA MergedIs ==
  ASSUME TypeOK, NEW c \in Callers, NEW old \in {sidecar, None}
  PROVE  /\ Merged(c, old) # None
         /\ at[c] = "read" => Merged(c, old).verdict = carry[c]
         /\ at[c] = "keep" => Merged(c, old).verdict = VerdictOf(old)
<1>1. Merged(c, old) = [verdict |-> IF at[c] = "read" THEN carry[c] ELSE VerdictOf(old),
                        fat |-> old # None /\ old.fat]
  BY DEF Merged
<1>2. carry[c] \in Verdicts /\ VerdictOf(old) \in Verdicts
  BY VerdictOfTyped DEF TypeOK
<1>3. (old # None /\ old.fat) \in BOOLEAN
  OBVIOUS
<1>4. Merged(c, old) \in Sidecars
  BY <1>1, <1>2, <1>3 DEF Sidecars
<1> QED BY <1>1, <1>4, CallersAre

\* What a step of the pass does to the stores and to the cron's call.
LEMMA PassMoves ==
  ASSUME TypeOK, CallInv, PassStep
  PROVE  /\ \A o \in Callers : o # Cron => carry'[o] = carry[o] /\ draft'[o] = draft[o]
         /\ \/ row' = row
            \/ cron = "delete" /\ row' = None
            \/ /\ cron = "upsert" /\ meta \in Sidecars
               /\ Upsert(meta.verdict, meta.fat)
         /\ retry' = retry \/ retry' = None
         /\ \/ UNCHANGED callVars
            \/ /\ \/ cron = "idle" /\ cron' = "drain" /\ carry'[Cron] = retry
                  \/ cron = "enrich" /\ cron' = "enriching" /\ carry'[Cron] = meta'.verdict
                  \/ cron = "heal" /\ cron' = "healing" /\ carry'[Cron] = VerdictOf(sidecar)
               /\ at'[Cron] = "upsert"
            \/ at'[Cron] = "idle" /\ carry'[Cron] = None
         /\ cron' \notin {"drain", "enriching", "healing"} => at'[Cron] \in {"idle", at[Cron]}
         /\ cron' \in {"drain", "enriching", "healing"} => at'[Cron] = "upsert"
         /\ cron \in {"drain", "enriching", "healing"} => at'[Cron] = "idle"
<1>t. /\ at \in [Callers -> Places] /\ pooled \in [Callers -> BOOLEAN] /\ Cron \in Callers
      /\ carry \in [Callers -> Verdicts] /\ draft \in [Callers -> Sidecars \cup {None}]
  BY CallersAre DEF TypeOK
<1>1. CASE BeginPass
  BY <1>1, <1>t DEF BeginPass, CallWith, Reaches, Stage
<1>2. CASE Enrich
  BY <1>2, <1>t DEF Enrich, CallWith, Reaches, Stage
<1>3. CASE HealOrphan
  BY <1>3, <1>t DEF HealOrphan, CallWith, Reaches, Stage
<1>4. CASE EndDrain
  BY <1>4, <1>t DEF EndDrain, CallEnds, Ends, Reaches, Stage
<1>5. CASE EndEnrich \/ EndHeal
  BY <1>5, <1>t DEF EndEnrich, EndHeal, CallEnds, Ends, Reaches, Stage
<1>6. CASE CutOff
  BY <1>6, <1>t DEF CutOff, PassEnds, Ends, Reaches
<1>7. CASE UpsertMeta
  <2>1. meta \in Sidecars
    BY <1>7 DEF UpsertMeta, Stage, CallInv, TypeOK
  <2> QED BY <1>7, <2>1 DEF UpsertMeta, Stage
<1>8. CASE DeleteStale
  BY <1>8 DEF DeleteStale, Stage
<1>9. CASE PruneEtag
  BY <1>9 DEF PruneEtag, PassEnds
<1>10. CASE DrainFails \/ ListMinio \/ ReadGeneration \/ CompareEtag \/ LoadMeta \/ LoadFails
  BY <1>10 DEF DrainFails, ListMinio, ReadGeneration, CompareEtag, AfterUpserts, LoadMeta, LoadFails, Stage
<1>11. CASE EnrichFails \/ UpsertFails \/ StoreEtag \/ HealFails \/ FindStale
  BY <1>11 DEF EnrichFails, UpsertFails, StoreEtag, HealFails, FindStale, Stage
<1> QED BY <1>1, <1>2, <1>3, <1>4, <1>5, <1>6, <1>7, <1>8, <1>9, <1>10, <1>11 DEF PassStep

\* What it does to the etag and to what the pass has found.
LEMMA StageMoves ==
  ASSUME TypeOK, CallInv, PassStep
  PROVE  /\ \/ etag' \in {etag, None}
            \/ cron = "store" /\ etag' = seen
         /\ \/ seen' = seen
            \/ seen' = None
            \/ seen' = sidecar /\ cron' = "generation"
         /\ \/ cron' \notin {"generation", "stored", "load", "enrich", "enriching", "upsert", "store"}
            \/ cron' = "generation" /\ seen' = sidecar
            \/ cron' = "stored" /\ cron = "generation" /\ seen' = seen
            \/ cron' = "load" /\ cron = "stored" /\ seen' = seen
            \/ cron' \in {"enrich", "upsert"} /\ cron = "load" /\ seen' = seen
               /\ meta' = sidecar /\ sidecar # None
            \/ cron' = "enriching" /\ cron = "enrich" /\ seen' = seen /\ meta \in Sidecars
               /\ meta'.verdict = IF VerdictOf(sidecar) = None THEN meta.verdict ELSE sidecar.verdict
            \/ cron' = "upsert" /\ cron \in {"enrich", "enriching"} /\ seen' = seen /\ meta' = meta
            \/ cron' = "store" /\ cron = "upsert" /\ seen' = seen /\ meta \in Sidecars
               /\ Upsert(meta.verdict, meta.fat)
<1>1. CASE BeginPass \/ DrainFails \/ EndDrain
  BY <1>1 DEF BeginPass, DrainFails, EndDrain, Stage
<1>2. CASE ListMinio \/ ReadGeneration
  BY <1>2 DEF ListMinio, ReadGeneration, Stage
<1>3. CASE CompareEtag
  BY <1>3 DEF CompareEtag, AfterUpserts, Stage
<1>4. CASE LoadMeta \/ LoadFails
  BY <1>4 DEF LoadMeta, LoadFails, Stage
<1>5. CASE Enrich
  <2>1. meta \in Sidecars
    BY <1>5 DEF Enrich, Stage, CallInv, TypeOK
  <2>2. meta'.verdict = IF VerdictOf(sidecar) = None THEN meta.verdict ELSE sidecar.verdict
    BY <1>5, <2>1 DEF Enrich, Sidecars
  <2> QED BY <1>5, <2>1, <2>2 DEF Enrich, Stage
<1>6. CASE EnrichFails \/ EndEnrich
  BY <1>6 DEF EnrichFails, EndEnrich, Stage
<1>7. CASE UpsertMeta
  <2>1. meta \in Sidecars
    BY <1>7 DEF UpsertMeta, Stage, CallInv, TypeOK
  <2> QED BY <1>7, <2>1 DEF UpsertMeta, Stage
<1>8. CASE UpsertFails \/ StoreEtag
  BY <1>8 DEF UpsertFails, StoreEtag, Stage
<1>9. CASE HealOrphan \/ HealFails \/ EndHeal \/ FindStale \/ DeleteStale
  BY <1>9 DEF HealOrphan, HealFails, EndHeal, FindStale, DeleteStale, Stage
<1>10. CASE PruneEtag \/ CutOff
  BY <1>10 DEF PruneEtag, CutOff, PassEnds
<1> QED BY <1>1, <1>2, <1>3, <1>4, <1>5, <1>6, <1>7, <1>8, <1>9, <1>10 DEF PassStep

LEMMA RankStays == [Next]_vars => rank' = rank
<1> SUFFICES ASSUME [Next]_vars PROVE rank' = rank
  OBVIOUS
<1>1. CASE IngestStep \/ (\E s \in Sweeps : SweepDoc(s)) \/ (\E w \in Writers : Dies(w))
  BY <1>1 DEF IngestStep, SaveArtifact, SaveSidecar, MirrorIngest, SweepDoc, Dies
<1>2. CASE \E c \in Callers : MirrorStep(c) \/ MirrorFault(c)
  BY <1>2 DEF MirrorStep, MirrorFault, MirrorUpsert, Filter, Read, ReadAs, Put, Park,
              MirrorRaises, FilterBlind, ReadFails
<1>3. CASE PassStep
  BY <1>3 DEF PassStep, BeginPass, DrainFails, EndDrain, ListMinio, ReadGeneration, CompareEtag,
              LoadMeta, LoadFails, Enrich, EnrichFails, EndEnrich, UpsertMeta, UpsertFails,
              StoreEtag, HealOrphan, HealFails, EndHeal, FindStale, DeleteStale, PruneEtag, CutOff
<1>4. CASE Erasure \/ Cleanup \/ Age
  BY <1>4 DEF Erasure, EraseArtifact, EraseSidecar, EraseEtag, EraseGeneration, EraseRow,
              Cleanup, Age
<1>5. CASE UNCHANGED vars
  BY <1>5
<1> QED BY <1>1, <1>2, <1>3, <1>4, <1>5, CallersAre, CronStepIs DEF Next, WriterStep

\* What the step of a writer outside its call does.
LEMMA WriterMoves ==
  ASSUME TypeOK, NEW w \in Writers, IngestStep \/ (w \in Sweeps /\ SweepDoc(w)) \/ Dies(w)
  PROVE  /\ etag' = etag
         /\ \/ /\ SaveArtifact /\ artifact' /\ at[Ingest] = "idle" /\ at'[Ingest] = "saved"
               /\ sidecar' = sidecar
               /\ UNCHANGED <<pooled, carry, draft>>
               /\ \A o \in Callers : o # Ingest => at'[o] = at[o]
            \/ /\ at[Ingest] = "saved" /\ at'[Ingest] = "ready" /\ artifact' = artifact
               /\ sidecar' # None /\ sidecar'.verdict = Ingest
               /\ UNCHANGED <<pooled, carry, draft>>
               /\ \A o \in Callers : o # Ingest => at'[o] = at[o]
            \/ /\ at[Ingest] = "ready" /\ UNCHANGED <<artifact, sidecar, draft>>
               /\ carry'[Ingest] = Ingest
               /\ at'[Ingest] = "upsert" \/ (at'[Ingest] = "filter" /\ ~pooled'[Ingest])
               /\ \A o \in Callers : o # Ingest =>
                    at'[o] = at[o] /\ carry'[o] = carry[o] /\ pooled'[o] = pooled[o]
            \/ /\ w \in Sweeps /\ Over(Ingest) /\ at[w] = "idle" /\ at'[w] = "upsert"
               /\ UNCHANGED <<artifact, sidecar, draft, pooled>>
               /\ \A o \in Callers : o # w => at'[o] = at[o] /\ carry'[o] = carry[o]
            \/ /\ ~Over(w) /\ at[w] # "idle" /\ at'[w] = "failed" /\ UNCHANGED <<artifact, sidecar>>
               /\ pooled'[w]
               /\ \A o \in Callers : o # w =>
                    at'[o] = at[o] /\ carry'[o] = carry[o] /\ pooled'[o] = pooled[o]
                    /\ draft'[o] = draft[o]
<1>t. /\ at \in [Callers -> Places] /\ pooled \in [Callers -> BOOLEAN]
      /\ carry \in [Callers -> Verdicts] /\ draft \in [Callers -> Sidecars \cup {None}]
      /\ Ingest \in Callers /\ w \in Callers
  BY CallersAre DEF TypeOK
<1>1. CASE SaveArtifact
  BY <1>1, <1>t DEF SaveArtifact, Reaches
<1>2. CASE SaveSidecar
  <2>1. sidecar' \in Sidecars /\ sidecar'.verdict = Ingest
    BY <1>2, CallersAre DEF SaveSidecar, Sidecars
  <2> QED BY <1>2, <1>t, <2>1, CallersAre DEF SaveSidecar, Reaches
<1>3. CASE MirrorIngest
  <2>1. PICK open \in BOOLEAN :
          /\ pooled' = [pooled EXCEPT ![Ingest] = open]
          /\ Reaches(Ingest, IF open THEN "upsert" ELSE "filter")
    BY <1>3 DEF MirrorIngest
  <2>2. at'[Ingest] = "upsert" \/ (at'[Ingest] = "filter" /\ ~pooled'[Ingest])
    BY <2>1, <1>t DEF Reaches
  <2>3. \A o \in Callers : o # Ingest => at'[o] = at[o] /\ pooled'[o] = pooled[o]
    BY <2>1, <1>t DEF Reaches
  <2> QED BY <1>3, <1>t, <2>2, <2>3 DEF MirrorIngest
<1>4. CASE w \in Sweeps /\ SweepDoc(w)
  BY <1>4, <1>t DEF SweepDoc, Reaches, Over
<1>5. CASE Dies(w)
  BY <1>5, <1>t DEF Dies, Ends, Reaches, Over
<1> QED BY <1>1, <1>2, <1>3, <1>4, <1>5 DEF IngestStep

\* The conditions under which the row of a document in the bucket stays.
Keeping == RegistryInv /\ ListingInv /\ Live /\ Live' /\ [Next]_vars

LEMMA RowMoves ==
  ASSUME TypeOK, CallInv, [Next]_vars
  PROVE  row' = row \/ row' = None \/ \E v \in Verdicts, d \in BOOLEAN : Upsert(v, d)
<1>1. CASE \E w \in Writers : IngestStep \/ (w \in Sweeps /\ SweepDoc(w)) \/ Dies(w)
  BY <1>1, WriterFrame
<1>2. ASSUME NEW c \in Callers, MirrorStep(c) \/ MirrorFault(c)
      PROVE  row' = row \/ \E v \in Verdicts, d \in BOOLEAN : Upsert(v, d)
  <2>1. carry[c] \in Verdicts /\ dated[c] \in BOOLEAN
    BY DEF TypeOK
  <2>2. row' = row \/ Upsert(carry[c], dated[c])
    BY <1>2, MirrorMoves
  <2> QED BY <2>1, <2>2
<1>3. CASE PassStep
  <2>1. row' = row \/ row' = None \/ (meta \in Sidecars /\ Upsert(meta.verdict, meta.fat))
    BY <1>3, PassMoves
  <2>2. meta \in Sidecars => meta.verdict \in Verdicts /\ meta.fat \in BOOLEAN
    BY DEF Sidecars
  <2> QED BY <2>1, <2>2
<1>4. CASE Erasure \/ Cleanup \/ Age
  BY <1>4 DEF Erasure, EraseArtifact, EraseSidecar, EraseEtag, EraseGeneration, EraseRow,
              Cleanup, Age
<1>5. CASE UNCHANGED vars
  BY <1>5
<1> QED BY <1>1, <1>2, <1>3, <1>4, <1>5, StepIs

\* The row that a step leaves holds this verdict; no step changes a priority.
HoldsNext(v) == row' # None /\ Priority(row'.verdict) >= Priority(v)

\* What the row holds it goes on holding.
LEMMA HoldsOn ==
  ASSUME Keeping, NEW v \in Verdicts, Holds(v)
  PROVE  HoldsNext(v)
<1>1. row # None /\ row.verdict \in Verdicts /\ Priority(row.verdict) >= Priority(v)
  BY RowIs DEF Keeping, RegistryInv, Holds
<1>2. row' # None
  <2>1. row' = None => cron = "delete" \/ erase = "row"
    BY <1>1, RowGoes DEF Keeping, RegistryInv
  <2> QED BY <2>1 DEF Keeping, ListingInv, Live
<1>3. Priority(row'.verdict) >= Priority(row.verdict) /\ row'.verdict \in Verdicts
  <2>1. CASE row' = row
    <3>1. Priority(row.verdict) \in Int
      BY <1>1, PriorityIs DEF Keeping, RegistryInv
    <3> QED BY <1>1, <2>1, <3>1
  <2>2. ASSUME NEW u \in Verdicts, NEW d \in BOOLEAN, Upsert(u, d)
        PROVE  Priority(row'.verdict) >= Priority(row.verdict) /\ row'.verdict \in Verdicts
    BY <1>1, <2>2, UpsertGrows DEF Keeping, RegistryInv
  <2> QED BY <1>2, <2>1, <2>2, RowMoves DEF Keeping, RegistryInv
<1>4. /\ Priority(v) \in Int /\ Priority(row.verdict) \in Int /\ Priority(row'.verdict) \in Int
  BY <1>1, <1>3, PriorityIs DEF Keeping, RegistryInv
<1> QED BY <1>1, <1>2, <1>3, <1>4 DEF HoldsNext

\* A verdict that is upserted is held, and the one in the row is.
LEMMA UpsertHolds ==
  ASSUME TypeOK, NEW v \in Verdicts, NEW d \in BOOLEAN, Upsert(v, d)
  PROVE  HoldsNext(v) /\ HoldsNext(row'.verdict)
<1>1. /\ row' # None /\ row'.verdict \in Verdicts /\ Priority(row'.verdict) >= Priority(v)
  BY UpsertGrows
<1>2. Priority(row'.verdict) \in Int
  BY <1>1, PriorityIs
<1> QED BY <1>1, <1>2 DEF HoldsNext

LEMMA HoldsNone ==
  ASSUME TypeOK, row # None
  PROVE  Holds(None)
<1>1. row.verdict \in Verdicts
  BY RowIs
<1>2. Priority(row.verdict) >= -1 /\ Priority(None) = -1
  BY <1>1, PriorityIs
<1> QED BY <1>2 DEF Holds

\* A document is in the bucket because it was, or because it has just been saved.
LEMMA LiveBefore ==
  ASSUME TypeOK, [Next]_vars, Live'
  PROVE  Live \/ (SaveArtifact /\ at[Ingest] = "idle")
<1>1. CASE \E w \in Writers : IngestStep \/ (w \in Sweeps /\ SweepDoc(w)) \/ Dies(w)
  <2>1. PICK w \in Writers : IngestStep \/ (w \in Sweeps /\ SweepDoc(w)) \/ Dies(w)
    BY <1>1
  <2>2. erase' = erase /\ (SaveArtifact \/ artifact' = artifact)
    BY <2>1, WriterFrame
  <2> QED BY <2>2 DEF Live, SaveArtifact
<1>2. CASE \E c \in Callers : MirrorStep(c) \/ MirrorFault(c)
  BY <1>2, MirrorFrame DEF Live
<1>3. CASE PassStep
  BY <1>3, PassFrame DEF Live
<1>4. CASE Erasure \/ Cleanup \/ Age
  BY <1>4 DEF Live, Erasure, EraseArtifact, EraseSidecar, EraseEtag, EraseGeneration, EraseRow,
              Cleanup, Age
<1>5. CASE UNCHANGED vars
  BY <1>5 DEF Live
<1> QED BY <1>1, <1>2, <1>3, <1>4, <1>5, StepIs

\* The world outside leaves the sidecar and the etag of a document in the bucket alone.
LEMMA OutsideMoves ==
  ASSUME Erasure \/ Cleanup \/ Age
  PROVE  /\ row' \in {row, None} /\ sidecar' \in {sidecar, None} /\ etag' \in {etag, None}
         /\ UNCHANGED <<retry, callVars, cron, seen, orphan, meta>>
         /\ Live' => Live /\ UNCHANGED <<row, sidecar, etag>>
  BY DEF Live, Erasure, EraseArtifact, EraseSidecar, EraseEtag, EraseGeneration, EraseRow,
         Cleanup, Age

-----------------------------------------------------------------------------
(* The invariant of the etags is inductive.                                *)

LEMMA QuietStep ==
  ASSUME RegistryInv, QuietInv, [Next]_vars
  PROVE  QuietInv'
<1> USE DEF RegistryInv
<1>t. Sweeps \subseteq Callers /\ Cron \notin Sweeps /\ Ingest \in Callers /\ Cron \in Callers
  BY CallersAre
<1>1. CASE \E w \in Writers : IngestStep \/ (w \in Sweeps /\ SweepDoc(w)) \/ Dies(w)
  <2>1. PICK w \in Writers : IngestStep \/ (w \in Sweeps /\ SweepDoc(w)) \/ Dies(w)
    BY <1>1
  <2>2. /\ UNCHANGED <<cron, etag>> /\ at'[Cron] = at[Cron]
        /\ at'[Ingest] = "idle" => at[Ingest] = "idle"
    BY <2>1, WriterFrame, WriterMoves
  <2>3. \A s \in Sweeps : pooled'[s]
    <3>1. Ingest \notin Sweeps
      BY RegistryAssumption
    <3>2. \A s \in Sweeps : pooled'[s] = pooled[s] \/ pooled'[s]
      BY <1>t, <2>1, <3>1, WriterMoves
    <3> QED BY <3>2 DEF QuietInv
  <2> QED BY <2>2, <2>3 DEF QuietInv
<1>2. CASE \E c \in Callers : MirrorStep(c) \/ MirrorFault(c)
  <2>1. PICK c \in Callers : MirrorStep(c) \/ MirrorFault(c)
    BY <1>2
  <2>2. /\ UNCHANGED <<cron, etag>>
        /\ at[c] # "idle" /\ at'[c] # "idle"
        /\ \A o \in Callers : o # c => at'[o] = at[o] /\ pooled'[o] = pooled[o]
    BY <2>1, MirrorFrame
  <2>3. pooled'[c] = pooled[c] \/ pooled'[c] = TRUE
    BY <2>1, MirrorMoves
  <2>4. \A s \in Sweeps : pooled'[s]
    BY <1>t, <2>2, <2>3 DEF QuietInv
  <2> QED BY <1>t, <2>2, <2>4 DEF QuietInv
<1>3. CASE PassStep
  <2>1. \A s \in Sweeps : pooled'[s]
    BY <1>t, <1>3, PassFrame DEF QuietInv
  <2>2. cron' \notin {"drain", "enriching", "healing"} => at'[Cron] = "idle"
    BY <1>3, PassMoves DEF QuietInv
  <2>3. at'[Ingest] = "idle" => etag' = None
    <3>1. SUFFICES ASSUME at'[Ingest] = "idle" PROVE etag' = None
      OBVIOUS
    <3>2. at[Ingest] = "idle"
      BY <1>t, <1>3, <3>1, PassFrame, CallersAre
    <3>3. etag = None /\ cron # "store"
      BY <3>2 DEF QuietInv, BeforeInv
    <3> QED BY <1>3, <3>3, StageMoves
  <2> QED BY <2>1, <2>2, <2>3 DEF QuietInv
<1>4. CASE Erasure \/ Cleanup \/ Age
  BY <1>4, OutsideMoves DEF QuietInv
<1>5. CASE UNCHANGED vars
  BY <1>5 DEF QuietInv
<1> QED BY <1>1, <1>2, <1>3, <1>4, <1>5, StepIs

\* As long as the ingest is not over its own verdict wins in the row.
LEMMA OwnVerdictWins ==
  ASSUME TypeOK, NEW d \in BOOLEAN, Upsert(Ingest, d), row # None => OfIngest(row.verdict)
  PROVE  row' # None /\ row'.verdict = Ingest
<1>1. /\ row' # None
      /\ Priority(row'.verdict) >= Priority(Ingest)
      /\ row'.verdict = Ingest \/ (row # None /\ row'.verdict = row.verdict)
  BY UpsertGrows, CallersAre
<1>2. Priority(Ingest) \in Nat
  <2>1. rank[Ingest] \in 0 .. MaxRank
    BY CallersAre DEF TypeOK
  <2> QED BY <2>1, CallersAre, RegistryAssumption DEF Priority
<1>3. Priority(None) = -1
  BY DEF Priority
<1> QED BY <1>1, <1>2, <1>3 DEF OfIngest

LEMMA AloneWriter ==
  ASSUME RegistryInv, AloneInv, ~Over(Ingest)', NEW w \in Writers,
         IngestStep \/ (w \in Sweeps /\ SweepDoc(w)) \/ Dies(w)
  PROVE  AloneInv'
<1>t. Sweeps \subseteq Callers /\ Ingest \in Callers /\ Ingest \notin Sweeps /\ w \in Callers
      /\ Cron \in Callers /\ Cron # Ingest /\ Cron \notin Sweeps /\ Cron # w
  BY CallersAre, RegistryAssumption
<1>w. w = Ingest \/ w \in Sweeps
  BY DEF Writers
<1>f. UNCHANGED <<row, retry, cronVars, erase>> /\ at'[Cron] = at[Cron]
  BY WriterFrame DEF RegistryInv
<1>a. ~Over(Ingest) => \A s \in Sweeps : at[s] = "idle"
  BY DEF AloneInv
<1>1. CASE SaveArtifact /\ at[Ingest] = "idle" /\ at'[Ingest] = "saved" /\ sidecar' = sidecar
           /\ UNCHANGED <<pooled, carry, draft>> /\ \A o \in Callers : o # Ingest => at'[o] = at[o]
  BY <1>1, <1>t, <1>f DEF AloneInv, Over, InCall, OfIngest
<1>2. CASE at[Ingest] = "saved" /\ at'[Ingest] = "ready" /\ sidecar' # None
           /\ sidecar'.verdict = Ingest
           /\ UNCHANGED <<pooled, carry, draft>> /\ \A o \in Callers : o # Ingest => at'[o] = at[o]
  BY <1>2, <1>t, <1>f DEF AloneInv, Over, InCall, OfIngest
<1>3. CASE /\ at[Ingest] = "ready" /\ UNCHANGED <<sidecar, draft>>
           /\ carry'[Ingest] = Ingest
           /\ at'[Ingest] \in {"upsert", "filter"}
           /\ \A o \in Callers : o # Ingest => at'[o] = at[o] /\ carry'[o] = carry[o]
  BY <1>3, <1>t, <1>f DEF AloneInv, Over, InCall, OfIngest
<1>4. CASE w \in Sweeps /\ Over(Ingest) /\ \A o \in Callers : o # w => at'[o] = at[o]
  BY <1>4, <1>t DEF Over
<1>5. CASE ~Over(w) /\ at[w] # "idle" /\ at'[w] = "failed"
           /\ \A o \in Callers : o # w => at'[o] = at[o]
  BY <1>5, <1>t, <1>w, <1>a DEF Over
<1> QED BY <1>1, <1>2, <1>3, <1>4, <1>5, WriterMoves DEF RegistryInv

LEMMA AloneMirror ==
  ASSUME RegistryInv, AloneInv, ~Over(Ingest)', NEW c \in Callers,
         MirrorStep(c) \/ MirrorFault(c)
  PROVE  AloneInv'
<1>t. Sweeps \subseteq Callers /\ Ingest \in Callers /\ Ingest \notin Sweeps
      /\ Cron \in Callers /\ Cron # Ingest /\ Cron \notin Sweeps
      /\ Callers = {Ingest, Cron} \cup Sweeps
  BY CallersAre, RegistryAssumption DEF Callers, Writers
<1>f. /\ UNCHANGED <<cronVars, erase>>
      /\ at[c] \notin {"idle", "saved", "ready", "back", "failed"}
      /\ \A o \in Callers : o # c => at'[o] = at[o] /\ carry'[o] = carry[o] /\ draft'[o] = draft[o]
  BY MirrorFrame, MirrorMoves DEF RegistryInv
<1>o. ~Over(Ingest)
  BY <1>t, <1>f DEF Over
<1>a. /\ \A s \in Sweeps : at[s] = "idle"
      /\ row # None => OfIngest(row.verdict)
      /\ sidecar # None => OfIngest(sidecar.verdict)
      /\ OfIngest(retry)
      /\ cron \in {"enrich", "enriching", "upsert"} => OfIngest(meta.verdict)
      /\ OfIngest(carry[Cron])
      /\ at[Cron] = "put" => OfIngest(draft[Cron].verdict)
      /\ InCall(Ingest) => carry[Ingest] = Ingest
      /\ at[Ingest] # "keep"
      /\ at[Ingest] = "put" => draft[Ingest].verdict = Ingest
  BY <1>o DEF AloneInv
<1>c. c \in {Ingest, Cron}
  BY <1>a, <1>f, <1>t
<1>g. carry[c] \in Verdicts /\ dated[c] \in BOOLEAN /\ OfIngest(carry[c])
      /\ (c = Ingest => carry[c] = Ingest /\ at'[c] \notin {"back", "failed"})
      /\ (c = Cron => at[c] # "park" /\ at'[c] # "park")
  <2>1. at[c] \in Places
    BY DEF RegistryInv, TypeOK
  <2>2. c = Ingest => InCall(c)
    BY <2>1, <1>f DEF Places, InCall
  <2>3. c = Cron => at[c] # "park" /\ at'[c] # "park"
    BY MirrorFrame DEF RegistryInv, CallInv
  <2>4. c = Ingest => at'[c] \notin {"back", "failed"}
    BY DEF Over
  <2> QED BY <1>a, <1>c, <2>2, <2>3, <2>4 DEF RegistryInv, TypeOK, OfIngest
<1>s. \A s \in Sweeps : at'[s] = "idle"
  BY <1>a, <1>c, <1>f, <1>t
<1>r. Upsert(carry[c], dated[c]) =>
        /\ row' # None /\ OfIngest(row'.verdict)
        /\ c = Ingest => row'.verdict = Ingest
  <2> SUFFICES ASSUME Upsert(carry[c], dated[c])
               PROVE  /\ row' # None /\ OfIngest(row'.verdict)
                      /\ c = Ingest => row'.verdict = Ingest
    OBVIOUS
  <2>1. row' # None /\ (row'.verdict = carry[c] \/ (row # None /\ row'.verdict = row.verdict))
    BY <1>g, UpsertGrows DEF RegistryInv
  <2>2. c = Ingest => row'.verdict = Ingest
    BY <1>a, <1>g, OwnVerdictWins DEF RegistryInv
  <2> QED BY <1>a, <1>g, <2>1, <2>2
<1>n. c = Ingest => ~(Priority(carry[c]) < Priority(VerdictOf(sidecar)))
  <2>1. rank[Ingest] \in 0 .. MaxRank
    BY CallersAre DEF RegistryInv, TypeOK
  <2>2. Priority(Ingest) \in Int /\ Priority(Ingest) >= -1
    BY <2>1, CallersAre, RegistryAssumption DEF Priority
  <2>3. Priority(None) = -1
    BY DEF Priority
  <2>4. VerdictOf(sidecar) \in {Ingest, None}
    BY <1>a DEF VerdictOf, OfIngest
  <2> QED BY <1>g, <2>2, <2>3, <2>4
<1> SUFFICES /\ row' # None => OfIngest(row'.verdict)
             /\ sidecar' # None => OfIngest(sidecar'.verdict)
             /\ OfIngest(retry')
             /\ c = Cron => OfIngest(carry'[c])
             /\ c = Cron /\ at'[c] = "put" => OfIngest(draft'[c].verdict)
             /\ c = Ingest => carry'[c] = Ingest /\ at'[c] # "keep"
             /\ c = Ingest /\ at'[c] = "put" => draft'[c].verdict = Ingest
  <2>1. InCall(Ingest)' /\ c # Ingest => InCall(Ingest)
    BY <1>f, <1>t DEF InCall
  <2> QED BY <1>s, <1>a, <1>c, <1>f, <1>t, <2>1 DEF AloneInv
<1> USE DEF RegistryInv
<1>1. CASE /\ at[c] = "upsert" /\ at'[c] \in {"failed", "park"}
           /\ row' = row \/ Upsert(carry[c], dated[c])
           /\ carry'[c] \in {carry[c], None} /\ (c # Cron => carry'[c] = carry[c])
           /\ UNCHANGED <<sidecar, retry>>
  <2>1. row' # None => OfIngest(row'.verdict)
    BY <1>1, <1>a, <1>r
  <2> QED BY <1>1, <1>a, <1>g, <1>t, <2>1 DEF OfIngest
<1>2. CASE /\ at[c] = "upsert" /\ at'[c] = "filter"
           /\ Upsert(carry[c], dated[c])
           /\ carry'[c] = row'.verdict
           /\ UNCHANGED <<sidecar, retry>>
  BY <1>2, <1>a, <1>r
<1>3. CASE /\ at[c] = "filter"
           /\ \/ at'[c] = "read"
              \/ at'[c] = "keep" /\ artifact /\ Priority(carry[c]) < Priority(VerdictOf(sidecar))
           /\ carry'[c] = carry[c]
           /\ UNCHANGED <<row, sidecar, retry>>
  BY <1>3, <1>a, <1>g, <1>n
<1>4. CASE /\ at[c] \in {"read", "keep"} /\ at'[c] = "put"
           /\ \E old \in {sidecar, None} : draft'[c] = Merged(c, old)
           /\ carry'[c] = carry[c]
           /\ UNCHANGED <<row, sidecar, retry>>
  <2>1. PICK old \in {sidecar, None} : draft'[c] = Merged(c, old)
    BY <1>4
  <2>2. /\ at[c] = "read" => draft'[c].verdict = carry[c]
        /\ at[c] = "keep" => draft'[c].verdict = VerdictOf(old)
    BY <2>1, MergedIs
  <2>3. OfIngest(VerdictOf(old))
    BY <1>a DEF VerdictOf, OfIngest
  <2> QED BY <1>4, <1>a, <1>c, <1>g, <1>t, <2>2, <2>3
<1>5. CASE /\ at[c] = "put" /\ at'[c] \in {"back", "park"}
           /\ sidecar' = draft[c] \/ sidecar' = sidecar
           /\ carry'[c] \in {carry[c], None} /\ (at'[c] = "park" => carry'[c] = carry[c])
           /\ UNCHANGED <<row, retry>>
  <2>1. OfIngest(draft[c].verdict)
    BY <1>5, <1>a, <1>c DEF OfIngest
  <2> QED BY <1>5, <1>a, <1>c, <1>g, <1>t, <2>1 DEF OfIngest
<1>6. CASE at[c] = "park" /\ at'[c] = "failed"
  BY <1>6, <1>c, <1>g
<1> QED BY <1>1, <1>2, <1>3, <1>4, <1>5, <1>6, MirrorMoves

LEMMA AlonePass ==
  ASSUME RegistryInv, AloneInv, ~Over(Ingest)', PassStep
  PROVE  AloneInv'
<1>t. Sweeps \subseteq Callers /\ Ingest \in Callers /\ Cron \in Callers /\ Cron # Ingest
      /\ Cron \notin Sweeps
  BY CallersAre
<1>f. /\ sidecar' = sidecar
      /\ \A o \in Callers : o # Cron => at'[o] = at[o] /\ carry'[o] = carry[o] /\ draft'[o] = draft[o]
  BY PassFrame, PassMoves DEF RegistryInv
<1>o. ~Over(Ingest)
  BY <1>t, <1>f DEF Over
<1>a. /\ \A s \in Sweeps : at[s] = "idle"
      /\ row # None => OfIngest(row.verdict)
      /\ sidecar # None => OfIngest(sidecar.verdict)
      /\ OfIngest(retry)
      /\ cron \in {"enrich", "enriching", "upsert"} => OfIngest(meta.verdict)
      /\ OfIngest(carry[Cron])
      /\ at[Cron] = "put" => OfIngest(draft[Cron].verdict)
  BY <1>o DEF AloneInv
<1>n. OfIngest(None) /\ OfIngest(VerdictOf(sidecar))
  BY <1>a DEF OfIngest, VerdictOf
<1>1. row' # None => OfIngest(row'.verdict)
  <2>1. CASE cron = "upsert" /\ meta \in Sidecars /\ Upsert(meta.verdict, meta.fat)
    <3>1. meta.verdict \in Verdicts /\ meta.fat \in BOOLEAN
      BY <2>1 DEF Sidecars
    <3>2. row'.verdict = meta.verdict \/ (row # None /\ row'.verdict = row.verdict)
      BY <2>1, <3>1, UpsertGrows DEF RegistryInv
    <3> QED BY <1>a, <2>1, <3>2
  <2> QED BY <1>a, <2>1, PassMoves DEF RegistryInv
<1>2. OfIngest(retry')
  BY <1>a, <1>n, PassMoves DEF RegistryInv
<1>3. cron' \in {"enrich", "enriching", "upsert"} => OfIngest(meta'.verdict)
  <2>1. VerdictOf(sidecar) # None => sidecar # None
    BY DEF VerdictOf
  <2> QED BY <1>a, <2>1, StageMoves DEF RegistryInv
<1>4. OfIngest(carry'[Cron]) /\ (at'[Cron] = "put" => OfIngest(draft'[Cron].verdict))
  BY <1>a, <1>n, <1>3, PassMoves DEF RegistryInv
<1> QED BY <1>a, <1>f, <1>o, <1>t, <1>1, <1>2, <1>3, <1>4 DEF AloneInv, InCall

LEMMA AloneStep ==
  ASSUME RegistryInv, AloneInv, [Next]_vars
  PROVE  AloneInv'
<1> SUFFICES ASSUME ~Over(Ingest)' PROVE AloneInv'
  BY DEF AloneInv
<1>1. CASE \E w \in Writers : IngestStep \/ (w \in Sweeps /\ SweepDoc(w)) \/ Dies(w)
  BY <1>1, AloneWriter
<1>2. CASE \E c \in Callers : MirrorStep(c) \/ MirrorFault(c)
  BY <1>2, AloneMirror
<1>3. CASE PassStep
  BY <1>3, AlonePass
<1>4. CASE Erasure \/ Cleanup \/ Age
  <2>1. row' \in {row, None} /\ sidecar' \in {sidecar, None}
        /\ UNCHANGED <<retry, callVars, cron, seen, orphan, meta>>
    BY <1>4, OutsideMoves
  <2> QED BY <2>1 DEF AloneInv, Over, InCall, OfIngest
<1>5. CASE UNCHANGED vars
  BY <1>5 DEF AloneInv, Over, InCall, OfIngest
<1> QED BY <1>1, <1>2, <1>3, <1>4, <1>5, StepIs

\* What a step has to establish, said without a prime on what the row holds.
NextBacked(c) ==
  /\ at'[c] \in {"filter", "read", "keep"} =>
       IF pooled'[c] THEN HoldsNext(carry'[c]) ELSE c = Ingest
  /\ at'[c] = "put" => /\ draft'[c] # None
                       /\ draft'[c].verdict = Ingest \/ HoldsNext(draft'[c].verdict)

NextFileBacked == sidecar' # None => sidecar'.verdict = Ingest \/ HoldsNext(sidecar'.verdict)

LEMMA NextBackedInv ==
  ASSUME [Next]_vars, \A c \in Callers : NextBacked(c), NextFileBacked
  PROVE  BackedInv'
<1>1. rank' = rank
  BY RankStays
<1>2. ASSUME NEW c \in Callers PROVE Backed(c)'
  <2>1. NextBacked(c)
    OBVIOUS
  <2> QED BY <1>1, <2>1 DEF NextBacked, Backed, HoldsNext, Holds, Priority
<1>3. (sidecar # None => sidecar.verdict = Ingest \/ Holds(sidecar.verdict))'
  BY <1>1 DEF NextFileBacked, HoldsNext, Holds, Priority
<1> QED BY <1>2, <1>3 DEF BackedInv

LEMMA NextHolds == ASSUME [Next]_vars, HoldsNext(Ingest) PROVE Holds(Ingest)'
  BY RankStays DEF HoldsNext, Holds, Priority

\* A call that a step leaves alone is backed as it was, and so is the sidecar.
LEMMA BackedStays ==
  ASSUME Keeping, BackedInv, NEW c \in Callers,
         at'[c] = at[c], pooled'[c] = pooled[c], carry'[c] = carry[c],
         draft'[c] = draft[c] \/ at[c] # "put"
  PROVE  NextBacked(c)
<1>1. carry[c] \in Verdicts /\ (draft[c] # None => draft[c].verdict \in Verdicts)
  BY SidecarIs DEF Keeping, RegistryInv, TypeOK
<1>2. \A v \in Verdicts : Holds(v) => HoldsNext(v)
  BY HoldsOn
<1> QED BY <1>1, <1>2 DEF BackedInv, Backed, NextBacked

LEMMA FileStays ==
  ASSUME Keeping, BackedInv, sidecar' = sidecar
  PROVE  NextFileBacked
<1>1. sidecar # None => sidecar.verdict \in Verdicts
  BY SidecarIs DEF Keeping, RegistryInv, TypeOK
<1>2. \A v \in Verdicts : Holds(v) => HoldsNext(v)
  BY HoldsOn
<1> QED BY <1>1, <1>2 DEF BackedInv, NextFileBacked

LEMMA BackedWriter ==
  ASSUME Keeping, BackedInv, NEW w \in Writers,
         IngestStep \/ (w \in Sweeps /\ SweepDoc(w)) \/ Dies(w)
  PROVE  BackedInv'
<1>t. Ingest \in Callers /\ w \in Callers
  BY CallersAre
<1>b. at[Ingest] # "idle"
  BY DEF Keeping, RegistryInv, BeforeInv, Live
<1>2. CASE /\ at'[Ingest] = "ready" /\ sidecar' # None /\ sidecar'.verdict = Ingest
           /\ UNCHANGED <<pooled, carry, draft>>
           /\ \A o \in Callers : o # Ingest => at'[o] = at[o]
  <2>1. NextBacked(Ingest)
    BY <1>2 DEF NextBacked
  <2>2. \A o \in Callers : o # Ingest => NextBacked(o)
    BY <1>2, BackedStays
  <2>3. NextFileBacked
    BY <1>2 DEF NextFileBacked
  <2> QED BY <2>1, <2>2, <2>3, NextBackedInv DEF Keeping
<1>3. CASE /\ UNCHANGED <<artifact, sidecar, draft>>
           /\ at'[Ingest] = "upsert" \/ (at'[Ingest] = "filter" /\ ~pooled'[Ingest])
           /\ \A o \in Callers : o # Ingest =>
                at'[o] = at[o] /\ carry'[o] = carry[o] /\ pooled'[o] = pooled[o]
  <2>1. NextBacked(Ingest)
    BY <1>3 DEF NextBacked
  <2>2. \A o \in Callers : o # Ingest => NextBacked(o)
    BY <1>3, BackedStays
  <2>3. NextFileBacked
    BY <1>3, FileStays
  <2> QED BY <2>1, <2>2, <2>3, NextBackedInv DEF Keeping
<1>4. CASE /\ at'[w] = "upsert" /\ UNCHANGED <<artifact, sidecar, draft, pooled>>
           /\ \A o \in Callers : o # w => at'[o] = at[o] /\ carry'[o] = carry[o]
  <2>1. NextBacked(w)
    BY <1>4 DEF NextBacked
  <2>2. \A o \in Callers : o # w => NextBacked(o)
    BY <1>4, BackedStays
  <2>3. NextFileBacked
    BY <1>4, FileStays
  <2> QED BY <2>1, <2>2, <2>3, NextBackedInv DEF Keeping
<1>5. CASE /\ at'[w] = "failed" /\ UNCHANGED <<artifact, sidecar>>
           /\ \A o \in Callers : o # w =>
                at'[o] = at[o] /\ carry'[o] = carry[o] /\ pooled'[o] = pooled[o]
                /\ draft'[o] = draft[o]
  <2>1. NextBacked(w)
    BY <1>5 DEF NextBacked
  <2>2. \A o \in Callers : o # w => NextBacked(o)
    BY <1>5, BackedStays
  <2>3. NextFileBacked
    BY <1>5, FileStays
  <2> QED BY <2>1, <2>2, <2>3, NextBackedInv DEF Keeping
<1> QED BY <1>b, <1>2, <1>3, <1>4, <1>5, WriterMoves DEF Keeping, RegistryInv

LEMMA BackedMirror ==
  ASSUME Keeping, QuietInv, AloneInv, BackedInv, NEW c \in Callers,
         MirrorStep(c) \/ MirrorFault(c)
  PROVE  BackedInv'
<1>t. TypeOK /\ carry[c] \in Verdicts /\ dated[c] \in BOOLEAN
      /\ (draft[c] # None => draft[c].verdict \in Verdicts)
      /\ (sidecar # None => sidecar.verdict \in Verdicts)
  BY SidecarIs DEF Keeping, RegistryInv, TypeOK
<1>h. \A v \in Verdicts : Holds(v) => HoldsNext(v)
  BY HoldsOn
<1>b. Backed(c)
  BY DEF BackedInv
<1>p. pooled[c] \/ c = Ingest
  BY DEF Keeping, RegistryInv, CallInv, QuietInv, Callers, Writers
<1>i. c = Ingest /\ at[c] \in {"read", "keep"} => at[c] = "read" /\ carry[c] = Ingest
  BY DEF AloneInv, Over, InCall
<1>o. \A o \in Callers : o # c => NextBacked(o)
  <2>1. \A o \in Callers : o # c =>
          /\ at'[o] = at[o] /\ pooled'[o] = pooled[o]
          /\ carry'[o] = carry[o] /\ draft'[o] = draft[o]
    BY <1>t, MirrorFrame, MirrorMoves
  <2> QED BY <2>1, BackedStays
<1>s. sidecar' = sidecar => NextFileBacked
  BY FileStays
<1> SUFFICES NextBacked(c) /\ NextFileBacked
  BY <1>o, NextBackedInv DEF Keeping
<1>1. CASE /\ at'[c] \in {"failed", "park"} /\ UNCHANGED <<sidecar, retry>>
  BY <1>1, <1>s DEF NextBacked
<1>2. CASE /\ at'[c] = "filter"
           /\ Upsert(carry[c], dated[c])
           /\ carry'[c] = row'.verdict
           /\ UNCHANGED <<sidecar, retry>>
  <2>1. HoldsNext(carry'[c])
    BY <1>2, <1>t, UpsertHolds
  <2>2. pooled'[c] \/ c = Ingest
    BY <1>p, <1>t, MirrorMoves
  <2> QED BY <1>2, <1>s, <2>1, <2>2 DEF NextBacked
<1>3. CASE /\ at[c] = "filter" /\ at'[c] \in {"read", "keep"}
           /\ carry'[c] = carry[c] /\ pooled'[c] = pooled[c]
           /\ UNCHANGED <<row, sidecar, retry>>
  BY <1>3, <1>s, <1>b, <1>h, <1>t DEF NextBacked, Backed
<1>4. CASE /\ at[c] \in {"read", "keep"} /\ at'[c] = "put"
           /\ \E old \in {sidecar, None} : draft'[c] = Merged(c, old)
           /\ carry'[c] = carry[c]
           /\ UNCHANGED <<row, sidecar, retry>>
  <2>1. PICK old \in {sidecar, None} : draft'[c] = Merged(c, old)
    BY <1>4
  <2>2. /\ draft'[c] # None
        /\ at[c] = "read" => draft'[c].verdict = carry[c]
        /\ at[c] = "keep" => draft'[c].verdict = VerdictOf(old)
    BY <1>t, <2>1, MergedIs
  <2>3. CASE at[c] = "read"
    BY <1>4, <1>s, <1>b, <1>h, <1>i, <1>t, <2>2, <2>3 DEF NextBacked, Backed
  <2>4. CASE at[c] = "keep"
    <3>1. Holds(carry[c]) /\ row # None
      BY <1>b, <1>i, <2>4 DEF Backed, Holds
    <3>2. Holds(None)
      BY <1>t, <3>1, HoldsNone
    <3>3. VerdictOf(old) = Ingest \/ Holds(VerdictOf(old))
      BY <3>2 DEF BackedInv, VerdictOf
    <3>4. VerdictOf(old) \in Verdicts
      BY <1>t, VerdictOfTyped DEF TypeOK
    <3> QED BY <1>4, <1>s, <1>h, <2>2, <2>4, <3>3, <3>4 DEF NextBacked
  <2> QED BY <1>4, <2>3, <2>4
<1>5. CASE /\ at[c] = "put" /\ at'[c] \in {"back", "park"}
           /\ sidecar' = draft[c] \/ sidecar' = sidecar
  <2>1. NextFileBacked
    BY <1>5, <1>s, <1>b, <1>h, <1>t DEF NextFileBacked, Backed
  <2> QED BY <1>5, <2>1 DEF NextBacked
<1>6. CASE at'[c] = "failed" /\ UNCHANGED <<row, sidecar>>
  BY <1>6, <1>s DEF NextBacked
<1> QED BY <1>t, <1>1, <1>2, <1>3, <1>4, <1>5, <1>6, MirrorMoves

LEMMA BackedStep ==
  ASSUME Keeping, QuietInv, AloneInv, BackedInv
  PROVE  BackedInv'
<1>i. RegistryInv /\ [Next]_vars /\ Cron \in Callers
  BY CallersAre DEF Keeping
<1>1. CASE \E w \in Writers : IngestStep \/ (w \in Sweeps /\ SweepDoc(w)) \/ Dies(w)
  BY <1>1, BackedWriter
<1>2. CASE \E c \in Callers : MirrorStep(c) \/ MirrorFault(c)
  BY <1>2, BackedMirror
<1>3. CASE PassStep
  <2>1. sidecar' = sidecar
        /\ \A o \in Callers : o # Cron => at'[o] = at[o] /\ pooled'[o] = pooled[o]
                                          /\ carry'[o] = carry[o] /\ draft'[o] = draft[o]
    BY <1>3, <1>i, PassFrame, PassMoves DEF RegistryInv
  <2>2. NextBacked(Cron)
    <3>1. CASE UNCHANGED callVars
      BY <1>i, <3>1, BackedStays
    <3>2. CASE at'[Cron] \in {"idle", "upsert"}
      BY <3>2 DEF NextBacked
    <3> QED BY <1>3, <1>i, <3>1, <3>2, PassMoves DEF RegistryInv
  <2>3. \A o \in Callers : NextBacked(o)
    BY <2>1, <2>2, BackedStays
  <2> QED BY <1>i, <2>1, <2>3, FileStays, NextBackedInv
<1>4. CASE (Erasure \/ Cleanup \/ Age) \/ UNCHANGED vars
  <2>1. UNCHANGED <<callVars, sidecar>>
    BY <1>4, OutsideMoves DEF Keeping
  <2>2. \A o \in Callers : NextBacked(o)
    BY <2>1, BackedStays
  <2> QED BY <1>i, <2>1, <2>2, FileStays, NextBackedInv
<1> QED BY <1>i, <1>1, <1>2, <1>3, <1>4, StepIs

\* What the pass relies on stays settled, whoever writes.
LEMMA SettledStays ==
  ASSUME Keeping, AloneInv, BackedInv, Settled
  PROVE  Settled'
<1>i. /\ RegistryInv /\ TypeOK /\ [Next]_vars /\ Cron \in Callers /\ Ingest \in Verdicts
      /\ Ingest # None /\ Writers \subseteq Callers /\ Cron \notin Writers
      /\ Callers = Writers \cup {Cron}
  BY CallersAre DEF Keeping, RegistryInv, Callers
<1>h. Holds(Ingest) => Settled'
  BY <1>i, HoldsOn, NextHolds DEF Settled
<1> SUFFICES ASSUME Replaced, ~Holds(Ingest) PROVE Settled'
  BY <1>h DEF Settled
<1>r. /\ sidecar # None /\ sidecar.verdict # Ingest
      /\ \A w \in Writers : Over(w)
      /\ at[Cron] = "put" => draft[Cron].verdict # Ingest
  BY DEF Replaced
<1>1. CASE \E w \in Writers : IngestStep \/ (w \in Sweeps /\ SweepDoc(w)) \/ Dies(w)
  <2>1. PICK w \in Writers : IngestStep \/ (w \in Sweeps /\ SweepDoc(w)) \/ Dies(w)
    BY <1>1
  <2>2. Over(Ingest) /\ Over(w)
    BY <1>r, CallersAre
  <2> QED BY <1>i, <2>1, <2>2, WriterMoves DEF Over
<1>2. ASSUME NEW c \in Callers, MirrorStep(c) \/ MirrorFault(c)
      PROVE  Replaced'
  <2>1. c = Cron
    BY <1>i, <1>r, <1>2, MirrorFrame DEF Over
  <2>2. \A w \in Writers : Over(w)'
    BY <1>i, <1>r, <1>2, <2>1, MirrorFrame DEF Over
  <2>3. sidecar' # None /\ sidecar'.verdict # Ingest
    <3>1. at[Cron] = "put" => draft[Cron] # None
      BY <1>i DEF BackedInv, Backed
    <3> QED BY <1>i, <1>r, <1>2, <2>1, <3>1, MirrorMoves
  <2>4. at'[Cron] = "put" => draft'[Cron].verdict # Ingest
    <3> SUFFICES ASSUME at'[Cron] = "put" PROVE draft'[Cron].verdict # Ingest
      OBVIOUS
    <3>1. at[Cron] \in {"read", "keep"} /\ \E old \in {sidecar, None} : draft'[Cron] = Merged(Cron, old)
      BY <1>i, <1>2, <2>1, MirrorMoves
    <3>2. PICK old \in {sidecar, None} : draft'[Cron] = Merged(Cron, old)
      BY <3>1
    <3>3. /\ at[Cron] = "read" => draft'[Cron].verdict = carry[Cron]
          /\ at[Cron] = "keep" => draft'[Cron].verdict = VerdictOf(old)
      BY <1>i, <3>2, MergedIs
    <3>4. carry[Cron] # Ingest
      <4>1. Holds(carry[Cron])
        BY <1>i, <3>1 DEF RegistryInv, CallInv, BackedInv, Backed
      <4> QED BY <4>1
    <3>5. VerdictOf(old) # Ingest
      BY <1>i, <1>r DEF VerdictOf
    <3> QED BY <3>1, <3>3, <3>4, <3>5
  <2> QED BY <2>2, <2>3, <2>4 DEF Replaced
<1>3. CASE PassStep
  <2>1. sidecar' = sidecar /\ \A w \in Writers : at'[w] = at[w]
    BY <1>i, <1>3, PassFrame
  <2>2. at'[Cron] = "put" => at[Cron] = "put" /\ draft'[Cron] = draft[Cron]
    BY <1>i, <1>3, PassMoves DEF RegistryInv
  <2>3. Replaced'
    BY <1>r, <2>1, <2>2 DEF Replaced, Over
  <2> QED BY <2>3 DEF Settled
<1>4. CASE (Erasure \/ Cleanup \/ Age) \/ UNCHANGED vars
  <2>1. UNCHANGED <<callVars, sidecar>>
    BY <1>4, OutsideMoves DEF Keeping
  <2>2. Replaced'
    BY <1>r, <2>1 DEF Replaced, Over
  <2> QED BY <2>2 DEF Settled
<1> QED BY <1>i, <1>1, <1>2, <1>3, <1>4, StepIs DEF Settled

\* Between the listing and the load only the single sweep can take the verdict of the ingest
\* out of the sidecar, and with that every writer is done.
LEMMA ThereStays ==
  ASSUME Keeping, QuietInv, AloneInv, BackedInv, Settled \/ StillThere,
         \A s, t \in Sweeps : s = t, cron \in {"generation", "stored", "load", "enrich"},
         ~PassStep
  PROVE  Settled' \/ StillThere'
<1>i. /\ RegistryInv /\ TypeOK /\ [Next]_vars /\ Cron \in Callers /\ Ingest \in Callers
      /\ Writers \subseteq Callers /\ Cron \notin Writers /\ Sweeps \subseteq Callers
      /\ Callers = {Ingest, Cron} \cup Sweeps /\ Writers = {Ingest} \cup Sweeps
      /\ Cron \notin Sweeps /\ Ingest # Cron /\ Ingest \notin Sweeps
  BY CallersAre, RegistryAssumption DEF Keeping, RegistryInv, Callers, Writers
<1> SUFFICES ASSUME StillThere PROVE Settled' \/ StillThere'
  BY SettledStays
<1>s. sidecar' = sidecar => StillThere'
  BY DEF StillThere
<1>1. CASE \E w \in Writers : IngestStep \/ (w \in Sweeps /\ SweepDoc(w)) \/ Dies(w)
  BY <1>i, <1>s, <1>1, WriterMoves DEF StillThere
<1>2. ASSUME NEW c \in Callers, MirrorStep(c) \/ MirrorFault(c), sidecar' # sidecar
      PROVE  Settled' \/ StillThere'
  <2>1. at[c] = "put" /\ at'[c] \in {"back", "park"} /\ (pooled[c] => at'[c] = "back")
        /\ sidecar' = draft[c]
    BY <1>i, <1>2, MirrorMoves
  <2>2. draft[c] # None
    BY <2>1 DEF BackedInv, Backed
  <2>3. c # Cron
    BY <2>1 DEF QuietInv
  <2>4. CASE draft[c].verdict = Ingest
    BY <2>1, <2>2, <2>4 DEF StillThere
  <2>5. CASE draft[c].verdict # Ingest
    <3>1. c # Ingest
      BY <2>1, <2>5 DEF AloneInv, Over
    <3>2. c \in Sweeps /\ Over(Ingest)
      BY <1>i, <2>1, <2>3, <3>1 DEF AloneInv
    <3>3. /\ at'[c] = "back"
          /\ at'[Ingest] = at[Ingest] /\ at'[Cron] = at[Cron]
      BY <1>i, <1>2, <2>1, <2>3, <3>1, <3>2, MirrorFrame DEF QuietInv
    <3>4. \A w \in Writers : Over(w)'
      BY <1>i, <3>2, <3>3 DEF Over
    <3>5. at'[Cron] # "put"
      BY <3>3 DEF QuietInv
    <3> QED BY <2>1, <2>2, <2>5, <3>4, <3>5 DEF Replaced, Settled
  <2> QED BY <2>4, <2>5
<1>4. CASE (Erasure \/ Cleanup \/ Age) \/ UNCHANGED vars
  BY <1>4, <1>s, OutsideMoves DEF Keeping
<1> QED BY <1>i, <1>s, <1>1, <1>2, <1>4, StepIs

LEMMA PassingStep ==
  ASSUME Keeping, QuietInv, AloneInv, BackedInv, PassingInv, \A s, t \in Sweeps : s = t
  PROVE  PassingInv'
<1>i. /\ RegistryInv /\ TypeOK /\ [Next]_vars /\ CallInv
      /\ Ingest \in Verdicts /\ Ingest # None
  BY CallersAre DEF Keeping, RegistryInv
<1>s. Settled => Settled'
  BY SettledStays
<1>1. CASE ~PassStep
  <2>1. UNCHANGED <<etag, cron, seen, meta>>
    <3>1. CASE \E w \in Writers : IngestStep \/ (w \in Sweeps /\ SweepDoc(w)) \/ Dies(w)
      BY <1>i, <3>1, WriterFrame, WriterMoves
    <3>2. CASE \E c \in Callers : MirrorStep(c) \/ MirrorFault(c)
      BY <1>i, <3>2, MirrorFrame
    <3>3. CASE (Erasure \/ Cleanup \/ Age) \/ UNCHANGED vars
      BY <3>3, OutsideMoves DEF Keeping
    <3> QED BY <1>i, <1>1, <3>1, <3>2, <3>3, StepIs
  <2>2. /\ cron \in {"generation", "stored", "load", "enrich"}
        /\ Settled \/ StillThere
        => Settled' \/ StillThere'
    BY <1>1, ThereStays
  <2> QED BY <1>s, <2>1, <2>2 DEF PassingInv
<1>2. CASE PassStep
  <2>1. sidecar' = sidecar
    BY <1>i, <1>2, PassFrame
  <2>2. StillThere => StillThere'
    BY <2>1 DEF StillThere
  <2>3. etag' # None /\ etag'.verdict = Ingest => Settled'
    BY <1>i, <1>2, <1>s, StageMoves DEF PassingInv
  <2>4. ASSUME seen' # None, seen'.verdict = Ingest
        PROVE  /\ cron' \in {"generation", "stored", "load", "enrich"} => Settled' \/ StillThere'
               /\ cron' \in {"enrich", "enriching", "upsert"} => Settled' \/ meta'.verdict = Ingest
               /\ cron' = "store" => Settled'
    <3>1. CASE cron' \notin {"generation", "stored", "load", "enrich", "enriching", "upsert", "store"}
      BY <3>1
    <3>2. CASE cron' = "generation" /\ seen' = sidecar
      BY <2>1, <2>4, <3>2 DEF StillThere
    <3>3. CASE /\ cron' \in {"stored", "load"} /\ cron \in {"generation", "stored"}
               /\ seen' = seen
      BY <1>s, <2>2, <2>4, <3>3 DEF PassingInv
    <3>4. CASE cron' \in {"enrich", "upsert"} /\ cron = "load" /\ seen' = seen
               /\ meta' = sidecar /\ sidecar # None
      <4>1. Settled \/ StillThere
        BY <2>4, <3>4 DEF PassingInv
      <4> QED BY <1>s, <2>2, <3>4, <4>1 DEF StillThere
    <3>5. CASE cron' = "enriching" /\ cron = "enrich" /\ seen' = seen
               /\ meta'.verdict = IF VerdictOf(sidecar) = None THEN meta.verdict ELSE sidecar.verdict
      <4>1. (Settled \/ StillThere) /\ (Settled \/ meta.verdict = Ingest)
        BY <2>4, <3>5 DEF PassingInv
      <4>2. StillThere => meta'.verdict = Ingest
        BY <1>i, <3>5 DEF StillThere, VerdictOf
      <4> QED BY <1>s, <3>5, <4>1, <4>2
    <3>6. CASE cron' = "upsert" /\ cron \in {"enrich", "enriching"} /\ seen' = seen /\ meta' = meta
      BY <1>s, <2>4, <3>6 DEF PassingInv
    <3>7. CASE cron' = "store" /\ cron = "upsert" /\ seen' = seen /\ meta \in Sidecars
               /\ Upsert(meta.verdict, meta.fat)
      <4>1. Settled \/ meta.verdict = Ingest
        BY <2>4, <3>7 DEF PassingInv
      <4>2. meta.verdict \in Verdicts /\ meta.fat \in BOOLEAN
        BY <3>7 DEF Sidecars
      <4>3. meta.verdict = Ingest => HoldsNext(Ingest)
        BY <1>i, <3>7, <4>2, UpsertHolds
      <4> QED BY <1>i, <1>s, <3>7, <4>1, <4>3, NextHolds DEF Settled
    <3> QED BY <1>i, <1>2, <3>1, <3>2, <3>3, <3>4, <3>5, <3>6, <3>7, StageMoves
  <2> QED BY <2>3, <2>4 DEF PassingInv
<1> QED BY <1>1, <1>2

\* A document that has just been saved is not in any other store yet.
LEMMA SavedStep ==
  ASSUME RegistryInv, QuietInv, SaveArtifact, at[Ingest] = "idle"
  PROVE  BackedInv' /\ PassingInv'
<1>1. /\ sidecar = None /\ seen = None /\ etag = None /\ \A c \in Callers : at[c] = "idle"
  BY DEF RegistryInv, BeforeInv, QuietInv
<1>2. /\ sidecar' = None /\ seen' = None /\ etag' = None
      /\ \A c \in Callers : at'[c] \in {"idle", "saved"}
  BY <1>1 DEF SaveArtifact, Reaches, RegistryInv, TypeOK
<1> QED BY <1>2 DEF BackedInv, Backed, PassingInv

LEMMA EtagStep ==
  ASSUME RegistryInv, ListingInv, EtagInv, [Next]_vars, \A s, t \in Sweeps : s = t
  PROVE  EtagInv'
<1>1. QuietInv' /\ AloneInv'
  BY QuietStep, AloneStep DEF EtagInv
<1>2. ASSUME Live' PROVE BackedInv' /\ PassingInv'
  <2>1. CASE Live
    <3>1. Keeping
      BY <1>2, <2>1 DEF Keeping
    <3> QED BY <2>1, <3>1, BackedStep, PassingStep DEF EtagInv
  <2>2. CASE SaveArtifact /\ at[Ingest] = "idle"
    BY <2>2, SavedStep DEF EtagInv
  <2> QED BY <1>2, <2>1, <2>2, LiveBefore DEF RegistryInv
<1> QED BY <1>1, <1>2 DEF EtagInv

LEMMA InitEtagInv == Init => EtagInv
<1> SUFFICES ASSUME Init PROVE EtagInv
  OBVIOUS
<1>1. /\ \A c \in Callers : at[c] = "idle" /\ pooled[c] /\ carry[c] = None
      /\ cron = "idle" /\ row = None /\ sidecar = None /\ retry = None /\ etag = None
      /\ artifact = FALSE
  BY DEF Init
<1> QED BY <1>1, CallersAre DEF EtagInv, QuietInv, AloneInv, OfIngest, InCall, Live

\* The reconcile skips a sidecar only if the row already holds what it says, for one sweep
\* and a table capture that ends within the grace period: an etag that a pass stores was
\* listed before the pass compared, loaded and upserted, while the ingest's own call, its
\* death, a call without a pool, the sweep and the drain wrote the same three stores.
THEOREM StoredEtagsAreCovered ==
  ~SlowTables /\ (\A s, t \in Sweeps : s = t) => (Spec => []StoredEtagIsCovered)
<1> SUFFICES ASSUME ~SlowTables, \A s, t \in Sweeps : s = t
             PROVE  Spec => []StoredEtagIsCovered
  OBVIOUS
<1>1. RegistryInv /\ ListingInv /\ [Next]_vars => ListingInv'
  BY ListingInvStep DEF RegistryInv
<1>2. RegistryInv /\ ListingInv /\ EtagInv /\ [Next]_vars => EtagInv'
  BY EtagStep
<1>3. RegistryInv /\ EtagInv => StoredEtagIsCovered
  <2> SUFFICES ASSUME RegistryInv, EtagInv, Live, etag # None, sidecar = etag
               PROVE  Covered
    BY DEF StoredEtagIsCovered, Live
  <2>1. CASE sidecar.verdict = Ingest
    BY <2>1 DEF EtagInv, PassingInv, Settled, Replaced, Holds, Covered
  <2>2. CASE sidecar.verdict # Ingest
    BY <2>2 DEF EtagInv, BackedInv, Holds, Covered
  <2> QED BY <2>1, <2>2
<1> QED BY <1>1, <1>2, <1>3, InitRegistryInv, InitEtagInv, RegistryInvHolds, PTL DEF Spec

=============================================================================
