-------------------------- MODULE IndexPipelineProofs --------------------------
(* Theorems of IndexPipeline, for every set of workers' settings, trees,     *)
(* contents and documents that satisfies the assumptions.                    *)
EXTENDS IndexPipeline, TLAPS

USE DEF chainVars, ladderVars, callVars, storeVars

-----------------------------------------------------------------------------
(* The writes of a document and the hash that names it.                     *)

\* What processed/ may hold.
DocsTyped ==
  \A d \in DOMAIN docs :
    docs[d] \in [sha : Contents \cup {NoContent}, form : {"tree", "flat"},
                 garbled : BOOLEAN, meta : BOOLEAN]

\* A call in its writes is at one of these places, and what it has written so
\* far is a document of its content.
Written ==
  phase = "write" =>
    /\ left \in {<<"artifact", "sidecar", "hash", "clear">>, <<"sidecar", "hash", "clear">>,
                 <<"hash", "clear">>, <<"clear">>}
    /\ Len(left) = 4 => draft \notin DOMAIN docs
    /\ Len(left) # 4 => draft \in DOMAIN docs /\ docs[draft].sha = content
    /\ Len(left) \in {1, 2} => docs[draft].meta

HashInv ==
  /\ content \in Contents \cup {NoContent}
  /\ DocsTyped
  /\ Written
  /\ HashNamesAWhole

LEMMA HashInit == ASSUME Init PROVE HashInv
<1>1. DOMAIN docs = {}
  BY DEF Init
<1>2. phase = "over" /\ content = NoContent /\ hash = NoContent
  BY DEF Init
<1> QED BY <1>1, <1>2 DEF HashInv, DocsTyped, Written, HashNamesAWhole

\* A step outside the writes that touches neither the store nor the content.
LEMMA HashKept ==
  ASSUME HashInv, UNCHANGED <<docs, hash>>, content' \in Contents \cup {NoContent},
         phase' # "write"
  PROVE  HashInv'
BY DEF HashInv, DocsTyped, Written, HashNamesAWhole, Whole

LEMMA HashPersist ==
  ASSUME HashInv, Persist, UNCHANGED <<docs, hash, content>>
  PROVE  HashInv'
BY DEF HashInv, DocsTyped, Written, HashNamesAWhole, Whole, Persist, Writes

LEMMA HashWrite ==
  ASSUME HashInv, WriteNext PROVE HashInv'
<1> SUFFICES ASSUME phase = "write", left # <<>> PROVE HashInv'
  BY DEF WriteNext
<1>0. content' = content /\ draft' = draft /\ left' = Tail(left)
  BY DEF WriteNext
<1>w. phase' = "write" => Len(left) # 1
  BY DEF WriteNext, End
<1> USE DEF HashInv
<1>1. CASE Artifact
  <2>1. left = <<"artifact", "sidecar", "hash", "clear">>
    BY <1>1 DEF Artifact, Written
  <2>2. /\ draft \notin DOMAIN docs
        /\ DOMAIN docs' = DOMAIN docs \cup {draft}
        /\ docs'[draft] = Drafted
        /\ \A d \in DOMAIN docs : docs'[d] = docs[d]
    BY <1>1, <2>1 DEF Artifact, Written
  <2>3. /\ Drafted \in [sha : Contents \cup {NoContent}, form : {"tree", "flat"},
                        garbled : BOOLEAN, meta : BOOLEAN]
        /\ Drafted.sha = content
    BY DEF Drafted
  <2>4. DocsTyped'
    BY <2>2, <2>3 DEF DocsTyped
  <2>5. Written'
    BY <1>0, <2>1, <2>2, <2>3 DEF Written
  <2>6. HashNamesAWhole'
    BY <1>1, <2>2 DEF Artifact, HashNamesAWhole, Whole
  <2> QED BY <1>0, <2>4, <2>5, <2>6
<1>2. CASE Sidecar
  <2>1. left = <<"sidecar", "hash", "clear">>
    BY <1>2 DEF Sidecar, Written
  <2>2. draft \in DOMAIN docs /\ docs[draft].sha = content
    BY <2>1 DEF Written
  <2>3. /\ DOMAIN docs' = DOMAIN docs
        /\ \A d \in DOMAIN docs : docs'[d].sha = docs[d].sha /\ (docs[d].meta => docs'[d].meta)
        /\ docs'[draft].meta
        /\ DocsTyped'
    BY <1>2, <2>2 DEF Sidecar, DocsTyped
  <2>4. Written'
    BY <1>0, <2>1, <2>2, <2>3 DEF Written
  <2>5. HashNamesAWhole'
    BY <1>2, <2>3 DEF Sidecar, HashNamesAWhole, Whole
  <2> QED BY <1>0, <2>3, <2>4, <2>5
<1>3. CASE SetHash
  <2>1. left = <<"hash", "clear">>
    BY <1>3 DEF SetHash, Written
  <2>2. draft \in DOMAIN docs /\ docs[draft].sha = content /\ docs[draft].meta
    BY <2>1 DEF Written
  <2>3. docs' = docs /\ hash' = content
    BY <1>3 DEF SetHash
  <2>4. Written' /\ DocsTyped'
    BY <1>0, <2>1, <2>2, <2>3 DEF Written, DocsTyped
  <2>5. HashNamesAWhole'
    BY <2>2, <2>3 DEF HashNamesAWhole, Whole
  <2> QED BY <1>0, <2>4, <2>5
<1>4. CASE ClearQuarantine
  <2>1. left = <<"clear">> /\ docs' = docs /\ hash' = hash
    BY <1>4 DEF ClearQuarantine, Written
  <2>2. phase' # "write"
    BY <1>w, <2>1
  <2> QED BY <1>0, <2>1, <2>2, HashKept
<1> QED BY <1>1, <1>2, <1>3, <1>4 DEF WriteNext

\* The conversion and the recovery leave the store alone and begin no write.
LEMMA ConvertBeginsNoWrite ==
  ASSUME phase # "write", Convert PROVE phase' # "write"
BY DEF Convert, BackendReady, BackendNotReady, ConverterUnavailable, Unavailable,
       ConverterSucceeds, TransientRetry, TransientGivesUp, StructuralFailure, WalkOn,
       LeaveChain, LegacyPageIndex, OpenOther, BuildTree, ImageFallback, BuildFails, End

LEMMA RecoverBeginsNoWrite ==
  ASSUME Recover PROVE phase' # "write"
<1>1. CASE NextGate
  BY <1>1 DEF NextGate
<1>2. CASE \E m \in Ocrs : OcrMethod(m)
  BY <1>2 DEF OcrMethod, OcrSkipped, OcrUnavailable, OcrFails, OcrRebuildFails, OcrRebuilt,
              Turn, Leave, End
<1>3. CASE VlmSkipped \/ VlmRebuilt \/ VlmFails
  BY <1>3 DEF VlmSkipped, VlmRebuilt, VlmFails, Turn, Leave
<1>4. CASE RtlRepair \/ RtlFlatCompare
  BY <1>4 DEF RtlRepair, RtlFlatCompare, Turn, Leave
<1>5. CASE Settle
  BY <1>5 DEF Settle
<1> QED BY <1>1, <1>2, <1>3, <1>4, <1>5 DEF Recover

LEMMA HashStep == ASSUME HashInv, [Next]_vars PROVE HashInv'
<1>0. content \in Contents \cup {NoContent}
  BY DEF HashInv
<1>1. CASE \E c \in Contents : Start(c)
  <2>1. PICK c \in Contents : Start(c)
    BY <1>1
  <2>2. content' \in Contents \cup {NoContent} /\ UNCHANGED <<docs, hash>>
    BY <2>1 DEF Start
  <2>3. phase' # "write"
    BY <2>1 DEF Start, OpenPdf
  <2> QED BY <2>2, <2>3, HashKept
<1>2. CASE Convert /\ UNCHANGED <<ladderVars, callVars, storeVars>>
  <2>1. phase # "write"
    BY <1>2 DEF Convert, BackendReady, BackendNotReady, ConverterUnavailable, AtConverter,
       ConverterSucceeds, TransientRetry, TransientGivesUp, StructuralFailure,
       LegacyPageIndex, OpenOther, BuildTree, ImageFallback, BuildFails
  <2> QED BY <1>0, <1>2, <2>1, ConvertBeginsNoWrite, HashKept
<1>3. CASE Recover /\ UNCHANGED <<callVars, storeVars>>
  BY <1>0, <1>3, RecoverBeginsNoWrite, HashKept
<1>4. CASE Reject
  BY <1>0, <1>4, HashKept DEF Reject, End
<1>5. CASE FlatWithoutText
  BY <1>0, <1>5, HashKept DEF FlatWithoutText, End
<1>6. CASE PersistFlat
  BY <1>6, HashPersist DEF PersistFlat
<1>7. CASE FlatGarbled
  BY <1>0, <1>7, HashKept DEF FlatGarbled, End
<1>8. CASE PersistTree
  BY <1>8, HashPersist DEF PersistTree
<1>9. CASE WriteNext
  BY <1>9, HashWrite
<1>10. CASE WriteFails
  BY <1>0, <1>10, HashKept DEF WriteFails, End
<1>11. CASE Killed
  BY <1>0, <1>11, HashKept DEF Killed
<1>12. CASE UNCHANGED vars
  BY <1>12 DEF vars, HashInv, DocsTyped, Written, HashNamesAWhole, Whole
<1> QED BY <1>1, <1>2, <1>3, <1>4, <1>5, <1>6, <1>7, <1>8, <1>9, <1>10, <1>11, <1>12 DEF Next

\* The hash cache names a content only when a document of it has its artifact
\* and its sidecar: hash_cache_set comes behind save_doc_meta, and a call that
\* fails or is killed among its writes leaves the entry as it was.
THEOREM HashNamesWhole == Spec => []HashNamesAWhole
<1>1. Init => HashInv
  BY HashInit
<1>2. HashInv /\ [Next]_vars => HashInv'
  BY HashStep
<1>3. HashInv => HashNamesAWhole
  BY DEF HashInv
<1> QED BY <1>1, <1>2, <1>3, PTL DEF Spec

-----------------------------------------------------------------------------
(* An outage of docling and the AGPL converter.                             *)

\* What an outage says of the call's place in the chain.
OutageInv ==
  /\ conf \in Confs /\ pos \in Nat \ {0} /\ outage \in BOOLEAN
  /\ "used" \in DOMAIN st
  /\ phase # "over" => outcome = "none"
  /\ phase \in {"ready", "convert"} => st.used = "none"
  /\ phase = "ready" => ~outage
  /\ outage => st.used # Agpl
  /\ outage /\ AtConverter => Current = Docling
  /\ outage /\ conf.remote /\ conf.policy = "requeue" =>
       \/ AtConverter
       \/ phase = "over" /\ outcome \in {"requeued", "killed"}

LEMMA OutageInit == ASSUME Init PROVE OutageInv
<1>1. /\ phase = "over" /\ outage = FALSE /\ conf \in Confs /\ pos = 1
      /\ st = Blank
  BY DEF Init
<1>2. "used" \in DOMAIN Blank
  BY DEF Blank
<1>3. outage \in BOOLEAN /\ ~outage
  BY <1>1
<1>4. pos \in Nat \ {0}
  BY <1>1
<1> QED BY <1>1, <1>2, <1>3, <1>4 DEF OutageInv

LEMMA ChainEntries ==
  ASSUME NEW c \in Confs, NEW i \in Nat \ {0}, i <= Len(c.chain)
  PROVE  /\ c.chain[i] \in {Docling, Agpl}
         /\ c.chain[i] = Docling /\ i < Len(c.chain) => c.chain[i + 1] = Agpl
         /\ Len(c.chain) \in Nat
BY ChainAssumption DEF Chains, Docling, Agpl

\* No operator on the state changes what extracted the text, but for an OCR
\* retry, which is docling's.
LEMMA BuiltKeeps ==
  ASSUME NEW s, "used" \in DOMAIN s, NEW src, NEW t
  PROVE  "used" \in DOMAIN Built(s, src, t) /\ Built(s, src, t).used = s.used
BY DEF Built, Finalize

LEMMA ForceKeeps ==
  ASSUME NEW s, "used" \in DOMAIN s, NEW route, NEW flat
  PROVE  "used" \in DOMAIN ForceRoute(s, route, flat) /\ ForceRoute(s, route, flat).used = s.used
BY DEF ForceRoute, Finalize

\* A step that leaves the chain behind, or was never in it.
Onward ==
  /\ UNCHANGED <<conf, pos, outage>>
  /\ phase \notin {"ready", "convert"} /\ phase' \notin {"ready", "convert"}
  /\ phase' # "over" => UNCHANGED outcome
  /\ phase # "over"
  /\ "used" \in DOMAIN st'
  /\ st'.used \in {st.used, Docling}

LEMMA OnwardKeeps == ASSUME OutageInv, Onward PROVE OutageInv'
BY DEF OutageInv, Onward, AtConverter, Current, Docling, Agpl


LEMMA OutageConvert ==
  ASSUME OutageInv, Convert PROVE OutageInv'
<1> USE DEF OutageInv, AtConverter, Current
<1>1. CASE BackendReady
  BY <1>1 DEF BackendReady, Stay
<1>2. ASSUME Unavailable, phase \in {"ready", "convert"} PROVE OutageInv'
  <2>1. CASE conf.policy = "requeue"
    BY <1>2, <2>1 DEF Unavailable, End, Agpl
  <2>2. CASE conf.policy # "requeue"
    <3>1. Len(conf.chain) \in Nat
      BY ChainAssumption DEF Chains
    <3>2. /\ outage' \in BOOLEAN /\ phase' = "convert" /\ pos' = Len(conf.chain) + 1
          /\ UNCHANGED <<outcome, conf, st>>
      BY <1>2, <2>2 DEF Unavailable, Stay
    <3>3. pos' \in Nat \ {0} /\ ~AtConverter'
      BY <3>1, <3>2
    <3>4. st'.used # Agpl /\ phase # "over"
      BY <1>2, <3>2 DEF Agpl
    <3> QED BY <1>2, <2>2, <3>2, <3>3, <3>4
  <2> QED BY <2>1, <2>2
<1>3. CASE BackendNotReady \/ ConverterUnavailable
  BY <1>2, <1>3 DEF BackendNotReady, ConverterUnavailable
<1>4. CASE \E full \in BOOLEAN : ConverterSucceeds(full)
  BY <1>4 DEF ConverterSucceeds, Stay
<1>5. CASE TransientRetry
  <2>1. /\ UNCHANGED <<phase, outcome, conf, st, pos>> /\ AtConverter
        /\ outage' = (Current = Docling)
    BY <1>5 DEF TransientRetry, Stay
  <2>2. outage' \in BOOLEAN /\ (outage' => Current = Docling)
    BY <2>1
  <2>3. st.used # Agpl /\ phase = "convert"
    BY <2>1 DEF Agpl
  <2> QED BY <2>1, <2>2, <2>3
<1>6. CASE TransientGivesUp
  <2>1. CASE pos < Len(conf.chain) /\ ~NextIsAgpl
    <3>1. Current = Agpl /\ Current # Docling
      BY <1>6, <2>1, ChainEntries DEF TransientGivesUp, NextIsAgpl, Docling, Agpl
    <3>2. outage' \in BOOLEAN /\ ~outage'
      BY <1>6, <2>1, <3>1 DEF TransientGivesUp
    <3>3. pos' \in Nat \ {0} /\ UNCHANGED <<phase, outcome, conf, st>>
      BY <1>6, <2>1 DEF TransientGivesUp, WalkOn, Stay
    <3> QED BY <3>2, <3>3
  <2>2. CASE ~(pos < Len(conf.chain) /\ ~NextIsAgpl) /\ Remote
    BY <1>2, <1>6, <2>2 DEF TransientGivesUp
  <2>3. CASE ~(pos < Len(conf.chain) /\ ~NextIsAgpl) /\ ~Remote
    <3>1. /\ UNCHANGED <<phase, outcome, conf, st>> /\ phase = "convert"
          /\ pos' = Len(conf.chain) + 1 /\ outage' = (Current = Docling)
      BY <1>6, <2>3 DEF TransientGivesUp, LeaveChain, Stay
    <3>2. outage' \in BOOLEAN /\ (outage' => ~conf.remote)
      BY <2>3, <3>1 DEF Remote
    <3>3. pos' \in Nat \ {0} /\ ~AtConverter' /\ st.used # Agpl
      BY <3>1, ChainAssumption DEF Chains, Agpl
    <3> QED BY <3>1, <3>2, <3>3
  <2> QED BY <2>1, <2>2, <2>3
<1>7. CASE StructuralFailure
  <2>1. outage' = FALSE
    BY <1>7 DEF StructuralFailure
  <2>2. pos' \in Nat \ {0}
    BY <1>7, ChainEntries DEF StructuralFailure, LeaveChain, WalkOn
  <2> QED BY <1>7, <2>1, <2>2 DEF StructuralFailure, LeaveChain, WalkOn, Stay
<1>8. CASE LegacyPageIndex
  BY <1>8 DEF LegacyPageIndex, Stay
<1>9. CASE OpenOther \/ BuildTree \/ ImageFallback \/ BuildFails
  <2>1. CASE OpenOther
    BY <2>1, OnwardKeeps DEF OpenOther, Stay, Onward
  <2>2. CASE BuildTree
    <3>1. PICK t \in Trees :
            /\ st' = [Built(st, "first", t) EXCEPT !.total = t.chars]
            /\ phase' = IF kind = "image" /\ t.defects \cap ImageTriggers # {}
                        THEN "image" ELSE "ladder"
      BY <2>2 DEF BuildTree
    <3>2. "used" \in DOMAIN st' /\ st'.used = st.used
      BY <3>1, BuiltKeeps
    <3> QED BY <2>2, <3>1, <3>2, OnwardKeeps DEF BuildTree, Stay, Onward
  <2>3. CASE ImageFallback
    <3>1. "used" \in DOMAIN st' /\ st'.used = st.used
      <4>1. CASE UNCHANGED st
        BY <4>1
      <4>2. ASSUME NEW t \in Trees,
                   st' = [Built([st EXCEPT !.md = "vlm"], "vlm", t) EXCEPT !.total = t.chars]
            PROVE  "used" \in DOMAIN st' /\ st'.used = st.used
        <5>1. LET s == [st EXCEPT !.md = "vlm"] IN "used" \in DOMAIN s /\ s.used = st.used
          OBVIOUS
        <5> QED BY <4>2, <5>1, BuiltKeeps
      <4> QED BY <2>3, <4>1, <4>2 DEF ImageFallback
    <3> QED BY <2>3, <3>1, OnwardKeeps DEF ImageFallback, Stay, Onward
  <2>4. CASE BuildFails
    BY <2>4, OnwardKeeps DEF BuildFails, End, Onward
  <2> QED BY <1>9, <2>1, <2>2, <2>3, <2>4
<1> QED BY <1>1, <1>3, <1>4, <1>5, <1>6, <1>7, <1>8, <1>9 DEF Convert

LEMMA LeaveIsOnward ==
  ASSUME phase = "ladder", NEW s, "used" \in DOMAIN s, s.used \in {st.used, Docling}, Leave(s)
  PROVE  Onward
<1>1. "used" \in DOMAIN st' /\ st'.used = s.used
  <2>1. CASE Len(todo) = 1
    BY <2>1 DEF Leave
  <2>2. CASE Len(todo) # 1
    BY <2>2 DEF Leave
  <2> QED BY <2>1, <2>2
<1> QED BY <1>1 DEF Leave, Onward

LEMMA OcrTextKeeps ==
  ASSUME "used" \in DOMAIN st
  PROVE  "used" \in DOMAIN OcrText /\ OcrText.used \in {st.used, Docling}
BY DEF OcrText

LEMMA RasterKeeps ==
  ASSUME NEW s, "used" \in DOMAIN s, NEW r \in Raster(s)
  PROVE  "used" \in DOMAIN r /\ r.used = s.used
<1>1. LET m == [s EXCEPT !.md = "raster"] IN "used" \in DOMAIN m /\ m.used = s.used
  OBVIOUS
<1> QED BY <1>1, ForceKeeps DEF Raster

LEMMA OcrIsOnward ==
  ASSUME "used" \in DOMAIN st, NEW m, OcrMethod(m) PROVE Onward
<1>0. phase = "ladder"
  BY DEF OcrMethod, OcrSkipped, OcrUnavailable, OcrFails, OcrRebuildFails, OcrRebuilt, Turn
<1>1. CASE OcrSkipped(m)
  BY <1>0, <1>1, LeaveIsOnward DEF OcrSkipped
<1>2. CASE OcrUnavailable(m)
  BY <1>0, <1>2 DEF OcrUnavailable, End, Onward
<1>3. CASE OcrFails(m)
  <2>1. LET s == [st EXCEPT !.renorm = FALSE] IN "used" \in DOMAIN s /\ s.used = st.used
    OBVIOUS
  <2> QED BY <1>0, <1>3, <2>1, LeaveIsOnward DEF OcrFails
<1>4. CASE OcrRebuildFails(m)
  BY <1>0, <1>4, OcrTextKeeps, LeaveIsOnward DEF OcrRebuildFails
<1>5. CASE OcrRebuilt(m)
  <2>1. PICK t \in Trees : LET post == Built(OcrText, "ocr", t)
                           IN  Leave([post EXCEPT !.full = TRUE]) \/ Leave(Restore(post, st))
    BY <1>5 DEF OcrRebuilt
  <2> DEFINE post == Built(OcrText, "ocr", t)
  <2>2. "used" \in DOMAIN post /\ post.used \in {st.used, Docling}
    BY OcrTextKeeps, BuiltKeeps
  <2> HIDE DEF post
  <2>3. LET s == [post EXCEPT !.full = TRUE] IN "used" \in DOMAIN s /\ s.used = post.used
    BY <2>2
  <2>4. "used" \in DOMAIN Restore(post, st) /\ Restore(post, st).used = st.used
    BY <2>2 DEF Restore
  <2> QED BY <1>0, <2>1, <2>2, <2>3, <2>4, LeaveIsOnward DEF post
<1> QED BY <1>1, <1>2, <1>3, <1>4, <1>5 DEF OcrMethod

LEMMA VlmIsOnward ==
  ASSUME "used" \in DOMAIN st, VlmSkipped \/ VlmRebuilt \/ VlmFails PROVE Onward
<1>0. phase = "ladder"
  BY DEF VlmSkipped, VlmRebuilt, VlmFails, Turn
<1> DEFINE read == [st EXCEPT !.md = "vlm"]
<1>r. "used" \in DOMAIN read /\ read.used = st.used
  OBVIOUS
<1> HIDE DEF read
<1>1. CASE VlmSkipped
  BY <1>0, <1>1, LeaveIsOnward DEF VlmSkipped
<1>2. CASE VlmRebuilt
  <2>1. PICK t \in Trees :
          \E r \in Raster(Built(read, "vlm", t)) \cup {Built(read, "vlm", t)} : Leave(r)
    BY <1>2 DEF VlmRebuilt, read
  <2>2. PICK r \in Raster(Built(read, "vlm", t)) \cup {Built(read, "vlm", t)} : Leave(r)
    BY <2>1
  <2>3. "used" \in DOMAIN r /\ r.used = st.used
    BY <1>r, <2>2, BuiltKeeps, RasterKeeps
  <2> QED BY <1>0, <2>2, <2>3, LeaveIsOnward
<1>3. CASE VlmFails
  <2>1. PICK s \in {st, read} : \E r \in Raster(s) : Leave(r)
    BY <1>3 DEF VlmFails, read
  <2>2. PICK r \in Raster(s) : Leave(r)
    BY <2>1
  <2>3. "used" \in DOMAIN r /\ r.used = st.used
    BY <1>r, <2>1, <2>2, RasterKeeps
  <2> QED BY <1>0, <2>2, <2>3, LeaveIsOnward
<1> QED BY <1>1, <1>2, <1>3

LEMMA RtlIsOnward ==
  ASSUME "used" \in DOMAIN st, RtlRepair \/ RtlFlatCompare PROVE Onward
<1>0. phase = "ladder"
  BY DEF RtlRepair, RtlFlatCompare, Turn
<1>1. Leave(st) => Onward
  BY <1>0, LeaveIsOnward
<1>2. CASE \E t \in Trees : Leave(Built(st, st.tree.src, t))
  BY <1>0, <1>2, BuiltKeeps, LeaveIsOnward
<1>3. CASE Leave(ForceRoute(st, "flat", conf.flat))
  BY <1>0, <1>3, ForceKeeps, LeaveIsOnward
<1> QED BY <1>1, <1>2, <1>3 DEF RtlRepair, RtlFlatCompare

LEMMA SettleIsOnward ==
  ASSUME "used" \in DOMAIN st, Settle PROVE Onward
<1>1. PICK s \in Settled(st) : st' = Judge(s)
  BY DEF Settle
<1>2. "used" \in DOMAIN s /\ s.used = st.used
  <2>1. LET f == ForceRoute(st, "flat", conf.flat)
            g == [f EXCEPT !.ok = FALSE]
        IN  "used" \in DOMAIN g /\ g.used = st.used
    BY ForceKeeps
  <2> QED BY <1>1, <2>1 DEF Settled
<1>3. "used" \in DOMAIN st' /\ st'.used = st.used
  BY <1>1, <1>2, ForceKeeps DEF Judge
<1>4. phase = "ladder" /\ phase' \in {"flat", "reject", "tree"} /\ UNCHANGED <<conf, pos, outage, outcome>>
  BY DEF Settle, Stay
<1> QED BY <1>3, <1>4 DEF Onward

LEMMA OutageRecover ==
  ASSUME OutageInv, Recover PROVE OutageInv'
<1>0. "used" \in DOMAIN st
  BY DEF OutageInv
<1>1. CASE NextGate
  BY <1>1 DEF NextGate, OutageInv, AtConverter, Current
<1>2. CASE \E m \in Ocrs : OcrMethod(m)
  BY <1>0, <1>2, OcrIsOnward, OnwardKeeps
<1>3. CASE VlmSkipped \/ VlmRebuilt \/ VlmFails
  BY <1>0, <1>3, VlmIsOnward, OnwardKeeps
<1>4. CASE RtlRepair \/ RtlFlatCompare
  BY <1>0, <1>4, RtlIsOnward, OnwardKeeps
<1>5. CASE Settle
  BY <1>0, <1>5, SettleIsOnward, OnwardKeeps
<1> QED BY <1>1, <1>2, <1>3, <1>4, <1>5 DEF Recover

LEMMA OutageStep == ASSUME OutageInv, [Next]_vars PROVE OutageInv'
<1>0. "used" \in DOMAIN st
  BY DEF OutageInv
<1>1. CASE \E c \in Contents : Start(c)
  <2>1. PICK c \in Contents : Start(c)
    BY <1>1
  <2>2. /\ st' = Blank /\ pos' = 1 /\ outage' = FALSE /\ conf' = conf
        /\ phase' \in {"over", "ready", "convert", "open"}
        /\ phase' # "over" => outcome' = "none"
    BY <2>1 DEF Start, OpenPdf
  <2>3. "used" \in DOMAIN Blank /\ Blank.used = "none"
    BY DEF Blank
  <2>4. outage' \in BOOLEAN /\ ~outage'
    BY <2>2
  <2> QED BY <2>2, <2>3, <2>4 DEF OutageInv
<1>2. CASE Convert /\ UNCHANGED <<ladderVars, callVars, storeVars>>
  BY <1>2, OutageConvert
<1>3. CASE Recover /\ UNCHANGED <<callVars, storeVars>>
  BY <1>3, OutageRecover
<1>4. CASE Reject \/ FlatWithoutText \/ FlatGarbled \/ WriteFails
  BY <1>0, <1>4, OnwardKeeps DEF Reject, FlatWithoutText, FlatGarbled, WriteFails, End, Onward
<1>5. CASE PersistTree
  BY <1>0, <1>5, OnwardKeeps DEF PersistTree, Persist, Stay, Onward
<1>6. CASE PersistFlat
  <2>1. LET s == [st EXCEPT !.md = "vlm"] IN "used" \in DOMAIN s /\ s.used = st.used
    BY <1>0
  <2>2. "used" \in DOMAIN st' /\ st'.used = st.used
    BY <1>0, <1>6, <2>1 DEF PersistFlat
  <2> QED BY <1>6, <2>2, OnwardKeeps DEF PersistFlat, Persist, Stay, Onward
<1>7. CASE WriteNext
  <2>1. phase = "write" /\ phase' \in {"write", "over"} /\ UNCHANGED <<conf, pos, outage, st>>
        /\ (phase' # "over" => UNCHANGED outcome)
    BY <1>7 DEF WriteNext, End
  <2> QED BY <1>0, <2>1, OnwardKeeps DEF Onward
<1>8. CASE Killed
  BY <1>8 DEF Killed, OutageInv, AtConverter, Current
<1>9. CASE UNCHANGED vars
  BY <1>9 DEF vars, OutageInv, AtConverter, Current
<1> QED BY <1>1, <1>2, <1>3, <1>4, <1>5, <1>6, <1>7, <1>8, <1>9 DEF Next

\* A transient failure of docling, or backends that are gone, never lead to a
\* conversion by pymupdf4llm, and under the requeue policy the call raises
\* DoclingUnavailable rather than index what page_index makes of the file.
THEOREM OutageRequeues == Spec => []OutageIsRequeued
<1>1. Init => OutageInv
  BY OutageInit
<1>2. OutageInv /\ [Next]_vars => OutageInv'
  BY OutageStep
<1>3. OutageInv => OutageIsRequeued
  BY DEF OutageInv, OutageIsRequeued, AtConverter, Docling, Agpl
<1> QED BY <1>1, <1>2, <1>3, PTL DEF Spec

-----------------------------------------------------------------------------
(* What a rejected call leaves behind.                                      *)

\* The fields the route is decided from.
Shaped(s) == {"md", "tree", "gate", "ok", "first", "route", "total"} \subseteq DOMAIN s

\* The gate's verdict is that of the tree, and a garbled tree is routed as a
\* tree, or flat when there is a text.
Routed(s) ==
  /\ Shaped(s)
  /\ s.gate = s.tree.defects
  /\ s.gate \cap Garble # {} => s.route = "tree" \/ (s.route = "flat" /\ s.md # NoText)

LEMMA PrimaryGarble ==
  ASSUME NEW D, D \cap Garble # {} PROVE Primary(D) \in Garble
<1> DEFINE pool == D \cap Garble
           least(i) == /\ i \in DOMAIN GateOrder /\ GateOrder[i] \in pool
                       /\ \A j \in 1 .. i - 1 : GateOrder[j] \notin pool
<1>1. \E i \in DOMAIN GateOrder :
        GateOrder[i] \in pool /\ \A j \in 1 .. i - 1 : GateOrder[j] \notin pool
  <2>1. CASE "garbling" \in D
    BY <2>1 DEF GateOrder, Garble
  <2>2. CASE "garbling" \notin D
    <3>1. "node_garbling" \in D
      BY <2>2 DEF Garble
    <3>2. \A j \in 1 .. 3 : GateOrder[j] \notin pool
      BY <2>2 DEF GateOrder, Garble
    <3> QED BY <3>1, <3>2 DEF GateOrder, Garble
  <2> QED BY <2>1, <2>2
<1> QED BY <1>1 DEF Primary

LEMMA GarbleRoute ==
  ASSUME NEW d \in Garble, NEW flat PROVE DecideRoute(d, flat) = "tree"
BY DEF DecideRoute, Garble

LEMMA FinalizeRoutes ==
  ASSUME NEW s, Shaped(s), NEW D, NEW flat
  PROVE  /\ Shaped(Finalize(s, D, flat))
         /\ Finalize(s, D, flat).gate = D
         /\ Finalize(s, D, flat).md = s.md
         /\ Finalize(s, D, flat).tree = s.tree
         /\ D \cap Garble # {} => /\ Finalize(s, D, flat).route = "tree"
                                  /\ Finalize(s, D, flat).first \in Garble
BY PrimaryGarble, GarbleRoute DEF Finalize, Shaped

LEMMA BuiltRoutes ==
  ASSUME NEW s, Shaped(s), NEW src, NEW t
  PROVE  Routed(Built(s, src, t)) /\ Built(s, src, t).md = s.md
<1> DEFINE f == Finalize(s, t.defects, conf.flat)
<1>1. Shaped(f) /\ f.gate = t.defects /\ f.md = s.md
      /\ (t.defects \cap Garble # {} => f.route = "tree")
  BY FinalizeRoutes
<1> HIDE DEF f
<1>2. Built(s, src, t) = [f EXCEPT !.tree = [src |-> src, chars |-> t.chars, defects |-> t.defects]]
  BY DEF Built, f
<1> QED BY <1>1, <1>2 DEF Routed, Shaped

LEMMA ForceRoutes ==
  ASSUME NEW s, Shaped(s), s.gate = s.tree.defects, NEW route, NEW flat
  PROVE  LET r == ForceRoute(s, route, flat)
         IN  /\ Shaped(r) /\ r.gate = s.gate /\ r.tree = s.tree /\ r.md = s.md
             /\ r.route = route
             /\ s.gate \cap Garble # {} => r.first \in Garble
<1> DEFINE f == Finalize(s, s.gate, flat)
<1>1. Shaped(f) /\ f.gate = s.gate /\ f.md = s.md /\ f.tree = s.tree
      /\ (s.gate \cap Garble # {} => f.first \in Garble)
  BY FinalizeRoutes
<1> HIDE DEF f
<1>2. ForceRoute(s, route, flat) = [f EXCEPT !.route = route]
  BY DEF ForceRoute, f
<1> QED BY <1>1, <1>2 DEF Shaped

Working == {"ready", "convert", "open", "build", "image", "ladder"}

RejectInv ==
  /\ phase \in Working => Routed(st)
  /\ phase = "open" => st.gate = {}
  /\ phase = "reject" /\ st.tree.defects \cap Garble # {} => st.first \in Garble
  /\ phase = "flat" /\ st.tree.defects \cap Garble # {} => st.md # NoText
  /\ phase # "over" => outcome = "none" /\ content \in Contents
  /\ phase \notin {"write", "over"} => draft = NoId /\ capture # "finalized" /\ ~condemned
  /\ DOMAIN quarantine = Contents
  /\ RejectedIsTraced

LEMMA RejectInit == ASSUME Init PROVE RejectInv
BY DEF Init, RejectInv, RejectedIsTraced, Working

\* A step before the writes that goes on with a routed state or ends the call.
Forward ==
  /\ phase \notin {"write", "over"}
  /\ UNCHANGED <<content, draft, condemned, quarantine>>
  /\ capture' # "finalized"
  /\ \/ phase' \in Working \ {"open"} /\ UNCHANGED outcome /\ Routed(st')
     \/ phase' = "over" /\ outcome' # "rejected"

LEMMA ForwardKeeps == ASSUME RejectInv, Forward PROVE RejectInv'
BY DEF RejectInv, Forward, RejectedIsTraced, Working

LEMMA RejectConvert ==
  ASSUME RejectInv, Convert, UNCHANGED callVars, UNCHANGED storeVars PROVE RejectInv'
<1>0. phase \in Working
  BY DEF Convert, BackendReady, BackendNotReady, ConverterUnavailable, ConverterSucceeds,
         TransientRetry, TransientGivesUp, StructuralFailure, LegacyPageIndex, OpenOther,
         BuildTree, ImageFallback, BuildFails, AtConverter, Working
<1>r. Routed(st) /\ Shaped(st) /\ capture # "finalized" /\ phase \notin {"write", "over"}
  BY <1>0 DEF RejectInv, Routed, Working
<1>c. Released # "finalized"
  BY <1>r DEF Released
<1>1. ASSUME UNCHANGED <<st, outcome>>, phase' \in Working \ {"open"}, capture' # "finalized"
      PROVE  RejectInv'
  BY <1>r, <1>1, ForwardKeeps DEF Forward, Routed, Shaped
<1>2. ASSUME NEW o, o # "rejected", End(o) PROVE RejectInv'
  BY <1>r, <1>c, <1>2, ForwardKeeps DEF Forward, End
<1>3. CASE BackendReady
  BY <1>r, <1>1, <1>3 DEF BackendReady, Stay, Working
<1>4. ASSUME Unavailable PROVE RejectInv'
  BY <1>r, <1>1, <1>2, <1>4 DEF Unavailable, Stay, Working
<1>5. CASE BackendNotReady \/ ConverterUnavailable
  BY <1>4, <1>5 DEF BackendNotReady, ConverterUnavailable
<1>6. CASE \E full \in BOOLEAN : ConverterSucceeds(full)
  <2>1. PICK full \in BOOLEAN : ConverterSucceeds(full)
    BY <1>6
  <2> DEFINE read == [st EXCEPT !.md = "first", !.used = Current, !.renorm = conf.remote, !.full = full]
  <2>2. Routed(read)
    BY <1>r DEF Routed, Shaped, NoText
  <2> QED BY <1>r, <2>1, <2>2, ForwardKeeps DEF ConverterSucceeds, Forward, Stay, Working
<1>7. CASE TransientRetry
  BY <1>r, <1>1, <1>7 DEF TransientRetry, AtConverter, Stay, Working
<1>8. CASE TransientGivesUp
  BY <1>r, <1>1, <1>4, <1>8 DEF AtConverter, Working, TransientGivesUp, WalkOn, LeaveChain, Stay
<1>9. CASE StructuralFailure
  BY <1>r, <1>1, <1>9 DEF AtConverter, Working, StructuralFailure, WalkOn, LeaveChain, Stay
<1>10. CASE LegacyPageIndex
  BY <1>r, <1>1, <1>10 DEF LegacyPageIndex, Stay, Working
<1>11. CASE OpenOther
  <2>1. PICK md : st' = [st EXCEPT !.md = md]
    BY <1>11 DEF OpenOther
  <2>2. st.gate = {}
    BY <1>11 DEF OpenOther, RejectInv
  <2>3. Routed(st')
    BY <1>r, <2>1, <2>2 DEF Routed, Shaped
  <2> QED BY <1>r, <1>11, <2>3, ForwardKeeps DEF OpenOther, Forward, Stay, Working
<1>12. CASE BuildTree
  <2>1. PICK t \in Trees : st' = [Built(st, "first", t) EXCEPT !.total = t.chars]
    BY <1>12 DEF BuildTree
  <2> DEFINE b == Built(st, "first", t)
  <2>2. Routed(b)
    BY <1>r, BuiltRoutes
  <2> HIDE DEF b
  <2>3. Routed([b EXCEPT !.total = t.chars])
    BY <2>2 DEF Routed, Shaped
  <2>4. Routed(st') /\ phase' \in {"image", "ladder"}
    BY <1>12, <2>1, <2>3 DEF b, BuildTree
  <2> QED BY <1>r, <1>12, <2>4, ForwardKeeps DEF BuildTree, Forward, Stay, Working
<1>13. CASE ImageFallback
  <2>1. CASE UNCHANGED st
    BY <1>r, <1>1, <1>13, <2>1 DEF ImageFallback, Stay, Working
  <2>2. ASSUME NEW t \in Trees,
               st' = [Built([st EXCEPT !.md = "vlm"], "vlm", t) EXCEPT !.total = t.chars]
        PROVE  RejectInv'
    <3> DEFINE b == Built([st EXCEPT !.md = "vlm"], "vlm", t)
    <3>1. Shaped([st EXCEPT !.md = "vlm"])
      BY <1>r DEF Shaped
    <3>2. Routed(b)
      BY <3>1, BuiltRoutes
    <3> HIDE DEF b
    <3>3. Routed([b EXCEPT !.total = t.chars])
      BY <3>2 DEF Routed, Shaped
    <3>4. Routed(st')
      BY <2>2, <3>3 DEF b
    <3> QED BY <1>r, <1>13, <3>4, ForwardKeeps DEF ImageFallback, Forward, Stay, Working
  <2> QED BY <1>13, <2>1, <2>2 DEF ImageFallback
<1>14. CASE BuildFails
  BY <1>2, <1>14 DEF BuildFails
<1> QED BY <1>3, <1>5, <1>6, <1>7, <1>8, <1>9, <1>10, <1>11, <1>12, <1>13, <1>14 DEF Convert

LEMMA LeaveForward ==
  ASSUME RejectInv, phase = "ladder", NEW s, Routed(s), Leave(s),
         UNCHANGED callVars, UNCHANGED storeVars
  PROVE  RejectInv'
<1>1. Routed(st')
  <2>1. CASE Len(todo) = 1
    <3>1. Routed([s EXCEPT !.total = s.tree.chars])
      BY DEF Routed, Shaped
    <3> QED BY <2>1, <3>1 DEF Leave
  <2>2. CASE Len(todo) # 1
    BY <2>2 DEF Leave
  <2> QED BY <2>1, <2>2
<1>2. capture # "finalized"
  BY DEF RejectInv
<1> QED BY <1>1, <1>2, ForwardKeeps DEF Leave, Forward, Working

\* The fields a method overwrites beside the tree leave the route sound.
LEMMA TextRoutes ==
  ASSUME NEW s, Routed(s), NEW md, md # NoText
  PROVE  /\ Routed([s EXCEPT !.md = md])
         /\ Routed(ForceRoute([s EXCEPT !.md = md], "flat", conf.flat))
<1> DEFINE m == [s EXCEPT !.md = md]
<1>1. Routed(m) /\ m.md # NoText
  BY DEF Routed, Shaped
<1> HIDE DEF m
<1>2. Routed(ForceRoute(m, "flat", conf.flat))
  BY <1>1, ForceRoutes DEF Routed
<1> QED BY <1>1, <1>2 DEF m

LEMMA RejectOcr ==
  ASSUME RejectInv, NEW m, OcrMethod(m), UNCHANGED callVars, UNCHANGED storeVars
  PROVE  RejectInv'
<1>0. phase = "ladder"
  BY DEF OcrMethod, OcrSkipped, OcrUnavailable, OcrFails, OcrRebuildFails, OcrRebuilt, Turn
<1>r. Routed(st) /\ Shaped(st) /\ capture # "finalized"
  BY <1>0 DEF RejectInv, Routed, Working
<1>t. Routed(OcrText)
  BY <1>r DEF OcrText, Routed, Shaped, NoText
<1>1. CASE OcrSkipped(m)
  BY <1>0, <1>r, <1>1, LeaveForward DEF OcrSkipped
<1>2. CASE OcrUnavailable(m)
  BY <1>0, <1>r, <1>2, ForwardKeeps DEF OcrUnavailable, End, Released, Forward
<1>3. CASE OcrFails(m)
  <2>1. Routed([st EXCEPT !.renorm = FALSE])
    BY <1>r DEF Routed, Shaped
  <2> QED BY <1>0, <1>3, <2>1, LeaveForward DEF OcrFails
<1>4. CASE OcrRebuildFails(m)
  BY <1>0, <1>t, <1>4, LeaveForward DEF OcrRebuildFails
<1>5. CASE OcrRebuilt(m)
  <2>1. PICK t \in Trees : LET post == Built(OcrText, "ocr", t)
                           IN  Leave([post EXCEPT !.full = TRUE]) \/ Leave(Restore(post, st))
    BY <1>5 DEF OcrRebuilt
  <2> DEFINE post == Built(OcrText, "ocr", t)
  <2>2. Routed(post)
    BY <1>t, BuiltRoutes DEF Routed
  <2> HIDE DEF post
  <2>3. Routed([post EXCEPT !.full = TRUE])
    BY <2>2 DEF Routed, Shaped
  <2>4. Routed(Restore(post, st))
    BY <1>r, <2>2 DEF Restore, Routed, Shaped
  <2> QED BY <1>0, <2>1, <2>3, <2>4, LeaveForward DEF post
<1> QED BY <1>1, <1>2, <1>3, <1>4, <1>5 DEF OcrMethod

LEMMA RejectVlm ==
  ASSUME RejectInv, VlmSkipped \/ VlmRebuilt \/ VlmFails, UNCHANGED callVars, UNCHANGED storeVars
  PROVE  RejectInv'
<1>0. phase = "ladder"
  BY DEF VlmSkipped, VlmRebuilt, VlmFails, Turn
<1>r. Routed(st)
  BY <1>0 DEF RejectInv, Working
<1>v. "vlm" # NoText /\ "raster" # NoText
  BY DEF NoText
<1> DEFINE read == [st EXCEPT !.md = "vlm"]
<1>2. Routed(read)
  BY <1>r, <1>v, TextRoutes
<1> HIDE DEF read
<1>3. ASSUME NEW s, Routed(s), NEW r \in Raster(s), Leave(r) PROVE RejectInv'
  BY <1>0, <1>v, <1>3, TextRoutes, LeaveForward DEF Raster
<1>4. CASE VlmSkipped
  BY <1>0, <1>r, <1>4, LeaveForward DEF VlmSkipped
<1>5. CASE VlmRebuilt
  <2>1. PICK t \in Trees : \/ \E r \in Raster(Built(read, "vlm", t)) : Leave(r)
                           \/ Leave(Built(read, "vlm", t))
    BY <1>5 DEF VlmRebuilt, read
  <2>2. Routed(Built(read, "vlm", t))
    BY <1>2, BuiltRoutes DEF Routed
  <2> QED BY <1>0, <1>3, <2>1, <2>2, LeaveForward
<1>6. CASE VlmFails
  <2>1. PICK s \in {st, read} : \E r \in Raster(s) : Leave(r)
    BY <1>6 DEF VlmFails, read
  <2> QED BY <1>r, <1>2, <1>3, <2>1
<1> QED BY <1>4, <1>5, <1>6

LEMMA RejectRtl ==
  ASSUME RejectInv, RtlRepair \/ RtlFlatCompare, UNCHANGED callVars, UNCHANGED storeVars
  PROVE  RejectInv'
<1>0. phase = "ladder"
  BY DEF RtlRepair, RtlFlatCompare, Turn
<1>r. Routed(st)
  BY <1>0 DEF RejectInv, Working
<1>1. ASSUME Leave(st) PROVE RejectInv'
  BY <1>0, <1>r, <1>1, LeaveForward
<1>2. ASSUME NEW t, Leave(Built(st, st.tree.src, t)) PROVE RejectInv'
  <2>1. Routed(Built(st, st.tree.src, t))
    BY <1>r, BuiltRoutes DEF Routed
  <2> QED BY <1>0, <1>2, <2>1, LeaveForward
<1>3. ASSUME st.md # NoText, Leave(ForceRoute(st, "flat", conf.flat)) PROVE RejectInv'
  <2>1. Routed(ForceRoute(st, "flat", conf.flat))
    BY <1>r, <1>3, ForceRoutes DEF Routed
  <2> QED BY <1>0, <1>3, <2>1, LeaveForward
<1> QED BY <1>1, <1>2, <1>3 DEF RtlRepair, RtlFlatCompare

\* The dispatch: a garbled tree is rejected only by the rule for garbled trees,
\* which has recomputed the first defect, and goes flat only with a text.
LEMMA RejectSettle ==
  ASSUME RejectInv, Settle, UNCHANGED callVars, UNCHANGED storeVars PROVE RejectInv'
<1>1. PICK s \in Settled(st) :
        /\ st' = Judge(s)
        /\ phase' = CASE ~Judge(s).ok /\ Judge(s).route = "flat" -> "flat"
                      [] ~Judge(s).ok /\ Judge(s).route = "reject" -> "reject"
                      [] OTHER -> "tree"
  BY DEF Settle
<1>2. phase = "ladder" /\ Routed(st) /\ UNCHANGED <<outcome, capture>>
  BY DEF Settle, Stay, RejectInv, Working
<1>3. Routed(s)
  <2>1. CASE s = st
    BY <1>2, <2>1
  <2>2. CASE s # st
    <3> DEFINE f == ForceRoute(st, "flat", conf.flat)
    <3>1. st.md # NoText /\ s = [f EXCEPT !.ok = FALSE]
      BY <1>1, <2>2 DEF Settled
    <3>2. Routed(f)
      BY <1>2, <3>1, ForceRoutes DEF Routed
    <3> HIDE DEF f
    <3> QED BY <3>1, <3>2 DEF Routed, Shaped
  <2> QED BY <2>1, <2>2
<1>4. /\ st'.tree.defects = s.gate
      /\ st'.route = "reject" /\ st'.tree.defects \cap Garble # {} => st'.first \in Garble
      /\ st'.route = "flat" /\ st'.tree.defects \cap Garble # {} => st'.md # NoText
  <2>1. CASE ~s.ok /\ s.route = "tree" /\ s.first \in Garble
    BY <1>1, <1>3, <2>1, ForceRoutes DEF Judge, Routed
  <2>2. CASE ~(~s.ok /\ s.route = "tree" /\ s.first \in Garble)
    BY <1>1, <1>3, <2>2 DEF Judge, Routed
  <2> QED BY <2>1, <2>2
<1>5. /\ phase' \in {"flat", "reject", "tree"}
      /\ phase' = "flat" => st'.route = "flat"
      /\ phase' = "reject" => st'.route = "reject"
  BY <1>1
<1> QED BY <1>2, <1>4, <1>5 DEF RejectInv, RejectedIsTraced, Working

LEMMA RejectRecover ==
  ASSUME RejectInv, Recover, UNCHANGED callVars, UNCHANGED storeVars PROVE RejectInv'
<1>1. CASE NextGate
  BY <1>1 DEF NextGate, RejectInv, RejectedIsTraced, Routed, Shaped, Working
<1>2. CASE \E m \in Ocrs : OcrMethod(m)
  BY <1>2, RejectOcr
<1>3. CASE VlmSkipped \/ VlmRebuilt \/ VlmFails
  BY <1>3, RejectVlm
<1>4. CASE RtlRepair \/ RtlFlatCompare
  BY <1>4, RejectRtl
<1>5. CASE Settle
  BY <1>5, RejectSettle
<1> QED BY <1>1, <1>2, <1>3, <1>4, <1>5 DEF Recover

\* What a rejection leaves in quarantine.
LEMMA QuarantineKeeps ==
  ASSUME RejectInv, content \in Contents, NEW payload \in BOOLEAN, Quarantine(payload)
  PROVE  /\ DOMAIN quarantine' = Contents
         /\ payload => quarantine'[content] = "payload" \/ lost'
BY DEF Quarantine, RejectInv

LEMMA RejectStep == ASSUME RejectInv, [Next]_vars PROVE RejectInv'
<1>1. CASE \E c \in Contents : Start(c)
  <2>1. PICK c \in Contents : Start(c)
    BY <1>1
  <2>2. /\ st' = Blank /\ content' = c /\ draft' = NoId /\ condemned' = FALSE
        /\ phase' \in {"over", "ready", "convert", "open"}
        /\ capture' \in {"none", "running"}
        /\ phase' # "over" => outcome' = "none"
        /\ outcome' # "rejected"
        /\ quarantine' = quarantine
    BY <2>1 DEF Start, OpenPdf
  <2>3. Routed(Blank) /\ Blank.gate = {}
    BY DEF Blank, Routed, Shaped
  <2> QED BY <2>2, <2>3 DEF RejectInv, RejectedIsTraced, Working
<1>2. CASE Convert /\ UNCHANGED <<ladderVars, callVars, storeVars>>
  BY <1>2, RejectConvert
<1>3. CASE Recover /\ UNCHANGED <<callVars, storeVars>>
  BY <1>3, RejectRecover
<1>4. CASE Reject
  <2>1. /\ phase = "reject" /\ phase' = "over" /\ content \in Contents
        /\ UNCHANGED <<content, st, draft, condemned>>
        /\ draft = NoId /\ ~condemned /\ capture' # "finalized"
    BY <1>4 DEF Reject, End, Released, RejectInv
  <2>2. /\ DOMAIN quarantine' = Contents
        /\ Quarantined(st) => quarantine'[content] = "payload" \/ lost'
    <3>1. Quarantined(st) \in BOOLEAN
      BY DEF Quarantined
    <3> QED BY <1>4, <2>1, <3>1, QuarantineKeeps DEF Reject
  <2>3. st.tree.defects \cap Garble # {} => Quarantined(st)
    BY <2>1 DEF RejectInv, Quarantined
  <2> QED BY <2>1, <2>2, <2>3 DEF RejectInv, RejectedIsTraced, Working
<1>5. CASE FlatWithoutText
  <2>1. /\ phase = "flat" /\ phase' = "over" /\ UNCHANGED <<content, st, draft, condemned, quarantine, lost>>
        /\ draft = NoId /\ ~condemned /\ capture' # "finalized"
        /\ st.md = NoText
    BY <1>5 DEF FlatWithoutText, HasFlatText, End, Released, RejectInv
  <2>2. st.tree.defects \cap Garble = {}
    BY <2>1 DEF RejectInv
  <2> QED BY <2>1, <2>2 DEF RejectInv, RejectedIsTraced, Working
<1>6. CASE FlatGarbled
  <2>1. /\ phase = "flat" /\ phase' = "over" /\ content \in Contents
        /\ UNCHANGED <<content, st, draft>> /\ draft = NoId /\ capture' # "finalized"
    BY <1>6 DEF FlatGarbled, End, Released, RejectInv
  <2>2. /\ DOMAIN quarantine' = Contents
        /\ quarantine'[content] = "payload" \/ lost'
    BY <1>6, <2>1, QuarantineKeeps DEF FlatGarbled
  <2> QED BY <2>1, <2>2 DEF RejectInv, RejectedIsTraced, Working
<1>7. CASE PersistFlat \/ PersistTree
  BY <1>7 DEF PersistFlat, PersistTree, Persist, Stay, RejectInv, RejectedIsTraced, Working
<1>8. CASE WriteNext
  <2>1. phase = "write" /\ outcome = "none"
    BY <1>8 DEF WriteNext, RejectInv
  <2>2. content' = content
    BY <1>8 DEF WriteNext
  <2>3. DOMAIN quarantine' = Contents
    BY <1>8 DEF WriteNext, Artifact, Sidecar, SetHash, ClearQuarantine, RejectInv
  <2>4. \/ phase' = "over" /\ outcome' = "done"
        \/ phase' = "write" /\ outcome' = "none"
    BY <1>8, <2>1 DEF WriteNext, End
  <2> QED BY <2>1, <2>2, <2>3, <2>4 DEF RejectInv, RejectedIsTraced, Working
<1>9. CASE WriteFails
  BY <1>9 DEF WriteFails, End, RejectInv, RejectedIsTraced, Working
<1>10. CASE Killed
  BY <1>10 DEF Killed, RejectInv, RejectedIsTraced, Working
<1>11. CASE UNCHANGED vars
  BY <1>11 DEF vars, RejectInv, RejectedIsTraced, Routed, Shaped, Working
<1> QED BY <1>1, <1>2, <1>3, <1>4, <1>5, <1>6, <1>7, <1>8, <1>9, <1>10, <1>11 DEF Next

\* A call that returns REJECT has minted no document and anchored no table, and
\* the tree or the blocks it condemned as garbled are in quarantine, unless the
\* write of the record failed.
THEOREM RejectTraced == Spec => []RejectedIsTraced
<1>1. Init => RejectInv
  BY RejectInit
<1>2. RejectInv /\ [Next]_vars => RejectInv'
  BY RejectStep
<1>3. RejectInv => RejectedIsTraced
  BY DEF RejectInv
<1> QED BY <1>1, <1>2, <1>3, PTL DEF Spec

=============================================================================
