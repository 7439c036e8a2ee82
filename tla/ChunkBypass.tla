------------------------------ MODULE ChunkBypass ------------------------------
(***************************************************************************)
(* Which models a chunk is converted with.  Sources: converters/            *)
(* table_bypass.py, docling_conv.py (_resolve_do_ocr, _apply_chunk_bypass,  *)
(* _decide_chunk_bypass) and the two routes of pipeline.py and             *)
(* docling_conv.py that call them.                                         *)
(*                                                                         *)
(* A request is the document, the classes and table pages sent with it and  *)
(* the switches it is converted under.  The parent decides for a chunk from *)
(* the classes; the chunk's process takes OCR back when what find_tables()  *)
(* reads on its pages shows that nothing is lost.                           *)
(***************************************************************************)
EXTENDS PageClasses

Active(r) ==
  r.classes # None /\ r.chunking /\ Len(r.classes) = Len(r.document)

\* The classes as a chunk sees them: its own, or none.
ClassesOf(r, chunk) ==
  IF Active(r) THEN SubSeq(r.classes, chunk.start + 1, chunk.end + 1) ELSE None

ResolveDoOcr(force, needs, policy, bypassed) ==
  \/ force
  \/ policy = "force_on"
  \/ ~bypassed /\ policy = "page_class" /\ needs

\* Clean text and no image, and tables find_tables() reads in full: OCR adds nothing.
\* A page that could not be scanned is never bypassed.
Ac1(class, page) ==
  /\ class.text
  /\ ~class.images
  /\ class.tables => page.grid \in {"full", "none"}

\* Fault: one page is enough.
BypassOneClean(r, chunk) ==
  /\ Active(r)
  /\ r.bypass
  /\ ~r.force
  /\ \E p \in chunk.start .. chunk.end : Ac1(r.classes[p + 1], r.document[p + 1])

\* decide_bypass: OCR is bypassed only when it is on every page of the chunk.
BypassOcr(r, chunk) ==
  /\ Active(r)
  /\ r.bypass
  /\ ~r.force
  /\ \A p \in chunk.start .. chunk.end : Ac1(r.classes[p + 1], r.document[p + 1])

\* What a chunk of the chunked route is given.  No classes means every model, unless
\* the request lists its table pages.
DecidedChunk(r, chunk) ==
  [tables |->
     \/ chunk.tables
     \/ IF r.listed = None THEN ~Active(r)
        ELSE r.listed \cap (chunk.start .. chunk.end) # {},
   ocr |-> ResolveDoOcr(r.force, chunk.ocr \/ ~Active(r), r.policy, FALSE)]

\* What the single pass of the direct route is given: the union of its pages' needs.
DecidedDirect(r) ==
  [tables |->
     IF Active(r)
     THEN \/ \E i \in DOMAIN r.classes : NeedsTables(r.classes[i])
          \/ r.listed \notin {None, {}}
     ELSE r.listed # {},
   ocr |-> ResolveDoOcr(r.force,
                        Active(r) => \E i \in DOMAIN r.classes : NeedsOcr(r.classes[i]),
                        r.policy, FALSE)]

BypassLabel(ocrOff, tablesOff) ==
  IF ocrOff /\ tablesOff THEN "both"
  ELSE IF ocrOff THEN "ocr"
  ELSE IF tablesOff THEN "tableformer"
  ELSE "none"

\* The bypass takes OCR away, below force and force_on; it never touches TableFormer.
Apply(r, decided, bypassed) ==
  LET ocr == IF bypassed /\ decided.ocr THEN ResolveDoOcr(r.force, FALSE, r.policy, TRUE)
             ELSE decided.ocr
  IN  [ocr |-> ocr, tables |-> decided.tables,
       bypass |-> BypassLabel(decided.ocr /\ ~ocr, ~decided.tables)]

Direct(r) == Len(r.document) <= r.plan.pages

Decided(r, chunk) == IF Direct(r) THEN DecidedDirect(r) ELSE DecidedChunk(r, chunk)

\* What the chunk's process runs with, unless its decision fails: nothing is bypassed then.
Effective(r, chunk) == Apply(r, Decided(r, chunk), BypassOcr(r, chunk))
NothingBypassed(r, chunk) == Apply(r, Decided(r, chunk), FALSE)

ChunksOf(r) ==
  IF Direct(r) THEN <<Chunk(0, Len(r.document) - 1, FALSE, FALSE)>>
  ELSE PlanChunks(Len(r.document), r.plan.pages, IF Active(r) THEN r.classes ELSE None)
=============================================================================
