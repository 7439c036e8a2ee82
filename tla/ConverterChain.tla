----------------------------- MODULE ConverterChain -----------------------------
(***************************************************************************)
(* From the file to the first validated tree: the readiness gate, the chain *)
(* of PDF converters with its failure policy, the legacy page_index path,   *)
(* and the front ends of the other formats.  Sources: client/indexer.py     *)
(* (_convert_to_tree, _docling_unavailable_outcome), converters/pipeline.py *)
(* (pdf_markdown_converters) and tables/anchor.py (PendingTables).          *)
(*                                                                         *)
(* Whether a backoff fits the retry budget and the child's deadline is left *)
(* open; so is what an extraction contains.  HTML and XLSX take the path of *)
(* an office file that LibreOffice could not convert.                       *)
(***************************************************************************)
EXTENDS ExtractionState

CONSTANTS
  Confs,      \* settings of a worker: remote, policy, chain, structural, flat, vlm
  Trees,      \* trees an extraction may yield: [chars, defects]
  Retries     \* CONVERTER_TRANSIENT_RETRY_COUNT

\* docling alone does OCR and is MIT; pymupdf4llm is AGPL, in the chain only
\* when ALLOW_AGPL_FALLBACK lets it, as is the PyMuPDF probe for the pages.
Docling == "docling"
Agpl == "pymupdf4llm"
Chains == {<<>>, <<Docling>>, <<Docling, Agpl>>, <<Agpl, Docling>>, <<Agpl>>}

ASSUME ChainAssumption ==
  /\ \A c \in Confs : /\ c.chain \in Chains
                      /\ c.policy \in {"requeue", "legacy"}
                      /\ {c.remote, c.structural, c.flat, c.vlm} \subseteq BOOLEAN
  /\ \A t \in Trees : t.chars \in Nat /\ t.defects \subseteq Defects
  /\ Retries \in Nat

VARIABLES
  phase,     \* what the call does
  outcome,   \* how it ended
  conf,      \* the settings it runs with
  kind,      \* the format of the file
  st,        \* ExtractionState
  pos,       \* idx of the chain, from 1
  tries,     \* _transient_attempts
  outage,    \* docling's last word was a transient failure or DoclingUnavailable
  capture    \* PendingTables: none, running, joined, finalized, closed

chainVars == <<phase, outcome, conf, kind, st, pos, tries, outage, capture>>

Blank == [md |-> NoText, tree |-> [src |-> NoText, chars |-> 0, defects |-> {}],
          gate |-> {}, ok |-> FALSE, first |-> "node_count_low", route |-> "reject",
          total |-> 0, renorm |-> FALSE, full |-> FALSE, used |-> "none"]

\* The finally block of index(): a capture nobody finalised is closed.
Released == IF capture \in {"running", "joined"} THEN "closed" ELSE capture

\* The call is over; what it returns or raises is o.
End(o) ==
  /\ phase' = "over"
  /\ outcome' = o
  /\ capture' = Released

Stay == UNCHANGED <<outcome, conf, kind>>

\* A table capture starts beside a remote conversion of a file PyMuPDF could
\* count the pages of.
OpenPdf(c) ==
  /\ phase' = IF c.remote THEN "ready" ELSE "convert"
  /\ capture' \in IF c.remote /\ Agpl \in ToSet(c.chain) THEN {"none", "running"} ELSE {"none"}

\* An entry's turn; past the end of the chain page_index takes the file.
AtConverter == phase = "convert" /\ pos <= Len(conf.chain)
Current == conf.chain[pos]
NextIsAgpl == pos < Len(conf.chain) /\ conf.chain[pos + 1] = Agpl
Remote == conf.remote /\ Current = Docling

\* _docling_unavailable_outcome: requeue raises, legacy goes to page_index.
Unavailable ==
  /\ outage' = TRUE
  /\ IF conf.policy = "requeue"
     THEN End("requeued") /\ UNCHANGED <<conf, kind, st, pos, tries>>
     ELSE /\ phase' = "convert"
          /\ pos' = Len(conf.chain) + 1
          /\ Stay /\ UNCHANGED <<st, tries, capture>>

BackendReady ==
  /\ phase = "ready"
  /\ phase' = "convert"
  /\ Stay /\ UNCHANGED <<st, pos, tries, outage, capture>>

BackendNotReady ==
  /\ phase = "ready"
  /\ Unavailable

\* The conversion itself refuses to dial, or its backends are gone.
ConverterUnavailable ==
  /\ AtConverter /\ Remote
  /\ Unavailable

\* The converter returns; full: force_full_page was set.
ConverterSucceeds(full) ==
  /\ AtConverter
  /\ phase' = "build"
  /\ st' = [st EXCEPT !.md = "first", !.used = Current, !.renorm = conf.remote, !.full = full]
  /\ outage' = FALSE
  /\ capture' = IF capture = "running" THEN "joined" ELSE capture
  /\ Stay /\ UNCHANGED <<pos, tries>>

\* ConverterFailurePolicy.RETRY: the same entry again after a backoff.
TransientRetry ==
  /\ AtConverter
  /\ tries < Retries
  /\ tries' = tries + 1
  /\ outage' = (Current = Docling)
  /\ Stay /\ UNCHANGED <<phase, st, pos, capture>>

\* The chain is left for page_index.
LeaveChain ==
  /\ pos' = Len(conf.chain) + 1
  /\ Stay /\ UNCHANGED <<phase, st, tries, capture>>

WalkOn ==
  /\ pos' = pos + 1
  /\ tries' = 0
  /\ Stay /\ UNCHANGED <<phase, st, capture>>

\* Fault: a transient failure walks the chain whatever comes next.
GiveUpAnyhow ==
  /\ AtConverter
  /\ IF pos < Len(conf.chain)
     THEN outage' = (Current = Docling) /\ WalkOn
     ELSE IF Remote THEN Unavailable ELSE outage' = (Current = Docling) /\ LeaveChain

\* No retry is left, or it does not fit: BLOCK_AGPL, REJECT or WALK.
TransientGivesUp ==
  /\ AtConverter
  /\ IF pos < Len(conf.chain) /\ ~NextIsAgpl
     THEN outage' = (Current = Docling) /\ WalkOn
     ELSE IF Remote THEN Unavailable ELSE outage' = (Current = Docling) /\ LeaveChain

\* A parse failure: GATE_AGPL_STRUCTURAL, REJECT or WALK.
StructuralFailure ==
  /\ AtConverter
  /\ outage' = (outage /\ Current # Docling)
  /\ IF pos = Len(conf.chain) \/ (NextIsAgpl /\ ~conf.structural) THEN LeaveChain ELSE WalkOn

\* page_index reads the PDF itself; there is no markdown.
LegacyPageIndex ==
  /\ phase = "convert" /\ pos > Len(conf.chain)
  /\ phase' = "build"
  /\ capture' = IF capture = "running" THEN "joined" ELSE capture
  /\ Stay /\ UNCHANGED <<st, pos, tries, outage>>

\* The other formats: markdown files are built from directly, an image is OCRed,
\* an office file goes through LibreOffice and page_index or through markdown.
OpenOther ==
  /\ phase = "open"
  /\ phase' = "build"
  /\ \E md \in CASE kind = "text" -> {NoText}
                 [] kind = "image" -> {"first"}
                 [] OTHER -> {NoText, "first"} :
        st' = [st EXCEPT !.md = md]
  /\ Stay /\ UNCHANGED <<pos, tries, outage, capture>>

\* A tree built from text src, as validate_tree finds it.
Built(s, src, t) ==
  [Finalize(s, t.defects, conf.flat) EXCEPT
     !.tree = [src |-> src, chars |-> t.chars, defects |-> t.defects]]

ImageTriggers == Garble \cup {"depth_low"}

\* The tree of the first extraction is built and validated; an image whose tree
\* is condemned is read again by Surya and the vision model at once.
BuildTree ==
  /\ phase = "build"
  /\ \E t \in Trees :
       /\ st' = [Built(st, "first", t) EXCEPT !.total = t.chars]
       /\ phase' = IF kind = "image" /\ t.defects \cap ImageTriggers # {} THEN "image" ELSE "ladder"
  /\ Stay /\ UNCHANGED <<pos, tries, outage, capture>>

ImageFallback ==
  /\ phase = "image"
  /\ phase' = "ladder"
  /\ \/ UNCHANGED st
     \/ \E t \in Trees : st' = [Built([st EXCEPT !.md = "vlm"], "vlm", t) EXCEPT !.total = t.chars]
  /\ Stay /\ UNCHANGED <<pos, tries, outage, capture>>

\* The tree builder's LLM calls fail for good.
BuildFails ==
  /\ phase \in {"build", "image"}
  /\ End("failed")
  /\ UNCHANGED <<conf, kind, st, pos, tries, outage>>

Convert ==
  \/ BackendReady
  \/ BackendNotReady
  \/ ConverterUnavailable
  \/ \E full \in BOOLEAN : ConverterSucceeds(full)
  \/ TransientRetry
  \/ TransientGivesUp
  \/ StructuralFailure
  \/ LegacyPageIndex
  \/ OpenOther
  \/ BuildTree
  \/ ImageFallback
  \/ BuildFails

\* An outage of docling never buys an AGPL conversion, and where the policy is
\* to requeue the call ends in a requeue, unless the child is killed first: not in
\* page_index, nor as a failure.
OutageIsRequeued ==
  outage =>
    /\ st.used # Agpl
    /\ phase = "convert" /\ pos > 1 /\ pos <= Len(conf.chain) => Current # Agpl
    /\ conf.remote /\ conf.policy = "requeue" /\ phase \notin {"ready", "convert"} =>
         outcome \in {"requeued", "killed"}

=============================================================================
