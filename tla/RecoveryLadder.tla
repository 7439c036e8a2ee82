----------------------------- MODULE RecoveryLadder -----------------------------
(***************************************************************************)
(* The recovery of a tree that failed its gates: each eligible gate          *)
(* dispatches its methods, each method once per document; then the density  *)
(* check and the reject rule for garbled trees.  Sources: client/recovery.py*)
(* and the loop of client/indexer.py:index that drives it.                  *)
(*                                                                         *)
(* A method is one step: between its awaits nothing else touches the state. *)
(* What an extraction, a heuristic or a remote call yields is left open.    *)
(* _recover_landscape_reroute is left out: it needs an ok tree and then      *)
(* leaves an ok tree alone.                                                 *)
(***************************************************************************)
EXTENDS ConverterChain

CONSTANT LowContentFloor   \* low_content_ocr_char_floor, on the scale of chars

VARIABLES
  rung,     \* the gate the loop is at
  todo,     \* methods this gate still dispatches
  fired     \* _fired_methods

ladderVars == <<rung, todo, fired>>

Ocrs == {"garble_ocr", "low_content_ocr", "image_dominant_ocr"}
Paged == kind \in {"pdf", "image"}

\* The next gate: its methods that have not run yet, or the next gate again.
NextGate ==
  /\ phase = "ladder" /\ todo = <<>> /\ rung < Len(Ladder)
  /\ rung' = rung + 1
  /\ LET next == Ladder[rung + 1]
         new == IF Eligible(st, next) THEN SelectSeq(next.methods, LAMBDA m : m \notin fired)
                ELSE <<>>
     IN  todo' = new /\ fired' = fired \cup ToSet(new)
  /\ UNCHANGED chainVars

\* A method is through; behind the last one of a gate total_chars is counted anew.
Leave(s) ==
  /\ todo' = Tail(todo)
  /\ st' = IF Len(todo) = 1 THEN [s EXCEPT !.total = s.tree.chars] ELSE s
  /\ UNCHANGED <<rung, fired, phase, outcome, conf, kind, pos, tries, outage, capture>>

Turn(m) == phase = "ladder" /\ todo # <<>> /\ Head(todo) = m

\* The early returns of the three OCR methods.  dominant: more than half of the
\* lines of the markdown are image markers.
WantsOcr(m, dominant) ==
  /\ ~st.ok /\ Paged /\ ~st.full
  /\ CASE m = "low_content_ocr" -> st.total < LowContentFloor
       [] m = "image_dominant_ocr" -> conf.flat /\ st.md # NoText /\ dominant
       [] OTHER -> TRUE

OcrSkipped(m) ==
  /\ Turn(m)
  /\ \E dominant \in BOOLEAN : ~WantsOcr(m, dominant)
  /\ Leave(st)

\* An image is OCRed in the worker, a PDF wherever its converter runs.
OcrRemote == kind = "pdf" /\ conf.remote

\* DoclingUnavailable: the readiness gate under requeue, and the conversion
\* itself under either policy, leave the call.
OcrUnavailable(m) ==
  /\ Turn(m) /\ WantsOcr(m, TRUE) /\ OcrRemote
  /\ End("requeued")
  /\ UNCHANGED <<conf, kind, st, pos, tries, outage, ladderVars>>

\* The retry ends before it has a text (a failed conversion, or the gate under
\* the legacy policy); bidi_renorm_applied has been cleared by then.
OcrFails(m) ==
  /\ Turn(m) /\ WantsOcr(m, TRUE)
  /\ Leave([st EXCEPT !.renorm = FALSE])

\* The state with the retry's text; a remote one is renormalised again.
OcrText == [st EXCEPT !.md = "ocr", !.used = IF kind = "pdf" THEN Docling ELSE @,
                      !.renorm = OcrRemote]

\* The tree of the new text cannot be built: the text stays, over the old tree.
OcrRebuildFails(m) ==
  /\ Turn(m) /\ WantsOcr(m, TRUE)
  /\ Leave(OcrText)

\* The tree of the new text is built and validated, and keep-best decides.
OcrRebuilt(m) ==
  /\ Turn(m) /\ WantsOcr(m, TRUE)
  /\ \E t \in Trees, mdGarbled, improved \in BOOLEAN :
       LET post == Built(OcrText, "ocr", t)
       IN  IF KeepBest(st.tree, st.total, t, post.ok, mdGarbled, improved)
           THEN Leave([post EXCEPT !.full = TRUE])
           ELSE Leave(Restore(post, st))

OcrMethod(m) ==
  \/ OcrSkipped(m)
  \/ OcrUnavailable(m)
  \/ OcrFails(m)
  \/ OcrRebuildFails(m)
  \/ OcrRebuilt(m)

\* The vision model is the last resort against garbling, unless a full-page OCR
\* has dealt with the garbling of the whole tree.
WantsVlm == ~st.ok /\ Paged /\ conf.vlm /\ ~(st.full /\ st.first # "garbling")

VlmSkipped ==
  /\ Turn("vlm_fallback") /\ ~WantsVlm
  /\ Leave(st)

\* Tesseract over the rasterised pages, which finds a text or none.
Raster(s) == {s, ForceRoute([s EXCEPT !.md = "raster"], "flat", conf.flat)}

\* The model's text becomes the tree.
VlmRebuilt ==
  /\ Turn("vlm_fallback") /\ WantsVlm
  /\ \E t \in Trees :
       LET s == Built([st EXCEPT !.md = "vlm"], "vlm", t)
       IN  \E r \in IF s.first \in Garble THEN Raster(s) ELSE {s} : Leave(r)

\* It is refused, fails, or its tree cannot be built (the text stays then).
VlmFails ==
  /\ Turn("vlm_fallback") /\ WantsVlm
  /\ \E s \in {st, [st EXCEPT !.md = "vlm"]} : \E r \in Raster(s) : Leave(r)

\* The nodes' text is put in order in place, unless the markdown was already.
WantsRtl == ~st.ok /\ "rtl_reversal" \in AllDefects(st) /\ Paged /\ ~st.renorm

RtlRepair ==
  /\ Turn("rtl_repair")
  /\ IF WantsRtl
     THEN \E t \in Trees : t.chars = st.tree.chars /\ Leave(Built(st, st.tree.src, t))
     ELSE Leave(st)

\* A flat extraction that reads the right way is preferred to a reversed tree.
RtlFlatCompare ==
  /\ Turn("rtl_flat_compare")
  /\ \/ Leave(st)
     \/ /\ ~st.ok /\ "rtl_reversal" \in AllDefects(st)
        /\ kind = "pdf" /\ conf.flat /\ st.md # NoText
        /\ Leave(ForceRoute(st, "flat", conf.flat))

\* _recover_flat_prefer: an ok tree with far less text than its markdown goes
\* flat.
Settled(s) ==
  {s} \cup IF s.ok /\ s.md # NoText /\ conf.flat /\ s.tree.chars > 0
           THEN {[ForceRoute(s, "flat", conf.flat) EXCEPT !.ok = FALSE]} ELSE {}

\* Garbling that survived the ladder is rejected, not persisted (D2-C).
Judge(s) ==
  IF ~s.ok /\ s.route = "tree" /\ s.first \in Garble THEN ForceRoute(s, "reject", conf.flat) ELSE s

\* The loop is through.
Settle ==
  /\ phase = "ladder" /\ todo = <<>> /\ rung = Len(Ladder)
  /\ \E s \in Settled(st) :
       /\ st' = Judge(s)
       /\ phase' = CASE ~Judge(s).ok /\ Judge(s).route = "flat" -> "flat"
                     [] ~Judge(s).ok /\ Judge(s).route = "reject" -> "reject"
                     [] OTHER -> "tree"
  /\ Stay /\ UNCHANGED <<pos, tries, outage, capture, ladderVars>>

Recover ==
  \/ NextGate
  \/ \E m \in Ocrs : OcrMethod(m)
  \/ VlmSkipped
  \/ VlmRebuilt
  \/ VlmFails
  \/ RtlRepair
  \/ RtlFlatCompare
  \/ Settle

=============================================================================
