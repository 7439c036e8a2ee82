---------------------------- MODULE ExtractionState ----------------------------
(***************************************************************************)
(* The record a document is indexed through, and the rules by which a       *)
(* validated tree becomes a route.  Sources: helpers/types.py               *)
(* (ExtractionState, RecoveryOutcome, decide_route, finalize_gate_and_route)*)
(* and helpers/gates.py (GATES and the eligibility predicates).             *)
(*                                                                         *)
(* A text is the extraction it came from.  A tree is built from a text and  *)
(* carries the defects validate_tree finds in it and its size on a small    *)
(* scale; what validate_tree computes from the characters is an input.      *)
(***************************************************************************)
EXTENDS Integers, Sequences, SequencesExt

\* Where a text came from: the converter chain or the format's own converter,
\* the full-page OCR retry, the vision model, and Tesseract over the rasterised
\* pages.  NoText is md_content = None: page_index reads the PDF itself.
NoText == "none"
Texts == {NoText, "first", "ocr", "vlm", "raster"}

\* The active gates, most severe first.  "density" stands for the three gates
\* of policy PERSIST_FAIL.
GateOrder == <<"garbling", "node_count_low", "depth_low", "node_garbling", "reordered",
               "rtl_reversal", "bidi_degraded", "density">>
Defects == ToSet(GateOrder)
Garble == {"garbling", "node_garbling"}

\* The primary defect: the most severe one, but a garble defect before others.
Primary(D) ==
  LET pool == IF D \cap Garble # {} THEN D \cap Garble ELSE D
      first == CHOOSE i \in DOMAIN GateOrder :
                 GateOrder[i] \in pool /\ \A j \in 1 .. i - 1 : GateOrder[j] \notin pool
  IN  IF D = {} THEN "ok" ELSE GateOrder[first]

\* decide_route over REASON_POLICY.
DecideRoute(defect, flatRouting) ==
  CASE defect \in Garble \cup {"ok", "bidi_degraded"} -> "tree"
    [] defect = "density" -> "persist_fail"
    [] defect \in {"rtl_reversal", "node_count_low", "depth_low"} /\ flatRouting -> "flat"
    [] OTHER -> "reject"

\* finalize_gate_and_route: the single writer of gate, ok, first and route.
Finalize(s, defects, flatRouting) ==
  [s EXCEPT !.gate = defects,
            !.ok = defects = {},
            !.first = Primary(defects),
            !.route = DecideRoute(Primary(defects), flatRouting)]

\* The same with force_route, over the gate result the state has.
ForceRoute(s, route, flatRouting) == [Finalize(s, s.gate, flatRouting) EXCEPT !.route = route]

\* RecoveryOutcome.apply with the fields _execute_ocr_retry captures: not
\* first_defect.
Restore(s, pre) ==
  [s EXCEPT !.tree = pre.tree, !.md = pre.md, !.gate = pre.gate, !.ok = pre.ok,
            !.route = pre.route, !.total = pre.total, !.renorm = pre.renorm, !.used = pre.used]

\* _all_defects.
AllDefects(s) == IF s.gate = {} THEN {s.first} ELSE s.gate

\* The gates with a recovery, in the order of GATES, and the methods each
\* dispatches.
Ladder ==
  <<[defects |-> Garble, methods |-> <<"garble_ocr", "vlm_fallback">>],
    [defects |-> {"node_count_low"}, methods |-> <<"low_content_ocr", "image_dominant_ocr">>],
    [defects |-> {"depth_low"}, methods |-> <<"image_dominant_ocr">>],
    [defects |-> Garble, methods |-> <<"garble_ocr", "vlm_fallback">>],
    [defects |-> {"rtl_reversal"}, methods |-> <<"rtl_repair", "rtl_flat_compare">>]>>

\* GateSpec.recovery_eligible, with the escalation flags on, their default.
Eligible(s, rung) == ~s.ok /\ AllDefects(s) \cap rung.defects # {}

\* _keep_best_wins: whether the retry's tree replaces the one before it.
\* improved: its density of repeated tokens is at least a fifth lower.
KeepBest(pre, total, post, postOk, mdGarbled, improved) ==
  LET was == "garbling" \in pre.defects
      is == "garbling" \in post.defects
  IN  \/ total = 0 /\ post.chars > 0
      \/ post.chars < total /\ ~mdGarbled /\ was
      \/ post.chars = total /\ (postOk \/ (was /\ ~is))
      \/ post.chars > total /\ (~was \/ improved \/ ~is)

=============================================================================
