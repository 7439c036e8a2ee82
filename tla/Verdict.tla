------------------------------- MODULE Verdict -------------------------------
(***************************************************************************)
(* The gates of validate_tree and the verdict stored beside a document.     *)
(* Sources: helpers/gates.py, helpers/verdict.py.                           *)
(*                                                                         *)
(* s is a record of signals (DocumentTree!Signals), facts what else is      *)
(* known of the document: its pages (NoPages), its script, whether its      *)
(* right-to-left text is reversed or came as presentation forms, how much   *)
(* of its pictures is described (a percentage, NoPictures), and what the    *)
(* inspector made of the file.  Ratios are compared as percentages.         *)
(***************************************************************************)
EXTENDS DocumentTree

CONSTANTS NodeGarblePct,           \* garble_node_ratio_threshold
          EmptyPct,                \* empty_node_fraction_threshold
          ManyNodes,               \* the 200 nodes from which density is judged
          NodeFloor, DeepFloor,    \* characters per node, and in deep or Arabic trees
          PageFloor, ArabicFloor,  \* characters per page
          HardLeafPct,             \* hard_fail_max_leaf_ratio
          PassLeafPct,             \* pass_max_leaf_ratio
          PromoLeafPct,            \* CATEGORY_BC_PROMOTION_THRESHOLD
          MarginalChars, FlatChars, ImageChars,
          SmallMin, SmallMax, SmallLowPct, SmallHighPct

\* config.py refuses to start with anything else.
ThresholdOrder == /\ PassLeafPct <= HardLeafPct
                  /\ MarginalChars <= SmallMin
                  /\ SmallMin < SmallMax

ASSUME VerdictAssumption ==
  /\ {HardLeafPct, PassLeafPct, PromoLeafPct, SmallLowPct, SmallHighPct} \subseteq Nat
  /\ {MarginalChars, FlatChars, ImageChars, SmallMin, SmallMax} \subseteq Nat
  /\ ThresholdOrder

NoPages == 0
NoPictures == -1

\* _garble_check_nodes: when no node is garbled by itself, the whole counts
\* as one.
GarbledNodes(tree) ==
  LET alone == Cardinality({i \in DOMAIN tree : Garbled(tree[i].text)})
  IN  IF alone = 0 /\ Garbled(FlatText(tree)) THEN 1 ELSE alone

\* _count_empty_body_nodes: the roots are not counted.
Bodies(tree) == {i \in DOMAIN tree : tree[i].level > 1}
EmptyBodies(tree) == {i \in Bodies(tree) : tree[i].title = 0 /\ Strip(tree[i].text) = << >>}

Arabic(facts) == facts.script = "Arab"
LowDensity(s, facts) ==
  /\ s.nodes >= ManyNodes
  /\ s.chars < s.nodes * (IF s.depth >= 4 \/ Arabic(facts) THEN DeepFloor ELSE NodeFloor)
SuspectDensity(s, facts) ==
  /\ facts.pages # NoPages
  /\ s.chars < facts.pages * (IF Arabic(facts) THEN ArabicFloor ELSE PageFloor)

Fires(defect, s, tree, facts) ==
  CASE defect = "garbling" -> s.garbled
    [] defect = "node_count_low" -> s.nodes < 3
    [] defect = "depth_low" -> s.depth < 2
    [] defect = "node_garbling" -> 100 * GarbledNodes(tree) > NodeGarblePct * s.nodes
    [] defect = "reordered" -> s.reordered
    [] defect = "rtl_reversal" -> facts.reversed
    [] defect = "bidi_degraded" -> facts.reversed \/ facts.presForms
    [] defect = "empty_node_contamination" ->
         100 * Cardinality(EmptyBodies(tree)) > EmptyPct * Cardinality(Bodies(tree))
    [] defect = "low_content_density" -> LowDensity(s, facts)
    [] defect = "suspect_density" -> SuspectDensity(s, facts)

\* GATE_TABLE, most severe first; every gate is evaluated.
GateOrder == <<"garbling", "node_count_low", "depth_low", "node_garbling", "reordered",
               "rtl_reversal", "bidi_degraded", "empty_node_contamination",
               "low_content_density", "suspect_density">>
Fired(s, tree, facts) == {d \in ToSet(GateOrder) : Fires(d, s, tree, facts)}

\* The primary defect: the most severe one, but a garble defect before others.
Garble == {"garbling", "node_garbling"}
Primary(D) ==
  LET pool == IF D \cap Garble # {} THEN D \cap Garble ELSE D
  IN  IF D = {} THEN "ok"
      ELSE GateOrder[Min({i \in DOMAIN GateOrder : GateOrder[i] \in pool})]

\* HARD_FAIL_DEFECTS.
HardFail == {"garbling", "reordered", "empty_node_contamination", "low_content_density",
             "suspect_density"}

Verdict(v, why) == [verdict |-> v, reason |-> why]

\* evaluate_gates: the verdict it settles, if it settles one.  A document
\* judged without a gate result is asked for its order only.
Settled(s, defects) ==
  IF s.nodes = 0 \/ s.chars = 0 THEN {Verdict("FAIL", "zero_content")}
  ELSE IF defects \cap HardFail # {} THEN {Verdict("FAIL", "hard_fail")} ELSE {}
WithoutGates(s) == IF s.reordered THEN {"reordered"} ELSE {}

\* The promotions, in the order in which the first that matches wins.
NoClass == ""   \* of a tree: only flat documents have a content class
Flat(class) == class \in {"flat_prose", "flat_mixed", "flat_table", "flat_kv"}
ImageEnrichment(s, class, facts) ==
  /\ class \in {"flat_prose", "flat_mixed"}
  /\ facts.pictures >= 80
  /\ s.nodes >= 3 /\ ~s.effective /\ s.chars >= ImageChars /\ ~s.garbled
StructuralPass(s, defects) ==
  /\ defects \cap {"node_count_low", "depth_low"} = {}
  /\ Below(s.leaf, PassLeafPct) /\ ~s.effective

\* Fault: a garbled document is promoted as any other.
CatBUnguarded(s, class) ==
  /\ Flat(class)
  /\ Below(s.leaf, PromoLeafPct)
  /\ s.nodes >= 3 /\ s.chars >= FlatChars

CatB(s, class) ==
  /\ Flat(class) /\ ~s.effective
  /\ Below(s.leaf, PromoLeafPct)
  /\ s.nodes >= 3 /\ s.chars >= FlatChars
  /\ 2 * s.images <= s.lines
\* hash_pipe_ratio counts a heading's hash; the pipes of a table row are exempt.
CatC(s, class, facts) ==
  /\ ~Flat(class) /\ ~s.effective
  /\ 100 * s.hashes < s.chars
  /\ Below([s.leaf EXCEPT !.part = 10 * @],
           PromoLeafPct * (IF facts.inspector = "text_based" THEN 12 ELSE 10))

\* Fault: the same of a small one.
SmallDocUnguarded(s, class) ==
  /\ Flat(class)
  /\ s.nodes \in 1 .. 10
  /\ SmallMin <= s.chars /\ s.chars < SmallMax

SmallDoc(s, class) ==
  /\ Flat(class) /\ ~s.effective
  /\ s.nodes \in 1 .. 10
  /\ Below(s.leaf, IF s.nodes <= 5 THEN SmallHighPct ELSE SmallLowPct)
  /\ SmallMin <= s.chars /\ s.chars < SmallMax

PromotionOrder == <<"image_enrichment_promoted", "structural_pass", "cat_b_promoted",
                    "cat_c_promoted", "small_doc_promoted">>
Promotes(path, s, defects, class, facts) ==
  CASE path = "image_enrichment_promoted" -> ImageEnrichment(s, class, facts)
    [] path = "structural_pass" -> StructuralPass(s, defects)
    [] path = "cat_b_promoted" -> CatB(s, class)
    [] path = "cat_c_promoted" -> CatC(s, class, facts)
    [] path = "small_doc_promoted" -> SmallDoc(s, class)

Promotion(s, defects, class, facts) ==
  LET won == {i \in DOMAIN PromotionOrder :
                Promotes(PromotionOrder[i], s, defects, class, facts)}
  IN  IF won = {} THEN "none" ELSE PromotionOrder[Min(won)]

\* _clamp_pass, which looks at the primary defect.
Clamp(why, s, primary) ==
  IF primary = "bidi_degraded" THEN Verdict("MARGINAL", "bidi_degraded")
  ELSE IF s.depth < s.expected /\ ~s.effective THEN Verdict("MARGINAL", "depth_inadequate")
  ELSE Verdict("PASS", why)

\* _classify_image_verdict.
ImageVerdict(facts) ==
  IF facts.pictures >= 80 THEN Verdict("PASS", "image_enrichment_complete")
  ELSE IF facts.pictures > 0 THEN Verdict("MARGINAL", "image_enrichment_partial")
  ELSE Verdict("FAIL", "no_image_enrichment")

\* apply_promotions.
Promote(s, primary, defects, class, facts) ==
  IF class = "image_standalone" THEN ImageVerdict(facts)
  ELSE IF s.chars < MarginalChars THEN Verdict("FAIL", "insufficient_content")
  ELSE IF Above(s.leaf, HardLeafPct) /\ ~ImageEnrichment(s, class, facts)
       THEN Verdict("FAIL", "max_leaf_ratio")
  ELSE LET won == Promotion(s, defects, class, facts)
       IN  IF won = "none" THEN Verdict("MARGINAL", "fallback") ELSE Clamp(won, s, primary)

\* compute_verdict.
ComputeVerdict(s, primary, defects, class, facts) ==
  LET settled == Settled(s, defects)
  IN  IF settled # {} THEN CHOOSE v \in settled : TRUE
      ELSE Promote(s, primary, defects, class, facts)

=============================================================================
