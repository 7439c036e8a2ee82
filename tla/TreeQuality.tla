----------------------------- MODULE TreeQuality -----------------------------
(***************************************************************************)
(* From a converted tree to the verdict stored with the document: the       *)
(* transforms of prepare_tree, the gates, the route, and the verdict on the *)
(* tree or on the blocks of its text.  Sources: client/indexer.py           *)
(* (_build_and_validate, _persist_tree_result, _persist_flat_result),       *)
(* helpers/.                                                                *)
(*                                                                         *)
(* No recovery runs here (RecoveryLadder): a document is judged on the text *)
(* it has.                                                                  *)
(***************************************************************************)
EXTENDS LeafSplit, Verdict, FlatBlocks

\* The documents: a tree as a converter builds it, and what else is known.
CONSTANT Cases

ASSUME CasesAreKnown ==
  \A c \in Cases :
    c.facts \in [pages : Nat, script : STRING, reversed : BOOLEAN, presForms : BOOLEAN,
                orientation : STRING, pictures : Int, inspector : STRING]

VARIABLES
  source,       \* the tree as it came
  facts,
  tree,      \* the tree as it is
  at,        \* the node a transform has reached
  step,     \* "split", "segment", "gate", "verdict", "over"
  defects,   \* the gates that fired, once they were asked
  route,     \* "none", "tree", "flat", "reject"
  blocks,    \* the blocks of a flat document
  judged     \* the verdict stored, Unjudged before and after a rejection

treeVars == <<source, facts, tree, at, step, defects, route, blocks, judged>>

Unjudged == Verdict("none", "none")
Landscape == facts.orientation = "landscape"

TreeInit ==
  /\ \E c \in Cases : source = c.doc /\ facts = c.facts
  /\ tree = source /\ at = 1 /\ step = "split"
  /\ defects = {} /\ route = "none" /\ blocks = << >> /\ judged = Unjudged

Judging == <<defects, route, blocks, judged>>

\* split_oversized_leaf_nodes: the children of a leaf just cut come next.
Split ==
  /\ step = "split" /\ at <= Len(tree)
  /\ tree' = SplitLeaf(tree, at, source)
  /\ at' = at + 1
  /\ UNCHANGED <<source, facts, step, Judging>>

SplitDone ==
  /\ step = "split" /\ at > Len(tree)
  /\ step' = "segment" /\ at' = 1
  /\ UNCHANGED <<source, facts, tree, Judging>>

\* _segment_table_nodes: the children made are not looked at again.
SegmentTables ==
  /\ step = "segment" /\ at <= Len(tree)
  /\ tree' = SegmentLeaf(tree, at, Landscape)
  /\ at' = at + 1 + Len(tree') - Len(tree)
  /\ UNCHANGED <<source, facts, step, Judging>>

SegmentDone ==
  /\ step = "segment" /\ at > Len(tree)
  /\ step' = "gate" /\ at' = 1
  /\ UNCHANGED <<source, facts, tree, Judging>>

\* decide_route.  Garbling that nothing recovers is rejected, unless the pages
\* are read once more as a flat text (which may be as bad).
Routes(primary) ==
  CASE primary \in {"rtl_reversal", "node_count_low", "depth_low"} -> {"flat"}
    [] primary \in Garble -> {"reject", "flat"}
    [] primary = "reordered" -> {"reject"}
    [] OTHER -> {"tree"}

\* validate_tree and finalize_gate_and_route; a flat document is read again
\* from the markdown.
Gate ==
  /\ step = "gate"
  /\ defects' = Fired(Signals(tree), tree, facts)
  /\ route' \in Routes(Primary(defects'))
  /\ blocks' = IF route' = "flat" THEN Extract(Markdown(source)) ELSE << >>
  /\ step' = IF route' = "reject" THEN "over" ELSE "verdict"
  /\ UNCHANGED <<source, facts, tree, at, judged>>

\* _persist_tree_result.
JudgeTree ==
  /\ step = "verdict" /\ route = "tree"
  /\ judged' = ComputeVerdict(Signals(tree), Primary(defects), defects, NoClass, facts)
  /\ step' = "over"
  /\ UNCHANGED <<source, facts, tree, at, defects, route, blocks>>

\* _persist_flat_result: rejected when the blocks are garbled, judged by their
\* own signals otherwise.
FlatReject ==
  /\ step = "verdict" /\ route = "flat" /\ BlocksGarbled(blocks)
  /\ route' = "reject" /\ step' = "over"
  /\ UNCHANGED <<source, facts, tree, at, defects, blocks, judged>>

JudgedFlat == IF blocks = << >> THEN tree ELSE FlatTree(Cleared(blocks))
JudgeFlat ==
  /\ step = "verdict" /\ route = "flat" /\ ~BlocksGarbled(blocks)
  /\ LET s == Signals(JudgedFlat)
     IN  judged' = ComputeVerdict(s, "ok", WithoutGates(s), ContentClass(blocks), facts)
  /\ step' = "over"
  /\ UNCHANGED <<source, facts, tree, at, defects, route, blocks>>

TreeNext ==
  \/ Split \/ SplitDone
  \/ SegmentTables \/ SegmentDone
  \/ Gate \/ JudgeTree \/ FlatReject \/ JudgeFlat

TreeSpec == TreeInit /\ [][TreeNext]_treeVars

-----------------------------------------------------------------------------
TypeOK ==
  /\ tree \in Seq([level : Nat, title : Nat, text : Seq([kind : STRING, val : Nat, len : Nat,
                    harm : {"clean", "noise", "mark"}]), page : Nat \cup {NoIndex}])
  /\ at \in Nat \ {0}
  /\ step \in {"split", "segment", "gate", "verdict", "over"}
  /\ defects \subseteq ToSet(GateOrder)
  /\ route \in {"none", "tree", "flat", "reject"}
  /\ judged.verdict \in {"none", "PASS", "MARGINAL", "FAIL"}

\* No step loses, repeats or moves a line: the texts of the nodes, read in
\* order, stay those of the document.  Only table segmentation drops blank
\* lines, and no blank that is more than a newline; the blocks of a flat document
\* hold every line but gaps, separators and bare pictures as often as it is in the
\* document, and those outside tables, whose rows a continuation moves, in its order.
\* And a leaf is cut into at least two, each with less text than it had: the
\* recursion into the children ends whatever the text is.
TextOf(t) == FlattenSeq([i \in DOMAIN t |-> t[i].text])
SameText ==
  /\ Newlines(TextOf(tree')) = Newlines(TextOf(tree))
  /\ step = "split" => TextOf(tree') = TextOf(tree)
LinesOf(bs) == FlattenSeq([k \in DOMAIN bs |-> bs[k].text])
Count(lines, f) == Cardinality({k \in DOMAIN lines : lines[k] = f})
SameLines ==
  step = "gate" /\ route' = "flat" =>
    LET md == Markdown(source)
        roles == Roles(md)
        Lines(these) == [k \in DOMAIN these |-> md[these[k]]]
        kept == Lines(Ascending({i \in DOMAIN md : Carries(roles[i], md[i])}, Len(md)))
        loose == Lines(Ascending({i \in DOMAIN md : Carries(roles[i], md[i])
                                                   /\ roles[i] \notin {"header", "data"}}, Len(md)))
    IN  /\ \A f \in ToSet(md) : Count(LinesOf(blocks'), f) = Count(kept, f)
        /\ LinesOf(SelectSeq(blocks', LAMBDA b : b.role # "table")) = loose
CutsShrink ==
  Len(tree') > Len(tree) =>
    /\ Len(tree') >= Len(tree) + 2
    /\ \A i \in at + 1 .. at + Len(tree') - Len(tree) :
         Len(tree'[i].text) < Len(tree[at].text)
TextKept == [][SameText /\ SameLines /\ CutsShrink]_treeVars

\* What is stored as PASS is what it says.  Its leaves are in order.  A tree has none
\* of the defects of the gates, so nothing in it is garbled.  The blocks of a flat
\* document that are garbled hold less of its text than the threshold of the flat
\* reject, which need not be nothing.  A document of pictures only passes by nothing
\* but their descriptions (image_enrichment_complete); any other has enough text,
\* fewer garbled windows than their threshold, and no leaf that holds nearly
\* everything unless its pictures are described (apply_promotions, P7).
PassIsClean ==
  judged.verdict = "PASS" =>
    LET s == Signals(IF route = "tree" THEN tree ELSE JudgedFlat)
    IN  /\ route \in {"tree", "flat"}
        /\ ~s.reordered
        /\ route = "tree" => defects = {} /\ ~s.garbled
        /\ route = "flat" => ~BlocksGarbled(blocks)
        /\ IF route = "flat" /\ ContentClass(blocks) = "image_standalone"
           THEN facts.pictures >= 80
           ELSE /\ ~s.effective
                /\ ~(s.chars < MarginalChars)
                /\ Above(s.leaf, HardLeafPct) => facts.pictures >= 80

\* A document that measures better is not judged worse: less of it in one leaf,
\* no garbling, more of its pictures described.
Rank == [FAIL |-> 0, MARGINAL |-> 1, PASS |-> 2]
Better(s) ==
  {s, [s EXCEPT !.garbled = FALSE, !.effective = FALSE]}
    \cup {[s EXCEPT !.leaf.part = p] : p \in 1 .. s.leaf.part}
Again(s, f) ==
  IF route = "tree" THEN ComputeVerdict(s, Primary(defects), defects, NoClass, f)
  ELSE ComputeVerdict(s, "ok", WithoutGates(s), ContentClass(blocks), f)
VerdictMonotone ==
  judged # Unjudged =>
    \A t \in Better(Signals(IF route = "tree" THEN tree ELSE JudgedFlat)) :
      \A pictures \in {facts.pictures, 80} :
        pictures >= facts.pictures =>
          Rank[Again(t, [facts EXCEPT !.pictures = pictures]).verdict] >= Rank[judged.verdict]

=============================================================================
