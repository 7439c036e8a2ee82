----------------------------- MODULE DocumentTree -----------------------------
(***************************************************************************)
(* What the quality checks measure.  Sources: helpers/tree_validation.py,   *)
(* helpers/garble.py.                                                       *)
(*                                                                         *)
(* A text is a sequence of fragments: lines, or the parts of a line that    *)
(* begin at a legal marker.  A fragment records how it begins (kind, val),  *)
(* how many characters it has (len) and what is wrong with them (harm):     *)
(* "noise" counts towards the shares the garble prongs bound, a "mark"      *)
(* (a replacement character, a presentation form) condemns what it is in.   *)
(*                                                                         *)
(* A tree is the sequence of its nodes in preorder; a node has its level,   *)
(* the length of its title, its text and the line or page it starts at      *)
(* (NoIndex: neither start_index nor line_num).  Characters that join the   *)
(* parts of a text are not counted.                                         *)
(***************************************************************************)
EXTENDS Integers, Sequences, FiniteSets, SequencesExt

CONSTANTS Window,       \* characters of a window of _garble_ratio
          NoisePct,     \* the share of noise from which a text is garbled
          GarblePct,    \* garble_window_ratio_threshold
          DepthScale    \* the 100 of expected_min_depth

NoIndex == -1

Blank(f) == f.kind \in {"blank", "pad"}

Chars(text) == MapThenSumSet(LAMBDA i : text[i].len, DOMAIN text)

\* The members of S, which are among 1 .. n, in order.
Ascending(S, n) == SelectSeq([i \in 1 .. n |-> i], LAMBDA i : i \in S)

\* str.strip().
Strip(text) ==
  LET solid == {i \in DOMAIN text : ~Blank(text[i])}
  IN  IF solid = {} THEN << >> ELSE SubSeq(text, Min(solid), Max(solid))

NodeChars(node) == node.title + Chars(node.text)

IsLeaf(tree, i) == i = Len(tree) \/ tree[i + 1].level <= tree[i].level
LeavesOf(tree) == {i \in DOMAIN tree : IsLeaf(tree, i)}

\* _flatten_tree_text.
TitleOf(node) == [kind |-> "title", val |-> 0, len |-> node.title, harm |-> "clean"]
FlatText(tree) ==
  FlattenSeq([i \in DOMAIN tree |->
    (IF tree[i].title > 0 THEN <<TitleOf(tree[i])>> ELSE << >>) \o tree[i].text])

\* _tree_max_leaf_ratio, as a part of a whole; a ratio of nothing is 0.
LeafRatio(tree) ==
  LET whole == MapThenSumSet(LAMBDA i : NodeChars(tree[i]), LeavesOf(tree))
  IN  [part |-> Max({0} \cup {NodeChars(tree[i]) : i \in LeavesOf(tree)}),
       whole |-> Max({1, whole})]
Below(r, pct) == 100 * r.part < pct * r.whole
Above(r, pct) == 100 * r.part > pct * r.whole

\* detect_garble: a prong of presence, or the share of what is damaged.
Garbled(text) ==
  LET noise == Chars(SelectSeq(text, LAMBDA f : f.harm = "noise"))
  IN  \/ \E i \in DOMAIN text : text[i].harm = "mark"
      \/ noise > 0 /\ 100 * noise >= NoisePct * Chars(text)

\* _garble_ratio: the share of windows that are garbled each on its own.
Offset(text, i) == Chars(SubSeq(text, 1, i - 1))
Windows(text) ==
  {SelectSeq([i \in DOMAIN text |-> [text[i] EXCEPT !.val = i]],
             LAMBDA f : Offset(text, f.val) \div Window = k)
     : k \in {Offset(text, i) \div Window : i \in DOMAIN text}}
GarbleRatio(text) ==
  [part |-> Cardinality({w \in Windows(text) : Garbled(w)}),
   whole |-> Max({1, Cardinality(Windows(text))})]

\* _tree_is_reordered: a leaf starts before one that precedes it.
Reordered(tree) ==
  \E i, j \in LeavesOf(tree) : /\ i < j
                             /\ tree[j].page # NoIndex
                             /\ tree[j].page < tree[i].page

\* TreeSignals.from_tree.
ExpectedDepth(nodes) == Max({0} \cup {d \in 2 .. 4 : nodes >= 2 ^ (d - 2) * DepthScale})
Signals(tree) ==
  LET text == FlatText(tree)
      garbled == Garbled(text)
  IN  [nodes |-> Len(tree),
       depth |-> Max({0} \cup {tree[i].level : i \in DOMAIN tree}),
       leaf |-> LeafRatio(tree),
       chars |-> Chars(Strip(text)),
       garbled |-> garbled,
       effective |-> garbled /\ ~Below(GarbleRatio(text), GarblePct),
       reordered |-> Reordered(tree),
       expected |-> ExpectedDepth(Len(tree)),
       hashes |-> Len(SelectSeq(text, LAMBDA f : f.kind = "head")),
       images |-> Len(SelectSeq(text, LAMBDA f : f.kind = "image")),
       lines |-> Len(SelectSeq(text, LAMBDA f : ~Blank(f)))]

=============================================================================
