------------------------------ MODULE LeafSplit ------------------------------
(***************************************************************************)
(* prepare_tree: what is done to a tree before it is judged.  Sources:      *)
(* helpers/tree_split.py.                                                   *)
(*                                                                         *)
(* split_oversized_leaf_nodes walks the leaves in document order and turns  *)
(* one that is long, or that holds legal markers, into a parent with a      *)
(* child per marker; the children are visited in turn.  Then                *)
(* _segment_table_nodes gives each big table of a leaf a node of its own.   *)
(***************************************************************************)
EXTENDS DocumentTree

CONSTANTS MaxChars,       \* max_chars: a longer leaf is oversized
          MarkGap,        \* min_seg_chars of numbered lines and paragraphs
          BlankGap,       \* min_seg_chars of blank lines
          SplitPct,       \* leaf_split_ratio
          Kilo,           \* the 1000 characters of _looks_like_frontmatter_toc
          TableChars,     \* rfc029_table_segment_char_threshold
          MinRows, MinRowsLandscape,
          SinglePct, SinglePctLandscape

MinSegments == 3

IsOrdinal(f) == f.kind \in {"ord", "roman"}
Places(text, P(_)) == Ascending({i \in DOMAIN text : P(text[i])}, Len(text))

\* _longest_increasing_run, as the places in vals it keeps.
RunLengths(vals) ==
  LET best[i \in DOMAIN vals] ==
        1 + Max({0} \cup {best[j] : j \in {k \in 1 .. i - 1 : vals[k] < vals[i]}})
  IN  best
Predecessor(vals, best, i) ==
  {j \in 1 .. i - 1 : vals[j] < vals[i] /\ best[j] = best[i] - 1}
RunOver(vals, best) ==
  LET upTo[i \in DOMAIN vals] ==
        IF best[i] = 1 THEN <<i>> ELSE upTo[Min(Predecessor(vals, best, i))] \o <<i>>
  IN  upTo[Min({i \in DOMAIN vals : \A j \in DOMAIN vals : best[j] <= best[i]})]

LongestRun(vals) == IF vals = << >> THEN << >> ELSE RunOver(vals, RunLengths(vals))

Pick(places, run) == [k \in DOMAIN run |-> places[run[k]]]
Vals(text, places) == [k \in DOMAIN places |-> text[places[k]].val]

\* A start closer than gap to the last one kept is passed over.
Spaced(text, starts, gap) ==
  FoldLeft(LAMBDA kept, i :
             IF kept # << >> /\ Offset(text, i) - Offset(text, Last(kept)) < gap
             THEN kept ELSE Append(kept, i),
           << >>, starts)

\* The segments the starts cut: the last runs to the end of the text.
Segment(text, starts, k) ==
  SubSeq(text, starts[k], IF k < Len(starts) THEN starts[k + 1] - 1 ELSE Len(text))
AllSmall(text, starts) ==
  \A k \in DOMAIN starts : Chars(Segment(text, starts, k)) < MaxChars

\* Where a marker that may stand behind blank lines is found: the pattern of a
\* heading takes up to three of the blank characters before it, that of a
\* numbered line all of them.
Behind(text, i, most) ==
  Min({j \in 1 .. i : /\ \A k \in j .. i - 1 : Blank(text[k])
                      /\ Offset(text, i) - Offset(text, j) <= most})

\* The four fallbacks; << >> when one does not apply.
Cut(text, starts, atLeast) ==
  IF Len(starts) >= atLeast /\ AllSmall(text, starts) THEN starts ELSE << >>
AtHeadings(text) ==
  LET found == Places(text, LAMBDA f : f.kind = "head")
      starts == SelectSeq([k \in DOMAIN found |-> Behind(text, found[k], 3)], LAMBDA i : i > 1)
  IN  Cut(text, starts, 2)
AtNumbers(text) ==
  LET found == Places(text, LAMBDA f : f.kind = "num")
      run == LongestRun(Vals(text, found))
      starts == [k \in DOMAIN run |-> Behind(text, found[run[k]], Chars(text))]
  IN  IF Len(run) < MinSegments THEN << >> ELSE Cut(text, Spaced(text, starts, MarkGap), 2)
AtParagraphs(text) ==
  LET found == Places(text, LAMBDA f : f.kind = "para")
  IN  IF Len(found) < MinSegments THEN << >> ELSE Cut(text, Spaced(text, found, MarkGap), 2)

AtBlankLines(text) ==
  LET ends == {i + 1 : i \in {j \in 2 .. Len(text) :
                 Blank(text[j]) /\ (j = Len(text) \/ ~Blank(text[j + 1]))}}
      starts == Spaced(text, <<1>> \o Ascending(ends, Len(text) + 1), BlankGap)
  IN  IF ends = {} THEN << >> ELSE Cut(text, starts, MinSegments)

FirstOf(cuts) ==
  LET some == {k \in DOMAIN cuts : cuts[k] # << >>}
  IN  IF some = {} THEN << >> ELSE cuts[Min(some)]
Fallback(text, concentrated) ==
  FirstOf(<<AtHeadings(text), AtNumbers(text), AtParagraphs(text),
            IF concentrated THEN AtBlankLines(text) ELSE << >>>>)

\* The ordinal markers: one Roman numeral alone is no numbering.
Ordinals(text) ==
  IF Len(SelectSeq(text, LAMBDA f : f.kind = "roman")) = 1
  THEN Places(text, LAMBDA f : f.kind = "ord")
  ELSE Places(text, IsOrdinal)

\* _looks_like_frontmatter_toc; a dotted line brings the long word it asks for.
FrontMatter(text) ==
  LET leaders == Len(SelectSeq(text, LAMBDA f : f.kind = "leader"))
  IN  /\ text # << >>
      /\ leaders > 0 /\ leaders * Kilo >= Chars(text)
      /\ 10 * Kilo * Len(Ordinals(text)) < Chars(text)

\* Where a leaf is cut: share is its share of the tree, concentrated whether
\* the tree's largest leaf had more than leaf_split_ratio of it.
Cuts(text, share, concentrated) ==
  LET marks == Ordinals(text)
      run == LongestRun(Vals(text, marks))
  IN  IF \/ /\ Chars(text) <= MaxChars
            /\ \A i \in DOMAIN text : ~IsOrdinal(text[i])
            /\ ~Above(share, SplitPct)
         \/ FrontMatter(text)
      THEN << >>
      ELSE IF Len(run) >= MinSegments THEN Pick(marks, run) ELSE Fallback(text, concentrated)

\* _apply_split: the text before the first cut stays, each segment becomes a
\* child whose title repeats its first line.
FirstLine(segment) == IF segment = << >> \/ Blank(segment[1]) THEN 0 ELSE segment[1].len
ChildNodes(node, starts) ==
  [k \in DOMAIN starts |->
     [level |-> node.level + 1, title |-> FirstLine(Segment(node.text, starts, k)),
      text |-> Segment(node.text, starts, k), page |-> node.page]]

\* Fault: what stands before the first cut goes.
ParentEmptied(node, starts) == [node EXCEPT !.text = << >>]

Parent(node, starts) == [node EXCEPT !.text = SubSeq(node.text, 1, starts[1] - 1)]
Branch(tree, i, parent, children) ==
  SubSeq(tree, 1, i - 1) \o <<parent>> \o children \o SubSeq(tree, i + 1, Len(tree))
ApplySplit(tree, i, starts) ==
  Branch(tree, i, Parent(tree[i], starts), ChildNodes(tree[i], starts))

Share(node, tree) == [part |-> NodeChars(node), whole |-> LeafRatio(tree).whole]

\* One leaf of split_oversized_leaf_nodes; first is the tree before any split.
SplitLeaf(tree, i, first) ==
  LET starts == IF IsLeaf(tree, i)
                THEN Cuts(tree[i].text, Share(tree[i], first), Above(LeafRatio(first), SplitPct))
                ELSE << >>
  IN  IF starts = << >> THEN tree ELSE ApplySplit(tree, i, starts)

\* The tables of a leaf: spans of pipe rows and blank lines, without the blank
\* lines at their end, with enough rows below a separator.
PipeRow(f) == f.kind \in {"row", "single", "sep"}
InSpan(f) == PipeRow(f) \/ Blank(f)
Spans(text) ==
  {p \in (DOMAIN text) \X (DOMAIN text) :
     /\ p[1] <= p[2] /\ PipeRow(text[p[1]]) /\ PipeRow(text[p[2]])
     /\ \A i \in p[1] .. p[2] : InSpan(text[i])
     /\ \A i \in 1 .. p[1] - 1 : PipeRow(text[i]) => \E j \in i .. p[1] : ~InSpan(text[j])
     /\ \A i \in p[2] + 1 .. Len(text) : PipeRow(text[i]) => \E j \in p[2] .. i : ~InSpan(text[j])}
DataRows(text, p) ==
  {i \in p[1] .. p[2] : /\ text[i].kind \in {"row", "single"}
                        /\ \E j \in p[1] .. i : text[j].kind = "sep"}
BigTable(text, p, landscape) ==
  LET rows == DataRows(text, p)
      singles == {i \in rows : text[i].kind = "single"}
  IN  /\ Cardinality(rows) >= IF landscape THEN MinRowsLandscape ELSE MinRows
      /\ 100 * Cardinality(singles)
           <= (IF landscape THEN SinglePctLandscape ELSE SinglePct) * Cardinality(rows)
Tables(text, landscape) ==
  LET big == {p \in Spans(text) : BigTable(text, p, landscape)}
      firsts == Ascending({p[1] : p \in big}, Len(text))
  IN  [k \in DOMAIN firsts |-> CHOOSE p \in big : p[1] = firsts[k]]

\* str.rstrip() of the pieces; what lies between two tables may be nothing.
RStrip(text) == IF Strip(text) = << >> THEN << >>
                ELSE SubSeq(text, 1, Max({i \in DOMAIN text : ~Blank(text[i])}))
TextPieces(text, tables) ==
  LET from(k) == IF k = 1 THEN 1 ELSE tables[k - 1][2] + 1
      piece(k) == <<RStrip(SubSeq(text, from(k), tables[k][1] - 1)),
                    SubSeq(text, tables[k][1], tables[k][2])>>
      all == FlattenSeq([k \in DOMAIN tables |-> piece(k)])
  IN  SelectSeq(Append(all, RStrip(SubSeq(text, Last(tables)[2] + 1, Len(text)))),
                LAMBDA t : t # << >>)
Newlines(text) == SelectSeq(text, LAMBDA f : f.kind # "blank")

TableLeaf(tree, i, landscape) ==
  /\ IsLeaf(tree, i)
  /\ Chars(tree[i].text) > TableChars
  /\ Tables(tree[i].text, landscape) # << >>

\* _split_node: not when a piece would be the only one, or when the pieces do
\* not add up to the text.
SegmentLeaf(tree, i, landscape) ==
  LET node == tree[i]
      pieces == TextPieces(node.text, Tables(node.text, landscape))
      child(k) == [level |-> node.level + 1, title |-> node.title, text |-> pieces[k],
                   page |-> NoIndex]
  IN  IF ~TableLeaf(tree, i, landscape) \/ Len(pieces) < 2
         \/ Newlines(FlattenSeq(pieces)) # Newlines(node.text)
      THEN tree
      ELSE Branch(tree, i, [node EXCEPT !.text = << >>], [k \in DOMAIN pieces |-> child(k)])

=============================================================================
