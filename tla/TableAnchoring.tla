---------------------------- MODULE TableAnchoring ----------------------------
(***************************************************************************)
(* From captured tables to nodes of the tree.  Sources: tables/anchor.py,   *)
(* tables/schema.py, tables/describe.py and tables/_capture_child.py.       *)
(*                                                                         *)
(* A record is [page, src, top, area, cov, cells]: its page, which of the   *)
(* two sources read it, how far down the page it is, the region its box     *)
(* covers (boxes of one region contain each other), the share of the page's *)
(* text in it, and the tokens of its cells.  A tree is the sequence of its  *)
(* nodes in document order, [depth, title, seg, cells]; seg marks a table   *)
(* segment.  A title is a sequence of words.  Nodes are named by their      *)
(* position, a table's own new node by its parent and a number.             *)
(***************************************************************************)
EXTENDS Integers, Sequences, FiniteSets, SequencesExt

Pymupdf == "pymupdf"
Tableformer == "tableformer"

NoNode == <<"none">>
InTree(i) == <<"tree", i>>
OwnNode(i, k) == <<"own", i, k>>

-----------------------------------------------------------------------------
(* The records.                                                            *)

\* scan_page: ruled tables everywhere; tables by alignment only on a page with
\* aligned columns of which the ruled ones cover less than half (open).
Scan(content, strategies) ==
  (IF "lines" \in strategies THEN content.lines ELSE {})
    \cup (IF "text" \in strategies /\ content.aligned /\ content.open THEN content.text ELSE {})

\* assign_table_ids: numbered per page and source in reading order.
TableId(r, recs) ==
  <<r.page, r.src, Cardinality({o \in recs : o.page = r.page /\ o.src = r.src /\ o.top < r.top})>>

\* link_tables: boxes of one page that contain each other, whatever read them.
Linked(r, recs) == {o \in recs \ {r} : o.page = r.page /\ o.area = r.area}

\* The records in the order merge_sources gives them.
Earlier(r, o) ==
  \/ r.page < o.page
  \/ r.page = o.page /\ r.src = Pymupdf /\ o.src = Tableformer
  \/ r.page = o.page /\ r.src = o.src /\ r.top < o.top

InOrder(recs) == SetToSortSeq(recs, Earlier)

Of(src, recs) == {r \in recs : r.src = src}

\* _describe_with_sources: the tables that cover most of their page, at most max.
\* Ties go to the earlier one.
Chosen(recs, max) ==
  {r \in Of(Pymupdf, recs) :
     Cardinality({o \in Of(Pymupdf, recs) :
                    o.cov > r.cov \/ (o.cov = r.cov /\ Earlier(o, r))}) < max}

\* apply_descriptions: a TableFormer table speaks for itself only when none of
\* its links was read by PyMuPDF.  answered: the batches the model answered.
DescriptionSource(r, recs, answered) ==
  LET voice == IF r.src = Pymupdf THEN {r} ELSE Of(Pymupdf, Linked(r, recs))
  IN  IF voice # {} /\ InOrder(voice)[1] \in answered THEN "llm" ELSE "fallback"

-----------------------------------------------------------------------------
(* Headings and their pages.                                               *)

\* _match_score.
Score(title, heading) ==
  CASE title = heading -> 2
    [] title # heading /\ (IsPrefix(title, heading) \/ IsPrefix(heading, title)) -> 1
    [] OTHER -> 0

\* Fault: the first heading that matches is taken, and the search goes on from it.
AlignGreedily(titles, heads) ==
  LET from[i \in 1 .. Len(titles) + 1, k \in 1 .. Len(heads) + 1] ==
        IF i > Len(titles) \/ k > Len(heads) THEN <<>>
        ELSE LET hits == {q \in k .. Len(heads) : Score(titles[i], heads[q]) > 0}
             IN  IF hits = {} THEN from[i + 1, k]
                 ELSE LET q == Min(hits)
                      IN  <<<<i, q>>>> \o from[i + 1, q + 1]
  IN  from[1, 1]

\* _align_titles: best[i][k] is the best score of the titles from i on against the
\* headings from k on; the walk takes the earliest heading on a tie.
Align(titles, heads) ==
  LET n == Len(titles)
      m == Len(heads)
      score(i, k) == Score(titles[i], heads[k])
      Row(below, i) ==
        [k \in 1 .. m + 1 |->
           Max({below[k]} \cup {below[q + 1] + score(i, q) : q \in {x \in k .. m : score(i, x) > 0}})]
      best == FoldLeft(LAMBDA rows, i : <<Row(Head(rows), i)>> \o rows,
                       <<[k \in 1 .. m + 1 |-> 0]>>, [j \in 1 .. n |-> n + 1 - j])
      walk[i \in 1 .. n + 1, k \in 1 .. m + 1] ==
        IF i > n \/ k > m THEN <<>>
        ELSE IF score(i, k) > 0 /\ best[i + 1][k + 1] + score(i, k) = best[i][k]
             THEN <<<<i, k>>>> \o walk[i + 1, k + 1]
             ELSE IF best[i][k + 1] = best[i][k] THEN walk[i, k + 1] ELSE walk[i + 1, k]
  IN  walk[1, 1]

\* resolve_heading_pages takes the nodes with a title that are no table segments.
Titled(tree) == SelectSeq([i \in DOMAIN tree |-> i], LAMBDA i : ~tree[i].seg /\ tree[i].title # <<>>)

\* The search over the page texts goes forward only; several headings can share a
\* page.  texts[p + 1] holds the titles found on page p.
SearchPages(tree, texts) ==
  LET Step(acc, i) ==
        LET hits == {p \in acc.from .. Len(texts) - 1 : tree[i].title \in texts[p + 1]}
        IN  IF hits = {} THEN acc
            ELSE LET p == Min(hits) IN  [from |-> p, found |-> Append(acc.found, [node |-> i, page |-> p])]
  IN  FoldLeft(Step, [from |-> 0, found |-> <<>>], Titled(tree)).found

Paired(nodes, heads, pairs) ==
  [x \in DOMAIN pairs |-> [node |-> nodes[pairs[x][1]], page |-> heads[pairs[x][2]].page]]

ByHeadings(tree, nodes, heads) ==
  Paired(nodes, heads, Align([i \in DOMAIN nodes |-> tree[nodes[i]].title],
                             [k \in DOMAIN heads |-> heads[k].title]))

\* resolve_heading_pages: the service's headings, else the texts; in document
\* order, the nodes that have a page.
Resolved(tree, heads, texts) ==
  IF heads # <<>> THEN ByHeadings(tree, Titled(tree), heads) ELSE SearchPages(tree, texts)

-----------------------------------------------------------------------------
(* Anchoring.                                                              *)

\* The span of the x-th resolved node: up to the heading of the next one that is
\* not below it, which can sit in the middle of a page.
SpanEnd(tree, resolved, last, x) ==
  LET next == {y \in DOMAIN resolved :
                 y > x /\ tree[resolved[y].node].depth <= tree[resolved[x].node].depth}
      end == IF next = {} THEN last
             ELSE resolved[Min(next)].page
  IN  IF end > resolved[x].page THEN end ELSE resolved[x].page

\* The resolved nodes whose span has the page of a record, and of those the deepest.
Spanning(r, tree, resolved, last) ==
  {x \in DOMAIN resolved : resolved[x].page <= r.page /\ r.page <= SpanEnd(tree, resolved, last, x)}

Deepest(xs, tree, resolved) ==
  {x \in xs : \A y \in xs : tree[resolved[y].node].depth <= tree[resolved[x].node].depth}

\* Fault: the last heading of the page, wherever on the page it is.
LastCandidate(r, resolved, places, xs) == Max(xs)

\* Headings of earlier pages, and of this page those above the table.  places[i]:
\* where the heading of node i is on its page, 0 when the search does not find it;
\* <<>> without the PDF.  The code lists those of this page behind all others.
LastAbove(r, resolved, places, xs) ==
  LET place(x) == places[resolved[x].node]
      here == {x \in xs : resolved[x].page = r.page /\
                           (places = <<>> \/ (place(x) > 0 /\ place(x) <= r.top))}
      before == {x \in xs : resolved[x].page < r.page}
  IN  IF here # {} THEN Max(here) ELSE IF before # {} THEN Max(before) ELSE Min(xs)

\* No span has the page: the nearest heading before it, else the first node.
Nearest(r, tree, resolved) ==
  LET before == {x \in DOMAIN resolved : resolved[x].page <= r.page}
  IN  IF before # {} THEN resolved[Max(before)].node
      ELSE IF resolved # <<>> THEN resolved[1].node ELSE 1

\* assign_nodes for one record; xs are its deepest spanning nodes.
Assigned(r, tree, resolved, places, xs) ==
  CASE xs = {} -> Nearest(r, tree, resolved)
    [] Cardinality(xs) = 1 -> resolved[Min(xs)].node
    [] OTHER -> resolved[LastAbove(r, resolved, places, xs)].node

NodeOf(r, tree, resolved, last, places) ==
  Assigned(r, tree, resolved, places,
           Deepest(Spanning(r, tree, resolved, last), tree, resolved))

\* The table segments below node i.
SegsUnder(tree, i) ==
  {j \in DOMAIN tree : /\ j > i /\ tree[j].seg
                       /\ \A x \in i + 1 .. j : tree[x].depth > tree[i].depth}

\* _jaccard, in percent.
Jaccard(a, b) ==
  IF a = {} \/ b = {} THEN 0 ELSE (100 * Cardinality(a \cap b)) \div Cardinality(a \cup b)

\* _segs_under: segments nobody has claimed yet.
FreeSegs(tree, node, claimed) == SegsUnder(tree, node) \ claimed

\* The best match of any of the token sets.
BestMatch(tokenSets, cells) == Max({Jaccard(t, cells) : t \in tokenSets})

\* _claim: the segment that matches best, the first on a tie; 0: none of them
\* reaches SEG_JACCARD_MIN.
Claim(tree, segs, tokenSets) ==
  LET score == [j \in segs |-> BestMatch(tokenSets, tree[j].cells)]
      good == {j \in segs : score[j] >= 50 /\ \A x \in segs : score[x] <= score[j]}
  IN  IF good = {} THEN 0 ELSE Min(good)

\* Record r goes to a node of the tree, which is claimed when it is a segment.
Put(acc, r, place, seg) ==
  [claimed |-> IF seg # 0 THEN acc.claimed \cup {seg} ELSE acc.claimed,
   at |-> [o \in DOMAIN acc.at \cup {r} |-> IF o = r THEN place ELSE acc.at[o]]]

\* How many nodes of their own the tables of a node have so far.
OwnNodes(acc, nodeOf, node) ==
  Cardinality({o \in DOMAIN acc.at : nodeOf[o] = node /\ Head(acc.at[o]) = "own"})

PutOwn(acc, r, nodeOf, seg) ==
  Put(acc, r, IF seg # 0 THEN InTree(seg)
              ELSE OwnNode(nodeOf[r], OwnNodes(acc, nodeOf, nodeOf[r])), seg)

\* A TableFormer table takes its partner's place, or a segment, or none.
PutTwin(acc, r, partners, seg) ==
  IF partners # {} THEN Put(acc, r, acc.at[InOrder(partners)[1]], 0)
  ELSE Put(acc, r, IF seg # 0 THEN InTree(seg) ELSE NoNode, seg)

\* insert_tables: the tables PyMuPDF read claim a segment or get a node of their
\* own below their node; then the others.
InsertRead(recs, tree, nodeOf) ==
  FoldLeft(LAMBDA acc, r :
             PutOwn(acc, r, nodeOf,
                    Claim(tree, FreeSegs(tree, nodeOf[r], acc.claimed),
                          {r.cells} \cup {o.cells : o \in Linked(r, recs)})),
           [claimed |-> {}, at |-> <<>>], InOrder(Of(Pymupdf, recs)))

Insert(recs, tree, nodeOf) ==
  FoldLeft(LAMBDA acc, r :
             PutTwin(acc, r, {o \in Linked(r, recs) : o \in DOMAIN acc.at /\ acc.at[o] # NoNode},
                     Claim(tree, FreeSegs(tree, nodeOf[r], acc.claimed), {r.cells})),
           InsertRead(recs, tree, nodeOf), InOrder(Of(Tableformer, recs))).at

LastPage(recs, sample, resolved) ==
  Max({sample.pages - 1} \cup {resolved[x].page : x \in DOMAIN resolved} \cup {r.page : r \in recs})

AnchoredAt(recs, sample, resolved, nodeOf, answered) ==
  [heads |-> resolved, node |-> nodeOf,
   at |-> IF sample.tree = <<>> THEN [r \in recs |-> NoNode] ELSE Insert(recs, sample.tree, nodeOf),
   by |-> [r \in recs |-> DescriptionSource(r, recs, answered)],
   id |-> [r \in recs |-> TableId(r, recs)]]

AnchoredBy(recs, sample, resolved, answered) ==
  AnchoredAt(recs, sample, resolved,
    [r \in recs |-> IF sample.tree = <<>> THEN 0
                    ELSE NodeOf(r, sample.tree, resolved, LastPage(recs, sample, resolved),
                                sample.places)], answered)

\* The _build of PendingTables.finalize.  Without a tree nothing has a place.
Anchored(recs, sample, answered) ==
  AnchoredBy(recs, sample, Resolved(sample.tree, sample.heads, sample.texts), answered)
=============================================================================
