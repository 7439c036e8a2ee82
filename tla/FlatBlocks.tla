------------------------------ MODULE FlatBlocks ------------------------------
(***************************************************************************)
(* A document without a hierarchy, as blocks.  Sources: helpers/flat.py,    *)
(* helpers/tables.py, helpers/table_stitch.py, helpers/garble.py,           *)
(* client/images.py.                                                       *)
(*                                                                         *)
(* A pipe row with val = 1 has nothing but dates and numbers in its cells.  *)
(* Fences and ruled lines, which are dropped, are not among the fragments;  *)
(* a picture is a placeholder (image) or has a chart text (figure); a table *)
(* that looks like a page of contents stays a table.                        *)
(***************************************************************************)
EXTENDS DocumentTree

CONSTANT MassPct   \* _GARBLE_CHAR_MASS_THRESHOLD

\* The markdown of a tree: each title a heading before its text.
Heading(node) == [TitleOf(node) EXCEPT !.kind = "head"]
Markdown(tree) ==
  FlattenSeq([i \in DOMAIN tree |->
    (IF tree[i].title > 0 THEN <<Heading(tree[i])>> ELSE << >>) \o tree[i].text])

\* What the scan makes of each line: a pipe row with a separator below it is
\* the header of a table, which runs on while rows follow.
Pipe(f) == f.kind \in {"row", "single", "sep"}
Single(f) ==
  CASE Blank(f) -> "gap"
    [] f.kind \in {"image", "figure"} -> "image"
    [] f.kind = "head" -> "title"
    [] f.kind = "num" -> "kv"
    [] OTHER -> "prose"
IsHeader(md, i) == i < Len(md) /\ Pipe(md[i]) /\ md[i + 1].kind = "sep"
IsData(before, f) == before \in {"separator", "data"} /\ f.kind \in {"row", "single"}
Roles(md) ==
  LET role[i \in DOMAIN md] ==
        LET before == IF i = 1 THEN "gap" ELSE role[i - 1]
        IN  IF before = "header" THEN "separator"
            ELSE IF IsData(before, md[i]) THEN "data"
            ELSE IF IsHeader(md, i) THEN "header" ELSE Single(md[i])
  IN  role

\* A line opens a block unless it runs on the prose or the table before it.
RunsOn(roles, i) ==
  /\ i > 1
  /\ \/ roles[i] = "prose" /\ roles[i - 1] = "prose"
     \/ roles[i] \in {"separator", "data"}
Opens(roles) == {i \in DOMAIN roles : roles[i] # "gap" /\ ~RunsOn(roles, i)}
EndOf(roles, i) ==
  Max({j \in i .. Len(roles) : \A k \in i + 1 .. j : RunsOn(roles, k)})

\* The blocks as they are scanned, with their role and primary text; a separator
\* carries none, nor a picture unless its chart text was read.
Carries(role, f) == role \notin {"gap", "separator"} /\ f.kind # "image"
BlockAt(md, roles, i) ==
  LET lines == SelectSeq([k \in 1 .. EndOf(roles, i) |-> k],
                         LAMBDA k : k >= i /\ Carries(roles[k], md[k]))
  IN  [role |-> IF roles[i] = "header" THEN "table" ELSE roles[i],
       text |-> [k \in DOMAIN lines |-> md[lines[k]]]]
BlocksOf(md) ==
  LET roles == Roles(md)
      opens == Ascending(Opens(roles), Len(md))
  IN  [k \in DOMAIN opens |-> BlockAt(md, roles, opens[k])]

\* _is_continuation_table: as many data rows under a header of dates and numbers.
\* What anchor has taken over already changes neither its labels nor its rows.
Continues(anchor, block) ==
  /\ anchor.role = "table" /\ block.role = "table"
  /\ Len(block.text) = Len(anchor.text) /\ Len(block.text) > 1
  /\ anchor.text[1].val # 1 /\ block.text[1].val = 1

\* stitch_continuation_tables: each row of a continuation goes on in the row of the
\* table it continues.  The cells of a row, which a table read from right to left
\* orders otherwise, are not told apart.
AnchorOf(blocks) ==
  LET anchor[k \in DOMAIN blocks] ==
        IF k > 1 /\ Continues(blocks[anchor[k - 1]], blocks[k]) THEN anchor[k - 1] ELSE k
  IN  anchor
Stitch(blocks) ==
  LET anchor == AnchorOf(blocks)
      kept == Ascending({k \in DOMAIN blocks : anchor[k] = k}, Len(blocks))
  IN  [n \in DOMAIN kept |->
         LET chain == SelectSeq([k \in DOMAIN blocks |-> k], LAMBDA k : anchor[k] = kept[n])
         IN  [blocks[kept[n]] EXCEPT
                !.text = FlattenSeq([row \in DOMAIN @ |->
                           [c \in DOMAIN chain |-> blocks[chain[c]].text[row]]])]]

\* route_and_extract_flat.
Extract(md) == Stitch(BlocksOf(md))

\* content_class, and what a document of pictures only becomes.
ContentClass(blocks) ==
  LET found == {blocks[k].role : k \in DOMAIN blocks}
      seen == found \cap {"table", "kv", "prose"}
  IN  CASE blocks # << >> /\ found = {"image"} -> "image_standalone"
        [] found # {"image"} /\ Cardinality(seen) > 1 -> "flat_mixed"
        [] seen = {"table"} -> "flat_table"
        [] seen = {"kv"} -> "flat_kv"
        [] OTHER -> "flat_prose"

\* _garble_check_flat_blocks: the characters of the blocks that are garbled each
\* on its own, as a share of all.
BlocksGarbled(blocks) ==
  LET texts == SelectSeq([k \in DOMAIN blocks |-> blocks[k].text], LAMBDA t : Strip(t) # << >>)
      bad == Chars(FlattenSeq(SelectSeq(texts, Garbled)))
  IN  bad > 0 /\ 100 * bad >= MassPct * Chars(FlattenSeq(texts))

\* What a picture was read as is dropped when it is garbled on its own.
Cleared(blocks) ==
  [k \in DOMAIN blocks |->
     IF blocks[k].role = "image" /\ Garbled(blocks[k].text)
     THEN [blocks[k] EXCEPT !.text = << >>] ELSE blocks[k]]

\* flat_structure: one node per block with a text.
FlatTree(blocks) ==
  LET texts == SelectSeq([k \in DOMAIN blocks |-> blocks[k].text], LAMBDA t : Strip(t) # << >>)
  IN  [k \in DOMAIN texts |-> [level |-> 1, title |-> 0, text |-> texts[k], page |-> NoIndex]]

=============================================================================
