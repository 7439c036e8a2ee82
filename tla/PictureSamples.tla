---------------------------- MODULE PictureSamples ----------------------------
(* Requests to PictureRecovery: documents of one to three pictures.         *)
EXTENDS PicturePlane

Head1(title, page) == Item("head", title, page, None)
Text(word, page) == Item("text", word, page, None)
Mark(box, page) == Item("image", None, page, box)
Unknown == Item("image", None, None, None)   \* a picture of the second reading

Page(turned, broad, sparse, again) ==
  [turned |-> turned, broad |-> broad, sparse |-> sparse, again |-> again]
Upright == Page(FALSE, FALSE, TRUE, << >>)

Picture(box, page, layer, drawn) ==
  [box |-> box, page |-> page, valid |-> TRUE, large |-> FALSE, icon |-> FALSE,
   layer |-> layer, drawn |-> drawn]
Covers(picture) == [picture EXCEPT !.large = TRUE]
Tiny(picture) == [picture EXCEPT !.icon = TRUE]
Flawed(picture) == [picture EXCEPT !.valid = FALSE]

Chunk(pages, items, pictures, layer, start) ==
  [pages |-> pages, items |-> items, pictures |-> pictures, layer |-> layer, start |-> start]
Flags(agpl, exempt, capture, escalate, forced, vlm, strip, splice) ==
  [agpl |-> agpl, exempt |-> exempt, capture |-> capture, escalate |-> escalate,
   forced |-> forced, vlm |-> vlm, egress |-> TRUE, strip |-> strip, splice |-> splice]
Default == Flags(TRUE, TRUE, TRUE, TRUE, FALSE, FALSE, TRUE, TRUE)
Asked(flags, parts) == [flags |-> flags, parts |-> parts]

\* The pictures of a page: text below them that is exported, is not, is short, is
\* garbled, or none; text in them or none.
Kinds(box, page) ==
  LET layers == {None, "tick", "words", "belowA", "noise"}
      drawn == {None, "tick", "drawnA"}
  IN  {Picture(box, page, l, d) : l \in layers, d \in drawn}
Shapes(box, page) ==
  LET some == Kinds(box, page)
  IN  some \cup {Covers(p) : p \in some} \cup {Flawed(p) : p \in some}
        \cup {Tiny(p) : p \in some}

\* One picture between two sections, under every switch.
OnePicture(p) ==
  <<Chunk(<<Upright>>, <<Head1("one", 1), Text("words", 1), Mark("A", 1), Head1("two", 1)>>,
          <<p>>, <<"words", p.layer>>, 0)>>
Switches ==
  {Flags(agpl, exempt, capture, escalate, forced, vlm, strip, splice) :
     agpl \in BOOLEAN, exempt \in BOOLEAN, capture \in BOOLEAN, escalate \in BOOLEAN,
     forced \in BOOLEAN, vlm \in BOOLEAN, strip \in BOOLEAN, splice \in BOOLEAN}
Apart(flags) ==
  Cardinality({f \in DOMAIN flags : flags[f] # Default[f]}) <= 1
Singles ==
  {Asked(flags, OnePicture(p)) :
     flags \in {f \in Switches : Apart(f)}, p \in Shapes("A", 1)}

\* Three pictures and a thin text: the gates of one decide what another shows.
Three(a, b, c) ==
  <<Chunk(<<Upright, Upright>>,
          <<Mark("A", 1), Text("words", 1), Mark("B", 1), Mark("C", 2)>>,
          <<a, b, c>>, <<"words", "belowA", "belowB">>, 0)>>
Several ==
  {Asked(Default, Three(a, b, c)) :
     a \in {Covers(Picture("A", 1, None, "drawnA")), Picture("A", 1, "belowA", None),
            Flawed(Picture("A", 1, None, "drawnA"))},
     b \in {Picture("B", 1, "belowB", None), Tiny(Picture("B", 1, None, None)),
            Covers(Picture("B", 1, None, "drawnB"))},
     c \in {Picture("C", 2, None, "drawnC"), Covers(Picture("C", 2, None, "drawnC"))}}

\* Landscape pages that are read again, without a picture in what is read.
Turned(items) == Page(TRUE, FALSE, TRUE, items)
Broad(items) == Page(FALSE, TRUE, TRUE, items)
Landscapes(first, second) ==
  <<Chunk(<<first, second>>,
          <<Head1("one", 1), Mark("A", 1), Head1("two", 2), Mark("B", 2), Head1("end", 3)>>,
          <<Picture("A", 1, None, "drawnA"), Picture("B", 2, "belowB", None)>>,
          <<"words">>, 0)>>
Rotated ==
  {Asked(Default, Landscapes(first, second)) :
     first \in {Upright, Turned(<<Text("wide", None)>>)},
     second \in {Turned(<< >>), Broad(<<Text("broad", None), Head1("sub", None)>>),
                 [Turned(<<Text("wide", None)>>) EXCEPT !.sparse = FALSE]}}

\* Two chunks, the pictures of the second counted from its own first page.
TwoChunks(first, a, b) ==
  <<Chunk(<<first>>, <<Head1("one", 1), Mark("A", 1)>>, <<a>>, <<"words">>, 0),
    Chunk(<<Upright>>, <<Text("next", 1), Mark("B", 1)>>, <<b>>, <<"next">>, 1)>>
Chunks ==
  {Asked(Default, TwoChunks(Upright, a, b)) :
     a \in {Picture("A", 1, None, "drawnA"), Flawed(Picture("A", 1, None, "drawnA"))},
     b \in {Picture("B", 1, "belowB", None), Picture("B", 1, None, None)}}

Ordinary == Singles \cup Several \cup Rotated \cup Chunks

\* A landscape page that is read again, with the picture that is on it.
Drawn == Turned(<<Text("wide", None), Unknown>>)
Shifted ==
  {Asked(Default, Landscapes(Drawn, Upright)),
   Asked(Default, TwoChunks(Drawn, Picture("A", 1, None, "drawnA"), Picture("B", 1, "belowB", None)))}
=============================================================================
