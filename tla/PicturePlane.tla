----------------------------- MODULE PicturePlane -----------------------------
(***************************************************************************)
(* What becomes of one picture of a page, and of its place in the markdown. *)
(* Sources: picture_plane.py, converters/pictures.py, converters/headings.py*)
(* (_splice_landscape_fallback), helpers/flat.py, client/images.py.         *)
(*                                                                         *)
(* A text is one word; a markdown is a sequence of items, each a heading, a *)
(* text, the marker of a picture, a figure, or the chart text below one.    *)
(* An item knows the picture it was made for (of), which no code reads.     *)
(***************************************************************************)
EXTENDS Integers, Sequences, FiniteSets, SequencesExt

CONSTANTS
  None,
  Short,       \* the texts of at most _PICTURE_OCR_MIN_CHARS characters
  Noise,       \* the texts that are garbled
  Dense,       \* the texts rich in digits
  FullCap,     \* MAX_FULLPAGE_PICTURE_OCR_REGIONS
  MinItems,    \* _DOC_TEXT_FALLBACK_MIN_CHARS, in items
  MinPerHead   \* _DOC_TEXT_FALLBACK_MIN_CHARS_PER_HEADING, in items

Long(text) == text # None /\ text \notin Short
Garbled(text) == text \in Noise

-----------------------------------------------------------------------------
(* Markdown.                                                               *)

Item(kind, text, page, of) == [kind |-> kind, text |-> text, page |-> page, of |-> of, k |-> None]
Marks(md) == SelectSeq(md, LAMBDA x : x.kind = "image")
Heads(md) == SelectSeq(md, LAMBDA x : x.kind = "head")
Words(md) == {md[i].text : i \in DOMAIN md} \ {None}
StripMarkers(md) == SelectSeq(md, LAMBDA x : x.kind # "image")

\* Which marker, heading or other item of its kind an item is.
Ordinal(md, i) == Cardinality({j \in 1 .. i : md[j].kind = md[i].kind})

\* _document_level_text_fallback: the text layer is appended to a markdown with
\* little text, or little for its headings, unless it is garbled.
Thin(md) ==
  LET text == Len(StripMarkers(md))
      heads == IF Heads(md) = << >> THEN 1 ELSE Len(Heads(md))
  IN  text < MinItems \/ text < MinPerHead * heads
TextFallback(md, layer) ==
  IF Thin(md) /\ ~(\E i \in DOMAIN layer : Garbled(layer[i]))
  THEN md \o [i \in DOMAIN layer |-> Item("text", layer[i], None, None)]
  ELSE md

\* _splice_landscape_fallback: what was read of a page goes before the first
\* heading that the map places on a later one.
MappedPage(md, i, map) ==
  LET same == SelectSeq(map, LAMBDA h : h.text = md[i].text)
      n == Cardinality({j \in 1 .. i : md[j].kind = "head" /\ md[j].text = md[i].text})
  IN  IF n <= Len(same) THEN same[n].page ELSE None
Later(md, page, map) ==
  {i \in DOMAIN md : /\ md[i].kind = "head"
                     /\ MappedPage(md, i, map) # None
                     /\ MappedPage(md, i, map) > page}
Place(md, page, map) ==
  LET later == Later(md, page, map)
  IN  IF later = {} THEN Len(md) + 1 ELSE CHOOSE i \in later : \A j \in later : i <= j
SpliceLandscape(md, again, map) ==
  LET before(i) ==
        FlattenSeq([n \in DOMAIN again |->
          IF Place(md, again[n].page, map) = i THEN again[n].items ELSE << >>])
  IN  FlattenSeq([i \in 1 .. Len(md) + 1 |->
        before(i) \o (IF i <= Len(md) THEN <<md[i]>> ELSE << >>)])

-----------------------------------------------------------------------------
(* The gates of a picture.                                                 *)

\* decide_ocr_strategy, as _recover_picture_results asks it.
OcrMode(escalate, marked, applied) ==
  IF ~applied /\ escalate /\ marked THEN "per_picture" ELSE "none"

\* _text_layer_has_content.
HasContent(text) == Long(text) /\ ~Garbled(text)

\* _clip_text_contained.
Contained(text, md) == text = None \/ text \in Words(md)

\* _classify_region: full is how many pictures that cover their page are read.
Exempt(r, flags) == r.large /\ flags.exempt /\ ~HasContent(r.layer)
Disposition(r, md, full, flags) ==
  CASE Exempt(r, flags) -> IF full >= FullCap THEN "coverage_cap" ELSE "crop"
    [] r.large /\ ~Exempt(r, flags) -> "page_coverage"
    [] ~r.large /\ Long(r.layer) ->
         IF ~flags.capture THEN "clip_text"
         ELSE IF Contained(r.layer, md) THEN "clip_exported" ELSE "capture"
    [] ~r.large /\ ~Long(r.layer) /\ r.icon -> "decorative"
    [] OTHER -> "crop"

SkipReason ==
  [coverage_cap |-> "page_coverage", page_coverage |-> "page_coverage",
   clip_exported |-> "clip_text_already_exported", clip_text |-> "clip_text",
   decorative |-> "decorative_icon"]
Skips == DOMAIN SkipReason
RetainsCrop == {"crop", "capture", "page_coverage", "coverage_cap", "clip_exported"}
Landscape == "landscape_fallback_picture"

\* PictureResult.
Result(page, box, ocr, png, skip) ==
  [page |-> page, box |-> box, ocr |-> ocr, png |-> png, desc |-> FALSE, skip |-> skip]
Skipped(reason) == Result(None, None, None, FALSE, reason)
Shows(pic) == pic.ocr # None \/ pic.desc \/ pic.png
Real(pics) == SelectSeq(pics, LAMBDA p : p.skip # Landscape)

-----------------------------------------------------------------------------
(* The places of the pictures.                                             *)

\* bind_markers: the chart text below the marker.
Chart(mark, text) == [mark EXCEPT !.kind = "chart", !.text = text]
BindMarkers(md, pics) ==
  LET real == Real(pics)
      bound(i) ==
        IF /\ md[i].kind = "image" /\ Ordinal(md, i) <= Len(real)
           /\ real[Ordinal(md, i)].ocr # None
        THEN <<md[i], Chart(md[i], real[Ordinal(md, i)].ocr)>> ELSE <<md[i]>>
  IN  FlattenSeq([i \in DOMAIN md |-> bound(i)])

\* splice_figure_markers: a figure by its ordinal; a marker without a picture, or
\* with one that was skipped, is stripped or left.
Figure(mark, k, pic) ==
  <<[mark EXCEPT !.kind = "figure", !.k = k]>>
    \o (IF pic.ocr # None THEN <<Chart(mark, pic.ocr)>> ELSE << >>)
SpliceFigures(md, pics, strip) ==
  LET real == Real(pics)
      spliced(i) ==
        LET n == Ordinal(md, i)
        IN  IF md[i].kind # "image" THEN <<md[i]>>
            ELSE IF n <= Len(real) /\ Shows(real[n]) THEN Figure(md[i], n - 1, real[n])
            ELSE IF strip /\ (n <= Len(real) => real[n].skip # None) THEN << >>
            ELSE <<md[i]>>
  IN  IF pics = << >> THEN md ELSE FlattenSeq([i \in DOMAIN md |-> spliced(i)])

\* route_and_extract_flat: a figure takes the chart text that follows it; any
\* other chart text is prose.
Block(role, x, ocr) ==
  [role |-> role, of |-> x.of, index |-> x.k, text |-> x.text, ocr |-> ocr,
   page |-> None, box |-> None, crop |-> FALSE, desc |-> FALSE, skip |-> None]
Taken(md, i) == i > 1 /\ md[i].kind = "chart" /\ md[i - 1].kind = "figure"
BlockOf(md, i) ==
  CASE Taken(md, i) -> << >>
    [] md[i].kind = "figure" ->
         <<Block("image", md[i],
                 IF i < Len(md) /\ Taken(md, i + 1) THEN <<md[i + 1].text>> ELSE << >>)>>
    [] md[i].kind = "image" -> <<Block("image", md[i], << >>)>>
    [] md[i].kind = "head" -> <<Block("title", md[i], << >>)>>
    [] OTHER -> <<Block("prose", md[i], << >>)>>
Blocks(md) == FlattenSeq([i \in DOMAIN md |-> BlockOf(md, i)])

\* _enrich_image_blocks: the text the block has is kept alone when it is much the
\* denser, and the text of the picture is added to it otherwise.
JoinedText(old, new) ==
  IF new = None \/ (old # << >> /\ old[1] \in Dense /\ new \notin Dense) THEN old
  ELSE Append(old, new)
Enriched(b, pic) ==
  [b EXCEPT !.page = pic.page, !.box = pic.box, !.crop = pic.png, !.desc = pic.desc,
            !.skip = pic.skip, !.ocr = JoinedText(b.ocr, pic.ocr)]
=============================================================================
