--------------------------- MODULE PictureRecovery ---------------------------
(***************************************************************************)
(* The pictures of a PDF, from Docling's document to the blocks of a flat   *)
(* one: the landscape pages that are read again, the source of the markdown,*)
(* the fallbacks, the crop and the OCR of each picture, the chunks joined,  *)
(* the markers replaced by figures and the figures enriched.                *)
(* Sources: converters/pictures.py, converters/pipeline.py                  *)
(* (pdf_to_markdown_docling, _fallback_and_recover_pictures),               *)
(* converters/docling_conv.py, client/indexer.py, client/images.py.         *)
(*                                                                         *)
(* A request has its flags and its parts: one, or one per chunk. A part has *)
(*   pages     turned, broad, sparse; again: what a second reading yields   *)
(*   items     the markdown Docling exports                                 *)
(*   pictures  page, box, valid, large, icon; layer: the text below it;     *)
(*             drawn: the text an OCR reads in it                           *)
(*   layer     the text layer of its pages                                  *)
(*   start     the pages before it                                          *)
(***************************************************************************)
EXTENDS PicturePlane

CONSTANTS
  Requests,
  PageCap,     \* MAX_LANDSCAPE_PAGES
  MinHeads,    \* the headings of a tree with depth
  MaxFaults    \* bound: the failures of one behaviour

VARIABLES
  request, phase, faults,
  part,        \* the part being converted
  wide,        \* the pages tagged as landscape
  flagged,     \* those to read again, in order
  again,       \* landscape_fallback_pages
  md, map,     \* the candidate selected, and the pages of its headings
  body,        \* body_for_containment
  found,       \* one result per region so far
  crops,       \* the regions to OCR
  full,        \* fullpage_ocr_region_count
  text,        \* the markdown of the parts done
  pics,        \* pic_results
  blocks,
  at,          \* the block to enrich next
  stored       \* the figures saved under the document

partVars == <<part, wide, flagged, again, md, map, body, found, crops, full>>
docVars == <<text, pics, blocks, at, stored>>
vars == <<request, phase, faults, partVars, docVars>>

flags == request.flags
Part == request.parts[part]
Fails == faults < MaxFaults /\ faults' = faults + 1
Works == UNCHANGED faults

InitWith(r) ==
  /\ request = r /\ phase = "tag" /\ faults = 0 /\ part = 1
  /\ wide = {} /\ flagged = << >> /\ again = << >>
  /\ md = << >> /\ map = << >> /\ body = << >>
  /\ found = << >> /\ crops = {} /\ full = 0
  /\ text = << >> /\ pics = << >> /\ blocks = << >> /\ at = 1 /\ stored = {}
Init == \E r \in Requests : InitWith(r)

-----------------------------------------------------------------------------
(* The pages that are read again.                                          *)

\* _tag_landscape_pages_for_fallback: a page, or all of them, may not be probed.
Tagged(pages) == {p \in DOMAIN pages : pages[p].turned \/ pages[p].broad}
Tag ==
  /\ phase = "tag"
  /\ \/ Works /\ wide' = IF flags.agpl THEN Tagged(Part.pages) ELSE {}
     \/ Fails /\ flags.agpl /\ \E lost \in SUBSET Tagged(Part.pages) : wide' = Tagged(Part.pages) \ lost
  /\ phase' = "convert"
  /\ UNCHANGED <<request, part, flagged, again, md, map, body, found, crops, full, docVars>>

\* _landscape_pages_below_threshold.
PicturePages == {Part.pictures[i].page : i \in DOMAIN Part.pictures}
Flagged == {p \in wide : p \in PicturePages /\ Part.pages[p].sparse}
Convert ==
  /\ phase = "convert"
  /\ \/ /\ Works /\ Part.items # << >> /\ phase' = "reread"
        /\ flagged' = SetToSortSeq(Flagged, <)
     \/ /\ Fails /\ Part.items # << >> /\ phase' = "reread"
        /\ \E p \in Flagged : flagged' = SetToSortSeq(Flagged \ {p}, <)
     \/ /\ IF Part.items = << >> THEN Works ELSE Fails
        /\ phase' = "failed" /\ UNCHANGED flagged
  /\ UNCHANGED <<request, part, wide, again, md, map, body, found, crops, full, docVars>>

\* A chunk that runs out of time has its text layer, and no pictures.
ChunkTimesOut ==
  /\ phase = "convert" /\ Len(request.parts) > 1 /\ Fails
  /\ md' = [i \in DOMAIN Part.layer |-> Item("text", Part.layer[i], None, None)]
  /\ found' = << >> /\ again' = << >> /\ phase' = "join"
  /\ UNCHANGED <<request, part, wide, flagged, map, body, crops, full, docVars>>

\* _landscape_rasterize_rotate_reextract, one page: Docling's image pipeline reads
\* the turned page, or tesseract its text.
Read(page, items) ==
  IF items = << >> THEN again
  ELSE Append(again, [page |-> page, items |-> items, pictures |-> Marks(items) # << >>])
Reread ==
  /\ phase = "reread" /\ flagged # << >> /\ Len(again) < PageCap
  /\ LET page == Head(flagged)
         items == Part.pages[page].again
     IN  \/ Works /\ again' = Read(page, items)
         \/ Fails /\ again' \in {again, Read(page, SelectSeq(items, LAMBDA x : x.kind = "text"))}
  /\ flagged' = Tail(flagged)
  /\ UNCHANGED <<request, phase, part, wide, md, map, body, found, crops, full, docVars>>

\* All are read, or the cap or the deadline is reached.
RereadOver ==
  /\ phase = "reread" /\ phase' = "select" /\ Works
  /\ UNCHANGED <<request, partVars, docVars>>

-----------------------------------------------------------------------------
(* The markdown.                                                           *)

\* The add-on turns headings into text.
Demoted(items, headings) ==
  [i \in DOMAIN items |-> IF i \in headings THEN [items[i] EXCEPT !.kind = "text"] ELSE items[i]]
HeadingPages(items) == [i \in DOMAIN Heads(items) |-> [text |-> Heads(items)[i].text, page |-> Heads(items)[i].page]]

\* The markdown before the add-on is taken when only it makes a tree, or a better one.
MayHaveDepth(items, deep) == deep => Len(Heads(items)) >= MinHeads
TakesRaw(raw, post, rawDeep, postDeep, rawBetter) ==
  \/ ~postDeep /\ rawDeep /\ Len(Heads(raw)) > Len(Heads(post))
  \/ postDeep /\ rawDeep /\ rawBetter
Select ==
  /\ phase = "select" /\ phase' = "fallback"
  /\ \E headings \in SUBSET {i \in DOMAIN Part.items : Part.items[i].kind = "head"},
        rawDeep, postDeep, rawBetter \in BOOLEAN :
       LET post == Demoted(Part.items, headings)
           chosen == IF TakesRaw(Part.items, post, rawDeep, postDeep, rawBetter)
                     THEN Part.items ELSE post
       IN  /\ MayHaveDepth(Part.items, rawDeep) /\ MayHaveDepth(post, postDeep)
           /\ md' = chosen /\ body' = chosen
           /\ \/ Works /\ map' = HeadingPages(chosen)
              \/ Fails /\ map' = << >>
  /\ UNCHANGED <<request, part, wide, flagged, again, found, crops, full, docVars>>

\* _run_stages: a stage that fails leaves the markdown as it is.
Stage(from, to, result) ==
  /\ phase = from /\ phase' = to
  /\ \/ Works /\ md' = result
     \/ Fails /\ result # md /\ UNCHANGED md
  /\ UNCHANGED <<request, part, wide, flagged, again, map, body, found, crops, full, docVars>>
FallBack == Stage("fallback", "splice", TextFallback(md, Part.layer))
SplicePages == Stage("splice", "recover", SpliceLandscape(md, again, map))

-----------------------------------------------------------------------------
(* The pictures of a part.                                                 *)

\* _recover_picture_results, up to the regions.
Recover ==
  /\ phase = "recover"
  /\ LET recovers == /\ OcrMode(flags.escalate, Marks(md) # << >>, flags.forced) = "per_picture"
                     /\ Part.pictures # << >> /\ flags.agpl
     IN  \/ Works /\ phase' = IF recovers THEN "crop" ELSE "collect"
         \/ recovers /\ Fails /\ phase' = "collect"
  /\ found' = << >> /\ crops' = {} /\ full' = 0
  /\ UNCHANGED <<request, part, wide, flagged, again, md, map, body, docVars>>

\* What a region yields: its text if the gate took it from the text layer, its crop if
\* the gate keeps one. A crop that is read gets its text later.
SnapshotAfterFallback == md  \* Fault: taken after the fallback has appended the text layer.
Snapshot == body
Kept(r, disposition) ==
  LET layered == disposition \in {"capture", "clip_exported"}
  IN  IF disposition \in {"clip_text", "decorative"} THEN Skipped(SkipReason[disposition])
      ELSE Result(r.page, r.box, IF layered THEN r.layer ELSE None, disposition # "capture",
                  IF disposition \in Skips THEN SkipReason[disposition] ELSE None)
Lost(disposition) ==
  Skipped(IF disposition \in Skips THEN SkipReason[disposition] ELSE "crop_error")
CropRegion ==
  /\ phase = "crop" /\ Len(found) < Len(Part.pictures)
  /\ LET n == Len(found) + 1
         r == Part.pictures[n]
         disposition == Disposition(r, Snapshot, full, flags)
         counted == IF disposition = "crop" /\ Exempt(r, flags) THEN full + 1 ELSE full
     IN  \/ /\ ~r.valid /\ Works
            /\ found' = Append(found, Skipped("unknown")) /\ UNCHANGED <<crops, full>>
         \/ /\ r.valid /\ Works
            /\ found' = Append(found, Kept(r, disposition)) /\ full' = counted
            /\ crops' = IF disposition = "crop" THEN crops \cup {n} ELSE crops
         \/ \* Its page is not read.
            /\ r.valid /\ Fails
            /\ found' = Append(found, Skipped("crop_error")) /\ UNCHANGED <<crops, full>>
         \/ \* It is not cropped.
            /\ r.valid /\ disposition \in RetainsCrop \ {"capture"} /\ Fails
            /\ found' = Append(found, Lost(disposition)) /\ full' = counted /\ UNCHANGED crops
  /\ UNCHANGED <<request, phase, part, wide, flagged, again, md, map, body, docVars>>

\* The crops are read in parallel; one of them may yield nothing, or break off them all.
ReadCrop(pic, drawn) ==
  IF Long(drawn) THEN [pic EXCEPT !.ocr = drawn]
  ELSE [pic EXCEPT !.png = flags.vlm, !.skip = "ocr_min_chars"]
OcrCrops ==
  /\ phase = "crop" /\ Len(found) = Len(Part.pictures) /\ phase' = "collect"
  /\ \/ \E silent \in SUBSET crops :
          /\ IF silent = {} THEN Works ELSE Fails
          /\ found' = [i \in DOMAIN found |->
                         IF i \notin crops THEN found[i]
                         ELSE ReadCrop(found[i], IF i \in silent THEN None ELSE Part.pictures[i].drawn)]
     \/ crops # {} /\ Fails /\ found' = << >>
  /\ UNCHANGED <<request, part, wide, flagged, again, md, map, body, crops, full, docVars>>

\* Fault: the regions whose crop failed have no place in the list.
SparseList(results) == SelectSeq(results, LAMBDA p : p.skip \notin {"unknown", "crop_error"})

\* One result per region, in the order of the markers; none when no region is usable.
DenseList(results) ==
  IF \A i \in DOMAIN results : results[i].skip = "unknown" THEN << >> ELSE results

\* Without results the markers go. A page read again that has pictures leaves an entry
\* at the end, with the page as fitz counts it.
Entries ==
  LET withPictures == SelectSeq(again, LAMBDA p : p.pictures)
  IN  [i \in DOMAIN withPictures |-> Result(withPictures[i].page - 1, None, None, FALSE, Landscape)]
Collect ==
  /\ phase = "collect" /\ phase' = "join" /\ Works
  /\ md' = IF DenseList(found) = << >> THEN StripMarkers(md) ELSE md
  /\ found' = DenseList(found) \o Entries
  /\ UNCHANGED <<request, part, wide, flagged, again, map, body, crops, full, docVars>>

-----------------------------------------------------------------------------
(* The document.                                                           *)

\* _pdf_to_markdown_docling_chunked: markdowns and pictures in the order of the
\* chunks, pages counted from the start of the document.
Rebased(results, start) ==
  [i \in DOMAIN results |->
     IF results[i].page = None THEN results[i] ELSE [results[i] EXCEPT !.page = @ + start]]
Join ==
  /\ phase = "join" /\ Works
  /\ text' = text \o md
  /\ pics' = pics \o Rebased(found, Part.start)
  /\ IF part < Len(request.parts) THEN part' = part + 1 /\ phase' = "tag"
     ELSE phase' = "tree" /\ UNCHANGED part
  /\ wide' = {} /\ flagged' = << >> /\ again' = << >> /\ md' = << >> /\ map' = << >> /\ body' = << >>
  /\ found' = << >> /\ crops' = {} /\ full' = 0
  /\ UNCHANGED <<request, blocks, at, stored>>

\* index: chart texts for the tree, if it is asked for; without pictures no markers.
TreeSplice ==
  /\ phase = "tree" /\ Works
  /\ text' = IF pics = << >> THEN StripMarkers(text)
             ELSE IF flags.splice THEN BindMarkers(text, pics) ELSE text
  /\ phase' \in {"done", "flat"}
  /\ UNCHANGED <<request, partVars, pics, blocks, at, stored>>

\* _add_vlm_descriptions: the pictures with a crop, where the egress is allowed.
Describe ==
  /\ phase = "flat" /\ Works /\ phase' = "extract"
  /\ text' = SpliceFigures(text, pics, flags.strip)
  /\ IF flags.vlm /\ flags.egress
     THEN \E said \in SUBSET {k \in DOMAIN pics : pics[k].png} :
            pics' = [k \in DOMAIN pics |-> [pics[k] EXCEPT !.desc = k \in said]]
     ELSE UNCHANGED pics
  /\ UNCHANGED <<request, partVars, blocks, at, stored>>

Extract ==
  /\ phase = "extract" /\ Works
  /\ blocks' = Blocks(text)
  /\ phase' = IF Blocks(text) = << >> /\ text # << >> THEN "failed" ELSE "enrich"
  /\ UNCHANGED <<request, partVars, text, pics, at, stored>>

\* _enrich_image_blocks, one block: its picture is the one at its index.
Enriches(b) == b.role = "image" /\ b.index # None /\ b.index < Len(pics)
Enrich ==
  /\ phase = "enrich" /\ at <= Len(blocks)
  /\ LET b == blocks[at]
         k == b.index + 1
     IN  \/ /\ ~Enriches(b) /\ Works
            /\ at' = at + 1 /\ UNCHANGED <<phase, blocks, pics, stored>>
         \/ /\ Enriches(b) /\ Works
            /\ blocks' = [blocks EXCEPT ![at] = Enriched(b, pics[k])]
            /\ pics' = [pics EXCEPT ![k].png = FALSE]
            /\ stored' = IF pics[k].png THEN stored \cup {b.index} ELSE stored
            /\ at' = at + 1 /\ UNCHANGED phase
         \/ /\ Enriches(b) /\ pics[k].png /\ Fails /\ phase' = "failed"
            /\ UNCHANGED <<at, blocks, pics, stored>>
  /\ UNCHANGED <<request, partVars, text>>

\* The garbled text of an image block is cleared before the document is kept.
Cleaned(b) ==
  IF b.role = "image" /\ \E i \in DOMAIN b.ocr : Garbled(b.ocr[i]) THEN [b EXCEPT !.ocr = << >>] ELSE b
Finish ==
  /\ phase = "enrich" /\ at > Len(blocks) /\ phase' = "done" /\ Works
  /\ blocks' = [i \in DOMAIN blocks |-> Cleaned(blocks[i])]
  /\ UNCHANGED <<request, partVars, text, pics, at, stored>>

Over == phase \in {"done", "failed"} /\ UNCHANGED vars

Next ==
  \/ Tag \/ Convert \/ ChunkTimesOut \/ Reread \/ RereadOver \/ Select \/ FallBack \/ SplicePages
  \/ Recover \/ CropRegion \/ OcrCrops \/ Collect \/ Join
  \/ TreeSplice \/ Describe \/ Extract \/ Enrich \/ Finish \/ Over

Spec == Init /\ [][Next]_vars

-----------------------------------------------------------------------------
(* Properties.                                                             *)

Pictures == UNION {Range(request.parts[c].pictures) : c \in DOMAIN request.parts}
TextsOf(box) == UNION {{r.layer, r.drawn} : r \in {q \in Pictures : q.box = box}}

\* Whatever crops fail, pages are turned and chunks run out of time, a block of an
\* image carries the box, the page and the text of the picture whose marker it stands
\* at, and chart text stands below the marker of its picture
\* (splice_figure_markers and _enrich_image_blocks look the picture up by ordinal).
FigureIsItsOwn ==
  phase = "done" =>
    /\ \A i \in DOMAIN blocks :
         /\ blocks[i].box # None => blocks[i].box = blocks[i].of
         /\ blocks[i].role = "image" => Range(blocks[i].ocr) \subseteq TextsOf(blocks[i].of)
    /\ \A i \in DOMAIN text : text[i].kind = "chart" => text[i].text \in TextsOf(text[i].of)

\* What was recovered of a picture is in the block of its figure; and the text layer
\* below a picture of a document in one part that the converter did not export is
\* recovered, unless all its pictures are given up or this region is reported as failed
\* (RFC-024 D1: what the text fallback appends does not count as exported).
ShownAt(box, word) ==
  \E i \in DOMAIN blocks : /\ blocks[i].role = "image" /\ blocks[i].box = box
                           /\ word \in Range(blocks[i].ocr)
OnlyBelow(r) ==
  /\ r.valid /\ ~r.large /\ Long(r.layer) /\ ~Garbled(r.layer)
  /\ r.layer \notin Words(request.parts[1].items)
RecoveredIsShown ==
  phase = "done" /\ blocks # << >> =>
    /\ \A k \in DOMAIN pics :
         pics[k].ocr # None /\ ~Garbled(pics[k].ocr) => ShownAt(pics[k].box, pics[k].ocr)
    /\ Len(request.parts) = 1 /\ Real(pics) # << >> /\ flags.capture =>
         \A n \in DOMAIN Part.pictures :
           OnlyBelow(Part.pictures[n]) =>
             \/ ShownAt(Part.pictures[n].box, Part.pictures[n].layer)
             \/ Real(pics)[n].skip = "crop_error"
=============================================================================
