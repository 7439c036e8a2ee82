--------------------------- MODULE MCPdfConversion ---------------------------
(* TableCapture, ChunkedConversion and TreeQuality on small documents, and  *)
(* an instance of PictureRecovery.  The capture of the tables, the processes *)
(* of a conversion, the pictures and the verdict on the tree share no state  *)
(* here: each is checked while the others are over.                         *)
EXTENDS TableCapture, ChunkedConversion, TreeQuality

CONSTANTS
  d1, d2,
  Short, Noise, Dense, FullCap, MinItems, MinPerHead, PageCap, MinHeads

VARIABLES
  picRequest, picPhase, picFaults, part, wide, flagged, again, md, map, body, found, crops,
  full, picText, pics, picBlocks, picAt, stored

-----------------------------------------------------------------------------
(* Tables: a document of two pages and one of one page.                    *)

TwoDocs == {d1, d2}
Counts == [d \in TwoDocs |-> IF d = d1 THEN 2 ELSE 1]
Positives == [d \in TwoDocs |-> IF d = d1 THEN {1} ELSE {}]

Table(page, src, top, area, cells) ==
  [page |-> page, src |-> src, top |-> top, area |-> area, cov |-> top, cells |-> cells]

NoTable == [lines |-> {}, text |-> {}, aligned |-> FALSE, open |-> FALSE]

\* Two tables on page 0, one of which TableFormer reads as well; one on page 1.
Pages2 ==
  [p \in 0 .. 1 |->
     CASE p = 0 -> [lines |-> {Table(0, Pymupdf, 2, "up", {"a", "b"})},
                    text |-> {Table(0, Pymupdf, 5, "down", {"a", "b"})},
                    aligned |-> TRUE, open |-> TRUE]
       [] p = 1 -> [lines |-> {Table(1, Pymupdf, 3, "mid", {"c"})},
                    text |-> {}, aligned |-> FALSE, open |-> FALSE]]
Contents == [d \in TwoDocs |-> IF d = d1 THEN Pages2 ELSE [p \in {0} |-> NoTable]]

Node(depth, title) == [depth |-> depth, title |-> title, seg |-> FALSE, cells |-> {}]
Seg(depth, cells) == [depth |-> depth, title |-> <<>>, seg |-> TRUE, cells |-> cells]
Head1(title, page) == [title |-> title, page |-> page]
Twins == {Table(0, Tableformer, 2, "up", {"a", "c"}), Table(1, Tableformer, 1, "mid", {"c"})}

Sample(nodes, heads, texts, places) ==
  [tree |-> nodes, heads |-> heads, texts |-> texts, places |-> places, pages |-> 2,
   tableformer |-> Twins]

\* Two sections, one with a subsection; one segment that matches two tables.
Sections ==
  <<Node(0, <<"m">>), Seg(1, {"a", "b"}), Node(0, <<"n">>), Node(1, <<"n", "x">>), Seg(2, {"c"})>>
SubFirst ==
  <<Node(0, <<"m">>), Node(1, <<"n", "x">>), Seg(2, {"a", "b"}), Node(0, <<"n">>), Seg(1, {"c"})>>

\* Three sections of one depth; two or more of them can begin on one page.
Peers ==
  <<Node(0, <<"m">>), Seg(1, {"a", "b"}), Node(0, <<"n">>), Seg(1, {"c"}), Node(0, <<"f">>)>>
PeersAt(second, third, places) ==
  Sample(Peers, <<Head1(<<"m">>, 0), Head1(<<"n">>, second), Head1(<<"f">>, third)>>, <<>>, places)

Trees1 ==
  {Sample(Sections, <<Head1(<<"m">>, 0), Head1(<<"n">>, 1), Head1(<<"n", "x">>, 1)>>, <<>>, <<>>),
   \* The heading of the first section was missed; a later one begins with it.
   Sample(Sections, <<Head1(<<"n">>, 0), Head1(<<"n", "x">>, 0), Head1(<<"m", "f">>, 1)>>, <<>>,
          <<1, 0, 4, 0, 0>>),
   Sample(SubFirst, <<>>, <<{<<"m">>, <<"n">>, <<"n", "x">>}, {}>>, <<3, 0, 0, 6, 0>>),
   \* A heading between the two tables of page 0, and one above or below that of page 1.
   PeersAt(0, 1, <<1, 0, 4, 0, 2>>), PeersAt(0, 1, <<1, 0, 4, 0, 4>>),
   \* All three on page 0, with the last found below the tables, or the second nowhere.
   PeersAt(0, 0, <<1, 0, 3, 0, 6>>), PeersAt(0, 0, <<1, 0, 0, 0, 4>>),
   \* Without the PDF.
   PeersAt(0, 1, <<>>)}
TreesOf == [d \in TwoDocs |->
              IF d = d1 THEN Trees1
              ELSE {[Sample(<<>>, <<>>, <<>>, <<>>) EXCEPT !.tableformer = {}, !.pages = 1]}]

-----------------------------------------------------------------------------
(* Chunks: documents of a few kinds of pages, on machines of a few sizes.  *)

Page(txt, image, table, grid, fails) ==
  [text |-> txt, image |-> image, table |-> table, grid |-> grid, fails |-> fails]
Plain == Page("clean", FALSE, FALSE, "none", "no")
Photo == Page("clean", TRUE, FALSE, "none", "no")
Full == Page("clean", FALSE, TRUE, "full", "no")
Sparse == Page("clean", FALSE, TRUE, "sparse", "no")
Scanned == Page("thin", TRUE, TRUE, "fails", "no")
Mangled == Page("garbled", FALSE, FALSE, "none", "no")
Unread(signal) == Page("clean", TRUE, TRUE, "fails", signal)

Machine(cpus, memory, free) == [cpus |-> cpus, memory |-> memory, free |-> free]
OneProcess == Machine(1, 8, None)   \* chunks of three pages, one at a time
TwoProcesses == Machine(2, 30, None)
OneCore == Machine(1, 30, None)     \* a single pass, however long the document

Flags(force, policy, chunking, bypass) ==
  [force |-> force, policy |-> policy, chunking |-> chunking, bypass |-> bypass]
Usual == Flags(FALSE, "page_class", TRUE, TRUE)

Request(document, machine, known, listed, flags) ==
  LET classes == Classify(document)
  IN  [document |-> document, machine |-> machine,
       plan |-> PlanDocling(Len(document), machine.cpus, machine.memory, machine.free),
       classes |-> IF known = "yes" THEN FromRanges(ToRanges(classes))
                   ELSE IF known = "short" THEN Front(classes)
                   ELSE None,
       listed |-> IF listed THEN PagesWithTables(classes) ELSE None,
       force |-> flags.force, policy |-> flags.policy,
       chunking |-> flags.chunking, bypass |-> flags.bypass,
       run |-> FALSE, deadline |-> FALSE]

Pages6 == [1 .. 6 -> {Plain, Photo, Full}]
ThreeKinds == {Request(d, OneProcess, "yes", FALSE, Usual) : d \in Pages6}

Switches ==
  {Flags(force, policy, chunking, bypass) :
     force \in BOOLEAN, policy \in {"page_class", "force_on", "force_off"},
     chunking \in BOOLEAN, bypass \in BOOLEAN}
Switched ==
  {Request(d, OneProcess, known, listed, flags) :
     d \in [1 .. 2 -> {Plain, Photo, Sparse, Scanned}], known \in {"yes", "no"},
     listed \in BOOLEAN, flags \in Switches}

Odd ==
  {Request(d, machine, known, FALSE, Usual) :
     d \in [1 .. 3 -> {Plain, Full, Mangled, Unread("page"), Unread("image"), Unread("tables")}],
     machine \in {OneProcess, OneCore}, known \in {"yes", "short"}}

Blanks(n) == [i \in 1 .. n |-> Plain]
Sizes ==
  {Request(Blanks(n), Machine(cpus, memory, free), "no", FALSE, Usual) :
     n \in {1, 3, 5, 9, 14}, cpus \in {1, 2, 4}, memory \in {3, 6, 8, 12, 17, 30},
     free \in {None, 1, 7, 12, 25}}

Run(r, deadline) == [r EXCEPT !.run = TRUE, !.deadline = deadline]
Runs ==
  {Run(Request(Blanks(4), TwoProcesses, "no", FALSE, Usual), FALSE),  \* two chunks at once
   Run(Request(Blanks(6), OneProcess, "no", FALSE, Usual), FALSE),    \* one after the other
   Run(Request(Blanks(2), TwoProcesses, "yes", FALSE, Usual), FALSE), \* a single pass
   Run(Request(Blanks(2), TwoProcesses, "yes", FALSE, Usual), TRUE),
   Run(Request(Blanks(4), OneCore, "yes", FALSE, Usual), TRUE)}       \* longer than MaxDocling

PdfRequests == ThreeKinds \cup Switched \cup Odd \cup Sizes \cup Runs

-----------------------------------------------------------------------------
(* Pictures and trees.                                                     *)

Scenes == INSTANCE PictureSamples
Pictures == INSTANCE PictureRecovery
              WITH Requests <- Scenes!Ordinary, request <- picRequest, phase <- picPhase,
                   faults <- picFaults, text <- picText, blocks <- picBlocks, at <- picAt

Documents == INSTANCE TreeSamples
PdfCases == Documents!SampleCases

-----------------------------------------------------------------------------
\* Every document of the pod is gone and its capture with it.
CapturesOver ==
  /\ sup = [d \in Docs |-> "done"]
  /\ slots = [d \in Docs |-> 0]
  /\ over = [d \in Docs |-> FALSE]
  /\ worker = [d \in Docs |-> <<>>]
  /\ result = [d \in Docs |-> NoResult]
  /\ doc = [d \in Docs |-> "dropped"]
  /\ join = [d \in Docs |-> "none"]
  /\ got = [d \in Docs |-> NoResult]
  /\ describe = [d \in Docs |-> "none"]
  /\ kept = [d \in Docs |-> NoTables]
  /\ faults = 0

picVars == <<picRequest, picPhase, picFaults, part, wide, flagged, again, md, map, body, found,
             crops, full, picText, pics, picBlocks, picAt, stored>>
ChunksOver == ConversionInitWith(CHOOSE r \in Sizes : TRUE)

\* No request for pictures, no tree.
NoPicture == [flags |-> Scenes!Default, parts |-> << >>]
PicturesOver == Pictures!InitWith(NoPicture)
TreesOver ==
  /\ source = << >> /\ facts = Documents!Plain /\ tree = << >> /\ at = 1 /\ step = "over"
  /\ defects = {} /\ route = "none" /\ blocks = << >> /\ judged = Unjudged

PdfInit ==
  \/ Init /\ ChunksOver /\ PicturesOver /\ TreesOver
  \/ CapturesOver /\ ConversionInit /\ PicturesOver /\ TreesOver
  \/ CapturesOver /\ ChunksOver /\ Pictures!Init /\ TreesOver
  \/ CapturesOver /\ ChunksOver /\ PicturesOver /\ TreeInit

PdfNext ==
  \/ Next /\ UNCHANGED <<conversionVars, picVars, treeVars>>
  \/ ConversionNext /\ UNCHANGED <<vars, picVars, treeVars>>
  \/ picRequest # NoPicture /\ Pictures!Next /\ UNCHANGED <<vars, conversionVars, treeVars>>
  \/ TreeNext /\ UNCHANGED <<vars, conversionVars, picVars>>

PdfSpec ==
  /\ PdfInit
  /\ [][PdfNext]_<<vars, conversionVars, picVars, treeVars>>
  /\ ConversionFairness

FigureIsItsOwn == Pictures!FigureIsItsOwn
RecoveredIsShown == Pictures!RecoveredIsShown
=============================================================================
