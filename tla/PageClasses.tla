------------------------------ MODULE PageClasses ------------------------------
(***************************************************************************)
(* What each page of a PDF needs, and how its pages are cut into chunks.    *)
(* Sources: converters/preclassify.py (PageClass, classify_pages, the wire  *)
(* form), converters/page_class_chunker.py, docling_conv._plan_chunks and   *)
(* docling_resources.plan_docling.                                         *)
(*                                                                         *)
(* Pages are counted from 0.  A page is what is on it and which of the      *)
(* classifier's signals fails there; memory is counted in the pages a       *)
(* process can hold in it.                                                  *)
(***************************************************************************)
EXTENDS Integers, Sequences, FiniteSets, FiniteSetsExt, SequencesExt

CONSTANTS
  MinChunk,      \* MIN_CHUNK_PAGES
  MaxChunk,      \* MAX_CHUNK_PAGES
  ParallelMin,   \* PARALLEL_MIN_PAGES
  ParentReserve, \* PARENT_RESERVE_BYTES, in pages
  WorkerBase,    \* WORKER_BASE_BYTES, in pages
  None

\* What the sizes have to be for a plan to make sense.
ChunkSizes ==
  /\ MinChunk \in Nat \ {0}
  /\ MaxChunk \in Nat \ {0}
  /\ MinChunk <= MaxChunk
  /\ ParallelMin \in Nat
  /\ ParentReserve \in Nat
  /\ WorkerBase \in Nat

-----------------------------------------------------------------------------
(* Classifying.                                                            *)

Class(text, images, tables) == [text |-> text, images |-> images, tables |-> tables]

AllOn == Class(FALSE, TRUE, TRUE)

NeedsTables(class) == class.tables

\* A page of clean text without images and tables gets no OCR.
NeedsOcr(class) == ~class.text \/ class.images \/ class.tables

\* A signal that fails takes its safe value; a page without text cannot show a table
\* and stays a table page (_classify_page).
ClassOf(page) ==
  IF page.fails = "page" THEN AllOn
  ELSE Class(page.text = "clean" /\ page.fails # "text",
             page.image \/ page.fails = "image",
             \/ page.text = "thin"
             \/ page.fails \in {"text", "tables"}
             \/ page.table)

Padded(pages, n) == {p \in 0 .. n - 1 : \E t \in pages : p \in t - 1 .. t + 1}

\* classify_pages: table pages take their neighbours with them.
Classify(document) ==
  LET found == [i \in DOMAIN document |-> ClassOf(document[i])]
      tables == {i - 1 : i \in {j \in DOMAIN found : found[j].tables}}
      padded == Padded(tables, Len(document))
  IN  [i \in DOMAIN found |->
         IF i - 1 \in padded THEN [found[i] EXCEPT !.tables = TRUE] ELSE found[i]]

PagesWithTables(classes) == {i - 1 : i \in {j \in DOMAIN classes : classes[j].tables}}

\* The classes on the wire: runs <<first, last, class>> (page_classes_to_ranges).
Ranged(ranges, page, class) ==
  IF ranges # <<>> /\ Last(ranges)[3] = class
  THEN [ranges EXCEPT ![Len(ranges)][2] = page]
  ELSE Append(ranges, <<page, page, class>>)
ToRanges(classes) ==
  LET upTo[k \in 0 .. Len(classes)] ==
        IF k = 0 THEN <<>> ELSE Ranged(upTo[k - 1], k - 1, classes[k])
  IN  upTo[Len(classes)]

\* Ranges that leave a gap, overlap or run backwards are no classes at all
\* (page_classes_from_ranges; _page_classes_from_handshake).
FromRanges(ranges) ==
  IF \A i \in DOMAIN ranges :
       /\ ranges[i][1] = IF i = 1 THEN 0 ELSE ranges[i - 1][2] + 1
       /\ ranges[i][2] >= ranges[i][1]
  THEN FlattenSeq([i \in DOMAIN ranges |->
                     [k \in 1 .. ranges[i][2] - ranges[i][1] + 1 |-> ranges[i][3]]])
  ELSE None

-----------------------------------------------------------------------------
(* Chunks.                                                                 *)

Chunk(start, end, tables, ocr) == [start |-> start, end |-> end, tables |-> tables, ocr |-> ocr]

PagesIn(chunk) == chunk.end - chunk.start + 1

SameNeeds(a, b) == a.tables = b.tables /\ a.ocr = b.ocr

Covers(outer, inner) == (inner.tables => outer.tables) /\ (inner.ocr => outer.ocr)

\* Fault: the longer run's needs stand for both.
MergeKeepingLonger(a, b) ==
  LET needs == IF PagesIn(b) > PagesIn(a) THEN b ELSE a
  IN  Chunk(a.start, b.end, needs.tables, needs.ocr)

Merge(a, b) == Chunk(a.start, b.end, a.tables \/ b.tables, a.ocr \/ b.ocr)

\* A run with the needs of the last one lengthens it.
Grown(out, r) ==
  IF out # <<>> /\ SameNeeds(Last(out), r)
  THEN Append(Front(out), Merge(Last(out), r))
  ELSE Append(out, r)
Coalesce(runs) ==
  LET upTo[k \in 0 .. Len(runs)] == IF k = 0 THEN <<>> ELSE Grown(upTo[k - 1], runs[k])
  IN  upTo[Len(runs)]

RunLength(classes) ==
  Coalesce([i \in DOMAIN classes |->
              Chunk(i - 1, i - 1, NeedsTables(classes[i]), NeedsOcr(classes[i]))])

\* Runs i and i + 1 become one.
Join(runs, i) ==
  Coalesce(SubSeq(runs, 1, i - 1) \o <<Merge(runs[i], runs[i + 1])>>
             \o SubSeq(runs, i + 2, Len(runs)))

\* The first of the runs with the fewest, or the most, pages.
Shortest(runs, is) ==
  CHOOSE i \in is : \A j \in is \ {i} :
    \/ PagesIn(runs[i]) < PagesIn(runs[j])
    \/ PagesIn(runs[i]) = PagesIn(runs[j]) /\ i < j
Longest(runs, is) ==
  CHOOSE i \in is : \A j \in is \ {i} :
    \/ PagesIn(runs[i]) > PagesIn(runs[j])
    \/ PagesIn(runs[i]) = PagesIn(runs[j]) /\ i < j

TooShort(runs, min) == {i \in DOMAIN runs : PagesIn(runs[i]) < min}
Beside(runs, i) == {i - 1, i + 1} \cap DOMAIN runs
Covering(runs, i) == {j \in Beside(runs, i) : Covers(runs[j], runs[i])}
NoLonger(runs, i, min) == {j \in Beside(runs, i) : PagesIn(runs[j]) <= min}
JoinWith(runs, i, j) == Join(runs, IF i < j THEN i ELSE j)

\* A short run joins a neighbour that covers it, the longer one first; when there is no
\* such pair anywhere, a neighbour no longer than min.
AbsorbOne(runs, min) ==
  LET covered == {i \in TooShort(runs, min) : Covering(runs, i) # {}}
      upgradable == {i \in TooShort(runs, min) : NoLonger(runs, i, min) # {}}
  IN  IF covered # {}
      THEN LET i == Shortest(runs, covered)
           IN  JoinWith(runs, i, Longest(runs, Covering(runs, i)))
      ELSE IF upgradable # {}
      THEN LET i == Shortest(runs, upgradable)
           IN  JoinWith(runs, i, Shortest(runs, NoLonger(runs, i, min)))
      ELSE runs

\* _absorb_short_runs, until there is none.  Each round leaves a run less, so as many
\* rounds as there are runs are all there can be.
AbsorbShortRuns(runs, min) ==
  LET after[k \in 0 .. Len(runs)] == IF k = 0 THEN runs ELSE AbsorbOne(after[k - 1], min)
  IN  after[Len(runs)]

CeilDiv(a, b) == (a + b - 1) \div b

\* The fewest pieces of at most max pages, near equal.
Pieces(run, max) ==
  LET pieces == CeilDiv(PagesIn(run), max)
      base == PagesIn(run) \div pieces
      extra == PagesIn(run) % pieces
      first(k) == run.start + (k - 1) * base + (IF k - 1 < extra THEN k - 1 ELSE extra)
  IN  [k \in 1 .. pieces |-> Chunk(first(k), first(k + 1) - 1, run.tables, run.ocr)]

SplitToMax(runs, max) == FlattenSeq([i \in DOMAIN runs |-> Pieces(runs[i], max)])

PageClassChunks(classes, max, min) ==
  SplitToMax(AbsorbShortRuns(RunLength(classes), Min({min, max})), max)

\* Without classes: uniform chunks, which need nothing of their own.
UniformChunks(n, max) ==
  [k \in 1 .. CeilDiv(n, max) |->
     Chunk((k - 1) * max, Min({k * max, n}) - 1, FALSE, FALSE)]

PlanChunks(n, max, classes) ==
  IF classes = None THEN UniformChunks(n, max)
  ELSE PageClassChunks(classes, Min({max, MaxChunk}), MinChunk)

-----------------------------------------------------------------------------
(* Processes.                                                              *)

Plan(workers, threads, pages) == [workers |-> workers, threads |-> threads, pages |-> pages]

PerProcPeak(pages) == WorkerBase + pages

\* TLA+ rounds towards minus infinity as Python does.
SafeProcs(cpus, free, reserve, pages) ==
  Max({0, Min({cpus, (free - reserve) \div PerProcPeak(pages)})})

Fit(budget, workers) == Max({MinChunk, budget \div workers - WorkerBase})

PlanFromTotal(n, cpus, memory) ==
  LET budget == memory - ParentReserve
      byMemory == budget \div PerProcPeak(MinChunk)
      byPages == IF n > ParallelMin THEN n \div MinChunk ELSE 1
      workers == Max({1, Min({cpus, byMemory, byPages})})
      fit == Fit(budget, workers)
      target == CeilDiv(n, workers * 2)
  IN  IF workers = 1
      THEN Plan(1, cpus, IF n <= fit THEN n ELSE Min({fit, MaxChunk}))
      ELSE Plan(workers, Max({1, cpus \div workers}),
                Max({MinChunk, Min({target, fit, MaxChunk})}))

\* plan_docling: the plan for the whole machine, its processes cut to what is free now.
PlanDocling(n, cpus, memory, free) ==
  LET plan == PlanFromTotal(n, cpus, memory)
      safe == SafeProcs(cpus, free, ParentReserve, plan.pages)
      workers == Min({plan.workers, Max({1, safe})})
  IN  IF free = None \/ workers = plan.workers THEN plan
      ELSE [plan EXCEPT !.workers = workers, !.threads = Max({1, cpus \div workers})]

\* plan_slice: one process for a chunk of a split document.
PlanSlice(n, slots, cpus) == Plan(1, Max({1, cpus \div slots}), Max({1, n}))
=============================================================================
