----------------------------- MODULE TableCapture -----------------------------
(***************************************************************************)
(* Table capture beside remote conversions: the documents of one pod, each  *)
(* with a supervisor thread and a process per range of pages, and the life  *)
(* of its result until the document is kept or dropped.  Sources: tables/   *)
(* capture.py, tables/_capture_child.py, tables/anchor.py (PendingTables)   *)
(* and their uses in client/indexer.py.                                     *)
(*                                                                         *)
(* Pages are counted from 0.  A page that is sent is in the pipe for good: a *)
(* send is synchronous, and one torn by a kill reads as the pipe's end.     *)
(* When the supervisor looks (its poll), what memory is free and when a     *)
(* deadline passes is left open.                                            *)
(***************************************************************************)
EXTENDS TableAnchoring

CONSTANTS
  Docs,        \* documents under conversion in the pod
  PageCount,   \* pages of each document
  RangePages,  \* TABLES_MIN_PAGES_PER_PROC
  PodSlots,    \* TABLES_POD_SLOTS
  Cpus,        \* available_cpus()
  Strategies,  \* TABLES_STRATEGIES
  Content,     \* what is on each page of each document
  Positive,    \* pages of each document preclassified as having tables
  HasGrace,    \* TABLES_JOIN_GRACE_S is set
  Samples,     \* trees each document may turn out to have, with its headings
  MaxDescribed,  \* TABLES_DESC_MAX_PER_DOC
  MaxFaults    \* bound: crashes, bad pages, processes too big and stuck threads

ASSUME CaptureAssumption ==
  /\ PageCount \in [Docs -> Nat \ {0}]
  /\ RangePages \in Nat \ {0}
  /\ PodSlots \in Nat \ {0}
  /\ Cpus \in Nat \ {0}
  /\ HasGrace \in BOOLEAN
  /\ MaxFaults \in Nat

VARIABLES
  sup,      \* the supervisor thread: waiting for a slot, running its pool, done
  slots,    \* pod slots it holds
  over,     \* it runs and its deadline has passed, or it has been told to stop
  worker,   \* its processes, one per range of pages
  result,   \* what the supervisor has returned, or NoResult
  doc,      \* where the document is, as far as its tables go
  join,     \* where the join of its capture is
  got,      \* what the join has returned, or NoResult
  describe, \* the description task
  kept,     \* the tables kept with the document, or NoTables
  faults

vars == <<sup, slots, over, worker, result, doc, join, got, describe, kept, faults>>

Smaller(a, b) == IF a < b THEN a ELSE b

\* split_ranges: contiguous and balanced.
Ranges(n, procs) ==
  LET base == n \div procs
      extra == n % procs
      start(i) == i * base + Smaller(i, extra)
  IN  [i \in 1 .. procs |-> start(i - 1) .. start(i) - 1]

Ceiling(a, b) == (a + b - 1) \div b

\* The queue of _run_pool.
RangesOf(d) == Ranges(PageCount[d], Ceiling(PageCount[d], RangePages))
PagesOf(d) == 0 .. PageCount[d] - 1

\* scan_order: pages that look like tables first.
NextPage(d, pages) ==
  LET first == IF pages \cap Positive[d] # {} THEN pages \cap Positive[d] ELSE pages
  IN  CHOOSE p \in first : \A q \in first : p <= q

\* pool_size, for a number of processes the free memory has room for.
PoolSize(d, mem) ==
  LET most == Smaller(Smaller(Cpus, mem), Smaller(Ceiling(PageCount[d], RangePages), PodSlots))
  IN  IF most < 1 THEN 1 ELSE most

\* failed_runs: contiguous runs of pages.
FailedRuns(pages) ==
  {run \in pages \X pages :
     /\ run[1] <= run[2] /\ run[1] .. run[2] \subseteq pages
     /\ run[1] - 1 \notin pages /\ run[2] + 1 \notin pages}

\* A result: the pages that were scanned, and for each reason those that failed for it.
Reasons == {"rss_limit", "deadline", "crash", "no_slot"}

NoResult == [scanned |-> {}, failed |-> [reason \in Reasons |-> {}]]

NoTables == [pages |-> {}]

\* _all_failed.
AllFailed(d, reason) == [NoResult EXCEPT !.failed[reason] = PagesOf(d)]

Fresh == [state |-> "queued", sent |-> {}, bad |-> {}, finished |-> FALSE, reason |-> "none"]

Init ==
  /\ sup = [d \in Docs |-> "slots"]
  /\ slots = [d \in Docs |-> 0]
  /\ over = [d \in Docs |-> FALSE]
  /\ worker = [d \in Docs |-> [g \in DOMAIN RangesOf(d) |-> Fresh]]
  /\ result = [d \in Docs |-> NoResult]
  /\ doc = [d \in Docs |-> "converting"]
  /\ join = [d \in Docs |-> "none"]
  /\ got = [d \in Docs |-> NoResult]
  /\ describe = [d \in Docs |-> "none"]
  /\ kept = [d \in Docs |-> NoTables]
  /\ faults = 0

docVars == <<doc, join, got, describe, kept>>

Fault == faults < MaxFaults /\ faults' = faults + 1

SetWorker(d, g, w) == worker' = [worker EXCEPT ![d][g] = w]

-----------------------------------------------------------------------------
(* A capture process.                                                      *)

Left(d, g) == RangesOf(d)[g] \ (worker[d][g].sent \cup worker[d][g].bad)

\* run_range: one message per page; a page that cannot be read fails alone.
ScanPage(d, g) ==
  /\ worker[d][g].state = "alive"
  /\ Left(d, g) # {}
  /\ LET p == NextPage(d, Left(d, g))
     IN  \/ SetWorker(d, g, [worker[d][g] EXCEPT !.sent = @ \cup {p}]) /\ UNCHANGED faults
         \/ SetWorker(d, g, [worker[d][g] EXCEPT !.bad = @ \cup {p}]) /\ Fault
  /\ UNCHANGED <<sup, slots, over, result, docVars>>

\* A native crash, or the kernel, which takes a capture process first.
ProcessDies(d, g) ==
  /\ worker[d][g].state = "alive"
  /\ Fault
  /\ SetWorker(d, g, [worker[d][g] EXCEPT !.state = "dead"])
  /\ UNCHANGED <<sup, slots, over, result, docVars>>

-----------------------------------------------------------------------------
(* The supervisor.                                                         *)

FreeSlots == PodSlots - MapThenSumSet(LAMBDA d : slots[d], Docs)

\* Not finished and not given up: counts against the slots.
Running(d) ==
  {g \in DOMAIN worker[d] :
     /\ worker[d][g].state \notin {"queued"}
     /\ ~worker[d][g].finished /\ worker[d][g].reason = "none"}
Queued(d) == {g \in DOMAIN worker[d] : worker[d][g].state = "queued"}

\* The finally of _run_pool: everything is killed, the slots go, the thread ends.
SupervisorEnds(d) ==
  /\ sup' = [sup EXCEPT ![d] = "done"]
  /\ worker' = [worker EXCEPT ![d] = [g \in DOMAIN @ |-> Fresh]]
  /\ slots' = [slots EXCEPT ![d] = 0]
  /\ over' = [over EXCEPT ![d] = FALSE]

\* acquire_slots: wait for the first one; more only if they are free right now.
FirstSlots(d) ==
  /\ sup[d] = "slots"
  /\ FreeSlots > 0
  /\ \E mem \in 1 .. Cpus : slots' = [slots EXCEPT ![d] = Smaller(PoolSize(d, mem), FreeSlots)]
  /\ sup' = [sup EXCEPT ![d] = "pool"]
  /\ UNCHANGED <<over, worker, result, docVars, faults>>

NoSlot(d) ==
  /\ sup[d] = "slots"
  /\ over[d]
  /\ result' = [result EXCEPT ![d] = AllFailed(d, "no_slot")]
  /\ SupervisorEnds(d)
  /\ UNCHANGED <<docVars, faults>>

\* _room and _spawn, for one process; whether memory has room for another beside
\* running ones is left open.  One more slot is taken if it is free.
Spawn(d) ==
  /\ sup[d] = "pool" /\ ~over[d] /\ Queued(d) # {}
  /\ Running(d) = {} \/ Cardinality(Running(d)) < Cpus
  /\ LET missing == Cardinality(Running(d)) + 1 - slots[d]
     IN  /\ missing <= FreeSlots
         /\ slots' = [slots EXCEPT ![d] = IF missing > 0 THEN @ + missing ELSE @]
  /\ SetWorker(d, Min(Queued(d)), [Fresh EXCEPT !.state = "alive"])
  /\ UNCHANGED <<sup, over, result, docVars, faults>>

\* Every page is through, so the process has said so and ended, if nothing ended it
\* first; a range with a bad page is not whole.
Whole(d, g) == worker[d][g].state = "alive" /\ Left(d, g) = {} /\ worker[d][g].bad = {}

\* _check finds the process gone, reads what is left in the pipe, and blames a
\* range that did not come to its end on a crash.
NoticeEnd(d, g) ==
  /\ sup[d] = "pool"
  /\ g \in Running(d)
  /\ worker[d][g].state = "dead" \/ Left(d, g) = {}
  /\ SetWorker(d, g, [worker[d][g] EXCEPT !.state = "ended", !.finished = Whole(d, g),
                                           !.reason = IF Whole(d, g) THEN "none" ELSE "crash"])
  /\ UNCHANGED <<sup, slots, over, result, docVars, faults>>

\* _check, over TABLES_PROC_BYTES.
KillForMemory(d, g) ==
  /\ sup[d] = "pool"
  /\ g \in Running(d)
  /\ worker[d][g].state = "alive"
  /\ Fault
  /\ SetWorker(d, g, [worker[d][g] EXCEPT !.state = "killed", !.reason = "rss_limit"])
  /\ UNCHANGED <<sup, slots, over, result, docVars>>

\* What the pool ends with: the finished ranges, and those whose end is still in the
\* pipe when it is read for the last time.
Finished(d, g) == worker[d][g].finished \/ Whole(d, g)

\* What still runs is killed for the deadline.
Blame(d, g) == IF g \in Running(d) THEN "deadline" ELSE worker[d][g].reason

\* Fault: a range is judged by its reason, though its end was still in the pipe.
LostByReason(d, reason) ==
  UNION {RangesOf(d)[g] : g \in {x \in DOMAIN worker[d] : Blame(d, x) = reason}}

\* The pages that failed for a reason; a range that never began, for the deadline.
Lost(d, reason) ==
  (UNION {RangesOf(d)[g] : g \in IF reason = "deadline" THEN Queued(d) ELSE {}})
  \cup (UNION {RangesOf(d)[g] \ worker[d][g].sent :
           g \in {x \in DOMAIN worker[d] \ Queued(d) : ~Finished(d, x) /\ Blame(d, x) = reason}})

\* The pool is through, or it is out of time or told to stop: what the pipes still
\* hold is read out behind the kill, and the slots go behind the processes.
CollectPages(d) ==
  /\ sup[d] = "pool"
  /\ over[d] \/ (Running(d) = {} /\ Queued(d) = {})
  /\ result' = [result EXCEPT ![d] =
       [scanned |-> UNION {worker[d][g].sent : g \in DOMAIN worker[d]},
        failed |-> [reason \in Reasons |-> Lost(d, reason)]]]
  /\ SupervisorEnds(d)
  /\ UNCHANGED <<docVars, faults>>

\* Starting a process fails: _run gives up all pages.
SupervisorFails(d) ==
  /\ sup[d] = "pool" /\ Queued(d) # {}
  /\ Fault
  /\ result' = [result EXCEPT ![d] = AllFailed(d, "crash")]
  /\ SupervisorEnds(d)
  /\ UNCHANGED docVars

DeadlinePasses(d) ==
  /\ ~over[d] /\ sup[d] # "done"
  /\ over' = [over EXCEPT ![d] = TRUE]
  /\ UNCHANGED <<sup, slots, worker, result, docVars, faults>>

Supervise(d) ==
  \/ FirstSlots(d) \/ NoSlot(d) \/ Spawn(d) \/ CollectPages(d)
  \/ \E g \in DOMAIN worker[d] : NoticeEnd(d, g)

-----------------------------------------------------------------------------
(* The join, and the document.                                             *)

\* collect: the conversion is over, the tree is built beside the join.
StartJoin(d) ==
  /\ doc[d] = "converting"
  /\ doc' = [doc EXCEPT ![d] = "building"]
  /\ join' = [join EXCEPT ![d] = "waiting"]
  /\ UNCHANGED <<sup, slots, over, worker, result, got, describe, kept, faults>>

\* The grace ends, the capture's own deadline when none is set: the capture is told
\* to stop, and has another 30 s.
JoinTimesOut(d) ==
  /\ join[d] = "waiting" /\ sup[d] # "done"
  /\ HasGrace \/ over[d]
  /\ join' = [join EXCEPT ![d] = "stopping"]
  /\ over' = [over EXCEPT ![d] = TRUE]
  /\ UNCHANGED <<sup, slots, worker, result, doc, got, describe, kept, faults>>

\* _collect goes on to the descriptions.
Collected(d, r) ==
  /\ got' = [got EXCEPT ![d] = r]
  /\ join' = [join EXCEPT ![d] = "back"]
  /\ describe' = [describe EXCEPT ![d] =
       IF join[d] # "closing" /\ \E p \in r.scanned : Scan(Content[d][p], Strategies) # {}
       THEN "running" ELSE "none"]

JoinReturns(d) ==
  /\ join[d] \in {"waiting", "stopping", "closing"} /\ sup[d] = "done"
  /\ Collected(d, result[d])
  /\ result' = [result EXCEPT ![d] = NoResult]
  /\ UNCHANGED <<sup, slots, over, worker, doc, kept, faults>>

\* The thread is stuck for the 30 s of the second join.
JoinGivesUp(d) ==
  /\ join[d] \in {"stopping", "closing"} /\ sup[d] # "done"
  /\ Fault
  /\ Collected(d, AllFailed(d, "deadline"))
  /\ UNCHANGED <<sup, slots, over, worker, result, doc, kept>>

DescriptionsEnd(d) ==
  /\ describe[d] = "running"
  /\ describe' = [describe EXCEPT ![d] = "done"]
  /\ UNCHANGED <<sup, slots, over, worker, result, doc, join, got, kept, faults>>

\* finalize waits for the descriptions up to its timeout, which cancels them; a call
\* that fails leaves as little.
DescriptionsTimeOut(d) ==
  /\ doc[d] = "building" /\ describe[d] = "running"
  /\ describe' = [describe EXCEPT ![d] = "dropped"]
  /\ UNCHANGED <<sup, slots, over, worker, result, doc, join, got, kept, faults>>

\* The tables read from some pages of a document.
ReadFrom(d, pages) == UNION {Scan(Content[d][p], Strategies) : p \in pages}

\* The document is over; nothing reads its capture's result any more.
Leaves(d, to) ==
  /\ doc' = [doc EXCEPT ![d] = to]
  /\ join' = [join EXCEPT ![d] = "over"]
  /\ got' = [got EXCEPT ![d] = NoResult]

\* finalize: the document passed its gates and is about to be persisted.
Finalize(d) ==
  /\ doc[d] = "building" /\ join[d] = "back" /\ describe[d] # "running"
  /\ \E sample \in Samples[d] :
       kept' = [kept EXCEPT ![d] = [sample |-> sample, pages |-> got[d].scanned,
                                    answered |-> describe[d] = "done"]]
  /\ Leaves(d, "kept")
  /\ describe' = [describe EXCEPT ![d] = "none"]
  /\ UNCHANGED <<sup, slots, over, worker, result, faults>>

\* aclose: the document is rejected, kept flat, or failed.  The capture is told to
\* stop; one that was never joined is joined now.
Drop(d) ==
  /\ doc[d] \in {"converting", "building"}
  /\ doc' = [doc EXCEPT ![d] = "dropping"]
  /\ over' = [over EXCEPT ![d] = sup[d] # "done"]
  /\ join' = [join EXCEPT ![d] = IF @ = "none" THEN "closing" ELSE @]
  /\ UNCHANGED <<sup, slots, worker, result, got, describe, kept, faults>>

\* The join is back; a description that still runs is cancelled.
DropEnds(d) ==
  /\ doc[d] = "dropping" /\ join[d] = "back"
  /\ Leaves(d, "dropped")
  /\ describe' = [describe EXCEPT ![d] = "none"]
  /\ UNCHANGED <<sup, slots, over, worker, result, kept, faults>>

Index(d) ==
  \/ StartJoin(d) \/ JoinReturns(d) \/ DescriptionsTimeOut(d) \/ Finalize(d) \/ DropEnds(d)

-----------------------------------------------------------------------------
Next ==
  \E d \in Docs :
    \/ Supervise(d) \/ SupervisorFails(d) \/ DeadlinePasses(d)
    \/ Index(d) \/ JoinTimesOut(d) \/ JoinGivesUp(d) \/ DescriptionsEnd(d) \/ Drop(d)
    \/ \E g \in DOMAIN worker[d] :
         ScanPage(d, g) \/ ProcessDies(d, g) \/ KillForMemory(d, g)

Spec == Init /\ [][Next]_vars


-----------------------------------------------------------------------------
(* Properties.                                                             *)

\* The failed runs a page is in, each with its reason.
RunsOver(d, p) ==
  UNION {{reason} \X {run \in FailedRuns(got[d].failed[reason]) : p \in run[1] .. run[2]} :
           reason \in Reasons}

\* What the join returns accounts for every page: it was scanned, or it is in
\* exactly one of the failed runs with its reason, however its process ended and
\* whatever was still in the pipe (CaptureResult, P9).
EveryPageAccounted ==
  \A d \in Docs :
    join[d] = "back" =>
      \A p \in PagesOf(d) :
        Cardinality(RunsOver(d, p)) = IF p \in got[d].scanned THEN 0 ELSE 1

Kept(d) == doc[d] = "kept"
Recs(d) == ReadFrom(d, kept[d].pages) \cup kept[d].sample.tableformer

\* Where the tables of a kept document are: finalize's _build.  A constant, so that
\* it is computed once.
Anchorings ==
  [d \in Docs |-> [s \in Samples[d] |-> [pages \in SUBSET PagesOf(d) |-> [answered \in BOOLEAN |->
     Anchored(ReadFrom(d, pages) \cup s.tableformer, s,
              IF answered THEN Chosen(ReadFrom(d, pages), MaxDescribed) ELSE {})]]]]

Place(d) == Anchorings[d][kept[d].sample][kept[d].pages][kept[d].answered]

\* Two tables PyMuPDF read never get one node and each gets one; a table only
\* TableFormer read takes its partner's node, a segment of its own, or none.
ShownOnce(read, only, at) ==
  /\ \A r, o \in read : r # o => at[r] # at[o]
  /\ \A r \in read : at[r] # NoNode
  /\ \A t \in only, r \in read : at[t] = at[r] => r.page = t.page

\* The sections a table can be in: spans are whole pages, so one whose heading is on the
\* table's page or before it, and that no heading of an earlier page ended.
OpenAt(r, tree, heads) ==
  {x \in DOMAIN heads :
     /\ heads[x].page <= r.page
     /\ \A y \in DOMAIN heads :
          y > x /\ tree[heads[y].node].depth <= tree[heads[x].node].depth
            => heads[y].page >= r.page}

\* The headings before a table: of an earlier page, or found higher up on its own.
HeadingsAbove(r, heads, places) ==
  {x \in DOMAIN heads :
     \/ heads[x].page < r.page
     \/ /\ heads[x].page = r.page
        /\ places = <<>> \/ places[heads[x].node] \in 1 .. r.top}

\* A table is in a section open on its page; and of the open ones of that depth with a
\* heading above the table, it is in the last.
InSection(recs, sample, place) ==
  \A r \in recs :
    LET open == OpenAt(r, sample.tree, place.heads)
        above == open \cap HeadingsAbove(r, place.heads, sample.places)
        depth(x) == sample.tree[place.heads[x].node].depth
    IN  open # {} =>
          \E x \in open :
            /\ place.heads[x].node = place.node[r]
            /\ \A y \in above : depth(y) = depth(x) => x \in above /\ y <= x

\* Anchoring shows no table twice and lets none PyMuPDF read go, whatever tables share a
\* page, a segment or a partner; and when sections of one depth share the table's page,
\* the table is under the last heading above it: under none below it while there is one
\* above, and in no section the next such heading ended before it.  Sections of
\* different depths on one page are not told apart by position: the deepest takes the
\* table, even from above its heading (assign_nodes, insert_tables, P14).
TablesInPlace ==
  \A d \in Docs :
    Kept(d) /\ kept[d].sample.tree # <<>> =>
      /\ ShownOnce(Of(Pymupdf, Recs(d)), Of(Tableformer, Recs(d)), Place(d).at)
      /\ InSection(Recs(d), kept[d].sample, Place(d))

TitlesOf(s) == [i \in DOMAIN Titled(s.tree) |-> s.tree[Titled(s.tree)[i]].title]
HeadingsOf(s) == [k \in DOMAIN s.heads |-> s.heads[k].title]

\* What a pairing of titles with headings scores.
Worth(s, pairs) == MapThenSumSet(LAMBDA p : Score(TitlesOf(s)[p[1]], HeadingsOf(s)[p[2]]), pairs)

\* Every way to pair the two that keeps the order of both.
Pairings(s) ==
  LET could == {p \in (DOMAIN TitlesOf(s)) \X (DOMAIN HeadingsOf(s)) : Worth(s, {p}) > 0}
  IN  {S \in SUBSET could :
         \A p, q \in S : p # q => (p[1] < q[1] /\ p[2] < q[2]) \/ (q[1] < p[1] /\ q[2] < p[2])}

Alignments ==
  [s \in UNION {Samples[d] : d \in Docs} |->
     [taken |-> Worth(s, ToSet(Align(TitlesOf(s), HeadingsOf(s)))),
      best |-> Max({Worth(s, S) : S \in Pairings(s)})]]

\* No other pairing of titles and headings scores higher than the one taken: a title
\* whose heading was missed does not take away the headings behind it (_align_titles).
AlignmentIsBest ==
  \A d \in Docs :
    Kept(d) => Alignments[kept[d].sample].taken = Alignments[kept[d].sample].best
=============================================================================
