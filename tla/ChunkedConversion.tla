--------------------------- MODULE ChunkedConversion ---------------------------
(***************************************************************************)
(* The conversion of one PDF in chunks, each in a process of its own: the   *)
(* threads of the pool, their polling of the processes, the caller that     *)
(* waits for them in order, cancellation, time limits, the death of the     *)
(* service.  Sources: converters/docling_conv.py                            *)
(* (_pdf_to_markdown_docling_chunked, _run_docling_chunk_with_timeout,      *)
(* _docling_chunk_worker) and the killable direct route of pipeline.py,     *)
(* which is one chunk without a file.                                      *)
(*                                                                         *)
(* A thread looks at its process in two steps: the queue is empty, and then *)
(* what it makes of that.  When time limits pass is left open.  A process   *)
(* is its whole group, the OCR programs it started included.                *)
(***************************************************************************)
EXTENDS ChunkBypass

CONSTANTS
  Requests,        \* the requests of the instance
  MaxDocling,      \* MAX_DOCLING_PAGES of the chunk's process
  MaxChunks,       \* bound: chunks of a request that is run
  MaxChunkFaults  \* bound: processes and services that die, files not written or read

PageKinds ==
  [text : {"clean", "thin", "garbled"}, image : BOOLEAN, table : BOOLEAN,
   grid : {"full", "sparse", "none", "fails"},
   fails : {"no", "page", "text", "image", "tables"}]

\* A request has pages, and one that is run no more chunks than the bound.
RequestsArePages ==
  \A r \in Requests :
    /\ r.document \in Seq(PageKinds) /\ Len(r.document) > 0
    /\ r.run => Len(ChunksOf(r)) <= MaxChunks

\* It is planned for its machine, and what is sent with it was read off its pages: the
\* classes as they come off the wire, or of another number of pages, and the table pages.
RequestsAreMade ==
  \A r \in Requests :
    /\ r.machine.cpus \in Nat \ {0} /\ r.machine.memory \in Nat
    /\ r.plan = PlanDocling(Len(r.document), r.machine.cpus, r.machine.memory, r.machine.free)
    /\ r.classes # None =>
         \/ r.classes = FromRanges(ToRanges(Classify(r.document)))
         \/ Len(r.classes) # Len(r.document)
    /\ r.listed \in {None, PagesWithTables(Classify(r.document))}
    /\ \A switch \in {r.force, r.chunking, r.bypass} : switch \in BOOLEAN

NoneIsNothing == None \notin {"none", "docling", "layer"} /\ None # {}

ASSUME ConversionAssumption ==
  ChunkSizes /\ RequestsArePages /\ RequestsAreMade /\ NoneIsNothing

VARIABLES
  request,
  chunks,   \* the chunks it is cut into
  phase,    \* of the calling thread
  files,    \* the chunks whose file exists
  next,     \* the chunk whose result the caller waits for
  thread,   \* of the pool, or of the call: what it does with each chunk
  child,    \* the process of each chunk
  mail,     \* what is in each process's queue
  late,     \* the chunks whose time is up
  record,   \* what each process said it runs with, or None
  text,     \* how each chunk came out: by Docling, from the text layer
  returned, \* what the call returns, or None
  cancel,   \* cancel_event
  up,       \* the service lives
  chunkFaults

conversionVars == <<request, chunks, phase, files, next, thread, child, mail, late, record,
                    text, returned, cancel, up, chunkFaults>>
callVars == <<request, chunks, phase, files, next, returned>>
chunkVars == <<thread, child, mail, late, record, text>>
envVars == <<cancel, up, chunkFaults>>

All == DOMAIN chunks
Live == {"starting", "working", "reported"}  \* the process lives and heeds its parent
Orphaned == "orphan"                         \* it lives and does not know its parent died
Resting == {"queued", "ok", "error", "cancelled", "dropped"}
Failed == {"error", "cancelled"}
Busy == {i \in All : thread[i] \notin Resting}

ConversionInitWith(r) ==
  /\ request = r
  /\ chunks = ChunksOf(r)
  /\ phase = IF ~r.run THEN "planned" ELSE IF Direct(r) THEN "waiting" ELSE "splitting"
  /\ files = {}
  /\ next = 1
  /\ thread = [i \in All |-> "queued"]
  /\ child = [i \in All |-> "none"]
  /\ mail = [i \in All |-> <<>>]
  /\ late = {}
  /\ record = [i \in All |-> None]
  /\ text = [i \in All |-> None]
  /\ returned = None
  /\ cancel = FALSE
  /\ up = TRUE
  /\ chunkFaults = 0

ConversionInit == \E r \in Requests : ConversionInitWith(r)

ChunkFault == chunkFaults < MaxChunkFaults /\ chunkFaults' = chunkFaults + 1

-----------------------------------------------------------------------------
(* The caller.                                                             *)

Calling(p) == up /\ phase = p

\* The chunk files are written one after the other; one that fails ends the call.
WriteFile ==
  /\ Calling("splitting")
  /\ \/ /\ files' = files \cup {Cardinality(files) + 1}
        /\ phase' = IF files' = All THEN "waiting" ELSE "splitting"
        /\ UNCHANGED chunkFaults
     \/ /\ ChunkFault
        /\ files' = files \cup {Cardinality(files) + 1}
        /\ phase' = "failing"
  /\ UNCHANGED <<request, chunks, next, returned, cancel, up>>
  /\ UNCHANGED chunkVars

\* f.result() for each future in order: a failed chunk is met when those before it are
\* done, and then the queued ones are not started.
Wait ==
  /\ Calling("waiting")
  /\ \/ /\ thread[next] = "ok"
        /\ next' = next + 1
        /\ phase' = IF next = Len(chunks) THEN "merging" ELSE "waiting"
        /\ UNCHANGED thread
     \/ /\ thread[next] \in Failed
        /\ phase' = "draining"
        /\ thread' = [i \in All |-> IF thread[i] = "queued" THEN "dropped" ELSE thread[i]]
        /\ UNCHANGED next
  /\ UNCHANGED <<request, chunks, files, returned, child, mail, late, record, text>>
  /\ UNCHANGED envVars

\* Fault: the pool is shut down without waiting.
DrainAtOnce ==
  /\ Calling("draining")
  /\ phase' = "failing"
  /\ UNCHANGED <<request, chunks, files, next, returned>>
  /\ UNCHANGED chunkVars
  /\ UNCHANGED envVars

\* shutdown(wait=True, cancel_futures=True): the running chunks run to their own end.
Drain ==
  /\ Calling("draining")
  /\ Busy = {}
  /\ phase' = "failing"
  /\ UNCHANGED <<request, chunks, files, next, returned>>
  /\ UNCHANGED chunkVars
  /\ UNCHANGED envVars

Fail ==
  /\ Calling("failing")
  /\ files' = {}
  /\ phase' = "raised"
  /\ UNCHANGED <<request, chunks, next, returned>>
  /\ UNCHANGED chunkVars
  /\ UNCHANGED envVars

Pages(chunk) == [k \in 1 .. PagesIn(chunk) |-> chunk.start + k - 1]

\* Fault: pages stay as the chunk counts them.
RebasePages(found, start) == found

\* Tables, headings and pictures carry the page they are on, counted from the chunk's
\* first: <<what is there, its page>> (rebase_pages).
Rebase(found, start) == {<<f[1], f[2] + start>> : f \in found}

Found(i) ==
  IF text[i] = "docling"
  THEN {<<p, p - chunks[i].start>> : p \in chunks[i].start .. chunks[i].end}
  ELSE {}

\* The decision a chunk is recorded under: its process's, or the parent's when the
\* process never said.
Reported(i) ==
  IF record[i] # None THEN record[i] ELSE NothingBypassed(request, chunks[i])

\* _merge_chunk_extras and the join of the markdown.
Merged ==
  [pages |-> FlattenSeq([i \in All |-> Pages(chunks[i])]),
   found |-> UNION {Rebase(Found(i), chunks[i].start) : i \in All},
   context |-> [i \in All |-> Reported(i)]]

Return ==
  /\ Calling("merging")
  /\ files' = {}
  /\ returned' = Merged
  /\ phase' = "returned"
  /\ UNCHANGED <<request, chunks, next>>
  /\ UNCHANGED chunkVars
  /\ UNCHANGED envVars

Caller == WriteFile \/ Wait \/ Drain \/ Fail \/ Return

-----------------------------------------------------------------------------
(* A thread of the pool and its chunk.                                     *)

To(i, t) == thread' = [thread EXCEPT ![i] = t]

Turn(i, t) ==
  /\ up
  /\ thread[i] = t
  /\ UNCHANGED callVars
  /\ UNCHANGED envVars

\* The next chunk in the queue, on a free thread; none is started once cancelled.
Take(i) ==
  /\ phase \in {"waiting", "draining"}
  /\ Turn(i, "queued")
  /\ \A j \in All : thread[j] = "queued" => i <= j
  /\ Cardinality(Busy) < Max({1, Min({request.plan.workers, Len(chunks)})})
  /\ To(i, IF cancel THEN "cancelled" ELSE "spawning")
  /\ UNCHANGED <<child, mail, late, record, text>>

SpawnChild(i) ==
  /\ Turn(i, "spawning")
  /\ child' = [child EXCEPT ![i] = "starting"]
  /\ To(i, "polling")
  /\ UNCHANGED <<mail, late, record, text>>

\* A message: the decision is kept and the thread goes on; an outcome ends the wait.
Receive(i, from) ==
  /\ Turn(i, from)
  /\ mail[i] # <<>>
  /\ mail' = [mail EXCEPT ![i] = Tail(mail[i])]
  /\ LET said == Head(mail[i])
     IN  \/ /\ said[1] = "bypass"
            /\ record' = [record EXCEPT ![i] = said[2]]
            /\ UNCHANGED <<thread, text>>
         \/ /\ said[1] # "bypass"
            /\ text' = [text EXCEPT ![i] = IF said[1] = "done" THEN "docling" ELSE "none"]
            /\ To(i, "reaping")
            /\ UNCHANGED record
  /\ UNCHANGED <<child, late>>

\* queue.Empty.
SeesNothing(i) ==
  /\ Turn(i, "polling")
  /\ mail[i] = <<>>
  /\ To(i, "deciding")
  /\ UNCHANGED <<child, mail, late, record, text>>

Gone(i) == child[i] \notin Live

\* Fault: a dead process is taken for one that said nothing.
DecideWithoutGrace(i) ==
  /\ Turn(i, "deciding")
  /\ To(i, IF cancel THEN "cancelling"
           ELSE IF i \in late THEN "expired"
           ELSE IF Gone(i) THEN "mute"
           ELSE "polling")
  /\ UNCHANGED <<child, mail, late, record, text>>

\* Fault: the time limit is not looked at.
DecideWithoutLimit(i) ==
  /\ Turn(i, "deciding")
  /\ To(i, IF cancel THEN "cancelling" ELSE IF Gone(i) THEN "grace" ELSE "polling")
  /\ UNCHANGED <<child, mail, late, record, text>>

\* Cancelled, out of time, or the process is gone and the queue is read once more.
Decide(i) ==
  /\ Turn(i, "deciding")
  /\ To(i, IF cancel THEN "cancelling"
           ELSE IF i \in late THEN "expired"
           ELSE IF Gone(i) THEN "grace"
           ELSE "polling")
  /\ UNCHANGED <<child, mail, late, record, text>>

GraceEnds(i) ==
  /\ Turn(i, "grace")
  /\ mail[i] = <<>>
  /\ To(i, "mute")
  /\ UNCHANGED <<child, mail, late, record, text>>

\* The process and its group are terminated, then killed.  One that is already gone when
\* its time is up has died without a result.
Stop(i) ==
  /\ \E why \in {"cancelling", "expired", "mute"} :
       /\ Turn(i, why)
       /\ To(i, IF why = "cancelling" THEN "cancelled"
                ELSE IF why = "expired" /\ ~Gone(i)
                THEN IF Direct(request) THEN "error" ELSE "fallback"
                ELSE "error")
  /\ child' = [child EXCEPT ![i] = IF Gone(i) THEN child[i] ELSE "killed"]
  /\ UNCHANGED <<mail, late, record, text>>

\* The outcome is in: the process has 5 s to leave, then it is killed.
Reap(i) ==
  /\ Turn(i, "reaping")
  /\ To(i, IF text[i] = "docling" THEN "ok" ELSE "error")
  /\ child' = [child EXCEPT ![i] = IF Gone(i) THEN child[i] ELSE "killed"]
  /\ UNCHANGED <<mail, late, record, text>>

\* A chunk out of time comes out as the text layer of its pages.
TextLayer(i) ==
  /\ up
  /\ thread[i] = "fallback"
  /\ \/ /\ To(i, "ok")
        /\ text' = [text EXCEPT ![i] = "layer"]
        /\ UNCHANGED chunkFaults
     \/ /\ ChunkFault
        /\ To(i, "error")
        /\ UNCHANGED text
  /\ UNCHANGED callVars
  /\ UNCHANGED <<child, mail, late, record, cancel, up>>

\* progress["done"]: chunks that came out, whichever way.
ChunksDone == Cardinality({i \in All : thread[i] = "ok"})

Pool(i) ==
  \/ Take(i) \/ SpawnChild(i) \/ Receive(i, "polling") \/ Receive(i, "grace")
  \/ SeesNothing(i) \/ Decide(i) \/ GraceEnds(i) \/ Stop(i) \/ Reap(i) \/ TextLayer(i)

-----------------------------------------------------------------------------
(* A chunk's process.                                                      *)

Process(i, from) ==
  /\ child[i] = from
  /\ UNCHANGED callVars
  /\ UNCHANGED <<thread, late, record, text, cancel, up>>

\* It arms its parent-death signal, decides its bypass and says so before it converts.
\* One whose parent died before it could look takes its adopter for its parent.
Boot(i) ==
  /\ Process(i, "starting")
  /\ child' = [child EXCEPT ![i] = IF up THEN "working" ELSE Orphaned]
  /\ \/ /\ mail' = [mail EXCEPT ![i] = Append(@, <<"bypass", Effective(request, chunks[i])>>)]
        /\ UNCHANGED chunkFaults
     \/ /\ ChunkFault  \* the decision fails: nothing is bypassed
        /\ mail' = [mail EXCEPT ![i] = Append(@, <<"bypass", NothingBypassed(request, chunks[i])>>)]

\* It converts, or raises.  A chunk longer than its own limit is cut again, which a
\* daemon process may not do.
Finish(i) ==
  /\ Process(i, "working")
  /\ up
  /\ child' = [child EXCEPT ![i] = "reported"]
  /\ \/ /\ PagesIn(chunks[i]) <= MaxDocling
        /\ mail' = [mail EXCEPT ![i] = Append(@, <<"done">>)]
        /\ UNCHANGED chunkFaults
     \/ /\ PagesIn(chunks[i]) > MaxDocling
        /\ mail' = [mail EXCEPT ![i] = Append(@, <<"failed">>)]
        /\ UNCHANGED chunkFaults
     \/ /\ ChunkFault
        /\ mail' = [mail EXCEPT ![i] = Append(@, <<"failed">>)]

ExitChild(i) ==
  /\ Process(i, "reported")
  /\ up
  /\ child' = [child EXCEPT ![i] = "exited"]
  /\ UNCHANGED <<mail, chunkFaults>>

Crash(i) ==
  /\ \E from \in {"starting", "working"} : Process(i, from)
  /\ up
  /\ ChunkFault
  /\ child' = [child EXCEPT ![i] = "crashed"]
  /\ UNCHANGED mail

\* PR_SET_PDEATHSIG, or the watchdog thread.
ParentDeath(i) ==
  /\ ~up
  /\ \E from \in {"working", "reported"} : Process(i, from)
  /\ child' = [child EXCEPT ![i] = "killed"]
  /\ UNCHANGED <<mail, chunkFaults>>

Children(i) == Boot(i) \/ Finish(i) \/ ExitChild(i) \/ Crash(i) \/ ParentDeath(i)

-----------------------------------------------------------------------------
(* The rest of the world.                                                  *)

Ended == phase \in {"returned", "raised", "planned"}

\* 1500 s for a chunk; the request's X-Deadline, if any, for a single pass.
TimeUp(i) ==
  /\ up
  /\ child[i] # "none"
  /\ i \notin late
  /\ thread[i] \in {"polling", "deciding"}
  /\ Direct(request) => request.deadline
  /\ late' = late \cup {i}
  /\ UNCHANGED callVars
  /\ UNCHANGED <<thread, child, mail, record, text>>
  /\ UNCHANGED envVars

Cancel ==
  /\ up
  /\ ~cancel
  /\ ~Ended
  /\ cancel' = TRUE
  /\ UNCHANGED callVars
  /\ UNCHANGED chunkVars
  /\ UNCHANGED <<up, chunkFaults>>

ServiceDies ==
  /\ up
  /\ ~Ended
  /\ up' = FALSE
  /\ ChunkFault
  /\ UNCHANGED callVars
  /\ UNCHANGED chunkVars
  /\ UNCHANGED cancel

ConversionNext ==
  \/ Caller
  \/ \E i \in All : Pool(i) \/ Children(i) \/ TimeUp(i)
  \/ Cancel
  \/ ServiceDies

ConversionSpec == ConversionInit /\ [][ConversionNext]_conversionVars

\* The threads run and time passes; a process may hang, and nobody has to cancel.
ConversionFairness ==
  /\ WF_conversionVars(Caller)
  /\ \A i \in 1 .. MaxChunks :
       WF_conversionVars(i \in All /\ Pool(i)) /\ WF_conversionVars(i \in All /\ TimeUp(i))

ConversionFairSpec == ConversionSpec /\ ConversionFairness

-----------------------------------------------------------------------------
(* Properties.                                                             *)

\* What a page needs, by what is on it: OCR for what its text layer does not hold, unless
\* the operator switched OCR off, and TableFormer for a table.  A table on a page of clean
\* text may do without OCR only where find_tables() read it in full.
Needs(page) ==
  [ocr |-> \/ request.force
           \/ request.policy = "force_on"
           \/ /\ request.policy = "page_class"
              /\ \/ page.text # "clean"
                 \/ page.image
                 \/ page.table /\ ~(request.bypass /\ page.grid \in {"full", "none"}),
   tables |-> page.table]

\* However a document is cut, merged and bypassed, whichever route it takes and whatever
\* is known of its pages, each page is in one chunk, in order, and no page is converted
\* without a model it needs (page_class_chunks P1/P2, decide_bypass P17, R2 AC7).
EveryPageServed ==
  /\ FlattenSeq([i \in All |-> Pages(chunks[i])]) = [k \in DOMAIN request.document |-> k - 1]
  /\ \A i \in All :
       /\ PagesIn(chunks[i]) <= request.plan.pages
       /\ \A p \in chunks[i].start .. chunks[i].end :
            LET needs == Needs(request.document[p + 1])
                has == Effective(request, chunks[i])
            IN  (needs.ocr => has.ocr) /\ (needs.tables => has.tables)

\* A call that returns gives every page once, in order, what was found on it under its
\* own number, and text of the layer only for a chunk that was out of time.
ResultIsWhole ==
  phase = "returned" =>
    /\ returned.pages = [k \in DOMAIN request.document |-> k - 1]
    /\ \A f \in returned.found : f[1] = f[2]
    /\ \A i \in All :
         \/ text[i] = "docling" /\ \A p \in chunks[i].start .. chunks[i].end : <<p, p>> \in returned.found
         \/ text[i] = "layer" /\ i \in late

\* Once the call is over, whichever way, no process of its runs on and no chunk file is
\* left, though chunks fail, time out and are cancelled while others are at work.
NothingLeftBehind ==
  phase \in {"returned", "raised"} =>
    files = {} /\ Busy = {} /\ \A i \in All : Gone(i) /\ child[i] # Orphaned

\* A process that reported within its time is heard: a chunk that fails without its
\* process's word had one that crashed, or was out of time (the grace read).
ReportKept ==
  \A i \in All :
    thread[i] = "error" /\ text[i] = None => child[i] = "crashed" \/ i \in late

\* A call comes to its end though its processes hang: chunks have a time limit.  A single
\* pass without a deadline may hang until it is cancelled.
CallReturns ==
  (~Direct(request) \/ request.deadline \/ cancel) ~> (Ended \/ ~up)
=============================================================================
