--------------------------- MODULE DoclingService ---------------------------
(***************************************************************************)
(* Admission, cancellation and self-supervision of one docling-service      *)
(* process.  Source: services/docling-service/app.py.                       *)
(*                                                                         *)
(* A request is one /convert call: a whole PDF, a page-range slice of a     *)
(* split, or an image.  Everything runs on one event loop, except the       *)
(* conversion threads.  A semaphore serves its waiters in order.  Seconds   *)
(* pass only while no coroutine has a step to take at once (Settled).       *)
(***************************************************************************)
EXTENDS Integers, FiniteSets, Sequences

CONSTANTS
  Whole,          \* /convert/pdf requests for a whole document
  Slices,         \* /convert/pdf requests for a page range, of one document
  Images,         \* /convert/image requests
  None,           \* no request
  MaxConcurrent,  \* MAX_CONCURRENT
  SliceSlots,     \* SLICE_SLOTS
  MaxHangs,       \* bound: conversion threads that hang in one behaviour
  MaxCuts         \* bound: requests whose task is cancelled a second time

Requests == Whole \cup Slices \cup Images

Pdfs == Whole \cup Slices

ASSUME ServiceAssumption ==
  /\ IsFiniteSet(Requests)
  /\ Whole \cap Slices = {} /\ Whole \cap Images = {} /\ Slices \cap Images = {}
  /\ None \notin Requests
  /\ MaxConcurrent \in Nat \ {0}
  /\ SliceSlots \in Nat \ {0}
  /\ MaxHangs \in Nat
  /\ MaxCuts \in Nat

VARIABLES
  pc,        \* where each request is
  acq,       \* its acquire task
  slotAt,    \* conv.slot_at is set
  event,     \* conv.cancel_event is set
  overdue,   \* its X-Deadline has passed
  thread,    \* its conversion thread
  convertQ,  \* waiters of _convert_slots
  sliceQ,    \* waiters of _slice_slots
  lockQ,     \* waiters of _slice_group_lock
  held,      \* _convert_slots.held
  sliceHeld, \* _slice_slots.held
  lock,      \* holder of _slice_group_lock
  grouped,   \* conversion slots the lock's holder has taken (its local taken)
  taken,     \* _slice_group_taken
  active,    \* _slice_active
  imageActive, \* _image_active
  pdf,       \* the shared download: its entry in _pdf_cache
  users,     \* the requests that entry counts
  file,      \* its file is on disk
  wedge,     \* what the wedge monitor has seen
  hangs      \* threads that hung so far

reqVars == <<pc, acq, slotAt, event, overdue, thread>>
slotVars == <<convertQ, sliceQ, lockQ, held, sliceHeld, lock, grouped, taken, active,
              imageActive>>
pdfVars == <<pdf, users, file>>
wedgeVars == <<wedge, hangs>>
vars == <<reqVars, slotVars, pdfVars, wedgeVars>>

-----------------------------------------------------------------------------
TypeOK ==
  /\ pc \in [Requests -> {"idle", "fetch", "wait", "refused", "download", "queued", "reap",
                          "convert", "stopping", "cut", "done"}]
  /\ acq \in [Requests -> {"none", "slice", "lock", "group", "convert", "in"}]
  /\ slotAt \in [Requests -> BOOLEAN]
  /\ event \in [Requests -> BOOLEAN]
  /\ overdue \in [Requests -> BOOLEAN]
  /\ thread \in [Requests -> {"none", "running", "hung", "stopped"}]
  /\ convertQ \in Seq(Requests)
  /\ sliceQ \in Seq(Slices)
  /\ lockQ \in Seq(Slices)
  /\ held \in 0 .. MaxConcurrent
  /\ sliceHeld \in 0 .. SliceSlots
  /\ lock \in Slices \cup {None}
  /\ grouped \in 0 .. MaxConcurrent
  /\ taken \in 0 .. MaxConcurrent
  /\ active \in 0 .. SliceSlots
  /\ imageActive \in 0 .. MaxConcurrent
  /\ pdf \in {"absent", "fetching", "ready"}
  /\ users \in SUBSET Slices
  /\ file \in BOOLEAN
  /\ wedge \in {"clean", "suspect", "unhealthy"}
  /\ hangs \in 0 .. MaxHangs

Init ==
  /\ pc = [r \in Requests |-> "idle"]
  /\ acq = [r \in Requests |-> "none"]
  /\ slotAt = [r \in Requests |-> FALSE]
  /\ event = [r \in Requests |-> FALSE]
  /\ overdue = [r \in Requests |-> FALSE]
  /\ thread = [r \in Requests |-> "none"]
  /\ convertQ = <<>> /\ sliceQ = <<>> /\ lockQ = <<>>
  /\ held = 0 /\ sliceHeld = 0 /\ lock = None /\ grouped = 0 /\ taken = 0
  /\ active = 0
  /\ imageActive = 0
  /\ pdf = "absent" /\ users = {} /\ file = FALSE
  /\ wedge = "clean"
  /\ hangs = 0

Goto(r, p) == pc' = [pc EXCEPT ![r] = p]

\* The request is over, and its _Conversion discarded: with an answer ("done"), or
\* cut off by the second cancellation of its task ("cut").
Close(r, end) ==
  /\ Goto(r, end)
  /\ event' = [event EXCEPT ![r] = FALSE]
  /\ overdue' = [overdue EXCEPT ![r] = FALSE]

Return(r) == Close(r, "done")

\* r is taken out of the queue, where it is once at most.
Leave(q, r) ==
  LET at == {i \in 1 .. Len(q) : q[i] = r}
      i == CHOOSE i \in at : TRUE
  IN  IF at = {} THEN q ELSE SubSeq(q, 1, i - 1) \o SubSeq(q, i + 1, Len(q))

-----------------------------------------------------------------------------
(* The download.                                                           *)

ArriveWhole(r) ==
  /\ pc[r] = "idle"
  /\ r \in Whole \cup Images
  /\ Goto(r, "download")
  /\ UNCHANGED <<acq, slotAt, event, overdue, thread, slotVars, pdfVars, wedgeVars>>

\* _download_shared: the first slice fetches, the others wait for it.
ArriveSlice(r) ==
  /\ pc[r] = "idle"
  /\ r \in Slices
  /\ users' = users \cup {r}
  /\ IF pdf = "absent"
     THEN pdf' = "fetching" /\ Goto(r, "fetch")
     ELSE pdf' = pdf /\ Goto(r, "wait")
  /\ UNCHANGED <<acq, slotAt, event, overdue, thread, slotVars, file, wedgeVars>>

\* The entry of a failed download goes, and those who waited for it are refused.
DropEntry(r) ==
  /\ pdf' = "absent"
  /\ users' = {}
  /\ pc' = [x \in Requests |-> IF x = r THEN "done"
                               ELSE IF pc[x] = "wait" THEN "refused" ELSE pc[x]]
  /\ event' = [event EXCEPT ![r] = FALSE]
  /\ overdue' = [overdue EXCEPT ![r] = FALSE]

FetchFails(r) ==
  /\ pc[r] = "fetch"
  /\ DropEntry(r)
  /\ UNCHANGED <<acq, slotAt, thread, slotVars, file, wedgeVars>>

Refused(r) ==
  /\ pc[r] = "refused"
  /\ Return(r)
  /\ UNCHANGED <<acq, slotAt, thread, slotVars, pdfVars, wedgeVars>>

\* The slice is not a user of the download any more.
ReleaseShared(r) == users' = users \ {r}

\* The download is there; a request cancelled meanwhile goes no further.
Proceed(r) ==
  IF event[r]
  THEN /\ Return(r)
       /\ ReleaseShared(r)
       /\ UNCHANGED <<acq, convertQ, sliceQ>>
  ELSE /\ Goto(r, "queued")
       /\ UNCHANGED <<event, overdue, users>>
       /\ acq' = [acq EXCEPT ![r] = IF r \in Slices THEN "slice" ELSE "convert"]
       /\ IF r \in Slices
          THEN sliceQ' = Append(sliceQ, r) /\ UNCHANGED convertQ
          ELSE convertQ' = Append(convertQ, r) /\ UNCHANGED sliceQ

DownloadEnds(r) ==
  /\ pc[r] = "download"
  /\ Proceed(r)
  /\ UNCHANGED <<slotAt, thread, lockQ, held, sliceHeld, lock, grouped, taken, active,
                 imageActive, pdf, file, wedgeVars>>

DownloadFails(r) ==
  /\ pc[r] = "download"
  /\ Return(r)
  /\ UNCHANGED <<acq, slotAt, thread, slotVars, pdfVars, wedgeVars>>

\* The shared file is there for its owner and for those who waited.
SharedReady(r) ==
  /\ \/ pc[r] = "fetch" /\ pdf' = "ready" /\ file' = TRUE
     \/ pc[r] = "wait" /\ pdf = "ready" /\ UNCHANGED <<pdf, file>>
  /\ Proceed(r)
  /\ UNCHANGED <<slotAt, thread, lockQ, held, sliceHeld, lock, grouped, taken, active,
                 imageActive, wedgeVars>>

\* Fault: the idle time alone decides.
ReadyEntry == pdf = "ready"

\* _evict_idle_pdfs takes an entry nobody uses.
IdleEntry == pdf = "ready" /\ users = {}

EvictIdle ==
  /\ IdleEntry
  /\ pdf' = "absent"
  /\ file' = FALSE
  /\ users' = {}
  /\ UNCHANGED <<reqVars, slotVars, wedgeVars>>

-----------------------------------------------------------------------------
(* Admission.  A slice takes a slice slot, then the group lock; the first   *)
(* of a group takes every conversion slot, one after the other.             *)

TakeSliceSlot(r) ==
  /\ sliceQ # <<>> /\ r = Head(sliceQ)
  /\ sliceHeld < SliceSlots
  /\ sliceQ' = Tail(sliceQ)
  /\ sliceHeld' = sliceHeld + 1
  /\ lockQ' = Append(lockQ, r)
  /\ acq' = [acq EXCEPT ![r] = "lock"]
  /\ UNCHANGED <<pc, slotAt, event, overdue, thread, convertQ, held, lock, grouped, taken,
                 active, imageActive, pdfVars, wedgeVars>>

JoinGroup(r) ==
  /\ lockQ # <<>> /\ r = Head(lockQ)
  /\ lock = None
  /\ lockQ' = Tail(lockQ)
  /\ IF active = 0
     THEN /\ lock' = r
          /\ convertQ' = Append(convertQ, r)
          /\ acq' = [acq EXCEPT ![r] = "group"]
          /\ UNCHANGED <<active, taken>>
     ELSE /\ active' = active + 1
          /\ taken' = 0
          /\ acq' = [acq EXCEPT ![r] = "in"]
          /\ UNCHANGED <<lock, convertQ>>
  /\ UNCHANGED <<pc, slotAt, event, overdue, thread, sliceQ, held, sliceHeld, grouped,
                 imageActive, pdfVars, wedgeVars>>

\* _convert_slots has a free slot for its first waiter.
Granted(r) ==
  /\ convertQ # <<>> /\ r = Head(convertQ)
  /\ held < MaxConcurrent
  /\ held' = held + 1

TakeForGroup(r) ==
  /\ Granted(r)
  /\ r \in Slices
  /\ IF grouped + 1 < MaxConcurrent
     THEN /\ grouped' = grouped + 1
          /\ taken' = grouped + 1
          /\ convertQ' = Append(Tail(convertQ), r)
          /\ UNCHANGED <<active, acq, lock>>
     ELSE /\ grouped' = 0 /\ taken' = 0
          /\ convertQ' = Tail(convertQ)
          /\ active' = active + 1
          /\ acq' = [acq EXCEPT ![r] = "in"]
          /\ lock' = None
  /\ UNCHANGED <<pc, slotAt, event, overdue, thread, sliceQ, lockQ, sliceHeld, imageActive,
                 pdfVars, wedgeVars>>

TakeForWhole(r) ==
  /\ Granted(r)
  /\ r \in Whole
  /\ convertQ' = Tail(convertQ)
  /\ acq' = [acq EXCEPT ![r] = "in"]
  /\ UNCHANGED <<pc, slotAt, event, overdue, thread, sliceQ, lockQ, sliceHeld, lock, grouped,
                 taken, active, imageActive, pdfVars, wedgeVars>>

\* convert_image: async with _convert_slots, then the thread.
TakeForImage(r) ==
  /\ Granted(r)
  /\ r \in Images
  /\ convertQ' = Tail(convertQ)
  /\ acq' = [acq EXCEPT ![r] = "in"]
  /\ imageActive' = imageActive + 1
  /\ thread' = [thread EXCEPT ![r] = "running"]
  /\ Goto(r, "convert")
  /\ UNCHANGED <<slotAt, event, overdue, sliceQ, lockQ, sliceHeld, lock, grouped, taken, active,
                 pdfVars, wedgeVars>>

\* _admit_unless_cancelled sees its acquire done.
Admit(r) ==
  /\ pc[r] = "queued"
  /\ acq[r] = "in"
  /\ slotAt' = [slotAt EXCEPT ![r] = TRUE]
  /\ Goto(r, "reap")
  /\ UNCHANGED <<acq, event, overdue, thread, slotVars, pdfVars, wedgeVars>>

\* What r holds goes back: a slice, a whole document or an image.
Release(r) ==
  /\ sliceHeld' = IF r \in Slices THEN sliceHeld - 1 ELSE sliceHeld
  /\ active' = IF r \in Slices THEN active - 1 ELSE active
  /\ imageActive' = IF r \in Images THEN imageActive - 1 ELSE imageActive
  /\ held' = CASE r \notin Slices -> held - 1
               [] r \in Slices /\ active = 1 -> held - MaxConcurrent
               [] OTHER -> held

\* What an acquire that is cancelled under way gives back: the slots it took itself.
\* The counter of the group is reset even by one that only waits for the lock.
RollBack(r) ==
  /\ sliceHeld' = IF acq[r] \in {"lock", "group"} THEN sliceHeld - 1 ELSE sliceHeld
  /\ taken' = IF acq[r] \in {"lock", "group"} THEN 0 ELSE taken
  /\ IF acq[r] = "group"
     THEN held' = held - grouped /\ grouped' = 0 /\ lock' = None
     ELSE UNCHANGED <<held, grouped, lock>>
  /\ UNCHANGED <<active, imageActive>>

\* Fault: an acquire that won the race with its cancellation keeps its slot.
AbandonAcquire(r) ==
  /\ IF acq[r] = "in"
     THEN UNCHANGED <<held, sliceHeld, lock, grouped, taken, active, imageActive>>
     ELSE RollBack(r)
  /\ convertQ' = Leave(convertQ, r)
  /\ sliceQ' = Leave(sliceQ, r)
  /\ lockQ' = Leave(lockQ, r)
  /\ acq' = [acq EXCEPT ![r] = "none"]

\* The finally of _admit_unless_cancelled.
GiveUpAcquire(r) ==
  /\ IF acq[r] = "in"
     THEN Release(r) /\ UNCHANGED <<lock, grouped, taken>>
     ELSE RollBack(r)
  /\ convertQ' = Leave(convertQ, r)
  /\ sliceQ' = Leave(sliceQ, r)
  /\ lockQ' = Leave(lockQ, r)
  /\ acq' = [acq EXCEPT ![r] = "none"]

LeaveQueue(r) ==
  /\ GiveUpAcquire(r)
  /\ Return(r)
  /\ ReleaseShared(r)
  /\ UNCHANGED <<slotAt, thread, pdf, file, wedgeVars>>

CancelledWhileQueued(r) ==
  /\ pc[r] = "queued"
  /\ r \in Pdfs
  /\ event[r]
  /\ acq[r] # "in"
  /\ LeaveQueue(r)

-----------------------------------------------------------------------------
(* The conversion.                                                         *)

\* The outer finally of convert_pdf, keyed on slot_at.
GiveSlotBack(r) ==
  /\ Release(r)
  /\ acq' = [acq EXCEPT ![r] = "none"]
  /\ slotAt' = [slotAt EXCEPT ![r] = FALSE]
  /\ ReleaseShared(r)
  /\ UNCHANGED <<convertQ, sliceQ, lockQ, lock, grouped, taken, pdf, file, wedgeVars>>

EndRequest(r) == GiveSlotBack(r) /\ Return(r)

\* The preempt loop is reaped; then the plan, and the thread.
StartConversion(r) ==
  /\ pc[r] = "reap"
  /\ ~event[r]
  /\ Goto(r, "convert")
  /\ thread' = [thread EXCEPT ![r] = "running"]
  /\ UNCHANGED <<acq, slotAt, event, overdue, slotVars, pdfVars, wedgeVars>>

CancelledAtAdmission(r) ==
  /\ pc[r] = "reap"
  /\ event[r]
  /\ EndRequest(r)
  /\ UNCHANGED thread

\* The thread returns, raises, or has noticed the cancel event.
ThreadStops(r) ==
  /\ thread[r] = "running"
  /\ thread' = [thread EXCEPT ![r] = "stopped"]
  /\ UNCHANGED <<pc, acq, slotAt, event, overdue, slotVars, pdfVars, wedgeVars>>

ThreadHangs(r) ==
  /\ thread[r] = "running"
  /\ hangs < MaxHangs
  /\ thread' = [thread EXCEPT ![r] = "hung"]
  /\ hangs' = hangs + 1
  /\ UNCHANGED <<pc, acq, slotAt, event, overdue, slotVars, pdfVars, wedge>>

Respond(r) ==
  /\ pc[r] \in {"convert", "stopping"}
  /\ thread[r] = "stopped"
  /\ EndRequest(r)
  /\ thread' = [thread EXCEPT ![r] = "none"]

-----------------------------------------------------------------------------
(* Cancellation.                                                           *)

InFlight(r) == r \in Pdfs /\ pc[r] \notin {"idle", "cut", "done"}

\* _watch_client, POST /cancel: the event, once.
SetEvent(r) ==
  /\ InFlight(r)
  /\ ~event[r]
  /\ event' = [event EXCEPT ![r] = TRUE]
  /\ UNCHANGED <<pc, acq, slotAt, overdue, thread, slotVars, pdfVars, wedgeVars>>

WatcherCancels(r) == overdue[r] /\ SetEvent(r)

\* The client is gone, or POST /cancel names the job: at any moment.
ClientCancels(r) == SetEvent(r)

\* A queued request q finds every slot taken and r stale: overdue, or without its
\* client for longer than the grace.
Preempt(q, r) ==
  /\ pc[q] \in {"queued", "reap"} /\ q \in Pdfs
  /\ held = MaxConcurrent
  /\ pc[r] = "convert"
  /\ SetEvent(r)

\* The request task itself is cancelled: each await it can be at.
TaskCancelledFetching(r) ==
  /\ pc[r] = "fetch"
  /\ DropEntry(r)
  /\ UNCHANGED <<acq, slotAt, thread, slotVars, file, wedgeVars>>

TaskCancelledDownloading(r) ==
  /\ pc[r] \in {"download", "wait"}
  /\ Return(r)
  /\ ReleaseShared(r)
  /\ UNCHANGED <<acq, slotAt, thread, slotVars, pdf, file, wedgeVars>>

TaskCancelledQueued(r) == pc[r] = "queued" /\ LeaveQueue(r)

TaskCancelledAdmitted(r) == pc[r] = "reap" /\ EndRequest(r) /\ UNCHANGED thread

\* Fault: the slot is given back at once, as convert_image does.
FreeSlotAtOnce(r) == EndRequest(r) /\ UNCHANGED thread

\* _await_conversion: the thread is told, and the slot kept until it stops.
KeepSlotUntilStopped(r) ==
  /\ event' = [event EXCEPT ![r] = TRUE]
  /\ Goto(r, "stopping")
  /\ UNCHANGED <<acq, slotAt, overdue, thread, slotVars, pdfVars, wedgeVars>>

TaskCancelledConverting(r) ==
  /\ pc[r] = "convert"
  /\ IF r \in Pdfs
     THEN KeepSlotUntilStopped(r)
     ELSE EndRequest(r) /\ UNCHANGED thread

\* The second cancellation of a task cuts off what its first one was waiting for.
MayCut == Cardinality({q \in Requests : pc[q] = "cut"}) < MaxCuts

\* In the finally of _admit_unless_cancelled: an acquire that had won the race is
\* not seen, and its slots are never given back.
CutGivingUp(r) ==
  /\ MayCut
  /\ pc[r] = "queued"
  /\ acq[r] = "in"
  /\ Close(r, "cut")
  /\ ReleaseShared(r)
  /\ UNCHANGED <<acq, slotAt, thread, slotVars, pdf, file, wedgeVars>>

\* In _await_conversion: the slot is given back under the thread.
CutStopping(r) ==
  /\ MayCut
  /\ pc[r] = "stopping"
  /\ GiveSlotBack(r)
  /\ Close(r, "cut")
  /\ UNCHANGED thread

TaskCancelled(r) ==
  \/ TaskCancelledFetching(r) \/ TaskCancelledDownloading(r) \/ TaskCancelledQueued(r)
  \/ TaskCancelledAdmitted(r) \/ TaskCancelledConverting(r)
  \/ CutGivingUp(r) \/ CutStopping(r)

-----------------------------------------------------------------------------
(* Time, the clients and the wedge monitor.                                *)

\* Every coroutine that runs is waiting for a slot, a thread, a download or a
\* timer: no step of the event loop is due.
Settled ==
  /\ \A r \in Requests :
       /\ ~(pc[r] = "queued" /\ acq[r] = "in")
       /\ pc[r] \notin {"refused", "reap"}
       /\ ~(pc[r] \in {"convert", "stopping"} /\ thread[r] = "stopped")
       /\ ~(InFlight(r) /\ overdue[r] /\ ~event[r])
       /\ ~(r \in Pdfs /\ pc[r] = "queued" /\ event[r])
       /\ ~(pc[r] = "wait" /\ pdf = "ready")
  /\ convertQ = <<>> \/ held = MaxConcurrent
  /\ sliceQ = <<>> \/ sliceHeld = SliceSlots
  /\ lockQ = <<>> \/ lock # None

DeadlinePasses(r) ==
  /\ InFlight(r)
  /\ ~overdue[r]
  /\ Settled
  /\ overdue' = [overdue EXCEPT ![r] = TRUE]
  /\ UNCHANGED <<pc, acq, slotAt, event, thread, slotVars, pdfVars, wedgeVars>>

Holders == {r \in Pdfs : slotAt[r]}

Most(a, b) == IF a > b THEN a ELSE b

\* _slot_accounting: slots that no conversion explains.
LeakedSlots ==
  LET slices == Cardinality(Holders \cap Slices)
      expected == Cardinality(Holders \cap Whole) + imageActive + taken
                    + IF active > 0 THEN MaxConcurrent ELSE 0
  IN  Most(0, held - expected) + Most(0, active - slices)

Overdue == \E r \in Holders : overdue[r]

\* Fault: an overdue conversion is not the monitor's business.
LeaksOnly == LeakedSlots > 0

Off == LeakedSlots > 0 \/ Overdue

\* _update_wedge, by the monitor, /health or /capacity.  What is off only until
\* the loop's next step is over at the next check.
UpdateWedge ==
  /\ Settled
  /\ wedge' = IF ~Off THEN "clean" ELSE IF wedge = "clean" THEN "suspect" ELSE wedge
  /\ UNCHANGED <<reqVars, slotVars, pdfVars, hangs>>

\* A minute goes by with the accounting off at every check: what a cancel event
\* or a deadline stops has stopped by then.
GracePasses ==
  /\ wedge = "suspect"
  /\ Off
  /\ Settled
  /\ \A r \in Pdfs : ~(event[r] /\ thread[r] = "running")
  /\ wedge' = "unhealthy"
  /\ UNCHANGED <<reqVars, slotVars, pdfVars, hangs>>

\* _exit(3) of _wedge_step, and the restart: every request dies.
RestartService ==
  /\ wedge = "unhealthy"
  /\ Off
  /\ Settled
  /\ pc' = [r \in Requests |-> IF pc[r] = "idle" THEN "idle" ELSE "done"]
  /\ acq' = [r \in Requests |-> "none"]
  /\ slotAt' = [r \in Requests |-> FALSE]
  /\ thread' = [r \in Requests |-> "none"]
  /\ event' = [r \in Requests |-> FALSE]
  /\ overdue' = [r \in Requests |-> FALSE]
  /\ convertQ' = <<>> /\ sliceQ' = <<>> /\ lockQ' = <<>>
  /\ held' = 0 /\ sliceHeld' = 0 /\ lock' = None /\ grouped' = 0 /\ taken' = 0
  /\ active' = 0
  /\ imageActive' = 0
  /\ pdf' = "absent" /\ users' = {} /\ file' = FALSE
  /\ wedge' = "clean"
  /\ hangs' = hangs

-----------------------------------------------------------------------------
Download(r) ==
  \/ SharedReady(r) \/ FetchFails(r) \/ Refused(r) \/ DownloadEnds(r) \/ DownloadFails(r)

Admission(r) ==
  \/ TakeSliceSlot(r) \/ JoinGroup(r) \/ TakeForGroup(r) \/ TakeForWhole(r) \/ TakeForImage(r)
  \/ Admit(r) \/ CancelledWhileQueued(r)

Conversion(r) == StartConversion(r) \/ CancelledAtAdmission(r) \/ Respond(r)

\* What the event loop does by itself for one request.
Loop(r) == Download(r) \/ Admission(r) \/ Conversion(r)

Monitor == UpdateWedge \/ GracePasses \/ RestartService

Next ==
  \/ \E r \in Requests : ArriveWhole(r) \/ ArriveSlice(r)
  \/ \E r \in Requests : Loop(r) \/ ThreadStops(r) \/ ThreadHangs(r)
  \/ \E r \in Requests : WatcherCancels(r) \/ ClientCancels(r) \/ TaskCancelled(r)
  \/ \E q, r \in Requests : Preempt(q, r)
  \/ \E r \in Requests : DeadlinePasses(r)
  \/ EvictIdle
  \/ Monitor

Spec == Init /\ [][Next]_vars

\* What happens without anyone's request: the loop's steps, a thread that does
\* not hang stopping, time (a worker's request always has a deadline), the monitor.
Progress ==
  \/ \E r \in Requests : Loop(r) \/ ThreadStops(r) \/ WatcherCancels(r) \/ DeadlinePasses(r)
  \/ Monitor

\* Weak fairness of the whole is enough: each request takes finitely many steps.
FairSpec == Spec /\ WF_vars(Progress)

-----------------------------------------------------------------------------
(* Properties.                                                             *)

\* The requests whose acquire was won and never given back.
Lost == {r \in Requests : pc[r] = "cut" /\ acq[r] = "in"}

\* Whatever cancels a request, and whenever, every slot taken belongs to a request
\* that is served or to the group being formed, by what each of them took; only a
\* request cancelled a second time while it gives up its acquire can lose one.  The
\* service's own count, _slice_group_taken, has no part in this (app.py 196-250,
\* 1417-1426).
NoSlotLost ==
  LET in == {r \in Requests : acq[r] = "in"}
      slices == in \cap Slices
  IN  /\ active = Cardinality(slices)
      /\ sliceHeld = active + Cardinality({r \in Slices : acq[r] \in {"lock", "group"}})
      /\ held = Cardinality(in \ slices) + grouped + IF slices # {} THEN MaxConcurrent ELSE 0
      /\ \A r \in Requests : acq[r] # "none" =>
           \/ pc[r] \in {"queued", "reap", "convert", "stopping"}
           \/ r \in Lost

\* The comment at _slice_group_taken: the slots a group holds while it waits for the
\* rest are owned, not leaked, and one counter is enough, so that the service
\* declares itself wedged by leaked slots only when a slot was really lost.
WedgedIsReal ==
  wedge = "unhealthy" /\ Settled /\ LeakedSlots > 0 /\ ~Overdue => Lost # {}

Converts(r) == thread[r] \in {"running", "hung"}

\* A whole document, sized for the whole machine, never converts beside a
\* slice, and no more PDF threads run than there are slots: the slot is kept
\* until the thread has stopped.  A thread whose request was cut off by a second
\* cancellation is the exception (app.py 187-226, 962-977).
WholeConvertsAlone ==
  LET kept == {r \in Requests : Converts(r) /\ pc[r] # "cut"}
  IN  /\ kept \cap Whole = {} \/ kept \cap Slices = {}
      /\ Cardinality(kept \cap Whole) <= MaxConcurrent

\* A slice that has its download keeps the file until it is done: no failed
\* download, eviction or other slice's end removes it (app.py 257-327).
SharedPdfKept ==
  \A r \in Slices : pc[r] \in {"queued", "reap", "convert", "stopping"} => file /\ r \in users

\* Every PDF request ends, and with the last one the service is at rest: they are
\* converted, cancelled, or killed with a wedged process.  A hung thread does not
\* keep the slots for good (app.py 929-1068).
ComesToRest == []<>(\A r \in Pdfs : ~InFlight(r))
=============================================================================
