----------------------------- MODULE JobLifecycle -----------------------------
(***************************************************************************)
(* The life of an upload job: the status hash in Redis, the staged original *)
(* in MinIO, the arq queue entry, the attempts a worker makes at the job,   *)
(* the dead-letter list, the stale-job reaper and the operator's kill       *)
(* script.  Sources: upload_app.py, job_status.py, worker/job.py,           *)
(* worker/errors.py, worker/constants.py, storage/staging.py and            *)
(* scripts/kill_job.py.                                                     *)
(*                                                                         *)
(* Time is a countdown: every remaining time is a variable that Tick        *)
(* lowers, so behaviours stay finite without a bound on the clock.  The     *)
(* arq queue is external and is modelled from how the code uses it.         *)
(* MaxFaults bounds the Redis calls that fail.                              *)
(***************************************************************************)
EXTENDS Integers

CONSTANTS
  Jobs,          \* upload job ids
  Sweeps,        \* reap_stale_jobs sweeps that may overlap (boot and minute, per worker)
  MaxTries,      \* MAX_TRIES
  JobTimeout,    \* JOB_TIMEOUT
  ReapGrace,     \* REAP_GRACE
  ChildGrace,    \* CHILD_GRACE_SECONDS
  MaxEffective,  \* MAX_EFFECTIVE_TIMEOUT
  MaxWait,       \* how long download, memory and ingest-lock waits can take together
  LeaseMargin,   \* how long arq's in-progress key outlives the function timeout
  CancelBudget,  \* the longest a cancelled or finished attempt takes to be settled
  MaxFaults      \* bound: Redis calls that fail in one behaviour

ASSUME TimingAssumption ==
  /\ MaxTries \in Nat \ {0}
  /\ JobTimeout \in Nat \ {0}
  /\ ReapGrace \in Nat \ {0}
  /\ MaxEffective \in Nat \ {0}
  /\ ChildGrace \in 0 .. ReapGrace
  /\ ChildGrace < JobTimeout
  /\ MaxWait \in Nat
  /\ LeaseMargin \in Nat \ {0}
  /\ CancelBudget \in Nat
  /\ MaxFaults \in Nat

VARIABLES
  upload,    \* where the upload handler is with the job's file
  staged,    \* jobs whose staged original is in MinIO
  status,    \* status field of the job hash
  reason,    \* reason field of the job hash, as far as the code reads it
  left,      \* time to effective_timeout_at; negative once it has passed
  queue,     \* arq's view of the job
  tries,     \* arq's count of deliveries
  lease,     \* time left on arq's in-progress key
  operator,  \* how far kill_job.py has gone with the job
  pc,        \* where each attempt is in process_document_job
  age,       \* time since each attempt began, while it lives
  killAt,    \* the age at which the attempt's converter child is killed
  dlq,       \* what became of the job's dead-letter marker
  persisted, \* jobs whose document the converter child has persisted
  rejected,  \* history: jobs an attempt classified as terminal
  suspects,  \* <<job, sweep>>: the sweep has read the job as stale and not yet written
  faults     \* failing Redis calls so far

arqVars == <<queue, tries, lease>>
docVars == <<dlq, persisted, rejected>>
vars == <<upload, staged, status, reason, left, queue, tries, lease, operator,
          pc, age, killAt, dlq, persisted, rejected, suspects, faults>>

-----------------------------------------------------------------------------
(* The job status machine (job_status.py).                                 *)

Status == {"absent", "pending", "processing", "done", "error"}

\* Fault: a table without the recovery of a reaped job.
NoRecoveryTransitions == [
  absent     |-> {"pending"},
  pending    |-> {"processing", "error"},
  processing |-> {"done", "error"},
  done       |-> {},
  error      |-> {"processing", "error"}]

\* The statuses each status may be followed by.
ValidTransitions == [
  absent     |-> {"pending"},
  pending    |-> {"processing", "error"},
  processing |-> {"done", "error"},
  done       |-> {},
  error      |-> {"processing", "error", "done"}]

AllowedFrom(s) == {t \in Status : s \in ValidTransitions[t]}

\* The atomic compare-and-set: status and reason change together or not at all.
\* HSET leaves a field it is not given alone, so a write without a reason keeps
\* the reason of an earlier one.
SetStatus(j, s, r) ==
  /\ status[j] \in AllowedFrom(s)
  /\ status' = [status EXCEPT ![j] = s]
  /\ reason' = [reason EXCEPT ![j] = r]
  /\ UNCHANGED faults

SetStatusOnly(j, s) == SetStatus(j, s, reason[j])

\* The script refuses the transition: ValueError.
SetRefused(j, s) ==
  /\ status[j] \notin AllowedFrom(s)
  /\ UNCHANGED <<status, reason, faults>>

\* Redis fails the call before it is applied.
SetFails ==
  /\ faults < MaxFaults
  /\ faults' = faults + 1
  /\ UNCHANGED <<status, reason>>

SetRaises(j, s) == SetRefused(j, s) \/ SetFails

-----------------------------------------------------------------------------
(* Times and the phases of an attempt.                                     *)

Tries == 1 .. MaxTries

\* The timeout arq enforces on process_document_job.
FunctionTimeout == MaxEffective + ReapGrace

\* The age by which the attempt's converter child must be done.
ChildDeadline == FunctionTimeout - ChildGrace

Lesser(a, b) == IF a < b THEN a ELSE b

\* effective_child_timeout: from CHILD_TIMEOUT upwards, but capped.
ChildBudgets == Lesser(JobTimeout - ChildGrace, MaxEffective) .. MaxEffective

\* effective_timeout_at as written with PROCESSING, relative to that write.
DefaultReapAfter == JobTimeout + ReapGrace

\* Fault: a lease sized by the conversion cap alone.
LeaseWithoutGrace == MaxEffective

\* arq's in-progress key lives a little longer than the function timeout.
LeaseTTL == FunctionTimeout + LeaseMargin

\* The inner try of process_document_job: a cancellation here reaches its
\* CancelledError handler.
InnerPhases == {"setup", "download", "convert", "child", "busy", "docling", "waiting",
                "failing", "rejecting", "lastbusy", "persist", "mirror"}

\* The outer handlers and the finally block: a cancellation escapes them.
OuterPhases == {"erring", "dlq", "purge"}

AckPhases == {"ack_finish", "ack_retry", "ack_raise", "ack_cancel"}

AtWork == InnerPhases \cup OuterPhases
Live == AtWork \cup {"cancelled"} \cup AckPhases
Phases == {"idle", "over"} \cup Live

\* The only reason the code reads back is the operator's.
Reasons == {"operator_killed", "other"}

TypeOK ==
  /\ upload \in [Jobs -> {"new", "staged", "opened", "marking", "answered"}]
  /\ staged \in SUBSET Jobs
  /\ status \in [Jobs -> Status]
  /\ reason \in [Jobs -> Reasons]
  /\ left \in [Jobs -> Int]
  /\ queue \in [Jobs -> {"none", "ready", "running", "gone"}]
  /\ tries \in [Jobs -> 0 .. MaxTries]
  /\ lease \in [Jobs -> Nat]
  /\ operator \in [Jobs -> {"none", "abort", "killed", "done"}]
  /\ pc \in [Jobs -> [Tries -> Phases]]
  /\ age \in [Jobs -> [Tries -> Nat]]
  /\ killAt \in [Jobs -> [Tries -> Nat]]
  /\ dlq \in [Jobs -> {"none", "pushed", "lost"}]
  /\ persisted \in SUBSET Jobs
  /\ rejected \in SUBSET Jobs
  /\ suspects \in SUBSET (Jobs \X Sweeps)
  /\ faults \in 0 .. MaxFaults

Init ==
  /\ upload = [j \in Jobs |-> "new"]
  /\ staged = {}
  /\ status = [j \in Jobs |-> "absent"]
  /\ reason = [j \in Jobs |-> "other"]
  /\ left = [j \in Jobs |-> -1]
  /\ queue = [j \in Jobs |-> "none"]
  /\ tries = [j \in Jobs |-> 0]
  /\ lease = [j \in Jobs |-> 0]
  /\ operator = [j \in Jobs |-> "none"]
  /\ pc = [j \in Jobs |-> [k \in Tries |-> "idle"]]
  /\ age = [j \in Jobs |-> [k \in Tries |-> 0]]
  /\ killAt = [j \in Jobs |-> [k \in Tries |-> 0]]
  /\ dlq = [j \in Jobs |-> "none"]
  /\ persisted = {}
  /\ rejected = {}
  /\ suspects = {}
  /\ faults = 0

-----------------------------------------------------------------------------
(* upload_files: stage, open the hash at PENDING, enqueue.                  *)

UploadFrame == UNCHANGED <<left, tries, lease, operator, pc, age, killAt, docVars, suspects>>

UploadTo(j, u) == upload' = [upload EXCEPT ![j] = u]

\* put_object and the read-after-write barrier.  When the barrier gives up the
\* object is removed, or left behind if that fails too.
Stage(j) ==
  /\ upload[j] = "new"
  /\ \/ UploadTo(j, "staged") /\ staged' = staged \cup {j}
     \/ UploadTo(j, "answered") /\ staged' \in {staged, staged \cup {j}}
  /\ UNCHANGED <<status, reason, faults, queue>>
  /\ UploadFrame

OpenPending(j) ==
  /\ upload[j] = "staged"
  /\ \/ SetStatusOnly(j, "pending") /\ UploadTo(j, "opened")
     \/ SetRaises(j, "pending") /\ UploadTo(j, "answered")
  /\ UNCHANGED <<staged, queue>>
  /\ UploadFrame

\* arq accepts the job, accepts it and still raises, or raises.
Enqueue(j) ==
  /\ upload[j] = "opened"
  /\ \/ queue' = [queue EXCEPT ![j] = "ready"] /\ UploadTo(j, "answered")
     \/ queue' = [queue EXCEPT ![j] = "ready"] /\ UploadTo(j, "marking")
     \/ UNCHANGED queue /\ UploadTo(j, "marking")
  /\ UNCHANGED <<staged, status, reason, faults>>
  /\ UploadFrame

\* The enqueue raised: record ERROR, whatever becomes of that write.
MarkEnqueueFailed(j) ==
  /\ upload[j] = "marking"
  /\ SetStatus(j, "error", "other") \/ SetRaises(j, "error")
  /\ UploadTo(j, "answered")
  /\ UNCHANGED <<staged, queue>>
  /\ UploadFrame

\* The server dies between two steps of an upload.
ServerCrash(j) ==
  /\ upload[j] \in {"staged", "opened", "marking"}
  /\ UploadTo(j, "answered")
  /\ UNCHANGED <<staged, status, reason, faults, queue>>
  /\ UploadFrame

Upload(j) ==
  \/ Stage(j)
  \/ OpenPending(j)
  \/ Enqueue(j)
  \/ MarkEnqueueFailed(j)
  \/ ServerCrash(j)

-----------------------------------------------------------------------------
(* arq's queue (external): deliveries, leases and acknowledgements.         *)

ArqFrame == UNCHANGED <<upload, staged, status, reason, left, operator, docVars, suspects, faults>>

Goto(j, k, p) == pc' = [pc EXCEPT ![j][k] = p]

Deliver(j) ==
  /\ queue[j] = "ready"
  /\ tries[j] < MaxTries
  /\ queue' = [queue EXCEPT ![j] = "running"]
  /\ tries' = [tries EXCEPT ![j] = @ + 1]
  /\ lease' = [lease EXCEPT ![j] = LeaseTTL]
  /\ Goto(j, tries[j] + 1, "setup")
  /\ UNCHANGED <<age, killAt>>
  /\ ArqFrame

\* A delivery beyond max_tries, or of a job marked for abort, ends the job
\* without calling the function.  Whether the mark was already used up by an
\* attempt that then died is left open, so Deliver does not ask for it.
Drop(j) ==
  /\ queue[j] = "ready"
  /\ tries[j] = MaxTries \/ operator[j] # "none"
  /\ queue' = [queue EXCEPT ![j] = "gone"]
  /\ UNCHANGED <<tries, lease, pc, age, killAt>>
  /\ ArqFrame

\* The in-progress key expires: another worker may pick the job up.
LeaseExpire(j) ==
  /\ queue[j] = "running"
  /\ lease[j] = 0
  /\ queue' = [queue EXCEPT ![j] = "ready"]
  /\ UNCHANGED <<tries, lease, pc, age, killAt>>
  /\ ArqFrame

\* What arq may do with a job whose attempt ended: Retry is always re-run, a
\* return value ends the job.  A cancellation or another exception is re-run or
\* ends it: the code expects a re-run, arq decides.
AckOutcomes(p) ==
  CASE p = "ack_retry"  -> {"ready"}
    [] p = "ack_finish" -> {"gone"}
    [] OTHER            -> {"ready", "gone"}

\* The attempt is over.  Its job changes hands only while arq still counts it
\* as in progress, or when it is finished for good.
Acknowledge(j, k) ==
  /\ pc[j][k] \in AckPhases
  /\ Goto(j, k, "over")
  /\ age' = [age EXCEPT ![j][k] = 0]
  /\ killAt' = [killAt EXCEPT ![j][k] = 0]
  /\ \E q \in AckOutcomes(pc[j][k]) :
       queue' = [queue EXCEPT ![j] = IF @ = "running" \/ q = "gone" THEN q ELSE @]
  /\ UNCHANGED <<tries, lease>>
  /\ ArqFrame

-----------------------------------------------------------------------------
(* process_document_job, attempt k at job j.                                *)

AttemptFrame == UNCHANGED <<upload, queue, tries, lease, operator, age, killAt, suspects>>

HashKept == UNCHANGED <<status, reason, left, faults>>

\* A status write inside the handler: on to p when it is applied; anything it
\* raises lands in the outer "except Exception" handler.
WriteThen(j, k, s, r, p) ==
  /\ \/ SetStatus(j, s, r) /\ Goto(j, k, p)
     \/ SetRaises(j, s) /\ Goto(j, k, "erring")
  /\ UNCHANGED <<left, staged, docVars>>
  /\ AttemptFrame

\* The first write: PROCESSING with a start time and a fresh effective_timeout_at.
Begin(j, k) ==
  /\ pc[j][k] = "setup"
  /\ \/ SetStatusOnly(j, "processing") /\ left' = [left EXCEPT ![j] = DefaultReapAfter]
        /\ Goto(j, k, "download")
     \/ SetRaises(j, "processing") /\ UNCHANGED left /\ Goto(j, k, "erring")
  /\ UNCHANGED <<staged, docVars>>
  /\ AttemptFrame

\* Download the original and wait for memory.  A missing object or a MinIO
\* fault raises.
Download(j, k) ==
  /\ pc[j][k] = "download"
  /\ \/ j \in staged /\ Goto(j, k, "convert")
     \/ Goto(j, k, "erring")
  /\ HashKept
  /\ UNCHANGED <<staged, docVars>>
  /\ AttemptFrame

\* Fault: a shorter effective timeout tightens the reaper's deadline.
PersistAnyTimeout(j, k, effective) ==
  /\ left' = [left EXCEPT ![j] = effective + ReapGrace - age[j][k]]
  /\ UNCHANGED faults

\* _persist_effective_timeout: only an extension is written, and a Redis fault
\* leaves the default.
PersistEffectiveTimeout(j, k, effective) ==
  \/ /\ left' = [left EXCEPT ![j] =
                   IF effective > JobTimeout THEN effective + ReapGrace - age[j][k] ELSE @]
     /\ UNCHANGED faults
  \/ /\ faults < MaxFaults
     /\ faults' = faults + 1
     /\ UNCHANGED left

\* Take the ingest lock and spawn the child, whose handshake gives its budget;
\* or find the lock held, have no time left, or fail to spawn.  The extension
\* counts from the start of the attempt, the kill from the handshake.
StartChild(j, k) ==
  /\ pc[j][k] = "convert"
  /\ \/ /\ age[j][k] < ChildDeadline
        /\ \E budget \in ChildBudgets :
             LET effective == Lesser(budget, ChildDeadline - age[j][k]) IN
             /\ PersistEffectiveTimeout(j, k, effective)
             /\ killAt' = [killAt EXCEPT ![j][k] = age[j][k] + effective]
        /\ Goto(j, k, "child")
     \/ /\ age[j][k] >= ChildDeadline
        /\ Goto(j, k, "failing")
        /\ UNCHANGED <<left, faults, killAt>>
     \/ /\ Goto(j, k, IF k < MaxTries THEN "busy" ELSE "lastbusy")
        /\ UNCHANGED <<left, faults, killAt>>
     \/ /\ Goto(j, k, "erring")
        /\ UNCHANGED <<left, faults, killAt>>
  /\ UNCHANGED <<status, reason, staged, docVars>>
  /\ UNCHANGED <<upload, queue, tries, lease, operator, age, suspects>>

\* The child persists the document; it may still fail before it reports so.
ChildPersists(j, k) ==
  /\ pc[j][k] = "child"
  /\ j \notin persisted
  /\ persisted' = persisted \cup {j}
  /\ HashKept
  /\ UNCHANGED <<staged, dlq, rejected, pc>>
  /\ AttemptFrame

\* How _run_converter_subprocess returns: a result, a failure (out of memory,
\* timeout, any other error), no Docling backend, or a terminal rejection.
ChildReturns(j, k) ==
  /\ pc[j][k] = "child"
  /\ \/ j \in persisted /\ Goto(j, k, "persist") /\ UNCHANGED rejected
     \/ Goto(j, k, "failing") /\ UNCHANGED rejected
     \/ Goto(j, k, IF k < MaxTries THEN "docling" ELSE "failing") /\ UNCHANGED rejected
     \/ Goto(j, k, "rejecting") /\ rejected' = rejected \cup {j}
  /\ killAt' = [killAt EXCEPT ![j][k] = 0]
  /\ HashKept
  /\ UNCHANGED <<staged, dlq, persisted>>
  /\ UNCHANGED <<upload, queue, tries, lease, operator, age, suspects>>

\* Docling unavailable with tries left: a job the operator killed is not
\* requeued.  The read itself may fail.
ReadReason(j, k) ==
  /\ pc[j][k] = "docling"
  /\ \/ Goto(j, k, IF reason[j] = "operator_killed" THEN "failing" ELSE "waiting")
        /\ UNCHANGED faults
     \/ /\ faults < MaxFaults
        /\ faults' = faults + 1
        /\ Goto(j, k, "erring")
  /\ UNCHANGED <<status, reason, left, staged, docVars>>
  /\ AttemptFrame

\* Fault: every failure purges the original.
RecordErrorAndPurge(j, k) ==
  \/ pc[j][k] \in {"busy", "waiting"} /\ WriteThen(j, k, "error", "other", "ack_retry")
  \/ pc[j][k] \in {"rejecting", "failing", "lastbusy"}
     /\ WriteThen(j, k, "error", "other", "purge")

\* Each branch records ERROR and then leaves its own way: Retry, a swallowed
\* terminal failure, or a raise (a dead letter first on the final attempt).
RecordError(j, k) ==
  \/ pc[j][k] \in {"busy", "waiting"} /\ WriteThen(j, k, "error", "other", "ack_retry")
  \/ pc[j][k] = "rejecting" /\ WriteThen(j, k, "error", "other", "purge")
  \/ pc[j][k] \in {"failing", "lastbusy"}
     /\ WriteThen(j, k, "error", "other", IF k = MaxTries THEN "dlq" ELSE "ack_raise")

\* The success branch: DONE, whatever the table says of it (a refusal is logged
\* and swallowed).  A Redis fault may strike before or after the write.
Persist(j, k) ==
  /\ pc[j][k] = "persist"
  /\ \/ SetStatusOnly(j, "done") /\ Goto(j, k, "mirror")
     \/ SetRefused(j, "done") /\ Goto(j, k, "mirror")
     \/ SetFails /\ Goto(j, k, "erring")
     \/ /\ faults < MaxFaults
        /\ faults' = faults + 1
        /\ status[j] \in AllowedFrom("done")
        /\ status' = [status EXCEPT ![j] = "done"]
        /\ UNCHANGED reason
        /\ Goto(j, k, "erring")
  /\ UNCHANGED <<left, staged, docVars>>
  /\ AttemptFrame

\* The registry upsert is best effort and never raises.
Mirror(j, k) ==
  /\ pc[j][k] = "mirror"
  /\ Goto(j, k, "purge")
  /\ HashKept
  /\ UNCHANGED <<staged, docVars>>
  /\ AttemptFrame

\* Fault: the handler carries on when its own write is refused.
GenericErrorSwallowing(j, k) ==
  /\ pc[j][k] = "erring"
  /\ SetStatusOnly(j, "error") \/ SetRaises(j, "error")
  /\ Goto(j, k, IF k = MaxTries THEN "dlq" ELSE "ack_raise")
  /\ UNCHANGED <<left, staged, docVars>>
  /\ AttemptFrame

\* The outer "except Exception" handler.  Its own write may be refused or fail,
\* which replaces the exception and skips the dead letter and the purge.
GenericError(j, k) ==
  /\ pc[j][k] = "erring"
  /\ \/ SetStatusOnly(j, "error") /\ Goto(j, k, IF k = MaxTries THEN "dlq" ELSE "ack_raise")
     \/ SetRaises(j, "error") /\ Goto(j, k, "ack_raise")
  /\ UNCHANGED <<left, staged, docVars>>
  /\ AttemptFrame

\* _dlq_push_on_final_attempt: a push that fails is logged; the original is
\* purged either way.
DeadLetter(j, k) ==
  /\ pc[j][k] = "dlq"
  /\ \E d \in {"pushed", "lost"} : dlq' = [dlq EXCEPT ![j] = d]
  /\ Goto(j, k, "purge")
  /\ HashKept
  /\ UNCHANGED <<staged, persisted, rejected>>
  /\ AttemptFrame

\* The finally block with cleanup_staging set.
Purge(j, k) ==
  /\ pc[j][k] = "purge"
  /\ staged' \in {staged, staged \ {j}}
  /\ Goto(j, k, "ack_finish")
  /\ HashKept
  /\ UNCHANGED docVars
  /\ AttemptFrame

\* A CancelledError: an abort, a worker shutdown or the function timeout.
Cancel(j, k) ==
  /\ \/ pc[j][k] \in InnerPhases /\ Goto(j, k, "cancelled") /\ UNCHANGED staged
     \/ pc[j][k] \in OuterPhases /\ Goto(j, k, "ack_cancel")
        /\ staged' \in IF pc[j][k] = "purge" THEN {staged, staged \ {j}} ELSE {staged}
  /\ HashKept
  /\ UNCHANGED docVars
  /\ AttemptFrame

\* The CancelledError handler records the abort, best effort and bounded, and
\* re-raises; the original is kept.
RecordAbort(j, k) ==
  /\ pc[j][k] = "cancelled"
  /\ SetStatus(j, "error", "other") \/ SetRaises(j, "error")
  /\ Goto(j, k, "ack_cancel")
  /\ UNCHANGED <<left, staged, docVars>>
  /\ AttemptFrame

\* SIGKILL: no handler runs, arq's in-progress key stays until it expires.
Crash(j, k) ==
  /\ pc[j][k] \in Live
  /\ Goto(j, k, "over")
  /\ age' = [age EXCEPT ![j][k] = 0]
  /\ killAt' = [killAt EXCEPT ![j][k] = 0]
  /\ HashKept
  /\ UNCHANGED <<upload, queue, tries, lease, operator, suspects, staged, docVars>>

\* What the code of an attempt does next when nothing interrupts it.
Proceed(j, k) ==
  \/ Begin(j, k)
  \/ Download(j, k)
  \/ StartChild(j, k)
  \/ ChildPersists(j, k)
  \/ ChildReturns(j, k)
  \/ ReadReason(j, k)
  \/ RecordError(j, k)
  \/ Persist(j, k)
  \/ Mirror(j, k)
  \/ GenericError(j, k)
  \/ DeadLetter(j, k)
  \/ Purge(j, k)
  \/ RecordAbort(j, k)
  \/ Acknowledge(j, k)

-----------------------------------------------------------------------------
(* reap_stale_jobs: the hash is read in one call and written in another.    *)

ReaperFrame ==
  UNCHANGED <<upload, staged, left, queue, tries, lease, operator, pc, age, killAt, docVars>>

\* Fault: only jobs arq still counts as in progress are reaped.
ReaperReadInProgress(j, w) ==
  /\ queue[j] = "running"
  /\ status[j] = "processing"
  /\ left[j] < 0
  /\ <<j, w>> \notin suspects
  /\ suspects' = suspects \cup {<<j, w>>}
  /\ UNCHANGED <<status, reason, faults>>
  /\ ReaperFrame

ReaperRead(j, w) ==
  /\ status[j] = "processing"
  /\ left[j] < 0
  /\ <<j, w>> \notin suspects
  /\ suspects' = suspects \cup {<<j, w>>}
  /\ UNCHANGED <<status, reason, faults>>
  /\ ReaperFrame

ReaperWrite(j, w) ==
  /\ <<j, w>> \in suspects
  /\ SetStatus(j, "error", "other") \/ SetRaises(j, "error")
  /\ suspects' = suspects \ {<<j, w>>}
  /\ ReaperFrame

-----------------------------------------------------------------------------
(* kill_job.py.                                                            *)

OperatorFrame == UNCHANGED <<upload, staged, left, tries, pc, age, killAt, docVars, suspects>>

\* Job.abort: the job is queued or in progress.
Abort(j) ==
  /\ operator[j] = "none"
  /\ queue[j] \in {"ready", "running"}
  /\ operator' = [operator EXCEPT ![j] = "abort"]
  /\ UNCHANGED <<status, reason, faults, queue, lease>>
  /\ OperatorFrame

\* --force, after an abort that was not honoured or with no arq job found.  A
\* write that raises ends the script.
ForceKill(j) ==
  /\ \/ operator[j] = "abort"
     \/ operator[j] = "none" /\ queue[j] \in {"none", "gone"}
  /\ \/ /\ SetStatus(j, "error", "operator_killed")
        /\ operator' = [operator EXCEPT ![j] = IF @ = "abort" THEN "killed" ELSE "done"]
     \/ /\ SetRaises(j, "error")
        /\ operator' = [operator EXCEPT ![j] = "done"]
  /\ UNCHANGED <<queue, lease>>
  /\ OperatorFrame

\* Delete the in-progress key: arq may deliver the job again at once.
ReleaseInProgress(j) ==
  /\ operator[j] = "killed"
  /\ operator' = [operator EXCEPT ![j] = "done"]
  /\ lease' = [lease EXCEPT ![j] = 0]
  /\ queue' = [queue EXCEPT ![j] = IF @ = "running" THEN "ready" ELSE @]
  /\ UNCHANGED <<status, reason, faults>>
  /\ OperatorFrame

Operator(j) ==
  \/ Abort(j)
  \/ ForceKill(j)
  \/ ReleaseInProgress(j)

-----------------------------------------------------------------------------
(* Time.                                                                   *)

\* On the scale of JOB_TIMEOUT an upload request takes no time.
Uploading(j) == upload[j] \notin {"new", "answered"}

\* What must happen before another tick: the first write follows the delivery
\* at once, the waits before the child are bounded, the child runs into its own deadline, then arq cancels what is left,
\* and a cancelled or finished attempt is settled within CancelBudget.
Overdue(j, k) ==
  \/ pc[j][k] = "setup"
  \/ pc[j][k] \in {"download", "convert"} /\ age[j][k] >= MaxWait
  \/ pc[j][k] = "child" /\ age[j][k] >= killAt[j][k]
  \/ pc[j][k] \in AtWork /\ age[j][k] >= FunctionTimeout
  \/ pc[j][k] \in Live /\ age[j][k] >= FunctionTimeout + CancelBudget

Tick ==
  /\ \A j \in Jobs : ~Uploading(j)
  /\ \A j \in Jobs, k \in Tries : ~Overdue(j, k)
  /\ age' = [j \in Jobs |-> [k \in Tries |->
               IF pc[j][k] \in Live THEN age[j][k] + 1 ELSE age[j][k]]]
  /\ left' = [j \in Jobs |->
                IF status[j] = "processing" /\ left[j] >= 0 THEN left[j] - 1 ELSE left[j]]
  /\ lease' = [j \in Jobs |->
                 IF queue[j] = "running" /\ lease[j] > 0 THEN lease[j] - 1 ELSE lease[j]]
  /\ UNCHANGED <<upload, staged, status, reason, queue, tries, operator, pc, killAt, docVars,
                 suspects, faults>>

-----------------------------------------------------------------------------
Attempt(j, k) == Proceed(j, k) \/ Cancel(j, k) \/ Crash(j, k)

Arq(j) == Deliver(j) \/ Drop(j) \/ LeaseExpire(j)

Next ==
  \/ \E j \in Jobs : Upload(j) \/ Arq(j) \/ Operator(j)
  \/ \E j \in Jobs, k \in Tries : Attempt(j, k)
  \/ \E j \in Jobs, w \in Sweeps : ReaperRead(j, w) \/ ReaperWrite(j, w)
  \/ Tick

Spec == Init /\ [][Next]_vars

\* An upload request runs to its end or dies.  Workers are running: arq polls its
\* queue, an attempt's code proceeds, the sweep runs every minute and time
\* passes.  Cancellations, crashes and the operator owe nothing.
FairSpec ==
  /\ Spec
  /\ \A j \in Jobs : WF_vars(Upload(j)) /\ WF_vars(Arq(j))
  /\ \A j \in Jobs, k \in Tries : WF_vars(Proceed(j, k))
  /\ \A j \in Jobs, w \in Sweeps :
       WF_vars(ReaperRead(j, w)) /\ WF_vars(ReaperWrite(j, w))
  /\ WF_vars(Tick)

-----------------------------------------------------------------------------
(* Properties.                                                             *)

\* The phases between an accepted PROCESSING write and the attempt's own last
\* status write.
Working == InnerPhases \ {"setup"}

\* The default deployment: the capped conversion timeout fits into the
\* JOB_TIMEOUT the reaper's deadline is built on.
CapWithinJobTimeout == MaxEffective <= JobTimeout

\* A cancelled attempt is settled before arq's in-progress key runs out.
SettledWithinLease == CancelBudget < LeaseMargin

\* A job that an attempt is working on never looks stale to the reaper, through
\* lock and memory waits, retries and overlapping attempts (job.py's two
\* effective_timeout_at writes, and the timeouts of worker/constants.py).
LiveNeverStale ==
  CapWithinJobTimeout =>
    \A j \in Jobs, k \in Tries :
      pc[j][k] \in Working /\ status[j] = "processing" => left[j] >= 0

\* As long as no operator has released the in-progress key, at most one attempt
\* is at work on a job: a crashed, cancelled or timed out attempt is over
\* before arq hands the job to another worker (lifecycle.py's function timeout).
AtMostOneAtWork ==
  SettledWithinLease =>
    \A j \in Jobs, k, m \in Tries :
      operator[j] # "done" /\ pc[j][k] \in AtWork /\ pc[j][m] \in AtWork => k = m

\* The staged original of an accepted job is deleted only when its document is
\* persisted, it was rejected for good, or its last try has failed and been
\* reported: every retry can download it (job.py's cleanup_staging).
OriginalKeptUntilSettled ==
  \A j \in Jobs :
    queue[j] # "none" /\ j \notin staged =>
      \/ j \in persisted
      \/ j \in rejected
      \/ tries[j] = MaxTries /\ dlq[j] # "none"

\* A job that ends DONE was not also dead-lettered, even when the reply to the
\* DONE write is lost on the final attempt (job.py's outer handlers).
DoneNotDeadLettered ==
  SettledWithinLease =>
    \A j \in Jobs : operator[j] # "done" /\ status[j] = "done" => dlq[j] = "none"

\* An attempt past its success branch has left the job DONE, whatever the reaper,
\* the operator, the upload handler or another attempt wrote meanwhile.
SuccessRecorded ==
  \A j \in Jobs, k \in Tries : pc[j][k] = "mirror" => status[j] = "done"

\* No late writer (a stale sweep, a failed enqueue, a redelivery, the operator)
\* ever replaces DONE (the compare-and-set script of job_status.py).
DoneIsFinal ==
  [][\A j \in Jobs : status[j] = "done" => status'[j] = "done" /\ reason'[j] = reason[j]]_vars

\* A job seen processing comes to rest at DONE or ERROR, whatever crashes,
\* cancellations and retries it meets on the way (the reaper and MAX_TRIES).
ProcessingComesToRest ==
  \A j \in Jobs : status[j] = "processing" ~> [](status[j] \in {"done", "error"})

\* While no operator interferes, the first write of every attempt at an
\* unfinished job is accepted (job_status.py, the comment above the table's last
\* entries).
FirstWriteAccepted ==
  \A j \in Jobs, k \in Tries :
    pc[j][k] = "setup" /\ operator[j] = "none" => status[j] \in AllowedFrom("processing") \cup {"done"}

=============================================================================
