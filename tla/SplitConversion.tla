--------------------------- MODULE SplitConversion ---------------------------
(***************************************************************************)
(* The split scheduler: one PDF converted chunk by chunk on several docling *)
(* backends.  Source: client/split.py (split_convert), with the deadline of *)
(* client/remote.py.                                                        *)
(*                                                                         *)
(* The scheduler is one coroutine: other things happen only where it awaits *)
(* (a capacity probe, asyncio.wait, a sleep).  A round of the loop that     *)
(* would dispatch nothing changes nothing and is not a step.  results of the*)
(* code is always the part of _shard_results under the expected build, so   *)
(* one variable stands for both.  Time is what is left of the shared        *)
(* deadline: enough for a useful call, too little for one, none.            *)
(***************************************************************************)
EXTENDS Integers, FiniteSets, Sequences

CONSTANTS
  Backends,     \* configured_backends
  Order,        \* the backends by rate, fastest first
  Limit,        \* chunk_limit of each backend
  Chunks,       \* indices of the chunks of the document
  Builds,       \* builds of the service
  None,         \* no backend
  MaxChunkFailures,    \* a chunk's failures that fail the document
  MaxBackendFailures,  \* _BACKEND_MAX_FAILURES
  MaxAttempts,  \* bound: calls of split_convert by one converter child
  MaxFaults     \* bound: outages and rollouts in one behaviour

ASSUME SplitAssumption ==
  /\ Chunks \subseteq Nat
  /\ Order \in Seq(Backends)
  /\ Limit \in [Backends -> Nat \ {0}]
  /\ None \notin Backends
  /\ MaxChunkFailures \in Nat \ {0}
  /\ MaxBackendFailures \in Nat \ {0}
  /\ MaxAttempts \in Nat
  /\ MaxFaults \in Nat

VARIABLES
  clock,     \* what is left of the shared deadline
  cond,      \* the condition each backend is in
  build,     \* the build each backend runs
  faults,    \* outages and rollouts so far
  attempt,   \* calls of split_convert so far
  pinned,    \* _chunk_sizes holds the document: an earlier attempt has split it
  phase,     \* where the scheduler is
  turn,      \* position in Order of the backend being served
  expected,  \* expected_sha
  live,      \* backends still in the split
  queue,     \* chunks not dispatched yet
  retry,     \* failed chunks to dispatch again, and where each failed
  hand,      \* the chunk picked for a backend that is being probed
  running,   \* conversions under way, oldest first
  batch,     \* done: conversions asyncio.wait returned, not handled yet
  failures,  \* failures of each chunk
  backendFailures,  \* backend_failures
  copied,    \* chunks that have been dispatched a second time as a copy
  lastError, \* last_error
  kept,      \* _shard_results: chunk, the build it was kept under, its real build
  ended      \* history: runs of each chunk that ended in an error

envVars == <<clock, cond, build, faults>>
callVars == <<attempt, pinned, expected>>
workVars == <<live, queue, retry, running, failures, backendFailures, copied, lastError>>
vars == <<envVars, callVars, phase, turn, hand, batch, workVars, kept, ended>>

-----------------------------------------------------------------------------
Kinds == {"new", "retry", "copy"}

Runs == [chunk : Chunks, backend : Backends, kind : Kinds, build : Builds,
         end : {"going", "ok", "error", "refused", "unavailable", "cancelled"}]

NoItem == [chunk |-> 0, kind |-> "none", on |-> None]

\* The chunks kept under a build.
KeptUnder(b) == {k.chunk : k \in {x \in kept : x.wanted = b}}

\* results
Results == KeptUnder(expected)

Members(s) == {s[i] : i \in DOMAIN s}

RunsOn(b) == {i \in DOMAIN running : running[i].backend = b}

RunsOf(c) == {i \in DOMAIN running : running[i].chunk = c}

\* A conversion is named by its chunk and its kind.
Key(r) == <<r.chunk, r.kind>>

\* The least of is.
First(is) == CHOOSE i \in is : \A j \in is : i <= j

\* s without its i-th element.
Popped(s, i) == [j \in 1 .. Len(s) - 1 |-> s[IF j < i THEN j ELSE j + 1]]

TypeOK ==
  /\ clock \in {"early", "late", "over"}
  /\ cond \in [Backends -> {"well", "wedged", "gone"}]
  /\ build \in [Backends -> Builds]
  /\ faults \in 0 .. MaxFaults
  /\ attempt \in 0 .. MaxAttempts
  /\ pinned \in BOOLEAN
  /\ phase \in {"idle", "loop", "dispatch", "probe", "wait", "collect", "merged", "failed",
                "unavailable", "elsewhere"}
  /\ turn \in 1 .. Len(Order) + 1
  /\ expected \in Builds
  /\ live \in SUBSET Backends
  /\ queue \in SUBSET Chunks
  /\ retry \in Seq([chunk : Chunks, on : Backends])
  /\ hand \in [chunk : Chunks, kind : Kinds, on : Backends \cup {None}] \cup {NoItem}
  /\ running \in Seq(Runs)
  /\ batch \in SUBSET (Chunks \X Kinds)
  /\ failures \in [Chunks -> Nat]
  /\ backendFailures \in [Backends -> Nat]
  /\ copied \in SUBSET Chunks
  /\ lastError \in {"none", "failed", "unavailable"}
  /\ kept \in SUBSET [chunk : Chunks, wanted : Builds, build : Builds]
  /\ ended \in [Chunks -> Nat]

Init ==
  /\ clock = "early"
  /\ cond = [b \in Backends |-> "well"]
  /\ build \in [Backends -> Builds]
  /\ \A b, c \in Backends : build[b] = build[c]
  /\ faults = 0
  /\ attempt = 0
  /\ pinned = FALSE
  /\ phase = "idle"
  /\ turn = 1
  /\ expected \in Builds
  /\ live = {}
  /\ queue = {}
  /\ retry = <<>>
  /\ hand = NoItem
  /\ running = <<>>
  /\ batch = {}
  /\ failures = [c \in Chunks |-> 0]
  /\ backendFailures = [b \in Backends |-> 0]
  /\ copied = {}
  /\ lastError = "none"
  /\ kept = {}
  /\ ended = [c \in Chunks |-> 0]

-----------------------------------------------------------------------------
(* The call: probing, and the choice of a path.                            *)

\* _eligible_backends with build e expected.  busy, no_capacity, hr3_blocked
\* and an absence still cached leave any of the backends that qualify out.
Eligible(ok, e) == \A b \in ok : cond[b] = "well" /\ build[b] = e

\* Another call may follow one that failed (the chain retries what is
\* transient) or one another path took; DoclingUnavailable ends the document.
MayCall ==
  /\ phase \in {"idle", "failed", "elsewhere"}
  /\ attempt < MaxAttempts

\* No backend, or one for a document that was never split: another path.
NotSplit ==
  /\ MayCall
  /\ \E ok \in SUBSET Backends, b \in Backends :
       /\ cond[b] # "gone"
       /\ Eligible(ok, build[b])
       /\ ok = {} \/ (Cardinality(ok) = 1 /\ ~pinned)
       /\ expected' = build[b]
  /\ attempt' = attempt + 1
  /\ phase' = "elsewhere"
  /\ UNCHANGED <<envVars, pinned, turn, hand, batch, workVars, kept, ended>>

\* Fault: a retry of the conversion starts from nothing.
ConvertAll(e) == Chunks

\* The chunks an earlier attempt kept under the expected build are not queued.
ToConvert(e) == Chunks \ KeptUnder(e)

Split ==
  /\ MayCall
  /\ \E ok \in SUBSET Backends, b \in Backends :
       /\ cond[b] # "gone"
       /\ Eligible(ok, build[b])
       /\ Cardinality(ok) >= 2 \/ (ok # {} /\ pinned)
       /\ expected' = build[b]
       /\ live' = ok
  /\ queue' = ToConvert(expected')
  /\ attempt' = attempt + 1
  /\ pinned' = TRUE
  /\ clock' = "early"
  /\ phase' = "loop"
  /\ retry' = <<>>
  /\ running' = <<>>
  /\ failures' = [c \in Chunks |-> 0]
  /\ backendFailures' = [b \in Backends |-> 0]
  /\ copied' = {}
  /\ lastError' = "none"
  /\ ended' = [c \in Chunks |-> 0]
  /\ UNCHANGED <<cond, build, faults, turn, hand, batch, kept>>

\* The condition of the while loop.  The finally cancels what still runs.
StartRound ==
  /\ phase = "loop"
  /\ Results # Chunks
  /\ phase' = "dispatch"
  /\ turn' = 1
  /\ UNCHANGED <<envVars, callVars, hand, batch, workVars, kept, ended>>

MergeAll ==
  /\ phase = "loop"
  /\ Results = Chunks
  /\ phase' = "merged"
  /\ running' = <<>>
  /\ UNCHANGED <<envVars, callVars, turn, hand, batch, live, queue, retry, failures,
                 backendFailures, copied, lastError, kept, ended>>

-----------------------------------------------------------------------------
(* Dispatch.                                                               *)

Name == Order[turn]

\* The backend whose turn it is may take one more chunk.
Serving ==
  /\ phase = "dispatch"
  /\ turn <= Len(Order)
  /\ Name \in live
  /\ Cardinality(RunsOn(Name)) < Limit[Name]

\* The retries a backend may take, and those it may when nobody else is left: its own.
FailedElsewhere(b) == {i \in DOMAIN retry : retry[i].on # b}

OwnRetries(b) == IF live \subseteq {b} THEN DOMAIN retry ELSE {}

\* Chunks still running elsewhere that nobody has copied.
Copiable(b) ==
  {i \in DOMAIN running :
     running[i].backend # b /\ running[i].chunk \notin copied \cup Results}

\* _pick for a backend, in its order of preference.
PicksRetry(b) == FailedElsewhere(b) # {}
PicksNew(b) == ~PicksRetry(b) /\ queue # {}
PicksOwn(b) == ~PicksRetry(b) /\ queue = {} /\ OwnRetries(b) # {}
PicksCopy(b) ==
  /\ ~PicksRetry(b)
  /\ queue = {}
  /\ OwnRetries(b) = {}
  /\ clock = "early"
  /\ Copiable(b) # {}

PicksSomething(b) ==
  /\ Cardinality(RunsOn(b)) < Limit[b]
  /\ PicksRetry(b) \/ PicksNew(b) \/ PicksOwn(b) \/ PicksCopy(b)

\* _run: with too little time left it raises DoclingUnavailable at once.
Started(b, c, k) ==
  [chunk |-> c, backend |-> b, kind |-> k, build |-> build[b],
   end |-> IF clock = "early" THEN "going" ELSE "unavailable"]

\* A new chunk goes out without a probe.
DispatchNew ==
  /\ Serving
  /\ PicksNew(Name)
  /\ LET c == First(queue)
     IN  /\ queue' = queue \ {c}
         /\ running' = Append(running, Started(Name, c, "new"))
  /\ UNCHANGED <<envVars, callVars, phase, turn, hand, batch, live, retry, failures,
                 backendFailures, copied, lastError, kept, ended>>

PickRetry ==
  /\ Serving
  /\ PicksRetry(Name) \/ PicksOwn(Name)
  /\ LET i == First(IF PicksRetry(Name) THEN FailedElsewhere(Name) ELSE OwnRetries(Name))
     IN  /\ retry' = Popped(retry, i)
         /\ hand' = [chunk |-> retry[i].chunk, kind |-> "retry", on |-> retry[i].on]
  /\ phase' = "probe"
  /\ UNCHANGED <<envVars, callVars, turn, batch, live, queue, running, failures,
                 backendFailures, copied, lastError, kept, ended>>

PickCopy ==
  /\ Serving
  /\ PicksCopy(Name)
  /\ LET c == running[First(Copiable(Name))].chunk
     IN  /\ copied' = copied \cup {c}
         /\ hand' = [chunk |-> c, kind |-> "copy", on |-> None]
  /\ phase' = "probe"
  /\ UNCHANGED <<envVars, callVars, turn, batch, live, queue, retry, running, failures,
                 backendFailures, lastError, kept, ended>>

NextName ==
  /\ phase = "dispatch"
  /\ turn <= Len(Order)
  /\ ~(Name \in live /\ PicksSomething(Name))
  /\ turn' = turn + 1
  /\ UNCHANGED <<envVars, callVars, phase, hand, batch, workVars, kept, ended>>

EndRound ==
  /\ phase = "dispatch"
  /\ turn > Len(Order)
  /\ phase' = "wait"
  /\ UNCHANGED <<envVars, callVars, turn, hand, batch, workVars, kept, ended>>

\* _still_accepts: the backend answers, is not wedged and runs the build.
Accepts(b) == cond[b] = "well" /\ build[b] = expected

ProbeAccepted ==
  /\ phase = "probe"
  /\ Accepts(Name)
  /\ running' = Append(running, Started(Name, hand.chunk, hand.kind))
  /\ hand' = NoItem
  /\ phase' = "dispatch"
  /\ UNCHANGED <<envVars, callVars, turn, batch, live, queue, retry, failures,
                 backendFailures, copied, lastError, kept, ended>>

\* What a refused probe puts back.
PutBack ==
  IF hand.kind = "retry"
  THEN /\ retry' = <<[chunk |-> hand.chunk, on |-> hand.on]>> \o retry
       /\ copied' = copied
  ELSE /\ copied' = copied \ {hand.chunk}
       /\ retry' = retry

\* The backend leaves the split; a probe that times out is a fault of its own.
ProbeRefused ==
  /\ phase = "probe"
  /\ IF Accepts(Name)
     THEN faults < MaxFaults /\ faults' = faults + 1
     ELSE faults' = faults
  /\ live' = live \ {Name}
  /\ PutBack
  /\ hand' = NoItem
  /\ phase' = "dispatch"
  /\ turn' = turn + 1
  /\ UNCHANGED <<clock, cond, build, callVars, batch, queue, running, failures,
                 backendFailures, lastError, kept, ended>>

-----------------------------------------------------------------------------
(* Waiting.                                                                *)

Ended == {i \in DOMAIN running : running[i].end # "going"}

\* asyncio.wait returns everything that is done.
Wake ==
  /\ phase = "wait"
  /\ Ended # {}
  /\ batch' = {Key(running[i]) : i \in Ended}
  /\ phase' = "collect"
  /\ UNCHANGED <<envVars, callVars, turn, hand, workVars, kept, ended>>

\* asyncio.wait times out, or the sleep ends, and a backend has work to take.
Tick ==
  /\ phase = "wait"
  /\ Ended = {}
  /\ running = <<>> => live # {} /\ clock # "over"
  /\ \E b \in live : PicksSomething(b)
  /\ phase' = "loop"
  /\ UNCHANGED <<envVars, callVars, turn, hand, batch, workVars, kept, ended>>

\* Fault: the loop waits for a backend to come back.
OutOfTime == clock = "over"

\* No live backend, or no time.
NothingCanRun == live = {} \/ clock = "over"

GiveUpIdle ==
  /\ phase = "wait"
  /\ running = <<>>
  /\ NothingCanRun
  /\ phase' = IF lastError = "none" THEN "unavailable" ELSE lastError
  /\ UNCHANGED <<envVars, callVars, turn, hand, batch, workVars, kept, ended>>

-----------------------------------------------------------------------------
(* What asyncio.wait returned, one conversion after the other.             *)

\* The other copies of chunk c are cancelled; one already done stays as it is.
Cancelled(s, c) ==
  [i \in DOMAIN s |-> IF s[i].chunk = c /\ s[i].end = "going"
                      THEN [s[i] EXCEPT !.end = "cancelled"] ELSE s[i]]

Handling(i) ==
  /\ phase = "collect"
  /\ i \in DOMAIN running
  /\ Key(running[i]) \in batch

IsLoser(r) == r.end = "cancelled" \/ r.chunk \in Results

DropLoser(i) ==
  /\ Handling(i)
  /\ IsLoser(running[i])
  /\ running' = Popped(running, i)
  /\ batch' = batch \ {Key(running[i])}
  /\ UNCHANGED <<envVars, callVars, phase, turn, hand, live, queue, retry, failures,
                 backendFailures, copied, lastError, kept, ended>>

CollectResult(i) ==
  /\ Handling(i)
  /\ ~IsLoser(running[i])
  /\ running[i].end = "ok"
  /\ kept' = kept \cup {[chunk |-> running[i].chunk, wanted |-> expected,
                         build |-> running[i].build]}
  /\ running' = Cancelled(Popped(running, i), running[i].chunk)
  /\ batch' = batch \ {Key(running[i])}
  /\ UNCHANGED <<envVars, callVars, phase, turn, hand, live, queue, retry, failures,
                 backendFailures, copied, lastError, ended>>

\* A refused connection, or one failure too many, takes the backend out.
BlameBackend(r) ==
  LET counted == r.end = "error" /\ r.backend \in live
  IN  /\ backendFailures' = IF counted THEN [backendFailures EXCEPT ![r.backend] = @ + 1]
                            ELSE backendFailures
      /\ live' = IF r.end = "refused" \/ (counted /\ backendFailures'[r.backend]
                                                       >= MaxBackendFailures)
                 THEN live \ {r.backend} ELSE live

\* Fault: the failure of one copy counts though another runs.
Alone(i) == FALSE

\* Another conversion of the chunk is still in running.
OtherCopy(i) == RunsOf(running[i].chunk) # {i}

\* Every failure is recorded before it is judged.
Failing(i) ==
  /\ Handling(i)
  /\ ~IsLoser(running[i])
  /\ running[i].end # "ok"
  /\ lastError' = IF running[i].end = "unavailable" THEN "unavailable" ELSE "failed"
  /\ ended' = [ended EXCEPT ![running[i].chunk] = @ + 1]
  /\ BlameBackend(running[i])

LeaveToOtherCopy(i) ==
  /\ Failing(i)
  /\ OtherCopy(i)
  /\ running' = Popped(running, i)
  /\ batch' = batch \ {Key(running[i])}
  /\ UNCHANGED <<envVars, callVars, phase, turn, hand, queue, retry, failures, copied, kept>>

RetryEntry(r) == [chunk |-> r.chunk, on |-> r.backend]

RetryChunk(i) ==
  /\ Failing(i)
  /\ ~OtherCopy(i)
  /\ running[i].end # "unavailable"
  /\ failures[running[i].chunk] + 1 < MaxChunkFailures
  /\ failures' = [failures EXCEPT ![running[i].chunk] = @ + 1]
  /\ retry' = Append(retry, RetryEntry(running[i]))
  /\ running' = Popped(running, i)
  /\ batch' = batch \ {Key(running[i])}
  /\ UNCHANGED <<envVars, callVars, phase, turn, hand, queue, copied, kept>>

\* raise: the rest of the batch is dropped, the finally cancels what runs.
GiveUp(i) ==
  /\ Failing(i)
  /\ ~OtherCopy(i)
  /\ running[i].end = "unavailable" \/ failures[running[i].chunk] + 1 >= MaxChunkFailures
  /\ phase' = lastError'
  /\ running' = <<>>
  /\ batch' = {}
  /\ UNCHANGED <<envVars, callVars, turn, hand, queue, retry, failures, copied, kept>>

EndBatch ==
  /\ phase = "collect"
  /\ batch = {}
  /\ phase' = "loop"
  /\ UNCHANGED <<envVars, callVars, turn, hand, batch, workVars, kept, ended>>

-----------------------------------------------------------------------------
(* The environment, seen where the scheduler awaits.                       *)

Awaiting == phase \in {"probe", "wait"}

\* A conversion ends.  Its read timeout ends it at the latest; a backend that
\* is gone refuses or drops the connection, a wedged one never answers.
RunEnds(i) ==
  /\ Awaiting
  /\ i \in DOMAIN running
  /\ running[i].end = "going"
  /\ \E e \in {"ok", "error", "refused"} :
       /\ e = "ok" => cond[running[i].backend] = "well" /\ clock # "over"
       /\ e = "refused" => cond[running[i].backend] = "gone"
       /\ running' = [running EXCEPT ![i].end = e]
  /\ UNCHANGED <<envVars, callVars, phase, turn, hand, batch, live, queue, retry, failures,
                 backendFailures, copied, lastError, kept, ended>>

TimePasses ==
  /\ Awaiting
  /\ clock # "over"
  /\ clock' = IF clock = "early" THEN "late" ELSE "over"
  /\ UNCHANGED <<cond, build, faults, callVars, phase, turn, hand, batch, workVars, kept,
                 ended>>

Outage(b) ==
  /\ Awaiting
  /\ faults < MaxFaults
  /\ cond[b] = "well"
  /\ \E c \in {"wedged", "gone"} : cond' = [cond EXCEPT ![b] = c]
  /\ faults' = faults + 1
  /\ UNCHANGED <<clock, build, callVars, phase, turn, hand, batch, workVars, kept, ended>>

\* It is also back when the child calls again.
Recovery(b) ==
  /\ Awaiting \/ phase \in {"failed", "elsewhere"}
  /\ cond[b] # "well"
  /\ cond' = [cond EXCEPT ![b] = "well"]
  /\ UNCHANGED <<clock, build, faults, callVars, phase, turn, hand, batch, workVars, kept,
                 ended>>

\* A rolling update: what it is converting ends on the old build.
Rollout(b) ==
  /\ Awaiting
  /\ faults < MaxFaults
  /\ \E v \in Builds \ {build[b]} : build' = [build EXCEPT ![b] = v]
  /\ faults' = faults + 1
  /\ UNCHANGED <<clock, cond, callVars, phase, turn, hand, batch, workVars, kept, ended>>

-----------------------------------------------------------------------------
Handle(i) ==
  DropLoser(i) \/ CollectResult(i) \/ LeaveToOtherCopy(i) \/ RetryChunk(i) \/ GiveUp(i)

Dispatch == DispatchNew \/ PickRetry \/ PickCopy \/ ProbeAccepted \/ NextName \/ EndRound

Scheduler ==
  \/ StartRound \/ MergeAll
  \/ Dispatch \/ ProbeRefused
  \/ Wake \/ Tick \/ GiveUpIdle
  \/ \E i \in DOMAIN running : Handle(i)
  \/ EndBatch

Environment ==
  \/ TimePasses
  \/ \E i \in DOMAIN running : RunEnds(i)
  \/ \E b \in Backends : Outage(b) \/ Recovery(b) \/ Rollout(b)

Next == Split \/ NotSplit \/ Scheduler \/ Environment

Spec == Init /\ [][Next]_vars

\* The scheduler runs on, and every request ends: it has a read timeout.
FairSpec ==
  /\ Spec
  /\ WF_vars(Scheduler)
  /\ WF_vars(\E i \in DOMAIN running : RunEnds(i))

-----------------------------------------------------------------------------
(* Properties.                                                             *)

Converting == phase \in {"loop", "dispatch", "probe", "wait", "collect"}

\* An attempt fails only when time is short, no backend is left, or a chunk
\* failed twice with no other copy of it under way: the loser of a pair never
\* fails the document (split.py 654-706).
FailureIsEarned ==
  [][ Converting /\ phase' \in {"failed", "unavailable"}
        => \/ clock # "early"
           \/ live' = {}
           \/ \E c \in Chunks \ Results :
                ended'[c] >= MaxChunkFailures /\ Cardinality(RunsOf(c)) <= 1 ]_vars

\* A chunk kept under the expected build is never sent out again, in this
\* attempt or a later one of the child (split.py 497-506, 660).
NoWorkRepeated ==
  [][ \A c \in Chunks : c \in Results /\ Converting
        => \A i \in DOMAIN running' :
             running'[i].chunk = c => \E j \in DOMAIN running : Key(running[j]) = Key(running'[i])
    ]_vars

\* The attempt as the abstract specification sees it.
Outcome ==
  CASE phase = "idle" -> "none"
    [] Converting -> "open"
    [] OTHER -> phase

Collection == INSTANCE ChunkCollection
  WITH kept <- [b \in Builds |-> KeptUnder(b)], wanted <- expected, outcome <- Outcome

\* The scheduler implements the collection of chunks, its fairness included: every
\* attempt ends with the document or an error (split.py 623-723).
ImplementsCollection == Collection!FairSpec
=============================================================================
