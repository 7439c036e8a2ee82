------------------------ MODULE RemoteConversionProofs ------------------------
(* Proofs about RemoteConversion: its types, the budget of the readiness     *)
(* gate, the work the scheduler never repeats, the failures it has to earn,  *)
(* and the safety part of its implementing ChunkCollection.                  *)
EXTENDS RemoteConversion, FiniteSetTheorems, SequenceTheorems, WellFoundedInduction, TLAPS

\* While docling-1 starts, what is left of its longest cold start fits what is left of
\* the budget; nothing but the key's own states ends the wait for a backend.
GateInv ==
  /\ gate = "none" => backend \in {"never", "none"}
  /\ gate = "health" /\ backend = "starting" => waited + ReadyWait <= budget + age
  /\ ColdStartWaitedOut

\* A chunk is in hand exactly while its backend is probed.
HandInv ==
  IF phase = "probe"
  THEN /\ turn \in DOMAIN Order
       /\ \/ hand \in [chunk : Chunks, kind : {"retry"}, on : Backends]
          \/ hand \in [chunk : Chunks, kind : {"copy"}, on : {None}]
  ELSE hand = NoItem

\* A round is begun only while a chunk is missing, and what it finds is handled before
\* the next.
RoundInv == phase \in {"dispatch", "probe", "wait"} => Results # Chunks

\* Only a conversion begun with too little time is unavailable, and every failure of a
\* chunk that counts is the end of one of its runs.
EndInv ==
  /\ \A i \in DOMAIN running : running[i].end = "unavailable" => clock # "early"
  /\ \A c \in Chunks : failures[c] <= ended[c]

RetryChunks == {retry[i].chunk : i \in DOMAIN retry}
RunningChunks == {running[i].chunk : i \in DOMAIN running}

\* A missing chunk is in one place: queued, failed and waiting, or out on a backend.
WorkInv ==
  Converting =>
    /\ queue \cap (Results \cup RetryChunks \cup RunningChunks) = {}
    /\ RetryChunks \cap (Results \cup RunningChunks) = {}
    /\ \A i, j \in DOMAIN retry : i # j => retry[i].chunk # retry[j].chunk
    /\ phase = "probe" =>
         /\ hand.chunk \notin queue \cup Results \cup RetryChunks
         /\ hand.kind = "retry" => hand.chunk \notin RunningChunks
-----------------------------------------------------------------------------
(* The readiness gate.                                                     *)

\* The gate's invariant holds where it starts, and whatever the gate reads, waits or
\* probes keeps it.
LEMMA GateTypes == RemoteInit => TypeOKGate /\ GateInv
<1> USE SplitAssumption, GateAssumption
<1> QED BY DEF RemoteInit, InitGate, TypeOKGate, GateInv, ColdStartWaitedOut, Keys

LEMMA BudgetIsNat ==
  ASSUME NEW k \in Keys, NEW a \in Ages(k)
  PROVE  a \in Nat /\ Extra(k, a) \in Nat /\ (k = "starting" => Extra(k, a) + a >= ReadyWait)
<1> USE GateAssumption DEF Keys, Ages, Extra, Greatest
<1>1. CASE k = "stale"
  BY <1>1
<1>2. CASE k = "starting"
  BY <1>2
<1>3. CASE k \notin {"stale", "starting"}
  BY <1>3
<1> QED BY <1>1, <1>2, <1>3

LEMMA ProbeFromHolds ==
  ASSUME NEW w \in Nat, NEW k \in Keys \ {"never", "none"}, NEW a \in Ages(k), ProbeFrom(w, k, a),
         TypeOKGate, UNCHANGED deadline
  PROVE  TypeOKGate' /\ GateInv'
<1> USE GateAssumption
<1>1. a \in Nat /\ Extra(k, a) \in Nat /\ (k = "starting" => Extra(k, a) + a >= ReadyWait)
  BY BudgetIsNat
<1> QED BY <1>1 DEF ProbeFrom, TypeOKGate, GateInv, ColdStartWaitedOut

LEMMA GateStep ==
  ASSUME TypeOKGate, GateInv, GateNext
  PROVE  TypeOKGate' /\ GateInv'
<1> USE GateAssumption DEF TypeOKGate, Keys
<1>1. CASE ReadKey
  <2> PICK k \in Keys : \E a \in Ages(k) :
        IF k \in {"never", "none"}
        THEN gate' = "none" /\ backend' = k /\ UNCHANGED <<waited, budget, age>>
        ELSE ProbeFrom(0, k, a)
    BY <1>1 DEF ReadKey
  <2> PICK a \in Ages(k) :
        IF k \in {"never", "none"}
        THEN gate' = "none" /\ backend' = k /\ UNCHANGED <<waited, budget, age>>
        ELSE ProbeFrom(0, k, a)
    OBVIOUS
  <2>1. CASE k \in {"never", "none"}
    BY <1>1, <2>1 DEF ReadKey, GateInv, ColdStartWaitedOut
  <2>2. CASE k \notin {"never", "none"}
    BY <1>1, <2>2, ProbeFromHolds DEF ReadKey
  <2> QED BY <2>1, <2>2
<1>2. CASE NoBackend
  BY <1>2 DEF NoBackend, Raise, GateInv, ColdStartWaitedOut
<1>3. CASE WaitOutNone
  <2> PICK k \in Keys : \E a \in Ages(k) :
        IF k \in {"never", "none"}
        THEN gate' = gate /\ backend' = k /\ waited' = waited + 1 /\ UNCHANGED <<budget, age>>
        ELSE ProbeFrom(waited + 1, k, a)
    BY <1>3 DEF WaitOutNone
  <2> PICK a \in Ages(k) :
        IF k \in {"never", "none"}
        THEN gate' = gate /\ backend' = k /\ waited' = waited + 1 /\ UNCHANGED <<budget, age>>
        ELSE ProbeFrom(waited + 1, k, a)
    OBVIOUS
  <2>1. CASE k \in {"never", "none"}
    BY <1>3, <2>1 DEF WaitOutNone, GateInv, ColdStartWaitedOut
  <2>2. CASE k \notin {"never", "none"}
    <3>1. waited + 1 \in Nat
      OBVIOUS
    <3> QED BY <1>3, <2>2, <3>1, ProbeFromHolds DEF WaitOutNone
  <2> QED BY <2>1, <2>2
<1>4. CASE HealthAnswers
  BY <1>4 DEF HealthAnswers, GateInv, ColdStartWaitedOut
<1>5. CASE PollAgain
  BY <1>5 DEF PollAgain, HealthFails, Aged, GateInv, ColdStartWaitedOut
<1>6. CASE FollowStart
  <2> PICK w \in waited .. waited + ProbeMax, a \in Ages("starting") :
        ProbeFrom(w, "starting", a)
    BY <1>6 DEF FollowStart
  <2> QED BY <1>6, ProbeFromHolds DEF FollowStart
<1>7. CASE BackendNotReady
  <2> PICK w \in waited .. waited + ProbeMax :
        HealthFails(w) /\ OutOfBudget(w) /\ waited' = w
    BY <1>7 DEF BackendNotReady
  <2>1. backend = "starting" => w + 1 > deadline
    BY DEF HealthFails, OutOfBudget, Least, GateInv
  <2> QED BY <1>7, <2>1 DEF BackendNotReady, Raise, GateInv, ColdStartWaitedOut
<1> QED BY <1>1, <1>2, <1>3, <1>4, <1>5, <1>6, <1>7 DEF GateNext

LEMMA GateInvariance == RemoteSpec => [](TypeOKGate /\ GateInv)
<1>1. TypeOKGate /\ GateInv /\ [RemoteNext]_remoteVars => (TypeOKGate /\ GateInv)'
  <2> SUFFICES ASSUME TypeOKGate, GateInv, [RemoteNext]_remoteVars
               PROVE  (TypeOKGate /\ GateInv)'
    OBVIOUS
  <2>1. CASE AtGate
    BY <2>1, GateStep DEF AtGate
  <2>2. CASE UNCHANGED gateVars
    BY <2>2 DEF gateVars, TypeOKGate, GateInv, ColdStartWaitedOut
  <2> QED BY <2>1, <2>2 DEF RemoteNext, PastGate, remoteVars
<1> QED BY <1>1, GateTypes, PTL DEF RemoteSpec

\* A cold start of docling-1 is waited out, for every setting of the waits in which the
\* longest start and one probe fit the ready wait: only the child's own deadline cuts it
\* short (wait_for_docling_ready).
THEOREM ColdStartIsWaitedOut == RemoteSpec => []ColdStartWaitedOut
<1>1. GateInv => ColdStartWaitedOut
  BY DEF GateInv
<1> QED BY <1>1, GateInvariance, PTL

-----------------------------------------------------------------------------
(* Sequences without an element, and the oldest element.                   *)

\* Taking the i-th element out leaves the others, each where it was or one place down.
LEMMA PoppedKeeps ==
  ASSUME NEW S, NEW s \in Seq(S), NEW i \in DOMAIN s
  PROVE  /\ Popped(s, i) \in Seq(S)
         /\ Len(Popped(s, i)) = Len(s) - 1
         /\ DOMAIN Popped(s, i) = 1 .. Len(s) - 1
         /\ \A j \in 1 .. Len(s) - 1 : Popped(s, i)[j] = s[IF j < i THEN j ELSE j + 1]
<1>1. Len(s) \in Nat /\ DOMAIN s = 1 .. Len(s) /\ \A j \in 1 .. Len(s) : s[j] \in S
  BY LenProperties, ElementOfSeq
<1>2. Len(s) - 1 \in Nat
  BY <1>1
<1>3. \A j \in 1 .. Len(s) - 1 : (IF j < i THEN j ELSE j + 1) \in 1 .. Len(s)
  BY <1>1
<1>4. \A j \in 1 .. Len(s) - 1 : s[IF j < i THEN j ELSE j + 1] \in S
  BY <1>1, <1>3
<1>5. Popped(s, i) \in Seq(S)
  BY <1>2, <1>4, IsASeq DEF Popped
<1>6. DOMAIN Popped(s, i) = 1 .. Len(s) - 1
  BY DEF Popped
<1>7. Len(Popped(s, i)) = Len(s) - 1
  BY <1>2, <1>5, <1>6, LenProperties
<1> QED BY <1>5, <1>6, <1>7 DEF Popped

\* What is left of s is in s, at different places of it, and not at i.
LEMMA PoppedIsPart ==
  ASSUME NEW S, NEW s \in Seq(S), NEW i \in DOMAIN s
  PROVE  /\ \A j \in DOMAIN Popped(s, i) : \E k \in DOMAIN s \ {i} : Popped(s, i)[j] = s[k]
         /\ \A j, k \in DOMAIN Popped(s, i) :
              j # k => \E l, m \in DOMAIN s \ {i} :
                         l # m /\ Popped(s, i)[j] = s[l] /\ Popped(s, i)[k] = s[m]
<1> DEFINE at(j) == IF j < i THEN j ELSE j + 1
<1>1. Len(s) \in Nat /\ DOMAIN s = 1 .. Len(s)
  BY LenProperties
<1>2. DOMAIN Popped(s, i) = 1 .. Len(s) - 1
      /\ \A j \in 1 .. Len(s) - 1 : Popped(s, i)[j] = s[at(j)]
  BY PoppedKeeps
<1>3. /\ \A j \in 1 .. Len(s) - 1 : at(j) \in DOMAIN s \ {i}
      /\ \A j, k \in 1 .. Len(s) - 1 : j # k => at(j) # at(k)
  BY <1>1
<1> HIDE DEF at
<1> QED BY <1>2, <1>3

\* A set of positions that is not empty has a least one.
LEMMA FirstIsLeast ==
  ASSUME NEW is \in SUBSET Nat, is # {}
  PROVE  First(is) \in is /\ \A j \in is : First(is) <= j
<1> DEFINE less == OpToRel(<, Nat)
<1>1. \A a, b \in Nat : <<a, b>> \in less <=> a < b
  BY DEF OpToRel
<1>2. IsWellFoundedOn(less, Nat)
  BY NatLessThanWellFounded
<1> HIDE DEF less
<1>3. \E i \in is : \A j \in is : <<j, i>> \notin less
  BY <1>2, WFMin
<1>4. \E i \in is : \A j \in is : i <= j
  <2> PICK i \in is : \A j \in is : <<j, i>> \notin less
    BY <1>3
  <2>1. \A j \in is : i \in Nat /\ j \in Nat /\ ~(j < i)
    BY <1>1
  <2>2. \A j \in is : i <= j
    BY <2>1
  <2> QED BY <2>2
<1> QED BY <1>4 DEF First

-----------------------------------------------------------------------------
(* The types of the scheduler.                                             *)

LEMMA NameIsBackend ==
  ASSUME TypeOK, turn <= Len(Order)
  PROVE  turn \in DOMAIN Order /\ Name \in Backends
<1>1. Order \in Seq(Backends)
  BY SplitAssumption
<1>2. Len(Order) \in Nat /\ DOMAIN Order = 1 .. Len(Order)
  BY <1>1, LenProperties
<1>3. turn \in DOMAIN Order
  BY <1>2 DEF TypeOK
<1> QED BY <1>1, <1>3, ElementOfSeq DEF Name

LEMMA StartedIsRun ==
  ASSUME TypeOK, NEW b \in Backends, NEW c \in Chunks, NEW k \in Kinds
  PROVE  Started(b, c, k) \in Runs
BY DEF Started, Runs, TypeOK

\* The initial state.
LEMMA SchedulerStarts == Init => TypeOK /\ HandInv
<1> SUFFICES ASSUME Init PROVE TypeOK /\ HandInv
  OBVIOUS
<1>1. turn \in 1 .. Len(Order) + 1
  <2>1. Len(Order) \in Nat
    BY SplitAssumption, LenProperties
  <2> QED BY <2>1 DEF Init
<1>2. <<>> \in Seq(Runs) /\ <<>> \in Seq([chunk : Chunks, on : Backends])
  BY EmptySeq
<1>3. /\ failures \in [Chunks -> Nat] /\ ended \in [Chunks -> Nat]
      /\ backendFailures \in [Backends -> Nat]
      /\ cond \in [Backends -> {"well", "wedged", "gone"}]
  BY DEF Init
<1>4. attempt \in 0 .. MaxAttempts /\ faults \in 0 .. MaxFaults
  BY SplitAssumption DEF Init
<1> QED BY <1>1, <1>2, <1>3, <1>4 DEF Init, TypeOK, HandInv

\* The beginning and the rounds of an attempt.
LEMMA RoundTypes ==
  ASSUME TypeOK, HandInv,
         \/ NotSplit \/ Split \/ StartRound \/ MergeAll \/ NextName \/ EndRound
         \/ Wake \/ Tick \/ GiveUpIdle \/ EndBatch
  PROVE  TypeOK' /\ HandInv'
<1> USE SplitAssumption DEF TypeOK, HandInv, envVars, callVars, workVars
<1>1. CASE NotSplit
  <2>1. expected' \in Builds
    BY <1>1 DEF NotSplit
  <2>2. attempt' \in 0 .. MaxAttempts
    BY <1>1 DEF NotSplit, MayCall
  <2> QED BY <1>1, <2>1, <2>2 DEF NotSplit, MayCall
<1>2. CASE Split
  <2>1. <<>> \in Seq(Runs) /\ <<>> \in Seq([chunk : Chunks, on : Backends])
    BY EmptySeq
  <2>2. expected' \in Builds /\ live' \in SUBSET Backends /\ queue' \in SUBSET Chunks
    BY <1>2 DEF Split, ToConvert
  <2>3. /\ failures' \in [Chunks -> Nat] /\ ended' \in [Chunks -> Nat]
        /\ backendFailures' \in [Backends -> Nat]
    BY <1>2 DEF Split
  <2>4. attempt' \in 0 .. MaxAttempts /\ HandInv'
    BY <1>2 DEF Split, MayCall
  <2> QED BY <1>2, <2>1, <2>2, <2>3, <2>4 DEF Split
<1>3. CASE StartRound
  <2>1. 1 \in 1 .. Len(Order) + 1
    BY LenProperties
  <2> QED BY <1>3, <2>1 DEF StartRound
<1>4. CASE MergeAll
  BY <1>4, EmptySeq DEF MergeAll
<1>5. CASE NextName
  <2>1. turn' \in 1 .. Len(Order) + 1
    BY <1>5, LenProperties DEF NextName
  <2> QED BY <1>5, <2>1 DEF NextName
<1>6. CASE EndRound
  BY <1>6 DEF EndRound
<1>7. CASE Wake
  <2>1. \A i \in DOMAIN running : running[i] \in Runs
    BY ElementOfSeq, LenProperties
  <2>2. \A i \in DOMAIN running : Key(running[i]) \in Chunks \X Kinds
    BY <2>1 DEF Key, Runs
  <2>3. batch' \in SUBSET (Chunks \X Kinds)
    BY <1>7, <2>2 DEF Wake, Ended
  <2> QED BY <1>7, <2>3 DEF Wake
<1>8. CASE Tick
  BY <1>8 DEF Tick
<1>9. CASE GiveUpIdle
  BY <1>9 DEF GiveUpIdle
<1>10. CASE EndBatch
  BY <1>10 DEF EndBatch
<1> QED BY <1>1, <1>2, <1>3, <1>4, <1>5, <1>6, <1>7, <1>8, <1>9, <1>10

\* What the scheduler picks: the least chunk of the queue, one of the failed ones, or the
\* chunk of a running conversion.
LEMMA NewIsQueued ==
  ASSUME TypeOK, queue # {}
  PROVE  First(queue) \in queue
<1>1. queue \in SUBSET Nat
  BY SplitAssumption DEF TypeOK
<1> QED BY <1>1, FirstIsLeast

LEMMA RetryIsPicked ==
  ASSUME TypeOK, PickRetry
  PROVE  \E i \in DOMAIN retry :
           /\ retry' = Popped(retry, i)
           /\ hand' = [chunk |-> retry[i].chunk, kind |-> "retry", on |-> retry[i].on]
<1> DEFINE is == IF PicksRetry(Name) THEN FailedElsewhere(Name) ELSE OwnRetries(Name)
<1>1. is # {} /\ is \subseteq DOMAIN retry
  BY DEF PickRetry, PicksRetry, PicksOwn, FailedElsewhere, OwnRetries
<1>2. DOMAIN retry \subseteq Nat
  BY LenProperties DEF TypeOK
<1>3. First(is) \in is
  <2>1. is \in SUBSET Nat /\ is # {}
    BY <1>1, <1>2
  <2> QED BY <2>1, FirstIsLeast
<1> QED BY <1>1, <1>3 DEF PickRetry

LEMMA CopyIsOfRunning ==
  ASSUME TypeOK, PickCopy
  PROVE  \E i \in DOMAIN running :
           /\ running[i].chunk \notin copied \cup Results
           /\ copied' = copied \cup {running[i].chunk}
           /\ hand' = [chunk |-> running[i].chunk, kind |-> "copy", on |-> None]
<1> DEFINE is == Copiable(Name)
<1>1. is # {}
  BY DEF PickCopy, PicksCopy
<1>2. is \in SUBSET Nat
  BY LenProperties DEF TypeOK, Copiable
<1>3. First(is) \in is
  BY <1>1, <1>2, FirstIsLeast
<1> QED BY <1>3 DEF PickCopy, Copiable

LEMMA ElementsTyped ==
  ASSUME TypeOK
  PROVE  /\ \A i \in DOMAIN running : running[i] \in Runs
         /\ \A i \in DOMAIN retry : retry[i] \in [chunk : Chunks, on : Backends]
         /\ DOMAIN running = 1 .. Len(running) /\ Len(running) \in Nat
         /\ DOMAIN retry = 1 .. Len(retry) /\ Len(retry) \in Nat
<1>1. running \in Seq(Runs) /\ retry \in Seq([chunk : Chunks, on : Backends])
  BY DEF TypeOK
<1> QED BY <1>1, ElementOfSeq, LenProperties

LEMMA DispatchTypes ==
  ASSUME TypeOK, HandInv,
         DispatchNew \/ PickRetry \/ PickCopy \/ ProbeAccepted \/ ProbeRefused
  PROVE  TypeOK' /\ HandInv'
<1> USE SplitAssumption DEF HandInv, envVars, callVars, workVars
<1>1. CASE DispatchNew
  <2>1. Name \in Backends /\ First(queue) \in Chunks
    BY <1>1, NameIsBackend, NewIsQueued DEF DispatchNew, Serving, PicksNew, TypeOK
  <2>2. Started(Name, First(queue), "new") \in Runs
    BY <2>1, StartedIsRun DEF Kinds
  <2>3. running' \in Seq(Runs)
    BY <1>1, <2>2, AppendProperties DEF DispatchNew, TypeOK
  <2>4. queue' \in SUBSET Chunks
    BY <1>1 DEF DispatchNew, TypeOK
  <2> QED BY <1>1, <2>3, <2>4 DEF DispatchNew, TypeOK
<1>2. CASE PickRetry
  <2> PICK i \in DOMAIN retry :
        /\ retry' = Popped(retry, i)
        /\ hand' = [chunk |-> retry[i].chunk, kind |-> "retry", on |-> retry[i].on]
    BY <1>2, RetryIsPicked
  <2>1. retry' \in Seq([chunk : Chunks, on : Backends])
    BY PoppedKeeps DEF TypeOK
  <2>2. hand' \in [chunk : Chunks, kind : {"retry"}, on : Backends]
    BY ElementsTyped
  <2>3. turn' \in DOMAIN Order
    BY <1>2, NameIsBackend DEF PickRetry, Serving
  <2> QED BY <1>2, <2>1, <2>2, <2>3 DEF PickRetry, TypeOK, Kinds
<1>3. CASE PickCopy
  <2> PICK i \in DOMAIN running :
        /\ copied' = copied \cup {running[i].chunk}
        /\ hand' = [chunk |-> running[i].chunk, kind |-> "copy", on |-> None]
    BY <1>3, CopyIsOfRunning
  <2>1. running[i].chunk \in Chunks
    BY ElementsTyped DEF Runs
  <2>2. hand' \in [chunk : Chunks, kind : {"copy"}, on : {None}] /\ copied' \in SUBSET Chunks
    BY <2>1 DEF TypeOK
  <2>3. turn' \in DOMAIN Order
    BY <1>3, NameIsBackend DEF PickCopy, Serving
  <2> QED BY <1>3, <2>2, <2>3 DEF PickCopy, TypeOK, Kinds
<1>4. CASE ProbeAccepted
  <2>1. Name \in Backends /\ hand.chunk \in Chunks /\ hand.kind \in Kinds
    BY <1>4, ElementOfSeq DEF ProbeAccepted, Name, Kinds
  <2>2. Started(Name, hand.chunk, hand.kind) \in Runs
    BY <2>1, StartedIsRun
  <2>3. running' \in Seq(Runs)
    BY <1>4, <2>2, AppendProperties DEF ProbeAccepted, TypeOK
  <2> QED BY <1>4, <2>3 DEF ProbeAccepted, TypeOK
<1>5. CASE ProbeRefused
  <2>1. hand.chunk \in Chunks /\ (hand.kind = "retry" => hand.on \in Backends)
    BY <1>5 DEF ProbeRefused
  <2>2. copied' \in SUBSET Chunks
    BY <1>5 DEF ProbeRefused, PutBack, TypeOK
  <2>3. retry' \in Seq([chunk : Chunks, on : Backends])
    <3>1. CASE hand.kind = "retry"
      <4>1. [chunk |-> hand.chunk, on |-> hand.on] \in [chunk : Chunks, on : Backends]
        BY <2>1, <3>1
      <4>2. <<[chunk |-> hand.chunk, on |-> hand.on]>> \in Seq([chunk : Chunks, on : Backends])
        BY <4>1
      <4>3. retry' = <<[chunk |-> hand.chunk, on |-> hand.on]>> \o retry
        BY <1>5, <3>1 DEF ProbeRefused, PutBack
      <4>4. retry \in Seq([chunk : Chunks, on : Backends])
        BY DEF TypeOK
      <4> QED BY <4>2, <4>3, <4>4, ConcatProperties
    <3>2. CASE hand.kind # "retry"
      BY <1>5, <3>2 DEF ProbeRefused, PutBack, TypeOK
    <3> QED BY <3>1, <3>2
  <2>4. turn' \in 1 .. Len(Order) + 1
    BY <1>5, LenProperties DEF ProbeRefused
  <2>5. faults' \in 0 .. MaxFaults
    <3>1. faults \in 0 .. MaxFaults
      BY DEF TypeOK
    <3>2. faults' = faults \/ (faults < MaxFaults /\ faults' = faults + 1)
      BY <1>5 DEF ProbeRefused
    <3> QED BY <3>1, <3>2
  <2> QED BY <1>5, <2>2, <2>3, <2>4, <2>5 DEF ProbeRefused, TypeOK
<1> QED BY <1>1, <1>2, <1>3, <1>4, <1>5

\* The conversions that are left, and cancelling among them.
LEMMA CancelledKeeps ==
  ASSUME NEW s \in Seq(Runs), NEW c
  PROVE  /\ Cancelled(s, c) \in Seq(Runs)
         /\ DOMAIN Cancelled(s, c) = DOMAIN s
         /\ \A i \in DOMAIN s :
              /\ Cancelled(s, c)[i] \in {s[i], [s[i] EXCEPT !.end = "cancelled"]}
              /\ Cancelled(s, c)[i].chunk = s[i].chunk
              /\ Cancelled(s, c)[i].kind = s[i].kind
<1>1. Len(s) \in Nat /\ DOMAIN s = 1 .. Len(s) /\ \A i \in DOMAIN s : s[i] \in Runs
  BY LenProperties, ElementOfSeq
<1>2. DOMAIN Cancelled(s, c) = DOMAIN s
      /\ \A i \in DOMAIN s :
           Cancelled(s, c)[i] \in {s[i], [s[i] EXCEPT !.end = "cancelled"]}
  BY DEF Cancelled
<1>3. \A i \in DOMAIN s :
        /\ Cancelled(s, c)[i] \in Runs
        /\ Cancelled(s, c)[i].chunk = s[i].chunk
        /\ Cancelled(s, c)[i].kind = s[i].kind
  BY <1>1, <1>2 DEF Runs
<1>4. Cancelled(s, c) = [i \in 1 .. Len(s) |-> Cancelled(s, c)[i]]
  BY <1>1, <1>2 DEF Cancelled
<1>5. Cancelled(s, c) \in Seq(Runs)
  BY <1>1, <1>3, <1>4, IsASeq
<1> QED BY <1>2, <1>3, <1>5

LEMMA BlameTypes ==
  ASSUME TypeOK, NEW r \in Runs, BlameBackend(r)
  PROVE  backendFailures' \in [Backends -> Nat] /\ live' \in SUBSET Backends
BY DEF BlameBackend, TypeOK, Runs

LEMMA OneMore ==
  ASSUME NEW S, NEW f \in [S -> Nat], NEW c \in S
  PROVE  [f EXCEPT ![c] = @ + 1] \in [S -> Nat]
OBVIOUS

LEMMA CollectTypes ==
  ASSUME TypeOK, HandInv, NEW i \in DOMAIN running, Handle(i)
  PROVE  TypeOK' /\ HandInv'
<1> USE SplitAssumption DEF HandInv, Handling, envVars, callVars, workVars
<1>1. running[i] \in Runs /\ Popped(running, i) \in Seq(Runs)
  BY ElementsTyped, PoppedKeeps DEF TypeOK
<1>2. CASE DropLoser(i)
  BY <1>1, <1>2 DEF DropLoser, TypeOK
<1>3. CASE CollectResult(i)
  <2>1. running' \in Seq(Runs)
    BY <1>1, <1>3, CancelledKeeps DEF CollectResult
  <2>2. kept' \in SUBSET [chunk : Chunks, wanted : Builds, build : Builds]
    <3>1. running[i].chunk \in Chunks /\ running[i].build \in Builds
      BY <1>1 DEF Runs
    <3>2. [chunk |-> running[i].chunk, wanted |-> expected, build |-> running[i].build]
            \in [chunk : Chunks, wanted : Builds, build : Builds]
      BY <3>1 DEF TypeOK
    <3>3. kept' = kept \cup {[chunk |-> running[i].chunk, wanted |-> expected,
                              build |-> running[i].build]}
      BY <1>3 DEF CollectResult
    <3> QED BY <3>2, <3>3 DEF TypeOK
  <2> QED BY <1>3, <2>1, <2>2 DEF CollectResult, TypeOK
<1>4. ASSUME Failing(i)
      PROVE  /\ backendFailures' \in [Backends -> Nat]
             /\ live' \in SUBSET Backends
             /\ lastError' \in {"failed", "unavailable"}
             /\ ended' \in [Chunks -> Nat]
  <2>1. running[i].chunk \in Chunks
    BY <1>1 DEF Runs
  <2>2. ended' = [ended EXCEPT ![running[i].chunk] = @ + 1] /\ BlameBackend(running[i])
        /\ lastError' = IF running[i].end = "unavailable" THEN "unavailable" ELSE "failed"
    BY <1>4 DEF Failing
  <2>3. ended \in [Chunks -> Nat]
    BY DEF TypeOK
  <2>4. ended' \in [Chunks -> Nat]
    BY <2>1, <2>2, <2>3, OneMore
  <2> QED BY <1>1, <2>2, <2>4, BlameTypes
<1>5. CASE LeaveToOtherCopy(i)
  BY <1>1, <1>4, <1>5 DEF LeaveToOtherCopy, Failing, TypeOK
<1>6. CASE RetryChunk(i)
  <2>1. failures' \in [Chunks -> Nat]
    <3>1. running[i].chunk \in Chunks /\ failures \in [Chunks -> Nat]
      BY <1>1 DEF TypeOK, Runs
    <3>2. failures' = [failures EXCEPT ![running[i].chunk] = @ + 1]
      BY <1>6 DEF RetryChunk
    <3> QED BY <3>1, <3>2, OneMore
  <2>2. RetryEntry(running[i]) \in [chunk : Chunks, on : Backends]
    BY <1>1 DEF RetryEntry, Runs
  <2>3. retry' \in Seq([chunk : Chunks, on : Backends])
    BY <1>6, <2>2, AppendProperties DEF RetryChunk, TypeOK
  <2> QED BY <1>1, <1>4, <1>6, <2>1, <2>3 DEF RetryChunk, Failing, TypeOK
<1>7. CASE GiveUp(i)
  BY <1>1, <1>4, <1>7, EmptySeq DEF GiveUp, Failing, TypeOK
<1> QED BY <1>2, <1>3, <1>5, <1>6, <1>7 DEF Handle

LEMMA EnvironmentTypes ==
  ASSUME TypeOK, HandInv, Environment
  PROVE  TypeOK' /\ HandInv'
<1> USE SplitAssumption DEF TypeOK, HandInv, envVars, callVars, workVars, Awaiting
<1>1. CASE TimePasses
  BY <1>1 DEF TimePasses
<1>2. ASSUME NEW i \in DOMAIN running, RunEnds(i) PROVE TypeOK' /\ HandInv'
  <2> PICK e \in {"ok", "error", "refused"} : running' = [running EXCEPT ![i].end = e]
    BY <1>2 DEF RunEnds
  <2>1. [running[i] EXCEPT !.end = e] \in Runs
    <3>1. running[i] \in Runs
      BY ElementsTyped
    <3> QED BY <3>1 DEF Runs
  <2>2. running' = [running EXCEPT ![i] = [running[i] EXCEPT !.end = e]]
    OBVIOUS
  <2>3. running \in Seq(Runs) /\ i \in 1 .. Len(running)
    BY ElementsTyped
  <2>4. running' \in Seq(Runs)
    BY <2>1, <2>2, <2>3, ExceptSeq
  <2> QED BY <1>2, <2>4 DEF RunEnds
<1>3. ASSUME NEW b \in Backends, Outage(b) \/ Recovery(b) \/ Rollout(b)
      PROVE  TypeOK' /\ HandInv'
  <2>1. cond' \in [Backends -> {"well", "wedged", "gone"}]
    BY <1>3 DEF Outage, Recovery, Rollout
  <2>2. build' \in [Backends -> Builds]
    BY <1>3 DEF Outage, Recovery, Rollout
  <2>3. faults' \in 0 .. MaxFaults
    <3>1. faults' = faults \/ (faults < MaxFaults /\ faults' = faults + 1)
      BY <1>3 DEF Outage, Recovery, Rollout
    <3> QED BY <3>1
  <2>4. /\ clock' = clock /\ phase' = phase
        /\ UNCHANGED <<attempt, pinned, expected, turn, hand, batch, workVars, kept, ended>>
    BY <1>3 DEF Outage, Recovery, Rollout
  <2> QED BY <2>1, <2>2, <2>3, <2>4
<1> QED BY <1>1, <1>2, <1>3 DEF Environment

-----------------------------------------------------------------------------
(* What each step does to the conversions under way.                       *)

\* A conversion that was there before, with its end at most decided since.
Old(r) ==
  \E k \in DOMAIN running :
    Key(running[k]) = Key(r) /\ (r.end = "unavailable" => running[k].end = "unavailable")

LEMMA SameConversions ==
  ASSUME running' = running
  PROVE  \A j \in DOMAIN running' : Old(running'[j])
BY DEF Old

LEMMA HandledConversions ==
  ASSUME TypeOK, NEW i \in DOMAIN running, Handle(i)
  PROVE  \A j \in DOMAIN running' : Old(running'[j])
<1>1. /\ Popped(running, i) \in Seq(Runs)
      /\ \A j \in DOMAIN Popped(running, i) :
           \E k \in DOMAIN running \ {i} : Popped(running, i)[j] = running[k]
  BY PoppedKeeps, PoppedIsPart DEF TypeOK
<1>2. CASE running' = Popped(running, i)
  BY <1>1, <1>2 DEF Old
<1>3. CASE CollectResult(i)
  <2> DEFINE left == Popped(running, i)
             c == running[i].chunk
  <2>1. running' = Cancelled(left, c)
    BY <1>3 DEF CollectResult
  <2>2. ASSUME NEW j \in DOMAIN running' PROVE Old(running'[j])
    <3>1. /\ j \in DOMAIN left
          /\ running'[j] \in {left[j], [left[j] EXCEPT !.end = "cancelled"]}
          /\ running'[j].chunk = left[j].chunk
          /\ running'[j].kind = left[j].kind
      BY <1>1, <2>1, CancelledKeeps
    <3>2. left[j] \in Runs
      BY <1>1, <3>1, ElementOfSeq, LenProperties
    <3>3. running'[j].end = "unavailable" => left[j].end = "unavailable"
      BY <3>1, <3>2 DEF Runs
    <3> QED BY <1>1, <3>1, <3>3 DEF Old, Key
  <2> QED BY <2>2
<1>4. CASE GiveUp(i)
  BY <1>4 DEF GiveUp
<1> QED BY <1>2, <1>3, <1>4 DEF Handle, DropLoser, LeaveToOtherCopy, RetryChunk

\* A conversion that ends is the one it was.
LEMMA EndedConversions ==
  ASSUME TypeOK, NEW i \in DOMAIN running, RunEnds(i)
  PROVE  \A j \in DOMAIN running' : Old(running'[j])
<1> PICK e \in {"ok", "error", "refused"} : running' = [running EXCEPT ![i].end = e]
  BY DEF RunEnds
<1>1. \A j \in DOMAIN running : running[j] \in Runs
  BY ElementsTyped
<1>2. DOMAIN running' = DOMAIN running
      /\ \A j \in DOMAIN running :
           running'[j] = IF j = i THEN [running[i] EXCEPT !.end = e] ELSE running[j]
  OBVIOUS
<1>3. \A j \in DOMAIN running :
        /\ Key(running'[j]) = Key(running[j])
        /\ running'[j].end = "unavailable" => running[j].end = "unavailable"
  BY <1>1, <1>2 DEF Key, Runs
<1> QED BY <1>2, <1>3 DEF Old

LEMMA StartedConversions ==
  ASSUME TypeOK, NEW r \in Runs, running' = Append(running, r)
  PROVE  \A j \in DOMAIN running' : Old(running'[j]) \/ running'[j] = r
<1>1. running \in Seq(Runs)
  BY DEF TypeOK
<1>2. /\ Len(running) \in Nat /\ DOMAIN running = 1 .. Len(running)
      /\ DOMAIN running' = 1 .. Len(running) + 1
      /\ \A j \in 1 .. Len(running) : running'[j] = running[j]
      /\ running'[Len(running) + 1] = r
  BY <1>1, AppendProperties, LenProperties
<1>3. \A j \in 1 .. Len(running) + 1 : j \in 1 .. Len(running) \/ j = Len(running) + 1
  BY <1>2
<1> QED BY <1>2, <1>3 DEF Old

\* Only two actions begin a conversion: of the first queued chunk, or of the chunk in hand.
LEMMA Conversions ==
  ASSUME TypeOK, HandInv, [Next]_vars
  PROVE  \/ \A j \in DOMAIN running' : Old(running'[j])
         \/ DispatchNew /\ \A j \in DOMAIN running' :
              Old(running'[j]) \/ running'[j] = Started(Name, First(queue), "new")
         \/ ProbeAccepted /\ \A j \in DOMAIN running' :
              Old(running'[j]) \/ running'[j] = Started(Name, hand.chunk, hand.kind)
<1>1. CASE DispatchNew
  <2>1. Name \in Backends /\ First(queue) \in Chunks
    BY <1>1, NameIsBackend, NewIsQueued DEF DispatchNew, Serving, PicksNew, TypeOK
  <2>2. Started(Name, First(queue), "new") \in Runs
    BY <2>1, StartedIsRun DEF Kinds
  <2>3. running' = Append(running, Started(Name, First(queue), "new"))
    BY <1>1 DEF DispatchNew
  <2> QED BY <1>1, <2>2, <2>3, StartedConversions
<1>2. CASE ProbeAccepted
  <2>1. turn <= Len(Order) /\ hand.chunk \in Chunks /\ hand.kind \in Kinds
    BY <1>2, SplitAssumption, LenProperties DEF ProbeAccepted, HandInv, Kinds
  <2>2. Started(Name, hand.chunk, hand.kind) \in Runs
    BY <2>1, NameIsBackend, StartedIsRun
  <2>3. running' = Append(running, Started(Name, hand.chunk, hand.kind))
    BY <1>2 DEF ProbeAccepted
  <2> QED BY <1>2, <2>2, <2>3, StartedConversions
<1>3. CASE \E i \in DOMAIN running : Handle(i)
  BY <1>3, HandledConversions
<1>4. CASE \E i \in DOMAIN running : RunEnds(i)
  BY <1>4, EndedConversions
<1>5. CASE running' = <<>>
  BY <1>5
<1>6. CASE running' = running
  BY <1>6, SameConversions
<1>7. ASSUME Next PROVE \/ DispatchNew \/ ProbeAccepted
                        \/ \E i \in DOMAIN running : Handle(i)
                        \/ \E i \in DOMAIN running : RunEnds(i)
                        \/ running' = <<>> \/ running' = running
  <2> USE DEF workVars
  <2>1. CASE Split \/ NotSplit
    BY <2>1 DEF Split, NotSplit
  <2>2. CASE StartRound \/ MergeAll \/ Wake \/ Tick \/ GiveUpIdle \/ EndBatch \/ ProbeRefused
    BY <2>2 DEF StartRound, MergeAll, Wake, Tick, GiveUpIdle, EndBatch, ProbeRefused
  <2>3. CASE PickRetry \/ PickCopy \/ NextName \/ EndRound
    BY <2>3 DEF PickRetry, PickCopy, NextName, EndRound
  <2>4. CASE TimePasses \/ \E b \in Backends : Outage(b) \/ Recovery(b) \/ Rollout(b)
    BY <2>4 DEF TimePasses, Outage, Recovery, Rollout
  <2> QED BY <1>7, <2>1, <2>2, <2>3, <2>4 DEF Next, Scheduler, Dispatch, Environment
<1>8. CASE UNCHANGED vars
  BY <1>6, <1>8 DEF vars, workVars
<1> QED BY <1>1, <1>2, <1>3, <1>4, <1>5, <1>6, <1>7, <1>8

-----------------------------------------------------------------------------
(* The scheduler's invariant.                                              *)

SchedulerInv == TypeOK /\ HandInv /\ RoundInv /\ EndInv /\ WorkInv

LEMMA TypesStep ==
  ASSUME TypeOK, HandInv, [Next]_vars
  PROVE  TypeOK' /\ HandInv'
<1>1. CASE UNCHANGED vars
  BY <1>1 DEF vars, envVars, callVars, workVars, TypeOK, HandInv
<1> QED BY <1>1, RoundTypes, DispatchTypes, CollectTypes, EnvironmentTypes
        DEF Next, Scheduler, Dispatch

\* The steps that change what is collected, or what is expected.
LEMMA ResultsChange ==
  ASSUME [Next]_vars
  PROVE  \/ kept' = kept /\ expected' = expected /\ Results' = Results
         \/ Split \/ NotSplit
         \/ \E i \in DOMAIN running : CollectResult(i)
<1>1. ASSUME Next PROVE \/ kept' = kept /\ expected' = expected
                        \/ Split \/ NotSplit
                        \/ \E i \in DOMAIN running : CollectResult(i)
  <2> USE DEF callVars
  <2>1. CASE StartRound \/ MergeAll \/ Wake \/ Tick \/ GiveUpIdle \/ EndBatch \/ ProbeRefused
    BY <2>1 DEF StartRound, MergeAll, Wake, Tick, GiveUpIdle, EndBatch, ProbeRefused
  <2>2. CASE DispatchNew \/ PickRetry \/ PickCopy \/ ProbeAccepted \/ NextName \/ EndRound
    BY <2>2 DEF DispatchNew, PickRetry, PickCopy, ProbeAccepted, NextName, EndRound
  <2>3. ASSUME NEW i \in DOMAIN running,
               DropLoser(i) \/ LeaveToOtherCopy(i) \/ RetryChunk(i) \/ GiveUp(i)
        PROVE  kept' = kept /\ expected' = expected
    BY <2>3 DEF DropLoser, LeaveToOtherCopy, RetryChunk, GiveUp
  <2>4. CASE Environment
    BY <2>4 DEF Environment, TimePasses, RunEnds, Outage, Recovery, Rollout
  <2> QED BY <1>1, <2>1, <2>2, <2>3, <2>4 DEF Next, Scheduler, Dispatch, Handle
<1>2. ASSUME kept' = kept, expected' = expected PROVE Results' = Results
  BY <1>2 DEF Results, KeptUnder
<1> QED BY <1>1, <1>2 DEF vars, callVars

LEMMA CollectedGrow ==
  ASSUME NEW i \in DOMAIN running, CollectResult(i)
  PROVE  /\ Results' = Results \cup {running[i].chunk}
         /\ \A b \in Builds :
              KeptUnder(b)' = IF b = expected THEN KeptUnder(b) \cup {running[i].chunk}
                              ELSE KeptUnder(b)
<1>1. /\ expected' = expected
      /\ kept' = kept \cup {[chunk |-> running[i].chunk, wanted |-> expected,
                             build |-> running[i].build]}
  BY DEF CollectResult, callVars
<1>2. ASSUME NEW b
      PROVE  KeptUnder(b)' = IF b = expected THEN KeptUnder(b) \cup {running[i].chunk}
                             ELSE KeptUnder(b)
  <2>1. \A x : x \in KeptUnder(b) <=> \E k \in kept : k.wanted = b /\ k.chunk = x
    BY DEF KeptUnder
  <2>2. \A x : x \in KeptUnder(b)' <=> \E k \in kept' : k.wanted = b /\ k.chunk = x
    BY DEF KeptUnder
  <2> DEFINE new == [chunk |-> running[i].chunk, wanted |-> expected,
                     build |-> running[i].build]
  <2>3. new.chunk = running[i].chunk /\ new.wanted = expected
    OBVIOUS
  <2>4. kept' = kept \cup {new}
    BY <1>1
  <2> HIDE DEF new
  <2>5. \A x : x \in KeptUnder(b)' <=> x \in KeptUnder(b) \/ (new.wanted = b /\ new.chunk = x)
    BY <2>1, <2>2, <2>4
  <2> QED BY <2>3, <2>5
<1> QED BY <1>1, <1>2 DEF Results

LEMMA RoundStep ==
  ASSUME RoundInv, [Next]_vars
  PROVE  RoundInv'
<1> USE DEF RoundInv
<1>1. CASE Split \/ NotSplit
  BY <1>1 DEF Split, NotSplit
<1>2. ASSUME NEW i \in DOMAIN running, CollectResult(i) PROVE RoundInv'
  BY <1>2 DEF CollectResult, Handling
<1>3. CASE Results' = Results
  <2>1. CASE StartRound
    BY <1>3, <2>1 DEF StartRound
  <2>2. CASE UNCHANGED phase
    BY <1>3, <2>2
  <2>3. CASE MergeAll \/ Wake \/ Tick \/ GiveUpIdle \/ EndBatch \/ ProbeRefused
    BY <1>3, <2>3 DEF MergeAll, Wake, Tick, GiveUpIdle, EndBatch, ProbeRefused
  <2>4. CASE DispatchNew \/ PickRetry \/ PickCopy \/ ProbeAccepted \/ NextName \/ EndRound
    BY <1>3, <2>4 DEF DispatchNew, PickRetry, PickCopy, ProbeAccepted, NextName, EndRound,
                     Serving
  <2>5. ASSUME NEW i \in DOMAIN running, Handle(i) PROVE RoundInv'
    BY <1>3, <2>5 DEF Handle, DropLoser, CollectResult, LeaveToOtherCopy, RetryChunk, GiveUp,
                     Failing, Handling
  <2>6. CASE Environment
    BY <1>3, <2>6 DEF Environment, TimePasses, RunEnds, Outage, Recovery, Rollout
  <2> QED BY <1>1, <2>1, <2>2, <2>3, <2>4, <2>5, <2>6 DEF Next, Scheduler, Dispatch, vars
<1> QED BY <1>1, <1>2, <1>3, ResultsChange

LEMMA EndStep ==
  ASSUME TypeOK, HandInv, EndInv, [Next]_vars
  PROVE  EndInv'
<1>1. \A j \in DOMAIN running' : running'[j].end = "unavailable" => clock' # "early"
  <2>1. CASE Split
    BY <2>1 DEF Split
  <2>2. CASE ~Split
    <3>1. clock # "early" => clock' # "early"
      <4> USE DEF envVars
      <4>1. CASE UNCHANGED clock
        BY <4>1
      <4>2. CASE TimePasses
        BY <4>2 DEF TimePasses
      <4>3. ASSUME Next PROVE UNCHANGED clock \/ TimePasses \/ Split
        <5>1. CASE NotSplit \/ StartRound \/ MergeAll \/ Wake \/ Tick \/ GiveUpIdle \/ EndBatch
                   \/ ProbeRefused
          BY <5>1 DEF NotSplit, StartRound, MergeAll, Wake, Tick, GiveUpIdle, EndBatch,
                      ProbeRefused
        <5>2. CASE DispatchNew \/ PickRetry \/ PickCopy \/ ProbeAccepted \/ NextName \/ EndRound
          BY <5>2 DEF DispatchNew, PickRetry, PickCopy, ProbeAccepted, NextName, EndRound
        <5>3. ASSUME NEW i \in DOMAIN running, Handle(i) \/ RunEnds(i) PROVE UNCHANGED clock
          BY <5>3 DEF Handle, DropLoser, CollectResult, LeaveToOtherCopy, RetryChunk, GiveUp,
                      RunEnds
        <5>4. ASSUME NEW b \in Backends, Outage(b) \/ Recovery(b) \/ Rollout(b)
              PROVE  UNCHANGED clock
          BY <5>4 DEF Outage, Recovery, Rollout
        <5> QED BY <4>3, <5>1, <5>2, <5>3, <5>4 DEF Next, Scheduler, Dispatch, Environment
      <4> QED BY <2>2, <4>1, <4>2, <4>3 DEF vars
    <3>2. \A j \in DOMAIN running' : Old(running'[j]) =>
            (running'[j].end = "unavailable" => clock' # "early")
      BY <3>1 DEF Old, EndInv
    <3>3. \A n, c, k : Started(n, c, k).end = "unavailable" => clock # "early"
      BY DEF Started
    <3> QED BY <3>1, <3>2, <3>3, Conversions
  <2> QED BY <2>1, <2>2
<1>2. ASSUME NEW c \in Chunks PROVE failures'[c] <= ended'[c]
  <2>0. failures \in [Chunks -> Nat] /\ ended \in [Chunks -> Nat] /\ failures[c] <= ended[c]
    BY DEF TypeOK, EndInv
  <2>1. CASE Split
    BY <2>1 DEF Split
  <2>2. CASE UNCHANGED <<failures, ended>>
    BY <2>0, <2>2
  <2>3. ASSUME NEW i \in DOMAIN running, Failing(i), UNCHANGED failures
        PROVE  failures'[c] <= ended'[c]
    <3>1. ended' = [ended EXCEPT ![running[i].chunk] = @ + 1]
      BY <2>3 DEF Failing
    <3>2. ended[c] <= ended'[c] /\ ended'[c] \in Nat
      BY <2>0, <3>1
    <3> QED BY <2>0, <2>3, <3>2
  <2>4. ASSUME NEW i \in DOMAIN running, RetryChunk(i)
        PROVE  failures'[c] <= ended'[c]
    <3>1. /\ ended' = [ended EXCEPT ![running[i].chunk] = @ + 1]
          /\ failures' = [failures EXCEPT ![running[i].chunk] = @ + 1]
      BY <2>4 DEF RetryChunk, Failing
    <3> QED BY <2>0, <3>1
  <2>5. ASSUME Next
        PROVE  \/ Split \/ UNCHANGED <<failures, ended>>
               \/ \E i \in DOMAIN running : Failing(i) /\ UNCHANGED failures
               \/ \E i \in DOMAIN running : RetryChunk(i)
    <3> USE DEF workVars
    <3>1. CASE NotSplit \/ StartRound \/ MergeAll \/ Wake \/ Tick \/ GiveUpIdle \/ EndBatch
               \/ ProbeRefused
      BY <3>1 DEF NotSplit, StartRound, MergeAll, Wake, Tick, GiveUpIdle, EndBatch, ProbeRefused
    <3>2. CASE DispatchNew \/ PickRetry \/ PickCopy \/ ProbeAccepted \/ NextName \/ EndRound
      BY <3>2 DEF DispatchNew, PickRetry, PickCopy, ProbeAccepted, NextName, EndRound
    <3>3. ASSUME NEW i \in DOMAIN running, LeaveToOtherCopy(i) \/ GiveUp(i)
          PROVE  Failing(i) /\ UNCHANGED failures
      BY <3>3 DEF LeaveToOtherCopy, GiveUp
    <3>4. ASSUME NEW i \in DOMAIN running, DropLoser(i) \/ CollectResult(i) \/ RunEnds(i)
          PROVE  UNCHANGED <<failures, ended>>
      BY <3>4 DEF DropLoser, CollectResult, RunEnds
    <3>5. CASE TimePasses \/ \E b \in Backends : Outage(b) \/ Recovery(b) \/ Rollout(b)
      BY <3>5 DEF TimePasses, Outage, Recovery, Rollout
    <3> QED BY <2>5, <3>1, <3>2, <3>3, <3>4, <3>5
            DEF Next, Scheduler, Dispatch, Environment, Handle
  <2>6. CASE UNCHANGED vars
    BY <2>2, <2>6 DEF vars, workVars
  <2> QED BY <2>1, <2>2, <2>3, <2>4, <2>5, <2>6
<1> QED BY <1>1, <1>2 DEF EndInv

\* What stays true of the work when nothing but the environment moves.
LEMMA WorkShrinks ==
  ASSUME WorkInv, Converting, Results' = Results, RunningChunks' \subseteq RunningChunks,
         queue' = queue, retry' = retry,
         phase' = "probe" => phase = "probe" /\ hand' = hand
  PROVE  WorkInv'
BY DEF WorkInv, RetryChunks

LEMMA RunningShrinks ==
  ASSUME \A j \in DOMAIN running' : Old(running'[j])
  PROVE  RunningChunks' \subseteq RunningChunks
<1>1. ASSUME NEW j \in DOMAIN running' PROVE running'[j].chunk \in RunningChunks
  <2> PICK k \in DOMAIN running : Key(running[k]) = Key(running'[j])
    BY <1>1 DEF Old
  <2> QED BY DEF Key, RunningChunks
<1> QED BY <1>1 DEF RunningChunks

LEMMA RunningGrows ==
  ASSUME NEW r, \A j \in DOMAIN running' : Old(running'[j]) \/ running'[j] = r
  PROVE  RunningChunks' \subseteq RunningChunks \cup {r.chunk}
<1>1. ASSUME NEW j \in DOMAIN running' PROVE running'[j].chunk \in RunningChunks \cup {r.chunk}
  <2>1. CASE Old(running'[j])
    <3> PICK k \in DOMAIN running : Key(running[k]) = Key(running'[j])
      BY <2>1 DEF Old
    <3> QED BY DEF Key, RunningChunks
  <2>2. CASE running'[j] = r
    BY <2>2
  <2> QED BY <1>1, <2>1, <2>2
<1> QED BY <1>1 DEF RunningChunks

LEMMA WorkBegins ==
  ASSUME TypeOK, HandInv, WorkInv, Split \/ NotSplit
  PROVE  WorkInv'
<1>1. CASE NotSplit
  BY <1>1 DEF NotSplit, WorkInv, Converting
<1>2. CASE Split
  <2>1. /\ queue' = Chunks \ KeptUnder(expected') /\ retry' = <<>> /\ running' = <<>>
        /\ kept' = kept /\ phase' = "loop"
    BY <1>2 DEF Split, ToConvert
  <2>2. Results' = KeptUnder(expected')
    BY <2>1 DEF Results, KeptUnder
  <2>3. RetryChunks' = {} /\ RunningChunks' = {}
    BY <2>1 DEF RetryChunks, RunningChunks
  <2> QED BY <2>1, <2>2, <2>3 DEF WorkInv
<1> QED BY <1>1, <1>2

LEMMA WorkDispatched ==
  ASSUME TypeOK, HandInv, WorkInv,
         DispatchNew \/ PickRetry \/ PickCopy \/ ProbeAccepted \/ ProbeRefused
  PROVE  WorkInv'
<1>1. Converting /\ Converting' /\ Results' = Results
  BY DEF DispatchNew, PickRetry, PickCopy, ProbeAccepted, ProbeRefused, Serving, Converting,
         callVars, Results, KeptUnder
<1>2. /\ queue \cap (Results \cup RetryChunks \cup RunningChunks) = {}
      /\ RetryChunks \cap (Results \cup RunningChunks) = {}
      /\ \A i, j \in DOMAIN retry : i # j => retry[i].chunk # retry[j].chunk
      /\ phase = "probe" =>
           /\ hand.chunk \notin queue \cup Results \cup RetryChunks
           /\ hand.kind = "retry" => hand.chunk \notin RunningChunks
  BY <1>1 DEF WorkInv
<1>3. [Next]_vars
  BY DEF Next, Scheduler, Dispatch
<1>4. CASE DispatchNew
  <2> DEFINE c == First(queue)
  <2>1. c \in queue /\ queue' = queue \ {c} /\ retry' = retry /\ phase' = "dispatch"
    BY <1>4, NewIsQueued DEF DispatchNew, Serving, PicksNew
  <2>2. RunningChunks' \subseteq RunningChunks \cup {c}
    <3>1. \A j \in DOMAIN running' : Old(running'[j]) \/ running'[j] = Started(Name, c, "new")
      <4>1. Started(Name, c, "new") \in Runs
        BY <1>4, <2>1, NameIsBackend, StartedIsRun DEF DispatchNew, Serving, Kinds, TypeOK
      <4> QED BY <1>4, <4>1, StartedConversions DEF DispatchNew
    <3>2. Started(Name, c, "new").chunk = c
      BY DEF Started
    <3> QED BY <3>1, <3>2, RunningGrows
  <2>3. RetryChunks' = RetryChunks
    BY <2>1 DEF RetryChunks
  <2> HIDE DEF c
  <2> QED BY <1>1, <1>2, <2>1, <2>2, <2>3 DEF WorkInv
<1>5. CASE PickRetry
  <2> PICK i \in DOMAIN retry :
        /\ retry' = Popped(retry, i)
        /\ hand' = [chunk |-> retry[i].chunk, kind |-> "retry", on |-> retry[i].on]
    BY <1>5, RetryIsPicked
  <2>1. running' = running /\ queue' = queue /\ phase' = "probe"
    BY <1>5 DEF PickRetry
  <2>2. hand'.chunk = retry[i].chunk /\ retry[i].chunk \in RetryChunks
    BY DEF RetryChunks
  <2>3. /\ \A j \in DOMAIN retry' : \E k \in DOMAIN retry \ {i} : retry'[j] = retry[k]
        /\ \A j, k \in DOMAIN retry' :
             j # k => \E l, m \in DOMAIN retry \ {i} :
                        l # m /\ retry'[j] = retry[l] /\ retry'[k] = retry[m]
    <3>1. retry \in Seq([chunk : Chunks, on : Backends])
      BY DEF TypeOK
    <3> QED BY <3>1, PoppedIsPart
  <2>4. RetryChunks' \subseteq RetryChunks \ {retry[i].chunk}
    BY <1>2, <2>3 DEF RetryChunks
  <2>5. \A j, k \in DOMAIN retry' : j # k => retry'[j].chunk # retry'[k].chunk
    BY <1>2, <2>3
  <2>6. RunningChunks' = RunningChunks
    BY <2>1 DEF RunningChunks
  <2> QED BY <1>1, <1>2, <2>1, <2>2, <2>4, <2>5, <2>6 DEF WorkInv
<1>6. CASE PickCopy
  <2> PICK i \in DOMAIN running :
        /\ running[i].chunk \notin copied \cup Results
        /\ hand' = [chunk |-> running[i].chunk, kind |-> "copy", on |-> None]
    BY <1>6, CopyIsOfRunning
  <2>1. running' = running /\ queue' = queue /\ retry' = retry
    BY <1>6 DEF PickCopy
  <2>2. /\ hand'.chunk \in RunningChunks /\ hand'.chunk \notin Results
        /\ hand'.kind # "retry"
    BY DEF RunningChunks
  <2>3. RunningChunks' = RunningChunks /\ RetryChunks' = RetryChunks
    BY <2>1 DEF RunningChunks, RetryChunks
  <2> QED BY <1>1, <1>2, <2>1, <2>2, <2>3 DEF WorkInv
<1>7. CASE ProbeAccepted
  <2>1. /\ queue' = queue /\ retry' = retry /\ phase = "probe" /\ phase' = "dispatch"
        /\ running' = Append(running, Started(Name, hand.chunk, hand.kind))
    BY <1>7 DEF ProbeAccepted
  <2>2. RunningChunks' \subseteq RunningChunks \cup {hand.chunk}
    <3>1. turn <= Len(Order) /\ hand.chunk \in Chunks /\ hand.kind \in Kinds
      BY <2>1, SplitAssumption, LenProperties DEF HandInv, Kinds
    <3>2. Started(Name, hand.chunk, hand.kind) \in Runs
      BY <3>1, NameIsBackend, StartedIsRun
    <3>3. Started(Name, hand.chunk, hand.kind).chunk = hand.chunk
      BY DEF Started
    <3> QED BY <2>1, <3>2, <3>3, StartedConversions, RunningGrows
  <2>3. RetryChunks' = RetryChunks
    BY <2>1 DEF RetryChunks
  <2> QED BY <1>1, <1>2, <2>1, <2>2, <2>3 DEF WorkInv
<1>8. CASE ProbeRefused
  <2>1. running' = running /\ queue' = queue /\ phase = "probe" /\ phase' = "dispatch"
    BY <1>8 DEF ProbeRefused
  <2>2. RunningChunks' = RunningChunks
    BY <2>1 DEF RunningChunks
  <2>3. CASE hand.kind # "retry"
    <3>1. retry' = retry /\ RetryChunks' = RetryChunks
      BY <1>8, <2>3 DEF ProbeRefused, PutBack, RetryChunks
    <3> QED BY <1>1, <1>2, <2>1, <2>2, <3>1 DEF WorkInv
  <2>4. CASE hand.kind = "retry"
    <3> DEFINE e == [chunk |-> hand.chunk, on |-> hand.on]
    <3>1. retry' = <<e>> \o retry /\ e.chunk = hand.chunk
      BY <1>8, <2>4 DEF ProbeRefused, PutBack
    <3> HIDE DEF e
    <3>2. /\ Len(retry) \in Nat /\ DOMAIN retry = 1 .. Len(retry)
          /\ DOMAIN retry' = 1 .. Len(retry) + 1
          /\ retry'[1] = e
          /\ \A j \in 1 .. Len(retry) : retry'[j + 1] = retry[j]
      <4>1. retry \in Seq([chunk : Chunks, on : Backends])
        BY DEF TypeOK
      <4>2. retry' \in Seq([chunk : Chunks, on : Backends])
        BY <1>3, TypesStep DEF TypeOK
      <4> QED BY <3>1, <4>1, <4>2, LenProperties
    <3>3. \A j \in DOMAIN retry' :
            j = 1 \/ (j - 1 \in DOMAIN retry /\ retry'[j] = retry[j - 1])
      <4>1. ASSUME NEW j \in DOMAIN retry', j # 1
            PROVE  j - 1 \in DOMAIN retry /\ retry'[j] = retry[j - 1]
        <5>1. j - 1 \in 1 .. Len(retry) /\ (j - 1) + 1 = j
          BY <3>2, <4>1
        <5> QED BY <3>2, <5>1
      <4> QED BY <4>1
    <3>4. RetryChunks' \subseteq RetryChunks \cup {hand.chunk}
      BY <3>1, <3>2, <3>3 DEF RetryChunks
    <3>5. \A j, k \in DOMAIN retry' : j # k => retry'[j].chunk # retry'[k].chunk
      <4>1. \A j \in DOMAIN retry : retry[j].chunk # hand.chunk
        BY <1>2, <2>1 DEF RetryChunks
      <4>2. \A j, k \in DOMAIN retry' : j # k /\ j # 1 /\ k # 1 => j - 1 # k - 1
        BY <3>2
      <4> QED BY <1>2, <3>1, <3>2, <3>3, <4>1, <4>2
    <3> QED BY <1>1, <1>2, <2>1, <2>2, <2>4, <3>4, <3>5 DEF WorkInv
  <2> QED BY <2>3, <2>4
<1> QED BY <1>4, <1>5, <1>6, <1>7, <1>8

LEMMA WorkHandled ==
  ASSUME TypeOK, HandInv, WorkInv, NEW i \in DOMAIN running, Handle(i)
  PROVE  WorkInv'
<1>1. Converting /\ phase = "collect"
  BY DEF Handle, DropLoser, CollectResult, LeaveToOtherCopy, RetryChunk, GiveUp, Failing,
         Handling, Converting
<1>2. RunningChunks' \subseteq RunningChunks
  BY HandledConversions, RunningShrinks
<1>3. queue' = queue
  BY DEF Handle, DropLoser, CollectResult, LeaveToOtherCopy, RetryChunk, GiveUp
<1>4. running[i].chunk \in RunningChunks
  BY DEF RunningChunks
<1>5. CASE DropLoser(i) \/ LeaveToOtherCopy(i)
  <2>1. retry' = retry /\ phase' = phase /\ Results' = Results
    BY <1>5 DEF DropLoser, LeaveToOtherCopy, Results, KeptUnder, callVars
  <2> QED BY <1>1, <1>2, <1>3, <2>1, WorkShrinks
<1>6. CASE CollectResult(i)
  <2>1. retry' = retry /\ phase' = phase /\ RetryChunks' = RetryChunks
    BY <1>6 DEF CollectResult, RetryChunks
  <2>2. Results' = Results \cup {running[i].chunk}
    BY <1>6, CollectedGrow
  <2> QED BY <1>1, <1>2, <1>3, <1>4, <2>1, <2>2 DEF WorkInv
<1>7. CASE RetryChunk(i)
  <2> DEFINE c == running[i].chunk
  <2>1. /\ retry' = Append(retry, RetryEntry(running[i])) /\ phase' = phase
        /\ RetryEntry(running[i]).chunk = c
        /\ Results' = Results /\ c \notin Results
    BY <1>7 DEF RetryChunk, Failing, IsLoser, RetryEntry, Results, KeptUnder, callVars
  <2>2. c \notin RunningChunks'
    <3>1. \A k \in DOMAIN running \ {i} : running[k].chunk # c
      BY <1>7 DEF RetryChunk, OtherCopy, RunsOf
    <3>2. \A j \in DOMAIN running' : \E k \in DOMAIN running \ {i} : running'[j] = running[k]
      BY <1>7, PoppedIsPart DEF RetryChunk, TypeOK
    <3> QED BY <3>1, <3>2 DEF RunningChunks
  <2>3. /\ Len(retry) \in Nat /\ DOMAIN retry = 1 .. Len(retry)
        /\ DOMAIN retry' = 1 .. Len(retry) + 1
        /\ \A j \in 1 .. Len(retry) : retry'[j] = retry[j]
        /\ retry'[Len(retry) + 1] = RetryEntry(running[i])
    <3>1. RetryEntry(running[i]) \in [chunk : Chunks, on : Backends]
      BY ElementsTyped DEF RetryEntry, Runs
    <3>2. retry \in Seq([chunk : Chunks, on : Backends])
      BY DEF TypeOK
    <3> QED BY <2>1, <3>1, <3>2, AppendProperties, LenProperties
  <2>4. \A j \in DOMAIN retry' : j \in DOMAIN retry \/ j = Len(retry) + 1
    BY <2>3
  <2>5. RetryChunks' \subseteq RetryChunks \cup {c}
    BY <2>1, <2>3, <2>4 DEF RetryChunks
  <2>6. c \notin queue \cup RetryChunks
    BY <1>1, <1>4 DEF WorkInv
  <2>7. \A j, k \in DOMAIN retry' : j # k => retry'[j].chunk # retry'[k].chunk
    <3>1. \A j \in DOMAIN retry : retry[j].chunk # c
      BY <2>6 DEF RetryChunks
    <3> QED BY <1>1, <2>1, <2>3, <2>4, <3>1 DEF WorkInv
  <2> HIDE DEF c
  <2> QED BY <1>1, <1>2, <1>3, <2>1, <2>2, <2>5, <2>6, <2>7 DEF WorkInv
<1>8. CASE GiveUp(i)
  BY <1>8 DEF GiveUp, Failing, WorkInv, Converting
<1> QED BY <1>5, <1>6, <1>7, <1>8 DEF Handle

LEMMA WorkStep ==
  ASSUME TypeOK, HandInv, WorkInv, [Next]_vars
  PROVE  WorkInv'
<1> DEFINE Quiet ==
      /\ Results' = Results /\ queue' = queue /\ retry' = retry
      /\ RunningChunks' \subseteq RunningChunks
      /\ Converting' => Converting
      /\ phase' = "probe" => phase = "probe" /\ hand' = hand
<1>1. CASE Quiet
  <2>1. CASE Converting
    BY <1>1, <2>1, WorkShrinks
  <2>2. CASE ~Converting
    BY <1>1, <2>2 DEF WorkInv
  <2> QED BY <2>1, <2>2
<1>2. ASSUME running' = running PROVE RunningChunks' \subseteq RunningChunks
  BY <1>2 DEF RunningChunks
<1>3. ASSUME kept' = kept, expected' = expected PROVE Results' = Results
  BY <1>3 DEF Results, KeptUnder
<1>4. CASE StartRound \/ MergeAll \/ Wake \/ Tick \/ GiveUpIdle \/ EndBatch
  <2>1. CASE MergeAll \/ GiveUpIdle
    BY <2>1 DEF MergeAll, GiveUpIdle, WorkInv, Converting, TypeOK
  <2>2. CASE StartRound \/ Wake \/ Tick \/ EndBatch
    <3>1. Quiet
      BY <1>2, <1>3, <2>2 DEF StartRound, Wake, Tick, EndBatch, workVars, callVars, Converting
    <3> QED BY <1>1, <3>1
  <2> QED BY <1>4, <2>1, <2>2
<1>5. CASE NextName \/ EndRound
  <2>1. Quiet
    BY <1>2, <1>3, <1>5 DEF NextName, EndRound, workVars, callVars, Converting
  <2> QED BY <1>1, <2>1
<1>6. CASE Environment
  <2>1. CASE \E i \in DOMAIN running : RunEnds(i)
    <3> PICK i \in DOMAIN running : RunEnds(i)
      BY <2>1
    <3>1. RunningChunks' \subseteq RunningChunks
      BY EndedConversions, RunningShrinks
    <3>2. Quiet
      BY <1>3, <3>1 DEF RunEnds, callVars, Converting
    <3> QED BY <1>1, <3>2
  <2>2. CASE TimePasses \/ \E b \in Backends : Outage(b) \/ Recovery(b) \/ Rollout(b)
    <3>1. Quiet
      BY <1>2, <1>3, <2>2
         DEF TimePasses, Outage, Recovery, Rollout, workVars, callVars, Converting
    <3> QED BY <1>1, <3>1
  <2> QED BY <1>6, <2>1, <2>2 DEF Environment
<1>7. CASE UNCHANGED vars
  <2>1. Quiet
    BY <1>2, <1>3, <1>7 DEF vars, workVars, callVars, Converting
  <2> QED BY <1>1, <2>1
<1> QED BY <1>4, <1>5, <1>6, <1>7, WorkBegins, WorkDispatched, WorkHandled
        DEF Next, Scheduler, Dispatch

LEMMA SchedulerInvariance == RemoteSpec => []SchedulerInv
<1>1. Init => SchedulerInv
  <2> SUFFICES ASSUME Init PROVE RoundInv /\ EndInv /\ WorkInv
    BY SchedulerStarts DEF SchedulerInv
  <2> QED BY DEF Init, RoundInv, EndInv, WorkInv, Converting
<1>2. SchedulerInv /\ [Next]_vars => SchedulerInv'
  BY TypesStep, RoundStep, EndStep, WorkStep DEF SchedulerInv
<1>3. RemoteInit => Init
  BY DEF RemoteInit
<1>4. [RemoteNext]_remoteVars => [Next]_vars
  BY DEF RemoteNext, AtGate, PastGate, remoteVars
<1> QED BY <1>1, <1>2, <1>3, <1>4, PTL DEF RemoteSpec

\* Every variable of the gate and of the scheduler keeps its type.
THEOREM TypesHold == RemoteSpec => []RemoteTypeOK
<1>1. TypeOKGate /\ GateInv /\ SchedulerInv => RemoteTypeOK
  BY DEF RemoteTypeOK, SchedulerInv
<1> QED BY <1>1, GateInvariance, SchedulerInvariance, PTL

-----------------------------------------------------------------------------
(* What no step of the scheduler does.                                     *)

\* A conversion that was not there before is of a chunk that is not collected.
LEMMA OnlyMissingIsSent ==
  ASSUME SchedulerInv, Converting, [Next]_vars, NEW j \in DOMAIN running',
         running'[j].chunk \in Results
  PROVE  Old(running'[j])
<1> USE DEF SchedulerInv
<1>1. ASSUME DispatchNew, running'[j] = Started(Name, First(queue), "new") PROVE FALSE
  <2>1. First(queue) \in queue
    BY <1>1, NewIsQueued DEF DispatchNew, PicksNew
  <2> QED BY <1>1, <2>1 DEF WorkInv, Started
<1>2. ASSUME ProbeAccepted, running'[j] = Started(Name, hand.chunk, hand.kind) PROVE FALSE
  BY <1>2 DEF ProbeAccepted, WorkInv, Started
<1> QED BY <1>1, <1>2, Conversions

\* A chunk collected under the expected build is never sent out again, in this attempt or
\* a later one of the child, whatever fails, times out or is copied (split_convert).
THEOREM WorkIsDoneOnce == RemoteSpec => NoWorkRepeated
<1> DEFINE Sent == \A c \in Chunks : c \in Results /\ Converting
                     => \A i \in DOMAIN running' :
                          running'[i].chunk = c
                            => \E j \in DOMAIN running : Key(running[j]) = Key(running'[i])
<1>1. SchedulerInv /\ [Next]_vars => Sent
  BY OnlyMissingIsSent DEF Old
<1>2. [RemoteNext]_remoteVars => [Next]_vars
  BY DEF RemoteNext, AtGate, PastGate, remoteVars
<1>3. SchedulerInv /\ [RemoteNext]_remoteVars => [Sent]_vars
  BY <1>1, <1>2
<1> HIDE DEF Sent
<1>4. RemoteSpec => [][Sent]_vars
  BY <1>3, SchedulerInvariance, PTL DEF RemoteSpec
<1> QED BY <1>4 DEF NoWorkRepeated, Sent

\* How an attempt fails: the last conversion of a missing chunk has failed, or nothing
\* runs and nothing can.
LEMMA FailingSteps ==
  ASSUME SchedulerInv, Converting, Next, phase' \in {"failed", "unavailable"}
  PROVE  GiveUpIdle \/ \E i \in DOMAIN running : GiveUp(i)
<1> USE DEF SchedulerInv, Converting
<1>1. CASE Split \/ NotSplit
  BY <1>1 DEF Split, NotSplit
<1>2. CASE StartRound \/ MergeAll \/ Wake \/ Tick \/ EndBatch \/ ProbeRefused
  BY <1>2 DEF StartRound, MergeAll, Wake, Tick, EndBatch, ProbeRefused
<1>3. CASE Dispatch
  BY <1>3 DEF Dispatch, DispatchNew, PickRetry, PickCopy, ProbeAccepted, NextName, EndRound,
              Serving
<1>4. ASSUME NEW i \in DOMAIN running,
             DropLoser(i) \/ CollectResult(i) \/ LeaveToOtherCopy(i) \/ RetryChunk(i)
      PROVE  FALSE
  BY <1>4 DEF DropLoser, CollectResult, LeaveToOtherCopy, RetryChunk
<1>5. CASE Environment
  BY <1>5 DEF Environment, TimePasses, RunEnds, Outage, Recovery, Rollout
<1> QED BY <1>1, <1>2, <1>3, <1>4, <1>5 DEF Next, Scheduler, Handle

LEMMA GivesUpForCause ==
  ASSUME SchedulerInv, NEW i \in DOMAIN running, GiveUp(i)
  PROVE  \/ clock # "early"
         \/ \E c \in Chunks \ Results :
              ended'[c] >= MaxChunkFailures /\ Cardinality(RunsOf(c)) <= 1
<1> DEFINE c == running[i].chunk
<1>1. CASE running[i].end = "unavailable"
  BY <1>1 DEF SchedulerInv, EndInv
<1>2. CASE running[i].end # "unavailable"
  <2>1. c \in Chunks /\ c \notin Results
    BY ElementsTyped DEF SchedulerInv, GiveUp, Failing, IsLoser, Runs
  <2>2. RunsOf(c) = {i}
    BY DEF GiveUp, OtherCopy
  <2>3. Cardinality(RunsOf(c)) <= 1
    BY <2>2, FS_Singleton
  <2>4. failures[c] + 1 >= MaxChunkFailures
    BY <1>2 DEF GiveUp
  <2>5. ended' = [ended EXCEPT ![c] = @ + 1]
    BY DEF GiveUp, Failing
  <2>6. /\ failures \in [Chunks -> Nat] /\ ended \in [Chunks -> Nat]
        /\ \A d \in Chunks : failures[d] <= ended[d]
    BY DEF SchedulerInv, TypeOK, EndInv
  <2>7. ended'[c] = ended[c] + 1
    BY <2>1, <2>5, <2>6
  <2> HIDE DEF c
  <2>8. ended'[c] >= MaxChunkFailures
    BY <2>1, <2>4, <2>6, <2>7, SplitAssumption
  <2> QED BY <2>1, <2>3, <2>8
<1> QED BY <1>1, <1>2

\* An attempt fails only when its time is short, no backend is left, or a chunk failed
\* often enough with no other copy under way: a loser never fails the document.
THEOREM FailureEarned == RemoteSpec => FailureIsEarned
<1> DEFINE Earned ==
      Converting /\ phase' \in {"failed", "unavailable"}
        => \/ clock # "early"
           \/ live' = {}
           \/ \E c \in Chunks \ Results :
                ended'[c] >= MaxChunkFailures /\ Cardinality(RunsOf(c)) <= 1
<1>1. ASSUME SchedulerInv, GiveUpIdle PROVE Earned
  BY <1>1 DEF GiveUpIdle, NothingCanRun, workVars
<1>2. SchedulerInv /\ Next => Earned
  BY <1>1, FailingSteps, GivesUpForCause
<1>3. SchedulerInv /\ [RemoteNext]_remoteVars => [Earned]_vars
  BY <1>2 DEF RemoteNext, AtGate, PastGate, remoteVars
<1> HIDE DEF Earned
<1>4. RemoteSpec => [][Earned]_vars
  BY <1>3, SchedulerInvariance, PTL DEF RemoteSpec
<1> QED BY <1>4 DEF FailureIsEarned, Earned

-----------------------------------------------------------------------------
(* The scheduler implements the collection of chunks.                      *)

\* What the abstract specification sees of a step that collects nothing.
LEMMA CollectedSame ==
  ASSUME kept' = kept
  PROVE  [b \in Builds |-> KeptUnder(b)]' = [b \in Builds |-> KeptUnder(b)]
BY DEF KeptUnder

LEMMA OutcomeOf ==
  /\ phase = "idle" => Outcome = "none"
  /\ Converting => Outcome = "open"
  /\ phase \in {"merged", "failed", "unavailable", "elsewhere"} => Outcome = phase
BY DEF Outcome, Converting

LEMMA CollectionStarts == Init => Collection!Init
<1> SUFFICES ASSUME Init PROVE Collection!Init
  OBVIOUS
<1>1. [b \in Builds |-> KeptUnder(b)] = [b \in Builds |-> {}]
  BY DEF Init, KeptUnder
<1>2. Outcome = "none" /\ expected \in Builds
  BY OutcomeOf DEF Init
<1> QED BY <1>1, <1>2 DEF Collection!Init

\* A call begins, or another path takes the document: Start.
LEMMA CallStarts ==
  ASSUME TypeOK, Split \/ NotSplit
  PROVE  Collection!Start
<1>1. Outcome \in {"none", "failed", "elsewhere"}
  BY OutcomeOf DEF Split, NotSplit, MayCall
<1>2. expected' \in Builds
  BY DEF TypeOK, Split, NotSplit
<1>3. phase' \in {"loop", "elsewhere"} /\ kept' = kept
  BY DEF Split, NotSplit
<1>4. Outcome' \in {"open", "elsewhere"}
  BY <1>3 DEF Outcome, Converting
<1> QED BY <1>1, <1>2, <1>3, <1>4, CollectedSame DEF Collection!Start

\* A result that is handled: Collect.
LEMMA ResultIsCollected ==
  ASSUME TypeOK, NEW i \in DOMAIN running, CollectResult(i)
  PROVE  Collection!Collect
<1> DEFINE c == running[i].chunk
           all == [b \in Builds |-> KeptUnder(b)]
<1>1. c \in Chunks /\ expected \in Builds
  BY ElementsTyped DEF TypeOK, Runs
<1>2. c \notin KeptUnder(expected)
  BY DEF CollectResult, IsLoser, Results
<1>3. all' = [all EXCEPT ![expected] = @ \cup {c}]
  BY <1>1, CollectedGrow
<1>4. phase = "collect" /\ phase' = phase /\ expected' = expected
  BY DEF CollectResult, Handling, callVars
<1>5. Outcome = "open" /\ Outcome' = "open"
  BY <1>4 DEF Outcome, Converting
<1> QED BY <1>1, <1>2, <1>3, <1>4, <1>5 DEF Collection!Collect

\* The document is merged when every chunk is there: Merge.
LEMMA MergeIsMerge ==
  ASSUME TypeOK, MergeAll
  PROVE  Collection!Merge
<1>1. /\ phase = "loop" /\ phase' = "merged" /\ kept' = kept /\ expected' = expected
      /\ KeptUnder(expected) = Chunks
  BY DEF MergeAll, callVars, Results
<1>2. Outcome = "open" /\ Outcome' = "merged"
  BY <1>1 DEF Outcome, Converting
<1>3. expected \in Builds
  BY DEF TypeOK
<1> QED BY <1>1, <1>2, <1>3, CollectedSame DEF Collection!Merge

\* Every other end of an attempt leaves a chunk missing: Fail.
LEMMA FailureIsFail ==
  ASSUME SchedulerInv, GiveUpIdle \/ \E i \in DOMAIN running : GiveUp(i)
  PROVE  Collection!Fail
<1> USE DEF SchedulerInv
<1>1. KeptUnder(expected) # Chunks /\ phase \in {"wait", "collect"}
  <2>1. CASE GiveUpIdle
    BY <2>1 DEF GiveUpIdle, RoundInv, Results
  <2>2. ASSUME NEW i \in DOMAIN running, GiveUp(i)
        PROVE  KeptUnder(expected) # Chunks /\ phase \in {"wait", "collect"}
    <3>1. running[i].chunk \in Chunks
      BY ElementsTyped DEF Runs
    <3> QED BY <2>2, <3>1 DEF GiveUp, Failing, Handling, IsLoser, Results
  <2> QED BY <2>1, <2>2
<1>2. kept' = kept /\ expected' = expected /\ phase' \in {"failed", "unavailable"}
  BY DEF GiveUpIdle, GiveUp, Failing, callVars, TypeOK
<1>3. Outcome = "open" /\ Outcome' \in {"failed", "unavailable"}
  BY <1>1, <1>2 DEF Outcome, Converting
<1>4. expected \in Builds
  BY DEF TypeOK
<1> QED BY <1>1, <1>2, <1>3, <1>4, CollectedSame DEF Collection!Fail

\* Every other step: the abstract specification stutters.
LEMMA OtherStepsStutter ==
  ASSUME TypeOK, Scheduler \/ Environment,
         ~(MergeAll \/ GiveUpIdle),
         \A i \in DOMAIN running : ~CollectResult(i) /\ ~GiveUp(i)
  PROVE  UNCHANGED Collection!cvars
<1>1. kept' = kept /\ expected' = expected /\ Outcome' = Outcome
  <2> USE DEF callVars, Outcome, Converting
  <2>1. CASE StartRound \/ Wake \/ Tick \/ EndBatch \/ ProbeRefused
    BY <2>1 DEF StartRound, Wake, Tick, EndBatch, ProbeRefused
  <2>2. CASE Dispatch
    BY <2>2 DEF Dispatch, DispatchNew, PickRetry, PickCopy, ProbeAccepted, NextName, EndRound,
                Serving
  <2>3. ASSUME NEW i \in DOMAIN running, DropLoser(i) \/ LeaveToOtherCopy(i) \/ RetryChunk(i)
        PROVE  kept' = kept /\ expected' = expected /\ Outcome' = Outcome
    BY <2>3 DEF DropLoser, LeaveToOtherCopy, RetryChunk
  <2>4. CASE Environment
    BY <2>4 DEF Environment, TimePasses, RunEnds, Outage, Recovery, Rollout
  <2> QED BY <2>1, <2>2, <2>3, <2>4 DEF Scheduler, Handle
<1> QED BY <1>1, CollectedSame DEF Collection!cvars

\* Every step of the scheduler is a step of the collection of chunks, or none: the safety
\* part of implementing it.
THEOREM CollectionImplemented == RemoteSpec => Collection!Spec
<1>1. RemoteInit => Collection!Init
  BY CollectionStarts DEF RemoteInit
<1>2. SchedulerInv /\ Next => [Collection!Next]_Collection!cvars
  <2> SUFFICES ASSUME SchedulerInv, Next PROVE [Collection!Next]_Collection!cvars
    OBVIOUS
  <2>1. TypeOK
    BY DEF SchedulerInv
  <2>2. CASE Split \/ NotSplit
    BY <2>1, <2>2, CallStarts DEF Collection!Next
  <2>3. CASE MergeAll
    BY <2>1, <2>3, MergeIsMerge DEF Collection!Next, Collection!Work
  <2>4. CASE GiveUpIdle \/ \E i \in DOMAIN running : GiveUp(i)
    BY <2>4, FailureIsFail DEF Collection!Next, Collection!Work
  <2>5. CASE \E i \in DOMAIN running : CollectResult(i)
    BY <2>1, <2>5, ResultIsCollected DEF Collection!Next, Collection!Work
  <2> QED BY <2>1, <2>2, <2>3, <2>4, <2>5, OtherStepsStutter DEF Next
<1>3. SchedulerInv /\ [RemoteNext]_remoteVars => [Collection!Next]_Collection!cvars
  <2>1. CASE UNCHANGED vars
    BY <2>1, CollectedSame
       DEF vars, callVars, Collection!cvars, Outcome, Converting
  <2> QED BY <1>2, <2>1 DEF RemoteNext, AtGate, PastGate, remoteVars
<1> QED BY <1>1, <1>3, SchedulerInvariance, PTL DEF RemoteSpec, Collection!Spec
=============================================================================
