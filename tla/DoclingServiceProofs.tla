------------------------ MODULE DoclingServiceProofs ------------------------
(***************************************************************************)
(* Theorems of DoclingService, for any requests, slots and hanging threads. *)
(***************************************************************************)
EXTENDS DoclingService, FiniteSetTheorems, SequenceTheorems, TLAPS

-----------------------------------------------------------------------------
(* Queues.                                                                 *)

\* q is a queue of members of W, each at most once.
Line(q, W) ==
  /\ q \in Seq(W)
  /\ \A i, j \in 1 .. Len(q) : q[i] = q[j] => i = j

LEMMA EmptyLine == ASSUME NEW W PROVE Line(<<>>, W)
  BY DEF Line

LEMMA LineIn ==
  ASSUME NEW V, NEW W, NEW q, Line(q, W), W \subseteq V
  PROVE  Line(q, V)
  BY SeqMonotonic DEF Line

LEMMA LineAppend ==
  ASSUME NEW W, NEW V, NEW q, NEW r, Line(q, W), r \notin W, W \subseteq V, r \in V
  PROVE  Line(Append(q, r), V)
<1>1. q \in Seq(V) /\ \A i \in 1 .. Len(q) : q[i] # r
  BY SeqMonotonic, LenProperties DEF Line
<1>2. Append(q, r) \in Seq(V) /\ Len(Append(q, r)) = Len(q) + 1
      /\ (\A i \in 1 .. Len(q) : Append(q, r)[i] = q[i]) /\ Append(q, r)[Len(q) + 1] = r
  BY <1>1, AppendProperties
<1>3. Len(q) \in Nat
  BY <1>1, LenProperties
<1> QED BY <1>1, <1>2, <1>3 DEF Line

LEMMA LineTail ==
  ASSUME NEW W, NEW q, Line(q, W), q # <<>>
  PROVE  /\ Head(q) \in W
         /\ Line(Tail(q), W \ {Head(q)})
<1>1. q \in Seq(W) /\ Len(q) \in Nat /\ Len(q) # 0
  BY EmptySeq, LenProperties DEF Line
<1>2. /\ Head(q) = q[1] /\ Head(q) \in W /\ Tail(q) \in Seq(W) /\ Len(Tail(q)) = Len(q) - 1
      /\ \A i \in 1 .. Len(q) - 1 : Tail(q)[i] = q[i + 1]
  BY <1>1, HeadTailProperties
<1>3. \A i \in 1 .. Len(Tail(q)) : Tail(q)[i] \in W \ {Head(q)}
  <2> SUFFICES ASSUME NEW i \in 1 .. Len(Tail(q)) PROVE Tail(q)[i] \in W \ {Head(q)}
    OBVIOUS
  <2>1. Tail(q)[i] = q[i + 1] /\ i + 1 \in 1 .. Len(q) /\ 1 \in 1 .. Len(q) /\ i + 1 # 1
    BY <1>1, <1>2
  <2>2. q[i + 1] # q[1]
    BY <2>1 DEF Line
  <2> QED BY <1>2, <2>1, <2>2, LenProperties
<1>4. Tail(q) \in Seq(W \ {Head(q)})
  <2> DEFINE t == Tail(q)
  <2>1. t \in [1 .. Len(t) -> W] /\ Len(t) \in Nat
    BY <1>2, LenProperties
  <2>2. \A i \in 1 .. Len(t) : t[i] \in W \ {Head(q)}
    BY <1>3
  <2> HIDE DEF t
  <2>3. t \in [1 .. Len(t) -> W \ {Head(q)}]
    BY <2>1, <2>2
  <2>4. t \in Seq(W \ {Head(q)})
    BY <2>1, <2>3, SeqDef
  <2> QED BY <2>4 DEF t
<1>5. ASSUME NEW i \in 1 .. Len(Tail(q)), NEW j \in 1 .. Len(Tail(q)), Tail(q)[i] = Tail(q)[j]
      PROVE  i = j
  <2>1. i + 1 \in 1 .. Len(q) /\ j + 1 \in 1 .. Len(q) /\ q[i + 1] = q[j + 1]
    BY <1>1, <1>2, <1>5
  <2>2. i + 1 = j + 1
    BY <2>1 DEF Line
  <2> QED BY <1>1, <1>2, <2>2
<1> QED BY <1>2, <1>4, <1>5 DEF Line

LEMMA LineTurn ==
  ASSUME NEW W, NEW q, Line(q, W), q # <<>>
  PROVE  Line(Append(Tail(q), Head(q)), W)
<1>1. Head(q) \in W /\ Line(Tail(q), W \ {Head(q)})
  BY LineTail
<1>2. Head(q) \notin W \ {Head(q)} /\ W \ {Head(q)} \subseteq W
  OBVIOUS
<1> QED BY <1>1, <1>2, LineAppend

LEMMA LineLeave ==
  ASSUME NEW W, NEW q, NEW r, Line(q, W)
  PROVE  Line(Leave(q, r), W \ {r})
<1> DEFINE at == {i \in 1 .. Len(q) : q[i] = r}
           m == CHOOSE i \in at : TRUE
           n == Len(q)
<1>1. q \in Seq(W) /\ n \in Nat /\ q \in [1 .. n -> W] /\ \A i, j \in 1 .. n : q[i] = q[j] => i = j
  BY LenProperties DEF Line
<1>2. CASE at = {}
  <2>1. \A i \in 1 .. n : q[i] \in W \ {r}
    BY <1>1, <1>2
  <2>2. q \in [1 .. n -> W \ {r}]
    BY <1>1, <2>1
  <2>3. q \in Seq(W \ {r})
    BY <1>1, <2>2, SeqDef
  <2>4. Leave(q, r) = q
    BY <1>2 DEF Leave
  <2> QED BY <1>1, <2>3, <2>4 DEF Line
<1>3. CASE at # {}
  <2> HIDE DEF m
  <2>1. m \in 1 .. n /\ q[m] = r
    <3>1. m \in at
      BY <1>3 DEF m
    <3> QED BY <3>1
  <2>2. \A i \in 1 .. n : i # m => q[i] \in W \ {r}
    BY <1>1, <2>1
  <2> DEFINE a == SubSeq(q, 1, m - 1)
             b == SubSeq(q, m + 1, n)
  <2>3. /\ a \in Seq(W \ {r}) /\ Len(a) = m - 1 /\ \A i \in 1 .. m - 1 : a[i] = q[i]
    <3>1. \A i \in 1 .. m - 1 : q[i] \in W \ {r}
      BY <1>1, <2>1, <2>2
    <3>2. /\ a \in Seq(W \ {r})
          /\ Len(a) = IF 1 <= m - 1 THEN m - 1 - 1 + 1 ELSE 0
          /\ \A i \in 1 .. m - 1 - 1 + 1 : a[i] = q[1 + i - 1]
      BY <1>1, <2>1, <3>1, SubSeqProperties
    <3> HIDE DEF a
    <3> QED BY <1>1, <2>1, <3>2
  <2>4. /\ b \in Seq(W \ {r}) /\ Len(b) = n - m /\ \A i \in 1 .. n - m : b[i] = q[m + i]
    <3>1. \A i \in m + 1 .. n : q[i] \in W \ {r}
      BY <1>1, <2>1, <2>2
    <3>2. /\ b \in Seq(W \ {r})
          /\ Len(b) = IF m + 1 <= n THEN n - (m + 1) + 1 ELSE 0
          /\ \A i \in 1 .. n - (m + 1) + 1 : b[i] = q[(m + 1) + i - 1]
      BY <1>1, <2>1, <3>1, SubSeqProperties
    <3> HIDE DEF b
    <3>3. Len(b) = n - m
      <4> HIDE DEF n
      <4>1. m \in Int /\ n \in Int /\ m <= n
        BY <1>1, <2>1
      <4>2. CASE m + 1 <= n
        BY <3>2, <4>1, <4>2
      <4>3. CASE ~(m + 1 <= n)
        BY <3>2, <4>1, <4>3
      <4> QED BY <4>2, <4>3
    <3>4. ASSUME NEW i \in 1 .. n - m PROVE b[i] = q[m + i]
      <4>1. (m + 1) + i - 1 = m + i /\ i \in 1 .. n - (m + 1) + 1
        BY <1>1, <2>1
      <4> QED BY <3>2, <4>1
    <3> QED BY <3>2, <3>3, <3>4
  <2>5. Leave(q, r) = a \o b
    <3>1. Leave(q, r) = SubSeq(q, 1, (CHOOSE i \in at : TRUE) - 1) \o SubSeq(q, (CHOOSE i \in at : TRUE) + 1, n)
      BY <1>3, Zenon DEF Leave
    <3> QED BY <3>1, Zenon DEF m
  <2> HIDE DEF a, b
  <2>6. /\ a \o b \in Seq(W \ {r}) /\ Len(a \o b) = n - 1
        /\ \A i \in 1 .. n - 1 : (a \o b)[i] = IF i <= m - 1 THEN q[i] ELSE q[i + 1]
    <3>1. a \o b \in Seq(W \ {r}) /\ Len(a \o b) = Len(a) + Len(b)
      BY <2>3, <2>4, ConcatProperties
    <3>2. \A i \in 1 .. Len(a) + Len(b) : (a \o b)[i] = IF i <= Len(a) THEN a[i] ELSE b[i - Len(a)]
      BY <2>3, <2>4, ConcatProperties
    <3> QED BY <1>1, <2>1, <2>3, <2>4, <3>1, <3>2
  <2>7. \A i, j \in 1 .. n - 1 : (a \o b)[i] = (a \o b)[j] => i = j
    <3> SUFFICES ASSUME NEW i \in 1 .. n - 1, NEW j \in 1 .. n - 1, (a \o b)[i] = (a \o b)[j]
                 PROVE  i = j
      OBVIOUS
    <3> DEFINE from(k) == IF k <= m - 1 THEN k ELSE k + 1
    <3>1. from(i) \in 1 .. n /\ from(j) \in 1 .. n /\ q[from(i)] = q[from(j)]
      BY <1>1, <2>1, <2>6
    <3>2. from(i) = from(j)
      BY <1>1, <3>1
    <3> QED BY <1>1, <2>1, <3>2
  <2> QED BY <2>5, <2>6, <2>7 DEF Line
<1> QED BY <1>2, <1>3

-----------------------------------------------------------------------------
(* The invariant.                                                          *)

Requested == {"queued", "reap", "convert", "stopping"}

\* Everything but the counters.
Shape ==
  /\ pc \in [Requests -> {"idle", "fetch", "wait", "refused", "download", "queued", "reap",
                          "convert", "stopping", "cut", "done"}]
  /\ acq \in [Requests -> {"none", "slice", "lock", "group", "convert", "in"}]
  /\ slotAt \in [Requests -> BOOLEAN]
  /\ event \in [Requests -> BOOLEAN]
  /\ overdue \in [Requests -> BOOLEAN]
  /\ thread \in [Requests -> {"none", "running", "hung", "stopped"}]
  /\ lock \in Slices \cup {None}
  /\ pdf \in {"absent", "fetching", "ready"}
  /\ users \in SUBSET Slices
  /\ file \in BOOLEAN
  /\ wedge \in {"clean", "suspect", "unhealthy"}
  /\ hangs \in 0 .. MaxHangs

\* A request acquires from the end of its download to its return, and has acquired when
\* it is past admission; the thread of a PDF runs only then, or after its request was cut
\* off, which leaves it nothing it waits for.
Path ==
  \A r \in Requests :
    /\ pc[r] # "cut" => (acq[r] = "none" <=> pc[r] \notin Requested)
    /\ pc[r] = "cut" => acq[r] \in {"none", "in"}
    /\ pc[r] \in {"reap", "convert", "stopping"} => acq[r] = "in"
    /\ acq[r] \in {"slice", "lock", "group"} => r \in Slices
    /\ acq[r] = "convert" => r \notin Slices
    /\ thread[r] # "none" /\ r \notin Images => pc[r] \in {"convert", "stopping", "cut"}

\* Each queue holds requests that are at its place of the acquire.
At(places) == {r \in Requests : acq[r] \in places}
Queues ==
  /\ Line(convertQ, At({"convert", "group"}))
  /\ Line(sliceQ, At({"slice"}))
  /\ Line(lockQ, At({"lock"}))

\* The counters count what the acquires hold; a group is formed by one slice, and no
\* slice is in meanwhile.
SlicesIn == {r \in Requests : acq[r] = "in"} \cap Slices
OthersIn == {r \in Requests : acq[r] = "in"} \ SlicesIn
Climbing == {r \in Slices : acq[r] \in {"lock", "group"}}
ImagesIn == {r \in Images : acq[r] = "in"}
Counted ==
  /\ active = Cardinality(SlicesIn)
  /\ sliceHeld = active + Cardinality(Climbing)
  /\ held = Cardinality(OthersIn) + grouped + IF SlicesIn # {} THEN MaxConcurrent ELSE 0
  /\ imageActive = Cardinality(ImagesIn)
Bounded ==
  /\ grouped \in 0 .. MaxConcurrent - 1
  /\ taken \in {0, grouped}
  /\ held <= MaxConcurrent
  /\ sliceHeld <= SliceSlots
Grouping ==
  /\ lock = None => grouped = 0
  /\ lock # None => SlicesIn = {}
  /\ \A r \in Requests : acq[r] = "group" <=> lock = r

\* The download has one owner; who waits for it or has it is counted as a user.
Sharing ==
  /\ \A r \in Requests : pc[r] \in {"fetch", "wait"} => r \in users
  /\ \A r \in Requests : pc[r] = "fetch" => pdf = "fetching"
  /\ \A q, r \in Requests : pc[q] = "fetch" /\ pc[r] = "fetch" => q = r
  /\ \A r \in Slices : pc[r] \in Requested => pdf = "ready" /\ r \in users
  /\ pdf = "ready" => file
  /\ \A r \in Slices : pc[r] # "download"

Inv == Shape /\ Path /\ Queues /\ Counted /\ Bounded /\ Grouping /\ Sharing

USE DEF reqVars, slotVars, pdfVars, wedgeVars

LEMMA Initially == Init => Inv
<1> SUFFICES ASSUME Init PROVE Inv
  OBVIOUS
<1> USE ServiceAssumption DEF Init
<1>1. Shape
  <2>1. file \in BOOLEAN
    OBVIOUS
  <2> QED BY <2>1 DEF Shape
<1>2. Path
  BY DEF Path, Requested
<1>3. Queues
  BY EmptyLine DEF Queues
<1>4. SlicesIn = {} /\ OthersIn = {} /\ Climbing = {} /\ ImagesIn = {}
  BY DEF SlicesIn, OthersIn, Climbing, ImagesIn, Requests
<1>5. Counted
  BY <1>4, FS_EmptySet DEF Counted
<1>6. Bounded /\ Grouping
  BY <1>4 DEF Bounded, Grouping
<1>7. Sharing
  BY DEF Sharing, Requested, Requests
<1> QED BY <1>1, <1>2, <1>3, <1>5, <1>6, <1>7 DEF Inv

\* The request that comes first in a queue is at the place of the queue.
LEMMA Heads ==
  ASSUME Queues
  PROVE  /\ sliceQ # <<>> => Head(sliceQ) \in Requests /\ acq[Head(sliceQ)] = "slice"
         /\ lockQ # <<>> => Head(lockQ) \in Requests /\ acq[Head(lockQ)] = "lock"
         /\ convertQ # <<>> => /\ Head(convertQ) \in Requests
                               /\ acq[Head(convertQ)] \in {"convert", "group"}
<1>1. sliceQ # <<>> => Head(sliceQ) \in At({"slice"})
  BY LineTail DEF Queues
<1>2. lockQ # <<>> => Head(lockQ) \in At({"lock"})
  BY LineTail DEF Queues
<1>3. convertQ # <<>> => Head(convertQ) \in At({"convert", "group"})
  BY LineTail DEF Queues
<1> QED BY <1>1, <1>2, <1>3 DEF At

-----------------------------------------------------------------------------
(* Where a request is.                                                     *)

LEMMA ProceedsWhole ==
  ASSUME Shape, Path, NEW r \in Requests, Proceed(r), pc[r] \in {"fetch", "wait", "download"},
         UNCHANGED <<slotAt, thread, lock, wedge, hangs>>,
         pdf' \in {"absent", "fetching", "ready"}, file' \in BOOLEAN
  PROVE  Shape' /\ Path'
<1>1. CASE event[r]
  <2>1. Shape'
    BY <1>1 DEF Proceed, Return, Close, Goto, ReleaseShared, Shape
  <2>2. Path'
    BY <1>1 DEF Proceed, Return, Close, Goto, Shape, Path, Requested
  <2> QED BY <2>1, <2>2
<1>2. CASE ~event[r]
  <2>1. /\ pc' = [pc EXCEPT ![r] = "queued"]
        /\ acq' = [acq EXCEPT ![r] = IF r \in Slices THEN "slice" ELSE "convert"]
        /\ UNCHANGED <<event, overdue, users>>
    BY <1>2 DEF Proceed, Goto
  <2>2. Shape'
    BY <2>1 DEF Shape
  <2>3. Path'
    BY <2>1 DEF Shape, Path, Requested
  <2> QED BY <2>2, <2>3
<1> QED BY <1>1, <1>2

LEMMA LeavesWhole ==
  ASSUME Shape, Path, NEW r \in Requests, LeaveQueue(r), pc[r] = "queued"
  PROVE  Shape' /\ Path'
<1> USE ServiceAssumption DEF LeaveQueue, GiveUpAcquire, Release, RollBack, Return, Close, Goto, ReleaseShared
<1>1. lock' \in Slices \cup {None}
  BY DEF Shape
<1>2. Shape'
  BY <1>1 DEF Shape
<1>3. Path'
  BY DEF Shape, Path, Requested
<1> QED BY <1>2, <1>3

LEMMA EndsWhole ==
  ASSUME Shape, Path, NEW r \in Requests, EndRequest(r),
         thread' = thread \/ thread' = [thread EXCEPT ![r] = "none"],
         pc[r] = "reap" \/ r \in Images \/ thread'[r] = "none"
  PROVE  Shape' /\ Path'
<1> USE ServiceAssumption DEF EndRequest, GiveSlotBack, Release, Return, Close, Goto, ReleaseShared
<1>1. Shape'
  BY DEF Shape
<1>2. Path'
  BY DEF Shape, Path, Requested
<1> QED BY <1>1, <1>2

LEMMA PathStep ==
  ASSUME Shape, Path, Queues, Next PROVE Shape' /\ Path'
<1> USE ServiceAssumption
<1>1. ASSUME NEW r \in Requests, ArriveWhole(r) PROVE Shape' /\ Path'
  BY <1>1 DEF ArriveWhole, Goto, Shape, Path, Requested
<1>2. ASSUME NEW r \in Requests, ArriveSlice(r) PROVE Shape' /\ Path'
  BY <1>2 DEF ArriveSlice, Goto, Shape, Path, Requested
<1>3. ASSUME NEW r \in Requests, SharedReady(r) PROVE Shape' /\ Path'
  <2>1. pdf' \in {"absent", "fetching", "ready"} /\ file' \in BOOLEAN
    BY <1>3 DEF SharedReady, Shape
  <2> QED BY <1>3, <2>1, ProceedsWhole DEF SharedReady
<1>4. ASSUME NEW r \in Requests, FetchFails(r) PROVE Shape' /\ Path'
  BY <1>4 DEF FetchFails, DropEntry, Shape, Path, Requested
<1>5. ASSUME NEW r \in Requests, Refused(r) PROVE Shape' /\ Path'
  BY <1>5 DEF Refused, Return, Close, Goto, Shape, Path, Requested
<1>6. ASSUME NEW r \in Requests, DownloadEnds(r) PROVE Shape' /\ Path'
  <2>1. pdf' \in {"absent", "fetching", "ready"} /\ file' \in BOOLEAN
    BY <1>6 DEF DownloadEnds, Shape
  <2> QED BY <1>6, <2>1, ProceedsWhole DEF DownloadEnds
<1>7. ASSUME NEW r \in Requests, DownloadFails(r) PROVE Shape' /\ Path'
  BY <1>7 DEF DownloadFails, Return, Close, Goto, Shape, Path, Requested
<1>8. ASSUME NEW r \in Requests, TakeSliceSlot(r) PROVE Shape' /\ Path'
  BY <1>8, Heads DEF TakeSliceSlot, Shape, Path, Requested
<1>9. ASSUME NEW r \in Requests, JoinGroup(r) PROVE Shape' /\ Path'
  BY <1>9, Heads DEF JoinGroup, Shape, Path, Requested
<1>10. ASSUME NEW r \in Requests, TakeForGroup(r) PROVE Shape' /\ Path'
  BY <1>10, Heads DEF TakeForGroup, Granted, Shape, Path, Requested
<1>11. ASSUME NEW r \in Requests, TakeForWhole(r) PROVE Shape' /\ Path'
  BY <1>11, Heads DEF TakeForWhole, Granted, Shape, Path, Requested
<1>12. ASSUME NEW r \in Requests, TakeForImage(r) PROVE Shape' /\ Path'
  BY <1>12, Heads DEF TakeForImage, Granted, Goto, Shape, Path, Requested
<1>13. ASSUME NEW r \in Requests, Admit(r) PROVE Shape' /\ Path'
  BY <1>13 DEF Admit, Goto, Shape, Path, Requested
<1>14. ASSUME NEW r \in Requests, StartConversion(r) PROVE Shape' /\ Path'
  BY <1>14 DEF StartConversion, Goto, Shape, Path, Requested
<1>15. ASSUME NEW r \in Requests, ThreadStops(r) PROVE Shape' /\ Path'
  BY <1>15 DEF ThreadStops, Shape, Path, Requested
<1>16. ASSUME NEW r \in Requests, ThreadHangs(r) PROVE Shape' /\ Path'
  BY <1>16 DEF ThreadHangs, Shape, Path, Requested
<1>17. ASSUME NEW r \in Requests, TaskCancelledFetching(r) PROVE Shape' /\ Path'
  BY <1>17 DEF TaskCancelledFetching, DropEntry, Shape, Path, Requested
<1>18. ASSUME NEW r \in Requests, TaskCancelledDownloading(r) PROVE Shape' /\ Path'
  BY <1>18 DEF TaskCancelledDownloading, Return, Close, Goto, ReleaseShared, Shape, Path, Requested
<1>19. ASSUME NEW r \in Requests, DeadlinePasses(r) PROVE Shape' /\ Path'
  BY <1>19 DEF DeadlinePasses, Shape, Path, Requested
<1>20. ASSUME NEW r \in Requests, CancelledWhileQueued(r) \/ TaskCancelledQueued(r) PROVE Shape' /\ Path'
  BY <1>20, LeavesWhole DEF CancelledWhileQueued, TaskCancelledQueued
<1>21. ASSUME NEW r \in Requests, CancelledAtAdmission(r) \/ TaskCancelledAdmitted(r) PROVE Shape' /\ Path'
  BY <1>21, EndsWhole DEF CancelledAtAdmission, TaskCancelledAdmitted
<1>22. ASSUME NEW r \in Requests, Respond(r) PROVE Shape' /\ Path'
  BY <1>22, EndsWhole DEF Respond, Shape
<1>23. ASSUME NEW r \in Requests, TaskCancelledConverting(r) PROVE Shape' /\ Path'
  <2>1. CASE r \in Pdfs
    <3>1. /\ pc[r] = "convert" /\ pc' = [pc EXCEPT ![r] = "stopping"]
          /\ event' = [event EXCEPT ![r] = TRUE]
          /\ UNCHANGED <<acq, slotAt, overdue, thread, lock, pdf, users, file, wedge, hangs>>
      BY <1>23, <2>1 DEF TaskCancelledConverting, KeepSlotUntilStopped, Goto
    <3>2. Shape'
      BY <3>1 DEF Shape
    <3>3. Path'
      BY <3>1 DEF Shape, Path, Requested
    <3> QED BY <3>2, <3>3
  <2>2. CASE r \notin Pdfs
    BY <1>23, <2>2, EndsWhole DEF TaskCancelledConverting, Requests, Pdfs
  <2> QED BY <2>1, <2>2
<1>24. ASSUME NEW r \in Requests, SetEvent(r) PROVE Shape' /\ Path'
  BY <1>24 DEF SetEvent, Shape, Path
<1>25. CASE EvictIdle
  BY <1>25 DEF EvictIdle, Shape, Path
<1>26. CASE UpdateWedge \/ GracePasses
  BY <1>26 DEF UpdateWedge, GracePasses, Shape, Path
<1>27. CASE RestartService
  BY <1>27 DEF RestartService, Shape, Path, Requested
<1>28. ASSUME NEW r \in Requests, CutGivingUp(r) PROVE Shape' /\ Path'
  BY <1>28 DEF CutGivingUp, Close, Goto, ReleaseShared, Shape, Path, Requested
<1>29. ASSUME NEW r \in Requests, CutStopping(r) PROVE Shape' /\ Path'
  BY <1>29 DEF CutStopping, GiveSlotBack, Close, Goto, ReleaseShared, Shape, Path, Requested
<1> QED
  BY <1>1, <1>2, <1>3, <1>4, <1>5, <1>6, <1>7, <1>8, <1>9, <1>10, <1>11, <1>12, <1>13, <1>14, <1>15,
     <1>16, <1>17, <1>18, <1>19, <1>20, <1>21, <1>22, <1>23, <1>24, <1>25, <1>26, <1>27, <1>28, <1>29
  DEF Next, Loop, Download, Admission, Conversion, WatcherCancels, ClientCancels, TaskCancelled, Preempt, Monitor

-----------------------------------------------------------------------------
(* The queues.                                                             *)

\* r goes to the place v of the acquire.
Moves(r, v) == acq' = [acq EXCEPT ![r] = v]

LEMMA AtAfter ==
  ASSUME Shape, NEW CONSTANT r \in Requests, NEW CONSTANT v, Moves(r, v), NEW CONSTANT places
  PROVE  /\ v \in places => At(places)' = At(places) \cup {r}
         /\ v \notin places => At(places)' = At(places) \ {r}
  BY DEF Shape, At, Moves

LEMMA QueuesUndisturbed ==
  ASSUME Queues, UNCHANGED <<acq, convertQ, sliceQ, lockQ>> PROVE Queues'
  BY DEF Queues, At

\* Who moves to v joins the queue at v and is in no other: a queue that is as it was, one
\* r has joined, one r was the first of and has left, one r has left.
LEMMA QueueAfter ==
  ASSUME Shape, NEW CONSTANT r \in Requests, NEW CONSTANT v, Moves(r, v), NEW CONSTANT places,
         NEW q, Line(q, At(places))
  PROVE  /\ v \notin places /\ acq[r] \notin places => Line(q, At(places)')
         /\ v \in places /\ acq[r] \notin places => Line(Append(q, r), At(places)')
         /\ v \notin places /\ q # <<>> /\ r = Head(q) => Line(Tail(q), At(places)')
         /\ v \notin places => Line(Leave(q, r), At(places)')
<1> DEFINE A == At(places)
           B == At(places)'
<1>1. /\ v \in places => B = A \cup {r}
      /\ v \notin places => B = A \ {r}
  BY AtAfter
<1>2. acq[r] \notin places => r \notin A
  BY DEF At
<1> HIDE DEF A, B
<1>3. Line(q, A)
  BY DEF A
<1>4. ASSUME v \notin places, acq[r] \notin places PROVE Line(q, B)
  <2>1. A \subseteq B
    BY <1>1, <1>2, <1>4
  <2> QED BY <1>3, <2>1, LineIn
<1>5. ASSUME v \in places, acq[r] \notin places PROVE Line(Append(q, r), B)
  <2>1. A \subseteq B /\ r \in B /\ r \notin A
    BY <1>1, <1>2, <1>5
  <2> QED BY <1>3, <2>1, LineAppend
<1>6. ASSUME v \notin places, q # <<>>, r = Head(q) PROVE Line(Tail(q), B)
  BY <1>1, <1>3, <1>6, LineTail
<1>7. ASSUME v \notin places PROVE Line(Leave(q, r), B)
  BY <1>1, <1>3, <1>7, LineLeave
<1> QED BY <1>4, <1>5, <1>6, <1>7 DEF B

\* The same for the three queues at once.
LEMMA QueuesAfter ==
  ASSUME Shape, Queues, NEW CONSTANT r \in Requests, NEW CONSTANT v, Moves(r, v),
         \/ v # "slice" /\ acq[r] # "slice" /\ sliceQ' = sliceQ
         \/ v = "slice" /\ acq[r] # "slice" /\ sliceQ' = Append(sliceQ, r)
         \/ v # "slice" /\ sliceQ # <<>> /\ r = Head(sliceQ) /\ sliceQ' = Tail(sliceQ)
         \/ v # "slice" /\ sliceQ' = Leave(sliceQ, r),
         \/ v # "lock" /\ acq[r] # "lock" /\ lockQ' = lockQ
         \/ v = "lock" /\ acq[r] # "lock" /\ lockQ' = Append(lockQ, r)
         \/ v # "lock" /\ lockQ # <<>> /\ r = Head(lockQ) /\ lockQ' = Tail(lockQ)
         \/ v # "lock" /\ lockQ' = Leave(lockQ, r),
         LET waits(p) == p \in {"convert", "group"}
         IN  \/ ~waits(v) /\ ~waits(acq[r]) /\ convertQ' = convertQ
             \/ waits(v) /\ ~waits(acq[r]) /\ convertQ' = Append(convertQ, r)
             \/ ~waits(v) /\ convertQ # <<>> /\ r = Head(convertQ) /\ convertQ' = Tail(convertQ)
             \/ ~waits(v) /\ convertQ' = Leave(convertQ, r)
  PROVE  Queues'
<1>1. Line(sliceQ', At({"slice"})')
  <2>1. Line(sliceQ, At({"slice"}))
    BY DEF Queues
  <2> QED BY <2>1, QueueAfter
<1>2. Line(lockQ', At({"lock"})')
  <2>1. Line(lockQ, At({"lock"}))
    BY DEF Queues
  <2> QED BY <2>1, QueueAfter
<1>3. Line(convertQ', At({"convert", "group"})')
  <2>1. Line(convertQ, At({"convert", "group"}))
    BY DEF Queues
  <2> QED BY <2>1, QueueAfter
<1> QED BY <1>1, <1>2, <1>3 DEF Queues

LEMMA QueuesProceed ==
  ASSUME Shape, Path, Queues, NEW CONSTANT r \in Requests, Proceed(r), acq[r] = "none",
         UNCHANGED lockQ
  PROVE  Queues'
<1>1. CASE event[r]
  BY <1>1, QueuesUndisturbed DEF Proceed
<1>2. CASE ~event[r] /\ r \in Slices
  <2>1. Moves(r, "slice") /\ sliceQ' = Append(sliceQ, r) /\ convertQ' = convertQ
    BY <1>2 DEF Proceed, Moves
  <2> QED BY <2>1, QueuesAfter
<1>3. CASE ~event[r] /\ r \notin Slices
  <2>1. Moves(r, "convert") /\ convertQ' = Append(convertQ, r) /\ sliceQ' = sliceQ
    BY <1>3 DEF Proceed, Moves
  <2> QED BY <2>1, QueuesAfter
<1> QED BY <1>1, <1>2, <1>3

LEMMA QueuesTakeSliceSlot ==
  ASSUME Shape, Queues, NEW CONSTANT r \in Requests, TakeSliceSlot(r) PROVE Queues'
<1>1. acq[r] = "slice" /\ Moves(r, "lock")
  BY Heads DEF TakeSliceSlot, Moves
<1>2. /\ sliceQ # <<>> /\ r = Head(sliceQ) /\ sliceQ' = Tail(sliceQ)
      /\ lockQ' = Append(lockQ, r) /\ convertQ' = convertQ
  BY DEF TakeSliceSlot
<1> QED BY <1>1, <1>2, QueuesAfter

LEMMA QueuesJoinGroup ==
  ASSUME Shape, Queues, NEW CONSTANT r \in Requests, JoinGroup(r) PROVE Queues'
<1>1. acq[r] = "lock" /\ lockQ # <<>> /\ r = Head(lockQ) /\ lockQ' = Tail(lockQ) /\ sliceQ' = sliceQ
  BY Heads DEF JoinGroup
<1>2. CASE active = 0
  <2>1. Moves(r, "group") /\ convertQ' = Append(convertQ, r)
    BY <1>2 DEF JoinGroup, Moves
  <2> QED BY <1>1, <2>1, QueuesAfter
<1>3. CASE active # 0
  <2>1. Moves(r, "in") /\ convertQ' = convertQ
    BY <1>3 DEF JoinGroup, Moves
  <2> QED BY <1>1, <2>1, QueuesAfter
<1> QED BY <1>2, <1>3

\* A waiter for a conversion slot gets one and is in, or asks for the next.
LEMMA QueuesTakeConvertSlot ==
  ASSUME Shape, Queues, NEW CONSTANT r \in Requests, convertQ # <<>>, r = Head(convertQ),
         UNCHANGED <<sliceQ, lockQ>>,
         \/ convertQ' = Append(Tail(convertQ), r) /\ acq' = acq
         \/ convertQ' = Tail(convertQ) /\ acq' = [acq EXCEPT ![r] = "in"]
  PROVE  Queues'
<1>1. CASE convertQ' = Append(Tail(convertQ), r) /\ acq' = acq
  <2>1. /\ At({"slice"})' = At({"slice"}) /\ At({"lock"})' = At({"lock"})
        /\ At({"convert", "group"})' = At({"convert", "group"})
    BY <1>1 DEF At
  <2> QED BY <1>1, <2>1, LineTurn DEF Queues
<1>2. CASE convertQ' = Tail(convertQ) /\ acq' = [acq EXCEPT ![r] = "in"]
  <2>1. acq[r] \in {"convert", "group"} /\ Moves(r, "in")
    BY <1>2, Heads DEF Moves
  <2> QED BY <1>2, <2>1, QueuesAfter
<1> QED BY <1>1, <1>2

\* Whoever stops acquiring leaves the queues.
LEMMA QueuesGiveUp ==
  ASSUME Shape, Queues, NEW CONSTANT r \in Requests, GiveUpAcquire(r) PROVE Queues'
<1>1. /\ convertQ' = Leave(convertQ, r) /\ sliceQ' = Leave(sliceQ, r) /\ lockQ' = Leave(lockQ, r)
      /\ Moves(r, "none")
  BY DEF GiveUpAcquire, Moves
<1> QED BY <1>1, QueuesAfter

LEMMA QueuesEnd ==
  ASSUME Shape, Queues, NEW CONSTANT r \in Requests, GiveSlotBack(r), acq[r] = "in"
  PROVE  Queues'
<1>1. UNCHANGED <<convertQ, sliceQ, lockQ>> /\ Moves(r, "none")
  BY DEF GiveSlotBack, Moves
<1> QED BY <1>1, QueuesAfter

LEMMA QueueStep ==
  ASSUME Shape, Path, Queues, Next PROVE Queues'
<1>1. ASSUME NEW r \in Requests,
             ArriveWhole(r) \/ ArriveSlice(r) \/ FetchFails(r) \/ Refused(r) \/ DownloadFails(r)
             \/ Admit(r) \/ StartConversion(r) \/ ThreadStops(r) \/ ThreadHangs(r) \/ SetEvent(r)
             \/ DeadlinePasses(r) \/ TaskCancelledFetching(r) \/ TaskCancelledDownloading(r)
             \/ CutGivingUp(r)
      PROVE  Queues'
  BY <1>1, QueuesUndisturbed
  DEF ArriveWhole, ArriveSlice, FetchFails, Refused, DownloadFails, Admit, StartConversion,
      ThreadStops, ThreadHangs, SetEvent, DeadlinePasses, TaskCancelledFetching,
      TaskCancelledDownloading, CutGivingUp
<1>2. ASSUME NEW r \in Requests, SharedReady(r) \/ DownloadEnds(r) PROVE Queues'
  <2>1. Proceed(r) /\ lockQ' = lockQ /\ pc[r] \notin Requested \cup {"cut"}
    BY <1>2 DEF SharedReady, DownloadEnds, Requested
  <2> QED BY <2>1, QueuesProceed DEF Path
<1>3. ASSUME NEW r \in Requests, TakeSliceSlot(r) \/ JoinGroup(r) PROVE Queues'
  BY <1>3, QueuesTakeSliceSlot, QueuesJoinGroup
<1>4. ASSUME NEW r \in Requests, TakeForGroup(r) \/ TakeForWhole(r) \/ TakeForImage(r)
      PROVE  Queues'
  BY <1>4, QueuesTakeConvertSlot DEF TakeForGroup, TakeForWhole, TakeForImage, Granted
<1>5. ASSUME NEW r \in Requests, CancelledWhileQueued(r) \/ TaskCancelledQueued(r)
      PROVE  Queues'
  BY <1>5, QueuesGiveUp DEF CancelledWhileQueued, TaskCancelledQueued, LeaveQueue
<1>6. ASSUME NEW r \in Requests, pc[r] \in {"reap", "convert", "stopping"}, GiveSlotBack(r)
      PROVE  Queues'
  BY <1>6, QueuesEnd DEF Path
<1>7. ASSUME NEW r \in Requests,
             CancelledAtAdmission(r) \/ TaskCancelledAdmitted(r) \/ Respond(r)
             \/ TaskCancelledConverting(r) \/ CutStopping(r)
      PROVE  Queues'
  <2>1. CASE pc[r] \in {"reap", "convert", "stopping"} /\ GiveSlotBack(r)
    BY <2>1, <1>6
  <2>2. CASE KeepSlotUntilStopped(r)
    BY <2>2, QueuesUndisturbed DEF KeepSlotUntilStopped
  <2> QED BY <1>7, <2>1, <2>2
          DEF CancelledAtAdmission, TaskCancelledAdmitted, Respond, TaskCancelledConverting,
              EndRequest, CutStopping
<1>8. CASE EvictIdle \/ UpdateWedge \/ GracePasses
  BY <1>8, QueuesUndisturbed DEF EvictIdle, UpdateWedge, GracePasses
<1>9. CASE RestartService
  BY <1>9, EmptyLine DEF RestartService, Queues
<1> QED
  BY <1>1, <1>2, <1>3, <1>4, <1>5, <1>7, <1>8, <1>9
  DEF Next, Loop, Download, Admission, Conversion, WatcherCancels, ClientCancels, TaskCancelled,
      Preempt, Monitor

-----------------------------------------------------------------------------
(* The counters.                                                           *)

Bit(b) == IF b THEN 1 ELSE 0

LEMMA CountAfter ==
  ASSUME NEW S, NEW r, IsFiniteSet(S)
  PROVE  /\ Cardinality(S \cup {r}) = Cardinality(S) - Bit(r \in S) + 1
         /\ Cardinality(S \ {r}) = Cardinality(S) - Bit(r \in S) + 0
<1>1. /\ Cardinality(S) \in Nat
      /\ Cardinality(S \cup {r}) = IF r \in S THEN Cardinality(S) ELSE Cardinality(S) + 1
      /\ Cardinality(S \ {r}) = IF r \in S THEN Cardinality(S) - 1 ELSE Cardinality(S)
  BY FS_CardinalityType, FS_AddElement, FS_RemoveElement
<1>2. Bit(r \in S) = IF r \in S THEN 1 ELSE 0
  BY DEF Bit
<1> QED BY <1>1, <1>2

LEMMA Finite ==
  /\ IsFiniteSet(SlicesIn) /\ IsFiniteSet(OthersIn) /\ IsFiniteSet(Climbing)
  /\ IsFiniteSet(ImagesIn)
<1>1. SlicesIn \subseteq Requests /\ OthersIn \subseteq Requests /\ Climbing \subseteq Requests
      /\ ImagesIn \subseteq Requests
  BY DEF SlicesIn, OthersIn, Climbing, ImagesIn, Requests
<1> QED BY <1>1, ServiceAssumption, FS_Subset

\* What the move of one request changes of the four counts.
LEMMA CountsAfter ==
  ASSUME Shape, NEW CONSTANT r \in Requests, NEW CONSTANT v, Moves(r, v)
  PROVE  /\ Cardinality(SlicesIn)' = Cardinality(SlicesIn) - Bit(acq[r] = "in" /\ r \in Slices)
                                       + Bit(v = "in" /\ r \in Slices)
         /\ Cardinality(OthersIn)' = Cardinality(OthersIn) - Bit(acq[r] = "in" /\ r \notin Slices)
                                       + Bit(v = "in" /\ r \notin Slices)
         /\ Cardinality(Climbing)' = Cardinality(Climbing)
                                       - Bit(acq[r] \in {"lock", "group"} /\ r \in Slices)
                                       + Bit(v \in {"lock", "group"} /\ r \in Slices)
         /\ Cardinality(ImagesIn)' = Cardinality(ImagesIn) - Bit(acq[r] = "in" /\ r \in Images)
                                       + Bit(v = "in" /\ r \in Images)
<1> USE DEF Moves, Shape
<1>1. Cardinality(SlicesIn)' = Cardinality(SlicesIn) - Bit(r \in SlicesIn)
                                 + Bit(v = "in" /\ r \in Slices)
  <2>1. /\ v = "in" /\ r \in Slices => SlicesIn' = SlicesIn \cup {r}
        /\ ~(v = "in" /\ r \in Slices) => SlicesIn' = SlicesIn \ {r}
    BY DEF SlicesIn
  <2>2. Bit(v = "in" /\ r \in Slices) = IF v = "in" /\ r \in Slices THEN 1 ELSE 0
    BY DEF Bit
  <2>3. CASE v = "in" /\ r \in Slices
    BY <2>1, <2>2, <2>3, CountAfter, Finite
  <2>4. CASE ~(v = "in" /\ r \in Slices)
    BY <2>1, <2>2, <2>4, CountAfter, Finite
  <2> QED BY <2>3, <2>4
<1>2. Cardinality(OthersIn)' = Cardinality(OthersIn) - Bit(r \in OthersIn)
                                 + Bit(v = "in" /\ r \notin Slices)
  <2>1. /\ v = "in" /\ r \notin Slices => OthersIn' = OthersIn \cup {r}
        /\ ~(v = "in" /\ r \notin Slices) => OthersIn' = OthersIn \ {r}
    BY DEF SlicesIn, OthersIn
  <2>2. Bit(v = "in" /\ r \notin Slices) = IF v = "in" /\ r \notin Slices THEN 1 ELSE 0
    BY DEF Bit
  <2>3. CASE v = "in" /\ r \notin Slices
    BY <2>1, <2>2, <2>3, CountAfter, Finite
  <2>4. CASE ~(v = "in" /\ r \notin Slices)
    BY <2>1, <2>2, <2>4, CountAfter, Finite
  <2> QED BY <2>3, <2>4
<1>3. Cardinality(Climbing)' = Cardinality(Climbing) - Bit(r \in Climbing)
                                 + Bit(v \in {"lock", "group"} /\ r \in Slices)
  <2>1. /\ v \in {"lock", "group"} /\ r \in Slices => Climbing' = Climbing \cup {r}
        /\ ~(v \in {"lock", "group"} /\ r \in Slices) => Climbing' = Climbing \ {r}
    BY DEF Climbing, Requests
  <2>2. Bit(v \in {"lock", "group"} /\ r \in Slices) = IF v \in {"lock", "group"} /\ r \in Slices THEN 1 ELSE 0
    BY DEF Bit
  <2>3. CASE v \in {"lock", "group"} /\ r \in Slices
    BY <2>1, <2>2, <2>3, CountAfter, Finite
  <2>4. CASE ~(v \in {"lock", "group"} /\ r \in Slices)
    BY <2>1, <2>2, <2>4, CountAfter, Finite
  <2> QED BY <2>3, <2>4
<1>4. Cardinality(ImagesIn)' = Cardinality(ImagesIn) - Bit(r \in ImagesIn)
                                 + Bit(v = "in" /\ r \in Images)
  <2>1. /\ v = "in" /\ r \in Images => ImagesIn' = ImagesIn \cup {r}
        /\ ~(v = "in" /\ r \in Images) => ImagesIn' = ImagesIn \ {r}
    BY DEF ImagesIn, Requests
  <2>2. Bit(v = "in" /\ r \in Images) = IF v = "in" /\ r \in Images THEN 1 ELSE 0
    BY DEF Bit
  <2>3. CASE v = "in" /\ r \in Images
    BY <2>1, <2>2, <2>3, CountAfter, Finite
  <2>4. CASE ~(v = "in" /\ r \in Images)
    BY <2>1, <2>2, <2>4, CountAfter, Finite
  <2> QED BY <2>3, <2>4
<1>5. /\ r \in SlicesIn <=> acq[r] = "in" /\ r \in Slices
      /\ r \in OthersIn <=> acq[r] = "in" /\ r \notin Slices
      /\ r \in Climbing <=> acq[r] \in {"lock", "group"} /\ r \in Slices
      /\ r \in ImagesIn <=> acq[r] = "in" /\ r \in Images
  BY DEF SlicesIn, OthersIn, Climbing, ImagesIn
<1>6. /\ Bit(r \in SlicesIn) = Bit(acq[r] = "in" /\ r \in Slices)
      /\ Bit(r \in OthersIn) = Bit(acq[r] = "in" /\ r \notin Slices)
      /\ Bit(r \in Climbing) = Bit(acq[r] \in {"lock", "group"} /\ r \in Slices)
      /\ Bit(r \in ImagesIn) = Bit(acq[r] = "in" /\ r \in Images)
  BY <1>5 DEF Bit
<1> QED BY <1>1, <1>2, <1>3, <1>4, <1>6

LEMMA Counts ==
  /\ Cardinality(SlicesIn) \in Nat /\ Cardinality(OthersIn) \in Nat
  /\ Cardinality(Climbing) \in Nat /\ Cardinality(ImagesIn) \in Nat
  /\ SlicesIn = {} <=> Cardinality(SlicesIn) = 0
  BY Finite, FS_CardinalityType, FS_EmptySet

LEMMA SlicesInAfter == SlicesIn' = {} <=> Cardinality(SlicesIn)' = 0
<1>1. SlicesIn' \subseteq Requests
  BY DEF SlicesIn, Requests
<1>2. IsFiniteSet(SlicesIn')
  BY <1>1, ServiceAssumption, FS_Subset
<1> QED BY <1>2, FS_EmptySet

Counters == Counted /\ Bounded /\ Grouping

LEMMA CountersUndisturbed ==
  ASSUME Counters, UNCHANGED <<acq, held, sliceHeld, lock, grouped, taken, active, imageActive>>
  PROVE  Counters'
  BY DEF Counters, Counted, Bounded, Grouping, SlicesIn, OthersIn, Climbing, ImagesIn

\* What the counters need of the place r leaves and the place r goes to.
LEMMA CountersProceed ==
  ASSUME Shape, Path, Counters, NEW CONSTANT r \in Requests, Proceed(r), acq[r] = "none",
         UNCHANGED <<held, sliceHeld, lock, grouped, taken, active, imageActive>>
  PROVE  Counters'
<1>1. CASE event[r]
  BY <1>1, CountersUndisturbed DEF Proceed
<1>2. CASE ~event[r]
  <2> DEFINE v == IF r \in Slices THEN "slice" ELSE "convert"
  <2>1. Moves(r, v) /\ v \notin {"in", "lock", "group"}
    BY <1>2 DEF Proceed, Moves
  <2> HIDE DEF v
  <2>2. /\ Cardinality(SlicesIn)' = Cardinality(SlicesIn)
        /\ Cardinality(OthersIn)' = Cardinality(OthersIn)
        /\ Cardinality(Climbing)' = Cardinality(Climbing)
        /\ Cardinality(ImagesIn)' = Cardinality(ImagesIn)
    BY <2>1, CountsAfter, Counts DEF Bit
  <2>3. SlicesIn' = {} <=> SlicesIn = {}
    BY <2>2, Counts, SlicesInAfter
  <2>4. Counted' /\ Bounded'
    BY <2>2, <2>3 DEF Counters, Counted, Bounded
  <2>5. Grouping'
    BY <2>1, <2>3 DEF Counters, Grouping, Moves, Shape
  <2> QED BY <2>4, <2>5 DEF Counters
<1> QED BY <1>1, <1>2

LEMMA CountersTakeSliceSlot ==
  ASSUME Shape, Path, Queues, Counters, NEW CONSTANT r \in Requests, TakeSliceSlot(r)
  PROVE  Counters'
<1>1. acq[r] = "slice" /\ r \in Slices /\ Moves(r, "lock") /\ sliceHeld < SliceSlots
      /\ sliceHeld' = sliceHeld + 1 /\ UNCHANGED <<held, lock, grouped, taken, active, imageActive>>
  BY Heads DEF TakeSliceSlot, Moves, Path
<1>2. /\ Cardinality(SlicesIn)' = Cardinality(SlicesIn)
      /\ Cardinality(OthersIn)' = Cardinality(OthersIn)
      /\ Cardinality(Climbing)' = Cardinality(Climbing) + 1
      /\ Cardinality(ImagesIn)' = Cardinality(ImagesIn)
  BY <1>1, CountsAfter, Counts DEF Bit
<1>3. SlicesIn' = {} <=> SlicesIn = {}
  BY <1>2, Counts, SlicesInAfter
<1>4. Counted'
  BY <1>1, <1>2, <1>3, Counts DEF Counters, Counted
<1>5. Bounded'
  BY <1>1, Counts, ServiceAssumption DEF Counters, Counted, Bounded
<1>6. Grouping'
  BY <1>1, <1>3 DEF Counters, Grouping, Moves, Shape
<1> QED BY <1>4, <1>5, <1>6 DEF Counters

LEMMA CountersJoinGroup ==
  ASSUME Shape, Path, Queues, Counters, NEW CONSTANT r \in Requests, JoinGroup(r)
  PROVE  Counters'
<1>1. acq[r] = "lock" /\ r \in Slices /\ r \notin Images /\ lock = None /\ r # None
      /\ UNCHANGED <<held, sliceHeld, grouped, imageActive>>
  BY Heads, ServiceAssumption DEF JoinGroup, Path
<1>2. CASE active = 0
  <2>1. Moves(r, "group") /\ lock' = r /\ active' = active /\ taken' = taken
    BY <1>2 DEF JoinGroup, Moves
  <2>2. /\ Cardinality(SlicesIn)' = Cardinality(SlicesIn)
        /\ Cardinality(OthersIn)' = Cardinality(OthersIn)
        /\ Cardinality(Climbing)' = Cardinality(Climbing)
        /\ Cardinality(ImagesIn)' = Cardinality(ImagesIn)
    BY <1>1, <2>1, CountsAfter, Counts DEF Bit
  <2>3. SlicesIn = {} /\ SlicesIn' = {}
    BY <1>2, <2>2, Counts, SlicesInAfter DEF Counters, Counted
  <2>4. Counted' /\ Bounded'
    BY <1>1, <2>1, <2>2, <2>3 DEF Counters, Counted, Bounded
  <2>5. Grouping'
    BY <1>1, <2>1, <2>3, ServiceAssumption DEF Counters, Grouping, Moves, Shape
  <2> QED BY <2>4, <2>5 DEF Counters
<1>3. CASE active # 0
  <2>1. Moves(r, "in") /\ lock' = lock /\ active' = active + 1 /\ taken' = 0
    BY <1>3 DEF JoinGroup, Moves
  <2>2. /\ Cardinality(SlicesIn)' = Cardinality(SlicesIn) + 1
        /\ Cardinality(OthersIn)' = Cardinality(OthersIn)
        /\ Cardinality(Climbing)' = Cardinality(Climbing) - 1
        /\ Cardinality(ImagesIn)' = Cardinality(ImagesIn)
    BY <1>1, <2>1, CountsAfter, Counts DEF Bit
  <2>3. SlicesIn # {} /\ SlicesIn' # {}
    BY <1>3, <2>2, Counts, SlicesInAfter DEF Counters, Counted
  <2>4. Counted'
    <3>1. active = Cardinality(SlicesIn) /\ sliceHeld = active + Cardinality(Climbing)
          /\ held = Cardinality(OthersIn) + grouped + MaxConcurrent
          /\ imageActive = Cardinality(ImagesIn)
      BY <2>3 DEF Counters, Counted
    <3>2. Cardinality(ImagesIn)' = Cardinality(ImagesIn)
      BY <1>1, <2>1, CountsAfter, Counts DEF Bit
    <3>3. /\ active' = Cardinality(SlicesIn)'
          /\ sliceHeld' = active' + Cardinality(Climbing)'
          /\ held' = Cardinality(OthersIn)' + grouped' + MaxConcurrent
          /\ imageActive' = Cardinality(ImagesIn)'
      BY <1>1, <2>1, <2>2, <3>1, <3>2, Counts
    <3> QED BY <2>3, <3>3 DEF Counted
  <2>5. Bounded'
    BY <1>1, <2>1 DEF Counters, Bounded
  <2>6. Grouping'
    BY <1>1, <2>1 DEF Counters, Grouping, Moves, Shape
  <2> QED BY <2>4, <2>5, <2>6 DEF Counters
<1> QED BY <1>2, <1>3

\* A request of the group gets a conversion slot: its last one, or one more.
LEMMA CountersTakeForGroup ==
  ASSUME Shape, Path, Queues, Counters, NEW CONSTANT r \in Requests, TakeForGroup(r)
  PROVE  Counters'
<1>1. acq[r] = "group" /\ r \in Slices /\ r \notin Images /\ lock = r /\ r # None
      /\ held < MaxConcurrent /\ held' = held + 1 /\ UNCHANGED <<sliceHeld, imageActive>>
  BY Heads, ServiceAssumption DEF TakeForGroup, Granted, Path, Counters, Grouping
<1>2. SlicesIn = {} /\ Cardinality(SlicesIn) = 0
  BY <1>1, Counts DEF Counters, Grouping
<1>3. held = Cardinality(OthersIn) + grouped /\ active = 0 /\ sliceHeld = Cardinality(Climbing)
      /\ imageActive = Cardinality(ImagesIn) /\ grouped \in 0 .. MaxConcurrent - 1
      /\ MaxConcurrent \in Nat \ {0}
  BY <1>2, Counts, ServiceAssumption DEF Counters, Counted, Bounded
<1>4. CASE grouped + 1 < MaxConcurrent
  <2>1. grouped' = grouped + 1 /\ taken' = grouped + 1 /\ UNCHANGED <<active, acq, lock>>
    BY <1>4 DEF TakeForGroup
  <2>2. UNCHANGED <<SlicesIn, OthersIn, Climbing, ImagesIn>>
    BY <2>1 DEF SlicesIn, OthersIn, Climbing, ImagesIn
  <2>3. Counted'
    BY <1>1, <1>2, <1>3, <2>1, <2>2, Counts DEF Counted
  <2>4. Bounded'
    BY <1>1, <1>3, <1>4, <2>1, Counts DEF Counters, Bounded
  <2>5. Grouping'
    BY <1>1, <2>1, <2>2 DEF Counters, Grouping
  <2> QED BY <2>3, <2>4, <2>5 DEF Counters
<1>5. CASE ~(grouped + 1 < MaxConcurrent)
  <2>1. grouped' = 0 /\ taken' = 0 /\ active' = active + 1 /\ Moves(r, "in") /\ lock' = None
    BY <1>5 DEF TakeForGroup, Moves
  <2>2. /\ Cardinality(SlicesIn)' = 1
        /\ Cardinality(OthersIn)' = Cardinality(OthersIn)
        /\ Cardinality(Climbing)' = Cardinality(Climbing) - 1
        /\ Cardinality(ImagesIn)' = Cardinality(ImagesIn)
    BY <1>1, <1>2, <2>1, CountsAfter, Counts DEF Bit
  <2>3. SlicesIn' # {}
    BY <2>2, SlicesInAfter
  <2>4. Counted'
    <3>1. /\ active' = Cardinality(SlicesIn)'
          /\ sliceHeld' = active' + Cardinality(Climbing)'
          /\ held' = Cardinality(OthersIn)' + grouped' + MaxConcurrent
          /\ imageActive' = Cardinality(ImagesIn)'
      BY <1>1, <1>3, <1>5, <2>1, <2>2, Counts
    <3> QED BY <2>3, <3>1 DEF Counted
  <2>5. Bounded'
    BY <1>1, <1>3, <2>1, Counts DEF Counters, Bounded
  <2>6. Grouping'
    BY <1>1, <2>1, ServiceAssumption DEF Counters, Grouping, Moves, Shape
  <2> QED BY <2>4, <2>5, <2>6 DEF Counters
<1> QED BY <1>4, <1>5

\* A whole document or an image gets its slot.
LEMMA CountersTakeAlone ==
  ASSUME Shape, Path, Counters, NEW CONSTANT r \in Requests, r \notin Slices,
         acq[r] = "convert", acq' = [acq EXCEPT ![r] = "in"],
         held < MaxConcurrent, held' = held + 1,
         imageActive' = imageActive + Bit(r \in Images),
         UNCHANGED <<sliceHeld, lock, grouped, taken, active>>
  PROVE  Counters'
<1>1. Moves(r, "in")
  BY DEF Moves
<1>2. /\ Cardinality(SlicesIn)' = Cardinality(SlicesIn)
      /\ Cardinality(OthersIn)' = Cardinality(OthersIn) + 1
      /\ Cardinality(Climbing)' = Cardinality(Climbing)
  BY <1>1, CountsAfter, Counts DEF Bit
<1>3. Cardinality(ImagesIn)' = Cardinality(ImagesIn) + Bit(r \in Images)
  BY <1>1, CountsAfter, Counts DEF Bit
<1>4. SlicesIn' = {} <=> SlicesIn = {}
  BY <1>2, Counts, SlicesInAfter
<1>5. held' = Cardinality(OthersIn)' + grouped' + IF SlicesIn' # {} THEN MaxConcurrent ELSE 0
  <2>1. held = Cardinality(OthersIn) + grouped + IF SlicesIn # {} THEN MaxConcurrent ELSE 0
    BY DEF Counters, Counted
  <2>2. grouped \in Nat /\ MaxConcurrent \in Nat
    BY ServiceAssumption DEF Counters, Bounded
  <2> QED BY <1>2, <1>4, <2>1, <2>2, Counts
<1>6. Counted'
  BY <1>2, <1>3, <1>5 DEF Counters, Counted
<1>7. Bounded'
  <2>1. held \in Nat
    BY Counts, ServiceAssumption DEF Counters, Counted, Bounded
  <2> QED BY <2>1, ServiceAssumption DEF Counters, Bounded
<1>8. Grouping'
  BY <1>1, <1>4 DEF Counters, Grouping, Moves, Shape
<1> QED BY <1>6, <1>7, <1>8 DEF Counters

\* A request that is in gives back what it holds.
LEMMA CountersRelease ==
  ASSUME Shape, Path, Counters, NEW CONSTANT r \in Requests, acq[r] = "in", Release(r),
         acq' = [acq EXCEPT ![r] = "none"], UNCHANGED <<lock, grouped, taken>>
  PROVE  Counters'
<1>1. Moves(r, "none")
  BY DEF Moves
<1>2. grouped \in Nat /\ MaxConcurrent \in Nat \ {0} /\ active = Cardinality(SlicesIn)
      /\ sliceHeld = active + Cardinality(Climbing) /\ imageActive = Cardinality(ImagesIn)
      /\ sliceHeld <= SliceSlots /\ held <= MaxConcurrent /\ SliceSlots \in Nat
  BY ServiceAssumption DEF Counters, Counted, Bounded
<1>3. CASE r \in Slices
  <2>1. r \notin Images /\ sliceHeld' = sliceHeld - 1 /\ active' = active - 1
        /\ imageActive' = imageActive
        /\ held' = IF active = 1 THEN held - MaxConcurrent ELSE held
    BY <1>3, ServiceAssumption DEF Release
  <2>2. /\ Cardinality(SlicesIn)' = Cardinality(SlicesIn) - 1
        /\ Cardinality(OthersIn)' = Cardinality(OthersIn)
        /\ Cardinality(Climbing)' = Cardinality(Climbing)
        /\ Cardinality(ImagesIn)' = Cardinality(ImagesIn)
    BY <1>1, <1>3, <2>1, CountsAfter, Counts DEF Bit
  <2>3. SlicesIn # {}
    BY <1>3 DEF SlicesIn
  <2>4. held = Cardinality(OthersIn) + grouped + MaxConcurrent
    BY <2>3 DEF Counters, Counted
  <2>5. SlicesIn' = {} <=> active = 1
    BY <1>2, <2>2, Counts, SlicesInAfter
  <2>6. held' = Cardinality(OthersIn)' + grouped' + IF SlicesIn' # {} THEN MaxConcurrent ELSE 0
    BY <1>2, <2>1, <2>2, <2>4, <2>5, Counts
  <2>7. Counted'
    BY <1>2, <2>1, <2>2, <2>6, Counts DEF Counted
  <2>8. Bounded'
    BY <1>2, <2>1, <2>4, Counts DEF Counters, Bounded
  <2>9. Grouping'
    <3>1. lock' = None /\ grouped' = 0
      BY <2>3 DEF Counters, Grouping
    <3> QED BY <1>1, <3>1 DEF Counters, Grouping, Moves, Shape
  <2> QED BY <2>7, <2>8, <2>9 DEF Counters
<1>4. CASE r \notin Slices
  <2>1. UNCHANGED <<sliceHeld, active>> /\ held' = held - 1
        /\ imageActive' = imageActive - Bit(r \in Images)
    <3>1. /\ UNCHANGED <<sliceHeld, active>> /\ held' = held - 1
          /\ imageActive' = IF r \in Images THEN imageActive - 1 ELSE imageActive
      BY <1>4 DEF Release
    <3>2. imageActive \in Nat
      BY <1>2, Counts
    <3>3. CASE r \in Images
      BY <3>1, <3>2, <3>3 DEF Bit
    <3>4. CASE r \notin Images
      BY <3>1, <3>2, <3>4 DEF Bit
    <3> QED BY <3>3, <3>4
  <2>2. /\ Cardinality(SlicesIn)' = Cardinality(SlicesIn)
        /\ Cardinality(OthersIn)' = Cardinality(OthersIn) - 1
        /\ Cardinality(Climbing)' = Cardinality(Climbing)
    BY <1>1, <1>4, CountsAfter, Counts DEF Bit
  <2>3. Cardinality(ImagesIn)' = Cardinality(ImagesIn) - Bit(r \in Images)
    BY <1>1, CountsAfter, Counts DEF Bit
  <2>4. SlicesIn' = {} <=> SlicesIn = {}
    BY <2>2, Counts, SlicesInAfter
  <2>5. held = Cardinality(OthersIn) + grouped + IF SlicesIn # {} THEN MaxConcurrent ELSE 0
    BY DEF Counters, Counted
  <2>6. held' = Cardinality(OthersIn)' + grouped' + IF SlicesIn' # {} THEN MaxConcurrent ELSE 0
    BY <1>2, <2>1, <2>2, <2>4, <2>5, Counts
  <2>7. Counted'
    BY <1>2, <2>1, <2>2, <2>3, <2>6 DEF Counted
  <2>8. Bounded'
    BY <1>2, <2>1, <2>5, Counts DEF Counters, Bounded
  <2>9. Grouping'
    BY <1>1, <2>4 DEF Counters, Grouping, Moves, Shape
  <2> QED BY <2>7, <2>8, <2>9 DEF Counters
<1> QED BY <1>3, <1>4

\* An acquire under way is rolled back: what it took itself, and the group's counter.
LEMMA CountersRollBack ==
  ASSUME Shape, Path, Counters, NEW CONSTANT r \in Requests, acq[r] # "in", RollBack(r),
         acq' = [acq EXCEPT ![r] = "none"]
  PROVE  Counters'
<1>1. Moves(r, "none") /\ UNCHANGED <<active, imageActive>>
  BY DEF Moves, RollBack
<1>2. grouped \in 0 .. MaxConcurrent - 1 /\ MaxConcurrent \in Nat \ {0}
      /\ active = Cardinality(SlicesIn)
      /\ sliceHeld = active + Cardinality(Climbing) /\ imageActive = Cardinality(ImagesIn)
      /\ held = Cardinality(OthersIn) + grouped + (IF SlicesIn # {} THEN MaxConcurrent ELSE 0)
      /\ sliceHeld <= SliceSlots /\ held <= MaxConcurrent /\ SliceSlots \in Nat
  BY ServiceAssumption DEF Counters, Counted, Bounded
<1>3. /\ Cardinality(SlicesIn)' = Cardinality(SlicesIn)
      /\ Cardinality(OthersIn)' = Cardinality(OthersIn)
      /\ Cardinality(ImagesIn)' = Cardinality(ImagesIn)
  BY <1>1, CountsAfter, Counts DEF Bit
<1>4. Cardinality(Climbing)' = Cardinality(Climbing) - IF acq[r] \in {"lock", "group"} THEN 1 ELSE 0
  BY <1>1, CountsAfter, Counts DEF Bit, Path
<1>5. SlicesIn' = {} <=> SlicesIn = {}
  BY <1>3, Counts, SlicesInAfter
<1>6. sliceHeld' = active' + Cardinality(Climbing)' /\ sliceHeld' <= SliceSlots
  BY <1>1, <1>2, <1>4, Counts DEF RollBack
<1>7. CASE acq[r] = "group"
  <2>1. held' = held - grouped /\ grouped' = 0 /\ taken' = 0 /\ lock' = None
    BY <1>7 DEF RollBack
  <2>2. held' = Cardinality(OthersIn)' + grouped' + IF SlicesIn' # {} THEN MaxConcurrent ELSE 0
    BY <1>2, <1>3, <1>5, <2>1, Counts
  <2>3. Counted'
    BY <1>1, <1>2, <1>3, <1>6, <2>2 DEF Counted
  <2>4. Bounded'
    BY <1>2, <1>6, <2>1, Counts DEF Bounded
  <2>5. Grouping'
    BY <1>1, <1>7, <2>1, ServiceAssumption DEF Counters, Grouping, Moves, Shape
  <2> QED BY <2>3, <2>4, <2>5 DEF Counters
<1>8. CASE acq[r] # "group"
  <2>1. UNCHANGED <<held, grouped, lock>> /\ taken' \in {0, taken}
    BY <1>8 DEF RollBack
  <2>2. Counted'
    BY <1>1, <1>2, <1>3, <1>5, <1>6, <2>1 DEF Counted
  <2>3. Bounded'
    BY <1>2, <1>6, <2>1 DEF Counters, Bounded
  <2>4. Grouping'
    BY <1>1, <1>5, <1>8, <2>1 DEF Counters, Grouping, Moves, Shape
  <2> QED BY <2>2, <2>3, <2>4 DEF Counters
<1> QED BY <1>7, <1>8

LEMMA CountersRestart == ASSUME RestartService PROVE Counters'
<1>1. SlicesIn' = {} /\ OthersIn' = {} /\ Climbing' = {} /\ ImagesIn' = {}
  BY DEF RestartService, SlicesIn, OthersIn, Climbing, ImagesIn, Requests
<1>2. Counted'
  BY <1>1, FS_EmptySet DEF RestartService, Counted
<1>3. Bounded'
  BY ServiceAssumption DEF RestartService, Bounded
<1>4. Grouping'
  BY <1>1, ServiceAssumption DEF RestartService, Grouping
<1> QED BY <1>2, <1>3, <1>4 DEF Counters

LEMMA CountersStep ==
  ASSUME Shape, Path, Queues, Counters, Next PROVE Counters'
<1>1. ASSUME NEW r \in Requests,
             ArriveWhole(r) \/ ArriveSlice(r) \/ FetchFails(r) \/ Refused(r) \/ DownloadFails(r)
             \/ Admit(r) \/ StartConversion(r) \/ ThreadStops(r) \/ ThreadHangs(r) \/ SetEvent(r)
             \/ DeadlinePasses(r) \/ TaskCancelledFetching(r) \/ TaskCancelledDownloading(r)
             \/ CutGivingUp(r)
      PROVE  Counters'
  BY <1>1, CountersUndisturbed
  DEF ArriveWhole, ArriveSlice, FetchFails, Refused, DownloadFails, Admit, StartConversion,
      ThreadStops, ThreadHangs, SetEvent, DeadlinePasses, TaskCancelledFetching,
      TaskCancelledDownloading, CutGivingUp
<1>2. ASSUME NEW r \in Requests, SharedReady(r) \/ DownloadEnds(r) PROVE Counters'
  <2>1. Proceed(r) /\ UNCHANGED <<held, sliceHeld, lock, grouped, taken, active, imageActive>>
        /\ pc[r] \notin Requested \cup {"cut"}
    BY <1>2 DEF SharedReady, DownloadEnds, Requested
  <2> QED BY <2>1, CountersProceed DEF Path
<1>3. ASSUME NEW r \in Requests, TakeSliceSlot(r) \/ JoinGroup(r) \/ TakeForGroup(r)
      PROVE  Counters'
  BY <1>3, CountersTakeSliceSlot, CountersJoinGroup, CountersTakeForGroup
<1>4. ASSUME NEW r \in Requests, TakeForWhole(r) \/ TakeForImage(r) PROVE Counters'
  <2>1. acq[r] = "convert" /\ r \notin Slices
    BY <1>4, Heads, ServiceAssumption DEF TakeForWhole, TakeForImage, Granted, Path
  <2>2. /\ acq' = [acq EXCEPT ![r] = "in"]
        /\ held < MaxConcurrent /\ held' = held + 1
        /\ UNCHANGED <<sliceHeld, lock, grouped, taken, active>>
    BY <1>4 DEF TakeForWhole, TakeForImage, Granted
  <2>3. imageActive' = imageActive + Bit(r \in Images)
    <3>1. imageActive \in Nat
      BY Counts DEF Counters, Counted
    <3>2. CASE TakeForWhole(r)
      BY <3>1, <3>2, ServiceAssumption DEF TakeForWhole, Bit
    <3>3. CASE TakeForImage(r)
      BY <3>1, <3>3 DEF TakeForImage, Bit
    <3> QED BY <1>4, <3>2, <3>3
  <2> QED BY <2>1, <2>2, <2>3, CountersTakeAlone
<1>5. ASSUME NEW r \in Requests, CancelledWhileQueued(r) \/ TaskCancelledQueued(r)
      PROVE  Counters'
  <2>1. GiveUpAcquire(r)
    BY <1>5 DEF CancelledWhileQueued, TaskCancelledQueued, LeaveQueue
  <2>2. CASE acq[r] = "in"
    BY <2>1, <2>2, CountersRelease DEF GiveUpAcquire
  <2>3. CASE acq[r] # "in"
    BY <2>1, <2>3, CountersRollBack DEF GiveUpAcquire
  <2> QED BY <2>2, <2>3
<1>6. ASSUME NEW r \in Requests, pc[r] \in {"reap", "convert", "stopping"}, GiveSlotBack(r)
      PROVE  Counters'
  BY <1>6, CountersRelease DEF GiveSlotBack, Path
<1>7. ASSUME NEW r \in Requests,
             CancelledAtAdmission(r) \/ TaskCancelledAdmitted(r) \/ Respond(r)
             \/ TaskCancelledConverting(r) \/ CutStopping(r)
      PROVE  Counters'
  <2>1. CASE pc[r] \in {"reap", "convert", "stopping"} /\ GiveSlotBack(r)
    BY <2>1, <1>6
  <2>2. CASE KeepSlotUntilStopped(r)
    BY <2>2, CountersUndisturbed DEF KeepSlotUntilStopped
  <2> QED BY <1>7, <2>1, <2>2
          DEF CancelledAtAdmission, TaskCancelledAdmitted, Respond, TaskCancelledConverting,
              EndRequest, CutStopping
<1>8. CASE EvictIdle \/ UpdateWedge \/ GracePasses
  BY <1>8, CountersUndisturbed DEF EvictIdle, UpdateWedge, GracePasses
<1>9. CASE RestartService
  BY <1>9, CountersRestart
<1> QED
  BY <1>1, <1>2, <1>3, <1>4, <1>5, <1>7, <1>8, <1>9
  DEF Next, Loop, Download, Admission, Conversion, WatcherCancels, ClientCancels, TaskCancelled,
      Preempt, Monitor

-----------------------------------------------------------------------------
(* The shared download.                                                    *)

LEMMA SharingProceed ==
  ASSUME Shape, Sharing, NEW r \in Requests, Proceed(r),
         \/ pc[r] = "fetch" /\ pdf' = "ready" /\ file' = TRUE
         \/ pc[r] = "wait" /\ pdf = "ready" /\ UNCHANGED <<pdf, file>>
         \/ pc[r] = "download" /\ r \notin Slices /\ UNCHANGED <<pdf, file>>
  PROVE  Sharing'
<1>1. CASE event[r]
  <2>1. pc' = [pc EXCEPT ![r] = "done"] /\ users' = users \ {r}
    BY <1>1 DEF Proceed, Return, Close, Goto, ReleaseShared
  <2> QED BY <2>1 DEF Shape, Sharing, Requested, Requests
<1>2. CASE ~event[r]
  <2>1. pc' = [pc EXCEPT ![r] = "queued"] /\ users' = users
    BY <1>2 DEF Proceed, Goto
  <2> QED BY <2>1 DEF Shape, Sharing, Requested, Requests
<1> QED BY <1>1, <1>2

\* A request that ends after its download leaves the others theirs.
LEMMA SharingEnds ==
  ASSUME Shape, Sharing, NEW r \in Requests, pc[r] # "fetch",
         pc' = [pc EXCEPT ![r] = "done"] \/ pc' = [pc EXCEPT ![r] = "cut"],
         users' = users \ {r}, UNCHANGED <<pdf, file>>
  PROVE  Sharing'
  BY DEF Shape, Sharing, Requested, Requests

\* The owner's download fails: nobody is past the download then.
LEMMA SharingDropped ==
  ASSUME Shape, Sharing, NEW r \in Requests, pc[r] = "fetch", DropEntry(r), file' = file
  PROVE  Sharing'
<1>1. pdf = "fetching" /\ \A x \in Slices : pc[x] \notin Requested
  BY DEF Sharing
<1>2. /\ pdf' = "absent" /\ users' = {}
      /\ \A x \in Requests : pc'[x] = IF x = r THEN "done"
                                      ELSE IF pc[x] = "wait" THEN "refused" ELSE pc[x]
  BY DEF DropEntry
<1>3. \A x \in Requests : pc'[x] \notin {"fetch", "wait"}
  BY <1>2 DEF Sharing
<1>4. \A x \in Slices : pc'[x] \notin Requested /\ pc'[x] # "download"
  BY <1>1, <1>2 DEF Sharing, Requested, Requests
<1> QED BY <1>2, <1>3, <1>4 DEF Sharing

LEMMA SharingStep ==
  ASSUME Shape, Path, Queues, Sharing, Next PROVE Sharing'
<1> USE ServiceAssumption
<1>1. ASSUME NEW r \in Requests, ArriveWhole(r) PROVE Sharing'
  BY <1>1 DEF ArriveWhole, Goto, Shape, Sharing, Requested, Requests
<1>2. ASSUME NEW r \in Requests, ArriveSlice(r) PROVE Sharing'
  <2>1. CASE pdf = "absent"
    BY <1>2, <2>1 DEF ArriveSlice, Goto, Shape, Sharing, Requested, Requests
  <2>2. CASE pdf # "absent"
    BY <1>2, <2>2 DEF ArriveSlice, Goto, Shape, Sharing, Requested, Requests
  <2> QED BY <2>1, <2>2
<1>3. ASSUME NEW r \in Requests, SharedReady(r) \/ DownloadEnds(r) PROVE Sharing'
  <2>1. CASE SharedReady(r)
    BY <2>1, SharingProceed DEF SharedReady
  <2>2. CASE DownloadEnds(r)
    <3>1. pc[r] = "download" /\ r \notin Slices /\ Proceed(r) /\ UNCHANGED <<pdf, file>>
      BY <2>2 DEF DownloadEnds, Sharing
    <3> QED BY <3>1, SharingProceed
  <2> QED BY <1>3, <2>1, <2>2
<1>4. ASSUME NEW r \in Requests, FetchFails(r) \/ TaskCancelledFetching(r) PROVE Sharing'
  BY <1>4, SharingDropped DEF FetchFails, TaskCancelledFetching
<1>5. ASSUME NEW r \in Requests, Refused(r) \/ DownloadFails(r) PROVE Sharing'
  BY <1>5 DEF Refused, DownloadFails, Return, Close, Goto, Shape, Sharing, Requested, Requests
<1>6. ASSUME NEW r \in Requests,
             TaskCancelledDownloading(r) \/ CancelledWhileQueued(r) \/ TaskCancelledQueued(r)
             \/ CutGivingUp(r) \/ CutStopping(r)
      PROVE  Sharing'
  BY <1>6, SharingEnds
  DEF CutGivingUp, CutStopping, GiveSlotBack, TaskCancelledDownloading, CancelledWhileQueued, TaskCancelledQueued, LeaveQueue, Return, Close,
      Goto, ReleaseShared
<1>7. ASSUME NEW r \in Requests,
             CancelledAtAdmission(r) \/ TaskCancelledAdmitted(r) \/ Respond(r)
             \/ TaskCancelledConverting(r)
      PROVE  Sharing'
  <2>1. CASE pc[r] \in {"reap", "convert", "stopping"} /\ EndRequest(r)
    BY <2>1, SharingEnds DEF EndRequest, GiveSlotBack, Return, Close, Goto, ReleaseShared
  <2>2. CASE pc[r] = "convert" /\ KeepSlotUntilStopped(r)
    BY <2>2 DEF KeepSlotUntilStopped, Goto, Shape, Sharing, Requested, Requests
  <2> QED BY <1>7, <2>1, <2>2
          DEF CancelledAtAdmission, TaskCancelledAdmitted, Respond, TaskCancelledConverting
<1>8. ASSUME NEW r \in Requests, TakeForImage(r) \/ Admit(r) \/ StartConversion(r) PROVE Sharing'
  BY <1>8 DEF TakeForImage, Granted, Admit, StartConversion, Goto, Shape, Sharing, Requested, Requests
<1>9. ASSUME NEW r \in Requests,
             TakeSliceSlot(r) \/ JoinGroup(r) \/ TakeForGroup(r) \/ TakeForWhole(r)
             \/ ThreadStops(r) \/ ThreadHangs(r) \/ SetEvent(r) \/ DeadlinePasses(r)
             \/ UpdateWedge \/ GracePasses
      PROVE  Sharing'
  <2>1. UNCHANGED <<pc, users, pdf, file>>
    BY <1>9 DEF TakeSliceSlot, JoinGroup, TakeForGroup, TakeForWhole, ThreadStops, ThreadHangs,
                SetEvent, DeadlinePasses, UpdateWedge, GracePasses
  <2> QED BY <2>1 DEF Sharing
<1>10. CASE UpdateWedge \/ GracePasses
  BY <1>10 DEF UpdateWedge, GracePasses, Sharing
<1>11. CASE EvictIdle
  <2>1. pdf = "ready" /\ users = {} /\ pdf' = "absent" /\ users' = {} /\ pc' = pc
    BY <1>11 DEF EvictIdle, IdleEntry
  <2>2. \A r \in Requests : pc[r] \notin {"fetch", "wait"}
    BY <2>1 DEF Sharing
  <2>3. \A r \in Slices : pc[r] \notin Requested
    BY <2>1 DEF Sharing
  <2> QED BY <2>1, <2>2, <2>3 DEF Sharing
<1>12. CASE RestartService
  BY <1>12 DEF RestartService, Sharing, Requested, Requests
<1> QED
  BY <1>1, <1>2, <1>3, <1>4, <1>5, <1>6, <1>7, <1>8, <1>9, <1>10, <1>11, <1>12
  DEF Next, Loop, Download, Admission, Conversion, WatcherCancels, ClientCancels, TaskCancelled,
      Preempt, Monitor

-----------------------------------------------------------------------------
(* Theorems.                                                               *)

LEMMA Undisturbed == ASSUME Inv, UNCHANGED vars PROVE Inv'
<1>1. Shape' /\ Path' /\ Sharing'
  BY DEF Inv, vars, Shape, Path, Sharing, Requested
<1>2. Queues'
  BY QueuesUndisturbed DEF Inv, vars
<1>3. Counters'
  BY CountersUndisturbed DEF Inv, vars, Counters
<1> QED BY <1>1, <1>2, <1>3 DEF Inv, Counters

LEMMA Stepwise == ASSUME Inv, [Next]_vars PROVE Inv'
<1>1. CASE Next
  BY <1>1, PathStep, QueueStep, CountersStep, SharingStep DEF Inv, Counters
<1>2. CASE UNCHANGED vars
  BY <1>2, Undisturbed
<1> QED BY <1>1, <1>2

LEMMA Invariance == Spec => []Inv
  BY Initially, Stepwise, PTL DEF Spec

\* Every counter of the service is in its range, every queue holds requests, whatever
\* cancels or hangs.
THEOREM TypeCorrect == Spec => []TypeOK
<1>1. ASSUME Inv PROVE TypeOK
  <2> USE <1>1
  <2>1. /\ convertQ \in Seq(Requests) /\ sliceQ \in Seq(Slices) /\ lockQ \in Seq(Slices)
    <3>1. At({"convert", "group"}) \subseteq Requests /\ At({"slice"}) \subseteq Slices
          /\ At({"lock"}) \subseteq Slices
      BY DEF Inv, Path, At
    <3>2. Line(convertQ, Requests) /\ Line(sliceQ, Slices) /\ Line(lockQ, Slices)
      BY <3>1, LineIn DEF Inv, Queues
    <3> QED BY <3>2 DEF Line
  <2>2. /\ held \in 0 .. MaxConcurrent /\ sliceHeld \in 0 .. SliceSlots
        /\ grouped \in 0 .. MaxConcurrent /\ taken \in 0 .. MaxConcurrent /\ active \in 0 .. SliceSlots
    BY Counts, ServiceAssumption DEF Inv, Counted, Bounded
  <2>3. imageActive \in 0 .. MaxConcurrent
    <3>1. ImagesIn \subseteq OthersIn
      BY ServiceAssumption DEF ImagesIn, OthersIn, SlicesIn, Requests
    <3>2. Cardinality(ImagesIn) <= Cardinality(OthersIn)
      BY <3>1, Finite, FS_Subset
    <3> QED BY <3>2, Counts, ServiceAssumption DEF Inv, Counted, Bounded
  <2> QED BY <2>1, <2>2, <2>3 DEF Inv, Shape, TypeOK
<1> QED BY <1>1, Invariance, PTL

\* Whatever cancels a request, and whenever, every slot taken belongs to a request that is
\* served or to the group being formed; only a request cancelled a second time while it
\* gives up its acquire can lose one (app.py 196-250, 1417-1426).
THEOREM SlotsAccounted == Spec => []NoSlotLost
<1>1. ASSUME Inv PROVE NoSlotLost
  <2>1. \A r \in Requests : acq[r] # "none" =>
          \/ pc[r] \in {"queued", "reap", "convert", "stopping"}
          \/ r \in Lost
    BY <1>1 DEF Inv, Path, Requested, Lost
  <2> QED BY <1>1, <2>1 DEF Inv, Counted, NoSlotLost, SlicesIn, OthersIn, Climbing
<1> QED BY <1>1, Invariance, PTL

\* No whole document converts beside a slice, and no more whole documents convert than
\* there are slots, but for threads whose request was cut off (app.py 187-226, 962-977).
THEOREM MachineNotShared == Spec => []WholeConvertsAlone
<1>1. ASSUME Inv PROVE WholeConvertsAlone
  <2> USE <1>1
  <2> DEFINE kept == {r \in Requests : Converts(r) /\ pc[r] # "cut"}
  <2>1. \A r \in kept : r \notin Images => acq[r] = "in"
    BY DEF Inv, Path, Converts
  <2>2. kept \cap Whole \subseteq OthersIn /\ kept \cap Slices \subseteq SlicesIn
    BY <2>1, ServiceAssumption DEF OthersIn, SlicesIn, Requests
  <2> HIDE DEF kept
  <2>3. SlicesIn # {} => Cardinality(OthersIn) = 0
    BY Counts, ServiceAssumption DEF Inv, Counted, Bounded
  <2>4. OthersIn # {} => Cardinality(OthersIn) # 0
    BY Finite, FS_EmptySet
  <2>5. kept \cap Whole = {} \/ kept \cap Slices = {}
    BY <2>2, <2>3, <2>4
  <2>6. /\ Cardinality(kept \cap Whole) <= Cardinality(OthersIn)
        /\ Cardinality(kept \cap Whole) \in Nat
    BY <2>2, Finite, FS_Subset, FS_CardinalityType
  <2>7. Cardinality(OthersIn) <= MaxConcurrent
    BY Counts, ServiceAssumption DEF Inv, Counted, Bounded
  <2>8. Cardinality(kept \cap Whole) <= MaxConcurrent
    BY <2>6, <2>7, Counts, ServiceAssumption
  <2> QED BY <2>5, <2>8 DEF WholeConvertsAlone, kept
<1> QED BY <1>1, Invariance, PTL

\* A slice that has its download keeps the file until it is done: no failed download,
\* eviction or other slice's end removes it (app.py 257-327).
THEOREM DownloadKept == Spec => []SharedPdfKept
<1>1. ASSUME Inv PROVE SharedPdfKept
  BY <1>1 DEF Inv, Sharing, SharedPdfKept, Requested
<1> QED BY <1>1, Invariance, PTL
=============================================================================
