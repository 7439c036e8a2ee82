-------------------------- MODULE JobLifecycleProofs --------------------------
(* Theorems of JobLifecycle, for every set of jobs and sweeps, every number  *)
(* of tries and all timeouts that satisfy TimingAssumption.                  *)
EXTENDS JobLifecycle, TLAPS

\* Frames and small abbreviations, expanded wherever an action is.
USE DEF UploadFrame, ArqFrame, AttemptFrame, OperatorFrame, ReaperFrame, HashKept,
        docVars, UploadTo

-----------------------------------------------------------------------------
(* Type correctness.                                                       *)

HashTyped ==
  /\ status \in [Jobs -> Status]
  /\ reason \in [Jobs -> Reasons]
  /\ faults \in 0 .. MaxFaults

PhasesTyped == pc \in [Jobs -> [Tries -> Phases]]

LEMMA PhaseNames ==
  {"setup", "download", "convert", "child", "busy", "docling", "waiting", "failing",
   "rejecting", "lastbusy", "persist", "mirror", "erring", "dlq", "purge", "cancelled",
   "ack_finish", "ack_retry", "ack_raise", "ack_cancel", "over"} \subseteq Phases
  BY DEF Phases, Live, AtWork, InnerPhases, OuterPhases, AckPhases

LEMMA StatusWriteTyped ==
  ASSUME HashTyped, TimingAssumption,
         NEW j \in Jobs, NEW s \in Status, NEW r \in Reasons,
         SetStatus(j, s, r) \/ SetRaises(j, s)
  PROVE  HashTyped'
<1>1. CASE SetStatus(j, s, r)
  BY <1>1 DEF SetStatus, HashTyped
<1>2. CASE SetRefused(j, s)
  BY <1>2 DEF SetRefused, HashTyped
<1>3. CASE SetFails
  BY <1>3 DEF SetFails, HashTyped, TimingAssumption
<1> QED BY <1>1, <1>2, <1>3 DEF SetRaises

LEMMA StatusOnlyTyped ==
  ASSUME HashTyped, TimingAssumption, NEW j \in Jobs, NEW s \in Status,
         SetStatusOnly(j, s) \/ SetRaises(j, s)
  PROVE  HashTyped'
<1>1. reason[j] \in Reasons
  BY DEF HashTyped
<1> QED BY <1>1, StatusWriteTyped DEF SetStatusOnly

LEMMA FaultTyped ==
  ASSUME HashTyped, TimingAssumption, faults < MaxFaults, faults' = faults + 1
  PROVE  faults' \in 0 .. MaxFaults
  BY DEF HashTyped, TimingAssumption

LEMMA GotoTyped ==
  ASSUME PhasesTyped, NEW j \in Jobs, NEW k \in Tries, NEW p \in Phases, Goto(j, k, p)
  PROVE  PhasesTyped'
  BY DEF PhasesTyped, Goto

LEMMA WriteThenTyped ==
  ASSUME HashTyped, PhasesTyped, TimingAssumption,
         NEW j \in Jobs, NEW k \in Tries, NEW p \in Phases, WriteThen(j, k, "error", "other", p)
  PROVE  HashTyped' /\ PhasesTyped'
<1>1. "error" \in Status /\ "other" \in Reasons
  BY DEF Status, Reasons
<1>2. HashTyped'
  BY <1>1, StatusWriteTyped DEF WriteThen
<1>3. Goto(j, k, p) \/ Goto(j, k, "erring")
  BY DEF WriteThen
<1>4. PhasesTyped'
  BY <1>3, GotoTyped, PhaseNames
<1> QED BY <1>2, <1>4

\* Every variable keeps its type, through every step of every actor.
THEOREM TypeCorrect == Spec => []TypeOK
<1> USE TimingAssumption
<1>1. Init => TypeOK
  BY DEF Init, TypeOK, Status, Reasons, Phases, Tries
<1>2. TypeOK /\ [Next]_vars => TypeOK'
  <2> SUFFICES ASSUME TypeOK, Next PROVE TypeOK'
    BY DEF TypeOK, vars
  <2>a. HashTyped /\ PhasesTyped
    BY DEF TypeOK, HashTyped, PhasesTyped
  <2>b. {"pending", "processing", "done", "error"} \subseteq Status
    BY DEF Status
  <2>c. {"operator_killed", "other"} \subseteq Reasons
    BY DEF Reasons
  <2>1. ASSUME NEW j \in Jobs, Stage(j) PROVE TypeOK'
    BY <2>1 DEF Stage, TypeOK
  <2>2. ASSUME NEW j \in Jobs, Enqueue(j) PROVE TypeOK'
    BY <2>2 DEF Enqueue, TypeOK
  <2>3. ASSUME NEW j \in Jobs, ServerCrash(j) PROVE TypeOK'
    BY <2>3 DEF ServerCrash, TypeOK
  <2>4. ASSUME NEW j \in Jobs, Drop(j) PROVE TypeOK'
    BY <2>4 DEF Drop, TypeOK
  <2>5. ASSUME NEW j \in Jobs, LeaseExpire(j) PROVE TypeOK'
    BY <2>5 DEF LeaseExpire, TypeOK
  <2>6. ASSUME NEW j \in Jobs, Abort(j) PROVE TypeOK'
    BY <2>6 DEF Abort, TypeOK
  <2>7. ASSUME NEW j \in Jobs, ReleaseInProgress(j) PROVE TypeOK'
    BY <2>7 DEF ReleaseInProgress, TypeOK
  <2>8. ASSUME NEW j \in Jobs, OpenPending(j) PROVE TypeOK'
    <3>1. HashTyped'
      BY <2>8, <2>a, <2>b, <2>c, StatusOnlyTyped DEF OpenPending
    <3> QED BY <2>8, <3>1 DEF OpenPending, TypeOK, HashTyped
  <2>9. ASSUME NEW j \in Jobs, MarkEnqueueFailed(j) PROVE TypeOK'
    <3>1. HashTyped'
      BY <2>9, <2>a, <2>b, <2>c, StatusWriteTyped DEF MarkEnqueueFailed
    <3> QED BY <2>9, <3>1 DEF MarkEnqueueFailed, TypeOK, HashTyped
  <2>10. ASSUME NEW j \in Jobs, ForceKill(j) PROVE TypeOK'
    <3>1. HashTyped'
      BY <2>10, <2>a, <2>b, <2>c, StatusWriteTyped DEF ForceKill
    <3> QED BY <2>10, <3>1 DEF ForceKill, TypeOK, HashTyped
  <2>11. ASSUME NEW j \in Jobs, Deliver(j) PROVE TypeOK'
    <3>1. tries[j] + 1 \in Tries
      BY <2>11 DEF Deliver, TypeOK, Tries, TimingAssumption
    <3>2. PhasesTyped'
      BY <2>11, <2>a, <3>1, GotoTyped, PhaseNames DEF Deliver
    <3>3. LeaseTTL \in Nat
      BY DEF LeaseTTL, FunctionTimeout, TimingAssumption
    <3>4. tries' \in [Jobs -> 0 .. MaxTries]
      BY <2>11, <3>1 DEF Deliver, TypeOK, Tries
    <3> QED BY <2>11, <3>2, <3>3, <3>4 DEF Deliver, TypeOK, PhasesTyped
  <2>12. ASSUME NEW j \in Jobs, NEW k \in Tries, Begin(j, k) PROVE TypeOK'
    <3>1. HashTyped'
      BY <2>12, <2>a, <2>b, <2>c, StatusOnlyTyped DEF Begin
    <3>2. PhasesTyped'
      BY <2>12, <2>a, GotoTyped, PhaseNames DEF Begin
    <3> QED BY <2>12, <3>1, <3>2 DEF Begin, TypeOK, HashTyped, PhasesTyped,
      DefaultReapAfter
  <2>13. ASSUME NEW j \in Jobs, NEW k \in Tries, Download(j, k) PROVE TypeOK'
    <3>1. PhasesTyped'
      BY <2>13, <2>a, GotoTyped, PhaseNames DEF Download
    <3> QED BY <2>13, <3>1 DEF Download, TypeOK, PhasesTyped
  <2>14. ASSUME NEW j \in Jobs, NEW k \in Tries, StartChild(j, k) PROVE TypeOK'
    <3>1. PhasesTyped'
      BY <2>14, <2>a, GotoTyped, PhaseNames DEF StartChild
    <3>2. faults' \in 0 .. MaxFaults /\ left' \in [Jobs -> Int]
      BY <2>14, <2>a, FaultTyped DEF StartChild, PersistEffectiveTimeout, TypeOK, ChildBudgets,
        ChildDeadline, FunctionTimeout, Lesser, TimingAssumption
    <3>3. killAt' \in [Jobs -> [Tries -> Nat]]
      <4>1. CASE UNCHANGED killAt
        BY <4>1 DEF TypeOK
      <4>2. CASE age[j][k] < ChildDeadline /\
                 \E budget \in ChildBudgets :
                   killAt' = [killAt EXCEPT ![j][k] =
                                age[j][k] + Lesser(budget, ChildDeadline - age[j][k])]
        <5>1. PICK budget \in ChildBudgets :
                killAt' = [killAt EXCEPT ![j][k] =
                             age[j][k] + Lesser(budget, ChildDeadline - age[j][k])]
          BY <4>2
        <5>2. age[j][k] \in Nat
          BY DEF TypeOK
        <5>3. budget \in Nat
          BY DEF ChildBudgets, Lesser, TimingAssumption
        <5>4. ChildDeadline \in Int
          BY DEF ChildDeadline, FunctionTimeout, TimingAssumption
        <5>5. age[j][k] + Lesser(budget, ChildDeadline - age[j][k]) \in Nat
          BY <4>2, <5>2, <5>3, <5>4 DEF Lesser
        <5> QED BY <5>1, <5>5 DEF TypeOK
      <4> QED BY <2>14, <4>1, <4>2 DEF StartChild
    <3> QED BY <2>14, <3>1, <3>2, <3>3 DEF StartChild, TypeOK, PhasesTyped
  <2>15. ASSUME NEW j \in Jobs, NEW k \in Tries, ChildPersists(j, k) PROVE TypeOK'
    BY <2>15 DEF ChildPersists, TypeOK
  <2>16. ASSUME NEW j \in Jobs, NEW k \in Tries, ChildReturns(j, k) PROVE TypeOK'
    <3>1. PhasesTyped'
      BY <2>16, <2>a, GotoTyped, PhaseNames DEF ChildReturns
    <3> QED BY <2>16, <3>1 DEF ChildReturns, TypeOK, PhasesTyped
  <2>17. ASSUME NEW j \in Jobs, NEW k \in Tries, ReadReason(j, k) PROVE TypeOK'
    <3>1. PhasesTyped'
      BY <2>17, <2>a, GotoTyped, PhaseNames DEF ReadReason
    <3>2. faults' \in 0 .. MaxFaults
      BY <2>17, <2>a, FaultTyped DEF ReadReason, TypeOK
    <3> QED BY <2>17, <3>1, <3>2 DEF ReadReason, TypeOK, PhasesTyped
  <2>18. ASSUME NEW j \in Jobs, NEW k \in Tries, RecordError(j, k) PROVE TypeOK'
    <3>1. HashTyped' /\ PhasesTyped'
      BY <2>18, <2>a, WriteThenTyped, PhaseNames DEF RecordError
    <3> QED BY <2>18, <3>1 DEF RecordError, TypeOK, HashTyped, PhasesTyped, WriteThen
  <2>19. ASSUME NEW j \in Jobs, NEW k \in Tries, Persist(j, k) PROVE TypeOK'
    <3>1. HashTyped'
      <4>1. CASE SetStatusOnly(j, "done") \/ SetRefused(j, "done") \/ SetFails
        BY <4>1, <2>a, <2>b, StatusOnlyTyped DEF SetRaises
      <4>2. CASE /\ faults < MaxFaults
                 /\ faults' = faults + 1
                 /\ status' = [status EXCEPT ![j] = "done"]
                 /\ UNCHANGED reason
        BY <4>2, <2>a, <2>b, FaultTyped DEF HashTyped
      <4> QED BY <2>19, <4>1, <4>2 DEF Persist
    <3>2. PhasesTyped'
      BY <2>19, <2>a, GotoTyped, PhaseNames DEF Persist
    <3> QED BY <2>19, <3>1, <3>2 DEF Persist, TypeOK, HashTyped, PhasesTyped
  <2>20. ASSUME NEW j \in Jobs, NEW k \in Tries, Mirror(j, k) PROVE TypeOK'
    <3>1. PhasesTyped'
      BY <2>20, <2>a, GotoTyped, PhaseNames DEF Mirror
    <3> QED BY <2>20, <3>1 DEF Mirror, TypeOK, PhasesTyped
  <2>21. ASSUME NEW j \in Jobs, NEW k \in Tries, DeadLetter(j, k) PROVE TypeOK'
    <3>1. PhasesTyped'
      BY <2>21, <2>a, GotoTyped, PhaseNames DEF DeadLetter
    <3>2. dlq' \in [Jobs -> {"none", "pushed", "lost"}]
      BY <2>21 DEF DeadLetter, TypeOK
    <3> QED BY <2>21, <3>1, <3>2 DEF DeadLetter, TypeOK, PhasesTyped
  <2>22. ASSUME NEW j \in Jobs, NEW k \in Tries, Purge(j, k) PROVE TypeOK'
    <3>1. PhasesTyped'
      BY <2>22, <2>a, GotoTyped, PhaseNames DEF Purge
    <3> QED BY <2>22, <3>1 DEF Purge, TypeOK, PhasesTyped
  <2>23. ASSUME NEW j \in Jobs, NEW k \in Tries, Cancel(j, k) PROVE TypeOK'
    <3>1. PhasesTyped'
      BY <2>23, <2>a, GotoTyped, PhaseNames DEF Cancel
    <3> QED BY <2>23, <3>1 DEF Cancel, TypeOK, PhasesTyped
  <2>24. ASSUME NEW j \in Jobs, NEW k \in Tries, Crash(j, k) PROVE TypeOK'
    <3>1. PhasesTyped'
      BY <2>24, <2>a, GotoTyped, PhaseNames DEF Crash
    <3> QED BY <2>24, <3>1 DEF Crash, TypeOK, PhasesTyped
  <2>25. ASSUME NEW j \in Jobs, NEW k \in Tries, GenericError(j, k) PROVE TypeOK'
    <3>1. HashTyped'
      BY <2>25, <2>a, <2>b, <2>c, StatusOnlyTyped DEF GenericError
    <3>2. PhasesTyped'
      BY <2>25, <2>a, GotoTyped, PhaseNames DEF GenericError
    <3> QED BY <2>25, <3>1, <3>2 DEF GenericError, TypeOK, HashTyped, PhasesTyped
  <2>26. ASSUME NEW j \in Jobs, NEW k \in Tries, RecordAbort(j, k) PROVE TypeOK'
    <3>1. HashTyped'
      BY <2>26, <2>a, <2>b, <2>c, StatusWriteTyped DEF RecordAbort
    <3>2. PhasesTyped'
      BY <2>26, <2>a, GotoTyped, PhaseNames DEF RecordAbort
    <3> QED BY <2>26, <3>1, <3>2 DEF RecordAbort, TypeOK, HashTyped, PhasesTyped
  <2>27. ASSUME NEW j \in Jobs, NEW k \in Tries, Acknowledge(j, k) PROVE TypeOK'
    <3>1. PhasesTyped'
      BY <2>27, <2>a, GotoTyped, PhaseNames DEF Acknowledge
    <3>2. AckOutcomes(pc[j][k]) \subseteq {"ready", "gone"}
      BY DEF AckOutcomes
    <3>3. queue' \in [Jobs -> {"none", "ready", "running", "gone"}]
      BY <2>27, <3>2 DEF Acknowledge, TypeOK
    <3> QED BY <2>27, <3>1, <3>3 DEF Acknowledge, TypeOK, PhasesTyped
  <2>28. ASSUME NEW j \in Jobs, NEW w \in Sweeps, ReaperRead(j, w) PROVE TypeOK'
    BY <2>28 DEF ReaperRead, TypeOK
  <2>29. ASSUME NEW j \in Jobs, NEW w \in Sweeps, ReaperWrite(j, w) PROVE TypeOK'
    <3>1. HashTyped'
      BY <2>29, <2>a, <2>b, <2>c, StatusWriteTyped DEF ReaperWrite
    <3> QED BY <2>29, <3>1 DEF ReaperWrite, TypeOK, HashTyped
  <2>30. ASSUME Tick PROVE TypeOK'
    BY <2>30 DEF Tick, TypeOK
  <2> QED BY <2>1, <2>2, <2>3, <2>4, <2>5, <2>6, <2>7, <2>8, <2>9, <2>10, <2>11, <2>12,
    <2>13, <2>14, <2>15, <2>16, <2>17, <2>18, <2>19, <2>20, <2>21, <2>22, <2>23, <2>24,
    <2>25, <2>26, <2>27, <2>28, <2>29, <2>30 DEF Next, Upload, Arq, Operator, Attempt,
    Proceed
<1> QED
  BY <1>1, <1>2, PTL DEF Spec

-----------------------------------------------------------------------------
(* The status machine: no step writes the hash around the transition table. *)

HashStep ==
  \/ UNCHANGED <<status, reason>>
  \/ \E j \in Jobs, s \in Status, r \in Reasons :
       /\ status[j] \in AllowedFrom(s)
       /\ status' = [status EXCEPT ![j] = s]
       /\ reason' = [reason EXCEPT ![j] = r]

LEMMA WriteIsHashStep ==
  ASSUME NEW j \in Jobs, NEW s \in Status, NEW r \in Reasons,
         SetStatus(j, s, r) \/ SetRaises(j, s)
  PROVE  HashStep
  BY DEF SetStatus, SetRaises, SetRefused, SetFails, HashStep

LEMMA WriteOnlyIsHashStep ==
  ASSUME HashTyped, NEW j \in Jobs, NEW s \in Status,
         SetStatusOnly(j, s) \/ SetRaises(j, s)
  PROVE  HashStep
<1>1. reason[j] \in Reasons
  BY DEF HashTyped
<1> QED BY <1>1, WriteIsHashStep DEF SetStatusOnly

LEMMA EveryWriteChecked == TypeOK /\ Next => HashStep
<1> SUFFICES ASSUME TypeOK, Next PROVE HashStep
  OBVIOUS
<1>a. HashTyped
  BY DEF TypeOK, HashTyped
<1>b. {"pending", "processing", "done", "error"} \subseteq Status
  BY DEF Status
<1>c. {"operator_killed", "other"} \subseteq Reasons
  BY DEF Reasons
<1>1. ASSUME NEW j \in Jobs, Stage(j) PROVE HashStep
  BY <1>1 DEF Stage, HashStep
<1>2. ASSUME NEW j \in Jobs, Enqueue(j) PROVE HashStep
  BY <1>2 DEF Enqueue, HashStep
<1>3. ASSUME NEW j \in Jobs, ServerCrash(j) PROVE HashStep
  BY <1>3 DEF ServerCrash, HashStep
<1>4. ASSUME NEW j \in Jobs, Deliver(j) PROVE HashStep
  BY <1>4 DEF Deliver, HashStep
<1>5. ASSUME NEW j \in Jobs, Drop(j) PROVE HashStep
  BY <1>5 DEF Drop, HashStep
<1>6. ASSUME NEW j \in Jobs, LeaseExpire(j) PROVE HashStep
  BY <1>6 DEF LeaseExpire, HashStep
<1>7. ASSUME NEW j \in Jobs, Abort(j) PROVE HashStep
  BY <1>7 DEF Abort, HashStep
<1>8. ASSUME NEW j \in Jobs, ReleaseInProgress(j) PROVE HashStep
  BY <1>8 DEF ReleaseInProgress, HashStep
<1>9. ASSUME NEW j \in Jobs, NEW k \in Tries, Download(j, k) PROVE HashStep
  BY <1>9 DEF Download, HashStep
<1>10. ASSUME NEW j \in Jobs, NEW k \in Tries, StartChild(j, k) PROVE HashStep
  BY <1>10 DEF StartChild, HashStep
<1>11. ASSUME NEW j \in Jobs, NEW k \in Tries, ChildPersists(j, k) PROVE HashStep
  BY <1>11 DEF ChildPersists, HashStep
<1>12. ASSUME NEW j \in Jobs, NEW k \in Tries, ChildReturns(j, k) PROVE HashStep
  BY <1>12 DEF ChildReturns, HashStep
<1>13. ASSUME NEW j \in Jobs, NEW k \in Tries, ReadReason(j, k) PROVE HashStep
  BY <1>13 DEF ReadReason, HashStep
<1>14. ASSUME NEW j \in Jobs, NEW k \in Tries, Mirror(j, k) PROVE HashStep
  BY <1>14 DEF Mirror, HashStep
<1>15. ASSUME NEW j \in Jobs, NEW k \in Tries, DeadLetter(j, k) PROVE HashStep
  BY <1>15 DEF DeadLetter, HashStep
<1>16. ASSUME NEW j \in Jobs, NEW k \in Tries, Purge(j, k) PROVE HashStep
  BY <1>16 DEF Purge, HashStep
<1>17. ASSUME NEW j \in Jobs, NEW k \in Tries, Acknowledge(j, k) PROVE HashStep
  BY <1>17 DEF Acknowledge, HashStep
<1>18. ASSUME NEW j \in Jobs, NEW k \in Tries, Cancel(j, k) PROVE HashStep
  BY <1>18 DEF Cancel, HashStep
<1>19. ASSUME NEW j \in Jobs, NEW k \in Tries, Crash(j, k) PROVE HashStep
  BY <1>19 DEF Crash, HashStep
<1>20. ASSUME NEW j \in Jobs, NEW w \in Sweeps, ReaperRead(j, w) PROVE HashStep
  BY <1>20 DEF ReaperRead, HashStep
<1>21. ASSUME NEW j \in Jobs, OpenPending(j) PROVE HashStep
  BY <1>21, <1>a, <1>b, <1>c, WriteOnlyIsHashStep DEF OpenPending
<1>22. ASSUME NEW j \in Jobs, MarkEnqueueFailed(j) PROVE HashStep
  BY <1>22, <1>a, <1>b, <1>c, WriteIsHashStep DEF MarkEnqueueFailed
<1>23. ASSUME NEW j \in Jobs, ForceKill(j) PROVE HashStep
  BY <1>23, <1>a, <1>b, <1>c, WriteIsHashStep DEF ForceKill
<1>24. ASSUME NEW j \in Jobs, NEW k \in Tries, Begin(j, k) PROVE HashStep
  BY <1>24, <1>a, <1>b, <1>c, WriteOnlyIsHashStep DEF Begin
<1>25. ASSUME NEW j \in Jobs, NEW k \in Tries, RecordError(j, k) PROVE HashStep
  BY <1>25, <1>a, <1>b, <1>c, WriteIsHashStep DEF RecordError, WriteThen
<1>26. ASSUME NEW j \in Jobs, NEW k \in Tries, Persist(j, k) PROVE HashStep
  <2>1. CASE SetStatusOnly(j, "done") \/ SetRefused(j, "done") \/ SetFails
    BY <2>1, <1>a, <1>b, WriteOnlyIsHashStep DEF SetRaises
  <2>2. CASE /\ status[j] \in AllowedFrom("done")
             /\ status' = [status EXCEPT ![j] = "done"]
             /\ UNCHANGED reason
    <3>1. reason[j] \in Reasons /\ reason' = [reason EXCEPT ![j] = reason[j]]
      BY <2>2, <1>a DEF HashTyped
    <3> QED BY <2>2, <3>1, <1>b DEF HashStep
  <2> QED BY <1>26, <2>1, <2>2 DEF Persist
<1>27. ASSUME NEW j \in Jobs, NEW k \in Tries, GenericError(j, k) PROVE HashStep
  BY <1>27, <1>a, <1>b, <1>c, WriteOnlyIsHashStep DEF GenericError
<1>28. ASSUME NEW j \in Jobs, NEW k \in Tries, RecordAbort(j, k) PROVE HashStep
  BY <1>28, <1>a, <1>b, <1>c, WriteIsHashStep DEF RecordAbort
<1>29. ASSUME NEW j \in Jobs, NEW w \in Sweeps, ReaperWrite(j, w) PROVE HashStep
  BY <1>29, <1>a, <1>b, <1>c, WriteIsHashStep DEF ReaperWrite
<1>30. ASSUME Tick PROVE HashStep
  BY <1>30 DEF Tick, HashStep
<1> QED BY <1>1, <1>2, <1>3, <1>4, <1>5, <1>6, <1>7, <1>8, <1>9, <1>10, <1>11, <1>12,
  <1>13, <1>14, <1>15, <1>16, <1>17, <1>18, <1>19, <1>20, <1>21, <1>22, <1>23, <1>24,
  <1>25, <1>26, <1>27, <1>28, <1>29, <1>30 DEF Next, Upload, Arq, Operator, Attempt,
  Proceed

\* A job that has been processed stays in these statuses.
Opened == {"processing", "done", "error"}

LEMMA HashStepKeeps ==
  ASSUME HashTyped, HashStep, NEW i \in Jobs
  PROVE  /\ status[i] = "done" => status'[i] = "done" /\ reason'[i] = reason[i]
         /\ status[i] \in Opened => status'[i] \in Opened
<1>1. CASE UNCHANGED <<status, reason>>
  BY <1>1
<1>2. ASSUME NEW j \in Jobs, NEW s \in Status, NEW r \in Reasons,
             status[j] \in AllowedFrom(s),
             status' = [status EXCEPT ![j] = s],
             reason' = [reason EXCEPT ![j] = r]
      PROVE  /\ status[i] = "done" => status'[i] = "done" /\ reason'[i] = reason[i]
             /\ status[i] \in Opened => status'[i] \in Opened
  <2>1. "done" \notin AllowedFrom(s)
    BY DEF AllowedFrom, ValidTransitions, Status
  <2>2. status[j] \in Opened => s \in Opened
    BY <1>2 DEF AllowedFrom, ValidTransitions, Status, Opened
  <2>3. CASE i = j
    BY <1>2, <2>1, <2>2, <2>3 DEF HashTyped
  <2>4. CASE i # j
    BY <1>2, <2>4 DEF HashTyped
  <2> QED BY <2>3, <2>4
<1> QED BY <1>1, <1>2 DEF HashStep

\* Once DONE, a job's status and reason never change again: whatever the reaper,
\* the operator, a failed enqueue or a redelivery writes is refused.
THEOREM DoneStays == Spec => DoneIsFinal
<1>1. TypeOK /\ [Next]_vars =>
        (\A j \in Jobs : status[j] = "done" => status'[j] = "done" /\ reason'[j] = reason[j])
  <2>1. CASE UNCHANGED vars
    BY <2>1 DEF vars
  <2>2. CASE TypeOK /\ Next
    BY <2>2, EveryWriteChecked, HashStepKeeps DEF TypeOK, HashTyped
  <2> QED BY <2>1, <2>2
<1> QED
  BY <1>1, TypeCorrect, PTL DEF Spec, DoneIsFinal

-----------------------------------------------------------------------------
(* A finished conversion is recorded.                                      *)

LEMMA GotoEffect ==
  ASSUME PhasesTyped, NEW j \in Jobs, NEW k \in Tries, NEW p, Goto(j, k, p),
         NEW i \in Jobs, NEW m \in Tries
  PROVE  pc'[i][m] = IF i = j /\ m = k THEN p ELSE pc[i][m]
  BY DEF PhasesTyped, Goto

\* Every attempt past its first write finds the job opened, and DONE once it is
\* through its success branch.
SuccessInv ==
  \A j \in Jobs, k \in Tries :
    /\ pc[j][k] \in Working => status[j] \in Opened
    /\ pc[j][k] = "mirror" => status[j] = "done"

LEMMA StillKeepsSuccess ==
  ASSUME TypeOK, HashStep, SuccessInv, pc' = pc
  PROVE  SuccessInv'
  BY HashStepKeeps DEF SuccessInv, TypeOK, HashTyped

LEMMA MoveKeepsSuccess ==
  ASSUME TypeOK, HashStep, SuccessInv, NEW j \in Jobs, NEW k \in Tries, NEW p, Goto(j, k, p),
         p \in Working => pc[j][k] \in Working \/ status'[j] \in Opened,
         p = "mirror" => status'[j] = "done"
  PROVE  SuccessInv'
<1> SUFFICES ASSUME NEW i \in Jobs, NEW m \in Tries
             PROVE  /\ pc'[i][m] \in Working => status'[i] \in Opened
                    /\ pc'[i][m] = "mirror" => status'[i] = "done"
  BY DEF SuccessInv
<1>1. pc'[i][m] = IF i = j /\ m = k THEN p ELSE pc[i][m]
  BY GotoEffect DEF TypeOK, PhasesTyped
<1>2. /\ status[i] = "done" => status'[i] = "done"
      /\ status[i] \in Opened => status'[i] \in Opened
  BY HashStepKeeps DEF TypeOK, HashTyped
<1> QED BY <1>1, <1>2 DEF SuccessInv

\* An attempt that reports its result leaves the job DONE even if the reaper, the
\* operator or the upload handler wrote ERROR while its child was converting.
THEOREM SuccessAlwaysRecorded == Spec => []SuccessRecorded
<1>1. Init => SuccessInv
  BY DEF Init, SuccessInv, Working, InnerPhases
<1>2. TypeOK /\ SuccessInv /\ [Next]_vars => SuccessInv'
  <2> SUFFICES ASSUME TypeOK, SuccessInv, Next PROVE SuccessInv'
    BY DEF SuccessInv, vars
  <2>a. HashStep
    BY EveryWriteChecked
  <2>1. ASSUME NEW j \in Jobs, Stage(j) PROVE SuccessInv'
    BY <2>1, <2>a, StillKeepsSuccess DEF Stage
  <2>2. ASSUME NEW j \in Jobs, OpenPending(j) PROVE SuccessInv'
    BY <2>2, <2>a, StillKeepsSuccess DEF OpenPending
  <2>3. ASSUME NEW j \in Jobs, Enqueue(j) PROVE SuccessInv'
    BY <2>3, <2>a, StillKeepsSuccess DEF Enqueue
  <2>4. ASSUME NEW j \in Jobs, MarkEnqueueFailed(j) PROVE SuccessInv'
    BY <2>4, <2>a, StillKeepsSuccess DEF MarkEnqueueFailed
  <2>5. ASSUME NEW j \in Jobs, ServerCrash(j) PROVE SuccessInv'
    BY <2>5, <2>a, StillKeepsSuccess DEF ServerCrash
  <2>6. ASSUME NEW j \in Jobs, Drop(j) PROVE SuccessInv'
    BY <2>6, <2>a, StillKeepsSuccess DEF Drop
  <2>7. ASSUME NEW j \in Jobs, LeaseExpire(j) PROVE SuccessInv'
    BY <2>7, <2>a, StillKeepsSuccess DEF LeaseExpire
  <2>8. ASSUME NEW j \in Jobs, Abort(j) PROVE SuccessInv'
    BY <2>8, <2>a, StillKeepsSuccess DEF Abort
  <2>9. ASSUME NEW j \in Jobs, ForceKill(j) PROVE SuccessInv'
    BY <2>9, <2>a, StillKeepsSuccess DEF ForceKill
  <2>10. ASSUME NEW j \in Jobs, ReleaseInProgress(j) PROVE SuccessInv'
    BY <2>10, <2>a, StillKeepsSuccess DEF ReleaseInProgress
  <2>11. ASSUME NEW j \in Jobs, NEW k \in Tries, ChildPersists(j, k) PROVE SuccessInv'
    BY <2>11, <2>a, StillKeepsSuccess DEF ChildPersists
  <2>12. ASSUME NEW j \in Jobs, NEW w \in Sweeps, ReaperRead(j, w) PROVE SuccessInv'
    BY <2>12, <2>a, StillKeepsSuccess DEF ReaperRead
  <2>13. ASSUME NEW j \in Jobs, NEW w \in Sweeps, ReaperWrite(j, w) PROVE SuccessInv'
    BY <2>13, <2>a, StillKeepsSuccess DEF ReaperWrite
  <2>14. ASSUME Tick PROVE SuccessInv'
    BY <2>14, <2>a, StillKeepsSuccess DEF Tick
  <2>15. ASSUME NEW j \in Jobs, Deliver(j) PROVE SuccessInv'
    <3>1. tries[j] + 1 \in Tries
      BY <2>15, TimingAssumption DEF Deliver, TypeOK, Tries
    <3> QED BY <2>15, <2>a, <3>1, MoveKeepsSuccess DEF Deliver, Working
  <2>16. ASSUME NEW j \in Jobs, NEW k \in Tries, Begin(j, k) PROVE SuccessInv'
    <3>1. CASE SetStatusOnly(j, "processing") /\ Goto(j, k, "download")
      <4>1. status'[j] = "processing"
        BY <3>1 DEF SetStatusOnly, SetStatus, TypeOK
      <4> QED BY <2>a, <3>1, <4>1, MoveKeepsSuccess DEF Opened
    <3>2. CASE Goto(j, k, "erring")
      BY <2>a, <3>2, MoveKeepsSuccess DEF Working, InnerPhases
    <3> QED BY <2>16, <3>1, <3>2 DEF Begin
  <2>17. ASSUME NEW j \in Jobs, NEW k \in Tries, Persist(j, k) PROVE SuccessInv'
    <3>1. CASE SetStatusOnly(j, "done") /\ Goto(j, k, "mirror")
      <4>1. status'[j] = "done"
        BY <3>1 DEF SetStatusOnly, SetStatus, TypeOK
      <4> QED BY <2>a, <3>1, <4>1, MoveKeepsSuccess DEF Opened
    <3>2. CASE SetRefused(j, "done") /\ Goto(j, k, "mirror")
      <4>1. status[j] \in Opened
        BY <2>17 DEF Persist, SuccessInv, Working, InnerPhases
      <4>2. {"processing", "error"} \subseteq AllowedFrom("done")
        BY DEF AllowedFrom, ValidTransitions, Status
      <4>3. status'[j] = "done"
        BY <3>2, <4>1, <4>2 DEF SetRefused, Opened
      <4> QED BY <2>a, <3>2, <4>3, MoveKeepsSuccess DEF Opened
    <3>3. CASE Goto(j, k, "erring")
      BY <2>a, <3>3, MoveKeepsSuccess DEF Working, InnerPhases
    <3> QED BY <2>17, <3>1, <3>2, <3>3 DEF Persist
  <2>18. ASSUME NEW j \in Jobs, NEW k \in Tries, Download(j, k) PROVE SuccessInv'
    <3>1. \E p : Goto(j, k, p) /\ p # "mirror" /\ (p \in Working => pc[j][k] \in Working)
      BY <2>18 DEF Download, Working, InnerPhases
    <3> QED BY <3>1, <2>a, MoveKeepsSuccess
  <2>19. ASSUME NEW j \in Jobs, NEW k \in Tries, StartChild(j, k) PROVE SuccessInv'
    <3>1. \E p : Goto(j, k, p) /\ p # "mirror" /\ (p \in Working => pc[j][k] \in Working)
      BY <2>19 DEF StartChild, Working, InnerPhases
    <3> QED BY <3>1, <2>a, MoveKeepsSuccess
  <2>20. ASSUME NEW j \in Jobs, NEW k \in Tries, ChildReturns(j, k) PROVE SuccessInv'
    <3>1. \E p : Goto(j, k, p) /\ p # "mirror" /\ (p \in Working => pc[j][k] \in Working)
      BY <2>20 DEF ChildReturns, Working, InnerPhases
    <3> QED BY <3>1, <2>a, MoveKeepsSuccess
  <2>21. ASSUME NEW j \in Jobs, NEW k \in Tries, ReadReason(j, k) PROVE SuccessInv'
    <3>1. \E p : Goto(j, k, p) /\ p # "mirror" /\ (p \in Working => pc[j][k] \in Working)
      BY <2>21 DEF ReadReason, Working, InnerPhases
    <3> QED BY <3>1, <2>a, MoveKeepsSuccess
  <2>22. ASSUME NEW j \in Jobs, NEW k \in Tries, RecordError(j, k) PROVE SuccessInv'
    <3>1. \E p : Goto(j, k, p) /\ p # "mirror" /\ (p \in Working => pc[j][k] \in Working)
      BY <2>22 DEF RecordError, Working, InnerPhases, WriteThen
    <3> QED BY <3>1, <2>a, MoveKeepsSuccess
  <2>23. ASSUME NEW j \in Jobs, NEW k \in Tries, Mirror(j, k) PROVE SuccessInv'
    <3>1. \E p : Goto(j, k, p) /\ p # "mirror" /\ (p \in Working => pc[j][k] \in Working)
      BY <2>23 DEF Mirror, Working, InnerPhases
    <3> QED BY <3>1, <2>a, MoveKeepsSuccess
  <2>24. ASSUME NEW j \in Jobs, NEW k \in Tries, GenericError(j, k) PROVE SuccessInv'
    <3>1. \E p : Goto(j, k, p) /\ p # "mirror" /\ (p \in Working => pc[j][k] \in Working)
      BY <2>24 DEF GenericError, Working, InnerPhases
    <3> QED BY <3>1, <2>a, MoveKeepsSuccess
  <2>25. ASSUME NEW j \in Jobs, NEW k \in Tries, DeadLetter(j, k) PROVE SuccessInv'
    <3>1. \E p : Goto(j, k, p) /\ p # "mirror" /\ (p \in Working => pc[j][k] \in Working)
      BY <2>25 DEF DeadLetter, Working, InnerPhases
    <3> QED BY <3>1, <2>a, MoveKeepsSuccess
  <2>26. ASSUME NEW j \in Jobs, NEW k \in Tries, Purge(j, k) PROVE SuccessInv'
    <3>1. \E p : Goto(j, k, p) /\ p # "mirror" /\ (p \in Working => pc[j][k] \in Working)
      BY <2>26 DEF Purge, Working, InnerPhases
    <3> QED BY <3>1, <2>a, MoveKeepsSuccess
  <2>27. ASSUME NEW j \in Jobs, NEW k \in Tries, RecordAbort(j, k) PROVE SuccessInv'
    <3>1. \E p : Goto(j, k, p) /\ p # "mirror" /\ (p \in Working => pc[j][k] \in Working)
      BY <2>27 DEF RecordAbort, Working, InnerPhases
    <3> QED BY <3>1, <2>a, MoveKeepsSuccess
  <2>28. ASSUME NEW j \in Jobs, NEW k \in Tries, Acknowledge(j, k) PROVE SuccessInv'
    <3>1. \E p : Goto(j, k, p) /\ p # "mirror" /\ (p \in Working => pc[j][k] \in Working)
      BY <2>28 DEF Acknowledge, Working, InnerPhases, AckPhases
    <3> QED BY <3>1, <2>a, MoveKeepsSuccess
  <2>29. ASSUME NEW j \in Jobs, NEW k \in Tries, Cancel(j, k) PROVE SuccessInv'
    <3>1. \E p : Goto(j, k, p) /\ p # "mirror" /\ (p \in Working => pc[j][k] \in Working)
      BY <2>29 DEF Cancel, Working, InnerPhases, OuterPhases
    <3> QED BY <3>1, <2>a, MoveKeepsSuccess
  <2>30. ASSUME NEW j \in Jobs, NEW k \in Tries, Crash(j, k) PROVE SuccessInv'
    <3>1. \E p : Goto(j, k, p) /\ p # "mirror" /\ (p \in Working => pc[j][k] \in Working)
      BY <2>30 DEF Crash, Working, InnerPhases
    <3> QED BY <3>1, <2>a, MoveKeepsSuccess
  <2> QED BY <2>1, <2>2, <2>3, <2>4, <2>5, <2>6, <2>7, <2>8, <2>9, <2>10, <2>11, <2>12,
    <2>13, <2>14, <2>15, <2>16, <2>17, <2>18, <2>19, <2>20, <2>21, <2>22, <2>23, <2>24,
    <2>25, <2>26, <2>27, <2>28, <2>29, <2>30 DEF Next, Upload, Arq, Operator, Attempt,
    Proceed
<1>3. SuccessInv => SuccessRecorded
  BY DEF SuccessInv, SuccessRecorded
<1> QED
  BY <1>1, <1>2, <1>3, TypeCorrect, PTL DEF Spec

-----------------------------------------------------------------------------
(* The staged original outlives the need for it.                           *)

Settled(j) ==
  \/ j \in persisted
  \/ j \in rejected
  \/ tries[j] = MaxTries /\ dlq[j] # "none"

\* A job reaches arq only after its upload is staged, an attempt exists only for
\* a job arq has, each phase on the way to the purge carries its reason, and a
\* missing original is settled.
KeptInv ==
  \A j \in Jobs :
    /\ upload[j] \in {"new", "staged", "opened"} => queue[j] = "none"
    /\ upload[j] \in {"staged", "opened"} => j \in staged
    /\ queue[j] # "none" /\ j \notin staged => Settled(j)
    /\ \A k \in Tries :
         /\ pc[j][k] # "idle" => queue[j] # "none" /\ k <= tries[j]
         /\ pc[j][k] \in {"persist", "mirror"} => j \in persisted
         /\ pc[j][k] = "rejecting" => j \in rejected
         /\ pc[j][k] = "dlq" => k = MaxTries
         /\ pc[j][k] = "purge" => Settled(j)

\* A step of an attempt that leaves the upload, the queue and the original alone
\* has only its new phase to account for.
LEMMA MoveKeepsOriginal ==
  ASSUME TypeOK, KeptInv, NEW j \in Jobs, NEW k \in Tries, NEW p, Goto(j, k, p),
         pc[j][k] # "idle",
         UNCHANGED <<upload, staged, queue, tries>>,
         persisted \subseteq persisted', rejected \subseteq rejected',
         \A i \in Jobs : dlq[i] # "none" => dlq'[i] # "none",
         p \in {"persist", "mirror"} => j \in persisted',
         p = "rejecting" => j \in rejected',
         p = "dlq" => k = MaxTries,
         p = "purge" => Settled(j)'
  PROVE  KeptInv'
<1>1. \A i \in Jobs, m \in Tries : pc'[i][m] = IF i = j /\ m = k THEN p ELSE pc[i][m]
  BY GotoEffect DEF TypeOK, PhasesTyped
<1>2. \A i \in Jobs : Settled(i) => Settled(i)'
  BY DEF Settled
<1> QED BY <1>1, <1>2 DEF KeptInv

\* A step that starts or moves no attempt and leaves the originals alone.
LEMMA StillKeepsOriginal ==
  ASSUME KeptInv, UNCHANGED <<pc, tries, dlq, rejected>>,
         staged \subseteq staged', persisted \subseteq persisted',
         \A i \in Jobs :
           /\ upload'[i] \in {"new", "staged", "opened"} => queue'[i] = "none"
           /\ upload'[i] \in {"staged", "opened"} => i \in staged'
           /\ queue[i] # "none" => queue'[i] # "none"
           /\ queue'[i] # "none" /\ queue[i] = "none" => i \in staged'
  PROVE  KeptInv'
<1>1. \A i \in Jobs : Settled(i) => Settled(i)'
  BY DEF Settled
<1> QED BY <1>1 DEF KeptInv

LEMMA KeptInvariance == Spec => []KeptInv
<1> USE TimingAssumption
<1>1. Init => KeptInv
  <2>1. Init => \A j \in Jobs, k \in Tries : pc[j][k] = "idle"
    BY DEF Init
  <2>2. Init => \A j \in Jobs : upload[j] = "new" /\ queue[j] = "none"
    BY DEF Init
  <2> QED BY <2>1, <2>2 DEF KeptInv
<1>2. TypeOK /\ KeptInv /\ [Next]_vars => KeptInv'
  <2> SUFFICES ASSUME TypeOK, KeptInv, Next PROVE KeptInv'
    <3>1. ASSUME KeptInv, UNCHANGED vars PROVE KeptInv'
      BY <3>1 DEF KeptInv, Settled, vars
    <3> QED BY <3>1
  <2>1. ASSUME NEW j \in Jobs, Stage(j) PROVE KeptInv'
    BY <2>1, StillKeepsOriginal DEF Stage, KeptInv, TypeOK
  <2>2. ASSUME NEW j \in Jobs, OpenPending(j) PROVE KeptInv'
    BY <2>2, StillKeepsOriginal DEF OpenPending, KeptInv, TypeOK
  <2>3. ASSUME NEW j \in Jobs, Enqueue(j) PROVE KeptInv'
    BY <2>3, StillKeepsOriginal DEF Enqueue, KeptInv, TypeOK
  <2>4. ASSUME NEW j \in Jobs, MarkEnqueueFailed(j) PROVE KeptInv'
    BY <2>4, StillKeepsOriginal DEF MarkEnqueueFailed, KeptInv, TypeOK
  <2>5. ASSUME NEW j \in Jobs, ServerCrash(j) PROVE KeptInv'
    BY <2>5, StillKeepsOriginal DEF ServerCrash, KeptInv, TypeOK
  <2>6. ASSUME NEW j \in Jobs, Drop(j) PROVE KeptInv'
    BY <2>6, StillKeepsOriginal DEF Drop, KeptInv, TypeOK
  <2>7. ASSUME NEW j \in Jobs, LeaseExpire(j) PROVE KeptInv'
    BY <2>7, StillKeepsOriginal DEF LeaseExpire, KeptInv, TypeOK
  <2>8. ASSUME NEW j \in Jobs, Abort(j) PROVE KeptInv'
    BY <2>8, StillKeepsOriginal DEF Abort, KeptInv, TypeOK
  <2>9. ASSUME NEW j \in Jobs, ForceKill(j) PROVE KeptInv'
    BY <2>9, StillKeepsOriginal DEF ForceKill, KeptInv, TypeOK
  <2>10. ASSUME NEW j \in Jobs, ReleaseInProgress(j) PROVE KeptInv'
    BY <2>10, StillKeepsOriginal DEF ReleaseInProgress, KeptInv, TypeOK
  <2>11. ASSUME NEW j \in Jobs, NEW k \in Tries, ChildPersists(j, k) PROVE KeptInv'
    BY <2>11, StillKeepsOriginal DEF ChildPersists, KeptInv, TypeOK
  <2>12. ASSUME NEW j \in Jobs, NEW w \in Sweeps, ReaperRead(j, w) PROVE KeptInv'
    BY <2>12, StillKeepsOriginal DEF ReaperRead, KeptInv, TypeOK
  <2>13. ASSUME NEW j \in Jobs, NEW w \in Sweeps, ReaperWrite(j, w) PROVE KeptInv'
    BY <2>13, StillKeepsOriginal DEF ReaperWrite, KeptInv, TypeOK
  <2>14. ASSUME Tick PROVE KeptInv'
    BY <2>14, StillKeepsOriginal DEF Tick, KeptInv
  <2>15. ASSUME NEW j \in Jobs, Deliver(j) PROVE KeptInv'
    <3>1. tries[j] + 1 \in Tries
      BY <2>15 DEF Deliver, TypeOK, Tries
    <3>2. \A i \in Jobs, m \in Tries :
            pc'[i][m] = IF i = j /\ m = tries[j] + 1 THEN "setup" ELSE pc[i][m]
      BY <2>15, <3>1, GotoEffect DEF Deliver, TypeOK, PhasesTyped
    <3>3. \A i \in Jobs : tries[i] \in Int /\ tries'[i] \in Int /\ tries[i] <= tries'[i]
      BY <2>15 DEF Deliver, TypeOK
    <3>4. \A i \in Jobs : Settled(i) => Settled(i)'
      BY <2>15, TypeOK DEF Deliver, Settled, TypeOK
    <3>5. \A i \in Jobs : (queue'[i] # "none") <=> (queue[i] # "none")
      BY <2>15 DEF Deliver, TypeOK
    <3>6. \A i \in Jobs, m \in Tries : pc[i][m] # "idle" => m <= tries'[i]
      <4> SUFFICES ASSUME NEW i \in Jobs, NEW m \in Tries, pc[i][m] # "idle"
                   PROVE  m <= tries'[i]
        OBVIOUS
      <4>1. m <= tries[i] /\ m \in Int
        BY DEF KeptInv, Tries
      <4> QED BY <3>3, <4>1
    <3>7. tries'[j] = tries[j] + 1 /\ queue[j] # "none" /\ tries[j] \in Nat
      BY <2>15 DEF Deliver, TypeOK
    <3> QED BY <2>15, <3>2, <3>4, <3>5, <3>6, <3>7 DEF Deliver, KeptInv
  <2>16. ASSUME NEW j \in Jobs, NEW k \in Tries, Begin(j, k) PROVE KeptInv'
    BY <2>16, MoveKeepsOriginal DEF Begin
  <2>17. ASSUME NEW j \in Jobs, NEW k \in Tries, Download(j, k) PROVE KeptInv'
    BY <2>17, MoveKeepsOriginal DEF Download
  <2>18. ASSUME NEW j \in Jobs, NEW k \in Tries, StartChild(j, k) PROVE KeptInv'
    BY <2>18, MoveKeepsOriginal DEF StartChild
  <2>19. ASSUME NEW j \in Jobs, NEW k \in Tries, ReadReason(j, k) PROVE KeptInv'
    BY <2>19, MoveKeepsOriginal DEF ReadReason
  <2>20. ASSUME NEW j \in Jobs, NEW k \in Tries, RecordError(j, k) PROVE KeptInv'
    BY <2>20, MoveKeepsOriginal DEF RecordError, WriteThen, KeptInv, Settled
  <2>21. ASSUME NEW j \in Jobs, NEW k \in Tries, Persist(j, k) PROVE KeptInv'
    BY <2>21, MoveKeepsOriginal DEF Persist, KeptInv
  <2>22. ASSUME NEW j \in Jobs, NEW k \in Tries, Mirror(j, k) PROVE KeptInv'
    BY <2>22, MoveKeepsOriginal DEF Mirror, KeptInv, Settled
  <2>23. ASSUME NEW j \in Jobs, NEW k \in Tries, GenericError(j, k) PROVE KeptInv'
    BY <2>23, MoveKeepsOriginal DEF GenericError
  <2>24. ASSUME NEW j \in Jobs, NEW k \in Tries, RecordAbort(j, k) PROVE KeptInv'
    BY <2>24, MoveKeepsOriginal DEF RecordAbort
  <2>25. ASSUME NEW j \in Jobs, NEW k \in Tries, Crash(j, k) PROVE KeptInv'
    BY <2>25, MoveKeepsOriginal DEF Crash, Live, AtWork, InnerPhases, OuterPhases,
      AckPhases
  <2>26. ASSUME NEW j \in Jobs, NEW k \in Tries, ChildReturns(j, k) PROVE KeptInv'
    BY <2>26, MoveKeepsOriginal DEF ChildReturns
  <2>27. ASSUME NEW j \in Jobs, NEW k \in Tries, DeadLetter(j, k) PROVE KeptInv'
    <3>1. tries[j] = MaxTries
      <4>1. k = MaxTries /\ k <= tries[j]
        BY <2>27 DEF DeadLetter, KeptInv
      <4>2. tries[j] \in 0 .. MaxTries
        BY DEF TypeOK
      <4> QED BY <4>1, <4>2
    <3>2. dlq'[j] # "none" /\ \A i \in Jobs : dlq[i] # "none" => dlq'[i] # "none"
      BY <2>27 DEF DeadLetter, TypeOK
    <3>3. Settled(j)'
      BY <2>27, <3>1, <3>2 DEF DeadLetter, Settled
    <3> QED BY <2>27, <3>2, <3>3, MoveKeepsOriginal DEF DeadLetter
  <2>28. ASSUME NEW j \in Jobs, NEW k \in Tries, Purge(j, k) PROVE KeptInv'
    <3>1. \A i \in Jobs, m \in Tries : pc'[i][m] = IF i = j /\ m = k THEN "ack_finish" ELSE pc[i][m]
      BY <2>28, GotoEffect DEF Purge, TypeOK, PhasesTyped
    <3>2. Settled(j) /\ upload[j] \notin {"new", "staged", "opened"}
      BY <2>28 DEF Purge, KeptInv
    <3>3. \A i \in Jobs : Settled(i)' <=> Settled(i)
      BY <2>28 DEF Purge, Settled
    <3>4. \A i \in Jobs : i # j => (i \in staged' <=> i \in staged)
      BY <2>28 DEF Purge
    <3> QED BY <2>28, <3>1, <3>2, <3>3, <3>4 DEF Purge, KeptInv
  <2>29. ASSUME NEW j \in Jobs, NEW k \in Tries, Cancel(j, k) PROVE KeptInv'
    <3>1. CASE UNCHANGED staged
      BY <2>29, <3>1, MoveKeepsOriginal DEF Cancel, InnerPhases, OuterPhases
    <3>2. CASE pc[j][k] = "purge" /\ staged' \in {staged, staged \ {j}} /\ Goto(j, k, "ack_cancel")
      <4>1. \A i \in Jobs, m \in Tries :
              pc'[i][m] = IF i = j /\ m = k THEN "ack_cancel" ELSE pc[i][m]
        BY <3>2, GotoEffect DEF TypeOK, PhasesTyped
      <4>2. Settled(j) /\ upload[j] \notin {"new", "staged", "opened"}
        BY <3>2 DEF KeptInv
      <4>3. \A i \in Jobs : Settled(i)' <=> Settled(i)
        BY <2>29 DEF Cancel, Settled
      <4>4. \A i \in Jobs : i # j => (i \in staged' <=> i \in staged)
        BY <3>2
      <4> QED BY <2>29, <3>2, <4>1, <4>2, <4>3, <4>4 DEF Cancel, KeptInv
    <3> QED BY <2>29, <3>1, <3>2 DEF Cancel, InnerPhases, OuterPhases
  <2>30. ASSUME NEW j \in Jobs, NEW k \in Tries, Acknowledge(j, k) PROVE KeptInv'
    <3>1. \A i \in Jobs, m \in Tries : pc'[i][m] = IF i = j /\ m = k THEN "over" ELSE pc[i][m]
      BY <2>30, GotoEffect DEF Acknowledge, TypeOK, PhasesTyped
    <3>2. queue[j] # "none"
      BY <2>30 DEF Acknowledge, KeptInv, AckPhases
    <3>3. \A i \in Jobs : (queue'[i] # "none") <=> (queue[i] # "none")
      BY <2>30, <3>2 DEF Acknowledge, AckOutcomes, TypeOK
    <3>4. \A i \in Jobs : Settled(i)' <=> Settled(i)
      BY <2>30 DEF Acknowledge, Settled
    <3>5. UNCHANGED <<upload, staged, tries, persisted, rejected>>
      BY <2>30 DEF Acknowledge
    <3>6. pc[j][k] # "idle"
      BY <2>30 DEF Acknowledge, AckPhases
    <3> QED BY <3>1, <3>2, <3>3, <3>4, <3>5, <3>6 DEF KeptInv
  <2> QED BY <2>1, <2>2, <2>3, <2>4, <2>5, <2>6, <2>7, <2>8, <2>9, <2>10, <2>11, <2>12,
    <2>13, <2>14, <2>15, <2>16, <2>17, <2>18, <2>19, <2>20, <2>21, <2>22, <2>23, <2>24,
    <2>25, <2>26, <2>27, <2>28, <2>29, <2>30 DEF Next, Upload, Arq, Operator, Attempt,
    Proceed
<1> QED
  BY <1>1, <1>2, TypeCorrect, PTL DEF Spec

\* Every retry arq makes can download the original: it is deleted only once the
\* document is persisted, rejected for good, or dead-lettered on the last try.
THEOREM OriginalAlwaysKept == Spec => []OriginalKeptUntilSettled
<1>1. KeptInv => OriginalKeptUntilSettled
  BY DEF KeptInv, OriginalKeptUntilSettled, Settled
<1> QED BY <1>1, KeptInvariance, PTL

-----------------------------------------------------------------------------
(* The clocks of an attempt.                                               *)

\* An attempt that runs has what its lease has lost; the code of a live one is within the
\* function timeout, and its settling within the budget.  While no operator has released
\* the key, a live attempt is the one arq counts as in progress.
LeaseInv ==
  \A j \in Jobs, k \in Tries :
    /\ pc[j][k] \notin Live => age[j][k] = 0
    /\ pc[j][k] = "setup" => age[j][k] = 0
    /\ pc[j][k] \in AtWork => age[j][k] <= FunctionTimeout
    /\ pc[j][k] \in Live => age[j][k] <= FunctionTimeout + CancelBudget
    /\ SettledWithinLease /\ operator[j] # "done" /\ pc[j][k] \in Live =>
         queue[j] = "running" /\ k = tries[j] /\ age[j][k] + lease[j] = LeaseTTL

\* The reaper's deadline is never before the end of the function timeout of an attempt
\* that works.
DeadlineInv ==
  CapWithinJobTimeout =>
    \A j \in Jobs, k \in Tries :
      pc[j][k] \in Working => left[j] + age[j][k] >= DefaultReapAfter

\* A dead letter is written for a job in ERROR, by the last attempt, which works no more
\* after it.
DeadLetterInv ==
  \A j \in Jobs :
    SettledWithinLease /\ operator[j] # "done" =>
      /\ dlq[j] # "none" =>
           /\ status[j] # "done" /\ tries[j] = MaxTries
           /\ \A k \in Tries : pc[j][k] \notin Working \cup {"setup"}
      /\ \A k \in Tries : pc[j][k] = "dlq" => status[j] # "done" /\ k = MaxTries

\* What a step can be to these: an attempt moves on, ends or starts, time passes, or none
\* of that.
Moves(j, k, p) ==
  /\ Goto(j, k, p)
  /\ p \in Live
  /\ pc[j][k] \in Live
  /\ UNCHANGED <<age, lease, queue, tries, operator>>
  /\ p # "setup"
  /\ p \in AtWork => pc[j][k] \in AtWork
  /\ \/ left' = left /\ (p \in Working => pc[j][k] \in Working)
     \/ left' = [left EXCEPT ![j] = DefaultReapAfter] /\ pc[j][k] = "setup"
     \/ ~CapWithinJobTimeout
  /\ p \in Working => pc[j][k] \in Working \cup {"setup"}
  /\ \A i \in Jobs : status'[i] = "done" => status[i] = "done" \/ (i = j /\ pc[j][k] = "persist")
  /\ p = "dlq" => status'[j] # "done" /\ k = MaxTries
  /\ \/ dlq' = dlq
     \/ pc[j][k] = "dlq" /\ p = "purge" /\ \A i \in Jobs : i # j => dlq'[i] = dlq[i]

Ends(j, k) ==
  /\ Goto(j, k, "over")
  /\ pc[j][k] \in Live
  /\ age' = [age EXCEPT ![j][k] = 0]
  /\ UNCHANGED <<lease, tries, operator, left, status, dlq>>
  /\ \A i \in Jobs : i # j => queue'[i] = queue[i]

Quiet ==
  /\ UNCHANGED <<pc, age, tries, left, dlq>>
  /\ \A i \in Jobs :
       /\ operator'[i] # "done" =>
            /\ operator[i] # "done"
            /\ lease'[i] = lease[i]
            /\ queue'[i] = queue[i] \/ queue[i] # "running" \/ lease[i] = 0
       /\ status'[i] = "done" => status[i] = "done"

StepKinds ==
  \/ \E j \in Jobs, k \in Tries : (\E p \in Phases : Moves(j, k, p)) \/ Ends(j, k)
  \/ \E j \in Jobs : Deliver(j)
  \/ Tick
  \/ Quiet

LEMMA PhasesDistinct ==
  /\ Working = {"download", "convert", "child", "busy", "docling", "waiting", "failing",
                "rejecting", "lastbusy", "persist", "mirror"}
  /\ AtWork = Working \cup {"setup", "erring", "dlq", "purge"}
  /\ Live = AtWork \cup {"cancelled", "ack_finish", "ack_retry", "ack_raise", "ack_cancel"}
  BY DEF Working, AtWork, Live, InnerPhases, OuterPhases, AckPhases

LEMMA WriteNotDone ==
  ASSUME HashTyped, NEW j \in Jobs, NEW s \in Status \ {"done"}, NEW r,
         SetStatus(j, s, r) \/ SetRaises(j, s)
  PROVE  \A i \in Jobs : status'[i] = "done" => status[i] = "done"
  BY DEF SetStatus, SetRaises, SetRefused, SetFails, HashTyped

LEMMA EveryStepIsOfAKind == TypeOK /\ KeptInv /\ Next => StepKinds
<1> SUFFICES ASSUME TypeOK, KeptInv, Next PROVE StepKinds
  OBVIOUS
<1> USE PhasesDistinct, TimingAssumption
<1>a. HashTyped
  BY DEF TypeOK, HashTyped
<1>b. {"pending", "processing", "error"} \subseteq Status \ {"done"}
  BY DEF Status
<1>1. ASSUME NEW j \in Jobs, Stage(j) \/ Enqueue(j) \/ ServerCrash(j) PROVE Quiet
  BY <1>1 DEF Stage, Enqueue, ServerCrash, Quiet, KeptInv, TypeOK
<1>2. ASSUME NEW j \in Jobs, OpenPending(j) \/ MarkEnqueueFailed(j) PROVE Quiet
  <2>1. \A i \in Jobs : status'[i] = "done" => status[i] = "done"
    BY <1>2, <1>a, <1>b, WriteNotDone DEF OpenPending, MarkEnqueueFailed, SetStatusOnly
  <2> QED BY <1>2, <2>1 DEF OpenPending, MarkEnqueueFailed, Quiet
<1>3. ASSUME NEW j \in Jobs, Drop(j) \/ LeaseExpire(j) PROVE Quiet
  BY <1>3 DEF Drop, LeaseExpire, Quiet, TypeOK
<1>4. ASSUME NEW j \in Jobs, Abort(j) \/ ReleaseInProgress(j) PROVE Quiet
  BY <1>4 DEF Abort, ReleaseInProgress, Quiet, TypeOK
<1>5. ASSUME NEW j \in Jobs, ForceKill(j) PROVE Quiet
  <2>1. \A i \in Jobs : status'[i] = "done" => status[i] = "done"
    BY <1>5, <1>a, <1>b, WriteNotDone DEF ForceKill
  <2> QED BY <1>5, <2>1 DEF ForceKill, Quiet, TypeOK
<1>6. ASSUME NEW j \in Jobs, NEW w \in Sweeps, ReaperRead(j, w) \/ ReaperWrite(j, w) PROVE Quiet
  <2>1. \A i \in Jobs : status'[i] = "done" => status[i] = "done"
    BY <1>6, <1>a, <1>b, WriteNotDone DEF ReaperRead, ReaperWrite
  <2> QED BY <1>6, <2>1 DEF ReaperRead, ReaperWrite, Quiet
<1>7. ASSUME NEW j \in Jobs, NEW k \in Tries, Acknowledge(j, k) \/ Crash(j, k) PROVE Ends(j, k)
  BY <1>7 DEF Acknowledge, Crash, Ends, AckPhases, TypeOK
<1>8. ASSUME NEW j \in Jobs, NEW k \in Tries, Download(j, k)
      PROVE  \E p \in Phases : Moves(j, k, p)
  <2>1. PICK p \in {"convert", "erring"} : Goto(j, k, p)
    BY <1>8 DEF Download
  <2>2. p \in Phases
    BY PhaseNames
  <2>3. Moves(j, k, p)
    BY <1>8, <2>1 DEF Download, Moves, TypeOK
  <2> QED BY <2>2, <2>3
<1>9. ASSUME NEW j \in Jobs, NEW k \in Tries, ChildReturns(j, k)
      PROVE  \E p \in Phases : Moves(j, k, p)
  <2>1. PICK p \in {"persist", "failing", "docling", "rejecting"} : Goto(j, k, p)
    BY <1>9 DEF ChildReturns
  <2>2. p \in Phases
    BY PhaseNames
  <2>3. Moves(j, k, p)
    BY <1>9, <2>1 DEF ChildReturns, Moves, TypeOK
  <2> QED BY <2>2, <2>3
<1>10. ASSUME NEW j \in Jobs, NEW k \in Tries, ReadReason(j, k)
      PROVE  \E p \in Phases : Moves(j, k, p)
  <2>1. PICK p \in {"failing", "waiting", "erring"} : Goto(j, k, p)
    BY <1>10 DEF ReadReason
  <2>2. p \in Phases
    BY PhaseNames
  <2>3. Moves(j, k, p)
    BY <1>10, <2>1 DEF ReadReason, Moves, TypeOK
  <2> QED BY <2>2, <2>3
<1>11. ASSUME NEW j \in Jobs, NEW k \in Tries, Mirror(j, k)
      PROVE  \E p \in Phases : Moves(j, k, p)
  <2>1. PICK p \in {"purge"} : Goto(j, k, p)
    BY <1>11 DEF Mirror
  <2>2. p \in Phases
    BY PhaseNames
  <2>3. Moves(j, k, p)
    BY <1>11, <2>1 DEF Mirror, Moves, TypeOK
  <2> QED BY <2>2, <2>3
<1>12. ASSUME NEW j \in Jobs, NEW k \in Tries, DeadLetter(j, k)
      PROVE  \E p \in Phases : Moves(j, k, p)
  <2>1. PICK p \in {"purge"} : Goto(j, k, p)
    BY <1>12 DEF DeadLetter
  <2>2. p \in Phases
    BY PhaseNames
  <2>3. Moves(j, k, p)
    BY <1>12, <2>1 DEF DeadLetter, Moves, TypeOK
  <2> QED BY <2>2, <2>3
<1>13. ASSUME NEW j \in Jobs, NEW k \in Tries, Purge(j, k)
      PROVE  \E p \in Phases : Moves(j, k, p)
  <2>1. PICK p \in {"ack_finish"} : Goto(j, k, p)
    BY <1>13 DEF Purge
  <2>2. p \in Phases
    BY PhaseNames
  <2>3. Moves(j, k, p)
    BY <1>13, <2>1 DEF Purge, Moves, TypeOK
  <2> QED BY <2>2, <2>3
<1>14. ASSUME NEW j \in Jobs, NEW k \in Tries, Cancel(j, k)
      PROVE  \E p \in Phases : Moves(j, k, p)
  <2>1. PICK p \in {"cancelled", "ack_cancel"} : Goto(j, k, p)
    BY <1>14 DEF Cancel
  <2>2. p \in Phases
    BY PhaseNames
  <2>3. Moves(j, k, p)
    BY <1>14, <2>1 DEF Cancel, Moves, TypeOK, InnerPhases, OuterPhases
  <2> QED BY <2>2, <2>3
<1>15. ASSUME NEW j \in Jobs, NEW k \in Tries, ChildPersists(j, k) PROVE Quiet
  BY <1>15 DEF ChildPersists, Quiet
<1>16. ASSUME NEW j \in Jobs, NEW k \in Tries, Begin(j, k)
       PROVE  \E p \in Phases : Moves(j, k, p)
  <2>1. \A i \in Jobs : status'[i] = "done" => status[i] = "done"
    BY <1>16, <1>a, <1>b, WriteNotDone DEF Begin, SetStatusOnly
  <2>2. CASE left' = [left EXCEPT ![j] = DefaultReapAfter] /\ Goto(j, k, "download")
    <3>1. Moves(j, k, "download")
      BY <1>16, <2>1, <2>2 DEF Begin, Moves
    <3> QED BY <3>1, PhaseNames
  <2>3. CASE UNCHANGED left /\ Goto(j, k, "erring")
    <3>1. Moves(j, k, "erring")
      BY <1>16, <2>1, <2>3 DEF Begin, Moves
    <3> QED BY <3>1, PhaseNames
  <2> QED BY <1>16, <2>2, <2>3 DEF Begin
<1>17. ASSUME NEW j \in Jobs, NEW k \in Tries, StartChild(j, k)
       PROVE  \E p \in Phases : Moves(j, k, p)
  <2>1. PICK p \in {"child", "failing", "busy", "lastbusy", "erring"} : Goto(j, k, p)
    BY <1>17 DEF StartChild
  <2>2. CapWithinJobTimeout => left' = left
    <3> SUFFICES ASSUME CapWithinJobTimeout,
                        NEW budget \in ChildBudgets,
                        PersistEffectiveTimeout(j, k, Lesser(budget, ChildDeadline - age[j][k]))
                 PROVE  left' = left
      BY <1>17 DEF StartChild
    <3>1. budget \in Int /\ budget <= MaxEffective
      BY DEF ChildBudgets, Lesser
    <3>2. ChildDeadline - age[j][k] \in Int
      BY DEF ChildDeadline, FunctionTimeout, TypeOK
    <3>3. ~(Lesser(budget, ChildDeadline - age[j][k]) > JobTimeout)
      BY <3>1, <3>2 DEF Lesser, CapWithinJobTimeout
    <3> QED BY <3>3 DEF PersistEffectiveTimeout, TypeOK
  <2>3. Moves(j, k, p)
    BY <1>17, <2>1, <2>2 DEF StartChild, Moves
  <2> QED BY <2>1, <2>3, PhaseNames
<1>18. ASSUME NEW j \in Jobs, NEW k \in Tries, RecordError(j, k)
       PROVE  \E p \in Phases : Moves(j, k, p)
  <2>1. PICK p \in {"ack_retry", "purge", "dlq", "ack_raise"} :
          /\ WriteThen(j, k, "error", "other", p)
          /\ pc[j][k] \in {"busy", "waiting", "rejecting", "failing", "lastbusy"}
          /\ p = "dlq" => k = MaxTries
    BY <1>18 DEF RecordError
  <2>2. \A i \in Jobs : status'[i] = "done" => status[i] = "done"
    BY <2>1, <1>a, <1>b, WriteNotDone DEF WriteThen
  <2>3. CASE SetStatus(j, "error", "other") /\ Goto(j, k, p)
    <3>1. status'[j] # "done"
      BY <2>3 DEF SetStatus, TypeOK
    <3>2. Moves(j, k, p)
      BY <2>1, <2>2, <2>3, <3>1 DEF WriteThen, Moves
    <3> QED BY <3>2, <2>1, PhaseNames
  <2>4. CASE Goto(j, k, "erring")
    <3>1. Moves(j, k, "erring")
      BY <2>1, <2>2, <2>4 DEF WriteThen, Moves
    <3> QED BY <3>1, PhaseNames
  <2> QED BY <2>1, <2>3, <2>4 DEF WriteThen
<1>19. ASSUME NEW j \in Jobs, NEW k \in Tries, Persist(j, k)
       PROVE  \E p \in Phases : Moves(j, k, p)
  <2>1. PICK p \in {"mirror", "erring"} : Goto(j, k, p)
    BY <1>19 DEF Persist
  <2>2. \A i \in Jobs : i # j => status'[i] = status[i]
    BY <1>19 DEF Persist, SetStatusOnly, SetStatus, SetRefused, SetFails, TypeOK
  <2>3. Moves(j, k, p)
    BY <1>19, <2>1, <2>2 DEF Persist, Moves
  <2> QED BY <2>1, <2>3, PhaseNames
<1>20. ASSUME NEW j \in Jobs, NEW k \in Tries, GenericError(j, k)
       PROVE  \E p \in Phases : Moves(j, k, p)
  <2>1. \A i \in Jobs : status'[i] = "done" => status[i] = "done"
    BY <1>20, <1>a, <1>b, WriteNotDone DEF GenericError, SetStatusOnly
  <2>2. CASE SetStatusOnly(j, "error") /\ Goto(j, k, IF k = MaxTries THEN "dlq" ELSE "ack_raise")
    <3>1. status'[j] # "done"
      BY <2>2 DEF SetStatusOnly, SetStatus, TypeOK
    <3>2. CASE k = MaxTries
      <4>1. Moves(j, k, "dlq")
        BY <1>20, <2>1, <2>2, <3>1, <3>2 DEF GenericError, Moves
      <4> QED BY <4>1, PhaseNames
    <3>3. CASE k # MaxTries
      <4>1. Moves(j, k, "ack_raise")
        BY <1>20, <2>1, <2>2, <3>3 DEF GenericError, Moves
      <4> QED BY <4>1, PhaseNames
    <3> QED BY <3>2, <3>3
  <2>3. CASE Goto(j, k, "ack_raise")
    <3>1. Moves(j, k, "ack_raise")
      BY <1>20, <2>1, <2>3 DEF GenericError, Moves
    <3> QED BY <3>1, PhaseNames
  <2> QED BY <1>20, <2>2, <2>3 DEF GenericError
<1>21. ASSUME NEW j \in Jobs, NEW k \in Tries, RecordAbort(j, k)
       PROVE  \E p \in Phases : Moves(j, k, p)
  <2>1. \A i \in Jobs : status'[i] = "done" => status[i] = "done"
    BY <1>21, <1>a, <1>b, WriteNotDone DEF RecordAbort
  <2>2. Moves(j, k, "ack_cancel")
    BY <1>21, <2>1 DEF RecordAbort, Moves
  <2> QED BY <2>2, PhaseNames
<1> QED
  BY <1>1, <1>2, <1>3, <1>4, <1>5, <1>6, <1>7, <1>8, <1>9, <1>10, <1>11, <1>12, <1>13, <1>14, <1>15, <1>16, <1>17, <1>18, <1>19, <1>20, <1>21
  DEF Next, Upload, Arq, Operator, Attempt, Proceed, StepKinds

LEMMA Durations ==
  /\ FunctionTimeout \in Nat /\ LeaseTTL \in Nat /\ DefaultReapAfter \in Nat
  /\ CancelBudget \in Nat
  /\ SettledWithinLease => FunctionTimeout + CancelBudget < LeaseTTL
  /\ CapWithinJobTimeout => FunctionTimeout <= DefaultReapAfter
  BY TimingAssumption
  DEF FunctionTimeout, LeaseTTL, DefaultReapAfter, SettledWithinLease, CapWithinJobTimeout

\* A job that nobody works on has a first attempt to come that is as old as none.
LEMMA DeliveryIsFresh ==
  ASSUME TypeOK, KeptInv, LeaseInv, NEW j \in Jobs, Deliver(j)
  PROVE  /\ tries[j] + 1 \in Tries
         /\ \A i \in Jobs, m \in Tries :
              pc'[i][m] = IF i = j /\ m = tries[j] + 1 THEN "setup" ELSE pc[i][m]
         /\ pc[j][tries[j] + 1] = "idle" /\ age[j][tries[j] + 1] = 0
<1>1. tries[j] + 1 \in Tries
  BY TimingAssumption DEF Deliver, TypeOK, Tries
<1>2. \A i \in Jobs, m \in Tries :
        pc'[i][m] = IF i = j /\ m = tries[j] + 1 THEN "setup" ELSE pc[i][m]
  BY <1>1, GotoEffect DEF Deliver, TypeOK, PhasesTyped
<1>3. pc[j][tries[j] + 1] = "idle"
  <2>1. ~(tries[j] + 1 <= tries[j])
    BY DEF TypeOK
  <2> QED BY <1>1, <2>1 DEF KeptInv
<1>4. age[j][tries[j] + 1] = 0
  BY <1>1, <1>3, PhasesDistinct DEF LeaseInv
<1> QED BY <1>1, <1>2, <1>3, <1>4

LEMMA LeaseMoves ==
  ASSUME TypeOK, LeaseInv, NEW j \in Jobs, NEW k \in Tries, NEW p, Moves(j, k, p)
  PROVE  LeaseInv'
<1>1. \A i \in Jobs, m \in Tries : pc'[i][m] = IF i = j /\ m = k THEN p ELSE pc[i][m]
  BY GotoEffect DEF Moves, TypeOK, PhasesTyped
<1>2. p \in Live /\ pc[j][k] \in Live /\ p # "setup" /\ (p \in AtWork => pc[j][k] \in AtWork)
      /\ UNCHANGED <<age, lease, queue, tries, operator>>
  BY DEF Moves
<1> QED BY <1>1, <1>2 DEF LeaseInv

LEMMA LeaseEnds ==
  ASSUME TypeOK, LeaseInv, NEW j \in Jobs, NEW k \in Tries, Ends(j, k)
  PROVE  LeaseInv'
<1>1. \A i \in Jobs, m \in Tries : pc'[i][m] = IF i = j /\ m = k THEN "over" ELSE pc[i][m]
  BY GotoEffect DEF Ends, TypeOK, PhasesTyped
<1>2. \A i \in Jobs, m \in Tries : age'[i][m] = IF i = j /\ m = k THEN 0 ELSE age[i][m]
  BY DEF Ends, TypeOK
<1>3. pc[j][k] \in Live /\ UNCHANGED <<lease, tries, operator>>
      /\ \A i \in Jobs : i # j => queue'[i] = queue[i]
  BY DEF Ends
<1>4. "over" \notin Live /\ "over" \notin AtWork
  BY PhasesDistinct
<1>5. ASSUME NEW m \in Tries, SettledWithinLease, operator[j] # "done", pc[j][m] \in Live
      PROVE  m = k
  BY <1>3, <1>5 DEF LeaseInv
<1> QED BY <1>1, <1>2, <1>3, <1>4, <1>5 DEF LeaseInv

LEMMA LeaseDelivers ==
  ASSUME TypeOK, KeptInv, LeaseInv, NEW j \in Jobs, Deliver(j)
  PROVE  LeaseInv'
<1>1. /\ tries[j] + 1 \in Tries /\ age[j][tries[j] + 1] = 0
      /\ \A i \in Jobs, m \in Tries :
           pc'[i][m] = IF i = j /\ m = tries[j] + 1 THEN "setup" ELSE pc[i][m]
  BY DeliveryIsFresh
<1>2. UNCHANGED <<age, operator>> /\ queue[j] = "ready"
      /\ queue'[j] = "running" /\ tries'[j] = tries[j] + 1 /\ lease'[j] = LeaseTTL
      /\ \A i \in Jobs : i # j => queue'[i] = queue[i] /\ tries'[i] = tries[i] /\ lease'[i] = lease[i]
  BY DEF Deliver, TypeOK
<1>3. "setup" \in Live /\ "setup" \in AtWork
  BY PhasesDistinct
<1>4. ASSUME NEW m \in Tries, SettledWithinLease, operator[j] # "done" PROVE pc[j][m] \notin Live
  BY <1>2, <1>4 DEF LeaseInv
<1>5. 0 <= FunctionTimeout /\ 0 <= FunctionTimeout + CancelBudget /\ 0 + LeaseTTL = LeaseTTL
  BY Durations
<1> QED BY <1>1, <1>2, <1>3, <1>4, <1>5 DEF LeaseInv

\* A live attempt is not overdue when time passes, and its lease has not run out.
LEMMA LeaseTicks ==
  ASSUME TypeOK, LeaseInv, Tick
  PROVE  LeaseInv'
<1>1. UNCHANGED <<pc, operator, queue, tries>>
  BY DEF Tick
<1>2. SUFFICES ASSUME NEW j \in Jobs, NEW k \in Tries
      PROVE  /\ pc[j][k] \notin Live => age'[j][k] = 0
             /\ pc[j][k] = "setup" => age'[j][k] = 0
             /\ pc[j][k] \in AtWork => age'[j][k] <= FunctionTimeout
             /\ pc[j][k] \in Live => age'[j][k] <= FunctionTimeout + CancelBudget
             /\ SettledWithinLease /\ operator[j] # "done" /\ pc[j][k] \in Live =>
                  queue[j] = "running" /\ k = tries[j] /\ age'[j][k] + lease'[j] = LeaseTTL
  BY <1>1 DEF LeaseInv
<1>3. ~Overdue(j, k)
  BY DEF Tick
<1>4. age[j][k] \in Nat /\ lease[j] \in Nat
  BY DEF TypeOK
<1>5. age'[j][k] = IF pc[j][k] \in Live THEN age[j][k] + 1 ELSE age[j][k]
  BY DEF Tick
<1>6. lease'[j] = IF queue[j] = "running" /\ lease[j] > 0 THEN lease[j] - 1 ELSE lease[j]
  BY DEF Tick
<1>7. CASE pc[j][k] \notin Live
  BY <1>5, <1>7, PhasesDistinct DEF LeaseInv
<1>8. CASE pc[j][k] \in Live
  <2>1. age'[j][k] = age[j][k] + 1 /\ age[j][k] < FunctionTimeout + CancelBudget
        /\ (pc[j][k] \in AtWork => age[j][k] < FunctionTimeout) /\ pc[j][k] # "setup"
    BY <1>3, <1>4, <1>5, <1>8, Durations DEF Overdue
  <2>2. ASSUME SettledWithinLease, operator[j] # "done"
        PROVE  queue[j] = "running" /\ k = tries[j] /\ age'[j][k] + lease'[j] = LeaseTTL
    <3>1. queue[j] = "running" /\ k = tries[j] /\ age[j][k] + lease[j] = LeaseTTL
      BY <1>8, <2>2 DEF LeaseInv
    <3>2. lease[j] > 0
      BY <1>4, <2>1, <2>2, <3>1, Durations
    <3> QED BY <1>4, <1>6, <2>1, <3>1, <3>2, Durations
  <2> QED BY <1>4, <1>8, <2>1, <2>2, Durations
<1> QED BY <1>7, <1>8

LEMMA LeaseQuiet ==
  ASSUME TypeOK, LeaseInv, Quiet
  PROVE  LeaseInv'
<1>1. UNCHANGED <<pc, age, tries>>
  BY DEF Quiet
<1>2. ASSUME NEW j \in Jobs, NEW k \in Tries, SettledWithinLease, operator'[j] # "done",
             pc[j][k] \in Live
      PROVE  queue'[j] = "running" /\ k = tries[j] /\ age[j][k] + lease'[j] = LeaseTTL
  <2>1. operator[j] # "done" /\ lease'[j] = lease[j]
        /\ (queue'[j] = queue[j] \/ queue[j] # "running" \/ lease[j] = 0)
    BY <1>2 DEF Quiet
  <2>2. queue[j] = "running" /\ k = tries[j] /\ age[j][k] + lease[j] = LeaseTTL
        /\ age[j][k] <= FunctionTimeout + CancelBudget
    BY <1>2, <2>1 DEF LeaseInv
  <2>3. lease[j] # 0
    <3>1. age[j][k] \in Nat
      BY DEF TypeOK
    <3> QED BY <1>2, <2>2, <3>1, Durations
  <2> QED BY <2>1, <2>2, <2>3
<1> QED BY <1>1, <1>2 DEF LeaseInv

LEMMA DeadlineStep ==
  ASSUME TypeOK, KeptInv, LeaseInv, DeadlineInv, StepKinds
  PROVE  DeadlineInv'
<1> SUFFICES ASSUME CapWithinJobTimeout
             PROVE  \A j \in Jobs, k \in Tries :
                      pc'[j][k] \in Working => left'[j] + age'[j][k] >= DefaultReapAfter
  BY DEF DeadlineInv
<1>a. \A j \in Jobs, k \in Tries : pc[j][k] \in Working => left[j] + age[j][k] >= DefaultReapAfter
  BY DEF DeadlineInv
<1>b. \A j \in Jobs, k \in Tries : age[j][k] \in Nat /\ left[j] \in Int
  BY DEF TypeOK
<1>1. ASSUME NEW j \in Jobs, NEW k \in Tries, NEW p, Moves(j, k, p)
      PROVE  \A i \in Jobs, m \in Tries :
               pc'[i][m] \in Working => left'[i] + age'[i][m] >= DefaultReapAfter
  <2>1. \A i \in Jobs, m \in Tries : pc'[i][m] = IF i = j /\ m = k THEN p ELSE pc[i][m]
    BY <1>1, GotoEffect DEF Moves, TypeOK, PhasesTyped
  <2>2. age' = age
    BY <1>1 DEF Moves
  <2>3. CASE left' = left /\ (p \in Working => pc[j][k] \in Working)
    BY <1>a, <2>1, <2>2, <2>3
  <2>4. CASE left' = [left EXCEPT ![j] = DefaultReapAfter]
    <3>1. \A i \in Jobs : left'[i] = IF i = j THEN DefaultReapAfter ELSE left[i]
      BY <2>4 DEF TypeOK
    <3>2. \A m \in Tries : left'[j] + age[j][m] >= DefaultReapAfter
      BY <1>b, <3>1, Durations
    <3> QED BY <1>a, <2>1, <2>2, <3>1, <3>2
  <2> QED BY <1>1, <2>3, <2>4 DEF Moves
<1>2. ASSUME NEW j \in Jobs, NEW k \in Tries, Ends(j, k)
      PROVE  \A i \in Jobs, m \in Tries :
               pc'[i][m] \in Working => left'[i] + age'[i][m] >= DefaultReapAfter
  <2>1. \A i \in Jobs, m \in Tries : pc'[i][m] = IF i = j /\ m = k THEN "over" ELSE pc[i][m]
    BY <1>2, GotoEffect DEF Ends, TypeOK, PhasesTyped
  <2>2. \A i \in Jobs, m \in Tries : age'[i][m] = IF i = j /\ m = k THEN 0 ELSE age[i][m]
    BY <1>2 DEF Ends, TypeOK
  <2>3. left' = left /\ "over" \notin Working
    BY <1>2, PhasesDistinct DEF Ends
  <2> QED BY <1>a, <2>1, <2>2, <2>3
<1>3. ASSUME NEW j \in Jobs, Deliver(j)
      PROVE  \A i \in Jobs, m \in Tries :
               pc'[i][m] \in Working => left'[i] + age'[i][m] >= DefaultReapAfter
  <2>1. UNCHANGED <<left, age>> /\ "setup" \notin Working
    BY <1>3, PhasesDistinct DEF Deliver
  <2> QED BY <1>3, <1>a, <2>1, DeliveryIsFresh
<1>4. ASSUME Tick
      PROVE  \A i \in Jobs, m \in Tries :
               pc'[i][m] \in Working => left'[i] + age'[i][m] >= DefaultReapAfter
  <2> SUFFICES ASSUME NEW i \in Jobs, NEW m \in Tries, pc[i][m] \in Working
               PROVE  left'[i] + age'[i][m] >= DefaultReapAfter
    BY <1>4 DEF Tick
  <2>1. age'[i][m] = age[i][m] + 1 /\ left'[i] >= left[i] - 1 /\ left'[i] \in Int
    BY <1>4, <1>b, PhasesDistinct DEF Tick
  <2> QED BY <1>a, <1>b, <2>1, Durations
<1>5. CASE Quiet
  BY <1>a, <1>5 DEF Quiet
<1> QED BY <1>1, <1>2, <1>3, <1>4, <1>5 DEF StepKinds

LEMMA DeadLetterStep ==
  ASSUME TypeOK, KeptInv, LeaseInv, DeadLetterInv, StepKinds
  PROVE  DeadLetterInv'
<1> USE PhasesDistinct
<1>1. ASSUME NEW j \in Jobs, NEW k \in Tries, NEW p, Moves(j, k, p)
      PROVE  DeadLetterInv'
  <2>1. \A i \in Jobs, m \in Tries : pc'[i][m] = IF i = j /\ m = k THEN p ELSE pc[i][m]
    BY <1>1, GotoEffect DEF Moves, TypeOK, PhasesTyped
  <2>2. /\ UNCHANGED <<tries, operator>> /\ p # "setup"
        /\ \A i \in Jobs : i # j => dlq'[i] = dlq[i] /\ (status'[i] = "done" => status[i] = "done")
        /\ status'[j] = "done" => status[j] = "done" \/ pc[j][k] = "persist"
        /\ p \in Working => pc[j][k] \in Working \cup {"setup"}
        /\ p = "dlq" => status'[j] # "done" /\ k = MaxTries
        /\ dlq'[j] = dlq[j] \/ (pc[j][k] = "dlq" /\ p = "purge")
    <3>1. dlq' = dlq \/ (pc[j][k] = "dlq" /\ p = "purge" /\ \A i \in Jobs : i # j => dlq'[i] = dlq[i])
      BY <1>1 DEF Moves
    <3> QED BY <1>1, <3>1 DEF Moves
  <2> SUFFICES ASSUME SettledWithinLease, operator[j] # "done"
               PROVE  /\ dlq'[j] # "none" =>
                           /\ status'[j] # "done" /\ tries[j] = MaxTries
                           /\ \A m \in Tries : pc'[j][m] \notin Working \cup {"setup"}
                      /\ \A m \in Tries : pc'[j][m] = "dlq" => status'[j] # "done" /\ m = MaxTries
    BY <2>1, <2>2 DEF DeadLetterInv
  <2>3. ASSUME NEW m \in Tries, pc[j][m] \in Live PROVE m = k /\ m = tries[j]
    <3>1. pc[j][k] \in Live
      BY <1>1 DEF Moves
    <3> QED BY <2>3, <3>1 DEF LeaseInv
  <2>4. pc[j][k] \in Live
    BY <1>1 DEF Moves
  <2>5. \A m \in Tries : m # k => pc'[j][m] \notin Live
    BY <2>1, <2>3
  <2>6. ASSUME dlq'[j] # "none"
        PROVE  /\ status'[j] # "done" /\ tries[j] = MaxTries
               /\ \A m \in Tries : pc'[j][m] \notin Working \cup {"setup"}
    <3>1. CASE dlq[j] # "none"
      <4>1. /\ status[j] # "done" /\ tries[j] = MaxTries
            /\ \A m \in Tries : pc[j][m] \notin Working \cup {"setup"}
        BY <3>1 DEF DeadLetterInv
      <4> QED BY <2>1, <2>2, <4>1
    <3>2. CASE dlq[j] = "none"
      <4>1. pc[j][k] = "dlq" /\ p = "purge"
        BY <2>2, <2>6, <3>2
      <4>2. status[j] # "done" /\ k = MaxTries
        BY <4>1 DEF DeadLetterInv
      <4>3. k = tries[j]
        BY <2>3, <2>4
      <4> QED BY <2>1, <2>2, <2>5, <4>1, <4>2, <4>3
    <3> QED BY <3>1, <3>2
  <2>7. ASSUME NEW m \in Tries, pc'[j][m] = "dlq" PROVE status'[j] # "done" /\ m = MaxTries
    <3>1. m = k /\ p = "dlq"
      BY <2>1, <2>5, <2>7
    <3> QED BY <2>2, <3>1
  <2> QED BY <2>6, <2>7
<1>2. ASSUME NEW j \in Jobs, NEW k \in Tries, Ends(j, k)
      PROVE  DeadLetterInv'
  <2>1. \A i \in Jobs, m \in Tries : pc'[i][m] = IF i = j /\ m = k THEN "over" ELSE pc[i][m]
    BY <1>2, GotoEffect DEF Ends, TypeOK, PhasesTyped
  <2>2. UNCHANGED <<tries, operator, status, dlq>>
    BY <1>2 DEF Ends
  <2> QED BY <2>1, <2>2 DEF DeadLetterInv
<1>3. ASSUME NEW j \in Jobs, Deliver(j)
      PROVE  DeadLetterInv'
  <2>1. \A i \in Jobs, m \in Tries :
          pc'[i][m] = IF i = j /\ m = tries[j] + 1 THEN "setup" ELSE pc[i][m]
    BY <1>3, DeliveryIsFresh
  <2>2. UNCHANGED <<operator, status, dlq>> /\ tries[j] # MaxTries
        /\ \A i \in Jobs : i # j => tries'[i] = tries[i]
    BY <1>3 DEF Deliver, TypeOK
  <2>3. SettledWithinLease /\ operator[j] # "done" => dlq[j] = "none"
    BY <2>2 DEF DeadLetterInv
  <2> QED BY <2>1, <2>2, <2>3 DEF DeadLetterInv
<1>4. CASE Tick
  BY <1>4 DEF Tick, DeadLetterInv
<1>5. CASE Quiet
  <2>1. UNCHANGED <<pc, tries, dlq>>
        /\ \A i \in Jobs : /\ operator'[i] # "done" => operator[i] # "done"
                           /\ status'[i] = "done" => status[i] = "done"
    BY <1>5 DEF Quiet
  <2> QED BY <2>1 DEF DeadLetterInv
<1> QED BY <1>1, <1>2, <1>3, <1>4, <1>5 DEF StepKinds

ClockInv == LeaseInv /\ DeadlineInv /\ DeadLetterInv

LEMMA ClockInvariance == Spec => []ClockInv
<1>1. Init => ClockInv
  <2> SUFFICES ASSUME Init PROVE ClockInv
    OBVIOUS
  <2>1. \A j \in Jobs, k \in Tries : pc[j][k] = "idle" /\ age[j][k] = 0 /\ dlq[j] = "none"
    BY DEF Init
  <2>2. "idle" \notin Live /\ "idle" \notin AtWork /\ "idle" \notin Working
    BY PhasesDistinct
  <2>3. LeaseInv /\ DeadlineInv
    BY <2>1, <2>2 DEF LeaseInv, DeadlineInv
  <2>4. DeadLetterInv
    BY <2>1 DEF Init, DeadLetterInv
  <2> QED BY <2>3, <2>4 DEF ClockInv
<1>2. TypeOK /\ KeptInv /\ ClockInv /\ [Next]_vars => ClockInv'
  <2> SUFFICES ASSUME TypeOK, KeptInv, ClockInv, [Next]_vars PROVE ClockInv'
    OBVIOUS
  <2>1. CASE Next
    <3>1. StepKinds
      BY <2>1, EveryStepIsOfAKind
    <3>2. LeaseInv'
      BY <3>1, LeaseMoves, LeaseEnds, LeaseDelivers, LeaseTicks, LeaseQuiet DEF StepKinds, ClockInv
    <3> QED BY <3>1, <3>2, DeadlineStep, DeadLetterStep DEF ClockInv
  <2>2. CASE UNCHANGED vars
    BY <2>2 DEF vars, ClockInv, LeaseInv, DeadlineInv, DeadLetterInv
  <2> QED BY <2>1, <2>2
<1> QED BY <1>1, <1>2, TypeCorrect, KeptInvariance, PTL DEF Spec

\* While no operator has released the in-progress key, one attempt at most is at work on a
\* job: whatever crashes, is cancelled or times out is over before arq hands the job on.
THEOREM OneAttemptAtWork == Spec => []AtMostOneAtWork
<1>1. ClockInv => AtMostOneAtWork
  <2>1. AtWork \subseteq Live
    BY PhasesDistinct
  <2> QED BY <2>1 DEF ClockInv, LeaseInv, AtMostOneAtWork
<1> QED BY <1>1, ClockInvariance, PTL

\* A job that an attempt works on is never stale to the reaper, whatever waits, retries and
\* other attempts there are, as long as the conversion cap is within JOB_TIMEOUT.
THEOREM WorkedOnIsNotStale == Spec => []LiveNeverStale
<1>1. TypeOK /\ ClockInv => LiveNeverStale
  <2> SUFFICES ASSUME TypeOK, ClockInv, CapWithinJobTimeout,
                      NEW j \in Jobs, NEW k \in Tries, pc[j][k] \in Working
               PROVE  left[j] >= 0
    BY DEF LiveNeverStale
  <2>1. left[j] + age[j][k] >= DefaultReapAfter
    BY DEF ClockInv, DeadlineInv
  <2>2. age[j][k] <= FunctionTimeout
    BY PhasesDistinct DEF ClockInv, LeaseInv
  <2>3. age[j][k] \in Nat /\ left[j] \in Int
    BY DEF TypeOK
  <2> QED BY <2>1, <2>2, <2>3, Durations
<1> QED BY <1>1, TypeCorrect, ClockInvariance, PTL

\* A job that ends DONE was not dead-lettered, though the reply to the DONE write of its
\* last attempt may be lost.
THEOREM DoneIsNoDeadLetter == Spec => []DoneNotDeadLettered
<1>1. ClockInv => DoneNotDeadLettered
  BY DEF ClockInv, DeadLetterInv, DoneNotDeadLettered
<1> QED BY <1>1, ClockInvariance, PTL
=============================================================================
