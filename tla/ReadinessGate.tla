---------------------------- MODULE ReadinessGate ----------------------------
(***************************************************************************)
(* The readiness gate before the first call of a remote docling backend.    *)
(* Source: client/remote.py (wait_for_docling_ready, _wait_out_none).       *)
(*                                                                         *)
(* Time is exact and counted in polls.  What the infra controller publishes *)
(* under docling:backend is outside the program: each read of the key finds *)
(* any of its states, a start of docling-1 with its age.  A cold start ends *)
(* after ColdStart at the latest; the gate is to wait it out.               *)
(***************************************************************************)
EXTENDS Integers

CONSTANTS
  NoneWait,   \* docling_none_wait_s
  MacWait,    \* docling_mac_wait_s
  ReadyWait,  \* docling_ready_wait_s
  ProbeMax,   \* longest GET /health
  ColdStart,  \* longest cold start of docling-1
  Deadlines   \* bound: the child's remaining time at the gate

ASSUME GateAssumption ==
  /\ NoneWait \in Nat
  /\ MacWait \in Nat
  /\ ReadyWait \in Nat
  /\ ProbeMax \in Nat
  /\ ColdStart \in Nat
  /\ ColdStart + 1 + ProbeMax <= ReadyWait
  /\ Deadlines \subseteq Nat

VARIABLES
  gate,      \* where the gate is
  backend,   \* the state of the key its budget comes from
  waited,    \* time since the gate was entered
  budget,    \* budget_s
  age,       \* time since the start of docling-1 it waits for
  deadline   \* deadline, measured from t0

gateVars == <<gate, backend, waited, budget, age, deadline>>

\* never: target=none for a reason that is permanent.
Keys == {"stale", "never", "none", "starting", "node", "mac"}

TypeOKGate ==
  /\ gate \in {"start", "none", "health", "ready", "raised"}
  /\ backend \in Keys
  /\ waited \in Nat
  /\ budget \in Nat
  /\ age \in Nat
  /\ deadline \in Nat

InitGate ==
  /\ gate = "start"
  /\ backend = "stale"
  /\ waited = 0
  /\ budget = 0
  /\ age = 0
  /\ deadline \in Deadlines

Least(a, b) == IF a < b THEN a ELSE b

Greatest(a, b) == IF a > b THEN a ELSE b

\* _backend_budget, for a key that shows a start a polls old.
Extra(k, a) ==
  CASE k = "stale" -> ReadyWait \div 2
    [] k = "starting" -> Greatest(ReadyWait - a, 0)
    [] OTHER -> MacWait

\* A read of the key: a start can be of any age when first seen.
Ages(k) == IF k = "starting" THEN 0 .. ReadyWait ELSE {0}

\* Fault: the budget after the wait is measured from the gate's entry.
ProbeFromEntry(w, k, a) ==
  /\ gate' = "health"
  /\ backend' = k
  /\ age' = a
  /\ waited' = w
  /\ budget' = Extra(k, a)

\* The key shows a backend (k): probe it for its budget from time w on.
ProbeFrom(w, k, a) ==
  /\ gate' = "health"
  /\ backend' = k
  /\ age' = a
  /\ waited' = w
  /\ budget' = w + Extra(k, a)

Raise ==
  /\ gate' = "raised"
  /\ UNCHANGED <<backend, budget, age>>

ReadKey ==
  /\ gate = "start"
  /\ \E k \in Keys : \E a \in Ages(k) :
       IF k \in {"never", "none"}
       THEN gate' = "none" /\ backend' = k /\ UNCHANGED <<waited, budget, age>>
       ELSE ProbeFrom(0, k, a)
  /\ UNCHANGED deadline

\* _wait_out_none, one turn: a permanent reason or too little time ends it.
CannotWaitForStart == backend = "never" \/ waited + 1 > Least(NoneWait, deadline)

NoBackend ==
  /\ gate = "none"
  /\ CannotWaitForStart
  /\ Raise
  /\ UNCHANGED <<waited, deadline>>

WaitOutNone ==
  /\ gate = "none"
  /\ ~CannotWaitForStart
  /\ \E k \in Keys : \E a \in Ages(k) :
       IF k \in {"never", "none"}
       THEN gate' = gate /\ backend' = k /\ waited' = waited + 1 /\ UNCHANGED <<budget, age>>
       ELSE ProbeFrom(waited + 1, k, a)
  /\ UNCHANGED deadline

HealthAnswers ==
  /\ gate = "health"
  /\ gate' = "ready"
  /\ backend' = "stale"
  /\ waited' = 0
  /\ budget' = 0
  /\ age' = 0
  /\ deadline' = 0

\* GET /health fails at time w.  docling-1 answers once it has started.
HealthFails(w) ==
  /\ gate = "health"
  /\ w \in waited .. waited + ProbeMax
  /\ backend = "starting" => age < ColdStart

OutOfBudget(w) == w + 1 > Least(budget, deadline)

Aged(t) == IF backend = "starting" THEN age + t ELSE age

PollAgain ==
  /\ \E w \in waited .. waited + ProbeMax :
       /\ HealthFails(w)
       /\ ~OutOfBudget(w)
       /\ waited' = w + 1
       /\ age' = Aged(w + 1 - waited)
  /\ UNCHANGED <<gate, backend, budget, deadline>>

\* After the short wait for the Mac, follow a start of docling-1.
FollowStart ==
  /\ backend = "mac"
  /\ \E w \in waited .. waited + ProbeMax :
       /\ HealthFails(w)
       /\ OutOfBudget(w)
       /\ \E a \in Ages("starting") : ProbeFrom(w, "starting", a)
  /\ UNCHANGED deadline

BackendNotReady ==
  /\ \E w \in waited .. waited + ProbeMax :
       /\ HealthFails(w)
       /\ OutOfBudget(w)
       /\ waited' = w
  /\ Raise
  /\ UNCHANGED deadline

GateNext ==
  ReadKey \/ NoBackend \/ WaitOutNone \/ HealthAnswers \/ PollAgain \/ FollowStart
    \/ BackendNotReady

-----------------------------------------------------------------------------
(* The property.                                                           *)

\* A cold start is waited out: when the gate gives up on a docling-1 that is
\* starting, the child's own deadline is why (remote.py 399-410, 568-570).
ColdStartWaitedOut ==
  gate = "raised" /\ backend = "starting" => waited + 1 > deadline
=============================================================================
