--------------------------- MODULE ChunkCollection ---------------------------
(***************************************************************************)
(* What converting one document in chunks promises, whatever happens to the *)
(* backends: a chunk is collected once, a collected chunk is kept for every *)
(* later attempt that wants the same build, the document is merged only when*)
(* every chunk is there, and each attempt ends.  The source states it in    *)
(* docs of client/split.py (the flow, _shard_results); SplitConversion is   *)
(* the scheduler that implements it.                                        *)
(***************************************************************************)
CONSTANTS Chunks, Builds

VARIABLES
  kept,     \* for each wanted build, the chunks collected so far
  wanted,   \* the build the attempt wants
  outcome   \* where the attempt is

cvars == <<kept, wanted, outcome>>

Init ==
  /\ kept = [b \in Builds |-> {}]
  /\ wanted \in Builds
  /\ outcome = "none"

\* An attempt may follow one that failed, and one that another path took over.
Start ==
  /\ outcome \in {"none", "failed", "elsewhere"}
  /\ wanted' \in Builds
  /\ outcome' \in {"open", "elsewhere"}
  /\ kept' = kept

Collect ==
  /\ outcome = "open"
  /\ \E c \in Chunks \ kept[wanted] : kept' = [kept EXCEPT ![wanted] = @ \cup {c}]
  /\ UNCHANGED <<wanted, outcome>>

Merge ==
  /\ outcome = "open"
  /\ kept[wanted] = Chunks
  /\ outcome' = "merged"
  /\ UNCHANGED <<kept, wanted>>

Fail ==
  /\ outcome = "open"
  /\ kept[wanted] # Chunks
  /\ outcome' \in {"failed", "unavailable"}
  /\ UNCHANGED <<kept, wanted>>

Work == Collect \/ Merge \/ Fail

Next == Start \/ Work

Spec == Init /\ [][Next]_cvars

FairSpec == Spec /\ WF_cvars(Work)
=============================================================================
