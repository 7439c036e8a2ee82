----------------------------- MODULE MCIndexPipeline -----------------------------
(* Instances of IngestLock and IndexPipeline for TLC: the lock a converter   *)
(* child is started under, and the calls of index() in it.  They share no    *)
(* state here: one goes while the other has not begun.                       *)
EXTENDS IndexPipeline, IngestLock

CONSTANTS
  A, B,    \* two contents of the file
  i1, i2   \* two ingests of the file

TwoIngests == {i1, i2}

\* Nothing tells one content from the other.
SameBytes == Permutations({A, B})

Worker(remote, policy, chain, structural, flat, vlm) ==
  [remote |-> remote, policy |-> policy, chain |-> chain,
   structural |-> structural, flat |-> flat, vlm |-> vlm]

\* The shipped settings with and without docling-service, the legacy policy, a
\* worker without docling and one without the AGPL converter.
Workers ==
  {Worker(TRUE, "requeue", <<Docling, Agpl>>, TRUE, TRUE, FALSE),
   Worker(TRUE, "requeue", <<Docling, Agpl>>, FALSE, TRUE, TRUE),
   Worker(TRUE, "legacy", <<Docling, Agpl>>, TRUE, FALSE, FALSE),
   Worker(TRUE, "requeue", <<Docling>>, TRUE, TRUE, FALSE),
   Worker(FALSE, "requeue", <<Docling, Agpl>>, TRUE, TRUE, TRUE),
   Worker(FALSE, "requeue", <<Agpl, Docling>>, TRUE, TRUE, FALSE)}

LocalWorker == {Worker(FALSE, "requeue", <<Docling>>, TRUE, TRUE, FALSE)}

Tree(chars, defects) == [chars |-> chars, defects |-> defects]

AllTrees ==
  {Tree(2, {}), Tree(2, {"node_garbling"}), Tree(1, {"garbling", "node_count_low"}),
   Tree(1, {"node_count_low"}), Tree(2, {"depth_low"}), Tree(2, {"rtl_reversal"}),
   Tree(2, {"density"}), Tree(0, {"node_count_low"})}

FewTrees == {Tree(2, {}), Tree(2, {"node_garbling"}), Tree(1, {"node_count_low"})}

\* The ingests go from one of the initial states of the calls, which is enough.
NoCall == runs = 0 /\ conf = (CHOOSE c \in Confs : TRUE) /\ kind = (CHOOSE k \in Kinds : TRUE)

PipelineInit == Init /\ IngestInit

PipelineNext ==
  \/ IngestInit /\ Next /\ UNCHANGED ingestVars
  \/ NoCall /\ IngestNext /\ UNCHANGED vars

PipelineSpec == PipelineInit /\ [][PipelineNext]_<<vars, ingestVars>>

\* Values of the constants a cfg cannot write.
TwoIds == 1..2
ThreeIds == 1..3
=============================================================================
