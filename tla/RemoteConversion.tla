-------------------------- MODULE RemoteConversion --------------------------
(***************************************************************************)
(* A document's remote conversion: the readiness gate, then split_convert.  *)
(* Source: client/indexer.py (the gate before the converter chain),         *)
(* client/remote.py (_remote_pdf_convert hands an unsliced call to the      *)
(* split).  A gate that raises keeps the document from any backend.         *)
(***************************************************************************)
EXTENDS ReadinessGate, SplitConversion

remoteVars == <<gateVars, vars>>

RemoteInit == InitGate /\ Init

AtGate == GateNext /\ UNCHANGED vars

PastGate == gate = "ready" /\ Next /\ UNCHANGED gateVars

RemoteNext == AtGate \/ PastGate

RemoteSpec == RemoteInit /\ [][RemoteNext]_remoteVars

\* The scheduler runs on, and every request ends: it has a read timeout.
RemoteFairSpec ==
  /\ RemoteSpec
  /\ WF_remoteVars(Scheduler /\ UNCHANGED gateVars)
  /\ WF_remoteVars(\E i \in DOMAIN running : RunEnds(i) /\ UNCHANGED gateVars)

\* Every variable of the gate and the scheduler has its type.
RemoteTypeOK == TypeOKGate /\ TypeOK
=============================================================================
