------------------------------ MODULE IndexPipeline ------------------------------
(***************************************************************************)
(* PageIndexClient.index, as the converter child runs it under the ingest    *)
(* lock: the hash check, the conversion (ConverterChain), the recovery       *)
(* (RecoveryLadder), the dispatch on (ok, route) and the writes to the       *)
(* document store, one by one.  Source: client/indexer.py.                  *)
(*                                                                         *)
(* One file name is followed over several calls, each with any content.      *)
(* The best-effort uploads of the raw bytes and of the markdown change       *)
(* nothing here and are left out, as is a sidecar the listing cannot read.   *)
(***************************************************************************)
EXTENDS RecoveryLadder, FiniteSets

CONSTANTS
  Contents,   \* what the file may hold
  DocIds,     \* ids a call may mint, in the order the listing has them
  Kinds,      \* the file's format: "pdf", "image", "text", "office"
  MaxRuns     \* bound on the calls

ASSUME IndexAssumption ==
  /\ DocIds \subseteq Nat /\ IsFiniteSet(DocIds)
  /\ Kinds \subseteq {"pdf", "image", "text", "office"}
  /\ MaxRuns \in Nat
  /\ LowContentFloor \in Nat

VARIABLES
  content,      \* what the call found in the file
  runs,         \* calls begun
  answer,       \* the document a call returned without converting, or NoId
  draft,        \* the document a call is writing, or NoId
  left,         \* its writes still to come
  condemned,    \* the garble check of the flat blocks found them beyond repair
  docs,         \* processed/: id -> [sha, form, garbled, meta]
  hash,         \* hash cache, the entry of the file's name
  quarantine,   \* quarantine/: content -> none, meta or payload
  lost          \* this call could not write its quarantine record

storeVars == <<docs, hash, quarantine>>
callVars == <<content, runs, answer, draft, left, condemned, lost>>
vars == <<chainVars, ladderVars, callVars, storeVars>>

NoId == -1
NoContent == "no content"

Init ==
  /\ phase = "over" /\ outcome = "none"
  /\ conf \in Confs /\ kind \in Kinds
  /\ st = Blank /\ pos = 1 /\ tries = 0 /\ outage = FALSE /\ capture = "none"
  /\ rung = 0 /\ todo = <<>> /\ fired = {}
  /\ content = NoContent /\ runs = 0 /\ answer = NoId /\ draft = NoId
  /\ left = <<>> /\ condemned = FALSE /\ lost = FALSE
  /\ docs = << >> /\ hash = NoContent
  /\ quarantine = [c \in Contents |-> "none"]

\* A document is listed under its sidecar's name, or its artifact's while there
\* is no sidecar.  A flat document's sidecar has none: the child's only write of
\* it is the verdict, and what upsert_doc returns to the worker has no name.
Named(d) == docs[d].form = "tree" \/ ~docs[d].meta
Listed == {d \in DOMAIN docs : Named(d)}

\* A whole document of c: its artifact and its sidecar.
Whole(c) == {d \in DOMAIN docs : docs[d].sha = c /\ docs[d].meta}

FirstOf(S) == CHOOSE d \in S : \A e \in S : d <= e

\* The call reads the file and compares its hash; the first document of that
\* name is the answer, whichever content it came from.
Start(c) ==
  /\ phase = "over" /\ runs < MaxRuns
  /\ runs' = runs + 1
  /\ content' = c
  /\ st' = Blank /\ pos' = 1 /\ tries' = 0 /\ outage' = FALSE
  /\ rung' = 0 /\ todo' = <<>> /\ fired' = {}
  /\ draft' = NoId /\ left' = <<>> /\ condemned' = FALSE /\ lost' = FALSE
  /\ conf' = conf /\ kind' = kind
  /\ IF hash = c /\ Listed # {}
     THEN /\ answer' = FirstOf(Listed)
          /\ phase' = "over" /\ outcome' = "skipped" /\ capture' = "none"
     ELSE /\ answer' = NoId
          /\ outcome' = "none"
          /\ IF kind = "pdf" THEN OpenPdf(conf) ELSE phase' = "open" /\ capture' = "none"
  /\ UNCHANGED storeVars

\* Fault: only the garbling of the whole tree keeps a payload.
QuarantinedTree(s) == s.first = "garbling"

\* _garbling_reject: the tree goes into quarantine with its record.
Quarantined(s) == s.first \in Garble

\* save_quarantine, best effort; without a payload an older one stays.
Quarantine(payload) ==
  \/ lost' = TRUE /\ UNCHANGED quarantine
  \/ /\ lost' = FALSE
     /\ quarantine' = [quarantine EXCEPT ![content] =
                         IF payload \/ @ = "payload" THEN "payload" ELSE "meta"]

\* (False, REJECT).
Reject ==
  /\ phase = "reject"
  /\ Quarantine(Quarantined(st))
  /\ End("rejected")
  /\ UNCHANGED <<conf, kind, st, pos, tries, outage, ladderVars,
                 content, runs, answer, draft, left, condemned, docs, hash>>

\* Fault: the hash is recorded before the sidecar.
HashEarly == <<"artifact", "hash", "sidecar", "clear">>

\* The writes of either persist method, in their order.
Writes == <<"artifact", "sidecar", "hash", "clear">>

\* The uuid is minted and the writes begin.
Persist ==
  /\ phase' = "write"
  /\ draft' \in DocIds \ DOMAIN docs
  /\ left' = Writes

\* Where the flat text comes from; LibreOffice's PDF and page_index have none.
HasFlatText == st.md # NoText \/ kind = "text"

\* No text to persist: the call is rejected, and leaves no record.
FlatWithoutText ==
  /\ phase = "flat" /\ ~HasFlatText
  /\ End("rejected")
  /\ UNCHANGED <<conf, kind, st, pos, tries, outage, ladderVars, callVars, storeVars>>

\* The blocks read well, as they are or as the vision model reads the PDF.
PersistFlat ==
  /\ phase = "flat" /\ HasFlatText
  /\ Persist
  /\ st' \in {st} \cup IF kind = "pdf" /\ conf.vlm THEN {[st EXCEPT !.md = "vlm"]} ELSE {}
  /\ Stay /\ UNCHANGED <<pos, tries, outage, capture, ladderVars,
                         content, runs, answer, condemned, lost, storeVars>>

\* flat_garble_unrecovered: the blocks are garbled and stay so.
FlatGarbled ==
  /\ phase = "flat" /\ HasFlatText
  /\ condemned' = TRUE
  /\ Quarantine(TRUE)
  /\ End("rejected")
  /\ UNCHANGED <<conf, kind, st, pos, tries, outage, ladderVars,
                 content, runs, answer, draft, left, docs, hash>>

\* The capture is finalised before the first write, its tables anchored or not.
PersistTree ==
  /\ phase = "tree"
  /\ Persist
  /\ capture' = IF capture = "joined" THEN "finalized" ELSE capture
  /\ Stay /\ UNCHANGED <<st, pos, tries, outage, ladderVars,
                         content, runs, answer, condemned, lost, storeVars>>

\* What is written: the tree, or the blocks, which have passed their garble check.
Drafted ==
  LET flat == ~st.ok /\ st.route = "flat"
  IN  [sha |-> content,
       form |-> IF flat THEN "flat" ELSE "tree",
       garbled |-> ~flat /\ st.tree.defects \cap Garble # {},
       meta |-> FALSE]

\* save_doc or save_flat_doc, save_doc_meta, hash_cache_set, clear_quarantine.
Artifact ==
  /\ Head(left) = "artifact"
  /\ docs' = [d \in DOMAIN docs \cup {draft} |-> IF d = draft THEN Drafted ELSE docs[d]]
  /\ UNCHANGED <<hash, quarantine>>

Sidecar ==
  /\ Head(left) = "sidecar"
  /\ docs' = [docs EXCEPT ![draft].meta = TRUE]
  /\ UNCHANGED <<hash, quarantine>>

SetHash ==
  /\ Head(left) = "hash"
  /\ hash' = content
  /\ UNCHANGED <<docs, quarantine>>

\* Best effort: what is in quarantine goes or stays.
ClearQuarantine ==
  /\ Head(left) = "clear"
  /\ quarantine' \in {quarantine, [quarantine EXCEPT ![content] = "none"]}
  /\ UNCHANGED <<docs, hash>>

WriteNext ==
  /\ phase = "write" /\ left # <<>>
  /\ Artifact \/ Sidecar \/ SetHash \/ ClearQuarantine
  /\ left' = Tail(left)
  /\ IF Len(left) = 1 THEN End("done")
     ELSE UNCHANGED <<phase, outcome, capture>>
  /\ UNCHANGED <<conf, kind, st, pos, tries, outage, ladderVars,
                 content, runs, answer, draft, condemned, lost>>

\* A write that is not best effort raises.
WriteFails ==
  /\ phase = "write" /\ left # <<>> /\ Head(left) # "clear"
  /\ End("failed")
  /\ UNCHANGED <<conf, kind, st, pos, tries, outage, ladderVars, callVars, storeVars>>

\* The child is killed: at its deadline, for its memory, or with the worker.
Killed ==
  /\ phase # "over"
  /\ phase' = "over" /\ outcome' = "killed" /\ capture' = "none"
  /\ UNCHANGED <<conf, kind, st, pos, tries, outage, ladderVars, callVars, storeVars>>

Next ==
  \/ \E c \in Contents : Start(c)
  \/ Convert /\ UNCHANGED <<ladderVars, callVars, storeVars>>
  \/ Recover /\ UNCHANGED <<callVars, storeVars>>
  \/ Reject
  \/ FlatWithoutText
  \/ PersistFlat
  \/ FlatGarbled
  \/ PersistTree
  \/ WriteNext
  \/ WriteFails
  \/ Killed

Spec == Init /\ [][Next]_vars

\* The hash of a content is recorded only once a document of it is whole, so a
\* crash between two writes costs a second conversion and never hides a file.
HashNamesAWhole == hash # NoContent => Whole(hash) # {}

\* A rejected call has begun no document and anchored no table, and what it
\* rejected as garbled can be looked at in quarantine unless that write failed,
\* whatever the ladder tried and took back on the way.
RejectedIsTraced ==
  outcome = "rejected" =>
    /\ draft = NoId /\ capture # "finalized"
    /\ (condemned \/ st.tree.defects \cap Garble # {}) =>
         quarantine[content] = "payload" \/ lost

\* HR5: a garbled tree is not persisted, whatever the ladder tried.
GarbledNeverPersisted == \A d \in DOMAIN docs : ~docs[d].garbled

=============================================================================
