----------------------------- MODULE ErasureProofs -----------------------------
(* Proofs about Erasure and the HashCache it contains: their types, the lock  *)
(* of the blob, the answer of an erasure, and that a pass nothing disturbs    *)
(* leaves nothing behind.                                                    *)
EXTENDS Erasure, SequenceTheorems, TLAPS

USE DEF hashVars, docVars, eraseVars, erasureVars

-----------------------------------------------------------------------------
(* The invariants.                                                         *)

\* Who is at work on the blob holds its lock, and the copy it is about to put back is the
\* blob as it is: nobody has put another one in between.
BlobInv ==
  /\ \A p \in Purgers : purge[p] \in {"load", "put", "unlock"} => lock = p
  /\ \A p \in Purgers : purge[p] = "put" => copy[p] = blob
  /\ BlobStaysPurged

\* A purge is part of the hash step of its erasure, which has the filename.
PurgeOK(e) ==
  /\ purge[e] # "idle" => AtStep(e, "hash") /\ "hash" \in reached[e]
  /\ reached[e] \cap {"hash", "preloaded"} # {} => "name" \in known[e]
  /\ at[e] \notin {0, Len(Manifest) + 2} => "id" \in known[e]

PurgeInv == \A e \in Erasers : PurgeOK(e)

Passed(e) == {Manifest[i] : i \in {j \in DOMAIN Manifest : j < at[e]}} \ {"sha"}

\* A step an erasure has behind it was reached, or failed, or had no key.
StepsOK(e) ==
  ~Dead(e) =>
    \A s \in Passed(e) :
      \/ s \in reached[e]
      \/ s \in failed[e] \ Swallowed
      \/ s \in Optional
      \/ s = "hash" /\ "name" \notin known[e]

StepsInv == \A e \in Erasers : StepsOK(e)

\* What an undisturbed pass has behind it, and what it still can find.
CalmSteps(e) ==
  /\ IngestEnded
  /\ failed[e] = {}
  /\ "name" \in known[e] \/ (at[e] = 1 /\ "uploads" \in held)
  /\ "sha" \in known[e] \/ (at[e] <= 4 /\ held \cap {"sha", "row"} # {})
  /\ Passed(e) \subseteq reached[e]
  /\ held \cap Passed(e) = {}
  /\ at[e] > 6 => "sha" \notin held
  /\ "hash" \in reached[e] => Name \notin hashes
  /\ "hash" \in reached[e] /\ purge[e] \in {"unlock", "idle"} => Name \notin blob

CalmOK(e) ==
  /\ calm[e] /\ ~Dead(e) /\ at[e] # 0 => CalmSteps(e)
  /\ at[e] = 0 => ~calm[e]

CalmInv == \A e \in Erasers : CalmOK(e)

-----------------------------------------------------------------------------
(* The manifest.                                                           *)

LEMMA ManifestHas ==
  /\ Len(Manifest) = 11
  /\ DOMAIN Manifest = 1 .. 11
  /\ Manifest[1] = "uploads" /\ Manifest[2] = "tree" /\ Manifest[3] = "flat"
  /\ Manifest[4] = "sha" /\ Manifest[5] = "verdicts" /\ Manifest[6] = "meta"
  /\ Manifest[7] = "quarantine" /\ Manifest[8] = "cache" /\ Manifest[9] = "hash"
  /\ Manifest[10] = "row" /\ Manifest[11] = "preloaded"
  BY DEF Manifest

LEMMA StepsAre ==
  Steps = {"uploads", "tree", "flat", "verdicts", "meta", "quarantine", "cache",
           "hash", "row", "preloaded"}
<1>1. ASSUME NEW s, s \in Steps
      PROVE  s \in {"uploads", "tree", "flat", "verdicts", "meta", "quarantine", "cache",
                    "hash", "row", "preloaded"}
  <2>1. PICK i \in 1 .. 11 : s = Manifest[i] /\ s # "sha"
    BY <1>1, ManifestHas DEF Steps
  <2>2. i \in {1, 2, 3, 4, 5, 6, 7, 8, 9, 10, 11}
    BY <2>1
  <2> QED BY <2>1, <2>2, ManifestHas
<1>2. {1, 2, 3, 5, 6, 7, 8, 9, 10, 11} \subseteq DOMAIN Manifest
  BY ManifestHas
<1>3. ASSUME NEW i \in {1, 2, 3, 5, 6, 7, 8, 9, 10, 11}
      PROVE  Manifest[i] \in Steps
  BY <1>2, ManifestHas DEF Steps
<1> QED BY <1>1, <1>3, ManifestHas

LEMMA WritesHas == Len(Writes) = 8 /\ \A i \in 1 .. 8 : Writes[i] \in {"artifact",
    "uncache", "meta", "uploads", "hash", "unquarantine", "row", "mirror"}
<1>1. Len(Writes) = 8
  BY DEF Writes
<1>2. ASSUME NEW i \in 1 .. 8
      PROVE  Writes[i] \in {"artifact", "uncache", "meta", "uploads", "hash",
                            "unquarantine", "row", "mirror"}
  <2>1. i \in {1, 2, 3, 4, 5, 6, 7, 8}
    OBVIOUS
  <2> QED BY <2>1 DEF Writes
<1> QED BY <1>1, <1>2

-----------------------------------------------------------------------------
(* Type correctness.                                                       *)

LEMMA FaultTyped == HashTypeOK /\ Fault => faults' \in 0 .. MaxFaults
  BY HashCacheAssumption DEF HashTypeOK, Fault

LEMMA PurgeTyped ==
  ASSUME HashTypeOK, NEW p \in Purgers, Purge(p) \/ GiveUpLock(p)
  PROVE  HashTypeOK'
<1>1. NameOf[p] \in Names
  BY HashCacheAssumption
<1>2. faults' \in 0 .. MaxFaults
  BY FaultTyped DEF Purge, TakeLock, GiveUpLock, LoadBlob, PutBlob, BlobFails, Unlock, HashTypeOK
<1>3. PICK place \in PurgePlaces : PurgeGoes(p, place)
  BY DEF Purge, TakeLock, GiveUpLock, LoadBlob, PutBlob, BlobFails, Unlock, PurgePlaces
<1>4. purge' \in [Purgers -> PurgePlaces] /\ copy' \in [Purgers -> SUBSET Names]
  BY <1>3 DEF PurgeGoes, HashTypeOK
<1>5. /\ hashes' = hashes
      /\ lock' \in {lock, p, NoOne}
      /\ purged' \subseteq purged \cup {p}
      /\ blob' \in {blob, copy[p] \ {NameOf[p]}}
  BY DEF Purge, TakeLock, GiveUpLock, LoadBlob, PutBlob, BlobFails, Unlock
<1>6. copy[p] \subseteq Names
  BY DEF HashTypeOK
<1> QED BY <1>2, <1>4, <1>5, <1>6 DEF HashTypeOK

LEMMA DeleteHashTyped ==
  ASSUME HashTypeOK, NEW p \in Purgers, DeleteHash(p), faults' = faults
  PROVE  HashTypeOK'
  BY DEF DeleteHash, HashTypeOK, PurgePlaces

LEMMA WriteTyped ==
  ASSUME ErasureTypeOK, ~IngestEnded
  PROVE  wrote \in 0 .. 7 /\ NextWrite \in {"artifact", "uncache", "meta", "uploads",
           "hash", "unquarantine", "row", "mirror"}
  BY WritesHas DEF ErasureTypeOK, IngestEnded, NextWrite

LEMMA StoresAre ==
  Stores = {"uploads", "tree", "flat", "verdicts", "meta", "quarantine", "cache",
            "row", "preloaded"}
  BY StepsAre DEF Stores

LEMMA DisturbTyped ==
  ASSUME ErasureTypeOK, NEW others, Disturb(others)
  PROVE  calm' \in [Erasers -> BOOLEAN]
  BY DEF Disturb, ErasureTypeOK

\* What the steps of an ingest do to its own variables.
LEMMA IngestTyped ==
  ASSUME ErasureTypeOK,
         IngestWrites \/ IngestMarks \/ IngestSkips \/ MirrorDegrades \/ IngestDies
  PROVE  ErasureTypeOK'
<1> USE WritesHas, StoresAre
<1>1. CASE IngestWrites
  <2>1. held' \subseteq Stores \cup {"sha"} /\ ("sha" \in held' => "meta" \in held')
    BY <1>1, WriteTyped DEF IngestWrites, Written, ErasureTypeOK
  <2>2. calm' \in [Erasers -> BOOLEAN]
    BY <1>1, DisturbTyped DEF IngestWrites
  <2> QED BY <1>1, <2>1, <2>2, WriteTyped DEF IngestWrites, ErasureTypeOK, HashTypeOK
<1>2. CASE IngestMarks
  <2>1. calm' \in [Erasers -> BOOLEAN]
    BY <1>2, DisturbTyped DEF IngestMarks
  <2>2. HashTypeOK'
    BY <1>2, ErasureAssumption DEF IngestMarks, SetHash, ErasureTypeOK, HashTypeOK
  <2> QED BY <1>2, <2>1, <2>2, WriteTyped DEF IngestMarks, ErasureTypeOK
<1>3. CASE IngestSkips
  <2>1. HashTypeOK'
    BY <1>3, FaultTyped DEF IngestSkips, ErasureTypeOK, HashTypeOK
  <2> QED BY <1>3, <2>1, WriteTyped DEF IngestSkips, ErasureTypeOK
<1>4. CASE MirrorDegrades
  <2>1. HashTypeOK'
    BY <1>4, FaultTyped DEF MirrorDegrades, ErasureTypeOK, HashTypeOK
  <2>2. calm' \in [Erasers -> BOOLEAN]
    BY <1>4, DisturbTyped DEF MirrorDegrades
  <2> QED BY <1>4, <2>1, <2>2 DEF MirrorDegrades, ErasureTypeOK
<1>5. CASE IngestDies
  BY <1>5 DEF IngestDies, ErasureTypeOK, HashTypeOK
<1> QED BY <1>1, <1>2, <1>3, <1>4, <1>5

LEMMA StepOf ==
  ASSUME NEW e, NEW s, AtStep(e, s)
  PROVE  at[e] \in 1 .. 11 /\ s = Manifest[at[e]]
  BY ManifestHas DEF AtStep

\* An erasure goes one step on.
LEMMA AdvanceTyped ==
  ASSUME ErasureTypeOK, NEW e \in Erasers, at[e] \in DOMAIN Manifest, Advance(e)
  PROVE  at' \in [Erasers -> 0 .. Len(Manifest) + 2]
  BY ManifestHas DEF Advance, ErasureTypeOK

LEMMA StoreTyped ==
  ASSUME ErasureTypeOK, NEW e \in Erasers, EraseStore(e) \/ EraseFails(e)
  PROVE  ErasureTypeOK'
<1>1. PICK s \in Stores :
        /\ AtStep(e, s)
        /\ held' \in {held, held \ Contents(s)}
        /\ reached' \in {reached, [reached EXCEPT ![e] = @ \cup {s}]}
        /\ failed' \in {failed, [failed EXCEPT ![e] = @ \cup {s}]}
  <2>1. CASE EraseStore(e)
    BY <2>1 DEF EraseStore
  <2>2. CASE EraseFails(e)
    <3>1. PICK s \in Stores :
            /\ AtStep(e, s)
            /\ held' \in {held, held \ Contents(s)}
            /\ failed' = [failed EXCEPT ![e] = @ \cup {s}]
            /\ reached' = [reached EXCEPT ![e] = IF s \in Swallowed THEN @ \cup {s} ELSE @]
      BY <2>2 DEF EraseFails
    <3>2. reached' \in {reached, [reached EXCEPT ![e] = @ \cup {s}]}
      BY <3>1 DEF ErasureTypeOK
    <3> QED BY <3>1, <3>2
  <2> QED BY <2>1, <2>2
<1>2. s \in Steps
  BY DEF Stores
<1>3. at' \in [Erasers -> 0 .. Len(Manifest) + 2]
  BY <1>1, AdvanceTyped DEF EraseStore, EraseFails, AtStep
<1>4. /\ known' \in {known, [known EXCEPT ![e] = NameFromListing(e)]}
      /\ UNCHANGED <<kind, wrote, read, hashVars>>
  BY DEF EraseStore, EraseFails
<1>5. NameFromListing(e) \subseteq {"id", "name", "sha"}
  BY DEF NameFromListing, ErasureTypeOK
<1>6. known' \in [Erasers -> SUBSET {"id", "name", "sha"}]
  BY <1>4, <1>5 DEF ErasureTypeOK
<1>7. reached' \in [Erasers -> SUBSET Steps]
  <2>1. reached[e] \cup {s} \subseteq Steps
    BY <1>2 DEF ErasureTypeOK
  <2>2. [reached EXCEPT ![e] = @ \cup {s}] \in [Erasers -> SUBSET Steps]
    BY <2>1 DEF ErasureTypeOK
  <2> QED BY <1>1, <2>2 DEF ErasureTypeOK
<1>8. failed' \in [Erasers -> SUBSET (Steps \cup {"name"})]
  <2>1. failed[e] \cup {s} \subseteq Steps \cup {"name"}
    BY <1>2 DEF ErasureTypeOK
  <2>2. [failed EXCEPT ![e] = @ \cup {s}] \in [Erasers -> SUBSET (Steps \cup {"name"})]
    BY <2>1 DEF ErasureTypeOK
  <2> QED BY <1>1, <2>2 DEF ErasureTypeOK
<1>9. held' \subseteq Stores \cup {"sha"} /\ ("sha" \in held' => "meta" \in held')
  BY <1>1 DEF Contents, ErasureTypeOK
<1>10. calm' \in [Erasers -> BOOLEAN]
  BY DisturbTyped DEF EraseStore, EraseFails
<1>11. faults' \in 0 .. MaxFaults
  BY FaultTyped DEF EraseStore, EraseFails, ErasureTypeOK, HashTypeOK
<1>12. HashTypeOK'
  BY <1>4, <1>11 DEF ErasureTypeOK, HashTypeOK
<1> QED BY <1>3, <1>4, <1>6, <1>7, <1>8, <1>9, <1>10, <1>12 DEF ErasureTypeOK

LEMMA EraseTyped ==
  ASSUME ErasureTypeOK, PurgeInv, NEW e \in Erasers, Erase(e)
  PROVE  ErasureTypeOK'
<1> USE ManifestHas
<1>0. e \in Purgers
  BY ErasureAssumption
<1>1. CASE Begin(e)
  <2>1. HashTypeOK'
    BY <1>1, FaultTyped DEF Begin, ErasureTypeOK, HashTypeOK
  <2>2. calm' \in [Erasers -> BOOLEAN]
    <3>1. CASE Disturb({e})
      BY <3>1, DisturbTyped
    <3>2. CASE calm' = [calm EXCEPT ![e] = IngestEnded /\ Whole]
      <4>1. (IngestEnded /\ Whole) \in BOOLEAN
        OBVIOUS
      <4> QED BY <3>2, <4>1, Zenon DEF ErasureTypeOK
    <3> QED BY <1>1, <3>1, <3>2 DEF Begin
  <2>3. /\ known' \in [Erasers -> SUBSET {"id", "name", "sha"}]
        /\ failed' \in [Erasers -> SUBSET (Steps \cup {"name"})]
        /\ reached' \in [Erasers -> SUBSET Steps]
        /\ at' \in [Erasers -> 0 .. Len(Manifest) + 2]
    BY <1>1 DEF Begin, ErasureTypeOK
  <2> QED BY <1>1, <2>1, <2>2, <2>3 DEF Begin, ErasureTypeOK
<1>2. CASE EraseStore(e) \/ EraseFails(e)
  BY <1>2, StoreTyped
<1>3. CASE SkipStore(e)
  <2>1. at' \in [Erasers -> 0 .. Len(Manifest) + 2]
    BY <1>3, AdvanceTyped DEF SkipStore, AtStep
  <2> QED BY <1>3, <2>1 DEF SkipStore, ErasureTypeOK, HashTypeOK
<1>4. CASE FindSha(e)
  <2>1. at' \in [Erasers -> 0 .. Len(Manifest) + 2]
    BY <1>4, AdvanceTyped DEF FindSha, AtStep
  <2>2. HashTypeOK'
    BY <1>4, FaultTyped DEF FindSha, ErasureTypeOK, HashTypeOK
  <2>3. calm' \in [Erasers -> BOOLEAN]
    BY <1>4, DisturbTyped DEF FindSha, ErasureTypeOK
  <2>4. known' \in [Erasers -> SUBSET {"id", "name", "sha"}]
    <3>1. known' \in {known, [known EXCEPT ![e] = @ \cup {"sha"}]}
      BY <1>4 DEF FindSha, ErasureTypeOK
    <3> QED BY <3>1 DEF ErasureTypeOK
  <2> QED BY <1>4, <2>1, <2>2, <2>3, <2>4 DEF FindSha, ErasureTypeOK
<1>5. CASE EraseHash(e)
  <2>1. HashTypeOK'
    BY <1>0, <1>5, DeleteHashTyped DEF EraseHash, ErasureTypeOK
  <2>2. calm' \in [Erasers -> BOOLEAN]
    BY <1>5, DisturbTyped DEF EraseHash
  <2>3. reached' \in [Erasers -> SUBSET Steps]
    BY <1>5, StepsAre DEF EraseHash, ErasureTypeOK
  <2> QED BY <1>5, <2>1, <2>2, <2>3 DEF EraseHash, ErasureTypeOK
<1>6. CASE EraseHashFails(e)
  <2>1. at' \in [Erasers -> 0 .. Len(Manifest) + 2]
    BY <1>6, AdvanceTyped DEF EraseHashFails, AtStep
  <2>2. HashTypeOK'
    BY <1>6, FaultTyped DEF EraseHashFails, ErasureTypeOK, HashTypeOK
  <2>3. calm' \in [Erasers -> BOOLEAN]
    BY <1>6, DisturbTyped DEF EraseHashFails
  <2>4. failed' \in [Erasers -> SUBSET (Steps \cup {"name"})]
    BY <1>6, StepsAre DEF EraseHashFails, ErasureTypeOK
  <2> QED BY <1>6, <2>1, <2>2, <2>3, <2>4 DEF EraseHashFails, ErasureTypeOK
<1>7. CASE PurgeStep(e)
  <2>1. Purge(e) \/ GiveUpLock(e)
    BY <1>7 DEF PurgeStep
  <2>2. HashTypeOK'
    BY <1>0, <2>1, PurgeTyped DEF ErasureTypeOK
  <2>3. AtStep(e, "hash")
    BY <2>1 DEF PurgeInv, PurgeOK, Purge, TakeLock, GiveUpLock, LoadBlob, PutBlob, BlobFails, Unlock
  <2>4. at' \in [Erasers -> 0 .. Len(Manifest) + 2]
    BY <1>7, <2>3, AdvanceTyped DEF PurgeStep, AtStep, ErasureTypeOK
  <2>5. calm' \in [Erasers -> BOOLEAN]
    <3>1. CASE Disturb({e})
      BY <3>1, DisturbTyped
    <3>2. CASE calm' = [calm EXCEPT ![e] = @ /\ faults' = faults]
      BY <3>2, Zenon DEF ErasureTypeOK
    <3> QED BY <1>7, <3>1, <3>2 DEF PurgeStep
  <2> QED BY <1>7, <2>2, <2>4, <2>5 DEF PurgeStep, ErasureTypeOK
<1>8. CASE EraserDies(e)
  <2>1. PurgeGoes(e, "idle") /\ UNCHANGED <<hashes, blob, lock, purged>>
    BY <1>8 DEF EraserDies, AbandonPurge
  <2>2. purge' \in [Purgers -> PurgePlaces] /\ copy' \in [Purgers -> SUBSET Names]
    BY <2>1, <1>0 DEF PurgeGoes, PurgePlaces, ErasureTypeOK, HashTypeOK
  <2>3. HashTypeOK'
    BY <1>8, <2>1, <2>2, FaultTyped DEF EraserDies, ErasureTypeOK, HashTypeOK
  <2>4. calm' \in [Erasers -> BOOLEAN]
    BY <1>8, DisturbTyped DEF EraserDies
  <2>5. at' \in [Erasers -> 0 .. Len(Manifest) + 2]
    BY <1>8 DEF EraserDies, ErasureTypeOK
  <2> QED BY <1>8, <2>3, <2>4, <2>5 DEF EraserDies, ErasureTypeOK
<1> QED BY <1>1, <1>2, <1>3, <1>4, <1>5, <1>6, <1>7, <1>8 DEF Erase

LEMMA OtherTyped ==
  ASSUME ErasureTypeOK, NEW p \in Purgers, OtherErases(p)
  PROVE  ErasureTypeOK'
<1>1. HashTypeOK'
  BY PurgeTyped, DeleteHashTyped DEF OtherErases, ErasureTypeOK
<1> QED BY <1>1 DEF OtherErases, ErasureTypeOK

LEMMA ReaderTyped ==
  ASSUME ErasureTypeOK, NEW r \in Readers, LookUp(r) \/ Load(r) \/ Fill(r)
  PROVE  ErasureTypeOK'
<1>1. CASE LookUp(r)
  BY <1>1 DEF LookUp, ErasureTypeOK, HashTypeOK
<1>2. CASE Load(r)
  BY <1>2 DEF Load, ErasureTypeOK, HashTypeOK
<1>3. CASE Fill(r)
  <2>1. HashTypeOK'
    BY <1>3, FaultTyped DEF Fill, ErasureTypeOK, HashTypeOK
  <2>2. calm' \in [Erasers -> BOOLEAN]
    BY <1>3, DisturbTyped DEF Fill, ErasureTypeOK
  <2> QED BY <1>3, <2>1, <2>2, StoresAre DEF Fill, ErasureTypeOK
<1> QED BY <1>1, <1>2, <1>3

LEMMA ClockTyped ==
  ASSUME ErasureTypeOK, LockExpires \/ CacheExpires
  PROVE  ErasureTypeOK'
<1>1. CASE LockExpires
  BY <1>1 DEF LockExpires, ExpireLock, ErasureTypeOK, HashTypeOK
<1>2. CASE CacheExpires
  BY <1>2 DEF CacheExpires, ErasureTypeOK, HashTypeOK
<1> QED BY <1>1, <1>2

LEMMA StepTyped ==
  ASSUME ErasureTypeOK, PurgeInv, [Next]_erasureVars
  PROVE  ErasureTypeOK'
<1>1. CASE IngestWrites \/ IngestMarks \/ IngestSkips \/ MirrorDegrades \/ IngestDies
  BY <1>1, IngestTyped
<1>2. CASE \E e \in Erasers : Erase(e)
  BY <1>2, EraseTyped
<1>3. CASE \E p \in Purgers \ Erasers : OtherErases(p)
  BY <1>3, OtherTyped
<1>4. CASE LockExpires \/ CacheExpires
  BY <1>4, ClockTyped
<1>5. CASE \E r \in Readers : LookUp(r) \/ Load(r) \/ Fill(r)
  BY <1>5, ReaderTyped
<1>6. CASE UNCHANGED erasureVars
  BY <1>6 DEF ErasureTypeOK, HashTypeOK
<1> QED BY <1>1, <1>2, <1>3, <1>4, <1>5, <1>6 DEF Next

LEMMA InitTyped == Init => ErasureTypeOK
  BY HashCacheAssumption, StoresAre, ManifestHas, WritesHas
  DEF Init, InitHashes, ErasureTypeOK, HashTypeOK, PurgePlaces

-----------------------------------------------------------------------------
(* The lock of the blob.                                                   *)

\* What one erasure's purge does keeps BlobInv.
LEMMA PurgeKeepsBlob ==
  ASSUME ErasureTypeOK, BlobInv, NEW p \in Purgers,
         Purge(p) \/ GiveUpLock(p) \/ DeleteHash(p) \/ AbandonPurge(p)
  PROVE  BlobInv'
<1> USE DEF BlobInv, BlobStaysPurged, PurgeGoes
<1>t. /\ purge \in [Purgers -> PurgePlaces] /\ copy \in [Purgers -> SUBSET Names]
      /\ purged \subseteq Purgers
      /\ NoOne \notin Purgers
  BY HashCacheAssumption DEF ErasureTypeOK, HashTypeOK
<1>1. CASE TakeLock(p)
  BY <1>1, <1>t DEF TakeLock
<1>2. CASE LoadBlob(p)
  BY <1>2, <1>t DEF LoadBlob
<1>3. CASE PutBlob(p)
  <2>1. blob' = blob \ {NameOf[p]} /\ lock = p
    BY <1>3 DEF PutBlob
  <2>2. ASSUME NEW q \in Purgers, q # p
        PROVE  purge'[q] \notin {"load", "put", "unlock"}
    BY <1>3, <1>t, <2>1, <2>2 DEF PutBlob
  <2>3. purge'[p] = "unlock" /\ lock' = p
    BY <1>3, <1>t, <2>1 DEF PutBlob
  <2>4. BlobStaysPurged'
    BY <1>3, <1>t, <2>1 DEF PutBlob
  <2> QED BY <2>2, <2>3, <2>4
<1>4. CASE BlobFails(p)
  BY <1>4, <1>t DEF BlobFails
<1>5. CASE Unlock(p)
  BY <1>5, <1>t DEF Unlock
<1>6. CASE GiveUpLock(p)
  BY <1>6, <1>t DEF GiveUpLock
<1>7. CASE DeleteHash(p)
  BY <1>7, <1>t DEF DeleteHash
<1>8. CASE AbandonPurge(p)
  BY <1>8, <1>t DEF AbandonPurge
<1> QED BY <1>1, <1>2, <1>3, <1>4, <1>5, <1>6, <1>7, <1>8 DEF Purge

\* A step of the system is, for the blob, a step of one purge, the lock running out, or
\* none at all.
LEMMA BlobStepIs ==
  ASSUME [Next]_erasureVars
  PROVE  \/ \E p \in Purgers :
              Purge(p) \/ GiveUpLock(p) \/ DeleteHash(p) \/ AbandonPurge(p)
         \/ ExpireLock
         \/ UNCHANGED <<blob, lock, purge, copy, purged>>
<1>1. CASE IngestWrites \/ IngestMarks \/ IngestSkips \/ MirrorDegrades \/ IngestDies
  BY <1>1 DEF IngestWrites, IngestMarks, SetHash, IngestSkips, MirrorDegrades, IngestDies
<1>2. ASSUME NEW e \in Erasers, Erase(e)
      PROVE  \/ Purge(e) \/ GiveUpLock(e) \/ DeleteHash(e) \/ AbandonPurge(e)
             \/ UNCHANGED <<blob, lock, purge, copy, purged>>
  BY <1>2 DEF Erase, Begin, EraseStore, EraseFails, SkipStore, FindSha, EraseHash,
              EraseHashFails, PurgeStep, EraserDies
<1>3. CASE \E p \in Purgers \ Erasers : OtherErases(p)
  BY <1>3 DEF OtherErases
<1>4. CASE LockExpires \/ CacheExpires
  BY <1>4 DEF LockExpires, CacheExpires
<1>5. CASE \E r \in Readers : LookUp(r) \/ Load(r) \/ Fill(r)
  BY <1>5 DEF LookUp, Load, Fill
<1>6. CASE UNCHANGED erasureVars
  BY <1>6
<1> QED BY <1>1, <1>2, <1>3, <1>4, <1>5, <1>6, ErasureAssumption DEF Next

LEMMA BlobStep ==
  ASSUME ErasureTypeOK, BlobInv, [Next]_erasureVars
  PROVE  BlobInv'
<1>1. CASE \E p \in Purgers :
              Purge(p) \/ GiveUpLock(p) \/ DeleteHash(p) \/ AbandonPurge(p)
  BY <1>1, PurgeKeepsBlob
<1>2. CASE ExpireLock
  <2>1. \A p \in Purgers : purge[p] \notin {"load", "put", "unlock"}
    BY <1>2 DEF ExpireLock, BlobInv
  <2> QED BY <1>2, <2>1 DEF ExpireLock, BlobInv, BlobStaysPurged
<1>3. CASE UNCHANGED <<blob, lock, purge, copy, purged>>
  BY <1>3 DEF BlobInv, BlobStaysPurged
<1> QED BY <1>1, <1>2, <1>3, BlobStepIs

-----------------------------------------------------------------------------
(* An erasure and its purge.                                               *)

\* What the other erasures know of themselves.
LEMMA OthersUntouched ==
  ASSUME ErasureTypeOK, NEW e \in Erasers, NEW other \in Purgers, other # e, Erase(e)
  PROVE  /\ purge'[other] = purge[other]
         /\ copy'[other] = copy[other]
         /\ other \in Erasers => /\ at'[other] = at[other]
                                /\ known'[other] = known[other]
                                /\ reached'[other] = reached[other]
                                /\ failed'[other] = failed[other]
<1>t. /\ purge \in [Purgers -> PurgePlaces] /\ copy \in [Purgers -> SUBSET Names]
      /\ at \in [Erasers -> 0 .. Len(Manifest) + 2]
      /\ known \in [Erasers -> SUBSET {"id", "name", "sha"}]
      /\ reached \in [Erasers -> SUBSET Steps]
      /\ failed \in [Erasers -> SUBSET (Steps \cup {"name"})]
  BY DEF ErasureTypeOK, HashTypeOK
<1>1. CASE Begin(e)
  BY <1>1, <1>t DEF Begin
<1>2. CASE EraseStore(e)
  BY <1>2, <1>t DEF EraseStore, Advance
<1>3. CASE EraseFails(e)
  BY <1>3, <1>t DEF EraseFails, Advance
<1>4. CASE SkipStore(e)
  BY <1>4, <1>t DEF SkipStore, Advance
<1>5. CASE FindSha(e)
  BY <1>5, <1>t DEF FindSha, Advance
<1>6. CASE EraseHash(e)
  BY <1>6, <1>t DEF EraseHash, DeleteHash
<1>7. CASE EraseHashFails(e)
  BY <1>7, <1>t DEF EraseHashFails, Advance
<1>8. CASE PurgeStep(e)
  <2>1. \E place \in PurgePlaces : PurgeGoes(e, place)
    BY <1>8 DEF PurgeStep, Purge, TakeLock, GiveUpLock, LoadBlob, PutBlob, BlobFails,
                Unlock, PurgePlaces
  <2> QED BY <1>8, <1>t, <2>1 DEF PurgeStep, PurgeGoes, Advance
<1>9. CASE EraserDies(e)
  BY <1>9, <1>t DEF EraserDies, AbandonPurge, PurgeGoes
<1> QED BY <1>1, <1>2, <1>3, <1>4, <1>5, <1>6, <1>7, <1>8, <1>9 DEF Erase

\* A step of the erasure's own keeps it.
LEMMA PurgeOwnStep ==
  ASSUME ErasureTypeOK, NEW e \in Erasers, PurgeOK(e), Erase(e)
  PROVE  PurgeOK(e)'
<1> USE ManifestHas DEF PurgeOK, AtStep
<1>t. /\ purge \in [Purgers -> PurgePlaces]
      /\ at \in [Erasers -> 0 .. 13]
      /\ known \in [Erasers -> SUBSET {"id", "name", "sha"}]
      /\ reached \in [Erasers -> SUBSET Steps]
      /\ e \in Purgers
  BY ErasureAssumption DEF ErasureTypeOK, HashTypeOK
<1>1. CASE Begin(e)
  <2>1. purge[e] = "idle" /\ at'[e] = 1 /\ reached'[e] = {} /\ purge' = purge
    BY <1>1, <1>t DEF Begin
  <2>2. "id" \in known'[e]
    BY <1>1, <1>t DEF Begin
  <2> QED BY <2>1, <2>2
<1>2. CASE EraseStore(e)
  <2>1. PICK s \in Stores : /\ AtStep(e, s) /\ KeyOf[s] \in known[e]
                            /\ reached' = [reached EXCEPT ![e] = @ \cup {s}]
    BY <1>2 DEF EraseStore
  <2>2. s # "hash" /\ (s = "preloaded" => "name" \in known[e])
    BY <2>1, StoresAre, StepsAre DEF KeyOf
  <2>3. known[e] \subseteq known'[e]
    BY <1>2, <1>t DEF EraseStore, NameFromListing
  <2>4. purge[e] = "idle" /\ purge' = purge /\ at'[e] = at[e] + 1
    BY <1>2, <1>t, <2>1, <2>2 DEF EraseStore, Advance
  <2>5. reached'[e] = reached[e] \cup {s} /\ "id" \in known[e]
    BY <1>t, <2>1
  <2> QED BY <2>2, <2>3, <2>4, <2>5
<1>3. CASE EraseFails(e)
  <2>1. PICK s \in Stores :
          /\ AtStep(e, s) /\ KeyOf[s] \in known[e]
          /\ reached' = [reached EXCEPT ![e] = IF s \in Swallowed THEN @ \cup {s} ELSE @]
    BY <1>3 DEF EraseFails
  <2>2. s # "hash"
    BY StoresAre
  <2>3. known[e] \subseteq known'[e]
    BY <1>3, <1>t DEF EraseFails, NameFromListing
  <2>4. purge[e] = "idle" /\ purge' = purge /\ at'[e] = at[e] + 1
    BY <1>3, <1>t, <2>1, <2>2 DEF EraseFails, Advance
  <2>5. reached'[e] \cap {"hash", "preloaded"} = reached[e] \cap {"hash", "preloaded"}
    BY <1>t, <2>1 DEF Swallowed
  <2> QED BY <1>t, <2>1, <2>3, <2>4, <2>5
<1>4. CASE SkipStore(e)
  <2>1. PICK s \in Steps : AtStep(e, s) /\ KeyOf[s] \notin known[e]
    BY <1>4 DEF SkipStore
  <2>2. purge[e] = "idle"
    BY <2>1, StepsAre DEF KeyOf
  <2> QED BY <1>4, <1>t, <2>1, <2>2 DEF SkipStore, Advance
<1>5. CASE FindSha(e)
  <2>1. known[e] \subseteq known'[e]
    BY <1>5, <1>t DEF FindSha
  <2>2. purge[e] = "idle" /\ purge' = purge /\ at'[e] = at[e] + 1 /\ reached' = reached
    BY <1>5, <1>t DEF FindSha, Advance
  <2> QED BY <1>5, <1>t, <2>1, <2>2 DEF FindSha
<1>6. CASE EraseHash(e)
  BY <1>6, <1>t DEF EraseHash, DeleteHash
<1>7. CASE EraseHashFails(e)
  BY <1>7, <1>t DEF EraseHashFails, Advance
<1>8. CASE PurgeStep(e)
  <2>1. Purge(e) \/ GiveUpLock(e)
    BY <1>8 DEF PurgeStep
  <2>2. purge[e] # "idle"
    BY <2>1 DEF Purge, TakeLock, GiveUpLock, LoadBlob, PutBlob, BlobFails, Unlock
  <2> QED BY <1>8, <1>t, <2>2 DEF PurgeStep, Advance
<1>9. CASE EraserDies(e)
  BY <1>9, <1>t DEF EraserDies, AbandonPurge, PurgeGoes
<1> QED BY <1>1, <1>2, <1>3, <1>4, <1>5, <1>6, <1>7, <1>8, <1>9 DEF Erase

\* A step of another process leaves an erasure's own variables as they are.
LEMMA OthersStep ==
  ASSUME ErasureTypeOK, [Next]_erasureVars, NEW e \in Erasers, ~Erase(e)
  PROVE  /\ at'[e] = at[e] /\ known'[e] = known[e]
         /\ reached'[e] = reached[e] /\ failed'[e] = failed[e]
         /\ purge'[e] = purge[e] /\ copy'[e] = copy[e]
<1>0. e \in Purgers
  BY ErasureAssumption
<1>1. CASE IngestWrites \/ IngestMarks \/ IngestSkips \/ MirrorDegrades \/ IngestDies
  BY <1>1 DEF IngestWrites, IngestMarks, SetHash, IngestSkips, MirrorDegrades, IngestDies
<1>2. ASSUME NEW q \in Erasers, Erase(q)
      PROVE  /\ at'[e] = at[e] /\ known'[e] = known[e]
             /\ reached'[e] = reached[e] /\ failed'[e] = failed[e]
             /\ purge'[e] = purge[e] /\ copy'[e] = copy[e]
  BY <1>0, <1>2, OthersUntouched
<1>3. ASSUME NEW p \in Purgers \ Erasers, OtherErases(p)
      PROVE  /\ UNCHANGED eraseVars
             /\ purge'[e] = purge[e] /\ copy'[e] = copy[e]
  <2>1. PICK place \in PurgePlaces : purge' = [purge EXCEPT ![p] = place]
    BY <1>3 DEF OtherErases, DeleteHash, Purge, TakeLock, GiveUpLock, LoadBlob, PutBlob,
                BlobFails, Unlock, PurgeGoes, PurgePlaces
  <2>2. copy' = copy \/ \E goes \in PurgePlaces : PurgeGoes(p, goes)
    BY <1>3 DEF OtherErases, DeleteHash, Purge, TakeLock, GiveUpLock, LoadBlob, PutBlob,
                BlobFails, Unlock, PurgePlaces
  <2>3. purge'[e] = purge[e] /\ copy'[e] = copy[e]
    BY <1>0, <2>1, <2>2 DEF PurgeGoes, ErasureTypeOK, HashTypeOK
  <2> QED BY <1>3, <2>3 DEF OtherErases
<1>4. CASE LockExpires \/ CacheExpires
  BY <1>4 DEF LockExpires, ExpireLock, CacheExpires
<1>5. CASE \E r \in Readers : LookUp(r) \/ Load(r) \/ Fill(r)
  BY <1>5 DEF LookUp, Load, Fill
<1>6. CASE UNCHANGED erasureVars
  BY <1>6
<1> QED BY <1>1, <1>2, <1>3, <1>4, <1>5, <1>6 DEF Next

LEMMA PurgeInvStep ==
  ASSUME ErasureTypeOK, PurgeInv, [Next]_erasureVars
  PROVE  PurgeInv'
<1>1. ASSUME NEW e \in Erasers
      PROVE  PurgeOK(e)'
  <2>1. PurgeOK(e)
    BY DEF PurgeInv
  <2>2. CASE Erase(e)
    BY <2>1, <2>2, PurgeOwnStep
  <2>3. CASE ~Erase(e)
    BY <2>1, <2>3, OthersStep DEF PurgeOK, AtStep
  <2> QED BY <2>2, <2>3
<1> QED BY <1>1 DEF PurgeInv

-----------------------------------------------------------------------------
(* The answer of an erasure.                                               *)

\* Whatever the erasure did with the step it was at, the step is behind it.
LEMMA PassedGrows ==
  ASSUME ErasureTypeOK, NEW e \in Erasers, at'[e] = at[e] + 1, at[e] \in 1 .. 11
  PROVE  Passed(e)' = Passed(e) \cup ({Manifest[at[e]]} \ {"sha"})
<1>1. \A j \in 1 .. 11 : j < at[e] + 1 <=> (j < at[e] \/ j = at[e])
  OBVIOUS
<1>2. {j \in DOMAIN Manifest : j < at[e] + 1} = {j \in DOMAIN Manifest : j < at[e]} \cup {at[e]}
  BY <1>1, ManifestHas
<1> QED BY <1>2 DEF Passed

LEMMA PassedAll ==
  ASSUME NEW e, Finished(e)
  PROVE  Passed(e) = Steps
<1>1. at[e] = 12 /\ DOMAIN Manifest = 1 .. 11
  BY ManifestHas DEF Finished
<1>2. {j \in DOMAIN Manifest : j < at[e]} = DOMAIN Manifest
  BY <1>1
<1> QED BY <1>2 DEF Passed, Steps

LEMMA PassedNone ==
  ASSUME NEW e, at[e] = 1
  PROVE  Passed(e) = {}
  BY ManifestHas DEF Passed

LEMMA StepsOwnStep ==
  ASSUME ErasureTypeOK, NEW e \in Erasers, PurgeOK(e), StepsOK(e), Erase(e)
  PROVE  StepsOK(e)'
<1> USE ManifestHas
<1>t. /\ at \in [Erasers -> 0 .. 13]
      /\ known \in [Erasers -> SUBSET {"id", "name", "sha"}]
      /\ reached \in [Erasers -> SUBSET Steps]
      /\ failed \in [Erasers -> SUBSET (Steps \cup {"name"})]
  BY DEF ErasureTypeOK
<1>1. CASE Begin(e)
  <2>1. at'[e] = 1
    BY <1>1, <1>t DEF Begin
  <2>2. Passed(e)' = {}
    BY <2>1 DEF Passed
  <2> QED BY <2>2 DEF StepsOK
<1>2. CASE EraseStore(e) \/ EraseFails(e)
  <2>1. PICK s \in Stores :
          /\ AtStep(e, s)
          /\ s \in reached'[e] \/ s \in failed'[e] \ Swallowed
          /\ reached[e] \subseteq reached'[e] /\ failed[e] \subseteq failed'[e]
    <3>1. CASE EraseStore(e)
      BY <3>1, <1>t DEF EraseStore
    <3>2. CASE EraseFails(e)
      BY <3>2, <1>t DEF EraseFails
    <3> QED BY <1>2, <3>1, <3>2
  <2>2. at[e] \in 1 .. 11 /\ s = Manifest[at[e]]
    BY <2>1, StepOf
  <2>3. at'[e] = at[e] + 1
    BY <1>2, <1>t DEF EraseStore, EraseFails, Advance
  <2>4. Passed(e)' \subseteq Passed(e) \cup {s}
    BY <2>2, <2>3, PassedGrows
  <2>5. CASE at[e] = 1
    BY <2>1, <2>4, <2>5, PassedNone DEF StepsOK
  <2>6. CASE at[e] # 1
    <3>1. known'[e] = known[e]
      BY <1>2, <1>t, <2>2, <2>6 DEF EraseStore, EraseFails, NameFromListing, AtStep
    <3>2. ~Dead(e)
      BY <2>2 DEF Dead
    <3> QED BY <2>1, <2>4, <3>1, <3>2 DEF StepsOK
  <2> QED BY <2>5, <2>6
<1>4. CASE SkipStore(e)
  <2>1. PICK s \in Steps : AtStep(e, s) /\ KeyOf[s] \notin known[e]
    BY <1>4 DEF SkipStore
  <2>2. at[e] \in 1 .. 11 /\ s = Manifest[at[e]]
    BY <2>1, StepOf
  <2>3. at'[e] = at[e] + 1 /\ UNCHANGED <<known, reached, failed>>
    BY <1>4, <1>t DEF SkipStore, Advance
  <2>4. Passed(e)' \subseteq Passed(e) \cup {s}
    BY <2>2, <2>3, PassedGrows
  <2>5. "id" \in known[e]
    BY <2>2 DEF PurgeOK
  <2>6. s \in Optional \/ (s = "hash" /\ "name" \notin known[e])
    BY <2>1, <2>5, StepsAre DEF KeyOf, Optional
  <2> QED BY <2>2, <2>3, <2>4, <2>6 DEF StepsOK, Dead
<1>5. CASE FindSha(e)
  <2>1. at[e] \in 1 .. 11 /\ "sha" = Manifest[at[e]]
    BY <1>5, StepOf DEF FindSha
  <2>2. at'[e] = at[e] + 1 /\ UNCHANGED <<reached, failed>>
    BY <1>5, <1>t DEF FindSha, Advance
  <2>3. Passed(e)' \subseteq Passed(e)
    BY <2>1, <2>2, PassedGrows
  <2>4. "name" \notin known[e] => "name" \notin known'[e]
    BY <1>5, <1>t DEF FindSha
  <2> QED BY <2>1, <2>2, <2>3, <2>4 DEF StepsOK, Dead
<1>6. CASE EraseHash(e)
  <2>1. at' = at /\ known' = known /\ failed' = failed /\ reached[e] \subseteq reached'[e]
    BY <1>6, <1>t DEF EraseHash
  <2> QED BY <2>1 DEF StepsOK, Dead, Passed
<1>7. CASE EraseHashFails(e)
  <2>1. at[e] \in 1 .. 11 /\ "hash" = Manifest[at[e]]
    BY <1>7, StepOf DEF EraseHashFails
  <2>2. /\ at'[e] = at[e] + 1 /\ UNCHANGED <<known, reached>>
        /\ failed'[e] = failed[e] \cup {"hash"}
    BY <1>7, <1>t DEF EraseHashFails, Advance
  <2>3. Passed(e)' \subseteq Passed(e) \cup {"hash"}
    BY <2>1, <2>2, PassedGrows
  <2> QED BY <2>1, <2>2, <2>3 DEF StepsOK, Dead, Swallowed
<1>8. CASE PurgeStep(e)
  <2>1. Purge(e) \/ GiveUpLock(e)
    BY <1>8 DEF PurgeStep
  <2>2. AtStep(e, "hash") /\ "hash" \in reached[e]
    BY <2>1 DEF PurgeOK, Purge, TakeLock, GiveUpLock, LoadBlob, PutBlob, BlobFails, Unlock
  <2>3. at[e] \in 1 .. 11 /\ "hash" = Manifest[at[e]]
    BY <2>2, StepOf
  <2>4. UNCHANGED <<known, reached, failed>>
    BY <1>8 DEF PurgeStep
  <2>5. CASE at' = at
    BY <2>4, <2>5 DEF StepsOK, Dead, Passed
  <2>6. CASE Advance(e)
    <3>1. at'[e] = at[e] + 1
      BY <1>t, <2>6 DEF Advance
    <3>2. Passed(e)' \subseteq Passed(e) \cup {"hash"}
      BY <2>3, <3>1, PassedGrows
    <3> QED BY <2>2, <2>3, <2>4, <3>1, <3>2 DEF StepsOK, Dead
  <2> QED BY <1>8, <2>5, <2>6 DEF PurgeStep
<1>9. CASE EraserDies(e)
  BY <1>9, <1>t DEF EraserDies, StepsOK, Dead
<1> QED BY <1>1, <1>2, <1>4, <1>5, <1>6, <1>7, <1>8, <1>9 DEF Erase

LEMMA StepsInvStep ==
  ASSUME ErasureTypeOK, PurgeInv, StepsInv, [Next]_erasureVars
  PROVE  StepsInv'
<1>1. ASSUME NEW e \in Erasers
      PROVE  StepsOK(e)'
  <2>1. PurgeOK(e) /\ StepsOK(e)
    BY DEF PurgeInv, StepsInv
  <2>2. CASE Erase(e)
    BY <2>1, <2>2, StepsOwnStep
  <2>3. CASE ~Erase(e)
    BY <2>1, <2>3, OthersStep DEF StepsOK, Dead, Passed
  <2> QED BY <2>2, <2>3
<1> QED BY <1>1 DEF StepsInv

\* A clean answer is one of an erasure that reached every step.
LEMMA StepsReported ==
  ASSUME ErasureTypeOK, PurgeInv, StepsInv
  PROVE  GapIsReported
<1>1. ASSUME NEW e \in Erasers, Finished(e), Clean(e)
      PROVE  reached[e] = Steps
  <2>1. reached[e] \subseteq Steps
    BY DEF ErasureTypeOK
  <2>2. "preloaded" \in reached[e] /\ failed[e] \ Swallowed = {} /\ Optional \subseteq reached[e]
    BY <1>1 DEF Clean, Optional
  <2>3. "name" \in known[e]
    BY <2>2 DEF PurgeInv, PurgeOK
  <2>4. ~Dead(e)
    BY <1>1, ManifestHas DEF Finished, Dead
  <2>5. \A s \in Steps : s \in reached[e]
    BY <1>1, <2>2, <2>3, <2>4, PassedAll DEF StepsInv, StepsOK
  <2> QED BY <2>1, <2>5
<1> QED BY <1>1 DEF GapIsReported

-----------------------------------------------------------------------------
(* A pass that nothing disturbs.                                           *)

LEMMA BlobShrinks ==
  ASSUME ErasureTypeOK, BlobInv, [Next]_erasureVars
  PROVE  blob' \subseteq blob
<1>1. ASSUME NEW p \in Purgers, Purge(p) \/ GiveUpLock(p) \/ DeleteHash(p) \/ AbandonPurge(p)
      PROVE  blob' \subseteq blob
  BY <1>1 DEF BlobInv, Purge, TakeLock, GiveUpLock, LoadBlob, PutBlob, BlobFails, Unlock,
              DeleteHash, AbandonPurge
<1> QED BY <1>1, BlobStepIs DEF ExpireLock

\* A step of anyone else leaves a calm erasure's document as it is, but for an entry of
\* the cache that runs out, and the dedup entries shrink.
LEMMA CalmFrame ==
  ASSUME ErasureTypeOK, BlobInv, [Next]_erasureVars, NEW e \in Erasers, ~Erase(e),
         calm'[e]
  PROVE  /\ calm[e]
         /\ IngestEnded => wrote' = wrote
         /\ held' \in {held, held \ {"cache"}}
         /\ hashes' \subseteq hashes
<1>c. ASSUME NEW others, Disturb(others)
      PROVE  e \notin others /\ calm[e]
  BY <1>c DEF Disturb
<1>1. CASE IngestWrites \/ IngestMarks \/ MirrorDegrades
  BY <1>1, <1>c DEF IngestWrites, IngestMarks, MirrorDegrades
<1>2. CASE IngestSkips \/ IngestDies
  BY <1>2, WritesHas DEF IngestSkips, IngestDies, IngestEnded
<1>3. ASSUME NEW q \in Erasers, Erase(q)
      PROVE  calm[e] /\ wrote' = wrote /\ held' = held /\ hashes' = hashes
  <2>0. q # e
    BY <1>3
  <2>1. CASE Begin(q)
    <3>1. CASE calm' = [calm EXCEPT ![q] = IngestEnded /\ Whole]
      BY <2>0, <2>1, <3>1 DEF Begin, ErasureTypeOK
    <3>2. CASE Disturb({q})
      BY <1>c, <2>1, <3>2 DEF Begin
    <3> QED BY <2>1, <3>1, <3>2 DEF Begin
  <2>2. CASE EraseStore(q) \/ EraseFails(q) \/ EraseHash(q)
    BY <1>c, <2>0, <2>2 DEF EraseStore, EraseFails, EraseHash
  <2>3. CASE SkipStore(q)
    BY <2>3 DEF SkipStore
  <2>4. CASE FindSha(q)
    BY <1>c, <2>4 DEF FindSha
  <2>5. CASE EraseHashFails(q)
    BY <1>c, <2>5 DEF EraseHashFails
  <2>6. CASE PurgeStep(q)
    <3>1. hashes' = hashes
      BY <2>6 DEF PurgeStep, Purge, TakeLock, GiveUpLock, LoadBlob, PutBlob, BlobFails, Unlock
    <3>2. CASE calm' = [calm EXCEPT ![q] = @ /\ faults' = faults]
      BY <2>0, <2>6, <3>1, <3>2 DEF PurgeStep, ErasureTypeOK
    <3>3. CASE Disturb({q})
      BY <1>c, <2>6, <3>1, <3>3 DEF PurgeStep
    <3> QED BY <2>6, <3>2, <3>3 DEF PurgeStep
  <2>7. CASE EraserDies(q)
    BY <1>c, <2>7 DEF EraserDies, AbandonPurge
  <2> QED BY <1>3, <2>1, <2>2, <2>3, <2>4, <2>5, <2>6, <2>7 DEF Erase
<1>4. ASSUME NEW p \in Purgers \ Erasers, OtherErases(p)
      PROVE  /\ calm' = calm /\ wrote' = wrote /\ held' = held /\ hashes' \subseteq hashes
  BY <1>4 DEF OtherErases, DeleteHash, Purge, TakeLock, GiveUpLock, LoadBlob, PutBlob,
              BlobFails, Unlock
<1>5. CASE LockExpires \/ CacheExpires
  BY <1>5 DEF LockExpires, ExpireLock, CacheExpires
<1>6. ASSUME NEW r \in Readers, LookUp(r) \/ Load(r) \/ Fill(r)
      PROVE  calm[e] /\ wrote' = wrote /\ held' = held /\ hashes' = hashes
  BY <1>6, <1>c DEF LookUp, Load, Fill
<1>7. CASE UNCHANGED erasureVars
  BY <1>7
<1> QED BY <1>1, <1>2, <1>3, <1>4, <1>5, <1>6, <1>7 DEF Next

LEMMA CalmOthersStep ==
  ASSUME ErasureTypeOK, BlobInv, [Next]_erasureVars, NEW e \in Erasers, ~Erase(e), CalmOK(e)
  PROVE  CalmOK(e)'
<1>1. /\ at'[e] = at[e] /\ known'[e] = known[e] /\ reached'[e] = reached[e]
      /\ failed'[e] = failed[e] /\ purge'[e] = purge[e]
  BY OthersStep
<1>2. CASE ~calm'[e]
  BY <1>2 DEF CalmOK
<1>3. CASE calm'[e]
  <2>1. /\ calm[e]
        /\ IngestEnded => wrote' = wrote
        /\ held' \in {held, held \ {"cache"}}
        /\ hashes' \subseteq hashes
        /\ blob' \subseteq blob
    BY <1>3, CalmFrame, BlobShrinks
  <2>2. at[e] # 0
    BY <2>1 DEF CalmOK
  <2>3. CASE Dead(e)
    BY <1>1, <2>2, <2>3 DEF CalmOK, Dead
  <2>4. CASE ~Dead(e)
    <3>1. CalmSteps(e)
      BY <2>1, <2>2, <2>4 DEF CalmOK
    <3>2. Passed(e)' = Passed(e)
      BY <1>1 DEF Passed
    <3>3. CalmSteps(e)'
      BY <1>1, <2>1, <3>1, <3>2 DEF CalmSteps, IngestEnded
    <3> QED BY <1>1, <2>2, <3>3 DEF CalmOK
  <2> QED BY <2>3, <2>4
<1> QED BY <1>2, <1>3

\* What the erasure itself does on an undisturbed pass: whatever ends badly disturbs it.
LEMMA CalmOwnStep ==
  ASSUME ErasureTypeOK, BlobInv, NEW e \in Erasers, PurgeOK(e), CalmOK(e), Erase(e)
  PROVE  CalmOK(e)'
<1> USE ManifestHas
<1>t. /\ at \in [Erasers -> 0 .. 13]
      /\ known \in [Erasers -> SUBSET {"id", "name", "sha"}]
      /\ reached \in [Erasers -> SUBSET Steps]
      /\ failed \in [Erasers -> SUBSET (Steps \cup {"name"})]
      /\ calm \in [Erasers -> BOOLEAN]
      /\ purge \in [Purgers -> PurgePlaces]
      /\ e \in Purgers /\ NameOf[e] = Name
      /\ held \subseteq Stores \cup {"sha"}
  BY ErasureAssumption DEF ErasureTypeOK, HashTypeOK
<1>c. ASSUME NEW others, Disturb(others)
      PROVE  /\ e \in others => ~calm'[e]
             /\ calm'[e] => calm[e]
  BY <1>c DEF Disturb
\* At a step of the manifest, a calm erasure is an undisturbed pass.
<1>p. at[e] \in 1 .. 11 /\ calm[e] => CalmSteps(e)
  BY DEF CalmOK, Dead
<1>1. CASE Begin(e)
  <2>1. /\ at'[e] = 1 /\ reached'[e] = {} /\ UNCHANGED <<held, wrote, hashes, blob, purge>>
    BY <1>1, <1>t DEF Begin
  <2>2. CASE ~calm'[e]
    BY <2>1, <2>2 DEF CalmOK
  <2>3. CASE calm'[e]
    <3>1. /\ calm' = [calm EXCEPT ![e] = IngestEnded /\ Whole]
          /\ known' = [known EXCEPT ![e] = IF "tree" \in held THEN {"id", "name"} ELSE {"id"}]
          /\ failed' = [failed EXCEPT ![e] = {}]
      BY <1>1, <1>c, <2>3 DEF Begin
    <3>2. IngestEnded /\ Whole
      BY <1>t, <2>3, <3>1
    <3>3. known'[e] = IF "tree" \in held THEN {"id", "name"} ELSE {"id"}
      BY <1>t, <3>1
    <3>4. failed'[e] = {}
      BY <1>t, <3>1
    <3>5. Passed(e)' = {}
      BY <2>1 DEF Passed
    <3>6. CalmSteps(e)'
      BY <2>1, <3>2, <3>3, <3>4, <3>5 DEF CalmSteps, IngestEnded, Whole
    <3> QED BY <2>1, <3>6 DEF CalmOK
  <2> QED BY <2>2, <2>3
<1>2. CASE EraseStore(e)
  <2>1. PICK s \in Stores :
          /\ AtStep(e, s)
          /\ held' = held \ Contents(s)
          /\ reached' = [reached EXCEPT ![e] = @ \cup {s}]
    BY <1>2 DEF EraseStore
  <2>2. at[e] \in 1 .. 11 /\ s = Manifest[at[e]]
    BY <2>1, StepOf
  <2>3. /\ at'[e] = at[e] + 1 /\ reached'[e] = reached[e] \cup {s}
        /\ known'[e] = NameFromListing(e)
        /\ UNCHANGED <<wrote, failed, hashes, blob, purge>>
    BY <1>2, <1>t, <2>1 DEF EraseStore, Advance
  <2>4. CASE ~calm'[e]
    BY <2>2, <2>3, <2>4 DEF CalmOK
  <2>5. CASE calm'[e]
    <3>1. CalmSteps(e)
      BY <1>2, <1>c, <1>p, <2>2, <2>5 DEF EraseStore
    <3>2. Passed(e)' = Passed(e) \cup ({s} \ {"sha"})
      BY <2>2, <2>3, PassedGrows
    <3>3. s \notin {"hash", "sha"} /\ s \in Contents(s)
      BY StoresAre DEF Contents
    <3>4. "name" \in known'[e]
      BY <2>1, <2>2, <2>3, <3>1 DEF CalmSteps, NameFromListing
    <3>5. "sha" \in known'[e] \/ (at'[e] <= 4 /\ held' \cap {"sha", "row"} # {})
      <4>1. CASE "sha" \in known[e]
        BY <2>3, <4>1 DEF NameFromListing
      <4>2. CASE "sha" \notin known[e]
        <5>1. at[e] <= 4 /\ held \cap {"sha", "row"} # {}
          BY <3>1, <4>2 DEF CalmSteps
        <5>2. at[e] \in {1, 2, 3} /\ s \in {"uploads", "tree", "flat"}
          BY <2>2, <3>3, <5>1
        <5> QED BY <2>1, <2>3, <5>1, <5>2 DEF Contents
      <4> QED BY <4>1, <4>2
    <3>6. at'[e] > 6 => "sha" \notin held'
      <4>1. at[e] = 6 => "sha" \in Contents(s)
        BY <2>2 DEF Contents
      <4> QED BY <2>1, <2>2, <2>3, <3>1, <4>1 DEF CalmSteps
    <3>7. Passed(e)' \subseteq reached'[e] /\ held' \cap Passed(e)' = {}
      BY <2>1, <2>3, <3>1, <3>2, <3>3 DEF CalmSteps
    <3>8. /\ IngestEnded' /\ failed'[e] = {}
          /\ "hash" \in reached'[e] => Name \notin hashes'
          /\ "hash" \in reached'[e] /\ purge'[e] \in {"unlock", "idle"} => Name \notin blob'
      BY <2>3, <3>1, <3>3 DEF CalmSteps, IngestEnded
    <3>9. CalmSteps(e)'
      BY <3>4, <3>5, <3>6, <3>7, <3>8 DEF CalmSteps
    <3> QED BY <2>2, <2>3, <3>9 DEF CalmOK
  <2> QED BY <2>4, <2>5
<1>3. CASE EraseFails(e)
  <2>1. ~calm'[e]
    BY <1>3, <1>c DEF EraseFails
  <2> QED BY <2>1 DEF CalmOK
<1>4. CASE SkipStore(e)
  <2>1. PICK s \in Steps : AtStep(e, s) /\ KeyOf[s] \notin known[e]
    BY <1>4 DEF SkipStore
  <2>2. at[e] \in 1 .. 11 /\ s = Manifest[at[e]]
    BY <2>1, StepOf
  <2>3. "id" \in known[e]
    BY <2>2 DEF PurgeOK
  <2>4. \/ s \in {"hash", "preloaded"} /\ "name" \notin known[e]
        \/ s \in {"verdicts", "quarantine"} /\ "sha" \notin known[e]
    BY <2>1, <2>3, StepsAre DEF KeyOf
  <2>5. at[e] > 4
    BY <2>2, <2>4
  <2>6. ~calm[e]
    BY <1>p, <2>2, <2>4, <2>5 DEF CalmSteps
  <2> QED BY <1>4, <2>6 DEF SkipStore, CalmOK
<1>5. CASE FindSha(e)
  <2>1. at[e] \in 1 .. 11 /\ "sha" = Manifest[at[e]]
    BY <1>5, StepOf DEF FindSha
  <2>2. at[e] = 4
    BY <2>1
  <2>3. /\ at'[e] = 5
        /\ UNCHANGED <<held, wrote, reached, failed, hashes, blob, purge>>
    BY <1>5, <1>t, <2>2 DEF FindSha, Advance
  <2>4. CASE ~calm'[e]
    BY <2>3, <2>4 DEF CalmOK
  <2>5. CASE calm'[e]
    <3>1. /\ calm[e]
          /\ known' = [known EXCEPT ![e] =
                         IF held \cap {"sha", "row"} # {} THEN @ \cup {"sha"} ELSE @]
      BY <1>5, <1>c, <2>5 DEF FindSha
    <3>2. CalmSteps(e)
      BY <1>p, <2>1, <3>1
    <3>3. "name" \in known'[e] /\ "sha" \in known'[e]
      BY <1>t, <2>2, <3>1, <3>2 DEF CalmSteps
    <3>4. Passed(e)' = Passed(e)
      <4>1. at'[e] = at[e] + 1
        BY <2>2, <2>3
      <4>2. Passed(e)' = Passed(e) \cup ({"sha"} \ {"sha"})
        BY <2>1, <4>1, PassedGrows, Zenon
      <4> QED BY <4>2
    <3>5. CalmSteps(e)'
      BY <2>3, <3>2, <3>3, <3>4 DEF CalmSteps, IngestEnded
    <3> QED BY <2>3, <3>5 DEF CalmOK
  <2> QED BY <2>4, <2>5
<1>6. CASE EraseHash(e)
  <2>1. /\ at[e] \in 1 .. 11
        /\ hashes' = hashes \ {Name} /\ purge'[e] = "lock"
        /\ reached'[e] = reached[e] \cup {"hash"}
        /\ UNCHANGED <<held, wrote, at, known, failed, blob>>
    BY <1>6, <1>t, StepOf DEF EraseHash, DeleteHash
  <2>2. CASE ~calm'[e]
    BY <2>1, <2>2 DEF CalmOK
  <2>3. CASE calm'[e]
    <3>1. CalmSteps(e)
      BY <1>6, <1>c, <1>p, <2>1, <2>3 DEF EraseHash
    <3>2. Passed(e)' = Passed(e)
      BY <2>1 DEF Passed
    <3>3. CalmSteps(e)'
      BY <2>1, <3>1, <3>2 DEF CalmSteps, IngestEnded
    <3> QED BY <2>1, <3>3 DEF CalmOK
  <2> QED BY <2>2, <2>3
<1>7. CASE EraseHashFails(e)
  <2>1. ~calm'[e] /\ at[e] \in 1 .. 11 /\ at'[e] = at[e] + 1
    BY <1>7, <1>c, <1>t, StepOf DEF EraseHashFails, Advance
  <2> QED BY <2>1 DEF CalmOK
<1>8. CASE PurgeStep(e)
  <2>1. Purge(e) \/ GiveUpLock(e)
    BY <1>8 DEF PurgeStep
  <2>2. AtStep(e, "hash") /\ "hash" \in reached[e]
    BY <2>1 DEF PurgeOK, Purge, TakeLock, GiveUpLock, LoadBlob, PutBlob, BlobFails, Unlock
  <2>3. at[e] \in 1 .. 11 /\ Manifest[at[e]] = "hash"
    BY <2>2, StepOf
  <2>4. UNCHANGED <<held, wrote, known, reached, failed, hashes>>
    BY <1>8 DEF PurgeStep, Purge, TakeLock, GiveUpLock, LoadBlob, PutBlob, BlobFails, Unlock
  <2>5. at'[e] \in {at[e], at[e] + 1}
    BY <1>8, <1>t DEF PurgeStep, Advance
  <2>6. CASE ~calm'[e]
    BY <2>3, <2>5, <2>6 DEF CalmOK
  <2>7. CASE calm'[e]
    <3>1. Purge(e) /\ calm[e] /\ faults' = faults
      <4>1. ~Disturb({e})
        BY <1>c, <2>7
      <4>2. calm'[e] = (calm[e] /\ faults' = faults)
        BY <1>8, <1>t, <4>1, Zenon DEF PurgeStep
      <4> QED BY <1>8, <2>7, <4>1, <4>2 DEF PurgeStep
    <3>2. CalmSteps(e)
      BY <1>p, <2>3, <3>1
    <3>3. ~Fault
      BY <3>1 DEF Fault, ErasureTypeOK, HashTypeOK
    <3>4. purge'[e] \in {"unlock", "idle"} => Name \notin blob'
      <4>1. CASE TakeLock(e)
        BY <1>t, <4>1 DEF TakeLock, PurgeGoes
      <4>2. CASE LoadBlob(e)
        BY <1>t, <4>2 DEF LoadBlob, PurgeGoes
      <4>3. CASE PutBlob(e)
        BY <1>t, <4>3 DEF PutBlob
      <4>4. CASE Unlock(e)
        BY <2>2, <3>2, <4>4 DEF Unlock, CalmSteps
      <4> QED BY <3>1, <3>3, <4>1, <4>2, <4>3, <4>4 DEF Purge, BlobFails
    <3>5. Passed(e)' \subseteq Passed(e) \cup {"hash"}
      <4>1. CASE at'[e] = at[e]
        BY <4>1 DEF Passed
      <4>2. CASE at'[e] = at[e] + 1
        BY <2>3, <4>2, PassedGrows
      <4> QED BY <2>5, <4>1, <4>2
    <3>6. "hash" \notin held
      BY <1>t, StoresAre
    <3>7. at[e] = 9
      BY <2>3
    <3>8. CalmSteps(e)'
      BY <2>2, <2>4, <2>5, <3>2, <3>4, <3>5, <3>6, <3>7 DEF CalmSteps, IngestEnded
    <3> QED BY <2>3, <2>5, <3>8 DEF CalmOK
  <2> QED BY <2>6, <2>7
<1>9. CASE EraserDies(e)
  <2>1. ~calm'[e]
    BY <1>9, <1>c DEF EraserDies
  <2> QED BY <2>1 DEF CalmOK
<1> QED BY <1>1, <1>2, <1>3, <1>4, <1>5, <1>6, <1>7, <1>8, <1>9 DEF Erase

LEMMA CalmInvStep ==
  ASSUME ErasureTypeOK, BlobInv, PurgeInv, CalmInv, [Next]_erasureVars
  PROVE  CalmInv'
<1>1. ASSUME NEW e \in Erasers
      PROVE  CalmOK(e)'
  <2>1. PurgeOK(e) /\ CalmOK(e)
    BY DEF PurgeInv, CalmInv
  <2> QED BY <2>1, CalmOwnStep, CalmOthersStep
<1> QED BY <1>1 DEF CalmInv

\* A pass that has come to its end undisturbed has every step behind it.
LEMMA CalmEnds ==
  ASSUME ErasureTypeOK, PurgeInv, CalmInv
  PROVE  CalmPassErases
<1>1. ASSUME NEW e \in Erasers, Finished(e), calm[e]
      PROVE  held = {} /\ ~Served(Name) /\ Clean(e)
  <2>1. at[e] = 12
    BY <1>1, ManifestHas DEF Finished
  <2>2. CalmSteps(e)
    BY <1>1, <2>1, ManifestHas DEF CalmInv, CalmOK, Dead
  <2>3. Passed(e) = Steps
    BY <1>1, PassedAll
  <2>4. held = {}
    BY <2>1, <2>2, <2>3 DEF CalmSteps, Stores, ErasureTypeOK
  <2>5. purge[e] = "idle"
    BY <2>1, ManifestHas DEF PurgeInv, PurgeOK, AtStep
  <2>6. "hash" \in reached[e] /\ Optional \subseteq reached[e]
    BY <2>2, <2>3, StepsAre DEF CalmSteps, Optional
  <2>7. ~Served(Name)
    BY <2>2, <2>5, <2>6 DEF CalmSteps, Served
  <2>8. Clean(e)
    BY <2>2, <2>6 DEF CalmSteps, Clean
  <2> QED BY <2>4, <2>7, <2>8
<1> QED BY <1>1 DEF CalmPassErases

-----------------------------------------------------------------------------
ErasureInv ==
  /\ ErasureTypeOK
  /\ BlobInv
  /\ PurgeInv
  /\ StepsInv
  /\ CalmInv

LEMMA InitErasureInv == Init => ErasureInv
<1> SUFFICES ASSUME Init PROVE ErasureInv
  OBVIOUS
<1>1. ErasureTypeOK
  BY InitTyped
<1>2. BlobInv
  BY DEF Init, InitHashes, BlobInv, BlobStaysPurged
<1>3. PurgeInv
  BY ErasureAssumption DEF Init, InitHashes, PurgeInv, PurgeOK
<1>4. StepsInv
  BY ManifestHas DEF Init, StepsInv, StepsOK, Passed
<1>5. CalmInv
  BY DEF Init, CalmInv, CalmOK
<1> QED BY <1>1, <1>2, <1>3, <1>4, <1>5 DEF ErasureInv

LEMMA ErasureInvHolds == Spec => []ErasureInv
<1>1. ErasureInv /\ [Next]_erasureVars => ErasureInv'
  BY StepTyped, BlobStep, PurgeInvStep, StepsInvStep, CalmInvStep DEF ErasureInv
<1> QED BY <1>1, InitErasureInv, PTL DEF Spec

\* Every variable keeps to its type, and the content hash is nowhere without the sidecar
\* it is stored in.
THEOREM ErasureTyped == Spec => []ErasureTypeOK
<1>1. ErasureInv => ErasureTypeOK
  BY DEF ErasureInv
<1> QED BY <1>1, ErasureInvHolds, PTL

\* An erasure that has put the blob back without its name never finds the name there
\* again (_purge_legacy_hash_entry under its lock).
THEOREM PurgeIsFinal == Spec => []BlobStaysPurged
<1>1. ErasureInv => BlobStaysPurged
  BY DEF ErasureInv, BlobInv
<1> QED BY <1>1, ErasureInvHolds, PTL

\* The answer of delete_doc says that the erasure was complete only when it reached every
\* step of its manifest.
THEOREM GapsAreReported == Spec => []GapIsReported
<1>1. ErasureInv => GapIsReported
  BY StepsReported DEF ErasureInv
<1> QED BY <1>1, ErasureInvHolds, PTL

\* A pass of delete_doc that nothing interferes with leaves nothing of the document in
\* any store.
THEOREM CalmPassIsComplete == Spec => []CalmPassErases
<1>1. ErasureInv => CalmPassErases
  BY CalmEnds DEF ErasureInv
<1> QED BY <1>1, ErasureInvHolds, PTL
=============================================================================
