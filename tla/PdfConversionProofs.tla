-------------------------- MODULE PdfConversionProofs --------------------------
(* Theorems of the conversion of a PDF.  TableCapture, for any number of       *)
(* documents, of pages and of processes: the page ranges of a document are a   *)
(* partition of its pages, and what the join returns accounts for every one of *)
(* them.  ChunkedConversion, for any documents and machines: the chunks are a  *)
(* partition of the pages and each has the models its pages need; a call that  *)
(* returns gives every page once, and one that is over leaves nothing behind.  *)
(* TreeQuality, for any documents and thresholds: what a PASS stands on, and    *)
(* that a document which measures better is not judged worse.                  *)
EXTENDS TableCapture, ChunkedConversion, TreeQuality,
        FiniteSetTheorems, WellFoundedInduction, TLAPS

USE DEF docVars, vars, conversionVars, callVars, chunkVars, envVars

-----------------------------------------------------------------------------
(* Numbers.                                                                *)

\* A set of naturals that is not empty has a least one.
LEMMA LeastOf ==
  ASSUME NEW is \in SUBSET Nat, is # {}
  PROVE  \E i \in is : \A j \in is : i <= j
<1> DEFINE less == OpToRel(<, Nat)
<1>1. \A a, b \in Nat : <<a, b>> \in less <=> a < b
  BY DEF OpToRel
<1>2. IsWellFoundedOn(less, Nat)
  BY NatLessThanWellFounded
<1> HIDE DEF less
<1>3. \E i \in is : \A j \in is : <<j, i>> \notin less
  BY <1>2, WFMin
<1>4. PICK i \in is : \A j \in is : <<j, i>> \notin less
  BY <1>3
<1>5. \A j \in is : i \in Nat /\ j \in Nat /\ ~(j < i)
  BY <1>1, <1>4
<1>6. \A j \in is : i <= j
  BY <1>5
<1> QED BY <1>4, <1>6

LEMMA Quotient ==
  ASSUME NEW n \in Nat, NEW k \in Nat \ {0}
  PROVE  /\ n \div k \in Nat
         /\ (n % k) \in Nat
         /\ (n % k) < k
         /\ n = k * (n \div k) + (n % k)
<1>1. n \div k \in Nat
  OBVIOUS
<1>2. (n % k) \in Nat
  OBVIOUS
<1>3. (n % k) < k
  OBVIOUS
<1>4. n = k * (n \div k) + (n % k)
  OBVIOUS
<1> QED BY <1>1, <1>2, <1>3, <1>4

LEMMA CeilingIsPositive ==
  ASSUME NEW n \in Nat \ {0}, NEW k \in Nat \ {0}
  PROVE  Ceiling(n, k) \in Nat \ {0}
  BY DEF Ceiling

LEMMA TimesGrows ==
  ASSUME NEW b \in Nat, NEW i \in Nat, NEW j \in Nat, i <= j
  PROVE  i * b \in Nat /\ i * b <= j * b
  OBVIOUS

-----------------------------------------------------------------------------
(* The ranges of a document (split_ranges).                                *)

\* Where the range after the first i begins.
Start(n, k, i) == i * (n \div k) + Smaller(i, n % k)

LEMMA StartIsNat ==
  ASSUME NEW n \in Nat \ {0}, NEW k \in Nat \ {0}, NEW i \in Nat
  PROVE  Start(n, k, i) \in Nat
<1>1. n \div k \in Nat /\ (n % k) \in Nat
  BY Quotient
<1>2. i * (n \div k) \in Nat
  BY <1>1, TimesGrows
<1>3. Smaller(i, n % k) \in Nat
  BY <1>1 DEF Smaller
<1> QED BY <1>2, <1>3 DEF Start

LEMMA StartEnds ==
  ASSUME NEW n \in Nat \ {0}, NEW k \in Nat \ {0}
  PROVE  Start(n, k, 0) = 0 /\ Start(n, k, k) = n
<1>1. /\ n \div k \in Nat
      /\ (n % k) \in Nat
      /\ (n % k) < k
      /\ n = k * (n \div k) + (n % k)
  BY Quotient
<1>2. 0 * (n \div k) = 0
  BY <1>1
<1>3. Smaller(0, n % k) = 0 /\ Smaller(k, n % k) = n % k
  BY <1>1 DEF Smaller
<1> QED BY <1>1, <1>2, <1>3 DEF Start

LEMMA StartGrows ==
  ASSUME NEW n \in Nat \ {0}, NEW k \in Nat \ {0}, NEW i \in Nat, NEW j \in Nat, i <= j
  PROVE  Start(n, k, i) <= Start(n, k, j)
<1>1. n \div k \in Nat /\ (n % k) \in Nat
  BY Quotient
<1>2. /\ i * (n \div k) \in Nat /\ j * (n \div k) \in Nat
      /\ i * (n \div k) <= j * (n \div k)
  BY <1>1, TimesGrows
<1>3. /\ Smaller(i, n % k) \in Nat /\ Smaller(j, n % k) \in Nat
      /\ Smaller(i, n % k) <= Smaller(j, n % k)
  BY <1>1 DEF Smaller
<1> QED BY <1>2, <1>3 DEF Start

LEMMA RangesAre ==
  ASSUME NEW n \in Nat \ {0}, NEW k \in Nat \ {0}
  PROVE  Ranges(n, k) = [g \in 1 .. k |-> Start(n, k, g - 1) .. Start(n, k, g) - 1]
  BY DEF Ranges, Start

\* The ranges have every page, and none of them twice.
LEMMA RangesPartition ==
  ASSUME NEW n \in Nat \ {0}, NEW k \in Nat \ {0}
  PROVE  /\ \A g \in 1 .. k : Ranges(n, k)[g] \subseteq 0 .. n - 1
         /\ \A p \in 0 .. n - 1 : \E g \in 1 .. k : p \in Ranges(n, k)[g]
         /\ \A g, h \in 1 .. k : g # h => Ranges(n, k)[g] \cap Ranges(n, k)[h] = {}
<1> DEFINE S(i) == Start(n, k, i)
<1>1. \A g \in 1 .. k : Ranges(n, k)[g] = S(g - 1) .. S(g) - 1
  BY RangesAre
<1>2. \A i \in Nat : S(i) \in Nat
  BY StartIsNat
<1>3. \A i, j \in Nat : i <= j => S(i) <= S(j)
  BY StartGrows
<1>4. S(0) = 0 /\ S(k) = n
  BY StartEnds
<1> HIDE DEF S
<1>5. ASSUME NEW g \in 1 .. k
      PROVE  Ranges(n, k)[g] \subseteq 0 .. n - 1
  <2>1. g \in Nat /\ g - 1 \in Nat /\ g <= k
    OBVIOUS
  <2>2. S(g) <= n /\ S(g) \in Nat /\ S(g - 1) \in Nat
    BY <1>2, <1>3, <1>4, <2>1
  <2> QED BY <1>1, <2>2
<1>6. ASSUME NEW p \in 0 .. n - 1
      PROVE  \E g \in 1 .. k : p \in Ranges(n, k)[g]
  <2> DEFINE is == {i \in 0 .. k : p < S(i)}
  <2>1. k \in is /\ is \subseteq Nat
    BY <1>4
  <2>2. PICK g \in is : \A j \in is : g <= j
    <3>1. is \in SUBSET Nat /\ is # {}
      BY <2>1
    <3> HIDE DEF is
    <3> QED BY <3>1, LeastOf
  <2>3. g # 0
    BY <1>4, <2>2
  <2>4. g \in 1 .. k /\ g - 1 \in 0 .. k /\ g - 1 \notin is
    BY <2>2, <2>3
  <2>5. S(g - 1) \in Nat /\ S(g) \in Nat
    BY <1>2, <2>4
  <2>6. p < S(g) /\ ~(p < S(g - 1))
    BY <2>2, <2>4
  <2>7. p \in S(g - 1) .. S(g) - 1
    BY <2>5, <2>6
  <2> QED BY <1>1, <2>4, <2>7
<1>7. ASSUME NEW g \in 1 .. k, NEW h \in 1 .. k, g < h
      PROVE  Ranges(n, k)[g] \cap Ranges(n, k)[h] = {}
  <2>1. g \in Nat /\ h - 1 \in Nat /\ g <= h - 1
    BY <1>7
  <2>2. S(g) <= S(h - 1) /\ S(g) \in Nat /\ S(h - 1) \in Nat
    BY <1>2, <1>3, <2>1
  <2>3. ASSUME NEW p \in Ranges(n, k)[g], p \in Ranges(n, k)[h] PROVE FALSE
    <3>1. p \in S(g - 1) .. S(g) - 1 /\ p \in S(h - 1) .. S(h) - 1
      BY <1>1, <2>3
    <3>2. p \in Int /\ p <= S(g) - 1 /\ S(h - 1) <= p
      BY <3>1
    <3> QED BY <2>2, <3>2
  <2> QED BY <2>3
<1>8. \A g, h \in 1 .. k : g # h => Ranges(n, k)[g] \cap Ranges(n, k)[h] = {}
  <2> SUFFICES ASSUME NEW g \in 1 .. k, NEW h \in 1 .. k, g # h
               PROVE  Ranges(n, k)[g] \cap Ranges(n, k)[h] = {}
    OBVIOUS
  <2>1. g < h \/ h < g
    OBVIOUS
  <2>2. CASE g < h
    BY <1>7, <2>2
  <2>3. CASE h < g
    BY <1>7, <2>3
  <2> QED BY <2>1, <2>2, <2>3
<1> QED BY <1>5, <1>6, <1>8

-----------------------------------------------------------------------------
(* The runs of failed pages.                                               *)

\* A failed page is in exactly one of the runs, another page in none.
LEMMA OneRun ==
  ASSUME NEW pages \in SUBSET Nat, NEW n \in Nat, pages \subseteq 0 .. n, NEW p \in Nat
  PROVE  /\ p \notin pages => {run \in FailedRuns(pages) : p \in run[1] .. run[2]} = {}
         /\ p \in pages =>
              \E run : {x \in FailedRuns(pages) : p \in x[1] .. x[2]} = {run}
<1>r. \A run : run \in FailedRuns(pages) <=>
               /\ run \in pages \X pages
               /\ run[1] <= run[2] /\ run[1] .. run[2] \subseteq pages
               /\ run[1] - 1 \notin pages /\ run[2] + 1 \notin pages
  BY DEF FailedRuns
<1>1. CASE p \notin pages
  BY <1>1, <1>r
<1>2. CASE p \in pages
  <2> DEFINE froms == {i \in 0 .. p : i .. p \subseteq pages}
             gaps == {j \in 0 .. n : p <= n - j /\ p .. n - j \subseteq pages}
  <2>1. PICK lo \in froms : \A i \in froms : lo <= i
    <3>1. p \in froms /\ froms \in SUBSET Nat
      BY <1>2
    <3> HIDE DEF froms
    <3> QED BY <3>1, LeastOf
  <2>2. PICK gap \in gaps : \A j \in gaps : gap <= j
    <3>1. n - p \in gaps /\ gaps \in SUBSET Nat
      BY <1>2
    <3> HIDE DEF gaps
    <3> QED BY <3>1, LeastOf
  <2> DEFINE hi == n - gap
  <2>3. lo \in Nat /\ hi \in Nat /\ lo <= p /\ p <= hi /\ hi <= n
    BY <2>1, <2>2
  <2>4. lo .. p \subseteq pages /\ p .. hi \subseteq pages
    BY <2>1, <2>2
  <2>5. lo .. hi \subseteq pages /\ lo \in pages /\ hi \in pages
    <3>1. \A x \in lo .. hi : x \in lo .. p \/ x \in p .. hi
      BY <2>3
    <3> QED BY <2>3, <2>4, <3>1
  <2>6. lo - 1 \notin pages
    <3>1. SUFFICES ASSUME lo - 1 \in pages PROVE FALSE
      OBVIOUS
    <3>2. \A x \in lo - 1 .. p : x = lo - 1 \/ x \in lo .. p
      BY <2>3
    <3>3. lo - 1 \in froms
      BY <2>3, <2>4, <3>1, <3>2
    <3> QED BY <2>1, <2>3, <3>3
  <2>7. hi + 1 \notin pages
    <3>1. SUFFICES ASSUME hi + 1 \in pages PROVE FALSE
      OBVIOUS
    <3>2. hi + 1 <= n /\ gap \in Nat /\ hi + 1 = n - (gap - 1)
      BY <2>2, <2>3, <3>1
    <3>3. \A x \in p .. hi + 1 : x = hi + 1 \/ x \in p .. hi
      BY <2>3
    <3>4. gap - 1 \in gaps
      BY <2>3, <2>4, <3>1, <3>2, <3>3
    <3> QED BY <2>2, <3>2, <3>4
  <2> HIDE DEF hi, froms, gaps
  <2>8. <<lo, hi>> \in FailedRuns(pages)
    BY <1>r, <2>3, <2>5, <2>6, <2>7
  <2>9. ASSUME NEW run \in FailedRuns(pages), p \in run[1] .. run[2]
        PROVE  run = <<lo, hi>>
    <3>1. /\ run = <<run[1], run[2]>> /\ run[1] \in Nat /\ run[2] \in Nat
          /\ run[1] .. run[2] \subseteq pages
          /\ run[1] - 1 \notin pages /\ run[2] + 1 \notin pages
          /\ run[1] <= p /\ p <= run[2]
      BY <1>r, <2>9
    <3>2. run[1] = lo
      <4>1. CASE run[1] < lo
        <5>1. lo - 1 \in run[1] .. run[2]
          BY <2>3, <3>1, <4>1
        <5> QED BY <2>6, <3>1, <5>1
      <4>2. CASE lo < run[1]
        <5>1. run[1] - 1 \in lo .. hi
          BY <2>3, <3>1, <4>2
        <5> QED BY <2>5, <3>1, <5>1
      <4> QED BY <2>3, <3>1, <4>1, <4>2
    <3>3. run[2] = hi
      <4>1. CASE run[2] < hi
        <5>1. run[2] + 1 \in lo .. hi
          BY <2>3, <3>1, <4>1
        <5> QED BY <2>5, <3>1, <5>1
      <4>2. CASE hi < run[2]
        <5>1. hi + 1 \in run[1] .. run[2]
          BY <2>3, <3>1, <4>2
        <5> QED BY <2>7, <3>1, <5>1
      <4> QED BY <2>3, <3>1, <4>1, <4>2
    <3> QED BY <3>1, <3>2, <3>3
  <2>10. p \in <<lo, hi>>[1] .. <<lo, hi>>[2]
    BY <2>3
  <2>11. {x \in FailedRuns(pages) : p \in x[1] .. x[2]} = {<<lo, hi>>}
    BY <2>8, <2>9, <2>10
  <2> QED BY <1>2, <2>11
<1> QED BY <1>1, <1>2

-----------------------------------------------------------------------------
(* What a result accounts for.                                             *)

LEMMA RangesOfPartition ==
  ASSUME NEW d \in Docs
  PROVE  /\ PageCount[d] \in Nat \ {0}
         /\ DOMAIN RangesOf(d) \subseteq Nat
         /\ \A g \in DOMAIN RangesOf(d) : RangesOf(d)[g] \subseteq PagesOf(d)
         /\ \A p \in PagesOf(d) : \E g \in DOMAIN RangesOf(d) : p \in RangesOf(d)[g]
         /\ \A g, h \in DOMAIN RangesOf(d) :
              g # h => RangesOf(d)[g] \cap RangesOf(d)[h] = {}
<1> DEFINE k == Ceiling(PageCount[d], RangePages)
<1>1. PageCount[d] \in Nat \ {0}
  BY CaptureAssumption
<1>2. k \in Nat \ {0}
  BY <1>1, CaptureAssumption, CeilingIsPositive
<1>3. RangesOf(d) = Ranges(PageCount[d], k)
  BY DEF RangesOf
<1> HIDE DEF k
<1>4. DOMAIN RangesOf(d) = 1 .. k
  BY <1>1, <1>2, <1>3, RangesAre
<1>5. /\ \A g \in 1 .. k : Ranges(PageCount[d], k)[g] \subseteq 0 .. PageCount[d] - 1
      /\ \A p \in 0 .. PageCount[d] - 1 : \E g \in 1 .. k : p \in Ranges(PageCount[d], k)[g]
      /\ \A g, h \in 1 .. k :
           g # h => Ranges(PageCount[d], k)[g] \cap Ranges(PageCount[d], k)[h] = {}
  BY <1>1, <1>2, RangesPartition
<1>6. PagesOf(d) = 0 .. PageCount[d] - 1
  BY DEF PagesOf
<1>7. 1 .. k \subseteq Nat
  BY <1>2
<1> QED BY <1>1, <1>3, <1>4, <1>5, <1>6, <1>7

Results == [scanned : SUBSET Nat, failed : [Reasons -> SUBSET Nat]]

\* Every page was scanned or failed for one reason.
Accounted(d, r) ==
  /\ r.scanned \subseteq PagesOf(d)
  /\ \A reason \in Reasons :
       r.failed[reason] \subseteq PagesOf(d) /\ r.failed[reason] \cap r.scanned = {}
  /\ \A one, two \in Reasons : one # two => r.failed[one] \cap r.failed[two] = {}
  /\ \A p \in PagesOf(d) : p \in r.scanned \/ \E reason \in Reasons : p \in r.failed[reason]

LEMMA PagesAreNat ==
  ASSUME NEW d \in Docs PROVE PagesOf(d) \in SUBSET Nat
  BY CaptureAssumption DEF PagesOf

LEMMA AllFailedAccounted ==
  ASSUME NEW d \in Docs, NEW reason \in Reasons
  PROVE  AllFailed(d, reason) \in Results /\ Accounted(d, AllFailed(d, reason))
<1>1. AllFailed(d, reason) =
        [scanned |-> {}, failed |-> [x \in Reasons |-> IF x = reason THEN PagesOf(d) ELSE {}]]
  <2>1. AllFailed(d, reason) =
          [NoResult EXCEPT !.failed = [NoResult.failed EXCEPT ![reason] = PagesOf(d)]]
    BY DEF AllFailed, NoResult
  <2>2. NoResult.failed = [x \in Reasons |-> {}]
    BY DEF NoResult
  <2>3. [NoResult.failed EXCEPT ![reason] = PagesOf(d)]
          = [x \in Reasons |-> IF x = reason THEN PagesOf(d) ELSE {}]
    BY <2>2
  <2>4. \A f : [NoResult EXCEPT !.failed = f] = [scanned |-> {}, failed |-> f]
    BY DEF NoResult
  <2> QED BY <2>1, <2>3, <2>4
<1> QED BY <1>1, PagesAreNat DEF Results, Accounted

\* The runs the property counts, of a result that accounts for every page.
LEMMA AccountedOnce ==
  ASSUME NEW d \in Docs, Accounted(d, got[d]), NEW p \in PagesOf(d)
  PROVE  Cardinality(RunsOver(d, p)) = IF p \in got[d].scanned THEN 0 ELSE 1
<1> DEFINE over_(reason) == {run \in FailedRuns(got[d].failed[reason]) : p \in run[1] .. run[2]}
<1>n. PageCount[d] - 1 \in Nat /\ PagesOf(d) = 0 .. PageCount[d] - 1 /\ p \in Nat
  BY CaptureAssumption DEF PagesOf
<1>1. ASSUME NEW reason \in Reasons
      PROVE  /\ p \notin got[d].failed[reason] => over_(reason) = {}
             /\ p \in got[d].failed[reason] => \E run : over_(reason) = {run}
  <2>1. got[d].failed[reason] \in SUBSET Nat /\ got[d].failed[reason] \subseteq 0 .. PageCount[d] - 1
    BY <1>n, PagesAreNat DEF Accounted
  <2> QED BY <1>n, <2>1, OneRun
<1>2. RunsOver(d, p) = UNION {{reason} \X over_(reason) : reason \in Reasons}
  BY DEF RunsOver
<1> HIDE DEF over_
<1>3. CASE p \in got[d].scanned
  <2>1. \A reason \in Reasons : over_(reason) = {}
    BY <1>1, <1>3 DEF Accounted
  <2>2. RunsOver(d, p) = {}
    BY <1>2, <2>1
  <2> QED BY <1>3, <2>2, FS_EmptySet
<1>4. CASE p \notin got[d].scanned
  <2>1. PICK why \in Reasons : p \in got[d].failed[why]
    BY <1>4 DEF Accounted
  <2>2. \A reason \in Reasons : reason # why => over_(reason) = {}
    BY <1>1, <2>1 DEF Accounted
  <2>3. PICK run : over_(why) = {run}
    BY <1>1, <2>1
  <2>4. RunsOver(d, p) = {<<why, run>>}
    <3>1. ASSUME NEW x \in RunsOver(d, p) PROVE x = <<why, run>>
      <4>1. PICK reason \in Reasons : x \in {reason} \X over_(reason)
        BY <1>2
      <4>2. reason = why
        BY <2>2, <4>1
      <4> QED BY <2>3, <4>1, <4>2
    <3>2. <<why, run>> \in {why} \X over_(why)
      BY <2>3
    <3> QED BY <1>2, <3>1, <3>2
  <2> QED BY <1>4, <2>4, FS_Singleton
<1> QED BY <1>3, <1>4

-----------------------------------------------------------------------------
(* The processes of a capture.                                             *)

\* What a process has sent is of its range; one that is through has sent all of it, and
\* one that is waiting nothing.
ProcessOK(w, pages) ==
  /\ w.sent \subseteq pages
  /\ w.state = "queued" => w.sent = {}
  /\ w.finished => w.sent = pages

Workers ==
  [state : {"queued", "alive", "dead", "ended", "killed"}, sent : SUBSET Nat, bad : SUBSET Nat,
   finished : BOOLEAN, reason : Reasons \cup {"none"}]

ProcessInv ==
  /\ DOMAIN worker = Docs
  /\ \A d \in Docs :
       /\ DOMAIN worker[d] = DOMAIN RangesOf(d)
       /\ \A g \in DOMAIN RangesOf(d) :
            worker[d][g] \in Workers /\ ProcessOK(worker[d][g], RangesOf(d)[g])

CaptureTypes ==
  /\ sup \in [Docs -> {"slots", "pool", "done"}]
  /\ doc \in [Docs -> {"converting", "building", "dropping", "kept", "dropped"}]
  /\ join \in [Docs -> {"none", "waiting", "stopping", "closing", "back", "over"}]
  /\ result \in [Docs -> Results]
  /\ got \in [Docs -> Results]

\* A capture that is over has left a result that accounts for every page, until the join
\* takes it; so has the join that is back.
JoinInv ==
  \A d \in Docs :
    /\ sup[d] = "done" /\ join[d] \in {"none", "waiting", "stopping", "closing"}
         => Accounted(d, result[d])
    /\ join[d] = "back" => Accounted(d, got[d])
    /\ doc[d] = "converting" => join[d] = "none"

\* The result the pool ends with accounts for every page.
LEMMA CollectAccounted ==
  ASSUME ProcessInv, NEW d \in Docs
  PROVE  LET r == [scanned |-> UNION {worker[d][g].sent : g \in DOMAIN worker[d]},
                   failed |-> [reason \in Reasons |-> Lost(d, reason)]]
         IN  r \in Results /\ Accounted(d, r)
<1> DEFINE groups == DOMAIN RangesOf(d)
           scanned == UNION {worker[d][g].sent : g \in DOMAIN worker[d]}
<1>p. /\ \A g \in groups : RangesOf(d)[g] \subseteq PagesOf(d)
      /\ \A p \in PagesOf(d) : \E g \in groups : p \in RangesOf(d)[g]
      /\ \A g, h \in groups : g # h => RangesOf(d)[g] \cap RangesOf(d)[h] = {}
  BY RangesOfPartition
<1>w. /\ DOMAIN worker[d] = groups
      /\ \A g \in groups : worker[d][g] \in Workers /\ ProcessOK(worker[d][g], RangesOf(d)[g])
  BY DEF ProcessInv
\* The range of each process: what is lost of it, and for which reason.
<1> DEFINE why(g) == IF worker[d][g].state = "queued" THEN "deadline" ELSE Blame(d, g)
           gone(g) == IF worker[d][g].state = "queued" THEN RangesOf(d)[g]
                      ELSE IF Finished(d, g) THEN {} ELSE RangesOf(d)[g] \ worker[d][g].sent
<1>1. ASSUME NEW reason \in Reasons, NEW p
      PROVE  p \in Lost(d, reason) <=> \E g \in groups : why(g) = reason /\ p \in gone(g)
  <2>1. Queued(d) = {g \in groups : worker[d][g].state = "queued"}
    BY <1>w DEF Queued
  <2>2. p \in Lost(d, reason) <=>
          \/ reason = "deadline" /\ \E g \in Queued(d) : p \in RangesOf(d)[g]
          \/ \E g \in groups \ Queued(d) :
               ~Finished(d, g) /\ Blame(d, g) = reason /\ p \in RangesOf(d)[g] \ worker[d][g].sent
    <3> DEFINE never == UNION {RangesOf(d)[g] : g \in IF reason = "deadline" THEN Queued(d) ELSE {}}
               stopped == {g \in groups \ Queued(d) : ~Finished(d, g) /\ Blame(d, g) = reason}
    <3>1. Lost(d, reason) = never \cup (UNION {RangesOf(d)[g] \ worker[d][g].sent : g \in stopped})
      BY <1>w DEF Lost
    <3>2. p \in never <=> reason = "deadline" /\ \E g \in Queued(d) : p \in RangesOf(d)[g]
      OBVIOUS
    <3>3. p \in UNION {RangesOf(d)[g] \ worker[d][g].sent : g \in stopped} <=>
            \E g \in stopped : p \in RangesOf(d)[g] \ worker[d][g].sent
      OBVIOUS
    <3> HIDE DEF never
    <3> QED BY <3>1, <3>2, <3>3
  <2>3. \A g \in groups : g \in Queued(d) <=> worker[d][g].state = "queued"
    BY <2>1
  <2> HIDE DEF groups
  <2>4. \A g \in Queued(d) : g \in groups
    BY <2>1
  <2> QED BY <2>2, <2>3, <2>4
<1>2. ASSUME NEW g \in groups
      PROVE  /\ why(g) \in Reasons \/ gone(g) = {}
             /\ gone(g) \subseteq RangesOf(d)[g] \ worker[d][g].sent
             /\ RangesOf(d)[g] \subseteq gone(g) \cup worker[d][g].sent
  <2>1. worker[d][g] \in Workers /\ ProcessOK(worker[d][g], RangesOf(d)[g])
    BY <1>w
  <2>2. CASE worker[d][g].state = "queued"
    BY <2>1, <2>2 DEF ProcessOK, Reasons
  <2>3. CASE worker[d][g].state # "queued"
    <3>1. Whole(d, g) => worker[d][g].sent = RangesOf(d)[g]
      BY <2>1 DEF Whole, Left, ProcessOK
    <3>2. Finished(d, g) => worker[d][g].sent = RangesOf(d)[g]
      BY <2>1, <3>1 DEF Finished, ProcessOK
    <3>3. ~Finished(d, g) => Blame(d, g) \in Reasons
      BY <1>w, <2>1, <2>3 DEF Finished, Blame, Running, Workers, Reasons
    <3> QED BY <2>3, <3>2, <3>3
  <2> QED BY <2>2, <2>3
<1>3. \A p : p \in scanned <=> \E g \in groups : p \in worker[d][g].sent
  BY <1>w
<1>4. \A g \in groups : worker[d][g].sent \subseteq RangesOf(d)[g]
  BY <1>w DEF ProcessOK
<1>5. scanned \subseteq PagesOf(d)
  BY <1>p, <1>3, <1>4
<1> HIDE DEF scanned, why, gone, groups
<1>6. ASSUME NEW reason \in Reasons
      PROVE  Lost(d, reason) \subseteq PagesOf(d) /\ Lost(d, reason) \cap scanned = {}
  <2>1. ASSUME NEW p \in Lost(d, reason) PROVE p \in PagesOf(d) /\ p \notin scanned
    <3>1. PICK g \in groups : p \in gone(g)
      BY <1>1, <2>1
    <3>2. p \in RangesOf(d)[g] /\ p \notin worker[d][g].sent
      BY <1>2, <3>1
    <3>3. \A h \in groups : p \in worker[d][h].sent => h = g
      BY <1>p, <1>4, <3>2
    <3> QED BY <1>p, <1>3, <3>2, <3>3
  <2> QED BY <2>1
<1>7. ASSUME NEW one \in Reasons, NEW two \in Reasons, one # two
      PROVE  Lost(d, one) \cap Lost(d, two) = {}
  <2>1. ASSUME NEW p \in Lost(d, one), p \in Lost(d, two) PROVE FALSE
    <3>1. PICK g \in groups : why(g) = one /\ p \in gone(g)
      BY <1>1
    <3>2. PICK h \in groups : why(h) = two /\ p \in gone(h)
      BY <1>1, <2>1
    <3>3. g = h
      BY <1>2, <1>p, <3>1, <3>2
    <3> QED BY <1>7, <3>1, <3>2, <3>3
  <2> QED BY <2>1
<1>8. ASSUME NEW p \in PagesOf(d)
      PROVE  p \in scanned \/ \E reason \in Reasons : p \in Lost(d, reason)
  <2>1. PICK g \in groups : p \in RangesOf(d)[g]
    BY <1>p
  <2>2. p \in gone(g) \/ p \in worker[d][g].sent
    BY <1>2, <2>1
  <2>3. CASE p \in worker[d][g].sent
    BY <1>3, <2>3
  <2>4. CASE p \in gone(g)
    <3>1. why(g) \in Reasons
      BY <1>2, <2>4
    <3> QED BY <1>1, <2>4, <3>1
  <2> QED BY <2>2, <2>3, <2>4
<1> DEFINE r == [scanned |-> scanned, failed |-> [reason \in Reasons |-> Lost(d, reason)]]
<1>9. r.scanned = scanned /\ \A reason \in Reasons : r.failed[reason] = Lost(d, reason)
  OBVIOUS
<1>10. r \in Results
  BY <1>5, <1>6, PagesAreNat DEF Results
<1>11. Accounted(d, r)
  <2> HIDE DEF r
  <2> QED BY <1>5, <1>6, <1>7, <1>8, <1>9 DEF Accounted
<1> QED BY <1>10, <1>11 DEF scanned

\* One process changes; the others, and the ranges, stay.
LEMMA OneProcessChanges ==
  ASSUME ProcessInv, NEW d \in Docs, NEW g, NEW w \in Workers, SetWorker(d, g, w),
         g \in DOMAIN RangesOf(d) => ProcessOK(w, RangesOf(d)[g])
  PROVE  ProcessInv'
<1>1. worker' = [worker EXCEPT ![d] = [worker[d] EXCEPT ![g] = w]] /\ DOMAIN worker = Docs
  BY DEF SetWorker, ProcessInv
<1>2. DOMAIN worker' = Docs
  BY <1>1
<1>3. ASSUME NEW e \in Docs
      PROVE  /\ DOMAIN worker'[e] = DOMAIN RangesOf(e)
             /\ \A h \in DOMAIN RangesOf(e) :
                  worker'[e][h] \in Workers /\ ProcessOK(worker'[e][h], RangesOf(e)[h])
  <2>1. /\ DOMAIN worker[e] = DOMAIN RangesOf(e)
        /\ \A h \in DOMAIN RangesOf(e) :
             worker[e][h] \in Workers /\ ProcessOK(worker[e][h], RangesOf(e)[h])
    BY DEF ProcessInv
  <2>2. CASE e # d
    BY <1>1, <2>1, <2>2
  <2>3. CASE e = d
    <3>1. worker'[e] = [worker[e] EXCEPT ![g] = w]
      BY <1>1, <2>3
    <3>2. \A h \in DOMAIN RangesOf(e) : worker'[e][h] = IF h = g THEN w ELSE worker[e][h]
      BY <2>1, <3>1
    <3> QED BY <2>1, <2>3, <3>1, <3>2
  <2> QED BY <2>2, <2>3
<1> QED BY <1>2, <1>3 DEF ProcessInv

\* The page a process scans next is one it has not scanned.
LEMMA NextPageIsLeft ==
  ASSUME NEW d \in Docs, NEW pages \in SUBSET Nat, pages # {}
  PROVE  NextPage(d, pages) \in pages
<1> DEFINE first == IF pages \cap Positive[d] # {} THEN pages \cap Positive[d] ELSE pages
<1>1. first \in SUBSET Nat /\ first # {} /\ first \subseteq pages
  OBVIOUS
<1>2. NextPage(d, pages) = CHOOSE p \in first : \A q \in first : p <= q
  BY DEF NextPage
<1> HIDE DEF first
<1>3. \E p \in first : \A q \in first : p <= q
  BY <1>1, LeastOf
<1> QED BY <1>1, <1>2, <1>3

-----------------------------------------------------------------------------
(* The invariant.                                                          *)

CaptureInv == CaptureTypes /\ ProcessInv /\ JoinInv

LEMMA FreshIsWaiting ==
  ASSUME NEW pages
  PROVE  Fresh \in Workers /\ ProcessOK(Fresh, pages)
  BY DEF Fresh, Workers, ProcessOK, Reasons

LEMMA CaptureInit == Init => CaptureInv
<1> SUFFICES ASSUME Init PROVE CaptureInv
  OBVIOUS
<1>1. NoResult \in Results
  BY DEF NoResult, Results
<1>2. CaptureTypes
  BY <1>1 DEF Init, CaptureTypes
<1>3. ProcessInv
  BY FreshIsWaiting DEF Init, ProcessInv
<1>4. JoinInv
  BY DEF Init, JoinInv
<1> QED BY <1>2, <1>3, <1>4 DEF CaptureInv

\* A step that leaves the results, the joins and the threads alone.
LEMMA ProcessSteps ==
  ASSUME CaptureInv, ProcessInv', UNCHANGED <<sup, result, doc, join, got>>
  PROVE  CaptureInv'
<1>1. CaptureTypes'
  BY DEF CaptureInv, CaptureTypes
<1>2. JoinInv'
  BY DEF CaptureInv, JoinInv, Accounted
<1> QED BY <1>1, <1>2 DEF CaptureInv

\* A capture that ends leaves a result that accounts for every page.
LEMMA CaptureEnds ==
  ASSUME CaptureInv, NEW d \in Docs, NEW r \in Results, Accounted(d, r),
         SupervisorEnds(d), result' = [result EXCEPT ![d] = r], UNCHANGED <<doc, join, got>>
  PROVE  CaptureInv'
<1>t. CaptureTypes /\ ProcessInv /\ JoinInv
  BY DEF CaptureInv
<1>1. CaptureTypes'
  <2>1. sup' \in [Docs -> {"slots", "pool", "done"}]
    BY <1>t DEF CaptureTypes, SupervisorEnds
  <2>2. result' \in [Docs -> Results]
    BY <1>t DEF CaptureTypes
  <2> QED BY <1>t, <2>1, <2>2 DEF CaptureTypes
<1>2. ProcessInv'
  <2>1. /\ worker' = [worker EXCEPT ![d] = [g \in DOMAIN worker[d] |-> Fresh]]
        /\ DOMAIN worker = Docs /\ DOMAIN worker' = Docs
    BY <1>t DEF SupervisorEnds, ProcessInv
  <2>2. ASSUME NEW e \in Docs
        PROVE  /\ DOMAIN worker'[e] = DOMAIN RangesOf(e)
               /\ \A h \in DOMAIN RangesOf(e) :
                    worker'[e][h] \in Workers /\ ProcessOK(worker'[e][h], RangesOf(e)[h])
    <3>1. /\ DOMAIN worker[e] = DOMAIN RangesOf(e)
          /\ \A h \in DOMAIN RangesOf(e) :
               worker[e][h] \in Workers /\ ProcessOK(worker[e][h], RangesOf(e)[h])
      BY <1>t DEF ProcessInv
    <3>2. CASE e # d
      BY <2>1, <3>1, <3>2
    <3>3. CASE e = d
      <4>1. worker'[e] = [g \in DOMAIN worker[e] |-> Fresh]
        BY <2>1, <3>3
      <4> QED BY <3>1, <4>1, FreshIsWaiting
    <3> QED BY <3>2, <3>3
  <2> QED BY <2>1, <2>2 DEF ProcessInv
<1>3. JoinInv'
  <2> SUFFICES ASSUME NEW e \in Docs
               PROVE  /\ sup'[e] = "done" /\ join'[e] \in {"none", "waiting", "stopping", "closing"}
                           => Accounted(e, result'[e])
                      /\ join'[e] = "back" => Accounted(e, got'[e])
                      /\ doc'[e] = "converting" => join'[e] = "none"
    BY DEF JoinInv, Accounted
  <2>1. CASE e # d
    <3>1. sup'[e] = sup[e] /\ result'[e] = result[e]
      BY <1>t, <2>1 DEF CaptureTypes, SupervisorEnds
    <3> QED BY <1>t, <3>1 DEF JoinInv
  <2>2. CASE e = d
    <3>1. result'[e] = r
      BY <1>t, <2>2 DEF CaptureTypes
    <3> QED BY <1>t, <2>2, <3>1 DEF JoinInv
  <2> QED BY <2>1, <2>2
<1> QED BY <1>1, <1>2, <1>3 DEF CaptureInv

\* The join of one document, or the document, moves: to s and j, with the results r and g.
Move(d, s, j, r, g) ==
  /\ s \in {"converting", "building", "dropping", "kept", "dropped"}
  /\ j \in {"none", "waiting", "stopping", "closing", "back", "over"}
  /\ r \in Results /\ g \in Results
  /\ doc' = [doc EXCEPT ![d] = s] /\ join' = [join EXCEPT ![d] = j]
  /\ result' = [result EXCEPT ![d] = r] /\ got' = [got EXCEPT ![d] = g]
  /\ sup[d] = "done" /\ j \in {"none", "waiting", "stopping", "closing"} => Accounted(d, r)
  /\ j = "back" => Accounted(d, g)
  /\ s = "converting" => j = "none"

LEMMA DocumentMoves ==
  ASSUME CaptureInv, NEW d \in Docs, UNCHANGED <<sup, worker>>,
         NEW s, NEW j, NEW r, NEW g, Move(d, s, j, r, g)
  PROVE  CaptureInv'
<1>t. CaptureTypes /\ ProcessInv /\ JoinInv
  BY DEF CaptureInv
<1>1. CaptureTypes'
  <2>1. doc' \in [Docs -> {"converting", "building", "dropping", "kept", "dropped"}]
    BY <1>t DEF CaptureTypes, Move
  <2>2. join' \in [Docs -> {"none", "waiting", "stopping", "closing", "back", "over"}]
    BY <1>t DEF CaptureTypes, Move
  <2>3. result' \in [Docs -> Results] /\ got' \in [Docs -> Results]
    BY <1>t DEF CaptureTypes, Move
  <2> QED BY <1>t, <2>1, <2>2, <2>3 DEF CaptureTypes
<1>2. ProcessInv'
  BY <1>t DEF ProcessInv
<1>3. JoinInv'
  <2> SUFFICES ASSUME NEW e \in Docs
               PROVE  /\ sup'[e] = "done" /\ join'[e] \in {"none", "waiting", "stopping", "closing"}
                           => Accounted(e, result'[e])
                      /\ join'[e] = "back" => Accounted(e, got'[e])
                      /\ doc'[e] = "converting" => join'[e] = "none"
    BY DEF JoinInv, Accounted
  <2>1. CASE e # d
    <3>1. doc'[e] = doc[e] /\ join'[e] = join[e] /\ result'[e] = result[e] /\ got'[e] = got[e]
      BY <1>t, <2>1 DEF CaptureTypes, Move
    <3> QED BY <1>t, <3>1 DEF JoinInv
  <2>2. CASE e = d
    <3>1. doc'[e] = s /\ join'[e] = j /\ result'[e] = r /\ got'[e] = g
      BY <1>t, <2>2 DEF CaptureTypes, Move
    <3> QED BY <2>2, <3>1 DEF Move
  <2> QED BY <2>1, <2>2
<1> QED BY <1>1, <1>2, <1>3 DEF CaptureInv

-----------------------------------------------------------------------------
(* The actions.                                                            *)

LEMMA ScanPageKeeps ==
  ASSUME CaptureInv, NEW d \in Docs, NEW g \in DOMAIN worker[d], ScanPage(d, g)
  PROVE  CaptureInv'
<1> DEFINE w == worker[d][g]
           p == NextPage(d, Left(d, g))
<1>1. g \in DOMAIN RangesOf(d) /\ w \in Workers /\ ProcessOK(w, RangesOf(d)[g])
  BY DEF CaptureInv, ProcessInv
<1>2. /\ w.state = "alive" /\ Left(d, g) # {}
      /\ \/ SetWorker(d, g, [w EXCEPT !.sent = @ \cup {p}])
         \/ SetWorker(d, g, [w EXCEPT !.bad = @ \cup {p}])
      /\ UNCHANGED <<sup, result, doc, join, got>>
  BY DEF ScanPage
<1>3. RangesOf(d)[g] \in SUBSET Nat /\ Left(d, g) \subseteq RangesOf(d)[g] \ w.sent
  BY <1>1, RangesOfPartition, PagesAreNat DEF Left
<1>4. p \in RangesOf(d)[g] /\ p \notin w.sent /\ p \in Nat
  <2>1. Left(d, g) \in SUBSET Nat
    BY <1>3
  <2> QED BY <1>2, <1>3, <2>1, NextPageIsLeft
<1> HIDE DEF p, w
<1>5. /\ [w EXCEPT !.sent = @ \cup {p}] \in Workers
      /\ ProcessOK([w EXCEPT !.sent = @ \cup {p}], RangesOf(d)[g])
  BY <1>1, <1>2, <1>4 DEF Workers, ProcessOK
<1>6. /\ [w EXCEPT !.bad = @ \cup {p}] \in Workers
      /\ ProcessOK([w EXCEPT !.bad = @ \cup {p}], RangesOf(d)[g])
  BY <1>1, <1>2, <1>4 DEF Workers, ProcessOK
<1>7. ProcessInv'
  <2>1. ProcessInv
    BY DEF CaptureInv
  <2>2. CASE SetWorker(d, g, [w EXCEPT !.sent = @ \cup {p}])
    BY <1>5, <2>1, <2>2, OneProcessChanges
  <2>3. CASE SetWorker(d, g, [w EXCEPT !.bad = @ \cup {p}])
    BY <1>6, <2>1, <2>3, OneProcessChanges
  <2> QED BY <1>2, <2>2, <2>3
<1> QED BY <1>2, <1>7, ProcessSteps

LEMMA ProcessDiesKeeps ==
  ASSUME CaptureInv, NEW d \in Docs, NEW g \in DOMAIN worker[d], ProcessDies(d, g)
  PROVE  CaptureInv'
<1>1. /\ g \in DOMAIN RangesOf(d)
      /\ worker[d][g] \in Workers /\ ProcessOK(worker[d][g], RangesOf(d)[g])
  BY DEF CaptureInv, ProcessInv
<1>2. /\ worker[d][g].state = "alive"
      /\ SetWorker(d, g, [worker[d][g] EXCEPT !.state = "dead"])
      /\ UNCHANGED <<sup, result, doc, join, got>>
  BY DEF ProcessDies
<1>3. /\ [worker[d][g] EXCEPT !.state = "dead"] \in Workers
      /\ ProcessOK([worker[d][g] EXCEPT !.state = "dead"], RangesOf(d)[g])
  BY <1>1, <1>2 DEF Workers, ProcessOK
<1>4. ProcessInv'
  BY <1>2, <1>3, OneProcessChanges DEF CaptureInv
<1> QED BY <1>2, <1>4, ProcessSteps

LEMMA KillForMemoryKeeps ==
  ASSUME CaptureInv, NEW d \in Docs, NEW g \in DOMAIN worker[d], KillForMemory(d, g)
  PROVE  CaptureInv'
<1> DEFINE w == [worker[d][g] EXCEPT !.state = "killed", !.reason = "rss_limit"]
<1>1. /\ g \in DOMAIN RangesOf(d)
      /\ worker[d][g] \in Workers /\ ProcessOK(worker[d][g], RangesOf(d)[g])
  BY DEF CaptureInv, ProcessInv
<1>2. SetWorker(d, g, w) /\ UNCHANGED <<sup, result, doc, join, got>>
  BY DEF KillForMemory
<1>3. w \in Workers /\ ProcessOK(w, RangesOf(d)[g])
  BY <1>1 DEF Workers, ProcessOK, Reasons
<1> HIDE DEF w
<1>4. ProcessInv'
  BY <1>2, <1>3, OneProcessChanges DEF CaptureInv
<1> QED BY <1>2, <1>4, ProcessSteps

LEMMA NoticeEndKeeps ==
  ASSUME CaptureInv, NEW d \in Docs, NEW g \in DOMAIN worker[d], NoticeEnd(d, g)
  PROVE  CaptureInv'
<1> DEFINE w == [worker[d][g] EXCEPT !.state = "ended", !.finished = Whole(d, g),
                                     !.reason = IF Whole(d, g) THEN "none" ELSE "crash"]
<1>1. /\ g \in DOMAIN RangesOf(d)
      /\ worker[d][g] \in Workers /\ ProcessOK(worker[d][g], RangesOf(d)[g])
  BY DEF CaptureInv, ProcessInv
<1>2. SetWorker(d, g, w) /\ UNCHANGED <<sup, result, doc, join, got>>
  BY DEF NoticeEnd
<1>3. Whole(d, g) \in BOOLEAN
  BY DEF Whole
<1>4. Whole(d, g) => worker[d][g].sent = RangesOf(d)[g]
  BY <1>1 DEF Whole, Left, ProcessOK
<1>5. w.sent = worker[d][g].sent /\ w.state = "ended" /\ w.finished = Whole(d, g)
  BY <1>1 DEF Workers
<1>6. w \in Workers
  BY <1>1, <1>3 DEF Workers, Reasons
<1> HIDE DEF w
<1>7. ProcessOK(w, RangesOf(d)[g])
  BY <1>1, <1>4, <1>5 DEF ProcessOK
<1>8. ProcessInv'
  BY <1>2, <1>6, <1>7, OneProcessChanges DEF CaptureInv
<1> QED BY <1>2, <1>8, ProcessSteps

LEMMA SpawnKeeps ==
  ASSUME CaptureInv, NEW d \in Docs, Spawn(d)
  PROVE  CaptureInv'
<1> DEFINE g == Min(Queued(d))
           w == [Fresh EXCEPT !.state = "alive"]
<1>1. SetWorker(d, g, w) /\ UNCHANGED <<sup, result, doc, join, got>>
  BY DEF Spawn
<1>2. w \in Workers /\ w.sent = {} /\ ~w.finished
  BY DEF Fresh, Workers
<1> HIDE DEF g, w
<1>3. ProcessOK(w, RangesOf(d)[g])
  BY <1>2 DEF ProcessOK
<1>4. ProcessInv'
  BY <1>1, <1>2, <1>3, OneProcessChanges DEF CaptureInv
<1> QED BY <1>1, <1>4, ProcessSteps

LEMMA FirstSlotsKeeps ==
  ASSUME CaptureInv, NEW d \in Docs, FirstSlots(d)
  PROVE  CaptureInv'
<1>1. sup' = [sup EXCEPT ![d] = "pool"] /\ UNCHANGED <<worker, result, doc, join, got>>
  BY DEF FirstSlots
<1>2. CaptureTypes'
  BY <1>1 DEF CaptureInv, CaptureTypes
<1>3. ProcessInv'
  BY <1>1 DEF CaptureInv, ProcessInv
<1>4. JoinInv'
  <2>1. \A e \in Docs : sup'[e] = "done" => sup[e] = "done"
    BY <1>1 DEF CaptureInv, CaptureTypes
  <2> QED BY <1>1, <2>1 DEF CaptureInv, JoinInv, Accounted
<1> QED BY <1>2, <1>3, <1>4 DEF CaptureInv

LEMMA NoSlotKeeps ==
  ASSUME CaptureInv, NEW d \in Docs, NoSlot(d)
  PROVE  CaptureInv'
<1>1. /\ result' = [result EXCEPT ![d] = AllFailed(d, "no_slot")]
      /\ SupervisorEnds(d) /\ UNCHANGED <<doc, join, got>>
  BY DEF NoSlot
<1>2. "no_slot" \in Reasons
  BY DEF Reasons
<1> QED BY <1>1, <1>2, AllFailedAccounted, CaptureEnds

LEMMA SupervisorFailsKeeps ==
  ASSUME CaptureInv, NEW d \in Docs, SupervisorFails(d)
  PROVE  CaptureInv'
<1>1. /\ result' = [result EXCEPT ![d] = AllFailed(d, "crash")]
      /\ SupervisorEnds(d) /\ UNCHANGED <<doc, join, got>>
  BY DEF SupervisorFails
<1>2. "crash" \in Reasons
  BY DEF Reasons
<1> QED BY <1>1, <1>2, AllFailedAccounted, CaptureEnds

LEMMA CollectPagesKeeps ==
  ASSUME CaptureInv, NEW d \in Docs, CollectPages(d)
  PROVE  CaptureInv'
<1> DEFINE r == [scanned |-> UNION {worker[d][g].sent : g \in DOMAIN worker[d]},
                 failed |-> [reason \in Reasons |-> Lost(d, reason)]]
<1>1. /\ result' = [result EXCEPT ![d] = r]
      /\ SupervisorEnds(d) /\ UNCHANGED <<doc, join, got>>
  BY DEF CollectPages
<1>2. r \in Results /\ Accounted(d, r)
  BY CollectAccounted DEF CaptureInv
<1> HIDE DEF r
<1> QED BY <1>1, <1>2, CaptureEnds

\* What the moves of the joins and the documents start from.
LEMMA BeforeMove ==
  ASSUME CaptureInv, NEW d \in Docs
  PROVE  /\ doc[d] \in {"converting", "building", "dropping", "kept", "dropped"}
         /\ join[d] \in {"none", "waiting", "stopping", "closing", "back", "over"}
         /\ result[d] \in Results /\ got[d] \in Results
         /\ NoResult \in Results
         /\ doc = [doc EXCEPT ![d] = doc[d]] /\ join = [join EXCEPT ![d] = join[d]]
         /\ result = [result EXCEPT ![d] = result[d]] /\ got = [got EXCEPT ![d] = got[d]]
         /\ sup[d] = "done" /\ join[d] \in {"none", "waiting", "stopping", "closing"}
              => Accounted(d, result[d])
         /\ join[d] = "back" => Accounted(d, got[d])
         /\ doc[d] = "converting" => join[d] = "none"
<1>1. CaptureTypes /\ JoinInv
  BY DEF CaptureInv
<1>2. NoResult \in Results
  BY DEF NoResult, Results
<1>3. /\ doc = [doc EXCEPT ![d] = doc[d]] /\ join = [join EXCEPT ![d] = join[d]]
      /\ result = [result EXCEPT ![d] = result[d]] /\ got = [got EXCEPT ![d] = got[d]]
  BY <1>1 DEF CaptureTypes
<1> QED BY <1>1, <1>2, <1>3 DEF CaptureTypes, JoinInv

LEMMA StartJoinKeeps ==
  ASSUME CaptureInv, NEW d \in Docs, StartJoin(d)
  PROVE  CaptureInv'
<1>1. /\ doc[d] = "converting" /\ UNCHANGED <<sup, worker, result, got>>
      /\ doc' = [doc EXCEPT ![d] = "building"] /\ join' = [join EXCEPT ![d] = "waiting"]
  BY DEF StartJoin
<1>2. result' = [result EXCEPT ![d] = result[d]] /\ got' = [got EXCEPT ![d] = got[d]]
  BY <1>1, BeforeMove
<1>3. sup[d] = "done" => Accounted(d, result[d])
  BY <1>1, BeforeMove
<1>m. Move(d, "building", "waiting", result[d], got[d])
  BY <1>1, <1>2, <1>3, BeforeMove DEF Move
<1> QED BY <1>1, <1>m, DocumentMoves

LEMMA JoinTimesOutKeeps ==
  ASSUME CaptureInv, NEW d \in Docs, JoinTimesOut(d)
  PROVE  CaptureInv'
<1>1. /\ join[d] = "waiting" /\ UNCHANGED <<sup, worker, result, doc, got>>
      /\ join' = [join EXCEPT ![d] = "stopping"]
  BY DEF JoinTimesOut
<1>2. /\ doc' = [doc EXCEPT ![d] = doc[d]] /\ doc[d] # "converting"
      /\ result' = [result EXCEPT ![d] = result[d]] /\ got' = [got EXCEPT ![d] = got[d]]
  BY <1>1, BeforeMove
<1>3. sup[d] = "done" => Accounted(d, result[d])
  BY <1>1, BeforeMove
<1>m. Move(d, doc[d], "stopping", result[d], got[d])
  BY <1>1, <1>2, <1>3, BeforeMove DEF Move
<1> QED BY <1>1, <1>m, DocumentMoves

LEMMA DropKeeps ==
  ASSUME CaptureInv, NEW d \in Docs, Drop(d)
  PROVE  CaptureInv'
<1> DEFINE j == IF join[d] = "none" THEN "closing" ELSE join[d]
<1>1. /\ doc' = [doc EXCEPT ![d] = "dropping"] /\ UNCHANGED <<sup, worker, result, got>>
      /\ join' = [join EXCEPT ![d] = j]
  BY DEF Drop
<1>2. result' = [result EXCEPT ![d] = result[d]] /\ got' = [got EXCEPT ![d] = got[d]]
  BY <1>1, BeforeMove
<1>3. /\ j \in {"none", "waiting", "stopping", "closing", "back", "over"}
      /\ sup[d] = "done" /\ j \in {"none", "waiting", "stopping", "closing"}
           => Accounted(d, result[d])
      /\ j = "back" => Accounted(d, got[d])
  BY BeforeMove
<1> HIDE DEF j
<1>m. Move(d, "dropping", j, result[d], got[d])
  BY <1>1, <1>2, <1>3, BeforeMove DEF Move
<1> QED BY <1>1, <1>m, DocumentMoves

LEMMA JoinReturnsKeeps ==
  ASSUME CaptureInv, NEW d \in Docs, JoinReturns(d)
  PROVE  CaptureInv'
<1>1. /\ join[d] \in {"waiting", "stopping", "closing"} /\ sup[d] = "done"
      /\ UNCHANGED <<sup, worker, doc>>
      /\ got' = [got EXCEPT ![d] = result[d]] /\ join' = [join EXCEPT ![d] = "back"]
      /\ result' = [result EXCEPT ![d] = NoResult]
  BY DEF JoinReturns, Collected
<1>2. doc' = [doc EXCEPT ![d] = doc[d]] /\ doc[d] # "converting"
  BY <1>1, BeforeMove
<1>3. Accounted(d, result[d])
  BY <1>1, BeforeMove
<1>m. Move(d, doc[d], "back", NoResult, result[d])
  BY <1>1, <1>2, <1>3, BeforeMove DEF Move
<1> QED BY <1>1, <1>m, DocumentMoves

LEMMA JoinGivesUpKeeps ==
  ASSUME CaptureInv, NEW d \in Docs, JoinGivesUp(d)
  PROVE  CaptureInv'
<1>1. /\ join[d] \in {"stopping", "closing"} /\ UNCHANGED <<sup, worker, result, doc>>
      /\ got' = [got EXCEPT ![d] = AllFailed(d, "deadline")]
      /\ join' = [join EXCEPT ![d] = "back"]
  BY DEF JoinGivesUp, Collected
<1>2. /\ doc' = [doc EXCEPT ![d] = doc[d]] /\ doc[d] # "converting"
      /\ result' = [result EXCEPT ![d] = result[d]]
  BY <1>1, BeforeMove
<1>3. AllFailed(d, "deadline") \in Results /\ Accounted(d, AllFailed(d, "deadline"))
  BY AllFailedAccounted DEF Reasons
<1>m. Move(d, doc[d], "back", result[d], AllFailed(d, "deadline"))
  BY <1>1, <1>2, <1>3, BeforeMove DEF Move
<1> QED BY <1>1, <1>m, DocumentMoves

LEMMA LeavesKeeps ==
  ASSUME CaptureInv, NEW d \in Docs, NEW to \in {"kept", "dropped"}, Leaves(d, to),
         UNCHANGED <<sup, worker, result>>
  PROVE  CaptureInv'
<1>1. /\ doc' = [doc EXCEPT ![d] = to] /\ join' = [join EXCEPT ![d] = "over"]
      /\ got' = [got EXCEPT ![d] = NoResult]
  BY DEF Leaves
<1>2. result' = [result EXCEPT ![d] = result[d]]
  BY BeforeMove
<1>m. Move(d, to, "over", result[d], NoResult)
  BY <1>1, <1>2, BeforeMove DEF Move
<1> QED BY <1>1, <1>m, DocumentMoves

-----------------------------------------------------------------------------
(* The theorem.                                                            *)

LEMMA CaptureStep == CaptureInv /\ [Next]_vars => CaptureInv'
<1> SUFFICES ASSUME CaptureInv, [Next]_vars PROVE CaptureInv'
  OBVIOUS
<1>s. ASSUME UNCHANGED <<sup, worker, result, doc, join, got>> PROVE CaptureInv'
  <2>1. ProcessInv'
    BY <1>s DEF CaptureInv, ProcessInv
  <2> QED BY <1>s, <2>1, ProcessSteps
<1>1. CASE UNCHANGED vars
  BY <1>1, <1>s
<1>2. ASSUME NEW d \in Docs, Supervise(d) PROVE CaptureInv'
  <2>1. CASE \E g \in DOMAIN worker[d] : NoticeEnd(d, g)
    BY <2>1, NoticeEndKeeps
  <2> QED BY <1>2, <2>1, FirstSlotsKeeps, NoSlotKeeps, SpawnKeeps, CollectPagesKeeps
          DEF Supervise
<1>3. ASSUME NEW d \in Docs, Index(d) PROVE CaptureInv'
  <2>1. CASE DescriptionsTimeOut(d)
    BY <1>s, <2>1 DEF DescriptionsTimeOut
  <2>2. CASE Finalize(d)
    BY <2>2, LeavesKeeps DEF Finalize
  <2>3. CASE DropEnds(d)
    BY <2>3, LeavesKeeps DEF DropEnds
  <2> QED BY <1>3, <2>1, <2>2, <2>3, StartJoinKeeps, JoinReturnsKeeps DEF Index
<1>4. ASSUME NEW d \in Docs, DeadlinePasses(d) \/ DescriptionsEnd(d) PROVE CaptureInv'
  BY <1>4, <1>s DEF DeadlinePasses, DescriptionsEnd
<1>5. ASSUME NEW d \in Docs, NEW g \in DOMAIN worker[d],
             ScanPage(d, g) \/ ProcessDies(d, g) \/ KillForMemory(d, g)
      PROVE  CaptureInv'
  BY <1>5, ScanPageKeeps, ProcessDiesKeeps, KillForMemoryKeeps
<1>6. CASE Next
  BY <1>6, <1>2, <1>3, <1>4, <1>5, SupervisorFailsKeeps, JoinTimesOutKeeps, JoinGivesUpKeeps,
     DropKeeps DEF Next
<1> QED BY <1>1, <1>6

\* What the join returns accounts for every page of every document: each was scanned, or
\* is in exactly one failed run with its reason, for any number of pages and processes
\* and whatever process died, was killed or was cut off where (CaptureResult, P9).
THEOREM PagesAccounted == Spec => []EveryPageAccounted
<1>1. CaptureInv => EveryPageAccounted
  BY AccountedOnce DEF CaptureInv, JoinInv, EveryPageAccounted
<1> QED BY CaptureInit, CaptureStep, <1>1, PTL DEF Spec

\* Induction, in the shape the backends take: a set of numbers.
LEMMA Induct ==
  ASSUME NEW good, 0 \in good, \A n \in Nat : n \in good => n + 1 \in good
  PROVE  \A n \in Nat : n \in good
<1> SUFFICES ASSUME NEW n \in Nat, n \notin good PROVE FALSE
  OBVIOUS
<1> DEFINE bad == {k \in Nat : k \notin good}
<1>1. PICK k \in bad : \A j \in bad : k <= j
  <2>1. bad \in SUBSET Nat /\ bad # {}
    OBVIOUS
  <2> HIDE DEF bad
  <2> QED BY <2>1, LeastOf
<1>2. k # 0 /\ k - 1 \in Nat /\ k = (k - 1) + 1
  BY <1>1
<1>3. k - 1 \notin bad
  BY <1>1, <1>2
<1> QED BY <1>1, <1>2, <1>3

\* What is made from an element of S, at each step up to n, is in S.
StepsIn(move, n, S) == \A k \in 1 .. n : \A s \in S : move[k][s] \in S

\* f begins with init, and each of its values is made from the one before.
Iterates(f, init, move, n, S) ==
  /\ f \in [0 .. n -> S]
  /\ f[0] = init
  /\ \A k \in 1 .. n : f[k] = move[k][f[k - 1]]

\* A function on 0 .. n whose values are made one from the other.
LEMMA Recursion ==
  ASSUME NEW S, NEW init \in S, NEW n \in Nat, NEW move,
         StepsIn(move, n, S)
  PROVE  \E f : Iterates(f, init, move, n, S)
<1> DEFINE Made(m, f) == f[0] = init /\ \A k \in 1 .. m : f[k] = move[k][f[k - 1]]
<1> DEFINE good == {m \in Nat : m <= n => \E f \in [0 .. m -> S] : Made(m, f)}
<1>1. 0 \in good
  <2>1. [k \in 0 .. 0 |-> init] \in [0 .. 0 -> S] /\ Made(0, [k \in 0 .. 0 |-> init])
    OBVIOUS
  <2> HIDE DEF Made
  <2> QED BY <2>1
<1>2. ASSUME NEW m \in Nat, m \in good PROVE m + 1 \in good
  <2>1. SUFFICES ASSUME m + 1 <= n PROVE \E f \in [0 .. m + 1 -> S] : Made(m + 1, f)
    OBVIOUS
  <2>2. PICK f \in [0 .. m -> S] : Made(m, f)
    BY <1>2, <2>1
  <2> DEFINE g == [k \in 0 .. m + 1 |-> IF k = m + 1 THEN move[m + 1][f[m]] ELSE f[k]]
  <2>3. move[m + 1][f[m]] \in S
    <3>1. m + 1 \in 1 .. n /\ f[m] \in S
      BY <2>1
    <3> QED BY <3>1 DEF StepsIn
  <2>4. g \in [0 .. m + 1 -> S]
    BY <2>3
  <2>5. Made(m + 1, g)
    <3>1. g[0] = init
      BY <2>2
    <3>2. ASSUME NEW k \in 1 .. m + 1 PROVE g[k] = move[k][g[k - 1]]
      <4>1. g[k - 1] = f[k - 1]
        OBVIOUS
      <4>2. CASE k = m + 1
        BY <4>1, <4>2
      <4>3. CASE k # m + 1
        <5>1. k \in 1 .. m
          BY <4>3
        <5>2. g[k] = f[k] /\ f[k] = move[k][f[k - 1]]
          BY <2>2, <5>1
        <5> QED BY <4>1, <5>2
      <4> QED BY <4>2, <4>3
    <3> QED BY <3>1, <3>2
  <2> HIDE DEF g, Made
  <2> QED BY <2>4, <2>5
<1> HIDE DEF good
<1>3. n \in good
  BY <1>1, <1>2, Induct
<1> QED BY <1>3 DEF good, Iterates

-----------------------------------------------------------------------------
(* Runs of pages.                                                          *)

\* Runs of pages, by what they need.
Runs == [start : Nat, end : Nat, tables : BOOLEAN, ocr : BOOLEAN]

\* The runs are in ok and hold the pages from a to b - 1, one after the other.
Tiles(runs, ok, a, b) ==
  /\ runs \in Seq(ok)
  /\ \A i \in 1 .. Len(runs) : runs[i].start = IF i = 1 THEN a ELSE runs[i - 1].end + 1
  /\ b = IF Len(runs) = 0 THEN a ELSE runs[Len(runs)].end + 1

\* No run, no page.
LEMMA TilesNone ==
  ASSUME NEW ok, NEW a
  PROVE  Tiles(<<>>, ok, a, a)
  BY DEF Tiles

\* One run holds its own pages.
LEMMA TilesOne ==
  ASSUME NEW ok, NEW r \in ok
  PROVE  Tiles(<<r>>, ok, r.start, r.end + 1)
  BY DEF Tiles

\* Runs of the pages from a, then runs of the pages up to c.
LEMMA TilesConcat ==
  ASSUME NEW ok, NEW s, NEW t, NEW a, NEW b, NEW c, Tiles(s, ok, a, b), Tiles(t, ok, b, c)
  PROVE  Tiles(s \o t, ok, a, c)
<1>1. s \in Seq(ok) /\ t \in Seq(ok) /\ Len(s) \in Nat /\ Len(t) \in Nat
  BY DEF Tiles
<1>2. /\ s \o t \in Seq(ok) /\ Len(s \o t) = Len(s) + Len(t)
      /\ \A i \in 1 .. Len(s) + Len(t) :
           (s \o t)[i] = IF i <= Len(s) THEN s[i] ELSE t[i - Len(s)]
  BY <1>1
<1>3. ASSUME NEW i \in 1 .. Len(s) + Len(t)
      PROVE  (s \o t)[i].start = IF i = 1 THEN a ELSE (s \o t)[i - 1].end + 1
  <2>1. CASE i <= Len(s)
    <3>1. i \in 1 .. Len(s) /\ (i # 1 => i - 1 \in 1 .. Len(s) + Len(t) /\ i - 1 <= Len(s))
      BY <1>1, <2>1
    <3> QED BY <1>2, <2>1, <3>1 DEF Tiles
  <2>2. CASE i > Len(s)
    <3>1. i - Len(s) \in 1 .. Len(t) /\ (s \o t)[i] = t[i - Len(s)]
      BY <1>1, <1>2, <2>2
    <3>2. CASE i - Len(s) = 1
      <4>1. t[1].start = b
        BY <3>1, <3>2 DEF Tiles
      <4>2. CASE Len(s) = 0
        BY <1>1, <3>1, <3>2, <4>1, <4>2 DEF Tiles
      <4>3. CASE Len(s) # 0
        <5>1. i - 1 = Len(s) /\ i # 1 /\ i - 1 \in 1 .. Len(s) + Len(t) /\ i - 1 <= Len(s)
          BY <1>1, <3>2, <4>3
        <5>2. (s \o t)[i - 1] = s[Len(s)]
          BY <1>2, <5>1
        <5>3. b = s[Len(s)].end + 1
          BY <4>3 DEF Tiles
        <5> QED BY <3>1, <3>2, <4>1, <5>1, <5>2, <5>3
      <4> QED BY <4>2, <4>3
    <3>3. CASE i - Len(s) # 1
      <4>1. /\ i - 1 \in 1 .. Len(s) + Len(t) /\ ~(i - 1 <= Len(s)) /\ i # 1
            /\ (i - 1) - Len(s) = (i - Len(s)) - 1
        BY <1>1, <2>2, <3>1, <3>3
      <4>2. (s \o t)[i - 1] = t[(i - Len(s)) - 1]
        BY <1>2, <4>1
      <4> QED BY <3>1, <3>3, <4>1, <4>2 DEF Tiles
    <3> QED BY <3>2, <3>3
  <2> QED BY <1>1, <2>1, <2>2
<1>4. c = IF Len(s \o t) = 0 THEN a ELSE (s \o t)[Len(s \o t)].end + 1
  <2>1. CASE Len(t) = 0
    <3>1. c = b
      BY <2>1 DEF Tiles
    <3>2. CASE Len(s) = 0
      BY <1>2, <2>1, <3>1, <3>2 DEF Tiles
    <3>3. CASE Len(s) # 0
      <4>1. Len(s \o t) = Len(s) /\ (s \o t)[Len(s)] = s[Len(s)]
        BY <1>1, <1>2, <2>1, <3>3
      <4> QED BY <3>1, <3>3, <4>1 DEF Tiles
    <3> QED BY <3>2, <3>3
  <2>2. CASE Len(t) # 0
    <3>1. (s \o t)[Len(s) + Len(t)] = t[Len(t)]
      <4>1. Len(s) + Len(t) \in 1 .. Len(s) + Len(t) /\ ~(Len(s) + Len(t) <= Len(s))
            /\ (Len(s) + Len(t)) - Len(s) = Len(t)
        BY <1>1, <2>2
      <4> QED BY <1>2, <4>1
    <3>2. c = t[Len(t)].end + 1 /\ Len(s) + Len(t) # 0
      BY <1>1, <2>2 DEF Tiles
    <3> QED BY <1>2, <3>1, <3>2
  <2> QED BY <2>1, <2>2
<1> QED BY <1>2, <1>3, <1>4 DEF Tiles

\* The first k runs.
LEMMA TilesPrefix ==
  ASSUME NEW ok, NEW s, NEW a, NEW b, Tiles(s, ok, a, b), NEW k \in 0 .. Len(s)
  PROVE  Tiles(SubSeq(s, 1, k), ok, a, IF k = 0 THEN a ELSE s[k].end + 1)
<1>1. s \in Seq(ok)
  BY DEF Tiles
<1>2. /\ SubSeq(s, 1, k) \in Seq(ok) /\ Len(SubSeq(s, 1, k)) = k
      /\ \A i \in 1 .. k : SubSeq(s, 1, k)[i] = s[i]
  BY <1>1
<1>3. ASSUME NEW i \in 1 .. k
      PROVE  SubSeq(s, 1, k)[i].start = IF i = 1 THEN a ELSE SubSeq(s, 1, k)[i - 1].end + 1
  <2>1. i \in 1 .. Len(s) /\ (i # 1 => i - 1 \in 1 .. k)
    BY <1>1
  <2> QED BY <1>2, <2>1 DEF Tiles
<1>4. k # 0 => k \in 1 .. k
  OBVIOUS
<1> QED BY <1>2, <1>3, <1>4 DEF Tiles

\* The runs from k on.
LEMMA TilesSuffix ==
  ASSUME NEW ok, NEW s, NEW a, NEW b, Tiles(s, ok, a, b), NEW k \in 1 .. Len(s) + 1
  PROVE  Tiles(SubSeq(s, k, Len(s)), ok, IF k = 1 THEN a ELSE s[k - 1].end + 1, b)
<1> DEFINE t == SubSeq(s, k, Len(s))
<1> DEFINE n == Len(s) - k + 1
<1>1. s \in Seq(ok) /\ Len(s) \in Nat
  BY DEF Tiles
<1>2. t \in Seq(ok) /\ Len(t) = n /\ n \in Nat /\ \A i \in 1 .. n : t[i] = s[k + i - 1]
  BY <1>1
<1>3. ASSUME NEW i \in 1 .. n
      PROVE  t[i].start = IF i = 1 THEN IF k = 1 THEN a ELSE s[k - 1].end + 1 ELSE t[i - 1].end + 1
  <2>1. k + i - 1 \in 1 .. Len(s) /\ t[i] = s[k + i - 1]
    BY <1>1, <1>2
  <2>2. s[k + i - 1].start = IF k + i - 1 = 1 THEN a ELSE s[(k + i - 1) - 1].end + 1
    BY <2>1 DEF Tiles
  <2>3. i # 1 => t[i - 1] = s[(k + i - 1) - 1]
    <3>1. i # 1 => i - 1 \in 1 .. n /\ k + (i - 1) - 1 = (k + i - 1) - 1
      BY <1>2
    <3> QED BY <1>2, <3>1
  <2>4. i = 1 => (k + i - 1) - 1 = k - 1
    OBVIOUS
  <2>5. k + i - 1 = 1 => i = 1 /\ k = 1
    OBVIOUS
  <2> QED BY <2>1, <2>2, <2>3, <2>4, <2>5
<1>4. b = IF n = 0 THEN IF k = 1 THEN a ELSE s[k - 1].end + 1 ELSE t[n].end + 1
  <2>1. CASE n = 0
    <3>1. k - 1 = Len(s)
      BY <1>1, <2>1
    <3> QED BY <1>1, <2>1, <3>1 DEF Tiles
  <2>2. CASE n # 0
    <3>1. t[n] = s[Len(s)] /\ Len(s) # 0
      BY <1>1, <1>2, <2>2
    <3> QED BY <2>2, <3>1 DEF Tiles
  <2> QED BY <2>1, <2>2
<1>5. Tiles(t, ok, IF k = 1 THEN a ELSE s[k - 1].end + 1, b)
  <2> HIDE DEF t, n
  <2> QED BY <1>2, <1>3, <1>4 DEF Tiles
<1> QED BY <1>5

\* A set of runs that holds what any two of them make together.
Mergeable(ok) ==
  /\ ok \subseteq Runs
  /\ \A r, s \in ok : s.start = r.end + 1 => Merge(r, s) \in ok

\* A run that lengthens the last one, or follows it (Grown, in _coalesce).
LEMMA GrownTiles ==
  ASSUME NEW ok, Mergeable(ok), NEW out, NEW a, NEW r \in ok, Tiles(out, ok, a, r.start)
  PROVE  Tiles(Grown(out, r), ok, a, r.end + 1)
<1>1. out \in Seq(ok) /\ Len(out) \in Nat
  BY DEF Tiles
<1>2. CASE out # <<>> /\ SameNeeds(Last(out), r)
  <2> DEFINE m == Merge(Last(out), r)
  <2>1. Len(out) # 0 /\ Last(out) = out[Len(out)] /\ out[Len(out)] \in ok
    BY <1>1, <1>2 DEF Last
  <2>2. r.start = Last(out).end + 1
    BY <2>1 DEF Tiles
  <2>3. m \in ok /\ m.start = Last(out).start /\ m.end = r.end
    BY <2>1, <2>2 DEF Mergeable, Merge, Chunk
  <2>4. Front(out) = SubSeq(out, 1, Len(out) - 1)
    BY DEF Front
  <2>5. Tiles(Front(out), ok, a, m.start)
    <3>1. Len(out) - 1 \in 0 .. Len(out)
      BY <1>1, <2>1
    <3>2. Tiles(Front(out), ok, a, IF Len(out) - 1 = 0 THEN a ELSE out[Len(out) - 1].end + 1)
      BY <2>4, <3>1, TilesPrefix
    <3>3. out[Len(out)].start = IF Len(out) = 1 THEN a ELSE out[Len(out) - 1].end + 1
      <4>1. \A i \in 1 .. Len(out) : out[i].start = IF i = 1 THEN a ELSE out[i - 1].end + 1
        BY DEF Tiles
      <4>2. Len(out) \in 1 .. Len(out)
        BY <1>1, <2>1
      <4> HIDE DEF m
      <4> QED BY <4>1, <4>2
    <3>4. m.start = IF Len(out) - 1 = 0 THEN a ELSE out[Len(out) - 1].end + 1
      BY <1>1, <2>1, <2>3, <3>3
    <3> QED BY <3>2, <3>4
  <2>6. Grown(out, r) = Front(out) \o <<m>>
    <3>1. Front(out) \in Seq(ok)
      BY <2>5 DEF Tiles
    <3>2. Append(Front(out), m) = Front(out) \o <<m>>
      BY <2>3, <3>1
    <3> QED BY <1>2, <3>2 DEF Grown
  <2>7. Tiles(<<m>>, ok, m.start, r.end + 1)
    BY <2>3, TilesOne
  <2> HIDE DEF m
  <2> QED BY <2>5, <2>6, <2>7, TilesConcat
<1>3. CASE ~(out # <<>> /\ SameNeeds(Last(out), r))
  <2>1. Append(out, r) = out \o <<r>>
    BY <1>1
  <2>2. Grown(out, r) = out \o <<r>>
    BY <1>3, <2>1 DEF Grown
  <2>3. Tiles(<<r>>, ok, r.start, r.end + 1)
    BY TilesOne
  <2> QED BY <2>2, <2>3, TilesConcat
<1> QED BY <1>2, <1>3

\* Grown yields runs, wherever they lie.
LEMMA GrownIsSeq ==
  ASSUME NEW ok, NEW out \in Seq(ok), NEW r \in ok, \A x, y \in ok : Merge(x, y) \in ok
  PROVE  Grown(out, r) \in Seq(ok)
<1>1. CASE out # <<>> /\ SameNeeds(Last(out), r)
  <2>1. Len(out) \in Nat \ {0} /\ Last(out) \in ok
    BY <1>1 DEF Last
  <2>2. Front(out) \in Seq(ok)
    BY <2>1 DEF Front
  <2>3. Merge(Last(out), r) \in ok
    BY <2>1
  <2> QED BY <1>1, <2>2, <2>3 DEF Grown
<1>2. CASE ~(out # <<>> /\ SameNeeds(Last(out), r))
  BY <1>2 DEF Grown
<1> QED BY <1>1, <1>2

\* Runs with equal needs that follow each other are one, and no page is lost by it.
LEMMA CoalesceTiles ==
  ASSUME NEW ok, Mergeable(ok), NEW runs, NEW a, NEW b, Tiles(runs, ok, a, b)
  PROVE  Tiles(Coalesce(runs), ok, a, b)
<1> DEFINE n == Len(runs)
<1> DEFINE Made(f) == f = [k \in 0 .. n |-> IF k = 0 THEN <<>> ELSE Grown(f[k - 1], runs[k])]
<1>1. runs \in Seq(ok) /\ n \in Nat
  BY DEF Tiles
<1>2. \E f : Made(f)
  <2> DEFINE move == [k \in 1 .. n |-> [s \in Seq(Runs) |-> Grown(s, runs[k])]]
  <2>1. \A x, y \in Runs : Merge(x, y) \in Runs
    BY DEF Merge, Chunk, Runs
  <2>2. ASSUME NEW k \in 1 .. n, NEW s \in Seq(Runs)
        PROVE  move[k][s] = Grown(s, runs[k]) /\ Grown(s, runs[k]) \in Seq(Runs)
    <3>1. runs[k] \in Runs
      BY <1>1 DEF Mergeable
    <3>2. move[k][s] = Grown(s, runs[k])
      OBVIOUS
    <3> QED BY <2>1, <3>1, <3>2, GrownIsSeq
  <2>3. <<>> \in Seq(Runs)
    OBVIOUS
  <2> HIDE DEF move, n
  <2>4. PICK f : Iterates(f, <<>>, move, n, Seq(Runs))
    <3>1. StepsIn(move, n, Seq(Runs))
      BY <2>2 DEF StepsIn
    <3> QED BY <1>1, <2>3, <3>1, Recursion
  <2>5. ASSUME NEW k \in 0 .. n PROVE f[k] = IF k = 0 THEN <<>> ELSE Grown(f[k - 1], runs[k])
    <3>1. CASE k = 0
      BY <2>4, <3>1 DEF Iterates
    <3>2. CASE k # 0
      <4>1. k \in 1 .. n /\ k - 1 \in 0 .. n
        BY <1>1, <3>2
      <4>2. f[k - 1] \in Seq(Runs)
        BY <2>4, <4>1 DEF Iterates
      <4> QED BY <2>2, <2>4, <3>2, <4>1, <4>2 DEF Iterates
    <3> QED BY <3>1, <3>2
  <2>6. Made(f)
    BY <2>4, <2>5 DEF Iterates
  <2> QED BY <2>6
<1> DEFINE f == CHOOSE f : Made(f)
<1>3. Made(f)
  BY <1>2
<1>4. Coalesce(runs) = f[n]
  BY DEF Coalesce
<1> HIDE DEF f
<1>5. f[0] = <<>> /\ \A k \in 1 .. n : f[k] = Grown(f[k - 1], runs[k])
  <2>1. \A k \in 0 .. n : f[k] = IF k = 0 THEN <<>> ELSE Grown(f[k - 1], runs[k])
    BY <1>3
  <2> HIDE DEF n, Made
  <2> QED BY <1>1, <2>1
<1> DEFINE good == {k \in Nat : k <= n => Tiles(f[k], ok, a, IF k = 0 THEN a ELSE runs[k].end + 1)}
<1>6. 0 \in good
  BY <1>5, TilesNone
<1>7. ASSUME NEW k \in Nat, k \in good PROVE k + 1 \in good
  <2> SUFFICES ASSUME k + 1 <= n PROVE Tiles(f[k + 1], ok, a, runs[k + 1].end + 1)
    OBVIOUS
  <2>1. k + 1 \in 1 .. n /\ runs[k + 1] \in ok /\ (k + 1) - 1 = k
    BY <1>1
  <2>2. runs[k + 1].start = IF k = 0 THEN a ELSE runs[k].end + 1
    BY <2>1 DEF Tiles
  <2>3. Tiles(f[k], ok, a, runs[k + 1].start)
    BY <1>1, <1>7, <2>2
  <2>4. f[k + 1] = Grown(f[k], runs[k + 1])
    BY <1>5, <2>1
  <2> QED BY <2>1, <2>3, <2>4, GrownTiles
<1> HIDE DEF good
<1>8. n \in good
  BY <1>1, <1>6, <1>7, Induct
<1>9. b = IF n = 0 THEN a ELSE runs[n].end + 1
  BY DEF Tiles
<1> QED BY <1>1, <1>4, <1>8, <1>9 DEF good

\* Two neighbours become one run of both's pages.
LEMMA JoinTiles ==
  ASSUME NEW ok, Mergeable(ok), NEW runs, NEW a, NEW b, Tiles(runs, ok, a, b),
         NEW i \in 1 .. Len(runs) - 1
  PROVE  Tiles(Join(runs, i), ok, a, b)
<1> DEFINE m == Merge(runs[i], runs[i + 1])
<1>1. runs \in Seq(ok) /\ Len(runs) \in Nat /\ i \in 1 .. Len(runs) /\ i + 1 \in 1 .. Len(runs)
  BY DEF Tiles
<1>2. /\ runs[i] \in ok /\ runs[i + 1] \in ok
      /\ runs[i + 1].start = runs[i].end + 1
      /\ runs[i].start = IF i = 1 THEN a ELSE runs[i - 1].end + 1
  <2>1. \A j \in 1 .. Len(runs) : runs[j].start = IF j = 1 THEN a ELSE runs[j - 1].end + 1
    BY DEF Tiles
  <2>2. i + 1 # 1 /\ (i + 1) - 1 = i
    BY <1>1
  <2> HIDE DEF m
  <2>3. runs[i + 1].start = runs[i].end + 1
    BY <1>1, <2>1, <2>2
  <2>4. runs[i].start = IF i = 1 THEN a ELSE runs[i - 1].end + 1
    BY <1>1, <2>1
  <2> QED BY <1>1, <2>3, <2>4
<1>3. m \in ok /\ m.start = runs[i].start /\ m.end = runs[i + 1].end
  BY <1>2 DEF Mergeable, Merge, Chunk
<1> HIDE DEF m
<1>4. Tiles(SubSeq(runs, 1, i - 1), ok, a, m.start)
  <2>1. i - 1 \in 0 .. Len(runs) /\ (i - 1 = 0 <=> i = 1)
    BY <1>1
  <2>2. Tiles(SubSeq(runs, 1, i - 1), ok, a, IF i - 1 = 0 THEN a ELSE runs[i - 1].end + 1)
    BY <2>1, TilesPrefix
  <2> QED BY <1>2, <1>3, <2>1, <2>2
<1>5. Tiles(SubSeq(runs, i + 2, Len(runs)), ok, m.end + 1, b)
  <2>1. i + 2 \in 1 .. Len(runs) + 1 /\ i + 2 # 1 /\ (i + 2) - 1 = i + 1
    BY <1>1
  <2>2. Tiles(SubSeq(runs, i + 2, Len(runs)), ok,
              IF i + 2 = 1 THEN a ELSE runs[(i + 2) - 1].end + 1, b)
    BY <2>1, TilesSuffix
  <2> QED BY <1>3, <2>1, <2>2
<1>6. Tiles(<<m>>, ok, m.start, m.end + 1)
  BY <1>3, TilesOne
<1>7. Tiles(SubSeq(runs, 1, i - 1) \o <<m>>, ok, a, m.end + 1)
  BY <1>4, <1>6, TilesConcat
<1>8. Tiles((SubSeq(runs, 1, i - 1) \o <<m>>) \o SubSeq(runs, i + 2, Len(runs)), ok, a, b)
  BY <1>5, <1>7, TilesConcat
<1> QED BY <1>8, CoalesceTiles DEF Join, m

\* The shortest of some runs is one of them.
LEMMA ShortestIn ==
  ASSUME NEW runs, NEW is \in SUBSET Nat, is # {}, \A i \in is : PagesIn(runs[i]) \in Nat
  PROVE  Shortest(runs, is) \in is
<1> DEFINE sizes == {PagesIn(runs[i]) : i \in is}
<1>1. sizes \in SUBSET Nat /\ sizes # {}
  OBVIOUS
<1>2. PICK m \in sizes : \A n \in sizes : m <= n
  <2> HIDE DEF sizes
  <2> QED BY <1>1, LeastOf
<1> DEFINE least == {i \in is : PagesIn(runs[i]) = m}
<1>3. least \in SUBSET Nat /\ least # {}
  BY <1>2
<1>4. PICK i \in least : \A j \in least : i <= j
  <2> HIDE DEF least
  <2> QED BY <1>3, LeastOf
<1>5. ASSUME NEW j \in is \ {i}
      PROVE  \/ PagesIn(runs[i]) < PagesIn(runs[j])
             \/ PagesIn(runs[i]) = PagesIn(runs[j]) /\ i < j
  <2>1. PagesIn(runs[i]) = m /\ m <= PagesIn(runs[j]) /\ i \in Nat /\ j \in Nat /\ i # j
        /\ PagesIn(runs[j]) \in Nat /\ m \in Nat
    BY <1>1, <1>2, <1>4
  <2>2. PagesIn(runs[j]) = m => i <= j
    BY <1>4
  <2> HIDE DEF least, sizes
  <2> QED BY <2>1, <2>2
<1>6. i \in is
  BY <1>4
<1> HIDE DEF least, sizes
<1> QED BY <1>5, <1>6 DEF Shortest

\* The longest of two neighbours is one of them.
LEMMA LongestIn ==
  ASSUME NEW runs, NEW x \in Int, NEW y \in Int, NEW is \in SUBSET {x, y}, is # {},
         \A i \in is : PagesIn(runs[i]) \in Nat
  PROVE  Longest(runs, is) \in is
<1> DEFINE Best(i) == \A j \in is \ {i} :
                        \/ PagesIn(runs[i]) > PagesIn(runs[j])
                        \/ PagesIn(runs[i]) = PagesIn(runs[j]) /\ i < j
<1>1. \E i \in is : Best(i)
  <2>1. CASE is = {x}
    BY <2>1
  <2>2. CASE is = {y}
    BY <2>2
  <2>3. CASE is = {x, y} /\ x # y
    <3>1. Best(x) \/ Best(y)
      BY <2>3
    <3> HIDE DEF Best
    <3> QED BY <2>3, <3>1
  <2>4. is = {x} \/ is = {y} \/ (is = {x, y} /\ x # y)
    OBVIOUS
  <2> QED BY <2>1, <2>2, <2>3, <2>4
<1> QED BY <1>1 DEF Longest

\* A run that does not end before it starts has a page.
LEMMA RunPagesAreNat ==
  ASSUME NEW r \in Runs, r.start <= r.end
  PROVE  PagesIn(r) \in Nat \ {0}
  BY DEF Runs, PagesIn

\* The runs that are not empty, and hold what their pages need.
Sound(ok) == Mergeable(ok) /\ \A r \in ok : r.start <= r.end

\* A round joins two runs that follow each other, or none.
LEMMA AbsorbJoins ==
  ASSUME NEW ok, Sound(ok), NEW runs \in Seq(ok), NEW min
  PROVE  \/ AbsorbOne(runs, min) = runs
         \/ \E k \in 1 .. Len(runs) - 1 : AbsorbOne(runs, min) = Join(runs, k)
<1> DEFINE covered == {i \in TooShort(runs, min) : Covering(runs, i) # {}}
<1> DEFINE upgradable == {i \in TooShort(runs, min) : NoLonger(runs, i, min) # {}}
<1>1. Len(runs) \in Nat /\ DOMAIN runs = 1 .. Len(runs)
      /\ \A i \in 1 .. Len(runs) : PagesIn(runs[i]) \in Nat
  <2>1. \A i \in 1 .. Len(runs) : runs[i] \in Runs /\ runs[i].start <= runs[i].end
    BY DEF Sound, Mergeable
  <2> QED BY <2>1, RunPagesAreNat
<1>2. covered \in SUBSET (1 .. Len(runs)) /\ upgradable \in SUBSET (1 .. Len(runs))
  BY <1>1 DEF TooShort
<1>3. ASSUME NEW i \in 1 .. Len(runs), NEW j \in Beside(runs, i)
      PROVE  \E k \in 1 .. Len(runs) - 1 : JoinWith(runs, i, j) = Join(runs, k)
  <2> DEFINE k == IF i < j THEN i ELSE j
  <2>1. j \in {i - 1, i + 1} /\ j \in 1 .. Len(runs)
    BY <1>1 DEF Beside
  <2>2. k \in 1 .. Len(runs) - 1
    BY <1>1, <2>1
  <2>3. JoinWith(runs, i, j) = Join(runs, k)
    BY DEF JoinWith
  <2> HIDE DEF k
  <2> QED BY <2>2, <2>3
<1>4. CASE covered # {}
  <2> DEFINE i == Shortest(runs, covered)
  <2> DEFINE j == Longest(runs, Covering(runs, i))
  <2>1. i \in covered
    <3>1. covered \in SUBSET Nat /\ \A x \in covered : PagesIn(runs[x]) \in Nat
      BY <1>1, <1>2
    <3> HIDE DEF covered
    <3> QED BY <1>4, <3>1, ShortestIn
  <2>2. i \in 1 .. Len(runs) /\ Covering(runs, i) # {}
    BY <1>2, <2>1
  <2> HIDE DEF i
  <2>3. Covering(runs, i) \in SUBSET {i - 1, i + 1} /\ Covering(runs, i) \subseteq Beside(runs, i)
        /\ \A x \in Covering(runs, i) : PagesIn(runs[x]) \in Nat
    BY <1>1 DEF Covering, Beside
  <2>4. j \in Covering(runs, i)
    <3>1. i - 1 \in Int /\ i + 1 \in Int
      BY <1>1, <2>2
    <3> QED BY <2>2, <2>3, <3>1, LongestIn
  <2>5. AbsorbOne(runs, min) = JoinWith(runs, i, j)
    BY <1>4 DEF AbsorbOne, i
  <2> HIDE DEF j
  <2> QED BY <1>3, <2>2, <2>3, <2>4, <2>5
<1>5. CASE covered = {} /\ upgradable # {}
  <2> DEFINE i == Shortest(runs, upgradable)
  <2> DEFINE j == Shortest(runs, NoLonger(runs, i, min))
  <2>1. i \in upgradable
    <3>1. upgradable \in SUBSET Nat /\ \A x \in upgradable : PagesIn(runs[x]) \in Nat
      BY <1>1, <1>2
    <3> HIDE DEF upgradable, covered
    <3> QED BY <1>5, <3>1, ShortestIn
  <2>2. i \in 1 .. Len(runs) /\ NoLonger(runs, i, min) # {}
    BY <1>2, <2>1
  <2> HIDE DEF i
  <2>3. NoLonger(runs, i, min) \in SUBSET Nat /\ NoLonger(runs, i, min) \subseteq Beside(runs, i)
        /\ \A x \in NoLonger(runs, i, min) : PagesIn(runs[x]) \in Nat
    BY <1>1 DEF NoLonger, Beside
  <2>4. j \in NoLonger(runs, i, min)
    BY <2>2, <2>3, ShortestIn
  <2>5. AbsorbOne(runs, min) = JoinWith(runs, i, j)
    BY <1>5 DEF AbsorbOne, i
  <2> HIDE DEF j
  <2> QED BY <1>3, <2>2, <2>3, <2>4, <2>5
<1>6. CASE covered = {} /\ upgradable = {}
  BY <1>6 DEF AbsorbOne
<1> QED BY <1>4, <1>5, <1>6

\* However many rounds are absorbed, the runs hold the same pages (_absorb_short_runs).
LEMMA AbsorbTiles ==
  ASSUME NEW ok, Sound(ok), NEW runs, NEW a, NEW b, Tiles(runs, ok, a, b), NEW min
  PROVE  Tiles(AbsorbShortRuns(runs, min), ok, a, b)
<1> DEFINE n == Len(runs)
<1> DEFINE S == {s \in Seq(ok) : Tiles(s, ok, a, b)}
<1> DEFINE Made(f) == f = [k \in 0 .. n |-> IF k = 0 THEN runs ELSE AbsorbOne(f[k - 1], min)]
<1>1. runs \in S /\ n \in Nat
  BY DEF Tiles
<1>2. ASSUME NEW s \in S PROVE AbsorbOne(s, min) \in S
  <2>1. CASE AbsorbOne(s, min) = s
    BY <2>1
  <2>2. CASE \E k \in 1 .. Len(s) - 1 : AbsorbOne(s, min) = Join(s, k)
    <3>1. Tiles(AbsorbOne(s, min), ok, a, b)
      BY <2>2, JoinTiles DEF Sound
    <3> QED BY <3>1 DEF Tiles
  <2> QED BY <2>1, <2>2, AbsorbJoins
<1>3. \E f : Made(f)
  <2> DEFINE move == [k \in 1 .. n |-> [s \in S |-> AbsorbOne(s, min)]]
  <2>1. ASSUME NEW k \in 1 .. n, NEW s \in S
        PROVE  move[k][s] = AbsorbOne(s, min) /\ AbsorbOne(s, min) \in S
    <3> HIDE DEF S
    <3> QED BY <1>2
  <2> HIDE DEF move, n, S
  <2>2. StepsIn(move, n, S)
    BY <2>1 DEF StepsIn
  <2>3. PICK f : Iterates(f, runs, move, n, S)
    BY <1>1, <2>2, Recursion
  <2>4. ASSUME NEW k \in 0 .. n PROVE f[k] = IF k = 0 THEN runs ELSE AbsorbOne(f[k - 1], min)
    <3>1. CASE k = 0
      BY <2>3, <3>1 DEF Iterates
    <3>2. CASE k # 0
      <4>1. k \in 1 .. n /\ k - 1 \in 0 .. n
        BY <1>1, <3>2
      <4>2. f[k - 1] \in S
        BY <2>3, <4>1 DEF Iterates
      <4> QED BY <2>1, <2>3, <3>2, <4>1, <4>2 DEF Iterates
    <3> QED BY <3>1, <3>2
  <2>5. Made(f)
    BY <2>3, <2>4 DEF Iterates
  <2> QED BY <2>5
<1> DEFINE f == CHOOSE f : Made(f)
<1>4. Made(f)
  BY <1>3
<1>5. AbsorbShortRuns(runs, min) = f[n]
  BY DEF AbsorbShortRuns
<1> HIDE DEF f
<1>6. f[0] = runs /\ \A k \in 1 .. n : f[k] = AbsorbOne(f[k - 1], min)
  <2>1. \A k \in 0 .. n : f[k] = IF k = 0 THEN runs ELSE AbsorbOne(f[k - 1], min)
    BY <1>4
  <2> HIDE DEF n, Made
  <2> QED BY <1>1, <2>1
<1> HIDE DEF S
<1> DEFINE good == {k \in Nat : k <= n => f[k] \in S}
<1>7. 0 \in good
  BY <1>1, <1>6
<1>8. ASSUME NEW k \in Nat, k \in good PROVE k + 1 \in good
  <2> SUFFICES ASSUME k + 1 <= n PROVE f[k + 1] \in S
    OBVIOUS
  <2>1. k + 1 \in 1 .. n /\ (k + 1) - 1 = k /\ f[k] \in S
    BY <1>1, <1>8
  <2> QED BY <1>2, <1>6, <2>1
<1> HIDE DEF good
<1>9. n \in good
  BY <1>1, <1>7, <1>8, Induct
<1> QED BY <1>1, <1>5, <1>9 DEF good, S

\* Sequences joined one after the other, as FlattenSeq joins them.
Concats(f, ss, X) ==
  /\ f \in [0 .. Len(ss) -> Seq(X)]
  /\ f[0] = <<>>
  /\ \A k \in 1 .. Len(ss) : f[k] = f[k - 1] \o ss[k]
  /\ FlattenSeq(ss) = f[Len(ss)]

\* FlattenSeq joins the sequences one after the other.
LEMMA FlattenIs ==
  ASSUME NEW X, NEW ss \in Seq(Seq(X))
  PROVE  \E f : Concats(f, ss, X)
<1> DEFINE n == Len(ss)
<1> DEFINE move == [k \in 1 .. n |-> [s \in Seq(X) |-> s \o ss[k]]]
<1>1. n \in Nat /\ \A k \in 1 .. n : ss[k] \in Seq(X)
  OBVIOUS
<1>2. ASSUME NEW k \in 1 .. n, NEW s \in Seq(X)
      PROVE  move[k][s] = s \o ss[k] /\ s \o ss[k] \in Seq(X)
  <2>1. move[k][s] = s \o ss[k]
    OBVIOUS
  <2> HIDE DEF n, move
  <2>2. ss[k] \in Seq(X)
    BY <1>1
  <2> QED BY <2>1, <2>2
<1> HIDE DEF move, n
<1>3. StepsIn(move, n, Seq(X))
  BY <1>2 DEF StepsIn
<1>4. <<>> \in Seq(X)
  OBVIOUS
<1>5. PICK f : Iterates(f, <<>>, move, n, Seq(X))
  BY <1>1, <1>3, <1>4, Recursion
<1>6. \A k \in 1 .. n : f[k] = f[k - 1] \o ss[k] /\ f[k - 1] \in Seq(X)
  <2> SUFFICES ASSUME NEW k \in 1 .. n PROVE f[k] = f[k - 1] \o ss[k] /\ f[k - 1] \in Seq(X)
    OBVIOUS
  <2>1. k - 1 \in 0 .. n
    BY <1>1
  <2>2. f[k - 1] \in Seq(X)
    BY <1>5, <2>1 DEF Iterates
  <2> QED BY <1>2, <1>5, <2>2 DEF Iterates
<1>7. f[0] = <<>> /\ \A s \in Seq(X) : <<>> \o s = s
  BY <1>5 DEF Iterates
<1>8. FlattenSeq(ss) = f[n]
  <2>1. CASE n = 0
    BY <1>5, <2>1 DEF FlattenSeq, n, Iterates
  <2>2. CASE n # 0
    <3> DEFINE Made(g) == g = [i \in 1 .. n |-> IF i = 1 THEN ss[i] ELSE g[i - 1] \o ss[i]]
    <3> DEFINE h == [i \in 1 .. n |-> f[i]]
    <3>1. ASSUME NEW i \in 1 .. n PROVE h[i] = IF i = 1 THEN ss[i] ELSE h[i - 1] \o ss[i]
      <4>1. h[i] = f[i - 1] \o ss[i] /\ ss[i] \in Seq(X)
        BY <1>1, <1>6
      <4>2. CASE i = 1
        <5>1. f[i - 1] = <<>>
          BY <1>7, <4>2
        <5>2. h[i] = ss[i]
          <6> HIDE DEF h
          <6> QED BY <1>7, <4>1, <5>1
        <5> QED BY <4>2, <5>2
      <4>3. CASE i # 1
        <5>1. i - 1 \in 1 .. n
          BY <1>1, <4>3
        <5> QED BY <4>1, <4>3, <5>1
      <4> QED BY <4>2, <4>3
    <3>2. Made(h)
      <4> HIDE DEF h
      <4>1. h = [i \in 1 .. n |-> h[i]]
        BY DEF h
      <4> QED BY <3>1, <4>1
    <3> DEFINE g == CHOOSE g : Made(g)
    <3>3. Made(g)
      <4> HIDE DEF h
      <4> QED BY <3>2
    <3>4. FlattenSeq(ss) = g[n]
      BY <2>2 DEF FlattenSeq, n
    <3> HIDE DEF g, h
    <3>5. \A i \in 1 .. n : g[i] = IF i = 1 THEN ss[i] ELSE g[i - 1] \o ss[i]
      <4> QED BY <3>3
    <3> DEFINE good == {i \in Nat : i \in 1 .. n => g[i] = f[i]}
    <3>6. 0 \in good
      OBVIOUS
    <3>7. ASSUME NEW i \in Nat, i \in good PROVE i + 1 \in good
      <4> SUFFICES ASSUME i + 1 \in 1 .. n PROVE g[i + 1] = f[i + 1]
        OBVIOUS
      <4>1. f[i + 1] = f[i] \o ss[i + 1] /\ ss[i + 1] \in Seq(X)
        <5>1. (i + 1) - 1 = i
          OBVIOUS
        <5>2. f[i + 1] = f[(i + 1) - 1] \o ss[i + 1]
          BY <1>6
        <5> QED BY <1>1, <5>1, <5>2
      <4>2. CASE i = 0
        <5>1. f[i] = <<>> /\ g[i + 1] = ss[i + 1]
          BY <1>7, <3>5, <4>2
        <5> QED BY <1>7, <4>1, <5>1
      <4>3. CASE i # 0
        <5>1. i \in 1 .. n /\ i + 1 # 1 /\ (i + 1) - 1 = i
          BY <1>1, <4>3
        <5> QED BY <3>5, <3>7, <4>1, <5>1
      <4> QED BY <4>2, <4>3
    <3> HIDE DEF good, Made
    <3>8. n \in good
      BY <1>1, <3>6, <3>7, Induct
    <3> QED BY <1>1, <2>2, <3>4, <3>8 DEF good
  <2> QED BY <2>1, <2>2
<1>9. f \in [0 .. n -> Seq(X)] /\ f[0] = <<>>
  BY <1>5 DEF Iterates
<1> QED BY <1>6, <1>8, <1>9 DEF Concats, n

-----------------------------------------------------------------------------
(* Pieces of a run (_split_to_max).                                        *)

\* A product grows with its factor.
LEMMA ProductGrows ==
  ASSUME NEW x \in Nat, NEW y \in Nat, NEW z \in Nat, x <= y
  PROVE  x * z \in Nat /\ y * z \in Nat /\ x * z <= y * z
  OBVIOUS

\* The number of pieces: between one and the number of pages, and no more than it takes.
LEMMA CeilDivIs ==
  ASSUME NEW n \in Nat \ {0}, NEW max \in Nat \ {0}
  PROVE  /\ CeilDiv(n, max) \in 1 .. n
         /\ n <= max * CeilDiv(n, max)
         /\ max * CeilDiv(n, max) <= n + max - 1
<1> DEFINE q == (n + max - 1) \div max
<1> DEFINE r == (n + max - 1) % max
<1>1. q \in Nat /\ r \in Nat /\ r < max /\ n + max - 1 = max * q + r
  OBVIOUS
<1>2. n + max - 1 \in Nat
  OBVIOUS
<1> HIDE DEF q, r
<1>3. max * q \in Nat /\ n <= max * q /\ max * q <= n + max - 1
  BY <1>1
<1>4. q # 0
  <2>1. SUFFICES ASSUME q = 0 PROVE FALSE
    OBVIOUS
  <2>2. max * q = 0
    BY <2>1
  <2> QED BY <1>3, <2>2
<1>5. q <= n
  <2>1. SUFFICES ASSUME n + 1 <= q PROVE FALSE
    BY <1>1
  <2>2. (n + 1) * max <= q * max /\ q * max = max * q
    BY <1>1, <2>1, ProductGrows
  <2>3. (n + 1) * max = n * max + max
    OBVIOUS
  <2>4. n * 1 <= n * max
    <3>1. 1 * n <= max * n
      BY ProductGrows
    <3> QED BY <3>1
  <2>5. n * max \in Nat /\ max * q <= n + max - 1
    BY <1>1, <1>3
  <2> DEFINE p == n * max
  <2>6. n <= p /\ p \in Nat
    BY <2>4, <2>5
  <2> DEFINE m == max * q
  <2>7. (n + 1) * max <= m /\ m <= n + max - 1 /\ m \in Nat
    BY <1>3, <2>2, <2>5
  <2>8. (n + 1) * max = p + max
    BY <2>3
  <2> HIDE DEF p, m
  <2>9. p + max <= m
    BY <2>7, <2>8
  <2> QED BY <2>6, <2>7, <2>9
<1>6. CeilDiv(n, max) = q
  BY DEF CeilDiv, q
<1> QED BY <1>1, <1>3, <1>4, <1>5, <1>6

\* Every part of a run is as good as the run.
Divisible(ok) ==
  \A r \in ok : \A x, y \in Nat :
    r.start <= x /\ x <= y /\ y <= r.end => Chunk(x, y, r.tables, r.ocr) \in ok

\* The runs of no more than max pages.
AtMost(ok, max) == {r \in ok : PagesIn(r) <= max}

\* The pieces of a run hold its pages, and none has more than max (_split_to_max).
LEMMA PiecesTile ==
  ASSUME NEW ok, ok \subseteq Runs, Divisible(ok), NEW r \in ok, r.start <= r.end,
         NEW max \in Nat \ {0}
  PROVE  Tiles(Pieces(r, max), AtMost(ok, max), r.start, r.end + 1)
<1> DEFINE n == PagesIn(r)
<1> DEFINE m == CeilDiv(n, max)
<1> DEFINE base == n \div m
<1> DEFINE extra == n % m
<1> DEFINE first(k) == r.start + (k - 1) * base + (IF k - 1 < extra THEN k - 1 ELSE extra)
<1>1. r \in Runs /\ n \in Nat \ {0} /\ r.start \in Nat /\ r.end \in Nat /\ r.start + n = r.end + 1
  BY DEF PagesIn, Runs
<1>2. Pieces(r, max) = [k \in 1 .. m |-> Chunk(first(k), first(k + 1) - 1, r.tables, r.ocr)]
  BY DEF Pieces
<1> HIDE DEF n
<1>3. m \in 1 .. n /\ n <= max * m
  BY <1>1, CeilDivIs
<1> HIDE DEF m
<1>4. base \in Nat /\ extra \in Nat /\ extra < m /\ n = m * base + extra
  BY <1>1, <1>3
<1> HIDE DEF base, extra
<1>5. base # 0
  <2>1. SUFFICES ASSUME base = 0 PROVE FALSE
    OBVIOUS
  <2>2. m * base = 0
    BY <1>3, <2>1
  <2> QED BY <1>1, <1>3, <1>4, <2>2
<1>6. base <= max /\ (extra # 0 => base + 1 <= max)
  <2>1. ASSUME max <= base PROVE max = base /\ extra = 0
    <3>1. max * m <= base * m /\ base * m = m * base /\ max * m \in Nat /\ m * base \in Nat
      BY <1>3, <1>4, <2>1, ProductGrows
    <3>2. extra = 0
      BY <1>3, <1>4, <3>1
    <3>3. max # base => FALSE
      <4>1. SUFFICES ASSUME max + 1 <= base PROVE FALSE
        BY <1>4, <2>1
      <4>2. (max + 1) * m <= base * m
        BY <1>3, <1>4, <4>1, ProductGrows
      <4>3. (max + 1) * m = max * m + m
        BY <1>3
      <4> QED BY <1>3, <1>4, <3>1, <4>2, <4>3
    <3> QED BY <3>2, <3>3
  <2> QED BY <1>4, <2>1
<1>7. ASSUME NEW k \in Nat, k <= m
      PROVE  first(k + 1) = r.start + k * base + (IF k < extra THEN k ELSE extra)
  BY <1>7
<1>8. ASSUME NEW k \in 0 .. m - 1
      PROVE  /\ first(k + 1) \in Nat
             /\ first(k + 2) = first(k + 1) + base + (IF k < extra THEN 1 ELSE 0)
  <2>1. (k + 1) * base = k * base + base /\ k * base \in Nat
    BY <1>4
  <2>2. first(k + 1) = r.start + k * base + (IF k < extra THEN k ELSE extra)
    BY <1>3, <1>7
  <2>3. first((k + 1) + 1) = r.start + (k + 1) * base + (IF k + 1 < extra THEN k + 1 ELSE extra)
    BY <1>3, <1>7
  <2>4. (k + 1) + 1 = k + 2
    OBVIOUS
  <2> HIDE DEF first
  <2>5. first(k + 2) = r.start + (k + 1) * base + (IF k + 1 < extra THEN k + 1 ELSE extra)
    BY <2>3, <2>4
  <2> QED BY <1>1, <1>4, <2>1, <2>2, <2>5
<1>9. first(1) = r.start /\ first(m + 1) = r.end + 1
  <2>1. first(0 + 1) = r.start + 0 * base + (IF 0 < extra THEN 0 ELSE extra)
    BY <1>3, <1>7
  <2>2. 0 * base = 0 /\ 0 + 1 = 1
    BY <1>4
  <2>3. first(m + 1) = r.start + m * base + (IF m < extra THEN m ELSE extra)
    BY <1>3, <1>7
  <2>4. m * base \in Nat
    BY <1>3, <1>4
  <2> HIDE DEF first
  <2>5. first(1) = r.start
    BY <1>1, <1>4, <2>1, <2>2
  <2>6. first(m + 1) = r.end + 1
    BY <1>1, <1>3, <1>4, <2>3, <2>4
  <2> QED BY <2>5, <2>6
<1> HIDE DEF first
<1> DEFINE piece == [k \in 1 .. m |-> Chunk(first(k), first(k + 1) - 1, r.tables, r.ocr)]
<1> DEFINE small == AtMost(ok, max)
\* Where a piece begins and ends.
<1>10. ASSUME NEW k \in 1 .. m
       PROVE  /\ first(k) \in Nat /\ first(k + 1) \in Nat
              /\ first(k) < first(k + 1) /\ first(k + 1) - first(k) <= max
  <2>1. k - 1 \in 0 .. m - 1 /\ (k - 1) + 1 = k /\ (k - 1) + 2 = k + 1
    BY <1>3
  <2>2. first(k) \in Nat /\ first(k + 1) = first(k) + base + (IF k - 1 < extra THEN 1 ELSE 0)
    BY <1>8, <2>1
  <2>3. k - 1 < extra => extra # 0
    BY <1>4
  <2> QED BY <1>4, <1>5, <1>6, <2>2, <2>3
<1> DEFINE good == {k \in Nat : k \in 1 .. m => r.start <= first(k)}
<1>11. m \in good /\ \A k \in 1 .. m : k \in good
  <2>1. 0 \in good
    OBVIOUS
  <2>2. ASSUME NEW k \in Nat, k \in good PROVE k + 1 \in good
    <3> SUFFICES ASSUME k + 1 \in 1 .. m PROVE r.start <= first(k + 1)
      OBVIOUS
    <3>1. CASE k = 0
      BY <1>1, <1>9, <3>1
    <3>2. CASE k # 0
      <4>1. k \in 1 .. m
        BY <1>3, <3>2
      <4> QED BY <1>1, <1>10, <2>2, <4>1
    <3> QED BY <3>1, <3>2
  <2> HIDE DEF good
  <2>3. \A k \in Nat : k \in good
    BY <2>1, <2>2, Induct
  <2> QED BY <1>3, <2>3
<1> DEFINE ends == {k \in Nat : k < m => first(m - k + 1) <= r.end + 1}
<1>12. \A k \in 1 .. m : first(k + 1) <= r.end + 1
  <2>1. 0 \in ends
    <3>1. m - 0 + 1 = m + 1
      BY <1>3
    <3> QED BY <1>1, <1>9, <3>1
  <2>2. ASSUME NEW k \in Nat, k \in ends PROVE k + 1 \in ends
    <3> SUFFICES ASSUME k + 1 < m PROVE first(m - (k + 1) + 1) <= r.end + 1
      OBVIOUS
    <3>1. m - (k + 1) + 1 = m - k /\ m - k \in 1 .. m
      BY <1>3
    <3>2. first(m - k) < first(m - k + 1) /\ first(m - k) \in Nat /\ first(m - k + 1) \in Nat
      BY <1>10, <3>1
    <3>3. first(m - k + 1) <= r.end + 1
      BY <1>3, <2>2
    <3> QED BY <1>1, <3>1, <3>2, <3>3
  <2> HIDE DEF ends
  <2>3. \A k \in Nat : k \in ends
    BY <2>1, <2>2, Induct
  <2>4. ASSUME NEW k \in 1 .. m PROVE first(k + 1) <= r.end + 1
    <3>1. m - k \in Nat /\ m - k < m /\ m - (m - k) + 1 = k + 1
      BY <1>3
    <3>2. first(m - (m - k) + 1) <= r.end + 1
      BY <2>3, <3>1 DEF ends
    <3> QED BY <3>1, <3>2
  <2> QED BY <2>4
<1>13. ASSUME NEW k \in 1 .. m
       PROVE  piece[k] \in small /\ piece[k].start = first(k) /\ piece[k].end = first(k + 1) - 1
  <2> DEFINE x == first(k)
  <2> DEFINE y == first(k + 1) - 1
  <2>1. piece[k] = Chunk(x, y, r.tables, r.ocr)
    OBVIOUS
  <2>2. x \in Nat /\ y \in Nat /\ x <= y /\ y - x + 1 <= max
    BY <1>10
  <2>3. r.start <= x /\ y <= r.end
    BY <1>1, <1>10, <1>11, <1>12
  <2> HIDE DEF piece, x, y
  <2>4. piece[k] \in ok
    BY <2>1, <2>2, <2>3 DEF Divisible
  <2>5. piece[k].start = x /\ piece[k].end = y
    BY <2>1 DEF Chunk
  <2> QED BY <2>2, <2>4, <2>5 DEF AtMost, PagesIn, x, y
<1>14. Tiles(piece, small, r.start, r.end + 1)
  <2>1. piece \in Seq(small) /\ Len(piece) = m
    <3>1. piece = [k \in 1 .. m |-> piece[k]] /\ m \in Nat
      BY <1>3
    <3> HIDE DEF piece, small
    <3> QED BY <1>13, <3>1
  <2> HIDE DEF piece, small
  <2>2. ASSUME NEW k \in 1 .. m
        PROVE  piece[k].start = IF k = 1 THEN r.start ELSE piece[k - 1].end + 1
    <3>1. CASE k = 1
      BY <1>9, <1>13, <3>1
    <3>2. CASE k # 1
      <4>1. k - 1 \in 1 .. m /\ (k - 1) + 1 = k
        BY <1>3, <3>2
      <4>2. piece[k - 1].end = first(k) - 1 /\ piece[k].start = first(k) /\ first(k) \in Nat
        BY <1>10, <1>13, <4>1
      <4> QED BY <3>2, <4>2
    <3> QED BY <3>1, <3>2
  <2>3. r.end + 1 = piece[m].end + 1 /\ m # 0
    BY <1>1, <1>3, <1>9, <1>13
  <2> QED BY <2>1, <2>2, <2>3 DEF Tiles
<1> QED BY <1>2, <1>14

-----------------------------------------------------------------------------
(* Sequences cut into pieces.                                              *)

\* ss are the pieces of w that end at the places of e.
CutsOf(e, ss, w) ==
  /\ e \in [0 .. Len(ss) -> 0 .. Len(w)]
  /\ e[0] = 0
  /\ e[Len(ss)] = Len(w)
  /\ \A k \in 1 .. Len(ss) : e[k - 1] <= e[k] /\ ss[k] = SubSeq(w, e[k - 1] + 1, e[k])

\* A sequence up to a, and from there to b.
LEMMA TwoParts ==
  ASSUME NEW X, NEW w \in Seq(X), NEW a \in Nat, NEW b \in 0 .. Len(w), a <= b
  PROVE  SubSeq(w, 1, a) \o SubSeq(w, a + 1, b) = SubSeq(w, 1, b)
<1> DEFINE s == SubSeq(w, 1, a)
<1> DEFINE t == SubSeq(w, a + 1, b)
<1> DEFINE u == SubSeq(w, 1, b)
<1>0. Len(w) \in Nat
  OBVIOUS
<1>1. s \in Seq(X) /\ Len(s) = a /\ \A i \in 1 .. a : s[i] = w[i]
  <2>1. a <= Len(w) /\ 1 \in Nat
    BY <1>0
  <2> QED BY <1>0, <2>1
<1>2. t \in Seq(X) /\ Len(t) = b - a /\ \A i \in 1 .. b - a : t[i] = w[a + i]
  BY <1>0
<1>3. u \in Seq(X) /\ Len(u) = b /\ \A i \in 1 .. b : u[i] = w[i]
  BY <1>0
<1> HIDE DEF s, t, u
<1>4. s \o t \in Seq(X) /\ Len(s \o t) = b
  <2>1. s \in Seq(X) /\ t \in Seq(X)
    BY <1>1, <1>2
  <2>2. s \o t \in Seq(X) /\ Len(s \o t) = Len(s) + Len(t)
    BY <2>1
  <2>3. a + (b - a) = b
    BY <1>0
  <2> QED BY <1>1, <1>2, <2>2, <2>3
<1>5. \A i \in 1 .. b : (s \o t)[i] = IF i <= a THEN s[i] ELSE t[i - a]
  <2>1. \A i \in 1 .. Len(s) + Len(t) : (s \o t)[i] = IF i <= Len(s) THEN s[i] ELSE t[i - Len(s)]
    BY <1>1, <1>2
  <2>2. Len(s) + Len(t) = b
    BY <1>1, <1>2
  <2> QED BY <1>1, <2>1, <2>2
<1>6. ASSUME NEW i \in 1 .. b PROVE (s \o t)[i] = u[i]
  <2>1. CASE i <= a
    <3>1. i \in 1 .. a
      BY <2>1
    <3> QED BY <1>1, <1>3, <1>5, <2>1, <3>1
  <2>2. CASE ~(i <= a)
    <3>1. i - a \in 1 .. b - a /\ a + (i - a) = i
      BY <2>2
    <3>2. (s \o t)[i] = t[i - a]
      BY <1>5, <2>2
    <3> QED BY <1>2, <1>3, <3>1, <3>2
  <2> QED BY <2>1, <2>2
<1>7. s \o t = u
  <2>1. s \o t = [i \in 1 .. b |-> (s \o t)[i]]
    <3> DEFINE v == s \o t
    <3>1. v \in Seq(X) /\ Len(v) = b
      BY <1>4
    <3> HIDE DEF v
    <3>2. v = [i \in 1 .. b |-> v[i]]
      BY <3>1
    <3> QED BY <3>2 DEF v
  <2>2. u = [i \in 1 .. b |-> u[i]]
    BY <1>3
  <2>3. [i \in 1 .. b |-> (s \o t)[i]] = [i \in 1 .. b |-> u[i]]
    BY <1>6
  <2> QED BY <2>1, <2>2, <2>3
<1> QED BY <1>7 DEF s, t, u

\* The pieces of a sequence, joined, are the sequence.
LEMMA FlattenCut ==
  ASSUME NEW X, NEW ss \in Seq(Seq(X)), NEW w \in Seq(X), NEW e, CutsOf(e, ss, w)
  PROVE  FlattenSeq(ss) = w
<1> DEFINE n == Len(ss)
<1>1. n \in Nat /\ Len(w) \in Nat
  OBVIOUS
<1>2. PICK f : Concats(f, ss, X)
  BY FlattenIs
<1> DEFINE good == {k \in Nat : k <= n => f[k] = SubSeq(w, 1, e[k])}
<1>3. 0 \in good
  <2>1. f[0] = <<>> /\ e[0] = 0
    BY <1>2 DEF Concats, CutsOf
  <2>2. SubSeq(w, 1, 0) = <<>>
    OBVIOUS
  <2> QED BY <2>1, <2>2
<1>4. ASSUME NEW k \in Nat, k \in good PROVE k + 1 \in good
  <2> SUFFICES ASSUME k + 1 <= n PROVE f[k + 1] = SubSeq(w, 1, e[k + 1])
    OBVIOUS
  <2>1. k + 1 \in 1 .. n /\ (k + 1) - 1 = k /\ k \in 0 .. n
    BY <1>1
  <2>2. f[k] = SubSeq(w, 1, e[k])
    BY <1>4, <2>1
  <2>3. f[k + 1] = f[k] \o ss[k + 1]
    BY <1>2, <2>1 DEF Concats
  <2>4. e[k] <= e[k + 1] /\ ss[k + 1] = SubSeq(w, e[k] + 1, e[k + 1])
    BY <2>1 DEF CutsOf
  <2>5. e[k] \in Nat /\ e[k + 1] \in 0 .. Len(w)
    <3>1. e \in [0 .. n -> 0 .. Len(w)] /\ k + 1 \in 0 .. n
      BY <1>1, <2>1 DEF CutsOf
    <3> HIDE DEF n
    <3> QED BY <1>1, <2>1, <3>1
  <2> QED BY <2>2, <2>3, <2>4, <2>5, TwoParts
<1> HIDE DEF good
<1>5. n \in good
  BY <1>1, <1>3, <1>4, Induct
<1>6. FlattenSeq(ss) = SubSeq(w, 1, Len(w))
  BY <1>1, <1>2, <1>5 DEF good, Concats, CutsOf
<1> QED BY <1>6

-----------------------------------------------------------------------------
(* The chunks of a document.                                               *)

\* Splitting changes no page (page_class_chunks P1 and its page limit).
LEMMA SplitTiles ==
  ASSUME NEW ok, Sound(ok), Divisible(ok), NEW runs, NEW a, NEW b, Tiles(runs, ok, a, b),
         NEW max \in Nat \ {0}
  PROVE  Tiles(SplitToMax(runs, max), AtMost(ok, max), a, b)
<1> DEFINE n == Len(runs)
<1> DEFINE small == AtMost(ok, max)
<1> DEFINE ss == [i \in DOMAIN runs |-> Pieces(runs[i], max)]
<1>1. runs \in Seq(ok) /\ n \in Nat /\ DOMAIN runs = 1 .. n
  BY DEF Tiles
<1>2. ASSUME NEW i \in 1 .. n
      PROVE  /\ ss[i] \in Seq(small)
             /\ Tiles(ss[i], small, runs[i].start, runs[i].end + 1)
  <2>1. runs[i] \in ok /\ ss[i] = Pieces(runs[i], max)
    BY <1>1
  <2> HIDE DEF ss, small
  <2>2. Tiles(ss[i], small, runs[i].start, runs[i].end + 1)
    BY <2>1, PiecesTile DEF Sound, Mergeable, small
  <2> QED BY <2>2 DEF Tiles
<1>3. ss \in Seq(Seq(small)) /\ Len(ss) = n
  <2>1. ss = [i \in 1 .. n |-> ss[i]]
    BY <1>1
  <2> HIDE DEF ss, small
  <2> QED BY <1>1, <1>2, <2>1
<1>4. SplitToMax(runs, max) = FlattenSeq(ss)
  BY DEF SplitToMax
<1> HIDE DEF ss, small
<1>5. PICK f : Concats(f, ss, small)
  BY <1>3, FlattenIs
<1> DEFINE reached(k) == IF k = 0 THEN a ELSE runs[k].end + 1
<1> DEFINE good == {k \in Nat : k <= n => Tiles(f[k], small, a, reached(k))}
<1>6. 0 \in good
  <2>1. Tiles(f[0], small, a, a)
    BY <1>5, TilesNone DEF Concats
  <2> QED BY <2>1
<1>7. ASSUME NEW k \in Nat, k \in good PROVE k + 1 \in good
  <2> SUFFICES ASSUME k + 1 <= n PROVE Tiles(f[k + 1], small, a, reached(k + 1))
    OBVIOUS
  <2>1. k + 1 \in 1 .. n /\ (k + 1) - 1 = k
    BY <1>1
  <2>2. Tiles(f[k], small, a, reached(k))
    BY <1>1, <1>7, <2>1
  <2>3. f[k + 1] = f[k] \o ss[k + 1]
    BY <1>3, <1>5, <2>1 DEF Concats
  <2>4. runs[k + 1].start = reached(k)
    <3>1. runs[k + 1].start = IF k + 1 = 1 THEN a ELSE runs[(k + 1) - 1].end + 1
      BY <2>1 DEF Tiles
    <3> QED BY <2>1, <3>1
  <2>5. Tiles(ss[k + 1], small, reached(k), runs[k + 1].end + 1)
    BY <1>2, <2>1, <2>4
  <2>6. reached(k + 1) = runs[k + 1].end + 1
    OBVIOUS
  <2> HIDE DEF reached
  <2> QED BY <2>2, <2>3, <2>5, <2>6, TilesConcat
<1> HIDE DEF good
<1>8. n \in good
  BY <1>1, <1>6, <1>7, Induct
<1>9. b = reached(n)
  BY <1>1 DEF Tiles
<1> QED BY <1>1, <1>3, <1>4, <1>5, <1>8, <1>9 DEF good, Concats, small

\* Every page alone is a run of ok.
UnitsIn(ok, classes) ==
  \A i \in 1 .. Len(classes) :
    Chunk(i - 1, i - 1, NeedsTables(classes[i]), NeedsOcr(classes[i])) \in ok

\* The run-length code of the classes holds every page.
LEMMA RunLengthTiles ==
  ASSUME NEW ok, Mergeable(ok), NEW C, NEW classes \in Seq(C), UnitsIn(ok, classes)
  PROVE  Tiles(RunLength(classes), ok, 0, Len(classes))
<1> DEFINE n == Len(classes)
<1> DEFINE units == [i \in DOMAIN classes |->
                       Chunk(i - 1, i - 1, NeedsTables(classes[i]), NeedsOcr(classes[i]))]
<1>1. n \in Nat /\ DOMAIN classes = 1 .. n
  OBVIOUS
<1>2. \A i \in 1 .. n : units[i] \in ok /\ units[i].start = i - 1 /\ units[i].end = i - 1
  BY <1>1 DEF UnitsIn, Chunk
<1>3. units \in Seq(ok) /\ Len(units) = n
  <2>1. units = [i \in 1 .. n |-> units[i]]
    BY <1>1
  <2> HIDE DEF units, n
  <2> QED BY <1>1, <1>2, <2>1
<1> HIDE DEF units
<1>4. Tiles(units, ok, 0, n)
  <2> HIDE DEF n
  <2>1. ASSUME NEW i \in 1 .. n
        PROVE  units[i].start = IF i = 1 THEN 0 ELSE units[i - 1].end + 1
    <3>1. i # 1 => i - 1 \in 1 .. n /\ (i - 1) - 1 + 1 = i - 1
      BY <1>1
    <3> QED BY <1>2, <3>1
  <2>2. n # 0 => n \in 1 .. n /\ (n - 1) + 1 = n
    BY <1>1
  <2> QED BY <1>1, <1>2, <1>3, <2>1, <2>2 DEF Tiles
<1>5. RunLength(classes) = Coalesce(units)
  BY DEF RunLength, units
<1> QED BY <1>4, <1>5, CoalesceTiles

\* Chunks cut by the classes of the pages (page_class_chunks P1).
LEMMA PageClassChunksTile ==
  ASSUME NEW ok, Sound(ok), Divisible(ok), NEW C, NEW classes \in Seq(C), UnitsIn(ok, classes),
         NEW max \in Nat \ {0}, NEW min
  PROVE  Tiles(PageClassChunks(classes, max, min), AtMost(ok, max), 0, Len(classes))
<1>1. Tiles(RunLength(classes), ok, 0, Len(classes))
  BY RunLengthTiles DEF Sound
<1>2. Tiles(AbsorbShortRuns(RunLength(classes), Min({min, max})), ok, 0, Len(classes))
  BY <1>1, AbsorbTiles
<1> QED BY <1>2, SplitTiles DEF PageClassChunks
-----------------------------------------------------------------------------
(* The processes of a conversion.                                          *)

\* The places of the caller, of a thread, of a process.
Phases == {"planned", "splitting", "waiting", "draining", "failing", "merging", "returned",
           "raised"}
Threads == {"queued", "spawning", "polling", "deciding", "grace", "mute", "expired", "cancelling",
            "reaping", "fallback", "ok", "error", "cancelled", "dropped"}
Processes == {"none", "starting", "working", "reported", "exited", "crashed", "killed", "orphan"}
Texts == {None, "none", "docling", "layer"}
\* What process i may say.
Said(i) ==
  {<<"done">>, <<"failed">>, <<"bypass", Effective(request, chunks[i])>>,
   <<"bypass", NothingBypassed(request, chunks[i])>>}

\* The type of the conversion's state; the chunks are those of the request.
ConversionTypes ==
  /\ request \in Requests
  /\ chunks = ChunksOf(request)
  /\ Len(chunks) \in Nat \ {0}
  /\ All = 1 .. Len(chunks)
  /\ phase \in Phases
  /\ next \in 1 .. Len(chunks) + 1
  /\ thread \in [All -> Threads]
  /\ child \in [All -> Processes]
  /\ \A i \in All : mail[i] \in Seq(Said(i))
  /\ DOMAIN mail = All
  /\ late \subseteq All
  /\ DOMAIN record = All
  /\ text \in [All -> Texts]
  /\ up \in BOOLEAN
  /\ cancel \in BOOLEAN

\* What a thread's place says of its process and of the text it has.
Outcome(i) == \E k \in 1 .. Len(mail[i]) : mail[i][k][1] # "bypass"
\* The thread still listens to its process.
Listening(i) == thread[i] \in {"polling", "deciding", "grace"}

\* What the place of thread i says of its process, of its text and of its time.
ThreadInv(i) ==
  /\ thread[i] \in {"queued", "dropped", "spawning"} => child[i] = "none"
  /\ thread[i] \in {"queued", "dropped", "spawning", "polling", "deciding", "grace", "mute",
                    "expired", "cancelling", "fallback", "cancelled"} => text[i] = None
  /\ Listening(i) /\ child[i] \in {"reported", "exited"} => Outcome(i)
  /\ Listening(i) /\ up => child[i] \in Live \cup {"crashed", "exited"}
  /\ thread[i] = "grace" /\ up => Gone(i)
  /\ thread[i] = "mute" => child[i] = "crashed"
  /\ thread[i] \in {"expired", "fallback"} => i \in late
  /\ thread[i] = "reaping" => text[i] \in {"docling", "none"}
  /\ thread[i] \in {"ok", "error", "cancelled", "fallback"} => Gone(i)
  /\ thread[i] = "ok" => text[i] = "docling" \/ (text[i] = "layer" /\ i \in late)
  /\ thread[i] = "error" /\ text[i] = None => child[i] = "crashed" \/ i \in late
  /\ child[i] = Orphaned => ~up

\* What the caller's place says of the threads.
CallerInv ==
  /\ phase \in {"planned", "splitting"} => next = 1 /\ \A i \in All : thread[i] = "queued"
  /\ phase \in {"waiting", "merging"} => \A i \in 1 .. next - 1 : thread[i] = "ok"
  /\ phase = "waiting" => next <= Len(chunks)
  /\ phase = "merging" => next = Len(chunks) + 1
  /\ phase = "returned" => returned = Merged /\ \A i \in All : thread[i] = "ok"
  /\ phase \in {"failing", "raised"} => Busy = {}
  /\ phase \in {"returned", "raised"} => files = {} /\ up

\* The inductive invariant of a conversion.
ConversionInv ==
  /\ ConversionTypes
  /\ CallerInv
  /\ \A i \in All : ThreadInv(i)

\* What is merged depends on the chunks, the records and the texts alone.
LEMMA MergedSame ==
  ASSUME UNCHANGED <<request, chunks, record, text>>
  PROVE  Merged' = Merged
  BY DEF Merged, Reported, Found, All

\* Who is busy depends on the threads alone.
LEMMA BusySame ==
  ASSUME UNCHANGED <<chunks, thread>>
  PROVE  Busy' = Busy
  BY DEF Busy, All

\* The types hold when each variable keeps its own.
LEMMA TypesSame ==
  ASSUME ConversionTypes, UNCHANGED <<request, chunks>>,
         phase' \in Phases, next' \in 1 .. Len(chunks) + 1,
         thread' \in [All -> Threads], child' \in [All -> Processes],
         \A i \in All : mail'[i] \in Seq(Said(i)), DOMAIN mail' = All,
         late' \subseteq All, DOMAIN record' = All, text' \in [All -> Texts],
         up' \in BOOLEAN, cancel' \in BOOLEAN
  PROVE  ConversionTypes'
  BY DEF ConversionTypes, All, Said, Texts

\* What holds of a chunk nobody touched still holds.
LEMMA ThreadSame ==
  ASSUME NEW i,
         thread'[i] = thread[i], child'[i] = child[i], mail'[i] = mail[i], text'[i] = text[i],
         i \in late => i \in late', up' => up, ThreadInv(i)
  PROVE  ThreadInv(i)'
<1>1. Outcome(i)' <=> Outcome(i)
  BY DEF Outcome
<1> QED
  BY <1>1 DEF ThreadInv, Gone, Listening, Live, Orphaned

\* What the caller's place says still holds when no thread moved.
LEMMA CallerSame ==
  ASSUME CallerInv, UNCHANGED <<chunks, phase, next, files, returned, thread, request, record, text>>,
         phase \in {"returned", "raised"} => up'
  PROVE  CallerInv'
<1>1. Merged' = Merged /\ Busy' = Busy
  BY MergedSame, BusySame
<1> QED
  BY <1>1 DEF CallerInv, All

\* A thread of the pool does not upset the caller: it moves while the call goes on.
LEMMA CallerPool ==
  ASSUME ConversionInv, NEW i \in All, NEW t, t \in Threads, To(i, t),
         thread[i] \notin Resting \/ (thread[i] = "queued" /\ phase \in {"waiting", "draining"}),
         UNCHANGED callVars, UNCHANGED up
  PROVE  CallerInv'
<1> USE DEF ConversionInv, ConversionTypes
<1>1. \A j \in All : thread'[j] = IF j = i THEN t ELSE thread[j]
  BY DEF To, All
<1>2. thread[i] # "ok"
  BY DEF Resting
<1>3. phase \notin {"planned", "splitting", "returned", "failing", "raised", "merging"}
  <2>1. phase \notin {"planned", "splitting", "returned"}
    BY <1>2 DEF CallerInv, Resting
  <2>2. phase \notin {"failing", "raised"}
    BY DEF CallerInv, Busy
  <2>3. phase # "merging"
    <3>1. i \in 1 .. Len(chunks)
      BY DEF All
    <3> QED BY <1>2, <3>1 DEF CallerInv, Resting
  <2> QED BY <2>1, <2>2, <2>3
<1>4. phase = "waiting" => next <= Len(chunks) /\ \A j \in 1 .. next - 1 : thread'[j] = "ok"
  <2> SUFFICES ASSUME phase = "waiting", NEW j \in 1 .. next - 1
               PROVE  next <= Len(chunks) /\ thread'[j] = "ok"
    BY DEF CallerInv
  <2>1. next <= Len(chunks) /\ thread[j] = "ok"
    BY DEF CallerInv
  <2>2. j \in All
    BY <2>1 DEF All
  <2> QED BY <1>1, <1>2, <2>1, <2>2
<1> QED BY <1>3, <1>4 DEF CallerInv

\* A thread moves on, and only its own chunk changes.
LEMMA OneThread ==
  ASSUME ConversionInv, NEW i \in All, NEW t, t \in Threads, To(i, t),
         thread[i] \notin Resting \/ (thread[i] = "queued" /\ phase \in {"waiting", "draining"}),
         UNCHANGED callVars, UNCHANGED <<cancel, up, late>>,
         \A j \in All \ {i} :
           child'[j] = child[j] /\ mail'[j] = mail[j] /\ text'[j] = text[j],
         child' \in [All -> Processes], mail'[i] \in Seq(Said(i)), DOMAIN mail' = All,
         text' \in [All -> Texts], DOMAIN record' = All, ThreadInv(i)'
  PROVE  ConversionInv'
<1>1. All' = All
  BY DEF All
<1>2. CallerInv'
  BY CallerPool
<1>3. thread' \in [All -> Threads]
  BY DEF To, ConversionInv, ConversionTypes
<1>4. ConversionTypes'
  <2>1. \A j \in All : mail'[j] \in Seq(Said(j))
    BY DEF ConversionInv, ConversionTypes
  <2> QED BY <1>3, <2>1, TypesSame DEF ConversionInv, ConversionTypes
<1>5. ASSUME NEW j \in All, j # i PROVE ThreadInv(j)'
  <2>1. thread'[j] = thread[j]
    BY <1>5 DEF To, ConversionInv, ConversionTypes
  <2> QED BY <1>5, <2>1, ThreadSame DEF ConversionInv
<1> QED BY <1>1, <1>2, <1>4, <1>5 DEF ConversionInv

\* What a thread alone changes: its place.
LEMMA OnlyPlace ==
  ASSUME ConversionInv, NEW i \in All, NEW t, t \in Threads, To(i, t),
         thread[i] \notin Resting \/ (thread[i] = "queued" /\ phase \in {"waiting", "draining"}),
         UNCHANGED callVars, UNCHANGED envVars, UNCHANGED <<child, mail, late, record, text>>,
         ThreadInv(i)'
  PROVE  ConversionInv'
<1>1. child' \in [All -> Processes] /\ text' \in [All -> Texts] /\ DOMAIN record' = All
      /\ mail'[i] \in Seq(Said(i)) /\ DOMAIN mail' = All
  BY DEF ConversionInv, ConversionTypes
<1> QED BY <1>1, OneThread

\* Where a thread is once it has moved.
LEMMA Now ==
  ASSUME NEW i \in All, NEW t, To(i, t), ConversionInv
  PROVE  thread'[i] = t /\ i \in All /\ thread[i] \in Threads
  BY DEF To, ConversionInv, ConversionTypes

LEMMA TakeKeeps ==
  ASSUME ConversionInv, NEW i \in All, Take(i)
  PROVE  ConversionInv'
<1> DEFINE t == IF cancel THEN "cancelled" ELSE "spawning"
<1>1. To(i, t) /\ t \in Threads /\ thread[i] = "queued" /\ thread'[i] = t
  BY Now DEF Take, Turn, Threads
<1>2. ThreadInv(i)'
  BY <1>1 DEF Take, Turn, ConversionInv, ThreadInv, Gone, Live, Listening, Orphaned
<1> HIDE DEF t
<1> QED BY <1>1, <1>2, OnlyPlace DEF Take, Turn

LEMMA SpawnChildKeeps ==
  ASSUME ConversionInv, NEW i \in All, SpawnChild(i)
  PROVE  ConversionInv'
<1>1. thread[i] = "spawning" /\ thread'[i] = "polling" /\ child'[i] = "starting"
      /\ child' \in [All -> Processes] /\ \A j \in All \ {i} : child'[j] = child[j]
  BY Now DEF SpawnChild, Turn, ConversionInv, ConversionTypes, Processes
<1>2. ThreadInv(i)'
  BY <1>1 DEF SpawnChild, Turn, ConversionInv, ThreadInv, Gone, Live, Listening, Orphaned
<1>3. mail'[i] \in Seq(Said(i)) /\ DOMAIN mail' = All /\ text' \in [All -> Texts]
      /\ DOMAIN record' = All
  BY DEF SpawnChild, ConversionInv, ConversionTypes
<1>4. To(i, "polling") /\ "polling" \in Threads /\ thread[i] \notin Resting
  BY <1>1 DEF SpawnChild, Threads, Resting
<1> QED BY <1>1, <1>2, <1>3, <1>4, OneThread DEF SpawnChild, Turn

LEMMA ReceiveKeeps ==
  ASSUME ConversionInv, NEW i \in All, NEW from, from \in {"polling", "grace"}, Receive(i, from)
  PROVE  ConversionInv'
<1> DEFINE said == Head(mail[i])
<1>1. mail[i] \in Seq(Said(i)) /\ mail[i] # <<>> /\ thread[i] = from /\ up
      /\ mail' = [mail EXCEPT ![i] = Tail(mail[i])] /\ UNCHANGED <<child, late>>
  BY DEF Receive, Turn, ConversionInv, ConversionTypes
<1>2. said = mail[i][1] /\ Tail(mail[i]) \in Seq(Said(i))
      /\ \A k \in 1 .. Len(mail[i]) : k # 1 =>
           k - 1 \in 1 .. Len(Tail(mail[i])) /\ Tail(mail[i])[k - 1] = mail[i][k]
  BY <1>1
<1>3. mail'[i] = Tail(mail[i]) /\ DOMAIN mail' = All /\ \A j \in All \ {i} : mail'[j] = mail[j]
  BY <1>1 DEF ConversionInv, ConversionTypes
<1>4. CASE said[1] = "bypass"
  <2>1. UNCHANGED <<thread, text>> /\ DOMAIN record' = All
    BY <1>4 DEF Receive, ConversionInv, ConversionTypes
  <2>2. ASSUME Outcome(i) PROVE Outcome(i)'
    <3>1. PICK k \in 1 .. Len(mail[i]) : mail[i][k][1] # "bypass"
      BY <2>2 DEF Outcome
    <3>2. k # 1
      BY <1>2, <1>4, <3>1
    <3>3. k - 1 \in 1 .. Len(mail'[i]) /\ mail'[i][k - 1][1] # "bypass"
      BY <1>2, <1>3, <3>1, <3>2
    <3> QED BY <3>3 DEF Outcome
  <2>3. ThreadInv(i)'
    BY <1>1, <2>1, <2>2 DEF Receive, Turn, ConversionInv, ThreadInv, Gone, Live, Listening, Orphaned
  <2>4. To(i, from)
    BY <1>1, <2>1 DEF To, ConversionInv, ConversionTypes
  <2>5. thread[i] \notin Resting /\ from \in Threads
    BY <1>1 DEF Resting, Threads
  <2>6. child' \in [All -> Processes] /\ text' \in [All -> Texts]
    BY <1>1, <2>1 DEF ConversionInv, ConversionTypes
  <2> QED
    BY <1>1, <1>2, <1>3, <2>1, <2>3, <2>4, <2>5, <2>6, OneThread DEF Receive, Turn
<1>5. CASE said[1] # "bypass"
  <2>1. text' = [text EXCEPT ![i] = IF said[1] = "done" THEN "docling" ELSE "none"]
        /\ To(i, "reaping") /\ UNCHANGED record
    BY <1>5 DEF Receive
  <2>2. text' \in [All -> Texts] /\ text'[i] \in {"docling", "none"}
        /\ \A j \in All \ {i} : text'[j] = text[j]
    BY <2>1 DEF ConversionInv, ConversionTypes, Texts
  <2>3. thread'[i] = "reaping"
    BY <2>1, Now
  <2>4. ThreadInv(i)'
    BY <1>1, <2>2, <2>3 DEF Receive, Turn, ConversionInv, ThreadInv, Gone, Live, Listening, Orphaned
  <2>5. thread[i] \notin Resting /\ "reaping" \in Threads
    BY <1>1 DEF Resting, Threads
  <2>6. child' \in [All -> Processes] /\ DOMAIN record' = All
    BY <1>1, <2>1 DEF ConversionInv, ConversionTypes
  <2> QED
    BY <1>1, <1>2, <1>3, <2>1, <2>2, <2>4, <2>5, <2>6, OneThread DEF Receive, Turn
<1> QED BY <1>4, <1>5

LEMMA SeesNothingKeeps ==
  ASSUME ConversionInv, NEW i \in All, SeesNothing(i)
  PROVE  ConversionInv'
<1>1. thread[i] = "polling" /\ thread'[i] = "deciding" /\ To(i, "deciding")
  BY Now DEF SeesNothing, Turn
<1>2. Outcome(i)' <=> Outcome(i)
  BY DEF SeesNothing, Outcome
<1>3. ThreadInv(i)'
  BY <1>1, <1>2 DEF SeesNothing, Turn, ConversionInv, ThreadInv, Gone, Live, Listening, Orphaned
<1>4. "deciding" \in Threads /\ thread[i] \notin Resting
  BY <1>1 DEF Threads, Resting
<1> QED BY <1>1, <1>3, <1>4, OnlyPlace DEF SeesNothing, Turn

LEMMA DecideKeeps ==
  ASSUME ConversionInv, NEW i \in All, Decide(i)
  PROVE  ConversionInv'
<1> DEFINE t == IF cancel THEN "cancelling" ELSE IF i \in late THEN "expired"
                ELSE IF Gone(i) THEN "grace" ELSE "polling"
<1>1. thread[i] = "deciding" /\ thread'[i] = t /\ To(i, t) /\ t \in Threads
  BY Now DEF Decide, Turn, Threads
<1>2. Outcome(i)' <=> Outcome(i)
  BY DEF Decide, Outcome
<1>3. ThreadInv(i)'
  BY <1>1, <1>2 DEF Decide, Turn, ConversionInv, ThreadInv, Gone, Live, Listening, Orphaned
<1>4. thread[i] \notin Resting
  BY <1>1 DEF Resting
<1> HIDE DEF t
<1> QED BY <1>1, <1>3, <1>4, OnlyPlace DEF Decide, Turn

\* A process that reported has its outcome in the queue: one that is gone and said nothing
\* crashed.
LEMMA GraceEndsKeeps ==
  ASSUME ConversionInv, NEW i \in All, GraceEnds(i)
  PROVE  ConversionInv'
<1>1. thread[i] = "grace" /\ thread'[i] = "mute" /\ To(i, "mute") /\ mail[i] = <<>> /\ up
  BY Now DEF GraceEnds, Turn
<1>2. ~Outcome(i)
  BY <1>1 DEF Outcome
<1>3. child[i] = "crashed"
  BY <1>1, <1>2 DEF ConversionInv, ThreadInv, Gone, Live, Listening
<1>4. ThreadInv(i)'
  BY <1>1, <1>3 DEF GraceEnds, Turn, ConversionInv, ThreadInv, Gone, Live, Listening, Orphaned
<1>5. "mute" \in Threads /\ thread[i] \notin Resting
  BY <1>1 DEF Threads, Resting
<1> QED BY <1>1, <1>4, <1>5, OnlyPlace DEF GraceEnds, Turn

\* The process is stopped, if it has not gone, and only its chunk changes.
LEMMA Stopped ==
  ASSUME ConversionInv, NEW i \in All,
         child' = [child EXCEPT ![i] = IF Gone(i) THEN child[i] ELSE "killed"],
         UNCHANGED <<mail, record, text>>
  PROVE  /\ child' \in [All -> Processes] /\ Gone(i)'
         /\ child'[i] = IF Gone(i) THEN child[i] ELSE "killed"
         /\ \A j \in All \ {i} : child'[j] = child[j]
         /\ mail'[i] \in Seq(Said(i)) /\ DOMAIN mail' = All
         /\ text' \in [All -> Texts] /\ DOMAIN record' = All
  BY DEF ConversionInv, ConversionTypes, Processes, Gone, Live

LEMMA StopKeeps ==
  ASSUME ConversionInv, NEW i \in All, Stop(i)
  PROVE  ConversionInv'
<1>1. PICK why \in {"cancelling", "expired", "mute"} :
        /\ Turn(i, why)
        /\ To(i, IF why = "cancelling" THEN "cancelled"
                 ELSE IF why = "expired" /\ ~Gone(i)
                 THEN IF Direct(request) THEN "error" ELSE "fallback"
                 ELSE "error")
  BY DEF Stop
<1> DEFINE t == IF why = "cancelling" THEN "cancelled"
                ELSE IF why = "expired" /\ ~Gone(i)
                THEN IF Direct(request) THEN "error" ELSE "fallback"
                ELSE "error"
<1>2. thread[i] = why /\ thread'[i] = t /\ To(i, t) /\ t \in Threads
      /\ t \in {"cancelled", "error", "fallback"}
  BY <1>1, Now DEF Turn, Threads
<1>3. child' = [child EXCEPT ![i] = IF Gone(i) THEN child[i] ELSE "killed"]
      /\ UNCHANGED <<mail, late, record, text>> /\ UNCHANGED callVars /\ UNCHANGED envVars /\ up
  BY <1>1 DEF Stop, Turn
<1>4. why = "mute" => child[i] = "crashed" /\ Gone(i)
  BY <1>2 DEF ConversionInv, ThreadInv, Gone, Live
<1>5. why = "expired" => i \in late
  BY <1>2 DEF ConversionInv, ThreadInv
<1>6. text[i] = None /\ t = "fallback" => why = "expired"
  BY <1>2 DEF ConversionInv, ThreadInv
<1>7. text[i] = None
  BY <1>2 DEF ConversionInv, ThreadInv
<1>8. child[i] = Orphaned => ~up
  BY DEF ConversionInv, ThreadInv
<1>9. ThreadInv(i)'
  <2>1. Gone(i)' /\ child'[i] = IF Gone(i) THEN child[i] ELSE "killed"
    BY <1>3, Stopped
  <2>2. t = "error" => child'[i] = "crashed" \/ i \in late
    BY <1>2, <1>4, <1>5, <2>1
  <2>3. t = "fallback" => i \in late
    BY <1>5, <1>6, <1>7
  <2>4. child'[i] # Orphaned
    BY <1>3, <1>8, <2>1 DEF Orphaned
  <2> HIDE DEF t
  <2> QED BY <1>2, <1>3, <1>7, <2>1, <2>2, <2>3, <2>4 DEF ThreadInv, Listening
<1>10. thread[i] \notin Resting
  BY <1>2 DEF Resting
<1> HIDE DEF t
<1> QED BY <1>2, <1>3, <1>9, <1>10, Stopped, OneThread

LEMMA ReapKeeps ==
  ASSUME ConversionInv, NEW i \in All, Reap(i)
  PROVE  ConversionInv'
<1> DEFINE t == IF text[i] = "docling" THEN "ok" ELSE "error"
<1>1. thread[i] = "reaping" /\ thread'[i] = t /\ To(i, t) /\ t \in Threads /\ t \in {"ok", "error"}
  BY Now DEF Reap, Turn, Threads
<1>2. child' = [child EXCEPT ![i] = IF Gone(i) THEN child[i] ELSE "killed"]
      /\ UNCHANGED <<mail, late, record, text>> /\ UNCHANGED callVars /\ UNCHANGED envVars /\ up
  BY DEF Reap, Turn
<1>3. text[i] \in {"docling", "none"} /\ text[i] # None
  BY <1>1, ConversionAssumption DEF NoneIsNothing, ConversionInv, ThreadInv
<1>4. child[i] # Orphaned
  BY <1>2 DEF ConversionInv, ThreadInv
<1>5. ThreadInv(i)'
  <2>1. Gone(i)' /\ child'[i] # Orphaned
    BY <1>2, <1>4, Stopped DEF Orphaned
  <2> QED BY <1>1, <1>2, <1>3, <2>1 DEF ThreadInv, Listening
<1>6. thread[i] \notin Resting
  BY <1>1 DEF Resting
<1> HIDE DEF t
<1> QED BY <1>1, <1>2, <1>5, <1>6, Stopped, OneThread

LEMMA TextLayerKeeps ==
  ASSUME ConversionInv, NEW i \in All, TextLayer(i)
  PROVE  ConversionInv'
<1>1. thread[i] = "fallback" /\ up /\ thread[i] \notin Resting
      /\ UNCHANGED callVars /\ UNCHANGED <<child, mail, late, record, cancel, up>>
  BY DEF TextLayer, Resting
<1>2. i \in late /\ Gone(i) /\ Gone(i)' /\ child'[i] # Orphaned /\ text[i] = None
  BY <1>1 DEF ConversionInv, ThreadInv, Gone, Live
<1>3. child' \in [All -> Processes] /\ DOMAIN record' = All
      /\ mail'[i] \in Seq(Said(i)) /\ DOMAIN mail' = All
  BY <1>1 DEF ConversionInv, ConversionTypes
<1>4. CASE To(i, "ok") /\ text' = [text EXCEPT ![i] = "layer"]
  <2>1. thread'[i] = "ok"
    BY <1>4, Now
  <2>2. text' \in [All -> Texts] /\ text'[i] = "layer" /\ \A j \in All \ {i} : text'[j] = text[j]
    BY <1>4 DEF ConversionInv, ConversionTypes, Texts
  <2>3. ThreadInv(i)'
    BY <1>1, <1>2, <2>1, <2>2 DEF ThreadInv, Listening
  <2>4. "ok" \in Threads
    BY DEF Threads
  <2> QED BY <1>1, <1>3, <1>4, <2>2, <2>3, <2>4, OneThread
<1>5. CASE To(i, "error") /\ UNCHANGED text
  <2>1. thread'[i] = "error"
    BY <1>5, Now
  <2>2. text' \in [All -> Texts]
    BY <1>5 DEF ConversionInv, ConversionTypes
  <2>3. ThreadInv(i)'
    BY <1>1, <1>2, <1>5, <2>1 DEF ThreadInv, Listening
  <2>4. "error" \in Threads
    BY DEF Threads
  <2> QED BY <1>1, <1>3, <1>5, <2>2, <2>3, <2>4, OneThread
<1> QED BY <1>4, <1>5 DEF TextLayer

\* Whatever a thread of the pool does.
LEMMA PoolKeeps ==
  ASSUME ConversionInv, NEW i \in All, Pool(i)
  PROVE  ConversionInv'
  BY TakeKeeps, SpawnChildKeeps, ReceiveKeeps, SeesNothingKeeps, DecideKeeps, GraceEndsKeeps,
     StopKeeps, ReapKeeps, TextLayerKeeps
  DEF Pool

\* A process moves on, and only its own queue grows.
LEMMA OneChild ==
  ASSUME ConversionInv, NEW i \in All, NEW s, s \in Processes,
         child' = [child EXCEPT ![i] = s],
         UNCHANGED callVars, UNCHANGED <<thread, late, record, text, cancel, up>>,
         mail' = mail \/ (\E said \in Said(i) : mail' = [mail EXCEPT ![i] = Append(@, said)]),
         ThreadInv(i)'
  PROVE  ConversionInv'
<1>1. All' = All
  BY DEF All
<1>2. child' \in [All -> Processes] /\ \A j \in All : child'[j] = IF j = i THEN s ELSE child[j]
  BY DEF ConversionInv, ConversionTypes
<1>3. DOMAIN mail' = All /\ \A j \in All : mail'[j] \in Seq(Said(j)) /\ (j # i => mail'[j] = mail[j])
  <2>1. DOMAIN mail = All /\ \A j \in All : mail[j] \in Seq(Said(j))
    BY DEF ConversionInv, ConversionTypes
  <2>2. CASE mail' = mail
    BY <2>1, <2>2
  <2>3. CASE \E said \in Said(i) : mail' = [mail EXCEPT ![i] = Append(@, said)]
    <3>1. PICK said \in Said(i) : mail' = [mail EXCEPT ![i] = Append(@, said)]
      BY <2>3
    <3>2. Append(mail[i], said) \in Seq(Said(i))
      BY <2>1
    <3> QED BY <2>1, <3>1, <3>2
  <2> QED BY <2>2, <2>3
<1>4. ConversionTypes'
  BY <1>2, <1>3, TypesSame DEF ConversionInv, ConversionTypes
<1>5. CallerInv'
  BY CallerSame DEF ConversionInv, CallerInv
<1>6. ASSUME NEW j \in All, j # i PROVE ThreadInv(j)'
  BY <1>2, <1>3, <1>6, ThreadSame DEF ConversionInv
<1> QED BY <1>1, <1>4, <1>5, <1>6 DEF ConversionInv

\* What is in the queue stays in it.
LEMMA OutcomeStays ==
  ASSUME ConversionInv, NEW i \in All, NEW said, said \in Said(i),
         mail' = [mail EXCEPT ![i] = Append(@, said)]
  PROVE  /\ Outcome(i) => Outcome(i)'
         /\ said[1] # "bypass" => Outcome(i)'
<1>1. mail[i] \in Seq(Said(i)) /\ mail'[i] = Append(mail[i], said)
  BY DEF ConversionInv, ConversionTypes
<1>2. /\ Len(mail'[i]) = Len(mail[i]) + 1 /\ mail'[i][Len(mail'[i])] = said
      /\ Len(mail[i]) \in Nat
      /\ \A k \in 1 .. Len(mail[i]) : k \in 1 .. Len(mail'[i]) /\ mail'[i][k] = mail[i][k]
  BY <1>1
<1>3. ASSUME Outcome(i) PROVE Outcome(i)'
  <2>1. PICK k \in 1 .. Len(mail[i]) : mail[i][k][1] # "bypass"
    BY <1>3 DEF Outcome
  <2>2. k \in 1 .. Len(mail'[i]) /\ mail'[i][k][1] # "bypass"
    BY <1>2, <2>1
  <2> QED BY <2>2 DEF Outcome
<1>4. ASSUME said[1] # "bypass" PROVE Outcome(i)'
  <2>1. Len(mail'[i]) \in 1 .. Len(mail'[i]) /\ mail'[i][Len(mail'[i])][1] # "bypass"
    BY <1>2, <1>4
  <2> QED BY <2>1 DEF Outcome
<1> QED BY <1>3, <1>4

LEMMA BootKeeps ==
  ASSUME ConversionInv, NEW i \in All, Boot(i)
  PROVE  ConversionInv'
<1> DEFINE s == IF up THEN "working" ELSE Orphaned
<1>1. /\ child[i] = "starting" /\ child' = [child EXCEPT ![i] = s] /\ s \in Processes
      /\ UNCHANGED callVars /\ UNCHANGED <<thread, late, record, text, cancel, up>>
  BY DEF Boot, Process, Processes, Orphaned
<1>2. \E said \in Said(i) : mail' = [mail EXCEPT ![i] = Append(@, said)]
  BY DEF Boot, Said
<1>3. child'[i] = s
  BY <1>1 DEF ConversionInv, ConversionTypes
<1>4. ThreadInv(i)'
  BY <1>1, <1>3 DEF ConversionInv, ThreadInv, Gone, Live, Listening, Orphaned
<1> HIDE DEF s
<1> QED BY <1>1, <1>2, <1>4, OneChild

LEMMA FinishKeeps ==
  ASSUME ConversionInv, NEW i \in All, Finish(i)
  PROVE  ConversionInv'
<1>1. /\ child[i] = "working" /\ child' = [child EXCEPT ![i] = "reported"]
      /\ UNCHANGED callVars /\ UNCHANGED <<thread, late, record, text, cancel, up>>
      /\ "reported" \in Processes
  BY DEF Finish, Process, Processes
<1>2. PICK said \in Said(i) : /\ mail' = [mail EXCEPT ![i] = Append(@, said)]
                             /\ said \in {<<"done">>, <<"failed">>}
  BY DEF Finish, Said
<1>3. child'[i] = "reported"
  BY <1>1 DEF ConversionInv, ConversionTypes
<1>4. Outcome(i)'
  <2>1. said[1] # "bypass"
    BY <1>2
  <2> QED BY <1>2, <2>1, OutcomeStays
<1>5. ThreadInv(i)'
  BY <1>1, <1>3, <1>4 DEF ConversionInv, ThreadInv, Gone, Live, Listening, Orphaned
<1> QED BY <1>1, <1>2, <1>5, OneChild

LEMMA ExitChildKeeps ==
  ASSUME ConversionInv, NEW i \in All, ExitChild(i)
  PROVE  ConversionInv'
<1>1. /\ child[i] = "reported" /\ child' = [child EXCEPT ![i] = "exited"] /\ mail' = mail
      /\ UNCHANGED callVars /\ UNCHANGED <<thread, late, record, text, cancel, up>>
      /\ "exited" \in Processes
  BY DEF ExitChild, Process, Processes
<1>2. child'[i] = "exited" /\ (Outcome(i)' <=> Outcome(i))
  BY <1>1 DEF ConversionInv, ConversionTypes, Outcome
<1>3. ThreadInv(i)'
  BY <1>1, <1>2 DEF ConversionInv, ThreadInv, Gone, Live, Listening, Orphaned
<1> QED BY <1>1, <1>3, OneChild

LEMMA CrashKeeps ==
  ASSUME ConversionInv, NEW i \in All, Crash(i)
  PROVE  ConversionInv'
<1>1. /\ child[i] \in {"starting", "working"} /\ child' = [child EXCEPT ![i] = "crashed"]
      /\ UNCHANGED callVars /\ UNCHANGED <<thread, late, record, text, cancel, up>>
      /\ mail' = mail /\ "crashed" \in Processes
  BY DEF Crash, Process, Processes
<1>2. child'[i] = "crashed"
  BY <1>1 DEF ConversionInv, ConversionTypes
<1>3. ThreadInv(i)'
  BY <1>1, <1>2 DEF ConversionInv, ThreadInv, Gone, Live, Listening, Orphaned
<1> QED BY <1>1, <1>3, OneChild

LEMMA ParentDeathKeeps ==
  ASSUME ConversionInv, NEW i \in All, ParentDeath(i)
  PROVE  ConversionInv'
<1>1. /\ child[i] \in {"working", "reported"} /\ child' = [child EXCEPT ![i] = "killed"]
      /\ UNCHANGED callVars /\ UNCHANGED <<thread, late, record, text, cancel, up>>
      /\ mail' = mail /\ "killed" \in Processes /\ ~up
  BY DEF ParentDeath, Process, Processes
<1>2. child'[i] = "killed"
  BY <1>1 DEF ConversionInv, ConversionTypes
<1>3. ThreadInv(i)'
  BY <1>1, <1>2 DEF ConversionInv, ThreadInv, Gone, Live, Listening, Orphaned
<1> QED BY <1>1, <1>3, OneChild

\* Whatever a process does.
LEMMA ChildrenKeeps ==
  ASSUME ConversionInv, NEW i \in All, Children(i)
  PROVE  ConversionInv'
  BY BootKeeps, FinishKeeps, ExitChildKeeps, CrashKeeps, ParentDeathKeeps DEF Children

\* The rest of the world moves no thread and no process.
LEMMA WorldKeeps ==
  ASSUME ConversionInv, UNCHANGED callVars, UNCHANGED <<thread, child, mail, record, text>>,
         late \subseteq late', late' \subseteq All, up' \in BOOLEAN, cancel' \in BOOLEAN,
         up' => up, phase \in {"returned", "raised"} => up'
  PROVE  ConversionInv'
<1>1. All' = All
  BY DEF All
<1>2. ConversionTypes'
  BY TypesSame DEF ConversionInv, ConversionTypes
<1>3. CallerInv'
  BY CallerSame DEF ConversionInv
<1>4. ASSUME NEW j \in All PROVE ThreadInv(j)'
  BY ThreadSame DEF ConversionInv
<1> QED BY <1>1, <1>2, <1>3, <1>4 DEF ConversionInv

\* Whatever time, the operator and the machine do.
LEMMA OutsideKeeps ==
  ASSUME ConversionInv, (\E i \in All : TimeUp(i)) \/ Cancel \/ ServiceDies
  PROVE  ConversionInv'
<1>1. ASSUME NEW i \in All, TimeUp(i) PROVE ConversionInv'
  <2>1. late' = late \cup {i} /\ UNCHANGED callVars /\ UNCHANGED envVars /\ up
        /\ UNCHANGED <<thread, child, mail, record, text>>
    BY <1>1 DEF TimeUp
  <2> QED BY <2>1, WorldKeeps DEF ConversionInv, ConversionTypes
<1>2. CASE Cancel
  BY <1>2, WorldKeeps DEF Cancel, ConversionInv, ConversionTypes
<1>3. CASE ServiceDies
  BY <1>3, WorldKeeps DEF ServiceDies, ConversionInv, ConversionTypes, Ended
<1> QED BY <1>1, <1>2, <1>3

\* The caller moves, and no thread is any further.
LEMMA OnlyCaller ==
  ASSUME ConversionInv, UNCHANGED <<request, chunks, chunkVars, cancel, up>>,
         phase' \in Phases, next' \in 1 .. Len(chunks) + 1, CallerInv'
  PROVE  ConversionInv'
<1>1. All' = All
  BY DEF All
<1>2. ConversionTypes'
  BY TypesSame DEF ConversionInv, ConversionTypes
<1>3. ASSUME NEW j \in All PROVE ThreadInv(j)'
  BY ThreadSame DEF ConversionInv
<1> QED BY <1>1, <1>2, <1>3 DEF ConversionInv

LEMMA WriteFileKeeps ==
  ASSUME ConversionInv, WriteFile
  PROVE  ConversionInv'
<1>1. /\ phase = "splitting" /\ phase' \in {"waiting", "splitting", "failing"}
      /\ UNCHANGED <<request, chunks, next, returned, cancel, up>> /\ UNCHANGED chunkVars
  BY DEF WriteFile, Calling
<1>2. next = 1 /\ Len(chunks) \in Nat \ {0} /\ \A i \in All : thread[i] = "queued"
  BY <1>1 DEF ConversionInv, ConversionTypes, CallerInv
<1>3. Busy' = {} /\ \A i \in All' : thread'[i] = "queued"
  BY <1>1, <1>2 DEF Busy, Resting, All
<1>4. CallerInv'
  BY <1>1, <1>2, <1>3 DEF CallerInv
<1>5. phase' \in Phases /\ next' \in 1 .. Len(chunks) + 1
  BY <1>1, <1>2 DEF Phases
<1> QED BY <1>1, <1>4, <1>5, OnlyCaller

LEMMA DrainKeeps ==
  ASSUME ConversionInv, Drain
  PROVE  ConversionInv'
<1>1. /\ phase = "draining" /\ phase' = "failing" /\ Busy = {}
      /\ UNCHANGED <<request, chunks, files, next, returned, cancel, up>> /\ UNCHANGED chunkVars
  BY DEF Drain, Calling
<1>2. Busy' = {}
  BY <1>1, BusySame
<1>3. CallerInv'
  BY <1>1, <1>2 DEF CallerInv
<1> QED BY <1>1, <1>3, OnlyCaller DEF Phases, ConversionInv, ConversionTypes

LEMMA FailKeeps ==
  ASSUME ConversionInv, Fail
  PROVE  ConversionInv'
<1>1. /\ phase = "failing" /\ phase' = "raised" /\ files' = {} /\ up
      /\ UNCHANGED <<request, chunks, next, returned, cancel, up>> /\ UNCHANGED chunkVars
  BY DEF Fail, Calling
<1>2. Busy' = {}
  BY <1>1, BusySame DEF ConversionInv, CallerInv
<1>3. CallerInv'
  BY <1>1, <1>2 DEF CallerInv
<1> QED BY <1>1, <1>3, OnlyCaller DEF Phases, ConversionInv, ConversionTypes

LEMMA ReturnKeeps ==
  ASSUME ConversionInv, Return
  PROVE  ConversionInv'
<1>1. /\ phase = "merging" /\ phase' = "returned" /\ files' = {} /\ up /\ returned' = Merged
      /\ UNCHANGED <<request, chunks, next, cancel, up>> /\ UNCHANGED chunkVars
  BY DEF Return, Calling
<1>2. \A i \in All : thread[i] = "ok"
  <2>1. next = Len(chunks) + 1 /\ \A i \in 1 .. next - 1 : thread[i] = "ok"
    BY <1>1 DEF ConversionInv, CallerInv
  <2> QED BY <2>1 DEF All, ConversionInv, ConversionTypes
<1>3. returned' = Merged' /\ \A i \in All' : thread'[i] = "ok"
  BY <1>1, <1>2, MergedSame DEF All
<1>4. CallerInv'
  BY <1>1, <1>3 DEF CallerInv
<1> QED BY <1>1, <1>4, OnlyCaller DEF Phases, ConversionInv, ConversionTypes

\* The chunks that were not started are dropped, when one fails.
LEMMA WaitKeeps ==
  ASSUME ConversionInv, Wait
  PROVE  ConversionInv'
<1>1. /\ phase = "waiting" /\ UNCHANGED <<request, chunks, files, returned, cancel, up>>
      /\ UNCHANGED <<child, mail, late, record, text>>
  BY DEF Wait, Calling
<1>2. /\ next \in 1 .. Len(chunks) /\ Len(chunks) \in Nat \ {0}
      /\ \A i \in 1 .. next - 1 : thread[i] = "ok"
  BY <1>1 DEF ConversionInv, ConversionTypes, CallerInv
<1>3. CASE /\ thread[next] = "ok" /\ next' = next + 1 /\ UNCHANGED thread
           /\ phase' = IF next = Len(chunks) THEN "merging" ELSE "waiting"
  <2>1. \A i \in 1 .. next' - 1 : thread'[i] = "ok"
    BY <1>2, <1>3
  <2>2. CallerInv'
    BY <1>1, <1>2, <1>3, <2>1 DEF CallerInv
  <2> QED BY <1>1, <1>2, <1>3, <2>2, OnlyCaller DEF Phases
<1>4. CASE /\ phase' = "draining" /\ UNCHANGED next
           /\ thread' = [i \in All |-> IF thread[i] = "queued" THEN "dropped" ELSE thread[i]]
  <2>1. All' = All
    BY <1>1 DEF All
  <2>2. CallerInv'
    BY <1>4 DEF CallerInv
  <2>3. thread' \in [All -> Threads]
    BY <1>4 DEF ConversionInv, ConversionTypes, Threads
  <2>4. ConversionTypes'
    BY <1>1, <1>4, <2>3, TypesSame DEF ConversionInv, ConversionTypes, Phases
  <2>5. ASSUME NEW j \in All PROVE ThreadInv(j)'
    <3>1. CASE thread[j] = "queued"
      <4>1. thread'[j] = "dropped"
        BY <1>4, <3>1
      <4> QED BY <1>1, <3>1, <4>1 DEF ConversionInv, ThreadInv, Gone, Listening, Live, Orphaned
    <3>2. CASE thread[j] # "queued"
      <4>1. thread'[j] = thread[j]
        BY <1>4, <3>2
      <4> QED BY <1>1, <4>1, ThreadSame DEF ConversionInv
    <3> QED BY <3>1, <3>2
  <2> QED BY <2>1, <2>2, <2>4, <2>5 DEF ConversionInv
<1> QED BY <1>3, <1>4 DEF Wait

\* Whatever the caller does.
LEMMA CallerKeeps ==
  ASSUME ConversionInv, Caller
  PROVE  ConversionInv'
  BY WriteFileKeeps, WaitKeeps, DrainKeeps, FailKeeps, ReturnKeeps DEF Caller

\* Every step of a conversion keeps the invariant.
LEMMA ConversionStep == ConversionInv /\ [ConversionNext]_conversionVars => ConversionInv'
<1> SUFFICES ASSUME ConversionInv, [ConversionNext]_conversionVars PROVE ConversionInv'
  OBVIOUS
<1>1. CASE UNCHANGED conversionVars
  BY <1>1, WorldKeeps DEF ConversionInv, ConversionTypes, CallerInv
<1>2. CASE ConversionNext
  BY <1>2, CallerKeeps, PoolKeeps, ChildrenKeeps, OutsideKeeps DEF ConversionNext
<1> QED BY <1>1, <1>2
-----------------------------------------------------------------------------
(* Plans (plan_docling).                                                   *)

\* The lesser of two numbers.
LEMMA MinOfTwo ==
  ASSUME NEW a \in Int, NEW b \in Int
  PROVE  /\ Min({a, b}) \in {a, b} /\ Min({a, b}) <= a /\ Min({a, b}) <= b
<1>1. \E x \in {a, b} : \A y \in {a, b} : x <= y
  BY DEF Min
<1> QED BY <1>1 DEF Min

\* The greater of two numbers.
LEMMA MaxOfTwo ==
  ASSUME NEW a \in Int, NEW b \in Int
  PROVE  /\ Max({a, b}) \in {a, b} /\ a <= Max({a, b}) /\ b <= Max({a, b})
<1>1. \E x \in {a, b} : \A y \in {a, b} : x >= y
  BY DEF Max
<1> QED BY <1>1 DEF Max

\* What is at least 1 stays so.
LEMMA MaxIsPositive ==
  ASSUME NEW a \in Nat \ {0}, NEW b \in Int
  PROVE  Max({a, b}) \in Nat \ {0}
<1>1. Max({a, b}) \in Int /\ a <= Max({a, b})
  BY MaxOfTwo
<1> QED BY <1>1

\* The least of three numbers is one of them.
LEMMA MinOfThree ==
  ASSUME NEW a \in Int, NEW b \in Int, NEW c \in Int
  PROVE  Min({a, b, c}) \in {a, b, c}
<1>1. \E x \in {a, b, c} : \A y \in {a, b, c} : x <= y
  OBVIOUS
<1> QED BY <1>1 DEF Min

\* A plan gives every chunk a page.
LEMMA PlanHasPages ==
  ASSUME NEW n \in Nat \ {0}, NEW cpus \in Nat \ {0}, NEW memory \in Nat, NEW free, ChunkSizes
  PROVE  PlanDocling(n, cpus, memory, free).pages \in Nat \ {0}
<1> DEFINE budget == memory - ParentReserve
<1> DEFINE byMemory == budget \div PerProcPeak(MinChunk)
<1> DEFINE byPages == IF n > ParallelMin THEN n \div MinChunk ELSE 1
<1> DEFINE workers == Max({1, Min({cpus, byMemory, byPages})})
<1> DEFINE fit == Fit(budget, workers)
<1> DEFINE target == CeilDiv(n, workers * 2)
<1>1. /\ MinChunk \in Nat \ {0} /\ MaxChunk \in Nat \ {0} /\ budget \in Int
      /\ PerProcPeak(MinChunk) \in Nat \ {0} /\ WorkerBase \in Nat
  BY DEF ChunkSizes, PerProcPeak
<1>2. byMemory \in Int /\ byPages \in Int
  BY <1>1
<1> HIDE DEF byMemory, byPages
<1>3. Min({cpus, byMemory, byPages}) \in Int
  BY <1>2, MinOfThree
<1>4. workers \in Nat \ {0}
  <2> DEFINE least == Min({cpus, byMemory, byPages})
  <2>1. least \in Int
    BY <1>3
  <2> HIDE DEF least
  <2>2. Max({1, least}) \in Nat \ {0}
    BY <2>1, MaxIsPositive
  <2> QED BY <2>2 DEF least
<1> HIDE DEF workers, budget
<1>5. fit \in Nat \ {0}
  <2> DEFINE most == budget \div workers - WorkerBase
  <2>1. most \in Int
    BY <1>1, <1>4
  <2> HIDE DEF most
  <2>2. Max({MinChunk, most}) \in Nat \ {0}
    BY <1>1, <2>1, MaxIsPositive
  <2> QED BY <2>2 DEF Fit, most
<1>6. target \in Int
  BY <1>4 DEF CeilDiv
<1> HIDE DEF fit, target
<1>7. Min({fit, MaxChunk}) \in Nat \ {0}
  BY <1>1, <1>5, MinOfTwo
<1>8. Max({MinChunk, Min({target, fit, MaxChunk})}) \in Nat \ {0}
  <2> DEFINE least == Min({target, fit, MaxChunk})
  <2>1. least \in Int
    BY <1>1, <1>5, <1>6, MinOfThree
  <2> HIDE DEF least
  <2>2. Max({MinChunk, least}) \in Nat \ {0}
    BY <1>1, <2>1, MaxIsPositive
  <2> QED BY <2>2 DEF least
<1> DEFINE total == IF workers = 1
                    THEN Plan(1, cpus, IF n <= fit THEN n ELSE Min({fit, MaxChunk}))
                    ELSE Plan(workers, Max({1, cpus \div workers}),
                              Max({MinChunk, Min({target, fit, MaxChunk})}))
<1>9. PlanFromTotal(n, cpus, memory) = total
  BY DEF PlanFromTotal, budget, byMemory, byPages, workers, fit, target
<1>10. /\ total.pages \in Nat \ {0}
       /\ \A w, t : [total EXCEPT !.workers = w, !.threads = t].pages = total.pages
  BY <1>7, <1>8 DEF Plan
<1> HIDE DEF total
<1> QED BY <1>9, <1>10 DEF PlanDocling

-----------------------------------------------------------------------------
(* The classes of the pages (classify_pages) and their way over the wire.  *)

\* The classes of pages.
Classes == [text : BOOLEAN, images : BOOLEAN, tables : BOOLEAN]

\* A page keeps the class it has alone, but for the tables of its neighbours.
LEMMA ClassifyIs ==
  ASSUME NEW document \in Seq(PageKinds)
  PROVE  /\ Classify(document) \in Seq(Classes)
         /\ Len(Classify(document)) = Len(document)
         /\ \A i \in 1 .. Len(document) :
              LET class == Classify(document)[i]
                  page == document[i]
              IN  /\ class.text = ClassOf(page).text
                  /\ class.images = ClassOf(page).images
                  /\ ClassOf(page).tables => class.tables
<1> DEFINE n == Len(document)
<1> DEFINE raw == [i \in DOMAIN document |-> ClassOf(document[i])]
<1> DEFINE shown == {i - 1 : i \in {j \in DOMAIN raw : raw[j].tables}}
<1> DEFINE padded == Padded(shown, n)
<1>1. n \in Nat /\ DOMAIN document = 1 .. n /\ \A i \in 1 .. n : document[i] \in PageKinds
  OBVIOUS
<1>2. \A i \in 1 .. n : raw[i] = ClassOf(document[i]) /\ raw[i] \in Classes
  BY <1>1 DEF ClassOf, AllOn, Class, Classes, PageKinds
<1>3. Classify(document) = [i \in 1 .. n |-> IF i - 1 \in padded THEN [raw[i] EXCEPT !.tables = TRUE]
                                             ELSE raw[i]]
  BY <1>1 DEF Classify
<1> HIDE DEF raw, padded
<1>4. ASSUME NEW i \in 1 .. n
      PROVE  LET class == IF i - 1 \in padded THEN [raw[i] EXCEPT !.tables = TRUE] ELSE raw[i]
             IN  /\ class \in Classes /\ class.text = raw[i].text /\ class.images = raw[i].images
                 /\ raw[i].tables => class.tables
  BY <1>2 DEF Classes
<1>5. \A i \in 1 .. n :
        /\ Classify(document)[i] \in Classes
        /\ Classify(document)[i].text = raw[i].text /\ Classify(document)[i].images = raw[i].images
        /\ raw[i].tables => Classify(document)[i].tables
  BY <1>3, <1>4
<1>6. Classify(document) = [i \in 1 .. n |-> Classify(document)[i]]
  BY <1>3
<1>7. Classify(document) \in Seq(Classes) /\ Len(Classify(document)) = n
  BY <1>1, <1>5, <1>6
<1> QED BY <1>2, <1>5, <1>7

\* Ranges of classes: first page, last page, class.
ClassRanges == Nat \X Nat \X Classes

\* Range i begins where the one before ends, and its pages have its class.
SpellsAt(ranges, classes, n, i) ==
  /\ ranges[i][1] = IF i = 1 THEN 0 ELSE ranges[i - 1][2] + 1
  /\ ranges[i][1] <= ranges[i][2] /\ ranges[i][2] < n
  /\ \A p \in ranges[i][1] .. ranges[i][2] : classes[p + 1] = ranges[i][3]

\* The ranges are those of the first n classes.
Spells(ranges, classes, n) ==
  /\ ranges \in Seq(ClassRanges)
  /\ \A i \in 1 .. Len(ranges) : SpellsAt(ranges, classes, n, i)
  /\ n = IF Len(ranges) = 0 THEN 0 ELSE ranges[Len(ranges)][2] + 1

\* One more class is in the ranges (page_classes_to_ranges).
LEMMA RangedSpells ==
  ASSUME NEW classes \in Seq(Classes), NEW n \in 0 .. Len(classes) - 1, NEW ranges,
         Spells(ranges, classes, n)
  PROVE  Spells(Ranged(ranges, n, classes[n + 1]), classes, n + 1)
<1> DEFINE m == Len(ranges)
<1> DEFINE c == classes[n + 1]
<1>1. ranges \in Seq(ClassRanges) /\ m \in Nat /\ n \in Nat /\ c \in Classes
  BY DEF Spells
<1>2. \A i \in 1 .. m : /\ ranges[i] = <<ranges[i][1], ranges[i][2], ranges[i][3]>>
                        /\ ranges[i][1] \in Nat /\ ranges[i][2] \in Nat /\ ranges[i][3] \in Classes
  BY <1>1 DEF ClassRanges
<1> HIDE DEF c
<1>3. CASE ranges # <<>> /\ Last(ranges)[3] = c
  <2>1. m # 0 /\ m \in 1 .. m /\ Last(ranges) = ranges[m] /\ ranges[m][3] = c
    BY <1>1, <1>3 DEF Last
  <2> DEFINE longer == <<ranges[m][1], n, c>>
  <2> DEFINE out == [i \in 1 .. m |-> IF i = m THEN longer ELSE ranges[i]]
  <2>2. Ranged(ranges, n, c) = out
    <3>1. [ranges[m] EXCEPT ![2] = n] = longer
      BY <1>2, <2>1
    <3>2. [ranges EXCEPT ![m] = longer] = out
      <4>1. DOMAIN ranges = 1 .. m
        BY <1>1
      <4> HIDE DEF longer, m
      <4> QED BY <4>1
    <3> QED BY <1>3, <3>1, <3>2 DEF Ranged
  <2>3. longer \in ClassRanges
    BY <1>1, <1>2, <2>1 DEF ClassRanges
  <2>4. longer[1] = ranges[m][1] /\ longer[2] = n /\ longer[3] = c
    OBVIOUS
  <2> HIDE DEF longer
  <2>5. out \in Seq(ClassRanges) /\ Len(out) = m
    BY <1>1, <2>3
  <2>6. out[m] = longer /\ \A i \in 1 .. m : i # m => out[i] = ranges[i]
    BY <2>1
  <2> HIDE DEF out
  <2>7. n = ranges[m][2] + 1
    BY <2>1 DEF Spells
  <2>8. ASSUME NEW i \in 1 .. m PROVE SpellsAt(out, classes, n + 1, i)
    <3>1. /\ ranges[i][1] = IF i = 1 THEN 0 ELSE ranges[i - 1][2] + 1
          /\ ranges[i][1] <= ranges[i][2] /\ ranges[i][2] < n
          /\ \A p \in ranges[i][1] .. ranges[i][2] : classes[p + 1] = ranges[i][3]
      BY DEF Spells, SpellsAt
    <3>2. i # 1 => i - 1 \in 1 .. m /\ i - 1 # m
      BY <1>1
    <3>3. out[i][1] = IF i = 1 THEN 0 ELSE out[i - 1][2] + 1
      <4>1. i # 1 => out[i - 1] = ranges[i - 1]
        BY <2>6, <3>2
      <4>2. out[i][1] = ranges[i][1]
        BY <2>4, <2>6
      <4> QED BY <3>1, <4>1, <4>2
    <3>4. CASE i = m
      <4> DEFINE a == ranges[m][1]
      <4> DEFINE b == ranges[m][2]
      <4>1. a \in Nat /\ b \in Nat /\ n = b + 1 /\ a <= b
        BY <1>2, <2>1, <2>7, <3>1, <3>4
      <4> HIDE DEF a, b
      <4>2. \A p \in a .. n : p \in a .. b \/ p = n
        BY <4>1
      <4>3. \A p \in a .. b : classes[p + 1] = c
        BY <2>1, <3>1, <3>4 DEF a, b
      <4>4. \A p \in a .. n : classes[p + 1] = c
        BY <4>2, <4>3 DEF c
      <4>5. out[i] = longer /\ longer[1] = a /\ longer[2] = n /\ longer[3] = c
        BY <2>4, <2>6, <3>4 DEF a
      <4>6. a <= n /\ n < n + 1
        BY <4>1
      <4> QED BY <3>3, <4>4, <4>5, <4>6 DEF SpellsAt
    <3>5. CASE i # m
      <4>1. out[i] = ranges[i]
        BY <2>6, <3>5
      <4>2. ranges[i][2] < n + 1
        BY <1>1, <1>2, <3>1
      <4> QED BY <3>1, <3>3, <4>1, <4>2 DEF SpellsAt
    <3> QED BY <3>4, <3>5
  <2>9. n + 1 = IF Len(out) = 0 THEN 0 ELSE out[Len(out)][2] + 1
    BY <1>1, <2>1, <2>4, <2>5, <2>6
  <2> QED BY <2>2, <2>5, <2>8, <2>9 DEF Spells, c
<1>4. CASE ~(ranges # <<>> /\ Last(ranges)[3] = c)
  <2> DEFINE single == <<n, n, c>>
  <2> DEFINE out == Append(ranges, single)
  <2>1. Ranged(ranges, n, c) = out
    BY <1>4 DEF Ranged
  <2>2. single \in ClassRanges /\ single[1] = n /\ single[2] = n /\ single[3] = c
    BY <1>1 DEF ClassRanges
  <2> HIDE DEF single
  <2>3. /\ out \in Seq(ClassRanges) /\ Len(out) = m + 1 /\ out[m + 1] = single
        /\ \A i \in 1 .. m : out[i] = ranges[i]
    BY <1>1, <2>2
  <2> HIDE DEF out
  <2>4. n = IF m = 0 THEN 0 ELSE ranges[m][2] + 1
    BY DEF Spells
  <2>5. ASSUME NEW i \in 1 .. m + 1 PROVE SpellsAt(out, classes, n + 1, i)
    <3>1. CASE i = m + 1
      <4>1. out[i] = single
        BY <2>3, <3>1
      <4>2. i # 1 => i - 1 = m /\ m \in 1 .. m /\ m # 0
        BY <1>1, <3>1
      <4>3. i = 1 => m = 0
        BY <1>1, <3>1
      <4>4. n = IF i = 1 THEN 0 ELSE out[i - 1][2] + 1
        BY <2>3, <2>4, <4>2, <4>3
      <4>5. \A p \in n .. n : classes[p + 1] = c
        BY <1>1 DEF c
      <4>6. out[i][1] = n /\ out[i][2] = n /\ out[i][3] = c /\ n <= n /\ n < n + 1
        BY <1>1, <2>2, <4>1
      <4> QED BY <4>4, <4>5, <4>6 DEF SpellsAt
    <3>2. CASE i # m + 1
      <4>1. i \in 1 .. m /\ (i # 1 => i - 1 \in 1 .. m)
        BY <1>1, <3>2
      <4>2. out[i] = ranges[i] /\ (i # 1 => out[i - 1] = ranges[i - 1])
        BY <2>3, <4>1
      <4>3. /\ ranges[i][1] = IF i = 1 THEN 0 ELSE ranges[i - 1][2] + 1
            /\ ranges[i][1] <= ranges[i][2] /\ ranges[i][2] < n
            /\ \A p \in ranges[i][1] .. ranges[i][2] : classes[p + 1] = ranges[i][3]
        BY <4>1 DEF Spells, SpellsAt
      <4>4. ranges[i][2] < n + 1
        BY <1>1, <1>2, <4>1, <4>3
      <4> QED BY <4>2, <4>3, <4>4 DEF SpellsAt
    <3> QED BY <3>1, <3>2
  <2>6. n + 1 = IF Len(out) = 0 THEN 0 ELSE out[Len(out)][2] + 1
    BY <1>1, <2>2, <2>3
  <2> QED BY <2>1, <2>3, <2>5, <2>6 DEF Spells, c
<1> QED BY <1>3, <1>4 DEF c

\* The ranges spell the classes.
LEMMA RangesSpell ==
  ASSUME NEW classes \in Seq(Classes)
  PROVE  Spells(ToRanges(classes), classes, Len(classes))
<1> DEFINE n == Len(classes)
<1> DEFINE Made(f) == f = [k \in 0 .. n |-> IF k = 0 THEN <<>> ELSE Ranged(f[k - 1], k - 1, classes[k])]
<1> DEFINE move == [k \in 1 .. n |-> [s \in Seq(ClassRanges) |-> Ranged(s, k - 1, classes[k])]]
<1>1. n \in Nat
  OBVIOUS
<1>2. ASSUME NEW k \in 1 .. n, NEW s \in Seq(ClassRanges)
      PROVE  move[k][s] = Ranged(s, k - 1, classes[k]) /\ move[k][s] \in Seq(ClassRanges)
  <2>1. move[k][s] = Ranged(s, k - 1, classes[k])
    OBVIOUS
  <2> DEFINE c == classes[k]
  <2> DEFINE p == k - 1
  <2>2. c \in Classes /\ p \in Nat /\ Len(s) \in Nat
    BY <1>1
  <2> HIDE DEF move, c, p
  <2>3. CASE s # <<>> /\ Last(s)[3] = c
    <3>1. Ranged(s, p, c) = [s EXCEPT ![Len(s)] = [s[Len(s)] EXCEPT ![2] = p]]
      BY <2>3 DEF Ranged
    <3>2. Len(s) \in 1 .. Len(s) /\ s[Len(s)] \in ClassRanges
      BY <2>2, <2>3
    <3>3. [s[Len(s)] EXCEPT ![2] = p] \in ClassRanges
      <4> DEFINE last == s[Len(s)]
      <4>1. last \in Nat \X Nat \X Classes
        BY <3>2 DEF ClassRanges
      <4> HIDE DEF last
      <4>2. PICK x \in Nat, y \in Nat, z \in Classes : last = <<x, y, z>>
        BY <4>1
      <4>3. [last EXCEPT ![2] = p] = <<x, p, z>>
        BY <4>2
      <4>4. <<x, p, z>> \in ClassRanges
        BY <2>2, <4>2 DEF ClassRanges
      <4> QED BY <4>3, <4>4 DEF last
    <3> DEFINE longer == [s[Len(s)] EXCEPT ![2] = p]
    <3> HIDE DEF longer
    <3>4. longer \in ClassRanges
      BY <3>3 DEF longer
    <3>5. [s EXCEPT ![Len(s)] = longer] \in Seq(ClassRanges)
      BY <3>2, <3>4
    <3>6. Ranged(s, p, c) \in Seq(ClassRanges)
      BY <3>1, <3>5 DEF longer
    <3> QED BY <2>1, <3>6 DEF c, p
  <2>4. CASE ~(s # <<>> /\ Last(s)[3] = c)
    <3>1. <<p, p, c>> \in ClassRanges
      BY <2>2 DEF ClassRanges
    <3>2. Ranged(s, p, c) \in Seq(ClassRanges)
      BY <2>4, <3>1 DEF Ranged
    <3> QED BY <2>1, <3>2 DEF c, p
  <2> QED BY <2>3, <2>4
<1> HIDE DEF move
<1>3. \E f : Made(f)
  <2>1. StepsIn(move, n, Seq(ClassRanges))
    BY <1>2 DEF StepsIn
  <2>2. PICK f : Iterates(f, <<>>, move, n, Seq(ClassRanges))
    <3>1. <<>> \in Seq(ClassRanges)
      OBVIOUS
    <3> HIDE DEF n
    <3> QED BY <1>1, <2>1, <3>1, Recursion
  <2>3. ASSUME NEW k \in 0 .. n
        PROVE  f[k] = IF k = 0 THEN <<>> ELSE Ranged(f[k - 1], k - 1, classes[k])
    <3>1. CASE k = 0
      BY <2>2, <3>1 DEF Iterates
    <3>2. CASE k # 0
      <4>1. k \in 1 .. n /\ k - 1 \in 0 .. n
        BY <1>1, <3>2
      <4>2. f[k - 1] \in Seq(ClassRanges)
        BY <2>2, <4>1 DEF Iterates
      <4>3. f[k] = move[k][f[k - 1]]
        BY <2>2, <4>1 DEF Iterates
      <4> QED BY <1>2, <3>2, <4>1, <4>2, <4>3
    <3> QED BY <3>1, <3>2
  <2>4. Made(f)
    <3>1. f = [k \in 0 .. n |-> f[k]]
      BY <2>2 DEF Iterates
    <3> HIDE DEF n
    <3> QED BY <2>3, <3>1
  <2> HIDE DEF Made
  <2> QED BY <2>4
<1> DEFINE f == CHOOSE f : Made(f)
<1>4. Made(f)
  BY <1>3
<1>5. ToRanges(classes) = f[n]
  BY DEF ToRanges
<1> HIDE DEF f
<1>6. f[0] = <<>> /\ \A k \in 1 .. n : f[k] = Ranged(f[k - 1], k - 1, classes[k])
  <2>1. \A k \in 0 .. n : f[k] = IF k = 0 THEN <<>> ELSE Ranged(f[k - 1], k - 1, classes[k])
    BY <1>4
  <2> HIDE DEF n, Made
  <2> QED BY <1>1, <2>1
<1> HIDE DEF Made
<1> DEFINE good == {k \in Nat : k <= n => Spells(f[k], classes, k)}
<1>7. 0 \in good
  <2>1. Spells(<<>>, classes, 0)
    BY DEF Spells
  <2> QED BY <1>6, <2>1
<1>8. ASSUME NEW k \in Nat, k \in good PROVE k + 1 \in good
  <2> SUFFICES ASSUME k + 1 <= n PROVE Spells(f[k + 1], classes, k + 1)
    OBVIOUS
  <2>1. k + 1 \in 1 .. n /\ (k + 1) - 1 = k /\ k \in 0 .. Len(classes) - 1
    BY <1>1
  <2>2. Spells(f[k], classes, k)
    BY <1>8, <2>1
  <2>3. f[k + 1] = Ranged(f[k], k, classes[k + 1])
    <3>1. f[k + 1] = Ranged(f[(k + 1) - 1], (k + 1) - 1, classes[k + 1])
      BY <1>6, <2>1
    <3> QED BY <2>1, <3>1
  <2> QED BY <2>1, <2>2, <2>3, RangedSpells
<1> HIDE DEF good
<1>9. n \in good
  BY <1>1, <1>7, <1>8, Induct
<1> QED BY <1>1, <1>5, <1>9 DEF good

\* What comes off the wire is what was put on it (page_classes_from_ranges).
LEMMA WireRoundTrip ==
  ASSUME NEW classes \in Seq(Classes)
  PROVE  FromRanges(ToRanges(classes)) = classes
<1> DEFINE ranges == ToRanges(classes)
<1> DEFINE n == Len(classes)
<1> DEFINE m == Len(ranges)
<1> DEFINE ss == [i \in DOMAIN ranges |-> [k \in 1 .. ranges[i][2] - ranges[i][1] + 1 |-> ranges[i][3]]]
<1> DEFINE e == [k \in 0 .. m |-> IF k = 0 THEN 0 ELSE ranges[k][2] + 1]
<1>1. Spells(ranges, classes, n)
  BY RangesSpell
<1> HIDE DEF ranges
<1>2. ranges \in Seq(ClassRanges) /\ m \in Nat /\ n \in Nat /\ DOMAIN ranges = 1 .. m
  BY <1>1 DEF Spells
<1>3. \A i \in 1 .. m : /\ ranges[i][1] \in Nat /\ ranges[i][2] \in Nat /\ ranges[i][3] \in Classes
                        /\ SpellsAt(ranges, classes, n, i)
  BY <1>1, <1>2 DEF Spells, ClassRanges
<1>4. FromRanges(ranges) = FlattenSeq(ss)
  <2>1. \A i \in DOMAIN ranges : /\ ranges[i][1] = IF i = 1 THEN 0 ELSE ranges[i - 1][2] + 1
                                 /\ ranges[i][2] >= ranges[i][1]
    BY <1>2, <1>3 DEF SpellsAt
  <2> HIDE DEF m
  <2> QED BY <2>1 DEF FromRanges
<1>5. ASSUME NEW i \in 1 .. m
      PROVE  /\ e[i - 1] \in Nat /\ e[i - 1] = ranges[i][1] /\ e[i] = ranges[i][2] + 1
             /\ e[i - 1] <= e[i] /\ e[i] \in 0 .. n
             /\ ss[i] \in Seq(Classes)
             /\ ss[i] = SubSeq(classes, e[i - 1] + 1, e[i])
  <2> DEFINE a == ranges[i][1]
  <2> DEFINE b == ranges[i][2]
  <2> DEFINE c == ranges[i][3]
  <2>1. a \in Nat /\ b \in Nat /\ c \in Classes /\ SpellsAt(ranges, classes, n, i)
    BY <1>3
  <2>2. a <= b /\ b < n /\ \A p \in a .. b : classes[p + 1] = c
    BY <2>1 DEF SpellsAt
  <2>3. i \in 0 .. m /\ i - 1 \in 0 .. m /\ i # 0 /\ (i # 1 => i - 1 # 0)
    BY <1>2
  <2>4. e[i] = b + 1
    BY <2>3
  <2>5. e[i - 1] = a
    <3>1. a = IF i = 1 THEN 0 ELSE ranges[i - 1][2] + 1
      BY <2>1 DEF SpellsAt
    <3> QED BY <2>3, <3>1
  <2>6. ss[i] = [k \in 1 .. b - a + 1 |-> c]
    BY <1>2
  <2> HIDE DEF a, b, c, e, ss
  <2>7. b - a + 1 \in Nat /\ [k \in 1 .. b - a + 1 |-> c] \in Seq(Classes)
    BY <2>1, <2>2
  <2>8. [k \in 1 .. b - a + 1 |-> c] = SubSeq(classes, a + 1, b + 1)
    <3>1. \A k \in 1 .. b - a + 1 : classes[(a + 1) + k - 1] = c
      <4> TAKE k \in 1 .. b - a + 1
      <4>1. (a + 1) + k - 1 = (a + k - 1) + 1 /\ a + k - 1 \in a .. b
        BY <2>1, <2>2
      <4>2. classes[(a + k - 1) + 1] = c
        BY <2>2, <4>1
      <4> QED BY <4>1, <4>2
    <3>2. SubSeq(classes, a + 1, b + 1) = [k \in 1 .. b - a + 1 |-> classes[(a + 1) + k - 1]]
      <4>1. (b + 1) - (a + 1) + 1 = b - a + 1
        BY <2>1
      <4> QED BY <2>1, <2>2, <4>1
    <3> QED BY <3>1, <3>2
  <2>9. b + 1 \in 0 .. n /\ a <= b + 1
    BY <1>2, <2>1, <2>2
  <2> QED BY <2>1, <2>4, <2>5, <2>6, <2>7, <2>8, <2>9 DEF a, b
<1>6. ss \in Seq(Seq(Classes)) /\ Len(ss) = m
  <2>1. ss = [i \in 1 .. m |-> ss[i]]
    BY <1>2
  <2>2. \A i \in 1 .. m : ss[i] \in Seq(Classes)
    BY <1>5
  <2> HIDE DEF ss, m
  <2> QED BY <1>2, <2>1, <2>2
<1>7. e[0] = 0 /\ e[m] = n /\ e \in [0 .. m -> 0 .. n]
  <2>1. e[0] = 0
    BY <1>2
  <2>2. e[m] = n
    <3>1. n = IF m = 0 THEN 0 ELSE ranges[m][2] + 1
      BY <1>1 DEF Spells
    <3> QED BY <1>2, <3>1
  <2>3. ASSUME NEW k \in 0 .. m PROVE e[k] \in 0 .. n
    <3>1. CASE k = 0
      BY <1>2, <2>1, <3>1
    <3>2. CASE k # 0
      <4>1. k \in 1 .. m
        BY <1>2, <3>2
      <4> HIDE DEF e
      <4> QED BY <1>5, <4>1
    <3> QED BY <3>1, <3>2
  <2> QED BY <2>1, <2>2, <2>3
<1> HIDE DEF e, ss
<1>8. CutsOf(e, ss, classes)
  BY <1>5, <1>6, <1>7 DEF CutsOf
<1>9. FlattenSeq(ss) = classes
  BY <1>6, <1>8, FlattenCut
<1> QED BY <1>4, <1>9 DEF ranges

-----------------------------------------------------------------------------
(* The chunks of a request.                                                *)

\* The runs that have a page.
FullRuns == {x \in Runs : x.start <= x.end}

\* Run x has what the class of page p needs.
ServesAt(classes, x, p) ==
  (NeedsTables(classes[p + 1]) => x.tables) /\ (NeedsOcr(classes[p + 1]) => x.ocr)

\* The runs that have what the classes of their pages need.
ServingRuns(classes) ==
  {x \in FullRuns : x.end < Len(classes) /\ \A p \in x.start .. x.end : ServesAt(classes, x, p)}

\* Joined or cut, runs that have a page make runs that have a page.
LEMMA FullRunsAreSound == Sound(FullRuns) /\ Divisible(FullRuns)
<1>1. ASSUME NEW x \in FullRuns, NEW y \in FullRuns, y.start = x.end + 1 PROVE Merge(x, y) \in FullRuns
  BY <1>1 DEF FullRuns, Runs, Merge, Chunk
<1>2. Divisible(FullRuns)
  BY DEF Divisible, FullRuns, Runs, Chunk
<1> QED BY <1>1, <1>2 DEF Sound, Mergeable, FullRuns

\* Joined or cut, runs that have what their pages need make such runs (P2).
LEMMA ServingRunsAreSound ==
  ASSUME NEW classes \in Seq(Classes)
  PROVE  /\ Sound(ServingRuns(classes)) /\ Divisible(ServingRuns(classes))
         /\ UnitsIn(ServingRuns(classes), classes)
<1> DEFINE ok == ServingRuns(classes)
<1>1. ASSUME NEW x \in ok, NEW y \in ok, y.start = x.end + 1 PROVE Merge(x, y) \in ok
  <2> DEFINE m == Merge(x, y)
  <2>1. x \in Runs /\ y \in Runs /\ x.start <= x.end /\ y.start <= y.end /\ y.end < Len(classes)
    BY DEF ServingRuns, FullRuns
  <2>2. /\ m \in Runs /\ m.start = x.start /\ m.end = y.end /\ m.start <= m.end
        /\ (x.tables => m.tables) /\ (y.tables => m.tables) /\ (x.ocr => m.ocr) /\ (y.ocr => m.ocr)
    BY <1>1, <2>1 DEF Runs, Merge, Chunk
  <2> HIDE DEF m
  <2>3. ASSUME NEW p \in m.start .. m.end PROVE ServesAt(classes, m, p)
    <3>1. p \in x.start .. x.end \/ p \in y.start .. y.end
      BY <1>1, <2>1, <2>2 DEF Runs
    <3>2. CASE p \in x.start .. x.end
      <4>1. ServesAt(classes, x, p)
        BY <3>2 DEF ServingRuns
      <4> QED BY <2>2, <4>1 DEF ServesAt
    <3>3. CASE p \in y.start .. y.end
      <4>1. ServesAt(classes, y, p)
        BY <3>3 DEF ServingRuns
      <4> QED BY <2>2, <4>1 DEF ServesAt
    <3> QED BY <3>1, <3>2, <3>3
  <2>4. m \in ok
    BY <2>1, <2>2, <2>3 DEF ServingRuns, FullRuns
  <2> QED BY <2>4 DEF m
<1>2. ASSUME NEW x \in ok, NEW a \in Nat, NEW b \in Nat, x.start <= a, a <= b, b <= x.end
      PROVE  Chunk(a, b, x.tables, x.ocr) \in ok
  <2> DEFINE c == Chunk(a, b, x.tables, x.ocr)
  <2>1. x \in Runs /\ x.end < Len(classes) /\ \A p \in x.start .. x.end : ServesAt(classes, x, p)
    BY DEF ServingRuns, FullRuns
  <2>2. c \in Runs /\ c.start = a /\ c.end = b /\ c.tables = x.tables /\ c.ocr = x.ocr
    BY <2>1 DEF Runs, Chunk
  <2> HIDE DEF c
  <2>3. ASSUME NEW p \in a .. b PROVE ServesAt(classes, c, p)
    <3>1. p \in x.start .. x.end
      BY <1>2, <2>1 DEF Runs
    <3>2. ServesAt(classes, x, p)
      BY <2>1, <3>1
    <3> QED BY <2>2, <3>2 DEF ServesAt
  <2>4. c.end < Len(classes)
    BY <1>2, <2>1, <2>2 DEF Runs
  <2>5. c \in ok
    BY <1>2, <2>2, <2>3, <2>4 DEF ServingRuns, FullRuns
  <2> QED BY <2>5 DEF c
<1>3. ASSUME NEW i \in 1 .. Len(classes)
      PROVE  Chunk(i - 1, i - 1, NeedsTables(classes[i]), NeedsOcr(classes[i])) \in ok
  <2> DEFINE c == Chunk(i - 1, i - 1, NeedsTables(classes[i]), NeedsOcr(classes[i]))
  <2>1. classes[i] \in Classes
    OBVIOUS
  <2>2. NeedsTables(classes[i]) \in BOOLEAN /\ NeedsOcr(classes[i]) \in BOOLEAN
    BY <2>1 DEF NeedsTables, NeedsOcr, Classes
  <2>3. /\ c \in Runs /\ c.start = i - 1 /\ c.end = i - 1
        /\ c.tables = NeedsTables(classes[i]) /\ c.ocr = NeedsOcr(classes[i])
    BY <2>2 DEF Runs, Chunk
  <2> HIDE DEF c
  <2>4. ASSUME NEW p \in i - 1 .. i - 1 PROVE ServesAt(classes, c, p)
    <3>1. p + 1 = i
      OBVIOUS
    <3> QED BY <2>3, <3>1 DEF ServesAt
  <2>5. c \in ok
    BY <2>3, <2>4 DEF ServingRuns, FullRuns
  <2> QED BY <2>5 DEF c
<1>4. ok \subseteq FullRuns
  BY DEF ServingRuns
<1>5. Sound(ok)
  <2>1. \A x \in ok : x \in Runs /\ x.start <= x.end
    BY <1>4 DEF FullRuns
  <2>2. \A x, y \in ok : y.start = x.end + 1 => Merge(x, y) \in ok
    BY <1>1
  <2> HIDE DEF ok
  <2> QED BY <2>1, <2>2 DEF Sound, Mergeable
<1>6. Divisible(ok)
  <2> HIDE DEF ok
  <2> QED BY <1>2 DEF Divisible
<1>7. UnitsIn(ok, classes)
  <2> HIDE DEF ok
  <2> QED BY <1>3 DEF UnitsIn
<1> QED BY <1>5, <1>6, <1>7

\* Uniform chunks hold every page, and none has more than max.
LEMMA UniformChunksTile ==
  ASSUME NEW n \in Nat \ {0}, NEW max \in Nat \ {0}
  PROVE  Tiles(UniformChunks(n, max), AtMost(FullRuns, max), 0, n)
<1> DEFINE q == CeilDiv(n, max)
<1> DEFINE last(k) == Min({k * max, n}) - 1
<1> DEFINE out == [k \in 1 .. q |-> Chunk((k - 1) * max, last(k), FALSE, FALSE)]
<1> DEFINE small == AtMost(FullRuns, max)
<1>1. q \in 1 .. n /\ n <= max * q /\ max * q <= n + max - 1
  BY CeilDivIs
<1> HIDE DEF q
<1>2. ASSUME NEW k \in 1 .. q
      PROVE  /\ k * max \in Nat /\ (k - 1) * max \in Nat /\ (k - 1) * max + max = k * max
             /\ (k - 1) * max <= n - 1
             /\ k # q => k * max <= n - 1
             /\ k = q => n <= k * max
  <2>1. k * max \in Nat /\ (k - 1) * max \in Nat /\ (k - 1) * max + max = k * max
    <3>1. k - 1 \in Nat /\ k = (k - 1) + 1
      BY <1>1
    <3> DEFINE j == k - 1
    <3>2. j \in Nat /\ k = j + 1
      BY <3>1
    <3> HIDE DEF j
    <3>3. j * max \in Nat /\ (j + 1) * max = j * max + max
      BY <3>2
    <3>4. k * max = j * max + max
      BY <3>2, <3>3
    <3> QED BY <3>3, <3>4 DEF j
  <2>2. k * max <= q * max /\ q * max = max * q
    BY <1>1, ProductGrows
  <2>3. max * q \in Nat
    BY <1>1
  <2> DEFINE x == (k - 1) * max
  <2> DEFINE y == k * max
  <2> DEFINE z == max * q
  <2>4. x \in Nat /\ y \in Nat /\ z \in Nat /\ x + max = y /\ y <= z /\ z <= n + max - 1 /\ n <= z
    BY <1>1, <2>1, <2>2, <2>3
  <2>5. k # q => y <= n - 1
    <3>1. SUFFICES ASSUME k # q PROVE y <= n - 1
      OBVIOUS
    <3>2. (k + 1) * max <= q * max
      BY <1>1, <3>1, ProductGrows
    <3>3. (k + 1) * max = y + max
      OBVIOUS
    <3>4. y + max <= z
      BY <2>2, <3>2, <3>3
    <3> HIDE DEF y, z
    <3> QED BY <2>4, <3>4
  <2>6. k = q => y = z
    BY <2>2
  <2> HIDE DEF x, y, z
  <2>7. x <= n - 1 /\ (k = q => n <= y)
    BY <2>4, <2>6
  <2> QED BY <2>1, <2>5, <2>7 DEF x, y
<1>3. ASSUME NEW k \in 1 .. q
      PROVE  /\ last(k) = IF k = q THEN n - 1 ELSE k * max - 1
             /\ last(k) \in Nat /\ (k - 1) * max <= last(k)
             /\ last(k) - (k - 1) * max + 1 <= max
             /\ last(k) <= n - 1
  <2> DEFINE x == (k - 1) * max
  <2> DEFINE y == k * max
  <2>1. /\ x \in Nat /\ y \in Nat /\ x + max = y /\ x <= n - 1
        /\ k # q => y <= n - 1
        /\ k = q => n <= y
    BY <1>2
  <2> HIDE DEF x, y
  <2>2. Min({y, n}) \in {y, n} /\ Min({y, n}) <= y /\ Min({y, n}) <= n
    BY <2>1, MinOfTwo
  <2> DEFINE m == Min({y, n})
  <2> HIDE DEF m
  <2>3. m = IF k = q THEN n ELSE y
    BY <2>1, <2>2 DEF m
  <2>4. /\ m - 1 = IF k = q THEN n - 1 ELSE y - 1
        /\ m - 1 \in Nat /\ x <= m - 1 /\ m - 1 - x + 1 <= max /\ m - 1 <= n - 1
    BY <2>1, <2>3
  <2> QED BY <2>4 DEF m, x, y
<1> HIDE DEF last
<1>4. ASSUME NEW k \in 1 .. q
      PROVE  out[k] \in small /\ out[k].start = (k - 1) * max /\ out[k].end = last(k)
  <2> DEFINE x == (k - 1) * max
  <2> DEFINE z == last(k)
  <2>1. out[k] = Chunk(x, z, FALSE, FALSE)
    OBVIOUS
  <2>2. x \in Nat /\ z \in Nat /\ x <= z /\ z - x + 1 <= max
    BY <1>2, <1>3
  <2> HIDE DEF x, z, out
  <2>3. /\ out[k] \in Runs /\ out[k].start = x /\ out[k].end = z
    BY <2>1, <2>2 DEF Runs, Chunk
  <2> QED BY <2>2, <2>3 DEF AtMost, FullRuns, PagesIn, x, z
<1>5. out \in Seq(small) /\ Len(out) = q
  <2>1. out = [k \in 1 .. q |-> out[k]] /\ q \in Nat
    BY <1>1
  <2> HIDE DEF out, small
  <2> QED BY <1>4, <2>1
<1> HIDE DEF out, small
<1>6. ASSUME NEW k \in 1 .. q
      PROVE  out[k].start = IF k = 1 THEN 0 ELSE out[k - 1].end + 1
  <2>1. CASE k = 1
    <3>1. (k - 1) * max = 0
      BY <2>1
    <3> QED BY <1>4, <2>1, <3>1
  <2>2. CASE k # 1
    <3>1. k - 1 \in 1 .. q /\ k - 1 # q
      BY <1>1, <2>2
    <3>2. out[k - 1].end = (k - 1) * max - 1 /\ (k - 1) * max \in Nat
      BY <1>2, <1>3, <1>4, <3>1
    <3>3. out[k].start = (k - 1) * max
      BY <1>4
    <3> DEFINE x == (k - 1) * max
    <3> HIDE DEF x
    <3>4. out[k - 1].end = x - 1 /\ x \in Nat /\ out[k].start = x
      BY <3>2, <3>3 DEF x
    <3> QED BY <2>2, <3>4
  <2> QED BY <2>1, <2>2
<1>7. n = out[q].end + 1 /\ q # 0
  BY <1>1, <1>3, <1>4
<1>8. Tiles(out, small, 0, n)
  BY <1>5, <1>6, <1>7 DEF Tiles
<1> QED BY <1>8 DEF UniformChunks, out, small, q, last

\* The runs a request may be cut into.
FitRuns(r) == IF ~Direct(r) /\ Active(r) THEN ServingRuns(r.classes) ELSE FullRuns

\* What is known of a request: its pages, its plan, and the classes it came with.
LEMMA RequestIs ==
  ASSUME NEW r \in Requests
  PROVE  /\ r.document \in Seq(PageKinds) /\ Len(r.document) \in Nat \ {0}
         /\ r.plan.pages \in Nat \ {0}
         /\ Active(r) => r.classes = Classify(r.document)
         /\ r.listed \in {None, PagesWithTables(Classify(r.document))}
         /\ r.force \in BOOLEAN /\ r.chunking \in BOOLEAN /\ r.bypass \in BOOLEAN
<1>1. ChunkSizes /\ RequestsArePages /\ RequestsAreMade
  BY ConversionAssumption
<1>2. r.document \in Seq(PageKinds) /\ Len(r.document) \in Nat \ {0}
  BY <1>1 DEF RequestsArePages
<1>3. /\ r.machine.cpus \in Nat \ {0} /\ r.machine.memory \in Nat
      /\ r.plan = PlanDocling(Len(r.document), r.machine.cpus, r.machine.memory, r.machine.free)
      /\ r.classes # None =>
           \/ r.classes = FromRanges(ToRanges(Classify(r.document)))
           \/ Len(r.classes) # Len(r.document)
      /\ r.listed \in {None, PagesWithTables(Classify(r.document))}
      /\ \A switch \in {r.force, r.chunking, r.bypass} : switch \in BOOLEAN
  BY <1>1 DEF RequestsAreMade
<1>4. r.plan.pages \in Nat \ {0}
  BY <1>1, <1>2, <1>3, PlanHasPages
<1>5. FromRanges(ToRanges(Classify(r.document))) = Classify(r.document)
  BY <1>2, ClassifyIs, WireRoundTrip
<1>6. Active(r) => r.classes = Classify(r.document)
  BY <1>3, <1>5 DEF Active
<1> QED BY <1>2, <1>3, <1>4, <1>6

\* The chunks of a request hold its pages, none is longer than the plan allows, and each has
\* what its pages need.
LEMMA ChunksTile ==
  ASSUME NEW r \in Requests
  PROVE  Tiles(ChunksOf(r), AtMost(FitRuns(r), r.plan.pages), 0, Len(r.document))
<1> DEFINE n == Len(r.document)
<1> DEFINE max == r.plan.pages
<1> DEFINE small == AtMost(FitRuns(r), max)
<1>1. /\ r.document \in Seq(PageKinds) /\ n \in Nat \ {0} /\ max \in Nat \ {0}
      /\ Active(r) => r.classes = Classify(r.document)
  BY RequestIs
<1>2. CASE Direct(r)
  <2> DEFINE c == Chunk(0, n - 1, FALSE, FALSE)
  <2>1. n <= max
    BY <1>2 DEF Direct
  <2>2. c \in Runs /\ c.start = 0 /\ c.end = n - 1
    BY <1>1 DEF Runs, Chunk
  <2>3. ChunksOf(r) = <<c>>
    BY <1>2 DEF ChunksOf
  <2> HIDE DEF c, n, max
  <2>4. c \in AtMost(FullRuns, max)
    BY <1>1, <2>1, <2>2 DEF AtMost, FullRuns, PagesIn
  <2>5. Tiles(<<c>>, AtMost(FullRuns, max), 0, n)
    <3>1. Tiles(<<c>>, AtMost(FullRuns, max), c.start, c.end + 1)
      BY <2>4, TilesOne
    <3>2. c.start = 0 /\ c.end + 1 = n
      BY <1>1, <2>2
    <3> QED BY <3>1, <3>2
  <2> QED BY <1>2, <2>3, <2>5 DEF FitRuns, n, max
<1>3. CASE ~Direct(r) /\ ~(Active(r) /\ r.classes # None)
  <2>1. ChunksOf(r) = UniformChunks(n, max)
    BY <1>3 DEF ChunksOf, PlanChunks, Active
  <2>2. Tiles(UniformChunks(n, max), AtMost(FullRuns, max), 0, n)
    <3> HIDE DEF n, max
    <3> QED BY <1>1, UniformChunksTile
  <2>3. FitRuns(r) = FullRuns
    BY <1>3 DEF FitRuns, Active
  <2> QED BY <2>1, <2>2, <2>3
<1>4. CASE ~Direct(r) /\ Active(r) /\ r.classes # None
  <2> DEFINE least == Min({max, MaxChunk})
  <2> DEFINE ok == ServingRuns(r.classes)
  <2>1. ChunksOf(r) = PageClassChunks(r.classes, least, MinChunk)
    BY <1>4 DEF ChunksOf, PlanChunks
  <2>2. r.classes \in Seq(Classes) /\ Len(r.classes) = n
    BY <1>1, <1>4, ClassifyIs
  <2>3. least \in Nat \ {0} /\ least <= max
    <3>1. MaxChunk \in Nat \ {0}
      BY ConversionAssumption DEF ChunkSizes
    <3>2. max \in Nat \ {0}
      BY <1>1
    <3> HIDE DEF max
    <3>3. max \in Int /\ MaxChunk \in Int
      BY <3>1, <3>2
    <3> HIDE DEF least
    <3>4. Min({max, MaxChunk}) \in {max, MaxChunk} /\ Min({max, MaxChunk}) <= max
      BY <3>3, MinOfTwo
    <3> QED BY <3>1, <3>2, <3>4 DEF least
  <2>4. Sound(ok) /\ Divisible(ok) /\ UnitsIn(ok, r.classes)
    BY <2>2, ServingRunsAreSound
  <2> HIDE DEF ok, least, n
  <2>5. Tiles(PageClassChunks(r.classes, least, MinChunk), AtMost(ok, least), 0, n)
    BY <2>2, <2>3, <2>4, PageClassChunksTile
  <2>6. AtMost(ok, least) \subseteq AtMost(ok, max)
    <3>1. \A x \in ok : PagesIn(x) \in Nat
      BY <2>4, RunPagesAreNat DEF Sound, Mergeable
    <3> HIDE DEF max
    <3> QED BY <1>1, <2>3, <3>1 DEF AtMost
  <2>7. Tiles(PageClassChunks(r.classes, least, MinChunk), AtMost(ok, max), 0, n)
    BY <2>5, <2>6 DEF Tiles
  <2>8. FitRuns(r) = ok
    BY <1>4 DEF FitRuns, ok
  <2> QED BY <2>1, <2>7, <2>8 DEF n
<1> QED BY <1>2, <1>3, <1>4

\* A chunk of a request: where it lies, and how long it is.
LEMMA ChunkIs ==
  ASSUME NEW r \in Requests, NEW i \in 1 .. Len(ChunksOf(r))
  PROVE  LET x == ChunksOf(r)[i]
         IN  /\ x \in FitRuns(r) /\ x \in FullRuns /\ x.end < Len(r.document)
             /\ PagesIn(x) \in Nat \ {0} /\ PagesIn(x) <= r.plan.pages
<1> DEFINE cs == ChunksOf(r)
<1> DEFINE n == Len(r.document)
<1> DEFINE ok == AtMost(FitRuns(r), r.plan.pages)
<1>1. Tiles(cs, ok, 0, n)
  BY ChunksTile
<1> HIDE DEF cs
<1>2. cs \in Seq(ok) /\ Len(cs) \in Nat /\ \A k \in 1 .. Len(cs) : cs[k] \in ok
  BY <1>1 DEF Tiles
<1>3. ok \subseteq FullRuns
  BY DEF AtMost, FitRuns, ServingRuns
<1>4. i \in 1 .. Len(cs) /\ cs[i] \in ok /\ cs[i] \in FullRuns
  BY <1>2, <1>3 DEF cs
<1>5. cs[i] \in FitRuns(r) /\ PagesIn(cs[i]) <= r.plan.pages
  BY <1>4 DEF AtMost
<1> HIDE DEF ok, n
<1> DEFINE good == {k \in Nat : k < Len(cs) => cs[Len(cs) - k].end < n}
<1>6. 0 \in good
  <2>1. Len(cs) # 0 => n = cs[Len(cs)].end + 1 /\ cs[Len(cs)] \in FullRuns
    BY <1>1, <1>2, <1>3 DEF Tiles
  <2>2. Len(cs) # 0 => cs[Len(cs)].end < n
    BY <2>1 DEF FullRuns, Runs
  <2>3. Len(cs) - 0 = Len(cs)
    BY <1>2
  <2> QED BY <1>2, <2>2, <2>3
<1>7. ASSUME NEW k \in Nat, k \in good PROVE k + 1 \in good
  <2> SUFFICES ASSUME k + 1 < Len(cs) PROVE cs[Len(cs) - (k + 1)].end < n
    OBVIOUS
  <2> DEFINE j == Len(cs) - k
  <2>1. j \in 1 .. Len(cs) /\ j # 1 /\ j - 1 \in 1 .. Len(cs) /\ Len(cs) - (k + 1) = j - 1
    BY <1>2
  <2>2. cs[j].end < n
    BY <1>2, <1>7
  <2> HIDE DEF j
  <2>3. cs[j].start = cs[j - 1].end + 1
    BY <1>1, <2>1 DEF Tiles
  <2>4. cs[j] \in FullRuns /\ cs[j - 1] \in FullRuns
    BY <1>2, <1>3, <2>1
  <2>5. n \in Nat
    BY RequestIs DEF n
  <2>6. cs[j - 1].end < n
    BY <2>2, <2>3, <2>4, <2>5 DEF FullRuns, Runs
  <2> QED BY <2>1, <2>6
<1> HIDE DEF good
<1>8. cs[i].end < n
  <2>1. Len(cs) - i \in Nat /\ Len(cs) - i < Len(cs) /\ Len(cs) - (Len(cs) - i) = i
    BY <1>2, <1>4
  <2>2. Len(cs) - i \in good
    BY <1>6, <1>7, <2>1, Induct
  <2>3. cs[Len(cs) - (Len(cs) - i)].end < n
    BY <2>1, <2>2 DEF good
  <2> QED BY <2>1, <2>3
<1>9. PagesIn(cs[i]) \in Nat \ {0}
  BY <1>4, RunPagesAreNat DEF FullRuns
<1> QED BY <1>4, <1>5, <1>8, <1>9 DEF cs, n

\* A request has a chunk.
LEMMA SomeChunks ==
  ASSUME NEW r \in Requests
  PROVE  /\ Len(ChunksOf(r)) \in Nat \ {0}
         /\ DOMAIN ChunksOf(r) = 1 .. Len(ChunksOf(r))
<1> DEFINE cs == ChunksOf(r)
<1> DEFINE ok == AtMost(FitRuns(r), r.plan.pages)
<1>1. Tiles(cs, ok, 0, Len(r.document)) /\ Len(r.document) \in Nat \ {0}
  BY ChunksTile, RequestIs
<1> HIDE DEF cs, ok
<1>2. cs \in Seq(ok)
  BY <1>1 DEF Tiles
<1>3. Len(cs) # 0
  BY <1>1 DEF Tiles
<1> QED BY <1>2, <1>3 DEF cs

-----------------------------------------------------------------------------
(* What the pages of a chunk are converted with.                           *)

\* The pages of the chunks, one after the other, are those of the document.
LEMMA PagesInOrder ==
  ASSUME NEW r \in Requests
  PROVE  LET cs == ChunksOf(r)
         IN  FlattenSeq([i \in DOMAIN cs |-> Pages(cs[i])]) = [k \in DOMAIN r.document |-> k - 1]
<1> DEFINE cs == ChunksOf(r)
<1> DEFINE n == Len(r.document)
<1> DEFINE m == Len(cs)
<1> DEFINE ok == AtMost(FitRuns(r), r.plan.pages)
<1> DEFINE ss == [i \in DOMAIN cs |-> Pages(cs[i])]
<1> DEFINE w == [k \in DOMAIN r.document |-> k - 1]
<1> DEFINE e == [k \in 0 .. m |-> IF k = 0 THEN 0 ELSE cs[k].end + 1]
<1>1. Tiles(cs, ok, 0, n) /\ r.document \in Seq(PageKinds) /\ n \in Nat
  BY ChunksTile, RequestIs
<1>2. m \in Nat /\ DOMAIN cs = 1 .. m
  BY SomeChunks
<1>3. \A i \in 1 .. m : cs[i] \in FullRuns /\ cs[i].end < n
  BY ChunkIs
<1>4. w = [k \in 1 .. n |-> k - 1] /\ w \in Seq(Nat) /\ Len(w) = n
  <2>1. DOMAIN r.document = 1 .. n
    BY <1>1
  <2>2. w = [k \in 1 .. n |-> k - 1]
    BY <2>1
  <2>3. [k \in 1 .. n |-> k - 1] \in Seq(Nat) /\ Len([k \in 1 .. n |-> k - 1]) = n
    <3>1. \A k \in 1 .. n : k - 1 \in Nat
      BY <1>1
    <3> HIDE DEF n
    <3> QED BY <1>1, <3>1
  <2> QED BY <2>2, <2>3
<1> HIDE DEF cs, w, n, ok
<1>5. ASSUME NEW i \in 1 .. m
      PROVE  /\ e[i - 1] <= e[i] /\ e[i] \in 0 .. n
             /\ ss[i] \in Seq(Nat)
             /\ ss[i] = SubSeq(w, e[i - 1] + 1, e[i])
  <2> DEFINE a == cs[i].start
  <2> DEFINE b == cs[i].end
  <2>1. a \in Nat /\ b \in Nat /\ a <= b /\ b < n
    BY <1>3 DEF FullRuns, Runs
  <2>2. i \in 0 .. m /\ i - 1 \in 0 .. m /\ i # 0 /\ (i # 1 => i - 1 # 0)
    BY <1>2
  <2>3. e[i] = b + 1
    BY <2>2
  <2>4. e[i - 1] = a
    <3>1. a = IF i = 1 THEN 0 ELSE cs[i - 1].end + 1
      BY <1>1 DEF Tiles
    <3> QED BY <2>2, <3>1
  <2>5. ss[i] = [k \in 1 .. b - a + 1 |-> a + k - 1]
    BY <1>2 DEF Pages, PagesIn
  <2> HIDE DEF a, b, e, ss
  <2>6. [k \in 1 .. b - a + 1 |-> a + k - 1] \in Seq(Nat)
    <3>1. b - a + 1 \in Nat /\ \A k \in 1 .. b - a + 1 : a + k - 1 \in Nat
      BY <2>1
    <3> QED BY <3>1
  <2>7. SubSeq(w, a + 1, b + 1) = [k \in 1 .. b - a + 1 |-> a + k - 1]
    <3>1. (b + 1) - (a + 1) + 1 = b - a + 1
      BY <2>1
    <3>2. SubSeq(w, a + 1, b + 1) = [k \in 1 .. b - a + 1 |-> w[(a + 1) + k - 1]]
      BY <1>4, <2>1, <3>1
    <3>3. \A k \in 1 .. b - a + 1 : w[(a + 1) + k - 1] = a + k - 1
      <4> TAKE k \in 1 .. b - a + 1
      <4>1. (a + 1) + k - 1 \in 1 .. n /\ ((a + 1) + k - 1) - 1 = a + k - 1
        BY <1>1, <2>1
      <4>2. w[(a + 1) + k - 1] = ((a + 1) + k - 1) - 1
        BY <1>4, <4>1
      <4> QED BY <4>1, <4>2
    <3> QED BY <3>2, <3>3
  <2>8. b + 1 \in 0 .. n /\ a <= b + 1
    BY <1>1, <2>1
  <2> QED BY <2>3, <2>4, <2>5, <2>6, <2>7, <2>8
<1>6. ss \in Seq(Seq(Nat)) /\ Len(ss) = m
  <2>1. ss = [i \in 1 .. m |-> ss[i]]
    BY <1>2
  <2>2. \A i \in 1 .. m : ss[i] \in Seq(Nat)
    BY <1>5
  <2> HIDE DEF ss, m
  <2> QED BY <1>2, <2>1, <2>2
<1>7. e[0] = 0 /\ e[m] = n /\ e \in [0 .. m -> 0 .. n]
  <2>1. e[0] = 0
    BY <1>2
  <2>2. e[m] = n
    <3>1. n = IF m = 0 THEN 0 ELSE cs[m].end + 1
      BY <1>1 DEF Tiles
    <3> QED BY <1>2, <3>1
  <2>3. ASSUME NEW k \in 0 .. m PROVE e[k] \in 0 .. n
    <3>1. CASE k = 0
      BY <1>1, <2>1, <3>1
    <3>2. CASE k # 0
      <4>1. k \in 1 .. m
        BY <1>2, <3>2
      <4> HIDE DEF e
      <4> QED BY <1>5, <4>1
    <3> QED BY <3>1, <3>2
  <2> QED BY <2>1, <2>2, <2>3
<1> HIDE DEF e, ss
<1>8. CutsOf(e, ss, w)
  BY <1>4, <1>5, <1>6, <1>7 DEF CutsOf
<1>9. FlattenSeq(ss) = w
  BY <1>4, <1>6, <1>8, FlattenCut
<1> QED BY <1>9 DEF ss, w, cs

\* No page is converted without a model it needs.
LEMMA PageServed ==
  ASSUME NEW r \in Requests, request = r, NEW i \in 1 .. Len(ChunksOf(r)),
         NEW p \in ChunksOf(r)[i].start .. ChunksOf(r)[i].end
  PROVE  LET needs == Needs(r.document[p + 1])
             has == Effective(r, ChunksOf(r)[i])
         IN  (needs.ocr => has.ocr) /\ (needs.tables => has.tables)
<1> DEFINE x == ChunksOf(r)[i]
<1> DEFINE n == Len(r.document)
<1> DEFINE page == r.document[p + 1]
<1> DEFINE class == Classify(r.document)[p + 1]
<1> DEFINE decided == Decided(r, x)
<1>1. /\ r.document \in Seq(PageKinds) /\ n \in Nat \ {0}
      /\ Active(r) => r.classes = Classify(r.document)
      /\ r.listed \in {None, PagesWithTables(Classify(r.document))}
      /\ r.force \in BOOLEAN /\ r.chunking \in BOOLEAN /\ r.bypass \in BOOLEAN
  BY RequestIs
<1>2. x \in FitRuns(r) /\ x \in FullRuns /\ x.end < n
  BY ChunkIs
<1>3. p \in Nat /\ p \in x.start .. x.end /\ p + 1 \in 1 .. n
  BY <1>1, <1>2 DEF FullRuns, Runs
<1>4. page \in PageKinds
  BY <1>1, <1>3
<1>5. /\ Classify(r.document) \in Seq(Classes) /\ Len(Classify(r.document)) = n
      /\ class \in Classes
      /\ class.text = ClassOf(page).text /\ class.images = ClassOf(page).images
      /\ ClassOf(page).tables => class.tables
  BY <1>1, <1>3, ClassifyIs
<1> HIDE DEF x, class, page
\* What the class says of the page.
<1>6. /\ page.table => class.tables
      /\ page.text # "clean" => ~class.text
      /\ page.image => class.images \/ ~class.text
  BY <1>4, <1>5 DEF ClassOf, AllOn, Class, PageKinds
<1>7. page.text # "clean" \/ page.image \/ page.table => NeedsOcr(class)
  BY <1>6 DEF NeedsOcr
<1>8. page.table => NeedsTables(class)
  BY <1>6 DEF NeedsTables
\* The table pages that are listed.
<1>9. ASSUME r.listed # None, page.table PROVE p \in r.listed
  <2>1. r.listed = PagesWithTables(Classify(r.document))
    BY <1>1, <1>9
  <2>2. p + 1 \in {j \in DOMAIN Classify(r.document) : Classify(r.document)[j].tables}
    BY <1>3, <1>5, <1>6, <1>9 DEF class
  <2>3. (p + 1) - 1 = p
    BY <1>3
  <2> QED BY <2>1, <2>2, <2>3 DEF PagesWithTables
<1>10. page.table => decided.tables
  <2> SUFFICES ASSUME page.table PROVE decided.tables
    OBVIOUS
  <2>1. CASE Direct(r)
    <3>1. CASE Active(r)
      <4>1. p + 1 \in DOMAIN r.classes /\ NeedsTables(r.classes[p + 1])
        BY <1>1, <1>3, <1>5, <1>8, <3>1 DEF class
      <4> QED BY <2>1, <3>1, <4>1 DEF Decided, DecidedDirect
    <3>2. CASE ~Active(r)
      <4>1. r.listed # {}
        BY <1>9, ConversionAssumption DEF NoneIsNothing
      <4> QED BY <2>1, <3>2, <4>1 DEF Decided, DecidedDirect
    <3> QED BY <3>1, <3>2
  <2>2. CASE ~Direct(r)
    <3>1. CASE Active(r)
      <4>1. x \in ServingRuns(r.classes)
        BY <1>2, <2>2, <3>1 DEF FitRuns
      <4>2. ServesAt(r.classes, x, p)
        BY <1>3, <4>1 DEF ServingRuns
      <4>3. x.tables
        BY <1>1, <1>8, <3>1, <4>2 DEF ServesAt, class
      <4> QED BY <2>2, <4>3 DEF Decided, DecidedChunk
    <3>2. CASE ~Active(r)
      <4>1. r.listed # None => p \in r.listed \cap (x.start .. x.end)
        BY <1>3, <1>9
      <4> QED BY <2>2, <3>2, <4>1 DEF Decided, DecidedChunk
    <3> QED BY <3>1, <3>2
  <2> QED BY <2>1, <2>2
<1>11. ASSUME page.text # "clean" \/ page.image \/ page.table
       PROVE  decided.ocr = ResolveDoOcr(r.force, TRUE, r.policy, FALSE)
  <2>1. CASE Direct(r)
    <3>1. Active(r) => p + 1 \in DOMAIN r.classes /\ NeedsOcr(r.classes[p + 1])
      BY <1>1, <1>3, <1>5, <1>7, <1>11 DEF class
    <3>2. (Active(r) => \E j \in DOMAIN r.classes : NeedsOcr(r.classes[j])) = TRUE
      BY <3>1
    <3> QED BY <2>1, <3>2 DEF Decided, DecidedDirect
  <2>2. CASE ~Direct(r)
    <3>1. (x.ocr \/ ~Active(r)) = TRUE
      <4>1. ASSUME Active(r) PROVE x.ocr
        <5>1. x \in ServingRuns(r.classes)
          BY <1>2, <2>2, <4>1 DEF FitRuns
        <5>2. ServesAt(r.classes, x, p)
          BY <1>3, <5>1 DEF ServingRuns
        <5> QED BY <1>1, <1>7, <1>11, <4>1, <5>2 DEF ServesAt, class
      <4> QED BY <4>1
    <3> QED BY <2>2, <3>1 DEF Decided, DecidedChunk
  <2> QED BY <2>1, <2>2
<1>12. ASSUME Needs(page).ocr PROVE Effective(r, x).ocr
  <2>1. \/ r.force
        \/ r.policy = "force_on"
        \/ /\ r.policy = "page_class"
           /\ \/ page.text # "clean"
              \/ page.image
              \/ page.table /\ ~(r.bypass /\ page.grid \in {"full", "none"})
    BY <1>12 DEF Needs
  <2>2. CASE r.force \/ r.policy = "force_on"
    <3>1. decided.ocr = TRUE
      BY <2>2 DEF Decided, DecidedDirect, DecidedChunk, ResolveDoOcr
    <3> QED BY <2>2, <3>1 DEF Effective, Apply, ResolveDoOcr
  <2>3. CASE ~(r.force \/ r.policy = "force_on")
    <3>1. decided.ocr
      BY <1>11, <2>1, <2>3 DEF ResolveDoOcr
    <3>2. ~BypassOcr(r, x)
      <4>1. SUFFICES ASSUME BypassOcr(r, x) PROVE FALSE
        OBVIOUS
      <4>2. Active(r) /\ r.bypass /\ Ac1(r.classes[p + 1], r.document[p + 1])
        BY <1>3, <4>1 DEF BypassOcr
      <4>3. Ac1(class, page)
        BY <1>1, <4>2 DEF class, page
      <4> QED BY <1>6, <2>1, <2>3, <4>2, <4>3 DEF Ac1
    <3> QED BY <3>1, <3>2 DEF Effective, Apply
  <2> QED BY <2>2, <2>3
<1>13. Needs(page).tables => Effective(r, x).tables
  BY <1>10 DEF Needs, Effective, Apply
<1> QED BY <1>12, <1>13 DEF x, page

\* Any state of a conversion: each page in one chunk, in order, and no page without a model
\* it needs.
THEOREM ServedAsChunked == ConversionTypes => EveryPageServed
<1> SUFFICES ASSUME ConversionTypes PROVE EveryPageServed
  OBVIOUS
<1>1. request \in Requests /\ chunks = ChunksOf(request) /\ All = 1 .. Len(chunks)
  BY DEF ConversionTypes
<1>2. FlattenSeq([i \in All |-> Pages(chunks[i])]) = [k \in DOMAIN request.document |-> k - 1]
  BY <1>1, PagesInOrder DEF All
<1>3. \A i \in All : PagesIn(chunks[i]) <= request.plan.pages
  BY <1>1, ChunkIs
<1>4. ASSUME NEW i \in All, NEW p \in chunks[i].start .. chunks[i].end
      PROVE  LET needs == Needs(request.document[p + 1])
                 has == Effective(request, chunks[i])
             IN  (needs.ocr => has.ocr) /\ (needs.tables => has.tables)
  BY <1>1, PageServed
<1> QED BY <1>2, <1>3, <1>4 DEF EveryPageServed

-----------------------------------------------------------------------------
(* The conversion, from its start to its end.                              *)

\* A conversion starts in the invariant.
LEMMA ConversionStarts == ConversionInit => ConversionInv
<1> SUFFICES ASSUME ConversionInit PROVE ConversionInv
  OBVIOUS
<1>1. PICK r \in Requests : ConversionInitWith(r)
  BY DEF ConversionInit
<1>2. request = r /\ chunks = ChunksOf(r) /\ next = 1
  BY <1>1 DEF ConversionInitWith
<1>3. Len(chunks) \in Nat \ {0} /\ All = 1 .. Len(chunks)
  BY <1>2, SomeChunks DEF All
<1>4. /\ thread = [i \in All |-> "queued"] /\ child = [i \in All |-> "none"]
      /\ mail = [i \in All |-> <<>>] /\ record = [i \in All |-> None]
      /\ text = [i \in All |-> None]
      /\ late = {} /\ cancel = FALSE /\ up = TRUE
      /\ phase = IF ~r.run THEN "planned" ELSE IF Direct(r) THEN "waiting" ELSE "splitting"
  BY <1>1 DEF ConversionInitWith
<1>5. ConversionTypes
  <2>1. DOMAIN mail = All /\ \A i \in All : mail[i] \in Seq(Said(i))
    <3>1. \A i \in All : mail[i] = <<>> /\ <<>> \in Seq(Said(i))
      BY <1>4
    <3> QED BY <1>4, <3>1
  <2>2. thread \in [All -> Threads] /\ child \in [All -> Processes] /\ text \in [All -> Texts]
    BY <1>4 DEF Threads, Processes, Texts
  <2>3. phase \in Phases
    BY <1>4 DEF Phases
  <2>4. next \in 1 .. Len(chunks) + 1
    BY <1>2, <1>3
  <2>5. late \subseteq All /\ DOMAIN record = All /\ up \in BOOLEAN /\ cancel \in BOOLEAN
    BY <1>4
  <2> QED BY <1>2, <1>3, <2>1, <2>2, <2>3, <2>4, <2>5 DEF ConversionTypes
<1>6. CallerInv
  BY <1>2, <1>3, <1>4 DEF CallerInv
<1>7. \A i \in All : ThreadInv(i)
  BY <1>4 DEF ThreadInv, Gone, Listening, Live, Orphaned
<1> QED BY <1>5, <1>6, <1>7 DEF ConversionInv

\* Every state of a conversion satisfies the invariant: what the caller and each thread know
\* of their processes is so.
THEOREM ConversionInvariant == ConversionSpec => []ConversionInv
<1>1. ConversionInit => ConversionInv
  BY ConversionStarts
<1>2. ConversionInv /\ [ConversionNext]_conversionVars => ConversionInv'
  BY ConversionStep
<1> HIDE DEF ConversionInit, ConversionInv, ConversionNext
<1> QED BY <1>1, <1>2, PTL DEF ConversionSpec

\* However a document is cut, merged and bypassed, each page is in one chunk, in order, and no
\* page is converted without a model it needs: for every document, machine and switches.
THEOREM PagesAreServed == ConversionSpec => []EveryPageServed
<1>1. ConversionInv => EveryPageServed
  BY ServedAsChunked DEF ConversionInv
<1> HIDE DEF ConversionSpec, ConversionInv, EveryPageServed
<1> QED BY <1>1, ConversionInvariant, PTL

\* A chunk that failed without its process's word had one that crashed or was out of time:
\* whatever the order of the exit, the report and the polls, the grace read hears it.
THEOREM ReportsAreKept == ConversionSpec => []ReportKept
<1>1. ConversionInv => ReportKept
  BY DEF ConversionInv, ThreadInv, ReportKept
<1> HIDE DEF ConversionSpec, ConversionInv, ReportKept
<1> QED BY <1>1, ConversionInvariant, PTL

\* A thread that is done with its chunk left no process to run on.
LEMMA DoneIsGone ==
  ASSUME ConversionInv, Busy = {}, up, NEW i \in All
  PROVE  Gone(i) /\ child[i] # Orphaned
<1>1. ThreadInv(i) /\ thread[i] \in Resting
  BY DEF ConversionInv, Busy
<1>2. thread[i] \in {"queued", "dropped"} => child[i] = "none"
  BY <1>1 DEF ThreadInv
<1>3. Gone(i)
  BY <1>1, <1>2 DEF ThreadInv, Resting, Gone, Live
<1> QED BY <1>1, <1>3 DEF ThreadInv

\* A call that is over, whichever way, left no process, no busy thread and no chunk file.
THEOREM NothingIsLeftBehind == ConversionSpec => []NothingLeftBehind
<1>1. ConversionInv => NothingLeftBehind
  <2> SUFFICES ASSUME ConversionInv, phase \in {"returned", "raised"}
               PROVE  files = {} /\ Busy = {} /\ \A i \in All : Gone(i) /\ child[i] # Orphaned
    BY DEF NothingLeftBehind
  <2>1. files = {} /\ up
    BY DEF ConversionInv, CallerInv
  <2>2. Busy = {}
    <3>1. CASE phase = "raised"
      BY <3>1 DEF ConversionInv, CallerInv
    <3>2. CASE phase = "returned"
      <4>1. \A i \in All : thread[i] = "ok"
        BY <3>2 DEF ConversionInv, CallerInv
      <4> QED BY <4>1 DEF Busy, Resting
    <3> QED BY <3>1, <3>2
  <2> QED BY <2>1, <2>2, DoneIsGone
<1> HIDE DEF ConversionSpec, ConversionInv, NothingLeftBehind
<1> QED BY <1>1, ConversionInvariant, PTL

\* What is found on a page of a chunk carries the number of its page in the document.
LEMMA Rebased ==
  ASSUME ConversionInv, NEW i \in All
  PROVE  Rebase(Found(i), chunks[i].start) =
           IF text[i] = "docling"
           THEN {<<p, p>> : p \in chunks[i].start .. chunks[i].end}
           ELSE {}
<1> DEFINE a == chunks[i].start
<1> DEFINE b == chunks[i].end
<1>1. a \in Nat /\ b \in Nat
  <2>1. chunks[i] \in FullRuns
    BY ChunkIs DEF ConversionInv, ConversionTypes
  <2> QED BY <2>1 DEF FullRuns, Runs
<1>2. Found(i) = IF text[i] = "docling" THEN {<<p, p - a>> : p \in a .. b} ELSE {}
  BY DEF Found
<1> HIDE DEF a, b
<1>3. {<<f[1], f[2] + a>> : f \in {<<p, p - a>> : p \in a .. b}} = {<<p, p>> : p \in a .. b}
  <2>1. \A p \in a .. b : (p - a) + a = p
    BY <1>1
  <2>2. \A f : f \in {<<p, p - a>> : p \in a .. b} =>
               \E p \in a .. b : f = <<p, p - a>> /\ <<f[1], f[2] + a>> = <<p, p>>
    BY <2>1
  <2>3. ASSUME NEW p \in a .. b
        PROVE  <<p, p>> \in {<<f[1], f[2] + a>> : f \in {<<q, q - a>> : q \in a .. b}}
    <3> DEFINE f == <<p, p - a>>
    <3>1. f \in {<<q, q - a>> : q \in a .. b} /\ <<f[1], f[2] + a>> = <<p, p>>
      BY <2>1
    <3> HIDE DEF f
    <3> QED BY <3>1
  <2> QED BY <2>2, <2>3
<1>4. {<<f[1], f[2] + a>> : f \in {}} = {}
  OBVIOUS
<1> QED BY <1>2, <1>3, <1>4 DEF Rebase, a, b

\* A call that returns gives every page once, in order, what was found on it under its own
\* number, and text of the layer only for a chunk that was out of time.
THEOREM ResultsAreWhole == ConversionSpec => []ResultIsWhole
<1>1. ConversionInv => ResultIsWhole
  <2> SUFFICES ASSUME ConversionInv, phase = "returned"
               PROVE  /\ returned.pages = [k \in DOMAIN request.document |-> k - 1]
                      /\ \A f \in returned.found : f[1] = f[2]
                      /\ \A i \in All :
                           \/ /\ text[i] = "docling"
                              /\ \A p \in chunks[i].start .. chunks[i].end : <<p, p>> \in returned.found
                           \/ text[i] = "layer" /\ i \in late
    BY DEF ResultIsWhole
  <2>1. returned = Merged /\ \A i \in All : thread[i] = "ok"
    BY DEF ConversionInv, CallerInv
  <2>2. /\ returned.pages = FlattenSeq([i \in All |-> Pages(chunks[i])])
        /\ returned.found = UNION {Rebase(Found(i), chunks[i].start) : i \in All}
    BY <2>1 DEF Merged
  <2>3. EveryPageServed
    BY ServedAsChunked DEF ConversionInv
  <2>4. returned.pages = [k \in DOMAIN request.document |-> k - 1]
    BY <2>2, <2>3 DEF EveryPageServed
  <2>5. ASSUME NEW f \in returned.found PROVE f[1] = f[2]
    <3>1. PICK i \in All : f \in Rebase(Found(i), chunks[i].start)
      BY <2>2, <2>5
    <3>2. f \in {<<p, p>> : p \in chunks[i].start .. chunks[i].end}
      BY <3>1, Rebased
    <3> QED BY <3>2
  <2>6. ASSUME NEW i \in All
        PROVE  \/ /\ text[i] = "docling"
                  /\ \A p \in chunks[i].start .. chunks[i].end : <<p, p>> \in returned.found
               \/ text[i] = "layer" /\ i \in late
    <3>1. text[i] = "docling" \/ (text[i] = "layer" /\ i \in late)
      BY <2>1 DEF ConversionInv, ThreadInv
    <3>2. ASSUME text[i] = "docling", NEW p \in chunks[i].start .. chunks[i].end
          PROVE  <<p, p>> \in returned.found
      <4>1. <<p, p>> \in Rebase(Found(i), chunks[i].start)
        BY <3>2, Rebased
      <4> QED BY <2>2, <4>1
    <3> QED BY <3>1, <3>2
  <2> QED BY <2>4, <2>5, <2>6
<1> HIDE DEF ConversionSpec, ConversionInv, ResultIsWhole
<1> QED BY <1>1, ConversionInvariant, PTL

-----------------------------------------------------------------------------
(* The verdict (TreeQuality).                                              *)

LEMMA LeastIsIn ==
  ASSUME NEW is \in SUBSET Nat, is # {}
  PROVE  Min(is) \in is
<1>1. \E i \in is : \A j \in is : i <= j
  BY LeastOf
<1>2. Min(is) = CHOOSE i \in is : \A j \in is : i <= j
  BY DEF Min
<1> QED BY <1>1, <1>2

\* The primary defect is one of those that fired, and a garble defect when one did.
LEMMA PrimaryFired ==
  ASSUME NEW D \in SUBSET ToSet(GateOrder), D # {}
  PROVE  Primary(D) \in D /\ (D \cap Garble # {} => Primary(D) \in Garble)
<1> DEFINE pool == IF D \cap Garble # {} THEN D \cap Garble ELSE D
           is == {i \in DOMAIN GateOrder : GateOrder[i] \in pool}
<1>1. DOMAIN GateOrder = 1 .. 10
  BY DEF GateOrder
<1>2. pool \subseteq D /\ pool # {}
  OBVIOUS
<1>3. ToSet(GateOrder) = {GateOrder[i] : i \in DOMAIN GateOrder}
  BY DEF ToSet
<1>4. is # {} /\ is \in SUBSET Nat
  BY <1>1, <1>2, <1>3
<1>5. Min(is) \in is
  <2> HIDE DEF is
  <2> QED BY <1>4, LeastIsIn
<1>6. Primary(D) = GateOrder[Min(is)]
  BY DEF Primary
<1>7. GateOrder[Min(is)] \in pool
  BY <1>5
<1> QED BY <1>2, <1>6, <1>7

\* A tree that is kept, and has none of the defects that fail it or cap it, has none.
LEMMA NoDefectLeft ==
  ASSUME NEW D \in SUBSET ToSet(GateOrder), "tree" \in Routes(Primary(D)),
         D \cap HardFail = {}, Primary(D) # "bidi_degraded"
  PROVE  D = {}
<1> SUFFICES ASSUME D # {} PROVE FALSE
  OBVIOUS
<1>1. Primary(D) \in D
  BY PrimaryFired
<1>2. Primary(D) \in {"node_count_low", "depth_low", "node_garbling", "rtl_reversal"}
  <2>1. \A d \in ToSet(GateOrder) :
          d \in HardFail \cup {"node_count_low", "depth_low", "node_garbling", "rtl_reversal",
                               "bidi_degraded"}
    BY DEF ToSet, GateOrder, HardFail
  <2> QED BY <1>1, <2>1
<1>3. "tree" \notin Routes(Primary(D))
  <2> DEFINE d == Primary(D)
  <2>1. d \in {"node_count_low", "depth_low", "node_garbling", "rtl_reversal"}
    BY <1>2
  <2> HIDE DEF d
  <2>2. "tree" \notin Routes(d)
    BY <2>1 DEF Routes, Garble
  <2> QED BY <2>2 DEF d
<1> QED BY <1>3

\* The path that wins is one that promotes; every path asks that nothing is garbled.
LEMMA PathPromotes ==
  ASSUME NEW s, NEW D, NEW class, NEW known, Promotion(s, D, class, known) # "none"
  PROVE  \E i \in DOMAIN PromotionOrder :
           /\ Promotes(PromotionOrder[i], s, D, class, known)
           /\ Promotion(s, D, class, known) = PromotionOrder[i]
<1> DEFINE won == {i \in DOMAIN PromotionOrder : Promotes(PromotionOrder[i], s, D, class, known)}
<1>1. DOMAIN PromotionOrder = 1 .. 5
  BY DEF PromotionOrder
<1>2. won # {} /\ Promotion(s, D, class, known) = PromotionOrder[Min(won)]
  BY DEF Promotion
<1>3. won \in SUBSET Nat
  BY <1>1
<1>4. Min(won) \in won
  <2> HIDE DEF won
  <2> QED BY <1>2, <1>3, LeastIsIn
<1> QED BY <1>2, <1>4

LEMMA PathsAre ==
  ASSUME NEW i \in DOMAIN PromotionOrder, NEW s, NEW D, NEW class, NEW known
  PROVE  /\ PromotionOrder[i] # "none" /\ PromotionOrder[i] # "image_enrichment_complete"
         /\ Promotes(PromotionOrder[i], s, D, class, known) <=>
              \/ i = 1 /\ ImageEnrichment(s, class, known)
              \/ i = 2 /\ StructuralPass(s, D)
              \/ i = 3 /\ CatB(s, class)
              \/ i = 4 /\ CatC(s, class, known)
              \/ i = 5 /\ SmallDoc(s, class)
<1>1. i \in 1 .. 5
  BY DEF PromotionOrder
<1>2. CASE i = 1
  BY <1>2 DEF PromotionOrder, Promotes
<1>3. CASE i = 2
  BY <1>3 DEF PromotionOrder, Promotes
<1>4. CASE i = 3
  BY <1>4 DEF PromotionOrder, Promotes
<1>5. CASE i = 4
  BY <1>5 DEF PromotionOrder, Promotes
<1>6. CASE i = 5
  BY <1>6 DEF PromotionOrder, Promotes
<1> QED BY <1>1, <1>2, <1>3, <1>4, <1>5, <1>6

LEMMA PromotedIsClean ==
  ASSUME NEW s, NEW D, NEW class, NEW known, Promotion(s, D, class, known) # "none"
  PROVE  ~s.effective
<1>1. PICK i \in DOMAIN PromotionOrder : Promotes(PromotionOrder[i], s, D, class, known)
  BY PathPromotes
<1>2. \/ ImageEnrichment(s, class, known)
      \/ StructuralPass(s, D)
      \/ CatB(s, class)
      \/ CatC(s, class, known)
      \/ SmallDoc(s, class)
  BY <1>1, PathsAre
<1> QED BY <1>2 DEF ImageEnrichment, StructuralPass, CatB, CatC, SmallDoc

LEMMA Fields ==
  ASSUME NEW v, NEW why
  PROVE  Verdict(v, why).verdict = v /\ Verdict(v, why).reason = why
  BY DEF Verdict

LEMMA SettledAs ==
  ASSUME NEW s, NEW D, NEW w \in Settled(s, D)
  PROVE  w = Verdict("FAIL", "zero_content") \/ w = Verdict("FAIL", "hard_fail")
  BY DEF Settled

\* No gate fails what passes: its verdict is a promotion's.
LEMMA PassIsPromoted ==
  ASSUME NEW s, NEW primary, NEW D, NEW class, NEW known,
         ComputeVerdict(s, primary, D, class, known).verdict = "PASS"
  PROVE  /\ D \cap HardFail = {}
         /\ ComputeVerdict(s, primary, D, class, known) = Promote(s, primary, D, class, known)
<1> DEFINE v == ComputeVerdict(s, primary, D, class, known)
<1>1. \A w \in Settled(s, D) : w.verdict = "FAIL"
  BY DEF Settled, Verdict
<1>2. Settled(s, D) = {}
  <2> SUFFICES ASSUME Settled(s, D) # {} PROVE FALSE
    OBVIOUS
  <2>1. v = CHOOSE w \in Settled(s, D) : TRUE
    BY DEF ComputeVerdict
  <2>2. v \in Settled(s, D)
    BY <2>1
  <2>3. v.verdict = "FAIL"
    BY <1>1, <2>2
  <2> QED BY <2>3
<1>3. v = Promote(s, primary, D, class, known)
  BY <1>2 DEF ComputeVerdict
<1>4. D \cap HardFail = {}
  BY <1>2 DEF Settled
<1> QED BY <1>3, <1>4

\* What the PASS of a document that has more than pictures stands on.
LEMMA PassMeans ==
  ASSUME NEW s, NEW primary, NEW D, NEW class, NEW known,
         ComputeVerdict(s, primary, D, class, known).verdict = "PASS",
         class # "image_standalone"
  PROVE  /\ D \cap HardFail = {}
         /\ primary # "bidi_degraded"
         /\ ~s.effective
         /\ ~(s.chars < MarginalChars)
         /\ Above(s.leaf, HardLeafPct) => ImageEnrichment(s, class, known)
<1> DEFINE v == ComputeVerdict(s, primary, D, class, known)
<1>1. D \cap HardFail = {} /\ v = Promote(s, primary, D, class, known)
  BY PassIsPromoted
<1>2. v.verdict = "PASS"
  OBVIOUS
<1> HIDE DEF v
<1>4. ~(s.chars < MarginalChars)
  BY <1>1, <1>2 DEF Promote, Verdict
<1>5. Above(s.leaf, HardLeafPct) => ImageEnrichment(s, class, known)
  BY <1>1, <1>2, <1>4 DEF Promote, Verdict
<1>6. /\ Promotion(s, D, class, known) # "none"
      /\ v = Clamp(Promotion(s, D, class, known), s, primary)
  BY <1>1, <1>2, <1>4, <1>5 DEF Promote, Verdict
<1>7. ~s.effective
  BY <1>6, PromotedIsClean
<1>8. primary # "bidi_degraded"
  BY <1>2, <1>6 DEF Clamp, Verdict
<1> QED BY <1>1, <1>4, <1>5, <1>7, <1>8

\* What the PASS of a document of pictures stands on.
LEMMA PicturesPass ==
  ASSUME NEW s, NEW primary, NEW D, NEW known,
         ComputeVerdict(s, primary, D, "image_standalone", known).verdict = "PASS"
  PROVE  D \cap HardFail = {} /\ known.pictures >= 80
<1>1. /\ D \cap HardFail = {}
      /\ Promote(s, primary, D, "image_standalone", known).verdict = "PASS"
  BY PassIsPromoted
<1>2. ImageVerdict(known).verdict = "PASS"
  BY <1>1 DEF Promote
<1> QED BY <1>1, <1>2 DEF ImageVerdict, Verdict

LEMMA TreesHaveNoClass == NoClass # "image_standalone" /\ ~Flat(NoClass)
  BY Zenon DEF NoClass, Flat

LEMMA PassedTree ==
  ASSUME NEW t, NEW known, NEW D, NEW v,
         D = Fired(Signals(t), t, known), "tree" \in Routes(Primary(D)),
         v = ComputeVerdict(Signals(t), Primary(D), D, NoClass, known),
         v.verdict = "PASS"
  PROVE  /\ ~Signals(t).effective
         /\ ~(Signals(t).chars < MarginalChars)
         /\ ~Above(Signals(t).leaf, HardLeafPct)
         /\ ~Signals(t).reordered /\ ~Signals(t).garbled
         /\ D = {}
<1> DEFINE s == Signals(t)
<1> HIDE DEF s
<1>1. v = ComputeVerdict(s, Primary(D), D, NoClass, known) /\ D = Fired(s, t, known)
  BY DEF s
<1>3. /\ D \cap HardFail = {}
      /\ Primary(D) # "bidi_degraded"
      /\ ~s.effective
      /\ ~(s.chars < MarginalChars)
      /\ Above(s.leaf, HardLeafPct) => ImageEnrichment(s, NoClass, known)
  BY <1>1, PassMeans, TreesHaveNoClass
<1>4. ~Above(s.leaf, HardLeafPct)
  BY <1>3, TreesHaveNoClass DEF ImageEnrichment, Flat
<1>5. D \subseteq ToSet(GateOrder) /\ D = {}
  <2>1. D \in SUBSET ToSet(GateOrder)
    BY <1>1 DEF Fired
  <2> QED BY <1>3, <2>1, NoDefectLeft
<1>6. ~s.reordered /\ ~s.garbled
  <2>1. {"garbling", "reordered"} \subseteq ToSet(GateOrder)
    <3>1. DOMAIN GateOrder = 1 .. 10
      BY DEF GateOrder
    <3>2. GateOrder[1] = "garbling" /\ GateOrder[5] = "reordered"
      BY DEF GateOrder
    <3>3. 1 \in 1 .. 10 /\ 5 \in 1 .. 10
      OBVIOUS
    <3> QED BY <3>1, <3>2, <3>3 DEF ToSet
  <2>2. /\ Fires("reordered", s, t, known) <=> s.reordered
        /\ Fires("garbling", s, t, known) <=> s.garbled
    BY DEF Fires
  <2> QED BY <1>1, <1>5, <2>1, <2>2 DEF Fired
<1> QED BY <1>3, <1>4, <1>5, <1>6 DEF s

\* What is known of the document once the gates were asked, and of its verdict.
RouteChosen ==
  step = "verdict" =>
    /\ route \in {"tree", "flat"}
    /\ route = "tree" => /\ defects = Fired(Signals(tree), tree, facts)
                         /\ "tree" \in Routes(Primary(defects))
VerdictInv == RouteChosen /\ (step # "over" => judged = Unjudged) /\ PassIsClean

LEMMA NotJudged == judged = Unjudged => PassIsClean
  BY DEF Unjudged, Verdict, PassIsClean

LEMMA VerdictBegins == TreeInit => VerdictInv
  BY NotJudged DEF TreeInit, VerdictInv, RouteChosen

\* A document on its way has no verdict.
LEMMA OnTheWay ==
  ASSUME VerdictInv, step # "over", judged' = judged
  PROVE  judged' = Unjudged' /\ PassIsClean'
<1>1. judged' = Unjudged /\ Unjudged' = Unjudged
  BY DEF VerdictInv, Unjudged, Verdict
<1>2. judged'.verdict # "PASS"
  BY <1>1, Fields DEF Unjudged
<1> QED BY <1>1, <1>2 DEF PassIsClean

LEMMA MovesKeepVerdict ==
  ASSUME VerdictInv, Split \/ SplitDone \/ SegmentTables \/ SegmentDone
  PROVE  VerdictInv'
<1>1. step # "over" /\ judged' = judged /\ step' # "verdict"
  BY DEF Split, SplitDone, SegmentTables, SegmentDone, Judging
<1> QED BY <1>1, OnTheWay DEF VerdictInv, RouteChosen

LEMMA GateKeepsVerdict ==
  ASSUME VerdictInv, Gate
  PROVE  VerdictInv'
<1>1. step # "over" /\ judged' = judged
  BY DEF Gate
<1>2. RouteChosen'
  <2>1. ASSUME step' = "verdict"
        PROVE  /\ route' \in {"tree", "flat"}
               /\ defects' = Fired(Signals(tree'), tree', facts')
               /\ route' \in Routes(Primary(defects'))
    <3>1. route' # "reject" /\ route' \in Routes(Primary(defects'))
      BY <2>1 DEF Gate
    <3>2. \A d : Routes(d) \subseteq {"tree", "flat", "reject"}
      BY DEF Routes
    <3>3. defects' = Fired(Signals(tree), tree, facts) /\ tree' = tree /\ facts' = facts
      BY DEF Gate
    <3>4. Fired(Signals(tree), tree, facts) = Fired(Signals(tree'), tree', facts')
      BY <3>3
    <3> QED BY <3>1, <3>2, <3>3, <3>4
  <2> QED BY <2>1 DEF RouteChosen
<1> QED BY <1>1, <1>2, OnTheWay DEF VerdictInv

LEMMA JudgeTreeKeepsVerdict ==
  ASSUME VerdictInv, JudgeTree
  PROVE  VerdictInv'
<1>1. /\ step = "verdict" /\ route = "tree" /\ step' = "over"
      /\ tree' = tree /\ facts' = facts /\ defects' = defects /\ route' = route
      /\ judged' = ComputeVerdict(Signals(tree), Primary(defects), defects, NoClass, facts)
  BY DEF JudgeTree
<1>2. defects = Fired(Signals(tree), tree, facts) /\ "tree" \in Routes(Primary(defects))
  BY <1>1 DEF VerdictInv, RouteChosen
<1>3. judged'.verdict = "PASS" =>
        /\ ~Signals(tree).effective
        /\ ~(Signals(tree).chars < MarginalChars)
        /\ ~Above(Signals(tree).leaf, HardLeafPct)
        /\ ~Signals(tree).reordered /\ ~Signals(tree).garbled
        /\ defects = {}
  BY <1>1, <1>2, PassedTree
<1>4. Signals(IF route' = "tree" THEN tree' ELSE JudgedFlat') = Signals(tree)
  BY <1>1
<1>5. PassIsClean'
  BY <1>1, <1>3, <1>4 DEF PassIsClean
<1> QED BY <1>1, <1>5 DEF VerdictInv, RouteChosen

LEMMA JudgeFlatKeepsVerdict ==
  ASSUME VerdictInv, JudgeFlat
  PROVE  VerdictInv'
<1> DEFINE s == Signals(JudgedFlat)
           class == ContentClass(blocks)
           v == ComputeVerdict(s, "ok", WithoutGates(s), class, facts)
<1>1. /\ step = "verdict" /\ route = "flat" /\ step' = "over"
      /\ tree' = tree /\ facts' = facts /\ blocks' = blocks /\ route' = route
      /\ ~BlocksGarbled(blocks)
      /\ judged' = v
  BY DEF JudgeFlat
<1>2. JudgedFlat' = JudgedFlat
  BY <1>1 DEF JudgedFlat
<1>3. Signals(IF route' = "tree" THEN tree' ELSE JudgedFlat') = s
  BY <1>1, <1>2
<1>4. ContentClass(blocks') = class /\ ~BlocksGarbled(blocks')
  BY <1>1
<1>5. v.verdict = "PASS" =>
        /\ ~s.reordered
        /\ IF class = "image_standalone" THEN facts.pictures >= 80
           ELSE /\ ~s.effective
                /\ ~(s.chars < MarginalChars)
                /\ Above(s.leaf, HardLeafPct) => facts.pictures >= 80
  <2> HIDE DEF s, class
  <2>1. ASSUME v.verdict = "PASS", class = "image_standalone"
        PROVE  WithoutGates(s) \cap HardFail = {} /\ facts.pictures >= 80
    BY <2>1, PicturesPass
  <2>2. ASSUME v.verdict = "PASS", class # "image_standalone"
        PROVE  /\ WithoutGates(s) \cap HardFail = {}
               /\ ~s.effective
               /\ ~(s.chars < MarginalChars)
               /\ Above(s.leaf, HardLeafPct) => ImageEnrichment(s, class, facts)
    BY <2>2, PassMeans
  <2>3. ImageEnrichment(s, class, facts) => facts.pictures >= 80
    BY DEF ImageEnrichment
  <2>4. WithoutGates(s) \cap HardFail = {} => ~s.reordered
    BY DEF WithoutGates, HardFail
  <2> HIDE DEF v
  <2> QED BY <2>1, <2>2, <2>3, <2>4
<1> HIDE DEF s, v, class
<1>6. PassIsClean'
  BY <1>1, <1>3, <1>4, <1>5 DEF PassIsClean
<1> QED BY <1>1, <1>6 DEF VerdictInv, RouteChosen

LEMMA VerdictStep == VerdictInv /\ [TreeNext]_treeVars => VerdictInv'
<1> SUFFICES ASSUME VerdictInv, [TreeNext]_treeVars PROVE VerdictInv'
  OBVIOUS
<1>1. CASE Split \/ SplitDone \/ SegmentTables \/ SegmentDone
  BY <1>1, MovesKeepVerdict
<1>2. CASE Gate
  BY <1>2, GateKeepsVerdict
<1>3. CASE JudgeTree
  BY <1>3, JudgeTreeKeepsVerdict
<1>4. CASE FlatReject
  <2>1. step # "over" /\ step' = "over" /\ judged' = judged
    BY <1>4 DEF FlatReject
  <2> QED BY <2>1, OnTheWay DEF VerdictInv, RouteChosen
<1>5. CASE JudgeFlat
  BY <1>5, JudgeFlatKeepsVerdict
<1>6. CASE UNCHANGED treeVars
  <2>1. /\ tree' = tree /\ facts' = facts /\ step' = step /\ defects' = defects
        /\ route' = route /\ blocks' = blocks /\ judged' = judged
    BY <1>6 DEF treeVars
  <2>2. RouteChosen' /\ (step' # "over" => judged' = Unjudged')
    BY <2>1 DEF VerdictInv, RouteChosen, Unjudged
  <2>3. JudgedFlat' = JudgedFlat
    BY <2>1 DEF JudgedFlat
  <2>4. Signals(IF route' = "tree" THEN tree' ELSE JudgedFlat')
          = Signals(IF route = "tree" THEN tree ELSE JudgedFlat)
    BY <2>1, <2>3
  <2>5. PassIsClean'
    BY <2>1, <2>4 DEF VerdictInv, PassIsClean
  <2> QED BY <2>2, <2>5 DEF VerdictInv
<1> QED BY <1>1, <1>2, <1>3, <1>4, <1>5, <1>6 DEF TreeNext

\* A document whose verdict is PASS is in order; a tree among them has no defect and nothing
\* garbled, a flat document less text in garbled blocks than its reject asks for.  Pictures
\* alone pass when they are described; anything else has text enough, fewer garbled windows
\* than their threshold, and no leaf with nearly all of it unless its pictures are described.
THEOREM PassesAreClean == TreeSpec => []PassIsClean
<1>1. TreeInit => VerdictInv
  BY VerdictBegins
<1>2. VerdictInv /\ [TreeNext]_treeVars => VerdictInv'
  BY VerdictStep
<1>3. VerdictInv => PassIsClean
  BY DEF VerdictInv
<1> HIDE DEF VerdictInv
<1> QED BY <1>1, <1>2, <1>3, PTL DEF TreeSpec

\* What a document that measures better has in common with the one it is compared with.
NoWorse(t, s) ==
  /\ t.nodes = s.nodes /\ t.depth = s.depth /\ t.expected = s.expected /\ t.chars = s.chars
  /\ t.hashes = s.hashes /\ t.images = s.images /\ t.lines = s.lines
  /\ t.reordered = s.reordered
  /\ (t.garbled => s.garbled) /\ (t.effective => s.effective)
  /\ t.leaf = [part |-> t.leaf.part, whole |-> s.leaf.whole]
  /\ s.leaf = [part |-> s.leaf.part, whole |-> s.leaf.whole]
  /\ t.leaf.part \in Int /\ s.leaf.part \in Int /\ s.leaf.whole \in Int
  /\ t.leaf.part <= s.leaf.part

LEMMA LessInALeaf ==
  ASSUME NEW p \in Int, NEW q \in Int, NEW whole \in Int, NEW pct \in Int, p <= q
  PROVE  /\ 100 * q < pct * whole => 100 * p < pct * whole
         /\ 100 * p > pct * whole => 100 * q > pct * whole
         /\ 100 * (10 * q) < pct * whole => 100 * (10 * p) < pct * whole
<1>1. pct * whole \in Int
  OBVIOUS
<1> DEFINE bound == pct * whole
<1> HIDE DEF bound
<1>2. bound \in Int
  BY <1>1 DEF bound
<1>3. /\ 100 * q < bound => 100 * p < bound
      /\ 100 * p > bound => 100 * q > bound
      /\ 100 * (10 * q) < bound => 100 * (10 * p) < bound
  BY <1>2
<1> QED BY <1>3 DEF bound

LEMMA BelowStays ==
  ASSUME NEW s, NEW t, NoWorse(t, s), NEW pct \in Int
  PROVE  /\ Below(s.leaf, pct) => Below(t.leaf, pct)
         /\ Above(t.leaf, pct) => Above(s.leaf, pct)
         /\ Below([s.leaf EXCEPT !.part = 10 * @], pct)
              => Below([t.leaf EXCEPT !.part = 10 * @], pct)
<1> DEFINE p == t.leaf.part
           q == s.leaf.part
           whole == s.leaf.whole
<1>1. /\ p \in Int /\ q \in Int /\ whole \in Int /\ p <= q
      /\ t.leaf = [part |-> p, whole |-> whole] /\ s.leaf = [part |-> q, whole |-> whole]
  BY DEF NoWorse
<1> HIDE DEF p, q, whole
<1>2. /\ 100 * q < pct * whole => 100 * p < pct * whole
      /\ 100 * p > pct * whole => 100 * q > pct * whole
      /\ 100 * (10 * q) < pct * whole => 100 * (10 * p) < pct * whole
  BY <1>1, LessInALeaf
<1>3. /\ [s.leaf EXCEPT !.part = 10 * @] = [part |-> 10 * q, whole |-> whole]
      /\ [t.leaf EXCEPT !.part = 10 * @] = [part |-> 10 * p, whole |-> whole]
  BY <1>1
<1>4. \A x : /\ Below([part |-> x, whole |-> whole], pct) <=> 100 * x < pct * whole
             /\ Above([part |-> x, whole |-> whole], pct) <=> 100 * x > pct * whole
  BY DEF Below, Above
<1> QED BY <1>1, <1>2, <1>3, <1>4

LEMMA PctsAreInt ==
  /\ HardLeafPct \in Int /\ PassLeafPct \in Int /\ PromoLeafPct \in Int
  /\ SmallLowPct \in Int /\ SmallHighPct \in Int
  /\ PromoLeafPct * 12 \in Int /\ PromoLeafPct * 10 \in Int
<1>1. /\ HardLeafPct \in Int /\ PassLeafPct \in Int /\ PromoLeafPct \in Int
      /\ SmallLowPct \in Int /\ SmallHighPct \in Int
  BY VerdictAssumption
<1> QED BY <1>1

\* More of the pictures described, and nothing else that differs.
MoreDescribed(g, f) ==
  g.inspector = f.inspector /\ g.pictures \in Int /\ f.pictures \in Int /\ g.pictures >= f.pictures

\* A path that promotes a document promotes a better one.
LEMMA PathsStayOpen ==
  ASSUME NEW s, NEW t, NoWorse(t, s), NEW f, NEW g, MoreDescribed(g, f), NEW D, NEW class
  PROVE  /\ ImageEnrichment(s, class, f) => ImageEnrichment(t, class, g)
         /\ StructuralPass(s, D) => StructuralPass(t, D)
         /\ CatB(s, class) => CatB(t, class)
         /\ CatC(s, class, f) => CatC(t, class, g)
         /\ SmallDoc(s, class) => SmallDoc(t, class)
<1>1. /\ t.nodes = s.nodes /\ t.chars = s.chars /\ t.hashes = s.hashes
      /\ t.images = s.images /\ t.lines = s.lines
      /\ (t.garbled => s.garbled) /\ (t.effective => s.effective)
  BY DEF NoWorse
<1>2. ImageEnrichment(s, class, f) => ImageEnrichment(t, class, g)
  <2>1. f.pictures >= 80 => g.pictures >= 80
    BY DEF MoreDescribed
  <2> QED BY <1>1, <2>1 DEF ImageEnrichment
<1>3. StructuralPass(s, D) => StructuralPass(t, D)
  <2>1. Below(s.leaf, PassLeafPct) => Below(t.leaf, PassLeafPct)
    BY PctsAreInt, BelowStays
  <2> QED BY <1>1, <2>1 DEF StructuralPass
<1>4. CatB(s, class) => CatB(t, class)
  <2>1. Below(s.leaf, PromoLeafPct) => Below(t.leaf, PromoLeafPct)
    BY PctsAreInt, BelowStays
  <2> QED BY <1>1, <2>1 DEF CatB
<1>5. CatC(s, class, f) => CatC(t, class, g)
  <2> DEFINE pct(h) == PromoLeafPct * (IF h.inspector = "text_based" THEN 12 ELSE 10)
  <2>1. pct(f) = pct(g) /\ pct(f) \in Int
    BY PctsAreInt DEF MoreDescribed
  <2>2. CatC(s, class, f) => /\ ~Flat(class) /\ ~s.effective /\ 100 * s.hashes < s.chars
                             /\ Below([s.leaf EXCEPT !.part = 10 * @], pct(f))
    BY DEF CatC
  <2>3. /\ ~Flat(class) /\ ~t.effective /\ 100 * t.hashes < t.chars
        /\ Below([t.leaf EXCEPT !.part = 10 * @], pct(g))
        => CatC(t, class, g)
    BY DEF CatC
  <2> HIDE DEF pct
  <2>4. Below([s.leaf EXCEPT !.part = 10 * @], pct(f)) => Below([t.leaf EXCEPT !.part = 10 * @], pct(g))
    BY <2>1, BelowStays
  <2> QED BY <1>1, <2>2, <2>3, <2>4
<1>6. SmallDoc(s, class) => SmallDoc(t, class)
  <2> DEFINE pct == IF s.nodes <= 5 THEN SmallHighPct ELSE SmallLowPct
  <2>1. pct \in Int /\ (IF t.nodes <= 5 THEN SmallHighPct ELSE SmallLowPct) = pct
    BY <1>1, PctsAreInt
  <2>2. Below(s.leaf, pct) => Below(t.leaf, pct)
    <3> HIDE DEF pct
    <3> QED BY <2>1, BelowStays
  <2> QED BY <1>1, <2>1, <2>2 DEF SmallDoc
<1> QED BY <1>2, <1>3, <1>4, <1>5, <1>6

LEMMA StillPromoted ==
  ASSUME NEW s, NEW t, NoWorse(t, s), NEW f, NEW g, MoreDescribed(g, f), NEW D, NEW class,
         Promotion(s, D, class, f) # "none"
  PROVE  Promotion(t, D, class, g) # "none"
<1> DEFINE Open(x, h) == {i \in DOMAIN PromotionOrder : Promotes(PromotionOrder[i], x, D, class, h)}
<1>1. PICK i \in DOMAIN PromotionOrder : Promotes(PromotionOrder[i], s, D, class, f)
  BY PathPromotes
<1>2. Promotes(PromotionOrder[i], t, D, class, g)
  <2>1. /\ ImageEnrichment(s, class, f) => ImageEnrichment(t, class, g)
        /\ StructuralPass(s, D) => StructuralPass(t, D)
        /\ CatB(s, class) => CatB(t, class)
        /\ CatC(s, class, f) => CatC(t, class, g)
        /\ SmallDoc(s, class) => SmallDoc(t, class)
    BY PathsStayOpen
  <2> QED BY <1>1, <2>1, PathsAre
<1>3. Open(t, g) # {}
  BY <1>2
<1>4. Open(t, g) \in SUBSET Nat
  BY DEF PromotionOrder
<1>5. Min(Open(t, g)) \in Open(t, g)
  <2> HIDE DEF Open
  <2> QED BY <1>3, <1>4, LeastIsIn
<1>6. Promotion(t, D, class, g) = PromotionOrder[Min(Open(t, g))]
  BY <1>3 DEF Promotion
<1> QED BY <1>5, <1>6, PathsAre

LEMMA RankOf ==
  Rank["FAIL"] = 0 /\ Rank["MARGINAL"] = 1 /\ Rank["PASS"] = 2
  BY DEF Rank

LEMMA PromoteIs ==
  ASSUME NEW s, NEW primary, NEW D, NEW class, NEW f
  PROVE  Promote(s, primary, D, class, f).verdict \in {"FAIL", "MARGINAL", "PASS"}
<1> DEFINE v == Promote(s, primary, D, class, f)
<1>1. \E x \in {"FAIL", "MARGINAL", "PASS"} : \E why : v = Verdict(x, why)
  <2>1. CASE class = "image_standalone"
    BY <2>1 DEF Promote, ImageVerdict
  <2>2. CASE class # "image_standalone"
    <3>1. \E x \in {"FAIL", "MARGINAL", "PASS"} : \E why :
            Clamp(Promotion(s, D, class, f), s, primary) = Verdict(x, why)
      BY DEF Clamp
    <3> QED BY <2>2, <3>1 DEF Promote
  <2> QED BY <2>1, <2>2
<1> HIDE DEF v
<1>2. v.verdict \in {"FAIL", "MARGINAL", "PASS"}
  BY <1>1, Fields
<1> QED BY <1>2 DEF v

LEMMA PromoteGrows ==
  ASSUME NEW s, NEW t, NoWorse(t, s), NEW f, NEW g, MoreDescribed(g, f),
         NEW primary, NEW D, NEW class
  PROVE  Rank[Promote(t, primary, D, class, g).verdict]
           >= Rank[Promote(s, primary, D, class, f).verdict]
<1> DEFINE v == Promote(s, primary, D, class, f)
           w == Promote(t, primary, D, class, g)
<1> SUFFICES Rank[w.verdict] >= Rank[v.verdict]
  OBVIOUS
<1>1. /\ v.verdict \in {"FAIL", "MARGINAL", "PASS"}
      /\ w.verdict \in {"FAIL", "MARGINAL", "PASS"}
  BY PromoteIs
<1>2. t.chars = s.chars /\ t.depth = s.depth /\ t.expected = s.expected
  BY DEF NoWorse
<1>3. CASE class = "image_standalone"
  <2>1. v = ImageVerdict(f) /\ w = ImageVerdict(g)
    BY <1>3 DEF Promote
  <2>2. /\ f.pictures >= 80 => g.pictures >= 80
        /\ f.pictures > 0 => g.pictures > 0
    BY DEF MoreDescribed
  <2> HIDE DEF v, w
  <2>3. CASE f.pictures >= 80
    <3>1. w.verdict = "PASS"
      BY <2>1, <2>2, <2>3, Fields DEF ImageVerdict
    <3> QED BY <1>1, <3>1, RankOf
  <2>4. CASE ~(f.pictures >= 80) /\ f.pictures > 0
    <3>1. v.verdict = "MARGINAL"
      BY <2>1, <2>4, Fields DEF ImageVerdict
    <3>2. w.verdict = "PASS" \/ w.verdict = "MARGINAL"
      BY <2>1, <2>2, <2>4, Fields DEF ImageVerdict
    <3> QED BY <3>1, <3>2, RankOf
  <2>5. CASE ~(f.pictures >= 80) /\ ~(f.pictures > 0)
    <3>1. v.verdict = "FAIL"
      BY <2>1, <2>5, Fields DEF ImageVerdict
    <3> QED BY <1>1, <3>1, RankOf
  <2> QED BY <2>3, <2>4, <2>5
<1>4. CASE class # "image_standalone" /\ s.chars < MarginalChars
  <2>1. v.verdict = "FAIL"
    BY <1>4, Fields DEF Promote
  <2> HIDE DEF v, w
  <2> QED BY <1>1, <2>1, RankOf
<1>5. CASE /\ class # "image_standalone" /\ ~(s.chars < MarginalChars)
           /\ Above(s.leaf, HardLeafPct) /\ ~ImageEnrichment(s, class, f)
  <2>1. v.verdict = "FAIL"
    BY <1>5, Fields DEF Promote
  <2> HIDE DEF v, w
  <2> QED BY <1>1, <2>1, RankOf
<1>6. CASE /\ class # "image_standalone" /\ ~(s.chars < MarginalChars)
           /\ ~(Above(s.leaf, HardLeafPct) /\ ~ImageEnrichment(s, class, f))
  <2>1. ~(Above(t.leaf, HardLeafPct) /\ ~ImageEnrichment(t, class, g))
    <3>1. Above(t.leaf, HardLeafPct) => Above(s.leaf, HardLeafPct)
      BY PctsAreInt, BelowStays
    <3>2. ImageEnrichment(s, class, f) => ImageEnrichment(t, class, g)
      BY PathsStayOpen
    <3> QED BY <1>6, <3>1, <3>2
  <2> DEFINE a == Promotion(s, D, class, f)
             b == Promotion(t, D, class, g)
  <2>2. v = IF a = "none" THEN Verdict("MARGINAL", "fallback") ELSE Clamp(a, s, primary)
    BY <1>6 DEF Promote
  <2>3. w = IF b = "none" THEN Verdict("MARGINAL", "fallback") ELSE Clamp(b, t, primary)
    BY <1>2, <1>6, <2>1 DEF Promote
  <2>4. a # "none" => b # "none" /\ ~s.effective /\ ~t.effective
    <3>1. a # "none" => b # "none"
      BY StillPromoted
    <3>2. a # "none" => ~s.effective
      BY PromotedIsClean
    <3> QED BY <3>1, <3>2 DEF NoWorse
  <2> HIDE DEF v, w, a, b
  <2>5. CASE a = "none"
    <3>1. v.verdict = "MARGINAL"
      BY <2>2, <2>5, Fields
    <3>2. w.verdict = "PASS" \/ w.verdict = "MARGINAL"
      BY <2>3, Fields DEF Clamp
    <3> QED BY <3>1, <3>2, RankOf
  <2>6. CASE a # "none"
    <3> DEFINE x == IF primary = "bidi_degraded" \/ (s.depth < s.expected /\ ~s.effective)
                    THEN "MARGINAL" ELSE "PASS"
    <3>1. v.verdict = x
      BY <2>2, <2>6, Fields DEF Clamp
    <3>2. w.verdict = x
      BY <1>2, <2>3, <2>4, <2>6, Fields DEF Clamp
    <3>3. x \in {"MARGINAL", "PASS"}
      OBVIOUS
    <3> HIDE DEF x
    <3> QED BY <3>1, <3>2, <3>3, RankOf
  <2> QED BY <2>5, <2>6
<1> QED BY <1>3, <1>4, <1>5, <1>6

LEMMA VerdictGrows ==
  ASSUME NEW s, NEW t, NoWorse(t, s), NEW f, NEW g, MoreDescribed(g, f),
         NEW primary, NEW D, NEW class
  PROVE  Rank[ComputeVerdict(t, primary, D, class, g).verdict]
           >= Rank[ComputeVerdict(s, primary, D, class, f).verdict]
<1>1. t.nodes = s.nodes /\ t.chars = s.chars
  BY DEF NoWorse
<1>2. Settled(t, D) = Settled(s, D)
  BY <1>1 DEF Settled
<1>3. CASE Settled(s, D) # {}
  <2> DEFINE v == CHOOSE w \in Settled(s, D) : TRUE
  <2>1. v \in Settled(s, D)
    BY <1>3
  <2> HIDE DEF v
  <2>2. v.verdict = "FAIL"
    BY <2>1, SettledAs, Fields
  <2>3. ComputeVerdict(t, primary, D, class, g) = v /\ ComputeVerdict(s, primary, D, class, f) = v
    BY <1>2, <1>3 DEF ComputeVerdict, v
  <2> QED BY <2>2, <2>3, RankOf
<1>4. CASE Settled(s, D) = {}
  <2>1. /\ ComputeVerdict(t, primary, D, class, g) = Promote(t, primary, D, class, g)
        /\ ComputeVerdict(s, primary, D, class, f) = Promote(s, primary, D, class, f)
    BY <1>2, <1>4 DEF ComputeVerdict
  <2> QED BY <2>1, PromoteGrows
<1> QED BY <1>3, <1>4

\* The measures of a leaf are numbers.
Weighed(s) == s.leaf.part \in Int /\ s.leaf.whole \in Int

LEMMA BetterIsNoWorse ==
  ASSUME NEW one, Weighed(Signals(one)), NEW t \in Better(Signals(one))
  PROVE  NoWorse(t, Signals(one))
<1> DEFINE s == Signals(one)
<1>1. \E nodes, depth, part, whole, chars, garbled, effective, reordered, expected, hashes, images, lines :
        s = [nodes |-> nodes, depth |-> depth, leaf |-> [part |-> part, whole |-> whole],
             chars |-> chars, garbled |-> garbled, effective |-> effective,
             reordered |-> reordered, expected |-> expected, hashes |-> hashes,
             images |-> images, lines |-> lines]
  BY DEF Signals, LeafRatio
<1> HIDE DEF s
<1>2. PICK nodes, depth, part, whole, chars, garbled, effective, reordered, expected, hashes, images, lines :
        s = [nodes |-> nodes, depth |-> depth, leaf |-> [part |-> part, whole |-> whole],
             chars |-> chars, garbled |-> garbled, effective |-> effective,
             reordered |-> reordered, expected |-> expected, hashes |-> hashes,
             images |-> images, lines |-> lines]
  BY <1>1
<1>3. part \in Int /\ whole \in Int
  BY <1>2 DEF Weighed, s
<1>4. \/ t = s
      \/ t = [s EXCEPT !.garbled = FALSE, !.effective = FALSE]
      \/ \E p \in 1 .. part : t = [s EXCEPT !.leaf.part = p]
  BY <1>2 DEF Better, s
<1>5. CASE t = s
  BY <1>2, <1>3, <1>5 DEF NoWorse, s
<1>6. CASE t = [s EXCEPT !.garbled = FALSE, !.effective = FALSE]
  <2>1. t = [nodes |-> nodes, depth |-> depth, leaf |-> [part |-> part, whole |-> whole],
             chars |-> chars, garbled |-> FALSE, effective |-> FALSE,
             reordered |-> reordered, expected |-> expected, hashes |-> hashes,
             images |-> images, lines |-> lines]
    BY <1>2, <1>6
  <2> QED BY <1>2, <1>3, <2>1 DEF NoWorse, s
<1>7. ASSUME NEW p \in 1 .. part, t = [s EXCEPT !.leaf.part = p]
      PROVE  NoWorse(t, s)
  <2>1. t = [nodes |-> nodes, depth |-> depth, leaf |-> [part |-> p, whole |-> whole],
             chars |-> chars, garbled |-> garbled, effective |-> effective,
             reordered |-> reordered, expected |-> expected, hashes |-> hashes,
             images |-> images, lines |-> lines]
    BY <1>2, <1>7
  <2>2. p \in Int /\ p <= part
    BY <1>3
  <2> QED BY <1>2, <1>3, <2>1, <2>2 DEF NoWorse, s
<1> QED BY <1>4, <1>5, <1>6, <1>7 DEF s

\* A verdict is that of the document as it is.
VerdictIsDue ==
  judged # Unjudged =>
    /\ route \in {"tree", "flat"}
    /\ judged = Again(Signals(IF route = "tree" THEN tree ELSE JudgedFlat), facts)
FactsKnown ==
  facts \in [pages : Nat, script : STRING, reversed : BOOLEAN, presForms : BOOLEAN,
            orientation : STRING, pictures : Int, inspector : STRING]
DueInv == (step # "over" => judged = Unjudged) /\ VerdictIsDue /\ FactsKnown

LEMMA DueBegins == TreeInit => DueInv
<1> SUFFICES ASSUME TreeInit PROVE DueInv
  OBVIOUS
<1>1. judged = Unjudged
  BY DEF TreeInit
<1>2. FactsKnown
  BY CasesAreKnown DEF TreeInit, FactsKnown
<1> QED BY <1>1, <1>2 DEF DueInv, VerdictIsDue

LEMMA DueOnTheWay ==
  ASSUME DueInv, step # "over", judged' = judged, facts' = facts
  PROVE  DueInv'
<1>1. judged' = Unjudged /\ Unjudged' = Unjudged
  BY DEF DueInv, Unjudged, Verdict
<1>2. FactsKnown'
  BY DEF DueInv, FactsKnown
<1> QED BY <1>1, <1>2 DEF DueInv, VerdictIsDue

LEMMA DueStep == DueInv /\ [TreeNext]_treeVars => DueInv'
<1> SUFFICES ASSUME DueInv, [TreeNext]_treeVars PROVE DueInv'
  OBVIOUS
<1>1. CASE Split \/ SplitDone \/ SegmentTables \/ SegmentDone \/ Gate \/ FlatReject
  <2>1. step # "over" /\ judged' = judged /\ facts' = facts
    BY <1>1 DEF Split, SplitDone, SegmentTables, SegmentDone, Gate, FlatReject, Judging
  <2> QED BY <2>1, DueOnTheWay
<1>2. CASE JudgeTree
  <2>1. /\ step' = "over" /\ route = "tree" /\ route' = "tree"
        /\ tree' = tree /\ facts' = facts /\ defects' = defects
        /\ judged' = ComputeVerdict(Signals(tree), Primary(defects), defects, NoClass, facts)
    BY <1>2 DEF JudgeTree
  <2>2. Again(Signals(tree), facts)'
          = ComputeVerdict(Signals(tree), Primary(defects), defects, NoClass, facts)
    BY <2>1 DEF Again
  <2>3. Again(Signals(IF route = "tree" THEN tree ELSE JudgedFlat), facts)'
          = Again(Signals(tree), facts)'
    BY <2>1
  <2>4. FactsKnown'
    BY <2>1 DEF DueInv, FactsKnown
  <2> QED BY <2>1, <2>2, <2>3, <2>4 DEF DueInv, VerdictIsDue
<1>3. CASE JudgeFlat
  <2> DEFINE s == Signals(JudgedFlat)
  <2>1. /\ step' = "over" /\ route = "flat" /\ route' = "flat"
        /\ tree' = tree /\ facts' = facts /\ blocks' = blocks
        /\ judged' = ComputeVerdict(s, "ok", WithoutGates(s), ContentClass(blocks), facts)
    BY <1>3 DEF JudgeFlat
  <2>2. JudgedFlat' = JudgedFlat
    BY <2>1 DEF JudgedFlat
  <2>3. Again(Signals(IF route = "tree" THEN tree ELSE JudgedFlat), facts)'
          = ComputeVerdict(s, "ok", WithoutGates(s), ContentClass(blocks), facts)
    BY <2>1, <2>2 DEF Again
  <2>4. FactsKnown'
    BY <2>1 DEF DueInv, FactsKnown
  <2> QED BY <2>1, <2>3, <2>4 DEF DueInv, VerdictIsDue
<1>4. CASE UNCHANGED treeVars
  <2>1. /\ tree' = tree /\ facts' = facts /\ step' = step /\ defects' = defects
        /\ route' = route /\ blocks' = blocks /\ judged' = judged
    BY <1>4 DEF treeVars
  <2>2. JudgedFlat' = JudgedFlat
    BY <2>1 DEF JudgedFlat
  <2>3. Again(Signals(IF route = "tree" THEN tree ELSE JudgedFlat), facts)'
          = Again(Signals(IF route = "tree" THEN tree ELSE JudgedFlat), facts)
    BY <2>1, <2>2 DEF Again
  <2>4. FactsKnown'
    BY <2>1 DEF DueInv, FactsKnown
  <2>5. Unjudged' = Unjudged
    BY DEF Unjudged, Verdict
  <2> QED BY <2>1, <2>3, <2>4, <2>5 DEF DueInv, VerdictIsDue
<1> QED BY <1>1, <1>2, <1>3, <1>4 DEF TreeNext

JudgedDoc == IF route = "tree" THEN tree ELSE JudgedFlat
LeafWeighed == Weighed(Signals(JudgedDoc))

LEMMA DueIsMonotone == DueInv /\ LeafWeighed => VerdictMonotone
<1> SUFFICES ASSUME DueInv, LeafWeighed, judged # Unjudged,
                    NEW t \in Better(Signals(JudgedDoc)),
                    NEW pictures \in {facts.pictures, 80}, pictures >= facts.pictures
             PROVE  Rank[Again(t, [facts EXCEPT !.pictures = pictures]).verdict]
                      >= Rank[judged.verdict]
  BY DEF VerdictMonotone, JudgedDoc
<1> DEFINE s == Signals(JudgedDoc)
           g == [facts EXCEPT !.pictures = pictures]
<1>1. judged = Again(s, facts)
  BY DEF DueInv, VerdictIsDue, JudgedDoc
<1>2. NoWorse(t, s)
  BY BetterIsNoWorse DEF LeafWeighed
<1>3. MoreDescribed(g, facts)
  BY DEF DueInv, FactsKnown, MoreDescribed
<1>4. t.reordered = s.reordered
  BY <1>2 DEF NoWorse
<1> HIDE DEF s, g
<1>5. CASE route = "tree"
  <2>1. \A x, f : Again(x, f) = ComputeVerdict(x, Primary(defects), defects, NoClass, f)
    BY <1>5 DEF Again
  <2>2. Rank[Again(t, g).verdict] >= Rank[Again(s, facts).verdict]
    BY <1>2, <1>3, <2>1, VerdictGrows
  <2> QED BY <1>1, <2>2 DEF g
<1>6. CASE route # "tree"
  <2>1. \A x, f : Again(x, f) = ComputeVerdict(x, "ok", WithoutGates(x), ContentClass(blocks), f)
    BY <1>6 DEF Again
  <2>2. WithoutGates(t) = WithoutGates(s)
    BY <1>4 DEF WithoutGates
  <2>3. Rank[Again(t, g).verdict] >= Rank[Again(s, facts).verdict]
    BY <1>2, <1>3, <2>1, <2>2, VerdictGrows
  <2> QED BY <1>1, <2>3 DEF g
<1> QED BY <1>5, <1>6

\* A document that measures better is not judged worse, by whatever path: with less of it
\* in one leaf, without the garbling, or with more of its pictures described.  The measures
\* of the leaf that holds most are numbers in every state the run visits.
THEOREM BetterIsJudgedNoWorse == TreeSpec => [](LeafWeighed => VerdictMonotone)
<1>1. DueInv => (LeafWeighed => VerdictMonotone)
  BY DueIsMonotone
<1> HIDE DEF DueInv, LeafWeighed, VerdictMonotone
<1> QED BY <1>1, DueBegins, DueStep, PTL DEF TreeSpec

==============================================================================
