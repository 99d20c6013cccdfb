----------------------------- MODULE ReaderProofs -----------------------------
(***************************************************************************)
(* Proofs about what moneroid reads of the host: DataApiRead for any       *)
(* number of rewrites, Journal for any number of lines and any limit of    *)
(* the output, ParamsFile for every file and every node.                   *)
(***************************************************************************)
EXTENDS DataApiRead, Journal, ParamsFile, Recursion, SequenceTheorems, FiniteSetTheorems, TLAPS

-----------------------------------------------------------------------------
(* The files of the Data API. *)

\* The file: a piece is missing or of the last rewrite, and both are there unless the
\* writer is at work or was killed.
FileInv ==
    /\ stamp \in Nat /\ start \in Nat /\ start <= stamp
    /\ head \in {0, stamp} /\ tail \in {0, stamp}
    /\ writer \in {"idle", "truncated", "half", "killed"}
    /\ writer = "half" => head = stamp
    /\ writer = "idle" => head = stamp /\ tail = stamp
    /\ stamp = start => writer = "idle"
    /\ kind = "missing" => stamp = 0
    /\ stamp = 0 => kind = "missing"

\* What the reader has of it.
GotInv ==
    /\ got \in [stamp : Nat, head : Nat, tail : Nat]
    /\ reader = "stat" => kind # "missing"
    /\ reader \in {"head", "tail"} => got.stamp > 0 /\ got.stamp <= stamp
    /\ reader = "tail" => got.head >= got.stamp
    /\ NotOlderThanStamp

(* P2Pool and the reader keep FileInv. *)
LEMMA FileStep ==
    ASSUME FileInv, [ReadNext]_readVars
    PROVE  FileInv'
  <1> USE DEF FileInv
  <1>1. CASE Truncate
    BY <1>1, SMT DEF Truncate
  <1>2. CASE WriteHead \/ WriteTail \/ KillWriter
    BY <1>2, SMT DEF WriteHead, WriteTail, KillWriter
  <1>3. CASE Open \/ Stat \/ ReadHead \/ ReadTail \/ Again \/ UNCHANGED readVars
    BY <1>3, SMT DEF Open, Stat, ReadHead, ReadTail, Again, End, Continue, readVars
  <1>4. QED
    BY <1>1, <1>2, <1>3 DEF ReadNext

(* Every step keeps GotInv. *)
LEMMA GotStep ==
    ASSUME FileInv, GotInv, [ReadNext]_readVars
    PROVE  GotInv'
  <1> USE DEF FileInv, GotInv, NotOlderThanStamp
  <1>1. CASE Truncate
    BY <1>1, SMT DEF Truncate
  <1>2. CASE WriteHead \/ WriteTail \/ KillWriter
    BY <1>2, SMT DEF WriteHead, WriteTail, KillWriter
  <1>3. CASE Open
    BY <1>3, SMT DEF Open, End, Continue, NothingYet
  <1>4. CASE Stat
    BY <1>4, SMT DEF Stat, End, Continue
  <1>5. CASE ReadHead
    BY <1>5, SMT DEF ReadHead, End, Continue
  <1>6. CASE ReadTail
    BY <1>6, SMT DEF ReadTail, End, Decodes
  <1>7. CASE Again \/ UNCHANGED readVars
    BY <1>7, SMT DEF Again, readVars
  <1>8. QED
    BY <1>1, <1>2, <1>3, <1>4, <1>5, <1>6, <1>7 DEF ReadNext

\* The file and what was read of it, in every state.
LEMMA ReadInvariant == ReadSpec => [](FileInv /\ GotInv)
  <1>1. ReadInit => FileInv /\ GotInv
    BY SMT DEF ReadInit, FileInv, GotInv, NotOlderThanStamp, NothingYet
  <1>2. FileInv /\ GotInv /\ [ReadNext]_readVars => (FileInv /\ GotInv)'
    BY FileStep, GotStep
  <1>3. QED
    BY <1>1, <1>2, PTL DEF ReadSpec

(* However often the file is rewritten while it is read, what is accepted is whole    *)
(* and not older than its modification time.                                          *)
THEOREM AgeIsHonest == ReadSpec => []NotOlderThanStamp
  <1>1. GotInv => NotOlderThanStamp
    BY DEF GotInv
  <1>2. QED
    BY <1>1, ReadInvariant, PTL

-----------------------------------------------------------------------------
(* The retry. *)

Twice == stamp > start + 1 \/ writer = "killed"

\* A first attempt fails after a rewrite began; the second begins with that one over.
RetryInv ==
    /\ attempt \in {1, 2}
    /\ waited \in Nat
    /\ reader = "tail" => got.head > 0 /\ (got.head = stamp \/ stamp > start)
    /\ reader = "wait" =>
          /\ stamp > start
          /\ waited = 0 => writer = "idle" \/ Twice
          /\ waited > 0 => waited > start /\ waited <= stamp
    /\ attempt = 2 /\ reader # "ended" =>
          /\ stamp > start
          /\ writer = "idle" \/ Twice
          /\ reader = "tail" => got.head = stamp \/ Twice
    /\ OneRewriteSurvived

(* Every step keeps RetryInv, for a file that was there when Read was called. *)
LEMMA RetryStep ==
    ASSUME FileInv, GotInv, start > 0, RetryInv, [ReadNext]_readVars
    PROVE  RetryInv'
  <1> USE DEF FileInv, GotInv, RetryInv, OneRewriteSurvived, Twice
  <1>1. CASE Truncate
    BY <1>1, SMT DEF Truncate
  <1>2. CASE WriteHead \/ WriteTail \/ KillWriter
    BY <1>2, SMT DEF WriteHead, WriteTail, KillWriter
  <1>3. CASE Open
    BY <1>3, SMT DEF Open, End, Continue, Retries, NothingYet
  <1>4. CASE Stat
    BY <1>4, SMT DEF Stat, End, Continue, Retries
  <1>5. CASE ReadHead
    BY <1>5, SMT DEF ReadHead, End, Continue, Retries, Rewriting
  <1>6. CASE ReadTail
    BY <1>6, SMT DEF ReadTail, End, Decodes, Retries, Rewriting
  <1>7. CASE Again
    BY <1>7, SMT DEF Again, PausedLong, Rewriting
  <1>8. CASE UNCHANGED readVars
    BY <1>8, SMT DEF readVars
  <1>9. QED
    BY <1>1, <1>2, <1>3, <1>4, <1>5, <1>6, <1>7, <1>8 DEF ReadNext

(* An error that a rewrite causes in a file that was there takes a second rewrite, or *)
(* the end of P2Pool within one, however many follow each other.                      *)
THEOREM RewriteSurvived == ReadSpec => []OneRewriteSurvived
  <1> DEFINE Retried == start > 0 => RetryInv
  <1>1. ReadInit => Retried
    BY SMT DEF ReadInit, RetryInv, OneRewriteSurvived, Twice, NothingYet
  <1>2. FileInv /\ GotInv /\ Retried /\ [ReadNext]_readVars => Retried'
    <2>1. SUFFICES ASSUME FileInv, GotInv, Retried, [ReadNext]_readVars, start' > 0
                   PROVE  RetryInv'
      OBVIOUS
    <2>2. start' = start
      BY <2>1 DEF ReadNext, readVars, Truncate, WriteHead, WriteTail, KillWriter, Open, Stat,
         ReadHead, ReadTail, Again, End, Continue
    <2>3. QED
      BY <2>1, <2>2, RetryStep
  <1>3. Retried => OneRewriteSurvived
    BY DEF RetryInv, OneRewriteSurvived
  <1>4. QED
    BY <1>1, <1>2, <1>3, ReadInvariant, PTL DEF ReadSpec

-----------------------------------------------------------------------------
(* The payout report. *)

(* A number is its quotient times the divisor, and the remainder. *)
LEMMA Quotient ==
    ASSUME NEW x \in Nat, NEW w \in Nat \ {0}
    PROVE  (x \div w) * w + (x % w) = x
BY SMT

(* The remainder is a number, and a number below the divisor is its own. *)
LEMMA Division ==
    ASSUME NEW x \in Nat, NEW w \in Nat \ {0}
    PROVE  x % w \in Nat /\ (x < w => x % w = x)
<1>1. x % w \in 0 .. w - 1
  BY SMT
<1>2. x < w => x % w = x
  BY SMT
<1> QED
  BY <1>1, <1>2

\* What the loop of Parse carries along.
Report == [payouts : Seq(Entries), total : Nat, without : Nat]

(* What a line makes of a report, and what the line is worth. *)
LEMMA LineType ==
    ASSUME NEW r \in Report, NEW l \in Entries
    PROVE  /\ Amount(l) \in Nat /\ Line(r, l) \in Report
           /\ l = Unknown => Line(r, l) = r
           /\ l # Unknown =>
                 Len(Line(r, l).payouts) + Line(r, l).without = Len(r.payouts) + r.without + 1
           /\ r.total + Amount(l) < Word => Line(r, l).total = r.total + Amount(l)
<1>0. r.payouts \in Seq(Entries) /\ r.total \in Nat /\ r.without \in Nat /\ Len(r.payouts) \in Nat
  BY LenProperties DEF Report
<1>3. CASE l = Unknown
  <2>1. Amount(l) = 0 /\ Line(r, l) = r
    BY <1>3 DEF Amount, Line
  <2> QED
    BY <1>0, <1>3, <2>1
<1>1. CASE l = Without /\ l # Unknown
  <2>1. Amount(l) = 0 /\ Line(r, l).payouts = r.payouts /\ Line(r, l).total = r.total
        /\ Line(r, l).without = r.without + 1 /\ Line(r, l) \in Report
    BY <1>0, <1>1 DEF Amount, Line, Report
  <2>2. /\ Len(Line(r, l).payouts) + Line(r, l).without = Len(r.payouts) + r.without + 1
        /\ Line(r, l).total = r.total + Amount(l)
    BY <1>0, <2>1
  <2> QED
    BY <1>1, <2>1, <2>2
<1>2. CASE l # Without /\ l # Unknown
  <2>1. Amount(l) = l.whole * Atomic + l.frac /\ l.whole * Atomic + l.frac \in Nat
    <3>1. l.whole \in Nat /\ l.frac \in Nat /\ Atomic \in Nat
      BY <1>2, JournalAssumption, SMT DEF JournalAssumption
    <3> QED
      BY <1>2, <3>1, SMT DEF Amount
  <2>2. Units(l) = Amount(l) % Word
    BY <2>1 DEF Units
  <2>3. Word \in Nat \ {0}
    BY JournalAssumption DEF JournalAssumption
  <2>4. Units(l) \in Nat /\ (Amount(l) < Word => Units(l) = Amount(l))
    BY <2>1, <2>2, <2>3, Division
  <2>5. r.total + Units(l) \in Nat
    BY <1>0, <2>4
  <2>6. (r.total + Units(l)) % Word \in Nat
    BY <2>3, <2>5, Division
  <2>7. Append(r.payouts, l) \in Seq(Entries) /\ Len(Append(r.payouts, l)) = Len(r.payouts) + 1
    BY <1>0, AppendProperties
  <2>8. /\ Line(r, l).payouts = Append(r.payouts, l) /\ Line(r, l).without = r.without
        /\ Line(r, l).total = (r.total + Units(l)) % Word /\ Line(r, l) \in Report
    BY <1>0, <1>2, <2>6, <2>7 DEF Line, Report
  <2>9. ASSUME r.total + Amount(l) < Word PROVE Line(r, l).total = r.total + Amount(l)
    <3>1. Amount(l) < Word
      BY <1>0, <2>1, <2>3, <2>9, SMT
    <3>2. r.total + Units(l) < Word /\ Units(l) = Amount(l)
      BY <2>4, <2>9, <3>1
    <3> QED
      BY <2>3, <2>5, <2>8, <3>2, Division
  <2>10. Len(Line(r, l).payouts) = Len(r.payouts) + 1
    BY <2>7, <2>8
  <2>11. \A k, m, n \in Nat : k = m + 1 => k + n = m + n + 1
    BY SMT
  <2>12. Len(Line(r, l).payouts) \in Nat
    BY <1>0, <2>10
  <2>13. Len(Line(r, l).payouts) + r.without = Len(r.payouts) + r.without + 1
    BY <1>0, <2>10, <2>11, <2>12, Zenon
  <2> QED
    BY <1>2, <2>1, <2>8, <2>9, <2>13, Zenon
<1> QED
  BY <1>1, <1>2, <1>3
(* The loops of Parse and of SumOf, line by line. *)
LEMMA ReportsUnfold ==
    ASSUME NEW ls \in Seq(Entries)
    PROVE  /\ Reports(ls) \in [0 .. Len(ls) -> Report]
           /\ \A i \in 0 .. Len(ls) : Reports(ls)[i] =
                 IF i = 0 THEN NoReport ELSE Line(Reports(ls)[i - 1], ls[i])
<1> DEFINE n == Len(ls)
           step == [i \in 1 .. n |-> [r \in Report |-> Line(r, ls[i])]]
           Rec(f) == f = [i \in 0 .. n |-> IF i = 0 THEN NoReport ELSE Line(f[i - 1], ls[i])]
<1>1. n \in Nat /\ NoReport \in Report
  BY LenProperties DEF Report, NoReport
<1>2. ASSUME NEW i \in 1 .. n, NEW r \in Report
      PROVE  Line(r, ls[i]) \in Report
  BY LineType, ElementOfSeq
<1>3. step \in [1 .. n -> [Report -> Report]]
  BY <1>2
<1>4. PICK f : IsLoop(f, Report, NoReport, n, step)
  <2> HIDE DEF step, n
  <2> QED
    BY <1>1, <1>3, LoopExists, Zenon
<1>5. \A i \in 1 .. n : i - 1 \in 0 .. n
  BY <1>1, SMT
<1>6. Rec(f)
  <2>1. ASSUME NEW i \in 0 .. n
        PROVE  f[i] = IF i = 0 THEN NoReport ELSE Line(f[i - 1], ls[i])
    <3>1. f \in [0 .. n -> Report] /\ f[i] = IF i = 0 THEN NoReport ELSE step[i][f[i - 1]]
      <4> HIDE DEF step, n
      <4> QED
        BY <1>4 DEF IsLoop
    <3>2. i # 0 => i \in 1 .. n
      BY <1>1, SMT
    <3>3. i # 0 => f[i - 1] \in Report
      BY <1>5, <3>1, <3>2
    <3> QED
      BY <3>1, <3>2, <3>3
  <2>2. f = [i \in 0 .. n |-> f[i]]
    <3> HIDE DEF step, n
    <3> QED
      BY <1>4 DEF IsLoop
  <2> QED
    BY <2>1, <2>2
<1>7. Rec(Reports(ls))
  <2>1. Reports(ls) = CHOOSE g : Rec(g)
    BY DEF Reports
  <2> HIDE DEF Rec
  <2> QED
    BY <1>6, <2>1
<1>8. /\ Reports(ls) = [i \in 0 .. n |-> Reports(ls)[i]]
      /\ \A i \in 0 .. n : Reports(ls)[i] =
            IF i = 0 THEN NoReport ELSE Line(Reports(ls)[i - 1], ls[i])
  BY <1>7
<1>9. Reports(ls)[0] = NoReport
  <2>1. 0 \in 0 .. n
    BY <1>1, SMT
  <2> QED
    BY <1>8, <2>1
<1>10. ASSUME NEW i \in 1 .. n, Reports(ls)[i - 1] \in Report
       PROVE  Reports(ls)[i] = step[i][Reports(ls)[i - 1]]
  <2>1. i \in 0 .. n /\ i # 0
    BY <1>1, SMT
  <2> QED
    BY <1>8, <1>10, <2>1
<1>11. Reports(ls) \in [0 .. n -> Report]
  <2> HIDE DEF step, n
  <2>1. IsLoop(Reports(ls), Report, NoReport, n, step)
    BY <1>1, <1>3, <1>8, <1>9, <1>10, LoopIs, Zenon
  <2> QED
    BY <2>1 DEF IsLoop
<1> QED
  BY <1>8, <1>11

\* The sums of the reference definition, line by line.
LEMMA SumsUnfold ==
    ASSUME NEW ls \in Seq(Entries)
    PROVE  /\ Sums(ls) \in [0 .. Len(ls) -> Nat]
           /\ \A i \in 0 .. Len(ls) : Sums(ls)[i] =
                 IF i = 0 THEN 0 ELSE Sums(ls)[i - 1] + Amount(ls[i])
<1> DEFINE n == Len(ls)
           step == [i \in 1 .. n |-> [t \in Nat |-> t + Amount(ls[i])]]
           Rec(f) == f = [i \in 0 .. n |-> IF i = 0 THEN 0 ELSE f[i - 1] + Amount(ls[i])]
<1>1. n \in Nat /\ 0 \in Nat
  BY LenProperties
<1>2. ASSUME NEW i \in 1 .. n, NEW t \in Nat
      PROVE  t + Amount(ls[i]) \in Nat
  <2>1. NoReport \in Report /\ ls[i] \in Entries
    BY ElementOfSeq DEF Report, NoReport
  <2>2. Amount(ls[i]) \in Nat
    BY <2>1, LineType
  <2> QED
    BY <2>2
<1>3. step \in [1 .. n -> [Nat -> Nat]]
  BY <1>2
<1>4. PICK f : IsLoop(f, Nat, 0, n, step)
  <2> HIDE DEF step, n
  <2> QED
    BY <1>1, <1>3, LoopExists, Zenon
<1>5. \A i \in 1 .. n : i - 1 \in 0 .. n
  BY <1>1, SMT
<1>6. Rec(f)
  <2>1. ASSUME NEW i \in 0 .. n
        PROVE  f[i] = IF i = 0 THEN 0 ELSE f[i - 1] + Amount(ls[i])
    <3>1. f \in [0 .. n -> Nat] /\ f[i] = IF i = 0 THEN 0 ELSE step[i][f[i - 1]]
      <4> HIDE DEF step, n
      <4> QED
        BY <1>4 DEF IsLoop
    <3>2. i # 0 => i \in 1 .. n
      BY <1>1, SMT
    <3>3. i # 0 => f[i - 1] \in Nat
      BY <1>5, <3>1, <3>2
    <3> QED
      BY <3>1, <3>2, <3>3
  <2>2. f = [i \in 0 .. n |-> f[i]]
    <3> HIDE DEF step, n
    <3> QED
      BY <1>4 DEF IsLoop
  <2> QED
    BY <2>1, <2>2
<1>7. Rec(Sums(ls))
  <2>1. Sums(ls) = CHOOSE g : Rec(g)
    BY DEF Sums
  <2> HIDE DEF Rec
  <2> QED
    BY <1>6, <2>1
<1>8. /\ Sums(ls) = [i \in 0 .. n |-> Sums(ls)[i]]
      /\ \A i \in 0 .. n : Sums(ls)[i] = IF i = 0 THEN 0 ELSE Sums(ls)[i - 1] + Amount(ls[i])
  BY <1>7
<1>9. Sums(ls)[0] = 0
  <2>1. 0 \in 0 .. n
    BY <1>1, SMT
  <2> QED
    BY <1>8, <2>1
<1>10. ASSUME NEW i \in 1 .. n, Sums(ls)[i - 1] \in Nat
       PROVE  Sums(ls)[i] = step[i][Sums(ls)[i - 1]]
  <2>1. i \in 0 .. n /\ i # 0
    BY <1>1, SMT
  <2> QED
    BY <1>8, <1>10, <2>1
<1>11. Sums(ls) \in [0 .. n -> Nat]
  <2> HIDE DEF step, n
  <2>1. IsLoop(Sums(ls), Nat, 0, n, step)
    BY <1>1, <1>3, <1>8, <1>9, <1>10, LoopIs, Zenon
  <2> QED
    BY <2>1 DEF IsLoop
<1> QED
  BY <1>8, <1>11
\* The known ones of the first i lines: each line adds itself, or nothing.
KnownUpTo(ls, i) == {j \in 1 .. i : ls[j] # Unknown}

LEMMA KnownStep ==
    ASSUME NEW ls, NEW i \in Nat
    PROVE  /\ Cardinality(KnownUpTo(ls, i)) \in Nat
           /\ Cardinality(KnownUpTo(ls, i + 1)) =
                 IF ls[i + 1] = Unknown THEN Cardinality(KnownUpTo(ls, i))
                 ELSE Cardinality(KnownUpTo(ls, i)) + 1
<1>1. IsFiniteSet(1 .. i)
  BY FS_Interval
<1>2. KnownUpTo(ls, i) \subseteq 1 .. i
  BY DEF KnownUpTo
<1>3. IsFiniteSet(KnownUpTo(ls, i))
  BY <1>1, <1>2, FS_Subset
<1>4. Cardinality(KnownUpTo(ls, i)) \in Nat
  BY <1>3, FS_CardinalityType
<1>5. 1 .. i + 1 = (1 .. i) \cup {i + 1} /\ i + 1 \notin 1 .. i
  BY SMT
<1>6. ls[i + 1] = Unknown => KnownUpTo(ls, i + 1) = KnownUpTo(ls, i)
  BY <1>5 DEF KnownUpTo
<1>7. ls[i + 1] # Unknown => /\ KnownUpTo(ls, i + 1) = KnownUpTo(ls, i) \cup {i + 1}
                             /\ i + 1 \notin KnownUpTo(ls, i)
  BY <1>5 DEF KnownUpTo
<1>8. i + 1 \notin KnownUpTo(ls, i) =>
          Cardinality(KnownUpTo(ls, i) \cup {i + 1}) = Cardinality(KnownUpTo(ls, i)) + 1
  BY <1>3, FS_AddElement
<1> QED
  BY <1>4, <1>6, <1>7, <1>8

(* A report counts every line of a known form, and its total is their sum as long as    *)
(* that fits a word.                                                                     *)
LEMMA ParseCounts ==
    ASSUME NEW ls \in Seq(Entries)
    PROVE  /\ Len(Parse(ls).payouts) + Parse(ls).without = Cardinality(Known(ls))
           /\ Parse(ls).total \in Nat /\ SumOf(ls) \in Nat
           /\ SumOf(ls) < Word => Parse(ls).total = SumOf(ls)
<1> DEFINE n == Len(ls)
           R == Reports(ls)
           S == Sums(ls)
           K(i) == Cardinality(KnownUpTo(ls, i))
           P == {i \in 0 .. n : /\ Len(R[i].payouts) + R[i].without = K(i)
                                /\ S[i] < Word => R[i].total = S[i]}
<1>1. n \in Nat
  BY LenProperties
<1>2. /\ R \in [0 .. n -> Report]
      /\ \A i \in 0 .. n : R[i] = IF i = 0 THEN NoReport ELSE Line(R[i - 1], ls[i])
  BY ReportsUnfold
<1>3. /\ S \in [0 .. n -> Nat]
      /\ \A i \in 0 .. n : S[i] = IF i = 0 THEN 0 ELSE S[i - 1] + Amount(ls[i])
  BY SumsUnfold
<1> HIDE DEF R, S
<1>10. K(0) = 0
  <2>1. KnownUpTo(ls, 0) = {}
    BY DEF KnownUpTo
  <2> QED
    BY <2>1, FS_EmptySet
<1>11. \A i \in Nat : K(i) \in Nat /\ K(i + 1) = IF ls[i + 1] = Unknown THEN K(i) ELSE K(i) + 1
  BY KnownStep
<1> HIDE DEF K
<1>4. 0 \in P
  <2>1. 0 \in 0 .. n
    BY <1>1, SMT
  <2>2. R[0] = NoReport /\ S[0] = 0
    BY <1>2, <1>3, <2>1
  <2>3. Len(R[0].payouts) + R[0].without = 0 /\ R[0].total = 0
    BY <2>2 DEF NoReport
  <2> QED
    BY <1>10, <2>1, <2>2, <2>3
<1>5. ASSUME NEW i \in 0 .. n - 1, i \in P
      PROVE  i + 1 \in P
  <2>1. i \in 0 .. n /\ i + 1 \in 0 .. n /\ i + 1 \in 1 .. n /\ i + 1 # 0 /\ (i + 1) - 1 = i
    BY <1>1, SMT
  <2>2. R[i] \in Report /\ S[i] \in Nat /\ R[i + 1] = Line(R[i], ls[i + 1])
        /\ S[i + 1] = S[i] + Amount(ls[i + 1]) /\ ls[i + 1] \in Entries
    BY <1>2, <1>3, <2>1, ElementOfSeq
  <2>3. /\ Amount(ls[i + 1]) \in Nat
        /\ ls[i + 1] = Unknown => R[i + 1] = R[i]
        /\ ls[i + 1] # Unknown =>
              Len(R[i + 1].payouts) + R[i + 1].without = Len(R[i].payouts) + R[i].without + 1
        /\ R[i].total + Amount(ls[i + 1]) < Word => R[i + 1].total = R[i].total + Amount(ls[i + 1])
    BY <2>2, LineType
  <2>4. /\ Len(R[i].payouts) + R[i].without = K(i)
        /\ S[i] < Word => R[i].total = S[i]
    BY <1>5
  <2>7. K(i + 1) = IF ls[i + 1] = Unknown THEN K(i) ELSE K(i) + 1
    <3>1. i \in Nat
      BY <1>1, SMT
    <3> QED
      BY <1>11, <3>1
  <2>5. Len(R[i + 1].payouts) + R[i + 1].without = K(i + 1)
    BY <2>3, <2>4, <2>7, Zenon
  <2>6. ASSUME S[i + 1] < Word PROVE R[i + 1].total = S[i + 1]
    <3>1. S[i] < Word
      BY <2>2, <2>3, <2>6, JournalAssumption, SMT DEF JournalAssumption
    <3>2. R[i].total = S[i]
      BY <2>4, <3>1
    <3> QED
      BY <2>2, <2>3, <2>6, <3>2, Zenon
  <2> QED
    BY <2>1, <2>5, <2>6
<1> HIDE DEF P
<1>6. n \in P
  <2>1. \A i \in 0 .. n : i \in P
    BY <1>1, <1>4, <1>5, UpTo
  <2> QED
    BY <1>1, <2>1, SMT
<1>7. Parse(ls) = R[n] /\ SumOf(ls) = S[n]
  BY DEF Parse, SumOf, R, S
<1>8. R[n] \in Report /\ S[n] \in Nat
  <2>1. n \in 0 .. n
    BY <1>1, SMT
  <2> QED
    BY <1>2, <1>3, <2>1
<1>9. R[n].total \in Nat
  BY <1>8 DEF Report
<1>12. K(n) = Cardinality(Known(ls))
  <2>1. DOMAIN ls = 1 .. n
    BY LenProperties
  <2>2. KnownUpTo(ls, n) = Known(ls)
    BY <2>1 DEF KnownUpTo, Known
  <2> QED
    BY <2>2 DEF K
<1> QED
  BY <1>6, <1>7, <1>8, <1>9, <1>12, Zenon DEF P

-----------------------------------------------------------------------------

\* A copy that goes on has lost nothing, unless there was no output to copy; one that
\* stopped had a line to copy.
JournalInv ==
    /\ matching \in Seq(Entries) /\ left \in Seq(Entries) /\ buffer \in Seq(Entries)
    /\ copying \in BOOLEAN
    /\ child \in ChildStates
    /\ hidden \in BOOLEAN
    /\ child = "starts" => matching = <<>> /\ copying /\ ~hidden
    /\ child \in {"runs", "exit0"} => ~hidden
    /\ copying /\ ~hidden => buffer \o left = matching
    /\ ~copying => matching # <<>>
    /\ child = "exit0" => left = <<>>
    /\ child = "exit1" /\ ~hidden => left = <<>> /\ matching = <<>>
    /\ fetched = "report" => /\ child \in {"exit0", "exit1"}
                             /\ ~hidden => payouts = Parse(matching)

(* What is written moves from what is left to the buffer, unless it is cut. *)
LEMMA WriteStep ==
    ASSUME JournalInv, WriteLines
    PROVE  JournalInv'
<1>1. PICK n \in 1 .. Len(left) :
         LET room == Limit - Len(buffer)
             cut  == n > room
         IN  /\ buffer' = buffer \o SubSeq(left, 1, IF cut THEN room ELSE n)
             /\ left' = SubSeq(left, n + 1, Len(left))
             /\ copying' = ~CopyStops(cut)
  BY DEF WriteLines
<1>2. child = "runs" /\ left # <<>> /\ copying /\ UNCHANGED <<matching, child, fetched, payouts, hidden>>
  BY DEF WriteLines
<1>3. /\ matching \in Seq(Entries) /\ left \in Seq(Entries) /\ buffer \in Seq(Entries)
      /\ buffer \o left = matching
      /\ Len(left) \in Nat /\ Len(buffer) \in Nat /\ Limit \in Nat
  BY <1>2, LenProperties, JournalAssumption DEF JournalInv, JournalAssumption
<1> DEFINE room == Limit - Len(buffer)
           most == IF n > room THEN room ELSE n
<1>4. room \in Int /\ most \in Int /\ most <= Len(left) /\ \A i \in 1 .. most : i \in 1 .. Len(left)
  BY <1>3, SMT
<1>5. SubSeq(left, 1, most) \in Seq(Entries) /\ left' \in Seq(Entries)
  <2>1. \A i \in 1 .. Len(left) : left[i] \in Entries
    BY <1>3, ElementOfSeq
  <2>2. \A i \in n + 1 .. Len(left) : i \in 1 .. Len(left)
    BY <1>3, SMT
  <2>3. SubSeq(left, 1, most) \in Seq(Entries)
    BY <1>4, <2>1, SubSeqProperties
  <2>4. n + 1 \in Int /\ Len(left) \in Int
    BY <1>3, SMT
  <2>5. SubSeq(left, n + 1, Len(left)) \in Seq(Entries)
    BY <2>1, <2>2, <2>4, SubSeqProperties
  <2> QED
    BY <1>1, <2>3, <2>5
<1>6. buffer' \in Seq(Entries)
  BY <1>1, <1>3, <1>5, ConcatProperties
<1>7. copying' => buffer' \o left' = matching
  <2> SUFFICES ASSUME copying' PROVE buffer' \o left' = matching
    OBVIOUS
  <2>1. most = n
    BY <1>1 DEF CopyStops
  <2>2. SubSeq(left, 1, n) \o SubSeq(left, n + 1, Len(left)) = left
    <3>1. 1 \in 1 .. Len(left) + 1 /\ n \in 1 - 1 .. Len(left) /\ Len(left) \in n .. Len(left)
      BY <1>3, SMT
    <3>2. SubSeq(left, 1, n) \o SubSeq(left, n + 1, Len(left)) = SubSeq(left, 1, Len(left))
      BY <1>3, <3>1, ConcatAdjacentSubSeq
    <3>3. SubSeq(left, 1, Len(left)) = left
      BY <1>3, SubSeqFull
    <3> QED
      BY <3>2, <3>3
  <2>3. buffer' = buffer \o SubSeq(left, 1, n) /\ left' = SubSeq(left, n + 1, Len(left))
    BY <1>1, <2>1
  <2>4. SubSeq(left, 1, n) \in Seq(Entries) /\ SubSeq(left, n + 1, Len(left)) \in Seq(Entries)
    BY <1>1, <1>5, <2>1
  <2>5. (buffer \o SubSeq(left, 1, n)) \o SubSeq(left, n + 1, Len(left))
        = buffer \o (SubSeq(left, 1, n) \o SubSeq(left, n + 1, Len(left)))
    <3>1. \A s, t, u \in Seq(Entries) : (s \o t) \o u = s \o (t \o u)
      BY ConcatAssociative
    <3> QED
      BY <1>3, <2>4, <3>1, Zenon
  <2> QED
    BY <1>3, <2>2, <2>3, <2>5
<1>8. matching # <<>>
  <2>1. Len(matching) = Len(buffer) + Len(left)
    BY <1>3, ConcatProperties
  <2>2. Len(left) # 0
    BY <1>2, <1>3, EmptySeq
  <2>3. Len(matching) # 0
    BY <1>3, <2>1, <2>2, SMT
  <2> QED
    BY <2>3
<1>9. copying' \in BOOLEAN
  BY <1>1 DEF CopyStops
<1> QED
  BY <1>2, <1>5, <1>6, <1>7, <1>8, <1>9 DEF JournalInv

(* Every step keeps JournalInv. *)
LEMMA JournalStep ==
    ASSUME JournalInv, [JournalNext]_journalVars
    PROVE  JournalInv'
<1>1. CASE Search
  <2>1. CASE child' = "failed" /\ UNCHANGED <<matching, left, hidden>>
    BY <1>1, <2>1 DEF Search, JournalInv, ChildStates
  <2>2. ASSUME NEW n \in 0 .. MaxEntries, NEW ls \in [1 .. n -> Entries], matching' = ls,
               \/ left' = ls /\ child' = "runs" /\ hidden' = FALSE
               \/ left' = <<>> /\ child' = "exit1" /\ hidden' = TRUE
        PROVE  JournalInv'
    <3>2. n \in Nat
      BY JournalAssumption, SMT DEF JournalAssumption
    <3>3. ls \in Seq(Entries)
      BY <3>2, IsASeq
    <3>4. child = "starts" /\ UNCHANGED <<buffer, copying, fetched, payouts>>
      BY <1>1 DEF Search
    <3>5. /\ buffer \in Seq(Entries) /\ left \in Seq(Entries) /\ copying
          /\ buffer \o left = <<>> /\ fetched # "report"
      BY <3>4 DEF JournalInv
    <3>6. buffer = <<>>
      <4>1. Len(buffer \o left) = Len(buffer) + Len(left) /\ Len(buffer) \in Nat /\ Len(left) \in Nat
        BY <3>5, ConcatProperties, LenProperties
      <4>2. Len(buffer) + Len(left) = 0
        BY <3>5, <4>1
      <4>3. Len(buffer) = 0
        BY <4>1, <4>2, SMT
      <4> QED
        BY <3>5, <4>3, EmptySeq
    <3>7. <<>> \in Seq(Entries) /\ (left' = ls => buffer' \o left' = matching')
      BY <2>2, <3>3, <3>4, <3>6, ConcatEmptySeq
    <3> QED
      BY <2>2, <3>3, <3>4, <3>5, <3>7 DEF JournalInv, ChildStates
  <2> QED
    BY <1>1, <2>1, <2>2 DEF Search
<1>2. CASE BrokenPipe
  BY <1>2 DEF BrokenPipe, JournalInv, ChildStates
<1>6. CASE Deadline
  BY <1>6 DEF Deadline, JournalInv, ChildStates
<1>3. CASE Exit
  BY <1>3 DEF Exit, JournalInv, ChildStates
<1>4. CASE Fetch
  <2>1. UNCHANGED <<matching, left, buffer, copying, child, hidden>>
    BY <1>4 DEF Fetch
  <2>2. ASSUME fetched' = "report"
        PROVE  child \in {"exit0", "exit1"} /\ (~hidden => payouts' = Parse(matching))
    <3>1. Accepted /\ payouts' = Parse(buffer)
      BY <1>4, <2>2 DEF Fetch
    <3>2. child \in {"exit0", "exit1"} /\ (~hidden => copying /\ left = <<>>)
      BY <3>1 DEF Accepted, RunError, JournalInv
    <3>3. ~hidden => buffer = matching
      BY <3>2, ConcatEmptySeq DEF JournalInv
    <3> QED
      BY <3>1, <3>2, <3>3
  <2> QED
    BY <2>1, <2>2 DEF JournalInv
<1>5. CASE UNCHANGED journalVars
  BY <1>5 DEF journalVars, JournalInv
<1> QED
  BY <1>1, <1>2, <1>3, <1>4, <1>5, <1>6, WriteStep DEF JournalNext

\* What is known of journalctl, its output and the report, in every state.
LEMMA JournalInvariant == JournalSpec => []JournalInv
<1>1. JournalInit => JournalInv
  <2> SUFFICES ASSUME JournalInit PROVE JournalInv
    OBVIOUS
  <2>1. <<>> \in Seq(Entries) /\ <<>> \o <<>> = <<>>
    BY ConcatEmptySeq
  <2> QED
    BY <2>1 DEF JournalInit, JournalInv, ChildStates
<1> QED
  BY <1>1, JournalStep, PTL DEF JournalSpec

(* PAY-01 to PAY-03, for any number of lines and any limit of the output: unless -q hid *)
(* a refusal, a report counts every line that matched and is of a known form, and its   *)
(* total, as printed, is their sum.                                                      *)
THEOREM ReportComplete == JournalSpec => []ReportIsComplete
<1>1. JournalInv => ReportIsComplete
  <2>0. JournalInv /\ fetched = "report" => child \in {"exit0", "exit1"}
    BY DEF JournalInv
  <2> SUFFICES ASSUME JournalInv, fetched = "report", ~hidden PROVE ReportIsComplete
    BY <2>0 DEF ReportIsComplete
  <2>1. matching \in Seq(Entries) /\ child \in {"exit0", "exit1"} /\ payouts = Parse(matching)
    BY DEF JournalInv
  <2>2. /\ Len(payouts.payouts) + payouts.without = Cardinality(Known(matching))
        /\ payouts.total \in Nat
        /\ SumOf(matching) < Word => payouts.total = SumOf(matching)
    BY <2>1, ParseCounts
  <2> DEFINE t == FormatXMR(payouts.total)
  <2>3. Atomic \in Nat \ {0}
    BY JournalAssumption DEF JournalAssumption
  <2>4. t.whole * Atomic + t.frac = payouts.total
    <3>1. (payouts.total \div Atomic) * Atomic + (payouts.total % Atomic) = payouts.total
      BY <2>2, <2>3, Quotient, Zenon
    <3>2. t.whole = payouts.total \div Atomic /\ t.frac = payouts.total % Atomic
      BY DEF FormatXMR
    <3> QED
      BY <3>1, <3>2, Zenon
  <2>5. SumOf(matching) < Word => t.whole * Atomic + t.frac = SumOf(matching)
    BY <2>2, <2>4, Zenon
  <2> QED
    BY <2>1, <2>2, <2>5, Zenon DEF ReportIsComplete
<1> QED
  BY <1>1, JournalInvariant, PTL

-----------------------------------------------------------------------------
(* The params file. *)

\* The lines of a file, before and after, and what the loop of Rewrite carries along.
AllLines == [key : Settings, val : Values \cup NewValues, plain : BOOLEAN] \cup {Blank}
Acc      == [out : Seq(AllLines), seen : SUBSET NodeKeys, dropped : BOOLEAN]
Nothing  == [out |-> <<>>, seen |-> {}, dropped |-> FALSE]

(* The line that is written for a key. *)
LEMMA PlainLine ==
    ASSUME NEW c \in Candidates, NEW k \in NodeKeys
    PROVE  /\ Plain(k, c[k]) \in AllLines /\ Plain(k, c[k]).key = k
           /\ Plain(k, c[k]).val = c[k] /\ c[k] # "bad"
<1>1. c[k] \in NewValues
  BY DEF Candidates
<1>2. k \in Settings
  BY DEF Settings, NodeKeys
<1> QED
  BY <1>1, <1>2, ParamsAssumption DEF Plain, AllLines, ParamsAssumption

(* There is a line to append. *)
LEMMA BlankLine == Blank \in AllLines /\ Blank.key \notin NodeKeys
BY DEF AllLines, Blank, NodeKeys

(* What a line makes of the output. *)
LEMMA WriteLineType ==
    ASSUME NEW c \in Candidates, NEW a \in Acc, NEW l \in AllLines
    PROVE  WriteLine(a, l, c) \in Acc
<1>1. a.out \in Seq(AllLines) /\ a.seen \in SUBSET NodeKeys
  BY DEF Acc
<1>2. Append(a.out, l) \in Seq(AllLines)
  BY <1>1, AppendProperties
<1>3. CASE l.key \notin NodeKeys
  BY <1>2, <1>3 DEF WriteLine, Acc
<1>4. CASE l.key \in NodeKeys /\ Repeats(a, l)
  BY <1>4 DEF WriteLine, Acc
<1>5. CASE l.key \in NodeKeys /\ ~Repeats(a, l)
  <2>1. Plain(l.key, c[l.key]) \in AllLines
    BY <1>5, PlainLine
  <2>2. Append(a.out, Plain(l.key, c[l.key])) \in Seq(AllLines)
    BY <1>1, <2>1, AppendProperties
  <2>3. a.seen \cup {l.key} \in SUBSET NodeKeys
    BY <1>1, <1>5
  <2> QED
    BY <1>5, <2>2, <2>3 DEF WriteLine, Acc
<1> QED
  BY <1>3, <1>4, <1>5

(* The loop of Rewrite, line by line. *)
LEMMA RewrittenUnfold ==
    ASSUME NEW c \in Candidates, NEW ls \in Seq(AllLines)
    PROVE  /\ Rewritten(ls, c) \in [0 .. Len(ls) -> Acc]
           /\ \A i \in 0 .. Len(ls) : Rewritten(ls, c)[i] =
                 IF i = 0 THEN Nothing ELSE WriteLine(Rewritten(ls, c)[i - 1], ls[i], c)
<1> DEFINE n == Len(ls)
           step == [i \in 1 .. n |-> [a \in Acc |-> WriteLine(a, ls[i], c)]]
           Rec(f) == f = [i \in 0 .. n |-> IF i = 0 THEN Nothing ELSE WriteLine(f[i - 1], ls[i], c)]
<1>1. n \in Nat /\ Nothing \in Acc
  BY LenProperties DEF Acc, Nothing
<1>2. ASSUME NEW i \in 1 .. n, NEW a \in Acc
      PROVE  WriteLine(a, ls[i], c) \in Acc
  BY WriteLineType, ElementOfSeq
<1>3. step \in [1 .. n -> [Acc -> Acc]]
  BY <1>2
<1>4. PICK f : IsLoop(f, Acc, Nothing, n, step)
  <2> HIDE DEF step, n
  <2> QED
    BY <1>1, <1>3, LoopExists, Zenon
<1>5. \A i \in 1 .. n : i - 1 \in 0 .. n
  BY <1>1, SMT
<1>6. Rec(f)
  <2>1. ASSUME NEW i \in 0 .. n
        PROVE  f[i] = IF i = 0 THEN Nothing ELSE WriteLine(f[i - 1], ls[i], c)
    <3>1. f \in [0 .. n -> Acc] /\ f[i] = IF i = 0 THEN Nothing ELSE step[i][f[i - 1]]
      <4> HIDE DEF step, n
      <4> QED
        BY <1>4 DEF IsLoop
    <3>2. i # 0 => i \in 1 .. n
      BY <1>1, SMT
    <3>3. i # 0 => f[i - 1] \in Acc
      BY <1>5, <3>1, <3>2
    <3> QED
      BY <3>1, <3>2, <3>3
  <2>2. f = [i \in 0 .. n |-> f[i]]
    <3> HIDE DEF step, n
    <3> QED
      BY <1>4 DEF IsLoop
  <2> QED
    BY <2>1, <2>2
<1>7. Rec(Rewritten(ls, c))
  <2>1. Rewritten(ls, c) = CHOOSE g : Rec(g)
    BY DEF Rewritten, Nothing
  <2> HIDE DEF Rec
  <2> QED
    BY <1>6, <2>1
<1>8. /\ Rewritten(ls, c) = [i \in 0 .. n |-> Rewritten(ls, c)[i]]
      /\ \A i \in 0 .. n : Rewritten(ls, c)[i] =
            IF i = 0 THEN Nothing ELSE WriteLine(Rewritten(ls, c)[i - 1], ls[i], c)
  BY <1>7
<1>9. Rewritten(ls, c)[0] = Nothing
  <2>1. 0 \in 0 .. n
    BY <1>1, SMT
  <2> QED
    BY <1>8, <2>1
<1>10. ASSUME NEW i \in 1 .. n, Rewritten(ls, c)[i - 1] \in Acc
       PROVE  Rewritten(ls, c)[i] = step[i][Rewritten(ls, c)[i - 1]]
  <2>1. i \in 0 .. n /\ i # 0
    BY <1>1, SMT
  <2> QED
    BY <1>8, <1>10, <2>1
<1>11. Rewritten(ls, c) \in [0 .. n -> Acc]
  <2> HIDE DEF step, n
  <2>1. IsLoop(Rewritten(ls, c), Acc, Nothing, n, step)
    BY <1>1, <1>3, <1>8, <1>9, <1>10, LoopIs, Zenon
  <2> QED
    BY <2>1 DEF IsLoop
<1> QED
  BY <1>8, <1>11

(* The loop that takes the lines of no node key. *)
LEMMA OtherLinesUnfold ==
    ASSUME NEW ls \in Seq(AllLines)
    PROVE  /\ OtherLines(ls) \in [0 .. Len(ls) -> Seq(AllLines)]
           /\ \A i \in 0 .. Len(ls) : OtherLines(ls)[i] =
                 IF i = 0 THEN <<>>
                 ELSE IF ls[i].key \in NodeKeys THEN OtherLines(ls)[i - 1]
                 ELSE Append(OtherLines(ls)[i - 1], ls[i])
<1> DEFINE n == Len(ls)
           A == Seq(AllLines)
           Take(a, l) == IF l.key \in NodeKeys THEN a ELSE Append(a, l)
           step == [i \in 1 .. n |-> [a \in A |-> Take(a, ls[i])]]
           Rec(f) == f = [i \in 0 .. n |-> IF i = 0 THEN <<>> ELSE Take(f[i - 1], ls[i])]
<1>1. n \in Nat /\ <<>> \in A
  BY LenProperties
<1>2. ASSUME NEW i \in 1 .. n, NEW a \in A
      PROVE  Take(a, ls[i]) \in A
  <2>1. Append(a, ls[i]) \in A
    BY AppendProperties, ElementOfSeq
  <2> QED
    BY <2>1
<1>3. step \in [1 .. n -> [A -> A]]
  <2> HIDE DEF Take
  <2> QED
    BY <1>2
<1>4. PICK f : IsLoop(f, A, <<>>, n, step)
  <2> HIDE DEF step, n, A
  <2> QED
    BY <1>1, <1>3, LoopExists, Zenon
<1>5. \A i \in 1 .. n : i - 1 \in 0 .. n
  BY <1>1, SMT
<1>6. Rec(f)
  <2> HIDE DEF Take, A
  <2>1. ASSUME NEW i \in 0 .. n
        PROVE  f[i] = IF i = 0 THEN <<>> ELSE Take(f[i - 1], ls[i])
    <3>1. f \in [0 .. n -> A] /\ f[i] = IF i = 0 THEN <<>> ELSE step[i][f[i - 1]]
      <4> HIDE DEF step, n
      <4> QED
        BY <1>4 DEF IsLoop
    <3>2. i # 0 => i \in 1 .. n
      BY <1>1, SMT
    <3>3. i # 0 => f[i - 1] \in A
      BY <1>5, <3>1, <3>2
    <3> QED
      BY <3>1, <3>2, <3>3
  <2>2. f = [i \in 0 .. n |-> f[i]]
    <3> HIDE DEF step, n
    <3> QED
      BY <1>4 DEF IsLoop
  <2> QED
    BY <2>1, <2>2
<1>7. Rec(OtherLines(ls))
  <2>1. OtherLines(ls) = CHOOSE g : Rec(g)
    BY DEF OtherLines
  <2> HIDE DEF Rec
  <2> QED
    BY <1>6, <2>1
<1>8. /\ OtherLines(ls) = [i \in 0 .. n |-> OtherLines(ls)[i]]
      /\ \A i \in 0 .. n : OtherLines(ls)[i] = IF i = 0 THEN <<>> ELSE Take(OtherLines(ls)[i - 1], ls[i])
  <2> HIDE DEF Take
  <2> QED
    BY <1>7
<1>9. OtherLines(ls)[0] = <<>>
  <2>1. 0 \in 0 .. n
    BY <1>1, SMT
  <2> QED
    BY <1>8, <2>1
<1>10. ASSUME NEW i \in 1 .. n, OtherLines(ls)[i - 1] \in A
       PROVE  OtherLines(ls)[i] = step[i][OtherLines(ls)[i - 1]]
  <2>1. i \in 0 .. n /\ i # 0
    BY <1>1, SMT
  <2> HIDE DEF Take, A
  <2> QED
    BY <1>8, <1>10, <2>1
<1>11. OtherLines(ls) \in [0 .. n -> A]
  <2> HIDE DEF step, n, A
  <2>1. IsLoop(OtherLines(ls), A, <<>>, n, step)
    BY <1>1, <1>3, <1>8, <1>9, <1>10, LoopIs, Zenon
  <2> QED
    BY <2>1 DEF IsLoop
<1> QED
  BY <1>8, <1>11

(* The loops over a file that is longer by a line. *)
LEMMA ReplacedAppend ==
    ASSUME NEW c \in Candidates
    PROVE  /\ Replaced(<<>>, c) = Nothing
           /\ \A s \in Seq(AllLines), l \in AllLines :
                 /\ Replaced(s, c) \in Acc
                 /\ Replaced(Append(s, l), c) = WriteLine(Replaced(s, c), l, c)
<1>1. Replaced(<<>>, c) = Nothing
  <2>1. <<>> \in Seq(AllLines) /\ Len(<<>>) = 0 /\ 0 \in 0 .. 0
    BY SMT
  <2>2. Rewritten(<<>>, c)[0] = Nothing
    BY <2>1, RewrittenUnfold
  <2> QED
    BY <2>1, <2>2 DEF Replaced
<1>2. ASSUME NEW s \in Seq(AllLines), NEW l \in AllLines
      PROVE  /\ Replaced(s, c) \in Acc
             /\ Replaced(Append(s, l), c) = WriteLine(Replaced(s, c), l, c)
  <2> DEFINE n == Len(s)
             t == Append(s, l)
             f == Rewritten(s, c)
             g == Rewritten(t, c)
  <2>1. /\ n \in Nat /\ t \in Seq(AllLines) /\ Len(t) = n + 1 /\ t[n + 1] = l
        /\ \A i \in 1 .. n : t[i] = s[i]
    BY LenProperties, AppendProperties
  <2>2. /\ f \in [0 .. n -> Acc]
        /\ \A i \in 0 .. n : f[i] = IF i = 0 THEN Nothing ELSE WriteLine(f[i - 1], s[i], c)
    BY RewrittenUnfold
  <2>3. \A i \in 0 .. n + 1 : g[i] = IF i = 0 THEN Nothing ELSE WriteLine(g[i - 1], t[i], c)
    BY <2>1, RewrittenUnfold
  <2> HIDE DEF f, g, t, n
  <2>4. f[n] = g[n]
    <3>1. 0 \in 0 .. n /\ 0 \in 0 .. n + 1
      BY <2>1, SMT
    <3>2. f[0] = g[0]
      BY <2>2, <2>3, <3>1
    <3>3. ASSUME NEW i \in 1 .. n, f[i - 1] = g[i - 1] PROVE f[i] = g[i]
      <4>1. i \in 0 .. n /\ i \in 0 .. n + 1 /\ i # 0
        BY <2>1, SMT
      <4> QED
        BY <2>1, <2>2, <2>3, <3>3, <4>1
    <3> QED
      BY <2>1, <3>2, <3>3, LoopsAgree, Zenon
  <2>5. n + 1 \in 0 .. n + 1 /\ n + 1 # 0 /\ (n + 1) - 1 = n /\ n \in 0 .. n
    BY <2>1, SMT
  <2>6. g[n + 1] = WriteLine(g[n], l, c)
    BY <2>1, <2>3, <2>5
  <2>7. f[n] \in Acc
    BY <2>2, <2>5
  <2>8. Replaced(s, c) = f[n] /\ Replaced(t, c) = g[n + 1]
    BY <2>1 DEF Replaced, f, g, n
  <2> QED
    BY <2>4, <2>6, <2>7, <2>8 DEF t
<1> QED
  BY <1>1, <1>2

\* The lines of no node key, when a line is added: what OthersKept compares.
LEMMA OthersAppend ==
    /\ Others(<<>>) = <<>>
    /\ \A s \in Seq(AllLines), l \in AllLines :
          /\ Others(s) \in Seq(AllLines)
          /\ Others(Append(s, l)) = IF l.key \in NodeKeys THEN Others(s) ELSE Append(Others(s), l)
<1>1. Others(<<>>) = <<>>
  <2>1. <<>> \in Seq(AllLines) /\ Len(<<>>) = 0 /\ 0 \in 0 .. 0
    BY SMT
  <2>2. OtherLines(<<>>)[0] = <<>>
    BY <2>1, OtherLinesUnfold
  <2> QED
    BY <2>1, <2>2 DEF Others
<1>2. ASSUME NEW s \in Seq(AllLines), NEW l \in AllLines
      PROVE  /\ Others(s) \in Seq(AllLines)
             /\ Others(Append(s, l)) = IF l.key \in NodeKeys THEN Others(s) ELSE Append(Others(s), l)
  <2> DEFINE n == Len(s)
             t == Append(s, l)
             f == OtherLines(s)
             g == OtherLines(t)
             Take(a, e) == IF e.key \in NodeKeys THEN a ELSE Append(a, e)
  <2>1. /\ n \in Nat /\ t \in Seq(AllLines) /\ Len(t) = n + 1 /\ t[n + 1] = l
        /\ \A i \in 1 .. n : t[i] = s[i]
    BY LenProperties, AppendProperties
  <2>2. /\ f \in [0 .. n -> Seq(AllLines)]
        /\ \A i \in 0 .. n : f[i] = IF i = 0 THEN <<>> ELSE Take(f[i - 1], s[i])
    BY OtherLinesUnfold
  <2>3. \A i \in 0 .. n + 1 : g[i] = IF i = 0 THEN <<>> ELSE Take(g[i - 1], t[i])
    BY <2>1, OtherLinesUnfold
  <2> HIDE DEF f, g, t, n, Take
  <2>4. f[n] = g[n]
    <3>1. 0 \in 0 .. n /\ 0 \in 0 .. n + 1
      BY <2>1, SMT
    <3>2. f[0] = g[0]
      BY <2>2, <2>3, <3>1
    <3>3. ASSUME NEW i \in 1 .. n, f[i - 1] = g[i - 1] PROVE f[i] = g[i]
      <4>1. i \in 0 .. n /\ i \in 0 .. n + 1 /\ i # 0
        BY <2>1, SMT
      <4> QED
        BY <2>1, <2>2, <2>3, <3>3, <4>1
    <3> QED
      BY <2>1, <3>2, <3>3, LoopsAgree, Zenon
  <2>5. n + 1 \in 0 .. n + 1 /\ n + 1 # 0 /\ (n + 1) - 1 = n /\ n \in 0 .. n
    BY <2>1, SMT
  <2>6. g[n + 1] = Take(g[n], l)
    BY <2>1, <2>3, <2>5
  <2>7. f[n] \in Seq(AllLines)
    BY <2>2, <2>5
  <2>8. Others(s) = f[n] /\ Others(t) = g[n + 1]
    BY <2>1 DEF Others, f, g, n
  <2> QED
    BY <2>4, <2>6, <2>7, <2>8 DEF t, Take
<1> QED
  BY <1>1, <1>2

(* What is read of a key is the last valid line of it. *)
LEMMA ReadAppend ==
    ASSUME NEW s \in Seq(AllLines), NEW l \in AllLines, NEW k
    PROVE  ReadKey(Append(s, l), k) = IF Valid(l, k) THEN l.val ELSE ReadKey(s, k)
<1> DEFINE n == Len(s)
           t == Append(s, l)
           at == {i \in 1 .. n : Valid(s[i], k)}
           bt == {i \in 1 .. n + 1 : Valid(t[i], k)}
           last(S) == CHOOSE i \in S : \A j \in S : j <= i
<1>1. /\ n \in Nat /\ t \in Seq(AllLines) /\ Len(t) = n + 1 /\ t[n + 1] = l
      /\ \A i \in 1 .. n : t[i] = s[i]
  BY LenProperties, AppendProperties
<1> HIDE DEF t, n
<1>2. /\ ReadKey(s, k) = IF at = {} THEN "default" ELSE s[last(at)].val
      /\ ReadKey(t, k) = IF bt = {} THEN "default" ELSE t[last(bt)].val
  <2>1. ReadKey(s, k) = IF at = {} THEN "default" ELSE s[last(at)].val
    BY DEF ReadKey, n
  <2>2. {i \in 1 .. Len(t) : Valid(t[i], k)} = bt
    BY <1>1
  <2> DEFINE u(S) == IF S = {} THEN "default" ELSE t[last(S)].val
  <2>3. ReadKey(t, k) = u({i \in 1 .. Len(t) : Valid(t[i], k)})
    BY DEF ReadKey
  <2>4. ReadKey(t, k) = u(bt)
    <3> HIDE DEF u, bt
    <3> QED
      BY <2>2, <2>3
  <2> QED
    BY <2>1, <2>4
<1>3. \A i \in 1 .. n + 1 : i = n + 1 \/ i \in 1 .. n
  BY <1>1, SMT
<1>4. \A i \in 1 .. n : i \in 1 .. n + 1 /\ i <= n + 1 /\ ~(n + 1 <= i)
  BY <1>1, SMT
<1>5. n + 1 \in 1 .. n + 1 /\ n + 1 <= n + 1
  BY <1>1, SMT
<1>6. CASE Valid(l, k)
  <2>1. n + 1 \in bt /\ \A j \in bt : j <= n + 1
    BY <1>1, <1>3, <1>4, <1>5, <1>6
  <2>2. \A i \in bt : (\A j \in bt : j <= i) => i = n + 1
    BY <1>3, <1>4, <2>1
  <2> HIDE DEF bt
  <2>3. last(bt) = n + 1
    BY <2>1, <2>2
  <2> QED
    BY <1>1, <1>2, <1>6, <2>1, <2>3 DEF t
<1>7. CASE ~Valid(l, k)
  <2>1. at = bt
    BY <1>1, <1>3, <1>4, <1>7
  <2>2. CASE at = {}
    BY <1>2, <1>7, <2>1, <2>2 DEF t
  <2>3. CASE at # {}
    <3>1. \A i \in at : t[i] = s[i]
      BY <1>1
    <3>2. at \subseteq 1 .. n
      OBVIOUS
    <3>3. last(at) \in at
      <4>1. \E i \in at : \A j \in at : j <= i
        <5> DEFINE T == {n - i : i \in at}
        <5>1. T \subseteq Nat /\ T # {}
          BY <1>1, <2>3, SMT
        <5>2. PICK x \in T : \A y \in T : x <= y
          BY <5>1, LeastNat, Zenon
        <5>3. PICK i \in at : x = n - i
          BY <5>2
        <5>4. ASSUME NEW j \in at PROVE j <= i
          <6>1. n - i <= n - j
            BY <5>2, <5>3
          <6> QED
            BY <1>1, <6>1, SMT
        <5> QED
          BY <5>4
      <4> HIDE DEF at
      <4> QED
        BY <4>1
    <3> HIDE DEF at
    <3> QED
      BY <1>2, <1>7, <2>1, <2>3, <3>1, <3>3 DEF t
  <2> QED
    BY <2>2, <2>3
<1> QED
  BY <1>6, <1>7

\* How often a key occurs in a file: not at all, once and with the value v, or repeatedly.
Absent(s, k)    == \A i \in 1 .. Len(s) : s[i].key # k
Once(s, k, v) == \E i \in 1 .. Len(s) : s[i] = Plain(k, v) /\ \A j \in 1 .. Len(s) : s[j].key = k => j = i
Repeated(s, k)   == \E i, j \in 1 .. Len(s) : i # j /\ s[i].key = k /\ s[j].key = k

(* The same of a file that is longer by a line. *)
LEMMA KeyAppend ==
    ASSUME NEW s \in Seq(AllLines), NEW l \in AllLines, NEW k
    PROVE  /\ Absent(Append(s, l), k) <=> Absent(s, k) /\ l.key # k
           /\ \A v : Once(s, k, v) /\ l.key # k => Once(Append(s, l), k, v)
           /\ \A v : Absent(s, k) /\ l = Plain(k, v) => Once(Append(s, l), k, v)
           /\ Repeated(s, k) => Repeated(Append(s, l), k)
           /\ ~Absent(s, k) /\ l.key = k => Repeated(Append(s, l), k)
<1> DEFINE n == Len(s)
           t == Append(s, l)
<1>1. /\ n \in Nat /\ t \in Seq(AllLines) /\ Len(t) = n + 1 /\ t[n + 1] = l
      /\ \A i \in 1 .. n : t[i] = s[i]
  BY LenProperties, AppendProperties
<1>2. /\ \A i \in 1 .. n + 1 : i = n + 1 \/ i \in 1 .. n
      /\ \A i \in 1 .. n : i \in 1 .. n + 1 /\ i # n + 1
      /\ n + 1 \in 1 .. n + 1
  BY <1>1, SMT
<1> HIDE DEF t
<1>3. Absent(t, k) <=> Absent(s, k) /\ l.key # k
  BY <1>1, <1>2 DEF Absent
<1>4. ASSUME NEW v, Once(s, k, v), l.key # k PROVE Once(t, k, v)
  <2>1. PICK i \in 1 .. n : s[i] = Plain(k, v) /\ \A j \in 1 .. n : s[j].key = k => j = i
    BY <1>4 DEF Once
  <2>2. i \in 1 .. n + 1 /\ t[i] = Plain(k, v)
    BY <1>1, <1>2, <2>1
  <2>3. \A j \in 1 .. n + 1 : t[j].key = k => j = i
    BY <1>1, <1>2, <1>4, <2>1
  <2> QED
    BY <1>1, <2>2, <2>3 DEF Once
<1>5. ASSUME NEW v, Absent(s, k), l = Plain(k, v) PROVE Once(t, k, v)
  <2>1. \A j \in 1 .. n + 1 : t[j].key = k => j = n + 1
    BY <1>1, <1>2, <1>5 DEF Absent
  <2> QED
    BY <1>1, <1>2, <1>5, <2>1 DEF Once
<1>6. Repeated(s, k) => Repeated(t, k)
  BY <1>1, <1>2 DEF Repeated
<1>7. ~Absent(s, k) /\ l.key = k => Repeated(t, k)
  BY <1>1, <1>2 DEF Repeated, Absent
<1> QED
  BY <1>3, <1>4, <1>5, <1>6, <1>7 DEF t

\* What the loop leaves for the lines it has gone through.
Good(s, c) ==
    /\ \A k \in NodeKeys : IF k \in Replaced(s, c).seen
                           THEN Once(Replaced(s, c).out, k, c[k]) /\ ~Absent(s, k)
                           ELSE Absent(Replaced(s, c).out, k) /\ Absent(s, k)
    /\ Others(Replaced(s, c).out) = Others(s)
    /\ ReadKey(Replaced(s, c).out, "socks5") = ReadKey(s, "socks5")
    /\ Replaced(s, c).dropped => \E k \in NodeKeys : Repeated(s, k)

(* One more line keeps it: another line is kept, the first of a node key is replaced,   *)
(* any other of that key is dropped.                                                    *)
LEMMA GoodAppend ==
    ASSUME NEW c \in Candidates, NEW s \in Seq(AllLines), NEW l \in AllLines, Good(s, c)
    PROVE  Good(Append(s, l), c)
<1> DEFINE r == Replaced(s, c)
           q == Replaced(Append(s, l), c)
           t == Append(s, l)
<1>1. r \in Acc /\ q = WriteLine(r, l, c)
  BY ReplacedAppend
<1>2. r.out \in Seq(AllLines) /\ r.seen \in SUBSET NodeKeys
  BY <1>1 DEF Acc
<1>3. /\ \A k \in NodeKeys : IF k \in r.seen THEN Once(r.out, k, c[k]) /\ ~Absent(s, k)
                             ELSE Absent(r.out, k) /\ Absent(s, k)
      /\ Others(r.out) = Others(s)
      /\ ReadKey(r.out, "socks5") = ReadKey(s, "socks5")
  BY DEF Good
<1>4. "socks5" \notin NodeKeys
  BY DEF NodeKeys
<1>5. /\ Others(t) = IF l.key \in NodeKeys THEN Others(s) ELSE Append(Others(s), l)
      /\ ReadKey(t, "socks5") = IF Valid(l, "socks5") THEN l.val ELSE ReadKey(s, "socks5")
      /\ \A k : Absent(t, k) <=> Absent(s, k) /\ l.key # k
      /\ \A k : ~Absent(s, k) /\ l.key = k => Repeated(t, k)
  BY OthersAppend, ReadAppend, KeyAppend
<1> HIDE DEF r, q, t
<1>6. CASE l.key \notin NodeKeys
  <2>1. q.out = Append(r.out, l) /\ q.seen = r.seen /\ q.dropped = FALSE
    BY <1>1, <1>6 DEF WriteLine, Acc
  <2>2. ASSUME NEW k \in NodeKeys
        PROVE  IF k \in q.seen THEN Once(q.out, k, c[k]) /\ ~Absent(t, k) ELSE Absent(q.out, k) /\ Absent(t, k)
    <3>1. l.key # k
      BY <1>6
    <3>2. /\ Absent(q.out, k) <=> Absent(r.out, k)
          /\ Once(r.out, k, c[k]) => Once(q.out, k, c[k])
      <4>1. /\ Absent(Append(r.out, l), k) <=> Absent(r.out, k) /\ l.key # k
            /\ \A v : Once(r.out, k, v) /\ l.key # k => Once(Append(r.out, l), k, v)
        BY <1>2, KeyAppend
      <4> QED
        BY <2>1, <3>1, <4>1
    <3> QED
      BY <1>3, <1>5, <2>1, <3>1, <3>2
  <2>3. Others(q.out) = Others(t)
    BY <1>2, <1>3, <1>5, <1>6, <2>1, OthersAppend
  <2>4. ReadKey(q.out, "socks5") = ReadKey(t, "socks5")
    BY <1>2, <1>3, <1>5, <2>1, ReadAppend
  <2> QED
    BY <2>1, <2>2, <2>3, <2>4 DEF Good, q, t
<1>7. CASE l.key \in NodeKeys /\ Repeats(r, l)
  <2>1. q.out = r.out /\ q.seen = r.seen /\ l.key \in r.seen
    BY <1>1, <1>7 DEF WriteLine, Acc, Repeats
  <2>2. ASSUME NEW k \in NodeKeys
        PROVE  IF k \in q.seen THEN Once(q.out, k, c[k]) /\ ~Absent(t, k) ELSE Absent(q.out, k) /\ Absent(t, k)
    BY <1>3, <1>5, <2>1
  <2>3. Others(q.out) = Others(t)
    BY <1>3, <1>5, <1>7, <2>1
  <2>4. ReadKey(q.out, "socks5") = ReadKey(t, "socks5")
    <3>1. ~Valid(l, "socks5")
      BY <1>4, <1>7 DEF Valid
    <3> QED
      BY <1>3, <1>5, <2>1, <3>1
  <2>5. \E k \in NodeKeys : Repeated(t, k)
    BY <1>3, <1>5, <1>7, <2>1
  <2> QED
    BY <2>2, <2>3, <2>4, <2>5 DEF Good, q, t
<1>8. CASE l.key \in NodeKeys /\ ~Repeats(r, l)
  <2> DEFINE p == Plain(l.key, c[l.key])
  <2>1. /\ q.out = Append(r.out, p) /\ q.seen = r.seen \cup {l.key}
        /\ q.dropped = FALSE /\ l.key \notin r.seen
    BY <1>1, <1>8 DEF WriteLine, Repeats
  <2>2. p \in AllLines /\ p.key = l.key
    BY <1>8, PlainLine
  <2> HIDE DEF p
  <2>3. ASSUME NEW k \in NodeKeys
        PROVE  IF k \in q.seen THEN Once(q.out, k, c[k]) /\ ~Absent(t, k) ELSE Absent(q.out, k) /\ Absent(t, k)
    <3>1. CASE k = l.key
      <4>1. Absent(r.out, k) /\ k \in q.seen /\ ~Absent(t, k)
        BY <1>3, <1>5, <2>1, <3>1
      <4>2. p = Plain(k, c[k])
        BY <3>1 DEF p
      <4>3. Once(q.out, k, c[k])
        BY <1>2, <2>1, <2>2, <4>1, <4>2, KeyAppend
      <4> QED
        BY <4>1, <4>3
    <3>2. CASE k # l.key
      <4>1. /\ Absent(q.out, k) <=> Absent(r.out, k)
            /\ Once(r.out, k, c[k]) => Once(q.out, k, c[k])
        <5>1. /\ Absent(Append(r.out, p), k) <=> Absent(r.out, k) /\ p.key # k
              /\ \A v : Once(r.out, k, v) /\ p.key # k => Once(Append(r.out, p), k, v)
          BY <1>2, <2>2, KeyAppend
        <5> QED
          BY <2>1, <2>2, <3>2, <5>1
      <4> QED
        BY <1>3, <1>5, <2>1, <3>2, <4>1
    <3> QED
      BY <3>1, <3>2
  <2>4. Others(q.out) = Others(t)
    BY <1>2, <1>3, <1>5, <1>8, <2>1, <2>2, OthersAppend
  <2>5. ReadKey(q.out, "socks5") = ReadKey(t, "socks5")
    <3>1. ~Valid(l, "socks5") /\ ~Valid(p, "socks5")
      BY <1>4, <1>8, <2>2 DEF Valid
    <3> QED
      BY <1>2, <1>3, <1>5, <2>1, <2>2, <3>1, ReadAppend
  <2> QED
    BY <2>1, <2>3, <2>4, <2>5 DEF Good, q, t
<1> QED
  BY <1>6, <1>7, <1>8

(* What the loop of Rewrite leaves of any file. *)
LEMMA ReplacedIsGood ==
    ASSUME NEW c \in Candidates
    PROVE  \A s \in Seq(AllLines) : Good(s, c)
<1> DEFINE P == {s \in Seq(AllLines) : Good(s, c)}
<1>1. Good(<<>>, c)
  <2>1. Replaced(<<>>, c).out = <<>> /\ Replaced(<<>>, c).seen = {} /\ Replaced(<<>>, c).dropped = FALSE
    BY ReplacedAppend DEF Nothing
  <2>2. \A k : Absent(<<>>, k)
    BY SMT DEF Absent
  <2> QED
    BY <2>1, <2>2 DEF Good
<1>2. <<>> \in P
  BY <1>1
<1>3. ASSUME NEW s \in Seq(AllLines), NEW l \in AllLines, s \in P
      PROVE  Append(s, l) \in P
  <2>1. Append(s, l) \in Seq(AllLines)
    BY AppendProperties
  <2> QED
    BY <1>3, <2>1, GoodAppend
<1> HIDE DEF P
<1>4. \A s \in Seq(AllLines) : s \in P
  BY <1>2, <1>3, ByAppending, Zenon
<1> QED
  BY <1>4 DEF P

-----------------------------------------------------------------------------
(* The keys that are appended. *)

Files == [lines : Seq(AllLines), eol : BOOLEAN]

(* A key that is not there is appended once; everything else stays as it is. *)
LEMMA AddMissingOne ==
    ASSUME NEW c \in Candidates, NEW f \in Files, NEW k \in NodeKeys, NEW seen,
           IF k \in seen THEN Once(f.lines, k, c[k]) ELSE Absent(f.lines, k)
    PROVE  LET g == AddMissing(f, k, seen, c)
           IN  /\ g \in Files /\ Once(g.lines, k, c[k])
               /\ g.eol <=> f.eol \/ k \notin seen
               /\ Others(g.lines) = Others(f.lines)
               /\ ReadKey(g.lines, "socks5") = ReadKey(f.lines, "socks5")
               /\ \A j : j # k => /\ Absent(f.lines, j) => Absent(g.lines, j)
                                  /\ \A v : Once(f.lines, j, v) => Once(g.lines, j, v)
<1> DEFINE g == AddMissing(f, k, seen, c)
           p == Plain(k, c[k])
<1>1. f.lines \in Seq(AllLines) /\ f.eol \in BOOLEAN
  BY DEF Files
<1>2. CASE k \in seen
  <2>1. g = f
    BY <1>2 DEF AddMissing
  <2> HIDE DEF g
  <2>2. g.eol <=> f.eol \/ k \notin seen
    BY <1>2, <2>1
  <2> QED
    BY <1>2, <2>1, <2>2 DEF g
<1>3. CASE k \notin seen
  <2>1. g = [lines |-> Append(f.lines, p), eol |-> TRUE]
    BY <1>3 DEF AddMissing
  <2>2. p \in AllLines /\ p.key = k
    BY PlainLine
  <2>3. g.lines = Append(f.lines, p) /\ g.eol = TRUE
    BY <2>1
  <2>4. Append(f.lines, p) \in Seq(AllLines)
    BY <1>1, <2>2, AppendProperties
  <2>5. g \in Files
    BY <2>1, <2>4 DEF Files
  <2>6. ~Valid(p, "socks5") /\ k \in NodeKeys
    BY <2>2 DEF Valid, NodeKeys
  <2> HIDE DEF g
  <2>7. Once(g.lines, k, c[k])
    <3>1. Absent(f.lines, k) /\ p = Plain(k, c[k])
      BY <1>3
    <3> QED
      BY <1>1, <2>2, <2>3, <3>1, KeyAppend
  <2> HIDE DEF p
  <2>8. Others(g.lines) = Others(f.lines)
    BY <1>1, <2>2, <2>3, <2>6, OthersAppend
  <2>9. ReadKey(g.lines, "socks5") = ReadKey(f.lines, "socks5")
    BY <1>1, <2>2, <2>3, <2>6, ReadAppend
  <2>10. ASSUME NEW j, j # k
         PROVE  /\ Absent(f.lines, j) => Absent(g.lines, j)
                /\ \A v : Once(f.lines, j, v) => Once(g.lines, j, v)
    <3>1. /\ Absent(Append(f.lines, p), j) <=> Absent(f.lines, j) /\ p.key # j
          /\ \A v : Once(f.lines, j, v) /\ p.key # j => Once(Append(f.lines, p), j, v)
      BY <1>1, <2>2, KeyAppend
    <3> QED
      BY <2>2, <2>3, <2>10, <3>1
  <2>11. g.eol <=> f.eol \/ k \notin seen
    BY <1>3, <2>3
  <2> QED
    BY <2>5, <2>7, <2>8, <2>9, <2>10, <2>11 DEF g
<1> QED
  BY <1>2, <1>3

(* Rewrite writes every key once, keeps every other line, and ends the last line, if    *)
(* it did not end before, only where a key was repeated or missing.                     *)
LEMMA RewriteGood ==
    ASSUME NEW c \in Candidates, NEW f \in Files
    PROVE  LET w == Rewrite(f, c)
           IN  /\ w \in Files
               /\ \A k \in NodeKeys : Once(w.lines, k, c[k])
               /\ Others(w.lines) = Others(f.lines)
               /\ ReadKey(w.lines, "socks5") = ReadKey(f.lines, "socks5")
               /\ f.eol => w.eol
               /\ w.eol => f.eol \/ \E k \in NodeKeys : Repeated(f.lines, k) \/ Absent(f.lines, k)
<1> DEFINE r    == Replaced(f.lines, c)
           kept == [lines |-> r.out, eol |-> f.eol \/ r.dropped]
           host == AddMissing(kept, "host", r.seen, c)
           rpc  == AddMissing(host, "rpc-port", r.seen, c)
           zmq  == AddMissing(rpc, "zmq-port", r.seen, c)
<1>1. f.lines \in Seq(AllLines) /\ f.eol \in BOOLEAN
  BY DEF Files
<1>2. r \in Acc /\ Good(f.lines, c)
  BY <1>1, ReplacedAppend, ReplacedIsGood, BlankLine
<1>3. /\ \A k \in NodeKeys : IF k \in r.seen THEN Once(r.out, k, c[k]) /\ ~Absent(f.lines, k)
                             ELSE Absent(r.out, k) /\ Absent(f.lines, k)
      /\ Others(r.out) = Others(f.lines)
      /\ ReadKey(r.out, "socks5") = ReadKey(f.lines, "socks5")
      /\ r.dropped => \E k \in NodeKeys : Repeated(f.lines, k)
  BY <1>2 DEF Good
<1>4. Rewrite(f, c) = zmq
  BY DEF Rewrite
<1> HIDE DEF r
<1>5. kept \in Files /\ kept.lines = r.out /\ (kept.eol <=> f.eol \/ r.dropped)
  BY <1>1, <1>2 DEF Acc, Files
<1> HIDE DEF kept
<1>6. /\ "host" \in NodeKeys /\ "rpc-port" \in NodeKeys /\ "zmq-port" \in NodeKeys
      /\ \A k \in NodeKeys : k = "host" \/ k = "rpc-port" \/ k = "zmq-port"
      /\ "host" # "rpc-port" /\ "host" # "zmq-port" /\ "rpc-port" # "zmq-port"
  BY DEF NodeKeys
<1>7. /\ host \in Files /\ Once(host.lines, "host", c["host"])
      /\ host.eol <=> kept.eol \/ "host" \notin r.seen
      /\ Others(host.lines) = Others(kept.lines)
      /\ ReadKey(host.lines, "socks5") = ReadKey(kept.lines, "socks5")
      /\ \A j : j # "host" => /\ Absent(kept.lines, j) => Absent(host.lines, j)
                              /\ \A v : Once(kept.lines, j, v) => Once(host.lines, j, v)
  <2>1. IF "host" \in r.seen THEN Once(kept.lines, "host", c["host"]) ELSE Absent(kept.lines, "host")
    BY <1>3, <1>5, <1>6
  <2> QED
    BY <1>5, <1>6, <2>1, AddMissingOne
<1> HIDE DEF host
<1>8. /\ rpc \in Files /\ Once(rpc.lines, "rpc-port", c["rpc-port"])
      /\ rpc.eol <=> host.eol \/ "rpc-port" \notin r.seen
      /\ Others(rpc.lines) = Others(host.lines)
      /\ ReadKey(rpc.lines, "socks5") = ReadKey(host.lines, "socks5")
      /\ \A j : j # "rpc-port" => /\ Absent(host.lines, j) => Absent(rpc.lines, j)
                                  /\ \A v : Once(host.lines, j, v) => Once(rpc.lines, j, v)
  <2>1. IF "rpc-port" \in r.seen THEN Once(host.lines, "rpc-port", c["rpc-port"])
        ELSE Absent(host.lines, "rpc-port")
    BY <1>3, <1>5, <1>6, <1>7
  <2> QED
    BY <1>6, <1>7, <2>1, AddMissingOne
<1> HIDE DEF rpc
<1>9. /\ zmq \in Files /\ Once(zmq.lines, "zmq-port", c["zmq-port"])
      /\ zmq.eol <=> rpc.eol \/ "zmq-port" \notin r.seen
      /\ Others(zmq.lines) = Others(rpc.lines)
      /\ ReadKey(zmq.lines, "socks5") = ReadKey(rpc.lines, "socks5")
      /\ \A j : j # "zmq-port" => \A v : Once(rpc.lines, j, v) => Once(zmq.lines, j, v)
  <2>1. IF "zmq-port" \in r.seen THEN Once(rpc.lines, "zmq-port", c["zmq-port"])
        ELSE Absent(rpc.lines, "zmq-port")
    BY <1>3, <1>5, <1>6, <1>7, <1>8
  <2> QED
    BY <1>6, <1>8, <2>1, AddMissingOne
<1> HIDE DEF zmq
<1>10. \A k \in NodeKeys : Once(zmq.lines, k, c[k])
  BY <1>6, <1>7, <1>8, <1>9
<1>11. f.eol => zmq.eol
  BY <1>5, <1>7, <1>8, <1>9
<1>12. zmq.eol => f.eol \/ \E k \in NodeKeys : Repeated(f.lines, k) \/ Absent(f.lines, k)
  BY <1>3, <1>5, <1>6, <1>7, <1>8, <1>9
<1> QED
  BY <1>3, <1>4, <1>5, <1>7, <1>8, <1>9, <1>10, <1>11, <1>12

-----------------------------------------------------------------------------
(* Reading back, and writing again. *)

(* A key that is there once, with a value that is valid, is read as that value. *)
LEMMA OnceRead ==
    ASSUME NEW s, NEW k, NEW v, Once(s, k, v), v # "bad"
    PROVE  ReadKey(s, k) = v
<1>1. PICK i \in 1 .. Len(s) : s[i] = Plain(k, v) /\ \A j \in 1 .. Len(s) : s[j].key = k => j = i
  BY DEF Once
<1>2. s[i].key = k /\ s[i].val = v
  BY <1>1 DEF Plain
<1>3. Valid(s[i], k) /\ \A j \in 1 .. Len(s) : Valid(s[j], k) => j = i
  BY <1>1, <1>2 DEF Valid
<1>4. {j \in 1 .. Len(s) : Valid(s[j], k)} = {i}
  BY <1>3
<1>5. (CHOOSE j \in {i} : \A h \in {i} : h <= j) = i
  <2>1. i <= i
    BY SMT
  <2> QED
    BY <2>1
<1> DEFINE val(at) == IF at = {} THEN "default" ELSE s[CHOOSE j \in at : \A h \in at : h <= j].val
<1>6. ReadKey(s, k) = val({j \in 1 .. Len(s) : Valid(s[j], k)})
  BY DEF ReadKey
<1>7. ReadKey(s, k) = val({i})
  <2> HIDE DEF val
  <2> QED
    BY <1>4, <1>6
<1>8. val({i}) = s[i].val
  BY <1>5
<1> QED
  BY <1>2, <1>7, <1>8

\* The node keys of a file are written for c, and no key is repeated.
Clean(s, c) ==
    /\ \A i \in 1 .. Len(s) : s[i].key \in NodeKeys => s[i] = Plain(s[i].key, c[s[i].key])
    /\ \A k \in NodeKeys : ~Repeated(s, k)

(* The loop of Rewrite leaves a clean file as it is. *)
LEMMA CleanStays ==
    ASSUME NEW c \in Candidates
    PROVE  \A s \in Seq(AllLines) : Clean(s, c) => /\ Replaced(s, c).out = s
                                                   /\ Replaced(s, c).dropped = FALSE
<1> DEFINE Stays(s) == Clean(s, c) => Replaced(s, c).out = s /\ Replaced(s, c).dropped = FALSE
           P == {s \in Seq(AllLines) : Stays(s)}
<1>1. <<>> \in P
  BY ReplacedAppend DEF Nothing
<1>2. ASSUME NEW s \in Seq(AllLines), NEW l \in AllLines, s \in P
      PROVE  Append(s, l) \in P
  <2> DEFINE n == Len(s)
             t == Append(s, l)
  <2>1. /\ n \in Nat /\ t \in Seq(AllLines) /\ Len(t) = n + 1 /\ t[n + 1] = l
        /\ \A i \in 1 .. n : t[i] = s[i]
    BY LenProperties, AppendProperties
  <2>2. /\ \A i \in 1 .. n : i \in 1 .. n + 1
        /\ n + 1 \in 1 .. n + 1
    BY <2>1, SMT
  <2>3. Replaced(s, c) \in Acc /\ Replaced(t, c) = WriteLine(Replaced(s, c), l, c)
    BY ReplacedAppend
  <2>4. /\ \A k : Repeated(s, k) => Repeated(t, k)
        /\ \A k : ~Absent(s, k) /\ l.key = k => Repeated(t, k)
    BY KeyAppend
  <2>5. Good(s, c)
    BY ReplacedIsGood
  <2> HIDE DEF t
  <2>6. ASSUME Clean(t, c)
        PROVE  Replaced(t, c).out = t /\ Replaced(t, c).dropped = FALSE
    <3>1. Clean(s, c)
      BY <2>1, <2>2, <2>4, <2>6 DEF Clean
    <3>2. Replaced(s, c).out = s
      BY <1>2, <3>1
    <3>3. l.key \in NodeKeys => l = Plain(l.key, c[l.key]) /\ Absent(s, l.key)
      BY <2>1, <2>2, <2>4, <2>6 DEF Clean
    <3>4. l.key \in NodeKeys => ~Repeats(Replaced(s, c), l)
      BY <2>5, <3>3 DEF Good, Repeats
    <3>5. CASE l.key \in NodeKeys
      BY <2>3, <3>2, <3>3, <3>4, <3>5 DEF WriteLine, t
    <3>6. CASE l.key \notin NodeKeys
      BY <2>3, <3>2, <3>6 DEF WriteLine, Acc, t
    <3> QED
      BY <3>5, <3>6
  <2> QED
    BY <2>1, <2>6 DEF t
<1> HIDE DEF P
<1>3. \A s \in Seq(AllLines) : s \in P
  BY <1>1, <1>2, ByAppending, Zenon
<1> QED
  BY <1>3 DEF P

(* A file with every key once is not changed by the same node again. *)
LEMMA RewriteAgain ==
    ASSUME NEW c \in Candidates, NEW f \in Files, \A k \in NodeKeys : Once(f.lines, k, c[k])
    PROVE  Rewrite(f, c) = f
<1>1. f.lines \in Seq(AllLines) /\ f.eol \in BOOLEAN /\ f = [lines |-> f.lines, eol |-> f.eol]
  BY DEF Files
<1>2. Clean(f.lines, c)
  <2>1. ASSUME NEW i \in 1 .. Len(f.lines), f.lines[i].key \in NodeKeys
        PROVE  f.lines[i] = Plain(f.lines[i].key, c[f.lines[i].key])
    BY <2>1 DEF Once
  <2>2. ASSUME NEW k \in NodeKeys PROVE ~Repeated(f.lines, k)
    BY DEF Once, Repeated
  <2> QED
    BY <2>1, <2>2 DEF Clean
<1> DEFINE r == Replaced(f.lines, c)
<1>3. r.out = f.lines /\ r.dropped = FALSE
  BY <1>1, <1>2, CleanStays
<1>4. \A k \in NodeKeys : k \in r.seen
  <2>1. \A k \in NodeKeys : ~Absent(f.lines, k)
    <3>1. \A k : Plain(k, c[k]).key = k
      BY DEF Plain
    <3> QED
      BY <3>1 DEF Once, Absent
  <2>2. Good(f.lines, c)
    BY <1>1, ReplacedIsGood
  <2> QED
    BY <2>1, <2>2 DEF Good
<1> HIDE DEF r
<1>5. \A g, k : k \in NodeKeys => AddMissing(g, k, r.seen, c) = g
  BY <1>4 DEF AddMissing
<1>6. [lines |-> r.out, eol |-> f.eol \/ r.dropped] = f
  <2>1. (f.eol \/ r.dropped) = f.eol
    BY <1>1, <1>3
  <2> QED
    BY <1>1, <1>3, <2>1
<1>7. "host" \in NodeKeys /\ "rpc-port" \in NodeKeys /\ "zmq-port" \in NodeKeys
  BY DEF NodeKeys
<1>8. Rewrite(f, c) =
         AddMissing(AddMissing(AddMissing([lines |-> r.out, eol |-> f.eol \/ r.dropped], "host", r.seen, c),
                               "rpc-port", r.seen, c), "zmq-port", r.seen, c)
  BY DEF Rewrite, r
<1> QED
  BY <1>5, <1>6, <1>7, <1>8

-----------------------------------------------------------------------------
(* What Diff tells. *)

(* Blank lines are not lost: each counts as one line of no node key. *)
LEMMA BlanksCount ==
    \A t \in Seq(AllLines) : \A m \in 0 .. Len(t) :
        (\A i \in m + 1 .. Len(t) : t[i] = Blank) =>
            Len(Others(t)) = Len(Others(SubSeq(t, 1, m))) + (Len(t) - m)
<1> DEFINE Counts(t, m) == (\A i \in m + 1 .. Len(t) : t[i] = Blank) =>
                              Len(Others(t)) = Len(Others(SubSeq(t, 1, m))) + (Len(t) - m)
           P == {t \in Seq(AllLines) : \A m \in 0 .. Len(t) : Counts(t, m)}
<1>1. <<>> \in P
  <2>1. SubSeq(<<>>, 1, 0) = <<>> /\ Len(<<>>) = 0 /\ <<>> \in Seq(AllLines)
    BY SubSeqEmpty, SMT
  <2>2. \A m \in 0 .. Len(<<>>) : m = 0
    BY <2>1, SMT
  <2>3. Others(<<>>) = <<>>
    BY OthersAppend
  <2>5. Len(Others(<<>>)) = 0 /\ Len(Others(SubSeq(<<>>, 1, 0))) = 0
    BY <2>1, <2>3
  <2>6. Len(<<>>) - 0 = 0
    BY <2>1
  <2>4. Counts(<<>>, 0)
    BY <2>5, <2>6
  <2> QED
    BY <2>1, <2>2, <2>4
<1>2. ASSUME NEW s \in Seq(AllLines), NEW l \in AllLines, s \in P
      PROVE  Append(s, l) \in P
  <2> DEFINE n == Len(s)
             t == Append(s, l)
  <2>1. /\ n \in Nat /\ t \in Seq(AllLines) /\ Len(t) = n + 1 /\ t[n + 1] = l
        /\ \A i \in 1 .. n : t[i] = s[i]
    BY LenProperties, AppendProperties
  <2>2. /\ Others(s) \in Seq(AllLines) /\ Len(Others(s)) \in Nat
        /\ Others(t) = IF l.key \in NodeKeys THEN Others(s) ELSE Append(Others(s), l)
    BY OthersAppend, LenProperties
  <2> HIDE DEF t
  <2>3. ASSUME NEW m \in 0 .. n + 1, \A i \in m + 1 .. n + 1 : t[i] = Blank
        PROVE  Len(Others(t)) = Len(Others(SubSeq(t, 1, m))) + (n + 1 - m)
    <3>1. CASE m = n + 1
      <4>1. SubSeq(t, 1, n + 1) = t
        BY <2>1, SubSeqFull
      <4>2. Len(Others(t)) \in Nat
        <5>1. Others(t) \in Seq(AllLines)
          BY <2>1, OthersAppend, BlankLine
        <5> QED
          BY <5>1, LenProperties
      <4>3. \A k \in Nat : k = k + (n + 1 - (n + 1))
        BY <2>1, SMT
      <4> QED
        BY <3>1, <4>1, <4>2, <4>3
    <3>2. CASE m # n + 1
      <4>1. /\ m \in 0 .. n /\ n + 1 \in m + 1 .. n + 1
            /\ \A i \in m + 1 .. n : i \in m + 1 .. n + 1 /\ i \in 1 .. n
            /\ \A i \in 1 .. m : i \in 1 .. n /\ i \in 1 .. n + 1
        BY <2>1, <3>2, SMT
      <4>2. l = Blank /\ \A i \in m + 1 .. n : s[i] = Blank
        BY <2>1, <2>3, <4>1
      <4>3. Len(Others(s)) = Len(Others(SubSeq(s, 1, m))) + (n - m)
        BY <1>2, <4>1, <4>2
      <4>4. SubSeq(t, 1, m) = SubSeq(s, 1, m)
        <5>1. t = s \o <<l>>
          BY AppendIsConcat DEF t
        <5>2. CASE m = 0
          <6>1. SubSeq(t, 1, 0) = <<>> /\ SubSeq(s, 1, 0) = <<>>
            BY SubSeqEmpty, SMT
          <6> QED
            BY <5>2, <6>1
        <5>3. CASE m # 0
          <6>1. m \in 1 .. Len(s) /\ 1 \in 1 .. Len(s) /\ <<l>> \in Seq(AllLines)
            BY <2>1, <4>1, <5>3, SMT
          <6> QED
            BY <5>1, <6>1, SubSeqOfConcat1
        <5> QED
          BY <5>2, <5>3
      <4>5. Len(Others(t)) = Len(Others(s)) + 1
        <5>1. Others(t) = Append(Others(s), l)
          BY <2>2, <4>2, BlankLine
        <5> QED
          BY <2>2, <5>1, AppendProperties
      <4>6. Len(Others(SubSeq(s, 1, m))) \in Nat
        <5>1. \A i \in 1 .. m : s[i] \in AllLines
          BY <4>1, ElementOfSeq
        <5>2. SubSeq(s, 1, m) \in Seq(AllLines)
          BY <2>1, <4>1, <5>1, SubSeqProperties
        <5>3. Others(SubSeq(s, 1, m)) \in Seq(AllLines)
          BY <5>2, OthersAppend, BlankLine
        <5> QED
          BY <5>3, LenProperties
      <4>7. \A a, b, d \in Nat : a = b + (n - m) /\ d = a + 1 => d = b + (n + 1 - m)
        BY <2>1, <4>1, SMT
      <4>8. Len(Others(t)) \in Nat
        BY <2>2, <4>5
      <4> QED
        BY <2>2, <4>3, <4>4, <4>5, <4>6, <4>7, <4>8, Zenon
    <3> QED
      BY <3>1, <3>2
  <2>4. \A m \in 0 .. Len(t) : Counts(t, m)
    BY <2>1, <2>3
  <2> QED
    BY <2>1, <2>4 DEF t
<1> HIDE DEF P
<1>3. \A s \in Seq(AllLines) : s \in P
  BY <1>1, <1>2, ByAppending, Zenon
<1> QED
  BY <1>3 DEF P

(* The longer of two files with the same other lines is not the shorter and blanks. *)
LEMMA NoBlanksAdded ==
    ASSUME NEW s \in Seq(AllLines), NEW t \in Seq(AllLines), Len(s) < Len(t),
           \A i \in 1 .. Len(s) + Len(t) : LineAt(s, i) = LineAt(t, i)
    PROVE  Len(Others(s)) # Len(Others(t))
<1>1. Len(s) \in Nat /\ Len(t) \in Nat
  BY LenProperties
<1>2. /\ \A i \in Len(s) + 1 .. Len(t) : i \in 1 .. Len(t) /\ i \notin 1 .. Len(s) /\ i \in 1 .. Len(s) + Len(t)
      /\ \A i \in 1 .. Len(s) : i \in 1 .. Len(t) /\ i \in 1 .. Len(s) + Len(t)
      /\ Len(s) \in 0 .. Len(t) /\ Len(s) \in Int /\ Len(s) - 1 + 1 = Len(s)
  BY <1>1, SMT
<1>3. \A i \in Len(s) + 1 .. Len(t) : t[i] = Blank
  BY <1>2 DEF LineAt
<1>4. \A i \in 1 .. Len(s) : t[i] = s[i]
  BY <1>2 DEF LineAt
<1>5. SubSeq(t, 1, Len(s)) = s
  <2>1. \A i \in 1 .. Len(s) : t[i] \in AllLines
    BY <1>2, ElementOfSeq
  <2>2. /\ SubSeq(t, 1, Len(s)) \in Seq(AllLines)
        /\ Len(SubSeq(t, 1, Len(s))) = IF 1 <= Len(s) THEN Len(s) - 1 + 1 ELSE 0
        /\ \A i \in 1 .. Len(s) - 1 + 1 : SubSeq(t, 1, Len(s))[i] = t[1 + i - 1]
    BY <1>2, <2>1, SubSeqProperties
  <2>3. Len(SubSeq(t, 1, Len(s))) = Len(s)
    BY <1>1, <2>2, SMT
  <2>4. \A i \in 1 .. Len(s) : SubSeq(t, 1, Len(s))[i] = s[i]
    <3>1. \A i \in 1 .. Len(s) : 1 + i - 1 = i
      BY <1>1, SMT
    <3> QED
      BY <1>2, <1>4, <2>2, <3>1
  <2> QED
    BY <2>2, <2>3, <2>4, SeqEqual
<1>6. Len(Others(t)) = Len(Others(s)) + (Len(t) - Len(s))
  BY <1>2, <1>3, <1>5, BlanksCount
<1>7. Len(Others(s)) \in Nat
  <2>1. Others(s) \in Seq(AllLines)
    BY OthersAppend, BlankLine
  <2> QED
    BY <2>1, LenProperties
<1>8. \A a \in Nat : a # a + (Len(t) - Len(s))
  BY <1>1, SMT
<1> QED
  BY <1>6, <1>7, <1>8

(* Files between which Diff finds nothing, and whose other lines agree, have the same   *)
(* lines.                                                                               *)
LEMMA SameLines ==
    ASSUME NEW s \in Seq(AllLines), NEW t \in Seq(AllLines), Diff(s, t) = {}, Others(s) = Others(t)
    PROVE  s = t
<1>1. \A i \in 1 .. Len(s) + Len(t) : LineAt(s, i) = LineAt(t, i)
  BY DEF Diff
<1>2. Len(s) \in Nat /\ Len(t) \in Nat
  BY LenProperties
<1>3. ~(Len(s) < Len(t))
  BY <1>1, NoBlanksAdded
<1>4. ~(Len(t) < Len(s))
  <2>1. Len(t) + Len(s) = Len(s) + Len(t)
    BY <1>2, SMT
  <2>2. \A i \in 1 .. Len(t) + Len(s) : LineAt(t, i) = LineAt(s, i)
    BY <1>1, <2>1
  <2> QED
    BY <2>2, NoBlanksAdded
<1>5. Len(s) = Len(t)
  BY <1>2, <1>3, <1>4, SMT
<1>6. \A i \in 1 .. Len(s) : i \in 1 .. Len(s) + Len(t)
  BY <1>2, SMT
<1>7. \A i \in 1 .. Len(s) : s[i] = t[i]
  BY <1>1, <1>5, <1>6 DEF LineAt
<1> QED
  BY <1>5, <1>7, SeqEqual

(* Rewrite changes something, or Diff tells. *)
LEMMA DiffTells ==
    ASSUME NEW c \in Candidates, NEW f \in Files, Diff(f.lines, Rewrite(f, c).lines) = {}
    PROVE  Rewrite(f, c) = f
<1> DEFINE w == Rewrite(f, c)
<1>1. /\ w \in Files
      /\ \A k \in NodeKeys : Once(w.lines, k, c[k])
      /\ Others(w.lines) = Others(f.lines)
      /\ f.eol => w.eol
      /\ w.eol => f.eol \/ \E k \in NodeKeys : Repeated(f.lines, k) \/ Absent(f.lines, k)
  BY RewriteGood
<1> HIDE DEF w
<1>2. /\ w.lines \in Seq(AllLines) /\ w.eol \in BOOLEAN /\ w = [lines |-> w.lines, eol |-> w.eol]
      /\ f.lines \in Seq(AllLines) /\ f.eol \in BOOLEAN /\ f = [lines |-> f.lines, eol |-> f.eol]
  BY <1>1 DEF Files
<1>3. f.lines = w.lines
  <2>1. Diff(f.lines, w.lines) = {}
    BY DEF w
  <2> QED
    BY <1>1, <1>2, <2>1, SameLines
<1>4. \A k \in NodeKeys : ~Repeated(f.lines, k) /\ ~Absent(f.lines, k)
  <2>1. \A k : Plain(k, c[k]).key = k
    BY DEF Plain
  <2> QED
    BY <1>1, <1>3, <2>1 DEF Once, Repeated, Absent
<1>5. f.eol = w.eol
  BY <1>1, <1>2, <1>4
<1> QED
  BY <1>2, <1>3, <1>5 DEF w

-----------------------------------------------------------------------------

\* The file, and what Rewrite made of it.
ParamsInv ==
    /\ file \in Files
    /\ node # NoNode => node \in Candidates /\ written = Rewrite(file, node)

\* The file, and what Rewrite made of it, in every state.
LEMMA ParamsInvariant == ParamsSpec => []ParamsInv
<1>1. ParamsInit => ParamsInv
  BY DEF ParamsInit, ParamsInv, Files
<1>2. ASSUME ParamsInv, [ParamsNext]_paramsVars PROVE ParamsInv'
  <2>1. CASE AppendLine
    <3>1. PICK l \in Lines, e \in BOOLEAN :
             file' = [lines |-> Append(file.lines, l), eol |-> e \/ l = Blank]
      BY <2>1 DEF AppendLine
    <3>2. l \in AllLines
      BY DEF Lines, AllLines
    <3>3. Append(file.lines, l) \in Seq(AllLines)
      BY <1>2, <3>2, AppendProperties DEF ParamsInv, Files
    <3>4. (e \/ l = Blank) \in BOOLEAN
      OBVIOUS
    <3>5. file' \in Files
      BY <3>1, <3>3, <3>4 DEF Files
    <3>6. node' = NoNode
      BY <2>1 DEF AppendLine
    <3> QED
      BY <3>5, <3>6 DEF ParamsInv, NoNode
  <2>2. CASE SelectNode
    BY <1>2, <2>2 DEF SelectNode, ParamsInv
  <2>3. CASE UNCHANGED paramsVars
    BY <1>2, <2>3 DEF paramsVars, ParamsInv
  <2> QED
    BY <1>2, <2>1, <2>2, <2>3 DEF ParamsNext
<1> QED
  BY <1>1, <1>2, PTL DEF ParamsSpec

(* NODE-03, for every file and every node: what is written reads back as the selected   *)
(* node, by one line of each key.                                                       *)
THEOREM SwitchComplete == ParamsSpec => []SwitchIsComplete
<1>1. ASSUME ParamsInv, node # NoNode, NEW k \in NodeKeys
      PROVE  /\ ReadParams(written.lines)[k] = node[k]
             /\ \E i \in DOMAIN written.lines :
                   \A j \in DOMAIN written.lines : written.lines[j].key = k <=> j = i
  <2>1. node \in Candidates /\ file \in Files /\ written = Rewrite(file, node)
    BY <1>1 DEF ParamsInv
  <2>2. written \in Files /\ Once(written.lines, k, node[k])
    BY <2>1, RewriteGood
  <2>3. Plain(k, node[k]).key = k /\ node[k] # "bad"
    BY <2>1, PlainLine
  <2>4. ReadParams(written.lines)[k] = node[k]
    BY <2>2, <2>3, OnceRead DEF ReadParams
  <2>5. DOMAIN written.lines = 1 .. Len(written.lines)
    BY <2>2, LenProperties DEF Files
  <2> QED
    BY <2>2, <2>3, <2>4, <2>5 DEF Once
<1>2. ParamsInv => SwitchIsComplete
  BY <1>1 DEF SwitchIsComplete
<1> QED
  BY <1>2, ParamsInvariant, PTL

(* NODE-03: no other line is lost, changed or moved, nor what is read of the proxy. *)
THEOREM OthersStay == ParamsSpec => []OthersKept
<1>1. ParamsInv => OthersKept
  <2> SUFFICES ASSUME ParamsInv, node # NoNode
               PROVE  /\ Others(written.lines) = Others(file.lines)
                      /\ ReadParams(written.lines)["socks5"] = ReadParams(file.lines)["socks5"]
    BY DEF OthersKept
  <2>1. node \in Candidates /\ file \in Files /\ written = Rewrite(file, node)
    BY DEF ParamsInv
  <2>2. /\ Others(written.lines) = Others(file.lines)
        /\ ReadKey(written.lines, "socks5") = ReadKey(file.lines, "socks5")
    BY <2>1, RewriteGood
  <2> QED
    BY <2>2 DEF ReadParams
<1> QED
  BY <1>1, ParamsInvariant, PTL

(* The write is skipped only where it would have changed nothing, and it would change   *)
(* nothing the second time.                                                             *)
THEOREM SkipCorrect == ParamsSpec => []SkipsOnlyNothing
<1>1. ParamsInv => SkipsOnlyNothing
  <2> SUFFICES ASSUME ParamsInv, node # NoNode
               PROVE  /\ Diff(file.lines, written.lines) = {} => written = file
                      /\ Rewrite(written, node) = written
    BY DEF SkipsOnlyNothing
  <2>1. node \in Candidates /\ file \in Files /\ written = Rewrite(file, node)
    BY DEF ParamsInv
  <2>2. written \in Files /\ \A k \in NodeKeys : Once(written.lines, k, node[k])
    BY <2>1, RewriteGood
  <2>3. Rewrite(written, node) = written
    BY <2>1, <2>2, RewriteAgain
  <2>4. Diff(file.lines, written.lines) = {} => written = file
    BY <2>1, DiffTells
  <2> QED
    BY <2>3, <2>4
<1> QED
  BY <1>1, ParamsInvariant, PTL
=============================================================================
