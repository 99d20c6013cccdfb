------------------------------ MODULE Recursion ------------------------------
(***************************************************************************)
(* Induction over data, for the loops that the models write as recursive   *)
(* functions: every set of natural numbers has a least element, so a set   *)
(* that is closed under the steps of a loop holds all its rounds, and the  *)
(* function a loop defines exists.                                         *)
(***************************************************************************)
EXTENDS Integers, Sequences, SequenceTheorems, WellFoundedInduction, TLAPS

(* A non-empty set of natural numbers has a least element. *)
LEMMA LeastNat ==
    ASSUME NEW T, T \subseteq Nat, T # {}
    PROVE  \E x \in T : \A y \in T : x <= y
<1>1. PICK x \in T : \A y \in T : ~(<<y, x>> \in OpToRel(<, Nat))
  BY NatLessThanWellFounded, WFMin, Zenon
<1>2. ASSUME NEW y \in T PROVE x <= y
  <2>1. ~(<<y, x>> \in OpToRel(<, Nat))
    BY <1>1
  <2>2. ~(y < x)
    BY <2>1 DEF OpToRel
  <2> QED
    BY <2>2, SMT
<1> QED
  BY <1>2

(* Induction: a set that holds 0 and with each number below n the next one holds all up to n. *)
LEMMA UpTo ==
    ASSUME NEW n \in Nat, NEW P, 0 \in P, \A i \in 0 .. n - 1 : i \in P => i + 1 \in P
    PROVE  \A i \in 0 .. n : i \in P
<1> SUFFICES ASSUME NEW i \in 0 .. n, i \notin P PROVE FALSE
  OBVIOUS
<1> DEFINE T == {j \in 0 .. n : j \notin P}
<1>1. T \subseteq Nat /\ T # {}
  BY SMT
<1>2. PICK x \in T : \A y \in T : x <= y
  BY <1>1, LeastNat, Zenon
<1>3. x \in Nat /\ x # 0 /\ x - 1 \in 0 .. n - 1 /\ x - 1 \in 0 .. n /\ ~(x <= x - 1)
  BY <1>2, SMT
<1>4. x - 1 \in P
  BY <1>2, <1>3
<1>5. (x - 1) + 1 \in P
  BY <1>3, <1>4
<1> QED
  BY <1>2, <1>3, <1>5, SMT

\* f goes through a loop of n rounds over A, where `step' gives what each makes of the last.
IsLoop(f, A, base, n, step) ==
    /\ f \in [0 .. n -> A]
    /\ \A i \in 0 .. n : f[i] = IF i = 0 THEN base ELSE step[i][f[i - 1]]

(* The recursive function that goes through a loop of n rounds exists. *)
LEMMA LoopExists ==
    ASSUME NEW A, NEW base \in A, NEW n \in Nat, NEW step \in [1 .. n -> [A -> A]]
    PROVE  \E f : IsLoop(f, A, base, n, step)
<1> DEFINE Rec(f, m) == \A i \in 0 .. m : f[i] = IF i = 0 THEN base ELSE step[i][f[i - 1]]
           P == {m \in 0 .. n : \E f \in [0 .. m -> A] : Rec(f, m)}
<1>1. 0 \in P
  <2> DEFINE f == [i \in 0 .. 0 |-> base]
  <2>1. f \in [0 .. 0 -> A] /\ Rec(f, 0)
    BY SMT
  <2>2. 0 \in 0 .. n
    BY SMT
  <2> HIDE DEF f
  <2> QED
    BY <2>1, <2>2
<1>2. ASSUME NEW m \in 0 .. n - 1, m \in P
      PROVE  m + 1 \in P
  <2>1. PICK f \in [0 .. m -> A] : Rec(f, m)
    BY <1>2
  <2>2. m \in Nat /\ m + 1 \in 1 .. n /\ m + 1 \in 0 .. n /\ m \in 0 .. m /\ m + 1 \notin 0 .. m /\ (m + 1) - 1 = m
    BY SMT
  <2> DEFINE g == [i \in 0 .. m + 1 |-> IF i = m + 1 THEN step[m + 1][f[m]] ELSE f[i]]
  <2>3. step[m + 1][f[m]] \in A
    BY <2>2
  <2>4. \A i \in 0 .. m + 1 : i = m + 1 \/ i \in 0 .. m
    BY <2>2, SMT
  <2>5. g \in [0 .. m + 1 -> A]
    BY <2>3, <2>4
  <2>6. ASSUME NEW i \in 0 .. m + 1
        PROVE  g[i] = IF i = 0 THEN base ELSE step[i][g[i - 1]]
    <3>1. CASE i = m + 1
      <4>1. i # 0 /\ i - 1 = m /\ i - 1 \in 0 .. m + 1 /\ m # m + 1
        BY <2>2, <3>1, SMT
      <4>2. g[m] = f[m]
        BY <2>2, <4>1
      <4> QED
        BY <3>1, <4>1, <4>2
    <3>2. CASE i # m + 1
      <4>1. i \in 0 .. m /\ (i # 0 => i - 1 \in 0 .. m /\ i - 1 # m + 1 /\ i - 1 \in 0 .. m + 1)
        BY <2>2, <3>2, SMT
      <4>2. g[i] = f[i] /\ (i # 0 => g[i - 1] = f[i - 1])
        BY <3>2, <4>1
      <4> QED
        BY <2>1, <4>1, <4>2
    <3> QED
      BY <3>1, <3>2
  <2> QED
    BY <2>2, <2>5, <2>6
<1> HIDE DEF P
<1>3. \A m \in 0 .. n : m \in P
  BY <1>1, <1>2, UpTo, Zenon
<1>4. n \in P
  BY <1>3, SMT
<1>5. PICK f \in [0 .. n -> A] : Rec(f, n)
  BY <1>4 DEF P
<1> QED
  BY <1>5 DEF IsLoop

(* A function that goes through the loop as long as its values are in A does so throughout. *)
LEMMA LoopIs ==
    ASSUME NEW A, NEW base \in A, NEW n \in Nat, NEW step \in [1 .. n -> [A -> A]], NEW g,
           g = [i \in 0 .. n |-> g[i]], g[0] = base,
           \A i \in 1 .. n : g[i - 1] \in A => g[i] = step[i][g[i - 1]]
    PROVE  IsLoop(g, A, base, n, step)
<1> DEFINE P == {i \in 0 .. n : g[i] \in A}
<1>1. 0 \in P
  BY SMT
<1>2. ASSUME NEW i \in 0 .. n - 1, i \in P
      PROVE  i + 1 \in P
  <2>1. i + 1 \in 1 .. n /\ i + 1 \in 0 .. n /\ (i + 1) - 1 = i
    BY SMT
  <2>2. g[i + 1] = step[i + 1][g[i]] /\ g[i] \in A
    BY <1>2, <2>1
  <2> QED
    BY <2>1, <2>2
<1> HIDE DEF P
<1>3. \A i \in 0 .. n : i \in P
  BY <1>1, <1>2, UpTo
<1>4. \A i \in 0 .. n : g[i] \in A
  BY <1>3 DEF P
<1>5. \A i \in 0 .. n : i = 0 \/ (i # 0 /\ i \in 1 .. n /\ i - 1 \in 0 .. n)
  BY SMT
<1>6. g \in [0 .. n -> A]
  BY <1>4
<1>7. \A i \in 0 .. n : g[i] = IF i = 0 THEN base ELSE step[i][g[i - 1]]
  BY <1>4, <1>5
<1> QED
  BY <1>6, <1>7 DEF IsLoop

(* Two functions that start alike, and stay alike from one round to the next, are alike. *)
LEMMA LoopsAgree ==
    ASSUME NEW n \in Nat, NEW f, NEW g, f[0] = g[0],
           \A i \in 1 .. n : f[i - 1] = g[i - 1] => f[i] = g[i]
    PROVE  f[n] = g[n]
<1> DEFINE P == {i \in 0 .. n : f[i] = g[i]}
<1>1. 0 \in P
  BY SMT
<1>2. ASSUME NEW i \in 0 .. n - 1, i \in P
      PROVE  i + 1 \in P
  <2>1. i + 1 \in 1 .. n /\ i + 1 \in 0 .. n /\ (i + 1) - 1 = i
    BY SMT
  <2> QED
    BY <1>2, <2>1
<1> HIDE DEF P
<1>3. \A i \in 0 .. n : i \in P
  BY <1>1, <1>2, UpTo
<1>4. n \in P
  BY <1>3, SMT
<1> QED
  BY <1>4 DEF P

(* Induction over sequences: a set with the empty one, and with each sequence those that *)
(* are longer by an element, holds them all.                                             *)
LEMMA ByAppending ==
    ASSUME NEW S, NEW P, <<>> \in P,
           \A s \in Seq(S), e \in S : s \in P => Append(s, e) \in P
    PROVE  \A s \in Seq(S) : s \in P
<1> SUFFICES ASSUME NEW s \in Seq(S) PROVE s \in P
  OBVIOUS
<1> DEFINE n == Len(s)
           Q == {i \in 0 .. n : SubSeq(s, 1, i) \in P}
<1>1. n \in Nat /\ \A i \in 1 .. n : s[i] \in S
  BY LenProperties, ElementOfSeq
<1>2. 0 \in Q
  <2>1. SubSeq(s, 1, 0) = <<>> /\ 0 \in 0 .. n
    BY <1>1, SubSeqEmpty, SMT
  <2> QED
    BY <2>1
<1>3. ASSUME NEW i \in 0 .. n - 1, i \in Q
      PROVE  i + 1 \in Q
  <2>1. i + 1 \in 1 .. n /\ 1 \in 1 .. n /\ i + 1 \in 1 .. Len(s) /\ i + 1 \in 0 .. n
        /\ (i + 1) - 1 = i /\ i \in Int /\ \A j \in 1 .. i : j \in 1 .. n
    BY <1>1, SMT
  <2>2. SubSeq(s, 1, i) \in Seq(S) /\ s[i + 1] \in S
    BY <1>1, <2>1, SubSeqProperties
  <2>3. SubSeq(s, 1, i + 1) = Append(SubSeq(s, 1, i), s[i + 1])
    <3>1. SubSeq(s, 1, i + 1) = SubSeq(s, 1, (i + 1) - 1) \o <<s[i + 1]>>
      <4>1. i + 1 \in 1 .. Len(s) /\ 1 \in 1 .. Len(s)
        BY <2>1
      <4> QED
        BY <4>1, SubSeqRecursiveSecond
    <3>2. Append(SubSeq(s, 1, i), s[i + 1]) = SubSeq(s, 1, i) \o <<s[i + 1]>>
      BY <2>2, AppendIsConcat
    <3> QED
      BY <2>1, <3>1, <3>2
  <2> QED
    BY <1>3, <2>1, <2>2, <2>3
<1> HIDE DEF Q
<1>4. \A i \in 0 .. n : i \in Q
  BY <1>1, <1>2, <1>3, UpTo
<1>5. n \in Q
  BY <1>1, <1>4, SMT
<1>6. SubSeq(s, 1, n) = s
  BY SubSeqFull
<1> QED
  BY <1>5, <1>6 DEF Q
==============================================================================
