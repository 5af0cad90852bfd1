---------------------------- MODULE DataLemmas ----------------------------
(***************************************************************************)
(* What the proofs need of the data: minima and maxima of sets of          *)
(* naturals, induction, functions defined by recursion on an interval, and *)
(* where a sequence occurs in another.                                     *)
(*                                                                         *)
(* Induction is over the members of a set, so that it is stated without an *)
(* operator as a parameter; the step of a recursion is a function.         *)
(***************************************************************************)
EXTENDS Integers, Sequences, SequencesExt, FiniteSetsExt,
        SequenceTheorems, FiniteSetTheorems, WellFoundedInduction, TLAPS

\* A set of naturals has a minimum: of the intervals from 0 to its members one
\* has no strict subset among them, since finite sets are well founded.
LEMMA MinExists ==
  ASSUME NEW S, S \subseteq Nat, S # {}
  PROVE  Min(S) \in S /\ \A x \in S : Min(S) <= x
<1> DEFINE Below == { 0 .. x : x \in S }
<1>1. Below \subseteq FiniteSubsetsOf(Nat)
  <2> SUFFICES ASSUME NEW x \in S PROVE 0 .. x \in FiniteSubsetsOf(Nat)
    OBVIOUS
  <2>1. x \in Nat
    OBVIOUS
  <2>2. IsFiniteSet(0 .. x)
    BY <2>1, FS_Interval
  <2>3. 0 .. x \subseteq Nat
    BY <2>1
  <2> QED BY <2>2, <2>3 DEF FiniteSubsetsOf
<1>2. Below # {}
  OBVIOUS
<1>3. IsWellFoundedOn(StrictSubsetOrdering(Nat), FiniteSubsetsOf(Nat))
  BY FS_StrictSubsetOrderingWellFounded
<1> HIDE DEF Below
<1>4. PICK I \in Below : \A J \in Below : ~ (<<J, I>> \in StrictSubsetOrdering(Nat))
  BY <1>1, <1>2, <1>3, WFMin
<1>5. PICK x \in S : I = 0 .. x
  BY DEF Below
<1>6. \A y \in S : x <= y
  <2> SUFFICES ASSUME NEW y \in S, y < x PROVE FALSE
    OBVIOUS
  <2>1. 0 .. y \in Below
    BY DEF Below
  <2>2. (0 .. y) \subseteq (0 .. x) /\ x \in 0 .. x /\ x \notin 0 .. y
    OBVIOUS
  <2>3. <<0 .. y, 0 .. x>> \in StrictSubsetOrdering(Nat)
    <3>1. 0 .. y \in SUBSET Nat /\ 0 .. x \in SUBSET Nat
      OBVIOUS
    <3>2. (0 .. y) # (0 .. x)
      BY <2>2
    <3> QED BY <2>2, <3>1, <3>2 DEF StrictSubsetOrdering
  <2> QED BY <1>4, <1>5, <2>1, <2>3
<1> QED BY <1>6 DEF Min

\* A set of naturals with a bound has a maximum.
LEMMA MaxExists ==
  ASSUME NEW S, S \subseteq Nat, S # {}, NEW n \in Nat, \A x \in S : x <= n
  PROVE  Max(S) \in S /\ \A x \in S : x <= Max(S)
<1> DEFINE Below == { n - x : x \in S }
<1>1. Below \subseteq Nat
  <2> SUFFICES ASSUME NEW x \in S PROVE n - x \in Nat
    OBVIOUS
  <2>1. x \in Nat /\ x <= n
    OBVIOUS
  <2> QED BY <2>1
<1>0. Below # {}
  OBVIOUS
<1> HIDE DEF Below
<1>2. Min(Below) \in Below /\ \A y \in Below : Min(Below) <= y
  BY <1>0, <1>1, MinExists
<1>3. PICK m \in S : Min(Below) = n - m
  BY <1>2 DEF Below
<1>4. \A x \in S : x <= m
  <2> SUFFICES ASSUME NEW x \in S PROVE x <= m
    OBVIOUS
  <2>1. n - m <= n - x
    BY <1>2, <1>3 DEF Below
  <2> QED BY <2>1
<1>5. \A x \in S : m >= x
  BY <1>4
<1> QED BY <1>5 DEF Max
-----------------------------------------------------------------------------
(***************************************************************************)
(* Induction.                                                              *)
(***************************************************************************)

\* What is in S as soon as all smaller numbers are, is in S.
LEMMA StrongInduction ==
  ASSUME NEW S, \A n \in Nat : (\A m \in Nat : m < n => m \in S) => n \in S
  PROVE  \A n \in Nat : n \in S
<1> SUFFICES ASSUME NEW k \in Nat, k \notin S PROVE FALSE
  OBVIOUS
<1> DEFINE Out == Nat \ S
<1>1. Out \subseteq Nat /\ Out # {}
  OBVIOUS
<1>0. \A m \in Nat : m \in Out \/ m \in S
  OBVIOUS
<1>a. \A m \in Out : m \notin S
  OBVIOUS
<1> HIDE DEF Out
<1>2. Min(Out) \in Out /\ \A x \in Out : Min(Out) <= x
  BY <1>1, MinExists
<1>3. Min(Out) \in Nat
  BY <1>1, <1>2
<1>4. ASSUME NEW m \in Nat, m < Min(Out) PROVE m \in S
  BY <1>0, <1>2, <1>3, <1>4
<1> QED BY <1>2, <1>3, <1>4, <1>a

\* From 0 up, one after the other.
LEMMA Induction ==
  ASSUME NEW S, 0 \in S, \A n \in Nat : n \in S => n + 1 \in S
  PROVE  \A n \in Nat : n \in S
<1> SUFFICES ASSUME NEW n \in Nat, \A m \in Nat : m < n => m \in S PROVE n \in S
  BY StrongInduction
<1>1. CASE n = 0
  BY <1>1
<1>2. CASE n > 0
  <2>1. n - 1 \in Nat /\ n - 1 < n /\ (n - 1) + 1 = n
    BY <1>2
  <2> QED BY <2>1
<1> QED BY <1>1, <1>2

\* Each value of f on an interval is given, or is computed from one before it, or
\* from one behind it: from the value at from[i] by the function step[i].
Ascends(f, lo, hi, first, from, step) ==
  \A i \in lo..hi :
    f[i] = IF from[i] \in lo .. i - 1 THEN step[i][f[from[i]]] ELSE first[i]

Descends(f, lo, hi, first, from, step) ==
  \A i \in lo..hi :
    f[i] = IF from[i] \in i + 1 .. hi THEN step[i][f[from[i]]] ELSE first[i]

\* Such functions exist.
LEMMA RecursionUp ==
  ASSUME NEW A, NEW lo \in Int, NEW hi \in Int, NEW first \in [lo..hi -> A],
         NEW from, NEW step \in [lo..hi -> [A -> A]]
  PROVE  \E f \in [lo..hi -> A] : Ascends(f, lo, hi, first, from, step)
<1> DEFINE Val(f, i) == IF from[i] \in lo .. i - 1 THEN step[i][f[from[i]]] ELSE first[i]
           Upto(n, f) == \A i \in lo .. lo + n - 1 : f[i] = Val(f, i)
           S == { n \in Nat : lo + n - 1 <= hi => \E f \in [lo .. lo + n - 1 -> A] : Upto(n, f) }
<1>1. 0 \in S
  <2>1. lo .. lo + 0 - 1 = {}
    OBVIOUS
  <2>2. [x \in {} |-> x] \in [{} -> A]
    OBVIOUS
  <2>3. Upto(0, [x \in {} |-> x])
    BY <2>1
  <2> QED BY <2>1, <2>2, <2>3
<1>2. ASSUME NEW n \in Nat, n \in S PROVE n + 1 \in S
  <2> SUFFICES ASSUME lo + (n + 1) - 1 <= hi
               PROVE  \E f \in [lo .. lo + (n + 1) - 1 -> A] : Upto(n + 1, f)
    OBVIOUS
  <2> DEFINE k == lo + n
  <2>1. k \in lo..hi /\ lo + (n + 1) - 1 = k /\ lo + n - 1 = k - 1 /\ k - 1 <= hi
    OBVIOUS
  <2>2. PICK f \in [lo .. k - 1 -> A] : \A i \in lo .. k - 1 : f[i] = Val(f, i)
    BY <1>2, <2>1
  <2> HIDE DEF k
  <2>k. k \in Int
    BY <2>1
  <2> DEFINE g == [i \in lo..k |-> IF i = k THEN Val(f, k) ELSE f[i]]
  <2>3. Val(f, k) \in A
    <3>1. CASE from[k] \in lo .. k - 1
      <4>1. f[from[k]] \in A
        BY <3>1, <2>2
      <4> QED BY <2>1, <3>1, <4>1
    <3>2. CASE ~ (from[k] \in lo .. k - 1)
      BY <2>1, <3>2
    <3> QED BY <3>1, <3>2
  <2>4. g \in [lo..k -> A]
    <3> SUFFICES ASSUME NEW i \in lo..k PROVE (IF i = k THEN Val(f, k) ELSE f[i]) \in A
      OBVIOUS
    <3>1. CASE i = k
      BY <3>1, <2>3
    <3>2. CASE i # k
      <4>1. i \in lo .. k - 1
        BY <3>2, <2>1
      <4> QED BY <3>2, <4>1, <2>2
    <3> QED BY <3>1, <3>2
  <2>5. ASSUME NEW i \in lo..k PROVE g[i] = Val(g, i)
    <3>1. ASSUME from[i] \in lo .. i - 1 PROVE g[from[i]] = f[from[i]]
      <4>1. from[i] \in lo..k /\ from[i] # k
        BY <3>1, <2>k
      <4> QED BY <4>1
    <3>2. Val(g, i) = Val(f, i)
      BY <3>1
    <3>3. CASE i = k
      BY <3>2, <3>3
    <3>4. CASE i # k
      <4>1. i \in lo .. k - 1
        BY <3>4, <2>k
      <4> QED BY <3>2, <3>4, <4>1, <2>2
    <3> QED BY <3>3, <3>4
  <2> QED BY <2>1, <2>4, <2>5
<1> HIDE DEF S
<1>3. \A n \in Nat : n \in S
  BY <1>1, <1>2, Induction
<1>4. CASE lo <= hi
  <2>1. hi - lo + 1 \in Nat /\ lo + (hi - lo + 1) - 1 = hi
    BY <1>4
  <2> DEFINE n == hi - lo + 1
  <2>2. n \in Nat /\ lo + n - 1 = hi /\ n \in S
    BY <2>1, <1>3
  <2> HIDE DEF n
  <2>3. PICK f \in [lo .. lo + n - 1 -> A] : Upto(n, f)
    BY <2>2 DEF S
  <2>4. f \in [lo..hi -> A] /\ \A i \in lo..hi : f[i] = Val(f, i)
    BY <2>2, <2>3
  <2> QED BY <2>4 DEF Ascends
<1>5. CASE hi < lo
  <2>1. lo..hi = {}
    BY <1>5
  <2> DEFINE f == [i \in lo..hi |-> i]
  <2>2. f \in [lo..hi -> A]
    BY <2>1
  <2>3. \A i \in lo..hi : f[i] = Val(f, i)
    BY <2>1
  <2> QED BY <2>2, <2>3 DEF Ascends
<1> QED BY <1>4, <1>5

\* The same downwards, by counting from the other end.
LEMMA RecursionDown ==
  ASSUME NEW A, NEW lo \in Int, NEW hi \in Int, NEW first \in [lo..hi -> A],
         NEW from \in [lo..hi -> Int], NEW step \in [lo..hi -> [A -> A]]
  PROVE  \E f \in [lo..hi -> A] : Descends(f, lo, hi, first, from, step)
<1> DEFINE Dn(i) == lo + hi - i
           first2 == [i \in lo..hi |-> first[Dn(i)]]
           from2  == [i \in lo..hi |-> Dn(from[Dn(i)])]
           step2  == [i \in lo..hi |-> step[Dn(i)]]
<1>1. \A i \in lo..hi : Dn(i) \in lo..hi /\ Dn(Dn(i)) = i
  OBVIOUS
<1>2. first2 \in [lo..hi -> A] /\ step2 \in [lo..hi -> [A -> A]]
  BY <1>1
<1>3. \A i \in lo..hi : /\ first2[i] = first[Dn(i)] /\ from2[i] = Dn(from[Dn(i)])
                        /\ step2[i] = step[Dn(i)]
  OBVIOUS
<1> HIDE DEF first2, from2, step2
<1>4. PICK g \in [lo..hi -> A] :
        Ascends(g, lo, hi, first2, from2, step2)
  BY <1>2, RecursionUp
<1> DEFINE f == [i \in lo..hi |-> g[Dn(i)]]
<1>5. f \in [lo..hi -> A]
  BY <1>1
<1>6. ASSUME NEW i \in lo..hi
      PROVE  f[i] = IF from[i] \in i + 1 .. hi THEN step[i][f[from[i]]] ELSE first[i]
  <2> DEFINE j == Dn(i)
  <2>1. j \in lo..hi /\ Dn(j) = i /\ from[i] \in Int /\ j = lo + hi - i
    BY <1>1
  <2> HIDE DEF j
  <2>2. from2[j] = Dn(from[i]) /\ step2[j] = step[i] /\ first2[j] = first[i]
    BY <1>3, <2>1
  <2>3. f[i] = g[j]
    BY DEF j
  <2>4. g[j] = IF from2[j] \in lo .. j - 1 THEN step2[j][g[from2[j]]] ELSE first2[j]
    BY <1>4, <2>1 DEF Ascends
  <2>5. from2[j] \in lo .. j - 1 <=> from[i] \in i + 1 .. hi
    BY <2>1, <2>2
  <2>6. CASE from[i] \in i + 1 .. hi
    <3>1. f[from[i]] = g[from2[j]]
      <4>1. from[i] \in lo..hi
        BY <2>1, <2>6
      <4> QED BY <4>1, <2>2
    <3> QED BY <2>2, <2>3, <2>4, <2>5, <2>6, <3>1
  <2>7. CASE ~ (from[i] \in i + 1 .. hi)
    BY <2>2, <2>3, <2>4, <2>5, <2>7
  <2> QED BY <2>6, <2>7
<1> HIDE DEF f
<1> QED BY <1>5, <1>6 DEF Descends
\* From the end of an interval down.
LEMMA InductionDown ==
  ASSUME NEW S, NEW n \in Nat, \A i \in 1..n : (\A j \in i + 1 .. n : j \in S) => i \in S
  PROVE  \A i \in 1..n : i \in S
<1> DEFINE T == { k \in Nat : k < n => n - k \in S }
<1>1. ASSUME NEW k \in Nat, \A m \in Nat : m < k => m \in T PROVE k \in T
  <2> SUFFICES ASSUME k < n PROVE n - k \in S
    OBVIOUS
  <2>1. n - k \in 1..n
    OBVIOUS
  <2>2. ASSUME NEW j \in (n - k) + 1 .. n PROVE j \in S
    <3>1. n - j \in Nat /\ n - j < k /\ n - j < n /\ n - (n - j) = j
      BY <2>1
    <3>2. n - j \in T
      BY <1>1, <3>1
    <3>3. n - (n - j) \in S
      BY <3>1, <3>2
    <3> QED BY <3>1, <3>3
  <2> QED BY <2>1, <2>2
<1> HIDE DEF T
<1>2. \A k \in Nat : k \in T
  BY <1>1, StrongInduction
<1> SUFFICES ASSUME NEW i \in 1..n PROVE i \in S
  OBVIOUS
<1>3. n - i \in Nat /\ n - i < n /\ n - (n - i) = i
  OBVIOUS
<1>4. n - (n - i) \in S
  BY <1>2, <1>3 DEF T
<1> QED BY <1>3, <1>4

\* A search that ends at a place or goes on from a later one.
Follows(f, n, first, from) ==
  \A i \in 1..n : f[i] = IF from[i] = 0 THEN first[i] ELSE f[from[i]]

LEMMA RecursionFollows ==
  ASSUME NEW A, NEW n \in Nat, NEW first \in [1..n -> A], NEW from,
         \A i \in 1..n : from[i] = 0 \/ from[i] \in i + 1 .. n
  PROVE  \E f \in [1..n -> A] : Follows(f, n, first, from)
<1> DEFINE from2 == [i \in 1..n |-> from[i]]
           step == [i \in 1..n |-> [x \in A |-> x]]
<1>1. from2 \in [1..n -> Int] /\ \A i \in 1..n : from2[i] = from[i]
  <2> SUFFICES ASSUME NEW i \in 1..n PROVE from[i] \in Int
    OBVIOUS
  <2>1. \A j \in i + 1 .. n : j \in Int
    OBVIOUS
  <2> QED BY <2>1
<1>2. step \in [1..n -> [A -> A]] /\ \A i \in 1..n : \A x \in A : step[i][x] = x
  OBVIOUS
<1> HIDE DEF from2, step
<1>3. PICK f \in [1..n -> A] : Descends(f, 1, n, first, from2, step)
  <2>1. 1 \in Int /\ n \in Int
    OBVIOUS
  <2> QED BY <1>1, <1>2, <2>1, RecursionDown
<1>4. ASSUME NEW i \in 1..n PROVE f[i] = IF from[i] = 0 THEN first[i] ELSE f[from[i]]
  <2>1. f[i] = IF from2[i] \in i + 1 .. n THEN step[i][f[from2[i]]] ELSE first[i]
    BY <1>3 DEF Descends
  <2>2. CASE from[i] = 0
    <3>1. ~ (from2[i] \in i + 1 .. n)
      BY <1>1, <2>2
    <3> QED BY <2>1, <2>2, <3>1
  <2>3. CASE from[i] \in i + 1 .. n
    <3>1. from[i] # 0 /\ from[i] \in 1..n
      BY <2>3
    <3>2. f[from[i]] \in A
      BY <3>1
    <3> QED BY <1>1, <1>2, <2>1, <2>3, <3>1, <3>2
  <2> QED BY <2>2, <2>3
<1> QED BY <1>4 DEF Follows
-----------------------------------------------------------------------------
(***************************************************************************)
(* Sequences in sequences.                                                 *)
(***************************************************************************)

\* The two parts of a concatenation.
LEMMA ConcatParts ==
  ASSUME NEW A, NEW r \in Seq(A), NEW s \in Seq(A)
  PROVE  /\ r \o s \in Seq(A) /\ Len(r \o s) = Len(r) + Len(s)
         /\ \A i \in 1 .. Len(r) : (r \o s)[i] = r[i]
         /\ \A i \in 1 .. Len(s) : (r \o s)[Len(r) + i] = s[i]
OBVIOUS

\* A sequence with another member before it.
LEMMA ConsIs ==
  ASSUME NEW A, NEW x \in A, NEW s \in Seq(A)
  PROVE  /\ <<x>> \o s \in Seq(A) /\ Len(<<x>> \o s) = Len(s) + 1
         /\ (<<x>> \o s)[1] = x
         /\ \A k \in 1 .. Len(s) : (<<x>> \o s)[k + 1] = s[k]
<1> DEFINE r == <<x>>
<1>1. r \in Seq(A) /\ Len(r) = 1 /\ r[1] = x
  OBVIOUS
<1> HIDE DEF r
<1>2. /\ r \o s \in Seq(A) /\ Len(r \o s) = Len(r) + Len(s)
      /\ \A i \in 1 .. Len(r) : (r \o s)[i] = r[i]
      /\ \A i \in 1 .. Len(s) : (r \o s)[Len(r) + i] = s[i]
  BY <1>1, ConcatParts
<1>3. (r \o s)[1] = x
  BY <1>1, <1>2
<1>4. ASSUME NEW k \in 1 .. Len(s) PROVE (r \o s)[k + 1] = s[k]
  <2>1. Len(r) + k = k + 1
    BY <1>1
  <2> QED BY <1>2, <2>1
<1>5. Len(r \o s) = Len(s) + 1
  <2>1. Len(s) \in Nat
    OBVIOUS
  <2> QED BY <1>1, <1>2, <2>1
<1> QED BY <1>2, <1>3, <1>4, <1>5 DEF r

\* The sequence s is in t from place p on.
Occurs(s, t, p) ==
  /\ p + Len(s) <= Len(t) + 1
  /\ \A k \in 1 .. Len(s) : t[p + k - 1] = s[k]

LEMMA OccursWhole ==
  ASSUME NEW A, NEW t \in Seq(A)
  PROVE  Occurs(t, t, 1)
BY DEF Occurs

\* The parts of a concatenation follow one another.
LEMMA OccursConcat ==
  ASSUME NEW A, NEW t, NEW p \in Nat, NEW r \in Seq(A), NEW s \in Seq(A),
         Len(t) \in Nat, Occurs(r \o s, t, p)
  PROVE  Occurs(r, t, p) /\ Occurs(s, t, p + Len(r))
<1>1. /\ Len(r \o s) = Len(r) + Len(s)
      /\ \A i \in 1 .. Len(r) : (r \o s)[i] = r[i]
      /\ \A i \in 1 .. Len(s) : (r \o s)[Len(r) + i] = s[i]
      /\ Len(r) \in Nat /\ Len(s) \in Nat
  OBVIOUS
<1> DEFINE u == r \o s
<1>2. \A k \in 1 .. Len(u) : t[p + k - 1] = u[k]
  BY DEF Occurs
<1>3. p + Len(u) <= Len(t) + 1
  BY DEF Occurs
<1> HIDE DEF u
<1>4. Occurs(r, t, p)
  <2>1. \A k \in 1 .. Len(r) : k \in 1 .. Len(u) /\ u[k] = r[k]
    BY <1>1 DEF u
  <2>2. p + Len(r) <= Len(t) + 1
    BY <1>1, <1>3 DEF u
  <2> QED BY <1>2, <2>1, <2>2 DEF Occurs
<1>5. Occurs(s, t, p + Len(r))
  <2>1. ASSUME NEW k \in 1 .. Len(s) PROVE t[p + Len(r) + k - 1] = s[k]
    <3>1. Len(r) + k \in 1 .. Len(u) /\ u[Len(r) + k] = s[k]
      BY <1>1 DEF u
    <3>2. t[p + (Len(r) + k) - 1] = u[Len(r) + k]
      BY <1>2, <3>1
    <3>3. p + (Len(r) + k) - 1 = p + Len(r) + k - 1
      BY <1>1
    <3> QED BY <3>1, <3>2, <3>3
  <2>2. p + Len(r) + Len(s) <= Len(t) + 1
    BY <1>1, <1>3 DEF u
  <2> QED BY <2>1, <2>2 DEF Occurs
<1> QED BY <1>4, <1>5

\* What occurs in a sequence is the subsequence there.
LEMMA OccursSubSeq ==
  ASSUME NEW A, NEW t \in Seq(A), NEW p \in Nat \ {0}, NEW s \in Seq(A), Occurs(s, t, p)
  PROVE  SubSeq(t, p, p + Len(s) - 1) = s
<1>1. Len(s) \in Nat /\ Len(t) \in Nat /\ p + Len(s) - 1 <= Len(t)
  BY DEF Occurs
<1> DEFINE q == p + Len(s) - 1
<1>2. q \in Int /\ p \in 1 .. Len(t) + 1 /\ q \in p - 1 .. Len(t)
  BY <1>1
<1>3. SubSeq(t, p, q) \in Seq(A) /\ Len(SubSeq(t, p, q)) = Len(s)
  <2>1. Len(SubSeq(t, p, q)) = IF p <= q THEN q - p + 1 ELSE 0
    BY <1>2, SubSeqProperties
  <2> QED BY <1>1, <1>2, <2>1, SubSeqProperties
<1>4. ASSUME NEW i \in 1 .. Len(s) PROVE SubSeq(t, p, q)[i] = s[i]
  <2>1. i \in 1 .. q - p + 1
    BY <1>1
  <2>2. SubSeq(t, p, q)[i] = t[p + i - 1]
    BY <1>2, <2>1, SubSeqProperties
  <2> QED BY <2>2 DEF Occurs
<1> HIDE DEF q
<1>5. SubSeq(t, p, q) = s
  BY <1>3, <1>4, SeqEqual
<1> QED BY <1>5 DEF q

\* FlattenSeq is the last of the concatenations of the first sequences.
LEMMA FlattenPrefixes ==
  ASSUME NEW A, NEW ss \in Seq(Seq(A))
  PROVE  \E f \in [0 .. Len(ss) -> Seq(A)] :
           /\ f[0] = <<>> /\ f[Len(ss)] = FlattenSeq(ss)
           /\ \A i \in 1 .. Len(ss) : f[i] = f[i - 1] \o ss[i]
<1> DEFINE n == Len(ss)
           first == [i \in 1..n |-> ss[i]]
           from  == [i \in 1..n |-> i - 1]
           step  == [i \in 1..n |-> [x \in Seq(A) |-> x \o ss[i]]]
<1>n. n \in Nat /\ (\A i \in 1..n : ss[i] \in Seq(A)) /\ (n = 0 => ss = <<>>)
  OBVIOUS
<1> HIDE DEF n
<1>1. first \in [1..n -> Seq(A)]
  BY <1>n
<1>2. step \in [1..n -> [Seq(A) -> Seq(A)]]
  <2> SUFFICES ASSUME NEW i \in 1..n, NEW x \in Seq(A) PROVE x \o ss[i] \in Seq(A)
    OBVIOUS
  <2>1. ss[i] \in Seq(A)
    BY <1>n
  <2> QED BY <2>1
<1>3. \A i \in 1..n : /\ first[i] = ss[i] /\ from[i] = i - 1
                      /\ \A x \in Seq(A) : step[i][x] = x \o ss[i]
  OBVIOUS
<1> HIDE DEF first, from, step
<1>4. PICK g \in [1..n -> Seq(A)] : Ascends(g, 1, n, first, from, step)
  <2>1. 1 \in Int /\ n \in Int
    BY <1>n
  <2> QED BY <1>1, <1>2, <2>1, RecursionUp
<1>5. ASSUME NEW i \in 1..n PROVE g[i] = IF i = 1 THEN ss[i] ELSE g[i - 1] \o ss[i]
  <2>1. CASE i = 1
    <3>1. ~ (from[i] \in 1 .. i - 1)
      BY <1>3, <2>1
    <3> QED BY <1>3, <1>4, <2>1, <3>1 DEF Ascends
  <2>2. CASE i # 1
    <3>1. from[i] \in 1 .. i - 1 /\ from[i] = i - 1 /\ i - 1 \in 1..n
      BY <1>3, <2>2, <1>n
    <3>2. g[i - 1] \in Seq(A)
      BY <3>1
    <3> QED BY <1>3, <1>4, <2>2, <3>1, <3>2 DEF Ascends
  <2> QED BY <2>1, <2>2
<1> DEFINE R(h) == h = [i \in 1 .. Len(ss) |-> IF i = 1 THEN ss[i] ELSE h[i - 1] \o ss[i]]
<1>6. R(g)
  BY <1>5 DEF n
<1>7. n # 0 => FlattenSeq(ss) = (CHOOSE h : R(h))[Len(ss)]
  BY DEF FlattenSeq, n
<1> HIDE DEF R
<1>8. R(CHOOSE h : R(h))
  BY <1>6, Zenon
<1>9. PICK h : R(h) /\ (n # 0 => FlattenSeq(ss) = h[Len(ss)])
  BY <1>7, <1>8
<1>10. \A i \in 1..n : h[i] = IF i = 1 THEN ss[i] ELSE h[i - 1] \o ss[i]
  BY <1>9 DEF R, n
<1> DEFINE f == [i \in 0..n |-> IF i = 0 THEN <<>> ELSE h[i]]
<1>11. ASSUME NEW i \in 1..n PROVE f[i] = f[i - 1] \o ss[i]
  <2>1. i \in 0..n /\ i - 1 \in 0..n /\ i # 0
    BY <1>n
  <2>2. CASE i = 1
    <3>1. f[i] = ss[i] /\ f[i - 1] = <<>>
      BY <1>10, <2>1, <2>2
    <3>2. ss[i] \in Seq(A) /\ <<>> \o ss[i] = ss[i]
      BY <1>n, ConcatEmptySeq
    <3> QED BY <3>1, <3>2
  <2>3. CASE i # 1
    <3>1. f[i] = h[i] /\ f[i - 1] = h[i - 1]
      BY <2>1, <2>3
    <3> QED BY <3>1, <2>3, <1>10
  <2> QED BY <2>2, <2>3
<1>12. f[0] = <<>> /\ f[n] = FlattenSeq(ss)
  <2>1. CASE n = 0
    BY <2>1, <1>n DEF FlattenSeq, n
  <2>2. CASE n # 0
    BY <2>2, <1>9, <1>n DEF n
  <2> QED BY <2>1, <2>2
<1>13. \A i \in 0..n : f[i] \in Seq(A)
  <2> DEFINE S == {k \in Nat : k <= n => f[k] \in Seq(A)}
  <2> HIDE DEF f
  <2>1. 0 \in S
    <3>1. f[0] \in Seq(A)
      BY <1>12, EmptySeq
    <3> QED BY <3>1
  <2>2. ASSUME NEW k \in Nat, k \in S PROVE k + 1 \in S
    <3> SUFFICES ASSUME k + 1 <= n PROVE f[k + 1] \in Seq(A)
      OBVIOUS
    <3>1. k + 1 \in 1..n /\ f[k] \in Seq(A) /\ (k + 1) - 1 = k
      BY <2>2, <1>n
    <3>2. f[k + 1] = f[k] \o ss[k + 1] /\ ss[k + 1] \in Seq(A)
      BY <1>11, <3>1, <1>n
    <3> QED BY <3>1, <3>2
  <2> HIDE DEF S
  <2>3. \A k \in Nat : k \in S
    BY <2>1, <2>2, Induction
  <2> QED BY <2>3, <1>n DEF S
<1>14. f \in [0..n -> Seq(A)]
  BY <1>13
<1> HIDE DEF f
<1>15. \A i \in 1..n : f[i] = f[i - 1] \o ss[i]
  BY <1>11
<1> QED BY <1>12, <1>14, <1>15 DEF n

LEMMA FlattenType ==
  ASSUME NEW A, NEW ss \in Seq(Seq(A))
  PROVE  FlattenSeq(ss) \in Seq(A)
<1>1. PICK f \in [0 .. Len(ss) -> Seq(A)] : f[Len(ss)] = FlattenSeq(ss)
  BY FlattenPrefixes
<1>2. Len(ss) \in 0 .. Len(ss)
  OBVIOUS
<1> QED BY <1>1, <1>2

\* Where the sequences are that a flattened sequence is made of.
IsLayout(pos, ss, t, p) ==
  /\ pos \in [1 .. Len(ss) + 1 -> Nat]
  /\ pos[1] = p
  /\ \A i \in 1 .. Len(ss) :
       pos[i + 1] = pos[i] + Len(ss[i]) /\ Occurs(ss[i], t, pos[i])

LEMMA FlattenLayout ==
  ASSUME NEW A, NEW ss \in Seq(Seq(A)), NEW t, Len(t) \in Nat, NEW p \in Nat,
         Occurs(FlattenSeq(ss), t, p)
  PROVE  \E pos : /\ IsLayout(pos, ss, t, p)
                  /\ pos[Len(ss) + 1] = p + Len(FlattenSeq(ss))
<1> DEFINE n == Len(ss)
<1>1. n \in Nat /\ \A i \in 1..n : ss[i] \in Seq(A) /\ Len(ss[i]) \in Nat
  <2>1. \A i \in 1..n : ss[i] \in Seq(A)
    OBVIOUS
  <2> QED BY <2>1
<1>2. PICK f \in [0..n -> Seq(A)] :
        /\ f[0] = <<>> /\ f[n] = FlattenSeq(ss)
        /\ \A i \in 1..n : f[i] = f[i - 1] \o ss[i]
  BY FlattenPrefixes
<1>n. n = Len(ss)
  OBVIOUS
<1> HIDE DEF n
<1>3. \A i \in 0..n : f[i] \in Seq(A) /\ Len(f[i]) \in Nat
  <2>1. \A i \in 0..n : f[i] \in Seq(A)
    OBVIOUS
  <2> QED BY <2>1
<1>4. \A i \in 0..n : Occurs(f[i], t, p)
  <2> DEFINE S == {k \in Nat : k <= n => Occurs(f[n - k], t, p)}
  <2>1. 0 \in S
    <3>1. n - 0 = n
      BY <1>1
    <3> QED BY <1>2, <3>1
  <2>2. ASSUME NEW k \in Nat, k \in S PROVE k + 1 \in S
    <3> SUFFICES ASSUME k + 1 <= n PROVE Occurs(f[n - (k + 1)], t, p)
      OBVIOUS
    <3> DEFINE i == n - k
    <3>1. i \in 1..n /\ i - 1 = n - (k + 1) /\ i - 1 \in 0..n
      BY <1>1
    <3>2. Occurs(f[i], t, p)
      BY <2>2, <1>1
    <3> HIDE DEF i
    <3>3. f[i] = f[i - 1] \o ss[i] /\ f[i - 1] \in Seq(A) /\ ss[i] \in Seq(A)
      BY <1>1, <1>2, <1>3, <3>1
    <3>4. Occurs(f[i - 1] \o ss[i], t, p)
      BY <3>2, <3>3
    <3>5. Occurs(f[i - 1], t, p)
      BY <3>3, <3>4, OccursConcat
    <3> QED BY <3>1, <3>5
  <2> HIDE DEF S
  <2>3. \A k \in Nat : k \in S
    BY <2>1, <2>2, Induction
  <2> SUFFICES ASSUME NEW i \in 0..n PROVE Occurs(f[i], t, p)
    OBVIOUS
  <2>4. n - i \in Nat /\ n - i <= n /\ n - (n - i) = i
    BY <1>1
  <2> QED BY <2>3, <2>4 DEF S
<1> DEFINE pos == [i \in 1 .. n + 1 |-> p + Len(f[i - 1])]
<1>5. pos \in [1 .. n + 1 -> Nat]
  <2> SUFFICES ASSUME NEW i \in 1 .. n + 1 PROVE p + Len(f[i - 1]) \in Nat
    OBVIOUS
  <2>1. Len(f[i - 1]) \in Nat
    BY <1>1, <1>3
  <2> QED BY <2>1
<1>6. pos[1] = p /\ pos[n + 1] = p + Len(f[n])
  <2>1. 1 \in 1 .. n + 1 /\ n + 1 \in 1 .. n + 1 /\ (n + 1) - 1 = n /\ 1 - 1 = 0
    BY <1>1
  <2>2. Len(f[0]) = 0
    BY <1>2
  <2>3. pos[1] = p + Len(f[0]) /\ pos[n + 1] = p + Len(f[n])
    BY <2>1
  <2> HIDE DEF pos
  <2> QED BY <2>2, <2>3
<1>7. ASSUME NEW i \in 1..n
      PROVE  pos[i + 1] = pos[i] + Len(ss[i]) /\ Occurs(ss[i], t, pos[i])
  <2>1. i \in 1 .. n + 1 /\ i + 1 \in 1 .. n + 1 /\ (i + 1) - 1 = i /\ i - 1 \in 0..n /\ i \in 0..n
    BY <1>1
  <2>2. pos[i] = p + Len(f[i - 1]) /\ pos[i + 1] = p + Len(f[i])
    BY <2>1
  <2>3. f[i] = f[i - 1] \o ss[i] /\ f[i - 1] \in Seq(A) /\ ss[i] \in Seq(A)
    BY <1>1, <1>2, <1>3, <2>1
  <2>4. Len(f[i]) = Len(f[i - 1]) + Len(ss[i])
    BY <2>3
  <2>5. Occurs(f[i - 1] \o ss[i], t, p)
    BY <1>4, <2>1, <2>3
  <2>6. Occurs(ss[i], t, p + Len(f[i - 1]))
    BY <2>3, <2>5, OccursConcat
  <2> HIDE DEF pos
  <2>7. Len(f[i - 1]) \in Nat /\ Len(ss[i]) \in Nat
    BY <2>3
  <2>8. pos[i + 1] = pos[i] + Len(ss[i])
    <3> DEFINE a == Len(f[i - 1])
               b == Len(ss[i])
    <3>1. pos[i] = p + a /\ pos[i + 1] = p + (a + b) /\ a \in Nat /\ b \in Nat
      BY <2>2, <2>4, <2>7
    <3> HIDE DEF a, b
    <3>2. pos[i + 1] = pos[i] + b
      BY <3>1
    <3> QED BY <3>2 DEF b
  <2>9. Occurs(ss[i], t, pos[i])
    BY <2>2, <2>6
  <2> QED BY <2>8, <2>9
<1> HIDE DEF pos
<1>8. IsLayout(pos, ss, t, p)
  BY <1>5, <1>6, <1>7, <1>n DEF IsLayout
<1> QED BY <1>2, <1>6, <1>8, <1>n

\* Sequences of two elements make one of twice as many.
LEMMA FlattenTwos ==
  ASSUME NEW A, NEW ss \in Seq(Seq(A)), \A i \in 1 .. Len(ss) : Len(ss[i]) = 2
  PROVE  /\ Len(FlattenSeq(ss)) = 2 * Len(ss)
         /\ \A i \in 1 .. Len(ss) : /\ FlattenSeq(ss)[2 * i - 1] = ss[i][1]
                                    /\ FlattenSeq(ss)[2 * i] = ss[i][2]
<1> DEFINE n == Len(ss)
           t == FlattenSeq(ss)
<1>1. t \in Seq(A) /\ Len(t) \in Nat
  BY FlattenType
<1>2. Occurs(t, t, 1)
  BY <1>1, OccursWhole
<1>3. PICK pos : IsLayout(pos, ss, t, 1) /\ pos[n + 1] = 1 + Len(t)
  <2> HIDE DEF n
  <2>1. \E pos : /\ IsLayout(pos, ss, t, 1) /\ pos[Len(ss) + 1] = 1 + Len(FlattenSeq(ss))
    BY <1>1, <1>2, FlattenLayout
  <2> QED BY <2>1 DEF n
<1>4. n \in Nat /\ n = Len(ss) /\ t = FlattenSeq(ss)
  OBVIOUS
<1> HIDE DEF n, t
<1>5. /\ pos \in [1 .. n + 1 -> Nat] /\ pos[1] = 1
      /\ \A i \in 1..n : pos[i + 1] = pos[i] + 2 /\ Occurs(ss[i], t, pos[i])
  BY <1>3, <1>4 DEF IsLayout
<1>6. \A i \in 1 .. n + 1 : pos[i] = 2 * i - 1
  <2> DEFINE S == {k \in Nat : k <= n => pos[k + 1] = 2 * k + 1}
  <2>1. 0 \in S
    BY <1>5
  <2>2. ASSUME NEW k \in Nat, k \in S PROVE k + 1 \in S
    <3> SUFFICES ASSUME k + 1 <= n PROVE pos[(k + 1) + 1] = 2 * (k + 1) + 1
      OBVIOUS
    <3>1. k + 1 \in 1..n /\ pos[k + 1] = 2 * k + 1
      BY <2>2, <1>4
    <3> QED BY <1>5, <3>1
  <2> HIDE DEF S
  <2>3. \A k \in Nat : k \in S
    BY <2>1, <2>2, Induction
  <2> SUFFICES ASSUME NEW i \in 1 .. n + 1 PROVE pos[i] = 2 * i - 1
    OBVIOUS
  <2>4. i - 1 \in Nat /\ i - 1 <= n /\ (i - 1) + 1 = i /\ i \in Int
    BY <1>4
  <2>5. pos[(i - 1) + 1] = 2 * (i - 1) + 1
    BY <2>3, <2>4 DEF S
  <2>6. 2 * (i - 1) + 1 = 2 * i - 1
    BY <2>4
  <2> QED BY <2>4, <2>5, <2>6
<1>7. Len(t) = 2 * n
  <2>1. n + 1 \in 1 .. n + 1
    BY <1>4
  <2>2. 1 + Len(t) = 2 * (n + 1) - 1
    BY <1>3, <1>6, <2>1
  <2> QED BY <1>1, <1>4, <2>2
<1>8. ASSUME NEW i \in 1..n PROVE t[2 * i - 1] = ss[i][1] /\ t[2 * i] = ss[i][2]
  <2>1. pos[i] = 2 * i - 1 /\ i \in Int
    BY <1>6, <1>4
  <2>2. Occurs(ss[i], t, 2 * i - 1) /\ Len(ss[i]) = 2
    BY <1>4, <1>5, <2>1
  <2>3. t[2 * i - 1 + 1 - 1] = ss[i][1] /\ t[2 * i - 1 + 2 - 1] = ss[i][2]
    BY <2>2 DEF Occurs
  <2>4. 2 * i - 1 + 1 - 1 = 2 * i - 1 /\ 2 * i - 1 + 2 - 1 = 2 * i
    BY <2>1
  <2> QED BY <2>3, <2>4
<1> QED BY <1>4, <1>7, <1>8
=============================================================================
