------------------------------ MODULE Induction ------------------------------
(***************************************************************************)
(* Induction and recursion over the natural numbers, for the proofs about  *)
(* loops, sorting and sums.  The principles are stated about sets and      *)
(* functions, not about operators: a set of numbers stands for the         *)
(* predicate, a function for each number for the step of a recursion.      *)
(***************************************************************************)
EXTENDS Integers, WellFoundedInduction, TLAPS

\* A set of numbers has a least one.
LEMMA LeastNumber ==
  ASSUME NEW S \in SUBSET Nat, S # {}
  PROVE  \E m \in S : \A k \in S : m <= k
<1>1. PICK m \in S : \A k \in S : ~ (<<k, m>> \in OpToRel(<, Nat))
  BY NatLessThanWellFounded, WFMin
<1>2. ASSUME NEW k \in S PROVE m <= k
  <2>1. k \in Nat /\ m \in Nat
    OBVIOUS
  <2>2. k < m => <<k, m>> \in OpToRel(<, Nat)
    BY <2>1 DEF OpToRel
  <2>3. ~(k < m)
    BY <1>1, <2>2
  <2> QED
    BY <2>1, <2>3
<1> QED
  BY <1>2

\* What holds of zero and goes on from each number to the next holds of all.
LEMMA SetInduction ==
  ASSUME NEW S \in SUBSET Nat, 0 \in S, \A n \in S : n + 1 \in S
  PROVE  \A n \in Nat : n \in S
<1> SUFFICES ASSUME Nat \ S # {} PROVE FALSE
  OBVIOUS
<1>1. PICK m \in Nat \ S : \A k \in Nat \ S : m <= k
  BY LeastNumber
<1>2. m - 1 \in Nat
  BY <1>1
<1>3. m - 1 \in S
  BY <1>1, <1>2
<1>4. (m - 1) + 1 = m
  BY <1>1
<1> QED
  BY <1>1, <1>3, <1>4

\* The N steps of a loop over the values in T.
Turns(N, T) == [1..N -> [T -> T]]

\* The values a loop of N steps goes through, from base on.
IsRun(f, N, T, base, step) ==
  f \in [0..N -> T] /\ f[0] = base /\ \A n \in 1..N : f[n] = step[n][f[n - 1]]

\* There is a function that starts at base and takes the N steps: each that
\* takes some of them can be continued by one.
LEMMA RecursionExists ==
  ASSUME NEW N \in Nat, NEW T, NEW base \in T, NEW step \in Turns(N, T)
  PROVE  \E f : IsRun(f, N, T, base, step)
<1> DEFINE Next(f) == [n \in 0..N |-> IF n = 0 THEN base ELSE step[n][f[n - 1]]]
           UpTo(k, f) == \A n \in 0..N : n <= k => f[n] = Next(f)[n]
           S == {k \in Nat : \E f \in [0..N -> T] : UpTo(k, f)}
<1>1. ASSUME NEW f \in [0..N -> T] PROVE Next(f) \in [0..N -> T]
  <2>1. \A n \in 0..N : n # 0 => n - 1 \in 0..N /\ n \in 1..N
    OBVIOUS
  <2> QED
    BY <2>1 DEF Turns
<1>2. 0 \in S
  <2>1. [n \in 0..N |-> base] \in [0..N -> T]
    OBVIOUS
  <2>2. UpTo(0, [n \in 0..N |-> base])
    OBVIOUS
  <2> HIDE DEF UpTo
  <2> QED
    BY <2>1, <2>2
<1>3. ASSUME NEW k \in S PROVE k + 1 \in S
  <2>1. PICK f \in [0..N -> T] : UpTo(k, f)
    OBVIOUS
  <2>2. ASSUME NEW n \in 0..N, n <= k + 1 PROVE Next(f)[n] = Next(Next(f))[n]
    <3>1. CASE n = 0
      BY <3>1
    <3>2. CASE n # 0
      <4>1. n - 1 \in 0..N /\ n - 1 <= k
        BY <3>2, <2>2
      <4>2. f[n - 1] = Next(f)[n - 1]
        BY <4>1, <2>1
      <4> QED
        BY <3>2, <4>2
    <3> QED
      BY <3>1, <3>2
  <2>3. UpTo(k + 1, Next(f)) /\ k + 1 \in Nat
    BY <2>2
  <2> HIDE DEF UpTo, Next
  <2> QED
    BY <1>1, <2>3
<1>4. N \in S
  <2> HIDE DEF S
  <2>1. S \in SUBSET Nat
    BY DEF S
  <2> QED
    BY <1>2, <1>3, <2>1, SetInduction
<1>5. PICK f \in [0..N -> T] : UpTo(N, f)
  BY <1>4
<1>6. f[0] = base
  <2>1. 0 \in 0..N
    OBVIOUS
  <2>2. f[0] = Next(f)[0]
    BY <1>5, <2>1
  <2> QED
    BY <2>1, <2>2
<1>7. ASSUME NEW n \in 1..N PROVE f[n] = step[n][f[n - 1]]
  <2>1. n \in 0..N /\ n # 0 /\ n <= N
    OBVIOUS
  <2>2. f[n] = Next(f)[n]
    BY <1>5, <2>1
  <2> QED
    BY <2>1, <2>2
<1> QED
  BY <1>6, <1>7 DEF IsRun

\* What takes those steps never leaves T.
LEMMA RecursionStays ==
  ASSUME NEW N \in Nat, NEW T, NEW base \in T, NEW step \in Turns(N, T), NEW f,
         f[0] = base, \A n \in 1..N : f[n - 1] \in T => f[n] = step[n][f[n - 1]]
  PROVE  /\ \A n \in 0..N : f[n] \in T
         /\ \A n \in 1..N : f[n] = step[n][f[n - 1]]
<1> DEFINE S == {k \in Nat : k \in 0..N => f[k] \in T}
<1>1. 0 \in S
  OBVIOUS
<1>2. ASSUME NEW k \in S PROVE k + 1 \in S
  <2>1. CASE k + 1 \in 1..N
    <3>1. (k + 1) - 1 = k /\ k \in 0..N
      BY <2>1
    <3>2. f[k + 1] = step[k + 1][f[k]]
      BY <2>1, <3>1
    <3> QED
      BY <2>1, <3>1, <3>2 DEF Turns
  <2> QED
    BY <2>1
<1>3. \A k \in Nat : k \in S
  <2>1. S \in SUBSET Nat
    OBVIOUS
  <2> HIDE DEF S
  <2> QED
    BY <1>1, <1>2, <2>1, SetInduction
<1>4. \A n \in 1..N : n - 1 \in 0..N
  OBVIOUS
<1> QED
  BY <1>3, <1>4
=============================================================================
