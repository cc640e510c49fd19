------------------------------- MODULE Totals -------------------------------
(***************************************************************************)
(* Facts about numbers that the proofs of several modules rest on: a least *)
(* element, and what a total that is kept up step by step comes to.  A     *)
(* recursive function whose value at n is that of n - 1 and a term has one *)
(* solution; these lemmas stand in for induction over n.                   *)
(***************************************************************************)
EXTENDS Integers, WellFoundedInduction, TLAPS

\* A non-empty set of naturals has a least element.
LEMMA LeastOf ==
  ASSUME NEW S \in SUBSET Nat, S # {}
  PROVE  \E x \in S : \A y \in S : x <= y
<1> DEFINE R == {ss \in Nat \X Nat : ss[1] < ss[2]}
<1>1. IsWellFoundedOn(R, Nat)
  BY NatLessThanWellFounded DEF OpToRel
<1> HIDE DEF R
<1>2. PICK x \in S : \A y \in S : ~ (<<y, x>> \in R)
  BY <1>1, WFMin
<1>3. ASSUME NEW y \in S PROVE x <= y
  <2>1. x \in Nat /\ y \in Nat /\ (y < x => <<y, x>> \in R)
    BY DEF R
  <2> QED
    BY <1>2, <2>1
<1> QED
  BY <1>3

\* The equations of a running total have a solution.
LEMMA RunningTotal ==
  ASSUME NEW n \in Nat, NEW f, \A i \in 1..n : f[i] \in Nat
  PROVE  \E s \in [0..n -> Nat] : s[0] = 0 /\ \A k \in 1..n : s[k] = s[k - 1] + f[k]
<1> DEFINE Sums(m) == {s \in [0..m -> Nat] : s[0] = 0 /\ \A k \in 1..m : s[k] = s[k - 1] + f[k]}
           Bad == {m \in 0..n : Sums(m) = {}}
<1>1. SUFFICES ASSUME Bad # {} PROVE FALSE
  <2>1. n \in 0..n
    OBVIOUS
  <2>2. Bad = {} => Sums(n) # {}
    BY <2>1
  <2> QED
    BY <2>2
<1>2. PICK m \in Bad : \A l \in Bad : m <= l
  <2>1. Bad \in SUBSET Nat
    OBVIOUS
  <2> HIDE DEF Bad
  <2> QED
    BY <1>1, <2>1, LeastOf
<1>3. CASE m = 0
  <2>1. [k \in 0..0 |-> 0] \in Sums(0)
    OBVIOUS
  <2> QED
    BY <1>2, <1>3, <2>1
<1>4. CASE m # 0
  <2>1. m \in Nat /\ m - 1 \in 0..n /\ m \in 1..n /\ m - 1 \notin Bad
    <3>1. m \in 0..n
      BY <1>2
    <3>2. m \in Nat /\ m - 1 \in 0..n /\ m \in 1..n /\ ~(m <= m - 1)
      BY <1>4, <3>1
    <3> HIDE DEF Bad
    <3> QED
      BY <1>2, <3>2
  <2>2. PICK s \in Sums(m - 1) : TRUE
    BY <2>1
  <2>3. s \in [0..(m - 1) -> Nat] /\ s[0] = 0 /\ \A k \in 1..(m - 1) : s[k] = s[k - 1] + f[k]
    BY <2>2
  <2> DEFINE t == [k \in 0..m |-> IF k = m THEN s[m - 1] + f[m] ELSE s[k]]
  <2>4. t \in [0..m -> Nat]
    BY <2>1, <2>3
  <2>5. t[0] = 0
    BY <2>1, <2>3, <1>4
  <2>6. ASSUME NEW k \in 1..m PROVE t[k] = t[k - 1] + f[k]
    <3>1. k - 1 \in 0..m /\ k - 1 # m /\ t[k - 1] = s[k - 1]
      BY <2>1
    <3>2. CASE k = m
      BY <3>1, <3>2, <2>1
    <3>3. CASE k # m
      BY <3>1, <3>3, <2>1, <2>3
    <3> QED
      BY <3>2, <3>3
  <2> HIDE DEF t
  <2>7. t \in Sums(m)
    BY <2>4, <2>5, <2>6
  <2> QED
    BY <1>2, <2>7
<1> QED
  BY <1>3, <1>4

\* Whoever solves them has the same values.
LEMMA OneRunningTotal ==
  \A n \in Nat : \A s, t :
    s[0] = t[0] /\ (\A k \in 1..n : s[k - 1] = t[k - 1] => s[k] = t[k])
    => \A k \in 0..n : s[k] = t[k]
<1> SUFFICES ASSUME NEW n \in Nat, NEW s, NEW t, s[0] = t[0],
                    \A k \in 1..n : s[k - 1] = t[k - 1] => s[k] = t[k]
             PROVE  \A k \in 0..n : s[k] = t[k]
  OBVIOUS
<1> DEFINE Bad == {k \in 0..n : s[k] # t[k]}
<1>1. SUFFICES ASSUME Bad # {} PROVE FALSE
  OBVIOUS
<1>2. PICK m \in Bad : \A l \in Bad : m <= l
  <2>1. Bad \in SUBSET Nat
    OBVIOUS
  <2> HIDE DEF Bad
  <2> QED
    BY <1>1, <2>1, LeastOf
<1>3. m # 0 /\ m \in 1..n /\ m - 1 \in 0..n /\ ~(m <= m - 1)
  BY <1>2
<1>4. m - 1 \notin Bad
  BY <1>2, <1>3
<1> QED
  BY <1>2, <1>3, <1>4

\* Whatever solves them is a natural number at each place.
LEMMA TotalIsNat ==
  ASSUME NEW n \in Nat, NEW f, \A i \in 1..n : f[i] \in Nat,
         NEW s, s[0] = 0, \A k \in 1..n : s[k] = s[k - 1] + f[k]
  PROVE  \A k \in 0..n : s[k] \in Nat
<1>1. PICK u \in [0..n -> Nat] : u[0] = 0 /\ \A k \in 1..n : u[k] = u[k - 1] + f[k]
  BY RunningTotal
<1>2. s[0] = u[0] /\ \A k \in 1..n : s[k - 1] = u[k - 1] => s[k] = u[k]
  BY <1>1
<1>3. \A k \in 0..n : s[k] = u[k]
  <2>1. \A t, v : t[0] = v[0] /\ (\A k \in 1..n : t[k - 1] = v[k - 1] => t[k] = v[k])
                => \A k \in 0..n : t[k] = v[k]
    BY OneRunningTotal, Zenon
  <2>2. s[0] = u[0] /\ (\A k \in 1..n : s[k - 1] = u[k - 1] => s[k] = u[k])
        => \A k \in 0..n : s[k] = u[k]
    BY <2>1, Zenon
  <2> QED
    BY <1>2, <2>2
<1> QED
  BY <1>1, <1>3
=============================================================================
