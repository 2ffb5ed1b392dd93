---------------------------- MODULE LoopTheorems -----------------------------
(***************************************************************************)
(* What proofs about loops over a sequence rest on: the least number       *)
(* principle, induction over the positions, and the existence of the       *)
(* function by which FoldLeft is defined.  The library's theorems of this  *)
(* kind take a predicate as parameter; here it is a set.                   *)
(***************************************************************************)
EXTENDS Integers, FiniteSetsExt, FiniteSetTheorems, WellFoundedInduction,
        TLAPS

LEMMA LeastOf ==
    ASSUME NEW S \in SUBSET Nat, S # {},
           NEW R, IsWellFoundedOn(R, Nat),
           \A m, n \in Nat : n < m => <<n, m>> \in R
    PROVE  \E m \in S : \A n \in S : m <= n
<1>1. PICK m \in S : \A n \in S : ~ (<<n, m>> \in R)
  BY WFMin
<1>2. ASSUME NEW n \in S PROVE m <= n
  <2>1. m \in Nat /\ n \in Nat
    OBVIOUS
  <2>2. ~ (n < m)
    BY <1>1, <2>1, Zenon
  <2> QED BY <2>1, <2>2
<1> QED BY <1>1, <1>2

\* The least number principle.
LEMMA LeastNat ==
    ASSUME NEW S \in SUBSET Nat, S # {}
    PROVE  \E m \in S : \A n \in S : m <= n
<1>1. \A m, n \in Nat : n < m => <<n, m>> \in OpToRel(<, Nat)
  BY Zenon DEF OpToRel
<1>2. IsWellFoundedOn(OpToRel(<, Nat), Nat)
  BY NatLessThanWellFounded, Zenon
<1> QED BY <1>1, <1>2, LeastOf

\* Min of the community modules is what it should be.
LEMMA MinIsLeast ==
    ASSUME NEW S \in SUBSET Nat, S # {}
    PROVE  Min(S) \in S /\ \A n \in S : Min(S) <= n
BY LeastNat DEF Min

\* What holds before the loop, and after a round if before it, always holds.
LEMMA LoopInduction ==
    ASSUME NEW n \in Nat, NEW S,
           0 \in S,
           \A k \in 1 .. n : k - 1 \in S => k \in S
    PROVE  \A k \in 0 .. n : k \in S
<1> DEFINE Bad == {k \in 0 .. n : k \notin S}
<1> SUFFICES ASSUME Bad # {} PROVE FALSE
  OBVIOUS
<1>1. PICK m \in Bad : \A k \in Bad : m <= k
  <2>1. Bad \in SUBSET Nat
    OBVIOUS
  <2> HIDE DEF Bad
  <2> QED BY <2>1, LeastNat
<1>2. m \in 1 .. n
  BY <1>1
<1>3. m - 1 \notin Bad
  BY <1>1, <1>2
<1> QED BY <1>1, <1>2, <1>3

\* The same, from the last position down.
LEMMA LoopDown ==
    ASSUME NEW n \in Nat, NEW S,
           n + 1 \in S,
           \A k \in 1 .. n : k + 1 \in S => k \in S
    PROVE  \A k \in 1 .. n + 1 : k \in S
<1> DEFINE T == {j \in 0 .. n : n + 1 - j \in S}
<1>1. 0 \in T
  <2>1. n + 1 - 0 = n + 1 /\ 0 \in 0 .. n
    OBVIOUS
  <2> QED BY <2>1, Zenon
<1>2. ASSUME NEW j \in 1 .. n, j - 1 \in T PROVE j \in T
  <2> DEFINE k == n + 1 - j
  <2>1. k \in 1 .. n /\ n + 1 - (j - 1) = k + 1 /\ j \in 0 .. n
    OBVIOUS
  <2>2. n + 1 - (j - 1) \in S
    BY <1>2
  <2>3. k + 1 \in S
    BY <2>1, <2>2, Zenon
  <2>4. k \in S
    BY <2>1, <2>3, Zenon
  <2> QED BY <2>1, <2>4, Zenon
<1>3. \A j \in 0 .. n : j \in T
  <2> HIDE DEF T
  <2> QED BY <1>1, <1>2, LoopInduction, Zenon
<1>4. ASSUME NEW k \in 1 .. n + 1 PROVE k \in S
  <2> DEFINE j == n + 1 - k
  <2>1. j \in 0 .. n /\ n + 1 - j = k
    OBVIOUS
  <2>2. n + 1 - j \in S
    BY <1>3, <2>1, Zenon
  <2> QED BY <2>1, <2>2, Zenon
<1> QED BY <1>4

\* The first k positions of n.
LEMMA NoPosition == 1 .. 0 = {}
OBVIOUS

LEMMA ZeroPositions == \A n \in Nat : 0 \in 0 .. n
OBVIOUS

LEMMA Positions ==
    ASSUME NEW n \in Nat, NEW k \in 1 .. n
    PROVE  /\ 1 .. k \in SUBSET (1 .. n)
           /\ k \in 1 .. k
           /\ k \in Nat \ {0}
           /\ k \in 0 .. n
           /\ k - 1 \in 0 .. n
           /\ 1 .. k \in SUBSET Int
           /\ \A x \in 1 .. k : x <= k
OBVIOUS

LEMMA WithoutLast ==
    ASSUME NEW k \in Nat \ {0}
    PROVE  (1 .. k) \ {k} = 1 .. k - 1
<1>1. \A x : x \in (1 .. k) \ {k} <=> x \in 1 .. k - 1
  OBVIOUS
<1> QED BY <1>1, Zenon

LEMMA MaxIsGreatest ==
    ASSUME NEW s, NEW m \in s, s \in SUBSET Int, \A k \in s : k <= m
    PROVE  Max(s) = m
<1>1. \A k \in s : (\A y \in s : k >= y) => k = m
  OBVIOUS
<1> QED BY <1>1 DEF Max

\* The positions from k on.
LEMMA PositionsFrom ==
    ASSUME NEW n \in Nat, NEW k \in 1 .. n
    PROVE  /\ k .. n \in SUBSET (1 .. n)
           /\ k .. n # {}
           /\ k \in k .. n
           /\ (k .. n) \ {k} = k + 1 .. n
           /\ Min(k .. n) = k
<1>1. \A x : x \in (k .. n) \ {k} <=> x \in k + 1 .. n
  OBVIOUS
<1>2. (k .. n) \ {k} = k + 1 .. n
  BY <1>1, Zenon
<1>3. k \in k .. n /\ \A y \in k .. n : k <= y
  OBVIOUS
<1>4. \A x \in k .. n : (\A y \in k .. n : x <= y) => x = k
  OBVIOUS
<1>5. Min(k .. n) = k
  BY <1>3, <1>4 DEF Min
<1>6. k .. n \in SUBSET (1 .. n)
  OBVIOUS
<1> QED BY <1>2, <1>3, <1>5, <1>6, Zenon

(***************************************************************************)
(* A function that takes the positions of a set away one by one, as pick   *)
(* says, and does step[k] for each exists, by induction on the size.       *)
(***************************************************************************)
PicksWith(f, n, B, base, step, pick) ==
    /\ f \in [SUBSET (1 .. n) -> B]
    /\ \A s \in SUBSET (1 .. n) :
           f[s] = IF s = {} THEN base ELSE step[pick[s]][f[s \ {pick[s]}]]

LEMMA PickExists ==
    ASSUME NEW n \in Nat, NEW B, NEW base \in B,
           NEW step \in [1 .. n -> [B -> B]], NEW pick,
           \A s \in SUBSET (1 .. n) : s # {} => pick[s] \in s
    PROVE  \E f : PicksWith(f, n, B, base, step, pick)
<1> DEFINE Small(k) == {s \in SUBSET (1 .. n) : Cardinality(s) <= k}
           Defines(f, k) ==
               /\ f \in [Small(k) -> B]
               /\ \A s \in Small(k) :
                      f[s] = IF s = {} THEN base
                             ELSE step[pick[s]][f[s \ {pick[s]}]]
           S == {k \in 0 .. n : \E f : Defines(f, k)}
<1>1. \A s \in SUBSET (1 .. n) :
          IsFiniteSet(s) /\ Cardinality(s) \in Nat /\ Cardinality(s) <= n
  <2>1. IsFiniteSet(1 .. n) /\ Cardinality(1 .. n) = n
    BY FS_Interval
  <2>2. \A s \in SUBSET (1 .. n) :
            /\ IsFiniteSet(s) /\ Cardinality(s) \in Nat
            /\ Cardinality(s) <= Cardinality(1 .. n)
    BY <2>1, FS_Subset, FS_CardinalityType, Zenon
  <2> QED BY <2>1, <2>2
<1>2. 0 \in S
  <2> DEFINE f == [s \in Small(0) |-> base]
  <2>1. \A s \in Small(0) : s = {}
    BY <1>1, FS_EmptySet
  <2>2. Defines(f, 0)
    BY <2>1
  <2> HIDE DEF Defines, f
  <2> QED BY <2>2, ZeroPositions, Zenon
<1>3. ASSUME NEW k \in 1 .. n, k - 1 \in S PROVE k \in S
  <2>1. PICK f : Defines(f, k - 1)
    BY <1>3
  <2> DEFINE g == [s \in Small(k) |->
                      IF s = {} THEN base
                      ELSE step[pick[s]][f[s \ {pick[s]}]]]
  <2>2. ASSUME NEW s \in Small(k), s # {}
        PROVE  s \ {pick[s]} \in Small(k - 1) /\ pick[s] \in 1 .. n
    <3>1. pick[s] \in s /\ pick[s] \in 1 .. n
      BY <2>2
    <3>2. Cardinality(s \ {pick[s]}) = Cardinality(s) - 1
      BY <1>1, <3>1, FS_RemoveElement
    <3>3. s \in SUBSET (1 .. n) /\ Cardinality(s) <= k
      OBVIOUS
    <3>4. Cardinality(s) - 1 <= k - 1
      BY <1>1, <3>3
    <3> QED BY <3>1, <3>2, <3>3, <3>4, Zenon
  <2>3. \A s \in Small(k - 1) : s \in Small(k)
    BY <1>1
  <2> HIDE DEF Small
  <2>4. g \in [Small(k) -> B]
    BY <2>1, <2>2
  <2>5. \A s \in Small(k - 1) : g[s] = f[s]
    BY <2>1, <2>3
  <2>6. ASSUME NEW s \in Small(k)
        PROVE  g[s] = IF s = {} THEN base
                      ELSE step[pick[s]][g[s \ {pick[s]}]]
    BY <2>2, <2>5
  <2> HIDE DEF g
  <2>7. Defines(g, k)
    BY <2>4, <2>6, Zenon
  <2> HIDE DEF Defines
  <2> QED BY <2>7, Positions, Zenon
<1> HIDE DEF Defines
<1>4. \A k \in 0 .. n : k \in S
  <2>1. \A k \in 1 .. n : k - 1 \in S => k \in S
    BY <1>3
  <2> HIDE DEF S
  <2> QED BY <1>2, <2>1, LoopInduction, Zenon
<1>5. PICK f : Defines(f, n)
  <2>1. n \in 0 .. n
    OBVIOUS
  <2> QED BY <1>4, <2>1, Zenon
<1>6. Small(n) = SUBSET (1 .. n)
  BY <1>1
<1> HIDE DEF Small
<1> QED BY <1>5, <1>6, Zenon DEF Defines, PicksWith

\* A set of positions that is not empty has a greatest one.
LEMMA MaxIsMember ==
    ASSUME NEW n \in Nat, NEW s \in SUBSET (1 .. n), s # {}
    PROVE  Max(s) \in s
<1> DEFINE T == {k \in 0 .. n : \E x \in s : k = n - x}
<1>1. PICK x \in s : TRUE
  OBVIOUS
<1>2. \A y \in s : y \in Int /\ n - y \in T
  OBVIOUS
<1>3. T \in SUBSET Nat /\ T # {}
  <2>1. \A k \in T : k \in Nat
    OBVIOUS
  <2> HIDE DEF T
  <2> QED BY <1>1, <1>2, <2>1
<1>4. PICK m \in T : \A k \in T : m <= k
  <2> HIDE DEF T
  <2> QED BY <1>3, LeastNat
<1>5. PICK y \in s : m = n - y
  BY <1>4
<1>6. ASSUME NEW z \in s PROVE z <= y
  <2>1. n - y <= n - z
    BY <1>2, <1>4, <1>5
  <2> QED BY <1>2, <2>1
<1>7. s \in SUBSET Int
  BY <1>2
<1> QED BY <1>6, <1>7, MaxIsGreatest

(***************************************************************************)
(* FoldLeft over n elements starts with base, and step[k] is its k-th      *)
(* round.  The function f it is defined by empties the set of positions    *)
(* still to fold from its greatest one, which is the last to be folded.    *)
(***************************************************************************)
FoldsWith(f, n, B, base, step) ==
    /\ f \in [SUBSET (1 .. n) -> B]
    /\ \A s \in SUBSET (1 .. n) :
           f[s] = IF s = {} THEN base ELSE step[Max(s)][f[s \ {Max(s)}]]

LEMMA FoldExists ==
    ASSUME NEW n \in Nat, NEW B, NEW base \in B,
           NEW step \in [1 .. n -> [B -> B]]
    PROVE  \E f : FoldsWith(f, n, B, base, step)
<1> DEFINE pick == [s \in SUBSET (1 .. n) |-> Max(s)]
<1>1. \A s \in SUBSET (1 .. n) : s # {} => pick[s] \in s
  BY MaxIsMember
<1>2. \A s \in SUBSET (1 .. n) : pick[s] = Max(s)
  OBVIOUS
<1> HIDE DEF pick
<1>3. PICK f : PicksWith(f, n, B, base, step, pick)
  BY <1>1, PickExists, Zenon
<1>4. FoldsWith(f, n, B, base, step)
  BY <1>2, <1>3, Zenon DEF FoldsWith, PicksWith
<1> QED BY <1>4, Zenon

\* FoldRight begins with the greatest position and ends with the least.
FoldsRightWith(f, n, B, base, step) ==
    /\ f \in [SUBSET (1 .. n) -> B]
    /\ \A s \in SUBSET (1 .. n) :
           f[s] = IF s = {} THEN base ELSE step[Min(s)][f[s \ {Min(s)}]]

LEMMA FoldRightExists ==
    ASSUME NEW n \in Nat, NEW B, NEW base \in B,
           NEW step \in [1 .. n -> [B -> B]]
    PROVE  \E f : FoldsRightWith(f, n, B, base, step)
<1> DEFINE pick == [s \in SUBSET (1 .. n) |-> Min(s)]
<1>1. \A s \in SUBSET (1 .. n) : s # {} => pick[s] \in s
  <2>1. SUBSET (1 .. n) \subseteq SUBSET Nat
    OBVIOUS
  <2> QED BY <2>1, MinIsLeast
<1>2. \A s \in SUBSET (1 .. n) : pick[s] = Min(s)
  OBVIOUS
<1> HIDE DEF pick
<1>3. PICK f : PicksWith(f, n, B, base, step, pick)
  BY <1>1, PickExists, Zenon
<1>4. FoldsRightWith(f, n, B, base, step)
  BY <1>2, <1>3, Zenon DEF FoldsRightWith, PicksWith
<1> QED BY <1>4, Zenon

(***************************************************************************)
(* The rounds of such a loop: one element each, in order.  f need not be   *)
(* known to stay within B.                                                 *)
(***************************************************************************)
Folds(f, n, B, base, step) ==
    /\ f[{}] = base
    /\ \A s \in SUBSET (1 .. n) :
           s # {} /\ f[s \ {Max(s)}] \in B
           => f[s] = step[Max(s)][f[s \ {Max(s)}]]

Rounds(f, n, B, base, step) ==
    /\ f[1 .. 0] = base
    /\ \A k \in 0 .. n : f[1 .. k] \in B
    /\ \A k \in 1 .. n : f[1 .. k] = step[k][f[1 .. k - 1]]

LEMMA FoldRounds ==
    ASSUME NEW n \in Nat, NEW B, NEW base \in B,
           NEW step \in [1 .. n -> [B -> B]], NEW f,
           Folds(f, n, B, base, step)
    PROVE  Rounds(f, n, B, base, step)
<1> USE DEF Folds, Rounds
<1>1. f[1 .. 0] \in B
  BY NoPosition, Zenon
<1>2. ASSUME NEW k \in 1 .. n, f[1 .. k - 1] \in B
      PROVE  f[1 .. k] = step[k][f[1 .. k - 1]] /\ f[1 .. k] \in B
  <2>1. 1 .. k \in SUBSET (1 .. n) /\ k \in 1 .. k
    BY Positions, Zenon
  <2>2. Max(1 .. k) = k
    BY Positions, MaxIsGreatest, Zenon
  <2>3. (1 .. k) \ {k} = 1 .. k - 1
    BY Positions, WithoutLast, Zenon
  <2>4. f[1 .. k] = step[k][f[1 .. k - 1]]
    BY <1>2, <2>1, <2>2, <2>3, Zenon
  <2>5. step[k][f[1 .. k - 1]] \in B
    BY <1>2
  <2> QED BY <2>4, <2>5, Zenon
<1> DEFINE S == {k \in 0 .. n : f[1 .. k] \in B}
<1>3. 0 \in S
  BY <1>1, ZeroPositions, Zenon
<1>4. \A k \in 1 .. n : k - 1 \in S => k \in S
  BY <1>2, Positions, Zenon
<1>5. \A k \in 0 .. n : k \in S
  <2> HIDE DEF S
  <2> QED BY <1>3, <1>4, LoopInduction, Zenon
<1>6. \A k \in 0 .. n : f[1 .. k] \in B
  BY <1>5, Zenon
<1>7. f[1 .. 0] = base
  BY NoPosition, Zenon
<1>8. \A k \in 1 .. n : f[1 .. k] = step[k][f[1 .. k - 1]]
  BY <1>2, <1>6, Positions, Zenon
<1> QED BY <1>6, <1>7, <1>8, Zenon
=============================================================================
