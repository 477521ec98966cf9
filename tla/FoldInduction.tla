--------------------------- MODULE FoldInduction ---------------------------
(***************************************************************************)
(* Induction over the natural numbers and over a fold from the left, for   *)
(* the proofs about the folds of the other modules: Op is what the fold    *)
(* does to its result with each element, Holds what is to be shown of it.  *)
(* Both may depend on a context c.                                         *)
(***************************************************************************)
EXTENDS Naturals, WellFoundedInduction, TLAPS

CONSTANTS
  Op(_, _, _),     \* of the context, the result so far and the next element
  Holds(_, _, _)   \* of the context, the number of elements and the result

Largest(S) == CHOOSE x \in S : \A y \in S : x >= y

\* FoldLeft of SequencesExt, its definitions expanded.
Step(c, base, seq, g, s) ==
  IF s = {} THEN base ELSE Op(c, g[s \ {Largest(s)}], seq[Largest(s)])
Fold(c, base, seq) ==
  (CHOOSE g : g = [s \in SUBSET DOMAIN seq |-> Step(c, base, seq, g, s)])[DOMAIN seq]

-----------------------------------------------------------------------------
\* A set of numbers that has zero, and with a number the next, has all.
LEMMA SetInduction ==
  ASSUME NEW S, 0 \in S, \A n \in Nat : n \in S => n + 1 \in S
  PROVE  Nat \subseteq S
<1> DEFINE T == Nat \ S
<1>1. SUFFICES ASSUME T # {} PROVE FALSE
  OBVIOUS
<1>2. IsWellFoundedOn(OpToRel(<, Nat), Nat)
  BY NatLessThanWellFounded
<1>3. PICK x \in T : \A y \in T : << y, x >> \notin OpToRel(<, Nat)
  BY <1>1, <1>2, WFMin
<1>4. x # 0 /\ x - 1 \in Nat /\ x - 1 < x
  OBVIOUS
<1>5. x - 1 \in T
  OBVIOUS
<1>6. << x - 1, x >> \in OpToRel(<, Nat)
  BY <1>4 DEF OpToRel
<1> QED BY <1>3, <1>5, <1>6

\* Of numbers below a bound one is the largest.
LEMMA LargestIsLargest ==
  ASSUME NEW n \in Nat, NEW s \in SUBSET (1..n), s # {}
  PROVE  Largest(s) \in s /\ \A y \in s : Largest(s) >= y
<1> DEFINE S == { k \in Nat : \A t \in SUBSET (1..k) : t # {} => \E x \in t : \A y \in t : x >= y }
<1>1. 0 \in S
  <2>1. 1..0 = {}
    OBVIOUS
  <2>2. \A t \in SUBSET (1..0) : t = {}
    BY <2>1
  <2> QED BY <2>2
<1>2. \A k \in Nat : k \in S => k + 1 \in S
  <2> SUFFICES ASSUME NEW k \in S, NEW t \in SUBSET (1..(k + 1)), t # {}
               PROVE  \E x \in t : \A y \in t : x >= y
    OBVIOUS
  <2>1. CASE k + 1 \in t
    BY <2>1
  <2>2. CASE k + 1 \notin t
    <3>1. t \in SUBSET (1..k)
      BY <2>2
    <3> QED BY <3>1
  <2> QED BY <2>1, <2>2
<1> HIDE DEF S
<1>3. n \in S
  BY <1>1, <1>2, SetInduction
<1>4. \E x \in s : \A y \in s : x >= y
  BY <1>3 DEF S
<1> QED BY <1>4 DEF Largest

\* The largest number of an interval, and of a set that has its upper bound.
LEMMA LargestOfInterval ==
  ASSUME NEW k \in Nat, NEW s \in SUBSET (1..(k + 1)), k + 1 \in s
  PROVE  Largest(s) = k + 1
<1>1. k + 1 \in Nat
  OBVIOUS
<1>2. Largest(s) \in s /\ Largest(s) >= k + 1
  BY <1>1, LargestIsLargest
<1>3. \A m \in s : m \in Nat /\ m <= k + 1
  OBVIOUS
<1>4. \A m \in Nat : m <= k + 1 /\ m >= k + 1 => m = k + 1
  OBVIOUS
<1> QED BY <1>2, <1>3, <1>4

\* The recursion of a fold is well founded.
LEMMA StepsExist ==
  ASSUME NEW c, NEW base, NEW seq, NEW n \in Nat
  PROVE  \E g : g = [s \in SUBSET (1..n) |-> Step(c, base, seq, g, s)]
<1> DEFINE S == { k \in Nat : \E g : g = [s \in SUBSET (1..k) |-> Step(c, base, seq, g, s)] }
<1>1. 0 \in S
  <2> DEFINE g == [s \in SUBSET (1..0) |-> base]
  <2>1. \A s \in SUBSET (1..0) : s = {}
    OBVIOUS
  <2>2. g = [s \in SUBSET (1..0) |-> Step(c, base, seq, g, s)]
    BY <2>1 DEF Step
  <2> QED BY <2>2
<1>2. ASSUME NEW k \in S
      PROVE  k + 1 \in S
  <2>1. k \in Nat
    OBVIOUS
  <2>2. PICK g : g = [s \in SUBSET (1..k) |-> Step(c, base, seq, g, s)]
    OBVIOUS
  <2> DEFINE h == [s \in SUBSET (1..(k + 1)) |->
                     IF k + 1 \in s THEN Op(c, g[s \ {k + 1}], seq[k + 1]) ELSE g[s]]
  <2>3. ASSUME NEW s \in SUBSET (1..(k + 1))
        PROVE  h[s] = Step(c, base, seq, h, s)
    <3>1. CASE k + 1 \in s
      <4>1. Largest(s) = k + 1 /\ s # {}
        BY <2>1, <3>1, LargestOfInterval
      <4>2. s \ {k + 1} \in SUBSET (1..(k + 1)) /\ k + 1 \notin s \ {k + 1}
        OBVIOUS
      <4>3. h[s \ {k + 1}] = g[s \ {k + 1}] /\ h[s] = Op(c, g[s \ {k + 1}], seq[k + 1])
        BY <3>1, <4>2
      <4> HIDE DEF h
      <4> QED BY <4>1, <4>3 DEF Step
    <3>2. CASE k + 1 \notin s
      <4>1. s \in SUBSET (1..k) /\ h[s] = g[s]
        BY <2>1, <3>2
      <4>2. g[s] = Step(c, base, seq, g, s)
        BY <2>2, <4>1
      <4>3. s \ {Largest(s)} \in SUBSET (1..(k + 1)) /\ k + 1 \notin s \ {Largest(s)}
        BY <3>2
      <4>4. h[s \ {Largest(s)}] = g[s \ {Largest(s)}]
        BY <4>3
      <4> HIDE DEF h
      <4> QED BY <4>1, <4>2, <4>4 DEF Step
    <3> QED BY <3>1, <3>2
  <2>4. h = [s \in SUBSET (1..(k + 1)) |-> h[s]]
    OBVIOUS
  <2> HIDE DEF h
  <2>5. h = [s \in SUBSET (1..(k + 1)) |-> Step(c, base, seq, h, s)]
    BY <2>3, <2>4
  <2> QED BY <2>1, <2>5
<1>3. n \in S
  <2> HIDE DEF S
  <2>1. S \in SUBSET Nat
    BY DEF S
  <2> QED BY <1>1, <1>2, <2>1, SetInduction
<1> QED BY <1>3

\* What holds of the base, and of the result with an element when it holds of the
\* result before, holds of the fold.
THEOREM FoldInduction ==
  ASSUME NEW c, NEW base, NEW seq, NEW n \in Nat, DOMAIN seq = 1..n,
         Holds(c, 0, base),
         \A k \in 1..n : \A acc : Holds(c, k - 1, acc) => Holds(c, k, Op(c, acc, seq[k]))
  PROVE  Holds(c, n, Fold(c, base, seq))
<1> DEFINE g == CHOOSE g : g = [s \in SUBSET (1..n) |-> Step(c, base, seq, g, s)]
<1>1. g = [s \in SUBSET (1..n) |-> Step(c, base, seq, g, s)]
  BY StepsExist
<1>2. Fold(c, base, seq) = g[1..n]
  BY DEF Fold
<1> HIDE DEF g
<1>3. \A s \in SUBSET (1..n) : g[s] = Step(c, base, seq, g, s)
  BY <1>1
<1> DEFINE S == { k \in Nat : k <= n => Holds(c, k, g[1..k]) }
<1>4. 0 \in S
  <2>1. 1..0 = {} /\ {} \in SUBSET (1..n)
    OBVIOUS
  <2>2. g[1..0] = base
    BY <1>3, <2>1 DEF Step
  <2> QED BY <2>2
<1>5. ASSUME NEW k \in S
      PROVE  k + 1 \in S
  <2>1. SUFFICES ASSUME k + 1 <= n PROVE Holds(c, k + 1, g[1..(k + 1)])
    OBVIOUS
  <2>2. k \in Nat /\ Holds(c, k, g[1..k])
    BY <2>1
  <2>3. k + 1 \in 1..n /\ 1..(k + 1) \in SUBSET (1..n) /\ k + 1 \in 1..(k + 1)
    BY <2>1, <2>2
  <2>4. Largest(1..(k + 1)) = k + 1 /\ (1..(k + 1)) \ {k + 1} = 1..k /\ (k + 1) - 1 = k
    BY <2>2, <2>3, LargestOfInterval
  <2>5. g[1..(k + 1)] = Op(c, g[1..k], seq[k + 1])
    BY <1>3, <2>3, <2>4 DEF Step
  <2> QED BY <2>2, <2>3, <2>4, <2>5
<1>6. n \in S
  <2> HIDE DEF S
  <2>1. S \in SUBSET Nat
    BY DEF S
  <2> QED BY <1>4, <1>5, <2>1, SetInduction
<1> QED BY <1>2, <1>6

-----------------------------------------------------------------------------
\* g walks through seq from the base, one step for each element.
Walks(g, c, base, seq, n) ==
  /\ g[0] = base
  /\ \A k \in 1..n : g[k] = Op(c, g[k - 1], seq[k])

\* A fold is where a walk ends.
LEMMA FoldWalk ==
  ASSUME NEW c, NEW base, NEW seq, NEW n \in Nat, DOMAIN seq = 1..n
  PROVE  \E g : Fold(c, base, seq) = g[n] /\ Walks(g, c, base, seq, n)
<1> DEFINE g == CHOOSE g : g = [s \in SUBSET (1..n) |-> Step(c, base, seq, g, s)]
           w == [k \in 0..n |-> g[1..k]]
<1>1. g = [s \in SUBSET (1..n) |-> Step(c, base, seq, g, s)]
  BY StepsExist
<1>2. Fold(c, base, seq) = g[1..n]
  BY DEF Fold
<1> HIDE DEF g
<1>3. \A s \in SUBSET (1..n) : g[s] = Step(c, base, seq, g, s)
  BY <1>1
<1>4. w[0] = base
  <2>1. 1..0 = {} /\ {} \in SUBSET (1..n) /\ 0 \in 0..n
    OBVIOUS
  <2> QED BY <1>3, <2>1 DEF Step
<1>5. ASSUME NEW k \in 1..n
      PROVE  w[k] = Op(c, w[k - 1], seq[k])
  <2>1. k - 1 \in Nat /\ (k - 1) + 1 = k /\ k \in 0..n /\ k - 1 \in 0..n
    OBVIOUS
  <2>2. 1..k \in SUBSET (1..n) /\ k \in 1..k /\ (1..k) \ {k} = 1..(k - 1)
    OBVIOUS
  <2>3. Largest(1..k) = k
    BY <2>1, <2>2, LargestOfInterval
  <2>4. g[1..k] = Op(c, g[1..(k - 1)], seq[k])
    BY <1>3, <2>2, <2>3 DEF Step
  <2> QED BY <2>1, <2>4
<1>6. Fold(c, base, seq) = w[n]
  BY <1>2
<1> HIDE DEF w
<1> QED BY <1>4, <1>5, <1>6 DEF Walks

\* Two walks that agree at each step end alike.
LEMMA WalksAgree ==
  ASSUME NEW n \in Nat, NEW g, NEW h,
         g[0] = h[0],
         \A k \in 1..n : g[k - 1] = h[k - 1] => g[k] = h[k]
  PROVE  g[n] = h[n]
<1> DEFINE S == { k \in Nat : k <= n => g[k] = h[k] }
<1>1. 0 \in S
  OBVIOUS
<1>2. ASSUME NEW k \in S
      PROVE  k + 1 \in S
  <2>1. SUFFICES ASSUME k + 1 <= n PROVE g[k + 1] = h[k + 1]
    OBVIOUS
  <2>2. k + 1 \in 1..n /\ (k + 1) - 1 = k /\ g[k] = h[k]
    BY <2>1
  <2> QED BY <2>2
<1>3. n \in S
  <2> HIDE DEF S
  <2>1. S \in SUBSET Nat
    BY DEF S
  <2> QED BY <1>1, <1>2, <2>1, SetInduction
<1> QED BY <1>3

\* A set that has the base, and with a result the next, has the fold.
THEOREM FoldStays ==
  ASSUME NEW c, NEW base, NEW seq, NEW n \in Nat, DOMAIN seq = 1..n,
         NEW X, base \in X,
         \A k \in 1..n : \A acc \in X : Op(c, acc, seq[k]) \in X
  PROVE  Fold(c, base, seq) \in X
<1>1. PICK g : Fold(c, base, seq) = g[n] /\ Walks(g, c, base, seq, n)
  BY FoldWalk
<1> DEFINE S == { k \in Nat : k <= n => g[k] \in X }
<1>2. 0 \in S
  BY <1>1 DEF Walks
<1>3. ASSUME NEW k \in S
      PROVE  k + 1 \in S
  <2>1. SUFFICES ASSUME k + 1 <= n PROVE g[k + 1] \in X
    OBVIOUS
  <2>2. k + 1 \in 1..n /\ (k + 1) - 1 = k /\ g[k] \in X
    BY <2>1
  <2>3. g[k + 1] = Op(c, g[k], seq[k + 1])
    BY <1>1, <2>2 DEF Walks
  <2> QED BY <2>2, <2>3
<1>4. n \in S
  <2> HIDE DEF S
  <2>1. S \in SUBSET Nat
    BY DEF S
  <2> QED BY <1>2, <1>3, <2>1, SetInduction
<1> QED BY <1>1, <1>4

\* The fold over nothing.
THEOREM FoldOfNone ==
  ASSUME NEW c, NEW base, NEW seq, DOMAIN seq = 1..0
  PROVE  Fold(c, base, seq) = base
<1>1. PICK g : Fold(c, base, seq) = g[0] /\ Walks(g, c, base, seq, 0)
  BY FoldWalk
<1> QED BY <1>1 DEF Walks

\* A fold may take the first element first.
THEOREM FoldFromHead ==
  ASSUME NEW c, NEW base, NEW n \in Nat,
         NEW seq, DOMAIN seq = 1..(n + 1),
         NEW rest, DOMAIN rest = 1..n, \A k \in 1..n : rest[k] = seq[k + 1]
  PROVE  Fold(c, base, seq) = Fold(c, Op(c, base, seq[1]), rest)
<1>1. PICK g : Fold(c, base, seq) = g[n + 1] /\ Walks(g, c, base, seq, n + 1)
  <2> DEFINE m == n + 1
  <2>1. m \in Nat /\ DOMAIN seq = 1..m
    OBVIOUS
  <2> HIDE DEF m
  <2>2. \E g : Fold(c, base, seq) = g[m] /\ Walks(g, c, base, seq, m)
    BY <2>1, FoldWalk
  <2> QED BY <2>2 DEF m
<1>2. PICK h : /\ Fold(c, Op(c, base, seq[1]), rest) = h[n]
               /\ Walks(h, c, Op(c, base, seq[1]), rest, n)
  BY FoldWalk
<1> DEFINE w == [k \in 0..n |-> g[k + 1]]
<1>3. w[0] = h[0]
  <2>1. 1 \in 1..(n + 1) /\ 0 \in 0..n /\ 1 - 1 = 0 /\ 0 + 1 = 1
    OBVIOUS
  <2>2. g[1] = Op(c, g[0], seq[1]) /\ g[0] = base
    BY <1>1, <2>1 DEF Walks
  <2> QED BY <1>2, <2>1, <2>2 DEF Walks
<1>4. ASSUME NEW k \in 1..n, w[k - 1] = h[k - 1]
      PROVE  w[k] = h[k]
  <2>1. /\ k + 1 \in 1..(n + 1) /\ (k + 1) - 1 = k /\ (k - 1) + 1 = k
        /\ k \in 0..n /\ k - 1 \in 0..n
    OBVIOUS
  <2>2. g[k + 1] = Op(c, g[k], seq[k + 1])
    BY <1>1, <2>1 DEF Walks
  <2>3. h[k] = Op(c, h[k - 1], seq[k + 1])
    BY <1>2 DEF Walks
  <2> QED BY <1>4, <2>1, <2>2, <2>3
<1>5. w[n] = g[n + 1]
  OBVIOUS
<1>6. w[n] = h[n]
  <2> HIDE DEF w
  <2> QED BY <1>3, <1>4, WalksAgree
<1> QED BY <1>1, <1>2, <1>5, <1>6

\* Contexts that make no difference at any step make none to the fold.
THEOREM FoldAlike ==
  ASSUME NEW c, NEW d, NEW base, NEW seq, NEW n \in Nat, DOMAIN seq = 1..n,
         \A k \in 1..n : \A acc : Op(c, acc, seq[k]) = Op(d, acc, seq[k])
  PROVE  Fold(c, base, seq) = Fold(d, base, seq)
<1>1. PICK g : Fold(c, base, seq) = g[n] /\ Walks(g, c, base, seq, n)
  BY FoldWalk
<1>2. PICK h : Fold(d, base, seq) = h[n] /\ Walks(h, d, base, seq, n)
  BY FoldWalk
<1>3. ASSUME NEW k \in 1..n, g[k - 1] = h[k - 1]
      PROVE  g[k] = h[k]
  BY <1>1, <1>2, <1>3 DEF Walks
<1>4. g[0] = h[0]
  BY <1>1, <1>2 DEF Walks
<1>5. g[n] = h[n]
  BY <1>3, <1>4, WalksAgree
<1> QED BY <1>1, <1>2, <1>5

\* Of two walks that take the same steps one goes as far as the other.
LEMMA WalksAlike ==
  ASSUME NEW c, NEW base, NEW n \in Nat, NEW seq, NEW rest, NEW g, NEW h,
         Walks(g, c, base, seq, n), Walks(h, c, base, rest, n),
         \A k \in 1..n : seq[k] = rest[k]
  PROVE  g[n] = h[n]
<1>1. g[0] = h[0]
  BY DEF Walks
<1>2. \A k \in 1..n : g[k - 1] = h[k - 1] => g[k] = h[k]
  BY DEF Walks
<1> QED BY <1>1, <1>2, WalksAgree

\* A fold takes the last element last.
THEOREM FoldToLast ==
  ASSUME NEW c, NEW base, NEW n \in Nat,
         NEW seq, DOMAIN seq = 1..(n + 1),
         NEW rest, DOMAIN rest = 1..n, \A k \in 1..n : rest[k] = seq[k]
  PROVE  Fold(c, base, seq) = Op(c, Fold(c, base, rest), seq[n + 1])
<1>1. PICK g : Fold(c, base, seq) = g[n + 1] /\ Walks(g, c, base, seq, n + 1)
  <2> DEFINE m == n + 1
  <2>1. m \in Nat /\ DOMAIN seq = 1..m
    OBVIOUS
  <2> HIDE DEF m
  <2>2. \E g : Fold(c, base, seq) = g[m] /\ Walks(g, c, base, seq, m)
    BY <2>1, FoldWalk
  <2> QED BY <2>2 DEF m
<1>2. PICK h : Fold(c, base, rest) = h[n] /\ Walks(h, c, base, rest, n)
  BY FoldWalk
<1>3. Walks(g, c, base, seq, n) /\ g[n + 1] = Op(c, g[n], seq[n + 1])
  <2>1. n + 1 \in 1..(n + 1) /\ (n + 1) - 1 = n /\ \A k \in 1..n : k \in 1..(n + 1)
    OBVIOUS
  <2> QED BY <1>1, <2>1 DEF Walks
<1>4. g[n] = h[n]
  BY <1>2, <1>3, WalksAlike
<1> QED BY <1>1, <1>2, <1>3, <1>4

\* The function of the numbers that Op makes of its value before.
Recurs(f, c, base) == f[0] = base /\ \A k \in Nat : f[k + 1] = Op(c, f[k], k + 1)
Recursion(c, base) == CHOOSE f : Recurs(f, c, base)

\* There is one.
THEOREM RecursionRecurs ==
  ASSUME NEW c, NEW base
  PROVE  Recurs(Recursion(c, base), c, base)
<1> DEFINE Upto(n) == [k \in 1..n |-> k]
           f == [k \in Nat |-> Fold(c, base, Upto(k))]
<1>1. f[0] = base
  <2>1. DOMAIN Upto(0) = 1..0
    OBVIOUS
  <2> QED BY <2>1, FoldOfNone
<1>2. ASSUME NEW k \in Nat
      PROVE  f[k + 1] = Op(c, f[k], k + 1)
  <2>1. /\ DOMAIN Upto(k + 1) = 1..(k + 1) /\ DOMAIN Upto(k) = 1..k
        /\ \A i \in 1..k : Upto(k)[i] = Upto(k + 1)[i]
        /\ Upto(k + 1)[k + 1] = k + 1
    OBVIOUS
  <2> HIDE DEF Upto
  <2>2. Fold(c, base, Upto(k + 1)) = Op(c, Fold(c, base, Upto(k)), Upto(k + 1)[k + 1])
    BY <2>1, FoldToLast
  <2> QED BY <2>1, <2>2
<1> HIDE DEF f
<1>3. Recurs(f, c, base)
  BY <1>1, <1>2 DEF Recurs
<1> QED BY <1>3 DEF Recursion
=============================================================================
