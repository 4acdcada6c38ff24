------------------------------- MODULE Folding -------------------------------
(***************************************************************************)
(* What the proofs about the tools of the editor need to know of FoldLeft: *)
(* it goes through a sequence element by element, and what each element    *)
(* preserves holds of the result.  The operator that is folded, and the    *)
(* property it preserves, are constants of this module, given in the       *)
(* INSTANCEs that the proofs make of it; each brings along what this       *)
(* module extends, which is therefore as little as it can be.              *)
(***************************************************************************)
EXTENDS Integers, Folds, WellFoundedInduction

CONSTANTS
  Op(_, _, _),   \* what is given, the value so far, and an element
  Inv(_, _, _)   \* what is given, the elements so far, and the value so far

\* As in FiniteSetsExt.
Max(S) == CHOOSE x \in S : \A y \in S : x >= y
Min(S) == CHOOSE x \in S : \A y \in S : x =< y

\* FoldLeft of SequencesExt, of that operator.
Fold(given, base, seq) ==
  MapThenFoldSet(LAMBDA element, value : Op(given, value, element), base,
                 LAMBDA i : seq[i], LAMBDA S : Max(S), DOMAIN seq)

-----------------------------------------------------------------------------

LEMMA LessThanOnNat == OpToRel(<, Nat) = {ss \in Nat \X Nat : ss[1] < ss[2]}
BY DEF OpToRel

\* Sets of natural numbers have a least element.
LEMMA LeastNumber ==
  ASSUME NEW T \in SUBSET Nat, T # {}
  PROVE  \E x \in T : \A y \in T : x =< y
<1> DEFINE R == {ss \in Nat \X Nat : ss[1] < ss[2]}
<1>1. IsWellFoundedOn(R, Nat)
  BY LessThanOnNat, NatLessThanWellFounded
<1> HIDE DEF R
<1>2. \E x \in T : \A y \in T : ~(<<y, x>> \in R)
  BY <1>1, WFMin
<1>3. \A x, y \in Nat : <<y, x>> \notin R => x =< y
  BY DEF R
<1> QED
  BY <1>2, <1>3

\* The first number that is not in a set, when 0 is.
LEMMA FirstOutside ==
  ASSUME NEW T, 0 \in T, NEW n \in Nat, n \notin T
  PROVE  \E k \in Nat : k < n /\ k \in T /\ k + 1 \notin T
<1> DEFINE Outside == {k \in Nat : k \notin T}
<1>1. PICK m \in Outside : \A k \in Outside : m =< k
  BY LeastNumber
<1>2. m \in Nat /\ m # 0 /\ m =< n
  BY <1>1
<1>3. m - 1 \in Nat /\ m - 1 \in T
  BY <1>1, <1>2
<1> QED
  BY <1>1, <1>2, <1>3

LEMMA MaxOfBounded ==
  ASSUME NEW m \in Nat, NEW s \in SUBSET (0..m), s # {}
  PROVE  /\ Max(s) \in s
         /\ \A y \in s : y =< Max(s)
<1> DEFINE Bounds == {k \in Nat : \A y \in s : y =< k}
<1>1. Bounds \in SUBSET Nat /\ m \in Bounds
  OBVIOUS
<1>2. PICK k \in Bounds : \A other \in Bounds : k =< other
  BY <1>1, LeastNumber
<1>3. k \in s
  <2>1. SUFFICES ASSUME k \notin s
                 PROVE  FALSE
    OBVIOUS
  <2>2. \A y \in s : y \in Nat /\ y =< k - 1
    BY <1>2, <2>1
  <2>3. k - 1 \in Nat
    <3>1. PICK y \in s : TRUE
      OBVIOUS
    <3>2. y \in 0..m /\ y =< k - 1 /\ k \in Nat
      BY <2>2
    <3> QED
      BY <3>2
  <2>4. k - 1 \in Bounds
    BY <2>2, <2>3
  <2> QED
    BY <1>2, <2>4
<1>4. \E x \in s : \A y \in s : x >= y
  BY <1>2, <1>3
<1>5. Max(s) \in s /\ \A y \in s : Max(s) >= y
  BY <1>4 DEF Max
<1> QED
  BY <1>5

LEMMA MinOfNaturals ==
  ASSUME NEW s \in SUBSET Nat, s # {}
  PROVE  /\ Min(s) \in s
         /\ \A y \in s : Min(s) =< y
<1>1. \E x \in s : \A y \in s : x =< y
  BY LeastNumber
<1> QED
  BY <1>1 DEF Min

\* What a function of the first numbers returns is bounded, and so has a maximum.
LEMMA Bounded ==
  ASSUME NEW n \in Nat, NEW f \in [1..n -> Nat]
  PROVE  \E m \in Nat : \A i \in 1..n : f[i] =< m
<1> DEFINE T == {k \in Nat : \E m \in Nat : \A i \in 1..n : i =< k => f[i] =< m}
<1>1. 0 \in T
  BY 0 \in Nat
<1>2. ASSUME NEW k \in Nat, k < n, k \in T
      PROVE  k + 1 \in T
  <2>1. PICK m \in Nat : \A i \in 1..n : i =< k => f[i] =< m
    BY <1>2
  <2> DEFINE larger == IF f[k + 1] > m THEN f[k + 1] ELSE m
  <2>2. f[k + 1] \in Nat
    BY <1>2
  <2>3. larger \in Nat /\ m =< larger /\ f[k + 1] =< larger
    BY <2>2
  <2> HIDE DEF larger
  <2>4. \A i \in 1..n : i =< k + 1 => f[i] =< larger
    <3> SUFFICES ASSUME NEW i \in 1..n, i =< k + 1
                 PROVE  f[i] =< larger
      OBVIOUS
    <3>1. f[i] \in Nat /\ (i =< k \/ i = k + 1)
      OBVIOUS
    <3> QED
      BY <2>1, <2>3, <3>1
  <2> QED
    BY <2>3, <2>4
<1> HIDE DEF T
<1>3. n \in T
  BY <1>1, <1>2, FirstOutside
<1> QED
  BY <1>3 DEF T

LEMMA MaxOfPrefix ==
  ASSUME NEW k \in Nat \ {0}
  PROVE  Max(1..k) = k /\ (1..k) \ {k} = 1..(k - 1)
<1> DEFINE s == 1..k
<1>1. s \in SUBSET (0..k) /\ 1 \in s /\ k \in Nat
  OBVIOUS
<1>2. s # {}
  BY <1>1
<1> HIDE DEF s
<1>3. Max(s) \in s /\ \A y \in s : y =< Max(s)
  BY <1>1, <1>2, MaxOfBounded
<1>4. Max(1..k) \in 1..k /\ k =< Max(1..k)
  BY <1>3 DEF s
<1> QED
  BY <1>4

-----------------------------------------------------------------------------

\* The recursive function of MapThenFoldSet for FoldLeft.
Step(given, base, seq, f, s) ==
  IF s = {} THEN base ELSE Op(given, f[s \ {Max(s)}], seq[Max(s)])

Folds(given, base, seq, S, f) ==
  f = [s \in SUBSET S |-> Step(given, base, seq, f, s)]

\* It exists for every prefix.
LEMMA FoldExists ==
  ASSUME NEW given, NEW base, NEW seq, NEW n \in Nat
  PROVE  \E f : Folds(given, base, seq, 1..n, f)
<1> DEFINE T == {k \in Nat : \E f : Folds(given, base, seq, 1..k, f)}
<1>1. 0 \in T
  <2> DEFINE f == [s \in SUBSET (1..0) |-> base]
  <2>1. \A s \in SUBSET (1..0) : Step(given, base, seq, f, s) = base
    BY DEF Step
  <2>2. Folds(given, base, seq, 1..0, f)
    BY <2>1 DEF Folds
  <2> QED
    BY <2>2
<1>2. ASSUME NEW k \in Nat, k \in T
      PROVE  k + 1 \in T
  <2>1. PICK f : Folds(given, base, seq, 1..k, f)
    BY <1>2
  <2> DEFINE g == [s \in SUBSET (1..(k + 1)) |-> Step(given, base, seq, f, s)]
  <2>2. \A s \in SUBSET (1..k) : g[s] = f[s]
    <3>1. SUBSET (1..k) \subseteq SUBSET (1..(k + 1))
      OBVIOUS
    <3>2. \A s \in SUBSET (1..k) : f[s] = Step(given, base, seq, f, s)
      BY <2>1 DEF Folds
    <3> QED
      BY <3>1, <3>2
  <2>3. \A s \in SUBSET (1..(k + 1)) :
          Step(given, base, seq, g, s) = Step(given, base, seq, f, s)
    <3> SUFFICES ASSUME NEW s \in SUBSET (1..(k + 1)), s # {}
                 PROVE  g[s \ {Max(s)}] = f[s \ {Max(s)}]
      BY DEF Step
    <3>1. Max(s) \in s /\ \A y \in s : y =< Max(s)
      <4>1. k + 1 \in Nat /\ s \in SUBSET (0..(k + 1))
        OBVIOUS
      <4> HIDE DEF g
      <4> QED
        BY <4>1, MaxOfBounded
    <3>2. s \ {Max(s)} \in SUBSET (1..k)
      <4> DEFINE top == Max(s)
      <4>1. top \in 1..(k + 1) /\ \A y \in s : y \in 1..(k + 1) /\ y =< top
        BY <3>1
      <4> HIDE DEF top
      <4>2. \A y \in s \ {top} : y \in 1..k
        BY <4>1
      <4> QED
        BY <4>2 DEF top
    <3> HIDE DEF g
    <3> QED
      BY <2>2, <3>2
  <2>4. Folds(given, base, seq, 1..(k + 1), g)
    BY <2>3 DEF Folds
  <2> QED
    BY <2>4
<1> HIDE DEF T
<1>3. n \in T
  BY <1>1, <1>2, FirstOutside
<1> QED
  BY <1>3 DEF T

\* f holds the values of a fold, from before the first element to after the last.
Follows(given, base, seq, n, f) ==
  /\ f[0] = base
  /\ \A k \in 1..n : f[k] = Op(given, f[k - 1], seq[k])

IsChain(given, base, seq, n, f) ==
  Follows(given, base, seq, n, f) /\ Fold(given, base, seq) = f[n]

\* FoldLeft goes through the elements one by one.
THEOREM FoldIsChain ==
  ASSUME NEW given, NEW base, NEW seq, NEW n \in Nat, DOMAIN seq = 1..n
  PROVE  \E f : IsChain(given, base, seq, n, f)
<1> DEFINE iter == CHOOSE f : Folds(given, base, seq, 1..n, f)
           chain == [k \in 0..n |-> iter[1..k]]
<1>1. Folds(given, base, seq, 1..n, iter)
  BY FoldExists
<1>2. Fold(given, base, seq) = iter[1..n]
  BY DEF Fold, MapThenFoldSet, Folds, Step
<1> HIDE DEF iter
<1>3. \A s \in SUBSET (1..n) : iter[s] = Step(given, base, seq, iter, s)
  BY <1>1 DEF Folds
<1>4. chain[0] = base
  <2>1. 1..0 = {} /\ {} \in SUBSET (1..n)
    OBVIOUS
  <2>2. iter[{}] = base
    BY <1>3, <2>1 DEF Step
  <2> QED
    BY <2>1, <2>2
<1>5. ASSUME NEW k \in 1..n
      PROVE  chain[k] = Op(given, chain[k - 1], seq[k])
  <2>1. 1..k \in SUBSET (1..n) /\ 1..k # {} /\ k \in Nat \ {0}
    OBVIOUS
  <2>2. iter[1..k] = Op(given, iter[(1..k) \ {Max(1..k)}], seq[Max(1..k)])
    BY <1>3, <2>1 DEF Step
  <2>3. Max(1..k) = k /\ (1..k) \ {k} = 1..(k - 1)
    BY <2>1, MaxOfPrefix
  <2>4. iter[1..k] = Op(given, iter[1..(k - 1)], seq[k])
    BY <2>2, <2>3
  <2>5. chain[k] = iter[1..k] /\ chain[k - 1] = iter[1..(k - 1)]
    OBVIOUS
  <2> QED
    BY <2>4, <2>5
<1>6. Fold(given, base, seq) = chain[n]
  BY <1>2
<1> HIDE DEF chain
<1> QED
  BY <1>4, <1>5, <1>6 DEF IsChain, Follows

\* A fold is known by a function that follows it.
THEOREM FoldIs ==
  ASSUME NEW given, NEW base, NEW seq, NEW n \in Nat, DOMAIN seq = 1..n,
         NEW f, Follows(given, base, seq, n, f)
  PROVE  Fold(given, base, seq) = f[n]
<1>0. PICK chain : IsChain(given, base, seq, n, chain)
  BY FoldIsChain
<1>1. /\ chain[0] = base /\ f[0] = base
      /\ \A k \in 1..n : chain[k] = Op(given, chain[k - 1], seq[k])
      /\ \A k \in 1..n : f[k] = Op(given, f[k - 1], seq[k])
      /\ Fold(given, base, seq) = chain[n]
  BY <1>0 DEF IsChain, Follows
<1> DEFINE T == {k \in 0..n : chain[k] = f[k]}
<1>2. 0 \in T
  BY <1>1
<1>3. ASSUME NEW k \in Nat, k < n, k \in T
      PROVE  k + 1 \in T
  <2>1. k + 1 \in 1..n /\ (k + 1) - 1 = k /\ k + 1 \in 0..n
    BY <1>3
  <2>2. chain[k] = f[k]
    BY <1>3
  <2>3. chain[k + 1] = Op(given, chain[k], seq[k + 1])
    BY <1>1, <2>1
  <2>4. f[k + 1] = Op(given, f[k], seq[k + 1])
    BY <1>1, <2>1
  <2> QED
    BY <2>1, <2>2, <2>3, <2>4
<1> HIDE DEF T
<1>4. n \in T
  BY <1>2, <1>3, FirstOutside
<1> QED
  BY <1>1, <1>4 DEF T

\* Each element preserves the property.
Preserves(given, seq, n) ==
  \A k \in 1..n : \A value :
    Inv(given, k - 1, value) => Inv(given, k, Op(given, value, seq[k]))

\* What holds before the first element, and what each element preserves, holds of
\* every value on the way.
THEOREM ChainKeeps ==
  ASSUME NEW given, NEW base, NEW seq, NEW n \in Nat, NEW f,
         Follows(given, base, seq, n, f),
         Inv(given, 0, base), Preserves(given, seq, n)
  PROVE  \A k \in 0..n : Inv(given, k, f[k])
<1>1. /\ f[0] = base
      /\ \A k \in 1..n : f[k] = Op(given, f[k - 1], seq[k])
  BY DEF Follows
<1> SUFFICES ASSUME NEW m \in 0..n
             PROVE  Inv(given, m, f[m])
  OBVIOUS
<1> DEFINE T == {k \in 0..m : Inv(given, k, f[k])}
<1>2. 0 \in T
  BY <1>1
<1>3. ASSUME NEW k \in Nat, k < m, k \in T
      PROVE  k + 1 \in T
  <2>1. k + 1 \in 1..n /\ (k + 1) - 1 = k /\ k + 1 \in 0..m
    BY <1>3
  <2>2. Inv(given, k, f[k])
    BY <1>3
  <2>3. f[k + 1] = Op(given, f[k], seq[k + 1])
    BY <1>1, <2>1
  <2>4. Inv(given, k + 1, Op(given, f[k], seq[k + 1]))
    BY <2>1, <2>2 DEF Preserves
  <2> QED
    BY <2>1, <2>3, <2>4
<1> HIDE DEF T
<1>4. m \in Nat /\ m \in T
  BY <1>2, <1>3, FirstOutside
<1> QED
  BY <1>4 DEF T

\* What each element preserves holds of the result.
THEOREM FoldKeeps ==
  ASSUME NEW given, NEW base, NEW seq, NEW n \in Nat, DOMAIN seq = 1..n,
         Inv(given, 0, base), Preserves(given, seq, n)
  PROVE  Inv(given, n, Fold(given, base, seq))
<1>1. PICK f : Follows(given, base, seq, n, f) /\ Fold(given, base, seq) = f[n]
  BY FoldIsChain DEF IsChain
<1>2. \A k \in 0..n : Inv(given, k, f[k])
  BY <1>1, ChainKeeps
<1> QED
  BY <1>1, <1>2


\* A fold over two sequences, one after the other, is a fold over the second that
\* begins with what the first makes.
THEOREM FoldJoined ==
  ASSUME NEW given, NEW base, NEW front, NEW back, NEW joined, NEW m \in Nat, NEW n \in Nat,
         DOMAIN front = 1..m, DOMAIN back = 1..n, DOMAIN joined = 1..(m + n),
         \A k \in 1..m : joined[k] = front[k],
         \A k \in 1..n : joined[m + k] = back[k]
  PROVE  Fold(given, base, joined) = Fold(given, Fold(given, base, front), back)
<1>1. PICK f : Follows(given, base, front, m, f) /\ Fold(given, base, front) = f[m]
  BY FoldIsChain DEF IsChain
<1>2. PICK g : Follows(given, f[m], back, n, g) /\ Fold(given, f[m], back) = g[n]
  BY FoldIsChain DEF IsChain
<1> DEFINE h == [k \in 0..(m + n) |-> IF k =< m THEN f[k] ELSE g[k - m]]
<1>3. /\ f[0] = base /\ g[0] = f[m]
      /\ \A k \in 1..m : f[k] = Op(given, f[k - 1], front[k])
      /\ \A k \in 1..n : g[k] = Op(given, g[k - 1], back[k])
  BY <1>1, <1>2 DEF Follows
<1>4. h[0] = base
  BY <1>3
<1>5. ASSUME NEW k \in 1..(m + n)
      PROVE  h[k] = Op(given, h[k - 1], joined[k])
  <2>1. CASE k =< m
    <3>1. k \in 1..m /\ k - 1 \in 0..(m + n) /\ k - 1 =< m /\ k \in 0..(m + n)
      BY <2>1
    <3>2. h[k] = f[k] /\ h[k - 1] = f[k - 1]
      BY <3>1, <2>1
    <3> QED
      BY <3>1, <3>2, <1>3
  <2>2. CASE k > m
    <3> DEFINE j == k - m
    <3>1. j \in 1..n /\ m + j = k /\ k - 1 \in 0..(m + n) /\ k \in 0..(m + n)
      BY <2>2
    <3>2. h[k] = g[j]
      BY <3>1, <2>2
    <3>3. h[k - 1] = g[j - 1]
      <4>1. CASE k - 1 =< m
        <5>1. k - 1 = m /\ j - 1 = 0
          BY <4>1, <2>2
        <5> QED
          BY <5>1, <3>1, <1>3
      <4>2. CASE ~(k - 1 =< m)
        BY <4>2, <3>1
      <4> QED
        BY <4>1, <4>2
    <3>4. joined[k] = back[j]
      BY <3>1
    <3> HIDE DEF h, j
    <3> QED
      BY <1>3, <3>1, <3>2, <3>3, <3>4
  <2> QED
    BY <2>1, <2>2
<1>6. h[m + n] = g[n]
  BY <1>3
<1> HIDE DEF h
<1>7. m + n \in Nat /\ Follows(given, base, joined, m + n, h)
  BY <1>4, <1>5 DEF Follows
<1>8. Fold(given, base, joined) = h[m + n]
  BY <1>7, FoldIs
<1> QED
  BY <1>1, <1>2, <1>6, <1>8

\* A fold over nothing, and over one element.
THEOREM FoldOfFew ==
  ASSUME NEW given, NEW base
  PROVE  /\ \A seq : DOMAIN seq = 1..0 => Fold(given, base, seq) = base
         /\ \A seq : DOMAIN seq = 1..1 => Fold(given, base, seq) = Op(given, base, seq[1])
<1>1. ASSUME NEW seq, DOMAIN seq = 1..0
      PROVE  Fold(given, base, seq) = base
  BY <1>1, FoldIsChain, 0 \in Nat DEF IsChain, Follows
<1>2. ASSUME NEW seq, DOMAIN seq = 1..1
      PROVE  Fold(given, base, seq) = Op(given, base, seq[1])
  <2>1. PICK f : Follows(given, base, seq, 1, f) /\ Fold(given, base, seq) = f[1]
    BY <1>2, FoldIsChain DEF IsChain
  <2>2. f[0] = base /\ f[1] = Op(given, f[0], seq[1])
    BY <2>1 DEF Follows
  <2> QED
    BY <2>1, <2>2
<1> QED
  BY <1>1, <1>2

==============================================================================
