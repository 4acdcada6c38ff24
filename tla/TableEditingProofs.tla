-------------------------- MODULE TableEditingProofs --------------------------
(***************************************************************************)
(* What the text tools and the rich text editor do to the tables of a      *)
(* page, for tables of any number of rows and columns, cells of any width, *)
(* last cells that span any number of columns.  Each loop of the code is a *)
(* fold, and what its body preserves holds of its result (Folding).        *)
(*                                                                         *)
(* The rows of a formatted table are equally long.  The argument goes from *)
(* the widths of the columns, which hold every cell once the excess of the *)
(* last cells is spread out, to the length of a padded row, to the row     *)
(* whose "!" moves in front of its bar, to the tables of a text.           *)
(*                                                                         *)
(* The tables are the same afterwards.  What a cell holds is told by the   *)
(* places of its characters, which move when it is trimmed and padded, and *)
(* when the mark of its row is put before it and taken from it again.      *)
(*                                                                         *)
(* A formatted text does not change again: its rows split into the columns *)
(* they were made of.                                                      *)
(*                                                                         *)
(* The rows of a table on the screen stay equally wide, whatever button of *)
(* the editor is used, keep their texts, and are read and written as rows. *)
(*                                                                         *)
(* A spreadsheet loses nothing on its way to wiki text, and gives back the *)
(* tables that were put into it.                                           *)
(***************************************************************************)
EXTENDS TableEditing, SequenceTheorems, TLAPS

-----------------------------------------------------------------------------
(* Totals *)

Sum(given, total, element) == total + element
IsInt(given, k, total) == total \in Int
IsNat(given, k, total) == total \in Nat

S == INSTANCE Folding WITH Op <- Sum, Inv <- IsInt
N == INSTANCE Folding WITH Op <- Sum, Inv <- IsNat

LEMMA MaxOf ==
  ASSUME NEW m \in Nat, NEW s \in SUBSET (0..m), s # {}
  PROVE  Max(s) \in s /\ \A y \in s : y =< Max(s)
BY S!MaxOfBounded DEF Max, S!Max

LEMMA MinOf ==
  ASSUME NEW s \in SUBSET Nat, s # {}
  PROVE  Min(s) \in s /\ \A y \in s : Min(s) =< y
BY S!MinOfNaturals DEF Min, S!Min

LEMMA FunctionIsSeq ==
  ASSUME NEW n \in Nat, NEW T, NEW f \in [1..n -> T]
  PROVE  f \in Seq(T) /\ Len(f) = n
OBVIOUS

LEMMA SeqIsFunction ==
  ASSUME NEW T, NEW s \in Seq(T)
  PROVE  Len(s) \in Nat /\ DOMAIN s = 1..Len(s) /\ s \in [1..Len(s) -> T]
OBVIOUS

LEMMA Difference == \A a, b \in Int : a - b \in Int
  OBVIOUS

\* Two sequences, one after the other.
LEMMA Concatenated ==
  ASSUME NEW T, NEW s \in Seq(T), NEW t \in Seq(T)
  PROVE  /\ s \o t \in Seq(T) /\ Len(s \o t) = Len(s) + Len(t)
         /\ \A i \in 1..Len(s) : (s \o t)[i] = s[i]
         /\ \A i \in 1..Len(t) : (s \o t)[Len(s) + i] = t[i]
  OBVIOUS

\* A sequence is empty when it has no elements; its length gives its domain.
LEMMA Emptiness ==
  ASSUME NEW T, NEW s \in Seq(T)
  PROVE  /\ Len(s) \in Nat /\ DOMAIN s = 1..Len(s)
         /\ s = <<>> <=> Len(s) = 0
  OBVIOUS

LEMMA TotalIsFold ==
  ASSUME NEW widths
  PROVE  Total(widths) = S!Fold(0, 0, widths)
BY Zenon DEF Total, S!Fold, Sum, FoldLeft, MapThenFoldSet,
             S!MapThenFoldSet, Max, S!Max

LEMMA TotalNat ==
  ASSUME NEW n \in Nat, NEW widths \in [1..n -> Nat]
  PROVE  Total(widths) \in Nat
<1>1. IsNat(0, 0, 0)  BY DEF IsNat
<1>2. N!Preserves(0, widths, n)  BY DEF N!Preserves, Sum, IsNat
<1>3. IsNat(0, n, N!Fold(0, 0, widths))  BY <1>1, <1>2, N!FoldKeeps
<1>4. Total(widths) = N!Fold(0, 0, widths)
  BY Zenon DEF Total, N!Fold, Sum, FoldLeft, MapThenFoldSet,
               N!MapThenFoldSet, Max, N!Max
<1> QED BY <1>3, <1>4 DEF IsNat

\* f[k] is the total of the first k widths.
Totals(widths, n, f) ==
  f \in [0..n -> Int] /\ f[0] = 0 /\ \A k \in 1..n : f[k] = f[k - 1] + widths[k]

LEMMA TotalIs ==
  ASSUME NEW n \in Nat, NEW widths, DOMAIN widths = 1..n,
         NEW f, Totals(widths, n, f)
  PROVE  Total(widths) = f[n]
<1>1. S!Follows(0, 0, widths, n, f)  BY DEF S!Follows, Sum, Totals
<1>2. S!Fold(0, 0, widths) = f[n]  BY <1>1, S!FoldIs
<1> QED BY <1>2, TotalIsFold, Zenon

LEMMA TotalsExist ==
  ASSUME NEW n \in Nat, NEW widths \in [1..n -> Int]
  PROVE  \E f : Totals(widths, n, f)
<1>1. PICK f : S!IsChain(0, 0, widths, n, f)  BY S!FoldIsChain
<1>2. S!Follows(0, 0, widths, n, f)  BY <1>1 DEF S!IsChain
<1>3. IsInt(0, 0, 0)  BY DEF IsInt
<1>4. S!Preserves(0, widths, n)  BY DEF S!Preserves, Sum, IsInt
<1>5. \A k \in 0..n : f[k] \in Int  BY <1>2, <1>3, <1>4, S!ChainKeeps DEF IsInt
<1>6. f[0] = 0 /\ \A k \in 1..n : f[k] = f[k - 1] + widths[k]
  BY <1>2 DEF S!Follows, Sum
<1> DEFINE g == [k \in 0..n |-> f[k]]
<1>7. Totals(widths, n, g)  BY <1>5, <1>6 DEF Totals
<1> QED BY <1>7, Zenon

\* The total of the widths after the first r.
LEMMA TailTotal ==
  ASSUME NEW widths \in Seq(Int), NEW f, Totals(widths, Len(widths), f),
         NEW r \in 0..Len(widths)
  PROVE  Total(SubSeq(widths, r + 1, Len(widths))) = f[Len(widths)] - f[r]
<1> DEFINE n == Len(widths)
           rest == SubSeq(widths, r + 1, n)
           g == [k \in 0..(n - r) |-> f[r + k] - f[r]]
<1>1. n \in Nat /\ n - r \in Nat /\ r \in 0..n  OBVIOUS
<1>2. DOMAIN rest = 1..(n - r) /\ \A k \in 1..(n - r) : rest[k] = widths[r + k]
  OBVIOUS
<1>3. /\ f \in [0..n -> Int] /\ f[0] = 0
      /\ \A k \in 1..n : f[k] = f[k - 1] + widths[k] /\ widths[k] \in Int
  BY DEF Totals
<1> HIDE DEF n, rest
<1>4. \A k \in 0..(n - r) : r + k \in 0..n  BY <1>1
<1>5. g[0] = 0 /\ g \in [0..(n - r) -> Int]  BY <1>1, <1>3, <1>4
<1>6. ASSUME NEW k \in 1..(n - r)
      PROVE  g[k] = g[k - 1] + rest[k]
  <2>1. r + k \in 1..n /\ (r + k) - 1 = r + (k - 1) /\ k \in 0..(n - r) /\ k - 1 \in 0..(n - r)
    BY <1>1
  <2>2. f[r + k] = f[r + (k - 1)] + rest[k] /\ rest[k] \in Int
    BY <1>2, <1>3, <2>1
  <2>3. f[r + k] \in Int /\ f[r + (k - 1)] \in Int /\ f[r] \in Int
    BY <1>1, <1>3, <1>4, <2>1
  <2> QED BY <2>1, <2>2, <2>3
<1>7. Totals(rest, n - r, g)  BY <1>5, <1>6 DEF Totals
<1> HIDE DEF g
<1>8. Total(rest) = g[n - r]  BY <1>1, <1>2, <1>7, TotalIs
<1> QED BY <1>1, <1>8 DEF g, rest, n

\* A last cell is at least as wide over wider columns.
LEMMA WidthOfLastGrows ==
  ASSUME NEW v \in Seq(Nat), NEW w \in Seq(Nat), Len(w) = Len(v),
         \A c \in 1..Len(v) : v[c] =< w[c],
         NEW m \in 1..Len(v)
  PROVE  /\ WidthOfLast(v, m) \in Int /\ WidthOfLast(w, m) \in Int
         /\ WidthOfLast(v, m) =< WidthOfLast(w, m)
<1> DEFINE n == Len(v)
           d == [c \in 1..n |-> w[c] - v[c]]
           r == n - m
<1>1. n \in Nat /\ r \in 0..n /\ m \in Nat /\ r + 1 = n - m + 1 /\ Len(w) = n
  OBVIOUS
<1>2. v \in [1..n -> Int] /\ w \in [1..n -> Int] /\ d \in [1..n -> Nat]
  <2>1. \A c \in 1..n : v[c] \in Nat /\ w[c] \in Nat /\ v[c] =< w[c]  BY <1>1
  <2>2. v \in [1..n -> Nat] /\ w \in [1..n -> Nat]
    <3>1. v \in [1..Len(v) -> Nat] /\ w \in [1..Len(w) -> Nat]  BY SeqIsFunction
    <3> QED BY <1>1, <3>1
  <2> HIDE DEF n
  <2>3. \A c \in 1..n : w[c] - v[c] \in Nat  BY <2>1
  <2>4. d \in [1..n -> Nat]  BY <2>3
  <2>5. v \in [1..n -> Int] /\ w \in [1..n -> Int]  BY <2>1, <2>2
  <2> QED BY <2>4, <2>5
<1>3. v \in Seq(Int) /\ w \in Seq(Int) /\ d \in Seq(Nat) /\ d \in Seq(Int) /\ Len(d) = n
  <2>1. v \in Seq(Int) /\ w \in Seq(Int)  OBVIOUS
  <2> HIDE DEF d, n
  <2>2. d \in Seq(Nat) /\ Len(d) = n  BY <1>1, <1>2, FunctionIsSeq
  <2> QED BY <2>1, <2>2
<1>4. PICK f : Totals(v, n, f)  BY <1>1, <1>2, TotalsExist
<1>5. PICK g : Totals(w, n, g)  BY <1>1, <1>2, TotalsExist
<1> DEFINE h == [k \in 0..n |-> g[k] - f[k]]
<1>6. Totals(d, n, h)
  <2>1. f \in [0..n -> Int] /\ g \in [0..n -> Int] /\ f[0] = 0 /\ g[0] = 0
    BY <1>4, <1>5 DEF Totals
  <2>2. \A k \in 1..n : f[k] = f[k - 1] + v[k] /\ g[k] = g[k - 1] + w[k]
    BY <1>4, <1>5 DEF Totals
  <2>3. h \in [0..n -> Int] /\ h[0] = 0  BY <1>1, <2>1
  <2>4. ASSUME NEW k \in 1..n
        PROVE  h[k] = h[k - 1] + d[k]
    <3>1. k \in 0..n /\ k - 1 \in 0..n /\ v[k] \in Int /\ w[k] \in Int
      BY <1>1, <1>2
    <3>2. f[k] = f[k - 1] + v[k] /\ g[k] = g[k - 1] + w[k] /\ d[k] = w[k] - v[k]
      BY <2>2
    <3>3. h[k] = g[k] - f[k] /\ h[k - 1] = g[k - 1] - f[k - 1]  BY <3>1
    <3> HIDE DEF n, h, d
    <3>4. f[k - 1] \in Int /\ g[k - 1] \in Int  BY <2>1, <3>1
    <3> DEFINE a == f[k - 1]
               b == g[k - 1]
               x == v[k]
               y == w[k]
    <3>5. a \in Int /\ b \in Int /\ x \in Int /\ y \in Int  BY <3>1, <3>4
    <3>6. h[k] = (b + y) - (a + x) /\ h[k - 1] = b - a /\ d[k] = y - x
      BY <3>2, <3>3
    <3> HIDE DEF a, b, x, y
    <3>7. (b + y) - (a + x) = (b - a) + (y - x)  BY <3>5
    <3> QED BY <3>6, <3>7
  <2> HIDE DEF d, h
  <2> QED BY <2>3, <2>4 DEF Totals
<1> HIDE DEF d, n, r, h
<1>7. Total(SubSeq(v, r + 1, n)) = f[n] - f[r]
  BY <1>1, <1>3, <1>4, TailTotal DEF n
<1>8. Total(SubSeq(w, r + 1, n)) = g[n] - g[r]  BY <1>1, <1>3, <1>5, TailTotal
<1>9. Total(SubSeq(d, r + 1, n)) = h[n] - h[r]  BY <1>1, <1>3, <1>6, TailTotal
<1>10. Total(SubSeq(d, r + 1, n)) \in Nat
  <2>0. n - r = m  BY <1>1 DEF r
  <2>1. SubSeq(d, r + 1, n) \in [1..(n - r) -> Nat]
    <3>1. r + 1 \in 1..(n + 1) /\ d \in Seq(Nat) /\ Len(d) = n  BY <1>1, <1>3
    <3>2. SubSeq(d, r + 1, n) \in Seq(Nat) /\ Len(SubSeq(d, r + 1, n)) = n - r
      BY <1>1, <3>1
    <3> QED BY <3>2, SeqIsFunction
  <2> QED BY <1>1, <2>0, <2>1, TotalNat
<1>11. f[n] \in Int /\ f[r] \in Int /\ g[n] \in Int /\ g[r] \in Int
  BY <1>1, <1>4, <1>5 DEF Totals
<1>12. h[n] = g[n] - f[n] /\ h[r] = g[r] - f[r]  BY <1>1 DEF h
<1>13. /\ WidthOfLast(v, m) = f[n] - f[r] + m - 1
       /\ WidthOfLast(w, m) = g[n] - g[r] + m - 1
  BY <1>1, <1>7, <1>8 DEF WidthOfLast, n
<1>14. (g[n] - f[n]) - (g[r] - f[r]) \in Nat  BY <1>9, <1>10, <1>12
<1>15. f[n] - f[r] =< g[n] - g[r]
  <2> DEFINE a == f[n]
             b == f[r]
             c == g[n]
             e == g[r]
  <2>1. a \in Int /\ b \in Int /\ c \in Int /\ e \in Int /\ (c - a) - (e - b) \in Nat
    BY <1>11, <1>14
  <2> HIDE DEF a, b, c, e
  <2>2. a - b =< c - e  BY <2>1
  <2> QED BY <2>2 DEF a, b, c, e
<1> DEFINE a == f[n] - f[r]
           b == g[n] - g[r]
<1>16. a \in Int /\ b \in Int /\ a =< b  BY <1>11, <1>15, Difference, Zenon
<1>17. WidthOfLast(v, m) = a + m - 1 /\ WidthOfLast(w, m) = b + m - 1  BY <1>13
<1> HIDE DEF a, b
<1> QED BY <1>1, <1>16, <1>17

-----------------------------------------------------------------------------
(* The widths of the columns *)

LEMMA Division ==
  ASSUME NEW e \in Nat, NEW n \in Nat \ {0}
  PROVE  e \div n \in Nat /\ e % n \in Nat /\ e % n < n /\ e = n * (e \div n) + (e % n)
<1>1. e \div n \in Nat /\ e % n \in Nat  OBVIOUS
<1>2. e % n < n  OBVIOUS
<1>3. e = n * (e \div n) + (e % n)  OBVIOUS
<1> QED BY <1>1, <1>2, <1>3

\* What is spread out over the last n columns is what they have more.
LEMMA SpreadOut ==
  ASSUME NEW widths \in Seq(Nat), NEW excess \in Nat, NEW n \in 1..Len(widths)
  PROVE  /\ SpreadOutExcess(widths, excess, n) \in Seq(Nat)
         /\ Len(SpreadOutExcess(widths, excess, n)) = Len(widths)
         /\ \A c \in 1..Len(widths) : widths[c] =< SpreadOutExcess(widths, excess, n)[c]
         /\ WidthOfLast(widths, n) \in Int
         /\ WidthOfLast(SpreadOutExcess(widths, excess, n), n) = WidthOfLast(widths, n) + excess
<1> DEFINE m == Len(widths)
           rest == m - n
           q == excess \div n
           r == excess % n
           more == [k \in 1..n |-> widths[rest + k] + q + (IF k =< r THEN 1 ELSE 0)]
           wider == SubSeq(widths, 1, rest) \o more
<1>1. /\ m \in Nat /\ rest \in 0..m /\ n \in Nat \ {0} /\ m = rest + n
      /\ q \in Nat /\ r \in Nat /\ r < n /\ excess = n * q + r
  <2>1. m \in Nat /\ rest \in 0..m /\ n \in Nat \ {0} /\ m = rest + n  OBVIOUS
  <2> QED BY <2>1, Division
<1>2. SpreadOutExcess(widths, excess, n) = wider  BY DEF SpreadOutExcess
<1>3. widths \in Seq(Int) /\ Len(widths) = m /\ \A c \in 1..m : widths[c] \in Nat
  OBVIOUS
<1> HIDE DEF m, rest, q, r
<1>4. more \in [1..n -> Nat]
  <2> SUFFICES ASSUME NEW k \in 1..n
               PROVE  widths[rest + k] + q + (IF k =< r THEN 1 ELSE 0) \in Nat
    OBVIOUS
  <2>1. rest + k \in 1..m  BY <1>1
  <2> QED BY <1>1, <1>3, <2>1
<1>5. /\ wider \in Seq(Nat) /\ Len(wider) = m
      /\ \A c \in 1..rest : wider[c] = widths[c]
      /\ \A k \in 1..n : wider[rest + k] = widths[rest + k] + q + (IF k =< r THEN 1 ELSE 0)
  <2>1. more \in Seq(Nat) /\ Len(more) = n  BY <1>1, <1>4, FunctionIsSeq
  <2>2. /\ SubSeq(widths, 1, rest) \in Seq(Nat) /\ Len(SubSeq(widths, 1, rest)) = rest
        /\ \A c \in 1..rest : SubSeq(widths, 1, rest)[c] = widths[c]
    BY <1>1, <1>3
  <2>3. \A k \in 1..n : more[k] = widths[rest + k] + q + (IF k =< r THEN 1 ELSE 0)
    OBVIOUS
  <2> DEFINE front == SubSeq(widths, 1, rest)
  <2>a. wider = front \o more /\ front \in Seq(Nat) /\ more \in Seq(Nat)
    BY <2>1, <2>2
  <2>b. Len(front) = rest /\ Len(more) = n /\ \A c \in 1..rest : front[c] = widths[c]
    BY <2>1, <2>2
  <2> HIDE DEF more, wider, front
  <2>c. /\ wider \in Seq(Nat) /\ Len(wider) = Len(front) + Len(more)
        /\ \A c \in 1..Len(front) : wider[c] = front[c]
        /\ \A k \in 1..Len(more) : wider[Len(front) + k] = more[k]
    BY <2>a, Concatenated
  <2>4. wider \in Seq(Nat) /\ Len(wider) = m  BY <1>1, <2>b, <2>c
  <2>5. \A c \in 1..rest : wider[c] = widths[c]  BY <2>b, <2>c
  <2>6. \A k \in 1..n : wider[rest + k] = more[k]  BY <2>b, <2>c
  <2>7. \A k \in 1..n : wider[rest + k] = widths[rest + k] + q + (IF k =< r THEN 1 ELSE 0)
    BY <2>3, <2>6
  <2> QED BY <2>4, <2>5, <2>7
<1> HIDE DEF wider, more
<1>6. \A c \in 1..m : widths[c] =< wider[c]
  <2> SUFFICES ASSUME NEW c \in 1..m
               PROVE  widths[c] =< wider[c]
    OBVIOUS
  <2>1. CASE c =< rest  BY <1>1, <1>3, <1>5, <2>1
  <2>2. CASE c > rest
    <3>1. c - rest \in 1..n /\ rest + (c - rest) = c  BY <1>1, <2>2
    <3>2. wider[c] = widths[c] + q + (IF c - rest =< r THEN 1 ELSE 0)
      BY <1>5, <3>1
    <3> QED BY <1>1, <1>3, <3>2
  <2> QED BY <1>1, <2>1, <2>2
<1>7. PICK f : Totals(widths, m, f)  BY <1>1, <1>3, SeqIsFunction, TotalsExist
<1>8. /\ f \in [0..m -> Int] /\ f[0] = 0
      /\ \A c \in 1..m : f[c] = f[c - 1] + widths[c]
  BY <1>7 DEF Totals
<1> DEFINE h == [k \in 0..n |-> q * k + (IF k =< r THEN k ELSE r)]
           g == [c \in 0..m |-> f[c] + (IF c =< rest THEN 0 ELSE h[c - rest])]
<1>9. /\ h[0] = 0 /\ h[n] = excess /\ h \in [0..n -> Int]
      /\ \A k \in 1..n : h[k] = h[k - 1] + q + (IF k =< r THEN 1 ELSE 0)
  <2>1. h[0] = 0 /\ h[n] = excess /\ h \in [0..n -> Int]  BY <1>1
  <2>2. ASSUME NEW k \in 1..n
        PROVE  h[k] = h[k - 1] + q + (IF k =< r THEN 1 ELSE 0)
    <3>1. q * k = q * (k - 1) + q /\ q * k \in Int /\ q * (k - 1) \in Int
      BY <1>1
    <3>2. /\ h[k] = q * k + (IF k =< r THEN k ELSE r)
          /\ h[k - 1] = q * (k - 1) + (IF k - 1 =< r THEN k - 1 ELSE r)
      BY <1>1
    <3> HIDE DEF h
    <3> DEFINE a == q * k
               b == q * (k - 1)
    <3> HIDE DEF a, b
    <3>3. a = b + q /\ a \in Int /\ b \in Int  BY <3>1 DEF a, b
    <3>4. /\ h[k] = a + (IF k =< r THEN k ELSE r)
          /\ h[k - 1] = b + (IF k - 1 =< r THEN k - 1 ELSE r)
      BY <3>2 DEF a, b
    <3> QED BY <1>1, <3>3, <3>4
  <2> QED BY <2>1, <2>2
<1> HIDE DEF h
<1>10. Totals(wider, m, g)
  <2>1. g \in [0..m -> Int] /\ g[0] = 0
    <3>1. ASSUME NEW c \in 0..m
          PROVE  f[c] + (IF c =< rest THEN 0 ELSE h[c - rest]) \in Int
      <4>1. f[c] \in Int  BY <1>8
      <4>2. c > rest => c - rest \in 0..n  BY <1>1
      <4>3. c > rest => h[c - rest] \in Int  BY <1>9, <4>2
      <4> QED BY <1>1, <4>1, <4>3
    <3>2. g \in [0..m -> Int]  BY <3>1
    <3>3. 0 \in 0..m /\ 0 =< rest  BY <1>1
    <3>4. g[0] = f[0] + 0  BY <3>3
    <3> QED BY <1>8, <3>2, <3>4
  <2>2. ASSUME NEW c \in 1..m
        PROVE  g[c] = g[c - 1] + wider[c]
    <3>1. c \in 0..m /\ c - 1 \in 0..m /\ f[c] = f[c - 1] + widths[c] /\ f[c - 1] \in Int /\ widths[c] \in Nat
      BY <1>1, <1>3, <1>8
    <3>2. CASE c =< rest
      <4>1. g[c] = f[c] + 0 /\ g[c - 1] = f[c - 1] + 0  BY <1>1, <3>1, <3>2
      <4>2. c \in 1..rest  BY <1>1, <3>2
      <4>3. wider[c] = widths[c]  BY <1>5, <4>2, Zenon
      <4>4. f[c] \in Int  BY <1>8, <3>1, Zenon
      <4> HIDE DEF g
      <4> QED BY <3>1, <4>1, <4>3, <4>4
    <3>3. CASE c > rest
      <4> DEFINE k == c - rest
      <4>1. k \in 1..n /\ rest + k = c /\ k - 1 = (c - 1) - rest /\ k - 1 \in 0..n
        BY <1>1, <3>3
      <4>2. wider[c] = widths[c] + q + (IF k =< r THEN 1 ELSE 0)  BY <1>5, <4>1
      <4>3. g[c] = f[c] + h[k]  BY <1>1, <3>1, <3>3
      <4>4. g[c - 1] = f[c - 1] + h[k - 1]
        <5>1. CASE c - 1 =< rest
          <6>1. c - 1 = rest /\ k - 1 = 0  BY <1>1, <3>3, <5>1
          <6>2. g[c - 1] = f[c - 1] + 0  BY <1>1, <3>1, <5>1
          <6> QED BY <1>9, <6>1, <6>2
        <5>2. CASE c - 1 > rest  BY <1>1, <3>1, <4>1, <5>2
        <5> QED BY <1>1, <5>1, <5>2
      <4> HIDE DEF k, g
      <4>5. h[k] = h[k - 1] + q + (IF k =< r THEN 1 ELSE 0) /\ h[k - 1] \in Int
        BY <1>9, <4>1
      <4> DEFINE one == IF k =< r THEN 1 ELSE 0
      <4>6. one \in Int  OBVIOUS
      <4> HIDE DEF one
      <4>7. wider[c] = widths[c] + q + one /\ h[k] = h[k - 1] + q + one
        BY <4>2, <4>5 DEF one
      <4> DEFINE a == f[c - 1]
                 b == h[k - 1]
                 w == widths[c]
      <4>8. /\ a \in Int /\ b \in Int /\ w \in Int /\ q \in Int
            /\ g[c] = (a + w) + (b + q + one) /\ g[c - 1] = a + b /\ wider[c] = w + q + one
        BY <1>1, <3>1, <4>3, <4>4, <4>5, <4>7
      <4> HIDE DEF a, b, w
      <4> QED BY <4>6, <4>8
    <3> QED BY <1>1, <3>2, <3>3
  <2> HIDE DEF g
  <2> QED BY <2>1, <2>2 DEF Totals
<1>11. g[m] = f[m] + excess /\ g[rest] = f[rest]
  <2>1. m - rest = n /\ m > rest /\ m \in 0..m  BY <1>1
  <2>2. g[m] = f[m] + h[n]
    <3>1. ~(m =< rest)  BY <1>1
    <3>2. g[m] = f[m] + h[m - rest]  BY <2>1, <3>1
    <3> QED BY <2>1, <3>2
  <2>3. g[rest] = f[rest] + 0 /\ f[rest] \in Int  BY <1>1, <1>8
  <2> HIDE DEF g
  <2> QED BY <1>9, <2>2, <2>3
<1> HIDE DEF g
<1>12. Total(SubSeq(widths, rest + 1, m)) = f[m] - f[rest]
  BY <1>1, <1>3, <1>7, TailTotal
<1>13. Total(SubSeq(wider, rest + 1, m)) = g[m] - g[rest]
  <2>1. wider \in Seq(Int) /\ Len(wider) = m  BY <1>5
  <2> QED BY <1>1, <1>10, <2>1, TailTotal
<1>14. /\ WidthOfLast(widths, n) = f[m] - f[rest] + n - 1
       /\ WidthOfLast(wider, n) = g[m] - g[rest] + n - 1
  BY <1>3, <1>5, <1>12, <1>13 DEF WidthOfLast, rest
<1>15. f[m] \in Int /\ f[rest] \in Int  BY <1>1, <1>8
<1>16. WidthOfLast(widths, n) \in Int /\ WidthOfLast(wider, n) = WidthOfLast(widths, n) + excess
  BY <1>1, <1>11, <1>14, <1>15
<1> QED BY <1>2, <1>5, <1>6, <1>16 DEF m

\* What is taken from some of the first n numbers is bounded.
LEMMA ImageBounded ==
  ASSUME NEW n \in Nat, NEW I \in SUBSET (1..n), NEW f \in [I -> Nat]
  PROVE  \E m \in Nat : \A i \in I : f[i] \in 0..m
<1> DEFINE g == [i \in 1..n |-> IF i \in I THEN f[i] ELSE 0]
<1>1. g \in [1..n -> Nat]  OBVIOUS
<1>2. \A i \in I : g[i] = f[i] /\ i \in 1..n  OBVIOUS
<1> HIDE DEF g
<1>3. PICK m \in Nat : \A i \in 1..n : g[i] =< m  BY <1>1, S!Bounded
<1> QED BY <1>2, <1>3

LEMMA MaxOfImage ==
  ASSUME NEW n \in Nat, NEW I \in SUBSET (1..n), NEW f \in [I -> Nat], NEW s,
         s = {f[i] : i \in I}
  PROVE  /\ I # {} => Max(s) \in s /\ Max(s) \in Nat /\ \A i \in I : f[i] =< Max(s)
         /\ Max({0} \cup s) \in Nat /\ \A i \in I : f[i] =< Max({0} \cup s)
<1>1. PICK m \in Nat : \A i \in I : f[i] \in 0..m  BY ImageBounded
<1>2. s \in SUBSET (0..m) /\ {0} \cup s \in SUBSET (0..m) /\ {0} \cup s # {}
  BY <1>1
<1>3. ASSUME I # {}
      PROVE  Max(s) \in s /\ Max(s) \in Nat /\ \A i \in I : f[i] =< Max(s)
  <2>1. s # {}  BY <1>3
  <2>2. Max(s) \in s /\ \A y \in s : y =< Max(s)  BY <1>2, <2>1, MaxOf
  <2> QED BY <1>2, <2>2
<1>4. Max({0} \cup s) \in {0} \cup s /\ \A y \in {0} \cup s : y =< Max({0} \cup s)
  BY <1>2, MaxOf
<1>5. Max({0} \cup s) \in Nat  BY <1>2, <1>4
<1>6. \A i \in I : f[i] \in {0} \cup s  OBVIOUS
<1> QED BY <1>3, <1>4, <1>5, <1>6

LEMMA ComputedIs ==
  ASSUME NEW T, NEW s \in Seq(T)
  PROVE  Computed(s) = s
BY ConcatEmptySeq DEF Computed

LEMMA ColumnsOfTable ==
  ASSUME NEW table \in Seq(Seq(CellText)), table # <<>>
  PROVE  /\ NumberOfColumns(table) \in Nat
         /\ \A i \in DOMAIN table : Len(table[i]) =< NumberOfColumns(table)
         /\ \E i \in DOMAIN table : Len(table[i]) = NumberOfColumns(table)
<1> DEFINE I == 1..Len(table)
           f == [i \in I |-> Len(table[i])]
           s == {f[i] : i \in I}
<1>1. Len(table) \in Nat /\ I \in SUBSET (1..Len(table)) /\ I # {} /\ DOMAIN table = I
  <2>1. Len(table) \in Nat /\ Len(table) # 0 /\ DOMAIN table = 1..Len(table)
    OBVIOUS
  <2>2. 1 \in I  BY <2>1
  <2> QED BY <2>1, <2>2
<1>2. f \in [I -> Nat] /\ \A i \in I : f[i] = Len(table[i])  OBVIOUS
<1> HIDE DEF I, f
<1>3. NumberOfColumns(table) = Max(s)
  <2>1. s = {Len(table[i]) : i \in DOMAIN table}  BY <1>1, <1>2
  <2> QED BY <2>1 DEF NumberOfColumns
<1>4. Max(s) \in s /\ Max(s) \in Nat /\ \A i \in I : f[i] =< Max(s)
  BY <1>1, <1>2, MaxOfImage
<1> QED BY <1>1, <1>2, <1>3, <1>4

\* A column is as wide as its widest cell, except a last cell that spans more.
LEMMA WidthsOfColumns ==
  ASSUME NEW table \in Seq(Seq(CellText)), table # <<>>
  PROVE  /\ MaxWidths(table) \in [1..NumberOfColumns(table) -> Nat]
         /\ \A c \in 1..NumberOfColumns(table) : \A i \in RowsWith(table, c) :
              Len(table[i][c]) =< MaxWidths(table)[c]
<1> DEFINE n == NumberOfColumns(table)
           W == [c \in 1..n |-> Max({Len(table[i][c]) : i \in RowsWith(table, c)})]
<1>1. /\ n \in Nat
      /\ \A i \in DOMAIN table : Len(table[i]) =< n /\ Len(table[i]) \in Nat
      /\ \E i \in DOMAIN table : Len(table[i]) = n
  BY ColumnsOfTable
<1>2. ASSUME NEW c \in 1..n
      PROVE  W[c] \in Nat /\ \A i \in RowsWith(table, c) : Len(table[i][c]) =< W[c]
  <2> DEFINE I == RowsWith(table, c)
             f == [i \in I |-> Len(table[i][c])]
             s == {f[i] : i \in I}
  <2>1. I \in SUBSET (1..Len(table)) /\ Len(table) \in Nat  BY DEF RowsWith
  <2>2. I # {}  BY <1>1 DEF RowsWith, Spans
  <2>3. f \in [I -> Nat]
    <3> SUFFICES ASSUME NEW i \in I
                 PROVE  Len(table[i][c]) \in Nat
      OBVIOUS
    <3>1. i \in DOMAIN table /\ c =< Len(table[i])  BY <1>1 DEF RowsWith
    <3>2. table[i] \in Seq(CellText) /\ c \in 1..Len(table[i])  BY <1>1, <3>1
    <3>3. table[i][c] \in CellText  BY <3>2
    <3> QED BY <3>3 DEF CellText
  <2>4. W[c] = Max(s)  OBVIOUS
  <2>5. \A i \in I : f[i] = Len(table[i][c])  OBVIOUS
  <2> HIDE DEF f, W, I
  <2>6. Max(s) \in Nat /\ \A i \in I : f[i] =< Max(s)
    BY <2>1, <2>2, <2>3, MaxOfImage
  <2> QED BY <2>4, <2>5, <2>6 DEF I
<1>3. W \in [1..n -> Nat] /\ MaxWidths(table) = Computed(W)
  BY <1>2 DEF MaxWidths
<1> HIDE DEF W, n
<1>4. Computed(W) = W  BY <1>1, <1>3, FunctionIsSeq, ComputedIs
<1> QED BY <1>2, <1>3, <1>4 DEF n

LEMMA WidthsOfSpans ==
  ASSUME NEW table \in Seq(Seq(CellText)), table # <<>>,
         NEW n \in Nat, n < NumberOfColumns(table)
  PROVE  /\ ColspanWidth(table, n) \in Nat
         /\ \A i \in DOMAIN table :
              Len(table[i]) = NumberOfColumns(table) - n =>
                Len(Last(table[i])) =< ColspanWidth(table, n)
<1> DEFINE I == {k \in DOMAIN table : Len(table[k]) = NumberOfColumns(table) - n}
           f == [i \in I |-> Len(Last(table[i]))]
           s == {f[i] : i \in I}
<1>1. NumberOfColumns(table) \in Nat  BY ColumnsOfTable
<1>2. I \in SUBSET (1..Len(table)) /\ Len(table) \in Nat  OBVIOUS
<1>3. f \in [I -> Nat]
  <2> SUFFICES ASSUME NEW i \in I
               PROVE  Len(Last(table[i])) \in Nat
    OBVIOUS
  <2>1. table[i] \in Seq(CellText) /\ Len(table[i]) >= 1  BY <1>1
  <2>2. Last(table[i]) \in CellText  BY <2>1 DEF Last
  <2> QED BY <2>2 DEF CellText
<1>4. ColspanWidth(table, n) = Max({0} \cup s)  BY DEF ColspanWidth
<1>5. \A i \in I : f[i] = Len(Last(table[i]))  OBVIOUS
<1> HIDE DEF f
<1>6. Max({0} \cup s) \in Nat /\ \A i \in I : f[i] =< Max({0} \cup s)
  <2> HIDE DEF I
  <2> QED BY <1>2, <1>3, MaxOfImage
<1> QED BY <1>4, <1>5, <1>6

Adjust(table, widths, n) ==
  Adjusted(widths, ColspanWidth(table, n - 1) - WidthOfLast(widths, n), n)

\* The widths hold every cell, and the last cells that span at most k + 1 columns.
WidthsFit(table, k, widths) ==
  /\ widths \in [1..NumberOfColumns(table) -> Nat]
  /\ \A c \in 1..NumberOfColumns(table) : MaxWidths(table)[c] =< widths[c]
  /\ \A m \in 2..(k + 1) : ColspanWidth(table, m - 1) =< WidthOfLast(widths, m)

A == INSTANCE Folding WITH Op <- Adjust, Inv <- WidthsFit

LEMMA AdjustFits ==
  ASSUME NEW table \in Seq(Seq(CellText)), table # <<>>,
         NEW k \in 1..(NumberOfColumns(table) - 1), NEW widths,
         WidthsFit(table, k - 1, widths)
  PROVE  WidthsFit(table, k, Adjust(table, widths, k + 1))
<1> DEFINE n == NumberOfColumns(table)
           least == MaxWidths(table)
           m == k + 1
           excess == ColspanWidth(table, m - 1) - WidthOfLast(widths, m)
           new == Adjust(table, widths, m)
<1>1. n \in Nat /\ k \in Nat /\ m \in 1..n /\ m - 1 = k /\ k < n
  BY ColumnsOfTable
<1>2. /\ \A j \in 1..k : ColspanWidth(table, j) \in Nat
      /\ least \in [1..n -> Nat]
  BY <1>1, WidthsOfSpans, WidthsOfColumns
<1>3. /\ widths \in [1..n -> Nat]
      /\ \A c \in 1..n : least[c] =< widths[c]
      /\ \A j \in 2..k : ColspanWidth(table, j - 1) =< WidthOfLast(widths, j)
  BY <1>1 DEF WidthsFit
<1>4. new = IF excess > 0 THEN SpreadOutExcess(widths, excess, m) ELSE widths
  BY DEF Adjust, Adjusted
<1> HIDE DEF n, least, m, new
<1>5. widths \in Seq(Nat) /\ Len(widths) = n  BY <1>1, <1>3, FunctionIsSeq
<1>6. \A j \in 1..n : WidthOfLast(widths, j) \in Int
  <2>1. \A c \in 1..Len(widths) : widths[c] =< widths[c]  BY <1>5
  <2> QED BY <1>5, <2>1, WidthOfLastGrows
<1>7. ColspanWidth(table, m - 1) \in Nat /\ excess \in Int
  BY <1>1, <1>2, <1>6 DEF m
<1>8. /\ new \in Seq(Nat) /\ Len(new) = n
      /\ \A c \in 1..n : widths[c] =< new[c]
      /\ ColspanWidth(table, m - 1) =< WidthOfLast(new, m)
  <2>1. CASE excess > 0
    <3> DEFINE e == excess
    <3>1. e \in Nat /\ new = SpreadOutExcess(widths, e, m)  BY <1>4, <1>7, <2>1
    <3>2. WidthOfLast(widths, m) \in Int /\ ColspanWidth(table, m - 1) = WidthOfLast(widths, m) + e
      BY <1>1, <1>6, <1>7
    <3> HIDE DEF e
    <3>3. /\ new \in Seq(Nat) /\ Len(new) = n
          /\ \A c \in 1..n : widths[c] =< new[c]
          /\ WidthOfLast(new, m) = WidthOfLast(widths, m) + e
      BY <1>1, <1>5, <3>1, SpreadOut
    <3> QED BY <1>7, <3>2, <3>3
  <2>2. CASE ~(excess > 0)
    <3>1. new = widths  BY <1>4, <2>2
    <3>2. ColspanWidth(table, m - 1) =< WidthOfLast(widths, m)
      <4> DEFINE a == ColspanWidth(table, m - 1)
                 b == WidthOfLast(widths, m)
      <4>1. a \in Int /\ b \in Int /\ ~(a - b > 0)  BY <1>1, <1>6, <1>7, <2>2
      <4> HIDE DEF a, b
      <4>2. a =< b  BY <4>1
      <4> QED BY <4>2 DEF a, b
    <3>3. \A c \in 1..n : widths[c] =< new[c]
      <4>1. ASSUME NEW c \in 1..n
            PROVE  widths[c] =< new[c]
        <5>1. widths[c] \in Int /\ new[c] = widths[c]  BY <1>3, <3>1
        <5> DEFINE a == widths[c]
        <5> HIDE DEF a
        <5>2. a \in Int => a =< a  OBVIOUS
        <5> QED BY <5>1, <5>2 DEF a
      <4> QED BY <4>1
    <3>4. new \in Seq(Nat) /\ Len(new) = n  BY <1>5, <3>1
    <3>5. ColspanWidth(table, m - 1) =< WidthOfLast(new, m)  BY <3>1, <3>2
    <3> QED BY <3>3, <3>4, <3>5
  <2> QED BY <2>1, <2>2
<1>9. new \in [1..n -> Nat] /\ \A c \in 1..n : least[c] =< new[c]
  <2>1. new \in [1..n -> Nat]  BY <1>8, SeqIsFunction
  <2>2. ASSUME NEW c \in 1..n
        PROVE  least[c] =< new[c]
    <3>1. least[c] \in Nat /\ widths[c] \in Nat /\ new[c] \in Nat
      BY <1>2, <1>3, <2>1
    <3>2. least[c] =< widths[c] /\ widths[c] =< new[c]  BY <1>3, <1>8
    <3> QED BY <3>1, <3>2
  <2> QED BY <2>1, <2>2
<1>10. ASSUME NEW j \in 2..m
       PROVE  ColspanWidth(table, j - 1) =< WidthOfLast(new, j)
  <2>1. CASE j = m  BY <1>8, <2>1
  <2>2. CASE j # m
    <3>1. j \in 2..k /\ j \in 1..n /\ j - 1 \in 1..k  BY <1>1, <2>2
    <3>2. /\ WidthOfLast(widths, j) \in Int /\ WidthOfLast(new, j) \in Int
          /\ WidthOfLast(widths, j) =< WidthOfLast(new, j)
      BY <1>5, <1>8, <3>1, WidthOfLastGrows
    <3>3. ColspanWidth(table, j - 1) =< WidthOfLast(widths, j) /\ ColspanWidth(table, j - 1) \in Nat
      BY <1>2, <1>3, <3>1
    <3> QED BY <3>2, <3>3
  <2> QED BY <2>1, <2>2
<1>11. WidthsFit(table, k, new)  BY <1>9, <1>10 DEF WidthsFit, n, least, m
<1> QED BY <1>11 DEF new, m

\* However many columns there are: the widths hold every cell and every last cell
\* that spans several of them.
LEMMA AdjustedWidthsFit ==
  ASSUME NEW table \in Seq(Seq(CellText)), table # <<>>
  PROVE  /\ AdjustedWidths(table) \in [1..NumberOfColumns(table) -> Nat]
         /\ \A c \in 1..NumberOfColumns(table) : MaxWidths(table)[c] =< AdjustedWidths(table)[c]
         /\ \A m \in 2..NumberOfColumns(table) :
              ColspanWidth(table, m - 1) =< WidthOfLast(AdjustedWidths(table), m)
<1> DEFINE n == NumberOfColumns(table)
           seq == [k \in 1..(n - 1) |-> k + 1]
           steps == IF n = 0 THEN 0 ELSE n - 1
<1>1. n \in Nat /\ steps \in Nat /\ DOMAIN seq = 1..steps /\ steps + 1 >= n
  BY ColumnsOfTable
<1>2. MaxWidths(table) \in [1..n -> Nat]  BY WidthsOfColumns
<1>3. WidthsFit(table, 0, MaxWidths(table))
  <2>1. 2..(0 + 1) = {}  OBVIOUS
  <2>2. \A c \in 1..n : MaxWidths(table)[c] =< MaxWidths(table)[c]  BY <1>2
  <2> QED BY <1>2, <2>1, <2>2 DEF WidthsFit
<1>4. A!Preserves(table, seq, steps)
  <2> SUFFICES ASSUME NEW k \in 1..steps, NEW widths, WidthsFit(table, k - 1, widths)
               PROVE  WidthsFit(table, k, Adjust(table, widths, seq[k]))
    BY DEF A!Preserves
  <2>1. k \in 1..(n - 1) /\ seq[k] = k + 1  BY <1>1
  <2> HIDE DEF seq
  <2> QED BY <2>1, AdjustFits
<1>5. AdjustedWidths(table) = A!Fold(table, MaxWidths(table), seq)
  BY Zenon DEF AdjustedWidths, A!Fold, Adjust, FoldLeft, MapThenFoldSet,
               A!MapThenFoldSet, Max, A!Max
<1> HIDE DEF n, seq, steps
<1>6. WidthsFit(table, steps, AdjustedWidths(table))
  BY <1>1, <1>3, <1>4, <1>5, A!FoldKeeps
<1> QED BY <1>1, <1>6 DEF WidthsFit, n

-----------------------------------------------------------------------------
(* The padded rows *)

LEMMA LastWidths ==
  ASSUME NEW widths \in Seq(Nat), NEW f, Totals(widths, Len(widths), f),
         NEW m \in 1..Len(widths)
  PROVE  /\ WidthOfLast(widths, m) = f[Len(widths)] - f[Len(widths) - m] + m - 1
         /\ f[Len(widths)] \in Int /\ f[Len(widths) - m] \in Int
<1> DEFINE n == Len(widths)
           r == n - m
<1>1. n \in Nat /\ r \in 0..n /\ n - m + 1 = r + 1  OBVIOUS
<1>2. widths \in Seq(Int)  OBVIOUS
<1>3. Total(SubSeq(widths, r + 1, n)) = f[n] - f[r]  BY <1>1, <1>2, TailTotal
<1>4. f[n] \in Int /\ f[r] \in Int
  <2>1. f \in [0..n -> Int] /\ n \in 0..n  BY <1>1 DEF Totals
  <2> QED BY <1>1, <2>1
<1> QED BY <1>1, <1>3, <1>4 DEF WidthOfLast

LEMMA CellsFit ==
  ASSUME NEW table \in Seq(Seq(CellText)), table # <<>>,
         NEW i \in DOMAIN table, NEW c \in DOMAIN table[i]
  PROVE  /\ ColumnWidth(table, AdjustedWidths(table), i, c) \in Int
         /\ Len(table[i][c]) =< ColumnWidth(table, AdjustedWidths(table), i, c)
         /\ Len(table[i][c]) \in Nat
<1> DEFINE n == NumberOfColumns(table)
           widths == AdjustedWidths(table)
           row == table[i]
<1>1. n \in Nat /\ row \in Seq(CellText) /\ c \in 1..Len(row) /\ Len(row) =< n /\ Len(row) \in Nat
  BY ColumnsOfTable
<1>2. /\ widths \in [1..n -> Nat]
      /\ \A k \in 1..n : MaxWidths(table)[k] =< widths[k]
      /\ \A m \in 2..n : ColspanWidth(table, m - 1) =< WidthOfLast(widths, m)
  BY AdjustedWidthsFit
<1>3. row[c] \in CellText /\ Len(row[c]) \in Nat
  <2>1. row[c] \in CellText  BY <1>1
  <2> QED BY <2>1 DEF CellText
<1>4. /\ Spans(table, i) <=> Len(row) < n
      /\ ColumnWidth(table, widths, i, c) =
           IF Spans(table, i) /\ c = Len(row) THEN WidthOfLast(widths, Len(widths) - Len(row) + 1)
           ELSE widths[c]
  BY DEF Spans, ColumnWidth
<1>5. i \in RowsWith(table, c) <=> (c < Len(row) \/ (c = Len(row) /\ ~Spans(table, i)))
  BY DEF RowsWith
<1>6. Last(row) = row[Len(row)]  BY DEF Last
<1>7. \A m \in 2..n : Len(row) = n - (m - 1) => Len(Last(row)) =< ColspanWidth(table, m - 1)
  <2> SUFFICES ASSUME NEW m \in 2..n, Len(row) = n - (m - 1)
               PROVE  Len(Last(row)) =< ColspanWidth(table, m - 1)
    OBVIOUS
  <2>1. m - 1 \in Nat /\ m - 1 < n  BY <1>1
  <2> QED BY <2>1, WidthsOfSpans
<1>8. \A k \in 1..n : i \in RowsWith(table, k) => Len(row[k]) =< MaxWidths(table)[k]
  BY WidthsOfColumns
<1>9. MaxWidths(table) \in [1..n -> Nat]  BY WidthsOfColumns
<1>10. \A m \in 2..n : ColspanWidth(table, m - 1) \in Nat
  BY <1>1, WidthsOfSpans
<1> HIDE DEF n, widths, row
<1>11. widths \in Seq(Nat) /\ Len(widths) = n  BY <1>1, <1>2, FunctionIsSeq
<1>12. CASE Spans(table, i) /\ c = Len(row)
  <2> DEFINE m == n - Len(row) + 1
  <2>1. m \in 2..n /\ m \in 1..Len(widths) /\ Len(row) = n - (m - 1)
    BY <1>1, <1>4, <1>11, <1>12
  <2>2. ColumnWidth(table, widths, i, c) = WidthOfLast(widths, m)
    BY <1>4, <1>11, <1>12
  <2> HIDE DEF m
  <2>3. Len(row[c]) =< ColspanWidth(table, m - 1) /\ ColspanWidth(table, m - 1) \in Nat
    BY <1>6, <1>7, <1>10, <1>12, <2>1
  <2>4. ColspanWidth(table, m - 1) =< WidthOfLast(widths, m)  BY <1>2, <2>1
  <2>5. WidthOfLast(widths, m) \in Int
    <3>1. \A k \in 1..Len(widths) : widths[k] =< widths[k]  BY <1>11
    <3> QED BY <1>11, <2>1, <3>1, WidthOfLastGrows
  <2>6. /\ WidthOfLast(widths, m) \in Int
        /\ Len(row[c]) =< WidthOfLast(widths, m)
    BY <1>3, <2>3, <2>4, <2>5
  <2> QED BY <1>3, <2>2, <2>6 DEF widths, row
<1>13. CASE ~(Spans(table, i) /\ c = Len(row))
  <2>1. ColumnWidth(table, widths, i, c) = widths[c]  BY <1>4, <1>13
  <2>2. i \in RowsWith(table, c) /\ c \in 1..n  BY <1>1, <1>5, <1>13
  <2>3. Len(row[c]) =< MaxWidths(table)[c] /\ MaxWidths(table)[c] =< widths[c]
    BY <1>2, <1>8, <2>2
  <2>4. MaxWidths(table)[c] \in Nat /\ widths[c] \in Nat  BY <1>2, <1>9, <2>2
  <2>5. widths[c] \in Int /\ Len(row[c]) =< widths[c]  BY <1>3, <2>3, <2>4
  <2> QED BY <1>3, <2>1, <2>5 DEF widths, row
<1> QED BY <1>12, <1>13

LEMMA RightPads ==
  ASSUME NEW cell \in CellText, NEW width \in Int, Len(cell) =< width
  PROVE  RightPad(cell, width) \in CellText /\ Len(RightPad(cell, width)) = width
<1> DEFINE n == width - Len(cell)
           blanks == [k \in 1..n |-> " "]
<1>1. n \in Nat /\ cell \in Seq(Characters) /\ blanks \in [1..n -> Characters]
  <2>1. n \in Nat /\ cell \in Seq(Characters)  BY DEF CellText
  <2>2. blanks \in [1..n -> Characters]  BY DEF Characters
  <2> QED BY <2>1, <2>2
<1>2. blanks \in Seq(Characters) /\ Len(blanks) = n
  <2> HIDE DEF n, blanks
  <2> QED BY <1>1, FunctionIsSeq
<1>3. RightPad(cell, width) = cell \o blanks  BY DEF RightPad
<1> HIDE DEF blanks
<1> QED BY <1>1, <1>2, <1>3 DEF CellText

LEMMA NestedIsCell == Nested \in CellText /\ Len(Nested) = 2 /\ Nested # <<>>
<1>1. Nested = <<"!", "(">>  BY DEF Nested
<1> QED BY <1>1 DEF CellText, Characters

\* A padded row has as many cells as before, as wide as their columns.
LEMMA RowsArePadded ==
  ASSUME NEW table \in Seq(Seq(CellText)), table # <<>>
  PROVE  /\ Padded(table) \in Seq(Seq(CellText)) /\ Len(Padded(table)) = Len(table)
         /\ \A i \in DOMAIN table :
              /\ Len(Padded(table)[i]) = Len(table[i])
              /\ \A c \in DOMAIN table[i] :
                   \/ Padded(table)[i][c] = Nested
                   \/ Len(Padded(table)[i][c]) = ColumnWidth(table, AdjustedWidths(table), i, c)
<1> DEFINE widths == AdjustedWidths(table)
           Pad(i, c) == IF table[i][c] = Nested THEN Nested
                        ELSE RightPad(table[i][c], ColumnWidth(table, widths, i, c))
           rows == [i \in DOMAIN table |-> Computed([c \in DOMAIN table[i] |-> Pad(i, c)])]
<1>1. Padded(table) = rows  BY DEF Padded, PaddedTo
<1>2. ASSUME NEW i \in DOMAIN table, NEW c \in DOMAIN table[i]
      PROVE  /\ Pad(i, c) \in CellText
             /\ Pad(i, c) = Nested \/ Len(Pad(i, c)) = ColumnWidth(table, widths, i, c)
  <2>1. table[i][c] \in CellText  OBVIOUS
  <2>2. ColumnWidth(table, widths, i, c) \in Int /\ Len(table[i][c]) =< ColumnWidth(table, widths, i, c)
    BY CellsFit
  <2> HIDE DEF widths
  <2> QED BY <2>1, <2>2, RightPads, NestedIsCell
<1> HIDE DEF widths, Pad
<1>3. ASSUME NEW i \in DOMAIN table
      PROVE  /\ rows[i] \in Seq(CellText) /\ Len(rows[i]) = Len(table[i])
             /\ \A c \in DOMAIN table[i] : rows[i][c] = Pad(i, c)
  <2> DEFINE n == Len(table[i])
             cells == [c \in DOMAIN table[i] |-> Pad(i, c)]
  <2>1. n \in Nat /\ DOMAIN table[i] = 1..n  OBVIOUS
  <2>2. cells \in [1..n -> CellText]  BY <1>2, <2>1
  <2>3. rows[i] = Computed(cells) /\ \A c \in DOMAIN table[i] : cells[c] = Pad(i, c)
    OBVIOUS
  <2> HIDE DEF cells, rows, n
  <2>4. cells \in Seq(CellText) /\ Len(cells) = n  BY <2>1, <2>2, FunctionIsSeq
  <2>5. rows[i] = cells  BY <2>3, <2>4, ComputedIs
  <2> QED BY <2>3, <2>4, <2>5 DEF n
<1>4. Len(table) \in Nat /\ DOMAIN table = 1..Len(table)  OBVIOUS
<1>5. rows \in [1..Len(table) -> Seq(CellText)]  BY <1>3, <1>4
<1> HIDE DEF rows
<1>6. rows \in Seq(Seq(CellText)) /\ Len(rows) = Len(table)
  BY <1>4, <1>5, FunctionIsSeq
<1> QED BY <1>1, <1>2, <1>3, <1>6 DEF widths

-----------------------------------------------------------------------------
(* The lines of a formatted table *)

\* Every row with a cell in it, and without a nested table, is as long as the
\* columns and their bars.
LEMMA PaddedRowLength ==
  ASSUME NEW table \in Seq(Seq(CellText)), table # <<>>,
         NEW f, Totals(AdjustedWidths(table), NumberOfColumns(table), f),
         NEW i \in DOMAIN table, table[i] # <<>>,
         \A c \in DOMAIN table[i] : Padded(table)[i][c] # Nested
  PROVE  CellsLength(Padded(table)[i]) = f[NumberOfColumns(table)] + NumberOfColumns(table)
<1> DEFINE n == NumberOfColumns(table)
           widths == AdjustedWidths(table)
           m == Len(table[i])
           row == Padded(table)[i]
           lengths == [c \in DOMAIN row |-> Len(row[c]) + 1]
           g == [k \in 0..m |-> IF k < m THEN f[k] + k ELSE f[n] + n]
<1>1. n \in Nat /\ m \in 1..n
  <2>1. table[i] \in Seq(CellText)  OBVIOUS
  <2>2. m \in Nat /\ m # 0  BY <2>1
  <2> QED BY <2>2, ColumnsOfTable
<1>2. widths \in [1..n -> Nat]  BY AdjustedWidthsFit
<1>3. DOMAIN table[i] = 1..m  OBVIOUS
<1>4. /\ row \in Seq(CellText) /\ Len(row) = m
      /\ \A c \in 1..m : Len(row[c]) = ColumnWidth(table, widths, i, c)
  BY <1>3, RowsArePadded
<1>5. \A c \in 1..m :
        ColumnWidth(table, widths, i, c) =
          IF m < n /\ c = m THEN WidthOfLast(widths, Len(widths) - m + 1) ELSE widths[c]
  BY DEF ColumnWidth, Spans
<1>6. /\ f \in [0..n -> Int] /\ f[0] = 0
      /\ \A k \in 1..n : f[k] = f[k - 1] + widths[k]
      /\ Totals(widths, n, f)
  BY DEF Totals
<1>7. CellsLength(row) = Total(lengths)  BY DEF CellsLength
<1> HIDE DEF n, widths, m, row
<1>8. widths \in Seq(Nat) /\ Len(widths) = n  BY <1>1, <1>2, FunctionIsSeq
<1>9. DOMAIN lengths = 1..m /\ \A c \in 1..m : lengths[c] = Len(row[c]) + 1
  BY <1>4
<1> HIDE DEF lengths
<1>10. g \in [0..m -> Int] /\ g[0] = 0 /\ g[m] = f[n] + n
  <2>1. ASSUME NEW k \in 0..m
        PROVE  (IF k < m THEN f[k] + k ELSE f[n] + n) \in Int
    BY <1>1, <1>6
  <2>2. g \in [0..m -> Int]  BY <2>1
  <2>3. 0 \in 0..m /\ 0 < m /\ m \in 0..m /\ ~(m < m)  BY <1>1
  <2>4. g[0] = f[0] + 0 /\ g[m] = f[n] + n  BY <2>3
  <2> QED BY <1>6, <2>2, <2>4
<1>11. ASSUME NEW k \in 1..m
       PROVE  g[k] = g[k - 1] + lengths[k]
  <2>1. k \in 1..n /\ k - 1 \in 0..n /\ k - 1 \in 0..m /\ f[k - 1] \in Int /\ f[n] \in Int /\ widths[k] \in Nat
    BY <1>1, <1>2, <1>6
  <2>2. g[k - 1] = f[k - 1] + (k - 1) /\ f[k] = f[k - 1] + widths[k]
    BY <1>1, <1>6, <2>1
  <2>3. CASE k < m
    <3>1. lengths[k] = widths[k] + 1
      <4>1. k # m  BY <1>1, <2>3
      <4> QED BY <1>4, <1>5, <1>9, <4>1
    <3>2. g[k] = f[k] + k  BY <2>3
    <3> HIDE DEF g
    <3> DEFINE a == f[k - 1]
               b == widths[k]
    <3>3. a \in Int /\ b \in Int /\ k \in Int  BY <2>1
    <3>4. g[k - 1] = a + (k - 1) /\ g[k] = (a + b) + k /\ lengths[k] = b + 1
      BY <2>2, <3>1, <3>2
    <3> HIDE DEF a, b
    <3>5. (a + b) + k = (a + (k - 1)) + (b + 1)  BY <3>3
    <3> QED BY <3>4, <3>5
  <2>4. CASE k = m /\ m < n
    <3> DEFINE j == n - m + 1
    <3>1. j \in 1..n /\ n - j = k - 1  BY <1>1, <2>4
    <3>2. lengths[k] = WidthOfLast(widths, j) + 1
      BY <1>4, <1>5, <1>8, <1>9, <2>4
    <3> HIDE DEF j, g
    <3>3. WidthOfLast(widths, j) = f[n] - f[k - 1] + j - 1
      BY <1>6, <1>8, <3>1, LastWidths
    <3>4. g[k] = f[n] + n  BY <1>10, <2>4
    <3> DEFINE a == f[k - 1]
               b == f[n]
    <3>5. a \in Int /\ b \in Int /\ g[k - 1] = a + (k - 1) /\ g[k] = b + n
      BY <2>1, <2>2, <3>4
    <3>6. lengths[k] = (b - a + j - 1) + 1  BY <3>2, <3>3
    <3> HIDE DEF a, b
    <3>7. j \in Int /\ k \in Int /\ n \in Int /\ j = n - k + 1
      BY <1>1, <2>1, <3>1
    <3> QED BY <3>5, <3>6, <3>7
  <2>5. CASE k = m /\ ~(m < n)
    <3>1. m = n  BY <1>1, <2>5
    <3>2. lengths[k] = widths[k] + 1  BY <1>4, <1>5, <1>9, <2>5
    <3>3. g[k] = f[k] + k  BY <1>10, <2>5, <3>1
    <3> HIDE DEF g
    <3> DEFINE a == f[k - 1]
               b == widths[k]
    <3>4. a \in Int /\ b \in Int /\ k \in Int  BY <2>1
    <3>5. g[k - 1] = a + (k - 1) /\ g[k] = (a + b) + k /\ lengths[k] = b + 1
      BY <2>2, <3>2, <3>3
    <3> HIDE DEF a, b
    <3>6. (a + b) + k = (a + (k - 1)) + (b + 1)  BY <3>4
    <3> QED BY <3>5, <3>6
  <2> QED BY <1>1, <2>3, <2>4, <2>5
<1> HIDE DEF g
<1>12. Totals(lengths, m, g)  BY <1>10, <1>11 DEF Totals
<1>13. Total(lengths) = g[m]  BY <1>1, <1>9, <1>12, TotalIs
<1> QED BY <1>7, <1>10, <1>13 DEF n, row

LEMMA FrontOfAppend ==
  ASSUME NEW T, NEW s \in Seq(T), NEW x \in T
  PROVE  Front(Append(s, x)) = s /\ Last(Append(s, x)) = x
<1> DEFINE t == Append(s, x)
<1>1. t \in Seq(T) /\ Len(t) = Len(s) + 1 /\ Len(s) \in Nat /\ t[Len(s) + 1] = x
  OBVIOUS
<1>2. \A i \in 1..Len(s) : t[i] = s[i]  OBVIOUS
<1> HIDE DEF t
<1>3. Front(t) = SubSeq(t, 1, Len(s))  BY <1>1 DEF Front
<1>4. /\ SubSeq(t, 1, Len(s)) \in Seq(T) /\ Len(SubSeq(t, 1, Len(s))) = Len(s)
      /\ \A i \in 1..Len(s) : SubSeq(t, 1, Len(s))[i] = t[i]
  BY <1>1
<1>5. SubSeq(t, 1, Len(s)) = s  BY <1>2, <1>4, SeqEqual
<1> QED BY <1>1, <1>3, <1>5 DEF Last, t

LEMMA CellsLengthIs ==
  ASSUME NEW cells \in Seq(CellText), NEW f,
         Totals([c \in DOMAIN cells |-> Len(cells[c]) + 1], Len(cells), f)
  PROVE  CellsLength(cells) = f[Len(cells)]
<1> DEFINE lengths == [c \in DOMAIN cells |-> Len(cells[c]) + 1]
<1>1. Len(cells) \in Nat /\ DOMAIN lengths = 1..Len(cells)  OBVIOUS
<1>2. CellsLength(cells) = Total(lengths)  BY DEF CellsLength
<1> HIDE DEF lengths
<1> QED BY <1>1, <1>2, TotalIs DEF lengths

LEMMA CellsLengthExists ==
  ASSUME NEW cells \in Seq(CellText)
  PROVE  \E f : Totals([c \in DOMAIN cells |-> Len(cells[c]) + 1], Len(cells), f)
<1> DEFINE lengths == [c \in DOMAIN cells |-> Len(cells[c]) + 1]
<1>1. Len(cells) \in Nat /\ DOMAIN cells = 1..Len(cells)  OBVIOUS
<1>2. \A c \in 1..Len(cells) : Len(cells[c]) + 1 \in Int
  <2> SUFFICES ASSUME NEW c \in 1..Len(cells)
               PROVE  Len(cells[c]) + 1 \in Int
    OBVIOUS
  <2>1. cells[c] \in Seq(Characters)  BY DEF CellText
  <2> QED BY <2>1
<1>3. lengths \in [1..Len(cells) -> Int]  BY <1>1, <1>2
<1> HIDE DEF lengths
<1> QED BY <1>1, <1>3, TotalsExist DEF lengths

LEMMA TotalOfCells ==
  ASSUME NEW cells \in Seq(CellText)
  PROVE  CellsLength(cells) \in Int
<1>1. PICK f : Totals([c \in DOMAIN cells |-> Len(cells[c]) + 1], Len(cells), f)
  BY CellsLengthExists
<1>2. CellsLength(cells) = f[Len(cells)]  BY <1>1, CellsLengthIs
<1>3. f \in [0..Len(cells) -> Int] /\ Len(cells) \in 0..Len(cells)
  BY <1>1 DEF Totals
<1> QED BY <1>2, <1>3

\* A first cell that is one character shorter makes the row one shorter, and so
\* does an empty first cell that is dropped.
LEMMA FirstCellShorter ==
  ASSUME NEW cells \in Seq(CellText), cells # <<>>, cells[1] # <<>>,
         NEW shorter, shorter = <<Tail(cells[1])>> \o Tail(cells)
  PROVE  /\ shorter \in Seq(CellText) /\ Len(shorter) = Len(cells)
         /\ CellsLength(shorter) = CellsLength(cells) - 1
         /\ CellsLength(shorter) \in Int
<1> DEFINE n == Len(cells)
           lengths == [c \in DOMAIN cells |-> Len(cells[c]) + 1]
           less == [c \in DOMAIN shorter |-> Len(shorter[c]) + 1]
<1>1. n \in Nat /\ n >= 1  OBVIOUS
<1>2. cells[1] \in CellText /\ Tail(cells[1]) \in CellText /\ Len(Tail(cells[1])) = Len(cells[1]) - 1
  <2>1. cells[1] \in Seq(Characters)  BY <1>1 DEF CellText
  <2> QED BY <2>1 DEF CellText
<1>3. /\ shorter \in Seq(CellText) /\ Len(shorter) = n
      /\ shorter[1] = Tail(cells[1]) /\ \A c \in 2..n : shorter[c] = cells[c]
  <2>1. Tail(cells) \in Seq(CellText) /\ Len(Tail(cells)) = n - 1 /\ \A c \in 1..(n - 1) : Tail(cells)[c] = cells[c + 1]
    BY <1>1
  <2>2. <<Tail(cells[1])>> \in Seq(CellText)  BY <1>2
  <2> DEFINE rest == Tail(cells)
             first == Tail(cells[1])
  <2> HIDE DEF rest, first, n
  <2>3. shorter = <<first>> \o rest /\ rest \in Seq(CellText) /\ Len(rest) = n - 1 /\ first \in CellText
    BY <1>2, <2>1 DEF rest, first
  <2>4. shorter \in Seq(CellText) /\ Len(shorter) = n /\ shorter[1] = first
    <3>1. <<first>> \in Seq(CellText) /\ Len(<<first>>) = 1 /\ <<first>>[1] = first
      BY <2>3
    <3> DEFINE one == <<first>>
    <3> HIDE DEF one
    <3>2. shorter = one \o rest /\ one \in Seq(CellText) /\ Len(one) = 1 /\ one[1] = first
      BY <2>3, <3>1 DEF one
    <3>3. /\ one \o rest \in Seq(CellText) /\ Len(one \o rest) = Len(one) + Len(rest)
          /\ (one \o rest)[1] = one[1]
      BY <2>3, <3>2
    <3>4. Len(one) + Len(rest) = n  BY <1>1, <2>3, <3>2
    <3>5. Len(shorter) = n  BY <3>2, <3>3, <3>4, Zenon
    <3>6. shorter \in Seq(CellText)  BY <3>2, <3>3, Zenon
    <3>7. shorter[1] = first  BY <3>2, <3>3, Zenon
    <3> QED BY <3>5, <3>6, <3>7, Zenon
  <2>5. ASSUME NEW c \in 2..n
        PROVE  shorter[c] = cells[c]
    <3>1. shorter[c] = rest[c - 1] /\ c - 1 \in 1..(n - 1) /\ (c - 1) + 1 = c
      BY <1>1, <2>3
    <3> QED BY <2>1, <3>1 DEF rest
  <2> QED BY <2>4, <2>5 DEF first
<1>4. PICK f : Totals(lengths, n, f)  BY CellsLengthExists
<1>5. /\ f \in [0..n -> Int] /\ f[0] = 0
      /\ \A c \in 1..n : f[c] = f[c - 1] + lengths[c]
  BY <1>4 DEF Totals
<1> DEFINE g == [c \in 0..n |-> IF c = 0 THEN 0 ELSE f[c] - 1]
<1>6. DOMAIN cells = 1..n /\ DOMAIN shorter = 1..n /\ \A c \in 1..n : cells[c] \in CellText
  BY <1>3
<1>7. /\ \A c \in 1..n : lengths[c] = Len(cells[c]) + 1 /\ less[c] = Len(shorter[c]) + 1
      /\ \A c \in 2..n : less[c] = lengths[c]
      /\ lengths[1] = less[1] + 1 /\ less[1] \in Int
  <2>1. \A c \in 1..n : lengths[c] = Len(cells[c]) + 1 /\ less[c] = Len(shorter[c]) + 1
    BY <1>6
  <2>2. Len(cells[1]) \in Nat  BY <1>2 DEF CellText
  <2> HIDE DEF lengths, less, n
  <2> QED BY <1>1, <1>2, <1>3, <2>1, <2>2
<1> HIDE DEF n, lengths, less
<1>8. g \in [0..n -> Int] /\ g[0] = 0 /\ g[n] = f[n] - 1  BY <1>1, <1>5
<1>9. ASSUME NEW c \in 1..n
      PROVE  g[c] = g[c - 1] + less[c]
  <2>1. c \in 0..n /\ c - 1 \in 0..n /\ f[c - 1] \in Int /\ f[c] \in Int /\ g[c] = f[c] - 1
    BY <1>1, <1>5
  <2>2. CASE c = 1
    <3>1. g[c - 1] = 0 /\ f[c - 1] = 0 /\ f[c] = f[c - 1] + lengths[c]
      BY <1>5, <1>8, <2>2
    <3> HIDE DEF g
    <3> QED BY <1>7, <2>1, <2>2, <3>1
  <2>3. CASE c # 1
    <3>1. g[c - 1] = f[c - 1] - 1 /\ f[c] = f[c - 1] + lengths[c] /\ less[c] = lengths[c] /\ c \in 2..n
      BY <1>1, <1>5, <1>7, <2>1, <2>3
    <3>2. lengths[c] \in Int
      <4>1. cells[c] \in CellText  BY <1>6
      <4>2. Len(cells[c]) \in Int  BY <4>1 DEF CellText
      <4> QED BY <1>7, <4>2
    <3> HIDE DEF g
    <3> QED BY <2>1, <3>1, <3>2
  <2> QED BY <2>2, <2>3
<1> HIDE DEF g
<1>10. Totals(less, n, g)  BY <1>8, <1>9 DEF Totals
<1>11. CellsLength(shorter) = g[n]  BY <1>3, <1>10, CellsLengthIs DEF less
<1>12. CellsLength(cells) = f[n]  BY <1>4, CellsLengthIs DEF n, lengths
<1>13. f[n] \in Int  BY <1>1, <1>5
<1> QED BY <1>3, <1>8, <1>11, <1>12, <1>13 DEF n

LEMMA FirstCellDropped ==
  ASSUME NEW cells \in Seq(CellText), cells # <<>>, cells[1] = <<>>
  PROVE  /\ Tail(cells) \in Seq(CellText) /\ Len(Tail(cells)) = Len(cells) - 1
         /\ CellsLength(Tail(cells)) = CellsLength(cells) - 1
         /\ CellsLength(Tail(cells)) \in Int
<1> DEFINE n == Len(cells)
           rest == Tail(cells)
           lengths == [c \in DOMAIN cells |-> Len(cells[c]) + 1]
           less == [c \in DOMAIN rest |-> Len(rest[c]) + 1]
<1>1. n \in Nat /\ n >= 1 /\ n - 1 \in Nat  OBVIOUS
<1>2. rest \in Seq(CellText) /\ Len(rest) = n - 1 /\ \A c \in 1..(n - 1) : rest[c] = cells[c + 1]
  BY <1>1
<1>3. PICK f : Totals(lengths, n, f)  BY CellsLengthExists
<1>4. /\ f \in [0..n -> Int] /\ f[0] = 0
      /\ \A c \in 1..n : f[c] = f[c - 1] + lengths[c]
  BY <1>3 DEF Totals
<1> HIDE DEF rest
<1> DEFINE g == [c \in 0..(n - 1) |-> f[c + 1] - 1]
<1>5. DOMAIN cells = 1..n /\ DOMAIN rest = 1..(n - 1)  BY <1>2
<1>6. \A c \in 1..n : lengths[c] = Len(cells[c]) + 1 /\ lengths[c] \in Int
  <2> SUFFICES ASSUME NEW c \in 1..n
               PROVE  Len(cells[c]) \in Int
    BY <1>5
  <2>1. cells[c] \in Seq(Characters)  BY <1>5 DEF CellText
  <2> QED BY <2>1
<1>7. \A c \in 1..(n - 1) : less[c] = lengths[c + 1]
  <2> SUFFICES ASSUME NEW c \in 1..(n - 1)
               PROVE  less[c] = lengths[c + 1]
    OBVIOUS
  <2>1. c + 1 \in 1..n /\ less[c] = Len(rest[c]) + 1  BY <1>1, <1>5
  <2> QED BY <1>2, <1>6, <2>1
<1>8. lengths[1] = 1
  <2>1. Len(cells[1]) = 0  OBVIOUS
  <2> QED BY <1>1, <1>6, <2>1
<1> HIDE DEF n, lengths, less
<1>9. f[1] = 1  BY <1>1, <1>4, <1>8
<1>10. \A c \in 0..(n - 1) : c + 1 \in 0..n /\ f[c + 1] \in Int  BY <1>1, <1>4
<1>11. g \in [0..(n - 1) -> Int] /\ g[0] = 0 /\ g[n - 1] = f[n] - 1
  <2>1. g \in [0..(n - 1) -> Int]  BY <1>10
  <2>2. g[0] = f[0 + 1] - 1 /\ g[n - 1] = f[(n - 1) + 1] - 1  BY <1>1
  <2> QED BY <1>1, <1>9, <2>1, <2>2
<1>12. ASSUME NEW c \in 1..(n - 1)
       PROVE  g[c] = g[c - 1] + less[c]
  <2>1. c \in 0..(n - 1) /\ c - 1 \in 0..(n - 1) /\ c + 1 \in 1..n /\ (c - 1) + 1 = c /\ (c + 1) - 1 = c
    BY <1>1
  <2>2. g[c] = f[c + 1] - 1 /\ g[c - 1] = f[c] - 1  BY <2>1
  <2>3. f[c + 1] = f[c] + lengths[c + 1] /\ f[c] \in Int /\ lengths[c + 1] \in Int
    BY <1>4, <1>6, <1>10, <2>1
  <2> HIDE DEF g
  <2> QED BY <1>7, <2>2, <2>3
<1> HIDE DEF g
<1>13. Totals(less, n - 1, g)  BY <1>11, <1>12 DEF Totals
<1>14. CellsLength(rest) = g[n - 1]  BY <1>2, <1>13, CellsLengthIs DEF less
<1>15. CellsLength(cells) = f[n]  BY <1>3, CellsLengthIs DEF n, lengths
<1>16. f[n] \in Int  BY <1>1, <1>4
<1> QED BY <1>2, <1>11, <1>14, <1>15, <1>16 DEF n, rest

LEMMA Trimmed ==
  ASSUME NEW cell \in CellText
  PROVE  /\ Trim(cell) \in CellText
         /\ (\E k \in DOMAIN cell : cell[k] # " ") => Trim(cell) # <<>>
<1> DEFINE solid == {k \in DOMAIN cell : cell[k] # " "}
<1>1. cell \in Seq(Characters) /\ Len(cell) \in Nat /\ DOMAIN cell = 1..Len(cell)
  BY DEF CellText
<1>2. Trim(cell) = IF solid = {} THEN <<>> ELSE SubSeq(cell, Min(solid), Max(solid))
  BY DEF Trim
<1>3. solid \in SUBSET (0..Len(cell)) /\ solid \in SUBSET Nat /\ solid \in SUBSET (1..Len(cell))
  <2>1. solid \subseteq 1..Len(cell)  BY <1>1
  <2> HIDE DEF solid
  <2> QED BY <1>1, <2>1
<1>4. (\E k \in DOMAIN cell : cell[k] # " ") <=> solid # {}  OBVIOUS
<1> HIDE DEF solid
<1>5. CASE solid = {}
  <2>1. Trim(cell) = <<>> /\ <<>> \in CellText  BY <1>2, <1>5 DEF CellText
  <2> QED BY <1>4, <1>5, <2>1
<1>6. CASE solid # {}
  <2>1. Max(solid) \in solid /\ \A y \in solid : y =< Max(solid)
    BY <1>1, <1>3, <1>6, MaxOf
  <2>2. Min(solid) \in solid  BY <1>3, <1>6, MinOf
  <2>3. Min(solid) \in 1..Len(cell) /\ Max(solid) \in 1..Len(cell) /\ Min(solid) =< Max(solid)
    BY <1>3, <2>1, <2>2
  <2> DEFINE low == Min(solid)
             high == Max(solid)
  <2> HIDE DEF low, high
  <2>4. low \in 1..Len(cell) /\ high \in 1..Len(cell) /\ low =< high
    BY <2>3 DEF low, high
  <2>5. SubSeq(cell, low, high) \in Seq(Characters) /\ Len(SubSeq(cell, low, high)) = high - low + 1
    BY <1>1, <2>4
  <2>6. Len(SubSeq(cell, low, high)) # 0  BY <2>4, <2>5
  <2>7. SubSeq(cell, low, high) # <<>>
    <3> DEFINE part == SubSeq(cell, low, high)
    <3>1. part \in Seq(Characters) /\ Len(part) # 0  BY <2>5, <2>6
    <3> HIDE DEF part
    <3>2. part # <<>>  BY <3>1
    <3> QED BY <3>2 DEF part
  <2> QED BY <1>2, <1>6, <2>5, <2>7 DEF CellText, low, high
<1> QED BY <1>5, <1>6

LEMMA AllTrimmed ==
  ASSUME NEW cells \in Seq(CellText)
  PROVE  /\ TrimAll(cells) \in Seq(CellText) /\ Len(TrimAll(cells)) = Len(cells)
         /\ \A k \in 1..Len(cells) : TrimAll(cells)[k] = Trim(cells[k])
<1> DEFINE n == Len(cells)
           trimmed == [k \in DOMAIN cells |-> Trim(cells[k])]
<1>1. n \in Nat /\ DOMAIN cells = 1..n  OBVIOUS
<1>2. trimmed \in [1..n -> CellText]
  <2>1. \A k \in 1..n : cells[k] \in CellText  OBVIOUS
  <2>2. \A k \in 1..n : Trim(cells[k]) \in CellText  BY <2>1, Trimmed
  <2> QED BY <1>1, <2>2
<1>3. TrimAll(cells) = Computed(trimmed) /\ \A k \in 1..n : trimmed[k] = Trim(cells[k])
  BY <1>1 DEF TrimAll
<1> HIDE DEF trimmed, n
<1>4. trimmed \in Seq(CellText) /\ Len(trimmed) = n
  BY <1>1, <1>2, FunctionIsSeq
<1>5. TrimAll(cells) = trimmed  BY <1>3, <1>4, ComputedIs
<1> QED BY <1>3, <1>4, <1>5 DEF n

\* A line has a column, and the row whose mark becomes a character one that is not
\* empty.
LEMMA RowsAreSplit ==
  ASSUME NEW rows \in Seq(WikiLine), NEW i \in DOMAIN rows
  PROVE  /\ SplitRow(rows, i) \in Seq(CellText) /\ SplitRow(rows, i) # <<>>
         /\ Prevents(rows) # {} /\ i = Min(Prevents(rows)) => SplitRow(rows, i) # <<<<>>>>
<1> DEFINE columns == Append(rows[i].cells, rows[i].suffix)
           marked == Prevents(rows) # {} /\ i = Min(Prevents(rows))
           first == IF marked THEN <<"!">> \o columns[1] ELSE columns[1]
           all == <<first>> \o Tail(columns)
<1>1. rows[i] \in WikiLine  OBVIOUS
<1>2. columns \in Seq(CellText) /\ Len(columns) >= 1
  <2>1. rows[i].cells \in Seq(CellText) /\ rows[i].suffix \in CellText
    BY <1>1 DEF WikiLine
  <2> QED BY <2>1
<1>3. SplitRow(rows, i) = TrimAll(all)  BY DEF SplitRow
<1> HIDE DEF columns, marked
<1>4. columns[1] \in Seq(Characters) /\ Tail(columns) \in Seq(CellText)
  <2>1. columns[1] \in CellText  BY <1>2
  <2> QED BY <1>2, <2>1 DEF CellText
<1>5. first \in CellText /\ (marked => 1 \in DOMAIN first /\ first[1] = "!")
  <2> DEFINE bang == <<"!">>
             rest == columns[1]
  <2>1. bang \in Seq(Characters) /\ Len(bang) = 1 /\ bang[1] = "!"
    BY DEF Characters
  <2> HIDE DEF bang, rest
  <2>2. rest \in Seq(Characters)  BY <1>4 DEF rest
  <2>3. /\ bang \o rest \in Seq(Characters) /\ Len(bang \o rest) >= 1
        /\ (bang \o rest)[1] = "!"
    <3>0. Len(rest) \in Nat /\ 1 \in 1..(Len(bang) + Len(rest)) /\ 1 =< Len(bang)
      BY <2>1, <2>2
    <3>1. /\ bang \o rest \in Seq(Characters) /\ Len(bang \o rest) = Len(bang) + Len(rest)
          /\ (bang \o rest)[1] = bang[1] /\ Len(rest) \in Nat
      BY <2>1, <2>2, <3>0, ConcatProperties
    <3>2. (bang \o rest)[1] = "!"  BY <2>1, <3>1, Zenon
    <3> QED BY <2>1, <3>1, <3>2
  <2>4. 1 \in DOMAIN (bang \o rest)  BY <2>3
  <2>5. first = IF marked THEN bang \o rest ELSE rest  BY DEF bang, rest
  <2> QED BY <2>2, <2>3, <2>4, <2>5 DEF CellText
<1> HIDE DEF first
<1>6. all \in Seq(CellText) /\ Len(all) >= 1 /\ all[1] = first
  <2> DEFINE rest == Tail(columns)
  <2>1. rest \in Seq(CellText)  BY <1>4
  <2> HIDE DEF rest
  <2>2. /\ <<first>> \o rest \in Seq(CellText) /\ Len(<<first>> \o rest) >= 1
        /\ (<<first>> \o rest)[1] = first
    BY <1>5, <2>1
  <2> QED BY <2>2 DEF rest
<1> HIDE DEF all
<1>7. /\ TrimAll(all) \in Seq(CellText) /\ Len(TrimAll(all)) >= 1
      /\ TrimAll(all)[1] = Trim(first)
  BY <1>6, AllTrimmed
<1>8. TrimAll(all) # <<>>  BY <1>7
<1>9. ASSUME marked
      PROVE  TrimAll(all) # <<<<>>>>
  <2>1. "!" # " "  OBVIOUS
  <2>2. Trim(first) # <<>>  BY <1>5, <1>9, <2>1, Trimmed
  <2> QED BY <1>7, <2>2
<1> QED BY <1>3, <1>7, <1>8, <1>9 DEF marked

LEMMA Prepended ==
  ASSUME NEW T, NEW x \in T, NEW s \in Seq(T)
  PROVE  /\ <<x>> \o s \in Seq(T) /\ Len(<<x>> \o s) = 1 + Len(s)
         /\ (<<x>> \o s)[1] = x
         /\ \A i \in 1..Len(s) : (<<x>> \o s)[i + 1] = s[i]
<1> DEFINE one == <<x>>
<1>1. one \in Seq(T) /\ Len(one) = 1 /\ one[1] = x  OBVIOUS
<1> HIDE DEF one
<1>2. Len(s) \in Nat  OBVIOUS
<1>3. /\ one \o s \in Seq(T) /\ Len(one \o s) = Len(one) + Len(s)
      /\ \A i \in 1..(Len(one) + Len(s)) :
           (one \o s)[i] = IF i =< Len(one) THEN one[i] ELSE s[i - Len(one)]
  <2>1. one \in Seq(T) /\ s \in Seq(T)  BY <1>1
  <2> QED BY <2>1, ConcatProperties, Zenon
<1>4. /\ Len(one \o s) = 1 + Len(s)
      /\ \A i \in 1..(1 + Len(s)) : (one \o s)[i] = IF i =< 1 THEN one[i] ELSE s[i - 1]
  <2>1. Len(one) = 1  BY <1>1
  <2> QED BY <1>3, <2>1
<1>5. (one \o s)[1] = x  BY <1>1, <1>2, <1>4
<1>6. ASSUME NEW i \in 1..Len(s)
      PROVE  (one \o s)[i + 1] = s[i]
  <2>1. i + 1 \in 1..(1 + Len(s)) /\ ~(i + 1 =< 1) /\ (i + 1) - 1 = i  BY <1>2
  <2> QED BY <1>4, <2>1
<1> QED BY <1>3, <1>4, <1>5, <1>6 DEF one

RowFits(line, length) == line.cells # <<>> /\ ~HoldsNested(line) => Length(line) = length

\* The row with the "!" is as long as it was without: its second character makes
\* room for it.
LEMMA LiteralRowFits ==
  ASSUME NEW cells \in Seq(CellText), NEW suffix \in CellText,
         cells # <<>> \/ suffix # <<>>, NEW length \in Int,
         cells # <<>> /\ (\A c \in DOMAIN cells : cells[c] # Nested) =>
           1 + CellsLength(cells) = length
  PROVE  /\ LiteralRow(WithoutSecond(Append(cells, suffix))) \in WikiLine
         /\ LiteralRow(WithoutSecond(Append(cells, suffix))).mark = "!"
         /\ RowFits(LiteralRow(WithoutSecond(Append(cells, suffix))), length)
<1> DEFINE columns == Append(cells, suffix)
           without == WithoutSecond(columns)
           row == LiteralRow(without)
<1>1. row = [mark |-> "!", cells |-> Front(without), suffix |-> Last(without)]
  BY DEF LiteralRow, TableRow
<1>2. without = IF columns[1] = <<>> THEN Tail(columns) ELSE <<Tail(columns[1])>> \o Tail(columns)
  BY DEF WithoutSecond
<1> HIDE DEF row, without
<1>3. Length(row) = 2 + CellsLength(Front(without))  BY <1>1 DEF Length
<1>4. "!" \in Marks  BY DEF Marks
<1>5. CASE cells = <<>>
  <2>1. columns = <<suffix>> /\ columns[1] = suffix /\ Tail(columns) = <<>>
    BY <1>5
  <2>2. without = <<Tail(suffix)>>  BY <1>2, <1>5, <2>1
  <2>3. Tail(suffix) \in CellText
    <3>1. suffix \in Seq(Characters) /\ suffix # <<>>  BY <1>5 DEF CellText
    <3> QED BY <3>1 DEF CellText
  <2>4. Front(without) = <<>> /\ Last(without) = Tail(suffix)
    <3> DEFINE x == Tail(suffix)
    <3> HIDE DEF x
    <3>1. Front(Append(<<>>, x)) = <<>> /\ Last(Append(<<>>, x)) = x
      <4>1. x \in CellText /\ <<>> \in Seq(CellText)  BY <2>3 DEF x
      <4> QED BY <4>1, FrontOfAppend
    <3>2. Append(<<>>, x) = <<x>>  OBVIOUS
    <3> QED BY <2>2, <3>1, <3>2 DEF x
  <2>5. row \in WikiLine /\ row.mark = "!" /\ row.cells = <<>>
    BY <1>1, <1>4, <2>3, <2>4 DEF WikiLine
  <2> QED BY <2>5 DEF RowFits, row, without
<1>6. CASE cells # <<>>
  <2>1. columns[1] = cells[1] /\ cells[1] \in CellText /\ Tail(columns) = Append(Tail(cells), suffix)
    <3>1. Len(cells) \in Nat /\ Len(cells) # 0  BY <1>6
    <3>2. columns[1] = cells[1] /\ cells[1] \in CellText  BY <3>1
    <3>3. Tail(columns) = Append(Tail(cells), suffix)
      <4>1. /\ Tail(columns) \in Seq(CellText) /\ Len(Tail(columns)) = Len(cells)
            /\ \A i \in 1..Len(cells) : Tail(columns)[i] = columns[i + 1]
        BY <3>1
      <4>2. /\ Tail(cells) \in Seq(CellText) /\ Len(Tail(cells)) = Len(cells) - 1
            /\ \A i \in 1..(Len(cells) - 1) : Tail(cells)[i] = cells[i + 1]
        BY <3>1
      <4> DEFINE rest == Tail(cells)
                 all == Append(rest, suffix)
                 tail == Tail(columns)
      <4>3. /\ all \in Seq(CellText) /\ Len(all) = Len(cells) /\ all[Len(cells)] = suffix
            /\ \A i \in 1..(Len(cells) - 1) : all[i] = rest[i]
        <5> HIDE DEF rest
        <5>1. rest \in Seq(CellText) /\ Len(rest) = Len(cells) - 1
          BY <4>2 DEF rest
        <5> QED BY <3>1, <5>1
      <4>4. columns[Len(cells) + 1] = suffix /\ \A i \in 1..Len(cells) : columns[i] = cells[i]
        OBVIOUS
      <4> HIDE DEF rest, all, tail, columns
      <4>5. \A i \in 1..Len(cells) : tail[i] = all[i]
        <5> SUFFICES ASSUME NEW i \in 1..Len(cells)
                     PROVE  tail[i] = all[i]
          OBVIOUS
        <5>1. CASE i = Len(cells)  BY <3>1, <4>1, <4>3, <4>4, <5>1 DEF tail
        <5>2. CASE i # Len(cells)
          <6>1. i \in 1..(Len(cells) - 1) /\ i + 1 \in 1..Len(cells)
            BY <3>1, <5>2
          <6> QED BY <4>1, <4>2, <4>3, <4>4, <6>1 DEF tail, rest
        <5> QED BY <5>1, <5>2
      <4>6. tail = all  BY <4>1, <4>3, <4>5, SeqEqual DEF tail
      <4> QED BY <4>6 DEF tail, all, rest
    <3> QED BY <3>2, <3>3
  <2> HIDE DEF columns
  <2>2. CASE cells[1] = <<>>
    <3> DEFINE rest == Tail(cells)
    <3>1. /\ rest \in Seq(CellText) /\ Len(rest) = Len(cells) - 1
          /\ CellsLength(rest) = CellsLength(cells) - 1 /\ CellsLength(rest) \in Int
      BY <1>6, <2>2, FirstCellDropped
    <3>2. \A i \in 1..Len(rest) : rest[i] = cells[i + 1] /\ i + 1 \in DOMAIN cells
      BY <1>6
    <3>3. without = Append(rest, suffix)  BY <1>2, <2>1, <2>2
    <3> HIDE DEF rest
    <3>4. Front(without) = rest /\ Last(without) = suffix
      BY <3>1, <3>3, FrontOfAppend
    <3>5. row \in WikiLine /\ row.mark = "!" /\ row.cells = rest
      BY <1>1, <1>4, <3>1, <3>4 DEF WikiLine
    <3>6. ASSUME ~HoldsNested(row)
          PROVE  Length(row) = length
      <4>1. \A c \in DOMAIN rest : rest[c] # Nested
        BY <3>5, <3>6 DEF HoldsNested
      <4>2. \A c \in DOMAIN cells : cells[c] # Nested
        <5> SUFFICES ASSUME NEW c \in DOMAIN cells, cells[c] = Nested
                     PROVE  FALSE
          OBVIOUS
        <5>1. c # 1  BY <2>2, NestedIsCell
        <5>2. c - 1 \in 1..Len(rest) /\ (c - 1) + 1 = c /\ c - 1 \in DOMAIN rest
          BY <3>1, <5>1
        <5> QED BY <3>2, <4>1, <5>2
      <4>3. 1 + CellsLength(cells) = length  BY <1>6, <4>2
      <4>4. Length(row) = 2 + CellsLength(rest)  BY <1>3, <3>4
      <4> QED
        <5> DEFINE a == CellsLength(rest)
                   b == CellsLength(cells)
        <5> HIDE DEF a, b
        <5>1. a \in Int /\ a = b - 1 /\ 1 + b = length /\ Length(row) = 2 + a
          BY <3>1, <4>3, <4>4 DEF a, b
        <5>2. b \in Int  BY <5>1, TotalOfCells DEF b
        <5> QED BY <5>1, <5>2
    <3> QED BY <3>5, <3>6 DEF RowFits, row, without, columns
  <2>3. CASE cells[1] # <<>>
    <3> DEFINE rest == <<Tail(cells[1])>> \o Tail(cells)
    <3>1. /\ rest \in Seq(CellText) /\ Len(rest) = Len(cells)
          /\ CellsLength(rest) = CellsLength(cells) - 1 /\ CellsLength(rest) \in Int
      BY <1>6, <2>3, FirstCellShorter
    <3>2. Tail(cells[1]) \in CellText /\ Tail(cells) \in Seq(CellText) /\ Len(Tail(cells)) = Len(cells) - 1
      <4>1. cells[1] \in Seq(Characters)  BY <2>1 DEF CellText
      <4>2. Tail(cells[1]) \in CellText  BY <2>3, <4>1 DEF CellText
      <4>3. Tail(cells) \in Seq(CellText) /\ Len(Tail(cells)) = Len(cells) - 1
        BY <1>6
      <4> QED BY <4>2, <4>3
    <3>3. /\ rest[1] = Tail(cells[1])
          /\ \A i \in 1..(Len(cells) - 1) : rest[i + 1] = cells[i + 1]
      <4>1. \A i \in 1..(Len(cells) - 1) : Tail(cells)[i] = cells[i + 1]
        BY <1>6
      <4> DEFINE x == Tail(cells[1])
                 s == Tail(cells)
      <4> HIDE DEF x, s
      <4>2. x \in CellText /\ s \in Seq(CellText) /\ Len(s) = Len(cells) - 1
        BY <3>2 DEF x, s
      <4>3. (<<x>> \o s)[1] = x /\ \A i \in 1..Len(s) : (<<x>> \o s)[i + 1] = s[i]
        BY <4>2, Prepended
      <4> QED BY <4>1, <4>2, <4>3 DEF x, s
    <3>4. without = Append(rest, suffix)
      <4> DEFINE x == Tail(cells[1])
                 s == Tail(cells)
      <4>1. without = <<x>> \o Append(s, suffix)  BY <1>2, <2>1, <2>3
      <4>2. x \in CellText /\ s \in Seq(CellText)  BY <3>2
      <4> HIDE DEF x, s
      <4>3. <<x>> \in Seq(CellText)  BY <4>2
      <4> DEFINE one == <<x>>
      <4> HIDE DEF one
      <4>4. one \in Seq(CellText)  BY <4>3 DEF one
      <4>5. one \o Append(s, suffix) = Append(one \o s, suffix)
        <5>1. Append(s, suffix) = s \o <<suffix>> /\ <<suffix>> \in Seq(CellText)
          BY <4>2, AppendIsConcat
        <5>2. one \o (s \o <<suffix>>) = (one \o s) \o <<suffix>>
          BY <4>2, <4>4, <5>1, ConcatAssociative
        <5>3. one \o s \in Seq(CellText)  BY <4>2, <4>4
        <5>4. Append(one \o s, suffix) = (one \o s) \o <<suffix>>
          BY <5>3, AppendIsConcat
        <5> QED BY <5>1, <5>2, <5>4
      <4> QED BY <4>1, <4>5 DEF one, x, s
    <3> HIDE DEF rest
    <3>5. Front(without) = rest /\ Last(without) = suffix
      BY <3>1, <3>4, FrontOfAppend
    <3>6. row \in WikiLine /\ row.mark = "!" /\ row.cells = rest
      BY <1>1, <1>4, <3>1, <3>5 DEF WikiLine
    <3>7. ASSUME ~HoldsNested(row)
          PROVE  Length(row) = length
      <4>1. \A c \in DOMAIN rest : rest[c] # Nested /\ (c = 1 => rest[c] # Tail(Nested))
        BY <3>6, <3>7 DEF HoldsNested
      <4>2. \A c \in DOMAIN cells : cells[c] # Nested
        <5> SUFFICES ASSUME NEW c \in DOMAIN cells, cells[c] = Nested
                     PROVE  FALSE
          OBVIOUS
        <5>1. c \in DOMAIN rest /\ c \in 1..Len(cells)  BY <3>1
        <5>2. CASE c = 1  BY <3>3, <4>1, <5>1, <5>2
        <5>3. CASE c # 1
          <6>1. c - 1 \in 1..(Len(cells) - 1) /\ (c - 1) + 1 = c  BY <5>1, <5>3
          <6> QED BY <3>3, <4>1, <5>1, <6>1
        <5> QED BY <5>2, <5>3
      <4>3. 1 + CellsLength(cells) = length  BY <1>6, <4>2
      <4>4. Length(row) = 2 + CellsLength(rest)  BY <1>3, <3>5
      <4> DEFINE a == CellsLength(rest)
                 b == CellsLength(cells)
      <4> HIDE DEF a, b
      <4>5. a \in Int /\ a = b - 1 /\ 1 + b = length /\ Length(row) = 2 + a
        BY <3>1, <4>3, <4>4 DEF a, b
      <4>6. b \in Int  BY TotalOfCells DEF b
      <4> QED BY <4>5, <4>6
    <3> QED BY <3>6, <3>7 DEF RowFits, row, without, columns
  <2> QED BY <2>2, <2>3
<1> QED BY <1>5, <1>6

LEMMA FrontOfColumns ==
  ASSUME NEW T, NEW s \in Seq(T), s # <<>>
  PROVE  /\ Front(s) \in Seq(T) /\ Len(Front(s)) = Len(s) - 1 /\ Last(s) \in T
         /\ Front(s) = <<>> => s = <<Last(s)>>
<1>1. Len(s) \in Nat /\ Len(s) # 0 /\ Front(s) = SubSeq(s, 1, Len(s) - 1) /\ Last(s) = s[Len(s)]
  BY DEF Front, Last
<1>2. Front(s) \in Seq(T) /\ Len(Front(s)) = Len(s) - 1 /\ Last(s) \in T
  <2> DEFINE m == Len(s) - 1
  <2>0. m \in Nat /\ m =< Len(s)  BY <1>1
  <2> HIDE DEF m
  <2>1. SubSeq(s, 1, m) \in Seq(T) /\ Len(SubSeq(s, 1, m)) = m  BY <2>0
  <2>2. s[Len(s)] \in T  BY <1>1
  <2> QED BY <1>1, <2>1, <2>2 DEF m
<1>3. ASSUME Front(s) = <<>>
      PROVE  s = <<Last(s)>>
  <2>1. Len(s) = 1
    <3>1. Len(Front(s)) = 0  BY <1>3
    <3> QED BY <1>1, <1>2, <3>1
  <2> DEFINE x == Last(s)
  <2>2. s[1] = x  BY <1>1, <2>1
  <2> HIDE DEF x
  <2> QED BY <2>1, <2>2 DEF x
<1> QED BY <1>2, <1>3

\* The lines of a formatted table, one for each row unless a bare bar and the row
\* below it become one, are equally long.
LEMMA ColumnsFormatted ==
  ASSUME NEW columns \in Seq(Seq(CellText) \ {<<>>}), columns # <<>>,
         NEW prevents \in BOOLEAN,
         prevents /\ columns[1] = <<<<>>>> => Len(columns) >= 2,
         NEW result, result = FormatColumns(columns, prevents)
  PROVE  /\ result \in Seq(WikiLine) /\ Len(result) =< Len(columns)
         /\ Len(result) = Len(columns) =>
              \E length \in Int : \A i \in 1..Len(result) : RowFits(result[i], length)
<1> DEFINE n == Len(columns)
           table == [i \in DOMAIN columns |-> Front(columns[i])]
           padded == Computed(Padded(table))
           first == IF columns[1] = <<<<>>>> THEN 2 ELSE 1
           literal ==
             IF first = 2 THEN <<<<>>>> \o Append(padded[2], Last(columns[2]))
             ELSE WithoutSecond(Append(padded[1], Last(columns[1])))
           row == LiteralRow(literal)
           below == [i \in 1..(n - first) |-> Plain(padded, columns, i + first)]
           all == [i \in DOMAIN columns |-> Plain(padded, columns, i)]
<1>1. /\ n \in Nat /\ n >= 1 /\ DOMAIN columns = 1..n
      /\ \A i \in 1..n : columns[i] \in Seq(CellText) /\ columns[i] # <<>>
  OBVIOUS
<1>2. table \in Seq(Seq(CellText)) /\ Len(table) = n /\ \A i \in 1..n : table[i] = Front(columns[i])
  <2>1. \A i \in 1..n : Front(columns[i]) \in Seq(CellText)
    BY <1>1, FrontOfColumns
  <2>2. table \in [1..n -> Seq(CellText)] /\ \A i \in 1..n : table[i] = Front(columns[i])
    BY <1>1, <2>1
  <2> HIDE DEF n, table
  <2> QED BY <1>1, <2>2, FunctionIsSeq
<1>3. result = Computed(IF prevents THEN <<row>> \o below ELSE all)
  BY DEF FormatColumns
<1> HIDE DEF n, table
<1>4. table # <<>>  BY <1>1, <1>2
<1>5. /\ padded = Padded(table)
      /\ padded \in Seq(Seq(CellText)) /\ Len(padded) = n
      /\ \A i \in 1..n : Len(padded[i]) = Len(table[i])
  <2>1. /\ Padded(table) \in Seq(Seq(CellText)) /\ Len(Padded(table)) = n
        /\ \A i \in 1..n : Len(Padded(table)[i]) = Len(table[i])
    BY <1>2, <1>4, RowsArePadded
  <2>2. padded = Padded(table)  BY <2>1, ComputedIs
  <2> QED BY <2>1, <2>2
<1>6. PICK f : Totals(AdjustedWidths(table), NumberOfColumns(table), f)
  <2>1. /\ NumberOfColumns(table) \in Nat
        /\ AdjustedWidths(table) \in [1..NumberOfColumns(table) -> Nat]
    BY <1>2, <1>4, ColumnsOfTable, AdjustedWidthsFit
  <2>2. AdjustedWidths(table) \in [1..NumberOfColumns(table) -> Int]  BY <2>1
  <2> QED BY <2>1, <2>2, TotalsExist
<1> DEFINE length == 1 + (f[NumberOfColumns(table)] + NumberOfColumns(table))
<1>7. length \in Int
  <2>1. NumberOfColumns(table) \in Nat  BY <1>2, <1>4, ColumnsOfTable
  <2>2. f \in [0..NumberOfColumns(table) -> Int]  BY <1>6 DEF Totals
  <2>3. NumberOfColumns(table) \in 0..NumberOfColumns(table)  BY <2>1
  <2>4. f[NumberOfColumns(table)] \in Int  BY <2>2, <2>3
  <2> QED BY <2>1, <2>4
<1>8. ASSUME NEW i \in 1..n, padded[i] # <<>>, \A c \in DOMAIN padded[i] : padded[i][c] # Nested
      PROVE  1 + CellsLength(padded[i]) = length
  <2>1. table[i] \in Seq(CellText) /\ padded[i] \in Seq(CellText) /\ Len(padded[i]) = Len(table[i])
    BY <1>2, <1>5
  <2>2. i \in DOMAIN table /\ table[i] # <<>> /\ DOMAIN table[i] = DOMAIN padded[i]
    <3>1. Len(padded[i]) # 0  BY <1>8, <2>1, Emptiness, Zenon
    <3>2. table[i] # <<>>  BY <2>1, <3>1, Emptiness, Zenon
    <3>3. DOMAIN table[i] = DOMAIN padded[i]  BY <2>1, Emptiness, Zenon
    <3> QED BY <1>2, <3>2, <3>3
  <2>3. CellsLength(Padded(table)[i]) = f[NumberOfColumns(table)] + NumberOfColumns(table)
    BY <1>2, <1>4, <1>5, <1>6, <1>8, <2>2, PaddedRowLength
  <2> QED BY <1>5, <2>3
<1> HIDE DEF padded, length
<1>9. ASSUME NEW i \in 1..n
      PROVE  Plain(padded, columns, i) \in WikiLine /\ RowFits(Plain(padded, columns, i), length)
  <2> DEFINE line == Plain(padded, columns, i)
  <2>1. padded[i] \in Seq(CellText) /\ Last(columns[i]) \in CellText
    BY <1>1, <1>5, FrontOfColumns
  <2>2. line = [mark |-> "", cells |-> padded[i], suffix |-> Last(columns[i])]
    BY DEF Plain, TableRow
  <2> HIDE DEF line
  <2>3. line \in WikiLine  BY <2>1, <2>2 DEF WikiLine, Marks
  <2>4. line.cells = padded[i] /\ line.mark # "!"  BY <2>2
  <2>5. ASSUME line.cells # <<>>, ~HoldsNested(line)
        PROVE  Length(line) = length
    <3>1. \A c \in DOMAIN padded[i] : padded[i][c] # Nested
      BY <2>4, <2>5 DEF HoldsNested
    <3>2. Length(line) = 1 + CellsLength(padded[i])  BY <2>4 DEF Length
    <3> QED BY <1>8, <2>4, <2>5, <3>1, <3>2
  <2> QED BY <2>3, <2>5 DEF RowFits, line
<1>10. CASE ~prevents
  <2>1. all \in [1..n -> WikiLine] /\ \A i \in 1..n : all[i] = Plain(padded, columns, i)
    BY <1>1, <1>9
  <2> HIDE DEF all
  <2>2. all \in Seq(WikiLine) /\ Len(all) = n  BY <1>1, <2>1, FunctionIsSeq
  <2>3. result = all  BY <1>3, <1>10, <2>2, ComputedIs
  <2>4. \A i \in 1..Len(result) : RowFits(result[i], length)
    BY <1>9, <2>1, <2>2, <2>3
  <2> QED BY <1>1, <1>7, <2>2, <2>3, <2>4 DEF n
<1>11. ASSUME n - first \in Nat
       PROVE  /\ below \in Seq(WikiLine) /\ Len(below) = n - first
              /\ \A i \in 1..(n - first) : below[i] = Plain(padded, columns, i + first)
              /\ \A i \in 1..(n - first) : i + first \in 1..n
  <2>1. first \in 1..2  OBVIOUS
  <2> DEFINE m == n - first
  <2> HIDE DEF first
  <2>2. \A i \in 1..m : i + first \in 1..n  BY <1>1, <2>1
  <2>3. below \in [1..m -> WikiLine] /\ \A i \in 1..m : below[i] = Plain(padded, columns, i + first)
    BY <1>9, <2>2
  <2> HIDE DEF m, below
  <2>4. below \in Seq(WikiLine) /\ Len(below) = m
    BY <1>11, <2>3, FunctionIsSeq DEF m
  <2> QED BY <2>2, <2>3, <2>4 DEF m
<1>12. CASE prevents /\ columns[1] # <<<<>>>>
  <2>1. first = 1 /\ row = LiteralRow(WithoutSecond(Append(padded[1], Last(columns[1]))))
    BY <1>12
  <2>2. /\ below \in Seq(WikiLine) /\ Len(below) = n - 1
        /\ \A i \in 1..(n - 1) : below[i] = Plain(padded, columns, i + 1)
        /\ \A i \in 1..(n - 1) : i + 1 \in 1..n
    <3>1. n - first \in Nat  BY <1>1, <2>1
    <3> HIDE DEF below, first
    <3> QED BY <1>11, <2>1, <3>1
  <2> DEFINE cells == padded[1]
             suffix == Last(columns[1])
  <2>3. 1 \in 1..n /\ cells \in Seq(CellText) /\ suffix \in CellText /\ Len(cells) = Len(table[1])
    BY <1>1, <1>5, FrontOfColumns
  <2>4. cells # <<>> \/ suffix # <<>>
    <3> SUFFICES ASSUME cells = <<>>
                 PROVE  suffix # <<>>
      OBVIOUS
    <3>1. Front(columns[1]) \in Seq(CellText) /\ Len(Front(columns[1])) = 0
      BY <1>1, <1>2, <2>3, FrontOfColumns
    <3>2. columns[1] = <<suffix>>  BY <1>1, <2>3, <3>1, FrontOfColumns
    <3> QED BY <1>12, <3>2
  <2>5. cells # <<>> /\ (\A c \in DOMAIN cells : cells[c] # Nested) => 1 + CellsLength(cells) = length
    BY <1>8, <2>3
  <2> HIDE DEF cells, suffix
  <2>6. row \in WikiLine /\ RowFits(row, length)
    <3>1. row = LiteralRow(WithoutSecond(Append(cells, suffix)))
      BY <2>1 DEF cells, suffix
    <3> HIDE DEF row
    <3> QED BY <1>7, <2>3, <2>4, <2>5, <3>1, LiteralRowFits
  <2> HIDE DEF row, below, literal, first
  <2> DEFINE lines == <<row>> \o below
  <2>7. /\ lines \in Seq(WikiLine) /\ Len(lines) = 1 + Len(below) /\ lines[1] = row
        /\ \A i \in 1..Len(below) : lines[i + 1] = below[i]
    BY <2>2, <2>6, Prepended
  <2>8. result = Computed(lines)  BY <1>3, <1>12
  <2> HIDE DEF lines
  <2>9. result = lines /\ Len(lines) = n  BY <1>1, <2>2, <2>7, <2>8, ComputedIs
  <2>10. ASSUME NEW i \in 1..n
         PROVE  RowFits(lines[i], length)
    <3>1. CASE i = 1  BY <2>6, <2>7, <3>1
    <3>2. CASE i # 1
      <4>1. i - 1 \in 1..(n - 1) /\ (i - 1) + 1 = i  BY <1>1, <3>2
      <4>2. lines[i] = Plain(padded, columns, i)  BY <2>2, <2>7, <4>1
      <4> QED BY <1>9, <4>2
    <3> QED BY <3>1, <3>2
  <2>11. result \in Seq(WikiLine) /\ Len(result) = n  BY <2>7, <2>9
  <2>12. \A i \in 1..Len(result) : RowFits(result[i], length)  BY <2>9, <2>10
  <2> QED BY <1>1, <1>7, <2>11, <2>12 DEF n
<1>13. CASE prevents /\ columns[1] = <<<<>>>>
  <2>1. first = 2 /\ row = LiteralRow(<<<<>>>> \o Append(padded[2], Last(columns[2]))) /\ n >= 2
    BY <1>13 DEF n
  <2>2. below \in Seq(WikiLine) /\ Len(below) = n - 2  BY <1>1, <1>11, <2>1
  <2>3. row \in WikiLine
    <3> DEFINE cells == padded[2]
               suffix == Last(columns[2])
               columns2 == Append(cells, suffix)
               merged == <<<<>>>> \o columns2
    <3>1. cells \in Seq(CellText) /\ suffix \in CellText
      BY <1>1, <1>5, <2>1, FrontOfColumns
    <3> HIDE DEF cells, suffix
    <3>2. columns2 \in Seq(CellText)  BY <3>1
    <3>3. <<>> \in CellText  BY DEF CellText
    <3> HIDE DEF columns2
    <3>4. merged \in Seq(CellText) /\ Len(merged) = 1 + Len(columns2)
      BY <3>2, <3>3, Prepended
    <3>5. merged # <<>>
      <4> HIDE DEF merged
      <4> QED BY <3>2, <3>4
    <3>6. row = [mark |-> "!", cells |-> Front(merged), suffix |-> Last(merged)]
      BY <2>1 DEF LiteralRow, TableRow, cells, suffix, columns2
    <3> HIDE DEF merged, row
    <3>7. Front(merged) \in Seq(CellText) /\ Last(merged) \in CellText
      BY <3>4, <3>5, FrontOfColumns
    <3> QED BY <3>6, <3>7 DEF WikiLine, Marks
  <2> HIDE DEF row, below, literal, first
  <2>4. <<row>> \o below \in Seq(WikiLine) /\ Len(<<row>> \o below) = 1 + Len(below)
    BY <2>2, <2>3, Prepended
  <2>5. result = <<row>> \o below  BY <1>3, <1>13, <2>4, ComputedIs
  <2>6. Len(result) = n - 1  BY <1>1, <2>1, <2>2, <2>4, <2>5
  <2>7. result \in Seq(WikiLine)  BY <2>4, <2>5
  <2>8. n - 1 =< n /\ n - 1 # n  BY <1>1
  <2> QED BY <2>6, <2>7, <2>8 DEF n
<1> QED BY <1>10, <1>12, <1>13

-----------------------------------------------------------------------------
(* The lines of a formatted text *)

LEMMA TablesAreFormatted ==
  ASSUME NEW rows \in Seq(WikiLine), NEW result, result = FormatTable(rows)
  PROVE  /\ result \in Seq(WikiLine) /\ Len(result) =< Len(rows)
         /\ Len(result) = Len(rows) =>
              \E length \in Int : \A i \in 1..Len(result) : RowFits(result[i], length)
<1> DEFINE n == Len(rows)
           columns == [i \in DOMAIN rows |-> SplitRow(rows, i)]
           prevents == Prevents(rows) # {}
<1>1. n \in Nat /\ DOMAIN rows = 1..n  OBVIOUS
<1>2. result = FormatColumns(Computed(columns), prevents)  BY DEF FormatTable
<1>3. columns \in [1..n -> Seq(CellText) \ {<<>>}] /\ \A i \in 1..n : columns[i] = SplitRow(rows, i)
  <2>1. \A i \in 1..n : SplitRow(rows, i) \in Seq(CellText) \ {<<>>}
    BY <1>1, RowsAreSplit
  <2> QED BY <1>1, <2>1
<1>4. Prevents(rows) \subseteq 1..n  BY <1>1 DEF Prevents
<1> HIDE DEF n, columns
<1>5. columns \in Seq(Seq(CellText) \ {<<>>}) /\ Len(columns) = n
  BY <1>1, <1>3, FunctionIsSeq
<1>6. Computed(columns) = columns  BY <1>5, ComputedIs
<1>7. CASE n = 0
  <2>1. columns = <<>> /\ Prevents(rows) = {}  BY <1>4, <1>5, <1>7
  <2>2. result = FormatColumns(<<>>, FALSE)  BY <1>2, <1>6, <2>1
  <2>3. FormatColumns(<<>>, FALSE) = Computed([i \in DOMAIN <<>> |-> Plain(Computed(Padded([j \in DOMAIN <<>> |-> Front(<<>>[j])])), <<>>, i)])
    BY Zenon DEF FormatColumns
  <2> DEFINE none == [i \in DOMAIN <<>> |-> Plain(Computed(Padded([j \in DOMAIN <<>> |-> Front(<<>>[j])])), <<>>, i)]
  <2>4. none = <<>>  OBVIOUS
  <2> HIDE DEF none
  <2>5. none \in Seq(WikiLine) /\ Len(none) = 0  BY <2>4
  <2>6. result = none  BY <2>2, <2>3, <2>5, ComputedIs DEF none
  <2>7. \A i \in 1..Len(result) : RowFits(result[i], 0)  BY <2>5, <2>6
  <2> QED BY <1>7, <2>5, <2>6, <2>7 DEF n
<1>8. CASE n # 0
  <2>1. columns # <<>>  BY <1>1, <1>5, <1>8
  <2>2. ASSUME prevents, columns[1] = <<<<>>>>
        PROVE  Len(columns) >= 2
    <3>1. SUFFICES ASSUME n = 1
                   PROVE  FALSE
      BY <1>1, <1>5, <1>8
    <3>2. Prevents(rows) \in SUBSET Nat  BY <1>1, <1>4
    <3>3. Min(Prevents(rows)) \in Prevents(rows)  BY <2>2, <3>2, MinOf
    <3>4. Min(Prevents(rows)) = 1 /\ 1 \in DOMAIN rows
      BY <1>1, <1>4, <3>1, <3>3
    <3>5. SplitRow(rows, 1) # <<<<>>>>  BY <2>2, <3>4, RowsAreSplit
    <3> QED BY <1>1, <1>3, <2>2, <3>1, <3>5
  <2> HIDE DEF prevents
  <2>3. prevents \in BOOLEAN  BY DEF prevents
  <2>4. result = FormatColumns(columns, prevents)  BY <1>2, <1>6
  <2>5. /\ result \in Seq(WikiLine) /\ Len(result) =< Len(columns)
        /\ Len(result) = Len(columns) =>
             \E length \in Int : \A i \in 1..Len(result) : RowFits(result[i], length)
    BY <1>5, <2>1, <2>2, <2>3, <2>4, ColumnsFormatted
  <2> QED BY <1>5, <2>5 DEF n
<1> QED BY <1>7, <1>8

LinesUp(lines) == \A i \in 2..Len(lines) : LineUp(lines[i - 1], lines[i])

FormatNext(page, done, line) == FormatLine(done, line)

\* The first k lines are done, but for the table rows at their end; none of their
\* rows is out of line unless two of them became one.
Formatted(page, k, done) ==
  /\ done \in [text : Seq(WikiLine), table : Seq(WikiLine)]
  /\ Len(done.text) + Len(done.table) =< k
  /\ Len(done.text) + Len(done.table) = k => LinesUp(done.text)
  /\ done.text = <<>> \/ ~IsTableRow(Last(done.text))
  /\ k >= 1 /\ ~IsTableRow(page[k]) => done.table = <<>> /\ done.text # <<>>

G == INSTANCE Folding WITH Op <- FormatNext, Inv <- Formatted

LEMMA LinesAreFormatted ==
  ASSUME NEW page \in Seq(WikiLine), NEW k \in 1..Len(page), NEW done,
         Formatted(page, k - 1, done)
  PROVE  Formatted(page, k, FormatLine(done, page[k]))
<1> DEFINE line == page[k]
           new == FormatLine(done, line)
<1>1. line \in WikiLine /\ k \in Nat  OBVIOUS
<1> HIDE DEF line
<1>2. /\ done.text \in Seq(WikiLine) /\ done.table \in Seq(WikiLine)
      /\ Len(done.text) \in Nat /\ Len(done.table) \in Nat
      /\ Len(done.text) + Len(done.table) =< k - 1
      /\ Len(done.text) + Len(done.table) = k - 1 => LinesUp(done.text)
      /\ done.text = <<>> \/ ~IsTableRow(Last(done.text))
  <2>1. done.text \in Seq(WikiLine) /\ done.table \in Seq(WikiLine)
    BY DEF Formatted
  <2> QED BY <2>1 DEF Formatted
<1>3. CASE IsTableRow(line)
  <2>1. new = [done EXCEPT !.table = Append(@, line)]  BY <1>3 DEF FormatLine
  <2>2. /\ new \in [text : Seq(WikiLine), table : Seq(WikiLine)]
        /\ new.text = done.text /\ new.table = Append(done.table, line)
    <3>1. done \in [text : Seq(WikiLine), table : Seq(WikiLine)]
      BY DEF Formatted
    <3>2. Append(done.table, line) \in Seq(WikiLine)  BY <1>1, <1>2
    <3> QED BY <2>1, <3>1, <3>2
  <2>3. Len(new.table) = Len(done.table) + 1  BY <1>1, <1>2, <2>2
  <2> HIDE DEF new
  <2>4. /\ Len(new.text) + Len(new.table) =< k
        /\ Len(new.text) + Len(new.table) = k => LinesUp(new.text)
    <3> DEFINE a == Len(done.text)
               b == Len(done.table)
    <3>1. a \in Nat /\ b \in Nat /\ a + b =< k - 1 /\ (a + b = k - 1 => LinesUp(done.text))
      BY <1>2
    <3>2. Len(new.text) = a /\ Len(new.table) = b + 1 /\ new.text = done.text
      BY <2>2, <2>3
    <3> HIDE DEF a, b
    <3> QED BY <1>1, <3>1, <3>2
  <2> QED BY <1>2, <1>3, <2>2, <2>4 DEF Formatted, new, line
<1>4. CASE ~IsTableRow(line)
  <2> DEFINE rows == FormatTable(done.table)
             start == done.text \o rows
             all == start \o <<line>>
  <2>1. new = [text |-> all, table |-> <<>>]  BY <1>4 DEF FormatLine
  <2>2. /\ rows \in Seq(WikiLine) /\ Len(rows) =< Len(done.table)
        /\ Len(rows) = Len(done.table) =>
             \E length \in Int : \A i \in 1..Len(rows) : RowFits(rows[i], length)
    BY <1>2, TablesAreFormatted
  <2> HIDE DEF rows
  <2>3. /\ start \in Seq(WikiLine) /\ Len(start) = Len(done.text) + Len(rows) /\ Len(rows) \in Nat
        /\ \A i \in 1..Len(done.text) : start[i] = done.text[i]
        /\ \A i \in 1..Len(rows) : start[Len(done.text) + i] = rows[i]
    <3>1. start \in Seq(WikiLine) /\ Len(start) = Len(done.text) + Len(rows) /\ Len(rows) \in Nat
      BY <1>2, <2>2
    <3>2. \A i \in 1..(Len(done.text) + Len(rows)) :
            start[i] = IF i =< Len(done.text) THEN done.text[i] ELSE rows[i - Len(done.text)]
      BY <1>2, <2>2, ConcatProperties
    <3> HIDE DEF start
    <3>3. \A i \in 1..Len(done.text) : start[i] = done.text[i]
      BY <1>2, <3>1, <3>2
    <3>4. ASSUME NEW i \in 1..Len(rows)
          PROVE  start[Len(done.text) + i] = rows[i]
      <4>1. /\ Len(done.text) + i \in 1..(Len(done.text) + Len(rows))
            /\ ~(Len(done.text) + i =< Len(done.text)) /\ (Len(done.text) + i) - Len(done.text) = i
        BY <1>2, <3>1
      <4> QED BY <3>2, <4>1
    <3> QED BY <3>1, <3>3, <3>4
  <2> HIDE DEF start
  <2>4. /\ all \in Seq(WikiLine) /\ Len(all) = Len(start) + 1 /\ all[Len(start) + 1] = line
        /\ \A i \in 1..Len(start) : all[i] = start[i]
    <3>1. all = Append(start, line)  BY <1>1, <2>3, AppendIsConcat
    <3> HIDE DEF all
    <3> QED BY <1>1, <2>3, <3>1
  <2> HIDE DEF all, new
  <2>5. new \in [text : Seq(WikiLine), table : Seq(WikiLine)] /\ new.text = all /\ new.table = <<>>
    BY <2>1, <2>4
  <2>6. Len(all) =< k /\ (Len(all) = k => Len(done.text) + Len(done.table) = k - 1 /\ Len(rows) = Len(done.table))
    <3> DEFINE a == Len(done.text)
               b == Len(done.table)
               c == Len(rows)
    <3>1. a \in Nat /\ b \in Nat /\ a + b =< k - 1 /\ c \in Nat /\ c =< b
      BY <1>2, <2>2, <2>3
    <3>2. Len(all) = (a + c) + 1  BY <2>3, <2>4
    <3> HIDE DEF a, b, c
    <3>3. Len(all) =< k /\ (Len(all) = k => a + b = k - 1 /\ c = b)
      BY <1>1, <3>1, <3>2
    <3> QED BY <3>3 DEF a, b, c
  <2>7. Last(all) = line /\ all # <<>>  BY <2>3, <2>4 DEF Last
  <2>8. ASSUME Len(all) = k
        PROVE  LinesUp(all)
    <3>1. LinesUp(done.text)  BY <1>2, <2>6, <2>8
    <3>2. PICK length \in Int : \A i \in 1..Len(rows) : RowFits(rows[i], length)
      BY <2>2, <2>6, <2>8
    <3> SUFFICES ASSUME NEW i \in 2..Len(all)
                 PROVE  LineUp(all[i - 1], all[i])
      BY DEF LinesUp
    <3>3. CASE i = Len(all)  BY <1>4, <2>3, <2>4, <3>3 DEF LineUp
    <3>4. CASE i =< Len(done.text)
      <4>1. i \in 2..Len(done.text) /\ i - 1 \in 1..Len(done.text) /\ i \in 1..Len(done.text) /\ i \in 1..Len(start) /\ i - 1 \in 1..Len(start)
        BY <1>2, <2>3, <3>4
      <4>2. all[i - 1] = done.text[i - 1] /\ all[i] = done.text[i]
        BY <2>3, <2>4, <4>1
      <4> QED BY <3>1, <4>1, <4>2 DEF LinesUp
    <3>5. CASE i = Len(done.text) + 1 /\ i < Len(all)
      <4>1. i - 1 = Len(done.text) /\ i - 1 \in 1..Len(done.text) /\ i - 1 \in 1..Len(start)
        BY <1>2, <2>3, <3>5
      <4>2. all[i - 1] = Last(done.text) /\ done.text # <<>>
        BY <2>3, <2>4, <4>1 DEF Last
      <4> QED BY <1>2, <4>2 DEF LineUp
    <3>6. CASE i > Len(done.text) + 1 /\ i < Len(all)
      <4> DEFINE first == Len(done.text)
                 more == Len(rows)
                 last == Len(start)
                 j == i - first
      <4>0. first \in Nat /\ more \in Nat /\ last = first + more /\ i \in Nat /\ i > first + 1 /\ i < last + 1
        BY <1>2, <2>3, <2>4, <3>6
      <4> HIDE DEF first, more, last
      <4>1. /\ j \in 1..more /\ j - 1 \in 1..more
            /\ first + j = i /\ first + (j - 1) = i - 1
            /\ i \in 1..last /\ i - 1 \in 1..last
        BY <4>0
      <4> HIDE DEF j
      <4> USE DEF first, more, last
      <4>2. all[i] = rows[j] /\ all[i - 1] = rows[j - 1]  BY <2>3, <2>4, <4>1
      <4> QED BY <3>2, <4>1, <4>2 DEF LineUp, RowFits
    <3>7. Len(all) \in Nat /\ Len(done.text) \in Nat /\ i \in Nat /\ i =< Len(all)
      BY <1>2, <2>3, <2>4
    <3> DEFINE a == Len(done.text)
               b == Len(all)
    <3>8. i = b \/ i =< a \/ (i = a + 1 /\ i < b) \/ (i > a + 1 /\ i < b)
      <4> HIDE DEF a, b
      <4>1. a \in Nat /\ b \in Nat /\ i \in Nat /\ i =< b  BY <3>7 DEF a, b
      <4> QED BY <4>1
    <3> QED BY <3>3, <3>4, <3>5, <3>6, <3>8
  <2>9. Len(new.text) + Len(new.table) = Len(all)  BY <2>3, <2>4, <2>5
  <2> QED BY <1>4, <2>5, <2>6, <2>7, <2>8, <2>9 DEF Formatted, new, line
<1> QED BY <1>3, <1>4

\* The line that Format adds.
LEMMA BlankIsProse == Blank \in WikiLine /\ ~IsTableRow(Blank) /\ ~IsRow(Blank)
<1>1. Blank = [mark |-> "prose", cells |-> <<>>, suffix |-> <<>>]
  BY DEF Blank, Line, TableRow, Prose
<1>2. <<>> \in Seq(CellText) /\ <<>> \in CellText  BY DEF CellText
<1>3. "prose" # "" /\ "prose" # "!"  OBVIOUS
<1> QED BY <1>1, <1>2, <1>3 DEF WikiLine, Prose, IsTableRow, IsRow

\* A formatted text is a text, and lines up.
THEOREM TextsAreFormatted ==
  ASSUME NEW page \in Seq(WikiLine)
  PROVE  /\ Format(page) \in Seq(WikiLine) /\ Len(Format(page)) =< Len(page)
         /\ Len(Format(page)) = Len(page) => LinesUp(Format(page))
<1> DEFINE lines == Append(page, Blank)
           n == Len(page) + 1
           start == [text |-> <<>>, table |-> <<>>]
           done == FoldLeft(FormatLine, start, lines)
<1>1. Len(page) \in Nat /\ n \in Nat /\ n >= 1  OBVIOUS
<1>2. Blank \in WikiLine /\ ~IsTableRow(Blank)  BY BlankIsProse
<1>3. lines \in Seq(WikiLine) /\ Len(lines) = n /\ DOMAIN lines = 1..n /\ lines[n] = Blank
  BY <1>2
<1>4. Format(page) = Front(done.text)  BY DEF Format
<1>5. Formatted(lines, 0, start)
  <2>1. start \in [text : Seq(WikiLine), table : Seq(WikiLine)] /\ start.text = <<>> /\ start.table = <<>>
    OBVIOUS
  <2>2. Len(start.text) + Len(start.table) = 0  BY <2>1
  <2>3. LinesUp(start.text)  BY <2>1 DEF LinesUp
  <2> HIDE DEF start
  <2> QED BY <2>1, <2>2, <2>3 DEF Formatted
<1>6. done = G!Fold(lines, start, lines)
  BY Zenon DEF G!Fold, FormatNext, FoldLeft, MapThenFoldSet, G!MapThenFoldSet,
               Max, G!Max
<1> HIDE DEF lines, start, done, n
<1>7. G!Preserves(lines, lines, n)
  BY <1>3, LinesAreFormatted DEF G!Preserves, FormatNext
<1>8. Formatted(lines, n, done)  BY <1>1, <1>3, <1>5, <1>6, <1>7, G!FoldKeeps
<1>9. done.text \in Seq(WikiLine) /\ done.table = <<>> /\ done.text # <<>>
  BY <1>1, <1>2, <1>3, <1>8 DEF Formatted
<1>10. Len(done.table) = 0  BY <1>9
<1>11. Len(done.text) \in Nat /\ Len(done.text) =< n /\ (Len(done.text) = n => LinesUp(done.text))
  BY <1>8, <1>9, <1>10 DEF Formatted
<1>12. Front(done.text) \in Seq(WikiLine) /\ Len(Front(done.text)) = Len(done.text) - 1
  BY <1>9, FrontOfColumns
<1>13. \A i \in 1..(Len(done.text) - 1) : Front(done.text)[i] = done.text[i]
  BY <1>9, <1>11 DEF Front
<1>14. ASSUME Len(Front(done.text)) = Len(page)
       PROVE  LinesUp(Front(done.text))
  <2>1. LinesUp(done.text)  BY <1>1, <1>11, <1>12, <1>14 DEF n
  <2> SUFFICES ASSUME NEW i \in 2..Len(Front(done.text))
               PROVE  LineUp(Front(done.text)[i - 1], Front(done.text)[i])
    BY DEF LinesUp
  <2>2. i \in 2..Len(done.text) /\ i \in 1..(Len(done.text) - 1) /\ i - 1 \in 1..(Len(done.text) - 1)
    BY <1>11, <1>12
  <2> QED BY <1>13, <2>1, <2>2 DEF LinesUp
<1> QED BY <1>1, <1>4, <1>11, <1>12, <1>14 DEF n

-----------------------------------------------------------------------------
(* What a cell holds *)

LEMMA CellIsSeq ==
  ASSUME NEW cell \in CellText
  PROVE  cell \in Seq(Characters) /\ Len(cell) \in Nat /\ DOMAIN cell = 1..Len(cell)
BY DEF CellText

LEMMA PrefixBounds ==
  ASSUME NEW n \in Nat, NEW s, s \subseteq 1..n
  PROVE  s \in SUBSET (0..n) /\ s \in SUBSET Nat
OBVIOUS

\* Where the characters are that are no blanks, and what is left of the cell.
LEMMA SolidPart ==
  ASSUME NEW cell \in CellText, NEW solid, solid = {k \in DOMAIN cell : cell[k] # " "}
  PROVE  /\ solid \subseteq 1..Len(cell)
         /\ solid = {} => Trim(cell) = <<>>
         /\ solid # {} =>
              /\ Min(solid) \in solid /\ Max(solid) \in solid
              /\ \A k \in solid : Min(solid) =< k /\ k =< Max(solid)
              /\ Trim(cell) = SubSeq(cell, Min(solid), Max(solid))
<1>1. Trim(cell) = IF solid = {} THEN <<>> ELSE SubSeq(cell, Min(solid), Max(solid))
  BY DEF Trim
<1>2. cell \in Seq(Characters) /\ Len(cell) \in Nat /\ DOMAIN cell = 1..Len(cell)
  BY CellIsSeq, Zenon
<1>3. solid \subseteq 1..Len(cell)  BY <1>2, Zenon
<1>4. solid \in SUBSET (0..Len(cell)) /\ solid \in SUBSET Nat
  BY <1>2, <1>3, PrefixBounds, Zenon
<1>5. ASSUME solid # {}
      PROVE  /\ Min(solid) \in solid /\ Max(solid) \in solid
             /\ \A k \in solid : Min(solid) =< k /\ k =< Max(solid)
  BY <1>2, <1>4, <1>5, MaxOf, MinOf
<1> QED BY <1>1, <1>3, <1>5

\* The characters of a, but for blanks, are those of b d places further on.
Moved(a, b, d) ==
  /\ \A k \in 1..Len(a) : a[k] # " " => k + d \in 1..Len(b) /\ b[k + d] = a[k]
  /\ \A k \in 1..Len(b) : b[k] # " " => k - d \in 1..Len(a) /\ a[k - d] = b[k]

LEMMA NotMoved == \A cell \in CellText : Moved(cell, cell, 0)
<1> SUFFICES ASSUME NEW cell \in CellText
             PROVE  Moved(cell, cell, 0)
  OBVIOUS
<1>1. Len(cell) \in Nat  BY CellIsSeq
<1>2. \A k \in 1..Len(cell) : k + 0 = k /\ k - 0 = k  BY <1>1
<1> QED BY <1>2, Zenon DEF Moved

\* Two cells hold the same if one has the characters of the other, in the same
\* distances from each other.
LEMMA MovedTrims ==
  ASSUME NEW a \in CellText, NEW b \in CellText, NEW d \in Int, Moved(a, b, d)
  PROVE  Trim(a) = Trim(b)
<1> DEFINE sa == {k \in DOMAIN a : a[k] # " "}
           sb == {k \in DOMAIN b : b[k] # " "}
<1>1. /\ a \in Seq(Characters) /\ Len(a) \in Nat /\ DOMAIN a = 1..Len(a)
      /\ b \in Seq(Characters) /\ Len(b) \in Nat /\ DOMAIN b = 1..Len(b)
  BY DEF CellText
<1>2. /\ \A k : k \in sa <=> k \in 1..Len(a) /\ a[k] # " "
      /\ \A k : k \in sb <=> k \in 1..Len(b) /\ b[k] # " "
  BY <1>1
<1>3. /\ \A k \in sa : k + d \in sb /\ b[k + d] = a[k]
      /\ \A k \in sb : k - d \in sa /\ a[k - d] = b[k]
  BY <1>2 DEF Moved
<1>4. /\ sa \subseteq 1..Len(a)
      /\ sa = {} => Trim(a) = <<>>
      /\ sa # {} =>
           /\ Min(sa) \in sa /\ Max(sa) \in sa
           /\ \A k \in sa : Min(sa) =< k /\ k =< Max(sa)
           /\ Trim(a) = SubSeq(a, Min(sa), Max(sa))
  BY SolidPart
<1>5. /\ sb \subseteq 1..Len(b)
      /\ sb = {} => Trim(b) = <<>>
      /\ sb # {} =>
           /\ Min(sb) \in sb /\ Max(sb) \in sb
           /\ \A k \in sb : Min(sb) =< k /\ k =< Max(sb)
           /\ Trim(b) = SubSeq(b, Min(sb), Max(sb))
  BY SolidPart
<1> HIDE DEF sa, sb
<1>6. sa = {} <=> sb = {}  BY <1>3
<1>7. CASE sa = {}  BY <1>4, <1>5, <1>6, <1>7
<1>8. CASE sa # {}
  <2> DEFINE low == Min(sa)
             high == Max(sa)
             first == Min(sb)
             last == Max(sb)
  <2>1. /\ low \in sa /\ high \in sa /\ first \in sb /\ last \in sb
        /\ \A k \in sa : low =< k /\ k =< high
        /\ \A k \in sb : first =< k /\ k =< last
        /\ Trim(a) = SubSeq(a, low, high) /\ Trim(b) = SubSeq(b, first, last)
    BY <1>4, <1>5, <1>6, <1>8
  <2> HIDE DEF low, high, first, last
  <2>2. low \in 1..Len(a) /\ high \in 1..Len(a) /\ first \in 1..Len(b) /\ last \in 1..Len(b)
    BY <1>4, <1>5, <2>1
  <2>3. low + d \in sb /\ high + d \in sb /\ first - d \in sa /\ last - d \in sa
    BY <1>3, <2>1
  <2>4. first =< low + d /\ low =< first - d /\ high + d =< last /\ last - d =< high /\ low =< high
    BY <2>1, <2>3
  <2>5. first = low + d /\ last = high + d /\ low =< high  BY <2>2, <2>4
  <2> DEFINE n == high - low + 1
  <2>6. n \in Nat /\ last - first + 1 = n  BY <2>2, <2>5
  <2>7. /\ SubSeq(a, low, high) \in Seq(Characters) /\ Len(SubSeq(a, low, high)) = n
        /\ \A i \in 1..n : SubSeq(a, low, high)[i] = a[low + i - 1]
    BY <1>1, <2>2, <2>5
  <2>8. /\ SubSeq(b, first, last) \in Seq(Characters) /\ Len(SubSeq(b, first, last)) = last - first + 1
        /\ \A i \in 1..(last - first + 1) : SubSeq(b, first, last)[i] = b[first + i - 1]
    BY <1>1, <2>2, <2>5
  <2>9. ASSUME NEW i \in 1..n
        PROVE  a[low + i - 1] = b[first + i - 1]
    <3> DEFINE k == low + i - 1
    <3>1. k \in 1..Len(a) /\ first + i - 1 = k + d /\ k + d \in 1..Len(b) /\ (k + d) - d = k
      BY <1>1, <2>2, <2>5
    <3> HIDE DEF k
    <3>2. CASE k \in sa  BY <1>3, <3>1, <3>2 DEF k
    <3>3. CASE k \notin sa
      <4>1. a[k] = " "  BY <1>2, <3>1, <3>3
      <4>2. k + d \notin sb  BY <1>3, <3>1, <3>3
      <4>3. b[k + d] = " "  BY <1>2, <3>1, <4>2
      <4> QED BY <3>1, <4>1, <4>3 DEF k
    <3> QED BY <3>2, <3>3
  <2> HIDE DEF n
  <2>10. SubSeq(a, low, high) = SubSeq(b, first, last)
    <3> DEFINE s == SubSeq(a, low, high)
               t == SubSeq(b, first, last)
    <3>1. s \in Seq(Characters) /\ t \in Seq(Characters) /\ Len(s) = n /\ Len(t) = n
      BY <2>6, <2>7, <2>8
    <3>2. \A i \in 1..n : s[i] = t[i]  BY <2>6, <2>7, <2>8, <2>9
    <3> HIDE DEF s, t
    <3>3. s = t  BY <3>1, <3>2, SeqEqual
    <3> QED BY <3>3 DEF s, t
  <2> QED BY <2>1, <2>10
<1> QED BY <1>7, <1>8

\* A trimmed cell has the characters of the cell; they are at the same places
\* if there was no blank before them.
LEMMA TrimMoves ==
  ASSUME NEW cell \in CellText
  PROVE  \E d \in Nat : /\ Moved(Trim(cell), cell, d)
                        /\ 1 \in DOMAIN cell /\ cell[1] # " " => d = 0
<1> DEFINE solid == {k \in DOMAIN cell : cell[k] # " "}
<1>1. cell \in Seq(Characters) /\ Len(cell) \in Nat /\ DOMAIN cell = 1..Len(cell)
  BY DEF CellText
<1>2. /\ solid \subseteq 1..Len(cell)
      /\ solid = {} => Trim(cell) = <<>>
      /\ solid # {} =>
           /\ Min(solid) \in solid /\ Max(solid) \in solid
           /\ \A k \in solid : Min(solid) =< k /\ k =< Max(solid)
           /\ Trim(cell) = SubSeq(cell, Min(solid), Max(solid))
  BY SolidPart
<1>3. \A k : k \in solid <=> k \in 1..Len(cell) /\ cell[k] # " "  BY <1>1
<1> HIDE DEF solid
<1>4. CASE solid = {}
  <2>1. Trim(cell) = <<>> /\ Len(<<>>) = 0  BY <1>2, <1>4
  <2>2. \A k \in 1..Len(cell) : cell[k] = " "  BY <1>3, <1>4
  <2> DEFINE none == Trim(cell)
  <2>3. Len(none) = 0 /\ 1..0 = {}  BY <2>1
  <2> HIDE DEF none
  <2>4. Moved(none, cell, 0)  BY <2>2, <2>3 DEF Moved
  <2> QED BY <1>3, <1>4, <2>4 DEF none
<1>5. CASE solid # {}
  <2> DEFINE low == Min(solid)
             high == Max(solid)
             part == SubSeq(cell, low, high)
  <2>1. /\ low \in 1..Len(cell) /\ high \in 1..Len(cell) /\ low =< high
        /\ \A k \in solid : low =< k /\ k =< high
        /\ Trim(cell) = part
    BY <1>2, <1>5
  <2> HIDE DEF low, high
  <2>2. /\ part \in Seq(Characters) /\ Len(part) = high - low + 1
        /\ \A i \in 1..(high - low + 1) : part[i] = cell[low + i - 1]
    BY <1>1, <2>1
  <2> HIDE DEF part
  <2> DEFINE d == low - 1
  <2>3. d \in Nat  BY <2>1
  <2>4. ASSUME NEW k \in 1..Len(part)
        PROVE  k + d \in 1..Len(cell) /\ cell[k + d] = part[k]
    <3>1. k \in 1..(high - low + 1) /\ low + k - 1 = k + d /\ k + d \in 1..Len(cell)
      BY <1>1, <2>1, <2>2
    <3> QED BY <2>2, <3>1
  <2>5. ASSUME NEW k \in 1..Len(cell), cell[k] # " "
        PROVE  k - d \in 1..Len(part) /\ part[k - d] = cell[k]
    <3>1. low =< k /\ k =< high  BY <1>3, <2>1, <2>5
    <3>2. k - d \in 1..(high - low + 1) /\ low + (k - d) - 1 = k
      BY <1>1, <2>1, <3>1
    <3> QED BY <2>2, <3>2
  <2>6. 1 \in solid => d = 0  BY <2>1, <2>3
  <2>7. 1 \in DOMAIN cell /\ cell[1] # " " => 1 \in solid  BY <1>1, <1>3
  <2> HIDE DEF d
  <2>8. Moved(part, cell, d)  BY <2>4, <2>5 DEF Moved
  <2> QED BY <2>1, <2>3, <2>6, <2>7, <2>8, Zenon
<1> QED BY <1>4, <1>5

LEMMA PadMoves ==
  ASSUME NEW cell \in CellText, NEW width \in Int, Len(cell) =< width
  PROVE  RightPad(cell, width) \in CellText /\ Moved(RightPad(cell, width), cell, 0)
<1> DEFINE n == width - Len(cell)
           blanks == [k \in 1..n |-> " "]
           padded == cell \o blanks
<1>1. n \in Nat /\ cell \in Seq(Characters) /\ Len(cell) \in Nat /\ blanks \in [1..n -> Characters]
  <2>1. n \in Nat /\ cell \in Seq(Characters) /\ Len(cell) \in Nat
    BY DEF CellText
  <2>2. blanks \in [1..n -> Characters]  BY DEF Characters
  <2> QED BY <2>1, <2>2
<1>2. \A k \in 1..n : blanks[k] = " "  OBVIOUS
<1>3. RightPad(cell, width) = padded  BY DEF RightPad
<1> HIDE DEF n, blanks
<1>4. blanks \in Seq(Characters) /\ Len(blanks) = n  BY <1>1, FunctionIsSeq
<1>5. /\ padded \in Seq(Characters) /\ Len(padded) = Len(cell) + n
      /\ \A i \in 1..Len(cell) : padded[i] = cell[i]
      /\ \A i \in 1..n : padded[Len(cell) + i] = blanks[i]
  <2>1. /\ padded \in Seq(Characters) /\ Len(padded) = Len(cell) + Len(blanks)
        /\ \A i \in 1..Len(cell) : padded[i] = cell[i]
        /\ \A i \in 1..Len(blanks) : padded[Len(cell) + i] = blanks[i]
    <3>1. cell \in Seq(Characters) /\ blanks \in Seq(Characters)  BY <1>1, <1>4
    <3> QED BY <3>1, Concatenated
  <2> HIDE DEF padded
  <2> QED BY <1>4, <2>1
<1> HIDE DEF padded
<1>6. ASSUME NEW k \in 1..Len(padded), padded[k] # " "
      PROVE  k + 0 \in 1..Len(cell) /\ cell[k + 0] = padded[k]
  <2>1. CASE k \in 1..Len(cell)  BY <1>5, <2>1
  <2>2. CASE k \notin 1..Len(cell)
    <3> DEFINE i == k - Len(cell)
    <3>1. i \in 1..n /\ Len(cell) + i = k  BY <1>1, <1>5, <2>2
    <3> HIDE DEF i
    <3>2. padded[k] = " "  BY <1>2, <1>5, <3>1
    <3> QED BY <1>6, <3>2
  <2> QED BY <2>1, <2>2
<1>7. ASSUME NEW k \in 1..Len(cell)
      PROVE  k - 0 \in 1..Len(padded) /\ padded[k - 0] = cell[k]
  BY <1>1, <1>5
<1>8. Moved(padded, cell, 0)  BY <1>6, <1>7 DEF Moved
<1> QED BY <1>3, <1>5, <1>8 DEF CellText

LEMMA MovedFurther ==
  ASSUME NEW a \in CellText, NEW b \in CellText, NEW c \in CellText, NEW d \in Int,
         Moved(a, b, 0), Moved(b, c, d)
  PROVE  Moved(a, c, d)
<1>1. /\ Len(a) \in Nat /\ Len(b) \in Nat /\ Len(c) \in Nat  BY DEF CellText
<1>2. ASSUME NEW k \in 1..Len(a), a[k] # " "
      PROVE  k + d \in 1..Len(c) /\ c[k + d] = a[k]
  <2>0. k + 0 \in 1..Len(b) /\ b[k + 0] = a[k]  BY <1>2 DEF Moved
  <2>1. k + 0 = k  BY <1>1
  <2> QED BY <1>2, <2>0, <2>1 DEF Moved
<1>3. ASSUME NEW k \in 1..Len(c), c[k] # " "
      PROVE  k - d \in 1..Len(a) /\ a[k - d] = c[k]
  <2>1. k - d \in 1..Len(b) /\ b[k - d] = c[k]  BY <1>3 DEF Moved
  <2>2. (k - d) - 0 = k - d  BY <2>1
  <2> QED BY <1>3, <2>1, <2>2 DEF Moved
<1> QED BY <1>2, <1>3 DEF Moved

\* Trimmed and padded, a cell holds what it did.
LEMMA PaddedCell ==
  ASSUME NEW cell \in CellText, NEW padded \in CellText, Moved(padded, Trim(cell), 0)
  PROVE  Trim(padded) = Trim(cell)
<1>1. Trim(cell) \in CellText  BY Trimmed
<1>2. PICK d \in Nat : Moved(Trim(cell), cell, d)  BY TrimMoves
<1>3. d \in Int /\ Moved(padded, cell, d)  BY <1>1, <1>2, MovedFurther
<1> QED BY <1>3, MovedTrims

\* So does one that the mark was put before and taken from again.
LEMMA PaddedFirstCell ==
  ASSUME NEW cell \in CellText, NEW marked, marked = <<"!">> \o cell,
         NEW padded \in CellText, Moved(padded, Trim(marked), 0)
  PROVE  /\ padded # <<>> /\ Tail(padded) \in CellText
         /\ Trim(Tail(padded)) = Trim(cell)
<1>1. /\ "!" \in Characters /\ cell \in Seq(Characters) /\ Len(cell) \in Nat
      /\ padded \in Seq(Characters) /\ Len(padded) \in Nat
  BY CellIsSeq DEF Characters
<1>2. /\ marked \in Seq(Characters) /\ Len(marked) = 1 + Len(cell) /\ marked[1] = "!"
      /\ \A i \in 1..Len(cell) : marked[i + 1] = cell[i]
  BY <1>1, Prepended
<1>3. marked \in CellText /\ 1 \in DOMAIN marked  BY <1>1, <1>2 DEF CellText
<1>4. Moved(Trim(marked), marked, 0)
  <2>1. marked[1] # " "  BY <1>2
  <2> QED BY <1>3, <2>1, TrimMoves
<1>5. Moved(padded, marked, 0)
  <2>1. Trim(marked) \in CellText  BY <1>3, Trimmed
  <2> QED BY <1>3, <1>4, <2>1, MovedFurther
<1>6. 1 \in 1..Len(padded)
  <2>1. 1 \in 1..Len(marked) /\ marked[1] # " "  BY <1>1, <1>2
  <2>2. 1 - 0 \in 1..Len(padded)  BY <1>5, <2>1 DEF Moved
  <2> QED BY <2>2
<1>7. padded # <<>>  BY <1>1, <1>6
<1> DEFINE rest == Tail(padded)
<1>8. /\ rest \in Seq(Characters) /\ Len(rest) = Len(padded) - 1
      /\ \A i \in 1..(Len(padded) - 1) : rest[i] = padded[i + 1]
  BY <1>1, <1>7
<1> HIDE DEF rest
<1>9. ASSUME NEW k \in 1..Len(rest), rest[k] # " "
      PROVE  k + 0 \in 1..Len(cell) /\ cell[k + 0] = rest[k]
  <2>1. k + 1 \in 1..Len(padded) /\ padded[k + 1] = rest[k] /\ k \in Nat
    BY <1>1, <1>8
  <2>2. (k + 1) + 0 \in 1..Len(marked) /\ marked[(k + 1) + 0] = rest[k]
    BY <1>5, <1>9, <2>1 DEF Moved
  <2>3. k \in 1..Len(cell) /\ (k + 1) + 0 = k + 1 /\ k + 0 = k
    BY <1>1, <1>2, <2>1, <2>2, <1>8
  <2> QED BY <1>2, <2>2, <2>3
<1>10. ASSUME NEW k \in 1..Len(cell), cell[k] # " "
       PROVE  k - 0 \in 1..Len(rest) /\ rest[k - 0] = cell[k]
  <2>1. k + 1 \in 1..Len(marked) /\ marked[k + 1] = cell[k] /\ k \in Nat
    BY <1>1, <1>2
  <2>2. (k + 1) - 0 \in 1..Len(padded) /\ padded[(k + 1) - 0] = cell[k]
    BY <1>5, <1>10, <2>1 DEF Moved
  <2>3. k \in 1..(Len(padded) - 1) /\ (k + 1) - 0 = k + 1 /\ k - 0 = k
    BY <1>1, <2>1, <2>2
  <2> QED BY <1>8, <2>2, <2>3
<1>11. Moved(rest, cell, 0)  BY <1>9, <1>10 DEF Moved
<1>12. rest \in CellText  BY <1>8 DEF CellText
<1>13. Trim(rest) = Trim(cell)  BY <1>11, <1>12, MovedTrims
<1> QED BY <1>7, <1>12, <1>13 DEF rest

-----------------------------------------------------------------------------
(* What a formatted row holds *)

\* A padded cell has the characters it had.
LEMMA PaddedCells ==
  ASSUME NEW table \in Seq(Seq(CellText)), table # <<>>,
         NEW i \in DOMAIN table, NEW c \in DOMAIN table[i]
  PROVE  Padded(table)[i][c] \in CellText /\ Moved(Padded(table)[i][c], table[i][c], 0)
<1> DEFINE widths == AdjustedWidths(table)
           Pad(k) == IF table[i][k] = Nested THEN Nested
                     ELSE RightPad(table[i][k], ColumnWidth(table, widths, i, k))
           cells == [k \in DOMAIN table[i] |-> Pad(k)]
           n == Len(table[i])
<1>1. Padded(table)[i] = Computed(cells)  BY DEF Padded, PaddedTo
<1>2. n \in Nat /\ DOMAIN table[i] = 1..n  OBVIOUS
<1>3. ASSUME NEW k \in 1..n
      PROVE  Pad(k) \in CellText /\ Moved(Pad(k), table[i][k], 0)
  <2> DEFINE cell == table[i][k]
             width == ColumnWidth(table, widths, i, k)
  <2>1. cell \in CellText  OBVIOUS
  <2>2. width \in Int /\ Len(cell) =< width  BY CellsFit
  <2>3. Pad(k) = IF cell = Nested THEN Nested ELSE RightPad(cell, width)
    OBVIOUS
  <2> HIDE DEF widths, cell, width, Pad
  <2>4. CASE cell = Nested
    <3>1. Moved(cell, cell, 0)  BY <2>1, NotMoved
    <3> QED BY <2>1, <2>3, <2>4, <3>1 DEF cell
  <2>5. CASE cell # Nested  BY <2>1, <2>2, <2>3, <2>5, PadMoves DEF cell
  <2> QED BY <2>4, <2>5
<1> HIDE DEF widths, Pad
<1>4. cells \in [1..n -> CellText] /\ cells[c] = Pad(c)  BY <1>2, <1>3
<1> HIDE DEF cells
<1>5. Computed(cells) = cells
  <2> HIDE DEF n
  <2>1. cells \in Seq(CellText)  BY <1>2, <1>4, FunctionIsSeq
  <2> QED BY <2>1, ComputedIs
<1> QED BY <1>1, <1>2, <1>3, <1>4, <1>5

\* The columns of a row are its cells, trimmed, and its suffix; the first may have
\* the row's mark in it.
LEMMA ColumnsOfRow ==
  ASSUME NEW rows \in Seq(WikiLine), NEW i \in DOMAIN rows,
         NEW marked \in BOOLEAN,
         marked <=> Prevents(rows) # {} /\ i = Min(Prevents(rows))
  PROVE  /\ SplitRow(rows, i) \in Seq(CellText)
         /\ Len(SplitRow(rows, i)) = Len(rows[i].cells) + 1
         /\ \A c \in 1..Len(rows[i].cells) :
              SplitRow(rows, i)[c] =
                Trim(IF marked /\ c = 1 THEN <<"!">> \o rows[i].cells[1] ELSE rows[i].cells[c])
<1> DEFINE cells == rows[i].cells
           columns == Append(cells, rows[i].suffix)
           n == Len(cells)
           first == IF marked THEN <<"!">> \o columns[1] ELSE columns[1]
           rest == Tail(columns)
           all == <<first>> \o rest
<1>1. cells \in Seq(CellText) /\ rows[i].suffix \in CellText /\ n \in Nat
  <2>1. rows[i] \in WikiLine  OBVIOUS
  <2>2. cells \in Seq(CellText) /\ rows[i].suffix \in CellText
    BY <2>1 DEF WikiLine
  <2> QED BY <2>2
<1>2. SplitRow(rows, i) = TrimAll(all)  BY DEF SplitRow
<1>3. /\ columns \in Seq(CellText) /\ Len(columns) = n + 1
      /\ \A c \in 1..n : columns[c] = cells[c]
  BY <1>1
<1> HIDE DEF columns, cells
<1>4. /\ rest \in Seq(CellText) /\ Len(rest) = n
      /\ \A c \in 1..n : rest[c] = columns[c + 1]
  BY <1>1, <1>3
<1> HIDE DEF rest, n
<1>5. first \in CellText
  <2> DEFINE bang == <<"!">>
             head == columns[1]
  <2>1. head \in Seq(Characters)
    <3>1. columns[1] \in CellText  BY <1>1, <1>3
    <3> QED BY <3>1 DEF CellText
  <2>2. bang \in Seq(Characters)  BY DEF Characters
  <2> HIDE DEF bang, head
  <2>3. bang \o head \in Seq(Characters)  BY <2>1, <2>2
  <2>4. first = IF marked THEN bang \o head ELSE head  BY DEF bang, head
  <2> HIDE DEF first
  <2> QED BY <2>1, <2>3, <2>4 DEF CellText
<1>6. first = IF marked THEN <<"!">> \o columns[1] ELSE columns[1]  OBVIOUS
<1> HIDE DEF first
<1>7. /\ all \in Seq(CellText) /\ Len(all) = n + 1 /\ all[1] = first
      /\ \A c \in 1..n : all[c + 1] = rest[c]
  <2>1. /\ all \in Seq(CellText) /\ Len(all) = 1 + Len(rest) /\ all[1] = first
        /\ \A c \in 1..Len(rest) : all[c + 1] = rest[c]
    BY <1>4, <1>5, Prepended
  <2> HIDE DEF all
  <2> QED BY <1>1, <1>4, <2>1
<1> HIDE DEF all
<1>8. /\ TrimAll(all) \in Seq(CellText) /\ Len(TrimAll(all)) = n + 1
      /\ \A c \in 1..(n + 1) : TrimAll(all)[c] = Trim(all[c])
  BY <1>7, AllTrimmed
<1>9. ASSUME NEW c \in 1..n
      PROVE  TrimAll(all)[c] =
               Trim(IF marked /\ c = 1 THEN <<"!">> \o cells[1] ELSE cells[c])
  <2>0. c \in 1..(n + 1) /\ 1 \in 1..n  BY <1>1
  <2>1. CASE c = 1
    <3>1. columns[1] = cells[1]  BY <1>3, <2>0
    <3> QED BY <1>6, <1>7, <1>8, <2>0, <2>1, <3>1, Zenon
  <2>2. CASE c # 1
    <3>1. c - 1 \in 1..n /\ (c - 1) + 1 = c  BY <1>1, <2>2
    <3>2. all[c] = rest[c - 1] /\ rest[c - 1] = columns[c]  BY <1>4, <1>7, <3>1
    <3>3. all[c] = cells[c]  BY <1>3, <3>2
    <3> QED BY <1>8, <2>0, <2>2, <3>3
  <2> QED BY <2>1, <2>2
<1> QED BY <1>2, <1>8, <1>9 DEF n, cells

Fronts(columns) == [i \in DOMAIN columns |-> Front(columns[i])]

MadeLine(columns, prevents, i) ==
  IF prevents /\ i = 1
  THEN LiteralRow(WithoutSecond(Append(Padded(Fronts(columns))[1], Last(columns[1]))))
  ELSE Plain(Padded(Fronts(columns)), columns, i)

\* Which line each row of columns becomes.
LEMMA LinesOfColumns ==
  ASSUME NEW columns \in Seq(Seq(CellText) \ {<<>>}), columns # <<>>,
         NEW prevents \in BOOLEAN, prevents => columns[1] # <<<<>>>>,
         NEW result, result = FormatColumns(columns, prevents)
  PROVE  /\ Fronts(columns) \in Seq(Seq(CellText)) /\ Fronts(columns) # <<>>
         /\ Len(Fronts(columns)) = Len(columns) /\ Len(result) = Len(columns)
         /\ \A i \in 1..Len(columns) : result[i] = MadeLine(columns, prevents, i)
<1> DEFINE n == Len(columns)
           table == Fronts(columns)
           padded == Computed(Padded(table))
           first == IF columns[1] = <<<<>>>> THEN 2 ELSE 1
           literal ==
             IF first = 2 THEN <<<<>>>> \o Append(padded[2], Last(columns[2]))
             ELSE WithoutSecond(Append(padded[1], Last(columns[1])))
           row == LiteralRow(literal)
           below == [i \in 1..(n - first) |-> Plain(padded, columns, i + first)]
           all == [i \in DOMAIN columns |-> Plain(padded, columns, i)]
<1>1. /\ n \in Nat /\ n >= 1 /\ DOMAIN columns = 1..n
      /\ \A i \in 1..n : columns[i] \in Seq(CellText) /\ columns[i] # <<>>
  OBVIOUS
<1>2. table \in Seq(Seq(CellText)) /\ Len(table) = n
  <2>1. \A i \in 1..n : Front(columns[i]) \in Seq(CellText)
    BY <1>1, FrontOfColumns
  <2>2. table \in [1..n -> Seq(CellText)]  BY <1>1, <2>1 DEF Fronts
  <2> HIDE DEF n, table
  <2> QED BY <1>1, <2>2, FunctionIsSeq
<1>3. result = Computed(IF prevents THEN <<row>> \o below ELSE all)
  BY DEF FormatColumns, Fronts
<1> HIDE DEF table
<1>4. table # <<>>  BY <1>1, <1>2
<1>5. padded = Padded(table)
  <2>1. Padded(table) \in Seq(Seq(CellText))  BY <1>2, <1>4, RowsArePadded
  <2> QED BY <2>1, ComputedIs
<1> HIDE DEF n, padded
<1> DEFINE Made(i) == Plain(padded, columns, i)
           T == {row} \cup {Made(i) : i \in 1..n}
<1>6. row \in T /\ \A i \in 1..n : Made(i) \in T  OBVIOUS
<1>7. CASE ~prevents
  <2>1. all \in [1..n -> T] /\ \A i \in 1..n : all[i] = Made(i)  BY <1>1, <1>6
  <2> HIDE DEF all, T
  <2>2. all \in Seq(T) /\ Len(all) = n  BY <1>1, <2>1, FunctionIsSeq
  <2>3. result = all  BY <1>3, <1>7, <2>2, ComputedIs
  <2> QED BY <1>2, <1>4, <1>5, <1>7, <2>1, <2>2, <2>3 DEF n, table, MadeLine
<1>8. CASE prevents
  <2>1. first = 1 /\ row = LiteralRow(WithoutSecond(Append(padded[1], Last(columns[1]))))
    BY <1>8
  <2> DEFINE m == n - 1
  <2>2. m \in Nat /\ \A i \in 1..m : i + 1 \in 1..n  BY <1>1
  <2>3. below = [i \in 1..m |-> Made(i + 1)]  BY <2>1
  <2> HIDE DEF row, Made, literal, first, below, m
  <2>4. below \in [1..m -> T] /\ \A i \in 1..m : below[i] = Made(i + 1)
    BY <1>6, <2>2, <2>3
  <2> HIDE DEF T
  <2>5. below \in Seq(T) /\ Len(below) = m  BY <2>2, <2>4, FunctionIsSeq
  <2> DEFINE lines == <<row>> \o below
  <2>6. /\ lines \in Seq(T) /\ Len(lines) = 1 + m /\ lines[1] = row
        /\ \A i \in 1..m : lines[i + 1] = below[i]
    <3>1. /\ lines \in Seq(T) /\ Len(lines) = 1 + Len(below) /\ lines[1] = row
          /\ \A i \in 1..Len(below) : lines[i + 1] = below[i]
      BY <1>6, <2>5, Prepended
    <3> HIDE DEF lines
    <3> QED BY <2>5, <3>1
  <2>7. result = Computed(lines)  BY <1>3, <1>8
  <2> HIDE DEF lines
  <2>8. result = lines /\ Len(lines) = n  BY <1>1, <2>6, <2>7, ComputedIs DEF m
  <2>9. ASSUME NEW i \in 1..n, i # 1
        PROVE  lines[i] = Made(i)
    <3>1. i - 1 \in 1..m /\ (i - 1) + 1 = i  BY <1>1, <2>9 DEF m
    <3>2. lines[(i - 1) + 1] = below[i - 1] /\ below[i - 1] = Made((i - 1) + 1)
      BY <2>4, <2>6, <3>1
    <3> QED BY <3>1, <3>2
  <2>10. ASSUME NEW i \in 1..n
         PROVE  result[i] =
                  IF i = 1 THEN LiteralRow(WithoutSecond(Append(padded[1], Last(columns[1]))))
                  ELSE Plain(padded, columns, i)
    <3>1. CASE i = 1  BY <2>1, <2>6, <2>8, <3>1
    <3>2. CASE i # 1  BY <2>8, <2>9, <3>2 DEF Made
    <3> QED BY <3>1, <3>2
  <2> QED BY <1>2, <1>4, <1>5, <1>8, <2>8, <2>10 DEF n, table, MadeLine
<1> QED BY <1>7, <1>8

\* Two lines are the same for who reads the tables.
SameRow(a, b) == a.mark = b.mark /\ TrimAll(a.cells) = TrimAll(b.cells)

LEMMA ElementIn ==
  ASSUME NEW T, NEW s \in Seq(T), NEW i \in 1..Len(s)
  PROVE  s[i] \in T
OBVIOUS

LEMMA SameCells ==
  ASSUME NEW a \in Seq(CellText), NEW b \in Seq(CellText), Len(a) = Len(b),
         \A c \in 1..Len(b) : Trim(a[c]) = Trim(b[c])
  PROVE  TrimAll(a) = TrimAll(b)
<1> DEFINE s == TrimAll(a)
           t == TrimAll(b)
           n == Len(b)
<1>1. /\ s \in Seq(CellText) /\ Len(s) = n /\ \A c \in 1..n : s[c] = Trim(a[c])
      /\ t \in Seq(CellText) /\ Len(t) = n /\ \A c \in 1..n : t[c] = Trim(b[c])
  BY AllTrimmed
<1>2. \A c \in 1..n : s[c] = t[c]  BY <1>1
<1> HIDE DEF s, t, n
<1>3. s = t  BY <1>1, <1>2, SeqEqual
<1> QED BY <1>3 DEF s, t

\* A row of cells with its mark, if it has to be written, in the first one.
Held(cells, marked, c) == IF marked /\ c = 1 THEN <<"!">> \o cells[1] ELSE cells[c]

PadsOf(padded, cells, marked) ==
  /\ padded \in Seq(CellText) /\ Len(padded) = Len(cells)
  /\ \A c \in 1..Len(cells) : Moved(padded[c], Trim(Held(cells, marked, c)), 0)

\* A row that is padded as it is.
LEMMA PlainRowKept ==
  ASSUME NEW row \in WikiLine, row.mark = "", NEW suffix,
         NEW padded, PadsOf(padded, row.cells, FALSE)
  PROVE  SameRow(TableRow("", padded, suffix), row)
<1> DEFINE cells == row.cells
<1>1. cells \in Seq(CellText)  BY DEF WikiLine
<1>0. PadsOf(padded, cells, FALSE)  OBVIOUS
<1> HIDE DEF cells
<1>2. ASSUME NEW c \in 1..Len(cells)
      PROVE  Trim(padded[c]) = Trim(cells[c])
  <2>0. padded \in Seq(CellText) /\ Len(padded) = Len(cells)  BY <1>0 DEF PadsOf
  <2>1. padded[c] \in CellText /\ cells[c] \in CellText
    BY <1>1, <2>0, ElementIn, Zenon
  <2>2. Moved(padded[c], Trim(cells[c]), 0)  BY <1>0 DEF PadsOf, Held
  <2> QED BY <2>1, <2>2, PaddedCell
<1>3. TrimAll(padded) = TrimAll(cells)
  BY <1>0, <1>1, <1>2, SameCells DEF PadsOf
<1> QED BY <1>3 DEF SameRow, TableRow, cells

\* The row whose mark was a character of its first cell while it was padded.
LEMMA MarkedRowKeeps ==
  ASSUME NEW row \in WikiLine, row.mark = "!", NEW last \in CellText,
         NEW padded, PadsOf(padded, row.cells, TRUE), padded = <<>> => last # <<>>
  PROVE  SameRow(LiteralRow(WithoutSecond(Append(padded, last))), row)
<1> DEFINE known == row.cells
<1>0. known \in Seq(CellText) /\ PadsOf(padded, known, TRUE)  BY DEF WikiLine
<1> HIDE DEF known
<1> DEFINE n == Len(known)
           columns == Append(padded, last)
           head == Tail(columns[1])
           rest == Tail(columns)
           without == <<head>> \o rest
<1>1. n \in Nat /\ padded \in Seq(CellText) /\ Len(padded) = n
  BY <1>0 DEF PadsOf
<1>2. /\ columns \in Seq(CellText) /\ Len(columns) = n + 1 /\ columns[n + 1] = last
      /\ \A c \in 1..n : columns[c] = padded[c]
  BY <1>1
<1>3. ASSUME n # 0
      PROVE  /\ columns[1] # <<>> /\ head \in CellText
             /\ Trim(head) = Trim(known[1])
  <2>1. 1 \in 1..n  BY <1>1, <1>3
  <2>2. padded[1] \in CellText /\ known[1] \in CellText  BY <1>0, <1>1, <2>1
  <2>3. Moved(padded[1], Trim(<<"!">> \o known[1]), 0)
    BY <1>0, <2>1 DEF PadsOf, Held
  <2> DEFINE cell == known[1]
           pad == padded[1]
           marked == <<"!">> \o cell
  <2>4. /\ pad \in CellText /\ cell \in CellText
        /\ marked = <<"!">> \o cell /\ Moved(pad, Trim(marked), 0)
    BY <2>2, <2>3
  <2> HIDE DEF cell, pad, marked
  <2>5. pad # <<>> /\ Tail(pad) \in CellText /\ Trim(Tail(pad)) = Trim(cell)
    BY Zenon, <2>4, PaddedFirstCell
  <2> USE DEF cell, pad
  <2> QED BY <1>2, <2>1, <2>5
<1>4. columns[1] # <<>> /\ head \in CellText
  <2>1. CASE n # 0  BY <1>3, <2>1
  <2>2. CASE n = 0
    <3>1. padded = <<>> /\ columns[1] = last  BY <1>1, <1>2, <2>2
    <3>2. last # <<>> /\ last \in Seq(Characters)  BY <3>1 DEF CellText
    <3>3. Tail(last) \in Seq(Characters)  BY <3>2
    <3> QED BY <3>1, <3>2, <3>3 DEF CellText
  <2> QED BY <2>1, <2>2
<1>5. WithoutSecond(columns) = without  BY <1>4 DEF WithoutSecond
<1>6. /\ rest \in Seq(CellText) /\ Len(rest) = n
      /\ \A c \in 1..n : rest[c] = columns[c + 1]
  BY <1>1, <1>2
<1> HIDE DEF columns, rest, head, n
<1>7. /\ without \in Seq(CellText) /\ Len(without) = n + 1 /\ without[1] = head
      /\ \A c \in 1..n : without[c + 1] = rest[c]
  <2>1. /\ without \in Seq(CellText) /\ Len(without) = 1 + Len(rest) /\ without[1] = head
        /\ \A c \in 1..Len(rest) : without[c + 1] = rest[c]
    BY <1>4, <1>6, Prepended
  <2> HIDE DEF without
  <2> QED BY <1>1, <1>6, <2>1
<1> HIDE DEF without
<1> DEFINE cells == Front(without)
<1>8. /\ cells \in Seq(CellText) /\ Len(cells) = n
      /\ \A c \in 1..n : cells[c] = without[c]
  <2>1. without # <<>>  BY <1>1, <1>7
  <2>2. cells \in Seq(CellText) /\ Len(cells) = (n + 1) - 1
    BY <1>7, <2>1, FrontOfColumns
  <2>3. cells = SubSeq(without, 1, n)  BY <1>1, <1>7 DEF Front
  <2>4. \A c \in 1..n : SubSeq(without, 1, n)[c] = without[c]  BY <1>1, <1>7
  <2> HIDE DEF cells
  <2> QED BY <1>1, <2>2, <2>3, <2>4
<1> HIDE DEF cells
<1>9. ASSUME NEW c \in 1..n
      PROVE  Trim(cells[c]) = Trim(known[c])
  <2>1. n # 0 /\ cells[c] = without[c]  BY <1>1, <1>8
  <2>2. CASE c = 1  BY <1>3, <1>7, <2>1, <2>2
  <2>3. CASE c # 1
    <3>1. c - 1 \in 1..n /\ (c - 1) + 1 = c  BY <1>1, <2>3
    <3>2. without[(c - 1) + 1] = rest[c - 1] /\ rest[c - 1] = columns[(c - 1) + 1]
      BY <1>6, <1>7, <3>1
    <3>3. cells[c] = padded[c]  BY <1>2, <2>1, <3>1, <3>2
    <3>4. padded[c] \in CellText /\ known[c] \in CellText  BY <1>0, <1>1 DEF n
    <3>5. Moved(padded[c], Trim(known[c]), 0)  BY <1>0, <2>3 DEF n, PadsOf, Held
    <3> QED BY <3>3, <3>4, <3>5, PaddedCell
  <2> QED BY <2>2, <2>3
<1>10. TrimAll(cells) = TrimAll(known)  BY <1>0, <1>8, <1>9, SameCells DEF n
<1>11. LiteralRow(WithoutSecond(columns)) = [mark |-> "!", cells |-> cells, suffix |-> Last(without)]
  BY <1>5 DEF LiteralRow, TableRow, cells
<1> QED BY <1>10, <1>11 DEF SameRow, columns, known

\* No row but the first has a mark.
OneTable(rows) ==
  /\ rows[1].mark \in {"", "!"}
  /\ \A i \in 2..Len(rows) : rows[i].mark = ""

\* The rows of a table keep their marks and their cells.
LEMMA TableKeepsRows ==
  ASSUME NEW rows \in Seq(WikiLine), rows # <<>>, OneTable(rows),
         NEW result, result = FormatTable(rows)
  PROVE  /\ Len(result) = Len(rows)
         /\ \A i \in 1..Len(rows) : SameRow(result[i], rows[i])
<1> DEFINE n == Len(rows)
           columns == [i \in DOMAIN rows |-> SplitRow(rows, i)]
           prevents == Prevents(rows) # {}
           table == Fronts(columns)
<1>1. n \in Nat /\ n >= 1 /\ DOMAIN rows = 1..n /\ \A i \in 1..n : rows[i] \in WikiLine
  OBVIOUS
<1>2. result = FormatColumns(Computed(columns), prevents)  BY DEF FormatTable
<1>3. \A i \in Prevents(rows) : i = 1
  <2> SUFFICES ASSUME NEW i \in Prevents(rows), i # 1
               PROVE  FALSE
    OBVIOUS
  <2>1. i \in 2..Len(rows) /\ rows[i].mark = "!"  BY <1>1 DEF Prevents
  <2> QED BY <2>1 DEF OneTable
<1>4. ASSUME NEW i \in 1..n
      PROVE  (prevents /\ i = 1) <=> (Prevents(rows) # {} /\ i = Min(Prevents(rows)))
  <2> SUFFICES ASSUME Prevents(rows) # {}
               PROVE  Min(Prevents(rows)) = 1
    OBVIOUS
  <2>1. Prevents(rows) \in SUBSET Nat  BY <1>3
  <2> QED BY <1>3, <2>1, MinOf
<1>5. prevents <=> rows[1].mark = "!"  BY <1>1, <1>3 DEF Prevents
<1>6. columns \in [1..n -> Seq(CellText) \ {<<>>}] /\ \A i \in 1..n : columns[i] = SplitRow(rows, i)
  <2>1. \A i \in 1..n : SplitRow(rows, i) \in Seq(CellText) \ {<<>>}
    BY <1>1, RowsAreSplit
  <2> QED BY <1>1, <2>1
<1>7. ASSUME prevents
      PROVE  columns[1] # <<<<>>>>
  <2>1. 1 \in DOMAIN rows /\ Prevents(rows) # {} /\ 1 = Min(Prevents(rows))
    BY <1>1, <1>4, <1>7
  <2>2. SplitRow(rows, 1) # <<<<>>>>  BY <2>1, RowsAreSplit
  <2> QED BY <1>1, <1>6, <2>2
<1> HIDE DEF prevents, n, columns
<1>8. columns \in Seq(Seq(CellText) \ {<<>>}) /\ Len(columns) = n /\ columns # <<>>
  BY <1>1, <1>6, FunctionIsSeq
<1>9. Computed(columns) = columns  BY <1>8, ComputedIs
<1>10. prevents \in BOOLEAN  BY DEF prevents
<1> DEFINE padded == Padded(table)
           Made(i) == MadeLine(columns, prevents, i)
<1>11. /\ table \in Seq(Seq(CellText)) /\ table # <<>> /\ Len(table) = n
       /\ Len(result) = n
       /\ \A i \in 1..n : result[i] = Made(i)
  <2>1. result = FormatColumns(columns, prevents)  BY <1>2, <1>9
  <2>2. prevents => columns[1] # <<<<>>>>  BY <1>7
  <2> QED BY <1>8, <1>10, <2>1, <2>2, LinesOfColumns
<1>12. ASSUME NEW i \in 1..n
       PROVE  SameRow(result[i], rows[i])
  <2> DEFINE row == rows[i]
             m == Len(row.cells)
             pads == padded[i]
             last == Last(columns[i])
             marked == prevents /\ i = 1
  <2>1. row \in WikiLine /\ m \in Nat
    <3>1. row \in WikiLine  BY <1>1
    <3>2. row.cells \in Seq(CellText)  BY <3>1 DEF WikiLine
    <3> QED BY <3>1, <3>2
  <2>2. /\ columns[i] \in Seq(CellText) /\ Len(columns[i]) = m + 1 /\ columns[i] # <<>>
        /\ \A c \in 1..m : columns[i][c] = Trim(Held(row.cells, marked, c))
    <3>1. marked \in BOOLEAN /\ (marked <=> Prevents(rows) # {} /\ i = Min(Prevents(rows)))
      BY <1>4, <1>10
    <3>2. i \in DOMAIN rows /\ columns[i] = SplitRow(rows, i) /\ columns[i] # <<>>
      BY <1>1, <1>6
    <3> HIDE DEF marked
    <3>3. /\ SplitRow(rows, i) \in Seq(CellText) /\ Len(SplitRow(rows, i)) = m + 1
          /\ \A c \in 1..m : SplitRow(rows, i)[c] =
               Trim(IF marked /\ c = 1 THEN <<"!">> \o rows[i].cells[1] ELSE rows[i].cells[c])
      BY <3>1, <3>2, ColumnsOfRow
    <3> QED BY <3>2, <3>3 DEF Held
  <2>3. last \in CellText /\ table[i] \in Seq(CellText) /\ Len(table[i]) = m
        /\ \A c \in 1..m : table[i][c] = columns[i][c]
    <3> DEFINE cells == columns[i]
    <3>1. table[i] = Front(cells)
      <4>1. i \in DOMAIN columns  BY <1>6
      <4> QED BY <4>1 DEF Fronts
    <3>2. cells \in Seq(CellText) /\ Len(cells) = m + 1 /\ cells # <<>>  BY <2>2
    <3> HIDE DEF table, cells, m
    <3>3. Front(cells) \in Seq(CellText) /\ Len(Front(cells)) = (m + 1) - 1 /\ Last(cells) \in CellText
      BY <3>2, FrontOfColumns
    <3>4. Front(cells) = SubSeq(cells, 1, m)  BY <2>1, <3>2 DEF Front
    <3>5. \A c \in 1..m : SubSeq(cells, 1, m)[c] = cells[c]  BY <2>1, <3>2
    <3> QED BY <2>1, <3>1, <3>3, <3>4, <3>5 DEF cells
  <2>4. i \in DOMAIN table /\ DOMAIN table[i] = 1..m  BY <1>11, <2>3
  <2>5. pads \in Seq(CellText) /\ Len(pads) = m
    <3> HIDE DEF table
    <3>1. /\ Padded(table) \in Seq(Seq(CellText)) /\ Len(Padded(table)) = n
          /\ Len(Padded(table)[i]) = Len(table[i])
      BY <1>11, <2>4, RowsArePadded
    <3>2. Padded(table)[i] \in Seq(CellText)  BY <1>1, <3>1
    <3> QED BY <2>3, <3>1, <3>2
  <2>6. PadsOf(pads, row.cells, marked)
    <3>1. ASSUME NEW c \in 1..m
          PROVE  Moved(pads[c], Trim(Held(row.cells, marked, c)), 0)
      <4>1. table[i][c] = Trim(Held(row.cells, marked, c))  BY <2>2, <2>3
      <4> HIDE DEF table, marked, row
      <4>2. Moved(Padded(table)[i][c], table[i][c], 0)
        BY <1>11, <2>4, PaddedCells
      <4> QED BY <4>1, <4>2
    <3> HIDE DEF pads, marked, row
    <3> QED BY <2>5, <3>1 DEF PadsOf
  <2>7. result[i] = Made(i)  BY <1>11
  <2> HIDE DEF table, padded
  <2>8. CASE prevents /\ i = 1
    <3>1. result[i] = LiteralRow(WithoutSecond(Append(pads, last)))
      BY <2>7, <2>8 DEF MadeLine, padded, table
    <3>2. row.mark = "!"  BY <1>5, <2>8
    <3>3. pads = <<>> => last # <<>>
      <4> SUFFICES ASSUME pads = <<>>, last = <<>>
                   PROVE  FALSE
        OBVIOUS
      <4>1. Len(columns[i]) = 1 /\ columns[i] \in Seq(CellText)
        BY <2>1, <2>2, <2>5
      <4>2. columns[i][1] = <<>>  BY <4>1 DEF Last
      <4>3. columns[i] = <<<<>>>>  BY <4>1, <4>2
      <4> QED BY <1>7, <2>8, <4>3
    <3>4. PadsOf(pads, row.cells, TRUE)
      <4>1. marked = TRUE  BY <2>8
      <4> HIDE DEF marked, row, pads
      <4> QED BY <2>6, <4>1
    <3> HIDE DEF row, pads, last
    <3> QED BY <2>1, <2>3, <3>1, <3>2, <3>3, <3>4, MarkedRowKeeps DEF row
  <2>9. CASE ~(prevents /\ i = 1)
    <3>1. result[i] = TableRow("", pads, last)
      BY <2>7, <2>9 DEF MadeLine, Plain, padded, table
    <3>2. row.mark = ""
      <4>1. CASE i = 1  BY <1>5, <2>9, <4>1 DEF OneTable
      <4>2. CASE i # 1
        <5>1. i \in 2..Len(rows)  BY <1>1, <4>2 DEF n
        <5> QED BY <5>1 DEF OneTable
      <4> QED BY <4>1, <4>2
    <3>3. PadsOf(pads, row.cells, FALSE)
      <4>1. marked = FALSE  BY <2>9, <1>10
      <4> HIDE DEF marked, row, pads
      <4> QED BY <2>6, <4>1
    <3> HIDE DEF row, pads, last
    <3> QED BY <2>1, <3>1, <3>2, <3>3, PlainRowKept DEF row
  <2> QED BY <2>8, <2>9
<1> QED BY <1>11, <1>12 DEF n

-----------------------------------------------------------------------------
(* What a formatted text holds *)

\* The first k lines hold the same, and the table rows at their end wait to be
\* formatted.
KeptLines(page, k, done) ==
  /\ done \in [text : Seq(WikiLine), table : Seq(WikiLine)]
  /\ Len(done.text) + Len(done.table) = k
  /\ \A i \in 1..Len(done.text) : SameRow(done.text[i], page[i])
  /\ \A i \in 1..Len(done.table) :
       done.table[i] = page[Len(done.text) + i] /\ IsTableRow(done.table[i])
  /\ k >= 1 /\ ~IsTableRow(page[k]) => done.table = <<>>

H == INSTANCE Folding WITH Op <- FormatNext, Inv <- KeptLines

LEMMA TableRowIsRow ==
  ASSUME NEW line, IsTableRow(line)
  PROVE  IsRow(line) /\ line.mark \in {"", "!"}
<1>1. line.mark = "" \/ line.mark = "!"  BY Zenon DEF IsTableRow
<1>2. "" # "prose" /\ "!" # "prose"  OBVIOUS
<1> QED BY <1>1, <1>2 DEF IsRow, Prose

LEMMA WaitingRows ==
  ASSUME NEW page \in Seq(WikiLine), Apart(page), NEW k \in 0..Len(page), NEW done,
         KeptLines(page, k, done), done.table # <<>>
  PROVE  OneTable(done.table)
<1> DEFINE a == Len(done.text)
           b == Len(done.table)
           table == done.table
<1>1. /\ a \in Nat /\ b \in Nat /\ table \in Seq(WikiLine) /\ a + b = k /\ k =< Len(page)
      /\ Len(page) \in Nat
  <2>1. done.text \in Seq(WikiLine) /\ done.table \in Seq(WikiLine)
    BY DEF KeptLines
  <2>2. a + b = k  BY DEF KeptLines
  <2>3. a \in Nat /\ b \in Nat  BY <2>1
  <2>4. Len(page) \in Nat /\ k =< Len(page)  OBVIOUS
  <2> QED BY <2>1, <2>2, <2>3, <2>4
<1>2. \A i \in 1..b : table[i] = page[a + i] /\ IsTableRow(table[i])
  BY DEF KeptLines
<1>3. 1 \in 1..b  BY <1>1
<1> HIDE DEF a, b, table
<1>4. table[1].mark \in {"", "!"}  BY <1>2, <1>3, TableRowIsRow
<1>5. ASSUME NEW i \in 2..b
      PROVE  table[i].mark = ""
  <2>1. i \in 1..b /\ i - 1 \in 1..b /\ a + (i - 1) = (a + i) - 1 /\ a + i \in 2..Len(page)
    BY <1>1
  <2>2. /\ table[i] = page[a + i] /\ IsTableRow(table[i])
        /\ table[i - 1] = page[(a + i) - 1] /\ IsTableRow(table[i - 1])
    BY <1>2, <2>1
  <2>3. IsRow(page[a + i]) /\ IsRow(page[(a + i) - 1])  BY <2>2, TableRowIsRow
  <2>4. ~StartsTable(page, a + i)  BY <2>1, <2>3 DEF Apart
  <2>5. page[a + i].mark = ""  BY <2>3, <2>4, Zenon DEF StartsTable
  <2> QED BY <2>2, <2>5
<1> QED BY <1>4, <1>5 DEF OneTable, table, b

LEMMA LinesAreKept ==
  ASSUME NEW page \in Seq(WikiLine), Apart(page), NEW k \in 1..Len(page), NEW done,
         KeptLines(page, k - 1, done)
  PROVE  KeptLines(page, k, FormatLine(done, page[k]))
<1> DEFINE line == page[k]
           new == FormatLine(done, line)
           a == Len(done.text)
           b == Len(done.table)
<1>1. line \in WikiLine /\ k \in Nat /\ k - 1 \in 0..Len(page)  OBVIOUS
<1>2. /\ done.text \in Seq(WikiLine) /\ done.table \in Seq(WikiLine)
      /\ a \in Nat /\ b \in Nat /\ a + b = k - 1
      /\ \A i \in 1..a : SameRow(done.text[i], page[i])
      /\ \A i \in 1..b : done.table[i] = page[a + i] /\ IsTableRow(done.table[i])
  <2>1. done.text \in Seq(WikiLine) /\ done.table \in Seq(WikiLine)
    BY DEF KeptLines
  <2>2. a + b = k - 1  BY DEF KeptLines
  <2>3. /\ \A i \in 1..a : SameRow(done.text[i], page[i])
        /\ \A i \in 1..b : done.table[i] = page[a + i] /\ IsTableRow(done.table[i])
    BY DEF KeptLines
  <2>4. a \in Nat /\ b \in Nat  BY <2>1
  <2> QED BY <2>1, <2>2, <2>3, <2>4
<1>3. CASE IsTableRow(line)
  <2>1. new = [done EXCEPT !.table = Append(@, line)]  BY <1>3 DEF FormatLine
  <2>2. /\ new \in [text : Seq(WikiLine), table : Seq(WikiLine)]
        /\ new.text = done.text /\ new.table = Append(done.table, line)
    <3>1. done \in [text : Seq(WikiLine), table : Seq(WikiLine)]
      BY DEF KeptLines
    <3>2. Append(done.table, line) \in Seq(WikiLine)  BY <1>1, <1>2
    <3> HIDE DEF line
    <3> QED BY <2>1, <3>1, <3>2
  <2>3. /\ Len(new.table) = b + 1 /\ new.table[b + 1] = line
        /\ \A i \in 1..b : new.table[i] = done.table[i]
    BY <1>1, <1>2, <2>2
  <2> HIDE DEF new, a, b
  <2>4. a + (b + 1) = k  BY <1>1, <1>2
  <2>5. ASSUME NEW i \in 1..(b + 1)
        PROVE  new.table[i] = page[a + i] /\ IsTableRow(new.table[i])
    <3>1. i \in 1..b \/ i = b + 1  BY <1>2
    <3>2. CASE i \in 1..b  BY <1>2, <2>3, <3>2
    <3>3. CASE i = b + 1  BY <1>3, <2>3, <2>4, <3>3
    <3> QED BY <3>1, <3>2, <3>3
  <2> HIDE DEF line
  <2>6. KeptLines(page, k, new)
    <3>1. Len(new.text) = a  BY <2>2 DEF a
    <3>2. /\ Len(new.text) + Len(new.table) = k
          /\ \A i \in 1..Len(new.text) : SameRow(new.text[i], page[i])
          /\ \A i \in 1..Len(new.table) :
               new.table[i] = page[Len(new.text) + i] /\ IsTableRow(new.table[i])
      BY <1>2, <2>2, <2>3, <2>4, <2>5, <3>1
    <3> QED BY <1>3, <2>2, <3>2 DEF KeptLines, line
  <2> QED BY <2>6 DEF new, line
<1>4. CASE ~IsTableRow(line)
  <2> DEFINE rows == FormatTable(done.table)
             start == done.text \o rows
             all == start \o <<line>>
  <2>1. new = [text |-> all, table |-> <<>>]  BY <1>4 DEF FormatLine
  <2>2. rows \in Seq(WikiLine) /\ Len(rows) =< b /\ Len(rows) \in Nat
    <3>1. rows \in Seq(WikiLine) /\ Len(rows) =< b  BY <1>2, TablesAreFormatted
    <3> HIDE DEF rows
    <3> QED BY <3>1
  <2>3. Len(rows) = b /\ \A i \in 1..b : SameRow(rows[i], done.table[i])
    <3>1. CASE done.table = <<>>
      <4>1. b = 0  BY <3>1
      <4> HIDE DEF rows, b
      <4> QED BY <2>2, <4>1
    <3>2. CASE done.table # <<>>
      <4>1. OneTable(done.table)  BY <1>1, <3>2, WaitingRows
      <4> QED BY <1>2, <3>2, <4>1, TableKeepsRows
    <3> QED BY <3>1, <3>2
  <2> HIDE DEF rows
  <2>4. /\ start \in Seq(WikiLine) /\ Len(start) = a + b
        /\ \A i \in 1..a : start[i] = done.text[i]
        /\ \A i \in 1..b : start[a + i] = rows[i]
    <3>1. /\ start \in Seq(WikiLine) /\ Len(start) = a + Len(rows)
          /\ \A i \in 1..a : start[i] = done.text[i]
          /\ \A i \in 1..Len(rows) : start[a + i] = rows[i]
      BY <1>2, <2>2, Concatenated
    <3> HIDE DEF start, a, b
    <3> QED BY <2>3, <3>1
  <2> HIDE DEF start
  <2>5. /\ all \in Seq(WikiLine) /\ Len(all) = (a + b) + 1 /\ all[(a + b) + 1] = line
        /\ \A i \in 1..(a + b) : all[i] = start[i]
    <3>1. all = Append(start, line)  BY <1>1, <2>4, AppendIsConcat
    <3> HIDE DEF all, a, b
    <3> QED BY <1>1, <1>2, <2>4, <3>1
  <2> HIDE DEF all, new, a, b
  <2>6. /\ new \in [text : Seq(WikiLine), table : Seq(WikiLine)]
        /\ new.text = all /\ new.table = <<>>
    BY <2>1, <2>5
  <2>7. Len(all) = k
    <3>1. a + b = k - 1 /\ Len(all) = (a + b) + 1  BY <1>2, <2>5
    <3> HIDE DEF line
    <3> QED BY <1>1, <3>1
  <2>8. ASSUME NEW i \in 1..k
        PROVE  SameRow(all[i], page[i])
    <3>1. i \in 1..a \/ i - a \in 1..b \/ i = k  BY <1>1, <1>2
    <3>2. CASE i \in 1..a
      <4>1. i \in 1..(a + b)  BY <1>2, <3>2
      <4>2. all[i] = done.text[i]  BY <2>4, <2>5, <3>2, <4>1
      <4> QED BY <1>2, <3>2, <4>2
    <3>3. CASE i - a \in 1..b
      <4> DEFINE j == i - a
      <4>1. j \in 1..b /\ a + j = i /\ i \in 1..(a + b)  BY <1>1, <1>2, <3>3
      <4> HIDE DEF j
      <4>2. all[i] = rows[j] /\ done.table[j] = page[i]
        BY <1>2, <2>4, <2>5, <4>1
      <4>3. SameRow(rows[j], done.table[j])  BY <2>3, <4>1
      <4> QED BY <4>2, <4>3
    <3>4. CASE i = k
      <4>1. all[i] = line  BY <1>1, <1>2, <2>5, <3>4
      <4> QED BY <3>4, <4>1 DEF SameRow
    <3> QED BY <3>1, <3>2, <3>3, <3>4
  <2> HIDE DEF line
  <2>9. KeptLines(page, k, new)
    <3>1. Len(new.table) = 0 /\ Len(new.text) = k  BY <2>6, <2>7
    <3>2. \A i \in 1..Len(new.text) : SameRow(new.text[i], page[i])
      BY <2>6, <2>8, <3>1
    <3>3. \A i \in 1..Len(new.table) :
            new.table[i] = page[Len(new.text) + i] /\ IsTableRow(new.table[i])
      BY <3>1
    <3>4. Len(new.text) + Len(new.table) = k  BY <1>1, <3>1
    <3> QED BY <2>6, <3>2, <3>3, <3>4 DEF KeptLines
  <2> QED BY <2>9 DEF new, line
<1> QED BY <1>3, <1>4

\* Texts whose rows are the same for who reads the tables have the same tables.
LEMMA SameTables ==
  ASSUME NEW a \in Seq(WikiLine), NEW b \in Seq(WikiLine), Len(a) = Len(b),
         \A i \in 1..Len(b) :
           a[i].mark = b[i].mark /\ (IsRow(b[i]) => TrimAll(a[i].cells) = TrimAll(b[i].cells))
  PROVE  TablesOf(a) = TablesOf(b)
<1> DEFINE f == [i \in DOMAIN a |-> ParsedLine(a[i])]
           g == [i \in DOMAIN b |-> ParsedLine(b[i])]
<1>1. DOMAIN a = 1..Len(b) /\ DOMAIN b = 1..Len(b)  OBVIOUS
<1>2. \A i \in 1..Len(b) : ParsedLine(a[i]) = ParsedLine(b[i])
  BY DEF ParsedLine, IsRow
<1>3. f = g  BY <1>1, <1>2
<1>4. Parsed(a) = Computed(f) /\ Parsed(b) = Computed(g)  BY DEF Parsed
<1> HIDE DEF f, g
<1>5. Parsed(a) = Parsed(b)  BY <1>3, <1>4
<1> QED BY <1>5 DEF TablesOf

\* No line is taken yet.
LEMMA NothingKept ==
  ASSUME NEW lines
  PROVE  KeptLines(lines, 0, [text |-> <<>>, table |-> <<>>])
<1> DEFINE start == [text |-> <<>>, table |-> <<>>]
<1>1. start \in [text : Seq(WikiLine), table : Seq(WikiLine)] /\ start.text = <<>> /\ start.table = <<>>
  OBVIOUS
<1>2. Len(start.text) = 0 /\ Len(start.table) = 0  BY <1>1
<1> HIDE DEF start
<1> QED BY <1>1, <1>2 DEF KeptLines

\* The tables stay apart when a blank line is added.
LEMMA ApartWithBlank ==
  ASSUME NEW page \in Seq(WikiLine), Apart(page)
  PROVE  Apart(Append(page, Blank))
<1> DEFINE lines == Append(page, Blank)
           m == Len(page)
<1>1. m \in Nat /\ lines \in Seq(WikiLine) /\ Len(lines) = m + 1 /\ lines[m + 1] = Blank
      /\ \A i \in 1..m : lines[i] = page[i]
  BY BlankIsProse
<1> HIDE DEF lines, m
<1> SUFFICES ASSUME NEW i \in 2..(m + 1), StartsTable(lines, i)
             PROVE  ~IsRow(lines[i - 1])
  BY <1>1 DEF Apart, lines
<1>2. i # m + 1  BY <1>1, BlankIsProse, Zenon DEF StartsTable
<1>3. i \in 2..m /\ i \in 1..m /\ i - 1 \in 1..m  BY <1>1, <1>2
<1>4. lines[i] = page[i] /\ lines[i - 1] = page[i - 1]  BY <1>1, <1>3
<1>5. StartsTable(page, i)  BY <1>4 DEF StartsTable
<1> QED BY <1>3, <1>4, <1>5 DEF Apart, m

\* A text whose tables are apart keeps them when it is formatted.
THEOREM TextsKeepTheirTables ==
  ASSUME NEW page \in Seq(WikiLine), Apart(page)
  PROVE  TablesOf(Format(page)) = TablesOf(page)
<1> DEFINE lines == Append(page, Blank)
           m == Len(page)
           n == m + 1
           start == [text |-> <<>>, table |-> <<>>]
           done == FoldLeft(FormatLine, start, lines)
<1>1. m \in Nat /\ n \in Nat /\ n >= 1  OBVIOUS
<1>2. Blank \in WikiLine /\ ~IsTableRow(Blank) /\ ~IsRow(Blank)  BY BlankIsProse
<1>3. /\ lines \in Seq(WikiLine) /\ Len(lines) = n /\ DOMAIN lines = 1..n /\ lines[n] = Blank
      /\ \A i \in 1..m : lines[i] = page[i]
  BY <1>2
<1>4. Format(page) = Front(done.text)  BY DEF Format
<1>5. KeptLines(lines, 0, start)  BY NothingKept
<1>6. done = H!Fold(lines, start, lines)
  BY Zenon DEF H!Fold, FormatNext, FoldLeft, MapThenFoldSet, H!MapThenFoldSet,
               Max, H!Max
<1> HIDE DEF lines, start, done, n, m
<1>7. Apart(lines)  BY ApartWithBlank DEF lines
<1>8. H!Preserves(lines, lines, n)
  BY <1>3, <1>7, LinesAreKept DEF H!Preserves, FormatNext
<1>9. KeptLines(lines, n, done)  BY <1>1, <1>3, <1>5, <1>6, <1>8, H!FoldKeeps
<1>10. done.text \in Seq(WikiLine) /\ done.table = <<>>
  BY <1>1, <1>2, <1>3, <1>9 DEF KeptLines
<1>11. Len(done.text) = n /\ \A i \in 1..n : SameRow(done.text[i], lines[i])
  <2>1. Len(done.table) = 0 /\ Len(done.text) \in Nat  BY <1>10
  <2>2. Len(done.text) + Len(done.table) = n /\ \A i \in 1..Len(done.text) : SameRow(done.text[i], lines[i])
    BY <1>9 DEF KeptLines
  <2> QED BY <1>1, <2>1, <2>2
<1> DEFINE result == Front(done.text)
<1>12. result \in Seq(WikiLine) /\ Len(result) = m
  <2>1. done.text # <<>>  BY <1>1, <1>10, <1>11
  <2>2. result \in Seq(WikiLine) /\ Len(result) = n - 1
    BY <1>10, <1>11, <2>1, FrontOfColumns
  <2> QED BY <1>1, <2>2 DEF n
<1>13. \A i \in 1..m : result[i] = done.text[i]
  <2> DEFINE made == done.text
  <2>1. result = SubSeq(made, 1, m) /\ made \in Seq(WikiLine) /\ Len(made) = m + 1
    <3>1. Len(made) - 1 = m  BY <1>1, <1>11 DEF n
    <3> QED BY <1>10, <1>11, <3>1 DEF Front, n
  <2> HIDE DEF made, result
  <2>2. \A i \in 1..m : SubSeq(made, 1, m)[i] = made[i]  BY <1>1, <2>1
  <2> QED BY <2>1, <2>2 DEF made
<1> HIDE DEF result
<1>14. \A i \in 1..m : SameRow(result[i], page[i])
  <2> SUFFICES ASSUME NEW i \in 1..m
               PROVE  SameRow(result[i], page[i])
    OBVIOUS
  <2>1. i \in 1..n  BY <1>1 DEF n
  <2> QED BY <1>3, <1>11, <1>13, <2>1
<1>15. TablesOf(result) = TablesOf(page)
  BY <1>12, <1>14, SameTables DEF m, SameRow
<1> QED BY <1>4, <1>15 DEF result

-----------------------------------------------------------------------------
(* Parts of sequences *)

LEMMA PartIsSeq ==
  ASSUME NEW T, NEW s \in Seq(T), NEW m \in 1..(Len(s) + 1), NEW k \in (m - 1)..Len(s)
  PROVE  /\ SubSeq(s, m, k) \in Seq(T) /\ Len(SubSeq(s, m, k)) = k - m + 1
         /\ \A i \in 1..(k - m + 1) : SubSeq(s, m, k)[i] = s[m + i - 1]
OBVIOUS

LEMMA SameElements ==
  ASSUME NEW T, NEW s \in Seq(T), NEW t \in Seq(T), Len(t) = Len(s),
         \A i \in 1..Len(s) : s[i] = t[i]
  PROVE  s = t
OBVIOUS

\* The part before an element, and the part after it.
LEMMA BeforeAndAfter ==
  ASSUME NEW T, NEW s \in Seq(T), NEW i \in 1..(Len(s) + 1)
  PROVE  /\ SubSeq(s, 1, i - 1) \in Seq(T) /\ Len(SubSeq(s, 1, i - 1)) = i - 1
         /\ SubSeq(s, i, Len(s)) \in Seq(T) /\ Len(SubSeq(s, i, Len(s))) = Len(s) - i + 1
BY PartIsSeq

LEMMA Inserted ==
  ASSUME NEW T, NEW s \in Seq(T), NEW i \in 1..(Len(s) + 1), NEW x \in T
  PROVE  InsertAt(s, i, x) \in Seq(T)
<1> DEFINE before == SubSeq(s, 1, i - 1)
           after == SubSeq(s, i, Len(s))
           one == <<x>>
<1>1. before \in Seq(T) /\ after \in Seq(T)  BY BeforeAndAfter
<1>2. one \in Seq(T)  OBVIOUS
<1>3. InsertAt(s, i, x) = before \o one \o after  BY DEF InsertAt
<1> HIDE DEF before, after, one
<1> QED BY <1>1, <1>2, <1>3

LEMMA Removed ==
  ASSUME NEW T, NEW s \in Seq(T), NEW i \in 1..Len(s)
  PROVE  RemoveAt(s, i) \in Seq(T)
<1> DEFINE before == SubSeq(s, 1, i - 1)
           after == SubSeq(s, i + 1, Len(s))
<1>1. i + 1 \in 1..(Len(s) + 1) /\ i \in 1..(Len(s) + 1)  OBVIOUS
<1>2. before \in Seq(T) /\ after \in Seq(T)  BY <1>1, BeforeAndAfter
<1>3. RemoveAt(s, i) = before \o after  BY DEF RemoveAt
<1> HIDE DEF before, after
<1> QED BY <1>2, <1>3

LEMMA LastIsElement ==
  ASSUME NEW T, NEW s \in Seq(T), s # <<>>
  PROVE  Front(s) \in Seq(T) /\ Last(s) \in T
BY FrontOfColumns

LEMMA LastOfAppend ==
  ASSUME NEW T, NEW s \in Seq(T), NEW x \in T
  PROVE  Append(s, x) \in Seq(T) /\ Append(s, x) # <<>> /\ Last(Append(s, x)) = x
BY FrontOfAppend

LEMMA RowIsLine ==
  ASSUME NEW mark \in Marks, NEW cells \in Seq(CellText), NEW suffix \in CellText
  PROVE  TableRow(mark, cells, suffix) \in WikiLine
BY DEF TableRow, WikiLine

-----------------------------------------------------------------------------
(* The tables of a text *)

WikiTable == [mark : Marks, rows : Seq(Seq(CellText))]

\* A row on the last line that was read is of the last table.
HoldsTables(lines, k, tables) ==
  /\ tables \in Seq(WikiTable)
  /\ k # 0 /\ IsRow(lines[k]) => tables # <<>>

Reading == INSTANCE Folding WITH Op <- ReadLine, Inv <- HoldsTables

\* f holds the tables of the lines above each line, and after the last.
ReadsTo(lines, f) ==
  /\ f[0] = <<>>
  /\ \A k \in 1..Len(lines) : f[k] = ReadLine(lines, f[k - 1], k)

LEMMA TablesAreFold ==
  ASSUME NEW lines
  PROVE  TablesIn(lines) = Reading!Fold(lines, <<>>, [i \in DOMAIN lines |-> i])
BY Zenon DEF TablesIn, Reading!Fold, FoldLeft, MapThenFoldSet,
   Reading!MapThenFoldSet, Max, Reading!Max

LEMMA NumbersOf ==
  ASSUME NEW lines \in Seq(WikiLine)
  PROVE  /\ Len(lines) \in Nat /\ DOMAIN lines = 1..Len(lines)
         /\ DOMAIN [i \in DOMAIN lines |-> i] = 1..Len(lines)
         /\ \A k \in 1..Len(lines) : [i \in DOMAIN lines |-> i][k] = k
OBVIOUS

LEMMA TablesAre ==
  ASSUME NEW lines \in Seq(WikiLine), NEW f, ReadsTo(lines, f)
  PROVE  TablesIn(lines) = f[Len(lines)]
<1> DEFINE n == Len(lines)
           numbers == [i \in DOMAIN lines |-> i]
<1>1. n \in Nat /\ DOMAIN numbers = 1..n /\ \A k \in 1..n : numbers[k] = k
  BY NumbersOf
<1>2. TablesIn(lines) = Reading!Fold(lines, <<>>, numbers)  BY TablesAreFold
<1>3. f[0] = <<>> /\ \A k \in 1..n : f[k] = ReadLine(lines, f[k - 1], k)
  BY DEF ReadsTo
<1> HIDE DEF n, numbers
<1>4. \A k \in 1..n : f[k] = ReadLine(lines, f[k - 1], numbers[k])
  BY <1>1, <1>3
<1>5. Reading!Follows(lines, <<>>, numbers, n, f)
  BY <1>3, <1>4, Zenon DEF Reading!Follows
<1>6. Reading!Fold(lines, <<>>, numbers) = f[n]  BY <1>1, <1>5, Reading!FoldIs
<1> QED BY <1>2, <1>6 DEF n

LEMMA RowOfText ==
  ASSUME NEW line \in WikiLine
  PROVE  /\ line.cells \in Seq(CellText) /\ line.suffix \in CellText
         /\ IsRow(line) => line.mark \in Marks
BY DEF WikiLine, IsRow

\* A line adds a table, or a row to the last one, or nothing.
LEMMA LineIsRead ==
  ASSUME NEW lines \in Seq(WikiLine), NEW k \in 1..Len(lines), NEW tables,
         HoldsTables(lines, k - 1, tables)
  PROVE  HoldsTables(lines, k, ReadLine(lines, tables, k))
<1>1. /\ lines[k] \in WikiLine /\ lines[k].cells \in Seq(CellText)
      /\ IsRow(lines[k]) => lines[k].mark \in Marks
  BY RowOfText
<1>2. tables \in Seq(WikiTable) /\ (k - 1 # 0 /\ IsRow(lines[k - 1]) => tables # <<>>)
  BY DEF HoldsTables
<1>3. CASE StartsTable(lines, k)
  <2>1. lines[k].mark \in Marks  BY <1>1, <1>3 DEF StartsTable
  <2>2. Opens(lines[k]) \in WikiTable  BY <1>1, <2>1 DEF Opens, WikiTable
  <2>3. ReadLine(lines, tables, k) = Append(tables, Opens(lines[k]))
    BY <1>3 DEF ReadLine
  <2>4. /\ Append(tables, Opens(lines[k])) \in Seq(WikiTable)
        /\ Append(tables, Opens(lines[k])) # <<>>
    BY <1>2, <2>2, LastOfAppend
  <2> QED BY <2>3, <2>4 DEF HoldsTables
<1>4. CASE ~StartsTable(lines, k) /\ IsRow(lines[k])
  <2>1. k # 1 /\ IsRow(lines[k - 1])  BY <1>4 DEF StartsTable
  <2>2. tables # <<>>  BY <1>2, <2>1
  <2>3. Front(tables) \in Seq(WikiTable) /\ Last(tables) \in WikiTable
    BY <1>2, <2>2, LastIsElement
  <2> DEFINE last == Last(tables)
             more == [last EXCEPT !.rows = Append(last.rows, lines[k].cells)]
  <2>4. ReadLine(lines, tables, k) = Append(Front(tables), more)
    BY <1>4 DEF ReadLine
  <2>5. last \in WikiTable  BY <2>3
  <2> HIDE DEF last
  <2>6. Append(last.rows, lines[k].cells) \in Seq(Seq(CellText))
    BY <1>1, <2>5 DEF WikiTable
  <2>7. more \in WikiTable  BY <2>5, <2>6 DEF WikiTable
  <2> HIDE DEF more
  <2>8. Append(Front(tables), more) \in Seq(WikiTable) /\ Append(Front(tables), more) # <<>>
    BY <2>3, <2>7, LastOfAppend
  <2> QED BY <2>4, <2>8 DEF HoldsTables
<1>5. CASE ~StartsTable(lines, k) /\ ~IsRow(lines[k])
  BY <1>2, <1>5 DEF ReadLine, HoldsTables
<1> QED BY <1>3, <1>4, <1>5

LEMMA TablesExist ==
  ASSUME NEW lines \in Seq(WikiLine)
  PROVE  \E f : ReadsTo(lines, f) /\ \A k \in 0..Len(lines) : HoldsTables(lines, k, f[k])
<1> DEFINE n == Len(lines)
           numbers == [i \in DOMAIN lines |-> i]
<1>1. n \in Nat /\ DOMAIN numbers = 1..n /\ \A k \in 1..n : numbers[k] = k
  BY NumbersOf
<1> HIDE DEF numbers
<1>2. HoldsTables(lines, 0, <<>>)  BY DEF HoldsTables
<1>3. Reading!Preserves(lines, numbers, n)
  <2> SUFFICES ASSUME NEW k \in 1..n, NEW tables, HoldsTables(lines, k - 1, tables)
               PROVE  HoldsTables(lines, k, ReadLine(lines, tables, numbers[k]))
    BY DEF Reading!Preserves
  <2> QED BY <1>1, LineIsRead
<1> HIDE DEF n
<1>4. PICK f : Reading!IsChain(lines, <<>>, numbers, n, f)
  BY <1>1, Reading!FoldIsChain
<1>5. Reading!Follows(lines, <<>>, numbers, n, f)  BY <1>4 DEF Reading!IsChain
<1>6. \A k \in 0..n : HoldsTables(lines, k, f[k])
  BY <1>1, <1>2, <1>3, <1>5, Reading!ChainKeeps
<1>7. f[0] = <<>> /\ \A k \in 1..n : f[k] = ReadLine(lines, f[k - 1], numbers[k])
  BY <1>5, Zenon DEF Reading!Follows
<1>8. ReadsTo(lines, f)  BY <1>1, <1>7 DEF ReadsTo, n
<1> QED BY <1>6, <1>8 DEF n

\* A text without rows has no tables.
LEMMA NoTables ==
  ASSUME NEW lines \in Seq(WikiLine), \A i \in 1..Len(lines) : ~IsRow(lines[i])
  PROVE  TablesIn(lines) = <<>>
<1> DEFINE f == [k \in 0..Len(lines) |-> <<>>]
<1>1. Len(lines) \in Nat  OBVIOUS
<1>2. \A k \in 0..Len(lines) : f[k] = <<>>  OBVIOUS
<1> HIDE DEF f
<1>3. ASSUME NEW k \in 1..Len(lines)
      PROVE  f[k] = ReadLine(lines, f[k - 1], k)
  <2>1. ~IsRow(lines[k]) /\ ~StartsTable(lines, k)  BY DEF StartsTable
  <2>2. f[k] = <<>> /\ f[k - 1] = <<>>  BY <1>1, <1>2
  <2> QED BY <2>1, <2>2 DEF ReadLine
<1>4. ReadsTo(lines, f)  BY <1>1, <1>2, <1>3 DEF ReadsTo
<1>5. TablesIn(lines) = f[Len(lines)]  BY <1>4, TablesAre
<1> QED BY <1>1, <1>2, <1>5

\* An element is put at the end of the second part, or replaces the one there.
LEMMA JoinedEnds ==
  ASSUME NEW T, NEW s \in Seq(T), NEW t \in Seq(T)
  PROVE  /\ \A x \in T : s \o Append(t, x) = Append(s \o t, x)
         /\ t # <<>> => Front(s \o t) = s \o Front(t) /\ Last(s \o t) = Last(t)
<1>1. \A x \in T : s \o Append(t, x) = Append(s \o t, x)  OBVIOUS
<1>2. ASSUME t # <<>>
      PROVE  Front(s \o t) = s \o Front(t) /\ Last(s \o t) = Last(t)
  <2> DEFINE front == Front(t)
             last == Last(t)
  <2>1. front \in Seq(T) /\ last \in T /\ t = Append(front, last)
    <3>1. /\ Len(t) \in Nat \ {0} /\ front = SubSeq(t, 1, Len(t) - 1) /\ last = t[Len(t)]
      BY <1>2 DEF Front, Last
    <3>2. front \in Seq(T) /\ last \in T  BY <1>2, LastIsElement
    <3>3. Len(front) = Len(t) - 1 /\ \A i \in 1..(Len(t) - 1) : front[i] = t[i]
      <4> DEFINE m == Len(t) - 1
      <4>1. m \in 0..Len(t) /\ 1 \in 1..(Len(t) + 1) /\ m - 1 + 1 = m  BY <3>1
      <4> HIDE DEF m
      <4>2. /\ Len(SubSeq(t, 1, m)) = m - 1 + 1
            /\ \A i \in 1..(m - 1 + 1) : SubSeq(t, 1, m)[i] = t[1 + i - 1]
        BY <4>1, PartIsSeq
      <4>3. \A i \in 1..m : 1 + i - 1 = i  BY <4>1
      <4> QED BY <3>1, <4>1, <4>2, <4>3 DEF m
    <3> HIDE DEF front, last
    <3>4. /\ Append(front, last) \in Seq(T) /\ Len(Append(front, last)) = Len(t)
          /\ \A i \in 1..Len(t) : t[i] = Append(front, last)[i]
      BY <3>1, <3>2, <3>3
    <3> QED BY <3>2, <3>4, SameElements
  <2> HIDE DEF front, last
  <2>2. s \o t = Append(s \o front, last) /\ s \o front \in Seq(T)  BY <2>1
  <2>3. Front(Append(s \o front, last)) = s \o front /\ Last(Append(s \o front, last)) = last
    BY <2>1, <2>2, FrontOfAppend
  <2> QED BY <2>2, <2>3 DEF front, last
<1> QED BY <1>1, <1>2

\* What is read of a text whose parts are apart.
LEMMA TablesJoined ==
  ASSUME NEW a \in Seq(WikiLine), NEW b \in Seq(WikiLine),
         \/ a = <<>> \/ ~IsRow(a[Len(a)])
         \/ b = <<>> \/ ~IsRow(b[1])
  PROVE  TablesIn(a \o b) = TablesIn(a) \o TablesIn(b)
<1> DEFINE m == Len(a)
           n == Len(b)
           both == a \o b
<1>1. /\ m \in Nat /\ n \in Nat /\ both \in Seq(WikiLine) /\ Len(both) = m + n
      /\ \A i \in 1..m : both[i] = a[i]
      /\ \A i \in 1..n : both[m + i] = b[i]
  OBVIOUS
<1>2. PICK f : ReadsTo(a, f) /\ \A k \in 0..m : HoldsTables(a, k, f[k])
  BY TablesExist
<1>3. PICK g : ReadsTo(b, g) /\ \A k \in 0..n : HoldsTables(b, k, g[k])
  BY TablesExist
<1> DEFINE top == f[m]
           h == [k \in 0..(m + n) |-> IF k =< m THEN f[k] ELSE top \o g[k - m]]
<1>4. /\ f[0] = <<>> /\ \A k \in 1..m : f[k] = ReadLine(a, f[k - 1], k)
      /\ g[0] = <<>> /\ \A k \in 1..n : g[k] = ReadLine(b, g[k - 1], k)
  BY <1>2, <1>3 DEF ReadsTo
<1>5. top \in Seq(WikiTable) /\ \A k \in 0..n : g[k] \in Seq(WikiTable)
  BY <1>1, <1>2, <1>3 DEF HoldsTables
<1>6. top \o <<>> = top  BY <1>5
<1> HIDE DEF both, m, n
<1>7. /\ \A k \in 0..m : h[k] = f[k]
      /\ \A k \in 0..n : h[m + k] = top \o g[k]
  <2>1. \A k \in 0..m : h[k] = f[k]  BY <1>1
  <2>2. ASSUME NEW k \in 0..n
        PROVE  h[m + k] = top \o g[k]
    <3>1. CASE k = 0
      <4>1. m + k = m /\ m \in 0..m  BY <1>1, <3>1
      <4>2. h[m] = top /\ top \o g[k] = top  BY <1>4, <1>6, <2>1, <3>1, <4>1
      <4> QED BY <4>1, <4>2
    <3>2. CASE k # 0
      <4> DEFINE i == m + k
      <4>1. i \in 0..(m + n) /\ ~(i =< m) /\ i - m = k  BY <1>1, <3>2
      <4> HIDE DEF i
      <4>2. h[i] = top \o g[i - m]  BY <4>1
      <4> QED BY <4>1, <4>2 DEF i
    <3> QED BY <3>1, <3>2
  <2> QED BY <2>1, <2>2
<1> HIDE DEF h
<1>8. ASSUME NEW k \in 1..m
      PROVE  h[k] = ReadLine(both, h[k - 1], k)
  <2>1. k \in 0..m /\ k - 1 \in 0..m /\ both[k] = a[k]  BY <1>1
  <2>2. k # 1 => both[k - 1] = a[k - 1]
    <3>1. k # 1 => k - 1 \in 1..m  BY <1>1
    <3> QED BY <1>1, <3>1
  <2>3. StartsTable(both, k) = StartsTable(a, k)  BY <2>1, <2>2 DEF StartsTable
  <2>4. ReadLine(both, f[k - 1], k) = ReadLine(a, f[k - 1], k)
    BY <2>1, <2>3 DEF ReadLine
  <2> QED BY <1>4, <1>7, <2>1, <2>4
<1>9. ASSUME NEW k \in 1..n, NEW i, i = m + k
      PROVE  h[i] = ReadLine(both, h[i - 1], i)
  <2> DEFINE before == g[k - 1]
  <2>1. /\ k \in 0..n /\ k - 1 \in 0..n /\ i - 1 = m + (k - 1) /\ both[i] = b[k]
        /\ k - 1 # 0 <=> k # 1
    BY <1>1, <1>9
  <2>2. h[i] = top \o g[k] /\ h[i - 1] = top \o before  BY <1>7, <1>9, <2>1
  <2>3. before \in Seq(WikiTable) /\ (k # 1 /\ IsRow(b[k - 1]) => before # <<>>)
    BY <1>3, <2>1 DEF HoldsTables, n
  <2>4. IsRow(b[k]) => (StartsTable(both, i) <=> StartsTable(b, k))
    <3>1. CASE k # 1
      <4>1. k - 1 \in 1..n /\ i # 1 /\ i - 1 = m + (k - 1)  BY <1>1, <1>9, <3>1
      <4>2. both[i - 1] = b[k - 1]  BY <1>1, <4>1
      <4> QED BY <2>1, <3>1, <4>1, <4>2, Zenon DEF StartsTable
    <3>2. CASE k = 1 /\ m = 0
      <4>1. i = 1  BY <1>9, <3>2
      <4> QED BY <2>1, <3>2, <4>1 DEF StartsTable
    <3>3. CASE k = 1 /\ m # 0
      <4>1. i - 1 = m /\ i # 1 /\ m \in 1..m /\ n # 0  BY <1>1, <1>9, <3>3
      <4>2. a # <<>> /\ b # <<>>  BY <4>1, <3>3 DEF m, n
      <4>3. IsRow(b[k]) => ~IsRow(a[m])  BY <3>3, <4>2 DEF m
      <4>4. both[i - 1] = a[m]  BY <1>1, <4>1
      <4> QED BY <2>1, <3>3, <4>1, <4>3, <4>4, Zenon DEF StartsTable
    <3> QED BY <3>1, <3>2, <3>3
  <2>5. g[k] = ReadLine(b, before, k)  BY <1>4
  <2>6. b[k] \in WikiLine /\ b[k].cells \in Seq(CellText) /\ (IsRow(b[k]) => b[k].mark \in Marks)
    BY RowOfText DEF n
  <2> HIDE DEF before, top
  <2>7. CASE StartsTable(b, k)
    <3> DEFINE opened == Opens(b[k])
    <3>1. IsRow(b[k]) /\ StartsTable(both, i)  BY <2>4, <2>7 DEF StartsTable
    <3>2. opened \in WikiTable  BY <2>6, <3>1 DEF Opens, WikiTable
    <3>3. /\ ReadLine(b, before, k) = Append(before, opened)
          /\ ReadLine(both, top \o before, i) = Append(top \o before, opened)
      BY <2>1, <2>7, <3>1 DEF ReadLine
    <3> HIDE DEF opened
    <3>4. top \o Append(before, opened) = Append(top \o before, opened)
      BY <1>5, <2>3, <3>2, JoinedEnds
    <3> QED BY <2>2, <2>5, <3>3, <3>4
  <2>8. CASE ~StartsTable(b, k) /\ IsRow(b[k])
    <3>1. ~StartsTable(both, i) /\ IsRow(both[i])  BY <2>1, <2>4, <2>8
    <3>2. before # <<>>  BY <2>3, <2>8 DEF StartsTable
    <3> DEFINE last == Last(before)
               more == [last EXCEPT !.rows = Append(last.rows, b[k].cells)]
    <3>3. Front(before) \in Seq(WikiTable) /\ last \in WikiTable
      BY <2>3, <3>2, LastIsElement
    <3>4. Front(top \o before) = top \o Front(before) /\ Last(top \o before) = last
      BY <1>5, <2>3, <3>2, JoinedEnds
    <3>5. /\ ReadLine(b, before, k) = Append(Front(before), more)
          /\ ReadLine(both, top \o before, i) = Append(top \o Front(before), more)
      BY <2>1, <2>8, <3>1, <3>4 DEF ReadLine
    <3> HIDE DEF last
    <3>6. more \in WikiTable
      <4>1. Append(last.rows, b[k].cells) \in Seq(Seq(CellText))
        BY <2>6, <3>3 DEF WikiTable
      <4> QED BY <3>3, <4>1 DEF WikiTable
    <3> HIDE DEF more
    <3>7. top \o Append(Front(before), more) = Append(top \o Front(before), more)
      <4> DEFINE front == Front(before)
      <4>1. top \in Seq(WikiTable) /\ front \in Seq(WikiTable)  BY <1>5, <3>3
      <4> HIDE DEF front
      <4>2. \A x \in WikiTable : top \o Append(front, x) = Append(top \o front, x)
        BY <4>1, JoinedEnds
      <4> QED BY <3>6, <4>2 DEF front
    <3> QED BY <2>2, <2>5, <3>5, <3>7
  <2>9. CASE ~StartsTable(b, k) /\ ~IsRow(b[k])
    <3>1. /\ ReadLine(b, before, k) = before
          /\ ReadLine(both, top \o before, i) = top \o before
      BY <2>1, <2>9 DEF ReadLine, StartsTable
    <3> QED BY <2>2, <2>5, <3>1
  <2> QED BY <2>7, <2>8, <2>9
<1>10. ReadsTo(both, h)
  <2>1. h[0] = <<>>
    <3>1. 0 \in 0..m  BY <1>1
    <3> QED BY <1>4, <1>7, <3>1
  <2>2. ASSUME NEW k \in 1..(m + n)
        PROVE  h[k] = ReadLine(both, h[k - 1], k)
    <3>1. CASE k =< m
      <4>1. k \in 1..m  BY <1>1, <3>1
      <4> QED BY <1>8, <4>1
    <3>2. CASE ~(k =< m)
      <4> DEFINE j == k - m
      <4>1. j \in 1..n /\ m + j = k  BY <1>1, <3>2
      <4> HIDE DEF j
      <4> QED BY <1>9, <4>1
    <3> QED BY <3>1, <3>2
  <2> QED BY <1>1, <2>1, <2>2 DEF ReadsTo
<1>11. TablesIn(both) = h[m + n]  BY <1>1, <1>10, TablesAre
<1>12. TablesIn(a) = top /\ TablesIn(b) = g[n]
  BY <1>2, <1>3, TablesAre DEF m, n
<1>13. n \in 0..n  BY <1>1
<1> QED BY <1>7, <1>11, <1>12, <1>13 DEF both

LEMMA LineIsParsed ==
  ASSUME NEW line \in WikiLine
  PROVE  ParsedLine(line) \in WikiLine
<1>1. CASE IsRow(line)
  <2>1. line.mark \in Marks /\ line.cells \in Seq(CellText)  BY <1>1, RowOfText
  <2>2. TrimAll(line.cells) \in Seq(CellText) /\ <<>> \in CellText
    BY <2>1, AllTrimmed DEF CellText
  <2>3. TableRow(line.mark, TrimAll(line.cells), <<>>) \in WikiLine
    BY <2>1, <2>2, RowIsLine
  <2> QED BY <1>1, <2>3 DEF ParsedLine
<1>2. CASE ~IsRow(line)  BY <1>2, BlankIsProse DEF ParsedLine
<1> QED BY <1>1, <1>2

\* What the parser sees of each line.
LEMMA ParsedIs ==
  ASSUME NEW wiki \in Seq(WikiLine)
  PROVE  /\ Parsed(wiki) \in Seq(WikiLine) /\ Len(Parsed(wiki)) = Len(wiki)
         /\ \A i \in 1..Len(wiki) : Parsed(wiki)[i] = ParsedLine(wiki[i])
<1> DEFINE n == Len(wiki)
           lines == [i \in 1..n |-> ParsedLine(wiki[i])]
<1>1. n \in Nat /\ DOMAIN wiki = 1..n  OBVIOUS
<1>2. Parsed(wiki) = Computed(lines)  BY <1>1 DEF Parsed
<1> HIDE DEF n
<1>3. ASSUME NEW i \in 1..n
      PROVE  ParsedLine(wiki[i]) \in WikiLine
  <2>1. wiki[i] \in WikiLine  BY <1>1 DEF n
  <2> QED BY <2>1, LineIsParsed
<1>4. lines \in [1..n -> WikiLine] /\ \A i \in 1..n : lines[i] = ParsedLine(wiki[i])
  BY <1>3
<1> HIDE DEF lines
<1>5. lines \in Seq(WikiLine) /\ Len(lines) = n  BY <1>1, <1>4, FunctionIsSeq
<1>6. Computed(lines) = lines  BY <1>5, ComputedIs
<1> QED BY <1>2, <1>4, <1>5, <1>6 DEF n

LEMMA ParsedRows ==
  ASSUME NEW line \in WikiLine
  PROVE  IsRow(ParsedLine(line)) <=> IsRow(line)
<1>1. CASE IsRow(line)
  <2>1. ParsedLine(line).mark = line.mark  BY <1>1 DEF ParsedLine, TableRow
  <2> QED BY <1>1, <2>1 DEF IsRow
<1>2. CASE ~IsRow(line)  BY <1>2, BlankIsProse DEF ParsedLine
<1> QED BY <1>1, <1>2

\* The tables of a text are those of its parts, if no table goes from one to the other.
LEMMA TextsJoined ==
  ASSUME NEW a \in Seq(WikiLine), NEW b \in Seq(WikiLine),
         \/ a = <<>> \/ ~IsRow(a[Len(a)])
         \/ b = <<>> \/ ~IsRow(b[1])
  PROVE  TablesOf(a \o b) = TablesOf(a) \o TablesOf(b)
<1> DEFINE m == Len(a)
           n == Len(b)
           both == a \o b
           pa == Parsed(a)
           pb == Parsed(b)
<1>1. /\ m \in Nat /\ n \in Nat /\ both \in Seq(WikiLine) /\ Len(both) = m + n
      /\ \A i \in 1..m : both[i] = a[i]
      /\ \A i \in 1..n : both[m + i] = b[i]
  OBVIOUS
<1>2. /\ pa \in Seq(WikiLine) /\ Len(pa) = m /\ \A i \in 1..m : pa[i] = ParsedLine(a[i])
      /\ pb \in Seq(WikiLine) /\ Len(pb) = n /\ \A i \in 1..n : pb[i] = ParsedLine(b[i])
  BY ParsedIs
<1>3. /\ Parsed(both) \in Seq(WikiLine) /\ Len(Parsed(both)) = m + n
      /\ \A i \in 1..(m + n) : Parsed(both)[i] = ParsedLine(both[i])
  BY <1>1, ParsedIs
<1> HIDE DEF both, pa, pb, m, n
<1>4. /\ pa \o pb \in Seq(WikiLine) /\ Len(pa \o pb) = m + n
      /\ \A i \in 1..m : (pa \o pb)[i] = pa[i]
      /\ \A i \in 1..n : (pa \o pb)[m + i] = pb[i]
  <2>1. pa \in Seq(WikiLine) /\ m = Len(pa) /\ pb \in Seq(WikiLine) /\ n = Len(pb)
    BY <1>2
  <2>2. /\ pa \o pb \in Seq(WikiLine) /\ Len(pa \o pb) = Len(pa) + Len(pb)
        /\ \A i \in 1..Len(pa) : (pa \o pb)[i] = pa[i]
        /\ \A i \in 1..Len(pb) : (pa \o pb)[Len(pa) + i] = pb[i]
    BY <2>1, Concatenated
  <2> QED BY <2>1, <2>2, Zenon
<1>5. ASSUME NEW i \in 1..(m + n)
      PROVE  (pa \o pb)[i] = ParsedLine(both[i])
  <2> DEFINE all == pa \o pb
  <2>1. CASE i =< m
    <3>1. i \in 1..m  BY <1>1, <2>1
    <3> QED BY <1>1, <1>2, <1>4, <3>1
  <2>2. CASE ~(i =< m)
    <3> DEFINE j == i - m
    <3>1. j \in 1..n /\ m + j = i  BY <1>1, <2>2
    <3> HIDE DEF j, all
    <3>2. all[m + j] = pb[j] /\ both[m + j] = b[j] /\ pb[j] = ParsedLine(b[j])
      BY <1>1, <1>2, <1>4, <3>1 DEF all
    <3> QED BY <3>1, <3>2 DEF all
  <2> QED BY <2>1, <2>2
<1>6. Parsed(both) = pa \o pb  BY <1>3, <1>4, <1>5, SameElements
<1>7. \/ pa = <<>> \/ ~IsRow(pa[Len(pa)])
      \/ pb = <<>> \/ ~IsRow(pb[1])
  <2>1. a = <<>> => pa = <<>>  BY <1>2 DEF m
  <2>2. b = <<>> => pb = <<>>  BY <1>2 DEF n
  <2>3. a # <<>> /\ ~IsRow(a[m]) => ~IsRow(pa[m])
    <3>1. a # <<>> => m \in 1..m /\ a[m] \in WikiLine  BY DEF m
    <3> QED BY <1>2, <3>1, ParsedRows
  <2>4. b # <<>> /\ ~IsRow(b[1]) => ~IsRow(pb[1])
    <3>1. b # <<>> => 1 \in 1..n /\ b[1] \in WikiLine  BY DEF n
    <3> QED BY <1>2, <3>1, ParsedRows
  <2> QED BY <1>2, <2>1, <2>2, <2>3, <2>4 DEF m
<1>8. TablesIn(pa \o pb) = TablesIn(pa) \o TablesIn(pb)
  BY <1>2, <1>7, TablesJoined
<1> QED BY <1>6, <1>8 DEF TablesOf, both, pa, pb

LEMMA NoTablesOf ==
  ASSUME NEW wiki \in Seq(WikiLine), \A i \in 1..Len(wiki) : ~IsRow(wiki[i])
  PROVE  TablesOf(wiki) = <<>>
<1>1. /\ Parsed(wiki) \in Seq(WikiLine) /\ Len(Parsed(wiki)) = Len(wiki)
      /\ \A i \in 1..Len(wiki) : Parsed(wiki)[i] = ParsedLine(wiki[i])
  BY ParsedIs
<1>2. \A i \in 1..Len(wiki) : ~IsRow(Parsed(wiki)[i])  BY <1>1, ParsedRows
<1> QED BY <1>1, <1>2, NoTables DEF TablesOf

LEMMA TablesAreTyped ==
  ASSUME NEW wiki \in Seq(WikiLine)
  PROVE  TablesOf(wiki) \in Seq(WikiTable)
<1> DEFINE lines == Parsed(wiki)
<1>1. lines \in Seq(WikiLine)  BY ParsedIs
<1> HIDE DEF lines
<1>2. PICK f : ReadsTo(lines, f) /\ \A k \in 0..Len(lines) : HoldsTables(lines, k, f[k])
  BY <1>1, TablesExist
<1>3. Len(lines) \in 0..Len(lines)  BY <1>1
<1>4. TablesIn(lines) = f[Len(lines)]  BY <1>1, <1>2, TablesAre
<1> QED BY <1>2, <1>3, <1>4 DEF HoldsTables, TablesOf, lines

\* What is put behind a text without being a row changes no table.
LEMMA ProseAdded ==
  ASSUME NEW wiki \in Seq(WikiLine), NEW line \in WikiLine, ~IsRow(line)
  PROVE  TablesOf(Append(wiki, line)) = TablesOf(wiki)
<1> DEFINE one == <<line>>
<1>1. one \in Seq(WikiLine) /\ Len(one) = 1 /\ one[1] = line /\ Append(wiki, line) = wiki \o one
  OBVIOUS
<1> HIDE DEF one
<1>2. \A i \in 1..Len(one) : ~IsRow(one[i])  BY <1>1
<1>3. TablesOf(wiki \o one) = TablesOf(wiki) \o TablesOf(one)
  BY <1>1, TextsJoined
<1>4. TablesOf(one) = <<>> /\ TablesOf(wiki) \in Seq(WikiTable)
  BY <1>1, <1>2, NoTablesOf, TablesAreTyped
<1>5. TablesOf(wiki) \o <<>> = TablesOf(wiki)  BY <1>4
<1> QED BY <1>1, <1>3, <1>4, <1>5

-----------------------------------------------------------------------------
(* Formatting what was formatted *)

LEMMA AroundZero == 0 \in Int /\ 1 - 0 = 1 /\ 1..0 = {} /\ Len(<<>>) = 0
OBVIOUS

\* A cell that starts with something solid starts with it when it is trimmed and
\* padded.
LEMMA FirstKept ==
  ASSUME NEW cell \in CellText, 1 \in DOMAIN cell, cell[1] # " ",
         NEW padded \in CellText, Moved(padded, Trim(cell), 0)
  PROVE  padded # <<>> /\ padded[1] = cell[1]
<1>1. /\ cell \in Seq(Characters) /\ Len(cell) \in Nat /\ DOMAIN cell = 1..Len(cell)
      /\ padded \in Seq(Characters) /\ Len(padded) \in Nat
  BY CellIsSeq
<1>2. Trim(cell) \in CellText  BY Trimmed
<1>3. Moved(Trim(cell), cell, 0)  BY TrimMoves
<1>4. Moved(padded, cell, 0)  BY <1>2, <1>3, AroundZero, MovedFurther, Zenon
<1>5. 1 - 0 \in 1..Len(padded) /\ padded[1 - 0] = cell[1]
  BY <1>1, <1>4 DEF Moved
<1>7. padded # <<>>
  <2> SUFFICES ASSUME padded = <<>>
               PROVE  FALSE
    OBVIOUS
  <2>1. 1 \in 1..0  BY <1>5, AroundZero, Zenon
  <2> QED BY <2>1, AroundZero, Zenon
<1> QED BY <1>5, <1>7, AroundZero, Zenon

\* The first character and the others.
LEMMA HeadPutBack ==
  ASSUME NEW T, NEW s \in Seq(T), s # <<>>
  PROVE  s = <<s[1]>> \o Tail(s)
<1> DEFINE one == <<s[1]>>
           rest == Tail(s)
           both == one \o rest
<1>1. Len(s) \in Nat /\ Len(s) >= 1 /\ s[1] \in T  OBVIOUS
<1>2. /\ rest \in Seq(T) /\ Len(rest) = Len(s) - 1
      /\ \A i \in 1..(Len(s) - 1) : rest[i] = s[i + 1]
  OBVIOUS
<1> DEFINE first == s[1]
<1> HIDE DEF rest, first
<1>3. /\ both \in Seq(T) /\ Len(both) = 1 + Len(rest) /\ both[1] = first
      /\ \A i \in 1..Len(rest) : both[i + 1] = rest[i]
  <2>1. first \in T /\ both = <<first>> \o rest  BY <1>1 DEF first
  <2> HIDE DEF both
  <2> QED BY <1>2, <2>1, Prepended
<1> HIDE DEF both
<1>4. ASSUME NEW i \in 1..Len(s)
      PROVE  s[i] = both[i]
  <2>1. CASE i = 1  BY <1>3, <2>1 DEF first
  <2>2. CASE i # 1
    <3>1. i - 1 \in 1..Len(rest) /\ (i - 1) + 1 = i  BY <1>1, <1>2, <2>2
    <3>2. both[(i - 1) + 1] = rest[i - 1] /\ rest[i - 1] = s[(i - 1) + 1]
      BY <1>2, <1>3, <3>1
    <3> QED BY <3>1, <3>2
  <2> QED BY <2>1, <2>2
<1>5. Len(both) = Len(s)  BY <1>1, <1>2, <1>3
<1>6. s = both  BY <1>3, <1>4, <1>5, SameElements
<1> QED BY <1>6 DEF both

Columns(row) == Append(row.cells, row.suffix)

LEMMA ColumnsAre ==
  ASSUME NEW row \in WikiLine
  PROVE  /\ Columns(row) \in Seq(CellText) /\ Columns(row) # <<>>
         /\ row.cells \in Seq(CellText) /\ Len(row.cells) \in Nat
         /\ Len(Columns(row)) = Len(row.cells) + 1
<1>1. row.cells \in Seq(CellText) /\ row.suffix \in CellText  BY DEF WikiLine
<1> QED BY <1>1 DEF Columns

\* The columns that a row is split into are its cells and its suffix, trimmed.
LEMMA SplitColumns ==
  ASSUME NEW rows \in Seq(WikiLine), NEW i \in DOMAIN rows,
         NEW marked \in BOOLEAN,
         marked <=> Prevents(rows) # {} /\ i = Min(Prevents(rows))
  PROVE  /\ SplitRow(rows, i) \in Seq(CellText)
         /\ Len(SplitRow(rows, i)) = Len(Columns(rows[i]))
         /\ \A c \in 1..Len(Columns(rows[i])) :
              Held(Columns(rows[i]), marked, c) \in CellText
              /\ SplitRow(rows, i)[c] = Trim(Held(Columns(rows[i]), marked, c))
<1> DEFINE columns == Columns(rows[i])
           n == Len(columns)
           first == IF marked THEN <<"!">> \o columns[1] ELSE columns[1]
           rest == Tail(columns)
           all == <<first>> \o rest
<1>1. columns \in Seq(CellText) /\ columns # <<>> /\ n \in Nat /\ n >= 1
  <2>1. rows[i] \in WikiLine  OBVIOUS
  <2>2. columns \in Seq(CellText) /\ columns # <<>>  BY <2>1, ColumnsAre
  <2> HIDE DEF columns
  <2> QED BY <2>2
<1>2. SplitRow(rows, i) = TrimAll(all)  BY DEF SplitRow, Columns
<1> HIDE DEF columns
<1>3. /\ rest \in Seq(CellText) /\ Len(rest) = n - 1
      /\ \A c \in 1..(n - 1) : rest[c] = columns[c + 1]
  BY <1>1
<1> HIDE DEF rest, n
<1>4. first \in CellText
  <2> DEFINE bang == <<"!">>
             head == columns[1]
  <2>1. head \in Seq(Characters)
    <3>1. columns[1] \in CellText  BY <1>1 DEF n
    <3> QED BY <3>1 DEF CellText
  <2>2. bang \in Seq(Characters)  BY DEF Characters
  <2> HIDE DEF bang, head
  <2>3. bang \o head \in Seq(Characters)  BY <2>1, <2>2
  <2>4. first = IF marked THEN bang \o head ELSE head  BY DEF bang, head
  <2> HIDE DEF first
  <2> QED BY <2>1, <2>3, <2>4 DEF CellText
<1>5. first = Held(columns, marked, 1)  BY DEF Held
<1> HIDE DEF first
<1>6. /\ all \in Seq(CellText) /\ Len(all) = n /\ all[1] = first
      /\ \A c \in 1..(n - 1) : all[c + 1] = rest[c]
  <2>1. /\ all \in Seq(CellText) /\ Len(all) = 1 + Len(rest) /\ all[1] = first
        /\ \A c \in 1..Len(rest) : all[c + 1] = rest[c]
    BY <1>3, <1>4, Prepended
  <2> HIDE DEF all
  <2> QED BY <1>1, <1>3, <2>1
<1> HIDE DEF all
<1>7. /\ TrimAll(all) \in Seq(CellText) /\ Len(TrimAll(all)) = n
      /\ \A c \in 1..n : TrimAll(all)[c] = Trim(all[c])
  BY <1>6, AllTrimmed
<1>8. ASSUME NEW c \in 1..n
      PROVE  all[c] \in CellText /\ all[c] = Held(columns, marked, c)
  <2>0. all[c] \in CellText  BY <1>6, ElementIn
  <2>1. CASE c = 1  BY <1>5, <1>6, <2>0, <2>1
  <2>2. CASE c # 1
    <3>1. c - 1 \in 1..(n - 1) /\ (c - 1) + 1 = c  BY <1>1, <2>2
    <3>2. all[(c - 1) + 1] = rest[c - 1] /\ rest[c - 1] = columns[(c - 1) + 1]
      BY <1>3, <1>6, <3>1
    <3>3. all[c] = columns[c]  BY <3>1, <3>2
    <3> QED BY <2>0, <2>2, <3>3 DEF Held
  <2> QED BY <2>1, <2>2
<1> QED BY <1>2, <1>7, <1>8 DEF n, columns

PaddedRow(columns, i) == Append(Padded(Fronts(columns))[i], Last(columns[i]))

\* Padded, a row has the columns it had.
LEMMA ColumnsArePadded ==
  ASSUME NEW columns \in Seq(Seq(CellText) \ {<<>>}), columns # <<>>,
         Fronts(columns) \in Seq(Seq(CellText)), Fronts(columns) # <<>>,
         Len(Fronts(columns)) = Len(columns),
         NEW i \in 1..Len(columns)
  PROVE  /\ PaddedRow(columns, i) \in Seq(CellText)
         /\ Len(PaddedRow(columns, i)) = Len(columns[i])
         /\ Padded(Fronts(columns))[i] \in Seq(CellText)
         /\ Last(columns[i]) \in CellText
         /\ \A c \in 1..Len(columns[i]) :
              PaddedRow(columns, i)[c] \in CellText
              /\ Moved(PaddedRow(columns, i)[c], columns[i][c], 0)
<1> DEFINE table == Fronts(columns)
           pads == Padded(table)[i]
           row == columns[i]
           m == Len(row) - 1
           last == Last(row)
           all == Append(pads, last)
<1>1. row \in Seq(CellText) /\ row # <<>> /\ i \in DOMAIN columns  OBVIOUS
<1>2. table[i] = Front(row)  BY <1>1 DEF Fronts
<1>3. table \in Seq(Seq(CellText)) /\ table # <<>> /\ i \in DOMAIN table
  OBVIOUS
<1> HIDE DEF table, row
<1>4. /\ Front(row) \in Seq(CellText) /\ Len(Front(row)) = m /\ last \in CellText
      /\ m \in Nat /\ row[m + 1] = last
  <2>1. Front(row) \in Seq(CellText) /\ Len(Front(row)) = m /\ last \in CellText
    BY <1>1, FrontOfColumns
  <2>2. Len(row) \in Nat /\ Len(row) # 0 /\ m + 1 = Len(row)  BY <1>1
  <2> QED BY <2>1, <2>2 DEF Last
<1>5. \A c \in 1..m : Front(row)[c] = row[c]
  <2>1. Front(row) = SubSeq(row, 1, m)  BY DEF Front
  <2>2. \A c \in 1..m : SubSeq(row, 1, m)[c] = row[c]  BY <1>1, <1>4
  <2> QED BY <2>1, <2>2
<1> HIDE DEF last
<1>6. pads \in Seq(CellText) /\ Len(pads) = m
  <2>1. /\ Padded(table) \in Seq(Seq(CellText)) /\ Len(Padded(table)) = Len(table)
        /\ Len(Padded(table)[i]) = Len(table[i])
    BY <1>3, RowsArePadded
  <2>2. Padded(table)[i] \in Seq(CellText)  BY <1>3, <2>1
  <2> HIDE DEF m
  <2> QED BY <1>2, <1>4, <2>1, <2>2
<1>7. ASSUME NEW c \in 1..m
      PROVE  Moved(pads[c], row[c], 0)
  <2>1. c \in DOMAIN table[i]  BY <1>2, <1>4
  <2>2. Moved(Padded(table)[i][c], table[i][c], 0)  BY <1>3, <2>1, PaddedCells
  <2> QED BY <1>2, <1>5, <2>2
<1> HIDE DEF pads
<1>8. /\ all \in Seq(CellText) /\ Len(all) = m + 1 /\ all[m + 1] = last
      /\ \A c \in 1..m : all[c] = pads[c]
  BY <1>4, <1>6
<1>9. Len(row) = m + 1  BY <1>1
<1> HIDE DEF all, m
<1>10. ASSUME NEW c \in 1..(m + 1)
       PROVE  all[c] \in CellText /\ Moved(all[c], row[c], 0)
  <2>1. all[c] \in CellText  BY <1>8, ElementIn
  <2>2. CASE c \in 1..m  BY <1>7, <1>8, <2>1, <2>2
  <2>3. CASE c = m + 1  BY <1>4, <1>8, <2>1, <2>3, NotMoved
  <2>4. c \in 1..m \/ c = m + 1  BY <1>4
  <2> QED BY <2>2, <2>3, <2>4
<1>11. PaddedRow(columns, i) = all
  BY DEF PaddedRow, all, pads, table, last, row
<1> QED BY <1>4, <1>6, <1>8, <1>9, <1>10, <1>11 DEF row, pads, table, last

LEMMA ElementsWithOneMore ==
  ASSUME NEW T, NEW s \in Seq(T), NEW x \in T
  PROVE  /\ Append(s, x) \in Seq(T) /\ Len(Append(s, x)) = Len(s) + 1
         /\ \A i \in 1..Len(s) : Append(s, x)[i] = s[i]
         /\ Append(s, x)[Len(s) + 1] = x
OBVIOUS

LEMMA PartsGrow ==
  ASSUME NEW T, NEW s \in Seq(T), NEW k \in 1..Len(s)
  PROVE  /\ SubSeq(s, 1, 1) = <<s[1]>>
         /\ SubSeq(s, 1, k) = Append(SubSeq(s, 1, k - 1), s[k])
<1> DEFINE part == SubSeq(s, 1, k)
           before == SubSeq(s, 1, k - 1)
           more == Append(before, s[k])
<1>1. SubSeq(s, 1, 1) = <<s[1]>>
  <2> DEFINE first == SubSeq(s, 1, 1)
             one == <<s[1]>>
  <2>1. 1 =< Len(s) /\ Len(s) \in Nat /\ s[1] \in T  OBVIOUS
  <2>2. first \in Seq(T) /\ Len(first) = 1 /\ first[1] = s[1]  BY <2>1
  <2>3. one \in Seq(T) /\ Len(one) = 1 /\ one[1] = s[1]  BY <2>1
  <2> HIDE DEF first, one
  <2>4. \A i \in 1..Len(first) : first[i] = one[i]  BY <2>2, <2>3
  <2>5. first = one  BY <2>2, <2>3, <2>4, SameElements
  <2> QED BY <2>5 DEF first, one
<1>2. Len(s) \in Nat /\ s[k] \in T  OBVIOUS
<1>3. part \in Seq(T) /\ Len(part) = k /\ \A i \in 1..k : part[i] = s[i]
  BY <1>2
<1>4. before \in Seq(T) /\ Len(before) = k - 1 /\ \A i \in 1..(k - 1) : before[i] = s[i]
  BY <1>2
<1> HIDE DEF part, before
<1>5. /\ more \in Seq(T) /\ Len(more) = Len(before) + 1
      /\ \A i \in 1..Len(before) : more[i] = before[i]
      /\ more[Len(before) + 1] = s[k]
  BY <1>2, <1>4, ElementsWithOneMore
<1> HIDE DEF more
<1>6. Len(more) = k /\ more[k] = s[k] /\ \A i \in 1..(k - 1) : more[i] = s[i]
  BY <1>2, <1>4, <1>5
<1>7. \A i \in 1..k : i = k \/ i \in 1..(k - 1)  BY <1>2
<1>8. \A i \in 1..Len(part) : part[i] = more[i]  BY <1>3, <1>6, <1>7
<1>9. part = more  BY <1>3, <1>5, <1>6, <1>8, SameElements
<1> QED BY <1>1, <1>9 DEF part, more, before

LEMMA LastPutBack ==
  ASSUME NEW T, NEW s \in Seq(T), s # <<>>
  PROVE  /\ Front(s) \in Seq(T) /\ Last(s) \in T /\ s = Append(Front(s), Last(s))
         /\ Len(s) \in Nat \ {0} /\ Last(s) = s[Len(s)]
         /\ Len(Front(s)) = Len(s) - 1 /\ \A i \in 1..(Len(s) - 1) : Front(s)[i] = s[i]
<1> DEFINE n == Len(s)
           front == SubSeq(s, 1, n - 1)
<1>1. Front(s) = front /\ Last(s) = s[n]  BY DEF Front, Last
<1>2. n \in Nat \ {0} /\ s[n] \in T /\ n \in 1..n  OBVIOUS
<1>3. front \in Seq(T) /\ Len(front) = n - 1 /\ \A i \in 1..(n - 1) : front[i] = s[i]
  <2> DEFINE m == n - 1
  <2>1. m \in (1 - 1)..n /\ 1 \in 1..(n + 1)  BY <1>2
  <2>2. /\ front \in Seq(T) /\ Len(front) = m - 1 + 1
        /\ \A i \in 1..(m - 1 + 1) : front[i] = s[1 + i - 1]
    BY <2>1, PartIsSeq, Zenon
  <2>3. m - 1 + 1 = n - 1 /\ \A i \in 1..(n - 1) : 1 + i - 1 = i  BY <1>2
  <2> HIDE DEF front, n, m
  <2> QED BY <2>2, <2>3
<1>4. SubSeq(s, 1, n) = Append(front, s[n])  BY <1>2, PartsGrow
<1>5. SubSeq(s, 1, n) = s  OBVIOUS
<1> QED BY <1>1, <1>2, <1>3, <1>4, <1>5

LEMMA FirstIsCell == \A s \in Seq(CellText) : s # <<>> => s[1] \in Seq(Characters)
BY DEF CellText

\* The row that is left when the first character of the first column goes.
LEMMA LiteralColumns ==
  ASSUME NEW padded \in Seq(CellText), padded # <<>>, padded[1] # <<>>,
         NEW row, row = LiteralRow(WithoutSecond(padded))
  PROVE  /\ Len(Columns(row)) = Len(padded) /\ Columns(row)[1] = Tail(padded[1])
         /\ \A c \in 1..Len(padded) : c # 1 => Columns(row)[c] = padded[c]
<1> DEFINE n == Len(padded)
           head == Tail(padded[1])
           rest == Tail(padded)
           without == <<head>> \o rest
<1>1. n \in Nat /\ n >= 1 /\ padded[1] \in CellText  OBVIOUS
<1>2. head \in CellText
  <2>1. padded[1] \in Seq(Characters)  BY <1>1 DEF CellText
  <2>2. head \in Seq(Characters)  BY <2>1
  <2> QED BY <2>2 DEF CellText
<1>3. rest \in Seq(CellText) /\ Len(rest) = n - 1 /\ \A c \in 1..(n - 1) : rest[c] = padded[c + 1]
  BY <1>1
<1>4. row = LiteralRow(without)  BY DEF WithoutSecond
<1> HIDE DEF head, rest, n
<1>5. /\ without \in Seq(CellText) /\ Len(without) = n /\ without[1] = head
      /\ \A c \in 1..(n - 1) : without[c + 1] = rest[c]
  <2>1. /\ without \in Seq(CellText) /\ Len(without) = 1 + Len(rest) /\ without[1] = head
        /\ \A c \in 1..Len(rest) : without[c + 1] = rest[c]
    BY <1>2, <1>3, Prepended
  <2> HIDE DEF without
  <2> QED BY <1>1, <1>3, <2>1
<1>6. Columns(row) = Append(Front(without), Last(without))
  BY <1>4 DEF LiteralRow, TableRow, Columns
<1> HIDE DEF without
<1>7. Columns(row) = without
  <2>1. without # <<>>  BY <1>1, <1>5
  <2> QED BY <1>5, <1>6, <2>1, LastPutBack
<1>8. ASSUME NEW c \in 1..n, c # 1
      PROVE  without[c] = padded[c]
  <2>1. c - 1 \in 1..(n - 1) /\ (c - 1) + 1 = c  BY <1>1, <1>8
  <2>2. without[(c - 1) + 1] = rest[c - 1] /\ rest[c - 1] = padded[(c - 1) + 1]
    BY <1>3, <1>5, <2>1
  <2> QED BY <2>1, <2>2
<1> QED BY <1>5, <1>7, <1>8 DEF n, head

\* Its mark is the character again when it is split.
LEMMA MarkPutBack ==
  ASSUME NEW padded \in Seq(CellText), padded # <<>>, padded[1] # <<>>, padded[1][1] = "!",
         NEW row, row = LiteralRow(WithoutSecond(padded))
  PROVE  /\ Len(Columns(row)) = Len(padded)
         /\ \A c \in 1..Len(padded) : Held(Columns(row), TRUE, c) = padded[c]
<1>1. /\ Len(Columns(row)) = Len(padded) /\ Columns(row)[1] = Tail(padded[1])
      /\ \A c \in 1..Len(padded) : c # 1 => Columns(row)[c] = padded[c]
  BY LiteralColumns, Zenon
<1>2. padded[1] = <<padded[1][1]>> \o Tail(padded[1])
  <2>1. \A s \in Seq(CellText) : s # <<>> => s[1] \in Seq(Characters)
    BY FirstIsCell, Zenon
  <2> QED BY <2>1, HeadPutBack, Zenon
<1>3. padded[1] = <<"!">> \o Columns(row)[1]  BY <1>1, <1>2, Zenon
<1> QED BY <1>1, <1>3, Zenon DEF Held

LEMMA BangComesFirst ==
  ASSUME NEW cell \in CellText, NEW marked, marked = <<"!">> \o cell,
         NEW padded \in CellText, Moved(padded, Trim(marked), 0)
  PROVE  padded # <<>> /\ padded[1] = "!"
<1>1. /\ marked \in CellText /\ 1 \in DOMAIN marked /\ marked[1] = "!"
  <2> DEFINE bang == "!"
  <2>1. bang \in Characters /\ marked = <<bang>> \o cell /\ cell \in Seq(Characters)
    BY Zenon DEF Characters, CellText
  <2> HIDE DEF bang
  <2>2. marked \in Seq(Characters) /\ Len(marked) = 1 + Len(cell) /\ marked[1] = bang
    <3>1. /\ <<bang>> \o cell \in Seq(Characters) /\ Len(<<bang>> \o cell) = 1 + Len(cell)
          /\ (<<bang>> \o cell)[1] = bang
      BY <2>1, Prepended
    <3> QED BY <2>1, <3>1, Zenon
  <2>3. \A s \in Seq(Characters), t \in Seq(Characters) : Len(s) = 1 + Len(t) => 1 \in DOMAIN s
    OBVIOUS
  <2>4. 1 \in DOMAIN marked  BY <2>1, <2>2, <2>3, Zenon
  <2> QED BY <2>2, <2>4, Zenon DEF bang, CellText
<1>2. "!" # " "  OBVIOUS
<1>3. marked[1] # " "  BY <1>1, <1>2, Zenon
<1>4. padded # <<>> /\ padded[1] = marked[1]  BY <1>1, <1>3, FirstKept, Zenon
<1> QED BY <1>1, <1>4, Zenon

RowMade(columns, i, marked) ==
  IF marked THEN LiteralRow(WithoutSecond(PaddedRow(columns, i)))
  ELSE Plain(Padded(Fronts(columns)), columns, i)

\* A row that was made of trimmed columns is split into them again.
LEMMA SplitsAsBefore ==
  ASSUME NEW columns \in Seq(Seq(CellText) \ {<<>>}), columns # <<>>,
         Fronts(columns) \in Seq(Seq(CellText)), Fronts(columns) # <<>>,
         Len(Fronts(columns)) = Len(columns),
         NEW i \in 1..Len(columns), NEW marked \in BOOLEAN,
         NEW old \in Seq(CellText), old # <<>>, Len(old) = Len(columns[i]),
         \A c \in 1..Len(old) :
           Held(old, marked, c) \in CellText /\ columns[i][c] = Trim(Held(old, marked, c))
  PROVE  /\ Len(Columns(RowMade(columns, i, marked))) = Len(old)
         /\ \A c \in 1..Len(old) :
              Trim(Held(Columns(RowMade(columns, i, marked)), marked, c)) = columns[i][c]
<1> DEFINE line == RowMade(columns, i, marked)
           row == columns[i]
           p == PaddedRow(columns, i)
           n == Len(old)
<1>1. /\ p \in Seq(CellText) /\ Len(p) = n
      /\ \A c \in 1..n : p[c] \in CellText /\ Moved(p[c], row[c], 0)
  BY ColumnsArePadded
<1>2. p = Append(Padded(Fronts(columns))[i], Last(columns[i]))  BY DEF PaddedRow
<1>3. n \in Nat /\ n >= 1 /\ old[1] \in CellText  OBVIOUS
<1>4. p # <<>>  BY <1>1, <1>3
<1>5. \A c \in 1..n : Held(old, marked, c) \in CellText /\ row[c] = Trim(Held(old, marked, c))
  OBVIOUS
<1>6. marked => line = LiteralRow(WithoutSecond(p))  BY DEF RowMade
<1>7. ~marked => Columns(line) = p
  BY <1>2 DEF RowMade, Columns, Plain, TableRow
<1> HIDE DEF row, p, n, line
<1>8. ASSUME NEW c \in 1..n
      PROVE  Trim(p[c]) = row[c]
  <2> DEFINE held == Held(old, marked, c)
  <2>1. held \in CellText /\ row[c] = Trim(held) /\ p[c] \in CellText /\ Moved(p[c], row[c], 0)
    BY <1>1, <1>5
  <2> HIDE DEF held
  <2>2. Moved(p[c], Trim(held), 0)  BY <2>1, Zenon
  <2> QED BY <2>1, <2>2, PaddedCell, Zenon
<1>9. Len(Columns(line)) = n /\ \A c \in 1..n : Held(Columns(line), marked, c) = p[c]
  <2>1. CASE ~marked  BY <1>1, <1>7, <2>1, Zenon DEF Held
  <2>2. CASE marked
    <3>1. 1 \in 1..n  BY <1>3
    <3>2. row[1] = Trim(<<"!">> \o old[1]) /\ p[1] \in CellText /\ Moved(p[1], row[1], 0)
      BY <1>1, <1>5, <2>2, <3>1, Zenon DEF Held
    <3> DEFINE cell == old[1]
               first == p[1]
    <3>3. cell \in CellText /\ first \in CellText /\ Moved(first, Trim(<<"!">> \o cell), 0)
      BY <1>3, <3>2, Zenon
    <3> HIDE DEF cell, first
    <3>6. first # <<>> /\ first[1] = "!"  BY <3>3, BangComesFirst, Zenon
    <3>4. /\ Len(Columns(line)) = Len(p)
          /\ \A c \in 1..Len(p) : Held(Columns(line), TRUE, c) = p[c]
      BY <1>1, <1>4, <1>6, <2>2, <3>6, MarkPutBack, Zenon DEF first
    <3>5. marked = TRUE  BY <2>2, Zenon
    <3> QED BY <1>1, <3>4, <3>5, Zenon
  <2> QED BY <2>1, <2>2
<1>10. \A c \in 1..n : Trim(Held(Columns(line), marked, c)) = row[c]
  BY <1>8, <1>9, Zenon
<1> QED BY <1>9, <1>10 DEF n, row, line

\* A formatted table is formatted already.
LEMMA TableFormattedTwice ==
  ASSUME NEW rows \in Seq(WikiLine), rows # <<>>, OneTable(rows),
         NEW result, result = FormatTable(rows)
  PROVE  FormatTable(result) = result
<1> DEFINE n == Len(rows)
           columns == [i \in DOMAIN rows |-> SplitRow(rows, i)]
           again == [i \in DOMAIN result |-> SplitRow(result, i)]
           prevents == Prevents(rows) # {}
           First(i) == Prevents(rows) # {} /\ i = Min(Prevents(rows))
<1>1. n \in Nat /\ n >= 1 /\ DOMAIN rows = 1..n /\ \A i \in 1..n : rows[i] \in WikiLine
  OBVIOUS
<1>2. result = FormatColumns(Computed(columns), prevents)  BY DEF FormatTable
<1>3. result \in Seq(WikiLine) /\ Len(result) = n /\ \A i \in 1..n : result[i].mark = rows[i].mark
  BY TablesAreFormatted, TableKeepsRows DEF SameRow
<1>4. DOMAIN result = 1..n /\ \A i \in 1..n : result[i] \in WikiLine
  <2> HIDE DEF n
  <2> QED BY <1>3
<1>5. Prevents(result) = Prevents(rows)  BY <1>1, <1>3, <1>4 DEF Prevents
<1>6. FormatTable(result) = FormatColumns(Computed(again), prevents)
  BY <1>5, Zenon DEF FormatTable
<1>7. columns \in [1..n -> Seq(CellText) \ {<<>>}] /\ \A i \in 1..n : columns[i] = SplitRow(rows, i)
  <2>1. \A i \in 1..n : SplitRow(rows, i) \in Seq(CellText) \ {<<>>}
    BY <1>1, RowsAreSplit
  <2> QED BY <1>1, <2>1
<1>8. again = [i \in 1..n |-> SplitRow(result, i)]  BY <1>4
<1>9. \A i \in Prevents(rows) : i = 1
  <2> SUFFICES ASSUME NEW i \in Prevents(rows), i # 1
               PROVE  FALSE
    OBVIOUS
  <2>1. i \in 2..Len(rows) /\ rows[i].mark = "!"  BY <1>1 DEF Prevents
  <2> QED BY <2>1 DEF OneTable
<1>10. ASSUME NEW i \in 1..n
       PROVE  (prevents /\ i = 1) <=> First(i)
  <2> SUFFICES ASSUME Prevents(rows) # {}
               PROVE  Min(Prevents(rows)) = 1
    OBVIOUS
  <2>1. Prevents(rows) \in SUBSET Nat  BY <1>9
  <2> QED BY <1>9, <2>1, MinOf
<1>11. ASSUME prevents
       PROVE  columns[1] # <<<<>>>>
  <2>1. 1 \in DOMAIN rows /\ First(1)  BY <1>1, <1>10, <1>11
  <2>2. SplitRow(rows, 1) # <<<<>>>>  BY <2>1, RowsAreSplit
  <2> QED BY <1>1, <1>7, <2>2
<1>12. prevents \in BOOLEAN  OBVIOUS
<1>13. \A i : First(i) <=> (Prevents(result) # {} /\ i = Min(Prevents(result)))
  BY <1>5, Zenon
<1> HIDE DEF prevents, n, columns, again
<1>14. columns \in Seq(Seq(CellText) \ {<<>>}) /\ Len(columns) = n /\ columns # <<>>
  BY <1>1, <1>7, FunctionIsSeq
<1>15. Computed(columns) = columns  BY <1>14, ComputedIs
<1>16. /\ Fronts(columns) \in Seq(Seq(CellText)) /\ Fronts(columns) # <<>>
       /\ Len(Fronts(columns)) = Len(columns)
       /\ \A i \in 1..n : result[i] = MadeLine(columns, prevents, i)
  <2>1. result = FormatColumns(columns, prevents)  BY <1>2, <1>15
  <2> QED BY <1>11, <1>12, <1>14, <2>1, LinesOfColumns
<1>17. ASSUME NEW i \in 1..n
       PROVE  SplitRow(result, i) = columns[i]
  <2> DEFINE marked == prevents /\ i = 1
             old == Columns(rows[i])
             line == result[i]
             m == Len(old)
             row == columns[i]
             split == SplitRow(result, i)
  <2>1. marked \in BOOLEAN /\ (marked <=> First(i))  BY <1>10, <1>12
  <2>2. old \in Seq(CellText) /\ old # <<>> /\ m \in Nat
    <3>1. rows[i] \in WikiLine  BY <1>1
    <3>2. old \in Seq(CellText) /\ old # <<>>  BY <3>1, ColumnsAre
    <3> HIDE DEF old
    <3> QED BY <3>2
  <2> HIDE DEF marked, First
  <2>3. /\ row \in Seq(CellText) /\ Len(row) = m
        /\ \A c \in 1..m : Held(old, marked, c) \in CellText /\ row[c] = Trim(Held(old, marked, c))
    <3>1. i \in DOMAIN rows /\ row = SplitRow(rows, i) /\ row \in Seq(CellText)
      BY <1>1, <1>7
    <3>2. marked <=> (Prevents(rows) # {} /\ i = Min(Prevents(rows)))
      BY <2>1 DEF First
    <3> HIDE DEF row
    <3> QED BY <2>1, <3>1, <3>2, SplitColumns
  <2>4. /\ split \in Seq(CellText) /\ Len(split) = Len(Columns(line))
        /\ \A c \in 1..Len(Columns(line)) : split[c] = Trim(Held(Columns(line), marked, c))
    <3>1. i \in DOMAIN result  BY <1>4
    <3>2. marked <=> (Prevents(result) # {} /\ i = Min(Prevents(result)))
      BY <1>13, <2>1
    <3> QED BY <1>3, <2>1, <3>1, <3>2, SplitColumns
  <2>5. line = RowMade(columns, i, marked)
    BY <1>16 DEF MadeLine, PaddedRow, RowMade, marked
  <2> HIDE DEF old, line, m, split
  <2>6. Len(Columns(line)) = m /\ \A c \in 1..m : Trim(Held(Columns(line), marked, c)) = row[c]
    <3>1. i \in 1..Len(columns)  BY <1>14
    <3>2. /\ Len(old) = Len(columns[i])
          /\ \A c \in 1..Len(old) :
               Held(old, marked, c) \in CellText /\ columns[i][c] = Trim(Held(old, marked, c))
      BY <2>3, Zenon DEF m, row
    <3>3. /\ Len(Columns(line)) = Len(old)
          /\ \A c \in 1..Len(old) : Trim(Held(Columns(line), marked, c)) = columns[i][c]
      <4>1. /\ columns \in Seq(Seq(CellText) \ {<<>>}) /\ columns # <<>>
            /\ Fronts(columns) \in Seq(Seq(CellText)) /\ Fronts(columns) # <<>>
            /\ Len(Fronts(columns)) = Len(columns)
            /\ i \in 1..Len(columns) /\ marked \in BOOLEAN /\ old \in Seq(CellText) /\ old # <<>>
        BY <1>14, <1>16, <2>1, <2>2, <3>1, Zenon
      <4> DEFINE made == RowMade(columns, i, marked)
      <4>2. /\ Len(Columns(made)) = Len(old)
            /\ \A c \in 1..Len(old) : Trim(Held(Columns(made), marked, c)) = columns[i][c]
        BY <3>2, <4>1, SplitsAsBefore
      <4> QED BY <2>5, <4>2
    <3> QED BY <3>3, Zenon DEF m, row
  <2> HIDE DEF row
  <2>7. Len(split) = m /\ \A c \in 1..m : split[c] = row[c]  BY <2>4, <2>6
  <2>8. split = row  BY <2>3, <2>4, <2>7, SameElements
  <2> QED BY <2>8 DEF split, row
<1>18. again = columns
  <2>1. columns = [i \in 1..n |-> columns[i]]  BY <1>7
  <2> QED BY <1>8, <1>17, <2>1
<1> QED BY <1>2, <1>6, <1>18, Zenon

-----------------------------------------------------------------------------
(* Formatting a text that was formatted *)

\* What a row makes of a text in the making, and a line of prose.
LEMMA NextLine ==
  ASSUME NEW done \in [text : Seq(WikiLine), table : Seq(WikiLine)], NEW line
  PROVE  /\ IsTableRow(line) =>
              FormatLine(done, line) = [text |-> done.text, table |-> Append(done.table, line)]
         /\ ~IsTableRow(line) =>
              FormatLine(done, line) =
                [text |-> done.text \o FormatTable(done.table) \o <<line>>, table |-> <<>>]
BY DEF FormatLine

\* A line is part of the text that is made once it is written.
LEMMA WrittenBefore ==
  ASSUME NEW page \in Seq(WikiLine), NEW k \in 1..Len(page),
         NEW done, KeptLines(page, k - 1, done), NEW new, new = FormatLine(done, page[k]),
         KeptLines(page, k, new)
  PROVE  \A i \in 1..Len(done.text) : i \in 1..Len(new.text) /\ new.text[i] = done.text[i]
<1>0. done \in [text : Seq(WikiLine), table : Seq(WikiLine)]  BY DEF KeptLines
<1>1. done.text \in Seq(WikiLine) /\ done.table \in Seq(WikiLine)  BY <1>0
<1>2. CASE IsTableRow(page[k])
  <2>1. new.text = done.text
    <3>1. new = FormatLine(done, page[k])  OBVIOUS
    <3>2. FormatLine(done, page[k]) = [text |-> done.text, table |-> Append(done.table, page[k])]
      BY <1>0, <1>2, NextLine
    <3> QED BY <3>1, <3>2
  <2> QED BY <2>1
<1>3. CASE ~IsTableRow(page[k])
  <2> DEFINE rows == FormatTable(done.table)
             start == done.text \o rows
             one == <<page[k]>>
  <2>1. new.text = start \o one
    <3>1. new = FormatLine(done, page[k])  OBVIOUS
    <3>2. FormatLine(done, page[k]) = [text |-> start \o one, table |-> <<>>]
      BY <1>0, <1>3, NextLine
    <3> HIDE DEF start, one
    <3> QED BY <3>1, <3>2
  <2>2. rows \in Seq(WikiLine) /\ one \in Seq(WikiLine)
    BY <1>1, TablesAreFormatted
  <2> HIDE DEF rows, one
  <2>3. /\ start \in Seq(WikiLine) /\ Len(start) = Len(done.text) + Len(rows)
        /\ \A i \in 1..Len(done.text) : start[i] = done.text[i]
    BY <1>1, <2>2, Concatenated
  <2> HIDE DEF start
  <2> DEFINE made == start \o one
  <2>4. /\ made \in Seq(WikiLine) /\ Len(made) = Len(start) + Len(one)
        /\ \A i \in 1..Len(start) : made[i] = start[i]
    BY <2>2, <2>3, Concatenated
  <2> HIDE DEF made
  <2>5. Len(rows) \in Nat /\ Len(one) \in Nat /\ Len(done.text) \in Nat
    BY <1>1, <2>2
  <2>6. \A i \in 1..Len(done.text) : i \in 1..Len(start) /\ i \in 1..Len(made)
    BY <2>3, <2>4, <2>5
  <2>7. new.text = made  BY <2>1 DEF made
  <2> QED BY <2>3, <2>4, <2>6, <2>7
<1> QED BY <1>2, <1>3

\* The text that is made of the first k lines is part of what is made of all.
LEMMA MadeInPieces ==
  ASSUME NEW page \in Seq(WikiLine), NEW n \in Nat, n = Len(page), NEW base, NEW f,
         H!Follows(page, base, page, n, f), \A k \in 0..n : KeptLines(page, k, f[k])
  PROVE  \A k \in 0..n : \A i \in 1..Len(f[k].text) :
           i \in 1..Len(f[n].text) /\ f[n].text[i] = f[k].text[i]
<1> DEFINE Whole(k) == \A i \in 1..Len(f[k].text) :
                         i \in 1..Len(f[n].text) /\ f[n].text[i] = f[k].text[i]
<1> SUFFICES ASSUME NEW m \in 0..n
             PROVE  Whole(m)
  OBVIOUS
<1>1. \A k \in 1..n : f[k] = FormatLine(f[k - 1], page[k])
  BY Zenon DEF H!Follows, FormatNext
<1>2. ASSUME NEW k \in 1..n, Whole(k)
      PROVE  Whole(k - 1)
  <2> DEFINE done == f[k - 1]
             new == f[k]
  <2>1. k \in 1..Len(page) /\ k - 1 \in 0..n /\ k \in 0..n  OBVIOUS
  <2>2. KeptLines(page, k - 1, done) /\ new = FormatLine(done, page[k]) /\ KeptLines(page, k, new)
    BY <1>1, <2>1
  <2> HIDE DEF done, new
  <2>3. \A i \in 1..Len(done.text) : i \in 1..Len(new.text) /\ new.text[i] = done.text[i]
    BY <2>1, <2>2, WrittenBefore
  <2> QED BY <1>2, <2>3, Zenon DEF done, new
<1> HIDE DEF Whole
<1> DEFINE T == {d \in 0..(n - m) : Whole(n - d)}
<1>3. 0 \in T
  <2>1. Whole(n) /\ n - 0 = n /\ 0 \in 0..(n - m)  BY DEF Whole
  <2> QED BY <2>1
<1>4. ASSUME NEW d \in Nat, d < n - m, d \in T
      PROVE  d + 1 \in T
  <2>1. n - d \in 1..n /\ (n - d) - 1 = n - (d + 1) /\ d + 1 \in 0..(n - m)
    BY <1>4
  <2>2. Whole(n - d)  BY <1>4
  <2>3. Whole((n - d) - 1)  BY <1>2, <2>1, <2>2
  <2> QED BY <2>1, <2>3
<1>5. n - m \in Nat /\ n - (n - m) = m  OBVIOUS
<1> HIDE DEF T
<1>6. n - m \in T  BY <1>3, <1>4, <1>5, H!FirstOutside
<1> QED BY <1>5, <1>6 DEF T

\* The state of a text in the making, when the lines that are formatted are those
\* that were made before.
Again(made, f, k) ==
  [text |-> f[k].text, table |-> SubSeq(made, Len(f[k].text) + 1, k)]

\* A line of a text whose tables are apart, what was made of the lines before it,
\* of those up to it and of all.
Remade(page, made, k, done, new) ==
  /\ page \in Seq(WikiLine) /\ Apart(page) /\ k \in 1..Len(page)
  /\ KeptLines(page, k - 1, done)
  /\ new = FormatLine(done, page[k]) /\ KeptLines(page, k, new)
  /\ made \in Seq(WikiLine)
  /\ Len(made) = Len(page) /\ \A i \in 1..Len(made) : SameRow(made[i], page[i])
  /\ \A i \in 1..Len(new.text) : i \in 1..Len(made) /\ made[i] = new.text[i]

MakesAgain(made, k, done, new) ==
  [text |-> new.text, table |-> SubSeq(made, Len(new.text) + 1, k)] =
  FormatLine([text |-> done.text, table |-> SubSeq(made, Len(done.text) + 1, k - 1)], made[k])

\* A line of a formatted text is formatted to where it was.
LEMMA LinesFormattedTwice ==
  ASSUME NEW page, NEW k, NEW done, NEW new, NEW made, Remade(page, made, k, done, new)
  PROVE  MakesAgain(made, k, done, new)
<1>10. /\ page \in Seq(WikiLine) /\ Apart(page) /\ k \in 1..Len(page) /\ made \in Seq(WikiLine)
       /\ new = FormatLine(done, page[k])
       /\ KeptLines(page, k - 1, done) /\ KeptLines(page, k, new)
       /\ Len(made) = Len(page) /\ \A i \in 1..Len(made) : SameRow(made[i], page[i])
       /\ \A i \in 1..Len(new.text) : i \in 1..Len(made) /\ made[i] = new.text[i]
  BY Zenon DEF Remade
<1> DEFINE a == Len(done.text)
           b == Len(done.table)
           line == page[k]
           n == Len(page)
           waiting == SubSeq(made, a + 1, k - 1)
           state == [text |-> done.text, table |-> waiting]
<1>2. new = FormatLine(done, line) /\ KeptLines(page, k - 1, done)  BY <1>10
<1>1. /\ done \in [text : Seq(WikiLine), table : Seq(WikiLine)]
      /\ a \in Nat /\ b \in Nat /\ a + b = k - 1 /\ n \in Nat /\ k \in 1..n
  <2>1. done \in [text : Seq(WikiLine), table : Seq(WikiLine)]
    BY <1>2 DEF KeptLines
  <2>2. a + b = k - 1  BY <1>2 DEF KeptLines
  <2>3. a \in Nat /\ b \in Nat /\ n \in Nat /\ k \in 1..n  BY <1>10, <2>1
  <2> QED BY <2>1, <2>2, <2>3
<1>3. /\ made \in Seq(WikiLine) /\ Len(made) = n /\ made[k].mark = line.mark
      /\ \A i \in 1..Len(new.text) : made[i] = new.text[i]
  BY <1>10 DEF SameRow
<1>4. IsTableRow(made[k]) <=> IsTableRow(line)  BY <1>3 DEF IsTableRow
<1>5. done.text \in Seq(WikiLine) /\ done.table \in Seq(WikiLine)  BY <1>1
<1> HIDE DEF n, a, b, line
<1>6. /\ waiting \in Seq(WikiLine) /\ Len(waiting) = b
      /\ \A i \in 1..b : waiting[i] = made[a + i]
  <2> DEFINE lo == a + 1
             hi == k - 1
  <2>1. lo \in 1..(Len(made) + 1) /\ hi \in (lo - 1)..Len(made) /\ hi - lo + 1 = b
    BY <1>1, <1>3
  <2>2. \A i \in 1..b : lo + i - 1 = a + i  BY <1>1
  <2> HIDE DEF lo, hi
  <2>3. /\ SubSeq(made, lo, hi) \in Seq(WikiLine) /\ Len(SubSeq(made, lo, hi)) = hi - lo + 1
        /\ \A i \in 1..(hi - lo + 1) : SubSeq(made, lo, hi)[i] = made[lo + i - 1]
    BY <1>3, <2>1, PartIsSeq, Zenon
  <2> QED BY <2>1, <2>2, <2>3 DEF lo, hi
<1> HIDE DEF waiting
<1>7. state \in [text : Seq(WikiLine), table : Seq(WikiLine)] /\ state.text = done.text /\ state.table = waiting
  BY <1>5, <1>6
<1> HIDE DEF state
<1>8. CASE IsTableRow(line)
  <2>1. FormatLine(done, line) = [text |-> done.text, table |-> Append(done.table, line)]
    BY <1>1, <1>8, NextLine
  <2>2. new.text = done.text  BY <1>2, <2>1
  <2>3. FormatLine(state, made[k]) = [text |-> done.text, table |-> Append(waiting, made[k])]
    BY <1>4, <1>7, <1>8, NextLine
  <2>4. SubSeq(made, a + 1, k) = Append(waiting, made[k])
    <3> DEFINE part == SubSeq(made, a + 1, k)
               more == Append(waiting, made[k])
    <3> DEFINE lo == a + 1
    <3>1. lo \in 1..(Len(made) + 1) /\ k \in (lo - 1)..Len(made) /\ k - lo + 1 = b + 1
      BY <1>1, <1>3
    <3>2. \A i \in 1..(b + 1) : lo + i - 1 = a + i  BY <1>1
    <3>3. /\ part \in Seq(WikiLine) /\ Len(part) = b + 1
          /\ \A i \in 1..(b + 1) : part[i] = made[a + i]
      <4>0. part = SubSeq(made, lo, k)  OBVIOUS
      <4> HIDE DEF part, lo
      <4>1. /\ part \in Seq(WikiLine) /\ Len(part) = k - lo + 1
            /\ \A i \in 1..(k - lo + 1) : part[i] = made[lo + i - 1]
        BY <1>3, <3>1, <4>0, PartIsSeq
      <4> QED BY <3>1, <3>2, <4>1
    <3> DEFINE last == made[k]
    <3>4. last \in WikiLine /\ made[a + (b + 1)] = last
      <4>1. k \in 1..Len(made) /\ a + (b + 1) = k  BY <1>1, <1>3
      <4> QED BY <1>3, <4>1, ElementIn
    <3> HIDE DEF part, last
    <3>5. /\ more \in Seq(WikiLine) /\ Len(more) = b + 1 /\ more[b + 1] = last
          /\ \A i \in 1..b : more[i] = waiting[i]
      BY <1>6, <3>4, ElementsWithOneMore DEF last
    <3> HIDE DEF more
    <3>6. ASSUME NEW i \in 1..(b + 1)
          PROVE  part[i] = more[i]
      <4>1. i \in 1..b \/ i = b + 1  BY <1>1
      <4>2. CASE i \in 1..b  BY <1>6, <3>3, <3>5, <4>2
      <4>3. CASE i = b + 1  BY <3>3, <3>4, <3>5, <4>3
      <4> QED BY <4>1, <4>2, <4>3
    <3>7. part = more  BY <3>3, <3>5, <3>6, SameElements
    <3> QED BY <3>7 DEF part, more
  <2>5. [text |-> new.text, table |-> SubSeq(made, Len(new.text) + 1, k)] = FormatLine(state, made[k])
    BY <2>2, <2>3, <2>4, Zenon DEF a
  <2> QED BY <2>5, Zenon DEF MakesAgain, state, waiting, a
<1>9. CASE ~IsTableRow(line)
  <2> DEFINE rows == FormatTable(done.table)
             start == done.text \o rows
             all == Append(start, line)
  <2>1. rows \in Seq(WikiLine) /\ Len(rows) = b
    <3>1. rows \in Seq(WikiLine) /\ Len(rows) =< b
      BY <1>5, TablesAreFormatted DEF b
    <3> DEFINE table == done.table
    <3>2. CASE table = <<>>
      <4>1. b = 0  BY <3>2 DEF b
      <4> HIDE DEF rows
      <4> QED BY <3>1, <4>1
    <3>3. CASE table # <<>>
      <4>1. OneTable(done.table)
        <5>1. k - 1 \in 0..Len(page)  BY <1>1 DEF n
        <5> QED BY <1>2, <1>10, <3>3, <5>1, WaitingRows
      <4>2. Len(FormatTable(table)) = Len(table)
        BY <1>5, <3>3, <4>1, TableKeepsRows
      <4> QED BY <3>1, <4>2 DEF b
    <3> QED BY <3>2, <3>3
  <2>2. FormatTable(rows) = rows
    <3> DEFINE table == done.table
    <3>1. CASE table = <<>>
      <4>1. b = 0  BY <3>1 DEF b
      <4> HIDE DEF rows
      <4>2. rows = <<>>  BY <2>1, <4>1
      <4> QED BY <3>1, <4>2, Zenon DEF rows
    <3>2. CASE table # <<>>
      <4>1. OneTable(done.table)
        <5>1. k - 1 \in 0..Len(page)  BY <1>1 DEF n
        <5> QED BY <1>2, <1>10, <3>2, <5>1, WaitingRows
      <4> QED BY <1>5, <3>2, <4>1, TableFormattedTwice
    <3> QED BY <3>1, <3>2
  <2>3. line \in WikiLine  BY <1>1, <1>10, ElementIn DEF line, n
  <2>4. FormatLine(done, line) = [text |-> start \o <<line>>, table |-> <<>>]
    BY <1>1, <1>9, NextLine
  <2>5. FormatLine(state, made[k]) = [text |-> done.text \o FormatTable(waiting) \o <<made[k]>>, table |-> <<>>]
    BY <1>4, <1>7, <1>9, NextLine
  <2> HIDE DEF rows
  <2>6. /\ start \in Seq(WikiLine) /\ Len(start) = a + b
        /\ \A i \in 1..b : start[a + i] = rows[i]
    <3>1. /\ start \in Seq(WikiLine) /\ Len(start) = a + Len(rows)
          /\ \A i \in 1..Len(rows) : start[a + i] = rows[i]
      <4> DEFINE above == done.text
      <4>1. above \in Seq(WikiLine) /\ rows \in Seq(WikiLine) /\ start = above \o rows /\ a = Len(above)
        BY <1>5, <2>1 DEF a
      <4> HIDE DEF above, start
      <4> QED BY <4>1
    <3> HIDE DEF start
    <3> QED BY <2>1, <3>1
  <2>10. start = done.text \o rows  OBVIOUS
  <2> HIDE DEF start
  <2>7. /\ all \in Seq(WikiLine) /\ Len(all) = a + b + 1 /\ all[a + b + 1] = line
        /\ \A i \in 1..(a + b) : all[i] = start[i]
    <3>1. /\ all \in Seq(WikiLine) /\ Len(all) = Len(start) + 1 /\ all[Len(start) + 1] = line
          /\ \A i \in 1..Len(start) : all[i] = start[i]
      BY <2>3, <2>6, ElementsWithOneMore
    <3> HIDE DEF all
    <3> QED BY <2>6, <3>1
  <2>8. new.text = all
    <3>1. start \o <<line>> = all  BY <2>3, <2>6, AppendIsConcat
    <3> QED BY <1>2, <2>4, <3>1
  <2> HIDE DEF all
  <2>9. Len(all) = k /\ \A i \in 1..k : made[i] = all[i]
    <3>1. a + b + 1 = k  BY <1>1
    <3> QED BY <1>3, <2>7, <2>8, <3>1
  <2>11. ASSUME NEW i \in 1..b
         PROVE  waiting[i] = rows[i]
    <3>1. a + i \in 1..k /\ a + i \in 1..(a + b)  BY <1>1
    <3> QED BY <1>6, <2>6, <2>7, <2>9, <3>1
  <2>12. waiting = rows  BY <1>6, <2>1, <2>11, SameElements
  <2>13. made[k] = line
    <3>1. a + b + 1 = k /\ k \in 1..k  BY <1>1
    <3> QED BY <2>7, <2>9, <3>1
  <2>14. start \o <<made[k]>> = new.text
    BY <2>3, <2>6, <2>8, <2>13, AppendIsConcat DEF all
  <2>15. FormatLine(state, made[k]) = [text |-> new.text, table |-> <<>>]
    BY <2>2, <2>5, <2>10, <2>12, <2>14, Zenon
  <2>16. SubSeq(made, Len(new.text) + 1, k) = <<>>
    <3>1. Len(new.text) = k  BY <2>8, <2>9
    <3>2. k + 1 \in 1..(Len(made) + 1) /\ k \in ((k + 1) - 1)..Len(made) /\ k - (k + 1) + 1 = 0
      BY <1>1, <1>3
    <3> DEFINE part == SubSeq(made, k + 1, k)
    <3>3. part \in Seq(WikiLine) /\ Len(part) = k - (k + 1) + 1
      BY <1>3, <3>2, PartIsSeq, Zenon
    <3> HIDE DEF part
    <3>4. part = <<>>  BY <3>2, <3>3
    <3> QED BY <3>1, <3>4 DEF part
  <2>17. [text |-> new.text, table |-> SubSeq(made, Len(new.text) + 1, k)] = FormatLine(state, made[k])
    BY <2>15, <2>16, Zenon
  <2> QED BY <2>17, Zenon DEF MakesAgain, state, waiting, a
<1> QED BY <1>8, <1>9

\* A text whose tables are apart is formatted just once.
THEOREM TextsFormattedTwice ==
  ASSUME NEW page \in Seq(WikiLine), Apart(page)
  PROVE  Format(Format(page)) = Format(page)
<1> DEFINE lines == Append(page, Blank)
           m == Len(page)
           n == m + 1
           start == [text |-> <<>>, table |-> <<>>]
           done == FoldLeft(FormatLine, start, lines)
<1>1. m \in Nat /\ n \in Nat /\ n >= 1  OBVIOUS
<1>2. Blank \in WikiLine /\ ~IsTableRow(Blank) /\ ~IsRow(Blank)  BY BlankIsProse
<1>3. /\ lines \in Seq(WikiLine) /\ Len(lines) = n /\ DOMAIN lines = 1..n /\ lines[n] = Blank
      /\ \A i \in 1..m : lines[i] = page[i]
  BY <1>2
<1>4. Format(page) = Front(done.text)  BY DEF Format
<1>5. KeptLines(lines, 0, start)  BY NothingKept
<1>6. done = H!Fold(lines, start, lines)
  BY Zenon DEF H!Fold, FormatNext, FoldLeft, MapThenFoldSet, H!MapThenFoldSet,
               Max, H!Max
<1>7. \A made : FoldLeft(FormatLine, start, made) = H!Fold(made, start, made)
  BY Zenon DEF H!Fold, FormatNext, FoldLeft, MapThenFoldSet, H!MapThenFoldSet,
               Max, H!Max
<1>8. \A other : Format(other) = Front(FoldLeft(FormatLine, start, Append(other, Blank)).text)
  BY DEF Format
<1>9. start.text = <<>> /\ start = [text |-> <<>>, table |-> <<>>]  OBVIOUS
<1> HIDE DEF lines, start, done, n, m
<1>10. Apart(lines)  BY ApartWithBlank DEF lines
<1>11. H!Preserves(lines, lines, n)
  BY <1>3, <1>10, LinesAreKept DEF H!Preserves, FormatNext
<1>0. PICK f : H!IsChain(lines, start, lines, n, f)
  BY <1>1, <1>3, H!FoldIsChain, Zenon
<1>12. H!Follows(lines, start, lines, n, f) /\ done = f[n]
  BY <1>0, <1>6, Zenon DEF H!IsChain
<1>13. \A k \in 0..n : KeptLines(lines, k, f[k])
  BY <1>1, <1>5, <1>11, <1>12, H!ChainKeeps
<1>14. f[0] = start /\ \A k \in 1..n : f[k] = FormatLine(f[k - 1], lines[k])
  BY <1>12, Zenon DEF H!Follows, FormatNext
<1> DEFINE made == done.text
<1>15. /\ made \in Seq(WikiLine) /\ Len(made) = n
       /\ \A i \in 1..n : SameRow(made[i], lines[i])
  <2>1. KeptLines(lines, n, done)  BY <1>1, <1>12, <1>13
  <2>2. done.text \in Seq(WikiLine) /\ done.table = <<>>
    BY <1>1, <1>2, <1>3, <2>1 DEF KeptLines
  <2>3. Len(done.table) = 0 /\ Len(done.text) \in Nat  BY <2>2
  <2>4. Len(done.text) + Len(done.table) = n /\ \A i \in 1..Len(done.text) : SameRow(done.text[i], lines[i])
    BY <2>1 DEF KeptLines
  <2> QED BY <1>1, <2>2, <2>3, <2>4
<1>16. \A k \in 0..n : \A i \in 1..Len(f[k].text) : i \in 1..n /\ made[i] = f[k].text[i]
  <2>1. \A k \in 0..n : \A i \in 1..Len(f[k].text) :
          i \in 1..Len(f[n].text) /\ f[n].text[i] = f[k].text[i]
    BY <1>1, <1>3, <1>12, <1>13, MadeInPieces
  <2> QED BY <1>12, <1>15, <2>1
<1> HIDE DEF made
<1> DEFINE again == [k \in 0..n |-> Again(made, f, k)]
<1>17. ASSUME NEW k \in 1..n
       PROVE  again[k] = FormatLine(again[k - 1], made[k])
  <2> DEFINE before == f[k - 1]
             new == f[k]
  <2>1. k \in 1..Len(lines) /\ k - 1 \in 0..n /\ k \in 0..n  BY <1>1, <1>3
  <2>2. /\ KeptLines(lines, k - 1, before) /\ new = FormatLine(before, lines[k])
        /\ KeptLines(lines, k, new)
    BY <1>13, <1>14, <2>1
  <2>3. \A i \in 1..Len(new.text) : i \in 1..Len(made) /\ made[i] = new.text[i]
    BY <1>15, <1>16, <2>1
  <2>4. /\ again[k] = [text |-> new.text, table |-> SubSeq(made, Len(new.text) + 1, k)]
        /\ again[k - 1] = [text |-> before.text, table |-> SubSeq(made, Len(before.text) + 1, k - 1)]
    BY <2>1 DEF Again
  <2> HIDE DEF before, new, again
  <2>5. Len(made) = Len(lines) /\ \A i \in 1..Len(made) : SameRow(made[i], lines[i])
    BY <1>3, <1>15
  <2>6. [text |-> new.text, table |-> SubSeq(made, Len(new.text) + 1, k)] =
        FormatLine([text |-> before.text, table |-> SubSeq(made, Len(before.text) + 1, k - 1)], made[k])
    <3>1. Remade(lines, made, k, before, new)
      BY <1>3, <1>10, <1>15, <2>1, <2>2, <2>3, <2>5, Zenon DEF Remade
    <3>2. MakesAgain(made, k, before, new)  BY <3>1, LinesFormattedTwice, Zenon
    <3> QED BY <3>2, Zenon DEF MakesAgain
  <2> QED BY <2>4, <2>6, Zenon
<1>18. again[0] = start
  <2>1. again[0] = [text |-> <<>>, table |-> SubSeq(made, Len(<<>>) + 1, 0)]
    BY <1>1, <1>9, <1>14 DEF Again
  <2> DEFINE part == SubSeq(made, 1, 0)
  <2>2. Len(<<>>) + 1 = 1  OBVIOUS
  <2>3. part \in Seq(WikiLine) /\ Len(part) = 0  BY <1>15
  <2> HIDE DEF part
  <2>4. part = <<>>  BY <2>3
  <2> QED BY <1>9, <2>1, <2>2, <2>4, Zenon DEF part
<1>19. again[n].text = made
  <2>1. again[n] = Again(made, f, n) /\ f[n].text = made
    BY <1>1, <1>12 DEF made
  <2> QED BY <2>1 DEF Again
<1> HIDE DEF again
<1>20. H!Follows(made, start, made, n, again)
  BY <1>17, <1>18, Zenon DEF H!Follows, FormatNext
<1>21. H!Fold(made, start, made) = again[n]
  <2>1. DOMAIN made = 1..n  BY <1>15
  <2> QED BY <1>1, <1>20, <2>1, H!FoldIs, Zenon
<1>22. made = Append(Front(made), Blank)
  <2> DEFINE before == f[n - 1]
             all == before.text \o FormatTable(before.table)
  <2>1. n \in 1..n /\ n - 1 \in 0..n  BY <1>1
  <2>2. KeptLines(lines, n - 1, before) /\ made = FormatLine(before, Blank).text
    BY <1>3, <1>12, <1>13, <1>14, <2>1 DEF made
  <2>3. before \in [text : Seq(WikiLine), table : Seq(WikiLine)]
    BY <2>2 DEF KeptLines
  <2>4. FormatLine(before, Blank) = [text |-> all \o <<Blank>>, table |-> <<>>]
    BY <1>2, <2>3, NextLine
  <2>5. all \in Seq(WikiLine)
    <3>1. FormatTable(before.table) \in Seq(WikiLine)
      BY <2>3, TablesAreFormatted
    <3> QED BY <2>3, <3>1
  <2> HIDE DEF all
  <2>6. made = Append(all, Blank)
    <3>1. all \o <<Blank>> = Append(all, Blank)  BY <1>2, <2>5, AppendIsConcat
    <3> QED BY <2>2, <2>4, <3>1
  <2>7. Front(made) = all  BY <1>2, <2>5, <2>6, FrontOfAppend
  <2> QED BY <2>6, <2>7
<1>23. Format(Front(made)) = Front(made)
  BY <1>7, <1>8, <1>19, <1>21, <1>22, Zenon
<1> QED BY <1>4, <1>23, Zenon DEF made

-----------------------------------------------------------------------------
(* The columns that the last cells of the rows span *)

\* A text without blanks around it.
TidyText == {words \in CellText : Trim(words) = words}

RichCell == [text : TidyText, span : Nat]
RichRow == [hidden : BOOLEAN, cells : Seq(RichCell)]

\* The rows that have cells are equally wide.
Fills(rows) ==
  \A i \in DOMAIN rows :
    LET cells == rows[i].cells
    IN cells # <<>> => Total([c \in DOMAIN cells |-> cells[c].span]) = MaxCells(rows)

LEMMA LongestRow ==
  ASSUME NEW rows \in Seq(RichRow)
  PROVE  MaxCells(rows) \in Nat /\ \A i \in DOMAIN rows : Len(rows[i].cells) =< MaxCells(rows)
<1> DEFINE n == Len(rows)
           f == [i \in 1..n |-> Len(rows[i].cells)]
           lengths == {Len(rows[i].cells) : i \in DOMAIN rows}
<1>1. n \in Nat /\ DOMAIN rows = 1..n  OBVIOUS
<1>2. f \in [1..n -> Nat]  BY DEF RichRow
<1>3. lengths = {f[i] : i \in 1..n}  OBVIOUS
<1>4. 1..n \in SUBSET (1..n)  OBVIOUS
<1>5. MaxCells(rows) = Max({0} \cup lengths)  BY DEF MaxCells
<1> HIDE DEF lengths, f, n
<1>6. Max({0} \cup lengths) \in Nat /\ \A i \in 1..n : f[i] =< Max({0} \cup lengths)
  BY <1>1, <1>2, <1>3, <1>4, MaxOfImage
<1> QED BY <1>1, <1>5, <1>6 DEF f

\* A row with spans of one, and the rest of the columns for its last cell.
SpannedCells(cells, columns) ==
  [c \in DOMAIN cells |->
     IF c = Len(cells) THEN [cells[c] EXCEPT !.span = columns - c + 1]
     ELSE [cells[c] EXCEPT !.span = 1]]

LEMMA CellsAreSpanned ==
  ASSUME NEW cells \in Seq(RichCell), NEW columns \in Nat, Len(cells) =< columns
  PROVE  /\ SpannedCells(cells, columns) \in Seq(RichCell)
         /\ Len(SpannedCells(cells, columns)) = Len(cells)
         /\ \A c \in DOMAIN cells :
              /\ SpannedCells(cells, columns)[c].text = cells[c].text
              /\ SpannedCells(cells, columns)[c].span =
                   IF c = Len(cells) THEN columns - c + 1 ELSE 1
<1> DEFINE n == Len(cells)
           f == SpannedCells(cells, columns)
<1>1. n \in Nat /\ n =< columns /\ DOMAIN cells = 1..n  OBVIOUS
<1>2. ASSUME NEW c \in 1..n
      PROVE  /\ f[c] \in RichCell /\ f[c].text = cells[c].text
             /\ f[c].span = IF c = n THEN columns - c + 1 ELSE 1
  <2>1. cells[c] \in RichCell  BY <1>1
  <2>2. f[c] = [cells[c] EXCEPT !.span = IF c = n THEN columns - c + 1 ELSE 1]
    BY <1>1, <2>1 DEF SpannedCells, RichCell
  <2> HIDE DEF f, n
  <2>3. (IF c = n THEN columns - c + 1 ELSE 1) \in Nat  BY <1>1
  <2> QED BY <2>1, <2>2, <2>3 DEF RichCell
<1>3. f = [c \in 1..n |-> f[c]]  BY <1>1 DEF SpannedCells
<1> HIDE DEF f, n
<1>4. f \in [1..n -> RichCell]  BY <1>2, <1>3
<1> QED BY <1>1, <1>2, <1>4, FunctionIsSeq DEF f, n

LEMMA CellsFillTheRow ==
  ASSUME NEW cells \in Seq(RichCell), cells # <<>>, NEW columns \in Nat,
         \A c \in DOMAIN cells : cells[c].span = IF c = Len(cells) THEN columns - c + 1 ELSE 1,
         Len(cells) =< columns
  PROVE  Total([c \in DOMAIN cells |-> cells[c].span]) = columns
<1> DEFINE n == Len(cells)
           spans == [c \in DOMAIN cells |-> cells[c].span]
           f == [k \in 0..n |-> IF k < n THEN k ELSE columns]
<1>1. n \in Nat /\ n >= 1 /\ n =< columns /\ DOMAIN spans = 1..n  OBVIOUS
<1>2. \A c \in 1..n : spans[c] = IF c = n THEN columns - c + 1 ELSE 1  OBVIOUS
<1> HIDE DEF n, spans
<1>3. f \in [0..n -> Int] /\ f[0] = 0 /\ f[n] = columns  BY <1>1
<1>4. ASSUME NEW k \in 1..n
      PROVE  f[k] = f[k - 1] + spans[k]
  <2>1. k \in 0..n /\ k - 1 \in 0..n /\ k - 1 < n  BY <1>1
  <2>2. f[k - 1] = k - 1 /\ f[k] = IF k < n THEN k ELSE columns  BY <2>1
  <2> QED BY <1>1, <1>2, <2>1, <2>2
<1>5. Totals(spans, n, f)  BY <1>3, <1>4 DEF Totals
<1> HIDE DEF f
<1> QED BY <1>1, <1>3, <1>5, TotalIs DEF spans

\* Whatever spans the cells had.
LEMMA RowsAreSpanned ==
  ASSUME NEW rows \in Seq(RichRow)
  PROVE  SpanTableColumns(rows) \in Seq(RichRow) /\ Fills(SpanTableColumns(rows))
<1> DEFINE n == Len(rows)
           columns == MaxCells(rows)
           new == SpanTableColumns(rows)
<1>1. n \in Nat /\ DOMAIN rows = 1..n /\ \A i \in 1..n : rows[i] \in RichRow
  OBVIOUS
<1>2. columns \in Nat /\ \A i \in 1..n : Len(rows[i].cells) =< columns
  BY <1>1, LongestRow
<1>3. ASSUME NEW i \in 1..n
      PROVE  /\ new[i] \in RichRow /\ Len(new[i].cells) = Len(rows[i].cells)
             /\ new[i].cells = SpannedCells(rows[i].cells, columns)
  <2> DEFINE cells == rows[i].cells
  <2>1. rows[i] \in RichRow /\ cells \in Seq(RichCell) /\ Len(cells) =< columns
    BY <1>1, <1>2 DEF RichRow
  <2>2. new[i] = [rows[i] EXCEPT !.cells = SpannedCells(cells, columns)]
    BY <1>1, <2>1 DEF SpanTableColumns, SpannedCells, RichRow
  <2> HIDE DEF cells, columns, new
  <2>3. SpannedCells(cells, columns) \in Seq(RichCell) /\ Len(SpannedCells(cells, columns)) = Len(cells)
    BY <1>2, <2>1, CellsAreSpanned
  <2> QED BY <2>1, <2>2, <2>3 DEF RichRow, cells
<1>4. new = [i \in 1..n |-> new[i]]  BY <1>1 DEF SpanTableColumns
<1> HIDE DEF new, n
<1>5. new \in Seq(RichRow) /\ Len(new) = n /\ DOMAIN new = 1..n
  <2>1. new \in [1..n -> RichRow]  BY <1>3, <1>4
  <2> QED BY <1>1, <2>1, FunctionIsSeq
<1>6. MaxCells(new) = columns
  <2>1. {Len(new[i].cells) : i \in 1..n} = {Len(rows[i].cells) : i \in 1..n}
    BY <1>3
  <2> QED BY <1>1, <1>5, <2>1 DEF MaxCells
<1>7. ASSUME NEW i \in 1..n, new[i].cells # <<>>
      PROVE  Total([c \in DOMAIN new[i].cells |-> new[i].cells[c].span]) = columns
  <2> DEFINE cells == rows[i].cells
             cellsNow == new[i].cells
  <2>1. cells \in Seq(RichCell) /\ Len(cells) =< columns
    BY <1>1, <1>2 DEF RichRow
  <2>2. cellsNow = SpannedCells(cells, columns)  BY <1>3
  <2>3. cellsNow # <<>>  BY <1>7
  <2> HIDE DEF cells, cellsNow, columns
  <2>4. cellsNow \in Seq(RichCell) /\ Len(cellsNow) = Len(cells)
    BY <1>2, <2>1, <2>2, CellsAreSpanned
  <2>5. \A c \in DOMAIN cells : cellsNow[c].span = IF c = Len(cells) THEN columns - c + 1 ELSE 1
    BY <1>2, <2>1, <2>2, CellsAreSpanned
  <2>6. DOMAIN cellsNow = DOMAIN cells  BY <2>1, <2>4
  <2>7. Total([c \in DOMAIN cellsNow |-> cellsNow[c].span]) = columns
    BY <1>2, <2>1, <2>3, <2>4, <2>5, <2>6, CellsFillTheRow
  <2> QED BY <2>7 DEF cellsNow
<1> QED BY <1>5, <1>6, <1>7 DEF Fills, new

-----------------------------------------------------------------------------
(* The buttons of the rich text editor *)

LEMMA TrimmedIsTidy ==
  ASSUME NEW words \in CellText
  PROVE  Trim(words) \in TidyText
<1>1. Trim(words) \in CellText  BY Trimmed
<1>2. PICK d \in Nat : Moved(Trim(words), words, d)  BY TrimMoves
<1>3. Trim(Trim(words)) = Trim(words)  BY <1>1, <1>2, MovedTrims
<1> QED BY <1>1, <1>3 DEF TidyText

LEMMA NothingIsTidy == <<>> \in TidyText
<1>1. <<>> \in CellText  BY DEF CellText
<1> DEFINE solid == {k \in DOMAIN <<>> : <<>>[k] # " "}
<1>2. solid = {}
  <2>1. DOMAIN <<>> = {}  OBVIOUS
  <2> QED BY <2>1, Zenon
<1>3. Trim(<<>>) = IF solid = {} THEN <<>> ELSE SubSeq(<<>>, Min(solid), Max(solid))
  BY Zenon DEF Trim
<1> HIDE DEF solid
<1>4. Trim(<<>>) = <<>>  BY <1>2, <1>3
<1> QED BY <1>1, <1>4 DEF TidyText

LEMMA EmptyCell == Cell(<<>>) \in RichCell
BY NothingIsTidy DEF Cell, RichCell

LEMMA RowOfRows ==
  ASSUME NEW rows \in Seq(RichRow), NEW i \in DOMAIN rows
  PROVE  /\ rows[i] \in RichRow /\ rows[i].cells \in Seq(RichCell)
         /\ Len(rows[i].cells) \in Nat /\ DOMAIN rows[i].cells = 1..Len(rows[i].cells)
<1>1. rows[i] \in RichRow  OBVIOUS
<1>2. rows[i].cells \in Seq(RichCell)  BY <1>1 DEF RichRow
<1> QED BY <1>1, <1>2

LEMMA RowWithCells ==
  ASSUME NEW row \in RichRow, NEW cells \in Seq(RichCell)
  PROVE  [row EXCEPT !.cells = cells] \in RichRow
BY DEF RichRow

LEMMA CellSpliced ==
  ASSUME NEW cells \in Seq(RichCell), NEW k \in 1..(Len(cells) + 1)
  PROVE  Spliced(cells, k) \in Seq(RichCell)
BY EmptyCell, Inserted DEF Spliced

\* The rows with each of them changed.
LEMMA RowsChanged ==
  ASSUME NEW rows \in Seq(RichRow), NEW changed \in [1..Len(rows) -> RichRow]
  PROVE  SpanTableColumns(changed) \in Seq(RichRow) /\ Fills(SpanTableColumns(changed))
<1>1. Len(rows) \in Nat  OBVIOUS
<1>2. changed \in Seq(RichRow)  BY <1>1, FunctionIsSeq
<1> QED BY <1>2, RowsAreSpanned

\* Every button leaves the rows of the table equally wide.
Wide(rows) == rows \in Seq(RichRow) /\ Fills(rows)

LEMMA CellsAreInserted ==
  ASSUME NEW rows \in Seq(RichRow), NEW i \in DOMAIN rows,
         NEW c \in DOMAIN rows[i].cells, NEW after \in BOOLEAN
  PROVE  Wide(InsertTableCell(rows, i, c, after))
<1> DEFINE cells == rows[i].cells
           k == IF after THEN c + 1 ELSE c
           row == [rows[i] EXCEPT !.cells = Spliced(cells, k)]
<1>1. rows[i] \in RichRow /\ cells \in Seq(RichCell) /\ k \in 1..(Len(cells) + 1)
  BY RowOfRows
<1>2. Spliced(cells, k) \in Seq(RichCell)  BY <1>1, CellSpliced
<1>3. row \in RichRow  BY <1>1, <1>2, RowWithCells
<1>4. InsertTableCell(rows, i, c, after) = SpanTableColumns([rows EXCEPT ![i] = row])
  BY DEF InsertTableCell
<1> HIDE DEF row
<1>5. [rows EXCEPT ![i] = row] \in Seq(RichRow)  BY <1>3
<1> QED BY <1>4, <1>5, RowsAreSpanned DEF Wide

LEMMA RowsAreInserted ==
  ASSUME NEW rows \in Seq(RichRow), NEW i \in DOMAIN rows, NEW after \in BOOLEAN
  PROVE  Wide(InsertTableRow(rows, i, after))
<1> DEFINE cells == [c \in DOMAIN rows[i].cells |-> Cell(<<>>)]
           k == IF after THEN i + 1 ELSE i
           row == Row(FALSE, cells)
<1>1. rows[i] \in RichRow /\ k \in 1..(Len(rows) + 1)  OBVIOUS
<1>2. Len(rows[i].cells) \in Nat /\ DOMAIN rows[i].cells = 1..Len(rows[i].cells)
  BY <1>1 DEF RichRow
<1>3. cells \in [1..Len(rows[i].cells) -> RichCell]  BY <1>2, EmptyCell
<1>4. cells \in Seq(RichCell)  BY <1>2, <1>3, FunctionIsSeq
<1> HIDE DEF cells
<1>5. row \in RichRow  BY <1>4 DEF RichRow, Row
<1>6. InsertTableRow(rows, i, after) = SpanTableColumns(InsertAt(rows, k, row))
  BY DEF InsertTableRow, cells
<1> HIDE DEF row, k
<1>7. InsertAt(rows, k, row) \in Seq(RichRow)  BY <1>1, <1>5, Inserted
<1> QED BY <1>6, <1>7, RowsAreSpanned DEF Wide

LEMMA ColumnsAreInserted ==
  ASSUME NEW rows \in Seq(RichRow), NEW c \in Nat \ {0}, NEW after \in BOOLEAN
  PROVE  Wide(InsertTableColumn(rows, c, after))
<1> DEFINE k == IF after THEN c + 1 ELSE c
           new(j) ==
             IF j = 1 THEN rows[j]
             ELSE [rows[j] EXCEPT !.cells =
                     Spliced(rows[j].cells,
                             IF k =< Len(rows[j].cells) THEN k ELSE Len(rows[j].cells) + 1)]
           changed == [j \in 1..Len(rows) |-> new(j)]
<1>1. DOMAIN rows = 1..Len(rows) /\ k \in Nat \ {0}  OBVIOUS
<1>2. InsertTableColumn(rows, c, after) = SpanTableColumns(changed)
  BY <1>1 DEF InsertTableColumn
<1>3. ASSUME NEW j \in 1..Len(rows)
      PROVE  new(j) \in RichRow
  <2> DEFINE cells == rows[j].cells
             p == IF k =< Len(cells) THEN k ELSE Len(cells) + 1
  <2>1. rows[j] \in RichRow /\ cells \in Seq(RichCell)  BY <1>1, RowOfRows
  <2>2. p \in 1..(Len(cells) + 1)
    <3>1. Len(cells) \in Nat  BY <2>1
    <3> HIDE DEF k, cells
    <3> QED BY <1>1, <3>1
  <2> HIDE DEF p
  <2>3. Spliced(cells, p) \in Seq(RichCell)  BY <2>1, <2>2, CellSpliced
  <2>4. [rows[j] EXCEPT !.cells = Spliced(cells, p)] \in RichRow
    BY <2>1, <2>3, RowWithCells
  <2> QED BY <2>1, <2>4 DEF p
<1> HIDE DEF k, new
<1>4. changed \in [1..Len(rows) -> RichRow]  BY <1>3
<1> QED BY <1>2, <1>4, RowsChanged DEF Wide

LEMMA CellsAreDeleted ==
  ASSUME NEW rows \in Seq(RichRow), NEW i \in DOMAIN rows, NEW c \in DOMAIN rows[i].cells
  PROVE  Wide(DeleteTableCell(rows, i, c))
<1> DEFINE cells == rows[i].cells
           row == [rows[i] EXCEPT !.cells = RemoveAt(cells, c)]
<1>1. rows[i] \in RichRow /\ cells \in Seq(RichCell) /\ c \in 1..Len(cells)
  BY RowOfRows
<1>2. RemoveAt(cells, c) \in Seq(RichCell)  BY <1>1, Removed
<1>3. row \in RichRow  BY <1>1, <1>2, RowWithCells
<1>4. DeleteTableCell(rows, i, c) = SpanTableColumns([rows EXCEPT ![i] = row])
  BY DEF DeleteTableCell
<1> HIDE DEF row
<1>5. [rows EXCEPT ![i] = row] \in Seq(RichRow)  BY <1>3
<1> QED BY <1>4, <1>5, RowsAreSpanned DEF Wide

LEMMA RowsAreDeleted ==
  ASSUME NEW rows \in Seq(RichRow), NEW i \in DOMAIN rows
  PROVE  Wide(DeleteTableRow(rows, i))
<1>1. RemoveAt(rows, i) \in Seq(RichRow)  BY Removed
<1> QED BY <1>1, RowsAreSpanned DEF DeleteTableRow, Wide

LEMMA ColumnsAreDeleted ==
  ASSUME NEW rows \in Seq(RichRow), NEW c \in Nat \ {0}
  PROVE  Wide(DeleteTableColumn(rows, c))
<1> DEFINE new(j) ==
             IF j = 1 \/ c > Len(rows[j].cells) THEN rows[j]
             ELSE [rows[j] EXCEPT !.cells = RemoveAt(rows[j].cells, c)]
           changed == [j \in 1..Len(rows) |-> new(j)]
<1>1. DOMAIN rows = 1..Len(rows)  OBVIOUS
<1>2. DeleteTableColumn(rows, c) = SpanTableColumns(changed)
  BY <1>1 DEF DeleteTableColumn
<1>3. ASSUME NEW j \in 1..Len(rows)
      PROVE  new(j) \in RichRow
  <2> DEFINE cells == rows[j].cells
  <2>1. rows[j] \in RichRow /\ cells \in Seq(RichCell) /\ Len(cells) \in Nat
    BY <1>1, RowOfRows
  <2>2. CASE j = 1 \/ c > Len(cells)  BY <2>1, <2>2
  <2>3. CASE ~(j = 1 \/ c > Len(cells))
    <3>1. c \in 1..Len(cells)  BY <2>1, <2>3
    <3>2. RemoveAt(cells, c) \in Seq(RichCell)  BY <2>1, <3>1, Removed
    <3>3. [rows[j] EXCEPT !.cells = RemoveAt(cells, c)] \in RichRow
      BY <2>1, <3>2, RowWithCells
    <3> QED BY <2>3, <3>3
  <2> QED BY <2>2, <2>3
<1> HIDE DEF new
<1>4. changed \in [1..Len(rows) -> RichRow]  BY <1>3
<1> QED BY <1>2, <1>4, RowsChanged DEF Wide

-----------------------------------------------------------------------------
(* What the rich text editor reads and writes *)

\* A line that the editor takes for no row of a table.
ProseLine == {line \in WikiLine : ~IsRow(line) \/ IsBareBar(line)}

ParagraphBlock == [table : {FALSE}, lines : Seq(ProseLine)]
TableBlock == [table : {TRUE}, escaped : BOOLEAN, rows : Seq(RichRow)]
Block == ParagraphBlock \cup TableBlock

WideBlock(block) == block.table => Fills(block.rows)

LEMMA BlocksApart ==
  ASSUME NEW block \in Block
  PROVE  /\ block.table => block \in TableBlock
         /\ ~block.table => block \in ParagraphBlock
         /\ block.table \in BOOLEAN
BY DEF Block, ParagraphBlock, TableBlock

LEMMA LineParts ==
  ASSUME NEW line \in WikiLine
  PROVE  line.mark \in Marks \cup {Prose} /\ line.cells \in Seq(CellText) /\ line.suffix \in CellText
BY DEF WikiLine

LEMMA RowIsRead ==
  ASSUME NEW line \in WikiLine
  PROVE  RowOf(line) \in RichRow
<1> DEFINE columns == ColumnsOf(line)
           n == Len(columns)
<1>1. line.cells \in Seq(CellText) /\ line.suffix \in CellText  BY LineParts
<1>2. Append(line.cells, line.suffix) \in Seq(CellText)  BY <1>1
<1>3. columns \in Seq(CellText)  BY <1>1, <1>2 DEF ColumnsOf
<1>4. n \in Nat /\ DOMAIN columns = 1..n  BY <1>3
<1>5. CellsOf(line) = [c \in 1..n |-> Cell(Trim(columns[c]))]
  BY <1>4 DEF CellsOf
<1> HIDE DEF columns, n
<1>6. ASSUME NEW c \in 1..n
      PROVE  Cell(Trim(columns[c])) \in RichCell
  <2>1. columns[c] \in CellText  BY <1>3, <1>4
  <2>2. Trim(columns[c]) \in TidyText  BY <2>1, TrimmedIsTidy
  <2> QED BY <2>2 DEF Cell, RichCell
<1>7. CellsOf(line) \in [1..n -> RichCell]  BY <1>5, <1>6
<1>8. CellsOf(line) \in Seq(RichCell)  BY <1>4, <1>7, FunctionIsSeq
<1> QED BY <1>8 DEF RowOf, Row, RichRow

\* What is open is the last block.
Opened(given, k, doc_) ==
  /\ doc_ \in [blocks : Seq(Block), open : {"nothing", "table", "paragraph"}]
  /\ doc_.open = "table" => doc_.blocks # <<>> /\ Last(doc_.blocks).table
  /\ doc_.open = "paragraph" => doc_.blocks # <<>> /\ ~Last(doc_.blocks).table

AddNext(given, doc_, line) == AddLine(doc_, line)

D == INSTANCE Folding WITH Op <- AddNext, Inv <- Opened

LEMMA TablesAreOpened ==
  ASSUME NEW blocks \in Seq(Block), NEW line \in WikiLine
  PROVE  /\ NewTable(blocks, line) \in Seq(Block) /\ NewTable(blocks, line) # <<>>
         /\ Last(NewTable(blocks, line)).table
<1> DEFINE between == IF EndsWithTable(blocks) THEN <<Paragraph(<<>>)>> ELSE <<>>
           table == Table(line.mark \in {"!", "-!"}, <<RowOf(line)>>)
           before == blocks \o between
<1>1. Paragraph(<<>>) \in Block  BY DEF Paragraph, Block, ParagraphBlock
<1>2. between \in Seq(Block)
  <2>1. <<Paragraph(<<>>)>> \in Seq(Block) /\ <<>> \in Seq(Block)  BY <1>1
  <2> QED BY <2>1
<1>3. table \in Block /\ table.table
  <2>1. RowOf(line) \in RichRow  BY RowIsRead
  <2>2. <<RowOf(line)>> \in Seq(RichRow)  BY <2>1
  <2>3. table \in TableBlock /\ table.table  BY <2>2 DEF Table, TableBlock
  <2> HIDE DEF table
  <2> QED BY <2>3 DEF Block
<1>4. NewTable(blocks, line) = before \o <<table>>  BY DEF NewTable
<1> HIDE DEF between, table
<1>5. before \in Seq(Block)  BY <1>2
<1> HIDE DEF before
<1>6. before \o <<table>> = Append(before, table)  BY <1>3, <1>5
<1>7. /\ Append(before, table) \in Seq(Block) /\ Append(before, table) # <<>>
      /\ Last(Append(before, table)) = table
  BY <1>3, <1>5, LastOfAppend
<1> QED BY <1>3, <1>4, <1>6, <1>7

LEMMA RowsAreAdded ==
  ASSUME NEW blocks \in Seq(Block), blocks # <<>>, Last(blocks).table, NEW line \in WikiLine
  PROVE  /\ AddRow(blocks, line) \in Seq(Block) /\ AddRow(blocks, line) # <<>>
         /\ Last(AddRow(blocks, line)).table
<1> DEFINE table == Last(blocks)
           more == [table EXCEPT !.rows = Append(table.rows, RowOf(line))]
<1>1. Front(blocks) \in Seq(Block) /\ table \in Block  BY LastIsElement
<1>2. table \in TableBlock  BY <1>1, BlocksApart
<1> HIDE DEF table
<1>3. RowOf(line) \in RichRow /\ table.rows \in Seq(RichRow)
  BY <1>2, RowIsRead DEF TableBlock
<1>4. Append(table.rows, RowOf(line)) \in Seq(RichRow)  BY <1>3
<1>5. more \in TableBlock /\ more.table  BY <1>2, <1>4 DEF TableBlock
<1>6. AddRow(blocks, line) = IF IsBareBar(line) THEN blocks ELSE Append(Front(blocks), more)
  BY DEF AddRow, table
<1> HIDE DEF more
<1>7. more \in Block  BY <1>5 DEF Block
<1>8. /\ Append(Front(blocks), more) \in Seq(Block) /\ Append(Front(blocks), more) # <<>>
      /\ Last(Append(Front(blocks), more)) = more
  BY <1>1, <1>7, LastOfAppend
<1> QED BY <1>5, <1>6, <1>8

LEMMA LinesAreAdded ==
  ASSUME NEW k, NEW doc_, Opened(0, k, doc_), NEW line \in WikiLine
  PROVE  Opened(0, k, AddLine(doc_, line))
<1> DEFINE Documents == [blocks : Seq(Block), open : {"nothing", "table", "paragraph"}]
           blocks == doc_.blocks
           new == AddLine(doc_, line)
<1>1. doc_ \in Documents /\ blocks \in Seq(Block)  BY DEF Opened
<1>2. CASE line = Blank
  <2>1. new = [doc_ EXCEPT !.open = "nothing"]  BY <1>2 DEF AddLine
  <2>2. new \in Documents /\ new.open = "nothing"  BY <1>1, <2>1
  <2> HIDE DEF new
  <2>3. "nothing" # "table" /\ "nothing" # "paragraph"  OBVIOUS
  <2> QED BY <2>2, <2>3 DEF Opened, new
<1>3. CASE line # Blank /\ IsRow(line) /\ doc_.open = "table"
  <2>1. new = [doc_ EXCEPT !.blocks = AddRow(blocks, line)]  BY <1>3 DEF AddLine
  <2>2. /\ AddRow(blocks, line) \in Seq(Block) /\ AddRow(blocks, line) # <<>>
        /\ Last(AddRow(blocks, line)).table
    BY <1>1, <1>3, RowsAreAdded DEF Opened
  <2>3. new \in Documents /\ new.open = "table" /\ new.blocks = AddRow(blocks, line)
    BY <1>1, <1>3, <2>1, <2>2
  <2> HIDE DEF new, blocks
  <2>4. "table" # "paragraph"  OBVIOUS
  <2> QED BY <2>2, <2>3, <2>4 DEF Opened, new
<1>4. CASE /\ line # Blank /\ ~(IsRow(line) /\ doc_.open = "table")
           /\ IsRow(line) /\ ~IsBareBar(line)
  <2>1. new = [blocks |-> NewTable(blocks, line), open |-> "table"]
    BY <1>4 DEF AddLine
  <2>2. /\ NewTable(blocks, line) \in Seq(Block) /\ NewTable(blocks, line) # <<>>
        /\ Last(NewTable(blocks, line)).table
    BY <1>1, TablesAreOpened
  <2>3. new \in Documents /\ new.open = "table" /\ new.blocks = NewTable(blocks, line)
    BY <2>1, <2>2
  <2> HIDE DEF new, blocks
  <2>4. "table" # "paragraph"  OBVIOUS
  <2> QED BY <2>2, <2>3, <2>4 DEF Opened, new
<1>5. CASE /\ line # Blank /\ ~(IsRow(line) /\ doc_.open = "table")
           /\ ~(IsRow(line) /\ ~IsBareBar(line)) /\ doc_.open = "paragraph"
  <2> DEFINE more == Paragraph(Append(Last(blocks).lines, line))
  <2>1. new = [doc_ EXCEPT !.blocks = Append(Front(blocks), more)]
    BY <1>5 DEF AddLine
  <2>2. blocks # <<>> /\ ~Last(blocks).table  BY <1>5 DEF Opened
  <2>3. Front(blocks) \in Seq(Block) /\ Last(blocks) \in Block
    BY <1>1, <2>2, LastIsElement
  <2>4. Last(blocks) \in ParagraphBlock  BY <2>2, <2>3, BlocksApart
  <2>5. Last(blocks).lines \in Seq(ProseLine)  BY <2>4 DEF ParagraphBlock
  <2>6. Append(Last(blocks).lines, line) \in Seq(ProseLine)
    BY <1>5, <2>5 DEF ProseLine
  <2>7. more \in Block /\ ~more.table
    BY <2>6 DEF Paragraph, Block, ParagraphBlock
  <2> HIDE DEF more
  <2>8. /\ Append(Front(blocks), more) \in Seq(Block) /\ Append(Front(blocks), more) # <<>>
        /\ Last(Append(Front(blocks), more)) = more
    BY <2>3, <2>7, LastOfAppend
  <2>9. new \in Documents /\ new.open = "paragraph" /\ new.blocks = Append(Front(blocks), more)
    BY <1>1, <1>5, <2>1, <2>8
  <2> HIDE DEF new, blocks
  <2>10. "paragraph" # "table"  OBVIOUS
  <2> QED BY <2>7, <2>8, <2>9, <2>10 DEF Opened, new
<1>6. CASE /\ line # Blank /\ ~(IsRow(line) /\ doc_.open = "table")
           /\ ~(IsRow(line) /\ ~IsBareBar(line)) /\ doc_.open # "paragraph"
  <2> DEFINE one == Paragraph(<<line>>)
  <2>1. new = [blocks |-> Append(blocks, one), open |-> "paragraph"]
    BY <1>6 DEF AddLine
  <2>2. <<line>> \in Seq(ProseLine)  BY <1>6 DEF ProseLine
  <2>3. one \in Block /\ ~one.table
    BY <2>2 DEF Paragraph, Block, ParagraphBlock
  <2> HIDE DEF one
  <2>4. /\ Append(blocks, one) \in Seq(Block) /\ Append(blocks, one) # <<>>
        /\ Last(Append(blocks, one)) = one
    BY <1>1, <2>3, LastOfAppend
  <2>5. new \in Documents /\ new.open = "paragraph" /\ new.blocks = Append(blocks, one)
    BY <2>1, <2>4
  <2> HIDE DEF new, blocks
  <2>6. "paragraph" # "table"  OBVIOUS
  <2> QED BY <2>3, <2>4, <2>5, <2>6 DEF Opened, new
<1> HIDE DEF new
<1> QED BY <1>2, <1>3, <1>4, <1>5, <1>6 DEF new

\* The tables that are read are equally wide.
LEMMA TextsAreRead ==
  ASSUME NEW wiki \in Seq(WikiLine)
  PROVE  /\ WikitextToFragment(wiki) \in Seq(Block)
         /\ \A k \in DOMAIN WikitextToFragment(wiki) : WideBlock(WikitextToFragment(wiki)[k])
<1> DEFINE start == [blocks |-> <<>>, open |-> "nothing"]
           done == FoldLeft(AddLine, start, wiki)
           n == Len(done.blocks)
           new == SpannedAll(done.blocks)
<1>1. done = D!Fold(0, start, wiki)
  BY Zenon DEF D!Fold, AddNext, FoldLeft, MapThenFoldSet, D!MapThenFoldSet,
               Max, D!Max
<1>2. Opened(0, 0, start)
  <2>1. start \in [blocks : Seq(Block), open : {"nothing", "table", "paragraph"}] /\ start.open = "nothing"
    OBVIOUS
  <2>2. "nothing" # "table" /\ "nothing" # "paragraph"  OBVIOUS
  <2> HIDE DEF start
  <2> QED BY <2>1, <2>2 DEF Opened
<1>3. D!Preserves(0, wiki, Len(wiki))
  <2> SUFFICES ASSUME NEW k \in 1..Len(wiki), NEW value, Opened(0, k - 1, value)
               PROVE  Opened(0, k, AddLine(value, wiki[k]))
    BY DEF D!Preserves, AddNext
  <2>1. wiki[k] \in WikiLine /\ Opened(0, k, value)  BY DEF Opened
  <2> QED BY <2>1, LinesAreAdded
<1>4. Len(wiki) \in Nat /\ DOMAIN wiki = 1..Len(wiki)  OBVIOUS
<1> HIDE DEF done, start
<1>5. Opened(0, Len(wiki), done)  BY <1>1, <1>2, <1>3, <1>4, D!FoldKeeps
<1>6. done.blocks \in Seq(Block)  BY <1>5 DEF Opened
<1>7. n \in Nat /\ DOMAIN done.blocks = 1..n  BY <1>6
<1>8. ASSUME NEW k \in 1..n
      PROVE  Spanned(done.blocks[k]) \in Block /\ WideBlock(Spanned(done.blocks[k]))
  <2> DEFINE block == done.blocks[k]
  <2>1. block \in Block  BY <1>6, <1>7
  <2> HIDE DEF block
  <2>2. CASE block.table
    <3> DEFINE rows == SpanTableColumns(block.rows)
    <3>1. block \in TableBlock /\ block.rows \in Seq(RichRow)
      BY <2>1, <2>2, BlocksApart DEF TableBlock
    <3>2. rows \in Seq(RichRow) /\ Fills(rows)  BY <3>1, RowsAreSpanned
    <3>3. Spanned(block) = [block EXCEPT !.rows = rows]  BY <2>2 DEF Spanned
    <3> HIDE DEF rows
    <3>4. Spanned(block) \in TableBlock /\ Spanned(block).rows = rows
      BY <3>1, <3>2, <3>3 DEF TableBlock
    <3> QED BY <3>2, <3>4 DEF Block, WideBlock, block
  <2>3. CASE ~block.table  BY <2>1, <2>3 DEF Spanned, WideBlock, block
  <2> QED BY <2>1, <2>2, <2>3, BlocksApart
<1>9. new = [k \in 1..n |-> Spanned(done.blocks[k])]  BY <1>7 DEF SpannedAll
<1>10. WikitextToFragment(wiki) = new  BY DEF WikitextToFragment, done, start
<1> HIDE DEF n
<1>11. new \in [1..n -> Block] /\ \A k \in 1..n : WideBlock(new[k])
  BY <1>8, <1>9
<1> HIDE DEF new
<1>12. new \in Seq(Block) /\ DOMAIN new = 1..n  BY <1>7, <1>11, FunctionIsSeq
<1> QED BY <1>10, <1>11, <1>12

LEMMA ProseIsLine ==
  ASSUME NEW words \in CellText
  PROVE  Line(words) \in WikiLine
<1>1. Line(words) = [mark |-> "prose", cells |-> <<>>, suffix |-> words]
  BY DEF Line, TableRow, Prose
<1>2. <<>> \in Seq(CellText)  OBVIOUS
<1> QED BY <1>1, <1>2 DEF WikiLine, Prose

LEMMA OneBlank == <<" ">> \in Seq(Characters)
<1> DEFINE blank == " "
<1>1. blank \in Characters  BY DEF Characters
<1> HIDE DEF blank
<1>2. <<blank>> \in Seq(Characters)  BY <1>1
<1> QED BY <1>2 DEF blank

LEMMA RowIsWritten ==
  ASSUME NEW block \in TableBlock, NEW i \in DOMAIN block.rows
  PROVE  LineOf(block, i) \in WikiLine
<1> DEFINE cells == block.rows[i].cells
           n == Len(cells)
           written(c) ==
             LET words == cells[c].text
             IN IF words = <<>> THEN <<" ">> ELSE <<" ">> \o words \o <<" ">>
           all == [c \in 1..n |-> written(c)]
           mark == IF i = 1 THEN MarkOf(block) ELSE ""
<1>1. block.rows \in Seq(RichRow) /\ block.escaped \in BOOLEAN
  BY DEF TableBlock
<1>2. cells \in Seq(RichCell) /\ n \in Nat /\ DOMAIN cells = 1..n
  BY <1>1, RowOfRows
<1>3. LineOf(block, i) = TableRow(mark, all, <<>>)  BY <1>2 DEF LineOf
<1>4. mark \in Marks
  <2>1. {"", "!", "-", "-!"} = Marks  BY DEF Marks
  <2>2. MarkOf(block) \in {"", "!", "-", "-!"}
    <3> DEFINE hidden == block.rows # <<>> /\ block.rows[1].hidden
    <3>1. MarkOf(block) = CASE hidden /\ block.escaped -> "-!"
                            [] hidden /\ ~block.escaped -> "-"
                            [] ~hidden /\ block.escaped -> "!"
                            [] OTHER -> ""
      BY DEF MarkOf
    <3> HIDE DEF hidden
    <3> QED BY <3>1
  <2> QED BY <2>1, <2>2
<1> HIDE DEF cells, n, mark
<1>5. ASSUME NEW c \in 1..n
      PROVE  written(c) \in CellText
  <2> DEFINE words == cells[c].text
             one == <<" ">>
  <2>1. words \in Seq(Characters)
    <3>1. cells[c] \in RichCell  BY <1>2
    <3> QED BY <3>1 DEF RichCell, TidyText, CellText
  <2>2. one \in Seq(Characters)  BY OneBlank
  <2>3. written(c) = IF words = <<>> THEN one ELSE one \o words \o one  OBVIOUS
  <2> HIDE DEF words, one, written
  <2>4. one \o words \o one \in Seq(Characters)  BY <2>1, <2>2
  <2> QED BY <2>2, <2>3, <2>4 DEF CellText
<1> HIDE DEF written
<1>6. all \in [1..n -> CellText]  BY <1>5
<1> HIDE DEF all
<1>7. all \in Seq(CellText) /\ <<>> \in CellText
  BY <1>2, <1>6, FunctionIsSeq DEF CellText
<1> QED BY <1>3, <1>4, <1>7, RowIsLine

LEMMA BlocksAreWritten ==
  ASSUME NEW block \in Block
  PROVE  LinesOf(block) \in Seq(WikiLine)
<1>1. CASE ~block.table
  <2>1. block.lines \in Seq(WikiLine)
    <3>1. block.lines \in Seq(ProseLine)
      BY <1>1, BlocksApart DEF ParagraphBlock
    <3>2. \A i \in 1..Len(block.lines) : block.lines[i] \in WikiLine
      BY <3>1 DEF ProseLine
    <3> QED BY <3>1, <3>2
  <2>2. Append(block.lines, Blank) \in Seq(WikiLine) /\ <<>> \in Seq(WikiLine)
    BY <2>1, BlankIsProse
  <2> QED BY <1>1, <2>2 DEF LinesOf
<1>2. CASE block.table /\ block.rows = <<>>
  <2> DEFINE line == IF block.escaped THEN Line(<<"!">>) ELSE Blank
  <2>1. <<"!">> \in CellText
    <3>1. "!" \in Characters  BY DEF Characters
    <3> QED BY <3>1 DEF CellText
  <2>2. line \in WikiLine  BY <2>1, BlankIsProse, ProseIsLine
  <2>3. LinesOf(block) = <<line>>  BY <1>2 DEF LinesOf
  <2> HIDE DEF line
  <2> QED BY <2>2, <2>3
<1>3. CASE block.table /\ block.rows # <<>>
  <2> DEFINE n == Len(block.rows)
             lines == [i \in 1..n |-> LineOf(block, i)]
  <2>1. block \in TableBlock /\ block.rows \in Seq(RichRow)
    BY <1>3, BlocksApart DEF TableBlock
  <2>2. n \in Nat /\ DOMAIN block.rows = 1..n  BY <2>1
  <2>3. LinesOf(block) = Append(lines, Blank)  BY <1>3, <2>2 DEF LinesOf
  <2> HIDE DEF n
  <2>4. lines \in [1..n -> WikiLine]  BY <2>1, <2>2, RowIsWritten
  <2> HIDE DEF lines
  <2>5. lines \in Seq(WikiLine)  BY <2>2, <2>4, FunctionIsSeq
  <2> QED BY <2>3, <2>5, BlankIsProse
<1> QED BY <1>1, <1>2, <1>3

JoinNext(given, lines, more) == lines \o more
IsText(given, k, lines) == lines \in Seq(WikiLine)

J == INSTANCE Folding WITH Op <- JoinNext, Inv <- IsText

LEMMA TextsAreStripped ==
  ASSUME NEW wiki \in Seq(WikiLine)
  PROVE  Stripped(wiki) \in Seq(WikiLine)
<1> DEFINE solid == {i \in DOMAIN wiki : wiki[i] # Blank}
<1>1. CASE solid = {}
  <2>1. <<Blank>> \in Seq(WikiLine)  BY BlankIsProse
  <2> QED BY <1>1, <2>1 DEF Stripped
<1>2. CASE solid # {}
  <2> DEFINE part == SubSeq(wiki, Min(solid), Max(solid))
  <2>1. Len(wiki) \in Nat /\ solid \in SUBSET (1..Len(wiki))  OBVIOUS
  <2>2. Stripped(wiki) = Append(part, Blank)  BY <1>2 DEF Stripped
  <2> HIDE DEF solid
  <2>3. solid \in SUBSET Nat /\ solid \in SUBSET (0..Len(wiki))  BY <2>1
  <2>4. Min(solid) \in solid /\ Max(solid) \in solid /\ \A y \in solid : Min(solid) =< y
    BY <1>2, <2>1, <2>3, MaxOf, MinOf
  <2>5. /\ Min(solid) \in 1..Len(wiki) /\ Max(solid) \in 1..Len(wiki)
        /\ Min(solid) =< Max(solid)
    BY <2>1, <2>4
  <2>6. Min(solid) \in 1..(Len(wiki) + 1) /\ Max(solid) \in (Min(solid) - 1)..Len(wiki)
    BY <2>1, <2>5
  <2>7. part \in Seq(WikiLine)  BY <2>6, PartIsSeq
  <2> HIDE DEF part
  <2> QED BY <2>2, <2>7, BlankIsProse
<1> QED BY <1>1, <1>2

LEMMA DocumentsAreWritten ==
  ASSUME NEW blocks \in Seq(Block)
  PROVE  DomToWikitext(blocks) \in Seq(WikiLine)
<1> DEFINE n == Len(blocks)
           parts == [k \in 1..n |-> LinesOf(blocks[k])]
           lines == FoldLeft(\o, <<>>, parts)
<1>1. n \in Nat /\ DOMAIN blocks = 1..n /\ DOMAIN parts = 1..n  OBVIOUS
<1>2. DomToWikitext(blocks) = Stripped(lines)  BY <1>1 DEF DomToWikitext
<1>3. \A k \in 1..n : parts[k] \in Seq(WikiLine)  BY BlocksAreWritten
<1> HIDE DEF parts, n
<1>4. lines = J!Fold(0, <<>>, parts)
  BY Zenon DEF J!Fold, JoinNext, FoldLeft, MapThenFoldSet, J!MapThenFoldSet,
               Max, J!Max
<1> HIDE DEF lines
<1>5. IsText(0, 0, <<>>)  BY DEF IsText
<1>6. J!Preserves(0, parts, n)
  <2> SUFFICES ASSUME NEW k \in 1..n, NEW value, value \in Seq(WikiLine)
               PROVE  value \o parts[k] \in Seq(WikiLine)
    BY DEF J!Preserves, JoinNext, IsText
  <2>1. parts[k] \in Seq(WikiLine)  BY <1>3
  <2> QED BY <2>1
<1>7. IsText(0, n, lines)  BY <1>1, <1>4, <1>5, <1>6, J!FoldKeeps
<1> QED BY <1>2, <1>7, TextsAreStripped DEF IsText

-----------------------------------------------------------------------------
(* The cells that are not empty *)

FillNext(given, some, cell) == AddFilled(some, cell)
IsCells(given, k, some) == some \in Seq(CellText)

K == INSTANCE Folding WITH Op <- FillNext, Inv <- IsCells

LEMMA FilledIsFold ==
  ASSUME NEW cells
  PROVE  Filled(cells) = K!Fold(0, <<>>, cells)
BY Zenon DEF Filled, K!Fold, FillNext, FoldLeft, MapThenFoldSet,
             K!MapThenFoldSet, Max, K!Max

\* f[k] is what the first k cells hold.
FilledTo(cells, n, f) ==
  /\ f \in [0..n -> Seq(CellText)] /\ f[0] = <<>>
  /\ \A k \in 1..n : f[k] = AddFilled(f[k - 1], cells[k])

LEMMA FilledIs ==
  ASSUME NEW cells \in Seq(CellText), NEW f, FilledTo(cells, Len(cells), f)
  PROVE  Filled(cells) = f[Len(cells)]
<1>1. Len(cells) \in Nat /\ DOMAIN cells = 1..Len(cells)  OBVIOUS
<1>2. K!Follows(0, <<>>, cells, Len(cells), f)
  BY DEF K!Follows, FillNext, FilledTo
<1>3. K!Fold(0, <<>>, cells) = f[Len(cells)]  BY <1>1, <1>2, K!FoldIs
<1> QED BY <1>3, FilledIsFold, Zenon

LEMMA FilledExists ==
  ASSUME NEW cells \in Seq(CellText)
  PROVE  \E f : FilledTo(cells, Len(cells), f)
<1> DEFINE n == Len(cells)
<1>1. n \in Nat /\ DOMAIN cells = 1..n /\ \A k \in 1..n : cells[k] \in CellText
  OBVIOUS
<1> HIDE DEF n
<1>2. PICK f : K!IsChain(0, <<>>, cells, n, f)  BY <1>1, K!FoldIsChain
<1>3. K!Follows(0, <<>>, cells, n, f)  BY <1>2 DEF K!IsChain
<1>4. IsCells(0, 0, <<>>)  BY DEF IsCells
<1>5. K!Preserves(0, cells, n)
  <2> SUFFICES ASSUME NEW k \in 1..n, NEW some, some \in Seq(CellText)
               PROVE  AddFilled(some, cells[k]) \in Seq(CellText)
    BY DEF K!Preserves, FillNext, IsCells
  <2>1. cells[k] \in CellText  BY <1>1
  <2>2. Append(some, cells[k]) \in Seq(CellText)  BY <2>1
  <2> QED BY <2>2 DEF AddFilled
<1>6. \A k \in 0..n : f[k] \in Seq(CellText)
  BY <1>1, <1>3, <1>4, <1>5, K!ChainKeeps DEF IsCells
<1>7. f[0] = <<>> /\ \A k \in 1..n : f[k] = AddFilled(f[k - 1], cells[k])
  BY <1>3 DEF K!Follows, FillNext
<1> DEFINE g == [k \in 0..n |-> f[k]]
<1>8. g \in [0..n -> Seq(CellText)] /\ g[0] = <<>>  BY <1>1, <1>6, <1>7
<1>9. \A k \in 1..n : g[k] = f[k] /\ g[k - 1] = f[k - 1]  BY <1>1
<1> HIDE DEF g
<1>10. FilledTo(cells, n, g)  BY <1>7, <1>8, <1>9 DEF FilledTo
<1> QED BY <1>10, Zenon DEF n

LEMMA FilledAfter ==
  ASSUME NEW a \in Seq(CellText), NEW b \in Seq(CellText), NEW cell \in CellText
  PROVE  a \o AddFilled(b, cell) = AddFilled(a \o b, cell)
<1>1. a \o Append(b, cell) = Append(a \o b, cell)  OBVIOUS
<1> QED BY <1>1 DEF AddFilled

LEMMA FilledOfBoth ==
  ASSUME NEW s \in Seq(CellText), NEW t \in Seq(CellText)
  PROVE  Filled(s \o t) = Filled(s) \o Filled(t)
<1> DEFINE m == Len(s)
           n == Len(t)
           both == s \o t
<1>1. m \in Nat /\ n \in Nat /\ both \in Seq(CellText) /\ Len(both) = m + n
  OBVIOUS
<1>2. /\ \A k \in 1..m : both[k] = s[k]
      /\ \A k \in 1..n : both[m + k] = t[k] /\ t[k] \in CellText
  OBVIOUS
<1>3. PICK g : FilledTo(s, m, g)  BY FilledExists
<1>4. PICK h : FilledTo(t, n, h)  BY FilledExists
<1>5. /\ g \in [0..m -> Seq(CellText)] /\ g[0] = <<>>
      /\ \A k \in 1..m : g[k] = AddFilled(g[k - 1], s[k])
  BY <1>3 DEF FilledTo
<1>6. /\ h \in [0..n -> Seq(CellText)] /\ h[0] = <<>>
      /\ \A k \in 1..n : h[k] = AddFilled(h[k - 1], t[k])
  BY <1>4 DEF FilledTo
<1>7. Filled(s) = g[m] /\ Filled(t) = h[n]  BY <1>3, <1>4, FilledIs
<1> HIDE DEF m, n, both
<1> DEFINE f == [k \in 0..(m + n) |-> IF k =< m THEN g[k] ELSE g[m] \o h[k - m]]
<1>8. g[m] \in Seq(CellText) /\ g[m] \o h[0] = g[m]
  <2>1. m \in 0..m /\ g[m] \in Seq(CellText)  BY <1>1, <1>5
  <2> QED BY <1>6, <2>1
<1>9. f \in [0..(m + n) -> Seq(CellText)] /\ f[0] = <<>>
  <2>1. ASSUME NEW k \in 0..(m + n)
        PROVE  (IF k =< m THEN g[k] ELSE g[m] \o h[k - m]) \in Seq(CellText)
    <3>1. CASE k =< m
      <4>1. k \in 0..m  BY <1>1, <3>1
      <4> QED BY <1>5, <3>1, <4>1
    <3>2. CASE k > m
      <4>1. k - m \in 0..n  BY <1>1, <3>2
      <4>2. h[k - m] \in Seq(CellText)  BY <1>6, <4>1
      <4> QED BY <1>1, <1>8, <3>2, <4>2
    <3> QED BY <1>1, <3>1, <3>2
  <2>2. 0 \in 0..(m + n) /\ 0 =< m  BY <1>1
  <2> QED BY <1>5, <2>1, <2>2
<1>10. ASSUME NEW k \in 1..(m + n)
       PROVE  f[k] = AddFilled(f[k - 1], both[k])
  <2>1. k \in 0..(m + n) /\ k - 1 \in 0..(m + n)  BY <1>1
  <2>2. /\ f[k] = IF k =< m THEN g[k] ELSE g[m] \o h[k - m]
        /\ f[k - 1] = IF k - 1 =< m THEN g[k - 1] ELSE g[m] \o h[(k - 1) - m]
    BY <2>1
  <2> HIDE DEF f
  <2>3. CASE k =< m
    <3>1. k \in 1..m /\ k - 1 =< m  BY <1>1, <2>3
    <3> QED BY <1>2, <1>5, <2>2, <2>3, <3>1
  <2>4. CASE k > m
    <3> DEFINE j == k - m
    <3>1. j \in 1..n /\ m + j = k /\ (k - 1) - m = j - 1 /\ ~(k =< m) /\ j - 1 \in 0..n
      BY <1>1, <2>4
    <3>2. f[k] = g[m] \o h[j]  BY <2>2, <3>1
    <3>3. f[k - 1] = g[m] \o h[j - 1]
      <4>1. CASE j = 1
        <5>1. k - 1 = m /\ k - 1 =< m /\ j - 1 = 0  BY <1>1, <3>1, <4>1
        <5>2. f[k - 1] = g[m]  BY <2>2, <5>1
        <5> QED BY <1>8, <5>1, <5>2
      <4>2. CASE j # 1
        <5>1. ~(k - 1 =< m)  BY <1>1, <3>1, <4>2
        <5> QED BY <2>2, <3>1, <5>1
      <4> QED BY <4>1, <4>2
    <3> HIDE DEF j
    <3>4. both[k] = t[j] /\ t[j] \in CellText /\ h[j] = AddFilled(h[j - 1], t[j])
      BY <1>2, <1>6, <3>1
    <3>5. h[j - 1] \in Seq(CellText)  BY <1>6, <3>1
    <3>6. g[m] \o AddFilled(h[j - 1], t[j]) = AddFilled(g[m] \o h[j - 1], t[j])
      BY <1>8, <3>4, <3>5, FilledAfter
    <3> QED BY <3>2, <3>3, <3>4, <3>6
  <2> QED BY <1>1, <2>3, <2>4
<1>11. FilledTo(both, m + n, f)  BY <1>9, <1>10 DEF FilledTo
<1>12. f[m + n] = g[m] \o h[n]
  <2>1. m + n \in 0..(m + n)  BY <1>1
  <2>2. f[m + n] = IF m + n =< m THEN g[m + n] ELSE g[m] \o h[(m + n) - m]
    BY <2>1
  <2> HIDE DEF f
  <2>3. CASE n = 0
    <3>1. m + n = m /\ m =< m  BY <1>1, <2>3
    <3>2. f[m + n] = g[m]  BY <2>2, <3>1
    <3> QED BY <1>8, <2>3, <3>2
  <2>4. CASE n # 0
    <3>1. ~(m + n =< m) /\ (m + n) - m = n  BY <1>1, <2>4
    <3> QED BY <2>2, <3>1
  <2> QED BY <2>3, <2>4
<1> HIDE DEF f
<1>13. Filled(both) = f[m + n]  BY <1>1, <1>11, FilledIs
<1> QED BY <1>7, <1>12, <1>13 DEF both

LEMMA NothingFilled ==
  ASSUME NEW cells \in Seq(CellText), \A k \in 1..Len(cells) : cells[k] = <<>>
  PROVE  Filled(cells) = <<>>
<1> DEFINE f == [k \in 0..Len(cells) |-> <<>>]
<1>1. Len(cells) \in Nat  OBVIOUS
<1>2. f \in [0..Len(cells) -> Seq(CellText)] /\ f[0] = <<>> /\ f[Len(cells)] = <<>>
  BY <1>1
<1>3. ASSUME NEW k \in 1..Len(cells)
      PROVE  f[k] = AddFilled(f[k - 1], cells[k])
  <2>1. f[k] = <<>> /\ f[k - 1] = <<>> /\ cells[k] = <<>>  BY <1>1
  <2> QED BY <2>1 DEF AddFilled
<1>4. FilledTo(cells, Len(cells), f)  BY <1>2, <1>3 DEF FilledTo
<1> HIDE DEF f
<1> QED BY <1>2, <1>4, FilledIs

-----------------------------------------------------------------------------
(* From the spreadsheet and back *)

SheetRow == Seq(CellText) \ {<<>>}

LEMMA LineSizeIs ==
  ASSUME NEW row \in Seq(CellText)
  PROVE  /\ LineSize(row) \in 0..Len(row)
         /\ \A k \in 1..Len(row) : k > LineSize(row) => row[k] = <<>>
         /\ LineSize(row) # 0 => row[LineSize(row)] # <<>>
<1> DEFINE s == {0} \cup {k \in DOMAIN row : row[k] # <<>>}
<1>1. Len(row) \in Nat /\ DOMAIN row = 1..Len(row)  OBVIOUS
<1>2. s \in SUBSET (0..Len(row)) /\ s # {}  BY <1>1
<1>3. LineSize(row) = Max(s)  BY DEF LineSize
<1>4. \A k \in s : k = 0 \/ row[k] # <<>>  OBVIOUS
<1>5. \A k \in 1..Len(row) : row[k] # <<>> => k \in s  BY <1>1
<1> HIDE DEF s
<1>6. Max(s) \in s /\ \A y \in s : y =< Max(s)  BY <1>1, <1>2, MaxOf
<1>7. Max(s) \in 0..Len(row)  BY <1>2, <1>6
<1>8. ASSUME NEW k \in 1..Len(row), k > Max(s), row[k] # <<>>
      PROVE  FALSE
  <2>1. k \in s  BY <1>5, <1>8
  <2>2. k =< Max(s)  BY <1>6, <2>1
  <2> QED BY <1>7, <1>8, <2>2
<1> QED BY <1>3, <1>4, <1>6, <1>7, <1>8

\* What a row has in it is in the cells up to a column behind which it is empty.
LEMMA FilledPart ==
  ASSUME NEW row \in Seq(CellText), NEW w \in 0..Len(row),
         \A k \in 1..Len(row) : k > w => row[k] = <<>>
  PROVE  Filled(row) = Filled(SubSeq(row, 1, w)) /\ SubSeq(row, 1, w) \in Seq(CellText)
<1> DEFINE head == SubSeq(row, 1, w)
           rest == SubSeq(row, w + 1, Len(row))
<1>1. /\ head \in Seq(CellText) /\ rest \in Seq(CellText)
      /\ Len(rest) = Len(row) - w /\ Len(head) = w
      /\ \A k \in 1..w : head[k] = row[k]
      /\ \A k \in 1..(Len(row) - w) : rest[k] = row[w + k]
  OBVIOUS
<1>2. Len(row) \in Nat /\ w \in Nat /\ w =< Len(row)  OBVIOUS
<1> HIDE DEF head, rest
<1>3. \A k \in 1..Len(rest) : rest[k] = <<>>
  <2> SUFFICES ASSUME NEW k \in 1..Len(rest)
               PROVE  rest[k] = <<>>
    OBVIOUS
  <2>1. w + k \in 1..Len(row) /\ w + k > w /\ k \in 1..(Len(row) - w)
    BY <1>1, <1>2
  <2> QED BY <1>1, <2>1
<1>4. row = head \o rest
  <2>1. head \o rest \in Seq(CellText) /\ Len(head \o rest) = Len(row)
    BY <1>1, <1>2
  <2>2. ASSUME NEW k \in 1..Len(row)
        PROVE  (head \o rest)[k] = row[k]
    <3>1. CASE k =< w
      <4>1. k \in 1..w /\ k \in 1..Len(head)  BY <1>1, <1>2, <3>1
      <4>2. (head \o rest)[k] = head[k]  BY <1>1, <4>1
      <4> QED BY <1>1, <4>1, <4>2
    <3>2. CASE k > w
      <4>1. k - w \in 1..(Len(row) - w) /\ k - w \in 1..Len(rest) /\ w + (k - w) = k
        BY <1>1, <1>2, <3>2
      <4>2. (head \o rest)[w + (k - w)] = rest[k - w]  BY <1>1, <4>1
      <4> QED BY <1>1, <4>1, <4>2
    <3>3. k =< w \/ k > w  BY <1>2
    <3> QED BY <3>1, <3>2, <3>3
  <2> DEFINE all == head \o rest
  <2>3. all \in Seq(CellText) /\ Len(all) = Len(row) /\ \A k \in 1..Len(row) : all[k] = row[k]
    BY <2>1, <2>2
  <2> HIDE DEF all
  <2>4. all = row  BY <2>3
  <2> QED BY <2>4 DEF all
<1>5. Filled(row) = Filled(head) \o Filled(rest)  BY <1>1, <1>4, FilledOfBoth
<1>6. Filled(rest) = <<>>  BY <1>1, <1>3, NothingFilled
<1>7. Filled(head) \in Seq(CellText)
  <2>1. PICK f : FilledTo(head, Len(head), f)  BY <1>1, FilledExists
  <2>2. Filled(head) = f[Len(head)] /\ f \in [0..Len(head) -> Seq(CellText)]
    BY <1>1, <2>1, FilledIs DEF FilledTo
  <2> QED BY <1>1, <1>2, <2>2
<1>8. Filled(head) \o <<>> = Filled(head)  BY <1>7
<1> QED BY <1>1, <1>5, <1>6, <1>8 DEF head

\* A row of a table keeps what it has in it.
LEMMA WidthIs ==
  ASSUME NEW rows \in Seq(SheetRow), NEW first \in DOMAIN rows,
         NEW i \in first..Len(rows)
  PROVE  /\ Width(rows, first, i) \in LineSize(rows[i])..Len(rows[i])
         /\ rows[i] \in Seq(CellText) /\ Len(rows[i]) \in Nat \ {0}
<1> DEFINE size == LineSize(rows[i])
           length == Len(rows[i])
           w == Width(rows, first, i)
<1>1. i \in 1..Len(rows) /\ first \in 1..Len(rows) /\ Len(rows) \in Nat  OBVIOUS
<1>2. \A k \in 1..Len(rows) : rows[k] \in SheetRow  OBVIOUS
<1>3. \A k \in 1..Len(rows) : rows[k] \in Seq(CellText) /\ rows[k] # <<>>
  BY <1>2 DEF SheetRow
<1>4. \A k \in 1..Len(rows) : LineSize(rows[k]) \in 0..Len(rows[k]) /\ Len(rows[k]) \in Nat \ {0}
  <2> SUFFICES ASSUME NEW k \in 1..Len(rows)
               PROVE  LineSize(rows[k]) \in 0..Len(rows[k]) /\ Len(rows[k]) \in Nat \ {0}
    OBVIOUS
  <2> DEFINE row == rows[k]
  <2>1. row \in Seq(CellText) /\ row # <<>>  BY <1>3
  <2> HIDE DEF row
  <2>2. LineSize(row) \in 0..Len(row) /\ Len(row) \in Nat \ {0}
    BY <2>1, LineSizeIs
  <2> QED BY <2>2 DEF row
<1>5. size \in Nat /\ length \in Nat /\ size =< length  BY <1>1, <1>4
<1>6. CASE i =< first + 1
  <2>1. w = size  BY <1>6 DEF Width
  <2> HIDE DEF w, size, length
  <2>2. w \in size..length  BY <1>5, <2>1
  <2> QED BY <1>1, <1>3, <1>4, <2>2 DEF w, size, length
<1>7. CASE ~(i =< first + 1)
  <2> DEFINE second == LineSize(rows[first + 1])
  <2>1. first + 1 \in 1..Len(rows)  BY <1>1, <1>7
  <2>2. second \in Nat  BY <1>4, <2>1
  <2>3. w = Smaller(Larger(second, size), length)  BY <1>7 DEF Width
  <2> HIDE DEF w, size, length, second
  <2>4. Larger(second, size) \in Nat /\ size =< Larger(second, size)
    BY <1>5, <2>2 DEF Larger
  <2>5. w \in size..length  BY <1>5, <2>3, <2>4 DEF Smaller
  <2> QED BY <1>1, <1>3, <1>4, <2>5 DEF w, size, length
<1> QED BY <1>6, <1>7

LEMMA MarkIsText ==
  ASSUME NEW mark \in Marks
  PROVE  Mark(mark) \in CellText
<1>1. mark \in {"", "!", "-", "-!"}  BY DEF Marks
<1>2. "!" \in Characters /\ "-" \in Characters  BY DEF Characters
<1>3. /\ <<>> \in Seq(Characters) /\ <<"!">> \in Seq(Characters)
      /\ <<"-">> \in Seq(Characters) /\ <<"-", "!">> \in Seq(Characters)
  BY <1>2
<1>4. Mark(mark) \in {<<>>, <<"!">>, <<"-">>, <<"-", "!">>}  BY <1>1 DEF Mark
<1> QED BY <1>3, <1>4 DEF CellText

LEMMA EmptyPart ==
  ASSUME NEW T, NEW s \in Seq(T), NEW m \in Nat, NEW k \in Nat, k < m
  PROVE  SubSeq(s, m, k) = <<>>
OBVIOUS

LEMMA HeadOfPart ==
  ASSUME NEW T, NEW s \in Seq(T), NEW k \in 1..Len(s)
  PROVE  /\ SubSeq(s, 1, k) = <<s[1]>> \o SubSeq(s, 2, k)
         /\ s[1] \in T /\ SubSeq(s, 2, k) \in Seq(T)
<1> DEFINE rest == SubSeq(s, 2, k)
           head == SubSeq(s, 1, k)
<1>1. s[1] \in T /\ 1 \in 1..Len(s) /\ k \in Nat /\ k >= 1 /\ k =< Len(s)
  OBVIOUS
<1>3. /\ rest \in Seq(T) /\ Len(rest) = k - 1
      /\ \A j \in 1..(k - 1) : rest[j] = s[j + 1]
  <2>1. 2 \in 1..(Len(s) + 1) /\ k \in (2 - 1)..Len(s)  BY <1>1
  <2>2. rest \in Seq(T) /\ Len(rest) = k - 2 + 1 /\ \A j \in 1..(k - 2 + 1) : rest[j] = s[2 + j - 1]
    BY <2>1, PartIsSeq
  <2>3. k - 2 + 1 = k - 1 /\ \A j \in 1..(k - 1) : 2 + j - 1 = j + 1  BY <1>1
  <2> QED BY <2>2, <2>3
<1>4. head \in Seq(T) /\ Len(head) = k /\ \A j \in 1..k : head[j] = s[j]
  <2>1. 1 \in 1..(Len(s) + 1) /\ k \in (1 - 1)..Len(s)  BY <1>1
  <2>2. head \in Seq(T) /\ Len(head) = k - 1 + 1 /\ \A j \in 1..(k - 1 + 1) : head[j] = s[1 + j - 1]
    BY <2>1, PartIsSeq
  <2>3. k - 1 + 1 = k /\ \A j \in 1..k : 1 + j - 1 = j  BY <1>1
  <2> QED BY <2>2, <2>3
<1> DEFINE all == <<s[1]>> \o rest
<1> HIDE DEF rest, head
<1>5. /\ all \in Seq(T) /\ Len(all) = 1 + Len(rest) /\ all[1] = s[1]
      /\ \A j \in 1..Len(rest) : all[j + 1] = rest[j]
  BY <1>1, <1>3, Prepended
<1> HIDE DEF all
<1>6. ASSUME NEW j \in 1..k
      PROVE  all[j] = head[j]
  <2>1. CASE j = 1  BY <1>4, <1>5, <2>1
  <2>2. CASE j # 1
    <3>1. j - 1 \in 1..(k - 1) /\ (j - 1) + 1 = j /\ j - 1 \in 1..Len(rest)
      BY <1>1, <1>3, <2>2
    <3>2. all[(j - 1) + 1] = rest[j - 1] /\ rest[j - 1] = s[(j - 1) + 1]
      BY <1>3, <1>5, <3>1
    <3> QED BY <1>4, <3>1, <3>2
  <2> QED BY <2>1, <2>2
<1> HIDE DEF all
<1>7. all = head
  <2>1. Len(all) = k  BY <1>1, <1>3, <1>5
  <2>2. all \in Seq(T) /\ head \in Seq(T) /\ Len(head) = Len(all)
    BY <1>4, <1>5, <2>1
  <2>3. \A j \in 1..Len(all) : all[j] = head[j]  BY <1>6, <2>1
  <2> QED BY <2>2, <2>3, SameElements
<1> QED BY <1>1, <1>3, <1>7 DEF all, rest, head

LEMMA FilledCells ==
  ASSUME NEW cells \in Seq(CellText)
  PROVE  /\ Filled(cells) \in Seq(CellText)
         /\ Filled(cells) \o <<>> = Filled(cells) /\ <<>> \o Filled(cells) = Filled(cells)
<1>1. PICK f : FilledTo(cells, Len(cells), f)  BY FilledExists
<1>2. Filled(cells) = f[Len(cells)] /\ f \in [0..Len(cells) -> Seq(CellText)]
  BY <1>1, FilledIs DEF FilledTo
<1>3. Len(cells) \in Nat /\ Len(cells) \in 0..Len(cells)  OBVIOUS
<1>4. Filled(cells) \in Seq(CellText)  BY <1>2, <1>3
<1> QED BY <1>4

LEMMA OneEmpty == <<<<>>>> \in Seq(CellText) /\ Filled(<<<<>>>>) = <<>>
<1> DEFINE one == <<<<>>>>
<1>1. <<>> \in CellText  BY DEF CellText
<1>2. one \in Seq(CellText) /\ Len(one) = 1 /\ one[1] = <<>>  BY <1>1
<1> HIDE DEF one
<1>3. \A k \in 1..Len(one) : one[k] = <<>>  BY <1>2
<1>4. Filled(one) = <<>>  BY <1>2, <1>3, NothingFilled
<1> QED BY <1>2, <1>4 DEF one

\* Empty cells before and after others do not count.
LEMMA FilledBefore ==
  ASSUME NEW word \in CellText, NEW cells \in Seq(CellText)
  PROVE  /\ <<word>> \o Append(cells, <<>>) \in Seq(CellText)
         /\ Filled(<<word>> \o Append(cells, <<>>)) = Filled(<<word>> \o cells)
<1> DEFINE one == <<word>>
           last == <<<<>>>>
           all == one \o cells
<1>1. one \in Seq(CellText)  OBVIOUS
<1>2. last \in Seq(CellText) /\ Filled(last) = <<>>  BY OneEmpty
<1>3. Append(cells, <<>>) = cells \o last
  <2>1. <<>> \in CellText  BY DEF CellText
  <2> QED BY <2>1
<1> HIDE DEF one, last
<1>4. all \in Seq(CellText) /\ one \o (cells \o last) = all \o last /\ all \o last \in Seq(CellText)
  BY <1>1, <1>2
<1>5. Filled(all \o last) = Filled(all) \o <<>>  BY <1>2, <1>4, FilledOfBoth
<1>6. Filled(all) \o <<>> = Filled(all)  BY <1>4, FilledCells
<1> QED BY <1>3, <1>4, <1>5, <1>6 DEF one

LEMMA RowContents ==
  ASSUME NEW mark \in Marks, NEW cells \in Seq(CellText)
  PROVE  /\ TableRow(mark, cells, <<>>) \in WikiLine
         /\ ContentsOf(TableRow(mark, cells, <<>>)) = Filled(<<Mark(mark)>> \o cells)
<1> DEFINE line == TableRow(mark, cells, <<>>)
<1>1. <<>> \in CellText  BY DEF CellText
<1>2. line \in WikiLine  BY <1>1, RowIsLine
<1>3. IsRow(line) /\ line.mark = mark /\ line.cells = cells /\ line.suffix = <<>>
  BY DEF TableRow, IsRow, Marks, Prose
<1> HIDE DEF line
<1>4. ContentsOf(line) = Filled(<<Mark(mark)>> \o Append(cells, <<>>))
  BY <1>3 DEF ContentsOf
<1>5. Mark(mark) \in CellText  BY MarkIsText
<1>6. Filled(<<Mark(mark)>> \o Append(cells, <<>>)) = Filled(<<Mark(mark)>> \o cells)
  BY <1>5, FilledBefore
<1> QED BY <1>2, <1>4, <1>6 DEF line

\* The cells beyond the width that a row is given are empty.
LEMMA RestIsEmpty ==
  ASSUME NEW row \in SheetRow, NEW w \in LineSize(row)..Len(row)
  PROVE  w \in 0..Len(row) /\ \A k \in 1..Len(row) : k > w => row[k] = <<>>
<1>1. row \in Seq(CellText) /\ row # <<>> /\ Len(row) \in Nat  BY DEF SheetRow
<1>2. LineSize(row) \in 0..Len(row) /\ \A k \in 1..Len(row) : k > LineSize(row) => row[k] = <<>>
  BY <1>1, LineSizeIs
<1> DEFINE size == LineSize(row)
           length == Len(row)
<1>3. size \in Nat /\ length \in Nat /\ w \in size..length  BY <1>1, <1>2
<1> HIDE DEF size, length
<1>4. w \in 0..length /\ \A k \in 1..length : k > w => k > size  BY <1>3
<1> QED BY <1>2, <1>4 DEF size, length

\* The first column became the mark.
LEMMA MarkedRowKept ==
  ASSUME NEW row \in SheetRow, NEW w \in LineSize(row)..Len(row),
         NEW mark \in Marks, Mark(mark) = row[1]
  PROVE  /\ TableRow(mark, SubSeq(row, 2, w), <<>>) \in WikiLine
         /\ ContentsOf(TableRow(mark, SubSeq(row, 2, w), <<>>)) = Filled(row)
<1> DEFINE cells == SubSeq(row, 2, w)
<1>1. row \in Seq(CellText) /\ row # <<>> /\ Len(row) \in Nat /\ 1 \in 1..Len(row)
  BY DEF SheetRow
<1>2. w \in 0..Len(row) /\ \A k \in 1..Len(row) : k > w => row[k] = <<>>
  BY RestIsEmpty
<1>3. Filled(row) = Filled(SubSeq(row, 1, w))  BY <1>1, <1>2, FilledPart
<1>4. CASE w = 0
  <2>1. cells = <<>>  BY <1>1, <1>4, EmptyPart
  <2>2. cells \in Seq(CellText)  BY <2>1
  <2>3. row[1] = <<>>  BY <1>1, <1>2, <1>4
  <2>4. Filled(row) = <<>>  BY <1>1, <1>2, <1>4, NothingFilled
  <2>5. <<Mark(mark)>> \o cells = <<<<>>>>
    <3> DEFINE one == <<<<>>>>
    <3>1. <<Mark(mark)>> = one  BY <2>3
    <3>2. one \in Seq(CellText)  BY OneEmpty
    <3> HIDE DEF one
    <3>3. one \o <<>> = one  BY <3>2
    <3> QED BY <2>1, <3>1, <3>3 DEF one
  <2> HIDE DEF cells
  <2>6. ContentsOf(TableRow(mark, cells, <<>>)) = Filled(<<<<>>>>)
    BY <2>2, <2>5, RowContents
  <2> QED BY <2>2, <2>4, <2>6, OneEmpty, RowContents DEF cells
<1>5. CASE w # 0
  <2>1. w \in 1..Len(row)  BY <1>2, <1>5
  <2>2. SubSeq(row, 1, w) = <<row[1]>> \o cells /\ cells \in Seq(CellText)
    BY <1>1, <2>1, HeadOfPart
  <2> HIDE DEF cells
  <2> QED BY <1>3, <2>2, RowContents DEF cells
<1> QED BY <1>4, <1>5

LEMMA WholeRowKept ==
  ASSUME NEW row \in SheetRow, NEW w \in LineSize(row)..Len(row)
  PROVE  /\ TableRow("", SubSeq(row, 1, w), <<>>) \in WikiLine
         /\ ContentsOf(TableRow("", SubSeq(row, 1, w), <<>>)) = Filled(row)
<1> DEFINE cells == SubSeq(row, 1, w)
           one == <<<<>>>>
<1>1. row \in Seq(CellText) /\ row # <<>> /\ Len(row) \in Nat /\ 1 \in 1..Len(row)
  BY DEF SheetRow
<1>2. w \in 0..Len(row) /\ \A k \in 1..Len(row) : k > w => row[k] = <<>>
  BY RestIsEmpty
<1>3. Filled(row) = Filled(cells) /\ cells \in Seq(CellText)
  BY <1>1, <1>2, FilledPart
<1>4. "" \in Marks /\ Mark("") = <<>>  BY DEF Marks, Mark
<1> HIDE DEF cells
<1>5. /\ TableRow("", cells, <<>>) \in WikiLine
      /\ ContentsOf(TableRow("", cells, <<>>)) = Filled(one \o cells)
  BY <1>3, <1>4, RowContents
<1>6. one \in Seq(CellText) /\ Filled(one) = <<>>  BY OneEmpty
<1> HIDE DEF one
<1>7. Filled(one \o cells) = Filled(one) \o Filled(cells)
  BY <1>3, <1>6, FilledOfBoth
<1>8. <<>> \o Filled(cells) = Filled(cells)  BY <1>3, FilledCells
<1> QED BY <1>3, <1>5, <1>6, <1>7, <1>8 DEF cells

LEMMA ProseKept ==
  ASSUME NEW row \in SheetRow, LineSize(row) =< 1
  PROVE  Line(row[1]) \in WikiLine /\ ContentsOf(Line(row[1])) = Filled(row)
<1> DEFINE word == row[1]
           line == Line(word)
           one == <<word>>
           first == <<<<>>>>
<1>1. row \in Seq(CellText) /\ row # <<>> /\ Len(row) \in Nat /\ 1 \in 1..Len(row)
  BY DEF SheetRow
<1>2. word \in CellText  BY <1>1
<1>3. line \in WikiLine  BY <1>2, ProseIsLine
<1>4. ~IsRow(line) /\ line.cells = <<>> /\ line.suffix = word
  BY DEF Line, TableRow, IsRow
<1>5. ContentsOf(line) = Filled(<<<<>>>> \o Append(<<>>, word))
  <2> HIDE DEF line, word
  <2> QED BY <1>4 DEF ContentsOf
<1>6. Append(<<>>, word) = one  OBVIOUS
<1>7. SubSeq(row, 1, 1) = one
  <2>1. SubSeq(row, 1, 1) = one \o SubSeq(row, 2, 1)  BY <1>1, HeadOfPart
  <2>2. SubSeq(row, 2, 1) = <<>>  BY <1>1, EmptyPart
  <2>3. one \in Seq(CellText)  BY <1>2
  <2> HIDE DEF one
  <2>4. one \o <<>> = one  BY <2>3
  <2> QED BY <2>1, <2>2, <2>4
<1>8. \A k \in 1..Len(row) : k > 1 => row[k] = <<>>
  <2>1. LineSize(row) \in 0..Len(row) /\ \A k \in 1..Len(row) : k > LineSize(row) => row[k] = <<>>
    BY <1>1, LineSizeIs
  <2> DEFINE size == LineSize(row)
  <2>2. size \in Nat /\ size =< 1  BY <1>1, <2>1
  <2> HIDE DEF size
  <2>3. \A k \in 1..Len(row) : k > 1 => k > size  BY <1>1, <2>2
  <2> QED BY <2>1, <2>3 DEF size
<1>9. Filled(row) = Filled(one)
  <2>1. 1 \in 0..Len(row)  BY <1>1
  <2> QED BY <1>1, <1>7, <1>8, <2>1, FilledPart
<1>10. one \in Seq(CellText)  BY <1>2
<1>11. first \in Seq(CellText) /\ Filled(first) = <<>>  BY OneEmpty
<1> HIDE DEF one, first
<1>12. Filled(first \o one) = Filled(first) \o Filled(one)
  BY <1>10, <1>11, FilledOfBoth
<1>13. <<>> \o Filled(one) = Filled(one)  BY <1>10, FilledCells
<1>14. ContentsOf(line) = Filled(first \o one)  BY <1>5, <1>6 DEF first
<1> QED BY <1>3, <1>9, <1>11, <1>12, <1>13, <1>14 DEF line, word

\* The lines of a table have what the rows from the first on have in them.
KeepsRows(rows, first, lines) ==
  /\ lines \in Seq(WikiLine) /\ Len(lines) \in 1..(Len(rows) - first + 1)
  /\ \A k \in 1..Len(lines) : ContentsOf(lines[k]) = Filled(rows[first + k - 1])

LEMMA LastLineIs ==
  ASSUME NEW rows \in Seq(SheetRow), NEW first \in DOMAIN rows, NEW skip
  PROVE  /\ LastLine(rows, first, skip) \in first..Len(rows)
         /\ \A j \in (first + 1)..LastLine(rows, first, skip) : ~IsNotTableLine(rows[j], skip)
<1> DEFINE s == {k \in first..Len(rows) :
                   \A j \in (first + 1)..k : ~IsNotTableLine(rows[j], skip)}
<1>1. first \in Nat /\ Len(rows) \in Nat /\ first =< Len(rows)  OBVIOUS
<1>2. first \in s
  <2>1. (first + 1)..first = {}  BY <1>1
  <2>2. first \in first..Len(rows)  BY <1>1
  <2> QED BY <2>1, <2>2
<1>3. s \in SUBSET (0..Len(rows)) /\ s # {}  BY <1>1, <1>2
<1>4. LastLine(rows, first, skip) = Max(s)  BY DEF LastLine
<1> HIDE DEF s
<1>5. Max(s) \in s  BY <1>1, <1>3, MaxOf
<1> QED BY <1>4, <1>5 DEF s

MarkFits(rows, first, skip, mark) ==
  /\ mark \in Marks
  /\ skip = 1 => Mark(mark) = rows[first][1]
  /\ skip = 0 => mark = ""

LEMMA TableKept ==
  ASSUME NEW rows \in Seq(SheetRow), NEW first \in DOMAIN rows,
         NEW skip \in {0, 1}, NEW mark, MarkFits(rows, first, skip, mark)
  PROVE  KeepsRows(rows, first, ProcessTable(rows, first, skip, mark))
<1> DEFINE last == LastLine(rows, first, skip)
           n == last - first + 1
           line(k) ==
             TableRow(IF k = 1 THEN mark ELSE "",
                      SubSeq(rows[first + k - 1], skip + 1, Width(rows, first, first + k - 1)),
                      <<>>)
           lines == [k \in 1..n |-> line(k)]
<1>1. first \in 1..Len(rows) /\ Len(rows) \in Nat /\ \A i \in 1..Len(rows) : rows[i] \in SheetRow
  OBVIOUS
<1>2. last \in first..Len(rows) /\ \A j \in (first + 1)..last : ~IsNotTableLine(rows[j], skip)
  BY LastLineIs
<1>3. ProcessTable(rows, first, skip, mark) = lines  BY DEF ProcessTable
<1> HIDE DEF last
<1>4. n \in 1..(Len(rows) - first + 1) /\ n \in Nat  BY <1>1, <1>2
<1>5. ASSUME NEW k \in 1..n
      PROVE  line(k) \in WikiLine /\ ContentsOf(line(k)) = Filled(rows[first + k - 1])
  <2> DEFINE i == first + k - 1
             row == rows[i]
             w == Width(rows, first, i)
             m == IF k = 1 THEN mark ELSE ""
  <2>1. i \in first..Len(rows) /\ i \in 1..Len(rows) /\ (k = 1 => i = first)
    BY <1>1, <1>2
  <2>2. w \in LineSize(row)..Len(row) /\ row \in SheetRow
    BY <1>1, <2>1, WidthIs
  <2>3. m \in Marks  BY DEF Marks, MarkFits
  <2>4. CASE skip = 1
    <3>1. Mark(m) = row[1]
      <4>1. CASE k = 1  BY <2>1, <2>4, <4>1 DEF MarkFits
      <4>2. CASE k # 1
        <5>1. i \in (first + 1)..last  BY <1>1, <1>2, <4>2
        <5>2. ~IsNotTableLine(row, 1)  BY <1>2, <2>4, <5>1
        <5>3. 1 \in 1..1  OBVIOUS
        <5>4. row[1] = <<>>  BY <5>2, <5>3 DEF IsNotTableLine
        <5> QED BY <4>2, <5>4 DEF Mark
      <4> QED BY <4>1, <4>2
    <3>2. line(k) = TableRow(m, SubSeq(row, 2, w), <<>>)  BY <2>4
    <3> HIDE DEF row, w, m, line, i
    <3>3. /\ TableRow(m, SubSeq(row, 2, w), <<>>) \in WikiLine
          /\ ContentsOf(TableRow(m, SubSeq(row, 2, w), <<>>)) = Filled(row)
      BY <2>2, <2>3, <3>1, MarkedRowKept
    <3> QED BY <3>2, <3>3 DEF row, i
  <2>5. CASE skip = 0
    <3>1. line(k) = TableRow("", SubSeq(row, 1, w), <<>>)
      <4>1. mark = ""  BY <2>5, Zenon DEF MarkFits
      <4>2. m = ""  BY <4>1, Zenon
      <4>3. skip + 1 = 1  BY <2>5
      <4>4. line(k) = TableRow(m, SubSeq(row, skip + 1, w), <<>>)  OBVIOUS
      <4> QED BY <4>2, <4>3, <4>4
    <3> HIDE DEF row, w, m, line, i
    <3>2. /\ TableRow("", SubSeq(row, 1, w), <<>>) \in WikiLine
          /\ ContentsOf(TableRow("", SubSeq(row, 1, w), <<>>)) = Filled(row)
      BY <2>2, WholeRowKept
    <3> QED BY <3>1, <3>2 DEF row, i
  <2> QED BY <2>4, <2>5
<1> HIDE DEF line, n
<1>6. lines \in [1..n -> WikiLine] /\ \A k \in 1..n : lines[k] = line(k)
  BY <1>5
<1> HIDE DEF lines
<1>7. lines \in Seq(WikiLine) /\ Len(lines) = n  BY <1>4, <1>6, FunctionIsSeq
<1> QED BY <1>3, <1>4, <1>5, <1>6, <1>7 DEF KeepsRows

LEMMA RowsKept ==
  ASSUME NEW rows \in Seq(SheetRow), NEW i \in DOMAIN rows
  PROVE  KeepsRows(rows, i, LinesFrom(rows, i))
<1> DEFINE row == rows[i]
<1>1. row \in SheetRow /\ i \in 1..Len(rows) /\ Len(rows) \in Nat  OBVIOUS
<1>2. row \in Seq(CellText) /\ row # <<>>  BY <1>1 DEF SheetRow
<1>3. CASE IsMarked(row)
  <2> DEFINE mark == CHOOSE m \in Marks : Mark(m) = row[1]
  <2>1. \E m \in Marks : Mark(m) = row[1]
    <3>1. "!" \in Marks /\ "-" \in Marks /\ "-!" \in Marks  BY DEF Marks
    <3> QED BY <1>3, <3>1 DEF IsMarked
  <2>2. mark \in Marks /\ Mark(mark) = row[1]  BY <2>1
  <2>3. LinesFrom(rows, i) = ProcessTable(rows, i, 1, mark)
    BY <1>3 DEF LinesFrom
  <2> HIDE DEF mark
  <2>4. MarkFits(rows, i, 1, mark)  BY <2>2 DEF MarkFits
  <2>5. KeepsRows(rows, i, ProcessTable(rows, i, 1, mark))  BY <2>4, TableKept
  <2> QED BY <2>3, <2>5
<1>4. CASE ~IsMarked(row) /\ IsImplicitTableStart(rows, i)
  <2> DEFINE skip == IF row[1] = <<>> THEN 1 ELSE 0
  <2>1. LinesFrom(rows, i) = ProcessTable(rows, i, skip, "")
    BY <1>4 DEF LinesFrom
  <2>2. skip \in {0, 1} /\ MarkFits(rows, i, skip, "")
    BY DEF Marks, Mark, MarkFits
  <2> HIDE DEF skip
  <2>3. KeepsRows(rows, i, ProcessTable(rows, i, skip, ""))  BY <2>2, TableKept
  <2> QED BY <2>1, <2>3
<1>5. CASE ~IsMarked(row) /\ ~IsImplicitTableStart(rows, i)
  <2> DEFINE line == Line(row[1])
             lines == <<line>>
  <2>1. LinesFrom(rows, i) = lines  BY <1>5 DEF LinesFrom
  <2>2. LineSize(row) =< 1
    <3>1. LineSize(row) \in 0..Len(row) /\ Len(row) \in Nat  BY <1>2, LineSizeIs
    <3>2. LineSize(row) \in Nat  BY <3>1
    <3>3. row[1] # Mark("!")  BY <1>5 DEF IsMarked
    <3> SUFFICES ASSUME LineSize(row) > 1
                 PROVE  FALSE
      BY <3>2
    <3>4. i \in i..Len(rows) /\ \A j \in i..i : j = i  BY <1>1
    <3>5. LineSize(row) # 0  BY <3>2
    <3>6. \A j \in i..i : rows[j][1] # Mark("!") /\ LineSize(rows[j]) # 0
      BY <3>3, <3>4, <3>5
    <3> QED BY <1>5, <3>4, <3>6, Zenon DEF IsImplicitTableStart
  <2>3. line \in WikiLine /\ ContentsOf(line) = Filled(row)
    BY <1>1, <2>2, ProseKept
  <2> HIDE DEF line
  <2>4. lines \in Seq(WikiLine) /\ Len(lines) = 1 /\ lines[1] = line  BY <2>3
  <2> HIDE DEF lines
  <2>5. Len(lines) \in 1..(Len(rows) - i + 1)  BY <1>1, <2>4
  <2>6. \A k \in 1..Len(lines) : k = 1 /\ i + k - 1 = i  BY <1>1, <2>4
  <2>7. \A k \in 1..Len(lines) : ContentsOf(lines[k]) = Filled(rows[i + k - 1])
    BY <2>3, <2>4, <2>6
  <2> QED BY <2>1, <2>4, <2>5, <2>7 DEF KeepsRows
<1> QED BY <1>3, <1>4, <1>5

\* The lines so far are those of the first rows, at least of the first k.
KeptRows(rows, k, lines) ==
  /\ lines \in Seq(WikiLine) /\ Len(lines) \in k..Len(rows)
  /\ \A i \in 1..Len(lines) : ContentsOf(lines[i]) = Filled(rows[i])

R == INSTANCE Folding WITH Op <- ProcessRow, Inv <- KeptRows

LEMMA RowsProcessed ==
  ASSUME NEW rows \in Seq(SheetRow), NEW k \in 1..Len(rows), NEW lines,
         KeptRows(rows, k - 1, lines)
  PROVE  KeptRows(rows, k, ProcessRow(rows, lines, k))
<1> DEFINE more == LinesFrom(rows, k)
           n == Len(rows)
           a == Len(lines)
           b == Len(more)
<1>1. lines \in Seq(WikiLine) /\ n \in Nat /\ a \in Nat /\ a \in (k - 1)..n /\ k \in 1..n
  BY DEF KeptRows
<1>2. \A i \in 1..a : ContentsOf(lines[i]) = Filled(rows[i])  BY DEF KeptRows
<1>3. CASE k =< a
  <2>1. a \in k..n
    <3> HIDE DEF a, n
    <3> QED BY <1>1, <1>3
  <2> QED BY <1>1, <1>2, <1>3, <2>1 DEF KeptRows, ProcessRow
<1>4. CASE ~(k =< a)
  <2> DEFINE all == lines \o more
  <2>1. KeepsRows(rows, k, more)  BY RowsKept
  <2>2. /\ more \in Seq(WikiLine) /\ b \in 1..(n - k + 1)
        /\ \A j \in 1..b : ContentsOf(more[j]) = Filled(rows[k + j - 1])
    BY <2>1 DEF KeepsRows
  <2>3. ProcessRow(rows, lines, k) = all  BY <1>4 DEF ProcessRow
  <2> HIDE DEF more, n
  <2>4. /\ all \in Seq(WikiLine) /\ Len(all) = a + b
        /\ \A i \in 1..a : all[i] = lines[i]
        /\ \A j \in 1..b : all[a + j] = more[j]
    BY <1>1, <2>2
  <2> HIDE DEF all, a, b
  <2>5. a = k - 1 /\ b \in Nat /\ a + b \in k..n  BY <1>1, <1>4, <2>2
  <2>6. ASSUME NEW i \in 1..(a + b)
        PROVE  ContentsOf(all[i]) = Filled(rows[i])
    <3>1. CASE i =< a
      <4>1. i \in 1..a  BY <1>1, <3>1
      <4> QED BY <1>2, <2>4, <4>1
    <3>2. CASE ~(i =< a)
      <4>1. i - a \in 1..b /\ a + (i - a) = i /\ k + (i - a) - 1 = i
        BY <1>1, <2>5, <3>2
      <4>2. all[a + (i - a)] = more[i - a]  BY <2>4, <4>1
      <4>3. ContentsOf(more[i - a]) = Filled(rows[k + (i - a) - 1])
        BY <2>2, <4>1
      <4> QED BY <4>1, <4>2, <4>3
    <3> QED BY <3>1, <3>2
  <2> QED BY <2>3, <2>4, <2>5, <2>6 DEF KeptRows, n
<1> QED BY <1>3, <1>4

\* Every row of a spreadsheet becomes a line with what it had in it.
LEMMA SheetsAreKept ==
  ASSUME NEW rows \in Seq(SheetRow)
  PROVE  /\ GetFitNesseTables(rows) \in Seq(WikiLine)
         /\ Len(GetFitNesseTables(rows)) = Len(rows)
         /\ \A i \in 1..Len(rows) : ContentsOf(GetFitNesseTables(rows)[i]) = Filled(rows[i])
<1> DEFINE n == Len(rows)
           numbers == [i \in 1..n |-> i]
           lines == GetFitNesseTables(rows)
<1>1. n \in Nat /\ DOMAIN rows = 1..n /\ DOMAIN numbers = 1..n  OBVIOUS
<1>2. lines = FoldLeft(LAMBDA words, i : ProcessRow(rows, words, i), <<>>, numbers)
  BY <1>1 DEF GetFitNesseTables
<1>3. lines = R!Fold(rows, <<>>, numbers)
  <2> HIDE DEF lines, numbers
  <2> QED
    BY <1>2, Zenon DEF R!Fold, FoldLeft, MapThenFoldSet, R!MapThenFoldSet, Max, R!Max
<1>4. KeptRows(rows, 0, <<>>)
  <2>1. <<>> \in Seq(WikiLine) /\ Len(<<>>) = 0  OBVIOUS
  <2>2. Len(<<>>) \in 0..Len(rows)  BY <1>1, <2>1
  <2> QED BY <2>1, <2>2 DEF KeptRows
<1>5. R!Preserves(rows, numbers, n)
  <2> SUFFICES ASSUME NEW k \in 1..n, NEW value, KeptRows(rows, k - 1, value)
               PROVE  KeptRows(rows, k, ProcessRow(rows, value, k))
    BY DEF R!Preserves
  <2> QED BY RowsProcessed
<1> HIDE DEF n, numbers, lines
<1>6. KeptRows(rows, n, lines)  BY <1>1, <1>3, <1>4, <1>5, R!FoldKeeps
<1>7. lines \in Seq(WikiLine) /\ Len(lines) \in n..n  BY <1>6 DEF KeptRows, n
<1>8. Len(lines) = n  BY <1>1, <1>7
<1> QED BY <1>6, <1>7, <1>8 DEF KeptRows, lines, n

LEMMA SpreadsheetsAreMade ==
  ASSUME NEW wiki \in Seq(WikiLine)
  PROVE  ToSpreadsheet(wiki) \in Seq(SheetRow)
<1> DEFINE n == Len(wiki)
           row(i) ==
             IF ~IsRow(wiki[i]) THEN <<wiki[i].suffix>>
             ELSE IF wiki[i].suffix = <<>> /\ i < n
                  THEN <<Mark(wiki[i].mark)>> \o wiki[i].cells
                  ELSE <<Mark(wiki[i].mark)>> \o Append(wiki[i].cells, wiki[i].suffix)
           rows == [i \in 1..n |-> row(i)]
<1>1. n \in Nat /\ DOMAIN wiki = 1..n /\ \A i \in 1..n : wiki[i] \in WikiLine
  OBVIOUS
<1>2. ToSpreadsheet(wiki) = rows  BY <1>1 DEF ToSpreadsheet
<1> HIDE DEF n
<1>3. ASSUME NEW i \in 1..n
      PROVE  row(i) \in SheetRow
  <2> DEFINE mark == Mark(wiki[i].mark)
             cells == wiki[i].cells
             suffix == wiki[i].suffix
  <2>1. cells \in Seq(CellText) /\ suffix \in CellText /\ wiki[i].mark \in Marks \cup {Prose}
    BY <1>1, LineParts
  <2>2. CASE ~IsRow(wiki[i])
    <3>1. row(i) = <<suffix>>  BY <2>2
    <3> HIDE DEF suffix, row
    <3> QED BY <2>1, <3>1 DEF SheetRow
  <2>3. CASE IsRow(wiki[i])
    <3>1. wiki[i].mark \in Marks  BY <2>1, <2>3 DEF IsRow
    <3>2. mark \in CellText  BY <3>1, MarkIsText
    <3>3. \/ row(i) = <<mark>> \o cells
          \/ row(i) = <<mark>> \o Append(cells, suffix)
      BY <2>3
    <3> HIDE DEF mark, cells, suffix, row
    <3>4. Append(cells, suffix) \in Seq(CellText)  BY <2>1
    <3>5. PICK rest \in Seq(CellText) : row(i) = <<mark>> \o rest
      BY <2>1, <3>3, <3>4
    <3>6. row(i) \in Seq(CellText) /\ Len(row(i)) = 1 + Len(rest)
      BY <3>2, <3>5, Prepended
    <3>7. Len(rest) \in Nat  OBVIOUS
    <3>8. Len(row(i)) # 0  BY <3>6, <3>7
    <3>9. row(i) # <<>>  BY <3>8
    <3> QED BY <3>6, <3>9 DEF SheetRow
  <2> QED BY <2>2, <2>3
<1> HIDE DEF row
<1>4. rows \in [1..n -> SheetRow]  BY <1>3
<1> QED BY <1>1, <1>2, <1>4, FunctionIsSeq

-----------------------------------------------------------------------------
(* The texts of a table, and what is inserted between them *)

\* t is s with x at place p.
HasOneMore(s, t, p, x) ==
  /\ p \in 1..(Len(s) + 1) /\ Len(t) = Len(s) + 1
  /\ \A j \in 1..(p - 1) : t[j] = s[j]
  /\ t[p] = x
  /\ \A j \in p..Len(s) : t[j + 1] = s[j]

LEMMA InsertionOpens ==
  ASSUME NEW T, NEW s \in Seq(T), NEW p \in 1..(Len(s) + 1), NEW x \in T
  PROVE  HasOneMore(s, InsertAt(s, p, x), p, x)
<1> DEFINE n == Len(s)
           before == SubSeq(s, 1, p - 1)
           after == SubSeq(s, p, n)
           one == <<x>>
           front == before \o one
           t == front \o after
<1>1. n \in Nat /\ p \in Nat /\ p >= 1 /\ p =< n + 1  OBVIOUS
<1>2. InsertAt(s, p, x) = t  BY DEF InsertAt
<1>3. /\ before \in Seq(T) /\ Len(before) = p - 1
      /\ \A j \in 1..(p - 1) : before[j] = s[j]
  <2>1. 1 \in 1..(n + 1) /\ p - 1 \in (1 - 1)..n  BY <1>1
  <2>2. /\ before \in Seq(T) /\ Len(before) = (p - 1) - 1 + 1
        /\ \A j \in 1..((p - 1) - 1 + 1) : before[j] = s[1 + j - 1]
    BY <2>1, PartIsSeq
  <2> HIDE DEF before, n
  <2>3. (p - 1) - 1 + 1 = p - 1 /\ \A j \in 1..(p - 1) : 1 + j - 1 = j  BY <1>1
  <2> QED BY <2>2, <2>3
<1>4. /\ after \in Seq(T) /\ Len(after) = n - p + 1
      /\ \A j \in 1..(n - p + 1) : after[j] = s[p + j - 1]
  <2>1. p \in 1..(n + 1) /\ n \in (p - 1)..n  BY <1>1
  <2> QED BY <2>1, PartIsSeq
<1>5. one \in Seq(T) /\ Len(one) = 1 /\ one[1] = x  OBVIOUS
<1> HIDE DEF before, after, one, n
<1>6. /\ front \in Seq(T) /\ Len(front) = p
      /\ \A j \in 1..(p - 1) : front[j] = s[j]
      /\ front[p] = x
  <2>1. /\ front \in Seq(T) /\ Len(front) = Len(before) + Len(one)
        /\ \A j \in 1..Len(before) : front[j] = before[j]
        /\ \A j \in 1..Len(one) : front[Len(before) + j] = one[j]
    <3>1. before \in Seq(T) /\ one \in Seq(T)  BY <1>3, <1>5
    <3> QED BY <3>1, Concatenated
  <2> HIDE DEF front
  <2>2. Len(before) + 1 = p /\ 1 \in 1..Len(one)  BY <1>1, <1>3, <1>5
  <2>3. front[p] = x  BY <1>5, <2>1, <2>2
  <2> QED BY <1>3, <1>5, <2>1, <2>2, <2>3
<1> HIDE DEF front
<1>7. /\ t \in Seq(T) /\ Len(t) = Len(front) + Len(after)
      /\ \A j \in 1..Len(front) : t[j] = front[j]
      /\ \A j \in 1..Len(after) : t[Len(front) + j] = after[j]
  <2>1. front \in Seq(T) /\ after \in Seq(T)  BY <1>4, <1>6
  <2> QED BY <2>1, Concatenated
<1> HIDE DEF t
<1>8. Len(t) = n + 1  BY <1>1, <1>4, <1>6, <1>7
<1>9. \A j \in 1..(p - 1) : j \in 1..p  BY <1>1
<1>10. ASSUME NEW j \in p..n
       PROVE  t[j + 1] = s[j]
  <2> DEFINE k == j - p + 1
  <2>1. k \in 1..(n - p + 1) /\ p + k = j + 1 /\ p + k - 1 = j  BY <1>1
  <2> HIDE DEF k
  <2>2. t[p + k] = after[k] /\ after[k] = s[p + k - 1]
    BY <1>4, <1>6, <1>7, <2>1
  <2> QED BY <2>1, <2>2
<1>11. p \in 1..p  BY <1>1
<1>12. t[p] = x /\ \A j \in 1..(p - 1) : t[j] = s[j]  BY <1>6, <1>7, <1>9, <1>11
<1>13. p \in 1..(n + 1)  BY <1>1
<1> QED BY <1>2, <1>8, <1>10, <1>12, <1>13 DEF HasOneMore, n

\* The values of a fold over texts.
Values(f, n) == \A j \in 0..n : f[j] \in Seq(CellText)

\* The same values, with a step at p that changes nothing.
StepMore(f, n, p, g) ==
  /\ g \in [0..(n + 1) -> Seq(CellText)]
  /\ g[0] = f[0] /\ g[n + 1] = f[n]
  /\ \A j \in 1..(p - 1) : g[j] = f[j] /\ g[j - 1] = f[j - 1]
  /\ g[p] = f[p - 1] /\ g[p - 1] = f[p - 1]
  /\ \A j \in p..n : g[j + 1] = f[j] /\ g[j] = f[j - 1]

LEMMA OneStepMore ==
  ASSUME NEW n \in Nat, NEW p \in 1..(n + 1), NEW f, Values(f, n)
  PROVE  \E g : StepMore(f, n, p, g)
<1> DEFINE g == [j \in 0..(n + 1) |-> IF j < p THEN f[j] ELSE f[j - 1]]
<1>1. n \in Nat /\ p \in Nat /\ p >= 1 /\ p =< n + 1  OBVIOUS
<1>2. \A j \in 0..(n + 1) : (j < p => j \in 0..n) /\ (~(j < p) => j - 1 \in 0..n)
  BY <1>1
<1>3. \A j \in 0..(n + 1) : (IF j < p THEN f[j] ELSE f[j - 1]) \in Seq(CellText)
  BY <1>2 DEF Values
<1>4. g \in [0..(n + 1) -> Seq(CellText)]  BY <1>3
<1>5. \A j \in 0..(n + 1) : (j < p => g[j] = f[j]) /\ (~(j < p) => g[j] = f[j - 1])
  OBVIOUS
<1> HIDE DEF g
<1>6. g[0] = f[0]
  <2>1. 0 \in 0..(n + 1) /\ 0 < p  BY <1>1
  <2> QED BY <1>5, <2>1
<1>7. g[n + 1] = f[n]
  <2>1. n + 1 \in 0..(n + 1) /\ ~(n + 1 < p) /\ (n + 1) - 1 = n  BY <1>1
  <2> QED BY <1>5, <2>1
<1>8. ASSUME NEW j \in 1..(p - 1)
      PROVE  g[j] = f[j] /\ g[j - 1] = f[j - 1]
  <2>1. j \in 0..(n + 1) /\ j < p /\ j - 1 \in 0..(n + 1) /\ j - 1 < p  BY <1>1
  <2> QED BY <1>5, <2>1
<1>9. g[p] = f[p - 1] /\ g[p - 1] = f[p - 1]
  <2>1. p \in 0..(n + 1) /\ ~(p < p) /\ p - 1 \in 0..(n + 1) /\ p - 1 < p
    BY <1>1
  <2> QED BY <1>5, <2>1
<1>10. ASSUME NEW j \in p..n
       PROVE  g[j + 1] = f[j] /\ g[j] = f[j - 1]
  <2>1. j \in 0..(n + 1) /\ ~(j < p) /\ j + 1 \in 0..(n + 1) /\ ~(j + 1 < p) /\ (j + 1) - 1 = j
    BY <1>1
  <2> QED BY <1>5, <2>1
<1>11. StepMore(f, n, p, g)  BY <1>4, <1>6, <1>7, <1>8, <1>9, <1>10 DEF StepMore
<1> QED BY <1>11, Zenon

\* Each element of t is the one at p, or an element of s.
LEMMA Places ==
  ASSUME NEW n \in Nat, NEW p \in 1..(n + 1), NEW j \in 1..(n + 1)
  PROVE  j \in 1..(p - 1) \/ j = p \/ (j - 1 \in p..n /\ (j - 1) + 1 = j)
OBVIOUS

LEMMA NoTextInserted ==
  ASSUME NEW s \in Seq(CellText), NEW t \in Seq(CellText), NEW p, HasOneMore(s, t, p, <<>>)
  PROVE  Filled(t) = Filled(s)
<1> DEFINE n == Len(s)
<1>1. n \in Nat /\ p \in 1..(n + 1) /\ Len(t) = n + 1 /\ t[p] = <<>>
  BY DEF HasOneMore
<1>2. /\ \A j \in 1..(p - 1) : t[j] = s[j]
      /\ \A j \in p..n : t[j + 1] = s[j]
  BY DEF HasOneMore
<1>3. PICK f : FilledTo(s, n, f)  BY FilledExists
<1>4. /\ f \in [0..n -> Seq(CellText)] /\ f[0] = <<>>
      /\ \A j \in 1..n : f[j] = AddFilled(f[j - 1], s[j])
  BY <1>3 DEF FilledTo
<1>5. Filled(s) = f[n]  BY <1>3, FilledIs
<1> HIDE DEF n
<1>a. PICK g : StepMore(f, n, p, g)
  <2>1. n \in Nat /\ p \in 1..(n + 1)  BY <1>1
  <2>2. Values(f, n)  BY <1>4 DEF Values
  <2> QED BY <2>1, <2>2, OneStepMore
<1>6. /\ g \in [0..(n + 1) -> Seq(CellText)]
      /\ g[0] = f[0] /\ g[n + 1] = f[n]
      /\ \A j \in 1..(p - 1) : g[j] = f[j] /\ g[j - 1] = f[j - 1]
      /\ g[p] = f[p - 1] /\ g[p - 1] = f[p - 1]
      /\ \A j \in p..n : g[j + 1] = f[j] /\ g[j] = f[j - 1]
  BY <1>a DEF StepMore
<1>7. ASSUME NEW j \in 1..(n + 1)
      PROVE  g[j] = AddFilled(g[j - 1], t[j])
  <2>1. CASE j \in 1..(p - 1)
    <3>1. j \in 1..n  BY <1>1, <2>1
    <3> QED BY <1>2, <1>4, <1>6, <2>1, <3>1
  <2>2. CASE j = p  BY <1>1, <1>6, <2>2 DEF AddFilled
  <2>3. CASE j - 1 \in p..n /\ (j - 1) + 1 = j
    <3> DEFINE k == j - 1
    <3>1. k \in p..n /\ k + 1 = j /\ k \in 1..n  BY <1>1, <2>3
    <3>2. g[k + 1] = f[k] /\ g[k] = f[k - 1] /\ t[k + 1] = s[k]
      BY <1>2, <1>6, <3>1
    <3>3. f[k] = AddFilled(f[k - 1], s[k])  BY <1>4, <3>1
    <3>4. g[j] = AddFilled(g[k], t[j])
      <4> HIDE DEF k
      <4> QED BY <3>1, <3>2, <3>3
    <3> QED BY <3>4
  <2> QED BY <1>1, <2>1, <2>2, <2>3, Places
<1>8. FilledTo(t, n + 1, g)  BY <1>4, <1>6, <1>7 DEF FilledTo
<1>9. Filled(t) = g[n + 1]  BY <1>1, <1>8, FilledIs
<1> QED BY <1>5, <1>6, <1>9

P == INSTANCE Folding WITH Op <- JoinNext, Inv <- IsCells

\* f[k] is what the first k parts hold.
JoinedTo(parts, n, f) ==
  /\ Values(f, n) /\ f[0] = <<>>
  /\ \A k \in 1..n : f[k] = f[k - 1] \o parts[k]

LEMMA JoinedIs ==
  ASSUME NEW parts, NEW n \in Nat, DOMAIN parts = 1..n, NEW f, JoinedTo(parts, n, f)
  PROVE  FoldLeft(\o, <<>>, parts) = f[n]
<1>1. P!Follows(0, <<>>, parts, n, f)  BY DEF P!Follows, JoinNext, JoinedTo
<1>2. P!Fold(0, <<>>, parts) = f[n]  BY <1>1, P!FoldIs
<1>3. FoldLeft(\o, <<>>, parts) = P!Fold(0, <<>>, parts)
  BY Zenon DEF P!Fold, JoinNext, FoldLeft, MapThenFoldSet,
               P!MapThenFoldSet, Max, P!Max
<1> QED BY <1>2, <1>3, Zenon

LEMMA JoinedExists ==
  ASSUME NEW parts, NEW n \in Nat, DOMAIN parts = 1..n,
         \A k \in 1..n : parts[k] \in Seq(CellText)
  PROVE  \E f : JoinedTo(parts, n, f)
<1>1. PICK f : P!IsChain(0, <<>>, parts, n, f)  BY P!FoldIsChain
<1>2. P!Follows(0, <<>>, parts, n, f)  BY <1>1 DEF P!IsChain
<1>3. IsCells(0, 0, <<>>)  BY DEF IsCells
<1>4. P!Preserves(0, parts, n)
  <2> SUFFICES ASSUME NEW k \in 1..n, NEW some, some \in Seq(CellText)
               PROVE  some \o parts[k] \in Seq(CellText)
    BY DEF P!Preserves, JoinNext, IsCells
  <2>1. parts[k] \in Seq(CellText)  OBVIOUS
  <2> QED BY <2>1
<1>5. \A k \in 0..n : IsCells(0, k, f[k])  BY <1>2, <1>3, <1>4, P!ChainKeeps
<1>6. f[0] = <<>> /\ \A k \in 1..n : f[k] = f[k - 1] \o parts[k]
  BY <1>2 DEF P!Follows, JoinNext
<1>7. JoinedTo(parts, n, f)  BY <1>5, <1>6 DEF JoinedTo, Values, IsCells
<1> QED BY <1>7, Zenon

\* A part with nothing in it adds nothing.
LEMMA NoPartInserted ==
  ASSUME NEW s \in Seq(Seq(CellText)), NEW t \in Seq(Seq(CellText)), NEW p,
         HasOneMore(s, t, p, <<>>)
  PROVE  FoldLeft(\o, <<>>, t) = FoldLeft(\o, <<>>, s)
<1> DEFINE n == Len(s)
<1>1. n \in Nat /\ p \in 1..(n + 1) /\ Len(t) = n + 1 /\ t[p] = <<>>
  BY DEF HasOneMore
<1>2. /\ \A j \in 1..(p - 1) : t[j] = s[j]
      /\ \A j \in p..n : t[j + 1] = s[j]
  BY DEF HasOneMore
<1>3. DOMAIN s = 1..n /\ \A j \in 1..n : s[j] \in Seq(CellText)  OBVIOUS
<1>4. n + 1 \in Nat /\ DOMAIN t = 1..(n + 1)  BY <1>1
<1>5. PICK f : JoinedTo(s, n, f)
  <2> HIDE DEF n
  <2>1. n \in Nat  BY <1>1
  <2> QED BY <1>3, <2>1, JoinedExists
<1> HIDE DEF n
<1>6. Values(f, n) /\ f[0] = <<>> /\ \A j \in 1..n : f[j] = f[j - 1] \o s[j]
  BY <1>5 DEF JoinedTo
<1>7. PICK g : StepMore(f, n, p, g)
  <2>1. n \in Nat /\ p \in 1..(n + 1)  BY <1>1
  <2> QED BY <1>6, <2>1, OneStepMore
<1>8. /\ g \in [0..(n + 1) -> Seq(CellText)]
      /\ g[0] = f[0] /\ g[n + 1] = f[n]
      /\ \A j \in 1..(p - 1) : g[j] = f[j] /\ g[j - 1] = f[j - 1]
      /\ g[p] = f[p - 1] /\ g[p - 1] = f[p - 1]
      /\ \A j \in p..n : g[j + 1] = f[j] /\ g[j] = f[j - 1]
  BY <1>7 DEF StepMore
<1>9. ASSUME NEW j \in 1..(n + 1)
      PROVE  g[j] = g[j - 1] \o t[j]
  <2>1. CASE j \in 1..(p - 1)
    <3>1. j \in 1..n  BY <1>1, <2>1
    <3> QED BY <1>2, <1>6, <1>8, <2>1, <3>1
  <2>2. CASE j = p
    <3>1. p - 1 \in 0..(n + 1)  BY <1>1
    <3>2. g[p - 1] \in Seq(CellText)  BY <1>8, <3>1
    <3>3. g[p - 1] \o <<>> = g[p - 1]  BY <3>2
    <3> QED BY <1>1, <1>8, <2>2, <3>3
  <2>3. CASE j - 1 \in p..n /\ (j - 1) + 1 = j
    <3> DEFINE k == j - 1
    <3>1. k \in p..n /\ k + 1 = j /\ k \in 1..n  BY <1>1, <2>3
    <3>2. g[k + 1] = f[k] /\ g[k] = f[k - 1] /\ t[k + 1] = s[k]
      BY <1>2, <1>8, <3>1
    <3>3. f[k] = f[k - 1] \o s[k]  BY <1>6, <3>1
    <3>4. g[j] = g[k] \o t[j]
      <4> HIDE DEF k
      <4> QED BY <3>1, <3>2, <3>3
    <3> QED BY <3>4
  <2> QED BY <1>1, <2>1, <2>2, <2>3, Places
<1>10. JoinedTo(t, n + 1, g)  BY <1>6, <1>8, <1>9 DEF JoinedTo, Values
<1>11. FoldLeft(\o, <<>>, t) = g[n + 1]  BY <1>4, <1>10, JoinedIs
<1>12. FoldLeft(\o, <<>>, s) = f[n]  BY <1>1, <1>3, <1>5, JoinedIs
<1> QED BY <1>8, <1>11, <1>12

\* The texts of a row, cell by cell.
CellTexts(cells) == [c \in DOMAIN cells |-> cells[c].text]
Texts(row) == CellTexts(row.cells)
Parts(rows) == [i \in DOMAIN rows |-> RowTexts(rows[i])]
Joined(rows) == FoldLeft(\o, <<>>, Parts(rows))

LEMMA CellTextsAre ==
  ASSUME NEW cells \in Seq(RichCell)
  PROVE  /\ CellTexts(cells) \in Seq(CellText) /\ Len(CellTexts(cells)) = Len(cells)
         /\ \A c \in 1..Len(cells) : CellTexts(cells)[c] = cells[c].text
<1> DEFINE n == Len(cells)
<1>1. n \in Nat /\ DOMAIN cells = 1..n /\ \A c \in 1..n : cells[c] \in RichCell
  OBVIOUS
<1>2. CellTexts(cells) = [c \in 1..n |-> cells[c].text]  BY <1>1 DEF CellTexts
<1>3. \A c \in 1..n : cells[c].text \in CellText  BY <1>1 DEF RichCell, TidyText
<1> HIDE DEF n
<1>4. CellTexts(cells) \in [1..n -> CellText]  BY <1>2, <1>3
<1>5. CellTexts(cells) \in Seq(CellText) /\ Len(CellTexts(cells)) = n
  BY <1>1, <1>4, FunctionIsSeq
<1>6. \A c \in 1..n : CellTexts(cells)[c] = cells[c].text  BY <1>2
<1> QED BY <1>5, <1>6 DEF n

LEMMA FilledIsSeq ==
  ASSUME NEW cells \in Seq(CellText)
  PROVE  Filled(cells) \in Seq(CellText)
<1>1. PICK f : FilledTo(cells, Len(cells), f)  BY FilledExists
<1>2. Filled(cells) = f[Len(cells)] /\ f \in [0..Len(cells) -> Seq(CellText)]
  BY <1>1, FilledIs DEF FilledTo
<1>3. Len(cells) \in 0..Len(cells)  OBVIOUS
<1> QED BY <1>2, <1>3

LEMMA PartsAre ==
  ASSUME NEW rows \in Seq(RichRow)
  PROVE  /\ Parts(rows) \in Seq(Seq(CellText)) /\ Len(Parts(rows)) = Len(rows)
         /\ \A i \in 1..Len(rows) : Parts(rows)[i] = Filled(CellTexts(rows[i].cells))
<1> DEFINE n == Len(rows)
<1>1. n \in Nat /\ DOMAIN rows = 1..n  OBVIOUS
<1>2. ASSUME NEW i \in 1..n
      PROVE  /\ RowTexts(rows[i]) = Filled(CellTexts(rows[i].cells))
             /\ RowTexts(rows[i]) \in Seq(CellText)
  <2>1. rows[i].cells \in Seq(RichCell)  BY <1>1, RowOfRows
  <2>2. RowTexts(rows[i]) = Filled(CellTexts(rows[i].cells))
    BY DEF RowTexts, CellTexts
  <2> QED BY <2>1, <2>2, CellTextsAre, FilledIsSeq
<1>3. Parts(rows) = [i \in 1..n |-> RowTexts(rows[i])]  BY <1>1 DEF Parts
<1> HIDE DEF n
<1>4. Parts(rows) \in [1..n -> Seq(CellText)]  BY <1>2, <1>3
<1>5. Parts(rows) \in Seq(Seq(CellText)) /\ Len(Parts(rows)) = n
  BY <1>1, <1>4, FunctionIsSeq
<1>6. \A i \in 1..n : Parts(rows)[i] = Filled(CellTexts(rows[i].cells))
  BY <1>2, <1>3
<1> QED BY <1>5, <1>6 DEF n

\* Rows whose texts are the same, one by one.
LEMMA SameParts ==
  ASSUME NEW rows \in Seq(RichRow), NEW new \in Seq(RichRow), Len(new) = Len(rows),
         \A i \in 1..Len(rows) :
           Filled(CellTexts(new[i].cells)) = Filled(CellTexts(rows[i].cells))
  PROVE  Parts(new) = Parts(rows)
<1> DEFINE n == Len(rows)
           a == Parts(rows)
           b == Parts(new)
<1>1. n \in Nat  OBVIOUS
<1>2. a \in Seq(Seq(CellText)) /\ Len(a) = n /\ b \in Seq(Seq(CellText)) /\ Len(b) = n
  BY PartsAre
<1>3. \A i \in 1..n : b[i] = a[i]  BY PartsAre
<1> HIDE DEF a, b, n
<1>4. a = b  BY <1>1, <1>2, <1>3
<1> QED BY <1>4 DEF a, b

\* The spans of the cells say nothing about their texts.
LEMMA SpannedRowsShow ==
  ASSUME NEW rows \in Seq(RichRow)
  PROVE  /\ SpanTableColumns(rows) \in Seq(RichRow) /\ Len(SpanTableColumns(rows)) = Len(rows)
         /\ \A i \in 1..Len(rows) :
              /\ SpanTableColumns(rows)[i].hidden = rows[i].hidden
              /\ Texts(SpanTableColumns(rows)[i]) = Texts(rows[i])
<1> DEFINE n == Len(rows)
           columns == MaxCells(rows)
           new == SpanTableColumns(rows)
<1>1. n \in Nat /\ DOMAIN rows = 1..n  OBVIOUS
<1>2. columns \in Nat /\ \A i \in 1..n : Len(rows[i].cells) =< columns
  BY <1>1, LongestRow
<1>3. new \in Seq(RichRow)  BY RowsAreSpanned
<1>4. new = [i \in 1..n |-> [rows[i] EXCEPT !.cells = SpannedCells(rows[i].cells, columns)]]
  <2>1. \A i \in 1..n : rows[i] \in RichRow  BY <1>1
  <2> QED BY <1>1, <2>1 DEF SpanTableColumns, SpannedCells, RichRow
<1>5. Len(new) = n  BY <1>1, <1>3, <1>4
<1> HIDE DEF n, columns, new
<1>6. ASSUME NEW i \in 1..n
      PROVE  new[i].hidden = rows[i].hidden /\ Texts(new[i]) = Texts(rows[i])
  <2> DEFINE cells == rows[i].cells
             cellsNow == SpannedCells(cells, columns)
  <2>1. rows[i] \in RichRow /\ cells \in Seq(RichCell) /\ Len(cells) =< columns
    BY <1>1, <1>2, RowOfRows
  <2>2. new[i].cells = cellsNow /\ new[i].hidden = rows[i].hidden
    BY <1>4, <2>1 DEF RichRow
  <2> HIDE DEF cells
  <2>3. DOMAIN cells = 1..Len(cells) /\ DOMAIN cellsNow = 1..Len(cells)
    BY <2>1 DEF SpannedCells
  <2>4. \A c \in DOMAIN cells : cellsNow[c].text = cells[c].text
    BY <1>2, <2>1, CellsAreSpanned
  <2> HIDE DEF cellsNow
  <2> QED BY <2>2, <2>3, <2>4 DEF Texts, CellTexts, cells
<1> QED BY <1>3, <1>5, <1>6 DEF new, n

LEMMA SpannedTexts ==
  ASSUME NEW rows \in Seq(RichRow)
  PROVE  Parts(SpanTableColumns(rows)) = Parts(rows)
<1> DEFINE new == SpanTableColumns(rows)
<1>1. /\ new \in Seq(RichRow) /\ Len(new) = Len(rows)
      /\ \A i \in 1..Len(rows) : Texts(new[i]) = Texts(rows[i])
  BY SpannedRowsShow
<1> HIDE DEF new
<1>2. \A i \in 1..Len(rows) : Filled(CellTexts(new[i].cells)) = Filled(CellTexts(rows[i].cells))
  BY <1>1 DEF Texts
<1> QED BY <1>1, <1>2, SameParts DEF new

LEMMA SplicedTexts ==
  ASSUME NEW cells \in Seq(RichCell), NEW p \in 1..(Len(cells) + 1)
  PROVE  Filled(CellTexts(Spliced(cells, p))) = Filled(CellTexts(cells))
<1> DEFINE n == Len(cells)
           new == Spliced(cells, p)
           s == CellTexts(cells)
           t == CellTexts(new)
<1>1. n \in Nat  OBVIOUS
<1>2. new \in Seq(RichCell)  BY CellSpliced
<1>3. HasOneMore(cells, new, p, Cell(<<>>))
  BY EmptyCell, InsertionOpens DEF Spliced
<1>4. /\ p \in 1..(n + 1) /\ Len(new) = n + 1
      /\ \A j \in 1..(p - 1) : new[j] = cells[j]
      /\ new[p] = Cell(<<>>)
      /\ \A j \in p..n : new[j + 1] = cells[j]
  BY <1>3 DEF HasOneMore
<1>5. Cell(<<>>).text = <<>>  BY DEF Cell
<1>6. s \in Seq(CellText) /\ Len(s) = n /\ \A c \in 1..n : s[c] = cells[c].text
  BY CellTextsAre
<1>7. /\ t \in Seq(CellText) /\ Len(t) = Len(new)
      /\ \A c \in 1..Len(new) : t[c] = new[c].text
  BY <1>2, CellTextsAre
<1> HIDE DEF s, t, new, n
<1>8. ASSUME NEW j \in 1..(p - 1)
      PROVE  t[j] = s[j]
  <2>1. j \in 1..n /\ j \in 1..(n + 1)  BY <1>1, <1>4
  <2> QED BY <1>4, <1>6, <1>7, <2>1
<1>9. t[p] = <<>>  BY <1>4, <1>5, <1>7
<1>10. ASSUME NEW j \in p..n
       PROVE  t[j + 1] = s[j]
  <2>1. j \in 1..n /\ j + 1 \in 1..(n + 1)  BY <1>1, <1>4
  <2> QED BY <1>4, <1>6, <1>7, <2>1
<1>11. HasOneMore(s, t, p, <<>>)
  BY <1>4, <1>6, <1>7, <1>8, <1>9, <1>10 DEF HasOneMore
<1>12. Filled(t) = Filled(s)  BY <1>6, <1>7, <1>11, NoTextInserted
<1> QED BY <1>12 DEF s, t, new

LEMMA CellInsertionKeepsTexts ==
  ASSUME NEW rows \in Seq(RichRow), NEW i \in DOMAIN rows,
         NEW c \in DOMAIN rows[i].cells, NEW after \in BOOLEAN
  PROVE  Parts(InsertTableCell(rows, i, c, after)) = Parts(rows)
<1> DEFINE cells == rows[i].cells
           k == IF after THEN c + 1 ELSE c
           row == [rows[i] EXCEPT !.cells = Spliced(cells, k)]
           new == [rows EXCEPT ![i] = row]
<1>1. rows[i] \in RichRow /\ cells \in Seq(RichCell) /\ k \in 1..(Len(cells) + 1)
  BY RowOfRows
<1>2. Spliced(cells, k) \in Seq(RichCell)  BY <1>1, CellSpliced
<1>3. row \in RichRow  BY <1>1, <1>2, RowWithCells
<1>4. InsertTableCell(rows, i, c, after) = SpanTableColumns(new)
  BY DEF InsertTableCell
<1>5. row.cells = Spliced(cells, k)  BY <1>1 DEF RichRow
<1>6. Filled(CellTexts(row.cells)) = Filled(CellTexts(cells))
  <2> HIDE DEF row, cells, k
  <2> QED BY <1>1, <1>5, SplicedTexts
<1> HIDE DEF row
<1>7. new \in Seq(RichRow) /\ Len(new) = Len(rows)  BY <1>3
<1>8. \A j \in 1..Len(rows) : new[j] = IF j = i THEN row ELSE rows[j]  OBVIOUS
<1> HIDE DEF new
<1>9. \A j \in 1..Len(rows) :
        Filled(CellTexts(new[j].cells)) = Filled(CellTexts(rows[j].cells))
  BY <1>6, <1>8
<1>10. Parts(new) = Parts(rows)  BY <1>7, <1>9, SameParts
<1> QED BY <1>4, <1>7, <1>10, SpannedTexts

LEMMA ColumnInsertionKeepsTexts ==
  ASSUME NEW rows \in Seq(RichRow), NEW c \in Nat \ {0}, NEW after \in BOOLEAN
  PROVE  Parts(InsertTableColumn(rows, c, after)) = Parts(rows)
<1> DEFINE n == Len(rows)
           k == IF after THEN c + 1 ELSE c
           place(j) == IF k =< Len(rows[j].cells) THEN k ELSE Len(rows[j].cells) + 1
           row(j) ==
             IF j = 1 THEN rows[j]
             ELSE [rows[j] EXCEPT !.cells = Spliced(rows[j].cells, place(j))]
           new == [j \in 1..n |-> row(j)]
<1>1. n \in Nat /\ DOMAIN rows = 1..n /\ k \in Nat \ {0}  OBVIOUS
<1>2. InsertTableColumn(rows, c, after) = SpanTableColumns(new)
  BY <1>1 DEF InsertTableColumn
<1> HIDE DEF k, n
<1>3. ASSUME NEW j \in 1..n
      PROVE  /\ row(j) \in RichRow
             /\ Filled(CellTexts(row(j).cells)) = Filled(CellTexts(rows[j].cells))
  <2> DEFINE cells == rows[j].cells
             p == place(j)
             other == [rows[j] EXCEPT !.cells = Spliced(cells, p)]
  <2>1. rows[j] \in RichRow /\ cells \in Seq(RichCell)  BY <1>1, RowOfRows
  <2>2. p \in 1..(Len(cells) + 1)
    <3>1. Len(cells) \in Nat  BY <2>1
    <3> HIDE DEF cells
    <3>2. p = IF k =< Len(cells) THEN k ELSE Len(cells) + 1  BY DEF cells
    <3> HIDE DEF p
    <3> QED BY <1>1, <3>1, <3>2
  <2>3. row(j) = IF j = 1 THEN rows[j] ELSE other  OBVIOUS
  <2> HIDE DEF p, row
  <2>4. Spliced(cells, p) \in Seq(RichCell)  BY <2>1, <2>2, CellSpliced
  <2>5. other \in RichRow  BY <2>1, <2>4, RowWithCells
  <2>6. other.cells = Spliced(cells, p)  BY <2>1 DEF RichRow
  <2>7. Filled(CellTexts(other.cells)) = Filled(CellTexts(cells))
    <3> HIDE DEF other, cells
    <3> QED BY <2>1, <2>2, <2>6, SplicedTexts
  <2> HIDE DEF other
  <2> QED BY <2>1, <2>3, <2>5, <2>7
<1> HIDE DEF row
<1>4. new \in [1..n -> RichRow]  BY <1>3
<1>5. \A j \in 1..n : new[j] = row(j)  OBVIOUS
<1> HIDE DEF new
<1>6. new \in Seq(RichRow) /\ Len(new) = n  BY <1>1, <1>4, FunctionIsSeq
<1>7. \A j \in 1..n : Filled(CellTexts(new[j].cells)) = Filled(CellTexts(rows[j].cells))
  BY <1>3, <1>5
<1>8. Parts(new) = Parts(rows)  BY <1>6, <1>7, SameParts DEF n
<1> QED BY <1>2, <1>6, <1>8, SpannedTexts

LEMMA RowInsertionKeepsTexts ==
  ASSUME NEW rows \in Seq(RichRow), NEW i \in DOMAIN rows, NEW after \in BOOLEAN
  PROVE  Joined(InsertTableRow(rows, i, after)) = Joined(rows)
<1> DEFINE n == Len(rows)
           m == Len(rows[i].cells)
           cells == [c \in DOMAIN rows[i].cells |-> Cell(<<>>)]
           k == IF after THEN i + 1 ELSE i
           row == Row(FALSE, cells)
           new == InsertAt(rows, k, row)
           s == Parts(rows)
           t == Parts(new)
<1>1. n \in Nat /\ k \in 1..(n + 1)  OBVIOUS
<1>2. m \in Nat /\ DOMAIN rows[i].cells = 1..m  BY RowOfRows
<1>3. cells = [c \in 1..m |-> Cell(<<>>)]  BY <1>2
<1>4. cells \in [1..m -> RichCell] /\ \A c \in 1..m : cells[c] = Cell(<<>>)
  BY <1>3, EmptyCell
<1>5. InsertTableRow(rows, i, after) = SpanTableColumns(new)
  BY DEF InsertTableRow
<1> HIDE DEF cells, m, k
<1>6. cells \in Seq(RichCell) /\ Len(cells) = m  BY <1>2, <1>4, FunctionIsSeq
<1>7. row \in RichRow /\ row.cells = cells  BY <1>6 DEF RichRow, Row
<1>8. Filled(CellTexts(cells)) = <<>>
  <2> DEFINE words == CellTexts(cells)
  <2>1. words \in Seq(CellText) /\ Len(words) = m /\ \A c \in 1..m : words[c] = cells[c].text
    BY <1>6, CellTextsAre
  <2>2. Cell(<<>>).text = <<>>  BY DEF Cell
  <2>3. \A c \in 1..m : words[c] = <<>>  BY <1>4, <2>1, <2>2
  <2> HIDE DEF words
  <2>4. Filled(words) = <<>>  BY <2>1, <2>3, NothingFilled
  <2> QED BY <2>4 DEF words
<1> HIDE DEF row
<1>9. new \in Seq(RichRow)  BY <1>1, <1>7, Inserted
<1>10. HasOneMore(rows, new, k, row)  BY <1>1, <1>7, InsertionOpens
<1>11. /\ Len(new) = n + 1 /\ new[k] = row
       /\ \A j \in 1..(k - 1) : new[j] = rows[j]
       /\ \A j \in k..n : new[j + 1] = rows[j]
  BY <1>10 DEF HasOneMore
<1>12. /\ s \in Seq(Seq(CellText)) /\ Len(s) = n
       /\ \A j \in 1..n : s[j] = Filled(CellTexts(rows[j].cells))
  BY PartsAre
<1>13. /\ t \in Seq(Seq(CellText)) /\ Len(t) = Len(new)
       /\ \A j \in 1..Len(new) : t[j] = Filled(CellTexts(new[j].cells))
  BY <1>9, PartsAre
<1> HIDE DEF s, t, new, n
<1>14. ASSUME NEW j \in 1..(k - 1)
       PROVE  t[j] = s[j]
  <2>1. j \in 1..n /\ j \in 1..(n + 1)  BY <1>1
  <2> QED BY <1>11, <1>12, <1>13, <2>1
<1>15. t[k] = <<>>  BY <1>1, <1>7, <1>8, <1>11, <1>13
<1>16. ASSUME NEW j \in k..n
       PROVE  t[j + 1] = s[j]
  <2>1. j \in 1..n /\ j + 1 \in 1..(n + 1)  BY <1>1
  <2> QED BY <1>11, <1>12, <1>13, <2>1
<1>17. HasOneMore(s, t, k, <<>>)
  BY <1>1, <1>11, <1>12, <1>13, <1>14, <1>15, <1>16 DEF HasOneMore
<1>18. FoldLeft(\o, <<>>, t) = FoldLeft(\o, <<>>, s)
  BY <1>12, <1>13, <1>17, NoPartInserted
<1>19. Parts(SpanTableColumns(new)) = t  BY <1>9, SpannedTexts DEF t
<1>20. Parts(InsertTableRow(rows, i, after)) = t  BY <1>5, <1>19
<1> QED BY <1>18, <1>20, Zenon DEF s, Joined

-----------------------------------------------------------------------------
(* Tables that go to a spreadsheet and come back *)

\* A text that is fit for a spreadsheet, with the empty line at its end.
Carriable(wiki) ==
  \A i \in 1..Len(wiki) :
    /\ IsRow(wiki[i]) =>
         /\ i < Len(wiki)
         /\ wiki[i].cells # <<>> /\ wiki[i].suffix = <<>> /\ Last(wiki[i].cells) # <<>>
         /\ i > 1 => IsRow(wiki[i - 1]) \/ wiki[i - 1] = Blank
    /\ ~IsRow(wiki[i]) => wiki[i].suffix \notin Qualified \cup {Mark(m) : m \in Marks \ {""}}

LEMMA ListedMarks ==
  /\ Marks \ {""} = {"!", "-", "-!"} /\ "" \in Marks
  /\ \A m \in {"!", "-", "-!"} : m \in Marks /\ m # ""
  /\ Mark("") = <<>>
  /\ \A m \in Marks : Mark(m) = <<>> <=> m = ""
<1>1. Marks \ {""} = {"!", "-", "-!"} /\ "" \in Marks  BY DEF Marks
<1>2. \A m \in {"!", "-", "-!"} : m \in Marks /\ m # ""  BY DEF Marks
<1>3. /\ Mark("") = <<>> /\ Mark("!") = <<"!">> /\ Mark("-") = <<"-">>
      /\ Mark("-!") = <<"-", "!">>
  BY DEF Mark
<1>4. /\ <<"!">> # <<>> /\ <<"-">> # <<>> /\ <<"-", "!">> # <<>>  OBVIOUS
<1>5. \A m \in Marks : Mark(m) = <<>> <=> m = ""  BY <1>1, <1>2, <1>3, <1>4
<1> QED BY <1>1, <1>2, <1>3, <1>5

\* No two marks are written alike.
LEMMA MarksDiffer == \A m, k \in Marks : Mark(m) = Mark(k) => m = k
<1>1. Marks = {"", "!", "-", "-!"}  BY DEF Marks
<1>2. /\ Mark("") = <<>> /\ Mark("!") = <<"!">> /\ Mark("-") = <<"-">>
      /\ Mark("-!") = <<"-", "!">>
  BY DEF Mark
<1>3. /\ Len(<<>>) = 0 /\ Len(<<"!">>) = 1 /\ Len(<<"-">>) = 1 /\ Len(<<"-", "!">>) = 2
      /\ <<"!">> # <<"-">>
  <2>1. "!" # "-"  OBVIOUS
  <2>2. <<"!">>[1] = "!" /\ <<"-">>[1] = "-"  OBVIOUS
  <2> QED BY <2>1, <2>2
<1>4. /\ <<>> # <<"!">> /\ <<>> # <<"-">> /\ <<>> # <<"-", "!">>
      /\ <<"!">> # <<"-", "!">> /\ <<"-">> # <<"-", "!">>
  BY <1>3
<1> SUFFICES ASSUME NEW m \in Marks, NEW k \in Marks, Mark(m) = Mark(k)
             PROVE  m = k
  OBVIOUS
<1>5. k = "" \/ k = "!" \/ k = "-" \/ k = "-!"  BY <1>1
<1>6. CASE m = ""  BY <1>2, <1>4, <1>5, <1>6
<1>7. CASE m = "!"  BY <1>2, <1>3, <1>4, <1>5, <1>7
<1>8. CASE m = "-"  BY <1>2, <1>3, <1>4, <1>5, <1>8
<1>9. CASE m = "-!"  BY <1>2, <1>4, <1>5, <1>9
<1> QED BY <1>1, <1>6, <1>7, <1>8, <1>9

\* The row of the spreadsheet that a table row becomes.
LEMMA RowIsCarried ==
  ASSUME NEW wiki \in Seq(WikiLine), Carriable(wiki), NEW i \in 1..Len(wiki), IsRow(wiki[i]),
         NEW row, row = ToSpreadsheet(wiki)[i]
  PROVE  /\ row \in Seq(CellText) /\ Len(row) = 1 + Len(wiki[i].cells)
         /\ row[1] = Mark(wiki[i].mark) /\ wiki[i].mark \in Marks
         /\ LineSize(row) = Len(row) /\ LineSize(row) > 1
         /\ SubSeq(row, 2, Len(row)) = wiki[i].cells
<1> DEFINE cells == wiki[i].cells
           mark == Mark(wiki[i].mark)
           n == Len(cells)
<1>1. wiki[i] \in WikiLine /\ Len(wiki) \in Nat /\ i \in DOMAIN wiki  OBVIOUS
<1>2. cells \in Seq(CellText) /\ wiki[i].mark \in Marks  BY <1>1, RowOfText
<1>3. mark \in CellText  BY <1>2, MarkIsText
<1>4. cells # <<>> /\ wiki[i].suffix = <<>> /\ Last(cells) # <<>> /\ i < Len(wiki)
  BY DEF Carriable
<1>5. row = <<mark>> \o cells  BY <1>1, <1>4 DEF ToSpreadsheet
<1> HIDE DEF mark
<1>6. n \in Nat /\ n # 0 /\ cells[n] # <<>>  BY <1>2, <1>4 DEF Last
<1> HIDE DEF cells
<1>7. /\ row \in Seq(CellText) /\ Len(row) = 1 + n
      /\ row[1] = mark /\ \A k \in 1..n : row[k + 1] = cells[k]
  BY <1>2, <1>3, <1>5, Prepended
<1>8. row[n + 1] # <<>> /\ n + 1 \in 1..Len(row) /\ Len(row) \in Nat
  <2>1. n \in 1..n  BY <1>6
  <2> QED BY <1>6, <1>7, <2>1
<1>9. LineSize(row) = Len(row) /\ LineSize(row) > 1
  <2>1. /\ LineSize(row) \in 0..Len(row)
        /\ \A k \in 1..Len(row) : k > LineSize(row) => row[k] = <<>>
    BY <1>7, LineSizeIs
  <2>2. ~(n + 1 > LineSize(row))  BY <1>8, <2>1
  <2> QED BY <1>6, <1>7, <2>1, <2>2
<1>10. SubSeq(row, 2, Len(row)) = cells
  <2> DEFINE part == SubSeq(row, 2, Len(row))
  <2>1. 2 \in 1..(Len(row) + 1) /\ Len(row) \in (2 - 1)..Len(row) /\ Len(row) - 2 + 1 = n
    BY <1>6, <1>7
  <2>2. /\ part \in Seq(CellText) /\ Len(part) = Len(row) - 2 + 1
        /\ \A k \in 1..(Len(row) - 2 + 1) : part[k] = row[2 + k - 1]
    BY <1>7, <2>1, PartIsSeq
  <2> HIDE DEF part
  <2>3. \A k \in 1..n : 2 + k - 1 = k + 1  BY <1>6
  <2>4. Len(part) = n /\ \A k \in 1..n : part[k] = cells[k]
    BY <1>7, <2>1, <2>2, <2>3
  <2> QED BY <1>2, <2>2, <2>4, SameElements DEF n, part
<1> QED BY <1>2, <1>7, <1>9, <1>10 DEF mark, cells, n

\* The row that any other line becomes.
LEMMA ProseIsCarried ==
  ASSUME NEW wiki \in Seq(WikiLine), NEW i \in 1..Len(wiki), ~IsRow(wiki[i]),
         NEW row, row = ToSpreadsheet(wiki)[i]
  PROVE  /\ row \in Seq(CellText) /\ row = <<wiki[i].suffix>> /\ row[1] = wiki[i].suffix
         /\ LineSize(row) \in 0..1 /\ (LineSize(row) = 0 <=> wiki[i].suffix = <<>>)
<1> DEFINE suffix == wiki[i].suffix
<1>1. wiki[i] \in WikiLine /\ i \in DOMAIN wiki  OBVIOUS
<1>2. suffix \in CellText  BY <1>1, RowOfText
<1>3. row = <<suffix>>  BY <1>1 DEF ToSpreadsheet
<1> HIDE DEF suffix
<1>4. row \in Seq(CellText) /\ Len(row) = 1 /\ row[1] = suffix  BY <1>2, <1>3
<1>5. /\ LineSize(row) \in 0..1
      /\ \A k \in 1..1 : k > LineSize(row) => row[k] = <<>>
      /\ LineSize(row) # 0 => row[LineSize(row)] # <<>>
  BY <1>4, LineSizeIs
<1>6. 1 \in 1..1 /\ (LineSize(row) = 0 \/ LineSize(row) = 1)  BY <1>5
<1>7. LineSize(row) = 0 => suffix = <<>>  BY <1>4, <1>5, <1>6
<1>8. LineSize(row) # 0 => suffix # <<>>  BY <1>4, <1>5, <1>6
<1> QED BY <1>3, <1>4, <1>5, <1>7, <1>8 DEF suffix

\* The lines have the marks and the cells of the text from line i on.
Matches(wiki, i, lines) ==
  \A k \in 1..Len(lines) :
    /\ lines[k].mark = wiki[i + k - 1].mark
    /\ IsRow(wiki[i + k - 1]) => lines[k].cells = wiki[i + k - 1].cells

\* A table of the spreadsheet has the rows of the table that it was.
LEMMA TableIsCarried ==
  ASSUME NEW wiki \in Seq(WikiLine), Carriable(wiki), NEW i \in 1..Len(wiki), IsRow(wiki[i]),
         NEW rows, rows = ToSpreadsheet(wiki)
  PROVE  Matches(wiki, i, ProcessTable(rows, i, 1, wiki[i].mark))
<1> DEFINE mark == wiki[i].mark
           last == LastLine(rows, i, 1)
           n == last - i + 1
           line(k) ==
             TableRow(IF k = 1 THEN mark ELSE "",
                      SubSeq(rows[i + k - 1], 1 + 1, Width(rows, i, i + k - 1)), <<>>)
           lines == [k \in 1..n |-> line(k)]
<1>1. rows \in Seq(SheetRow)  BY SpreadsheetsAreMade
<1>2. Len(rows) = Len(wiki) /\ DOMAIN rows = 1..Len(wiki) /\ Len(wiki) \in Nat
  BY <1>1 DEF ToSpreadsheet
<1>3. last \in i..Len(rows) /\ \A j \in (i + 1)..last : ~IsNotTableLine(rows[j], 1)
  BY <1>1, <1>2, LastLineIs
<1>4. ProcessTable(rows, i, 1, mark) = lines  BY DEF ProcessTable
<1> HIDE DEF last
<1>5. n \in Nat /\ n # 0  BY <1>2, <1>3
<1>6. ASSUME NEW k \in 1..n, NEW j, j = i + k - 1
      PROVE  /\ line(k).mark = wiki[j].mark
             /\ IsRow(wiki[j]) /\ line(k).cells = wiki[j].cells
  <2> DEFINE row == rows[j]
  <2>1. j \in 1..Len(wiki) /\ j \in i..Len(rows) /\ (k = 1 <=> j = i)
    BY <1>2, <1>3, <1>6
  <2>2. IsRow(wiki[j]) /\ (k # 1 => wiki[j].mark = "")
    <3>1. CASE k = 1  BY <2>1, <3>1
    <3>2. CASE k # 1
      <4>1. j \in (i + 1)..last  BY <1>2, <1>3, <1>6, <3>2
      <4>2. ~IsNotTableLine(row, 1)  BY <1>3, <4>1
      <4>3. 1 \in 1..1  OBVIOUS
      <4>4. LineSize(row) # 0 /\ row[1] = <<>>  BY <4>2, <4>3 DEF IsNotTableLine
      <4>5. IsRow(wiki[j])
        <5> SUFFICES ASSUME ~IsRow(wiki[j])
                     PROVE  FALSE
          OBVIOUS
        <5>1. row[1] = wiki[j].suffix /\ (LineSize(row) = 0 <=> wiki[j].suffix = <<>>)
          BY <2>1, ProseIsCarried
        <5> QED BY <4>4, <5>1
      <4>6. row[1] = Mark(wiki[j].mark) /\ wiki[j].mark \in Marks
        BY <2>1, <4>5, RowIsCarried
      <4> QED BY <4>4, <4>5, <4>6, ListedMarks
    <3> QED BY <3>1, <3>2
  <2>3. /\ row \in Seq(CellText) /\ Len(row) \in Nat
        /\ LineSize(row) = Len(row)
        /\ SubSeq(row, 2, Len(row)) = wiki[j].cells
    <3>1. row = ToSpreadsheet(wiki)[j]  OBVIOUS
    <3> HIDE DEF row
    <3>2. /\ row \in Seq(CellText) /\ LineSize(row) = Len(row)
          /\ SubSeq(row, 2, Len(row)) = wiki[j].cells
      BY <2>1, <2>2, <3>1, RowIsCarried
    <3>3. Len(row) \in Nat  BY <3>2
    <3> QED BY <3>2, <3>3
  <2>4. Width(rows, i, j) = Len(row)
    <3>1. Width(rows, i, j) \in LineSize(row)..Len(row)
      BY <1>1, <1>2, <2>1, WidthIs
    <3> QED BY <2>3, <3>1
  <2> DEFINE m == IF k = 1 THEN mark ELSE ""
  <2>5. m = wiki[j].mark  BY <2>1, <2>2
  <2>6. line(k) = TableRow(m, wiki[j].cells, <<>>)
    <3>1. 1 + 1 = 2  OBVIOUS
    <3>2. line(k) = TableRow(m, SubSeq(row, 1 + 1, Width(rows, i, j)), <<>>)
      BY <1>6
    <3> QED BY <2>3, <2>4, <3>1, <3>2
  <2> HIDE DEF line, m
  <2>7. line(k).mark = m /\ line(k).cells = wiki[j].cells  BY <2>6 DEF TableRow
  <2> QED BY <2>2, <2>5, <2>7
<1> HIDE DEF line, n
<1>7. lines \in [1..n -> {line(k) : k \in 1..n}] /\ \A k \in 1..n : lines[k] = line(k)
  OBVIOUS
<1> HIDE DEF lines
<1>8. Len(lines) = n  BY <1>5, <1>7, FunctionIsSeq
<1>9. \A k \in 1..n : /\ lines[k].mark = wiki[i + k - 1].mark
                      /\ lines[k].cells = wiki[i + k - 1].cells
  BY <1>6, <1>7
<1> QED BY <1>4, <1>8, <1>9 DEF Matches

\* A line of prose is not taken for the start of a table.
LEMMA ProseStartsNothing ==
  ASSUME NEW wiki \in Seq(WikiLine), Carriable(wiki), NEW i \in 1..Len(wiki), ~IsRow(wiki[i]),
         NEW rows, rows = ToSpreadsheet(wiki)
  PROVE  ~IsMarked(rows[i]) /\ ~IsImplicitTableStart(rows, i)
<1>1. rows \in Seq(SheetRow)  BY SpreadsheetsAreMade
<1>2. Len(rows) = Len(wiki) /\ DOMAIN rows = 1..Len(wiki) /\ Len(wiki) \in Nat
  BY <1>1 DEF ToSpreadsheet
<1>3. rows[i][1] = wiki[i].suffix /\ LineSize(rows[i]) \in 0..1
  BY ProseIsCarried
<1>4. wiki[i].suffix \notin Qualified /\ wiki[i].suffix \notin {Mark(m) : m \in Marks \ {""}}
  BY DEF Carriable
<1>5. ~IsMarked(rows[i])
  <2>1. \A m \in {"!", "-", "-!"} : Mark(m) \in {Mark(k) : k \in Marks \ {""}}
    BY ListedMarks
  <2> QED BY <1>3, <1>4, <2>1 DEF IsMarked
<1>6. ASSUME NEW k \in i..Len(rows), LineSize(rows[k]) > 1,
             \A j \in i..k : LineSize(rows[j]) # 0
      PROVE  FALSE
  <2> DEFINE s == {j \in i..k : IsRow(wiki[j])}
  <2>1. k \in 1..Len(wiki) /\ i \in Nat /\ k \in Nat  BY <1>2
  <2>2. IsRow(wiki[k])
    <3> SUFFICES ASSUME ~IsRow(wiki[k])
                 PROVE  FALSE
      OBVIOUS
    <3>1. LineSize(rows[k]) \in 0..1  BY <2>1, ProseIsCarried
    <3> QED BY <1>6, <3>1
  <2>3. s \in SUBSET Nat /\ k \in s  BY <2>1, <2>2
  <2>4. Min(s) \in s /\ \A y \in s : Min(s) =< y  BY <2>3, MinOf
  <2> DEFINE m == Min(s)
  <2>5. m \in i..k /\ IsRow(wiki[m]) /\ m # i  BY <2>4
  <2> HIDE DEF m
  <2>6. m - 1 \in i..k /\ m > 1 /\ m \in 1..Len(wiki) /\ ~(m =< m - 1)
    BY <1>2, <2>1, <2>5
  <2>7. ~IsRow(wiki[m - 1])  BY <2>4, <2>6 DEF m
  <2>8. wiki[m - 1] = Blank  BY <2>5, <2>6, <2>7 DEF Carriable
  <2>9. m - 1 \in 1..Len(wiki) /\ wiki[m - 1].suffix = <<>>
    BY <1>2, <2>1, <2>6, <2>8 DEF Blank, Line, TableRow
  <2>10. LineSize(rows[m - 1]) = 0  BY <2>7, <2>9, ProseIsCarried
  <2> QED BY <1>6, <2>6, <2>10
<1>7. ~IsImplicitTableStart(rows, i)
  BY <1>3, <1>4, <1>6 DEF IsImplicitTableStart
<1> QED BY <1>5, <1>7

\* What comes of a row of the spreadsheet is the text from there on.
LEMMA RowsAreCarried ==
  ASSUME NEW wiki \in Seq(WikiLine), Carriable(wiki), NEW i \in 1..Len(wiki),
         NEW rows, rows = ToSpreadsheet(wiki)
  PROVE  Matches(wiki, i, LinesFrom(rows, i))
<1> DEFINE row == rows[i]
           mark == wiki[i].mark
<1>1. rows \in Seq(SheetRow)  BY SpreadsheetsAreMade
<1>2. Len(rows) = Len(wiki) /\ DOMAIN rows = 1..Len(wiki) /\ Len(wiki) \in Nat
  BY <1>1 DEF ToSpreadsheet
<1>3. CASE IsRow(wiki[i])
  <2>1. row[1] = Mark(mark) /\ mark \in Marks /\ LineSize(row) > 1 /\ LineSize(row) # 0
    <3>1. row[1] = Mark(mark) /\ mark \in Marks /\ LineSize(row) > 1 /\ row \in Seq(CellText)
      BY <1>3, RowIsCarried
    <3>2. LineSize(row) \in 0..Len(row)  BY <3>1, LineSizeIs
    <3>3. LineSize(row) # 0  BY <3>1, <3>2
    <3> QED BY <3>1, <3>3
  <2>2. LinesFrom(rows, i) = ProcessTable(rows, i, 1, mark)
    <3> HIDE DEF row, mark
    <3>1. CASE mark # ""
      <4>1. mark \in {"!", "-", "-!"}  BY <2>1, <3>1, ListedMarks
      <4>2. IsMarked(row)  BY <2>1, <4>1 DEF IsMarked
      <4>3. (CHOOSE m \in Marks : Mark(m) = row[1]) = mark
        <5>1. \A m \in Marks : Mark(m) = row[1] <=> m = mark
          BY <2>1, MarksDiffer
        <5> QED BY <2>1, <5>1
      <4> QED BY <4>2, <4>3 DEF LinesFrom, row
    <3>2. CASE mark = ""
      <4>1. row[1] = <<>>  BY <2>1, <3>2, ListedMarks
      <4>2. ~IsMarked(row) /\ row[1] # Mark("!")
        <5>1. \A m \in {"!", "-", "-!"} : Mark(m) # <<>>  BY ListedMarks
        <5> QED BY <4>1, <5>1 DEF IsMarked
      <4>3. i \in i..Len(rows) /\ \A j \in i..i : j = i  BY <1>2
      <4>4. \A j \in i..i : rows[j][1] # Mark("!") /\ LineSize(rows[j]) # 0
        BY <2>1, <4>2, <4>3 DEF row
      <4>5. IsImplicitTableStart(rows, i)
        BY <2>1, <4>3, <4>4 DEF IsImplicitTableStart, row
      <4> QED BY <3>2, <4>1, <4>2, <4>5 DEF LinesFrom, row
    <3> QED BY <3>1, <3>2
  <2> QED BY <1>3, <2>2, TableIsCarried
<1>4. CASE ~IsRow(wiki[i])
  <2> DEFINE line == Line(row[1])
             lines == <<line>>
  <2>1. ~IsMarked(row) /\ ~IsImplicitTableStart(rows, i)
    BY <1>4, ProseStartsNothing
  <2>2. LinesFrom(rows, i) = lines  BY <2>1 DEF LinesFrom
  <2>3. line.mark = Prose  BY DEF Line, TableRow
  <2> HIDE DEF line
  <2>4. Len(lines) = 1 /\ lines[1] = line  OBVIOUS
  <2> HIDE DEF lines, row
  <2>5. wiki[i].mark = Prose  BY <1>4 DEF IsRow
  <2>6. \A k \in 1..Len(lines) : k = 1 /\ i + k - 1 = i  BY <2>4
  <2>7. Matches(wiki, i, lines)  BY <1>4, <2>3, <2>4, <2>5, <2>6 DEF Matches
  <2> QED BY <2>2, <2>7
<1> QED BY <1>3, <1>4

\* The lines so far are those of the text, and there are as many as rows were read.
CarriedTo(wiki, k, lines) ==
  /\ lines \in Seq(WikiLine) /\ Len(lines) \in k..Len(wiki)
  /\ Matches(wiki, 1, lines)

CarryNext(wiki, lines, i) == ProcessRow(ToSpreadsheet(wiki), lines, i)

Carrying == INSTANCE Folding WITH Op <- CarryNext, Inv <- CarriedTo

LEMMA NextIsCarried ==
  ASSUME NEW wiki \in Seq(WikiLine), Carriable(wiki), NEW k \in 1..Len(wiki), NEW lines,
         CarriedTo(wiki, k - 1, lines)
  PROVE  CarriedTo(wiki, k, CarryNext(wiki, lines, k))
<1> DEFINE rows == ToSpreadsheet(wiki)
           more == LinesFrom(rows, k)
           n == Len(wiki)
           a == Len(lines)
           b == Len(more)
           all == lines \o more
<1>1. /\ lines \in Seq(WikiLine) /\ n \in Nat /\ a \in Nat /\ a \in (k - 1)..n /\ k \in 1..n
      /\ Matches(wiki, 1, lines)
  BY DEF CarriedTo
<1>2. rows \in Seq(SheetRow) /\ Len(rows) = n /\ DOMAIN rows = 1..n
  <2>1. rows \in Seq(SheetRow)  BY SpreadsheetsAreMade
  <2> QED BY <2>1 DEF ToSpreadsheet
<1>3. CarryNext(wiki, lines, k) = IF k =< a THEN lines ELSE all
  BY DEF CarryNext, ProcessRow
<1>4. Matches(wiki, k, more)  BY RowsAreCarried
<1>5. more \in Seq(WikiLine) /\ b \in 1..(n - k + 1)
  <2>1. KeepsRows(rows, k, more)  BY <1>2, RowsKept
  <2> QED BY <1>2, <2>1 DEF KeepsRows
<1> HIDE DEF rows, more, n, all
<1>6. CASE k =< a
  <2>1. a \in k..n
    <3> HIDE DEF a
    <3> QED BY <1>1, <1>6
  <2> QED BY <1>1, <1>3, <1>6, <2>1 DEF CarriedTo, n
<1>7. CASE ~(k =< a)
  <2>1. /\ all \in Seq(WikiLine) /\ Len(all) = a + b
        /\ \A i \in 1..a : all[i] = lines[i]
        /\ \A j \in 1..b : all[a + j] = more[j]
    BY <1>1, <1>5, Concatenated DEF all
  <2>2. /\ \A i \in 1..a : /\ lines[i].mark = wiki[1 + i - 1].mark
                           /\ IsRow(wiki[1 + i - 1]) => lines[i].cells = wiki[1 + i - 1].cells
        /\ \A j \in 1..b : /\ more[j].mark = wiki[k + j - 1].mark
                           /\ IsRow(wiki[k + j - 1]) => more[j].cells = wiki[k + j - 1].cells
    BY <1>1, <1>4 DEF Matches
  <2> HIDE DEF a, b
  <2>3. a = k - 1 /\ b \in Nat /\ a + b \in k..n  BY <1>1, <1>5, <1>7
  <2>4. ASSUME NEW i \in 1..(a + b)
        PROVE  /\ all[i].mark = wiki[1 + i - 1].mark
               /\ IsRow(wiki[1 + i - 1]) => all[i].cells = wiki[1 + i - 1].cells
    <3>1. CASE i =< a
      <4>1. i \in 1..a  BY <1>1, <3>1
      <4>2. all[i] = lines[i]  BY <2>1, <4>1
      <4> QED BY <2>2, <4>1, <4>2
    <3>2. CASE ~(i =< a)
      <4> DEFINE j == i - a
      <4>1. j \in 1..b /\ a + j = i /\ k + j - 1 = i /\ 1 + i - 1 = i
        BY <1>1, <2>3, <3>2
      <4> HIDE DEF j
      <4>2. all[i] = more[j]  BY <2>1, <4>1
      <4>3. /\ more[j].mark = wiki[i].mark
            /\ IsRow(wiki[i]) => more[j].cells = wiki[i].cells
        BY <2>2, <4>1
      <4> QED BY <4>1, <4>2, <4>3
    <3> QED BY <3>1, <3>2
  <2>5. Matches(wiki, 1, all)  BY <2>1, <2>4 DEF Matches
  <2> QED BY <1>3, <1>7, <2>1, <2>3, <2>5 DEF CarriedTo, n
<1> QED BY <1>6, <1>7

\* The text that comes back has the tables that went.
LEMMA TablesAreCarried ==
  ASSUME NEW wiki \in Seq(WikiLine), Carriable(wiki)
  PROVE  TablesOf(GetFitNesseTables(ToSpreadsheet(wiki))) = TablesOf(wiki)
<1> DEFINE rows == ToSpreadsheet(wiki)
           n == Len(wiki)
           numbers == [i \in DOMAIN rows |-> i]
           lines == GetFitNesseTables(rows)
<1>1. rows \in Seq(SheetRow)  BY SpreadsheetsAreMade
<1>2. n \in Nat /\ DOMAIN rows = 1..n  BY <1>1 DEF ToSpreadsheet
<1>3. DOMAIN numbers = 1..n /\ \A k \in 1..n : numbers[k] = k  BY <1>2
<1>4. lines = FoldLeft(LAMBDA words, i : ProcessRow(rows, words, i), <<>>, numbers)
  BY DEF GetFitNesseTables
<1>5. lines = Carrying!Fold(wiki, <<>>, numbers)
  <2> HIDE DEF lines, numbers
  <2> QED
    BY <1>4, Zenon DEF CarryNext, Carrying!Fold, FoldLeft, MapThenFoldSet,
       Carrying!MapThenFoldSet, Max, Carrying!Max
<1>6. CarriedTo(wiki, 0, <<>>)
  <2>1. <<>> \in Seq(WikiLine) /\ Len(<<>>) = 0 /\ 1..0 = {}  OBVIOUS
  <2>2. Len(<<>>) \in 0..Len(wiki)  BY <1>2, <2>1
  <2>3. Matches(wiki, 1, <<>>)  BY <2>1 DEF Matches
  <2> QED BY <2>1, <2>2, <2>3 DEF CarriedTo
<1> HIDE DEF numbers, lines, rows
<1>7. Carrying!Preserves(wiki, numbers, n)
  <2> SUFFICES ASSUME NEW k \in 1..n, NEW value, CarriedTo(wiki, k - 1, value)
               PROVE  CarriedTo(wiki, k, CarryNext(wiki, value, numbers[k]))
    BY DEF Carrying!Preserves
  <2>1. numbers[k] = k  BY <1>3
  <2> QED BY <2>1, NextIsCarried
<1> HIDE DEF n
<1>8. CarriedTo(wiki, n, lines)
  BY <1>2, <1>3, <1>5, <1>6, <1>7, Carrying!FoldKeeps
<1>9. lines \in Seq(WikiLine) /\ Len(lines) \in n..n /\ Matches(wiki, 1, lines)
  BY <1>8 DEF CarriedTo, n
<1>10. Len(lines) = Len(wiki)  BY <1>2, <1>9 DEF n
<1>11. ASSUME NEW i \in 1..Len(wiki)
       PROVE  /\ lines[i].mark = wiki[i].mark
              /\ IsRow(wiki[i]) => TrimAll(lines[i].cells) = TrimAll(wiki[i].cells)
  <2>1. 1 + i - 1 = i /\ i \in 1..Len(lines)  BY <1>10
  <2>2. lines[i].mark = wiki[i].mark /\ (IsRow(wiki[i]) => lines[i].cells = wiki[i].cells)
    BY <1>9, <2>1 DEF Matches
  <2> QED BY <2>2
<1>12. TablesOf(lines) = TablesOf(wiki)  BY <1>9, <1>10, <1>11, SameTables
<1> QED BY <1>12 DEF lines, rows

-----------------------------------------------------------------------------
(* The tables that the rich text editor shows *)

ShowNext(given, tables, block) == AddShown(tables, block)
AreTables(given, k, tables) == tables \in Seq(WikiTable)

Showing == INSTANCE Folding WITH Op <- ShowNext, Inv <- AreTables

\* f holds the tables shown by the blocks up to each.
ShowsTo(blocks, f) ==
  f[0] = <<>> /\ \A k \in 1..Len(blocks) : f[k] = AddShown(f[k - 1], blocks[k])

LEMMA ShownIsFold ==
  ASSUME NEW blocks
  PROVE  ShownTables(blocks) = Showing!Fold(0, <<>>, blocks)
BY Zenon DEF ShownTables, ShowNext, Showing!Fold, FoldLeft, MapThenFoldSet,
   Showing!MapThenFoldSet, Max, Showing!Max

LEMMA ShownAre ==
  ASSUME NEW blocks \in Seq(Block), NEW f, ShowsTo(blocks, f)
  PROVE  ShownTables(blocks) = f[Len(blocks)]
<1> DEFINE n == Len(blocks)
<1>1. n \in Nat /\ DOMAIN blocks = 1..n  OBVIOUS
<1>2. f[0] = <<>> /\ \A k \in 1..n : f[k] = AddShown(f[k - 1], blocks[k])
  BY DEF ShowsTo
<1> HIDE DEF n
<1>3. Showing!Follows(0, <<>>, blocks, n, f)
  BY <1>2, Zenon DEF Showing!Follows, ShowNext
<1>4. Showing!Fold(0, <<>>, blocks) = f[n]  BY <1>1, <1>3, Showing!FoldIs
<1> QED BY <1>4, ShownIsFold DEF n

LEMMA MarkIsShown ==
  ASSUME NEW block \in TableBlock
  PROVE  MarkOf(block) \in Marks
<1> DEFINE hidden == block.rows # <<>> /\ block.rows[1].hidden
<1>1. MarkOf(block) = CASE hidden /\ block.escaped -> "-!"
                        [] hidden /\ ~block.escaped -> "-"
                        [] ~hidden /\ block.escaped -> "!"
                        [] OTHER -> ""
  BY DEF MarkOf
<1> HIDE DEF hidden
<1>2. MarkOf(block) \in {"", "!", "-", "-!"}  BY <1>1
<1> QED BY <1>2 DEF Marks

LEMMA TextsAre ==
  ASSUME NEW row \in RichRow
  PROVE  /\ row.cells \in Seq(RichCell) /\ Len(row.cells) \in Nat
         /\ Texts(row) \in Seq(CellText) /\ Len(Texts(row)) = Len(row.cells)
         /\ \A c \in 1..Len(row.cells) :
              Texts(row)[c] = row.cells[c].text /\ row.cells[c] \in RichCell
<1>1. row.cells \in Seq(RichCell)  BY DEF RichRow
<1>2. \A c \in 1..Len(row.cells) : row.cells[c] \in RichCell  BY <1>1
<1> QED BY <1>1, <1>2, CellTextsAre DEF Texts

LEMMA TableIsShown ==
  ASSUME NEW block \in TableBlock
  PROVE  /\ ShownTable(block) \in WikiTable
         /\ ShownTable(block) = [mark |-> MarkOf(block),
                                 rows |-> [i \in 1..Len(block.rows) |-> Texts(block.rows[i])]]
         /\ [i \in 1..Len(block.rows) |-> Texts(block.rows[i])] \in Seq(Seq(CellText))
         /\ Len([i \in 1..Len(block.rows) |-> Texts(block.rows[i])]) = Len(block.rows)
         /\ \A i \in 1..Len(block.rows) : block.rows[i] \in RichRow
<1> DEFINE n == Len(block.rows)
           all == [i \in 1..n |-> Texts(block.rows[i])]
<1>1. block.rows \in Seq(RichRow) /\ n \in Nat /\ DOMAIN block.rows = 1..n
  BY DEF TableBlock
<1>2. \A i \in 1..n : block.rows[i] \in RichRow  BY <1>1
<1>3. ShownTable(block) = [mark |-> MarkOf(block), rows |-> all]
  BY <1>1 DEF ShownTable, Texts, CellTexts
<1> HIDE DEF n
<1>4. all \in [1..n -> Seq(CellText)]  BY <1>2, TextsAre
<1> HIDE DEF all
<1>5. all \in Seq(Seq(CellText)) /\ Len(all) = n  BY <1>1, <1>4, FunctionIsSeq
<1>6. MarkOf(block) \in Marks  BY MarkIsShown
<1>7. ShownTable(block) \in WikiTable  BY <1>3, <1>5, <1>6 DEF WikiTable
<1> QED BY <1>2, <1>3, <1>5, <1>7 DEF all, n

LEMMA ShownIsTyped ==
  ASSUME NEW tables \in Seq(WikiTable), NEW block \in Block
  PROVE  AddShown(tables, block) \in Seq(WikiTable)
<1>1. CASE block.table
  <2>1. ShownTable(block) \in WikiTable  BY <1>1, BlocksApart, TableIsShown
  <2>2. Append(tables, ShownTable(block)) \in Seq(WikiTable)  BY <2>1
  <2> QED BY <1>1, <2>2 DEF AddShown
<1>2. CASE ~block.table  BY <1>2 DEF AddShown
<1> QED BY <1>1, <1>2

LEMMA ShownExist ==
  ASSUME NEW blocks \in Seq(Block)
  PROVE  \E f : ShowsTo(blocks, f) /\ \A k \in 0..Len(blocks) : f[k] \in Seq(WikiTable)
<1> DEFINE n == Len(blocks)
<1>1. n \in Nat /\ DOMAIN blocks = 1..n /\ \A k \in 1..n : blocks[k] \in Block
  OBVIOUS
<1> HIDE DEF n
<1>2. AreTables(0, 0, <<>>)  BY DEF AreTables
<1>3. Showing!Preserves(0, blocks, n)
  <2> SUFFICES ASSUME NEW k \in 1..n, NEW tables, tables \in Seq(WikiTable)
               PROVE  AddShown(tables, blocks[k]) \in Seq(WikiTable)
    BY DEF Showing!Preserves, ShowNext, AreTables
  <2> QED BY <1>1, ShownIsTyped
<1>4. PICK f : Showing!IsChain(0, <<>>, blocks, n, f)
  BY <1>1, Showing!FoldIsChain
<1>5. Showing!Follows(0, <<>>, blocks, n, f)  BY <1>4 DEF Showing!IsChain
<1>6. \A k \in 0..n : AreTables(0, k, f[k])
  BY <1>1, <1>2, <1>3, <1>5, Showing!ChainKeeps
<1>7. f[0] = <<>> /\ \A k \in 1..n : f[k] = AddShown(f[k - 1], blocks[k])
  BY <1>5, Zenon DEF Showing!Follows, ShowNext
<1> QED BY <1>6, <1>7 DEF ShowsTo, AreTables, n

LEMMA ShownTyped ==
  ASSUME NEW blocks \in Seq(Block)
  PROVE  ShownTables(blocks) \in Seq(WikiTable)
<1>1. PICK f : ShowsTo(blocks, f) /\ \A k \in 0..Len(blocks) : f[k] \in Seq(WikiTable)
  BY ShownExist
<1>2. Len(blocks) \in 0..Len(blocks)  OBVIOUS
<1> QED BY <1>1, <1>2, ShownAre

LEMMA NothingShown == ShownTables(<<>>) = <<>>
<1> DEFINE f == [k \in 0..0 |-> <<>>]
<1>1. <<>> \in Seq(Block) /\ Len(<<>>) = 0 /\ 1..0 = {}  OBVIOUS
<1>2. f[0] = <<>>  OBVIOUS
<1> HIDE DEF f
<1>3. ShowsTo(<<>>, f)  BY <1>1, <1>2 DEF ShowsTo
<1> QED BY <1>1, <1>2, <1>3, ShownAre

\* One block more shows one table more, if it is a table.
LEMMA OneMoreShown ==
  ASSUME NEW blocks \in Seq(Block), NEW block \in Block
  PROVE  ShownTables(Append(blocks, block)) = AddShown(ShownTables(blocks), block)
<1> DEFINE n == Len(blocks)
           all == Append(blocks, block)
<1>1. n \in Nat /\ all \in Seq(Block) /\ Len(all) = n + 1 /\ all[n + 1] = block
  OBVIOUS
<1>2. \A k \in 1..n : all[k] = blocks[k]  OBVIOUS
<1>3. PICK f : ShowsTo(blocks, f)  BY ShownExist
<1>4. f[0] = <<>> /\ \A k \in 1..n : f[k] = AddShown(f[k - 1], blocks[k])
  BY <1>3 DEF ShowsTo
<1> HIDE DEF n, all
<1> DEFINE last == AddShown(f[n], block)
           g == [k \in 0..(n + 1) |-> IF k =< n THEN f[k] ELSE last]
<1>5. /\ \A k \in 0..n : g[k] = f[k]
      /\ g[n + 1] = last
  <2>1. \A k \in 0..n : k \in 0..(n + 1) /\ k =< n  BY <1>1
  <2>2. n + 1 \in 0..(n + 1) /\ ~(n + 1 =< n)  BY <1>1
  <2> HIDE DEF last
  <2> QED BY <2>1, <2>2
<1> HIDE DEF g
<1>6. ASSUME NEW k \in 1..(n + 1)
      PROVE  g[k] = AddShown(g[k - 1], all[k])
  <2>1. CASE k = n + 1
    <3>1. k - 1 = n /\ n \in 0..n  BY <1>1, <2>1
    <3> QED BY <1>1, <1>5, <2>1, <3>1
  <2>2. CASE k # n + 1
    <3>1. k \in 1..n /\ k \in 0..n /\ k - 1 \in 0..n  BY <1>1, <2>2
    <3> QED BY <1>2, <1>4, <1>5, <3>1
  <2> QED BY <2>1, <2>2
<1>7. ShowsTo(all, g)
  <2>1. 0 \in 0..n  BY <1>1
  <2> QED BY <1>1, <1>4, <1>5, <1>6, <2>1 DEF ShowsTo
<1>8. ShownTables(all) = g[n + 1] /\ ShownTables(blocks) = f[n]
  BY <1>1, <1>3, <1>7, ShownAre DEF n
<1> QED BY <1>5, <1>8 DEF all

\* What is shown depends on the tables alone.
LEMMA SameShown ==
  ASSUME NEW a \in Seq(Block), NEW b \in Seq(Block), Len(a) = Len(b),
         \A k \in 1..Len(b) : /\ a[k].table = b[k].table
                              /\ b[k].table => ShownTable(a[k]) = ShownTable(b[k])
  PROVE  ShownTables(a) = ShownTables(b)
<1>1. PICK f : ShowsTo(b, f)  BY ShownExist
<1>2. \A k \in 1..Len(b) : AddShown(f[k - 1], a[k]) = AddShown(f[k - 1], b[k])
  BY DEF AddShown
<1>3. ShowsTo(a, f)  BY <1>1, <1>2 DEF ShowsTo
<1> QED BY <1>1, <1>3, ShownAre

\* What is around a sequence, and where its elements are.
LEMMA AddedAround ==
  ASSUME NEW T, NEW one \in Seq(T), NEW words \in Seq(T),
         NEW written, written = one \o words \o one
  PROVE  /\ written \in Seq(T)
         /\ Len(written) = Len(one) + Len(words) + Len(one)
         /\ \A i \in 1..Len(one) : written[i] = one[i]
         /\ \A i \in 1..Len(words) : written[Len(one) + i] = words[i]
         /\ \A i \in 1..Len(one) : written[Len(one) + Len(words) + i] = one[i]
<1> DEFINE front == one \o words
<1>1. /\ Len(front) = Len(one) + Len(words)
      /\ \A i \in 1..Len(one) : front[i] = one[i]
      /\ \A i \in 1..Len(words) : front[Len(one) + i] = words[i]
  BY Concatenated
<1>2. front \in Seq(T) /\ written = front \o one  OBVIOUS
<1> HIDE DEF front
<1>3. /\ written \in Seq(T) /\ Len(written) = Len(front) + Len(one)
      /\ \A i \in 1..Len(front) : written[i] = front[i]
      /\ \A i \in 1..Len(one) : written[Len(front) + i] = one[i]
  BY <1>2, Concatenated
<1>4. Len(one) \in Nat /\ Len(words) \in Nat  OBVIOUS
<1>5. /\ \A i \in 1..Len(one) : i \in 1..Len(front)
      /\ \A i \in 1..Len(words) : Len(one) + i \in 1..Len(front)
  BY <1>1, <1>4
<1> QED BY <1>1, <1>3, <1>5

\* The characters of a and b are the same ones, but for blanks, d places apart.
MovedPast(blank, a, b, d) ==
  /\ \A k \in 1..Len(a) : a[k] # blank => k + d \in 1..Len(b) /\ b[k + d] = a[k]
  /\ \A k \in 1..Len(b) : b[k] # blank => k - d \in 1..Len(a) /\ a[k - d] = b[k]

\* The places of the characters of a text between two others.
LEMMA WordsBetween ==
  ASSUME NEW blank, NEW one \in Seq(Characters), NEW words \in Seq(Characters),
         NEW d \in Int, 1 + d = 0, NEW written, written = one \o words \o one
  PROVE  /\ written \in Seq(Characters)
         /\ Len(one) = 1 /\ one[1] = blank => MovedPast(blank, written, words, d)
<1> DEFINE n == Len(words)
<1>1. n \in Nat  OBVIOUS
<1>2. /\ written \in Seq(Characters) /\ Len(written) = Len(one) + n + Len(one)
      /\ \A i \in 1..Len(one) : written[i] = one[i]
      /\ \A i \in 1..n : written[Len(one) + i] = words[i]
      /\ \A i \in 1..Len(one) : written[Len(one) + n + i] = one[i]
  BY AddedAround
<1> SUFFICES ASSUME Len(one) = 1, one[1] = blank
             PROVE  MovedPast(blank, written, words, d)
  BY <1>2
<1> HIDE DEF n
<1>3. /\ Len(written) = 1 + n + 1
      /\ written[1] = blank /\ written[1 + n + 1] = blank
      /\ \A i \in 1..n : written[1 + i] = words[i]
  <2>1. 1 \in 1..Len(one)  OBVIOUS
  <2> QED BY <1>2, <2>1
<1>4. ASSUME NEW k \in 1..(1 + n + 1), written[k] # blank
      PROVE  k + d \in 1..n /\ words[k + d] = written[k]
  <2> DEFINE j == k + d
  <2>1. k # 1 /\ k # 1 + n + 1  BY <1>3, <1>4
  <2>2. j \in 1..n /\ 1 + j = k  BY <1>1, <2>1
  <2> HIDE DEF j
  <2>3. words[j] = written[k]  BY <1>3, <2>2
  <2> QED BY <2>2, <2>3 DEF j
<1>5. ASSUME NEW k \in 1..n
      PROVE  k - d \in 1..(1 + n + 1) /\ written[k - d] = words[k]
  <2>1. k - d = 1 + k /\ 1 + k \in 1..(1 + n + 1)  BY <1>1
  <2> QED BY <1>3, <2>1
<1> QED BY <1>2, <1>3, <1>4, <1>5 DEF n, MovedPast

LEMMA BlankIsSolid ==
  ASSUME NEW blank, NEW one \in Seq(Characters), Len(one) = 1, one[1] = blank
  PROVE  {k \in DOMAIN one : one[k] # blank} = {}
OBVIOUS

LEMMA BlankIsTrimmed ==
  ASSUME NEW one \in Seq(Characters), Len(one) = 1, one[1] = " "
  PROVE  Trim(one) = <<>>
<1> DEFINE solid == {k \in DOMAIN one : one[k] # " "}
<1>1. solid = {}  BY BlankIsSolid, Zenon
<1>2. Trim(one) = IF solid = {} THEN <<>> ELSE SubSeq(one, Min(solid), Max(solid))
  BY Zenon DEF Trim
<1> HIDE DEF solid
<1> QED BY <1>1, <1>2, Zenon

LEMMA WordsAreMoved ==
  ASSUME NEW one \in Seq(Characters), Len(one) = 1, one[1] = " ", NEW words \in Seq(Characters),
         NEW d \in Int, 1 + d = 0, NEW written, written = one \o words \o one
  PROVE  written \in Seq(Characters) /\ Moved(written, words, d)
<1>1. written \in Seq(Characters) /\ MovedPast(" ", written, words, d)
  BY WordsBetween, Zenon
<1> QED BY <1>1, Zenon DEF Moved, MovedPast

LEMMA OneBack == -1 \in Int /\ 1 + (-1) = 0
OBVIOUS

\* A text between blanks is that text when it is trimmed.
LEMMA WrittenText ==
  ASSUME NEW words \in CellText, Trim(words) = words,
         NEW written, written = IF words = <<>> THEN <<" ">> ELSE <<" ">> \o words \o <<" ">>
  PROVE  written \in CellText /\ Trim(written) = words
<1> DEFINE one == <<" ">>
<1>1. words \in Seq(Characters)  BY Zenon DEF CellText
<1>2. one \in Seq(Characters) /\ Len(one) = 1 /\ one[1] = " "  BY OneBlank
<1>3. (words = <<>> => written = one) /\ (words # <<>> => written = one \o words \o one)
  OBVIOUS
<1> HIDE DEF one
<1>4. one \in CellText /\ Trim(one) = <<>>
  BY <1>2, BlankIsTrimmed, Zenon DEF CellText
<1>5. ASSUME NEW w, w = one \o words \o one
      PROVE  w \in CellText /\ Trim(w) = Trim(words)
  <2>1. w \in Seq(Characters) /\ Moved(w, words, -1)
    BY <1>1, <1>2, <1>5, WordsAreMoved, OneBack, Zenon
  <2>2. w \in CellText  BY <2>1, Zenon DEF CellText
  <2> QED BY <2>1, <2>2, MovedTrims, OneBack, Zenon
<1> QED BY <1>3, <1>4, <1>5, Zenon

-----------------------------------------------------------------------------
(* The text that is written has the tables that are shown *)

\* Every row of a table has a cell, and no line of a paragraph is a row.
NoEmptyRow(block) ==
  IF block.table
  THEN /\ block.rows # <<>>
       /\ \A i \in DOMAIN block.rows : block.rows[i].cells # <<>>
  ELSE \A i \in DOMAIN block.lines : ~IsBareBar(block.lines[i])

\* What a text is when something separates its tables and its rows are whole.
WellFormed(lines) == Apart(lines) /\ WholeRows(lines)

Closed(lines) == lines = <<>> \/ ~IsRow(lines[Len(lines)])

LEMMA LineIsWritten ==
  ASSUME NEW block \in TableBlock, NEW i \in 1..Len(block.rows)
  PROVE  /\ ParsedLine(LineOf(block, i))
              = TableRow(IF i = 1 THEN MarkOf(block) ELSE "", Texts(block.rows[i]), <<>>)
         /\ IsRow(LineOf(block, i))
         /\ LineOf(block, i).mark = (IF i = 1 THEN MarkOf(block) ELSE "")
         /\ LineOf(block, i).suffix = <<>>
         /\ block.rows[i].cells # <<>> => LineOf(block, i).cells # <<>>
<1> DEFINE cells == block.rows[i].cells
           n == Len(cells)
           written(c) ==
             LET words == cells[c].text
             IN IF words = <<>> THEN <<" ">> ELSE <<" ">> \o words \o <<" ">>
           all == [c \in 1..n |-> written(c)]
           mark == IF i = 1 THEN MarkOf(block) ELSE ""
           texts == Texts(block.rows[i])
           line == LineOf(block, i)
<1>1. block.rows[i] \in RichRow  BY TableIsShown
<1>2. /\ cells \in Seq(RichCell) /\ n \in Nat /\ DOMAIN cells = 1..n
      /\ texts \in Seq(CellText) /\ Len(texts) = n
      /\ \A c \in 1..n : texts[c] = cells[c].text /\ cells[c] \in RichCell
  BY <1>1, TextsAre
<1>3. line = TableRow(mark, all, <<>>)  BY <1>2 DEF LineOf
<1>4. mark \in Marks
  <2>1. "" \in Marks  BY DEF Marks
  <2> QED BY <2>1, MarkIsShown
<1> HIDE DEF cells, n, mark, texts, line
<1>5. ASSUME NEW c \in 1..n
      PROVE  written(c) \in CellText /\ Trim(written(c)) = texts[c]
  <2>1. texts[c] = cells[c].text /\ cells[c] \in RichCell  BY <1>2
  <2>2. texts[c] \in CellText /\ Trim(texts[c]) = texts[c]
    BY <2>1 DEF RichCell, TidyText
  <2>3. written(c) = IF texts[c] = <<>> THEN <<" ">> ELSE <<" ">> \o texts[c] \o <<" ">>
    BY <2>1, Zenon
  <2> HIDE DEF written
  <2> QED BY <2>2, <2>3, WrittenText, Zenon
<1> HIDE DEF written
<1>6. all \in [1..n -> CellText] /\ \A c \in 1..n : all[c] = written(c)  BY <1>5
<1> HIDE DEF all
<1>7. all \in Seq(CellText) /\ Len(all) = n  BY <1>2, <1>6, FunctionIsSeq
<1>8. /\ TrimAll(all) \in Seq(CellText) /\ Len(TrimAll(all)) = n
      /\ \A c \in 1..n : TrimAll(all)[c] = Trim(all[c])
  BY <1>7, AllTrimmed
<1>9. \A c \in 1..Len(texts) : texts[c] = TrimAll(all)[c]
  BY <1>2, <1>5, <1>6, <1>8
<1>10. TrimAll(all) = texts  BY <1>2, <1>8, <1>9, SameElements
<1>11. line.mark = mark /\ line.cells = all /\ line.suffix = <<>>
  BY <1>3 DEF TableRow
<1>12. IsRow(line)  BY <1>4, <1>11 DEF IsRow, Marks, Prose
<1>13. ParsedLine(line) = TableRow(mark, texts, <<>>)
  BY <1>10, <1>11, <1>12 DEF ParsedLine
<1>14. cells # <<>> => all # <<>>  BY <1>2, <1>7
<1> QED BY <1>11, <1>12, <1>13, <1>14 DEF line, mark, texts, cells

\* The rows of a table are read as that table.
LEMMA TableIsReadAgain ==
  ASSUME NEW block \in TableBlock, block.rows # <<>>,
         NEW all \in Seq(WikiLine), Len(all) = Len(block.rows),
         \A i \in 1..Len(block.rows) : all[i] = LineOf(block, i)
  PROVE  TablesOf(all) = <<ShownTable(block)>>
<1> DEFINE n == Len(block.rows)
           lines == Parsed(all)
           texts == [i \in 1..n |-> Texts(block.rows[i])]
           mark == MarkOf(block)
           table(k) == [mark |-> mark, rows |-> SubSeq(texts, 1, k)]
           none == ""
           f == [k \in 0..n |-> IF k = 0 THEN <<>> ELSE <<table(k)>>]
<1>1. block.rows \in Seq(RichRow) /\ n \in Nat /\ n # 0  BY DEF TableBlock
<1>2. /\ texts \in Seq(Seq(CellText)) /\ Len(texts) = n
      /\ ShownTable(block) = [mark |-> mark, rows |-> texts]
      /\ \A i \in 1..n : texts[i] = Texts(block.rows[i])
  BY TableIsShown
<1>3. /\ lines \in Seq(WikiLine) /\ Len(lines) = n
      /\ \A i \in 1..n : lines[i] = ParsedLine(all[i])
  BY ParsedIs
<1>4. ASSUME NEW i \in 1..n
      PROVE  /\ lines[i].cells = texts[i] /\ IsRow(lines[i])
             /\ lines[i].mark = (IF i = 1 THEN mark ELSE none)
  <2>1. lines[i] = ParsedLine(LineOf(block, i)) /\ texts[i] = Texts(block.rows[i])
    BY <1>2, <1>3
  <2>2. LineOf(block, i) \in WikiLine
    <3>1. i \in DOMAIN block.rows  BY <1>1
    <3> QED BY <3>1, RowIsWritten
  <2>3. /\ ParsedLine(LineOf(block, i))
             = TableRow(IF i = 1 THEN MarkOf(block) ELSE "", Texts(block.rows[i]), <<>>)
        /\ IsRow(LineOf(block, i))
    BY LineIsWritten
  <2> HIDE DEF texts, lines, mark, none
  <2>4. IsRow(lines[i])  BY <2>1, <2>2, <2>3, ParsedRows
  <2>5. lines[i] = TableRow(IF i = 1 THEN mark ELSE none, texts[i], <<>>)
    BY <2>1, <2>3, Zenon DEF mark, none
  <2> QED BY <2>4, <2>5 DEF TableRow
<1>5. StartsTable(lines, 1)
  <2>1. 1 \in 1..n  BY <1>1
  <2> QED BY <1>4, <2>1, Zenon DEF StartsTable
<1>6. ASSUME NEW i \in 1..n, i # 1
      PROVE  ~StartsTable(lines, i)
  <2>1. i - 1 \in 1..n  BY <1>1, <1>6
  <2>2. IsRow(lines[i - 1]) /\ lines[i].mark = none  BY <1>4, <1>6, <2>1
  <2> QED BY <1>6, <2>2, Zenon DEF StartsTable, none
<1> HIDE DEF n, lines, texts, mark, none
<1>7. \A i \in 1..n : lines[i].cells = texts[i]  BY <1>4
<1>8. lines[1].mark = mark /\ 1 \in 1..n  BY <1>1, <1>4
<1>9. /\ f[0] = <<>>
      /\ \A k \in 1..n : f[k] = <<table(k)>>
  BY <1>1
<1> HIDE DEF f
<1>10. SubSeq(texts, 1, 1) = <<texts[1]>>  BY <1>2, <1>8, PartsGrow
<1>11. ASSUME NEW k \in 1..n, k # 1
       PROVE  SubSeq(texts, 1, k) = Append(SubSeq(texts, 1, k - 1), texts[k])
  BY <1>2, PartsGrow
<1>12. ASSUME NEW k \in 1..n
       PROVE  f[k] = ReadLine(lines, f[k - 1], k)
  <2>1. CASE k = 1
    <3>1. f[k - 1] = <<>> /\ StartsTable(lines, k)  BY <1>5, <1>9, <2>1
    <3>2. ReadLine(lines, f[k - 1], k) = Append(<<>>, Opens(lines[1]))
      BY <2>1, <3>1 DEF ReadLine
    <3>3. Opens(lines[1]) = table(1)  BY <1>7, <1>8, <1>10 DEF Opens
    <3>4. Append(<<>>, table(1)) = <<table(1)>>  OBVIOUS
    <3> QED BY <1>9, <2>1, <3>2, <3>3, <3>4
  <2>2. CASE k # 1
    <3>1. k - 1 \in 1..n /\ ~StartsTable(lines, k) /\ IsRow(lines[k])
      BY <1>1, <1>4, <1>6, <2>2
    <3> DEFINE above == table(k - 1)
               more == [above EXCEPT !.rows = Append(above.rows, lines[k].cells)]
    <3>2. f[k - 1] = <<above>>  BY <1>9, <3>1
    <3>3. above.rows = SubSeq(texts, 1, k - 1) /\ lines[k].cells = texts[k]
      BY <1>7
    <3>4. more = table(k)
      <4>1. Append(above.rows, lines[k].cells) = SubSeq(texts, 1, k)
        BY <1>11, <2>2, <3>3
      <4>2. \A r : [above EXCEPT !.rows = r] = [mark |-> mark, rows |-> r]
        OBVIOUS
      <4> QED BY <4>1, <4>2, Zenon
    <3> HIDE DEF above
    <3>5. Front(<<above>>) = <<>> /\ Last(<<above>>) = above  BY DEF Front, Last
    <3>6. ReadLine(lines, f[k - 1], k) = Append(<<>>, more)
      BY <3>1, <3>2, <3>5 DEF ReadLine
    <3>7. Append(<<>>, table(k)) = <<table(k)>>  OBVIOUS
    <3> QED BY <1>9, <3>4, <3>6, <3>7
  <2> QED BY <2>1, <2>2
<1>13. TablesIn(lines) = f[n]
  <2>1. ReadsTo(lines, f)  BY <1>3, <1>9, <1>12 DEF ReadsTo
  <2> QED BY <1>3, <2>1, TablesAre
<1>14. SubSeq(texts, 1, n) = texts /\ n \in 1..n  BY <1>1, <1>2
<1>15. f[n] = <<ShownTable(block)>>  BY <1>2, <1>9, <1>14
<1> QED BY <1>13, <1>15 DEF TablesOf, lines

\* No row follows on the last line.
LEMMA TableIsWritten ==
  ASSUME NEW block \in TableBlock, NoEmptyRow(block)
  PROVE  /\ LinesOf(block) \in Seq(WikiLine) /\ Closed(LinesOf(block)) /\ WellFormed(LinesOf(block))
         /\ TablesOf(LinesOf(block)) = <<ShownTable(block)>>
<1> DEFINE n == Len(block.rows)
           all == [i \in 1..n |-> LineOf(block, i)]
           lines == Append(all, Blank)
<1>1. block.rows \in Seq(RichRow) /\ n \in Nat /\ DOMAIN block.rows = 1..n /\ block.table
  <2>1. block.rows \in Seq(RichRow) /\ block.table = TRUE  BY DEF TableBlock
  <2> QED BY <2>1
<1>2. block.rows # <<>> /\ \A i \in 1..n : block.rows[i].cells # <<>>
  BY <1>1 DEF NoEmptyRow
<1>3. LinesOf(block) = lines  BY <1>1, <1>2 DEF LinesOf
<1>4. \A i \in 1..n : LineOf(block, i) \in WikiLine  BY <1>1, RowIsWritten
<1> HIDE DEF n
<1>5. all \in [1..n -> WikiLine] /\ \A i \in 1..n : all[i] = LineOf(block, i)
  BY <1>4
<1> HIDE DEF all
<1>6. all \in Seq(WikiLine) /\ Len(all) = n  BY <1>1, <1>5, FunctionIsSeq
<1>7. TablesOf(all) = <<ShownTable(block)>>
  BY <1>2, <1>5, <1>6, TableIsReadAgain DEF n
<1>8. Blank \in WikiLine /\ ~IsRow(Blank)  BY BlankIsProse
<1>9. /\ lines \in Seq(WikiLine) /\ Len(lines) = n + 1 /\ lines[n + 1] = Blank
      /\ \A i \in 1..n : lines[i] = LineOf(block, i)
  BY <1>5, <1>6, <1>8
<1>10. TablesOf(lines) = <<ShownTable(block)>>  BY <1>6, <1>7, <1>8, ProseAdded
<1> HIDE DEF lines
<1>11. Closed(lines)  BY <1>8, <1>9 DEF Closed
<1>12. \A i \in 1..n : /\ LineOf(block, i).mark = (IF i = 1 THEN MarkOf(block) ELSE "")
                       /\ LineOf(block, i).suffix = <<>> /\ LineOf(block, i).cells # <<>>
  BY <1>2, LineIsWritten DEF n
<1>13. Apart(lines)
  <2> SUFFICES ASSUME NEW i \in 2..(n + 1), StartsTable(lines, i)
               PROVE  ~IsRow(lines[i - 1])
    BY <1>9 DEF Apart
  <2>1. IsRow(lines[i]) /\ (i = 1 \/ ~IsRow(lines[i - 1]) \/ lines[i].mark # "")
    BY DEF StartsTable
  <2>2. i # n + 1  BY <1>8, <1>9, <2>1
  <2>3. i \in 1..n /\ i # 1  BY <1>1, <2>2
  <2>4. lines[i].mark = ""  BY <1>9, <1>12, <2>3
  <2> QED BY <2>1, <2>3, <2>4
<1>14. WholeRows(lines)
  <2> SUFFICES ASSUME NEW i \in 1..(n + 1), IsRow(lines[i])
               PROVE  lines[i].cells # <<>> /\ Trim(lines[i].suffix) = <<>>
    BY <1>9 DEF WholeRows
  <2>1. i \in 1..n  BY <1>1, <1>8, <1>9
  <2>2. lines[i].cells # <<>> /\ lines[i].suffix = <<>>  BY <1>9, <1>12, <2>1
  <2>3. Trim(<<>>) = <<>>  BY NothingIsTidy DEF TidyText
  <2> QED BY <2>2, <2>3
<1> QED BY <1>3, <1>9, <1>10, <1>11, <1>13, <1>14 DEF WellFormed

LEMMA NoRowsAreWellFormed ==
  ASSUME NEW lines \in Seq(WikiLine), \A i \in 1..Len(lines) : ~IsRow(lines[i])
  PROVE  Closed(lines) /\ WellFormed(lines) /\ TablesOf(lines) = <<>>
<1>1. Closed(lines)  BY DEF Closed
<1>2. Apart(lines)
  <2>1. \A i \in 2..Len(lines) : i \in 1..Len(lines)  OBVIOUS
  <2> QED BY <2>1 DEF Apart, StartsTable
<1>3. WholeRows(lines)  BY DEF WholeRows
<1> QED BY <1>1, <1>2, <1>3, NoTablesOf DEF WellFormed

LEMMA BlockIsWritten ==
  ASSUME NEW block \in Block, NoEmptyRow(block)
  PROVE  /\ LinesOf(block) \in Seq(WikiLine) /\ Closed(LinesOf(block)) /\ WellFormed(LinesOf(block))
         /\ TablesOf(LinesOf(block)) = IF block.table THEN <<ShownTable(block)>> ELSE <<>>
<1>1. CASE block.table  BY <1>1, BlocksApart, TableIsWritten
<1>2. CASE ~block.table
  <2> DEFINE n == Len(block.lines)
             lines == LinesOf(block)
  <2>1. block.lines \in Seq(ProseLine) /\ n \in Nat /\ DOMAIN block.lines = 1..n
    <3>1. block.lines \in Seq(ProseLine)
      BY <1>2, BlocksApart DEF ParagraphBlock
    <3> QED BY <3>1
  <2>2. \A i \in 1..n : ~IsBareBar(block.lines[i])  BY <1>2, <2>1 DEF NoEmptyRow
  <2>3. \A i \in 1..n : ~IsRow(block.lines[i])  BY <2>1, <2>2 DEF ProseLine
  <2>4. lines \in Seq(WikiLine)  BY BlocksAreWritten
  <2>5. lines = IF block.lines = <<>> THEN <<>> ELSE Append(block.lines, Blank)
    BY <1>2 DEF LinesOf
  <2> HIDE DEF lines
  <2>6. ASSUME NEW i \in 1..Len(lines)
        PROVE  ~IsRow(lines[i])
    <3>1. block.lines # <<>>  BY <2>5
    <3>2. lines = Append(block.lines, Blank)  BY <2>5, <3>1
    <3>3. CASE i = n + 1  BY <2>1, <3>2, <3>3, BlankIsProse
    <3>4. CASE i # n + 1
      <4>1. i \in 1..n /\ lines[i] = block.lines[i]  BY <2>1, <3>2, <3>4
      <4> QED BY <2>3, <4>1
    <3> QED BY <3>3, <3>4
  <2>7. Closed(lines) /\ WellFormed(lines) /\ TablesOf(lines) = <<>>
    BY <2>4, <2>6, NoRowsAreWellFormed
  <2> QED BY <1>2, <2>4, <2>7 DEF lines
<1> QED BY <1>1, <1>2

\* A well-formed text is put behind one that no row ends.
LEMMA WellFormedJoined ==
  ASSUME NEW a \in Seq(WikiLine), Closed(a), WellFormed(a),
         NEW b \in Seq(WikiLine), Closed(b), WellFormed(b)
  PROVE  /\ a \o b \in Seq(WikiLine) /\ Closed(a \o b) /\ WellFormed(a \o b)
         /\ TablesOf(a \o b) = TablesOf(a) \o TablesOf(b)
<1> DEFINE m == Len(a)
           n == Len(b)
           both == a \o b
<1>1. m \in Nat /\ n \in Nat /\ DOMAIN a = 1..m /\ DOMAIN b = 1..n  OBVIOUS
<1>2. /\ both \in Seq(WikiLine) /\ Len(both) = m + n
      /\ \A i \in 1..m : both[i] = a[i]
      /\ \A i \in 1..n : both[m + i] = b[i]
  BY Concatenated
<1>3. TablesOf(both) = TablesOf(a) \o TablesOf(b)  BY TextsJoined DEF Closed
<1>4. (m # 0 => ~IsRow(a[m])) /\ (n # 0 => ~IsRow(b[n]))
  <2>1. (m # 0 => a # <<>>) /\ (n # 0 => b # <<>>)  OBVIOUS
  <2> QED BY <2>1 DEF Closed
<1>5. Apart(a) /\ Apart(b) /\ WholeRows(a) /\ WholeRows(b)  BY DEF WellFormed
<1>6. both = <<>> => m + n = 0  BY <1>1, <1>2
<1> HIDE DEF both
<1>7. Closed(both)
  <2>1. CASE n = 0
    <3>1. Len(both) = m  BY <1>1, <1>2, <2>1
    <3>2. CASE m = 0
      <4>1. both = <<>>  BY <1>2, <3>1, <3>2
      <4> QED BY <4>1 DEF Closed
    <3>3. CASE m # 0
      <4>1. m \in 1..m  BY <1>1, <3>3
      <4> QED BY <1>2, <1>4, <3>1, <3>3, <4>1 DEF Closed
    <3> QED BY <3>2, <3>3
  <2>2. CASE n # 0
    <3>1. n \in 1..n  BY <1>1, <2>2
    <3> QED BY <1>2, <1>4, <2>2, <3>1 DEF Closed
  <2> QED BY <2>1, <2>2
<1> HIDE DEF m, n
<1>8. Apart(both)
  <2> SUFFICES ASSUME NEW i \in 2..(m + n), StartsTable(both, i)
               PROVE  ~IsRow(both[i - 1])
    BY <1>2 DEF Apart
  <2>1. IsRow(both[i]) /\ (i = 1 \/ ~IsRow(both[i - 1]) \/ both[i].mark # "")
    BY DEF StartsTable
  <2>2. CASE i =< m
    <3>1. i \in 1..m /\ i - 1 \in 1..m /\ i \in 2..m  BY <1>1, <2>2
    <3>2. both[i] = a[i] /\ both[i - 1] = a[i - 1]  BY <1>2, <3>1
    <3>3. StartsTable(a, i)  BY <2>1, <3>2 DEF StartsTable
    <3> QED BY <1>5, <3>1, <3>2, <3>3 DEF Apart, m
  <2>3. CASE i = m + 1
    <3>1. m # 0 /\ m \in 1..m /\ i - 1 = m  BY <1>1, <2>3
    <3> QED BY <1>2, <1>4, <3>1
  <2>4. CASE i > m + 1
    <3> DEFINE j == i - m
    <3>1. j \in 2..n /\ j \in 1..n /\ j - 1 \in 1..n /\ m + j = i /\ m + (j - 1) = i - 1 /\ j # 1 /\ i # 1
      BY <1>1, <2>4
    <3> HIDE DEF j
    <3>2. both[i] = b[j] /\ both[i - 1] = b[j - 1]  BY <1>2, <3>1
    <3>3. StartsTable(b, j)  BY <2>1, <3>1, <3>2 DEF StartsTable
    <3> QED BY <1>5, <3>1, <3>2, <3>3 DEF Apart, n
  <2> QED BY <1>1, <2>2, <2>3, <2>4
<1>9. WholeRows(both)
  <2> SUFFICES ASSUME NEW i \in 1..(m + n), IsRow(both[i])
               PROVE  both[i].cells # <<>> /\ Trim(both[i].suffix) = <<>>
    BY <1>2 DEF WholeRows
  <2>1. CASE i =< m
    <3>1. i \in 1..m /\ both[i] = a[i]  BY <1>1, <1>2, <2>1
    <3> QED BY <1>1, <1>5, <3>1 DEF WholeRows
  <2>2. CASE i > m
    <3>1. i - m \in 1..n /\ m + (i - m) = i  BY <1>1, <2>2
    <3>2. both[i] = b[i - m]  BY <1>2, <3>1
    <3> QED BY <1>1, <1>5, <3>1, <3>2 DEF WholeRows
  <2> QED BY <1>1, <2>1, <2>2
<1> QED BY <1>2, <1>3, <1>7, <1>8, <1>9 DEF WellFormed, both

\* A part of a well-formed text, and an empty line.
LEMMA PartIsWellFormed ==
  ASSUME NEW wiki \in Seq(WikiLine), WellFormed(wiki),
         NEW lo \in 1..Len(wiki), NEW hi \in lo..Len(wiki)
  PROVE  /\ Append(SubSeq(wiki, lo, hi), Blank) \in Seq(WikiLine)
         /\ WellFormed(Append(SubSeq(wiki, lo, hi), Blank))
<1> DEFINE part == SubSeq(wiki, lo, hi)
           n == hi - lo + 1
           lines == Append(part, Blank)
<1>1. Len(wiki) \in Nat /\ DOMAIN wiki = 1..Len(wiki) /\ n \in Nat  OBVIOUS
<1>2. part \in Seq(WikiLine) /\ Len(part) = n /\ \A i \in 1..n : part[i] = wiki[lo + i - 1]
  <2>1. lo \in 1..(Len(wiki) + 1) /\ hi \in (lo - 1)..Len(wiki)  BY <1>1
  <2> QED BY <2>1, PartIsSeq
<1> HIDE DEF part
<1>3. Blank \in WikiLine /\ ~IsRow(Blank)  BY BlankIsProse
<1>4. /\ lines \in Seq(WikiLine) /\ Len(lines) = n + 1 /\ lines[n + 1] = Blank
      /\ \A i \in 1..n : lines[i] = wiki[lo + i - 1]
  <2>1. /\ lines \in Seq(WikiLine) /\ Len(lines) = Len(part) + 1
        /\ \A i \in 1..Len(part) : lines[i] = part[i]
        /\ lines[Len(part) + 1] = Blank
    BY <1>2, <1>3, ElementsWithOneMore
  <2> HIDE DEF lines, n
  <2> QED BY <1>2, <2>1
<1> HIDE DEF lines
<1>5. Apart(wiki) /\ WholeRows(wiki)  BY DEF WellFormed
<1>6. Apart(lines)
  <2> SUFFICES ASSUME NEW i \in 2..(n + 1), StartsTable(lines, i)
               PROVE  ~IsRow(lines[i - 1])
    BY <1>4 DEF Apart
  <2> DEFINE j == lo + i - 1
  <2>1. IsRow(lines[i]) /\ (i = 1 \/ ~IsRow(lines[i - 1]) \/ lines[i].mark # "")
    BY DEF StartsTable
  <2>2. i # n + 1  BY <1>3, <1>4, <2>1
  <2>3. i \in 1..n /\ i - 1 \in 1..n /\ i # 1 /\ lo + (i - 1) - 1 = j - 1
    BY <1>1, <2>2
  <2>4. j \in 2..Len(wiki)  BY <1>1, <2>3
  <2>5. lines[i] = wiki[j] /\ lines[i - 1] = wiki[j - 1]  BY <1>4, <2>3
  <2> HIDE DEF j
  <2>6. StartsTable(wiki, j)  BY <2>1, <2>3, <2>5 DEF StartsTable
  <2> QED BY <1>5, <2>4, <2>5, <2>6 DEF Apart
<1>7. WholeRows(lines)
  <2> SUFFICES ASSUME NEW i \in 1..(n + 1), IsRow(lines[i])
               PROVE  lines[i].cells # <<>> /\ Trim(lines[i].suffix) = <<>>
    BY <1>4 DEF WholeRows
  <2> DEFINE j == lo + i - 1
  <2>1. i \in 1..n  BY <1>1, <1>3, <1>4
  <2>2. j \in DOMAIN wiki  BY <1>1, <2>1
  <2>3. lines[i] = wiki[j]  BY <1>4, <2>1
  <2> HIDE DEF j
  <2> QED BY <1>5, <2>2, <2>3 DEF WholeRows
<1> QED BY <1>4, <1>6, <1>7 DEF WellFormed, lines, part

LEMMA PartsJoin ==
  ASSUME NEW T, NEW s \in Seq(T), NEW lo \in 1..Len(s), NEW hi \in lo..Len(s)
  PROVE  SubSeq(s, lo, Len(s)) = SubSeq(s, lo, hi) \o SubSeq(s, hi + 1, Len(s))
<1> DEFINE n == Len(s)
           rest == SubSeq(s, lo, n)
           part == SubSeq(s, lo, hi)
           after == SubSeq(s, hi + 1, n)
           both == part \o after
           m == hi - lo + 1
           k == n - hi
<1>1. n \in Nat /\ m \in Nat /\ k \in Nat /\ n - lo + 1 = m + k  OBVIOUS
<1>2. part \in Seq(T) /\ Len(part) = m /\ \A i \in 1..m : part[i] = s[lo + i - 1]
  BY PartIsSeq
<1>3. /\ after \in Seq(T) /\ Len(after) = k
      /\ \A i \in 1..k : after[i] = s[hi + i]
  <2>1. hi + 1 \in 1..(n + 1) /\ n \in (hi + 1 - 1)..n  OBVIOUS
  <2>2. /\ after \in Seq(T) /\ Len(after) = n - (hi + 1) + 1
        /\ \A i \in 1..(n - (hi + 1) + 1) : after[i] = s[hi + 1 + i - 1]
    BY <2>1, PartIsSeq
  <2>3. n - (hi + 1) + 1 = k /\ \A i \in 1..k : hi + 1 + i - 1 = hi + i  OBVIOUS
  <2> HIDE DEF after, n, k
  <2> QED BY <2>2, <2>3
<1>4. rest \in Seq(T) /\ Len(rest) = m + k /\ \A i \in 1..(m + k) : rest[i] = s[lo + i - 1]
  <2>1. lo \in 1..(n + 1) /\ n \in (lo - 1)..n  OBVIOUS
  <2>2. /\ rest \in Seq(T) /\ Len(rest) = n - lo + 1
        /\ \A i \in 1..(n - lo + 1) : rest[i] = s[lo + i - 1]
    BY <2>1, PartIsSeq
  <2> HIDE DEF rest
  <2> QED BY <1>1, <2>2
<1> HIDE DEF part, after, rest
<1>5. /\ both \in Seq(T) /\ Len(both) = Len(part) + Len(after)
      /\ \A i \in 1..Len(part) : both[i] = part[i]
      /\ \A i \in 1..Len(after) : both[Len(part) + i] = after[i]
  <2>1. part \in Seq(T) /\ after \in Seq(T)  BY <1>2, <1>3
  <2> QED BY <2>1, Concatenated
<1> HIDE DEF both
<1>6. ASSUME NEW i \in 1..(m + k)
      PROVE  rest[i] = both[i]
  <2>1. CASE i =< m
    <3>1. i \in 1..m  BY <1>1, <2>1
    <3> QED BY <1>2, <1>4, <1>5, <3>1
  <2>2. CASE i > m
    <3>1. i - m \in 1..k /\ m + (i - m) = i /\ hi + (i - m) = lo + i - 1
      BY <1>1, <2>2
    <3> DEFINE j == i - m
    <3>2. after[j] = s[lo + i - 1]  BY <1>3, <3>1
    <3> HIDE DEF j
    <3>3. both[m + j] = after[j]  BY <1>2, <1>3, <1>5, <3>1 DEF j
    <3> QED BY <1>4, <3>1, <3>2, <3>3 DEF j
  <2> QED BY <1>1, <2>1, <2>2
<1> HIDE DEF m, k
<1>7. rest = both  BY <1>2, <1>3, <1>4, <1>5, <1>6, SameElements
<1> QED BY <1>7 DEF rest, both, part, after

\* The empty lines around a text hold no table.
LEMMA StrippedKeepsTables ==
  ASSUME NEW wiki \in Seq(WikiLine), WellFormed(wiki)
  PROVE  /\ Stripped(wiki) \in Seq(WikiLine) /\ WellFormed(Stripped(wiki))
         /\ TablesOf(Stripped(wiki)) = TablesOf(wiki)
<1> DEFINE solid == {i \in DOMAIN wiki : wiki[i] # Blank}
           n == Len(wiki)
<1>1. Blank \in WikiLine /\ ~IsRow(Blank)  BY BlankIsProse
<1>2. n \in Nat /\ solid \in SUBSET (1..n) /\ DOMAIN wiki = 1..n  OBVIOUS
<1>3. \A i \in 1..n : i \notin solid => wiki[i] = Blank  OBVIOUS
<1>4. CASE solid = {}
  <2> DEFINE one == <<Blank>>
  <2>1. Stripped(wiki) = one  BY <1>4 DEF Stripped
  <2>2. one \in Seq(WikiLine) /\ Len(one) = 1 /\ one[1] = Blank  BY <1>1
  <2> HIDE DEF one
  <2>3. \A i \in 1..Len(one) : ~IsRow(one[i])  BY <1>1, <2>2
  <2>4. WellFormed(one) /\ TablesOf(one) = <<>>
    BY <2>2, <2>3, NoRowsAreWellFormed
  <2>5. \A i \in 1..Len(wiki) : ~IsRow(wiki[i])  BY <1>1, <1>3, <1>4
  <2>6. TablesOf(wiki) = <<>>  BY <2>5, NoTablesOf
  <2> QED BY <2>1, <2>2, <2>4, <2>6
<1>5. CASE solid # {}
  <2> DEFINE lo == Min(solid)
             hi == Max(solid)
             part == SubSeq(wiki, lo, hi)
             before == SubSeq(wiki, 1, lo - 1)
             rest == SubSeq(wiki, lo, n)
             after == SubSeq(wiki, hi + 1, n)
  <2>1. Stripped(wiki) = Append(part, Blank)  BY <1>5 DEF Stripped
  <2> HIDE DEF solid
  <2>2. solid \in SUBSET Nat /\ solid \in SUBSET (0..n)  BY <1>2
  <2>3. /\ lo \in solid /\ hi \in solid
        /\ \A y \in solid : lo =< y /\ y =< hi
    BY <1>2, <1>5, <2>2, MaxOf, MinOf
  <2> HIDE DEF lo, hi
  <2>4. lo \in 1..n /\ hi \in lo..n
    <3>1. lo \in 1..n /\ hi \in 1..n /\ lo =< hi  BY <1>2, <2>3
    <3> QED BY <3>1
  <2>5. \A i \in 1..n : i < lo \/ i > hi => ~IsRow(wiki[i])
    <3> SUFFICES ASSUME NEW i \in 1..n, i < lo \/ i > hi
                 PROVE  ~IsRow(wiki[i])
      OBVIOUS
    <3>1. i \notin solid  BY <2>3, <2>4
    <3> QED BY <1>1, <1>3, <3>1
  <2>6. Append(part, Blank) \in Seq(WikiLine) /\ WellFormed(Append(part, Blank))
    <3>1. lo \in 1..Len(wiki) /\ hi \in lo..Len(wiki)  BY <2>4
    <3> QED BY <3>1, PartIsWellFormed
  <2>7. /\ part \in Seq(WikiLine) /\ Len(part) = hi - lo + 1
        /\ \A i \in 1..(hi - lo + 1) : part[i] = wiki[lo + i - 1]
    BY <1>2, <2>4, PartIsSeq
  <2>8. /\ before \in Seq(WikiLine) /\ Len(before) = lo - 1
        /\ \A i \in 1..(lo - 1) : before[i] = wiki[i]
    BY <1>2, <2>4
  <2>9. /\ rest \in Seq(WikiLine) /\ Len(rest) = n - lo + 1
        /\ \A i \in 1..(n - lo + 1) : rest[i] = wiki[lo + i - 1]
    BY <1>2, <2>4, PartIsSeq
  <2>10. /\ after \in Seq(WikiLine) /\ Len(after) = n - hi
         /\ \A i \in 1..(n - hi) : after[i] = wiki[hi + i]
    <3>1. hi + 1 \in 1..(n + 1) /\ n \in (hi + 1 - 1)..n  BY <1>2, <2>4
    <3>2. /\ after \in Seq(WikiLine) /\ Len(after) = n - (hi + 1) + 1
          /\ \A i \in 1..(n - (hi + 1) + 1) : after[i] = wiki[hi + 1 + i - 1]
      BY <3>1, PartIsSeq
    <3>3. n - (hi + 1) + 1 = n - hi /\ \A i \in 1..(n - hi) : hi + 1 + i - 1 = hi + i
      BY <1>2, <2>4
    <3> HIDE DEF after, n
    <3> QED BY <3>2, <3>3
  <2>11. wiki = before \o rest  BY <1>2, <2>4
  <2>12. rest = part \o after  BY <2>4, PartsJoin
  <2> HIDE DEF n, before, rest, part, after
  <2>13. before = <<>> \/ ~IsRow(before[Len(before)])
    <3>1. CASE lo = 1  BY <2>8, <3>1
    <3>2. CASE lo # 1
      <4>1. lo - 1 \in 1..(lo - 1) /\ lo - 1 \in 1..n /\ lo - 1 < lo
        BY <1>2, <2>4, <3>2
      <4> QED BY <2>5, <2>8, <4>1
    <3> QED BY <3>1, <3>2
  <2>14. \A i \in 1..Len(before) : ~IsRow(before[i])
    <3> SUFFICES ASSUME NEW i \in 1..(lo - 1)
                 PROVE  ~IsRow(before[i])
      BY <2>8
    <3>1. i \in 1..n /\ i < lo  BY <1>2, <2>4
    <3> QED BY <2>5, <2>8, <3>1
  <2>15. \A i \in 1..Len(after) : ~IsRow(after[i])
    <3> SUFFICES ASSUME NEW i \in 1..(n - hi)
                 PROVE  ~IsRow(after[i])
      BY <2>10
    <3>1. hi + i \in 1..n /\ hi + i > hi  BY <1>2, <2>4
    <3> QED BY <2>5, <2>10, <3>1
  <2>16. after = <<>> \/ ~IsRow(after[1])
    <3>1. CASE n = hi
      <4>1. Len(after) = 0  BY <1>2, <2>4, <2>10, <3>1
      <4> QED BY <2>10, <4>1
    <3>2. CASE n # hi
      <4>1. 1 \in 1..Len(after)  BY <1>2, <2>4, <2>10, <3>2
      <4> QED BY <2>15, <4>1
    <3> QED BY <3>1, <3>2
  <2>17. TablesOf(wiki) = TablesOf(before) \o TablesOf(rest)
    BY <2>8, <2>9, <2>11, <2>13, TextsJoined
  <2>18. TablesOf(rest) = TablesOf(part) \o TablesOf(after)
    BY <2>7, <2>10, <2>12, <2>16, TextsJoined
  <2>19. TablesOf(before) = <<>> /\ TablesOf(after) = <<>>
    BY <2>8, <2>10, <2>14, <2>15, NoTablesOf
  <2>20. TablesOf(part) \in Seq(WikiTable)  BY <2>7, TablesAreTyped
  <2>21. TablesOf(part) \o <<>> = TablesOf(part) /\ <<>> \o TablesOf(part) = TablesOf(part)
    BY <2>20
  <2>22. TablesOf(Append(part, Blank)) = TablesOf(part)
    BY <1>1, <2>7, ProseAdded
  <2> QED BY <2>1, <2>6, <2>17, <2>18, <2>19, <2>21, <2>22 DEF part
<1> QED BY <1>4, <1>5

\* The lines of the blocks up to each have the tables that these show.
WrittenTo(blocks, k, lines) ==
  /\ lines \in Seq(WikiLine) /\ Closed(lines) /\ WellFormed(lines)
  /\ TablesOf(lines) = ShownTables(SubSeq(blocks, 1, k))

Writing == INSTANCE Folding WITH Op <- JoinNext, Inv <- WrittenTo

LEMMA DocumentsKeepTables ==
  ASSUME NEW blocks \in Seq(Block), NoEmptyRows(blocks)
  PROVE  /\ DomToWikitext(blocks) \in Seq(WikiLine) /\ WellFormed(DomToWikitext(blocks))
         /\ TablesOf(DomToWikitext(blocks)) = ShownTables(blocks)
<1> DEFINE n == Len(blocks)
           parts == [k \in 1..n |-> LinesOf(blocks[k])]
           lines == FoldLeft(\o, <<>>, parts)
<1>1. n \in Nat /\ DOMAIN blocks = 1..n /\ DOMAIN parts = 1..n  OBVIOUS
<1>2. DomToWikitext(blocks) = Stripped(lines)  BY <1>1 DEF DomToWikitext
<1>3. \A k \in 1..n : blocks[k] \in Block /\ NoEmptyRow(blocks[k])
  BY <1>1 DEF NoEmptyRows, NoEmptyRow
<1>4. \A k \in 1..n : parts[k] = LinesOf(blocks[k])  OBVIOUS
<1> HIDE DEF parts, n
<1>5. lines = Writing!Fold(blocks, <<>>, parts)
  BY Zenon DEF Writing!Fold, JoinNext, FoldLeft, MapThenFoldSet,
               Writing!MapThenFoldSet, Max, Writing!Max
<1> HIDE DEF lines
<1>6. WrittenTo(blocks, 0, <<>>)
  <2>1. <<>> \in Seq(WikiLine) /\ \A i \in 1..Len(<<>>) : ~IsRow(<<>>[i])
    OBVIOUS
  <2>2. SubSeq(blocks, 1, 0) = <<>>  OBVIOUS
  <2> QED BY <2>1, <2>2, NoRowsAreWellFormed, NothingShown DEF WrittenTo
<1>7. Writing!Preserves(blocks, parts, n)
  <2> SUFFICES ASSUME NEW k \in 1..n, NEW value, WrittenTo(blocks, k - 1, value)
               PROVE  WrittenTo(blocks, k, value \o parts[k])
    BY DEF Writing!Preserves, JoinNext
  <2> DEFINE block == blocks[k]
             above == SubSeq(blocks, 1, k - 1)
             upTo == SubSeq(blocks, 1, k)
             part == parts[k]
  <2>1. /\ value \in Seq(WikiLine) /\ Closed(value) /\ WellFormed(value)
        /\ TablesOf(value) = ShownTables(above)
    BY DEF WrittenTo
  <2>2. block \in Block /\ NoEmptyRow(block) /\ part = LinesOf(block)
    BY <1>3, <1>4
  <2>3. above \in Seq(Block) /\ upTo = Append(above, block)  BY <1>1 DEF n
  <2> HIDE DEF block, above, upTo, part
  <2>4. /\ part \in Seq(WikiLine) /\ Closed(part) /\ WellFormed(part)
        /\ TablesOf(part) = IF block.table THEN <<ShownTable(block)>> ELSE <<>>
    BY <2>2, BlockIsWritten
  <2>5. /\ value \o part \in Seq(WikiLine) /\ Closed(value \o part) /\ WellFormed(value \o part)
        /\ TablesOf(value \o part) = TablesOf(value) \o TablesOf(part)
    BY <2>1, <2>4, WellFormedJoined
  <2>6. ShownTables(upTo) = AddShown(ShownTables(above), block)
    BY <2>2, <2>3, OneMoreShown
  <2>7. TablesOf(value) \o TablesOf(part) = AddShown(TablesOf(value), block)
    <3> DEFINE tables == TablesOf(value)
               table == ShownTable(block)
    <3>1. tables \in Seq(WikiTable)  BY <2>1, TablesAreTyped
    <3>2. block.table => table \in WikiTable  BY <2>2, BlocksApart, TableIsShown
    <3> HIDE DEF tables, table
    <3>3. tables \o <<>> = tables  BY <3>1
    <3>4. block.table => tables \o <<table>> = Append(tables, table)
      BY <3>1, <3>2
    <3> QED BY <2>4, <3>3, <3>4 DEF AddShown, tables, table
  <2> QED BY <2>1, <2>5, <2>6, <2>7 DEF WrittenTo, upTo, part
<1>8. WrittenTo(blocks, n, lines)  BY <1>1, <1>5, <1>6, <1>7, Writing!FoldKeeps
<1>9. SubSeq(blocks, 1, n) = blocks  BY DEF n
<1>10. /\ lines \in Seq(WikiLine) /\ WellFormed(lines)
       /\ TablesOf(lines) = ShownTables(blocks)
  BY <1>8, <1>9 DEF WrittenTo
<1> QED BY <1>2, <1>10, StrippedKeepsTables

-----------------------------------------------------------------------------
(* The text that is read shows the tables that it has *)

\* The columns that the cells span change neither the texts nor the mark.
LEMMA SpannedShows ==
  ASSUME NEW block \in Block
  PROVE  /\ Spanned(block).table = block.table
         /\ block.table => ShownTable(Spanned(block)) = ShownTable(block)
         /\ NoEmptyRow(block) => NoEmptyRow(Spanned(block))
<1>1. CASE block.table
  <2> DEFINE rows == block.rows
             n == Len(rows)
             new == SpanTableColumns(rows)
             spanned == [block EXCEPT !.rows = new]
  <2>1. block \in TableBlock /\ rows \in Seq(RichRow) /\ block.table = TRUE
    BY <1>1, BlocksApart DEF TableBlock
  <2>2. /\ new \in Seq(RichRow) /\ Len(new) = n
        /\ \A i \in 1..n : new[i].hidden = rows[i].hidden /\ Texts(new[i]) = Texts(rows[i])
    BY <2>1, SpannedRowsShow
  <2>3. Spanned(block) = spanned  BY <1>1 DEF Spanned
  <2> HIDE DEF new
  <2>4. /\ spanned \in TableBlock /\ spanned.rows = new /\ spanned.escaped = block.escaped
        /\ spanned.table = block.table
    BY <2>1, <2>2 DEF TableBlock
  <2> HIDE DEF spanned
  <2>5. n \in Nat /\ DOMAIN rows = 1..n /\ DOMAIN new = 1..n  BY <2>1, <2>2
  <2>6. (new # <<>> <=> rows # <<>>) /\ (rows # <<>> => 1 \in 1..n)
    BY <2>1, <2>2
  <2>7. MarkOf(spanned) = MarkOf(block)  BY <2>2, <2>4, <2>6 DEF MarkOf
  <2>8. [i \in 1..Len(new) |-> Texts(new[i])] = [i \in 1..n |-> Texts(rows[i])]
    BY <2>2
  <2>9. ShownTable(spanned) = ShownTable(block)
    <3> DEFINE shownRows(b) == [i \in 1..Len(b.rows) |-> Texts(b.rows[i])]
    <3>1. /\ ShownTable(spanned) = [mark |-> MarkOf(spanned), rows |-> shownRows(spanned)]
          /\ ShownTable(block) = [mark |-> MarkOf(block), rows |-> shownRows(block)]
      BY <2>1, <2>4, TableIsShown, Zenon
    <3>2. shownRows(spanned) = shownRows(block)  BY <2>4, <2>8
    <3> HIDE DEF shownRows
    <3> QED BY <2>7, <3>1, <3>2
  <2>10. ASSUME NoEmptyRow(block)
         PROVE  NoEmptyRow(spanned)
    <3>1. rows # <<>> /\ \A i \in 1..n : rows[i].cells # <<>>
      BY <1>1, <2>5, <2>10 DEF NoEmptyRow
    <3>2. ASSUME NEW i \in 1..n
          PROVE  new[i].cells # <<>>
      <4>1. rows[i] \in RichRow /\ new[i] \in RichRow  BY <2>1, <2>2
      <4>2. Len(new[i].cells) = Len(rows[i].cells)  BY <2>2, <4>1, TextsAre
      <4>3. rows[i].cells \in Seq(RichCell) /\ new[i].cells \in Seq(RichCell)
        BY <4>1, TextsAre
      <4> QED BY <3>1, <4>2, <4>3
    <3> QED BY <1>1, <2>4, <2>5, <2>6, <3>1, <3>2 DEF NoEmptyRow
  <2> QED BY <2>3, <2>4, <2>9, <2>10
<1>2. CASE ~block.table  BY <1>2 DEF Spanned
<1> QED BY <1>1, <1>2, BlocksApart

\* What is read of a row that is whole: its mark and its cells.
LEMMA WholeRowIsRead ==
  ASSUME NEW line \in WikiLine, line.cells # <<>>, Trim(line.suffix) = <<>>
  PROVE  /\ RowOf(line) \in RichRow /\ RowOf(line).cells # <<>>
         /\ RowOf(line).hidden = (line.mark \in {"-", "-!"})
         /\ Texts(RowOf(line)) = TrimAll(line.cells)
         /\ ~IsBareBar(line)
<1> DEFINE cells == line.cells
           n == Len(cells)
           read == CellsOf(line)
           trimmed == TrimAll(cells)
<1>1. cells \in Seq(CellText) /\ n \in Nat /\ DOMAIN cells = 1..n /\ n # 0
  BY LineParts
<1>2. ColumnsOf(line) = cells  BY DEF ColumnsOf
<1>3. read = [c \in 1..n |-> Cell(Trim(cells[c]))]  BY <1>1, <1>2 DEF CellsOf
<1>4. /\ trimmed \in Seq(CellText) /\ Len(trimmed) = n
      /\ \A c \in 1..n : trimmed[c] = Trim(cells[c])
  BY <1>1, AllTrimmed
<1>5. RowOf(line) \in RichRow  BY RowIsRead
<1>6. RowOf(line).cells = read /\ RowOf(line).hidden = (line.mark \in {"-", "-!"})
  BY DEF RowOf, Row
<1>7. ~IsBareBar(line)  BY DEF IsBareBar
<1> DEFINE row == RowOf(line)
<1> HIDE DEF row, cells, n, trimmed, read
<1>8. /\ row.cells \in Seq(RichCell) /\ Texts(row) \in Seq(CellText)
      /\ Len(Texts(row)) = Len(row.cells)
      /\ \A c \in 1..Len(row.cells) : Texts(row)[c] = row.cells[c].text
  BY <1>5, TextsAre DEF row
<1>9. row.cells = read  BY <1>6 DEF row
<1>10. DOMAIN row.cells = 1..n  BY <1>3, <1>9
<1>11. Len(row.cells) = n  BY <1>1, <1>8, <1>10
<1>12. \A c \in 1..n : row.cells[c].text = Trim(cells[c])
  BY <1>3, <1>9 DEF Cell
<1>13. \A c \in 1..Len(trimmed) : trimmed[c] = Texts(row)[c]
  BY <1>4, <1>8, <1>11, <1>12
<1>14. Texts(row) = trimmed  BY <1>4, <1>8, <1>11, <1>13, SameElements
<1>15. row.cells # <<>>  BY <1>1, <1>11
<1> QED BY <1>5, <1>6, <1>7, <1>14, <1>15 DEF row, trimmed, cells

LEMMA MarkIsRead ==
  ASSUME NEW mark \in Marks, NEW block, block.rows # <<>>,
         block.rows[1].hidden <=> mark \in {"-", "-!"}, block.escaped <=> mark \in {"!", "-!"}
  PROVE  MarkOf(block) = mark
<1> DEFINE hidden == block.rows # <<>> /\ block.rows[1].hidden
           escaped == block.escaped
<1>1. (hidden <=> mark \in {"-", "-!"}) /\ (escaped <=> mark \in {"!", "-!"})
  OBVIOUS
<1>2. MarkOf(block) = CASE hidden /\ escaped -> "-!"
                        [] hidden /\ ~escaped -> "-"
                        [] ~hidden /\ escaped -> "!"
                        [] OTHER -> ""
  BY DEF MarkOf
<1> HIDE DEF hidden, escaped
<1>3. mark \in {"", "!", "-", "-!"}  BY DEF Marks
<1> QED BY <1>1, <1>2, <1>3

\* The blocks show these tables, and none of their rows is empty.
Shows(blocks, tables) ==
  blocks \in Seq(Block) /\ NoEmptyRows(blocks) /\ ShownTables(blocks) = tables

InTable(doc_) == doc_.open = "table"

\* The line becomes part of a paragraph, or of nothing.
AddsProse(blocks, line, new) ==
  \/ new = blocks
  \/ /\ blocks # <<>> /\ ~Last(blocks).table
     /\ new = Append(Front(blocks), Paragraph(Append(Last(blocks).lines, line)))
  \/ new = Append(blocks, Paragraph(<<line>>))

\* What is done with a line that is no bare bar.
LEMMA LineIsAdded ==
  ASSUME NEW k, NEW doc_, Opened(0, k, doc_), NEW line \in WikiLine, ~IsBareBar(line)
  PROVE  /\ InTable(AddLine(doc_, line)) <=> IsRow(line)
         /\ IsRow(line) /\ InTable(doc_) =>
              AddLine(doc_, line).blocks = AddRow(doc_.blocks, line)
         /\ IsRow(line) /\ ~InTable(doc_) =>
              AddLine(doc_, line).blocks = NewTable(doc_.blocks, line)
         /\ ~IsRow(line) => AddsProse(doc_.blocks, line, AddLine(doc_, line).blocks)
<1> DEFINE blocks == doc_.blocks
           new == AddLine(doc_, line)
<1>1. /\ doc_ \in [blocks : Seq(Block), open : {"nothing", "table", "paragraph"}]
      /\ doc_.open = "paragraph" => blocks # <<>> /\ ~Last(blocks).table
  BY DEF Opened
<1>2. CASE line = Blank
  <2>1. new = [doc_ EXCEPT !.open = "nothing"]  BY <1>2 DEF AddLine
  <2>2. new.open = "nothing" /\ new.blocks = blocks  BY <1>1, <2>1
  <2>3. ~InTable(new)  BY <2>2 DEF InTable
  <2>4. ~IsRow(line)  BY <1>2, BlankIsProse
  <2> QED BY <2>2, <2>3, <2>4 DEF AddsProse
<1>3. CASE line # Blank /\ IsRow(line) /\ doc_.open = "table"
  <2>1. new = [doc_ EXCEPT !.blocks = AddRow(blocks, line)]  BY <1>3 DEF AddLine
  <2>2. new.open = "table" /\ new.blocks = AddRow(blocks, line)
    BY <1>1, <1>3, <2>1
  <2> HIDE DEF new
  <2> QED BY <1>3, <2>2 DEF InTable, new
<1>4. CASE line # Blank /\ IsRow(line) /\ doc_.open # "table"
  <2>1. new = [blocks |-> NewTable(blocks, line), open |-> "table"]
    BY <1>4 DEF AddLine
  <2>2. new.open = "table" /\ new.blocks = NewTable(blocks, line)  BY <2>1
  <2> HIDE DEF new
  <2> QED BY <1>4, <2>2 DEF InTable, new
<1>5. CASE line # Blank /\ ~IsRow(line) /\ doc_.open = "paragraph"
  <2>1. new = [doc_ EXCEPT !.blocks =
                 Append(Front(blocks), Paragraph(Append(Last(blocks).lines, line)))]
    BY <1>5 DEF AddLine
  <2>2. /\ new.open = "paragraph"
        /\ new.blocks = Append(Front(blocks), Paragraph(Append(Last(blocks).lines, line)))
    BY <1>1, <1>5, <2>1
  <2>3. ~InTable(new)  BY <2>2 DEF InTable
  <2> HIDE DEF new
  <2>4. AddsProse(blocks, line, new.blocks)  BY <1>1, <1>5, <2>2 DEF AddsProse
  <2> QED BY <1>5, <2>3, <2>4 DEF new
<1>6. CASE line # Blank /\ ~IsRow(line) /\ doc_.open # "paragraph"
  <2>1. new = [blocks |-> Append(blocks, Paragraph(<<line>>)), open |-> "paragraph"]
    BY <1>6 DEF AddLine
  <2>2. new.open = "paragraph" /\ new.blocks = Append(blocks, Paragraph(<<line>>))
    BY <2>1
  <2>3. ~InTable(new)  BY <2>2 DEF InTable
  <2> HIDE DEF new
  <2>4. AddsProse(blocks, line, new.blocks)  BY <2>2 DEF AddsProse
  <2> QED BY <1>6, <2>3, <2>4 DEF new
<1> QED BY <1>2, <1>3, <1>4, <1>5, <1>6

LEMMA BlocksHaveCells ==
  ASSUME NEW blocks
  PROVE  NoEmptyRows(blocks) <=> \A k \in DOMAIN blocks : NoEmptyRow(blocks[k])
BY DEF NoEmptyRows, NoEmptyRow

LEMMA BlockIsAdded ==
  ASSUME NEW blocks, NEW tables, Shows(blocks, tables), NEW block \in Block, NoEmptyRow(block)
  PROVE  Shows(Append(blocks, block), AddShown(tables, block))
<1> DEFINE n == Len(blocks)
           all == Append(blocks, block)
<1>1. blocks \in Seq(Block) /\ ShownTables(blocks) = tables  BY DEF Shows
<1>2. \A k \in DOMAIN blocks : NoEmptyRow(blocks[k])
  BY BlocksHaveCells DEF Shows
<1>3. n \in Nat /\ DOMAIN blocks = 1..n  BY <1>1
<1>4. /\ all \in Seq(Block) /\ Len(all) = n + 1
      /\ \A i \in 1..n : all[i] = blocks[i]
      /\ all[n + 1] = block
  BY <1>1, ElementsWithOneMore
<1>5. ShownTables(all) = AddShown(tables, block)  BY <1>1, OneMoreShown
<1> HIDE DEF n, all
<1>6. ASSUME NEW k \in 1..(n + 1)
      PROVE  NoEmptyRow(all[k])
  <2>1. CASE k = n + 1  BY <1>4, <2>1
  <2>2. CASE k # n + 1
    <3>1. k \in 1..n  BY <1>3, <2>2
    <3> QED BY <1>2, <1>3, <1>4, <3>1
  <2> QED BY <2>1, <2>2
<1>7. DOMAIN all = 1..(n + 1)  BY <1>4
<1>8. NoEmptyRows(all)  BY <1>6, <1>7, BlocksHaveCells
<1> QED BY <1>4, <1>5, <1>8 DEF Shows, all

LEMMA LastIsShown ==
  ASSUME NEW blocks, NEW tables, Shows(blocks, tables), blocks # <<>>
  PROVE  /\ Shows(Front(blocks), ShownTables(Front(blocks)))
         /\ Last(blocks) \in Block /\ NoEmptyRow(Last(blocks))
         /\ tables = AddShown(ShownTables(Front(blocks)), Last(blocks))
<1> DEFINE n == Len(blocks)
           front == Front(blocks)
           last == Last(blocks)
<1>1. blocks \in Seq(Block) /\ ShownTables(blocks) = tables  BY DEF Shows
<1>2. \A k \in DOMAIN blocks : NoEmptyRow(blocks[k])
  BY BlocksHaveCells DEF Shows
<1>3. /\ front \in Seq(Block) /\ last \in Block /\ blocks = Append(front, last)
      /\ n \in Nat \ {0} /\ last = blocks[n]
      /\ Len(front) = n - 1 /\ \A i \in 1..(n - 1) : front[i] = blocks[i]
  BY <1>1, LastPutBack
<1>4. DOMAIN blocks = 1..n  BY <1>1
<1> HIDE DEF n, front, last
<1>5. DOMAIN front = 1..(n - 1) /\ n \in 1..n /\ 1..(n - 1) \subseteq 1..n
  BY <1>3
<1>6. NoEmptyRows(front)  BY <1>2, <1>3, <1>4, <1>5, BlocksHaveCells
<1>7. NoEmptyRow(last)  BY <1>2, <1>3, <1>4, <1>5
<1>8. tables = AddShown(ShownTables(front), last)  BY <1>1, <1>3, OneMoreShown
<1> QED BY <1>3, <1>6, <1>7, <1>8 DEF Shows, front, last

LEMMA ProseIsNoBar ==
  ASSUME NEW line \in WikiLine, ~IsRow(line)
  PROVE  line \in ProseLine /\ ~IsBareBar(line)
<1>1. line.mark = "prose"  BY DEF IsRow, Prose
<1>2. ~IsBareBar(line)  BY <1>1 DEF IsBareBar
<1> QED BY <1>2 DEF ProseLine

LEMMA ParagraphIsAdded ==
  ASSUME NEW blocks, NEW tables, Shows(blocks, tables), NEW lines \in Seq(ProseLine),
         \A i \in DOMAIN lines : ~IsBareBar(lines[i])
  PROVE  Shows(Append(blocks, Paragraph(lines)), tables)
<1> DEFINE one == Paragraph(lines)
<1>1. one.table = FALSE /\ one.lines = lines /\ one \in ParagraphBlock
  BY DEF Paragraph, ParagraphBlock
<1> HIDE DEF one
<1>2. one \in Block /\ NoEmptyRow(one) /\ AddShown(tables, one) = tables
  BY <1>1 DEF Block, NoEmptyRow, AddShown
<1> QED BY <1>2, BlockIsAdded DEF one

LEMMA ProseIsShown ==
  ASSUME NEW blocks, NEW tables, Shows(blocks, tables),
         NEW line \in WikiLine, ~IsRow(line), NEW new, AddsProse(blocks, line, new)
  PROVE  Shows(new, tables)
<1>1. line \in ProseLine /\ ~IsBareBar(line)  BY ProseIsNoBar
<1>2. CASE new = blocks  BY <1>2
<1>3. CASE new = Append(blocks, Paragraph(<<line>>))
  <2> DEFINE lines == <<line>>
  <2>1. lines \in Seq(ProseLine) /\ \A i \in DOMAIN lines : ~IsBareBar(lines[i])
    BY <1>1
  <2> QED BY <1>3, <2>1, ParagraphIsAdded
<1>4. CASE /\ blocks # <<>> /\ ~Last(blocks).table
           /\ new = Append(Front(blocks), Paragraph(Append(Last(blocks).lines, line)))
  <2> DEFINE front == Front(blocks)
             last == Last(blocks)
             above == last.lines
             lines == Append(above, line)
  <2>1. /\ Shows(front, ShownTables(front)) /\ last \in Block /\ NoEmptyRow(last)
        /\ tables = AddShown(ShownTables(front), last)
    BY <1>4, LastIsShown
  <2>2. last \in ParagraphBlock /\ ~last.table  BY <1>4, <2>1, BlocksApart
  <2>3. tables = ShownTables(front)  BY <2>1, <2>2 DEF AddShown
  <2> HIDE DEF front, last
  <2>4. above \in Seq(ProseLine)  BY <2>2 DEF ParagraphBlock
  <2>5. \A i \in DOMAIN above : ~IsBareBar(above[i])
    BY <2>1, <2>2 DEF NoEmptyRow
  <2> HIDE DEF above
  <2>6. /\ lines \in Seq(ProseLine) /\ Len(lines) = Len(above) + 1
        /\ \A i \in 1..Len(above) : lines[i] = above[i]
        /\ lines[Len(above) + 1] = line
    BY <1>1, <2>4, ElementsWithOneMore
  <2>7. Len(above) \in Nat /\ DOMAIN above = 1..Len(above)  BY <2>4
  <2> HIDE DEF lines
  <2>8. DOMAIN lines = 1..(Len(above) + 1)  BY <2>6
  <2>9. ASSUME NEW i \in DOMAIN lines
        PROVE  ~IsBareBar(lines[i])
    <3>1. i = Len(above) + 1 \/ i \in 1..Len(above)  BY <2>7, <2>8
    <3> QED BY <1>1, <2>5, <2>6, <2>7, <3>1
  <2>10. Shows(Append(front, Paragraph(lines)), tables)
    BY <2>1, <2>3, <2>6, <2>9, ParagraphIsAdded
  <2> QED BY <1>4, <2>10 DEF front, last, above, lines
<1> QED BY <1>2, <1>3, <1>4 DEF AddsProse

LEMMA RowsReplaced ==
  ASSUME NEW table \in WikiTable, NEW rows
  PROVE  [table EXCEPT !.rows = rows] = [mark |-> table.mark, rows |-> rows]
BY DEF WikiTable

\* A table with one row more shows one more.
LEMMA TableWithOneMore ==
  ASSUME NEW block \in TableBlock, block.rows # <<>>, NoEmptyRow(block),
         NEW row \in RichRow, row.cells # <<>>,
         NEW more, more = [block EXCEPT !.rows = Append(block.rows, row)]
  PROVE  /\ more \in TableBlock /\ NoEmptyRow(more)
         /\ ShownTable(more) = [mark |-> ShownTable(block).mark,
                                rows |-> Append(ShownTable(block).rows, Texts(row))]
<1> DEFINE rows == block.rows
           n == Len(rows)
           new == Append(rows, row)
           texts == [i \in 1..n |-> Texts(rows[i])]
           textsNow == [i \in 1..Len(more.rows) |-> Texts(more.rows[i])]
           longer == Append(texts, Texts(row))
<1>1. block.table = TRUE /\ rows \in Seq(RichRow) /\ n \in Nat \ {0} /\ DOMAIN rows = 1..n
  <2>1. block.table = TRUE /\ rows \in Seq(RichRow)  BY DEF TableBlock
  <2> QED BY <2>1
<1>2. /\ new \in Seq(RichRow) /\ Len(new) = n + 1
      /\ \A i \in 1..n : new[i] = rows[i]
      /\ new[n + 1] = row
  BY <1>1, ElementsWithOneMore
<1>3. \A i \in 1..n : rows[i].cells # <<>>  BY <1>1 DEF NoEmptyRow
<1>4. /\ ShownTable(block) = [mark |-> MarkOf(block), rows |-> texts]
      /\ texts \in Seq(Seq(CellText)) /\ Len(texts) = n
  BY TableIsShown
<1>5. \A i \in 1..n : texts[i] = Texts(rows[i])  OBVIOUS
<1>6. Texts(row) \in Seq(CellText)  BY TextsAre
<1> HIDE DEF texts, new
<1>7. /\ more \in TableBlock /\ more.rows = new /\ more.escaped = block.escaped
      /\ more.table = TRUE
  BY <1>1, <1>2 DEF TableBlock, new
<1>8. /\ longer \in Seq(Seq(CellText)) /\ Len(longer) = n + 1
      /\ \A i \in 1..n : longer[i] = texts[i]
      /\ longer[n + 1] = Texts(row)
  BY <1>4, <1>6, ElementsWithOneMore
<1>9. ShownTable(more) = [mark |-> MarkOf(more), rows |-> textsNow]
      /\ textsNow \in Seq(Seq(CellText)) /\ Len(textsNow) = Len(more.rows)
  BY <1>7, TableIsShown
<1>10. Len(more.rows) = Len(new) /\ \A i \in 1..Len(new) : textsNow[i] = Texts(new[i])
  BY <1>7
<1> HIDE DEF n, rows, longer, textsNow
<1>11. ASSUME NEW i \in 1..(n + 1)
       PROVE  textsNow[i] = longer[i] /\ new[i].cells # <<>>
  <2>1. CASE i = n + 1
    <3>1. i \in 1..Len(new)  BY <1>2
    <3> QED BY <1>2, <1>8, <1>10, <2>1, <3>1
  <2>2. CASE i # n + 1
    <3>1. i \in 1..n /\ i \in 1..Len(new)  BY <1>1, <1>2, <2>2
    <3> QED BY <1>2, <1>3, <1>5, <1>8, <1>10, <3>1
  <2> QED BY <2>1, <2>2
<1>12. textsNow = longer
  <2>1. \A i \in 1..Len(textsNow) : textsNow[i] = longer[i]
    BY <1>2, <1>9, <1>10, <1>11
  <2>2. Len(longer) = Len(textsNow)  BY <1>2, <1>8, <1>9, <1>10
  <2> QED BY <1>8, <1>9, <2>1, <2>2, SameElements
<1>13. new # <<>> /\ new[1] = rows[1] /\ DOMAIN new = 1..(n + 1)
  <2>1. 1 \in 1..n  BY <1>1
  <2> QED BY <1>1, <1>2, <2>1
<1>14. MarkOf(more) = MarkOf(block)
  BY <1>7, <1>13, rows # <<>> DEF MarkOf, rows
<1>15. NoEmptyRow(more)  BY <1>7, <1>11, <1>13 DEF NoEmptyRow
<1>16. ShownTable(block).mark = MarkOf(block) /\ ShownTable(block).rows = texts
  BY <1>4
<1> QED BY <1>7, <1>9, <1>12, <1>14, <1>15, <1>16 DEF longer

\* A row of a table goes on with the last block.
LEMMA RowIsShown ==
  ASSUME NEW blocks, NEW tables, Shows(blocks, tables), blocks # <<>>, Last(blocks).table,
         NEW line \in WikiLine, line.cells # <<>>, Trim(line.suffix) = <<>>
  PROVE  Shows(AddRow(blocks, line),
               Append(Front(tables),
                      [Last(tables) EXCEPT !.rows = Append(Last(tables).rows, TrimAll(line.cells))]))
<1> DEFINE front == Front(blocks)
           last == Last(blocks)
           row == RowOf(line)
           more == [last EXCEPT !.rows = Append(last.rows, row)]
           shownAbove == ShownTables(front)
           table == ShownTable(last)
           cells == TrimAll(line.cells)
<1>1. /\ row \in RichRow /\ row.cells # <<>> /\ Texts(row) = cells /\ ~IsBareBar(line)
  BY WholeRowIsRead
<1>2. /\ Shows(front, shownAbove) /\ last \in Block /\ NoEmptyRow(last)
      /\ tables = AddShown(shownAbove, last)
  BY LastIsShown
<1>3. last \in TableBlock /\ last.table  BY <1>2, BlocksApart
<1>4. AddRow(blocks, line) = Append(front, more)  BY <1>1 DEF AddRow
<1>5. last.rows # <<>>  BY <1>2, <1>3 DEF NoEmptyRow
<1> HIDE DEF last, row, cells
<1>6. /\ more \in TableBlock /\ NoEmptyRow(more)
      /\ ShownTable(more) = [mark |-> table.mark, rows |-> Append(table.rows, cells)]
  BY <1>1, <1>2, <1>3, <1>5, TableWithOneMore
<1>7. more \in Block /\ more.table  BY <1>6 DEF Block, TableBlock
<1> HIDE DEF front, more
<1>8. Shows(Append(front, more), AddShown(shownAbove, more))
  BY <1>2, <1>6, <1>7, BlockIsAdded
<1>9. shownAbove \in Seq(WikiTable) /\ table \in WikiTable
  BY <1>2, <1>3, ShownTyped, TableIsShown DEF Shows
<1>10. tables = Append(shownAbove, table) /\ AddShown(shownAbove, more) = Append(shownAbove, ShownTable(more))
  BY <1>2, <1>3, <1>7 DEF AddShown
<1>11. Front(tables) = shownAbove /\ Last(tables) = table
  BY <1>9, <1>10, FrontOfAppend
<1> HIDE DEF table, shownAbove
<1>12. [table EXCEPT !.rows = Append(table.rows, cells)]
         = [mark |-> table.mark, rows |-> Append(table.rows, cells)]
  BY <1>9, RowsReplaced
<1> QED BY <1>4, <1>6, <1>8, <1>10, <1>11, <1>12 DEF cells, table

\* A row that opens a table is its first.
LEMMA FirstRowIsShown ==
  ASSUME NEW blocks, NEW tables, Shows(blocks, tables),
         NEW line \in WikiLine, IsRow(line), line.cells # <<>>, Trim(line.suffix) = <<>>
  PROVE  Shows(NewTable(blocks, line),
               Append(tables, [mark |-> line.mark, rows |-> <<TrimAll(line.cells)>>]))
<1> DEFINE row == RowOf(line)
           rows == <<row>>
           table == Table(line.mark \in {"!", "-!"}, rows)
           between == IF EndsWithTable(blocks) THEN <<Paragraph(<<>>)>> ELSE <<>>
           before == blocks \o between
           cells == TrimAll(line.cells)
           mark == line.mark
<1>1. /\ row \in RichRow /\ row.cells # <<>> /\ Texts(row) = cells
      /\ row.hidden = (mark \in {"-", "-!"})
  BY WholeRowIsRead
<1>2. mark \in Marks /\ cells \in Seq(CellText)  BY RowOfText, AllTrimmed
<1>3. NewTable(blocks, line) = before \o <<table>>  BY DEF NewTable
<1>4. blocks \in Seq(Block)  BY DEF Shows
<1>5. Shows(before, tables)
  <2>1. CASE EndsWithTable(blocks)
    <3> DEFINE none == Paragraph(<<>>)
    <3>1. before = blocks \o <<none>>  BY <2>1
    <3>2. <<>> \in Seq(ProseLine) /\ DOMAIN <<>> = {}  OBVIOUS
    <3>3. Shows(Append(blocks, none), tables)  BY <3>2, ParagraphIsAdded
    <3>4. none \in Block  BY <3>2 DEF Paragraph, Block, ParagraphBlock
    <3> HIDE DEF none
    <3>5. blocks \o <<none>> = Append(blocks, none)  BY <1>4, <3>4
    <3> QED BY <3>1, <3>3, <3>5
  <2>2. CASE ~EndsWithTable(blocks)
    <3>1. before = blocks \o <<>>  BY <2>2
    <3>2. blocks \o <<>> = blocks  BY <1>4
    <3> QED BY <3>1, <3>2
  <2> QED BY <2>1, <2>2
<1> HIDE DEF before, row, cells
<1>6. rows \in Seq(RichRow) /\ Len(rows) = 1 /\ rows[1] = row /\ rows # <<>> /\ DOMAIN rows = 1..1
  BY <1>1
<1> HIDE DEF rows
<1>7. /\ table \in TableBlock /\ table.rows = rows /\ table.table = TRUE
      /\ table.escaped = (mark \in {"!", "-!"})
  BY <1>6 DEF Table, TableBlock
<1> HIDE DEF table, mark
<1>8. MarkOf(table) = mark  BY <1>1, <1>2, <1>6, <1>7, MarkIsRead
<1>9. [i \in 1..Len(table.rows) |-> Texts(table.rows[i])] = <<cells>>
  <2> DEFINE texts == [i \in 1..Len(table.rows) |-> Texts(table.rows[i])]
             one == <<cells>>
  <2>1. texts \in Seq(Seq(CellText)) /\ Len(texts) = 1 /\ texts[1] = cells
    BY <1>1, <1>6, <1>7, TableIsShown
  <2>2. one \in Seq(Seq(CellText)) /\ Len(one) = 1 /\ one[1] = cells  BY <1>2
  <2> HIDE DEF texts, one
  <2>3. \A i \in 1..Len(texts) : texts[i] = one[i]  BY <2>1, <2>2
  <2>4. texts = one  BY <2>1, <2>2, <2>3, SameElements
  <2> QED BY <2>4 DEF texts, one
<1>10. ShownTable(table) = [mark |-> mark, rows |-> <<cells>>]
  BY <1>7, <1>8, <1>9, TableIsShown
<1>11. table \in Block /\ NoEmptyRow(table) /\ table.table
  BY <1>1, <1>6, <1>7 DEF Block, NoEmptyRow
<1>12. Shows(Append(before, table), AddShown(tables, table))
  BY <1>5, <1>11, BlockIsAdded
<1>13. before \o <<table>> = Append(before, table)  BY <1>5, <1>11 DEF Shows
<1>14. AddShown(tables, table) = Append(tables, ShownTable(table))
  BY <1>11 DEF AddShown
<1> QED BY <1>3, <1>10, <1>12, <1>13, <1>14 DEF cells, mark

\* What was added of the lines up to each shows the tables that they have; a
\* table is open below a row.
Alike(given, k, doc_) ==
  /\ Opened(0, k, doc_)
  /\ InTable(doc_) <=> k # 0 /\ IsRow(given.lines[k])
  /\ Shows(doc_.blocks, given.tables[k])

Looking == INSTANCE Folding WITH Op <- AddNext, Inv <- Alike

LEMMA SameStarts ==
  ASSUME NEW wiki \in Seq(WikiLine), NEW k \in 1..Len(wiki)
  PROVE  /\ StartsTable(Parsed(wiki), k) <=> StartsTable(wiki, k)
         /\ IsRow(wiki[k]) =>
              /\ Parsed(wiki)[k].mark = wiki[k].mark
              /\ Parsed(wiki)[k].cells = TrimAll(wiki[k].cells)
<1> DEFINE lines == Parsed(wiki)
<1>1. \A i \in 1..Len(wiki) : lines[i] = ParsedLine(wiki[i]) /\ wiki[i] \in WikiLine
  BY ParsedIs
<1> HIDE DEF lines
<1>2. \A i \in 1..Len(wiki) : IsRow(lines[i]) <=> IsRow(wiki[i])
  BY <1>1, ParsedRows
<1>3. IsRow(wiki[k]) => lines[k].mark = wiki[k].mark /\ lines[k].cells = TrimAll(wiki[k].cells)
  <2> SUFFICES ASSUME IsRow(wiki[k])
               PROVE  lines[k].mark = wiki[k].mark /\ lines[k].cells = TrimAll(wiki[k].cells)
    OBVIOUS
  <2>1. lines[k] = ParsedLine(wiki[k])  BY <1>1
  <2>2. ParsedLine(wiki[k]) = TableRow(wiki[k].mark, TrimAll(wiki[k].cells), <<>>)
    BY Zenon DEF ParsedLine
  <2> QED BY <2>1, <2>2 DEF TableRow
<1>4. k # 1 => k - 1 \in 1..Len(wiki)  OBVIOUS
<1>5. StartsTable(lines, k) <=> StartsTable(wiki, k)
  BY <1>2, <1>3, <1>4 DEF StartsTable
<1> QED BY <1>3, <1>5 DEF lines

LEMMA LineIsShown ==
  ASSUME NEW wiki \in Seq(WikiLine), WellFormed(wiki),
         NEW f, ReadsTo(Parsed(wiki), f), NEW k \in 1..Len(wiki), NEW doc_,
         Opened(0, k, doc_), InTable(doc_) <=> k - 1 # 0 /\ IsRow(wiki[k - 1]),
         Shows(doc_.blocks, f[k - 1])
  PROVE  /\ InTable(AddLine(doc_, wiki[k])) <=> IsRow(wiki[k])
         /\ Shows(AddLine(doc_, wiki[k]).blocks, f[k])
<1> DEFINE line == wiki[k]
           lines == Parsed(wiki)
           blocks == doc_.blocks
           new == AddLine(doc_, line)
           above == f[k - 1]
<1>1. line \in WikiLine /\ Len(wiki) \in Nat /\ k \in DOMAIN wiki  OBVIOUS
<1>2. f[k] = ReadLine(lines, above, k)
  <2>1. Len(lines) = Len(wiki)  BY ParsedIs
  <2> QED BY <2>1 DEF ReadsTo
<1>3. /\ StartsTable(lines, k) <=> StartsTable(wiki, k)
      /\ IsRow(line) => lines[k].mark = line.mark /\ lines[k].cells = TrimAll(line.cells)
  BY SameStarts
<1>4. IsRow(line) => line.cells # <<>> /\ Trim(line.suffix) = <<>>
  BY <1>1 DEF WellFormed, WholeRows
<1>5. ~IsBareBar(line)  BY <1>1, <1>4, ProseIsNoBar DEF IsBareBar
<1> HIDE DEF line
<1>6. /\ InTable(new) <=> IsRow(line)
      /\ IsRow(line) /\ InTable(doc_) => new.blocks = AddRow(blocks, line)
      /\ IsRow(line) /\ ~InTable(doc_) => new.blocks = NewTable(blocks, line)
      /\ ~IsRow(line) => AddsProse(blocks, line, new.blocks)
  BY <1>1, <1>5, LineIsAdded
<1>7. IsRow(lines[k]) <=> IsRow(line)  BY <1>1, ParsedIs, ParsedRows DEF line
<1> HIDE DEF lines, new
<1>8. CASE ~IsRow(line)
  <2>1. f[k] = above  BY <1>2, <1>7, <1>8 DEF ReadLine, StartsTable
  <2>2. Shows(new.blocks, above)  BY <1>1, <1>6, <1>8, ProseIsShown
  <2> QED BY <1>6, <2>1, <2>2 DEF line, new
<1>9. CASE IsRow(line) /\ ~InTable(doc_)
  <2>1. StartsTable(wiki, k)
    <3>1. k - 1 = 0 \/ ~IsRow(wiki[k - 1])  BY <1>9
    <3>2. k - 1 = 0 => k = 1  BY <1>1
    <3>3. IsRow(wiki[k])  BY <1>9 DEF line
    <3> QED BY <3>1, <3>2, <3>3, Zenon DEF StartsTable
  <2>2. f[k] = Append(above, Opens(lines[k]))  BY <1>2, <1>3, <2>1 DEF ReadLine
  <2>3. Opens(lines[k]) = [mark |-> line.mark, rows |-> <<TrimAll(line.cells)>>]
    BY <1>3, <1>9 DEF Opens
  <2>4. Shows(NewTable(blocks, line),
              Append(above, [mark |-> line.mark, rows |-> <<TrimAll(line.cells)>>]))
    BY <1>1, <1>4, <1>9, FirstRowIsShown
  <2> QED BY <1>6, <1>9, <2>2, <2>3, <2>4 DEF line, new
<1>10. CASE IsRow(line) /\ InTable(doc_)
  <2>1. k - 1 # 0 /\ IsRow(wiki[k - 1])  BY <1>10
  <2>2. k \in 2..Len(wiki)  BY <1>1, <2>1
  <2>3. ~StartsTable(wiki, k)  BY <2>1, <2>2 DEF WellFormed, Apart
  <2>4. f[k] = Append(Front(above), [Last(above) EXCEPT !.rows = Append(@, lines[k].cells)])
    BY <1>2, <1>3, <1>7, <1>10, <2>3 DEF ReadLine
  <2>5. lines[k].cells = TrimAll(line.cells)  BY <1>3, <1>10
  <2>6. blocks # <<>> /\ Last(blocks).table  BY <1>10 DEF Opened, InTable
  <2>7. Shows(AddRow(blocks, line),
              Append(Front(above),
                     [Last(above) EXCEPT !.rows = Append(Last(above).rows, TrimAll(line.cells))]))
    BY <1>1, <1>4, <1>10, <2>6, RowIsShown
  <2> QED BY <1>6, <1>10, <2>4, <2>5, <2>7 DEF line, new
<1> QED BY <1>8, <1>9, <1>10

LEMMA FragmentsShowTables ==
  ASSUME NEW wiki \in Seq(WikiLine), WellFormed(wiki)
  PROVE  Shows(WikitextToFragment(wiki), TablesOf(wiki))
<1> DEFINE start == [blocks |-> <<>>, open |-> "nothing"]
           done == FoldLeft(AddLine, start, wiki)
           blocks == done.blocks
           m == Len(blocks)
           new == SpannedAll(blocks)
           n == Len(wiki)
           lines == Parsed(wiki)
<1>1. n \in Nat /\ DOMAIN wiki = 1..n  OBVIOUS
<1>2. WikitextToFragment(wiki) = new  BY DEF WikitextToFragment
<1>3. lines \in Seq(WikiLine) /\ Len(lines) = n  BY ParsedIs
<1>4. PICK f : ReadsTo(lines, f)  BY <1>3, TablesExist
<1> DEFINE given == [lines |-> wiki, tables |-> f]
<1>5. done = Looking!Fold(given, start, wiki)
  BY Zenon DEF Looking!Fold, AddNext, FoldLeft, MapThenFoldSet,
               Looking!MapThenFoldSet, Max, Looking!Max
<1>6. given.lines = wiki /\ given.tables = f  OBVIOUS
<1> HIDE DEF given, done
<1>7. Alike(given, 0, start)
  <2>1. /\ start \in [blocks : Seq(Block), open : {"nothing", "table", "paragraph"}]
        /\ start.open = "nothing" /\ start.blocks = <<>>
    OBVIOUS
  <2>2. Opened(0, 0, start) /\ ~InTable(start)  BY <2>1 DEF Opened, InTable
  <2> HIDE DEF start
  <2>3. f[0] = <<>>  BY <1>4 DEF ReadsTo
  <2>4. <<>> \in Seq(Block) /\ NoEmptyRows(<<>>)  BY DEF NoEmptyRows
  <2>5. Shows(<<>>, <<>>)  BY <2>4, NothingShown DEF Shows
  <2> QED BY <1>6, <2>1, <2>2, <2>3, <2>5 DEF Alike
<1> HIDE DEF start
<1>8. Looking!Preserves(given, wiki, n)
  <2> SUFFICES ASSUME NEW k \in 1..n, NEW doc_, Alike(given, k - 1, doc_)
               PROVE  Alike(given, k, AddLine(doc_, wiki[k]))
    BY DEF Looking!Preserves, AddNext
  <2>1. /\ Opened(0, k, doc_) /\ (InTable(doc_) <=> k - 1 # 0 /\ IsRow(wiki[k - 1]))
        /\ Shows(doc_.blocks, f[k - 1])
    BY <1>6 DEF Alike, Opened
  <2>2. /\ InTable(AddLine(doc_, wiki[k])) <=> IsRow(wiki[k])
        /\ Shows(AddLine(doc_, wiki[k]).blocks, f[k])
    BY <1>4, <2>1, LineIsShown
  <2>3. Opened(0, k, AddLine(doc_, wiki[k]))  BY <1>1, <2>1, LinesAreAdded
  <2> QED BY <1>1, <1>6, <2>2, <2>3 DEF Alike
<1> HIDE DEF n
<1>9. Alike(given, n, done)  BY <1>1, <1>5, <1>7, <1>8, Looking!FoldKeeps
<1>10. TablesOf(wiki) = f[n]  BY <1>3, <1>4, TablesAre DEF TablesOf
<1>11. Shows(blocks, TablesOf(wiki))  BY <1>6, <1>9, <1>10 DEF Alike
<1>12. blocks \in Seq(Block) /\ m \in Nat /\ DOMAIN blocks = 1..m
  <2>1. blocks \in Seq(Block)  BY <1>11 DEF Shows
  <2> QED BY <2>1
<1>13. new = [k \in 1..m |-> Spanned(blocks[k])]  BY <1>12 DEF SpannedAll
<1>14. new \in Seq(Block)  BY <1>2, TextsAreRead
<1> HIDE DEF blocks, m, new
<1>15. DOMAIN new = 1..m /\ \A k \in 1..m : new[k] = Spanned(blocks[k]) /\ blocks[k] \in Block
  BY <1>12, <1>13
<1>16. Len(new) = m  BY <1>12, <1>14, <1>15
<1>17. \A k \in 1..m : /\ new[k].table = blocks[k].table
                       /\ blocks[k].table => ShownTable(new[k]) = ShownTable(blocks[k])
  BY <1>15, SpannedShows
<1>18. ShownTables(new) = ShownTables(blocks)
  BY <1>12, <1>14, <1>16, <1>17, SameShown DEF m
<1>19. \A k \in 1..m : NoEmptyRow(blocks[k])
  BY <1>11, <1>12, BlocksHaveCells DEF Shows
<1>20. \A k \in 1..m : NoEmptyRow(new[k])  BY <1>15, <1>19, SpannedShows
<1>21. NoEmptyRows(new)  BY <1>15, <1>20, BlocksHaveCells
<1> QED BY <1>2, <1>11, <1>14, <1>18, <1>21 DEF Shows

-----------------------------------------------------------------------------
(* The author's steps *)

Typed ==
  /\ shown \in {"text", "sheet", "rich"}
  /\ text \in Seq(WikiLine) /\ sheet \in Seq(SheetRow) /\ doc \in Seq(Block)
  /\ tools \in Nat /\ edits \in Nat

\* Every table on the screen has equally wide rows.
AllWide == \A k \in DOMAIN doc : WideBlock(doc[k])

IInv == Typed /\ AllWide

LEMMA InitTyped == Init => IInv
<1> SUFFICES ASSUME Init
             PROVE  IInv
  OBVIOUS
<1>1. <<Blank>> \in Seq(WikiLine)  BY BlankIsProse
<1>2. /\ shown = "text" /\ text = <<Blank>> /\ sheet = <<>> /\ doc = <<>>
      /\ tools = 0 /\ edits = 0
  BY DEF Init
<1>3. Typed  BY <1>1, <1>2 DEF Typed
<1>4. DOMAIN doc = {}  BY <1>2
<1> QED BY <1>3, <1>4 DEF IInv, AllWide

\* A button that leaves the rows of a table equally wide.
LEMMA EditKeeps ==
  ASSUME IInv, NEW k \in Tables, NEW rows, Wide(rows), Edit(k, rows)
  PROVE  IInv'
<1> DEFINE new == [doc[k] EXCEPT !.rows = rows]
<1>1. doc \in Seq(Block) /\ AllWide /\ Typed  BY DEF IInv, Typed
<1>2. k \in DOMAIN doc /\ doc[k].table  BY DEF Tables
<1>3. doc[k] \in TableBlock  BY <1>1, <1>2, BlocksApart
<1>4. rows \in Seq(RichRow) /\ Fills(rows)  BY DEF Wide
<1>5. new \in TableBlock /\ new.rows = rows  BY <1>3, <1>4 DEF TableBlock
<1>6. /\ doc' = [doc EXCEPT ![k] = new]
      /\ edits' = edits + 1 /\ UNCHANGED <<shown, text, sheet, tools>>
  BY DEF Edit
<1> HIDE DEF new
<1>7. new \in Block /\ WideBlock(new)  BY <1>4, <1>5 DEF Block, WideBlock
<1>8. doc' \in Seq(Block) /\ DOMAIN doc' = DOMAIN doc  BY <1>1, <1>2, <1>6, <1>7
<1>9. \A j \in DOMAIN doc : doc'[j] = IF j = k THEN new ELSE doc[j]
  BY <1>1, <1>6
<1>10. AllWide'  BY <1>1, <1>7, <1>8, <1>9 DEF AllWide
<1>11. Typed'  BY <1>1, <1>6, <1>8 DEF Typed
<1> QED BY <1>10, <1>11 DEF IInv

\* What is inserted, at the cell where the cursor is.
Inserts(k, i, c, after) ==
  LET rows == doc[k].rows
  IN /\ k \in Tables /\ rows \in Seq(RichRow) /\ i \in DOMAIN rows /\ after \in BOOLEAN
     /\ c \in DOMAIN rows[i].cells /\ c \in Nat \ {0}
     /\ \/ Edit(k, InsertTableCell(rows, i, c, after))
        \/ Edit(k, InsertTableRow(rows, i, after))
        \/ Edit(k, InsertTableColumn(rows, c, after))

LEMMA RowsOfTable ==
  ASSUME IInv, NEW k \in Tables
  PROVE  /\ doc[k].rows \in Seq(RichRow)
         /\ \A i \in DOMAIN doc[k].rows : \A c \in DOMAIN doc[k].rows[i].cells : c \in Nat \ {0}
<1>1. doc[k] \in Block /\ doc[k].table  BY DEF Tables, IInv, Typed
<1>2. doc[k].rows \in Seq(RichRow)  BY <1>1, BlocksApart DEF TableBlock
<1> QED BY <1>2, RowOfRows

LEMMA InsertIsAnEdit ==
  ASSUME IInv, Insert
  PROVE  \E k, i, c, after : Inserts(k, i, c, after)
BY RowsOfTable, Zenon DEF Insert, Inserts

LEMMA InsertKeeps ==
  ASSUME IInv, Insert
  PROVE  IInv'
<1>1. PICK k, i, c, after : Inserts(k, i, c, after)  BY InsertIsAnEdit
<1> DEFINE rows == doc[k].rows
<1>2. /\ k \in Tables /\ rows \in Seq(RichRow) /\ i \in DOMAIN rows /\ after \in BOOLEAN
      /\ c \in DOMAIN rows[i].cells /\ c \in Nat \ {0}
  BY <1>1 DEF Inserts
<1>3. \/ Edit(k, InsertTableCell(rows, i, c, after))
      \/ Edit(k, InsertTableRow(rows, i, after))
      \/ Edit(k, InsertTableColumn(rows, c, after))
  BY <1>1 DEF Inserts
<1> HIDE DEF rows
<1>4. /\ Wide(InsertTableCell(rows, i, c, after))
      /\ Wide(InsertTableRow(rows, i, after))
      /\ Wide(InsertTableColumn(rows, c, after))
  BY <1>2, CellsAreInserted, RowsAreInserted, ColumnsAreInserted
<1> QED BY <1>2, <1>3, <1>4, EditKeeps

LEMMA DeleteKeeps ==
  ASSUME IInv, Delete
  PROVE  IInv'
<1>1. PICK k \in Tables :
        \E i \in DOMAIN doc[k].rows : \E c \in DOMAIN doc[k].rows[i].cells :
          LET rows == doc[k].rows IN
            \/ Edit(k, DeleteTableCell(rows, i, c))
            \/ Edit(k, DeleteTableRow(rows, i))
            \/ Edit(k, DeleteTableColumn(rows, c))
  BY DEF Delete
<1> DEFINE rows == doc[k].rows
<1>2. PICK i \in DOMAIN rows :
        \E c \in DOMAIN rows[i].cells :
          \/ Edit(k, DeleteTableCell(rows, i, c))
          \/ Edit(k, DeleteTableRow(rows, i))
          \/ Edit(k, DeleteTableColumn(rows, c))
  BY <1>1
<1>3. PICK c \in DOMAIN rows[i].cells :
        \/ Edit(k, DeleteTableCell(rows, i, c))
        \/ Edit(k, DeleteTableRow(rows, i))
        \/ Edit(k, DeleteTableColumn(rows, c))
  BY <1>2
<1>4. rows \in Seq(RichRow)  BY RowsOfTable
<1>5. c \in Nat \ {0}  BY RowsOfTable
<1> HIDE DEF rows
<1>6. /\ Wide(DeleteTableCell(rows, i, c))
      /\ Wide(DeleteTableRow(rows, i))
      /\ Wide(DeleteTableColumn(rows, c))
  BY <1>4, <1>5, CellsAreDeleted, RowsAreDeleted, ColumnsAreDeleted
<1> QED BY <1>3, <1>6, EditKeeps

LEMMA DeleteTableKeeps ==
  ASSUME IInv, DeleteTable
  PROVE  IInv'
<1>1. PICK k \in Tables : /\ doc' = RemoveAt(doc, k) /\ edits' = edits + 1
                          /\ UNCHANGED <<shown, text, sheet, tools>>
  BY DEF DeleteTable
<1> DEFINE before == SubSeq(doc, 1, k - 1)
           after == SubSeq(doc, k + 1, Len(doc))
           WideBlocks == {block \in Block : WideBlock(block)}
<1>2. doc \in Seq(Block) /\ k \in 1..Len(doc) /\ Typed
  BY DEF IInv, Typed, Tables
<1>3. doc \in Seq(WideBlocks)
  <2>1. \A j \in 1..Len(doc) : doc[j] \in WideBlocks  BY <1>2 DEF IInv, AllWide
  <2> HIDE DEF WideBlocks
  <2> QED BY <1>2, <2>1
<1> HIDE DEF WideBlocks
<1>4. doc' \in Seq(WideBlocks)  BY <1>1, <1>2, <1>3, Removed
<1>5. \A j \in DOMAIN doc' : doc'[j] \in WideBlocks  BY <1>4
<1>6. doc' \in Seq(Block) /\ AllWide'
  <2>1. WideBlocks \subseteq Block  BY DEF WideBlocks
  <2>2. doc' \in Seq(Block)  BY <1>4, <2>1
  <2> QED BY <1>5, <2>2 DEF AllWide, WideBlocks
<1> QED BY <1>1, <1>2, <1>6 DEF IInv, Typed

\* One step per action.
LEMMA NextKeeps ==
  ASSUME IInv, [Next]_vars
  PROVE  IInv'
<1>1. /\ Typed /\ AllWide /\ text \in Seq(WikiLine) /\ sheet \in Seq(SheetRow)
      /\ doc \in Seq(Block) /\ tools \in Nat /\ tools + 1 \in Nat
  BY DEF IInv, Typed
<1>2. ASSUME NEW line \in Lines, TypeLine(line)
      PROVE  IInv'
  <2>1. line \in WikiLine  BY LinesAssumption
  <2>2. <<line>> \in Seq(WikiLine) /\ Append(text, line) \in Seq(WikiLine)
    BY <1>1, <2>1
  <2>3. text' \in Seq(WikiLine) /\ UNCHANGED <<shown, sheet, doc, tools, edits>>
    BY <1>2, <2>2 DEF TypeLine
  <2> QED BY <1>1, <2>3 DEF IInv, Typed, AllWide
<1>3. ASSUME NEW row \in SheetRows, PasteRow(row)
      PROVE  IInv'
  <2>1. row \in SheetRow  BY SheetRowsAssumption DEF SheetRow
  <2>2. Append(sheet, row) \in Seq(SheetRow)  BY <1>1, <2>1
  <2>3. /\ sheet' \in Seq(SheetRow) /\ shown' = "sheet"
        /\ UNCHANGED <<text, doc, tools, edits>>
    BY <1>3, <2>2 DEF PasteRow
  <2> QED BY <1>1, <2>3 DEF IInv, Typed, AllWide
<1>4. ASSUME FormatWiki
      PROVE  IInv'
  <2>1. Format(text) \in Seq(WikiLine)  BY <1>1, TextsAreFormatted
  <2>2. /\ text' \in Seq(WikiLine) /\ tools' = tools + 1
        /\ UNCHANGED <<shown, sheet, doc, edits>>
    BY <1>4, <2>1 DEF FormatWiki, Use
  <2> QED BY <1>1, <2>2 DEF IInv, Typed, AllWide
<1>5. ASSUME WikiToSpreadsheet
      PROVE  IInv'
  <2>1. ToSpreadsheet(text) \in Seq(SheetRow)  BY <1>1, SpreadsheetsAreMade
  <2>2. /\ sheet' \in Seq(SheetRow) /\ shown' = "sheet" /\ tools' = tools + 1
        /\ UNCHANGED <<text, doc, edits>>
    BY <1>5, <2>1 DEF WikiToSpreadsheet, Use
  <2> QED BY <1>1, <2>2 DEF IInv, Typed, AllWide
<1>6. ASSUME SpreadsheetToWiki
      PROVE  IInv'
  <2>1. GetFitNesseTables(sheet) \in Seq(WikiLine) /\ <<>> \in Seq(SheetRow)
    BY <1>1, SheetsAreKept
  <2>2. /\ text' \in Seq(WikiLine) /\ sheet' \in Seq(SheetRow) /\ shown' = "text"
        /\ tools' = tools + 1 /\ UNCHANGED <<doc, edits>>
    BY <1>6, <2>1 DEF SpreadsheetToWiki, Use
  <2> QED BY <1>1, <2>2 DEF IInv, Typed, AllWide
<1>7. ASSUME LoadWysiwygDocument
      PROVE  IInv'
  <2>1. /\ WikitextToFragment(text) \in Seq(Block)
        /\ \A k \in DOMAIN WikitextToFragment(text) : WideBlock(WikitextToFragment(text)[k])
    BY <1>1, TextsAreRead
  <2>2. /\ doc' = WikitextToFragment(text) /\ shown' = "rich" /\ tools' = tools + 1
        /\ UNCHANGED <<text, sheet, edits>>
    BY <1>7 DEF LoadWysiwygDocument, Use
  <2>3. doc' \in Seq(Block) /\ AllWide'  BY <2>1, <2>2 DEF AllWide
  <2> QED BY <1>1, <2>2, <2>3 DEF IInv, Typed
<1>8. ASSUME LoadWikiText
      PROVE  IInv'
  <2>1. DomToWikitext(doc) \in Seq(WikiLine)  BY <1>1, DocumentsAreWritten
  <2>2. Format(DomToWikitext(doc)) \in Seq(WikiLine)  BY <2>1, TextsAreFormatted
  <2>3. /\ text' \in Seq(WikiLine) /\ doc' = <<>> /\ shown' = "text" /\ tools' = tools + 1
        /\ UNCHANGED <<sheet, edits>>
    BY <1>8, <2>1, <2>2 DEF LoadWikiText, Use
  <2>4. doc' \in Seq(Block) /\ DOMAIN doc' = {}  BY <2>3
  <2> QED BY <1>1, <2>3, <2>4 DEF IInv, Typed, AllWide
<1>9. CASE UNCHANGED vars  BY <1>1, <1>9 DEF vars, IInv, Typed, AllWide
<1> QED
  BY <1>2, <1>3, <1>4, <1>5, <1>6, <1>7, <1>8, <1>9,
     InsertKeeps, DeleteKeeps, DeleteTableKeeps DEF Next

LEMMA AlwaysTyped == Spec => []IInv
<1>1. Init => IInv  BY InitTyped
<1>2. IInv /\ [Next]_vars => IInv'  BY NextKeeps
<1> QED BY <1>1, <1>2, PTL DEF Spec

\* Whatever is typed, pasted and pressed, the text area holds wiki text or a
\* spreadsheet, and the rich text editor paragraphs and tables.
THEOREM ToolsKeepTypes == Spec => []Typed
<1>1. IInv => Typed  BY DEF IInv
<1> QED BY <1>1, AlwaysTyped, PTL

\* The rows of every table that is formatted are equally long, however many rows
\* and columns it has, unless two lines of the text became one.
THEOREM TablesLineUp == Spec => []RowsLineUp
<1>1. IInv => RowsLineUp
  <2> SUFFICES ASSUME IInv
               PROVE  RowsLineUp
    OBVIOUS
  <2>1. text \in Seq(WikiLine)  BY DEF IInv, Typed
  <2>2. Len(Format(text)) = Len(text) => LinesUp(Format(text))
    BY <2>1, TextsAreFormatted
  <2> QED BY <2>2 DEF RowsLineUp, LinesUp
<1> QED BY <1>1, AlwaysTyped, PTL

\* Formatting changes no table of a text whose tables are apart: the marks and
\* what the cells hold stay, whatever is padded and wherever the "!" is kept.
THEOREM FormattingKeepsTheTables == Spec => []FormattingKeepsSeparateTables
<1>1. Typed => FormattingKeepsSeparateTables
  BY TextsKeepTheirTables DEF Typed, FormattingKeepsSeparateTables, FormattingKeepsTables,
     TablesApart
<1> QED BY <1>1, ToolsKeepTypes, PTL

\* A text whose tables are apart is formatted just once: each later save leaves it
\* as it is.
THEOREM FormattingSettles == Spec => []FormatsOnce
<1>1. Typed => FormatsOnce
  BY TextsFormattedTwice DEF Typed, FormatsOnce, TablesApart
<1> QED BY <1>1, ToolsKeepTypes, PTL

\* After every edit in the rich text editor the rows of every table are equally
\* wide, however many cells they have.
THEOREM TablesStayFilled == Spec => []RowsFillTheTable
<1>1. IInv => RowsFillTheTable
  BY DEF IInv, AllWide, WideBlock, Fills, RowsFillTheTable
<1> QED BY <1>1, AlwaysTyped, PTL

\* Whatever is pasted from a spreadsheet, the wiki text has all of it in it.
THEOREM SheetsAreNotDropped == Spec => []NothingDropped
<1>1. IInv => NothingDropped
  <2> SUFFICES ASSUME IInv
               PROVE  NothingDropped
    OBVIOUS
  <2>1. sheet \in Seq(SheetRow) /\ DOMAIN sheet = 1..Len(sheet)
    BY DEF IInv, Typed
  <2>2. /\ Len(GetFitNesseTables(sheet)) = Len(sheet)
        /\ \A i \in 1..Len(sheet) :
             ContentsOf(GetFitNesseTables(sheet)[i]) = Filled(sheet[i])
    BY <2>1, SheetsAreKept
  <2> QED BY <2>1, <2>2 DEF NothingDropped
<1> QED BY <1>1, AlwaysTyped, PTL

\* Tables that went to a spreadsheet and came back are the tables they were, for
\* texts of any size that are fit for it.
THEOREM SheetsKeepTables == Spec => []SpreadsheetKeepsTables
<1>1. Typed => SpreadsheetKeepsTables
  <2> SUFFICES ASSUME Typed, FitForSpreadsheet
               PROVE  TablesOf(GetFitNesseTables(ToSpreadsheet(text \o <<Blank>>))) = TablesOf(text)
    BY DEF SpreadsheetKeepsTables
  <2> DEFINE wiki == Append(text, Blank)
             n == Len(text)
  <2>1. text \in Seq(WikiLine) /\ n \in Nat /\ DOMAIN text = 1..n  BY DEF Typed
  <2>2. wiki \in Seq(WikiLine) /\ Len(wiki) = n + 1 /\ wiki[n + 1] = Blank /\ wiki = text \o <<Blank>>
    BY <2>1, BlankIsProse
  <2>3. \A i \in 1..n : wiki[i] = text[i]  BY <2>1
  <2> HIDE DEF wiki, n
  <2>4. Carriable(wiki)
    <3> SUFFICES ASSUME NEW i \in 1..Len(wiki)
                 PROVE  /\ IsRow(wiki[i]) =>
                             /\ i < Len(wiki)
                             /\ wiki[i].cells # <<>> /\ wiki[i].suffix = <<>>
                             /\ Last(wiki[i].cells) # <<>>
                             /\ i > 1 => IsRow(wiki[i - 1]) \/ wiki[i - 1] = Blank
                        /\ ~IsRow(wiki[i]) =>
                             wiki[i].suffix \notin Qualified \cup {Mark(m) : m \in Marks \ {""}}
      BY DEF Carriable
    <3>1. CASE i = n + 1
      <4>1. wiki[i] = Blank /\ ~IsRow(wiki[i]) /\ wiki[i].suffix = <<>>
        BY <2>2, <3>1, BlankIsProse DEF Blank, Line, TableRow
      <4>2. <<>> \notin Qualified  BY QualifiedAssumption
      <4>3. <<>> \notin {Mark(m) : m \in Marks \ {""}}  BY ListedMarks
      <4> QED BY <4>1, <4>2, <4>3
    <3>2. CASE i # n + 1
      <4>1. i \in 1..n /\ i \in DOMAIN text /\ i < Len(wiki)
        BY <2>1, <2>2, <3>2
      <4>2. wiki[i] = text[i]  BY <2>3, <4>1
      <4>3. i > 1 => i - 1 \in 1..n  BY <2>1, <4>1
      <4>4. i > 1 => wiki[i - 1] = text[i - 1]  BY <2>3, <4>3
      <4> QED BY <4>1, <4>2, <4>4 DEF FitForSpreadsheet
    <3> QED BY <3>1, <3>2
  <2>5. TablesOf(GetFitNesseTables(ToSpreadsheet(wiki))) = TablesOf(wiki)
    BY <2>2, <2>4, TablesAreCarried
  <2>6. TablesOf(wiki) = TablesOf(text)
    BY <2>1, BlankIsProse, ProseAdded DEF wiki
  <2> QED BY <2>2, <2>5, <2>6
<1> QED BY <1>1, ToolsKeepTypes, PTL

\* What the rich text editor shows is what it writes, with what is hidden and
\* what is literal, and what it reads again: for any document without empty rows.
THEOREM ShownTablesAreWritten == Spec => []WritesWhatItShows
<1>1. Typed => WritesWhatItShows
  <2> SUFFICES ASSUME Typed, NoEmptyRows(doc)
               PROVE  /\ TablesOf(DomToWikitext(doc)) = ShownTables(doc)
                      /\ ShownTables(WikitextToFragment(DomToWikitext(doc))) = ShownTables(doc)
    BY DEF WritesWhatItShows
  <2>1. doc \in Seq(Block)  BY DEF Typed
  <2>2. /\ DomToWikitext(doc) \in Seq(WikiLine) /\ WellFormed(DomToWikitext(doc))
        /\ TablesOf(DomToWikitext(doc)) = ShownTables(doc)
    BY <2>1, DocumentsKeepTables
  <2>3. Shows(WikitextToFragment(DomToWikitext(doc)), TablesOf(DomToWikitext(doc)))
    BY <2>2, FragmentsShowTables
  <2> QED BY <2>2, <2>3 DEF Shows
<1> QED BY <1>1, ToolsKeepTypes, PTL

\* A look at the rich text editor changes no table of a text, however many rows
\* and cells it has, if something separates its tables, its rows are whole and no
\* cell opens markup.
THEOREM LookingKeepsTables == Spec => []LookingChangesNothing
<1>1. Typed => LookingChangesNothing
  <2> SUFFICES ASSUME Typed, TablesApart, WholeRows(text), WithoutMarkup(text)
               PROVE  TablesOf(DomToWikitext(WikitextToFragment(text))) = TablesOf(text)
    BY DEF LookingChangesNothing
  <2>1. text \in Seq(WikiLine) /\ WellFormed(text)
    BY DEF Typed, WellFormed, TablesApart
  <2>2. Shows(WikitextToFragment(text), TablesOf(text))
    BY <2>1, FragmentsShowTables
  <2> QED BY <2>2, DocumentsKeepTables DEF Shows
<1> QED BY <1>1, ToolsKeepTypes, PTL

LEMMA EditKeepsTexts ==
  ASSUME IInv, NEW k \in Tables, NEW rows, Edit(k, rows),
         Joined(rows) = Joined(doc[k].rows)
  PROVE  TextsOf(doc') = TextsOf(doc)
<1>1. doc \in Seq(Block)  BY DEF IInv, Typed
<1>2. k \in DOMAIN doc /\ doc[k].table  BY DEF Tables
<1>3. doc[k] \in TableBlock
  <2>1. doc[k] \in Block  BY <1>1, <1>2
  <2> QED BY <1>2, <2>1, BlocksApart
<1> DEFINE new == [doc[k] EXCEPT !.rows = rows]
<1>4. new.table = doc[k].table /\ new.rows = rows  BY <1>3 DEF TableBlock
<1>5. doc' = [doc EXCEPT ![k] = new]  BY DEF Edit
<1>6. BlockTexts(new) = BlockTexts(doc[k])
  <2> HIDE DEF new
  <2>1. BlockTexts(new) = Joined(rows)
    BY <1>2, <1>4, Zenon DEF BlockTexts, Parts, Joined
  <2>2. BlockTexts(doc[k]) = Joined(doc[k].rows)
    BY <1>2, Zenon DEF BlockTexts, Parts, Joined
  <2> QED BY <2>1, <2>2, Zenon
<1> HIDE DEF new
<1>7. DOMAIN doc' = DOMAIN doc /\ \A j \in DOMAIN doc : doc'[j] = IF j = k THEN new ELSE doc[j]
  BY <1>1, <1>5
<1>8. \A j \in DOMAIN doc : BlockTexts(doc'[j]) = BlockTexts(doc[j])
  BY <1>6, <1>7
<1>9. [j \in DOMAIN doc' |-> BlockTexts(doc'[j])] = [j \in DOMAIN doc |-> BlockTexts(doc[j])]
  BY <1>7, <1>8
<1> QED BY <1>9 DEF TextsOf

LEMMA InsertKeepsTexts ==
  ASSUME IInv, Insert
  PROVE  TextsOf(doc') = TextsOf(doc)
<1>1. PICK k, i, c, after : Inserts(k, i, c, after)  BY InsertIsAnEdit
<1> DEFINE rows == doc[k].rows
<1>2. /\ k \in Tables /\ rows \in Seq(RichRow) /\ i \in DOMAIN rows /\ after \in BOOLEAN
      /\ c \in DOMAIN rows[i].cells /\ c \in Nat \ {0}
  BY <1>1 DEF Inserts
<1>3. \/ Edit(k, InsertTableCell(rows, i, c, after))
      \/ Edit(k, InsertTableRow(rows, i, after))
      \/ Edit(k, InsertTableColumn(rows, c, after))
  BY <1>1 DEF Inserts
<1>4. /\ Joined(InsertTableCell(rows, i, c, after)) = Joined(rows)
      /\ Joined(InsertTableRow(rows, i, after)) = Joined(rows)
      /\ Joined(InsertTableColumn(rows, c, after)) = Joined(rows)
  <2> HIDE DEF rows
  <2>1. Parts(InsertTableCell(rows, i, c, after)) = Parts(rows)
    BY <1>2, CellInsertionKeepsTexts
  <2>2. Parts(InsertTableColumn(rows, c, after)) = Parts(rows)
    BY <1>2, ColumnInsertionKeepsTexts
  <2>3. Joined(InsertTableRow(rows, i, after)) = Joined(rows)
    BY <1>2, RowInsertionKeepsTexts
  <2> QED BY <2>1, <2>2, <2>3, Zenon DEF Joined
<1> QED BY <1>2, <1>3, <1>4, EditKeepsTexts

\* Whatever is inserted into a table, a cell, a row or a column, no text of the
\* document is pushed out or goes to another place in the order.
THEOREM TextsStayInOrder == Spec => InsertingKeepsTexts
<1>1. IInv /\ [Next]_vars => [Insert => TextsOf(doc') = TextsOf(doc)]_vars
  BY InsertKeepsTexts
<1> QED BY <1>1, AlwaysTyped, PTL DEF Spec, InsertingKeepsTexts

===============================================================================
