----------------------------- MODULE RingLemmas -----------------------------
(***************************************************************************)
(* Facts that ring buffers need: the remainder of unsigned counters that   *)
(* wrap at U, a multiple of the P cells of the ring, and the sequence that *)
(* a stretch of cells holds.                                               *)
(***************************************************************************)
EXTENDS Integers, Sequences, SequenceTheorems, TLAPS

\* What % and \div mean.
LEMMA ModDef ==
  ASSUME NEW P \in Nat \ {0}, NEW x \in Int
  PROVE  /\ (x % P) \in 0..P - 1
         /\ (x \div P) \in Int
         /\ x = P * (x \div P) + (x % P)
  OBVIOUS

\* The remainder is the only number below P that is x less a multiple of P.
LEMMA ModUnique ==
  ASSUME NEW P \in Nat \ {0}, NEW q \in Int, NEW r \in 0..P - 1
  PROVE  (P * q + r) % P = r
  OBVIOUS

\* A counter that has not reached U, and one that has passed it once.
LEMMA ModSmall ==
  ASSUME NEW U \in Nat \ {0}, NEW x \in 0..U - 1
  PROVE  x % U = x
  OBVIOUS

LEMMA ModOnce ==
  ASSUME NEW U \in Nat \ {0}, NEW x \in U..2 * U - 1
  PROVE  x % U = x - U
  OBVIOUS

\* A counter k steps further on, and how far counter b is ahead of counter a.
LEMMA ModPlus ==
  ASSUME NEW U \in Nat \ {0}, NEW a \in 0..U - 1, NEW k \in 0..U - 1
  PROVE  (a + k) % U = IF a + k < U THEN a + k ELSE a + k - U
<1>1. CASE a + k < U
  BY <1>1, ModSmall
<1>2. CASE a + k >= U
  <2>1. a + k \in U..2 * U - 1
    BY <1>2
  <2> QED
    BY <1>2, <2>1, ModOnce
<1> QED
  BY <1>1, <1>2

LEMMA ModAhead ==
  ASSUME NEW U \in Nat \ {0}, NEW a \in 0..U - 1, NEW b \in 0..U - 1
  PROVE  (b + U - a) % U = IF a <= b THEN b - a ELSE b + U - a
<1>1. CASE a <= b
  <2>1. b + U - a \in U..2 * U - 1
    BY <1>1
  <2>2. (b + U - a) % U = (b + U - a) - U
    BY <2>1, ModOnce
  <2> QED
    BY <1>1, <2>2
<1>2. CASE b < a
  <2>1. b + U - a \in 0..U - 1
    BY <1>2
  <2> QED
    BY <1>2, <2>1, ModSmall
<1> QED
  BY <1>1, <1>2

LEMMA MulBound ==
  ASSUME NEW P \in Nat \ {0}, NEW d \in Int, P * d > 0
  PROVE  P * d >= P
  OBVIOUS

\* Two places less than P apart are different cells of the ring.
LEMMA ModApart ==
  ASSUME NEW P \in Nat \ {0}, NEW a \in Int, NEW b \in Int, a < b, b < a + P
  PROVE  a % P # b % P
<1> SUFFICES ASSUME a % P = b % P PROVE FALSE
  OBVIOUS
<1> DEFINE qa == a \div P
           qb == b \div P
<1>1. qa \in Int /\ qb \in Int /\ a = P * qa + (a % P) /\ b = P * qb + (b % P)
  BY ModDef
<1>2. (a % P) \in Int
  BY ModDef
<1> HIDE DEF qa, qb
<1>3. b - a = P * (qb - qa)
  BY <1>1, <1>2
<1> QED
  BY <1>1, <1>3, MulBound

LEMMA ModAdd ==
  ASSUME NEW P \in Nat \ {0}, NEW q \in Int, NEW k \in Int, NEW r \in 0..P - 1
  PROVE  ((P * q + r) + P * k) % P = r
<1>1. (P * q + r) + P * k = P * (q + k) + r
  OBVIOUS
<1> QED
  BY <1>1, ModUnique

\* Wrapping a counter at a multiple of P leaves its cell the same.
LEMMA ModShift ==
  ASSUME NEW P \in Nat \ {0}, NEW U \in Nat, U % P = 0, NEW a \in Int
  PROVE  (a + U) % P = a % P
<1>1. PICK q \in Int, r \in 0..P - 1 : a = P * q + r /\ r = a % P
  BY ModDef
<1>2. PICK k \in Int : U = P * k
  <2>1. (U \div P) \in Int /\ U = P * (U \div P)
    BY ModDef
  <2> QED
    BY <2>1
<1>3. a + U = (P * q + r) + P * k
  BY <1>1, <1>2
<1>4. ((P * q + r) + P * k) % P = r
  BY ModAdd
<1> QED
  BY <1>1, <1>3, <1>4

\* The difference of two unsigned counters.
LEMMA ModDiff ==
  ASSUME NEW U \in Nat \ {0}, NEW a \in 0..U - 1, NEW b \in 0..U - 1
  PROVE  (b - a) % U = IF a <= b THEN b - a ELSE b + U - a
<1>1. CASE a <= b
  BY <1>1, ModSmall
<1>2. CASE b < a
  <2>1. b - a = U * (0 - 1) + (b + U - a) /\ b + U - a \in 0..U - 1
    BY <1>2
  <2>2. (U * (0 - 1) + (b + U - a)) % U = b + U - a
    BY <2>1, ModUnique
  <2> QED
    BY <1>2, <2>1, <2>2
<1> QED
  BY <1>1, <1>2

-----------------------------------------------------------------------------
(***************************************************************************)
(* The cells of a ring.                                                    *)
(***************************************************************************)

\* A ring of P cells.
Ring(P, S) == [0..P - 1 -> S]

\* The cell that index x names.  Hiding % keeps it from the arithmetic of the solver.
Wrap(x, P) == x % P

\* Ring d after c is put into the cell of index x.
Store(d, P, x, c) == [d EXCEPT ![Wrap(x, P)] = c]

LEMMA WrapCell ==
  ASSUME NEW P \in Nat \ {0}, NEW x \in Int
  PROVE  Wrap(x, P) \in 0..P - 1
  BY ModDef DEF Wrap

LEMMA WrapApart ==
  ASSUME NEW P \in Nat \ {0}, NEW a \in Int, NEW b \in Int, a < b, b < a + P
  PROVE  Wrap(a, P) # Wrap(b, P)
  BY ModApart DEF Wrap

LEMMA WrapShift ==
  ASSUME NEW P \in Nat \ {0}, NEW U \in Nat, U % P = 0, NEW a \in Int
  PROVE  Wrap(a + U, P) = Wrap(a, P)
  BY ModShift DEF Wrap

\* The n cells of ring d of size P from index i on.
Cells(d, P, i, n) == [k \in 1..n |-> d[Wrap(i + k - 1, P)]]

LEMMA CellsSeq ==
  ASSUME NEW S, NEW P \in Nat \ {0}, NEW d \in Ring(P, S), NEW i \in Int, NEW n \in Nat
  PROVE  /\ Cells(d, P, i, n) \in Seq(S)
         /\ Len(Cells(d, P, i, n)) = n
         /\ \A k \in 1..n : Cells(d, P, i, n)[k] = d[Wrap(i + k - 1, P)]
<1> DEFINE c == Cells(d, P, i, n)
<1>1. \A k \in 1..n : d[Wrap(i + k - 1, P)] \in S
  <2> SUFFICES ASSUME NEW k \in 1..n PROVE Wrap(i + k - 1, P) \in 0..P - 1
    BY DEF Ring
  <2>1. i + k - 1 \in Int
    OBVIOUS
  <2> QED
    BY <2>1, WrapCell
<1>2. c \in [1..n -> S] /\ \A k \in 1..n : c[k] = d[Wrap(i + k - 1, P)]
  BY <1>1 DEF Cells
<1>3. c \in Seq(S) /\ Len(c) = n
  <2> HIDE DEF c
  <2> QED
    BY <1>2
<1> QED
  BY <1>2, <1>3

\* The same without the cells, which the solver need not look at then.
LEMMA CellsLen ==
  ASSUME NEW S, NEW P \in Nat \ {0}, NEW d \in Ring(P, S), NEW i \in Int, NEW n \in Nat
  PROVE  Cells(d, P, i, n) \in Seq(S) /\ Len(Cells(d, P, i, n)) = n
  BY CellsSeq

\* Two stretches are equal when their cells are.
LEMMA CellsEqual ==
  ASSUME NEW S, NEW P \in Nat \ {0}, NEW d \in Ring(P, S), NEW i \in Int, NEW n \in Nat,
         NEW s \in Seq(S), Len(s) = n, \A k \in 1..n : s[k] = d[Wrap(i + k - 1, P)]
  PROVE  s = Cells(d, P, i, n)
  BY CellsSeq, SeqEqual

\* A counter that wraps names the same cells.
LEMMA CellsWrap ==
  ASSUME NEW P \in Nat \ {0}, NEW U \in Nat, U % P = 0,
         NEW d, NEW i \in Int, NEW n \in Nat
  PROVE  Cells(d, P, i + U, n) = Cells(d, P, i, n)
<1>1. \A k \in 1..n : Wrap((i + U) + k - 1, P) = Wrap(i + k - 1, P)
  <2> SUFFICES ASSUME NEW k \in 1..n PROVE Wrap((i + U) + k - 1, P) = Wrap(i + k - 1, P)
    OBVIOUS
  <2>1. (i + U) + k - 1 = (i + k - 1) + U /\ i + k - 1 \in Int
    OBVIOUS
  <2>2. Wrap((i + k - 1) + U, P) = Wrap(i + k - 1, P)
    BY <2>1, WrapShift
  <2> QED
    BY <2>1, <2>2
<1> QED
  BY <1>1 DEF Cells

\* The first cell is given up.
LEMMA CellsTail ==
  ASSUME NEW S, NEW P \in Nat \ {0}, NEW d \in Ring(P, S), NEW i \in Int, NEW n \in Nat, n > 0
  PROVE  Tail(Cells(d, P, i, n)) = Cells(d, P, i + 1, n - 1) /\ Cells(d, P, i, n) # <<>>
<1> DEFINE c == Cells(d, P, i, n)
<1>0. n - 1 \in Nat
  OBVIOUS
<1>1. c \in Seq(S) /\ Len(c) = n /\ \A k \in 1..n : c[k] = d[Wrap(i + k - 1, P)]
  BY CellsSeq
<1> HIDE DEF c
<1>2. c # <<>>
  BY <1>1
<1>3. Tail(c) \in Seq(S) /\ Len(Tail(c)) = n - 1 /\ \A k \in 1..n - 1 : Tail(c)[k] = c[k + 1]
  BY <1>1, <1>2, HeadTailProperties
<1>4. \A k \in 1..n - 1 : Tail(c)[k] = d[Wrap((i + 1) + k - 1, P)]
  <2> SUFFICES ASSUME NEW k \in 1..n - 1 PROVE Tail(c)[k] = d[Wrap((i + 1) + k - 1, P)]
    OBVIOUS
  <2>1. k + 1 \in 1..n /\ i + (k + 1) - 1 = (i + 1) + k - 1
    OBVIOUS
  <2> QED
    BY <1>1, <1>3, <2>1
<1>5. i + 1 \in Int /\ n - 1 \in Nat
  OBVIOUS
<1>6. Tail(c) = Cells(d, P, i + 1, n - 1)
  BY <1>3, <1>4, <1>5, CellsEqual
<1> QED
  BY <1>2, <1>6 DEF c

\* The last cell is given up.
LEMMA CellsFront ==
  ASSUME NEW S, NEW P \in Nat \ {0}, NEW d \in Ring(P, S), NEW i \in Int, NEW n \in Nat, n > 0
  PROVE  SubSeq(Cells(d, P, i, n), 1, n - 1) = Cells(d, P, i, n - 1)
<1> DEFINE c == Cells(d, P, i, n)
<1>0. n - 1 \in Nat
  OBVIOUS
<1>1. c \in Seq(S) /\ Len(c) = n /\ \A k \in 1..n : c[k] = d[Wrap(i + k - 1, P)]
  BY CellsSeq
<1> HIDE DEF c
<1>2. \A k \in 1..n - 1 : c[k] \in S
  BY <1>1
<1>3. /\ SubSeq(c, 1, n - 1) \in Seq(S) /\ Len(SubSeq(c, 1, n - 1)) = n - 1
      /\ \A k \in 1..n - 1 : SubSeq(c, 1, n - 1)[k] = c[k]
  BY <1>1, <1>2, SubSeqProperties
<1>4. \A k \in 1..n - 1 : SubSeq(c, 1, n - 1)[k] = d[Wrap(i + k - 1, P)]
  BY <1>1, <1>3
<1>5. SubSeq(c, 1, n - 1) = Cells(d, P, i, n - 1)
  BY <1>0, <1>3, <1>4, CellsEqual
<1> QED
  BY <1>5 DEF c

\* Two stretches that meet.  An equality is written as two inequalities, so that the
\* solver does not solve it and the lemma can be found.
LEMMA CellsCat ==
  ASSUME NEW S, NEW P \in Nat \ {0}, NEW d \in Ring(P, S), NEW i \in Int,
         NEW m \in Nat, NEW n \in Nat,
         NEW j \in Int, j <= i + m, i + m <= j, NEW l \in Nat, l <= m + n, m + n <= l
  PROVE  Cells(d, P, i, m) \o Cells(d, P, j, n) = Cells(d, P, i, l)
<1> DEFINE a == Cells(d, P, i, m)
           b == Cells(d, P, i + m, n)
<1>0. i + m \in Int /\ m + n \in Nat
  OBVIOUS
<1>1. a \in Seq(S) /\ Len(a) = m /\ \A k \in 1..m : a[k] = d[Wrap(i + k - 1, P)]
  BY CellsSeq
<1>2. b \in Seq(S) /\ Len(b) = n /\ \A k \in 1..n : b[k] = d[Wrap((i + m) + k - 1, P)]
  <2> DEFINE o == i + m
  <2>1. o \in Int
    OBVIOUS
  <2> HIDE DEF o
  <2>2. LET s == Cells(d, P, o, n)
        IN  s \in Seq(S) /\ Len(s) = n /\ \A k \in 1..n : s[k] = d[Wrap(o + k - 1, P)]
    BY <2>1, CellsSeq
  <2> QED
    BY <2>2 DEF o
<1> HIDE DEF a, b
<1>3. /\ a \o b \in Seq(S) /\ Len(a \o b) = m + n
      /\ \A k \in 1..m + n : (a \o b)[k] = IF k <= m THEN a[k] ELSE b[k - m]
  BY <1>1, <1>2, ConcatProperties
<1>4. \A k \in 1..m + n : (a \o b)[k] = d[Wrap(i + k - 1, P)]
  <2> SUFFICES ASSUME NEW k \in 1..m + n PROVE (a \o b)[k] = d[Wrap(i + k - 1, P)]
    OBVIOUS
  <2>1. CASE k <= m
    BY <1>1, <1>3, <2>1
  <2>2. CASE k > m
    <3>1. k - m \in 1..n /\ (i + m) + (k - m) - 1 = i + k - 1
      BY <2>2
    <3>2. b[k - m] = d[Wrap((i + m) + (k - m) - 1, P)]
      BY <1>2, <3>1
    <3>3. (a \o b)[k] = b[k - m]
      <4>1. ~(k <= m)
        BY <2>2
      <4> QED
        BY <1>3, <4>1
    <3> QED
      BY <3>1, <3>2, <3>3
  <2>3. k <= m \/ k > m
    OBVIOUS
  <2> QED
    BY <2>1, <2>2, <2>3
<1>5. j = i + m /\ l = m + n
  OBVIOUS
<1> DEFINE s == a \o b
<1>6. s \in Seq(S) /\ Len(s) = l /\ \A k \in 1..l : s[k] = d[Wrap(i + k - 1, P)]
  BY <1>3, <1>4, <1>5
<1> HIDE DEF s
<1>7. s = Cells(d, P, i, l)
  BY <1>6, CellsEqual
<1> QED
  BY <1>5, <1>7 DEF a, b, s

\* A cell is written behind the n cells of a stretch: they are kept.
LEMMA CellsKept ==
  ASSUME NEW S, NEW P \in Nat \ {0}, NEW d \in Ring(P, S), NEW i \in Int,
         NEW n \in Nat, NEW x \in Int, i + n <= x, x < i + P, NEW c \in S
  PROVE  Cells(Store(d, P, x, c), P, i, n) = Cells(d, P, i, n)
<1> DEFINE f == Store(d, P, x, c)
<1>1. \A k \in 1..n : f[Wrap(i + k - 1, P)] = d[Wrap(i + k - 1, P)]
  <2> SUFFICES ASSUME NEW k \in 1..n PROVE f[Wrap(i + k - 1, P)] = d[Wrap(i + k - 1, P)]
    OBVIOUS
  <2>1. i + k - 1 \in Int /\ i + k - 1 < x /\ x < (i + k - 1) + P
    OBVIOUS
  <2>2. Wrap(i + k - 1, P) # Wrap(x, P)
    BY <2>1, WrapApart
  <2>3. Wrap(i + k - 1, P) \in 0..P - 1
    BY <2>1, WrapCell
  <2> QED
    BY <2>2, <2>3 DEF Ring, Store
<1> QED
  BY <1>1 DEF Cells

\* A cell is written right behind the stretch.
LEMMA CellsStore ==
  ASSUME NEW S, NEW P \in Nat \ {0}, NEW d \in Ring(P, S), NEW i \in Int,
         NEW n \in Nat, n < P, NEW c \in S
  PROVE  Cells(Store(d, P, i + n, c), P, i, n + 1) = Append(Cells(d, P, i, n), c)
<1> DEFINE f == Store(d, P, i + n, c)
           a == Cells(d, P, i, n)
<1>0. i + n \in Int /\ n + 1 \in Nat /\ i + (n + 1) - 1 = i + n /\ i + n <= i + n /\ i + n < i + P
  OBVIOUS
<1>1. a \in Seq(S) /\ Len(a) = n
  BY CellsLen
<1>2. f \in Ring(P, S) /\ f[Wrap(i + n, P)] = c
  BY <1>0, WrapCell DEF Ring, Store
<1>3. Cells(f, P, i, n) = a
  BY <1>0, CellsKept
<1> HIDE DEF f
<1>4. \A k \in 1..n : f[Wrap(i + k - 1, P)] = a[k]
  <2>1. \A k \in 1..n : Cells(f, P, i, n)[k] = f[Wrap(i + k - 1, P)]
    BY <1>2, CellsSeq
  <2> QED
    BY <1>3, <2>1
<1> HIDE DEF a
<1>5. /\ Append(a, c) \in Seq(S) /\ Len(Append(a, c)) = n + 1
      /\ \A k \in 1..n : Append(a, c)[k] = a[k]
      /\ Append(a, c)[n + 1] = c
  BY <1>1, AppendProperties
<1>6. \A k \in 1..n + 1 : Append(a, c)[k] = f[Wrap(i + k - 1, P)]
  <2> SUFFICES ASSUME NEW k \in 1..n + 1 PROVE Append(a, c)[k] = f[Wrap(i + k - 1, P)]
    OBVIOUS
  <2>1. k \in 1..n \/ k = n + 1
    BY <1>0
  <2> QED
    BY <1>0, <1>2, <1>4, <1>5, <2>1
<1>7. Append(a, c) = Cells(f, P, i, n + 1)
  BY <1>0, <1>2, <1>5, <1>6, CellsEqual
<1> QED
  BY <1>7 DEF f, a


\* A cell is written behind two stretches that meet: the first is kept, and the two
\* with the new cell are one stretch.
LEMMA CellsTwo ==
  ASSUME NEW S, NEW P \in Nat \ {0}, NEW d \in Ring(P, S), NEW i \in Int,
         NEW m \in Nat, NEW n \in Nat, m + n < P, NEW c \in S,
         NEW j \in Int, j <= i + m, i + m <= j,
         NEW x \in Int, x <= j + n, j + n <= x
  PROVE  /\ Cells(Store(d, P, x, c), P, i, m) = Cells(d, P, i, m)
         /\ Cells(Store(d, P, x, c), P, i, m + n + 1)
              = Append(Cells(d, P, i, m) \o Cells(d, P, j, n), c)
<1> DEFINE l == m + n
<1>1. l \in Nat /\ l <= m + n /\ m + n <= l /\ l < P
  OBVIOUS
<1>2. x = i + (m + n) /\ i + m <= x /\ x < i + P
  OBVIOUS
<1> HIDE DEF l
<1>3. Cells(d, P, i, m) \o Cells(d, P, j, n) = Cells(d, P, i, l)
  BY <1>1, CellsCat
<1>4. Cells(Store(d, P, i + l, c), P, i, l + 1) = Append(Cells(d, P, i, l), c)
  BY <1>1, CellsStore
<1>5. Cells(Store(d, P, x, c), P, i, m) = Cells(d, P, i, m)
  BY <1>2, CellsKept
<1> QED
  BY <1>2, <1>3, <1>4, <1>5 DEF l
=============================================================================
