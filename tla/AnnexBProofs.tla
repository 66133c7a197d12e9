----------------------------- MODULE AnnexBProofs -----------------------------
(***************************************************************************)
(* What the operators of AnnexB yield for all units: the conversion of the *)
(* encoder's buffer is Annex B, and on Annex B both scanners find an IDR   *)
(* exactly when a unit is one.  Induction is over sets of numbers, by the  *)
(* well-foundedness of <, so that a recursive function is first shown to   *)
(* satisfy its equation, and then reasoned about from it.                  *)
(***************************************************************************)
EXTENDS AnnexB, WellFoundedInduction, SequenceTheorems, TLAPS

-----------------------------------------------------------------------------
(* Induction. *)

LEMMA LeastNumber ==
  ASSUME NEW T \in SUBSET Nat, T # {}
  PROVE  \E m \in T : \A k \in T : m <= k
<1>1. PICK R : IsWellFoundedOn(R, Nat) /\ \A k, m \in Nat : k < m => <<k, m>> \in R
  <2>1. \A k, m \in Nat : k < m => <<k, m>> \in OpToRel(<, Nat) BY DEF OpToRel
  <2> QED BY <2>1, NatLessThanWellFounded, Zenon
<1>2. \E m \in T : \A k \in T : ~(<<k, m>> \in R)
  <2>1. IsWellFoundedOn(R, Nat) BY <1>1
  <2>2. T \subseteq Nat OBVIOUS
  <2> QED BY <2>1, <2>2, WFMin, Zenon
<1>3. \A k, m \in Nat : m <= k \/ k < m OBVIOUS
<1> QED BY <1>1, <1>2, <1>3

LEMMA Induction ==
  ASSUME NEW S \in SUBSET Nat, 0 \in S, \A n \in S : n + 1 \in S
  PROVE  S = Nat
<1> SUFFICES ASSUME Nat \ S # {} PROVE FALSE OBVIOUS
<1>1. PICK m \in Nat \ S : \A k \in Nat \ S : m <= k BY LeastNumber
<1>2. m # 0 /\ m - 1 \in Nat /\ m - 1 < m /\ m - 1 \in S BY <1>1
<1>3. m - 1 + 1 \in S BY <1>2
<1> QED BY <1>1, <1>2, <1>3

-----------------------------------------------------------------------------
(* Sequences in sequences. *)

LEMMA ConcatParts ==
  ASSUME NEW S, NEW s \in Seq(S), NEW t \in Seq(S)
  PROVE  /\ s \o t \in Seq(S)
         /\ Len(s) \in Nat /\ Len(t) \in Nat /\ Len(s \o t) = Len(s) + Len(t)
         /\ \A j \in 1..Len(s) : (s \o t)[j] = s[j]
         /\ \A j \in 1..Len(t) : (s \o t)[Len(s) + j] = t[j]
<1> DEFINE m == Len(s)
           n == Len(t)
           c == s \o t
<1>1. m \in Nat /\ n \in Nat BY LenProperties
<1>2. /\ c \in Seq(S) /\ Len(c) = m + n
      /\ \A j \in 1..(m + n) : c[j] = IF j <= m THEN s[j] ELSE t[j - m]
  BY ConcatProperties
<1> HIDE DEF m, n, c
<1>3. \A j \in 1..m : c[j] = s[j] BY <1>1, <1>2
<1>4. ASSUME NEW j \in 1..n PROVE c[m + j] = t[j]
  <2>1. m + j \in 1..(m + n) /\ ~(m + j <= m) /\ (m + j) - m = j BY <1>1
  <2> QED BY <1>2, <2>1
<1> QED BY <1>1, <1>2, <1>3, <1>4 DEF m, n, c

Joined(s, t) ==
  /\ Len(s \o t) = Len(s) + Len(t)
  /\ \A j \in 1..Len(s) : (s \o t)[j] = s[j]
  /\ \A j \in 1..Len(t) : (s \o t)[Len(s) + j] = t[j]

LEMMA ConcatJoined ==
  ASSUME NEW S, NEW s \in Seq(S), NEW t \in Seq(S)
  PROVE  Joined(s, t)
BY ConcatParts DEF Joined

LEMMA SubSeqIs ==
  ASSUME NEW S, NEW s \in Seq(S), NEW u \in Seq(S), NEW o \in Nat, o + Len(u) <= Len(s),
         \A j \in 1..Len(u) : s[o + j] = u[j]
  PROVE  SubSeq(s, o + 1, o + Len(u)) = u
<1> DEFINE n == Len(u)
           L == Len(s)
           a == o + 1
           b == o + n
           p == SubSeq(s, a, b)
<1>1. n \in Nat /\ L \in Nat BY LenProperties
<1>2. \A j \in 1..L : s[j] \in S BY ElementOfSeq
<1>3. o + n <= L /\ \A j \in 1..n : s[o + j] = u[j] OBVIOUS
<1> HIDE DEF n, L
<1>4. a \in Int /\ b \in Int /\ \A j \in a..b : j \in 1..L BY <1>1, <1>3
<1>5. /\ b - a + 1 = n /\ (IF a <= b THEN b - a + 1 ELSE 0) = n
      /\ \A j \in 1..n : a + j - 1 = o + j
  BY <1>1
<1> HIDE DEF a, b
<1>6. \A j \in a..b : s[j] \in S BY <1>2, <1>4
<1>7. /\ p \in Seq(S) /\ Len(p) = IF a <= b THEN b - a + 1 ELSE 0
      /\ \A j \in 1..(b - a + 1) : p[j] = s[a + j - 1]
  BY <1>4, <1>6, SubSeqProperties
<1> HIDE DEF p
<1>8. p \in Seq(S) /\ Len(p) = Len(u) /\ \A j \in 1..Len(p) : p[j] = u[j]
  BY <1>3, <1>5, <1>7 DEF n
<1>9. p = u BY <1>8, SeqEqual
<1> QED BY <1>9 DEF p, a, b, n

-----------------------------------------------------------------------------
(* Joining sequences. *)

(* The function that FlattenSeq(seqs) takes its value from. *)
IsFlattening(f, seqs) ==
  f = [i \in 1..Len(seqs) |-> IF i = 1 THEN seqs[i] ELSE f[i - 1] \o seqs[i]]

LEMMA Flattening ==
  ASSUME NEW seqs, NEW n \in Nat \ {0}, Len(seqs) = n
  PROVE  \E f : /\ f[1] = seqs[1]
                /\ \A i \in 1..(n - 1) : f[i + 1] = f[i] \o seqs[i + 1]
                /\ FlattenSeq(seqs) = f[n]
<1> DEFINE Body(g, i) == IF i = 1 THEN seqs[i] ELSE g[i - 1] \o seqs[i]
           To(g, k) == g = [i \in 1..k |-> Body(g, i)]
           S == {k \in Nat : \E g : To(g, k)}
<1>1. /\ \A g, h : Body(g, 1) = Body(h, 1)
      /\ \A g, h : \A i \in Nat : g[i - 1] = h[i - 1] => Body(g, i) = Body(h, i)
  OBVIOUS
<1>2. \A g : To(g, Len(seqs)) => IsFlattening(g, seqs) BY DEF IsFlattening
<1> HIDE DEF Body
<1>3. 0 \in S
  <2> DEFINE g == [i \in 1..0 |-> Body(<<>>, i)]
  <2>1. To(g, 0) OBVIOUS
  <2> QED BY <2>1
<1>4. ASSUME NEW k \in S PROVE k + 1 \in S
  <2>1. k \in Nat /\ \E g : To(g, k) OBVIOUS
  <2>2. PICK g : To(g, k) BY <2>1
  <2> DEFINE h == [i \in 1..(k + 1) |-> Body(g, i)]
  <2>3. \A i \in 1..k : h[i] = g[i] BY <2>1, <2>2
  <2>4. ASSUME NEW i \in 1..(k + 1) PROVE Body(g, i) = Body(h, i)
    <3>1. i = 1 \/ (i \in Nat /\ i - 1 \in 1..k) BY <2>1
    <3> HIDE DEF h
    <3> QED BY <2>3, <3>1, <1>1
  <2>5. To(h, k + 1) BY <2>4
  <2> HIDE DEF h, To
  <2> QED BY <2>1, <2>5
<1>5. S = Nat
  <2>1. S \in SUBSET Nat OBVIOUS
  <2> HIDE DEF S
  <2> QED BY <1>3, <1>4, <2>1, Induction
<1>6. \E f : IsFlattening(f, seqs) BY <1>2, <1>5
<1> DEFINE f == CHOOSE f : f = [i \in 1..Len(seqs) |->
                  IF i = 1 THEN seqs[i] ELSE f[i - 1] \o seqs[i]]
<1>7. IsFlattening(f, seqs) BY <1>6, Zenon DEF IsFlattening
<1>8. FlattenSeq(seqs) = f[Len(seqs)] BY Zenon DEF FlattenSeq
<1> HIDE DEF f
<1>9. f[1] = seqs[1] BY <1>7 DEF IsFlattening
<1>10. \A i \in 1..(n - 1) : f[i + 1] = f[i] \o seqs[i + 1]
  <2> SUFFICES ASSUME NEW i \in 1..(n - 1) PROVE f[i + 1] = f[i] \o seqs[i + 1] OBVIOUS
  <2>1. i + 1 \in 1..Len(seqs) /\ i + 1 # 1 /\ (i + 1) - 1 = i OBVIOUS
  <2> QED BY <1>7, <2>1 DEF IsFlattening
<1> QED BY <1>8, <1>9, <1>10

LEMMA FunctionIsSeq ==
  ASSUME NEW S, NEW n \in Nat, NEW f \in [1..n -> S]
  PROVE  f \in Seq(S) /\ Len(f) = n
<1>1. f \in Seq(S) BY SeqDef
<1>2. DOMAIN f = 1..Len(f) /\ Len(f) \in Nat BY <1>1, LenProperties
<1>3. 1..n = 1..Len(f) BY <1>2
<1>4. n = Len(f)
  <2>1. n < Len(f) => Len(f) \in 1..Len(f) /\ Len(f) \notin 1..n BY <1>2
  <2>2. Len(f) < n => n \in 1..n /\ n \notin 1..Len(f) BY <1>2
  <2> QED BY <1>2, <1>3, <2>1, <2>2
<1> QED BY <1>1, <1>4

LEMMA FlattenNone ==
  ASSUME NEW S, NEW f \in [1..0 -> S]
  PROVE  FlattenSeq(f) = <<>>
<1>1. f \in Seq(S) /\ Len(f) = 0 BY FunctionIsSeq
<1>2. f = <<>> BY <1>1, EmptySeq
<1> QED BY <1>1, <1>2 DEF FlattenSeq

LEMMA FlattenOne ==
  ASSUME NEW S, NEW f \in [1..1 -> S]
  PROVE  FlattenSeq(f) = f[1]
<1>1. Len(f) = 1 BY FunctionIsSeq
<1>2. 1 \in Nat \ {0} OBVIOUS
<1>3. PICK g : g[1] = f[1] /\ FlattenSeq(f) = g[1] BY <1>1, <1>2, Flattening, Zenon
<1> QED BY <1>3

LEMMA FlattenNext ==
  ASSUME NEW S, NEW n \in Nat, NEW f \in [1..n -> Seq(S)], NEW g \in [1..(n + 1) -> Seq(S)],
         \A i \in 1..n : g[i] = f[i]
  PROVE  FlattenSeq(g) = FlattenSeq(f) \o g[n + 1]
<1>1. Len(f) = n /\ Len(g) = n + 1
  <2>1. n + 1 \in Nat OBVIOUS
  <2> QED BY <2>1, FunctionIsSeq
<1>2. CASE n = 0
  <2>1. FlattenSeq(f) = <<>> BY <1>2, FlattenNone
  <2>2. FlattenSeq(g) = g[1] BY <1>2, FlattenOne
  <2>3. <<>> \o g[1] = g[1] BY <1>2, ConcatEmptySeq
  <2> QED BY <1>2, <2>1, <2>2, <2>3
<1>3. CASE n # 0
  <2>1. PICK F : /\ F[1] = f[1]
                 /\ \A i \in 1..(n - 1) : F[i + 1] = F[i] \o f[i + 1]
                 /\ FlattenSeq(f) = F[n]
    <3>1. n \in Nat \ {0} BY <1>3
    <3> QED BY <1>1, <3>1, Flattening, Zenon
  <2>2. PICK G : /\ G[1] = g[1]
                 /\ \A i \in 1..((n + 1) - 1) : G[i + 1] = G[i] \o g[i + 1]
                 /\ FlattenSeq(g) = G[n + 1]
    <3>1. n + 1 \in Nat \ {0} OBVIOUS
    <3> QED BY <1>1, <3>1, Flattening, Zenon
  <2> DEFINE T == {k \in Nat : k \in 1..n => G[k] = F[k]}
  <2>3. 0 \in T OBVIOUS
  <2>4. ASSUME NEW k \in T PROVE k + 1 \in T
    <3> SUFFICES ASSUME k + 1 \in 1..n PROVE G[k + 1] = F[k + 1] OBVIOUS
    <3>1. k \in Nat /\ k + 1 \in 1..(n + 1) /\ g[k + 1] = f[k + 1] OBVIOUS
    <3>2. CASE k = 0 BY <2>1, <2>2, <3>1, <3>2
    <3>3. CASE k # 0
      <4>1. k \in 1..n /\ k \in 1..(n - 1) /\ G[k] = F[k] BY <3>1, <3>3
      <4>2. k \in 1..((n + 1) - 1) BY <4>1
      <4>3. F[k + 1] = F[k] \o f[k + 1] BY <2>1, <4>1, Zenon
      <4>4. G[k + 1] = G[k] \o g[k + 1] BY <2>2, <4>2, Zenon
      <4> QED BY <3>1, <4>1, <4>3, <4>4, Zenon
    <3> QED BY <3>2, <3>3
  <2>5. T = Nat
    <3>1. T \in SUBSET Nat OBVIOUS
    <3> HIDE DEF T
    <3> QED BY <2>3, <2>4, <3>1, Induction
  <2>6. n \in 1..n BY <1>3
  <2>7. G[n] = F[n] BY <2>5, <2>6
  <2>8. n \in 1..((n + 1) - 1) BY <2>6
  <2>9. G[n + 1] = G[n] \o g[n + 1] BY <2>2, <2>8, Zenon
  <2> QED BY <2>1, <2>2, <2>7, <2>9, Zenon
<1> QED BY <1>2, <1>3

LEMMA FlattenType ==
  ASSUME NEW S, NEW n \in Nat, NEW f \in [1..n -> Seq(S)]
  PROVE  FlattenSeq(f) \in Seq(S)
<1> DEFINE T == {k \in Nat : \A g \in [1..k -> Seq(S)] : FlattenSeq(g) \in Seq(S)}
<1>1. 0 \in T BY FlattenNone, EmptySeq
<1>2. ASSUME NEW k \in T PROVE k + 1 \in T
  <2>1. k \in Nat OBVIOUS
  <2> SUFFICES ASSUME NEW g \in [1..(k + 1) -> Seq(S)] PROVE FlattenSeq(g) \in Seq(S) BY <2>1
  <2> DEFINE h == [i \in 1..k |-> g[i]]
  <2>2. h \in [1..k -> Seq(S)] /\ \A i \in 1..k : g[i] = h[i] BY <2>1
  <2>3. FlattenSeq(h) \in Seq(S) BY <2>2
  <2>4. g[k + 1] \in Seq(S) BY <2>1
  <2> HIDE DEF h
  <2>5. FlattenSeq(g) = FlattenSeq(h) \o g[k + 1] BY <2>1, <2>2, FlattenNext
  <2> QED BY <2>3, <2>4, <2>5, ConcatProperties
<1>3. T = Nat
  <2>1. T \in SUBSET Nat OBVIOUS
  <2> HIDE DEF T
  <2> QED BY <1>1, <1>2, <2>1, Induction
<1> QED BY <1>3

(* The first m elements, and the n elements behind them. *)
Leading(f, m) == [i \in 1..m |-> f[i]]
Behind(f, m, n) == [i \in 1..n |-> f[m + i]]

LEMMA FlattenSplit ==
  ASSUME NEW S, NEW m \in Nat, NEW n \in Nat, NEW f \in [1..(m + n) -> Seq(S)]
  PROVE  FlattenSeq(f) = FlattenSeq(Leading(f, m)) \o FlattenSeq(Behind(f, m, n))
<1> DEFINE Splits(k) == \A g \in [1..(m + k) -> Seq(S)] :
             FlattenSeq(g) = FlattenSeq(Leading(g, m)) \o FlattenSeq(Behind(g, m, k))
           T == {k \in Nat : Splits(k)}
<1>1. 0 \in T
  <2> SUFFICES ASSUME NEW g \in [1..(m + 0) -> Seq(S)]
               PROVE  FlattenSeq(g) = FlattenSeq(Leading(g, m)) \o FlattenSeq(Behind(g, m, 0))
    OBVIOUS
  <2>1. g \in [1..m -> Seq(S)] /\ Leading(g, m) = g BY DEF Leading
  <2>2. Behind(g, m, 0) \in [1..0 -> Seq(S)] BY DEF Behind
  <2>3. FlattenSeq(Behind(g, m, 0)) = <<>> BY <2>2, FlattenNone
  <2>4. FlattenSeq(g) \in Seq(S) BY <2>1, FlattenType
  <2> QED BY <2>1, <2>3, <2>4, ConcatEmptySeq
<1>2. ASSUME NEW k \in T PROVE k + 1 \in T
  <2>1. k \in Nat /\ Splits(k) OBVIOUS
  <2> SUFFICES ASSUME NEW g \in [1..(m + (k + 1)) -> Seq(S)]
               PROVE  FlattenSeq(g) = FlattenSeq(Leading(g, m)) \o FlattenSeq(Behind(g, m, k + 1))
    BY <2>1
  <2> DEFINE h == Leading(g, m + k)
             a == Leading(g, m)
             b == Behind(g, m, k)
             c == Behind(g, m, k + 1)
             x == g[m + (k + 1)]
  <2>2. /\ h \in [1..(m + k) -> Seq(S)] /\ a \in [1..m -> Seq(S)]
        /\ b \in [1..k -> Seq(S)] /\ c \in [1..(k + 1) -> Seq(S)] /\ x \in Seq(S)
    BY <2>1 DEF Leading, Behind
  <2>3. /\ \A i \in 1..(m + k) : g[i] = h[i]
        /\ \A i \in 1..k : c[i] = b[i]
        /\ c[k + 1] = x
    BY <2>1 DEF Leading, Behind
  <2>4. Leading(h, m) = a /\ Behind(h, m, k) = b BY <2>1 DEF Leading, Behind
  <2>5. m + k \in Nat /\ m + (k + 1) = (m + k) + 1 BY <2>1
  <2>6. FlattenSeq(h) = FlattenSeq(a) \o FlattenSeq(b) BY <2>1, <2>2, <2>4
  <2>7. FlattenSeq(a) \in Seq(S) /\ FlattenSeq(b) \in Seq(S) BY <2>1, <2>2, FlattenType
  <2> HIDE DEF h, a, b, c, x
  <2>8. FlattenSeq(g) = FlattenSeq(h) \o x
    <3>1. g \in [1..((m + k) + 1) -> Seq(S)] /\ g[(m + k) + 1] = x BY <2>5 DEF x
    <3>2. FlattenSeq(g) = FlattenSeq(h) \o g[(m + k) + 1]
      BY <2>2, <2>3, <2>5, <3>1, FlattenNext, Zenon
    <3> QED BY <3>1, <3>2
  <2>9. FlattenSeq(c) = FlattenSeq(b) \o x BY <2>1, <2>2, <2>3, FlattenNext
  <2>10. (FlattenSeq(a) \o FlattenSeq(b)) \o x = FlattenSeq(a) \o (FlattenSeq(b) \o x)
    <3>1. x \in Seq(S) BY <2>2
    <3> QED BY <3>1, <2>7, ConcatAssociative
  <2> QED BY <2>6, <2>8, <2>9, <2>10, Zenon DEF a, c
<1>3. T = Nat
  <2>1. T \in SUBSET Nat OBVIOUS
  <2> HIDE DEF T
  <2> QED BY <1>1, <1>2, <2>1, Induction
<1>4. Splits(n) BY <1>3
<1> QED BY <1>4

LEMMA FlattenFirst ==
  ASSUME NEW S, NEW n \in Nat, NEW f \in [1..(n + 1) -> Seq(S)]
  PROVE  FlattenSeq(f) = f[1] \o FlattenSeq(Behind(f, 1, n))
<1>1. f \in [1..(1 + n) -> Seq(S)] /\ 1 \in Nat
  <2>1. 1 + n = n + 1 OBVIOUS
  <2> QED BY <2>1
<1>2. FlattenSeq(f) = FlattenSeq(Leading(f, 1)) \o FlattenSeq(Behind(f, 1, n))
  BY <1>1, FlattenSplit, Zenon
<1>3. Leading(f, 1) \in [1..1 -> Seq(S)] /\ Leading(f, 1)[1] = f[1] BY DEF Leading
<1>4. FlattenSeq(Leading(f, 1)) = f[1] BY <1>3, FlattenOne
<1> QED BY <1>2, <1>4

(* Where the i-th sequence is found in the join of all. *)
Offset(f, i) == Len(FlattenSeq(Leading(f, i - 1)))
IsPlaced(f, i) == \A j \in 1..Len(f[i]) : FlattenSeq(f)[Offset(f, i) + j] = f[i][j]

LEMMA Placement ==
  ASSUME NEW S, NEW n \in Nat, NEW f \in [1..n -> Seq(S)], NEW i \in 1..n
  PROVE  /\ Offset(f, i) \in Nat /\ Offset(f, i + 1) \in Nat
         /\ Offset(f, i + 1) = Offset(f, i) + Len(f[i])
         /\ Offset(f, i + 1) <= Len(FlattenSeq(f))
         /\ IsPlaced(f, i)
<1> DEFINE before == FlattenSeq(Leading(f, i - 1))
           here == FlattenSeq(Leading(f, i))
           after == FlattenSeq(Behind(f, i, n - i))
           x == f[i]
<1>1. i - 1 \in Nat /\ i \in Nat /\ n - i \in Nat /\ (i - 1) + 1 = i /\ i + (n - i) = n
      /\ (i + 1) - 1 = i
  OBVIOUS
<1>2. x \in Seq(S) OBVIOUS
<1>3. /\ Leading(f, i - 1) \in [1..(i - 1) -> Seq(S)]
      /\ Leading(f, i) \in [1..i -> Seq(S)]
      /\ Behind(f, i, n - i) \in [1..(n - i) -> Seq(S)]
      /\ \A k \in 1..(i - 1) : Leading(f, i)[k] = Leading(f, i - 1)[k]
      /\ Leading(f, i)[i] = x
  BY <1>1 DEF Leading, Behind
<1>4. before \in Seq(S) /\ here \in Seq(S) /\ after \in Seq(S) BY <1>1, <1>3, FlattenType
<1>5. here = before \o x
  <2>1. Leading(f, i) \in [1..((i - 1) + 1) -> Seq(S)] /\ Leading(f, i)[(i - 1) + 1] = x
    BY <1>1, <1>3
  <2>2. here = before \o Leading(f, i)[(i - 1) + 1]
    BY <1>1, <1>3, <2>1, FlattenNext, Zenon
  <2> QED BY <2>1, <2>2
<1>6. FlattenSeq(f) = here \o after
  <2>1. f \in [1..(i + (n - i)) -> Seq(S)] BY <1>1
  <2> QED BY <1>1, <2>1, FlattenSplit, Zenon
<1>7. Offset(f, i) = Len(before) /\ Offset(f, i + 1) = Len(here) BY <1>1 DEF Offset
<1> HIDE DEF before, here, after, x
<1>8. Len(before) \in Nat /\ Len(x) \in Nat /\ Len(here) \in Nat /\ Len(after) \in Nat
  BY <1>2, <1>4, LenProperties
<1>9. /\ Len(here) = Len(before) + Len(x)
      /\ \A k \in 1..(Len(before) + Len(x)) :
           (before \o x)[k] = IF k <= Len(before) THEN before[k] ELSE x[k - Len(before)]
  BY <1>2, <1>4, <1>5, ConcatProperties
<1>10. /\ Len(here \o after) = Len(here) + Len(after)
       /\ \A k \in 1..(Len(here) + Len(after)) :
            (here \o after)[k] = IF k <= Len(here) THEN here[k] ELSE after[k - Len(here)]
  BY <1>4, ConcatProperties
<1>11. ASSUME NEW j \in 1..Len(x) PROVE FlattenSeq(f)[Len(before) + j] = x[j]
  <2> DEFINE k == Len(before) + j
  <2>1. /\ k \in 1..(Len(before) + Len(x)) /\ ~(k <= Len(before)) /\ k - Len(before) = j
        /\ k \in 1..(Len(here) + Len(after)) /\ k <= Len(here)
    BY <1>8, <1>9
  <2>2. (here \o after)[k] = here[k] BY <1>10, <2>1
  <2>3. (before \o x)[k] = x[j] BY <1>9, <2>1
  <2> QED BY <1>5, <1>6, <2>2, <2>3
<1>12. Len(here) <= Len(FlattenSeq(f)) BY <1>6, <1>8, <1>10
<1> QED BY <1>7, <1>8, <1>9, <1>11, <1>12 DEF x, IsPlaced

LEMMA FlattenConcat ==
  ASSUME NEW S, NEW a \in Seq(Seq(S)), NEW b \in Seq(Seq(S))
  PROVE  FlattenSeq(a \o b) = FlattenSeq(a) \o FlattenSeq(b)
<1> DEFINE m == Len(a)
           n == Len(b)
           f == a \o b
<1>1. m \in Nat /\ n \in Nat /\ a \in [1..m -> Seq(S)] /\ b \in [1..n -> Seq(S)] BY LenProperties
<1>2. /\ f \in Seq(Seq(S)) /\ Len(f) = m + n
      /\ \A i \in 1..(m + n) : f[i] = IF i <= m THEN a[i] ELSE b[i - m]
  BY ConcatProperties
<1>3. f \in [1..(m + n) -> Seq(S)] BY <1>2, LenProperties
<1> HIDE DEF m, n, f
<1>4. Leading(f, m) = a
  <2>1. \A i \in 1..m : f[i] = a[i] BY <1>1, <1>2
  <2> QED BY <1>1, <2>1 DEF Leading
<1>5. Behind(f, m, n) = b
  <2>1. \A i \in 1..n : f[m + i] = b[i]
    <3> SUFFICES ASSUME NEW i \in 1..n PROVE f[m + i] = b[i] OBVIOUS
    <3>1. m + i \in 1..(m + n) /\ ~(m + i <= m) /\ (m + i) - m = i BY <1>1
    <3> QED BY <1>2, <3>1
  <2> QED BY <1>1, <2>1 DEF Behind
<1>6. FlattenSeq(f) = FlattenSeq(a) \o FlattenSeq(b)
  BY <1>1, <1>3, <1>4, <1>5, FlattenSplit, Zenon
<1> QED BY <1>6 DEF f

-----------------------------------------------------------------------------
(* The length of a unit. *)

(* The function that NalLength(data, at, w) takes its value from. *)
IsValue(v, data, at, w) ==
  v = [i \in 0..w |-> IF i = 0 THEN 0 ELSE 256 * v[i - 1] + data[at + i]]

HasValues(v, data, at, w) ==
  /\ v[0] = 0
  /\ \A i \in 1..w : v[i] = 256 * v[i - 1] + data[at + i]
  /\ NalLength(data, at, w) = v[w]

LEMMA NalLengthValue ==
  ASSUME NEW data, NEW at, NEW w \in 1..4
  PROVE  \E v : HasValues(v, data, at, w)
<1> DEFINE v1 == 256 * 0 + data[at + 1]
           v2 == 256 * v1 + data[at + 2]
           v3 == 256 * v2 + data[at + 3]
           v4 == 256 * v3 + data[at + 4]
           g == [i \in 0..w |-> IF i = 0 THEN 0 ELSE IF i = 1 THEN v1
                                ELSE IF i = 2 THEN v2 ELSE IF i = 3 THEN v3 ELSE v4]
<1>1. \A i \in 0..w : g[i] = IF i = 0 THEN 0 ELSE 256 * g[i - 1] + data[at + i]
  <2> SUFFICES ASSUME NEW i \in 0..w, i # 0 PROVE g[i] = 256 * g[i - 1] + data[at + i]
    OBVIOUS
  <2>1. i - 1 \in 0..w /\ i \in 1..4 OBVIOUS
  <2>2. CASE i = 1 BY <2>1, <2>2
  <2>3. CASE i = 2 BY <2>1, <2>3
  <2>4. CASE i = 3 BY <2>1, <2>4
  <2>5. CASE i = 4 BY <2>1, <2>5
  <2> QED BY <2>1, <2>2, <2>3, <2>4, <2>5
<1>2. g = [i \in 0..w |-> g[i]] OBVIOUS
<1> HIDE DEF g
<1>3. \E v : IsValue(v, data, at, w)
  <2>1. IsValue(g, data, at, w) BY <1>1, <1>2 DEF IsValue
  <2> QED BY <2>1
<1> DEFINE v == CHOOSE v : v = [i \in 0..w |-> IF i = 0 THEN 0 ELSE 256 * v[i - 1] + data[at + i]]
<1>4. IsValue(v, data, at, w) BY <1>3, Zenon DEF IsValue
<1>5. NalLength(data, at, w) = v[w] BY Zenon DEF NalLength
<1> HIDE DEF v
<1>6. v[0] = 0 /\ \A i \in 1..w : v[i] = 256 * v[i - 1] + data[at + i]
  BY <1>4 DEF IsValue
<1> QED BY <1>5, <1>6, Zenon DEF HasValues

(* The length written out. *)
LEMMA NalLengthIs ==
  ASSUME NEW data, NEW at \in Nat, NEW w \in 1..4, \A i \in 1..w : data[at + i] \in Nat
  PROVE  /\ w = 1 => NalLength(data, at, w) = data[at + 1]
         /\ w = 2 => NalLength(data, at, w) = 256 * data[at + 1] + data[at + 2]
         /\ w = 3 => NalLength(data, at, w) =
                       256 * (256 * data[at + 1] + data[at + 2]) + data[at + 3]
         /\ w = 4 => NalLength(data, at, w) =
                       256 * (256 * (256 * data[at + 1] + data[at + 2]) + data[at + 3])
                         + data[at + 4]
<1>0. PICK v : HasValues(v, data, at, w)
  BY NalLengthValue, Zenon
<1>1. /\ v[0] = 0
      /\ \A i \in 1..w : v[i] = 256 * v[i - 1] + data[at + i]
      /\ NalLength(data, at, w) = v[w]
  BY <1>0 DEF HasValues
<1>2. v[1] = data[at + 1] BY <1>1
<1>3. w > 1 => v[2] = 256 * v[1] + data[at + 2] BY <1>1
<1>4. w > 2 => v[3] = 256 * v[2] + data[at + 3] BY <1>1
<1>5. w > 3 => v[4] = 256 * v[3] + data[at + 4] BY <1>1
<1> QED BY <1>1, <1>2, <1>3, <1>4, <1>5

LEMMA NalLengthType ==
  ASSUME NEW data, NEW at \in Nat, NEW w \in 1..4, \A i \in 1..w : data[at + i] \in Nat
  PROVE  NalLength(data, at, w) \in Nat
<1>1. CASE w = 1 BY <1>1, NalLengthIs
<1>2. CASE w = 2 BY <1>2, NalLengthIs
<1>3. CASE w = 3 BY <1>3, NalLengthIs
<1>4. CASE w = 4 BY <1>4, NalLengthIs
<1> QED BY <1>1, <1>2, <1>3, <1>4

(* It depends on the w bytes only. *)
LEMMA NalLengthMoves ==
  ASSUME NEW a, NEW at \in Nat, NEW b, NEW w \in 1..4,
         \A i \in 1..w : a[at + i] \in Nat /\ a[at + i] = b[i]
  PROVE  NalLength(a, at, w) = NalLength(b, 0, w)
<1> DEFINE A == NalLength(a, at, w)
           B == NalLength(b, 0, w)
<1>1. \A i \in 1..w : b[0 + i] \in Nat /\ b[0 + i] = a[at + i] OBVIOUS
<1>2. 0 \in Nat /\ \A i \in 1..w : b[0 + i] \in Nat BY <1>1
<1>3. /\ w = 1 => A = a[at + 1]
      /\ w = 2 => A = 256 * a[at + 1] + a[at + 2]
      /\ w = 3 => A = 256 * (256 * a[at + 1] + a[at + 2]) + a[at + 3]
      /\ w = 4 => A = 256 * (256 * (256 * a[at + 1] + a[at + 2]) + a[at + 3]) + a[at + 4]
  <2>1. \A i \in 1..w : a[at + i] \in Nat OBVIOUS
  <2> QED BY <2>1, NalLengthIs
<1>4. /\ w = 1 => B = b[0 + 1]
      /\ w = 2 => B = 256 * b[0 + 1] + b[0 + 2]
      /\ w = 3 => B = 256 * (256 * b[0 + 1] + b[0 + 2]) + b[0 + 3]
      /\ w = 4 => B = 256 * (256 * (256 * b[0 + 1] + b[0 + 2]) + b[0 + 3]) + b[0 + 4]
  BY <1>2, NalLengthIs
<1> HIDE DEF A, B
<1>5. A = B
  <2>1. CASE w = 1 BY <1>1, <1>3, <1>4, <2>1
  <2>2. CASE w = 2 BY <1>1, <1>3, <1>4, <2>2
  <2>3. CASE w = 3 BY <1>1, <1>3, <1>4, <2>3
  <2>4. CASE w = 4 BY <1>1, <1>3, <1>4, <2>4
  <2> QED BY <2>1, <2>2, <2>3, <2>4
<1> QED BY <1>5 DEF A, B

(* What VideoToolbox writes in front of a unit is read back as its length. *)
LEMMA FieldType ==
  ASSUME NEW n \in Nat, NEW w \in 1..4
  PROVE  LengthField(n, w) \in Seq(Nat) /\ Len(LengthField(n, w)) = w
<1>1. \A i \in 1..w : Weight[w - i + 1] \in Nat \ {0}
  <2>1. \A k \in 1..4 : Weight[k] \in Nat \ {0} BY DEF Weight
  <2>2. \A i \in 1..w : w - i + 1 \in 1..4 OBVIOUS
  <2> QED BY <2>1, <2>2
<1>2. \A d \in Nat \ {0} : (n \div d) % 256 \in Nat BY SMT
<1>3. LengthField(n, w) \in [1..w -> Nat] BY <1>1, <1>2 DEF LengthField
<1> QED BY <1>3, FunctionIsSeq

LEMMA Digits ==
  ASSUME NEW n \in Nat
  PROVE  /\ n \div 256 \in Nat /\ n % 256 \in Nat /\ n = 256 * (n \div 256) + (n % 256)
         /\ n \div 65536 = (n \div 256) \div 256
         /\ n \div 16777216 = (n \div 65536) \div 256
         /\ n \div 1 = n
         /\ n < 256 => n % 256 = n
  BY SMT

LEMMA FieldLength ==
  ASSUME NEW n \in Nat, NEW w \in 1..4, FitsField(n, w)
  PROVE  NalLength(LengthField(n, w), 0, w) = n
<1> DEFINE f == LengthField(n, w)
           b == n \div 256
           c == n \div 65536
           d == n \div 16777216
<1>1. \A i \in 1..w : f[0 + i] \in Nat /\ f[0 + i] = f[i]
  <2>1. f \in Seq(Nat) /\ Len(f) = w BY FieldType
  <2> HIDE DEF f
  <2>2. \A i \in 1..w : f[i] \in Nat BY <2>1, ElementOfSeq
  <2> QED BY <2>2
<1>2. /\ w = 1 => NalLength(f, 0, w) = f[1]
      /\ w = 2 => NalLength(f, 0, w) = 256 * f[1] + f[2]
      /\ w = 3 => NalLength(f, 0, w) = 256 * (256 * f[1] + f[2]) + f[3]
      /\ w = 4 => NalLength(f, 0, w) = 256 * (256 * (256 * f[1] + f[2]) + f[3]) + f[4]
  BY <1>1, NalLengthIs
<1>3. /\ b \in Nat /\ n % 256 \in Nat /\ n = 256 * b + (n % 256)
      /\ c \in Nat /\ b % 256 \in Nat /\ b = 256 * c + (b % 256)
      /\ d \in Nat /\ c % 256 \in Nat /\ c = 256 * d + (c % 256)
      /\ n \div 1 = n
      /\ n < 256 => n % 256 = n
      /\ b < 256 => b % 256 = b
      /\ c < 256 => c % 256 = c
      /\ d < 256 => d % 256 = d
  <2>1. b \in Nat /\ c \in Nat /\ d \in Nat BY SMT
  <2>2. c = b \div 256 /\ d = c \div 256 BY Digits
  <2> HIDE DEF b, c, d
  <2>3. /\ n = 256 * (n \div 256) + (n % 256) /\ n % 256 \in Nat /\ n \div 1 = n
        /\ n < 256 => n % 256 = n
    BY Digits
  <2>4. /\ b = 256 * (b \div 256) + (b % 256) /\ b % 256 \in Nat
        /\ b < 256 => b % 256 = b
    BY <2>1, Digits
  <2>5. /\ c = 256 * (c \div 256) + (c % 256) /\ c % 256 \in Nat
        /\ c < 256 => c % 256 = c
    BY <2>1, Digits
  <2>6. d < 256 => d % 256 = d BY <2>1, Digits
  <2> QED BY <2>1, <2>2, <2>3, <2>4, <2>5, <2>6 DEF b
<1>4. \A i \in 1..w : f[i] = (n \div Weight[w - i + 1]) % 256 BY DEF LengthField
<1>5. CASE w = 1
  <2>1. n < 256 BY <1>3, <1>5 DEF FitsField, Weight
  <2>2. f[1] = n % 256 BY <1>3, <1>4, <1>5 DEF Weight
  <2> QED BY <1>2, <1>3, <1>5, <2>1, <2>2
<1>6. CASE w = 2
  <2>1. b < 256 BY <1>6 DEF FitsField, Weight
  <2>2. f[1] = b % 256 /\ f[2] = n % 256 BY <1>3, <1>4, <1>6 DEF Weight
  <2> HIDE DEF b, f
  <2> QED BY <1>2, <1>3, <1>6, <2>1, <2>2 DEF f
<1>7. CASE w = 3
  <2>1. c < 256 BY <1>7 DEF FitsField, Weight
  <2>2. f[1] = c % 256 /\ f[2] = b % 256 /\ f[3] = n % 256 BY <1>3, <1>4, <1>7 DEF Weight
  <2> HIDE DEF b, c, f
  <2> QED BY <1>2, <1>3, <1>7, <2>1, <2>2 DEF f
<1>8. CASE w = 4
  <2>1. d < 256 BY <1>8 DEF FitsField, Weight
  <2>2. f[1] = d % 256 /\ f[2] = c % 256 /\ f[3] = b % 256 /\ f[4] = n % 256
    BY <1>3, <1>4, <1>8 DEF Weight
  <2> HIDE DEF b, c, d, f
  <2> QED BY <1>2, <1>3, <1>8, <2>1, <2>2 DEF f
<1> QED BY <1>5, <1>6, <1>7, <1>8

-----------------------------------------------------------------------------
(* The conversion. *)

(* What Convert(data, w) makes of the bytes behind the first `at'. *)
Rest(r, data, w, at) ==
  IF at + w > Len(data) THEN <<>>
  ELSE LET first == at + w
           length == NalLength(data, at, w)
       IN  IF length = 0 \/ first + length > Len(data) THEN <<>>
           ELSE StartCode \o SubSeq(data, first + 1, first + length) \o r[first + length]

LEMMA Converting ==
  ASSUME NEW data \in Seq(Nat), NEW w \in 1..4
  PROVE  \E r : /\ \A at \in 0..Len(data) : r[at] = Rest(r, data, w, at)
                /\ Convert(data, w) = r[0]
<1> DEFINE L == Len(data)
           Below(g, h, at) == \A j \in (at + 1)..L : g[j] = h[j]
           To(g, n) == g = [at \in 0..L |-> IF at + n >= L THEN Rest(g, data, w, at) ELSE <<>>]
           T == {n \in Nat : \E g : To(g, n)}
<1>1. L \in Nat /\ \A i \in 1..L : data[i] \in Nat BY LenProperties
<1>2. \A g, h : \A at \in 0..L : Below(g, h, at) => Rest(g, data, w, at) = Rest(h, data, w, at)
  <2> SUFFICES ASSUME NEW g, NEW h, NEW at \in 0..L, Below(g, h, at)
               PROVE  Rest(g, data, w, at) = Rest(h, data, w, at)
    OBVIOUS
  <2>0. CASE at + w > L BY <2>0 DEF Rest
  <2> SUFFICES ASSUME at + w <= L PROVE Rest(g, data, w, at) = Rest(h, data, w, at)
    BY <1>1, <2>0
  <2> DEFINE length == NalLength(data, at, w)
  <2>1. \A i \in 1..w : data[at + i] \in Nat BY <1>1
  <2>2. length \in Nat BY <2>1, NalLengthType
  <2> HIDE DEF length
  <2>3. CASE length = 0 \/ at + w + length > L BY <2>3 DEF Rest, length
  <2>4. CASE ~(length = 0 \/ at + w + length > L)
    <3>1. at + w + length \in (at + 1)..L BY <1>1, <2>2, <2>4
    <3>2. g[at + w + length] = h[at + w + length] BY <3>1
    <3> QED BY <3>2 DEF Rest, length
  <2> QED BY <2>3, <2>4
<1> HIDE DEF L
<1>3. 0 \in T
  <2> DEFINE g == [at \in 0..L |-> IF at + 0 >= L THEN Rest(<<>>, data, w, at) ELSE <<>>]
  <2>1. ASSUME NEW at \in 0..L, at + 0 >= L
        PROVE  Rest(<<>>, data, w, at) = Rest(g, data, w, at)
    <3>1. Below(<<>>, g, at) BY <1>1, <2>1
    <3> QED BY <1>2, <3>1
  <2>2. To(g, 0) BY <2>1
  <2> QED BY <2>2
<1>4. ASSUME NEW n \in T PROVE n + 1 \in T
  <2>1. n \in Nat /\ \E g : To(g, n) OBVIOUS
  <2>2. PICK g : To(g, n) BY <2>1
  <2> DEFINE h == [at \in 0..L |-> IF at + (n + 1) >= L THEN Rest(g, data, w, at) ELSE <<>>]
  <2>3. \A at \in 0..L : at + n >= L => h[at] = g[at]
    <3> SUFFICES ASSUME NEW at \in 0..L, at + n >= L PROVE h[at] = g[at] OBVIOUS
    <3>1. at + (n + 1) >= L BY <1>1, <2>1
    <3>2. g[at] = Rest(g, data, w, at) BY <2>2
    <3>3. h[at] = Rest(g, data, w, at) BY <3>1
    <3> QED BY <3>2, <3>3
  <2>4. ASSUME NEW at \in 0..L, at + (n + 1) >= L
        PROVE  Rest(g, data, w, at) = Rest(h, data, w, at)
    <3>1. \A j \in (at + 1)..L : j \in 0..L /\ j + n >= L BY <1>1, <2>1, <2>4
    <3>2. Below(g, h, at) BY <2>3, <3>1
    <3> QED BY <1>2, <3>2
  <2>5. To(h, n + 1) BY <2>4
  <2> HIDE DEF h, To
  <2> QED BY <2>1, <2>5
<1>5. T = Nat
  <2>1. T \in SUBSET Nat OBVIOUS
  <2> HIDE DEF T
  <2> QED BY <1>3, <1>4, <2>1, Induction
<1>6. \E r : r = [at \in 0..L |-> Rest(r, data, w, at)]
  <2>1. PICK g : To(g, L) BY <1>1, <1>5
  <2>2. g = [at \in 0..L |-> Rest(g, data, w, at)] BY <1>1, <2>1
  <2> QED BY <2>2
<1> DEFINE r == CHOOSE r : r = [at \in 0..L |-> Rest(r, data, w, at)]
<1>7. r = [at \in 0..L |-> Rest(r, data, w, at)] BY <1>6, Zenon
<1>8. Convert(data, w) = r[0] BY Zenon DEF Convert, Rest, L
<1> HIDE DEF r
<1>9. \A at \in 0..L : r[at] = Rest(r, data, w, at)
  <2> SUFFICES ASSUME NEW at \in 0..L PROVE r[at] = Rest(r, data, w, at) OBVIOUS
  <2> QED BY <1>7
<1> QED BY <1>8, <1>9 DEF L

(* A unit's place in the encoder's buffer: behind its length. *)
Parts(units, w) == [i \in 1..Len(units) |-> LengthField(Len(units[i]), w) \o units[i]]
Framings(units) == [i \in 1..Len(units) |-> StartCode \o units[i]]

LEMMA PartsType ==
  ASSUME NEW units \in Seq(Seq(Nat)), NEW w \in 1..4
  PROVE  /\ Len(units) \in Nat
         /\ Parts(units, w) \in [1..Len(units) -> Seq(Nat)]
         /\ Framings(units) \in [1..Len(units) -> Seq(Nat)]
         /\ \A i \in 1..Len(units) :
              /\ units[i] \in Seq(Nat) /\ Len(units[i]) \in Nat
              /\ LengthField(Len(units[i]), w) \in Seq(Nat)
              /\ Len(LengthField(Len(units[i]), w)) = w
<1>1. Len(units) \in Nat BY LenProperties
<1>2. \A i \in 1..Len(units) : units[i] \in Seq(Nat) /\ Len(units[i]) \in Nat
  <2>1. \A i \in 1..Len(units) : units[i] \in Seq(Nat) BY ElementOfSeq
  <2> QED BY <2>1, LenProperties
<1>3. \A i \in 1..Len(units) : /\ LengthField(Len(units[i]), w) \in Seq(Nat)
                               /\ Len(LengthField(Len(units[i]), w)) = w
  BY <1>2, FieldType
<1>4. StartCode \in Seq(Nat) BY DEF StartCode
<1>5. Parts(units, w) \in [1..Len(units) -> Seq(Nat)]
  <2>1. \A i \in 1..Len(units) : LengthField(Len(units[i]), w) \o units[i] \in Seq(Nat)
    BY <1>2, <1>3, ConcatProperties
  <2> QED BY <2>1 DEF Parts
<1>6. Framings(units) \in [1..Len(units) -> Seq(Nat)]
  <2>1. \A i \in 1..Len(units) : StartCode \o units[i] \in Seq(Nat)
    BY <1>2, <1>4, ConcatProperties
  <2> QED BY <2>1 DEF Framings
<1> QED BY <1>1, <1>2, <1>3, <1>5, <1>6

LEMMA FramedType ==
  ASSUME NEW units \in Seq(Seq(Nat))
  PROVE  Framed(units) \in Seq(Nat)
<1>1. Framings(units) \in [1..Len(units) -> Seq(Nat)] /\ Len(units) \in Nat
  <2>1. 1 \in 1..4 OBVIOUS
  <2> QED BY <2>1, PartsType
<1>2. FlattenSeq(Framings(units)) \in Seq(Nat) BY <1>1, FlattenType
<1> QED BY <1>2 DEF Framed, Framings

LEMMA DataType ==
  ASSUME NEW units \in Seq(Seq(Nat)), NEW w \in 1..4, NEW cutOff \in Seq(Nat)
  PROVE  LengthPrefixed(units, w) \in Seq(Nat) /\ LengthPrefixed(units, w) \o cutOff \in Seq(Nat)
<1>1. Parts(units, w) \in [1..Len(units) -> Seq(Nat)] /\ Len(units) \in Nat BY PartsType
<1>2. FlattenSeq(Parts(units, w)) \in Seq(Nat) BY <1>1, FlattenType
<1>3. LengthPrefixed(units, w) \in Seq(Nat) BY <1>2 DEF LengthPrefixed, Parts
<1> QED BY <1>3, ConcatProperties

(* One round of the loop reads the length, copies the unit and stands behind it. *)
LEMMA OneRound ==
  ASSUME NEW data \in Seq(Nat), NEW w \in 1..4, NEW o \in Nat, NEW u \in Seq(Nat),
         Len(u) # 0, FitsField(Len(u), w), (o + w) + Len(u) <= Len(data),
         \A j \in 1..w : data[o + j] = LengthField(Len(u), w)[j],
         \A j \in 1..Len(u) : data[(o + w) + j] = u[j],
         NEW r
  PROVE  Rest(r, data, w, o) = (StartCode \o u) \o r[(o + w) + Len(u)]
<1> DEFINE n == Len(u)
           L == Len(data)
           field == LengthField(n, w)
<1>1. n \in Nat \ {0} /\ L \in Nat BY LenProperties
<1>2. NalLength(data, o, w) = n
  <2>1. field \in Seq(Nat) /\ Len(field) = w BY <1>1, FieldType
  <2>2. \A j \in 1..w : field[j] \in Nat
    <3> HIDE DEF field
    <3> QED BY <2>1, ElementOfSeq
  <2>3. NalLength(field, 0, w) = n BY <1>1, FieldLength
  <2> HIDE DEF field
  <2>4. \A j \in 1..w : data[o + j] \in Nat /\ data[o + j] = field[j] BY <2>2 DEF field
  <2>5. NalLength(data, o, w) = NalLength(field, 0, w) BY <2>4, NalLengthMoves
  <2> QED BY <2>3, <2>5
<1>3. SubSeq(data, (o + w) + 1, (o + w) + Len(u)) = u
  <2>1. o + w \in Nat OBVIOUS
  <2> QED BY <2>1, SubSeqIs
<1>4. (o + w) + n <= L OBVIOUS
<1> HIDE DEF n, L
<1>5. ~(o + w > L) /\ ~(n = 0 \/ (o + w) + n > L) BY <1>1, <1>4
<1> QED BY <1>2, <1>3, <1>5 DEF Rest, n, L

LEMMA OneUnit ==
  ASSUME NEW units \in Seq(Seq(Nat)), NEW w \in 1..4, NEW cutOff \in Seq(Nat),
         NEW i \in 1..Len(units), Len(units[i]) # 0, FitsField(Len(units[i]), w),
         NEW r
  PROVE  LET f == Parts(units, w)
             data == LengthPrefixed(units, w) \o cutOff
         IN  /\ Offset(f, i) \in 0..Len(data)
             /\ Rest(r, data, w, Offset(f, i)) = Framings(units)[i] \o r[Offset(f, i + 1)]
<1> DEFINE f == Parts(units, w)
           P == FlattenSeq(f)
           data == P \o cutOff
           o == Offset(f, i)
           u == units[i]
           n == Len(u)
           field == LengthField(n, w)
<1>1. /\ Len(units) \in Nat /\ f \in [1..Len(units) -> Seq(Nat)]
      /\ u \in Seq(Nat) /\ n \in Nat /\ field \in Seq(Nat) /\ Len(field) = w
  BY PartsType
<1>2. f[i] = field \o u BY DEF Parts
<1>3. /\ P \in Seq(Nat) /\ Len(P) \in Nat /\ Len(cutOff) \in Nat
      /\ data \in Seq(Nat) /\ Len(data) = Len(P) + Len(cutOff)
      /\ \A j \in 1..Len(P) : data[j] = P[j]
  <2>1. P \in Seq(Nat) BY <1>1, FlattenType
  <2> HIDE DEF P
  <2> QED BY <2>1, ConcatParts
<1>4. /\ o \in Nat /\ Offset(f, i + 1) = o + Len(f[i]) /\ Offset(f, i + 1) <= Len(P)
      /\ \A j \in 1..Len(f[i]) : P[o + j] = f[i][j]
  <2> DEFINE N == Len(units)
  <2>1. N \in Nat /\ f \in [1..N -> Seq(Nat)] BY <1>1
  <2>2. i \in 1..N OBVIOUS
  <2> HIDE DEF f, N
  <2>3. /\ Offset(f, i) \in Nat /\ Offset(f, i + 1) = Offset(f, i) + Len(f[i])
        /\ Offset(f, i + 1) <= Len(FlattenSeq(f)) /\ IsPlaced(f, i)
    <3> HIDE DEF P, data, o, u, n, field
    <3> QED BY <2>1, <2>2, Placement
  <2>4. \A j \in 1..Len(f[i]) : FlattenSeq(f)[o + j] = f[i][j]
    <3> HIDE DEF P, data, u, n, field
    <3> QED BY <2>3 DEF IsPlaced
  <2> QED BY <2>3, <2>4
<1> HIDE DEF f, P, data, o, u, field
<1>5. /\ Len(f[i]) = w + n
      /\ \A j \in 1..w : f[i][j] = field[j]
      /\ \A j \in 1..n : f[i][w + j] = u[j]
  <2>1. field \in Seq(Nat) /\ u \in Seq(Nat) BY <1>1
  <2>2. /\ Len(field \o u) = Len(field) + Len(u)
        /\ \A j \in 1..Len(field) : (field \o u)[j] = field[j]
        /\ \A j \in 1..Len(u) : (field \o u)[Len(field) + j] = u[j]
    BY <2>1, ConcatParts
  <2> QED BY <1>1, <1>2, <2>2
<1> HIDE DEF n
<1> DEFINE m == Len(P)
           L == Len(data)
           c == Len(cutOff)
<1>6. m \in Nat /\ L = m + c /\ c \in Nat /\ o + (w + n) <= m BY <1>3, <1>4, <1>5
<1> HIDE DEF m, L, c
<1>7. (o + w) + n <= L /\ o \in 0..L /\ (o + w) + n = o + (w + n) BY <1>1, <1>4, <1>6
<1>8. ASSUME NEW j \in 1..(w + n) PROVE data[o + j] = f[i][j]
  <2>1. o + j \in 1..m BY <1>1, <1>4, <1>6
  <2>2. P[o + j] = f[i][j] BY <1>4, <1>5
  <2>3. data[o + j] = P[o + j] BY <1>3, <2>1 DEF m
  <2> QED BY <2>2, <2>3
<1>9. \A j \in 1..w : data[o + j] = field[j]
  <2>1. \A j \in 1..w : j \in 1..(w + n) BY <1>1
  <2> QED BY <1>5, <1>8, <2>1
<1>10. \A j \in 1..n : data[(o + w) + j] = u[j]
  <2>1. \A j \in 1..n : w + j \in 1..(w + n) /\ o + (w + j) = (o + w) + j BY <1>1, <1>4
  <2> QED BY <1>5, <1>8, <2>1
<1>11. Rest(r, data, w, o) = (StartCode \o u) \o r[(o + w) + n]
  <2>1. n # 0 /\ FitsField(n, w) BY DEF n, u
  <2>2. data \in Seq(Nat) /\ o \in Nat /\ u \in Seq(Nat) BY <1>1, <1>3, <1>4
  <2>3. /\ Len(u) # 0 /\ FitsField(Len(u), w) /\ (o + w) + Len(u) <= Len(data)
        /\ \A j \in 1..w : data[o + j] = LengthField(Len(u), w)[j]
        /\ \A j \in 1..Len(u) : data[(o + w) + j] = u[j]
    BY <1>7, <1>9, <1>10, <2>1 DEF n, field, L
  <2>4. Rest(r, data, w, o) = (StartCode \o u) \o r[(o + w) + Len(u)]
    BY <2>2, <2>3, OneRound
  <2> QED BY <2>4 DEF n
<1>12. (o + w) + n = Offset(f, i + 1) BY <1>4, <1>5, <1>7
<1>13. Framings(units)[i] = StartCode \o u BY DEF Framings, u
<1>14. data = LengthPrefixed(units, w) \o cutOff BY DEF data, P, f, LengthPrefixed, Parts
<1> QED BY <1>7, <1>11, <1>12, <1>13, <1>14 DEF f, o, L

LEMMA CutOffLeavesNothing ==
  ASSUME NEW P \in Seq(Nat), NEW w \in 1..4, NEW cutOff \in Seq(Nat), IsCutOff(cutOff, w),
         NEW r
  PROVE  Rest(r, P \o cutOff, w, Len(P)) = <<>>
<1> DEFINE m == Len(P)
           c == Len(cutOff)
           data == P \o cutOff
           n == NalLength(cutOff, 0, w)
<1>1. /\ m \in Nat /\ c \in Nat /\ Len(data) = m + c
      /\ \A j \in 1..c : data[m + j] = cutOff[j] /\ cutOff[j] \in Nat
  BY ConcatParts, ElementOfSeq
<1>2. c < w \/ n = 0 \/ w + n > c BY DEF IsCutOff
<1> HIDE DEF m, c, data, n
<1>3. CASE c < w
  <2>1. m + w > Len(data) BY <1>1, <1>3
  <2> QED BY <2>1 DEF Rest, m, data
<1>4. CASE ~(c < w)
  <2>1. \A j \in 1..w : data[m + j] \in Nat /\ data[m + j] = cutOff[j] BY <1>1, <1>4
  <2>2. NalLength(data, m, w) = n BY <1>1, <2>1, NalLengthMoves DEF n
  <2>3. n \in Nat
    <3>1. \A j \in 1..w : data[m + j] \in Nat BY <2>1
    <3> QED BY <1>1, <2>2, <3>1, NalLengthType
  <2>4. n = 0 \/ (m + w) + n > Len(data) BY <1>1, <1>2, <1>4, <2>3
  <2> QED BY <2>2, <2>4 DEF Rest, m, data
<1> QED BY <1>3, <1>4

(* The conversion loses, merges and cuts no unit, whatever the width of the length field  *)
(* and whatever is left of a unit at the end (writeAnnexB, CameraStreamer.swift:497-545). *)
THEOREM ConversionKeepsUnits ==
  ASSUME NEW units \in Seq(Seq(Nat)), NEW w \in 1..4, NEW cutOff \in Seq(Nat),
         \A i \in 1..Len(units) : Len(units[i]) # 0 /\ FitsField(Len(units[i]), w),
         IsCutOff(cutOff, w)
  PROVE  Convert(LengthPrefixed(units, w) \o cutOff, w) = Framed(units)
<1> DEFINE n == Len(units)
           f == Parts(units, w)
           g == Framings(units)
           data == LengthPrefixed(units, w) \o cutOff
<1>1. n \in Nat /\ f \in [1..n -> Seq(Nat)] /\ g \in [1..n -> Seq(Nat)]
      /\ LengthPrefixed(units, w) = FlattenSeq(f) /\ FlattenSeq(f) \in Seq(Nat)
  <2>1. n \in Nat /\ f \in [1..n -> Seq(Nat)] /\ g \in [1..n -> Seq(Nat)] BY PartsType
  <2>2. FlattenSeq(f) \in Seq(Nat) BY <2>1, FlattenType
  <2> QED BY <2>1, <2>2 DEF LengthPrefixed, Parts
<1>2. PICK r : /\ \A at \in 0..Len(data) : r[at] = Rest(r, data, w, at)
               /\ Convert(data, w) = r[0]
  <2>1. data \in Seq(Nat) BY DataType
  <2> HIDE DEF data
  <2> QED BY <2>1, Converting
<1>3. \A i \in 1..n : /\ Offset(f, i) \in 0..Len(data)
                      /\ r[Offset(f, i)] = g[i] \o r[Offset(f, i + 1)]
  <2> SUFFICES ASSUME NEW i \in 1..n
               PROVE  /\ Offset(f, i) \in 0..Len(data)
                      /\ r[Offset(f, i)] = g[i] \o r[Offset(f, i + 1)]
    OBVIOUS
  <2>1. Len(units[i]) # 0 /\ FitsField(Len(units[i]), w) OBVIOUS
  <2>2. /\ Offset(f, i) \in 0..Len(data)
        /\ Rest(r, data, w, Offset(f, i)) = g[i] \o r[Offset(f, i + 1)]
    BY <2>1, OneUnit
  <2> HIDE DEF f, g, data
  <2> QED BY <1>2, <2>2
<1>4. r[Offset(f, n + 1)] = <<>>
  <2>1. Offset(f, n + 1) = Len(FlattenSeq(f))
    <3>1. Leading(f, n) = f BY <1>1 DEF Leading
    <3>2. (n + 1) - 1 = n BY <1>1
    <3> QED BY <3>1, <3>2 DEF Offset
  <2>2. Len(FlattenSeq(f)) \in 0..Len(data) BY <1>1, ConcatParts
  <2>3. Rest(r, data, w, Len(FlattenSeq(f))) = <<>> BY <1>1, CutOffLeavesNothing
  <2> HIDE DEF f, data
  <2> QED BY <1>2, <2>1, <2>2, <2>3
<1> HIDE DEF n, f, g, data
<1> DEFINE T == {k \in Nat : k <= n => r[Offset(f, (n - k) + 1)] = FlattenSeq(Behind(g, n - k, k))}
<1>5. 0 \in T
  <2>1. Behind(g, n - 0, 0) \in [1..0 -> Seq(Nat)] BY DEF Behind
  <2>2. FlattenSeq(Behind(g, n - 0, 0)) = <<>> BY <2>1, FlattenNone
  <2>3. (n - 0) + 1 = n + 1 BY <1>1
  <2> QED BY <1>4, <2>2, <2>3
<1>6. ASSUME NEW k \in T PROVE k + 1 \in T
  <2> SUFFICES ASSUME k + 1 <= n
               PROVE  r[Offset(f, (n - (k + 1)) + 1)] = FlattenSeq(Behind(g, n - (k + 1), k + 1))
    OBVIOUS
  <2> DEFINE i == n - k
             b == Behind(g, n - (k + 1), k + 1)
  <2>1. k \in Nat /\ i \in 1..n /\ (n - (k + 1)) + 1 = i /\ k <= n BY <1>1
  <2>2. r[Offset(f, i + 1)] = FlattenSeq(Behind(g, i, k)) BY <2>1
  <2>3. b \in [1..(k + 1) -> Seq(Nat)] /\ b[1] = g[i] /\ Behind(b, 1, k) = Behind(g, i, k)
    <3>1. b \in [1..(k + 1) -> Seq(Nat)]
      <4>1. \A j \in 1..(k + 1) : (n - (k + 1)) + j \in 1..n BY <1>1, <2>1
      <4> QED BY <1>1, <4>1 DEF Behind
    <3>2. b[1] = g[i] BY <2>1 DEF Behind
    <3>3. \A j \in 1..k : 1 + j \in 1..(k + 1) /\ (n - (k + 1)) + (1 + j) = i + j BY <1>1, <2>1
    <3>4. Behind(b, 1, k) = [j \in 1..k |-> b[1 + j]] BY DEF Behind
    <3>5. \A j \in 1..k : b[1 + j] = g[i + j] BY <3>3 DEF Behind
    <3> HIDE DEF b, i
    <3> QED BY <3>1, <3>2, <3>4, <3>5 DEF Behind
  <2> HIDE DEF b
  <2>4. FlattenSeq(b) = g[i] \o FlattenSeq(Behind(g, i, k))
    <3>1. FlattenSeq(b) = b[1] \o FlattenSeq(Behind(b, 1, k)) BY <2>1, <2>3, FlattenFirst, Zenon
    <3> QED BY <2>3, <3>1
  <2>5. r[Offset(f, i)] = g[i] \o r[Offset(f, i + 1)] BY <1>3, <2>1
  <2> HIDE DEF i
  <2> QED BY <2>1, <2>2, <2>4, <2>5 DEF b
<1>7. T = Nat
  <2>1. T \in SUBSET Nat OBVIOUS
  <2> HIDE DEF T
  <2> QED BY <1>5, <1>6, <2>1, Induction
<1>8. r[Offset(f, 1)] = FlattenSeq(g)
  <2>1. n \in T BY <1>1, <1>7
  <2>2. n - n = 0 /\ (n - n) + 1 = 1 BY <1>1
  <2>3. Behind(g, 0, n) = g BY <1>1 DEF Behind
  <2> QED BY <1>1, <2>1, <2>2, <2>3
<1>9. Offset(f, 1) = 0
  <2>1. Leading(f, 0) \in [1..0 -> Seq(Nat)] BY DEF Leading
  <2>2. FlattenSeq(Leading(f, 0)) = <<>> BY <2>1, FlattenNone
  <2>3. 1 - 1 = 0 OBVIOUS
  <2> QED BY <2>2, <2>3, EmptySeq DEF Offset
<1> QED BY <1>2, <1>8, <1>9 DEF g, data, Framed, Framings

(* The parameter sets and a sample's units, framed together or apart. *)
LEMMA FramedConcat ==
  ASSUME NEW a \in Seq(Seq(Nat)), NEW b \in Seq(Seq(Nat))
  PROVE  a \o b \in Seq(Seq(Nat)) /\ Framed(a \o b) = Framed(a) \o Framed(b)
<1> DEFINE m == Len(a)
           n == Len(b)
           c == a \o b
<1>1. /\ m \in Nat /\ n \in Nat /\ c \in Seq(Seq(Nat)) /\ Len(c) = m + n
      /\ \A j \in 1..m : c[j] = a[j]
      /\ \A j \in 1..n : c[m + j] = b[j]
  BY ConcatParts
<1>2. /\ Framings(a) \in Seq(Seq(Nat)) /\ Len(Framings(a)) = m
      /\ Framings(b) \in Seq(Seq(Nat)) /\ Len(Framings(b)) = n
      /\ Framings(c) \in Seq(Seq(Nat)) /\ Len(Framings(c)) = m + n
  <2>0. 1 \in 1..4 OBVIOUS
  <2>1. Framings(a) \in [1..m -> Seq(Nat)] BY <2>0, PartsType
  <2>2. Framings(b) \in [1..n -> Seq(Nat)] BY <2>0, PartsType
  <2>3. Framings(c) \in [1..(m + n) -> Seq(Nat)]
    <3> HIDE DEF m, n, c
    <3>1. Framings(c) \in [1..Len(c) -> Seq(Nat)] BY <1>1, <2>0, PartsType
    <3> QED BY <1>1, <3>1
  <2>4. m + n \in Nat BY <1>1
  <2> HIDE DEF m, n, c
  <2> QED BY <1>1, <2>1, <2>2, <2>3, <2>4, FunctionIsSeq
<1>3. /\ \A j \in 1..m : Framings(a)[j] = StartCode \o a[j]
      /\ \A j \in 1..n : Framings(b)[j] = StartCode \o b[j]
      /\ \A j \in 1..(m + n) : Framings(c)[j] = StartCode \o c[j]
  BY <1>1 DEF Framings
<1> HIDE DEF m, n, c
<1>4. Framings(c) = Framings(a) \o Framings(b)
  <2> DEFINE d == Framings(a) \o Framings(b)
  <2>1. /\ d \in Seq(Seq(Nat)) /\ Len(d) = m + n
        /\ \A j \in 1..m : d[j] = Framings(a)[j]
        /\ \A j \in 1..n : d[m + j] = Framings(b)[j]
    <3> DEFINE p == Framings(a)
               q == Framings(b)
    <3>1. p \in Seq(Seq(Nat)) /\ Len(p) = m /\ q \in Seq(Seq(Nat)) /\ Len(q) = n BY <1>2
    <3> HIDE DEF p, q
    <3>2. /\ Len(p \o q) = Len(p) + Len(q)
          /\ \A j \in 1..Len(p) : (p \o q)[j] = p[j]
          /\ \A j \in 1..Len(q) : (p \o q)[Len(p) + j] = q[j]
      <4> HIDE DEF d
      <4>1. \A s, t \in Seq(Seq(Nat)) : Joined(s, t) BY ConcatJoined, Zenon
      <4>2. Joined(p, q) BY <3>1, <4>1
      <4> QED BY <4>2 DEF Joined
    <3>3. /\ p \o q \in Seq(Seq(Nat)) /\ Len(p \o q) = m + n
          /\ \A j \in 1..m : (p \o q)[j] = p[j]
          /\ \A j \in 1..n : (p \o q)[m + j] = q[j]
      BY <3>1, <3>2, ConcatProperties
    <3> QED BY <3>3 DEF p, q
  <2> HIDE DEF d
  <2>2. ASSUME NEW j \in 1..(m + n) PROVE Framings(c)[j] = d[j]
    <3>1. CASE j <= m
      <4>1. j \in 1..m BY <1>1, <3>1
      <4> QED BY <1>1, <1>3, <2>1, <4>1
    <3>2. CASE ~(j <= m)
      <4>1. j - m \in 1..n /\ m + (j - m) = j BY <1>1, <3>2
      <4>2. c[j] = b[j - m] BY <1>1, <4>1
      <4>3. d[j] = Framings(b)[j - m] BY <2>1, <4>1
      <4> QED BY <1>3, <4>1, <4>2, <4>3
    <3> QED BY <3>1, <3>2
  <2>3. Framings(c) = d BY <1>2, <2>1, <2>2, SeqEqual
  <2> QED BY <2>3 DEF d
<1>5. FlattenSeq(Framings(c)) = FlattenSeq(Framings(a)) \o FlattenSeq(Framings(b))
  BY <1>2, <1>4, FlattenConcat
<1> QED BY <1>1, <1>5 DEF c, Framed, Framings

-----------------------------------------------------------------------------
(* The scanners. *)

(* A function whose value at a place is given by those at later places exists. *)
DependsOnLater(F, L, V) ==
  \A g, h \in [0..L -> V] : \A at \in 0..L :
    (\A j \in (at + 1)..L : g[j] = h[j]) => F[<<g, at>>] = F[<<h, at>>]
Solves(r, F, L) == \A at \in 0..L : r[at] = F[<<r, at>>]

LEMMA Recursion ==
  ASSUME NEW L \in Nat, NEW V, NEW v \in V, NEW F \in [[0..L -> V] \X (0..L) -> V],
         DependsOnLater(F, L, V)
  PROVE  \E r \in [0..L -> V] : Solves(r, F, L)
<1>0. \A g, h \in [0..L -> V] : \A at \in 0..L :
        (\A j \in (at + 1)..L : g[j] = h[j]) => F[<<g, at>>] = F[<<h, at>>]
  BY DEF DependsOnLater
<1> DEFINE To(g, n) == \A at \in 0..L : at + n >= L => g[at] = F[<<g, at>>]
           T == {n \in Nat : \E g \in [0..L -> V] : To(g, n)}
<1>1. \A g \in [0..L -> V] : \A at \in 0..L : F[<<g, at>>] \in V OBVIOUS
<1>2. 0 \in T
  <2> DEFINE e == [at \in 0..L |-> v]
             g == [at \in 0..L |-> F[<<e, at>>]]
  <2>1. e \in [0..L -> V] OBVIOUS
  <2> HIDE DEF e
  <2>2. g \in [0..L -> V] BY <1>1, <2>1
  <2>3. ASSUME NEW at \in 0..L, at + 0 >= L PROVE g[at] = F[<<g, at>>]
    <3>1. \A j \in (at + 1)..L : e[j] = g[j] BY <2>3
    <3>2. F[<<e, at>>] = F[<<g, at>>]
      <4> HIDE DEF g
      <4> QED BY <1>0, <2>1, <2>2, <3>1
    <3> QED BY <3>2
  <2> HIDE DEF g
  <2> QED BY <2>2, <2>3
<1>3. ASSUME NEW n \in T PROVE n + 1 \in T
  <2>1. n \in Nat /\ \E g \in [0..L -> V] : To(g, n) OBVIOUS
  <2>2. PICK g \in [0..L -> V] : To(g, n) BY <2>1
  <2> DEFINE h == [at \in 0..L |-> F[<<g, at>>]]
  <2>3. h \in [0..L -> V] BY <1>1
  <2>4. ASSUME NEW at \in 0..L, at + (n + 1) >= L PROVE h[at] = F[<<h, at>>]
    <3>1. ASSUME NEW j \in (at + 1)..L PROVE g[j] = h[j]
      <4>1. j \in 0..L /\ j + n >= L BY <2>1, <2>4
      <4>2. g[j] = F[<<g, j>>] BY <2>2, <4>1
      <4> QED BY <4>1, <4>2
    <3>2. F[<<g, at>>] = F[<<h, at>>]
      <4> HIDE DEF h
      <4> QED BY <1>0, <2>2, <2>3, <3>1
    <3> QED BY <3>2
  <2> HIDE DEF h
  <2>5. To(h, n + 1) BY <2>4
  <2> HIDE DEF To
  <2>6. \E f \in [0..L -> V] : To(f, n + 1) BY <2>3, <2>5
  <2> QED BY <2>1, <2>6
<1>4. T = Nat
  <2>1. T \in SUBSET Nat OBVIOUS
  <2> HIDE DEF T
  <2> QED BY <1>2, <1>3, <2>1, Induction
<1>5. PICK r \in [0..L -> V] : To(r, L) BY <1>4
<1>6. \A at \in 0..L : at + L >= L OBVIOUS
<1> QED BY <1>5, <1>6 DEF Solves

LEMMA CodeLengthType ==
  ASSUME NEW b, NEW i
  PROVE  StartCodeLength(b, i) \in {0, 3, 4}
BY DEF StartCodeLength

(* One step of the phone's scan and of the receiver's. *)
PhoneFinds(found, b, i) ==
  /\ i + 5 < Len(b)
  /\ LET k == StartCodeLength(b, i) IN
       IF k = 0 THEN found[i + 1]
       ELSE IsIdrType(NalType(b[i + k + 1])) \/ found[i + k + 1]

ReceiverFinds(found, b, i) ==
  /\ i + 4 < Len(b)
  /\ LET k == StartCodeLength(b, i) IN
       IF k = 0 \/ (k = 4 /\ i + 5 >= Len(b)) THEN found[i + 1]
       ELSE IsIdrType(NalType(b[i + k + 1])) \/ found[i + k + 1]

LEMMA PhoneScans ==
  ASSUME NEW b \in Seq(Nat)
  PROVE  \E r : /\ r \in [0..Len(b) -> BOOLEAN]
                /\ \A i \in 0..Len(b) : r[i] = PhoneFinds(r, b, i)
                /\ ContainsHEVCRandomAccessPicture(b) = r[0]
<1> DEFINE L == Len(b)
           F == [p \in [0..L -> BOOLEAN] \X (0..L) |-> PhoneFinds(p[1], b, p[2])]
           k(i) == StartCodeLength(b, i)
<1>1. L \in Nat BY LenProperties
<1> HIDE DEF L
<1>2. \A i \in 0..L : k(i) \in {0, 3, 4} BY CodeLengthType
<1> HIDE DEF k
<1>3. \A i \in 0..L : i + 5 < L => i + 1 \in (i + 1)..L /\ i + k(i) + 1 \in (i + 1)..L
  BY <1>1, <1>2
<1>4. \A g \in [0..L -> BOOLEAN] : \A i \in 0..L : PhoneFinds(g, b, i) \in BOOLEAN
  BY DEF PhoneFinds
<1>5. F \in [[0..L -> BOOLEAN] \X (0..L) -> BOOLEAN]
      /\ \A g \in [0..L -> BOOLEAN] : \A i \in 0..L : F[<<g, i>>] = PhoneFinds(g, b, i)
  BY <1>4
<1>6. ASSUME NEW g \in [0..L -> BOOLEAN], NEW h \in [0..L -> BOOLEAN], NEW i \in 0..L,
             \A j \in (i + 1)..L : g[j] = h[j]
      PROVE  PhoneFinds(g, b, i) = PhoneFinds(h, b, i)
  <2>1. CASE i + 5 < L
    <3>1. g[i + 1] = h[i + 1] /\ g[i + k(i) + 1] = h[i + k(i) + 1] BY <1>3, <1>6, <2>1
    <3> QED BY <3>1 DEF PhoneFinds, k
  <2>2. CASE ~(i + 5 < L) BY <2>2 DEF PhoneFinds, L
  <2> QED BY <2>1, <2>2
<1>7. PICK g \in [0..L -> BOOLEAN] : Solves(g, F, L)
  <2>1. DependsOnLater(F, L, BOOLEAN) BY <1>5, <1>6 DEF DependsOnLater
  <2>2. FALSE \in BOOLEAN OBVIOUS
  <2>3. F \in [[0..L -> BOOLEAN] \X (0..L) -> BOOLEAN] BY <1>5
  <2> HIDE DEF F
  <2> QED BY <1>1, <2>1, <2>2, <2>3, Recursion, Zenon
<1>8. g = [i \in 0..L |-> PhoneFinds(g, b, i)]
  <2>1. \A i \in 0..L : g[i] = PhoneFinds(g, b, i) BY <1>5, <1>7 DEF Solves
  <2>2. g = [i \in 0..L |-> g[i]] OBVIOUS
  <2> QED BY <2>1, <2>2
<1> DEFINE r == CHOOSE r : r = [i \in 0..L |-> PhoneFinds(r, b, i)]
<1>9. r = [i \in 0..L |-> PhoneFinds(r, b, i)] BY <1>8, Zenon
<1>10. ContainsHEVCRandomAccessPicture(b) = r[0]
  BY Zenon DEF ContainsHEVCRandomAccessPicture, PhoneFinds, L
<1> HIDE DEF r
<1>11. \A i \in 0..L : r[i] = PhoneFinds(r, b, i)
  <2> SUFFICES ASSUME NEW i \in 0..L PROVE r[i] = PhoneFinds(r, b, i) OBVIOUS
  <2> QED BY <1>9
<1>12. r \in [0..L -> BOOLEAN]
  <2>1. \A i \in 0..L : PhoneFinds(r, b, i) \in BOOLEAN BY Zenon DEF PhoneFinds
  <2> QED BY <1>9, <2>1
<1> QED BY <1>10, <1>11, <1>12 DEF L

LEMMA ReceiverScans ==
  ASSUME NEW b \in Seq(Nat)
  PROVE  \E r : /\ r \in [0..Len(b) -> BOOLEAN]
                /\ \A i \in 0..Len(b) : r[i] = ReceiverFinds(r, b, i)
                /\ ContainsHevcIdr(b) = r[0]
<1> DEFINE L == Len(b)
           F == [p \in [0..L -> BOOLEAN] \X (0..L) |-> ReceiverFinds(p[1], b, p[2])]
           k(i) == StartCodeLength(b, i)
<1>1. L \in Nat BY LenProperties
<1> HIDE DEF L
<1>2. \A i \in 0..L : k(i) \in {0, 3, 4} BY CodeLengthType
<1> HIDE DEF k
<1>3. \A i \in 0..L : i + 4 < L => i + 1 \in (i + 1)..L /\ i + k(i) + 1 \in (i + 1)..L
  BY <1>1, <1>2
<1>4. \A g \in [0..L -> BOOLEAN] : \A i \in 0..L : ReceiverFinds(g, b, i) \in BOOLEAN
  BY DEF ReceiverFinds
<1>5. F \in [[0..L -> BOOLEAN] \X (0..L) -> BOOLEAN]
      /\ \A g \in [0..L -> BOOLEAN] : \A i \in 0..L : F[<<g, i>>] = ReceiverFinds(g, b, i)
  BY <1>4
<1>6. ASSUME NEW g \in [0..L -> BOOLEAN], NEW h \in [0..L -> BOOLEAN], NEW i \in 0..L,
             \A j \in (i + 1)..L : g[j] = h[j]
      PROVE  ReceiverFinds(g, b, i) = ReceiverFinds(h, b, i)
  <2>1. CASE i + 4 < L
    <3>1. g[i + 1] = h[i + 1] /\ g[i + k(i) + 1] = h[i + k(i) + 1] BY <1>3, <1>6, <2>1
    <3> QED BY <3>1 DEF ReceiverFinds, k
  <2>2. CASE ~(i + 4 < L) BY <2>2 DEF ReceiverFinds, L
  <2> QED BY <2>1, <2>2
<1>7. PICK g \in [0..L -> BOOLEAN] : Solves(g, F, L)
  <2>1. DependsOnLater(F, L, BOOLEAN) BY <1>5, <1>6 DEF DependsOnLater
  <2>2. FALSE \in BOOLEAN OBVIOUS
  <2>3. F \in [[0..L -> BOOLEAN] \X (0..L) -> BOOLEAN] BY <1>5
  <2> HIDE DEF F
  <2> QED BY <1>1, <2>1, <2>2, <2>3, Recursion, Zenon
<1>8. g = [i \in 0..L |-> ReceiverFinds(g, b, i)]
  <2>1. \A i \in 0..L : g[i] = ReceiverFinds(g, b, i) BY <1>5, <1>7 DEF Solves
  <2>2. g = [i \in 0..L |-> g[i]] OBVIOUS
  <2> QED BY <2>1, <2>2
<1> DEFINE r == CHOOSE r : r = [i \in 0..L |-> ReceiverFinds(r, b, i)]
<1>9. r = [i \in 0..L |-> ReceiverFinds(r, b, i)] BY <1>8, Zenon
<1>10. ContainsHevcIdr(b) = r[0]
  BY Zenon DEF ContainsHevcIdr, ReceiverFinds, L
<1> HIDE DEF r
<1>11. \A i \in 0..L : r[i] = ReceiverFinds(r, b, i)
  <2> SUFFICES ASSUME NEW i \in 0..L PROVE r[i] = ReceiverFinds(r, b, i) OBVIOUS
  <2> QED BY <1>9
<1>12. r \in [0..L -> BOOLEAN]
  <2>1. \A i \in 0..L : ReceiverFinds(r, b, i) \in BOOLEAN BY Zenon DEF ReceiverFinds
  <2> QED BY <1>9, <2>1
<1> QED BY <1>10, <1>11, <1>12 DEF L

(* What the phone takes for an IDR the receiver takes for one as well: a frame the sender's *)
(* gate opens with is never skipped at the PC (CameraStreamer.swift:548-583,                *)
(* receiver.cpp:149-173).                                                                   *)
THEOREM ScannersAgree ==
  ASSUME NEW b \in Seq(Nat), ContainsHEVCRandomAccessPicture(b)
  PROVE  ContainsHevcIdr(b)
<1> DEFINE L == Len(b)
<1>1. L \in Nat BY LenProperties
<1>2. PICK r : /\ r \in [0..L -> BOOLEAN]
               /\ \A i \in 0..L : r[i] = PhoneFinds(r, b, i)
               /\ ContainsHEVCRandomAccessPicture(b) = r[0]
  BY PhoneScans
<1>3. PICK q : /\ q \in [0..L -> BOOLEAN]
               /\ \A i \in 0..L : q[i] = ReceiverFinds(q, b, i)
               /\ ContainsHevcIdr(b) = q[0]
  BY ReceiverScans
<1> DEFINE T == {n \in Nat : \A i \in 0..L : i + n >= L /\ r[i] => q[i]}
<1>4. ASSUME NEW n \in Nat, NEW i \in 0..L, i + n + 1 >= L, r[i],
             \A j \in 0..L : j + n >= L /\ r[j] => q[j]
      PROVE  q[i] /\ i # L
  <2> DEFINE k == StartCodeLength(b, i)
  <2>1. PhoneFinds(r, b, i) BY <1>2, <1>4
  <2>2. i + 5 < L BY <2>1 DEF PhoneFinds
  <2>3. k \in {0, 3, 4} BY CodeLengthType
  <2>4. CASE k = 0
    <3>1. r[i + 1] BY <2>1, <2>4 DEF PhoneFinds
    <3>2. i + 1 \in 0..L /\ (i + 1) + n >= L /\ i + 4 < L BY <1>1, <1>4, <2>2
    <3>3. q[i + 1] BY <1>4, <3>1, <3>2
    <3>4. ReceiverFinds(q, b, i) BY <2>4, <3>2, <3>3 DEF ReceiverFinds
    <3> QED BY <1>3, <2>2, <3>4
  <2>5. CASE k # 0
    <3>1. IsIdrType(NalType(b[i + k + 1])) \/ r[i + k + 1] BY <2>1, <2>5 DEF PhoneFinds
    <3>2. /\ i + k + 1 \in 0..L /\ (i + k + 1) + n >= L
          /\ i + 4 < L /\ ~(i + 5 >= L)
      <4> HIDE DEF k
      <4> QED BY <1>1, <1>4, <2>2, <2>3
    <3>3. IsIdrType(NalType(b[i + k + 1])) \/ q[i + k + 1]
      <4> HIDE DEF k
      <4> QED BY <1>4, <3>1, <3>2
    <3>4. ReceiverFinds(q, b, i) BY <2>5, <3>2, <3>3 DEF ReceiverFinds
    <3> QED BY <1>3, <2>2, <3>4
  <2> QED BY <2>4, <2>5
<1> HIDE DEF L
<1>5. 0 \in T
  <2> SUFFICES ASSUME NEW i \in 0..L, i + 0 >= L, r[i] PROVE FALSE OBVIOUS
  <2>1. i = L BY <1>1
  <2>2. PhoneFinds(r, b, i) BY <1>2
  <2>3. i + 5 < L BY <2>2 DEF PhoneFinds, L
  <2> QED BY <1>1, <2>1, <2>3
<1>6. ASSUME NEW n \in T PROVE n + 1 \in T
  <2> SUFFICES ASSUME NEW i \in 0..L, i + (n + 1) >= L, r[i] PROVE q[i] OBVIOUS
  <2>1. n \in Nat /\ i + n + 1 >= L /\ \A j \in 0..L : j + n >= L /\ r[j] => q[j] BY <1>1
  <2> QED BY <1>4, <2>1
<1>7. T = Nat
  <2>1. T \in SUBSET Nat OBVIOUS
  <2> HIDE DEF T
  <2> QED BY <1>5, <1>6, <2>1, Induction
<1>8. \A i \in 0..L : i + L >= L /\ r[i] => q[i]
  <2>1. L \in T
    <3> HIDE DEF T
    <3> QED BY <1>1, <1>7
  <2> QED BY <2>1
<1>9. 0 \in 0..L /\ 0 + L >= L BY <1>1
<1> QED BY <1>2, <1>3, <1>8, <1>9 DEF L

(* What a place in the bytes has to hold for a start code to be seen there. *)
LEMMA HoldsMeans ==
  ASSUME NEW b \in Seq(Nat), NEW i \in Nat, i + 4 <= Len(b)
  PROVE  /\ Holds(b, i, <<0, 0, 1>>) <=> b[i + 1] = 0 /\ b[i + 2] = 0 /\ b[i + 3] = 1
         /\ Holds(b, i, <<0, 0, 0, 1>>) <=>
              b[i + 1] = 0 /\ b[i + 2] = 0 /\ b[i + 3] = 0 /\ b[i + 4] = 1
<1> DEFINE L == Len(b)
<1>1. L \in Nat /\ i + 4 <= L /\ \A j \in 1..L : b[j] \in Nat BY ElementOfSeq, LenProperties
<1> HIDE DEF L
<1>2. \A j \in (i + 1)..(i + 4) : b[j] \in Nat BY <1>1
<1>3. ASSUME NEW n \in 3..4
      PROVE  /\ Len(SubSeq(b, i + 1, i + n)) = n
             /\ SubSeq(b, i + 1, i + n) \in Seq(Nat)
             /\ \A j \in 1..n : SubSeq(b, i + 1, i + n)[j] = b[i + j]
  <2> DEFINE x == i + 1
             y == i + n
  <2>1. x \in Int /\ y \in Int /\ x <= y /\ y - x + 1 = n /\ \A j \in 1..n : x + j - 1 = i + j
    OBVIOUS
  <2>2. \A j \in x..y : b[j] \in Nat BY <1>2
  <2> HIDE DEF x, y
  <2>3. /\ SubSeq(b, x, y) \in Seq(Nat)
        /\ Len(SubSeq(b, x, y)) = IF x <= y THEN y - x + 1 ELSE 0
        /\ \A j \in 1..(y - x + 1) : SubSeq(b, x, y)[j] = b[x + j - 1]
    BY <2>1, <2>2, SubSeqProperties
  <2> QED BY <2>1, <2>3 DEF x, y
<1>4. Holds(b, i, <<0, 0, 1>>) <=> b[i + 1] = 0 /\ b[i + 2] = 0 /\ b[i + 3] = 1
  <2> DEFINE s == SubSeq(b, i + 1, i + 3)
             t == <<0, 0, 1>>
  <2>1. s \in Seq(Nat) /\ Len(s) = 3 /\ s[1] = b[i + 1] /\ s[2] = b[i + 2] /\ s[3] = b[i + 3]
    BY <1>3
  <2>2. t \in Seq(Nat) /\ Len(t) = 3 /\ t[1] = 0 /\ t[2] = 0 /\ t[3] = 1 OBVIOUS
  <2>3. Holds(b, i, t) <=> s = t BY DEF Holds
  <2> HIDE DEF s, t
  <2>4. ASSUME s[1] = t[1], s[2] = t[2], s[3] = t[3] PROVE s = t
    <3>1. s \in Seq(Nat) /\ t \in Seq(Nat) /\ Len(s) = Len(t) BY <2>1, <2>2
    <3>2. \A j \in 1..Len(s) : s[j] = t[j] BY <2>1, <2>4
    <3> QED BY <3>1, <3>2, SeqEqual
  <2> QED BY <2>1, <2>2, <2>3, <2>4 DEF t
<1>5. Holds(b, i, <<0, 0, 0, 1>>) <=>
        b[i + 1] = 0 /\ b[i + 2] = 0 /\ b[i + 3] = 0 /\ b[i + 4] = 1
  <2> DEFINE s == SubSeq(b, i + 1, i + 4)
             t == <<0, 0, 0, 1>>
  <2>1. /\ s \in Seq(Nat) /\ Len(s) = 4
        /\ s[1] = b[i + 1] /\ s[2] = b[i + 2] /\ s[3] = b[i + 3] /\ s[4] = b[i + 4]
    BY <1>3
  <2>2. t \in Seq(Nat) /\ Len(t) = 4 /\ t[1] = 0 /\ t[2] = 0 /\ t[3] = 0 /\ t[4] = 1 OBVIOUS
  <2>3. Holds(b, i, t) <=> s = t BY DEF Holds
  <2> HIDE DEF s, t
  <2>4. ASSUME s[1] = t[1], s[2] = t[2], s[3] = t[3], s[4] = t[4] PROVE s = t
    <3>1. s \in Seq(Nat) /\ t \in Seq(Nat) /\ Len(s) = Len(t) BY <2>1, <2>2
    <3>2. \A j \in 1..Len(s) : s[j] = t[j] BY <2>1, <2>4
    <3> QED BY <3>1, <3>2, SeqEqual
  <2> QED BY <2>1, <2>2, <2>3, <2>4 DEF t
<1> QED BY <1>4, <1>5

(* No start code begins in a unit, not even at its end. *)
LEMMA NothingInside ==
  ASSUME NEW b \in Seq(Nat), NEW u, IsUnit(u), NEW o \in Nat,
         \A j \in 1..Len(u) : b[o + j] = u[j],
         NEW t \in Nat, t < Len(u), (o + t) + 4 <= Len(b)
  PROVE  StartCodeLength(b, o + t) = 0
<1> DEFINE m == Len(u)
           p == o + t
<1>1. /\ m \in Nat /\ m >= 2 /\ u[m] # 0 /\ \A j \in 1..m : b[o + j] = u[j]
      /\ \A i \in 1..(m - 2) : ~(u[i] = 0 /\ u[i + 1] = 0 /\ u[i + 2] \in 0..1)
  BY LenProperties DEF IsUnit
<1>2. t < m OBVIOUS
<1> HIDE DEF m
<1>3. /\ Holds(b, p, <<0, 0, 1>>) <=> b[p + 1] = 0 /\ b[p + 2] = 0 /\ b[p + 3] = 1
      /\ Holds(b, p, <<0, 0, 0, 1>>) <=>
           b[p + 1] = 0 /\ b[p + 2] = 0 /\ b[p + 3] = 0 /\ b[p + 4] = 1
  <2>1. p \in Nat /\ p + 4 <= Len(b) OBVIOUS
  <2> HIDE DEF p
  <2> QED BY <2>1, HoldsMeans
<1>4. ~(b[p + 1] = 0 /\ b[p + 2] = 0 /\ b[p + 3] \in 0..1)
  <2>1. p + 1 = o + (t + 1) /\ p + 2 = o + (t + 2) /\ p + 3 = o + (t + 3) OBVIOUS
  <2> HIDE DEF p
  <2>2. CASE t + 1 = m
    <3>1. t + 1 \in 1..m BY <1>1, <2>2
    <3>2. b[o + (t + 1)] = u[t + 1] BY <1>1, <3>1
    <3> QED BY <1>1, <2>1, <2>2, <3>2
  <2>3. CASE t + 2 = m
    <3>1. t + 2 \in 1..m BY <1>1, <2>3
    <3>2. b[o + (t + 2)] = u[t + 2] BY <1>1, <3>1
    <3> QED BY <1>1, <2>1, <2>3, <3>2
  <2>4. CASE t + 3 <= m
    <3>1. t + 1 \in 1..m /\ t + 2 \in 1..m /\ t + 3 \in 1..m BY <1>1, <2>4
    <3>2. b[o + (t + 1)] = u[t + 1] /\ b[o + (t + 2)] = u[t + 2] /\ b[o + (t + 3)] = u[t + 3]
      BY <1>1, <3>1
    <3>3. t + 1 \in 1..(m - 2) /\ (t + 1) + 1 = t + 2 /\ (t + 1) + 2 = t + 3 BY <1>1, <2>4
    <3>4. ~(u[t + 1] = 0 /\ u[t + 2] = 0 /\ u[t + 3] \in 0..1) BY <1>1, <3>3
    <3> QED BY <2>1, <3>2, <3>4
  <2> QED BY <1>1, <1>2, <2>2, <2>3, <2>4
<1>5. 1 \in 0..1 /\ 0 \in 0..1 OBVIOUS
<1> HIDE DEF p
<1>6. ~Holds(b, p, <<0, 0, 1>>) /\ ~Holds(b, p, <<0, 0, 0, 1>>) BY <1>3, <1>4, <1>5
<1>7. StartCodeLength(b, p) = 0 BY <1>6 DEF StartCodeLength
<1> QED BY <1>7 DEF p

(* Where a unit of Annex B stands: behind its start code. *)
LEMMA FramedUnit ==
  ASSUME NEW units \in Seq(Seq(Nat)), NEW i \in 1..Len(units)
  PROVE  LET g == Framings(units)  o == Offset(g, i)  m == Len(units[i])  b == Framed(units)
         IN  /\ o \in Nat /\ m \in Nat /\ Offset(g, i + 1) = o + (4 + m)
             /\ Offset(g, i + 1) <= Len(b)
             /\ b[o + 1] = 0 /\ b[o + 2] = 0 /\ b[o + 3] = 0 /\ b[o + 4] = 1
             /\ \A j \in 1..m : b[(o + 4) + j] = units[i][j]
<1> DEFINE n == Len(units)
           g == Framings(units)
           o == Offset(g, i)
           u == units[i]
           m == Len(u)
           b == Framed(units)
<1>1. n \in Nat /\ g \in [1..n -> Seq(Nat)] /\ i \in 1..n /\ u \in Seq(Nat) /\ m \in Nat
      /\ g[i] = StartCode \o u
  <2>1. 1 \in 1..4 OBVIOUS
  <2>2. n \in Nat /\ g \in [1..n -> Seq(Nat)] BY <2>1, PartsType
  <2>3. u \in Seq(Nat) BY ElementOfSeq
  <2>4. m \in Nat BY <2>3, LenProperties
  <2> QED BY <2>2, <2>3, <2>4 DEF Framings
<1>2. /\ o \in Nat /\ Offset(g, i + 1) = o + Len(g[i]) /\ Offset(g, i + 1) <= Len(FlattenSeq(g))
      /\ IsPlaced(g, i)
  <2> HIDE DEF n, g, u, m, b
  <2> QED BY <1>1, Placement
<1>3. b = FlattenSeq(g) BY DEF Framed, Framings
<1>4. \A j \in 1..Len(g[i]) : b[o + j] = g[i][j]
  <2> HIDE DEF n, g, u, m, b
  <2> QED BY <1>2, <1>3 DEF IsPlaced
<1>5. /\ Len(g[i]) = 4 + m
      /\ g[i][1] = 0 /\ g[i][2] = 0 /\ g[i][3] = 0 /\ g[i][4] = 1
      /\ \A j \in 1..m : g[i][4 + j] = u[j]
  <2> HIDE DEF u
  <2>1. StartCode \in Seq(Nat) /\ Len(StartCode) = 4 BY DEF StartCode
  <2>2. /\ Len(StartCode \o u) = 4 + Len(u)
        /\ \A j \in 1..4 : (StartCode \o u)[j] = StartCode[j]
        /\ \A j \in 1..Len(u) : (StartCode \o u)[4 + j] = u[j]
    <3>1. Joined(StartCode, u) BY <1>1, <2>1, ConcatJoined
    <3> QED BY <2>1, <3>1 DEF Joined
  <2>3. StartCode[1] = 0 /\ StartCode[2] = 0 /\ StartCode[3] = 0 /\ StartCode[4] = 1
    BY DEF StartCode
  <2>4. /\ 1 \in 1..4 /\ 2 \in 1..4 /\ 3 \in 1..4 /\ 4 \in 1..4 OBVIOUS
  <2> DEFINE c == StartCode \o u
  <2>5. /\ Len(c) = 4 + Len(u) /\ c[1] = 0 /\ c[2] = 0 /\ c[3] = 0 /\ c[4] = 1
        /\ \A j \in 1..Len(u) : c[4 + j] = u[j]
    BY <2>2, <2>3, <2>4
  <2>6. g[i] = c BY <1>1
  <2> HIDE DEF c, n, g, o, b
  <2> QED BY <2>5, <2>6
<1> HIDE DEF n, g, o, u, m, b
<1>6. b[o + 1] = 0 /\ b[o + 2] = 0 /\ b[o + 3] = 0 /\ b[o + 4] = 1
  <2>1. 1 \in 1..Len(g[i]) /\ 2 \in 1..Len(g[i]) /\ 3 \in 1..Len(g[i]) /\ 4 \in 1..Len(g[i])
    BY <1>1, <1>5
  <2> QED BY <1>4, <1>5, <2>1
<1>7. ASSUME NEW j \in 1..m PROVE b[(o + 4) + j] = u[j]
  <2>1. 4 + j \in 1..Len(g[i]) /\ o + (4 + j) = (o + 4) + j BY <1>1, <1>2, <1>5
  <2>2. b[o + (4 + j)] = g[i][4 + j] BY <1>4, <2>1
  <2> QED BY <1>5, <2>1, <2>2
<1> QED BY <1>1, <1>2, <1>3, <1>5, <1>6, <1>7 DEF g, o, u, m, b

(* In Annex B, whose units hold no start code, the scan finds an IDR exactly when a unit is *)
(* one: it looks at the first byte of every unit and at no other (CameraStreamer.swift:     *)
(* 548-583).                                                                                *)
THEOREM ScannerFindsIdr ==
  ASSUME NEW units \in Seq(Seq(Nat)), \A i \in 1..Len(units) : IsUnit(units[i])
  PROVE  ContainsHEVCRandomAccessPicture(Framed(units)) <=> HasIdr(units)
<1> DEFINE n == Len(units)
           g == Framings(units)
           b == Framed(units)
           L == Len(b)
           o(i) == Offset(g, i)
           m(i) == Len(units[i])
           Idr(i) == IsIdrType(NalType(units[i][1]))
           Whole(i) == \A j \in 1..m(i) : b[(o(i) + 4) + j] = units[i][j]
<1>1. n \in Nat /\ b \in Seq(Nat) /\ L \in Nat
  <2>1. b \in Seq(Nat) BY FramedType
  <2> HIDE DEF b
  <2> QED BY <2>1, LenProperties
<1>2. \A i \in 1..n : /\ o(i) \in Nat /\ m(i) \in Nat /\ m(i) >= 2 /\ IsUnit(units[i])
                      /\ o(i + 1) = o(i) + (4 + m(i)) /\ o(i + 1) <= L
                      /\ b[o(i) + 1] = 0 /\ b[o(i) + 2] = 0 /\ b[o(i) + 3] = 0 /\ b[o(i) + 4] = 1
                      /\ Whole(i)
  <2> TAKE i \in 1..n
  <2>1. IsUnit(units[i]) /\ m(i) >= 2 BY DEF IsUnit
  <2>2. /\ o(i) \in Nat /\ m(i) \in Nat
        /\ o(i + 1) = o(i) + (4 + m(i)) /\ o(i + 1) <= L
        /\ b[o(i) + 1] = 0 /\ b[o(i) + 2] = 0 /\ b[o(i) + 3] = 0 /\ b[o(i) + 4] = 1
        /\ \A j \in 1..m(i) : b[(o(i) + 4) + j] = units[i][j]
    BY FramedUnit
  <2>3. Whole(i) BY <2>2
  <2> HIDE DEF o, m, b, Whole
  <2> QED BY <2>1, <2>2, <2>3
<1>3. o(1) = 0 /\ o(n + 1) = L
  <2>1. Framings(units) \in [1..n -> Seq(Nat)]
    <3>1. 1 \in 1..4 OBVIOUS
    <3> QED BY <3>1, PartsType
  <2> HIDE DEF n
  <2>2. Leading(g, 0) \in [1..0 -> Seq(Nat)] BY DEF Leading
  <2>3. FlattenSeq(Leading(g, 0)) = <<>> BY <2>2, FlattenNone
  <2>4. Leading(g, n) = g BY <2>1 DEF Leading
  <2>5. 1 - 1 = 0 /\ (n + 1) - 1 = n BY <1>1
  <2>6. o(1) = 0 BY <2>3, <2>5, EmptySeq DEF Offset
  <2>7. o(n + 1) = Len(FlattenSeq(g)) BY <2>4, <2>5 DEF Offset
  <2> QED BY <2>6, <2>7 DEF Framed, Framings
<1>4. PICK r : /\ r \in [0..L -> BOOLEAN]
               /\ \A i \in 0..L : r[i] = PhoneFinds(r, b, i)
               /\ ContainsHEVCRandomAccessPicture(b) = r[0]
  <2> HIDE DEF b
  <2> QED BY <1>1, PhoneScans
<1> HIDE DEF n, b, L, o, m, Whole
<1>5. \A p \in 0..L : p + 5 >= L => ~r[p]
  <2> SUFFICES ASSUME NEW p \in 0..L, p + 5 >= L, r[p] PROVE FALSE OBVIOUS
  <2>1. PhoneFinds(r, b, p) BY <1>4
  <2>2. p + 5 < L BY <2>1 DEF PhoneFinds, L
  <2> QED BY <1>1, <2>2
(* Behind a unit's first byte the scan goes on to the next unit. *)
<1>6. \A i \in 1..n : \A p \in (o(i) + 4)..o(i + 1) : r[p] = r[o(i + 1)]
  <2> SUFFICES ASSUME NEW i \in 1..n
               PROVE  \A p \in (o(i) + 4)..o(i + 1) : r[p] = r[o(i + 1)]
    OBVIOUS
  <2> DEFINE c == o(i)
             e == o(i + 1)
             u == units[i]
             k == m(i)
             T == {d \in Nat : \A p \in (c + 4)..e : p + d >= e => r[p] = r[e]}
  <2>1. /\ c \in Nat /\ k \in Nat /\ k >= 2 /\ e = c + (4 + k) /\ e <= L /\ e \in Nat
        /\ IsUnit(u) /\ \A j \in 1..k : b[(c + 4) + j] = u[j]
    <3>1. /\ c \in Nat /\ k \in Nat /\ k >= 2 /\ e = c + (4 + k) /\ e <= L /\ IsUnit(u)
          /\ Whole(i)
      BY <1>2
    <3>2. \A j \in 1..k : b[(c + 4) + j] = u[j] BY <3>1 DEF Whole
    <3> HIDE DEF c, k, e, u
    <3> QED BY <3>1, <3>2
  <2>2. e + 5 < L \/ e = L
    <3>1. CASE i = n BY <1>1, <1>3, <3>1
    <3>2. CASE i # n
      <4>1. i + 1 \in 1..n BY <1>1, <3>2
      <4>2. /\ o(i + 1) \in Nat /\ m(i + 1) \in Nat /\ m(i + 1) >= 2
            /\ o((i + 1) + 1) = o(i + 1) + (4 + m(i + 1)) /\ o((i + 1) + 1) <= L
        BY <1>2, <4>1
      <4> DEFINE x == o((i + 1) + 1)
                 y == m(i + 1)
      <4>3. e \in Nat /\ y \in Nat /\ y >= 2 /\ x = e + (4 + y) /\ x <= L BY <4>2
      <4> HIDE DEF x, y, e
      <4> QED BY <1>1, <4>3
    <3> QED BY <3>1, <3>2
  <2>3. k = Len(u) BY DEF m
  <2> HIDE DEF c, e, u, k
  <2>4. 0 \in T
    <3>1. \A p \in (c + 4)..e : p + 0 >= e => p = e BY <2>1
    <3> QED BY <3>1
  <2>5. ASSUME NEW d \in T PROVE d + 1 \in T
    <3> SUFFICES ASSUME NEW p \in (c + 4)..e, p + (d + 1) >= e PROVE r[p] = r[e] OBVIOUS
    <3>1. d \in Nat /\ \A q \in (c + 4)..e : q + d >= e => r[q] = r[e] OBVIOUS
    <3> HIDE DEF T
    <3>2. p \in 0..L /\ e \in 0..L BY <1>1, <2>1
    <3>3. CASE p = e BY <3>3
    <3>4. CASE p # e /\ p + 5 >= L
      <4>1. e = L BY <1>1, <2>1, <2>2, <3>4
      <4>2. ~r[p] /\ ~r[e] BY <1>1, <1>5, <3>2, <3>4, <4>1
      <4>3. r[p] \in BOOLEAN /\ r[e] \in BOOLEAN BY <1>4, <3>2
      <4> QED BY <4>2, <4>3
    <3>5. CASE p # e /\ ~(p + 5 >= L)
      <4> DEFINE t == p - (c + 4)
      <4>1. t \in Nat /\ t < k /\ (c + 4) + t = p /\ p + 5 < L BY <1>1, <2>1, <3>2, <3>5
      <4>2. StartCodeLength(b, p) = 0
        <5>1. ((c + 4) + t) + 4 <= L /\ c + 4 \in Nat BY <1>1, <2>1, <3>2, <4>1
        <5>2. t < Len(u) /\ \A j \in 1..Len(u) : b[(c + 4) + j] = u[j] BY <2>1, <2>3, <4>1
        <5> HIDE DEF t
        <5>3. StartCodeLength(b, (c + 4) + t) = 0
          BY <1>1, <2>1, <4>1, <5>1, <5>2, NothingInside DEF L
        <5> QED BY <4>1, <5>3
      <4>3. r[p] = PhoneFinds(r, b, p) BY <1>4, <3>2
      <4>4. p + 1 \in (c + 4)..e /\ (p + 1) + d >= e /\ p + 1 \in 0..L
        BY <1>1, <2>1, <3>1, <3>2, <3>5
      <4>5. r[p + 1] = r[e] /\ r[p + 1] \in BOOLEAN BY <1>4, <3>1, <4>4
      <4>6. PhoneFinds(r, b, p) = r[p + 1] BY <4>1, <4>2, <4>5 DEF PhoneFinds, L
      <4> QED BY <4>3, <4>5, <4>6
    <3> QED BY <3>3, <3>4, <3>5
  <2>6. T = Nat
    <3>1. T \in SUBSET Nat OBVIOUS
    <3> HIDE DEF T
    <3> QED BY <2>4, <2>5, <3>1, Induction
  <2>7. e \in T
    <3> HIDE DEF T
    <3> QED BY <2>1, <2>6
  <2>8. \A p \in (c + 4)..e : p + e >= e BY <2>1
  <2> QED BY <2>7, <2>8 DEF c, e
<1>7. \A i \in 1..n : r[o(i)] <=> Idr(i) \/ r[o(i + 1)]
  <2> SUFFICES ASSUME NEW i \in 1..n PROVE r[o(i)] <=> Idr(i) \/ r[o(i + 1)] OBVIOUS
  <2> DEFINE c == o(i)
             e == o(i + 1)
             u == units[i]
             k == m(i)
  <2>1. /\ c \in Nat /\ k \in Nat /\ k >= 2 /\ e = c + (4 + k) /\ e <= L /\ e \in Nat
        /\ b[c + 1] = 0 /\ b[c + 2] = 0 /\ b[c + 3] = 0 /\ b[c + 4] = 1
        /\ \A j \in 1..k : b[(c + 4) + j] = u[j]
    <3>1. /\ c \in Nat /\ k \in Nat /\ k >= 2 /\ e = c + (4 + k) /\ e <= L /\ Whole(i)
          /\ b[c + 1] = 0 /\ b[c + 2] = 0 /\ b[c + 3] = 0 /\ b[c + 4] = 1
      BY <1>2
    <3>2. \A j \in 1..k : b[(c + 4) + j] = u[j] BY <3>1 DEF Whole
    <3> HIDE DEF c, k, e, u
    <3> QED BY <3>1, <3>2
  <2>2. r[c + 5] = r[e]
    <3>1. c + 5 \in (c + 4)..e
      <4> HIDE DEF c, e, k
      <4> QED BY <2>1
    <3> QED BY <1>6, <3>1
  <2>3. b[c + 5] = u[1]
    <3>1. 1 \in 1..k /\ (c + 4) + 1 = c + 5
      <4> HIDE DEF c, e, k
      <4> QED BY <2>1
    <3>2. b[(c + 4) + 1] = u[1] BY <2>1, <3>1
    <3> QED BY <3>1, <3>2
  <2> HIDE DEF c, e, k, u
  <2>4. c \in 0..L /\ c + 5 < L /\ c + 4 <= L BY <1>1, <2>1
  <2>5. StartCodeLength(b, c) = 4
    <3>1. /\ Holds(b, c, <<0, 0, 1>>) <=> b[c + 1] = 0 /\ b[c + 2] = 0 /\ b[c + 3] = 1
          /\ Holds(b, c, <<0, 0, 0, 1>>) <=>
               b[c + 1] = 0 /\ b[c + 2] = 0 /\ b[c + 3] = 0 /\ b[c + 4] = 1
      BY <1>1, <2>1, <2>4, HoldsMeans DEF L
    <3>2. ~Holds(b, c, <<0, 0, 1>>) /\ Holds(b, c, <<0, 0, 0, 1>>) BY <2>1, <3>1
    <3> QED BY <3>2 DEF StartCodeLength
  <2>6. r[c] = PhoneFinds(r, b, c) BY <1>4, <2>4
  <2>7. c + 4 + 1 = c + 5 BY <2>1
  <2>8. PhoneFinds(r, b, c) <=> IsIdrType(NalType(b[c + 5])) \/ r[c + 5]
    BY <2>4, <2>5, <2>7 DEF PhoneFinds, L
  <2>9. r[c] <=> IsIdrType(NalType(u[1])) \/ r[e] BY <2>2, <2>3, <2>6, <2>8
  <2> QED BY <2>9 DEF c, e, u
<1>8. ~r[o(n + 1)] BY <1>1, <1>3, <1>5
<1> DEFINE T == {k \in Nat : k <= n => (r[o((n - k) + 1)] <=> \E i \in ((n - k) + 1)..n : Idr(i))}
<1> HIDE DEF Idr
<1>9. 0 \in T
  <2>1. (n - 0) + 1 = n + 1 /\ (n + 1)..n = {} BY <1>1
  <2> QED BY <1>8, <2>1
<1>10. ASSUME NEW k \in T PROVE k + 1 \in T
  <2> SUFFICES ASSUME k + 1 <= n
               PROVE  r[o((n - (k + 1)) + 1)] <=> \E i \in ((n - (k + 1)) + 1)..n : Idr(i)
    OBVIOUS
  <2> DEFINE j == n - k
  <2>1. k \in Nat /\ j \in 1..n /\ (n - (k + 1)) + 1 = j /\ k <= n BY <1>1
  <2>2. r[o(j + 1)] <=> \E i \in (j + 1)..n : Idr(i) BY <2>1
  <2>3. r[o(j)] <=> Idr(j) \/ r[o(j + 1)] BY <1>7, <2>1
  <2> HIDE DEF j, T
  <2>4. j..n = {j} \cup (j + 1)..n BY <1>1, <2>1
  <2>5. (\E i \in j..n : Idr(i)) <=> Idr(j) \/ \E i \in (j + 1)..n : Idr(i) BY <2>4
  <2> QED BY <2>1, <2>2, <2>3, <2>5
<1>11. T = Nat
  <2>1. T \in SUBSET Nat OBVIOUS
  <2> HIDE DEF T
  <2> QED BY <1>9, <1>10, <2>1, Induction
<1>12. r[0] <=> \E i \in 1..n : Idr(i)
  <2>1. n \in T
    <3> HIDE DEF T
    <3> QED BY <1>1, <1>11
  <2>2. (n - n) + 1 = 1 /\ n <= n BY <1>1
  <2>3. r[o(1)] <=> \E i \in 1..n : Idr(i) BY <2>1, <2>2
  <2> QED BY <1>3, <2>3
<1> QED BY <1>4, <1>12 DEF b, n, Idr, HasIdr
===============================================================================
