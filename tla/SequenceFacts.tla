--------------------------- MODULE SequenceFacts ---------------------------
(***************************************************************************)
(* Facts about the operators of the library with which the models search,  *)
(* extend, shorten and join sequences.  SelectInSeq has an operator for    *)
(* its test, so what it returns is stated of the set of indexes it looks   *)
(* at.  The library's theorem of induction has one too: UpTo is induction  *)
(* over the numbers up to a bound, for a set instead, and CountingExists   *)
(* says that a function defined from the value before exists, for a        *)
(* function instead of an operator.                                        *)
(***************************************************************************)
EXTENDS Integers, Sequences, SequencesExt, WellFoundedInduction, SequenceTheorems, TLAPS

----------------------------------------------------------------------------
(* Least elements *)

\* The library's order of the natural numbers, without its operator
Smaller == {p \in Nat \X Nat : p[1] < p[2]}

LEMMA MinIn ==
    ASSUME NEW S \in SUBSET Nat, S # {}
    PROVE  Min(S) \in S /\ \A m \in S : Min(S) <= m
<1>1. OpToRel(<, Nat) = Smaller
  BY Zenon DEF OpToRel, Smaller
<1>2. IsWellFoundedOn(Smaller, Nat)
  BY Zenon, <1>1, NatLessThanWellFounded
<1>3. PICK n \in S : \A m \in S : ~ (<<m, n>> \in Smaller)
  BY Zenon, <1>2, WFMin
<1>4. ASSUME NEW m \in S
      PROVE  n <= m
  <2>1. m \in Nat /\ n \in Nat /\ (m < n => <<m, n>> \in Smaller)
    BY DEF Smaller
  <2> QED
    BY <1>3, <2>1
<1> QED
  BY <1>4 DEF Min

\* The first index that a test picks
LEMMA FirstOf ==
    ASSUME NEW I, NEW n \in Nat, I \subseteq 1..n, NEW k, k = IF I # {} THEN Min(I) ELSE 0
    PROVE  /\ k # 0 => k \in I /\ \A i \in I : k <= i
           /\ k = 0 => I = {}
<1>1. CASE I = {}
  BY <1>1
<1>2. CASE I # {}
  <2>1. I \in SUBSET Nat
    OBVIOUS
  <2>2. Min(I) \in I /\ \A i \in I : Min(I) <= i
    BY <1>2, <2>1, MinIn
  <2> QED
    BY <1>2, <2>2
<1> QED
  BY <1>1, <1>2

----------------------------------------------------------------------------
(* A sequence with one element more, or less *)

\* InsertAt moves what was at k and after it by one.
LEMMA InsertFacts ==
    ASSUME NEW S, NEW s \in Seq(S), NEW k \in 1..(Len(s) + 1), NEW m \in S,
           NEW t, t = InsertAt(s, k, m)
    PROVE  /\ t \in Seq(S) /\ Len(t) = Len(s) + 1
           /\ \A i \in 1..(k - 1) : t[i] = s[i]
           /\ t[k] = m
           /\ \A i \in k..Len(s) : t[i + 1] = s[i]
<1> DEFINE u == SubSeq(s, 1, k - 1)
           v == SubSeq(s, k, Len(s))
           w == u \o <<m>>
<1>1. Len(s) \in Nat /\ k \in Nat /\ 1 <= k /\ k <= Len(s) + 1
  OBVIOUS
<1>2. u \in Seq(S) /\ Len(u) = k - 1 /\ \A i \in 1..(k - 1) : u[i] = s[i]
  BY <1>1
<1>3. v \in Seq(S) /\ Len(v) = Len(s) - (k - 1)
      /\ \A i \in 1..(Len(s) - (k - 1)) : v[i] = s[k - 1 + i]
  BY <1>1
<1>4. t = (u \o <<m>>) \o v
  BY Zenon DEF InsertAt
<1> HIDE DEF u, v
<1>5. w \in Seq(S) /\ Len(w) = k /\ (\A i \in 1..(k - 1) : w[i] = u[i]) /\ w[k] = m
  BY <1>1, <1>2
<1>6. t = w \o v
  BY <1>4
<1> HIDE DEF w
<1>7. t \in Seq(S) /\ Len(t) = Len(s) + 1
  <2>1. w \in Seq(S) /\ v \in Seq(S)
    BY <1>3, <1>5
  <2>2. w \o v \in Seq(S) /\ Len(w \o v) = Len(w) + Len(v)
    BY <2>1
  <2>3. t \in Seq(S) /\ Len(t) = Len(w) + Len(v)
    BY <1>6, <2>2
  <2> QED
    BY <1>1, <1>3, <1>5, <2>3
<1>8. \A i \in 1..k : t[i] = w[i]
  BY <1>1, <1>3, <1>5, <1>6
<1>9. \A i \in k..Len(s) : t[i + 1] = v[i - (k - 1)]
  BY <1>1, <1>3, <1>5, <1>6
<1>10. \A i \in k..Len(s) : i - (k - 1) \in 1..(Len(s) - (k - 1)) /\ k - 1 + (i - (k - 1)) = i
  BY <1>1
<1>11. \A i \in k..Len(s) : t[i + 1] = s[i]
  BY <1>3, <1>9, <1>10
<1>12. \A i \in 1..(k - 1) : t[i] = s[i]
  BY <1>1, <1>2, <1>5, <1>8
<1>13. t[k] = m
  BY <1>1, <1>5, <1>8
<1> QED
  BY <1>7, <1>11, <1>12, <1>13

\* RemoveAt moves what was after k back by one.
LEMMA RemoveFacts ==
    ASSUME NEW S, NEW s \in Seq(S), NEW k \in 1..Len(s)
    PROVE  LET t == RemoveAt(s, k)
           IN  /\ t \in Seq(S) /\ Len(t) = Len(s) - 1
               /\ \A i \in 1..(k - 1) : t[i] = s[i]
               /\ \A i \in k..(Len(s) - 1) : t[i] = s[i + 1]
<1> DEFINE u == SubSeq(s, 1, k - 1)
           v == SubSeq(s, k + 1, Len(s))
           t == RemoveAt(s, k)
<1>1. Len(s) \in Nat /\ k \in Nat /\ 1 <= k /\ k <= Len(s)
  OBVIOUS
<1>2. u \in Seq(S) /\ Len(u) = k - 1 /\ \A i \in 1..(k - 1) : u[i] = s[i]
  BY <1>1
<1>3. v \in Seq(S) /\ Len(v) = Len(s) - k /\ \A i \in 1..(Len(s) - k) : v[i] = s[k + i]
  BY <1>1
<1>4. t = u \o v
  BY <1>1 DEF RemoveAt
<1> HIDE DEF u, v, t
<1>5. t \in Seq(S) /\ Len(t) = Len(s) - 1
  BY <1>1, <1>2, <1>3, <1>4
<1>6. \A i \in 1..(k - 1) : t[i] = s[i]
  BY <1>1, <1>2, <1>3, <1>4
<1>7. \A i \in k..(Len(s) - 1) : t[i] = v[i - (k - 1)]
  BY <1>1, <1>2, <1>3, <1>4
<1>8. \A i \in k..(Len(s) - 1) : i - (k - 1) \in 1..(Len(s) - k) /\ k + (i - (k - 1)) = i + 1
  BY <1>1
<1>9. \A i \in k..(Len(s) - 1) : t[i] = s[i + 1]
  BY <1>3, <1>7, <1>8
<1> QED
  BY <1>5, <1>6, <1>9 DEF t

----------------------------------------------------------------------------
(* Counting up *)

\* Induction over the indexes of a sequence, for a set of them.
LEMMA UpTo ==
    ASSUME NEW L \in Nat, NEW T, 0 \in T, \A n \in 1..L : n - 1 \in T => n \in T
    PROVE  \A n \in 0..L : n \in T
<1> DEFINE Bad == {n \in 0..L : n \notin T}
<1> SUFFICES ASSUME Bad # {}
             PROVE  FALSE
  OBVIOUS
<1>1. Bad \in SUBSET Nat
  OBVIOUS
<1>2. PICK n \in Bad : \A m \in Bad : n <= m
  BY <1>1, MinIn
<1>3. n \in 1..L /\ n - 1 \in 0..L /\ n - 1 \notin Bad
  BY <1>2
<1> QED
  BY <1>2, <1>3

\* The function f has the first value a, and each other one by G from the one before
Counts(f, L, a, G) == f[0] = a /\ \A n \in 1..L : f[n] = G[<<f[n - 1], n>>]

\* There is such a function, whatever G maps values and numbers to.
LEMMA CountingExists ==
    ASSUME NEW L \in Nat, NEW S, NEW a \in S, NEW G \in [S \X (1..L) -> S]
    PROVE  \E f \in [0..L -> S] : Counts(f, L, a, G)
<1> DEFINE T == {N \in 0..L : \E f \in [0..N -> S] : Counts(f, N, a, G)}
<1>1. 0 \in T
  <2>1. [n \in 0..0 |-> a] \in [0..0 -> S] /\ Counts([n \in 0..0 |-> a], 0, a, G)
    BY DEF Counts
  <2>2. 0 \in 0..L
    OBVIOUS
  <2> QED
    BY <2>1, <2>2
<1>2. ASSUME NEW N \in 1..L, N - 1 \in T
      PROVE  N \in T
  <2>1. PICK g \in [0..(N - 1) -> S] : Counts(g, N - 1, a, G)
    BY <1>2
  <2> DEFINE v == G[<<g[N - 1], N>>]
             f == [n \in 0..N |-> IF n = N THEN v ELSE g[n]]
  <2>2. v \in S
    <3>1. g[N - 1] \in S /\ <<g[N - 1], N>> \in S \X (1..L)
      OBVIOUS
    <3> QED
      BY <3>1
  <2> HIDE DEF v
  <2>3. f \in [0..N -> S]
    BY <2>2
  <2>4. ASSUME NEW n \in 1..N
        PROVE  f[n] = G[<<f[n - 1], n>>]
    <3>1. n - 1 \in 0..(N - 1) /\ n - 1 # N /\ f[n - 1] = g[n - 1]
      OBVIOUS
    <3>2. CASE n = N
      BY <3>1, <3>2 DEF v
    <3>3. CASE n # N
      <4>1. n \in 1..(N - 1) /\ f[n] = g[n]
        BY <3>3
      <4> QED
        BY <2>1, <3>1, <4>1 DEF Counts
    <3> QED
      BY <3>2, <3>3
  <2>5. f[0] = a
    BY <2>1 DEF Counts
  <2>6. Counts(f, N, a, G)
    BY <2>4, <2>5 DEF Counts
  <2>7. N \in 0..L
    OBVIOUS
  <2> HIDE DEF f
  <2> QED
    BY <2>3, <2>6, <2>7
<1>3. L \in T
  <2> HIDE DEF T
  <2>1. \A n \in 0..L : n \in T
    BY <1>1, <1>2, UpTo
  <2> QED
    BY <2>1
<1> QED
  BY <1>3

----------------------------------------------------------------------------
(* The sequence of all elements of a sequence of sequences *)

Joins(f, ss) == f = [i \in 1..Len(ss) |-> IF i = 1 THEN ss[i] ELSE f[i - 1] \o ss[i]]

LEMMA JoinsExists ==
    ASSUME NEW S, NEW ss \in Seq(Seq(S))
    PROVE  \E f : Joins(f, ss)
<1> DEFINE L == Len(ss)
           G == [p \in Seq(S) \X (1..L) |-> p[1] \o ss[p[2]]]
<1>1. L \in Nat /\ <<>> \in Seq(S) /\ \A i \in 1..L : ss[i] \in Seq(S)
  OBVIOUS
<1>2. G \in [Seq(S) \X (1..L) -> Seq(S)]
  <2>1. ASSUME NEW p \in Seq(S) \X (1..L)
        PROVE  p[1] \o ss[p[2]] \in Seq(S)
    <3>1. p[1] \in Seq(S) /\ ss[p[2]] \in Seq(S)
      BY <1>1
    <3> QED
      BY <3>1, ConcatProperties
  <2> QED
    BY <2>1
<1>3. PICK h \in [0..L -> Seq(S)] : Counts(h, L, <<>>, G)
  <2> DEFINE Q == Seq(S)
             e == <<>>
  <2>1. L \in Nat /\ e \in Q /\ G \in [Q \X (1..L) -> Q]
    BY <1>1, <1>2
  <2> HIDE DEF G, L, Q, e
  <2>2. \E h \in [0..L -> Q] : Counts(h, L, e, G)
    BY <2>1, CountingExists
  <2> QED
    BY <2>2 DEF Q, e
<1>4. ASSUME NEW n \in 1..L
      PROVE  h[n] = h[n - 1] \o ss[n]
  <2>1. n - 1 \in 0..L
    BY <1>1
  <2>2. h[n - 1] \in Seq(S)
    BY <1>3, <2>1
  <2>3. G[<<h[n - 1], n>>] = h[n - 1] \o ss[n]
    BY <2>2
  <2> QED
    BY <1>3, <2>3 DEF Counts
<1> DEFINE f == [i \in 1..L |-> h[i]]
<1>5. ASSUME NEW i \in 1..L
      PROVE  f[i] = IF i = 1 THEN ss[i] ELSE f[i - 1] \o ss[i]
  <2>1. CASE i = 1
    <3>1. h[1] = h[0] \o ss[1] /\ ss[1] \in Seq(S)
      <4>1. 1 \in 1..L /\ 1 - 1 = 0
        BY <2>1
      <4>2. h[1] = h[1 - 1] \o ss[1]
        BY <1>4, <4>1
      <4> QED
        BY <1>1, <4>1, <4>2
    <3>2. h[1] = ss[1]
      BY <1>3, <3>1, ConcatEmptySeq DEF Counts
    <3> QED
      BY <2>1, <3>2
  <2>2. CASE i # 1
    <3>1. i - 1 \in 1..L /\ f[i - 1] = h[i - 1]
      BY <1>1, <2>2
    <3> QED
      BY <1>4, <2>2, <3>1
  <2> QED
    BY <2>1, <2>2
<1>6. f = [i \in 1..Len(ss) |-> IF i = 1 THEN ss[i] ELSE f[i - 1] \o ss[i]]
  BY <1>5
<1> HIDE DEF f
<1> QED
  BY <1>6 DEF Joins

\* What FlattenSeq is: the last value of a function that joins one more at a time.
LEMMA FlattenIsJoined ==
    ASSUME NEW S, NEW ss \in Seq(Seq(S)), ss # <<>>
    PROVE  \E f : /\ FlattenSeq(ss) = f[Len(ss)]
                  /\ \A i \in 1..Len(ss) :
                        f[i] \in Seq(S) /\ f[i] = (IF i = 1 THEN ss[i] ELSE f[i - 1] \o ss[i])
<1> DEFINE f == CHOOSE f : Joins(f, ss)
<1>1. Len(ss) \in Nat \ {0} /\ \A i \in 1..Len(ss) : ss[i] \in Seq(S)
  BY EmptySeq
<1>2. FlattenSeq(ss) = f[Len(ss)]
  <2>1. Len(ss) # 0
    BY <1>1
  <2> QED
    BY Zenon, <2>1 DEF FlattenSeq, Joins
<1>3. Joins(f, ss)
  <2>1. \E g : Joins(g, ss)
    BY JoinsExists
  <2> QED
    BY Zenon, <2>1
<1> HIDE DEF f
<1>4. \A i \in 1..Len(ss) : f[i] = (IF i = 1 THEN ss[i] ELSE f[i - 1] \o ss[i])
  BY <1>3 DEF Joins
<1> DEFINE T == {i \in 0..Len(ss) : i = 0 \/ f[i] \in Seq(S)}
<1>5. ASSUME NEW n \in 1..Len(ss), n - 1 \in T
      PROVE  n \in T
  <2>1. CASE n = 1
    BY <1>1, <1>4, <2>1
  <2>2. CASE n # 1
    <3>1. n - 1 # 0
      BY <1>1, <2>2
    <3>2. f[n - 1] \in Seq(S)
      BY <1>5, <3>1
    <3>3. f[n] = f[n - 1] \o ss[n] /\ ss[n] \in Seq(S)
      BY <1>1, <1>4, <2>2
    <3>4. f[n] \in Seq(S)
      BY <3>2, <3>3, ConcatProperties
    <3> QED
      BY <3>4
  <2> QED
    BY <2>1, <2>2
<1>6. \A n \in 0..Len(ss) : n \in T
  <2>1. 0 \in T
    BY <1>1
  <2> HIDE DEF T
  <2> QED
    BY <1>1, <1>5, <2>1, UpTo
<1> QED
  BY <1>1, <1>2, <1>4, <1>6

\* One sequence is itself, and what is put after the last comes after all.
LEMMA FlattenOne ==
    ASSUME NEW S, NEW s \in Seq(S)
    PROVE  FlattenSeq(<<s>>) = s
<1> DEFINE ss == <<s>>
<1>1. ss \in Seq(Seq(S)) /\ ss # <<>> /\ Len(ss) = 1 /\ ss[1] = s
  OBVIOUS
<1> HIDE DEF ss
<1>2. PICK f : FlattenSeq(ss) = f[Len(ss)] /\ \A i \in 1..Len(ss) :
                 f[i] \in Seq(S) /\ f[i] = (IF i = 1 THEN ss[i] ELSE f[i - 1] \o ss[i])
  BY <1>1, FlattenIsJoined
<1>3. FlattenSeq(ss) = s
  BY <1>1, <1>2
<1> QED
  BY <1>3 DEF ss

LEMMA FlattenAppend ==
    ASSUME NEW S, NEW ss \in Seq(Seq(S)), ss # <<>>, NEW s \in Seq(S)
    PROVE  FlattenSeq(Append(ss, s)) = FlattenSeq(ss) \o s
<1> DEFINE tt == Append(ss, s)
           L == Len(ss)
<1>1. /\ L \in Nat \ {0} /\ tt \in Seq(Seq(S)) /\ tt # <<>> /\ Len(tt) = L + 1 /\ tt[L + 1] = s
      /\ \A i \in 1..L : tt[i] = ss[i]
  BY EmptySeq
<1>2. PICK f : FlattenSeq(ss) = f[L] /\ \A i \in 1..L :
                 f[i] \in Seq(S) /\ f[i] = (IF i = 1 THEN ss[i] ELSE f[i - 1] \o ss[i])
  BY FlattenIsJoined
<1> HIDE DEF tt, L
<1>3. PICK g : FlattenSeq(tt) = g[Len(tt)] /\ \A i \in 1..Len(tt) :
                 g[i] \in Seq(S) /\ g[i] = (IF i = 1 THEN tt[i] ELSE g[i - 1] \o tt[i])
  <2> DEFINE Q == Seq(S)
  <2>1. tt \in Seq(Q) /\ tt # <<>>
    BY <1>1
  <2> HIDE DEF Q
  <2>2. \E g : FlattenSeq(tt) = g[Len(tt)] /\ \A i \in 1..Len(tt) :
                 g[i] \in Q /\ g[i] = (IF i = 1 THEN tt[i] ELSE g[i - 1] \o tt[i])
    BY <2>1, FlattenIsJoined DEF Q
  <2> QED
    BY <2>2 DEF Q
<1> DEFINE T == {i \in 0..L : i = 0 \/ f[i] = g[i]}
<1>4. ASSUME NEW n \in 1..L, n - 1 \in T
      PROVE  n \in T
  <2>1. n \in 1..Len(tt) /\ tt[n] = ss[n]
    BY <1>1
  <2>2. CASE n = 1
    BY <1>2, <1>3, <2>1, <2>2
  <2>3. CASE n # 1
    <3>1. f[n - 1] = g[n - 1]
      BY <1>1, <1>4, <2>3
    <3> QED
      BY <1>2, <1>3, <2>1, <2>3, <3>1
  <2> QED
    BY <2>2, <2>3
<1>5. f[L] = g[L]
  <2>1. 0 \in T
    BY <1>1
  <2> HIDE DEF T
  <2>2. L \in Nat
    BY <1>1
  <2>3. \A n \in 0..L : n \in T
    BY <1>4, <2>1, <2>2, UpTo
  <2> QED
    BY <1>1, <2>3 DEF T
<1>6. g[L + 1] = g[L] \o s
  <2>1. L + 1 \in 1..Len(tt) /\ L + 1 # 1 /\ (L + 1) - 1 = L
    BY <1>1
  <2> QED
    BY <1>1, <1>3, <2>1
<1>7. FlattenSeq(tt) = FlattenSeq(ss) \o s
  BY <1>1, <1>2, <1>3, <1>5, <1>6
<1> QED
  BY <1>7 DEF tt

\* What the joined sequences are made of
LEMMA FlattenType ==
    ASSUME NEW S, NEW ss \in Seq(Seq(S)), ss # <<>>
    PROVE  FlattenSeq(ss) \in Seq(S)
<1>1. Len(ss) \in 1..Len(ss)
  BY EmptySeq
<1> QED
  BY <1>1, FlattenIsJoined

LEMMA ConcatAssociates ==
    ASSUME NEW S, NEW a \in Seq(S), NEW b \in Seq(S), NEW c \in Seq(S)
    PROVE  (a \o b) \o c = a \o (b \o c)
OBVIOUS

\* What is put at the end of the last sequence comes after all, too.
LEMMA FlattenExtend ==
    ASSUME NEW S, NEW ss \in Seq(Seq(S)), ss # <<>>, NEW s \in Seq(S)
    PROVE  FlattenSeq(Append(Front(ss), Last(ss) \o s)) = FlattenSeq(ss) \o s
<1> DEFINE L == Len(ss)
           u == Front(ss)
           v == Last(ss)
<1>1. L \in Nat \ {0} /\ v \in Seq(S) /\ v = ss[L]
  BY EmptySeq DEF Last
<1>2. u \in Seq(Seq(S)) /\ Len(u) = L - 1 /\ \A i \in 1..(L - 1) : u[i] = ss[i]
  <2> DEFINE Q == Seq(S)
  <2>1. u = SubSeq(ss, 1, L - 1) /\ ss \in Seq(Q)
    BY DEF Front
  <2> HIDE DEF Q, u
  <2>2. u \in Seq(Q) /\ Len(u) = L - 1 /\ \A i \in 1..(L - 1) : u[i] = ss[i]
    <3>1. L - 1 \in Nat /\ 1 <= L /\ Len(ss) = L
      BY <1>1
    <3> HIDE DEF L
    <3>2. \A i \in 1..(L - 1) : i \in 1..Len(ss)
      BY <3>1
    <3> QED
      BY <2>1, <3>1, <3>2
  <2> QED
    BY <2>2 DEF Q
<1>3. ss = Append(u, v)
  <2>1. Append(u, v) \in Seq(Seq(S)) /\ Len(Append(u, v)) = L
    BY <1>1, <1>2
  <2>2. ASSUME NEW i \in 1..L
        PROVE  ss[i] = Append(u, v)[i]
    BY <1>1, <1>2
  <2> QED
    BY <2>1, <2>2, SeqEqual
<1>4. v \o s \in Seq(S)
  BY <1>1, ConcatProperties
<1> HIDE DEF u, v, L
<1>5. CASE u = <<>>
  <2>1. ss = <<v>> /\ Append(u, v \o s) = <<v \o s>>
    BY <1>3, <1>5
  <2> QED
    BY <1>1, <1>4, <2>1, FlattenOne DEF u, v
<1>6. CASE u # <<>>
  <2>1. FlattenSeq(Append(u, v \o s)) = FlattenSeq(u) \o (v \o s)
    BY <1>2, <1>4, <1>6, FlattenAppend
  <2>2. FlattenSeq(ss) = FlattenSeq(u) \o v
    BY <1>1, <1>2, <1>3, <1>6, FlattenAppend
  <2>3. FlattenSeq(u) \in Seq(S)
    BY <1>2, <1>6, FlattenType
  <2>4. (FlattenSeq(u) \o v) \o s = FlattenSeq(u) \o (v \o s)
    <3> DEFINE w == FlattenSeq(u)
    <3>1. w \in Seq(S) /\ v \in Seq(S) /\ s \in Seq(S)
      BY <1>1, <2>3
    <3> HIDE DEF w
    <3>2. (w \o v) \o s = w \o (v \o s)
      BY ONLY <3>1, ConcatAssociates
    <3> QED
      BY <3>2 DEF w
  <2> QED
    BY <2>1, <2>2, <2>4 DEF u, v
<1> QED
  BY <1>5, <1>6

----------------------------------------------------------------------------
(* The beginning of a sequence *)

\* The first n elements
Prefix(b, n) == SubSeq(b, 1, n)

LEMMA PrefixGrows ==
    ASSUME NEW S, NEW b \in Seq(S), NEW n \in 1..Len(b)
    PROVE  /\ Prefix(b, n - 1) \in Seq(S) /\ b[n] \in S
           /\ Prefix(b, n) = Append(Prefix(b, n - 1), b[n])
<1> DEFINE u == Prefix(b, n - 1)
           v == Prefix(b, n)
           w == Append(u, b[n])
<1>1. n \in Nat /\ 1 <= n /\ n <= Len(b) /\ Len(b) \in Nat /\ b[n] \in S
  OBVIOUS
<1>2. u \in Seq(S) /\ Len(u) = n - 1 /\ \A i \in 1..(n - 1) : u[i] = b[i]
  BY <1>1 DEF Prefix
<1>3. v \in Seq(S) /\ Len(v) = n /\ \A i \in 1..n : v[i] = b[i]
  BY <1>1 DEF Prefix
<1> HIDE DEF u, v
<1>4. w \in Seq(S) /\ Len(w) = n /\ (\A i \in 1..(n - 1) : w[i] = u[i]) /\ w[n] = b[n]
  BY <1>1, <1>2
<1> HIDE DEF w
<1>5. \A i \in 1..n : w[i] = v[i]
  BY <1>1, <1>2, <1>3, <1>4
<1>6. v = w
  BY <1>3, <1>4, <1>5, SeqEqual
<1> QED
  BY <1>1, <1>2, <1>6 DEF u, v, w

LEMMA PrefixEnds ==
    ASSUME NEW S, NEW b \in Seq(S)
    PROVE  Prefix(b, 0) = <<>> /\ Prefix(b, Len(b)) = b
<1>1. Prefix(b, 0) = <<>>
  BY DEF Prefix
<1>2. Prefix(b, Len(b)) = b
  <2> DEFINE v == Prefix(b, Len(b))
  <2>1. v \in Seq(S) /\ Len(v) = Len(b) /\ \A i \in 1..Len(b) : v[i] = b[i]
    BY DEF Prefix
  <2> HIDE DEF v
  <2>2. v = b
    BY <2>1, SeqEqual
  <2> QED
    BY <2>2 DEF v
<1> QED
  BY <1>1, <1>2
=============================================================================
