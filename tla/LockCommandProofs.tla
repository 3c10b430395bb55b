------------------------- MODULE LockCommandProofs --------------------------
(***************************************************************************)
(* Theorems about LockCommand and the suite it builds, for every set of    *)
(* sources and revisions, every grammar of names and any number of builds. *)
(***************************************************************************)
EXTENDS LockCommand, FiniteSetTheorems, SequenceTheorems, WellFoundedInduction, TLAPS

(* The libraries' induction theorems are about operators, which the provers
   cannot instantiate; these are about sets and functions. *)

(* A nonempty set of numbers has a least one. *)
LEMMA LeastNumber ==
  ASSUME NEW S, S \subseteq Nat, S # {}
  PROVE  \E n \in S : \A m \in S : ~(m < n)
<1> DEFINE Less == OpToRel(<, Nat)
<1>1. \A m, n \in Nat : m < n => <<m, n>> \in Less
  BY DEF OpToRel
<1>2. \E n \in S : \A m \in S : ~(<<m, n>> \in Less)
  BY NatLessThanWellFounded, WFMin DEF Less
<1> HIDE DEF Less
<1> QED BY <1>1, <1>2

(* A set that has 0, and with a number the next one up to n, has them all. *)
LEMMA UpTo ==
  ASSUME NEW n \in Nat, NEW P, 0 \in P, \A k \in 1..n : k - 1 \in P => k \in P
  PROVE  \A k \in 0..n : k \in P
<1> DEFINE Bad == {k \in 0..n : k \notin P}
<1>1. SUFFICES ASSUME Bad # {} PROVE FALSE
  OBVIOUS
<1>2. Bad \subseteq Nat
  OBVIOUS
<1>3. PICK k \in Bad : \A m \in Bad : ~(m < k)
  <2> HIDE DEF Bad
  <2> QED BY <1>1, <1>2, LeastNumber
<1>4. k \in 1..n /\ k - 1 \in 0..n /\ k - 1 < k
  OBVIOUS
<1>5. k - 1 \in P
  BY <1>3, <1>4
<1> QED BY <1>4, <1>5

(* A function may be defined by what its next value is made of. *)
Iterates(F, n, V, b, h) ==
  F \in [0..n -> V] /\ F[0] = b /\ \A k \in 1..n : F[k] = h[k][F[k - 1]]

LEMMA Recursion ==
  ASSUME NEW n \in Nat, NEW V, NEW b \in V, NEW h \in [1..n -> [V -> V]]
  PROVE  \E F : Iterates(F, n, V, b, h)
<1> DEFINE Is(F, m) == F[0] = b /\ \A k \in 1..m : F[k] = h[k][F[k - 1]]
           P == {m \in 0..n : \E F \in [0..m -> V] : Is(F, m)}
<1>1. 0 \in P
  <2> DEFINE F == [k \in 0..0 |-> b]
  <2>1. F \in [0..0 -> V] /\ F[0] = b
    OBVIOUS
  <2>2. \A k \in 1..0 : F[k] = h[k][F[k - 1]]
    OBVIOUS
  <2> HIDE DEF F
  <2> QED BY <2>1, <2>2
<1>2. ASSUME NEW m \in 1..n, m - 1 \in P
      PROVE  m \in P
  <2>1. PICK F \in [0..(m - 1) -> V] : Is(F, m - 1)
    BY <1>2
  <2> DEFINE G == [k \in 0..m |-> IF k = m THEN h[m][F[m - 1]] ELSE F[k]]
  <2>2. F[m - 1] \in V /\ h[m] \in [V -> V]
    OBVIOUS
  <2>3. h[m][F[m - 1]] \in V
    BY <2>2
  <2>4. \A k \in 0..(m - 1) : F[k] \in V /\ G[k] = F[k]
    OBVIOUS
  <2>5. G[m] = h[m][F[m - 1]]
    OBVIOUS
  <2>6. \A k \in 0..m : k = m \/ k \in 0..(m - 1)
    OBVIOUS
  <2>7. G \in [0..m -> V]
    BY <2>3, <2>4, <2>6
  <2> HIDE DEF G
  <2>8. ASSUME NEW k \in 1..m PROVE G[k] = h[k][G[k - 1]]
    <3>1. k - 1 \in 0..(m - 1)
      OBVIOUS
    <3>2. CASE k = m
      BY <2>4, <2>5, <3>1, <3>2
    <3>3. CASE k \in 1..(m - 1)
      BY <2>1, <2>4, <3>1, <3>3
    <3> QED BY <3>2, <3>3
  <2>9. G[0] = b
    <3>1. 0 \in 0..(m - 1)
      OBVIOUS
    <3> QED BY <2>1, <2>4, <3>1
  <2>10. Is(G, m)
    BY <2>8, <2>9
  <2>11. m \in 0..n
    OBVIOUS
  <2> HIDE DEF Is
  <2> QED BY <2>7, <2>10, <2>11
<1>3. n \in P
  <2> HIDE DEF P
  <2>1. \A k \in 0..n : k \in P
    BY <1>1, <1>2, UpTo
  <2> QED BY <2>1
<1> QED BY <1>3 DEF Iterates

-----------------------------------------------------------------------------
(* Sequences. *)

(* A sequence of elements of a set is one of elements of a wider set. *)
LEMMA SeqWider ==
  ASSUME NEW S, NEW T, S \subseteq T, NEW s \in Seq(S)
  PROVE  s \in Seq(T)
OBVIOUS

(* Two sequences, one after the other. *)
LEMMA Concatenated ==
  ASSUME NEW S, NEW s \in Seq(S), NEW t \in Seq(S),
         NEW m \in Nat, NEW n \in Nat, m = Len(s), n = Len(t)
  PROVE  /\ s \o t \in Seq(S) /\ Len(s \o t) = m + n
         /\ \A i \in 1..(m + n) : (s \o t)[i] = IF i <= m THEN s[i] ELSE t[i - m]
BY ConcatProperties

(* A sequence with one element more. *)
LEMMA Appended ==
  ASSUME NEW S, NEW s \in Seq(S), NEW e, NEW n \in Nat, n = Len(s)
  PROVE  Len(Append(s, e)) = n + 1 /\ Append(s, e)[n + 1] = e /\ \A k \in 1..n : Append(s, e)[k] = s[k]
OBVIOUS

(* What is retained of a sequence is what it has at the places, each once. *)
LEMMA Retained ==
  ASSUME NEW S, NEW s \in Seq(S), NEW K
  PROVE  /\ Retain(s, K) \in Seq(S)
         /\ \E f \in [1..Len(Retain(s, K)) -> 1..Len(s)] :
              /\ \A i \in 1..Len(Retain(s, K)) : f[i] \in K /\ Retain(s, K)[i] = s[f[i]]
              /\ \A i, j \in 1..Len(Retain(s, K)) : f[i] = f[j] => i = j
              /\ \A k \in 1..Len(s) : k \in K => \E i \in 1..Len(Retain(s, K)) : f[i] = k
<1> DEFINE n == Len(s)
           V == Seq(S)
           Step(F) == [k \in 0..n |-> IF k = 0 THEN <<>>
                                      ELSE IF k \in K THEN Append(F[k - 1], s[k]) ELSE F[k - 1]]
           h == [k \in 1..n |-> [v \in V |-> IF k \in K THEN Append(v, s[k]) ELSE v]]
           it == CHOOSE F : F = Step(F)
<1>1. n \in Nat /\ \A k \in 1..n : s[k] \in S
  OBVIOUS
<1>2. Retain(s, K) = it[n]
  BY DEF Retain
<1>3. it = Step(it)
  <2>1. <<>> \in V /\ h \in [1..n -> [V -> V]]
    BY <1>1
  <2>2. ASSUME NEW k \in 1..n, NEW v \in V
        PROVE  h[k][v] = IF k \in K THEN Append(v, s[k]) ELSE v
    <3>1. h[k] = [x \in V |-> IF k \in K THEN Append(x, s[k]) ELSE x]
      OBVIOUS
    <3> HIDE DEF h, V
    <3> QED BY <3>1
  <2> DEFINE e == <<>>
  <2> HIDE DEF n, V, h, e
  <2>3. PICK F \in [0..n -> V] : F[0] = e /\ \A k \in 1..n : F[k] = h[k][F[k - 1]]
    <3>1. n \in Nat /\ e \in V /\ h \in [1..n -> [V -> V]]
      BY <1>1, <2>1 DEF e
    <3>2. PICK F : Iterates(F, n, V, e, h)
      BY <3>1, Recursion
    <3> QED BY <3>2 DEF Iterates
  <2>4. \A k \in 1..n : F[k - 1] \in V
    BY <1>1
  <2>5. \A k \in 0..n : F[k] = IF k = 0 THEN <<>>
                                 ELSE IF k \in K THEN Append(F[k - 1], s[k]) ELSE F[k - 1]
    <3>1. \A k \in 0..n : k = 0 \/ k \in 1..n
      BY <1>1
    <3> QED BY <2>2, <2>3, <2>4, <3>1 DEF e
  <2>6. F = Step(F)
    BY <2>5
  <2> HIDE DEF Step
  <2> QED BY <2>6
<1> HIDE DEF it
<1> DEFINE Is(r, f, m) == /\ r \in V
                          /\ f \in [1..Len(r) -> 1..m]
                          /\ \A i \in 1..Len(r) : f[i] \in K /\ r[i] = s[f[i]]
                          /\ \A i, j \in 1..Len(r) : f[i] = f[j] => i = j
                          /\ \A k \in 1..m : k \in K => \E i \in 1..Len(r) : f[i] = k
           P == {m \in 0..n : \E f : Is(it[m], f, m)}
<1>4. 0 \in P
  <2>1. it[0] = <<>>
    BY <1>1, <1>3
  <2>2. Is(it[0], <<>>, 0)
    BY <2>1
  <2> QED BY <1>1, <2>2
<1>5. ASSUME NEW m \in 1..n, m - 1 \in P
      PROVE  m \in P
  <2>1. it[m] = IF m \in K THEN Append(it[m - 1], s[m]) ELSE it[m - 1]
    <3>1. m \in 0..n /\ m # 0
      BY <1>1
    <3> HIDE DEF n
    <3> QED BY <1>3, <3>1
  <2> DEFINE q == it[m - 1]
             r == it[m]
  <2>2. PICK f : Is(q, f, m - 1)
    BY <1>5
  <2>3. m \in Nat /\ m - 1 \in Nat /\ s[m] \in S /\ q \in Seq(S) /\ Len(q) \in Nat
    BY <1>1, <2>2
  <2>4. r = IF m \in K THEN Append(q, s[m]) ELSE q
    BY <2>1
  <2> HIDE DEF q, r
  <2>5. CASE m \notin K
    <3>1. Is(r, f, m)
      BY <2>2, <2>3, <2>4, <2>5
    <3> QED BY <1>1, <3>1 DEF r
  <2>6. CASE m \in K
    <3> DEFINE l == Len(q)
               g == [i \in 1..(l + 1) |-> IF i = l + 1 THEN m ELSE f[i]]
    <3>1. /\ r \in Seq(S) /\ Len(r) = l + 1 /\ l \in Nat /\ r[l + 1] = s[m]
          /\ \A i \in 1..l : r[i] = q[i]
      BY <2>3, <2>4, <2>6
    <3>2. \A i \in 1..(l + 1) : i = l + 1 \/ i \in 1..l
      BY <2>3
    <3>3. \A i \in 1..l : f[i] \in 1..(m - 1) /\ f[i] \in K /\ q[i] = s[f[i]] /\ i \in 1..(l + 1) /\ i # l + 1
      BY <2>2, <2>3
    <3>4. l + 1 \in 1..(l + 1) /\ g[l + 1] = m /\ \A i \in 1..l : g[i] = f[i]
      BY <2>3, <3>3
    <3>5. g \in [1..(l + 1) -> 1..m]
      BY <2>3, <3>3
    <3> HIDE DEF g, l
    <3>6. \A i \in 1..(l + 1) : g[i] \in K /\ r[i] = s[g[i]]
      BY <2>6, <3>1, <3>2, <3>3, <3>4
    <3>7. \A i, j \in 1..l : f[i] = f[j] => i = j
      BY <2>2 DEF l
    <3>8. \A i \in 1..l : f[i] # m
      BY <2>3, <3>3
    <3>9. \A i, j \in 1..(l + 1) : g[i] = g[j] => i = j
      BY <3>2, <3>4, <3>7, <3>8
    <3>10. \A k \in 1..m : k \in K => \E i \in 1..(l + 1) : g[i] = k
      <4>1. \A k \in 1..(m - 1) : k \in K => \E i \in 1..l : f[i] = k
        BY <2>2 DEF l
      <4>2. \A k \in 1..m : k = m \/ k \in 1..(m - 1)
        BY <2>3
      <4> QED BY <3>3, <3>4, <4>1, <4>2
    <3>11. Is(r, g, m)
      BY <3>1, <3>5, <3>6, <3>9, <3>10
    <3> QED BY <1>1, <3>11 DEF r
  <2> QED BY <2>5, <2>6
<1>6. n \in P
  <2> HIDE DEF P
  <2>1. \A k \in 0..n : k \in P
    BY <1>1, <1>4, <1>5, UpTo
  <2> QED BY <1>1, <2>1
<1> QED BY <1>2, <1>6

(* A sequence of sequences, one after the other, has at each place an element
   of one of them, and no element twice. *)
LEMMA Flattened ==
  ASSUME NEW S, NEW ss \in Seq(Seq(S))
  PROVE  /\ FlattenSeq(ss) \in Seq(S)
         /\ \E f \in [1..Len(FlattenSeq(ss)) -> 1..Len(ss)], g \in [1..Len(FlattenSeq(ss)) -> Nat] :
              /\ \A p \in 1..Len(FlattenSeq(ss)) :
                   g[p] \in 1..Len(ss[f[p]]) /\ FlattenSeq(ss)[p] = ss[f[p]][g[p]]
              /\ \A p, q \in 1..Len(FlattenSeq(ss)) : f[p] = f[q] /\ g[p] = g[q] => p = q
<1> DEFINE n == Len(ss)
           V == Seq(S)
           Step(F) == [i \in 1..n |-> IF i = 1 THEN ss[i] ELSE F[i - 1] \o ss[i]]
           h == [k \in 1..n |-> [v \in V |-> v \o ss[k]]]
           it == CHOOSE F : F = Step(F)
           all == [k \in 0..n |-> IF k = 0 THEN <<>> ELSE it[k]]
<1>1. n \in Nat /\ DOMAIN ss = 1..n /\ \A k \in 1..n : ss[k] \in V
  OBVIOUS
<1>2. FlattenSeq(ss) = IF n = 0 THEN ss ELSE it[n]
  BY DEF FlattenSeq
<1>3. it = Step(it)
  <2> DEFINE e == <<>>
  <2>1. e \in V /\ h \in [1..n -> [V -> V]]
    BY <1>1
  <2>2. ASSUME NEW k \in 1..n, NEW v \in V
        PROVE  h[k][v] = v \o ss[k]
    <3>1. h[k] = [x \in V |-> x \o ss[k]]
      OBVIOUS
    <3> HIDE DEF h, V
    <3> QED BY <3>1
  <2>3. e \o ss[1] = ss[1] \/ n = 0
    BY <1>1
  <2> HIDE DEF n, V, h, e
  <2>4. PICK F : Iterates(F, n, V, e, h)
    BY <1>1, <2>1, Recursion
  <2>5. F \in [0..n -> V] /\ F[0] = e /\ \A k \in 1..n : F[k] = F[k - 1] \o ss[k]
    <3>1. F \in [0..n -> V] /\ F[0] = e /\ \A k \in 1..n : F[k] = h[k][F[k - 1]]
      BY <2>4 DEF Iterates
    <3>2. \A k \in 1..n : F[k - 1] \in V
      BY <1>1, <3>1
    <3> QED BY <2>2, <3>1, <3>2
  <2> DEFINE G == [i \in 1..n |-> F[i]]
  <2>6. \A i \in 1..n : G[i] = IF i = 1 THEN ss[i] ELSE G[i - 1] \o ss[i]
    <3>1. \A i \in 1..n : G[i] = F[i] /\ (i # 1 => i - 1 \in 1..n)
      BY <1>1
    <3>2. \A i \in 1..n : i # 1 => G[i - 1] = F[i - 1]
      BY <3>1
    <3>3. 1 \in 1..n => F[1] = ss[1]
      <4>1. 1 \in 1..n => F[1] = F[1 - 1] \o ss[1]
        BY <2>5
      <4>2. 1 - 1 = 0 /\ (1 \in 1..n => n # 0)
        BY <1>1
      <4> QED BY <2>3, <2>5, <4>1, <4>2
    <3> HIDE DEF G
    <3> QED BY <2>5, <3>1, <3>2, <3>3
  <2>7. G = Step(G)
    BY <2>6
  <2> HIDE DEF Step, G
  <2> QED BY <2>7
<1> HIDE DEF it
<1>4. all[0] = <<>> /\ \A k \in 1..n : all[k] = it[k]
  BY <1>1
<1>5. \A k \in 1..n : all[k] = all[k - 1] \o ss[k]
  <2> SUFFICES ASSUME NEW k \in 1..n PROVE all[k] = all[k - 1] \o ss[k]
    OBVIOUS
  <2>1. k \in 1..n /\ (k = 1 \/ k - 1 \in 1..n)
    BY <1>1
  <2>2. it[k] = IF k = 1 THEN ss[k] ELSE it[k - 1] \o ss[k]
    <3> HIDE DEF n
    <3> QED BY <1>3
  <2>3. <<>> \o ss[k] = ss[k]
    BY <1>1
  <2> HIDE DEF all, n
  <2>4. CASE k = 1
    <3>1. all[k - 1] = <<>>
      BY <1>4, <2>4
    <3> QED BY <1>4, <2>2, <2>3, <2>4, <3>1
  <2>5. CASE k # 1
    BY <1>4, <2>1, <2>2, <2>5
  <2> QED BY <2>4, <2>5
<1> HIDE DEF all
<1> DEFINE Is(r, f, g, m) == /\ r \in V
                             /\ f \in [1..Len(r) -> 1..m] /\ g \in [1..Len(r) -> Nat]
                             /\ \A p \in 1..Len(r) : g[p] \in 1..Len(ss[f[p]]) /\ r[p] = ss[f[p]][g[p]]
                             /\ \A p, q \in 1..Len(r) : f[p] = f[q] /\ g[p] = g[q] => p = q
           P == {m \in 0..n : \E f, g : Is(all[m], f, g, m)}
<1>6. 0 \in P
  <2>1. Is(all[0], <<>>, <<>>, 0)
    BY <1>4
  <2> QED BY <1>1, <2>1
<1>7. ASSUME NEW m \in 1..n, m - 1 \in P
      PROVE  m \in P
  <2> DEFINE a == all[m - 1]
             b == ss[m]
             r == all[m]
  <2>1. PICK f, g : Is(a, f, g, m - 1)
    BY <1>7
  <2>2. m \in Nat /\ m - 1 \in Nat /\ m \in 0..n /\ r = a \o b /\ a \in Seq(S) /\ b \in Seq(S)
    BY <1>1, <1>5, <2>1
  <2>3. PICK i \in Nat, j \in Nat : i = Len(a) /\ j = Len(b)
    BY <2>2
  <2> HIDE DEF a, b, r
  <2>4. /\ r \in Seq(S) /\ Len(r) = i + j
        /\ \A p \in 1..(i + j) : r[p] = IF p <= i THEN a[p] ELSE b[p - i]
    BY <2>2, <2>3, ConcatProperties
  <2> DEFINE F == [p \in 1..(i + j) |-> IF p <= i THEN f[p] ELSE m]
             G == [p \in 1..(i + j) |-> IF p <= i THEN g[p] ELSE p - i]
  <2>5. \A p \in 1..i : /\ f[p] \in 1..(m - 1) /\ g[p] \in Nat
                        /\ g[p] \in 1..Len(ss[f[p]]) /\ a[p] = ss[f[p]][g[p]]
    BY <2>1, <2>3
  <2>6. \A p \in 1..(i + j) : (p <= i /\ p \in 1..i) \/ (~(p <= i) /\ p - i \in 1..j)
    BY <2>3
  <2>7. F \in [1..(i + j) -> 1..m] /\ G \in [1..(i + j) -> Nat]
    <3>1. \A p \in 1..i : f[p] \in 1..m
      BY <2>2, <2>5
    <3>2. \A p \in 1..(i + j) : F[p] \in 1..m /\ G[p] \in Nat
      BY <2>2, <2>5, <2>6, <3>1
    <3> QED BY <3>2
  <2>8. \A p \in 1..(i + j) :
          /\ p <= i => F[p] = f[p] /\ G[p] = g[p]
          /\ ~(p <= i) => F[p] = m /\ G[p] = p - i
    OBVIOUS
  <2> HIDE DEF F, G
  <2>9. \A p \in 1..(i + j) : G[p] \in 1..Len(ss[F[p]]) /\ r[p] = ss[F[p]][G[p]]
    <3> SUFFICES ASSUME NEW p \in 1..(i + j)
                 PROVE  G[p] \in 1..Len(ss[F[p]]) /\ r[p] = ss[F[p]][G[p]]
      OBVIOUS
    <3>1. CASE p <= i /\ p \in 1..i
      BY <2>4, <2>5, <2>8, <3>1
    <3>2. CASE ~(p <= i) /\ p - i \in 1..j
      BY <2>3, <2>4, <2>8, <3>2 DEF b
    <3> QED BY <2>6, <3>1, <3>2
  <2>10. \A p, q \in 1..(i + j) : F[p] = F[q] /\ G[p] = G[q] => p = q
    <3>1. \A p \in 1..i : f[p] # m
      BY <2>2, <2>5
    <3>2. \A p, q \in 1..i : f[p] = f[q] /\ g[p] = g[q] => p = q
      BY <2>1, <2>3
    <3> SUFFICES ASSUME NEW p \in 1..(i + j), NEW q \in 1..(i + j), F[p] = F[q], G[p] = G[q]
                 PROVE  p = q
      OBVIOUS
    <3>3. CASE p <= i /\ q <= i
      BY <2>6, <2>8, <3>2, <3>3
    <3>4. CASE ~(p <= i) /\ ~(q <= i)
      <4>1. p - i = q - i
        BY <2>8, <3>4
      <4> QED BY <2>3, <4>1
    <3>5. (p <= i) <=> (q <= i)
      BY <2>6, <2>8, <3>1
    <3> QED BY <3>3, <3>4, <3>5
  <2>11. Is(r, F, G, m)
    BY <2>4, <2>7, <2>9, <2>10
  <2> HIDE DEF Is
  <2> QED BY <2>2, <2>11 DEF r
<1>8. n \in P
  <2> HIDE DEF P
  <2>1. \A k \in 0..n : k \in P
    BY <1>1, <1>6, <1>7, UpTo
  <2> QED BY <1>1, <2>1
<1>9. FlattenSeq(ss) = all[n]
  <2>1. CASE n = 0
    <3>1. ss = <<>>
      BY <2>1
    <3> QED BY <1>2, <1>4, <2>1, <3>1
  <2>2. CASE n # 0
    <3>1. n \in 1..n
      BY <1>1, <2>2
    <3> QED BY <1>2, <1>4, <2>2, <3>1
  <2> QED BY <2>1, <2>2
<1>10. PICK f, g : Is(all[n], f, g, n)
  BY <1>8
<1> DEFINE flat == FlattenSeq(ss)
<1>11. Is(flat, f, g, n)
  BY <1>9, <1>10
<1> HIDE DEF flat
<1>12. /\ flat \in Seq(S)
       /\ f \in [1..Len(flat) -> 1..Len(ss)] /\ g \in [1..Len(flat) -> Nat]
       /\ \A p \in 1..Len(flat) : g[p] \in 1..Len(ss[f[p]]) /\ flat[p] = ss[f[p]][g[p]]
       /\ \A p, q \in 1..Len(flat) : f[p] = f[q] /\ g[p] = g[q] => p = q
  BY <1>11
<1>13. /\ flat \in Seq(S)
       /\ \E f_1 \in [1..Len(flat) -> 1..Len(ss)], g_1 \in [1..Len(flat) -> Nat] :
            /\ \A p \in 1..Len(flat) : g_1[p] \in 1..Len(ss[f_1[p]]) /\ flat[p] = ss[f_1[p]][g_1[p]]
            /\ \A p, q \in 1..Len(flat) : f_1[p] = f_1[q] /\ g_1[p] = g_1[q] => p = q
  BY <1>12
<1> QED BY <1>13 DEF flat

(* A sequence that has as many different elements of a set as there are has
   them all. *)
LEMMA Ordered ==
  ASSUME NEW S, IsFiniteSet(S), NEW f \in [1..Cardinality(S) -> S],
         \A i, j \in 1..Cardinality(S) : i # j => f[i] # f[j]
  PROVE  /\ f \in Seq(S) /\ Len(f) = Cardinality(S) /\ Range(f) = S
         /\ \A i, j \in DOMAIN f : f[i] = f[j] => i = j
<1> DEFINE n == Cardinality(S)
           T == {f[i] : i \in 1..n}
<1>1. n \in Nat /\ IsFiniteSet(1..n) /\ Cardinality(1..n) = n
  BY FS_CardinalityType, FS_Interval
<1>2. f \in Surjection(1..n, T) /\ f \in Injection(1..n, T)
  BY DEF Surjection, Injection, IsInjective
<1>3. Cardinality(T) = n
  BY <1>1, <1>2, FS_Surjection
<1>4. T \in SUBSET S
  OBVIOUS
<1>5. T = S
  <2> HIDE DEF T
  <2> QED BY <1>3, <1>4, FS_Subset
<1>6. f \in Seq(S) /\ Len(f) = n /\ DOMAIN f = 1..n
  BY <1>1, SeqDef
<1>7. Range(f) = T
  BY DEF Range
<1> QED BY <1>5, <1>6, <1>7

(* A finite set as a sequence, in the order that SetToSeq chooses, ... *)
LEMMA InSomeOrder ==
  ASSUME NEW S, IsFiniteSet(S)
  PROVE  /\ SetToSeq(S) \in Seq(S) /\ Range(SetToSeq(S)) = S
         /\ Len(SetToSeq(S)) = Cardinality(S)
         /\ \A i, j \in DOMAIN SetToSeq(S) : SetToSeq(S)[i] = SetToSeq(S)[j] => i = j
<1> DEFINE n == Cardinality(S)
<1>1. n \in Nat /\ ExistsBijection(1..n, S)
  BY FS_CardinalityType
<1>2. \E g \in [1..n -> S] : IsInjective(g)
  BY <1>1 DEF ExistsBijection, Bijection, Injection
<1>3. SetToSeq(S) \in [1..n -> S] /\ IsInjective(SetToSeq(S))
  BY <1>2 DEF SetToSeq
<1>4. \A i, j \in 1..n : i # j => SetToSeq(S)[i] # SetToSeq(S)[j]
  BY <1>3 DEF IsInjective
<1> HIDE DEF n
<1> QED BY <1>3, <1>4, Ordered DEF n

(* ... and in any order. *)
LEMMA InAnyOrder ==
  ASSUME NEW S, IsFiniteSet(S), NEW f \in SetToSeqs(S)
  PROVE  /\ f \in Seq(S) /\ Len(f) = Cardinality(S) /\ Range(f) = S
         /\ \A i, j \in DOMAIN f : f[i] = f[j] => i = j
<1>1. f \in [1..Cardinality(S) -> S] /\ \A i, j \in 1..Cardinality(S) : i # j => f[i] # f[j]
  BY DEF SetToSeqs
<1> QED BY <1>1, Ordered

-----------------------------------------------------------------------------
(* The inductive invariant, in named parts. *)

Segment == Seq(STRING) \union Seq(Letters \union Digits \union {"-", "_"})
Name    == Seq(Segment)
Frame   == [prefix : Name, scope : Seq(Tag)]
CaseDef == [name : Name, tags : Seq(Tag)]
GenDef  == [prefix : Name, tags : Seq(Tag), cases : Seq(Seq(Seq(STRING))), row : BOOLEAN]

OfKind(kind, k) == {j \in 1..k : source.items[j].kind = kind}

\* What the walk has collected, and how deep it is.
Walked ==
  /\ source \in Sources \union Revisions
  /\ pos \in 0..Len(source.items)
  /\ stack \in Seq(Frame)
  /\ Len(stack) + Cardinality(OfKind("end", pos)) = 1 + Cardinality(OfKind("mod", pos))
  /\ \A k \in DOMAIN stack : TagsValid(stack[k].scope)
  /\ cases \in Seq(CaseDef)
  /\ \A k \in DOMAIN cases : TagsValid(cases[k].tags)
  /\ gens \in Seq(GenDef)
  /\ \A g \in DOMAIN gens : TagsValid(gens[g].tags) /\ gens[g].prefix # <<>>
  /\ mode \in {"walking", "expanded", "refused", "registering", "ready", "panicked"}

\* The macro lets through what it accepts, the artifact has a record of each
\* declaration, and the registry has what was registered, in that order.
Expanded == mode \in {"expanded", "registering", "ready", "panicked"} => Accepted

Linked ==
  Built => /\ records \in SetToSeqs(Records)
           /\ built = Len(registry) /\ built <= Len(Registrations)
           /\ \A k \in DOMAIN registry : /\ Registrations[k].names = {registry[k].name}
                                         /\ Registrations[k].tags = registry[k].tags

Panics == mode = "panicked" => \E g \in DOMAIN gens : ~YieldsSound(gens[g])

\* What the registry holds, of this build or of the one before.
RegistryValid ==
  /\ registry \in Seq(CaseDef)
  /\ \A k \in DOMAIN registry : ValidName(registry[k].name) /\ TagsValid(registry[k].tags)

\* The files, and what the last command said of them.
Files ==
  /\ builds \in 1..MaxBuilds /\ listed \in 0..builds
  /\ told \in {"none", "wrote", "quiet", "drift", "refused"} /\ leaves \in BOOLEAN
  /\ told # "none" => Built
  /\ told = "refused" => leaves
  /\ listing = {} \/ \E names : listing = {names}
  /\ committed = {} \/ \E lf : committed = {lf}
  /\ \A lf \in committed : Validates(lf)

LockInv == Walked /\ Expanded /\ Linked /\ Panics /\ RegistryValid /\ Files

-----------------------------------------------------------------------------
(* The walk. *)

(* What a level is merged into is as valid as the two were. *)
LEMMA MergeValid ==
  ASSUME NEW scope \in Seq(Tag), TagsValid(scope), NEW level \in Seq(Tag), TagsValid(level)
  PROVE  MergeScope(scope, level) \in Seq(Tag) /\ TagsValid(MergeScope(scope, level))
<1> DEFINE K == Undeclared(scope, level)
           r == Retain(scope, K)
           c == r \o level
<1>1. /\ r \in Seq(Tag)
      /\ \E f \in [1..Len(r) -> 1..Len(scope)] :
           /\ \A i \in 1..Len(r) : f[i] \in K /\ r[i] = scope[f[i]]
           /\ \A i, j \in 1..Len(r) : f[i] = f[j] => i = j
  <2> HIDE DEF K
  <2> QED BY Retained
<1>2. K = {k \in 1..Len(scope) : \A j \in 1..Len(level) : level[j].feature # scope[k].feature}
  BY DEF Undeclared
<1>3. PICK m \in Nat, n \in Nat : m = Len(r) /\ n = Len(level)
  BY <1>1
<1> HIDE DEF r, K
<1>4. PICK f \in [1..m -> 1..Len(scope)] :
        /\ \A i \in 1..m : f[i] \in K /\ r[i] = scope[f[i]]
        /\ \A i, j \in 1..m : f[i] = f[j] => i = j
  BY <1>1, <1>3
<1>5. /\ c \in Seq(Tag) /\ Len(c) = m + n /\ DOMAIN c = 1..(m + n)
      /\ \A i \in 1..(m + n) : c[i] = IF i <= m THEN r[i] ELSE level[i - m]
  BY <1>1, <1>3, ConcatProperties
<1>6. \A i, j \in 1..m : r[i].feature = r[j].feature => i = j
  <2> SUFFICES ASSUME NEW i \in 1..m, NEW j \in 1..m, r[i].feature = r[j].feature PROVE i = j
    OBVIOUS
  <2>1. scope[f[i]].feature = scope[f[j]].feature
    BY <1>4
  <2>2. f[i] \in DOMAIN scope /\ f[j] \in DOMAIN scope
    BY <1>4
  <2>3. f[i] = f[j]
    BY <2>1, <2>2 DEF TagsValid
  <2> QED BY <1>4, <2>3
<1>7. \A i \in 1..m, j \in 1..n : r[i].feature # level[j].feature
  BY <1>2, <1>3, <1>4
<1>8. \A i, j \in 1..n : level[i].feature = level[j].feature => i = j
  BY <1>3 DEF TagsValid
<1> HIDE DEF c
<1>9. ASSUME NEW i \in 1..(m + n), NEW j \in 1..(m + n), c[i].feature = c[j].feature
      PROVE  i = j
  <2>1. \A k \in 1..(m + n) : \/ k <= m /\ k \in 1..m /\ c[k] = r[k]
                              \/ ~(k <= m) /\ k - m \in 1..n /\ c[k] = level[k - m]
    BY <1>3, <1>5
  <2>2. CASE i <= m /\ j <= m
    BY <1>6, <1>9, <2>1, <2>2
  <2>3. CASE ~(i <= m) /\ ~(j <= m)
    <3>1. i - m = j - m
      BY <1>8, <1>9, <2>1, <2>3
    <3> QED BY <1>3, <3>1
  <2>4. i <= m <=> j <= m
    BY <1>7, <1>9, <2>1
  <2> QED BY <2>2, <2>3, <2>4
<1> QED BY <1>5, <1>9 DEF MergeScope, TagsValid, c, r, K

(* One item more. *)
LEMMA OneMore ==
  ASSUME NEW kind, NEW k \in Nat
  PROVE  /\ IsFiniteSet(OfKind(kind, k)) /\ Cardinality(OfKind(kind, k)) \in Nat
         /\ Cardinality(OfKind(kind, k + 1)) =
              Cardinality(OfKind(kind, k)) + (IF source.items[k + 1].kind = kind THEN 1 ELSE 0)
<1>1. IsFiniteSet(OfKind(kind, k)) /\ Cardinality(OfKind(kind, k)) \in Nat
  <2>1. OfKind(kind, k) \in SUBSET (1..k)
    BY DEF OfKind
  <2>2. IsFiniteSet(1..k)
    BY FS_Interval
  <2>3. IsFiniteSet(OfKind(kind, k))
    BY <2>1, <2>2, FS_Subset
  <2> QED BY <2>3, FS_CardinalityType
<1>2. k + 1 \notin OfKind(kind, k)
  BY DEF OfKind
<1>3. CASE source.items[k + 1].kind = kind
  <2>1. OfKind(kind, k + 1) = OfKind(kind, k) \union {k + 1}
    BY <1>3 DEF OfKind
  <2> QED BY <1>1, <1>2, <1>3, <2>1, FS_AddElement
<1>4. CASE source.items[k + 1].kind # kind
  <2>1. OfKind(kind, k + 1) = OfKind(kind, k)
    <3>1. \A j \in 1..(k + 1) : j = k + 1 \/ j \in 1..k
      OBVIOUS
    <3> QED BY <1>4, <3>1 DEF OfKind
  <2> QED BY <1>1, <1>4, <2>1
<1> QED BY <1>1, <1>3, <1>4

(* A suite's items are items, its root is a name, and modules are closed no
   more often than opened. *)
LEMMA SuiteTyped ==
  ASSUME source \in Sources \union Revisions
  PROVE  /\ source.items \in Seq(Item) /\ source.root \in Name
         /\ \A k \in 0..Len(source.items) :
              Cardinality(OfKind("end", k)) <= Cardinality(OfKind("mod", k))
<1>1. IsSuite(source)
  BY SourcesAssumption, BuildsAssumption
<1>2. source.items \in Seq(Item) /\ source.root \in Seq(Seq(STRING))
  BY <1>1 DEF IsSuite
<1>3. source.root \in Name
  <2>1. Seq(STRING) \subseteq Segment
    BY DEF Segment
  <2> QED BY <1>2, <2>1, SeqWider DEF Name
<1>4. ASSUME NEW k \in 0..Len(source.items)
      PROVE  Cardinality(OfKind("end", k)) <= Cardinality(OfKind("mod", k))
  <2>1. CASE k = 0
    <3>1. 1..k = {}
      BY <2>1
    <3>2. OfKind("end", k) = {} /\ OfKind("mod", k) = {}
      BY <3>1 DEF OfKind
    <3>3. Cardinality({}) = 0
      BY FS_EmptySet
    <3> QED BY <3>2, <3>3
  <2>2. CASE k # 0
    <3>1. k \in DOMAIN source.items
      BY <1>2, <2>2
    <3> QED BY <1>1, <3>1 DEF IsSuite, OfKind
  <2> QED BY <2>1, <2>2
<1> QED BY <1>2, <1>3, <1>4

(* Something is always open, with a name and valid marks. *)
LEMMA HereTyped ==
  ASSUME Walked
  PROVE  /\ Len(stack) \in Nat /\ Len(stack) >= 1
         /\ Here \in Frame /\ Here.prefix \in Name /\ Here.scope \in Seq(Tag) /\ TagsValid(Here.scope)
<1>1. /\ stack \in Seq(Frame) /\ pos \in 0..Len(source.items)
      /\ Len(stack) + Cardinality(OfKind("end", pos)) = 1 + Cardinality(OfKind("mod", pos))
  BY DEF Walked
<1>2. Cardinality(OfKind("end", pos)) <= Cardinality(OfKind("mod", pos))
  BY <1>1, SuiteTyped DEF Walked
<1>3. /\ Len(source.items) \in Nat /\ pos \in Nat
      /\ Cardinality(OfKind("end", pos)) \in Nat /\ Cardinality(OfKind("mod", pos)) \in Nat
  <2>1. Len(source.items) \in Nat
    BY SuiteTyped DEF Walked
  <2>2. pos \in Nat
    BY <1>1, <2>1
  <2>3. Cardinality(OfKind("end", pos)) \in Nat
    BY <2>2, OneMore
  <2>4. Cardinality(OfKind("mod", pos)) \in Nat
    BY <2>2, OneMore
  <2> QED BY <2>1, <2>2, <2>3, <2>4
<1>4. Len(stack) \in Nat /\ Len(stack) >= 1
  BY <1>1, <1>2, <1>3
<1>5. Len(stack) \in DOMAIN stack /\ Here \in Frame
  BY <1>1, <1>4 DEF Here
<1> QED BY <1>4, <1>5 DEF Walked, Frame, Here

(* A segment made of an identifier. *)
LEMMA IdentTyped ==
  ASSUME NEW item \in Item
  PROVE  IdentToSegment(item.ident) \in Segment
<1> DEFINE id == item.ident
           S == Letters \union Digits \union {"_"}
           T == Letters \union Digits \union {"-", "_"}
           r == [k \in DOMAIN id |-> IF id[k] = "_" THEN "-" ELSE id[k]]
<1>1. id \in Seq(S)
  BY DEF Item
<1>2. "_" \in T /\ "-" \in T /\ \A x \in S : x \in T
  OBVIOUS
<1>3. r \in Seq(T)
  <2> HIDE DEF id, S, T
  <2>1. PICK n \in Nat : n = Len(id)
    BY <1>1
  <2>2. DOMAIN id = 1..n /\ \A k \in 1..n : id[k] \in S
    BY <1>1, <2>1
  <2>3. \A k \in 1..n : r[k] \in T
    BY <1>2, <2>2
  <2>4. r \in [1..n -> T]
    BY <2>2, <2>3
  <2> HIDE DEF r
  <2> QED BY <2>4, SeqDef
<1> QED BY <1>3 DEF IdentToSegment, Segment

(* The next item, if it is a declaration that is not refused. *)
LEMMA ItemTyped ==
  ASSUME Walked, pos < Len(source.items)
  PROVE  /\ ItemHere \in Item /\ pos \in Nat /\ pos + 1 \in 0..Len(source.items)
         /\ ~ItemRefused(ItemHere) /\ (ItemHere.kind = "mod" \/ Collected(ItemHere)) =>
              /\ ItemHere.tags \in Seq(Tag) /\ TagsValid(ItemHere.tags)
              /\ MergeScope(Here.scope, ItemHere.tags) \in Seq(Tag)
              /\ TagsValid(MergeScope(Here.scope, ItemHere.tags))
<1>1. source.items \in Seq(Item) /\ pos \in 0..Len(source.items) /\ Len(source.items) \in Nat
  BY SuiteTyped DEF Walked
<1>2. ItemHere \in Item /\ pos \in Nat /\ pos + 1 \in 0..Len(source.items)
  BY <1>1 DEF ItemHere
<1> DEFINE tags == ItemHere.tags
<1>3. ASSUME ~ItemRefused(ItemHere), ItemHere.kind = "mod" \/ Collected(ItemHere)
      PROVE  tags \in Seq(Tag) /\ TagsValid(tags)
  <2>1. LevelValid(tags)
    BY <1>3 DEF ItemRefused
  <2>2. \E T : tags \in Seq(T)
    BY <1>2 DEF Item
  <2> HIDE DEF tags
  <2>3. PICK T : tags \in Seq(T)
    BY <2>2
  <2>4. Len(tags) \in Nat /\ DOMAIN tags = 1..Len(tags) /\ tags = [k \in 1..Len(tags) |-> tags[k]]
    BY <2>3
  <2>5. tags \in Seq(Tag)
    BY <2>1, <2>4, SeqDef DEF LevelValid
  <2> QED BY <2>1, <2>5 DEF LevelValid
<1> HIDE DEF tags
<1>4. ASSUME tags \in Seq(Tag), TagsValid(tags)
      PROVE  MergeScope(Here.scope, tags) \in Seq(Tag) /\ TagsValid(MergeScope(Here.scope, tags))
  BY <1>4, HereTyped, MergeValid
<1> QED BY <1>2, <1>3, <1>4 DEF tags

(* Every step of the macro keeps what the walk has collected typed. *)
LEMMA WalkedMacro ==
  ASSUME Walked, MacroNext
  PROVE  Walked'
<1>0. /\ Len(stack) \in Nat /\ Len(stack) >= 1 /\ stack \in Seq(Frame) /\ pos \in Nat
      /\ cases \in Seq(CaseDef) /\ gens \in Seq(GenDef)
      /\ Cardinality(OfKind("end", pos)) \in Nat /\ Cardinality(OfKind("mod", pos)) \in Nat
  <2>1. Len(source.items) \in Nat /\ pos \in 0..Len(source.items)
    BY SuiteTyped DEF Walked
  <2>2. pos \in Nat
    BY <2>1
  <2> QED BY <2>2, HereTyped, OneMore DEF Walked
<1>1. CASE Refuse \/ Validate
  <2>1. UNCHANGED walk /\ mode' \in {"expanded", "refused"}
    BY <1>1 DEF Refuse, Validate
  <2> QED BY <2>1 DEF Walked, walk, OfKind
<1>2. CASE EnterModule
  <2> DEFINE frame == [prefix |-> Append(Here.prefix, IdentToSegment(ItemHere.ident)),
                       scope  |-> MergeScope(Here.scope, ItemHere.tags)]
  <2>1. /\ pos < Len(source.items) /\ ItemHere.kind = "mod" /\ ~ItemRefused(ItemHere)
        /\ pos' = pos + 1 /\ stack' = Append(stack, frame)
        /\ UNCHANGED <<source, cases, gens, mode>>
    BY <1>2 DEF EnterModule, At, ItemHere
  <2>2. frame \in Frame /\ TagsValid(frame.scope) /\ pos + 1 \in 0..Len(source.items)
    <3>1. IdentToSegment(ItemHere.ident) \in Segment
      BY <2>1, ItemTyped, IdentTyped
    <3>2. Append(Here.prefix, IdentToSegment(ItemHere.ident)) \in Name
      BY <3>1, HereTyped DEF Name
    <3> QED BY <2>1, <3>2, ItemTyped DEF Frame
  <2> HIDE DEF frame
  <2>3. /\ Cardinality(OfKind("end", pos + 1)) = Cardinality(OfKind("end", pos))
        /\ Cardinality(OfKind("mod", pos + 1)) = Cardinality(OfKind("mod", pos)) + 1
    <3>1. source.items[pos + 1].kind = "mod" /\ source.items[pos + 1].kind # "end"
      BY <2>1 DEF ItemHere
    <3>2. Cardinality(OfKind("end", pos + 1)) = Cardinality(OfKind("end", pos)) + 0
      BY <1>0, <3>1, OneMore
    <3>3. Cardinality(OfKind("mod", pos + 1)) = Cardinality(OfKind("mod", pos)) + 1
      BY <1>0, <3>1, OneMore
    <3> QED BY <1>0, <3>2, <3>3
  <2>4. /\ stack' \in Seq(Frame) /\ Len(stack') = Len(stack) + 1
        /\ \A k \in DOMAIN stack' : TagsValid(stack'[k].scope)
    BY <1>0, <2>1, <2>2 DEF Walked
  <2>5. Len(stack') + Cardinality(OfKind("end", pos + 1)) = 1 + Cardinality(OfKind("mod", pos + 1))
    BY <1>0, <2>3, <2>4 DEF Walked
  <2>6. \A kind : OfKind(kind, pos)' = OfKind(kind, pos + 1)
    BY <2>1 DEF OfKind
  <2> QED BY <2>1, <2>2, <2>4, <2>5, <2>6 DEF Walked
<1>3. CASE LeaveModule
  <2>1. /\ pos < Len(source.items) /\ ItemHere.kind = "end"
        /\ pos' = pos + 1 /\ stack' = SubSeq(stack, 1, Len(stack) - 1)
        /\ UNCHANGED <<source, cases, gens, mode>>
    BY <1>3 DEF LeaveModule, At, ItemHere
  <2>2. pos + 1 \in 0..Len(source.items)
    BY <2>1, ItemTyped
  <2>3. /\ Cardinality(OfKind("end", pos + 1)) = Cardinality(OfKind("end", pos)) + 1
        /\ Cardinality(OfKind("mod", pos + 1)) = Cardinality(OfKind("mod", pos))
    <3>1. source.items[pos + 1].kind = "end" /\ source.items[pos + 1].kind # "mod"
      BY <2>1 DEF ItemHere
    <3>2. Cardinality(OfKind("end", pos + 1)) = Cardinality(OfKind("end", pos)) + 1
      BY <1>0, <3>1, OneMore
    <3>3. Cardinality(OfKind("mod", pos + 1)) = Cardinality(OfKind("mod", pos)) + 0
      BY <1>0, <3>1, OneMore
    <3> QED BY <1>0, <3>2, <3>3
  <2>4. /\ stack' \in Seq(Frame) /\ Len(stack') = Len(stack) - 1
        /\ \A k \in DOMAIN stack' : k \in DOMAIN stack /\ stack'[k] = stack[k]
    <3>1. PICK n \in Nat : n = Len(stack)
      BY <1>0
    <3>2. n >= 1 /\ n - 1 \in Nat /\ stack' = SubSeq(stack, 1, n - 1)
      BY <1>0, <2>1, <3>1
    <3> QED BY <1>0, <3>1, <3>2
  <2>5. Len(stack') + Cardinality(OfKind("end", pos + 1)) = 1 + Cardinality(OfKind("mod", pos + 1))
    BY <1>0, <2>3, <2>4 DEF Walked
  <2>6. \A kind : OfKind(kind, pos)' = OfKind(kind, pos + 1)
    BY <2>1 DEF OfKind
  <2> QED BY <2>1, <2>2, <2>4, <2>5, <2>6 DEF Walked
<1>4. CASE TakeFn
  <2> DEFINE tags == MergeScope(Here.scope, ItemHere.tags)
             leaf == IF ItemHere.name = <<>> THEN <<IdentToSegment(ItemHere.ident)>> ELSE ItemHere.name
             case == [name |-> Here.prefix \o leaf, tags |-> tags]
             gen == [prefix |-> Here.prefix \o ItemHere.name, tags |-> tags,
                     cases |-> ItemHere.leaves, row |-> ItemHere.attr = "row"]
  <2>1. /\ pos < Len(source.items) /\ ItemHere.kind = "fn" /\ ~ItemRefused(ItemHere)
        /\ pos' = pos + 1 /\ UNCHANGED <<source, stack, mode>>
        /\ cases' = IF ItemHere.attr # "case" THEN cases ELSE Append(cases, case)
        /\ gens' = IF ItemHere.attr \notin {"generator", "row"} THEN gens ELSE Append(gens, gen)
    BY <1>4 DEF TakeFn, At, ItemHere
  <2>2. ItemHere \in Item /\ pos + 1 \in 0..Len(source.items)
    BY <2>1, ItemTyped
  <2>3. ItemHere.name \in Name /\ leaf \in Name
    <3>1. ItemHere.name \in Seq(Seq(STRING))
      BY <2>2 DEF Item
    <3>2. Seq(STRING) \subseteq Segment
      BY DEF Segment
    <3>3. ItemHere.name \in Name
      BY <3>1, <3>2, SeqWider DEF Name
    <3>4. <<IdentToSegment(ItemHere.ident)>> \in Name
      BY <2>2, IdentTyped DEF Name
    <3> QED BY <3>3, <3>4
  <2>4. Collected(ItemHere) => tags \in Seq(Tag) /\ TagsValid(tags)
    BY <2>1, ItemTyped
  <2>5. Here.prefix \o leaf \in Name /\ Here.prefix \o ItemHere.name \in Name
    <3> HIDE DEF leaf
    <3> QED BY <2>3, HereTyped DEF Name
  <2> HIDE DEF tags, leaf
  <2>6. ItemHere.attr = "case" => case \in CaseDef /\ TagsValid(case.tags)
    BY <2>4, <2>5 DEF CaseDef, Collected
  <2>7. ItemHere.attr \in {"generator", "row"} =>
          gen \in GenDef /\ TagsValid(gen.tags) /\ gen.prefix # <<>>
    <3> SUFFICES ASSUME ItemHere.attr \in {"generator", "row"}
                 PROVE  gen \in GenDef /\ TagsValid(gen.tags) /\ gen.prefix # <<>>
      OBVIOUS
    <3>1. ItemHere.leaves \in Seq(Seq(Seq(STRING)))
      BY <2>2 DEF Item
    <3>2. (ItemHere.attr = "row") \in BOOLEAN
      OBVIOUS
    <3>3. gen \in GenDef /\ TagsValid(gen.tags)
      BY <2>4, <2>5, <3>1, <3>2 DEF GenDef, Collected
    <3>4. ItemHere.name # <<>>
      BY <2>1 DEF ItemRefused
    <3>5. Here.prefix \o ItemHere.name # <<>>
      <4> DEFINE p == Here.prefix
                 q == ItemHere.name
      <4>1. p \in Seq(Segment) /\ q \in Seq(Segment) /\ q # <<>>
        BY <2>3, <3>4, HereTyped DEF Name
      <4> HIDE DEF p, q
      <4>2. Len(p) \in Nat /\ Len(q) \in Nat /\ Len(q) # 0
        BY <4>1
      <4>3. Len(p \o q) = Len(p) + Len(q)
        BY <4>1, ConcatProperties
      <4>4. Len(p \o q) # 0
        BY <4>2, <4>3
      <4>5. p \o q # <<>>
        BY <4>4
      <4> QED BY <4>5 DEF p, q
    <3> QED BY <3>3, <3>5
  <2> HIDE DEF case, gen
  <2>8. cases' \in Seq(CaseDef) /\ \A k \in DOMAIN cases' : TagsValid(cases'[k].tags)
    <3>1. \A k \in DOMAIN cases : TagsValid(cases[k].tags)
      BY DEF Walked
    <3>2. CASE ItemHere.attr # "case"
      BY <1>0, <2>1, <3>1, <3>2
    <3>3. CASE ItemHere.attr = "case"
      <4>1. cases' = Append(cases, case)
        BY <2>1, <3>3
      <4>2. PICK n \in Nat : n = Len(cases)
        BY <1>0
      <4>3. DOMAIN cases' = 1..(n + 1) /\ cases'[n + 1] = case /\ \A k \in 1..n : k \in DOMAIN cases /\ cases'[k] = cases[k]
        BY <1>0, <2>6, <3>3, <4>1, <4>2
      <4>4. \A k \in 1..(n + 1) : k = n + 1 \/ k \in 1..n
        OBVIOUS
      <4>5. cases' \in Seq(CaseDef)
        BY <1>0, <2>6, <3>3, <4>1
      <4> QED BY <2>6, <3>1, <3>3, <4>3, <4>4, <4>5
    <3> QED BY <3>2, <3>3
  <2>9. /\ gens' \in Seq(GenDef)
        /\ \A g \in DOMAIN gens' : TagsValid(gens'[g].tags) /\ gens'[g].prefix # <<>>
    <3>1. \A g \in DOMAIN gens : TagsValid(gens[g].tags) /\ gens[g].prefix # <<>>
      BY DEF Walked
    <3>2. CASE ItemHere.attr \notin {"generator", "row"}
      BY <1>0, <2>1, <3>1, <3>2
    <3>3. CASE ItemHere.attr \in {"generator", "row"}
      <4>1. gens' = Append(gens, gen)
        BY <2>1, <3>3
      <4>2. PICK n \in Nat : n = Len(gens)
        BY <1>0
      <4>3. DOMAIN gens' = 1..(n + 1) /\ gens'[n + 1] = gen /\ \A g \in 1..n : g \in DOMAIN gens /\ gens'[g] = gens[g]
        BY <1>0, <2>7, <3>3, <4>1, <4>2
      <4>4. \A g \in 1..(n + 1) : g = n + 1 \/ g \in 1..n
        OBVIOUS
      <4>5. gens' \in Seq(GenDef)
        BY <1>0, <2>7, <3>3, <4>1
      <4> QED BY <2>7, <3>1, <3>3, <4>3, <4>4, <4>5
    <3> QED BY <3>2, <3>3
  <2>10. /\ Cardinality(OfKind("end", pos + 1)) = Cardinality(OfKind("end", pos))
         /\ Cardinality(OfKind("mod", pos + 1)) = Cardinality(OfKind("mod", pos))
    <3>1. source.items[pos + 1].kind # "end" /\ source.items[pos + 1].kind # "mod"
      BY <2>1 DEF ItemHere
    <3>2. Cardinality(OfKind("end", pos + 1)) = Cardinality(OfKind("end", pos)) + 0
      BY <1>0, <3>1, OneMore
    <3>3. Cardinality(OfKind("mod", pos + 1)) = Cardinality(OfKind("mod", pos)) + 0
      BY <1>0, <3>1, OneMore
    <3> QED BY <1>0, <3>2, <3>3
  <2>11. \A kind : OfKind(kind, pos)' = OfKind(kind, pos + 1)
    BY <2>1 DEF OfKind
  <2> QED BY <2>1, <2>2, <2>8, <2>9, <2>10, <2>11 DEF Walked
<1> QED BY <1>1, <1>2, <1>3, <1>4 DEF MacroNext

(* A suite before its walk: nothing is collected, one module is open. *)
LEMMA OpenedTyped ==
  ASSUME NEW s \in Sources \union Revisions
  PROVE  /\ 0 \in 0..Len(s.items)
         /\ Opened(s) \in Seq(Frame) /\ Len(Opened(s)) = 1
         /\ \A k \in DOMAIN Opened(s) : TagsValid(Opened(s)[k].scope)
<1>1. IsSuite(s)
  BY SourcesAssumption, BuildsAssumption
<1>2. s.items \in Seq(Item) /\ s.root \in Seq(Seq(STRING))
  BY <1>1 DEF IsSuite
<1>3. s.root \in Name
  <2>1. Seq(STRING) \subseteq Segment
    BY DEF Segment
  <2> QED BY <1>2, <2>1, SeqWider DEF Name
<1>4. Len(s.items) \in Nat
  BY <1>2
<1> DEFINE frame == [prefix |-> s.root, scope |-> <<>>]
<1>5. frame \in Frame /\ TagsValid(frame.scope)
  <2>1. <<>> \in Seq(Tag) /\ TagsValid(<<>>)
    BY DEF TagsValid
  <2> QED BY <1>3, <2>1 DEF Frame
<1> HIDE DEF frame
<1>6. <<frame>> \in Seq(Frame) /\ Len(<<frame>>) = 1 /\ \A k \in DOMAIN <<frame>> : <<frame>>[k] = frame
  BY <1>5
<1>7. Opened(s) = <<frame>>
  BY DEF Opened, frame
<1> QED BY <1>4, <1>5, <1>6, <1>7

LEMMA NoItems ==
  \A kind : OfKind(kind, 0) = {} /\ Cardinality(OfKind(kind, 0)) = 0
<1>1. 1..0 = {}
  OBVIOUS
<1>2. \A kind : OfKind(kind, 0) = {}
  BY <1>1 DEF OfKind
<1> QED BY <1>2, FS_EmptySet

(* Every step of the command and of what it is about keeps the walk typed: an
   edit starts it again, the others leave it alone. *)
LEMMA WalkedFirst ==
  ASSUME Init
  PROVE  Walked
<1>1. /\ source \in Sources /\ pos = 0 /\ stack = Opened(source) /\ cases = <<>> /\ gens = <<>>
      /\ mode = "walking"
  BY DEF Init, MacroInit
<1>2. /\ source \in Sources \union Revisions /\ pos \in 0..Len(source.items)
      /\ stack \in Seq(Frame) /\ Len(stack) = 1 /\ \A k \in DOMAIN stack : TagsValid(stack[k].scope)
  BY <1>1, OpenedTyped
<1>3. Cardinality(OfKind("end", pos)) = 0 /\ Cardinality(OfKind("mod", pos)) = 0
  BY <1>1, NoItems
<1> QED BY <1>1, <1>2, <1>3 DEF Walked

LEMMA WalkedEdit ==
  ASSUME Edit
  PROVE  Walked'
<1>1. PICK s \in Revisions : Written(s)
  BY DEF Edit
<1>2. /\ source' = s /\ pos' = 0 /\ stack' = Opened(s) /\ cases' = <<>> /\ gens' = <<>>
      /\ mode' = "walking"
  BY <1>1 DEF Written
<1>3. 1..0 = {}
  OBVIOUS
<1>4. \A kind : OfKind(kind, pos)' = {}
  BY <1>2, <1>3 DEF OfKind
<1>5. Cardinality({}) = 0
  BY FS_EmptySet
<1>6. \A kind : Cardinality(OfKind(kind, pos)') = 0
  BY <1>4, <1>5
<1>7. /\ source' \in Sources \union Revisions
      /\ pos' \in 0..Len(source'.items)
      /\ stack' \in Seq(Frame) /\ Len(stack') = 1
      /\ \A k \in DOMAIN stack' : TagsValid(stack'[k].scope)
  BY <1>2, OpenedTyped
<1> QED BY <1>2, <1>6, <1>7 DEF Walked

LEMMA WalkedKept ==
  ASSUME Walked, [Next]_vars
  PROVE  Walked'
<1>1. ASSUME UNCHANGED walk,
             mode' \in {"walking", "expanded", "refused", "registering", "ready", "panicked"}
      PROVE  Walked'
  BY <1>1 DEF Walked, walk, OfKind
<1>2. mode \in {"walking", "expanded", "refused", "registering", "ready", "panicked"}
  BY DEF Walked
<1>3. CASE RegistryNext
  <2>1. UNCHANGED walk /\ (mode' = mode \/ mode' \in {"registering", "ready", "panicked"})
    BY <1>3 DEF RegistryNext, Compile, Register, GetOrInit
  <2> QED BY <1>1, <1>2, <2>1
<1>4. CASE EnumerateSuite \/ Lock \/ Check \/ UNCHANGED vars
  <2>1. UNCHANGED <<walk, mode>>
    BY <1>4 DEF EnumerateSuite, Lock, Check, vars
  <2> QED BY <1>1, <1>2, <2>1
<1> QED BY <1>3, <1>4, WalkedMacro, WalkedEdit DEF Next

-----------------------------------------------------------------------------
(* Names. *)

(* A prefix is kept by what is appended to it. *)
LEMMA Extended ==
  ASSUME NEW S, NEW p \in Seq(S), NEW q \in Seq(S), q # <<>>
  PROVE  IsUnder(p \o q, p)
<1>1. PICK m \in Nat, n \in Nat : m = Len(p) /\ n = Len(q)
  OBVIOUS
<1>2. n # 0
  BY <1>1
<1> DEFINE c == p \o q
<1>3. /\ c \in Seq(S) /\ Len(c) = m + n
      /\ \A i \in 1..(m + n) : c[i] = IF i <= m THEN p[i] ELSE q[i - m]
  BY <1>1, ConcatProperties
<1> HIDE DEF c
<1>4. m \in 0..Len(c) /\ m < Len(c)
  BY <1>1, <1>2, <1>3
<1>5. \A i \in 1..m : c[i] = p[i]
  BY <1>1, <1>3
<1>6. SubSeq(c, 1, m) = p
  BY <1>1, <1>3, <1>4, <1>5
<1> QED BY <1>1, <1>4, <1>6 DEF IsUnder, c

(* Of two prefixes of one name, one is the other or is under it. *)
LEMMA Nested ==
  ASSUME NEW S, NEW n \in Seq(S), NEW p \in Seq(S), NEW q \in Seq(S),
         IsUnder(n, p), IsUnder(n, q)
  PROVE  p = q \/ IsUnder(p, q) \/ IsUnder(q, p)
<1>1. PICK l \in Nat, i \in Nat, j \in Nat : l = Len(n) /\ i = Len(p) /\ j = Len(q)
  OBVIOUS
<1>2. l > i /\ l > j /\ SubSeq(n, 1, i) = p /\ SubSeq(n, 1, j) = q
  BY <1>1 DEF IsUnder
<1>3. \A k \in 1..i : p[k] = n[k]
  BY <1>1, <1>2
<1>4. \A k \in 1..j : q[k] = n[k]
  BY <1>1, <1>2
<1>5. CASE i = j
  BY <1>2, <1>5
<1>6. CASE i > j
  <2>1. SubSeq(p, 1, j) = q
    BY <1>1, <1>3, <1>4, <1>6
  <2> QED BY <1>1, <1>6, <2>1 DEF IsUnder
<1>7. CASE i < j
  <2>1. SubSeq(q, 1, i) = p
    BY <1>1, <1>3, <1>4, <1>7
  <2> QED BY <1>1, <1>7, <2>1 DEF IsUnder
<1> QED BY <1>1, <1>5, <1>6, <1>7

(* What is appended to a prefix can be told from the result. *)
LEMMA Cancelled ==
  ASSUME NEW S, NEW p \in Seq(S), NEW q \in Seq(S), NEW r \in Seq(S), p \o q = p \o r
  PROVE  q = r
<1>1. PICK i \in Nat, j \in Nat, k \in Nat : i = Len(p) /\ j = Len(q) /\ k = Len(r)
  OBVIOUS
<1> DEFINE c == p \o q
           d == p \o r
<1>2. Len(c) = i + j /\ \A x \in 1..(i + j) : c[x] = IF x <= i THEN p[x] ELSE q[x - i]
  BY <1>1, ConcatProperties
<1>3. Len(d) = i + k /\ \A x \in 1..(i + k) : d[x] = IF x <= i THEN p[x] ELSE r[x - i]
  BY <1>1, ConcatProperties
<1>4. c = d
  OBVIOUS
<1> HIDE DEF c, d
<1>5. j = k
  BY <1>1, <1>2, <1>3, <1>4
<1>6. ASSUME NEW x \in 1..j PROVE q[x] = r[x]
  <2>1. i + x \in 1..(i + j) /\ ~(i + x <= i) /\ (i + x) - i = x
    BY <1>1
  <2>2. c[i + x] = q[x]
    BY <1>2, <2>1
  <2>3. d[i + x] = r[x]
    BY <1>3, <1>5, <2>1
  <2> QED BY <1>4, <2>2, <2>3
<1>7. q = [x \in 1..j |-> q[x]] /\ r = [x \in 1..j |-> r[x]]
  BY <1>1, <1>5
<1> QED BY <1>6, <1>7

(* A name of labels and a leaf is a valid name. *)
LEMMA ValidPrefixed ==
  ASSUME NEW S, NEW p \in Seq(S), NEW q \in Seq(S), q # <<>>,
         \A k \in DOMAIN p : p[k] \in Labels,
         \A k \in 1..(Len(q) - 1) : q[k] \in Labels,
         q[Len(q)] \in LeafSegments
  PROVE  ValidName(p \o q)
<1>1. PICK m \in Nat, n \in Nat : m = Len(p) /\ n = Len(q)
  OBVIOUS
<1>2. n # 0
  BY <1>1
<1> DEFINE c == p \o q
<1>3. /\ c \in Seq(S) /\ Len(c) = m + n
      /\ \A i \in 1..(m + n) : c[i] = IF i <= m THEN p[i] ELSE q[i - m]
  BY <1>1, ConcatProperties
<1>4. \A k \in 1..m : p[k] \in Labels
  BY <1>1
<1>5. \A k \in 1..(n - 1) : q[k] \in Labels
  BY <1>1
<1> HIDE DEF c
<1>6. ASSUME NEW k \in 1..((m + n) - 1) PROVE c[k] \in Labels
  <2>1. k \in 1..(m + n) /\ (k <= m => k \in 1..m) /\ (~(k <= m) => k - m \in 1..(n - 1))
    BY <1>1, <1>2
  <2> QED BY <1>3, <1>4, <1>5, <2>1
<1>7. c[m + n] \in LeafSegments
  <2>1. m + n \in 1..(m + n) /\ ~(m + n <= m) /\ (m + n) - m = n
    BY <1>1, <1>2
  <2>2. c[m + n] = q[n]
    BY <1>3, <2>1
  <2> QED BY <1>1, <2>2
<1>8. c # <<>>
  BY <1>1, <1>2, <1>3
<1> QED BY <1>3, <1>6, <1>7, <1>8 DEF ValidName, c

(* A leaf that is registered at all is registered by one valid name under the
   prefix of its generator, and different leaves by different names. *)
LEMMA LeafNamed ==
  ASSUME NEW gen \in GenDef, NEW leaf \in Seq(Seq(STRING)), LeafNames(gen, leaf) # {}
  PROVE  \E n \in Name : LeafNames(gen, leaf) = {n} /\ ValidName(n) /\ IsUnder(n, gen.prefix)
<1>1. gen.prefix \in Name
  BY DEF GenDef
<1>2. leaf \in Name
  <2>1. Seq(STRING) \subseteq Segment
    BY DEF Segment
  <2> QED BY <2>1, SeqWider DEF Name
<1> DEFINE p == gen.prefix
<1>3. CASE ~gen.row
  <2>1. /\ leaf # <<>>
        /\ \A k \in DOMAIN p : p[k] \in Labels
        /\ \A k \in 1..(Len(leaf) - 1) : leaf[k] \in Labels
        /\ leaf[Len(leaf)] \in LeafSegments
        /\ LeafNames(gen, leaf) = {p \o leaf}
    BY <1>3 DEF LeafNames, Prefixed
  <2> HIDE DEF p
  <2>2. p \in Seq(Segment) /\ leaf \in Seq(Segment)
    BY <1>1, <1>2 DEF Name, p
  <2>3. ValidName(p \o leaf)
    BY <2>1, <2>2, ValidPrefixed
  <2>4. IsUnder(p \o leaf, p)
    BY <2>1, <2>2, Extended
  <2>5. p \o leaf \in Name
    BY <2>2 DEF Name
  <2> QED BY <2>1, <2>3, <2>4, <2>5 DEF p
<1>4. CASE gen.row
  BY <1>2, <1>4 DEF LeafNames
<1> QED BY <1>3, <1>4

LEMMA LeafNamedOnce ==
  ASSUME NEW gen \in GenDef, NEW leaf \in Seq(Seq(STRING)), NEW other \in Seq(Seq(STRING)),
         LeafNames(gen, leaf) # {}, LeafNames(gen, leaf) = LeafNames(gen, other)
  PROVE  leaf = other
<1> DEFINE p == gen.prefix
<1>1. p \in Seq(Segment)
  BY DEF GenDef, Name
<1>2. leaf \in Seq(Segment) /\ other \in Seq(Segment)
  <2>1. Seq(STRING) \subseteq Segment
    BY DEF Segment
  <2> QED BY <2>1, SeqWider
<1>3. CASE ~gen.row
  <2>1. p \o leaf = p \o other
    BY <1>3 DEF LeafNames, Prefixed
  <2> HIDE DEF p
  <2> QED BY <1>1, <1>2, <2>1, Cancelled
<1>4. CASE gen.row
  BY <1>4 DEF LeafNames
<1> QED BY <1>3, <1>4

-----------------------------------------------------------------------------
(* What the registry is built from. *)

\* Registration i is that of case k, ...
OfCase(i, k) ==
  /\ k \in DOMAIN cases
  /\ Registrations[i].names = IF ValidName(cases[k].name) THEN {cases[k].name} ELSE {}
  /\ Registrations[i].tags = cases[k].tags

\* ... or of leaf j of generator g.
OfLeaf(i, g, j) ==
  /\ g \in DOMAIN gens /\ j \in DOMAIN gens[g].cases
  /\ Registrations[i].names = LeafNames(gens[g], gens[g].cases[j])
  /\ Registrations[i].tags = gens[g].tags

(* Each registration is that of a case or of a leaf, and of one only; the
   cases come first. *)
LEMMA Decoded ==
  ASSUME Walked
  PROVE  /\ Len(Registrations) \in Nat
         /\ \A k \in DOMAIN cases : k \in 1..Len(Registrations) /\ OfCase(k, k)
         /\ \E f \in [1..Len(Registrations) -> Nat], h \in [1..Len(Registrations) -> Nat] :
              /\ \A i \in 1..Len(Registrations) : \/ f[i] = 0 /\ OfCase(i, h[i])
                                                  \/ f[i] # 0 /\ OfLeaf(i, f[i], h[i])
              /\ \A i, j \in 1..Len(Registrations) : f[i] = f[j] /\ h[i] = h[j] => i = j
<1> DEFINE R == [names : SUBSET Name, tags : Seq(Tag)]
           cs == [k \in DOMAIN cases |->
                    [names |-> IF ValidName(cases[k].name) THEN {cases[k].name} ELSE {},
                     tags |-> cases[k].tags]]
           ss == [g \in DOMAIN gens |->
                    [k \in DOMAIN gens[g].cases |->
                       [names |-> LeafNames(gens[g], gens[g].cases[k]), tags |-> gens[g].tags]]]
           flat == FlattenSeq(ss)
<1>1. Registrations = cs \o flat
  BY DEF Registrations
<1>2. cases \in Seq(CaseDef) /\ gens \in Seq(GenDef)
  BY DEF Walked
<1>3. PICK m \in Nat, n \in Nat : m = Len(cases) /\ n = Len(gens)
  BY <1>2
<1>4. DOMAIN cases = 1..m /\ DOMAIN gens = 1..n
  BY <1>2, <1>3
<1>5. cs \in Seq(R) /\ Len(cs) = m
  <2>0. \A k \in 1..m : cases[k] \in CaseDef
    BY <1>2, <1>3
  <2>1. \A k \in 1..m : cases[k].name \in Name /\ cases[k].tags \in Seq(Tag)
    BY <2>0 DEF CaseDef
  <2>2. \A k \in 1..m : cs[k] \in R
    BY <1>4, <2>1
  <2>3. cs \in [1..m -> R]
    BY <1>4, <2>2
  <2> HIDE DEF cs, R
  <2> QED BY <2>3, SeqDef
<1>6. \A g \in 1..n : gens[g] \in GenDef /\ gens[g].tags \in Seq(Tag) /\ gens[g].cases \in Seq(Seq(Seq(STRING)))
  <2>1. \A g \in 1..n : gens[g] \in GenDef
    BY <1>2, <1>3
  <2> QED BY <2>1 DEF GenDef
<1>7. ss \in Seq(Seq(R)) /\ Len(ss) = n /\ \A g \in 1..n : DOMAIN ss[g] = DOMAIN gens[g].cases
  <2>1. ASSUME NEW g \in 1..n PROVE ss[g] \in Seq(R) /\ DOMAIN ss[g] = DOMAIN gens[g].cases
    <3> DEFINE leaf == gens[g].cases
    <3>0. leaf \in Seq(Seq(Seq(STRING)))
      BY <1>6
    <3> HIDE DEF leaf
    <3>1. PICK l \in Nat : l = Len(leaf)
      BY <3>0
    <3>2. DOMAIN leaf = 1..l /\ \A k \in 1..l : leaf[k] \in Seq(Seq(STRING))
      BY <3>0, <3>1
    <3>3. \A k \in 1..l : LeafNames(gens[g], leaf[k]) \in SUBSET Name
      BY <1>6, <3>2, LeafNamed
    <3>4. g \in DOMAIN gens
      BY <1>4
    <3>5. ss[g] = [k \in 1..l |-> [names |-> LeafNames(gens[g], leaf[k]), tags |-> gens[g].tags]]
      BY <3>2, <3>4 DEF leaf
    <3> DEFINE t == gens[g].tags
    <3>6. t \in Seq(Tag) /\ ss[g] = [k \in 1..l |-> [names |-> LeafNames(gens[g], leaf[k]), tags |-> t]]
      BY <1>6, <3>5
    <3> HIDE DEF ss, t
    <3>7. \A k \in 1..l : [names |-> LeafNames(gens[g], leaf[k]), tags |-> t] \in R
      BY <3>3, <3>6
    <3> HIDE DEF R
    <3>8. ss[g] \in [1..l -> R]
      BY <3>6, <3>7
    <3> QED BY <3>2, <3>8, SeqDef DEF leaf
  <2>2. ss = [g \in 1..n |-> ss[g]]
    BY <1>4
  <2> HIDE DEF ss, R
  <2>3. ss \in [1..n -> Seq(R)]
    BY <2>1, <2>2
  <2> QED BY <2>1, <2>3, SeqDef
<1>8. \A g \in 1..n : \A k \in DOMAIN gens[g].cases :
        ss[g][k] = [names |-> LeafNames(gens[g], gens[g].cases[k]), tags |-> gens[g].tags]
  BY <1>4
<1>9. \A k \in 1..m : cs[k] = [names |-> IF ValidName(cases[k].name) THEN {cases[k].name} ELSE {},
                               tags |-> cases[k].tags]
  BY <1>4
<1> HIDE DEF cs, ss, R
<1>10. /\ flat \in Seq(R)
       /\ \E f \in [1..Len(flat) -> 1..Len(ss)], g \in [1..Len(flat) -> Nat] :
            /\ \A p \in 1..Len(flat) : g[p] \in 1..Len(ss[f[p]]) /\ flat[p] = ss[f[p]][g[p]]
            /\ \A p, q \in 1..Len(flat) : f[p] = f[q] /\ g[p] = g[q] => p = q
  BY <1>7, Flattened
<1>11. PICK l \in Nat : l = Len(flat)
  BY <1>10
<1> HIDE DEF flat
<1> DEFINE placed(f, g) == /\ \A p \in 1..l : g[p] \in 1..Len(ss[f[p]]) /\ flat[p] = ss[f[p]][g[p]]
                           /\ \A p, q \in 1..l : f[p] = f[q] /\ g[p] = g[q] => p = q
<1>12. PICK f \in [1..l -> 1..n], g \in [1..l -> Nat] : placed(f, g)
  <2>1. PICK f \in [1..Len(flat) -> 1..Len(ss)], g \in [1..Len(flat) -> Nat] :
          /\ \A p \in 1..Len(flat) : g[p] \in 1..Len(ss[f[p]]) /\ flat[p] = ss[f[p]][g[p]]
          /\ \A p, q \in 1..Len(flat) : f[p] = f[q] /\ g[p] = g[q] => p = q
    BY <1>10
  <2>2. f \in [1..l -> 1..n] /\ g \in [1..l -> Nat]
    BY <1>7, <1>11
  <2>3. placed(f, g)
    BY <1>11, <2>1
  <2> HIDE DEF placed
  <2> QED BY <2>2, <2>3
<1> DEFINE r == Registrations
<1>13. /\ r \in Seq(R) /\ Len(r) = m + l
       /\ \A i \in 1..(m + l) : r[i] = IF i <= m THEN cs[i] ELSE flat[i - m]
  <2> DEFINE c == cs \o flat
  <2>1. /\ c \in Seq(R) /\ Len(c) = m + l
        /\ \A i \in 1..(m + l) : c[i] = IF i <= m THEN cs[i] ELSE flat[i - m]
    <3>1. cs \in Seq(R) /\ flat \in Seq(R) /\ m = Len(cs) /\ l = Len(flat)
      BY <1>5, <1>10, <1>11
    <3> QED BY <3>1, Concatenated
  <2>2. r = c
    BY <1>1
  <2> HIDE DEF r, c
  <2> QED BY <2>1, <2>2
<1> HIDE DEF r
<1> DEFINE F == [i \in 1..(m + l) |-> IF i <= m THEN 0 ELSE f[i - m]]
           H == [i \in 1..(m + l) |-> IF i <= m THEN i ELSE g[i - m]]
<1>14. \A i \in 1..(m + l) : (i <= m /\ i \in 1..m) \/ (~(i <= m) /\ i - m \in 1..l)
  BY <1>3, <1>11
<1>15. \A p \in 1..l : f[p] \in 1..n /\ f[p] \in Nat /\ f[p] # 0 /\ g[p] \in Nat
  BY <1>3
<1>16. F \in [1..(m + l) -> Nat] /\ H \in [1..(m + l) -> Nat]
  <2>1. \A i \in 1..(m + l) : F[i] \in Nat /\ H[i] \in Nat
    BY <1>14, <1>15
  <2> QED BY <2>1
<1>17. \A i \in 1..(m + l) : /\ i <= m => F[i] = 0 /\ H[i] = i
                             /\ ~(i <= m) => F[i] = f[i - m] /\ H[i] = g[i - m]
  OBVIOUS
<1> HIDE DEF F, H
<1>18. ASSUME NEW i \in 1..(m + l)
       PROVE  (F[i] = 0 /\ OfCase(i, H[i])) \/ (F[i] # 0 /\ OfLeaf(i, F[i], H[i]))
  <2>1. CASE i <= m /\ i \in 1..m
    <3>1. r[i] = [names |-> IF ValidName(cases[i].name) THEN {cases[i].name} ELSE {},
                  tags |-> cases[i].tags]
      <4>1. r[i] = cs[i]
        BY <1>13, <2>1
      <4> QED BY <1>9, <2>1, <4>1
    <3>2. /\ r[i].names = IF ValidName(cases[i].name) THEN {cases[i].name} ELSE {}
          /\ r[i].tags = cases[i].tags
      BY <3>1
    <3>3. OfCase(i, i)
      <4>1. i \in DOMAIN cases
        BY <1>4, <2>1
      <4> QED BY <3>2, <4>1, Zenon DEF OfCase, r
    <3> QED BY <1>17, <2>1, <3>3
  <2>2. CASE ~(i <= m) /\ i - m \in 1..l
    <3> DEFINE a == f[i - m]
               b == g[i - m]
    <3>1. a \in 1..n /\ b \in 1..Len(ss[a]) /\ r[i] = ss[a][b]
      BY <1>12, <1>13, <1>15, <2>2
    <3>2. F[i] = a /\ H[i] = b /\ a # 0
      BY <1>15, <1>17, <2>2
    <3> HIDE DEF a, b
    <3>3. DOMAIN ss[a] = 1..Len(ss[a])
      BY <1>7, <3>1
    <3>4. b \in DOMAIN gens[a].cases
      BY <1>7, <3>1, <3>3
    <3>5. r[i] = [names |-> LeafNames(gens[a], gens[a].cases[b]), tags |-> gens[a].tags]
      BY <1>8, <3>1, <3>4
    <3> QED BY <1>4, <3>1, <3>2, <3>4, <3>5 DEF OfLeaf, r
  <2> QED BY <1>14, <2>1, <2>2
<1>19. ASSUME NEW i \in 1..(m + l), NEW j \in 1..(m + l), F[i] = F[j], H[i] = H[j]
       PROVE  i = j
  <2>1. CASE i <= m /\ j <= m
    BY <1>17, <1>19, <2>1
  <2>2. CASE ~(i <= m) /\ ~(j <= m)
    <3>1. f[i - m] = f[j - m] /\ g[i - m] = g[j - m]
      BY <1>17, <1>19, <2>2
    <3>2. i - m = j - m
      BY <1>12, <1>14, <2>2, <3>1
    <3> QED BY <1>3, <3>2
  <2>3. i <= m <=> j <= m
    BY <1>14, <1>15, <1>17, <1>19
  <2> QED BY <2>1, <2>2, <2>3
<1>20. Len(r) \in Nat
  BY <1>3, <1>11, <1>13
<1>21. Len(r) = m + l
  BY <1>13
<1>22. \E x \in [1..Len(r) -> Nat], y \in [1..Len(r) -> Nat] :
         /\ \A i \in 1..Len(r) : (x[i] = 0 /\ OfCase(i, y[i])) \/ (x[i] # 0 /\ OfLeaf(i, x[i], y[i]))
         /\ \A i, j \in 1..Len(r) : x[i] = x[j] /\ y[i] = y[j] => i = j
  <2> DEFINE good(n_1, x, y) ==
        /\ \A i \in 1..n_1 : (x[i] = 0 /\ OfCase(i, y[i])) \/ (x[i] # 0 /\ OfLeaf(i, x[i], y[i]))
        /\ \A i, j \in 1..n_1 : x[i] = x[j] /\ y[i] = y[j] => i = j
  <2>1. good(m + l, F, H)
    BY <1>18, <1>19
  <2>2. \E x \in [1..Len(r) -> Nat], y \in [1..Len(r) -> Nat] : good(Len(r), x, y)
    <3> HIDE DEF good
    <3> QED BY <1>16, <1>21, <2>1
  <2> QED BY <2>2
<1>23. \A k \in DOMAIN cases : k \in 1..Len(r) /\ OfCase(k, k)
  <2> SUFFICES ASSUME NEW k \in 1..m PROVE k \in 1..Len(r) /\ OfCase(k, k)
    BY <1>4
  <2>1. k \in 1..(m + l) /\ k <= m
    BY <1>3, <1>11
  <2>2. F[k] = 0 /\ H[k] = k
    BY <1>17, <2>1
  <2> QED BY <1>18, <1>21, <2>1, <2>2
<1> QED BY <1>20, <1>22, <1>23 DEF r

(* A declaration the macro accepted registers a valid name, and a leaf that
   registers none makes its generator unsound. *)
LEMMA Named ==
  ASSUME Walked, Accepted, NEW i \in 1..Len(Registrations)
  PROVE  /\ Registrations[i].tags \in Seq(Tag) /\ TagsValid(Registrations[i].tags)
         /\ Registrations[i].names = {} => \E g \in DOMAIN gens : ~YieldsSound(gens[g])
         /\ Registrations[i].names # {} =>
              \E n \in Name : Registrations[i].names = {n} /\ ValidName(n)
<1>1. (\E k : OfCase(i, k)) \/ \E g, j : OfLeaf(i, g, j)
  BY Decoded
<1> DEFINE r == Registrations[i]
<1>2. ASSUME NEW k, OfCase(i, k)
      PROVE  r.tags \in Seq(Tag) /\ TagsValid(r.tags) /\ \E n \in Name : r.names = {n} /\ ValidName(n)
  <2>1. /\ k \in DOMAIN cases
        /\ r.names = IF ValidName(cases[k].name) THEN {cases[k].name} ELSE {}
        /\ r.tags = cases[k].tags
    BY <1>2 DEF OfCase
  <2> HIDE DEF r
  <2>2. cases[k] \in CaseDef /\ TagsValid(cases[k].tags)
    BY <2>1 DEF Walked
  <2>3. ValidName(cases[k].name)
    BY <2>1 DEF Accepted
  <2>4. cases[k].name \in Name /\ cases[k].tags \in Seq(Tag)
    BY <2>2 DEF CaseDef
  <2> QED BY <2>1, <2>2, <2>3, <2>4
<1>3. ASSUME NEW g, NEW j, OfLeaf(i, g, j)
      PROVE  /\ r.tags \in Seq(Tag) /\ TagsValid(r.tags)
             /\ r.names = {} => ~YieldsSound(gens[g])
             /\ r.names # {} => \E n \in Name : r.names = {n} /\ ValidName(n)
  <2>1. /\ g \in DOMAIN gens /\ j \in DOMAIN gens[g].cases
        /\ r.names = LeafNames(gens[g], gens[g].cases[j]) /\ r.tags = gens[g].tags
    BY <1>3 DEF OfLeaf
  <2> HIDE DEF r
  <2>2. gens[g] \in GenDef /\ TagsValid(gens[g].tags)
    BY <2>1 DEF Walked
  <2>3. gens[g].cases \in Seq(Seq(Seq(STRING))) /\ gens[g].tags \in Seq(Tag)
    BY <2>2 DEF GenDef
  <2>4. gens[g].cases[j] \in Seq(Seq(STRING))
    BY <2>1, <2>3
  <2>5. r.names = {} => ~YieldsSound(gens[g])
    BY <2>1 DEF YieldsSound
  <2>6. r.names # {} => \E n \in Name : r.names = {n} /\ ValidName(n)
    BY <2>1, <2>2, <2>4, LeafNamed
  <2> QED BY <2>1, <2>2, <2>3, <2>5, <2>6
<1>4. ASSUME NEW g, NEW j, OfLeaf(i, g, j) PROVE g \in DOMAIN gens
  BY <1>4 DEF OfLeaf
<1> HIDE DEF r
<1>5. /\ r.tags \in Seq(Tag) /\ TagsValid(r.tags)
      /\ r.names = {} => \E g \in DOMAIN gens : ~YieldsSound(gens[g])
      /\ r.names # {} => \E n \in Name : r.names = {n} /\ ValidName(n)
  BY <1>1, <1>2, <1>3, <1>4
<1> QED BY <1>5 DEF r

(* The leaves of different generators are apart. *)
LEMMA LeavesApart ==
  ASSUME Walked, Accepted, NEW n \in Name, NEW g \in DOMAIN gens, NEW h \in DOMAIN gens,
         IsUnder(n, gens[g].prefix), IsUnder(n, gens[h].prefix)
  PROVE  g = h
<1>1. gens[g].prefix \in Name /\ gens[h].prefix \in Name
  <2>1. gens[g] \in GenDef /\ gens[h] \in GenDef
    BY DEF Walked
  <2> QED BY <2>1 DEF GenDef
<1> DEFINE p == gens[g].prefix
           q == gens[h].prefix
<1>2. p = q \/ IsUnder(p, q) \/ IsUnder(q, p)
  <2>1. n \in Seq(Segment) /\ p \in Seq(Segment) /\ q \in Seq(Segment) /\ IsUnder(n, p) /\ IsUnder(n, q)
    BY <1>1 DEF Name
  <2> HIDE DEF p, q
  <2> QED BY <2>1, Nested
<1>3. g # h => ~IsUnder(p, q) /\ ~IsUnder(q, p)
  BY DEF Accepted, RowsApart, Apart
<1>4. p = q => g = h
  BY DEF Accepted
<1> QED BY <1>2, <1>3, <1>4

(* One name is registered twice only by a generator that yields it twice. *)
LEMMA Distinct ==
  ASSUME Walked, Accepted,
         NEW i \in 1..Len(Registrations), NEW j \in 1..Len(Registrations), i # j,
         NEW n, n \in Registrations[i].names, n \in Registrations[j].names
  PROVE  \E g \in DOMAIN gens : ~YieldsSound(gens[g])
<1>1. PICK f \in [1..Len(Registrations) -> Nat], h \in [1..Len(Registrations) -> Nat] :
        /\ \A k \in 1..Len(Registrations) : \/ f[k] = 0 /\ OfCase(k, h[k])
                                            \/ f[k] # 0 /\ OfLeaf(k, f[k], h[k])
        /\ \A k, l \in 1..Len(Registrations) : f[k] = f[l] /\ h[k] = h[l] => k = l
  BY Decoded
<1>2. n \in Name /\ Registrations[i].names = {n} /\ Registrations[j].names = {n}
  BY Named
<1>3. ASSUME NEW x, NEW k, OfCase(x, k), Registrations[x].names = {n}
      PROVE  k \in DOMAIN cases /\ cases[k].name = n
  BY <1>3 DEF OfCase
<1>4. ASSUME NEW x, NEW g, NEW k, OfLeaf(x, g, k), Registrations[x].names = {n}
      PROVE  /\ g \in DOMAIN gens /\ k \in DOMAIN gens[g].cases /\ gens[g] \in GenDef
             /\ gens[g].cases[k] \in Seq(Seq(STRING))
             /\ LeafNames(gens[g], gens[g].cases[k]) = {n} /\ IsUnder(n, gens[g].prefix)
  <2>1. g \in DOMAIN gens /\ k \in DOMAIN gens[g].cases /\ LeafNames(gens[g], gens[g].cases[k]) = {n}
    BY <1>4 DEF OfLeaf
  <2>2. gens[g] \in GenDef
    BY <2>1 DEF Walked
  <2>3. gens[g].cases \in Seq(Seq(Seq(STRING)))
    BY <2>2 DEF GenDef
  <2>4. gens[g].cases[k] \in Seq(Seq(STRING))
    BY <2>1, <2>3
  <2>5. IsUnder(n, gens[g].prefix)
    BY <2>1, <2>2, <2>4, LeafNamed
  <2> QED BY <2>1, <2>2, <2>4, <2>5
<1>5. ASSUME NEW x, NEW y, NEW k, NEW g, NEW l, OfCase(x, k), OfLeaf(y, g, l),
             Registrations[x].names = {n}, Registrations[y].names = {n}
      PROVE  FALSE
  <2>1. k \in DOMAIN cases /\ cases[k].name = n
    BY <1>3, <1>5
  <2>2. g \in DOMAIN gens /\ IsUnder(n, gens[g].prefix)
    BY <1>4, <1>5
  <2> QED BY <2>1, <2>2 DEF Accepted, CasesApart
<1>6. CASE f[i] = 0 /\ f[j] = 0
  <2>1. OfCase(i, h[i]) /\ OfCase(j, h[j])
    BY <1>1, <1>6
  <2>2. h[i] \in DOMAIN cases /\ cases[h[i]].name = n
    BY <1>2, <1>3, <2>1
  <2>3. h[j] \in DOMAIN cases /\ cases[h[j]].name = n
    BY <1>2, <1>3, <2>1
  <2>4. h[i] = h[j]
    BY <2>2, <2>3 DEF Accepted
  <2> QED BY <1>1, <1>6, <2>4
<1>7. CASE f[i] # 0 /\ f[j] # 0
  <2> DEFINE g == f[i]
             e == f[j]
             a == h[i]
             b == h[j]
  <2>1. OfLeaf(i, g, a) /\ OfLeaf(j, e, b)
    BY <1>1, <1>7
  <2>2. g = e => a # b
    BY <1>1
  <2> HIDE DEF g, e, a, b
  <2>3. /\ g \in DOMAIN gens /\ a \in DOMAIN gens[g].cases /\ gens[g] \in GenDef
        /\ gens[g].cases[a] \in Seq(Seq(STRING))
        /\ LeafNames(gens[g], gens[g].cases[a]) = {n} /\ IsUnder(n, gens[g].prefix)
    BY <1>2, <1>4, <2>1
  <2>4. /\ e \in DOMAIN gens /\ b \in DOMAIN gens[e].cases
        /\ gens[e].cases[b] \in Seq(Seq(STRING))
        /\ LeafNames(gens[e], gens[e].cases[b]) = {n} /\ IsUnder(n, gens[e].prefix)
    BY <1>2, <1>4, <2>1
  <2>5. e = g
    BY <1>2, <2>3, <2>4, LeavesApart
  <2>6. a # b
    BY <2>2, <2>5
  <2>7. gens[g].cases[a] = gens[g].cases[b]
    <3>1. LeafNames(gens[g], gens[g].cases[a]) # {}
      BY <2>3
    <3>2. LeafNames(gens[g], gens[g].cases[a]) = LeafNames(gens[g], gens[g].cases[b])
      BY <2>3, <2>4, <2>5
    <3>3. gens[g].cases[b] \in Seq(Seq(STRING))
      BY <2>4, <2>5
    <3> QED BY <2>3, <3>1, <3>2, <3>3, LeafNamedOnce
  <2>8. ~YieldsSound(gens[g])
    BY <2>3, <2>4, <2>5, <2>6, <2>7 DEF YieldsSound
  <2> QED BY <2>3, <2>8
<1>8. CASE f[i] = 0 /\ f[j] # 0
  BY <1>1, <1>2, <1>5, <1>8
<1>9. CASE f[i] # 0 /\ f[j] = 0
  BY <1>1, <1>2, <1>5, <1>9
<1> QED BY <1>6, <1>7, <1>8, <1>9

-----------------------------------------------------------------------------
(* The inventory. *)

\* The entries that the inventory is to have.
CaseEntrySet == {[name |-> cases[k].name, tags |-> cases[k].tags] : k \in DOMAIN cases}

RowEntrySet == {[prefix |-> gens[g].prefix, tags |-> gens[g].tags, cases |-> <<>>] : g \in DOMAIN gens}

(* They are finitely many, and so are the artifact's records. *)
LEMMA EntriesFinite ==
  ASSUME Walked
  PROVE  IsFiniteSet(CaseEntrySet) /\ IsFiniteSet(RowEntrySet) /\ IsFiniteSet(Records)
<1>1. PICK m \in Nat, n \in Nat : m = Len(cases) /\ n = Len(gens)
  BY DEF Walked
<1>2. DOMAIN cases = 1..m /\ DOMAIN gens = 1..n
  BY <1>1 DEF Walked
<1>3. IsFiniteSet(1..m) /\ IsFiniteSet(1..n)
  BY FS_Interval
<1>4. ASSUME NEW S, IsFiniteSet(S), NEW T, NEW f \in [S -> T], \A t \in T : \E s \in S : f[s] = t
      PROVE  IsFiniteSet(T)
  <2>1. f \in Surjection(S, T)
    BY <1>4 DEF Surjection
  <2> QED BY <1>4, <2>1, FS_Surjection
<1>5. IsFiniteSet(CaseEntrySet)
  <2> DEFINE f == [k \in 1..m |-> [name |-> cases[k].name, tags |-> cases[k].tags]]
  <2>1. f \in [1..m -> CaseEntrySet] /\ \A t \in CaseEntrySet : \E s \in 1..m : f[s] = t
    BY <1>2 DEF CaseEntrySet
  <2> HIDE DEF f
  <2> QED BY <1>3, <1>4, <2>1
<1>6. IsFiniteSet(RowEntrySet)
  <2> DEFINE f == [g \in 1..n |-> [prefix |-> gens[g].prefix, tags |-> gens[g].tags, cases |-> <<>>]]
  <2>1. f \in [1..n -> RowEntrySet] /\ \A t \in RowEntrySet : \E s \in 1..n : f[s] = t
    BY <1>2 DEF RowEntrySet
  <2> HIDE DEF f
  <2> QED BY <1>3, <1>4, <2>1
<1> DEFINE C == {[name |-> cases[k].name, row |-> FALSE, tags |-> cases[k].tags] : k \in 1..m}
           G == {[name |-> gens[g].prefix, row |-> TRUE, tags |-> gens[g].tags] : g \in 1..n}
<1>7. IsFiniteSet(C)
  <2> DEFINE f == [k \in 1..m |-> [name |-> cases[k].name, row |-> FALSE, tags |-> cases[k].tags]]
  <2>1. f \in [1..m -> C] /\ \A t \in C : \E s \in 1..m : f[s] = t
    OBVIOUS
  <2> HIDE DEF f, C
  <2> QED BY <1>3, <1>4, <2>1
<1>8. IsFiniteSet(G)
  <2> DEFINE f == [g \in 1..n |-> [name |-> gens[g].prefix, row |-> TRUE, tags |-> gens[g].tags]]
  <2>1. f \in [1..n -> G] /\ \A t \in G : \E s \in 1..n : f[s] = t
    OBVIOUS
  <2> HIDE DEF f, G
  <2> QED BY <1>3, <1>4, <2>1
<1>9. Records = C \union G
  BY <1>2 DEF Records
<1> HIDE DEF C, G
<1>10. IsFiniteSet(Records)
  BY <1>7, <1>8, <1>9, FS_Union
<1> QED BY <1>5, <1>6, <1>10

(* A record is that of a case or that of a row. *)
LEMMA RecordsAre ==
  ASSUME Walked, records \in SetToSeqs(Records)
  PROVE  /\ Range(records) = Records
         /\ \A i, j \in DOMAIN records : records[i] = records[j] => i = j
         /\ \A r \in RecordsOf(FALSE) : \E k \in DOMAIN cases : r.name = cases[k].name /\ r.tags = cases[k].tags
         /\ \A k \in DOMAIN cases : \E r \in RecordsOf(FALSE) : r.name = cases[k].name /\ r.tags = cases[k].tags
         /\ \A r \in RecordsOf(TRUE) : \E g \in DOMAIN gens : r.name = gens[g].prefix /\ r.tags = gens[g].tags
         /\ \A g \in DOMAIN gens : \E r \in RecordsOf(TRUE) : r.name = gens[g].prefix /\ r.tags = gens[g].tags
         /\ \A r \in Records : r.row \in BOOLEAN /\ r = [name |-> r.name, row |-> r.row, tags |-> r.tags]
<1>1. Range(records) = Records /\ \A i, j \in DOMAIN records : records[i] = records[j] => i = j
  BY EntriesFinite, InAnyOrder
<1>2. ASSUME NEW k \in DOMAIN cases
      PROVE  \E r \in RecordsOf(FALSE) : r.name = cases[k].name /\ r.tags = cases[k].tags
  <2> DEFINE r == [name |-> cases[k].name, row |-> FALSE, tags |-> cases[k].tags]
  <2>1. r \in Records
    BY DEF Records
  <2>2. r.row = FALSE /\ r.name = cases[k].name /\ r.tags = cases[k].tags
    OBVIOUS
  <2> HIDE DEF r
  <2> QED BY <1>1, <2>1, <2>2 DEF RecordsOf
<1>3. ASSUME NEW g \in DOMAIN gens
      PROVE  \E r \in RecordsOf(TRUE) : r.name = gens[g].prefix /\ r.tags = gens[g].tags
  <2> DEFINE r == [name |-> gens[g].prefix, row |-> TRUE, tags |-> gens[g].tags]
  <2>1. r \in Records
    BY DEF Records
  <2>2. r.row = TRUE /\ r.name = gens[g].prefix /\ r.tags = gens[g].tags
    OBVIOUS
  <2> HIDE DEF r
  <2> QED BY <1>1, <2>1, <2>2 DEF RecordsOf
<1>4. ASSUME NEW r \in Records
      PROVE  /\ r.row \in BOOLEAN /\ r = [name |-> r.name, row |-> r.row, tags |-> r.tags]
             /\ r.row = FALSE => \E k \in DOMAIN cases : r.name = cases[k].name /\ r.tags = cases[k].tags
             /\ r.row = TRUE => \E g \in DOMAIN gens : r.name = gens[g].prefix /\ r.tags = gens[g].tags
  <2>1. CASE \E k \in DOMAIN cases : r = [name |-> cases[k].name, row |-> FALSE, tags |-> cases[k].tags]
    BY <2>1
  <2>2. CASE \E g \in DOMAIN gens : r = [name |-> gens[g].prefix, row |-> TRUE, tags |-> gens[g].tags]
    BY <2>2
  <2> QED BY <2>1, <2>2 DEF Records
<1>5. \A row \in BOOLEAN : \A r \in RecordsOf(row) : r \in Records /\ r.row = row
  BY <1>1 DEF RecordsOf
<1> QED BY <1>1, <1>2, <1>3, <1>4, <1>5

(* The inventory has an entry for each declaration, and no other. *)
LEMMA InventoryEntries ==
  ASSUME Walked, records \in SetToSeqs(Records)
  PROVE  /\ Inventory.case \in Seq(CaseEntrySet) /\ Range(Inventory.case) = CaseEntrySet
         /\ \A i, j \in DOMAIN Inventory.case : Inventory.case[i] = Inventory.case[j] => i = j
         /\ Inventory.generated \in Seq(RowEntrySet) /\ Range(Inventory.generated) = RowEntrySet
         /\ \A i, j \in DOMAIN Inventory.generated : Inventory.generated[i] = Inventory.generated[j] => i = j
         /\ Inventory = [case |-> SetToSeq(CaseEntrySet), generated |-> SetToSeq(RowEntrySet)]
<1>1. CaseEntries = SetToSeq(CaseEntrySet)
  <2> DEFINE E == {[name |-> r.name, tags |-> r.tags] : r \in RecordsOf(FALSE)}
  <2>1. ASSUME NEW e \in E PROVE e \in CaseEntrySet
    <3>1. PICK r \in RecordsOf(FALSE) : e = [name |-> r.name, tags |-> r.tags]
      OBVIOUS
    <3>2. PICK k \in DOMAIN cases : r.name = cases[k].name /\ r.tags = cases[k].tags
      BY RecordsAre
    <3> QED BY <3>1, <3>2 DEF CaseEntrySet
  <2>2. ASSUME NEW e \in CaseEntrySet PROVE e \in E
    <3>1. PICK k \in DOMAIN cases : e = [name |-> cases[k].name, tags |-> cases[k].tags]
      BY DEF CaseEntrySet
    <3>2. PICK r \in RecordsOf(FALSE) : r.name = cases[k].name /\ r.tags = cases[k].tags
      BY RecordsAre
    <3> QED BY <3>1, <3>2
  <2>3. E = CaseEntrySet
    BY <2>1, <2>2
  <2> QED BY <2>3 DEF CaseEntries, InOrder
<1>2. RowEntries = SetToSeq(RowEntrySet)
  <2> DEFINE E == {[prefix |-> r.name, tags |-> r.tags, cases |-> <<>>] : r \in RecordsOf(TRUE)}
  <2>1. ASSUME NEW e \in E PROVE e \in RowEntrySet
    <3>1. PICK r \in RecordsOf(TRUE) : e = [prefix |-> r.name, tags |-> r.tags, cases |-> <<>>]
      OBVIOUS
    <3>2. PICK g \in DOMAIN gens : r.name = gens[g].prefix /\ r.tags = gens[g].tags
      BY RecordsAre
    <3> QED BY <3>1, <3>2 DEF RowEntrySet
  <2>2. ASSUME NEW e \in RowEntrySet PROVE e \in E
    <3>1. PICK g \in DOMAIN gens : e = [prefix |-> gens[g].prefix, tags |-> gens[g].tags, cases |-> <<>>]
      BY DEF RowEntrySet
    <3>2. PICK r \in RecordsOf(TRUE) : r.name = gens[g].prefix /\ r.tags = gens[g].tags
      BY RecordsAre
    <3> QED BY <3>1, <3>2
  <2>3. E = RowEntrySet
    BY <2>1, <2>2
  <2> QED BY <2>3 DEF RowEntries, InOrder
<1>3. Inventory = [case |-> SetToSeq(CaseEntrySet), generated |-> SetToSeq(RowEntrySet)]
  BY <1>1, <1>2 DEF Inventory
<1>4. IsFiniteSet(CaseEntrySet) /\ IsFiniteSet(RowEntrySet)
  BY EntriesFinite
<1>5. /\ Inventory.case \in Seq(CaseEntrySet) /\ Range(Inventory.case) = CaseEntrySet
      /\ \A i, j \in DOMAIN Inventory.case : Inventory.case[i] = Inventory.case[j] => i = j
  BY <1>3, <1>4, InSomeOrder
<1>6. /\ Inventory.generated \in Seq(RowEntrySet) /\ Range(Inventory.generated) = RowEntrySet
      /\ \A i, j \in DOMAIN Inventory.generated : Inventory.generated[i] = Inventory.generated[j] => i = j
  BY <1>3, <1>4, InSomeOrder
<1> QED BY <1>3, <1>5, <1>6

(* ... as the entries tell it. *)
LEMMA EntryOf ==
  ASSUME Walked, records \in SetToSeqs(Records)
  PROVE  /\ \A j \in DOMAIN Inventory.case : \E k \in DOMAIN cases :
              Inventory.case[j] = [name |-> cases[k].name, tags |-> cases[k].tags]
         /\ \A k \in DOMAIN cases : \E j \in DOMAIN Inventory.case :
              Inventory.case[j] = [name |-> cases[k].name, tags |-> cases[k].tags]
         /\ \A j \in DOMAIN Inventory.generated : \E g \in DOMAIN gens :
              Inventory.generated[j] = [prefix |-> gens[g].prefix, tags |-> gens[g].tags, cases |-> <<>>]
         /\ \A g \in DOMAIN gens : \E j \in DOMAIN Inventory.generated :
              Inventory.generated[j] = [prefix |-> gens[g].prefix, tags |-> gens[g].tags, cases |-> <<>>]
<1> DEFINE c == Inventory.case
           r == Inventory.generated
<1>1. Range(c) = CaseEntrySet /\ Range(r) = RowEntrySet
  BY InventoryEntries
<1> HIDE DEF c, r
<1>2. (\A j \in DOMAIN c : c[j] \in CaseEntrySet) /\ \A e \in CaseEntrySet : \E j \in DOMAIN c : c[j] = e
  BY <1>1 DEF Range
<1>3. (\A j \in DOMAIN r : r[j] \in RowEntrySet) /\ \A e \in RowEntrySet : \E j \in DOMAIN r : r[j] = e
  BY <1>1 DEF Range
<1>4. /\ \A j \in DOMAIN c : \E k \in DOMAIN cases : c[j] = [name |-> cases[k].name, tags |-> cases[k].tags]
      /\ \A k \in DOMAIN cases : \E j \in DOMAIN c : c[j] = [name |-> cases[k].name, tags |-> cases[k].tags]
  BY <1>2 DEF CaseEntrySet
<1>5. /\ \A j \in DOMAIN r : \E g \in DOMAIN gens :
           r[j] = [prefix |-> gens[g].prefix, tags |-> gens[g].tags, cases |-> <<>>]
      /\ \A g \in DOMAIN gens : \E j \in DOMAIN r :
           r[j] = [prefix |-> gens[g].prefix, tags |-> gens[g].tags, cases |-> <<>>]
  BY <1>3 DEF RowEntrySet
<1> QED BY <1>4, <1>5 DEF c, r

(* The marks of the inventory are those the macro paired. *)
LEMMA SameMarks ==
  ASSUME Walked, records \in SetToSeqs(Records)
  PROVE  UnpairedFeatures(Inventory) = UnpairedFeatures([case |-> cases, generated |-> gens])
<1> DEFINE c == Inventory.case
           r == Inventory.generated
           M == Marks(Inventory)
           N == Marks([case |-> cases, generated |-> gens])
<1>1. M = {c[k].tags : k \in DOMAIN c} \union {r[g].tags : g \in DOMAIN r}
  BY DEF Marks
<1>2. N = {cases[k].tags : k \in DOMAIN cases} \union {gens[g].tags : g \in DOMAIN gens}
  BY DEF Marks
<1>3. /\ \A j \in DOMAIN c : \E k \in DOMAIN cases : c[j].tags = cases[k].tags
      /\ \A k \in DOMAIN cases : \E j \in DOMAIN c : c[j].tags = cases[k].tags
  <2>1. /\ \A j \in DOMAIN c : \E k \in DOMAIN cases : c[j] = [name |-> cases[k].name, tags |-> cases[k].tags]
        /\ \A k \in DOMAIN cases : \E j \in DOMAIN c : c[j] = [name |-> cases[k].name, tags |-> cases[k].tags]
    BY EntryOf
  <2> HIDE DEF c
  <2> QED BY <2>1
<1>4. /\ \A j \in DOMAIN r : \E g \in DOMAIN gens : r[j].tags = gens[g].tags
      /\ \A g \in DOMAIN gens : \E j \in DOMAIN r : r[j].tags = gens[g].tags
  <2>1. /\ \A j \in DOMAIN r : \E g \in DOMAIN gens :
             r[j] = [prefix |-> gens[g].prefix, tags |-> gens[g].tags, cases |-> <<>>]
        /\ \A g \in DOMAIN gens : \E j \in DOMAIN r :
             r[j] = [prefix |-> gens[g].prefix, tags |-> gens[g].tags, cases |-> <<>>]
    BY EntryOf
  <2> HIDE DEF r
  <2> QED BY <2>1
<1> HIDE DEF c, r
<1>5. M = N
  <2> HIDE DEF M, N
  <2> QED BY <1>1, <1>2, <1>3, <1>4
<1>6. MarkSet(Inventory) = MarkSet([case |-> cases, generated |-> gens])
  BY <1>5 DEF MarkSet
<1> QED BY <1>6 DEF UnpairedFeatures

(* Lock accepts the inventory of a suite that the macro accepted. *)
LEMMA InventoryAccepted ==
  ASSUME Walked, Accepted, records \in SetToSeqs(Records)
  PROVE  InventoryParses /\ Validates(Inventory)
<1> DEFINE c == Inventory.case
           r == Inventory.generated
<1>1. /\ \A k \in DOMAIN cases : ValidName(cases[k].name)
      /\ \A j, k \in DOMAIN cases : cases[j].name = cases[k].name => j = k
      /\ \A g, h \in DOMAIN gens : gens[g].prefix = gens[h].prefix => g = h
      /\ \A g \in DOMAIN gens : \A k \in DOMAIN gens[g].prefix : gens[g].prefix[k] \in Labels
  BY DEF Accepted
<1>2. /\ \A k \in DOMAIN cases : TagsValid(cases[k].tags)
      /\ \A g \in DOMAIN gens : TagsValid(gens[g].tags) /\ gens[g].prefix # <<>>
  BY DEF Walked
<1>3. InventoryParses
  <2>1. /\ \A r_1 \in RecordsOf(FALSE) : \E k \in DOMAIN cases : r_1.name = cases[k].name /\ r_1.tags = cases[k].tags
        /\ \A r_1 \in RecordsOf(TRUE) : \E g \in DOMAIN gens : r_1.name = gens[g].prefix /\ r_1.tags = gens[g].tags
        /\ \A k \in DOMAIN records : records[k] \in Records /\ records[k] \in RecordsOf(records[k].row)
        /\ \A r_1 \in Records : r_1.row \in BOOLEAN /\ r_1 = [name |-> r_1.name, row |-> r_1.row, tags |-> r_1.tags]
    BY RecordsAre DEF Range, RecordsOf
  <2>2. records # <<>>
    <3>1. \E r_1 : r_1 \in Range(records)
      <4>1. cases # <<>> \/ gens # <<>>
        BY DEF Accepted
      <4>2. cases # <<>> => \E k : k \in DOMAIN cases
        BY DEF Walked
      <4>3. gens # <<>> => \E g : g \in DOMAIN gens
        BY DEF Walked
      <4>4. (\E r_1 : r_1 \in RecordsOf(FALSE)) \/ (\E r_1 : r_1 \in RecordsOf(TRUE))
        BY <4>1, <4>2, <4>3, RecordsAre
      <4> QED BY <4>4 DEF RecordsOf
    <3> QED BY <3>1 DEF Range
  <2>3. ASSUME NEW k \in DOMAIN records PROVE TagsValid(records[k].tags)
    BY <1>2, <2>1
  <2>4. ASSUME NEW j \in DOMAIN records, NEW k \in DOMAIN records,
               records[j].name = records[k].name, records[j].row = records[k].row
        PROVE  j = k
    <3> DEFINE a == records[j]
               b == records[k]
    <3>1. a \in Records /\ b \in Records /\ a \in RecordsOf(a.row) /\ b \in RecordsOf(a.row) /\ a.row \in BOOLEAN
      BY <2>1, <2>4
    <3>2. a.name = b.name /\ a.row = b.row
      BY <2>4
    <3> HIDE DEF a, b
    <3>3. a.tags = b.tags
      <4>1. CASE a.row = FALSE
        <5>1. PICK x \in DOMAIN cases : a.name = cases[x].name /\ a.tags = cases[x].tags
          BY <2>1, <3>1, <4>1
        <5>2. PICK y \in DOMAIN cases : b.name = cases[y].name /\ b.tags = cases[y].tags
          BY <2>1, <3>1, <4>1
        <5> QED BY <1>1, <3>2, <5>1, <5>2
      <4>2. CASE a.row = TRUE
        <5>1. PICK x \in DOMAIN gens : a.name = gens[x].prefix /\ a.tags = gens[x].tags
          BY <2>1, <3>1, <4>2
        <5>2. PICK y \in DOMAIN gens : b.name = gens[y].prefix /\ b.tags = gens[y].tags
          BY <2>1, <3>1, <4>2
        <5> QED BY <1>1, <3>2, <5>1, <5>2
      <4> QED BY <3>1, <4>1, <4>2
    <3>4. a = b
      BY <2>1, <3>1, <3>2, <3>3
    <3> QED BY <3>4, RecordsAre DEF a, b
  <2>5. ASSUME NEW r_1 \in RecordsOf(TRUE) PROVE \A k \in DOMAIN r_1.name : r_1.name[k] \in Labels
    BY <1>1, <2>1
  <2>6. ASSUME NEW r_1 \in RecordsOf(FALSE) PROVE ValidName(r_1.name)
    BY <1>1, <2>1
  <2> QED BY <2>2, <2>3, <2>4, <2>5, <2>6 DEF InventoryParses
<1>4. Validates(Inventory)
  <2>1. \A j \in DOMAIN c : \E k \in DOMAIN cases : c[j] = [name |-> cases[k].name, tags |-> cases[k].tags]
    BY EntryOf
  <2>2. \A j \in DOMAIN r : \E g \in DOMAIN gens :
             r[j] = [prefix |-> gens[g].prefix, tags |-> gens[g].tags, cases |-> <<>>]
    BY EntryOf
  <2>3. /\ \A i, j \in DOMAIN c : c[i] = c[j] => i = j
        /\ \A i, j \in DOMAIN r : r[i] = r[j] => i = j
    BY InventoryEntries
  <2>4. UnpairedFeatures(Inventory) = {}
    BY SameMarks DEF Accepted, Paired
  <2> HIDE DEF c, r
  <2>5. ASSUME NEW i \in DOMAIN c, NEW j \in DOMAIN c, c[i].name = c[j].name PROVE i = j
    <3>1. PICK x \in DOMAIN cases : c[i] = [name |-> cases[x].name, tags |-> cases[x].tags]
      BY <2>1
    <3>2. PICK y \in DOMAIN cases : c[j] = [name |-> cases[y].name, tags |-> cases[y].tags]
      BY <2>1
    <3>3. x = y
      BY <1>1, <2>5, <3>1, <3>2
    <3> QED BY <2>3, <3>1, <3>2, <3>3
  <2>6. ASSUME NEW i \in DOMAIN r, NEW j \in DOMAIN r, r[i].prefix = r[j].prefix PROVE i = j
    <3>1. PICK x \in DOMAIN gens : r[i] = [prefix |-> gens[x].prefix, tags |-> gens[x].tags, cases |-> <<>>]
      BY <2>2
    <3>2. PICK y \in DOMAIN gens : r[j] = [prefix |-> gens[y].prefix, tags |-> gens[y].tags, cases |-> <<>>]
      BY <2>2
    <3>3. x = y
      BY <1>1, <2>6, <3>1, <3>2
    <3> QED BY <2>3, <3>1, <3>2, <3>3
  <2>7. ASSUME NEW i \in DOMAIN c PROVE TagsValid(c[i].tags)
    BY <1>2, <2>1
  <2>8. ASSUME NEW i \in DOMAIN r PROVE RowValid(r[i])
    <3>1. PICK g \in DOMAIN gens : r[i] = [prefix |-> gens[g].prefix, tags |-> gens[g].tags, cases |-> <<>>]
      BY <2>2
    <3>2. r[i].prefix = gens[g].prefix /\ r[i].tags = gens[g].tags /\ r[i].cases = <<>>
      BY <3>1
    <3> QED BY <1>1, <1>2, <3>2 DEF RowValid
  <2> QED BY <2>4, <2>5, <2>6, <2>7, <2>8 DEF Validates, c, r
<1> QED BY <1>3, <1>4

-----------------------------------------------------------------------------
(* The invariant holds in every state. *)

LEMMA InvFirst ==
  Init => LockInv
<1> SUFFICES ASSUME Init PROVE LockInv
  OBVIOUS
<1>1. Walked
  BY WalkedFirst
<1>2. mode = "walking" /\ registry = <<>> /\ built = 0 /\ builds = 1 /\ listed = 0
      /\ listing = {} /\ committed = {} /\ told = "none" /\ leaves = FALSE
  BY DEF Init, MacroInit, RegistryInit
<1>3. Expanded /\ Linked /\ Panics
  BY <1>2 DEF Expanded, Linked, Panics, Built
<1>4. RegistryValid
  BY <1>2 DEF RegistryValid
<1>5. Files
  <2>1. MaxBuilds \in Nat \ {0}
    BY BuildsAssumption
  <2>2. builds \in 1..MaxBuilds /\ listed \in 0..builds
    BY <1>2, <2>1
  <2> QED BY <1>2, <2>2 DEF Files
<1> QED BY <1>1, <1>3, <1>4, <1>5 DEF LockInv

(* What is registered next is made of the walk, which registering leaves. *)
LEMMA SameRegistrations ==
  ASSUME UNCHANGED walk
  PROVE  /\ Registrations' = Registrations /\ Records' = Records /\ (Accepted <=> Accepted')
         /\ (\E g \in DOMAIN gens : ~YieldsSound(gens[g])) => (\E g \in DOMAIN gens : ~YieldsSound(gens[g]))'
<1>1. cases' = cases /\ gens' = gens
  BY DEF walk
<1>2. Registrations' = Registrations
  BY <1>1 DEF Registrations, LeafNames
<1>3. Records' = Records
  BY <1>1 DEF Records
<1>4. Accepted <=> Accepted'
  BY <1>1 DEF Accepted, CasesApart, RowsApart, Paired
<1> QED BY <1>1, <1>2, <1>3, <1>4

LEMMA InvMacro ==
  ASSUME LockInv, MacroNext, UNCHANGED <<artifact, files, builds, told, leaves>>
  PROVE  LockInv'
<1>1. mode = "walking" /\ (mode' = mode \/ mode' = "refused" \/ mode' = "expanded")
  BY DEF MacroNext, Refuse, EnterModule, LeaveModule, TakeFn, Validate, At
<1>2. Walked'
  BY WalkedMacro DEF LockInv
<1>3. mode' = "expanded" => UNCHANGED walk /\ Accepted
  BY <1>1 DEF MacroNext, Refuse, EnterModule, LeaveModule, TakeFn, Validate, At
<1>4. Expanded'
  BY <1>1, <1>3, SameRegistrations DEF Expanded
<1>5. Linked' /\ Panics'
  BY <1>1 DEF Linked, Panics, Built
<1>6. RegistryValid'
  BY DEF LockInv, RegistryValid, artifact
<1>7. told = "none"
  BY <1>1 DEF LockInv, Files, Built
<1>8. Files'
  BY <1>7 DEF LockInv, Files, files
<1> QED BY <1>2, <1>4, <1>5, <1>6, <1>8 DEF LockInv

LEMMA InvRegister ==
  ASSUME LockInv, Register
  PROVE  Linked' /\ Panics' /\ RegistryValid'
<1> DEFINE new == Registrations[built + 1]
           N == Len(Registrations)
<1>1. /\ mode = "registering" /\ built < N /\ UNCHANGED <<walk, records>>
      /\ IF new.names = {} \/ new.names \subseteq Registered
         THEN mode' = "panicked" /\ UNCHANGED <<built, registry>>
         ELSE /\ registry' \in {Append(registry, [name |-> n, tags |-> new.tags]) : n \in new.names}
              /\ built' = built + 1
              /\ UNCHANGED mode
  BY DEF Register
<1>2. Registrations' = Registrations /\ Records' = Records
  BY <1>1, SameRegistrations
<1>3. Walked /\ Accepted
  BY <1>1 DEF LockInv, Expanded
<1>4. N \in Nat
  BY <1>3, Decoded
<1>5. /\ records \in SetToSeqs(Records) /\ built = Len(registry) /\ registry \in Seq(CaseDef)
      /\ \A k \in DOMAIN registry : /\ Registrations[k].names = {registry[k].name}
                                    /\ Registrations[k].tags = registry[k].tags
                                    /\ ValidName(registry[k].name) /\ TagsValid(registry[k].tags)
  BY <1>1 DEF LockInv, Linked, Built, RegistryValid
<1>6. built \in Nat /\ built + 1 \in 1..N /\ DOMAIN registry = 1..built
  BY <1>1, <1>4, <1>5
<1>7. /\ new.tags \in Seq(Tag) /\ TagsValid(new.tags)
      /\ new.names = {} => \E g \in DOMAIN gens : ~YieldsSound(gens[g])
      /\ new.names # {} => \E n \in Name : new.names = {n} /\ ValidName(n)
  BY <1>3, <1>6, Named
<1>8. CASE new.names = {} \/ new.names \subseteq Registered
  <2>1. mode' = "panicked" /\ UNCHANGED <<built, registry>>
    BY <1>1, <1>8
  <2>2. ASSUME new.names # {}, new.names \subseteq Registered
        PROVE  \E g \in DOMAIN gens : ~YieldsSound(gens[g])
    <3>1. PICK n \in Name : new.names = {n}
      BY <1>7, <2>2
    <3>2. PICK k \in DOMAIN registry : n = registry[k].name
      BY <2>2, <3>1 DEF Registered
    <3>3. n \in Registrations[k].names /\ n \in Registrations[built + 1].names
      BY <1>5, <3>1, <3>2
    <3>4. k \in 1..N /\ k # built + 1
      BY <1>4, <1>6, <3>2
    <3> QED BY <1>3, <1>6, <3>3, <3>4, Distinct
  <2>3. \E g \in DOMAIN gens : ~YieldsSound(gens[g])
    BY <1>7, <1>8, <2>2
  <2>4. Panics'
    BY <1>1, <2>3, SameRegistrations DEF Panics
  <2>5. Linked'
    BY <1>1, <1>2, <2>1, <1>5 DEF Linked, LockInv, Built
  <2>6. RegistryValid'
    BY <2>1 DEF RegistryValid, LockInv
  <2> QED BY <2>4, <2>5, <2>6
<1>9. CASE ~(new.names = {} \/ new.names \subseteq Registered)
  <2>1. PICK n \in new.names : registry' = Append(registry, [name |-> n, tags |-> new.tags])
    BY <1>1, <1>9
  <2>2. n \in Name /\ new.names = {n} /\ ValidName(n)
    BY <1>7, <1>9
  <2>3. built' = built + 1 /\ mode' = mode
    BY <1>1, <1>9
  <2> DEFINE e == [name |-> n, tags |-> new.tags]
  <2>4. e \in CaseDef /\ e.name = n /\ e.tags = new.tags
    BY <1>7, <2>2 DEF CaseDef
  <2> DEFINE b == built + 1
             t == new.tags
  <2>5. /\ Registrations[b].names = {n} /\ Registrations[b].tags = t /\ TagsValid(t)
    BY <1>7, <2>2
  <2> HIDE DEF e, new
  <2>6. registry' \in Seq(CaseDef) /\ Len(registry') = built + 1
    BY <1>5, <1>6, <2>1, <2>4 DEF e
  <2>7. registry'[built + 1] = e /\ \A k \in 1..built : registry'[k] = registry[k]
    BY <1>5, <1>6, <2>1, <2>4 DEF e
  <2>8. DOMAIN registry' = 1..(built + 1) /\ \A k \in 1..(built + 1) : k = built + 1 \/ k \in 1..built
    BY <1>6, <2>6
  <2>9. \A k \in DOMAIN registry' : /\ Registrations[k].names = {registry'[k].name}
                                    /\ Registrations[k].tags = registry'[k].tags
                                    /\ ValidName(registry'[k].name) /\ TagsValid(registry'[k].tags)
    BY <1>5, <1>6, <2>2, <2>4, <2>5, <2>7, <2>8
  <2>10. Linked'
    <3>1. built' = Len(registry') /\ built' <= Len(Registrations)
      BY <1>1, <1>4, <1>6, <2>3, <2>6
    <3> QED BY <1>1, <1>2, <1>5, <2>9, <3>1 DEF Linked
  <2>11. RegistryValid'
    BY <2>6, <2>9 DEF RegistryValid
  <2>12. Panics'
    BY <1>1, <2>3 DEF Panics
  <2> QED BY <2>10, <2>11, <2>12
<1> QED BY <1>8, <1>9

LEMMA InvRegistry ==
  ASSUME LockInv, RegistryNext, UNCHANGED <<files, builds, told, leaves>>
  PROVE  LockInv'
<1>1. /\ UNCHANGED walk /\ mode \in {"expanded", "registering"}
      /\ mode' = mode \/ mode' \in {"registering", "ready", "panicked"}
  BY DEF RegistryNext, Compile, Register, GetOrInit
<1>2. Walked'
  BY <1>1, WalkedKept DEF LockInv, Next
<1>3. Expanded'
  BY <1>1, SameRegistrations DEF LockInv, Expanded
<1>4. Files'
  <2>1. told # "none" => Built
    BY DEF LockInv, Files
  <2>2. told # "none" => Built'
    BY <1>1, <2>1 DEF Built
  <2> QED BY <2>2 DEF LockInv, Files, files
<1>5. CASE Compile
  <2>1. /\ mode' = "registering" /\ records' \in SetToSeqs(Records) /\ built' = 0 /\ registry' = <<>>
    BY <1>5 DEF Compile
  <2>2. Records' = Records /\ Registrations' = Registrations
    BY <1>1, SameRegistrations
  <2>3. Len(Registrations) \in Nat
    BY Decoded DEF LockInv
  <2>4. Linked'
    BY <2>1, <2>2, <2>3 DEF Linked
  <2>5. RegistryValid' /\ Panics'
    BY <2>1 DEF RegistryValid, Panics
  <2> QED BY <1>2, <1>3, <1>4, <2>4, <2>5 DEF LockInv
<1>6. CASE Register
  BY <1>2, <1>3, <1>4, <1>6, InvRegister DEF LockInv
<1>7. CASE GetOrInit
  <2>1. mode = "registering" /\ mode' = "ready" /\ UNCHANGED <<walk, artifact>>
    BY <1>7 DEF GetOrInit
  <2>2. Records' = Records /\ Registrations' = Registrations
    BY <1>1, SameRegistrations
  <2>3. Linked'
    BY <2>1, <2>2 DEF Linked, LockInv, Built, artifact
  <2>4. RegistryValid' /\ Panics'
    BY <2>1 DEF RegistryValid, Panics, LockInv, artifact
  <2> QED BY <1>2, <1>3, <1>4, <2>3, <2>4 DEF LockInv
<1> QED BY <1>5, <1>6, <1>7 DEF RegistryNext

LEMMA InvCommands ==
  ASSUME LockInv, EnumerateSuite \/ Lock \/ Check
  PROVE  LockInv'
<1>1. UNCHANGED <<walk, mode, artifact, builds>> /\ Built
  BY DEF EnumerateSuite, Lock, Check, Built
<1>2. Walked'
  BY WalkedKept DEF LockInv, Next
<1>3. Expanded' /\ Panics'
  BY <1>1, SameRegistrations DEF LockInv, Expanded, Panics
<1>4. Linked'
  <2>1. Records' = Records /\ Registrations' = Registrations
    BY <1>1, SameRegistrations
  <2> QED BY <1>1, <2>1 DEF LockInv, Linked, Built, artifact
<1>5. RegistryValid'
  BY <1>1 DEF LockInv, RegistryValid, artifact
<1>6. InventoryParses /\ Validates(Inventory)
  <2>1. Walked /\ Accepted /\ records \in SetToSeqs(Records)
    BY <1>1 DEF LockInv, Linked, Expanded, Built
  <2> QED BY <2>1, InventoryAccepted
<1>7. Lockable(LockOf(FALSE), FALSE)
  BY <1>6 DEF Lockable, LockOf
<1>8. /\ builds \in 1..MaxBuilds /\ listed \in 0..builds /\ Built'
      /\ listing = {} \/ \E names : listing = {names}
      /\ committed = {} \/ \E lf : committed = {lf}
      /\ \A lf \in committed : Validates(lf)
  BY <1>1 DEF LockInv, Files, Built
<1>9. CASE EnumerateSuite
  <2>1. /\ listing' = {[k \in DOMAIN registry |-> registry[k].name]} /\ listed' = builds
        /\ told' = "none" /\ UNCHANGED <<committed, builds, leaves>>
    BY <1>9 DEF EnumerateSuite
  <2>2. builds \in 0..builds /\ leaves \in BOOLEAN
    BY <1>8, BuildsAssumption DEF LockInv, Files
  <2>3. Files'
    BY <1>8, <2>1, <2>2 DEF Files
  <2> QED BY <1>2, <1>3, <1>4, <1>5, <2>3 DEF LockInv
<1>10. CASE Lock
  <2>1. PICK given \in BOOLEAN :
          /\ leaves' = given
          /\ IF Lockable(LockOf(given), given)
             THEN told' = "wrote" /\ committed' = {LockOf(given)}
             ELSE told' = "refused" /\ UNCHANGED committed
          /\ UNCHANGED <<listing, listed, builds>>
    BY <1>10 DEF Lock
  <2>2. \A lf \in committed' : Validates(lf)
    BY <1>8, <2>1 DEF Lockable
  <2>3. Files'
    BY <1>7, <1>8, <2>1, <2>2 DEF Files
  <2> QED BY <1>2, <1>3, <1>4, <1>5, <2>3 DEF LockInv
<1>11. CASE Check
  <2>1. PICK given \in BOOLEAN, existing \in committed :
          /\ leaves' = given
          /\ told' = IF ~Lockable(LockOf(given), given) \/ ~Validates(existing) THEN "refused"
                     ELSE IF /\ existing.case = Inventory.case
                             /\ RowsMatch(existing, LockOf(given), given)
                          THEN "quiet" ELSE "drift"
    BY <1>11 DEF Check
  <2>2. told' = "refused" => given
    BY <1>7, <1>8, <2>1
  <2>3. UNCHANGED <<files, builds>>
    BY <1>11 DEF Check
  <2>4. Files'
    BY <1>8, <2>1, <2>2, <2>3 DEF Files, files
  <2> QED BY <1>2, <1>3, <1>4, <1>5, <2>4 DEF LockInv
<1> QED BY <1>9, <1>10, <1>11

LEMMA InvEdit ==
  ASSUME LockInv, Edit
  PROVE  LockInv'
<1>1. /\ mode' = "walking" /\ builds < MaxBuilds /\ builds' = builds + 1 /\ told' = "none"
      /\ UNCHANGED <<artifact, files, leaves>>
  BY DEF Edit, Written
<1>2. Walked'
  BY WalkedEdit
<1>3. Expanded' /\ Linked' /\ Panics'
  BY <1>1 DEF Expanded, Linked, Panics, Built
<1>4. RegistryValid'
  BY <1>1 DEF LockInv, RegistryValid, artifact
<1>5. builds + 1 \in 1..MaxBuilds /\ listed \in 0..(builds + 1)
  BY <1>1, BuildsAssumption DEF LockInv, Files
<1>6. Files'
  BY <1>1, <1>5 DEF LockInv, Files, files
<1> QED BY <1>2, <1>3, <1>4, <1>6 DEF LockInv

LEMMA InvStutter ==
  ASSUME LockInv, UNCHANGED vars
  PROVE  LockInv'
<1>1. UNCHANGED <<walk, mode, artifact, files, builds, told, leaves>>
  BY DEF vars
<1>2. Walked'
  BY WalkedKept DEF LockInv
<1>3. Expanded' /\ Panics'
  BY <1>1, SameRegistrations DEF LockInv, Expanded, Panics
<1>4. Linked'
  <2>1. Records' = Records /\ Registrations' = Registrations
    BY <1>1, SameRegistrations
  <2> QED BY <1>1, <2>1 DEF LockInv, Linked, Built, artifact
<1>5. RegistryValid' /\ Files'
  BY <1>1 DEF LockInv, RegistryValid, Files, Built, artifact, files
<1> QED BY <1>2, <1>3, <1>4, <1>5 DEF LockInv

(* What the walk collected, the registry holds and the files say fits together
   in every state, for every grammar, every source and any number of builds. *)
THEOREM LockInvariant ==
  Spec => []LockInv
<1>1. LockInv /\ [Next]_vars => LockInv'
  BY InvMacro, InvRegistry, InvCommands, InvEdit, InvStutter DEF Next
<1> QED BY <1>1, InvFirst, PTL DEF Spec

-----------------------------------------------------------------------------
(* What follows from it. *)

LEMMA InvTyped ==
  LockInv => TypeOK
<1> SUFFICES ASSUME LockInv PROVE TypeOK
  OBVIOUS
<1>1. /\ Walked /\ source \in Sources \union Revisions /\ pos \in 0..Len(source.items)
      /\ mode \in {"walking", "expanded", "refused", "registering", "ready", "panicked"}
  BY DEF LockInv, Walked
<1>2. Len(stack) \in 1..(Len(source.items) + 1)
  <2>1. Len(source.items) \in Nat /\ pos \in Nat
    <3>1. Len(source.items) \in Nat
      BY <1>1, SuiteTyped
    <3> QED BY <1>1, <3>1
  <2> DEFINE M == OfKind("mod", pos)
             E == OfKind("end", pos)
  <2>2. Cardinality(E) \in Nat
    BY <2>1, OneMore
  <2>3. Cardinality(M) \in Nat
    BY <2>1, OneMore
  <2>4. Cardinality(M) <= pos
    <3>1. M \in SUBSET (1..pos)
      BY DEF OfKind
    <3> HIDE DEF M
    <3>2. IsFiniteSet(1..pos)
      BY <2>1, FS_Interval
    <3>3. Cardinality(M) <= Cardinality(1..pos)
      BY <3>1, <3>2, FS_Subset
    <3>4. Cardinality(1..pos) = pos
      BY <2>1, FS_Interval
    <3> QED BY <3>3, <3>4
  <2>5. Len(stack) + Cardinality(E) = 1 + Cardinality(M)
    BY <1>1 DEF Walked
  <2> HIDE DEF M, E
  <2>6. Len(stack) \in Nat /\ Len(stack) >= 1
    BY <1>1, HereTyped
  <2> QED BY <1>1, <2>1, <2>2, <2>3, <2>4, <2>5, <2>6
<1>3. \A k \in DOMAIN cases : TagsValid(cases[k].tags) /\ Range(cases[k].tags) \subseteq Tag
  <2> SUFFICES ASSUME NEW k \in DOMAIN cases
               PROVE  TagsValid(cases[k].tags) /\ Range(cases[k].tags) \subseteq Tag
    OBVIOUS
  <2>1. cases[k] \in CaseDef /\ TagsValid(cases[k].tags)
    BY <1>1 DEF Walked
  <2>2. cases[k].tags \in Seq(Tag)
    BY <2>1 DEF CaseDef
  <2> DEFINE t == cases[k].tags
  <2>3. Range(t) \subseteq Tag
    <3>1. t \in Seq(Tag)
      BY <2>2
    <3> HIDE DEF t
    <3> QED BY <3>1 DEF Range
  <2> QED BY <2>1, <2>3
<1>4. \A k \in DOMAIN registry : ValidName(registry[k].name) /\ TagsValid(registry[k].tags)
  BY DEF LockInv, RegistryValid
<1>5. /\ builds \in 1..MaxBuilds /\ listed \in 0..builds
      /\ told \in {"none", "wrote", "quiet", "drift", "refused"} /\ leaves \in BOOLEAN
      /\ \A lf \in committed : Validates(lf)
  BY DEF LockInv, Files
<1>6. Cardinality(listing) <= 1 /\ Cardinality(committed) <= 1
  <2>1. Cardinality({}) = 0
    BY FS_EmptySet
  <2>2. ASSUME NEW S, NEW x, S = {x} PROVE Cardinality(S) = 1
    BY <2>2, FS_Singleton
  <2>3. ASSUME NEW S, S = {} \/ \E x : S = {x} PROVE Cardinality(S) <= 1
    <3>1. Cardinality(S) = 0 \/ Cardinality(S) = 1
      BY <2>1, <2>2, <2>3
    <3> QED BY <3>1
  <2>4. listing = {} \/ \E x : listing = {x}
    BY DEF LockInv, Files
  <2>5. committed = {} \/ \E x : committed = {x}
    BY DEF LockInv, Files
  <2> QED BY <2>3, <2>4, <2>5
<1> QED BY <1>1, <1>2, <1>3, <1>4, <1>5, <1>6 DEF TypeOK

(* TypeOK: registered names are valid, every list of marks that was merged out
   of nested modules has a feature once, and the committed lockfile is one that
   a runner loads. *)
THEOREM TypeCorrect ==
  Spec => []TypeOK
BY LockInvariant, InvTyped, PTL

LEMMA InvRuns ==
  LockInv => AcceptedSuiteRuns
BY DEF LockInv, Panics, Files, AcceptedSuiteRuns

(* AcceptedSuiteRuns: the macro's checks on prefixes and names are enough that
   no two declarations of an accepted suite ever register one name, so that a
   suite panics at its first run only on what a generator yields by itself; and
   its inventory is never refused. *)
THEOREM AcceptedSuiteRunsCorrect ==
  Spec => []AcceptedSuiteRuns
BY LockInvariant, InvRuns, PTL

(* The marks that the inventory finds for a registered name. *)
LEMMA InvAgrees ==
  LockInv => TagsAgree
<1> SUFFICES ASSUME LockInv, Built, NEW k \in DOMAIN registry
             PROVE  LET name  == registry[k].name
                        exact == {e \in Range(Inventory.case) : e.name = name}
                        rows  == PrefixOf(Inventory, name)
                    IN IF exact # {} THEN \A e \in exact : e.tags = registry[k].tags
                       ELSE rows # {} /\ \A g \in rows : Inventory.generated[g].tags = registry[k].tags
  BY DEF TagsAgree
<1>1. Walked /\ Accepted /\ records \in SetToSeqs(Records)
  BY DEF LockInv, Expanded, Linked, Built
<1>2. /\ built = Len(registry) /\ built <= Len(Registrations) /\ registry \in Seq(CaseDef)
      /\ Registrations[k].names = {registry[k].name} /\ Registrations[k].tags = registry[k].tags
  BY DEF LockInv, Linked, RegistryValid
<1>3. k \in 1..Len(Registrations)
  <2>1. Len(Registrations) \in Nat /\ Len(registry) \in Nat /\ k \in 1..Len(registry)
    BY <1>1, <1>2, Decoded
  <2> QED BY <1>2, <2>1
<1> DEFINE name == registry[k].name
           tags == registry[k].tags
           c == Inventory.case
           r == Inventory.generated
           exact == {e \in Range(c) : e.name = name}
<1>4. /\ name \in Name
  <2>1. registry[k] \in CaseDef
    BY <1>2
  <2> QED BY <2>1 DEF CaseDef
<1>5. /\ \A j \in DOMAIN c : \E i \in DOMAIN cases : c[j] = [name |-> cases[i].name, tags |-> cases[i].tags]
      /\ \A i \in DOMAIN cases : \E j \in DOMAIN c : c[j] = [name |-> cases[i].name, tags |-> cases[i].tags]
  BY <1>1, EntryOf
<1>6. /\ \A j \in DOMAIN r : \E g \in DOMAIN gens :
           r[j] = [prefix |-> gens[g].prefix, tags |-> gens[g].tags, cases |-> <<>>]
      /\ \A g \in DOMAIN gens : \E j \in DOMAIN r :
           r[j] = [prefix |-> gens[g].prefix, tags |-> gens[g].tags, cases |-> <<>>]
  BY <1>1, EntryOf
<1>7. (\E i : OfCase(k, i)) \/ \E g, j : OfLeaf(k, g, j)
  BY <1>1, <1>3, Decoded
<1>8. PrefixOf(Inventory, name) =
        {g \in {h \in DOMAIN r : IsUnder(name, r[h].prefix)} :
           \A h \in {h \in DOMAIN r : IsUnder(name, r[h].prefix)} : Len(r[h].prefix) <= Len(r[g].prefix)}
  BY DEF PrefixOf
<1>9. Registrations[k].names = {name} /\ Registrations[k].tags = tags
  BY <1>2
<1> HIDE DEF c, r, name, tags
<1>10. ASSUME NEW i, OfCase(k, i)
       PROVE  exact # {} /\ \A e \in exact : e.tags = tags
  <2>1. i \in DOMAIN cases /\ cases[i].name = name /\ cases[i].tags = tags
    BY <1>9, <1>10 DEF OfCase
  <2>2. exact # {}
    BY <1>5, <2>1 DEF Range
  <2>3. ASSUME NEW e \in exact PROVE e.tags = tags
    <3>1. PICK j \in DOMAIN c : e = c[j] /\ e.name = name
      BY DEF Range
    <3>2. PICK x \in DOMAIN cases : c[j] = [name |-> cases[x].name, tags |-> cases[x].tags]
      BY <1>5, <3>1
    <3>3. x = i
      BY <1>1, <2>1, <3>1, <3>2 DEF Accepted
    <3> QED BY <2>1, <3>1, <3>2, <3>3
  <2> QED BY <2>2, <2>3
<1>11. ASSUME NEW g, NEW j, OfLeaf(k, g, j)
       PROVE  /\ exact = {} /\ PrefixOf(Inventory, name) # {}
              /\ \A h \in PrefixOf(Inventory, name) : r[h].tags = tags
  <2>1. /\ g \in DOMAIN gens /\ j \in DOMAIN gens[g].cases /\ gens[g].tags = tags
        /\ LeafNames(gens[g], gens[g].cases[j]) = {name}
    BY <1>9, <1>11 DEF OfLeaf
  <2>2. gens[g] \in GenDef
    BY <1>1, <2>1 DEF Walked
  <2>3. gens[g].cases \in Seq(Seq(Seq(STRING)))
    BY <2>2 DEF GenDef
  <2>4. gens[g].cases[j] \in Seq(Seq(STRING))
    BY <2>1, <2>3
  <2>5. IsUnder(name, gens[g].prefix)
    BY <2>1, <2>2, <2>4, LeafNamed
  <2>6. exact = {}
    <3> SUFFICES ASSUME NEW e \in exact PROVE FALSE
      OBVIOUS
    <3>1. PICK x \in DOMAIN c : e = c[x] /\ e.name = name
      BY DEF Range
    <3>2. PICK y \in DOMAIN cases : c[x] = [name |-> cases[y].name, tags |-> cases[y].tags]
      BY <1>5, <3>1
    <3> QED BY <1>1, <2>1, <2>5, <3>1, <3>2 DEF Accepted, CasesApart
  <2> DEFINE above == {h \in DOMAIN r : IsUnder(name, r[h].prefix)}
             entry == [prefix |-> gens[g].prefix, tags |-> gens[g].tags, cases |-> <<>>]
  <2>7. \A h \in above : r[h] = entry
    <3> SUFFICES ASSUME NEW h \in above PROVE r[h] = entry
      OBVIOUS
    <3>1. PICK x \in DOMAIN gens : r[h] = [prefix |-> gens[x].prefix, tags |-> gens[x].tags, cases |-> <<>>]
      BY <1>6
    <3>2. IsUnder(name, gens[x].prefix)
      BY <3>1
    <3>3. x = g
      BY <1>1, <1>4, <2>1, <2>5, <3>2, LeavesApart
    <3> QED BY <3>1, <3>3
  <2>8. \E h \in above : r[h] = entry
    BY <1>6, <2>1, <2>5
  <2>9. entry.tags = tags /\ entry.prefix = gens[g].prefix
    BY <2>1
  <2>10. Len(gens[g].prefix) <= Len(gens[g].prefix)
    <3>1. gens[g].prefix \in Seq(Segment)
      BY <2>2 DEF GenDef, Name
    <3> QED BY <3>1
  <2> HIDE DEF entry
  <2>11. PrefixOf(Inventory, name) = {x \in above : \A h \in above : Len(r[h].prefix) <= Len(r[x].prefix)}
    BY <1>8
  <2> HIDE DEF above
  <2>12. PrefixOf(Inventory, name) = above
    BY <2>7, <2>9, <2>10, <2>11
  <2> QED BY <2>6, <2>7, <2>8, <2>9, <2>12
<1>12. /\ exact # {} => \A e \in exact : e.tags = tags
       /\ exact = {} => /\ PrefixOf(Inventory, name) # {}
                        /\ \A h \in PrefixOf(Inventory, name) : r[h].tags = tags
  BY <1>7, <1>10, <1>11
<1> QED BY <1>12 DEF name, tags, c, r

(* TagsAgree: merged out of the same nested modules, the marks in the artifact's
   records and those the registry was built with are the same, and no row
   shadows another: a runner that decides by the inventory whether a case
   applies decides as the case was marked. *)
THEOREM TagsAgreeCorrect ==
  Spec => []TagsAgree
BY LockInvariant, InvAgrees, PTL

-----------------------------------------------------------------------------
(* The walk as a function of the source.  What a lockfile was written from is
   compared with what is built now, in between other sources may have been
   walked: the same source is walked to the same declarations. *)

\* What an item that is not refused makes of what was collected before it.
AfterItem(item, w) ==
  LET here == w.stack[Len(w.stack)]
      tags == MergeScope(here.scope, item.tags)
      leaf == IF item.name = <<>> THEN <<IdentToSegment(item.ident)>> ELSE item.name
  IN [stack |-> IF item.kind = "mod"
                THEN Append(w.stack, [prefix |-> Append(here.prefix, IdentToSegment(item.ident)),
                                      scope  |-> tags])
                ELSE IF item.kind = "end" THEN SubSeq(w.stack, 1, Len(w.stack) - 1)
                ELSE w.stack,
      cases |-> IF item.kind = "fn" /\ item.attr = "case"
                THEN Append(w.cases, [name |-> here.prefix \o leaf, tags |-> tags])
                ELSE w.cases,
      gens |-> IF item.kind = "fn" /\ item.attr \in {"generator", "row"}
               THEN Append(w.gens, [prefix |-> here.prefix \o item.name, tags |-> tags,
                                    cases |-> item.leaves, row |-> item.attr = "row"])
               ELSE w.gens]

Trodden == [stack |-> stack, cases |-> cases, gens |-> gens]

\* W tells what was collected after each of the first n items.
IsWalk(s, n, W) ==
  /\ W[0] = [stack |-> Opened(s), cases |-> <<>>, gens |-> <<>>]
  /\ \A k \in 1..n : W[k] = AfterItem(s.items[k], W[k - 1])

Determined ==
  /\ \E W : IsWalk(source, pos, W) /\ W[pos] = Trodden
  /\ Built \/ mode = "expanded" => pos = Len(source.items)

LEMMA SameWalk ==
  ASSUME NEW s, NEW n \in Nat, NEW V, NEW W, IsWalk(s, n, V), IsWalk(s, n, W)
  PROVE  V[n] = W[n]
<1> DEFINE P == {k \in 0..n : V[k] = W[k]}
<1>1. 0 \in P
  BY DEF IsWalk
<1>2. ASSUME NEW k \in 1..n, k - 1 \in P
      PROVE  k \in P
  <2>1. V[k] = AfterItem(s.items[k], V[k - 1]) /\ W[k] = AfterItem(s.items[k], W[k - 1])
    BY DEF IsWalk
  <2>2. V[k - 1] = W[k - 1] /\ k \in 0..n
    BY <1>2
  <2> QED BY <2>1, <2>2
<1>3. n \in P
  <2> HIDE DEF P
  <2>1. \A k \in 0..n : k \in P
    BY <1>1, <1>2, UpTo
  <2> QED BY <2>1
<1> QED BY <1>3

LEMMA LongerWalk ==
  ASSUME NEW s, NEW n \in Nat, NEW W, IsWalk(s, n, W)
  PROVE  \E V : IsWalk(s, n + 1, V) /\ V[n + 1] = AfterItem(s.items[n + 1], W[n])
<1> DEFINE V == [k \in 0..(n + 1) |-> IF k = n + 1 THEN AfterItem(s.items[n + 1], W[n]) ELSE W[k]]
<1>1. V[n + 1] = AfterItem(s.items[n + 1], W[n])
  OBVIOUS
<1>2. \A k \in 0..n : V[k] = W[k]
  OBVIOUS
<1> HIDE DEF V
<1>3. V[0] = W[0]
  BY <1>2
<1>4. ASSUME NEW k \in 1..(n + 1) PROVE V[k] = AfterItem(s.items[k], V[k - 1])
  <2>1. k - 1 \in 0..n
    OBVIOUS
  <2>2. CASE k = n + 1
    BY <1>1, <1>2, <2>1, <2>2
  <2>3. CASE k \in 1..n
    <3>1. W[k] = AfterItem(s.items[k], W[k - 1])
      BY <2>3 DEF IsWalk
    <3> QED BY <1>2, <2>1, <2>3, <3>1
  <2> QED BY <2>2, <2>3
<1>5. IsWalk(s, n + 1, V)
  BY <1>3, <1>4 DEF IsWalk
<1> QED BY <1>1, <1>5

(* The macro's steps do what AfterItem says. *)
LEMMA SteppedAfter ==
  ASSUME Walked, EnterModule \/ LeaveModule \/ TakeFn
  PROVE  /\ pos' = pos + 1 /\ source' = source /\ pos < Len(source.items) /\ mode' = "walking"
         /\ Trodden' = AfterItem(source.items[pos + 1], Trodden)
<1>0. Trodden.stack = stack /\ Trodden.cases = cases /\ Trodden.gens = gens
  BY DEF Trodden
<1>1. CASE EnterModule
  <2>1. /\ mode = "walking" /\ pos < Len(source.items) /\ source.items[pos + 1].kind = "mod"
        /\ pos' = pos + 1 /\ UNCHANGED <<source, cases, gens, mode>>
        /\ stack' = Append(stack, [prefix |-> Append(Here.prefix, IdentToSegment(ItemHere.ident)),
                                   scope  |-> MergeScope(Here.scope, ItemHere.tags)])
    BY <1>1 DEF EnterModule, At
  <2>2. Trodden' = [stack |-> stack', cases |-> cases, gens |-> gens]
    BY <2>1 DEF Trodden
  <2> QED BY <1>0, <2>1, <2>2 DEF AfterItem, Here, ItemHere
<1>2. CASE LeaveModule
  <2>1. /\ mode = "walking" /\ pos < Len(source.items) /\ source.items[pos + 1].kind = "end"
        /\ pos' = pos + 1 /\ UNCHANGED <<source, cases, gens, mode>>
        /\ stack' = SubSeq(stack, 1, Len(stack) - 1)
    BY <1>2 DEF LeaveModule, At
  <2>2. Trodden' = [stack |-> stack', cases |-> cases, gens |-> gens]
    BY <2>1 DEF Trodden
  <2> QED BY <1>0, <2>1, <2>2 DEF AfterItem
<1>3. CASE TakeFn
  <2> DEFINE tags == MergeScope(Here.scope, ItemHere.tags)
             leaf == IF ItemHere.name = <<>> THEN <<IdentToSegment(ItemHere.ident)>> ELSE ItemHere.name
             case == [name |-> Here.prefix \o leaf, tags |-> tags]
             gen == [prefix |-> Here.prefix \o ItemHere.name, tags |-> tags,
                     cases |-> ItemHere.leaves, row |-> ItemHere.attr = "row"]
  <2>1. /\ mode = "walking" /\ pos < Len(source.items) /\ ItemHere.kind = "fn"
        /\ pos' = pos + 1 /\ UNCHANGED <<source, stack, mode>>
        /\ cases' = IF ItemHere.attr # "case" THEN cases ELSE Append(cases, case)
        /\ gens' = IF ItemHere.attr \notin {"generator", "row"} THEN gens ELSE Append(gens, gen)
    BY <1>3 DEF TakeFn, At, ItemHere
  <2>2. Trodden' = [stack |-> stack, cases |-> cases', gens |-> gens']
    BY <2>1 DEF Trodden
  <2>3. AfterItem(ItemHere, Trodden) =
          [stack |-> stack,
           cases |-> IF ItemHere.attr = "case" THEN Append(cases, case) ELSE cases,
           gens |-> IF ItemHere.attr \in {"generator", "row"} THEN Append(gens, gen) ELSE gens]
    BY <1>0, <2>1 DEF AfterItem, Here
  <2> HIDE DEF case, gen
  <2>4. cases' = (IF ItemHere.attr = "case" THEN Append(cases, case) ELSE cases)
    BY <2>1
  <2>5. gens' = (IF ItemHere.attr \in {"generator", "row"} THEN Append(gens, gen) ELSE gens)
    BY <2>1
  <2>6. Trodden' = AfterItem(ItemHere, Trodden)
    BY <2>2, <2>3, <2>4, <2>5
  <2> QED BY <2>1, <2>6 DEF ItemHere
<1> QED BY <1>1, <1>2, <1>3

LEMMA DeterminedFirst ==
  Init => Determined
<1> SUFFICES ASSUME Init PROVE Determined
  OBVIOUS
<1>1. /\ pos = 0 /\ mode = "walking" /\ Trodden = [stack |-> Opened(source), cases |-> <<>>, gens |-> <<>>]
  BY DEF Init, MacroInit, Trodden
<1> DEFINE W == [k \in {0} |-> Trodden]
<1>2. W[0] = Trodden
  OBVIOUS
<1> HIDE DEF W
<1>3. IsWalk(source, pos, W)
  <2>1. 1..0 = {}
    OBVIOUS
  <2> QED BY <1>1, <1>2, <2>1 DEF IsWalk
<1> QED BY <1>1, <1>2, <1>3 DEF Determined, Built

LEMMA DeterminedKept ==
  ASSUME Walked, Determined, [Next]_vars
  PROVE  Determined'
<1>1. ASSUME UNCHANGED walk, Built' \/ mode' = "expanded" => pos = Len(source.items)
      PROVE  Determined'
  <2>1. UNCHANGED <<source, pos, Trodden>>
    BY <1>1 DEF walk, Trodden
  <2>2. PICK W : IsWalk(source, pos, W) /\ W[pos] = Trodden
    BY DEF Determined
  <2>3. IsWalk(source, pos, W)' /\ W[pos'] = Trodden'
    BY <2>1, <2>2 DEF IsWalk
  <2> QED BY <1>1, <2>1, <2>3 DEF Determined
<1>2. CASE EnterModule \/ LeaveModule \/ TakeFn
  <2>1. PICK W : IsWalk(source, pos, W) /\ W[pos] = Trodden
    BY DEF Determined
  <2>2. /\ pos' = pos + 1 /\ source' = source /\ mode' = "walking"
        /\ Trodden' = AfterItem(source.items[pos + 1], Trodden) /\ pos \in Nat
    BY <1>2, SteppedAfter, ItemTyped
  <2>3. PICK V : IsWalk(source, pos + 1, V) /\ V[pos + 1] = AfterItem(source.items[pos + 1], W[pos])
    BY <2>1, <2>2, LongerWalk
  <2>4. IsWalk(source, pos, V)' /\ V[pos'] = Trodden'
    BY <2>1, <2>2, <2>3 DEF IsWalk
  <2> QED BY <2>2, <2>4 DEF Determined, Built
<1>3. CASE Refuse \/ Validate
  <2>1. UNCHANGED walk /\ (mode' = "expanded" => pos = Len(source.items)) /\ mode' \in {"expanded", "refused"}
    BY <1>3 DEF Refuse, Validate
  <2> QED BY <1>1, <2>1 DEF Built
<1>4. CASE RegistryNext
  <2>1. UNCHANGED walk /\ (mode = "expanded" \/ Built)
    BY <1>4 DEF RegistryNext, Compile, Register, GetOrInit, Built
  <2> QED BY <1>1, <2>1 DEF Determined
<1>5. CASE EnumerateSuite \/ Lock \/ Check \/ UNCHANGED vars
  <2>1. UNCHANGED <<walk, mode>>
    BY <1>5 DEF EnumerateSuite, Lock, Check, vars
  <2> QED BY <1>1, <2>1 DEF Determined, Built
<1>6. CASE Edit
  <2>1. PICK s \in Revisions : Written(s)
    BY <1>6 DEF Edit
  <2>2. /\ pos' = 0 /\ source' = s /\ mode' = "walking"
        /\ Trodden' = [stack |-> Opened(s), cases |-> <<>>, gens |-> <<>>]
    BY <2>1 DEF Written, Trodden
  <2> DEFINE W == [k \in {0} |-> [stack |-> Opened(s), cases |-> <<>>, gens |-> <<>>]]
  <2>3. W[0] = [stack |-> Opened(s), cases |-> <<>>, gens |-> <<>>]
    OBVIOUS
  <2> HIDE DEF W
  <2>4. IsWalk(s, 0, W)
    <3>1. 1..0 = {}
      OBVIOUS
    <3> QED BY <2>3, <3>1 DEF IsWalk
  <2>5. IsWalk(source', pos', W) /\ W[pos'] = Trodden'
    BY <2>2, <2>3, <2>4
  <2> QED BY <2>2, <2>5 DEF Determined, Built
<1> QED BY <1>2, <1>3, <1>4, <1>5, <1>6 DEF Next, MacroNext

-----------------------------------------------------------------------------
(* What lock writes of a walk and a listing. *)

InventoryOf(w) ==
  [case |-> SetToSeq({[name |-> w.cases[k].name, tags |-> w.cases[k].tags] : k \in DOMAIN w.cases}),
   generated |-> SetToSeq({[prefix |-> w.gens[g].prefix, tags |-> w.gens[g].tags, cases |-> <<>>] :
                             g \in DOMAIN w.gens})]

AssignedIn(inv, names, g) ==
  LET under == Retain(names, {k \in LeafReports(inv, names) : g \in PrefixOf(inv, names[k])})
      from  == Len(inv.generated[g].prefix) + 1
  IN [k \in DOMAIN under |-> SubSeq(under[k], from, Len(under[k]))]

PinnedIn(inv, names) ==
  [inv EXCEPT !.generated =
     [g \in DOMAIN @ |-> [@[g] EXCEPT !.cases = AssignedIn(inv, names, g)]]]

\* L is a set of at most one listing.
LockFrom(w, L) ==
  IF L = {} THEN InventoryOf(w) ELSE PinnedIn(InventoryOf(w), CHOOSE names \in L : TRUE)

\* The committed lockfile is what its origin makes of it.
FromOrigin ==
  \A lf \in committed :
    \E W : /\ IsWalk(origin[1], Len(origin[1].items), W)
           /\ lf = LockFrom(W[Len(origin[1].items)], origin[2])

NoFalseAlarm == told = "drift" /\ origin[1] = source => leaves /\ origin[2] # listing

(* What the command makes of the artifact and the listing. *)
LEMMA LockIs ==
  ASSUME Walked, records \in SetToSeqs(Records),
         NEW given \in BOOLEAN, given => listing # {}
  PROVE  LockOf(given) = LockFrom(Trodden, IF given THEN listing ELSE {})
<1>1. Inventory = InventoryOf(Trodden)
  <2>1. Trodden.cases = cases /\ Trodden.gens = gens
    BY DEF Trodden
  <2> QED BY <2>1, InventoryEntries DEF InventoryOf, CaseEntrySet, RowEntrySet
<1>2. CASE given
  <2> DEFINE names == CHOOSE names \in listing : TRUE
             r == Inventory.generated
             p == [g \in DOMAIN r |-> [r[g] EXCEPT !.cases = Assigned(g)]]
             q == [g \in DOMAIN r |-> [r[g] EXCEPT !.cases = AssignedIn(Inventory, names, g)]]
  <2>1. \A g : Assigned(g) = AssignedIn(Inventory, names, g)
    BY DEF Assigned, AssignedIn
  <2>2. Pinned = [Inventory EXCEPT !.generated = p] /\ PinnedIn(Inventory, names) = [Inventory EXCEPT !.generated = q]
    BY DEF Pinned, PinnedIn
  <2> HIDE DEF r, names
  <2>3. p = q
    BY <2>1
  <2> HIDE DEF p, q
  <2>4. Pinned = PinnedIn(Inventory, names)
    BY <2>2, <2>3
  <2> QED BY <1>1, <1>2, <2>4 DEF LockOf, LockFrom, names
<1>3. CASE ~given
  BY <1>1, <1>3 DEF LockOf, LockFrom
<1> QED BY <1>2, <1>3

(* A function on 1..n is as long as n. *)
LEMMA LenOfFunction ==
  ASSUME NEW n \in Nat, NEW f, f = [k \in 1..n |-> f[k]]
  PROVE  Len(f) = n
<1> DEFINE V == {f[k] : k \in 1..n}
<1>1. f \in [1..n -> V]
  OBVIOUS
<1> HIDE DEF V
<1>2. f \in Seq(V)
  BY <1>1, SeqDef
<1> QED BY <1>1, <1>2

(* Pinned or not, a lockfile has the rows of the inventory. *)
LEMMA LockLike ==
  ASSUME Walked, records \in SetToSeqs(Records), NEW L
  PROVE  /\ LockFrom(Trodden, L).case = Inventory.case
         /\ Len(LockFrom(Trodden, L).generated) = Len(Inventory.generated)
         /\ DOMAIN LockFrom(Trodden, L).generated = DOMAIN Inventory.generated
         /\ \A g \in DOMAIN Inventory.generated :
              /\ LockFrom(Trodden, L).generated[g].prefix = Inventory.generated[g].prefix
              /\ LockFrom(Trodden, L).generated[g].tags = Inventory.generated[g].tags
              /\ LockFrom(Trodden, L).generated[g].cases =
                   IF L = {} THEN <<>> ELSE AssignedIn(Inventory, CHOOSE names \in L : TRUE, g)
<1> DEFINE c == SetToSeq(CaseEntrySet)
           r == SetToSeq(RowEntrySet)
           names == CHOOSE names \in L : TRUE
           inv == [case |-> c, generated |-> r]
           lf == LockFrom(Trodden, L)
<1>1. Inventory = inv
  BY InventoryEntries
<1>2. lf = IF L = {} THEN inv ELSE PinnedIn(inv, names)
  <2>1. Trodden.cases = cases /\ Trodden.gens = gens
    BY DEF Trodden
  <2>2. InventoryOf(Trodden) = inv
    BY <2>1 DEF InventoryOf, CaseEntrySet, RowEntrySet
  <2> QED BY <2>2 DEF LockFrom
<1>3. /\ r \in Seq(RowEntrySet)
      /\ \A j \in DOMAIN r : \E g \in DOMAIN gens :
           r[j] = [prefix |-> gens[g].prefix, tags |-> gens[g].tags, cases |-> <<>>]
  BY <1>1, InventoryEntries, EntryOf
<1>4. inv.case = c /\ inv.generated = r
  OBVIOUS
<1> HIDE DEF c, r, names, lf
<1>5. CASE L = {}
  <2>1. lf.case = c /\ lf.generated = r
    BY <1>2, <1>5
  <2>2. \A g \in DOMAIN r : r[g].cases = <<>>
    BY <1>3
  <2> QED BY <1>1, <1>4, <1>5, <2>1, <2>2 DEF lf
<1>6. CASE L # {}
  <2> DEFINE A(g) == AssignedIn(inv, names, g)
             q == [g \in DOMAIN r |-> [r[g] EXCEPT !.cases = A(g)]]
  <2>1. lf.case = c /\ lf.generated = q
    BY <1>2, <1>6 DEF PinnedIn
  <2> HIDE DEF A
  <2>2. \A g \in DOMAIN r : q[g].prefix = r[g].prefix /\ q[g].tags = r[g].tags /\ q[g].cases = A(g)
    <3> SUFFICES ASSUME NEW g \in DOMAIN r
                 PROVE  q[g].prefix = r[g].prefix /\ q[g].tags = r[g].tags /\ q[g].cases = A(g)
      OBVIOUS
    <3>1. PICK h \in DOMAIN gens : r[g] = [prefix |-> gens[h].prefix, tags |-> gens[h].tags, cases |-> <<>>]
      BY <1>3
    <3>2. q[g] = [r[g] EXCEPT !.cases = A(g)]
      OBVIOUS
    <3> HIDE DEF q
    <3> QED BY <3>1, <3>2
  <2>3. DOMAIN q = DOMAIN r /\ Len(q) = Len(r)
    <3>1. PICK n \in Nat : n = Len(r) /\ DOMAIN r = 1..n
      BY <1>3
    <3>2. q = [g \in 1..n |-> q[g]]
      BY <3>1
    <3> HIDE DEF q
    <3>3. Len(q) = n
      BY <3>1, <3>2, LenOfFunction
    <3> QED BY <3>1, <3>2, <3>3
  <2> HIDE DEF q
  <2>4. \A g \in DOMAIN r : q[g].cases = AssignedIn(inv, names, g)
    BY <2>2 DEF A
  <2> QED BY <1>1, <1>4, <1>6, <2>1, <2>2, <2>3, <2>4 DEF lf, names
<1> QED BY <1>5, <1>6

LEMMA FromOriginFirst ==
  Init => FromOrigin /\ NoFalseAlarm
BY DEF Init, FromOrigin, NoFalseAlarm

LEMMA FromOriginKept ==
  ASSUME LockInv, Determined, FromOrigin, NoFalseAlarm, [Next]_vars
  PROVE  FromOrigin' /\ NoFalseAlarm'
<1>1. ASSUME UNCHANGED files, told' = "none" \/ UNCHANGED <<source, told, leaves>>
      PROVE  FromOrigin' /\ NoFalseAlarm'
  BY <1>1 DEF FromOrigin, NoFalseAlarm, files, IsWalk
<1>2. Built => Walked /\ records \in SetToSeqs(Records) /\ pos = Len(source.items) /\ pos \in Nat
  <2>1. Built => Walked /\ records \in SetToSeqs(Records) /\ pos = Len(source.items)
    BY DEF LockInv, Linked, Determined
  <2>2. Walked => Len(source.items) \in Nat
    BY SuiteTyped DEF Walked
  <2> QED BY <2>1, <2>2
<1>3. CASE MacroNext /\ UNCHANGED <<artifact, files, builds, told, leaves>>
  <2>1. mode = "walking"
    BY <1>3 DEF MacroNext, Refuse, EnterModule, LeaveModule, TakeFn, Validate, At
  <2>2. told = "none"
    BY <2>1 DEF LockInv, Files, Built
  <2> QED BY <1>1, <1>3, <2>2
<1>4. CASE RegistryNext /\ UNCHANGED <<files, builds, told, leaves>>
  <2>1. UNCHANGED walk
    BY <1>4 DEF RegistryNext, Compile, Register, GetOrInit
  <2> QED BY <1>1, <1>4, <2>1 DEF walk
<1>5. CASE EnumerateSuite
  BY <1>5 DEF EnumerateSuite, FromOrigin, NoFalseAlarm, IsWalk
<1>6. CASE Lock
  <2>1. Built /\ UNCHANGED <<walk, listing>>
    BY <1>6 DEF Lock
  <2>2. PICK given \in BOOLEAN :
          /\ given => listing # {}
          /\ leaves' = given
          /\ IF Lockable(LockOf(given), given)
             THEN /\ told' = "wrote"
                  /\ committed' = {LockOf(given)}
                  /\ origin' = <<source, IF given THEN listing ELSE {}>>
             ELSE /\ told' = "refused"
                  /\ UNCHANGED <<committed, origin>>
    BY <1>6 DEF Lock
  <2>3. NoFalseAlarm'
    BY <2>2 DEF NoFalseAlarm
  <2>4. CASE Lockable(LockOf(given), given)
    <3> DEFINE L == IF given THEN listing ELSE {}
    <3>1. committed' = {LockFrom(Trodden, L)}
      BY <1>2, <2>1, <2>2, <2>4, LockIs
    <3>2. origin'[1] = source /\ origin'[2] = L
      BY <2>2, <2>4
    <3>3. PICK W : IsWalk(source, pos, W) /\ W[pos] = Trodden
      BY DEF Determined
    <3> HIDE DEF L
    <3>4. \A lf \in committed' : /\ IsWalk(origin'[1], Len(origin'[1].items), W)
                                 /\ lf = LockFrom(W[Len(origin'[1].items)], origin'[2])
      BY <1>2, <2>1, <3>1, <3>2, <3>3
    <3>5. FromOrigin'
      BY <3>4 DEF FromOrigin, IsWalk
    <3> QED BY <2>3, <3>5
  <2>5. CASE ~Lockable(LockOf(given), given)
    BY <2>2, <2>3, <2>5 DEF FromOrigin, IsWalk
  <2> QED BY <2>4, <2>5
<1>7. CASE Check
  <2>1. Built /\ UNCHANGED <<walk, files>>
    BY <1>7 DEF Check
  <2>2. FromOrigin'
    BY <2>1 DEF FromOrigin, files, IsWalk
  <2>3. PICK given \in BOOLEAN, existing \in committed :
          /\ given => listing # {}
          /\ leaves' = given
          /\ told' = IF ~Lockable(LockOf(given), given) \/ ~Validates(existing) THEN "refused"
                     ELSE IF /\ existing.case = Inventory.case
                             /\ RowsMatch(existing, LockOf(given), given)
                          THEN "quiet" ELSE "drift"
    BY <1>7 DEF Check
  <2>4. ASSUME origin[1] = source, ~given \/ origin[2] = listing
        PROVE  existing.case = Inventory.case /\ RowsMatch(existing, LockOf(given), given)
    <3> DEFINE n == Len(source.items)
               K == IF given THEN listing ELSE {}
    <3>1. PICK W : IsWalk(source, n, W) /\ existing = LockFrom(W[n], origin[2])
      BY <2>4 DEF FromOrigin
    <3>2. PICK V : IsWalk(source, n, V) /\ V[n] = Trodden
      BY <1>2, <2>1 DEF Determined
    <3>3. n \in Nat
      BY <1>2, <2>1
    <3>4. existing = LockFrom(Trodden, origin[2])
      <4> HIDE DEF n
      <4>1. W[n] = V[n]
        BY <3>1, <3>2, <3>3, SameWalk
      <4> QED BY <3>1, <3>2, <4>1
    <3>5. LockOf(given) = LockFrom(Trodden, K)
      BY <1>2, <2>1, <2>3, LockIs
    <3> DEFINE r == Inventory.generated
               lf == LockFrom(Trodden, K)
    <3>6. /\ existing.case = Inventory.case
          /\ Len(existing.generated) = Len(r) /\ DOMAIN existing.generated = DOMAIN r
          /\ \A g \in DOMAIN r : /\ existing.generated[g].prefix = r[g].prefix
                                 /\ existing.generated[g].tags = r[g].tags
      <4> HIDE DEF n, K
      <4> QED BY <1>2, <2>1, <3>4, LockLike
    <3>7. /\ Len(lf.generated) = Len(r) /\ DOMAIN lf.generated = DOMAIN r
          /\ \A g \in DOMAIN r : /\ lf.generated[g].prefix = r[g].prefix
                                 /\ lf.generated[g].tags = r[g].tags
      <4> HIDE DEF n, K
      <4> QED BY <1>2, <2>1, LockLike
    <3>8. given => existing = lf
      BY <2>4, <3>4
    <3> HIDE DEF lf, r, K, n
    <3>9. RowsMatch(existing, lf, given)
      BY <3>6, <3>7, <3>8 DEF RowsMatch
    <3>10. LockOf(given) = lf
      BY <3>5 DEF lf
    <3> QED BY <3>6, <3>9, <3>10
  <2>5. NoFalseAlarm'
    <3>1. ASSUME told' = "drift", origin'[1] = source'
          PROVE  leaves' /\ origin'[2] # listing'
      <4>1. origin[1] = source /\ origin' = origin /\ listing' = listing
        BY <2>1, <3>1 DEF files, walk
      <4>2. given /\ origin[2] # listing
        BY <2>3, <2>4, <3>1, <4>1
      <4> QED BY <2>3, <4>1, <4>2
    <3> QED BY <3>1 DEF NoFalseAlarm
  <2> QED BY <2>2, <2>5
<1>8. CASE Edit
  BY <1>1, <1>8 DEF Edit
<1>9. CASE UNCHANGED vars
  BY <1>1, <1>9 DEF vars, walk
<1> QED BY <1>3, <1>4, <1>5, <1>6, <1>7, <1>8, <1>9 DEF Next

-----------------------------------------------------------------------------
(* What the last command compared, and what it was given. *)

\* A suite that is ready has registered everything, each name once; a listing
\* of this build is the list of those names.
Remembered ==
  /\ listed = builds => mode = "ready" /\ listing = {[k \in DOMAIN registry |-> registry[k].name]}
  /\ mode = "ready" => built = Len(Registrations)
  /\ \A i, j \in DOMAIN registry : registry[i].name = registry[j].name => i = j

\* The committed lockfile was found to be what lock would write.
Matched ==
  /\ told # "none" /\ leaves => listing # {}
  /\ \A lf \in committed :
       /\ DOMAIN lf.generated = 1..Len(lf.generated)
       /\ told \in {"wrote", "quiet"} =>
            lf.case = Inventory.case /\ RowsMatch(lf, LockOf(leaves), leaves)

LEMMA RememberedFirst ==
  Init => Remembered /\ Matched
BY DEF Init, MacroInit, RegistryInit, Remembered, Matched

LEMMA RememberedKept ==
  ASSUME LockInv, Remembered, [Next]_vars
  PROVE  Remembered'
<1>0. builds \in Nat /\ listed \in 0..builds
  BY BuildsAssumption DEF LockInv, Files
<1>1. ASSUME UNCHANGED <<walk, mode, artifact, files, builds>> PROVE Remembered'
  <2>1. Registrations' = Registrations
    BY <1>1, SameRegistrations
  <2> QED BY <1>1, <2>1 DEF Remembered, artifact, files
<1>2. CASE MacroNext /\ UNCHANGED <<artifact, files, builds, told, leaves>>
  <2>1. mode = "walking" /\ mode' \in {"walking", "expanded", "refused"}
    BY <1>2 DEF MacroNext, Refuse, EnterModule, LeaveModule, TakeFn, Validate, At
  <2> QED BY <1>2, <2>1 DEF Remembered, artifact, files
<1>3. CASE RegistryNext /\ UNCHANGED <<files, builds, told, leaves>>
  <2>1. mode \in {"expanded", "registering"} /\ listed # builds
    BY <1>3 DEF RegistryNext, Compile, Register, GetOrInit, Remembered
  <2>2. listed' # builds'
    BY <1>3, <2>1 DEF files
  <2>3. CASE Compile
    BY <2>2, <2>3 DEF Compile, Remembered
  <2>4. CASE GetOrInit
    <3>1. Registrations' = Registrations
      BY <2>4, SameRegistrations DEF GetOrInit
    <3> QED BY <2>2, <2>4, <3>1 DEF GetOrInit, Remembered, artifact
  <2>5. CASE Register
    <3> DEFINE new == Registrations[built + 1]
    <3>1. /\ mode = "registering" /\ UNCHANGED walk
          /\ IF new.names = {} \/ new.names \subseteq Registered
             THEN mode' = "panicked" /\ UNCHANGED registry
             ELSE /\ registry' \in {Append(registry, [name |-> n, tags |-> new.tags]) : n \in new.names}
                  /\ UNCHANGED mode
      BY <2>5 DEF Register
    <3>2. mode' # "ready"
      BY <3>1
    <3>3. CASE new.names = {} \/ new.names \subseteq Registered
      BY <2>2, <3>1, <3>2, <3>3 DEF Remembered
    <3>4. CASE ~(new.names = {} \/ new.names \subseteq Registered)
      <4>1. /\ built < Len(Registrations) /\ built = Len(registry) /\ registry \in Seq(CaseDef)
        BY <2>5, <3>1 DEF Register, LockInv, Linked, Built, RegistryValid
      <4>2. built + 1 \in 1..Len(Registrations)
        <5>1. Len(Registrations) \in Nat
          BY Decoded DEF LockInv
        <5> QED BY <4>1, <5>1
      <4>3. Walked /\ Accepted
        BY <3>1 DEF LockInv, Expanded
      <4>4. PICK n \in Name : new.names = {n}
        BY <3>4, <4>2, <4>3, Named
      <4>5. new.tags \in Seq(Tag)
        BY <4>2, <4>3, Named
      <4>6. registry' = Append(registry, [name |-> n, tags |-> new.tags])
        BY <3>1, <3>4, <4>4
      <4>7. n \notin Registered
        BY <3>4, <4>4
      <4> DEFINE e == [name |-> n, tags |-> new.tags]
      <4>8. e \in CaseDef /\ e.name = n
        BY <4>5 DEF CaseDef
      <4> HIDE DEF e, new
      <4>9. PICK m \in Nat : m = Len(registry) /\ DOMAIN registry = 1..m
        BY <4>1
      <4>10. DOMAIN registry' = 1..(m + 1) /\ registry'[m + 1] = e /\ \A i \in 1..m : registry'[i] = registry[i]
        BY <4>1, <4>6, <4>8, <4>9 DEF e
      <4>11. \A i \in 1..m : registry[i].name # n
        BY <4>7, <4>9 DEF Registered
      <4>12. ASSUME NEW i \in 1..(m + 1), NEW j \in 1..(m + 1), registry'[i].name = registry'[j].name
             PROVE  i = j
        <5>1. (i = m + 1 \/ i \in 1..m) /\ (j = m + 1 \/ j \in 1..m)
          OBVIOUS
        <5>2. \A x, y \in 1..m : registry[x].name = registry[y].name => x = y
          BY <4>9 DEF Remembered
        <5> QED BY <4>8, <4>10, <4>11, <4>12, <5>1, <5>2
      <4> QED BY <2>2, <3>2, <4>10, <4>12 DEF Remembered
    <3> QED BY <3>3, <3>4
  <2> QED BY <1>3, <2>3, <2>4, <2>5 DEF RegistryNext
<1>4. CASE EnumerateSuite
  <2>1. /\ mode = "ready" /\ mode' = mode /\ UNCHANGED <<walk, artifact>>
        /\ listing' = {[k \in DOMAIN registry |-> registry[k].name]}
    BY <1>4 DEF EnumerateSuite
  <2>2. Registrations' = Registrations
    BY <2>1, SameRegistrations
  <2> QED BY <2>1, <2>2 DEF Remembered, artifact
<1>5. CASE Lock
  <2>1. UNCHANGED <<walk, mode, artifact, listing, listed, builds>>
    BY <1>5 DEF Lock
  <2>2. Registrations' = Registrations
    BY <2>1, SameRegistrations
  <2> QED BY <2>1, <2>2 DEF Remembered, artifact
<1>6. CASE Check
  BY <1>1, <1>6 DEF Check
<1>7. CASE Edit
  <2>1. mode' = "walking" /\ builds' = builds + 1 /\ UNCHANGED <<artifact, files>>
    BY <1>7 DEF Edit, Written
  <2>2. listed' # builds'
    BY <1>0, <2>1 DEF files
  <2> QED BY <2>1, <2>2 DEF Remembered, artifact
<1>8. CASE UNCHANGED vars
  BY <1>1, <1>8 DEF vars
<1> QED BY <1>2, <1>3, <1>4, <1>5, <1>6, <1>7, <1>8 DEF Next

(* What lock writes depends on the records and the listing only. *)
LEMMA SameLock ==
  ASSUME UNCHANGED <<records, listing>>, NEW given
  PROVE  Inventory' = Inventory /\ LockOf(given)' = LockOf(given)
<1>1. Inventory' = Inventory
  BY DEF Inventory, CaseEntries, RowEntries, InOrder, RecordsOf
<1>2. \A g : Assigned(g)' = Assigned(g)
  BY <1>1 DEF Assigned
<1>3. Pinned' = Pinned
  BY <1>1, <1>2 DEF Pinned
<1> QED BY <1>1, <1>3 DEF LockOf

LEMMA MatchedKept ==
  ASSUME LockInv, Matched, [Next]_vars
  PROVE  Matched'
<1>1. ASSUME told' = "none", committed' = committed PROVE Matched'
  BY <1>1 DEF Matched
<1>2. ASSUME UNCHANGED <<records, listing, committed, told, leaves>> PROVE Matched'
  <2>1. Inventory' = Inventory /\ LockOf(leaves)' = LockOf(leaves)
    BY <1>2, SameLock
  <2> QED BY <1>2, <2>1 DEF Matched, RowsMatch
<1>3. CASE MacroNext /\ UNCHANGED <<artifact, files, builds, told, leaves>>
  BY <1>2, <1>3 DEF artifact, files
<1>4. CASE RegistryNext /\ UNCHANGED <<files, builds, told, leaves>>
  <2>1. CASE Compile
    <3>1. told = "none"
      BY <2>1 DEF Compile, LockInv, Files, Built
    <3> QED BY <1>1, <1>4, <3>1 DEF files
  <2>2. CASE Register \/ GetOrInit
    BY <1>2, <1>4, <2>2 DEF Register, GetOrInit, artifact, files
  <2> QED BY <1>4, <2>1, <2>2 DEF RegistryNext
<1>5. CASE EnumerateSuite \/ Edit
  BY <1>1, <1>5 DEF EnumerateSuite, Edit, files
<1>6. CASE Lock
  <2>1. Walked /\ records \in SetToSeqs(Records) /\ UNCHANGED <<records, listing>>
    BY <1>6 DEF Lock, LockInv, Linked, artifact
  <2>2. PICK given \in BOOLEAN :
          /\ given => listing # {}
          /\ leaves' = given
          /\ IF Lockable(LockOf(given), given)
             THEN told' = "wrote" /\ committed' = {LockOf(given)}
             ELSE told' = "refused" /\ UNCHANGED committed
    BY <1>6 DEF Lock
  <2>3. CASE ~Lockable(LockOf(given), given)
    BY <2>1, <2>2, <2>3 DEF Matched
  <2>4. CASE Lockable(LockOf(given), given)
    <3> DEFINE lf == LockOf(given)
    <3>1. lf.case = Inventory.case /\ DOMAIN lf.generated = 1..Len(lf.generated)
      <4> DEFINE K == IF given THEN listing ELSE {}
                 r == Inventory.generated
      <4>1. LockOf(given) = LockFrom(Trodden, K)
        BY <2>1, <2>2, LockIs
      <4> HIDE DEF K
      <4>2. /\ LockFrom(Trodden, K).case = Inventory.case
            /\ Len(LockFrom(Trodden, K).generated) = Len(r)
            /\ DOMAIN LockFrom(Trodden, K).generated = DOMAIN r
        BY <2>1, LockLike
      <4>3. r \in Seq(RowEntrySet)
        BY <2>1, InventoryEntries
      <4>4. DOMAIN r = 1..Len(r)
        <5> HIDE DEF r
        <5> QED BY <4>3
      <4> QED BY <4>1, <4>2, <4>4
    <3>2. Inventory' = Inventory /\ LockOf(given)' = LockOf(given)
      BY <2>1, SameLock
    <3>3. LockOf(leaves)' = lf
      BY <2>1, <2>2, <3>2, SameLock DEF LockOf
    <3> HIDE DEF lf
    <3>4. RowsMatch(lf, lf, given)
      BY DEF RowsMatch
    <3>5. told' = "wrote" /\ committed' = {lf}
      BY <2>2, <2>4 DEF lf
    <3> QED BY <2>1, <2>2, <3>1, <3>2, <3>3, <3>4, <3>5 DEF Matched, RowsMatch
  <2> QED BY <2>3, <2>4
<1>8. CASE Check
  <2>1. UNCHANGED <<records, listing, committed>>
    BY <1>8 DEF Check, artifact, files
  <2>2. PICK given \in BOOLEAN, existing \in committed :
          /\ given => listing # {}
          /\ leaves' = given
          /\ told' = IF ~Lockable(LockOf(given), given) \/ ~Validates(existing) THEN "refused"
                     ELSE IF /\ existing.case = Inventory.case
                             /\ RowsMatch(existing, LockOf(given), given)
                          THEN "quiet" ELSE "drift"
    BY <1>8 DEF Check
  <2>3. \A lf \in committed : lf = existing
    BY DEF LockInv, Files
  <2> DEFINE lock == LockOf(given)
  <2>4. Inventory' = Inventory /\ LockOf(leaves)' = lock
    BY <2>1, <2>2, SameLock DEF LockOf
  <2>5. told' \in {"wrote", "quiet"} =>
          existing.case = Inventory.case /\ RowsMatch(existing, lock, given)
    BY <2>2
  <2> HIDE DEF lock
  <2>6. \A lf \in committed' :
          /\ DOMAIN lf.generated = 1..Len(lf.generated)
          /\ told' \in {"wrote", "quiet"} =>
               lf.case = (Inventory').case /\ RowsMatch(lf, LockOf(leaves)', leaves')
    BY <2>1, <2>2, <2>3, <2>4, <2>5 DEF Matched, RowsMatch
  <2> QED BY <2>1, <2>2, <2>6 DEF Matched, RowsMatch
<1>7. CASE UNCHANGED vars
  BY <1>2, <1>7 DEF vars, artifact, files
<1> QED BY <1>3, <1>4, <1>5, <1>6, <1>7, <1>8 DEF Next

-----------------------------------------------------------------------------
(* A lockfile that was found to match covers a full run. *)

(* A name under a prefix is the prefix and what is left of the name. *)
LEMMA Rejoined ==
  ASSUME NEW S, NEW n \in Seq(S), NEW p \in Seq(S), IsUnder(n, p)
  PROVE  p \o SubSeq(n, Len(p) + 1, Len(n)) = n
<1>1. PICK a \in Nat, b \in Nat : a = Len(n) /\ b = Len(p)
  OBVIOUS
<1>2. a > b /\ SubSeq(n, 1, b) = p
  BY <1>1 DEF IsUnder
<1> DEFINE t == SubSeq(n, b + 1, a)
<1>0. PICK c \in Nat : c = a - b /\ a = b + c
  <2>1. a - b \in Nat /\ a = b + (a - b)
    BY <1>2
  <2> QED BY <2>1
<1>3. t \in Seq(S) /\ Len(t) = c /\ \A i \in 1..c : t[i] = n[b + i]
  BY <1>0, <1>1, <1>2
<1>4. \A i \in 1..b : p[i] = n[i]
  BY <1>1, <1>2
<1> HIDE DEF t
<1>5. /\ p \o t \in Seq(S) /\ Len(p \o t) = a
      /\ \A i \in 1..a : (p \o t)[i] = IF i <= b THEN p[i] ELSE t[i - b]
  <2>1. /\ p \o t \in Seq(S) /\ Len(p \o t) = b + c
        /\ \A i \in 1..(b + c) : (p \o t)[i] = IF i <= b THEN p[i] ELSE t[i - b]
    <3>1. p \in Seq(S) /\ t \in Seq(S) /\ b = Len(p) /\ c = Len(t)
      BY <1>1, <1>3
    <3> QED BY <3>1, Concatenated
  <2> QED BY <1>0, <2>1
<1>6. \A i \in 1..a : (p \o t)[i] = n[i]
  <2> SUFFICES ASSUME NEW i \in 1..a PROVE (p \o t)[i] = n[i]
    OBVIOUS
  <2>1. (p \o t)[i] = IF i <= b THEN p[i] ELSE t[i - b]
    BY <1>5
  <2>2. CASE i <= b
    BY <1>4, <2>1, <2>2
  <2>3. CASE ~(i <= b)
    <3>1. i - b \in 1..c /\ b + (i - b) = i
      BY <1>0, <2>3
    <3>2. t[i - b] = n[b + (i - b)]
      BY <1>3, <3>1
    <3> QED BY <2>1, <2>3, <3>1, <3>2
  <2> QED BY <2>2, <2>3
<1>7. p \o t = n
  <2> DEFINE q == p \o t
  <2>1. q \in Seq(S) /\ Len(q) = a /\ \A i \in 1..a : q[i] = n[i]
    BY <1>5, <1>6
  <2> HIDE DEF q
  <2>2. q = n
    BY <1>1, <2>1
  <2> QED BY <2>2 DEF q
<1> QED BY <1>1, <1>7 DEF t

(* The leaves that a listing assigns to a row are those the listing has under it. *)
LEMMA AssignedCovers ==
  ASSUME NEW inv, NEW names \in Seq(Name), NEW g \in DOMAIN inv.generated,
         inv.generated[g].prefix \in Name
  PROVE  {inv.generated[g].prefix \o AssignedIn(inv, names, g)[k] : k \in DOMAIN AssignedIn(inv, names, g)}
           = {names[k] : k \in {l \in LeafReports(inv, names) : g \in PrefixOf(inv, names[l])}}
<1> DEFINE K == {l \in LeafReports(inv, names) : g \in PrefixOf(inv, names[l])}
           p == inv.generated[g].prefix
           under == Retain(names, K)
           leaf == AssignedIn(inv, names, g)
<1>1. K \subseteq DOMAIN names /\ \A k \in K : IsUnder(names[k], p)
  BY DEF LeafReports, PrefixOf
<1>2. leaf = [k \in DOMAIN under |-> SubSeq(under[k], Len(p) + 1, Len(under[k]))]
  BY DEF AssignedIn
<1>3. p \in Seq(Segment)
  BY DEF Name
<1> HIDE DEF K, p, leaf
<1>4. /\ under \in Seq(Name)
      /\ \E f \in [1..Len(under) -> 1..Len(names)] :
           /\ \A i \in 1..Len(under) : f[i] \in K /\ under[i] = names[f[i]]
           /\ \A k \in 1..Len(names) : k \in K => \E i \in 1..Len(under) : f[i] = k
  <2> HIDE DEF under
  <2>1. PICK f \in [1..Len(under) -> 1..Len(names)] :
              /\ \A i \in 1..Len(under) : f[i] \in K /\ under[i] = names[f[i]]
              /\ \A i, j \in 1..Len(under) : f[i] = f[j] => i = j
              /\ \A k \in 1..Len(names) : k \in K => \E i \in 1..Len(under) : f[i] = k
    BY Retained DEF under
  <2>2. under \in Seq(Name)
    BY Retained DEF under
  <2> QED BY <2>1, <2>2
<1> HIDE DEF under
<1>5. /\ \A i \in DOMAIN under : \E k \in K : under[i] = names[k]
      /\ \A k \in K : \E i \in DOMAIN under : under[i] = names[k]
  <2>1. PICK f \in [1..Len(under) -> 1..Len(names)] :
           /\ \A i \in 1..Len(under) : f[i] \in K /\ under[i] = names[f[i]]
           /\ \A k \in 1..Len(names) : k \in K => \E i \in 1..Len(under) : f[i] = k
    BY <1>4
  <2>2. DOMAIN under = 1..Len(under) /\ DOMAIN names = 1..Len(names)
    BY <1>4
  <2> QED BY <1>1, <2>1, <2>2
<1>6. ASSUME NEW i \in DOMAIN under PROVE p \o leaf[i] = under[i]
  <2>1. PICK k \in K : under[i] = names[k]
    BY <1>5
  <2>2. names[k] \in Seq(Segment) /\ IsUnder(names[k], p)
    BY <1>1 DEF Name
  <2> QED BY <1>2, <1>3, <2>1, <2>2, Rejoined
<1>7. DOMAIN leaf = DOMAIN under
  BY <1>2
<1>8. {p \o leaf[i] : i \in DOMAIN leaf} = {under[i] : i \in DOMAIN under}
  BY <1>6, <1>7
<1>9. {under[i] : i \in DOMAIN under} = {names[k] : k \in K}
  BY <1>5
<1> QED BY <1>8, <1>9 DEF p, leaf, K

LEMMA InvCovers ==
  ASSUME LockInv, Remembered, Matched, NEW lf \in committed,
         told \in {"wrote", "quiet"}, mode = "ready",
         \/ leaves /\ listed = builds
         \/ \A g \in DOMAIN lf.generated : lf.generated[g].cases = <<>>
  PROVE  Covers(lf, [k \in DOMAIN registry |-> registry[k].name])
<1> DEFINE names == [k \in DOMAIN registry |-> registry[k].name]
           inv == Inventory
           r == Inventory.generated
<1>1. Walked /\ Accepted /\ records \in SetToSeqs(Records) /\ TagsAgree
  BY InvAgrees DEF LockInv, Expanded, Linked, Built
<1>2. /\ registry \in Seq(CaseDef) /\ built = Len(registry) /\ built = Len(Registrations)
      /\ \A k \in DOMAIN registry : ValidName(registry[k].name) /\ Registrations[k].names = {registry[k].name}
      /\ \A i, j \in DOMAIN registry : registry[i].name = registry[j].name => i = j
  BY DEF LockInv, Linked, RegistryValid, Remembered, Built
<1>3. /\ DOMAIN lf.generated = 1..Len(lf.generated)
      /\ lf.case = Inventory.case /\ RowsMatch(lf, LockOf(leaves), leaves)
  BY DEF Matched
<1>4. DOMAIN names = DOMAIN registry /\ \A k \in DOMAIN registry : names[k] = registry[k].name
  OBVIOUS
<1>5. names \in Seq(Name)
  <2>0. registry \in Seq(CaseDef) /\ built = Len(registry)
    BY <1>2
  <2>1. \A k \in 1..built : registry[k] \in CaseDef
    BY <2>0
  <2>2. \A k \in 1..built : registry[k].name \in Name
    BY <2>1 DEF CaseDef
  <2>3. built \in Nat /\ DOMAIN registry = 1..built
    BY <2>0
  <2>4. names \in [1..built -> Name]
    BY <2>2, <2>3
  <2> HIDE DEF names
  <2> QED BY <2>3, <2>4, SeqDef
<1> DEFINE L == IF leaves THEN listing ELSE {}
           lock == LockOf(leaves)
<1>6. lock = LockFrom(Trodden, L)
  <2>1. leaves \in BOOLEAN /\ (leaves => listing # {})
    BY DEF LockInv, Files, Matched
  <2> QED BY <1>1, <2>1, LockIs
<1> HIDE DEF L, lock
<1>7. /\ Len(lock.generated) = Len(r) /\ DOMAIN lock.generated = DOMAIN r
      /\ \A g \in DOMAIN r :
           /\ lock.generated[g].prefix = r[g].prefix
           /\ lock.generated[g].cases = IF L = {} THEN <<>> ELSE AssignedIn(inv, CHOOSE n \in L : TRUE, g)
  BY <1>1, <1>6, LockLike
<1>8. r \in Seq(RowEntrySet) /\ DOMAIN r = 1..Len(r)
  <2>1. r \in Seq(RowEntrySet)
    BY <1>1, InventoryEntries
  <2> HIDE DEF r
  <2> QED BY <2>1
<1>9. /\ DOMAIN lf.generated = DOMAIN r
      /\ \A g \in DOMAIN r : /\ lf.generated[g].prefix = r[g].prefix
                             /\ leaves => lf.generated[g].cases = lock.generated[g].cases
  BY <1>3, <1>7, <1>8 DEF RowsMatch, lock
<1>10. ExactNames(lf) = ExactNames(inv) /\ LeafReports(lf, names) = LeafReports(inv, names)
  BY <1>3 DEF ExactNames, LeafReports
<1>11. \A n : PrefixOf(lf, n) = PrefixOf(inv, n)
  <2> HIDE DEF r
  <2>1. DOMAIN lf.generated = DOMAIN inv.generated
        /\ \A g \in DOMAIN inv.generated : lf.generated[g].prefix = inv.generated[g].prefix
    BY <1>9 DEF r
  <2> HIDE DEF inv
  <2> QED BY <2>1 DEF PrefixOf
<1>12. \A j, k \in DOMAIN names : names[j] = names[k] => j = k
  BY <1>2, <1>4
<1>13. ASSUME NEW k \in LeafReports(lf, names)
       PROVE  PrefixOf(lf, names[k]) # {} /\ ValidName(names[k])
  <2>1. k \in DOMAIN registry /\ names[k] = registry[k].name /\ registry[k].name \notin ExactNames(inv)
    BY <1>4, <1>10 DEF LeafReports
  <2>2. {e \in Range(Inventory.case) : e.name = registry[k].name} = {}
    <3> SUFFICES ASSUME NEW e \in Range(Inventory.case), e.name = registry[k].name PROVE FALSE
      OBVIOUS
    <3>1. PICK x \in DOMAIN Inventory.case : e = Inventory.case[x]
      BY DEF Range
    <3>2. e.name \in ExactNames(Inventory)
      BY <3>1 DEF ExactNames
    <3> QED BY <2>1, <3>2
  <2>3. PrefixOf(Inventory, registry[k].name) # {}
    BY <1>1, <2>1, <2>2 DEF TagsAgree, Built
  <2> QED BY <1>2, <1>11, <2>1, <2>3
<1>14. ExactNames(lf) \subseteq {names[k] : k \in DOMAIN names}
  <2> SUFFICES ASSUME NEW x \in ExactNames(inv) PROVE \E k \in DOMAIN names : names[k] = x
    BY <1>10
  <2>1. PICK j \in DOMAIN Inventory.case : x = Inventory.case[j].name
    BY DEF ExactNames
  <2>2. PICK k \in DOMAIN cases : Inventory.case[j] = [name |-> cases[k].name, tags |-> cases[k].tags]
    BY <1>1, EntryOf
  <2>3. x = cases[k].name
    BY <2>1, <2>2
  <2>4. k \in 1..Len(Registrations) /\ OfCase(k, k)
    BY <1>1, Decoded
  <2>5. k \in DOMAIN registry
    <3>1. registry \in Seq(CaseDef) /\ Len(registry) = Len(Registrations)
      BY <1>2
    <3>2. DOMAIN registry = 1..Len(Registrations)
      BY <3>1
    <3> QED BY <2>4, <3>2
  <2>6. ValidName(cases[k].name)
    BY <1>1 DEF Accepted
  <2>7. registry[k].name = x
    BY <1>2, <2>3, <2>4, <2>5, <2>6 DEF OfCase
  <2> QED BY <1>4, <2>5, <2>7
<1>15. ASSUME NEW g \in DOMAIN lf.generated, lf.generated[g].cases # <<>>
       PROVE  Enumerated(lf.generated[g]) =
                {names[k] : k \in {l \in LeafReports(lf, names) : g \in PrefixOf(lf, names[l])}}
  <2>1. leaves /\ listed = builds
    BY <1>15
  <2>2. L = {names}
    BY <2>1 DEF L, Remembered
  <2>3. (CHOOSE n \in L : TRUE) = names /\ L # {}
    <3> HIDE DEF names
    <3> QED BY <2>2
  <2>4. g \in DOMAIN inv.generated /\ lf.generated[g].prefix = inv.generated[g].prefix
        /\ lf.generated[g].cases = AssignedIn(inv, names, g)
    <3> HIDE DEF names
    <3> QED BY <1>7, <1>9, <2>1, <2>3
  <2>5. inv.generated[g].prefix \in Name
    <3>1. PICK h \in DOMAIN gens :
            Inventory.generated[g] = [prefix |-> gens[h].prefix, tags |-> gens[h].tags, cases |-> <<>>]
      BY <1>1, <2>4, EntryOf
    <3>2. gens[h] \in GenDef
      BY <1>1 DEF Walked
    <3> QED BY <3>1, <3>2 DEF GenDef
  <2> HIDE DEF names, inv
  <2>6. Enumerated(lf.generated[g]) =
          {inv.generated[g].prefix \o AssignedIn(inv, names, g)[k] : k \in DOMAIN AssignedIn(inv, names, g)}
    BY <2>4 DEF Enumerated
  <2>7. {inv.generated[g].prefix \o AssignedIn(inv, names, g)[k] : k \in DOMAIN AssignedIn(inv, names, g)}
           = {names[k] : k \in {l \in LeafReports(inv, names) : g \in PrefixOf(inv, names[l])}}
    BY <1>5, <2>4, <2>5, AssignedCovers
  <2> QED BY <1>10, <1>11, <2>6, <2>7
<1> HIDE DEF names
<1>16. Covers(lf, names)
  BY <1>12, <1>13, <1>14, <1>15 DEF Covers
<1> QED BY <1>16 DEF names

(* QuietCheckCovers: what lock wrote, or --check found to match, accepts a full
   run of this build, for every source, any edits and any listing of the build;
   and --check never reports a drift between builds of one source, whatever the
   linker did and whatever was built in between. *)
THEOREM QuietCheckCoversCorrect ==
  Spec => []QuietCheckCovers
<1> DEFINE Kept == Determined /\ FromOrigin /\ NoFalseAlarm /\ Remembered /\ Matched
<1>1. Init => Kept
  BY DeterminedFirst, FromOriginFirst, RememberedFirst
<1>2. LockInv /\ Kept /\ [Next]_vars => Kept'
  <2> SUFFICES ASSUME LockInv, Kept, [Next]_vars PROVE Kept'
    OBVIOUS
  <2>1. Determined'
    BY DeterminedKept DEF LockInv
  <2> QED BY <2>1, FromOriginKept, RememberedKept, MatchedKept
<1>3. LockInv /\ Kept => QuietCheckCovers
  BY InvCovers DEF QuietCheckCovers, NoFalseAlarm
<1> HIDE DEF Kept
<1> QED BY <1>1, <1>2, <1>3, LockInvariant, PTL DEF Spec

-----------------------------------------------------------------------------
(* The modules around an item. *)

\* By how many more modules are opened than closed from item j to item k.
Balance(items, j, k) ==
  Cardinality({m \in j..k : items[m].kind = "mod"}) - Cardinality({m \in j..k : items[m].kind = "end"})

\* The modules that are open after item p.
Levels(items, p) ==
  {j \in 1..p : items[j].kind = "mod" /\ \A k \in j..p : Balance(items, j, k) > 0}

\* The marks of those items that none after them overrides.
InForce(items, L) ==
  UNION {{t \in Range(items[j].tags) : \A k \in L : k > j =>
            \A u \in Range(items[k].tags) : u.feature # t.feature} : j \in L}

\* Frame d + 1 of the stack is that of the open module f[d].
Framing(items, p, st, f) ==
  /\ f \in [1..(Len(st) - 1) -> 1..p]
  /\ \A d \in 1..(Len(st) - 1) : Balance(items, f[d], p) = Len(st) - d
  /\ Levels(items, p) = {f[d] : d \in 1..(Len(st) - 1)}
  /\ \A d \in 1..Len(st) : Range(st[d].scope) = InForce(items, {f[e] : e \in 1..(d - 1)})

(* What is counted from item j on, with one item more. *)
LEMMA OneMoreOf ==
  ASSUME NEW X, NEW j \in Nat, NEW k \in Nat, j <= k + 1
  PROVE  /\ Cardinality((j..k) \intersect X) \in Nat
         /\ Cardinality((j..(k + 1)) \intersect X) =
              Cardinality((j..k) \intersect X) + (IF k + 1 \in X THEN 1 ELSE 0)
<1> DEFINE S == (j..k) \intersect X
           T == (j..(k + 1)) \intersect X
<1>1. IsFiniteSet(S) /\ Cardinality(S) \in Nat
  <2>1. S \in SUBSET (j..k)
    OBVIOUS
  <2>2. IsFiniteSet(j..k)
    BY FS_Interval
  <2> HIDE DEF S
  <2>3. IsFiniteSet(S)
    BY <2>1, <2>2, FS_Subset
  <2> QED BY <2>3, FS_CardinalityType
<1>2. \A i : i \in j..(k + 1) <=> i \in j..k \/ i = k + 1
  OBVIOUS
<1>3. k + 1 \notin S
  OBVIOUS
<1>4. T = IF k + 1 \in X THEN S \union {k + 1} ELSE S
  BY <1>2
<1> HIDE DEF S, T
<1>5. CASE k + 1 \in X
  <2>1. T = S \union {k + 1}
    BY <1>4, <1>5
  <2>2. Cardinality(T) = Cardinality(S) + 1
    BY <1>1, <1>3, <2>1, FS_AddElement
  <2> QED BY <1>1, <1>5, <2>2 DEF S, T
<1>6. CASE k + 1 \notin X
  <2>1. Cardinality(T) = Cardinality(S)
    BY <1>4, <1>6
  <2>2. Cardinality(T) = Cardinality(S) + 0
    BY <1>1, <2>1
  <2> QED BY <1>1, <1>6, <2>2 DEF S, T
<1> QED BY <1>5, <1>6

LEMMA BalanceNext ==
  ASSUME NEW items, NEW j \in Nat, NEW k \in Nat, j <= k + 1
  PROVE  /\ Balance(items, j, k) \in Int
         /\ items[k + 1].kind = "mod" => Balance(items, j, k + 1) = Balance(items, j, k) + 1
         /\ items[k + 1].kind = "end" => Balance(items, j, k + 1) = Balance(items, j, k) - 1
         /\ items[k + 1].kind = "fn" => Balance(items, j, k + 1) = Balance(items, j, k)
<1> DEFINE M == {m \in Nat : items[m].kind = "mod"}
           E == {m \in Nat : items[m].kind = "end"}
           ms(n) == Cardinality((j..n) \intersect M)
           es(n) == Cardinality((j..n) \intersect E)
<1>1. ASSUME NEW n \in Nat PROVE Balance(items, j, n) = ms(n) - es(n)
  <2>1. {m \in j..n : items[m].kind = "mod"} = (j..n) \intersect M
    OBVIOUS
  <2>2. {m \in j..n : items[m].kind = "end"} = (j..n) \intersect E
    OBVIOUS
  <2> HIDE DEF M, E
  <2> QED BY <2>1, <2>2 DEF Balance
<1>2. k + 1 \in M <=> items[k + 1].kind = "mod"
  OBVIOUS
<1>3. k + 1 \in E <=> items[k + 1].kind = "end"
  OBVIOUS
<1> HIDE DEF M, E
<1>4. ms(k) \in Nat /\ ms(k + 1) = ms(k) + (IF k + 1 \in M THEN 1 ELSE 0)
  BY OneMoreOf
<1>5. es(k) \in Nat /\ es(k + 1) = es(k) + (IF k + 1 \in E THEN 1 ELSE 0)
  BY OneMoreOf
<1>6. Balance(items, j, k) = ms(k) - es(k) /\ Balance(items, j, k + 1) = ms(k + 1) - es(k + 1)
  BY <1>1
<1> HIDE DEF ms, es
<1>7. CASE items[k + 1].kind = "mod"
  <2>1. ms(k + 1) = ms(k) + 1 /\ es(k + 1) = es(k) + 0
    BY <1>2, <1>3, <1>4, <1>5, <1>7
  <2> QED BY <1>4, <1>5, <1>6, <1>7, <2>1
<1>8. CASE items[k + 1].kind = "end"
  <2>1. ms(k + 1) = ms(k) + 0 /\ es(k + 1) = es(k) + 1
    BY <1>2, <1>3, <1>4, <1>5, <1>8
  <2> QED BY <1>4, <1>5, <1>6, <1>8, <2>1
<1>9. CASE items[k + 1].kind # "mod" /\ items[k + 1].kind # "end"
  <2>1. ms(k + 1) = ms(k) + 0 /\ es(k + 1) = es(k) + 0
    BY <1>2, <1>3, <1>4, <1>5, <1>9
  <2> QED BY <1>4, <1>5, <1>6, <1>9, <2>1
<1> QED BY <1>4, <1>5, <1>6, <1>7, <1>8, <1>9

LEMMA BalanceOfNone ==
  ASSUME NEW items, NEW k \in Nat
  PROVE  Balance(items, k + 1, k) = 0
<1>1. (k + 1)..k = {}
  OBVIOUS
<1>2. /\ {m \in (k + 1)..k : items[m].kind = "mod"} = {}
      /\ {m \in (k + 1)..k : items[m].kind = "end"} = {}
  BY <1>1
<1>3. Cardinality({}) = 0
  BY FS_EmptySet
<1> QED BY <1>2, <1>3 DEF Balance

(* An item closes the levels whose balance it brings to nothing, and a module
   opens one. *)
LEMMA LevelsNext ==
  ASSUME NEW items, NEW p \in Nat
  PROVE  Levels(items, p + 1) =
           {j \in Levels(items, p) : Balance(items, j, p + 1) > 0}
             \union (IF items[p + 1].kind = "mod" THEN {p + 1} ELSE {})
<1> DEFINE N == {j \in Levels(items, p) : Balance(items, j, p + 1) > 0}
<1>1. ASSUME NEW j \in 1..p PROVE j \in Levels(items, p + 1) <=> j \in N
  <2>1. \A k : k \in j..(p + 1) <=> k \in j..p \/ k = p + 1
    OBVIOUS
  <2> QED BY <2>1 DEF Levels
<1>2. p + 1 \in Levels(items, p + 1) <=> items[p + 1].kind = "mod"
  <2>1. (p + 1)..(p + 1) = {p + 1} /\ p + 1 \in 1..(p + 1)
    OBVIOUS
  <2>2. items[p + 1].kind = "mod" => Balance(items, p + 1, p + 1) = 0 + 1
    <3>1. p + 1 \in Nat /\ p + 1 <= p + 1
      OBVIOUS
    <3>2. Balance(items, p + 1, p) = 0
      BY BalanceOfNone
    <3>3. items[p + 1].kind = "mod" => Balance(items, p + 1, p + 1) = Balance(items, p + 1, p) + 1
      BY <3>1, BalanceNext
    <3> QED BY <3>2, <3>3
  <2> QED BY <2>1, <2>2 DEF Levels
<1>3. Levels(items, p + 1) \subseteq 1..(p + 1) /\ N \subseteq 1..p
  BY DEF Levels
<1>4. \A j : j \in 1..(p + 1) <=> j \in 1..p \/ j = p + 1
  OBVIOUS
<1>5. p + 1 \notin 1..p
  OBVIOUS
<1> HIDE DEF N
<1>6. ASSUME NEW j PROVE j \in Levels(items, p + 1) <=> j \in N \/ (j = p + 1 /\ items[p + 1].kind = "mod")
  BY <1>1, <1>2, <1>3, <1>4, <1>5
<1>7. Levels(items, p + 1) = N \union (IF items[p + 1].kind = "mod" THEN {p + 1} ELSE {})
  BY <1>6
<1> QED BY <1>7 DEF N

(* What the property calls the marks in force. *)
LEMMA LevelsAround ==
  ASSUME NEW i \in Nat, i >= 1
  PROVE  MarksInForce(i) = InForce(source.items, Levels(source.items, i - 1) \union {i})
<1> DEFINE items == source.items
           L == {j \in 1..i : j = i \/ Encloses(j, i)}
           ms(j, k) == Cardinality({m \in j..k : items[m].kind = "mod"})
           es(j, k) == Cardinality({m \in j..k : items[m].kind = "end"})
<1>1. ASSUME NEW j \in 1..i, NEW k \in Nat, j <= k PROVE (ms(j, k) > es(j, k) <=> Balance(items, j, k) > 0)
  <2> DEFINE M == {m \in Nat : items[m].kind = "mod"}
             E == {m \in Nat : items[m].kind = "end"}
  <2>1. {m \in j..k : items[m].kind = "mod"} = (j..k) \intersect M
    OBVIOUS
  <2>2. {m \in j..k : items[m].kind = "end"} = (j..k) \intersect E
    OBVIOUS
  <2>3. Cardinality((j..k) \intersect M) \in Nat /\ Cardinality((j..k) \intersect E) \in Nat
    <3> HIDE DEF M, E
    <3>1. j \in Nat /\ j <= k + 1
      BY <1>1
    <3> QED BY <3>1, OneMoreOf
  <2>4. ms(j, k) \in Nat /\ es(j, k) \in Nat
    BY <2>1, <2>2, <2>3
  <2>5. Balance(items, j, k) = ms(j, k) - es(j, k)
    BY DEF Balance
  <2> HIDE DEF ms, es, items
  <2> QED BY <2>4, <2>5
<1>2. ASSUME NEW j \in 1..i PROVE Encloses(j, i) <=> j \in Levels(items, i - 1)
  <2>1. Encloses(j, i) <=> /\ j < i /\ items[j].kind = "mod"
                           /\ \A k \in j..(i - 1) : ms(j, k) > es(j, k)
    BY DEF Encloses
  <2>2. j \in Levels(items, i - 1) <=> /\ j \in 1..(i - 1) /\ items[j].kind = "mod"
                                       /\ \A k \in j..(i - 1) : Balance(items, j, k) > 0
    BY DEF Levels
  <2>3. \A k \in j..(i - 1) : ms(j, k) > es(j, k) <=> Balance(items, j, k) > 0
    <3> SUFFICES ASSUME NEW k \in j..(i - 1) PROVE ms(j, k) > es(j, k) <=> Balance(items, j, k) > 0
      OBVIOUS
    <3>1. k \in Nat /\ j <= k
      OBVIOUS
    <3> HIDE DEF ms, es, items
    <3> QED BY <1>1, <3>1
  <2>4. j < i <=> j \in 1..(i - 1)
    OBVIOUS
  <2> HIDE DEF ms, es, items
  <2> QED BY <2>1, <2>2, <2>3, <2>4
<1>3. L = Levels(items, i - 1) \union {i}
  <2>1. Levels(items, i - 1) \subseteq 1..i
    BY DEF Levels
  <2> HIDE DEF items
  <2> QED BY <1>2, <2>1
<1>4. MarksInForce(i) = InForce(items, L)
  BY DEF MarksInForce, InForce
<1> HIDE DEF L, items
<1>5. MarksInForce(i) = InForce(items, Levels(items, i - 1) \union {i})
  BY <1>3, <1>4
<1> QED BY <1>5 DEF items

LEMMA InForceNext ==
  ASSUME NEW items, NEW p \in Nat, NEW L, L \subseteq 1..p
  PROVE  InForce(items, L \union {p + 1}) =
           {t \in InForce(items, L) : \A u \in Range(items[p + 1].tags) : u.feature # t.feature}
             \union Range(items[p + 1].tags)
<1> DEFINE i == p + 1
           marks(j) == Range(items[j].tags)
           over(S, j, t) == \A k \in S : k > j => \A u \in marks(k) : u.feature # t.feature
<1>1. \A S : \A t : t \in InForce(items, S) <=> \E j \in S : t \in marks(j) /\ over(S, j, t)
  BY DEF InForce
<1>2. \A j \in L : i > j /\ ~(j > i)
  OBVIOUS
<1>3. ~(i > i)
  OBVIOUS
<1> HIDE DEF marks, i
<1>4. \A t : over(L \union {i}, i, t)
  BY <1>2, <1>3
<1>5. \A t : \A j \in L : over(L \union {i}, j, t) <=> over(L, j, t) /\ \A u \in marks(i) : u.feature # t.feature
  BY <1>2
<1> HIDE DEF over
<1>6. ASSUME NEW t
      PROVE  t \in InForce(items, L \union {i}) <=>
               \/ t \in InForce(items, L) /\ \A u \in marks(i) : u.feature # t.feature
               \/ t \in marks(i)
  <2>1. t \in InForce(items, L \union {i}) <=> \E j \in L \union {i} : t \in marks(j) /\ over(L \union {i}, j, t)
    BY <1>1
  <2>2. t \in InForce(items, L) <=> \E j \in L : t \in marks(j) /\ over(L, j, t)
    BY <1>1
  <2> QED BY <1>4, <1>5, <2>1, <2>2
<1>7. InForce(items, L \union {i}) =
        {t \in InForce(items, L) : \A u \in marks(i) : u.feature # t.feature} \union marks(i)
  BY <1>6
<1> QED BY <1>7 DEF i, marks

(* What merging keeps and adds. *)
LEMMA MergedMarks ==
  ASSUME NEW scope \in Seq(Tag), NEW level \in Seq(Tag)
  PROVE  Range(MergeScope(scope, level)) =
           {t \in Range(scope) : \A u \in Range(level) : u.feature # t.feature} \union Range(level)
<1> DEFINE K == Undeclared(scope, level)
           r == Retain(scope, K)
           c == r \o level
<1>1. /\ r \in Seq(Tag)
      /\ \E f \in [1..Len(r) -> 1..Len(scope)] :
           /\ \A i \in 1..Len(r) : f[i] \in K /\ r[i] = scope[f[i]]
           /\ \A k \in 1..Len(scope) : k \in K => \E i \in 1..Len(r) : f[i] = k
  <2> HIDE DEF K
  <2>1. r \in Seq(Tag)
    BY Retained
  <2>2. PICK f \in [1..Len(r) -> 1..Len(scope)] :
              /\ \A i \in 1..Len(r) : f[i] \in K /\ r[i] = scope[f[i]]
              /\ \A i, j \in 1..Len(r) : f[i] = f[j] => i = j
              /\ \A k \in 1..Len(scope) : k \in K => \E i \in 1..Len(r) : f[i] = k
    BY Retained
  <2> HIDE DEF r
  <2> QED BY <2>1, <2>2
<1>2. \A k : k \in K <=> k \in 1..Len(scope) /\ \A j \in 1..Len(level) : level[j].feature # scope[k].feature
  BY DEF Undeclared
<1>3. PICK m \in Nat, n \in Nat, l \in Nat : m = Len(r) /\ n = Len(level) /\ l = Len(scope)
  BY <1>1
<1>4. MergeScope(scope, level) = c
  BY DEF MergeScope
<1> HIDE DEF r, K
<1>5. PICK f \in [1..m -> 1..l] :
        /\ \A i \in 1..m : f[i] \in K /\ r[i] = scope[f[i]]
        /\ \A k \in 1..l : k \in K => \E i \in 1..m : f[i] = k
  BY <1>1, <1>3
<1>6. c \in Seq(Tag) /\ Len(c) = m + n /\ \A i \in 1..(m + n) : c[i] = IF i <= m THEN r[i] ELSE level[i - m]
  BY <1>1, <1>3, Concatenated
<1> HIDE DEF c
<1>7. Range(c) = {c[i] : i \in 1..(m + n)} /\ Range(level) = {level[j] : j \in 1..n}
      /\ Range(scope) = {scope[k] : k \in 1..l}
  <2>1. DOMAIN c = 1..(m + n)
    BY <1>6
  <2>2. DOMAIN level = 1..n /\ DOMAIN scope = 1..l
    BY <1>3
  <2> QED BY <2>1, <2>2 DEF Range
<1>8. {c[i] : i \in 1..(m + n)} = {r[i] : i \in 1..m} \union {level[j] : j \in 1..n}
  <2>1. \A i \in 1..(m + n) : \/ i \in 1..m /\ c[i] = r[i]
                              \/ i - m \in 1..n /\ c[i] = level[i - m]
    BY <1>6
  <2>2. \A i \in 1..m : i \in 1..(m + n) /\ c[i] = r[i]
    BY <1>6
  <2>3. \A j \in 1..n : j + m \in 1..(m + n) /\ c[j + m] = level[j]
    <3> SUFFICES ASSUME NEW j \in 1..n PROVE j + m \in 1..(m + n) /\ c[j + m] = level[j]
      OBVIOUS
    <3>1. j + m \in 1..(m + n) /\ ~(j + m <= m) /\ (j + m) - m = j
      OBVIOUS
    <3> QED BY <1>6, <3>1
  <2> DEFINE C == {c[i] : i \in 1..(m + n)}
  <2>4. ASSUME NEW x \in C PROVE x \in {r[i] : i \in 1..m} \union {level[j] : j \in 1..n}
    <3>1. PICK i \in 1..(m + n) : x = c[i]
      OBVIOUS
    <3> HIDE DEF C
    <3> QED BY <2>1, <3>1
  <2>5. ASSUME NEW i \in 1..m PROVE r[i] \in C
    BY <2>2
  <2>6. ASSUME NEW j \in 1..n PROVE level[j] \in C
    BY <2>3
  <2> HIDE DEF C
  <2>7. C = {r[i] : i \in 1..m} \union {level[j] : j \in 1..n}
    BY <2>4, <2>5, <2>6
  <2> QED BY <2>7 DEF C
<1>9. {r[i] : i \in 1..m} = {t \in Range(scope) : \A u \in Range(level) : u.feature # t.feature}
  <2>1. \A i \in 1..m : f[i] \in 1..l /\ r[i] = scope[f[i]] /\ \A j \in 1..n : level[j].feature # scope[f[i]].feature
    BY <1>2, <1>3, <1>5
  <2>2. \A k \in 1..l : (\A j \in 1..n : level[j].feature # scope[k].feature) => \E i \in 1..m : r[i] = scope[k]
    BY <1>2, <1>3, <1>5
  <2> DEFINE T == {t \in Range(scope) : \A u \in Range(level) : u.feature # t.feature}
  <2>3. ASSUME NEW i \in 1..m PROVE r[i] \in T
    BY <1>7, <2>1
  <2>4. ASSUME NEW t \in T PROVE \E i \in 1..m : r[i] = t
    <3>1. PICK k \in 1..l : t = scope[k]
      BY <1>7
    <3>2. \A j \in 1..n : level[j].feature # scope[k].feature
      BY <1>7, <3>1
    <3> QED BY <2>2, <3>1, <3>2
  <2> HIDE DEF T
  <2>5. {r[i] : i \in 1..m} = T
    BY <2>3, <2>4
  <2> QED BY <2>5 DEF T
<1> QED BY <1>4, <1>7, <1>8, <1>9

(* What a declaration at the next item is marked with. *)
LEMMA FramingMarks ==
  ASSUME NEW items, NEW p \in Nat, NEW st, Len(st) \in Nat, Len(st) >= 1,
         NEW f, Framing(items, p, st, f),
         st[Len(st)].scope \in Seq(Tag), items[p + 1].tags \in Seq(Tag)
  PROVE  Range(MergeScope(st[Len(st)].scope, items[p + 1].tags)) =
           InForce(items, Levels(items, p) \union {p + 1})
<1> DEFINE scope == st[Len(st)].scope
           level == items[p + 1].tags
<1>1. Range(scope) = InForce(items, Levels(items, p))
  BY DEF Framing
<1>2. Levels(items, p) \subseteq 1..p
  BY DEF Levels
<1>3. InForce(items, Levels(items, p) \union {p + 1}) =
        {t \in InForce(items, Levels(items, p)) : \A u \in Range(level) : u.feature # t.feature} \union Range(level)
  BY <1>2, InForceNext
<1>4. Range(MergeScope(scope, level)) =
        {t \in Range(scope) : \A u \in Range(level) : u.feature # t.feature} \union Range(level)
  BY MergedMarks
<1> HIDE DEF scope, level
<1>5. Range(MergeScope(scope, level)) = InForce(items, Levels(items, p) \union {p + 1})
  BY <1>1, <1>3, <1>4
<1> QED BY <1>5 DEF scope, level

(* The frames after a module is entered, after one is left, and after a function. *)
LEMMA FramingEnter ==
  ASSUME NEW items, NEW p \in Nat, NEW st \in Seq(Frame), Len(st) >= 1,
         NEW f, Framing(items, p, st, f), NEW frame \in Frame,
         items[p + 1].kind = "mod",
         Range(frame.scope) = InForce(items, Levels(items, p) \union {p + 1})
  PROVE  \E g : Framing(items, p + 1, Append(st, frame), g)
<1>1. PICK n \in Nat : n = Len(st) /\ n >= 1
  OBVIOUS
<1> DEFINE ap == Append(st, frame)
           g == [d \in 1..n |-> IF d = n THEN p + 1 ELSE f[d]]
<1>2. Len(ap) = n + 1 /\ ap[n + 1] = frame /\ \A d \in 1..n : ap[d] = st[d]
  BY <1>1
<1>3. /\ f \in [1..(n - 1) -> 1..p]
      /\ \A d \in 1..(n - 1) : Balance(items, f[d], p) = n - d
      /\ Levels(items, p) = {f[d] : d \in 1..(n - 1)}
      /\ \A d \in 1..n : Range(st[d].scope) = InForce(items, {f[e] : e \in 1..(d - 1)})
  BY <1>1 DEF Framing
<1>4. g[n] = p + 1 /\ \A d \in 1..(n - 1) : g[d] = f[d]
  BY <1>1
<1>5. \A d : d \in 1..n <=> d \in 1..(n - 1) \/ d = n
  BY <1>1
<1>6. g \in [1..n -> 1..(p + 1)]
  <2>1. \A d \in 1..n : (IF d = n THEN p + 1 ELSE f[d]) \in 1..(p + 1)
    BY <1>3, <1>5
  <2> QED BY <2>1
<1> HIDE DEF g, ap
<1>7. ASSUME NEW d \in 1..n PROVE Balance(items, g[d], p + 1) = (n + 1) - d
  <2>1. CASE d = n
    <3>1. Balance(items, p + 1, p) = 0
      BY BalanceOfNone
    <3>2. p + 1 \in Nat /\ p + 1 <= p + 1
      OBVIOUS
    <3>3. Balance(items, p + 1, p + 1) = Balance(items, p + 1, p) + 1
      BY <3>2, BalanceNext
    <3>4. Balance(items, g[d], p + 1) = 1
      BY <1>4, <2>1, <3>1, <3>3
    <3> QED BY <2>1, <3>4
  <2>2. CASE d \in 1..(n - 1)
    <3>1. f[d] \in Nat /\ f[d] <= p + 1
      BY <1>3, <2>2
    <3>2. Balance(items, f[d], p + 1) = Balance(items, f[d], p) + 1
      BY <3>1, BalanceNext
    <3>3. Balance(items, f[d], p) = n - d
      BY <1>3, <2>2
    <3>4. Balance(items, g[d], p + 1) = (n - d) + 1
      BY <1>4, <2>2, <3>2, <3>3
    <3> QED BY <3>4
  <2> QED BY <1>5, <2>1, <2>2
<1>8. Levels(items, p + 1) = {g[d] : d \in 1..n}
  <2>1. Levels(items, p + 1) = {j \in Levels(items, p) : Balance(items, j, p + 1) > 0} \union {p + 1}
    BY LevelsNext
  <2>2. \A d \in 1..(n - 1) : Balance(items, f[d], p + 1) > 0
    <3> SUFFICES ASSUME NEW d \in 1..(n - 1) PROVE Balance(items, f[d], p + 1) > 0
      OBVIOUS
    <3>1. Balance(items, f[d], p + 1) = (n + 1) - d
      BY <1>4, <1>5, <1>7
    <3> QED BY <1>1, <3>1
  <2>3. {j \in Levels(items, p) : Balance(items, j, p + 1) > 0} = {f[d] : d \in 1..(n - 1)}
    BY <1>3, <2>2
  <2> QED BY <1>4, <1>5, <2>1, <2>3
<1>9. ASSUME NEW d \in 1..(n + 1) PROVE Range(ap[d].scope) = InForce(items, {g[e] : e \in 1..(d - 1)})
  <2>1. CASE d = n + 1
    <3>1. 1..(d - 1) = 1..n
      BY <2>1
    <3>2. {g[e] : e \in 1..(d - 1)} = Levels(items, p) \union {p + 1}
      BY <1>3, <1>4, <1>5, <3>1
    <3> QED BY <1>2, <2>1, <3>2
  <2>2. CASE d \in 1..n
    <3>1. \A e \in 1..(d - 1) : e \in 1..(n - 1)
      BY <2>2
    <3>2. {g[e] : e \in 1..(d - 1)} = {f[e] : e \in 1..(d - 1)}
      BY <1>4, <3>1
    <3> QED BY <1>2, <1>3, <2>2, <3>2
  <2> QED BY <2>1, <2>2
<1>10. (n + 1) - 1 = n
  OBVIOUS
<1>11. Framing(items, p + 1, ap, g)
  BY <1>2, <1>6, <1>7, <1>8, <1>9, <1>10 DEF Framing
<1> QED BY <1>11 DEF ap

LEMMA FramingLeave ==
  ASSUME NEW items, NEW p \in Nat, NEW st \in Seq(Frame), Len(st) >= 2,
         NEW f, Framing(items, p, st, f), items[p + 1].kind = "end"
  PROVE  \E g : Framing(items, p + 1, SubSeq(st, 1, Len(st) - 1), g)
<1>1. PICK n \in Nat : n + 1 = Len(st) /\ n >= 1
  <2>1. Len(st) - 1 \in Nat /\ (Len(st) - 1) + 1 = Len(st) /\ Len(st) - 1 >= 1
    OBVIOUS
  <2> QED BY <2>1
<1> DEFINE sub == SubSeq(st, 1, n)
           g == [d \in 1..(n - 1) |-> f[d]]
<1>2. Len(sub) = n /\ \A d \in 1..n : sub[d] = st[d]
  BY <1>1
<1>3. /\ f \in [1..n -> 1..p]
      /\ \A d \in 1..n : Balance(items, f[d], p) = (n + 1) - d
      /\ Levels(items, p) = {f[d] : d \in 1..n}
      /\ \A d \in 1..(n + 1) : Range(st[d].scope) = InForce(items, {f[e] : e \in 1..(d - 1)})
  <2>1. Len(st) = n + 1 /\ (n + 1) - 1 = n
    BY <1>1
  <2> QED BY <2>1 DEF Framing
<1>4. \A d \in 1..(n - 1) : g[d] = f[d]
  OBVIOUS
<1>5. \A d : d \in 1..n <=> d \in 1..(n - 1) \/ d = n
  BY <1>1
<1>6. g \in [1..(n - 1) -> 1..(p + 1)]
  <2> SUFFICES ASSUME NEW d \in 1..(n - 1) PROVE f[d] \in 1..(p + 1)
    OBVIOUS
  <2>1. f[d] \in 1..p
    BY <1>3, <1>5
  <2> QED BY <2>1
<1> HIDE DEF g, sub
<1>7. ASSUME NEW d \in 1..n PROVE Balance(items, f[d], p + 1) = n - d
  <2>1. f[d] \in Nat /\ f[d] <= p + 1
    BY <1>3
  <2>2. Balance(items, f[d], p + 1) = Balance(items, f[d], p) - 1
    BY <2>1, BalanceNext
  <2>3. Balance(items, f[d], p) = (n + 1) - d
    BY <1>3
  <2>4. Balance(items, f[d], p + 1) = ((n + 1) - d) - 1
    BY <2>2, <2>3
  <2> QED BY <2>4
<1>8. Levels(items, p + 1) = {g[d] : d \in 1..(n - 1)}
  <2>1. Levels(items, p + 1) = {j \in Levels(items, p) : Balance(items, j, p + 1) > 0}
    BY LevelsNext
  <2>2. \A d \in 1..n : Balance(items, f[d], p + 1) > 0 <=> d \in 1..(n - 1)
    <3> SUFFICES ASSUME NEW d \in 1..n PROVE Balance(items, f[d], p + 1) > 0 <=> d \in 1..(n - 1)
      OBVIOUS
    <3>1. Balance(items, f[d], p + 1) = n - d
      BY <1>7
    <3> QED BY <3>1
  <2>3. {j \in Levels(items, p) : Balance(items, j, p + 1) > 0} = {f[d] : d \in 1..(n - 1)}
    BY <1>3, <1>5, <2>2
  <2> QED BY <1>4, <2>1, <2>3
<1>9. ASSUME NEW d \in 1..n PROVE Range(sub[d].scope) = InForce(items, {g[e] : e \in 1..(d - 1)})
  <2>1. \A e \in 1..(d - 1) : e \in 1..(n - 1)
    OBVIOUS
  <2>2. {g[e] : e \in 1..(d - 1)} = {f[e] : e \in 1..(d - 1)}
    BY <1>4, <2>1
  <2>3. d \in 1..(n + 1)
    OBVIOUS
  <2> QED BY <1>2, <1>3, <2>2, <2>3
<1>10. \A d \in 1..(n - 1) : Balance(items, g[d], p + 1) = n - d
  BY <1>4, <1>5, <1>7
<1>11. Framing(items, p + 1, sub, g)
  BY <1>2, <1>6, <1>8, <1>9, <1>10 DEF Framing
<1>12. Len(st) - 1 = n
  BY <1>1
<1> QED BY <1>11, <1>12 DEF sub

LEMMA FramingFn ==
  ASSUME NEW items, NEW p \in Nat, NEW st \in Seq(Frame), Len(st) >= 1,
         NEW f, Framing(items, p, st, f), items[p + 1].kind = "fn"
  PROVE  Framing(items, p + 1, st, f)
<1>1. PICK n \in Nat : n = Len(st) /\ n >= 1
  OBVIOUS
<1>2. /\ f \in [1..(n - 1) -> 1..p]
      /\ \A d \in 1..(n - 1) : Balance(items, f[d], p) = n - d
      /\ Levels(items, p) = {f[d] : d \in 1..(n - 1)}
      /\ \A d \in 1..n : Range(st[d].scope) = InForce(items, {f[e] : e \in 1..(d - 1)})
  BY <1>1 DEF Framing
<1>3. f \in [1..(n - 1) -> 1..(p + 1)]
  <2>1. \A d \in 1..(n - 1) : f[d] \in 1..(p + 1)
    BY <1>2
  <2>2. f = [d \in 1..(n - 1) |-> f[d]]
    BY <1>2
  <2> QED BY <2>1, <2>2
<1>4. ASSUME NEW d \in 1..(n - 1) PROVE Balance(items, f[d], p + 1) = n - d /\ n - d > 0
  <2>1. f[d] \in Nat /\ f[d] <= p + 1
    BY <1>2
  <2>2. Balance(items, f[d], p + 1) = Balance(items, f[d], p)
    BY <2>1, BalanceNext
  <2> QED BY <1>2, <2>2
<1>5. Levels(items, p + 1) = {f[d] : d \in 1..(n - 1)}
  <2>1. Levels(items, p + 1) = {j \in Levels(items, p) : Balance(items, j, p + 1) > 0}
    BY LevelsNext
  <2>2. \A d \in 1..(n - 1) : Balance(items, f[d], p + 1) > 0
    BY <1>4
  <2> QED BY <1>2, <2>1, <2>2
<1> QED BY <1>1, <1>2, <1>3, <1>4, <1>5 DEF Framing

-----------------------------------------------------------------------------
(* The marks of what was collected. *)

\* What item i is collected as has the marks in force there.
Placed ==
  \A i \in 1..pos : source.items[i].kind = "fn" =>
    /\ source.items[i].attr = "case" =>
         /\ Nth({"case"}, i) \in 1..Len(cases)
         /\ Range(cases[Nth({"case"}, i)].tags) = MarksInForce(i)
    /\ source.items[i].attr \in {"generator", "row"} =>
         /\ Nth({"generator", "row"}, i) \in 1..Len(gens)
         /\ Range(gens[Nth({"generator", "row"}, i)].tags) = MarksInForce(i)

Marked ==
  /\ \E f : Framing(source.items, pos, stack, f)
  /\ Len(cases) = Nth({"case"}, pos)
  /\ Len(gens) = Nth({"generator", "row"}, pos)
  /\ Placed

LEMMA NthNext ==
  ASSUME NEW attrs, NEW k \in Nat
  PROVE  /\ Nth(attrs, k) \in Nat
         /\ Nth(attrs, k + 1) =
              Nth(attrs, k) + (IF source.items[k + 1].kind = "fn" /\ source.items[k + 1].attr \in attrs THEN 1 ELSE 0)
<1> DEFINE X == {m \in Nat : source.items[m].kind = "fn" /\ source.items[m].attr \in attrs}
<1>1. ASSUME NEW i \in Nat PROVE Nth(attrs, i) = Cardinality((1..i) \intersect X)
  <2>1. {j \in 1..i : source.items[j].kind = "fn" /\ source.items[j].attr \in attrs} = (1..i) \intersect X
    OBVIOUS
  <2> HIDE DEF X
  <2> QED BY <2>1 DEF Nth
<1>2. k + 1 \in X <=> source.items[k + 1].kind = "fn" /\ source.items[k + 1].attr \in attrs
  OBVIOUS
<1> HIDE DEF X
<1>3. /\ Cardinality((1..k) \intersect X) \in Nat
      /\ Cardinality((1..(k + 1)) \intersect X) =
           Cardinality((1..k) \intersect X) + (IF k + 1 \in X THEN 1 ELSE 0)
  <2>1. 1 \in Nat /\ 1 <= k + 1
    OBVIOUS
  <2> QED BY <2>1, OneMoreOf
<1>4. Nth(attrs, k) = Cardinality((1..k) \intersect X)
  BY <1>1
<1>5. Nth(attrs, k + 1) = Cardinality((1..(k + 1)) \intersect X)
  BY <1>1
<1> QED BY <1>2, <1>3, <1>4, <1>5

LEMMA NthNone ==
  ASSUME NEW attrs PROVE Nth(attrs, 0) = 0
<1>1. 1..0 = {}
  OBVIOUS
<1>2. {j \in 1..0 : source.items[j].kind = "fn" /\ source.items[j].attr \in attrs} = {}
  BY <1>1
<1>3. Cardinality({}) = 0
  BY FS_EmptySet
<1> QED BY <1>2, <1>3 DEF Nth

LEMMA FramingOpened ==
  ASSUME NEW s
  PROVE  \E f : Framing(s.items, 0, Opened(s), f)
<1> DEFINE st == Opened(s)
           items == s.items
           f == [d \in 1..0 |-> 0]
<1>1. Len(st) = 1 /\ st[1].scope = <<>>
  BY DEF Opened
<1>2. 1..0 = {}
  OBVIOUS
<1>3. f \in [1..0 -> 1..0]
  BY <1>2
<1>4. Levels(items, 0) = {}
  BY <1>2 DEF Levels
<1> HIDE DEF f, st
<1>5. Range(st[1].scope) = {}
  BY <1>1 DEF Range
<1>6. InForce(items, {}) = {}
  BY DEF InForce
<1>7. \A d \in 1..1 : Range(st[d].scope) = InForce(items, {f[e] : e \in 1..(d - 1)})
  <2>1. \A d \in 1..1 : d = 1
    OBVIOUS
  <2>2. {f[e] : e \in 1..(1 - 1)} = {}
    BY <1>2
  <2> QED BY <1>5, <1>6, <2>1, <2>2
<1>8. {f[d] : d \in 1..0} = {}
  BY <1>2
<1>9. Len(st) - 1 = 0
  BY <1>1
<1>10. \A d \in 1..0 : Balance(items, f[d], 0) = Len(st) - d
  BY <1>2
<1>11. Framing(items, 0, st, f)
  BY <1>1, <1>3, <1>4, <1>7, <1>8, <1>9, <1>10 DEF Framing
<1> QED BY <1>11 DEF st

(* Nothing is walked yet. *)
LEMMA MarkedFresh ==
  ASSUME pos = 0, stack = Opened(source), cases = <<>>, gens = <<>>
  PROVE  Marked
<1>1. \E f : Framing(source.items, pos, stack, f)
  BY FramingOpened
<1>2. Len(cases) = 0 /\ Len(gens) = 0
  OBVIOUS
<1>3. Nth({"case"}, 0) = 0 /\ Nth({"generator", "row"}, 0) = 0
  BY NthNone
<1>4. Placed
  <2>1. 1..pos = {}
    OBVIOUS
  <2> QED BY <2>1 DEF Placed
<1> QED BY <1>1, <1>2, <1>3, <1>4 DEF Marked

LEMMA MarkedFreshNext ==
  ASSUME pos' = 0, stack' = Opened(source'), cases' = <<>>, gens' = <<>>
  PROVE  Marked'
<1>1. \E f : Framing(source'.items, pos', stack', f)
  BY FramingOpened
<1>2. Len(cases') = 0 /\ Len(gens') = 0
  OBVIOUS
<1>3. {j \in 1..0 : source'.items[j].kind = "fn" /\ source'.items[j].attr \in {"case"}} = {}
  OBVIOUS
<1>4. {j \in 1..0 : source'.items[j].kind = "fn" /\ source'.items[j].attr \in {"generator", "row"}} = {}
  OBVIOUS
<1>5. Nth({"case"}, pos)' = 0 /\ Nth({"generator", "row"}, pos)' = 0
  <2>1. Cardinality({}) = 0
    BY FS_EmptySet
  <2> QED BY <1>3, <1>4, <2>1 DEF Nth
<1>6. Placed'
  <2>1. 1..pos' = {}
    OBVIOUS
  <2> QED BY <2>1 DEF Placed
<1> QED BY <1>1, <1>2, <1>5, <1>6 DEF Marked

(* One item more, if the frames are right and a declaration has its marks. *)
LEMMA MarkedOne ==
  ASSUME Walked, Marked, pos \in Nat, pos' = pos + 1, source' = source,
         \E f : Framing(source.items, pos + 1, stack', f),
         IF ItemHere.kind = "fn" /\ ItemHere.attr = "case"
         THEN \E c : cases' = Append(cases, c) /\ Range(c.tags) = MarksInForce(pos + 1)
         ELSE cases' = cases,
         IF ItemHere.kind = "fn" /\ ItemHere.attr \in {"generator", "row"}
         THEN \E g : gens' = Append(gens, g) /\ Range(g.tags) = MarksInForce(pos + 1)
         ELSE gens' = gens
  PROVE  Marked'
<1> DEFINE C == {"case"}
           G == {"generator", "row"}
           isC == ItemHere.kind = "fn" /\ ItemHere.attr \in C
           isG == ItemHere.kind = "fn" /\ ItemHere.attr \in G
<1>1. /\ Nth(C, pos) \in Nat /\ Nth(C, pos + 1) = Nth(C, pos) + (IF isC THEN 1 ELSE 0)
      /\ Nth(G, pos) \in Nat /\ Nth(G, pos + 1) = Nth(G, pos) + (IF isG THEN 1 ELSE 0)
  BY NthNext DEF ItemHere
<1>2. PICK m \in Nat, n \in Nat : m = Len(cases) /\ n = Len(gens) /\ m = Nth(C, pos) /\ n = Nth(G, pos)
  BY <1>1 DEF Marked
<1>3. cases \in Seq(CaseDef) /\ gens \in Seq(GenDef)
  BY DEF Walked
<1>4. /\ Len(cases') = Nth(C, pos + 1) /\ m <= Len(cases') /\ Len(cases') \in Nat
      /\ \A k \in 1..m : cases'[k] = cases[k]
      /\ isC => Nth(C, pos + 1) = m + 1 /\ Len(cases') = m + 1 /\ Range(cases'[m + 1].tags) = MarksInForce(pos + 1)
  <2>1. CASE isC
    <3>1. PICK c : cases' = Append(cases, c) /\ Range(c.tags) = MarksInForce(pos + 1)
      BY <2>1
    <3>2. Len(cases') = m + 1 /\ cases'[m + 1] = c /\ \A k \in 1..m : cases'[k] = cases[k]
      <4>1. cases \in Seq(CaseDef) /\ m \in Nat /\ m = Len(cases)
        BY <1>2, <1>3
      <4>2. /\ Len(Append(cases, c)) = m + 1 /\ Append(cases, c)[m + 1] = c
            /\ \A k \in 1..m : Append(cases, c)[k] = cases[k]
        BY <4>1, Appended
      <4> QED BY <3>1, <4>2
    <3>3. Nth(C, pos + 1) = m + 1
      BY <1>1, <1>2, <2>1
    <3> QED BY <3>1, <3>2, <3>3
  <2>2. CASE ~isC
    <3>1. cases' = cases
      BY <2>2
    <3>2. Nth(C, pos + 1) = m
      <4>1. Nth(C, pos + 1) = Nth(C, pos) + 0
        BY <1>1, <2>2
      <4> QED BY <1>2, <4>1
    <3>3. Len(cases') = m /\ \A k \in 1..m : cases'[k] = cases[k]
      BY <1>2, <3>1
    <3>4. m <= m /\ m \in Nat
      OBVIOUS
    <3> HIDE DEF C, G, isC, isG
    <3> QED BY <2>2, <3>2, <3>3, <3>4
  <2> QED BY <2>1, <2>2
<1>5. /\ Len(gens') = Nth(G, pos + 1) /\ n <= Len(gens') /\ Len(gens') \in Nat
      /\ \A k \in 1..n : gens'[k] = gens[k]
      /\ isG => Nth(G, pos + 1) = n + 1 /\ Len(gens') = n + 1 /\ Range(gens'[n + 1].tags) = MarksInForce(pos + 1)
  <2>1. CASE isG
    <3>1. PICK g : gens' = Append(gens, g) /\ Range(g.tags) = MarksInForce(pos + 1)
      BY <2>1
    <3>2. Len(gens') = n + 1 /\ gens'[n + 1] = g /\ \A k \in 1..n : gens'[k] = gens[k]
      <4>1. gens \in Seq(GenDef) /\ n \in Nat /\ n = Len(gens)
        BY <1>2, <1>3
      <4>2. /\ Len(Append(gens, g)) = n + 1 /\ Append(gens, g)[n + 1] = g
            /\ \A k \in 1..n : Append(gens, g)[k] = gens[k]
        BY <4>1, Appended
      <4> QED BY <3>1, <4>2
    <3>3. Nth(G, pos + 1) = n + 1
      BY <1>1, <1>2, <2>1
    <3> QED BY <3>1, <3>2, <3>3
  <2>2. CASE ~isG
    <3>1. gens' = gens
      BY <2>2
    <3>2. Nth(G, pos + 1) = n
      <4>1. Nth(G, pos + 1) = Nth(G, pos) + 0
        BY <1>1, <2>2
      <4> QED BY <1>2, <4>1
    <3>3. Len(gens') = n /\ \A k \in 1..n : gens'[k] = gens[k]
      BY <1>2, <3>1
    <3>4. n <= n /\ n \in Nat
      OBVIOUS
    <3> HIDE DEF C, G, isC, isG
    <3> QED BY <2>2, <3>2, <3>3, <3>4
  <2> QED BY <2>1, <2>2
<1> DEFINE Good(i) ==
     source.items[i].kind = "fn" =>
       /\ source.items[i].attr = "case" =>
            /\ Nth(C, i) \in 1..Len(cases')
            /\ Range(cases'[Nth(C, i)].tags) = MarksInForce(i)
       /\ source.items[i].attr \in G =>
            /\ Nth(G, i) \in 1..Len(gens')
            /\ Range(gens'[Nth(G, i)].tags) = MarksInForce(i)
<1>6. ASSUME NEW i \in 1..pos PROVE Good(i)
  <2>1. ASSUME source.items[i].kind = "fn", source.items[i].attr = "case"
        PROVE  Nth(C, i) \in 1..Len(cases') /\ Range(cases'[Nth(C, i)].tags) = MarksInForce(i)
    <3>1. Nth(C, i) \in 1..m /\ Range(cases[Nth(C, i)].tags) = MarksInForce(i)
      BY <1>2, <2>1 DEF Marked, Placed
    <3> QED BY <1>4, <3>1
  <2>2. ASSUME source.items[i].kind = "fn", source.items[i].attr \in G
        PROVE  Nth(G, i) \in 1..Len(gens') /\ Range(gens'[Nth(G, i)].tags) = MarksInForce(i)
    <3>1. Nth(G, i) \in 1..n /\ Range(gens[Nth(G, i)].tags) = MarksInForce(i)
      BY <1>2, <2>2 DEF Marked, Placed
    <3> QED BY <1>5, <3>1
  <2> QED BY <2>1, <2>2
<1>7. Good(pos + 1)
  BY <1>4, <1>5 DEF ItemHere
<1>8. \A i \in 1..(pos + 1) : Good(i)
  <2>1. \A i \in 1..(pos + 1) : i \in 1..pos \/ i = pos + 1
    OBVIOUS
  <2> HIDE DEF Good
  <2> QED BY <1>6, <1>7, <2>1
<1>9. /\ \A attrs, i : Nth(attrs, i)' = Nth(attrs, i)
      /\ \A i : MarksInForce(i)' = MarksInForce(i)
  BY DEF Nth, MarksInForce, Encloses
<1>10. Placed'
  BY <1>8, <1>9 DEF Placed
<1>11. Len(cases') = Nth({"case"}, pos)' /\ Len(gens') = Nth({"generator", "row"}, pos)'
  <2>1. \A attrs : Nth(attrs, pos)' = Nth(attrs, pos + 1)
    BY DEF Nth
  <2> QED BY <1>4, <1>5, <2>1
<1>12. \E f : Framing(source'.items, pos', stack', f)
  OBVIOUS
<1> QED BY <1>10, <1>11, <1>12 DEF Marked

LEMMA MarkedKept ==
  ASSUME Walked, Marked, [Next]_vars
  PROVE  Marked'
<1>0. /\ Len(stack) \in Nat /\ Len(stack) >= 1 /\ stack \in Seq(Frame) /\ pos \in Nat
      /\ Here.prefix \in Name /\ Here.scope \in Seq(Tag)
  <2>1. Len(source.items) \in Nat /\ pos \in 0..Len(source.items)
    BY SuiteTyped DEF Walked
  <2>2. pos \in Nat
    BY <2>1
  <2> QED BY <2>2, HereTyped DEF Walked
<1>1. PICK f : Framing(source.items, pos, stack, f)
  BY DEF Marked
<1>2. ASSUME UNCHANGED walk PROVE Marked'
  <2>1. source' = source /\ pos' = pos /\ stack' = stack /\ cases' = cases /\ gens' = gens
    BY <1>2 DEF walk
  <2>2. /\ \A attrs, i : Nth(attrs, i)' = Nth(attrs, i)
        /\ \A attrs : Nth(attrs, pos)' = Nth(attrs, pos)
        /\ \A i : MarksInForce(i)' = MarksInForce(i)
    BY <2>1 DEF Nth, MarksInForce, Encloses
  <2>3. Placed'
    BY <2>1, <2>2 DEF Marked, Placed
  <2>4. \E g : Framing(source'.items, pos', stack', g)
    BY <1>1, <2>1
  <2> QED BY <2>1, <2>2, <2>3, <2>4 DEF Marked
<1>3. ASSUME ItemHere.tags \in Seq(Tag)
      PROVE  Range(MergeScope(Here.scope, ItemHere.tags)) =
               InForce(source.items, Levels(source.items, pos) \union {pos + 1})
  BY <1>0, <1>1, <1>3, FramingMarks DEF Here, ItemHere
<1>4. MarksInForce(pos + 1) = InForce(source.items, Levels(source.items, pos) \union {pos + 1})
  <2>1. pos + 1 \in Nat /\ pos + 1 >= 1 /\ (pos + 1) - 1 = pos
    BY <1>0
  <2> QED BY <2>1, LevelsAround
<1>5. CASE EnterModule
  <2> DEFINE frame == [prefix |-> Append(Here.prefix, IdentToSegment(ItemHere.ident)),
                       scope  |-> MergeScope(Here.scope, ItemHere.tags)]
  <2>1. /\ pos < Len(source.items) /\ ItemHere.kind = "mod" /\ ~ItemRefused(ItemHere)
        /\ pos' = pos + 1 /\ stack' = Append(stack, frame)
        /\ UNCHANGED <<source, cases, gens>>
    BY <1>5 DEF EnterModule, At, ItemHere
  <2>2. ItemHere.tags \in Seq(Tag) /\ MergeScope(Here.scope, ItemHere.tags) \in Seq(Tag) /\ ItemHere \in Item
    BY <2>1, ItemTyped
  <2>3. IdentToSegment(ItemHere.ident) \in Segment
    BY <2>2, IdentTyped
  <2>4. Append(Here.prefix, IdentToSegment(ItemHere.ident)) \in Name
    BY <1>0, <2>3 DEF Name
  <2>5. frame \in Frame /\ frame.scope = MergeScope(Here.scope, ItemHere.tags)
    BY <2>2, <2>4 DEF Frame
  <2> HIDE DEF frame
  <2>6. Range(frame.scope) = InForce(source.items, Levels(source.items, pos) \union {pos + 1})
    BY <1>3, <2>2, <2>5
  <2>7. \E g : Framing(source.items, pos + 1, Append(stack, frame), g)
    BY <1>0, <1>1, <2>1, <2>5, <2>6, FramingEnter DEF ItemHere
  <2> QED BY <1>0, <2>1, <2>7, MarkedOne
<1>6. CASE LeaveModule
  <2>1. /\ pos < Len(source.items) /\ ItemHere.kind = "end"
        /\ pos' = pos + 1 /\ stack' = SubSeq(stack, 1, Len(stack) - 1)
        /\ UNCHANGED <<source, cases, gens>>
    BY <1>6 DEF LeaveModule, At, ItemHere
  <2>2. Len(stack) >= 2
    <3>1. pos + 1 \in 0..Len(source.items)
      BY <2>1, ItemTyped
    <3>2. Cardinality(OfKind("end", pos + 1)) <= Cardinality(OfKind("mod", pos + 1))
      BY <3>1, SuiteTyped DEF Walked
    <3>3. Cardinality(OfKind("end", pos)) \in Nat /\ Cardinality(OfKind("end", pos + 1)) = Cardinality(OfKind("end", pos)) + 1
      BY <1>0, <2>1, OneMore DEF ItemHere
    <3>4. Cardinality(OfKind("mod", pos)) \in Nat /\ Cardinality(OfKind("mod", pos + 1)) = Cardinality(OfKind("mod", pos)) + 0
      BY <1>0, <2>1, OneMore DEF ItemHere
    <3>5. Len(stack) + Cardinality(OfKind("end", pos)) = 1 + Cardinality(OfKind("mod", pos))
      BY DEF Walked
    <3> QED BY <1>0, <3>2, <3>3, <3>4, <3>5
  <2>3. \E g : Framing(source.items, pos + 1, SubSeq(stack, 1, Len(stack) - 1), g)
    BY <1>0, <1>1, <2>1, <2>2, FramingLeave DEF ItemHere
  <2> QED BY <1>0, <2>1, <2>3, MarkedOne
<1>7. CASE TakeFn
  <2> DEFINE tags == MergeScope(Here.scope, ItemHere.tags)
             leaf == IF ItemHere.name = <<>> THEN <<IdentToSegment(ItemHere.ident)>> ELSE ItemHere.name
             case == [name |-> Here.prefix \o leaf, tags |-> tags]
             gen == [prefix |-> Here.prefix \o ItemHere.name, tags |-> tags,
                     cases |-> ItemHere.leaves, row |-> ItemHere.attr = "row"]
  <2>1. /\ pos < Len(source.items) /\ ItemHere.kind = "fn" /\ ~ItemRefused(ItemHere)
        /\ pos' = pos + 1 /\ UNCHANGED <<source, stack>>
        /\ cases' = IF ItemHere.attr # "case" THEN cases ELSE Append(cases, case)
        /\ gens' = IF ItemHere.attr \notin {"generator", "row"} THEN gens ELSE Append(gens, gen)
    BY <1>7 DEF TakeFn, At, ItemHere
  <2>2. Collected(ItemHere) => Range(tags) = MarksInForce(pos + 1)
    <3>1. Collected(ItemHere) => ItemHere.tags \in Seq(Tag)
      BY <2>1, ItemTyped
    <3> QED BY <1>3, <1>4, <3>1
  <2>3. \E g : Framing(source.items, pos + 1, stack, g)
    BY <1>0, <1>1, <2>1, FramingFn DEF ItemHere
  <2>4. case.tags = tags /\ gen.tags = tags
    OBVIOUS
  <2> HIDE DEF case, gen, tags
  <2>5. IF ItemHere.kind = "fn" /\ ItemHere.attr = "case"
        THEN \E c : cases' = Append(cases, c) /\ Range(c.tags) = MarksInForce(pos + 1)
        ELSE cases' = cases
    BY <2>1, <2>2, <2>4 DEF Collected
  <2>6. IF ItemHere.kind = "fn" /\ ItemHere.attr \in {"generator", "row"}
        THEN \E g : gens' = Append(gens, g) /\ Range(g.tags) = MarksInForce(pos + 1)
        ELSE gens' = gens
    BY <2>1, <2>2, <2>4 DEF Collected
  <2>7. stack' = stack /\ source' = source /\ pos' = pos + 1
    BY <2>1
  <2> QED BY <1>0, <2>3, <2>5, <2>6, <2>7, MarkedOne
<1>8. CASE Refuse \/ Validate \/ RegistryNext \/ EnumerateSuite \/ Lock \/ Check \/ UNCHANGED vars
  BY <1>2, <1>8 DEF Refuse, Validate, RegistryNext, Compile, Register, GetOrInit, EnumerateSuite, Lock, Check, vars
<1>9. CASE Edit
  <2>1. PICK s : Written(s)
    BY <1>9 DEF Edit
  <2>2. pos' = 0 /\ stack' = Opened(source') /\ cases' = <<>> /\ gens' = <<>>
    BY <2>1 DEF Written
  <2> QED BY <2>2, MarkedFreshNext
<1> QED BY <1>5, <1>6, <1>7, <1>8, <1>9 DEF Next, MacroNext

LEMMA MarkedFirst ==
  Init => Marked
BY MarkedFresh DEF Init, MacroInit

LEMMA MarkedHolds ==
  Marked => NearestMarkWins
BY DEF Marked, Placed, NearestMarkWins

(* NearestMarkWins: in a module tree of any depth and any number of items, what
   is collected is marked with what its own attribute and the modules around it
   say, the nearest of a feature; nothing leaks from an item before it. *)
THEOREM NearestMarkWinsCorrect ==
  Spec => []NearestMarkWins
<1>1. LockInv /\ Marked /\ [Next]_vars => Marked'
  BY MarkedKept DEF LockInv
<1> QED BY <1>1, MarkedFirst, MarkedHolds, LockInvariant, PTL DEF Spec
=============================================================================
