--------------------------- MODULE PinsBumpProofs ----------------------------
(* Proofs about PinsBump: what a passing gate has seen, and what a bump      *)
(* leaves behind.                                                            *)
EXTENDS PinsBump, SequenceTheorems, FiniteSetTheorems, TLAPS

(* What is assumed of the files. *)
LEMMA TreesTyped ==
  ASSUME NEW t \in Trees
  PROVE  DOMAIN t = Files /\ \A f \in Files : t[f] \in Seq(Line)
BY PinsAssumption

-----------------------------------------------------------------------------
(* Lines and lockfiles. *)

(* The bumped hashes of a line are hashes. *)
LEMMA BumpedHashes ==
  ASSUME NEW hs \in Seq(Hash), NEW rev \in Revs
  PROVE  [k \in DOMAIN hs |-> IF hs[k].bounded THEN [rev |-> rev, bounded |-> TRUE] ELSE hs[k]] \in Seq(Hash)
<1>1. DOMAIN hs = 1..Len(hs) /\ Len(hs) \in Nat /\ \A k \in DOMAIN hs : hs[k] \in Hash
  OBVIOUS
<1>2. [rev |-> rev, bounded |-> TRUE] \in Hash
  BY DEF Hash
<1>3. [k \in 1..Len(hs) |-> IF hs[k].bounded THEN [rev |-> rev, bounded |-> TRUE] ELSE hs[k]]
        \in [1..Len(hs) -> Hash]
  BY <1>1, <1>2
<1> QED BY <1>1, <1>3, SeqDef

(* A bump leaves a line a line, and only its hashes change. *)
LEMMA BumpLineTyped ==
  ASSUME NEW line \in Line, NEW rev \in Revs
  PROVE  /\ BumpLine(line, rev) \in Line
         /\ BumpLine(line, rev).pin = line.pin /\ BumpLine(line, rev).short = line.short
         /\ ~line.pin => BumpLine(line, rev) = line
         /\ line.pin => BumpLine(line, rev).hashes =
              [k \in DOMAIN line.hashes |->
                 IF line.hashes[k].bounded THEN [rev |-> rev, bounded |-> TRUE] ELSE line.hashes[k]]
<1>1. line.hashes \in Seq(Hash)
  BY DEF Line
<1>2. [k \in DOMAIN line.hashes |->
         IF line.hashes[k].bounded THEN [rev |-> rev, bounded |-> TRUE] ELSE line.hashes[k]] \in Seq(Hash)
  BY <1>1, BumpedHashes
<1> QED BY <1>2 DEF BumpLine, Line

(* The last bump of a line is all that is left of them. *)
LEMMA BumpTwice ==
  ASSUME NEW line \in Line, NEW a \in Revs, NEW b \in Revs
  PROVE  BumpLine(BumpLine(line, a), b) = BumpLine(line, b)
<1>1. CASE ~line.pin
  BY <1>1 DEF BumpLine
<1>2. CASE line.pin
  <2> DEFINE once == BumpLine(line, a)
             twice == BumpLine(once, b)
             direct == BumpLine(line, b)
  <2>1. once \in Line /\ once.pin
    BY <1>2, BumpLineTyped
  <2>2. \A k \in DOMAIN line.hashes :
          once.hashes[k] = IF line.hashes[k].bounded THEN [rev |-> a, bounded |-> TRUE] ELSE line.hashes[k]
    <3>1. once.hashes = [k \in DOMAIN line.hashes |->
            IF line.hashes[k].bounded THEN [rev |-> a, bounded |-> TRUE] ELSE line.hashes[k]]
      BY <1>2, BumpLineTyped
    <3> HIDE DEF once
    <3> QED BY <3>1
  <2>3. DOMAIN once.hashes = DOMAIN line.hashes
    BY <1>2, BumpLineTyped
  <2>4. twice.hashes = [k \in DOMAIN once.hashes |->
          IF once.hashes[k].bounded THEN [rev |-> b, bounded |-> TRUE] ELSE once.hashes[k]]
    BY <2>1, BumpLineTyped
  <2>5. direct.hashes = [k \in DOMAIN line.hashes |->
          IF line.hashes[k].bounded THEN [rev |-> b, bounded |-> TRUE] ELSE line.hashes[k]]
    BY <1>2, BumpLineTyped
  <2>6. twice.hashes = direct.hashes
    <3> HIDE DEF once, twice, direct
    <3>1. ASSUME NEW k \in DOMAIN line.hashes
          PROVE  (IF once.hashes[k].bounded THEN [rev |-> b, bounded |-> TRUE] ELSE once.hashes[k])
                   = IF line.hashes[k].bounded THEN [rev |-> b, bounded |-> TRUE] ELSE line.hashes[k]
      <4>1. CASE line.hashes[k].bounded
        <5>1. once.hashes[k] = [rev |-> a, bounded |-> TRUE]
          BY <2>2, <4>1
        <5>2. once.hashes[k].bounded
          BY <5>1
        <5> QED BY <4>1, <5>2
      <4>2. CASE ~line.hashes[k].bounded
        <5>1. once.hashes[k] = line.hashes[k]
          BY <2>2, <4>2
        <5> QED BY <4>2, <5>1
      <4> QED BY <4>1, <4>2
    <3>2. twice.hashes = [k \in DOMAIN line.hashes |->
            IF once.hashes[k].bounded THEN [rev |-> b, bounded |-> TRUE] ELSE once.hashes[k]]
      BY <2>3, <2>4
    <3> QED BY <2>5, <3>1, <3>2
  <2>7. twice \in Line /\ direct \in Line /\ twice.pin = direct.pin /\ twice.short = direct.short
    <3>1. once.pin = line.pin /\ once.short = line.short
      BY BumpLineTyped
    <3>2. direct \in Line /\ direct.pin = line.pin /\ direct.short = line.short
      BY BumpLineTyped
    <3> HIDE DEF once, direct
    <3>3. twice \in Line /\ twice.pin = once.pin /\ twice.short = once.short
      BY <2>1, BumpLineTyped
    <3> QED BY <3>1, <3>2, <3>3
  <2> HIDE DEF once, twice, direct
  <2>8. twice = direct
    BY <2>6, <2>7 DEF Line
  <2> QED BY <2>8 DEF once, twice, direct
<1> QED BY <1>1, <1>2

(* The hashes that the gate finds in a fresh npm lockfile are the commits that
   the pins of its package.json mean. *)
LEMMA FreshJsRevs ==
  ASSUME NEW file \in Seq(Line)
  PROVE  JsLockRevs(JsLockOf(file)) = UNION {Commits(file[k]) : k \in {m \in DOMAIN file : file[m].pin}}
<1> DEFINE declared == [k \in DOMAIN file |-> LockLine(2, file[k].pin, Commits(file[k]))]
           blocks == [k \in 1..(2 * Len(file)) |-> Block(file[(k + 1) \div 2], k)]
           lock == JsLockOf(file)
           n == Len(file)
<1>0. n \in Nat /\ n = Len(file)
  OBVIOUS
<1>1. n \in Nat /\ DOMAIN file = 1..n /\ DOMAIN declared = 1..n /\ 2 * n \in Nat
  OBVIOUS
<1>2. declared \in Seq({declared[k] : k \in 1..n}) /\ Len(declared) = n
  <2>1. declared \in [1..n -> {declared[k] : k \in 1..n}]
    BY <1>1
  <2> HIDE DEF declared
  <2>2. declared \in Seq({declared[k] : k \in 1..n})
    BY <1>1, <2>1, SeqDef
  <2> QED BY <1>1, <2>1, <2>2
<1>3. blocks \in Seq({blocks[k] : k \in 1..(2 * n)}) /\ Len(blocks) = 2 * n
  <2>1. blocks \in [1..(2 * n) -> {blocks[k] : k \in 1..(2 * n)}] /\ DOMAIN blocks = 1..(2 * n)
    OBVIOUS
  <2> HIDE DEF blocks
  <2>2. blocks \in Seq({blocks[k] : k \in 1..(2 * n)})
    BY <1>1, <2>1, SeqDef
  <2> QED BY <1>1, <2>1, <2>2
<1>4. lock = declared \o blocks
  BY DEF JsLockOf
<1> HIDE DEF declared, blocks, lock, n
<1>5. /\ Len(lock) = 3 * n /\ DOMAIN lock = 1..(3 * n)
      /\ \A k \in 1..n : lock[k] = declared[k]
      /\ \A k \in 1..(2 * n) : lock[n + k] = blocks[k]
  <2>1. \A S, T : \A s \in Seq(S), t \in Seq(T) :
          /\ Len(s \o t) = Len(s) + Len(t)
          /\ DOMAIN (s \o t) = 1..(Len(s) + Len(t))
          /\ \A k \in 1..Len(s) : (s \o t)[k] = s[k]
          /\ \A k \in 1..Len(t) : (s \o t)[Len(s) + k] = t[k]
    OBVIOUS
  <2>2. /\ Len(lock) = n + 2 * n
        /\ DOMAIN lock = 1..(n + 2 * n)
        /\ \A k \in 1..n : lock[k] = declared[k]
        /\ \A k \in 1..(2 * n) : lock[n + k] = blocks[k]
    <3>1. PICK S, T : declared \in Seq(S) /\ blocks \in Seq(T)
      BY <1>2, <1>3
    <3>2. /\ Len(declared \o blocks) = Len(declared) + Len(blocks)
          /\ DOMAIN (declared \o blocks) = 1..(Len(declared) + Len(blocks))
          /\ \A k \in 1..Len(declared) : (declared \o blocks)[k] = declared[k]
          /\ \A k \in 1..Len(blocks) : (declared \o blocks)[Len(declared) + k] = blocks[k]
      BY <2>1, <3>1
    <3> QED BY <1>2, <1>3, <1>4, <3>2
  <2> QED BY <1>1, <2>2
<1>6. \A k \in 1..n : lock[k].indent = 2 /\ lock[k].names = file[k].pin /\ lock[k].hashes = Commits(file[k])
  <2>1. SUFFICES ASSUME NEW k \in 1..n
                 PROVE  /\ lock[k].indent = 2 /\ lock[k].names = file[k].pin
                        /\ lock[k].hashes = Commits(file[k])
    OBVIOUS
  <2>2. declared[k] = LockLine(2, file[k].pin, Commits(file[k]))
    BY <1>1 DEF declared
  <2> QED BY <1>5, <2>2 DEF LockLine
<1>7. ASSUME NEW m \in 1..n, NEW i, i = n + 2 * m - 1
      PROVE  /\ lock[i].indent = 1 /\ lock[i].names = file[m].pin /\ lock[i].hashes = {}
             /\ lock[i + 1].indent = 2 /\ lock[i + 1].names = FALSE
             /\ lock[i + 1].hashes = Commits(file[m])
  <2>1. PICK a \in 1..(2 * n), b \in 1..(2 * n) : a = 2 * m - 1 /\ b = 2 * m
    BY <1>1
  <2>2. (a + 1) \div 2 = m /\ a % 2 = 1 /\ (b + 1) \div 2 = m /\ b % 2 # 1
    BY <2>1
  <2>3. lock[n + a] = Block(file[(a + 1) \div 2], a) /\ lock[n + b] = Block(file[(b + 1) \div 2], b)
    <3>1. blocks[a] = Block(file[(a + 1) \div 2], a) /\ blocks[b] = Block(file[(b + 1) \div 2], b)
      BY <1>0 DEF blocks
    <3> QED BY <1>5, <3>1
  <2>4. lock[n + a] = LockLine(1, file[m].pin, {}) /\ lock[n + b] = LockLine(2, FALSE, Commits(file[m]))
    BY <2>2, <2>3 DEF Block
  <2>5. i = n + a /\ i + 1 = n + b
    BY <1>1, <1>7, <2>1
  <2> QED BY <2>4, <2>5 DEF LockLine
<1>8. ASSUME NEW i \in 1..(3 * n)
      PROVE  \/ i \in 1..n
             \/ \E m \in 1..n : i = n + 2 * m - 1
             \/ \E m \in 1..n : i - 1 = n + 2 * m - 1
  <2>1. CASE i <= n
    BY <1>1, <2>1
  <2>2. CASE i > n
    <3>1. i - n \in 1..(2 * n)
      BY <1>1, <2>2
    <3>2. PICK d \in 1..(2 * n) : d = i - n
      BY <3>1
    <3>3. PICK m \in 1..n : d = 2 * m - 1 \/ d = 2 * m
      <4>1. (d + 1) \div 2 \in 1..n /\ (d = 2 * ((d + 1) \div 2) - 1 \/ d = 2 * ((d + 1) \div 2))
        BY <1>1
      <4> QED BY <4>1
    <3>4. i = n + d
      BY <1>1, <3>2
    <3>5. CASE d = 2 * m - 1
      <4>1. i = n + 2 * m - 1
        BY <1>1, <3>4, <3>5
      <4> QED BY <4>1
    <3>6. CASE d = 2 * m
      <4>1. i - 1 = n + 2 * m - 1
        BY <1>1, <3>4, <3>6
      <4> QED BY <4>1
    <3> QED BY <3>3, <3>5, <3>6
  <2> QED BY <1>1, <2>1, <2>2
<1>9. ASSUME NEW i \in 1..(3 * n), lock[i].names, NEW l \in i..(3 * n), InBlock(lock, i, l),
             NEW h \in lock[l].hashes
      PROVE  \E m \in 1..n : file[m].pin /\ h \in Commits(file[m])
  <2>1. l = i \/ lock[i + 1].indent > lock[i].indent
    BY <1>1, <1>9 DEF InBlock
  <2>2. l = i \/ l = i + 1 \/ lock[i + 2].indent > lock[i].indent
    BY <1>1, <1>9 DEF InBlock
  <2>4. CASE i \in 1..n
    <3>1. lock[i].indent = 2 /\ lock[i].names = file[i].pin /\ lock[i].hashes = Commits(file[i])
      BY <1>6, <2>4
    <3>2. l = i
      <4>1. SUFFICES ASSUME l # i PROVE FALSE
        OBVIOUS
      <4>5. i + 1 \in 1..(3 * n)
        BY <1>1, <1>9, <4>1
      <4>2. PICK j \in 1..(3 * n) : j = i + 1
        BY <4>5
      <4>3. lock[j].indent \in {1, 2}
        <5>1. CASE j \in 1..n
          BY <1>6, <5>1
        <5>2. ASSUME NEW m \in 1..n, j = n + 2 * m - 1
              PROVE  lock[j].indent = 1
          BY <1>7, <5>2
        <5>3. ASSUME NEW m \in 1..n, j - 1 = n + 2 * m - 1
              PROVE  lock[j].indent = 2
          <6>1. lock[(j - 1) + 1].indent = 2
            BY <1>7, <5>3
          <6> QED BY <1>1, <6>1
        <5> QED BY <1>8, <5>1, <5>2, <5>3
      <4> QED BY <2>1, <3>1, <4>1, <4>2, <4>3
    <3> QED BY <1>9, <2>4, <3>1, <3>2
  <2>5. ASSUME NEW m \in 1..n, i = n + 2 * m - 1
        PROVE  file[m].pin /\ h \in Commits(file[m])
    <3>1. lock[i].indent = 1 /\ lock[i].names = file[m].pin /\ lock[i].hashes = {}
      BY <1>7, <2>5
    <3>3. lock[i + 1].hashes = Commits(file[m])
      BY <1>7, <2>5
    <3>4. l = i + 1
      <4>1. SUFFICES ASSUME l # i, l # i + 1 PROVE FALSE
        BY <1>9, <3>1
      <4>2. i + 2 <= 3 * n
        BY <1>1, <1>9, <4>1
      <4>3. PICK o \in 1..n, j \in Nat : o = m + 1 /\ j = i + 2 /\ j = n + 2 * o - 1
        BY <1>1, <2>5, <4>2
      <4>4. lock[j].indent = 1
        BY <1>7, <4>3
      <4>5. lock[i + 2].indent = 1
        BY <4>3, <4>4
      <4> QED BY <2>2, <3>1, <4>1, <4>5
    <3> QED BY <1>9, <3>1, <3>3, <3>4
  <2>6. ASSUME NEW m \in 1..n, i - 1 = n + 2 * m - 1
        PROVE  FALSE
    <3>1. lock[(i - 1) + 1].names = FALSE
      BY <1>7, <2>6
    <3> QED BY <1>1, <1>9, <3>1
  <2> QED BY <1>8, <2>4, <2>5, <2>6
<1>10. JsLockRevs(lock) \subseteq UNION {Commits(file[k]) : k \in {m \in DOMAIN file : file[m].pin}}
  <2>1. ASSUME NEW h \in JsLockRevs(lock)
        PROVE  h \in UNION {Commits(file[k]) : k \in {m \in DOMAIN file : file[m].pin}}
    <3>1. PICK i \in 1..(3 * n) : lock[i].names /\ \E l \in i..(3 * n) :
            InBlock(lock, i, l) /\ h \in lock[l].hashes
      BY <1>5 DEF JsLockRevs
    <3>2. PICK l \in i..(3 * n) : InBlock(lock, i, l) /\ h \in lock[l].hashes
      BY <3>1
    <3>3. \E m \in 1..n : file[m].pin /\ h \in Commits(file[m])
      BY <1>9, <3>1, <3>2
    <3> QED BY <1>1, <3>3
  <2> QED BY <2>1
<1>11. ASSUME NEW m \in 1..n, file[m].pin, NEW h \in Commits(file[m])
       PROVE  h \in JsLockRevs(lock)
  <2>1. m \in DOMAIN lock /\ lock[m].names /\ h \in lock[m].hashes
    BY <1>1, <1>5, <1>6, <1>11
  <2>2. InBlock(lock, m, m) /\ m \in m..Len(lock)
    BY <1>1, <1>5 DEF InBlock
  <2>3. h \in UNION {lock[k].hashes : k \in {l \in m..Len(lock) : InBlock(lock, m, l)}}
    BY <2>1, <2>2
  <2> QED BY <2>1, <2>3 DEF JsLockRevs
<1>12. UNION {Commits(file[k]) : k \in {m \in DOMAIN file : file[m].pin}} \subseteq JsLockRevs(lock)
  BY <1>1, <1>11
<1> QED BY <1>10, <1>12 DEF lock

-----------------------------------------------------------------------------
(* The types, and what the gate saw. *)

Typed ==
  /\ tree \in Trees
  /\ DOMAIN files = Files /\ \A f \in Files : files[f] \in Seq(Line)
  /\ target = {} \/ \E rev \in Revs : target = {rev}
  /\ given \subseteq Files
  /\ todo \in Seq(Files)
  /\ writing \subseteq Seq(Line)
  /\ writing # {} => todo # <<>>

\* A gate that passed would pass again: the lockfiles are as it saw them.
GateStands ==
  \A g \in passed :
    /\ g.js \subseteq Packages
    /\ g.expect = {} \/ \E rev \in Revs : g.expect = {rev}
    /\ Gate(g.js, g.expect) = "ok"

(* The declared commits are revs. *)
LEMMA CommitsTyped ==
  ASSUME NEW line \in Line
  PROVE  Commits(line) \subseteq Revs
<1>1. line.hashes \in Seq(Hash) /\ line.short \subseteq Revs
  BY DEF Line
<1>2. \A k \in DOMAIN line.hashes : line.hashes[k] \in Hash
  BY <1>1
<1>3. \A k \in DOMAIN line.hashes : line.hashes[k].rev \in Revs
  BY <1>2 DEF Hash
<1> QED BY <1>1, <1>3 DEF Commits

(* A bumped file is one. *)
LEMMA BumpedTyped ==
  ASSUME NEW file \in Seq(Line), NEW rev \in Revs
  PROVE  /\ Bumped(file, rev) \in Seq(Line)
         /\ DOMAIN Bumped(file, rev) = DOMAIN file /\ Len(Bumped(file, rev)) = Len(file)
         /\ \A k \in DOMAIN file : Bumped(file, rev)[k] = BumpLine(file[k], rev)
<1>1. Len(file) \in Nat /\ DOMAIN file = 1..Len(file) /\ \A k \in DOMAIN file : file[k] \in Line
  OBVIOUS
<1>2. \A k \in DOMAIN file : BumpLine(file[k], rev) \in Line
  BY <1>1, BumpLineTyped
<1>3. Bumped(file, rev) \in [1..Len(file) -> Line]
  BY <1>1, <1>2 DEF Bumped
<1>4. Bumped(file, rev) \in Seq(Line)
  BY <1>1, <1>3, SeqDef
<1>5. \A k \in DOMAIN file : Bumped(file, rev)[k] = BumpLine(file[k], rev)
  BY DEF Bumped
<1> QED BY <1>1, <1>3, <1>4, <1>5

(* A set of files is listed without a file left out. *)
LEMMA ListsAll ==
  ASSUME NEW S, IsFiniteSet(S)
  PROVE  SetToSeq(S) \in Seq(S) /\ Range(SetToSeq(S)) = S
<1> DEFINE n == Cardinality(S)
<1>1. n \in Nat /\ ExistsBijection(1..n, S)
  BY FS_CardinalityType
<1>2. PICK b \in [1..n -> S] : IsInjective(b)
  BY <1>1 DEF ExistsBijection, Bijection, Injection
<1>3. SetToSeq(S) \in [1..n -> S] /\ IsInjective(SetToSeq(S))
  BY <1>2 DEF SetToSeq
<1>4. SetToSeq(S) \in Injection(1..n, S)
  BY <1>3 DEF Injection
<1>5. Cardinality(1..n) = n
  BY <1>1, FS_Interval
<1>6. SetToSeq(S) \in Surjection(1..n, S)
  BY <1>4, <1>5, FS_Injection
<1>7. Range(SetToSeq(S)) = S
  BY <1>3, <1>6 DEF Surjection, Range
<1>8. SetToSeq(S) \in Seq(S)
  BY <1>1, <1>3, SeqDef
<1> QED BY <1>7, <1>8

(* The files given to a bump are all on its list. *)
LEMMA InOrderAll ==
  ASSUME NEW fs \in SUBSET Files
  PROVE  /\ InOrder(fs) \in Seq(Files) /\ Range(InOrder(fs)) = fs
         /\ fs # {} => InOrder(fs) # <<>>
<1> DEFINE a == SetToSeq(fs \intersect Tomls)
           b == SetToSeq(fs \intersect Packages)
           c == SetToSeq(fs \intersect Workflows)
<1>1. \A S : IsFiniteSet(fs \intersect S)
  <2>1. \A S : fs \intersect S \subseteq Files
    OBVIOUS
  <2> QED BY <2>1, FS_Subset, PinsAssumption
<1>2. /\ a \in Seq(fs \intersect Tomls) /\ Range(a) = fs \intersect Tomls
      /\ b \in Seq(fs \intersect Packages) /\ Range(b) = fs \intersect Packages
      /\ c \in Seq(fs \intersect Workflows) /\ Range(c) = fs \intersect Workflows
  BY <1>1, ListsAll
<1> HIDE DEF a, b, c
<1>3. a \in Seq(fs) /\ b \in Seq(fs) /\ c \in Seq(fs)
  BY <1>2
<1>4. \A s, t \in Seq(fs) : s \o t \in Seq(fs) /\ Range(s \o t) = Range(s) \union Range(t)
  <2>1. SUFFICES ASSUME NEW s \in Seq(fs), NEW t \in Seq(fs)
                 PROVE  s \o t \in Seq(fs) /\ Range(s \o t) = Range(s) \union Range(t)
    OBVIOUS
  <2>2. /\ DOMAIN (s \o t) = 1..(Len(s) + Len(t)) /\ Len(s) \in Nat /\ Len(t) \in Nat
        /\ DOMAIN s = 1..Len(s) /\ DOMAIN t = 1..Len(t)
        /\ \A k \in DOMAIN s : k \in DOMAIN (s \o t) /\ (s \o t)[k] = s[k]
        /\ \A k \in DOMAIN t : Len(s) + k \in DOMAIN (s \o t) /\ (s \o t)[Len(s) + k] = t[k]
    OBVIOUS
  <2>3. ASSUME NEW k \in DOMAIN (s \o t)
        PROVE  (s \o t)[k] \in Range(s) \union Range(t)
    <3>1. CASE k <= Len(s)
      BY <2>2, <3>1 DEF Range
    <3>2. CASE k > Len(s)
      <4>1. k - Len(s) \in DOMAIN t /\ k = Len(s) + (k - Len(s))
        BY <2>2, <3>2
      <4> QED BY <2>2, <4>1 DEF Range
    <3> QED BY <2>2, <3>1, <3>2
  <2>4. Range(s) \subseteq Range(s \o t) /\ Range(t) \subseteq Range(s \o t)
    BY <2>2 DEF Range
  <2>5. Range(s \o t) \subseteq Range(s) \union Range(t)
    BY <2>3 DEF Range
  <2> QED BY <2>4, <2>5
<1>5. InOrder(fs) = (a \o b) \o c
  BY DEF InOrder, a, b, c
<1>6. InOrder(fs) \in Seq(fs) /\ Range(InOrder(fs)) = (Range(a) \union Range(b)) \union Range(c)
  <2>1. a \o b \in Seq(fs) /\ Range(a \o b) = Range(a) \union Range(b)
    BY <1>3, <1>4
  <2>2. (a \o b) \o c \in Seq(fs) /\ Range((a \o b) \o c) = Range(a \o b) \union Range(c)
    BY <1>3, <1>4, <2>1
  <2> QED BY <1>5, <2>1, <2>2
<1>7. Range(InOrder(fs)) = fs
  BY <1>2, <1>6 DEF Files
<1>8. InOrder(fs) = <<>> => Range(InOrder(fs)) = {}
  BY DEF Range
<1> QED BY <1>6, <1>7, <1>8

(* The files start typed, with no gate passed. *)
LEMMA TypedInit == Init => Typed /\ GateStands
BY TreesTyped DEF Init, Typed, GateStands

(* Every step keeps the types. *)
LEMMA TypedStep ==
  ASSUME Typed, [Next]_vars
  PROVE  Typed'
<1>1. CASE CargoUpdate \/ NpmInstall \/ RunGate \/ UNCHANGED vars
  BY <1>1 DEF CargoUpdate, NpmInstall, RunGate, vars, bump, locks, Typed
<1>2. CASE StartBump
  <2>1. PICK rev \in Revs : target' = {rev}
    BY <1>2 DEF StartBump
  <2>2. given' \in SUBSET Files /\ todo' = InOrder(given')
    BY <1>2 DEF StartBump
  <2>3. todo' \in Seq(Files)
    BY <2>2, InOrderAll
  <2>4. writing = {}
    BY <1>2 DEF StartBump, Typed
  <2> QED BY <1>2, <2>1, <2>2, <2>3, <2>4 DEF StartBump, Typed
<1>3. CASE BumpFile
  <2>1. PICK rev \in target :
          IF Sites(todo[1], rev) = {}
          THEN /\ told' = "pinless" /\ given' = {todo[1]} /\ todo' = <<>>
               /\ UNCHANGED <<files, writing>>
          ELSE /\ writing' = {Bumped(files[todo[1]], rev)}
               /\ files' = [files EXCEPT ![todo[1]] = <<>>]
               /\ UNCHANGED <<given, todo, told>>
    BY <1>3 DEF BumpFile
  <2>2. todo[1] \in Files /\ todo # <<>> /\ writing = {} /\ rev \in Revs
    BY <1>3 DEF BumpFile, Typed
  <2>3. files[todo[1]] \in Seq(Line)
    BY <2>2 DEF Typed
  <2>4. Bumped(files[todo[1]], rev) \in Seq(Line)
    BY <2>2, <2>3, BumpedTyped
  <2>5. CASE Sites(todo[1], rev) = {}
    <3>1. given' = {todo[1]} /\ todo' = <<>> /\ UNCHANGED <<files, writing>>
      BY <2>1, <2>5
    <3> QED BY <1>3, <2>2, <3>1 DEF BumpFile, Typed
  <2>6. CASE Sites(todo[1], rev) # {}
    <3>1. /\ writing' = {Bumped(files[todo[1]], rev)}
          /\ files' = [files EXCEPT ![todo[1]] = <<>>]
          /\ UNCHANGED <<given, todo, told>>
      BY <2>1, <2>6
    <3>2. DOMAIN files' = Files /\ \A f \in Files : files'[f] \in Seq(Line)
      BY <3>1 DEF Typed
    <3> QED BY <1>3, <2>2, <2>4, <3>1, <3>2 DEF BumpFile, Typed
  <2> QED BY <2>5, <2>6
<1>4. CASE Write
  <2>1. PICK text \in writing : files' = [files EXCEPT ![todo[1]] = text]
    BY <1>4 DEF Write
  <2>2. todo # <<>> /\ text \in Seq(Line)
    BY <2>1 DEF Typed
  <2>3. DOMAIN files' = Files /\ \A f \in Files : files'[f] \in Seq(Line)
    BY <2>1, <2>2 DEF Typed
  <2>4. Tail(todo) \in Seq(Files)
    BY <2>2 DEF Typed
  <2> QED BY <1>4, <2>3, <2>4 DEF Write, bump, Typed
<1>5. CASE Fail
  BY <1>5 DEF Fail, bump, Typed
<1>6. CASE Restore
  <2>1. PICK f \in Files : files' = [files EXCEPT ![f] = tree[f]]
    BY <1>6 DEF Restore
  <2>2. DOMAIN files' = Files /\ \A g \in Files : files'[g] \in Seq(Line)
    BY <2>1, TreesTyped DEF Typed
  <2> QED BY <1>6, <2>2 DEF Restore, bump, Typed
<1> QED BY <1>1, <1>2, <1>3, <1>4, <1>5, <1>6 DEF Next

(* Lockfiles are only written by steps that forget the gate. *)
LEMMA GateStandsStep ==
  ASSUME GateStands, [Next]_vars
  PROVE  GateStands'
<1>1. CASE CargoUpdate \/ NpmInstall
  BY <1>1 DEF CargoUpdate, NpmInstall, GateStands
<1>2. CASE RunGate
  <2>1. PICK js \in SUBSET Packages, expect \in {{}} \union {{rev} : rev \in Revs} :
          passed' = IF Gate(js, expect) = "ok" THEN {[js |-> js, expect |-> expect]} ELSE {}
    BY <1>2 DEF RunGate
  <2>2. \A a, b : Gate(a, b)' = Gate(a, b)
    BY <1>2 DEF RunGate, locks, Gate, GitPackages
  <2> QED BY <2>1, <2>2 DEF GateStands
<1>3. CASE UNCHANGED <<locks, passed>>
  <2>1. \A a, b : Gate(a, b)' = Gate(a, b)
    BY <1>3 DEF locks, Gate, GitPackages
  <2> QED BY <1>3, <2>1 DEF GateStands
<1> QED BY <1>1, <1>2, <1>3 DEF Next, StartBump, BumpFile, Write, Fail, Restore, vars

(* A gate that passes found every crate from git at a commit, a rev in every
   npm lockfile, and no two different ones anywhere. *)
LEMMA GateOk ==
  ASSUME NEW js, NEW expect, Gate(js, expect) = "ok"
  PROVE  /\ \A p \in GitPackages : p.commit # {}
         /\ GitPackages # {}
         /\ \A p \in js : JsLockRevs(jsLocks[p]) # {}
         /\ \A r, s \in (UNION ({p.commit : p \in GitPackages} \union {JsLockRevs(jsLocks[p]) : p \in js}))
                          \union expect : r = s
BY DEF Gate

(* The packages of a fresh Cargo.lock that are from git. *)
LEMMA FreshGitPackages ==
  ASSUME cargoLock = CargoLockOf(files)
  PROVE  GitPackages =
           UNION {{[name |-> <<f, k>>, source |-> "git", commit |-> Commits(files[f][k])] : k \in PinsOf(f)} :
                    f \in Tomls}
<1>0. cargoLock = CargoLockOf(files)
  OBVIOUS
<1>1. ASSUME NEW p \in GitPackages
      PROVE  \E f \in Tomls : \E k \in PinsOf(f) :
               p = [name |-> <<f, k>>, source |-> "git", commit |-> Commits(files[f][k])]
  <2>0. PICK f \in Tomls : \E k \in DOMAIN files[f] :
          p = [name |-> <<f, k>>, source |-> IF files[f][k].pin THEN "git" ELSE "none",
               commit |-> Commits(files[f][k])]
    BY <1>0, <1>1 DEF GitPackages, CargoLockOf
  <2>1. PICK k \in DOMAIN files[f] :
          p = [name |-> <<f, k>>, source |-> IF files[f][k].pin THEN "git" ELSE "none",
               commit |-> Commits(files[f][k])]
    BY <2>0
  <2>2. p.source = "git"
    BY DEF GitPackages
  <2>3. files[f][k].pin
    BY <2>1, <2>2
  <2> QED BY <2>1, <2>3 DEF PinsOf
<1>2. ASSUME NEW f \in Tomls, NEW k \in PinsOf(f)
      PROVE  [name |-> <<f, k>>, source |-> "git", commit |-> Commits(files[f][k])] \in GitPackages
  <2>1. k \in DOMAIN files[f] /\ files[f][k].pin
    BY <1>2 DEF PinsOf
  <2>2. [name |-> <<f, k>>, source |-> "git", commit |-> Commits(files[f][k])] \in CargoLockOf(files)
    BY <2>1 DEF CargoLockOf
  <2> QED BY <2>2 DEF GitPackages
<1> QED BY <1>1, <1>2

(* A gate that passes on fresh lockfiles has seen every pin it was asked to
   look at, and they mean one commit, however the bumps before it ended. *)
THEOREM GateSeesSkewCorrect == Spec => []GateSeesSkew
<1>1. ASSUME Typed, GateStands, NEW g \in passed, Fresh
      PROVE  \E rev \in Revs :
               /\ g.expect \subseteq {rev}
               /\ \A f \in Tomls : \A k \in PinsOf(f) : Commits(files[f][k]) = {rev}
               /\ \A f \in g.js : UNION {Commits(files[f][k]) : k \in PinsOf(f)} = {rev}
  <2> DEFINE js == g.js
             expect == g.expect
             seen == (UNION ({p.commit : p \in GitPackages} \union {JsLockRevs(jsLocks[p]) : p \in js}))
                       \union expect
  <2>1. js \subseteq Packages /\ Gate(js, expect) = "ok"
    BY <1>1 DEF GateStands
  <2> HIDE DEF js, expect
  <2>2. /\ \A p \in GitPackages : p.commit # {} /\ p.commit \subseteq seen
        /\ GitPackages # {}
        /\ \A p \in js : JsLockRevs(jsLocks[p]) # {} /\ JsLockRevs(jsLocks[p]) \subseteq seen
        /\ \A r, s \in seen : r = s
        /\ expect \subseteq seen
    <3>1. /\ \A p \in GitPackages : p.commit # {}
          /\ GitPackages # {}
          /\ \A p \in js : JsLockRevs(jsLocks[p]) # {}
          /\ \A r, s \in seen : r = s
      BY <2>1, GateOk
    <3>2. /\ \A p \in GitPackages : p.commit \subseteq seen
          /\ \A p \in js : JsLockRevs(jsLocks[p]) \subseteq seen
          /\ expect \subseteq seen
      OBVIOUS
    <3> QED BY <3>1, <3>2
  <2> HIDE DEF seen
  <2>3. PICK p0 \in GitPackages : TRUE
    BY <2>2
  <2>4. PICK rev \in p0.commit : TRUE
    BY <2>2
  <2>5. seen = {rev}
    BY <2>2, <2>4
  <2>10. PICK f0 \in Tomls : \E k \in PinsOf(f0) : p0.commit = Commits(files[f0][k])
    BY <1>1, <2>3, FreshGitPackages DEF Fresh
  <2>6. PICK k0 \in PinsOf(f0) : p0.commit = Commits(files[f0][k0])
    BY <2>10
  <2>7. rev \in Revs
    <3>1. files[f0][k0] \in Line
      BY <1>1, <2>6 DEF Typed, PinsOf, Files
    <3> QED BY <2>4, <2>6, <3>1, CommitsTyped
  <2>8. \A f \in Tomls : \A k \in PinsOf(f) : Commits(files[f][k]) = {rev}
    <3>1. SUFFICES ASSUME NEW f \in Tomls, NEW k \in PinsOf(f)
                   PROVE  Commits(files[f][k]) = {rev}
      OBVIOUS
    <3>3. [name |-> <<f, k>>, source |-> "git", commit |-> Commits(files[f][k])] \in GitPackages
      BY <1>1, FreshGitPackages DEF Fresh
    <3>2. PICK p \in GitPackages : p.commit = Commits(files[f][k])
      BY <3>3
    <3> QED BY <2>2, <2>5, <3>2
  <2>9. \A f \in js : UNION {Commits(files[f][k]) : k \in PinsOf(f)} = {rev}
    <3>1. SUFFICES ASSUME NEW f \in js
                   PROVE  UNION {Commits(files[f][k]) : k \in PinsOf(f)} = {rev}
      OBVIOUS
    <3>2. jsLocks[f] = JsLockOf(files[f]) /\ files[f] \in Seq(Line)
      BY <1>1, <2>1 DEF Fresh, Typed, Files
    <3>3. JsLockRevs(jsLocks[f]) = UNION {Commits(files[f][k]) : k \in PinsOf(f)}
      BY <3>2, FreshJsRevs DEF PinsOf
    <3> QED BY <2>2, <2>5, <3>3
  <2> QED BY <2>2, <2>5, <2>7, <2>8, <2>9 DEF js, expect
<1>2. Typed /\ GateStands => GateSeesSkew
  BY <1>1 DEF GateSeesSkew
<1> QED BY <1>2, TypedInit, TypedStep, GateStandsStep, PTL DEF Spec

-----------------------------------------------------------------------------
(* What a bump leaves behind. *)

\* A text that has nothing changed of a file but the hashes of pins.
Kept(f, text) ==
  /\ Len(text) = Len(tree[f])
  /\ \A k \in DOMAIN text :
       \/ text[k] = tree[f][k]
       \/ text[k].pin /\ \E rev \in Revs : text[k] = BumpLine(tree[f][k], rev)

AllKept ==
  /\ \A f \in Files : files[f] # <<>> => Kept(f, files[f])
  /\ \A text \in writing : Kept(todo[1], text)

\* A text with pins, whose full hashes are all the target.
Pinned(text) ==
  /\ \E k \in DOMAIN text : text[k].pin
  /\ \A rev \in target, k \in DOMAIN text :
       text[k].pin => \A h \in Range(text[k].hashes) : h.bounded => h.rev = rev

\* A bump is under way as long as files are left to do.
Phase == todo # <<>> <=> told = "bumping"

\* The files that the bump has done, and the one it is writing, are pinned.
Bumps ==
  told \in {"bumping", "bumped"} =>
    /\ \E rev \in Revs : target = {rev}
    /\ \A f \in given : f \notin Range(todo) => Pinned(files[f])
    /\ \A text \in writing : Pinned(text)

\* A file that was refused has no full hash.
Refuses ==
  told = "pinless" => \A f \in given : \A k \in PinsOf(f) :
    \A h \in Range(files[f][k].hashes) : ~h.bounded

BumpInv == AllKept /\ Phase /\ Bumps /\ Refuses

(* The lines of a file. *)
LEMMA LinesTyped ==
  ASSUME Typed, NEW f \in Files
  PROVE  /\ files[f] \in Seq(Line) /\ tree[f] \in Seq(Line)
         /\ \A k \in DOMAIN files[f] : files[f][k] \in Line
         /\ \A k \in DOMAIN tree[f] : tree[f][k] \in Line
<1>1. files[f] \in Seq(Line) /\ tree[f] \in Seq(Line)
  BY TreesTyped DEF Typed
<1> QED BY <1>1

(* The bounded hashes of a bumped pin are the rev. *)
LEMMA BumpedLineAt ==
  ASSUME NEW line \in Line, NEW rev \in Revs, line.pin
  PROVE  \A h \in Range(BumpLine(line, rev).hashes) : h.bounded => h.rev = rev
<1>1. BumpLine(line, rev).hashes =
        [k \in DOMAIN line.hashes |->
           IF line.hashes[k].bounded THEN [rev |-> rev, bounded |-> TRUE] ELSE line.hashes[k]]
  BY BumpLineTyped
<1>2. ASSUME NEW k \in DOMAIN line.hashes, BumpLine(line, rev).hashes[k].bounded
      PROVE  BumpLine(line, rev).hashes[k].rev = rev
  <2>1. BumpLine(line, rev).hashes[k] =
          IF line.hashes[k].bounded THEN [rev |-> rev, bounded |-> TRUE] ELSE line.hashes[k]
    BY <1>1
  <2>2. line.hashes[k].bounded
    BY <1>2, <2>1
  <2> QED BY <2>1, <2>2
<1>3. DOMAIN BumpLine(line, rev).hashes = DOMAIN line.hashes
  BY <1>1
<1> QED BY <1>2, <1>3 DEF Range

(* A pin that a bump would not change and that is not at its rev has no
   bounded hash. *)
LEMMA NoSite ==
  ASSUME Typed, NEW f \in Files, NEW rev \in Revs, Sites(f, rev) = {},
         NEW k \in PinsOf(f), NEW h \in Range(files[f][k].hashes)
  PROVE  ~h.bounded
<1> DEFINE line == files[f][k]
<1>1. k \in DOMAIN files[f] /\ line.pin /\ line \in Line
  BY LinesTyped DEF PinsOf
<1>2. BumpLine(line, rev) = line /\ ~\E g \in Range(line.hashes) : g.rev = rev /\ (f \in Tomls => g.bounded)
  BY <1>1 DEF Sites
<1>3. h \in Range(BumpLine(line, rev).hashes)
  BY <1>2
<1>4. h.bounded => h.rev = rev
  BY <1>1, <1>3, BumpedLineAt
<1> QED BY <1>2, <1>4

(* A bump of what is left of a file is a bump of the file. *)
LEMMA BumpedKept ==
  ASSUME Typed, NEW f \in Files, NEW rev \in Revs, Kept(f, files[f])
  PROVE  Kept(f, Bumped(files[f], rev))
<1>1. files[f] \in Seq(Line) /\ tree[f] \in Seq(Line) /\ Len(files[f]) = Len(tree[f])
  BY LinesTyped DEF Kept
<1>2. /\ DOMAIN Bumped(files[f], rev) = DOMAIN files[f] /\ Len(Bumped(files[f], rev)) = Len(files[f])
      /\ \A k \in DOMAIN files[f] : Bumped(files[f], rev)[k] = BumpLine(files[f][k], rev)
  BY <1>1, BumpedTyped
<1>3. DOMAIN files[f] = DOMAIN tree[f]
  BY <1>1
<1>4. ASSUME NEW k \in DOMAIN files[f]
      PROVE  LET text == Bumped(files[f], rev) IN
             \/ text[k] = tree[f][k]
             \/ text[k].pin /\ \E r \in Revs : text[k] = BumpLine(tree[f][k], r)
  <2>1. files[f][k] \in Line /\ tree[f][k] \in Line
    BY <1>3, LinesTyped
  <2>2. Bumped(files[f], rev)[k] = BumpLine(files[f][k], rev)
    BY <1>2
  <2>3. CASE files[f][k] = tree[f][k]
    <3>1. CASE tree[f][k].pin
      <4>1. BumpLine(tree[f][k], rev).pin
        BY <2>1, <3>1, BumpLineTyped
      <4> QED BY <2>2, <2>3, <4>1
    <3>2. CASE ~tree[f][k].pin
      <4>1. BumpLine(tree[f][k], rev) = tree[f][k]
        BY <3>2 DEF BumpLine
      <4> QED BY <2>2, <2>3, <4>1
    <3> QED BY <3>1, <3>2
  <2>4. ASSUME NEW r \in Revs, files[f][k].pin, files[f][k] = BumpLine(tree[f][k], r)
        PROVE  Bumped(files[f], rev)[k].pin /\ Bumped(files[f], rev)[k] = BumpLine(tree[f][k], rev)
    <3>1. BumpLine(BumpLine(tree[f][k], r), rev) = BumpLine(tree[f][k], rev)
      BY <2>1, BumpTwice
    <3>2. BumpLine(files[f][k], rev).pin
      BY <2>1, <2>4, BumpLineTyped
    <3> QED BY <2>2, <2>4, <3>1, <3>2
  <2> QED BY <2>3, <2>4 DEF Kept
<1> QED BY <1>1, <1>2, <1>4 DEF Kept

(* What is written of a file with pins to bump is pinned. *)
LEMMA BumpedPinned ==
  ASSUME Typed, NEW f \in Files, NEW rev \in Revs, target = {rev}, Sites(f, rev) # {}
  PROVE  Pinned(Bumped(files[f], rev))
<1>1. files[f] \in Seq(Line) /\ \A k \in DOMAIN files[f] : files[f][k] \in Line
  BY LinesTyped
<1>2. /\ DOMAIN Bumped(files[f], rev) = DOMAIN files[f]
      /\ \A k \in DOMAIN files[f] : Bumped(files[f], rev)[k] = BumpLine(files[f][k], rev)
  BY <1>1, BumpedTyped
<1>3. \A k \in DOMAIN files[f] : BumpLine(files[f][k], rev).pin = files[f][k].pin
  BY <1>1, BumpLineTyped
<1>4. PICK k \in DOMAIN files[f] : files[f][k].pin
  BY DEF Sites
<1>5. Bumped(files[f], rev)[k].pin
  BY <1>2, <1>3, <1>4
<1>6. ASSUME NEW m \in DOMAIN files[f], Bumped(files[f], rev)[m].pin
      PROVE  \A h \in Range(Bumped(files[f], rev)[m].hashes) : h.bounded => h.rev = rev
  <2>1. files[f][m].pin /\ files[f][m] \in Line
    BY <1>1, <1>2, <1>3, <1>6
  <2>2. \A h \in Range(BumpLine(files[f][m], rev).hashes) : h.bounded => h.rev = rev
    BY <2>1, BumpedLineAt
  <2> QED BY <1>2, <2>2
<1> QED BY <1>2, <1>4, <1>5, <1>6 DEF Pinned

(* The files start as they were. *)
LEMMA BumpInvInit == Init => BumpInv
<1> SUFFICES ASSUME Init PROVE BumpInv
  OBVIOUS
<1>1. files = tree /\ tree \in Trees /\ writing = {} /\ todo = <<>> /\ told = "none"
  BY DEF Init
<1>2. AllKept
  <2>1. \A f \in Files : Kept(f, files[f])
    BY <1>1 DEF Kept
  <2> QED BY <1>1, <2>1 DEF AllKept
<1> QED BY <1>1, <1>2 DEF BumpInv, Phase, Bumps, Refuses

(* A file is truncated while what is to be in it is pinned and kept, or it is
   refused. *)
LEMMA BumpFileInv ==
  ASSUME Typed, BumpInv, BumpFile
  PROVE  BumpInv'
<1>1. PICK rev \in target :
        IF Sites(todo[1], rev) = {}
        THEN /\ told' = "pinless" /\ given' = {todo[1]} /\ todo' = <<>>
             /\ UNCHANGED <<files, writing>>
        ELSE /\ writing' = {Bumped(files[todo[1]], rev)}
             /\ files' = [files EXCEPT ![todo[1]] = <<>>]
             /\ UNCHANGED <<given, todo, told>>
  BY DEF BumpFile
<1>2. todo[1] \in Files /\ todo # <<>> /\ writing = {} /\ told = "bumping" /\ rev \in Revs /\ target = {rev}
  BY DEF BumpFile, Typed, BumpInv, Phase
<1>3. UNCHANGED <<tree, target>>
  BY DEF BumpFile
<1>4. CASE Sites(todo[1], rev) = {}
  <2>1. told' = "pinless" /\ given' = {todo[1]} /\ todo' = <<>> /\ UNCHANGED <<files, writing>>
    BY <1>1, <1>4
  <2>2. Refuses'
    <3>1. \A k \in PinsOf(todo[1]) : \A h \in Range(files[todo[1]][k].hashes) : ~h.bounded
      BY <1>2, <1>4, NoSite
    <3> QED BY <2>1, <3>1 DEF Refuses, PinsOf
  <2>3. AllKept'
    BY <1>2, <1>3, <2>1 DEF BumpInv, AllKept, Kept
  <2> QED BY <2>1, <2>2, <2>3 DEF BumpInv, Phase, Bumps
<1>5. CASE Sites(todo[1], rev) # {}
  <2>1. /\ writing' = {Bumped(files[todo[1]], rev)}
        /\ files' = [files EXCEPT ![todo[1]] = <<>>]
        /\ UNCHANGED <<given, todo, told>>
    BY <1>1, <1>5
  <2>2. \A text : Kept(todo[1], text)' <=> Kept(todo[1], text)
    BY <1>3, <2>1 DEF Kept
  <2>3. \A text : Pinned(text)' <=> Pinned(text)
    BY <1>3 DEF Pinned
  <2>4. Kept(todo[1], Bumped(files[todo[1]], rev))
    <3>1. files[todo[1]] # <<>>
      BY <1>5 DEF Sites
    <3>2. Kept(todo[1], files[todo[1]])
      BY <1>2, <3>1 DEF BumpInv, AllKept
    <3> QED BY <1>2, <3>2, BumpedKept
  <2>5. Pinned(Bumped(files[todo[1]], rev))
    BY <1>2, <1>5, BumpedPinned
  <2>6. \A f \in Files \ {todo[1]} : files'[f] = files[f]
    BY <2>1 DEF Typed
  <2>7. files'[todo[1]] = <<>>
    BY <1>2, <2>1 DEF Typed
  <2>8. AllKept'
    <3>1. \A f \in Files : files'[f] # <<>> => Kept(f, files[f]) /\ files'[f] = files[f]
      BY <2>6, <2>7 DEF BumpInv, AllKept
    <3>2. \A f \in Files : files'[f] # <<>> => Kept(f, files[f])'
      BY <1>3, <3>1 DEF Kept
    <3> QED BY <2>1, <2>2, <2>4, <3>2 DEF AllKept
  <2>9. Bumps'
    <3>1. todo[1] \in Range(todo)
      BY <1>2 DEF Typed, Range
    <3>2. \A f \in given : f \notin Range(todo) => Pinned(files[f]) /\ files'[f] = files[f]
      BY <1>2, <2>6, <3>1 DEF BumpInv, Bumps, Typed
    <3> QED BY <1>2, <1>3, <2>1, <2>3, <2>5, <3>2 DEF Bumps
  <2> QED BY <1>2, <2>1, <2>8, <2>9 DEF BumpInv, Phase, Refuses
<1> QED BY <1>4, <1>5

(* A file that is written is done. *)
LEMMA WriteInv ==
  ASSUME Typed, BumpInv, Write
  PROVE  BumpInv'
<1>1. PICK text \in writing : files' = [files EXCEPT ![todo[1]] = text]
  BY DEF Write
<1>2. /\ todo \in Seq(Files) /\ todo # <<>> /\ todo[1] \in Files /\ told = "bumping"
      /\ \E rev \in Revs : target = {rev}
  BY <1>1 DEF Typed, BumpInv, Phase, Bumps
<1>3. /\ UNCHANGED <<tree, target, given>> /\ writing' = {} /\ todo' = Tail(todo)
      /\ told' = IF Len(todo) = 1 THEN "bumped" ELSE told
  BY DEF Write, bump
<1>4. /\ files'[todo[1]] = text
      /\ \A f \in Files \ {todo[1]} : files'[f] = files[f]
  BY <1>1, <1>2 DEF Typed
<1>5. AllKept'
  <2>1. \A f \in Files : files'[f] # <<>> => Kept(f, files'[f])
    BY <1>1, <1>4 DEF BumpInv, AllKept
  <2>2. \A f \in Files : files'[f] # <<>> => Kept(f, files[f])'
    BY <1>3, <2>1 DEF Kept
  <2> QED BY <1>3, <2>2 DEF AllKept
<1>6. Phase'
  <2>1. /\ Tail(todo) \in Seq(Files)
        /\ Len(Tail(todo)) = Len(todo) - 1
        /\ Len(todo) \in Nat \ {0}
    BY <1>2, HeadTailProperties, EmptySeq
  <2>2. ASSUME Len(todo) = 1
        PROVE  Tail(todo) = <<>>
    <3>1. Len(Tail(todo)) = 0
      BY <2>1, <2>2
    <3> QED BY <2>1, <3>1, EmptySeq
  <2>3. ASSUME Len(todo) # 1
        PROVE  Tail(todo) # <<>>
    <3>1. Len(Tail(todo)) # 0
      BY <2>1, <2>3
    <3> QED BY <3>1, EmptySeq
  <2> QED BY <1>2, <1>3, <2>2, <2>3 DEF Phase
<1>7. Bumps'
  <2>1. \A f \in Range(todo) : f = todo[1] \/ f \in Range(Tail(todo))
    <3>1. SUFFICES ASSUME NEW k \in DOMAIN todo, k # 1
                   PROVE  todo[k] \in Range(Tail(todo))
      BY DEF Range
    <3>2. k - 1 \in DOMAIN Tail(todo) /\ Tail(todo)[k - 1] = todo[k]
      BY <1>2, <3>1
    <3> QED BY <3>2 DEF Range
  <2>2. \A f \in given : f \notin Range(todo') => Pinned(files'[f])
    <3>1. SUFFICES ASSUME NEW f \in given, f \notin Range(Tail(todo))
                   PROVE  Pinned(files'[f])
      BY <1>3
    <3>2. CASE f = todo[1]
      BY <1>1, <1>2, <1>4, <3>2 DEF BumpInv, Bumps
    <3>3. CASE f # todo[1]
      BY <1>2, <1>4, <2>1, <3>1, <3>3 DEF BumpInv, Bumps, Typed
    <3> QED BY <3>2, <3>3
  <2>3. \A f \in given' : f \notin Range(todo') => Pinned(files[f])'
    BY <1>3, <2>2 DEF Pinned
  <2> QED BY <1>2, <1>3, <2>3 DEF Bumps
<1>8. Refuses'
  BY <1>2, <1>3 DEF Refuses
<1> QED BY <1>5, <1>6, <1>7, <1>8 DEF BumpInv

(* Every step keeps BumpInv. *)
LEMMA BumpInvStep ==
  ASSUME Typed, BumpInv, [Next]_vars
  PROVE  BumpInv'
<1>1. CASE UNCHANGED <<tree, files, bump, todo, writing, told>>
  BY <1>1 DEF bump, BumpInv, AllKept, Kept, Phase, Bumps, Pinned, Refuses, PinsOf
<1>2. CASE StartBump
  <2>1. /\ given' \in SUBSET Files /\ given' # {} /\ todo' = InOrder(given') /\ told' = "bumping"
        /\ UNCHANGED <<tree, files, writing>> /\ writing = {} /\ \E rev \in Revs : target' = {rev}
    BY <1>2 DEF StartBump, Typed
  <2>2. Range(todo') = given' /\ todo' # <<>>
    BY <2>1, InOrderAll
  <2>3. AllKept'
    BY <2>1 DEF BumpInv, AllKept, Kept
  <2> QED BY <2>1, <2>2, <2>3 DEF BumpInv, Phase, Bumps, Refuses
<1>3. CASE Fail
  <2>1. AllKept'
    BY <1>3 DEF Fail, BumpInv, AllKept, Kept
  <2> QED BY <1>3, <2>1 DEF Fail, BumpInv, Phase, Bumps, Refuses
<1>4. CASE Restore
  <2>1. PICK f \in Files : files' = [files EXCEPT ![f] = tree[f]]
    BY <1>4 DEF Restore
  <2>2. todo = <<>> /\ told' = "none" /\ UNCHANGED <<tree, todo, writing>> /\ writing = {}
    BY <1>4 DEF Restore, Typed
  <2>3. files'[f] = tree[f] /\ \A g \in Files \ {f} : files'[g] = files[g]
    BY <2>1 DEF Typed
  <2>4. \A g \in Files : files'[g] # <<>> => Kept(g, files'[g])
    <3>1. Kept(f, tree[f])
      BY DEF Kept
    <3> QED BY <2>3, <3>1 DEF BumpInv, AllKept
  <2>5. AllKept'
    BY <2>2, <2>4 DEF AllKept, Kept
  <2> QED BY <2>2, <2>5 DEF BumpInv, Phase, Bumps, Refuses
<1> QED BY <1>1, <1>2, <1>3, <1>4, BumpFileInv, WriteInv
        DEF Next, CargoUpdate, NpmInstall, RunGate, vars

(* A line that gives its pin as full hashes, all of one rev, means that. *)
LEMMA FullHashesMean ==
  ASSUME NEW line \in Line, NEW rev, FullHashes(line),
         \A h \in Range(line.hashes) : h.bounded => h.rev = rev
  PROVE  Commits(line) = {rev}
<1>1. PICK k \in DOMAIN line.hashes : line.hashes[k].bounded
  BY DEF FullHashes, Range
<1>2. \A m \in DOMAIN line.hashes : line.hashes[m].bounded => line.hashes[m].rev = rev
  BY DEF Range
<1> QED BY <1>1, <1>2 DEF Commits, FullHashes

(* A bump of all files that ends well makes the gate pass, a bump refuses only
   files without a full hash, and no bump changes anything but pins. *)
THEOREM BumpHealsCorrect == Spec => []BumpHeals
<1>1. ASSUME Typed, BumpInv, told = "bumped", given = Files, Fresh,
             \A f \in Files : \A k \in PinsOf(f) : FullHashes(files[f][k])
      PROVE  Gate(Packages, target) = "ok"
  <2>1. PICK rev \in Revs : target = {rev}
    BY <1>1 DEF BumpInv, Bumps
  <2>2. \A f \in Files : Pinned(files[f])
    <3>1. todo = <<>>
      BY <1>1 DEF BumpInv, Phase
    <3>2. Range(todo) = {}
      BY <3>1 DEF Range
    <3> QED BY <1>1, <3>2 DEF BumpInv, Bumps
  <2>3. ASSUME NEW f \in Files
        PROVE  PinsOf(f) # {} /\ \A k \in PinsOf(f) : Commits(files[f][k]) = {rev}
    <3>1. PinsOf(f) # {}
      BY <2>2 DEF Pinned, PinsOf
    <3>2. ASSUME NEW k \in PinsOf(f)
          PROVE  Commits(files[f][k]) = {rev}
      <4>1. k \in DOMAIN files[f] /\ files[f][k].pin /\ files[f][k] \in Line
        BY <1>1, LinesTyped DEF PinsOf
      <4>2. \A h \in Range(files[f][k].hashes) : h.bounded => h.rev = rev
        BY <2>1, <2>2, <4>1 DEF Pinned
      <4> QED BY <1>1, <4>1, <4>2, FullHashesMean
    <3> QED BY <3>1, <3>2
  <2>4. /\ GitPackages # {}
        /\ \A p \in GitPackages : p.commit = {rev}
    <3>1. GitPackages =
            UNION {{[name |-> <<f, k>>, source |-> "git", commit |-> Commits(files[f][k])] : k \in PinsOf(f)} :
                     f \in Tomls}
      BY <1>1, FreshGitPackages DEF Fresh
    <3>2. PICK f \in Tomls : TRUE
      BY PinsAssumption
    <3>3. PICK k \in PinsOf(f) : TRUE
      BY <2>3 DEF Files
    <3>4. GitPackages # {}
      <4>1. [name |-> <<f, k>>, source |-> "git", commit |-> Commits(files[f][k])] \in GitPackages
        BY <3>1, <3>3
      <4> QED BY <4>1
    <3>5. \A p \in GitPackages : \E g \in Tomls : \E m \in PinsOf(g) : p.commit = Commits(files[g][m])
      BY <3>1
    <3> QED BY <2>3, <3>4, <3>5 DEF Files
  <2>5. ASSUME NEW p \in Packages
        PROVE  JsLockRevs(jsLocks[p]) = {rev}
    <3>1. jsLocks[p] = JsLockOf(files[p]) /\ files[p] \in Seq(Line) /\ p \in Files
      BY <1>1, LinesTyped DEF Fresh, Files
    <3>2. JsLockRevs(jsLocks[p]) = UNION {Commits(files[p][k]) : k \in PinsOf(p)}
      BY <3>1, FreshJsRevs DEF PinsOf
    <3>3. PinsOf(p) # {} /\ \A k \in PinsOf(p) : Commits(files[p][k]) = {rev}
      BY <2>3, <3>1
    <3> QED BY <3>2, <3>3
  <2>6. \A r \in (UNION ({p.commit : p \in GitPackages} \union {JsLockRevs(jsLocks[p]) : p \in Packages}))
                   \union target : r = rev
    BY <2>1, <2>4, <2>5
  <2>7. /\ ~\E p \in GitPackages : p.commit = {}
        /\ GitPackages # {}
        /\ ~\E p \in Packages : JsLockRevs(jsLocks[p]) = {}
        /\ ~\E r, s \in (UNION ({p.commit : p \in GitPackages}
                                  \union {JsLockRevs(jsLocks[p]) : p \in Packages})) \union target : r # s
    BY <2>4, <2>5, <2>6
  <2> QED BY <2>7 DEF Gate
<1>2. Typed /\ BumpInv => BumpHeals
  <2>1. SUFFICES ASSUME Typed, BumpInv PROVE BumpHeals
    OBVIOUS
  <2>2. \A f \in Files : files[f] # <<>> => Kept(f, files[f])
    BY <2>1 DEF BumpInv, AllKept
  <2>3. Refuses
    BY <2>1 DEF BumpInv
  <2> QED BY <1>1, <2>1, <2>2, <2>3 DEF BumpHeals, Kept, Refuses
<1> QED BY <1>2, TypedInit, TypedStep, BumpInvInit, BumpInvStep, PTL DEF Spec
=============================================================================
