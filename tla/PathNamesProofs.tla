-------------------------- MODULE PathNamesProofs --------------------------
(***************************************************************************)
(* Proofs about PathNames for texts of any length over any characters: how *)
(* names are sanitized, where the folder of a file is looked for compared  *)
(* with where it was put, and how a form arrives.                          *)
(***************************************************************************)
EXTENDS PathNames, SequenceTheorems, FiniteSetTheorems, WellFoundedInduction, TLAPS

-----------------------------------------------------------------------------
(* Induction, and what FoldLeft computes: its definition descends from the *)
(* last element, so that a property of it is shown element by element.     *)

LEMMA Induct ==
    ASSUME NEW S, 0 \in S, \A n \in Nat : n \in S => n + 1 \in S
    PROVE  \A n \in Nat : n \in S
  <1> DEFINE T == {n \in Nat : n \notin S}
  <1>1. IsWellFoundedOn(OpToRel(<, Nat), Nat)
    BY NatLessThanWellFounded
  <1>2. ASSUME T # {}
        PROVE  FALSE
    <2>1. \E x \in T : \A y \in T : ~(<<y, x>> \in OpToRel(<, Nat))
      BY <1>1, <1>2, WFMin
    <2>2. PICK x \in T : \A y \in T : ~(y < x)
      BY <2>1 DEF OpToRel
    <2>3. x \in Nat /\ x # 0 /\ x \notin S
      BY <2>2
    <2>4. x - 1 \in Nat /\ x - 1 < x /\ x = (x - 1) + 1
      BY <2>3
    <2>5. x - 1 \in S
      BY <2>2, <2>4
    <2> QED BY <2>3, <2>4, <2>5
  <1> QED BY <1>2

(* The greatest and the least of a set of numbers.                         *)
LEMMA MaxUpTo == ASSUME NEW n \in Nat PROVE Max(1 .. n + 1) = n + 1
  BY DEF Max

LEMMA MaxWithin ==
    ASSUME NEW n \in Nat, NEW x \in SUBSET (1 .. n), x # {}
    PROVE  Max(x) \in x /\ \A y \in x : y <= Max(x)
  <1> DEFINE HasMax(m) == \A y \in SUBSET (1 .. m) : y # {} => \E k \in y : \A j \in y : k >= j
             S == {m \in Nat : HasMax(m)}
  <1>1. 0 \in S
    <2>1. 1 .. 0 = {}
      OBVIOUS
    <2>2. HasMax(0)
      BY <2>1, Zenon
    <2> QED BY <2>2
  <1>2. ASSUME NEW m \in Nat, m \in S
        PROVE  m + 1 \in S
    <2>1. ASSUME NEW y \in SUBSET (1 .. m + 1), y # {}
          PROVE  \E k \in y : \A j \in y : k >= j
      <3>1. CASE m + 1 \in y
        BY <3>1
      <3>2. CASE m + 1 \notin y
        <4>1. y \in SUBSET (1 .. m)
          BY <3>2
        <4> QED BY <1>2, <2>1, <4>1
      <3> QED BY <3>1, <3>2
    <2> QED BY <2>1
  <1>3. n \in S
    <2> HIDE DEF S
    <2> QED BY <1>1, <1>2, Induct
  <1>4. \E k \in x : \A j \in x : k >= j
    BY <1>3
  <1>5. Max(x) \in x /\ \A j \in x : Max(x) >= j
    BY <1>4, Zenon DEF Max
  <1> QED BY <1>5

LEMMA MinWithin ==
    ASSUME NEW x \in SUBSET Nat, x # {}
    PROVE  Min(x) \in x /\ \A y \in x : Min(x) <= y
  <1>1. \E k \in x : \A j \in x : ~(<<j, k>> \in OpToRel(<, Nat))
    BY NatLessThanWellFounded, WFMin
  <1>2. \E k \in x : \A j \in x : ~(j < k)
    BY <1>1 DEF OpToRel
  <1>3. PICK k \in x : \A j \in x : ~(j < k)
    BY <1>2
  <1>4. \A j \in x : k <= j
    BY <1>3
  <1>5. \E n \in x : \A j \in x : n <= j
    BY <1>4
  <1>6. Min(x) \in x /\ \A j \in x : Min(x) <= j
    BY <1>5, Zenon DEF Min
  <1> QED BY <1>6

(* Induction on sequences, on a set that has the empty one and, with a     *)
(* sequence, every one that is longer by an element.                       *)
LEMMA SeqInduct ==
    ASSUME NEW S, NEW P, <<>> \in P,
           \A s \in Seq(S), c \in S : s \in P => Append(s, c) \in P
    PROVE  \A s \in Seq(S) : s \in P
  <1> DEFINE Q == {n \in Nat : \A s \in Seq(S) : Len(s) = n => s \in P}
  <1>1. 0 \in Q
    <2>1. \A s \in Seq(S) : Len(s) = 0 => s = <<>>
      OBVIOUS
    <2> QED BY <2>1
  <1>2. ASSUME NEW n \in Nat, n \in Q
        PROVE  n + 1 \in Q
    <2>1. ASSUME NEW s \in Seq(S), Len(s) = n + 1
          PROVE  s \in P
      <3> DEFINE t == SubSeq(s, 1, n)
      <3>1. t \in Seq(S) /\ Len(t) = n /\ s[n + 1] \in S
        BY <2>1
      <3>2. s = Append(t, s[n + 1])
        BY <2>1
      <3>3. t \in P
        BY <1>2, <3>1
      <3> HIDE DEF t
      <3>4. Append(t, s[n + 1]) \in P
        BY <3>1, <3>3
      <3> QED BY <3>2, <3>4
    <2> QED BY <2>1
  <1>3. \A n \in Nat : n \in Q
    <2> HIDE DEF Q
    <2> QED BY <1>1, <1>2, Induct
  <1> QED BY <1>3

FoldsNothing(op(_, _)) == \A base : FoldLeft(op, base, <<>>) = base
FoldsFromLeft(op(_, _), base, S) ==
    \A s, c : s \in Seq(S) /\ c \in S =>
       FoldLeft(op, base, Append(s, c)) = op(FoldLeft(op, base, s), c)

Iterates(op(_, _), base, s, it) ==
    it = [x \in SUBSET (1 .. Len(s)) |->
            IF x = {} THEN base ELSE op(it[x \ {Max(x)}], s[Max(x)])]

Climbs(op(_, _), base, s, it) ==
    /\ it[{}] = base
    /\ \A k \in 0 .. Len(s) - 1 : it[1 .. k + 1] = op(it[1 .. k], s[k + 1])

(* The values a fold takes are those of one loop over the sequence.        *)
LEMMA IteratesUp ==
    ASSUME NEW op(_, _), NEW base, NEW S, NEW s \in Seq(S), NEW it, Iterates(op, base, s, it)
    PROVE  Climbs(op, base, s, it)
  <1>1. it[{}] = base
    BY DEF Iterates
  <1>2. ASSUME NEW k \in 0 .. Len(s) - 1
        PROVE  it[1 .. k + 1] = op(it[1 .. k], s[k + 1])
    <2>1. k \in Nat /\ Len(s) \in Nat /\ k + 1 <= Len(s)
      OBVIOUS
    <2> DEFINE n == Len(s)
    <2>2. 1 .. k + 1 \in SUBSET (1 .. Len(s)) /\ 1 .. k + 1 # {}
      <3> HIDE DEF n
      <3>1. n \in Nat /\ k + 1 <= n
        BY <2>1 DEF n
      <3>2. \A j \in 1 .. k + 1 : j \in 1 .. n
        BY <2>1, <3>1
      <3>3. 1 \in 1 .. k + 1
        BY <2>1
      <3> QED BY <3>2, <3>3, Zenon DEF n
    <2>3. Max(1 .. k + 1) = k + 1
      BY <2>1, MaxUpTo
    <2>4. (1 .. k + 1) \ {k + 1} = 1 .. k
      BY <2>1
    <2>5. it[1 .. k + 1] = op(it[(1 .. k + 1) \ {Max(1 .. k + 1)}], s[Max(1 .. k + 1)])
      BY <2>2, Zenon DEF Iterates
    <2> QED BY <2>3, <2>4, <2>5
  <1> QED BY <1>1, <1>2 DEF Climbs

LEMMA IteratesExists ==
    ASSUME NEW op(_, _), NEW base, NEW S, NEW s \in Seq(S)
    PROVE  \E it : Iterates(op, base, s, it) /\ FoldLeft(op, base, s) = it[1 .. Len(s)]
  <1> DEFINE Def(g, x) == IF x = {} THEN base ELSE op(g[x \ {Max(x)}], s[Max(x)])
             it == CHOOSE g : g = [x \in SUBSET (1 .. Len(s)) |-> Def(g, x)]
             R == StrictSubsetOrdering(1 .. Len(s))
  <1>0. Len(s) \in Nat /\ DOMAIN s = 1 .. Len(s)
    OBVIOUS
  <1>1. FoldLeft(op, base, s) = it[1 .. Len(s)]
    BY <1>0 DEF FoldLeft, MapThenFoldSet
  <1>2. IsWellFoundedOn(R, SUBSET (1 .. Len(s)))
    <2> DEFINE n == Len(s)
    <2>1. n \in Int
      BY <1>0
    <2> HIDE DEF n
    <2>2. IsFiniteSet(1 .. n)
      BY <2>1, FS_Interval
    <2>3. FiniteSubsetsOf(1 .. n) = SUBSET (1 .. n)
      BY <2>2, FS_FiniteSubsetsOfFinite
    <2>4. IsWellFoundedOn(StrictSubsetOrdering(1 .. n), FiniteSubsetsOf(1 .. n))
      BY FS_StrictSubsetOrderingWellFounded
    <2> QED BY <2>3, <2>4 DEF n
  <1>3. WFDefOn(R, SUBSET (1 .. Len(s)), Def)
    <2>1. ASSUME NEW g, NEW h, NEW x \in SUBSET (1 .. Len(s)),
                 \A y \in SetLessThan(x, R, SUBSET (1 .. Len(s))) : g[y] = h[y]
          PROVE  Def(g, x) = Def(h, x)
      <3>1. CASE x = {}
        BY <3>1
      <3>2. CASE x # {}
        <4>1. Max(x) \in x
          BY <1>0, <3>2, MaxWithin
        <4>2. x \ {Max(x)} \in SetLessThan(x, R, SUBSET (1 .. Len(s)))
          BY <4>1 DEF SetLessThan, StrictSubsetOrdering
        <4>3. g[x \ {Max(x)}] = h[x \ {Max(x)}]
          BY <2>1, <4>2
        <4> QED BY <3>2, <4>3
      <3> QED BY <3>1, <3>2
    <2> HIDE DEF Def
    <2> QED BY <2>1 DEF WFDefOn
  <1>4. OpDefinesFcn(it, SUBSET (1 .. Len(s)), Def)
    BY DEF OpDefinesFcn
  <1>5. WFInductiveDefines(it, SUBSET (1 .. Len(s)), Def)
    BY <1>2, <1>3, <1>4, WFInductiveDef
  <1>6. Iterates(op, base, s, it)
    BY <1>5 DEF WFInductiveDefines, Iterates
  <1> QED BY <1>1, <1>6

(* FoldLeft of nothing, and of a sequence and one more element.            *)
LEMMA FoldingNothing == ASSUME NEW op(_, _) PROVE FoldsNothing(op)
  <1>1. ASSUME NEW base
        PROVE  FoldLeft(op, base, <<>>) = base
    <2> DEFINE S == {base}
    <2>1. <<>> \in Seq(S) /\ Len(<<>>) = 0
      OBVIOUS
    <2>2. PICK it : Iterates(op, base, <<>>, it) /\ FoldLeft(op, base, <<>>) = it[1 .. Len(<<>>)]
      BY <2>1, IteratesExists
    <2>3. it[{}] = base
      BY <2>2, Zenon DEF Iterates
    <2>4. 1 .. Len(<<>>) = {}
      OBVIOUS
    <2> QED BY <2>2, <2>3, <2>4
  <1> QED BY <1>1 DEF FoldsNothing

LEMMA FoldingFromLeft == ASSUME NEW op(_, _), NEW base, NEW S PROVE FoldsFromLeft(op, base, S)
  <1>1. ASSUME NEW s, NEW c, s \in Seq(S) /\ c \in S
        PROVE  FoldLeft(op, base, Append(s, c)) = op(FoldLeft(op, base, s), c)
    <2> DEFINE t == Append(s, c)
               n == Len(s)
    <2>1. t \in Seq(S) /\ Len(t) = n + 1 /\ t[n + 1] = c /\ n \in Nat /\ \A i \in 1 .. n : t[i] = s[i]
      BY <1>1
    <2> HIDE DEF t, n
    <2>2. PICK f : Iterates(op, base, s, f) /\ FoldLeft(op, base, s) = f[1 .. n]
      BY <1>1, IteratesExists DEF n
    <2>3. PICK g : Iterates(op, base, t, g) /\ FoldLeft(op, base, t) = g[1 .. Len(t)]
      BY <2>1, IteratesExists
    <2>4. Climbs(op, base, s, f)
      BY <1>1, <2>2, IteratesUp
    <2>5. Climbs(op, base, t, g)
      BY <2>1, <2>3, IteratesUp
    <2> DEFINE P == {k \in Nat : k <= n => f[1 .. k] = g[1 .. k]}
    <2>6. 0 \in P
      <3>1. 1 .. 0 = {}
        OBVIOUS
      <3>2. f[{}] = base /\ g[{}] = base
        BY <2>4, <2>5 DEF Climbs
      <3> QED BY <3>1, <3>2
    <2>7. ASSUME NEW k \in Nat, k \in P PROVE k + 1 \in P
      <3>1. CASE k + 1 <= n
        <4>1. k \in 0 .. n - 1 /\ k \in 0 .. Len(t) - 1 /\ f[1 .. k] = g[1 .. k] /\ t[k + 1] = s[k + 1]
          BY <2>1, <2>7, <3>1
        <4>2. f[1 .. k + 1] = op(f[1 .. k], s[k + 1]) /\ g[1 .. k + 1] = op(g[1 .. k], t[k + 1])
          BY <2>4, <2>5, <4>1 DEF Climbs, n
        <4>3. f[1 .. k + 1] = g[1 .. k + 1]
          BY <4>1, <4>2
        <4> QED BY <4>3
      <3>2. CASE ~(k + 1 <= n)
        BY <3>2
      <3> QED BY <3>1, <3>2
    <2>8. n \in P
      <3> HIDE DEF P
      <3> QED BY <2>1, <2>6, <2>7, Induct
    <2>9. f[1 .. n] = g[1 .. n]
      BY <2>1, <2>8
    <2>10. n \in 0 .. Len(t) - 1
      BY <2>1
    <2>11. g[1 .. n + 1] = op(g[1 .. n], t[n + 1])
      BY <2>5, <2>10 DEF Climbs
    <2>12. FoldLeft(op, base, t) = op(FoldLeft(op, base, s), c)
      BY <2>1, <2>2, <2>3, <2>9, <2>11
    <2> QED BY <2>12 DEF t
  <1> QED BY <1>1 DEF FoldsFromLeft

-----------------------------------------------------------------------------
(* sanitize, step by step.                                                 *)

LEMMA ErasedEmpty == Erased(<<>>) = <<>>
  <1>1. FoldsNothing(NextErased)
    BY FoldingNothing
  <1> QED BY <1>1, Zenon DEF FoldsNothing, Erased

LEMMA ErasedStep ==
    ASSUME NEW C, NEW s \in Seq(C), NEW c \in C
    PROVE  Erased(Append(s, c)) = IF c \in Banned THEN Erased(s) ELSE Append(Erased(s), c)
  <1>1. FoldsFromLeft(NextErased, <<>>, C)
    BY FoldingFromLeft
  <1>2. FoldLeft(NextErased, <<>>, Append(s, c)) = NextErased(FoldLeft(NextErased, <<>>, s), c)
    BY <1>1 DEF FoldsFromLeft
  <1> QED BY <1>2, Zenon DEF Erased, NextErased

(* What is left has no banned character, and a text without any stays.     *)
LEMMA ErasedText ==
    ASSUME NEW C
    PROVE  /\ \A s \in Seq(C) : Erased(s) \in Seq(C \ Banned)
           /\ \A s \in Seq(C \ Banned) : Erased(s) = s
  <1>1. \A s \in Seq(C) : Erased(s) \in Seq(C \ Banned)
    <2> DEFINE P == {s \in Seq(C) : Erased(s) \in Seq(C \ Banned)}
    <2>1. <<>> \in P
      <3>1. <<>> \in Seq(C) /\ <<>> \in Seq(C \ Banned)
        OBVIOUS
      <3> QED BY <3>1, ErasedEmpty, Zenon
    <2>2. ASSUME NEW s \in Seq(C), NEW c \in C, s \in P
          PROVE  Append(s, c) \in P
      <3>1. Append(s, c) \in Seq(C)
        OBVIOUS
      <3>2. Erased(s) \in Seq(C \ Banned)
        BY <2>2
      <3>3. CASE c \in Banned
        BY <3>1, <3>2, <3>3, ErasedStep
      <3>4. CASE c \notin Banned
        <4>1. Append(Erased(s), c) \in Seq(C \ Banned)
          BY <3>2, <3>4
        <4> QED BY <3>1, <3>4, <4>1, ErasedStep
      <3> QED BY <3>3, <3>4
    <2> HIDE DEF P
    <2>3. \A s \in Seq(C) : s \in P
      BY <2>1, <2>2, SeqInduct
    <2> QED BY <2>3 DEF P
  <1>2. \A s \in Seq(C \ Banned) : Erased(s) = s
    <2> DEFINE D == C \ Banned
               P == {s \in Seq(D) : Erased(s) = s}
    <2>1. <<>> \in P
      <3>1. <<>> \in Seq(D)
        OBVIOUS
      <3> QED BY <3>1, ErasedEmpty, Zenon
    <2>2. ASSUME NEW s \in Seq(D), NEW c \in D, s \in P
          PROVE  Append(s, c) \in P
      <3>1. Append(s, c) \in Seq(D)
        OBVIOUS
      <3>2. c \notin Banned /\ Erased(s) = s
        BY <2>2
      <3>3. Erased(Append(s, c)) = Append(Erased(s), c)
        BY <3>2, ErasedStep
      <3> QED BY <3>1, <3>2, <3>3
    <2> HIDE DEF P, D
    <2>3. \A s \in Seq(D) : s \in P
      BY <2>1, <2>2, SeqInduct
    <2> QED BY <2>3 DEF P, D
  <1> QED BY <1>1, <1>2

(* A trimmed text ends in neither a space nor a period, and a text that    *)
(* does not stays.                                                         *)
LEMMA TrimmedText ==
    ASSUME NEW C, NEW s \in Seq(C)
    PROVE  /\ Trimmed(s) \in Seq(C)
           /\ ~EndsIn(Trimmed(s), " ") /\ ~EndsIn(Trimmed(s), ".")
           /\ ~EndsIn(s, " ") /\ ~EndsIn(s, ".") => Trimmed(s) = s
  <1> DEFINE I == {i \in 1 .. Len(s) : s[i] \notin {" ", "."}}
             n == IF I # {} THEN Max(I) ELSE 0
  <1>1. Trimmed(s) = SubSeq(s, 1, n)
    BY DEF Trimmed, SelectLastInSeq
  <1>2. Len(s) \in Nat
    OBVIOUS
  <1>3. CASE I = {}
    <2>1. n = 0
      BY <1>3
    <2>2. Trimmed(s) = <<>>
      <3> HIDE DEF n
      <3> QED BY <1>1, <2>1
    <2>3. s = <<>> \/ (Len(s) \in 1 .. Len(s) /\ Last(s) = s[Len(s)])
      BY <1>2 DEF Last
    <2>4. ~EndsIn(s, " ") /\ ~EndsIn(s, ".") => s = <<>>
      BY <1>3, <2>3 DEF EndsIn
    <2>5. Trimmed(s) \in Seq(C)
      BY <2>2
    <2>6. ~EndsIn(Trimmed(s), " ") /\ ~EndsIn(Trimmed(s), ".")
      BY <2>2 DEF EndsIn
    <2> QED BY <2>2, <2>4, <2>5, <2>6
  <1>4. CASE I # {}
    <2>1. Max(I) \in I /\ \A i \in I : i <= Max(I)
      BY <1>2, <1>4, MaxWithin
    <2>2. n = Max(I)
      BY <1>4
    <2>3. n \in 1 .. Len(s)
      BY <2>1, <2>2
    <2>7. s[n] \notin {" ", "."}
      BY <2>1, <2>2
    <2>4. Trimmed(s) \in Seq(C) /\ Len(Trimmed(s)) = n /\ Trimmed(s)[n] = s[n]
      <3> HIDE DEF n
      <3>1. \A k \in 1 .. Len(s) : 
              /\ SubSeq(s, 1, k) \in Seq(C) /\ Len(SubSeq(s, 1, k)) = k
              /\ SubSeq(s, 1, k)[k] = s[k]
        OBVIOUS
      <3> QED BY <1>1, <2>3, <3>1, Zenon
    <2>5. ~EndsIn(Trimmed(s), " ") /\ ~EndsIn(Trimmed(s), ".")
      BY <2>4, <2>7 DEF EndsIn, Last
    <2>6. ASSUME ~EndsIn(s, " "), ~EndsIn(s, ".")
          PROVE  Trimmed(s) = s
      <3>1. Len(s) \in 1 .. Len(s) /\ s # <<>>
        <4> HIDE DEF n
        <4>1. Len(s) >= 1
          BY <1>2, <2>3
        <4> QED BY <1>2, <4>1
      <3>2. s[Len(s)] \notin {" ", "."}
        BY <2>6, <3>1 DEF EndsIn, Last
      <3>3. Len(s) \in I
        BY <3>1, <3>2
      <3>4. n = Len(s)
        <4> HIDE DEF I
        <4>1. Len(s) <= n
          BY <2>1, <2>2, <3>3
        <4>2. n <= Len(s) /\ n \in Nat
          <5> HIDE DEF n
          <5> QED BY <1>2, <2>3
        <4> HIDE DEF n
        <4> QED BY <1>2, <4>2, <4>1
      <3> HIDE DEF n
      <3> QED BY <1>1, <3>4, SubSeqFull
    <2> QED BY <2>4, <2>5, <2>6
  <1> QED BY <1>3, <1>4

CleanName(g) ==
    /\ Erased(g) = g /\ ~EndsIn(g, " ") /\ ~EndsIn(g, ".")
    /\ InUpper(g) \notin Reserved /\ Len(g) <= MaxSegment

(* A name that was not too long comes out of sanitize clean, and sanitize  *)
(* leaves it as it is from then on.                                        *)
LEMMA Sanitized ==
    ASSUME NEW C, NEW s \in Seq(C)
    PROVE  /\ sanitize(s) \in Seq(C \ Banned) /\ Len(sanitize(s)) <= MaxSegment
           /\ Len(Unreserved(Trimmed(Erased(s)))) <= MaxSegment /\ sanitize(s) # <<>>
                => CleanName(sanitize(s))
           /\ CleanName(s) => sanitize(s) = s
  <1> DEFINE D == C \ Banned
             t == Trimmed(Erased(s))
             u == Unreserved(t)
  <1>1. Erased(s) \in Seq(D) /\ \A r \in Seq(D) : Erased(r) = r
    BY ErasedText
  <1> HIDE DEF D
  <1>2. t \in Seq(D) /\ ~EndsIn(t, " ") /\ ~EndsIn(t, ".")
    BY <1>1, TrimmedText
  <1>3. u = IF InUpper(t) \in Reserved THEN <<>> ELSE t
    BY DEF Unreserved
  <1> HIDE DEF t
  <1>4. u \in Seq(D)
    <2>1. <<>> \in Seq(D)
      OBVIOUS
    <2> QED BY <1>2, <1>3, <2>1, Zenon
  <1>5. sanitize(s) = Truncated(u)
    BY DEF sanitize, t
  <1> HIDE DEF u
  <1>6. MaxSegment \in Nat
    BY PathNamesAssumption, Zenon
  <1>7. \A r \in Seq(D) : /\ Truncated(r) \in Seq(D) /\ Len(Truncated(r)) <= MaxSegment
                          /\ Len(r) <= MaxSegment => Truncated(r) = r
    BY <1>6 DEF Truncated
  <1>8. ASSUME Len(u) <= MaxSegment, sanitize(s) # <<>>
        PROVE  CleanName(sanitize(s))
    <2>1. sanitize(s) = u
      BY <1>4, <1>5, <1>7, <1>8
    <2>2. u = t /\ InUpper(t) \notin Reserved
      BY <1>3, <1>8, <2>1
    <2> QED BY <1>1, <1>2, <1>8, <2>1, <2>2 DEF CleanName
  <1>9. ASSUME CleanName(s)
        PROVE  sanitize(s) = s
    <2>1. t = s
      BY <1>9, TrimmedText DEF CleanName, t
    <2>2. u = s
      BY <1>3, <1>9, <2>1 DEF CleanName
    <2>3. Len(u) <= MaxSegment
      BY <1>9, <2>2 DEF CleanName
    <2> QED BY <1>4, <1>5, <1>7, <2>2, <2>3
  <1> QED BY <1>4, <1>5, <1>7, <1>8, <1>9 DEF u, t, D

-----------------------------------------------------------------------------
(* Split, and the segments of a path.                                      *)

Letters(C) == C \ {"/", "\\"}

LEMMA AppendConcat ==
    ASSUME NEW S, NEW s \in Seq(S), NEW t \in Seq(S), NEW c \in S
    PROVE  /\ s \o t \in Seq(S) /\ Append(t, c) \in Seq(S) /\ Append(t, c) # <<>>
           /\ s \o Append(t, c) = Append(s \o t, c)
           /\ s \o <<>> = s /\ s \o <<c>> = Append(s, c) /\ Append(<<>>, c) = <<c>>
  OBVIOUS

LEMMA SplitEmpty == Split(<<>>) = << <<>> >>
  <1>1. FoldsNothing(NextChar)
    BY FoldingNothing
  <1> QED BY <1>1, Zenon DEF FoldsNothing, Split

LEMMA SplitStep ==
    ASSUME NEW C, NEW s \in Seq(C), NEW c \in C
    PROVE  Split(Append(s, c)) = NextChar(Split(s), c)
  <1>1. FoldsFromLeft(NextChar, << <<>> >>, C)
    BY FoldingFromLeft
  <1>2. FoldLeft(NextChar, << <<>> >>, Append(s, c)) = NextChar(FoldLeft(NextChar, << <<>> >>, s), c)
    BY <1>1 DEF FoldsFromLeft
  <1> QED BY <1>2, Zenon DEF Split

(* The last element replaced by another.                                   *)
LEMMA LastReplaced ==
    ASSUME NEW W, NEW G \in Seq(W), NEW g \in W, NEW h
    PROVE  [Append(G, g) EXCEPT ![Len(G) + 1] = h] = Append(G, h)
  <1> DEFINE H == Append(G, g)
             V == W \cup {h}
             E == [H EXCEPT ![Len(G) + 1] = h]
  <1>1. G \in Seq(V) /\ H \in Seq(V) /\ h \in V
    <2>1. H \in Seq(W)
      OBVIOUS
    <2> QED BY <2>1, SeqMonotonic
  <1>2. /\ Append(G, h) \in Seq(V) /\ Len(Append(G, h)) = Len(G) + 1
        /\ \A j \in 1 .. Len(G) + 1 : Append(G, h)[j] = IF j = Len(G) + 1 THEN h ELSE G[j]
    BY <1>1
  <1>3. /\ Len(H) = Len(G) + 1 /\ Len(G) + 1 \in 1 .. Len(H)
        /\ \A j \in 1 .. Len(H) : j # Len(G) + 1 => H[j] = G[j]
    OBVIOUS
  <1> HIDE DEF V, H
  <1>4. /\ E \in Seq(V) /\ Len(E) = Len(H)
        /\ \A j \in 1 .. Len(H) : E[j] = IF j = Len(G) + 1 THEN h ELSE H[j]
    BY <1>1, <1>3, ExceptSeq
  <1> HIDE DEF E
  <1>5. Len(E) = Len(Append(G, h)) /\ \A j \in 1 .. Len(E) : E[j] = Append(G, h)[j]
    BY <1>2, <1>3, <1>4
  <1>6. E = Append(G, h)
    BY <1>2, <1>4, <1>5, SeqEqual
  <1> QED BY <1>6 DEF E, H

LEMMA NextCharOf ==
    ASSUME NEW W, NEW G \in Seq(W), NEW g \in W, NEW c
    PROVE  NextChar(Append(G, g), c) =
              IF c \in {"/", "\\"} THEN Append(Append(G, g), <<>>) ELSE Append(G, Append(g, c))
  <1> DEFINE H == Append(G, g)
             last == Append(g, c)
  <1>1. H \in Seq(W) /\ Len(H) = Len(G) + 1 /\ H[Len(G) + 1] = g
    OBVIOUS
  <1> HIDE DEF last
  <1>2. [H EXCEPT ![Len(G) + 1] = last] = Append(G, last)
    BY LastReplaced
  <1> HIDE DEF H
  <1>3. NextChar(H, c) = IF c \in {"/", "\\"} THEN Append(H, <<>>)
                         ELSE [H EXCEPT ![Len(H)] = Append(H[Len(H)], c)]
    BY DEF NextChar
  <1>4. Append(H[Len(H)], c) = last
    BY <1>1 DEF last
  <1>5. NextChar(H, c) = IF c \in {"/", "\\"} THEN Append(H, <<>>) ELSE [H EXCEPT ![Len(G) + 1] = last]
    BY <1>1, <1>3, <1>4
  <1> QED BY <1>2, <1>5, Zenon DEF H, last

(* A character changes the last segment only.                              *)
LEMMA NextCharParts ==
    ASSUME NEW L, NEW G \in Seq(Seq(L)), G # <<>>, NEW c \in L \cup {"/", "\\"}
    PROVE  /\ NextChar(G, c) \in Seq(Seq(L)) /\ NextChar(G, c) # <<>>
           /\ \A F \in Seq(Seq(L)) : NextChar(F \o G, c) = F \o NextChar(G, c)
  <1> DEFINE W == Seq(L)
  <1>1. <<>> \in W /\ \A g \in W : c \in L => Append(g, c) \in W
    OBVIOUS
  <1>2. G \in Seq(W)
    OBVIOUS
  <1> HIDE DEF W
  <1>3. PICK H \in Seq(W), g \in W : G = Append(H, g)
    <2>1. SubSeq(G, 1, Len(G) - 1) \in Seq(W) /\ G[Len(G)] \in W
          /\ G = Append(SubSeq(G, 1, Len(G) - 1), G[Len(G)])
      BY <1>2
    <2> QED BY <2>1
  <1>4. ASSUME NEW F \in Seq(W)
        PROVE  F \o G = Append(F \o H, g) /\ F \o H \in Seq(W)
    BY <1>3, AppendConcat
  <1>5. CASE c \in {"/", "\\"}
    <2>1. NextChar(G, c) = Append(G, <<>>)
      BY <1>3, <1>5, NextCharOf
    <2>2. Append(G, <<>>) \in Seq(W) /\ Append(G, <<>>) # <<>>
      BY <1>1, <1>2, AppendConcat
    <2>3. ASSUME NEW F \in Seq(W)
          PROVE  NextChar(F \o G, c) = F \o NextChar(G, c)
      <3>0. NextChar(Append(F \o H, g), c) = Append(Append(F \o H, g), <<>>)
        BY <1>3, <1>4, <1>5, NextCharOf
      <3>1. NextChar(F \o G, c) = Append(F \o G, <<>>)
        BY <1>4, <3>0, Zenon
      <3>2. F \o Append(G, <<>>) = Append(F \o G, <<>>)
        BY <1>1, <1>2, AppendConcat
      <3> QED BY <2>1, <3>1, <3>2
    <2> QED BY <2>1, <2>2, <2>3 DEF W
  <1>6. CASE c \notin {"/", "\\"}
    <2> DEFINE last == Append(g, c)
    <2>0. last \in W
      BY <1>1, <1>6
    <2>1. NextChar(G, c) = Append(H, last)
      BY <1>3, <1>6, NextCharOf
    <2> HIDE DEF last
    <2>2. Append(H, last) \in Seq(W) /\ Append(H, last) # <<>>
      BY <1>3, <2>0, AppendConcat
    <2>3. ASSUME NEW F \in Seq(W)
          PROVE  NextChar(F \o G, c) = F \o NextChar(G, c)
      <3> DEFINE X == F \o H
      <3>2. X \in Seq(W)
        BY <1>4
      <3> HIDE DEF X
      <3>3. NextChar(Append(X, g), c) = Append(X, Append(g, c))
        BY <1>3, <1>6, <3>2, NextCharOf
      <3>0. NextChar(Append(F \o H, g), c) = Append(F \o H, last)
        BY <3>3 DEF last, X
      <3>1. NextChar(F \o G, c) = Append(F \o H, last)
        BY <1>4, <3>0, Zenon
      <3>4. F \o Append(H, last) = Append(F \o H, last)
        BY <1>3, <2>0, AppendConcat
      <3> QED BY <2>1, <3>1, <3>4
    <2> QED BY <2>1, <2>2, <2>3 DEF W
  <1> QED BY <1>5, <1>6

LEMMA SplitType ==
    ASSUME NEW C
    PROVE  \A s \in Seq(C) : Split(s) \in Seq(Seq(Letters(C))) /\ Split(s) # <<>>
  <1> DEFINE W == Seq(Letters(C))
             P == {s \in Seq(C) : Split(s) \in Seq(W) /\ Split(s) # <<>>}
  <1>1. <<>> \in P
    <2>1. << <<>> >> \in Seq(W) /\ << <<>> >> # <<>> /\ <<>> \in Seq(C)
      OBVIOUS
    <2> QED BY <2>1, SplitEmpty, Zenon
  <1>2. ASSUME NEW s \in Seq(C), NEW c \in C, s \in P
        PROVE  Append(s, c) \in P
    <2>1. Append(s, c) \in Seq(C) /\ Split(Append(s, c)) = NextChar(Split(s), c)
      BY SplitStep
    <2>2. Split(s) \in Seq(W) /\ Split(s) # <<>>
      BY <1>2
    <2>3. c \in Letters(C) \cup {"/", "\\"}
      BY DEF Letters
    <2>4. NextChar(Split(s), c) \in Seq(W) /\ NextChar(Split(s), c) # <<>>
      BY <2>2, <2>3, NextCharParts
    <2> QED BY <2>1, <2>4, Zenon
  <1>3. \A s \in Seq(C) : s \in P
    <2> HIDE DEF P
    <2> QED BY <1>1, <1>2, SeqInduct
  <1> QED BY <1>3

(* A slash divides the segments before it from those behind it.            *)
LEMMA SplitSlash ==
    ASSUME NEW C, "/" \in C, NEW s \in Seq(C)
    PROVE  \A t \in Seq(C) : Split((s \o Slash) \o t) = Split(s) \o Split(t)
  <1> DEFINE W == Seq(Letters(C))
             before == s \o Slash
             P == {t \in Seq(C) : Split(before \o t) = Split(s) \o Split(t)}
  <1>0. before \in Seq(C) /\ before = Append(s, "/")
    BY DEF Slash
  <1>5. Split(s) \in Seq(W) /\ <<>> \in W
    BY SplitType
  <1>1. <<>> \in P
    <2>1. <<>> \in Seq(C) /\ before \o <<>> = before
      BY <1>0, AppendConcat
    <2>2. Split(before) = Append(Split(s), <<>>)
      BY <1>0, SplitStep DEF NextChar
    <2>3. Append(Split(s), <<>>) = Split(s) \o << <<>> >>
      BY <1>5, AppendConcat
    <2> QED BY <2>1, <2>2, <2>3, SplitEmpty, Zenon
  <1>2. ASSUME NEW t \in Seq(C), NEW c \in C, t \in P
        PROVE  Append(t, c) \in P
    <2> HIDE DEF before
    <2>1. /\ Append(t, c) \in Seq(C) /\ before \o t \in Seq(C)
          /\ before \o Append(t, c) = Append(before \o t, c)
      BY <1>0, AppendConcat
    <2>2. Split(before \o t) = Split(s) \o Split(t)
      BY <1>2
    <2>3. /\ Split(Append(before \o t, c)) = NextChar(Split(before \o t), c)
          /\ Split(Append(t, c)) = NextChar(Split(t), c)
      BY <2>1, SplitStep, Zenon
    <2>4. Split(t) \in Seq(W) /\ Split(t) # <<>> /\ c \in Letters(C) \cup {"/", "\\"}
      BY SplitType DEF Letters
    <2>5. NextChar(Split(s) \o Split(t), c) = Split(s) \o NextChar(Split(t), c)
      <3> DEFINE A == Split(s)
                 B == Split(t)
                 L == Letters(C)
      <3>1. A \in Seq(Seq(L)) /\ B \in Seq(Seq(L)) /\ B # <<>> /\ c \in L \cup {"/", "\\"}
        BY <1>5, <2>4
      <3> HIDE DEF A, B, L
      <3>3. \A F \in Seq(Seq(L)) : NextChar(F \o B, c) = F \o NextChar(B, c)
        BY <3>1, NextCharParts
      <3>2. NextChar(A \o B, c) = A \o NextChar(B, c)
        BY <3>1, <3>3, Zenon
      <3> QED BY <3>2 DEF A, B
    <2> QED BY <2>1, <2>2, <2>3, <2>5, Zenon
  <1>3. \A t \in Seq(C) : t \in P
    <2> HIDE DEF P
    <2> QED BY <1>1, <1>2, SeqInduct
  <1> QED BY <1>3

(* A text without slashes is one segment.                                  *)
LEMMA SplitName ==
    ASSUME NEW C
    PROVE  \A g \in Seq(Letters(C)) : Split(g) = <<g>>
  <1> DEFINE L == Letters(C)
             P == {g \in Seq(L) : Split(g) = <<g>>}
  <1>1. <<>> \in P
    BY SplitEmpty
  <1>2. ASSUME NEW g \in Seq(L), NEW c \in L, g \in P
        PROVE  Append(g, c) \in P
    <2>1. Append(g, c) \in Seq(L) /\ Split(Append(g, c)) = NextChar(Split(g), c) /\ Split(g) = <<g>>
      BY <1>2, SplitStep
    <2>2. c \notin {"/", "\\"}
      BY DEF Letters
    <2>3. NextChar(<<g>>, c) = [<<g>> EXCEPT ![Len(<<g>>)] = Append(@, c)]
      BY <2>2 DEF NextChar
    <2>4. Len(<<g>>) = 1 /\ [<<g>> EXCEPT ![1] = Append(@, c)] = <<Append(g, c)>>
      OBVIOUS
    <2> QED BY <2>1, <2>3, <2>4
  <1>3. \A g \in Seq(L) : g \in P
    <2> HIDE DEF P, L
    <2> QED BY <1>1, <1>2, SeqInduct
  <1> QED BY <1>3

Cleaned(G) == FoldLeft(NextSegment, <<>>, G)
Path(G) == FoldLeft(Joined, <<>>, G)
Nonempty(C) == Seq(C) \ {<<>>}

LEMMA CleanedEmpty == Cleaned(<<>>) = <<>>
  <1>1. FoldsNothing(NextSegment)
    BY FoldingNothing
  <1> QED BY <1>1, Zenon DEF FoldsNothing, Cleaned

LEMMA CleanedStep ==
    ASSUME NEW W, NEW G \in Seq(W), NEW g \in W
    PROVE  Cleaned(Append(G, g)) =
              IF sanitize(g) = <<>> THEN Cleaned(G) ELSE Append(Cleaned(G), sanitize(g))
  <1>1. FoldsFromLeft(NextSegment, <<>>, W)
    BY FoldingFromLeft
  <1>2. FoldLeft(NextSegment, <<>>, Append(G, g)) = NextSegment(FoldLeft(NextSegment, <<>>, G), g)
    BY <1>1 DEF FoldsFromLeft
  <1> QED BY <1>2, Zenon DEF Cleaned, NextSegment

LEMMA PathEmpty == Path(<<>>) = <<>>
  <1>1. FoldsNothing(Joined)
    BY FoldingNothing
  <1> QED BY <1>1, Zenon DEF FoldsNothing, Path

LEMMA PathStep ==
    ASSUME NEW W, NEW G \in Seq(W), NEW g \in W
    PROVE  Path(Append(G, g)) = IF Path(G) = <<>> THEN g ELSE Path(G) \o Slash \o g
  <1>1. FoldsFromLeft(Joined, <<>>, W)
    BY FoldingFromLeft
  <1>2. FoldLeft(Joined, <<>>, Append(G, g)) = Joined(FoldLeft(Joined, <<>>, G), g)
    BY <1>1 DEF FoldsFromLeft
  <1> QED BY <1>2, Zenon DEF Path, Joined

LEMMA SanitizeToPath ==
    ASSUME NEW s
    PROVE  Segments(s) = Cleaned(Split(s)) /\ sanitizeToPath(s) = Path(Segments(s))
  BY DEF Segments, Cleaned, sanitizeToPath, Path

(* What the segments are.                                                  *)
LEMMA CleanedType ==
    ASSUME NEW C
    PROVE  \A G \in Seq(Seq(C)) :
              /\ Cleaned(G) \in Seq(Nonempty(C \ Banned))
              /\ \A i \in DOMAIN Cleaned(G) : \E j \in DOMAIN G : Cleaned(G)[i] = sanitize(G[j])
  <1> DEFINE W == Seq(C)
             N == Nonempty(C \ Banned)
             From(G) == \A i \in DOMAIN Cleaned(G) : \E j \in DOMAIN G : Cleaned(G)[i] = sanitize(G[j])
             P == {G \in Seq(W) : Cleaned(G) \in Seq(N) /\ From(G)}
  <1>1. <<>> \in P
    <2> HIDE DEF W, N
    <2>1. <<>> \in Seq(W) /\ <<>> \in Seq(N) /\ DOMAIN <<>> = {}
      OBVIOUS
    <2> QED BY <2>1, CleanedEmpty, Zenon
  <1>2. ASSUME NEW G \in Seq(W), NEW g \in W, G \in P
        PROVE  Append(G, g) \in P
    <2>1. g \in Seq(C)
      OBVIOUS
    <2>2. sanitize(g) \in Seq(C \ Banned)
      BY <2>1, Sanitized
    <2>3. sanitize(g) # <<>> => sanitize(g) \in N
      BY <2>2 DEF Nonempty
    <2> HIDE DEF W, N
    <2> DEFINE H == Append(G, g)
    <2>4. /\ H \in Seq(W) /\ DOMAIN G \subseteq DOMAIN H
          /\ \A j \in DOMAIN G : H[j] = G[j]
          /\ Len(G) + 1 \in DOMAIN H /\ H[Len(G) + 1] = g
      OBVIOUS
    <2>5. Cleaned(H) = IF sanitize(g) = <<>> THEN Cleaned(G) ELSE Append(Cleaned(G), sanitize(g))
      BY CleanedStep
    <2>6. Cleaned(G) \in Seq(N) /\ From(G)
      BY <1>2
    <2> HIDE DEF H
    <2>7. CASE sanitize(g) = <<>>
      <3>1. Cleaned(H) = Cleaned(G)
        BY <2>5, <2>7
      <3>2. From(H)
        BY <2>4, <2>6, <3>1
      <3> QED BY <2>4, <2>6, <3>1, <3>2 DEF H
    <2>8. CASE sanitize(g) # <<>>
      <3> DEFINE K == Cleaned(G)
                 e == sanitize(g)
      <3>1. K \in Seq(N) /\ e \in N
        BY <2>3, <2>6, <2>8
      <3> HIDE DEF K, e
      <3>2. /\ Append(K, e) \in Seq(N)
            /\ \A i \in DOMAIN Append(K, e) :
                  (i \in DOMAIN K /\ Append(K, e)[i] = K[i]) \/ Append(K, e)[i] = e
        BY <3>1
      <3>3. Cleaned(H) = Append(K, e)
        BY <2>5, <2>8 DEF K, e
      <3>4. From(H)
        <4>1. ASSUME NEW i \in DOMAIN Cleaned(H)
              PROVE  \E j \in DOMAIN H : Cleaned(H)[i] = sanitize(H[j])
          <5>1. CASE i \in DOMAIN K /\ Cleaned(H)[i] = K[i]
            <6>1. PICK j \in DOMAIN G : K[i] = sanitize(G[j])
              BY <2>6, <5>1 DEF K
            <6> QED BY <2>4, <5>1, <6>1
          <5>2. CASE Cleaned(H)[i] = e
            BY <2>4, <5>2 DEF e
          <5> QED BY <3>2, <3>3, <4>1, <5>1, <5>2
        <4> QED BY <4>1
      <3> QED BY <2>4, <3>2, <3>3, <3>4 DEF H
    <2> QED BY <2>7, <2>8
  <1>3. \A G \in Seq(W) : G \in P
    <2> HIDE DEF P, W
    <2> QED BY <1>1, <1>2, SeqInduct
  <1> QED BY <1>3

(* The segments of two paths are cleaned each for itself.                  *)
LEMMA CleanedConcat ==
    ASSUME NEW C, NEW G \in Seq(Seq(C))
    PROVE  \A H \in Seq(Seq(C)) : Cleaned(G \o H) = Cleaned(G) \o Cleaned(H)
  <1> DEFINE W == Seq(C)
             N == Nonempty(C \ Banned)
             P == {H \in Seq(W) : Cleaned(G \o H) = Cleaned(G) \o Cleaned(H)}
  <1>1. G \in Seq(W) /\ \A H \in Seq(W) : Cleaned(H) \in Seq(N)
    BY CleanedType
  <1>2. \A g \in W : sanitize(g) # <<>> => sanitize(g) \in N
    BY Sanitized DEF Nonempty
  <1> HIDE DEF W, N
  <1>3. <<>> \in P
    <2>1. <<>> \in Seq(W) /\ G \o <<>> = G
      BY <1>1, AppendConcat
    <2>2. Cleaned(G) \o <<>> = Cleaned(G)
      <3>1. Cleaned(G) \in Seq(N)
        BY <1>1
      <3> QED BY <3>1, ConcatEmptySeq
    <2> QED BY <2>1, <2>2, CleanedEmpty, Zenon
  <1>4. ASSUME NEW H \in Seq(W), NEW g \in W, H \in P
        PROVE  Append(H, g) \in P
    <2> DEFINE A == Cleaned(G)
               B == Cleaned(H)
               e == sanitize(g)
    <2>1. A \in Seq(N) /\ B \in Seq(N) /\ (e # <<>> => e \in N)
      BY <1>1, <1>2
    <2>2. Cleaned(G \o H) = A \o B
      BY <1>4
    <2>3. Append(H, g) \in Seq(W) /\ G \o H \in Seq(W) /\ G \o Append(H, g) = Append(G \o H, g)
      BY <1>1, AppendConcat
    <2>4. Cleaned(Append(H, g)) = IF e = <<>> THEN B ELSE Append(B, e)
      BY CleanedStep
    <2>5. Cleaned(Append(G \o H, g)) = IF e = <<>> THEN A \o B ELSE Append(A \o B, e)
      BY <2>2, <2>3, CleanedStep, Zenon
    <2> HIDE DEF A, B, e
    <2>6. e # <<>> => A \o Append(B, e) = Append(A \o B, e)
      BY <2>1, AppendConcat
    <2>7. Cleaned(G \o Append(H, g)) = A \o Cleaned(Append(H, g))
      BY <2>3, <2>4, <2>5, <2>6, Zenon
    <2> QED BY <2>3, <2>7, Zenon DEF A
  <1>5. \A H \in Seq(W) : H \in P
    <2> HIDE DEF P
    <2> QED BY <1>3, <1>4, SeqInduct
  <1> QED BY <1>5 DEF W

(* Names that sanitize leaves as they are.                                 *)
LEMMA CleanedSame ==
    ASSUME NEW W, \A g \in W : sanitize(g) = g /\ g # <<>>
    PROVE  \A G \in Seq(W) : Cleaned(G) = G
  <1> DEFINE P == {G \in Seq(W) : Cleaned(G) = G}
  <1>1. <<>> \in P
    <2>1. <<>> \in Seq(W)
      OBVIOUS
    <2> QED BY <2>1, CleanedEmpty, Zenon
  <1>2. ASSUME NEW G \in Seq(W), NEW g \in W, G \in P
        PROVE  Append(G, g) \in P
    <2>1. Append(G, g) \in Seq(W)
      OBVIOUS
    <2>2. Cleaned(Append(G, g)) =
             IF sanitize(g) = <<>> THEN Cleaned(G) ELSE Append(Cleaned(G), sanitize(g))
      BY CleanedStep
    <2>3. Cleaned(G) = G /\ sanitize(g) = g /\ g # <<>>
      BY <1>2
    <2>4. Cleaned(Append(G, g)) = Append(G, g)
      BY <2>2, <2>3, Zenon
    <2> QED BY <2>1, <2>4, Zenon
  <1>3. \A G \in Seq(W) : G \in P
    <2> HIDE DEF P
    <2> QED BY <1>1, <1>2, SeqInduct
  <1> QED BY <1>3

(* A path of names is divided into these names.                            *)
LEMMA PathParts ==
    ASSUME NEW C, "/" \in C
    PROVE  \A G \in Seq(Nonempty(Letters(C))) :
              /\ Path(G) \in Seq(C)
              /\ G # <<>> => Path(G) # <<>> /\ Split(Path(G)) = G
  <1> DEFINE L == Letters(C)
             W == Nonempty(L)
             Good(G) == /\ Path(G) \in Seq(C)
                        /\ G # <<>> => Path(G) # <<>> /\ Split(Path(G)) = G
             P == {G \in Seq(W) : Good(G)}
  <1>1. <<>> \in P
    <2>1. <<>> \in Seq(W) /\ <<>> \in Seq(C)
      OBVIOUS
    <2> QED BY <2>1, PathEmpty, Zenon
  <1>2. \A g \in W : g \in Seq(L) /\ g \in Seq(C) /\ g # <<>>
    <2>1. \A g \in Seq(L) : g \in Seq(C)
      BY SeqMonotonic DEF Letters
    <2> QED BY <2>1 DEF Nonempty
  <1>3. ASSUME NEW G \in Seq(W), NEW g \in W, G \in P
        PROVE  Append(G, g) \in P
    <2>1. Append(G, g) \in Seq(W) /\ Append(G, g) # <<>>
      OBVIOUS
    <2>2. Path(Append(G, g)) = IF Path(G) = <<>> THEN g ELSE Path(G) \o Slash \o g
      BY CleanedStep, PathStep
    <2>3. g \in Seq(L) /\ g \in Seq(C) /\ g # <<>> /\ Split(g) = <<g>>
      BY <1>2, SplitName
    <2>4. Good(G)
      BY <1>3
    <2>5. CASE G = <<>>
      <3>1. Append(G, g) = <<g>>
        BY <2>5
      <3>2. Path(Append(G, g)) = g
        BY <2>2, <2>5, PathEmpty, Zenon
      <3>3. Good(Append(G, g))
        BY <2>3, <3>1, <3>2, Zenon
      <3> QED BY <2>1, <3>3, Zenon
    <2>6. CASE G # <<>>
      <3>1. Path(G) \in Seq(C) /\ Path(G) # <<>> /\ Split(Path(G)) = G
        BY <2>4, <2>6
      <3>2. Path(Append(G, g)) = (Path(G) \o Slash) \o g
        BY <2>2, <3>1, Zenon
      <3>3. Split((Path(G) \o Slash) \o g) = Split(Path(G)) \o Split(g)
        BY <2>3, <3>1, SplitSlash, Zenon
      <3>4. G \o <<g>> = Append(G, g)
        <4> HIDE DEF W
        <4> QED BY AppendConcat
      <3>5. Split(Path(Append(G, g))) = Append(G, g)
        BY <2>3, <3>1, <3>2, <3>3, <3>4, Zenon
      <3>6. Path(Append(G, g)) \in Seq(C) /\ Path(Append(G, g)) # <<>>
        <4> DEFINE a == Path(G)
        <4>1. a \in Seq(C) /\ g \in Seq(C) /\ g # <<>> /\ Slash \in Seq(C)
          BY <2>3, <3>1 DEF Slash
        <4> HIDE DEF a
        <4>2. (a \o Slash) \o g \in Seq(C) /\ (a \o Slash) \o g # <<>>
          <5> DEFINE b == a \o Slash
          <5>1. b \in Seq(C)
            BY <4>1
          <5> HIDE DEF b
          <5>2. b \o g \in Seq(C) /\ b \o g # <<>>
            BY <4>1, <5>1, ConcatEqualIffEmpty, ConcatProperties
          <5> QED BY <5>2 DEF b
        <4> QED BY <3>2, <4>2, Zenon DEF a
      <3>7. Good(Append(G, g))
        BY <3>5, <3>6
      <3> QED BY <2>1, <3>7, Zenon
    <2> QED BY <2>5, <2>6
  <1>4. \A G \in Seq(W) : G \in P
    <2> HIDE DEF P, W
    <2> QED BY <1>1, <1>3, SeqInduct
  <1> QED BY <1>4

-----------------------------------------------------------------------------
(* Texts, and their characters.                                             *)

Chars == {"/"} \cup Range(Users) \cup Range(Id) \cup PathChars \cup FormChars
Text == Seq(Chars)

LEMMA Joining ==
    ASSUME NEW s \in Text, NEW t \in Text
    PROVE  /\ s \o t \in Text /\ Len(s \o t) = Len(s) + Len(t)
           /\ \A i \in 1 .. Len(s) : (s \o t)[i] = s[i]
           /\ \A i \in Len(s) + 1 .. Len(s) + Len(t) : (s \o t)[i] = t[i - Len(s)]
  BY DEF Text

LEMMA Associates ==
    ASSUME NEW s \in Text, NEW t \in Text, NEW u \in Text
    PROVE  (s \o t) \o u = s \o (t \o u)
  BY ConcatAssociative DEF Text

LEMMA Parts ==
    ASSUME NEW s \in Text, NEW m \in Nat, NEW n \in Nat, 1 <= m, n <= Len(s), m <= n + 1
    PROVE  /\ SubSeq(s, m, n) \in Text /\ Len(SubSeq(s, m, n)) = n + 1 - m
           /\ \A i \in 1 .. n + 1 - m : SubSeq(s, m, n)[i] = s[m + i - 1]
  BY DEF Text

LEMMA SlashText == Slash \in Text /\ Len(Slash) = 1 /\ Slash[1] = "/"
  BY DEF Text, Slash, Chars

(* Len(Slash) keeps its name where SMT computes with lengths.              *)
LEMMA WithSlash ==
    ASSUME NEW s \in Text
    PROVE  /\ s \o Slash \in Text /\ Len(s \o Slash) = Len(s) + 1
           /\ \A i \in 1 .. Len(s) : (s \o Slash)[i] = s[i]
           /\ (s \o Slash)[Len(s) + 1] = "/"
  <1>1. /\ s \o Slash \in Text /\ Len(s \o Slash) = Len(s) + Len(Slash)
        /\ \A i \in 1 .. Len(s) : (s \o Slash)[i] = s[i]
        /\ \A i \in Len(s) + 1 .. Len(s) + Len(Slash) : (s \o Slash)[i] = Slash[i - Len(s)]
    BY SlashText, Joining, Zenon
  <1>2. /\ Len(s \o Slash) = Len(s) + 1
        /\ \A i \in Len(s) + 1 .. Len(s) + 1 : (s \o Slash)[i] = Slash[i - Len(s)]
    BY <1>1, SlashText, Zenon
  <1>3. Len(s) + 1 - Len(s) = 1 /\ Len(s) + 1 \in Len(s) + 1 .. Len(s) + 1
    BY DEF Text
  <1>4. (s \o Slash)[Len(s) + 1] = Slash[Len(s) + 1 - Len(s)]
    BY <1>2, <1>3
  <1>5. (s \o Slash)[Len(s) + 1] = "/"
    BY <1>3, <1>4, SlashText, Zenon
  <1> QED BY <1>1, <1>2, <1>5, Zenon

LEMMA Lengths == MaxSegment \in Nat /\ MaxSegment > 0
  <1>1. MaxSegment \in Nat \ {0}
    BY PathNamesAssumption, Zenon
  <1> QED BY <1>1

LEMMA OwnNames ==
    /\ Users \in Text /\ Users # <<>> /\ Id \in Text /\ Id # <<>>
    /\ \A i \in 1 .. Len(Users) : Users[i] \notin {"/", "\\", "(", ")"}
    /\ \A i \in 1 .. Len(Id) : Id[i] \notin {"/", "\\", "(", ")"}
  <1>1. Users \in Text /\ Users # <<>> /\ Id \in Text /\ Id # <<>>
    <2>1. Users \in Seq(Range(Users)) /\ Id \in Seq(Range(Id)) /\ Users # <<>> /\ Id # <<>>
      BY PathNamesAssumption, Zenon
    <2>2. Range(Users) \subseteq Chars /\ Range(Id) \subseteq Chars
      BY Zenon DEF Chars
    <2> QED BY <2>1, <2>2, SeqMonotonic, Zenon DEF Text
  <1>2. DOMAIN Users = 1 .. Len(Users) /\ DOMAIN Id = 1 .. Len(Id)
    BY <1>1 DEF Text
  <1>3. \A c \in Range(Users) \cup Range(Id) : c \notin {"/", "\\", "(", ")"}
    BY PathNamesAssumption, Zenon
  <1>4. /\ \A i \in DOMAIN Users : Users[i] \in Range(Users) \cup Range(Id)
        /\ \A i \in DOMAIN Id : Id[i] \in Range(Users) \cup Range(Id)
    BY DEF Range
  <1> QED BY <1>1, <1>2, <1>3, <1>4, Zenon

LEMMA Texts ==
    /\ Users \in Text /\ Id \in Text /\ Base \in Text
    /\ Len(Id) > 0 /\ Len(Base) = Len(Users) + 1 + Len(Id)
  <1>1. Users \in Text /\ Id \in Text
    BY OwnNames
  <1>2. Len(Id) > 0
    BY OwnNames DEF Text
  <1>3. Base \in Text /\ Len(Base) = Len(Users) + 1 + Len(Id)
    <2>1. Users \o Slash \in Text /\ Len(Users \o Slash) = Len(Users) + 1
      BY <1>1, WithSlash, Zenon
    <2>2. Base \in Text /\ Len(Base) = Len(Users \o Slash) + Len(Id)
      BY <1>1, <2>1, Joining, Zenon DEF Base
    <2> QED BY <2>1, <2>2, Zenon
  <1> QED BY <1>1, <1>2, <1>3

(* The user's folder has one slash, behind the word "USERS".               *)
LEMMA BaseSlash ==
    \A i \in 1 .. Len(Base) :
       /\ i <= Len(Users) => Base[i] = Users[i]
       /\ Base[i] = "/" <=> i = Len(Users) + 1
  <1>1. Len(Users) \in Nat /\ Len(Id) \in Nat /\ Len(Base) = Len(Users) + 1 + Len(Id)
    BY Texts DEF Text
  <1>2. \A i \in 1 .. Len(Users) : Users[i] # "/"
    BY OwnNames
  <1>3. \A i \in 1 .. Len(Id) : Id[i] # "/"
    BY OwnNames
  <1>4. /\ Users \o Slash \in Text /\ Len(Users \o Slash) = Len(Users) + 1
        /\ \A i \in 1 .. Len(Users) : (Users \o Slash)[i] = Users[i]
        /\ (Users \o Slash)[Len(Users) + 1] = "/"
    BY Texts, WithSlash, Zenon
  <1>5. /\ \A i \in 1 .. Len(Users) + 1 : Base[i] = (Users \o Slash)[i]
        /\ \A i \in Len(Users) + 2 .. Len(Base) : Base[i] = Id[i - (Len(Users) + 1)]
    BY Texts, <1>1, <1>4 DEF Base, Text
  <1>6. ASSUME NEW i \in 1 .. Len(Base)
        PROVE  /\ i <= Len(Users) => Base[i] = Users[i]
               /\ Base[i] = "/" <=> i = Len(Users) + 1
    BY <1>1, <1>2, <1>3, <1>4, <1>5
  <1> QED BY <1>6

(* IsPrefix, character by character.                                       *)
LEMMA PrefixAt ==
    ASSUME NEW s \in Text, NEW t \in Text
    PROVE  IsPrefix(s, t) <=> Len(s) <= Len(t) /\ \A i \in 1 .. Len(s) : s[i] = t[i]
  BY DEF Text, IsPrefix

(* A text that ends in a slash is what is before it and the slash.         *)
LEMMA FrontOf ==
    ASSUME NEW f \in Text, EndsIn(f, "/")
    PROVE  Front(f) \in Text /\ Len(Front(f)) = Len(f) - 1 /\ f = Front(f) \o Slash
  <1>1. Len(f) \in Nat /\ Len(f) > 0 /\ f[Len(f)] = "/"
    BY DEF EndsIn, Last, Text
  <1>2. /\ Front(f) \in Text /\ Len(Front(f)) = Len(f) - 1
        /\ \A i \in 1 .. Len(f) - 1 : Front(f)[i] = f[i]
    <2>1. 1 \in Nat /\ Len(f) - 1 \in Nat /\ 1 <= 1 /\ Len(f) - 1 <= Len(f) /\ 1 <= Len(f) - 1 + 1
      BY <1>1
    <2>2. /\ Front(f) \in Text /\ Len(Front(f)) = Len(f) - 1 + 1 - 1
          /\ \A i \in 1 .. Len(f) - 1 + 1 - 1 : Front(f)[i] = f[1 + i - 1]
      BY <2>1, Parts, Zenon DEF Front
    <2> QED BY <1>1, <2>2
  <1>3. /\ Front(f) \o Slash \in Text /\ Len(Front(f) \o Slash) = Len(Front(f)) + 1
        /\ \A i \in 1 .. Len(Front(f)) : (Front(f) \o Slash)[i] = Front(f)[i]
        /\ (Front(f) \o Slash)[Len(Front(f)) + 1] = "/"
    BY <1>2, WithSlash, Zenon
  <1>4. Len(f) = Len(Front(f) \o Slash) /\ \A i \in 1 .. Len(f) : f[i] = (Front(f) \o Slash)[i]
    BY <1>1, <1>2, <1>3
  <1>5. f = Front(f) \o Slash
    BY <1>3, <1>4, SeqEqual, Zenon DEF Text
  <1> QED BY <1>2, <1>5

-----------------------------------------------------------------------------
(* Where files are put.                                                    *)

LEMMA TargetInside ==
    ASSUME NEW f \in Text, InBase(f)
    PROVE  Target(f) = IF EndsIn(f, "/") THEN f ELSE f \o Slash
  BY DEF Target

LEMMA TargetOutside ==
    ASSUME NEW f \in Text, ~InBase(f), f # <<>>
    PROVE  Target(f) = Base \o Slash \o f \o Slash
  BY DEF Target

LEMMA OutsideLength ==
    ASSUME NEW f \in Text, ~InBase(f)
    PROVE  Len(Target(f)) = IF f = <<>> THEN Len(Base) + 1 ELSE Len(Base) + Len(f) + 2
  <1>1. Base \o Slash \in Text /\ Len(Base \o Slash) = Len(Base) + 1
    BY Texts, WithSlash, Zenon
  <1>2. Len(Base) \in Nat /\ Len(f) \in Nat
    BY Texts DEF Text
  <1>3. CASE f = <<>>
    BY <1>1, <1>3 DEF Target
  <1>4. CASE f # <<>>
    <2>1. Base \o Slash \o f \in Text /\ Len(Base \o Slash \o f) = Len(Base \o Slash) + Len(f)
      BY <1>1, Joining, Zenon
    <2>2. Len(Base \o Slash \o f \o Slash) = Len(Base \o Slash \o f) + 1
      BY <2>1, WithSlash, Zenon
    <2>3. Len(Target(f)) = Len(Base \o Slash \o f) + 1
      BY <1>4, <2>2, TargetOutside, Zenon
    <2> QED BY <1>1, <1>2, <1>4, <2>1, <2>3
  <1> QED BY <1>3, <1>4

(* One slash more or less does not bring a name into the user's folder.    *)
LEMMA SlashOutside ==
    ASSUME NEW g \in Text
    PROVE  InBase(g \o Slash) <=> InBase(g)
  <1>1. /\ g \o Slash \in Text /\ Len(g \o Slash) = Len(g) + 1
        /\ \A i \in 1 .. Len(g) : (g \o Slash)[i] = g[i]
        /\ (g \o Slash)[Len(g) + 1] = "/"
    BY WithSlash, Zenon
  <1>2. InBase(g) <=> Len(Base) <= Len(g) /\ \A i \in 1 .. Len(Base) : Base[i] = g[i]
    BY Texts, PrefixAt, Zenon DEF InBase
  <1>3. InBase(g \o Slash) <=>
           Len(Base) <= Len(g \o Slash) /\ \A i \in 1 .. Len(Base) : Base[i] = (g \o Slash)[i]
    BY <1>1, Texts, PrefixAt, Zenon DEF InBase
  <1>4. Len(g) \in Nat /\ Len(Base) \in Nat /\ Len(Base) > Len(Users) + 1 /\ Len(Users) \in Nat
    BY Texts DEF Text
  <1>5. Base[Len(Base)] # "/"
    BY BaseSlash, <1>4
  <1> QED BY <1>1, <1>2, <1>3, <1>4, <1>5

LEMMA ListedWherePut ==
    ASSUME NEW f \in Text
    PROVE  ListTarget(f) = Target(f)
             <=> (EndsIn(f, "/") => InBase(Front(f)) /\ ~EndsIn(Front(f), "/"))
  <1>1. CASE ~EndsIn(f, "/")
    BY <1>1 DEF ListTarget
  <1>2. CASE EndsIn(f, "/")
    <2> DEFINE g == Front(f)
    <2>1. g \in Text /\ Len(g) = Len(f) - 1 /\ f = g \o Slash
      BY <1>2, FrontOf
    <2>2. ListTarget(f) = Target(g)
      BY <1>2 DEF ListTarget
    <2>3. InBase(f) <=> InBase(g)
      BY <2>1, SlashOutside, Zenon
    <2>4. Len(f) \in Nat /\ Len(g) \in Nat /\ Len(g) # Len(f) /\ f # <<>> /\ Len(Base) \in Nat
      BY <2>1, Texts, <1>2 DEF Text, EndsIn
    <2>5. CASE InBase(g)
      <3>1. Target(f) = f
        BY <1>2, <2>3, <2>5, TargetInside
      <3>2. Target(g) = IF EndsIn(g, "/") THEN g ELSE f
        BY <2>1, <2>5, TargetInside, Zenon
      <3>3. g # f
        BY <2>4
      <3> QED BY <1>2, <2>2, <2>5, <3>1, <3>2, <3>3
    <2>6. CASE ~InBase(g)
      <3>1. Len(Target(f)) = Len(Base) + Len(f) + 2
        BY <2>3, <2>4, <2>6, OutsideLength
      <3>2. Len(Target(g)) = IF g = <<>> THEN Len(Base) + 1 ELSE Len(Base) + Len(g) + 2
        BY <2>1, <2>6, OutsideLength
      <3>3. Len(Target(f)) # Len(Target(g))
        BY <2>1, <2>4, <3>1, <3>2
      <3> QED BY <1>2, <2>2, <2>6, <3>3
    <2> QED BY <2>5, <2>6
  <1> QED BY <1>1, <1>2

-----------------------------------------------------------------------------
(* Files by path.                                                          *)

LEMMA Divided ==
    ASSUME path \in Text, NEW i \in Cuts
    PROVE  /\ i \in Nat /\ i > 1 /\ i <= Len(path) /\ Len(path) \in Nat
           /\ path[i] = "/" /\ path[i - 1] # "/"
           /\ Above(i) \in Text /\ Len(Above(i)) = i - 1
           /\ \A k \in 1 .. i - 1 : Above(i)[k] = path[k]
           /\ Rest(i) \in Text /\ Len(Rest(i)) = Len(path) - i
           /\ \A k \in 1 .. Len(path) - i : Rest(i)[k] = path[i + k]
           /\ path = (Above(i) \o Slash) \o Rest(i)
  <1>1. /\ i \in Nat /\ i > 1 /\ i <= Len(path) /\ Len(path) \in Nat
        /\ path[i] = "/" /\ path[i - 1] # "/"
    BY DEF Cuts, Text
  <1>2. /\ Above(i) \in Text /\ Len(Above(i)) = i - 1
        /\ \A k \in 1 .. i - 1 : Above(i)[k] = path[k]
    <2>1. 1 \in Nat /\ i - 1 \in Nat /\ 1 <= 1 /\ i - 1 <= Len(path) /\ 1 <= i - 1 + 1
      BY <1>1
    <2>2. /\ Above(i) \in Text /\ Len(Above(i)) = i - 1 + 1 - 1
          /\ \A k \in 1 .. i - 1 + 1 - 1 : Above(i)[k] = path[1 + k - 1]
      BY <2>1, Parts, Zenon DEF Above
    <2> QED BY <1>1, <2>2
  <1>3. /\ Rest(i) \in Text /\ Len(Rest(i)) = Len(path) - i
        /\ \A k \in 1 .. Len(path) - i : Rest(i)[k] = path[i + k]
    <2>1. /\ i + 1 \in Nat /\ Len(path) \in Nat /\ 1 <= i + 1
          /\ Len(path) <= Len(path) /\ i + 1 <= Len(path) + 1
      BY <1>1
    <2>2. /\ Rest(i) \in Text /\ Len(Rest(i)) = Len(path) + 1 - (i + 1)
          /\ \A k \in 1 .. Len(path) + 1 - (i + 1) : Rest(i)[k] = path[i + 1 + k - 1]
      BY <2>1, Parts, Zenon DEF Rest
    <2> QED BY <1>1, <2>2
  <1>4. path = (Above(i) \o Slash) \o Rest(i)
    <2> DEFINE folder == Above(i) \o Slash
    <2>1. /\ folder \in Text /\ Len(folder) = Len(Above(i)) + 1
          /\ \A k \in 1 .. Len(Above(i)) : folder[k] = Above(i)[k]
          /\ folder[Len(Above(i)) + 1] = "/"
      BY <1>2, WithSlash, Zenon
    <2>2. /\ folder \o Rest(i) \in Text /\ Len(folder \o Rest(i)) = Len(folder) + Len(Rest(i))
          /\ \A k \in 1 .. Len(folder) : (folder \o Rest(i))[k] = folder[k]
          /\ \A k \in Len(folder) + 1 .. Len(folder) + Len(Rest(i)) :
                (folder \o Rest(i))[k] = Rest(i)[k - Len(folder)]
      BY <1>3, <2>1, Joining, Zenon
    <2> HIDE DEF folder
    <2>3. Len(folder) = i /\ Len(folder \o Rest(i)) = Len(path)
      BY <1>1, <1>2, <1>3, <2>1, <2>2
    <2>4. \A k \in 1 .. i : path[k] = folder[k]
      BY <1>1, <1>2, <2>1
    <2>5. \A k \in i + 1 .. Len(path) : path[k] = (folder \o Rest(i))[k]
      BY <1>1, <1>3, <2>2, <2>3
    <2>6. \A k \in 1 .. Len(path) : path[k] = (folder \o Rest(i))[k]
      BY <1>1, <2>2, <2>3, <2>4, <2>5
    <2>7. path = folder \o Rest(i)
      BY <2>2, <2>3, <2>6, SeqEqual, Zenon DEF Text
    <2> QED BY <2>7 DEF folder
  <1> QED BY <1>1, <1>2, <1>3, <1>4

(* A file's path is within the user's folder if its folder's name is, and  *)
(* besides only if that name is "USERS" and the user's id begins the name  *)
(* of the file.                                                            *)
LEMMA FolderInside ==
    ASSUME path \in Text, NEW i \in Cuts
    PROVE  /\ InBase(Above(i)) => InBase(path)
           /\ InBase(path) /\ ~InBase(Above(i)) => IsPrefix(Users, Above(i))
           /\ IsPrefix(Users, path) <=> IsPrefix(Users, Above(i))
  <1>1. /\ Len(Users) \in Nat /\ Len(Base) \in Nat /\ Len(Base) > Len(Users) + 1
        /\ Users \in Text /\ Base \in Text
    BY Texts DEF Text
  <1>2. \A s, t \in Text :
           IsPrefix(s, t) <=> Len(s) <= Len(t) /\ \A k \in 1 .. Len(s) : s[k] = t[k]
    BY PrefixAt
  <1>3. \A k \in 1 .. Len(Users) : Users[k] # "/"
    BY <1>1, BaseSlash
  <1> DEFINE a == Above(i)
  <1>4. /\ i \in Nat /\ i > 1 /\ i <= Len(path) /\ Len(path) \in Nat /\ path[i] = "/"
        /\ a \in Text /\ Len(a) = i - 1 /\ \A k \in 1 .. i - 1 : a[k] = path[k]
    BY Divided
  <1> HIDE DEF a
  <1>5. InBase(a) => InBase(path)
    BY <1>1, <1>2, <1>4 DEF InBase
  <1>6. IsPrefix(Users, a) => IsPrefix(Users, path)
    BY <1>1, <1>2, <1>4
  <1>7. IsPrefix(Users, path) => IsPrefix(Users, a)
    <2> SUFFICES ASSUME IsPrefix(Users, path) PROVE IsPrefix(Users, a)
      OBVIOUS
    <2>1. Len(Users) <= Len(path) /\ \A k \in 1 .. Len(Users) : Users[k] = path[k]
      BY <1>1, <1>2
    <2>2. Len(Users) < i
      BY <1>1, <1>3, <1>4, <2>1
    <2> QED BY <1>1, <1>2, <1>4, <2>1, <2>2
  <1>8. InBase(path) => IsPrefix(Users, path)
    <2> SUFFICES ASSUME InBase(path) PROVE IsPrefix(Users, path)
      OBVIOUS
    <2>1. Len(Base) <= Len(path) /\ \A k \in 1 .. Len(Base) : Base[k] = path[k]
      BY <1>1, <1>2 DEF InBase
    <2>2. \A k \in 1 .. Len(Users) : Users[k] = path[k]
      BY <1>1, <2>1, BaseSlash
    <2> QED BY <1>1, <1>2, <1>4, <2>1, <2>2
  <1> QED BY <1>5, <1>6, <1>7, <1>8 DEF a

LEMMA FileWherePut ==
    ASSUME path \in Text, NEW i \in Cuts
    PROVE  Target(Above(i)) \o Rest(i) = Formatted(path) <=> ~Outside(Above(i))
  <1> DEFINE a == Above(i)
             r == Rest(i)
  <1>1. /\ i \in Nat /\ i > 1 /\ i <= Len(path) /\ Len(path) \in Nat /\ path[i - 1] # "/"
        /\ a \in Text /\ Len(a) = i - 1 /\ \A k \in 1 .. i - 1 : a[k] = path[k]
        /\ r \in Text /\ Len(r) = Len(path) - i /\ path = (a \o Slash) \o r
    BY Divided
  <1>2. /\ InBase(a) => InBase(path)
        /\ InBase(path) /\ ~InBase(a) => IsPrefix(Users, a)
        /\ IsPrefix(Users, path) <=> IsPrefix(Users, a)
    BY FolderInside
  <1>3. Outside(a) <=> IsPrefix(Users, a) /\ ~InBase(a)
    BY DEF Outside
  <1> HIDE DEF a, r
  <1>4. a # <<>> /\ ~EndsIn(a, "/")
    BY <1>1 DEF EndsIn, Last
  <1>5. CASE InBase(a)
    <2>1. Target(a) = a \o Slash
      BY <1>1, <1>4, <1>5, TargetInside, Zenon
    <2>2. Formatted(path) = path
      BY <1>2, <1>5 DEF Formatted
    <2> QED BY <1>1, <1>3, <1>5, <2>1, <2>2, Zenon DEF a, r
  <1>6. CASE ~InBase(a)
    <2>0. a \in Text /\ r \in Text
      BY <1>1
    <2>1. Target(a) = Base \o Slash \o a \o Slash
      BY <1>1, <1>4, <1>6, TargetOutside, Zenon
    <2>2. /\ Base \in Text /\ Slash \in Text /\ Base \o Slash \in Text
          /\ Base \o Slash \o a \in Text /\ Base \o Slash \o a \o Slash \in Text
          /\ a \o Slash \in Text
      BY <1>1, Texts, SlashText, Joining, Zenon
    <2>3. CASE IsPrefix(Users, a)
      <3>1. Len(Target(a)) = Len(Base) + Len(a) + 2
        BY <1>1, <1>4, <1>6, OutsideLength, Zenon
      <3> DEFINE whole == Target(a) \o r
      <3>2. Len(whole) = Len(Target(a)) + Len(r)
        BY <1>1, <2>1, <2>2, Joining, Zenon
      <3> HIDE DEF whole
      <3>3. Len(Base) \in Nat /\ Len(Users) \in Nat
        BY Texts DEF Text
      <3>4. Len(whole) = Len(Base) + Len(path) + 1
        <4>1. Len(a) \in Nat /\ Len(r) \in Nat /\ Len(a) + Len(r) + 1 = Len(path)
          BY <1>1
        <4>2. Len(Target(a)) + Len(r) = Len(Base) + Len(path) + 1
          BY <3>1, <3>3, <4>1
        <4> QED BY <3>2, <4>2, Zenon
      <3>5. CASE InBase(path)
        BY <1>1, <3>3, <3>4, <3>5, <1>3, <1>6, <2>3 DEF Formatted, a, r, whole
      <3>6. CASE ~InBase(path)
        <4> DEFINE t == SubSeq(path, Len(Users) + 1, Len(path))
        <4>1. Formatted(path) = Base \o t
          BY <1>2, <2>3, <3>6 DEF Formatted
        <4>2. Len(Users) <= Len(path)
          BY <1>2, <2>3, PrefixAt, Texts
        <4>3. /\ Len(Users) + 1 \in Nat /\ Len(path) <= Len(path) /\ 1 <= Len(Users) + 1
              /\ Len(Users) + 1 <= Len(path) + 1
          BY <1>1, <3>3, <4>2
        <4>4. t \in Text /\ Len(t) = Len(path) + 1 - (Len(Users) + 1)
          BY <1>1, <4>3, Parts, Zenon
        <4> HIDE DEF t
        <4>5. Len(Base \o t) = Len(Base) + Len(t)
          BY <2>2, <4>4, Joining, Zenon
        <4>6. Len(Formatted(path)) # Len(whole)
          BY <1>1, <3>3, <3>4, <4>1, <4>4, <4>5
        <4> QED BY <1>3, <1>6, <2>3, <4>6 DEF a, r, whole
      <3> QED BY <3>5, <3>6
    <2>4. CASE ~IsPrefix(Users, a)
      <3>1. Formatted(path) = Base \o Slash \o path
        BY <1>2, <1>6, <2>4 DEF Formatted
      <3>2. (((Base \o Slash) \o a) \o Slash) \o r = (Base \o Slash) \o ((a \o Slash) \o r)
        <4> DEFINE inside == Base \o Slash
                   folder == a \o Slash
        <4>1. inside \in Text /\ a \in Text /\ r \in Text /\ Slash \in Text /\ folder \in Text
          BY <2>0, <2>2
        <4> HIDE DEF inside
        <4>2. (inside \o a) \o Slash = inside \o folder
          BY <4>1, Associates, Zenon
        <4> HIDE DEF folder
        <4>3. (inside \o folder) \o r = inside \o (folder \o r)
          BY <4>1, Associates, Zenon
        <4> QED BY <4>2, <4>3, Zenon DEF inside, folder
      <3>4. Target(a) \o r = Formatted(path)
        BY <1>1, <2>1, <3>1, <3>2, Zenon
      <3> QED BY <1>3, <2>4, <3>4, Zenon DEF a, r
    <2> QED BY <2>3, <2>4
  <1> QED BY <1>5, <1>6

-----------------------------------------------------------------------------
(* What is typed.                                                          *)

Typed ==
    /\ kind \in {"path", "form"}
    /\ start \in {<<>>, Users, Base}
    /\ text \in Text

LEMMA TypedAlways == Spec => []Typed
  <1>1. Init => Typed
    BY DEF Init, Typed, Text
  <1>2. Typed /\ [Next]_vars => Typed'
    <2> SUFFICES ASSUME Typed, [Next]_vars
                 PROVE  Typed'
      OBVIOUS
    <2>1. CASE Next
      <3>1. PICK c \in PathChars \cup FormChars : Type(c)
        BY <2>1 DEF Next
      <3>2. c \in Chars
        BY DEF Chars
      <3>3. text' \in Text
        BY <3>1, <3>2 DEF Type, Typed, Text
      <3> QED BY <3>1, <3>3 DEF Type, Typed
    <2>2. CASE UNCHANGED vars
      BY <2>2 DEF vars, Typed
    <2> QED BY <2>1, <2>2
  <1> QED BY <1>1, <1>2, PTL DEF Spec

LEMMA PathTyped == ASSUME Typed PROVE path \in Text
  <1>1. start \in Text
    <2>1. <<>> \in Text
      BY DEF Text
    <2> QED BY <2>1, Texts DEF Typed
  <1> QED BY <1>1, Joining, Zenon DEF Typed, path

(* Whatever name a folder has, a listing of it looks where an upload to it *)
(* puts files (wssSession.cpp:136 and 278), unless the name ends in a slash*)
(* which the one drops and the other keeps.                                *)
THEOREM FoldersAreListed == Spec => []FolderListed
  <1>1. Typed => FolderListed
    BY PathTyped, ListedWherePut, Zenon DEF FolderListed
  <1> QED BY <1>1, TypedAlways, PTL

(* Whatever its folder is called, the record of a file is found by the     *)
(* folder's name and its own (wssSession.cpp:717 and 840), unless the name *)
(* begins with "USERS" and is not within the user's folder.                *)
THEOREM FilesAreFoundByName == Spec => []FileFound
  <1>1. Typed => FileFound
    BY PathTyped, FileWherePut, Zenon DEF FileFound
  <1> QED BY <1>1, TypedAlways, PTL

-----------------------------------------------------------------------------
(* Sanitized paths.                                                        *)

Names == Nonempty(Letters(Chars) \ Banned)

(* The segments of a path are names that sanitize has made.                *)
LEMMA SegmentsType ==
    ASSUME NEW s \in Text
    PROVE  /\ Split(s) \in Seq(Seq(Letters(Chars))) /\ Split(s) # <<>>
           /\ Segments(s) \in Seq(Names)
           /\ \A i \in DOMAIN Segments(s) :
                 \E j \in DOMAIN Split(s) : Segments(s)[i] = sanitize(Split(s)[j])
           /\ sanitizeToPath(s) = Path(Segments(s))
  <1>1. Split(s) \in Seq(Seq(Letters(Chars))) /\ Split(s) # <<>>
    BY SplitType DEF Text
  <1>2. Segments(s) = Cleaned(Split(s)) /\ sanitizeToPath(s) = Path(Segments(s))
    BY SanitizeToPath
  <1> DEFINE L == Letters(Chars)
             G == Split(s)
  <1>3. G \in Seq(Seq(L))
    BY <1>1
  <1> HIDE DEF L, G
  <1>4. /\ Cleaned(G) \in Seq(Nonempty(L \ Banned))
        /\ \A i \in DOMAIN Cleaned(G) : \E j \in DOMAIN G : Cleaned(G)[i] = sanitize(G[j])
    BY <1>3, CleanedType
  <1> QED BY <1>1, <1>2, <1>4, Zenon DEF L, G, Names

(* The names of a path are read off it again.                              *)
LEMMA PathOfNames ==
    ASSUME NEW G \in Seq(Names)
    PROVE  /\ Path(G) \in Seq((Letters(Chars) \ Banned) \cup {"/"}) /\ Path(G) \in Text
           /\ G # <<>> => Path(G) # <<>> /\ Split(Path(G)) = G
  <1> DEFINE D == Letters(Chars) \ Banned
             C == D \cup {"/"}
  <1>1. Letters(C) = D /\ "/" \in C /\ C \subseteq Chars
    BY DEF Letters, Chars
  <1>2. G \in Seq(Nonempty(Letters(C)))
    BY <1>1 DEF Names
  <1> HIDE DEF C
  <1>3. Path(G) \in Seq(C) /\ (G # <<>> => Path(G) # <<>> /\ Split(Path(G)) = G)
    BY <1>1, <1>2, PathParts
  <1>4. Path(G) \in Text
    BY <1>1, <1>3, SeqMonotonic DEF Text
  <1> QED BY <1>3, <1>4 DEF C

LEMMA SanitizedEmpty == sanitize(<<>>) = <<>> /\ Segments(<<>>) = <<>> /\ sanitizeToPath(<<>>) = <<>>
  <1>1. sanitize(<<>>) = <<>>
    <2> DEFINE C == {}
    <2>1. <<>> \in Seq(C) /\ C \ Banned = C /\ \A s \in Seq(C) : s = <<>>
      OBVIOUS
    <2> HIDE DEF C
    <2>2. sanitize(<<>>) \in Seq(C \ Banned)
      BY <2>1, Sanitized
    <2> QED BY <2>1, <2>2
  <1>2. Cleaned(<< <<>> >>) = <<>>
    <2> DEFINE W == { <<>> }
    <2>1. <<>> \in Seq(W) /\ <<>> \in W /\ << <<>> >> = Append(<<>>, <<>>)
      OBVIOUS
    <2> HIDE DEF W
    <2>2. Cleaned(Append(<<>>, <<>>)) = Cleaned(<<>>)
      BY <1>1, <2>1, CleanedStep
    <2> QED BY <2>1, <2>2, CleanedEmpty, Zenon
  <1>3. Segments(<<>>) = <<>>
    BY <1>2, SplitEmpty, SanitizeToPath, Zenon
  <1>4. sanitizeToPath(<<>>) = <<>>
    BY <1>3, SanitizeToPath, PathEmpty, Zenon
  <1> QED BY <1>1, <1>3, <1>4

(* The parts of SanitizedClean.                                            *)
LEMMA NoneBanned ==
    ASSUME NEW s \in Text
    PROVE  \A i \in DOMAIN sanitizeToPath(s) : sanitizeToPath(s)[i] \notin Banned \ {"/"}
  <1> DEFINE r == sanitizeToPath(s)
             C == (Letters(Chars) \ Banned) \cup {"/"}
  <1>1. r \in Seq(C)
    BY SegmentsType, PathOfNames
  <1>2. \A c \in C : c \notin Banned \ {"/"}
    OBVIOUS
  <1> HIDE DEF r, C
  <1>3. \A i \in DOMAIN r : r[i] \in C
    BY <1>1
  <1> QED BY <1>2, <1>3 DEF r

LEMMA SegmentLength ==
    ASSUME NEW s \in Text
    PROVE  \A i \in DOMAIN Segments(s) : Len(Segments(s)[i]) \in 1 .. MaxSegment
  <1> SUFFICES ASSUME NEW i \in DOMAIN Segments(s)
               PROVE  Len(Segments(s)[i]) \in 1 .. MaxSegment
    OBVIOUS
  <1> DEFINE g == Segments(s)[i]
  <1>1. g \in Names
    BY SegmentsType
  <1>2. PICK j \in DOMAIN Split(s) : g = sanitize(Split(s)[j])
    BY SegmentsType
  <1>3. Split(s)[j] \in Seq(Letters(Chars))
    BY SegmentsType
  <1> HIDE DEF g
  <1>4. Len(g) <= MaxSegment
    BY <1>2, <1>3, Sanitized
  <1>5. g \in Seq(Letters(Chars) \ Banned) /\ g # <<>>
    BY <1>1 DEF Names, Nonempty
  <1>6. Len(g) \in Nat /\ Len(g) > 0
    BY <1>5
  <1>7. Len(g) \in 1 .. MaxSegment
    BY <1>4, <1>6, Lengths
  <1> QED BY <1>7 DEF g

LEMMA UncutNames ==
    ASSUME NEW s \in Text, ~IsCut(s)
    PROVE  \A i \in DOMAIN Segments(s) :
              CleanName(Segments(s)[i]) /\ sanitize(Segments(s)[i]) = Segments(s)[i]
  <1> SUFFICES ASSUME NEW i \in DOMAIN Segments(s)
               PROVE  CleanName(Segments(s)[i]) /\ sanitize(Segments(s)[i]) = Segments(s)[i]
    OBVIOUS
  <1> DEFINE g == Segments(s)[i]
  <1>1. g \in Names
    BY SegmentsType
  <1>2. PICK j \in DOMAIN Split(s) : g = sanitize(Split(s)[j])
    BY SegmentsType
  <1> DEFINE h == Split(s)[j]
  <1>3. h \in Seq(Letters(Chars))
    BY SegmentsType
  <1>4. ~(Len(Unreserved(Trimmed(Erased(h)))) > MaxSegment)
    BY DEF IsCut
  <1> HIDE DEF g, h
  <1>5. g # <<>> /\ g = sanitize(h) /\ g \in Seq(Letters(Chars) \ Banned)
    BY <1>1, <1>2 DEF Names, Nonempty, h
  <1>6. Len(Unreserved(Trimmed(Erased(h)))) <= MaxSegment
    <2> DEFINE u == Unreserved(Trimmed(Erased(h)))
    <2>1. Erased(h) \in Seq(Letters(Chars) \ Banned)
      BY <1>3, ErasedText
    <2>2. Trimmed(Erased(h)) \in Seq(Letters(Chars) \ Banned)
      BY <2>1, TrimmedText
    <2>3. u \in Seq(Letters(Chars) \ Banned)
      BY <2>2 DEF Unreserved
    <2> HIDE DEF u
    <2>4. Len(u) \in Nat /\ ~(Len(u) > MaxSegment)
      BY <1>4, <2>3 DEF u
    <2>5. Len(u) <= MaxSegment
      BY <2>4, Lengths
    <2> QED BY <2>5 DEF u
  <1>7. CleanName(g)
    BY <1>3, <1>5, <1>6, Sanitized
  <1>8. sanitize(g) = g
    BY <1>5, <1>7, Sanitized
  <1> QED BY <1>7, <1>8 DEF g

LEMMA OnceIsEnough ==
    ASSUME NEW s \in Text, ~IsCut(s)
    PROVE  sanitizeToPath(sanitizeToPath(s)) = sanitizeToPath(s)
  <1> DEFINE G == Segments(s)
  <1>1. G \in Seq(Names) /\ sanitizeToPath(s) = Path(G)
    BY SegmentsType
  <1>2. CASE G = <<>>
    <2>1. sanitizeToPath(s) = <<>>
      BY <1>1, <1>2, PathEmpty, Zenon
    <2> QED BY <2>1, SanitizedEmpty, Zenon
  <1>3. CASE G # <<>>
    <2>1. Split(Path(G)) = G
      BY <1>1, <1>3, PathOfNames
    <2> DEFINE W == {g \in Names : sanitize(g) = g}
    <2>2. G \in Seq(W)
      <3>1. \A i \in DOMAIN G : G[i] \in Names /\ sanitize(G[i]) = G[i]
        BY <1>1, UncutNames
      <3> HIDE DEF G
      <3>2. \A i \in 1 .. Len(G) : G[i] \in W
        BY <1>1, <3>1
      <3> HIDE DEF W
      <3> QED BY <1>1, <3>2
    <2>3. \A g \in W : sanitize(g) = g /\ g # <<>>
      BY DEF Names, Nonempty
    <2> HIDE DEF W, G
    <2>4. Cleaned(G) = G
      BY <2>2, <2>3, CleanedSame
    <2>5. Segments(Path(G)) = G
      BY <2>1, <2>4, SanitizeToPath, Zenon
    <2>6. sanitizeToPath(Path(G)) = Path(G)
      BY <2>5, SanitizeToPath, Zenon
    <2> QED BY <1>1, <2>6, Zenon
  <1> QED BY <1>2, <1>3

(* Whatever a path is typed of, what sanitizeToPath makes of it            *)
(* (auxil.cpp:60) has no banned character and no empty or overlong segment;*)
(* unless a segment was cut, none is a reserved name or ends in a space or *)
(* a period, and sanitizing once is enough.                                *)
THEOREM PathsAreClean == Spec => []SanitizedClean
  <1>1. ASSUME Typed
        PROVE  SanitizedClean
    <2>1. path \in Text
      BY <1>1, PathTyped
    <2>2. \A i \in DOMAIN sanitizeToPath(path) : sanitizeToPath(path)[i] \notin Banned \ {"/"}
      BY <2>1, NoneBanned
    <2>3. \A i \in DOMAIN Segments(path) : Len(Segments(path)[i]) \in 1 .. MaxSegment
      BY <2>1, SegmentLength
    <2>4. ASSUME ~IsCut(path)
          PROVE  /\ \A i \in DOMAIN Segments(path) :
                       /\ ~EndsIn(Segments(path)[i], " ") /\ ~EndsIn(Segments(path)[i], ".")
                       /\ InUpper(Segments(path)[i]) \notin Reserved
                 /\ sanitizeToPath(sanitizeToPath(path)) = sanitizeToPath(path)
      BY <2>1, <2>4, UncutNames, OnceIsEnough, Zenon DEF CleanName
    <2> QED BY <2>2, <2>3, <2>4, Zenon DEF SanitizedClean
  <1> QED BY <1>1, TypedAlways, PTL

-----------------------------------------------------------------------------
(* The patterns of the queries.                                            *)

Unbracketed == Chars \ {"(", ")"}

LEMMA UngroupedEmpty == Ungrouped(<<>>) = <<>> /\ Balanced(<<>>)
  <1>1. FoldsNothing(NextUngrouped)
    BY FoldingNothing
  <1>2. FoldsNothing(Nesting)
    BY FoldingNothing
  <1>3. Ungrouped(<<>>) = <<>>
    BY <1>1, Zenon DEF FoldsNothing, Ungrouped
  <1>4. FoldLeft(Nesting, 0, <<>>) = 0
    BY <1>2, Zenon DEF FoldsNothing
  <1> QED BY <1>3, <1>4, Zenon DEF Balanced

LEMMA UngroupedStep ==
    ASSUME NEW C, NEW s \in Seq(C), NEW c \in C
    PROVE  /\ Ungrouped(Append(s, c)) =
                 IF c \in {"(", ")"} THEN Ungrouped(s) ELSE Append(Ungrouped(s), c)
           /\ c \notin {"(", ")"} /\ Balanced(s) => Balanced(Append(s, c))
  <1>1. FoldsFromLeft(NextUngrouped, <<>>, C)
    BY FoldingFromLeft
  <1>2. FoldLeft(NextUngrouped, <<>>, Append(s, c)) = NextUngrouped(FoldLeft(NextUngrouped, <<>>, s), c)
    BY <1>1 DEF FoldsFromLeft
  <1>3. FoldsFromLeft(Nesting, 0, C)
    BY FoldingFromLeft
  <1>4. FoldLeft(Nesting, 0, Append(s, c)) = Nesting(FoldLeft(Nesting, 0, s), c)
    BY <1>3 DEF FoldsFromLeft
  <1>5. Ungrouped(Append(s, c)) = IF c \in {"(", ")"} THEN Ungrouped(s) ELSE Append(Ungrouped(s), c)
    BY <1>2, Zenon DEF Ungrouped, NextUngrouped
  <1>6. c \notin {"(", ")"} => Nesting(0, c) = 0
    BY DEF Nesting
  <1>7. c \notin {"(", ")"} /\ Balanced(s) => Balanced(Append(s, c))
    BY <1>4, <1>6, Zenon DEF Balanced
  <1> QED BY <1>5, <1>7

(* A pattern without parentheses stands for itself.                        *)
LEMMA UngroupedSame ==
    \A s \in Seq(Unbracketed) : Ungrouped(s) = s /\ Balanced(s)
  <1> DEFINE P == {s \in Seq(Unbracketed) : Ungrouped(s) = s /\ Balanced(s)}
  <1>1. <<>> \in P
    <2>1. <<>> \in Seq(Unbracketed)
      OBVIOUS
    <2> QED BY <2>1, UngroupedEmpty, Zenon
  <1>2. ASSUME NEW s \in Seq(Unbracketed), NEW c \in Unbracketed, s \in P
        PROVE  Append(s, c) \in P
    <2>1. Append(s, c) \in Seq(Unbracketed)
      OBVIOUS
    <2>2. c \notin {"(", ")"} /\ Ungrouped(s) = s /\ Balanced(s)
      BY <1>2 DEF Unbracketed
    <2>3. Ungrouped(Append(s, c)) = Append(s, c) /\ Balanced(Append(s, c))
      BY <2>2, UngroupedStep
    <2> QED BY <2>1, <2>3, Zenon
  <1>3. \A s \in Seq(Unbracketed) : s \in P
    <2> HIDE DEF P
    <2> QED BY <1>1, <1>2, SeqInduct
  <1> QED BY <1>3

(* HasGroup, character by character.                                       *)
LEMMA Groupless ==
    ASSUME NEW s \in Text
    PROVE  HasGroup(s) <=> \E i \in 1 .. Len(s) : s[i] \in {"(", ")"}
  <1>1. DOMAIN s = 1 .. Len(s)
    BY DEF Text
  <1>2. Range(s) = {s[i] : i \in 1 .. Len(s)}
    BY <1>1, Zenon DEF Range
  <1> QED BY <1>2 DEF HasGroup

LEMMA GrouplessText ==
    ASSUME NEW s \in Text, ~HasGroup(s)
    PROVE  s \in Seq(Unbracketed)
  <1>1. s \in Seq(Chars) /\ \A i \in 1 .. Len(s) : s[i] \in Unbracketed
    BY Groupless DEF Text, Unbracketed
  <1> QED BY <1>1

(* A pattern with parentheses is shorter without them ...                  *)
LEMMA UngroupedShorter ==
    \A s \in Text : /\ Ungrouped(s) \in Text /\ Len(Ungrouped(s)) <= Len(s)
                    /\ HasGroup(s) => Len(Ungrouped(s)) < Len(s)
  <1> DEFINE Full(s) == \A i \in 1 .. Len(s) : s[i] \notin {"(", ")"}
             P == {s \in Seq(Chars) : /\ Ungrouped(s) \in Seq(Chars) /\ Len(Ungrouped(s)) <= Len(s)
                                      /\ ~Full(s) => Len(Ungrouped(s)) < Len(s)}
  <1>1. <<>> \in P
    <2>1. <<>> \in Seq(Chars) /\ Len(<<>>) <= Len(<<>>) /\ Full(<<>>)
      OBVIOUS
    <2> HIDE DEF Full
    <2> QED BY <2>1, UngroupedEmpty, Zenon
  <1>2. ASSUME NEW s \in Seq(Chars), NEW c \in Chars, s \in P
        PROVE  Append(s, c) \in P
    <2> DEFINE t == Append(s, c)
               u == Ungrouped(s)
    <2>1. t \in Seq(Chars) /\ Len(t) = Len(s) + 1 /\ Len(s) \in Nat
      OBVIOUS
    <2>2. c \notin {"(", ")"} /\ Full(s) => Full(t)
      OBVIOUS
    <2>3. u \in Seq(Chars) /\ Len(u) <= Len(s) /\ (~Full(s) => Len(u) < Len(s))
      BY <1>2
    <2>4. Ungrouped(t) = IF c \in {"(", ")"} THEN u ELSE Append(u, c)
      BY UngroupedStep
    <2> HIDE DEF t, u, Full
    <2>5. /\ Append(u, c) \in Seq(Chars) /\ Len(Append(u, c)) = Len(u) + 1 /\ Len(u) \in Nat
      BY <2>3
    <2>6. Ungrouped(t) \in Seq(Chars) /\ Len(Ungrouped(t)) <= Len(t)
          /\ (~Full(t) => Len(Ungrouped(t)) < Len(t))
      <3>1. CASE c \in {"(", ")"}
        BY <2>1, <2>3, <2>4, <2>5, <3>1
      <3>2. CASE c \notin {"(", ")"}
        BY <2>1, <2>2, <2>3, <2>4, <2>5, <3>2
      <3> QED BY <3>1, <3>2
    <2> QED BY <2>1, <2>6 DEF t, Full
  <1>3. \A s \in Seq(Chars) : s \in P
    <2> HIDE DEF P
    <2> QED BY <1>1, <1>2, SeqInduct
  <1>4. ASSUME NEW s \in Text
        PROVE  HasGroup(s) => ~Full(s)
    BY Groupless
  <1> HIDE DEF Full
  <1> QED BY <1>3, <1>4 DEF Text

LEMMA UngroupedConcat ==
    ASSUME NEW s \in Text
    PROVE  \A t \in Text : Ungrouped(s \o t) = Ungrouped(s) \o Ungrouped(t)
  <1> DEFINE P == {t \in Seq(Chars) : Ungrouped(s \o t) = Ungrouped(s) \o Ungrouped(t)}
  <1>0. s \in Seq(Chars) /\ \A t \in Seq(Chars) : Ungrouped(t) \in Seq(Chars)
    BY UngroupedShorter DEF Text
  <1>1. <<>> \in P
    <2>1. <<>> \in Seq(Chars) /\ s \o <<>> = s /\ Ungrouped(s) \o <<>> = Ungrouped(s)
      BY <1>0, AppendConcat
    <2> QED BY <2>1, UngroupedEmpty, Zenon
  <1>2. ASSUME NEW t \in Seq(Chars), NEW c \in Chars, t \in P
        PROVE  Append(t, c) \in P
    <2> DEFINE A == Ungrouped(s)
               B == Ungrouped(t)
    <2>1. Append(t, c) \in Seq(Chars) /\ s \o t \in Seq(Chars) /\ s \o Append(t, c) = Append(s \o t, c)
      BY <1>0, AppendConcat
    <2>2. Ungrouped(s \o t) = A \o B
      BY <1>2
    <2>3. Ungrouped(Append(t, c)) = IF c \in {"(", ")"} THEN B ELSE Append(B, c)
      BY UngroupedStep
    <2>4. Ungrouped(Append(s \o t, c)) = IF c \in {"(", ")"} THEN A \o B ELSE Append(A \o B, c)
      BY <2>1, <2>2, UngroupedStep, Zenon
    <2>5. A \in Seq(Chars) /\ B \in Seq(Chars)
      BY <1>0
    <2> HIDE DEF A, B
    <2>6. A \o Append(B, c) = Append(A \o B, c)
      BY <2>5, AppendConcat
    <2>7. Ungrouped(s \o Append(t, c)) = A \o Ungrouped(Append(t, c))
      BY <2>1, <2>3, <2>4, <2>6, Zenon
    <2> QED BY <2>1, <2>7, Zenon DEF A
  <1>3. \A t \in Seq(Chars) : t \in P
    <2> HIDE DEF P
    <2> QED BY <1>1, <1>2, SeqInduct
  <1> QED BY <1>3, Zenon DEF Text

LEMMA FrontMatches ==
    ASSUME NEW s \in Text, NEW t \in Text, ~HasGroup(s), ~HasSign(s)
    PROVE  Matches(s, s \o t)
  <1>1. Balanced(s) /\ Ungrouped(s) = s
    BY GrouplessText, UngroupedSame
  <1>2. /\ s \o t \in Text /\ Len(s \o t) = Len(s) + Len(t)
        /\ \A i \in 1 .. Len(s) : (s \o t)[i] = s[i]
    BY Joining, Zenon
  <1>3. Len(s) \in Nat /\ Len(t) \in Nat /\ DOMAIN s = 1 .. Len(s)
    BY DEF Text
  <1>4. MatchesFront(s, s \o t)
    <2>1. Len(s) <= Len(s \o t)
      BY <1>2, <1>3
    <2>2. \A i \in DOMAIN s : s[i] = (s \o t)[i]
      BY <1>2, <1>3, Zenon
    <2> QED BY <2>1, <2>2, Zenon DEF MatchesFront
  <1> QED BY <1>1, <1>4, Zenon DEF Matches

(* ... so that, where its last slash is due, the text has yet another      *)
(* character: a target with parentheses matches nothing below it.          *)
LEMMA GroupMismatch ==
    ASSUME NEW T \in Text, HasGroup(T), Len(T) > 0, T[Len(T)] = "/", NEW R \in Text
    PROVE  ~MatchesFront(Ungrouped(T), T \o R)
  <1> DEFINE K == {j \in 1 .. Len(T) : T[j] \in {"(", ")"}}
             k == Min(K)
             M == {j \in k .. Len(T) : T[j] = "/"}
             m == Min(M)
  <1>0. Len(T) \in Nat /\ Len(R) \in Nat
    BY DEF Text
  <1>1. k \in K /\ \A j \in K : k <= j
    <2>1. K \in SUBSET Nat /\ K # {}
      BY <1>0, Groupless
    <2> QED BY <2>1, MinWithin
  <1>2. k \in 1 .. Len(T) /\ T[k] \in {"(", ")"}
    BY <1>1
  <1> HIDE DEF k
  <1>3. m \in M /\ \A j \in M : m <= j
    <2>1. M \in SUBSET Nat /\ M # {}
      BY <1>0, <1>2
    <2> QED BY <2>1, MinWithin
  <1>4. m \in k .. Len(T) /\ T[m] = "/"
    BY <1>3
  <1> HIDE DEF m
  <1>5. k \in Nat /\ m \in Nat /\ 1 <= k /\ k < m /\ m <= Len(T)
    BY <1>0, <1>2, <1>4
  <1>6. \A j \in 1 .. k - 1 : T[j] \notin {"(", ")"}
    BY <1>0, <1>1, <1>5
  <1>7. \A j \in k .. m - 1 : T[j] # "/"
    BY <1>0, <1>3, <1>5
  <1> HIDE DEF K, M
  <1> DEFINE A == SubSeq(T, 1, k - 1)
             B == SubSeq(T, k, m - 1)
             D == SubSeq(T, 1, m - 1)
             E == SubSeq(T, m + 1, Len(T))
  <1>8. /\ A \in Text /\ Len(A) = k - 1 /\ \A i \in 1 .. k - 1 : A[i] = T[i]
        /\ B \in Text /\ D \in Text /\ Len(D) = m - 1 /\ D[k] = T[k]
        /\ E \in Text
    <2>1. A \in Text /\ Len(A) = k - 1 /\ \A i \in 1 .. k - 1 : A[i] = T[i]
      BY <1>0, <1>5 DEF Text
    <2>2. B \in Text
      BY <1>0, <1>5 DEF Text
    <2>3. D \in Text /\ Len(D) = m - 1 /\ D[k] = T[k]
      BY <1>0, <1>5 DEF Text
    <2>4. E \in Text
      BY <1>0, <1>5 DEF Text
    <2> QED BY <2>1, <2>2, <2>3, <2>4
  <1>9. D = A \o B
    BY <1>0, <1>5 DEF Text
  <1>10. T = (D \o Slash) \o E
    <2>1. D \o Slash = SubSeq(T, 1, m)
      BY <1>0, <1>4, <1>5 DEF Text, Slash
    <2>2. SubSeq(T, 1, m) \o E = T
      <3>1. T \in Seq(Chars) /\ 1 \in 1 .. Len(T) + 1 /\ m \in 0 .. Len(T) /\ Len(T) \in m .. Len(T)
        BY <1>0, <1>5 DEF Text
      <3>2. m \in 1 - 1 .. Len(T)
        BY <3>1
      <3>3. SubSeq(T, 1, m) \o SubSeq(T, m + 1, Len(T)) = SubSeq(T, 1, Len(T))
        BY <3>1, <3>2, ConcatAdjacentSubSeq
      <3> QED BY <3>1, <3>3, SubSeqFull, Zenon
    <2> QED BY <2>1, <2>2, Zenon
  <1> HIDE DEF A, B, D, E
  <1>11. Len(Ungrouped(D)) < m - 1 /\ Ungrouped(D) \in Text
    <2>1. k \in 1 .. Len(D)
      BY <1>5, <1>8
    <2>2. HasGroup(D)
      BY <1>2, <1>8, <2>1, Groupless
    <2> QED BY <1>8, <2>2, UngroupedShorter
  <1>12. Len(Ungrouped(D)) >= k - 1
    <2>1. ~HasGroup(A)
      BY <1>6, <1>8, Groupless
    <2>2. Ungrouped(A) = A
      BY <1>8, <2>1, GrouplessText, UngroupedSame
    <2>7. Ungrouped(A \o B) = Ungrouped(A) \o Ungrouped(B)
      BY <1>8, UngroupedConcat
    <2>3. Ungrouped(D) = A \o Ungrouped(B)
      BY <1>9, <2>2, <2>7, Zenon
    <2>4. Ungrouped(B) \in Text
      BY <1>8, UngroupedShorter
    <2>5. Len(A \o Ungrouped(B)) = Len(A) + Len(Ungrouped(B))
      BY <1>8, <2>4, Joining, Zenon
    <2>6. Len(Ungrouped(B)) \in Nat
      BY <2>4 DEF Text
    <2> QED BY <1>5, <1>8, <2>3, <2>5, <2>6
  <1> DEFINE U == Ungrouped(T)
             n == Len(Ungrouped(D)) + 1
  <1>13. n \in k .. m - 1 /\ n \in Nat
    BY <1>5, <1>11, <1>12 DEF Text
  <1>14. U \in Text /\ n <= Len(U) /\ U[n] = "/"
    <2> DEFINE V == Ungrouped(D) \o Slash
               F == Ungrouped(E)
    <2>1. Ungrouped(D \o Slash) = V
      <3>1. ~HasGroup(Slash)
        <4>1. \A i \in 1 .. Len(Slash) : Slash[i] = "/"
          BY SlashText
        <4> QED BY <4>1, SlashText, Groupless
      <3>2. Ungrouped(Slash) = Slash
        BY <3>1, SlashText, GrouplessText, UngroupedSame
      <3>3. Ungrouped(D \o Slash) = Ungrouped(D) \o Ungrouped(Slash)
        BY <1>8, SlashText, UngroupedConcat
      <3> QED BY <3>2, <3>3, Zenon
    <2>2. V \in Text /\ Len(V) = n /\ V[n] = "/"
      BY <1>11, WithSlash, Zenon
    <2>3. D \o Slash \in Text /\ E \in Text /\ F \in Text
      BY <1>8, SlashText, Joining, UngroupedShorter
    <2>4. U = V \o F
      BY <1>10, <2>1, <2>3, UngroupedConcat, Zenon
    <2> HIDE DEF U, V, F, n
    <2>5. V \o F \in Text /\ n <= Len(V \o F) /\ (V \o F)[n] = V[n]
      BY <1>5, <1>13, <2>2, <2>3 DEF Text
    <2> QED BY <2>2, <2>4, <2>5
  <1>15. (T \o R)[n] = T[n] /\ T[n] # "/"
    <2> HIDE DEF n
    <2>1. n \in 1 .. Len(T)
      BY <1>0, <1>5, <1>13
    <2>2. (T \o R)[n] = T[n]
      BY <2>1, Joining, Zenon
    <2> QED BY <1>7, <1>13, <2>2
  <1>16. n \in DOMAIN U
    <2> HIDE DEF n, U
    <2> QED BY <1>5, <1>13, <1>14 DEF Text
  <1> HIDE DEF n, U
  <1>17. U[n] # "." /\ U[n] # (T \o R)[n]
    BY <1>14, <1>15
  <1> QED BY <1>16, <1>17, Zenon DEF MatchesFront, U

(* What is below a folder matches the pattern of a listing of it, if and   *)
(* only if the name of the folder, that has no other sign, has no          *)
(* parentheses.                                                            *)
LEMMA BelowTarget ==
    ASSUME NEW T \in Text, Len(T) > 0, T[Len(T)] = "/", ~HasSign(T),
           NEW R \in Text, Len(R) > 0, R[1] # "/"
    PROVE  IsBelow(T, T \o R) <=> ~HasGroup(T)
  <1>1. CASE HasGroup(T)
    BY <1>1, GroupMismatch, Zenon DEF IsBelow, Matches
  <1>2. CASE ~HasGroup(T)
    <2>1. Matches(T, T \o R)
      BY <1>2, FrontMatches
    <2>2. Ungrouped(T) = T
      BY <1>2, GrouplessText, UngroupedSame
    <2>3. Len(T \o R) > Len(T) /\ (T \o R)[Len(T) + 1] # "/"
      BY DEF Text
    <2> QED BY <1>2, <2>1, <2>2, <2>3, Zenon DEF IsBelow
  <1> QED BY <1>1, <1>2

(* The first name of a path, with and without a slash at its end.          *)
LEMMA FirstNameSlash ==
    ASSUME NEW s \in Text
    PROVE  FirstName(s \o Slash) = FirstName(s)
  <1> DEFINE t == s \o Slash
             I == {i \in 1 .. Len(s) : s[i] = "/"}
             J == {i \in 1 .. Len(t) : t[i] = "/"}
             j == Min(J)
  <1>1. FirstSlash(s) = IF I # {} THEN Min(I) ELSE 0
    BY DEF FirstSlash, SelectInSeq
  <1>2. FirstSlash(t) = IF J # {} THEN j ELSE 0
    BY DEF FirstSlash, SelectInSeq
  <1>3. /\ t \in Text /\ Len(t) = Len(s) + 1 /\ \A i \in 1 .. Len(s) : t[i] = s[i]
        /\ t[Len(s) + 1] = "/" /\ Len(s) \in Nat
    <2>1. Len(s) \in Nat
      BY DEF Text
    <2> QED BY <2>1, WithSlash, Zenon
  <1>11. t = s \o Slash
    OBVIOUS
  <1> HIDE DEF t
  <1>4. j \in J /\ \A i \in J : j <= i
    <2>1. J \in SUBSET Nat /\ Len(s) + 1 \in J
      BY <1>3
    <2>2. J # {}
      BY <2>1
    <2> HIDE DEF J
    <2> QED BY <2>1, <2>2, MinWithin
  <1>5. FirstSlash(t) = j
    BY <1>2, <1>4
  <1>6. FirstName(t) = SubSeq(t, 1, j - 1)
    <2>1. j # 0
      BY <1>3, <1>4
    <2> QED BY <1>5, <2>1, Zenon DEF FirstName
  <1>7. CASE I = {}
    <2>1. FirstName(s) = s
      BY <1>1, <1>7, Zenon DEF FirstName
    <2>2. j = Len(s) + 1
      <3>1. \A i \in 1 .. Len(s) : s[i] # "/"
        BY <1>7
      <3>2. j \in 1 .. Len(s) + 1 /\ t[j] = "/"
        BY <1>3, <1>4
      <3> HIDE DEF j
      <3> QED BY <1>3, <3>1, <3>2
    <2>3. SubSeq(t, 1, Len(s) + 1 - 1) = s
      <3>1. /\ SubSeq(t, 1, Len(s)) \in Text /\ Len(SubSeq(t, 1, Len(s))) = Len(s)
            /\ \A i \in 1 .. Len(s) : SubSeq(t, 1, Len(s))[i] = s[i]
        BY <1>3 DEF Text
      <3>2. SubSeq(t, 1, Len(s)) = s
        BY <3>1, SeqEqual, Zenon DEF Text
      <3>3. Len(s) + 1 - 1 = Len(s)
        BY <1>3
      <3> QED BY <3>2, <3>3, Zenon
    <2> HIDE DEF j
    <2>4. FirstName(t) = s
      BY <1>6, <2>2, <2>3
    <2> QED BY <1>11, <2>1, <2>4, Zenon
  <1>8. CASE I # {}
    <2> DEFINE i == Min(I)
    <2>1. i \in I /\ \A k \in I : i <= k
      <3>1. I \in SUBSET Nat
        BY <1>3
      <3> HIDE DEF I
      <3> QED BY <1>8, <3>1, MinWithin
    <2>2. FirstName(s) = SubSeq(s, 1, i - 1)
      <3>1. i # 0
        BY <1>3, <2>1
      <3> QED BY <1>1, <1>8, <3>1, Zenon DEF FirstName
    <2>3. i = j
      <3>1. i \in 1 .. Len(s) /\ s[i] = "/"
        BY <2>1
      <3>2. j \in 1 .. Len(s) + 1 /\ t[j] = "/"
        BY <1>3, <1>4
      <3> HIDE DEF i
      <3>3. i \in J
        BY <1>3, <3>1
      <3>4. j <= i
        BY <1>4, <3>3
      <3> HIDE DEF j
      <3>5. s[j] = "/" /\ j \in 1 .. Len(s)
        BY <1>3, <3>1, <3>2, <3>4
      <3>6. j \in I
        BY <3>5
      <3>7. i <= j
        BY <2>1, <3>6 DEF i
      <3> QED BY <3>1, <3>2, <3>4, <3>7
    <2>4. SubSeq(t, 1, i - 1) = SubSeq(s, 1, i - 1)
      <3>1. i \in 1 .. Len(s)
        BY <2>1
      <3> HIDE DEF i
      <3>2. /\ SubSeq(t, 1, i - 1) \in Text /\ Len(SubSeq(t, 1, i - 1)) = i - 1
            /\ \A k \in 1 .. i - 1 : SubSeq(t, 1, i - 1)[k] = t[k]
        BY <1>3, <3>1 DEF Text
      <3>3. /\ SubSeq(s, 1, i - 1) \in Text /\ Len(SubSeq(s, 1, i - 1)) = i - 1
            /\ \A k \in 1 .. i - 1 : SubSeq(s, 1, i - 1)[k] = s[k]
        BY <1>3, <3>1 DEF Text
      <3>4. \A k \in 1 .. i - 1 : k \in 1 .. Len(s)
        BY <1>3, <3>1
      <3>5. \A k \in 1 .. i - 1 : SubSeq(t, 1, i - 1)[k] = SubSeq(s, 1, i - 1)[k]
        BY <1>3, <3>2, <3>3, <3>4, Zenon
      <3> QED BY <3>2, <3>3, <3>5, SeqEqual, Zenon DEF Text
    <2> QED BY <1>6, <1>11, <2>2, <2>3, <2>4, Zenon
  <1> QED BY <1>7, <1>8

LEMMA BeyondTarget ==
    ASSUME NEW T \in Text, NEW R \in Text
    PROVE  Beyond(T, T \o R) = R
  <1> DEFINE g == T \o R
             b == SubSeq(g, Len(T) + 1, Len(g))
  <1>1. /\ g \in Text /\ Len(g) = Len(T) + Len(R) /\ Len(T) \in Nat /\ Len(R) \in Nat
        /\ \A i \in Len(T) + 1 .. Len(T) + Len(R) : g[i] = R[i - Len(T)]
    BY DEF Text
  <1> HIDE DEF g
  <1>2. b \in Text /\ Len(b) = Len(R) /\ \A i \in 1 .. Len(R) : b[i] = g[Len(T) + i]
    BY <1>1 DEF Text
  <1> HIDE DEF b
  <1>3. ASSUME NEW i \in 1 .. Len(R)
        PROVE  b[i] = R[i]
    <2>1. Len(T) + i \in Len(T) + 1 .. Len(T) + Len(R) /\ Len(T) + i - Len(T) = i
      BY <1>1
    <2> QED BY <1>1, <1>2, <2>1
  <1>4. b = R
    BY <1>2, <1>3, SeqEqual DEF Text
  <1> QED BY <1>4, Zenon DEF Beyond, b, g

LEMMA BaseGroupless == \A i \in 1 .. Len(Base) : Base[i] \notin {"(", ")"}
  <1>1. Users \in Text /\ Id \in Text /\ Len(Users) \in Nat /\ Len(Id) \in Nat
    BY OwnNames DEF Text
  <1>2. /\ Users \o Slash \in Text /\ Len(Users \o Slash) = Len(Users) + 1
        /\ \A i \in 1 .. Len(Users) : (Users \o Slash)[i] = Users[i]
        /\ (Users \o Slash)[Len(Users) + 1] = "/"
    BY <1>1, WithSlash, Zenon
  <1>3. \A i \in 1 .. Len(Users) + 1 : (Users \o Slash)[i] \notin {"(", ")"}
    BY <1>1, <1>2, OwnNames
  <1> DEFINE u == Users \o Slash
  <1>4. u \in Text /\ Len(u) = Len(Users) + 1 /\ \A i \in 1 .. Len(u) : u[i] \notin {"(", ")"}
    BY <1>2, <1>3
  <1> HIDE DEF u
  <1>5. \A i \in 1 .. Len(u \o Id) : (u \o Id)[i] \notin {"(", ")"}
    <2>1. /\ Len(u \o Id) = Len(u) + Len(Id)
          /\ \A i \in 1 .. Len(u) : (u \o Id)[i] = u[i]
          /\ \A i \in Len(u) + 1 .. Len(u) + Len(Id) : (u \o Id)[i] = Id[i - Len(u)]
      BY <1>1, <1>4, Joining, Zenon
    <2> QED BY <1>1, <1>4, <2>1, OwnNames
  <1> QED BY <1>5 DEF Base, u

(* The signs of a text are those of its parts; the user's folder has none. *)
LEMMA Signless ==
    /\ \A s, t \in Text : HasSign(s \o t) <=> HasSign(s) \/ HasSign(t)
    /\ ~HasSign(Slash) /\ ~HasSign(Base)
  <1>1. ASSUME NEW s \in Text, NEW t \in Text
        PROVE  Range(s \o t) = Range(s) \cup Range(t)
    <2> DEFINE u == s \o t
    <2>1. /\ Len(s) \in Nat /\ Len(t) \in Nat /\ Len(u) = Len(s) + Len(t)
          /\ DOMAIN s = 1 .. Len(s) /\ DOMAIN t = 1 .. Len(t) /\ DOMAIN u = 1 .. Len(u)
          /\ \A i \in 1 .. Len(s) : u[i] = s[i]
          /\ \A i \in Len(s) + 1 .. Len(s) + Len(t) : u[i] = t[i - Len(s)]
      BY Joining DEF Text
    <2> HIDE DEF u
    <2>2. ASSUME NEW c \in Range(u)
          PROVE  c \in Range(s) \cup Range(t)
      <3>1. PICK i \in 1 .. Len(u) : c = u[i]
        BY <2>1, <2>2, Zenon DEF Range
      <3>2. CASE i <= Len(s)
        BY <2>1, <3>1, <3>2 DEF Range
      <3>3. CASE i > Len(s)
        <4>1. i - Len(s) \in DOMAIN t /\ i \in Len(s) + 1 .. Len(s) + Len(t)
          BY <2>1, <3>1, <3>3
        <4>2. c = t[i - Len(s)]
          BY <2>1, <3>1, <4>1
        <4> QED BY <4>1, <4>2, Zenon DEF Range
      <3> QED BY <2>1, <3>1, <3>2, <3>3
    <2>3. ASSUME NEW i \in DOMAIN s
          PROVE  s[i] \in Range(u)
      <3>1. i \in DOMAIN u /\ s[i] = u[i]
        BY <2>1
      <3> QED BY <3>1, Zenon DEF Range
    <2>4. ASSUME NEW i \in DOMAIN t
          PROVE  t[i] \in Range(u)
      <3> DEFINE k == Len(s) + i
      <3>1. k \in DOMAIN u /\ k \in Len(s) + 1 .. Len(s) + Len(t) /\ k - Len(s) = i
        BY <2>1
      <3> HIDE DEF k
      <3>2. t[i] = u[k]
        BY <2>1, <3>1
      <3> QED BY <3>1, <3>2, Zenon DEF Range
    <2>5. Range(s) \subseteq Range(u) /\ Range(t) \subseteq Range(u)
      BY <2>3, <2>4, Zenon DEF Range
    <2> QED BY <2>2, <2>5, Zenon DEF u
  <1>2. \A s, t \in Text : HasSign(s \o t) <=> HasSign(s) \/ HasSign(t)
    BY <1>1 DEF HasSign
  <1>3. /\ (Range(Users) \cup Range(Id)) \cap ({"/", "\\", "(", ")"} \cup Signs) = {}
        /\ Signs \cap {"/", ".", "(", ")"} = {}
    BY PathNamesAssumption, Zenon
  <1>4. ~HasSign(Users) /\ ~HasSign(Id)
    BY <1>3 DEF HasSign
  <1>5. ~HasSign(Slash)
    <2>1. Range(Slash) = {"/"}
      BY DEF Range, Slash
    <2> QED BY <1>3, <2>1 DEF HasSign
  <1>6. ~HasSign(Base)
    <2>1. Users \in Text /\ Id \in Text /\ Slash \in Text /\ Users \o Slash \in Text
      BY OwnNames, SlashText, Joining, Zenon
    <2> QED BY <1>2, <1>4, <1>5, <2>1, Zenon DEF Base
  <1> QED BY <1>2, <1>5, <1>6

(* The target of a path is that of the folder above and the rest.          *)
LEMMA TargetParts ==
    ASSUME path \in Text, NEW i \in Cuts, InBase(path) <=> InBase(Above(i))
    PROVE  /\ ListTarget(Above(i)) = Target(Above(i))
           /\ Target(Above(i)) \in Text /\ Len(Target(Above(i))) > 0
           /\ Target(Above(i))[Len(Target(Above(i)))] = "/"
           /\ HasGroup(Target(Above(i))) <=> HasGroup(Above(i))
           /\ HasSign(Target(Above(i))) <=> HasSign(Above(i))
           /\ \E R \in {Rest(i), Rest(i) \o Slash} : Target(path) = Target(Above(i)) \o R
  <1> DEFINE a == Above(i)
             r == Rest(i)
             f == a \o Slash
  <1>1. /\ i \in Nat /\ i > 1 /\ i <= Len(path) /\ Len(path) \in Nat /\ path[i - 1] # "/"
        /\ a \in Text /\ Len(a) = i - 1 /\ \A k \in 1 .. i - 1 : a[k] = path[k]
        /\ r \in Text /\ path = f \o r
    BY Divided
  <1>2. InBase(path) <=> InBase(a)
    OBVIOUS
  <1> HIDE DEF a, r
  <1>3. a # <<>> /\ ~EndsIn(a, "/") /\ path # <<>>
    BY <1>1 DEF EndsIn, Last
  <1>4. /\ f \in Text /\ Len(f) = Len(a) + 1 /\ \A k \in 1 .. Len(a) : f[k] = a[k]
        /\ f[Len(a) + 1] = "/" /\ Len(a) \in Nat
    <2>1. Len(a) \in Nat
      BY <1>1
    <2> QED BY <1>1, <2>1, WithSlash, Zenon
  <1>5. f = a \o Slash
    OBVIOUS
  <1> HIDE DEF f
  <1>6. HasGroup(f) <=> HasGroup(a)
    BY <1>1, <1>4, Groupless
  <1>7. ListTarget(a) = Target(a)
    BY <1>3, Zenon DEF ListTarget
  <1>8. Slash \in Text
    BY SlashText
  <1>9. CASE InBase(a)
    <2>1. Target(a) = f
      BY <1>1, <1>3, <1>5, <1>9, TargetInside, Zenon
    <2>2. Target(path) = IF EndsIn(path, "/") THEN path ELSE path \o Slash
      BY <1>2, <1>9, TargetInside, Zenon
    <2>3. (f \o r) \o Slash = f \o (r \o Slash)
      BY <1>1, <1>4, <1>8, Associates, Zenon
    <2>4. Target(path) \in {f \o r, f \o (r \o Slash)}
      BY <1>1, <2>2, <2>3, Zenon
    <2>5. Len(f) > 0 /\ f[Len(f)] = "/"
      BY <1>4
    <2>6. HasSign(f) <=> HasSign(a)
      BY <1>1, <1>5, <1>8, Signless, Zenon
    <2> QED BY <1>4, <1>6, <1>7, <2>1, <2>4, <2>5, <2>6 DEF a, r
  <1>10. CASE ~InBase(a)
    <2> DEFINE b == Base \o Slash
               T == b \o f
    <2>1. /\ b \in Text /\ b = Base \o Slash /\ Len(b) = Len(Base) + 1
          /\ \A k \in 1 .. Len(Base) : b[k] = Base[k]
          /\ b[Len(Base) + 1] = "/" /\ Len(Base) \in Nat
      <3>1. Base \in Text /\ Len(Base) \in Nat
        BY Texts DEF Text
      <3> QED BY <3>1, WithSlash, Zenon
    <2> HIDE DEF b
    <2>2. /\ T \in Text /\ Len(T) = Len(b) + Len(f)
          /\ \A k \in 1 .. Len(b) : T[k] = b[k]
          /\ \A k \in Len(b) + 1 .. Len(b) + Len(f) : T[k] = f[k - Len(b)]
      BY <1>4, <2>1, Joining, Zenon
    <2>3. Target(a) = (b \o a) \o Slash /\ Target(path) = (b \o path) \o Slash
      BY <1>1, <1>2, <1>3, <1>10, <2>1, TargetOutside, Zenon
    <2>4. (b \o a) \o Slash = T
      BY <1>1, <1>5, <1>8, <2>1, Associates, Zenon
    <2>5. (b \o path) \o Slash = T \o (r \o Slash)
      <3>1. b \o (f \o r) = (b \o f) \o r
        BY <1>1, <1>4, <2>1, Associates, Zenon
      <3>2. (T \o r) \o Slash = T \o (r \o Slash)
        <4> HIDE DEF T
        <4> QED BY <1>1, <1>8, <2>2, Associates, Zenon
      <3> QED BY <1>1, <3>1, <3>2, Zenon
    <2>8. HasSign(T) <=> HasSign(a)
      <3>1. HasSign(f) <=> HasSign(a)
        BY <1>1, <1>5, <1>8, Signless, Zenon
      <3>2. ~HasSign(b)
        BY <1>8, <2>1, Signless, Texts, Zenon
      <3> QED BY <1>4, <2>1, <3>1, <3>2, Signless, Zenon
    <2> HIDE DEF T
    <2>6. Len(T) > 0 /\ T[Len(T)] = "/"
      <3>1. Len(T) \in Len(b) + 1 .. Len(b) + Len(f) /\ Len(T) - Len(b) = Len(a) + 1 /\ Len(T) > 0
        BY <1>4, <2>1, <2>2
      <3>2. T[Len(T)] = f[Len(T) - Len(b)]
        <4> DEFINE p == Len(T)
        <4>1. p \in Len(b) + 1 .. Len(b) + Len(f)
          BY <3>1
        <4> HIDE DEF p
        <4>2. T[p] = f[p - Len(b)]
          BY <2>2, <4>1
        <4> QED BY <4>2 DEF p
      <3> QED BY <1>4, <3>1, <3>2, Zenon
    <2>7. HasGroup(T) <=> HasGroup(a)
      <3>1. ASSUME HasGroup(T)
            PROVE  HasGroup(f)
        <4>1. PICK k \in 1 .. Len(T) : T[k] \in {"(", ")"}
          BY <2>2, <3>1, Groupless
        <4>4. \A j \in 1 .. Len(b) : b[j] \notin {"(", ")"}
          <5>1. \A j \in 1 .. Len(b) : j \in 1 .. Len(Base) \/ j = Len(Base) + 1
            BY <2>1
          <5>2. "/" \notin {"(", ")"}
            OBVIOUS
          <5>3. ASSUME NEW j \in 1 .. Len(b)
                PROVE  b[j] \notin {"(", ")"}
            <6>1. CASE j \in 1 .. Len(Base)
              BY <2>1, <6>1, BaseGroupless
            <6>2. CASE j = Len(Base) + 1
              BY <2>1, <5>2, <6>2
            <6> QED BY <5>1, <6>1, <6>2
          <5> QED BY <5>3
        <4>2. k \notin 1 .. Len(b)
          BY <2>2, <4>1, <4>4, Zenon
        <4>3. k - Len(b) \in 1 .. Len(f) /\ T[k] = f[k - Len(b)]
          BY <1>4, <2>1, <2>2, <4>1, <4>2
        <4> QED BY <1>4, <4>1, <4>3, Groupless
      <3>2. ASSUME HasGroup(f)
            PROVE  HasGroup(T)
        <4>1. PICK k \in 1 .. Len(f) : f[k] \in {"(", ")"}
          BY <1>4, <3>2, Groupless
        <4> DEFINE p == k + Len(b)
        <4>3. p \in Len(b) + 1 .. Len(b) + Len(f) /\ p \in 1 .. Len(T) /\ p - Len(b) = k
          BY <1>4, <2>1, <2>2, <4>1
        <4> HIDE DEF p
        <4>4. T[p] = f[p - Len(b)]
          BY <2>2, <4>3
        <4>2. k + Len(b) \in 1 .. Len(T) /\ T[k + Len(b)] = f[k]
          BY <4>3, <4>4 DEF p
        <4> QED BY <2>2, <4>1, <4>2, Groupless
      <3> QED BY <1>6, <3>1, <3>2
    <2> QED BY <1>7, <2>2, <2>3, <2>4, <2>5, <2>6, <2>7, <2>8 DEF a, r
  <1> QED BY <1>9, <1>10

LEMMA SubfoldersShown ==
    ASSUME path \in Text
    PROVE  SubfolderShown
  <1> SUFFICES ASSUME NEW i \in Cuts, Rest(i) # <<>>, Rest(i)[1] # "/", InBase(path) <=> InBase(Above(i)),
                      ~HasSign(Above(i))
               PROVE  /\ IsBelow(ListTarget(Above(i)), Target(path)) <=> ~HasGroup(Above(i))
                      /\ Subfolder(ListTarget(Above(i)), Target(path)) = FirstName(Rest(i))
    BY DEF SubfolderShown
  <1> DEFINE T == Target(Above(i))
             r == Rest(i)
  <1>1. /\ ListTarget(Above(i)) = T /\ T \in Text /\ Len(T) > 0 /\ T[Len(T)] = "/"
        /\ HasGroup(T) <=> HasGroup(Above(i))
        /\ ~HasSign(T)
        /\ \E R \in {r, r \o Slash} : Target(path) = T \o R
    BY TargetParts
  <1>2. r \in Text /\ r # <<>> /\ r[1] # "/"
    BY Divided
  <1> HIDE DEF T, r
  <1>3. PICK R \in {r, r \o Slash} : Target(path) = T \o R
    BY <1>1
  <1>4. R \in Text /\ Len(R) > 0 /\ R[1] # "/"
    <2>1. Len(r) \in Nat /\ Len(r) > 0
      BY <1>2 DEF Text
    <2> DEFINE q == r \o Slash
    <2>2. q \in Text /\ Len(q) = Len(r) + 1 /\ q[1] = r[1]
      BY <1>2, <2>1, WithSlash
    <2>3. R \in {r, q}
      OBVIOUS
    <2> HIDE DEF q
    <2>4. Len(q) > 0
      BY <2>1, <2>2
    <2> QED BY <1>2, <2>1, <2>2, <2>3, <2>4, Zenon
  <1>5. FirstName(R) = FirstName(r)
    BY <1>2, FirstNameSlash
  <1>6. IsBelow(T, T \o R) <=> ~HasGroup(T)
    BY <1>1, <1>4, BelowTarget
  <1>7. Subfolder(T, T \o R) = FirstName(R)
    BY <1>1, <1>4, BeyondTarget DEF Subfolder
  <1> QED BY <1>1, <1>3, <1>5, <1>6, <1>7, Zenon DEF r

(* A path of names, and another below it.                                  *)
LEMMA PathConcat ==
    ASSUME NEW C, "/" \in C, NEW F \in Seq(Nonempty(Letters(C))), F # <<>>
    PROVE  \A G \in Seq(Nonempty(Letters(C))) :
              Path(F \o G) = IF G = <<>> THEN Path(F) ELSE (Path(F) \o Slash) \o Path(G)
  <1> DEFINE W == Nonempty(Letters(C))
             Good(G) == Path(F \o G) = IF G = <<>> THEN Path(F) ELSE (Path(F) \o Slash) \o Path(G)
             P == {G \in Seq(W) : Good(G)}
  <1>1. \A G \in Seq(W) : Path(G) \in Seq(C) /\ (G # <<>> => Path(G) # <<>>)
    BY PathParts
  <1>2. \A g \in W : g \in Seq(C) /\ g # <<>>
    <2>1. \A g \in Seq(Letters(C)) : g \in Seq(C)
      BY SeqMonotonic DEF Letters
    <2> QED BY <2>1 DEF Nonempty
  <1>3. F \in Seq(W)
    OBVIOUS
  <1> HIDE DEF W
  <1>4. <<>> \in P
    <2>1. <<>> \in Seq(W) /\ F \o <<>> = F
      BY <1>3, AppendConcat
    <2> QED BY <2>1, Zenon
  <1>5. ASSUME NEW G \in Seq(W), NEW g \in W, G \in P
        PROVE  Append(G, g) \in P
    <2>1. /\ Append(G, g) \in Seq(W) /\ Append(G, g) # <<>> /\ F \o G \in Seq(W)
          /\ F \o Append(G, g) = Append(F \o G, g)
      BY <1>3, AppendConcat
    <2>2. F \o G # <<>>
      BY <1>3 
    <2>3. Path(F \o G) # <<>>
      BY <1>1, <2>1, <2>2
    <2>4. Path(Append(F \o G, g)) = (Path(F \o G) \o Slash) \o g
      BY <2>1, <2>3, PathStep, Zenon
    <2>5. Path(Append(G, g)) = IF Path(G) = <<>> THEN g ELSE (Path(G) \o Slash) \o g
      BY PathStep, Zenon
    <2>6. Good(G)
      BY <1>5
    <2>7. Path(F \o Append(G, g)) = (Path(F) \o Slash) \o Path(Append(G, g))
      <3>1. CASE G = <<>>
        <4>1. Path(F \o G) = Path(F)
          BY <2>6, <3>1, Zenon
        <4>2. Path(Append(G, g)) = g
          BY <2>5, <3>1, PathEmpty, Zenon
        <4> QED BY <2>1, <2>4, <4>1, <4>2, Zenon
      <3>2. CASE G # <<>>
        <4>1. Path(F \o G) = (Path(F) \o Slash) \o Path(G)
          BY <2>6, <3>2, Zenon
        <4>2. Path(Append(G, g)) = (Path(G) \o Slash) \o g
          BY <1>1, <2>5, <3>2
        <4> DEFINE a == Path(F) \o Slash
                   b == Path(G)
                   c == Slash
        <4>3. a \in Seq(C) /\ b \in Seq(C) /\ c \in Seq(C) /\ g \in Seq(C)
          <5>1. c \in Seq(C)
            BY DEF Slash
          <5>2. Path(F) \in Seq(C) /\ b \in Seq(C) /\ g \in Seq(C)
            BY <1>1, <1>2, <1>3
          <5> HIDE DEF b, c
          <5>3. Path(F) \o c \in Seq(C)
            BY <5>1, <5>2, ConcatProperties
          <5> QED BY <5>1, <5>2, <5>3 DEF c
        <4>4. b \o c = Path(G) \o Slash
          OBVIOUS
        <4> HIDE DEF a, b, c
        <4>5. b \o c \in Seq(C) /\ (a \o b) \o c = a \o (b \o c)
          <5>1. b \o c \in Seq(C)
            BY <4>3, ConcatProperties
          <5>2. (a \o b) \o c = a \o (b \o c)
            BY <4>3, ConcatAssociative
          <5> QED BY <5>1, <5>2
        <4>6. (a \o (b \o c)) \o g = a \o ((b \o c) \o g)
          <5> DEFINE d == b \o c
          <5>1. d \in Seq(C)
            BY <4>5
          <5> HIDE DEF d
          <5>2. (a \o d) \o g = a \o (d \o g)
            BY <4>3, <5>1, ConcatAssociative
          <5> QED BY <5>2 DEF d
        <4>7. ((a \o b) \o c) \o g = a \o ((b \o c) \o g)
          BY <4>5, <4>6, Zenon
        <4> QED BY <2>1, <2>4, <4>1, <4>2, <4>7, Zenon DEF a, b, c
      <3> QED BY <3>1, <3>2
    <2>8. Good(Append(G, g))
      BY <2>1, <2>7, Zenon
    <2> QED BY <2>1, <2>8, Zenon
  <1>6. \A G \in Seq(W) : G \in P
    <2> HIDE DEF P
    <2> QED BY <1>4, <1>5, SeqInduct
  <1> QED BY <1>6 DEF W

(* The segments of a path that a slash divides.                            *)
LEMMA SegmentsSlash ==
    ASSUME NEW s \in Text, NEW t \in Text
    PROVE  /\ Segments((s \o Slash) \o t) = Segments(s) \o Segments(t)
           /\ Segments(s \o Slash) = Segments(s)
  <1>1. ASSUME NEW u \in Text
        PROVE  Segments((s \o Slash) \o u) = Segments(s) \o Segments(u)
    <2>1. s \in Seq(Chars) /\ u \in Seq(Chars) /\ "/" \in Chars
      BY DEF Text, Chars
    <2>2. Split((s \o Slash) \o u) = Split(s) \o Split(u)
      BY <2>1, SplitSlash
    <2> DEFINE L == Letters(Chars)
               A == Split(s)
               B == Split(u)
    <2>3. A \in Seq(Seq(L)) /\ B \in Seq(Seq(L))
      BY SegmentsType
    <2> HIDE DEF L, A, B
    <2>4. Cleaned(A \o B) = Cleaned(A) \o Cleaned(B)
      BY <2>3, CleanedConcat
    <2>5. Segments(s) = Cleaned(A) /\ Segments(u) = Cleaned(B)
      BY SanitizeToPath DEF A, B
    <2>6. Segments((s \o Slash) \o u) = Cleaned(A \o B)
      BY <2>2, SanitizeToPath DEF A, B
    <2> QED BY <2>4, <2>5, <2>6, Zenon
  <1>2. <<>> \in Text /\ s \o Slash \in Text
    BY SlashText, Joining DEF Text
  <1>3. (s \o Slash) \o <<>> = s \o Slash
    BY <1>2, ConcatEmptySeq, Zenon DEF Text
  <1>4. Segments(s) \o <<>> = Segments(s)
    BY SegmentsType, ConcatEmptySeq
  <1>5. Segments(s \o Slash) = Segments(s)
    BY <1>1, <1>2, <1>3, <1>4, SanitizedEmpty, Zenon
  <1> QED BY <1>1, <1>5

(* The folder of the user is a path that sanitizing leaves alone.          *)
LEMMA OwnSegments ==
    /\ Segments(Base) \in Seq(Names) /\ Segments(Base) # <<>> /\ Path(Segments(Base)) = Base
  <1>1. ASSUME NEW g \in Text, g # <<>>, sanitize(g) = g,
               \A i \in 1 .. Len(g) : g[i] \notin {"/", "\\", "(", ")"}
        PROVE  g \in Names /\ Segments(g) = <<g>>
    <2>1. g \in Seq(Letters(Chars))
      <3>1. \A i \in 1 .. Len(g) : g[i] \in Letters(Chars)
        BY <1>1 DEF Letters, Text
      <3> QED BY <3>1 DEF Text
    <2>2. g \in Names
      BY <1>1, <2>1, Sanitized DEF Names, Nonempty
    <2>3. Split(g) = <<g>>
      BY <2>1, SplitName
    <2>4. Cleaned(<<g>>) = <<g>>
      <3> DEFINE W == {g}
      <3>1. \A h \in W : sanitize(h) = h /\ h # <<>>
        BY <1>1
      <3>2. <<g>> \in Seq(W)
        OBVIOUS
      <3> HIDE DEF W
      <3> QED BY <3>1, <3>2, CleanedSame
    <2> QED BY <2>2, <2>3, <2>4, SanitizeToPath, Zenon
  <1>2. sanitize(Users) = Users /\ sanitize(Id) = Id
    BY ProperNames
  <1>3. Users \in Names /\ Segments(Users) = <<Users>>
    BY <1>1, <1>2, OwnNames
  <1>4. Id \in Names /\ Segments(Id) = <<Id>>
    BY <1>1, <1>2, OwnNames
  <1>5. Segments(Base) = <<Users>> \o <<Id>>
    BY <1>3, <1>4, OwnNames, SegmentsSlash, Zenon DEF Base
  <1> DEFINE u == <<Users>>
             d == <<Id>>
  <1>6. u \in Seq(Names) /\ d \in Seq(Names) /\ u # <<>> /\ d # <<>>
    <2> HIDE DEF Names
    <2> QED BY <1>3, <1>4
  <1>7. Path(u) = Users /\ Path(d) = Id
    <2>1. ASSUME NEW g \in Names
          PROVE  Path(<<g>>) = g
      <3> HIDE DEF Names
      <3>1. <<>> \in Seq(Names) /\ Append(<<>>, g) = <<g>>
        OBVIOUS
      <3>2. Path(Append(<<>>, g)) = g
        BY <3>1, PathStep, PathEmpty, Zenon
      <3> QED BY <3>1, <3>2, Zenon
    <2> QED BY <1>3, <1>4, <2>1
  <1> HIDE DEF u, d
  <1>8. u \o d \in Seq(Names) /\ u \o d # <<>>
    BY <1>6
  <1>9. Path(u \o d) = (Path(u) \o Slash) \o Path(d)
    <2> DEFINE D == Letters(Chars) \ Banned
               C == D \cup {"/"}
    <2>1. Letters(C) = D /\ "/" \in C
      BY DEF Letters
    <2>2. u \in Seq(Nonempty(Letters(C))) /\ d \in Seq(Nonempty(Letters(C)))
      BY <1>6, <2>1 DEF Names
    <2> HIDE DEF C
    <2> QED BY <1>6, <2>1, <2>2, PathConcat
  <1>10. Path(u \o d) = Base
    BY <1>7, <1>9, Zenon DEF Base
  <1> QED BY <1>5, <1>8, <1>10, Zenon DEF u, d

(* The pattern of the query for a folder (wssSession.cpp:799) is the path  *)
(* of the folder, which the target of an upload begins with.               *)
LEMMA FoldersFound ==
    ASSUME NEW p \in Text, sanitizeToPath(p) = p, ~HasGroup(p), ~HasSign(p), ~Outside(p), p # <<>>
    PROVE  Matches(FolderPattern(p), Target(p))
  <1> DEFINE G == Segments(p)
  <1>1. G \in Seq(Names) /\ p = Path(G)
    BY SegmentsType
  <1>2. G # <<>>
    BY <1>1, PathEmpty, Zenon
  <1> HIDE DEF G
  <1>3. ASSUME NEW q \in Text, Formatted(p) = q, sanitizeToPath(q) = q
        PROVE  FolderPattern(p) = q
    <2>1. sanitizeToPath(q \o Slash) = q
      BY <1>3, SegmentsSlash, SanitizeToPath, Zenon
    <2> QED BY <1>3, <2>1, Zenon DEF FolderPattern
  <1>4. <<>> \in Text /\ Slash \in Text /\ p \o <<>> = p
    BY SlashText DEF Text
  <1>5. CASE InBase(p)
    <2>1. FolderPattern(p) = p
      BY <1>3, <1>5 DEF Formatted
    <2>2. Target(p) = p \/ Target(p) = p \o Slash
      BY <1>5, TargetInside, Zenon
    <2>3. Matches(p, p \o <<>>) /\ Matches(p, p \o Slash)
      BY <1>4, FrontMatches
    <2> QED BY <1>4, <2>1, <2>2, <2>3, Zenon
  <1>6. CASE ~InBase(p)
    <2> DEFINE b == Base \o Slash
               q == b \o p
               O == Segments(Base)
    <2>1. Formatted(p) = q
      BY <1>6 DEF Formatted, Outside
    <2>2. Target(p) = q \o Slash
      BY <1>6, TargetOutside
    <2>3. /\ b \in Text /\ Len(b) = Len(Base) + 1 /\ Base \in Text /\ Len(Base) \in Nat
          /\ \A k \in 1 .. Len(Base) : b[k] = Base[k]
          /\ b[Len(Base) + 1] = "/"
      <3>1. Base \in Text /\ Len(Base) \in Nat
        BY Texts DEF Text
      <3> QED BY <3>1, WithSlash, Zenon
    <2>4. Segments(q) = O \o G
      BY <2>3, SegmentsSlash, Zenon DEF G
    <2>5. O \in Seq(Names) /\ O # <<>> /\ Path(O) = Base
      BY OwnSegments
    <2>6. Path(O \o G) = (Path(O) \o Slash) \o Path(G)
      <3> HIDE DEF O
      <3> DEFINE D == Letters(Chars) \ Banned
                 C == D \cup {"/"}
      <3>1. Letters(C) = D /\ "/" \in C
        BY DEF Letters
      <3>2. O \in Seq(Nonempty(Letters(C))) /\ G \in Seq(Nonempty(Letters(C)))
        BY <1>1, <2>5, <3>1 DEF Names
      <3> HIDE DEF C
      <3>3. Path(O \o G) = IF G = <<>> THEN Path(O) ELSE (Path(O) \o Slash) \o Path(G)
        BY <2>5, <3>1, <3>2, PathConcat
      <3> QED BY <1>2, <3>3, Zenon
    <2>7. sanitizeToPath(q) = q
      BY <1>1, <2>4, <2>5, <2>6, SanitizeToPath, Zenon
    <2>12. ~HasSign(q)
      <3>1. ~HasSign(b)
        BY <1>4, <2>3, Signless, Zenon
      <3> QED BY <2>3, <3>1, Signless, Zenon
    <2> HIDE DEF b
    <2>8. /\ q \in Text /\ Len(q) = Len(b) + Len(p)
          /\ \A k \in 1 .. Len(b) : q[k] = b[k]
          /\ \A k \in Len(b) + 1 .. Len(b) + Len(p) : q[k] = p[k - Len(b)]
      BY <2>3, Joining, Zenon
    <2> HIDE DEF q
    <2>9. ~HasGroup(q)
      <3>1. ASSUME NEW k \in 1 .. Len(q)
            PROVE  q[k] \notin {"(", ")"}
        <4>0. Len(p) \in Nat
          BY DEF Text
        <4>1. CASE k \in 1 .. Len(Base)
          <5>1. k \in 1 .. Len(b) /\ b[k] = Base[k]
            BY <2>3, <4>1
          <5> QED BY <2>8, <4>1, <5>1, BaseGroupless
        <4>2. CASE k = Len(Base) + 1
          <5>1. k \in 1 .. Len(b) /\ b[k] = "/"
            BY <2>3, <4>2
          <5> QED BY <2>8, <5>1
        <4>3. CASE k \in Len(b) + 1 .. Len(b) + Len(p)
          <5>1. k - Len(b) \in 1 .. Len(p)
            BY <2>3, <4>0, <4>3
          <5>2. q[k] = p[k - Len(b)]
            BY <2>8, <4>3
          <5>3. p[k - Len(b)] \notin {"(", ")"}
            BY <5>1, Groupless
          <5> QED BY <5>2, <5>3
        <4> QED BY <2>3, <2>8, <4>0, <4>1, <4>2, <4>3
      <3> QED BY <2>8, <3>1, Groupless
    <2>10. FolderPattern(p) = q
      BY <1>3, <2>1, <2>7, <2>8
    <2>11. Matches(q, q \o Slash)
      BY <1>4, <2>8, <2>9, <2>12, FrontMatches
    <2> QED BY <2>2, <2>10, <2>11, Zenon
  <1> QED BY <1>5, <1>6

(* Whatever a folder is called, a listing of it looks where an upload to it*)
(* puts files (wssSession.cpp:136 and 278) and the query by file name (840)*)
(* finds what was put there.  A folder below it shows in the listing by its*)
(* name (354) and the query by folder (754 and 799) finds it if the name   *)
(* has none of the signs of a regular expression - a parenthesis hides the *)
(* folders below, what another sign does is not said - with the further    *)
(* exceptions LookupsAgree names.                                          *)
THEOREM HandlersAgree == Spec => []LookupsAgree
  <1>1. ASSUME Typed
        PROVE  LookupsAgree
    <2>1. path \in Text
      BY <1>1, PathTyped
    <2>2. FolderListed
      BY <2>1, ListedWherePut, Zenon DEF FolderListed
    <2>3. SubfolderShown
      BY <2>1, SubfoldersShown
    <2>4. FolderFound
      BY <2>1, FoldersFound, Zenon DEF FolderFound
    <2>5. FileFound
      BY <2>1, FileWherePut, Zenon DEF FileFound
    <2> QED BY <2>2, <2>3, <2>4, <2>5, Zenon DEF LookupsAgree
  <1> QED BY <1>1, TypedAlways, PTL

-----------------------------------------------------------------------------
(* Forms.                                                                  *)

(* url_decode takes its text from the left.                                *)
LEMMA DecodedOf ==
    /\ url_decode(<<>>) = <<>>
    /\ \A s \in Seq(Characters) :
          s # <<>> => url_decode(s) = Symbol(s) \o url_decode(SubSeq(s, Taken(s) + 1, Len(s)))
  <1> DEFINE S == Seq(Characters)
             R == {st \in S \X S : Len(st[1]) < Len(st[2])}
             Def(g, s) == IF s = <<>> THEN <<>> ELSE Symbol(s) \o g[SubSeq(s, Taken(s) + 1, Len(s))]
  <1>0. \A s \in S : Len(s) \in Nat
    OBVIOUS
  <1>1. IsWellFoundedOn(R, S)
    <2> SUFFICES ASSUME NEW f \in [Nat -> S], \A n \in Nat : <<f[n + 1], f[n]>> \in R
                 PROVE  FALSE
      BY DEF IsWellFoundedOn
    <2> DEFINE g == [n \in Nat |-> Len(f[n])]
    <2>1. g \in [Nat -> Nat]
      BY <1>0
    <2>2. \A n \in Nat : <<g[n + 1], g[n]>> \in OpToRel(<, Nat)
      <3>1. \A n \in Nat : f[n] \in S /\ f[n + 1] \in S /\ Len(f[n + 1]) < Len(f[n])
        <4> HIDE DEF S
        <4>1. \A n \in Nat : n + 1 \in Nat /\ f[n] \in S
          OBVIOUS
        <4>2. \A s, t : <<s, t>> \in R => Len(s) < Len(t)
          OBVIOUS
        <4>3. \A n \in Nat : <<f[n + 1], f[n]>> \in R
          OBVIOUS
        <4> HIDE DEF R
        <4> QED BY <4>1, <4>2, <4>3, Zenon
      <3> HIDE DEF S
      <3>2. \A n \in Nat : n + 1 \in Nat /\ g[n] = Len(f[n]) /\ g[n + 1] = Len(f[n + 1])
        OBVIOUS
      <3>3. \A n \in Nat : g[n] \in Nat /\ g[n + 1] \in Nat /\ g[n + 1] < g[n]
        BY <1>0, <3>1, <3>2
      <3> HIDE DEF g
      <3> QED BY <3>3 DEF OpToRel
    <2> HIDE DEF g
    <2> QED BY <2>1, <2>2, NatLessThanWellFounded DEF IsWellFoundedOn
  <1>2. \A s, t \in S : Len(t) < Len(s) => t \in SetLessThan(s, R, S)
    <2> HIDE DEF S
    <2> QED BY <1>0 DEF SetLessThan
  <1>3. ASSUME NEW s \in S, s # <<>>
        PROVE  /\ SubSeq(s, Taken(s) + 1, Len(s)) \in S
               /\ Len(SubSeq(s, Taken(s) + 1, Len(s))) < Len(s)
    <2>1. Taken(s) \in 1 .. Len(s)
      <3>1. Escape(s) # <<>> => Len(s) >= 3
        BY DEF Escape
      <3> QED BY <1>3, <3>1 DEF Taken
    <2>2. \A n \in 1 .. Len(s) : SubSeq(s, n + 1, Len(s)) \in S /\ Len(SubSeq(s, n + 1, Len(s))) < Len(s)
      OBVIOUS
    <2> QED BY <2>1, <2>2, Zenon
  <1>4. WFDefOn(R, S, Def)
    <2>1. ASSUME NEW g, NEW h, NEW s \in S, \A t \in SetLessThan(s, R, S) : g[t] = h[t]
          PROVE  Def(g, s) = Def(h, s)
      <3>1. s # <<>> => g[SubSeq(s, Taken(s) + 1, Len(s))] = h[SubSeq(s, Taken(s) + 1, Len(s))]
        BY <1>2, <1>3, <2>1, Zenon
      <3> QED BY <3>1, Zenon
    <2> HIDE DEF Def
    <2> QED BY <2>1 DEF WFDefOn
  <1>5. OpDefinesFcn(Decoded, S, Def)
    BY Zenon DEF OpDefinesFcn, Decoded
  <1>6. WFInductiveDefines(Decoded, S, Def)
    <2> HIDE DEF S, R, Def
    <2> QED BY <1>1, <1>4, <1>5, WFInductiveDef
  <1>7. Decoded = [s \in S |-> Def(Decoded, s)]
    BY <1>6 DEF WFInductiveDefines
  <1>8. ASSUME NEW s \in S
        PROVE  Decoded[s] = Def(Decoded, s)
    <2> HIDE DEF Def
    <2> QED BY <1>7
  <1>9. <<>> \in S
    OBVIOUS
  <1> HIDE DEF S
  <1>10. url_decode(<<>>) = <<>>
    BY <1>8, <1>9, Zenon DEF url_decode
  <1>11. ASSUME NEW s \in S, s # <<>>
         PROVE  url_decode(s) = Symbol(s) \o url_decode(SubSeq(s, Taken(s) + 1, Len(s)))
    BY <1>8, <1>11, Zenon DEF url_decode
  <1> QED BY <1>10, <1>11 DEF S

(* The digits of an encoding, and the characters they stand for.           *)
LEMMA DigitValues ==
    \A n \in 0 .. 15 :
       /\ Digits[n + 1] \in Range(Digits)
       /\ Digits[n + 1] \notin {"&", "=", "%", "+", " ", "-"}
       /\ Digits[n + 1] \in DOMAIN HexValue /\ HexValue[Digits[n + 1]] = n
  <1>1. \A n \in 0 .. 15 : n + 1 \in 1 .. 16 /\ n + 1 \in DOMAIN Digits
    BY DEF Digits
  <1>2. \A n \in 0 .. 15 : Digits[n + 1] \in Range(Digits)
    BY <1>1, Zenon DEF Range
  <1>3. \A n \in 0 .. 15 : Digits[n + 1] \notin {"&", "=", "%", "+", " ", "-"}
    <2> DEFINE Hex == {"0", "1", "2", "3", "4", "5", "6", "7", "8", "9", "A", "B", "C", "D", "E", "F"}
    <2>1. \A n \in 0 .. 15 : Digits[n + 1] \in Hex
      BY DEF Digits
    <2>2. \A d \in Hex : d \notin {"&", "=", "%", "+", " ", "-"}
      BY Zenon
    <2> HIDE DEF Hex
    <2> QED BY <2>1, <2>2, Zenon
  <1>4. \A n, m \in 0 .. 15 : Digits[n + 1] \in {Digits[m + 1], LowerDigits[m + 1]} => n = m
    BY SMTT(60) DEF Digits, LowerDigits
  <1>5. DOMAIN HexValue = Range(Digits) \cup Range(LowerDigits)
    BY Zenon DEF HexValue
  <1>6. ASSUME NEW n \in 0 .. 15
        PROVE  HexValue[Digits[n + 1]] = n
    <2> DEFINE V(d) == CHOOSE m \in 0 .. 15 : d \in {Digits[m + 1], LowerDigits[m + 1]}
    <2>1. HexValue[Digits[n + 1]] = V(Digits[n + 1])
      BY <1>2, Zenon DEF HexValue
    <2>2. /\ V(Digits[n + 1]) \in 0 .. 15
          /\ Digits[n + 1] \in {Digits[V(Digits[n + 1]) + 1], LowerDigits[V(Digits[n + 1]) + 1]}
      BY Zenon
    <2> HIDE DEF V
    <2>3. V(Digits[n + 1]) = n
      BY <1>4, <2>2, Zenon
    <2> QED BY <2>1, <2>3
  <1> QED BY <1>2, <1>3, <1>5, <1>6, Zenon

LEMMA CodeDigits ==
    \A k \in 0 .. 255 : k \div 16 \in 0 .. 15 /\ k % 16 \in 0 .. 15 /\ 16 * (k \div 16) + (k % 16) = k
  OBVIOUS

LEMMA CodeChar == \A c \in FormChars : Code[c] \in 0 .. 255 /\ CharOf(Code[c]) = c
  <1> SUFFICES ASSUME NEW c \in FormChars
               PROVE  Code[c] \in 0 .. 255 /\ CharOf(Code[c]) = c
    OBVIOUS
  <1>1. c \in DOMAIN Code /\ IsInjective(Code) /\ Range(Code) \subseteq 0 .. 255
    BY PathNamesAssumption, Zenon
  <1>2. Code[c] \in Range(Code)
    BY <1>1, Zenon DEF Range
  <1>3. CharOf(Code[c]) = CHOOSE d \in DOMAIN Code : Code[d] = Code[c]
    BY <1>2, Zenon DEF CharOf
  <1>4. \E d \in DOMAIN Code : Code[d] = Code[c]
    BY <1>1
  <1>5. CharOf(Code[c]) \in DOMAIN Code /\ Code[CharOf(Code[c])] = Code[c]
    BY <1>3, <1>4, Zenon
  <1>6. CharOf(Code[c]) = c
    BY <1>1, <1>5, Zenon DEF IsInjective
  <1> QED BY <1>1, <1>2, <1>6

(* The characters of an encoded field.                                     *)
Sent == (FormChars \cap Plain) \cup Range(Digits) \cup {"%", "+"}

LEMMA SentChars == Sent \subseteq Characters /\ "&" \notin Sent /\ "=" \notin Sent
  <1>1. Sent \subseteq Characters
    BY Zenon DEF Sent, Characters
  <1>2. "&" \notin Plain /\ "=" \notin Plain
    BY PathNamesAssumption, Zenon
  <1>3. "&" \notin Range(Digits) /\ "=" \notin Range(Digits)
    BY DEF Digits, Range
  <1> QED BY <1>1, <1>2, <1>3 DEF Sent

(* Decoding undoes the encoding of one character, whatever follows.        *)
LEMMA EncodedChar ==
    ASSUME NEW c \in FormChars
    PROVE  /\ Encoded(c) \in Seq(Sent)
           /\ \A b \in Seq(Characters) :
                 /\ Encoded(c) \o b \in Seq(Characters)
                 /\ url_decode(Encoded(c) \o b) = <<c>> \o url_decode(b)
  <1>1. CASE c = " "
    <2>0. " " \notin Plain
      BY PathNamesAssumption, Zenon
    <2>1. Encoded(c) = <<"+">>
      BY <1>1, <2>0, Zenon DEF Encoded
    <2>2. <<"+">> \in Seq(Sent)
      BY DEF Sent
    <2>3. ASSUME NEW b \in Seq(Characters)
          PROVE  /\ Encoded(c) \o b \in Seq(Characters)
                 /\ url_decode(Encoded(c) \o b) = <<c>> \o url_decode(b)
      <3> DEFINE s == <<"+">> \o b
      <3>1. s \in Seq(Characters) /\ s # <<>> /\ s[1] = "+" /\ SubSeq(s, 2, Len(s)) = b
        <4>1. "+" \in Characters
          BY DEF Characters
        <4> HIDE DEF Characters
        <4> QED BY <4>1
      <3> HIDE DEF s
      <3>2. Symbol(s) = <<" ">> /\ Taken(s) = 1
        BY <3>1 DEF Symbol, Taken
      <3>3. 1 + 1 = 2
        OBVIOUS
      <3>4. url_decode(s) = Symbol(s) \o url_decode(SubSeq(s, Taken(s) + 1, Len(s)))
        BY <3>1, DecodedOf, Zenon
      <3>5. url_decode(s) = <<" ">> \o url_decode(b)
        BY <3>1, <3>2, <3>3, <3>4, Zenon
      <3> QED BY <1>1, <2>1, <3>1, <3>5, Zenon DEF s
    <2> QED BY <2>1, <2>2, <2>3
  <1>2. CASE c \in Plain
    <2>0. c \notin {" ", "%", "+"}
      BY <1>2, PathNamesAssumption, Zenon
    <2>1. Encoded(c) = <<c>>
      BY <1>2, <2>0, Zenon DEF Encoded
    <2>2. <<c>> \in Seq(Sent)
      <3>1. c \in Sent
        BY <1>2, Zenon DEF Sent
      <3> QED BY <3>1
    <2>3. ASSUME NEW b \in Seq(Characters)
          PROVE  /\ Encoded(c) \o b \in Seq(Characters)
                 /\ url_decode(Encoded(c) \o b) = <<c>> \o url_decode(b)
      <3> DEFINE s == <<c>> \o b
      <3>1. s \in Seq(Characters) /\ s # <<>> /\ s[1] = c /\ SubSeq(s, 2, Len(s)) = b
        <4>1. c \in Characters
          BY Zenon DEF Characters
        <4> HIDE DEF Characters
        <4> QED BY <4>1
      <3> HIDE DEF s
      <3>2. Symbol(s) = <<c>> /\ Taken(s) = 1
        BY <2>0, <3>1 DEF Symbol, Taken
      <3>3. 1 + 1 = 2
        OBVIOUS
      <3>4. url_decode(s) = Symbol(s) \o url_decode(SubSeq(s, Taken(s) + 1, Len(s)))
        BY <3>1, DecodedOf, Zenon
      <3>5. url_decode(s) = <<c>> \o url_decode(b)
        BY <3>1, <3>2, <3>3, <3>4, Zenon
      <3> QED BY <2>1, <3>1, <3>5, Zenon DEF s
    <2> QED BY <2>1, <2>2, <2>3
  <1>3. CASE c \notin Plain \cup {" "}
    <2> DEFINE n == Code[c]
               x == Digits[n \div 16 + 1]
               y == Digits[(n % 16) + 1]
    <2>1. Encoded(c) = <<"%", x, y>>
      BY <1>3, Zenon DEF Encoded
    <2>2. n \in 0 .. 255 /\ CharOf(n) = c
      BY CodeChar
    <2>3. /\ n \div 16 \in 0 .. 15 /\ n % 16 \in 0 .. 15
          /\ 16 * (n \div 16) + (n % 16) = n
      BY <2>2, CodeDigits
    <2>4. /\ x \in Range(Digits) /\ x \in DOMAIN HexValue /\ HexValue[x] = n \div 16
          /\ x \notin {" ", "+", "-"}
          /\ y \in Range(Digits) /\ y \in DOMAIN HexValue /\ HexValue[y] = n % 16
      BY <2>3, DigitValues, Zenon
    <2> HIDE DEF n, x, y
    <2>5. Extracted(x, y) = <<n>>
      <3>1. Extracted(x, y) = <<16 * HexValue[x] + HexValue[y]>>
        BY <2>4 DEF Extracted
      <3> QED BY <2>3, <2>4, <3>1, Zenon
    <2>6. <<"%", x, y>> \in Seq(Sent)
      <3>1. "%" \in Sent /\ x \in Sent /\ y \in Sent
        BY <2>4, Zenon DEF Sent
      <3> QED BY <3>1
    <2>7. ASSUME NEW b \in Seq(Characters)
          PROVE  /\ Encoded(c) \o b \in Seq(Characters)
                 /\ url_decode(Encoded(c) \o b) = <<c>> \o url_decode(b)
      <3> DEFINE s == <<"%", x, y>> \o b
      <3>1. /\ s \in Seq(Characters) /\ s # <<>> /\ s[1] = "%" /\ s[2] = x /\ s[3] = y
            /\ Len(s) >= 3 /\ SubSeq(s, 4, Len(s)) = b
        <4>1. "%" \in Characters /\ x \in Characters /\ y \in Characters
          BY <2>4, Zenon DEF Characters
        <4> HIDE DEF Characters
        <4> QED BY <4>1
      <3> HIDE DEF s
      <3>2. Escape(s) = <<n>>
        BY <2>5, <3>1, Zenon DEF Escape
      <3>3. Symbol(s) = <<c>> /\ Taken(s) = 3
        BY <2>2, <3>1, <3>2 DEF Symbol, Taken
      <3>4. Taken(s) + 1 = 4
        BY <3>3
      <3>5. url_decode(s) = Symbol(s) \o url_decode(SubSeq(s, Taken(s) + 1, Len(s)))
        BY <3>1, DecodedOf, Zenon
      <3>6. url_decode(s) = <<c>> \o url_decode(b)
        BY <3>1, <3>3, <3>4, <3>5, Zenon
      <3> QED BY <2>1, <3>1, <3>6, Zenon DEF s
    <2> QED BY <2>1, <2>6, <2>7
  <1> QED BY <1>1, <1>2, <1>3

LEMMA UrlEncodedEmpty == UrlEncoded(<<>>) = <<>>
  <1>1. FoldsNothing(NextEncoded)
    BY FoldingNothing
  <1> QED BY <1>1, Zenon DEF FoldsNothing, UrlEncoded

LEMMA UrlEncodedStep ==
    ASSUME NEW C, NEW s \in Seq(C), NEW c \in C
    PROVE  UrlEncoded(Append(s, c)) = UrlEncoded(s) \o Encoded(c)
  <1>1. FoldsFromLeft(NextEncoded, <<>>, C)
    BY FoldingFromLeft
  <1>2. FoldLeft(NextEncoded, <<>>, Append(s, c)) = NextEncoded(FoldLeft(NextEncoded, <<>>, s), c)
    BY <1>1 DEF FoldsFromLeft
  <1> QED BY <1>2, Zenon DEF UrlEncoded, NextEncoded

LEMMA UrlEncodedType == \A s \in Seq(FormChars) : UrlEncoded(s) \in Seq(Sent)
  <1> DEFINE P == {s \in Seq(FormChars) : UrlEncoded(s) \in Seq(Sent)}
  <1>1. <<>> \in P
    <2>1. <<>> \in Seq(FormChars) /\ <<>> \in Seq(Sent)
      OBVIOUS
    <2> QED BY <2>1, UrlEncodedEmpty, Zenon
  <1>2. ASSUME NEW s \in Seq(FormChars), NEW c \in FormChars, s \in P
        PROVE  Append(s, c) \in P
    <2>1. Append(s, c) \in Seq(FormChars)
      OBVIOUS
    <2>2. UrlEncoded(s) \in Seq(Sent) /\ Encoded(c) \in Seq(Sent)
      BY <1>2, EncodedChar
    <2>3. UrlEncoded(s) \o Encoded(c) \in Seq(Sent)
      BY <2>2, ConcatProperties
    <2> QED BY <2>1, <2>3, UrlEncodedStep, Zenon
  <1>3. \A s \in Seq(FormChars) : s \in P
    <2> HIDE DEF P
    <2> QED BY <1>1, <1>2, SeqInduct
  <1> QED BY <1>3

(* Decoding undoes the encoding, whatever follows.                         *)
LEMMA DecodesEncoded == \A t \in Seq(FormChars) : url_decode(UrlEncoded(t)) = t
  <1> DEFINE Undone(t) ==
                \A b \in Seq(Characters), r \in Seq(FormChars) :
                   url_decode(b) = r => url_decode(UrlEncoded(t) \o b) = t \o r
             P == {t \in Seq(FormChars) : Undone(t)}
  <1>1. <<>> \in P
    <2>1. <<>> \in Seq(FormChars)
      OBVIOUS
    <2>2. \A b \in Seq(Characters) : <<>> \o b = b
      BY ConcatEmptySeq
    <2>3. \A r \in Seq(FormChars) : <<>> \o r = r
      BY ConcatEmptySeq
    <2>4. Undone(<<>>)
      BY <2>2, <2>3, UrlEncodedEmpty, Zenon
    <2> QED BY <2>1, <2>4, Zenon
  <1>2. ASSUME NEW t \in Seq(FormChars), NEW c \in FormChars, t \in P
        PROVE  Append(t, c) \in P
    <2>1. Append(t, c) \in Seq(FormChars)
      OBVIOUS
    <2>2. ASSUME NEW b \in Seq(Characters), NEW r \in Seq(FormChars), url_decode(b) = r
          PROVE  url_decode(UrlEncoded(Append(t, c)) \o b) = Append(t, c) \o r
      <3> DEFINE u == UrlEncoded(t)
                 e == Encoded(c)
                 rr == <<c>> \o r
      <3>1. u \in Seq(Characters) /\ e \in Seq(Characters)
        <4>1. u \in Seq(Sent) /\ e \in Seq(Sent)
          BY UrlEncodedType, EncodedChar
        <4> HIDE DEF u, e
        <4> QED BY <4>1, SentChars, SeqMonotonic
      <3>2. UrlEncoded(Append(t, c)) = u \o e
        BY UrlEncodedStep
      <3>3. e \o b \in Seq(Characters) /\ url_decode(e \o b) = <<c>> \o url_decode(b)
        BY EncodedChar
      <3>4. rr \in Seq(FormChars)
        OBVIOUS
      <3>5. url_decode(u \o (e \o b)) = t \o rr
        BY <1>2, <2>2, <3>3, <3>4, Zenon
      <3>6. t \o rr = Append(t, c) \o r
        OBVIOUS
      <3> HIDE DEF u, e
      <3>7. (u \o e) \o b = u \o (e \o b)
        BY <3>1, ConcatAssociative
      <3> QED BY <3>2, <3>5, <3>6, <3>7, Zenon
    <2>3. Undone(Append(t, c))
      BY <2>2, Zenon
    <2> QED BY <2>1, <2>3, Zenon
  <1>3. \A t \in Seq(FormChars) : t \in P
    <2> HIDE DEF P
    <2> QED BY <1>1, <1>2, SeqInduct
  <1>4. ASSUME NEW t \in Seq(FormChars)
        PROVE  url_decode(UrlEncoded(t)) = t
    <2>1. <<>> \in Seq(Characters) /\ <<>> \in Seq(FormChars) /\ t \o <<>> = t
      OBVIOUS
    <2>2. url_decode(UrlEncoded(t) \o <<>>) = t \o <<>>
      BY <1>3, <2>1, DecodedOf, Zenon
    <2>3. UrlEncoded(t) \o <<>> = UrlEncoded(t)
      <3>1. UrlEncoded(t) \in Seq(Sent)
        BY UrlEncodedType
      <3> QED BY <3>1, ConcatEmptySeq
    <2> QED BY <2>1, <2>2, <2>3, Zenon
  <1> QED BY <1>4

(* The tokens of a body.                                                   *)
LEMMA NextTokenOf ==
    ASSUME NEW W, NEW G \in Seq(W), NEW g \in W, NEW c
    PROVE  NextToken(Append(G, g), c) =
              IF c = "&" THEN Append(Append(G, g), <<>>) ELSE Append(G, Append(g, c))
  <1> DEFINE H == Append(G, g)
             h == Append(g, c)
  <1>1. H \in Seq(W) /\ Len(H) = Len(G) + 1 /\ H[Len(G) + 1] = g
    OBVIOUS
  <1> HIDE DEF h
  <1>2. [H EXCEPT ![Len(G) + 1] = h] = Append(G, h)
    BY LastReplaced
  <1> HIDE DEF H
  <1>3. NextToken(H, c) = IF c = "&" THEN Append(H, <<>>)
                          ELSE [H EXCEPT ![Len(H)] = Append(H[Len(H)], c)]
    BY DEF NextToken
  <1>4. Append(H[Len(H)], c) = h
    BY <1>1 DEF h
  <1>5. NextToken(H, c) = IF c = "&" THEN Append(H, <<>>) ELSE [H EXCEPT ![Len(G) + 1] = h]
    BY <1>1, <1>3, <1>4
  <1> QED BY <1>2, <1>5, Zenon DEF H, h

(* Tokens reads a body from the left.                                      *)
LEMMA TokensEmpty == Tokens(<<>>) = << <<>> >>
  <1>1. FoldsNothing(NextToken)
    BY FoldingNothing
  <1> QED BY <1>1, Zenon DEF FoldsNothing, Tokens

LEMMA TokensStep ==
    ASSUME NEW C, NEW s \in Seq(C), NEW c \in C
    PROVE  Tokens(Append(s, c)) = NextToken(Tokens(s), c)
  <1>1. FoldsFromLeft(NextToken, << <<>> >>, C)
    BY FoldingFromLeft
  <1>2. FoldLeft(NextToken, << <<>> >>, Append(s, c)) = NextToken(FoldLeft(NextToken, << <<>> >>, s), c)
    BY <1>1 DEF FoldsFromLeft
  <1> QED BY <1>2, Zenon DEF Tokens

LEMMA TokensType ==
    ASSUME NEW C
    PROVE  \A s \in Seq(C) : \E G \in Seq(Seq(C)), g \in Seq(C) : Tokens(s) = Append(G, g)
  <1> DEFINE W == Seq(C)
             P == {s \in Seq(C) : \E G \in Seq(W), g \in W : Tokens(s) = Append(G, g)}
  <1>0. <<>> \in W /\ <<>> \in Seq(W)
    OBVIOUS
  <1>1. <<>> \in P
    <2>1. Append(<<>>, <<>>) = << <<>> >>
      OBVIOUS
    <2> QED BY <1>0, <2>1, TokensEmpty, Zenon
  <1>2. ASSUME NEW s \in Seq(C), NEW c \in C, s \in P
        PROVE  Append(s, c) \in P
    <2>1. Append(s, c) \in Seq(C) /\ Tokens(Append(s, c)) = NextToken(Tokens(s), c)
      BY TokensStep
    <2>2. PICK G \in Seq(W), g \in W : Tokens(s) = Append(G, g)
      BY <1>2
    <2>3. Append(g, c) \in W
      OBVIOUS
    <2> HIDE DEF W
    <2>4. Append(G, g) \in Seq(W)
      OBVIOUS
    <2>5. NextToken(Append(G, g), c) =
             IF c = "&" THEN Append(Append(G, g), <<>>) ELSE Append(G, Append(g, c))
      BY NextTokenOf
    <2>6. \E F \in Seq(W), f \in W : Tokens(Append(s, c)) = Append(F, f)
      BY <1>0, <2>1, <2>2, <2>3, <2>4, <2>5, Zenon
    <2> QED BY <2>1, <2>6, Zenon DEF W
  <1>3. \A s \in Seq(C) : s \in P
    <2> HIDE DEF P
    <2> QED BY <1>1, <1>2, SeqInduct
  <1> QED BY <1>3

(* What has no "&" is one token, and the last one behind an "&".           *)
LEMMA OneToken ==
    ASSUME NEW D, "&" \notin D
    PROVE  \A t \in Seq(D) : Tokens(t) = <<t>>
  <1> DEFINE P == {t \in Seq(D) : Tokens(t) = Append(<<>>, t)}
  <1>1. <<>> \in P
    <2>1. <<>> \in Seq(D) /\ Append(<<>>, <<>>) = << <<>> >>
      OBVIOUS
    <2> QED BY <2>1, TokensEmpty, Zenon
  <1>2. ASSUME NEW t \in Seq(D), NEW c \in D, t \in P
        PROVE  Append(t, c) \in P
    <2> DEFINE W == Seq(D)
    <2>1. Append(t, c) \in W /\ t \in W /\ <<>> \in Seq(W)
      OBVIOUS
    <2>2. Tokens(Append(t, c)) = NextToken(Append(<<>>, t), c)
      BY <1>2, TokensStep
    <2>3. c # "&"
      OBVIOUS
    <2> DEFINE none == <<>>
    <2>4. none \in Seq(W)
      BY <2>1
    <2> HIDE DEF W, none
    <2>5. NextToken(Append(none, t), c) = Append(none, Append(t, c))
      BY <2>1, <2>3, <2>4, NextTokenOf
    <2> QED BY <2>1, <2>2, <2>5, Zenon DEF W, none
  <1>3. \A t \in Seq(D) : t \in P
    <2> HIDE DEF P
    <2> QED BY <1>1, <1>2, SeqInduct
  <1>4. \A t \in Seq(D) : Append(<<>>, t) = <<t>>
    OBVIOUS
  <1> QED BY <1>3, <1>4

LEMMA LastToken ==
    ASSUME NEW C, "&" \in C, NEW s \in Seq(C)
    PROVE  \A t \in Seq(C \ {"&"}) : Tokens((s \o <<"&">>) \o t) = Append(Tokens(s), t)
  <1> DEFINE D == C \ {"&"}
             before == s \o <<"&">>
             P == {t \in Seq(D) : Tokens(before \o t) = Append(Tokens(s), t)}
  <1>1. before \in Seq(C) /\ before = Append(s, "&")
    OBVIOUS
  <1>2. PICK G \in Seq(Seq(C)), g \in Seq(C) : Tokens(s) = Append(G, g)
    BY TokensType
  <1>3. <<>> \in P
    <2>1. <<>> \in Seq(D) /\ before \o <<>> = before
      BY <1>1, AppendConcat
    <2>2. Tokens(before) = NextToken(Tokens(s), "&")
      BY <1>1, TokensStep
    <2>3. NextToken(Tokens(s), "&") = Append(Tokens(s), <<>>)
      BY Zenon DEF NextToken
    <2> QED BY <2>1, <2>2, <2>3, Zenon
  <1>4. ASSUME NEW t \in Seq(D), NEW c \in D, t \in P
        PROVE  Append(t, c) \in P
    <2>0. Append(t, c) \in Seq(D) /\ t \in Seq(C) /\ c \in C /\ c # "&"
      BY SeqMonotonic
    <2> HIDE DEF before, D
    <2>1. before \o t \in Seq(C) /\ before \o Append(t, c) = Append(before \o t, c)
      BY <1>1, <2>0, AppendConcat
    <2>2. Tokens(before \o Append(t, c)) = NextToken(Tokens(before \o t), c)
      BY <2>0, <2>1, TokensStep
    <2>3. Tokens(before \o t) = Append(Tokens(s), t)
      BY <1>4
    <2> DEFINE W == Seq(C)
               T == Tokens(s)
    <2>4. t \in W /\ T \in Seq(W)
      <3>1. \A F \in Seq(W), f \in W : Append(F, f) \in Seq(W)
        <4> HIDE DEF W
        <4> QED OBVIOUS
      <3> QED BY <1>2, <2>0, <3>1, Zenon
    <2> HIDE DEF W, T
    <2>5. NextToken(Append(T, t), c) = Append(T, Append(t, c))
      BY <2>0, <2>4, NextTokenOf
    <2>6. Tokens(before \o Append(t, c)) = Append(Tokens(s), Append(t, c))
      BY <2>2, <2>3, <2>5, Zenon DEF T
    <2> QED BY <2>0, <2>6, Zenon
  <1>5. \A t \in Seq(D) : t \in P
    <2> HIDE DEF P, D
    <2> QED BY <1>3, <1>4, SeqInduct
  <1> QED BY <1>5

(* The tokens of a form: the name of a field, "=" and its encoded text.    *)
Given(name, value) == <<name>> \o <<"=">> \o UrlEncoded(value)

LEMMA GivenType ==
    ASSUME NEW name \in {"u", "p"}, NEW value \in Seq(FormChars)
    PROVE  Given(name, value) \in Seq(Characters \ {"&"})
  <1> DEFINE v == UrlEncoded(value)
             D == Characters \ {"&"}
  <1>1. v \in Seq(D)
    <2>1. v \in Seq(Sent) /\ Sent \subseteq D
      BY UrlEncodedType, SentChars
    <2> HIDE DEF v, D
    <2> QED BY <2>1, SeqMonotonic
  <1>2. name \in D /\ "=" \in D
    BY DEF Characters
  <1> HIDE DEF v, D
  <1>3. <<name>> \o <<"=">> \o v \in Seq(D)
    BY <1>1, <1>2
  <1> QED BY <1>3 DEF Given, v, D

(* The name and the text of a field are read off its token.                *)
LEMMA GivenParts ==
    ASSUME NEW name \in {"u", "p"}, NEW value \in Seq(FormChars)
    PROVE  /\ Edge(Given(name, value)) = 2
           /\ KeyOf(Given(name, value)) = <<name>>
           /\ ValueOf(Given(name, value)) = value
  <1> DEFINE v == UrlEncoded(value)
             t == <<name>> \o <<"=">> \o v
             I == {i \in 1 .. Len(t) : t[i] = "="}
  <1>1. v \in Seq(Characters)
    <2>1. v \in Seq(Sent)
      BY UrlEncodedType
    <2> HIDE DEF v
    <2> QED BY <2>1, SentChars, SeqMonotonic
  <1>2. name \in Characters /\ "=" \in Characters /\ name # "="
    BY DEF Characters
  <1>3. Given(name, value) = t
    BY Zenon DEF Given
  <1>4. url_decode(v) = value
    BY DecodesEncoded
  <1> HIDE DEF v
  <1>5. /\ Len(t) \in Nat /\ Len(t) >= 2 /\ t[1] = name /\ t[2] = "="
        /\ SubSeq(t, 1, 2 - 1) = <<name>> /\ SubSeq(t, 2 + 1, Len(t)) = v
    <2> DEFINE C == Characters
    <2>1. v \in Seq(C) /\ name \in C /\ "=" \in C
      BY <1>1, <1>2
    <2> HIDE DEF C
    <2>2. t \in Seq(C) /\ Len(t) = Len(v) + 2 /\ t[1] = name /\ t[2] = "="
      BY <2>1
    <2>3. \A i \in 1 .. Len(v) : t[i + 2] = v[i]
      BY <2>1
    <2>4. Len(v) \in Nat
      BY <2>1
    <2> DEFINE w == SubSeq(t, 3, Len(t))
               k == SubSeq(t, 1, 1)
    <2> HIDE DEF t
    <2>5. w \in Seq(C) /\ Len(w) = Len(v) /\ \A i \in 1 .. Len(v) : w[i] = t[i + 2]
      <3>1. w \in Seq(C) /\ Len(w) = Len(t) + 1 - 3 /\ \A i \in 1 .. Len(t) + 1 - 3 : w[i] = t[3 + i - 1]
        BY <2>2, <2>4, SubSeqProperties
      <3>2. Len(t) + 1 - 3 = Len(v) /\ \A i \in 1 .. Len(v) : 3 + i - 1 = i + 2
        BY <2>2, <2>4
      <3> HIDE DEF w
      <3> QED BY <3>1, <3>2, Zenon
    <2>7. k = <<t[1]>>
      <3>1. k \in Seq(C) /\ Len(k) = 1 /\ k[1] = t[1]
        BY <2>2, <2>4
      <3> HIDE DEF k
      <3> QED BY <3>1
    <2> HIDE DEF w
    <2>6. w = v
      BY <2>1, <2>3, <2>5, SeqEqual
    <2>8. 2 - 1 = 1 /\ 2 + 1 = 3 /\ Len(t) \in Nat /\ Len(t) >= 2
      BY <2>2, <2>4
    <2> QED BY <2>2, <2>6, <2>7, <2>8, Zenon DEF w
  <1> HIDE DEF t
  <1>6. Edge(t) = 2
    <2>1. Edge(t) = IF I # {} THEN Min(I) ELSE 0
      BY DEF Edge, SelectInSeq
    <2>2. I \in SUBSET Nat /\ 2 \in I /\ 1 \notin I
      BY <1>2, <1>5
    <2>3. I # {} /\ \A i \in I : i >= 1
      BY <2>2
    <2> HIDE DEF I
    <2>4. Min(I) \in I /\ \A i \in I : Min(I) <= i
      BY <2>2, MinWithin
    <2>5. Min(I) = 2
      <3> DEFINE m == Min(I)
      <3>1. m \in Nat /\ m >= 1 /\ m <= 2 /\ m # 1
        BY <2>2, <2>3, <2>4
      <3> HIDE DEF m
      <3>2. m = 2
        BY <3>1
      <3> QED BY <3>2 DEF m
    <2> QED BY <2>1, <2>3, <2>5
  <1>7. url_decode(<<name>>) = <<name>>
    <2> DEFINE s == <<name>>
    <2>1. s \in Seq(Characters) /\ s # <<>> /\ s[1] = name /\ SubSeq(s, 2, Len(s)) = <<>>
      <3>1. name \in Characters
        BY <1>2
      <3> HIDE DEF Characters
      <3> QED BY <3>1
    <2> HIDE DEF s
    <2>2. name \notin {"%", "+"}
      OBVIOUS
    <2>3. Symbol(s) = <<name>> /\ Taken(s) = 1
      BY <2>1, <2>2 DEF Symbol, Taken
    <2>4. 1 + 1 = 2 /\ <<name>> \o <<>> = <<name>>
      OBVIOUS
    <2>5. url_decode(s) = Symbol(s) \o url_decode(SubSeq(s, Taken(s) + 1, Len(s)))
      BY <2>1, DecodedOf, Zenon
    <2>6. url_decode(s) = <<name>>
      BY <2>1, <2>3, <2>4, <2>5, DecodedOf, Zenon
    <2> QED BY <2>6 DEF s
  <1>8. KeyOf(t) = <<name>>
    BY <1>5, <1>6, <1>7, Zenon DEF KeyOf
  <1>9. ValueOf(t) = value
    BY <1>4, <1>5, <1>6, Zenon DEF ValueOf
  <1> QED BY <1>3, <1>6, <1>8, <1>9, Zenon

(* The last token counts, and the one before it unless it has its key.     *)
Params(G) == FoldLeft(NextParam, <<>>, G)

LEMMA LastParam ==
    ASSUME NEW W, NEW G \in Seq(W), NEW name \in {"u", "p"}, NEW value \in Seq(FormChars),
           Given(name, value) \in W
    PROVE  /\ <<name>> \in DOMAIN Params(Append(G, Given(name, value)))
           /\ Params(Append(G, Given(name, value)))[<<name>>] = value
           /\ \A key \in DOMAIN Params(G) :
                 key # <<name>> =>
                    /\ key \in DOMAIN Params(Append(G, Given(name, value)))
                    /\ Params(Append(G, Given(name, value)))[key] = Params(G)[key]
  <1> DEFINE g == Given(name, value)
             before == Params(G)
             params == Params(Append(G, g))
  <1>1. FoldsFromLeft(NextParam, <<>>, W)
    BY FoldingFromLeft
  <1>2. params = NextParam(before, g)
    <2>1. g \in W
      OBVIOUS
    <2> HIDE DEF g
    <2>2. FoldLeft(NextParam, <<>>, Append(G, g)) = NextParam(FoldLeft(NextParam, <<>>, G), g)
      BY <1>1, <2>1 DEF FoldsFromLeft
    <2> QED BY <2>2, Zenon DEF Params
  <1>3. Edge(g) # 0 /\ KeyOf(g) = <<name>> /\ ValueOf(g) = value
    BY GivenParts
  <1> HIDE DEF g, before
  <1>4. params = [key \in DOMAIN before \cup {<<name>>} |->
                    IF key = <<name>> THEN value ELSE before[key]]
    BY <1>2, <1>3, Zenon DEF NextParam
  <1> HIDE DEF params
  <1>5. /\ <<name>> \in DOMAIN params /\ params[<<name>>] = value
        /\ \A key \in DOMAIN before :
              key # <<name>> => key \in DOMAIN params /\ params[key] = before[key]
    BY <1>4, Zenon
  <1> QED BY <1>5, Zenon DEF params, before, g

(* Whatever is in front of the password it arrives, and so does the name   *)
(* when that is what is in front.                                          *)
LEMMA PasswordArrives ==
    ASSUME NEW s \in Seq(Characters), NEW value \in Seq(FormChars)
    PROVE  LET body == (s \o <<"&">>) \o Given("p", value)
           IN  /\ FormField(body, <<"p">>) = value
               /\ \A v \in Seq(FormChars) : s = Given("u", v) => FormField(body, <<"u">>) = v
  <1> DEFINE body == (s \o <<"&">>) \o Given("p", value)
             g == Given("p", value)
             W == Seq(Characters)
             T == Tokens(s)
             params == Params(Append(T, g))
             before == Params(T)
  <1>1. g \in Seq(Characters \ {"&"}) /\ g \in W
    <2>1. g \in Seq(Characters \ {"&"})
      BY GivenType
    <2> HIDE DEF g
    <2> QED BY <2>1, SeqMonotonic
  <1>2. "&" \in Characters
    BY DEF Characters
  <1>3. Tokens(body) = Append(T, g)
    BY <1>1, <1>2, LastToken
  <1>4. parse_form_body(body) = params
    BY <1>3, Zenon DEF parse_form_body, Params
  <1>5. T \in Seq(W)
    <2>1. PICK F \in Seq(W), f \in W : T = Append(F, f)
      BY TokensType
    <2> HIDE DEF W, T
    <2> QED BY <2>1
  <1>6. /\ <<"p">> \in DOMAIN params /\ params[<<"p">>] = value
        /\ \A key \in DOMAIN before : key # <<"p">> => key \in DOMAIN params /\ params[key] = before[key]
    <2>1. Given("p", value) \in W
      BY <1>1
    <2> HIDE DEF W, T, params, before, g
    <2>2. /\ <<"p">> \in DOMAIN Params(Append(T, Given("p", value)))
          /\ Params(Append(T, Given("p", value)))[<<"p">>] = value
          /\ \A key \in DOMAIN Params(T) :
                key # <<"p">> =>
                   /\ key \in DOMAIN Params(Append(T, Given("p", value)))
                   /\ Params(Append(T, Given("p", value)))[key] = Params(T)[key]
      BY <1>5, <2>1, LastParam
    <2> QED BY <2>2, Zenon DEF params, before, g
  <1>7. FormField(body, <<"p">>) = value
    BY <1>4, <1>6, Zenon DEF FormField
  <1>8. ASSUME NEW v \in Seq(FormChars), s = Given("u", v)
        PROVE  FormField(body, <<"u">>) = v
    <2> DEFINE a == Given("u", v)
               none == <<>>
    <2>1. a \in Seq(Characters \ {"&"}) /\ a \in W
      BY <1>8, GivenType
    <2>2. T = <<a>>
      BY <1>8, <2>1, OneToken
    <2>3. <<a>> = Append(none, a) /\ none \in Seq(W)
      OBVIOUS
    <2>4. Given("u", v) \in W /\ before = Params(Append(none, Given("u", v)))
      BY <2>1, <2>2, <2>3, Zenon
    <2> HIDE DEF W, none, before
    <2>6. /\ <<"u">> \in DOMAIN Params(Append(none, Given("u", v)))
          /\ Params(Append(none, Given("u", v)))[<<"u">>] = v
      BY <2>3, <2>4, LastParam
    <2>7. <<"u">> \in DOMAIN before /\ before[<<"u">>] = v
      BY <2>4, <2>6, Zenon
    <2>5. <<"u">> # <<"p">>
      OBVIOUS
    <2>8. <<"u">> \in DOMAIN params /\ params[<<"u">>] = v
      BY <1>6, <2>5, <2>7, Zenon
    <2> QED BY <1>4, <2>8, Zenon DEF FormField
  <1> QED BY <1>7, <1>8, Zenon

(* A body is the two tokens with "&" between them.                         *)
LEMMA BodyOf ==
    ASSUME NEW a \in Seq(Characters), NEW b \in Seq(FormChars)
    PROVE  Body(a, UrlEncoded(b)) = ((<<"u">> \o <<"=">> \o a) \o <<"&">>) \o Given("p", b)
  <1> DEFINE C == Characters
             v == UrlEncoded(b)
             k == <<"p">>
             e == <<"=">>
             x == (<<"u">> \o <<"=">> \o a) \o <<"&">>
  <1>1. Body(a, v) = x \o k \o e \o v
    BY Zenon DEF Body, Username, Password
  <1>2. v \in Seq(C)
    <2>1. v \in Seq(Sent)
      BY UrlEncodedType
    <2> HIDE DEF v
    <2> QED BY <2>1, SentChars, SeqMonotonic
  <1>3. "u" \in C /\ "p" \in C /\ "=" \in C /\ "&" \in C
    BY DEF Characters
  <1> HIDE DEF C, v
  <1>4. x \in Seq(C) /\ k \in Seq(C) /\ e \in Seq(C) /\ k \o e \in Seq(C)
    <2>1. a \in Seq(C)
      BY DEF C
    <2>2. k \in Seq(C) /\ e \in Seq(C) /\ k \o e \in Seq(C)
      BY <1>3
    <2>3. <<"u">> \o <<"=">> \o a \in Seq(C)
      BY <1>3, <2>1
    <2> DEFINE y == <<"u">> \o <<"=">> \o a
    <2> HIDE DEF y
    <2>4. y \o <<"&">> \in Seq(C)
      BY <1>3, <2>3 DEF y
    <2> QED BY <2>2, <2>4 DEF y
  <1> HIDE DEF x, k, e
  <1>5. (x \o k) \o e = x \o (k \o e)
    BY <1>4, ConcatAssociative
  <1> DEFINE ke == k \o e
  <1>6. ke \in Seq(C)
    BY <1>4
  <1> HIDE DEF ke
  <1>7. (x \o ke) \o v = x \o (ke \o v)
    <2>1. x \in Seq(C) /\ ke \in Seq(C) /\ v \in Seq(C)
      BY <1>2, <1>4, <1>6
    <2>2. \A p, q, r \in Seq(C) : (p \o q) \o r = p \o (q \o r)
      BY ConcatAssociative
    <2> QED BY <2>1, <2>2, Zenon
  <1> QED BY <1>1, <1>5, <1>7, Zenon DEF ke, x, k, e, v, Given

(* A form is typed of the characters of a form.                            *)
LEMMA FormTyped == Spec => [](kind = "form" => text \in Seq(FormChars))
  <1> DEFINE Form == kind = "form" => text \in Seq(FormChars)
  <1>1. Init => Form
    BY DEF Init
  <1>2. Form /\ [Next]_vars => Form'
    <2> SUFFICES ASSUME Form, [Next]_vars
                 PROVE  Form'
      OBVIOUS
    <2>1. CASE Next
      <3>1. PICK c \in PathChars \cup FormChars : Type(c)
        BY <2>1 DEF Next
      <3>2. ASSUME kind' = "form" PROVE text' \in Seq(FormChars)
        <4>1. kind = "form" /\ c \in FormChars /\ text' = Append(text, c)
          BY <3>1, <3>2 DEF Type
        <4> QED BY <4>1
      <3> QED BY <3>2
    <2>2. CASE UNCHANGED vars
      BY <2>2 DEF vars
    <2> QED BY <2>1, <2>2
  <1> QED BY <1>1, <1>2, PTL DEF Spec

(* Whatever is entered as a name and a password, parse_form_body           *)
(* (auxil.hpp:39) gives both back from what a browser makes of them, and   *)
(* the password even where the name in front of it was not encoded at all. *)
THEOREM FormsArrive == Spec => []FormRoundTrip
  <1>1. ASSUME kind = "form" => text \in Seq(FormChars)
        PROVE  FormRoundTrip
    <2> SUFFICES ASSUME text \in Seq(FormChars)
                 PROVE  FormRoundTrip
      BY <1>1 DEF FormRoundTrip
    <2>1. ASSUME NEW a \in Seq(FormChars), NEW b \in Seq(FormChars)
          PROVE  /\ FormField(Body(UrlEncoded(a), UrlEncoded(b)), Username) = a
                 /\ FormField(Body(UrlEncoded(a), UrlEncoded(b)), Password) = b
      <3> DEFINE v == UrlEncoded(a)
                 s == Given("u", a)
      <3>1. v \in Seq(Characters) /\ s \in Seq(Characters)
        <4>1. v \in Seq(Sent) /\ s \in Seq(Characters \ {"&"})
          BY UrlEncodedType, GivenType
        <4> HIDE DEF v, s
        <4> QED BY <4>1, SentChars, SeqMonotonic
      <3>2. s = <<"u">> \o <<"=">> \o v
        BY Zenon DEF Given
      <3> HIDE DEF s
      <3>3. Body(v, UrlEncoded(b)) = (s \o <<"&">>) \o Given("p", b)
        BY <3>1, <3>2, BodyOf
      <3> QED BY <3>1, <3>3, PasswordArrives, Zenon DEF s, Username, Password
    <2>2. \A i \in 0 .. Len(text) :
             SubSeq(text, 1, i) \in Seq(FormChars) /\ SubSeq(text, i + 1, Len(text)) \in Seq(FormChars)
      OBVIOUS
    <2>3. FormField(Body(text, UrlEncoded(text)), Password) = text
      <3> DEFINE s == <<"u">> \o <<"=">> \o text
      <3>1. text \in Seq(Characters) /\ s \in Seq(Characters)
        <4>1. FormChars \subseteq Characters /\ "u" \in Characters /\ "=" \in Characters
          BY DEF Characters
        <4> HIDE DEF Characters
        <4>2. text \in Seq(Characters)
          BY <4>1, SeqMonotonic
        <4> QED BY <4>1, <4>2
      <3> HIDE DEF s
      <3>2. Body(text, UrlEncoded(text)) = (s \o <<"&">>) \o Given("p", text)
        BY <3>1, BodyOf, Zenon DEF s
      <3> QED BY <3>1, <3>2, PasswordArrives, Zenon DEF Password
    <2> QED BY <2>1, <2>2, <2>3, Zenon DEF FormRoundTrip
  <1> QED BY <1>1, FormTyped, PTL
=============================================================================
