---------------------------- MODULE LoopTheorems ----------------------------
(***************************************************************************)
(* What a loop computes.  The operator op(c, x, y) is a turn of it, where  *)
(* c is what the turns have in common, x the value before the turn and y   *)
(* the element of the sequence that it looks at, or the number of the      *)
(* turn; holds(c, k, x) is what is true of the value x after k turns.  A   *)
(* module that knows the turn instantiates this one with it.               *)
(***************************************************************************)
EXTENDS Integers, Sequences, SequencesExt, FiniteSetTheorems, SequenceTheorems,
        WellFoundedInduction, TLAPS

CONSTANTS op(_, _, _), holds(_, _, _)

\* Induction over the natural numbers, for a set: the least one outside it is not 0.
THEOREM NatSet ==
    ASSUME NEW S, 0 \in S, \A k \in Nat : k \in S => k + 1 \in S
    PROVE  Nat \subseteq S
<1>. SUFFICES ASSUME NEW n \in Nat, n \notin S PROVE FALSE
  OBVIOUS
<1>. DEFINE T == {1..m : m \in 0..n \ S}
            R == StrictSubsetOrdering(1..n)
<1>1. IsWellFoundedOn(R, FiniteSubsetsOf(1..n))
  BY FS_StrictSubsetOrderingWellFounded
<1>2. FiniteSubsetsOf(1..n) = SUBSET (1..n)
  <2>1. IsFiniteSet(1..n)
    BY FS_Interval
  <2>2. PICK I : I = 1..n
    OBVIOUS
  <2>3. FiniteSubsetsOf(I) = SUBSET I
    BY <2>1, <2>2, FS_FiniteSubsetsOfFinite
  <2>. QED BY ONLY <2>2, <2>3, Zenon
<1>3. T \subseteq SUBSET (1..n) /\ T # {}
  OBVIOUS
<1>4. PICK x \in T : \A y \in T : <<y, x>> \notin R
  <2>. HIDE DEF T, R
  <2>1. PICK F : F = SUBSET (1..n)
    OBVIOUS
  <2>2. IsWellFoundedOn(R, F) /\ T \subseteq F /\ T # {}
    BY <1>1, <1>2, <1>3, <2>1, Zenon
  <2>. QED BY ONLY <2>2, WFMin
<1>5. PICK m \in 0..n \ S : x = 1..m
  OBVIOUS
<1>6. m # 0 /\ m - 1 \in 0..n \ S
  BY <1>5
<1>7. 1..(m - 1) \in T /\ <<1..(m - 1), x>> \in R
  <2>1. /\ 1..(m - 1) \in SUBSET (1..n) /\ x \in SUBSET (1..n)
        /\ m \in x /\ m \notin 1..(m - 1) /\ 1..(m - 1) \subseteq x
    BY <1>5, <1>6
  <2>2. <<1..(m - 1), x>> \in R
    BY <2>1 DEF StrictSubsetOrdering
  <2>. QED BY <1>6, <2>2
<1>. QED BY <1>4, <1>7

-----------------------------------------------------------------------------
(* The fold of a sequence from the left *)

\* The fold of a sequence with the turn.
Fold(c, base, seq) == FoldLeft(LAMBDA x, y : op(c, x, y), base, seq)

\* The function on sets of indices that a fold computes: what the loop makes of the elements at
\* the indices of a set, in their order.
Val(f, c, base, seq, s) == IF s = {} THEN base ELSE op(c, f[s \ {Max(s)}], seq[Max(s)])

IsFold(f, n, c, base, seq) == f = [s \in SUBSET (1..n) |-> Val(f, c, base, seq, s)]

\* That function is the one of FoldLeft.
LEMMA FoldIs ==
    ASSUME NEW n, NEW c, NEW base, NEW seq, DOMAIN seq = 1..n
    PROVE  Fold(c, base, seq) = (CHOOSE f : IsFold(f, n, c, base, seq))[1..n]
BY DEF Fold, FoldLeft, MapThenFoldSet, IsFold, Val

\* The greatest index.
LEMMA MaxIs ==
    ASSUME NEW k \in Nat, NEW s \in SUBSET (1..k), k \in s
    PROVE  Max(s) = k
<1>. DEFINE P(x) == x \in s /\ \A y \in s : x >= y
<1>1. P(k)
  OBVIOUS
<1>2. \A x : P(x) => x = k
  OBVIOUS
<1>3. P(CHOOSE x : P(x))
  BY <1>1, Zenon
<1>4. Max(s) = CHOOSE x : P(x)
  BY DEF Max
<1>. QED BY <1>2, <1>3, <1>4

\* The values of the function.
LEMMA FoldAt ==
    ASSUME NEW n, NEW c, NEW base, NEW seq, NEW f, IsFold(f, n, c, base, seq)
    PROVE  \A s \in SUBSET (1..n) : f[s] = Val(f, c, base, seq, s)
<1>. DEFINE h == [s \in SUBSET (1..n) |-> Val(f, c, base, seq, s)]
<1>1. f = h
  BY DEF IsFold
<1>2. \A s \in SUBSET (1..n) : h[s] = Val(f, c, base, seq, s)
  OBVIOUS
<1>. HIDE DEF h
<1>. QED BY <1>1, <1>2

\* There is such a function for any number of elements.
LEMMA FoldExists ==
    ASSUME NEW n \in Nat, NEW c, NEW base, NEW seq
    PROVE  \E f : IsFold(f, n, c, base, seq)
<1>. DEFINE S == {k \in Nat : \E f : IsFold(f, k, c, base, seq)}
<1>1. 0 \in S
  <2>. DEFINE f == [s \in SUBSET (1..0) |-> base]
  <2>1. IsFold(f, 0, c, base, seq)
    BY DEF IsFold, Val
  <2>. QED BY <2>1
<1>2. ASSUME NEW k \in Nat, k \in S PROVE k + 1 \in S
  <2>1. PICK f : IsFold(f, k, c, base, seq)
    BY <1>2
  <2>. DEFINE g == [s \in SUBSET (1..(k + 1)) |->
                     IF s = {} THEN base
                     ELSE IF k + 1 \in s THEN op(c, f[s \ {k + 1}], seq[k + 1]) ELSE f[s]]
  <2>2. \A s \in SUBSET (1..k) : f[s] = Val(f, c, base, seq, s)
    BY <2>1, FoldAt
  <2>3. ASSUME NEW s \in SUBSET (1..k) PROVE g[s] = f[s]
    <3>1. s \in SUBSET (1..(k + 1)) /\ k + 1 \notin s
      OBVIOUS
    <3>2. s = {} => f[s] = base
      BY <2>2 DEF Val
    <3>. QED BY <3>1, <3>2, Zenon
  <2>4. ASSUME NEW s \in SUBSET (1..(k + 1)) PROVE g[s] = Val(g, c, base, seq, s)
    <3>1. CASE k + 1 \in s
      <4>1. Max(s) = k + 1 /\ s \ {k + 1} \in SUBSET (1..k) /\ s # {}
        BY <3>1, MaxIs
      <4>2. g[s] = op(c, f[s \ {k + 1}], seq[k + 1])
        BY <4>1, <3>1, Zenon
      <4>3. g[s \ {k + 1}] = f[s \ {k + 1}]
        BY <4>1, <2>3
      <4>. HIDE DEF g
      <4>. QED BY <4>1, <4>2, <4>3 DEF Val
    <3>2. CASE k + 1 \notin s
      <4>1. s \in SUBSET (1..k) /\ s \ {Max(s)} \in SUBSET (1..k)
        <5>1. \A x \in s : x \in 1..(k + 1) /\ x # k + 1
          BY <3>2
        <5>2. \A x \in 1..(k + 1) : x # k + 1 => x \in 1..k
          OBVIOUS
        <5>. QED BY ONLY <5>1, <5>2
      <4>2. g[s] = f[s] /\ g[s \ {Max(s)}] = f[s \ {Max(s)}]
        BY <4>1, <2>3
      <4>3. f[s] = Val(f, c, base, seq, s)
        BY <4>1, <2>2
      <4>. HIDE DEF g
      <4>. QED BY ONLY <4>2, <4>3 DEF Val
    <3>. QED BY <3>1, <3>2
  <2>5. IsFold(g, k + 1, c, base, seq)
    <3>1. DOMAIN g = SUBSET (1..(k + 1)) /\ g = [s \in DOMAIN g |-> g[s]]
      OBVIOUS
    <3>. HIDE DEF g
    <3>. QED BY <2>4, <3>1 DEF IsFold
  <2>. QED BY <2>5
<1>. HIDE DEF S
<1>3. Nat \subseteq S
  BY <1>1, <1>2, NatSet
<1>4. n \in S
  BY <1>3
<1>. QED BY <1>4 DEF S

\* The values of a fold, turn by turn: h[k] is what the loop has made of the first k elements.
THEOREM FoldTrace ==
    ASSUME NEW n \in Nat, NEW c, NEW base, NEW seq, DOMAIN seq = 1..n
    PROVE  \E h : /\ h[0] = base
                  /\ \A k \in 1..n : h[k] = op(c, h[k - 1], seq[k])
                  /\ h[n] = Fold(c, base, seq)
<1>. DEFINE f == CHOOSE g : IsFold(g, n, c, base, seq)
            h == [k \in 0..n |-> f[1..k]]
<1>1. IsFold(f, n, c, base, seq)
  BY FoldExists
<1>2. Fold(c, base, seq) = f[1..n]
  BY FoldIs
<1>. HIDE DEF f
<1>3. h[0] = base
  <2>1. {} \in SUBSET (1..n) /\ 1..0 = {} /\ 0 \in 0..n
    OBVIOUS
  <2>2. \A s \in SUBSET (1..n) : f[s] = Val(f, c, base, seq, s)
    BY <1>1, FoldAt
  <2>3. f[{}] = base
    BY <2>1, <2>2 DEF Val
  <2>. QED BY <2>1, <2>3
<1>4. ASSUME NEW k \in 1..n PROVE h[k] = op(c, h[k - 1], seq[k])
  <2>1. /\ 1..k \in SUBSET (1..n) /\ 1..k # {} /\ (1..k) \ {k} = 1..(k - 1)
        /\ k \in Nat /\ k \in 1..k /\ k \in 0..n /\ k - 1 \in 0..n
    OBVIOUS
  <2>2. Max(1..k) = k
    BY ONLY <2>1, MaxIs
  <2>3. \A s \in SUBSET (1..n) : f[s] = Val(f, c, base, seq, s)
    BY <1>1, FoldAt
  <2>4. f[1..k] = op(c, f[(1..k) \ {k}], seq[k])
    BY <2>1, <2>2, <2>3 DEF Val
  <2>. QED BY <2>1, <2>4
<1>5. h[n] = f[1..n]
  OBVIOUS
<1>. HIDE DEF h
<1>. QED BY <1>2, <1>3, <1>4, <1>5

\* The values h of the fold, turn by turn.
FoldsTo(h, n, c, base, seq) ==
    /\ h[0] = base
    /\ \A k \in 1..n : h[k] = op(c, h[k - 1], seq[k])
    /\ h[n] = Fold(c, base, seq)

\* There are such values.
THEOREM FoldValues ==
    ASSUME NEW n \in Nat, NEW c, NEW base, NEW seq, DOMAIN seq = 1..n
    PROVE  \E h : FoldsTo(h, n, c, base, seq)
<1>1. PICK h : /\ h[0] = base
               /\ \A k \in 1..n : h[k] = op(c, h[k - 1], seq[k])
               /\ h[n] = Fold(c, base, seq)
  BY FoldTrace
<1>2. FoldsTo(h, n, c, base, seq)
  BY <1>1, Zenon DEF FoldsTo
<1>. QED BY <1>2

\* The values of the first n turns.
IsTrace(h, n, c, base, seq) == h[0] = base /\ \A k \in 1..n : h[k] = op(c, h[k - 1], seq[k])

\* There is one sequence of values.
LEMMA TraceUnique ==
    ASSUME NEW n \in Nat, NEW c, NEW base, NEW seq, NEW g, NEW h,
           IsTrace(g, n, c, base, seq), IsTrace(h, n, c, base, seq)
    PROVE  g[n] = h[n]
<1>. DEFINE S == {k \in Nat : k <= n => g[k] = h[k]}
<1>1. 0 \in S
  BY DEF IsTrace
<1>2. ASSUME NEW k \in Nat, k \in S PROVE k + 1 \in S
  <2>1. CASE k + 1 <= n
    <3>1. k + 1 \in 1..n /\ (k + 1) - 1 = k /\ k <= n
      BY <2>1
    <3>2. g[k + 1] = op(c, g[k], seq[k + 1]) /\ h[k + 1] = op(c, h[k], seq[k + 1])
      BY <3>1 DEF IsTrace
    <3>. QED BY <1>2, <3>1, <3>2
  <2>2. CASE ~(k + 1 <= n)
    BY <2>2
  <2>. QED BY <2>1, <2>2
<1>. HIDE DEF S
<1>3. n \in S
  BY <1>1, <1>2, NatSet
<1>. QED BY <1>3 DEF S

\* One more element is one more turn.
THEOREM FoldAppend ==
    ASSUME NEW c, NEW base, NEW T, NEW seq \in Seq(T), NEW e \in T
    PROVE  /\ Fold(c, base, <<>>) = base
           /\ Fold(c, base, Append(seq, e))
                = op(c, Fold(c, base, seq), e)
<1>. DEFINE long == Append(seq, e)
<1>1. PICK n \in Nat : n = Len(seq)
  BY LenProperties
<1>2. PICK m \in Nat : m = n + 1
  OBVIOUS
<1>3. /\ DOMAIN seq = 1..n /\ DOMAIN long = 1..m /\ long[m] = e /\ \A k \in 1..n : seq[k] = long[k]
  BY <1>1, <1>2, LenProperties, AppendProperties
<1>. HIDE DEF long
<1>4. PICK h : /\ h[0] = base /\ \A k \in 1..n : h[k] = op(c, h[k - 1], seq[k])
               /\ h[n] = Fold(c, base, seq)
  <2>1. DOMAIN seq = 1..n
    BY <1>3
  <2>. QED BY <2>1, FoldTrace
<1>5. PICK g : /\ g[0] = base /\ \A k \in 1..m : g[k] = op(c, g[k - 1], long[k])
               /\ g[m] = Fold(c, base, long)
  BY <1>3, FoldTrace
<1>6. IsTrace(h, n, c, base, seq)
  BY <1>4 DEF IsTrace
<1>7. h[n] = g[n]
  <2>1. IsTrace(g, n, c, base, seq)
    BY <1>2, <1>3, <1>5 DEF IsTrace
  <2>. QED BY <1>6, <2>1, TraceUnique
<1>8. g[m] = op(c, g[n], e)
  <2>1. m \in 1..m /\ m - 1 = n
    BY <1>2
  <2>. QED BY <2>1, <1>3, <1>5
<1>9. Fold(c, base, <<>>) = base
  <2>1. DOMAIN <<>> = 1..0 /\ 0 \in Nat
    OBVIOUS
  <2>. DEFINE none == <<>>
  <2>. HIDE DEF none
  <2>2. DOMAIN none = 1..0
    BY DEF none
  <2>3. PICK z : /\ z[0] = base /\ z[0] = Fold(c, base, none)
    BY <2>2, FoldTrace
  <2>. QED BY <2>3 DEF none
<1>. QED BY <1>4, <1>5, <1>7, <1>8, <1>9 DEF long

\* What every turn preserves holds at the end.
THEOREM FoldInvariant ==
    ASSUME NEW n \in Nat, NEW c, NEW base, NEW seq, DOMAIN seq = 1..n,
           holds(c, 0, base),
           \A k \in 1..n : \A x : holds(c, k - 1, x) => holds(c, k, op(c, x, seq[k]))
    PROVE  holds(c, n, Fold(c, base, seq))
<1>1. PICK h : /\ h[0] = base /\ \A k \in 1..n : h[k] = op(c, h[k - 1], seq[k])
               /\ h[n] = Fold(c, base, seq)
  BY FoldTrace
<1>. DEFINE S == {k \in Nat : k <= n => holds(c, k, h[k])}
<1>2. 0 \in S
  BY <1>1
<1>3. ASSUME NEW k \in Nat, k \in S PROVE k + 1 \in S
  <2>1. CASE k + 1 <= n
    <3>1. k + 1 \in 1..n /\ (k + 1) - 1 = k /\ k <= n
      BY <2>1
    <3>2. holds(c, k, h[k])
      BY <1>3, <3>1
    <3>3. h[k + 1] = op(c, h[k], seq[k + 1])
      BY <1>1, <3>1
    <3>. QED BY <3>1, <3>2, <3>3
  <2>2. CASE ~(k + 1 <= n)
    BY <2>2
  <2>. QED BY <2>1, <2>2
<1>. HIDE DEF S
<1>4. n \in S
  BY <1>2, <1>3, NatSet
<1>. QED BY <1>1, <1>4 DEF S

-----------------------------------------------------------------------------
(* A loop that counts its turns *)

\* The loop after n turns.
Loop(c, base, n) == LET f[k \in 0..n] == IF k = 0 THEN base ELSE op(c, f[k - 1], k) IN f[n]

\* The function that the loop computes, and its value after k turns.
Turned(f, c, base, k) == IF k = 0 THEN base ELSE op(c, f[k - 1], k)

IsLoop(f, n, c, base) == f = [k \in 0..n |-> Turned(f, c, base, k)]

\* There is such a function for any number of turns.
LEMMA LoopExists ==
    ASSUME NEW n \in Nat, NEW c, NEW base
    PROVE  \E f : IsLoop(f, n, c, base)
<1>. DEFINE S == {k \in Nat : \E f : IsLoop(f, k, c, base)}
<1>1. 0 \in S
  <2>. DEFINE f == [k \in 0..0 |-> base]
  <2>1. IsLoop(f, 0, c, base)
    BY DEF IsLoop, Turned
  <2>. QED BY <2>1
<1>2. ASSUME NEW m \in Nat, m \in S PROVE m + 1 \in S
  <2>1. PICK f : IsLoop(f, m, c, base)
    BY <1>2
  <2>2. \A k \in 0..m : f[k] = Turned(f, c, base, k)
    BY <2>1 DEF IsLoop
  <2>. DEFINE g == [k \in 0..(m + 1) |-> IF k = m + 1 THEN op(c, f[m], m + 1) ELSE f[k]]
  <2>3. \A k \in 0..m : g[k] = f[k]
    OBVIOUS
  <2>4. g[m + 1] = op(c, f[m], m + 1)
    OBVIOUS
  <2>5. DOMAIN g = 0..(m + 1) /\ g = [k \in DOMAIN g |-> g[k]]
    OBVIOUS
  <2>. HIDE DEF g
  <2>6. ASSUME NEW k \in 0..(m + 1) PROVE g[k] = Turned(g, c, base, k)
    <3>1. CASE k = m + 1
      <4>1. k # 0 /\ k - 1 = m /\ m \in 0..m
        BY <3>1
      <4>. QED BY <2>3, <2>4, <3>1, <4>1 DEF Turned
    <3>2. CASE k # m + 1
      <4>1. k \in 0..m /\ (k = 0 \/ k - 1 \in 0..m)
        BY <3>2
      <4>. QED BY <2>2, <2>3, <4>1 DEF Turned
    <3>. QED BY <3>1, <3>2
  <2>7. IsLoop(g, m + 1, c, base)
    BY <2>5, <2>6 DEF IsLoop
  <2>. QED BY <2>7
<1>. HIDE DEF S
<1>3. n \in S
  BY <1>1, <1>2, NatSet
<1>. QED BY <1>3 DEF S

\* The values of a loop, turn by turn.
THEOREM LoopTrace ==
    ASSUME NEW n \in Nat, NEW c, NEW base
    PROVE  \E h : /\ h[0] = base
                  /\ \A k \in 1..n : h[k] = op(c, h[k - 1], k)
                  /\ h[n] = Loop(c, base, n)
<1>. DEFINE f == CHOOSE g : IsLoop(g, n, c, base)
<1>1. IsLoop(f, n, c, base)
  BY LoopExists
<1>2. Loop(c, base, n) = f[n]
  BY DEF Loop, IsLoop, Turned
<1>. HIDE DEF f
<1>3. \A k \in 0..n : f[k] = Turned(f, c, base, k)
  BY <1>1 DEF IsLoop
<1>4. f[0] = base /\ \A k \in 1..n : f[k] = op(c, f[k - 1], k)
  BY <1>3 DEF Turned
<1>. QED BY <1>2, <1>4

\* What every turn preserves holds at the end.
THEOREM LoopInvariant ==
    ASSUME NEW n \in Nat, NEW c, NEW base,
           holds(c, 0, base),
           \A k \in 1..n : \A x : holds(c, k - 1, x) => holds(c, k, op(c, x, k))
    PROVE  holds(c, n, Loop(c, base, n))
<1>1. PICK h : /\ h[0] = base /\ \A k \in 1..n : h[k] = op(c, h[k - 1], k)
               /\ h[n] = Loop(c, base, n)
  BY LoopTrace
<1>. DEFINE S == {k \in Nat : k <= n => holds(c, k, h[k])}
<1>2. 0 \in S
  BY <1>1
<1>3. ASSUME NEW k \in Nat, k \in S PROVE k + 1 \in S
  <2>1. CASE k + 1 <= n
    <3>1. k + 1 \in 1..n /\ (k + 1) - 1 = k /\ k <= n
      BY <2>1
    <3>2. holds(c, k, h[k])
      BY <1>3, <3>1
    <3>3. h[k + 1] = op(c, h[k], k + 1)
      BY <1>1, <3>1
    <3>. QED BY <3>1, <3>2, <3>3
  <2>2. CASE ~(k + 1 <= n)
    BY <2>2
  <2>. QED BY <2>1, <2>2
<1>. HIDE DEF S
<1>4. n \in S
  BY <1>2, <1>3, NatSet
<1>. QED BY <1>1, <1>4 DEF S
=============================================================================
