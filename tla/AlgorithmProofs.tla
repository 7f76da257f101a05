--------------------------- MODULE AlgorithmProofs ---------------------------
(***************************************************************************)
(* Proofs about the pure algorithms: for an input of any length, when the  *)
(* conversions of zax-inspector are right, that md5p is fed the message    *)
(* RFC 1321 pads, and that envext performs its lines in order.  The loops  *)
(* of the code are folds and recursive functions; what they compute is     *)
(* shown with the theorems of LoopTheorems, from one turn to the next.     *)
(***************************************************************************)
EXTENDS Algorithms, FiniteSetTheorems, SequenceTheorems, TLAPS

-----------------------------------------------------------------------------
(* The inputs that a behaviour reaches *)

\* The words of every mode, and the lengths of those whose length matters.
InputOK ==
    /\ mode \in DOMAIN Limit
    /\ mode = "keys" => in \in Seq(Keys)
    /\ mode = "code" => in \in Seq(Instructions)
    /\ mode = "sections" => in \in Seq(1..4)
    /\ mode = "bytes" => in \in Seq({0, 9, 16, 165, 255}) /\ Len(in) <= MaxBytes
    /\ mode = "message" => in \in Seq(Nat)
    /\ mode = "env" => in \in Seq(PlainLines \cup OddLines)

\* The empty input is made of the words of any mode.
LEMMA InputInit == Init => InputOK
BY EmptySeq, BytesAssumption DEF Init, InputOK, Limit

\* A word more.
LEMMA Appended ==
    ASSUME NEW S, NEW s \in Seq(S), NEW w \in S
    PROVE  Append(s, w) \in Seq(S) /\ Len(Append(s, w)) = Len(s) + 1
BY AppendProperties

\* Extend adds a word of the mode, and no byte to those of a whole DWORD.
LEMMA InputNext == InputOK /\ [Extend]_vars => InputOK'
<1>. SUFFICES ASSUME InputOK, [Extend]_vars PROVE InputOK'
  OBVIOUS
<1>1. CASE UNCHANGED vars
  BY <1>1 DEF vars, InputOK
<1>2. CASE Extend
  <2>1. PICK w \in Words : in' = Append(in, w)
    BY <1>2 DEF Extend
  <2>2. mode' = mode /\ mode \in DOMAIN Limit /\ Len(in) < Limit[mode]
    BY <1>2 DEF Extend
  <2>3. mode = "keys" => in' \in Seq(Keys)
    BY <2>1, Appended DEF Words, InputOK
  <2>4. mode = "code" => in' \in Seq(Instructions)
    BY <2>1, Appended DEF Words, InputOK
  <2>5. mode = "sections" => in' \in Seq(1..4)
    BY <2>1, Appended DEF Words, InputOK
  <2>6. mode = "bytes" => in' \in Seq({0, 9, 16, 165, 255}) /\ Len(in') <= MaxBytes
    <3>. SUFFICES ASSUME mode = "bytes" PROVE in' \in Seq({0, 9, 16, 165, 255}) /\ Len(in') <= MaxBytes
      OBVIOUS
    <3>1. in \in Seq({0, 9, 16, 165, 255}) /\ w \in {0, 9, 16, 165, 255}
      BY DEF Words, InputOK
    <3>2. in' \in Seq({0, 9, 16, 165, 255}) /\ Len(in') = Len(in) + 1
      BY <2>1, <3>1, Appended
    <3>3. Len(in) < MaxBytes
      BY <2>2 DEF Limit
    <3>4. Len(in) \in Nat
      BY <3>1, LenProperties
    <3>5. Len(in) + 1 <= MaxBytes
      BY ONLY <3>3, <3>4, BytesAssumption DEF BytesAssumption
    <3>. QED BY <3>2, <3>5
  <2>7. mode = "message" => in' \in Seq(Nat)
    <3>. SUFFICES ASSUME mode = "message" PROVE in' \in Seq(Nat)
      OBVIOUS
    <3>1. in \in Seq(Nat)
      BY DEF InputOK
    <3>2. w \in Nat
      BY <3>1, LenProperties DEF Words
    <3>. QED BY <2>1, <3>1, <3>2, Appended
  <2>8. mode = "env" => in' \in Seq(PlainLines \cup OddLines)
    BY <2>1, Appended DEF Words, InputOK
  <2>. QED BY <2>2, <2>3, <2>4, <2>5, <2>6, <2>7, <2>8, Zenon DEF InputOK
<1>. QED BY <1>1, <1>2

\* Every input is made of the words of its mode.
THEOREM InputTypeCorrect == Spec => []InputOK
BY InputInit, InputNext, PTL DEF Spec

-----------------------------------------------------------------------------
(* The conversions of ZaxRT.c *)

\* A number that fits in a DWORD.
DWORD == 0..(2^32 - 1)

\* What each turn of a number's division leaves: q[i] is what is left after i digits, and the
\* digits taken so far are what q lost.
Divides(q, n, radix, digits) ==
    /\ q[0] = n
    /\ \A i \in 1..Len(digits) : /\ q[i] \in Nat /\ q[i - 1] \in Nat
                                 /\ digits[i] \in 0..(radix - 1)
                                 /\ q[i - 1] = radix * q[i] + digits[i]

\* What is left of a DWORD after some turns, to a radix of ten or more, is below this.
LeftAfter(k) == CASE k = 0 -> 10000000000 [] k = 1 -> 1000000000 [] k = 2 -> 100000000 [] k = 3 -> 10000000
                  [] k = 4 -> 1000000 [] k = 5 -> 100000 [] k = 6 -> 10000 [] k = 7 -> 1000
                  [] k = 8 -> 100 [] k = 9 -> 10 [] OTHER -> 1

DigitTurn(c, s, i) == TakeDigit(c.radix, s, i)

DigitsHold(c, k, s) ==
    /\ s = [n |-> s.n, digits |-> s.digits] /\ s.digits \in Seq(Nat)
    /\ s.n \in Nat /\ s.n < LeftAfter(k) /\ Len(s.digits) <= k /\ Len(s.digits) <= 10
    /\ \E q : /\ Divides(q, c.n, c.radix, s.digits)
              /\ q[Len(s.digits)] = s.n
              /\ \A i \in 1..Len(s.digits) : q[i - 1] > 0

DigitLoop == INSTANCE LoopTheorems WITH op <- DigitTurn, holds <- DigitsHold

\* The bounds: less than a tenth is left after every turn.
LEMMA LeftShrinks ==
    ASSUME NEW k \in 1..16, NEW n \in Nat, n < LeftAfter(k - 1), NEW r \in 10..16
    PROVE  n \div r < LeftAfter(k)
<1>1. PICK m : m = n \div r
  OBVIOUS
<1>2. m \in Nat /\ r * m <= n
  BY <1>1
<1>3. 10 * m <= n
  <2>1. 10 * m <= r * m
    BY <1>2
  <2>. QED BY <1>2, <2>1
<1>4. m < LeftAfter(k)
  <2>1. k \in {1, 2, 3, 4, 5, 6, 7, 8, 9, 10} \/ k > 10
    OBVIOUS
  <2>. QED BY ONLY <1>2, <1>3, <2>1, k \in 1..16, n \in Nat, n < LeftAfter(k - 1) DEF LeftAfter
<1>. QED BY <1>1, <1>4

\* A turn of the loop takes the last digit.
LEMMA DigitStep ==
    ASSUME NEW c, c.radix \in 10..16, NEW k \in 1..16, NEW y, NEW s, DigitsHold(c, k - 1, s)
    PROVE  DigitsHold(c, k, DigitTurn(c, s, y))
<1>1. PICK r \in 10..16 : r = c.radix
  OBVIOUS
<1>2. PICK n \in Nat : n = s.n /\ n < LeftAfter(k - 1)
  BY DEF DigitsHold
<1>3. PICK ds \in Seq(Nat) : ds = s.digits
  BY DEF DigitsHold
<1>4. PICK l \in Nat : l = Len(ds) /\ l <= k - 1 /\ l <= 10
  BY <1>3, LenProperties DEF DigitsHold
<1>5. PICK q : Divides(q, c.n, r, ds) /\ q[l] = n /\ \A i \in 1..l : q[i - 1] > 0
  BY <1>1, <1>2, <1>3, <1>4 DEF DigitsHold
<1>6. s = [n |-> n, digits |-> ds]
  BY <1>2, <1>3 DEF DigitsHold
<1>7. CASE n = 0
  <2>1. DigitTurn(c, s, y) = s
    BY <1>6, <1>7 DEF DigitTurn, TakeDigit
  <2>2. 0 < LeftAfter(k)
    <3>1. k \in {1, 2, 3, 4, 5, 6, 7, 8, 9, 10} \/ k > 10
      OBVIOUS
    <3>. QED BY ONLY <3>1, k \in 1..16, SMT DEF LeftAfter
  <2>3. s = [n |-> s.n, digits |-> s.digits] /\ s.n = 0 /\ s.digits \in Seq(Nat)
    BY <1>3, <1>6, <1>7
  <2>4. Len(s.digits) = l /\ l <= k /\ l <= 10
    BY <1>3, <1>4
  <2>5. Divides(q, c.n, c.radix, s.digits) /\ q[l] = s.n /\ \A i \in 1..l : q[i - 1] > 0
    BY <1>1, <1>2, <1>3, <1>5
  <2>6. \E p : /\ Divides(p, c.n, c.radix, s.digits) /\ p[Len(s.digits)] = s.n
              /\ \A i \in 1..Len(s.digits) : p[i - 1] > 0
    BY <2>4, <2>5
  <2>7. s.n \in Nat /\ s.n < LeftAfter(k) /\ Len(s.digits) <= k /\ Len(s.digits) <= 10
    BY <2>2, <2>3, <2>4
  <2>8. DigitsHold(c, k, s)
    BY ONLY <2>3, <2>6, <2>7 DEF DigitsHold
  <2>. QED BY <2>1, <2>8
<1>8. CASE n # 0
  <2>1. PICK m : m = n \div r
    OBVIOUS
  <2>2. PICK d : d = n % r
    OBVIOUS
  <2>3. m \in Nat /\ d \in 0..(r - 1) /\ d \in Nat /\ n = r * m + d
    BY <2>1, <2>2
  <2>. DEFINE new == Append(ds, d)
              p == [i \in 0..(l + 1) |-> IF i = l + 1 THEN m ELSE q[i]]
              t == DigitTurn(c, s, y)
  <2>4. t = [n |-> m, digits |-> new]
    BY <1>1, <1>6, <1>8, <2>1, <2>2 DEF DigitTurn, TakeDigit
  <2>5. /\ new \in Seq(Nat) /\ Len(new) = l + 1 /\ new[l + 1] = d
        /\ \A i \in 1..l : new[i] = ds[i]
    BY <1>3, <1>4, <2>3, AppendProperties
  <2>6. m < LeftAfter(k)
    BY <1>2, <2>1, LeftShrinks
  <2>7. l + 1 <= 10 /\ l + 1 <= k
    <3>1. k - 1 < 10
      BY ONLY <1>2, <1>8, k \in 1..16, n \in Nat DEF LeftAfter
    <3>. QED BY <1>4, <3>1
  <2>8. p[l + 1] = m /\ \A i \in 0..l : p[i] = q[i]
    BY <1>4
  <2>. HIDE DEF new, p, t
  <2>9. ASSUME NEW i \in 1..(l + 1)
        PROVE  /\ p[i] \in Nat /\ p[i - 1] \in Nat /\ new[i] \in 0..(r - 1)
               /\ p[i - 1] = r * p[i] + new[i] /\ p[i - 1] > 0
    <3>1. CASE i = l + 1
      <4>1. i - 1 = l /\ l \in 0..l
        BY <1>4, <3>1
      <4>2. p[i] = m /\ p[i - 1] = n /\ new[i] = d
        BY <1>5, <2>5, <2>8, <3>1, <4>1
      <4>. QED BY <1>8, <2>3, <4>2
    <3>2. CASE i # l + 1
      <4>1. i \in 1..l /\ i \in 0..l /\ i - 1 \in 0..l
        BY <1>4, <3>2
      <4>2. p[i] = q[i] /\ p[i - 1] = q[i - 1] /\ new[i] = ds[i]
        BY <2>5, <2>8, <4>1
      <4>3. /\ q[i] \in Nat /\ q[i - 1] \in Nat /\ ds[i] \in 0..(r - 1)
            /\ q[i - 1] = r * q[i] + ds[i] /\ q[i - 1] > 0
        BY <1>4, <1>5, <4>1 DEF Divides
      <4>. QED BY <4>2, <4>3
    <3>. QED BY <3>1, <3>2
  <2>10. p[0] = c.n
    <3>1. 0 \in 0..l
      BY <1>4
    <3>. QED BY <1>5, <2>8, <3>1 DEF Divides
  <2>11. Divides(p, c.n, r, new)
    BY <2>5, <2>9, <2>10 DEF Divides
  <2>12. t.n = m /\ t.digits = new
    BY <2>4
  <2>13. Len(new) = l + 1 /\ p[Len(new)] = m /\ \A i \in 1..Len(new) : p[i - 1] > 0
    BY <2>5, <2>8, <2>9
  <2>14. DigitsHold(c, k, t)
    BY <1>1, <2>3, <2>4, <2>5, <2>6, <2>7, <2>11, <2>12, <2>13 DEF DigitsHold
  <2>. QED BY <2>14 DEF t
<1>. QED BY <1>7, <1>8

\* The loop that takes a DWORD apart ends with its digits, at most ten of them.
LEMMA ReversedDivides ==
    ASSUME NEW n \in DWORD, NEW radix \in 10..16
    PROVE  /\ Reversed(n, radix) \in Seq(Nat) /\ Len(Reversed(n, radix)) <= 10
           /\ \E q : /\ Divides(q, n, radix, Reversed(n, radix))
                     /\ q[Len(Reversed(n, radix))] = 0
                     /\ \A i \in 1..Len(Reversed(n, radix)) : q[i - 1] > 0
<1>1. PICK c : c = [radix |-> radix, n |-> n]
  OBVIOUS
<1>2. c.radix = radix /\ c.n = n
  BY <1>1
<1>. DEFINE turns == [i \in 1..16 |-> i]
            base == [n |-> n, digits |-> <<>>]
            end == DigitLoop!Fold(c, base, turns)
<1>3. DOMAIN turns = 1..16 /\ 16 \in Nat
  OBVIOUS
<1>4. Reversed(n, c.radix) = end.digits
  BY DEF Reversed, DigitLoop!Fold, DigitTurn, FoldLeft, DigitLoop!FoldLeft, MapThenFoldSet,
         DigitLoop!MapThenFoldSet, Max, DigitLoop!Max
<1>5. DigitsHold(c, 0, base)
  <2>. DEFINE q == [i \in 0..0 |-> n]
  <2>1. q[0] = n
    OBVIOUS
  <2>2. Len(<<>>) = 0 /\ <<>> \in Seq(Nat) /\ 1..0 = {}
    OBVIOUS
  <2>. HIDE DEF q
  <2>3. Divides(q, c.n, c.radix, <<>>)
    BY <1>2, <2>1, <2>2 DEF Divides
  <2>4. n \in Nat /\ n < LeftAfter(0)
    BY DEF DWORD, LeftAfter
  <2>. QED BY <2>1, <2>2, <2>3, <2>4 DEF DigitsHold
<1>6. \A k \in 1..16 : \A x : DigitsHold(c, k - 1, x) => DigitsHold(c, k, DigitTurn(c, x, turns[k]))
  BY <1>2, DigitStep
<1>. HIDE DEF base, turns
<1>7. DigitsHold(c, 16, end)
  BY <1>3, <1>5, <1>6, DigitLoop!FoldInvariant
<1>. HIDE DEF end
<1>8. PICK q : /\ Divides(q, n, radix, end.digits) /\ q[Len(end.digits)] = end.n
               /\ \A i \in 1..Len(end.digits) : q[i - 1] > 0
  BY <1>2, <1>7 DEF DigitsHold
<1>9. end.n = 0
  BY <1>7 DEF DigitsHold, LeftAfter
<1>10. end.digits \in Seq(Nat) /\ Len(end.digits) <= 10
  BY <1>7 DEF DigitsHold
<1>. QED BY <1>2, <1>4, <1>8, <1>9, <1>10

\* The temporary text of rt_dwtos, last digit first.
Temp(n, radix, fill) ==
    LET digits == IF n = 0 THEN <<0>> ELSE Reversed(n, radix) IN digits \o Zeros(fill - Len(digits))

\* The zeros in front of a number.
LEMMA ZerosAre ==
    ASSUME NEW n \in Int
    PROVE  /\ Zeros(n) \in Seq(Nat) /\ Len(Zeros(n)) = (IF n > 0 THEN n ELSE 0)
           /\ \A i \in 1..Len(Zeros(n)) : Zeros(n)[i] = 0
<1>1. CASE n > 0
  <2>. DEFINE z == [i \in 1..n |-> 0]
  <2>1. z \in Seq(Nat) /\ Len(z) = n /\ \A i \in 1..n : z[i] = 0
    BY <1>1
  <2>. QED BY <1>1, <2>1 DEF Zeros
<1>2. CASE ~(n > 0)
  BY <1>2 DEF Zeros
<1>. QED BY <1>1, <1>2

\* The temporary text has the digits and then zeros up to the width, and the last of its digits is
\* not a zero unless the number or the width asks for it.
TempHolds(n, radix, fill, t) ==
    /\ t \in Seq(Nat) /\ Len(t) \in 1..15 /\ Len(t) >= fill
    /\ Len(t) > fill /\ Len(t) > 1 => t[Len(t)] # 0
    /\ \E q : /\ Divides(q, n, radix, t) /\ q[Len(t)] = 0
              /\ Len(t) > fill => \A i \in 2..Len(t) : q[i - 1] > 0

\* The text that rt_dwtos builds backwards has every digit of the number.
LEMMA TempDivides ==
    ASSUME NEW n \in DWORD, NEW radix \in 10..16, NEW fill \in 0..15
    PROVE  TempHolds(n, radix, fill, Temp(n, radix, fill))
<1>1. \E ds \in Seq(Nat) : \E q :
         /\ ds = (IF n = 0 THEN <<0>> ELSE Reversed(n, radix)) /\ Len(ds) \in 1..10
         /\ Divides(q, n, radix, ds) /\ q[Len(ds)] = 0 /\ \A i \in 2..Len(ds) : q[i - 1] > 0
  <2>1. CASE n = 0
    <3>. DEFINE p == [i \in 0..1 |-> 0]
                ds == <<0>>
    <3>1. ds \in Seq(Nat) /\ Len(ds) = 1 /\ ds[1] = 0 /\ p[0] = 0 /\ p[1] = 0
      OBVIOUS
    <3>. HIDE DEF p, ds
    <3>2. Divides(p, n, radix, ds) /\ p[Len(ds)] = 0
      BY <2>1, <3>1 DEF Divides
    <3>3. /\ ds = (IF n = 0 THEN <<0>> ELSE Reversed(n, radix)) /\ Len(ds) \in 1..10
          /\ \A i \in 2..Len(ds) : p[i - 1] > 0
      BY <2>1, <3>1 DEF ds
    <3>. QED BY <3>1, <3>2, <3>3, Zenon
  <2>2. CASE n # 0
    <3>. DEFINE ds == Reversed(n, radix)
    <3>1. PICK p : /\ Divides(p, n, radix, ds) /\ p[Len(ds)] = 0
                   /\ \A i \in 1..Len(ds) : p[i - 1] > 0
      BY ReversedDivides
    <3>2. ds \in Seq(Nat) /\ Len(ds) <= 10
      BY ReversedDivides
    <3>. HIDE DEF ds
    <3>3. Len(ds) \in Nat /\ Len(ds) # 0
      BY <2>2, <3>1, <3>2, LenProperties DEF Divides
    <3>4. ds = (IF n = 0 THEN <<0>> ELSE Reversed(n, radix)) /\ Len(ds) \in 1..10
      <4>1. Len(ds) \in 1..10
        <5>1. \A k \in Nat : k <= 10 /\ k # 0 => k \in 1..10
          OBVIOUS
        <5>. QED BY <3>2, <3>3, <5>1, Zenon
      <4>2. ds = (IF n = 0 THEN <<0>> ELSE Reversed(n, radix))
        BY <2>2 DEF ds
      <4>. QED BY <4>1, <4>2
    <3>5. \A i \in 2..Len(ds) : p[i - 1] > 0
      BY <3>1, <3>3
    <3>. QED BY <3>1, <3>2, <3>4, <3>5, Zenon
  <2>. QED BY <2>1, <2>2
<1>2. PICK ds \in Seq(Nat) : \E q :
         /\ ds = (IF n = 0 THEN <<0>> ELSE Reversed(n, radix)) /\ Len(ds) \in 1..10
         /\ Divides(q, n, radix, ds) /\ q[Len(ds)] = 0 /\ \A i \in 2..Len(ds) : q[i - 1] > 0
  BY <1>1
<1>3. PICK q :
         /\ ds = (IF n = 0 THEN <<0>> ELSE Reversed(n, radix)) /\ Len(ds) \in 1..10
         /\ Divides(q, n, radix, ds) /\ q[Len(ds)] = 0 /\ \A i \in 2..Len(ds) : q[i - 1] > 0
  BY <1>2
<1>4. PICK m \in 1..10 : m = Len(ds)
  BY <1>3
<1>5. PICK zs \in Seq(Nat) : zs = Zeros(fill - m)
  BY ZerosAre
<1>6. PICK z \in Nat : /\ z = Len(zs) /\ z = (IF fill > m THEN fill - m ELSE 0)
                       /\ \A i \in 1..z : zs[i] = 0
  <2>1. fill - m \in Int
    OBVIOUS
  <2>2. Len(zs) = (IF fill - m > 0 THEN fill - m ELSE 0) /\ \A i \in 1..Len(zs) : zs[i] = 0
    BY <1>5, <2>1, ZerosAre
  <2>3. Len(zs) = (IF fill > m THEN fill - m ELSE 0) /\ Len(zs) \in Nat
    BY <2>2
  <2>. QED BY <2>2, <2>3
<1>7. PICK t \in Seq(Nat) : t = ds \o zs
  BY ConcatProperties, Zenon
<1>8. /\ Len(t) = m + z
      /\ \A i \in 1..(m + z) : t[i] = IF i <= m THEN ds[i] ELSE zs[i - m]
  <2>1. /\ Len(ds \o zs) = Len(ds) + Len(zs)
        /\ \A i \in 1..(Len(ds) + Len(zs)) :
             (ds \o zs)[i] = IF i <= Len(ds) THEN ds[i] ELSE zs[i - Len(ds)]
    BY ConcatProperties, Zenon
  <2>. QED BY <1>4, <1>6, <1>7, <2>1
<1>9. Temp(n, radix, fill) = t
  BY <1>3, <1>4, <1>5, <1>7 DEF Temp
<1>. DEFINE p == [i \in 0..(m + z) |-> IF i <= m THEN q[i] ELSE 0]
<1>10. p[0] = q[0] /\ p[m + z] = 0 /\ q[m] = 0
  <2>1. q[m] = 0
    BY <1>3, <1>4
  <2>2. 0 \in 0..(m + z) /\ m + z \in 0..(m + z) /\ 0 <= m /\ (m + z <= m => m + z = m)
    BY <1>6
  <2>. QED BY <2>1, <2>2
<1>11. ASSUME NEW i \in 1..(m + z)
      PROVE  /\ p[i] \in Nat /\ p[i - 1] \in Nat /\ t[i] \in 0..(radix - 1)
             /\ p[i - 1] = radix * p[i] + t[i]
  <2>1. CASE i <= m
    <3>1. p[i] = q[i] /\ p[i - 1] = q[i - 1] /\ t[i] = ds[i] /\ i \in 1..m
      BY <1>6, <1>8, <2>1
    <3>2. /\ q[i] \in Nat /\ q[i - 1] \in Nat /\ ds[i] \in 0..(radix - 1)
          /\ q[i - 1] = radix * q[i] + ds[i]
      BY <1>3, <1>4, <3>1 DEF Divides
    <3>. QED BY <3>1, <3>2
  <2>2. CASE ~(i <= m)
    <3>1. p[i] = 0 /\ p[i - 1] = 0
      BY <1>6, <1>10, <2>2
    <3>2. t[i] = 0
      <4>1. i - m \in 1..z
        BY <1>6, <2>2
      <4>. QED BY <1>6, <1>8, <2>2, <4>1
    <3>. QED BY <3>1, <3>2
  <2>. QED BY <2>1, <2>2
<1>12. m + z > fill => z = 0
  BY <1>6
<1>13. ASSUME z = 0, NEW i \in 2..m PROVE p[i - 1] > 0
  BY <1>3, <1>4, <1>13
<1>. HIDE DEF p
<1>14. Divides(p, n, radix, t)
  BY <1>3, <1>8, <1>10, <1>11 DEF Divides
<1>15. m + z > fill /\ m + z > 1 => t[m + z] # 0
  <2>. SUFFICES ASSUME m + z > fill, m + z > 1 PROVE t[m] # 0
    BY <1>6, <1>12
  <2>1. m \in 2..m /\ p[m - 1] > 0 /\ z = 0
    BY <1>6, <1>12, <1>13
  <2>2. p[m - 1] = radix * p[m] + t[m] /\ p[m] = 0 /\ t[m] \in Nat
    BY <1>6, <1>10, <1>11, <2>1
  <2>. QED BY <2>1, <2>2
<1>16. m + z \in 1..15 /\ m + z >= fill
  BY <1>6
<1>17. Len(t) > fill => \A i \in 2..Len(t) : p[i - 1] > 0
  BY <1>6, <1>8, <1>12, <1>13
<1>18. \E r : /\ Divides(r, n, radix, t) /\ r[Len(t)] = 0
              /\ Len(t) > fill => \A i \in 2..Len(t) : r[i - 1] > 0
  BY <1>8, <1>10, <1>14, <1>17
<1>19. Len(t) \in 1..15 /\ Len(t) >= fill /\ (Len(t) > fill /\ Len(t) > 1 => t[Len(t)] # 0)
  BY <1>8, <1>15, <1>16
<1>. QED BY <1>9, <1>18, <1>19 DEF TempHolds

\* Reading a text takes in what its digits were taken from, from the first one on.
ValueTurn(c, n, d) == n * c.radix + d
LeftOf(c, k, x) == x = c.q[c.l - k]

\* rt_stodw comes to less once it has met a letter.
ReadTurn(c, n, d) == AddDigit(c.radix, n, d)
ShortOf(c, k, x) ==
    /\ x \in Int /\ x <= c.q[c.l - k]
    /\ x = c.q[c.l - k] <=> \A j \in 1..k : c.text[j] < 10

ValueLoop == INSTANCE LoopTheorems WITH op <- ValueTurn, holds <- LeftOf
ReadLoop == INSTANCE LoopTheorems WITH op <- ReadTurn, holds <- ShortOf

\* A turn makes the most of what has been read, or stays behind for ever.
LEMMA ShortStep ==
    ASSUME NEW radix \in 10..16, NEW d \in 0..(radix - 1), NEW left \in Nat, NEW x \in Int, x <= left
    PROVE  /\ AddDigit(radix, x, d) \in Int /\ AddDigit(radix, x, d) <= radix * left + d
           /\ AddDigit(radix, x, d) = radix * left + d <=> x = left /\ d < 10
<1>. DEFINE e == IF d < 10 THEN d ELSE d - 10
<1>1. AddDigit(radix, x, d) = x * radix + e
  BY DEF AddDigit
<1>2. d \in Nat /\ d < radix /\ radix \in Nat /\ e \in Nat /\ e <= d /\ (e = d <=> d < 10)
  OBVIOUS
<1>3. PICK y \in Nat : y = left - x
  OBVIOUS
<1>4. radix * y \in Nat /\ (y # 0 => radix * y >= radix)
  <2>1. radix \in {10, 11, 12, 13, 14, 15, 16}
    OBVIOUS
  <2>. QED BY <2>1
<1>5. x * radix = radix * left - radix * y
  <2>1. x = left - y
    BY <1>3
  <2>2. radix \in {10, 11, 12, 13, 14, 15, 16}
    OBVIOUS
  <2>. QED BY <2>1, <2>2
<1>6. radix * left \in Int /\ (y = 0 <=> x = left) /\ (y = 0 => radix * y = 0)
  BY <1>2, <1>3
<1>. HIDE DEF e
<1>7. PICK z \in Nat, w \in Int : z = radix * y /\ w = radix * left
  BY <1>4, <1>6
<1>8. /\ w - z + e \in Int /\ w - z + e <= w + d
      /\ w - z + e = w + d <=> y = 0 /\ d < 10
  BY <1>2, <1>4, <1>6, <1>7
<1>. QED BY <1>1, <1>5, <1>6, <1>7, <1>8

\* The turns of both loops undo a division.
LEMMA ReadStep ==
    ASSUME NEW l \in Nat, NEW t \in Seq(Nat), Len(t) = l, NEW radix \in 10..16, NEW n,
           NEW q, Divides(q, n, radix, t),
           NEW c, c = [radix |-> radix, l |-> l, q |-> q, text |-> Reverse(t)], NEW k \in 1..l, NEW x
    PROVE  /\ LeftOf(c, k - 1, x) => LeftOf(c, k, ValueTurn(c, x, Reverse(t)[k]))
           /\ ShortOf(c, k - 1, x) => ShortOf(c, k, ReadTurn(c, x, Reverse(t)[k]))
<1>1. c.radix = radix /\ c.l = l /\ c.q = q /\ c.text = Reverse(t)
  OBVIOUS
<1>2. PICK j \in 1..l : j = l - k + 1 /\ l - (k - 1) = j /\ l - k = j - 1
  OBVIOUS
<1>3. PICK d : d = t[j]
  OBVIOUS
<1>4. Reverse(t)[k] = d
  BY <1>2, <1>3 DEF Reverse
<1>5. /\ q[j] \in Nat /\ q[j - 1] \in Nat /\ d \in 0..(radix - 1)
      /\ q[j - 1] = radix * q[j] + d
  BY <1>2, <1>3 DEF Divides
<1>6. ASSUME LeftOf(c, k - 1, x) PROVE LeftOf(c, k, ValueTurn(c, x, d))
  <2>1. x = q[j]
    BY <1>1, <1>2, <1>6 DEF LeftOf
  <2>2. x * radix + d = q[j - 1]
    BY <1>5, <2>1
  <2>. QED BY <1>1, <1>2, <2>2 DEF LeftOf, ValueTurn
<1>7. ASSUME ShortOf(c, k - 1, x) PROVE ShortOf(c, k, ReadTurn(c, x, d))
  <2>1. x \in Int /\ x <= q[j] /\ (x = q[j] <=> \A i \in 1..(k - 1) : c.text[i] < 10)
    BY <1>1, <1>2, <1>7 DEF ShortOf
  <2>. DEFINE y == AddDigit(radix, x, d)
  <2>2. PICK left : left = q[j] /\ left \in Nat /\ x <= left
    BY <1>5, <2>1
  <2>5. y \in Int /\ y <= radix * left + d /\ (y = radix * left + d <=> x = left /\ d < 10)
    <3>1. d \in 0..(radix - 1) /\ x \in Int
      BY <1>5, <2>1
    <3>2. radix \in 10..16 /\ left \in Nat /\ x <= left
      BY <2>2
    <3>. QED BY ONLY <3>1, <3>2, ShortStep
  <2>. HIDE DEF y
  <2>6. q[j - 1] = radix * left + d
    BY <1>5, <2>2, Zenon
  <2>7. y \in Int /\ y <= q[j - 1] /\ (y = q[j - 1] <=> x = q[j] /\ d < 10)
    BY <2>2, <2>5, <2>6, Zenon
  <2>3. (\A i \in 1..k : c.text[i] < 10) <=> (\A i \in 1..(k - 1) : c.text[i] < 10) /\ d < 10
    <3>1. 1..k = 1..(k - 1) \cup {k} /\ c.text[k] = d
      BY <1>1, <1>4
    <3>. QED BY <3>1, Zenon
  <2>8. c.q[c.l - k] = q[j - 1] /\ ReadTurn(c, x, d) = y
    BY <1>1, <1>2 DEF ReadTurn, y
  <2>. QED BY <2>1, <2>7, <2>3, <2>8, Zenon DEF ShortOf
<1>. QED BY <1>4, <1>6, <1>7

\* A text reads back as the number whose digits it is written with; rt_stodw's loop comes to that
\* number exactly if there is no letter.
LEMMA ReverseReads ==
    ASSUME NEW t \in Seq(Nat), NEW radix \in 10..16, NEW n,
           NEW q, Divides(q, n, radix, t), q[Len(t)] = 0
    PROVE  /\ Value(Reverse(t), radix) = n
           /\ Digits2Number(Reverse(t), radix) = n <=> \A i \in 1..Len(t) : Reverse(t)[i] < 10
<1>1. PICK l \in Nat : l = Len(t)
  BY LenProperties
<1>2. PICK c : c = [radix |-> radix, l |-> l, q |-> q, text |-> Reverse(t)]
  OBVIOUS
<1>3. c.radix = radix /\ c.l = l /\ c.q = q /\ c.text = Reverse(t)
  BY <1>2
<1>. DEFINE text == Reverse(t)
<1>4. DOMAIN text = 1..l
  BY <1>1 DEF Reverse
<1>5. LeftOf(c, 0, 0) /\ ShortOf(c, 0, 0)
  BY <1>1, <1>3 DEF LeftOf, ShortOf
<1>6. /\ Value(text, c.radix) = ValueLoop!Fold(c, 0, text)
      /\ Digits2Number(text, c.radix) = ReadLoop!Fold(c, 0, text)
  <2>. HIDE DEF text
  <2>1. Value(text, c.radix) = ValueLoop!Fold(c, 0, text)
    BY DEF Value, ValueLoop!Fold, ValueTurn, FoldLeft, ValueLoop!FoldLeft, MapThenFoldSet,
           ValueLoop!MapThenFoldSet, Max, ValueLoop!Max
  <2>2. Digits2Number(text, c.radix) = ReadLoop!Fold(c, 0, text)
    BY DEF Digits2Number, ReadLoop!Fold, ReadTurn, FoldLeft, ReadLoop!FoldLeft, MapThenFoldSet,
           ReadLoop!MapThenFoldSet, Max, ReadLoop!Max
  <2>. QED BY <2>1, <2>2
<1>7. /\ \A k \in 1..l : \A x : LeftOf(c, k - 1, x) => LeftOf(c, k, ValueTurn(c, x, text[k]))
      /\ \A k \in 1..l : \A x : ShortOf(c, k - 1, x) => ShortOf(c, k, ReadTurn(c, x, text[k]))
  BY <1>1, <1>2, ReadStep
<1>. HIDE DEF text
<1>8. LeftOf(c, l, ValueLoop!Fold(c, 0, text))
  BY <1>4, <1>5, <1>7, ValueLoop!FoldInvariant
<1>9. ShortOf(c, l, ReadLoop!Fold(c, 0, text))
  BY <1>4, <1>5, <1>7, ReadLoop!FoldInvariant
<1>10. c.q[c.l - l] = n
  BY <1>3 DEF Divides
<1>11. Value(text, radix) = n /\ (Digits2Number(text, radix) = n <=> \A i \in 1..l : text[i] < 10)
  BY <1>3, <1>6, <1>8, <1>9, <1>10 DEF LeftOf, ShortOf, text
<1>. QED BY <1>1, <1>11 DEF text

\* A reversed text has the same characters, from the last one on.
LEMMA ReverseIs ==
    ASSUME NEW t \in Seq(Nat)
    PROVE  /\ Reverse(t) \in Seq(Nat) /\ Len(Reverse(t)) = Len(t)
           /\ \A i \in 1..Len(t) : Reverse(t)[i] = t[Len(t) - i + 1]
<1>1. PICK l \in Nat : l = Len(t) /\ \A i \in 1..l : t[i] \in Nat
  BY LenProperties, ElementOfSeq
<1>. DEFINE r == [i \in 1..l |-> t[(l - i) + 1]]
<1>2. \A i \in 1..l : (l - i) + 1 \in 1..l
  BY <1>1
<1>3. r \in [1..l -> Nat]
  BY <1>1, <1>2
<1>4. r \in Seq(Nat) /\ Len(r) = l
  BY <1>1, <1>3
<1>5. Reverse(t) = r
  BY <1>1 DEF Reverse
<1>. QED BY <1>1, <1>4, <1>5

\* rt_dwtos writes the digits when they and the NUL fit.
LEMMA DwtosIs ==
    ASSUME NEW n, NEW radix \in 10..16, NEW fill \in Nat, NEW out \in Int, fill < out
    PROVE  rt_dwtos(n, radix, fill, out)
             = IF Len(Temp(n, radix, fill)) < out THEN Reverse(Temp(n, radix, fill)) ELSE <<>>
BY DEF rt_dwtos, Temp

\* The most characters of a text that are all of S.
Taken(text, S, n) ==
    LET valid == {i \in 0..n : \A j \in 1..i : text[j] \in S}
    IN  CHOOSE i \in valid : \A j \in valid : j <= i

\* The characters before the first one that is no digit.
LEMMA TakenIs ==
    ASSUME NEW text, NEW S, NEW n \in Nat, NEW l \in 0..n, \A i \in 1..l : text[i] \in S,
           l < n => text[l + 1] \notin S
    PROVE  Taken(text, S, n) = l
<1>. DEFINE valid == {i \in 0..n : \A j \in 1..i : text[j] \in S}
<1>1. valid = 0..l
  <2>1. ASSUME NEW i \in 0..l PROVE i \in valid
    OBVIOUS
  <2>2. ASSUME NEW i \in valid PROVE i \in 0..l
    <3>. SUFFICES ASSUME i > l PROVE FALSE
      OBVIOUS
    <3>. QED OBVIOUS
  <2>. HIDE DEF valid
  <2>. QED BY <2>1, <2>2
<1>. HIDE DEF valid
<1>2. l \in valid /\ \A i \in valid : (\A j \in valid : j <= i) <=> i = l
  BY <1>1
<1>3. (CHOOSE i \in valid : \A j \in valid : j <= i) = l
  BY <1>2
<1>. QED BY <1>3 DEF valid, Taken

\* A text without a character that is no digit is read to its end.
LEMMA StodwIs ==
    ASSUME NEW text \in Seq(Nat), Len(text) # 0, NEW hex \in BOOLEAN,
           \A i \in 1..Len(text) : text[i] \in (IF hex THEN 0..35 ELSE 0..9)
    PROVE  rt_stodw(text, hex) = [length |-> Len(text) + (IF hex THEN 2 ELSE 0),
                                  value |-> Digits2Number(text, IF hex THEN 16 ELSE 10)]
<1>1. PICK l \in Nat : l = Len(text) /\ l # 0 /\ l \in 0..l /\ SubSeq(text, 1, l) = text
  BY LenProperties
<1>. DEFINE valid == {i \in 0..Len(text) : \A j \in 1..i : text[j] \in (IF hex THEN 0..35 ELSE 0..9)}
            taken == CHOOSE i \in valid : \A j \in valid : j <= i
<1>3. taken = l
  <2>1. Len(text) \in Nat /\ l \in 0..Len(text) /\ ~(l < Len(text))
    BY <1>1
  <2>2. \A i \in 1..l : text[i] \in (IF hex THEN 0..35 ELSE 0..9)
    BY <1>1
  <2>3. l < Len(text) => text[l + 1] \notin (IF hex THEN 0..35 ELSE 0..9)
    BY <2>1
  <2>4. PICK S : S = IF hex THEN 0..35 ELSE 0..9
    OBVIOUS
  <2>5. Taken(text, S, Len(text)) = l
    BY <2>1, <2>2, <2>3, <2>4, TakenIs
  <2>6. taken = Taken(text, IF hex THEN 0..35 ELSE 0..9, Len(text))
    BY DEF Taken
  <2>. HIDE DEF taken
  <2>. QED BY <2>4, <2>5, <2>6, Zenon
<1>4. rt_stodw(text, hex)
        = [length |-> taken + (IF hex THEN 2 ELSE 0),
           value |-> IF taken + (IF hex THEN 2 ELSE 0) = 0 THEN Unset
                     ELSE IF taken < Len(text)
                       THEN Digits2Number(SubSeq(text, 1, taken), IF hex THEN 16 ELSE 10) * (IF hex THEN 16 ELSE 10)
                       ELSE Digits2Number(SubSeq(text, 1, taken), IF hex THEN 16 ELSE 10)]
  BY DEF rt_stodw
<1>. HIDE DEF taken
<1>5. taken + (IF hex THEN 2 ELSE 0) # 0 /\ ~(taken < Len(text))
  BY <1>1, <1>3
<1>. QED BY <1>1, <1>3, <1>4, <1>5, Zenon

\* A decimal text before another character is taken tenfold.
LEMMA StodwMore ==
    ASSUME NEW text \in Seq(Nat), Len(text) # 0, \A i \in 1..Len(text) : text[i] \in 0..9
    PROVE  rt_stodw(Append(text, Blank), FALSE) = [length |-> Len(text), value |-> Digits2Number(text, 10) * 10]
<1>1. PICK l \in Nat : l = Len(text) /\ l # 0
  BY LenProperties
<1>2. PICK more : more = Append(text, Blank)
  OBVIOUS
<1>3. text \in Seq(Int) /\ Blank \in Int
  BY DEF Blank
<1>4. Len(more) = l + 1 /\ (\A i \in 1..l : more[i] = text[i]) /\ more[l + 1] = Blank
  BY <1>1, <1>2, <1>3, AppendProperties
<1>5. SubSeq(more, 1, l) = text
  BY <1>1, <1>2, <1>3
<1>. DEFINE valid == {i \in 0..Len(more) : \A j \in 1..i : more[j] \in (IF FALSE THEN 0..35 ELSE 0..9)}
            taken == CHOOSE i \in valid : \A j \in valid : j <= i
<1>6. taken = l
  <2>1. Len(more) \in Nat /\ l \in 0..Len(more)
    BY <1>1, <1>4
  <2>2. \A i \in 1..l : more[i] \in (IF FALSE THEN 0..35 ELSE 0..9)
    BY <1>1, <1>4
  <2>3. more[l + 1] \notin (IF FALSE THEN 0..35 ELSE 0..9)
    BY <1>4 DEF Blank
  <2>4. PICK S : S = IF FALSE THEN 0..35 ELSE 0..9
    OBVIOUS
  <2>5. Taken(more, S, Len(more)) = l
    BY <1>4, <2>1, <2>2, <2>3, <2>4, TakenIs
  <2>6. taken = Taken(more, IF FALSE THEN 0..35 ELSE 0..9, Len(more))
    BY DEF Taken
  <2>. HIDE DEF taken
  <2>. QED BY <2>4, <2>5, <2>6, Zenon
<1>7. rt_stodw(more, FALSE)
        = [length |-> taken + (IF FALSE THEN 2 ELSE 0),
           value |-> IF taken + (IF FALSE THEN 2 ELSE 0) = 0 THEN Unset
                     ELSE IF taken < Len(more)
                       THEN Digits2Number(SubSeq(more, 1, taken), IF FALSE THEN 16 ELSE 10)
                              * (IF FALSE THEN 16 ELSE 10)
                       ELSE Digits2Number(SubSeq(more, 1, taken), IF FALSE THEN 16 ELSE 10)]
  BY DEF rt_stodw
<1>. HIDE DEF taken
<1>8. taken + (IF FALSE THEN 2 ELSE 0) = l /\ l # 0 /\ taken < Len(more)
  BY <1>1, <1>4, <1>6
<1>10. (IF FALSE THEN 16 ELSE 10) = 10
  OBVIOUS
<1>9. rt_stodw(more, FALSE) = [length |-> l, value |-> Digits2Number(text, 10) * 10]
  BY <1>5, <1>6, <1>7, <1>8, <1>10, Zenon
<1>. QED BY <1>1, <1>2, <1>9

\* The greater of two numbers.
LEMMA MaxOf ==
    ASSUME NEW a \in Nat, NEW b \in Nat
    PROVE  Max({a, b}) = IF a > b THEN a ELSE b
<1>. DEFINE m == IF a > b THEN a ELSE b
            P(x) == x \in {a, b} /\ \A y \in {a, b} : x >= y
<1>1. P(m)
  OBVIOUS
<1>2. \A x : P(x) => x = m
  OBVIOUS
<1>3. P(CHOOSE x : P(x))
  BY <1>1, Zenon
<1>4. Max({a, b}) = CHOOSE x : P(x)
  BY DEF Max
<1>. QED BY <1>2, <1>3, <1>4

\* rt_dwtos and rt_stodw: a DWORD is written with its digits, padded to the width and no further, or
\* not at all.  What is written in radix ten is read back if nothing follows, and as the tenfold
\* number if another character does; what is written in radix 16 is read back exactly if it has no
\* letter.
THEOREM DwordsWritten ==
    ASSUME NEW n \in DWORD, NEW radix \in 10..16, NEW fill \in 0..8
    PROVE  LET t == rt_dwtos(n, radix, fill, 16)
           IN  /\ Value(t, radix) = n
               /\ Len(t) >= fill /\ (Len(t) > Max({fill, 1}) => t[1] # 0)
               /\ \A out \in 9..16 : rt_dwtos(n, radix, fill, out) = IF Len(t) < out THEN t ELSE <<>>
               /\ radix = 10 => /\ rt_stodw(t, FALSE) = [length |-> Len(t), value |-> n]
                                /\ 10 * n \in DWORD =>
                                     rt_stodw(Append(t, Blank), FALSE) = [length |-> Len(t), value |-> 10 * n]
               /\ radix = 16 => /\ rt_stodw(t, TRUE).length = Len(t) + 2
                                /\ rt_stodw(t, TRUE).value = n <=> ToSet(t) \subseteq 0..9
<1>1. fill \in 0..15 /\ fill \in Nat /\ \A out \in 9..16 : out \in Int /\ fill < out
  OBVIOUS
<1>2. PICK u : u = Temp(n, radix, fill)
  OBVIOUS
<1>3. /\ u \in Seq(Nat) /\ Len(u) \in 1..15 /\ Len(u) >= fill
      /\ Len(u) > fill /\ Len(u) > 1 => u[Len(u)] # 0
  BY <1>1, <1>2, TempDivides DEF TempHolds
<1>4. PICK q : Divides(q, n, radix, u) /\ q[Len(u)] = 0
  <2>1. TempHolds(n, radix, fill, u)
    BY <1>1, <1>2, TempDivides
  <2>. QED BY <2>1 DEF TempHolds
<1>5. PICK t : t = Reverse(u)
  OBVIOUS
<1>6. \A out \in 9..16 : rt_dwtos(n, radix, fill, out) = IF Len(u) < out THEN t ELSE <<>>
  BY <1>1, <1>2, <1>5, DwtosIs
<1>7. rt_dwtos(n, radix, fill, 16) = t
  <2>1. 16 \in 9..16 /\ \A k \in 1..15 : k < 16
    OBVIOUS
  <2>2. Len(u) < 16
    BY <1>3, <2>1, Zenon
  <2>. QED BY <1>6, <2>1, <2>2, Zenon
<1>8. /\ t \in Seq(Nat) /\ Len(t) = Len(u) /\ Len(t) # 0
      /\ \A i \in 1..Len(u) : t[i] = u[Len(u) - i + 1]
  <2>1. /\ t \in Seq(Nat) /\ Len(t) = Len(u)
        /\ \A i \in 1..Len(u) : t[i] = u[Len(u) - i + 1]
    BY <1>3, <1>5, ReverseIs
  <2>2. Len(u) # 0
    <3>1. Len(u) \in 1..15 /\ 0 \notin 1..15
      BY <1>3
    <3>. QED BY <3>1, Zenon
  <2>. QED BY <2>1, <2>2, Zenon
<1>9. Value(t, radix) = n /\ (Digits2Number(t, radix) = n <=> \A i \in 1..Len(t) : t[i] < 10)
  BY <1>3, <1>4, <1>5, <1>8, ReverseReads
<1>10. Len(t) > Max({fill, 1}) => t[1] # 0
  <2>1. Max({fill, 1}) = IF fill > 1 THEN fill ELSE 1
    BY MaxOf
  <2>2. t[1] = u[Len(u)]
    BY <1>3, <1>8
  <2>. QED BY <1>3, <1>8, <2>1, <2>2
<1>11. \A out \in 9..16 : rt_dwtos(n, radix, fill, out) = IF Len(t) < out THEN t ELSE <<>>
  BY <1>6, <1>8
<1>12. \A i \in 1..Len(t) : t[i] \in 0..(radix - 1)
  <2>. SUFFICES ASSUME NEW i \in 1..Len(t) PROVE t[i] \in 0..(radix - 1)
    OBVIOUS
  <2>1. Len(u) - i + 1 \in 1..Len(u) /\ t[i] = u[Len(u) - i + 1]
    BY <1>3, <1>8
  <2>. QED BY <1>4, <2>1 DEF Divides
<1>13. ASSUME radix = 10
       PROVE  /\ rt_stodw(t, FALSE) = [length |-> Len(t), value |-> n]
              /\ rt_stodw(Append(t, Blank), FALSE) = [length |-> Len(t), value |-> 10 * n]
  <2>1. \A i \in 1..Len(t) : t[i] \in 0..9 /\ t[i] < 10
    BY <1>12, <1>13
  <2>2. Digits2Number(t, 10) = n
    BY <1>9, <1>13, <2>1
  <2>3. rt_stodw(t, FALSE) = [length |-> Len(t), value |-> n]
    <3>1. rt_stodw(t, FALSE) = [length |-> Len(t) + 0, value |-> Digits2Number(t, 10)]
      BY <1>8, <2>1, StodwIs
    <3>2. Len(t) + 0 = Len(t)
      BY <1>8, LenProperties
    <3>. QED BY <2>2, <3>1, <3>2
  <2>4. rt_stodw(Append(t, Blank), FALSE) = [length |-> Len(t), value |-> n * 10]
    BY <1>8, <2>1, <2>2, StodwMore
  <2>5. n * 10 = 10 * n
    BY n \in DWORD DEF DWORD
  <2>. QED BY <2>3, <2>4, <2>5
<1>14. ASSUME radix = 16
       PROVE  /\ rt_stodw(t, TRUE).length = Len(t) + 2
              /\ rt_stodw(t, TRUE).value = n <=> ToSet(t) \subseteq 0..9
  <2>1. \A i \in 1..Len(t) : t[i] \in 0..35 /\ t[i] \in Nat
    BY <1>12, <1>14
  <2>2. rt_stodw(t, TRUE) = [length |-> Len(t) + 2, value |-> Digits2Number(t, 16)]
    BY <1>8, <2>1, StodwIs
  <2>3. ToSet(t) \subseteq 0..9 <=> \A i \in 1..Len(t) : t[i] < 10
    <3>1. DOMAIN t = 1..Len(t)
      BY <1>8, LenProperties
    <3>2. \A i \in 1..Len(t) : t[i] < 10 <=> t[i] \in 0..9
      BY <2>1
    <3>. QED BY <3>1, <3>2, Zenon DEF ToSet
  <2>4. rt_stodw(t, TRUE).length = Len(t) + 2 /\ rt_stodw(t, TRUE).value = Digits2Number(t, 16)
    <3>1. PICK s : s = rt_stodw(t, TRUE)
      OBVIOUS
    <3>2. PICK a, b : a = Len(t) + 2 /\ b = Digits2Number(t, 16)
      OBVIOUS
    <3>3. s = [length |-> a, value |-> b]
      BY <2>2, <3>1, <3>2, Zenon
    <3>4. s.length = a /\ s.value = b
      BY <3>3
    <3>. QED BY <3>1, <3>2, <3>4, Zenon
  <2>5. Digits2Number(t, 16) = n <=> \A i \in 1..Len(t) : t[i] < 10
    BY <1>9, <1>14
  <2>. QED BY <2>3, <2>4, <2>5, Zenon
<1>. QED BY <1>3, <1>7, <1>8, <1>9, <1>10, <1>11, <1>13, <1>14

\* What a byte is.
LEMMA UpTo255 ==
    ASSUME NEW b \in 0..255
    PROVE  b \in Nat /\ b <= 255
<1>1. ASSUME NEW last \in Nat, NEW x \in 0..last PROVE x \in Nat /\ x <= last
  OBVIOUS
<1>2. 255 \in Nat
  OBVIOUS
<1>. QED BY <1>1, <1>2, Zenon

\* Two divisions of b by 16, and what they leave.
TwoTurns(b, q1, q2, u1, u2) ==
    /\ b \in Nat /\ b <= 255 /\ q1 \in Nat /\ q2 \in Nat /\ u1 \in 0..15 /\ u2 \in 0..15
    /\ b = 16 * q1 + u1 /\ q1 = 16 * q2 + u2

\* Two digits of a byte leave nothing.
LEMMA TwoDigits ==
    ASSUME NEW b, NEW q1, NEW q2, NEW u1, NEW u2, TwoTurns(b, q1, q2, u1, u2)
    PROVE  q2 = 0 /\ b \div 16 = u2 /\ b % 16 = u1
<1>. USE DEF TwoTurns
<1>1. q1 <= 15
  OBVIOUS
<1>2. q2 = 0
  BY <1>1
<1>3. b \div 16 = q1 /\ b % 16 = u1
  OBVIOUS
<1>. QED BY <1>2, <1>3

\* A byte has two digits.
LEMMA ByteDigits ==
    ASSUME NEW b \in 0..255, NEW out \in Int, out > 2
    PROVE  rt_dwtos(b, 16, 2, out) = <<b \div 16, b % 16>>
<1>1. PICK u : u = Temp(b, 16, 2)
  OBVIOUS
<1>2. TempHolds(b, 16, 2, u)
  <2>1. b \in DWORD /\ 16 \in 10..16 /\ 2 \in 0..15
    BY DEF DWORD
  <2>. QED BY <1>1, <2>1, TempDivides
<1>3. u \in Seq(Nat) /\ Len(u) \in 1..15 /\ Len(u) >= 2
  BY <1>2 DEF TempHolds
<1>4. PICK q : /\ Divides(q, b, 16, u) /\ q[Len(u)] = 0
               /\ Len(u) > 2 => \A i \in 2..Len(u) : q[i - 1] > 0
  BY <1>2 DEF TempHolds
<1>5. /\ q[0] = b /\ q[1] \in Nat /\ q[2] \in Nat /\ u[1] \in 0..15 /\ u[2] \in 0..15
      /\ q[0] = 16 * q[1] + u[1] /\ q[1] = 16 * q[2] + u[2]
  <2>1. 1 \in 1..Len(u) /\ 2 \in 1..Len(u)
    BY <1>3
  <2>. QED BY <1>4, <2>1 DEF Divides
<1>6. PICK q1 \in Nat, q2 \in Nat, u1 \in 0..15, u2 \in 0..15 :
         q1 = q[1] /\ q2 = q[2] /\ u1 = u[1] /\ u2 = u[2] /\ b = 16 * q1 + u1 /\ q1 = 16 * q2 + u2
  BY <1>5
<1>7. PICK l \in 2..15 : l = Len(u)
  <2>1. \A k \in 1..15 : k >= 2 => k \in 2..15
    OBVIOUS
  <2>. QED BY <1>3, <2>1, Zenon
<1>8. q2 = 0 /\ b \div 16 = u2 /\ b % 16 = u1
  <2>1. b \in Nat /\ b <= 255
    BY UpTo255, Zenon
  <2>2. TwoTurns(b, q1, q2, u1, u2)
    BY <1>6, <2>1, Zenon DEF TwoTurns
  <2>. QED BY <2>2, TwoDigits, Zenon
<1>9. l = 2
  <2>. SUFFICES ASSUME l > 2 PROVE FALSE
    OBVIOUS
  <2>1. 3 \in 2..l
    OBVIOUS
  <2>2. q[2] > 0
    BY <1>4, <1>7, <2>1
  <2>. QED BY <1>6, <1>8, <2>2
<1>10. Reverse(u) = <<u[2], u[1]>>
  <2>. DEFINE r == Reverse(u)
  <2>1. /\ r \in Seq(Nat) /\ Len(r) = Len(u)
        /\ \A i \in 1..Len(u) : r[i] = u[Len(u) - i + 1]
    BY <1>3, ReverseIs
  <2>2. /\ Len(u) = 2 /\ 1 \in 1..Len(u) /\ 2 \in 1..Len(u)
        /\ Len(u) - 1 + 1 = 2 /\ Len(u) - 2 + 1 = 1
    BY <1>9, <1>7
  <2>3. r[1] = u[2] /\ r[2] = u[1] /\ Len(r) = 2
    BY <2>1, <2>2
  <2>4. r = <<r[1], r[2]>>
    <3>. HIDE DEF r
    <3>. QED BY <2>1, <2>3
  <2>. QED BY <2>3, <2>4
<1>11. rt_dwtos(b, 16, 2, out) = Reverse(u)
  <2>1. 16 \in 10..16 /\ 2 \in Nat /\ 2 < out
    OBVIOUS
  <2>. QED BY <1>1, <1>9, <1>7, <2>1, DwtosIs
<1>. QED BY <1>6, <1>8, <1>10, <1>11

\* What rt_btos has written after k bytes, in a buffer of three characters for each.
ByteTurn(c, s, b) == WriteByte(c.length, s, b)

BytesHold(c, k, s) ==
    /\ s = [text |-> s.text, full |-> FALSE] /\ s.text \in Seq(Int)
    /\ Len(s.text) = (IF k = 0 THEN 0 ELSE 3 * k - 1)
    /\ \A i \in 1..k : /\ s.text[3 * i - 2] = c.bytes[i] \div 16 /\ s.text[3 * i - 1] = c.bytes[i] % 16
                       /\ i < k => s.text[3 * i] = Blank

ByteLoop == INSTANCE LoopTheorems WITH op <- ByteTurn, holds <- BytesHold

\* Where the next byte starts: behind a blank, unless it is the first one.
Begun(text) == IF text = <<>> THEN <<>> ELSE Append(text, Blank)

LengthBefore(text, k) == Len(text) = (IF k = 1 THEN 0 ELSE 3 * k - 4)

BegunHolds(text, k, start) ==
    /\ start \in Seq(Int) /\ Len(start) = 3 * k - 3
    /\ \A i \in 1..Len(text) : start[i] = text[i]
    /\ k > 1 => start[3 * k - 3] = Blank

\* What rt_btos has written when the digits of byte k follow.
LEMMA StartIs ==
    ASSUME NEW text \in Seq(Int), NEW k \in Nat, k > 0, LengthBefore(text, k)
    PROVE  BegunHolds(text, k, Begun(text))
<1>. SUFFICES ASSUME NEW start, start = Begun(text)
              PROVE  BegunHolds(text, k, start)
  OBVIOUS
<1>1. start = (IF text = <<>> THEN <<>> ELSE Append(text, Blank))
  BY DEF Begun
<1>2. Len(text) = (IF k = 1 THEN 0 ELSE 3 * k - 4)
  BY DEF LengthBefore
<1>3. CASE text = <<>>
  <2>1. Len(text) = 0 /\ start = <<>>
    BY <1>3, <1>1
  <2>2. k = 1
    BY ONLY <2>1, <1>2, k \in Nat, k > 0
  <2>3. start \in Seq(Int) /\ Len(start) = 0 /\ \A i \in 1..Len(text) : start[i] = text[i]
    BY ONLY <2>1
  <2>. QED BY <2>2, <2>3 DEF BegunHolds
<1>4. CASE text # <<>>
  <2>1. Blank \in Int
    BY DEF Blank
  <2>2. /\ start \in Seq(Int) /\ Len(start) = Len(text) + 1
        /\ \A i \in 1..Len(text) : start[i] = text[i]
        /\ start[Len(text) + 1] = Blank
    <3>1. start = Append(text, Blank)
      BY <1>4, <1>1
    <3>2. /\ Append(text, Blank) \in Seq(Int) /\ Len(Append(text, Blank)) = Len(text) + 1
          /\ \A i \in 1..Len(text) : Append(text, Blank)[i] = text[i]
          /\ Append(text, Blank)[Len(text) + 1] = Blank
      BY ONLY <2>1, text \in Seq(Int), AppendProperties
    <3>. QED BY ONLY <3>1, <3>2, Zenon
  <2>3. Len(text) # 0
    BY ONLY <1>4, text \in Seq(Int), EmptySeq
  <2>4. k > 1 /\ Len(text) + 1 = 3 * k - 3
    BY ONLY <2>3, <1>2, k \in Nat, k > 0
  <2>. QED BY <2>2, <2>4, Zenon DEF BegunHolds
<1>. QED BY <1>3, <1>4

\* Two characters behind a text.
TwoBehind(start, a, b, j, new) ==
    /\ new \in Seq(Int) /\ Len(new) = j + 2 /\ \A i \in 1..j : new[i] = start[i]
    /\ new[j + 1] = a /\ new[j + 2] = b

\* The two digits of a byte follow what was written.
LEMMA TwoMore ==
    ASSUME NEW start \in Seq(Int), NEW a \in Int, NEW b \in Int, NEW j \in Nat, j = Len(start)
    PROVE  TwoBehind(start, a, b, j, start \o <<a, b>>)
<1>. SUFFICES ASSUME NEW new, new = start \o <<a, b>>
              PROVE  /\ new \in Seq(Int) /\ Len(new) = j + 2 /\ \A i \in 1..j : new[i] = start[i]
                     /\ new[j + 1] = a /\ new[j + 2] = b
  BY DEF TwoBehind
<1>. DEFINE two == <<a, b>>
<1>1. two \in Seq(Int) /\ Len(two) = 2 /\ two[1] = a /\ two[2] = b
  OBVIOUS
<1>. HIDE DEF two
<1>2. new = start \o two
  BY DEF two
<1>3. /\ new \in Seq(Int) /\ Len(new) = Len(start) + Len(two)
      /\ \A i \in 1..(Len(start) + Len(two)) :
             new[i] = IF i <= Len(start) THEN start[i] ELSE two[i - Len(start)]
  <2>1. /\ start \o two \in Seq(Int) /\ Len(start \o two) = Len(start) + Len(two)
        /\ \A i \in 1..(Len(start) + Len(two)) :
             (start \o two)[i] = IF i <= Len(start) THEN start[i] ELSE two[i - Len(start)]
    BY <1>1, ConcatProperties, Zenon
  <2>. QED BY ONLY <1>2, <2>1, Zenon
<1>4. \A i \in 1..(j + 2) : new[i] = IF i <= j THEN start[i] ELSE two[i - j]
  BY ONLY <1>1, <1>3, j = Len(start)
<1>5. /\ \A i \in 1..j : i \in 1..(j + 2) /\ i <= j
      /\ j + 1 \in 1..(j + 2) /\ ~(j + 1 <= j) /\ (j + 1) - j = 1
      /\ j + 2 \in 1..(j + 2) /\ ~(j + 2 <= j) /\ (j + 2) - j = 2
  BY ONLY j \in Nat
<1>6. \A i \in 1..j : new[i] = start[i]
  BY ONLY <1>4, <1>5, Zenon
<1>7. new[j + 1] = two[1] /\ new[j + 2] = two[2]
  BY ONLY <1>4, <1>5
<1>8. Len(new) = j + 2
  BY ONLY <1>1, <1>3, j = Len(start)
<1>. QED BY <1>1, <1>3, <1>6, <1>7, <1>8, Zenon

\* The turn of the loop, when the buffer has room for the byte.
Room(text) == [text |-> text, full |-> FALSE]

Writes(c, b, text, digits) ==
    /\ rt_dwtos(b, 16, 2, c.length - Len(Begun(text))) = digits
    /\ digits # <<>> /\ ~(Len(text) >= c.length)

\* A turn of rt_btos writes the blank and the digits that rt_dwtos has made.
LEMMA ByteWritten ==
    ASSUME NEW c, NEW b, NEW text, NEW digits, Writes(c, b, text, digits)
    PROVE  ByteTurn(c, Room(text), b) = Room(Begun(text) \o digits)
<1>. DEFINE s == [text |-> text, full |-> FALSE]
<1>1. s.text = text /\ s.full = FALSE
  OBVIOUS
<1>. HIDE DEF s
<1>2. ByteTurn(c, s, b) = LET first == IF s.text = <<>> THEN <<>> ELSE Append(s.text, Blank)
                              byte == rt_dwtos(b, 16, 2, c.length - Len(first))
                          IN  IF s.full THEN s
                              ELSE IF Len(s.text) >= c.length
                                   THEN [text |-> SubSeq(s.text, 1, c.length - 1), full |-> TRUE]
                              ELSE [text |-> first \o (IF byte = <<>> THEN <<Junk, Junk>> ELSE byte), full |-> FALSE]
  BY DEF ByteTurn, WriteByte
<1>3. ByteTurn(c, s, b) = [text |-> Begun(text) \o digits, full |-> FALSE]
  BY <1>1, <1>2, Zenon DEF Begun, Writes
<1>. QED BY <1>3 DEF s, Room

\* A turn of the loop writes a byte behind those before it.
LEMMA ByteStep ==
    ASSUME NEW n \in Nat, NEW c, c.length = 3 * n, NEW k \in 1..n, NEW s,
           BytesHold(c, k - 1, s), c.bytes[k] \in 0..255
    PROVE  BytesHold(c, k, ByteTurn(c, s, c.bytes[k]))
<1>1. PICK b \in 0..255 : b = c.bytes[k]
  OBVIOUS
<1>2. PICK text \in Seq(Int) : s = [text |-> text, full |-> FALSE] /\ s.text = text
  BY DEF BytesHold
<1>3. PICK l \in Nat : l = Len(text) /\ l = (IF k = 1 THEN 0 ELSE 3 * k - 4)
  <2>1. Len(s.text) = (IF k - 1 = 0 THEN 0 ELSE 3 * (k - 1) - 1)
    BY DEF BytesHold
  <2>2. (IF k - 1 = 0 THEN 0 ELSE 3 * (k - 1) - 1) = (IF k = 1 THEN 0 ELSE 3 * k - 4)
    OBVIOUS
  <2>. QED BY <1>2, <2>1, <2>2, LenProperties
<1>4. \A i \in 1..(k - 1) : /\ text[3 * i - 2] = c.bytes[i] \div 16 /\ text[3 * i - 1] = c.bytes[i] % 16
                            /\ i < k - 1 => text[3 * i] = Blank
  BY <1>2 DEF BytesHold
<1>5. PICK start : start = Begun(text)
  OBVIOUS
<1>6. k \in Nat /\ k > 0 /\ n \in Nat /\ k <= n
  OBVIOUS
<1>7. /\ start \in Seq(Int) /\ Len(start) = 3 * k - 3 /\ \A i \in 1..l : start[i] = text[i]
      /\ k > 1 => start[3 * k - 3] = Blank
  <2>1. LengthBefore(text, k)
    BY <1>3 DEF LengthBefore
  <2>2. BegunHolds(text, k, start)
    BY ONLY <2>1, <1>5, <1>6, text \in Seq(Int), StartIs
  <2>3. l = Len(text)
    BY <1>3
  <2>. QED BY ONLY <2>2, <2>3, Zenon DEF BegunHolds
<1>8. PICK x \in Int, y \in Int : x = b \div 16 /\ y = b % 16
  <2>1. \A a \in Nat : a \div 16 \in Int /\ a % 16 \in Int
    OBVIOUS
  <2>2. b \in Nat
    BY UpTo255, Zenon
  <2>. QED BY <2>1, <2>2, Zenon
<1>9. PICK out \in Int : out = c.length - Len(start) /\ out > 2
  BY ONLY <1>6, <1>7, c.length = 3 * n
<1>10. rt_dwtos(b, 16, 2, out) = <<x, y>>
  BY ONLY <1>8, <1>9, b \in 0..255, out \in Int, ByteDigits
<1>11. ~(Len(text) >= c.length)
  BY ONLY <1>3, <1>6, c.length = 3 * n
<1>12. PICK new : new = start \o <<x, y>>
  OBVIOUS
<1>13. ByteTurn(c, s, b) = [text |-> new, full |-> FALSE]
  <2>1. <<x, y>> # <<>>
    OBVIOUS
  <2>2. s = [text |-> text, full |-> FALSE]
    BY <1>2
  <2>3. rt_dwtos(b, 16, 2, c.length - Len(Begun(text))) = <<x, y>>
    BY <1>5, <1>9, <1>10
  <2>. HIDE DEF Begun
  <2>4. ByteTurn(c, [text |-> text, full |-> FALSE], b) = [text |-> Begun(text) \o <<x, y>>, full |-> FALSE]
    <3>. DEFINE two == <<x, y>>
    <3>1. two # <<>> /\ rt_dwtos(b, 16, 2, c.length - Len(Begun(text))) = two
      BY <2>1, <2>3
    <3>. HIDE DEF two
    <3>2. Writes(c, b, text, two)
      BY <3>1, <1>11 DEF Writes
    <3>3. ByteTurn(c, Room(text), b) = Room(Begun(text) \o two)
      BY ONLY <3>2, ByteWritten
    <3>. QED BY <3>3 DEF two, Room
  <2>. QED BY <1>5, <1>12, <2>2, <2>4
<1>14. PICK j \in Nat : j = 3 * k - 3 /\ j + 2 = 3 * k - 1 /\ j + 1 = 3 * k - 2
  BY <1>6
<1>15. /\ new \in Seq(Int) /\ Len(new) = 3 * k - 1
       /\ \A i \in 1..(3 * k - 3) : new[i] = start[i]
       /\ new[3 * k - 2] = x /\ new[3 * k - 1] = y
  <2>1. /\ new \in Seq(Int) /\ Len(new) = j + 2 /\ \A i \in 1..j : new[i] = start[i]
        /\ new[j + 1] = x /\ new[j + 2] = y
    <3>1. start \in Seq(Int) /\ j = Len(start)
      BY <1>7, <1>14
    <3>2. TwoBehind(start, x, y, j, new)
      BY ONLY <3>1, <1>12, j \in Nat, x \in Int, y \in Int, TwoMore
    <3>. QED BY <3>2, Zenon DEF TwoBehind
  <2>. QED BY ONLY <2>1, <1>14
<1>16. ASSUME NEW i \in 1..k
       PROVE  /\ new[3 * i - 2] = c.bytes[i] \div 16 /\ new[3 * i - 1] = c.bytes[i] % 16
              /\ i < k => new[3 * i] = Blank
  <2>1. CASE i = k
    BY ONLY <1>1, <1>8, <1>15, <1>6, <2>1
  <2>2. CASE i < k
    <3>1. i \in 1..(k - 1) /\ 3 * i - 2 \in 1..l /\ 3 * i - 1 \in 1..l
      BY ONLY <1>3, <2>2, <1>6, i \in 1..k
    <3>2. 3 * i - 2 \in 1..(3 * k - 3) /\ 3 * i - 1 \in 1..(3 * k - 3) /\ 3 * i \in 1..(3 * k - 3)
      BY ONLY <2>2, <1>6, i \in 1..k
    <3>3. new[3 * i - 2] = text[3 * i - 2] /\ new[3 * i - 1] = text[3 * i - 1]
      BY ONLY <1>7, <1>15, <3>1, <3>2
    <3>4. new[3 * i] = start[3 * i]
      BY ONLY <1>15, <3>2
    <3>5. start[3 * i] = Blank
      <4>1. CASE i = k - 1
        <5>1. 3 * i = 3 * k - 3 /\ k > 1
          BY ONLY <4>1, <1>6, i \in 1..k
        <5>. QED BY ONLY <1>7, <5>1
      <4>2. CASE i < k - 1
        <5>1. 3 * i \in 1..l
          BY ONLY <1>3, <4>2, <1>6, i \in 1..k
        <5>. QED BY ONLY <1>4, <1>7, <3>1, <4>2, <5>1
      <4>. QED BY ONLY <2>2, <4>1, <4>2, <1>6, i \in 1..k
    <3>. QED BY ONLY <1>4, <3>1, <3>3, <3>4, <3>5, Zenon
  <2>3. i = k \/ i < k
    BY ONLY <1>6, i \in 1..k
  <2>. QED BY ONLY <2>1, <2>2, <2>3
<1>17. [text |-> new, full |-> FALSE].text = new /\ k # 0
  OBVIOUS
<1>18. BytesHold(c, k, [text |-> new, full |-> FALSE])
  BY ONLY <1>15, <1>16, <1>17 DEF BytesHold
<1>. DEFINE after == [text |-> new, full |-> FALSE]
<1>19. ByteTurn(c, s, b) = after /\ BytesHold(c, k, after)
  <2>1. ByteTurn(c, s, b) = after
    BY ONLY <1>13
  <2>2. BytesHold(c, k, after)
    BY ONLY <1>18
  <2>. QED BY <2>1, <2>2
<1>. HIDE DEF after
<1>20. BytesHold(c, k, ByteTurn(c, s, b))
  BY ONLY <1>19, Zenon
<1>. QED BY ONLY <1>1, <1>20, Zenon

\* rt_btos: every byte is written with two digits, with blanks between the bytes.
THEOREM BytesWritten ==
    ASSUME NEW bytes \in Seq(0..255), bytes # <<>>
    PROVE  LET t == rt_btos(bytes, 3 * Len(bytes))
           IN  /\ Len(t) = 3 * Len(bytes) - 1
               /\ \A i \in DOMAIN bytes : /\ <<t[3 * i - 2], t[3 * i - 1]>> = <<bytes[i] \div 16, bytes[i] % 16>>
                                          /\ i < Len(bytes) => t[3 * i] = Blank
<1>1. PICK n \in Nat : n = Len(bytes) /\ n # 0 /\ DOMAIN bytes = 1..n /\ \A i \in 1..n : bytes[i] \in 0..255
  <2>1. PICK S : S = 0..255
    OBVIOUS
  <2>2. bytes \in Seq(S)
    BY <2>1, Zenon
  <2>3. Len(bytes) \in Nat /\ Len(bytes) # 0 /\ DOMAIN bytes = 1..Len(bytes)
    BY ONLY <2>2, bytes # <<>>, EmptySeq, LenProperties
  <2>4. \A i \in 1..Len(bytes) : bytes[i] \in S
    BY ONLY <2>2, ElementOfSeq
  <2>. QED BY <2>1, <2>3, <2>4, Zenon
<1>2. PICK c : c = [length |-> 3 * n, bytes |-> bytes]
  OBVIOUS
<1>3. c.length = 3 * n /\ c.bytes = bytes
  BY <1>2
<1>. DEFINE base == [text |-> <<>>, full |-> FALSE]
            end == ByteLoop!Fold(c, base, bytes)
<1>4. rt_btos(bytes, c.length) = end.text
  BY DEF rt_btos, ByteLoop!Fold, ByteTurn, FoldLeft, ByteLoop!FoldLeft, MapThenFoldSet,
         ByteLoop!MapThenFoldSet, Max, ByteLoop!Max
<1>5. BytesHold(c, 0, base)
  BY DEF BytesHold
<1>6. \A k \in 1..n : \A x : BytesHold(c, k - 1, x) => BytesHold(c, k, ByteTurn(c, x, bytes[k]))
  BY <1>1, <1>3, ByteStep
<1>. HIDE DEF base
<1>7. BytesHold(c, n, end)
  BY <1>1, <1>5, <1>6, ByteLoop!FoldInvariant
<1>. HIDE DEF end
<1>. QED BY <1>1, <1>3, <1>4, <1>7 DEF BytesHold

\* The numbers that a few bytes can spell are below this.
Spelt(k) == IF k = 0 THEN 1 ELSE IF k = 1 THEN 256 ELSE IF k = 2 THEN 65536
            ELSE IF k = 3 THEN 16777216 ELSE 4294967296

NumberTurn(c, n, b) == n * 256 + b

NumberHolds(c, k, n) == n \in Nat /\ n < Spelt(k)

NumberLoop == INSTANCE LoopTheorems WITH op <- NumberTurn, holds <- NumberHolds

\* The bytes of the input spell a DWORD, and three of them leave room for ten times that.
LEMMA NumberIs ==
    ASSUME in \in Seq(0..255), Len(in) <= 4
    PROVE  Number \in DWORD /\ (Len(in) < 4 => 10 * Number \in DWORD)
<1>1. PICK seq \in Seq(0..255) : seq = in
  OBVIOUS
<1>2. PICK n \in 0..4 : n = Len(seq)
  <2>1. \A k \in Nat : k <= 4 => k \in 0..4
    OBVIOUS
  <2>. QED BY <1>1, <2>1, LenProperties, Zenon
<1>3. DOMAIN seq = 1..n /\ \A k \in 1..n : seq[k] \in 0..255
  BY <1>2, LenProperties, ElementOfSeq
<1>4. Number = NumberLoop!Fold(0, 0, seq)
  BY <1>1 DEF Number, NumberLoop!Fold, NumberTurn, FoldLeft, NumberLoop!FoldLeft, MapThenFoldSet,
           NumberLoop!MapThenFoldSet, Max, NumberLoop!Max
<1>5. NumberHolds(0, 0, 0)
  BY DEF NumberHolds, Spelt
<1>6. ASSUME NEW k \in 1..n, NEW x, NumberHolds(0, k - 1, x)
      PROVE  NumberHolds(0, k, NumberTurn(0, x, seq[k]))
  <2>1. PICK b \in Nat : b = seq[k] /\ b < 256
    <3>1. seq[k] \in 0..255
      BY <1>3, Zenon
    <3>2. seq[k] \in Nat /\ seq[k] <= 255
      BY <3>1, UpTo255, Zenon
    <3>3. PICK b \in Nat : b = seq[k] /\ b <= 255
      BY <3>2
    <3>. QED BY <3>3, b < 256
  <2>2. k \in Nat /\ (k = 1 \/ k = 2 \/ k = 3 \/ k = 4)
    BY ONLY n \in 0..4, k \in 1..n
  <2>3. x \in Nat /\ x < Spelt(k - 1)
    BY <1>6 DEF NumberHolds
  <2>4. x * 256 + b \in Nat /\ x * 256 + b < Spelt(k)
    BY ONLY <2>1, <2>2, <2>3, b \in Nat, SMT DEF Spelt
  <2>. QED BY <2>1, <2>4 DEF NumberHolds, NumberTurn
<1>7. NumberHolds(0, n, NumberLoop!Fold(0, 0, seq))
  BY <1>3, <1>5, <1>6, NumberLoop!FoldInvariant
<1>8. Spelt(n) <= 4294967296
  BY ONLY n \in 0..4, SMT DEF Spelt
<1>9. \A k \in Nat : k < 4294967296 => k \in DWORD
  BY ONLY SMT DEF DWORD
<1>10. \A k \in Nat : k < Spelt(n) => k \in DWORD
  <2>1. Spelt(n) \in Nat
    BY ONLY n \in 0..4, SMT DEF Spelt
  <2>2. \A k \in Nat : k < Spelt(n) => k < 4294967296
    BY ONLY <1>8, <2>1, SMT
  <2>. QED BY <1>9, <2>2, SMT
<1>11. n < 4 => \A k \in Nat : k < Spelt(n) => 10 * k \in DWORD
  <2>1. n < 4 => Spelt(n) <= 16777216 /\ Spelt(n) \in Nat
    BY ONLY n \in 0..4, SMT DEF Spelt
  <2>2. n < 4 => \A k \in Nat : k < Spelt(n) => 10 * k \in Nat /\ 10 * k < 4294967296
    BY ONLY <2>1, SMT
  <2>. QED BY ONLY <1>9, <2>2, SMT
<1>12. PICK k \in Nat : k = Number /\ k < Spelt(n)
  BY <1>4, <1>7 DEF NumberHolds
<1>13. k \in DWORD /\ (n < 4 => 10 * k \in DWORD)
  BY ONLY <1>10, <1>11, <1>12, Zenon
<1>. QED BY <1>1, <1>2, <1>12, <1>13, Zenon

\* rt_dwtos and rt_stodw on the bytes of a DWORD.
LEMMA WritesNumbersHolds ==
    ASSUME in \in Seq(0..255), Len(in) <= 4
    PROVE  WritesNumbers
<1>1. Number \in DWORD /\ (Len(in) < 4 => 10 * Number \in DWORD)
  BY NumberIs
<1>2. ASSUME NEW radix \in {10, 16}, NEW fill \in {0, 8}
      PROVE  LET t == rt_dwtos(Number, radix, fill, 16)
             IN  /\ Value(t, radix) = Number
                 /\ Len(t) >= fill /\ (Len(t) > Max({fill, 1}) => t[1] # 0)
                 /\ \A out \in 9..16 : rt_dwtos(Number, radix, fill, out) = IF Len(t) < out THEN t ELSE <<>>
                 /\ radix = 10 => /\ rt_stodw(t, FALSE) = [length |-> Len(t), value |-> Number]
                                  /\ Len(in) < 4 =>
                                       rt_stodw(Append(t, Blank), FALSE) = [length |-> Len(t), value |-> 10 * Number]
                 /\ radix = 16 => /\ rt_stodw(t, TRUE).length = Len(t) + 2
                                  /\ rt_stodw(t, TRUE).value = Number <=> ToSet(t) \subseteq 0..9
  <2>1. radix \in 10..16 /\ fill \in 0..8
    OBVIOUS
  <2>2. LET t == rt_dwtos(Number, radix, fill, 16)
        IN  /\ Value(t, radix) = Number
            /\ Len(t) >= fill /\ (Len(t) > Max({fill, 1}) => t[1] # 0)
            /\ \A out \in 9..16 : rt_dwtos(Number, radix, fill, out) = IF Len(t) < out THEN t ELSE <<>>
            /\ radix = 10 => /\ rt_stodw(t, FALSE) = [length |-> Len(t), value |-> Number]
                             /\ 10 * Number \in DWORD =>
                                  rt_stodw(Append(t, Blank), FALSE) = [length |-> Len(t), value |-> 10 * Number]
            /\ radix = 16 => /\ rt_stodw(t, TRUE).length = Len(t) + 2
                             /\ rt_stodw(t, TRUE).value = Number <=> ToSet(t) \subseteq 0..9
    BY <1>1, <2>1, DwordsWritten, Zenon
  <2>. QED BY <1>1, <2>2, Zenon
<1>. QED BY ONLY <1>2, Zenon DEF WritesNumbers

\* RVAToRaw of an address.
RawFound(rva) ==
    LET holds == {i \in DOMAIN in : rva > 4 * i /\ rva < 4 * i + in[i]}
        raw == RVAToRaw(Headers, rva)
    IN  /\ \A i \in holds : raw \in {0, rva - i}
        /\ raw # 0 <=> holds \cap Reached # {}

\* The headers that RVAToRaw looks at.
Looked(n) == {(i * (i + 1)) \div 2 + 1 : i \in 0..(n - 1)} \cap (1..n)

\* RVAToRaw: the sections do not overlap, so the one that holds an address is found exactly if it is
\* one of those that are looked at.
LEMMA RawIsRightHolds ==
    ASSUME in \in Seq(1..4)
    PROVE  RawIsRight
<1>1. PICK n \in Nat : n = Len(in) /\ DOMAIN in = 1..n /\ \A i \in 1..n : in[i] \in 1..4
  BY LenProperties, ElementOfSeq
<1>2. SUFFICES ASSUME NEW rva \in Nat PROVE RawFound(rva)
  <2>1. \A rva \in 0..(4 * (Len(in) + 2)) : rva \in Nat
    BY <1>1
  <2>. QED BY <2>1, Zenon DEF RawIsRight, RawFound
<1>. DEFINE h == [i \in 1..n |-> [va |-> 4 * i, size |-> in[i], raw |-> 3 * i]]
            inside == {i \in Looked(n) : rva > 4 * i /\ rva < 4 * i + in[i]}
            first == CHOOSE i \in inside : \A j \in inside : i <= j
            raw == RVAToRaw(Headers, rva)
<1>3. Headers = h /\ Len(h) = n /\ DOMAIN h = 1..n
  BY <1>1 DEF Headers
<1>4. \A i \in 1..n : h[i].va = 4 * i /\ h[i].size = in[i] /\ h[i].raw = 3 * i
  OBVIOUS
<1>. HIDE DEF h
<1>5. /\ {i \in Looked(n) : rva > h[i].va /\ rva < h[i].va + h[i].size} = inside
      /\ Looked(n) \subseteq 1..n
  <2>1. Looked(n) \subseteq 1..n
    BY DEF Looked
  <2>. QED BY <1>4, <2>1, Zenon
<1>6. raw = IF inside = {} THEN 0 ELSE RawIn(h[first], rva)
  <2>. DEFINE looked == {(i * (i + 1)) \div 2 + 1 : i \in 0..(Len(h) - 1)} \cap DOMAIN h
              found == {i \in looked : rva > h[i].va /\ rva < h[i].va + h[i].size}
  <2>1. Looked(n) = looked
    BY <1>3 DEF Looked
  <2>2. RVAToRaw(h, rva) = IF found = {} THEN 0 ELSE RawIn(h[CHOOSE i \in found : \A j \in found : i <= j], rva)
    BY Zenon DEF RVAToRaw
  <2>. HIDE DEF looked
  <2>3. found = inside
    BY <1>5, <2>1, Zenon
  <2>. HIDE DEF found, inside
  <2>. QED BY <1>3, <2>2, <2>3, Zenon
<1>7. ASSUME NEW i \in inside PROVE first = i
  <2>1. \A j \in inside : j = i
    <3>1. ASSUME NEW j \in inside PROVE j = i
      <4>1. /\ i \in Nat /\ j \in Nat /\ in[i] \in 1..4 /\ in[j] \in 1..4
            /\ rva > 4 * i /\ rva < 4 * i + in[i] /\ rva > 4 * j /\ rva < 4 * j + in[j]
        <5>1. i \in 1..n /\ j \in 1..n
          BY <1>5
        <5>. QED BY <1>1, <5>1
      <4>. QED BY ONLY <4>1, rva \in Nat
    <3>. QED BY <3>1
  <2>2. i <= i
    BY <1>5
  <2>. HIDE DEF inside
  <2>. QED BY <2>1, <2>2, Zenon
<1>8. ASSUME NEW i \in inside
      PROVE  raw = rva - i /\ raw # 0 /\ i \in 1..n /\ rva > 4 * i /\ rva < 4 * i + in[i]
  <2>1. i \in 1..n /\ rva > 4 * i /\ rva < 4 * i + in[i]
    BY <1>5
  <2>2. inside # {}
    OBVIOUS
  <2>. HIDE DEF inside, raw
  <2>3. raw = RawIn(h[i], rva)
    BY <1>6, <1>7, <2>2
  <2>4. RawIn(h[i], rva) = rva - i
    BY <1>4, <2>1 DEF RawIn
  <2>. QED BY <2>1, <2>3, <2>4
<1>. DEFINE holds == {i \in DOMAIN in : rva > 4 * i /\ rva < 4 * i + in[i]}
<1>9. Reached \cap (1..n) = Looked(n)
  <2>1. \A k \in Int : 1 + (k * (k + 1)) \div 2 = (k * (k + 1)) \div 2 + 1
    <3>1. \A a \in Int : 1 + a = a + 1
      OBVIOUS
    <3>2. \A k \in Int : (k * (k + 1)) \div 2 \in Int
      OBVIOUS
    <3>. QED BY <3>1, <3>2, Zenon
  <2>2. \A k \in 0..(n - 1) : k \in Int
    BY <1>1
  <2>3. Reached = {(i * (i + 1)) \div 2 + 1 : i \in 0..(n - 1)}
    BY <1>1, <2>1, <2>2, Zenon DEF Reached
  <2>. QED BY <2>3, Zenon DEF Looked
<1>10. inside = holds \cap Reached
  BY <1>1, <1>9
<1>11. raw # 0 <=> inside # {}
  <2>1. inside = {} => raw = 0
    <3>. HIDE DEF inside, first, raw
    <3>. QED BY <1>6
  <2>2. \A i \in inside : raw # 0
    BY <1>8
  <2>. HIDE DEF inside, raw
  <2>. QED BY <2>1, <2>2
<1>12. \A i \in holds : raw \in {0, rva - i}
  <2>. SUFFICES ASSUME NEW i \in holds PROVE raw \in {0, rva - i}
    BY Zenon
  <2>1. CASE i \in inside
    <3>. HIDE DEF inside, raw, holds
    <3>. QED BY <1>8, <2>1
  <2>2. CASE inside = {}
    <3>. HIDE DEF inside, raw, holds
    <3>. QED BY <1>11, <2>2
  <2>3. ASSUME NEW j \in inside PROVE i \in inside
    <3>1. j \in Nat /\ in[j] \in 1..4 /\ rva > 4 * j /\ rva < 4 * j + in[j]
      <4>1. j \in 1..n
        BY <1>5
      <4>. QED BY <1>1, <4>1
    <3>2. i \in Nat /\ in[i] \in 1..4 /\ rva > 4 * i /\ rva < 4 * i + in[i]
      BY <1>1
    <3>3. i = j
      BY ONLY <3>1, <3>2, rva \in Nat
    <3>. QED BY <3>3, Zenon
  <2>. HIDE DEF inside, raw, holds
  <2>. QED BY <2>1, <2>2, <2>3
<1>. HIDE DEF inside, first
<1>. QED BY <1>10, <1>11, <1>12, Zenon DEF RawFound

\* The conversions of zax-inspector, on the inputs of their modes: right in the cases that the parts
\* of ZaxConverts name, and in no others.
LEMMA ZaxConvertsHolds ==
    ASSUME mode = "sections" => in \in Seq(1..4),
           mode = "bytes" => in \in Seq(0..255) /\ Len(in) <= 4
    PROVE  ZaxConverts
<1>1. RawIsRight
  <2>1. CASE mode = "sections"
    BY <2>1, RawIsRightHolds
  <2>2. CASE mode # "sections"
    BY <2>2, Zenon DEF RawIsRight
  <2>. QED BY <2>1, <2>2
<1>2. OffsetJoined
  <2>. SUFFICES ASSUME mode = "bytes", Len(in) = 2
                PROVE  LET offset == MAKELONG(in[1], in[2])
                       IN  /\ offset % Half = in[1]
                           /\ offset = Half * in[2] + in[1] <=> in[1] < Half \div 2 \/ in[2] = Half - 1
    BY Zenon DEF OffsetJoined
  <2>1. in \in Seq(0..255) /\ 1 \in 1..Len(in) /\ 2 \in 1..Len(in)
    OBVIOUS
  <2>2. in[1] \in 0..255 /\ in[2] \in 0..255
    <3>1. PICK S : S = 0..255
      OBVIOUS
    <3>2. in \in Seq(S)
      BY <2>1, <3>1, Zenon
    <3>3. in[1] \in S
      BY ONLY <2>1, <3>2, ElementOfSeq
    <3>4. in[2] \in S
      BY ONLY <2>1, <3>2, ElementOfSeq
    <3>. QED BY <3>1, <3>3, <3>4, Zenon
  <2>3. \A x \in 0..255 : x \in Int /\ 0 <= x /\ x <= 255
    OBVIOUS
  <2>4. PICK a \in Int, b \in Int : a = in[1] /\ b = in[2] /\ 0 <= a /\ a <= 255 /\ 0 <= b /\ b <= 255
    BY <2>2, <2>3, Zenon
  <2>5. MAKELONG(a, b) = IF a < 128 THEN b * 256 + a ELSE 255 * 256 + a
    BY DEF MAKELONG, Half
  <2>6. MAKELONG(a, b) % 256 = a
    BY ONLY a \in Int, b \in Int, <2>4, <2>5
  <2>7. MAKELONG(a, b) = 256 * b + a <=> a < 128 \/ b = 255
    BY ONLY a \in Int, b \in Int, <2>4, <2>5
  <2>8. Half = 256 /\ Half \div 2 = 128 /\ Half - 1 = 255
    BY DEF Half
  <2>9. in[1] = a /\ in[2] = b
    BY <2>4
  <2>10. (a < Half \div 2 <=> a < 128) /\ (b = Half - 1 <=> b = 255)
    BY <2>8
  <2>. QED BY ONLY <2>6, <2>7, <2>8, <2>9, <2>10, Zenon
<1>3. WritesNumbers
  <2>1. CASE mode = "bytes"
    BY <2>1, WritesNumbersHolds
  <2>2. CASE mode # "bytes"
    BY <2>2, Zenon DEF WritesNumbers
  <2>. QED BY <2>1, <2>2
<1>4. WritesBytes
  <2>1. CASE mode = "bytes" /\ in # <<>>
    <3>1. in \in Seq(0..255) /\ in # <<>>
      BY <2>1
    <3>. QED BY <3>1, BytesWritten, Zenon DEF WritesBytes
  <2>2. CASE ~(mode = "bytes" /\ in # <<>>)
    BY <2>2, Zenon DEF WritesBytes
  <2>. QED BY <2>1, <2>2
<1>. QED BY <1>1, <1>2, <1>3, <1>4 DEF ZaxConverts

\* The conversions of zax-inspector on every input: RVAToRaw finds an address exactly if its section is
\* one of the first, second, fourth, seventh ...; MAKELONG joins two halves exactly if the top bit of
\* the low one is clear or the high one has ones only; rt_stodw reads back what rt_dwtos wrote in radix
\* ten, the tenfold of it if another character follows, and in radix 16 exactly if it has no letter;
\* rt_btos writes every byte.
THEOREM ZaxConvertsAlways == Spec => []ZaxConverts
<1>1. InputOK => ZaxConverts
  <2>. SUFFICES ASSUME InputOK PROVE ZaxConverts
    OBVIOUS
  <2>1. mode = "sections" => in \in Seq(1..4)
    BY DEF InputOK
  <2>2. mode = "bytes" => in \in Seq({0, 9, 16, 165, 255}) /\ Len(in) <= MaxBytes
    BY DEF InputOK
  <2>3. Seq({0, 9, 16, 165, 255}) \subseteq Seq(0..255)
    OBVIOUS
  <2>4. mode = "bytes" => in \in Seq(0..255)
    BY <2>2, <2>3, Zenon
  <2>5. mode = "bytes" => Len(in) <= 4
    <3>1. mode = "bytes" => Len(in) \in Nat
      BY <2>2, LenProperties
    <3>. QED BY ONLY <2>2, <3>1, BytesAssumption DEF BytesAssumption
  <2>. QED BY <2>1, <2>4, <2>5, ZaxConvertsHolds
<1>. QED BY <1>1, InputTypeCorrect, PTL

-----------------------------------------------------------------------------
(* Powers of two *)

\* One bit more.
Doubled(n) == 2^n \in Nat /\ 2^n > 0 /\ 2^(n + 1) = 2 * 2^n

\* Every power of two up to that of the widest word.
LEMMA Doubles ==
    ASSUME NEW n \in 0..32
    PROVE  Doubled(n)
<1>1. /\ Doubled(0) /\ Doubled(1) /\ Doubled(2) /\ Doubled(3) /\ Doubled(4)
      /\ Doubled(5) /\ Doubled(6) /\ Doubled(7) /\ Doubled(8) /\ Doubled(9)
      /\ Doubled(10) /\ Doubled(11) /\ Doubled(12) /\ Doubled(13) /\ Doubled(14) /\ Doubled(15)
  BY DEF Doubled
<1>2. /\ Doubled(16) /\ Doubled(17) /\ Doubled(18) /\ Doubled(19) /\ Doubled(20)
      /\ Doubled(21) /\ Doubled(22) /\ Doubled(23) /\ Doubled(24) /\ Doubled(25)
      /\ Doubled(26) /\ Doubled(27) /\ Doubled(28) /\ Doubled(29) /\ Doubled(30)
  BY DEF Doubled
<1>3. Doubled(31) /\ Doubled(32)
  BY DEF Doubled
<1>. QED BY <1>1, <1>2, <1>3

\* The width of an unsigned long splits at any bit.
LEMMA PowersSplit ==
    ASSUME NEW c \in 0..WordBits
    PROVE  2^c * 2^(WordBits - c) = Word
<1>1. PICK W \in 7..32 : W = WordBits
  BY WordBitsAssumption DEF WordBitsAssumption
<1>. DEFINE S == {k \in Nat : k <= W => 2^k * 2^(W - k) = 2^W}
<1>2. 0 \in S
  OBVIOUS
<1>3. ASSUME NEW k \in Nat, k \in S PROVE k + 1 \in S
  <2>1. CASE k + 1 <= W
    <3>1. /\ k \in 0..32 /\ k < W /\ W - (k + 1) \in 0..32
          /\ (W - (k + 1)) + 1 = W - k
      BY <2>1
    <3>2. Doubled(k) /\ Doubled(W - (k + 1))
      BY <3>1, Doubles
    <3>3. PICK a \in Nat, b \in Nat : a = 2^k /\ b = 2^(W - (k + 1))
      BY <3>2 DEF Doubled
    <3>4. 2^(k + 1) = 2 * a
      BY <3>2, <3>3 DEF Doubled
    <3>5. 2^(W - k) = 2 * b
      BY <3>1, <3>2, <3>3 DEF Doubled
    <3>6. a * (2 * b) = 2^W
      BY <1>3, <2>1, <3>3, <3>5
    <3>7. (2 * a) * b = a * (2 * b)
      BY ONLY a \in Nat, b \in Nat
    <3>. QED BY <3>3, <3>4, <3>6, <3>7
  <2>2. CASE ~(k + 1 <= W)
    BY <2>2
  <2>. QED BY <2>1, <2>2
<1>. HIDE DEF S
<1>4. c \in S
  BY <1>2, <1>3, DigitLoop!NatSet
<1>. QED BY <1>1, <1>4 DEF S, Word
-----------------------------------------------------------------------------
(* The steps of Update *)

\* The quotient and the remainder of a number are the only ones there are.
Divided(n, b, q, r) == r < b /\ n = b * q + r

\* What divides a number with a remainder is what \div and % find.
LEMMA DivisionIs ==
    ASSUME NEW n, NEW b \in Nat, NEW q \in Nat, NEW r \in Nat, Divided(n, b, q, r)
    PROVE  n \div b = q /\ n % b = r
<1>1. n \in Nat /\ n = b * q + r /\ r < b
  BY DEF Divided
<1>. QED BY ONLY <1>1, b \in Nat, q \in Nat, r \in Nat

\* A rotation by the rest of the width undoes one by c bits, if a = 2^c and b = 2^(WordBits - c).
Rotates(n, w, a, b, q, r) == Divided(n, b, q, r) /\ q < a /\ ((n * a) % w) + (n \div b) = a * r + q

Product(w, a, b) == w = a * b /\ a > 0 /\ b > 0

\* The sum in md5_rol is the number with its upper part behind its lower one.
LEMMA RotationIs ==
    ASSUME NEW a \in Nat, NEW b \in Nat, NEW w \in Nat, Product(w, a, b), NEW n \in Nat, n < w
    PROVE  \E q \in Nat, r \in Nat : Rotates(n, w, a, b, q, r)
<1>1. w = a * b /\ a > 0 /\ b > 0
  BY DEF Product
<1>2. PICK q \in Nat, r \in Nat : q = n \div b /\ r = n % b /\ n = b * q + r /\ r < b
  BY <1>1
<1>3. q < a
  <2>. SUFFICES ASSUME q >= a PROVE FALSE
    OBVIOUS
  <2>1. b * q >= b * a
    BY <1>1
  <2>2. b * a = a * b /\ b * q \in Nat /\ a * b \in Nat
    OBVIOUS
  <2>. QED BY <1>1, <1>2, <2>1, <2>2
<1>4. PICK s \in Nat : s = a * r /\ s < w
  <2>1. a * r \in Nat /\ a * r < a * b
    BY <1>1, <1>2
  <2>. QED BY <1>1, <2>1
<1>5. PICK m \in Nat : m = n * a
  OBVIOUS
<1>6. m = w * q + s
  <2>1. (b * q + r) * a = (a * b) * q + a * r
    OBVIOUS
  <2>. QED BY <1>1, <1>2, <1>4, <1>5, <2>1
<1>7. m % w = s
  BY <1>4, <1>6, DivisionIs DEF Divided
<1>8. ((n * a) % w) + (n \div b) = a * r + q
  BY <1>2, <1>4, <1>5, <1>7
<1>. QED BY <1>2, <1>3, <1>8 DEF Rotates, Divided

\* md5_rol turns a word around.
LEMMA RolUndone ==
    ASSUME NEW n \in Nat, n < Word, NEW c \in 1..(WordBits - 1)
    PROVE  md5_rol(md5_rol(n, c), WordBits - c) = n
<1>1. PICK W \in 7..32 : W = WordBits
  BY WordBitsAssumption DEF WordBitsAssumption
<1>2. PICK d : d = W - c
  OBVIOUS
<1>3. c \in 0..32 /\ d \in 0..32 /\ c \in 0..WordBits /\ W - d = c
  BY <1>1, <1>2
<1>4. Doubled(c) /\ Doubled(d)
  BY <1>3, Doubles
<1>5. PICK a \in Nat, b \in Nat : a = 2^c /\ b = 2^d /\ a > 0 /\ b > 0
  BY <1>4 DEF Doubled
<1>6. PICK w \in Nat : w = Word /\ w = a * b /\ w = b * a
  <2>1. Word = a * b
    BY <1>1, <1>2, <1>3, <1>5, PowersSplit
  <2>. QED BY <2>1
<1>7. Product(w, a, b) /\ Product(w, b, a) /\ n < w
  BY <1>5, <1>6 DEF Product
<1>8. PICK q \in Nat, r \in Nat : Rotates(n, w, a, b, q, r)
  BY <1>7, RotationIs
<1>9. PICK m \in Nat : m = a * r + q
  OBVIOUS
<1>10. md5_rol(n, c) = m
  <2>1. md5_rol(n, c) = ((n * a) % w) + (n \div b)
    BY <1>1, <1>2, <1>5, <1>6 DEF md5_rol
  <2>. QED BY <1>8, <1>9, <2>1 DEF Rotates
<1>11. m < w
  <2>1. r < b /\ q < a
    BY <1>8 DEF Rotates, Divided
  <2>2. a * (r + 1) <= a * b
    BY ONLY <2>1, a \in Nat, b \in Nat, r \in Nat
  <2>3. a * (r + 1) = a * r + a
    BY ONLY a \in Nat, r \in Nat
  <2>4. a * r \in Nat /\ a * b \in Nat
    OBVIOUS
  <2>. QED BY ONLY <2>1, <2>2, <2>3, <2>4, <1>6, <1>9, q \in Nat, a \in Nat
<1>12. PICK q2 \in Nat, r2 \in Nat : Rotates(m, w, b, a, q2, r2)
  BY <1>7, <1>11, RotationIs
<1>13. q2 = r /\ r2 = q
  <2>1. Divided(m, a, r, q) /\ Divided(m, a, q2, r2)
    BY <1>8, <1>9, <1>12 DEF Rotates, Divided
  <2>2. m \div a = r /\ m % a = q
    BY ONLY <2>1, a \in Nat, q \in Nat, r \in Nat, DivisionIs
  <2>3. m \div a = q2 /\ m % a = r2
    BY ONLY <2>1, a \in Nat, q2 \in Nat, r2 \in Nat, DivisionIs
  <2>. QED BY ONLY <2>2, <2>3, Zenon
<1>14. md5_rol(m, d) = b * q + r
  <2>1. md5_rol(m, d) = ((m * b) % w) + (m \div a)
    BY <1>1, <1>3, <1>5, <1>6 DEF md5_rol
  <2>. QED BY <1>12, <1>13, <2>1 DEF Rotates
<1>15. n = b * q + r
  BY <1>8 DEF Rotates, Divided
<1>. QED BY <1>1, <1>2, <1>10, <1>14, <1>15

\* The words of a block in the order of RFC 1321.
LEMMA WordsInOrder ==
    ASSUME NEW k \in 0..63
    PROVE  StepWord[k + 1] = <<k, 5 * k + 1, 3 * k + 5, 7 * k>>[1 + (k \div 16)] % 16
<1>1. CASE k \in 0..15
  <2>1. k \div 16 = 0 /\ StepWord[k + 1] = k % 16
    BY <1>1 DEF StepWord
  <2>. QED BY <2>1
<1>2. CASE k \in 16..31
  <2>1. k \div 16 = 1 /\ StepWord[k + 1] = (5 * k + 1) % 16
    BY <1>2 DEF StepWord
  <2>. QED BY <2>1
<1>3. CASE k \in 32..47
  <2>1. k \div 16 = 2 /\ StepWord[k + 1] = (3 * k + 5) % 16
    BY <1>3 DEF StepWord
  <2>. QED BY <2>1
<1>4. CASE k \in 48..63
  <2>1. k \div 16 = 3 /\ StepWord[k + 1] = (7 * k) % 16
    BY <1>4 DEF StepWord
  <2>. QED BY <2>1
<1>. QED BY <1>1, <1>2, <1>3, <1>4

\* The functions of the rounds choose between bits, and count them.
LEMMA FunctionsAre ==
    ASSUME NEW x \in {0, 1}, NEW y \in {0, 1}, NEW z \in {0, 1}
    PROVE  /\ md5_f(x, y, z) = (IF x = 1 THEN y ELSE z) /\ md5_g(x, y, z) = (IF z = 1 THEN x ELSE y)
           /\ md5_h(x, y, z) = (x + y + z) % 2 /\ md5_i(x, y, z) = (IF x = 1 \/ z = 0 THEN 1 - y ELSE y)
<1>1. md5_f(x, y, z) = (IF x = 1 THEN y ELSE z)
  BY DEF md5_f, Or, And, Not
<1>2. md5_g(x, y, z) = (IF z = 1 THEN x ELSE y)
  BY DEF md5_g, Or, And, Not
<1>3. md5_h(x, y, z) = (x + y + z) % 2
  BY DEF md5_h, Xor
<1>4. md5_i(x, y, z) = (IF x = 1 \/ z = 0 THEN 1 - y ELSE y)
  BY DEF md5_i, Xor, Or, Not
<1>. QED BY <1>1, <1>2, <1>3, <1>4

\* Four more elements.
Sized(S, n) == IsFiniteSet(S) /\ Cardinality(S) = n

Fresh(S, a, b, c, d) ==
    /\ a \notin S /\ b \notin S /\ c \notin S /\ d \notin S
    /\ a # b /\ a # c /\ a # d /\ b # c /\ b # d /\ c # d

\* Four shifts that a round adds to those of the rounds before it.
LEMMA FourMore ==
    ASSUME NEW S, NEW n \in Nat, Sized(S, n), NEW a, NEW b, NEW c, NEW d, Fresh(S, a, b, c, d)
    PROVE  Sized(S \cup {a, b, c, d}, n + 4)
<1>1. /\ a \notin S /\ b \notin S /\ c \notin S /\ d \notin S
      /\ a # b /\ a # c /\ a # d /\ b # c /\ b # d /\ c # d
      /\ IsFiniteSet(S) /\ Cardinality(S) = n
  BY DEF Fresh, Sized
<1>. DEFINE A == S \cup {a}
            B == A \cup {b}
            C == B \cup {c}
            D == C \cup {d}
<1>2. IsFiniteSet(A) /\ Cardinality(A) = n + 1
  BY <1>1, FS_AddElement
<1>3. IsFiniteSet(B) /\ Cardinality(B) = Cardinality(A) + 1
  <2>. HIDE DEF A
  <2>1. b \notin A
    BY <1>1 DEF A
  <2>. QED BY <1>2, <2>1, FS_AddElement
<1>4. IsFiniteSet(C) /\ Cardinality(C) = Cardinality(B) + 1
  <2>1. c \notin B
    BY <1>1
  <2>. HIDE DEF B
  <2>. QED BY <1>3, <2>1, FS_AddElement
<1>5. IsFiniteSet(D) /\ Cardinality(D) = Cardinality(C) + 1
  <2>1. d \notin C
    BY <1>1
  <2>. HIDE DEF C
  <2>. QED BY <1>4, <2>1, FS_AddElement
<1>6. D = S \cup {a, b, c, d}
  OBVIOUS
<1>7. Cardinality(D) = n + 4
  <2>. HIDE DEF A, B, C, D
  <2>. QED BY <1>2, <1>3, <1>4, <1>5
<1>. HIDE DEF A, B, C, D
<1>. QED BY <1>5, <1>6, <1>7 DEF Sized

\* The shifts of each round.
LEMMA ShiftsAre ==
    ASSUME NEW i \in 1..64
    PROVE  /\ i \in 1..16 => StepShift(i) = <<7, 12, 17, 22>>[1 + ((i - 1) % 4)]
           /\ i \in 17..32 => StepShift(i) = <<5, 9, 14, 20>>[1 + ((i - 1) % 4)]
           /\ i \in 33..48 => StepShift(i) = <<4, 11, 16, 23>>[1 + ((i - 1) % 4)]
           /\ i \in 49..64 => StepShift(i) = <<6, 10, 15, 21>>[1 + ((i - 1) % 4)]
<1>. DEFINE r == (i - 1) \div 16
            j == 1 + ((i - 1) % 4)
<1>1. /\ i \in 1..16 => r = 0
      /\ i \in 17..32 => r = 1
      /\ i \in 33..48 => r = 2
      /\ i \in 49..64 => r = 3
  OBVIOUS
<1>. DEFINE rounds == <<<<7, 12, 17, 22>>, <<5, 9, 14, 20>>, <<4, 11, 16, 23>>, <<6, 10, 15, 21>>>>
<1>2. StepShift(i) = rounds[1 + r][j]
  BY DEF StepShift
<1>3. /\ rounds[1 + 0] = <<7, 12, 17, 22>> /\ rounds[1 + 1] = <<5, 9, 14, 20>>
      /\ rounds[1 + 2] = <<4, 11, 16, 23>> /\ rounds[1 + 3] = <<6, 10, 15, 21>>
  OBVIOUS
<1>. HIDE DEF rounds, r
<1>. QED BY <1>1, <1>2, <1>3

\* Every round has four shifts of its own.
LEMMA SixteenShifts == Cardinality({StepShift(i) : i \in 1..64}) = 16
<1>. DEFINE T == {StepShift(i) : i \in 1..64}
            A == {7, 12, 17, 22}
            B == {5, 9, 14, 20}
            C == {4, 11, 16, 23}
            D == {6, 10, 15, 21}
<1>1. ASSUME NEW i \in 1..64 PROVE StepShift(i) \in A \cup B \cup C \cup D
  <2>1. 1 + ((i - 1) % 4) \in {1, 2, 3, 4}
    OBVIOUS
  <2>2. PICK j \in {1, 2, 3, 4} : j = 1 + ((i - 1) % 4)
    BY <2>1
  <2>3. i \in 1..16 \/ i \in 17..32 \/ i \in 33..48 \/ i \in 49..64
    OBVIOUS
  <2>4. /\ <<7, 12, 17, 22>>[j] \in A /\ <<5, 9, 14, 20>>[j] \in B
        /\ <<4, 11, 16, 23>>[j] \in C /\ <<6, 10, 15, 21>>[j] \in D
    OBVIOUS
  <2>. HIDE DEF A, B, C, D
  <2>5. StepShift(i) \in A \/ StepShift(i) \in B \/ StepShift(i) \in C \/ StepShift(i) \in D
    BY <2>2, <2>3, <2>4, ShiftsAre
  <2>. QED BY <2>5
<1>2. /\ StepShift(1) = 7 /\ StepShift(2) = 12 /\ StepShift(3) = 17 /\ StepShift(4) = 22
      /\ StepShift(17) = 5 /\ StepShift(18) = 9 /\ StepShift(19) = 14 /\ StepShift(20) = 20
  BY DEF StepShift
<1>3. /\ StepShift(33) = 4 /\ StepShift(34) = 11 /\ StepShift(35) = 16 /\ StepShift(36) = 23
      /\ StepShift(49) = 6 /\ StepShift(50) = 10 /\ StepShift(51) = 15 /\ StepShift(52) = 21
  BY DEF StepShift
<1>4. A \cup B \subseteq T
  <2>1. \A i \in 1..64 : StepShift(i) \in T
    OBVIOUS
  <2>2. {1, 2, 3, 4, 17, 18, 19, 20} \subseteq 1..64
    OBVIOUS
  <2>. HIDE DEF T
  <2>. QED BY <1>2, <2>1, <2>2
<1>5. C \cup D \subseteq T
  <2>1. \A i \in 1..64 : StepShift(i) \in T
    OBVIOUS
  <2>2. {33, 34, 35, 36, 49, 50, 51, 52} \subseteq 1..64
    OBVIOUS
  <2>. HIDE DEF T
  <2>. QED BY <1>3, <2>1, <2>2
<1>6. T = (({} \cup A) \cup B \cup C) \cup D
  <2>1. T \subseteq A \cup B \cup C \cup D
    BY <1>1
  <2>. HIDE DEF A, B, C, D, T
  <2>. QED BY <1>4, <1>5, <2>1
<1>7. Sized({}, 0)
  BY FS_EmptySet DEF Sized
<1>8. Sized({} \cup A, 4)
  <2>1. Fresh({}, 7, 12, 17, 22)
    BY DEF Fresh
  <2>2. Sized({} \cup A, 0 + 4)
    BY <1>7, <2>1, FourMore, Zenon
  <2>. QED BY <2>2
<1>9. Sized(({} \cup A) \cup B, 8)
  <2>1. Fresh({} \cup A, 5, 9, 14, 20)
    BY DEF Fresh
  <2>2. Sized(({} \cup A) \cup B, 4 + 4)
    BY <1>8, <2>1, FourMore, Zenon
  <2>. QED BY <2>2
<1>10. Sized(({} \cup A) \cup B \cup C, 12)
  <2>1. Fresh(({} \cup A) \cup B, 4, 11, 16, 23)
    BY DEF Fresh
  <2>2. Sized((({} \cup A) \cup B) \cup C, 8 + 4)
    BY <1>9, <2>1, FourMore, Zenon
  <2>. QED BY <2>2
<1>11. Sized((({} \cup A) \cup B \cup C) \cup D, 16)
  <2>1. Fresh(({} \cup A) \cup B \cup C, 6, 10, 15, 21)
    BY DEF Fresh
  <2>2. Sized((({} \cup A) \cup B \cup C) \cup D, 12 + 4)
    BY <1>10, <2>1, FourMore, Zenon
  <2>. QED BY <2>2
<1>. HIDE DEF A, B, C, D
<1>. QED BY <1>6, <1>11 DEF Sized

\* The schedule of Update is that of RFC 1321 for every step and every word.
LEMMA MixesLikeRFCHolds ==
    ASSUME mode = "message" => in \in Seq(Nat)
    PROVE  MixesLikeRFC
<1>. DEFINE k == (Len(in) - 1) % 64
            Bit(n) == (Len(in) \div n) % 2
<1>. SUFFICES ASSUME mode = "message", in # <<>>, Len(in) < Word
              PROVE  /\ StepWord[k + 1] = <<k, 5 * k + 1, 3 * k + 5, 7 * k>>[1 + (k \div 16)] % 16
                     /\ Cardinality({StepShift(i) : i \in 1..64}) = 16
                     /\ md5_f(Bit(1), Bit(2), Bit(4)) = (IF Bit(1) = 1 THEN Bit(2) ELSE Bit(4))
                     /\ md5_g(Bit(1), Bit(2), Bit(4)) = (IF Bit(4) = 1 THEN Bit(1) ELSE Bit(2))
                     /\ md5_h(Bit(1), Bit(2), Bit(4)) = (Bit(1) + Bit(2) + Bit(4)) % 2
                     /\ md5_i(Bit(1), Bit(2), Bit(4)) = (IF Bit(1) = 1 \/ Bit(4) = 0 THEN 1 - Bit(2) ELSE Bit(2))
                     /\ \A c \in 1..(WordBits - 1) : md5_rol(md5_rol(Len(in), c), WordBits - c) = Len(in)
  BY Zenon DEF MixesLikeRFC
<1>1. Len(in) \in Nat
  BY LenProperties
<1>2. PICK l \in Nat : l = Len(in)
  BY <1>1
<1>3. k \in 0..63
  <2>1. (l - 1) % 64 \in 0..63
    BY ONLY l \in Nat
  <2>. QED BY ONLY <1>2, <2>1
<1>4. Bit(1) \in {0, 1} /\ Bit(2) \in {0, 1} /\ Bit(4) \in {0, 1}
  <2>1. (l \div 1) % 2 \in {0, 1} /\ (l \div 2) % 2 \in {0, 1} /\ (l \div 4) % 2 \in {0, 1}
    BY ONLY l \in Nat
  <2>. QED BY ONLY <1>2, <2>1
<1>. HIDE DEF k, Bit
<1>5. StepWord[k + 1] = <<k, 5 * k + 1, 3 * k + 5, 7 * k>>[1 + (k \div 16)] % 16
  BY <1>3, WordsInOrder, Zenon
<1>6. Cardinality({StepShift(i) : i \in 1..64}) = 16
  BY SixteenShifts, Zenon
<1>7. /\ md5_f(Bit(1), Bit(2), Bit(4)) = (IF Bit(1) = 1 THEN Bit(2) ELSE Bit(4))
      /\ md5_g(Bit(1), Bit(2), Bit(4)) = (IF Bit(4) = 1 THEN Bit(1) ELSE Bit(2))
      /\ md5_h(Bit(1), Bit(2), Bit(4)) = (Bit(1) + Bit(2) + Bit(4)) % 2
      /\ md5_i(Bit(1), Bit(2), Bit(4)) = (IF Bit(1) = 1 \/ Bit(4) = 0 THEN 1 - Bit(2) ELSE Bit(2))
  BY <1>4, FunctionsAre, Zenon
<1>8. ASSUME NEW c \in 1..(WordBits - 1) PROVE md5_rol(md5_rol(Len(in), c), WordBits - c) = Len(in)
  BY <1>1, RolUndone
<1>. QED BY <1>5, <1>6, <1>7, <1>8, Zenon

-----------------------------------------------------------------------------
(* The blocks of a message *)

\* The values of an unsigned long.
LEMMA WordIs == Word \in Nat
<1>1. WordBits \in 0..32
  BY WordBitsAssumption DEF WordBitsAssumption
<1>. QED BY <1>1, Doubles DEF Doubled, Word

\* The loop of GetSum takes every whole block.
LEMMA TurnsIs ==
    ASSUME NEW L \in Nat, L < Word - 64
    PROVE  /\ Turns(L) \in Nat /\ 64 * Turns(L) <= L /\ L < 64 * Turns(L) + 64
           /\ L % 64 = L - 64 * Turns(L)
<1>1. Word \in Nat
  BY WordIs
<1>2. PICK w \in Nat : w = Word
  BY <1>1
<1>3. PICK t \in Nat, k \in Nat : L = 64 * k + t /\ t < 64 /\ t = L % 64
  <2>1. L = 64 * (L \div 64) + (L % 64) /\ L % 64 < 64 /\ L % 64 \in Nat /\ L \div 64 \in Nat
    OBVIOUS
  <2>. QED BY <2>1
<1>. DEFINE P(j) == (64 * j + 64) % Word > L /\ \A h \in 0..(j - 1) : (64 * h + 64) % Word <= L
<1>4. ASSUME NEW j \in 0..k PROVE (64 * j + 64) % Word = 64 * j + 64
  <2>1. 64 * j + 64 < w
    BY ONLY <1>2, <1>3, L < Word - 64, L \in Nat, j \in 0..k, k \in Nat, w \in Nat, t \in Nat
  <2>2. \A x \in Nat : x < w => x % w = x
    BY ONLY w \in Nat
  <2>3. 64 * j + 64 \in Nat
    BY ONLY j \in 0..k, k \in Nat
  <2>. QED BY ONLY <1>2, <2>1, <2>2, <2>3
<1>5. k \in 0..L /\ P(k)
  <2>1. k \in 0..L /\ k \in 0..k /\ 64 * k + 64 > L
    BY ONLY <1>3, L \in Nat
  <2>2. ASSUME NEW h \in 0..(k - 1) PROVE h \in 0..k /\ 64 * h + 64 <= L
    BY ONLY <1>3, L \in Nat, k \in Nat, h \in 0..(k - 1)
  <2>. QED BY ONLY <1>4, <2>1, <2>2
<1>6. Turns(L) = CHOOSE j \in 0..L : P(j)
  BY DEF Turns
<1>7. Turns(L) \in 0..L /\ P(Turns(L))
  <2>. HIDE DEF P
  <2>. QED BY <1>5, <1>6
<1>8. PICK j \in Nat : j = Turns(L) /\ P(j)
  <2>. HIDE DEF P
  <2>. QED BY ONLY <1>7, L \in Nat
<1>9. ~(j > k)
  <2>. SUFFICES ASSUME j > k PROVE FALSE
    OBVIOUS
  <2>1. k \in 0..(j - 1) /\ k \in 0..k
    OBVIOUS
  <2>2. (64 * k + 64) % Word <= L
    BY ONLY <1>8, <2>1
  <2>. QED BY ONLY <1>3, <1>4, <2>1, <2>2, k \in Nat
<1>10. ~(j < k)
  <2>. SUFFICES ASSUME j < k PROVE FALSE
    OBVIOUS
  <2>1. j \in 0..k
    OBVIOUS
  <2>2. 64 * j + 64 > L
    BY ONLY <1>4, <1>8, <2>1
  <2>. QED BY ONLY <1>3, <2>2, j \in Nat, k \in Nat, j < k, t \in Nat
<1>11. j = k
  BY ONLY <1>9, <1>10, j \in Nat, k \in Nat
<1>. QED BY ONLY <1>3, <1>8, <1>11, L \in Nat

FeedTurn(m, x, block) == Update(x, block)

\* The blocks of the first turns, and how many bytes they are.
FedHold(m, i, x) ==
    64 * i < Word => x = [fed |-> [j \in 1..i |-> BlockAt(m, j)], length |-> <<64 * i, 0>>]

FeedLoop == INSTANCE LoopTheorems WITH op <- FeedTurn, holds <- FedHold

\* A turn counts the bytes of its block without a carry.
LEMMA Counted ==
    ASSUME NEW a \in Nat, NEW b \in Nat, NEW z, a + b < Word
    PROVE  addLength(<<a, z>>, b) = <<a + b, z>>
<1>1. Word \in Nat
  BY WordIs
<1>2. (a + b) % Word = a + b /\ ~(Word - 1 - a < b)
  BY <1>1
<1>. QED BY <1>2 DEF addLength

\* The fold of GetSum.
LEMMA FeedsBlocks ==
    ASSUME NEW m, NEW k \in Nat, 64 * k < Word
    PROVE  FoldLeft(Update, MD5p, [i \in 1..k |-> BlockAt(m, i)])
             = [fed |-> [j \in 1..k |-> BlockAt(m, j)], length |-> <<64 * k, 0>>]
<1>. DEFINE blocks == [i \in 1..k |-> BlockAt(m, i)]
<1>1. FoldLeft(Update, MD5p, blocks) = FeedLoop!Fold(m, MD5p, blocks)
  BY DEF FeedLoop!Fold, FeedTurn, FoldLeft, FeedLoop!FoldLeft, MapThenFoldSet, FeedLoop!MapThenFoldSet, Max, FeedLoop!Max
<1>2. DOMAIN blocks = 1..k /\ \A i \in 1..k : blocks[i] = BlockAt(m, i)
  OBVIOUS
<1>3. FedHold(m, 0, MD5p)
  <2>1. [j \in 1..0 |-> BlockAt(m, j)] = <<>> /\ 64 * 0 = 0
    OBVIOUS
  <2>. QED BY <2>1 DEF FedHold, MD5p
<1>4. ASSUME NEW i \in 1..k, NEW x, FedHold(m, i - 1, x) PROVE FedHold(m, i, FeedTurn(m, x, blocks[i]))
  <2>. SUFFICES ASSUME 64 * i < Word
                PROVE  Update(x, blocks[i]) = [fed |-> [j \in 1..i |-> BlockAt(m, j)], length |-> <<64 * i, 0>>]
    BY DEF FedHold, FeedTurn
  <2>1. 64 * (i - 1) < Word /\ 64 * (i - 1) \in Nat /\ 64 * (i - 1) + 64 = 64 * i
    <3>1. Word \in Nat
      BY WordIs
    <3>. QED BY ONLY <3>1, i \in 1..k, k \in Nat, 64 * i < Word
  <2>2. x = [fed |-> [j \in 1..(i - 1) |-> BlockAt(m, j)], length |-> <<64 * (i - 1), 0>>]
    BY <1>4, <2>1 DEF FedHold
  <2>3. addLength(<<64 * (i - 1), 0>>, 64) = <<64 * i, 0>>
    BY <2>1, Counted
  <2>4. Append([j \in 1..(i - 1) |-> BlockAt(m, j)], blocks[i]) = [j \in 1..i |-> BlockAt(m, j)]
    <3>. DEFINE S == {BlockAt(m, j) : j \in 1..i}
                shorter == [j \in 1..(i - 1) |-> BlockAt(m, j)]
                b == BlockAt(m, i)
                longer == Append(shorter, b)
    <3>1. blocks[i] = b
      BY <1>2
    <3>2. shorter \in Seq(S) /\ b \in S /\ Len(shorter) = i - 1
      <4>1. i - 1 \in Nat /\ \A j \in 1..(i - 1) : j \in 1..i
        OBVIOUS
      <4>2. shorter \in [1..(i - 1) -> S]
        BY <4>1
      <4>3. shorter \in Seq(S)
        <5>. HIDE DEF shorter, S
        <5>. QED BY <4>1, <4>2, IsASeq
      <4>4. DOMAIN shorter = 1..(i - 1)
        OBVIOUS
      <4>5. Len(shorter) = i - 1
        <5>. HIDE DEF shorter
        <5>. QED BY <4>1, <4>3, <4>4, LenProperties
      <4>. QED BY <4>3, <4>5
    <3>3. \A j \in 1..(i - 1) : shorter[j] = BlockAt(m, j)
      OBVIOUS
    <3>. HIDE DEF blocks, S, shorter, b
    <3>4. /\ longer \in Seq(S) /\ Len(longer) = i /\ longer[i] = b
          /\ \A j \in 1..(i - 1) : longer[j] = shorter[j]
      BY <3>2, AppendProperties
    <3>. HIDE DEF longer
    <3>5. DOMAIN longer = 1..i /\ longer = [j \in 1..i |-> longer[j]]
      BY <3>4, LenProperties
    <3>6. \A j \in 1..i : longer[j] = BlockAt(m, j)
      <4>1. \A j \in 1..i : j = i \/ j \in 1..(i - 1)
        OBVIOUS
      <4>. QED BY <3>3, <3>4, <4>1 DEF b
    <3>. QED BY <3>1, <3>5, <3>6 DEF longer, shorter, b
  <2>. QED BY <2>2, <2>3, <2>4 DEF Update
<1>. HIDE DEF blocks
<1>5. FedHold(m, k, FeedLoop!Fold(m, MD5p, blocks))
  BY <1>2, <1>3, <1>4, FeedLoop!FoldInvariant
<1>. QED BY <1>1, <1>5 DEF FedHold, blocks

\* The bits that leave the first word of the length are those of its second one.
LEMMA LengthCarries ==
    ASSUME NEW L \in Nat
    PROVE  (8 * L) \div Word = L \div 2^(WordBits - 3)
<1>1. 3 \in 0..WordBits /\ WordBits - 3 \in 0..32
  BY WordBitsAssumption DEF WordBitsAssumption
<1>2. PICK b \in Nat : b = 2^(WordBits - 3) /\ b > 0
  BY <1>1, Doubles DEF Doubled
<1>3. Word = 8 * b
  <2>1. 2^3 * 2^(WordBits - 3) = Word
    BY <1>1, PowersSplit
  <2>2. 2^3 = 8
    OBVIOUS
  <2>. QED BY ONLY <1>2, <2>1, <2>2
<1>4. PICK q \in Nat, r \in Nat : q = L \div b /\ L = b * q + r /\ r < b
  <2>1. PICK q : q = L \div b
    OBVIOUS
  <2>2. PICK r : r = L % b
    OBVIOUS
  <2>3. q \in Nat /\ r \in Nat /\ L = b * q + r /\ r < b
    BY ONLY <1>2, <2>1, <2>2, L \in Nat, b \in Nat
  <2>. QED BY ONLY <2>1, <2>3
<1>5. Divided(8 * L, 8 * b, q, 8 * r)
  <2>1. b * q \in Nat /\ (8 * b) * q = 8 * (b * q)
    BY ONLY b \in Nat, q \in Nat
  <2>2. 8 * r < 8 * b /\ 8 * L = 8 * (b * q) + 8 * r
    BY ONLY <1>4, <2>1, L \in Nat, b \in Nat, r \in Nat
  <2>. QED BY ONLY <2>1, <2>2 DEF Divided
<1>6. (8 * L) \div (8 * b) = q
  <2>1. 8 * b \in Nat /\ 8 * r \in Nat
    OBVIOUS
  <2>. QED BY <1>5, <2>1, DivisionIs
<1>. QED BY <1>2, <1>3, <1>4, <1>6

\* How many bytes Padding adds to a tail of t bytes, without the two words: 80 and zeros.
Added(t) == (IF t >= 56 THEN 120 ELSE 56) - t

EightyZeros(n) == [i \in 1..n |-> IF i = 1 THEN 128 ELSE 0]

ZeroBytes(n) == [i \in 1..n |-> 0]

\* The length of a message in bits, as two words.
BitLength(m) == <<(8 * Len(m)) % Word, (8 * Len(m)) \div Word>>

\* The parts of the padding.
LEMMA PaddingParts ==
    ASSUME NEW n \in 1..64
    PROVE  /\ EightyZeros(n) \in Seq(Nat) /\ Len(EightyZeros(n)) = n
           /\ ZeroBytes(n - 1) \in Seq(Nat)
           /\ <<128>> \in Seq(Nat)
           /\ EightyZeros(n) = <<128>> \o ZeroBytes(n - 1)
<1>. DEFINE e == EightyZeros(n)
            z == ZeroBytes(n - 1)
            o == <<128>>
            c == o \o z
<1>1. n \in Nat /\ n - 1 \in Nat /\ 1 \in 1..n
  OBVIOUS
<1>2. e \in [1..n -> Nat] /\ e[1] = 128 /\ (\A i \in 1..n : i # 1 => e[i] = 0) /\ DOMAIN e = 1..n
  BY <1>1 DEF EightyZeros
<1>3. z \in [1..(n - 1) -> Nat] /\ (\A i \in 1..(n - 1) : z[i] = 0) /\ DOMAIN z = 1..(n - 1)
  BY DEF ZeroBytes
<1>4. o \in Seq(Nat) /\ Len(o) = 1 /\ o[1] = 128
  OBVIOUS
<1>. HIDE DEF e, z, o
<1>5. e \in Seq(Nat) /\ Len(e) = n
  BY ONLY <1>1, <1>2, IsASeq, LenProperties
<1>6. z \in Seq(Nat) /\ Len(z) = n - 1
  BY ONLY <1>1, <1>3, IsASeq, LenProperties
<1>7. /\ c \in Seq(Nat) /\ Len(c) = n
      /\ \A i \in 1..n : c[i] = IF i <= 1 THEN o[i] ELSE z[i - 1]
  <2>1. /\ c \in Seq(Nat) /\ Len(c) = Len(o) + Len(z)
        /\ \A i \in 1..(Len(o) + Len(z)) : c[i] = IF i <= Len(o) THEN o[i] ELSE z[i - Len(o)]
    <3>1. o \in Seq(Nat) /\ z \in Seq(Nat)
      BY <1>4, <1>6
    <3>. QED BY ONLY <3>1, ConcatProperties
  <2>2. Len(o) + Len(z) = n
    BY ONLY <1>1, <1>4, <1>6
  <2>. HIDE DEF c
  <2>3. c \in Seq(Nat) /\ Len(c) = n
    BY <2>1, <2>2, Zenon
  <2>4. ASSUME NEW i \in 1..n PROVE c[i] = IF i <= 1 THEN o[i] ELSE z[i - 1]
    <3>1. Len(o) = 1
      BY <1>4, Zenon
    <3>2. i \in 1..(Len(o) + Len(z))
      BY <2>2, Zenon
    <3>3. c[i] = IF i <= Len(o) THEN o[i] ELSE z[i - Len(o)]
      BY <2>1, <3>2, Zenon
    <3>. QED BY ONLY <3>1, <3>3
  <2>. QED BY <2>3, <2>4, Zenon
<1>. HIDE DEF c
<1>8. Len(c) = n
  BY <1>7
<1>9. ASSUME NEW i \in 1..n PROVE c[i] = e[i]
  <2>1. c[i] = IF i <= 1 THEN o[i] ELSE z[i - 1]
    BY <1>7
  <2>2. CASE i = 1
    BY ONLY <1>2, <1>4, <2>1, <2>2
  <2>3. CASE i # 1
    <3>1. ~(i <= 1) /\ i - 1 \in 1..(n - 1)
      BY ONLY <2>3, n \in 1..64, i \in 1..n
    <3>. QED BY ONLY <1>2, <1>3, <2>1, <2>3, <3>1, i \in 1..n
  <2>. QED BY <2>2, <2>3
<1>10. c = e
  <2>1. \A i \in 1..Len(c) : c[i] = e[i]
    BY ONLY <1>8, <1>9
  <2>. QED BY ONLY <1>5, <1>7, <1>8, <2>1, SeqEqual
<1>. QED BY <1>4, <1>5, <1>6, <1>10 DEF c, e, z, o

\* The bytes and the words that RFC 1321 adds to a message whose tail has t bytes.
ZerosAdded(m, t) == PaddedMessage(m) = m \o <<128>> \o ZeroBytes(Added(t) - 1) \o BitLength(m)

\* The zeros of RFC 1321.
LEMMA ZerosFound ==
    ASSUME NEW m, NEW L \in Nat, L = Len(m), NEW t \in 0..63, L % 64 = t
    PROVE  ZerosAdded(m, t)
<1>. DEFINE P(z) == (Len(m) + 1 + z) % 64 = 56
<1>1. PICK z : z = Added(t) - 1
  OBVIOUS
<1>2. z \in 0..63
  BY <1>1 DEF Added
<1>3. PICK k \in Nat : L = 64 * k + t
  OBVIOUS
<1>4. P(z)
  <2>1. L + 1 + z = 64 * k + 56 \/ L + 1 + z = 64 * (k + 1) + 56
    BY <1>1, <1>3 DEF Added
  <2>2. (64 * k + 56) % 64 = 56 /\ (64 * (k + 1) + 56) % 64 = 56
    BY ONLY k \in Nat
  <2>. QED BY <2>1, <2>2
<1>5. ASSUME NEW y \in 0..63, P(y) PROVE y = z
  <2>1. (L + 1 + y) % 64 = 56 /\ (L + 1 + z) % 64 = 56
    BY <1>4, <1>5
  <2>. QED BY ONLY <1>2, <2>1, L \in Nat, y \in 0..63
<1>6. (CHOOSE y \in 0..63 : P(y)) = z
  <2>. HIDE DEF P
  <2>. QED BY <1>2, <1>4, <1>5
<1>7. PaddedMessage(m) = m \o <<128>> \o [i \in 1..(CHOOSE y \in 0..63 : P(y)) |-> 0]
                           \o <<(8 * Len(m)) % Word, (8 * Len(m)) \div Word>>
  BY Zenon DEF PaddedMessage
<1>. HIDE DEF P
<1>. QED BY <1>1, <1>6, <1>7, Zenon DEF ZeroBytes, BitLength, ZerosAdded

\* The tail of a message behind its whole blocks.
TailOf(m) == SubSeq(m, 64 * Turns(Len(m)) + 1, Len(m))

\* The padding buffer of Final holds the tail, 80, the zeros and the length.
LEMMA PaddingIs ==
    ASSUME NEW m \in Seq(Nat), NEW t \in 0..63, Len(m) % 64 = t, NEW tail \in Seq(Nat), Len(tail) = t
    PROVE  Padding(tail, <<Len(m), 0>>) = tail \o EightyZeros(Added(t)) \o BitLength(m)
<1>1. PICK L \in Nat : L = Len(m)
  BY LenProperties
<1>2. [i \in 1..t |-> tail[i]] = tail
  <2>1. t \in Nat /\ DOMAIN tail = 1..t /\ tail = [i \in DOMAIN tail |-> tail[i]]
    BY LenProperties
  <2>. QED BY <2>1, Zenon
<1>3. ((0 * 8) % Word) + (L \div 2^(WordBits - 3)) = (8 * L) \div Word
  <2>1. PICK w \in Nat : w = Word /\ w > 0
    <3>1. WordBits \in 0..32
      BY WordBitsAssumption DEF WordBitsAssumption
    <3>2. 2^WordBits \in Nat /\ 2^WordBits > 0
      BY <3>1, Doubles DEF Doubled
    <3>3. Word \in Nat /\ Word > 0
      BY ONLY <3>2 DEF Word
    <3>. QED BY ONLY <3>3
  <2>2. (0 * 8) % w = 0
    BY ONLY <2>1
  <2>3. PICK x : x = (8 * L) \div w
    OBVIOUS
  <2>4. x \in Int
    BY ONLY <2>1, <2>3, L \in Nat, w \in Nat
  <2>5. x = L \div 2^(WordBits - 3)
    BY <2>1, <2>3, LengthCarries, Zenon
  <2>6. 0 + x = x
    BY ONLY <2>4
  <2>. QED BY <2>1, <2>2, <2>3, <2>5, <2>6, Zenon
<1>4. L * 8 = 8 * L
  OBVIOUS
<1>. DEFINE length == <<Len(m), 0>>
<1>5. length[1] = L /\ length[2] = 0 /\ L % 64 = t
  BY <1>1
<1>. HIDE DEF length
<1>6. Padding(tail, length) = [i \in 1..(L % 64) |-> tail[i]]
                                \o [i \in 1..((IF L % 64 >= 56 THEN 120 ELSE 56) - (L % 64)) |-> IF i = 1 THEN 128 ELSE 0]
                                \o <<(L * 8) % Word, ((0 * 8) % Word) + (L \div 2^(WordBits - 3))>>
  BY <1>5, Zenon DEF Padding
<1>7. Padding(tail, length) = tail \o EightyZeros(Added(t)) \o <<(8 * L) % Word, (8 * L) \div Word>>
  <2>. DEFINE rest == [i \in 1..(L % 64) |-> tail[i]]
              zeros == [i \in 1..((IF L % 64 >= 56 THEN 120 ELSE 56) - (L % 64)) |-> IF i = 1 THEN 128 ELSE 0]
              low == (L * 8) % Word
              high == ((0 * 8) % Word) + (L \div 2^(WordBits - 3))
  <2>1. rest = tail
    BY <1>2, <1>5, Zenon
  <2>2. zeros = EightyZeros(Added(t))
    BY <1>5 DEF EightyZeros, Added
  <2>3. low = (8 * L) % Word /\ high = (8 * L) \div Word
    BY <1>3, <1>4, Zenon
  <2>4. Padding(tail, length) = rest \o zeros \o <<low, high>>
    BY ONLY <1>6
  <2>. HIDE DEF rest, zeros, low, high
  <2>. QED BY <2>1, <2>2, <2>3, <2>4, Zenon
<1>. QED BY <1>1, <1>7, Zenon DEF BitLength, length

JoinTurn(m, s, t) == s \o t

\* The first blocks joined.
JoinHold(m, i, s) == 64 * i <= Len(m) => s = SubSeq(m, 1, 64 * i)

JoinLoop == INSTANCE LoopTheorems WITH op <- JoinTurn, holds <- JoinHold

\* Concat joins its sequences one after the other.
LEMMA ConcatIs ==
    ASSUME NEW m, NEW ss
    PROVE  Concat(ss) = JoinLoop!Fold(m, <<>>, ss)
BY DEF Concat, JoinLoop!Fold, JoinTurn, FoldLeft, JoinLoop!FoldLeft, MapThenFoldSet, JoinLoop!MapThenFoldSet, Max, JoinLoop!Max

\* A sequence more at the end.
LEMMA ConcatMore ==
    ASSUME NEW ss \in Seq(Seq(Nat)), NEW t \in Seq(Nat)
    PROVE  Concat(Append(ss, t)) = Concat(ss) \o t
<1>1. Concat(ss) = JoinLoop!Fold(t, <<>>, ss) /\ Concat(Append(ss, t)) = JoinLoop!Fold(t, <<>>, Append(ss, t))
  BY ConcatIs, Zenon
<1>2. JoinLoop!Fold(t, <<>>, Append(ss, t)) = JoinTurn(t, JoinLoop!Fold(t, <<>>, ss), t)
  BY JoinLoop!FoldAppend
<1>. QED BY <1>1, <1>2 DEF JoinTurn

\* A block of a message.
LEMMA BlockIs ==
    ASSUME NEW m \in Seq(Nat), NEW i \in Nat, i > 0, 64 * i <= Len(m)
    PROVE  BlockAt(m, i) \in Seq(Nat) /\ Len(BlockAt(m, i)) = 64
<1>1. PICK a \in Nat, b \in Nat : a = 64 * i - 63 /\ b = 64 * i /\ b - a + 1 = 64 /\ a <= b /\ a > 0 /\ b <= Len(m)
  OBVIOUS
<1>2. \A j \in a..b : m[j] \in Nat
  <2>1. Len(m) \in Nat
    BY LenProperties
  <2>2. \A j \in a..b : j \in 1..Len(m)
    BY ONLY <1>1, <2>1, a \in Nat, b \in Nat
  <2>. QED BY <2>2, ElementOfSeq
<1>3. /\ SubSeq(m, a, b) \in Seq(Nat)
      /\ Len(SubSeq(m, a, b)) = IF a <= b THEN b - a + 1 ELSE 0
  <2>1. a \in Int /\ b \in Int
    OBVIOUS
  <2>. QED BY ONLY <1>2, <2>1, SubSeqProperties
<1>4. Len(SubSeq(m, a, b)) = 64
  BY ONLY <1>1, <1>3
<1>. QED BY <1>1, <1>3, <1>4, Zenon DEF BlockAt

\* The blocks joined are the message without its tail.
LEMMA BlocksJoined ==
    ASSUME NEW m \in Seq(Nat), NEW k \in Nat, 64 * k <= Len(m)
    PROVE  Concat([i \in 1..k |-> BlockAt(m, i)]) = SubSeq(m, 1, 64 * k)
<1>. DEFINE blocks == [i \in 1..k |-> BlockAt(m, i)]
<1>1. DOMAIN blocks = 1..k /\ \A i \in 1..k : blocks[i] = BlockAt(m, i)
  OBVIOUS
<1>. HIDE DEF blocks
<1>2. PICK L \in Nat : L = Len(m)
  BY LenProperties
<1>3. JoinHold(m, 0, <<>>)
  <2>1. SubSeq(m, 1, 0) = <<>>
    BY SubSeqEmpty
  <2>2. 64 * 0 = 0
    OBVIOUS
  <2>. QED BY ONLY <2>1, <2>2 DEF JoinHold
<1>4. ASSUME NEW i \in 1..k, NEW s, JoinHold(m, i - 1, s) PROVE JoinHold(m, i, JoinTurn(m, s, blocks[i]))
  <2>. SUFFICES ASSUME 64 * i <= L PROVE s \o blocks[i] = SubSeq(m, 1, 64 * i)
    BY <1>2 DEF JoinHold, JoinTurn
  <2>1. PICK a \in Nat, b \in Nat : /\ a = 64 * (i - 1) /\ b = 64 * i /\ a + 1 = 64 * i - 63
                                    /\ a \in 0..L /\ b \in a..L /\ 1 \in 1..(L + 1) /\ a <= L
    BY ONLY i \in 1..k, k \in Nat, L \in Nat, 64 * i <= L
  <2>2. s = SubSeq(m, 1, a)
    BY <1>2, <1>4, <2>1 DEF JoinHold
  <2>3. blocks[i] = SubSeq(m, a + 1, b)
    BY <1>1, <2>1, Zenon DEF BlockAt
  <2>4. SubSeq(m, 1, a) \o SubSeq(m, a + 1, b) = SubSeq(m, 1, b)
    <3>1. 1 \in 1..(Len(m) + 1) /\ a \in (1 - 1)..Len(m) /\ b \in a..Len(m)
      BY ONLY <1>2, <2>1
    <3>. QED BY ONLY m \in Seq(Nat), <3>1, ConcatAdjacentSubSeq
  <2>. QED BY <2>1, <2>2, <2>3, <2>4, Zenon
<1>5. JoinHold(m, k, JoinLoop!Fold(m, <<>>, blocks))
  BY <1>1, <1>3, <1>4, JoinLoop!FoldInvariant
<1>6. Concat(blocks) = JoinLoop!Fold(m, <<>>, blocks)
  BY ConcatIs, Zenon
<1>. QED BY <1>5, <1>6 DEF JoinHold, blocks

-----------------------------------------------------------------------------
(* What GetSum feeds *)

\* The whole blocks of a message, and what Final adds to them.
BlocksOf(m) == [i \in 1..Turns(Len(m)) |-> BlockAt(m, i)]

PaddingOf(m) == TailOf(m) \o EightyZeros(Added(Len(m) % 64)) \o BitLength(m)

\* The tail is what is left of a message.
LEMMA TailIs ==
    ASSUME NEW m \in Seq(Nat), Len(m) < Word - 64
    PROVE  /\ TailOf(m) \in Seq(Nat) /\ Len(TailOf(m)) = Len(m) % 64
           /\ SubSeq(m, 1, 64 * Turns(Len(m))) \in Seq(Nat)
           /\ SubSeq(m, 1, 64 * Turns(Len(m))) \o TailOf(m) = m
<1>1. PICK L \in Nat : L = Len(m)
  BY LenProperties
<1>2. Turns(L) \in Nat /\ 64 * Turns(L) <= L /\ L < 64 * Turns(L) + 64 /\ L % 64 = L - 64 * Turns(L)
  <2>1. L < Word - 64
    BY <1>1
  <2>. QED BY <2>1, TurnsIs
<1>3. PICK a \in Nat : a = 64 * Turns(L) /\ a <= L /\ L % 64 = L - a
  <2>1. PICK k \in Nat : k = Turns(L)
    BY <1>2
  <2>2. 64 * k \in Nat
    BY ONLY k \in Nat
  <2>. QED BY ONLY <1>2, <2>1, <2>2
<1>4. \A j \in 1..L : m[j] \in Nat
  BY <1>1, ElementOfSeq
<1>5. SubSeq(m, a + 1, L) \in Seq(Nat) /\ Len(SubSeq(m, a + 1, L)) = L - a
  <2>1. a + 1 \in Int /\ L \in Int /\ \A j \in (a + 1)..L : m[j] \in Nat
    BY ONLY <1>4, a \in Nat, L \in Nat
  <2>2. /\ SubSeq(m, a + 1, L) \in Seq(Nat)
        /\ Len(SubSeq(m, a + 1, L)) = IF a + 1 <= L THEN L - (a + 1) + 1 ELSE 0
    BY ONLY <2>1, SubSeqProperties
  <2>3. PICK l : l = Len(SubSeq(m, a + 1, L))
    OBVIOUS
  <2>4. l = IF a + 1 <= L THEN L - (a + 1) + 1 ELSE 0
    BY <2>2, <2>3, Zenon
  <2>5. a <= L
    BY <1>3, Zenon
  <2>6. l = L - a
    BY ONLY <2>4, <2>5, a \in Nat, L \in Nat
  <2>. QED BY <2>2, <2>3, <2>6, Zenon
<1>6. SubSeq(m, 1, a) \in Seq(Nat)
  <2>1. 1 \in Int /\ a \in Int /\ \A j \in 1..a : m[j] \in Nat
    <3>1. \A j \in 1..a : j \in 1..L
      BY ONLY <1>3, a \in Nat, L \in Nat
    <3>. QED BY <1>4, <3>1
  <2>. QED BY ONLY <2>1, SubSeqProperties
<1>7. SubSeq(m, 1, a) \o SubSeq(m, a + 1, L) = m
  <2>1. 1 \in 1..(Len(m) + 1) /\ a \in (1 - 1)..Len(m) /\ L \in a..Len(m)
    BY ONLY <1>1, <1>3, a \in Nat, L \in Nat
  <2>2. SubSeq(m, 1, a) \o SubSeq(m, a + 1, L) = SubSeq(m, 1, L)
    BY ONLY m \in Seq(Nat), <2>1, ConcatAdjacentSubSeq
  <2>. QED BY <1>1, <2>2, SubSeqFull
<1>8. TailOf(m) = SubSeq(m, a + 1, L)
  BY <1>1, <1>3, Zenon DEF TailOf
<1>. QED BY <1>1, <1>3, <1>5, <1>6, <1>7, <1>8, Zenon

\* Three sequences joined.
Joined(a, b, c) ==
    /\ a \o b \o c \in Seq(Nat) /\ Len(a \o b \o c) = Len(a) + Len(b) + Len(c)
    /\ a \o b \o c = a \o (b \o c) /\ b \o c \in Seq(Nat)

\* They are a sequence, whichever two are joined first.
LEMMA Joined3 ==
    ASSUME NEW a \in Seq(Nat), NEW b \in Seq(Nat), NEW c \in Seq(Nat)
    PROVE  Joined(a, b, c)
<1>1. a \o b \in Seq(Nat) /\ Len(a \o b) = Len(a) + Len(b) /\ b \o c \in Seq(Nat)
  BY ConcatProperties
<1>2. (a \o b) \o c \in Seq(Nat) /\ Len((a \o b) \o c) = Len(a \o b) + Len(c)
  BY <1>1, ConcatProperties
<1>3. (a \o b) \o c = a \o (b \o c)
  BY ConcatAssociative
<1>. QED BY ONLY <1>1, <1>2, <1>3 DEF Joined

\* The two words of the length.
LEMMA BitLengthIs ==
    ASSUME NEW m \in Seq(Nat)
    PROVE  BitLength(m) \in Seq(Nat) /\ Len(BitLength(m)) = 2
<1>1. PICK L \in Nat : L = Len(m)
  BY LenProperties
<1>2. PICK w \in Nat : w = Word /\ w > 0
  <2>1. WordBits \in 0..32
    BY WordBitsAssumption DEF WordBitsAssumption
  <2>2. 2^WordBits \in Nat /\ 2^WordBits > 0
    BY <2>1, Doubles DEF Doubled
  <2>. QED BY ONLY <2>2 DEF Word
<1>3. PICK x \in Nat, y \in Nat : x = (8 * L) % w /\ y = (8 * L) \div w
  <2>1. (8 * L) % w \in Nat /\ (8 * L) \div w \in Nat
    BY ONLY <1>2, L \in Nat, w \in Nat
  <2>. QED BY ONLY <2>1
<1>4. BitLength(m) = <<x, y>>
  BY <1>1, <1>2, <1>3, Zenon DEF BitLength
<1>. QED BY <1>4

\* The message and the padding together are the message of RFC 1321.
LEMMA PaddedIs ==
    ASSUME NEW m \in Seq(Nat), Len(m) < Word - 64
    PROVE  /\ PaddingOf(m) \in Seq(Nat)
           /\ Len(PaddingOf(m)) = IF Len(m) % 64 >= 56 THEN 122 ELSE 58
           /\ SubSeq(m, 1, 64 * Turns(Len(m))) \o PaddingOf(m) = PaddedMessage(m)
<1>1. PICK L \in Nat : L = Len(m)
  BY LenProperties
<1>2. PICK t \in 0..63 : t = L % 64
  OBVIOUS
<1>3. PICK n \in 1..64 : n = Added(t)
  BY DEF Added
<1>. DEFINE front == SubSeq(m, 1, 64 * Turns(Len(m)))
            rest == TailOf(m)
            e == EightyZeros(n)
            o == <<128>>
            z == ZeroBytes(n - 1)
            b == BitLength(m)
<1>4. rest \in Seq(Nat) /\ Len(rest) = t /\ front \in Seq(Nat) /\ front \o rest = m
  BY <1>1, <1>2, TailIs
<1>5. /\ e \in Seq(Nat) /\ Len(e) = n /\ z \in Seq(Nat) /\ o \in Seq(Nat)
      /\ e = o \o z
  BY PaddingParts, Zenon
<1>6. b \in Seq(Nat) /\ Len(b) = 2
  BY BitLengthIs, Zenon
<1>7. PaddingOf(m) = rest \o e \o b
  BY <1>1, <1>2, <1>3, Zenon DEF PaddingOf
<1>8. PaddedMessage(m) = m \o o \o z \o b
  <2>1. L = Len(m) /\ L % 64 = t
    BY <1>1, <1>2
  <2>. HIDE DEF front, rest, e, o, z, b
  <2>2. PaddedMessage(m) = m \o <<128>> \o ZeroBytes(Added(t) - 1) \o BitLength(m)
    <3>1. ZerosAdded(m, t)
      BY <2>1, ZerosFound, Zenon
    <3>. QED BY <3>1, Zenon DEF ZerosAdded
  <2>3. PaddedMessage(m) = m \o <<128>> \o ZeroBytes(n - 1) \o BitLength(m)
    BY <1>3, <2>2, Zenon
  <2>. QED BY <2>3 DEF o, z, b
<1>. HIDE DEF front, rest, e, o, z, b
<1>9. rest \in Seq(Nat) /\ front \in Seq(Nat)
  BY <1>4
<1>10. e \in Seq(Nat) /\ o \in Seq(Nat) /\ z \in Seq(Nat)
  BY <1>5
<1>11. b \in Seq(Nat)
  BY <1>6
<1>12. Joined(rest, e, b)
  BY <1>9, <1>10, <1>11, Joined3, Zenon
<1>13. Len(PaddingOf(m)) = IF t >= 56 THEN 122 ELSE 58
  <2>1. Len(rest \o e \o b) = Len(rest) + Len(e) + Len(b)
    BY <1>12, Zenon DEF Joined
  <2>2. Len(PaddingOf(m)) = t + n + 2
    BY <1>4, <1>5, <1>6, <1>7, <2>1, Zenon
  <2>. QED BY ONLY <1>3, <2>2, t \in 0..63, n \in 1..64 DEF Added
<1>14. PaddingOf(m) \in Seq(Nat) /\ PaddingOf(m) = rest \o (e \o b) /\ e \o b \in Seq(Nat)
  <2>1. rest \o e \o b \in Seq(Nat) /\ rest \o e \o b = rest \o (e \o b) /\ e \o b \in Seq(Nat)
    BY <1>12, Zenon DEF Joined
  <2>. QED BY <1>7, <2>1, Zenon
<1>15. front \o PaddingOf(m) = m \o (e \o b)
  <2>1. PICK x \in Seq(Nat) : x = e \o b
    BY <1>14
  <2>2. Joined(front, rest, x)
    BY <1>9, Joined3, Zenon
  <2>3. (front \o rest) \o x = front \o (rest \o x)
    BY <2>2, Zenon DEF Joined
  <2>. QED BY <1>4, <1>14, <2>1, <2>3, Zenon
<1>16. m \o o \o z \o b = m \o (e \o b)
  <2>1. Joined(m, o, z)
    BY <1>10, Joined3, Zenon
  <2>2. Joined(m, e, b)
    BY <1>10, <1>11, Joined3, Zenon
  <2>3. (m \o o) \o z = m \o (o \o z) /\ (m \o e) \o b = m \o (e \o b)
    BY <2>1, <2>2, Zenon DEF Joined
  <2>. QED BY <1>5, <2>3, Zenon
<1>. QED BY <1>1, <1>2, <1>8, <1>13, <1>14, <1>15, <1>16, Zenon DEF front

\* The blocks that Update is called with.
LEMMA GetSumFeeds ==
    ASSUME NEW m \in Seq(Nat), Len(m) < Word - 64
    PROVE  GetSum(m).fed = LET p == PaddingOf(m)
                           IN  IF Len(m) % 64 >= 56
                               THEN Append(Append(BlocksOf(m), SubSeq(p, 1, 64)), SubSeq(p, 65, Len(p)))
                               ELSE Append(BlocksOf(m), p)
<1>1. PICK L \in Nat : L = Len(m)
  BY LenProperties
<1>2. PICK k \in Nat : k = Turns(L) /\ 64 * k <= L /\ L % 64 = L - 64 * k
  <2>1. L < Word - 64
    BY <1>1
  <2>. QED BY <2>1, TurnsIs
<1>3. 64 * k < Word
  <2>1. PICK w \in Nat : w = Word
    BY WordIs
  <2>2. L < w - 64
    BY <1>1, <2>1
  <2>3. 64 * k < w
    <3>1. 64 * k <= L /\ 64 * k \in Nat
      BY <1>2
    <3>. QED BY ONLY <2>2, <3>1, L \in Nat, w \in Nat
  <2>. QED BY ONLY <2>1, <2>3
<1>. DEFINE bs == BlocksOf(m)
            md5 == [fed |-> bs, length |-> <<64 * k, 0>>]
            tail == TailOf(m)
            p == PaddingOf(m)
<1>4. FoldLeft(Update, MD5p, [i \in 1..k |-> BlockAt(m, i)]) = md5
  BY <1>1, <1>2, <1>3, FeedsBlocks DEF BlocksOf
<1>5. GetSum(m) = Final(md5, tail)
  <2>. HIDE DEF md5, tail
  <2>1. GetSum(m) = Final(md5, SubSeq(m, 64 * k + 1, L))
    BY <1>1, <1>2, <1>4, Zenon DEF GetSum
  <2>. QED BY <1>1, <1>2, <2>1, Zenon DEF TailOf, tail
<1>6. tail \in Seq(Nat) /\ Len(tail) = L % 64
  BY <1>1, TailIs, Zenon
<1>7. addLength(<<64 * k, 0>>, Len(tail)) = <<L, 0>>
  <2>1. 64 * k \in Nat /\ L % 64 \in Nat /\ 64 * k + (L % 64) = L
    <3>1. PICK a \in Nat : a = 64 * k
      OBVIOUS
    <3>2. a <= L /\ L % 64 = L - a
      BY <1>2, <3>1
    <3>3. L - a \in Nat /\ a + (L - a) = L
      BY ONLY <3>2, a \in Nat, L \in Nat
    <3>. QED BY <3>1, <3>2, <3>3, Zenon
  <2>2. L < Word
    <3>1. PICK w \in Nat : w = Word
      BY WordIs
    <3>2. L < w - 64
      BY <1>1, <3>1
    <3>. QED BY ONLY <3>1, <3>2, L \in Nat, w \in Nat
  <2>3. addLength(<<64 * k, 0>>, L % 64) = <<64 * k + (L % 64), 0>>
    <3>1. PICK a \in Nat, b \in Nat : a = 64 * k /\ b = L % 64 /\ a + b = L
      BY <2>1
    <3>2. addLength(<<a, 0>>, b) = <<a + b, 0>>
      BY <2>2, <3>1, Counted
    <3>. QED BY <3>1, <3>2, Zenon
  <2>. QED BY <1>6, <2>1, <2>3, Zenon
<1>8. Padding(tail, <<L, 0>>) = p
  <2>1. PICK t \in 0..63 : t = L % 64
    OBVIOUS
  <2>2. Padding(tail, <<Len(m), 0>>) = tail \o EightyZeros(Added(t)) \o BitLength(m)
    <3>. HIDE DEF tail
    <3>1. Len(m) % 64 = t /\ Len(tail) = t /\ tail \in Seq(Nat)
      BY <1>1, <1>6, <2>1
    <3>. QED BY <3>1, PaddingIs
  <2>. QED BY <1>1, <2>1, <2>2, Zenon DEF PaddingOf
<1>. DEFINE counted == [md5 EXCEPT !.length = <<L, 0>>]
<1>9. md5.length = <<64 * k, 0>> /\ counted.fed = bs
  OBVIOUS
<1>10. <<L, 0>>[1] = L
  OBVIOUS
<1>. HIDE DEF md5, tail, p, bs, counted
<1>11. Final(md5, tail) = IF L % 64 >= 56
                          THEN Update(Update(counted, SubSeq(p, 1, 64)), SubSeq(p, 65, Len(p)))
                          ELSE Update(counted, p)
  BY <1>7, <1>8, <1>9, <1>10, Zenon DEF Final, counted
<1>12. ASSUME NEW o, NEW b PROVE Update(o, b).fed = Append(o.fed, b)
  BY DEF Update
<1>13. /\ Update(counted, p).fed = Append(bs, p)
       /\ Update(Update(counted, SubSeq(p, 1, 64)), SubSeq(p, 65, Len(p))).fed
            = Append(Append(bs, SubSeq(p, 1, 64)), SubSeq(p, 65, Len(p)))
  <2>1. Update(counted, p).fed = Append(bs, p)
    BY <1>9, <1>12, Zenon
  <2>. DEFINE front == SubSeq(p, 1, 64)
              back == SubSeq(p, 65, Len(p))
              one == Update(counted, front)
  <2>. HIDE DEF front, back
  <2>2. one.fed = Append(bs, front)
    BY <1>9, <1>12, Zenon
  <2>. HIDE DEF one
  <2>3. Update(one, back).fed = Append(one.fed, back)
    BY <1>12, Zenon
  <2>4. Update(one, back).fed = Append(Append(bs, front), back)
    BY <2>2, <2>3, Zenon
  <2>. QED BY <2>1, <2>4 DEF one, front, back
<1>. QED BY <1>1, <1>5, <1>11, <1>13, Zenon DEF p, bs

\* Blocks of whole length.
AllWhole(x, n) == x \in Seq(Seq(Nat)) /\ Len(x) = n /\ \A i \in 1..n : Len(x[i]) = 64

\* A whole block more, as Update appends it.
LEMMA WholeMore ==
    ASSUME NEW x, NEW n \in Nat, AllWhole(x, n), NEW b \in Seq(Nat), Len(b) = 64
    PROVE  AllWhole(Append(x, b), n + 1)
<1>1. x \in Seq(Seq(Nat)) /\ Len(x) = n /\ \A i \in 1..n : Len(x[i]) = 64
  BY DEF AllWhole
<1>. DEFINE y == Append(x, b)
<1>2. y \in Seq(Seq(Nat)) /\ Len(y) = Len(x) + 1 /\ y[Len(x) + 1] = b /\ \A i \in 1..Len(x) : y[i] = x[i]
  <2>1. x \in Seq(Seq(Nat))
    BY <1>1
  <2>. QED BY ONLY <2>1, b \in Seq(Nat), AppendProperties
<1>. HIDE DEF y
<1>3. ASSUME NEW i \in 1..(n + 1) PROVE Len(y[i]) = 64
  <2>1. i = n + 1 \/ i \in 1..n
    BY ONLY i \in 1..(n + 1), n \in Nat
  <2>2. y[n + 1] = b /\ \A j \in 1..n : y[j] = x[j]
    BY <1>1, <1>2, Zenon
  <2>3. CASE i = n + 1
    BY <2>2, <2>3, Zenon
  <2>4. CASE i \in 1..n
    BY <1>1, <2>2, <2>4, Zenon
  <2>. QED BY <2>1, <2>3, <2>4
<1>4. Len(y) = n + 1 /\ y \in Seq(Seq(Nat))
  BY <1>1, <1>2, Zenon
<1>. QED BY <1>3, <1>4, Zenon DEF AllWhole, y

\* A shorter one at the end.
EndsShort(y) == \A i \in DOMAIN y : Len(y[i]) = IF i = Len(y) THEN 58 ELSE 64

\* The block that Final ends with, behind the whole ones.
LEMMA ShortLast ==
    ASSUME NEW x, NEW n \in Nat, AllWhole(x, n), NEW b \in Seq(Nat), Len(b) = 58
    PROVE  EndsShort(Append(x, b))
<1>1. x \in Seq(Seq(Nat)) /\ Len(x) = n /\ \A i \in 1..n : Len(x[i]) = 64
  BY DEF AllWhole
<1>. DEFINE y == Append(x, b)
<1>2. y \in Seq(Seq(Nat)) /\ Len(y) = Len(x) + 1 /\ y[Len(x) + 1] = b /\ \A i \in 1..Len(x) : y[i] = x[i]
  <2>1. x \in Seq(Seq(Nat))
    BY <1>1
  <2>. QED BY ONLY <2>1, b \in Seq(Nat), AppendProperties
<1>. HIDE DEF y
<1>3. PICK k \in Nat : k = n + 1
  OBVIOUS
<1>4. y \in Seq(Seq(Nat)) /\ Len(y) = k /\ y[k] = b /\ \A j \in 1..n : y[j] = x[j]
  BY <1>1, <1>2, <1>3, Zenon
<1>5. DOMAIN y = 1..k
  BY ONLY <1>4, LenProperties
<1>6. ASSUME NEW i \in 1..k PROVE Len(y[i]) = IF i = k THEN 58 ELSE 64
  <2>1. i = k \/ (i \in 1..n /\ i # k)
    BY ONLY <1>3, i \in 1..k, n \in Nat
  <2>2. CASE i = k
    BY <1>4, <2>2, Zenon
  <2>3. CASE i \in 1..n /\ i # k
    <3>1. y[i] = x[i] /\ Len(x[i]) = 64
      BY <1>1, <1>4, <2>3, Zenon
    <3>. QED BY <2>3, <3>1, Zenon
  <2>. QED BY ONLY <2>1, <2>2, <2>3, Zenon
<1>7. \A i \in DOMAIN y : Len(y[i]) = IF i = Len(y) THEN 58 ELSE 64
  <2>1. Len(y) = k
    BY <1>4, Zenon
  <2>. QED BY ONLY <1>5, <1>6, <2>1
<1>8. EndsShort(y)
  BY <1>4, <1>7, Zenon DEF EndsShort
<1>. QED BY <1>8 DEF y

\* The blocks together are the padded message, and they have the length of a block.
LEMMA FeedsPaddedMessageHolds ==
    ASSUME mode = "message" => in \in Seq(Nat)
    PROVE  FeedsPaddedMessage
<1>. DEFINE fed == GetSum(in).fed
<1>. SUFFICES ASSUME mode = "message", Len(in) < Word - 64
              PROVE  /\ Concat(fed) = PaddedMessage(in)
                     /\ EndsShort(fed)
  BY Zenon DEF FeedsPaddedMessage, EndsShort
<1>. DEFINE bs == BlocksOf(in)
            p == PaddingOf(in)
            s == SubSeq(in, 1, 64 * Turns(Len(in)))
<1>1. in \in Seq(Nat)
  OBVIOUS
<1>2. PICK L \in Nat : L = Len(in) /\ L < Word - 64
  BY LenProperties
<1>3. PICK k \in Nat : k = Turns(L) /\ 64 * k <= L
  BY <1>2, TurnsIs
<1>4. p \in Seq(Nat) /\ Len(p) = (IF L % 64 >= 56 THEN 122 ELSE 58) /\ s \o p = PaddedMessage(in) /\ s \in Seq(Nat)
  BY <1>1, <1>2, PaddedIs, TailIs, Zenon
<1>5. Concat(bs) = s
  BY <1>1, <1>2, <1>3, BlocksJoined DEF BlocksOf
<1>6. AllWhole(bs, k) /\ bs \in Seq(Seq(Nat))
  <2>1. ASSUME NEW i \in 1..k PROVE BlockAt(in, i) \in Seq(Nat) /\ Len(BlockAt(in, i)) = 64
    <3>1. i \in Nat /\ i > 0 /\ 64 * i <= Len(in)
      BY ONLY <1>2, <1>3, i \in 1..k, k \in Nat, L \in Nat
    <3>. QED BY <1>1, <3>1, BlockIs
  <2>2. bs = [i \in 1..k |-> BlockAt(in, i)]
    BY <1>2, <1>3 DEF BlocksOf
  <2>. HIDE DEF bs
  <2>3. bs \in [1..k -> Seq(Nat)] /\ DOMAIN bs = 1..k /\ \A i \in 1..k : bs[i] = BlockAt(in, i)
    BY <2>1, <2>2
  <2>4. bs \in Seq(Seq(Nat)) /\ Len(bs) = k
    BY ONLY <2>3, k \in Nat, IsASeq, LenProperties
  <2>. QED BY <2>1, <2>3, <2>4 DEF AllWhole
<1>7. fed = IF L % 64 >= 56 THEN Append(Append(bs, SubSeq(p, 1, 64)), SubSeq(p, 65, Len(p))) ELSE Append(bs, p)
  BY <1>1, <1>2, GetSumFeeds, Zenon
<1>. HIDE DEF fed, bs, p, s
<1>8. CASE ~(L % 64 >= 56)
  <2>1. fed = Append(bs, p) /\ Len(p) = 58
    BY <1>4, <1>7, <1>8, Zenon
  <2>2. Concat(fed) = PaddedMessage(in)
    BY <1>4, <1>5, <1>6, <2>1, ConcatMore, Zenon
  <2>3. EndsShort(fed)
    BY <1>4, <1>6, <2>1, ShortLast, Zenon
  <2>. QED BY <2>2, <2>3, Zenon
<1>9. CASE L % 64 >= 56
  <2>. DEFINE a == SubSeq(p, 1, 64)
              b == SubSeq(p, 65, 122)
              most == Append(bs, a)
  <2>1. fed = Append(most, b) /\ Len(p) = 122
    BY <1>4, <1>7, <1>9, Zenon
  <2>2. a \in Seq(Nat) /\ Len(a) = 64 /\ b \in Seq(Nat) /\ Len(b) = 58
    <3>1. \A j \in 1..122 : p[j] \in Nat
      <4>1. p \in Seq(Nat)
        BY <1>4, Zenon
      <4>2. \A j \in 1..Len(p) : p[j] \in Nat
        BY ONLY <4>1, ElementOfSeq
      <4>3. Len(p) = 122
        BY <2>1, Zenon
      <4>. QED BY ONLY <4>2, <4>3, Zenon
    <3>2. \A j \in 1..64 : p[j] \in Nat
      <4>1. PICK c \in Nat, d \in Nat : c = 64 /\ d = 122
        OBVIOUS
      <4>2. \A j \in 1..c : j \in 1..d
        BY ONLY <4>1, c \in Nat, d \in Nat
      <4>. QED BY <3>1, <4>1, <4>2, Zenon
    <3>3. \A j \in 65..122 : p[j] \in Nat
      <4>1. PICK c \in Nat, d \in Nat : c = 65 /\ d = 122
        OBVIOUS
      <4>2. \A j \in c..d : j \in 1..d
        BY ONLY <4>1, c \in Nat, d \in Nat
      <4>. QED BY <3>1, <4>1, <4>2, Zenon
    <3>4. /\ SubSeq(p, 1, 64) \in Seq(Nat)
          /\ Len(SubSeq(p, 1, 64)) = IF 1 <= 64 THEN 64 - 1 + 1 ELSE 0
      BY ONLY <3>2, SubSeqProperties
    <3>5. /\ SubSeq(p, 65, 122) \in Seq(Nat)
          /\ Len(SubSeq(p, 65, 122)) = IF 65 <= 122 THEN 122 - 65 + 1 ELSE 0
      BY ONLY <3>3, SubSeqProperties
    <3>. QED BY ONLY <3>4, <3>5
  <2>3. a \o b = p
    <3>1. a \o SubSeq(p, 64 + 1, 122) = SubSeq(p, 1, 122)
      <4>1. 1 \in 1..(Len(p) + 1) /\ 64 \in (1 - 1)..Len(p) /\ 122 \in 64..Len(p)
        BY ONLY <2>1
      <4>. QED BY ONLY <1>4, <4>1, ConcatAdjacentSubSeq
    <3>2. SubSeq(p, 1, Len(p)) = p
      BY <1>4, SubSeqFull
    <3>3. 64 + 1 = 65
      OBVIOUS
    <3>. QED BY <2>1, <3>1, <3>2, <3>3, Zenon
  <2>. HIDE DEF a, b
  <2>4. AllWhole(most, k + 1) /\ most \in Seq(Seq(Nat))
    <3>1. AllWhole(most, k + 1)
      BY <1>6, <2>2, WholeMore, Zenon
    <3>. QED BY <3>1 DEF AllWhole
  <2>5. Concat(most) = s \o a
    BY <1>5, <1>6, <2>2, ConcatMore, Zenon
  <2>. HIDE DEF most
  <2>6. Concat(fed) = (s \o a) \o b
    BY <2>1, <2>2, <2>4, <2>5, ConcatMore, Zenon
  <2>7. (s \o a) \o b = s \o (a \o b)
    <3>1. s \in Seq(Nat)
      BY <1>4
    <3>2. Joined(s, a, b)
      BY <2>2, <3>1, Joined3, Zenon
    <3>. QED BY <3>2, Zenon DEF Joined
  <2>8. Concat(fed) = PaddedMessage(in)
    BY <1>4, <2>3, <2>6, <2>7, Zenon
  <2>9. EndsShort(fed)
    <3>1. PICK n \in Nat : n = k + 1
      OBVIOUS
    <3>. QED BY <2>1, <2>2, <2>4, <3>1, ShortLast, Zenon
  <2>. QED BY <2>8, <2>9, Zenon
<1>. QED BY <1>8, <1>9

\* md5p feeds every message of an input with the blocks of RFC 1321, in which the length of the
\* message fits, and mixes a block as RFC 1321 does.
THEOREM DigestsAlways == Spec => []DigestsLikeRFC
<1>1. InputOK => DigestsLikeRFC
  <2>. SUFFICES ASSUME InputOK PROVE DigestsLikeRFC
    OBVIOUS
  <2>1. mode = "message" => in \in Seq(Nat)
    BY DEF InputOK
  <2>. QED BY <2>1, FeedsPaddedMessageHolds, MixesLikeRFCHolds DEF DigestsLikeRFC
<1>. QED BY <1>1, InputTypeCorrect, PTL

-----------------------------------------------------------------------------
(* The lines of an environment file *)

\* What a plain line is: a name and a value, where each % is that of a variable A or B; no name; no '='.
PlainLine(line) ==
    \/ /\ DOMAIN line = {1, 2} /\ Len(line) = 2 /\ line[1] # <<>> /\ line[2] # <<>>
       /\ SubSeq(line, 2, 2) = <<line[2]>> /\ Tail(line) = <<line[2]>>
       /\ \A t \in DOMAIN line[2] : Head(line[2][t]) = "%" => \E n \in {"A", "B"} : line[2][t] = <<"%", n>>
    \/ DOMAIN line = {1, 2} /\ Len(line) = 2 /\ line[1] = <<>>
    \/ DOMAIN line = {1} /\ Len(line) = 1 /\ line[1] # <<>>

\* The tokens of a value.
LEMMA TokenIs ==
    ASSUME NEW n
    PROVE  /\ Name(n)[1] = <<n>> /\ DOMAIN Name(n) = {1} /\ Name(n) # <<>>
           /\ Ref(n)[1] = <<"%", n>> /\ DOMAIN Ref(n) = {1} /\ Ref(n) # <<>>
           /\ Head(<<n>>) = n
BY DEF Name, Ref

\* The parts of a line with one '='.
LEMMA PairIs ==
    ASSUME NEW x, NEW y
    PROVE  /\ DOMAIN <<x, y>> = {1, 2} /\ Len(<<x, y>>) = 2 /\ <<x, y>>[1] = x /\ <<x, y>>[2] = y
           /\ SubSeq(<<x, y>>, 2, 2) = <<y>> /\ Tail(<<x, y>>) = <<y>>
<1>1. DOMAIN <<x, y>> = {1, 2} /\ Len(<<x, y>>) = 2 /\ <<x, y>>[1] = x /\ <<x, y>>[2] = y
  OBVIOUS
<1>2. Tail(<<x, y>>) = <<y>>
  OBVIOUS
<1>3. SubSeq(<<x, y>>, 2, 2) = <<y>>
  <2>1. <<x, y>> \in Seq({x, y}) /\ <<x, y>> # <<>>
    OBVIOUS
  <2>. QED BY <1>1, <1>2, <2>1, TailIsSubSeq
<1>. QED BY <1>1, <1>2, <1>3

\* Two tokens, one behind the other.
LEMMA TwoTokens ==
    ASSUME NEW a, NEW b
    PROVE  <<a>> \o <<b>> = <<a, b>>
<1>. DEFINE x == <<a>>
            y == <<b>>
            z == <<a, b>>
<1>1. x \in Seq({a, b}) /\ y \in Seq({a, b}) /\ Len(x) = 1 /\ Len(y) = 1 /\ x[1] = a /\ y[1] = b
  OBVIOUS
<1>2. z \in Seq({a, b}) /\ Len(z) = 2 /\ z[1] = a /\ z[2] = b
  OBVIOUS
<1>. HIDE DEF x, y, z
<1>3. /\ x \o y \in Seq({a, b}) /\ Len(x \o y) = Len(x) + Len(y)
      /\ \A i \in 1..(Len(x) + Len(y)) : (x \o y)[i] = IF i <= Len(x) THEN x[i] ELSE y[i - Len(x)]
  <2>1. PICK S : S = {a, b}
    OBVIOUS
  <2>2. x \in Seq(S) /\ y \in Seq(S)
    BY <1>1, <2>1, Zenon
  <2>3. /\ x \o y \in Seq(S) /\ Len(x \o y) = Len(x) + Len(y)
        /\ \A i \in 1..(Len(x) + Len(y)) : (x \o y)[i] = IF i <= Len(x) THEN x[i] ELSE y[i - Len(x)]
    BY ONLY <2>2, ConcatProperties
  <2>. QED BY <2>1, <2>3, Zenon
<1>. DEFINE c == x \o y
<1>. HIDE DEF c
<1>4. c \in Seq({a, b}) /\ Len(c) = 2 /\ c[1] = a /\ c[2] = b
  BY <1>1, <1>3 DEF c
<1>5. \A i \in 1..Len(c) : c[i] = z[i]
  BY ONLY <1>2, <1>4
<1>6. c = z
  BY ONLY <1>2, <1>4, <1>5, SeqEqual
<1>. QED BY <1>6 DEF c, x, y, z

\* The tokens of the value of a line with a name.
PlainValue(v) == v # <<>> /\ \A t \in DOMAIN v : Head(v[t]) = "%" => \E n \in {"A", "B"} : v[t] = <<"%", n>>

\* The plain lines of the model are lines that the loop of env_load comes to the end of.
LEMMA PlainLinesAre == \A line \in PlainLines : PlainLine(line)
<1>1. ASSUME NEW a, NEW v, PlainValue(v) PROVE PlainLine(<<Name(a), v>>)
  <2>. DEFINE name == Name(a)
              pair == <<name, v>>
  <2>1. name # <<>>
    BY TokenIs, Zenon
  <2>. HIDE DEF name
  <2>2. /\ DOMAIN pair = {1, 2} /\ Len(pair) = 2 /\ pair[1] = name /\ pair[2] = v
        /\ SubSeq(pair, 2, 2) = <<v>> /\ Tail(pair) = <<v>>
    BY PairIs, Zenon
  <2>. HIDE DEF pair
  <2>3. PlainLine(pair)
    BY <1>1, <2>1, <2>2, Zenon DEF PlainLine, PlainValue
  <2>. QED BY <2>3 DEF pair, name
<1>2. ASSUME NEW v, v \in {Name("x"), Name("y"), Ref("A"), Ref("B")}
      PROVE  PlainValue(v)
  <2>1. v # <<>> /\ DOMAIN v = {1}
    BY <1>2, TokenIs, Zenon
  <2>2. v[1] \in {<<"x">>, <<"y">>, <<"%", "A">>, <<"%", "B">>}
    BY <1>2, TokenIs, Zenon
  <2>3. Head(v[1]) = "%" => \E n \in {"A", "B"} : v[1] = <<"%", n>>
    BY <2>2
  <2>. QED BY <2>1, <2>3, Zenon DEF PlainValue
<1>3. PlainValue(Ref("A") \o Name("y"))
  <2>1. PICK p : p = <<"%", "A">>
    OBVIOUS
  <2>2. PICK y : y = <<"y">>
    OBVIOUS
  <2>3. PICK v : v = <<p, y>>
    OBVIOUS
  <2>4. Ref("A") \o Name("y") = v
    BY <2>1, <2>2, <2>3, TwoTokens, Zenon DEF Name, Ref
  <2>5. DOMAIN v = {1, 2} /\ v[1] = p /\ v[2] = y /\ v # <<>>
    BY ONLY <2>3
  <2>6. Head(y) # "%"
    BY ONLY <2>2
  <2>7. PlainValue(v)
    BY <2>1, <2>5, <2>6, Zenon DEF PlainValue
  <2>. QED BY <2>4, <2>7, Zenon
<1>4. PlainLine(<<<<>>, Name("x")>>)
  BY PairIs, Zenon DEF PlainLine
<1>5. PlainLine(<<Name("x")>>)
  <2>1. DOMAIN <<Name("x")>> = {1} /\ Len(<<Name("x")>>) = 1 /\ <<Name("x")>>[1] = Name("x")
    OBVIOUS
  <2>. QED BY <2>1, TokenIs, Zenon DEF PlainLine
<1>6. ASSUME NEW line \in PlainLines PROVE PlainLine(line)
  <2>1. CASE \E n \in {"A", "B"} : \E v \in {Name("x"), Name("y"), Ref("A"), Ref("B")} : line = <<Name(n), v>>
    BY <1>1, <1>2, <2>1, Zenon
  <2>2. CASE line = <<Name("B"), Ref("A") \o Name("y")>>
    BY <1>1, <1>3, <2>2, Zenon
  <2>3. CASE line = <<<<>>, Name("x")>>
    BY <1>4, <2>3, Zenon
  <2>4. CASE line = <<Name("x")>>
    BY <1>5, <2>4, Zenon
  <2>5. \/ line = <<Name("A"), Name("x")>> \/ line = <<Name("A"), Name("y")>> \/ line = <<Name("B"), Ref("A")>>
        \/ line = <<Name("B"), Ref("A") \o Name("y")>> \/ line = <<Name("A"), Ref("B")>>
        \/ line = <<<<>>, Name("x")>> \/ line = <<Name("x")>>
    BY Zenon DEF PlainLines
  <2>. QED BY <2>1, <2>2, <2>3, <2>4, <2>5, Zenon
<1>. QED BY <1>6

\* A turn of the loop over the strings of a line.
StringTurn(line, s, i) == EachString(line, s, i)

AnyHold(c, k, x) == TRUE

StringLoop == INSTANCE LoopTheorems WITH op <- StringTurn, holds <- AnyHold

\* The loop sets what a plain line assigns, and comes to the next line.
AtNext(env) == [env |-> env, at |-> "next"]

\* What the loop of env_load does with a plain line, string by string.
LEMMA EachLineAssigns ==
    ASSUME NEW line, PlainLine(line), NEW env
    PROVE  EachLine(AtNext(env), line) = AtNext(Assigned(env, line))
<1>. DEFINE s == [env |-> env, at |-> "line"]
            parts == [i \in DOMAIN line |-> i]
<1>1. EachLine(AtNext(env), line) = StringLoop!Fold(line, s, parts)
  <2>1. AtNext(env).at # "end" /\ [AtNext(env) EXCEPT !.at = "line"] = s
    BY DEF AtNext
  <2>2. EachLine(AtNext(env), line) = FoldLeft(LAMBDA t, i : EachString(line, t, i), s, parts)
    BY <2>1, Zenon DEF EachLine
  <2>. HIDE DEF s, parts
  <2>3. FoldLeft(LAMBDA t, i : EachString(line, t, i), s, parts) = StringLoop!Fold(line, s, parts)
    BY DEF StringLoop!Fold, StringTurn, FoldLeft, StringLoop!FoldLeft, MapThenFoldSet, StringLoop!MapThenFoldSet,
           Max, StringLoop!Max
  <2>. QED BY <2>2, <2>3
\* A line of two parts, and one of one.
<1>2. ASSUME DOMAIN line = {1, 2}
      PROVE  StringLoop!Fold(line, s, parts) = EachString(line, EachString(line, s, 1), 2)
  <2>1. parts[1] = 1 /\ parts[2] = 2 /\ DOMAIN parts = 1..2
    BY <1>2
  <2>. HIDE DEF s, parts
  <2>2. PICK n \in Nat : n = 2
    OBVIOUS
  <2>3. DOMAIN parts = 1..n
    BY <2>1, <2>2
  <2>4. PICK h : StringLoop!FoldsTo(h, n, line, s, parts)
    BY <2>3, StringLoop!FoldValues, Zenon
  <2>5. /\ h[0] = s /\ \A k \in 1..2 : h[k] = StringTurn(line, h[k - 1], parts[k])
        /\ h[2] = StringLoop!Fold(line, s, parts)
    BY <2>2, <2>4, Zenon DEF StringLoop!FoldsTo
  <2>6. h[1] = StringTurn(line, h[0], parts[1]) /\ h[2] = StringTurn(line, h[1], parts[2])
    <3>1. 1 \in 1..2 /\ 2 \in 1..2 /\ 1 - 1 = 0 /\ 2 - 1 = 1
      OBVIOUS
    <3>. QED BY <2>5, <3>1, Zenon
  <2>. QED BY <2>1, <2>5, <2>6, Zenon DEF StringTurn
<1>3. ASSUME DOMAIN line = {1}
      PROVE  StringLoop!Fold(line, s, parts) = EachString(line, s, 1)
  <2>1. parts[1] = 1 /\ DOMAIN parts = 1..1
    BY <1>3
  <2>. HIDE DEF s, parts
  <2>2. PICK h : /\ h[0] = s /\ \A k \in 1..1 : h[k] = StringTurn(line, h[k - 1], parts[k])
                 /\ h[1] = StringLoop!Fold(line, s, parts)
    <3>1. PICK n \in Nat : n = 1
      OBVIOUS
    <3>2. DOMAIN parts = 1..n
      BY <2>1, <3>1, Zenon
    <3>3. PICK h : StringLoop!FoldsTo(h, n, line, s, parts)
      BY <3>2, StringLoop!FoldValues, Zenon
    <3>. QED BY <3>1, <3>3, Zenon DEF StringLoop!FoldsTo
  <2>3. h[1] = StringTurn(line, h[0], parts[1])
    <3>1. 1 \in 1..1 /\ 1 - 1 = 0
      OBVIOUS
    <3>. QED BY <2>2, <3>1, Zenon
  <2>. QED BY <2>1, <2>2, <2>3, Zenon DEF StringTurn
<1>4. CASE DOMAIN line = {1, 2} /\ Len(line) = 2 /\ line[1] # <<>> /\ line[2] # <<>>
           /\ SubSeq(line, 2, 2) = <<line[2]>> /\ Tail(line) = <<line[2]>>
  <2>1. PICK value : value = ExpandEnvironmentStrings(env, Join(<<line[2]>>))
    OBVIOUS
  <2>2. PICK e : e = SetEnvironmentVariable(env, line[1], value)
    OBVIOUS
  <2>3. EachString(line, s, 1) = [env |-> e, at |-> "line"]
    <3>1. s.at = "line" /\ s.env = env /\ 1 # Len(line) /\ ~(1 < Len(line) /\ line[1] = <<>>) /\ 1 + 1 = 2
      BY <1>4
    <3>2. [s EXCEPT !.env = e] = [env |-> e, at |-> "line"]
      OBVIOUS
    <3>. HIDE DEF s
    <3>3. SetEnvironmentVariable(s.env, line[1], ExpandEnvironmentStrings(s.env, Join(SubSeq(line, 1 + 1, Len(line))))) = e
      BY <1>4, <2>1, <2>2, <3>1, Zenon
    <3>4. EachString(line, s, 1) = [s EXCEPT !.env = e]
      BY <1>4, <3>1, <3>3 DEF EachString
    <3>. QED BY <3>2, <3>4
  <2>4. EachString(line, [env |-> e, at |-> "line"], 2) = AtNext(e)
    BY <1>4 DEF EachString, AtNext
  <2>5. Assigned(env, line) = e
    <3>1. Len(line) # 1
      BY <1>4
    <3>. QED BY <1>4, <2>1, <2>2, <3>1, Zenon DEF Assigned
  <2>. QED BY <1>1, <1>2, <1>4, <2>3, <2>4, <2>5, Zenon
<1>5. CASE DOMAIN line = {1, 2} /\ Len(line) = 2 /\ line[1] = <<>>
  <2>1. EachString(line, s, 1) = AtNext(env)
    BY <1>5 DEF EachString, AtNext
  <2>2. EachString(line, AtNext(env), 2) = AtNext(env)
    BY DEF EachString, AtNext
  <2>3. Assigned(env, line) = env
    BY <1>5, Zenon DEF Assigned
  <2>. QED BY <1>1, <1>2, <1>5, <2>1, <2>2, <2>3, Zenon
<1>6. CASE DOMAIN line = {1} /\ Len(line) = 1 /\ line[1] # <<>>
  <2>1. EachString(line, s, 1) = AtNext(env)
    BY <1>6 DEF EachString, AtNext
  <2>2. Assigned(env, line) = env
    BY <1>6, Zenon DEF Assigned
  <2>. QED BY <1>1, <1>3, <1>6, <2>1, <2>2, Zenon
<1>. QED BY <1>4, <1>5, <1>6, Zenon DEF PlainLine

AssignTurn(c, env, line) == Assigned(env, line)

AssignLoop == INSTANCE LoopTheorems WITH op <- AssignTurn, holds <- AnyHold

LineTurn(c, s, line) == EachLine(s, line)

\* After k lines: c[k] is what these lines mean.
LineHold(c, k, s) == s = AtNext(c[k])

LineLoop == INSTANCE LoopTheorems WITH op <- LineTurn, holds <- LineHold

\* The environments that the first lines make, one line after the other.
Environments(g, n, env, lines) == g[0] = env /\ \A k \in 1..n : g[k] = Assigned(g[k - 1], lines[k])

\* There is an environment after each of the lines.
LEMMA EnvironmentsExist ==
    ASSUME NEW lines, NEW n \in Nat, DOMAIN lines = 1..n, NEW env
    PROVE  \E g : Environments(g, n, env, lines) /\ g[n] = FoldLeft(Assigned, env, lines)
<1>1. FoldLeft(Assigned, env, lines) = AssignLoop!Fold(env, env, lines)
  BY DEF AssignLoop!Fold, AssignTurn, FoldLeft, AssignLoop!FoldLeft, MapThenFoldSet, AssignLoop!MapThenFoldSet,
         Max, AssignLoop!Max
<1>2. PICK g : /\ g[0] = env /\ \A k \in 1..n : g[k] = AssignTurn(env, g[k - 1], lines[k])
               /\ g[n] = AssignLoop!Fold(env, env, lines)
  BY AssignLoop!FoldTrace
<1>. QED BY <1>1, <1>2, Zenon DEF Environments, AssignTurn

\* env_load performs plain lines in order.
LEMMA LoadsLines ==
    ASSUME NEW lines, NEW n \in Nat, DOMAIN lines = 1..n, \A k \in 1..n : PlainLine(lines[k]),
           NEW env, NEW g, Environments(g, n, env, lines)
    PROVE  env_load(TRUE, lines, env) = g[n]
<1>1. FoldLeft(EachLine, AtNext(env), lines) = LineLoop!Fold(g, AtNext(env), lines)
  BY DEF LineLoop!Fold, LineTurn, FoldLeft, LineLoop!FoldLeft, MapThenFoldSet, LineLoop!MapThenFoldSet,
         Max, LineLoop!Max
<1>2. LineHold(g, 0, AtNext(env))
  BY Zenon DEF LineHold, Environments
<1>3. ASSUME NEW k \in 1..n, NEW s, LineHold(g, k - 1, s) PROVE LineHold(g, k, LineTurn(g, s, lines[k]))
  <2>1. s = AtNext(g[k - 1]) /\ g[k] = Assigned(g[k - 1], lines[k]) /\ PlainLine(lines[k])
    BY <1>3, Zenon DEF LineHold, Environments
  <2>2. EachLine(AtNext(g[k - 1]), lines[k]) = AtNext(Assigned(g[k - 1], lines[k]))
    BY <2>1, EachLineAssigns, Zenon
  <2>. QED BY <2>1, <2>2, Zenon DEF LineHold, LineTurn
<1>4. LineHold(g, n, LineLoop!Fold(g, AtNext(env), lines))
  BY <1>2, <1>3, LineLoop!FoldInvariant
<1>5. env_load(TRUE, lines, env) = FoldLeft(EachLine, AtNext(env), lines).env
  BY Zenon DEF env_load, Section, AtNext
<1>6. AtNext(g[n]).env = g[n]
  BY DEF AtNext
<1>. QED BY <1>1, <1>4, <1>5, <1>6, Zenon DEF LineHold

\* env_load performs the plain lines of an input in order.
LEMMA LoadsInOrderHolds ==
    ASSUME mode = "env" => in \in Seq(PlainLines \cup OddLines)
    PROVE  LoadsInOrder
<1>. SUFFICES ASSUME mode = "env", ToSet(in) \subseteq PlainLines
              PROVE  env_load(TRUE, in, Env0) = FoldLeft(Assigned, Env0, in)
  BY Zenon DEF LoadsInOrder
<1>1. PICK n \in Nat : DOMAIN in = 1..n
  BY LenProperties
<1>2. \A k \in 1..n : PlainLine(in[k])
  <2>1. \A k \in 1..n : in[k] \in PlainLines
    BY <1>1, Zenon DEF ToSet
  <2>. QED BY <2>1, PlainLinesAre, Zenon
<1>3. PICK g : Environments(g, n, Env0, in) /\ g[n] = FoldLeft(Assigned, Env0, in)
  BY <1>1, EnvironmentsExist, Zenon
<1>. QED BY <1>1, <1>2, <1>3, LoadsLines, Zenon

-----------------------------------------------------------------------------
(* Loading twice *)

\* One sequence alone, joined.
LEMMA FlattenOne ==
    ASSUME NEW v
    PROVE  FlattenSeq(<<v>>) = v
<1>. DEFINE one == <<v>>
            P(f) == f = [i \in 1..1 |-> IF i = 1 THEN one[i] ELSE f[i - 1] \o one[i]]
<1>1. Len(one) = 1 /\ Len(one) # 0 /\ one[1] = v
  OBVIOUS
<1>. HIDE DEF one
<1>2. P([i \in 1..1 |-> v])
  BY <1>1
<1>3. \A f : P(f) => f[1] = v
  BY <1>1
<1>4. FlattenSeq(one) = (CHOOSE f : P(f))[1]
  BY <1>1 DEF FlattenSeq
<1>. HIDE DEF P
<1>. QED BY <1>2, <1>3, <1>4 DEF one

\* A line that sets a variable.
Assigns(line) == Len(line) # 1 /\ line[1] # <<>>

\* What a plain line means: its value is expanded and set, or nothing happens.
LEMMA AssignedIs ==
    ASSUME NEW line, PlainLine(line), NEW env
    PROVE  Assigned(env, line) = IF Assigns(line)
                                 THEN SetEnvironmentVariable(env, line[1], ExpandEnvironmentStrings(env, line[2]))
                                 ELSE env
<1>1. CASE Assigns(line)
  <2>1. Tail(line) = <<line[2]>>
    BY <1>1 DEF Assigns, PlainLine
  <2>2. Join(<<line[2]>>) = line[2]
    <3>. DEFINE parts == <<line[2]>>
    <3>1. [i \in DOMAIN parts |-> IF i = 1 THEN parts[i] ELSE <<<<"=">>>> \o parts[i]] = parts
      <4>1. DOMAIN parts = {1} /\ parts = [i \in DOMAIN parts |-> parts[i]]
        OBVIOUS
      <4>2. \A i \in DOMAIN parts : i = 1
        BY <4>1, Zenon
      <4>. HIDE DEF parts
      <4>. QED BY <4>1, <4>2
    <3>2. Join(parts) = FlattenSeq(parts)
      BY <3>1, Zenon DEF Join
    <3>. QED BY <3>2, FlattenOne, Zenon
  <2>. QED BY <1>1, <2>1, <2>2, Zenon DEF Assigned, Assigns
<1>2. CASE ~Assigns(line)
  BY <1>2, Zenon DEF Assigned, Assigns
<1>. QED BY <1>1, <1>2

\* Two environments agree on a name.
Agree(e, f, p) == (p \in DOMAIN e <=> p \in DOMAIN f) /\ (p \in DOMAIN e => e[p] = f[p])

\* A value is expanded to the same text by environments that agree on the names in it.
LEMMA ExpandSame ==
    ASSUME NEW e, NEW f, NEW tokens,
           \A t \in DOMAIN tokens : Head(tokens[t]) = "%" => Agree(e, f, <<<<tokens[t][2]>>>>)
    PROVE  ExpandEnvironmentStrings(e, tokens) = ExpandEnvironmentStrings(f, tokens)
<1>. DEFINE Part(env, i) == IF Head(tokens[i]) = "%" /\ Defined(env, <<<<tokens[i][2]>>>>)
                            THEN env[<<<<tokens[i][2]>>>>] ELSE <<tokens[i]>>
<1>1. ASSUME NEW i \in DOMAIN tokens PROVE Part(e, i) = Part(f, i)
  <2>1. CASE Head(tokens[i]) = "%"
    <3>1. Agree(e, f, <<<<tokens[i][2]>>>>)
      BY <2>1
    <3>. QED BY <3>1, Zenon DEF Agree, Defined
  <2>2. CASE Head(tokens[i]) # "%"
    BY <2>2, Zenon
  <2>. QED BY <2>1, <2>2
<1>2. \A env : ExpandEnvironmentStrings(env, tokens) = FlattenSeq([i \in DOMAIN tokens |-> Part(env, i)])
  BY Zenon DEF ExpandEnvironmentStrings
<1>. HIDE DEF Part
<1>3. [i \in DOMAIN tokens |-> Part(e, i)] = [i \in DOMAIN tokens |-> Part(f, i)]
  BY <1>1
<1>. QED BY <1>2, <1>3, Zenon

\* The variable p is set by one of the lines i to k.
SetIn(lines, i, k, p) == \E j \in i..k : Assigns(lines[j]) /\ lines[j][1] = p

\* An environment is a function.
IsEnvironment(e) == e = [p \in DOMAIN e |-> e[p]]

\* What a line does to the environment: f is e with x for p.
Changed(e, f, p, x) ==
    /\ f = [q \in DOMAIN f |-> f[q]] /\ DOMAIN f = DOMAIN e \cup {p} /\ f[p] = x
    /\ \A q : q # p => Agree(e, f, q)

\* SetEnvironmentVariable changes one variable.
LEMMA SetsOne ==
    ASSUME NEW e, NEW p, NEW x
    PROVE  Changed(e, SetEnvironmentVariable(e, p, x), p, x)
BY DEF SetEnvironmentVariable, Agree, Changed

\* A line that sets a variable changes no other.
LEMMA AssignsOne ==
    ASSUME NEW line, PlainLine(line), Assigns(line), NEW env
    PROVE  Changed(env, Assigned(env, line), line[1], ExpandEnvironmentStrings(env, line[2]))
<1>1. Assigned(env, line) = SetEnvironmentVariable(env, line[1], ExpandEnvironmentStrings(env, line[2]))
  BY AssignedIs
<1>. QED BY <1>1, SetsOne, Zenon

\* All lines are plain.
AllPlain(lines, n) == \A k \in 1..n : PlainLine(lines[k])

\* The lines between two environments change no other variables than those they set.
LEMMA KeptBetween ==
    ASSUME NEW lines, NEW n \in Nat, AllPlain(lines, n), NEW env, NEW g, Environments(g, n, env, lines),
           NEW i \in 0..n, NEW p
    PROVE  \A k \in i..n : /\ DOMAIN g[i] \subseteq DOMAIN g[k]
                           /\ SetIn(lines, i + 1, k, p) => p \in DOMAIN g[k]
                           /\ ~SetIn(lines, i + 1, k, p) => Agree(g[i], g[k], p)
<1>. DEFINE Q(k) == /\ DOMAIN g[i] \subseteq DOMAIN g[k]
                    /\ SetIn(lines, i + 1, k, p) => p \in DOMAIN g[k]
                    /\ ~SetIn(lines, i + 1, k, p) => Agree(g[i], g[k], p)
            S == {d \in Nat : i + d <= n => Q(i + d)}
<1>1. 0 \in S
  <2>1. i + 0 = i /\ ~SetIn(lines, i + 1, i, p)
    BY DEF SetIn
  <2>2. Q(i)
    BY <2>1, Zenon DEF Agree
  <2>. HIDE DEF Q
  <2>. QED BY <2>1, <2>2
<1>2. ASSUME NEW d \in Nat, d \in S PROVE d + 1 \in S
  <2>. SUFFICES ASSUME i + (d + 1) <= n PROVE Q(i + (d + 1))
    OBVIOUS
  <2>1. PICK k \in 0..n : k = i + d /\ k + 1 = i + (d + 1) /\ k + 1 \in 1..n
    <3>1. i + d \in 0..n /\ (i + d) + 1 = i + (d + 1) /\ (i + d) + 1 \in 1..n
      BY ONLY i + (d + 1) <= n, i \in 0..n, d \in Nat, n \in Nat
    <3>. QED BY <3>1
  <2>2. Q(k)
    <3>1. i + d <= n
      BY <2>1
    <3>. QED BY <1>2, <2>1, <3>1
  <2>3. PICK m \in 1..n : m = k + 1 /\ m - 1 = k
    BY <2>1
  <2>4. g[m] = Assigned(g[k], lines[m]) /\ PlainLine(lines[m])
    BY <2>3, Zenon DEF Environments, AllPlain
  <2>5. SetIn(lines, i + 1, m, p) <=> SetIn(lines, i + 1, k, p) \/ (Assigns(lines[m]) /\ lines[m][1] = p)
    <3>1. \A j : j \in (i + 1)..m <=> j \in (i + 1)..k \/ j = m
      BY ONLY <2>1, <2>3, i \in 0..n, d \in Nat, n \in Nat, k \in 0..n
    <3>. QED BY ONLY <3>1 DEF SetIn
  <2>6. Q(m)
    <3>1. CASE Assigns(lines[m])
      <4>1. Changed(g[k], g[m], lines[m][1], ExpandEnvironmentStrings(g[k], lines[m][2]))
        BY <2>4, <3>1, AssignsOne, Zenon
      <4>2. /\ DOMAIN g[m] = DOMAIN g[k] \cup {lines[m][1]}
            /\ \A q : q # lines[m][1] => Agree(g[k], g[m], q)
        BY <4>1, Zenon DEF Changed
      <4>3. CASE lines[m][1] = p
        BY <2>2, <2>5, <3>1, <4>2, <4>3, Zenon
      <4>4. CASE lines[m][1] # p
        BY <2>2, <2>5, <3>1, <4>2, <4>4, Zenon DEF Agree
      <4>. QED BY <4>3, <4>4
    <3>2. CASE ~Assigns(lines[m])
      <4>1. g[m] = g[k]
        BY <2>4, <3>2, AssignedIs, Zenon
      <4>. QED BY <2>2, <2>5, <3>2, <4>1, Zenon
    <3>. QED BY <3>1, <3>2
  <2>. HIDE DEF Q
  <2>. QED BY <2>1, <2>3, <2>6, Zenon
<1>. HIDE DEF S
<1>3. Nat \subseteq S
  BY <1>1, <1>2, AssignLoop!NatSet
<1>4. ASSUME NEW k \in i..n PROVE Q(k)
  <2>1. k - i \in Nat /\ i + (k - i) = k /\ k <= n
    BY ONLY i \in 0..n, n \in Nat, k \in i..n
  <2>2. k - i \in S
    BY <1>3, <2>1
  <2>. HIDE DEF Q
  <2>. QED BY <2>1, <2>2 DEF S
<1>. QED BY <1>4, Zenon

\* No line reads a variable that it or a later line sets.
ReadsEarlier(lines, n) ==
    \A i \in 1..n : Assigns(lines[i]) =>
        \A t \in DOMAIN lines[i][2] : Head(lines[i][2][t]) = "%" =>
            ~SetIn(lines, i, n, <<<<lines[i][2][t][2]>>>>)

\* The environment h on the second time: the variables set so far are as they were after the same lines
\* (g), and the others as they were in the end (once).
Again(h, g, once, lines, k) ==
    /\ h = [p \in DOMAIN h |-> h[p]] /\ DOMAIN h = DOMAIN once
    /\ \A p \in DOMAIN h : h[p] = IF SetIn(lines, 1, k, p) THEN g[p] ELSE once[p]

\* The same lines once more make the same environment of it.
LEMMA LoadsAgain ==
    ASSUME NEW lines, NEW n \in Nat, AllPlain(lines, n), ReadsEarlier(lines, n),
           NEW env, NEW g, Environments(g, n, env, lines), IsEnvironment(g[n]),
           NEW h, Environments(h, n, g[n], lines)
    PROVE  h[n] = g[n]
<1>. DEFINE once == g[n]
            S == {k \in Nat : k <= n => Again(h[k], g[k], once, lines, k)}
<1>1. 0 \in S
  <2>1. h[0] = once /\ once = [p \in DOMAIN once |-> once[p]]
    BY Zenon DEF Environments, IsEnvironment
  <2>2. \A p : ~SetIn(lines, 1, 0, p)
    BY DEF SetIn
  <2>. HIDE DEF once
  <2>3. Again(h[0], g[0], once, lines, 0)
    BY <2>1, <2>2, Zenon DEF Again
  <2>. QED BY <2>3
<1>. HIDE DEF once
<1>2. ASSUME NEW k \in Nat, k \in S PROVE k + 1 \in S
  <2>. SUFFICES ASSUME k + 1 <= n PROVE Again(h[k + 1], g[k + 1], once, lines, k + 1)
    OBVIOUS
  <2>1. k \in 0..n /\ k <= n /\ k + 1 \in 1..n
    OBVIOUS
  <2>2. Again(h[k], g[k], once, lines, k)
    BY <1>2, <2>1
  <2>3. PICK m \in 1..n : m = k + 1 /\ m - 1 = k
    BY <2>1
  <2>4. PICK line : line = lines[m]
    OBVIOUS
  <2>5. g[m] = Assigned(g[k], line) /\ h[m] = Assigned(h[k], line) /\ PlainLine(line)
    BY <2>3, <2>4, Zenon DEF Environments, AllPlain
  <2>6. \A p : SetIn(lines, 1, m, p) <=> SetIn(lines, 1, k, p) \/ (Assigns(line) /\ line[1] = p)
    <3>1. \A j : j \in 1..m <=> j \in 1..k \/ j = m
      BY ONLY <2>3, n \in Nat, k \in Nat
    <3>. QED BY ONLY <2>4, <3>1 DEF SetIn
  <2>7. Again(h[m], g[m], once, lines, m)
    <3>1. CASE Assigns(line)
      <4>1. PICK v, x, y : v = line[1] /\ x = ExpandEnvironmentStrings(g[k], line[2])
                           /\ y = ExpandEnvironmentStrings(h[k], line[2])
        OBVIOUS
      \* The names in the value are those of variables that are not set any more.
      <4>2. x = y
        <5>1. ASSUME NEW t \in DOMAIN line[2], Head(line[2][t]) = "%"
              PROVE  Agree(g[k], h[k], <<<<line[2][t][2]>>>>)
          <6>1. PICK p : p = <<<<line[2][t][2]>>>>
            OBVIOUS
          <6>2. ~SetIn(lines, k + 1, n, p)
            BY <2>3, <2>4, <3>1, <5>1, <6>1, Zenon DEF ReadsEarlier
          <6>3. Agree(g[k], once, p)
            <7>1. n \in k..n
              BY <2>1
            <7>. QED BY <2>1, <6>2, <7>1, KeptBetween, Zenon DEF once
          <6>4. Agree(g[k], h[k], p)
            BY <2>2, <6>3, Zenon DEF Again, Agree
          <6>. QED BY <6>1, <6>4, Zenon
        <5>. QED BY <4>1, <5>1, ExpandSame
      <4>3. Changed(g[k], g[m], v, x) /\ Changed(h[k], h[m], v, x)
        <5>1. \A e : Changed(e, Assigned(e, line), line[1], ExpandEnvironmentStrings(e, line[2]))
          BY <2>5, <3>1, AssignsOne, Zenon
        <5>2. /\ Changed(g[k], Assigned(g[k], line), line[1], ExpandEnvironmentStrings(g[k], line[2]))
              /\ Changed(h[k], Assigned(h[k], line), line[1], ExpandEnvironmentStrings(h[k], line[2]))
          BY <5>1, Zenon
        <5>. QED BY <2>5, <4>1, <4>2, <5>2, Zenon
      <4>4. v \in DOMAIN once
        <5>1. DOMAIN g[m] \subseteq DOMAIN once
          <6>1. m \in 0..n /\ n \in m..n
            OBVIOUS
          <6>. QED BY <6>1, KeptBetween, Zenon DEF once
        <5>2. v \in DOMAIN g[m]
          BY <4>3 DEF Changed
        <5>. QED BY <5>1, <5>2
      <4>5. h[m] = [p \in DOMAIN h[m] |-> h[m][p]] /\ DOMAIN h[m] = DOMAIN once
        BY <2>2, <4>3, <4>4 DEF Changed, Again
      <4>6. ASSUME NEW p \in DOMAIN h[m] PROVE h[m][p] = IF SetIn(lines, 1, m, p) THEN g[m][p] ELSE once[p]
        <5>1. CASE p = v
          <6>1. h[m][p] = x /\ g[m][p] = x
            BY <4>3, <5>1, Zenon DEF Changed
          <6>2. SetIn(lines, 1, m, p)
            BY <2>6, <3>1, <4>1, <5>1, Zenon
          <6>. QED BY <6>1, <6>2, Zenon
        <5>2. CASE p # v
          <6>1. p \in DOMAIN h[k] /\ Agree(h[k], h[m], p) /\ Agree(g[k], g[m], p)
            BY <2>2, <4>3, <4>5, <5>2, Zenon DEF Changed, Again
          <6>2. h[m][p] = h[k][p]
            BY <6>1, Zenon DEF Agree
          <6>3. SetIn(lines, 1, m, p) <=> SetIn(lines, 1, k, p)
            BY <2>6, <4>1, <5>2, Zenon
          <6>4. SetIn(lines, 1, k, p) => g[m][p] = g[k][p]
            <7>1. SetIn(lines, 0 + 1, k, p) => p \in DOMAIN g[k]
              <8>1. 0 \in 0..n /\ k \in 0..n
                BY <2>1
              <8>. QED BY <8>1, KeptBetween, Zenon
            <7>2. 0 + 1 = 1
              OBVIOUS
            <7>. QED BY <6>1, <7>1, <7>2, Zenon DEF Agree
          <6>. QED BY <2>2, <6>1, <6>2, <6>3, <6>4, Zenon DEF Again
        <5>. QED BY <5>1, <5>2
      <4>. QED BY <4>5, <4>6, Zenon DEF Again
    <3>2. CASE ~Assigns(line)
      <4>1. g[m] = g[k] /\ h[m] = h[k]
        BY <2>5, <3>2, AssignedIs, Zenon
      <4>2. \A p : SetIn(lines, 1, m, p) <=> SetIn(lines, 1, k, p)
        BY <2>6, <3>2, Zenon
      <4>. QED BY <2>2, <4>1, <4>2, Zenon DEF Again
    <3>. QED BY <3>1, <3>2
  <2>. QED BY <2>3, <2>7, Zenon
<1>3. Again(h[n], g[n], once, lines, n)
  <2>. HIDE DEF S
  <2>1. n \in S
    BY <1>1, <1>2, AssignLoop!NatSet
  <2>. QED BY <2>1 DEF S
<1>4. DOMAIN h[n] = DOMAIN g[n] /\ \A p \in DOMAIN h[n] : h[n][p] = g[n][p]
  BY <1>3, Zenon DEF Again, once
<1>. QED BY <1>3, <1>4 DEF Again, IsEnvironment

\* Reload changes nothing, if no line of the input reads what it or a later line sets.
LEMMA ReloadsSameHolds ==
    ASSUME mode = "env" => in \in Seq(PlainLines \cup OddLines)
    PROVE  ReloadsSame
<1>. DEFINE Reads(i, v) == \E part \in DOMAIN in[i] : \E t \in DOMAIN in[i][part] : in[i][part][t] = <<"%", v>>
            Sets(i, v) == in[i][1] = Name(v)
            once == env_load(TRUE, in, Env0)
            Earlier == \A i \in DOMAIN in, v \in {"A", "B"} : Reads(i, v) => \A j \in DOMAIN in : Sets(j, v) => j < i
<1>. SUFFICES ASSUME mode = "env", ToSet(in) \subseteq PlainLines, Earlier
              PROVE  env_load(TRUE, in, once) = once
  BY Zenon DEF ReloadsSame
<1>1. PICK n \in Nat : DOMAIN in = 1..n
  BY LenProperties
<1>2. AllPlain(in, n)
  <2>1. \A k \in 1..n : in[k] \in PlainLines
    BY <1>1, Zenon DEF ToSet
  <2>. QED BY <2>1, PlainLinesAre, Zenon DEF AllPlain
<1>3. PICK g : Environments(g, n, Env0, in)
  BY <1>1, EnvironmentsExist, Zenon
<1>4. once = g[n]
  BY <1>1, <1>2, <1>3, LoadsLines, Zenon DEF AllPlain
<1>5. PICK h : Environments(h, n, g[n], in)
  BY <1>1, EnvironmentsExist, Zenon
<1>6. env_load(TRUE, in, once) = h[n]
  BY <1>1, <1>2, <1>4, <1>5, LoadsLines, Zenon DEF AllPlain
<1>7. ReadsEarlier(in, n)
  <2>. SUFFICES ASSUME NEW i \in 1..n, Assigns(in[i]), NEW t \in DOMAIN in[i][2], Head(in[i][2][t]) = "%",
                       NEW j \in i..n, Assigns(in[j]), in[j][1] = <<<<in[i][2][t][2]>>>>
                PROVE  FALSE
    BY Zenon DEF ReadsEarlier, SetIn
  <2>1. PlainLine(in[i])
    BY <1>2, Zenon DEF AllPlain
  <2>2. /\ DOMAIN in[i] = {1, 2}
        /\ \A s \in DOMAIN in[i][2] : Head(in[i][2][s]) = "%" => \E v \in {"A", "B"} : in[i][2][s] = <<"%", v>>
    BY <2>1 DEF PlainLine, Assigns
  <2>3. PICK v \in {"A", "B"} : in[i][2][t] = <<"%", v>>
    BY <2>2, Zenon
  <2>4. Reads(i, v)
    <3>1. 2 \in DOMAIN in[i]
      BY <2>2
    <3>. QED BY <2>3, <3>1, Zenon
  <2>5. Sets(j, v)
    <3>1. <<"%", v>>[2] = v
      OBVIOUS
    <3>. QED BY <2>3, <3>1, Zenon DEF Name
  <2>6. j \in 1..n /\ ~(j < i)
    BY ONLY i \in 1..n, j \in i..n, n \in Nat
  <2>. HIDE DEF Reads, Sets
  <2>. QED BY <1>1, <2>4, <2>5, <2>6, Zenon
<1>8. IsEnvironment(g[n])
  <2>. DEFINE S == {k \in Nat : k <= n => IsEnvironment(g[k])}
  <2>1. 0 \in S
    <3>1. IsEnvironment(Env0)
      BY DEF Env0, IsEnvironment
    <3>. QED BY <1>3, <3>1 DEF Environments
  <2>2. ASSUME NEW k \in Nat, k \in S PROVE k + 1 \in S
    <3>. SUFFICES ASSUME k + 1 <= n PROVE IsEnvironment(g[k + 1])
      OBVIOUS
    <3>1. PICK m \in 1..n : m = k + 1 /\ m - 1 = k
      <4>1. k + 1 \in 1..n /\ (k + 1) - 1 = k
        OBVIOUS
      <4>. QED BY <4>1
    <3>2. IsEnvironment(g[k])
      BY <2>2
    <3>3. g[m] = Assigned(g[k], in[m]) /\ PlainLine(in[m])
      BY <1>2, <1>3, <3>1, Zenon DEF Environments, AllPlain
    <3>4. IsEnvironment(g[m])
      <4>1. CASE Assigns(in[m])
        <5>1. \A e : Changed(e, Assigned(e, in[m]), in[m][1], ExpandEnvironmentStrings(e, in[m][2]))
          BY <3>3, <4>1, AssignsOne, Zenon
        <5>2. Changed(g[k], g[m], in[m][1], ExpandEnvironmentStrings(g[k], in[m][2]))
          BY <3>3, <5>1, Zenon
        <5>. QED BY <5>2, Zenon DEF Changed, IsEnvironment
      <4>2. CASE ~Assigns(in[m])
        <5>1. g[m] = g[k]
          BY <3>3, <4>2, AssignedIs, Zenon
        <5>. QED BY <3>2, <5>1, Zenon
      <4>. QED BY <4>1, <4>2
    <3>. QED BY <3>1, <3>4
  <2>. HIDE DEF S
  <2>3. n \in S
    BY <2>1, <2>2, AssignLoop!NatSet
  <2>. QED BY <2>3 DEF S
<1>. HIDE DEF once
<1>9. h[n] = g[n]
  BY <1>2, <1>3, <1>5, <1>7, <1>8, LoadsAgain, Zenon
<1>. QED BY <1>4, <1>6, <1>9, Zenon

\* envext performs the lines of every file of an input in order, and loading it again changes
\* nothing, if no line reads a variable that it or a later one sets.
THEOREM EnvLoadedAlways == Spec => []EnvLoaded
<1>1. InputOK => EnvLoaded
  <2>. SUFFICES ASSUME InputOK PROVE EnvLoaded
    OBVIOUS
  <2>1. mode = "env" => in \in Seq(PlainLines \cup OddLines)
    BY DEF InputOK
  <2>. QED BY <2>1, LoadsInOrderHolds, ReloadsSameHolds DEF EnvLoaded
<1>. QED BY <1>1, InputTypeCorrect, PTL
=============================================================================
