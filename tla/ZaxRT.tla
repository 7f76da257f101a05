------------------------------- MODULE ZaxRT -------------------------------
(***************************************************************************)
(* The conversions of ZaxRT.c.  A text is the sequence of the values of    *)
(* its digits; Blank is the space between two bytes and Junk a character   *)
(* of the buffer that nothing was written to.  Numbers are small enough    *)
(* for no DWORD to wrap around.                                            *)
(***************************************************************************)
EXTENDS Integers, Sequences, SequencesExt

Blank == -1
Junk == -2

\* A turn of the loop that takes a number apart, from its last digit on.
TakeDigit(radix, s, i) ==
    IF s.n = 0 THEN s ELSE [n |-> s.n \div radix, digits |-> Append(s.digits, s.n % radix)]

\* The digits of a number above zero, the last one first.  szTemp has room for 16, and a DWORD
\* never has more than ten.
Reversed(n, radix) ==
    FoldLeft(LAMBDA s, i : TakeDigit(radix, s, i), [n |-> n, digits |-> <<>>], [i \in 1..16 |-> i]).digits

Zeros(n) == IF n > 0 THEN [i \in 1..n |-> 0] ELSE <<>>

\* Nothing is written when the text and its NUL do not fit in out characters.
rt_dwtos(n, radix, fill, out) ==
    LET digits == IF n = 0 THEN <<0>> ELSE Reversed(n, radix)
        temp == digits \o Zeros(fill - Len(digits))
    IN  IF radix \in 10..16 /\ fill < out /\ Len(temp) < out THEN Reverse(temp) ELSE <<>>

\* A turn of the loop of rt_btos: a blank before every byte but the first, and two characters for
\* the byte, whether rt_dwtos found room for them or not.  full: the loop was left.
WriteByte(length, s, byte) ==
    LET start == IF s.text = <<>> THEN <<>> ELSE Append(s.text, Blank)
        digits == rt_dwtos(byte, 16, 2, length - Len(start))
    IN  IF s.full THEN s
        ELSE IF Len(s.text) >= length THEN [text |-> SubSeq(s.text, 1, length - 1), full |-> TRUE]
        ELSE [text |-> start \o (IF digits = <<>> THEN <<Junk, Junk>> ELSE digits), full |-> FALSE]

rt_btos(bytes, length) ==
    FoldLeft(LAMBDA s, b : WriteByte(length, s, b), [text |-> <<>>, full |-> FALSE], bytes).text

\* A letter, up to Z, counts from zero.
AddDigit(radix, n, d) == n * radix + (IF d < 10 THEN d ELSE d - 10)

Digits2Number(text, radix) == FoldLeft(LAMBDA n, d : AddDigit(radix, n, d), 0, text)

\* pdwOut when nothing was stored there; no DWORD.
Unset == -1

\* The digits up to the first character that is none, after 0x (hex) or from the beginning.  The
\* value is multiplied before a character is tested, so once more for the one that ends the
\* loop.  length: the characters passed, value: what is in pdwOut then.
rt_stodw(text, hex) ==
    LET radix == IF hex THEN 16 ELSE 10
        valid == {i \in 0..Len(text) : \A j \in 1..i : text[j] \in (IF hex THEN 0..35 ELSE 0..9)}
        taken == CHOOSE i \in valid : \A j \in valid : j <= i
        number == Digits2Number(SubSeq(text, 1, taken), radix)
        length == taken + (IF hex THEN 2 ELSE 0)
    IN  [length |-> length,
         value |-> IF length = 0 THEN Unset ELSE IF taken < Len(text) THEN number * radix ELSE number]
=============================================================================
