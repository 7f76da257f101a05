------------------------------ MODULE DotJson ------------------------------
(***************************************************************************)
(* dotjson.c: a JSON decoder and encoder.  A text is the sequence of its   *)
(* bytes without the terminating NUL, a position in it is 1-based, and     *)
(* reading past the end yields that NUL.  A node is <<type, value>>; an    *)
(* object's value is its hash table.  malloc is assumed to succeed and the *)
(* blocks themselves are left out (only their contents matter here).       *)
(***************************************************************************)
EXTENDS JsonTable

Quote == 34
Backslash == 92
Slash == 47
Star == 42
Comma == 44
Colon == 58
Newline == 10
LBrack == 91
RBrack == 93
LBrace == 123
RBrace == 125
Digits == 48..57
Signs == {43, 45}
Space == {32, 9, Newline, 13}

\* The escapes \" \\ \/ \b \f \n \r \t: the letter after the backslash and the byte it stands for.
Escapes == {<<Quote, Quote>>, <<Backslash, Backslash>>, <<Slash, Slash>>,
            <<98, 8>>, <<102, 12>>, <<110, Newline>>, <<114, 13>>, <<116, 9>>}

\* A byte of a buffer nobody has written.
Hole == -1

At(t, p) == IF p \in 1..Len(t) THEN t[p] ELSE NUL

---------------------------------------------------------------------------
(* Lexical level *)

\* The position after the line comment or the block comment that starts at p.
LineEnd(t, p) == LET z == {i \in p..Len(t) : t[i] = Newline}
                 IN  IF z = {} THEN Len(t) + 1 ELSE Min(z) + 1

BlockEnd(t, p) == LET z == {i \in (p + 2)..(Len(t) - 1) : t[i] = Star /\ t[i + 1] = Slash}
                  IN  IF z = {} THEN Len(t) + 1 ELSE Min(z) + 2

RECURSIVE ignore_chars(_, _)
ignore_chars(t, p) ==
    CASE At(t, p) \in Space -> ignore_chars(t, p + 1)
      [] At(t, p) = Slash /\ At(t, p + 1) = Slash -> ignore_chars(t, LineEnd(t, p))
      [] At(t, p) = Slash /\ At(t, p + 1) = Star -> ignore_chars(t, BlockEnd(t, p))
      [] OTHER -> p

\* The code point as UTF-8; the longer forms need more than the 16 bits of a \u escape.
uc_2_utf8(uc) ==
    CASE uc <= 127 -> <<uc>>
      [] uc \in 128..2047 -> <<192 + (uc \div 64), 128 + (uc % 64)>>
      [] uc \in 2048..65535 -> <<224 + (uc \div 4096), 128 + ((uc \div 64) % 64), 128 + (uc % 64)>>

HexDigits == Digits \cup (65..70) \cup (97..102)

HexValue(c) == IF c \in Digits THEN c % 16 ELSE (c % 16) + 9

HexCode(t, p) == ((HexValue(At(t, p)) * 16 + HexValue(At(t, p + 1))) * 16
                  + HexValue(At(t, p + 2))) * 16 + HexValue(At(t, p + 3))

\* The bytes u written behind buf when the whole of u still fits below the limit l.
Put(buf, u, l) == IF Len(buf) + Len(u) <= l THEN buf \o u ELSE buf \o [i \in DOMAIN u |-> Hole]

\* One pass over a string literal from p (after the quote).  l is the capacity of the
\* caller's buffer, 0 in the pass that only counts.  end = 0 is the failure.
RECURSIVE unescape_loop(_, _, _, _)
unescape_loop(t, p, l, buf) ==
    LET e == At(t, p + 1)
    IN  CASE At(t, p) = Quote -> [end |-> p + 1, buf |-> buf]
          [] At(t, p) = NUL -> [end |-> 0, buf |-> buf]
          [] At(t, p) = Backslash /\ e = 117 ->
               IF \A i \in 2..5 : At(t, p + i) \in HexDigits
               THEN unescape_loop(t, p + 6, l, Put(buf, uc_2_utf8(HexCode(t, p + 2)), l))
               ELSE [end |-> 0, buf |-> buf]
          [] At(t, p) = Backslash /\ e # 117 ->
               IF \E x \in Escapes : x[1] = e
               THEN unescape_loop(t, p + 2, l, Put(buf, <<(CHOOSE x \in Escapes : x[1] = e)[2]>>, l))
               ELSE [end |-> 0, buf |-> buf]
          [] OTHER -> unescape_loop(t, p + 1, l, Put(buf, <<At(t, p)>>, l))

unescape_str(t, p, l) ==
    IF At(t, p) = Quote THEN unescape_loop(t, p + 1, l, <<>>) ELSE [end |-> 0, buf |-> <<>>]

\* The states behind a digit.
Complete(state) == state % 2 = 1

\* The scanner of a number: where it is (state) and what it may still read.
RECURSIVE number_loop(_, _, _)
number_loop(t, p, state) ==
    LET c == At(t, p)
        signed == IF state \in {0, 4} /\ c \in Signs THEN p + 1 ELSE p
        run == {i \in signed..(Len(t) + 1) : \A j \in signed..(i - 1) : t[j] \in Digits}
        q == Max(run)
        s == IF q > signed /\ state \in {0, 2, 4} THEN state + 1 ELSE state
    IN  CASE s = 1 /\ At(t, q) = 46 -> number_loop(t, q + 1, 2)
          [] s \in {1, 3} /\ At(t, q) \in {69, 101} -> number_loop(t, q + 1, 4)
          [] OTHER -> IF Complete(s) THEN q ELSE 0

---------------------------------------------------------------------------
(* Decoder.  A result is [end, node]: the position after what was consumed, *)
(* which is the start when nothing was, and the node or None.               *)

Decoded(end, node) == [end |-> end, node |-> node]

Refused(start) == [end |-> start, node |-> None]

decode_string(t, p) ==
    LET count == unescape_str(t, p, 0)
        fill == unescape_str(t, p, Len(count.buf))
    IN  IF count.end = 0 THEN Refused(p) ELSE Decoded(fill.end, <<"string", fill.buf>>)

decode_number(t, p) ==
    LET end == number_loop(t, p, 0)
    IN  IF end = 0 THEN Refused(p) ELSE Decoded(end, <<"number", Sub(t, p, end - 1)>>)

Literals == {<<"null", <<110, 117, 108, 108>>>>, <<"false", <<102, 97, 108, 115, 101>>>>,
             <<"true", <<116, 114, 117, 101>>>>}

decode_literal(t, p) ==
    LET hits == {l \in Literals : \A i \in DOMAIN l[2] : At(t, p + i - 1) = l[2][i]}
    IN  IF hits = {} THEN Refused(p)
        ELSE LET l == CHOOSE x \in hits : TRUE IN Decoded(p + Len(l[2]), <<l[1], <<>>>>)

\* An array: the room that was allocated and the items that are in it.
NoArray == [cap |-> 0, items |-> <<>>]

array_grow(a) ==
    CASE a = NoArray -> [a EXCEPT !.cap = 1]
      [] a # NoArray /\ Len(a.items) < a.cap -> a
      [] OTHER -> [a EXCEPT !.cap = IF @ >= 256 THEN @ + 256 ELSE 2 * @]

Push(a, node) == [(IF Len(a.items) = a.cap THEN array_grow(a) ELSE a) EXCEPT !.items = Append(@, node)]

RECURSIVE decode_node(_, _), array_loop(_, _, _, _, _), object_loop(_, _, _, _, _)

array_loop(t, p, state, node, array) ==
    LET q == ignore_chars(t, p)
        c == At(t, q)
    IN  CASE state = 3 -> Decoded(p, <<"array", array>>)
          [] state # 3 /\ p > Len(t) -> Refused(1)
          [] state = 0 /\ c = LBrack -> array_loop(t, q + 1, 1, node, array)
          [] state = 1 /\ c = RBrack /\ array = NoArray -> array_loop(t, q + 1, 3, node, array_grow(array))
          [] state = 1 /\ c # RBrack ->
               LET r == decode_node(t, q)
               IN  IF r.end = q THEN Refused(1) ELSE array_loop(t, r.end, 2, r.node, array)
          [] state = 2 /\ c \in {Comma, RBrack} ->
               array_loop(t, q + 1, IF c = Comma THEN 1 ELSE 3, None, Push(array, node))
          [] OTHER -> Refused(1)

decode_array(t, p) == LET r == array_loop(t, p, 0, None, NoArray)
                      IN  IF r.node = None THEN Refused(p) ELSE r

object_loop(t, p, state, entry, object) ==
    LET q == ignore_chars(t, p)
        c == At(t, q)
    IN  CASE state = 5 -> Decoded(p, <<"object", object>>)
          [] state # 5 /\ p > Len(t) -> Refused(1)
          [] state = 0 /\ c = LBrace -> object_loop(t, q + 1, 1, entry, object)
          [] state = 1 /\ c = Quote ->
               LET key == decode_string(t, q)
               IN  IF key.node = None THEN Refused(1)
                   ELSE object_loop(t, key.end, 2, <<key.node[2], None>>, object)
          [] state = 2 /\ c = Colon -> object_loop(t, q + 1, 3, entry, object)
          [] state = 3 ->
               LET r == decode_node(t, q)
               IN  IF r.end = q THEN Refused(1)
                   ELSE object_loop(t, r.end, 4, <<entry[1], r.node>>, object)
          [] state = 4 /\ c \in {Comma, RBrace} ->
               object_loop(t, q + 1, IF c = Comma THEN 1 ELSE 5, None, Insert(object, entry))
          [] state = 1 /\ c = RBrace /\ object = NoObject -> object_loop(t, q + 1, 5, entry, object_grow(object))
          [] OTHER -> Refused(1)

decode_object(t, p) == LET r == object_loop(t, p, 0, None, NoObject)
                       IN  IF r.node = None THEN Refused(p) ELSE r

decode_node(t, p) ==
    LET q == ignore_chars(t, p)
        c == At(t, q)
    IN  CASE c = LBrace -> decode_object(t, q)
          [] c = LBrack -> decode_array(t, q)
          [] c = Quote -> decode_string(t, q)
          [] c \in {110, 102, 116} -> decode_literal(t, q)
          [] c \in Digits \cup Signs -> decode_number(t, q)
          [] OTHER -> Refused(q)

\* Mutation: any value will do.
dotjson_decodeAny(t) == decode_node(t, 1)

\* Only an object is decoded at the top level.
dotjson_decode(t) == decode_object(t, 1)

---------------------------------------------------------------------------
(* Encoder.  Each operator writes behind buf, the text so far; Put leaves   *)
(* holes for what does not fit below the limit l.                           *)

PutEach(buf, s, l) == FoldLeft(LAMBDA b, c : Put(b, <<c>>, l), buf, s)

encode_string(str, buf, l) ==
    LET Escaped(c) == {x \in Escapes : x[2] = c}
        Text(c) == IF Escaped(c) = {} THEN <<c>> ELSE <<Backslash, (CHOOSE x \in Escaped(c) : TRUE)[1]>>
    IN  PutEach(buf, <<Quote>> \o FlattenSeq([i \in DOMAIN CStr(str) |-> Text(str[i])]) \o <<Quote>>, l)

RECURSIVE encode_node(_, _, _)

\* The keys are written as they are, without escapes.
encode_object(o, buf, l) ==
    LET used == SelectSeq([i \in 1..o.cap |-> o.entries[i - 1]], LAMBDA e : e # Empty)
        Entry(b, e) == encode_node(e[2], Put(Put(b, <<Quote>> \o e[1] \o <<Quote>>, l), <<Colon>>, l), l)
        Next(b, e) == Entry(IF Len(b) = Len(buf) + 1 THEN b ELSE Put(b, <<Comma>>, l), e)
    IN  Put(FoldLeft(Next, Put(buf, <<LBrace>>, l), used), <<RBrace>>, l)

\* Mutation: nothing between the items.
encode_arrayRunsOn(items, buf, l) ==
    Put(FoldLeft(LAMBDA b, x : encode_node(x, b, l), Put(buf, <<LBrack>>, l), items), <<RBrack>>, l)

\* The opening bracket of an array wants room for one byte more than it takes.
encode_array(items, buf, l) ==
    LET open == IF l - Len(buf) > 1 THEN Append(buf, LBrack) ELSE Append(buf, Hole)
        Next(b, i) == encode_node(items[i], IF i = 1 THEN b ELSE Put(b, <<Comma>>, l), l)
    IN  Put(FoldLeft(Next, open, [i \in DOMAIN items |-> i]), <<RBrack>>, l)

encode_node(node, buf, l) ==
    CASE node[1] = "string" -> encode_string(node[2], buf, l)
      [] node[1] = "number" -> Put(buf, node[2], l)
      [] node[1] = "object" -> encode_object(node[2], buf, l)
      [] node[1] = "array" -> encode_array(node[2].items, buf, l)
      [] OTHER -> Put(buf, (CHOOSE x \in Literals : x[1] = node[1])[2], l)

\* text is what the buffer of len bytes holds; one byte is kept for the NUL.
dotjson_encode(root, len) ==
    LET text == encode_node(root, <<>>, IF len > 0 THEN len - 1 ELSE 0)
    IN  [text |-> text, terminated |-> len > Len(text)]

---------------------------------------------------------------------------
(* Memory: the number of blocks a node consists of, and how many of them    *)
(* dotjson_destroy gives back.                                              *)

\* Blocks counts the node itself and, in an object, one block per entry.
RECURSIVE Blocks(_)
Blocks(node) ==
    CASE node[1] = "object" ->
           1 + FoldLeft(LAMBDA n, e : IF e = Empty THEN n ELSE n + 1 + Blocks(e[2]), 0,
                        [i \in 1..node[2].cap |-> node[2].entries[i - 1]])
      [] node[1] = "array" -> 1 + FoldLeft(LAMBDA n, x : n + Blocks(x), 0, node[2].items)
      [] OTHER -> 1

RECURSIVE dotjson_destroy(_)

\* The loop over an object's table runs to len, not to cap.
dotjson_destroy(node) ==
    CASE node[1] = "object" ->
           1 + FoldLeft(LAMBDA n, e : IF e = Empty THEN n ELSE n + 1 + dotjson_destroy(e[2]), 0,
                        [i \in 1..node[2].len |-> node[2].entries[i - 1]])
      [] node[1] = "array" -> 1 + FoldLeft(LAMBDA n, x : n + dotjson_destroy(x), 0, node[2].items)
      [] OTHER -> 1
============================================================================
