--------------------------- MODULE JsonAlgorithms ---------------------------
(***************************************************************************)
(* The algorithms of dotjson that recurse over the nesting of a text, a    *)
(* number, a string or a comment, next to those of Algorithms.             *)
(***************************************************************************)
EXTENDS Algorithms, DotJson

CONSTANTS MaxJson, MaxNumber, MaxString, MaxSkip    \* the longest input of each mode, in words

---------------------------------------------------------------------------
(* JSON texts, as sequences of the words of the grammar; a blank ends a number *)

Lexeme == [w \in {"{", "}", "[", "]", ",", ":", "a", "b", "1", "t"} |->
             CASE w = "{" -> <<LBrace>> [] w = "}" -> <<RBrace>> [] w = "[" -> <<LBrack>>
               [] w = "]" -> <<RBrack>> [] w = "," -> <<Comma>> [] w = ":" -> <<Colon>>
               [] w = "a" -> <<Quote, 97, Quote>> [] w = "b" -> <<Quote, 98, Quote>>
               [] w = "1" -> <<49, 32>> [] w = "t" -> <<116, 114, 117, 101>>]

Strings == {"a", "b"}

\* The syntax diagrams of JSON as a machine with a stack: what may come next (need) inside
\* which brackets (stack).  "done" after the outermost bracket, "dead" after an error.
Opened(s, w) == [need |-> IF w = "{" THEN "key or }" ELSE "value or ]", stack |-> <<w>> \o s.stack]

Closed(s) == [need |-> IF Len(s.stack) = 1 THEN "done" ELSE "more", stack |-> Tail(s.stack)]

Needs(s, need) == [s EXCEPT !.need = need]

Read(s, w) ==
    CASE s.need = "start" /\ w = "{" -> Opened(s, w)
      [] s.need \in {"value", "value or ]"} /\ w \in {"{", "["} -> Opened(s, w)
      [] s.need \in {"value", "value or ]"} /\ w \in Strings \cup {"1", "t"} -> Needs(s, "more")
      [] s.need = "value or ]" /\ w = "]" -> Closed(s)
      [] s.need \in {"key", "key or }"} /\ w \in Strings -> Needs(s, ":")
      [] s.need = "key or }" /\ w = "}" -> Closed(s)
      [] s.need = ":" /\ w = ":" -> Needs(s, "value")
      [] s.need = "more" /\ w = "," -> Needs(s, IF Head(s.stack) = "{" THEN "key" ELSE "value")
      [] s.need = "more" /\ <<Head(s.stack), w>> \in {<<"{", "}">>, <<"[", "]">>} -> Closed(s)
      [] OTHER -> Needs(s, "dead")

Syntax(words) == FoldLeft(Read, [need |-> "start", stack |-> <<>>], words)

Text(words) == Concat([i \in DOMAIN words |-> Lexeme[words[i]]])

\* A node without the layout of its tables, to compare two of them.
RECURSIVE Meaning(_)
Meaning(node) ==
    CASE node[1] = "object" -> <<"object", {<<node[2].entries[i][1], Meaning(node[2].entries[i][2])>> :
                                            i \in {j \in 0..(node[2].cap - 1) : node[2].entries[j] # Empty}}>>
      [] node[1] = "array" -> <<"array", [i \in DOMAIN node[2].items |-> Meaning(node[2].items[i])]>>
      [] OTHER -> node

\* The objects in a node.
RECURSIVE Objects(_)
Objects(node) ==
    CASE node[1] = "object" -> {node[2]} \cup UNION {Objects(node[2].entries[i][2]) :
                                 i \in {j \in 0..(node[2].cap - 1) : node[2].entries[j] # Empty}}
      [] node[1] = "array" -> UNION {Objects(node[2].items[i]) : i \in DOMAIN node[2].items}
      [] OTHER -> {}

\* dotjson_decode accepts exactly the texts that the grammar calls an object, and takes all of them.
DecodesGrammar == mode = "json" =>
    \A r \in {dotjson_decode(Text(in))} :
       IF Syntax(in).need = "done" THEN r.node # None /\ r.end = Len(Text(in)) + 1 ELSE r.node = None

\* The tree of the text, when the text is complete.
Trees == IF mode = "json" /\ Syntax(in).need = "done" THEN {dotjson_decode(Text(in)).node} ELSE {}

\* What dotjson_encode writes for a tree is decoded to the same values again.
RoundTrip(node) ==
    LET n == Len(dotjson_encode(node, 0).text)
    IN  Meaning(dotjson_decode(dotjson_encode(node, n + 1).text).node) = Meaning(node)

\* With a buffer of len bytes dotjson_encode returns the same length whatever len is, writes the whole
\* text and its NUL when they fit, and otherwise leaves the last byte of the buffer alone.
EncodeFits(node) ==
    \A n \in {Len(dotjson_encode(node, 0).text)} : \A len \in 0..(n + 2) :
       \A r \in {dotjson_encode(node, len)} :
          /\ Len(r.text) = n
          /\ r.terminated = (\A i \in 1..n : r.text[i] # Hole)
          /\ ~r.terminated /\ len > 0 => r.text[len] = Hole

\* dotjson_destroy frees every block of a tree whose objects fill their tables (the loop over
\* a table stops at len, so the entries behind it in a sparser table are lost).
DestroyFrees(node) == (\A o \in Objects(node) : o.len \in {0, o.cap}) => dotjson_destroy(node) = Blocks(node)

---------------------------------------------------------------------------
(* Numbers *)

AllDigits(s) == \A i \in DOMAIN s : s[i] \in Digits

Unsigned(s) == IF s # <<>> /\ s[1] \in Signs THEN Tail(s) ELSE s

Integral(s) == s # <<>> /\ AllDigits(s)

Fixed(s) == Integral(s) \/ \E i \in DOMAIN s : s[i] = 46 /\ Integral(Sub(s, 1, i - 1)) /\ Integral(Sub(s, i + 1, Len(s)))

\* [+-] digits [. digits] [(e|E) [+-] digits]
IsNumber(s) == LET u == Unsigned(s)
               IN  Fixed(u) \/ \E i \in DOMAIN u : /\ u[i] \in {69, 101}
                                                   /\ Fixed(Sub(u, 1, i - 1))
                                                   /\ Integral(Unsigned(Sub(u, i + 1, Len(u))))

\* decode_number takes the longest text that can still become a number, if that is one.
DecodesNumbers == mode = "number" =>
    LET viable == {n \in 0..Len(in) : IsNumber(Sub(in, 1, n)) \/ IsNumber(Append(Sub(in, 1, n), 49))}
        n == Max(viable)
    IN  decode_number(in, 1) = IF IsNumber(Sub(in, 1, n)) THEN Decoded(n + 1, <<"number", Sub(in, 1, n)>>)
                                                          ELSE Refused(1)

---------------------------------------------------------------------------
(* Strings *)

\* Pieces of string literals and what they mean: a letter, \n, \", \u0041, \u00e9, \u4F60.
Pieces == {<<<<120>>, <<120>>>>, <<<<92, 110>>, <<10>>>>, <<<<92, 34>>, <<34>>>>,
           <<<<92, 117, 48, 48, 52, 49>>, <<65>>>>, <<<<92, 117, 48, 48, 101, 57>>, <<195, 169>>>>,
           <<<<92, 117, 52, 70, 54, 48>>, <<228, 189, 160>>>>}

Literal(pieces) == <<Quote>> \o Concat([i \in DOMAIN pieces |-> pieces[i][1]]) \o <<Quote>>

\* A string literal is decoded to the concatenation of what its pieces mean: the second pass of
\* unescape_str fills exactly the bytes that the first one counted.  Without the closing quote
\* nothing is decoded.
DecodesStrings == mode = "string" =>
    LET t == Literal(in)
        meaning == Concat([i \in DOMAIN in |-> in[i][2]])
    IN  /\ decode_string(t, 1) = Decoded(Len(t) + 1, <<"string", meaning>>)
        /\ decode_string(Front(t), 1) = Refused(1)
        /\ decode_string(PutEach(<<>>, encode_string(meaning, <<>>, 100), 100), 1).node = <<"string", meaning>>

---------------------------------------------------------------------------
(* Comments *)

\* A blank, a line's end, and the four characters a comment can start and end with.
SkipChars == {32, Newline, Slash, Star, 120}

IsLine(s) == /\ Len(s) >= 2 /\ s[1] = Slash /\ s[2] = Slash
             /\ \A i \in DOMAIN s : s[i] = Newline => i = Len(s)

IsBlock(s) == /\ Len(s) >= 2 /\ s[1] = Slash /\ s[2] = Star
              /\ \A i \in 3..(Len(s) - 1) : s[i] = Star /\ s[i + 1] = Slash => i = Len(s) - 1

\* An unfinished comment takes the rest of the text.
Finished(s) == IF IsLine(s) THEN Last(s) = Newline ELSE Len(s) >= 4 /\ Sub(s, Len(s) - 1, Len(s)) = <<Star, Slash>>

\* s is skipped: blanks and comments, of which only the last may be unfinished.
RECURSIVE Skipped(_, _)
Skipped(s, final) ==
    \/ s = <<>>
    \/ s[1] \in Space /\ Skipped(Tail(s), final)
    \/ \E i \in 1..Len(s) : LET c == Sub(s, 1, i)
                            IN  /\ IsLine(c) \/ IsBlock(c)
                                /\ Finished(c) \/ (i = Len(s) /\ final)
                                /\ Skipped(Sub(s, i + 1, Len(s)), final)

\* ignore_chars stops behind the longest sequence of blanks and comments.
SkipsComments == mode = "skip" =>
    ignore_chars(in, 1) - 1 = Max({n \in 0..Len(in) : Skipped(Sub(in, 1, n), n = Len(in))})

---------------------------------------------------------------------------
(* What each program computes *)

\* dotjson_decode accepts the grammar and reads its values, numbers, strings and comments right.
JsonDecodes == DecodesGrammar /\ DecodesNumbers /\ DecodesStrings /\ SkipsComments

\* A tree of dotjson is found by its keys, written out in the room that was counted, read back
\* as it was, and freed.
JsonKept == FindsKeys /\ \A node \in Trees : RoundTrip(node) /\ EncodeFits(node) /\ DestroyFrees(node)

---------------------------------------------------------------------------

\* A text with an error goes on with closing brackets: it may not be accepted at any of them.
JsonWords ==
    CASE mode = "json" -> {w \in DOMAIN Lexeme : \/ Syntax(in).need \notin {"done", "dead"}
                                                 \/ Syntax(in).need = "dead" /\ w \in {"]", "}"}}
      [] mode = "number" -> {43, 49, 46, 101, 120}
      [] mode = "string" -> Pieces
      [] mode = "skip" -> SkipChars

JsonLimit == [json |-> MaxJson, number |-> MaxNumber, string |-> MaxString, skip |-> MaxSkip]

JsonInit == mode \in DOMAIN JsonLimit /\ in = <<>>

JsonExtend ==
    mode \in DOMAIN JsonLimit /\ Len(in) < JsonLimit[mode] /\ \E w \in JsonWords : in' = Append(in, w) /\ UNCHANGED mode

AllSpec == (Init \/ JsonInit) /\ [][Extend \/ JsonExtend]_vars
=============================================================================
