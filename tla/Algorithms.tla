----------------------------- MODULE Algorithms -----------------------------
(***************************************************************************)
(* The pure algorithms of the repository against reference definitions.    *)
(* A behaviour chooses one of them (mode) and builds an input for it one   *)
(* word at a time; every invariant compares the result of the code's       *)
(* algorithm with what it ought to be on every input that is reached.      *)
(***************************************************************************)
EXTENDS JsonTable, LDasm, ZaxRT, Md5p, EnvExt

CONSTANTS MaxKeys, MaxCode, MaxSections, MaxBytes, MaxMessage, MaxLines    \* the longest input of each mode, in words

\* No more entries than the largest table that min_bucket chooses has slots.
ASSUME KeysAssumption == MaxKeys \in 0..(2^30)

\* The bytes of a DWORD.
ASSUME BytesAssumption == MaxBytes \in 0..4

VARIABLES mode, in

vars == <<mode, in>>

\* The sequences of a sequence, one behind the other.
Concat(ss) == FoldLeft(LAMBDA s, t : s \o t, <<>>, ss)

---------------------------------------------------------------------------
(* Keys *)

\* "a", "b", "e" and "i": the last two start probing where the first one does, in a small table.
Keys == {<<97>>, <<98>>, <<101>>, <<105>>}

Table == FoldLeft(LAMBDA o, i : Insert(o, <<in[i], <<"value", i>>>>), NoObject, [i \in DOMAIN in |-> i])

\* After any sequence of insertions, however often the table has grown, dotjson_object_get finds a value
\* that was inserted for the key, and finds nothing under a key that was never inserted.
FindsKeys == mode = "keys" /\ in # <<>> =>
    \A k \in Keys : dotjson_object_get(Table, k) \in
        LET values == {<<"value", i>> : i \in {j \in DOMAIN in : in[j] = k}}
        IN  IF values = {} THEN {None} ELSE values

---------------------------------------------------------------------------
(* Machine code *)

\* Instructions as an assembler emits them, each a sequence of bytes of its true length.
Instructions == {
    <<\h55>>,                                              \* push ebp
    <<\hC3>>, <<\hC2, 4, 0>>,                              \* ret; ret 4
    <<\h8B, \hEC>>,                                        \* mov ebp, esp
    <<\h8B, \h44, \h24, 8>>,                               \* mov eax, [esp + 8]
    <<\h8B, 5, \h8D, \h88, 0, 0>>,                         \* mov eax, [888Dh]
    <<\h8D, \h88, 1, 2, 3, 4>>,                            \* lea ecx, [eax + disp32]
    <<\h67, \h8B, \h46, 8>>, <<\h67, \h8B, \h16, 1, 2>>,   \* mov with 16-bit addresses
    <<\h8B, 4, \h8D, 1, 2, 3, 4>>,                         \* mov eax, [ecx * 4 + disp32]
    <<\hB8, \h8D, \h88, 0, 0>>, <<\h66, \hB8, 1, 2>>,      \* mov eax, 888Dh; mov ax, imm16
    <<\hA1, 1, 2, 3, 4>>, <<\h67, \hA1, 1, 2>>,            \* mov eax, moffs
    <<\h81, \h7C, \h24, 4, 1, 2, 3, 4>>,                   \* cmp dword [esp + 4], imm32
    <<\hF7, 5, 1, 2, 3, 4, 5, 6, 7, 8>>, <<\hF7, \hD8>>,   \* test [disp32], imm32; neg eax
    <<\hF6, \hC1, 1>>, <<\hC8, 8, 0, 0>>,                  \* test cl, 1; enter 8, 0
    <<\h0F, \h84, 1, 2, 3, 4>>, <<\h0F, \hB6, \h45, 8>>,   \* jz rel32; movzx eax, byte [ebp + 8]
    <<\h9A, 1, 2, 3, 4, 5, 6>>, <<\hF0, \h0F, \hBA, \h28, 3>>}  \* call far; lock bts [eax], 3

\* Where the n-th instruction of the input starts; n may be one more than there are.
StartOf(n) == 1 + Len(Concat(SubSeq(in, 1, n - 1)))

\* Walking over code with SizeOfCode meets every instruction at its first byte and no other byte.
WalksInstructions == mode = "code" => Starts(Concat(in)) = [n \in DOMAIN in |-> StartOf(n)]

\* SizeOfProc ends with the first ret, or with the code.
MeasuresProcedures == mode = "code" =>
    LET rets == {n \in DOMAIN in : in[n] \in {<<\hC3>>, <<\hC2, 4, 0>>}}
    IN  SizeOfProc(Concat(in)) = StartOf(1 + (IF rets = {} THEN Len(in) ELSE Min(rets))) - 1

\* LocateSSDTShadowBase takes the operand of the first lea that is an instruction and starts in the page:
\* not bytes of another instruction's operand that look the same.
FindsLea == mode = "code" =>
    \A page \in {4, 4096} :
      LET leas == {n \in DOMAIN in : in[n][1] = \h8D /\ StartOf(n) <= page}
      IN  LocateSSDTShadowBase(Concat(in), page) = IF leas = {} THEN 0 ELSE StartOf(Min(leas)) + 2

---------------------------------------------------------------------------
(* Sections of an image, given by their sizes, and the halves of an address *)

\* Every section has four addresses to itself and three bytes of headers before it in the file.
Headers == [i \in DOMAIN in |-> [va |-> 4 * i, size |-> in[i], raw |-> 3 * i]]

\* Where turns of 0, 1, 2, ... headers lead from the first one.
Reached == {1 + (k * (k + 1)) \div 2 : k \in 0..(Len(in) - 1)}

\* RVAToRaw of ssdt.c answers with the offset in the section that holds the address, or nothing.
\* It answers exactly for the sections whose headers it comes across, the first, the second, the
\* fourth, the seventh ...: in any other one, and at the first byte of each, an address has no offset.
RawIsRight == mode = "sections" =>
    \A rva \in 0..(4 * (Len(in) + 2)) :
      LET holds == {i \in DOMAIN in : rva > 4 * i /\ rva < 4 * i + in[i]}
          raw == RVAToRaw(Headers, rva)
      IN  /\ \A i \in holds : raw \in {0, rva - i}
          /\ raw # 0 <=> holds \cap Reached # {}

\* MAKELONG of idt.c keeps the low half of a handler's address; it joins the two halves exactly if
\* the top bit of the low one is clear, or the high one has ones only.
OffsetJoined == mode = "bytes" /\ Len(in) = 2 =>
    LET offset == MAKELONG(in[1], in[2])
    IN  /\ offset % Half = in[1]
        /\ offset = Half * in[2] + in[1] <=> in[1] < Half \div 2 \/ in[2] = Half - 1

---------------------------------------------------------------------------
(* Texts of numbers and bytes *)

Number == FoldLeft(LAMBDA n, b : n * 256 + b, 0, in)

Value(text, radix) == FoldLeft(LAMBDA n, d : n * radix + d, 0, text)

\* rt_dwtos writes the digits of the number, padded to the width asked for and no further, or
\* nothing when they and the NUL do not fit.  rt_stodw reads a decimal text back if it ends there,
\* and takes the number tenfold if another character follows (stated of three bytes, where that is
\* still a DWORD); it reads a hexadecimal text back exactly if no letter is in it.
WritesNumbers == mode = "bytes" =>
    \A radix \in {10, 16}, fill \in {0, 8} :
      LET t == rt_dwtos(Number, radix, fill, 16)
      IN  /\ Value(t, radix) = Number
          /\ Len(t) >= fill /\ (Len(t) > Max({fill, 1}) => t[1] # 0)
          /\ \A out \in 9..16 : rt_dwtos(Number, radix, fill, out) = IF Len(t) < out THEN t ELSE <<>>
          /\ radix = 10 => /\ rt_stodw(t, FALSE) = [length |-> Len(t), value |-> Number]
                           /\ Len(in) < 4 => rt_stodw(Append(t, Blank), FALSE) = [length |-> Len(t), value |-> 10 * Number]
          /\ radix = 16 => /\ rt_stodw(t, TRUE).length = Len(t) + 2
                           /\ rt_stodw(t, TRUE).value = Number <=> ToSet(t) \subseteq 0..9

\* rt_btos writes every byte as two digits with blanks between, in a buffer of three characters per byte.
WritesBytes == mode = "bytes" /\ in # <<>> =>
    LET t == rt_btos(in, 3 * Len(in))
    IN  /\ Len(t) = 3 * Len(in) - 1
        /\ \A i \in DOMAIN in : /\ <<t[3 * i - 2], t[3 * i - 1]>> = <<in[i] \div 16, in[i] % 16>>
                                /\ i < Len(in) => t[3 * i] = Blank

---------------------------------------------------------------------------
(* Digests *)

\* RFC 1321: the message, 80, zeros to 56 modulo 64, and the length in bits as two words.
PaddedMessage(m) ==
    LET zeros == CHOOSE z \in 0..63 : (Len(m) + 1 + z) % 64 = 56
    IN  m \o <<128>> \o [i \in 1..zeros |-> 0] \o <<(8 * Len(m)) % Word, (8 * Len(m)) \div Word>>

\* GetSum feeds Update with the padded message of RFC 1321 in blocks of 64 bytes (the last one
\* ends in two whole words).  A message ends 64 bytes before the lengths wrap around.
FeedsPaddedMessage == mode = "message" /\ Len(in) < Word - 64 =>
    LET fed == GetSum(in).fed
    IN  /\ Concat(fed) = PaddedMessage(in)
        /\ \A i \in DOMAIN fed : Len(fed[i]) = IF i = Len(fed) THEN 58 ELSE 64

\* The steps of Update add the words of the block in the order of RFC 1321, rotate to distinct
\* places, and combine the registers with its four functions.
MixesLikeRFC == mode = "message" /\ in # <<>> /\ Len(in) < Word =>
    LET k == (Len(in) - 1) % 64
        Index == <<k, 5 * k + 1, 3 * k + 5, 7 * k>>
        Bit(n) == (Len(in) \div n) % 2
        x == Bit(1)
        y == Bit(2)
        z == Bit(4)
    IN  /\ StepWord[k + 1] = Index[1 + (k \div 16)] % 16
        /\ Cardinality({StepShift(i) : i \in 1..64}) = 16
        /\ md5_f(x, y, z) = (IF x = 1 THEN y ELSE z) /\ md5_g(x, y, z) = (IF z = 1 THEN x ELSE y)
        /\ md5_h(x, y, z) = (x + y + z) % 2 /\ md5_i(x, y, z) = (IF x = 1 \/ z = 0 THEN 1 - y ELSE y)
        /\ \A c \in 1..(WordBits - 1) : md5_rol(md5_rol(Len(in), c), WordBits - c) = Len(in)

---------------------------------------------------------------------------
(* Environment files *)

Name(n) == <<<<n>>>>
Ref(n) == <<<<"%", n>>>>

\* Lines: A=x, A=y, B=%A%, B=%A%y, A=%B%; a line without a name and one without '='.
PlainLines == {<<Name("A"), Name("x")>>, <<Name("A"), Name("y")>>, <<Name("B"), Ref("A")>>,
               <<Name("B"), Ref("A") \o Name("y")>>, <<Name("A"), Ref("B")>>, <<<<>>, Name("x")>>, <<Name("x")>>}

\* Lines with an empty value, and with an '=' in the value: A= and A=B=x.
OddLines == {<<Name("A"), <<>>>>, <<Name("A"), Name("B"), Name("x")>>}

Env0 == [p \in {Name("P")} |-> Name("p")]

\* What the lines mean one after the other: each sees the values that those before it have set.
Assigned(env, line) ==
    IF Len(line) = 1 \/ line[1] = <<>> THEN env
    ELSE SetEnvironmentVariable(env, line[1], ExpandEnvironmentStrings(env, Join(Tail(line))))

\* env_load performs the lines in order, when no value is empty or has an '=' in it.
LoadsInOrder == mode = "env" /\ ToSet(in) \subseteq PlainLines =>
    env_load(TRUE, in, Env0) = FoldLeft(Assigned, Env0, in)

\* Choosing Reload with an unchanged file changes nothing, if no line reads a variable that this
\* line or a later one sets.
ReloadsSame == mode = "env" /\ ToSet(in) \subseteq PlainLines =>
    LET Reads(i, n) == \E part \in DOMAIN in[i] : \E t \in DOMAIN in[i][part] : in[i][part][t] = <<"%", n>>
        Sets(i, n) == in[i][1] = Name(n)
        once == env_load(TRUE, in, Env0)
    IN  (\A i \in DOMAIN in, n \in {"A", "B"} : Reads(i, n) => \A j \in DOMAIN in : Sets(j, n) => j < i)
        => env_load(TRUE, in, once) = once

---------------------------------------------------------------------------
(* What each program computes *)

\* zik walks the kernel's code from instruction to instruction.
CodeWalked == WalksInstructions /\ MeasuresProcedures /\ FindsLea

\* zax-inspector writes numbers and bytes as what they are; its conversions of addresses and of
\* texts are right in just the cases that RawIsRight, OffsetJoined and WritesNumbers name.
ZaxConverts == RawIsRight /\ OffsetJoined /\ WritesNumbers /\ WritesBytes

\* md5p feeds and mixes the blocks of RFC 1321.
DigestsLikeRFC == FeedsPaddedMessage /\ MixesLikeRFC

\* envext performs the lines of its file in order, and again without effect.
EnvLoaded == LoadsInOrder /\ ReloadsSame

---------------------------------------------------------------------------

\* The words that may follow in the input of a mode, and how many there may be.
Words ==
    CASE mode = "keys" -> Keys
      [] mode = "code" -> Instructions
      [] mode = "sections" -> 1..4
      [] mode = "bytes" -> {0, 9, 16, 165, 255}
      [] mode = "message" -> {1 + Len(in)}
      [] mode = "env" -> PlainLines \cup OddLines

Limit == [keys |-> MaxKeys, code |-> MaxCode, sections |-> MaxSections, bytes |-> MaxBytes,
          message |-> MaxMessage, env |-> MaxLines]

Init == mode \in DOMAIN Limit /\ in = <<>>

Extend == mode \in DOMAIN Limit /\ Len(in) < Limit[mode] /\ \E w \in Words : in' = Append(in, w) /\ UNCHANGED mode

Spec == Init /\ [][Extend]_vars
=============================================================================
