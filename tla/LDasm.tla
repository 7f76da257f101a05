------------------------------- MODULE LDasm -------------------------------
(***************************************************************************)
(* LDasm.c: the length of an x86 instruction, and the scan of ssdt.c that  *)
(* walks over instructions with it.  Code is a sequence of bytes at        *)
(* positions from 1 on; behind its end the memory is not valid.  And two   *)
(* conversions of the driver: RVAToRaw of ssdt.c, MAKELONG of idt.c.       *)
(***************************************************************************)
EXTENDS Integers, Sequences

\* The OP_ flags an opcode can have; OP_DATA_I32 is in neither table.
Flag(name, set, op) == IF op \in set THEN {name} ELSE {}

\* The opcodes below 40 come in groups of eight: four with ModRM, two with an immediate.
Row(lo, cols) == {8 * i + c : i \in 0..7, c \in cols} \cup lo

OpcodeFlagsLow(op) ==
    Flag("MODRM", Row({\h62, \h63, \h69, \h6B}, 0..3), op)
    \cup Flag("I8", Row({\h6A, \h6B} \cup (\h70..\h7F), {4}), op)
    \cup Flag("PRE66_67", Row({\h68, \h69}, {5}), op)

OpcodeFlagsHigh(op) ==
    Flag("MODRM", (\h80..\h8F) \cup {\hC0, \hC1} \cup (\hC4..\hC7) \cup (\hD0..\hD3)
                  \cup {\hF6, \hF7, \hFE, \hFF}, op)
    \cup Flag("I8", {\h80, \h82, \h83, \hA8, \hC0, \hC1, \hC6, \hC8, \hCD, \hD4, \hD5, \hEB}
                    \cup (\hB0..\hB7) \cup (\hE0..\hE7), op)
    \cup Flag("I16", {\h9A, \hC2, \hC8, \hCA, \hEA}, op)
    \cup Flag("PRE66_67", {\h81, \h9A, \hA9, \hC7, \hE8, \hE9, \hEA} \cup (\hA0..\hA3) \cup (\hB8..\hBF), op)
    \cup Flag("WORD", \hD8..\hDF, op)
    \cup Flag("REL32", {\hE8, \hE9, \hFF}, op)

OpcodeFlags(op) == IF op < 128 THEN OpcodeFlagsLow(op) ELSE OpcodeFlagsHigh(op)

OpcodeFlagsExtLow(op) ==
    Flag("MODRM", (0..3) \cup {\h0D, \h0F} \cup (\h10..\h18) \cup (\h20..\h24) \cup {\h26}
                  \cup (\h28..\h2F) \cup (\h40..\h76) \cup (\h7C..\h7F), op)
    \cup Flag("I8", {\h0F} \cup (\h70..\h73), op)

OpcodeFlagsExtHigh(op) ==
    Flag("MODRM", (\h90..\h9F) \cup (\hA3..\hA5) \cup (\hAB..\hB7) \cup (\hBA..\hC7) \cup (\hD0..\hFE), op)
    \cup Flag("I8", {\hA4, \hAC, \hBA, \hC2} \cup (\hC4..\hC6), op)
    \cup Flag("PRE66_67", \h80..\h8F, op)
    \cup Flag("REL32", \h80..\h8F, op)

OpcodeFlagsExt(op) == IF op < 128 THEN OpcodeFlagsExtLow(op) ELSE OpcodeFlagsExtHigh(op)

Byte(code, p) == IF p \in DOMAIN code THEN code[p] ELSE 0

PrefixBytes == {\h2E, \h3E, \h36, \h26, \h64, \h65, \hF0, \hF2, \hF3, \h66, \h67}

\* Where the opcode is: the first byte from p on that is no prefix.
OpcodeAt(code, p) == CHOOSE q \in p..(Len(code) + 1) :
    Byte(code, q) \notin PrefixBytes /\ \A i \in p..(q - 1) : code[i] \in PrefixBytes

HasPrefix(code, p, x) == \E i \in p..(OpcodeAt(code, p) - 1) : code[i] = x

\* Mutation: a SIB byte without a base has no displacement.
AddressSizeNoBase(code, m, pfx67) ==
    LET mod == Byte(code, m) \div 64
        rm == Byte(code, m) % 8
        wide == IF pfx67 THEN 2 ELSE 4
    IN  (IF ~pfx67 /\ rm = 4 /\ mod # 3 THEN 1 ELSE 0)
        + (CASE mod = 0 /\ rm = (IF pfx67 THEN 6 ELSE 5) -> wide [] mod = 1 -> 1 [] mod = 2 -> wide [] OTHER -> 0)

\* The bytes behind a ModRM byte at m that address memory: a SIB byte and a displacement.
AddressSize(code, m, pfx67) ==
    LET mod == Byte(code, m) \div 64
        rm == Byte(code, m) % 8
        sib == ~pfx67 /\ rm = 4 /\ mod # 3
        wide == IF pfx67 THEN 2 ELSE 4
        offset == CASE sib /\ Byte(code, m + 1) % 8 = 5 /\ mod \in {0, 2} -> 4
                    [] mod = 0 /\ rm = (IF pfx67 THEN 6 ELSE 5) -> wide
                    [] mod = 1 -> 1
                    [] mod = 2 -> wide
                    [] OTHER -> 0
    IN  (IF sib THEN 1 ELSE 0) + offset

Size(name, flags, n) == IF name \in flags THEN n ELSE 0

\* 0 when the address is not valid or the prefixes run past 16 bytes.
SizeOfCode(code, p) ==
    LET q == OpcodeAt(code, p)
        op == Byte(code, q)
        two == op = \h0F
        m == IF two THEN q + 2 ELSE q + 1
        reg == (Byte(code, m) \div 8) % 8
        table == IF two THEN OpcodeFlagsExt(Byte(code, q + 1)) ELSE OpcodeFlags(op)
        flags == table \cup Flag("I8", {\hF6}, IF reg = 0 THEN op ELSE 0)
                       \cup Flag("PRE66_67", {\hF7}, IF reg = 0 THEN op ELSE 0)
        pfx67 == HasPrefix(code, p, \h67)
        pfx66 == IF op \in \hA0..\hA3 THEN pfx67 ELSE HasPrefix(code, p, \h66)
    IN  IF p > Len(code) \/ q > p + 16 THEN 0
        ELSE (m - p) + Size("WORD", flags, 1)
             + Size("MODRM", flags, 1 + AddressSize(code, m, pfx67))
             + Size("I8", flags, 1) + Size("I16", flags, 2)
             + Size("PRE66_67", flags, IF pfx66 THEN 2 ELSE 4)

\* A walk over code from instruction to instruction: where the next one starts, and where those
\* before it did.  It stays where no instruction has a length.
NextStart(code, walk, turn) ==
    LET size == SizeOfCode(code, walk.next)
    IN  IF size = 0 THEN walk ELSE [next |-> walk.next + size, starts |-> Append(walk.starts, walk.next)]

\* The positions of the instructions; there are no more of them than bytes.
Starts(code) ==
    LET walk[n \in 0..Len(code)] == IF n = 0 THEN [next |-> 1, starts |-> <<>>] ELSE NextStart(code, walk[n - 1], n)
    IN  walk[Len(code)].starts

\* Up to and including the first ret: C3 of one byte, C2 of three.
SizeOfProc(code) ==
    LET s == Starts(code)
        Ret(i) == <<SizeOfCode(code, s[i]), Byte(code, OpcodeAt(code, s[i]))>> \in {<<1, \hC3>>, <<3, \hC2>>}
        n == {i \in DOMAIN s : \A j \in 1..(i - 1) : ~Ret(j)}
    IN  IF n = {} THEN 0 ELSE LET last == CHOOSE i \in n : \A j \in n : j <= i
                              IN  s[last] + SizeOfCode(code, s[last]) - 1

IsRelativeCmd(code, q) ==
    "REL32" \in IF Byte(code, q) = \h0F THEN OpcodeFlagsExt(Byte(code, q + 1)) ELSE OpcodeFlags(Byte(code, q))

\* The position of the operand of the first instruction that starts with 8D 88
\* (lea ecx, [eax + disp32]) less than page bytes from the start; 0 when there is none.
LocateSSDTShadowBase(code, page) ==
    LET s == Starts(code)
        hits == {i \in DOMAIN s : s[i] <= page /\ Byte(code, s[i]) = \h8D /\ Byte(code, s[i] + 1) = \h88}
    IN  IF hits = {} THEN 0
        ELSE OpcodeAt(code, s[CHOOSE i \in hits : \A j \in hits : i <= j]) + 2

\* Mutation: the offset is counted from the start of the image.
RawInUnbased(section, rva) == section.raw + rva

\* The file offset of an address inside a section.
RawIn(section, rva) == rva - section.va + section.raw

\* RVAToRaw: turn i advances the header pointer by i, so that headers 0, 1, 3, 6 ... are
\* looked at, and finds nothing in those behind the last section.  The first byte of a
\* section does not count as inside; 0 when no section holds the address.
RVAToRaw(sections, rva) ==
    LET looked == {(i * (i + 1)) \div 2 + 1 : i \in 0..(Len(sections) - 1)} \cap DOMAIN sections
        inside == {i \in looked : rva > sections[i].va /\ rva < sections[i].va + sections[i].size}
    IN  IF inside = {} THEN 0
        ELSE RawIn(sections[CHOOSE i \in inside : \A j \in inside : i <= j], rva)

\* The values of a SHORT, narrowed from 2 ^ 16: an address has to fit TLC's integers.
Half == 256

\* MAKELONG casts both halves to signed ones, so a low half with its top bit set fills
\* the high half with ones.
MAKELONG(l, h) == IF l < Half \div 2 THEN h * Half + l ELSE (Half - 1) * Half + l
============================================================================
