---------------------------- MODULE SearchProofs -----------------------------
(***************************************************************************)
(* Proofs about the searches of zik and of dotjson.  zik walks over machine*)
(* code: for code of any number of instructions, SizeOfCode finds the      *)
(* length of every one of them, what comes behind it notwithstanding, so   *)
(* that the loops that add up lengths meet the instructions where they     *)
(* start and nothing in between.  dotjson probes the table of an object:   *)
(* however often it has grown, probing finds what was inserted.            *)
(***************************************************************************)
EXTENDS Algorithms, FiniteSetTheorems, SequenceTheorems, TLAPS

-----------------------------------------------------------------------------
(* The lengths of the instructions *)

\* The bytes b stand in the code from position p on.
Stands(code, p, b) ==
    /\ p \in Nat /\ p > 0 /\ p + Len(b) - 1 <= Len(code)
    /\ \A j \in 0..(Len(b) - 1) : Byte(code, p + j) = b[j + 1]

\* The flags that SizeOfCode goes by: op is the opcode, x the byte behind it.
FlagsAt(op, x) ==
    (IF op = \h0F THEN OpcodeFlagsExt(x) ELSE OpcodeFlags(op))
    \cup (IF op = \hF6 /\ (x \div 8) % 8 = 0 THEN {"I8"} ELSE {})
    \cup (IF op = \hF7 /\ (x \div 8) % 8 = 0 THEN {"PRE66_67"} ELSE {})

\* The flags of the opcodes that the instructions have.
LEMMA FlagsTable ==
    ASSUME NEW x
    PROVE  /\ FlagsAt(\h55, x) = {} /\ FlagsAt(\hC3, x) = {} /\ FlagsAt(\hC2, x) = {"I16"}
           /\ FlagsAt(\h8B, x) = {"MODRM"} /\ FlagsAt(\h8D, x) = {"MODRM"}
           /\ FlagsAt(\hB8, x) = {"PRE66_67"} /\ FlagsAt(\hA1, x) = {"PRE66_67"}
           /\ FlagsAt(\h81, x) = {"MODRM", "PRE66_67"}
           /\ FlagsAt(\hF7, 5) = {"MODRM", "PRE66_67"} /\ FlagsAt(\hF7, \hD8) = {"MODRM"}
           /\ FlagsAt(\hF6, \hC1) = {"MODRM", "I8"} /\ FlagsAt(\hC8, x) = {"I16", "I8"}
           /\ FlagsAt(\h9A, x) = {"I16", "PRE66_67"}
           /\ FlagsAt(\h0F, \h84) = {"PRE66_67", "REL32"} /\ FlagsAt(\h0F, \hB6) = {"MODRM"}
           /\ FlagsAt(\h0F, \hBA) = {"MODRM", "I8"}
<1>1. OpcodeFlagsLow(\h55) = {}
  BY DEF OpcodeFlagsLow, Flag, Row
<1>2. /\ OpcodeFlagsHigh(\hC3) = {} /\ OpcodeFlagsHigh(\hC2) = {"I16"}
      /\ OpcodeFlagsHigh(\h8B) = {"MODRM"} /\ OpcodeFlagsHigh(\h8D) = {"MODRM"}
  BY DEF OpcodeFlagsHigh, Flag
<1>3. /\ OpcodeFlagsHigh(\hB8) = {"PRE66_67"} /\ OpcodeFlagsHigh(\hA1) = {"PRE66_67"}
      /\ OpcodeFlagsHigh(\h81) = {"MODRM", "PRE66_67"}
  BY DEF OpcodeFlagsHigh, Flag
<1>4. /\ OpcodeFlagsHigh(\hF7) = {"MODRM"} /\ OpcodeFlagsHigh(\hF6) = {"MODRM"}
  BY DEF OpcodeFlagsHigh, Flag
<1>5. /\ OpcodeFlagsHigh(\hC8) = {"I16", "I8"} /\ OpcodeFlagsHigh(\h9A) = {"I16", "PRE66_67"}
  BY DEF OpcodeFlagsHigh, Flag
<1>6. /\ OpcodeFlagsExtHigh(\h84) = {"PRE66_67", "REL32"} /\ OpcodeFlagsExtHigh(\hB6) = {"MODRM"}
      /\ OpcodeFlagsExtHigh(\hBA) = {"MODRM", "I8"}
  BY DEF OpcodeFlagsExtHigh, Flag
<1>7. FlagsAt(\h55, x) = {}
  BY <1>1 DEF FlagsAt, OpcodeFlags
<1>8. /\ FlagsAt(\hC3, x) = {} /\ FlagsAt(\hC2, x) = {"I16"}
      /\ FlagsAt(\h8B, x) = {"MODRM"} /\ FlagsAt(\h8D, x) = {"MODRM"}
  BY <1>2 DEF FlagsAt, OpcodeFlags
<1>9. /\ FlagsAt(\hB8, x) = {"PRE66_67"} /\ FlagsAt(\hA1, x) = {"PRE66_67"}
      /\ FlagsAt(\h81, x) = {"MODRM", "PRE66_67"}
  BY <1>3 DEF FlagsAt, OpcodeFlags
<1>10. /\ FlagsAt(\hF7, 5) = {"MODRM", "PRE66_67"} /\ FlagsAt(\hF7, \hD8) = {"MODRM"}
       /\ FlagsAt(\hF6, \hC1) = {"MODRM", "I8"}
  BY <1>4 DEF FlagsAt, OpcodeFlags
<1>11. FlagsAt(\hC8, x) = {"I16", "I8"} /\ FlagsAt(\h9A, x) = {"I16", "PRE66_67"}
  BY <1>5 DEF FlagsAt, OpcodeFlags
<1>12. /\ FlagsAt(\h0F, \h84) = {"PRE66_67", "REL32"} /\ FlagsAt(\h0F, \hB6) = {"MODRM"}
       /\ FlagsAt(\h0F, \hBA) = {"MODRM", "I8"}
  BY <1>6 DEF FlagsAt, OpcodeFlagsExt
<1>. QED BY <1>7, <1>8, <1>9, <1>10, <1>11, <1>12

\* The ModRM bytes of the instructions, with the SIB byte behind two of them.
LEMMA AddressTable ==
    ASSUME NEW code, NEW m
    PROVE  /\ Byte(code, m) \in {\hEC, \hD8, \hC1, \h28} => AddressSize(code, m, FALSE) = 0
           /\ Byte(code, m) = \h45 => AddressSize(code, m, FALSE) = 1
           /\ Byte(code, m) \in {5, \h88} => AddressSize(code, m, FALSE) = 4
           /\ Byte(code, m) \in {\h44, \h7C} => AddressSize(code, m, FALSE) = 2
           /\ Byte(code, m) = 4 /\ Byte(code, m + 1) = \h8D => AddressSize(code, m, FALSE) = 5
           /\ Byte(code, m) = \h46 => AddressSize(code, m, TRUE) = 1
           /\ Byte(code, m) = \h16 => AddressSize(code, m, TRUE) = 2
<1>1. ASSUME Byte(code, m) \in {\hEC, \hD8, \hC1, \h28} PROVE AddressSize(code, m, FALSE) = 0
  BY <1>1 DEF AddressSize
<1>2. ASSUME Byte(code, m) = \h45 PROVE AddressSize(code, m, FALSE) = 1
  BY <1>2 DEF AddressSize
<1>3. ASSUME Byte(code, m) \in {5, \h88} PROVE AddressSize(code, m, FALSE) = 4
  BY <1>3 DEF AddressSize
<1>4. ASSUME Byte(code, m) \in {\h44, \h7C} PROVE AddressSize(code, m, FALSE) = 2
  BY <1>4 DEF AddressSize
<1>5. ASSUME Byte(code, m) = 4, Byte(code, m + 1) = \h8D PROVE AddressSize(code, m, FALSE) = 5
  BY <1>5 DEF AddressSize
<1>6. ASSUME Byte(code, m) = \h46 PROVE AddressSize(code, m, TRUE) = 1
  BY <1>6 DEF AddressSize
<1>7. ASSUME Byte(code, m) = \h16 PROVE AddressSize(code, m, TRUE) = 2
  BY <1>7 DEF AddressSize
<1>. QED BY <1>1, <1>2, <1>3, <1>4, <1>5, <1>6, <1>7

\* The opcode is the first byte that is no prefix.
LEMMA OpcodeIs ==
    ASSUME NEW code \in Seq(Nat), NEW p \in 1..Len(code), NEW q \in p..Len(code), q <= p + 1,
           code[q] \notin PrefixBytes, q = p + 1 => code[p] \in PrefixBytes
    PROVE  OpcodeAt(code, p) = q
<1>. DEFINE Opcode(x) == Byte(code, x) \notin PrefixBytes /\ \A i \in p..(x - 1) : code[i] \in PrefixBytes
<1>1. PICK l \in Nat : l = Len(code)
  BY LenProperties
<1>2. p \in Nat /\ q \in Nat /\ p > 0 /\ p <= q /\ q <= l /\ q \in p..(l + 1) /\ q \in 1..l
  BY ONLY <1>1, p \in 1..Len(code), q \in p..Len(code)
<1>3. Byte(code, q) = code[q]
  BY <1>1, <1>2, LenProperties DEF Byte
<1>4. Opcode(q)
  <2>1. ASSUME NEW i \in p..(q - 1) PROVE code[i] \in PrefixBytes
    <3>1. i = p /\ q = p + 1
      BY ONLY <1>2, q <= p + 1, i \in p..(q - 1)
    <3>. QED BY <3>1
  <2>. QED BY <1>3, <2>1
<1>5. ASSUME NEW x \in p..(l + 1), Opcode(x) PROVE x = q
  <2>1. CASE x < q
    <3>1. x = p /\ q = p + 1
      BY ONLY <1>2, <2>1, q <= p + 1, x \in p..(l + 1), l \in Nat
    <3>2. Byte(code, p) = code[p]
      BY <1>1, <1>2, <3>1, LenProperties DEF Byte
    <3>. QED BY <1>5, <3>1, <3>2
  <2>2. CASE x > q
    <3>1. q \in p..(x - 1)
      BY ONLY <1>2, <2>2, x \in p..(l + 1), l \in Nat
    <3>. QED BY <1>5, <3>1
  <2>. QED BY ONLY <1>2, <2>1, <2>2, x \in p..(l + 1), l \in Nat
<1>. HIDE DEF Opcode
<1>6. (CHOOSE x \in p..(l + 1) : Opcode(x)) = q
  BY <1>2, <1>4, <1>5
<1>. QED BY <1>1, <1>6, Zenon DEF OpcodeAt, Opcode

\* A byte is among the prefixes of an instruction if it is the one that it has.
LEMMA PrefixIs ==
    ASSUME NEW code, NEW p \in Nat, NEW k \in 0..1, OpcodeAt(code, p) = p + k, NEW x
    PROVE  HasPrefix(code, p, x) <=> (k = 1 /\ code[p] = x)
<1>1. \A i \in p..((p + k) - 1) : i = p /\ k = 1
  OBVIOUS
<1>2. k = 1 => p \in p..((p + k) - 1)
  OBVIOUS
<1>. QED BY <1>1, <1>2 DEF HasPrefix

\* The size of an instruction with these flags and n bytes up to its opcode, or up to the second byte of it.
SizeWith(n, flags, address, pfx66) ==
    n + Size("WORD", flags, 1) + Size("MODRM", flags, 1 + address) + Size("I8", flags, 1)
      + Size("I16", flags, 2) + Size("PRE66_67", flags, IF pfx66 THEN 2 ELSE 4)

\* The instructions' sets of flags.
LEMMA SizeWithTable ==
    ASSUME NEW n \in Nat, NEW a, NEW w
    PROVE  /\ SizeWith(n, {}, a, w) = n /\ SizeWith(n, {"I16"}, a, w) = n + 2
           /\ SizeWith(n, {"I16", "I8"}, a, w) = n + 3
           /\ SizeWith(n, {"PRE66_67"}, a, FALSE) = n + 4 /\ SizeWith(n, {"PRE66_67"}, a, TRUE) = n + 2
           /\ SizeWith(n, {"I16", "PRE66_67"}, a, FALSE) = n + 6
           /\ SizeWith(n, {"PRE66_67", "REL32"}, a, FALSE) = n + 4
           /\ a \in Nat => /\ SizeWith(n, {"MODRM"}, a, w) = n + 1 + a
                           /\ SizeWith(n, {"MODRM", "I8"}, a, w) = n + 2 + a
                           /\ SizeWith(n, {"MODRM", "PRE66_67"}, a, FALSE) = n + 5 + a
BY DEF SizeWith, Size

\* An instruction with k prefixes and n bytes of opcode, and what SizeOfCode makes of it.
Form(code, p, k, op, n, w67, w66) ==
    /\ code \in Seq(Nat) /\ p \in 1..Len(code) /\ k \in 0..1 /\ n \in 1..2
    /\ OpcodeAt(code, p) = p + k /\ op = Byte(code, p + k) /\ n = IF op = \h0F THEN 2 ELSE 1
    /\ w67 = HasPrefix(code, p, \h67) /\ w66 = HasPrefix(code, p, \h66)

HasSize(code, p, k, op, n, w67, w66) ==
    SizeOfCode(code, p) = SizeWith(k + n, FlagsAt(op, Byte(code, p + k + 1)), AddressSize(code, p + k + n, w67),
                                IF op \in \hA0..\hA3 THEN w67 ELSE w66)

\* SizeOfCode looks up the flags and adds the parts.
LEMMA SizeIs ==
    ASSUME NEW code, NEW p, NEW k, NEW op, NEW n, NEW w67, NEW w66, Form(code, p, k, op, n, w67, w66)
    PROVE  HasSize(code, p, k, op, n, w67, w66)
<1>0. /\ code \in Seq(Nat) /\ p \in 1..Len(code) /\ k \in 0..1 /\ n \in 1..2
      /\ OpcodeAt(code, p) = p + k /\ op = Byte(code, p + k) /\ n = (IF op = \h0F THEN 2 ELSE 1)
      /\ w67 = HasPrefix(code, p, \h67) /\ w66 = HasPrefix(code, p, \h66)
  BY DEF Form
<1>. DEFINE q == OpcodeAt(code, p)
            two == Byte(code, q) = \h0F
            m == IF two THEN q + 2 ELSE q + 1
            reg == (Byte(code, m) \div 8) % 8
            table == IF two THEN OpcodeFlagsExt(Byte(code, q + 1)) ELSE OpcodeFlags(Byte(code, q))
            flags == table \cup Flag("I8", {\hF6}, IF reg = 0 THEN Byte(code, q) ELSE 0)
                           \cup Flag("PRE66_67", {\hF7}, IF reg = 0 THEN Byte(code, q) ELSE 0)
            pfx66 == IF Byte(code, q) \in \hA0..\hA3 THEN HasPrefix(code, p, \h67) ELSE HasPrefix(code, p, \h66)
<1>1. SizeOfCode(code, p) = IF p > Len(code) \/ q > p + 16 THEN 0
                            ELSE (m - p) + Size("WORD", flags, 1)
                                 + Size("MODRM", flags, 1 + AddressSize(code, m, HasPrefix(code, p, \h67)))
                                 + Size("I8", flags, 1) + Size("I16", flags, 2)
                                 + Size("PRE66_67", flags, IF pfx66 THEN 2 ELSE 4)
  BY Zenon DEF SizeOfCode
<1>2. PICK l \in Nat : l = Len(code)
  BY <1>0, LenProperties
<1>3. p \in Nat /\ p <= l /\ k \in Nat /\ n \in Nat /\ k <= 1
  BY ONLY <1>0, <1>2
<1>4. q = p + k /\ Byte(code, q) = op
  BY <1>0, Zenon
<1>. HIDE DEF q
<1>5. ~(p > Len(code) \/ q > p + 16)
  BY ONLY <1>2, <1>3, <1>4
<1>6. m = p + k + n /\ m - p = k + n
  BY ONLY <1>0, <1>3, <1>4
<1>7. PICK x : x = Byte(code, p + k + 1)
  OBVIOUS
<1>8. flags = FlagsAt(op, x)
  <2>1. q + 1 = p + k + 1 /\ Byte(code, q + 1) = x
    BY <1>4, <1>7
  <2>2. table = IF op = \h0F THEN OpcodeFlagsExt(x) ELSE OpcodeFlags(op)
    BY <1>4, <2>1, Zenon
  <2>3. op # \h0F => reg = (x \div 8) % 8
    BY <1>4, <2>1, Zenon
  <2>. HIDE DEF reg, table
  <2>4. flags = table \cup Flag("I8", {\hF6}, IF reg = 0 THEN op ELSE 0)
                      \cup Flag("PRE66_67", {\hF7}, IF reg = 0 THEN op ELSE 0)
    <3>1. Byte(code, q) = op
      BY <1>4
    <3>. QED BY ONLY <3>1
  <2>. HIDE DEF flags
  <2>5. CASE op = \hF6 \/ op = \hF7
    BY ONLY <2>2, <2>3, <2>4, <2>5 DEF FlagsAt, Flag
  <2>6. CASE op # \hF6 /\ op # \hF7
    BY ONLY <2>2, <2>4, <2>6 DEF FlagsAt, Flag
  <2>. QED BY <2>5, <2>6
<1>9. pfx66 = IF op \in \hA0..\hA3 THEN w67 ELSE w66
  BY <1>0, <1>4, Zenon
<1>. HIDE DEF m, flags, pfx66
<1>. DEFINE a == AddressSize(code, p + k + n, w67)
            w == IF op \in \hA0..\hA3 THEN w67 ELSE w66
<1>10. AddressSize(code, m, HasPrefix(code, p, \h67)) = a
  BY <1>0, <1>6, Zenon
<1>11. pfx66 = w
  BY <1>9
<1>. HIDE DEF a, w
<1>12. SizeOfCode(code, p) = (m - p) + Size("WORD", flags, 1)
                              + Size("MODRM", flags, 1 + a) + Size("I8", flags, 1) + Size("I16", flags, 2)
                              + Size("PRE66_67", flags, IF w THEN 2 ELSE 4)
  BY <1>1, <1>5, <1>10, <1>11, Zenon
<1>13. SizeOfCode(code, p) = SizeWith(k + n, FlagsAt(op, x), a, w)
  BY <1>6, <1>8, <1>12, Zenon DEF SizeWith
<1>. QED BY <1>7, <1>13, Zenon DEF HasSize, a, w

\* An instruction without prefixes whose opcode has one byte.
OneByte(code, p, op) ==
    /\ OpcodeAt(code, p) = p
    /\ SizeOfCode(code, p) = SizeWith(1, FlagsAt(op, Byte(code, p + 1)), AddressSize(code, p + 1, FALSE), FALSE)

\* SizeOfCode counts such an instruction by the flags of that byte and the byte of its address.
LEMMA OneByteIs ==
    ASSUME NEW code \in Seq(Nat), NEW p \in 1..Len(code), NEW op, Byte(code, p) = op,
           op \notin PrefixBytes, op # \h0F
    PROVE  OneByte(code, p, op)
<1>1. PICK l \in Nat : l = Len(code) /\ DOMAIN code = 1..l
  BY LenProperties
<1>2. p \in Nat /\ p <= l /\ p \in p..l /\ p <= p + 1 /\ p # p + 1 /\ p + 0 = p
  BY ONLY <1>1, p \in 1..Len(code)
<1>3. code[p] = op
  BY <1>1, Zenon DEF Byte
<1>4. OpcodeAt(code, p) = p
  BY <1>1, <1>2, <1>3, OpcodeIs, Zenon
<1>5. OpcodeAt(code, p) = p + 0 /\ op = Byte(code, p + 0) /\ 0 \in 0..1 /\ 1 \in 1..2
  BY <1>2, <1>4
<1>6. ~HasPrefix(code, p, \h67) /\ ~HasPrefix(code, p, \h66)
  BY <1>2, <1>5, PrefixIs
<1>7. FALSE = HasPrefix(code, p, \h67) /\ FALSE = HasPrefix(code, p, \h66)
  BY <1>6 DEF HasPrefix
<1>8. 1 = IF op = \h0F THEN 2 ELSE 1
  OBVIOUS
<1>9. SizeOfCode(code, p) = SizeWith(0 + 1, FlagsAt(op, Byte(code, p + 0 + 1)), AddressSize(code, p + 0 + 1, FALSE),
                                  IF op \in \hA0..\hA3 THEN FALSE ELSE FALSE)
  <2>1. Form(code, p, 0, op, 1, FALSE, FALSE)
    BY <1>5, <1>7, <1>8, Zenon DEF Form
  <2>2. HasSize(code, p, 0, op, 1, FALSE, FALSE)
    BY ONLY <2>1, SizeIs, Zenon
  <2>. QED BY ONLY <2>2, Zenon DEF HasSize
<1>10. 0 + 1 = 1 /\ p + 0 + 1 = p + 1 /\ (IF op \in \hA0..\hA3 THEN FALSE ELSE FALSE) = FALSE
  BY ONLY <1>2
<1>. QED BY <1>4, <1>9, <1>10, Zenon DEF OneByte

\* One whose opcode has two bytes.
TwoByte(code, p, x) ==
    /\ OpcodeAt(code, p) = p
    /\ SizeOfCode(code, p) = SizeWith(2, FlagsAt(\h0F, x), AddressSize(code, p + 2, FALSE), FALSE)

\* SizeOfCode takes its flags from the second byte.
LEMMA TwoByteIs ==
    ASSUME NEW code \in Seq(Nat), NEW p \in 1..Len(code), Byte(code, p) = \h0F, NEW x, Byte(code, p + 1) = x
    PROVE  TwoByte(code, p, x)
<1>1. PICK l \in Nat : l = Len(code) /\ DOMAIN code = 1..l
  BY LenProperties
<1>2. p \in Nat /\ p <= l /\ p \in p..l /\ p <= p + 1 /\ p # p + 1 /\ p + 0 = p
  BY ONLY <1>1, p \in 1..Len(code)
<1>3. PICK op : op = \h0F
  OBVIOUS
<1>4. op \notin PrefixBytes
  BY <1>3 DEF PrefixBytes
<1>5. code[p] = op
  BY <1>1, <1>3, Zenon DEF Byte
<1>6. OpcodeAt(code, p) = p
  BY <1>1, <1>2, <1>4, <1>5, OpcodeIs, Zenon
<1>7. OpcodeAt(code, p) = p + 0 /\ op = Byte(code, p + 0) /\ 0 \in 0..1 /\ 2 \in 1..2
  BY <1>2, <1>3, <1>6
<1>8. ~HasPrefix(code, p, \h67) /\ ~HasPrefix(code, p, \h66)
  BY <1>2, <1>7, PrefixIs
<1>9. FALSE = HasPrefix(code, p, \h67) /\ FALSE = HasPrefix(code, p, \h66)
  BY <1>8 DEF HasPrefix
<1>10. 2 = IF op = \h0F THEN 2 ELSE 1
  BY <1>3
<1>11. SizeOfCode(code, p) = SizeWith(0 + 2, FlagsAt(op, Byte(code, p + 0 + 1)), AddressSize(code, p + 0 + 2, FALSE),
                                   IF op \in \hA0..\hA3 THEN FALSE ELSE FALSE)
  <2>1. Form(code, p, 0, op, 2, FALSE, FALSE)
    BY <1>7, <1>9, <1>10, Zenon DEF Form
  <2>2. HasSize(code, p, 0, op, 2, FALSE, FALSE)
    BY ONLY <2>1, SizeIs, Zenon
  <2>. QED BY ONLY <2>2, Zenon DEF HasSize
<1>12. /\ 0 + 2 = 2 /\ p + 0 + 1 = p + 1 /\ p + 0 + 2 = p + 2
       /\ (IF op \in \hA0..\hA3 THEN FALSE ELSE FALSE) = FALSE
  BY ONLY <1>2
<1>. QED BY <1>3, <1>6, <1>11, <1>12, Zenon DEF TwoByte

\* One with a prefix.
Prefixed(code, p, pre, op, n) ==
    /\ OpcodeAt(code, p) = p + 1
    /\ SizeOfCode(code, p) = SizeWith(1 + n, FlagsAt(op, Byte(code, p + 2)), AddressSize(code, p + 1 + n, pre = \h67),
                                   IF op \in \hA0..\hA3 THEN pre = \h67 ELSE pre = \h66)

\* SizeOfCode goes on behind the prefix, which may shorten an address or an operand.
LEMMA PrefixedIs ==
    ASSUME NEW code \in Seq(Nat), NEW p \in 1..Len(code), p + 1 <= Len(code),
           NEW pre, Byte(code, p) = pre, pre \in PrefixBytes,
           NEW op, Byte(code, p + 1) = op, op \notin PrefixBytes, NEW n \in 1..2, n = IF op = \h0F THEN 2 ELSE 1
    PROVE  Prefixed(code, p, pre, op, n)
<1>1. PICK l \in Nat : l = Len(code) /\ DOMAIN code = 1..l
  BY LenProperties
<1>2. PICK q \in Nat : q = p + 1 /\ p \in Nat /\ q <= l /\ q \in p..l /\ q \in 1..l /\ q <= p + 1
  BY ONLY <1>1, p \in 1..Len(code), p + 1 <= Len(code)
<1>3. code[p] = pre /\ code[q] = op
  BY <1>1, <1>2, Zenon DEF Byte
<1>4. OpcodeAt(code, p) = q
  BY <1>1, <1>2, <1>3, OpcodeIs, Zenon
<1>5. OpcodeAt(code, p) = p + 1 /\ op = Byte(code, p + 1) /\ 1 \in 0..1
  BY <1>2, <1>4
<1>6. (HasPrefix(code, p, \h67) <=> pre = \h67) /\ (HasPrefix(code, p, \h66) <=> pre = \h66)
  BY <1>2, <1>3, <1>5, PrefixIs
<1>7. (pre = \h67) = HasPrefix(code, p, \h67) /\ (pre = \h66) = HasPrefix(code, p, \h66)
  BY <1>6 DEF HasPrefix
<1>. DEFINE w67 == pre = \h67
            w66 == pre = \h66
<1>8. w67 = HasPrefix(code, p, \h67) /\ w66 = HasPrefix(code, p, \h66)
  BY <1>7, Zenon
<1>. HIDE DEF w67, w66
<1>9. HasSize(code, p, 1, op, n, w67, w66)
  <2>1. Form(code, p, 1, op, n, w67, w66)
    BY <1>5, <1>8, Zenon DEF Form
  <2>. QED BY ONLY <2>1, SizeIs, Zenon
<1>10. p + 1 + 1 = p + 2
  BY ONLY <1>2
<1>11. SizeOfCode(code, p) = SizeWith(1 + n, FlagsAt(op, Byte(code, p + 2)), AddressSize(code, p + 1 + n, w67),
                                   IF op \in \hA0..\hA3 THEN w67 ELSE w66)
  BY <1>9, <1>10, Zenon DEF HasSize
<1>. QED BY <1>5, <1>11 DEF Prefixed, w67, w66

\* The prefixes of an instruction.
PrefixCount(b) == IF b[1] \in PrefixBytes THEN 1 ELSE 0

\* SizeOfCode gives the length of b, and the opcode is behind the prefixes.
Measured(code, p, b) == SizeOfCode(code, p) = Len(b) /\ OpcodeAt(code, p) = p + PrefixCount(b)

\* The first bytes of an instruction, as SizeOfCode reads them.
Opened(code, p, b, l) ==
    /\ p \in 1..Len(code) /\ Byte(code, p) = b[1]
    /\ l >= 2 => p + 1 <= Len(code) /\ Byte(code, p + 1) = b[2]
    /\ l >= 3 => Byte(code, p + 2) = b[3]
    /\ l >= 4 => Byte(code, p + 3) = b[4]
    /\ p + 1 + 1 = p + 2 /\ p + 1 + 2 = p + 3 /\ p + 2 + 1 = p + 3

\* The bytes b stand at p, and they are l in number.
Lies(code, p, b, l) == code \in Seq(Nat) /\ l \in Nat /\ l >= 1 /\ Len(b) = l /\ Stands(code, p, b)

\* Its first bytes are those that SizeOfCode reads.
LEMMA Opens ==
    ASSUME NEW code, NEW p, NEW b, NEW l, Lies(code, p, b, l)
    PROVE  Opened(code, p, b, l)
<1>0. code \in Seq(Nat) /\ l \in Nat /\ l >= 1 /\ Len(b) = l /\ Stands(code, p, b)
  BY DEF Lies
<1>1. PICK m \in Nat : m = Len(code)
  BY <1>0, LenProperties
<1>2. p \in Nat /\ p > 0 /\ p + l - 1 <= m /\ \A j \in 0..(l - 1) : Byte(code, p + j) = b[j + 1]
  BY <1>0, <1>1 DEF Stands
<1>3. p \in 1..m /\ Byte(code, p) = b[1]
  <2>1. 0 \in 0..(l - 1) /\ p + 0 = p /\ 0 + 1 = 1 /\ p \in 1..m
    BY ONLY <1>0, <1>2, m \in Nat
  <2>. QED BY <1>2, <2>1
<1>4. l >= 2 => p + 1 <= m /\ Byte(code, p + 1) = b[2]
  <2>1. l >= 2 => 1 \in 0..(l - 1) /\ 1 + 1 = 2 /\ p + 1 <= m
    BY ONLY <1>0, <1>2, m \in Nat
  <2>. QED BY <1>2, <2>1
<1>5. l >= 3 => Byte(code, p + 2) = b[3]
  <2>1. l >= 3 => 2 \in 0..(l - 1) /\ 2 + 1 = 3
    BY ONLY <1>0
  <2>. QED BY <1>2, <2>1
<1>6. l >= 4 => Byte(code, p + 3) = b[4]
  <2>1. l >= 4 => 3 \in 0..(l - 1) /\ 3 + 1 = 4
    BY ONLY <1>0
  <2>. QED BY <1>2, <2>1
<1>7. p + 1 + 1 = p + 2 /\ p + 1 + 2 = p + 3 /\ p + 2 + 1 = p + 3
  BY ONLY <1>2
<1>. QED BY <1>1, <1>3, <1>4, <1>5, <1>6, <1>7, Zenon DEF Opened

\* The instruction b of l bytes has the one byte op as its opcode, the flags f and a bytes of address.
Plain(code, p, b, l, op, f, a) ==
    /\ Len(b) = l /\ b[1] = op /\ op \notin PrefixBytes /\ op # \h0F
    /\ FlagsAt(op, Byte(code, p + 1)) = f /\ AddressSize(code, p + 1, FALSE) = a
    /\ SizeWith(1, f, a, FALSE) = l

\* If these add up to l, SizeOfCode finds l.
LEMMA PlainMeasured ==
    ASSUME NEW code \in Seq(Nat), NEW p, NEW b, NEW l, NEW op, NEW f, NEW a,
           Opened(code, p, b, l), Plain(code, p, b, l, op, f, a)
    PROVE  Measured(code, p, b)
<1>1. p \in 1..Len(code) /\ Byte(code, p) = op /\ op \notin PrefixBytes /\ op # \h0F /\ Len(b) = l /\ b[1] = op
  BY Zenon DEF Opened, Plain
<1>2. OneByte(code, p, op)
  BY <1>1, OneByteIs, Zenon
<1>3. SizeOfCode(code, p) = l
  BY <1>2, Zenon DEF OneByte, Plain
<1>4. p + 0 = p /\ PrefixCount(b) = 0
  BY <1>1 DEF PrefixCount
<1>. QED BY <1>1, <1>2, <1>3, <1>4, Zenon DEF OneByte, Measured

\* The instructions of the model that have neither a prefix nor a second byte of opcode.
PlainInstructions ==
    {<<\h55>>, <<\hC3>>, <<\hC2, 4, 0>>, <<\h8B, \hEC>>, <<\h8B, \h44, \h24, 8>>,
     <<\h8B, 5, \h8D, \h88, 0, 0>>, <<\h8D, \h88, 1, 2, 3, 4>>, <<\h8B, 4, \h8D, 1, 2, 3, 4>>,
     <<\hB8, \h8D, \h88, 0, 0>>, <<\hA1, 1, 2, 3, 4>>, <<\h81, \h7C, \h24, 4, 1, 2, 3, 4>>,
     <<\hF7, 5, 1, 2, 3, 4, 5, 6, 7, 8>>, <<\hF7, \hD8>>, <<\hF6, \hC1, 1>>, <<\hC8, 8, 0, 0>>,
     <<\h9A, 1, 2, 3, 4, 5, 6>>}

\* SizeOfCode finds the length of every one of them, whatever follows it.
LEMMA PlainSizes ==
    ASSUME NEW code \in Seq(Nat), NEW p
    PROVE  \A b \in PlainInstructions : Stands(code, p, b) => Measured(code, p, b)
<1>1. ASSUME NEW b, b = <<\h55>>, Stands(code, p, b) PROVE Measured(code, p, b)
  <2>1. Len(b) = 1 /\ b[1] = \h55
    BY <1>1
  <2>2. Opened(code, p, b, 1)
    <3>1. Lies(code, p, b, 1)
      BY <1>1, <2>1 DEF Lies
    <3>. QED BY ONLY <3>1, Opens, Zenon
  <2>3. \h55 \notin PrefixBytes /\ \h55 # \h0F
    BY ONLY DEF PrefixBytes
  <2>4. PICK a : a = AddressSize(code, p + 1, FALSE)
    OBVIOUS
  <2>5. FlagsAt(\h55, Byte(code, p + 1)) = {}
    BY ONLY FlagsTable
  <2>6. SizeWith(1, {}, a, FALSE) = 1
    BY ONLY DEF SizeWith, Size
  <2>7. Plain(code, p, b, 1, \h55, {}, a)
    BY <2>1, <2>3, <2>4, <2>5, <2>6, Zenon DEF Plain
  <2>. QED BY <2>2, <2>7, PlainMeasured, Zenon
<1>2. ASSUME NEW b, b = <<\hC3>>, Stands(code, p, b) PROVE Measured(code, p, b)
  <2>1. Len(b) = 1 /\ b[1] = \hC3
    BY <1>2
  <2>2. Opened(code, p, b, 1)
    <3>1. Lies(code, p, b, 1)
      BY <1>2, <2>1 DEF Lies
    <3>. QED BY ONLY <3>1, Opens, Zenon
  <2>3. \hC3 \notin PrefixBytes /\ \hC3 # \h0F
    BY ONLY DEF PrefixBytes
  <2>4. PICK a : a = AddressSize(code, p + 1, FALSE)
    OBVIOUS
  <2>5. FlagsAt(\hC3, Byte(code, p + 1)) = {}
    BY ONLY FlagsTable
  <2>6. SizeWith(1, {}, a, FALSE) = 1
    BY ONLY DEF SizeWith, Size
  <2>7. Plain(code, p, b, 1, \hC3, {}, a)
    BY <2>1, <2>3, <2>4, <2>5, <2>6, Zenon DEF Plain
  <2>. QED BY <2>2, <2>7, PlainMeasured, Zenon
<1>3. ASSUME NEW b, b = <<\hC2, 4, 0>>, Stands(code, p, b) PROVE Measured(code, p, b)
  <2>1. Len(b) = 3 /\ b[1] = \hC2
    BY <1>3
  <2>2. Opened(code, p, b, 3)
    <3>1. Lies(code, p, b, 3)
      BY <1>3, <2>1 DEF Lies
    <3>. QED BY ONLY <3>1, Opens, Zenon
  <2>3. \hC2 \notin PrefixBytes /\ \hC2 # \h0F
    BY ONLY DEF PrefixBytes
  <2>4. PICK a : a = AddressSize(code, p + 1, FALSE)
    OBVIOUS
  <2>5. FlagsAt(\hC2, Byte(code, p + 1)) = {"I16"}
    BY ONLY FlagsTable
  <2>6. SizeWith(1, {"I16"}, a, FALSE) = 3
    BY ONLY DEF SizeWith, Size
  <2>7. Plain(code, p, b, 3, \hC2, {"I16"}, a)
    BY <2>1, <2>3, <2>4, <2>5, <2>6, Zenon DEF Plain
  <2>. QED BY <2>2, <2>7, PlainMeasured, Zenon
<1>4. ASSUME NEW b, b = <<\h8B, \hEC>>, Stands(code, p, b) PROVE Measured(code, p, b)
  <2>1. Len(b) = 2 /\ b[1] = \h8B /\ b[2] = \hEC
    BY <1>4
  <2>2. Opened(code, p, b, 2)
    <3>1. Lies(code, p, b, 2)
      BY <1>4, <2>1 DEF Lies
    <3>. QED BY ONLY <3>1, Opens, Zenon
  <2>3. \h8B \notin PrefixBytes /\ \h8B # \h0F
    BY ONLY DEF PrefixBytes
  <2>4. Byte(code, p + 1) = \hEC
    BY ONLY <2>1, <2>2 DEF Opened
  <2>5. AddressSize(code, p + 1, FALSE) = 0
    BY ONLY <2>4 DEF AddressSize
  <2>6. FlagsAt(\h8B, Byte(code, p + 1)) = {"MODRM"}
    BY ONLY <2>4, FlagsTable
  <2>7. SizeWith(1, {"MODRM"}, 0, FALSE) = 2
    BY ONLY DEF SizeWith, Size
  <2>8. Plain(code, p, b, 2, \h8B, {"MODRM"}, 0)
    BY <2>1, <2>3, <2>5, <2>6, <2>7, Zenon DEF Plain
  <2>. QED BY <2>2, <2>8, PlainMeasured, Zenon
<1>5. ASSUME NEW b, b = <<\h8B, \h44, \h24, 8>>, Stands(code, p, b) PROVE Measured(code, p, b)
  <2>1. Len(b) = 4 /\ b[1] = \h8B /\ b[2] = \h44
    BY <1>5
  <2>2. Opened(code, p, b, 4)
    <3>1. Lies(code, p, b, 4)
      BY <1>5, <2>1 DEF Lies
    <3>. QED BY ONLY <3>1, Opens, Zenon
  <2>3. \h8B \notin PrefixBytes /\ \h8B # \h0F
    BY ONLY DEF PrefixBytes
  <2>4. Byte(code, p + 1) = \h44
    BY ONLY <2>1, <2>2 DEF Opened
  <2>5. AddressSize(code, p + 1, FALSE) = 2
    BY ONLY <2>4 DEF AddressSize
  <2>6. FlagsAt(\h8B, Byte(code, p + 1)) = {"MODRM"}
    BY ONLY <2>4, FlagsTable
  <2>7. SizeWith(1, {"MODRM"}, 2, FALSE) = 4
    BY ONLY DEF SizeWith, Size
  <2>8. Plain(code, p, b, 4, \h8B, {"MODRM"}, 2)
    BY <2>1, <2>3, <2>5, <2>6, <2>7, Zenon DEF Plain
  <2>. QED BY <2>2, <2>8, PlainMeasured, Zenon
<1>6. ASSUME NEW b, b = <<\h8B, 5, \h8D, \h88, 0, 0>>, Stands(code, p, b) PROVE Measured(code, p, b)
  <2>1. Len(b) = 6 /\ b[1] = \h8B /\ b[2] = 5
    BY <1>6
  <2>2. Opened(code, p, b, 6)
    <3>1. Lies(code, p, b, 6)
      BY <1>6, <2>1 DEF Lies
    <3>. QED BY ONLY <3>1, Opens, Zenon
  <2>3. \h8B \notin PrefixBytes /\ \h8B # \h0F
    BY ONLY DEF PrefixBytes
  <2>4. Byte(code, p + 1) = 5
    BY ONLY <2>1, <2>2 DEF Opened
  <2>5. AddressSize(code, p + 1, FALSE) = 4
    BY ONLY <2>4 DEF AddressSize
  <2>6. FlagsAt(\h8B, Byte(code, p + 1)) = {"MODRM"}
    BY ONLY <2>4, FlagsTable
  <2>7. SizeWith(1, {"MODRM"}, 4, FALSE) = 6
    BY ONLY DEF SizeWith, Size
  <2>8. Plain(code, p, b, 6, \h8B, {"MODRM"}, 4)
    BY <2>1, <2>3, <2>5, <2>6, <2>7, Zenon DEF Plain
  <2>. QED BY <2>2, <2>8, PlainMeasured, Zenon
<1>7. ASSUME NEW b, b = <<\h8D, \h88, 1, 2, 3, 4>>, Stands(code, p, b) PROVE Measured(code, p, b)
  <2>1. Len(b) = 6 /\ b[1] = \h8D /\ b[2] = \h88
    BY <1>7
  <2>2. Opened(code, p, b, 6)
    <3>1. Lies(code, p, b, 6)
      BY <1>7, <2>1 DEF Lies
    <3>. QED BY ONLY <3>1, Opens, Zenon
  <2>3. \h8D \notin PrefixBytes /\ \h8D # \h0F
    BY ONLY DEF PrefixBytes
  <2>4. Byte(code, p + 1) = \h88
    BY ONLY <2>1, <2>2 DEF Opened
  <2>5. AddressSize(code, p + 1, FALSE) = 4
    BY ONLY <2>4 DEF AddressSize
  <2>6. FlagsAt(\h8D, Byte(code, p + 1)) = {"MODRM"}
    BY ONLY <2>4, FlagsTable
  <2>7. SizeWith(1, {"MODRM"}, 4, FALSE) = 6
    BY ONLY DEF SizeWith, Size
  <2>8. Plain(code, p, b, 6, \h8D, {"MODRM"}, 4)
    BY <2>1, <2>3, <2>5, <2>6, <2>7, Zenon DEF Plain
  <2>. QED BY <2>2, <2>8, PlainMeasured, Zenon
<1>8. ASSUME NEW b, b = <<\h8B, 4, \h8D, 1, 2, 3, 4>>, Stands(code, p, b) PROVE Measured(code, p, b)
  <2>1. Len(b) = 7 /\ b[1] = \h8B /\ b[2] = 4 /\ b[3] = \h8D
    BY <1>8
  <2>2. Opened(code, p, b, 7)
    <3>1. Lies(code, p, b, 7)
      BY <1>8, <2>1 DEF Lies
    <3>. QED BY ONLY <3>1, Opens, Zenon
  <2>3. \h8B \notin PrefixBytes /\ \h8B # \h0F
    BY ONLY DEF PrefixBytes
  <2>4. Byte(code, p + 1) = 4 /\ Byte(code, p + 1 + 1) = \h8D
    BY ONLY <2>1, <2>2 DEF Opened
  <2>5. AddressSize(code, p + 1, FALSE) = 5
    BY ONLY <2>4 DEF AddressSize
  <2>6. FlagsAt(\h8B, Byte(code, p + 1)) = {"MODRM"}
    BY ONLY <2>4, FlagsTable
  <2>7. SizeWith(1, {"MODRM"}, 5, FALSE) = 7
    BY ONLY DEF SizeWith, Size
  <2>8. Plain(code, p, b, 7, \h8B, {"MODRM"}, 5)
    BY <2>1, <2>3, <2>5, <2>6, <2>7, Zenon DEF Plain
  <2>. QED BY <2>2, <2>8, PlainMeasured, Zenon
<1>9. ASSUME NEW b, b = <<\hB8, \h8D, \h88, 0, 0>>, Stands(code, p, b) PROVE Measured(code, p, b)
  <2>1. Len(b) = 5 /\ b[1] = \hB8
    BY <1>9
  <2>2. Opened(code, p, b, 5)
    <3>1. Lies(code, p, b, 5)
      BY <1>9, <2>1 DEF Lies
    <3>. QED BY ONLY <3>1, Opens, Zenon
  <2>3. \hB8 \notin PrefixBytes /\ \hB8 # \h0F
    BY ONLY DEF PrefixBytes
  <2>4. PICK a : a = AddressSize(code, p + 1, FALSE)
    OBVIOUS
  <2>5. FlagsAt(\hB8, Byte(code, p + 1)) = {"PRE66_67"}
    BY ONLY FlagsTable
  <2>6. SizeWith(1, {"PRE66_67"}, a, FALSE) = 5
    BY ONLY DEF SizeWith, Size
  <2>7. Plain(code, p, b, 5, \hB8, {"PRE66_67"}, a)
    BY <2>1, <2>3, <2>4, <2>5, <2>6, Zenon DEF Plain
  <2>. QED BY <2>2, <2>7, PlainMeasured, Zenon
<1>10. ASSUME NEW b, b = <<\hA1, 1, 2, 3, 4>>, Stands(code, p, b) PROVE Measured(code, p, b)
  <2>1. Len(b) = 5 /\ b[1] = \hA1
    BY <1>10
  <2>2. Opened(code, p, b, 5)
    <3>1. Lies(code, p, b, 5)
      BY <1>10, <2>1 DEF Lies
    <3>. QED BY ONLY <3>1, Opens, Zenon
  <2>3. \hA1 \notin PrefixBytes /\ \hA1 # \h0F
    BY ONLY DEF PrefixBytes
  <2>4. PICK a : a = AddressSize(code, p + 1, FALSE)
    OBVIOUS
  <2>5. FlagsAt(\hA1, Byte(code, p + 1)) = {"PRE66_67"}
    BY ONLY FlagsTable
  <2>6. SizeWith(1, {"PRE66_67"}, a, FALSE) = 5
    BY ONLY DEF SizeWith, Size
  <2>7. Plain(code, p, b, 5, \hA1, {"PRE66_67"}, a)
    BY <2>1, <2>3, <2>4, <2>5, <2>6, Zenon DEF Plain
  <2>. QED BY <2>2, <2>7, PlainMeasured, Zenon
<1>11. ASSUME NEW b, b = <<\h81, \h7C, \h24, 4, 1, 2, 3, 4>>, Stands(code, p, b) PROVE Measured(code, p, b)
  <2>1. Len(b) = 8 /\ b[1] = \h81 /\ b[2] = \h7C
    BY <1>11
  <2>2. Opened(code, p, b, 8)
    <3>1. Lies(code, p, b, 8)
      BY <1>11, <2>1 DEF Lies
    <3>. QED BY ONLY <3>1, Opens, Zenon
  <2>3. \h81 \notin PrefixBytes /\ \h81 # \h0F
    BY ONLY DEF PrefixBytes
  <2>4. Byte(code, p + 1) = \h7C
    BY ONLY <2>1, <2>2 DEF Opened
  <2>5. AddressSize(code, p + 1, FALSE) = 2
    BY ONLY <2>4 DEF AddressSize
  <2>6. FlagsAt(\h81, Byte(code, p + 1)) = {"MODRM", "PRE66_67"}
    BY ONLY <2>4, FlagsTable
  <2>7. SizeWith(1, {"MODRM", "PRE66_67"}, 2, FALSE) = 8
    BY ONLY DEF SizeWith, Size
  <2>8. Plain(code, p, b, 8, \h81, {"MODRM", "PRE66_67"}, 2)
    BY <2>1, <2>3, <2>5, <2>6, <2>7, Zenon DEF Plain
  <2>. QED BY <2>2, <2>8, PlainMeasured, Zenon
<1>12. ASSUME NEW b, b = <<\hF7, 5, 1, 2, 3, 4, 5, 6, 7, 8>>, Stands(code, p, b) PROVE Measured(code, p, b)
  <2>1. Len(b) = 10 /\ b[1] = \hF7 /\ b[2] = 5
    BY <1>12
  <2>2. Opened(code, p, b, 10)
    <3>1. Lies(code, p, b, 10)
      BY <1>12, <2>1 DEF Lies
    <3>. QED BY ONLY <3>1, Opens, Zenon
  <2>3. \hF7 \notin PrefixBytes /\ \hF7 # \h0F
    BY ONLY DEF PrefixBytes
  <2>4. Byte(code, p + 1) = 5
    BY ONLY <2>1, <2>2 DEF Opened
  <2>5. AddressSize(code, p + 1, FALSE) = 4
    BY ONLY <2>4 DEF AddressSize
  <2>6. FlagsAt(\hF7, Byte(code, p + 1)) = {"MODRM", "PRE66_67"}
    BY ONLY <2>4, FlagsTable
  <2>7. SizeWith(1, {"MODRM", "PRE66_67"}, 4, FALSE) = 10
    BY ONLY DEF SizeWith, Size
  <2>8. Plain(code, p, b, 10, \hF7, {"MODRM", "PRE66_67"}, 4)
    BY <2>1, <2>3, <2>5, <2>6, <2>7, Zenon DEF Plain
  <2>. QED BY <2>2, <2>8, PlainMeasured, Zenon
<1>13. ASSUME NEW b, b = <<\hF7, \hD8>>, Stands(code, p, b) PROVE Measured(code, p, b)
  <2>1. Len(b) = 2 /\ b[1] = \hF7 /\ b[2] = \hD8
    BY <1>13
  <2>2. Opened(code, p, b, 2)
    <3>1. Lies(code, p, b, 2)
      BY <1>13, <2>1 DEF Lies
    <3>. QED BY ONLY <3>1, Opens, Zenon
  <2>3. \hF7 \notin PrefixBytes /\ \hF7 # \h0F
    BY ONLY DEF PrefixBytes
  <2>4. Byte(code, p + 1) = \hD8
    BY ONLY <2>1, <2>2 DEF Opened
  <2>5. AddressSize(code, p + 1, FALSE) = 0
    BY ONLY <2>4 DEF AddressSize
  <2>6. FlagsAt(\hF7, Byte(code, p + 1)) = {"MODRM"}
    BY ONLY <2>4, FlagsTable
  <2>7. SizeWith(1, {"MODRM"}, 0, FALSE) = 2
    BY ONLY DEF SizeWith, Size
  <2>8. Plain(code, p, b, 2, \hF7, {"MODRM"}, 0)
    BY <2>1, <2>3, <2>5, <2>6, <2>7, Zenon DEF Plain
  <2>. QED BY <2>2, <2>8, PlainMeasured, Zenon
<1>14. ASSUME NEW b, b = <<\hF6, \hC1, 1>>, Stands(code, p, b) PROVE Measured(code, p, b)
  <2>1. Len(b) = 3 /\ b[1] = \hF6 /\ b[2] = \hC1
    BY <1>14
  <2>2. Opened(code, p, b, 3)
    <3>1. Lies(code, p, b, 3)
      BY <1>14, <2>1 DEF Lies
    <3>. QED BY ONLY <3>1, Opens, Zenon
  <2>3. \hF6 \notin PrefixBytes /\ \hF6 # \h0F
    BY ONLY DEF PrefixBytes
  <2>4. Byte(code, p + 1) = \hC1
    BY ONLY <2>1, <2>2 DEF Opened
  <2>5. AddressSize(code, p + 1, FALSE) = 0
    BY ONLY <2>4 DEF AddressSize
  <2>6. FlagsAt(\hF6, Byte(code, p + 1)) = {"MODRM", "I8"}
    BY ONLY <2>4, FlagsTable
  <2>7. SizeWith(1, {"MODRM", "I8"}, 0, FALSE) = 3
    BY ONLY DEF SizeWith, Size
  <2>8. Plain(code, p, b, 3, \hF6, {"MODRM", "I8"}, 0)
    BY <2>1, <2>3, <2>5, <2>6, <2>7, Zenon DEF Plain
  <2>. QED BY <2>2, <2>8, PlainMeasured, Zenon
<1>15. ASSUME NEW b, b = <<\hC8, 8, 0, 0>>, Stands(code, p, b) PROVE Measured(code, p, b)
  <2>1. Len(b) = 4 /\ b[1] = \hC8
    BY <1>15
  <2>2. Opened(code, p, b, 4)
    <3>1. Lies(code, p, b, 4)
      BY <1>15, <2>1 DEF Lies
    <3>. QED BY ONLY <3>1, Opens, Zenon
  <2>3. \hC8 \notin PrefixBytes /\ \hC8 # \h0F
    BY ONLY DEF PrefixBytes
  <2>4. PICK a : a = AddressSize(code, p + 1, FALSE)
    OBVIOUS
  <2>5. FlagsAt(\hC8, Byte(code, p + 1)) = {"I16", "I8"}
    BY ONLY FlagsTable
  <2>6. SizeWith(1, {"I16", "I8"}, a, FALSE) = 4
    BY ONLY DEF SizeWith, Size
  <2>7. Plain(code, p, b, 4, \hC8, {"I16", "I8"}, a)
    BY <2>1, <2>3, <2>4, <2>5, <2>6, Zenon DEF Plain
  <2>. QED BY <2>2, <2>7, PlainMeasured, Zenon
<1>16. ASSUME NEW b, b = <<\h9A, 1, 2, 3, 4, 5, 6>>, Stands(code, p, b) PROVE Measured(code, p, b)
  <2>1. Len(b) = 7 /\ b[1] = \h9A
    BY <1>16
  <2>2. Opened(code, p, b, 7)
    <3>1. Lies(code, p, b, 7)
      BY <1>16, <2>1 DEF Lies
    <3>. QED BY ONLY <3>1, Opens, Zenon
  <2>3. \h9A \notin PrefixBytes /\ \h9A # \h0F
    BY ONLY DEF PrefixBytes
  <2>4. PICK a : a = AddressSize(code, p + 1, FALSE)
    OBVIOUS
  <2>5. FlagsAt(\h9A, Byte(code, p + 1)) = {"I16", "PRE66_67"}
    BY ONLY FlagsTable
  <2>6. SizeWith(1, {"I16", "PRE66_67"}, a, FALSE) = 7
    BY ONLY DEF SizeWith, Size
  <2>7. Plain(code, p, b, 7, \h9A, {"I16", "PRE66_67"}, a)
    BY <2>1, <2>3, <2>4, <2>5, <2>6, Zenon DEF Plain
  <2>. QED BY <2>2, <2>7, PlainMeasured, Zenon
<1>. QED BY <1>1, <1>2, <1>3, <1>4, <1>5, <1>6, <1>7, <1>8, <1>9, <1>10, <1>11, <1>12, <1>13, <1>14, <1>15, <1>16 DEF PlainInstructions

\* The instruction b of l bytes has a second byte of opcode, x.
Extended(code, p, b, l, x, f, a) ==
    /\ Len(b) = l /\ l >= 2 /\ b[1] = \h0F /\ b[2] = x
    /\ FlagsAt(\h0F, x) = f /\ AddressSize(code, p + 2, FALSE) = a /\ SizeWith(2, f, a, FALSE) = l

\* If these add up to l, SizeOfCode finds l.
LEMMA ExtendedMeasured ==
    ASSUME NEW code \in Seq(Nat), NEW p, NEW b, NEW l, NEW x, NEW f, NEW a,
           Opened(code, p, b, l), Extended(code, p, b, l, x, f, a)
    PROVE  Measured(code, p, b)
<1>1. Len(b) = l /\ l >= 2 /\ b[1] = \h0F /\ b[2] = x
  BY Zenon DEF Extended
<1>2. p \in 1..Len(code) /\ Byte(code, p) = \h0F /\ Byte(code, p + 1) = x
  BY <1>1, Zenon DEF Opened
<1>3. TwoByte(code, p, x)
  BY <1>2, TwoByteIs, Zenon
<1>4. SizeOfCode(code, p) = l
  BY <1>3, Zenon DEF TwoByte, Extended
<1>5. p + 0 = p /\ PrefixCount(b) = 0
  <2>1. PrefixCount(b) = 0
    BY <1>1 DEF PrefixCount, PrefixBytes
  <2>. QED BY <1>2, <2>1
<1>. QED BY <1>1, <1>3, <1>4, <1>5, Zenon DEF TwoByte, Measured

\* The instruction b of l bytes has the prefix pre and n bytes of opcode, of which op is the first;
\* w67 and w66 are whether the prefix changes the size of addresses or operands.
Led(code, p, b, l, pre, op, n, w67, w66, f, a) ==
    /\ Len(b) = l /\ l >= 2 /\ b[1] = pre /\ b[2] = op /\ pre \in PrefixBytes /\ op \notin PrefixBytes
    /\ n \in 1..2 /\ n = (IF op = \h0F THEN 2 ELSE 1)
    /\ w67 = (pre = \h67) /\ w66 = (pre = \h66)
    /\ FlagsAt(op, Byte(code, p + 2)) = f /\ AddressSize(code, p + 1 + n, w67) = a
    /\ SizeWith(1 + n, f, a, IF op \in \hA0..\hA3 THEN w67 ELSE w66) = l

\* If these add up to l, SizeOfCode finds l.
LEMMA LedMeasured ==
    ASSUME NEW code \in Seq(Nat), NEW p, NEW b, NEW l, NEW pre, NEW op, NEW n, NEW w67, NEW w66, NEW f, NEW a,
           Opened(code, p, b, l), Led(code, p, b, l, pre, op, n, w67, w66, f, a)
    PROVE  Measured(code, p, b)
<1>1. /\ Len(b) = l /\ l >= 2 /\ b[1] = pre /\ b[2] = op /\ pre \in PrefixBytes /\ op \notin PrefixBytes
      /\ n \in 1..2 /\ n = (IF op = \h0F THEN 2 ELSE 1)
  BY Zenon DEF Led
<1>2. p \in 1..Len(code) /\ p + 1 <= Len(code) /\ Byte(code, p) = pre /\ Byte(code, p + 1) = op
  BY <1>1, Zenon DEF Opened
<1>3. Prefixed(code, p, pre, op, n)
  BY <1>1, <1>2, PrefixedIs, Zenon
<1>4. SizeOfCode(code, p) = l
  BY <1>3, Zenon DEF Prefixed, Led
<1>5. PrefixCount(b) = 1
  BY <1>1 DEF PrefixCount
<1>. QED BY <1>1, <1>3, <1>4, <1>5, Zenon DEF Prefixed, Measured

\* The other instructions of the model.
LongInstructions ==
    {<<\h0F, \h84, 1, 2, 3, 4>>, <<\h0F, \hB6, \h45, 8>>, <<\h67, \h8B, \h46, 8>>, <<\h67, \h8B, \h16, 1, 2>>,
     <<\h66, \hB8, 1, 2>>, <<\h67, \hA1, 1, 2>>, <<\hF0, \h0F, \hBA, \h28, 3>>}

\* SizeOfCode finds the length of every one of these as well.
LEMMA LongSizes ==
    ASSUME NEW code \in Seq(Nat), NEW p
    PROVE  \A b \in LongInstructions : Stands(code, p, b) => Measured(code, p, b)
<1>1. ASSUME NEW b, b = <<\h0F, \h84, 1, 2, 3, 4>>, Stands(code, p, b) PROVE Measured(code, p, b)
  <2>1. Len(b) = 6 /\ b[1] = \h0F /\ b[2] = \h84
    BY <1>1
  <2>2. Opened(code, p, b, 6)
    <3>1. Lies(code, p, b, 6)
      BY <1>1, <2>1 DEF Lies
    <3>. QED BY ONLY <3>1, Opens, Zenon
  <2>3. FlagsAt(\h0F, \h84) = {"PRE66_67", "REL32"}
    BY ONLY FlagsTable
  <2>5. PICK a : a = AddressSize(code, p + 2, FALSE)
    OBVIOUS
  <2>6. SizeWith(2, {"PRE66_67", "REL32"}, a, FALSE) = 6 /\ 6 >= 2
    BY ONLY DEF SizeWith, Size
  <2>7. Extended(code, p, b, 6, \h84, {"PRE66_67", "REL32"}, a)
    BY <2>1, <2>3, <2>5, <2>6, Zenon DEF Extended
  <2>. QED BY <2>2, <2>7, ExtendedMeasured, Zenon
<1>2. ASSUME NEW b, b = <<\h0F, \hB6, \h45, 8>>, Stands(code, p, b) PROVE Measured(code, p, b)
  <2>1. Len(b) = 4 /\ b[1] = \h0F /\ b[2] = \hB6 /\ b[3] = \h45
    BY <1>2
  <2>2. Opened(code, p, b, 4)
    <3>1. Lies(code, p, b, 4)
      BY <1>2, <2>1 DEF Lies
    <3>. QED BY ONLY <3>1, Opens, Zenon
  <2>3. FlagsAt(\h0F, \hB6) = {"MODRM"}
    BY ONLY FlagsTable
  <2>4. Byte(code, p + 2) = \h45
    BY ONLY <2>1, <2>2 DEF Opened
  <2>5. AddressSize(code, p + 2, FALSE) = 1
    BY ONLY <2>4 DEF AddressSize
  <2>6. SizeWith(2, {"MODRM"}, 1, FALSE) = 4 /\ 4 >= 2
    BY ONLY DEF SizeWith, Size
  <2>7. Extended(code, p, b, 4, \hB6, {"MODRM"}, 1)
    BY <2>1, <2>3, <2>5, <2>6, Zenon DEF Extended
  <2>. QED BY <2>2, <2>7, ExtendedMeasured, Zenon
<1>3. ASSUME NEW b, b = <<\h67, \h8B, \h46, 8>>, Stands(code, p, b) PROVE Measured(code, p, b)
  <2>1. Len(b) = 4 /\ b[1] = \h67 /\ b[2] = \h8B /\ b[3] = \h46
    BY <1>3
  <2>2. Opened(code, p, b, 4)
    <3>1. Lies(code, p, b, 4)
      BY <1>3, <2>1 DEF Lies
    <3>. QED BY ONLY <3>1, Opens, Zenon
  <2>3. /\ \h67 \in PrefixBytes /\ \h8B \notin PrefixBytes
        /\ 1 \in 1..2 /\ 1 = IF \h8B = \h0F THEN 2 ELSE 1
    BY ONLY DEF PrefixBytes
  <2>4. TRUE = (\h67 = \h67) /\ FALSE = (\h67 = \h66)
    OBVIOUS
  <2>5. FlagsAt(\h8B, Byte(code, p + 2)) = {"MODRM"}
    BY ONLY FlagsTable
  <2>6. AddressSize(code, p + 1 + 1, TRUE) = 1
    <3>1. Byte(code, p + 1 + 1) = \h46
      BY ONLY <2>1, <2>2 DEF Opened
    <3>. QED BY ONLY <3>1 DEF AddressSize
  <2>7. SizeWith(1 + 1, {"MODRM"}, 1, IF \h8B \in \hA0..\hA3 THEN TRUE ELSE FALSE) = 4 /\ 4 >= 2
    BY ONLY DEF SizeWith, Size
  <2>8. Led(code, p, b, 4, \h67, \h8B, 1, TRUE, FALSE, {"MODRM"}, 1)
    BY <2>1, <2>3, <2>4, <2>5, <2>6, <2>7, Zenon DEF Led
  <2>. QED BY <2>2, <2>8, LedMeasured, Zenon
<1>4. ASSUME NEW b, b = <<\h67, \h8B, \h16, 1, 2>>, Stands(code, p, b) PROVE Measured(code, p, b)
  <2>1. Len(b) = 5 /\ b[1] = \h67 /\ b[2] = \h8B /\ b[3] = \h16
    BY <1>4
  <2>2. Opened(code, p, b, 5)
    <3>1. Lies(code, p, b, 5)
      BY <1>4, <2>1 DEF Lies
    <3>. QED BY ONLY <3>1, Opens, Zenon
  <2>3. /\ \h67 \in PrefixBytes /\ \h8B \notin PrefixBytes
        /\ 1 \in 1..2 /\ 1 = IF \h8B = \h0F THEN 2 ELSE 1
    BY ONLY DEF PrefixBytes
  <2>4. TRUE = (\h67 = \h67) /\ FALSE = (\h67 = \h66)
    OBVIOUS
  <2>5. FlagsAt(\h8B, Byte(code, p + 2)) = {"MODRM"}
    BY ONLY FlagsTable
  <2>6. AddressSize(code, p + 1 + 1, TRUE) = 2
    <3>1. Byte(code, p + 1 + 1) = \h16
      BY ONLY <2>1, <2>2 DEF Opened
    <3>. QED BY ONLY <3>1 DEF AddressSize
  <2>7. SizeWith(1 + 1, {"MODRM"}, 2, IF \h8B \in \hA0..\hA3 THEN TRUE ELSE FALSE) = 5 /\ 5 >= 2
    BY ONLY DEF SizeWith, Size
  <2>8. Led(code, p, b, 5, \h67, \h8B, 1, TRUE, FALSE, {"MODRM"}, 2)
    BY <2>1, <2>3, <2>4, <2>5, <2>6, <2>7, Zenon DEF Led
  <2>. QED BY <2>2, <2>8, LedMeasured, Zenon
<1>5. ASSUME NEW b, b = <<\h66, \hB8, 1, 2>>, Stands(code, p, b) PROVE Measured(code, p, b)
  <2>1. Len(b) = 4 /\ b[1] = \h66 /\ b[2] = \hB8
    BY <1>5
  <2>2. Opened(code, p, b, 4)
    <3>1. Lies(code, p, b, 4)
      BY <1>5, <2>1 DEF Lies
    <3>. QED BY ONLY <3>1, Opens, Zenon
  <2>3. /\ \h66 \in PrefixBytes /\ \hB8 \notin PrefixBytes
        /\ 1 \in 1..2 /\ 1 = IF \hB8 = \h0F THEN 2 ELSE 1
    BY ONLY DEF PrefixBytes
  <2>4. FALSE = (\h66 = \h67) /\ TRUE = (\h66 = \h66)
    OBVIOUS
  <2>5. FlagsAt(\hB8, Byte(code, p + 2)) = {"PRE66_67"}
    BY ONLY FlagsTable
  <2>6. PICK a : a = AddressSize(code, p + 1 + 1, FALSE)
    OBVIOUS
  <2>7. SizeWith(1 + 1, {"PRE66_67"}, a, IF \hB8 \in \hA0..\hA3 THEN FALSE ELSE TRUE) = 4 /\ 4 >= 2
    BY ONLY DEF SizeWith, Size
  <2>8. Led(code, p, b, 4, \h66, \hB8, 1, FALSE, TRUE, {"PRE66_67"}, a)
    BY <2>1, <2>3, <2>4, <2>5, <2>6, <2>7, Zenon DEF Led
  <2>. QED BY <2>2, <2>8, LedMeasured, Zenon
<1>6. ASSUME NEW b, b = <<\h67, \hA1, 1, 2>>, Stands(code, p, b) PROVE Measured(code, p, b)
  <2>1. Len(b) = 4 /\ b[1] = \h67 /\ b[2] = \hA1
    BY <1>6
  <2>2. Opened(code, p, b, 4)
    <3>1. Lies(code, p, b, 4)
      BY <1>6, <2>1 DEF Lies
    <3>. QED BY ONLY <3>1, Opens, Zenon
  <2>3. /\ \h67 \in PrefixBytes /\ \hA1 \notin PrefixBytes
        /\ 1 \in 1..2 /\ 1 = IF \hA1 = \h0F THEN 2 ELSE 1
    BY ONLY DEF PrefixBytes
  <2>4. TRUE = (\h67 = \h67) /\ FALSE = (\h67 = \h66)
    OBVIOUS
  <2>5. FlagsAt(\hA1, Byte(code, p + 2)) = {"PRE66_67"}
    BY ONLY FlagsTable
  <2>6. PICK a : a = AddressSize(code, p + 1 + 1, TRUE)
    OBVIOUS
  <2>7. SizeWith(1 + 1, {"PRE66_67"}, a, IF \hA1 \in \hA0..\hA3 THEN TRUE ELSE FALSE) = 4 /\ 4 >= 2
    BY ONLY DEF SizeWith, Size
  <2>8. Led(code, p, b, 4, \h67, \hA1, 1, TRUE, FALSE, {"PRE66_67"}, a)
    BY <2>1, <2>3, <2>4, <2>5, <2>6, <2>7, Zenon DEF Led
  <2>. QED BY <2>2, <2>8, LedMeasured, Zenon
<1>7. ASSUME NEW b, b = <<\hF0, \h0F, \hBA, \h28, 3>>, Stands(code, p, b) PROVE Measured(code, p, b)
  <2>1. Len(b) = 5 /\ b[1] = \hF0 /\ b[2] = \h0F /\ b[3] = \hBA /\ b[4] = \h28
    BY <1>7
  <2>2. Opened(code, p, b, 5)
    <3>1. Lies(code, p, b, 5)
      BY <1>7, <2>1 DEF Lies
    <3>. QED BY ONLY <3>1, Opens, Zenon
  <2>3. /\ \hF0 \in PrefixBytes /\ \h0F \notin PrefixBytes
        /\ 2 \in 1..2 /\ 2 = IF \h0F = \h0F THEN 2 ELSE 1
    BY ONLY DEF PrefixBytes
  <2>4. FALSE = (\hF0 = \h67) /\ FALSE = (\hF0 = \h66)
    OBVIOUS
  <2>5. FlagsAt(\h0F, Byte(code, p + 2)) = {"MODRM", "I8"}
    <3>1. Byte(code, p + 2) = \hBA
      BY ONLY <2>1, <2>2 DEF Opened
    <3>. QED BY ONLY <3>1, FlagsTable
  <2>6. AddressSize(code, p + 1 + 2, FALSE) = 0
    <3>1. Byte(code, p + 1 + 2) = \h28
      BY ONLY <2>1, <2>2 DEF Opened
    <3>. QED BY ONLY <3>1 DEF AddressSize
  <2>7. SizeWith(1 + 2, {"MODRM", "I8"}, 0, IF \h0F \in \hA0..\hA3 THEN FALSE ELSE FALSE) = 5 /\ 5 >= 2
    BY ONLY DEF SizeWith, Size
  <2>8. Led(code, p, b, 5, \hF0, \h0F, 2, FALSE, FALSE, {"MODRM", "I8"}, 0)
    BY <2>1, <2>3, <2>4, <2>5, <2>6, <2>7, Zenon DEF Led
  <2>. QED BY <2>2, <2>8, LedMeasured, Zenon
<1>. QED BY <1>1, <1>2, <1>3, <1>4, <1>5, <1>6, <1>7 DEF LongInstructions

\* Every instruction of the model that stands in code has its length measured there.
LEMMA SizesOfInstructions ==
    ASSUME NEW code \in Seq(Nat), NEW p, NEW b \in Instructions, Stands(code, p, b)
    PROVE  Measured(code, p, b)
<1>1. b \in PlainInstructions \cup LongInstructions
  BY SMT DEF Instructions, PlainInstructions, LongInstructions
<1>. QED BY <1>1, PlainSizes, LongSizes, Zenon

-----------------------------------------------------------------------------
(* Where the instructions start *)

\* The first k sequences joined.
Joint(ss, k) == Concat(SubSeq(ss, 1, k))

\* Concat is a loop that adds a sequence per turn.
JoinTurn(ss, s, t) == s \o t

JoinedTo(ss, k, s) == s = Joint(ss, k)

JoinLoop == INSTANCE LoopTheorems WITH op <- JoinTurn, holds <- JoinedTo

\* The fold of Concat is that loop.
LEMMA ConcatIs ==
    ASSUME NEW m, NEW ss
    PROVE  Concat(ss) = JoinLoop!Fold(m, <<>>, ss)
BY DEF Concat, JoinLoop!Fold, JoinTurn, FoldLeft, JoinLoop!FoldLeft, MapThenFoldSet, JoinLoop!MapThenFoldSet, Max, JoinLoop!Max

\* A sequence more at the end.
LEMMA ConcatMore ==
    ASSUME NEW ss \in Seq(Seq(Nat)), NEW t \in Seq(Nat)
    PROVE  Concat(Append(ss, t)) = Concat(ss) \o t
<1>1. Concat(ss) = JoinLoop!Fold(t, <<>>, ss) /\ Concat(Append(ss, t)) = JoinLoop!Fold(t, <<>>, Append(ss, t))
  BY ConcatIs, Zenon
<1>2. JoinLoop!Fold(t, <<>>, Append(ss, t)) = JoinTurn(t, JoinLoop!Fold(t, <<>>, ss), t)
  BY JoinLoop!FoldAppend
<1>. QED BY <1>1, <1>2 DEF JoinTurn

\* One more of them.
LEMMA JointMore ==
    ASSUME NEW ss \in Seq(Seq(Nat)), NEW k \in Nat, k < Len(ss)
    PROVE  Joint(ss, k + 1) = Joint(ss, k) \o ss[k + 1]
<1>1. PICK l \in Nat : l = Len(ss) /\ DOMAIN ss = 1..l /\ k < l
  BY LenProperties
<1>2. PICK m \in 1..l : m = k + 1 /\ m - 1 = k
  <2>1. k + 1 \in 1..l /\ (k + 1) - 1 = k
    BY ONLY <1>1, k \in Nat
  <2>. QED BY <2>1
<1>3. SubSeq(ss, 1, k) \in Seq(Seq(Nat)) /\ ss[m] \in Seq(Nat)
  <2>1. \A j \in 1..k : ss[j] \in Seq(Nat)
    BY <1>1, ElementOfSeq
  <2>2. 1 \in Int /\ k \in Int
    OBVIOUS
  <2>3. SubSeq(ss, 1, k) \in Seq(Seq(Nat))
    BY ONLY <2>1, <2>2, SubSeqProperties
  <2>. QED BY <1>1, <2>3, ElementOfSeq
<1>4. SubSeq(ss, 1, m) = Append(SubSeq(ss, 1, k), ss[m])
  <2>. DEFINE u == SubSeq(ss, 1, k)
              v == SubSeq(ss, 1, m)
  <2>1. DOMAIN u = 1..k /\ Len(u) = k /\ \A j \in 1..k : u[j] = ss[j]
    BY ONLY <1>1, ss \in Seq(Seq(Nat)), k \in Nat, SubSeqProperties
  <2>2. DOMAIN v = 1..m /\ \A j \in 1..m : v[j] = ss[j]
    BY ONLY <1>1, <1>2, ss \in Seq(Seq(Nat)), k \in Nat, SubSeqProperties
  <2>. DEFINE w == Append(u, ss[m])
  <2>3. u \in Seq(Seq(Nat)) /\ v \in Seq(Seq(Nat)) /\ Len(v) = m
    <3>1. v \in Seq(Seq(Nat))
      <4>1. \A j \in 1..m : ss[j] \in Seq(Nat)
        <5>1. \A j \in 1..m : j \in 1..l
          BY ONLY <1>1, m \in 1..l
        <5>. QED BY <1>1, <5>1, ElementOfSeq
      <4>2. 1 \in Int /\ m \in Int
        OBVIOUS
      <4>. QED BY ONLY <4>1, <4>2, SubSeqProperties
    <3>2. Len(v) = m
      BY ONLY <3>1, <2>2, m \in 1..l, l \in Nat, LenProperties
    <3>. QED BY <1>3, <3>1, <3>2
  <2>4. w \in Seq(Seq(Nat)) /\ Len(w) = k + 1 /\ (\A j \in 1..k : w[j] = u[j]) /\ w[k + 1] = ss[m]
    BY <1>3, <2>1, <2>3, AppendProperties
  <2>. HIDE DEF u, v, w
  <2>5. \A j \in 1..m : j \in 1..k \/ j = k + 1
    BY ONLY <1>2, k \in Nat
  <2>6. \A j \in 1..m : v[j] = w[j]
    BY ONLY <1>2, <2>1, <2>2, <2>4, <2>5
  <2>7. v = w
    BY ONLY <1>2, <2>3, <2>4, <2>6, SeqEqual
  <2>. QED BY <2>7 DEF u, v, w
<1>5. Concat(SubSeq(ss, 1, m)) = Concat(SubSeq(ss, 1, k)) \o ss[m]
  BY <1>3, <1>4, ConcatMore, Zenon
<1>. QED BY <1>2, <1>5, Zenon DEF Joint

\* Where the k-th of the sequences ends.
Offset(ss, k) == Len(Joint(ss, k))

\* The k-th of the sequences stands in s behind those before it.
StandsIn(ss, k, s) ==
    \A j \in 1..Len(ss[k]) : Offset(ss, k - 1) + j <= Len(s) /\ s[Offset(ss, k - 1) + j] = ss[k][j]

\* The first m sequences joined are a sequence in which each of them stands.
Laid(ss, m) ==
    /\ Joint(ss, m) \in Seq(Nat)
    /\ m > 0 => Offset(ss, m) = Offset(ss, m - 1) + Len(ss[m])
    /\ \A k \in 1..m : StandsIn(ss, k, Joint(ss, m))

\* A sequence that stands somewhere stands there also when more follows.
LEMMA StandsLonger ==
    ASSUME NEW ss \in Seq(Seq(Nat)), NEW k \in 1..Len(ss), NEW s \in Seq(Nat), NEW t \in Seq(Nat),
           Joint(ss, k - 1) \in Seq(Nat), StandsIn(ss, k, s)
    PROVE  StandsIn(ss, k, s \o t)
<1>1. PICK o \in Nat : o = Offset(ss, k - 1)
  BY LenProperties DEF Offset
<1>2. PICK n \in Nat : n = Len(s)
  BY LenProperties
<1>3. PICK w \in Nat : w = Len(ss[k])
  <2>1. ss[k] \in Seq(Nat)
    BY ElementOfSeq
  <2>. QED BY <2>1, LenProperties
<1>4. PICK r \in Nat : r = Len(t)
  BY LenProperties
<1>5. Len(s \o t) = n + r /\ \A i \in 1..n : (s \o t)[i] = s[i]
  BY <1>2, <1>4, ConcatProperties
<1>6. ASSUME NEW j \in 1..w PROVE o + j <= Len(s \o t) /\ (s \o t)[o + j] = ss[k][j]
  <2>1. o + j <= n /\ s[o + j] = ss[k][j]
    BY <1>1, <1>2, <1>3, Zenon DEF StandsIn
  <2>2. o + j \in 1..n /\ o + j <= n + r
    <3>1. o + j <= n
      BY <2>1
    <3>. QED BY ONLY <3>1, j \in 1..w, o \in Nat, n \in Nat, w \in Nat, r \in Nat
  <2>. QED BY <1>5, <2>1, <2>2
<1>. QED BY <1>1, <1>3, <1>6, Zenon DEF StandsIn

\* The last sequence stands at the end.
LEMMA StandsLast ==
    ASSUME NEW ss, NEW k, NEW s \in Seq(Nat), NEW t \in Seq(Nat), Len(s) = Offset(ss, k - 1), t = ss[k]
    PROVE  StandsIn(ss, k, s \o t)
<1>1. PICK n \in Nat : n = Len(s)
  BY LenProperties
<1>2. PICK w \in Nat : w = Len(t)
  BY LenProperties
<1>3. Len(s \o t) = n + w /\ \A i \in (n + 1)..(n + w) : (s \o t)[i] = t[i - n]
  <2>. DEFINE u == s \o t
  <2>1. Len(u) = n + w /\ \A i \in 1..(n + w) : u[i] = IF i <= n THEN s[i] ELSE t[i - n]
    <3>1. Len(u) = Len(s) + Len(t) /\ \A i \in 1..(Len(s) + Len(t)) : u[i] = IF i <= Len(s) THEN s[i] ELSE t[i - Len(s)]
      BY ONLY s \in Seq(Nat), t \in Seq(Nat), ConcatProperties
    <3>. QED BY ONLY <1>1, <1>2, <3>1, Zenon
  <2>. HIDE DEF u
  <2>2. \A i \in (n + 1)..(n + w) : i \in 1..(n + w) /\ ~(i <= n)
    BY ONLY n \in Nat, w \in Nat
  <2>3. \A i \in (n + 1)..(n + w) : u[i] = t[i - n]
    BY ONLY <2>1, <2>2
  <2>. QED BY <2>1, <2>3 DEF u
<1>4. ASSUME NEW j \in 1..w PROVE n + j <= Len(s \o t) /\ (s \o t)[n + j] = t[j]
  <2>1. n + j \in (n + 1)..(n + w) /\ (n + j) - n = j /\ n + j <= n + w
    BY ONLY j \in 1..w, n \in Nat, w \in Nat
  <2>2. (s \o t)[n + j] = t[(n + j) - n]
    BY <1>3, <2>1, Zenon
  <2>. QED BY <1>3, <2>1, <2>2, Zenon
<1>. QED BY <1>1, <1>2, <1>4, Zenon DEF StandsIn

\* Nothing joined.
LEMMA JointNone == Concat(<<>>) = <<>>
<1>1. Concat(<<>>) = JoinLoop!Fold(0, <<>>, <<>>)
  BY ConcatIs, Zenon
<1>2. <<>> \in Seq({0})
  BY EmptySeq
<1>3. JoinLoop!Fold(0, <<>>, <<>>) = <<>>
  BY <1>2, JoinLoop!FoldAppend
<1>. QED BY <1>1, <1>3

\* One sequence more.
LEMMA LaidNext ==
    ASSUME NEW ss \in Seq(Seq(Nat)), NEW m \in 1..Len(ss), \A k \in 0..(m - 1) : Laid(ss, k)
    PROVE  Laid(ss, m)
<1>1. PICK l \in Nat : l = Len(ss) /\ DOMAIN ss = 1..l
  BY LenProperties
<1>2. PICK h \in Nat : h = m - 1 /\ h + 1 = m /\ h < l /\ h \in 0..(m - 1)
  BY <1>1
<1>3. Laid(ss, h)
  BY <1>2
<1>. DEFINE s == Joint(ss, h)
            t == ss[m]
<1>4. s \in Seq(Nat) /\ t \in Seq(Nat)
  <2>1. s \in Seq(Nat)
    BY <1>3, Zenon DEF Laid
  <2>. QED BY <2>1, ElementOfSeq
<1>5. Joint(ss, m) = s \o t
  BY <1>1, <1>2, JointMore
<1>6. Len(s) = Offset(ss, m - 1)
  BY <1>2, Zenon DEF Offset
<1>. HIDE DEF s, t
<1>7. s \o t \in Seq(Nat) /\ Len(s \o t) = Len(s) + Len(t)
  BY <1>4, ConcatProperties
<1>8. Offset(ss, m) = Offset(ss, m - 1) + Len(ss[m])
  BY <1>5, <1>6, <1>7, Zenon DEF Offset, t
<1>9. ASSUME NEW k \in 1..m PROVE StandsIn(ss, k, s \o t)
  <2>1. CASE k = m
    <3>1. StandsIn(ss, m, s \o t)
      BY <1>4, <1>6, StandsLast, Zenon DEF t
    <3>. QED BY <2>1, <3>1, Zenon
  <2>2. CASE k # m
    <3>1. k \in 1..h /\ k \in 1..l /\ k - 1 \in 0..(m - 1)
      BY ONLY <1>1, <1>2, <2>2, k \in 1..m, h \in Nat, l \in Nat
    <3>2. Laid(ss, k - 1)
      BY <3>1
    <3>3. Joint(ss, k - 1) \in Seq(Nat)
      BY <3>2, Zenon DEF Laid
    <3>4. StandsIn(ss, k, s)
      BY <1>3, <3>1, Zenon DEF Laid, s
    <3>. QED BY <1>1, <1>4, <3>1, <3>3, <3>4, StandsLonger, Zenon
  <2>. QED BY <2>1, <2>2
<1>. QED BY <1>5, <1>7, <1>8, <1>9, Zenon DEF Laid

\* The sequences stand one behind the other in the first m of them joined.
LEMMA AllLaid ==
    ASSUME NEW ss \in Seq(Seq(Nat))
    PROVE  \A m \in 0..Len(ss) : Laid(ss, m)
<1>1. PICK l \in Nat : l = Len(ss) /\ DOMAIN ss = 1..l
  BY LenProperties
<1>. DEFINE S == {m \in Nat : m <= l => \A k \in 0..m : Laid(ss, k)}
<1>2. 0 \in S
  <2>1. SubSeq(ss, 1, 0) = <<>>
    BY ONLY SubSeqEmpty
  <2>3. Joint(ss, 0) = <<>>
    BY <2>1, JointNone, Zenon DEF Joint
  <2>4. Laid(ss, 0)
    <3>1. Joint(ss, 0) \in Seq(Nat)
      BY <2>3, EmptySeq
    <3>2. ~(0 > 0) /\ \A k \in 1..0 : FALSE
      OBVIOUS
    <3>. QED BY <3>1, <3>2, Zenon DEF Laid
  <2>. QED BY <2>4
<1>3. ASSUME NEW m \in Nat, m \in S PROVE m + 1 \in S
  <2>. SUFFICES ASSUME m + 1 <= l PROVE \A k \in 0..(m + 1) : Laid(ss, k)
    OBVIOUS
  <2>1. PICK n \in 1..l : n = m + 1 /\ n - 1 = m
    <3>1. m + 1 \in 1..l /\ (m + 1) - 1 = m
      BY ONLY m + 1 <= l, l \in Nat, m \in Nat
    <3>. QED BY <3>1
  <2>2. \A k \in 0..(n - 1) : Laid(ss, k)
    BY <1>3, <2>1
  <2>3. Laid(ss, n)
    BY <1>1, <2>2, LaidNext, Zenon
  <2>4. \A k \in 0..(m + 1) : k \in 0..(n - 1) \/ k = n
    BY ONLY <2>1, m \in Nat
  <2>. QED BY <2>2, <2>3, <2>4, Zenon
<1>. HIDE DEF S
<1>4. l \in S
  BY <1>2, <1>3, JoinLoop!NatSet
<1>. QED BY <1>1, <1>4 DEF S

-----------------------------------------------------------------------------
(* The walk over the instructions *)

\* Instructions are sequences of one byte or more, and of more when they have a prefix.
SomeBytes(b) == b \in Seq(Nat) /\ Len(b) \in Nat /\ Len(b) >= 1 /\ (b[1] \in PrefixBytes => Len(b) >= 2)

\* All of the model are.
LEMMA InstructionsAre == \A b \in Instructions : SomeBytes(b)
<1>1. ASSUME NEW b, b = <<\h55>> PROVE SomeBytes(b)
  BY <1>1 DEF SomeBytes, PrefixBytes
<1>2. ASSUME NEW b, b = <<\hC3>> PROVE SomeBytes(b)
  BY <1>2 DEF SomeBytes, PrefixBytes
<1>3. ASSUME NEW b, b = <<\hC2, 4, 0>> PROVE SomeBytes(b)
  BY <1>3 DEF SomeBytes, PrefixBytes
<1>4. ASSUME NEW b, b = <<\h8B, \hEC>> PROVE SomeBytes(b)
  BY <1>4 DEF SomeBytes, PrefixBytes
<1>5. ASSUME NEW b, b = <<\h8B, \h44, \h24, 8>> PROVE SomeBytes(b)
  BY <1>5 DEF SomeBytes, PrefixBytes
<1>6. ASSUME NEW b, b = <<\h8B, 5, \h8D, \h88, 0, 0>> PROVE SomeBytes(b)
  BY <1>6 DEF SomeBytes, PrefixBytes
<1>7. ASSUME NEW b, b = <<\h8D, \h88, 1, 2, 3, 4>> PROVE SomeBytes(b)
  BY <1>7 DEF SomeBytes, PrefixBytes
<1>8. ASSUME NEW b, b = <<\h67, \h8B, \h46, 8>> PROVE SomeBytes(b)
  BY <1>8 DEF SomeBytes, PrefixBytes
<1>9. ASSUME NEW b, b = <<\h67, \h8B, \h16, 1, 2>> PROVE SomeBytes(b)
  BY <1>9 DEF SomeBytes, PrefixBytes
<1>10. ASSUME NEW b, b = <<\h8B, 4, \h8D, 1, 2, 3, 4>> PROVE SomeBytes(b)
  BY <1>10 DEF SomeBytes, PrefixBytes
<1>11. ASSUME NEW b, b = <<\hB8, \h8D, \h88, 0, 0>> PROVE SomeBytes(b)
  BY <1>11 DEF SomeBytes, PrefixBytes
<1>12. ASSUME NEW b, b = <<\h66, \hB8, 1, 2>> PROVE SomeBytes(b)
  BY <1>12 DEF SomeBytes, PrefixBytes
<1>13. ASSUME NEW b, b = <<\hA1, 1, 2, 3, 4>> PROVE SomeBytes(b)
  BY <1>13 DEF SomeBytes, PrefixBytes
<1>14. ASSUME NEW b, b = <<\h67, \hA1, 1, 2>> PROVE SomeBytes(b)
  BY <1>14 DEF SomeBytes, PrefixBytes
<1>15. ASSUME NEW b, b = <<\h81, \h7C, \h24, 4, 1, 2, 3, 4>> PROVE SomeBytes(b)
  BY <1>15 DEF SomeBytes, PrefixBytes
<1>16. ASSUME NEW b, b = <<\hF7, 5, 1, 2, 3, 4, 5, 6, 7, 8>> PROVE SomeBytes(b)
  BY <1>16 DEF SomeBytes, PrefixBytes
<1>17. ASSUME NEW b, b = <<\hF7, \hD8>> PROVE SomeBytes(b)
  BY <1>17 DEF SomeBytes, PrefixBytes
<1>18. ASSUME NEW b, b = <<\hF6, \hC1, 1>> PROVE SomeBytes(b)
  BY <1>18 DEF SomeBytes, PrefixBytes
<1>19. ASSUME NEW b, b = <<\hC8, 8, 0, 0>> PROVE SomeBytes(b)
  BY <1>19 DEF SomeBytes, PrefixBytes
<1>20. ASSUME NEW b, b = <<\h0F, \h84, 1, 2, 3, 4>> PROVE SomeBytes(b)
  BY <1>20 DEF SomeBytes, PrefixBytes
<1>21. ASSUME NEW b, b = <<\h0F, \hB6, \h45, 8>> PROVE SomeBytes(b)
  BY <1>21 DEF SomeBytes, PrefixBytes
<1>22. ASSUME NEW b, b = <<\h9A, 1, 2, 3, 4, 5, 6>> PROVE SomeBytes(b)
  BY <1>22 DEF SomeBytes, PrefixBytes
<1>23. ASSUME NEW b, b = <<\hF0, \h0F, \hBA, \h28, 3>> PROVE SomeBytes(b)
  BY <1>23 DEF SomeBytes, PrefixBytes
<1>. QED BY <1>1, <1>2, <1>3, <1>4, <1>5, <1>6, <1>7, <1>8, <1>9, <1>10, <1>11, <1>12, <1>13, <1>14, <1>15, <1>16, <1>17, <1>18, <1>19, <1>20, <1>21, <1>22, <1>23 DEF Instructions

\* The returns among them.
Return(b) == <<Len(b), b[PrefixCount(b) + 1]>> \in {<<1, \hC3>>, <<3, \hC2>>}

\* They are ret and ret 4, by their length and opcode as SizeOfProc knows them.
LEMMA ReturnsAre == \A b \in Instructions : Return(b) <=> b \in {<<\hC3>>, <<\hC2, 4, 0>>}
BY SMT DEF Instructions, Return, PrefixCount, PrefixBytes

\* Those that start as a lea does.
LEMMA LeasAre == \A b \in Instructions : b[1] = \h8D => Len(b) >= 2 /\ b[2] = \h88 /\ PrefixCount(b) = 0
BY SMT DEF Instructions, PrefixCount, PrefixBytes

\* The k-th instruction of the input stands in the code where it starts, and the next one behind it.
CodeAt(k) ==
    /\ Stands(Concat(in), StartOf(k), in[k]) /\ in[k] \in Instructions
    /\ StartOf(k) \in Nat /\ StartOf(k + 1) = StartOf(k) + Len(in[k])

\* That is so for every instruction of the input, from the first byte of the code to its end.
LEMMA CodeStands ==
    ASSUME in \in Seq(Instructions)
    PROVE  /\ Concat(in) \in Seq(Nat) /\ StartOf(1) = 1 /\ StartOf(Len(in) + 1) = Len(Concat(in)) + 1
           /\ \A k \in 1..Len(in) : CodeAt(k)
<1>1. PICK l \in Nat : l = Len(in) /\ DOMAIN in = 1..l
  BY LenProperties
<1>2. in \in Seq(Seq(Nat)) /\ \A k \in 1..l : in[k] \in Instructions /\ SomeBytes(in[k])
  <2>1. \A k \in 1..l : in[k] \in Instructions
    BY <1>1, ElementOfSeq
  <2>2. \A k \in 1..l : SomeBytes(in[k])
    BY <2>1, InstructionsAre, Zenon
  <2>3. \A k \in 1..l : in[k] \in Seq(Nat)
    BY <2>2, Zenon DEF SomeBytes
  <2>4. in \in Seq(Seq(Nat))
    BY ONLY in \in Seq(Instructions), <1>1, <2>3, SeqDef
  <2>. QED BY <2>1, <2>2, <2>4, Zenon
<1>3. \A m \in 0..l : Laid(in, m)
  BY <1>1, <1>2, AllLaid, Zenon
<1>4. Joint(in, l) = Concat(in)
  <2>1. SubSeq(in, 1, l) = in
    BY ONLY in \in Seq(Instructions), <1>1, SubSeqFull
  <2>. QED BY <2>1, Zenon DEF Joint
<1>5. \A k : StartOf(k) = 1 + Offset(in, k - 1)
  BY Zenon DEF StartOf, Offset, Joint
<1>6. Concat(in) \in Seq(Nat) /\ Offset(in, l) = Len(Concat(in))
  <2>1. Laid(in, l)
    BY <1>3
  <2>. QED BY <1>4, <2>1, Zenon DEF Laid, Offset
<1>7. StartOf(1) = 1
  <2>1. Offset(in, 0) = 0
    <3>1. SubSeq(in, 1, 0) = <<>>
      BY ONLY SubSeqEmpty
    <3>2. Joint(in, 0) = <<>>
      BY <3>1, JointNone, Zenon DEF Joint
    <3>. QED BY <3>2, EmptySeq DEF Offset
  <2>. QED BY <1>5, <2>1
<1>8. StartOf(l + 1) = Len(Concat(in)) + 1
  <2>1. (l + 1) - 1 = l /\ Len(Concat(in)) \in Nat
    BY <1>6, LenProperties
  <2>. QED BY <1>5, <1>6, <2>1
<1>9. ASSUME NEW k \in 1..l PROVE CodeAt(k)
  <2>1. PICK h \in 0..l : h = k - 1 /\ (k + 1) - 1 = k /\ k > 0 /\ k \in 0..l
    <3>1. k - 1 \in 0..l /\ (k + 1) - 1 = k /\ k > 0 /\ k \in 0..l
      OBVIOUS
    <3>. QED BY <3>1
  <2>2. Laid(in, h) /\ Laid(in, k) /\ Laid(in, l)
    BY <1>3, <2>1
  <2>3. PICK o \in Nat : o = Offset(in, k - 1)
    <3>1. Joint(in, k - 1) \in Seq(Nat)
      BY <2>1, <2>2, Zenon DEF Laid
    <3>. QED BY <3>1, LenProperties DEF Offset
  <2>4. Offset(in, k) = o + Len(in[k])
    BY <2>1, <2>2, <2>3, Zenon DEF Laid
  <2>5. StandsIn(in, k, Concat(in))
    BY <1>4, <2>2, Zenon DEF Laid
  <2>6. PICK w \in Nat : w = Len(in[k]) /\ w >= 1
    BY <1>2, Zenon DEF SomeBytes
  <2>7. StartOf(k) = 1 + o /\ StartOf(k + 1) = 1 + (o + w)
    BY <1>5, <2>1, <2>3, <2>4, <2>6, Zenon
  <2>8. Stands(Concat(in), 1 + o, in[k])
    <3>. DEFINE code == Concat(in)
                b == in[k]
    <3>1. \A j \in 1..w : o + j <= Len(code) /\ code[o + j] = b[j]
      BY <2>3, <2>5, <2>6, Zenon DEF StandsIn
    <3>2. PICK n \in Nat : n = Len(code) /\ DOMAIN code = 1..n
      BY <1>6, LenProperties
    <3>. HIDE DEF code, b
    <3>3. 1 + o \in Nat /\ 1 + o > 0 /\ (1 + o) + w - 1 <= n
      <4>1. w \in 1..w
        BY ONLY <2>6, w \in Nat
      <4>2. o + w <= n
        BY <3>1, <3>2, <4>1, Zenon
      <4>. QED BY ONLY <4>2, o \in Nat, w \in Nat, n \in Nat
    <3>4. ASSUME NEW j \in 0..(w - 1) PROVE Byte(code, (1 + o) + j) = b[j + 1]
      <4>1. PICK i \in 1..w : i = j + 1 /\ (1 + o) + j = o + i
        <5>1. j + 1 \in 1..w /\ (1 + o) + j = o + (j + 1)
          BY ONLY j \in 0..(w - 1), o \in Nat, w \in Nat
        <5>. QED BY <5>1
      <4>2. o + i <= n /\ code[o + i] = b[i]
        BY <3>1, <3>2, Zenon
      <4>3. o + i \in 1..n
        <5>1. o + i <= n
          BY <4>2
        <5>. QED BY ONLY <5>1, i \in 1..w, o \in Nat, n \in Nat, w \in Nat
      <4>4. Byte(code, o + i) = b[i]
        BY <3>2, <4>2, <4>3, Zenon DEF Byte
      <4>. QED BY <4>1, <4>4, Zenon
    <3>5. Len(b) = w
      BY <2>6 DEF b
    <3>6. Stands(code, 1 + o, b)
      BY <3>2, <3>3, <3>4, <3>5, Zenon DEF Stands
    <3>. QED BY <3>6 DEF code, b
  <2>9. 1 + o \in Nat /\ 1 + (o + w) = (1 + o) + w
    BY ONLY o \in Nat, w \in Nat
  <2>. QED BY <1>2, <2>6, <2>7, <2>8, <2>9, Zenon DEF CodeAt
<1>. QED BY <1>1, <1>6, <1>7, <1>8, <1>9, Zenon

\* A walk behind the first m instructions.
Walked(m) == [next |-> StartOf(m + 1), starts |-> [n \in 1..m |-> StartOf(n)]]

\* Every turn takes the walk one instruction further, until there are no more.
WalkHolds(code, k, walk) ==
    /\ k <= Len(in) => walk = Walked(k)
    /\ k >= Len(in) => walk = Walked(Len(in))

WalkLoop == INSTANCE LoopTheorems WITH op <- NextStart, holds <- WalkHolds

\* Starts is this loop.
LEMMA StartsIs ==
    ASSUME NEW code
    PROVE  Starts(code) = WalkLoop!Loop(code, [next |-> 1, starts |-> <<>>], Len(code)).starts
BY DEF Starts, WalkLoop!Loop

\* At an instruction the walk goes on to the next one.
LEMMA WalkGoes ==
    ASSUME in \in Seq(Instructions), NEW m \in 0..(Len(in) - 1)
    PROVE  NextStart(Concat(in), Walked(m), m + 1) = Walked(m + 1)
<1>1. PICK l \in Nat : l = Len(in)
  BY LenProperties
<1>2. PICK k \in 1..l : k = m + 1
  <2>1. m + 1 \in 1..l
    BY ONLY <1>1, m \in 0..(Len(in) - 1)
  <2>. QED BY <2>1
<1>3. CodeAt(k) /\ Concat(in) \in Seq(Nat)
  BY <1>1, CodeStands, Zenon
<1>. DEFINE code == Concat(in)
            size == SizeOfCode(code, StartOf(k))
            starts == [n \in 1..m |-> StartOf(n)]
<1>4. size = Len(in[k])
  <2>1. Measured(code, StartOf(k), in[k])
    BY <1>3, SizesOfInstructions, Zenon DEF CodeAt
  <2>. QED BY <2>1, Zenon DEF Measured
<1>5. size # 0 /\ StartOf(k + 1) = StartOf(k) + size
  <2>1. SomeBytes(in[k])
    BY <1>3, InstructionsAre, Zenon DEF CodeAt
  <2>2. Len(in[k]) # 0
    BY <2>1 DEF SomeBytes
  <2>. QED BY <1>3, <1>4, <2>2, Zenon DEF CodeAt
<1>6. Walked(m).next = StartOf(k) /\ Walked(m).starts = starts
  BY <1>2, Zenon DEF Walked
<1>7. Append(starts, StartOf(k)) = [n \in 1..k |-> StartOf(n)]
  <2>. DEFINE more == [n \in 1..k |-> StartOf(n)]
  <2>1. \A n \in 1..k : StartOf(n) \in Nat
    <3>1. \A n \in 1..k : n \in 1..l
      BY ONLY k \in 1..l, l \in Nat
    <3>2. \A n \in 1..l : StartOf(n) \in Nat
      BY <1>1, CodeStands, Zenon DEF CodeAt
    <3>. QED BY <3>1, <3>2
  <2>2. k \in Nat /\ m \in Nat /\ k = m + 1 /\ \A n \in 1..m : n \in 1..k
    BY ONLY <1>1, <1>2, m \in 0..(Len(in) - 1), k \in 1..l
  <2>. DEFINE st(n) == StartOf(n)
  <2>. HIDE DEF st
  <2>3. \A n \in 1..k : st(n) \in Nat
    BY <2>1 DEF st
  <2>4. Append([n \in 1..m |-> st(n)], st(k)) = [n \in 1..k |-> st(n)]
    <3>. DEFINE u == [n \in 1..m |-> st(n)]
                v == [n \in 1..k |-> st(n)]
    <3>1. u \in Seq(Nat) /\ Len(u) = m /\ v \in Seq(Nat) /\ Len(v) = k /\ st(k) \in Nat
      BY ONLY <2>2, <2>3
    <3>2. (\A n \in 1..m : u[n] = st(n)) /\ \A n \in 1..k : v[n] = st(n)
      OBVIOUS
    <3>. HIDE DEF u, v
    <3>3. PICK w : w = Append(u, st(k))
      OBVIOUS
    <3>4. w \in Seq(Nat) /\ Len(w) = m + 1 /\ (\A n \in 1..m : w[n] = u[n]) /\ w[m + 1] = st(k)
      BY ONLY <3>1, <3>3, AppendProperties
    <3>5. \A n \in 1..k : n \in 1..m \/ n = k
      BY ONLY <2>2
    <3>6. \A n \in 1..k : w[n] = v[n]
      BY ONLY <2>2, <3>2, <3>4, <3>5
    <3>7. w = v
      BY ONLY <2>2, <3>1, <3>4, <3>6, SeqEqual
    <3>. QED BY <3>3, <3>7 DEF u, v
  <2>. QED BY <2>4 DEF st
<1>. HIDE DEF code, starts
<1>8. NextStart(code, Walked(m), k) = [next |-> StartOf(k) + size, starts |-> Append(starts, StartOf(k))]
  <2>1. SizeOfCode(code, Walked(m).next) # 0
    BY <1>5, <1>6, Zenon
  <2>2. NextStart(code, Walked(m), k) =
          [next |-> Walked(m).next + SizeOfCode(code, Walked(m).next), starts |-> Append(Walked(m).starts, Walked(m).next)]
    BY <2>1, Zenon DEF NextStart
  <2>. QED BY <1>6, <2>2, Zenon
<1>9. NextStart(code, Walked(m), k) = Walked(k)
  BY <1>5, <1>7, <1>8, Zenon DEF Walked
<1>. QED BY <1>2, <1>9, Zenon DEF code

\* Behind the last instruction the walk stays.
LEMMA WalkStays ==
    ASSUME in \in Seq(Instructions), NEW turn
    PROVE  NextStart(Concat(in), Walked(Len(in)), turn) = Walked(Len(in))
<1>1. PICK n \in Nat : n = Len(Concat(in))
  BY CodeStands, LenProperties
<1>2. Walked(Len(in)).next = n + 1
  BY <1>1, CodeStands, Zenon DEF Walked
<1>3. n + 1 > n
  OBVIOUS
<1>4. SizeOfCode(Concat(in), n + 1) = 0
  BY <1>1, <1>3, Zenon DEF SizeOfCode
<1>. QED BY <1>2, <1>4, Zenon DEF NextStart

\* There are no more instructions than bytes.
LEMMA EnoughTurns ==
    ASSUME in \in Seq(Instructions)
    PROVE  Len(in) <= Len(Concat(in))
<1>1. PICK l \in Nat : l = Len(in)
  BY LenProperties
<1>2. PICK n \in Nat : n = Len(Concat(in))
  BY CodeStands, LenProperties
<1>. DEFINE S == {k \in Nat : k <= l => StartOf(k + 1) \in Nat /\ StartOf(k + 1) >= k + 1}
<1>3. 0 \in S
  <2>1. StartOf(0 + 1) = 1
    BY CodeStands
  <2>. QED BY <2>1
<1>4. ASSUME NEW k \in Nat, k \in S PROVE k + 1 \in S
  <2>. SUFFICES ASSUME k + 1 <= l PROVE StartOf((k + 1) + 1) \in Nat /\ StartOf((k + 1) + 1) >= (k + 1) + 1
    OBVIOUS
  <2>1. PICK m \in 1..l : m = k + 1
    <3>1. k + 1 \in 1..l
      BY ONLY k + 1 <= l, k \in Nat, l \in Nat
    <3>. QED BY <3>1
  <2>2. PICK s \in Nat : s = StartOf(m) /\ s >= m
    BY <1>4, <2>1
  <2>3. CodeAt(m)
    BY <1>1, CodeStands, Zenon
  <2>4. PICK w \in Nat : w = Len(in[m]) /\ w >= 1
    <3>1. SomeBytes(in[m])
      BY <2>3, InstructionsAre, Zenon DEF CodeAt
    <3>. QED BY <3>1, Zenon DEF SomeBytes
  <2>5. StartOf(m + 1) = s + w
    BY <2>2, <2>3, <2>4, Zenon DEF CodeAt
  <2>6. s + w \in Nat /\ s + w >= m + 1
    BY ONLY <2>2, <2>4, s \in Nat, w \in Nat, m \in 1..l
  <2>. QED BY ONLY <2>1, <2>5, <2>6
<1>. HIDE DEF S
<1>5. l \in S
  BY <1>3, <1>4, WalkLoop!NatSet
<1>6. StartOf(l + 1) >= l + 1
  BY <1>5 DEF S
<1>7. n + 1 >= l + 1
  BY <1>1, <1>2, <1>6, CodeStands, Zenon
<1>8. l <= n
  BY ONLY <1>7, l \in Nat, n \in Nat
<1>. QED BY <1>1, <1>2, <1>8

\* The walk meets every instruction and nothing else.
LEMMA StartsAre ==
    ASSUME in \in Seq(Instructions)
    PROVE  Starts(Concat(in)) = [n \in 1..Len(in) |-> StartOf(n)]
<1>1. PICK l \in Nat : l = Len(in)
  BY LenProperties
<1>2. PICK n \in Nat : n = Len(Concat(in)) /\ l <= n
  BY <1>1, CodeStands, EnoughTurns, LenProperties
<1>. DEFINE base == [next |-> 1, starts |-> <<>>]
            code == Concat(in)
<1>3. WalkHolds(code, 0, base)
  <2>1. Walked(0) = base
    <3>1. StartOf(0 + 1) = 1
      BY CodeStands
    <3>2. [m \in 1..0 |-> StartOf(m)] = <<>>
      OBVIOUS
    <3>. QED BY <3>1, <3>2, Zenon DEF Walked
  <2>2. 0 >= l => l = 0
    OBVIOUS
  <2>. HIDE DEF base
  <2>. QED BY <1>1, <2>1, <2>2, Zenon DEF WalkHolds
<1>4. ASSUME NEW k \in 1..n, NEW x, WalkHolds(code, k - 1, x) PROVE WalkHolds(code, k, NextStart(code, x, k))
  <2>1. CASE k <= l
    <3>1. PICK m \in 0..(l - 1) : m = k - 1 /\ m + 1 = k /\ m <= l
      <4>1. k - 1 \in 0..(l - 1) /\ (k - 1) + 1 = k /\ k - 1 <= l
        BY ONLY <2>1, k \in 1..n, l \in Nat, n \in Nat
      <4>. QED BY <4>1
    <3>2. x = Walked(m)
      BY <1>1, <1>4, <3>1, Zenon DEF WalkHolds
    <3>3. NextStart(code, x, k) = Walked(k)
      BY <1>1, <3>1, <3>2, WalkGoes, Zenon
    <3>4. k >= l => k = l
      BY ONLY <2>1, k \in 1..n, l \in Nat
    <3>. QED BY <1>1, <3>3, <3>4, Zenon DEF WalkHolds
  <2>2. CASE k > l
    <3>1. k - 1 >= l /\ ~(k <= l)
      BY ONLY <2>2, k \in 1..n, l \in Nat
    <3>2. x = Walked(l)
      BY <1>1, <1>4, <3>1, Zenon DEF WalkHolds
    <3>3. NextStart(code, x, k) = Walked(l)
      BY <1>1, <3>2, WalkStays, Zenon
    <3>. QED BY <1>1, <3>1, <3>3, Zenon DEF WalkHolds
  <2>. QED BY ONLY <2>1, <2>2, k \in 1..n, l \in Nat
<1>. HIDE DEF base, code
<1>5. WalkHolds(code, n, WalkLoop!Loop(code, base, n))
  BY <1>3, <1>4, WalkLoop!LoopInvariant
<1>6. WalkLoop!Loop(code, base, n) = Walked(l)
  BY <1>1, <1>2, <1>5 DEF WalkHolds
<1>7. Starts(code) = WalkLoop!Loop(code, base, n).starts
  BY <1>2, StartsIs, Zenon DEF code, base
<1>8. Walked(l).starts = [m \in 1..l |-> StartOf(m)]
  BY Zenon DEF Walked
<1>. QED BY <1>1, <1>6, <1>7, <1>8, Zenon DEF code

\* The first instruction of an input starts the code, and the walk meets the others.
LEMMA WalksInstructionsHolds ==
    ASSUME mode = "code" => in \in Seq(Instructions)
    PROVE  WalksInstructions
<1>. SUFFICES ASSUME mode = "code" PROVE Starts(Concat(in)) = [n \in DOMAIN in |-> StartOf(n)]
  BY Zenon DEF WalksInstructions
<1>1. DOMAIN in = 1..Len(in)
  BY LenProperties
<1>. QED BY <1>1, StartsAre, Zenon

\* A set of numbers that has an element has a least one.
LEMMA LeastIs ==
    ASSUME NEW W \in SUBSET Nat, NEW w \in W
    PROVE  \E m \in W : \A y \in W : m <= y
<1>. SUFFICES ASSUME \A m \in W : \E y \in W : ~(m <= y) PROVE FALSE
  OBVIOUS
<1>. DEFINE S == {k \in Nat : \A y \in 0..k : y \notin W}
<1>1. 0 \in S
  <2>. SUFFICES ASSUME NEW m \in 0..0, m \in W PROVE FALSE
    OBVIOUS
  <2>1. PICK y \in W : ~(m <= y)
    OBVIOUS
  <2>. QED BY <2>1
<1>2. ASSUME NEW k \in Nat, k \in S PROVE k + 1 \in S
  <2>. SUFFICES ASSUME NEW m \in 0..(k + 1), m \in W PROVE FALSE
    OBVIOUS
  <2>1. PICK y \in W : ~(m <= y)
    OBVIOUS
  <2>2. y \in Nat /\ y \in 0..k
    BY <2>1
  <2>. QED BY <1>2, <2>2
<1>. HIDE DEF S
<1>3. w \in S
  BY <1>1, <1>2, JoinLoop!NatSet
<1>4. w \in 0..w
  OBVIOUS
<1>. QED BY <1>3, <1>4 DEF S

\* The first number that is wanted among those up to l, or l + 1.
FirstOf(l, W) == IF W = {} THEN l + 1 ELSE Min(W)

\* It is wanted, if one is, and none before it is wanted.
LEMMA FirstIs ==
    ASSUME NEW l \in Nat, NEW W \in SUBSET (1..l)
    PROVE  /\ FirstOf(l, W) \in 1..(l + 1) /\ \A j \in 1..(FirstOf(l, W) - 1) : j \notin W
           /\ W # {} => FirstOf(l, W) \in W
<1>1. CASE W = {}
  BY <1>1 DEF FirstOf
<1>2. CASE W # {}
  <2>1. PICK m \in W : \A y \in W : m <= y
    <3>1. W \subseteq Nat
      OBVIOUS
    <3>. QED BY <1>2, <3>1, LeastIs
  <2>. DEFINE P(x) == x \in W /\ \A y \in W : x <= y
  <2>2. Min(W) = CHOOSE x \in W : \A y \in W : x <= y
    BY Zenon DEF Min
  <2>3. Min(W) \in W /\ \A y \in W : Min(W) <= y
    BY <2>1, <2>2
  <2>. HIDE DEF P
  <2>4. PICK r \in 1..l : r = Min(W)
    BY <2>3
  <2>5. \A j \in 1..(r - 1) : j \notin W
    <3>1. \A j \in 1..(r - 1) : ~(r <= j)
      OBVIOUS
    <3>. QED BY <2>3, <2>4, <3>1
  <2>6. r \in 1..(l + 1)
    OBVIOUS
  <2>7. FirstOf(l, W) = r
    BY <1>2, <2>4, Zenon DEF FirstOf
  <2>. QED BY <2>3, <2>4, <2>5, <2>6, <2>7, Zenon
<1>. QED BY <1>1, <1>2

\* What SizeOfCode and the opcode tell of the k-th instruction.
Seen(k) ==
    LET code == Concat(in)
    IN  /\ Measured(code, StartOf(k), in[k])
        /\ Byte(code, OpcodeAt(code, StartOf(k))) = in[k][PrefixCount(in[k]) + 1]
        /\ Byte(code, StartOf(k)) = in[k][1]
        /\ Len(in[k]) >= 2 => Byte(code, StartOf(k) + 1) = in[k][2]

\* That is seen at every instruction of the input.
LEMMA InstructionsSeen ==
    ASSUME in \in Seq(Instructions), NEW k \in 1..Len(in)
    PROVE  Seen(k)
<1>. DEFINE code == Concat(in)
            p == StartOf(k)
            b == in[k]
<1>1. Stands(code, p, b) /\ b \in Instructions /\ p \in Nat /\ code \in Seq(Nat)
  BY CodeStands, Zenon DEF CodeAt
<1>. HIDE DEF code, p, b
<1>2. Measured(code, p, b)
  BY <1>1, SizesOfInstructions, Zenon
<1>3. PICK w \in Nat : w = Len(b) /\ w >= 1
  <2>1. SomeBytes(b)
    BY <1>1, InstructionsAre, Zenon
  <2>. QED BY <2>1, Zenon DEF SomeBytes
<1>4. \A j \in 0..(w - 1) : Byte(code, p + j) = b[j + 1]
  BY <1>1, <1>3, Zenon DEF Stands
<1>5. PICK c \in 0..(w - 1) : c = PrefixCount(b)
  <2>1. b[1] \in PrefixBytes => w >= 2
    <3>1. SomeBytes(b)
      BY <1>1, InstructionsAre, Zenon
    <3>. QED BY <1>3, <3>1, Zenon DEF SomeBytes
  <2>2. PrefixCount(b) \in 0..(w - 1)
    BY ONLY <1>3, <2>1, w \in Nat DEF PrefixCount
  <2>. QED BY <2>2
<1>6. Byte(code, OpcodeAt(code, p)) = b[PrefixCount(b) + 1]
  <2>1. OpcodeAt(code, p) = p + c
    BY <1>2, <1>5, Zenon DEF Measured
  <2>. QED BY <1>4, <1>5, <2>1, Zenon
<1>7. Byte(code, p) = b[1]
  <2>1. 0 \in 0..(w - 1) /\ p + 0 = p /\ 0 + 1 = 1
    BY ONLY <1>1, <1>3, w \in Nat
  <2>. QED BY <1>4, <2>1
<1>8. w >= 2 => Byte(code, p + 1) = b[2]
  <2>1. w >= 2 => 1 \in 0..(w - 1) /\ 1 + 1 = 2
    BY ONLY w \in Nat
  <2>. QED BY <1>4, <2>1
<1>9. Len(b) >= 2 => Byte(code, p + 1) = b[2]
  BY <1>3, <1>8
<1>. QED BY <1>2, <1>6, <1>7, <1>9, Zenon DEF Seen, code, p, b

\* SizeOfProc finds the end of the first ret, or of the code.
LEMMA MeasuresProceduresHolds ==
    ASSUME mode = "code" => in \in Seq(Instructions)
    PROVE  MeasuresProcedures
<1>. DEFINE rets == {k \in DOMAIN in : in[k] \in {<<\hC3>>, <<\hC2, 4, 0>>}}
            end == IF rets = {} THEN Len(in) ELSE Min(rets)
<1>. SUFFICES ASSUME mode = "code" PROVE SizeOfProc(Concat(in)) = StartOf(1 + end) - 1
  BY Zenon DEF MeasuresProcedures
<1>1. PICK l \in Nat : l = Len(in) /\ DOMAIN in = 1..l
  BY LenProperties
<1>. DEFINE code == Concat(in)
            s == Starts(code)
            Ret(i) == <<SizeOfCode(code, s[i]), Byte(code, OpcodeAt(code, s[i]))>> \in {<<1, \hC3>>, <<3, \hC2>>}
            n == {i \in DOMAIN s : \A j \in 1..(i - 1) : ~Ret(j)}
            last == CHOOSE i \in n : \A j \in n : j <= i
<1>2. SizeOfProc(code) = IF n = {} THEN 0 ELSE s[last] + SizeOfCode(code, s[last]) - 1
  BY Zenon DEF SizeOfProc
<1>3. s = [k \in 1..l |-> StartOf(k)]
  BY <1>1, StartsAre, Zenon
<1>4. DOMAIN s = 1..l /\ \A k \in 1..l : s[k] = StartOf(k)
  BY <1>3
<1>. HIDE DEF s
<1>5. \A k \in 1..l : SizeOfCode(code, s[k]) = Len(in[k])
  BY <1>1, <1>4, InstructionsSeen, Zenon DEF Seen, Measured
<1>6. \A k \in 1..l : Ret(k) <=> k \in rets
  <2>. SUFFICES ASSUME NEW k \in 1..l PROVE Ret(k) <=> k \in rets
    BY Zenon
  <2>1. Byte(code, OpcodeAt(code, s[k])) = in[k][PrefixCount(in[k]) + 1]
    BY <1>1, <1>4, InstructionsSeen, Zenon DEF Seen
  <2>2. Ret(k) <=> Return(in[k])
    BY <1>5, <2>1, Zenon DEF Return
  <2>3. in[k] \in Instructions
    BY <1>1, ElementOfSeq
  <2>4. k \in rets <=> in[k] \in {<<\hC3>>, <<\hC2, 4, 0>>}
    BY <1>1
  <2>. HIDE DEF Ret, rets
  <2>. QED BY <2>2, <2>3, <2>4, ReturnsAre, Zenon
<1>. HIDE DEF Ret
<1>7. rets \in SUBSET (1..l)
  BY <1>1
<1>. HIDE DEF rets
<1>8. PICK f : f = FirstOf(l, rets) /\ f \in 1..(l + 1) /\ (\A j \in 1..(f - 1) : j \notin rets) /\ (rets # {} => f \in rets)
  BY <1>7, FirstIs, Zenon
<1>9. PICK e \in 0..l : e = end /\ e = IF rets = {} THEN l ELSE f
  <2>1. CASE rets = {}
    BY <1>1, <2>1
  <2>2. CASE rets # {}
    <3>1. end = f
      BY <1>8, <2>2, Zenon DEF FirstOf
    <3>2. f \in 0..l
      BY <1>7, <1>8, <2>2
    <3>. QED BY <2>2, <3>1, <3>2
  <2>. QED BY <2>1, <2>2
<1>. HIDE DEF end
<1>10. \A i \in n : i \in 1..e
  <2>. SUFFICES ASSUME NEW i \in n, ~(i <= e) PROVE FALSE
    <3>1. \A i \in n : i \in 1..l
      BY <1>4
    <3>. HIDE DEF n
    <3>. QED BY <3>1
  <2>1. i \in 1..l /\ \A j \in 1..(i - 1) : ~Ret(j)
    BY <1>4
  <2>. HIDE DEF n
  <2>2. rets # {} /\ e = f
    BY <1>9, <2>1
  <2>3. f \in rets /\ f \in 1..l /\ f \in 1..(i - 1)
    <3>1. f \in rets
      BY <1>8, <2>2
    <3>2. f \in 1..l
      BY <1>7, <3>1
    <3>. QED BY <2>1, <2>2, <3>1, <3>2
  <2>. QED BY <1>6, <2>1, <2>3, Zenon
<1>11. e > 0 => e \in n
  <2>. SUFFICES ASSUME e > 0 PROVE e \in n
    OBVIOUS
  <2>1. e \in 1..l
    OBVIOUS
  <2>2. ASSUME NEW j \in 1..(e - 1) PROVE ~Ret(j)
    <3>1. j \in 1..l
      BY <2>1
    <3>2. j \notin rets
      <4>1. CASE rets = {}
        BY <4>1
      <4>2. CASE rets # {}
        BY <1>8, <1>9, <4>2
      <4>. QED BY <4>1, <4>2
    <3>. QED BY <1>6, <3>1, <3>2, Zenon
  <2>. QED BY <1>4, <2>1, <2>2, Zenon
<1>. HIDE DEF n
<1>12. CASE e = 0
  <2>1. n = {}
    BY <1>10, <1>12
  <2>2. StartOf(1 + 0) - 1 = 0
    <3>1. StartOf(1) = 1
      BY CodeStands
    <3>. QED BY <3>1
  <2>. QED BY <1>2, <1>9, <1>12, <2>1, <2>2
<1>13. CASE e # 0
  <2>1. e \in n /\ e \in 1..l
    BY <1>11, <1>13
  <2>2. last = e
    <3>1. \A j \in n : j <= e
      BY <1>10
    <3>2. \A i \in n : (\A j \in n : j <= i) => i = e
      BY <1>10, <2>1
    <3>. QED BY <2>1, <3>1, <3>2
  <2>. HIDE DEF last
  <2>3. SizeOfProc(code) = StartOf(e) + Len(in[e]) - 1
    <3>1. n # {}
      BY <2>1
    <3>. QED BY <1>2, <1>4, <1>5, <2>1, <2>2, <3>1, Zenon
  <2>4. StartOf(e + 1) = StartOf(e) + Len(in[e])
    BY <1>1, <2>1, CodeStands, Zenon DEF CodeAt
  <2>5. 1 + e = e + 1
    BY ONLY e \in 0..l, l \in Nat
  <2>6. StartOf(1 + end) = StartOf(e) + Len(in[e])
    BY <1>9, <2>4, <2>5, Zenon
  <2>7. PICK p \in Nat, w \in Nat : p = StartOf(e) /\ w = Len(in[e])
    <3>1. CodeAt(e)
      BY <1>1, <2>1, CodeStands, Zenon
    <3>2. StartOf(e) \in Nat /\ SomeBytes(in[e])
      BY <3>1, InstructionsAre, Zenon DEF CodeAt
    <3>. QED BY <3>2, Zenon DEF SomeBytes
  <2>8. p + (w - 1) = (p + w) - 1
    BY ONLY p \in Nat, w \in Nat
  <2>. QED BY <2>3, <2>6, <2>7, <2>8, Zenon
<1>. QED BY <1>12, <1>13

\* LocateSSDTShadowBase finds the first lea that is an instruction and starts in the page.
Leas(page) == {n \in DOMAIN in : in[n][1] = \h8D /\ StartOf(n) <= page}

LeaFound(page) == LocateSSDTShadowBase(Concat(in), page) = IF Leas(page) = {} THEN 0 ELSE StartOf(Min(Leas(page))) + 2

\* It does, for a page of any size: what looks like a lea inside an operand is passed over.
LEMMA FindsFirstLea ==
    ASSUME in \in Seq(Instructions), NEW page
    PROVE  LeaFound(page)
<1>1. PICK l \in Nat : l = Len(in) /\ DOMAIN in = 1..l
  BY LenProperties
<1>. DEFINE code == Concat(in)
            s == Starts(code)
            hits == {i \in DOMAIN s : s[i] <= page /\ Byte(code, s[i]) = \h8D /\ Byte(code, s[i] + 1) = \h88}
            leas == Leas(page)
<1>2. LocateSSDTShadowBase(code, page)
        = IF hits = {} THEN 0 ELSE OpcodeAt(code, s[CHOOSE i \in hits : \A j \in hits : i <= j]) + 2
  BY Zenon DEF LocateSSDTShadowBase
<1>3. s = [k \in 1..l |-> StartOf(k)]
  BY <1>1, StartsAre, Zenon
<1>4. DOMAIN s = 1..l /\ \A k \in 1..l : s[k] = StartOf(k)
  BY <1>3
<1>. HIDE DEF s
<1>5. \A k \in 1..l : /\ Byte(code, s[k]) = in[k][1]
                      /\ Len(in[k]) >= 2 => Byte(code, s[k] + 1) = in[k][2]
                      /\ OpcodeAt(code, s[k]) = StartOf(k) + PrefixCount(in[k])
                      /\ in[k] \in Instructions
  <2>1. \A k \in 1..l : in[k] \in Instructions
    BY <1>1, ElementOfSeq
  <2>. QED BY <1>1, <1>4, <2>1, InstructionsSeen, Zenon DEF Seen, Measured
<1>6. ASSUME NEW k \in 1..l, in[k][1] = \h8D
      PROVE  Byte(code, s[k] + 1) = \h88 /\ OpcodeAt(code, s[k]) = StartOf(k) + 0
  <2>1. Len(in[k]) >= 2 /\ in[k][2] = \h88 /\ PrefixCount(in[k]) = 0
    BY <1>5, <1>6, LeasAre
  <2>. HIDE DEF code
  <2>. QED BY <1>5, <2>1
<1>. HIDE DEF code
<1>7. hits = leas
  <2>. DEFINE A(i) == s[i] <= page /\ Byte(code, s[i]) = \h8D /\ Byte(code, s[i] + 1) = \h88
              B(i) == in[i][1] = \h8D /\ StartOf(i) <= page
  <2>1. ASSUME NEW i \in 1..l PROVE A(i) <=> B(i)
    <3>1. s[i] = StartOf(i) /\ Byte(code, s[i]) = in[i][1]
      BY <1>4, <1>5
    <3>2. in[i][1] = \h8D => Byte(code, s[i] + 1) = \h88
      BY <1>6
    <3>. QED BY ONLY <3>1, <3>2
  <2>. HIDE DEF A, B
  <2>2. {i \in DOMAIN s : A(i)} = {i \in DOMAIN in : B(i)}
    BY <1>1, <1>4, <2>1, Zenon
  <2>. QED BY <2>2, Zenon DEF A, B, Leas
<1>8. CASE leas = {}
  BY <1>2, <1>7, <1>8, Zenon DEF code, LeaFound
<1>9. CASE leas # {}
  <2>1. PICK m : m \in leas /\ \A y \in leas : m <= y
    <3>1. leas \in SUBSET Nat
      BY <1>1 DEF Leas
    <3>. HIDE DEF leas
    <3>. QED BY <1>9, <3>1, LeastIs
  <2>2. Min(leas) \in leas
    <3>. HIDE DEF leas
    <3>1. Min(leas) = CHOOSE x \in leas : \A y \in leas : x <= y
      BY Zenon DEF Min
    <3>. QED BY <2>1, <3>1
  <2>3. Min(leas) = CHOOSE i \in hits : \A j \in hits : i <= j
    <3>. HIDE DEF leas, hits
    <3>. QED BY <1>7, Zenon DEF Min
  <2>4. PICK f \in 1..l : f = Min(leas) /\ in[f][1] = \h8D
    <3>1. PICK f : f = Min(leas)
      OBVIOUS
    <3>2. f \in leas
      BY <2>2, <3>1, Zenon
    <3>3. f \in 1..l /\ in[f][1] = \h8D
      BY <1>1, <3>2 DEF Leas
    <3>. HIDE DEF leas
    <3>. QED BY <3>1, <3>3
  <2>. HIDE DEF leas, hits
  <2>5. LocateSSDTShadowBase(code, page) = OpcodeAt(code, s[f]) + 2
    BY <1>2, <1>7, <1>9, <2>3, <2>4, Zenon
  <2>6. OpcodeAt(code, s[f]) = StartOf(f) + 0
    BY <1>6, <2>4
  <2>7. StartOf(f) + 0 = StartOf(f)
    <3>1. StartOf(f) \in Nat
      BY <1>1, CodeStands, Zenon DEF CodeAt
    <3>. QED BY <3>1
  <2>8. LocateSSDTShadowBase(code, page) = StartOf(Min(leas)) + 2
    BY <2>4, <2>5, <2>6, <2>7, Zenon
  <2>. QED BY <1>9, <2>8, Zenon DEF leas, code, LeaFound
<1>. QED BY <1>8, <1>9

\* So for the two pages of the property.
LEMMA FindsLeaHolds ==
    ASSUME mode = "code" => in \in Seq(Instructions)
    PROVE  FindsLea
<1>1. mode = "code" => \A page : LeaFound(page)
  BY FindsFirstLea, Zenon
<1>2. mode = "code" => \A page \in {4, 4096} : LeaFound(page)
  BY <1>1, SMT
<1>. QED BY <1>2 DEF FindsLea, LeaFound, Leas

\* Code is a sequence of instructions.
CodeIsInstructions == mode = "code" => in \in Seq(Instructions)

\* Code grows by an instruction at a time, and a behaviour does not change its mode.
LEMMA InstructionsOnly == Spec => []CodeIsInstructions
<1>1. Init => CodeIsInstructions
  BY EmptySeq DEF Init, CodeIsInstructions
<1>2. CodeIsInstructions /\ [Extend]_vars => CodeIsInstructions'
  <2>. SUFFICES ASSUME CodeIsInstructions, [Extend]_vars, mode' = "code" PROVE in' \in Seq(Instructions)
    BY DEF CodeIsInstructions
  <2>1. CASE UNCHANGED vars
    BY <2>1 DEF vars, CodeIsInstructions
  <2>2. CASE Extend
    <3>1. PICK w \in Words : in' = Append(in, w)
      BY <2>2 DEF Extend
    <3>2. mode = "code"
      BY <2>2 DEF Extend
    <3>3. w \in Instructions /\ in \in Seq(Instructions)
      BY <3>1, <3>2, Zenon DEF Words, CodeIsInstructions
    <3>. QED BY ONLY <3>1, <3>3, AppendProperties
  <2>. QED BY <2>1, <2>2
<1>. QED BY <1>1, <1>2, PTL DEF Spec

\* zik walks code of any length from instruction to instruction, measures a procedure up to its first
\* ret, and does not take bytes of an operand for the instruction it looks for.
THEOREM CodeWalkedAlways == Spec => []CodeWalked
<1>1. CodeIsInstructions => CodeWalked
  BY WalksInstructionsHolds, MeasuresProceduresHolds, FindsLeaHolds DEF CodeWalked, CodeIsInstructions
<1>. QED BY <1>1, InstructionsOnly, PTL

-----------------------------------------------------------------------------
(* The table of an object *)

\* A key, as C sees it: bytes up to the NUL.
Names == Seq(1..255)

\* A byte goes into the hash.
HashTurn(c, h, b) == (h * 1313 + b - IF b > 127 THEN 256 ELSE 0) % HashMod

HashHolds(c, k, h) == h \in Nat

ByteLoop == INSTANCE LoopTheorems WITH op <- HashTurn, holds <- HashHolds

\* The comparison of keys sees the whole of a name.
LEMMA NamesAre ==
    ASSUME NEW key \in Names
    PROVE  CStr(key) = key
<1>1. ASSUME NEW i \in DOMAIN key PROVE key[i] # NUL
  <2>1. PICK S : S = 1..255
    OBVIOUS
  <2>2. key \in Seq(S)
    BY <2>1 DEF Names
  <2>3. key[i] \in S
    BY <2>2, ElementOfSeq, LenProperties
  <2>. QED BY <2>1, <2>3 DEF NUL
<1>2. {i \in DOMAIN key : key[i] = NUL} = {}
  BY <1>1, Zenon
<1>. QED BY <1>2, Zenon DEF CStr

\* A hash is a number.
LEMMA HashIs ==
    ASSUME NEW key \in Names
    PROVE  hash(key) \in Nat
<1>1. PICK n \in Nat : DOMAIN key = 1..n /\ \A i \in 1..n : key[i] \in 1..255
  <2>1. PICK S : S = 1..255
    OBVIOUS
  <2>2. key \in Seq(S)
    BY <2>1 DEF Names
  <2>3. PICK n \in Nat : n = Len(key) /\ DOMAIN key = 1..n
    BY <2>2, LenProperties
  <2>4. \A i \in 1..n : key[i] \in S
    BY <2>2, <2>3, ElementOfSeq
  <2>. QED BY <2>1, <2>3, <2>4, Zenon
<1>2. HashMod \in Nat /\ HashMod > 0
  BY HashModAssumption DEF HashModAssumption
<1>3. HashHolds(0, 0, 1313)
  BY DEF HashHolds
<1>4. ASSUME NEW k \in 1..n, NEW h, HashHolds(0, k - 1, h)
      PROVE  HashHolds(0, k, HashTurn(0, h, key[k]))
  <2>1. PICK b \in 1..255 : b = key[k]
    BY <1>1
  <2>2. h \in Nat
    BY <1>4 DEF HashHolds
  <2>3. PICK d \in Int : d = IF b > 127 THEN 256 ELSE 0
    OBVIOUS
  <2>4. \A a \in Nat, c \in 1..255, x \in Int : a * 1313 + c - x \in Int
    OBVIOUS
  <2>5. h * 1313 + b - d \in Int
    BY <2>2, <2>4
  <2>6. \A x \in Int : x % HashMod \in Nat
    BY <1>2
  <2>7. (h * 1313 + b - d) % HashMod \in Nat
    BY <2>5, <2>6
  <2>8. HashTurn(0, h, b) = (h * 1313 + b - d) % HashMod
    BY <2>3 DEF HashTurn
  <2>9. HashTurn(0, h, key[k]) = HashTurn(0, h, b)
    BY ONLY <2>1
  <2>. QED BY ONLY <2>7, <2>8, <2>9 DEF HashHolds
<1>5. HashHolds(0, n, ByteLoop!Fold(0, 1313, key))
  BY <1>1, <1>3, <1>4, ByteLoop!FoldInvariant
<1>6. hash(key) = ByteLoop!Fold(0, 1313, key)
  <2>1. CStr(key) = key
    BY NamesAre
  <2>. QED BY <2>1 DEF hash, ByteLoop!Fold, HashTurn, FoldLeft, ByteLoop!FoldLeft, MapThenFoldSet, ByteLoop!MapThenFoldSet, Max, ByteLoop!Max
<1>. QED BY <1>5, <1>6 DEF HashHolds

\* The slots of a table, and those that have an entry.
Slots(o) == 0..(o.cap - 1)

Used(o) == {j \in Slots(o) : o.entries[j] # Empty}

\* Probing for the key comes to slot j before it comes to an empty one.
Reaches(o, key, j) == \E i \in Slots(o) : Probe(o, key, i) = j /\ \A m \in 0..(i - 1) : Probe(o, key, m) \in Used(o)

\* The table o has the entries E, and every one of them where probing finds it.
TableOf(o, E) ==
    /\ o = [cap |-> o.cap, len |-> o.len, entries |-> o.entries]
    /\ o.cap \in Nat /\ DOMAIN o.entries = Slots(o)
    /\ o.entries = [j \in DOMAIN o.entries |-> o.entries[j]]
    /\ o.len = Cardinality(Used(o))
    /\ \A e \in E : e[1] \in Names /\ e # Empty
    /\ \A j \in Used(o) : o.entries[j] \in E /\ Reaches(o, o.entries[j][1], j)
    /\ \A e \in E : \E j \in Used(o) : o.entries[j] = e

\* The slots are finitely many, and some are empty while there is room.
LEMMA UsedIs ==
    ASSUME NEW o, NEW E, TableOf(o, E)
    PROVE  /\ IsFiniteSet(Used(o)) /\ o.len \in Nat /\ o.len <= o.cap
           /\ o.len < o.cap => \E j \in Slots(o) : o.entries[j] = Empty
           /\ o.len = o.cap => \A j \in Slots(o) : o.entries[j] # Empty
<1>1. o.cap \in Nat /\ o.len = Cardinality(Used(o))
  BY DEF TableOf
<1>2. IsFiniteSet(Slots(o)) /\ Cardinality(Slots(o)) = o.cap
  <2>1. 0 \in Int /\ o.cap - 1 \in Int
    BY <1>1
  <2>2. IsFiniteSet(0..(o.cap - 1)) /\ Cardinality(0..(o.cap - 1)) = IF 0 > o.cap - 1 THEN 0 ELSE (o.cap - 1) - 0 + 1
    BY <2>1, FS_Interval
  <2>. QED BY <1>1, <2>2 DEF Slots
<1>3. Used(o) \in SUBSET Slots(o)
  BY DEF Used
<1>4. IsFiniteSet(Used(o)) /\ Cardinality(Used(o)) <= o.cap /\ (o.cap = Cardinality(Used(o)) => Used(o) = Slots(o))
  BY <1>2, <1>3, FS_Subset
<1>5. Cardinality(Used(o)) \in Nat
  BY <1>4, FS_CardinalityType
<1>6. ASSUME o.len < o.cap PROVE \E j \in Slots(o) : o.entries[j] = Empty
  <2>1. Used(o) # Slots(o)
    BY <1>1, <1>2, <1>5, <1>6
  <2>. QED BY <1>3, <2>1, Zenon DEF Used
<1>7. ASSUME o.len = o.cap PROVE \A j \in Slots(o) : o.entries[j] # Empty
  BY <1>1, <1>4, <1>7, Zenon DEF Used
<1>. QED BY <1>1, <1>4, <1>5, <1>6, <1>7

\* The remainder of a number, which is below cap, and numbers that have it.
LEMMA Remainder ==
    ASSUME NEW h \in Nat, NEW c \in Nat, c > 0
    PROVE  /\ h % c \in 0..(c - 1)
           /\ \A j \in 0..(c - 1) : \E i \in 0..(c - 1) : (h + i) % c = j
<1>1. PICK q \in Int, r \in 0..(c - 1) : h = c * q + r
  <2>1. h = c * (h \div c) + (h % c) /\ h \div c \in Int /\ h % c \in 0..(c - 1)
    OBVIOUS
  <2>. QED BY <2>1
<1>2. h % c \in 0..(c - 1)
  OBVIOUS
<1>3. ASSUME NEW j \in 0..(c - 1) PROVE \E i \in 0..(c - 1) : (h + i) % c = j
  <2>1. ASSUME NEW p \in Int PROVE (c * p + j) % c = j
    OBVIOUS
  <2>2. CASE j >= r
    <3>1. j - r \in 0..(c - 1) /\ h + (j - r) = c * q + j
      BY <1>1, <2>2
    <3>. QED BY <2>1, <3>1
  <2>3. CASE j < r
    <3>1. j - r + c \in 0..(c - 1) /\ h + (j - r + c) = c * (q + 1) + j /\ q + 1 \in Int
      BY <1>1, <2>3
    <3>. QED BY <2>1, <3>1
  <2>. QED BY <1>1, <2>2, <2>3
<1>. QED BY <1>2, <1>3

\* Probing stays in the table and comes to every slot.
LEMMA ProbesAll ==
    ASSUME NEW o, NEW E, TableOf(o, E), NEW key \in Names
    PROVE  /\ \A i \in Slots(o) : Probe(o, key, i) \in Slots(o)
           /\ \A j \in Slots(o) : \E i \in Slots(o) : Probe(o, key, i) = j
<1>1. CASE o.cap = 0
  BY <1>1 DEF Slots
<1>2. CASE o.cap # 0
  <2>1. PICK c \in Nat : c = o.cap /\ c > 0
    BY <1>2 DEF TableOf
  <2>2. PICK h \in Nat : h = hash(key)
    BY HashIs
  <2>3. \A i \in 0..(c - 1) : (h + i) % c \in 0..(c - 1)
    <3>1. \A i \in 0..(c - 1) : h + i \in Nat
      OBVIOUS
    <3>. QED BY <2>1, <3>1, Remainder
  <2>4. \A j \in 0..(c - 1) : \E i \in 0..(c - 1) : (h + i) % c = j
    BY <2>1, Remainder
  <2>. QED BY <2>1, <2>2, <2>3, <2>4, Zenon DEF Slots, Probe
<1>. QED BY <1>1, <1>2

\* The first probed slot that is wanted, when one is wanted.
LEMMA FirstProbed ==
    ASSUME NEW hits, NEW n, hits \subseteq 0..(n - 1), NEW i \in hits
    PROVE  /\ Min(hits) \in hits /\ Min(hits) <= i
           /\ \A m \in 0..(Min(hits) - 1) : m \notin hits
<1>1. hits \subseteq Nat
  OBVIOUS
<1>2. PICK w \in hits : \A y \in hits : w <= y
  BY <1>1, LeastIs
<1>3. Min(hits) = CHOOSE x \in hits : \A y \in hits : x <= y
  BY Zenon DEF Min
<1>4. Min(hits) \in hits /\ \A y \in hits : Min(hits) <= y
  BY <1>2, <1>3
<1>5. PICK r \in Nat : r = Min(hits) /\ r \in hits /\ \A y \in hits : r <= y
  BY <1>1, <1>4
<1>6. \A m \in 0..(r - 1) : m \notin hits
  BY <1>5
<1>. QED BY <1>4, <1>5, <1>6

\* An entry is stored in an empty slot that probing reaches.
LEMMA SlotIs ==
    ASSUME NEW o, NEW E, TableOf(o, E), o.len < o.cap, NEW key \in Names
    PROVE  LET s == object_slot(o, key)
           IN  s \in Slots(o) /\ o.entries[s] = Empty /\ Reaches(o, key, s)
<1>. DEFINE hits == {i \in 0..(o.cap - 1) : o.entries[Probe(o, key, i)] = Empty}
<1>1. PICK j \in Slots(o) : o.entries[j] = Empty
  BY UsedIs
<1>2. PICK i \in Slots(o) : Probe(o, key, i) = j
  BY ProbesAll
<1>3. i \in hits
  BY <1>1, <1>2, Zenon DEF Slots
<1>4. /\ Min(hits) \in hits
      /\ \A m \in 0..(Min(hits) - 1) : m \notin hits
  <2>1. hits \subseteq 0..(o.cap - 1)
    OBVIOUS
  <2>. HIDE DEF hits
  <2>. QED BY <1>3, <2>1, FirstProbed
<1>5. object_slot(o, key) = Probe(o, key, Min(hits))
  <2>1. object_slot(o, key) = IF hits = {} THEN o.cap ELSE Probe(o, key, Min(hits))
    BY DEF object_slot, FirstProbe
  <2>. HIDE DEF hits
  <2>. QED BY <1>3, <2>1, Zenon
<1>6. PICK f \in Slots(o) : f = Min(hits) /\ o.entries[Probe(o, key, f)] = Empty
  BY <1>4, Zenon DEF Slots
<1>7. Probe(o, key, f) \in Slots(o)
  BY <1>6, ProbesAll
<1>8. ASSUME NEW m \in 0..(f - 1) PROVE Probe(o, key, m) \in Used(o)
  <2>1. m \notin hits
    BY <1>4, <1>6, Zenon
  <2>2. m \in Slots(o)
    <3>1. PICK c \in Nat : c = o.cap
      BY DEF TableOf
    <3>2. f \in 0..(c - 1)
      BY <1>6, <3>1, Zenon DEF Slots
    <3>3. m \in 0..(c - 1)
      BY <3>2
    <3>. QED BY <3>1, <3>3, Zenon DEF Slots
  <2>3. o.entries[Probe(o, key, m)] # Empty
    BY <2>1, <2>2, Zenon DEF Slots
  <2>4. Probe(o, key, m) \in Slots(o)
    BY <2>2, ProbesAll
  <2>. QED BY <2>3, <2>4, Zenon DEF Used
<1>. HIDE DEF hits
<1>9. Reaches(o, key, Probe(o, key, f))
  BY <1>6, <1>8, Zenon DEF Reaches
<1>. QED BY <1>5, <1>6, <1>7, <1>9, Zenon

\* What Store makes of a table.
LEMMA StoreIs ==
    ASSUME NEW o, NEW E, TableOf(o, E), NEW e
    PROVE  LET s == object_slot(o, e[1])
           IN  Store(o, e) = [cap |-> o.cap, len |-> o.len + 1,
                              entries |-> [j \in Slots(o) |-> IF j = s THEN e ELSE o.entries[j]]]
<1>. DEFINE s == object_slot(o, e[1])
            f == o.entries
<1>1. o = [cap |-> o.cap, len |-> o.len, entries |-> f] /\ f = [j \in Slots(o) |-> f[j]]
  BY DEF TableOf
<1>2. [f EXCEPT ![s] = e] = [j \in Slots(o) |-> IF j = s THEN e ELSE f[j]]
  <2>1. DOMAIN f = Slots(o)
    BY DEF TableOf
  <2>2. PICK g : g = f
    OBVIOUS
  <2>3. PICK t : t = s
    OBVIOUS
  <2>. HIDE DEF s, f
  <2>4. [g EXCEPT ![t] = e] = [j \in DOMAIN g |-> IF j = t THEN e ELSE g[j]]
    OBVIOUS
  <2>. QED BY <2>1, <2>2, <2>3, <2>4, Zenon
<1>3. ASSUME NEW c, NEW l, NEW g, NEW t
      PROVE  [[cap |-> c, len |-> l, entries |-> g] EXCEPT !.entries[t] = e, !.len = @ + 1]
                = [cap |-> c, len |-> l + 1, entries |-> [g EXCEPT ![t] = e]]
  <2>. DEFINE r == [cap |-> c, len |-> l, entries |-> g]
  <2>1. PICK u : u = [g EXCEPT ![t] = e]
    OBVIOUS
  <2>2. [r EXCEPT !.entries = u] = [cap |-> c, len |-> l, entries |-> u]
    OBVIOUS
  <2>3. [[cap |-> c, len |-> l, entries |-> u] EXCEPT !.len = l + 1] = [cap |-> c, len |-> l + 1, entries |-> u]
    OBVIOUS
  <2>4. r.entries = g /\ r.len = l
    OBVIOUS
  <2>. HIDE DEF r
  <2>5. [[r EXCEPT !.entries = [r.entries EXCEPT ![t] = e]] EXCEPT !.len = r.len + 1]
           = [cap |-> c, len |-> l + 1, entries |-> [g EXCEPT ![t] = e]]
    BY <2>1, <2>2, <2>3, <2>4, Zenon
  <2>. QED BY <2>5 DEF r
<1>4. Store(o, e) = [o EXCEPT !.entries[s] = e, !.len = @ + 1]
  BY DEF Store
<1>. HIDE DEF s, f
<1>5. Store(o, e) = [cap |-> o.cap, len |-> o.len + 1, entries |-> [f EXCEPT ![s] = e]]
  <2>1. PICK c, l, g, t : c = o.cap /\ l = o.len /\ g = f /\ t = s
    OBVIOUS
  <2>2. o = [cap |-> c, len |-> l, entries |-> g]
    BY <1>1, <2>1, Zenon
  <2>3. Store(o, e) = [o EXCEPT !.entries[t] = e, !.len = @ + 1]
    BY <1>4, <2>1, Zenon
  <2>4. Store(o, e) = [[cap |-> c, len |-> l, entries |-> g] EXCEPT !.entries[t] = e, !.len = @ + 1]
    BY ONLY <2>2, <2>3
  <2>5. Store(o, e) = [cap |-> c, len |-> l + 1, entries |-> [g EXCEPT ![t] = e]]
    BY <1>3, <2>4, Zenon
  <2>. QED BY <2>1, <2>5, Zenon
<1>6. Store(o, e) = [cap |-> o.cap, len |-> o.len + 1, entries |-> [j \in Slots(o) |-> IF j = s THEN e ELSE f[j]]]
  BY <1>2, <1>5, Zenon
<1>. QED BY <1>6 DEF s, f

\* One more entry in a table that has room for it.
LEMMA StoreKeeps ==
    ASSUME NEW o, NEW E, TableOf(o, E), o.len < o.cap, NEW e, e[1] \in Names, e # Empty
    PROVE  TableOf(Store(o, e), E \cup {e}) /\ Store(o, e).cap = o.cap /\ Store(o, e).len = o.len + 1
<1>. DEFINE key == e[1]
<1>1. PICK s \in Slots(o) : s = object_slot(o, key) /\ o.entries[s] = Empty /\ Reaches(o, key, s)
  BY SlotIs
<1>2. PICK t : t = Store(o, e)
  OBVIOUS
<1>3. t = [cap |-> o.cap, len |-> o.len + 1, entries |-> [j \in Slots(o) |-> IF j = s THEN e ELSE o.entries[j]]]
  BY <1>1, <1>2, StoreIs, Zenon
<1>. HIDE DEF key
<1>4. t.cap = o.cap /\ t.len = o.len + 1 /\ t.entries = [j \in Slots(o) |-> IF j = s THEN e ELSE o.entries[j]]
  BY <1>3
<1>5. /\ Slots(t) = Slots(o) /\ \A k, i : Probe(t, k, i) = Probe(o, k, i)
      /\ DOMAIN t.entries = Slots(o) /\ t.entries[s] = e
      /\ \A j \in Slots(o) : j # s => t.entries[j] = o.entries[j]
  BY <1>4, Zenon DEF Slots, Probe
<1>6. Used(t) = Used(o) \cup {s}
  BY <1>5, Zenon DEF Used
<1>7. \A k, j : Reaches(o, k, j) => Reaches(t, k, j)
  BY <1>5, <1>6, Zenon DEF Reaches
<1>8. s \notin Used(o)
  BY <1>1, Zenon DEF Used
<1>9. t.len = Cardinality(Used(t))
  <2>1. IsFiniteSet(Used(o)) /\ o.len = Cardinality(Used(o))
    BY UsedIs DEF TableOf
  <2>. QED BY <1>4, <1>6, <1>8, <2>1, FS_AddElement
<1>10. t = [cap |-> t.cap, len |-> t.len, entries |-> t.entries] /\ t.cap \in Nat
  BY <1>3, <1>4, Zenon DEF TableOf
<1>11. t.entries = [j \in DOMAIN t.entries |-> t.entries[j]]
  BY <1>4, <1>5
<1>12. \A x \in E \cup {e} : x[1] \in Names /\ x # Empty
  BY Zenon DEF TableOf
<1>13. ASSUME NEW j \in Used(t) PROVE t.entries[j] \in E \cup {e} /\ Reaches(t, t.entries[j][1], j)
  <2>1. CASE j = s
    BY <1>1, <1>5, <1>7, <2>1, Zenon DEF key
  <2>2. CASE j # s
    <3>1. j \in Used(o)
      BY <1>6, <2>2, Zenon
    <3>2. j \in Slots(o)
      BY <3>1, Zenon DEF Used
    <3>3. o.entries[j] \in E /\ Reaches(o, o.entries[j][1], j)
      BY <3>1, Zenon DEF TableOf
    <3>. QED BY <1>5, <1>7, <2>2, <3>2, <3>3, Zenon
  <2>. QED BY <2>1, <2>2
<1>14. ASSUME NEW x \in E \cup {e} PROVE \E j \in Used(t) : t.entries[j] = x
  <2>1. CASE x = e
    BY <1>5, <1>6, <2>1, Zenon
  <2>2. CASE x \in E
    <3>1. PICK j \in Used(o) : o.entries[j] = x
      BY <2>2, Zenon DEF TableOf
    <3>2. j \in Slots(o) /\ j # s
      BY <1>8, <3>1, Zenon DEF Used
    <3>. QED BY <1>5, <1>6, <3>1, <3>2, Zenon
  <2>. QED BY <2>1, <2>2
<1>15. TableOf(t, E \cup {e})
  BY <1>5, <1>9, <1>10, <1>11, <1>12, <1>13, <1>14, Zenon DEF TableOf
<1>. QED BY <1>2, <1>4, <1>15, Zenon

\* A new table is empty.
LEMMA NewIs ==
    ASSUME NEW c \in Nat
    PROVE  TableOf(NewObject(c), {}) /\ NewObject(c).cap = c /\ NewObject(c).len = 0
<1>1. PICK t : t = NewObject(c)
  OBVIOUS
<1>2. t = [cap |-> c, len |-> 0, entries |-> [i \in 0..(c - 1) |-> Empty]]
  BY <1>1, Zenon DEF NewObject
<1>3. t.cap = c /\ t.len = 0 /\ t.entries = [i \in 0..(c - 1) |-> Empty]
  BY <1>2
<1>4. Slots(t) = 0..(c - 1)
  BY <1>3, Zenon DEF Slots
<1>5. DOMAIN t.entries = Slots(t) /\ \A j \in Slots(t) : t.entries[j] = Empty
  BY <1>3, <1>4, Zenon
<1>6. Used(t) = {}
  BY <1>5, Zenon DEF Used
<1>7. t = [cap |-> t.cap, len |-> t.len, entries |-> t.entries]
  BY <1>2, <1>3, Zenon
<1>8. t.entries = [j \in DOMAIN t.entries |-> t.entries[j]]
  BY <1>3
<1>9. TableOf(t, {})
  BY <1>3, <1>5, <1>6, <1>7, <1>8, FS_EmptySet, Zenon DEF TableOf
<1>. QED BY <1>1, <1>3, <1>9, Zenon

\* The object without a table has no entry.
LEMMA NoObjectIs == TableOf(NoObject, {}) /\ NoObject.len = 0
<1>1. PICK t : t = NoObject
  OBVIOUS
<1>2. t = [cap |-> 0, len |-> 0, entries |-> <<>>]
  BY <1>1, Zenon DEF NoObject
<1>3. t.cap = 0 /\ t.len = 0 /\ t.entries = <<>>
  BY <1>2
<1>4. Slots(t) = {}
  BY <1>3 DEF Slots
<1>5. DOMAIN t.entries = {} /\ t.entries = [j \in DOMAIN t.entries |-> t.entries[j]]
  BY <1>3
<1>6. Used(t) = {}
  BY <1>4, Zenon DEF Used
<1>7. t = [cap |-> t.cap, len |-> t.len, entries |-> t.entries] /\ t.cap \in Nat
  BY <1>2, <1>3
<1>8. TableOf(t, {})
  BY <1>3, <1>4, <1>5, <1>6, <1>7, FS_EmptySet, Zenon DEF TableOf
<1>. QED BY <1>1, <1>3, <1>8, Zenon

\* Every table has entries of its own.
LEMMA NothingIn ==
    ASSUME NEW E, TableOf(NoObject, E)
    PROVE  E = {}
<1>1. NoObject.cap = 0
  BY DEF NoObject
<1>2. Slots(NoObject) = {}
  BY <1>1 DEF Slots
<1>. QED BY <1>2, Zenon DEF TableOf, Used

-----------------------------------------------------------------------------
(* Growing *)

\* A turn of the loop that copies the old entries.
StoreTurn(c, o, e) == IF e = Empty THEN o ELSE Store(o, e)

\* The first k entries of c.old are in the new table of c.cap slots.
Rehashed(c, k, o) == TableOf(o, {c.old[i] : i \in 1..k}) /\ o.cap = c.cap /\ o.len = k

GrowLoop == INSTANCE LoopTheorems WITH op <- StoreTurn, holds <- Rehashed

\* What object_grow makes of the entries in old.
Refilled(c, old) == FoldLeft(LAMBDA to, e : IF e = Empty THEN to ELSE Store(to, e), NewObject(c), old)

\* A table of c slots that gets the entries of old has all of them.
LEMMA Rehash ==
    ASSUME NEW n \in Nat, NEW c \in Nat, n <= c, NEW old, DOMAIN old = 1..n,
           \A i \in 1..n : old[i][1] \in Names /\ old[i] # Empty
    PROVE  /\ TableOf(Refilled(c, old), {old[i] : i \in 1..n})
           /\ Refilled(c, old).cap = c /\ Refilled(c, old).len = n
<1>1. PICK x : x = [cap |-> c, old |-> old]
  OBVIOUS
<1>2. x.cap = c /\ x.old = old
  BY <1>1
<1>3. Rehashed(x, 0, NewObject(c))
  <2>1. {x.old[i] : i \in 1..0} = {}
    OBVIOUS
  <2>. QED BY <1>2, <2>1, NewIs, Zenon DEF Rehashed
<1>4. ASSUME NEW k \in 1..n, NEW o, Rehashed(x, k - 1, o)
      PROVE  Rehashed(x, k, StoreTurn(x, o, old[k]))
  <2>1. TableOf(o, {old[i] : i \in 1..(k - 1)}) /\ o.cap = c /\ o.len = k - 1
    BY <1>2, <1>4, Zenon DEF Rehashed
  <2>2. o.len < o.cap /\ o.len + 1 = k
    BY <2>1
  <2>3. old[k][1] \in Names /\ old[k] # Empty
    OBVIOUS
  <2>4. StoreTurn(x, o, old[k]) = Store(o, old[k])
    BY <2>3, Zenon DEF StoreTurn
  <2>5. 1..k = 1..(k - 1) \cup {k}
    OBVIOUS
  <2>6. {old[i] : i \in 1..k} = {old[i] : i \in 1..(k - 1)} \cup {old[k]}
    BY <2>5, Zenon
  <2>7. PICK E : E = {old[i] : i \in 1..(k - 1)}
    OBVIOUS
  <2>8. TableOf(Store(o, old[k]), E \cup {old[k]}) /\ Store(o, old[k]).cap = c /\ Store(o, old[k]).len = k
    BY <2>1, <2>2, <2>3, <2>7, StoreKeeps, Zenon
  <2>9. {x.old[i] : i \in 1..k} = E \cup {old[k]}
    BY <1>2, <2>6, <2>7, Zenon
  <2>. QED BY <1>2, <2>4, <2>8, <2>9, Zenon DEF Rehashed
<1>5. Rehashed(x, n, GrowLoop!Fold(x, NewObject(c), old))
  BY <1>3, <1>4, GrowLoop!FoldInvariant
<1>6. GrowLoop!Fold(x, NewObject(c), old) = Refilled(c, old)
  BY DEF Refilled, GrowLoop!Fold, StoreTurn, FoldLeft, GrowLoop!FoldLeft, MapThenFoldSet, GrowLoop!MapThenFoldSet, Max, GrowLoop!Max
<1>. QED BY <1>2, <1>5, <1>6, Zenon DEF Rehashed

\* A power of two.
Power(k) == 2^k \in Nat

\* min_bucket finds a power of two that is large enough, up to the largest one.
LEMMA BucketIs ==
    ASSUME NEW n \in Nat, n <= 2^30
    PROVE  min_bucket(n) \in Nat /\ n <= min_bucket(n)
<1>. DEFINE buckets == {2^k : k \in 0..30} \ (0..(n - 1))
<1>1. \A k \in 0..30 : Power(k)
  <2>1. /\ Power(0) /\ Power(1) /\ Power(2) /\ Power(3) /\ Power(4) /\ Power(5) /\ Power(6)
        /\ Power(7) /\ Power(8) /\ Power(9) /\ Power(10) /\ Power(11) /\ Power(12) /\ Power(13)
        /\ Power(14) /\ Power(15) /\ Power(16) /\ Power(17) /\ Power(18) /\ Power(19)
    BY DEF Power
  <2>2. /\ Power(20) /\ Power(21) /\ Power(22) /\ Power(23) /\ Power(24) /\ Power(25) /\ Power(26)
        /\ Power(27) /\ Power(28) /\ Power(29) /\ Power(30)
    BY DEF Power
  <2>. QED BY <2>1, <2>2
<1>2. buckets \subseteq Nat
  BY <1>1, Zenon DEF Power
<1>3. 2^30 \in buckets
  <2>1. 30 \in 0..30
    OBVIOUS
  <2>2. PICK p \in Nat : p = 2^30
    BY <1>1, <2>1, Zenon DEF Power
  <2>3. p \notin 0..(n - 1)
    BY <2>2
  <2>. QED BY <2>1, <2>2, <2>3, Zenon
<1>4. \A b \in buckets : b \notin 0..(n - 1)
  BY Zenon
<1>. HIDE DEF buckets
<1>5. PICK w \in buckets : \A y \in buckets : w <= y
  BY <1>2, <1>3, LeastIs
<1>6. Min(buckets) = CHOOSE x \in buckets : \A y \in buckets : x <= y
  BY Zenon DEF Min
<1>7. Min(buckets) \in buckets
  BY <1>5, <1>6
<1>8. PICK r \in Nat : r = Min(buckets) /\ r \notin 0..(n - 1)
  BY <1>2, <1>4, <1>7, Zenon
<1>9. n <= r
  BY <1>8
<1>. QED BY <1>8, <1>9, Zenon DEF min_bucket, buckets

\* The old table is copied when it is full, so that the loop to its len sees every slot; then there is room.
LEMMA GrowKeeps ==
    ASSUME NEW o, NEW E, TableOf(o, E), o.len = o.cap, o.len < 2^30
    PROVE  TableOf(object_grow(o), E) /\ object_grow(o).len = o.len /\ o.len < object_grow(o).cap
<1>1. PICK n \in Nat : n = o.len /\ n = o.cap
  BY UsedIs
<1>2. CASE o = NoObject
  <2>1. object_grow(o) = NewObject(1)
    BY <1>2, Zenon DEF object_grow
  <2>2. E = {} /\ o.len = 0
    BY <1>2, NothingIn, NoObjectIs, Zenon
  <2>3. TableOf(NewObject(1), {}) /\ NewObject(1).cap = 1 /\ NewObject(1).len = 0
    BY NewIs
  <2>. QED BY <2>1, <2>2, <2>3
<1>3. CASE o # NoObject
  <2>1. PICK c \in Nat : c = min_bucket(n + 1) /\ n < c
    <3>1. n + 1 \in Nat /\ n + 1 <= 2^30
      BY <1>1
    <3>2. min_bucket(n + 1) \in Nat /\ n + 1 <= min_bucket(n + 1)
      BY <3>1, BucketIs
    <3>. QED BY <3>2
  <2>2. PICK old : old = [i \in 1..n |-> o.entries[i - 1]]
    OBVIOUS
  <2>3. DOMAIN old = 1..n /\ \A i \in 1..n : old[i] = o.entries[i - 1]
    BY <2>2
  <2>4. ~(n >= c)
    BY <2>1
  <2>5. object_grow(o) = Refilled(c, old)
    BY <1>1, <1>3, <2>1, <2>2, <2>4, Zenon DEF object_grow, Refilled
  <2>6. \A i \in 1..n : i - 1 \in Slots(o)
    BY <1>1 DEF Slots
  <2>7. \A j \in Slots(o) : o.entries[j] # Empty
    BY UsedIs
  <2>8. \A i \in 1..n : old[i] # Empty /\ old[i] \in E
    BY <2>3, <2>6, <2>7, Zenon DEF TableOf, Used
  <2>9. \A i \in 1..n : old[i][1] \in Names
    BY <2>8, Zenon DEF TableOf
  <2>10. ASSUME NEW e \in E PROVE \E i \in 1..n : old[i] = e
    <3>1. PICK j \in Slots(o) : o.entries[j] = e
      BY Zenon DEF TableOf, Used
    <3>2. PICK i \in 1..n : i - 1 = j
      <4>1. j + 1 \in 1..n /\ (j + 1) - 1 = j
        BY <1>1, <3>1 DEF Slots
      <4>. QED BY <4>1
    <3>. QED BY <2>3, <3>1, <3>2, Zenon
  <2>11. {old[i] : i \in 1..n} = E
    BY <2>8, <2>10, Zenon
  <2>12. n <= c
    BY <2>1
  <2>13. TableOf(object_grow(o), {old[i] : i \in 1..n}) /\ object_grow(o).cap = c /\ object_grow(o).len = n
    <3>1. \A i \in 1..n : old[i][1] \in Names /\ old[i] # Empty
      BY <2>8, <2>9, Zenon
    <3>2. DOMAIN old = 1..n
      BY <2>3
    <3>3. /\ TableOf(Refilled(c, old), {old[i] : i \in 1..n})
          /\ Refilled(c, old).cap = c /\ Refilled(c, old).len = n
      BY ONLY n \in Nat, c \in Nat, <2>12, <3>1, <3>2, Rehash
    <3>. QED BY <2>5, <3>3, Zenon
  <2>. QED BY <1>1, <2>1, <2>11, <2>13, Zenon
<1>. QED BY <1>2, <1>3

\* An insertion adds its entry and keeps the others.
LEMMA InsertKeeps ==
    ASSUME NEW o, NEW E, TableOf(o, E), o.len < 2^30, NEW e, e[1] \in Names, e # Empty
    PROVE  TableOf(Insert(o, e), E \cup {e}) /\ Insert(o, e).len = o.len + 1
<1>1. PICK p : p = IF o.len = o.cap THEN object_grow(o) ELSE o
  OBVIOUS
<1>2. TableOf(p, E) /\ p.len = o.len /\ p.len < p.cap
  <2>1. CASE o.len = o.cap
    BY <1>1, <2>1, GrowKeeps, Zenon
  <2>2. CASE o.len # o.cap
    <3>1. o.len \in Nat /\ o.len <= o.cap /\ o.cap \in Nat
      BY UsedIs DEF TableOf
    <3>2. o.len < o.cap
      BY <2>2, <3>1
    <3>. QED BY <1>1, <2>2, <3>2, Zenon
  <2>. QED BY <2>1, <2>2
<1>3. Insert(o, e) = Store(p, e)
  BY <1>1, Zenon DEF Insert
<1>4. TableOf(Store(p, e), E \cup {e}) /\ Store(p, e).len = p.len + 1
  BY <1>2, StoreKeeps
<1>. QED BY <1>2, <1>3, <1>4, Zenon

-----------------------------------------------------------------------------
(* Finding *)

\* What was inserted for the key.
Inserted(E, key) == {e[2] : e \in {x \in E : x[1] = key}}

\* A key that was inserted is found with a value that it was inserted with, and no other one is found.
LEMMA GetIs ==
    ASSUME NEW o, NEW E, TableOf(o, E), NEW key \in Names
    PROVE  dotjson_object_get(o, key) \in IF Inserted(E, key) = {} THEN {None} ELSE Inserted(E, key)
<1>. DEFINE Stops(e) == e = Empty \/ CStr(e[1]) = CStr(key)
            hits == {i \in 0..(o.cap - 1) : Stops(o.entries[Probe(o, key, i)])}
            p == IF hits = {} THEN o.cap ELSE Probe(o, key, Min(hits))
<1>1. object_find(o, key) = IF p < o.cap /\ o.entries[p] = Empty THEN o.cap ELSE p
  BY DEF object_find, FirstProbe
<1>2. PICK c \in Nat : c = o.cap
  BY DEF TableOf
<1>3. ~(c < c)
  BY <1>2
<1>4. \A e \in E : e[1] \in Names /\ e # Empty /\ (Stops(e) <=> e[1] = key)
  BY NamesAre, Zenon DEF TableOf
<1>5. \A j \in Slots(o) : o.entries[j] # Empty => o.entries[j] \in E
  BY Zenon DEF TableOf, Used
<1>6. ASSUME NEW f, f = Min(hits), hits # {}
      PROVE  /\ p \in Slots(o) /\ p < o.cap /\ Stops(o.entries[p]) /\ p = Probe(o, key, f)
             /\ f \in hits /\ \A i \in hits : f <= i
  <2>1. PICK i \in hits : TRUE
    BY <1>6
  <2>2. hits \subseteq 0..(c - 1)
    BY <1>2
  <2>3. Min(hits) \in hits /\ \A y \in hits : Min(hits) <= y
    <3>. HIDE DEF hits
    <3>. QED BY <2>1, <2>2, FirstProbed
  <2>4. f \in hits
    BY <1>6, <2>3, Zenon
  <2>5. Stops(o.entries[Probe(o, key, f)]) /\ f \in Slots(o)
    BY <2>4, Zenon DEF Slots
  <2>6. Probe(o, key, f) \in Slots(o)
    BY <2>5, ProbesAll
  <2>7. \A j \in Slots(o) : j < o.cap
    BY <1>2 DEF Slots
  <2>8. p = Probe(o, key, f)
    BY <1>6, Zenon
  <2>. HIDE DEF p, hits, Stops
  <2>. QED BY <1>6, <2>3, <2>4, <2>5, <2>6, <2>7, <2>8, Zenon
<1>7. CASE Inserted(E, key) = {}
  <2>1. \A e \in E : e[1] # key
    BY <1>7, Zenon DEF Inserted
  <2>2. object_find(o, key) = o.cap
    <3>1. CASE hits = {}
      BY <1>1, <3>1, Zenon
    <3>2. CASE hits # {}
      <4>1. p \in Slots(o) /\ p < o.cap /\ Stops(o.entries[p])
        BY <1>6, <3>2, Zenon
      <4>. HIDE DEF p, hits
      <4>2. o.entries[p] = Empty
        BY <1>4, <1>5, <2>1, <4>1, Zenon
      <4>. QED BY <1>1, <4>1, <4>2, Zenon
    <3>. QED BY <3>1, <3>2
  <2>3. dotjson_object_get(o, key) = None
    BY <1>2, <1>3, <2>2, Zenon DEF dotjson_object_get
  <2>. QED BY <1>7, <2>3, Zenon
<1>8. CASE Inserted(E, key) # {}
  <2>1. PICK e \in E : e[1] = key
    BY <1>8, Zenon DEF Inserted
  <2>2. PICK j \in Used(o) : o.entries[j] = e
    BY <2>1, Zenon DEF TableOf
  <2>3. Reaches(o, key, j) /\ j \in Slots(o)
    BY <2>1, <2>2, Zenon DEF TableOf, Used
  <2>4. PICK i \in Slots(o) : Probe(o, key, i) = j /\ \A m \in 0..(i - 1) : Probe(o, key, m) \in Used(o)
    BY <2>3, Zenon DEF Reaches
  <2>5. i \in hits
    BY <1>4, <2>1, <2>2, <2>4, Zenon DEF Slots
  <2>6. PICK f \in Slots(o) : /\ p \in Slots(o) /\ p < o.cap /\ Stops(o.entries[p]) /\ p = Probe(o, key, f)
                              /\ f <= i
    <3>1. hits # {}
      BY <2>5
    <3>2. \A k \in hits : k \in Slots(o)
      BY Zenon DEF Slots
    <3>. HIDE DEF p, hits, Stops
    <3>. QED BY <1>6, <2>5, <3>1, <3>2, Zenon
  <2>. HIDE DEF p, hits
  <2>7. p \in Used(o)
    <3>1. CASE f = i
      BY <2>2, <2>4, <2>6, <3>1, Zenon
    <3>2. CASE f # i
      <4>1. f \in 0..(i - 1)
        BY <1>2, <2>4, <2>6, <3>2 DEF Slots
      <4>. QED BY <2>4, <2>6, <4>1, Zenon
    <3>. QED BY <3>1, <3>2
  <2>8. o.entries[p] # Empty /\ o.entries[p] \in E
    BY <2>7, Zenon DEF TableOf, Used
  <2>9. o.entries[p][1] = key
    BY <1>4, <2>6, <2>8, Zenon
  <2>10. object_find(o, key) = p
    BY <1>1, <2>8, Zenon
  <2>11. dotjson_object_get(o, key) = o.entries[p][2]
    BY <2>6, <2>10, Zenon DEF dotjson_object_get
  <2>12. o.entries[p][2] \in Inserted(E, key)
    BY <2>8, <2>9, Zenon DEF Inserted
  <2>. QED BY <1>8, <2>11, <2>12, Zenon
<1>. QED BY <1>7, <1>8

-----------------------------------------------------------------------------
(* A table made by insertions *)

\* An insertion, with the number of the turn as the value.
InsertTurn(keys, o, i) == Insert(o, <<keys[i], <<"value", i>>>>)

\* The entries of the first k insertions.
EntriesOf(keys, k) == {<<keys[i], <<"value", i>>>> : i \in 1..k}

Holding(keys, k, o) == TableOf(o, EntriesOf(keys, k)) /\ o.len = k

InsertLoop == INSTANCE LoopTheorems WITH op <- InsertTurn, holds <- Holding

\* The object after the insertions of the keys.
Made(keys) == FoldLeft(LAMBDA o, i : Insert(o, <<keys[i], <<"value", i>>>>), NoObject, [i \in DOMAIN keys |-> i])

\* After the insertions of any names, in any order, with repetitions and through any growth, dotjson_object_get
\* finds a value that was inserted for the key, and nothing under a key that was not inserted.
THEOREM TableFinds ==
    ASSUME NEW keys \in Seq(Names), Len(keys) <= 2^30, NEW key \in Names
    PROVE  dotjson_object_get(Made(keys), key) \in
               LET values == {<<"value", i>> : i \in {j \in DOMAIN keys : keys[j] = key}}
               IN  IF values = {} THEN {None} ELSE values
<1>1. PICK n \in Nat : n = Len(keys) /\ DOMAIN keys = 1..n /\ \A i \in 1..n : keys[i] \in Names
  BY LenProperties, ElementOfSeq
<1>2. Holding(keys, 0, NoObject)
  <2>1. EntriesOf(keys, 0) = {}
    BY DEF EntriesOf
  <2>. QED BY <2>1, NoObjectIs, Zenon DEF Holding
<1>. DEFINE seq == [i \in DOMAIN keys |-> i]
<1>3. DOMAIN seq = 1..n /\ \A k \in 1..n : seq[k] = k
  BY <1>1
<1>4. ASSUME NEW k \in 1..n, NEW o, Holding(keys, k - 1, o)
      PROVE  Holding(keys, k, InsertTurn(keys, o, seq[k]))
  <2>1. PICK e : e = <<keys[k], <<"value", k>>>>
    OBVIOUS
  <2>2. e[1] \in Names /\ e # Empty
    <3>1. e[1] = keys[k] /\ e # <<>>
      BY <2>1
    <3>. QED BY <1>1, <3>1, Zenon DEF Empty
  <2>3. PICK E : E = EntriesOf(keys, k - 1)
    OBVIOUS
  <2>4. TableOf(o, E) /\ o.len = k - 1
    BY <1>4, <2>3, Zenon DEF Holding
  <2>5. o.len < 2^30 /\ o.len + 1 = k
    BY <1>1, <2>4
  <2>6. TableOf(Insert(o, e), E \cup {e}) /\ Insert(o, e).len = k
    BY <2>2, <2>4, <2>5, InsertKeeps
  <2>7. EntriesOf(keys, k) = E \cup {e}
    <3>1. 1..k = 1..(k - 1) \cup {k}
      OBVIOUS
    <3>. QED BY <2>1, <2>3, <3>1, Zenon DEF EntriesOf
  <2>8. InsertTurn(keys, o, seq[k]) = Insert(o, e)
    BY <1>3, <2>1, Zenon DEF InsertTurn
  <2>. QED BY <2>6, <2>7, <2>8, Zenon DEF Holding
<1>. HIDE DEF seq
<1>5. Holding(keys, n, InsertLoop!Fold(keys, NoObject, seq))
  BY <1>2, <1>3, <1>4, InsertLoop!FoldInvariant
<1>6. InsertLoop!Fold(keys, NoObject, seq) = Made(keys)
  BY DEF seq, Made, InsertLoop!Fold, InsertTurn, FoldLeft, InsertLoop!FoldLeft, MapThenFoldSet, InsertLoop!MapThenFoldSet, Max, InsertLoop!Max
<1>7. TableOf(Made(keys), EntriesOf(keys, n))
  BY <1>5, <1>6, Zenon DEF Holding
<1>. DEFINE values == {<<"value", i>> : i \in {j \in DOMAIN keys : keys[j] = key}}
<1>8. Inserted(EntriesOf(keys, n), key) = values
  <2>1. \A i \in 1..n : <<keys[i], <<"value", i>>>>[1] = keys[i] /\ <<keys[i], <<"value", i>>>>[2] = <<"value", i>>
    OBVIOUS
  <2>2. ASSUME NEW v \in Inserted(EntriesOf(keys, n), key) PROVE v \in values
    <3>1. PICK i \in 1..n : <<keys[i], <<"value", i>>>>[1] = key /\ v = <<keys[i], <<"value", i>>>>[2]
      BY <2>2, Zenon DEF Inserted, EntriesOf
    <3>2. keys[i] = key /\ v = <<"value", i>>
      BY <2>1, <3>1, Zenon
    <3>. QED BY <1>1, <3>2, Zenon
  <2>3. ASSUME NEW v \in values PROVE v \in Inserted(EntriesOf(keys, n), key)
    <3>1. PICK i \in 1..n : keys[i] = key /\ v = <<"value", i>>
      BY <1>1, <2>3, Zenon
    <3>2. PICK e : e = <<keys[i], <<"value", i>>>>
      OBVIOUS
    <3>3. e \in EntriesOf(keys, n)
      BY <3>2, Zenon DEF EntriesOf
    <3>4. e[1] = key /\ e[2] = v
      BY <2>1, <3>1, <3>2, Zenon
    <3>. QED BY <3>3, <3>4, Zenon DEF Inserted
  <2>. QED BY <2>2, <2>3, Zenon
<1>. HIDE DEF values
<1>9. dotjson_object_get(Made(keys), key) \in IF values = {} THEN {None} ELSE values
  BY <1>7, <1>8, GetIs, Zenon
<1>. QED BY <1>9 DEF values

\* The keys of the model are names, and as many as the bound says.
KeysOnly == mode = "keys" => in \in Seq(Keys) /\ Len(in) <= MaxKeys

\* None of them has a NUL in it.
LEMMA KeysAreNames == Keys \subseteq Names
BY DEF Keys, Names

\* Keys are inserted one at a time.
LEMMA KeysAlways == Spec => []KeysOnly
<1>1. Init => KeysOnly
  BY EmptySeq, KeysAssumption DEF Init, KeysOnly, KeysAssumption
<1>2. KeysOnly /\ [Extend]_vars => KeysOnly'
  <2>. SUFFICES ASSUME KeysOnly, [Extend]_vars, mode' = "keys" PROVE in' \in Seq(Keys) /\ Len(in') <= MaxKeys
    BY DEF KeysOnly
  <2>1. CASE UNCHANGED vars
    BY <2>1 DEF vars, KeysOnly
  <2>2. CASE Extend
    <3>1. PICK w \in Words : in' = Append(in, w)
      BY <2>2 DEF Extend
    <3>2. mode = "keys" /\ Len(in) < Limit[mode]
      BY <2>2 DEF Extend
    <3>3. w \in Keys /\ in \in Seq(Keys)
      BY <3>1, <3>2, Zenon DEF Words, KeysOnly
    <3>4. Len(in) < MaxKeys
      BY <3>2 DEF Limit
    <3>5. in' \in Seq(Keys) /\ Len(in') = Len(in) + 1 /\ Len(in) \in Nat
      BY ONLY <3>1, <3>3, AppendProperties, LenProperties
    <3>6. MaxKeys \in Nat
      BY KeysAssumption DEF KeysAssumption
    <3>7. Len(in) + 1 <= MaxKeys
      BY ONLY <3>4, <3>5, <3>6
    <3>. QED BY <3>5, <3>7
  <2>. QED BY <2>1, <2>2
<1>. QED BY <1>1, <1>2, PTL DEF Spec

\* dotjson finds its keys again after any sequence of insertions.
THEOREM FindsKeysAlways == Spec => []FindsKeys
<1>1. KeysOnly => FindsKeys
  <2>. SUFFICES ASSUME KeysOnly, mode = "keys", NEW k \in Keys
                PROVE  dotjson_object_get(Table, k) \in
                         LET values == {<<"value", i>> : i \in {j \in DOMAIN in : in[j] = k}}
                         IN  IF values = {} THEN {None} ELSE values
    BY DEF FindsKeys
  <2>1. in \in Seq(Keys) /\ Len(in) <= MaxKeys
    BY DEF KeysOnly
  <2>2. in \in Seq(Names) /\ k \in Names
    <3>1. \A i \in 1..Len(in) : in[i] \in Keys
      BY <2>1, ElementOfSeq
    <3>. QED BY <2>1, <3>1, KeysAreNames
  <2>3. Len(in) <= 2^30
    BY <2>1, LenProperties, KeysAssumption DEF KeysAssumption
  <2>4. Table = Made(in)
    BY DEF Table, Made
  <2>. QED BY <2>2, <2>3, <2>4, TableFinds
<1>. QED BY <1>1, KeysAlways, PTL
=============================================================================
