----------------------------- MODULE JsonTable -----------------------------
(***************************************************************************)
(* The table of a JSON object in dotjson.c: open addressing with linear    *)
(* probing.  A key is the sequence of its bytes, an entry <<key, value>>.  *)
(***************************************************************************)
EXTENDS Integers, Sequences, SequencesExt, FiniteSetsExt

CONSTANT HashMod    \* 2^w for the low w bits of the hash, the ones a slot depends on

ASSUME HashModAssumption == HashMod \in {2^w : w \in 4..16}

NUL == 0

None == <<"none">>

Sub(t, i, j) == SubSeq(t, i, j)

\* A byte string as the C string functions see it: up to the first NUL.
CStr(s) == LET z == {i \in DOMAIN s : s[i] = NUL}
           IN  IF z = {} THEN s ELSE Sub(s, 1, Min(z) - 1)

Empty == <<>>

\* A char is signed: the bytes from 128 on count as negative.
hash(key) == FoldLeft(LAMBDA h, c : (h * 1313 + c - IF c > 127 THEN 256 ELSE 0) % HashMod, 1313, CStr(key))

\* The smallest power of two that is not below n (the bit smearing of the source).
min_bucket(n) == Min({2^k : k \in 0..30} \ (0..(n - 1)))

Probe(o, key, i) == (hash(key) + i) % o.cap

\* The first probed index where stop holds; cap when there is none.
FirstProbe(o, key, stop(_)) ==
    LET hits == {i \in 0..(o.cap - 1) : stop(o.entries[Probe(o, key, i)])}
    IN  IF hits = {} THEN o.cap ELSE Probe(o, key, Min(hits))

object_slot(o, key) == FirstProbe(o, key, LAMBDA e : e = Empty)

object_find(o, key) ==
    LET i == FirstProbe(o, key, LAMBDA e : e = Empty \/ CStr(e[1]) = CStr(key))
    IN  IF i < o.cap /\ o.entries[i] = Empty THEN o.cap ELSE i

Store(o, e) == [o EXCEPT !.entries[object_slot(o, e[1])] = e, !.len = @ + 1]

\* The null pointer of an object that has no entry yet.
NoObject == [cap |-> 0, len |-> 0, entries |-> <<>>]

NewObject(cap) == [cap |-> cap, len |-> 0, entries |-> [i \in 0..(cap - 1) |-> Empty]]

\* The rehash loop runs to the old len, not to the old cap.
object_grow(o) ==
    IF o = NoObject THEN NewObject(1)
    ELSE LET cap == min_bucket(o.len + 1)
             old == [i \in 1..o.len |-> o.entries[i - 1]]
         IN  IF o.cap >= cap THEN o
             ELSE FoldLeft(LAMBDA to, e : IF e = Empty THEN to ELSE Store(to, e), NewObject(cap), old)

Insert(o, e) == Store(IF o.len = o.cap THEN object_grow(o) ELSE o, e)

dotjson_object_get(o, key) == LET i == object_find(o, key)
                              IN  IF i < o.cap THEN o.entries[i][2] ELSE None
============================================================================
