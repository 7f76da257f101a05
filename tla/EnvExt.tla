------------------------------- MODULE EnvExt -------------------------------
(***************************************************************************)
(* The Notepad++ plug-in envext: the section of its ini file is a sequence *)
(* of lines, each set in the environment after its value was expanded.     *)
(* A line is the sequence of the parts between its '=' signs, a part is a  *)
(* sequence of tokens: a name or a text is one token, <<"%", n>> stands    *)
(* for %n%.                                                                *)
(***************************************************************************)
EXTENDS Integers, Sequences, SequencesExt

\* The environment maps names (parts of a line) to values (sequences of tokens).
Defined(env, part) == part \in DOMAIN env

SetEnvironmentVariable(env, part, value) == [p \in DOMAIN env \cup {part} |-> IF p = part THEN value ELSE env[p]]

\* %n% is replaced by the value of n, and stays as it is when n is not defined.
ExpandEnvironmentStrings(env, tokens) ==
    FlattenSeq([i \in DOMAIN tokens |->
        IF Head(tokens[i]) = "%" /\ Defined(env, <<<<tokens[i][2]>>>>) THEN env[<<<<tokens[i][2]>>>>] ELSE <<tokens[i]>>])

\* The parts of a value joined again by their '=' signs.
Join(parts) == FlattenSeq([i \in DOMAIN parts |-> IF i = 1 THEN parts[i] ELSE <<<<"=">>>> \o parts[i]])

\* Mutation: the values are taken as they are.
EachStringRaw(line, s, i) ==
    CASE s.at # "line" -> s
      [] s.at = "line" /\ i = Len(line) -> [s EXCEPT !.at = IF line[i] = <<>> THEN "end" ELSE "next"]
      [] s.at = "line" /\ i < Len(line) /\ line[i] = <<>> -> [s EXCEPT !.at = "next"]
      [] OTHER -> [s EXCEPT !.env = SetEnvironmentVariable(s.env, line[i], Join(SubSeq(line, i + 1, Len(line))))]

\* A turn of the loop over the section looks at the string that starts with part i of a line.  The
\* '=' is overwritten by a NUL before lstrlen(s) moves s on, so the value of a line is the next string
\* the loop looks at.  A string that sets nothing is the last of its line, and an empty one ends the
\* loop.  at: "line" inside a line, "next" when the rest of it is passed over, "end" after the loop.
EachString(line, s, i) ==
    CASE s.at # "line" -> s
      [] s.at = "line" /\ i = Len(line) -> [s EXCEPT !.at = IF line[i] = <<>> THEN "end" ELSE "next"]
      [] s.at = "line" /\ i < Len(line) /\ line[i] = <<>> -> [s EXCEPT !.at = "next"]
      [] OTHER -> [s EXCEPT !.env = SetEnvironmentVariable(s.env, line[i],
                                       ExpandEnvironmentStrings(s.env, Join(SubSeq(line, i + 1, Len(line)))))]

EachLine(s, line) ==
    IF s.at = "end" THEN s
    ELSE FoldLeft(LAMBDA t, i : EachString(line, t, i), [s EXCEPT !.at = "line"], [i \in DOMAIN line |-> i])

Section(lines, env) == FoldLeft(EachLine, [env |-> env, at |-> "next"], lines).env

\* _inited is the only guard; an empty section changes nothing.
env_load(inited, file, env) == IF inited THEN Section(file, env) ELSE env
=============================================================================
