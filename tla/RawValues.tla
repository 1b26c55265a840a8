------------------------------ MODULE RawValues ------------------------------
(***************************************************************************)
(* What an environment variable or a flag of a command may hold, as far as *)
(* the loaders tell it apart, and the durations their bounds are given in. *)
(***************************************************************************)
EXTENDS Integers

RawOf(kind, n, s, set) == [kind |-> kind, n |-> n, s |-> s, set |-> set]
Unset          == RawOf("unset", 0, "", {})
Blank          == RawOf("blank", 0, "", {})       \* only white space
Num(n)         == RawOf("int", n, "", {})
Hundredths(n)  == RawOf("fraction", n, "", {})
Text           == RawOf("text", 0, "", {})        \* anything no parser accepts
FlagOf(b)      == RawOf("flag", IF b THEN 1 ELSE 0, "", {})
Word(s)        == RawOf("word", 0, s, {})
Padded(s)      == RawOf("padded", 0, s, {})       \* a word with white space round it
ListOf(set)    == RawOf("list", 0, "", set)
MissingValue   == RawOf("missing", 0, "", {})     \* a flag without its value, or one that begins with "-"
Switch         == RawOf("switch", 0, "", {})      \* a flag that takes no value

Second == 1000
Minute == 60 * Second
Hour   == 60 * Minute

=============================================================================
