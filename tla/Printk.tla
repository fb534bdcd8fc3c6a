------------------------------- MODULE Printk -------------------------------
(***************************************************************************)
(* printk() of kernel/core/printk.c: the characters a format and its       *)
(* arguments turn into, and a reference definition of what they mean.      *)
(*                                                                         *)
(* A character is a string of length one; an argument is the value of a    *)
(* machine word and, for %s, the characters it points to.                  *)
(***************************************************************************)
EXTENDS Integers, Sequences, SequencesExt

CONSTANTS IntBits, \* width of an int, a multiple of 4 (32)
          LongBits \* width of a long, a multiple of 4 (64)

ASSUME WidthAssumption ==
    /\ IntBits \in Nat \ {0} /\ IntBits % 4 = 0
    /\ LongBits \in Nat \ {0} /\ LongBits % 4 = 0 /\ IntBits <= LongBits

Power(b, k) ==
    LET power[j \in 0 .. k] == IF j = 0 THEN 1 ELSE b * power[j - 1]
    IN  power[k]

Digit == <<"0", "1", "2", "3", "4", "5", "6", "7",
           "8", "9", "A", "B", "C", "D", "E", "F">>

\* A word read as an unsigned or as a signed number of that many bits.
Unsigned(word, bits) == word % Power(2, bits)
Signed(word, bits) ==
    IF Unsigned(word, bits) < Power(2, bits - 1) THEN Unsigned(word, bits)
                                                 ELSE Unsigned(word, bits) - Power(2, bits)

\* The digits print_ulong() stores in str, last one first.
Stored(n) ==
    LET str[k \in 0 .. n] == IF k = 0 THEN <<>> ELSE <<Digit[(k % 10) + 1]>> \o str[k \div 10]
    IN  str[n]

\* Mutant of print_ulong: 0 has no digits.
UlongNoZero(n) == Reverse(Stored(n))

print_ulong(n) == (IF n = 0 THEN <<"0">> ELSE <<>>) \o Reverse(Stored(n))

\* -n does not fit for the smallest number; as unsigned it is right again.
print_long(n) ==
    IF n < 0 THEN <<"-">> \o print_ulong(Unsigned(-n, LongBits)) ELSE print_ulong(n)

print_hex(n, len) ==
    <<"0", "x">> \o [i \in 1 .. len |-> Digit[((n \div Power(16, len - i)) % 16) + 1]]

\* What the conversion c prints of an argument; l tells whether it is a long.
Converted(c, l, arg) ==
    LET bits == IF l THEN LongBits ELSE IntBits
    IN  CASE c = "d" -> print_long(Signed(arg.word, bits))
          [] c = "u" -> print_ulong(Unsigned(arg.word, bits))
          [] c = "x" -> print_hex(Unsigned(arg.word, bits), bits \div 4)
          [] c = "s" -> arg.chars

\* One round of printk()'s loop over the format.
Scan(s, c) ==
    CASE ~s.specifier /\ c = "%" -> [s EXCEPT !.specifier = TRUE, !.l = FALSE]
      [] ~s.specifier /\ c # "%" -> [s EXCEPT !.out = Append(@, c)]
      [] s.specifier /\ c = "l"  -> [s EXCEPT !.l = TRUE]
      [] s.specifier /\ c = "%"  -> [s EXCEPT !.specifier = FALSE, !.out = Append(@, c)]
      [] s.specifier /\ c \in {"d", "u", "x", "s"} ->
            [specifier |-> FALSE, l |-> s.l, args |-> Tail(s.args),
             out |-> s.out \o Converted(c, s.l, Head(s.args))]
      [] OTHER -> [s EXCEPT !.specifier = FALSE]

printk(fmt, args) ==
    LET state[n \in 0 .. Len(fmt)] ==
            IF n = 0 THEN [specifier |-> FALSE, l |-> FALSE, args |-> args, out |-> <<>>]
                     ELSE Scan(state[n - 1], fmt[n])
    IN  state[Len(fmt)].out
-----------------------------------------------------------------------------
\* A request as its author means it: literal text and conversions.
Lit(chars)       == [conv |-> "text", l |-> FALSE, word |-> 0, chars |-> chars]
Str(chars)       == [Lit(chars) EXCEPT !.conv = "s"]
Arg(c, word)     == [conv |-> c, l |-> FALSE, word |-> word, chars |-> <<>>]
LongArg(c, word) == [Arg(c, word) EXCEPT !.l = TRUE]

\* What a caller may write: a percent sign in a literal text would begin a
\* conversion, and the letter l only announces one.
Proper(items) ==
    /\ items \in Seq([conv : STRING \ {"l"}, l : BOOLEAN, word : Int, chars : Seq(STRING)])
    /\ \A i \in 1 .. Len(items) : items[i].conv = "text" => "%" \notin ToSet(items[i].chars)

Spelled(item) ==
    IF item.conv = "text" THEN item.chars
    ELSE IF item.l THEN <<"%", "l", item.conv>> ELSE <<"%", item.conv>>

Format(items) == FlattenSeq([i \in 1 .. Len(items) |-> Spelled(items[i])])

Passed(item) ==
    IF item.conv \in {"d", "u", "x", "s"} THEN <<[word |-> item.word, chars |-> item.chars]>>
                                          ELSE <<>>

Arguments(items) == FlattenSeq([i \in 1 .. Len(items) |-> Passed(items[i])])

\* The number n in base b with as many digits as it takes, at least one.
Fits(n, b, k) == n < Power(b, k) /\ (k = 1 \/ Power(b, k - 1) <= n)

Digits(n, b, len) == [i \in 1 .. len |-> Digit[((n \div Power(b, len - i)) % b) + 1]]

Numeral(n, b) == Digits(n, b, CHOOSE k \in 1 .. LongBits : Fits(n, b, k))

Padded(text, len) == [i \in 1 .. (len - Len(text)) |-> "0"] \o text

Meant(item) ==
    LET bits == IF item.l THEN LongBits ELSE IntBits
        signed == Signed(item.word, bits)
        unsigned == Unsigned(item.word, bits)
    IN  CASE item.conv \in {"text", "s"} -> item.chars
          [] item.conv = "%" -> <<"%">>
          [] item.conv = "d" /\ signed < 0  -> <<"-">> \o Numeral(-signed, 10)
          [] item.conv = "d" /\ signed >= 0 -> Numeral(signed, 10)
          [] item.conv = "u" -> Numeral(unsigned, 10)
          [] item.conv = "x" -> <<"0", "x">> \o Padded(Numeral(unsigned, 16), bits \div 4)
          [] OTHER -> <<>>

Meaning(items) == FlattenSeq([i \in 1 .. Len(items) |-> Meant(items[i])])
=============================================================================
