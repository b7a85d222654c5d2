------------------------------- MODULE Printf -------------------------------
(***************************************************************************)
(* The text printf writes: parse_format, the conversions of numbers and    *)
(* strings, and vsnprintf's buffer.  A format is a sequence of characters, *)
(* an argument a word or, for a string, a sequence of characters.          *)
(***************************************************************************)
EXTENDS Integers, FiniteSets, Functions, SequencesExt

CONSTANTS
    IntBits,     \* the width of an int
    LongBits,    \* the width of a long, a long long and a pointer
    Directives,  \* what directives ask for, each a record
    Words,       \* the words they are given
    Strings,     \* the strings they are given
    Sizes        \* the sizes of vsnprintf's buffer

Digits == {"0", "1", "2", "3", "4", "5", "6", "7", "8", "9"}
Small == <<"0", "1", "2", "3", "4", "5", "6", "7",
           "8", "9", "a", "b", "c", "d", "e", "f">>
Capital == <<"0", "1", "2", "3", "4", "5", "6", "7",
             "8", "9", "A", "B", "C", "D", "E", "F">>
ValueOf(c) == (CHOOSE k \in 1 .. 16 : c \in {Small[k], Capital[k]}) - 1

(* The number a sequence of digits stands for.                             *)
Number(digits, base) ==
    LET read[k \in 0 .. Len(digits)] ==
            IF k = 0 THEN 0 ELSE read[k - 1] * base + ValueOf(digits[k])
    IN  read[Len(digits)]

Power(base, n) ==
    LET power[k \in 0 .. n] == IF k = 0 THEN 1 ELSE base * power[k - 1]
    IN  power[n]

NULL == <<"NULL">>      \* a char * that is NULL
NUL == "NUL"            \* the character '\0'
Space == " "
EndString == "END"      \* END_STRING
-----------------------------------------------------------------------------
(* Variant: a '0' belongs to the width and is no flag.                     *)
NoZeroFlag == {"#", "-", Space, "+"}

Flags == {"#", "0", "-", Space, "+"}

(* Words and directives are those of C; a width or a precision has at most *)
(* two digits here.  A string has no NUL.                                  *)
Lengths == {<<>>, <<"h">>, <<"h", "h">>, <<"l">>, <<"l", "l">>, <<"j">>, <<"z">>, <<"t">>}
StringChars == UNION {Range(str) : str \in Strings}

ASSUME PrintfAssumption ==
    /\ IntBits \in Nat \ {0} /\ LongBits \in Nat \ {0} /\ IntBits <= LongBits
    /\ Directives \subseteq
           [flags : SUBSET {"#", "0", "-", Space, "+"}, width : 0 .. 99,
            precision : -1 .. 99, length : Lengths,
            conversion : {"d", "i", "u", "o", "x", "X", "p", "s"}]
    /\ Words \subseteq 0 .. Power(2, LongBits) - 1
    /\ Strings \subseteq Seq(StringChars) \ {NULL} /\ NUL \notin StringChars
    /\ Sizes \subseteq Nat

(* What follows a '%' at "at": each part is the longest run of characters  *)
(* that may be in it.  A format that ends before its conversion is broken  *)
(* off, whatever has been read.                                            *)
parse_format(format, at) ==
    LET past(k, S) == CHOOSE j \in k .. Len(format) + 1 :
                          /\ \A h \in k .. j - 1 : format[h] \in S
                          /\ j <= Len(format) => format[j] \notin S
        width_at == past(at, Flags)
        dot_at == past(width_at, Digits)
        has_precision == dot_at <= Len(format) /\ format[dot_at] = "."
        precision_at == IF has_precision THEN dot_at + 1 ELSE dot_at
        length_at == IF has_precision THEN past(precision_at, Digits) ELSE dot_at
        conversion_at == past(length_at, {"h", "l", "j", "z", "t"})
        length == Range(SubSeq(format, length_at, conversion_at - 1))
    IN  [flags |-> Range(SubSeq(format, at, width_at - 1)),
         width |-> Number(SubSeq(format, width_at, dot_at - 1), 10),
         has_precision |-> has_precision,
         precision |-> Number(SubSeq(format, precision_at, length_at - 1), 10),
         long |-> length # {} /\ "h" \notin length,
         conversion |-> IF conversion_at <= Len(format) THEN format[conversion_at]
                                                        ELSE EndString,
         next |-> conversion_at + 1]
-----------------------------------------------------------------------------
(* sub10, sub8 and sub16: the base's powers that fit into a word.          *)
Powers(base) ==
    LET beyond == Power(2, LongBits)
        n == CHOOSE n \in 1 .. LongBits :
                 Power(base, n - 1) < beyond /\ beyond <= Power(base, n)
    IN  [k \in 1 .. n |-> Power(base, n - k)]

(* What is left of val where sub points to a power has digits from there;  *)
(* powers above val are skipped first.                                     *)
valconv(val, sub, str) ==
    LET left[k \in 1 .. Len(sub)] == IF k = 1 THEN val ELSE left[k - 1] % sub[k - 1]
        first == CHOOSE k \in 1 .. Len(sub) :
                     sub[k] <= val /\ \A j \in 1 .. k - 1 : val < sub[j]
    IN  IF val = 0 THEN <<"0">>
        ELSE [k \in 1 .. Len(sub) - first + 1 |->
                  str[left[first + k - 1] \div sub[first + k - 1] + 1]]

(* n characters, none where n is not positive.                              *)
Repeat(c, n) == [k \in 1 .. (IF n > 0 THEN n ELSE 0) |-> c]

(* Text at the left or at the right of a field.                            *)
Field(text, f) ==
    LET spaces == Repeat(Space, f.width - Len(text))
    IN  IF "-" \in f.flags THEN text \o spaces ELSE spaces \o text

Base(f) == CASE f.conversion \in {"d", "i", "u"} -> 10
             [] f.conversion = "o" -> 8
             [] f.conversion \in {"x", "X", "p"} -> 16

(* leftbuf: the sign of a signed number, or what the alternate form puts   *)
(* before another one.  "%p" is of the alternate form always.              *)
Leftbuf(val, f, negative, leftzero) ==
    IF f.conversion \in {"d", "i"}
    THEN CASE negative -> <<"-">>
           [] ~negative /\ "+" \in f.flags -> <<"+">>
           [] ~negative /\ "+" \notin f.flags ->
                  IF Space \in f.flags THEN <<Space>> ELSE <<>>
    ELSE IF val = 0 \/ ("#" \notin f.flags /\ f.conversion # "p") THEN <<>>
    ELSE CASE f.conversion = "u" -> <<>>
           [] f.conversion = "o" -> IF leftzero = 0 THEN <<"0">> ELSE <<>>
           [] f.conversion \in {"x", "p"} -> <<"0", "x">>
           [] f.conversion = "X" -> <<"0", "X">>

(* The text of a number: its sign or prefix, zeros up to the precision, or *)
(* to the width if there is no precision, and its digits.                  *)
do_conversion_int(val, f, negative) ==
    LET digits == valconv(val, Powers(Base(f)),
                          IF f.conversion = "X" THEN Capital ELSE Small)
        leftzero == IF f.has_precision /\ f.precision > Len(digits)
                    THEN f.precision - Len(digits) ELSE 0
        leftbuf == Leftbuf(val, f, negative, leftzero)
        padded == "0" \in f.flags /\ ~f.has_precision /\ "-" \notin f.flags
        zeros == IF padded THEN f.width - Len(leftbuf) - Len(digits) ELSE leftzero
    IN  IF f.has_precision /\ f.precision = 0 /\ val = 0 THEN <<>>
        ELSE Field(leftbuf \o Repeat("0", zeros) \o digits, f)

(* The text of a string: as many characters as the precision allows.       *)
do_conversion_string(str, f) ==
    LET len == IF f.has_precision /\ f.precision < Len(str) THEN f.precision
                                                          ELSE Len(str)
    IN  Field(SubSeq(str, 1, len), f)
-----------------------------------------------------------------------------
(* A word as a signed number of so many bits.                              *)
Signed(word, bits) ==
    LET w == word % Power(2, bits)
    IN  IF w < Power(2, bits - 1) THEN w ELSE w - Power(2, bits)

(* What va_arg takes of an argument as an unsigned number.                 *)
Unsigned(word, f) == IF f.long \/ f.conversion = "p" THEN word
                     ELSE word % Power(2, IntBits)

Width(f) == IF f.long THEN LongBits ELSE IntBits

TakesArgument(f) ==
    f.conversion \in {"d", "i", "c", "o", "u", "X", "x", "p", "s"}

FormatError == <<"F", "O", "R", "M", "A", "T", Space, "E", "R", "R", "O", "R">>
Open == "("
Close == ")"
Null == <<Open, "n", "u", "l", "l", Close>>

(* The text of one directive; arg is the next argument, for "%c" one of    *)
(* the characters up to 127.  The width does not count for "%c".           *)
Convert(f, arg) ==
    CASE f.conversion = "%" -> <<"%">>
      [] f.conversion = "c" -> <<arg>>
      [] f.conversion \in {"d", "i"} ->
             LET intval == Signed(arg, Width(f))
             IN  IF intval < 0 THEN do_conversion_int(-intval, f, TRUE)
                               ELSE do_conversion_int(intval, f, FALSE)
      [] f.conversion \in {"o", "u", "x", "X", "p"} ->
             do_conversion_int(Unsigned(arg, f), f, FALSE)
      [] f.conversion = "s" ->
             do_conversion_string(IF arg = NULL THEN Null ELSE arg, f)
      [] OTHER -> FormatError

(* do_putchar: the console takes every character.                          *)
Console == [console |-> TRUE, len |-> 0, buf |-> <<>>]
Buffer(size) == [console |-> FALSE, len |-> size, buf |-> <<>>]

(* Variant: the last place of the buffer is taken by the text.             *)
TextToTheEnd(p, c) ==
    IF p.console THEN [p EXCEPT !.buf = Append(@, c)]
    ELSE IF p.len = 0 THEN p
    ELSE [p EXCEPT !.len = @ - 1, !.buf = Append(@, c)]

(* do_snputchar turns the character for the last place into a NUL; then it *)
(* takes no more.                                                          *)
do_snputchar(p, c) ==
    IF ~p.console /\ p.len = 0 THEN p
    ELSE [console |-> p.console,
          len |-> IF p.console THEN p.len ELSE p.len - 1,
          buf |-> Append(p.buf, IF ~p.console /\ p.len = 1 THEN NUL ELSE c)]

(* The characters of a conversion, as far as they are taken.  A conversion *)
(* that is cut off returns to do_printf like one that is not.              *)
put(p, text) ==
    LET after[k \in 0 .. Len(text)] ==
            IF k = 0 THEN p ELSE do_snputchar(after[k - 1], text[k])
    IN  after[Len(text)]

(* A round of do_printf's loop.  s is the place in the format, what is     *)
(* left of the arguments and what has been put.  Where a plain character   *)
(* or a '%' is not taken, or the format is broken off, the loop ends.      *)
Full(p) == ~p.console /\ p.len = 0
Left(format, s) == [at |-> Len(format) + 1, args |-> s.args, p |-> s.p]

Plain(format, s) ==
    IF Full(s.p) THEN Left(format, s)
    ELSE [at |-> s.at + 1, args |-> s.args, p |-> do_snputchar(s.p, format[s.at])]

Directive(format, s, f) ==
    IF f.conversion = EndString \/ (f.conversion = "%" /\ Full(s.p)) THEN Left(format, s)
    ELSE [at |-> f.next,
          args |-> IF TakesArgument(f) THEN Tail(s.args) ELSE s.args,
          p |-> put(s.p, Convert(f, IF TakesArgument(f) THEN Head(s.args) ELSE 0))]

Round(format, s) ==
    CASE s.at > Len(format) -> s
      [] s.at <= Len(format) /\ format[s.at] # "%" -> Plain(format, s)
      [] s.at <= Len(format) /\ format[s.at] = "%" ->
             Directive(format, s, parse_format(format, s.at + 1))

(* do_printf's loop has at most a round for each character of the format.  *)
(* What was put by then is n characters.                                   *)
print_all(format, args, p) ==
    LET after[k \in 0 .. Len(format)] ==
            IF k = 0 THEN [at |-> 1, args |-> args, p |-> p]
            ELSE Round(format, after[k - 1])
    IN  after[Len(format)].p

vprintf(format, args) == print_all(format, args, Console).buf

(* What vsnprintf leaves in its buffer, and what it returns.               *)
Finished(data) == [str |-> do_snputchar(data, NUL).buf, r |-> Len(data.buf)]
vsnprintf(size, format, args) == Finished(print_all(format, args, Buffer(size)))
-----------------------------------------------------------------------------
(* What a directive asks for: a set of flags, a width (0 for none), a      *)
(* precision (-1 for none), a length modifier and a conversion.            *)
Decimal(n) ==
    IF n < 10 THEN <<Small[n + 1]>>
    ELSE <<Small[n \div 10 + 1], Small[(n % 10) + 1]>>

FormatOf(d) ==
    <<"%">> \o SetToSeq(d.flags)
            \o (IF d.width > 0 THEN Decimal(d.width) ELSE <<>>)
            \o (IF d.precision >= 0 THEN <<".">> \o Decimal(d.precision) ELSE <<>>)
            \o d.length \o <<d.conversion>>

AllSpaces(text) == Range(text) \subseteq {Space}

(* A text stands for x as the directive asks for it, in the words of the C *)
(* standard: within the spaces at one side there are the sign or prefix    *)
(* and then digits of the base that read back as x.  There are no more     *)
(* zeros in front than the precision, the width or '#' ask for.            *)
StandsFor(text, d, x) ==
    LET abs == IF x < 0 THEN -x ELSE x
        zero_padded == "0" \in d.flags /\ "-" \notin d.flags /\ d.precision < 0
        octal_zero == d.conversion = "o" /\ "#" \in d.flags
        lead == CASE d.conversion \in {"d", "i"} ->
                        IF x < 0 THEN <<"-">>
                        ELSE IF "+" \in d.flags THEN <<"+">>
                        ELSE IF Space \in d.flags THEN <<Space>> ELSE <<>>
                  [] d.conversion \in {"x", "X"} ->
                        IF "#" \in d.flags /\ x # 0 THEN <<"0", d.conversion>> ELSE <<>>
                  [] d.conversion = "p" -> IF x # 0 THEN <<"0", "x">> ELSE <<>>
                  [] d.conversion \in {"u", "o"} -> <<>>
        alphabet == CASE d.conversion \in {"d", "i", "u"} -> Digits
                      [] d.conversion = "o" -> Digits \ {"8", "9"}
                      [] d.conversion \in {"x", "p"} -> Range(Small)
                      [] d.conversion = "X" -> Range(Capital)
        base == IF Cardinality(alphabet) > 10 THEN 16 ELSE Cardinality(alphabet)
    IN  \E begin \in 1 .. Len(text), end \in 1 .. Len(text) :
            LET core == SubSeq(text, begin, end)
                digits == SubSeq(core, Len(lead) + 1, Len(core))
            IN  /\ AllSpaces(SubSeq(text, 1, begin - 1))
                /\ AllSpaces(SubSeq(text, end + 1, Len(text)))
                /\ IF "-" \in d.flags THEN begin = 1 ELSE end = Len(text)
                /\ zero_padded => begin = 1
                /\ IsPrefix(lead, core)
                /\ digits # <<>> /\ Range(digits) \subseteq alphabet
                /\ Number(digits, base) = abs
                /\ Len(digits) >= d.precision
                /\ octal_zero => Head(digits) = "0"
                /\ Head(digits) = "0" /\ Len(digits) > 1 =>
                       \/ Len(digits) <= d.precision
                       \/ zero_padded /\ Len(text) = d.width
                       \/ octal_zero /\ digits[2] # "0"
                /\ Len(text) = IF Len(core) > d.width THEN Len(core) ELSE d.width

(* The number an argument is, read with the directive's length.            *)
ArgumentOf(d, word) ==
    LET whole == d.conversion = "p" \/ Range(d.length) \cap {"l", "j", "z", "t"} # {}
        bits == IF whole THEN LongBits ELSE IntBits
    IN  IF d.conversion \in {"d", "i"} THEN Signed(word, bits) ELSE word % Power(2, bits)

NumberDirectives == {d \in Directives : d.conversion # "s"}
StringDirectives == Directives \ NumberDirectives

(* What a directive takes of a string, and that a text shows just this.    *)
Taken(d, str) == CHOOSE t \in Prefixes(str) :
    IF d.precision < 0 THEN t = str
    ELSE Len(t) <= d.precision /\ (t # str => Len(t) = d.precision)

Shows(text, d, taken) ==
    LET spaces == Len(text) - Len(taken) IN
    /\ Len(text) = IF Len(taken) > d.width THEN Len(taken) ELSE d.width
    /\ IF "-" \in d.flags
       THEN IsPrefix(taken, text) /\ AllSpaces(SubSeq(text, Len(taken) + 1, Len(text)))
       ELSE taken = SubSeq(text, spaces + 1, Len(text)) /\ AllSpaces(SubSeq(text, 1, spaces))

(* Whatever flags, width, precision and length a directive has, printf     *)
(* writes what C says of it, for each number and string.  The code departs *)
(* from C where a zero is printed with the precision 0: it ignores the     *)
(* width and '#'.                                                          *)
TextAsInC ==
    /\ \A d \in NumberDirectives : \A word \in Words :
           LET x == ArgumentOf(d, word) IN
           ~(x = 0 /\ d.precision = 0) => StandsFor(vprintf(FormatOf(d), <<word>>), d, x)
    /\ \A d \in StringDirectives : \A str \in Strings :
           Shows(vprintf(FormatOf(d), <<str>>), d, Taken(d, str))

(* Pieces of formats with their arguments: a character, each kind of       *)
(* directive, and one that do_printf does not know.                        *)
Pieces ==
    LET above == {word \in Words : word > 9}
        least == {word \in above : \A w \in above : word <= w}
    IN
    {[format |-> <<"a">>, args |-> <<>>], [format |-> <<"%", "%">>, args |-> <<>>],
     [format |-> <<"%", "q">>, args |-> <<>>], [format |-> <<"%", "c">>, args |-> <<"e">>],
     [format |-> <<"%", "s">>, args |-> <<NULL>>]}
    \cup {[format |-> FormatOf(d), args |-> <<word>>] :
              d \in {d \in NumberDirectives :
                       d.width = 5 /\ d.flags = {} /\ d.precision < 0}, word \in least}
    \cup {[format |-> FormatOf(d), args |-> <<str>>] :
              d \in {d \in StringDirectives : d.width = 0 /\ d.flags = {}}, str \in Strings}

(* What vsnprintf got into a buffer of text: not more than its size and,   *)
(* unless that is 0, a string that begins as the text does.  What is       *)
(* returned is less than the size just when nothing is missing.            *)
Holds(got, size, text) ==
    /\ Len(got.str) <= size
    /\ size > 0 => /\ Last(got.str) = NUL
                   /\ NUL \notin Range(Front(got.str))
                   /\ IsPrefix(Front(got.str), text)
    /\ got.r < size <=> Len(text) < size
    /\ got.r < size => Front(got.str) = text

(* vsnprintf leaves what its directives print one after the other, or the  *)
(* beginning of that where the buffer ends, also when it ends inside a     *)
(* conversion and others follow.                                           *)
TextStaysInside ==
    \A p, q \in Pieces : \A size \in Sizes :
        Holds(vsnprintf(size, p.format \o q.format, p.args \o q.args), size,
              vprintf(p.format, p.args) \o vprintf(q.format, q.args))
=============================================================================
