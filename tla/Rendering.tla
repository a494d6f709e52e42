------------------------------ MODULE Rendering ------------------------------
(***************************************************************************)
(* How an event becomes a line: the class of argument a parameter is shown *)
(* as (definitions/__init__.py, syscalls/args.py), the quoting of buffers  *)
(* (string_quote.py), the return value (tracer.py 559-591), the three      *)
(* formatters and the summary (syscalls/formatters.py).                    *)
(*                                                                         *)
(* An argument is [class, symbol, text]: its class, its symbolic form      *)
(* ("none", "name" or "hex", or "inside" for names in memory that was      *)
(* decoded), and the characters a buffer is shown with.  A return value is *)
(* [kind, value, symbol].                                                  *)
(***************************************************************************)
EXTENDS Integers, Sequences, Functions

-----------------------------------------------------------------------------
\* quote_string.  Bytes and characters are their codes; '"' is 34, '\' is 92.

Backslash == 92
EscapeMap == [b \in {34, 92, 9, 10, 13, 11, 12} |->
    <<Backslash, CASE b = 34 -> 34 [] b = 92 -> 92 [] b = 9 -> 116 [] b = 10 -> 110
                   [] b = 13 -> 114 [] b = 11 -> 118 [] b = 12 -> 102>>]

IsPrintable(c)  == 32 <= c /\ c < 127
IsOctalDigit(c) == 48 <= c /\ c <= 55
Ellipsis        == <<46, 46, 46>>

Octal3(b)   == <<48 + (b \div 64), 48 + ((b \div 8) % 8), 48 + (b % 8)>>
OctalMin(b) == IF b < 8 THEN <<48 + b>>
               ELSE IF b < 64 THEN <<48 + (b \div 8), 48 + (b % 8)>>
               ELSE Octal3(b)

\* mutant: octal escapes are as short as they can be.
EscapeShort(b, rest) ==
    IF b \in DOMAIN EscapeMap THEN EscapeMap[b]
    ELSE IF IsPrintable(b) THEN <<b>>
    ELSE <<Backslash>> \o OctalMin(b)

\* _escape_byte, which looks at the first byte of the rest.
EscapeByte(b, rest) ==
    IF b \in DOMAIN EscapeMap THEN EscapeMap[b]
    ELSE IF IsPrintable(b) THEN <<b>>
    ELSE IF rest # << >> /\ IsOctalDigit(Head(rest)) THEN <<Backslash>> \o Octal3(b)
    ELSE <<Backslash>> \o OctalMin(b)

Displayed(data, max) == SubSeq(data, 1, IF Len(data) > max THEN max ELSE Len(data))

\* The text of the first i bytes.
Escaped(shown) ==
    LET text[i \in 0..Len(shown)] ==
            IF i = 0 THEN << >>
            ELSE text[i - 1] \o EscapeByte(shown[i], SubSeq(shown, i + 1, Len(shown)))
    IN text

QuoteString(data, max) ==
    LET shown == Displayed(data, max)
    IN Escaped(shown)[Len(shown)] \o (IF Len(data) > max THEN Ellipsis ELSE << >>)

\* What a reader of C strings makes of a text.  It has read some bytes, and may
\* be in an escape: behind the backslash, or behind one or two octal digits.
Reader(bytes, escape, value) == [bytes |-> bytes, escape |-> escape, value |-> value]

LetterCodes == [c \in {34, 92, 116, 110, 114, 118, 102} |->
    CASE c = 34 -> 34 [] c = 92 -> 92 [] c = 116 -> 9 [] c = 110 -> 10
      [] c = 114 -> 13 [] c = 118 -> 11 [] c = 102 -> 12]

BytesRead(r) == IF r.escape \in {"one", "two"} THEN Append(r.bytes, r.value) ELSE r.bytes

\* One more character: an escape has a letter, or up to three digits.
Read(r, c) ==
    LET value == 8 * r.value + c - 48 IN
    CASE r.escape = "start" /\ ~IsOctalDigit(c) ->
            Reader(Append(r.bytes, LetterCodes[c]), "none", 0)
      [] r.escape = "start" /\ IsOctalDigit(c)  -> Reader(r.bytes, "one", value)
      [] r.escape = "one" /\ IsOctalDigit(c)    -> Reader(r.bytes, "two", value)
      [] r.escape = "two" /\ IsOctalDigit(c)    -> Reader(Append(r.bytes, value), "none", 0)
      [] OTHER -> IF c = Backslash THEN Reader(BytesRead(r), "start", 0)
                  ELSE Reader(Append(BytesRead(r), c), "none", 0)

ReadUpto(text) ==
    LET reader[i \in 0..Len(text)] ==
            IF i = 0 THEN Reader(<< >>, "none", 0) ELSE Read(reader[i - 1], text[i])
    IN reader

Unquoted(text) == BytesRead(ReadUpto(text)[Len(text)])

-----------------------------------------------------------------------------
\* The arguments of an event.

Arg(class, symbol) == [class |-> class, symbol |-> symbol, text |-> << >>]
SkipArg            == Arg("SkipArg", "none")

\* mutant: a label that is always hex is a name under --no-abbrev.
SymbolAlways(p, raw) == IF p.label \in {"named", "hexed"} THEN "name" ELSE "none"

\* The symbolic form of a value that is held in the argument itself.
Symbol(p, raw) ==
    CASE p.label = "named" -> IF raw THEN "none" ELSE "name"
      [] p.label = "hexed" -> IF raw THEN "hex" ELSE "name"
      [] OTHER -> "none"

BufferText(data, max) == [Arg("BufferArg", "none") EXCEPT !.text = QuoteString(data, max)]

\* Of what was read from memory: whether the decoder of p shows names of it.
Inside(p, raw) ==
    IF p.inner = "always" \/ (p.inner = "named" /\ ~raw) THEN "inside" ELSE "none"

\* What p decodes to, once it is time to look at what it points to.
Decoded(p, null, memory, raw, max) ==
    IF p.label # "memory" THEN Arg(p.arg, Symbol(p, raw))
    ELSE IF null THEN Arg(p.null, "none")
    ELSE IF ~memory.readable THEN Arg(p.other, "none")
    ELSE IF p.arg = "BufferArg" THEN BufferText(memory.data, max)
    ELSE Arg(p.arg, Inside(p, raw))

\* _decode_param_with_context: at the entry, output is not looked at.
AtEntry(p, null, memory, raw, max) ==
    Decoded(p, null \/ p.dir = "OUT", memory, raw, max)

\* _decode_params_at_exit: arg is what the entry made of it.
AtExit(p, arg, null, memory, raw, max) ==
    IF p.dir = "IN" THEN arg ELSE Decoded(p, null, memory, raw, max)

-----------------------------------------------------------------------------
\* _decode_return_value.

Text(v, symbol) == [kind |-> "text", value |-> v, symbol |-> symbol]
Number(v)       == [kind |-> "int", value |-> v, symbol |-> "none"]
NoValue         == [kind |-> "?", value |-> 0, symbol |-> "none"]

\* fcntl's decoder has words for what F_GETFL and F_GETFD return, the commands
\* that have no argument; -1 is shown with errno.
ReturnValues(v, worded, raw) ==
    IF v >= 0 /\ worded
    THEN {Number(v), Text(v, IF raw THEN "hex" ELSE "name")}
    ELSE IF v = -1 /\ ~raw THEN {Text(v, "name")}
    ELSE {Number(v)}

Succeeded(ret) == ret.kind = "int" /\ ret.value >= 0

-----------------------------------------------------------------------------
\* The formatters.

Formatters == {"json", "text", "color"}

\* _open_output
Formatter(json, tty) == IF json THEN "json" ELSE IF tty THEN "color" ELSE "text"

\* What a line shows of an argument: nothing ("skip"), its value, or a name or a
\* number in hex instead; a value with names inside shows those.
Contents(arg)      == IF arg.symbol = "inside" THEN "name" ELSE "value"
SymbolOr(arg, form) == IF arg.symbol = "none" THEN form ELSE arg.symbol

\* str(arg), by the __str__ of its class.
Written(arg) ==
    CASE arg.class = "FlagsArg" -> SymbolOr(arg, "hex")
      [] arg.class = "IntArg"   -> SymbolOr(arg, "value")
      [] OTHER                  -> Contents(arg)

\* JSON, by exact type: those with a symbolic form, those with a form of their
\* own, and str(arg) for the others.  What is None is left out.
Named     == {"IntArg", "FlagsArg"}
JsonForms == {"StructArg", "StringArrayArg", "StructArrayArg", "IntPtrArg",
              "FileDescriptorArg", "StringArg", "UnsignedArg", "PointerArg"}

\* mutant: a class without a form of its own is left out.
JsonShowsForms(arg) ==
    CASE arg.class \in Named     -> SymbolOr(arg, "value")
      [] arg.class \in JsonForms -> Contents(arg)
      [] OTHER                   -> "skip"

JsonShows(arg) ==
    CASE arg.class = "SkipArg"   -> "skip"
      [] arg.class \in Named     -> SymbolOr(arg, "value")
      [] arg.class \in JsonForms -> Contents(arg)
      [] OTHER                   -> Written(arg)

TextShows(arg) == IF arg.class # "SkipArg" THEN Written(arg) ELSE "skip"

\* Colours, by instance: str(arg), between two escape sequences or on its own.
Coloured == {"StringArg", "PointerArg", "FileDescriptorArg", "IntArg", "UnsignedArg"}

\* mutant: a class without a colour is left out.
ColorShowsColoured(arg) == IF arg.class \in Coloured THEN Written(arg) ELSE "skip"

ColorShows(arg) ==
    CASE arg.class = "SkipArg"  -> "skip"
      [] arg.class \in Coloured -> Written(arg)
      [] OTHER                  -> Written(arg)

Shows(f, arg) ==
    CASE f = "json"  -> JsonShows(arg)
      [] f = "text"  -> TextShows(arg)
      [] f = "color" -> ColorShows(arg)

\* The positions of the arguments in a line, and those that show a name.
Positions(f, args) == {i \in DOMAIN args : Shows(f, args[i]) # "skip"}
NamesIn(f, args)   == {i \in DOMAIN args : Shows(f, args[i]) = "name"}

-----------------------------------------------------------------------------
\* SummaryFormatter.add_event

\* mutant: an event that could not be completed counts as an error.
IsErrorUnlessInt(ret) == ret.kind # "int" \/ ret.value < 0

IsError(ret) == ret.kind = "int" /\ ret.value < 0

AddEvent(stats, name, ret) ==
    LET old == IF name \in DOMAIN stats THEN stats[name] ELSE [count |-> 0, errors |-> 0]
        new == [count |-> old.count + 1,
                errors |-> old.errors + IF IsError(ret) THEN 1 ELSE 0]
    IN [n \in DOMAIN stats \cup {name} |-> IF n = name THEN new ELSE stats[n]]
=============================================================================
