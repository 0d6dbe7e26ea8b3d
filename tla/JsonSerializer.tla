--------------------------- MODULE JsonSerializer ---------------------------
(***************************************************************************)
(* Base/include/json.hpp, serializer and the formatting of floats: dump    *)
(* turns a value into a text.                                              *)
(*                                                                         *)
(* Values are those of JsonText, and <<"nonfinite">> for the floats that   *)
(* have no text.  The digits of a float are what grisu2 finds, any here.   *)
(***************************************************************************)
EXTENDS JsonText

CONSTANTS Samples,       \* BOUND: values that are dumped
          Steps,         \* BOUND: indent steps
          StringBytes,   \* BOUND: bytes of a string where a character starts,
          TailBytes,     \*        and inside of one
          MaxStart,      \* BOUND: bytes of a string in front of its last character
          BufferSize,    \* std::array<char, 512> string_buffer
          IndentSize,    \* indent_string(512, indent_char)
          MaxExp         \* kMaxExp

VARIABLES string,        \* the bytes of the string that were given to dump_escaped
          escape,        \* the locals of dump_escaped
          settings,      \* the arguments of dump
          value, text,   \* what was dumped, and the result
          pc

vars == <<string, escape, settings, value, text, pc>>

-----------------------------------------------------------------------------
UTF8_ACCEPT == 0
UTF8_REJECT == 1

\* Mutant: a lead byte of the surrogates is like those next to it.
ClassNoSurrogates(byte) ==
  CASE byte \in \h00..\h7F -> 0 [] byte \in \h80..\h8F -> 1 [] byte \in \h90..\h9F -> 9
    [] byte \in \hA0..\hBF -> 7 [] byte \in \hC2..\hDF -> 2 [] byte = \hE0 -> 10
    [] byte \in \hE1..\hEF -> 3 [] byte = \hF0 -> 11
    [] byte \in \hF1..\hF3 -> 6 [] byte = \hF4 -> 5 [] OTHER -> 8

Class(byte) ==
  CASE byte \in \h00..\h7F -> 0 [] byte \in \h80..\h8F -> 1 [] byte \in \h90..\h9F -> 9
    [] byte \in \hA0..\hBF -> 7 [] byte \in \hC2..\hDF -> 2 [] byte = \hE0 -> 10
    [] byte \in \hE1..\hEF \ {\hED} -> 3 [] byte = \hED -> 4 [] byte = \hF0 -> 11
    [] byte \in \hF1..\hF3 -> 6 [] byte = \hF4 -> 5 [] OTHER -> 8

Transition(state, class) ==
  CASE state = 0 -> <<0, 1, 2, 3, 5, 8, 7, 1, 1, 1, 4, 6>>[class + 1]
    [] state = 2 /\ class \in {1, 7, 9} -> 0
    [] state = 3 /\ class \in {1, 7, 9} -> 2
    [] state = 4 /\ class = 7 -> 2
    [] state = 5 /\ class \in {1, 9} -> 2
    [] state = 6 /\ class \in {7, 9} -> 3
    [] state = 7 /\ class \in {1, 7, 9} -> 3
    [] state = 8 /\ class = 1 -> 3
    [] OTHER -> UTF8_REJECT

\* The new state and the new code point.
decode(state, codep, byte) ==
  <<Transition(state, Class(byte)),
    IF state # UTF8_ACCEPT THEN codep * 2^6 + (byte % 2^6)
    ELSE IF Class(byte) > 8 THEN 0 ELSE byte % 2^(8 - Class(byte))>>

\* "%04x"
HexDigit(n) == IF n < 10 THEN \h30 + n ELSE \h57 + n
Hex4(n) == <<Backslash, \h75>> \o [i \in 1..4 |-> HexDigit((n \div 2^(16 - 4 * i)) % 16)]

Short == [c \in {\h08, \h09, \h0A, \h0C, \h0D, \h22, \h5C} |->
            CASE c = \h08 -> \h62 [] c = \h09 -> \h74 [] c = \h0A -> \h6E
              [] c = \h0C -> \h66 [] c = \h0D -> \h72 [] OTHER -> c]

IsEscaped(codepoint, ascii) == codepoint <= \h1F \/ (ascii /\ codepoint >= \h7F)

\* What a code point adds to the buffer; byte is the last one of it.
Escaped(codepoint, byte, ascii) ==
  CASE codepoint \in DOMAIN Short -> <<Backslash, Short[codepoint]>>
    [] codepoint \notin DOMAIN Short /\ IsEscaped(codepoint, ascii) /\ codepoint <= \hFFFF -> Hex4(codepoint)
    [] codepoint \notin DOMAIN Short /\ IsEscaped(codepoint, ascii) /\ codepoint > \hFFFF ->
         Hex4(\hD7C0 + codepoint \div 2^10) \o Hex4(\hDC00 + (codepoint % 2^10))
    [] OTHER -> <<byte>>

\* One turn of the loop of dump_escaped.  touched is the most that was ever in
\* the buffer, with the zero that snprintf writes behind an escape.
EmptyEscape == [state |-> UTF8_ACCEPT, codepoint |-> 0, buffer |-> << >>, out |-> << >>, touched |-> 0]

Flush(w) == [w EXCEPT !.out = @ \o w.buffer, !.buffer = << >>]

EscapeByte(w, byte, ascii) ==
  LET d == decode(w.state, w.codepoint, byte)
      added == IF d[1] = UTF8_ACCEPT THEN Escaped(d[2], byte, ascii)
               ELSE IF d[1] = UTF8_REJECT \/ ascii THEN << >> ELSE <<byte>>
      used == Len(w.buffer) + Len(added) + (IF Len(added) >= 6 THEN 1 ELSE 0)
      next == [w EXCEPT !.state = d[1], !.codepoint = d[2], !.buffer = @ \o added,
                        !.touched = IF used > @ THEN used ELSE @]
  IN  CASE w.state = UTF8_REJECT -> w       \* the error was thrown
        [] w.state # UTF8_REJECT /\ d[1] = UTF8_ACCEPT /\ BufferSize - Len(next.buffer) < 13 -> Flush(next)
        [] OTHER -> next

\* Behind the last byte; an error is thrown if a character is incomplete.
EscapeEnd(w) == IF w.state = UTF8_ACCEPT THEN Flush(w) ELSE [w EXCEPT !.state = UTF8_REJECT]

dump_escaped(s, ascii) == EscapeEnd(FoldLeft(LAMBDA w, byte : EscapeByte(w, byte, ascii), EmptyEscape, s))

-----------------------------------------------------------------------------
\* The digits of x from the last to the first; % and / of C round to zero.
dump_integer(x) ==
  LET magnitude == IF x < 0 THEN -x ELSE x
      count == CHOOSE n \in 1..10 : magnitude < 10^n /\ (n > 1 => magnitude >= 10^(n - 1))
      number_buffer == [i \in 1..count |-> \h30 + ((magnitude \div 10^(i - 1)) % 10)]
  IN  Reverse(IF x < 0 THEN Append(number_buffer, Minus) ELSE number_buffer)

append_exponent(e) ==
  LET k == IF e < 0 THEN -e ELSE e
  IN  <<IF e < 0 THEN Minus ELSE Plus>> \o (IF k < 10 THEN <<\h30>> ELSE << >>) \o dump_integer(k)

MinExp == -4     \* kMinExp

\* buf * 10^decimal_exponent.
format_buffer(buf, decimal_exponent) ==
  LET k == Len(buf)
      n == k + decimal_exponent
  IN  CASE k <= n /\ n <= MaxExp -> buf \o [i \in 1..(n - k) |-> \h30] \o <<Point, \h30>>
        [] n < k /\ 0 < n /\ n <= MaxExp -> UpTo(buf, n) \o <<Point>> \o From(buf, n + 1)
        [] MinExp < n /\ n <= 0 -> <<\h30, Point>> \o [i \in 1..(-n) |-> \h30] \o buf
        [] OTHER -> UpTo(buf, 1) \o (IF k = 1 THEN << >> ELSE <<Point>> \o Tail(buf))
                      \o <<\h65>> \o append_exponent(n - 1)

to_chars(negative, digits, exponent) ==
  (IF negative THEN <<Minus>> ELSE << >>)
    \o (IF digits = << >> THEN <<\h30, Point, \h30>> ELSE format_buffer(digits, exponent - Len(digits)))

dump_float(j) == IF j[1] = "nonfinite" THEN <<\h6E, \h75, \h6C, \h6C>> ELSE to_chars(j[2], j[3], j[4])

-----------------------------------------------------------------------------
\* The serializer: the settings, what was written, the indent_string, and
\* whether an error was thrown.
Serializer(s) == [settings |-> s, out |-> << >>, thrown |-> FALSE,
                  indent_string |-> [i \in 1..IndentSize |-> s.indent_char]]

write(o, characters) == [o EXCEPT !.out = @ \o characters]
pretty(o, characters) == IF o.settings.pretty_print THEN write(o, characters) ELSE o

\* write_characters(indent_string.c_str(), n): zeros stand for what is behind
\* the string.
indent(o, n) ==
  pretty(o, [i \in 1..n |-> IF i <= Len(o.indent_string) THEN o.indent_string[i] ELSE 0])

\* The string is doubled, once, when it is too short.
Resize(o, n) ==
  IF o.settings.pretty_print /\ Len(o.indent_string) < n
    THEN [o EXCEPT !.indent_string = @ \o [i \in 1..Len(@) |-> \h20]] ELSE o

write_string(o, s) ==
  LET w == dump_escaped(s, o.settings.ensure_ascii)
  IN  [write(o, <<Quote>> \o w.out \o <<Quote>>) EXCEPT !.thrown = @ \/ w.state = UTF8_REJECT]

RECURSIVE dump(_, _, _)

\* The elements between two brackets, each of them written by item.
dump_elements(o, brackets, count, item(_, _), current_indent) ==
  LET new_indent == current_indent + o.settings.indent_step
      element(p, i) == LET q == IF i = 1 THEN p ELSE pretty(write(p, <<\h2C>>), <<\h0A>>)
                       IN  item(indent(q, new_indent), i)
      opened == Resize(pretty(write(o, <<brackets[1]>>), <<\h0A>>), new_indent)
      filled == FoldLeft(element, opened, [i \in 1..count |-> i])
  IN  IF count = 0 THEN write(o, brackets)
      ELSE write(indent(pretty(filled, <<\h0A>>), current_indent), <<brackets[2]>>)

dump(o, j, current_indent) ==
  LET new_indent == current_indent + (IF o.settings.pretty_print THEN o.settings.indent_step ELSE 0)
      member(p, i) == dump(pretty(write(write_string(p, j[2][i][1]), <<\h3A>>), <<\h20>>), j[2][i][2], new_indent)
      element(p, i) == dump(p, j[2][i], new_indent)
  IN  CASE j[1] = "object" -> dump_elements(o, <<\h7B, \h7D>>, Len(j[2]), member, current_indent)
        [] j[1] = "array" -> dump_elements(o, <<\h5B, \h5D>>, Len(j[2]), element, current_indent)
        [] j[1] = "string" -> write_string(o, j[2])
        [] j[1] = "boolean" -> write(o, IF j[2] THEN <<\h74, \h72, \h75, \h65>>
                                        ELSE <<\h66, \h61, \h6C, \h73, \h65>>)
        [] j[1] = "integer" -> write(o, dump_integer(j[2]))
        [] j[1] \in {"float", "nonfinite"} -> write(o, dump_float(j))
        [] j[1] = "null" -> write(o, <<\h6E, \h75, \h6C, \h6C>>)

-----------------------------------------------------------------------------
Settings == {s \in [pretty_print : BOOLEAN, ensure_ascii : BOOLEAN, indent_step : Steps \cup {0},
                    indent_char : {\h09}] : s.pretty_print \/ s.indent_step = 0}

Init == /\ string = << >> /\ escape = EmptyEscape
        /\ settings \in Settings
        /\ value = <<"null">> /\ text = << >>
        /\ pc = "start"

\* A string is escaped, byte by byte; of the settings ensure_ascii matters.
Byte == /\ pc \in {"start", "string"} /\ ~settings.pretty_print
        /\ \E byte \in (IF escape.state # UTF8_ACCEPT THEN TailBytes
                        ELSE IF Len(string) <= MaxStart THEN StringBytes ELSE {}) :
             /\ string' = Append(string, byte)
             /\ escape' = EscapeByte(escape, byte, settings.ensure_ascii)
        /\ pc' = IF escape'.state = UTF8_REJECT THEN "escaped" ELSE "string"
        /\ UNCHANGED <<settings, value, text>>

End == /\ pc = "string"
       /\ escape' = EscapeEnd(escape)
       /\ pc' = "escaped"
       /\ UNCHANGED <<string, settings, value, text>>

\* A value is dumped.
Dump == /\ pc = "start"
        /\ \E j \in Samples :
             LET o == dump(Serializer(settings), j, 0)
             IN  /\ value' = j
                 /\ IF o.thrown THEN pc' = "thrown" /\ UNCHANGED text
                                ELSE pc' = "dumped" /\ text' = o.out
        /\ UNCHANGED <<string, escape, settings>>

Next == Byte \/ End \/ Dump

Spec == Init /\ [][Next]_vars
-----------------------------------------------------------------------------
\* A sequence of whole characters in UTF-8.
RECURSIVE IsUTF8(_)
IsUTF8(s) == s = << >> \/ \E n \in 1..4 : n <= Len(s) /\ IsCharacter(UpTo(s, n)) /\ IsUTF8(From(s, n + 1))

(***************************************************************************)
(* dump_escaped throws if and only if the string is not UTF-8; what it     *)
(* writes stands for the string, is ASCII if that was asked for, and never *)
(* fills more than its buffer (json.hpp:8514-8655, 8809-8839).             *)
(***************************************************************************)
StringsAreEscaped ==
  /\ escape.touched <= BufferSize
  /\ pc = "escaped" =>
       /\ (escape.state = UTF8_ACCEPT) = IsUTF8(string)
       /\ escape.state = UTF8_ACCEPT =>
            /\ Decoded(escape.out) = {string}
            /\ settings.ensure_ascii => \A i \in 1..Len(escape.out) : escape.out[i] \in \h20..\h7E

RECURSIVE Readable(_)
Readable(j) ==      \* what has no text is read as null
  CASE j[1] = "nonfinite" -> <<"null">>
    [] j[1] = "array" -> <<"array", [i \in 1..Len(j[2]) |-> Readable(j[2][i])]>>
    [] j[1] = "object" -> <<"object", [i \in 1..Len(j[2]) |-> <<j[2][i][1], Readable(j[2][i][2])>>]>>
    [] OTHER -> j

RECURSIVE IsDumpable(_)
IsDumpable(j) ==
  CASE j[1] = "string" -> IsUTF8(j[2])
    [] j[1] = "array" -> \A i \in 1..Len(j[2]) : IsDumpable(j[2][i])
    [] j[1] = "object" -> \A i \in 1..Len(j[2]) : IsUTF8(j[2][i][1]) /\ IsDumpable(j[2][i][2])
    [] OTHER -> TRUE

(***************************************************************************)
(* The text of a value stands for it and for nothing else, with or without *)
(* line breaks, if the indent step is at most twice the indent_string: it  *)
(* is doubled once per level.  A value is refused if and only if a string  *)
(* in it is not UTF-8 (json.hpp:8307-8497, 8669-8700, 8066-8241).          *)
(***************************************************************************)
DumpReadsBack ==
  /\ pc = "dumped" \/ pc = "thrown" => IsDumpable(value) = (pc = "dumped")
  /\ pc = "dumped" /\ (settings.pretty_print => settings.indent_step <= 2 * IndentSize) =>
       Values(text) = {Readable(value)}
=============================================================================
