----------------------------- MODULE JsonLexer ------------------------------
(***************************************************************************)
(* Base/include/json.hpp, the lexical analysis: bytes come from an input   *)
(* adapter one at a time, and each call of scan makes a token of them.     *)
(*                                                                         *)
(* A byte is a number of 0..255, and the end of the input is EOF.  The     *)
(* input is chosen while it is read, from the bytes that the code treats   *)
(* alike.                                                                  *)
(***************************************************************************)
EXTENDS JsonText

CONSTANTS FirstBytes,      \* BOUND: bytes an input may start with,
          LaterBytes,      \*        bytes it may have where another token starts,
          NumberBytes,     \*        in a number,
          StringBytes,     \*        in a string, where a character starts,
          TailBytes,       \*        and inside of one;
          HexBytes,        \*        the digits of an escape, by factor
          MaxLength,       \* BOUND: length of an input
          MaxCharacters,   \* BOUND: bytes of a string before its last character,
          MaxStart,        \* BOUND: bytes in front of the last token or digit
          MaxUnsigned,     \* the largest number_unsigned_t
          MaxInteger       \* the largest number_integer_t

VARIABLES adapter,         \* the kind of input adapter
          input, ended,    \* the bytes read so far and whether there are no more
          cursor,          \* bytes in front of the adapter's position
          current, chars_read, token_string, token_buffer,
          value,           \* value_unsigned, value_integer or value_float
          token,           \* what scan has returned, or what it is about to
          pc,              \* where in scan the lexer is
          expected,        \* bytes of a literal, ranges of bytes or digits to come
          codepoint, codepoint1   \* locals of scan_string

vars == <<adapter, input, ended, cursor, current, chars_read, token_string, token_buffer,
          value, token, pc, expected, codepoint, codepoint1>>
locals == <<expected, codepoint, codepoint1>>

EOF == -1     \* std::char_traits<char>::eof()

NonZero == \h31..\h39
BOM == <<\hEF, \hBB, \hBF>>

Literals == [c \in {\h74, \h66, \h6E} |->     \* true, false, null
               CASE c = \h74 -> <<"literal_true", <<\h72, \h75, \h65>> >>
                 [] c = \h66 -> <<"literal_false", <<\h61, \h6C, \h73, \h65>> >>
                 [] c = \h6E -> <<"literal_null", <<\h75, \h6C, \h6C>> >>]

Structural == [c \in {\h5B, \h5D, \h7B, \h7D, \h3A, \h2C} |->
                 CASE c = \h5B -> "begin_array"    [] c = \h5D -> "end_array"
                   [] c = \h7B -> "begin_object"   [] c = \h7D -> "end_object"
                   [] c = \h3A -> "name_separator" [] c = \h2C -> "value_separator"]

-----------------------------------------------------------------------------
\* Where the adapters stand when they have been constructed.  The one for
\* streams reads on as long as it sees a byte order mark, and puts back what
\* it has read of anything else.
BufferStart(b) == IF Len(b) >= 3 /\ SubSeq(b, 1, 3) = BOM THEN 3 ELSE 0

StreamStart(b) ==
  LET same == {n \in 0..3 : n <= Len(b) /\ SubSeq(b, 1, n) = SubSeq(BOM, 1, n)}
      read == CHOOSE n \in same : \A k \in same : k <= n
  IN  IF read = 3 THEN 3 ELSE 0

Init == /\ adapter \in {"stream", "buffer"}
        /\ input \in {SubSeq(BOM, 1, n) : n \in 0..3}
        /\ ended = FALSE
        /\ cursor = IF adapter = "buffer" THEN BufferStart(input) ELSE StreamStart(input)
        /\ current = EOF /\ chars_read = 0 /\ token_string = << >> /\ token_buffer = << >>
        /\ value = 0 /\ token = "uninitialized"
        /\ pc = "scan"
        /\ expected = << >> /\ codepoint = 0 /\ codepoint1 = 0

\* The next byte of the input, one of S if the input is still open.
peek(S) ==
  /\ current' \in IF cursor < Len(input) THEN {input[cursor + 1]}
                  ELSE {EOF} \cup (IF ended \/ Len(input) >= MaxLength THEN {} ELSE S)
  /\ ended' = (ended \/ current' = EOF)
  /\ input' = IF current' = EOF \/ cursor < Len(input) THEN input ELSE Append(input, current')

\* get reads it, and adds it to the string of the token.
get(S) == /\ peek(S)
          /\ cursor' = IF current' = EOF THEN cursor ELSE cursor + 1
          /\ chars_read' = chars_read + 1
          /\ UNCHANGED adapter
Noted == token_string' = IF current' = EOF THEN token_string ELSE Append(token_string, current')

\* get and then unget.
getunget(S) == peek(S) /\ UNCHANGED <<adapter, cursor, chars_read, token_string>>

Goto(label) == pc' = label
Return(t) == token' = t /\ pc' = "token"
Fail == Return("parse_error")

-----------------------------------------------------------------------------
\* scan: blanks are skipped, and the byte behind them tells the kind.  A
\* string or a number starts with reset.
scan ==
  /\ pc = "scan"
  /\ get(IF chars_read = 0 THEN FirstBytes ELSE IF Len(input) < MaxStart THEN LaterBytes ELSE {})
  /\ IF current' \in Digit \cup {Minus, Quote} THEN token_string' = <<current'>> ELSE Noted
  /\ \/ current' \in Blank /\ Goto("scan") /\ UNCHANGED <<token, token_buffer, expected>>
     \/ /\ current' \in DOMAIN Structural
        /\ Return(Structural[current']) /\ UNCHANGED <<token_buffer, expected>>
     \/ /\ current' \in DOMAIN Literals
        /\ token' = Literals[current'][1] /\ expected' = Literals[current'][2]
        /\ Goto("literal") /\ UNCHANGED token_buffer
     \/ /\ current' = Quote
        /\ token' = "value_string" /\ token_buffer' = << >>
        /\ Goto("string") /\ UNCHANGED expected
     \/ /\ current' \in Digit \cup {Minus}
        /\ token' = IF current' = Minus THEN "value_integer" ELSE "value_unsigned"
        /\ token_buffer' = <<current'>>
        /\ Goto(IF current' = Minus THEN "minus" ELSE IF current' \in NonZero THEN "any1" ELSE "zero")
        /\ UNCHANGED expected
     \/ current' \in {0, EOF} /\ Return("end_of_input") /\ UNCHANGED <<token_buffer, expected>>
     \/ /\ current' \notin Blank \cup DOMAIN Structural \cup DOMAIN Literals \cup Digit
                             \cup {Quote, Minus, 0, EOF}
        /\ Fail /\ UNCHANGED <<token_buffer, expected>>
  /\ UNCHANGED <<value, codepoint, codepoint1>>

scan_literal ==
  /\ pc = "literal"
  /\ get({Head(expected), \h78})
  /\ Noted
  /\ IF current' # Head(expected) THEN Fail /\ UNCHANGED expected
     ELSE /\ expected' = Tail(expected)
          /\ Goto(IF expected' = << >> THEN "token" ELSE "literal") /\ UNCHANGED token
  /\ UNCHANGED <<token_buffer, value, codepoint, codepoint1>>

-----------------------------------------------------------------------------
\* Bytes that stand for one character of a string, by the first of them: the
\* ranges that next_byte_in_range is given for those behind it.
Inner == <<\h80, \hBF>>

\* Mutant: overlong forms of three bytes are let through.
RangesOverlong(first) ==
  CASE first \in \hC2..\hDF -> <<Inner>>
    [] first = \hED -> <<<<\h80, \h9F>>, Inner>>
    [] first \in \hE0..\hEC \cup \hEE..\hEF -> <<Inner, Inner>>
    [] first = \hF0 -> <<<<\h90, \hBF>>, Inner, Inner>>
    [] first \in \hF1..\hF3 -> <<Inner, Inner, Inner>>
    [] first = \hF4 -> <<<<\h80, \h8F>>, Inner, Inner>>
    [] OTHER -> << >>

Ranges(first) ==
  CASE first \in \hC2..\hDF -> <<Inner>>
    [] first = \hE0 -> <<<<\hA0, \hBF>>, Inner>>
    [] first = \hED -> <<<<\h80, \h9F>>, Inner>>
    [] first \in \hE1..\hEC \cup \hEE..\hEF -> <<Inner, Inner>>
    [] first = \hF0 -> <<<<\h90, \hBF>>, Inner, Inner>>
    [] first \in \hF1..\hF3 -> <<Inner, Inner, Inner>>
    [] first = \hF4 -> <<<<\h80, \h8F>>, Inner, Inner>>
    [] OTHER -> << >>

\* A character of a string, or its end.
scan_string ==
  /\ pc = "string"
  /\ get(IF Len(token_buffer) < MaxCharacters THEN StringBytes ELSE {Quote})
  /\ Noted
  /\ \/ current' = Quote /\ Goto("token") /\ UNCHANGED <<token, token_buffer, expected>>
     \/ current' = Backslash /\ Goto("escape") /\ UNCHANGED <<token, token_buffer, expected>>
     \/ /\ current' \in \h20..\h7F \ {Quote, Backslash}
        /\ token_buffer' = Append(token_buffer, current')
        /\ Goto("string") /\ UNCHANGED <<token, expected>>
     \/ /\ Ranges(current') # << >>
        /\ token_buffer' = Append(token_buffer, current')
        /\ expected' = Ranges(current')
        /\ Goto("next_byte_in_range") /\ UNCHANGED token
     \/ /\ current' \in 0..\h1F \cup \h80..\hC1 \cup \hF5..\hFF \cup {EOF}
        /\ Fail /\ UNCHANGED <<token_buffer, expected>>
  /\ UNCHANGED <<value, codepoint, codepoint1>>

next_byte_in_range ==
  /\ pc = "next_byte_in_range"
  /\ get(TailBytes)
  /\ Noted
  /\ IF Head(expected)[1] <= current' /\ current' <= Head(expected)[2]
     THEN /\ token_buffer' = Append(token_buffer, current')
          /\ expected' = Tail(expected)
          /\ Goto(IF expected' = << >> THEN "string" ELSE "next_byte_in_range")
          /\ UNCHANGED token
     ELSE Fail /\ UNCHANGED <<token_buffer, expected>>
  /\ UNCHANGED <<value, codepoint, codepoint1>>

Escaped == [c \in {Quote, Backslash, \h2F, \h62, \h66, \h6E, \h72, \h74} |->
              CASE c = \h62 -> \h08 [] c = \h66 -> \h0C [] c = \h6E -> \h0A
                [] c = \h72 -> \h0D [] c = \h74 -> \h09 [] OTHER -> c]

\* The byte behind a backslash.
Escape ==
  /\ pc = "escape"
  /\ get(DOMAIN Escaped \cup {\h75, \h78})
  /\ Noted
  /\ \/ /\ current' \in DOMAIN Escaped
        /\ token_buffer' = Append(token_buffer, Escaped[current'])
        /\ Goto("string") /\ UNCHANGED <<token, locals>>
     \/ /\ current' = \h75
        /\ codepoint' = 0 /\ codepoint1' = 0 /\ expected' = <<12, 8, 4, 0>>
        /\ Goto("get_codepoint") /\ UNCHANGED <<token, token_buffer>>
     \/ /\ current' \notin DOMAIN Escaped \cup {\h75}
        /\ Fail /\ UNCHANGED <<token_buffer, locals>>
  /\ UNCHANGED value

HexValue(c) == CASE c \in \h30..\h39 -> c - \h30
                 [] c \in \h41..\h46 -> c - \h37
                 [] c \in \h61..\h66 -> c - \h57
                 [] OTHER -> -1

\* A digit of get_codepoint; a byte that is none makes the string invalid.
get_codepoint ==
  /\ pc = "get_codepoint"
  /\ get(HexBytes[Head(expected)])
  /\ Noted
  /\ IF HexValue(current') = -1 THEN Fail /\ UNCHANGED <<codepoint, expected>>
     ELSE /\ codepoint' = codepoint + HexValue(current') * 2^Head(expected)
          /\ expected' = Tail(expected)
          /\ Goto(IF expected' = << >> THEN "surrogate" ELSE "get_codepoint")
          /\ UNCHANGED token
  /\ UNCHANGED <<token_buffer, value, codepoint1>>

\* The bytes of a code point.
Low(cp, shift) == \h80 + ((cp \div 2^shift) % 2^6)
Bytes(cp) == CASE cp < \h80 -> <<cp>>
               [] cp \in \h80..\h7FF -> <<\hC0 + cp \div 2^6, Low(cp, 0)>>
               [] cp \in \h800..\hFFFF -> <<\hE0 + cp \div 2^12, Low(cp, 6), Low(cp, 0)>>
               [] OTHER -> <<\hF0 + cp \div 2^18, Low(cp, 12), Low(cp, 6), Low(cp, 0)>>

\* Four digits are read: a code point, one half of a pair, or none of them.
Surrogate ==
  /\ pc = "surrogate"
  /\ \/ /\ codepoint1 # 0 /\ codepoint \in \hDC00..\hDFFF
        /\ token_buffer' = token_buffer \o Bytes((codepoint1 * 2^10 + codepoint) - \h35FDC00)
        /\ Goto("string") /\ UNCHANGED <<token, locals>>
     \/ /\ codepoint1 = 0 /\ codepoint \in \hD800..\hDBFF
        /\ codepoint1' = codepoint
        /\ Goto("pair") /\ UNCHANGED <<token, token_buffer, expected, codepoint>>
     \/ /\ codepoint1 = 0 /\ codepoint \notin \hD800..\hDFFF
        /\ token_buffer' = token_buffer \o Bytes(codepoint)
        /\ Goto("string") /\ UNCHANGED <<token, locals>>
     \/ /\ (codepoint1 # 0) # (codepoint \in \hDC00..\hDFFF)
        /\ codepoint1 # 0 \/ codepoint \in \hDC00..\hDFFF
        /\ Fail /\ UNCHANGED <<token_buffer, locals>>
  /\ UNCHANGED <<adapter, input, ended, cursor, current, chars_read, token_string, value>>

\* Behind the first half of a pair there must be another escape.
Pair ==
  /\ pc \in {"pair", "pair_u"}
  /\ get({Backslash, \h75})
  /\ Noted
  /\ \/ /\ pc = "pair" /\ current' = Backslash
        /\ Goto("pair_u") /\ UNCHANGED <<token, locals>>
     \/ /\ pc = "pair_u" /\ current' = \h75
        /\ codepoint' = 0 /\ expected' = <<12, 8, 4, 0>>
        /\ Goto("get_codepoint") /\ UNCHANGED <<token, codepoint1>>
     \/ /\ current' # (IF pc = "pair" THEN Backslash ELSE \h75)
        /\ Fail /\ UNCHANGED locals
  /\ UNCHANGED <<token_buffer, value>>

-----------------------------------------------------------------------------
\* The states of scan_number, by the label of the code.
IntegerPart(state, c) ==
  CASE state = "minus" /\ c = \h30 -> "zero"
    [] state = "minus" /\ c \in NonZero -> "any1"
    [] state = "any1" /\ c \in Digit -> "any1"
    [] state # "minus" /\ c = Point -> "decimal1"
    [] state # "minus" /\ c \in Exponent -> "exponent"
    [] OTHER -> IF state = "minus" THEN "error" ELSE "done"

FractionPart(state, c) ==
  CASE c \in Digit -> "decimal2"
    [] state = "decimal2" /\ c \in Exponent -> "exponent"
    [] OTHER -> IF state = "decimal2" THEN "done" ELSE "error"

ExponentPart(state, c) ==
  CASE c \in Digit -> "any2"
    [] state = "exponent" /\ c \in {Plus, Minus} -> "sign"
    [] OTHER -> IF state = "any2" THEN "done" ELSE "error"

NumberState(state, c) ==
  CASE state \in {"minus", "zero", "any1"} -> IntegerPart(state, c)
    [] state \in {"decimal1", "decimal2"} -> FractionPart(state, c)
    [] state \in {"exponent", "sign", "any2"} -> ExponentPart(state, c)

NumberStates == {"minus", "zero", "any1", "decimal1", "decimal2", "exponent", "sign", "any2"}

\* The value of decimal digits.
Decimal(digits) == FoldLeft(LAMBDA n, c : 10 * n + (c - \h30), 0, digits)

\* scan_number_done: the conversion, and what is too large becomes a float.
\* The value of a float is what strtod makes of its text: here the text.
Convert ==
  LET magnitude == Decimal(IF token = "value_integer" THEN Tail(token_buffer) ELSE token_buffer)
      x == IF token = "value_integer" THEN -magnitude ELSE magnitude
      fits == CASE token = "value_unsigned" -> x <= MaxUnsigned
                [] token = "value_integer" -> -x <= MaxInteger + 1
                [] OTHER -> FALSE
  IN  IF fits THEN value' = x /\ Return(token)
              ELSE value' = token_buffer /\ Return("value_float")

\* A state of scan_number; the byte behind the number is put back.
scan_number ==
  /\ pc \in NumberStates
  /\ LET bytes == IF Len(input) < MaxStart THEN NumberBytes ELSE {\h2C}
     IN  \/ /\ get(bytes)
            /\ NumberState(pc, current') \in NumberStates
            /\ token_buffer' = Append(token_buffer, current')
            /\ Goto(NumberState(pc, current'))
            /\ token' = IF pc' \in {"decimal1", "exponent"} THEN "value_float" ELSE token
            /\ Noted /\ UNCHANGED value
         \/ /\ get(bytes)
            /\ NumberState(pc, current') = "error"
            /\ Fail /\ Noted /\ UNCHANGED <<token_buffer, value>>
         \/ /\ getunget(bytes)
            /\ NumberState(pc, current') = "done"
            /\ Convert /\ UNCHANGED token_buffer
  /\ UNCHANGED locals

\* The parser asks for the next token, unless there was an error or the end.
NextToken == /\ pc = "token"
             /\ token \notin {"parse_error", "end_of_input"}
             /\ Goto("scan")
             /\ UNCHANGED <<adapter, input, ended, cursor, current, chars_read, token_string,
                            token_buffer, value, token, locals>>

Next == \/ scan \/ scan_literal
        \/ scan_string \/ next_byte_in_range \/ Escape \/ get_codepoint \/ Surrogate \/ Pair
        \/ scan_number \/ NextToken

Spec == Init /\ [][Next]_vars
-----------------------------------------------------------------------------
\* Ends that turn the beginning of a text into a text, if anything does.
Seconds == {<<\h80>>, <<\h90>>, <<\hA0>>}
Ends == {<< >>, <<\h6E>>} \cup {t \o e : t \in Seconds, e \in {<< >>, <<\h80>>, <<\h80, \h80>>}}

(***************************************************************************)
(* A string is accepted if and only if it is well-formed: its UTF-8 is the *)
(* shortest form of characters that exist, its control characters and its  *)
(* escapes are as the grammar has them and its surrogates come in pairs;   *)
(* and what move_string gives is what its text stands for                  *)
(* (json.hpp:2051-2494).                                                   *)
(***************************************************************************)
StringsAreDecoded ==
  pc = "token" /\ token_string # << >> /\ token_string[1] = Quote =>
    /\ token = "value_string" =>
         Decoded(SubSeq(token_string, 2, Len(token_string) - 1)) = {token_buffer}
    /\ token = "parse_error" /\ current # EOF =>
         \A e \in Ends : Decoded(Tail(token_string) \o e) = {}

(***************************************************************************)
(* A number token is the longest beginning of the input that can be one,   *)
(* and it is a number of the grammar; it is an integer if it has neither a *)
(* fraction nor an exponent and fits, unsigned if it has no sign either.   *)
(* The byte behind it is read again by the next scan (json.hpp:2551-2876). *)
(***************************************************************************)
NumbersAreScanned ==
  pc = "token" /\ token_string # << >> /\ token_string[1] \in Digit \cup {Minus} =>
    /\ token = "parse_error" /\ current # EOF => ~IsBeginning(token_string)
    /\ token \in {"value_unsigned", "value_integer", "value_float"} =>
         /\ IsNumber(token_string) /\ token_string = token_buffer
         /\ current # EOF => ~IsBeginning(Append(token_string, current))
         /\ token # "value_float" =>
              /\ <<IF token = "value_integer" THEN 1 ELSE 0, Len(token_string), Len(token_string)>>
                   \in Parts(token_string)
              /\ (token = "value_integer") = (token_string[1] = Minus)
              /\ value \in -(MaxInteger + 1)..MaxUnsigned
         /\ token = "value_float" /\ (\A i \in 1..Len(token_string) : token_string[i] \in Digit \cup {Minus})
              => \/ token_string[1] = Minus /\ DecimalValue(Tail(token_string)) > MaxInteger + 1
                 \/ token_string[1] # Minus /\ DecimalValue(token_string) > MaxUnsigned
=============================================================================
