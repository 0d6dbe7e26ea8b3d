------------------------------ MODULE JsonText ------------------------------
(***************************************************************************)
(* What a JSON text stands for, by the grammar and not by any code: a text *)
(* is a sequence of bytes in UTF-8.  JsonLexer and JsonSerializer are      *)
(* checked against these definitions.                                      *)
(*                                                                         *)
(* A value is <<"null">>, <<"boolean", b>>, <<"integer", n>>, <<"float",   *)
(* negative, digits, exponent>>, <<"string", bytes>>, <<"array", sequence  *)
(* of values>> or <<"object", sequence of <<key, value>> >>.               *)
(***************************************************************************)
EXTENDS Integers, Sequences, SequencesExt

Quote == \h22
Backslash == \h5C
Digit == \h30..\h39
Minus == \h2D
Plus == \h2B
Point == \h2E
Exponent == {\h45, \h65}
Blank == {\h20, \h09, \h0A, \h0D}

From(s, i) == SubSeq(s, i, Len(s))
UpTo(s, i) == SubSeq(s, 1, i)

-----------------------------------------------------------------------------
\* The number that the bits of UTF-8 make, by the length.
Number(w) ==
  CASE Len(w) = 1 -> w[1]
    [] Len(w) = 2 -> (w[1] % 2^5) * 2^6 + (w[2] % 2^6)
    [] Len(w) = 3 -> (w[1] % 2^4) * 2^12 + (w[2] % 2^6) * 2^6 + (w[3] % 2^6)
    [] Len(w) = 4 -> (w[1] % 2^3) * 2^18 + (w[2] % 2^6) * 2^12 + (w[3] % 2^6) * 2^6 + (w[4] % 2^6)

Surrogates == \hD800..\hDFFF
Leads == <<\h00..\h7F, \hC0..\hDF, \hE0..\hEF, \hF0..\hF7>>
Codes == <<\h00..\h7F, \h80..\h7FF, \h800..\hFFFF \ Surrogates, \h10000..\h10FFFF>>

\* A character in its shortest form.
IsCharacter(w) == /\ Len(w) \in 1..4
                  /\ w[1] \in Leads[Len(w)]
                  /\ \A i \in 2..Len(w) : w[i] \in \h80..\hBF
                  /\ Number(w) \in Codes[Len(w)]

Digit16(c) == IF c \in Digit THEN c - \h30 ELSE (c % 32) + 9
Hex(w, i) == LET d(k) == Digit16(w[i + k])
             IN  d(0) * 2^12 + d(1) * 2^8 + d(2) * 2^4 + d(3)
IsUnicodeEscape(w, i) == /\ w[i] = Backslash /\ w[i + 1] = \h75
                         /\ \A k \in i + 2..i + 5 : w[k] \in Digit \cup \h41..\h46 \cup \h61..\h66

\* One character of a string: as it is, behind a backslash, by its number or
\* by a pair of numbers.
IsUnit(w) ==
  \/ /\ IsCharacter(w)
     /\ ~(Len(w) = 1 /\ w[1] \in 0..\h1F \cup {Quote, Backslash})
  \/ /\ Len(w) = 2 /\ w[1] = Backslash
     /\ w[2] \in {Quote, Backslash, \h2F, \h62, \h66, \h6E, \h72, \h74}
  \/ /\ Len(w) = 6 /\ IsUnicodeEscape(w, 1)
     /\ Hex(w, 3) \notin Surrogates
  \/ /\ Len(w) = 12 /\ IsUnicodeEscape(w, 1) /\ IsUnicodeEscape(w, 7)
     /\ Hex(w, 3) \in \hD800..\hDBFF /\ Hex(w, 9) \in \hDC00..\hDFFF

Tails(n, k) == [i \in 1..k |-> \h80 + ((n \div 2^(6 * (k - i))) % 2^6)]
InUTF8(n) == LET k == CHOOSE k \in 1..4 : n \in Codes[k]
             IN  IF k = 1 THEN <<n>>
                 ELSE <<(CHOOSE b \in Leads[k] : \A c \in Leads[k] : b <= c) + n \div 2^(6 * (k - 1))>>
                        \o Tails(n, k - 1)

UnitDecoded(w) ==
  CASE w[1] # Backslash -> w
    [] Len(w) = 2 -> CASE w[2] = \h62 -> <<8>> [] w[2] = \h74 -> <<9>> [] w[2] = \h6E -> <<10>>
                       [] w[2] = \h66 -> <<12>> [] w[2] = \h72 -> <<13>> [] OTHER -> <<w[2]>>
    [] Len(w) = 6 -> InUTF8(Hex(w, 3))
    [] Len(w) = 12 -> InUTF8(\h10000 + (Hex(w, 3) - \hD800) * 2^10 + (Hex(w, 9) - \hDC00))

\* What the text of a string may stand for: nothing unless it is well-formed.
RECURSIVE Decoded(_)
Decoded(s) ==
  IF s = << >> THEN {<< >>}
  ELSE UNION {{UnitDecoded(UpTo(s, n)) \o d : d \in Decoded(From(s, n + 1))}
              : n \in {n \in {1, 2, 3, 4, 6, 12} : n <= Len(s) /\ IsUnit(UpTo(s, n))}}

-----------------------------------------------------------------------------
\* Numbers: where the sign, the integer and the fraction of w may end.
AreDigits(w) == w # << >> /\ \A i \in 1..Len(w) : w[i] \in Digit
IsInteger(w) == AreDigits(w) /\ (w[1] = \h30 => Len(w) = 1)
IsFraction(w) == w = << >> \/ (w[1] = Point /\ AreDigits(Tail(w)))
IsExponent(w) == \/ w = << >>
                 \/ /\ w[1] \in Exponent /\ Len(w) > 1
                    /\ AreDigits(From(w, IF w[2] \in {Plus, Minus} THEN 3 ELSE 2))

Parts(w) == {p \in {0, 1} \X (0..Len(w)) \X (0..Len(w)) :
              /\ p[1] <= p[2] /\ p[2] <= p[3]
              /\ UpTo(w, p[1]) = (IF p[1] = 1 THEN <<Minus>> ELSE << >>)
              /\ IsInteger(SubSeq(w, p[1] + 1, p[2]))
              /\ IsFraction(SubSeq(w, p[2] + 1, p[3]))
              /\ IsExponent(From(w, p[3] + 1))}
IsNumber(w) == Parts(w) # {}
IsBeginning(w) == \E e \in {<< >>, <<\h30>>, <<\h30, \h30>>} : IsNumber(w \o e)

DecimalValue(digits) == FoldLeft(LAMBDA n, c : 10 * n + (c - \h30), 0, digits)

\* 0.digits * 10^exponent with no zero at either end of the digits.
RECURSIVE Normal(_, _)
Normal(digits, exponent) ==
  CASE digits = << >> -> <<digits, 0>>
    [] digits # << >> /\ digits[1] = \h30 -> Normal(Tail(digits), exponent - 1)
    [] digits # << >> /\ digits[1] # \h30 /\ digits[Len(digits)] = \h30 -> Normal(Front(digits), exponent)
    [] OTHER -> <<digits, exponent>>

NumberValue(w) ==
  LET p == CHOOSE p \in Parts(w) : TRUE
      whole == SubSeq(w, p[1] + 1, p[2])
      fraction == SubSeq(w, p[2] + 2, p[3])
      e == From(w, p[3] + 1)
      power == CASE e = << >> -> 0
                 [] e # << >> /\ e[2] = Minus -> -DecimalValue(From(e, 3))
                 [] e # << >> /\ e[2] = Plus -> DecimalValue(From(e, 3))
                 [] OTHER -> DecimalValue(From(e, 2))
      sign == IF p[1] = 1 THEN -1 ELSE 1
  IN  IF p[2] = Len(w) THEN <<"integer", sign * DecimalValue(whole)>>
      ELSE <<"float", p[1] = 1>> \o Normal(whole \o fraction, power + Len(whole))

-----------------------------------------------------------------------------
\* The values a text may stand for, between brackets split at the commas.
Trimmed(s) == LET solid == {i \in 1..Len(s) : s[i] \notin Blank}
              IN  IF solid = {} THEN << >>
                  ELSE SubSeq(s, CHOOSE i \in solid : \A j \in solid : i <= j,
                                 CHOOSE i \in solid : \A j \in solid : j <= i)
Between(s, open, close) == Len(s) >= 2 /\ s[1] = open /\ s[Len(s)] = close
Inside(s) == SubSeq(s, 2, Len(s) - 1)
Places(s, c) == {i \in 1..Len(s) : s[i] = c}

RECURSIVE Values(_), Elements(_), Members(_)
Values(text) ==
  LET s == Trimmed(text)
  IN  CASE s = <<\h6E, \h75, \h6C, \h6C>> -> {<<"null">>}
        [] s = <<\h74, \h72, \h75, \h65>> -> {<<"boolean", TRUE>>}
        [] s = <<\h66, \h61, \h6C, \h73, \h65>> -> {<<"boolean", FALSE>>}
        [] Between(s, Quote, Quote) -> {<<"string", d>> : d \in Decoded(Inside(s))}
        [] Between(s, \h5B, \h5D) ->
             {<<"array", e>> : e \in IF Trimmed(Inside(s)) = << >> THEN {<< >>} ELSE Elements(Inside(s))}
        [] Between(s, \h7B, \h7D) ->
             {<<"object", e>> : e \in IF Trimmed(Inside(s)) = << >> THEN {<< >>} ELSE Members(Inside(s))}
        [] s # << >> /\ s[1] \in Digit \cup {Minus} -> IF IsNumber(s) THEN {NumberValue(s)} ELSE {}
        [] OTHER -> {}

Elements(s) ==
  {<<v>> : v \in Values(s)}
    \cup UNION {{<<v>> \o e : v \in Values(UpTo(s, i - 1)), e \in Elements(From(s, i + 1))}
                : i \in {i \in Places(s, \h2C) : Values(UpTo(s, i - 1)) # {}}}

Members(s) ==
  LET member(t) == UNION {{<<k[2], v>> : k \in {k \in Values(UpTo(t, i - 1)) : k[1] = "string"},
                                         v \in Values(From(t, i + 1))} : i \in Places(t, \h3A)}
  IN  {<<m>> : m \in member(s)}
        \cup UNION {{<<m>> \o e : m \in member(UpTo(s, i - 1)), e \in Members(From(s, i + 1))}
                    : i \in {i \in Places(s, \h2C) : member(UpTo(s, i - 1)) # {}}}
=============================================================================
