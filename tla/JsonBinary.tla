----------------------------- MODULE JsonBinary -----------------------------
(***************************************************************************)
(* Base/include/json.hpp, binary_writer and binary_reader: values as CBOR, *)
(* MessagePack and UBJSON.                                                 *)
(*                                                                         *)
(* A value is <<"null">>, <<"boolean", b>>, <<"unsigned", n>>, <<"integer",*)
(* n>> for an n of a signed type that is not negative, <<"negative", m>>   *)
(* for -1 - m, <<"float", bytes>>, <<"string", bytes>>, <<"array",         *)
(* sequence>> or <<"object", function>>.  A natural number is the shortest *)
(* sequence of its bytes, the most significant first, so that all of the   *)
(* 64 bits are there.                                                      *)
(***************************************************************************)
EXTENDS Integers, Sequences, SequencesExt, TLC

CONSTANTS Samples,    \* BOUND: the values that are written
          Foreign     \* BOUND: inputs of other writers, <<format, bytes, value>>

Size(n) == IF n < 256 THEN <<n>> ELSE <<n \div 256, n % 256>>     \* of fewer than 2^16
Pad(n, k) == [i \in 1..(k - Len(n)) |-> 0] \o n
Complement(n) == [i \in 1..Len(n) |-> 255 - n[i]]
Minimal(n) == LET nonzero == {i \in 1..Len(n) : n[i] # 0}
              IN  IF nonzero = {} THEN <<0>>
                  ELSE SubSeq(n, CHOOSE i \in nonzero : \A j \in nonzero : i <= j, Len(n))

Small(n, limit) == Len(n) = 1 /\ n[1] <= limit

\* uint8_t, uint16_t, uint32_t and uint64_t are the types 0 to 3.
Width(type) == 2^type
FitsUnsigned(n, type) == Len(n) <= Width(type)
FitsSigned(n, type) == Len(n) < Width(type) \/ (Len(n) = Width(type) /\ n[1] < 128)
Least(Fits(_, _), n, types) == CHOOSE t \in types : Fits(n, t) /\ \A u \in types : Fits(n, u) => t <= u

Concat(s) == FoldLeft(LAMBDA a, b : a \o b, << >>, s)

\* The keys of an object in one order, as the map has them.
RECURSIVE InOrder(_)
InOrder(keys) == IF keys = {} THEN << >>
                 ELSE LET first == CHOOSE k \in keys : TRUE IN <<first>> \o InOrder(keys \ {first})
Entries(f) == InOrder(DOMAIN f)

-----------------------------------------------------------------------------
\* A type in the upper bits of a byte and a number in the lower ones or in the
\* bytes behind it: every kind of value with a number starts this way.
\* Mutant: 24 is written into the byte itself.
CborHeadShort(first, n) ==
  IF Small(n, 24) THEN <<first + n[1]>>
  ELSE LET type == Least(FitsUnsigned, n, 0..3)
       IN  <<first + \h18 + type>> \o Pad(n, Width(type))

CborHead(first, n) ==
  IF Small(n, \h17) THEN <<first + n[1]>>
  ELSE LET type == Least(FitsUnsigned, n, 0..3)
       IN  <<first + \h18 + type>> \o Pad(n, Width(type))

RECURSIVE write_cbor(_)
write_cbor(j) ==
  CASE j[1] = "null" -> <<\hF6>>
    [] j[1] = "boolean" -> <<IF j[2] THEN \hF5 ELSE \hF4>>
    [] j[1] \in {"unsigned", "integer"} -> CborHead(0, j[2])
    [] j[1] = "negative" -> CborHead(\h20, j[2])
    [] j[1] = "float" -> <<\hFB>> \o j[2]
    [] j[1] = "string" -> CborHead(\h60, Size(Len(j[2]))) \o j[2]
    [] j[1] = "array" -> CborHead(\h80, Size(Len(j[2]))) \o Concat([i \in 1..Len(j[2]) |-> write_cbor(j[2][i])])
    [] j[1] = "object" ->
         LET keys == Entries(j[2])
         IN  CborHead(\hA0, Size(Len(keys)))
               \o Concat([i \in 1..Len(keys) |-> write_cbor(<<"string", keys[i]>>) \o write_cbor(j[2][keys[i]])])

\* A small number in the byte itself, else a type and the number.
MsgpackHead(small, limit, first, types, n) ==
  IF Small(n, limit) THEN <<small + n[1]>>
  ELSE LET type == Least(FitsUnsigned, n, types)
       IN  <<first + type>> \o Pad(n, Width(type))

RECURSIVE write_msgpack(_)
write_msgpack(j) ==
  CASE j[1] = "null" -> <<\hC0>>
    [] j[1] = "boolean" -> <<IF j[2] THEN \hC3 ELSE \hC2>>
    [] j[1] \in {"unsigned", "integer"} -> MsgpackHead(0, 127, \hCC, 0..3, j[2])
    [] j[1] = "negative" ->
         IF Small(j[2], 31) THEN Complement(j[2])
         ELSE LET type == Least(FitsSigned, j[2], 0..3)
              IN  <<\hD0 + type>> \o Complement(Pad(j[2], Width(type)))
    [] j[1] = "float" -> <<\hCB>> \o j[2]
    [] j[1] = "string" -> MsgpackHead(\hA0, 31, \hD9, 0..2, Size(Len(j[2]))) \o j[2]
    [] j[1] = "array" -> MsgpackHead(\h90, 15, \hDB, 1..2, Size(Len(j[2])))
                           \o Concat([i \in 1..Len(j[2]) |-> write_msgpack(j[2][i])])
    [] j[1] = "object" ->
         LET keys == Entries(j[2])
         IN  MsgpackHead(\h80, 15, \hDD, 1..2, Size(Len(keys)))
               \o Concat([i \in 1..Len(keys) |-> write_msgpack(<<"string", keys[i]>>) \o write_msgpack(j[2][keys[i]])])

-----------------------------------------------------------------------------
\* The types of UBJSON, by their letters, and its marks.
Int8 == \h69
UInt8 == \h55
Int16 == \h49
Int32 == \h6C
Int64 == \h4C
Float32 == \h64
Float64 == \h44
Char == \h43
Text == \h53
True == \h54
False == \h46
Null == \h5A
Noop == \h4E
OpenArray == \h5B
CloseArray == \h5D
OpenObject == \h7B
CloseObject == \h7D
Dollar == \h24
Count == \h23

Letter == [type \in 0..3 |-> CASE type = 0 -> Int8 [] type = 1 -> Int16 [] type = 2 -> Int32 [] type = 3 -> Int64]
TypeOf == [c \in {Int8, UInt8, Int16, Int32, Int64} |-> CASE c = Int16 -> 1 [] c = Int32 -> 2 [] c = Int64 -> 3 [] OTHER -> 0]

\* ubjson_prefix of a number: a signed type, or uint8_t where that is enough.
UbjsonNumber(j) ==
  CASE FitsSigned(j[2], 0) -> Int8
    [] ~FitsSigned(j[2], 0) /\ j[1] # "negative" /\ FitsUnsigned(j[2], 0) -> UInt8
    [] OTHER -> IF FitsSigned(j[2], 3) THEN Letter[Least(FitsSigned, j[2], 0..3)] ELSE Int64

ubjson_prefix(j) ==
  CASE j[1] = "null" -> Null
    [] j[1] = "boolean" -> IF j[2] THEN True ELSE False
    [] j[1] \in {"unsigned", "integer", "negative"} -> UbjsonNumber(j)
    [] j[1] = "float" -> Float64
    [] j[1] = "string" -> Text
    [] j[1] = "array" -> OpenArray
    [] j[1] = "object" -> OpenObject

Prefix(add_prefix, c) == IF add_prefix THEN <<c>> ELSE << >>

\* A number larger than int64_t is an exception, a -1 in the output.
Exception == -1
write_number_with_ubjson_prefix(j, add_prefix) ==
  LET type == TypeOf[UbjsonNumber(j)]
  IN  IF ~FitsSigned(j[2], 3) THEN <<Exception>>
      ELSE Prefix(add_prefix, UbjsonNumber(j))
             \o (IF j[1] = "negative" THEN Complement(Pad(j[2], Width(type))) ELSE Pad(j[2], Width(type)))
UbjsonSize(n) == write_number_with_ubjson_prefix(<<"unsigned", Size(n)>>, TRUE)

SamePrefix(elements) ==
  elements # << >> /\ \A k \in 1..Len(elements) : ubjson_prefix(elements[k]) = ubjson_prefix(elements[1])

\* What stands in front of the elements: their type, if all have the same
\* one, and their number.  Without a number an end mark follows them.
UbjsonHead(elements, use_count, use_type) ==
  (IF use_type /\ SamePrefix(elements) THEN <<Dollar, ubjson_prefix(elements[1])>> ELSE << >>)
    \o (IF use_count THEN <<Count>> \o UbjsonSize(Len(elements)) ELSE << >>)

RECURSIVE write_ubjson(_, _, _, _)
write_ubjson(j, use_count, use_type, add_prefix) ==
  CASE j[1] \in {"null", "boolean"} -> Prefix(add_prefix, ubjson_prefix(j))
    [] j[1] \in {"unsigned", "integer", "negative"} -> write_number_with_ubjson_prefix(j, add_prefix)
    [] j[1] = "float" -> Prefix(add_prefix, Float64) \o j[2]
    [] j[1] = "string" -> Prefix(add_prefix, Text) \o UbjsonSize(Len(j[2])) \o j[2]
    [] j[1] = "array" ->
         LET prefix_required == ~(use_type /\ SamePrefix(j[2]))
         IN  Prefix(add_prefix, OpenArray) \o UbjsonHead(j[2], use_count, use_type)
               \o Concat([k \in 1..Len(j[2]) |-> write_ubjson(j[2][k], use_count, use_type, prefix_required)])
               \o (IF use_count THEN << >> ELSE <<CloseArray>>)
    [] j[1] = "object" ->
         LET keys == Entries(j[2])
             elements == [k \in 1..Len(keys) |-> j[2][keys[k]]]
             prefix_required == ~(use_type /\ SamePrefix(elements))
         IN  Prefix(add_prefix, OpenObject) \o UbjsonHead(elements, use_count, use_type)
               \o Concat([k \in 1..Len(keys) |-> UbjsonSize(Len(keys[k])) \o keys[k]
                              \o write_ubjson(elements[k], use_count, use_type, prefix_required)])
               \o (IF use_count THEN << >> ELSE <<CloseObject>>)

-----------------------------------------------------------------------------
(***************************************************************************)
(* The reader.  A read of b from a position returns a value and the        *)
(* position behind it, which is 0 after an exception.                      *)
(***************************************************************************)
Thrown == <<<<"discarded">>, 0>>
Byte(b, at) == IF at \in 1..Len(b) THEN b[at] ELSE Exception

get_number(b, at, type) ==
  IF at + Width(type) - 1 <= Len(b) THEN SubSeq(b, at, at + Width(type) - 1) ELSE << >>
Unsigned(b, at, type) ==
  LET n == get_number(b, at, type)
  IN  IF n = << >> THEN Thrown ELSE <<<<"unsigned", Minimal(n)>>, at + Width(type)>>
Signed(b, at, type) ==
  LET n == get_number(b, at, type)
  IN  IF n = << >> THEN Thrown
      ELSE <<IF n[1] < 128 THEN <<"integer", Minimal(n)>> ELSE <<"negative", Minimal(Complement(n))>>,
             at + Width(type)>>
\* A natural number taken for a negative one; one of 64 bits wraps.
MinusOneMinus(r, type) ==
  IF r[2] = 0 THEN Thrown
  ELSE <<IF FitsSigned(r[1][2], 3) THEN <<"negative", r[1][2]>>
         ELSE <<"integer", Minimal(Complement(r[1][2]))>>, r[2]>>
\* A float is the eight bytes of a double: sign, exponent of 11 bits and the
\* fraction, here the first 23 of its 52 bits.  A narrower one is widened,
\* with a one in front of the fraction made out of a subnormal one.
Double(sign, exp, mant) ==
  <<128 * sign + exp \div 16, 16 * (exp % 16) + mant \div 2^19, (mant \div 2^11) % 256,
    (mant \div 8) % 256, 32 * (mant % 8), 0, 0, 0>>
Widened(sign, exp, mant, all_ones, bias) ==
  LET k == CHOOSE k \in 0..22 : mant \div 2^k = 1
  IN  CASE exp = all_ones -> Double(sign, 2047, IF mant = 0 THEN 0 ELSE 2^22)     \* one quiet NaN for all
        [] exp = 0 /\ mant = 0 -> Double(sign, 0, 0)
        [] exp = 0 /\ mant # 0 -> Double(sign, 1023 + (k - 22) - bias, (mant - 2^k) * 2^(23 - k))
        [] OTHER -> Double(sign, (exp + 1023) - bias, mant)
AsDouble(n) ==
  CASE Len(n) = 2 -> Widened(n[1] \div 128, (n[1] \div 4) % 32, 2^13 * (256 * (n[1] % 4) + n[2]), 31, 15)
    [] Len(n) = 4 -> Widened(n[1] \div 128, 2 * (n[1] % 128) + n[2] \div 128,
                             65536 * (n[2] % 128) + 256 * n[3] + n[4], 255, 127)
    [] Len(n) = 8 -> n
Float(b, at, type) == IF get_number(b, at, type) = << >> THEN Thrown
                      ELSE <<<<"float", AsDouble(get_number(b, at, type))>>, at + Width(type)>>

\* A size; one too large for the input is as good as any other too large one.
Length(r, b) == IF Len(r[1][2]) = 1 THEN r[1][2][1]
                ELSE IF Len(r[1][2]) = 2 THEN 256 * r[1][2][1] + r[1][2][2] ELSE Len(b) + 1
get_string(b, r) ==
  IF r[2] = 0 \/ r[2] + Length(r, b) - 1 > Len(b) THEN Thrown
  ELSE <<<<"string", SubSeq(b, r[2], r[2] + Length(r, b) - 1)>>, r[2] + Length(r, b)>>
Lower(b, at, mask) == <<<<"unsigned", <<b[at] % mask>> >>, at + 1>>     \* of the byte itself

\* A string, from its first byte; chunks up to 0xFF, of any length.
RECURSIVE get_cbor_string(_, _), Chunks(_, _)
get_cbor_string(b, at) ==
  CASE Byte(b, at) \in \h60..\h77 -> get_string(b, Lower(b, at, 32))
    [] Byte(b, at) \in \h78..\h7B -> get_string(b, Unsigned(b, at + 1, b[at] - \h78))
    [] Byte(b, at) = \h7F -> Chunks(b, at + 1)
    [] OTHER -> Thrown
Chunks(b, at) ==
  IF Byte(b, at) = \hFF THEN <<<<"string", << >> >>, at + 1>>
  ELSE LET chunk == get_cbor_string(b, at)
           rest == Chunks(b, chunk[2])
       IN  IF chunk[2] = 0 \/ rest[2] = 0 THEN Thrown
           ELSE <<<<"string", chunk[1][2] \o rest[1][2]>>, rest[2]>>

\* The rest of an array or an object behind its first element.
Prepend(r, rest) == IF r[2] = 0 \/ rest[2] = 0 THEN Thrown
                    ELSE <<<<"array", <<r[1]>> \o rest[1][2]>>, rest[2]>>
\* insert keeps the first of two members with the same key, [] the last.
Insert(key, r, rest) == IF r[2] = 0 \/ rest[2] = 0 THEN Thrown
                        ELSE <<<<"object", (key[1][2] :> r[1]) @@ rest[1][2]>>, rest[2]>>
Assign(key, r, rest) == IF r[2] = 0 \/ rest[2] = 0 THEN Thrown
                        ELSE <<<<"object", rest[1][2] @@ (key[1][2] :> r[1])>>, rest[2]>>

RECURSIVE parse_cbor_internal(_, _), get_cbor_array(_, _, _), get_cbor_object(_, _, _)
get_cbor_array(b, at, len) ==      \* len is -1 for one that 0xFF ends
  CASE at = 0 -> Thrown
    [] at # 0 /\ len = 0 -> <<<<"array", << >> >>, at>>
    [] at # 0 /\ len = -1 /\ Byte(b, at) = \hFF -> <<<<"array", << >> >>, at + 1>>
    [] OTHER -> LET r == parse_cbor_internal(b, at)
                IN  IF r[2] = 0 THEN Thrown
                    ELSE Prepend(r, get_cbor_array(b, r[2], IF len = -1 THEN -1 ELSE len - 1))
get_cbor_object(b, at, len) ==
  CASE at = 0 -> Thrown
    [] at # 0 /\ len = 0 -> <<<<"object", << >> >>, at>>
    [] at # 0 /\ len = -1 /\ Byte(b, at) = \hFF -> <<<<"object", << >> >>, at + 1>>
    [] OTHER -> LET key == get_cbor_string(b, at)
                    r == parse_cbor_internal(b, key[2])
                IN  IF key[2] = 0 \/ r[2] = 0 THEN Thrown
                    ELSE IF len = -1 THEN Assign(key, r, get_cbor_object(b, r[2], -1))
                    ELSE Insert(key, r, get_cbor_object(b, r[2], len - 1))
parse_cbor_internal(b, at) ==
  LET c == Byte(b, at)
      number(first) == Unsigned(b, at + 1, c - first)
  IN  CASE c \in \h00..\h17 -> <<<<"unsigned", <<c>> >>, at + 1>>
        [] c \in \h18..\h1B -> number(\h18)
        [] c \in \h20..\h37 -> <<<<"negative", <<c - \h20>> >>, at + 1>>
        [] c \in \h38..\h3B -> MinusOneMinus(number(\h38), c - \h38)
        [] c \in \h60..\h7B \cup {\h7F} -> get_cbor_string(b, at)
        [] c \in \h80..\h97 -> get_cbor_array(b, at + 1, c - \h80)
        [] c \in \h98..\h9B -> get_cbor_array(b, number(\h98)[2], Length(number(\h98), b))
        [] c = \h9F -> get_cbor_array(b, at + 1, -1)
        [] c \in \hA0..\hB7 -> get_cbor_object(b, at + 1, c - \hA0)
        [] c \in \hB8..\hBB -> get_cbor_object(b, number(\hB8)[2], Length(number(\hB8), b))
        [] c = \hBF -> get_cbor_object(b, at + 1, -1)
        [] c \in {\hF4, \hF5} -> <<<<"boolean", c = \hF5>>, at + 1>>
        [] c = \hF6 -> <<<<"null">>, at + 1>>
        [] c \in {\hF9, \hFA, \hFB} -> Float(b, at + 1, c - \hF8)     \* half, float, double
        [] OTHER -> Thrown

get_msgpack_string(b, at) ==
  CASE Byte(b, at) \in \hA0..\hBF -> get_string(b, Lower(b, at, 32))
    [] Byte(b, at) \in \hD9..\hDB -> get_string(b, Unsigned(b, at + 1, b[at] - \hD9))
    [] OTHER -> Thrown

RECURSIVE parse_msgpack_internal(_, _), get_msgpack_array(_, _, _), get_msgpack_object(_, _, _)
get_msgpack_array(b, at, len) ==
  IF at = 0 THEN Thrown ELSE IF len = 0 THEN <<<<"array", << >> >>, at>>
  ELSE LET r == parse_msgpack_internal(b, at)
       IN  IF r[2] = 0 THEN Thrown ELSE Prepend(r, get_msgpack_array(b, r[2], len - 1))
get_msgpack_object(b, at, len) ==
  IF at = 0 THEN Thrown ELSE IF len = 0 THEN <<<<"object", << >> >>, at>>
  ELSE LET key == get_msgpack_string(b, at)
           r == parse_msgpack_internal(b, key[2])
       IN  IF key[2] = 0 \/ r[2] = 0 THEN Thrown
           ELSE Insert(key, r, get_msgpack_object(b, r[2], len - 1))
parse_msgpack_internal(b, at) ==
  LET c == Byte(b, at)
      number(first) == Unsigned(b, at + 1, (c - first) + 1)     \* from 16 bits on
  IN  CASE c \in \h00..\h7F -> <<<<"unsigned", <<c>> >>, at + 1>>
        [] c \in \h80..\h8F -> get_msgpack_object(b, at + 1, c % 16)
        [] c \in \h90..\h9F -> get_msgpack_array(b, at + 1, c % 16)
        [] c \in \hA0..\hBF \cup \hD9..\hDB -> get_msgpack_string(b, at)
        [] c = \hC0 -> <<<<"null">>, at + 1>>
        [] c \in {\hC2, \hC3} -> <<<<"boolean", c = \hC3>>, at + 1>>
        [] c \in {\hCA, \hCB} -> Float(b, at + 1, c - \hC8)
        [] c \in \hCC..\hCF -> Unsigned(b, at + 1, c - \hCC)
        [] c \in \hD0..\hD3 -> Signed(b, at + 1, c - \hD0)
        [] c \in \hDC..\hDD -> get_msgpack_array(b, number(\hDC)[2], Length(number(\hDC), b))
        [] c \in \hDE..\hDF -> get_msgpack_object(b, number(\hDE)[2], Length(number(\hDE), b))
        [] c \in \hE0..\hFF -> <<<<"negative", <<255 - c>> >>, at + 1>>
        [] OTHER -> Thrown

-----------------------------------------------------------------------------
\* Where the next byte is that is no N.
RECURSIVE get_ignore_noop(_, _)
get_ignore_noop(b, at) == IF Byte(b, at) = Noop THEN get_ignore_noop(b, at + 1) ELSE at

UbjsonInteger(b, at, c) == IF c = UInt8 THEN Unsigned(b, at, 0) ELSE Signed(b, at, TypeOf[c])

\* A length that is negative leaves nothing to read.
get_ubjson_string(b, at) ==
  IF Byte(b, at) \notin DOMAIN TypeOf THEN Thrown
  ELSE LET r == UbjsonInteger(b, at + 1, b[at])
       IN  IF r[1][1] = "negative" THEN <<<<"string", << >> >>, r[2]>> ELSE get_string(b, r)

\* The size and the type of the elements, -1 and 0 if they are not given, and
\* the position of the first element.
RECURSIVE get_ubjson_value(_, _, _)
get_ubjson_size_type(b, at) ==
  LET first == get_ignore_noop(b, at)
      second == get_ignore_noop(b, first + 2)
      size(k) == LET s == get_ignore_noop(b, k + 1)
                 IN  get_ubjson_value(b, s + 1, Byte(b, s))
  IN  CASE Byte(b, first) = Dollar ->
             IF Byte(b, second) # Count \/ size(second)[2] = 0 THEN <<-1, 0, 0>>
             ELSE <<Length(size(second), b), b[first + 1], size(second)[2]>>
        [] Byte(b, first) = Count ->
             IF size(first)[2] = 0 THEN <<-1, 0, 0>> ELSE <<Length(size(first), b), 0, size(first)[2]>>
        [] OTHER -> <<-1, 0, first>>

\* The next element: of the given type, or of the one its prefix tells.
Next1(b, at, type) == IF type # 0 THEN get_ubjson_value(b, at, type)
                      ELSE LET k == get_ignore_noop(b, at) IN get_ubjson_value(b, k + 1, Byte(b, k))

RECURSIVE get_ubjson_array(_, _, _, _), get_ubjson_object(_, _, _, _)
get_ubjson_array(b, at, len, type) ==
  CASE at = 0 -> Thrown
    [] at # 0 /\ (len = 0 \/ (len > 0 /\ type = Noop)) -> <<<<"array", << >> >>, at>>
    [] at # 0 /\ len = -1 /\ Byte(b, get_ignore_noop(b, at)) = CloseArray ->
         <<<<"array", << >> >>, get_ignore_noop(b, at) + 1>>
    [] OTHER -> LET r == Next1(b, at, type)
                IN  IF r[2] = 0 THEN Thrown
                    ELSE Prepend(r, get_ubjson_array(b, r[2], IF len = -1 THEN -1 ELSE len - 1, type))
get_ubjson_object(b, at, len, type) ==
  LET start == IF len = -1 THEN get_ignore_noop(b, at) ELSE at
  IN  CASE at = 0 -> Thrown
        [] at # 0 /\ len = 0 -> <<<<"object", << >> >>, at>>
        [] at # 0 /\ len = -1 /\ Byte(b, start) = CloseObject -> <<<<"object", << >> >>, start + 1>>
        [] OTHER -> LET key == get_ubjson_string(b, start)
                        r == Next1(b, key[2], type)
                    IN  IF key[2] = 0 \/ r[2] = 0 THEN Thrown
                        ELSE IF len = -1 THEN Assign(key, r, get_ubjson_object(b, r[2], -1, 0))
                        ELSE Insert(key, r, get_ubjson_object(b, r[2], len - 1, type))
get_ubjson_value(b, at, prefix) ==
  CASE prefix \in {True, False} -> <<<<"boolean", prefix = True>>, at>>
    [] prefix = Null -> <<<<"null">>, at>>
    [] prefix \in DOMAIN TypeOf -> UbjsonInteger(b, at, prefix)
    [] prefix \in {Float32, Float64} -> Float(b, at, IF prefix = Float32 THEN 2 ELSE 3)
    [] prefix = Char -> IF Byte(b, at) \in 0..127 THEN <<<<"string", <<b[at]>> >>, at + 1>> ELSE Thrown
    [] prefix = Text -> get_ubjson_string(b, at)
    [] prefix = OpenArray -> LET st == get_ubjson_size_type(b, at)
                             IN  get_ubjson_array(b, st[3], st[1], st[2])
    [] prefix = OpenObject -> LET st == get_ubjson_size_type(b, at)
                              IN  get_ubjson_object(b, st[3], st[1], st[2])
    [] OTHER -> Thrown

parse_ubjson_internal(b, at) == Next1(b, at, 0)

-----------------------------------------------------------------------------
Formats == {"cbor", "msgpack", "ubjson", "ubjson counted", "ubjson typed"}

Written(format, j) ==
  CASE format = "cbor" -> write_cbor(j)
    [] format = "msgpack" -> write_msgpack(j)
    [] OTHER -> write_ubjson(j, format # "ubjson", format = "ubjson typed", TRUE)

Read(format, b) ==
  CASE format = "cbor" -> parse_cbor_internal(b, 1)
    [] format = "msgpack" -> parse_msgpack_internal(b, 1)
    [] OTHER -> parse_ubjson_internal(b, 1)

\* strict: nothing is left, or an exception.
Strictly(format, b) ==
  LET r == Read(format, b)
      after == IF format \in {"cbor", "msgpack"} THEN r[2] ELSE get_ignore_noop(b, r[2])
  IN  IF r[2] = 0 \/ after # Len(b) + 1 THEN <<"exception">> ELSE r[1]

VARIABLES value, format, bytes, parsed, pc

vars == <<value, format, bytes, parsed, pc>>

Init == /\ \/ value \in Samples /\ format \in Formats /\ bytes = << >> /\ pc = "write"
           \/ \E f \in Foreign : format = f[1] /\ bytes = f[2] /\ value = f[3] /\ pc = "read"
        /\ parsed = <<"none">>

Write == /\ pc = "write"
         /\ bytes' = Written(format, value)
         /\ pc' = IF Exception \in {bytes'[k] : k \in 1..Len(bytes')} THEN "thrown" ELSE "read"
         /\ UNCHANGED <<value, format, parsed>>

\* The bytes may be cut short on their way, or be followed by others.
Cut == /\ pc = "read"
       /\ \E n \in 0..(Len(bytes) - 1) : bytes' = SubSeq(bytes, 1, n)
       /\ pc' = "cut"
       /\ UNCHANGED <<value, format, parsed>>
Add == /\ pc = "read"
       /\ bytes' = Append(bytes, 0)
       /\ pc' = "cut"
       /\ UNCHANGED <<value, format, parsed>>

Parse == /\ pc \in {"read", "cut"}
         /\ parsed' = Strictly(format, bytes)
         /\ pc' = IF pc = "read" THEN "done" ELSE "cut done"
         /\ UNCHANGED <<value, format, bytes>>

Next == Write \/ Cut \/ Add \/ Parse

Spec == Init /\ [][Next]_vars

-----------------------------------------------------------------------------
\* Equality of values: a number is the same number whatever its type.
RECURSIVE Same(_, _)
Same(a, b) ==
  CASE a[1] \in {"unsigned", "integer"} -> b[1] \in {"unsigned", "integer"} /\ a[2] = b[2]
    [] a[1] = "array" -> /\ b[1] = "array" /\ Len(a[2]) = Len(b[2])
                         /\ \A k \in 1..Len(a[2]) : Same(a[2][k], b[2][k])
    [] a[1] = "object" -> /\ b[1] = "object" /\ DOMAIN a[2] = DOMAIN b[2]
                          /\ \A k \in DOMAIN a[2] : Same(a[2][k], b[2][k])
    [] OTHER -> a = b

(***************************************************************************)
(* What is written in one of the formats is read as the same value, over   *)
(* the whole range of 64 bits and at every size where the form changes;    *)
(* the forms of other writers are read as what they stand for; and bytes   *)
(* that are cut short or followed by others are refused                    *)
(* (json.hpp:4892-6163, 6248-7117).                                        *)
(***************************************************************************)
ReadsWhatWasWritten ==
  /\ pc = "done" => Same(parsed, value)
  /\ pc = "cut done" => parsed = <<"exception">>
=============================================================================
