------------------------------- MODULE MCData -------------------------------
(***************************************************************************)
(* What comes in and goes out as bytes, in one run: the receive path,      *)
(* texts that are taken apart, the server's configuration, and the JSON    *)
(* library.  A behaviour uses one of them, the subject, and the others     *)
(* stay as they were created.                                              *)
(***************************************************************************)
EXTENDS RecvStream, SequencesExt

\* The state of the subject, under the names of its own module.
VARIABLES subject, s1, s2, s3, s4, s5, s6, s7, s8, s9, s10, s11, s12, s13, s14

-----------------------------------------------------------------------------
\* Headers of 2 bytes and data of 0, 1 or 2: the largest packet fills the
\* buffer exactly, as MyPacket's largest one does.
MCDataSizes == {0, 1, 2}
MCZero == <<0, 0>>

Splitter == INSTANCE Tokenizer
            WITH Characters <- {"a", "b", " "}, Delimiters <- {" ", "b"}, MaxLength <- 4,
                 source <- s1, delimiter <- s2, inner_vec <- s3, head_iter <- s4, taken <- s5

\* A class without an entry, and one whose second destination lacks something.
Config == INSTANCE ServerConfig
            WITH AcceptTypes <- {"Client", "Admin", "Web"}, ConnectTypes <- {"Time", "Auth"},
                 MaxAccepts <- [Client |-> 2, Admin |-> 1],
                 Destinations <- [Time |-> <<0>>, Auth |-> <<0, -1, 1>>], Missing <- -1, MaxUnits <- 4,
                 file <- s1, storage <- s2, connects <- s3, ports <- s4, thrown <- s5

-----------------------------------------------------------------------------
\* Bytes at the ends of every range that the lexer tells apart.
Lexer == INSTANCE JsonLexer
           WITH FirstBytes <- {\h20, \h5B, \h2C, \h74, \h6E, \h22, \h2D, \h30, \h31, 0, \h78, \hEF, \hBB},
                LaterBytes <- {\h2C},
                NumberBytes <- {\h30, \h31, \h36, \h2D, \h2B, \h2E, \h65, \h5D},
                StringBytes <- {\h1F, \h22, \h41, \h5C, \h7F, \h80, \hC1, \hC2, \hDF, \hE0, \hE1, \hEC,
                                \hED, \hEE, \hEF, \hF0, \hF1, \hF3, \hF4, \hF5, \hFF},
                TailBytes <- {\h41, \h7F, \h80, \h8F, \h90, \h9F, \hA0, \hBF, \hC0},
                HexBytes <- [f \in {12, 8, 4, 0} |->
                               CASE f = 12 -> {\h30, \h44} [] f = 8 -> {\h30, \h38, \h62, \h43}
                                 [] f = 4 -> {\h30, \h38} [] f = 0 -> {\h30, \h46, \h67}],
                MaxLength <- 14, MaxCharacters <- 1, MaxStart <- 5, MaxUnsigned <- 15, MaxInteger <- 7,
                adapter <- s1, input <- s2, ended <- s3, cursor <- s4, current <- s5,
                chars_read <- s6, token_string <- s7, token_buffer <- s8, value <- s9, token <- s10,
                pc <- s11, expected <- s12, codepoint <- s13, codepoint1 <- s14

\* Two values and one that is out of range are enough to see which is where.
Parser == INSTANCE JsonParser
            WITH Tokens <- {<<"begin_object">>, <<"end_object">>, <<"begin_array">>, <<"end_array">>,
                            <<"name_separator">>, <<"value_separator">>, <<"value_string", "k">>,
                            <<"value_number", 1>>, <<"value_infinite">>, <<"end_of_input">>},
                 MaxTokens <- 8, MaxAsked <- 4, MaxRejections <- 1,
                 callback <- s1, tokens <- s2, stack <- s3, pc <- s4, depth <- s5, errored <- s6,
                 result <- s7, outcome <- s8, events <- s9

-----------------------------------------------------------------------------
\* Numbers and sizes at the ends of every range of the binary formats, and
\* what other writers may send.
Magnitudes == {<<0>>, <<\h17>>, <<\h18>>, <<31>>, <<32>>, <<127>>, <<128>>, <<255>>, <<1, 0>>,
               <<127, 255>>, <<128, 0>>, <<255, 255>>, <<1, 0, 0>>, <<127, 255, 255, 255>>,
               <<128, 0, 0, 0>>, <<255, 255, 255, 255>>, <<1, 0, 0, 0, 0>>,
               <<127, 255, 255, 255, 255, 255, 255, 255>>, <<128, 0, 0, 0, 0, 0, 0, 0>>,
               <<255, 255, 255, 255, 255, 255, 255, 255>>}
Signed == {m \in Magnitudes : Len(m) < 8 \/ m[1] < 128}
A == <<97>>
Text(n) == <<"string", [k \in 1..n |-> 97]>>
Numbers(n) == <<"array", [k \in 1..n |-> <<"integer", <<k>>>>]>>
Members(n) == <<"object", [k \in {<<m>> : m \in 1..n} |-> <<"integer", k>>]>>
Few == {<<"null">>, <<"boolean", TRUE>>, <<"unsigned", <<5>>>>, <<"negative", <<5>>>>, <<"unsigned", <<200>>>>,
        Text(1), <<"array", << >>>>, Numbers(1), <<"object", << >>>>, <<"object", [k \in {A} |-> <<"null">>]>>}
BinarySamples ==
  {<<"null">>, <<"boolean", TRUE>>, <<"boolean", FALSE>>, <<"float", <<64, 9, 33, 251, 84, 68, 45, 24>>>>}
    \cup {<<"unsigned", m>> : m \in Magnitudes} \cup ({"integer", "negative"} \X Signed)
    \cup {Text(n) : n \in {0, 23, 24, 31, 32, 255, 256}}
    \cup {Numbers(n) : n \in {15, 16, 23, 24}} \cup {Members(n) : n \in {15, 16, 24}}
    \cup {<<"array", <<a, b>>>> : a, b \in Few} \cup {<<"array", <<a, a, b>>>> : a, b \in Few}
    \cup {<<"object", [k \in {A, <<98>>} |-> IF k = A THEN a ELSE b]>> : a, b \in Few}

\* Floats that are narrower than the ones written here: the values RFC 7049
\* gives for its examples 1.0, -4.0, 65504.0, 2^-24, 2^-14, -0.0, Infinity,
\* -Infinity, NaN, 1e5 and the largest and the least float of 32 bits.
Halves == {<<<<\h3C, 0>>, <<\h3F, \hF0>>>>, <<<<\hC4, 0>>, <<\hC0, \h10>>>>, <<<<\h7B, \hFF>>, <<\h40, \hEF, \hFC>>>>,
           <<<<0, 1>>, <<\h3E, \h70>>>>, <<<<4, 0>>, <<\h3F, \h10>>>>, <<<<\h80, 0>>, <<\h80>>>>,
           <<<<3, \hFF>>, <<\h3F, \h0F, \hF8>>>>, <<<<\h7C, 0>>, <<\h7F, \hF0>>>>,
           <<<<\hFC, 0>>, <<\hFF, \hF0>>>>, <<<<\h7E, 0>>, <<\h7F, \hF8>>>>}
Singles == {<<<<\h47, \hC3, \h50, 0>>, <<\h40, \hF8, \h6A>>>>,
            <<<<\h7F, \h7F, \hFF, \hFF>>, <<\h47, \hEF, \hFF, \hFF, \hE0>>>>,
            <<<<0, 0, 0, 1>>, <<\h36, \hA0>>>>, <<<<\hFF, \h80, 0, 0>>, <<\hFF, \hF0>>>>}
AsFloat(d) == <<"float", d \o [i \in 1..(8 - Len(d)) |-> 0]>>
Narrow == {<<"cbor", <<\hF9>> \o h[1], AsFloat(h[2])>> : h \in Halves}
            \cup {<<"cbor", <<\hFA>> \o s[1], AsFloat(s[2])>> : s \in Singles}
            \cup {<<"msgpack", <<\hCA>> \o s[1], AsFloat(s[2])>> : s \in Singles}

\* CBOR of indefinite length and with a key twice.
Foreign == Narrow \cup {<<"cbor", <<\h9F, 1, \h7F, \h61, 97, \h61, 98, \hFF, \hFF>>,
              <<"array", <<<<"unsigned", <<1>>>>, <<"string", <<97, 98>>>>>>>>>>,
            <<"cbor", <<\hBF, \h61, 97, 1, \h61, 97, 2, \hFF>>, <<"object", [k \in {A} |-> <<"unsigned", <<2>>>>]>>>>,
            <<"cbor", <<\hA2, \h61, 97, 1, \h61, 97, 2>>, <<"object", [k \in {A} |-> <<"unsigned", <<1>>>>]>>>>}

Binary == INSTANCE JsonBinary
            WITH Samples <- BinarySamples,
                 value <- s1, format <- s2, bytes <- s3, parsed <- s4, pc <- s5

-----------------------------------------------------------------------------
\* Numbers on both sides of every choice of the formatting, and values in
\* values with a comma, a quotation mark or a bracket in a string.
Floats == {<<"float", n, d, e>> : n \in BOOLEAN, d \in {<<\h31>>, <<\h31, \h35>>, <<\h31, \h30, \h37>>},
                                  e \in -7..6 \cup {-100, -13, 12, 100}}
            \cup {<<"float", n, << >>, 0>> : n \in BOOLEAN}
Inner == {<<"null">>, <<"boolean", TRUE>>, <<"boolean", FALSE>>, <<"integer", -5>>, <<"nonfinite">>,
          <<"string", <<\h2C, \h22>>>>, <<"string", <<\hC3>>>>, <<"array", << >>>>, <<"object", << >>>>,
          <<"array", <<<<"integer", 1>>, <<"null">>>>>>, <<"object", <<<<A, <<"boolean", TRUE>>>>>>>>}
TextSamples == {<<"integer", n>> : n \in {0, 7, 10, 99, 100, -1, -10, -128}} \cup Floats \cup Inner
                 \cup {<<"array", <<a, b>>>> : a, b \in Inner}
                 \cup {<<"object", <<<<<< >>, a>>, <<<<\h5D>>, b>>>>>> : a, b \in Inner}
                 \cup {<<"array", <<<<"array", <<a>>>>>>>> : a \in Inner}

Dumper == INSTANCE JsonSerializer
            WITH Samples <- TextSamples, Steps <- {0, 1, 3, 5},
                 StringBytes <- {\h08, \h1F, \h22, \h41, \h5C, \h7F, \h80, \hC1, \hC2, \hDF, \hE0, \hE1, \hED,
                                 \hEF, \hF0, \hF3, \hF4, \hF5},
                 TailBytes <- {\h41, \h80, \h8F, \h90, \h9F, \hA0, \hBF, \hC0},
                 MaxStart <- 1, BufferSize <- 20, IndentSize <- 2, MaxExp <- 5,
                 string <- s1, escape <- s2, settings <- s3, value <- s4, text <- s5, pc <- s6

-----------------------------------------------------------------------------
\* Values with keys that need escapes or look like an index, and operations
\* on paths that lead to them, beside them and nowhere.
Slashed == <<\h2F, \h7E, \h31>>
Zero0 == <<\h30>>
Arrays(S, n) == {<<"array", s>> : s \in UNION {[1..m -> S] : m \in 0..n}}
Objects(S, keys) == {<<"object", f>> : f \in UNION {[K -> S] : K \in SUBSET keys}}
N(n) == <<"number", n>>
Null == <<"null">>
Nested == {N(1), <<"array", << >>>>, <<"array", <<N(1)>>>>, <<"object", [k \in {A} |-> N(2)]>>,
           <<"object", [k \in {Zero0} |-> N(2)]>>, <<"object", [k \in {Slashed} |-> Null]>>}
Documents == {Null, N(1), N(2), <<"array", [i \in 1..12 |-> N(i)]>>}
               \cup Arrays({Null, N(1)}, 3) \cup Objects({Null, N(1)}, {A, Slashed, << >>})
               \cup Objects({N(1), <<"array", <<N(1)>>>>}, {<<\h2F>>, Zero0, <<\h30, \h21>>})
               \cup Objects({N(1)}, {A, Zero0, <<\h31>>})
               \cup Arrays(Nested, 2) \cup Objects(Nested, {A, Slashed})
Path(tokens_) == FoldLeft(LAMBDA a, b : a \o <<\h2F>> \o b, << >>, tokens_)
Paths == {Path(t) : t \in {<< >>, <<A>>, <<A, A>>, <<Zero0>>, <<<<\h31>>>>, <<<<\h2D>>>>, <<<<\h7E, \h31>>>>,
                           <<A, Zero0>>, <<Zero0, A>>, <<A, A, << >>>>, <<<<\h7E>>>>, <<<<\h30, \h31>>>>,
                           <<<<\h2D, \h30>>>>, <<<<\h20, \h31>>>>, <<<<\h2B, \h31>>>>}} \cup {A}
Operations == [op : {"add", "replace", "test"}, path : Paths, value : {N(7)}] \cup [op : {"remove"}, path : Paths]
                \cup [op : {"move", "copy"}, path : {Path(<<A>>), Path(<<Zero0>>), Path(<<A, A>>)}, from : Paths]
                \cup [op : {"add", "what"}, path : {<< >>}]

Patches == INSTANCE JsonPatch
             WITH MaxOperations <- 1, source <- s1, target <- s2, patch <- s3, result <- s4,
                  done <- s5, count <- s6, pc <- s7

-----------------------------------------------------------------------------
\* What a subject does not need.
Rest10 == <<s10, s11, s12, s13, s14>>
Rest8 == <<s8, s9, Rest10>>
Rest7 == <<s7, Rest8>>
Rest6 == <<s6, Rest7>>
Rest5 == <<s5, Rest6>>
None10 == s10 = 0 /\ s11 = 0 /\ s12 = 0 /\ s13 = 0 /\ s14 = 0
None8 == s8 = 0 /\ s9 = 0 /\ None10
None7 == s7 = 0 /\ None8
None6 == s6 = 0 /\ None7
None5 == s5 = 0 /\ None6
None1 == s1 = 0 /\ s2 = 0 /\ s3 = 0 /\ s4 = 0 /\ None5

DataInit ==
  /\ Init
  /\ \/ subject = "recieve" /\ None1
     \/ subject = "tokenizer" /\ Splitter!Init /\ None6
     \/ subject = "config" /\ Config!Init /\ None6
     \/ subject = "lexer" /\ Lexer!Init
     \/ subject = "parser" /\ Parser!Init /\ None10
     \/ subject = "binary" /\ Binary!Init /\ None6
     \/ subject = "serializer" /\ Dumper!Init /\ None7
     \/ subject = "patch" /\ Patches!Init /\ None8

DataNext ==
  /\ \/ subject = "recieve" /\ Next /\ UNCHANGED <<s1, s2, s3, s4, Rest5>>
     \/ subject = "tokenizer" /\ Splitter!Next /\ UNCHANGED <<vars, Rest6>>
     \/ subject = "config" /\ Config!Next /\ UNCHANGED <<vars, Rest6>>
     \/ subject = "lexer" /\ Lexer!Next /\ UNCHANGED vars
     \/ subject = "parser" /\ Parser!Next /\ UNCHANGED <<vars, Rest10>>
     \/ subject = "binary" /\ Binary!Next /\ UNCHANGED <<vars, Rest6>>
     \/ subject = "serializer" /\ Dumper!Next /\ UNCHANGED <<vars, Rest7>>
     \/ subject = "patch" /\ Patches!Next /\ UNCHANGED <<vars, Rest8>>
  /\ UNCHANGED subject

DataSpec == /\ DataInit /\ [][DataNext]_<<vars, subject, s1, s2, s3, s4, Rest5>>
            /\ Fairness

-----------------------------------------------------------------------------
\* Tokens are the pieces between the delimiters (Tokenizer.cpp:16-75), and the
\* index of a unit is its place in the storage (IocpServer.cpp:94-235).
InputsAreTakenWhole == /\ subject = "tokenizer" => Splitter!TokensAreThePieces
                       /\ subject = "config" => Config!IndexIsPlace

\* The lexer accepts the strings and numbers of the grammar, no others, and
\* gives what they stand for (json.hpp:2065-2876).
LexedByGrammar == subject = "lexer" => Lexer!StringsAreDecoded /\ Lexer!NumbersAreScanned

\* The parser accepts the texts of the grammar, no others, and gives what they
\* stand for, with or without a callback (json.hpp:3200-3648).
ParsedByGrammar == subject = "parser" => Parser!ParsedByGrammar

\* What was written as CBOR, MessagePack or UBJSON is read back, and neither a
\* part of it nor more than it is (json.hpp:4892-7117).
ReadsWhatWasWritten == subject = "binary" => Binary!ReadsWhatWasWritten

\* What is dumped stands for the value, and only UTF-8 is dumped
\* (json.hpp:8307-8839).
DumpedIsRead == subject = "serializer" => Dumper!StringsAreEscaped /\ Dumper!DumpReadsBack

\* A patch made by diff makes the target of the source (json.hpp:16975-17097).
DiffIsApplied == subject = "patch" => Patches!DiffIsApplied

=============================================================================
