----------------------------- MODULE Tokenizer ------------------------------
(***************************************************************************)
(* Base/src/Tokenizer.cpp: a string cut at a delimiter, its pieces given   *)
(* out one by one, and IocpServer::EliminateFirstString, which finds the   *)
(* name of a class behind the word `class' that typeid writes before it.   *)
(*                                                                         *)
(* A string is a sequence of characters, positions start at 1, and npos is *)
(* 0, which the code gets by adding 1 to the npos of the library.          *)
(***************************************************************************)
EXTENDS Integers, Sequences, SequencesExt

CONSTANTS Characters, Delimiters, MaxLength   \* BOUND: length of a source string

npos == 0

Strings == UNION {[1..n -> Characters] : n \in 0..MaxLength}

VARIABLES source, delimiter,   \* arguments of the last Parse
          inner_vec,           \* _inner_vec
          head_iter,           \* _head_iter; _tail_iter is the end
          taken                \* what GetToken has returned since

vars == <<source, delimiter, inner_vec, head_iter, taken>>

find_first_of(s, d, from) ==
  LET found == {i \in from..Len(s) : s[i] = d}
  IN  IF found = {} THEN npos ELSE CHOOSE i \in found : \A j \in found : i <= j

\* Mutant: the piece behind the last delimiter is dropped.
RECURSIVE TokensFromDropLast(_, _, _)
TokensFromDropLast(s, d, head_pos) ==
  LET retval == find_first_of(s, d, head_pos)
      piece == SubSeq(s, head_pos, retval - 1)
  IN  IF retval = npos THEN << >>
      ELSE (IF piece = << >> THEN << >> ELSE <<piece>>) \o TokensFromDropLast(s, d, retval + 1)

\* The loop of Parse: one piece for each delimiter and one behind the last,
\* the empty ones left out.
RECURSIVE TokensFrom(_, _, _)
TokensFrom(s, d, head_pos) ==
  LET retval == find_first_of(s, d, head_pos)
      next_pos == IF retval = npos THEN Len(s) + 1 ELSE retval
      piece == SubSeq(s, head_pos, next_pos - 1)
  IN  (IF piece = << >> THEN << >> ELSE <<piece>>)
        \o (IF retval = npos THEN << >> ELSE TokensFrom(s, d, retval + 1))

Parse(s, d) ==
  /\ source' = s /\ delimiter' = d
  /\ inner_vec' = TokensFrom(s, d, 1)
  /\ head_iter' = 1
  /\ taken' = << >>

Init == /\ source \in Strings /\ delimiter \in Delimiters
        /\ inner_vec = TokensFrom(source, delimiter, 1)
        /\ head_iter = 1
        /\ taken = << >>

HasNext == head_iter # Len(inner_vec) + 1

\* The callers ask HasNext first: past the end GetToken is undefined.
GetToken == /\ HasNext
            /\ taken' = Append(taken, inner_vec[head_iter])
            /\ head_iter' = head_iter + 1
            /\ UNCHANGED <<source, delimiter, inner_vec>>

Reset == /\ inner_vec' = << >> /\ head_iter' = 1
         /\ source' = << >> /\ taken' = << >>
         /\ UNCHANGED delimiter

Next == GetToken \/ Reset \/ \E s \in Strings, d \in Delimiters : Parse(s, d)

Spec == Init /\ [][Next]_vars

EliminateFirstString(fullname, blank) ==
  LET parser == TokensFrom(fullname, blank, 1)
  IN  IF Len(parser) > 1 THEN parser[2] ELSE << >>

-----------------------------------------------------------------------------
\* The beginnings of the longest pieces without a delimiter, and the pieces.
Beginnings(s, d) == {i \in 1..Len(s) : s[i] # d /\ (i = 1 \/ s[i - 1] = d)}
PieceAt(s, d, i) ==
  LET ends == {j \in i..Len(s) : s[j] # d /\ \A k \in i..j : s[k] # d}
  IN  SubSeq(s, i, CHOOSE j \in ends : \A k \in ends : k <= j)
Pieces(s, d) == LET order == SetToSortSeq(Beginnings(s, d), <)
                IN  [n \in 1..Len(order) |-> PieceAt(s, d, order[n])]

(***************************************************************************)
(* The tokens are the longest pieces of the source without a delimiter, in *)
(* order, wherever delimiters stand, and GetToken gives out each once      *)
(* (Tokenizer.cpp:17-59); the name behind the first is the second of them  *)
(* (IocpServer.cpp:148-158).                                               *)
(***************************************************************************)
TokensAreThePieces ==
  LET pieces == Pieces(source, delimiter)
  IN  /\ taken \o SubSeq(inner_vec, head_iter, Len(inner_vec)) = pieces
      /\ EliminateFirstString(source, delimiter)
           = (IF Len(pieces) < 2 THEN << >> ELSE pieces[2])
=============================================================================
