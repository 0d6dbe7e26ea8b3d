----------------------------- MODULE JsonParser -----------------------------
(***************************************************************************)
(* Base/include/json.hpp, the parser: tokens become a value, and a         *)
(* callback may leave out parts of it; accept tells whether tokens are a   *)
(* JSON text without building it.                                          *)
(*                                                                         *)
(* A token is <<type>> or <<type, value>>, and a value <<"string", s>>,    *)
(* <<"number", n>>, <<"null">>, <<"array", sequence>> or                   *)
(* <<"object", function>>.  The tokens are chosen while they are read, and *)
(* so are the answers of the callback.  The recursion of parse_internal is *)
(* a stack of its calls.                                                   *)
(***************************************************************************)
EXTENDS Integers, Sequences, FiniteSets, TLC

CONSTANTS Tokens,          \* BOUND: the tokens an input is made of
          MaxTokens,       \* BOUND: tokens in front of those that end an input,
          MaxAsked,        \* BOUND: the same where there is a callback
          MaxRejections    \* BOUND: times the callback returns false

VARIABLES callback,        \* whether there is one
          tokens,          \* the tokens read so far, last_token the last
          stack,           \* the calls of parse_internal, the last one on top
          pc,              \* where the last one is
          depth, errored,
          result,          \* of the last call that has returned
          outcome,         \* of parse
          events           \* every call of callback: position, event, depth, answer

vars == <<callback, tokens, stack, pc, depth, errored, result, outcome, events>>

Discarded == <<"discarded">>
last_token == tokens[Len(tokens)][1]

Literal == {"literal_null", "value_string", "value_number"}
Begin == {"begin_object", "begin_array"}

Top == stack[Len(stack)]
Below == SubSeq(stack, 1, Len(stack) - 1)
Call(keep) == [type |-> "none", keep |-> keep, keep_tag |-> FALSE, key |-> "", result |-> Discarded]
Goto(label) == pc' = label

get_token == \E t \in Tokens :
                /\ Len(tokens) >= (IF callback THEN MaxAsked ELSE MaxTokens) => t[1] \notin Literal \cup Begin
                /\ Len(tokens) > 0 => last_token # "end_of_input"
                /\ tokens' = Append(tokens, t)

\* parse: get_token and parse_internal(true, result).
Init == /\ callback \in BOOLEAN
        /\ tokens \in {<<t>> : t \in Tokens}
        /\ stack = <<Call(TRUE)>>
        /\ pc = "parse_internal"
        /\ depth = 0 /\ errored = FALSE
        /\ result = Discarded /\ outcome = "none"
        /\ events = << >>

Rejections == Cardinality({i \in 1..Len(events) : ~events[i][4]})

\* The callback is asked if `asked' holds, and returns `kept'.
Ask(asked, event, level, kept) ==
  IF asked /\ callback
  THEN /\ kept \in BOOLEAN
       /\ ~kept => Rejections < MaxRejections
       /\ events' = Append(events, <<Len(tokens), event, level, kept>>)
  ELSE kept = TRUE /\ UNCHANGED events

\* expect fails: an exception, or the call and all calls below it return.
\* allow_exceptions matters here alone.
Error == \/ outcome' = "exception" /\ Goto("done") /\ UNCHANGED <<stack, errored, result>>
         \/ /\ errored' = TRUE /\ stack' = << >> /\ result' = Discarded
            /\ Goto("strict") /\ UNCHANGED outcome

\* parse_internal begins with an object or an array.
Open ==
  /\ pc = "parse_internal" /\ last_token \in Begin
  /\ \E kept \in BOOLEAN :
       LET type == IF last_token = "begin_object" THEN "object" ELSE "array"
       IN  /\ Ask(Top.keep, IF type = "object" THEN "object_start" ELSE "array_start", depth, kept)
           /\ stack' = Append(Below, [Top EXCEPT !.type = type, !.keep = Top.keep /\ kept,
                                                 !.result = IF ~callback \/ (Top.keep /\ kept)
                                                            THEN <<type, << >> >> ELSE Discarded])
  /\ depth' = IF Top.keep /\ callback THEN depth + 1 ELSE depth
  /\ get_token
  /\ Goto("opened")
  /\ UNCHANGED <<callback, errored, result, outcome>>

\* Empty, or the first element.
Opened ==
  /\ pc = "opened"
  /\ \/ /\ last_token = (IF Top.type = "object" THEN "end_object" ELSE "end_array")
        /\ Goto("empty") /\ UNCHANGED stack
     \/ /\ Top.type = "object" /\ last_token # "end_object"
        /\ Goto("key") /\ UNCHANGED stack
     \/ /\ Top.type = "array" /\ last_token # "end_array"
        /\ stack' = Append(stack, Call(Top.keep)) /\ Goto("parse_internal")
  /\ UNCHANGED <<callback, tokens, depth, errored, result, outcome, events>>

Key ==
  /\ pc = "key"
  /\ IF last_token # "value_string" THEN Error /\ UNCHANGED <<tokens, events>>
     ELSE /\ \E kept \in BOOLEAN :
               /\ Ask(Top.keep, "key", depth, kept)
               /\ stack' = Append(Below, [Top EXCEPT !.key = tokens[Len(tokens)][2],
                                                     !.keep_tag = Top.keep /\ kept])
          /\ get_token
          /\ Goto("name_separator") /\ UNCHANGED <<errored, result, outcome>>
  /\ UNCHANGED <<callback, depth>>

NameSeparator ==
  /\ pc = "name_separator"
  /\ IF last_token # "name_separator" THEN Error /\ UNCHANGED tokens
     ELSE /\ get_token
          /\ stack' = Append(stack, Call(Top.keep))
          /\ Goto("parse_internal") /\ UNCHANGED <<errored, result, outcome>>
  /\ UNCHANGED <<callback, depth, events>>

\* Mutant: the value of a second member with a name replaces the first.
AddReplaces(c, v) ==
  IF c.type = "object" THEN [c EXCEPT !.result[2] = (c.key :> v) @@ c.result[2]]
                       ELSE [c EXCEPT !.result[2] = Append(c.result[2], v)]

\* emplace keeps the member there is; push_back.
Add(c, v) ==
  IF c.type = "object" THEN [c EXCEPT !.result[2] = c.result[2] @@ (c.key :> v)]
                       ELSE [c EXCEPT !.result[2] = Append(c.result[2], v)]

\* A call for an element has returned: the element is added, and a separator
\* or the end follows.
Returned ==
  /\ pc = "returned" /\ stack # << >>
  /\ stack' = IF Top.keep /\ (Top.type = "object" => Top.keep_tag) /\ result # Discarded
              THEN Append(Below, Add(Top, result)) ELSE stack
  /\ get_token
  /\ Goto("element")
  /\ UNCHANGED <<callback, depth, errored, result, outcome, events>>

Element ==
  /\ pc = "element"
  /\ \/ /\ last_token = "value_separator"
        /\ get_token
        /\ stack' = IF Top.type = "array" THEN Append(stack, Call(Top.keep)) ELSE stack
        /\ Goto(IF Top.type = "array" THEN "parse_internal" ELSE "key")
        /\ UNCHANGED <<errored, result, outcome>>
     \/ /\ last_token = (IF Top.type = "object" THEN "end_object" ELSE "end_array")
        /\ Goto("close") /\ UNCHANGED <<tokens, stack, errored, result, outcome>>
     \/ /\ last_token # "value_separator"
        /\ last_token # (IF Top.type = "object" THEN "end_object" ELSE "end_array")
        /\ Error /\ UNCHANGED tokens
  /\ UNCHANGED <<callback, depth, events>>

\* The end of an object or an array; the callback is asked about an empty
\* array even if nothing around it is kept.
Close ==
  /\ pc \in {"empty", "close"}
  /\ LET asked == Top.keep \/ (Top.type = "array" /\ pc = "empty")
     IN  /\ depth' = IF asked /\ callback THEN depth - 1 ELSE depth
         /\ \E kept \in BOOLEAN :
              /\ Ask(asked, IF Top.type = "object" THEN "object_end" ELSE "array_end", depth', kept)
              /\ stack' = IF kept THEN stack ELSE Append(Below, [Top EXCEPT !.result = Discarded])
  /\ Goto("value")
  /\ UNCHANGED <<callback, tokens, errored, result, outcome>>

\* parse_internal of anything else; a float that is no number is an error
\* that the callback is asked about, if exceptions are off.
Scalar ==
  /\ pc = "parse_internal" /\ last_token \notin Begin
  /\ \/ /\ last_token \in Literal
        /\ stack' = Append(Below, [Top EXCEPT !.result =
                      CASE last_token = "literal_null" -> <<"null">>
                        [] last_token = "value_string" -> <<"string", tokens[Len(tokens)][2]>>
                        [] last_token = "value_number" -> <<"number", tokens[Len(tokens)][2]>>])
        /\ Goto("value") /\ UNCHANGED <<errored, result, outcome>>
     \/ /\ last_token = "value_infinite"
        /\ \/ outcome' = "exception" /\ Goto("done") /\ UNCHANGED <<stack, errored, result>>
           \/ /\ stack' = Append(Below, [Top EXCEPT !.result = <<"number", "infinite">>])
              /\ errored' = TRUE /\ Goto("value") /\ UNCHANGED <<result, outcome>>
     \/ last_token \notin Literal \cup {"value_infinite"} /\ Error
  /\ UNCHANGED <<callback, tokens, depth, events>>

\* The callback is asked about every value at last, and the call returns.
Value ==
  /\ pc = "value"
  /\ \E kept \in BOOLEAN :
       /\ Ask(Top.keep, "value", depth, kept)
       /\ result' = IF kept THEN Top.result ELSE Discarded
  /\ stack' = IF errored THEN << >> ELSE Below
  /\ Goto(IF stack' = << >> THEN "strict" ELSE "returned")
  /\ UNCHANGED <<callback, tokens, depth, errored, outcome>>

\* The rest of parse with strict: the end of the input is expected.
Strict ==
  /\ pc = "strict"
  /\ IF last_token # "end_of_input" THEN get_token ELSE UNCHANGED tokens
  /\ IF errored \/ tokens'[Len(tokens')][1] # "end_of_input"
     THEN /\ outcome' \in {"discarded"} \cup (IF errored THEN {} ELSE {"exception"})
          /\ errored' = TRUE /\ result' = Discarded
     ELSE /\ outcome' = "parsed"
          /\ result' = IF result = Discarded THEN <<"null">> ELSE result
          /\ UNCHANGED errored
  /\ Goto("done")
  /\ UNCHANGED <<callback, stack, depth, events>>

Next == \/ Open \/ Opened \/ Key \/ NameSeparator \/ Returned \/ Element \/ Close
        \/ Scalar \/ Value \/ Strict

Spec == Init /\ [][Next]_vars

-----------------------------------------------------------------------------
\* accept_internal: the place behind the value that starts at i, or 0.
At(i) == IF i <= Len(tokens) THEN tokens[i][1] ELSE "unread"

RECURSIVE accept_internal(_), accept_elements(_), accept_members(_)
accept_internal(i) ==
  CASE At(i) = "begin_object" -> IF At(i + 1) = "end_object" THEN i + 2 ELSE accept_members(i + 1)
    [] At(i) = "begin_array" -> IF At(i + 1) = "end_array" THEN i + 2 ELSE accept_elements(i + 1)
    [] At(i) \in Literal -> i + 1
    [] OTHER -> 0

\* The loops over the elements of an array and the members of an object.
accept_elements(i) ==
  LET next == accept_internal(i)
  IN  CASE next = 0 -> 0
        [] next # 0 /\ At(next) = "value_separator" -> accept_elements(next + 1)
        [] next # 0 /\ At(next) = "end_array" -> next + 1
        [] OTHER -> 0
accept_members(i) ==
  IF At(i) # "value_string" \/ At(i + 1) # "name_separator" THEN 0
  ELSE LET next == accept_internal(i + 2)
       IN  CASE next = 0 -> 0
             [] next # 0 /\ At(next) = "value_separator" -> accept_members(next + 1)
             [] next # 0 /\ At(next) = "end_object" -> next + 1
             [] OTHER -> 0

accept == LET next == accept_internal(1)
          IN  next # 0 /\ At(next) = "end_of_input"

-----------------------------------------------------------------------------
\* The grammar: the values that the tokens from i to j stand for, at most one,
\* where a value, a member or a container that was rejected is discarded.
Rejected(i, event) == \E n \in 1..Len(events) :
                         events[n][1] = i /\ events[n][2] = event /\ ~events[n][4]
Kept(v, j) == IF Rejected(j, "value") THEN Discarded ELSE v
Container(v, i, j, name) ==
  IF Rejected(i, name \o "_start") \/ Rejected(j, name \o "_end") THEN Discarded ELSE Kept(v, j)
Part(v, s) == IF v = Discarded THEN s ELSE <<v>> \o s

RECURSIVE Values(_, _), Elements(_, _), Members(_, _)
Values(i, j) ==
  CASE i = j /\ At(i) \in Literal ->
         {Kept(IF At(i) = "literal_null" THEN <<"null">>
               ELSE <<IF At(i) = "value_string" THEN "string" ELSE "number", tokens[i][2]>>, i)}
    [] i < j /\ At(i) = "begin_array" /\ At(j) = "end_array" ->
         {Container(<<"array", s>>, i, j, "array") :
            s \in IF i + 1 = j THEN {<< >>} ELSE Elements(i + 1, j - 1)}
    [] i < j /\ At(i) = "begin_object" /\ At(j) = "end_object" ->
         {Container(<<"object", f>>, i, j, "object") :
            f \in IF i + 1 = j THEN {<< >>} ELSE Members(i + 1, j - 1)}
    [] OTHER -> {}
Elements(i, j) ==
  {Part(v, << >>) : v \in Values(i, j)}
    \cup UNION {{Part(v, s) : v \in Values(i, k - 1), s \in Elements(k + 1, j)} :
                  k \in {k \in i..j : At(k) = "value_separator"}}
Member(i, v) == IF v = Discarded \/ Rejected(i, "key") THEN << >> ELSE tokens[i][2] :> v
Members(i, j) ==
  IF At(i) # "value_string" \/ At(i + 1) # "name_separator" THEN {}
  ELSE {Member(i, v) : v \in Values(i + 2, j)}
         \cup UNION {{Member(i, v) @@ f : v \in Values(i + 2, k - 1), f \in Members(k + 1, j)} :
                       k \in {k \in i..j : At(k) = "value_separator"}}

Text == IF last_token = "end_of_input" THEN Values(1, Len(tokens) - 1) ELSE {}

(***************************************************************************)
(* parse and accept agree with the grammar: a text is parsed to the value  *)
(* it stands for, of members with the same name the first, without what    *)
(* the callback has rejected, and a text that is none is refused           *)
(* (json.hpp:3200-3535, 3546-3648).                                        *)
(***************************************************************************)
ParsedByGrammar ==
  pc = "done" =>
    /\ (outcome = "parsed") = (Text # {})
    /\ accept = (Text # {})
    /\ outcome = "parsed" => {result} = {IF v = Discarded THEN <<"null">> ELSE v : v \in Text}
=============================================================================
