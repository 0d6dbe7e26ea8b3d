------------------------------ MODULE JsonPatch -----------------------------
(***************************************************************************)
(* Base/include/json.hpp, json_pointer and the access to elements it uses: *)
(* pointers as text and as reference tokens, what they point to, and the   *)
(* flattening of a value to pointers and back; and basic_json's patch,     *)
(* diff, merge_patch, flatten and unflatten.                               *)
(*                                                                         *)
(* A string is a sequence of bytes.  A value is <<"null">>, <<"number",    *)
(* n>> for every kind of primitive value, <<"array", sequence>> or         *)
(* <<"object", function of the keys>>; Thrown stands for any exception.    *)
(* An operation of a patch is a record of the members it has.              *)
(***************************************************************************)
EXTENDS Integers, Sequences, FiniteSets, SequencesExt

-----------------------------------------------------------------------------
(* Pointers.                                                               *)

Slash == \h2F
Tilde == \h7E
Dash == \h2D
DigitZero == \h30
DigitOne == \h31
Digits == \h30..\h39

Thrown == <<"thrown">>
Asserted == <<"asserted">>     \* where an assertion fails
Null == <<"null">>
IsPrimitive(j) == j[1] \in {"null", "number"}
IsEmpty(j) == ~IsPrimitive(j) /\ DOMAIN j[2] = {}

\* The order of std::map for keys: that of their bytes.
Before(k, l) == \E n \in 0..Len(k) :
                  /\ n < Len(l) /\ SubSeq(k, 1, n) = SubSeq(l, 1, n)
                  /\ n < Len(k) => k[n + 1] < l[n + 1]
RECURSIVE InOrder(_)
InOrder(keys) ==
  IF keys = {} THEN << >>
  ELSE LET first == CHOOSE k \in keys : \A l \in keys \ {k} : Before(k, l) IN <<first>> \o InOrder(keys \ {first})
KeysInOrder(j) == InOrder(DOMAIN j[2])

-----------------------------------------------------------------------------
\* Every occurrence of f in s, from left to right.
RECURSIVE replace_substring(_, _, _)
replace_substring(s, f, t) ==
  CASE Len(s) < Len(f) -> s
    [] Len(s) >= Len(f) /\ SubSeq(s, 1, Len(f)) = f ->
         t \o replace_substring(SubSeq(s, Len(f) + 1, Len(s)), f, t)
    [] OTHER -> <<Head(s)>> \o replace_substring(Tail(s), f, t)

escape(s) == replace_substring(replace_substring(s, <<Tilde>>, <<Tilde, DigitZero>>), <<Slash>>, <<Tilde, DigitOne>>)


unescape(s) ==
  replace_substring(replace_substring(s, <<Tilde, DigitOne>>, <<Slash>>), <<Tilde, DigitZero>>, <<Tilde>>)

\* The tokens of a pointer are what is between its slashes; it begins with
\* one, and a tilde must be followed by 0 or 1.
IsPointer(s) == /\ s = << >> \/ s[1] = Slash
                /\ \A i \in 1..Len(s) : s[i] = Tilde => i < Len(s) /\ s[i + 1] \in {DigitZero, DigitOne}

split(s) ==
  LET slashes == {i \in 1..Len(s) : s[i] = Slash}
      slash(n) == CHOOSE i \in slashes \cup {Len(s) + 1} : Cardinality({k \in slashes : k < i}) = n - 1
  IN  [n \in 1..Cardinality(slashes) |-> unescape(SubSeq(s, slash(n) + 1, slash(n + 1) - 1))]

to_string(tokens) == FoldLeft(LAMBDA a, b : a \o <<Slash>> \o escape(b), << >>, tokens)

\* std::stoi, which skips blanks and takes a sign, and the check that it has
\* used up the token; what throws, and what is negative, is no index of any
\* array.
NoIndex == -1
array_index(token) ==
  LET blanks == {n \in 0..Len(token) : \A i \in 1..n : token[i] \in {\h20} \cup 9..13}
      text == SubSeq(token, Cardinality(blanks), Len(token))
      signed == text # << >> /\ Head(text) \in {\h2B, Dash}
      digits == IF signed THEN Tail(text) ELSE text
      number == FoldLeft(LAMBDA n, c : 10 * n + (c - \h30), 0, digits)
  IN  IF \/ digits = << >> \/ \E i \in 1..Len(digits) : digits[i] \notin Digits
         \/ Head(text) = Dash /\ number > 0
      THEN NoIndex ELSE number

-----------------------------------------------------------------------------
\* operator[]: an array or an object, made of null if need be, with an element
\* at the place; an array is filled up with null.
ElementAt(j, idx) ==
  LET elements == IF j = Null THEN << >> ELSE j[2]
      missing == idx + 1 - Len(elements)
  IN  IF j[1] \notin {"null", "array"} \/ idx = NoIndex THEN Thrown
      ELSE <<"array", elements \o [i \in 1..(IF missing > 0 THEN missing ELSE 0) |-> Null]>>

MemberAt(j, key) ==
  LET members == IF j = Null THEN << >> ELSE j[2]
  IN  IF j[1] \notin {"null", "object"} THEN Thrown
      ELSE <<"object", [k \in DOMAIN members \cup {key} |-> IF k \in DOMAIN members THEN members[k] ELSE Null]>>

\* at: the element must be there.
at(j, token, idx) ==
  CASE j[1] = "object" -> IF token \in DOMAIN j[2] THEN j ELSE Thrown
    [] j[1] = "array" -> IF idx \in 0..(Len(j[2]) - 1) THEN j ELSE Thrown
    [] OTHER -> Thrown

LeadingZero(token) == Len(token) > 1 /\ token[1] = DigitZero

\* One token: the value with an element for it, or Thrown.
OpenChecked(j, token) ==
  IF j[1] = "array" /\ (token = <<Dash>> \/ LeadingZero(token)) THEN Thrown
  ELSE at(j, token, array_index(token))

OpenUnchecked(j, token) ==
  LET asArray == \/ j[1] = "array"
                 \/ j = Null /\ (token = <<Dash>> \/ \A i \in 1..Len(token) : token[i] \in Digits)
  IN  CASE asArray /\ LeadingZero(token) -> Thrown
        [] asArray /\ token = <<Dash>> -> ElementAt(j, IF j = Null THEN 0 ELSE Len(j[2]))
        [] asArray /\ ~LeadingZero(token) /\ token # <<Dash>> -> ElementAt(j, array_index(token))
        [] OTHER -> MemberAt(j, token)

Create(j, token) ==
  IF j[1] = "array" \/ (j = Null /\ token = <<DigitZero>>) THEN ElementAt(j, array_index(token))
  ELSE MemberAt(j, token)

Open(access, j, token) ==
  CASE access = "checked" -> OpenChecked(j, token)
    [] access = "unchecked" -> OpenUnchecked(j, token)
    [] access = "create" -> Create(j, token)

\* Where the element of a token is, in a value that has it.
Place(j, token) == CASE j[1] = "object" -> token
                     [] j[1] = "array" /\ token = <<Dash>> -> Len(j[2])
                     [] OTHER -> array_index(token) + 1

\* get_checked, get_unchecked and get_and_create: the value as the walk along
\* the tokens leaves it, and the places where the walk went.
Follow(opened, place, rest) ==
  IF opened = Thrown \/ rest.value = Thrown THEN [value |-> Thrown, places |-> << >>]
  ELSE [value |-> <<opened[1], [opened[2] EXCEPT ![place] = rest.value]>>, places |-> <<place>> \o rest.places]

RECURSIVE Walk(_, _, _)
Walk(access, j, tokens) ==
  IF tokens = << >> THEN [value |-> j, places |-> << >>]
  ELSE LET opened == Open(access, j, Head(tokens))
           place == Place(opened, Head(tokens))
       IN  Follow(opened, place, Walk(access, opened[2][place], Tail(tokens)))

get_checked(j, tokens) == Walk("checked", j, tokens)
get_unchecked(j, tokens) == Walk("unchecked", j, tokens)
get_and_create(j, tokens) == Walk("create", j, tokens)

\* What a walk leads to, and the value with something else there.
Found(w) == IF w.value = Thrown THEN Thrown ELSE FoldLeft(LAMBDA v, p : v[2][p], w.value, w.places)
RECURSIVE Put(_, _, _)
Put(j, places, v) ==
  IF places = << >> THEN v
  ELSE <<j[1], [j[2] EXCEPT ![Head(places)] = Put(j[2][Head(places)], Tail(places), v)]>>

Replaced(w, v) == CASE w.value = Thrown -> Thrown
                    [] w.value # Thrown /\ v \in {Thrown, Asserted} -> v
                    [] OTHER -> Put(w.value, w.places, v)

-----------------------------------------------------------------------------
\* std::to_string
RECURSIVE NumberText(_)
NumberText(n) == IF n < 10 THEN <<\h30 + n>> ELSE Append(NumberText(n \div 10), \h30 + (n % 10))

\* The object of the pointers and what they point to.
RECURSIVE flatten(_, _, _)
flatten(reference_string, j, result) ==
  LET element(r, i) == flatten(reference_string \o <<Slash>> \o NumberText(i - 1), j[2][i], r)
      member(r, k) == flatten(reference_string \o <<Slash>> \o escape(k), j[2][k], r)
      entry(v) == <<"object", [k \in DOMAIN result[2] \cup {reference_string} |->
                                 IF k = reference_string THEN v ELSE result[2][k]]>>
  IN  CASE j[1] = "array" /\ ~IsEmpty(j) -> FoldLeft(element, result, [i \in 1..Len(j[2]) |-> i])
        [] j[1] = "object" /\ ~IsEmpty(j) -> FoldLeft(member, result, KeysInOrder(j))
        [] IsEmpty(j) -> entry(Null)
        [] OTHER -> entry(j)

\* The entries are put in their places one after another, by their pointers.
unflatten(j) ==
  LET put(r, k) == IF r = Thrown \/ ~IsPointer(k) THEN Thrown
                   ELSE Replaced(get_and_create(r, split(k)), j[2][k])
  IN  IF j[1] # "object" \/ \E k \in DOMAIN j[2] : ~IsPrimitive(j[2][k]) THEN Thrown
      ELSE FoldLeft(put, Null, KeysInOrder(j))

-----------------------------------------------------------------------------
(* Patches.                                                                *)

CONSTANTS Documents,       \* BOUND: the values
          Operations,      \* BOUND: the operations of a patch
          MaxOperations    \* BOUND: of one patch

VARIABLES source, target,  \* the value it starts with, and the one it is to become
          patch,           \* the operations that are left
          result, done,    \* the patched copy, and the last operation that was done
          count, pc

vars == <<source, target, patch, result, done, count, pc>>

-----------------------------------------------------------------------------
\* parent.insert(parent.begin() + idx, val)
insert(parent, idx, val) ==
  IF idx = NoIndex \/ idx > Len(parent[2]) THEN Thrown
  ELSE <<"array", SubSeq(parent[2], 1, idx) \o <<val>> \o SubSeq(parent[2], idx + 1, Len(parent[2]))>>

WithMember(parent, key, val) == LET with == MemberAt(parent, key) IN <<"object", [with[2] EXCEPT ![key] = val]>>

Filled(parent, last, val) ==
  CASE parent[1] \in {"null", "object"} -> WithMember(parent, last, val)
    [] parent[1] = "array" /\ last = <<Dash>> -> insert(parent, Len(parent[2]), val)
    [] parent[1] = "array" /\ last # <<Dash>> -> insert(parent, array_index(last), val)
    [] OTHER -> Asserted

\* The first token must be there; what is missing between it and the last one
\* is created.
operation_add(j, tokens, val) ==
  LET w == get_unchecked(j, Front(tokens))
  IN  CASE tokens = << >> -> val
        [] Len(tokens) > 1 /\ get_checked(j, <<tokens[1]>>).value = Thrown -> Thrown
        [] OTHER -> Replaced(w, Filled(Found(w), Last(tokens), val))

\* A member of an object or an element of an array; nothing of anything else.
Without(parent, last, idx) ==
  CASE parent[1] = "object" /\ last \in DOMAIN parent[2] ->
         <<"object", [k \in DOMAIN parent[2] \ {last} |-> parent[2][k]]>>
    [] parent[1] = "array" /\ idx \in 0..(Len(parent[2]) - 1) -> <<"array", RemoveAt(parent[2], idx + 1)>>
    [] IsPrimitive(parent) -> parent
    [] OTHER -> Thrown

operation_remove(j, tokens) ==
  LET w == get_checked(j, Front(tokens))
  IN  IF tokens = << >> THEN Thrown
      ELSE Replaced(w, Without(Found(w), Last(tokens), array_index(Last(tokens))))

\* get_value: the members an operation must have.
Needs(operation) ==
  {"op", "path"} \cup (CASE operation.op \in {"add", "replace", "test"} -> {"value"}
                         [] operation.op \in {"move", "copy"} -> {"from"}
                         [] OTHER -> {})

Pointers(operation) == {operation[m] : m \in DOMAIN operation \cap {"path", "from"}}

AddFound(j, tokens, v) == IF Thrown \in {j, v} THEN Thrown ELSE operation_add(j, tokens, v)

\* One operation: the value it makes of j.
apply(j, operation) ==
  LET ptr == split(operation.path)
      from == split(operation.from)
  IN  CASE ~(Needs(operation) \subseteq DOMAIN operation) -> Thrown
        [] \E s \in Pointers(operation) : ~IsPointer(s) -> Thrown
        [] operation.op = "add" -> operation_add(j, ptr, operation.value)
        [] operation.op = "remove" -> operation_remove(j, ptr)
        [] operation.op = "replace" -> Replaced(get_checked(j, ptr), operation.value)
        [] operation.op = "copy" -> AddFound(j, ptr, Found(get_checked(j, from)))
        [] operation.op = "move" -> AddFound(operation_remove(j, from), ptr, Found(get_checked(j, from)))
        [] operation.op = "test" -> IF Found(get_checked(j, ptr)) = operation.value THEN j ELSE Thrown
        [] OTHER -> Thrown

-----------------------------------------------------------------------------
Path(path, token) == path \o <<Slash>> \o token

\* What is behind the end of the shorter array: the elements to be removed are
\* named from the last one to the first.
\* Mutant: from the first one to the last.
RemovalsInOrder(from, to, path) ==
  [i \in 1..(from - to) |-> [op |-> "remove", path |-> Path(path, NumberText(to + i - 1))]]

Removals(from, to, path) ==
  [i \in 1..(from - to) |-> [op |-> "remove", path |-> Path(path, NumberText(from - i))]]

Additions(from, to, path) ==
  [i \in 1..(Len(to) - from) |->
     [op |-> "add", path |-> Path(path, NumberText(from + i - 1)), value |-> to[from + i]]]

RECURSIVE diff(_, _, _)
diff(from, to, path) ==
  LET element(i) == diff(from[2][i], to[2][i], Path(path, NumberText(i - 1)))
      common == IF Len(from[2]) < Len(to[2]) THEN Len(from[2]) ELSE Len(to[2])
      member(k) == IF k \in DOMAIN to[2] THEN diff(from[2][k], to[2][k], Path(path, escape(k)))
                   ELSE <<[op |-> "remove", path |-> Path(path, escape(k))]>>
      added == SelectSeq(KeysInOrder(to), LAMBDA k : k \notin DOMAIN from[2])
  IN  CASE from = to -> << >>
        [] from # to /\ (from[1] # to[1] \/ IsPrimitive(from)) -> <<[op |-> "replace", path |-> path, value |-> to]>>
        [] from # to /\ from[1] = to[1] /\ from[1] = "array" ->
             FlattenSeq([i \in 1..common |-> element(i)])
               \o (IF Len(from[2]) > common THEN Removals(Len(from[2]), common, path)
                   ELSE Additions(common, to[2], path))
        [] from # to /\ from[1] = to[1] /\ from[1] = "object" ->
             FlattenSeq([i \in 1..Len(KeysInOrder(from)) |-> member(KeysInOrder(from)[i])])
               \o [i \in 1..Len(added) |->
                     [op |-> "add", path |-> Path(path, escape(added[i])), value |-> to[2][added[i]]]]

-----------------------------------------------------------------------------
RECURSIVE merge_patch(_, _)
merge_patch(j, p) ==
  LET names == {k \in DOMAIN p[2] : p[2][k] # Null}
      old == IF j[1] = "object" THEN [k \in DOMAIN j[2] \ (DOMAIN p[2] \ names) |-> j[2][k]] ELSE << >>
  IN  IF p[1] # "object" THEN p
      ELSE <<"object", [k \in DOMAIN old \cup names |->
                          IF k \in names THEN merge_patch(IF k \in DOMAIN old THEN old[k] ELSE Null, p[2][k])
                          ELSE old[k]]>>

-----------------------------------------------------------------------------
Init == /\ source \in Documents
        /\ target = source /\ result = source
        /\ patch = << >> /\ done = [op |-> "none"] /\ count = 0
        /\ pc = "start"

\* The operations that diff names are applied one after another.
Diff == /\ pc = "start"
        /\ target' \in Documents
        /\ patch' = diff(source, target', << >>)
        /\ pc' = "diff"
        /\ UNCHANGED <<source, result, done, count>>

\* Any operation may be in a patch.
Choose == /\ pc \in {"start", "patch"} /\ patch = << >> /\ count < MaxOperations
          /\ \E operation \in Operations : patch' = <<operation>>
          /\ count' = count + 1 /\ pc' = "patch"
          /\ UNCHANGED <<source, target, result, done>>

\* An exception leaves the copy behind and ends the patch; an assertion only
\* does in a build that has them.
Apply == /\ patch # << >>
         /\ \E j \in {apply(result, Head(patch))} :
                \/ /\ j \notin {Thrown, Asserted}
                   /\ result' = j /\ done' = Head(patch) /\ patch' = Tail(patch) /\ UNCHANGED pc
                \/ j = Asserted /\ patch' = Tail(patch) /\ UNCHANGED <<result, done, pc>>
                \/ j \in {Thrown, Asserted} /\ pc' = "thrown" /\ patch' = << >> /\ UNCHANGED <<result, done>>
         /\ UNCHANGED <<source, target, count>>

MergePatch == /\ pc = "start"
              /\ target' \in Documents
              /\ result' = merge_patch(source, target')
              /\ pc' = "merge"
              /\ UNCHANGED <<source, patch, done, count>>

Flatten == /\ pc = "start"
           /\ result' = unflatten(flatten(<< >>, source, <<"object", << >>>>))
           /\ pc' = "flatten"
           /\ UNCHANGED <<source, target, patch, done, count>>

Next == Diff \/ Choose \/ Apply \/ MergePatch \/ Flatten

Spec == Init /\ [][Next]_vars
-----------------------------------------------------------------------------
(***************************************************************************)
(* source.patch(diff(source, target)) == target for any two values: none   *)
(* of the operations that diff names is refused, and after the last one    *)
(* the copy is the target (json.hpp:16943-16953, 16975-17097).             *)
(***************************************************************************)
DiffIsApplied == /\ pc = "diff" /\ patch = << >> => result = target
                 /\ pc = "thrown" => count > 0

Plain(tokens) == \A i \in 1..Len(tokens) : tokens[i] # <<Dash>> /\ ~LeadingZero(tokens[i])

(***************************************************************************)
(* What an operation has written is found at its path, unless the path     *)
(* says where by "-" or by an index with a zero in front                   *)
(* (json.hpp:16716-16805, 16844-16936).                                    *)
(***************************************************************************)
WrittenIsFound ==
  (/\ pc = "patch" /\ patch = << >> /\ done.op \in {"add", "replace"}
   /\ IsPointer(done.path) /\ Plain(split(done.path))) =>
    Found(get_checked(result, split(done.path))) = done.value

\* The pointer to a member and what follows it, whatever the member is.
PointerTo(j, k) == escape(k) \o (IF IsPrimitive(j[2][k]) \/ IsEmpty(j[2][k]) THEN << >> ELSE <<Slash>>)
TakenForArray(j) == /\ j[1] = "object" /\ <<DigitZero>> \in DOMAIN j[2]
                    /\ \A k \in DOMAIN j[2] : ~Before(PointerTo(j, k), PointerTo(j, <<DigitZero>>))

RECURSIVE Restorable(_), Emptied(_)
Restorable(j) == \/ IsPrimitive(j) \/ IsEmpty(j)
                 \/ ~TakenForArray(j) /\ \A k \in DOMAIN j[2] : Restorable(j[2][k])
Emptied(j) == IF IsPrimitive(j) THEN j ELSE IF IsEmpty(j) THEN Null
              ELSE <<j[1], [k \in DOMAIN j[2] |-> Emptied(j[2][k])]>>

(***************************************************************************)
(* A value is found again from its pointers, with its empty arrays and     *)
(* objects as null, exactly if no object in it leads with the member "0"   *)
(* in the order of the pointers, in which "/" is "~1" and sorts late:      *)
(* get_and_create takes such an object for an array (json.hpp:9076-9135,   *)
(* 9525-9613), although json.hpp:16599-16602 names the empty ones alone.   *)
(***************************************************************************)
FlattenIsUndone == pc = "flatten" => (result = Emptied(source)) = Restorable(source)

(***************************************************************************)
(* A merge patch leaves none of the members it says null of, and merging   *)
(* it once more changes nothing (json.hpp:17150-17174).                    *)
(***************************************************************************)
MergedOnceIsMerged ==
  pc = "merge" =>
    /\ merge_patch(result, target) = result
    /\ target[1] = "object" => \A k \in DOMAIN target[2] : (target[2][k] = Null) = (k \notin DOMAIN result[2])
=============================================================================
