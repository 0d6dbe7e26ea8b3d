----------------------- MODULE AtomicSharedPtr_proofs -----------------------
(***************************************************************************)
(* The atomic shared pointer behaves like a register whose operations are  *)
(* one step each, and its counts of owners are right, for any number of    *)
(* threads and objects.  CallsInv says what every call has done by each of *)
(* its steps and that the mutex keeps the others away; Counting that the   *)
(* count of each object is the number of its owners.                       *)
(***************************************************************************)
EXTENDS AtomicSharedPtr, FiniteSetTheorems, SequenceTheorems, TLAPS

\* The names are no objects and no threads, and there are finitely many threads.
NamesDiffer == Null \notin Objects /\ Nobody \notin Threads /\ IsFiniteSet(Threads)

\* What a shared_ptr points to.
Pointers == Objects \cup {Null}

\* What a call may still have to do, by its next step.
LockPlans == {StoreSteps, LoadSteps, ExchangeSteps, CompareSteps}
ReadPlans == {<<"read", "share", "unlock", "result">>,
              <<"read", "share", "assign", "unlock", "result">>,
              <<"read", "share", "compare", "expect", "unlock", "return">>}
SharePlans == {<<"share", "unlock", "result">>,
               <<"share", "assign", "unlock", "result">>,
               <<"share", "compare", "expect", "unlock", "return">>}
StorePlan == <<"assign", "unlock", "return">>
ExchangePlan == <<"assign", "unlock", "result">>
ComparePlan == <<"compare", "expect", "unlock", "return">>
EqualPlan == <<"assign", "expect", "unlock", "return">>
ExpectPlan == <<"expect", "unlock", "return">>
UnlockPlan == <<"unlock", "return">>
ResultPlan == <<"unlock", "result">>
EndPlans == {<<"return">>, <<"result">>}

\* Inside the mutex, before anything is stored and at all.
UntouchedPlans == ReadPlans \cup SharePlans \cup {StorePlan, ExchangePlan, ComparePlan, EqualPlan}
Inside == UntouchedPlans \cup {ExpectPlan, UnlockPlan, ResultPlan}
Plans == {<< >>} \cup LockPlans \cup Inside \cup EndPlans

\* The type invariant.
TypeOK == /\ ptr \in Pointers /\ weak \in Pointers /\ strong \in Pointers
          /\ lock \in Threads \cup {Nobody}
          /\ entry \in [ptr : Pointers, mine : Pointers]
          /\ count \in [Objects -> Int]
          /\ used \subseteq Objects
          /\ mine \in [Threads -> Pointers] /\ sptr \in [Threads -> Pointers]
          /\ copy \in [Threads -> Pointers] /\ seen \in [Threads -> Pointers]
          /\ todo \in [Threads -> Plans]

\* A plain pointer is held only between reading it and sharing its object,
\* and no copy from before.
LocalsAt(s, p, c, r) == /\ s \notin SharePlans => r = Null
                        /\ s \in {<< >>} \cup LockPlans \cup ReadPlans \cup SharePlans => c = Null
                        /\ s = << >> => p = Null

\* What the one inside the mutex has done to what it found.
Stored(t) == IF entry.ptr = entry.mine THEN sptr[t] ELSE entry.ptr
InsideAt(t, s) ==
  /\ s \in UntouchedPlans => ptr = entry.ptr /\ mine[t] = entry.mine
  /\ s \in SharePlans => seen[t] = ptr
  /\ s = ExchangePlan => copy[t] = ptr
  /\ s = EqualPlan => ptr = mine[t]
  /\ s = ExpectPlan => ptr = Stored(t) /\ mine[t] = entry.mine
  /\ s = UnlockPlan => \/ ptr = sptr[t] /\ mine[t] = entry.mine
                       \/ ptr = Stored(t) /\ mine[t] = ptr
  /\ s = ResultPlan => /\ mine[t] = entry.mine /\ copy[t] = entry.ptr
                       /\ ptr \in {entry.ptr, sptr[t]}

\* Whoever has the mutex, and nobody else, is inside.
Exclusive == \A t \in Threads : todo[t] \in Inside <=> lock = t

\* The inductive invariant of the calls.
CallsInv == /\ TypeOK
            /\ Exclusive
            /\ \A t \in Threads : /\ LocalsAt(todo[t], sptr[t], copy[t], seen[t])
                                  /\ InsideAt(t, todo[t])

\* The count of every object is the number of its owners.
Counting == \A o \in Objects : count[o] = Owners(o)

-----------------------------------------------------------------------------
(* Steps.                                                                  *)

USE DEF Plans, LockPlans, Inside, UntouchedPlans, ReadPlans, SharePlans, StorePlan, ExchangePlan,
        ComparePlan, EqualPlan, ExpectPlan, UnlockPlan, ResultPlan, EndPlans,
        StoreSteps, LoadSteps, ExchangeSteps, CompareSteps

\* What a plan goes on to.
LEMMA PlansGoOn ==
  ASSUME NEW s \in Plans, s # << >>
  PROVE  /\ Head(s) = "lock" => s \in LockPlans /\ Tail(s) \in ReadPlans \cup {StorePlan}
         /\ Head(s) = "read" => s \in ReadPlans /\ Tail(s) \in SharePlans
         /\ Head(s) = "share" => s \in SharePlans /\ Tail(s) \in {ExchangePlan, ComparePlan, ResultPlan}
         /\ Head(s) = "assign" => \/ s = StorePlan /\ Tail(s) = UnlockPlan
                                  \/ s = ExchangePlan /\ Tail(s) = ResultPlan
                                  \/ s = EqualPlan /\ Tail(s) = ExpectPlan
         /\ Head(s) = "compare" => s = ComparePlan /\ Tail(s) = ExpectPlan /\ <<"assign">> \o Tail(s) = EqualPlan
         /\ Head(s) = "expect" => s = ExpectPlan /\ Tail(s) = UnlockPlan
         /\ Head(s) = "unlock" => \/ s = UnlockPlan /\ Tail(s) = <<"return">>
                                  \/ s = ResultPlan /\ Tail(s) = <<"result">>
         /\ Head(s) = "return" => s = <<"return">> /\ Tail(s) = << >>
         /\ Head(s) = "result" => s = <<"result">> /\ Tail(s) = << >>
<1>1. \A p \in LockPlans : Head(p) = "lock" /\ Tail(p) \in ReadPlans \cup {StorePlan}
  <2>1. Head(StoreSteps) = "lock" /\ Tail(StoreSteps) = StorePlan
    OBVIOUS
  <2>2. Head(LoadSteps) = "lock" /\ Tail(LoadSteps) = <<"read", "share", "unlock", "result">>
    OBVIOUS
  <2>3. /\ Head(ExchangeSteps) = "lock"
        /\ Tail(ExchangeSteps) = <<"read", "share", "assign", "unlock", "result">>
    OBVIOUS
  <2>4. /\ Head(CompareSteps) = "lock"
        /\ Tail(CompareSteps) = <<"read", "share", "compare", "expect", "unlock", "return">>
    OBVIOUS
  <2>. QED BY <2>1, <2>2, <2>3, <2>4
<1>2. \A p \in ReadPlans : Head(p) = "read" /\ Tail(p) \in SharePlans
  <2> DEFINE p1 == <<"read", "share", "unlock", "result">>
             p2 == <<"read", "share", "assign", "unlock", "result">>
             p3 == <<"read", "share", "compare", "expect", "unlock", "return">>
  <2>1. Head(p1) = "read" /\ Tail(p1) = <<"share", "unlock", "result">>
    OBVIOUS
  <2>2. Head(p2) = "read" /\ Tail(p2) = <<"share", "assign", "unlock", "result">>
    OBVIOUS
  <2>3. Head(p3) = "read" /\ Tail(p3) = <<"share", "compare", "expect", "unlock", "return">>
    OBVIOUS
  <2>. QED BY <2>1, <2>2, <2>3
<1>3. \A p \in SharePlans : Head(p) = "share" /\ Tail(p) \in {ExchangePlan, ComparePlan, ResultPlan}
  <2> DEFINE p1 == <<"share", "unlock", "result">>
             p2 == <<"share", "assign", "unlock", "result">>
             p3 == <<"share", "compare", "expect", "unlock", "return">>
  <2>1. Head(p1) = "share" /\ Tail(p1) = ResultPlan
    OBVIOUS
  <2>2. Head(p2) = "share" /\ Tail(p2) = ExchangePlan
    OBVIOUS
  <2>3. Head(p3) = "share" /\ Tail(p3) = ComparePlan
    OBVIOUS
  <2>. QED BY <2>1, <2>2, <2>3
<1>4. /\ Head(StorePlan) = "assign" /\ Tail(StorePlan) = UnlockPlan
      /\ Head(ExchangePlan) = "assign" /\ Tail(ExchangePlan) = ResultPlan
      /\ Head(EqualPlan) = "assign" /\ Tail(EqualPlan) = ExpectPlan
  OBVIOUS
<1>5. Head(ComparePlan) = "compare" /\ Tail(ComparePlan) = ExpectPlan
  OBVIOUS
<1>8. <<"assign">> \o Tail(ComparePlan) = EqualPlan
  <2> DEFINE a == <<"assign">>
             S == {"assign", "expect", "unlock", "return"}
  <2>1. /\ a \in Seq(S) /\ Len(a) = 1 /\ a[1] = "assign"
        /\ ExpectPlan \in Seq(S) /\ Len(ExpectPlan) = 3
        /\ EqualPlan \in Seq(S) /\ Len(EqualPlan) = 4 /\ EqualPlan[1] = "assign"
    <3>1. a \in Seq(S) /\ Len(a) = 1 /\ a[1] = "assign"
      OBVIOUS
    <3>2. ExpectPlan \in Seq(S)
      OBVIOUS
    <3>3. EqualPlan \in Seq(S)
      OBVIOUS
    <3>4. Len(ExpectPlan) = 3 /\ Len(EqualPlan) = 4 /\ EqualPlan[1] = "assign"
      OBVIOUS
    <3>. QED BY <3>1, <3>2, <3>3, <3>4
  <2>5. /\ EqualPlan[2] = ExpectPlan[1] /\ EqualPlan[3] = ExpectPlan[2]
        /\ EqualPlan[4] = ExpectPlan[3]
    OBVIOUS
  <2> HIDE DEF a, S, ExpectPlan, EqualPlan
  <2>6. /\ a \o ExpectPlan \in Seq(S) /\ Len(a \o ExpectPlan) = Len(a) + Len(ExpectPlan)
        /\ \A i \in 1..Len(a) + Len(ExpectPlan) :
              (a \o ExpectPlan)[i] = IF i <= Len(a) THEN a[i] ELSE ExpectPlan[i - Len(a)]
    BY <2>1, ConcatProperties, Zenon
  <2>2. /\ Len(a \o ExpectPlan) = 4 /\ a \o ExpectPlan \in Seq(S)
        /\ \A i \in 1..4 : (a \o ExpectPlan)[i] = IF i <= 1 THEN a[i] ELSE ExpectPlan[i - 1]
    BY <2>1, <2>6
  <2>3. \A i \in 1..4 : (a \o ExpectPlan)[i] = EqualPlan[i]
    BY <2>1, <2>2, <2>5
  <2>4. a \o ExpectPlan = EqualPlan
    BY <2>1, <2>2, <2>3, SeqEqual
  <2>. QED BY <1>5, <2>4 DEF a
<1>6. /\ Head(ExpectPlan) = "expect" /\ Tail(ExpectPlan) = UnlockPlan
      /\ Head(UnlockPlan) = "unlock" /\ Tail(UnlockPlan) = <<"return">>
      /\ Head(ResultPlan) = "unlock" /\ Tail(ResultPlan) = <<"result">>
  OBVIOUS
<1>7. /\ Head(<<"return">>) = "return" /\ Tail(<<"return">>) = << >>
      /\ Head(<<"result">>) = "result" /\ Tail(<<"result">>) = << >>
  OBVIOUS
<1>. HIDE DEF LockPlans, ReadPlans, SharePlans, StorePlan, ExchangePlan, ComparePlan, EqualPlan,
              ExpectPlan, UnlockPlan, ResultPlan
<1>. QED BY <1>1, <1>2, <1>3, <1>4, <1>5, <1>6, <1>7, <1>8

\* The next steps of the plans.
LEMMA PlansBegin ==
  /\ << >> \notin Inside \cup LockPlans \cup EndPlans
  /\ (LockPlans \cup EndPlans) \cap Inside = {} /\ LockPlans \cap EndPlans = {}
  /\ Head(<<"result">>) = "result" /\ Head(<<"return">>) = "return"
  /\ \A s \in Inside : Head(s) # "result"
  /\ \A s \in LockPlans : Head(s) # "result"
OBVIOUS

USE DEF Pointers

\* The locals and the call of every other thread stay.
Others(t) == \A s \in Threads \ {t} :
  /\ todo'[s] = todo[s] /\ mine'[s] = mine[s] /\ sptr'[s] = sptr[s]
  /\ copy'[s] = copy[s] /\ seen'[s] = seen[s]

\* A thread changes the shared state only inside the mutex.
LEMMA AloneInside ==
  ASSUME CallsInv, NEW t \in Threads, Others(t), TypeOK',
         \/ lock = t /\ lock' \in {t, Nobody}
         \/ lock' \in {lock, t} /\ (lock' # lock => lock = Nobody)
            /\ ptr' = ptr /\ (lock = lock' => entry' = entry),
         Nobody \notin Threads,
         todo'[t] \in Inside <=> lock' = t,
         LocalsAt(todo'[t], sptr'[t], copy'[t], seen'[t]),
         InsideAt(t, todo[t])'
  PROVE  CallsInv'
<1>. HIDE DEF LockPlans, ReadPlans, SharePlans, StorePlan, ExchangePlan, ComparePlan, EqualPlan,
              ExpectPlan, UnlockPlan, ResultPlan, EndPlans, Plans, Pointers
<1>1. ASSUME NEW s \in Threads, s # t
      PROVE  /\ todo'[s] \in Inside <=> lock' = s
             /\ LocalsAt(todo'[s], sptr'[s], copy'[s], seen'[s])
             /\ InsideAt(s, todo[s])'
  <2>1. /\ todo'[s] = todo[s] /\ mine'[s] = mine[s] /\ sptr'[s] = sptr[s]
        /\ copy'[s] = copy[s] /\ seen'[s] = seen[s]
    BY <1>1 DEF Others
  <2>2. todo[s] \in Inside <=> lock = s
    BY DEF CallsInv, Exclusive
  <2>3. todo'[s] \in Inside <=> lock' = s
    BY <1>1, <2>1, <2>2 DEF CallsInv, TypeOK
  <2>4. LocalsAt(todo'[s], sptr'[s], copy'[s], seen'[s])
    BY <2>1 DEF CallsInv
  <2>5. CASE lock = s
    <3>1. ptr' = ptr /\ entry' = entry
      BY <1>1, <2>5
    <3>. QED BY <2>1, <2>3, <2>4, <3>1 DEF CallsInv, InsideAt, Stored
  <2>6. CASE lock # s
    <3>1. todo'[s] \notin Inside
      BY <2>1, <2>2, <2>6
    <3>. QED BY <2>3, <2>4, <3>1 DEF InsideAt
  <2>. QED BY <2>5, <2>6
<1>2. \A s \in Threads : s = t => todo'[s] = todo'[t]
  OBVIOUS
<1>. QED BY <1>1 DEF CallsInv, Exclusive

\* What x adds to the owners of o.
Is(x, o) == IF x = o THEN 1 ELSE 0

\* None is less, one is, or two are.
LEMMA CountedNone ==
  ASSUME count \in [Objects -> Int], NEW o
  PROVE  /\ Counted(o, << >>) \in [Objects -> Int]
         /\ \A x \in Objects : Counted(o, << >>)[x] = count[x] + Is(x, o)
<1> DEFINE ps == << >>
<1>1. \A x : Cardinality({i \in DOMAIN ps : ps[i] = x}) = 0
  BY FS_EmptySet
<1> HIDE DEF ps
<1>2. Counted(o, ps) = [x \in Objects |-> count[x] + Is(x, o) - 0]
  BY <1>1 DEF Counted, Is
<1>3. \A x \in Objects : count[x] + Is(x, o) - 0 \in Int /\ count[x] \in Int /\ Is(x, o) \in Int
  BY DEF Is
<1>. QED BY <1>2, <1>3 DEF ps

\* One owner less.
LEMMA CountedOne ==
  ASSUME count \in [Objects -> Int], NEW o, NEW a
  PROVE  /\ Counted(o, <<a>>) \in [Objects -> Int]
         /\ \A x \in Objects : Counted(o, <<a>>)[x] = count[x] + Is(x, o) - Is(x, a)
<1> DEFINE ps == <<a>>
<1>1. \A x : Cardinality({i \in DOMAIN ps : ps[i] = x}) = Is(x, a)
  <2>1. \A x : {i \in DOMAIN ps : ps[i] = x} = IF x = a THEN {1} ELSE {}
    OBVIOUS
  <2>2. Cardinality({}) = 0 /\ Cardinality({1}) = 1
    BY FS_EmptySet, FS_Singleton
  <2>. QED BY <2>1, <2>2 DEF Is
<1> HIDE DEF ps
<1>2. Counted(o, ps) = [x \in Objects |-> count[x] + Is(x, o) - Is(x, a)]
  BY <1>1 DEF Counted, Is
<1>3. \A x \in Objects : count[x] + Is(x, o) - Is(x, a) \in Int
  BY DEF Is
<1>4. Counted(o, ps) \in [Objects -> Int] /\ \A x \in Objects : Counted(o, ps)[x] = count[x] + Is(x, o) - Is(x, a)
  BY <1>2, <1>3
<1>. QED BY <1>4 DEF ps

\* Two owners less.
LEMMA CountedTwo ==
  ASSUME count \in [Objects -> Int], NEW o, NEW a, NEW b
  PROVE  /\ Counted(o, <<a, b>>) \in [Objects -> Int]
         /\ \A x \in Objects : Counted(o, <<a, b>>)[x] = count[x] + Is(x, o) - (Is(x, a) + Is(x, b))
<1> DEFINE ps == <<a, b>>
<1>1. ASSUME NEW x PROVE Cardinality({i \in DOMAIN ps : ps[i] = x}) = Is(x, a) + Is(x, b)
  <2>1. {i \in DOMAIN ps : ps[i] = x}
          = IF x = a THEN (IF x = b THEN {1, 2} ELSE {1}) ELSE (IF x = b THEN {2} ELSE {})
    OBVIOUS
  <2>2. Cardinality({}) = 0 /\ Cardinality({1}) = 1 /\ Cardinality({2}) = 1
    BY FS_EmptySet, FS_Singleton
  <2>3. Cardinality({1, 2}) = 2
    <3>1. IsFiniteSet({1})
      BY FS_Singleton
    <3>2. Cardinality({1} \cup {2}) = Cardinality({1}) + 1
      BY <3>1, FS_AddElement
    <3>3. {1, 2} = {1} \cup {2}
      OBVIOUS
    <3>. QED BY <2>2, <3>2, <3>3
  <2>. QED BY <2>1, <2>2, <2>3 DEF Is
<1> HIDE DEF ps
<1>2. Counted(o, ps) = [x \in Objects |-> count[x] + Is(x, o) - (Is(x, a) + Is(x, b))]
  <2>1. \A x \in Objects : (IF x = o THEN 1 ELSE 0) = Is(x, o)
    BY DEF Is
  <2>. QED BY <1>1, <2>1 DEF Counted
<1>3. \A x \in Objects : count[x] + Is(x, o) - (Is(x, a) + Is(x, b)) \in Int
  BY DEF Is
<1>4. /\ Counted(o, ps) \in [Objects -> Int]
      /\ \A x \in Objects : Counted(o, ps)[x] = count[x] + Is(x, o) - (Is(x, a) + Is(x, b))
  BY <1>2, <1>3
<1>. QED BY <1>4 DEF ps

\* The owners among the threads.
LEMMA HoldingIs ==
  ASSUME NamesDiffer, NEW f \in [Threads -> Pointers], NEW o
  PROVE  /\ Holding(f, o) \in Nat
         /\ \A t \in Threads : f[t] = o => Holding(f, o) > 0
<1> DEFINE H == {t \in Threads : f[t] = o}
<1>1. IsFiniteSet(H)
  BY FS_Subset DEF NamesDiffer
<1>2. Cardinality(H) \in Nat
  BY <1>1, FS_CardinalityType
<1>3. H # {} => Cardinality(H) # 0
  BY <1>1, FS_EmptySet
<1>. QED BY <1>2, <1>3 DEF Holding

\* ... of whom one lets go of what it had for something else.
LEMMA HoldingMoves ==
  ASSUME NamesDiffer, NEW f \in [Threads -> Pointers], NEW t \in Threads,
         NEW g \in [Threads -> Pointers], NEW o,
         \A s \in Threads \ {t} : g[s] = f[s]
  PROVE  Holding(g, o) = Holding(f, o) + Is(o, g[t]) - Is(o, f[t])
<1> DEFINE R == {s \in Threads \ {t} : f[s] = o}
           F == {s \in Threads : f[s] = o}
           G == {s \in Threads : g[s] = o}
<1>1. IsFiniteSet(R) /\ Cardinality(R) \in Nat
  <2>1. IsFiniteSet(R)
    BY FS_Subset DEF NamesDiffer
  <2>. QED BY <2>1, FS_CardinalityType
<1>2. t \notin R /\ Cardinality(R \cup {t}) = Cardinality(R) + 1
  BY <1>1, FS_AddElement
<1>3. F = IF f[t] = o THEN R \cup {t} ELSE R
  OBVIOUS
<1>4. G = IF g[t] = o THEN R \cup {t} ELSE R
  OBVIOUS
<1> HIDE DEF R, F, G
<1>5. Cardinality(F) = Cardinality(R) + Is(o, f[t])
  BY <1>1, <1>2, <1>3 DEF Is
<1>6. Cardinality(G) = Cardinality(R) + Is(o, g[t])
  BY <1>1, <1>2, <1>4 DEF Is
<1>7. Holding(f, o) = Cardinality(F) /\ Holding(g, o) = Cardinality(G)
  BY DEF Holding, F, G
<1>8. Is(o, g[t]) \in Int /\ Is(o, f[t]) \in Int
  BY DEF Is
<1>. QED BY <1>1, <1>5, <1>6, <1>7, <1>8

\* A step of a call.
LEMMA GoesOn ==
  ASSUME TypeOK, NEW t \in Threads, NEW l, At(t, l), Done(t),
         l \in {"lock", "read", "share", "assign", "expect", "unlock", "return", "result"}
  PROVE  /\ todo[t] \in Plans /\ todo[t] # << >> /\ Head(todo[t]) = l
         /\ todo'[t] = Tail(todo[t]) /\ todo' \in [Threads -> Plans]
         /\ \A s \in Threads \ {t} : todo'[s] = todo[s]
<1>1. todo[t] \in Plans /\ todo[t] # << >> /\ Head(todo[t]) = l
  BY DEF TypeOK, At
<1>. HIDE DEF Plans, LockPlans, ReadPlans, SharePlans, EndPlans
<1>2. Tail(todo[t]) \in Plans
  <2>1. ReadPlans \cup SharePlans \cup {<< >>, StorePlan, ExchangePlan, ComparePlan, ResultPlan, UnlockPlan,
                                        ExpectPlan, <<"return">>, <<"result">>} \subseteq Plans
    BY DEF Plans, EndPlans
  <2>. QED BY <1>1, <2>1, PlansGoOn
<1>. QED BY <1>1, <1>2 DEF Done, TypeOK

\* The plans by their sets are apart.
LEMMA PlansApart ==
  /\ SharePlans \cap (ReadPlans \cup LockPlans \cup EndPlans
       \cup {<< >>, StorePlan, ExchangePlan, ComparePlan, EqualPlan, ExpectPlan, UnlockPlan, ResultPlan}) = {}
  /\ {StorePlan, ExchangePlan, ComparePlan, EqualPlan, ExpectPlan, UnlockPlan, ResultPlan}
       \cap ({<< >>} \cup LockPlans \cup ReadPlans \cup EndPlans) = {}
  /\ (LockPlans \cup EndPlans \cup {<< >>}) \cap Inside = {}
  /\ << >> \notin LockPlans \cup ReadPlans \cup EndPlans
  /\ LockPlans \cap ReadPlans = {} /\ EndPlans \cap (LockPlans \cup ReadPlans) = {}
  /\ {ExpectPlan, UnlockPlan, ResultPlan} \cap UntouchedPlans = {}
  /\ ExchangePlan \notin {StorePlan, ComparePlan, EqualPlan, ExpectPlan, UnlockPlan, ResultPlan}
  /\ EqualPlan \notin {StorePlan, ComparePlan, ExpectPlan, UnlockPlan, ResultPlan}
  /\ ExpectPlan # UnlockPlan /\ ExpectPlan # ResultPlan /\ UnlockPlan # ResultPlan
<1>1. SharePlans \cap (ReadPlans \cup LockPlans \cup EndPlans
       \cup {<< >>, StorePlan, ExchangePlan, ComparePlan, EqualPlan, ExpectPlan, UnlockPlan, ResultPlan}) = {}
  OBVIOUS
<1>2. {StorePlan, ExchangePlan, ComparePlan, EqualPlan, ExpectPlan, UnlockPlan, ResultPlan}
       \cap ({<< >>} \cup LockPlans \cup ReadPlans \cup EndPlans) = {}
  OBVIOUS
<1>3. (LockPlans \cup EndPlans \cup {<< >>}) \cap Inside = {}
  OBVIOUS
<1>4. << >> \notin LockPlans \cup ReadPlans \cup EndPlans /\ LockPlans \cap ReadPlans = {}
  OBVIOUS
<1>7. EndPlans \cap (LockPlans \cup ReadPlans) = {}
  OBVIOUS
<1>5. {ExpectPlan, UnlockPlan, ResultPlan} \cap UntouchedPlans = {}
  OBVIOUS
<1>6. /\ ExchangePlan \notin {StorePlan, ComparePlan, EqualPlan, ExpectPlan, UnlockPlan, ResultPlan}
      /\ EqualPlan \notin {StorePlan, ComparePlan, ExpectPlan, UnlockPlan, ResultPlan}
      /\ ExpectPlan # UnlockPlan /\ ExpectPlan # ResultPlan /\ UnlockPlan # ResultPlan
  OBVIOUS
<1>. HIDE DEF Inside, LockPlans, ReadPlans, SharePlans, UntouchedPlans, StorePlan, ExchangePlan, ComparePlan,
              EqualPlan, ExpectPlan, UnlockPlan, ResultPlan, EndPlans
<1>. QED BY <1>1, <1>2, <1>3, <1>4, <1>5, <1>6, <1>7

-----------------------------------------------------------------------------
(* The invariant of the calls.                                             *)

HIDE DEF Plans, LockPlans, Inside, UntouchedPlans, ReadPlans, SharePlans, StorePlan, ExchangePlan,
         ComparePlan, EqualPlan, ExpectPlan, UnlockPlan, ResultPlan, EndPlans,
         StoreSteps, LoadSteps, ExchangeSteps, CompareSteps, Pointers

\* Each step of a call keeps the invariant.
LEMMA LockCalls ==
  ASSUME NamesDiffer, CallsInv, NEW t \in Threads, Lock(t) PROVE CallsInv'
<1>1. TypeOK /\ LocalsAt(todo[t], sptr[t], copy[t], seen[t])
  BY DEF CallsInv
<1>2. /\ todo[t] \in LockPlans /\ todo'[t] \in ReadPlans \cup {StorePlan}
      /\ todo' \in [Threads -> Plans] /\ \A s \in Threads \ {t} : todo'[s] = todo[s]
  BY <1>1, GoesOn, PlansGoOn DEF Lock
<1>3. TypeOK'
  BY <1>1, <1>2 DEF TypeOK, Lock
<1>4. Others(t)
  BY <1>2 DEF Others, Lock
<1>5. LocalsAt(todo'[t], sptr'[t], copy'[t], seen'[t])
  BY <1>1, <1>2, PlansApart DEF LocalsAt, Lock
<1>6. todo'[t] \in Inside /\ lock' = t /\ lock = Nobody
  BY <1>2 DEF Lock, Inside, UntouchedPlans
<1>7. InsideAt(t, todo[t])'
  BY <1>2, PlansApart DEF InsideAt, Lock, UntouchedPlans
<1>. QED BY <1>3, <1>4, <1>5, <1>6, <1>7, AloneInside DEF NamesDiffer, Lock

LEMMA UnlockCalls ==
  ASSUME NamesDiffer, CallsInv, NEW t \in Threads, Unlock(t) PROVE CallsInv'
<1>1. TypeOK /\ LocalsAt(todo[t], sptr[t], copy[t], seen[t])
  BY DEF CallsInv
<1>2. /\ todo[t] \in {UnlockPlan, ResultPlan} /\ todo'[t] \in {<<"return">>, <<"result">>}
      /\ todo' \in [Threads -> Plans] /\ \A s \in Threads \ {t} : todo'[s] = todo[s]
  BY <1>1, GoesOn, PlansGoOn DEF Unlock
<1>3. todo'[t] \in EndPlans /\ lock = t
  BY <1>2 DEF EndPlans, CallsInv, Exclusive, Inside
<1>4. TypeOK'
  <2>1. entry' \in [ptr : Pointers, mine : Pointers]
    BY DEF Unlock, Nothing, Pointers
  <2>. QED BY <1>1, <1>2, <2>1 DEF TypeOK, Unlock
<1>5. Others(t)
  BY <1>2 DEF Others, Unlock
<1>6. LocalsAt(todo'[t], sptr'[t], copy'[t], seen'[t])
  BY <1>1, <1>2, <1>3, PlansApart DEF LocalsAt, Unlock
<1>7. todo'[t] \notin Inside /\ lock' = Nobody
  BY <1>3, PlansApart DEF Unlock
<1>8. InsideAt(t, todo[t])'
  BY <1>7 DEF InsideAt, Inside, UntouchedPlans
<1>. QED BY <1>3, <1>4, <1>5, <1>6, <1>7, <1>8, AloneInside DEF NamesDiffer

LEMMA ReadCalls ==
  ASSUME NamesDiffer, CallsInv, NEW t \in Threads, Read(t) PROVE CallsInv'
<1>1. TypeOK /\ LocalsAt(todo[t], sptr[t], copy[t], seen[t]) /\ InsideAt(t, todo[t])
  BY DEF CallsInv
<1>2. /\ todo[t] \in ReadPlans /\ todo'[t] \in SharePlans
      /\ todo' \in [Threads -> Plans] /\ \A s \in Threads \ {t} : todo'[s] = todo[s]
  BY <1>1, GoesOn, PlansGoOn DEF Read
<1>3. lock = t /\ todo'[t] \in Inside
  BY <1>2 DEF CallsInv, Exclusive, Inside, UntouchedPlans
<1>4. seen'[t] = ptr /\ \A s \in Threads \ {t} : seen'[s] = seen[s]
  BY <1>1 DEF Read, TypeOK
<1>5. TypeOK'
  BY <1>1, <1>2 DEF TypeOK, Read
<1>6. Others(t)
  BY <1>2, <1>4 DEF Others, Read
<1>7. LocalsAt(todo'[t], sptr'[t], copy'[t], seen'[t])
  BY <1>1, <1>2, PlansApart DEF LocalsAt, Read
<1>8. InsideAt(t, todo[t])'
  BY <1>1, <1>2, <1>4, PlansApart DEF InsideAt, Read, UntouchedPlans
<1>. QED BY <1>3, <1>5, <1>6, <1>7, <1>8, AloneInside DEF NamesDiffer, Read

LEMMA ShareCalls ==
  ASSUME NamesDiffer, CallsInv, NEW t \in Threads, Share(t) PROVE CallsInv'
<1>1. TypeOK /\ LocalsAt(todo[t], sptr[t], copy[t], seen[t]) /\ InsideAt(t, todo[t])
  BY DEF CallsInv
<1>2. /\ todo[t] \in SharePlans /\ todo'[t] \in {ExchangePlan, ComparePlan, ResultPlan}
      /\ todo' \in [Threads -> Plans] /\ \A s \in Threads \ {t} : todo'[s] = todo[s]
  BY <1>1, GoesOn, PlansGoOn DEF Share
<1>3. lock = t /\ todo'[t] \in Inside
  BY <1>2 DEF CallsInv, Exclusive, Inside, UntouchedPlans
<1>4. /\ seen'[t] = Null /\ copy'[t] = ptr
      /\ \A s \in Threads \ {t} : seen'[s] = seen[s] /\ copy'[s] = copy[s]
  BY <1>1, <1>2 DEF Share, TypeOK, InsideAt
<1>5. TypeOK'
  <2>1. count' \in [Objects -> Int]
    BY <1>1, CountedNone DEF Share, TypeOK
  <2>2. copy' \in [Threads -> Pointers] /\ seen' \in [Threads -> Pointers]
    BY <1>1 DEF Share, TypeOK, Pointers
  <2>. QED BY <1>1, <1>2, <2>1, <2>2 DEF TypeOK, Share
<1>6. Others(t)
  BY <1>2, <1>4 DEF Others, Share
<1>7. LocalsAt(todo'[t], sptr'[t], copy'[t], seen'[t])
  BY <1>2, <1>4, PlansApart DEF LocalsAt
<1>8. InsideAt(t, todo[t])'
  BY <1>1, <1>2, <1>4, PlansApart DEF InsideAt, Share, UntouchedPlans
<1>. QED BY <1>3, <1>5, <1>6, <1>7, <1>8, AloneInside DEF NamesDiffer, Share

LEMMA AssignCalls ==
  ASSUME NamesDiffer, CallsInv, NEW t \in Threads, Assign(t) PROVE CallsInv'
<1>1. TypeOK /\ LocalsAt(todo[t], sptr[t], copy[t], seen[t]) /\ InsideAt(t, todo[t])
  BY DEF CallsInv
<1>2. /\ \/ todo[t] = StorePlan /\ todo'[t] = UnlockPlan
         \/ todo[t] = ExchangePlan /\ todo'[t] = ResultPlan
         \/ todo[t] = EqualPlan /\ todo'[t] = ExpectPlan
      /\ todo' \in [Threads -> Plans] /\ \A s \in Threads \ {t} : todo'[s] = todo[s]
  BY <1>1, GoesOn, PlansGoOn DEF Assign
<1>3. lock = t /\ todo'[t] \in Inside
  BY <1>2 DEF CallsInv, Exclusive, Inside, UntouchedPlans
<1>4. ptr = entry.ptr /\ mine[t] = entry.mine /\ ptr' = sptr[t]
  BY <1>1, <1>2 DEF InsideAt, UntouchedPlans, Assign
<1>5. TypeOK'
  <2>1. count' \in [Objects -> Int]
    BY <1>1, CountedOne DEF Assign, TypeOK
  <2>. QED BY <1>1, <1>2, <2>1 DEF TypeOK, Assign
<1>6. Others(t)
  BY <1>2 DEF Others, Assign
<1>7. LocalsAt(todo'[t], sptr'[t], copy'[t], seen'[t])
  BY <1>1, <1>2, PlansApart DEF LocalsAt, Assign
<1>8. InsideAt(t, todo[t])'
  BY <1>1, <1>2, <1>4, PlansApart DEF InsideAt, Assign, UntouchedPlans, Stored
<1>. QED BY <1>3, <1>5, <1>6, <1>7, <1>8, AloneInside DEF NamesDiffer, Assign

LEMMA CompareCalls ==
  ASSUME NamesDiffer, CallsInv, NEW t \in Threads, Compare(t) PROVE CallsInv'
<1>1. TypeOK /\ LocalsAt(todo[t], sptr[t], copy[t], seen[t]) /\ InsideAt(t, todo[t])
  BY DEF CallsInv
<1>2. todo[t] = ComparePlan /\ Tail(todo[t]) = ExpectPlan /\ <<"assign">> \o Tail(todo[t]) = EqualPlan
  BY <1>1, PlansGoOn DEF Compare, At, TypeOK
<1>3. /\ todo'[t] = IF ptr = mine[t] THEN EqualPlan ELSE ExpectPlan
      /\ todo' \in [Threads -> Plans] /\ \A s \in Threads \ {t} : todo'[s] = todo[s]
  BY <1>1, <1>2 DEF Compare, TypeOK, Plans, Inside, UntouchedPlans
<1>4. lock = t /\ todo'[t] \in Inside
  BY <1>2, <1>3 DEF CallsInv, Exclusive, Inside, UntouchedPlans
<1>5. ptr = entry.ptr /\ mine[t] = entry.mine
  BY <1>1, <1>2 DEF InsideAt, UntouchedPlans
<1>6. TypeOK'
  BY <1>1, <1>3 DEF TypeOK, Compare
<1>7. Others(t)
  BY <1>3 DEF Others, Compare
<1>8. LocalsAt(todo'[t], sptr'[t], copy'[t], seen'[t])
  BY <1>1, <1>2, <1>3, PlansApart DEF LocalsAt, Compare
<1>9. InsideAt(t, todo[t])'
  BY <1>3, <1>5, PlansApart DEF InsideAt, Compare, UntouchedPlans, Stored
<1>. QED BY <1>4, <1>6, <1>7, <1>8, <1>9, AloneInside DEF NamesDiffer, Compare

LEMMA ExpectCalls ==
  ASSUME NamesDiffer, CallsInv, NEW t \in Threads, Expect(t) PROVE CallsInv'
<1>1. TypeOK /\ LocalsAt(todo[t], sptr[t], copy[t], seen[t]) /\ InsideAt(t, todo[t])
  BY DEF CallsInv
<1>2. /\ todo[t] = ExpectPlan /\ todo'[t] = UnlockPlan
      /\ todo' \in [Threads -> Plans] /\ \A s \in Threads \ {t} : todo'[s] = todo[s]
  BY <1>1, GoesOn, PlansGoOn DEF Expect
<1>3. lock = t /\ todo'[t] \in Inside
  BY <1>2 DEF CallsInv, Exclusive, Inside
<1>4. ptr = Stored(t) /\ mine'[t] = ptr /\ \A s \in Threads \ {t} : mine'[s] = mine[s]
  BY <1>1, <1>2 DEF InsideAt, Expect, TypeOK
<1>5. TypeOK'
  <2>1. count' \in [Objects -> Int]
    BY <1>1, CountedOne DEF Expect, TypeOK
  <2>. QED BY <1>1, <1>2, <2>1 DEF TypeOK, Expect
<1>6. Others(t)
  BY <1>2, <1>4 DEF Others, Expect
<1>7. LocalsAt(todo'[t], sptr'[t], copy'[t], seen'[t])
  BY <1>1, <1>2, PlansApart DEF LocalsAt, Expect
<1>8. InsideAt(t, todo[t])'
  BY <1>2, <1>4, PlansApart DEF InsideAt, Expect, UntouchedPlans, Stored
<1>. QED BY <1>3, <1>5, <1>6, <1>7, <1>8, AloneInside DEF NamesDiffer, Expect

LEMMA ReturnCalls ==
  ASSUME NamesDiffer, CallsInv, NEW t \in Threads, Return(t) PROVE CallsInv'
<1>1. TypeOK /\ LocalsAt(todo[t], sptr[t], copy[t], seen[t])
  BY DEF CallsInv
<1>2. /\ todo[t] \in EndPlans /\ todo'[t] = << >>
      /\ todo' \in [Threads -> Plans] /\ \A s \in Threads \ {t} : todo'[s] = todo[s]
  BY <1>1, GoesOn, PlansGoOn DEF Return, EndPlans
<1>3. lock # t /\ todo'[t] \notin Inside
  BY <1>2, PlansApart DEF CallsInv, Exclusive
<1>4. TypeOK'
  <2>1. count' \in [Objects -> Int]
    BY <1>1, CountedTwo DEF Return, TypeOK
  <2>2. /\ mine' \in [Threads -> Pointers] /\ copy' \in [Threads -> Pointers]
        /\ sptr' \in [Threads -> Pointers]
    BY <1>1 DEF Return, TypeOK, Pointers
  <2>. QED BY <1>1, <1>2, <2>1, <2>2 DEF TypeOK, Return
<1>5. /\ copy'[t] = Null /\ sptr'[t] = Null /\ seen'[t] = seen[t]
      /\ \A s \in Threads \ {t} : /\ copy'[s] = copy[s] /\ sptr'[s] = sptr[s] /\ seen'[s] = seen[s]
                                  /\ mine'[s] = mine[s]
  BY <1>1 DEF Return, TypeOK
<1>6. Others(t)
  BY <1>2, <1>5 DEF Others
<1>7. LocalsAt(todo'[t], sptr'[t], copy'[t], seen'[t])
  BY <1>1, <1>2, <1>5, PlansApart DEF LocalsAt
<1>8. InsideAt(t, todo[t])'
  BY <1>3 DEF InsideAt, Inside, UntouchedPlans
<1>. QED BY <1>3, <1>4, <1>6, <1>7, <1>8, AloneInside DEF NamesDiffer, Return

\* The parameter of a call is null, what the thread has, or a new object.
LEMMA ParameterIs ==
  ASSUME TypeOK, NEW t \in Threads, NEW o \in {Null, mine[t]} \cup Fresh
  PROVE  /\ o \in Pointers
         /\ o \in used => o = mine[t] \/ o = Null
<1>1. ASSUME o \in Fresh PROVE o \in Objects /\ o \notin used
  <2>1. used # Objects /\ o = CHOOSE x \in Objects : x \notin used
    BY <1>1 DEF Fresh
  <2>2. \E x \in Objects : x \notin used
    BY <2>1 DEF TypeOK
  <2>. QED BY <2>1, <2>2
<1>. QED BY <1>1 DEF TypeOK, Pointers

\* So does a call.
LEMMA CallCalls ==
  ASSUME NamesDiffer, CallsInv, NEW t \in Threads, NEW s \in LockPlans, NEW o, Call(t, s, o)
  PROVE  CallsInv'
<1>1. TypeOK /\ LocalsAt(todo[t], sptr[t], copy[t], seen[t]) /\ todo[t] = << >>
  BY DEF CallsInv, Call
<1>2. o \in Pointers
  BY <1>1, ParameterIs DEF Call
<1>3. /\ todo'[t] = s /\ todo' \in [Threads -> Plans] /\ \A r \in Threads \ {t} : todo'[r] = todo[r]
      /\ sptr' \in [Threads -> Pointers] /\ \A r \in Threads \ {t} : sptr'[r] = sptr[r]
  BY <1>1, <1>2 DEF Call, TypeOK, Plans
<1>4. TypeOK'
  <2>1. count' \in [Objects -> Int]
    BY <1>1, CountedNone DEF Call, TypeOK
  <2>2. used' \subseteq Objects
    BY <1>1, <1>2 DEF Call, TypeOK, Pointers
  <2>. QED BY <1>1, <1>3, <2>1, <2>2 DEF TypeOK, Call
<1>5. Others(t)
  BY <1>3 DEF Others, Call
<1>6. LocalsAt(todo'[t], sptr'[t], copy'[t], seen'[t])
  BY <1>1, <1>3, PlansApart DEF LocalsAt, Call
<1>7. todo'[t] \notin Inside /\ lock # t
  BY <1>1, <1>3, PlansApart DEF CallsInv, Exclusive
<1>8. InsideAt(t, todo[t])'
  BY <1>7 DEF InsideAt, Inside, UntouchedPlans
<1>. QED BY <1>4, <1>5, <1>6, <1>7, <1>8, AloneInside DEF NamesDiffer, Call

\* Steps of the weak pointer, and none at all, leave the calls alone.
LEMMA WeakCalls ==
  ASSUME NamesDiffer, CallsInv, UNCHANGED <<ptr, lock, entry, used, mine, sptr, copy, seen, todo>>,
         count' \in [Objects -> Int], weak' \in Pointers, strong' \in Pointers
  PROVE  CallsInv'
BY DEF CallsInv, TypeOK, Exclusive, LocalsAt, InsideAt, Stored

\* The invariant holds at first, and every step keeps it.
LEMMA CallsInit == NamesDiffer /\ Init => CallsInv
<1> SUFFICES ASSUME NamesDiffer, Init PROVE CallsInv
  OBVIOUS
<1>1. Null \in Pointers /\ << >> \in Plans
  BY DEF Pointers, Plans
<1>2. TypeOK
  <2>1. entry \in [ptr : Pointers, mine : Pointers]
    BY <1>1 DEF Init, Nothing
  <2>. QED BY <1>1, <2>1 DEF TypeOK, Init, None
<1>3. \A t \in Threads : /\ todo[t] = << >> /\ lock # t
                         /\ sptr[t] = Null /\ copy[t] = Null /\ seen[t] = Null
  BY DEF Init, None, NamesDiffer
<1>4. Exclusive
  BY <1>3, PlansApart DEF Exclusive
<1>5. \A t \in Threads : LocalsAt(todo[t], sptr[t], copy[t], seen[t]) /\ InsideAt(t, todo[t])
  BY <1>3, PlansApart DEF LocalsAt, InsideAt, Inside, UntouchedPlans
<1>. QED BY <1>2, <1>4, <1>5 DEF CallsInv

LEMMA CallsStep == NamesDiffer /\ CallsInv /\ [Next]_ptrVars => CallsInv'
<1> SUFFICES ASSUME NamesDiffer, CallsInv, [Next]_ptrVars PROVE CallsInv'
  OBVIOUS
<1>1. {StoreSteps, LoadSteps, ExchangeSteps, CompareSteps} \subseteq LockPlans
  BY DEF LockPlans
<1>2. ASSUME NEW t \in Threads, NEW o, Store(t, o) \/ Exchange(t, o) \/ CompareExchange(t, o) \/ Load(t)
      PROVE  CallsInv'
  BY <1>1, <1>2, CallCalls DEF Store, Exchange, CompareExchange, Load
<1>3. ASSUME NEW t \in Threads, Step(t) PROVE CallsInv'
  BY <1>3, LockCalls, UnlockCalls, ReadCalls, ShareCalls, AssignCalls, CompareCalls, ExpectCalls,
     ReturnCalls DEF Step
<1>4. ASSUME NEW t \in Threads, WeakStore(t) PROVE CallsInv'
  BY <1>4, WeakCalls DEF WeakStore, locals, CallsInv, TypeOK
<1>5. TypeOK /\ Null \in Pointers
  BY DEF CallsInv, Pointers
<1>6. CASE WeakLock
  BY <1>5, <1>6, WeakCalls, CountedNone DEF WeakLock, TypeOK
<1>7. CASE LetGo
  BY <1>5, <1>7, WeakCalls, CountedOne DEF LetGo, TypeOK
<1>8. CASE UNCHANGED ptrVars
  BY <1>5, <1>8, WeakCalls DEF ptrVars, locals, TypeOK
<1>. QED BY <1>2, <1>3, <1>4, <1>6, <1>7, <1>8 DEF Next

-----------------------------------------------------------------------------
(* The calls are operations of one step on a register.                     *)

\* Nobody who is inside the mutex is about to return.
LEMMA ViewIs ==
  ASSUME CallsInv, NEW t \in Threads
  PROVE  view[t] = IF lock = t THEN entry.mine ELSE IF At(t, "result") THEN copy[t] ELSE mine[t]
<1>1. lock = t => ~At(t, "result")
  <2>1. ASSUME At(t, "result") PROVE todo[t] \in EndPlans
    BY <2>1, PlansGoOn DEF At, CallsInv, TypeOK, EndPlans
  <2>. QED BY <2>1, PlansApart DEF CallsInv, Exclusive
<1>. QED BY <1>1 DEF view

\* The same after a step.
LEMMA ViewWillBe ==
  ASSUME CallsInv', NEW t \in Threads
  PROVE  view'[t] = IF lock' = t THEN entry'.mine
                    ELSE IF At(t, "result")' THEN copy'[t] ELSE mine'[t]
<1>1. lock' = t => ~At(t, "result")'
  <2>1. ASSUME At(t, "result")' PROVE todo'[t] \in EndPlans
    BY <2>1, PlansGoOn DEF At, CallsInv, TypeOK, EndPlans
  <2>. QED BY <2>1, PlansApart DEF CallsInv, Exclusive
<1>. QED BY <1>1 DEF view

\* What the others have learnt.
LEMMA OthersView ==
  ASSUME CallsInv, CallsInv', NEW t \in Threads, Others(t),
         \A s \in Threads \ {t} : (lock' = s <=> lock = s) /\ (lock = s => entry' = entry)
  PROVE  \A s \in Threads \ {t} : view'[s] = view[s]
<1> TAKE s \in Threads \ {t}
<1>1. At(s, "result")' <=> At(s, "result")
  BY DEF At, Others
<1>2. view'[s] = IF lock' = s THEN entry'.mine ELSE IF At(s, "result")' THEN copy'[s] ELSE mine'[s]
  BY ViewWillBe
<1>. QED BY <1>1, <1>2, ViewIs DEF Others

\* A step that nobody learns from.
LEMMA NobodyLearns ==
  ASSUME CallsInv, CallsInv', NEW t \in Threads, Others(t),
         \A s \in Threads \ {t} : (lock' = s <=> lock = s) /\ (lock = s => entry' = entry),
         value' = value, view'[t] = view[t]
  PROVE  UNCHANGED <<value, view>>
<1>1. \A s \in Threads : view'[s] = view[s]
  BY OthersView
<1>2. view' = view
  BY <1>1 DEF view
<1>. QED BY <1>2

\* Unlock is the operation.
LEMMA UnlockOperates ==
  ASSUME NamesDiffer, CallsInv, CallsInv', NEW t \in Threads, Unlock(t)
  PROVE  \E v \in Pointers : \/ Register!Store(v) \/ Register!Load(t)
                             \/ Register!Exchange(t, v) \/ Register!CompareExchange(t, v)
<1>1. /\ TypeOK /\ InsideAt(t, todo[t])
  BY DEF CallsInv
<1>2. /\ \/ todo[t] = UnlockPlan /\ todo'[t] = <<"return">>
         \/ todo[t] = ResultPlan /\ todo'[t] = <<"result">>
      /\ \A s \in Threads \ {t} : todo'[s] = todo[s]
  BY <1>1, GoesOn, PlansGoOn DEF Unlock
<1>3. lock = t /\ lock' = Nobody
  BY <1>2 DEF CallsInv, Exclusive, Inside, Unlock
<1>4. value = entry.ptr /\ value' = ptr /\ view[t] = entry.mine
  BY <1>3, ViewIs DEF value, Unlock, NamesDiffer
<1>5. Others(t)
  BY <1>2 DEF Others, Unlock
<1>6. /\ \A s \in Threads \ {t} : view'[s] = view[s]
      /\ sptr[t] \in Pointers
  BY <1>1, <1>3, <1>5, OthersView DEF NamesDiffer, TypeOK
<1>7. \A x : view'[t] = x => view' = [view EXCEPT ![t] = x]
  <2> TAKE x
  <2> HAVE view'[t] = x
  <2>1. view = [s \in Threads |-> view[s]] /\ view' = [s \in Threads |-> view'[s]]
    BY DEF view
  <2>. QED BY <1>6, <2>1
<1>8. CASE todo[t] = UnlockPlan
  <2>1. todo'[t] = <<"return">>
    BY <1>2, <1>8, PlansApart
  <2>2. view'[t] = mine[t]
    BY <1>3, <2>1, ViewWillBe, PlansBegin DEF At, Unlock, NamesDiffer
  <2>3. CASE ptr = sptr[t] /\ mine[t] = entry.mine
    <3>1. view' = view
      BY <1>4, <1>6, <2>2, <2>3 DEF view
    <3>. QED BY <1>4, <1>6, <2>3, <3>1 DEF Register!Store
  <2>4. CASE ptr = Stored(t) /\ mine[t] = ptr
    <3>1. value' = IF value = view[t] THEN sptr[t] ELSE value
      BY <1>4, <2>4 DEF Stored
    <3>2. view' = [view EXCEPT ![t] = value']
      BY <1>4, <1>7, <2>2, <2>4
    <3>. QED BY <1>6, <3>1, <3>2 DEF Register!CompareExchange, Register!Learns
  <2>. QED BY <1>1, <1>8, <2>3, <2>4 DEF InsideAt
<1>9. CASE todo[t] = ResultPlan
  <2>1. todo'[t] = <<"result">>
    BY <1>2, <1>9, PlansApart
  <2>2. view'[t] = copy[t]
    BY <1>3, <2>1, ViewWillBe, PlansBegin DEF At, Unlock, NamesDiffer
  <2>3. copy[t] = value /\ ptr \in {entry.ptr, sptr[t]}
    BY <1>1, <1>4, <1>9 DEF InsideAt
  <2>4. Register!Learns(t, value)
    BY <1>7, <2>2, <2>3 DEF Register!Learns
  <2>. QED BY <1>4, <1>6, <2>3, <2>4 DEF Register!Load, Register!Exchange
<1>. QED BY <1>2, <1>8, <1>9

\* Every other step is one that nobody learns from.
LEMMA StepIsOperation ==
  ASSUME NamesDiffer, CallsInv, CallsInv', NEW t \in Threads, Step(t)
  PROVE  UNCHANGED <<value, view>> \/ \E v \in Pointers : \/ Register!Store(v) \/ Register!Load(t)
           \/ Register!Exchange(t, v) \/ Register!CompareExchange(t, v)
<1>1. TypeOK /\ LocalsAt(todo[t], sptr[t], copy[t], seen[t]) /\ InsideAt(t, todo[t])
  BY DEF CallsInv
<1>2. ASSUME lock = t, lock' = t, entry' = entry, Others(t) PROVE UNCHANGED <<value, view>>
  <2>1. value' = value
    BY <1>2 DEF value, NamesDiffer
  <2>2. view'[t] = view[t]
    BY <1>2, ViewIs, ViewWillBe
  <2>. QED BY <1>2, <2>1, <2>2, NobodyLearns
<1>3. CASE Lock(t)
  <2>1. \A s \in Threads \ {t} : todo'[s] = todo[s]
    BY <1>1, <1>3, GoesOn DEF Lock
  <2>2. Others(t)
    BY <1>3, <2>1 DEF Others, Lock
  <2>3. ~At(t, "result")
    BY <1>3 DEF Lock, At
  <2>4. value' = value /\ view'[t] = view[t]
    BY <1>3, <2>3, ViewIs, ViewWillBe DEF Lock, value, NamesDiffer
  <2>. QED BY <1>3, <2>2, <2>4, NobodyLearns DEF Lock, NamesDiffer
<1>4. CASE Unlock(t)
  BY <1>4, UnlockOperates
<1>5. CASE Read(t) \/ Share(t) \/ Assign(t) \/ Compare(t) \/ Expect(t)
  <2>1. lock = t
    <3>1. todo[t] \in Inside
      BY <1>1, <1>5, PlansGoOn
         DEF Read, Share, Assign, Compare, Expect, At, TypeOK, Inside, UntouchedPlans
    <3>. QED BY <3>1 DEF CallsInv, Exclusive
  <2>2. lock' = t /\ entry' = entry
    BY <1>5, <2>1 DEF Read, Share, Assign, Compare, Expect
  <2>3. Others(t)
    <3>1. \A s \in Threads \ {t} : todo'[s] = todo[s]
      BY <1>1, <1>5 DEF TypeOK, Read, Share, Assign, Compare, Expect, Done
    <3>. QED BY <1>1, <1>5, <3>1 DEF Others, Read, Share, Assign, Compare, Expect, TypeOK
  <2>. QED BY <1>2, <2>1, <2>2, <2>3
<1>6. CASE Return(t)
  <2>1. /\ todo[t] \in EndPlans /\ todo'[t] = << >> /\ \A s \in Threads \ {t} : todo'[s] = todo[s]
        /\ At(t, "result") \/ At(t, "return")
    BY <1>1, <1>6, GoesOn, PlansGoOn DEF Return, EndPlans
  <2>2. lock # t /\ lock' = lock /\ entry' = entry /\ ptr' = ptr
    BY <1>6, <2>1, PlansApart DEF CallsInv, Exclusive, Return
  <2>3. Others(t)
    BY <1>1, <1>6, <2>1 DEF Others, Return, TypeOK
  <2>4. view'[t] = mine'[t]
    BY <2>1, <2>2, ViewWillBe DEF At
  <2>5. mine'[t] = IF At(t, "result") THEN copy[t] ELSE mine[t]
    BY <1>1, <1>6 DEF Return, TypeOK
  <2>. QED BY <2>2, <2>3, <2>4, <2>5, ViewIs, NobodyLearns DEF value
<1>. QED BY <1>3, <1>4, <1>5, <1>6 DEF Step

\* Nor does a thread learn from calling.
LEMMA CallLearnsNothing ==
  ASSUME NamesDiffer, CallsInv, CallsInv', NEW t \in Threads, NEW s \in LockPlans, NEW o, Call(t, s, o)
  PROVE  UNCHANGED <<value, view>>
<1>1. TypeOK /\ todo[t] = << >> /\ todo'[t] = s /\ \A r \in Threads \ {t} : todo'[r] = todo[r]
  BY DEF CallsInv, Call, TypeOK
<1>2. Others(t)
  BY <1>1 DEF Others, Call, TypeOK
<1>3. lock # t /\ lock' = lock /\ entry' = entry /\ ptr' = ptr /\ mine' = mine
  BY <1>1, PlansApart DEF CallsInv, Exclusive, Call
<1>4. ~At(t, "result") /\ ~At(t, "result")'
  <2>1. Head(s) # "result"
    BY PlansBegin
  <2>. QED BY <1>1, <2>1 DEF At
<1>. QED BY <1>2, <1>3, <1>4, ViewIs, ViewWillBe, NobodyLearns DEF value

\* Every step is an operation of the register, or none.
LEMMA RegisterStep ==
  ASSUME NamesDiffer, CallsInv, CallsInv', [Next]_ptrVars
  PROVE  [Register!Next]_<<value, view>>
<1>1. {StoreSteps, LoadSteps, ExchangeSteps, CompareSteps} \subseteq LockPlans
  BY DEF LockPlans
<1>2. ASSUME NEW t \in Threads, NEW o, Store(t, o) \/ Exchange(t, o) \/ CompareExchange(t, o) \/ Load(t)
      PROVE  UNCHANGED <<value, view>>
  BY <1>1, <1>2, CallLearnsNothing DEF Store, Exchange, CompareExchange, Load
<1>3. ASSUME NEW t \in Threads, Step(t) PROVE [Register!Next]_<<value, view>>
  BY <1>3, StepIsOperation DEF Register!Next, Pointers
<1>4. ASSUME UNCHANGED <<ptr, lock, entry, mine, copy, todo>> PROVE UNCHANGED <<value, view>>
  BY <1>4 DEF value, view, At
<1>. QED BY <1>2, <1>3, <1>4 DEF Next, WeakStore, WeakLock, LetGo, ptrVars, locals

LEMMA RegisterInit == Init => Register!Init
<1> SUFFICES ASSUME Init PROVE Register!Init
  OBVIOUS
<1>1. value = Null
  BY DEF Init, Nothing, value
<1>2. \A t \in Threads : entry.mine = Null /\ copy[t] = Null /\ mine[t] = Null
  BY DEF Init, Nothing, None
<1>3. view = [t \in Threads |-> Null]
  <2>1. \A t \in Threads : view[t] = Null
    <3>1. \A t \in Threads : ~At(t, "result")
      BY DEF Init, At
    <3>. QED BY <1>2, <3>1 DEF view
  <2>2. view = [t \in Threads |-> view[t]]
    BY DEF view
  <2>. QED BY <2>1, <2>2
<1>. QED BY <1>1, <1>3 DEF Register!Init

\* The calls keep to their plans, and whoever is inside the mutex is alone.
THEOREM PointerCalls ==
  ASSUME NamesDiffer
  PROVE  Spec => []CallsInv
BY CallsInit, CallsStep, PTL DEF Spec

(***************************************************************************)
(* Store, load, reset, exchange and compare_exchange_strong behave like    *)
(* operations of one step on one value, for any threads and objects        *)
(* (atomic_shared_ptr.hpp:80-127).                                         *)
(***************************************************************************)
THEOREM PointerImplementsRegister ==
  ASSUME NamesDiffer
  PROVE  Spec => ImplementsRegister
<1>1. Init => Register!Init
  BY RegisterInit
<1>2. CallsInv /\ CallsInv' /\ [Next]_ptrVars => [Register!Next]_<<value, view>>
  BY RegisterStep
<1>. QED BY <1>1, <1>2, PointerCalls, PTL DEF Spec, ImplementsRegister, Register!Spec

-----------------------------------------------------------------------------
(* The count of owners.                                                    *)

\* The owners of an object, one by one.
LEMMA OwnersAre ==
  \A o : Owners(o) = Is(o, ptr) + Is(o, strong) + Holding(mine, o) + Holding(sptr, o) + Holding(copy, o)
BY DEF Owners, Is

\* A thing is one owner or none.
LEMMA IsNumber == \A x, o : Is(x, o) \in {0, 1} /\ (Is(x, o) = 1 <=> x = o)
BY DEF Is

\* A thread changes what it owns, and the count of each object goes along.
LEMMA Recounted ==
  ASSUME NamesDiffer, TypeOK, TypeOK', Counting, NEW t \in Threads, mine' = [mine EXCEPT ![t] = mine'[t]],
         sptr' = [sptr EXCEPT ![t] = sptr'[t]], copy' = [copy EXCEPT ![t] = copy'[t]],
         \A x \in Objects :
           count'[x] = count[x] + (Is(x, ptr') - Is(x, ptr)) + (Is(x, strong') - Is(x, strong))
                       + (Is(x, mine'[t]) - Is(x, mine[t])) + (Is(x, sptr'[t]) - Is(x, sptr[t]))
                       + (Is(x, copy'[t]) - Is(x, copy[t]))
  PROVE  Counting'
<1>1. mine \in [Threads -> Pointers] /\ sptr \in [Threads -> Pointers] /\ copy \in [Threads -> Pointers]
  BY DEF TypeOK
<1>4. mine' \in [Threads -> Pointers] /\ sptr' \in [Threads -> Pointers] /\ copy' \in [Threads -> Pointers]
  BY DEF TypeOK
<1>3. \A s \in Threads \ {t} : mine'[s] = mine[s] /\ sptr'[s] = sptr[s] /\ copy'[s] = copy[s]
  BY <1>1
<1>2. ASSUME NEW x \in Objects PROVE count'[x] = Owners(x)'
  <2>1. /\ Holding(mine', x) = Holding(mine, x) + Is(x, mine'[t]) - Is(x, mine[t])
        /\ Holding(sptr', x) = Holding(sptr, x) + Is(x, sptr'[t]) - Is(x, sptr[t])
        /\ Holding(copy', x) = Holding(copy, x) + Is(x, copy'[t]) - Is(x, copy[t])
    <3>1. Holding(mine', x) = Holding(mine, x) + Is(x, mine'[t]) - Is(x, mine[t])
      BY <1>1, <1>3, <1>4, HoldingMoves
    <3>2. Holding(sptr', x) = Holding(sptr, x) + Is(x, sptr'[t]) - Is(x, sptr[t])
      BY <1>1, <1>3, <1>4, HoldingMoves
    <3>3. Holding(copy', x) = Holding(copy, x) + Is(x, copy'[t]) - Is(x, copy[t])
      BY <1>1, <1>3, <1>4, HoldingMoves
    <3>. QED BY <3>1, <3>2, <3>3
  <2>2. Holding(mine, x) \in Nat /\ Holding(sptr, x) \in Nat /\ Holding(copy, x) \in Nat
    BY <1>1, HoldingIs
  <2>3. Owners(x)' = Is(x, ptr') + Is(x, strong') + Holding(mine', x) + Holding(sptr', x) + Holding(copy', x)
    BY DEF Owners, Is
  <2>4. count[x] = Is(x, ptr) + Is(x, strong) + Holding(mine, x) + Holding(sptr, x) + Holding(copy, x)
    BY OwnersAre DEF Counting
  <2>. QED BY <2>1, <2>2, <2>3, <2>4, IsNumber
<1>. QED BY <1>2 DEF Counting

\* The same for what no thread owns.
LEMMA RecountedStrong ==
  ASSUME NamesDiffer, TypeOK, Counting, UNCHANGED <<ptr, mine, sptr, copy>>,
         \A x \in Objects : count'[x] = count[x] + (Is(x, strong') - Is(x, strong))
  PROVE  Counting'
<1>1. ASSUME NEW x \in Objects PROVE count'[x] = Owners(x)'
  <2>1. Holding(mine, x) \in Nat /\ Holding(sptr, x) \in Nat /\ Holding(copy, x) \in Nat
    BY HoldingIs DEF TypeOK
  <2>2. Owners(x)' = Is(x, ptr) + Is(x, strong') + Holding(mine, x) + Holding(sptr, x) + Holding(copy, x)
    BY DEF Owners, Is
  <2>3. count[x] = Is(x, ptr) + Is(x, strong) + Holding(mine, x) + Holding(sptr, x) + Holding(copy, x)
    BY OwnersAre DEF Counting
  <2>. QED BY <2>1, <2>2, <2>3, IsNumber
<1>. QED BY <1>1 DEF Counting

\* Null is no object.
LEMMA NobodyOwns ==
  ASSUME NamesDiffer, NEW x \in Objects
  PROVE  Is(x, Null) = 0
BY DEF NamesDiffer, Is

\* At first nobody owns anything.
LEMMA CountingInit == NamesDiffer /\ Init => Counting
<1> SUFFICES ASSUME NamesDiffer, Init, NEW o \in Objects PROVE count[o] = Owners(o)
  BY DEF Counting
<1>1. ptr # o /\ strong # o /\ count[o] = 0
  BY DEF Init, NamesDiffer
<1>2. \A t \in Threads : None[t] # o
  BY DEF None, NamesDiffer
<1>3. Holding(None, o) = 0
  <2>1. {t \in Threads : None[t] = o} = {}
    BY <1>2
  <2>. QED BY <2>1, FS_EmptySet DEF Holding
<1>. QED BY <1>1, <1>3 DEF Owners, Init

\* Each step of a call counts what it copies and drops.
LEMMA ShareCounts ==
  ASSUME NamesDiffer, CallsInv, CallsInv', Counting, NEW t \in Threads, Share(t) PROVE Counting'
<1>1. TypeOK /\ TypeOK' /\ LocalsAt(todo[t], sptr[t], copy[t], seen[t])
  BY DEF CallsInv
<1>2. copy[t] = Null
  BY <1>1, GoesOn, PlansGoOn DEF Share, LocalsAt
<1>3. /\ mine' = [mine EXCEPT ![t] = mine'[t]] /\ mine'[t] = mine[t]
      /\ sptr' = [sptr EXCEPT ![t] = sptr'[t]] /\ sptr'[t] = sptr[t]
      /\ copy' = [copy EXCEPT ![t] = copy'[t]] /\ copy'[t] = seen[t] /\ ptr' = ptr /\ strong' = strong
  BY <1>1 DEF Share, TypeOK
<1>4. ASSUME NEW x \in Objects PROVE count'[x] = count[x] + Is(x, seen[t]) - Is(x, copy[t])
  <2>1. Is(x, copy[t]) = 0
    BY <1>2, NobodyOwns
  <2>2. count[x] \in Int /\ count'[x] = count[x] + Is(x, seen[t])
    BY <1>1, CountedNone DEF Share, TypeOK
  <2>. QED BY <2>1, <2>2, IsNumber
<1>5. ASSUME NEW x \in Objects
      PROVE  count'[x] = count[x] + (Is(x, ptr') - Is(x, ptr)) + (Is(x, strong') - Is(x, strong))
               + (Is(x, mine'[t]) - Is(x, mine[t])) + (Is(x, sptr'[t]) - Is(x, sptr[t]))
               + (Is(x, copy'[t]) - Is(x, copy[t]))
  BY <1>1, <1>3, <1>4, IsNumber DEF TypeOK
<1>. QED BY <1>1, <1>3, <1>5, Recounted

LEMMA AssignCounts ==
  ASSUME NamesDiffer, CallsInv, CallsInv', Counting, NEW t \in Threads, Assign(t) PROVE Counting'
<1>1. TypeOK /\ TypeOK'
  BY DEF CallsInv
<1>2. /\ mine' = [mine EXCEPT ![t] = mine'[t]] /\ mine'[t] = mine[t]
      /\ sptr' = [sptr EXCEPT ![t] = sptr'[t]] /\ sptr'[t] = sptr[t]
      /\ copy' = [copy EXCEPT ![t] = copy'[t]] /\ copy'[t] = copy[t] /\ strong' = strong /\ ptr' = sptr[t]
  BY <1>1 DEF Assign, TypeOK
<1>3. ASSUME NEW x \in Objects
      PROVE  count[x] \in Int /\ count'[x] = count[x] + Is(x, ptr') - Is(x, ptr)
  BY <1>1, <1>2, CountedOne DEF Assign, TypeOK
<1>4. ASSUME NEW x \in Objects
      PROVE  count'[x] = count[x] + (Is(x, ptr') - Is(x, ptr)) + (Is(x, strong') - Is(x, strong))
               + (Is(x, mine'[t]) - Is(x, mine[t])) + (Is(x, sptr'[t]) - Is(x, sptr[t]))
               + (Is(x, copy'[t]) - Is(x, copy[t]))
  BY <1>2, <1>3, IsNumber
<1>. QED BY <1>1, <1>2, <1>4, Recounted

LEMMA ExpectCounts ==
  ASSUME NamesDiffer, CallsInv, CallsInv', Counting, NEW t \in Threads, Expect(t) PROVE Counting'
<1>1. TypeOK /\ TypeOK'
  BY DEF CallsInv
<1>2. /\ mine' = [mine EXCEPT ![t] = mine'[t]] /\ mine'[t] = ptr
      /\ sptr' = [sptr EXCEPT ![t] = sptr'[t]] /\ sptr'[t] = sptr[t]
      /\ copy' = [copy EXCEPT ![t] = copy'[t]] /\ copy'[t] = copy[t] /\ strong' = strong /\ ptr' = ptr
  BY <1>1 DEF Expect, TypeOK
<1>3. ASSUME NEW x \in Objects
      PROVE  count[x] \in Int /\ count'[x] = count[x] + Is(x, ptr) - Is(x, mine[t])
  BY <1>1, <1>2, CountedOne DEF Expect, TypeOK
<1>4. ASSUME NEW x \in Objects
      PROVE  count'[x] = count[x] + (Is(x, ptr') - Is(x, ptr)) + (Is(x, strong') - Is(x, strong))
               + (Is(x, mine'[t]) - Is(x, mine[t])) + (Is(x, sptr'[t]) - Is(x, sptr[t]))
               + (Is(x, copy'[t]) - Is(x, copy[t]))
  BY <1>2, <1>3, IsNumber
<1>. QED BY <1>1, <1>2, <1>4, Recounted

LEMMA ReturnCounts ==
  ASSUME NamesDiffer, CallsInv, CallsInv', Counting, NEW t \in Threads, Return(t) PROVE Counting'
<1>1. TypeOK /\ TypeOK'
  BY DEF CallsInv
<1> DEFINE m == IF At(t, "result") THEN copy[t] ELSE mine[t]
<1>2. /\ mine' = [mine EXCEPT ![t] = mine'[t]] /\ mine'[t] = m
      /\ sptr' = [sptr EXCEPT ![t] = sptr'[t]] /\ sptr'[t] = Null
      /\ copy' = [copy EXCEPT ![t] = copy'[t]] /\ copy'[t] = Null /\ strong' = strong /\ ptr' = ptr
  BY <1>1 DEF Return, TypeOK
<1>3. ASSUME NEW x \in Objects
      PROVE  /\ count[x] \in Int
             /\ count'[x] = count[x] + (Is(x, m) - Is(x, mine[t])) + (Is(x, Null) - Is(x, sptr[t]))
                            + (Is(x, Null) - Is(x, copy[t]))
  <2>1. count[x] \in Int /\ Is(x, Null) = 0
    BY <1>1, NobodyOwns DEF TypeOK
  <2>2. CASE At(t, "result")
    <3>1. count'[x] = count[x] + Is(x, Null) - (Is(x, mine[t]) + Is(x, sptr[t]))
      BY <1>1, <2>2, CountedTwo DEF Return, TypeOK
    <3>. QED BY <2>1, <2>2, <3>1, IsNumber
  <2>3. CASE ~At(t, "result")
    <3>1. count'[x] = count[x] + Is(x, Null) - (Is(x, copy[t]) + Is(x, sptr[t]))
      BY <1>1, <2>3, CountedTwo DEF Return, TypeOK
    <3>. QED BY <2>1, <2>3, <3>1, IsNumber
  <2>. QED BY <2>2, <2>3
<1>. HIDE DEF m
<1>4. ASSUME NEW x \in Objects
      PROVE  count'[x] = count[x] + (Is(x, ptr') - Is(x, ptr)) + (Is(x, strong') - Is(x, strong))
               + (Is(x, mine'[t]) - Is(x, mine[t])) + (Is(x, sptr'[t]) - Is(x, sptr[t]))
               + (Is(x, copy'[t]) - Is(x, copy[t]))
  BY <1>2, <1>3, IsNumber
<1>. QED BY <1>1, <1>2, <1>4, Recounted

\* A call counts its parameter.
LEMMA CallCounts ==
  ASSUME NamesDiffer, CallsInv, CallsInv', Counting, NEW t \in Threads, NEW s, NEW o, Call(t, s, o)
  PROVE  Counting'
<1>1. TypeOK /\ TypeOK' /\ LocalsAt(todo[t], sptr[t], copy[t], seen[t]) /\ todo[t] = << >>
  BY DEF CallsInv, Call
<1>2. sptr[t] = Null
  BY <1>1 DEF LocalsAt
<1>3. /\ mine' = [mine EXCEPT ![t] = mine'[t]] /\ mine'[t] = mine[t]
      /\ sptr' = [sptr EXCEPT ![t] = sptr'[t]] /\ sptr'[t] = o
      /\ copy' = [copy EXCEPT ![t] = copy'[t]] /\ copy'[t] = copy[t] /\ strong' = strong /\ ptr' = ptr
  BY <1>1 DEF Call, TypeOK
<1>4. ASSUME NEW x \in Objects
      PROVE  count[x] \in Int /\ count'[x] = count[x] + Is(x, o) - Is(x, sptr[t])
  <2>1. Is(x, sptr[t]) = 0
    BY <1>2, NobodyOwns
  <2>2. count[x] \in Int /\ count'[x] = count[x] + Is(x, o)
    BY <1>1, CountedNone DEF Call, TypeOK
  <2>. QED BY <2>1, <2>2, IsNumber
<1>5. ASSUME NEW x \in Objects
      PROVE  count'[x] = count[x] + (Is(x, ptr') - Is(x, ptr)) + (Is(x, strong') - Is(x, strong))
               + (Is(x, mine'[t]) - Is(x, mine[t])) + (Is(x, sptr'[t]) - Is(x, sptr[t]))
               + (Is(x, copy'[t]) - Is(x, copy[t]))
  BY <1>3, <1>4, IsNumber
<1>. QED BY <1>1, <1>3, <1>5, Recounted

\* A step that changes no pointer changes no count.
LEMMA CountsStay ==
  ASSUME Counting, UNCHANGED <<count, ptr, mine, strong, sptr, copy>>
  PROVE  Counting'
BY DEF Counting, Owners, Holding

\* The weak pointer's steps count what they hand out and take back.
LEMMA WeakLockCounts ==
  ASSUME NamesDiffer, CallsInv, Counting, WeakLock PROVE Counting'
<1>1. TypeOK /\ strong = Null /\ strong' = weak
  BY DEF CallsInv, WeakLock
<1>2. ASSUME NEW x \in Objects PROVE count'[x] = count[x] + (Is(x, strong') - Is(x, strong))
  <2>1. Is(x, strong) = 0
    BY <1>1, NobodyOwns
  <2>2. count[x] \in Int /\ count'[x] = count[x] + Is(x, strong')
    BY <1>1, CountedNone DEF WeakLock, TypeOK
  <2>. QED BY <2>1, <2>2, IsNumber
<1>. QED BY <1>1, <1>2, RecountedStrong DEF WeakLock

LEMMA LetGoCounts ==
  ASSUME NamesDiffer, CallsInv, Counting, LetGo PROVE Counting'
<1>1. TypeOK /\ strong' = Null
  BY DEF CallsInv, LetGo
<1>2. ASSUME NEW x \in Objects PROVE count'[x] = count[x] + (Is(x, strong') - Is(x, strong))
  <2>1. count[x] \in Int /\ count'[x] = count[x] + Is(x, strong') - Is(x, strong)
    BY <1>1, CountedOne DEF LetGo, TypeOK
  <2>. QED BY <2>1, IsNumber
<1>. QED BY <1>1, <1>2, RecountedStrong DEF LetGo

\* Every step counts.
LEMMA CountingStep == NamesDiffer /\ CallsInv /\ Counting /\ [Next]_ptrVars => Counting'
<1> SUFFICES ASSUME NamesDiffer, CallsInv, Counting, [Next]_ptrVars PROVE Counting'
  OBVIOUS
<1>5. CallsInv'
  BY CallsStep
<1>1. ASSUME NEW t \in Threads, NEW o, Store(t, o) \/ Exchange(t, o) \/ CompareExchange(t, o) \/ Load(t)
      PROVE  Counting'
  BY <1>1, <1>5, CallCounts DEF Store, Exchange, CompareExchange, Load
<1>2. ASSUME NEW t \in Threads, Step(t) PROVE Counting'
  <2>1. CASE Lock(t) \/ Unlock(t) \/ Read(t) \/ Compare(t)
    BY <2>1, CountsStay DEF Lock, Unlock, Read, Compare
  <2>. QED BY <1>2, <1>5, <2>1, ShareCounts, AssignCounts, ExpectCounts, ReturnCounts DEF Step
<1>3. ASSUME NEW t \in Threads, WeakStore(t) PROVE Counting'
  BY <1>3, CountsStay DEF WeakStore, locals
<1>4. CASE UNCHANGED ptrVars
  BY <1>4, CountsStay DEF ptrVars, locals
<1>. QED BY <1>1, <1>2, <1>3, <1>4, WeakLockCounts, LetGoCounts DEF Next

-----------------------------------------------------------------------------
(* What was destroyed stays so.                                            *)

\* Whoever holds an object is counted.
LEMMA HeldIsCounted ==
  ASSUME NamesDiffer, TypeOK, Counting, NEW o \in Objects, count[o] = 0
  PROVE  /\ ptr # o /\ strong # o
         /\ \A t \in Threads : mine[t] # o /\ sptr[t] # o /\ copy[t] # o
<1>1. /\ \A t \in Threads : mine[t] = o => Holding(mine, o) > 0
      /\ \A t \in Threads : sptr[t] = o => Holding(sptr, o) > 0
      /\ \A t \in Threads : copy[t] = o => Holding(copy, o) > 0
  BY HoldingIs DEF TypeOK
<1>2. Holding(mine, o) \in Nat /\ Holding(sptr, o) \in Nat /\ Holding(copy, o) \in Nat
  BY HoldingIs DEF TypeOK
<1>3. Is(o, ptr) \in Nat /\ Is(o, strong) \in Nat
  BY DEF Is
<1>4. Is(o, ptr) + Is(o, strong) + Holding(mine, o) + Holding(sptr, o) + Holding(copy, o) = 0
  BY OwnersAre DEF Counting
<1>5. Is(o, ptr) = 0 /\ Is(o, strong) = 0
      /\ Holding(mine, o) = 0 /\ Holding(sptr, o) = 0 /\ Holding(copy, o) = 0
  BY <1>2, <1>3, <1>4
<1>. QED BY <1>1, <1>5, IsNumber

\* Nobody owns it, and nobody can get it.
LEMMA DestroyedStays ==
  ASSUME NamesDiffer, CallsInv, Counting, [Next]_ptrVars, NEW o \in used, count[o] = 0
  PROVE  count'[o] = 0
<1>1. /\ TypeOK /\ o \in Objects /\ o # Null
      /\ \A t \in Threads : LocalsAt(todo[t], sptr[t], copy[t], seen[t]) /\ InsideAt(t, todo[t])
  BY DEF CallsInv, TypeOK, NamesDiffer
<1>2. /\ ptr # o /\ strong # o
      /\ \A t \in Threads : mine[t] # o /\ sptr[t] # o /\ copy[t] # o
  BY <1>1, HeldIsCounted
<1>3. Is(o, ptr) = 0 /\ Is(o, strong) = 0 /\ Is(o, Null) = 0
      /\ \A t \in Threads : Is(o, mine[t]) = 0 /\ Is(o, sptr[t]) = 0 /\ Is(o, copy[t]) = 0
  BY <1>1, <1>2 DEF Is
<1>4. count \in [Objects -> Int]
  BY <1>1 DEF TypeOK
<1>5. ASSUME NEW t \in Threads, NEW s, NEW p, Call(t, s, p) PROVE count'[o] = 0
  <2>1. p # o
    BY <1>1, <1>2, <1>5, ParameterIs DEF Call
  <2>2. Is(o, p) = 0
    BY <2>1 DEF Is
  <2>. QED BY <1>1, <1>4, <1>5, <2>2, CountedNone DEF Call
<1>6. ASSUME NEW t \in Threads, Share(t) PROVE count'[o] = 0
  <2>1. seen[t] = ptr
    BY <1>1, <1>6, GoesOn, PlansGoOn DEF Share, InsideAt
  <2>. QED BY <1>1, <1>3, <1>4, <1>6, <2>1, CountedNone DEF Share
<1>7. ASSUME NEW t \in Threads, Assign(t) PROVE count'[o] = 0
  BY <1>1, <1>3, <1>4, <1>7, CountedOne DEF Assign
<1>8. ASSUME NEW t \in Threads, Expect(t) PROVE count'[o] = 0
  BY <1>1, <1>3, <1>4, <1>8, CountedOne DEF Expect
<1>9. ASSUME NEW t \in Threads, Return(t) PROVE count'[o] = 0
  BY <1>1, <1>3, <1>4, <1>9, CountedTwo DEF Return
<1>10. CASE WeakLock
  <2>1. weak # o
    BY <1>10 DEF WeakLock
  <2>2. Is(o, weak) = 0
    BY <2>1 DEF Is
  <2>. QED BY <1>1, <1>4, <1>10, <2>2, CountedNone DEF WeakLock
<1>11. CASE LetGo
  BY <1>1, <1>3, <1>4, <1>11, CountedOne DEF LetGo
<1>12. ASSUME NEW t \in Threads, Lock(t) \/ Unlock(t) \/ Read(t) \/ Compare(t) \/ WeakStore(t)
       PROVE  count'[o] = 0
  BY <1>12 DEF Lock, Unlock, Read, Compare, WeakStore
<1>13. CASE UNCHANGED ptrVars
  BY <1>13 DEF ptrVars
<1>. QED BY <1>5, <1>6, <1>7, <1>8, <1>9, <1>10, <1>11, <1>12, <1>13
         DEF Next, Step, Store, Load, Exchange, CompareExchange

(***************************************************************************)
(* For any threads and objects: the count of every object is the number of *)
(* its owners after every step, and no object that was destroyed gets an   *)
(* owner (atomic_shared_ptr.hpp:49-127, atomic_weak_ptr.hpp:75-81).        *)
(***************************************************************************)
THEOREM PointerOwnersAreCounted ==
  ASSUME NamesDiffer
  PROVE  Spec => OwnersAreCounted
<1>1. Init => CallsInv /\ Counting
  BY CallsInit, CountingInit
<1>2. CallsInv /\ Counting /\ [Next]_ptrVars => (CallsInv /\ Counting)'
  BY CallsStep, CountingStep
<1>3. CallsInv /\ Counting => \A o \in Objects : count[o] = Owners(o)
  BY DEF Counting
<1>4. CallsInv /\ Counting /\ [Next]_ptrVars => [\A o \in used : count[o] = 0 => count'[o] = 0]_ptrVars
  BY DestroyedStays
<1>. QED BY <1>1, <1>2, <1>3, <1>4, PTL DEF Spec, OwnersAreCounted
====
