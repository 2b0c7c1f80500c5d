-------------------------- MODULE CallContent_proofs --------------------------
(***************************************************************************)
(* What a guarded call puts on record, proved for any objects, tools,      *)
(* arguments and edits by other threads, and the traversal, proved for     *)
(* every heap.                                                             *)
(***************************************************************************)
EXTENDS CallContent, FiniteSetTheorems, SequenceTheorems, WellFoundedInduction, TLAPS

-----------------------------------------------------------------------------
(* What holds throughout, from which the properties follow. *)

(* What a registration made of a tool and its settings *)
IsDeclared(w) ==
  \E i \in DOMAIN declared.registration.tools :
    /\ w = Declare(declared.heap, declared.registration.tools[i],
                   declared.registration.settings[i])
    /\ w # Refused

DeclaredInv ==
  /\ pc # "register" => declared.registration \in Registrations
  /\ \A i \in DOMAIN guarded : IsDeclared(guarded[i])
  /\ callee # None => pc # "register" /\ IsDeclared(callee)
  /\ pc \in {"bind", "walk", "approve", "run", "record"} => callee # None

(* The arguments are values, and once they are bound there is one for each
   parameter. *)
ArgumentsInv ==
  /\ \A n \in DOMAIN args : IsValue(args[n])
  /\ pc \in {"register", "call"} => callee = None
  /\ pc \in {"walk", "approve", "run", "record"} => args = AllArguments

(* The canonical input, which is that of the objects as they are if nobody
   changed one. *)
WalkInv ==
  /\ pc \in {"register", "call", "bind"} => walked = <<>> /\ ~changed
  /\ walked # <<>> => /\ walked = [n \in DOMAIN walked |-> walked[n]]
                      /\ DOMAIN walked \subseteq ParamNames
  /\ pc \in {"walk", "approve", "run"} /\ ~changed =>
       \A n \in DOMAIN walked :
         walked[n] = Entry(heap, callee.sensitive, [name |-> n, value |-> args[n]]).value
  /\ pc \in {"approve", "run", "record"} => DOMAIN walked = ParamNames

(* What is on record is the canonical input, as is what the function got. *)
RecordInv ==
  /\ pc \in {"register", "call", "bind", "walk", "approve"} => decision = None
  /\ pc \in {"register", "call", "bind", "walk", "approve", "run"} => received = None
  /\ pc \in {"approve", "run", "record"} => request = ApprovalRequest
  /\ pc \in {"run", "record"} => decision # None
  /\ decision # None =>
       /\ callee # None
       /\ DOMAIN walked = ParamNames
       /\ request = ApprovalRequest
       /\ decision.verdict \in {"allowed", "denied"}
       /\ decision = DecisionEvent(decision.verdict, walked, callee.metadata)
  /\ received # None => decision # None
  /\ received # None /\ ~changed => received = walked

CallInv ==
  /\ TypeOK
  /\ DeclaredInv
  /\ ArgumentsInv
  /\ WalkInv
  /\ RecordInv

-----------------------------------------------------------------------------
(* A field that is not there, or of the wrong type, is no record or sequence. *)
AbsentIsNoData ==
  \A c \in {Absent, Malformed} : c # [i \in DOMAIN c |-> c[i]]

-----------------------------------------------------------------------------
LEMMA ListedSize ==
  ASSUME NEW n \in Nat, NEW S, NEW f \in [1..n -> S],
         \A i, j \in 1..n : f[i] = f[j] => i = j,
         \A x \in S : \E i \in 1..n : f[i] = x
  PROVE  IsFiniteSet(S) /\ Cardinality(S) = n
<1>1. f \in Bijection(1..n, S)
  BY DEF Bijection, Injection, Surjection, IsInjective
<1>2. ExistsBijection(1..n, S)
  BY <1>1 DEF ExistsBijection
<1>3. n \in Int /\ 1 \in Int
  OBVIOUS
<1>4. IsFiniteSet(1..n) /\ Cardinality(1..n) = IF 1 > n THEN 0 ELSE n - 1 + 1
  BY <1>3, FS_Interval
<1>5. IsFiniteSet(S) /\ Cardinality(S) = Cardinality(1..n)
  BY <1>2, <1>4, FS_Bijection
<1> QED BY <1>4, <1>5

(* The canonical names in order: each parameter once, when all were walked. *)
LEMMA SortedNames ==
  ASSUME Params \in Seq(Range(Params)), DOMAIN walked = ParamNames,
         \A k, l \in DOMAIN Params : Params[k] = Params[l] => k = l
  PROVE  /\ Len(Params) \in Nat
         /\ Sorted \in [1..Len(Params) -> ParamNames]
         /\ \A n \in ParamNames : \E i \in DOMAIN Sorted : Sorted[i] = n
         /\ \A i, j \in DOMAIN Sorted : Sorted[i] = Sorted[j] => i = j
<1>1. Len(Params) \in Nat /\ DOMAIN Params = 1..Len(Params)
      /\ Params = [i \in 1..Len(Params) |-> Params[i]]
  OBVIOUS
<1>2. /\ Params \in [1..Len(Params) -> ParamNames]
      /\ \A n \in ParamNames : \E i \in 1..Len(Params) : Params[i] = n
      /\ \A i, j \in 1..Len(Params) : Params[i] = Params[j] => i = j
  BY <1>1 DEF ParamNames
<1>3. IsFiniteSet(ParamNames) /\ Cardinality(ParamNames) = Len(Params)
  BY <1>1, <1>2, ListedSize
<1> DEFINE ordered(names) ==
             \A i, j \in DOMAIN names : i < j => Precedes(names[i], names[j])
<1>4. Params \in [1..Len(Params) -> ParamNames] /\ ordered(Params)
  BY <1>1 DEF ParamNames, Precedes
<1>5. Sorted \in [1..Len(Params) -> ParamNames] /\ ordered(Sorted)
  BY <1>3, <1>4 DEF Sorted
<1>6. ASSUME NEW i \in DOMAIN Sorted, NEW j \in DOMAIN Sorted, Sorted[i] = Sorted[j] PROVE i = j
  <2>1. i \in Nat /\ j \in Nat
    BY <1>1, <1>5
  <2>2. ~ Precedes(Sorted[i], Sorted[j]) /\ ~ Precedes(Sorted[j], Sorted[i])
    BY <1>1, <1>6 DEF Precedes
  <2>3. ~ (i < j) /\ ~ (j < i)
    BY <1>5, <2>2
  <2> QED BY <2>1, <2>3
<1>7. ParamNames = {Sorted[i] : i \in 1..Len(Params)}
  <2> DEFINE image == {Sorted[i] : i \in 1..Len(Params)}
  <2>1. image \in SUBSET ParamNames
    BY <1>5
  <2>2. Sorted \in [1..Len(Params) -> image] /\ DOMAIN Sorted = 1..Len(Params)
    BY <1>5
  <2>3. \A x \in image : \E i \in 1..Len(Params) : Sorted[i] = x
    OBVIOUS
  <2> HIDE DEF image
  <2>4. Cardinality(image) = Len(Params)
    BY <1>1, <1>6, <2>2, <2>3, ListedSize
  <2>5. image = ParamNames
    BY <1>3, <2>1, <2>4, FS_Subset
  <2> QED BY <2>5 DEF image
<1> QED BY <1>1, <1>5, <1>6, <1>7

-----------------------------------------------------------------------------
(* Induction, over a set of numbers in place of a formula. *)
LEMMA Induct ==
  ASSUME NEW S, 0 \in S, \A n \in Nat : n \in S => n + 1 \in S
  PROVE  Nat \subseteq S
<1> DEFINE T == Nat \ S
<1> SUFFICES ASSUME T # {} PROVE FALSE
  OBVIOUS
<1>1. PICK m \in T : \A k \in T : ~ (<<k, m>> \in OpToRel(<, Nat))
  BY NatLessThanWellFounded, WFMin
<1>2. m \in Nat /\ m # 0
  OBVIOUS
<1>3. m - 1 \in Nat /\ m - 1 < m /\ (m - 1) + 1 = m
  BY <1>2
<1>4. m - 1 \in S
  BY <1>1, <1>3 DEF OpToRel
<1>5. m \in S
  BY <1>3, <1>4
<1> QED BY <1>5

-----------------------------------------------------------------------------
(* _walk: its calls of itself end, and each returns what Visit says. *)

IsHeap(h) == DOMAIN h = Objects /\ \A o \in Objects : h[o] \in Contents[o]

Child(h, at, i) ==
  [value |-> h[at.value[2]].items[i].value, depth |-> at.depth + 1,
   around |-> at.around \cup {at.value[2]}]

Walked(h, sensitive, at, walk) ==
  [i \in DOMAIN h[at.value[2]].items |->
     IF Hides(h[at.value[2]], h[at.value[2]].items[i], sensitive)
     THEN Canonical(Redacted, Scrubbable(h[at.value[2]].items[i].value))
     ELSE walk[Child(h, at, i)]]

Walks(walk, h, sensitive, value) ==
  walk = [at \in Visits(h, value) |-> Visit(h, sensitive, at, walk)]

LEMMA DepthType == MaxDepth \in Nat /\ MaxDepth # 0
BY CanonicalAssumption

LEMMA ValuesAreValues ==
  ASSUME NEW h, IsHeap(h), NEW value, IsValue(value), NEW v \in Values(h, value)
  PROVE  IsValue(v)
<1>1. CASE v = value
  BY <1>1
<1>2. CASE v # value
  <2>1. PICK o \in DOMAIN h : \E item \in Range(h[o].items) : v = item.value
    BY <1>2 DEF Values
  <2>2. PICK i \in DOMAIN h[o].items : v = h[o].items[i].value
    BY <2>1 DEF Range
  <2>3. h[o] \in Contents[o] /\ o \in Objects
    BY DEF IsHeap
  <2> QED BY <2>2, <2>3, ContentsAssumption
<1> QED BY <1>1, <1>2

LEMMA ItemIsValue ==
  ASSUME NEW h, NEW value, NEW o \in DOMAIN h, NEW i \in DOMAIN h[o].items
  PROVE  h[o].items[i].value \in Values(h, value)
<1>1. h[o].items[i] \in Range(h[o].items)
  BY DEF Range
<1>2. h[o].items[i] \in UNION {Range(h[p].items) : p \in DOMAIN h}
  BY <1>1
<1> QED BY <1>2 DEF Values

LEMMA VisitType ==
  ASSUME NEW h, NEW value, NEW at \in Visits(h, value)
  PROVE  /\ at.value \in Values(h, value)
         /\ at.depth \in Nat /\ at.depth <= MaxDepth + 1
         /\ at.around \subseteq DOMAIN h
BY DepthType DEF Visits

LEMMA ChildVisit ==
  ASSUME NEW h, IsHeap(h), NEW value, IsValue(value), NEW at \in Visits(h, value),
         at.value[1] = "ref", at.depth <= MaxDepth,
         NEW i \in DOMAIN h[at.value[2]].items
  PROVE  /\ Child(h, at, i) \in Visits(h, value)
         /\ Child(h, at, i).depth = at.depth + 1
<1>1. IsValue(at.value)
  BY VisitType, ValuesAreValues
<1>2. at.value[2] \in DOMAIN h
  BY <1>1 DEF IsValue, IsHeap
<1>3. h[at.value[2]].items[i].value \in Values(h, value)
  BY <1>2, ItemIsValue
<1>4. at.depth + 1 \in 0..(MaxDepth + 1)
  BY VisitType, DepthType
<1>5. at.around \cup {at.value[2]} \in SUBSET DOMAIN h
  BY <1>2, VisitType
<1> QED BY <1>3, <1>4, <1>5 DEF Child, Visits

(* Visit, where the value is a container. *)
LEMMA ContainerVisit ==
  ASSUME NEW h, NEW sensitive, NEW at, NEW walk, ~(at.depth > MaxDepth), at.value[1] = "ref"
  PROVE  Visit(h, sensitive, at, walk) =
           IF at.value[2] \in at.around THEN Raised
           ELSE IF h[at.value[2]].shape = "mixed" THEN Canonical(Unsupported, {})
           ELSE Assembled(h[at.value[2]], Walked(h, sensitive, at, walk))
<1>1. at.value[1] \notin {"nan", "text", "number", "opaque"}
  OBVIOUS
<1> QED BY <1>1 DEF Visit, Walked, Child

(* What a visit depends on: the visits one deeper. *)
LEMMA VisitLocal ==
  ASSUME NEW h, IsHeap(h), NEW value, IsValue(value), NEW sensitive, NEW f, NEW g,
         NEW at \in Visits(h, value),
         \A v \in Visits(h, value) : v.depth = at.depth + 1 => f[v] = g[v]
  PROVE  Visit(h, sensitive, at, f) = Visit(h, sensitive, at, g)
<1>1. CASE at.depth > MaxDepth \/ at.value[1] \in {"nan", "text", "number", "opaque"}
  BY <1>1 DEF Visit
<1>2. CASE ~(at.depth > MaxDepth) /\ at.value[1] \notin {"nan", "text", "number", "opaque"}
  <2>1. IsValue(at.value)
    BY VisitType, ValuesAreValues
  <2>2. at.value[1] = "ref"
    BY <1>2, <2>1 DEF IsValue
  <2>3. at.depth <= MaxDepth
    BY <1>2, VisitType, DepthType
  <2>4. \A i \in DOMAIN h[at.value[2]].items : f[Child(h, at, i)] = g[Child(h, at, i)]
    BY <2>2, <2>3, ChildVisit
  <2>5. Walked(h, sensitive, at, f) = Walked(h, sensitive, at, g)
    BY <2>4 DEF Walked
  <2> QED BY <1>2, <2>2, <2>5, ContainerVisit
<1> QED BY <1>1, <1>2

LEMMA WalkExists ==
  ASSUME NEW h, IsHeap(h), NEW value, IsValue(value), NEW sensitive
  PROVE  \E walk : Walks(walk, h, sensitive, value)
<1> DEFINE V == Visits(h, value)
           Deep(walk, n) == walk = [at \in V |-> IF at.depth + n > MaxDepth
                                                 THEN Visit(h, sensitive, at, walk)
                                                 ELSE Raised]
           S == {n \in Nat : \E walk : Deep(walk, n)}
<1>1. 0 \in S
  <2> DEFINE walk == [at \in V |-> Raised]
  <2>1. \A at \in V : at.depth > MaxDepth => Visit(h, sensitive, at, walk) = Raised
    BY DEF Visit
  <2>2. Deep(walk, 0)
    BY <2>1, VisitType
  <2> QED BY <2>2
<1>2. ASSUME NEW n \in Nat, n \in S PROVE n + 1 \in S
  <2>1. PICK f : Deep(f, n)
    BY <1>2
  <2> DEFINE g == [at \in V |-> IF at.depth + (n + 1) > MaxDepth
                                THEN Visit(h, sensitive, at, f)
                                ELSE Raised]
  <2>2. \A at \in V : at.depth + n > MaxDepth => f[at] = g[at]
    BY <2>1, VisitType, DepthType
  <2>3. \A at \in V : at.depth + (n + 1) > MaxDepth =>
          Visit(h, sensitive, at, f) = Visit(h, sensitive, at, g)
    <3> SUFFICES ASSUME NEW at \in V, at.depth + (n + 1) > MaxDepth
                 PROVE  Visit(h, sensitive, at, f) = Visit(h, sensitive, at, g)
      OBVIOUS
    <3>1. \A v \in V : v.depth = at.depth + 1 => v.depth + n > MaxDepth
      BY VisitType, DepthType
    <3>2. \A v \in V : v.depth = at.depth + 1 => f[v] = g[v]
      BY <2>2, <3>1
    <3> HIDE DEF g
    <3> QED BY <3>2, VisitLocal
  <2>4. g = [at \in V |-> IF at.depth + (n + 1) > MaxDepth
                         THEN Visit(h, sensitive, at, f)
                         ELSE Raised]
    OBVIOUS
  <2> HIDE DEF g
  <2>5. g = [at \in V |-> IF at.depth + (n + 1) > MaxDepth
                         THEN Visit(h, sensitive, at, g)
                         ELSE Raised]
    BY <2>3, <2>4
  <2> QED BY <2>5
<1> HIDE DEF S
<1>3. MaxDepth + 1 \in S
  BY <1>1, <1>2, Induct, DepthType
<1>4. PICK walk : Deep(walk, MaxDepth + 1)
  BY <1>3 DEF S
<1>5. \A at \in V : at.depth + (MaxDepth + 1) > MaxDepth
  BY VisitType, DepthType
<1>6. Walks(walk, h, sensitive, value)
  BY <1>4, <1>5 DEF Walks
<1> QED BY <1>6

LEMMA WalkIs ==
  ASSUME NEW h, IsHeap(h), NEW value, IsValue(value), NEW sensitive
  PROVE  \E walk : /\ Walks(walk, h, sensitive, value)
                   /\ \A depth : Walk(h, sensitive, value, depth)
                                = walk[[value |-> value, depth |-> depth, around |-> {}]]
<1> DEFINE f == CHOOSE walk : Walks(walk, h, sensitive, value)
<1>1. Walks(f, h, sensitive, value)
  BY WalkExists
<1>2. \A depth : Walk(h, sensitive, value, depth)
                   = f[[value |-> value, depth |-> depth, around |-> {}]]
  BY DEF Walk, Walks
<1> QED BY <1>1, <1>2

(* The walk at a value that contains no other, and at a container. *)
LEMMA LeafWalk ==
  ASSUME NEW h, NEW value, NEW sensitive, NEW walk, Walks(walk, h, sensitive, value),
         NEW at \in Visits(h, value), IsValue(at.value), at.depth <= MaxDepth,
         at.value[1] # "ref"
  PROVE  walk[at] = IF at.value = <<"nan">> THEN Raised
                    ELSE IF at.value = <<"opaque">> THEN Canonical(Unsupported, {})
                    ELSE Canonical(at.value, {})
<1>1. walk[at] = Visit(h, sensitive, at, walk)
  BY DEF Walks
<1>2. ~(at.depth > MaxDepth)
  BY VisitType, DepthType
<1>3. CASE at.value = <<"nan">>
  BY <1>1, <1>3 DEF Visit
<1>4. CASE at.value = <<"opaque">>
  BY <1>1, <1>2, <1>4 DEF Visit
<1>5. CASE at.value = <<"number">> \/ at.value[1] = "text"
  <2>1. at.value[1] \in {"text", "number"}
    BY <1>5
  <2> QED BY <1>1, <1>2, <2>1 DEF Visit
<1> QED BY <1>3, <1>4, <1>5 DEF IsValue

LEMMA ContainerWalk ==
  ASSUME NEW h, NEW value, NEW sensitive, NEW walk, Walks(walk, h, sensitive, value),
         NEW at \in Visits(h, value), at.depth <= MaxDepth, at.value[1] = "ref"
  PROVE  walk[at] = IF at.value[2] \in at.around THEN Raised
                    ELSE IF h[at.value[2]].shape = "mixed" THEN Canonical(Unsupported, {})
                    ELSE Assembled(h[at.value[2]], Walked(h, sensitive, at, walk))
<1>1. walk[at] = Visit(h, sensitive, at, walk)
  BY DEF Walks
<1>2. ~(at.depth > MaxDepth)
  BY VisitType, DepthType
<1> QED BY <1>1, <1>2, ContainerVisit

LEMMA DeepWalk ==
  ASSUME NEW h, NEW value, NEW sensitive, NEW walk, Walks(walk, h, sensitive, value),
         NEW at \in Visits(h, value), at.depth > MaxDepth
  PROVE  walk[at] = Raised
BY DEF Walks, Visit

(* _redact: what is remembered for scrubbing are texts, long enough. *)
AllLong(texts) == \A text \in texts : IsText(text) /\ Len(text) >= MinScrubbable

LEMMA ScrubbableIsLong ==
  ASSUME NEW v, IsValue(v) PROVE AllLong(Scrubbable(v))
BY DEF AllLong, Scrubbable, IsValue

LEMMA WalkKeepsLong ==
  ASSUME NEW h, IsHeap(h), NEW value, IsValue(value), NEW sensitive,
         NEW walk, Walks(walk, h, sensitive, value), NEW top \in Visits(h, value)
  PROVE  AllLong(walk[top].kept)
<1> DEFINE V == Visits(h, value)
           S == {n \in Nat : \A at \in V : at.depth + n = MaxDepth + 1 => AllLong(walk[at].kept)}
<1>1. 0 \in S
  <2>1. \A at \in V : at.depth + 0 = MaxDepth + 1 => at.depth > MaxDepth
    BY VisitType, DepthType
  <2>2. \A at \in V : at.depth > MaxDepth => walk[at] = Raised
    BY DeepWalk
  <2> QED BY <2>1, <2>2 DEF Raised, AllLong
<1>2. ASSUME NEW n \in Nat, n \in S PROVE n + 1 \in S
  <2> SUFFICES ASSUME NEW at \in V, at.depth + (n + 1) = MaxDepth + 1
               PROVE  AllLong(walk[at].kept)
    OBVIOUS
  <2>1. at.depth <= MaxDepth /\ IsValue(at.value) /\ (at.depth + 1) + n = MaxDepth + 1
    BY VisitType, ValuesAreValues, DepthType
  <2>2. CASE at.value[1] # "ref"
    <3>1. \/ walk[at] = Raised
          \/ walk[at] = Canonical(Unsupported, {})
          \/ walk[at] = Canonical(at.value, {})
      BY <2>1, <2>2, LeafWalk
    <3>2. walk[at].kept = {}
      BY <3>1 DEF Raised, Canonical
    <3> QED BY <3>2 DEF AllLong
  <2>3. CASE at.value[1] = "ref"
    <3> DEFINE parts == Walked(h, sensitive, at, walk)
               object == h[at.value[2]]
    <3>1. \A i \in DOMAIN parts : AllLong(parts[i].kept)
      <4> TAKE i \in DOMAIN parts
      <4>1. i \in DOMAIN object.items
        BY DEF Walked
      <4>2. CASE Hides(object, object.items[i], sensitive)
        <5>1. parts[i] = Canonical(Redacted, Scrubbable(object.items[i].value))
          BY <4>1, <4>2 DEF Walked
        <5>2. at.value[2] \in DOMAIN h
          BY <2>1, <2>3 DEF IsValue, IsHeap
        <5>3. IsValue(object.items[i].value)
          BY <4>1, <5>2, ItemIsValue, ValuesAreValues
        <5> QED BY <5>1, <5>3, ScrubbableIsLong DEF Canonical
      <4>3. CASE ~Hides(object, object.items[i], sensitive)
        <5>1. parts[i] = walk[Child(h, at, i)]
          BY <4>1, <4>3 DEF Walked
        <5>2. Child(h, at, i) \in V /\ Child(h, at, i).depth = at.depth + 1
          BY <2>1, <2>3, <4>1, ChildVisit
        <5> QED BY <1>2, <2>1, <5>1, <5>2
      <4> QED BY <4>2, <4>3
    <3> HIDE DEF parts
    <3>2. AllLong(Assembled(object, parts).kept)
      <4>1. CASE \E i \in DOMAIN parts : ~parts[i].ok
        BY <4>1 DEF Assembled, Raised, AllLong
      <4>2. CASE ~ \E i \in DOMAIN parts : ~parts[i].ok
        <5>1. Assembled(object, parts).kept = UNION {parts[i].kept : i \in DOMAIN parts}
          BY <4>2 DEF Assembled, Canonical
        <5> QED BY <3>1, <5>1 DEF AllLong
      <4> QED BY <4>1, <4>2
    <3>3. \/ walk[at] = Raised
          \/ walk[at] = Canonical(Unsupported, {})
          \/ walk[at] = Assembled(object, parts)
      BY <2>1, <2>3, ContainerWalk DEF parts
    <3> QED BY <3>2, <3>3 DEF Raised, Canonical, AllLong
  <2> QED BY <2>2, <2>3
<1> HIDE DEF S
<1>3. MaxDepth + 1 - top.depth \in S
  BY <1>1, <1>2, Induct, VisitType, DepthType
<1>4. top.depth + (MaxDepth + 1 - top.depth) = MaxDepth + 1
  BY VisitType, DepthType
<1> QED BY <1>3, <1>4 DEF S

(* The walk over one argument of a call remembers nothing that is too short. *)
LEMMA EntryKeepsLong ==
  ASSUME NEW h, IsHeap(h), NEW sensitive, NEW name, NEW value, IsValue(value)
  PROVE  AllLong(Entry(h, sensitive, [name |-> name, value |-> value]).kept)
<1> DEFINE item == [name |-> name, value |-> value]
<1>1. CASE IsSensitive(name, sensitive)
  <2>1. Entry(h, sensitive, item) = Canonical(Redacted, Scrubbable(value))
    BY <1>1 DEF Entry
  <2> QED BY <2>1, ScrubbableIsLong DEF Canonical
<1>2. CASE ~IsSensitive(name, sensitive)
  <2> DEFINE top == [value |-> value, depth |-> 1, around |-> {}]
  <2>1. PICK walk : Walks(walk, h, sensitive, value)
                    /\ Walk(h, sensitive, value, 1) = walk[top]
    BY WalkIs
  <2>2. Entry(h, sensitive, item) = walk[top]
    BY <1>2, <2>1 DEF Entry
  <2>3. top \in Visits(h, value)
    BY DepthType DEF Visits, Values
  <2> HIDE DEF top
  <2> QED BY <2>1, <2>2, <2>3, WalkKeepsLong
<1> QED BY <1>1, <1>2

-----------------------------------------------------------------------------
(* What a declaration that is not refused consists of. *)
LEMMA DeclaredIs ==
  ASSUME NEW h, NEW tool, NEW settings, Declare(h, tool, settings) # Refused
  PROVE  Declare(h, tool, settings) =
           [action |-> settings.action, params |-> tool.params,
            sensitive |-> SensitiveSet(settings.redact),
            metadata |-> PrepareMetadata(h, SensitiveSet(settings.redact),
                                         settings.metadata).value]
<1> DEFINE contract == BuildContract(tool, settings)
<1>1. contract # Refused /\ Declare(h, tool, settings) =
        [action |-> contract.action, params |-> contract.params,
         sensitive |-> SensitiveSet(settings.redact),
         metadata |-> PrepareMetadata(h, SensitiveSet(settings.redact),
                                      settings.metadata).value]
  BY DEF Declare
<1>2. contract = [action |-> settings.action, params |-> tool.params]
  BY <1>1 DEF BuildContract
<1>3. contract.action = settings.action /\ contract.params = tool.params
  BY <1>2
<1> QED
  BY <1>1, <1>3

(* What a registration puts into a wrapper. *)
LEMMA WrapperFacts ==
  ASSUME AbsentIsNoData, declared.registration \in Registrations, NEW w, IsDeclared(w)
  PROVE  /\ w # None
         /\ w.params \in Seq(Range(w.params))
         /\ \A k, l \in DOMAIN w.params : w.params[k] = w.params[l] => k = l
         /\ \A k \in DOMAIN w.params : \A v \in ArgumentsOf[w.params[k]] : IsValue(v)
         /\ \E i \in DOMAIN declared.registration.settings :
              LET settings == declared.registration.settings[i]
              IN  /\ w.action = settings.action
                  /\ w.metadata = PrepareMetadata(declared.heap, SensitiveSet(settings.redact),
                                                  settings.metadata).value
<1> DEFINE r == declared.registration
<1>1. PICK i \in DOMAIN r.tools :
        w = Declare(declared.heap, r.tools[i], r.settings[i]) /\ w # Refused
  BY DEF IsDeclared
<1> DEFINE settings == r.settings[i]
           metadata == PrepareMetadata(declared.heap, SensitiveSet(settings.redact),
                                       settings.metadata)
<1>2. w = [action |-> settings.action, params |-> r.tools[i].params,
           sensitive |-> SensitiveSet(settings.redact), metadata |-> metadata.value]
  BY <1>1, DeclaredIs
<1> HIDE DEF metadata
<1>3. w.params = r.tools[i].params /\ w.action = settings.action /\ w.metadata = metadata.value
  BY <1>2
<1>4. w # None
  <2>1. w = [c \in DOMAIN w |-> w[c]]
    BY <1>2
  <2> QED BY <2>1 DEF AbsentIsNoData, None
<1>5. i \in DOMAIN r.settings
  BY RegistrationsAssumption
<1>6. /\ w.params \in Seq(Range(w.params))
      /\ \A k, l \in DOMAIN w.params : w.params[k] = w.params[l] => k = l
      /\ \A k \in DOMAIN w.params : \A v \in ArgumentsOf[w.params[k]] : IsValue(v)
  BY <1>3, RegistrationsAssumption
<1> QED BY <1>3, <1>4, <1>5, <1>6 DEF metadata

LEMMA CalleeFacts ==
  ASSUME AbsentIsNoData, DeclaredInv, callee # None
  PROVE  /\ Params \in Seq(Range(Params))
         /\ \A k, l \in DOMAIN Params : Params[k] = Params[l] => k = l
         /\ \A n \in ParamNames : \A v \in ArgumentsOf[n] : IsValue(v)
<1>1. declared.registration \in Registrations /\ IsDeclared(callee)
  BY DEF DeclaredInv
<1>2. Params = callee.params
  BY DEF Params
<1>3. /\ callee.params \in Seq(Range(callee.params))
      /\ \A k, l \in DOMAIN callee.params : callee.params[k] = callee.params[l] => k = l
      /\ \A k \in DOMAIN callee.params : \A v \in ArgumentsOf[callee.params[k]] : IsValue(v)
  BY <1>1, WrapperFacts
<1> QED BY <1>2, <1>3 DEF ParamNames

(* Expressions of the callee and the canonical input alone. *)
LEMMA SameCallee ==
  ASSUME UNCHANGED callee PROVE Params' = Params /\ ParamNames' = ParamNames
BY DEF Params, ParamNames

LEMMA SameCall ==
  ASSUME UNCHANGED <<callee, walked>>
  PROVE  /\ Params' = Params /\ ParamNames' = ParamNames
         /\ ApprovalRequest' = ApprovalRequest
         /\ \A v, input, metadata :
              DecisionEvent(v, input, metadata)' = DecisionEvent(v, input, metadata)
<1>1. Params' = Params /\ ParamNames' = ParamNames
  BY SameCallee
<1>2. Sorted' = Sorted
  BY <1>1 DEF Sorted, Precedes
<1> QED BY <1>1, <1>2 DEF ApprovalRequest, DecisionEvent

LEMMA SameDeclared ==
  ASSUME UNCHANGED declared PROVE \A w : IsDeclared(w)' = IsDeclared(w)
BY DEF IsDeclared

LEMMA SameArguments ==
  ASSUME UNCHANGED <<callee, args>> PROVE AllArguments' = AllArguments
BY SameCallee DEF AllArguments

LEMMA InitInv ==
  ASSUME Init PROVE CallInv
<1>1. Params = <<>> /\ ParamNames = {}
  BY DEF Init, Params, ParamNames
<1>2. TypeOK
  <2>1. DOMAIN heap = Objects /\ \A o \in Objects : heap[o] \in Contents[o]
    BY DEF Init
  <2>2. DOMAIN walked \subseteq ParamNames
    BY DEF Init
  <2>3. edits \in 0..MaxEdits
    BY RegistrationsAssumption DEF Init
  <2> QED BY <2>1, <2>2, <2>3 DEF Init, TypeOK, PCs
<1>3. DeclaredInv /\ ArgumentsInv /\ WalkInv /\ RecordInv
  BY DEF Init, DeclaredInv, ArgumentsInv, WalkInv, RecordInv
<1> QED BY <1>2, <1>3 DEF CallInv

LEMMA RegisterNext ==
  ASSUME CallInv, NEW r \in Registrations, Register(r)
  PROVE  CallInv'
<1>1. /\ pc = "register" /\ callee = None /\ walked = <<>> /\ decision = None /\ received = None
      /\ pc' \in {"call", "done"}
      /\ UNCHANGED <<heap, callee, args, walked, kept, request, decision, outcome, edits,
                     received, changed>>
  BY DEF CallInv, ArgumentsInv, WalkInv, RecordInv, Register, recordVars
<1>2. declared' = [heap |-> heap, registration |-> r]
  BY DEF Register
<1>3. TypeOK'
  BY <1>1, SameCallee DEF CallInv, TypeOK, PCs
<1>4. DeclaredInv'
  <2> DEFINE result == CASE r.how = "guard" -> Guard(heap, r.tools[1], r.settings[1])
                         [] r.how = "wrap_tool" -> WrapTool(heap, r.tools[1], r.settings[1])
                         [] r.how = "wrap_tools" -> WrapTools(heap, r.tools, r.settings)
  <2>1. guarded' = CASE result = Refused -> <<>>
                     [] result # Refused /\ r.how = "wrap_tools" -> result
                     [] OTHER -> <<result>>
    BY DEF Register
  <2> DEFINE IsOfThese(w) ==
               \E i \in DOMAIN r.tools : w = Declare(heap, r.tools[i], r.settings[i]) /\ w # Refused
  <2>2. \A i \in DOMAIN guarded' : IsOfThese(guarded'[i])
    <3>1. CASE result = Refused
      BY <2>1, <3>1
    <3>2. CASE result # Refused /\ r.how = "wrap_tools"
      <4>1. result = WrapTools(heap, r.tools, r.settings)
        BY <3>2
      <4>2. guarded' = result
        BY <2>1, <3>2
      <4> HIDE DEF result
      <4>3. /\ result = [i \in DOMAIN r.tools |-> WrapTool(heap, r.tools[i], r.settings[i])]
            /\ \A i \in DOMAIN r.tools : WrapTool(heap, r.tools[i], r.settings[i]) # Refused
        BY <3>2, <4>1 DEF WrapTools
      <4>4. \A i \in DOMAIN r.tools : result[i] = Declare(heap, r.tools[i], r.settings[i])
                                     /\ result[i] # Refused
        BY <4>3 DEF WrapTool
      <4> QED BY <4>2, <4>3, <4>4
    <3>3. CASE result # Refused /\ r.how # "wrap_tools"
      <4>1. r.how \in {"guard", "wrap_tool"} /\ 1 \in DOMAIN r.tools
        BY <3>3, RegistrationsAssumption
      <4>2. result \in {Guard(heap, r.tools[1], r.settings[1]),
                        WrapTool(heap, r.tools[1], r.settings[1])}
        BY <4>1
      <4>3. guarded' = <<result>>
        BY <2>1, <3>3
      <4> HIDE DEF result
      <4>4. result = Declare(heap, r.tools[1], r.settings[1])
        BY <3>3, <4>2 DEF Guard, WrapTool
      <4>5. IsOfThese(result)
        BY <3>3, <4>1, <4>4
      <4> HIDE DEF IsOfThese
      <4> QED BY <4>3, <4>5
    <3> QED BY <3>1, <3>2, <3>3
  <2>3. (\A i \in DOMAIN guarded : IsDeclared(guarded[i]))'
    BY <1>2, <2>2 DEF IsDeclared
  <2> QED BY <1>1, <1>2, <2>3 DEF DeclaredInv
<1>5. ArgumentsInv' /\ WalkInv' /\ RecordInv'
  BY <1>1, SameCallee DEF CallInv, ArgumentsInv, WalkInv, RecordInv
<1> QED BY <1>3, <1>4, <1>5 DEF CallInv

LEMMA CallNext ==
  ASSUME AbsentIsNoData, CallInv, Call PROVE CallInv'
<1>1. /\ pc = "call" /\ pc' = "bind" /\ walked = <<>> /\ decision = None /\ received = None
      /\ ~changed
      /\ UNCHANGED <<heap, guarded, walked, kept, request, decision, outcome, edits, declared,
                     received, changed>>
  BY DEF CallInv, WalkInv, RecordInv, Call, recordVars
<1>2. PICK i \in DOMAIN guarded :
        /\ callee' = guarded[i]
        /\ \E passed \in SUBSET {guarded[i].params[k] : k \in DOMAIN guarded[i].params} :
             args' \in {a \in [passed -> UNION {ArgumentsOf[n] : n \in passed}] :
                          \A n \in passed : a[n] \in ArgumentsOf[n]}
  BY DEF Call
<1>3. declared.registration \in Registrations /\ IsDeclared(guarded[i])
  BY <1>1 DEF CallInv, DeclaredInv
<1>4. /\ callee' # None
      /\ \A k \in DOMAIN guarded[i].params : \A v \in ArgumentsOf[guarded[i].params[k]] : IsValue(v)
  BY <1>2, <1>3, WrapperFacts
<1>5. \A n \in DOMAIN args' : IsValue(args'[n])
  <2>1. PICK passed \in SUBSET {guarded[i].params[k] : k \in DOMAIN guarded[i].params} :
          DOMAIN args' = passed /\ \A n \in passed : args'[n] \in ArgumentsOf[n]
    BY <1>2
  <2> TAKE n \in DOMAIN args'
  <2>2. PICK k \in DOMAIN guarded[i].params : n = guarded[i].params[k]
    BY <2>1
  <2> QED BY <1>4, <2>1, <2>2
<1>6. TypeOK'
  BY <1>1 DEF CallInv, TypeOK, PCs
<1>7. DeclaredInv'
  BY <1>1, <1>2, <1>3, <1>4, SameDeclared DEF CallInv, DeclaredInv
<1>8. ArgumentsInv' /\ WalkInv' /\ RecordInv'
  BY <1>1, <1>5 DEF ArgumentsInv, WalkInv, RecordInv
<1> QED BY <1>6, <1>7, <1>8 DEF CallInv

LEMMA BindNext ==
  ASSUME CallInv, Bind PROVE CallInv'
<1>1. /\ pc = "bind" /\ pc' = "walk" /\ walked = <<>> /\ decision = None /\ received = None
      /\ callee # None
      /\ UNCHANGED <<heap, guarded, callee, walked, kept, request, decision, outcome, edits,
                     declared, received, changed>>
  BY DEF CallInv, DeclaredInv, WalkInv, RecordInv, Bind, recordVars
<1>2. args' = AllArguments
  BY DEF Bind
<1>3. ParamNames' = ParamNames
  BY <1>1, SameCallee
<1>4. args' = AllArguments' /\ \A n \in DOMAIN args' : IsValue(args'[n])
  BY <1>2, <1>3, RegistrationsAssumption DEF AllArguments, CallInv, ArgumentsInv
<1>5. TypeOK'
  BY <1>1, <1>3 DEF CallInv, TypeOK, PCs
<1>6. DeclaredInv'
  BY <1>1, SameDeclared DEF CallInv, DeclaredInv
<1>7. ArgumentsInv' /\ WalkInv' /\ RecordInv'
  BY <1>1, <1>4 DEF ArgumentsInv, WalkInv, RecordInv
<1> QED BY <1>5, <1>6, <1>7 DEF CallInv

LEMMA WalkNextNext ==
  ASSUME CallInv, WalkNext PROVE CallInv'
<1>1. /\ pc = "walk" /\ decision = None /\ received = None /\ callee # None
      /\ args = AllArguments
      /\ UNCHANGED <<heap, guarded, callee, args, request, decision, outcome, edits, declared,
                     received, changed>>
  BY DEF CallInv, DeclaredInv, ArgumentsInv, RecordInv, WalkNext, recordVars
<1>2. ParamNames' = ParamNames /\ AllArguments' = AllArguments
  BY <1>1, SameCallee, SameArguments
<1>3. PICK n \in DOMAIN args \ DOMAIN walked :
        LET item  == [name |-> n, value |-> args[n]]
            entry == Entry(heap, callee.sensitive, item)
        IN  IF entry.ok
            THEN /\ walked' = [m \in DOMAIN walked \cup {n} |->
                                 IF m = n THEN entry.value ELSE walked[m]]
                 /\ kept' = kept \cup entry.kept
                 /\ removed' = removed \cup Removed(heap, callee.sensitive, item)
                 /\ UNCHANGED pc
            ELSE pc' = "done" /\ UNCHANGED <<walked, kept, removed>>
  BY DEF WalkNext
<1> DEFINE entry == Entry(heap, callee.sensitive, [name |-> n, value |-> args[n]])
<1>4. DOMAIN args = ParamNames
  BY <1>1 DEF AllArguments
<1>5. IsHeap(heap) /\ IsValue(args[n])
  BY DEF CallInv, TypeOK, ArgumentsInv, IsHeap
<1>6. \A text \in entry.kept : IsText(text) /\ Len(text) >= MinScrubbable
  BY <1>5, EntryKeepsLong DEF AllLong
<1> HIDE DEF entry
<1>7. CASE entry.ok
  <2>1. /\ walked' = [m \in DOMAIN walked \cup {n} |-> IF m = n THEN entry.value ELSE walked[m]]
        /\ kept' = kept \cup entry.kept /\ pc' = pc
    BY <1>3, <1>7 DEF entry
  <2>2. DOMAIN walked \subseteq ParamNames /\ DOMAIN walked' = DOMAIN walked \cup {n}
    BY <2>1 DEF CallInv, TypeOK
  <2>3. TypeOK'
    BY <1>1, <1>2, <1>4, <1>6, <2>1, <2>2 DEF CallInv, TypeOK
  <2>4. DeclaredInv'
    BY <1>1, <2>1, SameDeclared DEF CallInv, DeclaredInv
  <2>5. ArgumentsInv' /\ RecordInv'
    BY <1>1, <1>2, <2>1 DEF CallInv, ArgumentsInv, RecordInv
  <2>6. WalkInv'
    <3>1. walked' = [m \in DOMAIN walked' |-> walked'[m]] /\ DOMAIN walked' \subseteq ParamNames'
      BY <1>2, <1>4, <2>1, <2>2
    <3>2. ASSUME ~changed', NEW m \in DOMAIN walked'
          PROVE  walked'[m] = Entry(heap, callee.sensitive, [name |-> m, value |-> args[m]]).value
      <4>1. CASE m = n
        BY <2>1, <4>1 DEF entry
      <4>2. CASE m # n
        <5>1. m \in DOMAIN walked /\ walked'[m] = walked[m] /\ ~changed
          BY <1>1, <2>1, <3>2, <4>2
        <5> QED BY <1>1, <5>1 DEF CallInv, WalkInv
      <4> QED BY <4>1, <4>2
    <3>3. pc' = "walk" /\ UNCHANGED <<heap, callee, args, changed>>
      BY <1>1, <2>1
    <3>4. \A m \in DOMAIN walked' : ~changed' =>
            walked'[m] = Entry(heap', callee'.sensitive, [name |-> m, value |-> args'[m]]).value
      BY <3>2, <3>3
    <3> QED BY <3>1, <3>3, <3>4 DEF WalkInv
  <2> QED BY <2>3, <2>4, <2>5, <2>6 DEF CallInv
<1>8. CASE ~entry.ok
  <2>1. pc' = "done" /\ UNCHANGED <<walked, kept>>
    BY <1>3, <1>8 DEF entry
  <2>2. TypeOK'
    BY <1>1, <1>2, <2>1 DEF CallInv, TypeOK, PCs
  <2>3. DeclaredInv'
    BY <1>1, <2>1, SameDeclared DEF CallInv, DeclaredInv
  <2>4. ArgumentsInv' /\ WalkInv' /\ RecordInv'
    BY <1>1, <1>2, <2>1 DEF CallInv, ArgumentsInv, WalkInv, RecordInv
  <2> QED BY <2>2, <2>3, <2>4 DEF CallInv
<1> QED BY <1>7, <1>8

LEMMA AskNext ==
  ASSUME CallInv, Ask PROVE CallInv'
<1>1. /\ pc = "walk" /\ pc' = "approve" /\ decision = None /\ received = None /\ callee # None
      /\ args = AllArguments /\ DOMAIN walked = DOMAIN args /\ request' = ApprovalRequest
      /\ UNCHANGED <<heap, guarded, callee, args, walked, kept, decision, outcome, edits,
                     declared, received, changed>>
  BY DEF CallInv, DeclaredInv, ArgumentsInv, RecordInv, Ask
<1>2. ParamNames' = ParamNames /\ AllArguments' = AllArguments /\ ApprovalRequest' = ApprovalRequest
  BY <1>1, SameCall, SameArguments
<1>3. DOMAIN walked = ParamNames
  BY <1>1 DEF AllArguments
<1>4. TypeOK'
  BY <1>1, <1>2 DEF CallInv, TypeOK, PCs
<1>5. DeclaredInv'
  BY <1>1, SameDeclared DEF CallInv, DeclaredInv
<1>6. ArgumentsInv' /\ WalkInv' /\ RecordInv'
  BY <1>1, <1>2, <1>3 DEF CallInv, ArgumentsInv, WalkInv, RecordInv
<1> QED BY <1>4, <1>5, <1>6 DEF CallInv

LEMMA StateOfType ==
  ASSUME NEW v PROVE StateOf(v) \in RetentionStates
<1>1. CASE v # Redacted /\ ~IsUnsupported(v)
  BY <1>1 DEF StateOf, RetentionStates
<1>2. CASE v = Redacted \/ IsUnsupported(v)
  <2>1. StateOf(v) \in {"redacted", "unsupported"}
    BY <1>2 DEF StateOf
  <2> QED BY <2>1 DEF RetentionStates
<1> QED BY <1>1, <1>2

(* _parameter_retention: a record for each parameter, in order. *)
LEMMA RetentionFacts ==
  ASSUME AbsentIsNoData, DeclaredInv, callee # None, DOMAIN walked = ParamNames,
         NEW retention, retention = ParameterRetention(walked, Sorted)
  PROVE  /\ Len(Params) \in Nat
         /\ DOMAIN retention = 1..Len(Params) /\ DOMAIN Sorted = 1..Len(Params)
         /\ Len(retention) = Len(Params)
         /\ \A i \in DOMAIN retention :
              /\ retention[i].name = Sorted[i] /\ Sorted[i] \in ParamNames
              /\ retention[i].state = StateOf(walked[Sorted[i]])
              /\ retention[i].state \in RetentionStates
         /\ \A n \in ParamNames : \E i \in DOMAIN Sorted : Sorted[i] = n
         /\ \A i, j \in DOMAIN Sorted : Sorted[i] = Sorted[j] => i = j
<1>1. /\ Len(Params) \in Nat /\ Sorted \in [1..Len(Params) -> ParamNames]
      /\ \A n \in ParamNames : \E i \in DOMAIN Sorted : Sorted[i] = n
      /\ \A i, j \in DOMAIN Sorted : Sorted[i] = Sorted[j] => i = j
  BY CalleeFacts, SortedNames
<1>2. retention = [i \in 1..Len(Params) |->
                     [name |-> Sorted[i], state |-> StateOf(walked[Sorted[i]])]]
  BY <1>1 DEF ParameterRetention
<1>3. Len(retention) = Len(Params)
  BY <1>1, <1>2
<1> QED BY <1>1, <1>2, <1>3, StateOfType

LEMMA DecideNext ==
  ASSUME AbsentIsNoData, CallInv, Decide PROVE CallInv'
<1>1. /\ pc = "approve" /\ pc' \in {"run", "done"} /\ received = None /\ callee # None
      /\ DOMAIN walked = ParamNames /\ request = ApprovalRequest
      /\ UNCHANGED <<heap, guarded, callee, args, walked, kept, request, outcome, edits,
                     declared, received, changed>>
  BY DEF CallInv, DeclaredInv, WalkInv, RecordInv, Decide
<1>2. PICK verdict \in {"allowed", "denied"} :
        decision' = DecisionEvent(verdict, walked, callee.metadata)
  BY DEF Decide
<1>3. /\ ParamNames' = ParamNames /\ Params' = Params
      /\ ApprovalRequest' = ApprovalRequest
      /\ AllArguments' = AllArguments
      /\ \A v, input, metadata :
           DecisionEvent(v, input, metadata)' = DecisionEvent(v, input, metadata)
  BY <1>1, SameCall, SameArguments
<1>4. /\ decision'.verdict = verdict
      /\ decision'.retention = ParameterRetention(walked, Sorted)
      /\ decision' = [c \in DOMAIN decision' |-> decision'[c]]
  BY <1>2 DEF DecisionEvent
<1>5. decision' # None
  BY <1>4 DEF AbsentIsNoData, None
<1>6. /\ Len(decision'.retention) = Len(Params)
      /\ \A i \in DOMAIN decision'.retention : decision'.retention[i].state \in RetentionStates
  BY <1>1, <1>4, RetentionFacts DEF CallInv
<1>7. TypeOK'
  BY <1>1, <1>3, <1>4, <1>6 DEF CallInv, TypeOK, PCs
<1>8. DeclaredInv'
  BY <1>1, SameDeclared DEF CallInv, DeclaredInv
<1>9. ArgumentsInv' /\ WalkInv'
  BY <1>1, <1>3 DEF CallInv, ArgumentsInv, WalkInv
<1>10. RecordInv'
  <2>1. (decision = DecisionEvent(decision.verdict, walked, callee.metadata))'
    BY <1>1, <1>2, <1>3, <1>4
  <2> QED BY <1>1, <1>3, <1>4, <1>5, <2>1 DEF RecordInv
<1> QED BY <1>7, <1>8, <1>9, <1>10 DEF CallInv

LEMMA RunNext ==
  ASSUME CallInv, Run PROVE CallInv'
<1>1. /\ pc = "run" /\ pc' = "record" /\ callee # None /\ decision # None
      /\ DOMAIN walked = ParamNames /\ args = AllArguments
      /\ UNCHANGED <<heap, guarded, callee, args, walked, kept, request, decision, outcome, edits,
                     declared, changed>>
  BY DEF CallInv, DeclaredInv, ArgumentsInv, WalkInv, RecordInv, Run, recordVars
<1>2. /\ ParamNames' = ParamNames /\ Params' = Params
      /\ ApprovalRequest' = ApprovalRequest
      /\ AllArguments' = AllArguments
      /\ \A v, input, metadata :
           DecisionEvent(v, input, metadata)' = DecisionEvent(v, input, metadata)
  BY <1>1, SameCall, SameArguments
<1>3. received' = [n \in DOMAIN args |->
                     Entry(heap, callee.sensitive, [name |-> n, value |-> args[n]]).value]
  BY <1>1 DEF Run
<1>4. ~changed => received' = walked
  <2> SUFFICES ASSUME ~changed PROVE received' = walked
    OBVIOUS
  <2>1. DOMAIN args = DOMAIN walked
    BY <1>1 DEF AllArguments
  <2>2. \A n \in DOMAIN walked :
          walked[n] = Entry(heap, callee.sensitive, [name |-> n, value |-> args[n]]).value
    BY <1>1 DEF CallInv, WalkInv
  <2>3. walked = [n \in DOMAIN walked |-> walked[n]]
    <3>1. CASE walked = <<>>
      BY <3>1
    <3>2. CASE walked # <<>>
      BY <3>2 DEF CallInv, WalkInv
    <3> QED BY <3>1, <3>2
  <2> QED BY <1>3, <2>1, <2>2, <2>3
<1>5. TypeOK'
  BY <1>1, <1>2 DEF CallInv, TypeOK, PCs
<1>6. DeclaredInv'
  BY <1>1, SameDeclared DEF CallInv, DeclaredInv
<1>7. ArgumentsInv' /\ WalkInv'
  BY <1>1, <1>2 DEF CallInv, ArgumentsInv, WalkInv
<1>8. RecordInv'
  <2>1. (decision = DecisionEvent(decision.verdict, walked, callee.metadata))'
    BY <1>1, <1>2 DEF CallInv, RecordInv
  <2>2. request' = ApprovalRequest' /\ decision'.verdict \in {"allowed", "denied"}
    BY <1>1, <1>2 DEF CallInv, RecordInv
  <2> QED BY <1>1, <1>2, <1>4, <2>1, <2>2 DEF RecordInv
<1> QED BY <1>5, <1>6, <1>7, <1>8 DEF CallInv

(* The outcome, and steps that change nothing the invariant is about. *)
LEMMA OutcomeNext ==
  ASSUME CallInv, pc' = pc \/ (pc # "register" /\ pc' = "done"),
         UNCHANGED <<heap, guarded, callee, args, walked, kept, request, decision, edits,
                     declared, received, changed>>
  PROVE  CallInv'
<1>1. /\ ParamNames' = ParamNames /\ Params' = Params
      /\ ApprovalRequest' = ApprovalRequest
      /\ AllArguments' = AllArguments
      /\ \A v, input, metadata :
           DecisionEvent(v, input, metadata)' = DecisionEvent(v, input, metadata)
  BY SameCall, SameArguments
<1>2. TypeOK'
  BY <1>1 DEF CallInv, TypeOK, PCs
<1>3. DeclaredInv'
  BY SameDeclared DEF CallInv, DeclaredInv, PCs, TypeOK
<1>4. ArgumentsInv' /\ WalkInv'
  BY <1>1 DEF CallInv, ArgumentsInv, WalkInv
<1>5. RecordInv'
  <2>1. decision # None =>
          /\ (decision = DecisionEvent(decision.verdict, walked, callee.metadata))'
          /\ request' = ApprovalRequest' /\ decision'.verdict \in {"allowed", "denied"}
    BY <1>1 DEF CallInv, RecordInv
  <2> QED BY <1>1, <2>1 DEF CallInv, RecordInv
<1> QED BY <1>2, <1>3, <1>4, <1>5 DEF CallInv

LEMMA EditNext ==
  ASSUME CallInv, NEW o \in Objects, Edit(o) PROVE CallInv'
<1>1. /\ pc \notin {"register", "done"} /\ edits < MaxEdits /\ edits' = edits + 1
      /\ changed' = (changed \/ pc \notin {"call", "bind"})
      /\ UNCHANGED <<guarded, callee, args, walked, kept, request, decision, outcome, pc,
                     declared, received>>
  BY DEF Edit, recordVars
<1>2. PICK content \in Contents[o] : heap' = [heap EXCEPT ![o] = content]
  BY DEF Edit
<1>3. DOMAIN heap' = Objects /\ \A p \in Objects : heap'[p] \in Contents[p]
  BY <1>2 DEF CallInv, TypeOK
<1>4. /\ ParamNames' = ParamNames /\ Params' = Params
      /\ ApprovalRequest' = ApprovalRequest
      /\ AllArguments' = AllArguments
      /\ \A v, input, metadata :
           DecisionEvent(v, input, metadata)' = DecisionEvent(v, input, metadata)
  BY <1>1, SameCall, SameArguments
<1>5. TypeOK'
  <2>1. edits' \in 0..MaxEdits /\ changed' \in BOOLEAN
    BY <1>1, RegistrationsAssumption DEF CallInv, TypeOK
  <2> QED BY <1>1, <1>3, <1>4, <2>1 DEF CallInv, TypeOK, PCs
<1>6. DeclaredInv'
  BY <1>1, SameDeclared DEF CallInv, DeclaredInv
<1>7. ArgumentsInv'
  BY <1>1, <1>4 DEF CallInv, ArgumentsInv
<1>8. WalkInv'
  <2>1. changed' <=> changed \/ pc \notin {"call", "bind"}
    BY <1>1
  <2> QED BY <1>1, <1>4, <2>1 DEF CallInv, WalkInv
<1>9. RecordInv'
  <2>1. decision # None =>
          /\ (decision = DecisionEvent(decision.verdict, walked, callee.metadata))'
          /\ request' = ApprovalRequest' /\ decision'.verdict \in {"allowed", "denied"}
    BY <1>1, <1>4 DEF CallInv, RecordInv
  <2>2. changed' <=> changed \/ pc \notin {"call", "bind"}
    BY <1>1
  <2> QED BY <1>1, <1>4, <2>1, <2>2 DEF CallInv, RecordInv
<1> QED BY <1>5, <1>6, <1>7, <1>8, <1>9 DEF CallInv

LEMMA InvNext ==
  ASSUME AbsentIsNoData, CallInv, [Next]_vars PROVE CallInv'
<1>1. CASE \E r \in Registrations : Register(r)
  BY <1>1, RegisterNext
<1>2. CASE Call
  BY <1>2, CallNext
<1>3. CASE Bind
  BY <1>3, BindNext
<1>4. CASE WalkNext
  BY <1>4, WalkNextNext
<1>5. CASE Ask
  BY <1>5, AskNext
<1>6. CASE Decide
  BY <1>6, DecideNext
<1>7. CASE Run
  BY <1>7, RunNext
<1>8. CASE Returns
  BY <1>8, OutcomeNext DEF Returns
<1>9. CASE Raises
  BY <1>9, OutcomeNext DEF Raises
<1>10. CASE \E o \in Objects : Edit(o)
  BY <1>10, EditNext
<1>11. CASE Terminating \/ UNCHANGED vars
  BY <1>11, OutcomeNext DEF Terminating, vars, recordVars
<1> QED BY <1>1, <1>2, <1>3, <1>4, <1>5, <1>6, <1>7, <1>8, <1>9, <1>10, <1>11 DEF Next

(***************************************************************************)
(* engine.py: the invariant from which the properties below follow.        *)
(***************************************************************************)
THEOREM CallInvariance ==
  ASSUME AbsentIsNoData PROVE Spec => []CallInv
<1>1. Init => CallInv
  BY InitInv
<1>2. CallInv /\ [Next]_vars => CallInv'
  BY InvNext
<1> QED BY <1>1, <1>2, PTL DEF Spec

(***************************************************************************)
(* engine.py: the types of what is recorded, one record of retention for   *)
(* each parameter, and nothing short remembered for scrubbing.             *)
(***************************************************************************)
THEOREM TypeCorrect ==
  ASSUME AbsentIsNoData PROVE Spec => []TypeOK
<1>1. CallInv => TypeOK
  BY DEF CallInv
<1> QED BY <1>1, CallInvariance, PTL

(***************************************************************************)
(* engine.py, step 3: the approver and the journal are given one and the   *)
(* same snapshot of the arguments, whoever changes them in between.        *)
(***************************************************************************)
THEOREM SnapshotIsRecorded ==
  ASSUME AbsentIsNoData PROVE Spec => []ApprovedIsRecorded
<1>1. CallInv => ApprovedIsRecorded
  BY DEF CallInv, RecordInv, ApprovedIsRecorded, ApprovalRequest, DecisionEvent
<1> QED BY <1>1, CallInvariance, PTL

(***************************************************************************)
(* engine.py, line 254: if nobody changed an object since the call was     *)
(* bound, the function got what was hashed, its defaults included.         *)
(***************************************************************************)
THEOREM ReceivesWhatIsRecorded ==
  ASSUME AbsentIsNoData PROVE Spec => []ReceivedIsRecorded
<1>1. CallInv => ReceivedIsRecorded
  BY DEF CallInv, RecordInv, ReceivedIsRecorded, DecisionEvent
<1> QED BY <1>1, CallInvariance, PTL

(***************************************************************************)
(* guard.py, _prepare_metadata: every decision carries the metadata of one *)
(* of the declarations as it was then, redacted.                           *)
(***************************************************************************)
THEOREM MetadataStays ==
  ASSUME AbsentIsNoData PROVE Spec => []MetadataAsDeclared
<1>1. ASSUME CallInv, decision # None PROVE MetadataAsDeclared
  <2>1. callee # None /\ decision.action = callee.action /\ decision.metadata = callee.metadata
    BY <1>1 DEF CallInv, RecordInv, DecisionEvent
  <2>2. declared.registration \in Registrations /\ IsDeclared(callee)
    BY <1>1, <2>1 DEF CallInv, DeclaredInv
  <2>3. \E i \in DOMAIN declared.registration.settings :
          LET settings == declared.registration.settings[i]
          IN  /\ callee.action = settings.action
              /\ callee.metadata = PrepareMetadata(declared.heap, SensitiveSet(settings.redact),
                                                  settings.metadata).value
    BY <2>2, WrapperFacts
  <2> QED BY <2>1, <2>3 DEF MetadataAsDeclared
<1>2. CallInv => MetadataAsDeclared
  BY <1>1 DEF MetadataAsDeclared
<1> QED BY <1>2, CallInvariance, PTL

-----------------------------------------------------------------------------
(* privacy.py: what it says of a decision, from its retention records and, as
   for an older journal, from its summary alone. *)

Recorded(event) == event = DecisionEvent(event.verdict, walked, callee.metadata)

LEMMA ReportOf ==
  ASSUME AbsentIsNoData, DeclaredInv, callee # None, DOMAIN walked = ParamNames,
         NEW event, Recorded(event)
  PROVE  /\ Len(Params) \in Nat
         /\ ClassifyEvent(event) =
              IF Len(Params) = 0
              THEN Report("no_arguments", {})
              ELSE Verdict(event.retention, NamesOf(event.retention))
<1> DEFINE retention == event.retention
<1>1. retention = ParameterRetention(walked, Sorted)
  BY DEF Recorded, DecisionEvent
<1>2. /\ Len(Params) \in Nat
      /\ DOMAIN retention = 1..Len(Params) /\ DOMAIN Sorted = 1..Len(Params)
      /\ \A i \in DOMAIN retention :
           /\ retention[i].name = Sorted[i]
           /\ retention[i].state \in RetentionStates
      /\ \A i, j \in DOMAIN Sorted : Sorted[i] = Sorted[j] => i = j
  BY <1>1, RetentionFacts
<1>3. retention = [i \in DOMAIN retention |-> retention[i]]
  BY <1>1 DEF ParameterRetention
<1>4. retention # Absent /\ retention # Malformed
  BY <1>3 DEF AbsentIsNoData
<1>5. ClassifyEvent(event) = ClassifyRetention(retention)
  BY <1>4 DEF ClassifyEvent
<1> HIDE DEF retention
<1>6. CASE Len(Params) = 0
  <2>1. retention = <<>>
    BY <1>2, <1>3, <1>6
  <2> QED BY <1>2, <1>4, <1>5, <1>6, <2>1 DEF ClassifyRetention, retention
<1>7. CASE Len(Params) # 0
  <2>1. retention # <<>>
    BY <1>2, <1>7
  <2> DEFINE bad(i) == BadRecord(retention, i)
             before == {i \in DOMAIN retention : \A j \in 1..i : ~bad(j)}
  <2>2. before = DOMAIN retention
    <3>1. ASSUME NEW i \in DOMAIN retention, NEW j \in 1..i PROVE ~bad(j)
      <4>1. j \in DOMAIN retention /\ \A k \in 1..(j - 1) : k \in DOMAIN retention /\ k # j
        BY <1>2
      <4> QED BY <1>2, <4>1 DEF BadRecord
    <3> QED BY <3>1
  <2>3. ClassifyRetention(retention) =
          IF before # DOMAIN retention
          THEN Report("unknown", {retention[i].name : i \in before})
          ELSE Verdict(retention, NamesOf(retention))
    BY <1>4, <2>1 DEF ClassifyRetention
  <2> HIDE DEF before
  <2> QED BY <1>2, <1>5, <1>7, <2>2, <2>3 DEF retention
<1> QED BY <1>2, <1>6, <1>7

LEMMA LegacyReportOf ==
  ASSUME AbsentIsNoData, DeclaredInv, callee # None, DOMAIN walked = ParamNames,
         NEW event, Recorded(event),
         NEW legacy, legacy = ClassifyEvent([event EXCEPT !.retention = Absent])
  PROVE  \/ legacy.class = "unknown"
         \/ Len(Params) = 0 /\ legacy = Report("no_arguments", {})
         \/ /\ Len(Params) # 0
            /\ legacy = Verdict(event.retention,
                                NamesIn(event.retention, {"retained", "unsupported"}))
<1> DEFINE retention == event.retention
           summary == event.summary
           parts == summary.parts
<1>1. /\ retention = ParameterRetention(walked, Sorted)
      /\ summary = BoundedSummary(walked, Sorted)
      /\ "retention" \in DOMAIN event
  BY DEF Recorded, DecisionEvent
<1>2. /\ Len(Params) \in Nat
      /\ DOMAIN retention = 1..Len(Params) /\ DOMAIN Sorted = 1..Len(Params)
      /\ \A i \in DOMAIN retention :
           retention[i].name = Sorted[i] /\ retention[i].state = StateOf(walked[Sorted[i]])
  BY <1>1, RetentionFacts
<1>3. summary # Malformed
  <2>1. summary = [c \in DOMAIN summary |-> summary[c]]
    BY <1>1 DEF BoundedSummary
  <2> QED BY <2>1 DEF AbsentIsNoData
<1>4. parts = [i \in 1..Len(Params) |->
                 [name |-> Sorted[i],
                  value |-> IF IsLong(walked[Sorted[i]]) THEN TheCut ELSE walked[Sorted[i]]]]
  BY <1>1, <1>2 DEF BoundedSummary
<1>5. legacy = ClassifySummary(summary)
  <2> DEFINE older == [event EXCEPT !.retention = Absent]
  <2>1. older.retention = Absent /\ older.summary = summary
    BY <1>1 DEF Recorded, DecisionEvent
  <2> HIDE DEF older, summary
  <2>2. ClassifyEvent(older) = ClassifySummary(summary)
    BY <2>1 DEF ClassifyEvent
  <2> QED BY <2>2 DEF older
<1> HIDE DEF summary, retention
<1>6. CASE Len(Params) = 0
  <2>1. parts = <<>>
    BY <1>4, <1>6
  <2> QED BY <1>3, <1>5, <1>6, <2>1 DEF ClassifySummary
<1>7. CASE Len(Params) # 0
  <2>1. parts # <<>> /\ DOMAIN parts = 1..Len(Params)
    <3>1. DOMAIN parts = 1..Len(Params)
      BY <1>4
    <3>2. 1 \in DOMAIN parts
      BY <1>2, <1>7, <3>1
    <3> QED BY <3>1, <3>2
  <2> DEFINE before == {i \in DOMAIN parts : \A j \in 1..i : parts[j].value # TheCut}
             marked == summary.cut \/ parts[Len(parts)].value = TheCut
             parsed == ParseExactSummary(summary)
             records == [i \in DOMAIN parsed.parts |->
                           [name |-> parsed.parts[i].name, state |-> StateOf(parsed.parts[i].value)]]
  <2>2. parsed = IF marked
                 THEN [ok |-> FALSE, parts |-> <<>>]
                 ELSE [ok |-> before = DOMAIN parts, parts |-> [i \in before |-> parts[i]]]
    BY DEF ParseExactSummary
  <2>3. legacy = IF ~parsed.ok
                 THEN Report("unknown", NamesOf(records))
                 ELSE Verdict(records, NamesIn(records, {"retained", "unsupported"}))
    BY <1>3, <1>5, <2>1 DEF ClassifySummary
  <2> HIDE DEF parsed
  <2>4. CASE ~parsed.ok
    BY <2>3, <2>4 DEF Report
  <2>5. CASE parsed.ok
    <3>1. before = DOMAIN parts /\ parsed.parts = [i \in before |-> parts[i]]
      BY <2>2, <2>5
    <3>2. \A i \in DOMAIN parts : /\ parsed.parts[i].name = Sorted[i]
                                  /\ parsed.parts[i].value = walked[Sorted[i]]
      <4> TAKE i \in DOMAIN parts
      <4>1. parts[i].value # TheCut /\ parsed.parts[i] = parts[i] /\ i \in 1..Len(Params)
        BY <1>2, <2>1, <3>1
      <4> QED BY <1>4, <4>1
    <3>3. DOMAIN parsed.parts = 1..Len(Params)
      BY <2>1, <3>1
    <3>4. records = [i \in 1..Len(Params) |->
                       [name |-> Sorted[i], state |-> StateOf(walked[Sorted[i]])]]
      BY <2>1, <3>2, <3>3
    <3>5. retention = [i \in 1..Len(Params) |->
                         [name |-> Sorted[i], state |-> StateOf(walked[Sorted[i]])]]
      BY <1>1, <1>2 DEF ParameterRetention
    <3>6. legacy = Verdict(records, NamesIn(records, {"retained", "unsupported"}))
      BY <2>3, <2>5
    <3>7. records = retention
      BY <3>4, <3>5
    <3> HIDE DEF records
    <3> QED BY <1>7, <3>6, <3>7 DEF retention
  <2> QED BY <2>4, <2>5
<1> QED BY <1>6, <1>7

(***************************************************************************)
(* docs/EVIDENCE_FORMAT.md: a truncated or oddly formatted summary cannot  *)
(* hide a retained argument, whatever the arguments and the bounds are.    *)
(***************************************************************************)
THEOREM ReportIsHonest ==
  ASSUME AbsentIsNoData PROVE Spec => []ReportHidesNothing
<1>1. ASSUME CallInv, decision # None PROVE ReportHidesNothing
  <2> DEFINE retention == decision.retention
             report == ClassifyEvent(decision)
             legacy == ClassifyEvent([decision EXCEPT !.retention = Absent])
             input == decision.hash
  <2>1. /\ callee # None /\ DOMAIN walked = ParamNames /\ DeclaredInv /\ Recorded(decision)
    BY <1>1 DEF CallInv, RecordInv, Recorded
  <2>2. input = walked /\ retention = ParameterRetention(walked, Sorted)
    BY <2>1 DEF Recorded, DecisionEvent
  <2>3. /\ Len(Params) \in Nat
        /\ DOMAIN retention = 1..Len(Params) /\ DOMAIN Sorted = 1..Len(Params)
        /\ \A i \in DOMAIN retention :
             /\ retention[i].name = Sorted[i] /\ Sorted[i] \in ParamNames
             /\ retention[i].state = StateOf(walked[Sorted[i]])
             /\ retention[i].state \in RetentionStates
        /\ \A n \in ParamNames : \E i \in DOMAIN Sorted : Sorted[i] = n
    BY <2>1, <2>2, RetentionFacts
  <2>4. report = IF Len(Params) = 0 THEN Report("no_arguments", {})
                 ELSE Verdict(retention, NamesOf(retention))
    BY <2>1, ReportOf
  <2>5. \/ legacy.class = "unknown"
        \/ Len(Params) = 0 /\ legacy = Report("no_arguments", {})
        \/ /\ Len(Params) # 0
           /\ legacy = Verdict(retention, NamesIn(retention, {"retained", "unsupported"}))
    BY <2>1, LegacyReportOf
  <2> HIDE DEF retention, report, legacy, input
  <2> DEFINE unsupported == NamesIn(retention, {"unsupported"})
             retained == NamesIn(retention, {"retained"})
  <2>6. /\ unsupported # {} => Verdict(retention, NamesOf(retention))
                                = Report("unknown", NamesOf(retention))
        /\ unsupported # {} =>
             Verdict(retention, NamesIn(retention, {"retained", "unsupported"})).class = "unknown"
        /\ unsupported = {} /\ retained # {} =>
             \A names : Verdict(retention, names) = Report("partially_redacted", retained)
        /\ unsupported = {} /\ retained = {} =>
             \A names : Verdict(retention, names) = Report("fully_redacted", {})
    BY DEF Verdict, Report
  <2>7. {n \in DOMAIN input : StateOf(input[n]) = "retained"} \subseteq retained
    <3> SUFFICES ASSUME NEW n \in DOMAIN input, StateOf(input[n]) = "retained"
                 PROVE  n \in retained
      OBVIOUS
    <3>1. PICK i \in DOMAIN Sorted : Sorted[i] = n
      BY <2>1, <2>2, <2>3
    <3>2. retention[i].state = "retained" /\ retention[i].name = n /\ i \in DOMAIN retention
      BY <2>2, <2>3, <3>1
    <3> QED BY <3>2 DEF NamesIn
  <2>8. retained \subseteq NamesOf(retention)
    BY DEF NamesIn, NamesOf
  <2>9. unsupported = {} /\ retained = {} => \A n \in DOMAIN input : input[n] = Redacted
    <3> SUFFICES ASSUME unsupported = {}, retained = {}, NEW n \in DOMAIN input
                 PROVE  input[n] = Redacted
      OBVIOUS
    <3>1. PICK i \in DOMAIN Sorted : Sorted[i] = n
      BY <2>1, <2>2, <2>3
    <3>2. i \in DOMAIN retention /\ retention[i].state = StateOf(input[n])
          /\ retention[i].state \in RetentionStates
      BY <2>2, <2>3, <3>1
    <3>3. retention[i].state \notin {"unsupported", "retained"}
      BY <3>2 DEF NamesIn
    <3>4. StateOf(input[n]) = "redacted"
      BY <3>2, <3>3 DEF RetentionStates
    <3>5. CASE input[n] # Redacted /\ IsUnsupported(input[n])
      <4>1. StateOf(input[n]) = "unsupported"
        BY <3>5 DEF StateOf
      <4> QED BY <3>4, <4>1
    <3>6. CASE input[n] # Redacted /\ ~IsUnsupported(input[n])
      <4>1. StateOf(input[n]) = "retained"
        BY <3>6 DEF StateOf
      <4> QED BY <3>4, <4>1
    <3> QED BY <3>5, <3>6
  <2>10. DOMAIN input = {} <=> Len(Params) = 0
    <3>1. Len(Params) # 0 => 1 \in DOMAIN retention
      BY <2>3
    <3>2. Len(Params) # 0 => Sorted[1] \in ParamNames
      BY <2>3, <3>1
    <3>3. Len(Params) = 0 => DOMAIN Sorted = {}
      BY <2>3
    <3>4. Len(Params) = 0 <=> ParamNames = {}
      BY <2>3, <3>2, <3>3
    <3> QED BY <2>1, <2>2, <3>4
  <2> HIDE DEF unsupported, retained
  <2>11. CASE Len(Params) = 0
    <3>1. report = Report("no_arguments", {}) /\ DOMAIN input = {}
      BY <2>4, <2>10, <2>11
    <3>2. legacy.class # "unknown" => legacy = report
      BY <2>5, <2>11, <3>1
    <3>3. /\ {n \in DOMAIN input : StateOf(input[n]) = "retained"} \subseteq report.names
          /\ report.class = "no_arguments"
      BY <3>1 DEF Report
    <3> QED BY <3>1, <3>2, <3>3 DEF ReportHidesNothing, SafeForUpload, report, legacy, input
  <2>12. CASE Len(Params) # 0
    <3>1. report = Verdict(retention, NamesOf(retention)) /\ DOMAIN input # {}
      BY <2>4, <2>10, <2>12
    <3>2. report.class # "no_arguments" /\ retained \subseteq report.names
      BY <2>6, <2>8, <3>1 DEF Report
    <3>3. report.class = "fully_redacted" => unsupported = {} /\ retained = {}
      BY <2>6, <3>1 DEF Report
    <3>4. legacy.class # "unknown" => legacy = report
      BY <2>5, <2>6, <2>12, <3>1
    <3> QED BY <2>7, <2>9, <3>1, <3>2, <3>3, <3>4
            DEF ReportHidesNothing, SafeForUpload, report, legacy, input
  <2> QED BY <2>11, <2>12
<1>2. CallInv => ReportHidesNothing
  BY <1>1 DEF ReportHidesNothing
<1> QED BY <1>2, CallInvariance, PTL

-----------------------------------------------------------------------------
(* The reference: what a value shows at each depth, from that of the values
   it shows itself. *)

ShownBy(h, sensitive, values) ==
  UNION {Shown(h, sensitive, v[2]) : v \in {u \in values : u[1] = "ref"}}

Kids(h, sensitive, v) == IF v[1] = "ref" THEN Shown(h, sensitive, v[2]) ELSE {}

AtLevel(level, h, sensitive, value, d) ==
  IF d = 0 THEN {value} ELSE ShownBy(h, sensitive, level[d - 1])

LEMMA InShownBy ==
  ASSUME NEW h, NEW sensitive, NEW values, NEW x
  PROVE  x \in ShownBy(h, sensitive, values) <=>
           \E v \in values : x \in Kids(h, sensitive, v)
BY DEF ShownBy, Kids

LEMMA LevelsExist ==
  ASSUME NEW h, NEW sensitive, NEW value, NEW last \in Nat
  PROVE  \E level : level = [d \in 0..last |-> AtLevel(level, h, sensitive, value, d)]
<1> DEFINE S == {n \in Nat : \E level :
                   level = [d \in 0..n |-> AtLevel(level, h, sensitive, value, d)]}
<1>1. 0 \in S
  <2>1. [d \in 0..0 |-> {value}] =
          [d \in 0..0 |-> AtLevel([e \in 0..0 |-> {value}], h, sensitive, value, d)]
    BY DEF AtLevel
  <2> QED BY <2>1
<1>2. ASSUME NEW n \in Nat, n \in S PROVE n + 1 \in S
  <2>1. PICK level : level = [d \in 0..n |-> AtLevel(level, h, sensitive, value, d)]
    BY <1>2
  <2> DEFINE more == [d \in 0..(n + 1) |-> AtLevel(level, h, sensitive, value, d)]
  <2>2. \A d \in 0..n : more[d] = level[d]
    BY <2>1
  <2>3. \A d \in 0..(n + 1) : AtLevel(more, h, sensitive, value, d)
                              = AtLevel(level, h, sensitive, value, d)
    <3> TAKE d \in 0..(n + 1)
    <3>1. d # 0 => d - 1 \in 0..n
      OBVIOUS
    <3> HIDE DEF more
    <3> QED BY <2>2, <3>1 DEF AtLevel
  <2>4. more = [d \in 0..(n + 1) |-> AtLevel(more, h, sensitive, value, d)]
    <3>1. more = [d \in 0..(n + 1) |-> AtLevel(level, h, sensitive, value, d)]
      OBVIOUS
    <3> HIDE DEF more
    <3> QED BY <2>3, <3>1
  <2> HIDE DEF more
  <2> QED BY <2>4
<1> HIDE DEF S
<1>3. last \in S
  BY <1>1, <1>2, Induct
<1> QED BY <1>3 DEF S

LEMMA LevelsAre ==
  ASSUME NEW h, NEW sensitive, NEW value
  PROVE  /\ Levels(h, sensitive, value)[0] = {value}
         /\ \A d \in Nat : d <= MaxDepth =>
              Levels(h, sensitive, value)[d + 1] = ShownBy(h, sensitive, Levels(h, sensitive, value)[d])
<1> DEFINE f == CHOOSE level :
                  level = [d \in 0..(MaxDepth + 1) |-> AtLevel(level, h, sensitive, value, d)]
<1>1. f = [d \in 0..(MaxDepth + 1) |-> AtLevel(f, h, sensitive, value, d)]
  BY LevelsExist, DepthType
<1>2. Levels(h, sensitive, value) = f
  BY DEF Levels, AtLevel, ShownBy
<1> HIDE DEF f
<1>3. f[0] = {value}
  BY <1>1, DepthType DEF AtLevel
<1>4. ASSUME NEW d \in Nat, d <= MaxDepth PROVE f[d + 1] = ShownBy(h, sensitive, f[d])
  <2>1. d + 1 \in 0..(MaxDepth + 1) /\ d + 1 # 0 /\ (d + 1) - 1 = d
    BY <1>4, DepthType
  <2> QED BY <1>1, <2>1 DEF AtLevel
<1> QED BY <1>2, <1>3, <1>4

(* The levels below a value are those below the values it shows. *)
LEMMA LevelsShift ==
  ASSUME NEW h, NEW sensitive, NEW value, NEW k \in Nat, k <= MaxDepth, NEW x
  PROVE  x \in Levels(h, sensitive, value)[k + 1] <=>
           \E c \in Kids(h, sensitive, value) : x \in Levels(h, sensitive, c)[k]
<1> DEFINE L(v) == Levels(h, sensitive, v)
           S == {d \in Nat : d <= MaxDepth =>
                   \A y : y \in L(value)[d + 1] <=>
                            \E c \in Kids(h, sensitive, value) : y \in L(c)[d]}
<1>1. 0 \in S
  <2>1. L(value)[0 + 1] = ShownBy(h, sensitive, {value})
    BY LevelsAre, DepthType
  <2>2. \A c : L(c)[0] = {c}
    BY LevelsAre
  <2> HIDE DEF L
  <2>3. \A y : y \in L(value)[0 + 1] <=> y \in Kids(h, sensitive, value)
    BY <2>1, InShownBy
  <2> QED BY <2>2, <2>3
<1>2. ASSUME NEW d \in Nat, d \in S PROVE d + 1 \in S
  <2> SUFFICES ASSUME d + 1 <= MaxDepth, NEW y
               PROVE  y \in L(value)[(d + 1) + 1] <=>
                        \E c \in Kids(h, sensitive, value) : y \in L(c)[d + 1]
    OBVIOUS
  <2>1. d <= MaxDepth /\ d + 1 \in Nat
    BY DepthType
  <2>2. L(value)[(d + 1) + 1] = ShownBy(h, sensitive, L(value)[d + 1])
    BY <2>1, LevelsAre
  <2>3. \A c : L(c)[d + 1] = ShownBy(h, sensitive, L(c)[d])
    BY <2>1, LevelsAre
  <2>4. \A z : z \in L(value)[d + 1] <=>
                 \E c \in Kids(h, sensitive, value) : z \in L(c)[d]
    BY <1>2, <2>1
  <2> HIDE DEF L
  <2>5. y \in L(value)[(d + 1) + 1] <=>
          \E z \in L(value)[d + 1] : y \in Kids(h, sensitive, z)
    BY <2>2, InShownBy
  <2>6. \A c : y \in L(c)[d + 1] <=> \E z \in L(c)[d] : y \in Kids(h, sensitive, z)
    BY <2>3, InShownBy
  <2> QED BY <2>4, <2>5, <2>6
<1> HIDE DEF S
<1>3. k \in S
  BY <1>1, <1>2, Induct
<1> QED BY <1>3 DEF S

(* Containers that show one another are never done with. *)
LEMMA CyclesDoNotEnd ==
  ASSUME NEW h, NEW sensitive, NEW around, NEW value, value[1] = "ref", value[2] \in around,
         \A o \in around : \E w \in Shown(h, sensitive, o) : w[1] = "ref" /\ w[2] \in around,
         NEW k \in Nat, k <= MaxDepth + 1
  PROVE  Levels(h, sensitive, value)[k] # {}
<1> DEFINE L == Levels(h, sensitive, value)
           S == {d \in Nat : d <= MaxDepth + 1 =>
                   \E u \in L[d] : u[1] = "ref" /\ u[2] \in around}
<1>1. 0 \in S
  BY LevelsAre
<1>2. ASSUME NEW d \in Nat, d \in S PROVE d + 1 \in S
  <2> SUFFICES ASSUME d + 1 <= MaxDepth + 1
               PROVE  \E u \in L[d + 1] : u[1] = "ref" /\ u[2] \in around
    OBVIOUS
  <2>1. d <= MaxDepth /\ d <= MaxDepth + 1
    BY DepthType
  <2>2. PICK u \in L[d] : u[1] = "ref" /\ u[2] \in around
    BY <1>2, <2>1
  <2>3. PICK w \in Shown(h, sensitive, u[2]) : w[1] = "ref" /\ w[2] \in around
    BY <2>2
  <2>4. L[d + 1] = ShownBy(h, sensitive, L[d])
    BY <2>1, LevelsAre
  <2> HIDE DEF L
  <2>5. w \in L[d + 1]
    BY <2>2, <2>3, <2>4, InShownBy DEF Kids
  <2> QED BY <2>3, <2>5
<1> HIDE DEF S
<1>3. k \in S
  BY <1>1, <1>2, Induct
<1> QED BY <1>3 DEF S

(* The same of a canonical value. *)
Parts(x) == IF x[1] \in {"array", "object"} THEN Range(x[2]) ELSE {}

InsideOf(values) ==
  UNION {Range(v[2]) : v \in {u \in values : u[1] \in {"array", "object"}}}

AtDepth(level, value, d) == IF d = 0 THEN {value} ELSE InsideOf(level[d - 1])

LEMMA InInsideOf ==
  ASSUME NEW values, NEW x
  PROVE  x \in InsideOf(values) <=> \E v \in values : x \in Parts(v)
BY DEF InsideOf, Parts

LEMMA NestingExists ==
  ASSUME NEW value, NEW last \in Nat
  PROVE  \E level : level = [d \in 0..last |-> AtDepth(level, value, d)]
<1> DEFINE S == {n \in Nat : \E level : level = [d \in 0..n |-> AtDepth(level, value, d)]}
<1>1. 0 \in S
  <2>1. [d \in 0..0 |-> {value}] = [d \in 0..0 |-> AtDepth([e \in 0..0 |-> {value}], value, d)]
    BY DEF AtDepth
  <2> QED BY <2>1
<1>2. ASSUME NEW n \in Nat, n \in S PROVE n + 1 \in S
  <2>1. PICK level : level = [d \in 0..n |-> AtDepth(level, value, d)]
    BY <1>2
  <2> DEFINE more == [d \in 0..(n + 1) |-> AtDepth(level, value, d)]
  <2>2. \A d \in 0..n : more[d] = level[d]
    BY <2>1
  <2>3. \A d \in 0..(n + 1) : AtDepth(more, value, d) = AtDepth(level, value, d)
    <3> TAKE d \in 0..(n + 1)
    <3>1. d # 0 => d - 1 \in 0..n
      OBVIOUS
    <3> HIDE DEF more
    <3> QED BY <2>2, <3>1 DEF AtDepth
  <2>4. more = [d \in 0..(n + 1) |-> AtDepth(more, value, d)]
    <3>1. more = [d \in 0..(n + 1) |-> AtDepth(level, value, d)]
      OBVIOUS
    <3> HIDE DEF more
    <3> QED BY <2>3, <3>1
  <2> HIDE DEF more
  <2> QED BY <2>4
<1> HIDE DEF S
<1>3. last \in S
  BY <1>1, <1>2, Induct
<1> QED BY <1>3 DEF S

LEMMA NestedIs ==
  ASSUME NEW value
  PROVE  /\ Nested(value)[0] = {value}
         /\ \A d \in Nat : d < MaxDepth => Nested(value)[d + 1] = InsideOf(Nested(value)[d])
<1> DEFINE f == CHOOSE level : level = [d \in 0..MaxDepth |-> AtDepth(level, value, d)]
<1>1. f = [d \in 0..MaxDepth |-> AtDepth(f, value, d)]
  BY NestingExists, DepthType
<1>2. Nested(value) = f
  BY DEF Nested, AtDepth, InsideOf
<1> HIDE DEF f
<1>3. f[0] = {value}
  BY <1>1, DepthType DEF AtDepth
<1>4. ASSUME NEW d \in Nat, d < MaxDepth PROVE f[d + 1] = InsideOf(f[d])
  <2>1. d + 1 \in 0..MaxDepth /\ d + 1 # 0 /\ (d + 1) - 1 = d
    BY <1>4, DepthType
  <2> QED BY <1>1, <2>1 DEF AtDepth
<1> QED BY <1>2, <1>3, <1>4

LEMMA NestedShift ==
  ASSUME NEW value, NEW k \in Nat, k < MaxDepth, NEW x
  PROVE  x \in Nested(value)[k + 1] <=> \E c \in Parts(value) : x \in Nested(c)[k]
<1> DEFINE S == {d \in Nat : d < MaxDepth =>
                   \A y : y \in Nested(value)[d + 1] <=>
                            \E c \in Parts(value) : y \in Nested(c)[d]}
<1>1. 0 \in S
  <2>1. Nested(value)[0 + 1] = InsideOf({value})
    BY NestedIs, DepthType, SMTT(30)
  <2>2. \A c : Nested(c)[0] = {c}
    BY NestedIs
  <2>3. \A y : y \in Nested(value)[0 + 1] <=> y \in Parts(value)
    BY <2>1, InInsideOf
  <2> QED BY <2>2, <2>3
<1>2. ASSUME NEW d \in Nat, d \in S PROVE d + 1 \in S
  <2> SUFFICES ASSUME d + 1 < MaxDepth, NEW y
               PROVE  y \in Nested(value)[(d + 1) + 1] <=>
                        \E c \in Parts(value) : y \in Nested(c)[d + 1]
    OBVIOUS
  <2>1. d < MaxDepth /\ d + 1 \in Nat
    BY DepthType
  <2>2. Nested(value)[(d + 1) + 1] = InsideOf(Nested(value)[d + 1])
    BY <2>1, NestedIs
  <2>3. \A c : Nested(c)[d + 1] = InsideOf(Nested(c)[d])
    BY <2>1, NestedIs
  <2>4. \A z : z \in Nested(value)[d + 1] <=> \E c \in Parts(value) : z \in Nested(c)[d]
    BY <1>2, <2>1
  <2>5. y \in Nested(value)[(d + 1) + 1] <=> \E z \in Nested(value)[d + 1] : y \in Parts(z)
    BY <2>2, InInsideOf
  <2>6. \A c : y \in Nested(c)[d + 1] <=> \E z \in Nested(c)[d] : y \in Parts(z)
    BY <2>3, InInsideOf
  <2> QED BY <2>4, <2>5, <2>6
<1> HIDE DEF S
<1>3. k \in S
  BY <1>1, <1>2, Induct
<1> QED BY <1>3 DEF S

-----------------------------------------------------------------------------
(* What is seen below a value in n steps, what is in a canonical value at less
   than n levels, and what these amount to. *)

Seen(h, sensitive, value, n) == UNION {Levels(h, sensitive, value)[k] : k \in 0..n}

Inside(x, n) == UNION {Nested(x)[k] : k \in {j \in 0..MaxDepth : j < n}}

Fits(h, sensitive, value, n) ==
  Levels(h, sensitive, value)[n] = {} /\ <<"nan">> \notin Seen(h, sensitive, value, n)

TextsAmong(values) == {v[2] : v \in {u \in values : u[1] = "text"}}

RemovedBelow(h, sensitive, values) ==
  UNION {Scrubbable(v) : v \in HiddenBelow(h, sensitive, values)}

LEMMA SeenShift ==
  ASSUME NEW h, NEW sensitive, NEW value, NEW n \in Nat, n <= MaxDepth, NEW x
  PROVE  x \in Seen(h, sensitive, value, n + 1) <=>
           x = value \/ \E c \in Kids(h, sensitive, value) : x \in Seen(h, sensitive, c, n)
<1> DEFINE L(v) == Levels(h, sensitive, v)
<1>1. L(value)[0] = {value}
  BY LevelsAre
<1>2. \A k \in 0..n : x \in L(value)[k + 1] <=>
                       \E c \in Kids(h, sensitive, value) : x \in L(c)[k]
  BY LevelsShift, DepthType
<1> HIDE DEF L
<1>3. x \in UNION {L(value)[k] : k \in 0..(n + 1)} <=>
        x \in L(value)[0] \/ \E k \in 0..n : x \in L(value)[k + 1]
  <2>1. ASSUME NEW k \in 0..(n + 1), x \in L(value)[k]
        PROVE  x \in L(value)[0] \/ \E j \in 0..n : x \in L(value)[j + 1]
    <3>1. CASE k = 0
      BY <2>1, <3>1
    <3>2. CASE k # 0
      <4>1. k - 1 \in 0..n /\ (k - 1) + 1 = k
        BY <3>2
      <4> QED BY <2>1, <4>1
    <3> QED BY <3>1, <3>2
  <2>2. 0 \in 0..(n + 1) /\ \A k \in 0..n : k + 1 \in 0..(n + 1)
    OBVIOUS
  <2> QED BY <2>1, <2>2
<1>4. x \in UNION {L(value)[k] : k \in 0..(n + 1)} <=>
        x = value \/ \E c \in Kids(h, sensitive, value) : x \in UNION {L(c)[k] : k \in 0..n}
  BY <1>1, <1>2, <1>3
<1> QED BY <1>4 DEF Seen, L

LEMMA InsideShift ==
  ASSUME NEW value, NEW n \in Nat, n <= MaxDepth, NEW x
  PROVE  x \in Inside(value, n + 1) <=>
           x = value \/ \E c \in Parts(value) : x \in Inside(c, n)
<1>1. Nested(value)[0] = {value}
  BY NestedIs
<1>2. \A k \in Nat : k < n => (x \in Nested(value)[k + 1] <=>
                               \E c \in Parts(value) : x \in Nested(c)[k])
  BY NestedShift, DepthType
<1>3. \A c : x \in Inside(c, n) <=> \E k \in Nat : k < n /\ x \in Nested(c)[k]
  BY DepthType DEF Inside
<1>4. x \in Inside(value, n + 1) <=> \E k \in Nat : k < n + 1 /\ x \in Nested(value)[k]
  BY DepthType DEF Inside
<1>5. x \in Inside(value, n + 1) <=>
        x \in Nested(value)[0] \/ \E k \in Nat : k < n /\ x \in Nested(value)[k + 1]
  <2>1. ASSUME NEW k \in Nat, k < n + 1, x \in Nested(value)[k]
        PROVE  x \in Nested(value)[0] \/ \E j \in Nat : j < n /\ x \in Nested(value)[j + 1]
    <3>1. CASE k = 0
      BY <2>1, <3>1
    <3>2. CASE k # 0
      <4>1. k - 1 \in Nat /\ k - 1 < n /\ (k - 1) + 1 = k
        BY <2>1, <3>2
      <4> QED BY <2>1, <4>1
    <3> QED BY <3>1, <3>2
  <2>2. 0 < n + 1 /\ \A k \in Nat : k < n => k + 1 \in Nat /\ k + 1 < n + 1
    OBVIOUS
  <2> QED BY <1>4, <2>1, <2>2
<1> QED BY <1>1, <1>2, <1>3, <1>5

LEMMA FitsShift ==
  ASSUME NEW h, NEW sensitive, NEW value, NEW n \in Nat, n <= MaxDepth
  PROVE  Fits(h, sensitive, value, n + 1) <=>
           value # <<"nan">> /\ \A c \in Kids(h, sensitive, value) : Fits(h, sensitive, c, n)
<1>1. Levels(h, sensitive, value)[n + 1] = {} <=>
        \A c \in Kids(h, sensitive, value) : Levels(h, sensitive, c)[n] = {}
  BY LevelsShift
<1>2. <<"nan">> \in Seen(h, sensitive, value, n + 1) <=>
        \/ <<"nan">> = value
        \/ \E c \in Kids(h, sensitive, value) : <<"nan">> \in Seen(h, sensitive, c, n)
  BY SeenShift
<1> QED BY <1>1, <1>2 DEF Fits

-----------------------------------------------------------------------------
(* The traversal and the reference agree at every visit. *)

Marks == {Redacted[2], Unsupported[2]}

(* From each container around a visit, one of its values leads to another of
   these containers or to the value that is visited. *)
Trail(h, sensitive, at) ==
  \A o \in at.around : \E w \in Shown(h, sensitive, o) :
    w = at.value \/ (w[1] = "ref" /\ w[2] \in at.around)

Agrees(h, sensitive, value, n, result) ==
  /\ result.ok <=> Fits(h, sensitive, value, n)
  /\ result.ok =>
       /\ TextsAmong(Inside(result.value, n)) \ Marks
            = TextsAmong(Seen(h, sensitive, value, n)) \ Marks
       /\ result.kept = RemovedBelow(h, sensitive, Seen(h, sensitive, value, n))
       /\ n <= MaxDepth => Nested(result.value)[n] \subseteq {Redacted}

LEMMA InTextsAmong ==
  ASSUME NEW values, NEW t
  PROVE  t \in TextsAmong(values) <=> \E v \in values : v[1] = "text" /\ v[2] = t
BY DEF TextsAmong

LEMMA InRemovedBelow ==
  ASSUME NEW h, NEW sensitive, NEW values, NEW t
  PROVE  t \in RemovedBelow(h, sensitive, values) <=>
           \E w \in values : w[1] = "ref" /\
             \E v \in Hidden(h, sensitive, w[2]) : t \in Scrubbable(v)
BY DEF RemovedBelow, HiddenBelow

LEMMA InsideLeaf ==
  ASSUME NEW x, x[1] = "text" \/ x = <<"number">>, NEW n \in Nat, n <= MaxDepth
  PROVE  Inside(x, n + 1) = {x} /\ Inside(x, n) \subseteq {x}
<1>1. Parts(x) = {}
  BY DEF Parts
<1>2. Inside(x, n + 1) = {x}
  BY <1>1, InsideShift
<1>3. Inside(x, n) \subseteq Inside(x, n + 1)
  BY DepthType DEF Inside
<1> QED BY <1>2, <1>3

(* Nothing is inside a text or a number. *)
LEMMA NestedLeaf ==
  ASSUME NEW x, x[1] = "text" \/ x = <<"number">>, NEW n \in Nat, n <= MaxDepth
  PROVE  Nested(x)[n] \subseteq {x} /\ (n # 0 => Nested(x)[n] = {})
<1>1. Parts(x) = {}
  BY DEF Parts
<1>2. CASE n = 0
  BY <1>2, NestedIs
<1>3. CASE n # 0
  <2>1. n - 1 \in Nat /\ n - 1 < MaxDepth /\ (n - 1) + 1 = n
    BY <1>3, DepthType
  <2>2. \A y : y \in Nested(x)[(n - 1) + 1] <=> \E c \in Parts(x) : y \in Nested(c)[n - 1]
    BY <2>1, NestedShift
  <2> QED BY <1>1, <2>1, <2>2
<1> QED BY <1>2, <1>3

(* What shows no other value. *)
LEMMA LeafAgrees ==
  ASSUME NEW h, NEW sensitive, NEW value, IsValue(value), NEW n \in Nat, n <= MaxDepth,
         value[1] # "ref",
         NEW result,
         result = IF value = <<"nan">> THEN Raised
                  ELSE IF value = <<"opaque">> THEN Canonical(Unsupported, {})
                  ELSE Canonical(value, {})
  PROVE  Agrees(h, sensitive, value, n + 1, result)
<1>1. Kids(h, sensitive, value) = {}
  BY DEF Kids
<1>2. Seen(h, sensitive, value, n + 1) = {value}
  BY <1>1, SeenShift
<1>3. Fits(h, sensitive, value, n + 1) <=> value # <<"nan">>
  BY <1>1, FitsShift
<1>4. RemovedBelow(h, sensitive, {value}) = {}
  BY InRemovedBelow
<1>5. CASE value = <<"nan">>
  BY <1>3, <1>5 DEF Agrees, Raised
<1>6. CASE value = <<"opaque">>
  <2>1. result.ok /\ result.value = Unsupported /\ result.kept = {}
    BY <1>6 DEF Canonical
  <2>2. Inside(Unsupported, n + 1) = {Unsupported}
    BY InsideLeaf DEF Unsupported, Text
  <2>3. TextsAmong({Unsupported}) \ Marks = {} /\ TextsAmong({value}) = {}
    BY <1>6 DEF TextsAmong, Marks
  <2>4. value # <<"nan">>
    BY <1>6
  <2>5. n + 1 <= MaxDepth => Nested(Unsupported)[n + 1] = {}
    BY NestedLeaf DEF Unsupported, Text
  <2> QED BY <1>2, <1>3, <1>4, <2>1, <2>2, <2>3, <2>4, <2>5 DEF Agrees
<1>7. CASE value # <<"nan">> /\ value # <<"opaque">>
  <2>1. result.ok /\ result.value = value /\ result.kept = {}
    BY <1>7 DEF Canonical
  <2>2. value[1] = "text" \/ value = <<"number">>
    BY <1>7 DEF IsValue
  <2>3. Inside(value, n + 1) = {value}
    BY <2>2, InsideLeaf
  <2>4. n + 1 <= MaxDepth => Nested(value)[n + 1] = {}
    BY <2>2, NestedLeaf
  <2> QED BY <1>2, <1>3, <1>4, <1>7, <2>1, <2>3, <2>4 DEF Agrees
<1> QED BY <1>5, <1>6, <1>7

(* A container inside itself. *)
LEMMA CycleAgrees ==
  ASSUME NEW h, NEW sensitive, NEW at, at.value[1] = "ref", at.value[2] \in at.around,
         Trail(h, sensitive, at), NEW n \in Nat, n <= MaxDepth + 1
  PROVE  Agrees(h, sensitive, at.value, n, Raised)
<1>1. \A o \in at.around : \E w \in Shown(h, sensitive, o) : w[1] = "ref" /\ w[2] \in at.around
  BY DEF Trail
<1>2. Levels(h, sensitive, at.value)[n] # {}
  BY <1>1, CyclesDoNotEnd
<1> QED BY <1>2 DEF Agrees, Fits, Raised

(* A dict with a key that is no string. *)
LEMMA MixedAgrees ==
  ASSUME NEW h, NEW sensitive, NEW value, value[1] = "ref", h[value[2]].shape = "mixed",
         NEW n \in Nat, n <= MaxDepth
  PROVE  Agrees(h, sensitive, value, n + 1, Canonical(Unsupported, {}))
<1>1. Kids(h, sensitive, value) = {}
  BY DEF Kids, Shown
<1>2. Seen(h, sensitive, value, n + 1) = {value}
  BY <1>1, SeenShift
<1>3. Fits(h, sensitive, value, n + 1)
  BY <1>1, FitsShift
<1>4. RemovedBelow(h, sensitive, {value}) = {}
  <2>1. Hidden(h, sensitive, value[2]) = {}
    BY DEF Hidden
  <2> QED BY <2>1, InRemovedBelow
<1>5. Inside(Unsupported, n + 1) = {Unsupported}
  BY InsideLeaf DEF Unsupported, Text
<1>6. TextsAmong({Unsupported}) \ Marks = {} /\ TextsAmong({value}) = {}
  BY DEF TextsAmong, Marks
<1>7. n + 1 <= MaxDepth => Nested(Unsupported)[n + 1] = {}
  BY NestedLeaf DEF Unsupported, Text
<1> QED BY <1>2, <1>3, <1>4, <1>5, <1>6, <1>7 DEF Agrees, Canonical

(* The parts of what a container becomes: one for each of its items. *)
LEMMA WholeParts ==
  ASSUME NEW object, NEW parts, DOMAIN parts = DOMAIN object.items,
         object.shape # "list" =>
           \A i, j \in DOMAIN object.items : object.items[i].name = object.items[j].name => i = j,
         NEW x
  PROVE  /\ Whole(object, parts)[1] \in {"array", "object"}
         /\ x \in Parts(Whole(object, parts)) <=> \E i \in DOMAIN parts : x = parts[i].value
<1>1. CASE object.shape = "list"
  <2>1. Whole(object, parts) = <<"array", [i \in DOMAIN parts |-> parts[i].value]>>
    BY <1>1 DEF Whole
  <2>2. Parts(Whole(object, parts)) = Range([i \in DOMAIN parts |-> parts[i].value])
    BY <2>1 DEF Parts
  <2>3. x \in Range([i \in DOMAIN parts |-> parts[i].value]) <=>
          \E i \in DOMAIN parts : x = parts[i].value
    BY DEF Range
  <2> QED BY <2>1, <2>2, <2>3
<1>2. CASE object.shape # "list"
  <2> DEFINE names == {object.items[i].name : i \in DOMAIN parts}
             place(name) == CHOOSE i \in DOMAIN parts : object.items[i].name = name
             fields == [name \in names |-> parts[place(name)].value]
  <2>1. Whole(object, parts) = <<"object", fields>>
    BY <1>2 DEF Whole
  <2>2. Parts(Whole(object, parts)) = Range(fields)
    BY <2>1 DEF Parts
  <2>3. \A i \in DOMAIN parts : place(object.items[i].name) = i
    BY <1>2
  <2>4. \A i \in DOMAIN parts :
          object.items[i].name \in names /\ fields[object.items[i].name] = parts[i].value
    BY <2>3
  <2>5. \A name \in names : \E i \in DOMAIN parts : fields[name] = parts[i].value
    <3> TAKE name \in names
    <3>1. PICK i \in DOMAIN parts : object.items[i].name = name
      OBVIOUS
    <3> HIDE DEF fields, names
    <3>2. fields[name] = parts[i].value
      BY <2>4, <3>1
    <3> QED BY <3>2
  <2>6. DOMAIN fields = names
    OBVIOUS
  <2> HIDE DEF fields
  <2>7. x \in Range(fields) <=> \E i \in DOMAIN parts : x = parts[i].value
    BY <2>4, <2>5, <2>6 DEF Range
  <2> QED BY <2>1, <2>2, <2>7
<1> QED BY <1>1, <1>2

(* A container: it agrees where its items do. *)
LEMMA ContainerAgrees ==
  ASSUME NEW h, IsHeap(h), NEW sensitive, NEW value, IsValue(value), value[1] = "ref",
         h[value[2]].shape # "mixed", NEW n \in Nat, n <= MaxDepth,
         NEW parts, DOMAIN parts = DOMAIN h[value[2]].items,
         \A i \in DOMAIN parts :
           LET item == h[value[2]].items[i]
           IN  IF Hides(h[value[2]], item, sensitive)
               THEN parts[i] = Canonical(Redacted, Scrubbable(item.value))
               ELSE Agrees(h, sensitive, item.value, n, parts[i])
  PROVE  Agrees(h, sensitive, value, n + 1, Assembled(h[value[2]], parts))
<1> DEFINE object == h[value[2]]
           items == object.items
           hidden(i) == Hides(object, items[i], sensitive)
           kids == Kids(h, sensitive, value)
           result == Assembled(object, parts)
           seen == Seen(h, sensitive, value, n + 1)
<1>1. /\ object.shape \in {"named", "list"}
      /\ object.shape # "list" =>
           \A i, j \in DOMAIN items : items[i].name = items[j].name => i = j
  <2>1. value[2] \in Objects /\ h[value[2]] \in Contents[value[2]]
    BY DEF IsValue, IsHeap
  <2> QED BY <2>1, ContentsAssumption
<1>2. /\ \A c : c \in kids <=> \E i \in DOMAIN parts : ~hidden(i) /\ c = items[i].value
      /\ \A v : v \in Hidden(h, sensitive, value[2]) <=>
                \E i \in DOMAIN parts : hidden(i) /\ v = items[i].value
  <2>1. CASE object.shape = "list"
    BY <2>1 DEF Kids, Shown, Hidden, Hides
  <2>2. CASE object.shape = "named"
    BY <2>2 DEF Kids, Shown, Hidden, Hides
  <2> QED BY <1>1, <2>1, <2>2
<1>3. /\ \A i \in DOMAIN parts : hidden(i) =>
           parts[i].ok /\ parts[i].value = Redacted /\ parts[i].kept = Scrubbable(items[i].value)
      /\ \A i \in DOMAIN parts : ~hidden(i) => Agrees(h, sensitive, items[i].value, n, parts[i])
  <2>1. ASSUME NEW i \in DOMAIN parts, hidden(i)
        PROVE  /\ parts[i].ok /\ parts[i].value = Redacted
               /\ parts[i].kept = Scrubbable(items[i].value)
    <3>1. parts[i] = Canonical(Redacted, Scrubbable(items[i].value))
      BY <2>1
    <3> QED BY <3>1 DEF Canonical
  <2>2. ASSUME NEW i \in DOMAIN parts, ~hidden(i)
        PROVE  Agrees(h, sensitive, items[i].value, n, parts[i])
    BY <2>2
  <2> QED BY <2>1, <2>2
<1>4. value # <<"nan">>
  OBVIOUS
<1> HIDE DEF hidden, kids
<1>5. (\A i \in DOMAIN parts : parts[i].ok) <=> Fits(h, sensitive, value, n + 1)
  <2>1. Fits(h, sensitive, value, n + 1) <=> \A c \in kids : Fits(h, sensitive, c, n)
    BY <1>4, FitsShift DEF kids
  <2>2. \A i \in DOMAIN parts : ~hidden(i) =>
          (parts[i].ok <=> Fits(h, sensitive, items[i].value, n))
    BY <1>3 DEF Agrees
  <2> QED BY <1>2, <1>3, <2>1, <2>2
<1>6. CASE ~ \A i \in DOMAIN parts : parts[i].ok
  <2>1. result = Raised
    BY <1>6 DEF Assembled
  <2> QED BY <1>5, <1>6, <2>1 DEF Agrees, Raised
<1>7. CASE \A i \in DOMAIN parts : parts[i].ok
  <2>1. /\ result.ok /\ result.value = Whole(object, parts)
        /\ result.kept = UNION {parts[i].kept : i \in DOMAIN parts}
    BY <1>7 DEF Assembled, Canonical
  <2>2. \A x : x \in seen <=> x = value \/ \E c \in kids : x \in Seen(h, sensitive, c, n)
    BY SeenShift DEF kids
  <2>3. \A i \in DOMAIN parts : ~hidden(i) =>
          /\ TextsAmong(Inside(parts[i].value, n)) \ Marks
               = TextsAmong(Seen(h, sensitive, items[i].value, n)) \ Marks
          /\ parts[i].kept = RemovedBelow(h, sensitive, Seen(h, sensitive, items[i].value, n))
    BY <1>3, <1>7 DEF Agrees
  <2> HIDE DEF seen, result
  <2>4. \A t : t \in result.kept <=> t \in RemovedBelow(h, sensitive, seen)
    <3> TAKE t
    <3>1. t \in result.kept <=> \E i \in DOMAIN parts : t \in parts[i].kept
      BY <2>1
    <3>2. t \in RemovedBelow(h, sensitive, seen) <=>
            \/ \E v \in Hidden(h, sensitive, value[2]) : t \in Scrubbable(v)
            \/ \E c \in kids : t \in RemovedBelow(h, sensitive, Seen(h, sensitive, c, n))
      BY <2>2, InRemovedBelow
    <3> QED BY <1>2, <1>3, <2>3, <3>1, <3>2
  <2>5. \A t : t \notin Marks =>
          (t \in TextsAmong(Inside(result.value, n + 1)) <=> t \in TextsAmong(seen))
    <3> SUFFICES ASSUME NEW t, t \notin Marks
                 PROVE  t \in TextsAmong(Inside(result.value, n + 1)) <=> t \in TextsAmong(seen)
      OBVIOUS
    <3>1. /\ result.value[1] # "text"
          /\ \A x : x \in Parts(result.value) <=> \E i \in DOMAIN parts : x = parts[i].value
      BY <1>1, <2>1, WholeParts
    <3>2. \A x : x \in Inside(result.value, n + 1) <=>
                   x = result.value \/ \E i \in DOMAIN parts : x \in Inside(parts[i].value, n)
      BY <3>1, InsideShift
    <3>3. t \in TextsAmong(Inside(result.value, n + 1)) <=>
            \E i \in DOMAIN parts : t \in TextsAmong(Inside(parts[i].value, n))
      BY <3>1, <3>2, InTextsAmong
    <3>4. t \in TextsAmong(seen) <=> \E c \in kids : t \in TextsAmong(Seen(h, sensitive, c, n))
      BY <2>2, InTextsAmong
    <3>5. \A i \in DOMAIN parts : hidden(i) => t \notin TextsAmong(Inside(parts[i].value, n))
      <4>1. Inside(Redacted, n) \subseteq {Redacted}
        BY InsideLeaf DEF Redacted, Text
      <4>2. t \notin TextsAmong(Inside(Redacted, n))
        BY <4>1, InTextsAmong DEF Marks
      <4> QED BY <1>3, <4>2
    <3>6. \A i \in DOMAIN parts : ~hidden(i) =>
            (t \in TextsAmong(Inside(parts[i].value, n)) <=>
               t \in TextsAmong(Seen(h, sensitive, items[i].value, n)))
      BY <2>3
    <3> QED BY <1>2, <3>3, <3>4, <3>5, <3>6
  <2>6. /\ TextsAmong(Inside(result.value, n + 1)) \ Marks = TextsAmong(seen) \ Marks
        /\ result.kept = RemovedBelow(h, sensitive, seen)
    BY <2>4, <2>5
  <2>7. n + 1 <= MaxDepth => Nested(result.value)[n + 1] \subseteq {Redacted}
    <3> SUFFICES ASSUME n + 1 <= MaxDepth, NEW x \in Nested(result.value)[n + 1]
                 PROVE  x = Redacted
      OBVIOUS
    <3>1. n < MaxDepth
      BY DepthType
    <3>2. PICK c \in Parts(result.value) : x \in Nested(c)[n]
      BY <3>1, NestedShift
    <3>3. PICK i \in DOMAIN parts : c = parts[i].value
      BY <1>1, <2>1, WholeParts
    <3>4. Nested(Redacted)[n] \subseteq {Redacted}
      BY NestedLeaf DEF Redacted, Text
    <3>5. CASE hidden(i)
      BY <1>3, <3>2, <3>3, <3>4, <3>5
    <3>6. CASE ~hidden(i)
      BY <1>3, <1>7, <3>2, <3>3, <3>6 DEF Agrees
    <3> QED BY <3>5, <3>6
  <2> QED BY <1>5, <1>7, <2>1, <2>6, <2>7 DEF Agrees, seen, result
<1> QED BY <1>6, <1>7

(* The trail is kept on the way down: what a container shows leads on from it. *)
LEMMA TrailGoesOn ==
  ASSUME NEW h, IsHeap(h), NEW value, IsValue(value), NEW sensitive,
         NEW at \in Visits(h, value), at.value[1] = "ref", at.value[2] \notin at.around,
         NEW i \in DOMAIN h[at.value[2]].items, h[at.value[2]].shape # "mixed",
         ~Hides(h[at.value[2]], h[at.value[2]].items[i], sensitive),
         Trail(h, sensitive, at)
  PROVE  Trail(h, sensitive, Child(h, at, i))
<1> DEFINE o == at.value[2]
           object == h[o]
           child == Child(h, at, i)
<1>1. /\ child.value = object.items[i].value
      /\ child.around = at.around \cup {o}
  BY DEF Child
<1>2. object.shape \in {"named", "list"}
  <2>1. IsValue(at.value)
    BY VisitType, ValuesAreValues
  <2>2. o \in Objects /\ h[o] \in Contents[o]
    BY <2>1 DEF IsValue, IsHeap
  <2> QED BY <2>2, ContentsAssumption
<1>3. child.value \in Shown(h, sensitive, o)
  <2>1. CASE object.shape = "list"
    BY <1>1, <2>1 DEF Shown
  <2>2. CASE object.shape = "named"
    BY <1>1, <2>2 DEF Shown, Hides
  <2> QED BY <1>2, <2>1, <2>2
<1>4. ASSUME NEW p \in at.around
      PROVE  \E w \in Shown(h, sensitive, p) :
               w = child.value \/ (w[1] = "ref" /\ w[2] \in child.around)
  <2>1. PICK w \in Shown(h, sensitive, p) :
          w = at.value \/ (w[1] = "ref" /\ w[2] \in at.around)
    BY DEF Trail
  <2>2. w[1] = "ref" /\ w[2] \in child.around
    BY <1>1, <2>1
  <2> QED BY <2>2
<1> HIDE DEF child
<1>5. \A p \in child.around : \E w \in Shown(h, sensitive, p) :
        w = child.value \/ (w[1] = "ref" /\ w[2] \in child.around)
  BY <1>1, <1>3, <1>4
<1> QED BY <1>5 DEF Trail, child

(* By induction on the depth that is left.  A walk starts with nothing around
   it, which is a trail. *)
LEMMA WalkAgrees ==
  ASSUME NEW h, IsHeap(h), NEW value, IsValue(value), NEW sensitive,
         NEW walk, Walks(walk, h, sensitive, value),
         NEW top \in Visits(h, value), Trail(h, sensitive, top)
  PROVE  Agrees(h, sensitive, top.value, MaxDepth + 1 - top.depth, walk[top])
<1> DEFINE V == Visits(h, value)
           S == {n \in Nat : \A at \in V : at.depth + n = MaxDepth + 1 /\ Trail(h, sensitive, at)
                               => Agrees(h, sensitive, at.value, n, walk[at])}
<1>1. 0 \in S
  <2> SUFFICES ASSUME NEW at \in V, at.depth + 0 = MaxDepth + 1
               PROVE  Agrees(h, sensitive, at.value, 0, walk[at])
    OBVIOUS
  <2>1. walk[at] = Raised
    BY DeepWalk, VisitType, DepthType
  <2>2. Levels(h, sensitive, at.value)[0] # {}
    BY LevelsAre
  <2> QED BY <2>1, <2>2 DEF Agrees, Fits, Raised
<1>2. ASSUME NEW n \in Nat, n \in S PROVE n + 1 \in S
  <2> SUFFICES ASSUME NEW at \in V, at.depth + (n + 1) = MaxDepth + 1, Trail(h, sensitive, at)
               PROVE  Agrees(h, sensitive, at.value, n + 1, walk[at])
    OBVIOUS
  <2>1. /\ at.depth <= MaxDepth /\ IsValue(at.value)
        /\ (at.depth + 1) + n = MaxDepth + 1 /\ n <= MaxDepth
    BY VisitType, ValuesAreValues, DepthType
  <2>2. \A v \in V : v.depth = at.depth + 1 /\ Trail(h, sensitive, v)
                       => Agrees(h, sensitive, v.value, n, walk[v])
    BY <1>2, <2>1
  <2> HIDE DEF S
  <2>3. CASE at.value[1] # "ref"
    <3>1. walk[at] = IF at.value = <<"nan">> THEN Raised
                     ELSE IF at.value = <<"opaque">> THEN Canonical(Unsupported, {})
                     ELSE Canonical(at.value, {})
      BY <2>1, <2>3, LeafWalk
    <3> QED BY <2>1, <2>3, <3>1, LeafAgrees
  <2>4. CASE at.value[1] = "ref" /\ at.value[2] \in at.around
    <3>1. walk[at] = Raised
      BY <2>1, <2>4, ContainerWalk
    <3>2. n + 1 \in Nat /\ n + 1 <= MaxDepth + 1
      BY <2>1, DepthType
    <3>3. Agrees(h, sensitive, at.value, n + 1, Raised)
      BY <2>4, <3>2, CycleAgrees
    <3> QED BY <3>1, <3>3
  <2>5. CASE at.value[1] = "ref" /\ at.value[2] \notin at.around
               /\ h[at.value[2]].shape = "mixed"
    <3>1. walk[at] = Canonical(Unsupported, {})
      BY <2>1, <2>5, ContainerWalk
    <3> QED BY <2>1, <2>5, <3>1, MixedAgrees
  <2>6. CASE at.value[1] = "ref" /\ at.value[2] \notin at.around
               /\ h[at.value[2]].shape # "mixed"
    <3> DEFINE object == h[at.value[2]]
               all == Walked(h, sensitive, at, walk)
    <3>1. walk[at] = Assembled(object, all)
      BY <2>1, <2>6, ContainerWalk
    <3>2. DOMAIN all = DOMAIN object.items
      BY DEF Walked
    <3>3. ASSUME NEW i \in DOMAIN object.items, Hides(object, object.items[i], sensitive)
          PROVE  all[i] = Canonical(Redacted, Scrubbable(object.items[i].value))
      BY <3>3 DEF Walked
    <3>4. ASSUME NEW i \in DOMAIN object.items, ~Hides(object, object.items[i], sensitive)
          PROVE  Agrees(h, sensitive, object.items[i].value, n, all[i])
      <4>1. all[i] = walk[Child(h, at, i)]
        BY <3>4 DEF Walked
      <4>2. Child(h, at, i) \in V /\ Child(h, at, i).depth = at.depth + 1
        BY <2>1, <2>6, ChildVisit
      <4>3. Trail(h, sensitive, Child(h, at, i))
        BY <2>6, <3>4, TrailGoesOn
      <4>4. Child(h, at, i).value = object.items[i].value
        BY DEF Child
      <4>5. Agrees(h, sensitive, Child(h, at, i).value, n, walk[Child(h, at, i)])
        BY <2>2, <4>2, <4>3
      <4> QED BY <4>1, <4>4, <4>5
    <3> HIDE DEF all
    <3>5. \A i \in DOMAIN all :
            LET item == h[at.value[2]].items[i]
            IN  IF Hides(h[at.value[2]], item, sensitive)
                THEN all[i] = Canonical(Redacted, Scrubbable(item.value))
                ELSE Agrees(h, sensitive, item.value, n, all[i])
      BY <3>2, <3>3, <3>4
    <3>6. Agrees(h, sensitive, at.value, n + 1, Assembled(h[at.value[2]], all))
      BY <2>1, <2>6, <3>2, <3>5, ContainerAgrees
    <3> QED BY <3>1, <3>6
  <2> QED BY <2>3, <2>4, <2>5, <2>6
<1> HIDE DEF S
<1>3. MaxDepth + 1 - top.depth \in S
  BY <1>1, <1>2, Induct, VisitType, DepthType
<1>4. top.depth + (MaxDepth + 1 - top.depth) = MaxDepth + 1
  BY VisitType, DepthType
<1> QED BY <1>3, <1>4 DEF S

(* The traversal that comes to a value at the given depth, with nothing around
   it: 0 for a result or metadata, 1 for an argument. *)
LEMMA WalkIsExact ==
  ASSUME NEW h, IsHeap(h), NEW value, IsValue(value), NEW sensitive, NEW depth \in {0, 1},
         NEW result, result = Walk(h, sensitive, value, depth),
         NEW visible, visible = VisibleAt(h, sensitive, value, depth)
  PROVE  /\ result.ok <=> Canonicalizable(h, sensitive, value, depth)
         /\ result.ok =>
              /\ TextsOf(result.value) \ Marks = TextsAmong(visible) \ Marks
              /\ result.kept = RemovedBelow(h, sensitive, visible)
<1> DEFINE n == MaxDepth + 1 - depth
<1>1. PICK top : top = [value |-> value, depth |-> depth, around |-> {}]
  OBVIOUS
<1>2. PICK walk : Walks(walk, h, sensitive, value) /\ result = walk[top]
  BY <1>1, WalkIs
<1>3. top \in Visits(h, value) /\ Trail(h, sensitive, top)
  BY <1>1, DepthType DEF Visits, Values, Trail
<1>4. Agrees(h, sensitive, top.value, MaxDepth + 1 - top.depth, walk[top])
  BY <1>2, <1>3, WalkAgrees
<1>5. top.value = value /\ top.depth = depth
  BY <1>1
<1>6. Agrees(h, sensitive, value, n, result)
  BY <1>2, <1>4, <1>5
<1>7. visible = Seen(h, sensitive, value, n)
  BY DEF VisibleAt, Seen
<1>8. Canonicalizable(h, sensitive, value, depth) <=> Fits(h, sensitive, value, n)
  BY <1>7 DEF Canonicalizable, Fits
<1>9. result.ok => TextsOf(result.value) \ Marks = TextsAmong(Inside(result.value, n)) \ Marks
  <2> SUFFICES ASSUME result.ok
               PROVE  TextsOf(result.value) \ Marks = TextsAmong(Inside(result.value, n)) \ Marks
    OBVIOUS
  <2> DEFINE all == UNION {Nested(result.value)[d] : d \in 0..MaxDepth}
  <2>1. Inside(result.value, n) \subseteq all
    BY DEF Inside
  <2>2. \A x \in all : x \in Inside(result.value, n) \/ x = Redacted
    <3> TAKE x \in all
    <3>1. PICK d \in 0..MaxDepth : x \in Nested(result.value)[d]
      OBVIOUS
    <3>2. CASE d < n
      BY <3>1, <3>2 DEF Inside
    <3>3. CASE ~(d < n)
      <4>1. d = n /\ n <= MaxDepth
        BY <3>3, DepthType
      <4>2. Nested(result.value)[n] \subseteq {Redacted}
        BY <1>6, <4>1 DEF Agrees
      <4> QED BY <3>1, <4>1, <4>2
    <3> QED BY <3>2, <3>3
  <2>3. TextsOf(result.value) = TextsAmong(all)
    BY DEF TextsOf, TextsAmong
  <2> HIDE DEF all
  <2>4. \A t : t \notin Marks => (t \in TextsAmong(all) <=> t \in TextsAmong(Inside(result.value, n)))
    BY <2>1, <2>2, InTextsAmong DEF Marks
  <2> QED BY <2>3, <2>4
<1> HIDE DEF n
<1> QED BY <1>6, <1>7, <1>8, <1>9 DEF Agrees

(***************************************************************************)
(* canonical.py, _walk: whatever objects the threads have made by then,    *)
(* shared and cyclic ones included, and however deep they are, the         *)
(* traversal raises exactly on what is cyclic, too deep or not finite      *)
(* along visible names; otherwise its result shows the texts that can be   *)
(* reached by visible names and no other, and what is remembered for       *)
(* scrubbing are the texts it hid.  Depth is counted from a result itself, *)
(* and from the dict around the arguments.                                 *)
(***************************************************************************)
THEOREM TraversalIsExact ==
  ASSUME AbsentIsNoData
  PROVE  Spec => []WalkShowsTheVisible
<1> USE DEF ShowsTheVisible
<1>1. ASSUME CallInv, NEW o \in Objects
      PROVE  ShowsTheVisible(Canonicalize(heap, callee.sensitive, <<"ref", o>>), <<"ref", o>>, 0)
  <2>1. IsHeap(heap) /\ IsValue(<<"ref", o>>)
    BY <1>1 DEF CallInv, TypeOK, IsHeap, IsValue
  <2> QED BY <2>1, WalkIsExact, SMTT(30) DEF Canonicalize, TextsAmong, RemovedBelow, Marks
<1>2. ASSUME CallInv, NEW n \in DOMAIN args, ~IsSensitive(n, callee.sensitive)
      PROVE  ShowsTheVisible(Entry(heap, callee.sensitive, [name |-> n, value |-> args[n]]),
                             args[n], 1)
  <2>1. IsHeap(heap) /\ IsValue(args[n])
    BY <1>2 DEF CallInv, TypeOK, ArgumentsInv, IsHeap
  <2>2. Entry(heap, callee.sensitive, [name |-> n, value |-> args[n]])
          = Walk(heap, callee.sensitive, args[n], 1)
    BY <1>2 DEF Entry
  <2> QED BY <2>1, <2>2, WalkIsExact DEF TextsAmong, RemovedBelow, Marks
<1>3. CallInv => WalkShowsTheVisible
  BY <1>1, <1>2 DEF WalkShowsTheVisible
<1> QED BY <1>3, CallInvariance, PTL

-----------------------------------------------------------------------------
(* str.replace: every suffix of the text has its replacement. *)

Marker == <<"<REDACTED>">>

Tails(text) == 1..(Len(text) + 1)

Replacement(from, text, raw, i) ==
  IF i > Len(text) THEN <<>>
  ELSE IF OccursAt(text, raw, i) THEN Redacted[2] \o from[i + Len(raw)]
  ELSE <<text[i]>> \o from[i + 1]

Replaces(from, text, raw) == from = [i \in Tails(text) |-> Replacement(from, text, raw, i)]

(* A value that is searched for. *)
IsRaw(raw) == IsText(raw) /\ raw # <<>>

LEMMA RawLength ==
  ASSUME NEW raw, IsRaw(raw)
  PROVE  Len(raw) \in Nat /\ Len(raw) >= 1 /\ DOMAIN raw = 1..Len(raw)
BY DEF IsRaw, IsText

LEMMA OccursInside ==
  ASSUME NEW text, IsText(text), NEW raw, IsRaw(raw), NEW i \in Tails(text),
         OccursAt(text, raw, i)
  PROVE  i + Len(raw) \in Tails(text) /\ i + Len(raw) > i
<1>1. Len(raw) \in DOMAIN raw /\ Len(raw) \in Nat /\ Len(raw) >= 1
  BY RawLength
<1>2. i + Len(raw) - 1 \in DOMAIN text
  BY <1>1 DEF OccursAt
<1>3. Len(text) \in Nat /\ DOMAIN text = 1..Len(text)
  BY DEF IsText
<1> QED BY <1>1, <1>2, <1>3 DEF Tails

LEMMA ReplacementLocal ==
  ASSUME NEW text, IsText(text), NEW raw, IsRaw(raw), NEW i \in Tails(text), NEW f, NEW g,
         \A j \in Tails(text) : j > i => f[j] = g[j]
  PROVE  Replacement(f, text, raw, i) = Replacement(g, text, raw, i)
<1>1. Len(text) \in Nat
  BY DEF IsText
<1>2. CASE i > Len(text)
  BY <1>2 DEF Replacement
<1>3. CASE ~(i > Len(text))
  <2>1. i + 1 \in Tails(text) /\ i + 1 > i
    BY <1>1, <1>3 DEF Tails
  <2>2. OccursAt(text, raw, i) => i + Len(raw) \in Tails(text) /\ i + Len(raw) > i
    BY OccursInside
  <2>3. f[i + 1] = g[i + 1] /\ (OccursAt(text, raw, i) => f[i + Len(raw)] = g[i + Len(raw)])
    BY <2>1, <2>2
  <2> QED BY <1>3, <2>3 DEF Replacement
<1> QED BY <1>2, <1>3

LEMMA ReplaceExists ==
  ASSUME NEW text, IsText(text), NEW raw, IsRaw(raw)
  PROVE  \E from : Replaces(from, text, raw)
<1> DEFINE D == Tails(text)
           Late(f, n) == f = [i \in D |-> IF i + n > Len(text) + 1
                                          THEN Replacement(f, text, raw, i) ELSE <<>>]
           S == {n \in Nat : \E f : Late(f, n)}
<1>0. Len(text) \in Nat
  BY DEF IsText
<1>1. 0 \in S
  <2> DEFINE f == [i \in D |-> <<>>]
  <2>1. \A i \in D : ~(i + 0 > Len(text) + 1)
    BY <1>0 DEF Tails
  <2>2. Late(f, 0)
    BY <2>1
  <2> QED BY <2>2
<1>2. ASSUME NEW n \in Nat, n \in S PROVE n + 1 \in S
  <2>1. PICK f : Late(f, n)
    BY <1>2
  <2> DEFINE g == [i \in D |-> IF i + (n + 1) > Len(text) + 1
                               THEN Replacement(f, text, raw, i) ELSE <<>>]
  <2>2. \A j \in D : j + n > Len(text) + 1 => f[j] = g[j]
    <3> SUFFICES ASSUME NEW j \in D, j + n > Len(text) + 1 PROVE f[j] = g[j]
      OBVIOUS
    <3>1. j \in Nat /\ j + (n + 1) > Len(text) + 1
      BY <1>0 DEF Tails
    <3>2. f[j] = Replacement(f, text, raw, j)
      BY <2>1
    <3> QED BY <3>1, <3>2
  <2>3. \A i \in D : i + (n + 1) > Len(text) + 1 =>
          Replacement(f, text, raw, i) = Replacement(g, text, raw, i)
    <3> SUFFICES ASSUME NEW i \in D, i + (n + 1) > Len(text) + 1
                 PROVE  Replacement(f, text, raw, i) = Replacement(g, text, raw, i)
      OBVIOUS
    <3>1. \A j \in D : j > i => j + n > Len(text) + 1
      BY <1>0 DEF Tails
    <3>2. \A j \in D : j > i => f[j] = g[j]
      BY <2>2, <3>1
    <3> HIDE DEF g
    <3> QED BY <3>2, ReplacementLocal
  <2>4. g = [i \in D |-> IF i + (n + 1) > Len(text) + 1
                         THEN Replacement(f, text, raw, i) ELSE <<>>]
    OBVIOUS
  <2> HIDE DEF g
  <2>5. Late(g, n + 1)
    BY <2>3, <2>4
  <2> QED BY <2>5
<1> HIDE DEF S
<1>3. Len(text) + 1 \in S
  BY <1>0, <1>1, <1>2, Induct
<1>4. PICK from : Late(from, Len(text) + 1)
  BY <1>3 DEF S
<1>5. \A i \in D : i + (Len(text) + 1) > Len(text) + 1
  BY <1>0 DEF Tails
<1>6. Replaces(from, text, raw)
  BY <1>4, <1>5 DEF Replaces
<1> QED BY <1>6

LEMMA ReplaceIs ==
  ASSUME NEW text, IsText(text), NEW raw, IsRaw(raw)
  PROVE  \E from : Replaces(from, text, raw) /\ Replace(text, raw) = from[1]
<1> DEFINE f == CHOOSE from : Replaces(from, text, raw)
<1>1. Replaces(f, text, raw)
  BY ReplaceExists
<1>2. Replace(text, raw) = f[1]
  BY DEF Replace, Replaces, Replacement, Tails
<1> QED BY <1>1, <1>2

LEMMA Backward ==
  ASSUME NEW n \in Nat, NEW S,
         \A i \in 1..(n + 1) : (\A j \in 1..(n + 1) : j > i => j \in S) => i \in S
  PROVE  1..(n + 1) \subseteq S
<1> DEFINE L == {m \in Nat : \A i \in 1..(n + 1) : i + m > n + 1 => i \in S}
<1>1. 0 \in L
  OBVIOUS
<1>2. ASSUME NEW m \in Nat, m \in L PROVE m + 1 \in L
  <2> SUFFICES ASSUME NEW i \in 1..(n + 1), i + (m + 1) > n + 1 PROVE i \in S
    OBVIOUS
  <2>1. \A j \in 1..(n + 1) : j > i => j + m > n + 1
    OBVIOUS
  <2>2. \A j \in 1..(n + 1) : j > i => j \in S
    BY <1>2, <2>1
  <2> QED BY <2>2
<1> HIDE DEF L
<1>3. n + 1 \in L
  BY <1>1, <1>2, Induct
<1> QED BY <1>3 DEF L

LEMMA ConcatType ==
  ASSUME NEW S, NEW s \in Seq(S), NEW t \in Seq(S)
  PROVE  s \o t \in Seq(S)
OBVIOUS

LEMMA ConsFacts ==
  ASSUME NEW S, NEW s \in Seq(S), NEW head, NEW t, t = <<head>> \o s
  PROVE  /\ Len(t) = Len(s) + 1 /\ Len(s) \in Nat
         /\ t[1] = head
         /\ \A l \in 1..Len(s) : t[l + 1] = s[l]
         /\ DOMAIN t = 1..Len(t) /\ DOMAIN s = 1..Len(s)
OBVIOUS

(* The cases of a suffix's replacement. *)
SuffixCases(from, text, raw, i) ==
  /\ i \notin DOMAIN text => from[i] = <<>>
  /\ i \in DOMAIN text /\ OccursAt(text, raw, i) =>
       /\ from[i] = Marker \o from[i + Len(raw)]
       /\ i + Len(raw) \in Tails(text) /\ i + Len(raw) > i
  /\ i \in DOMAIN text /\ ~OccursAt(text, raw, i) =>
       /\ from[i] = <<text[i]>> \o from[i + 1]
       /\ i + 1 \in Tails(text) /\ i + 1 > i

LEMMA ReplacementCases ==
  ASSUME NEW text, IsText(text), NEW raw, IsRaw(raw), NEW from, Replaces(from, text, raw)
  PROVE  \A i \in Tails(text) : SuffixCases(from, text, raw, i)
<1> SUFFICES ASSUME NEW i \in Tails(text) PROVE SuffixCases(from, text, raw, i)
  OBVIOUS
<1>1. from[i] = Replacement(from, text, raw, i)
  BY DEF Replaces
<1>2. Len(text) \in Nat /\ DOMAIN text = 1..Len(text)
  BY DEF IsText
<1>3. Redacted[2] = Marker
  BY DEF Redacted, Text, Marker
<1> QED BY <1>1, <1>2, <1>3, OccursInside DEF Replacement, Tails, SuffixCases

LEMMA FromType ==
  ASSUME NEW text, IsText(text), NEW raw, IsRaw(raw), NEW from, Replaces(from, text, raw)
  PROVE  \A i \in Tails(text) : from[i] \in Seq(Range(text) \cup Range(Marker))
<1> DEFINE Symbols == Range(text) \cup Range(Marker)
           S == {i \in Tails(text) : from[i] \in Seq(Symbols)}
<1>0. \A h \in Tails(text) : SuffixCases(from, text, raw, h)
  BY ReplacementCases
<1>1. Len(text) \in Nat /\ DOMAIN text = 1..Len(text)
  BY DEF IsText
<1>2. Marker \in Seq(Symbols)
  BY DEF Marker, Range
<1>3. \A i \in DOMAIN text : <<text[i]>> \in Seq(Symbols)
  BY DEF Range
<1>4. ASSUME NEW i \in Tails(text), \A j \in Tails(text) : j > i => j \in S PROVE i \in S
  <2> HIDE DEF Symbols
  <2>1. CASE i \notin DOMAIN text
    <3>1. from[i] = <<>>
      BY <1>0, <2>1 DEF SuffixCases
    <3> QED BY <3>1, EmptySeq
  <2>2. CASE i \in DOMAIN text /\ OccursAt(text, raw, i)
    <3>1. /\ i + Len(raw) \in Tails(text) /\ i + Len(raw) > i
          /\ from[i] = Marker \o from[i + Len(raw)]
      BY <1>0, <2>2 DEF SuffixCases
    <3>2. from[i + Len(raw)] \in Seq(Symbols)
      BY <1>4, <3>1
    <3> QED BY <1>2, <3>1, <3>2, ConcatType
  <2>3. CASE i \in DOMAIN text /\ ~OccursAt(text, raw, i)
    <3>1. /\ i + 1 \in Tails(text) /\ i + 1 > i
          /\ from[i] = <<text[i]>> \o from[i + 1]
      BY <1>0, <2>3 DEF SuffixCases
    <3>2. i \in DOMAIN text
      BY <1>1, <2>3 DEF Tails
    <3>3. from[i + 1] \in Seq(Symbols) /\ <<text[i]>> \in Seq(Symbols)
      BY <1>3, <1>4, <3>1, <3>2
    <3> QED BY <3>1, <3>3, ConcatType
  <2> QED BY <1>1, <2>1, <2>2, <2>3 DEF Tails
<1> HIDE DEF S
<1>5. Tails(text) \subseteq S
  BY <1>1, <1>4, Backward DEF Tails
<1> QED BY <1>5 DEF S

(* Up to the first marker the replacement is the text. *)
LEMMA UpToTheMarker ==
  ASSUME NEW text, IsText(text), NEW raw, IsRaw(raw), NEW from, Replaces(from, text, raw),
         NEW i \in Tails(text), NEW k \in 1..Len(from[i]),
         \A l \in 1..k : from[i][l] # Marker[1]
  PROVE  i + k - 1 \in DOMAIN text /\ text[i + k - 1] = from[i][k]
<1> DEFINE UpTo(j) ==
             \A m \in 1..Len(from[j]) : (\A l \in 1..m : from[j][l] # Marker[1]) =>
               j + m - 1 \in DOMAIN text /\ text[j + m - 1] = from[j][m]
           S == {j \in Tails(text) : UpTo(j)}
           Symbols == Range(text) \cup Range(Marker)
<1>0. \A h \in Tails(text) : SuffixCases(from, text, raw, h)
  BY ReplacementCases
<1>1. Len(text) \in Nat /\ DOMAIN text = 1..Len(text)
  BY DEF IsText
<1>2. \A j \in Tails(text) : from[j] \in Seq(Symbols)
  BY FromType
<1> HIDE DEF Symbols
<1>3. ASSUME NEW j \in Tails(text), \A h \in Tails(text) : h > j => h \in S PROVE j \in S
  <2> SUFFICES ASSUME NEW m \in 1..Len(from[j]), \A l \in 1..m : from[j][l] # Marker[1]
               PROVE  j + m - 1 \in DOMAIN text /\ text[j + m - 1] = from[j][m]
    OBVIOUS
  <2>1. CASE j \notin DOMAIN text
    <3>1. from[j] = <<>>
      BY <1>0, <2>1 DEF SuffixCases
    <3> QED BY <3>1
  <2>2. CASE j \in DOMAIN text /\ OccursAt(text, raw, j)
    <3>1. /\ j + Len(raw) \in Tails(text)
          /\ from[j] = Marker \o from[j + Len(raw)]
      BY <1>0, <2>2 DEF SuffixCases
    <3>2. from[j + Len(raw)] \in Seq(Symbols) /\ from[j] = <<Marker[1]>> \o from[j + Len(raw)]
      BY <1>2, <3>1 DEF Marker
    <3>4. from[j][1] = Marker[1]
      BY <3>2, ConsFacts
    <3>3. 1 \in 1..m
      BY <1>2
    <3> QED BY <3>4, <3>3
  <2>3. CASE j \in DOMAIN text /\ ~OccursAt(text, raw, j)
    <3>1. /\ from[j + 1] \in Seq(Symbols) /\ from[j] = <<text[j]>> \o from[j + 1]
          /\ j + 1 \in Tails(text) /\ j + 1 > j
      <4>1. /\ from[j] = <<text[j]>> \o from[j + 1]
            /\ j + 1 \in Tails(text) /\ j + 1 > j
        BY <1>0, <2>3 DEF SuffixCases
      <4> QED BY <1>2, <4>1
    <3>2. /\ Len(from[j]) = Len(from[j + 1]) + 1 /\ Len(from[j + 1]) \in Nat
          /\ from[j][1] = text[j]
          /\ \A l \in 1..Len(from[j + 1]) : from[j][l + 1] = from[j + 1][l]
      <4> DEFINE later == from[j + 1]
      <4>1. later \in Seq(Symbols) /\ from[j] = <<text[j]>> \o later
        BY <3>1
      <4> HIDE DEF later
      <4>2. /\ Len(from[j]) = Len(later) + 1 /\ Len(later) \in Nat
            /\ from[j][1] = text[j]
            /\ \A l \in 1..Len(later) : from[j][l + 1] = later[l]
        BY <4>1, ConsFacts
      <4> QED BY <4>2 DEF later
    <3>3. j \in DOMAIN text /\ j \in Nat
      BY <1>1, <2>3 DEF Tails
    <3>4. CASE m = 1
      BY <3>2, <3>3, <3>4
    <3>5. CASE m # 1
      <4>1. m - 1 \in 1..Len(from[j + 1]) /\ (m - 1) + 1 = m
        BY <3>2, <3>5
      <4>2. \A l \in 1..(m - 1) : l \in 1..Len(from[j + 1]) /\ l + 1 \in 1..m
        BY <3>2, <4>1
      <4>3. \A l \in 1..(m - 1) : from[j + 1][l] # Marker[1]
        BY <3>2, <4>2
      <4>4. UpTo(j + 1)
        BY <1>3, <3>1
      <4>5. /\ (j + 1) + (m - 1) - 1 \in DOMAIN text
            /\ text[(j + 1) + (m - 1) - 1] = from[j + 1][m - 1]
        BY <4>1, <4>3, <4>4
      <4>6. (j + 1) + (m - 1) - 1 = j + m - 1
        BY <3>3, <4>1
      <4> QED BY <3>2, <4>1, <4>5, <4>6
    <3> QED BY <3>4, <3>5
  <2> QED BY <1>1, <2>1, <2>2, <2>3 DEF Tails
<1> HIDE DEF S
<1>4. Tails(text) \subseteq S
  BY <1>1, <1>3, Backward DEF Tails
<1> QED BY <1>4 DEF S

IsMarked(v) == Marker[1] \in Range(v)

(* What has no marker in it and is in the replacement was in the text, where
   nothing was replaced. *)
LEMMA NothingAppears ==
  ASSUME NEW text, IsText(text), NEW raw, IsRaw(raw), NEW from, Replaces(from, text, raw),
         NEW v, IsRaw(v), ~IsMarked(v), NEW i \in Tails(text),
         NEW p \in Nat \ {0}, OccursAt(from[i], v, p)
  PROVE  \E j \in DOMAIN text : OccursAt(text, v, j) /\ ~OccursAt(text, raw, j)
<1> DEFINE Found == \E j \in DOMAIN text : OccursAt(text, v, j) /\ ~OccursAt(text, raw, j)
           S == {j \in Tails(text) : (\E q \in Nat \ {0} : OccursAt(from[j], v, q)) => Found}
           Symbols == Range(text) \cup Range(Marker)
<1>0. \A h \in Tails(text) : SuffixCases(from, text, raw, h)
  BY ReplacementCases
<1>1. Len(text) \in Nat /\ DOMAIN text = 1..Len(text)
  BY DEF IsText
<1>2. \A j \in Tails(text) : from[j] \in Seq(Symbols)
  BY FromType
<1>3. Len(v) \in Nat /\ Len(v) >= 1 /\ DOMAIN v = 1..Len(v)
  BY RawLength
<1>4. \A k \in DOMAIN v : v[k] # Marker[1]
  BY DEF IsMarked, Range
<1> HIDE DEF Symbols
<1>5. ASSUME NEW j \in Tails(text), \A h \in Tails(text) : h > j => h \in S PROVE j \in S
  <2> SUFFICES ASSUME NEW q \in Nat \ {0}, OccursAt(from[j], v, q) PROVE Found
    OBVIOUS
  <2>0. \A k \in 1..Len(v) : q + k - 1 \in DOMAIN from[j] /\ from[j][q + k - 1] = v[k]
    BY <1>3 DEF OccursAt
  <2>1. CASE j \notin DOMAIN text
    <3>1. from[j] = <<>>
      BY <1>0, <2>1 DEF SuffixCases
    <3> QED BY <1>3, <2>0, <3>1
  <2>2. CASE j \in DOMAIN text
    <3> DEFINE Goes(head, h) == /\ from[j] = <<head>> \o from[h] /\ h > j
                                /\ ~OccursAt(text, raw, j) \/ head = Marker[1]
    <3>0. \E h \in Tails(text) : \E head : Goes(head, h)
      <4>1. CASE OccursAt(text, raw, j)
        <5>1. /\ from[j] = <<Marker[1]>> \o from[j + Len(raw)]
              /\ j + Len(raw) \in Tails(text) /\ j + Len(raw) > j
          BY <1>0, <2>2, <4>1 DEF SuffixCases, Marker
        <5>2. Goes(Marker[1], j + Len(raw))
          BY <5>1
        <5> QED BY <5>1, <5>2
      <4>2. CASE ~OccursAt(text, raw, j)
        <5>1. /\ from[j] = <<text[j]>> \o from[j + 1]
              /\ j + 1 \in Tails(text) /\ j + 1 > j
          BY <1>0, <2>2, <4>2 DEF SuffixCases
        <5>2. Goes(text[j], j + 1)
          BY <4>2, <5>1
        <5> QED BY <5>1, <5>2
      <4> QED BY <4>1, <4>2
    <3>1. PICK h \in Tails(text) : \E head : Goes(head, h)
      BY <3>0
    <3>2. PICK head : Goes(head, h)
      BY <3>1
    <3>4. from[h] \in Seq(Symbols) /\ from[j] \in Seq(Symbols)
      BY <1>2
    <3>3. /\ Len(from[j]) = Len(from[h]) + 1 /\ Len(from[h]) \in Nat
          /\ from[j][1] = head
          /\ \A l \in 1..Len(from[h]) : from[j][l + 1] = from[h][l]
          /\ DOMAIN from[j] = 1..Len(from[j]) /\ DOMAIN from[h] = 1..Len(from[h])
      <4> DEFINE later == from[h]
                 whole == from[j]
      <4>1. later \in Seq(Symbols) /\ whole = <<head>> \o later
        BY <3>2, <3>4
      <4> HIDE DEF later, whole
      <4>2. /\ Len(whole) = Len(later) + 1 /\ Len(later) \in Nat
            /\ whole[1] = head
            /\ \A l \in 1..Len(later) : whole[l + 1] = later[l]
            /\ DOMAIN whole = 1..Len(whole) /\ DOMAIN later = 1..Len(later)
        BY <4>1, ConsFacts
      <4> QED BY <4>2 DEF later, whole
    <3>5. CASE q # 1
      <4>1. q - 1 \in Nat \ {0}
        BY <3>5
      <4>2. ASSUME NEW k \in 1..Len(v)
            PROVE  (q - 1) + k - 1 \in DOMAIN from[h] /\ from[h][(q - 1) + k - 1] = v[k]
        <5>1. q + k - 1 \in 1..Len(from[j]) /\ from[j][q + k - 1] = v[k]
          BY <2>0, <3>3
        <5>2. (q - 1) + k - 1 \in 1..Len(from[h]) /\ ((q - 1) + k - 1) + 1 = q + k - 1
          BY <3>3, <3>5, <5>1
        <5> QED BY <3>3, <5>1, <5>2
      <4>3. OccursAt(from[h], v, q - 1)
        BY <1>3, <4>2 DEF OccursAt
      <4>4. h \in S
        BY <1>5, <3>2
      <4> QED BY <4>1, <4>3, <4>4
    <3>6. CASE q = 1
      <4>1. \A k \in 1..Len(v) : k \in 1..Len(from[j]) /\ from[j][k] = v[k]
        <5>1. \A k \in 1..Len(v) : q + k - 1 = k
          BY <3>6
        <5> QED BY <2>0, <3>3, <5>1
      <4>2. \A k \in 1..Len(v) : j + k - 1 \in DOMAIN text /\ text[j + k - 1] = v[k]
        <5> SUFFICES ASSUME NEW k \in 1..Len(v)
                     PROVE  j + k - 1 \in DOMAIN text /\ text[j + k - 1] = v[k]
          OBVIOUS
        <5>1. \A l \in 1..k : l \in 1..Len(v)
          BY <1>3
        <5>2. \A l \in 1..k : from[j][l] # Marker[1]
          BY <1>3, <1>4, <4>1, <5>1
        <5> QED BY <4>1, <5>2, UpToTheMarker
      <4>3. OccursAt(text, v, j)
        BY <1>3, <4>2 DEF OccursAt
      <4>4. 1 \in 1..Len(v) /\ head # Marker[1]
        BY <1>3, <1>4, <3>3, <4>1
      <4>5. j \in DOMAIN text
        BY <1>1, <2>2 DEF Tails
      <4> QED BY <3>2, <4>3, <4>4, <4>5
    <3> QED BY <3>5, <3>6
  <2> QED BY <1>1, <2>1, <2>2 DEF Tails
<1> HIDE DEF S
<1>6. Tails(text) \subseteq S
  BY <1>1, <1>5, Backward DEF Tails
<1> QED BY <1>6 DEF S

Occurs(text, v) == \E j \in DOMAIN text : OccursAt(text, v, j)

LEMMA ReplaceFacts ==
  ASSUME NEW text, IsText(text), NEW raw, IsRaw(raw)
  PROVE  /\ IsText(Replace(text, raw))
         /\ Range(Replace(text, raw)) \subseteq Range(text) \cup Range(Marker)
         /\ \A v : IsRaw(v) /\ ~IsMarked(v) /\ Occurs(Replace(text, raw), v) =>
              Occurs(text, v) /\ v # raw
<1> DEFINE result == Replace(text, raw)
           Symbols == Range(text) \cup Range(Marker)
<1>1. PICK from : Replaces(from, text, raw) /\ result = from[1]
  BY ReplaceIs
<1>2. Len(text) \in Nat /\ DOMAIN text = 1..Len(text)
  BY DEF IsText
<1>3. 1 \in Tails(text)
  BY <1>2 DEF Tails
<1>4. result \in Seq(Symbols)
  BY <1>1, <1>3, FromType
<1> HIDE DEF result
<1>5. IsText(result) /\ Range(result) \subseteq Symbols
  <2> HIDE DEF Symbols
  <2>1. /\ result = [i \in 1..Len(result) |-> result[i]] /\ Len(result) \in Nat
        /\ DOMAIN result = 1..Len(result) /\ \A i \in 1..Len(result) : result[i] \in Symbols
    BY <1>4
  <2>2. result \in [1..Len(result) -> Range(result)]
    BY <2>1 DEF Range
  <2>3. result \in Seq(Range(result))
    BY <2>1, <2>2
  <2> QED BY <2>1, <2>3 DEF IsText, Range
<1>6. ASSUME NEW v, IsRaw(v), ~IsMarked(v), Occurs(result, v)
      PROVE  Occurs(text, v) /\ v # raw
  <2>1. PICK p \in DOMAIN result : OccursAt(result, v, p)
    BY <1>6 DEF Occurs
  <2>2. p \in Nat \ {0}
    BY <1>4
  <2>3. OccursAt(from[1], v, p)
    BY <1>1, <2>1
  <2>4. \E j \in DOMAIN text : OccursAt(text, v, j) /\ ~OccursAt(text, raw, j)
    BY <1>1, <1>3, <1>6, <2>2, <2>3, NothingAppears
  <2> QED BY <2>4 DEF Occurs
<1> QED BY <1>5, <1>6 DEF result

(* Texts that have the same symbols. *)
LEMMA SameText ==
  ASSUME NEW S, NEW s \in Seq(S), NEW T, NEW t \in Seq(T), Len(s) = Len(t),
         \A k \in 1..Len(s) : s[k] = t[k]
  PROVE  s = t
<1>1. s = [k \in 1..Len(s) |-> s[k]] /\ t = [k \in 1..Len(t) |-> t[k]]
  OBVIOUS
<1> QED BY <1>1

LEMMA ReplaceAbsent ==
  ASSUME NEW text, IsText(text), NEW raw, IsRaw(raw), ~Occurs(text, raw)
  PROVE  Replace(text, raw) = text
<1>1. PICK from : Replaces(from, text, raw) /\ Replace(text, raw) = from[1]
  BY ReplaceIs
<1>2. Len(text) \in Nat /\ DOMAIN text = 1..Len(text) /\ text \in Seq(Range(text))
  BY DEF IsText
<1> DEFINE Symbols == Range(text) \cup Range(Marker)
           Rest(i) == /\ Len(from[i]) = Len(text) + 1 - i
                      /\ \A k \in 1..Len(from[i]) : from[i][k] = text[i + k - 1]
           S == {i \in Tails(text) : Rest(i)}
<1>3. \A i \in Tails(text) : from[i] \in Seq(Symbols)
  BY <1>1, FromType
<1>4. \A h \in Tails(text) : SuffixCases(from, text, raw, h)
  BY <1>1, ReplacementCases
<1> HIDE DEF Symbols
<1>5. ASSUME NEW i \in Tails(text), \A j \in Tails(text) : j > i => j \in S PROVE i \in S
  <2>1. CASE i \notin DOMAIN text
    <3>1. from[i] = <<>>
      BY <1>4, <2>1 DEF SuffixCases
    <3>2. i = Len(text) + 1
      BY <1>2, <2>1 DEF Tails
    <3> QED BY <1>2, <3>1, <3>2
  <2>2. CASE i \in DOMAIN text
    <3>1. ~OccursAt(text, raw, i)
      BY <2>2 DEF Occurs
    <3>2. /\ from[i] = <<text[i]>> \o from[i + 1]
          /\ i + 1 \in Tails(text) /\ i + 1 > i
      BY <1>4, <2>2, <3>1 DEF SuffixCases
    <3>3. Rest(i + 1)
      BY <1>5, <3>2
    <3> DEFINE later == from[i + 1]
               whole == from[i]
    <3>4. later \in Seq(Symbols) /\ whole = <<text[i]>> \o later
      BY <1>3, <3>2
    <3>5. Len(later) = Len(text) + 1 - (i + 1) /\ \A k \in 1..Len(later) : later[k] = text[i + 1 + k - 1]
      BY <3>3
    <3> HIDE DEF later, whole
    <3>6. /\ Len(whole) = Len(later) + 1 /\ Len(later) \in Nat
          /\ whole[1] = text[i]
          /\ \A l \in 1..Len(later) : whole[l + 1] = later[l]
      BY <3>4, ConsFacts
    <3>7. i \in Nat
      BY <1>2, <2>2
    <3>8. Len(whole) = Len(text) + 1 - i
      BY <1>2, <3>5, <3>6, <3>7
    <3>9. ASSUME NEW k \in 1..Len(whole) PROVE whole[k] = text[i + k - 1]
      <4>1. CASE k = 1
        BY <3>6, <3>7, <4>1
      <4>2. CASE k # 1
        <5>1. k - 1 \in 1..Len(later) /\ (k - 1) + 1 = k
          BY <3>6, <4>2
        <5>2. i + 1 + (k - 1) - 1 = i + k - 1
          BY <3>7, <5>1
        <5> QED BY <3>5, <3>6, <5>1, <5>2
      <4> QED BY <4>1, <4>2
    <3>10. Rest(i)
      BY <3>8, <3>9 DEF whole
    <3> QED BY <3>10
  <2> QED BY <2>1, <2>2
<1> HIDE DEF S
<1>6. Tails(text) \subseteq S
  BY <1>2, <1>5, Backward DEF Tails
<1>7. 1 \in Tails(text)
  BY <1>2 DEF Tails
<1>8. Rest(1) /\ from[1] \in Seq(Symbols)
  BY <1>3, <1>6, <1>7 DEF S
<1> DEFINE result == Replace(text, raw)
<1>9. result \in Seq(Symbols) /\ Len(result) = Len(text) + 1 - 1
      /\ \A k \in 1..Len(result) : result[k] = text[1 + k - 1]
  BY <1>1, <1>8
<1> HIDE DEF result
<1>10. Len(result) = Len(text) /\ \A k \in 1..Len(result) : result[k] = text[k]
  BY <1>2, <1>9
<1>11. result = text
  BY <1>2, <1>9, <1>10, SameText
<1> QED BY <1>11 DEF result

LEMMA ReplaceEmpty ==
  ASSUME NEW raw, IsRaw(raw)
  PROVE  Replace(<<>>, raw) = <<>>
<1>1. IsText(<<>>) /\ ~Occurs(<<>>, raw)
  BY DEF IsText, Occurs
<1> QED BY <1>1, ReplaceAbsent

LEMMA ReplaceWhole ==
  ASSUME NEW raw, IsRaw(raw)
  PROVE  Replace(raw, raw) = Marker
<1>1. IsText(raw) /\ Len(raw) \in Nat /\ Len(raw) >= 1 /\ DOMAIN raw = 1..Len(raw)
  BY RawLength DEF IsRaw
<1>2. PICK from : Replaces(from, raw, raw) /\ Replace(raw, raw) = from[1]
  BY <1>1, ReplaceIs
<1>3. \A i \in Tails(raw) : SuffixCases(from, raw, raw, i)
  BY <1>1, <1>2, ReplacementCases
<1>4. OccursAt(raw, raw, 1)
  BY <1>1 DEF OccursAt
<1>5. 1 \in Tails(raw) /\ 1 \in DOMAIN raw
  BY <1>1 DEF Tails
<1>6. from[1] = Marker \o from[1 + Len(raw)] /\ 1 + Len(raw) \in Tails(raw)
  BY <1>3, <1>4, <1>5 DEF SuffixCases
<1>7. 1 + Len(raw) \notin DOMAIN raw
  BY <1>1
<1>8. from[1 + Len(raw)] = <<>>
  BY <1>3, <1>6, <1>7 DEF SuffixCases
<1>9. Marker \o <<>> = Marker
  BY DEF Marker
<1> QED BY <1>2, <1>6, <1>8, <1>9

(* Two texts apart by a symbol that is not searched for. *)
Apart(x, s, y) == x \o <<s>> \o y

LEMMA ApartFacts ==
  ASSUME NEW x, IsText(x), NEW s, NEW y, IsText(y)
  PROVE  /\ IsText(Apart(x, s, y))
         /\ Len(x) \in Nat /\ Len(y) \in Nat
         /\ DOMAIN x = 1..Len(x) /\ DOMAIN y = 1..Len(y)
         /\ Len(Apart(x, s, y)) = Len(x) + 1 + Len(y)
         /\ DOMAIN Apart(x, s, y) = 1..(Len(x) + 1 + Len(y))
         /\ \A j \in 1..Len(x) : Apart(x, s, y)[j] = x[j]
         /\ Apart(x, s, y)[Len(x) + 1] = s
         /\ \A j \in 1..Len(y) : Apart(x, s, y)[Len(x) + 1 + j] = y[j]
         /\ Range(Apart(x, s, y)) \subseteq Range(x) \cup {s} \cup Range(y)
<1> DEFINE S == Range(x) \cup {s} \cup Range(y)
           t == Apart(x, s, y)
<1>1. x \in Seq(S) /\ y \in Seq(S) /\ <<s>> \in Seq(S)
  <2>1. x \in Seq(Range(x)) /\ y \in Seq(Range(y))
    BY DEF IsText
  <2>2. Range(x) \subseteq S /\ Range(y) \subseteq S /\ s \in S
    OBVIOUS
  <2> HIDE DEF S
  <2> QED BY <2>1, <2>2
<1> HIDE DEF S
<1>2. /\ Len(t) = Len(x) + 1 + Len(y) /\ t \in Seq(S)
      /\ \A j \in 1..Len(x) : t[j] = x[j]
      /\ t[Len(x) + 1] = s
      /\ \A j \in 1..Len(y) : t[Len(x) + 1 + j] = y[j]
  BY <1>1 DEF Apart
<1>3. /\ Len(x) \in Nat /\ Len(y) \in Nat /\ Len(t) \in Nat
      /\ DOMAIN x = 1..Len(x) /\ DOMAIN y = 1..Len(y) /\ DOMAIN t = 1..Len(t)
  BY <1>1, <1>2
<1> HIDE DEF t
<1>4. t = [j \in 1..Len(t) |-> t[j]] /\ \A j \in 1..Len(t) : t[j] \in S
  BY <1>2
<1>5. t \in [1..Len(t) -> Range(t)]
  BY <1>3, <1>4 DEF Range
<1>6. IsText(t)
  BY <1>3, <1>5 DEF IsText
<1>7. Range(t) \subseteq S
  BY <1>3, <1>4 DEF Range
<1> QED BY <1>2, <1>3, <1>6, <1>7 DEF t, S

LEMMA OccursApart ==
  ASSUME NEW x, IsText(x), NEW s, NEW y, IsText(y), NEW raw, IsRaw(raw), s \notin Range(raw),
         NEW i \in DOMAIN Apart(x, s, y)
  PROVE  OccursAt(Apart(x, s, y), raw, i) <=>
           \/ i <= Len(x) /\ OccursAt(x, raw, i)
           \/ i > Len(x) + 1 /\ OccursAt(y, raw, i - (Len(x) + 1))
<1> DEFINE t == Apart(x, s, y)
           n == Len(x)
<1>1. Len(raw) \in Nat /\ Len(raw) >= 1 /\ DOMAIN raw = 1..Len(raw)
      /\ \A k \in 1..Len(raw) : raw[k] # s
  BY RawLength DEF Range
<1>2. /\ n \in Nat /\ Len(y) \in Nat
      /\ DOMAIN x = 1..n /\ DOMAIN y = 1..Len(y) /\ DOMAIN t = 1..(n + 1 + Len(y))
      /\ \A j \in 1..n : t[j] = x[j]
      /\ t[n + 1] = s
      /\ \A j \in 1..Len(y) : t[n + 1 + j] = y[j]
  BY ApartFacts
<1> HIDE DEF t, n
<1>3. i \in Nat /\ i >= 1 /\ i <= n + 1 + Len(y)
  BY <1>2 DEF t
<1>4. ASSUME OccursAt(t, raw, i), i <= n PROVE OccursAt(x, raw, i)
  <2>1. \A k \in 1..Len(raw) : i + k - 1 \in 1..(n + 1 + Len(y)) /\ t[i + k - 1] = raw[k]
    BY <1>1, <1>2, <1>4 DEF OccursAt
  <2>2. i + Len(raw) - 1 <= n
    <3> SUFFICES ASSUME i + Len(raw) - 1 > n PROVE FALSE
      BY <1>1, <1>2, <1>3
    <3>1. n + 2 - i \in 1..Len(raw) /\ i + (n + 2 - i) - 1 = n + 1
      BY <1>1, <1>2, <1>3, <1>4
    <3> QED BY <1>1, <1>2, <2>1, <3>1
  <2>3. \A k \in 1..Len(raw) : i + k - 1 \in 1..n
    BY <1>1, <1>2, <1>3, <2>2
  <2> QED BY <1>1, <1>2, <2>1, <2>3 DEF OccursAt
<1>5. ASSUME OccursAt(x, raw, i) PROVE OccursAt(t, raw, i)
  <2>1. \A k \in 1..Len(raw) : i + k - 1 \in 1..n /\ x[i + k - 1] = raw[k]
    BY <1>1, <1>2, <1>5 DEF OccursAt
  <2>2. \A j \in 1..n : j \in DOMAIN t /\ t[j] = x[j]
    BY <1>2
  <2>3. \A k \in 1..Len(raw) : i + k - 1 \in DOMAIN t /\ t[i + k - 1] = raw[k]
    BY <2>1, <2>2
  <2> QED BY <1>1, <2>3 DEF OccursAt
<1>6. i # n + 1 \/ ~OccursAt(t, raw, i)
  <2> SUFFICES ASSUME i = n + 1, OccursAt(t, raw, i) PROVE FALSE
    OBVIOUS
  <2>1. 1 \in DOMAIN raw /\ i + 1 - 1 = n + 1
    BY <1>1, <1>3
  <2>2. t[n + 1] = raw[1]
    BY <2>1 DEF OccursAt
  <2> QED BY <1>1, <1>2, <2>1, <2>2
<1>7. ASSUME i > n + 1
      PROVE  OccursAt(t, raw, i) <=> OccursAt(y, raw, i - (n + 1))
  <2>1. ASSUME NEW k \in 1..Len(raw)
        PROVE  /\ i + k - 1 \in 1..(n + 1 + Len(y)) <=> (i - (n + 1)) + k - 1 \in 1..Len(y)
               /\ (i - (n + 1)) + k - 1 \in 1..Len(y) =>
                    t[i + k - 1] = y[(i - (n + 1)) + k - 1]
    <3>1. k \in Nat /\ k >= 1
      BY <1>1
    <3>2. i + k - 1 = n + 1 + ((i - (n + 1)) + k - 1)
      BY <1>2, <1>3, <3>1
    <3> QED BY <1>2, <1>3, <1>7, <3>1, <3>2
  <2> QED BY <1>1, <1>2, <2>1 DEF OccursAt
<1> QED BY <1>2, <1>3, <1>4, <1>5, <1>6, <1>7 DEF t, n

LEMMA SeqOfLarger ==
  ASSUME NEW S, NEW T, S \subseteq T, NEW s \in Seq(S)
  PROVE  s \in Seq(T)
OBVIOUS

LEMMA Regrouped ==
  ASSUME NEW S, NEW a \in Seq(S), NEW b \in Seq(S), NEW c \in Seq(S), NEW d, NEW e, NEW f,
         f = a \o d, d = b \o c, e = a \o b
  PROVE  f = e \o c
BY SMTT(30)

LEMMA ReplaceApart ==
  ASSUME NEW x, IsText(x), NEW s, NEW y, IsText(y), NEW raw, IsRaw(raw), s \notin Range(raw)
  PROVE  Replace(Apart(x, s, y), raw) = Apart(Replace(x, raw), s, Replace(y, raw))
<1> DEFINE t == Apart(x, s, y)
           n == Len(x)
           S == Range(t) \cup Range(x) \cup Range(y) \cup Range(Marker) \cup {s}
<1>1. /\ IsText(t) /\ n \in Nat /\ Len(y) \in Nat /\ Len(t) = n + 1 + Len(y)
      /\ DOMAIN x = 1..n /\ DOMAIN y = 1..Len(y) /\ DOMAIN t = 1..(n + 1 + Len(y))
      /\ \A j \in 1..n : t[j] = x[j]
      /\ t[n + 1] = s
      /\ \A j \in 1..Len(y) : t[n + 1 + j] = y[j]
  BY ApartFacts
<1>2. \A i \in DOMAIN t : OccursAt(t, raw, i) <=>
           \/ i <= n /\ OccursAt(x, raw, i)
           \/ i > n + 1 /\ OccursAt(y, raw, i - (n + 1))
  BY OccursApart
<1> HIDE DEF t, n, S
<1>3. PICK f : Replaces(f, t, raw) /\ Replace(t, raw) = f[1]
  BY <1>1, ReplaceIs
<1>4. PICK g : Replaces(g, x, raw) /\ Replace(x, raw) = g[1]
  BY ReplaceIs
<1>5. PICK h : Replaces(h, y, raw) /\ Replace(y, raw) = h[1]
  BY ReplaceIs
<1>6. /\ \A i \in Tails(t) : SuffixCases(f, t, raw, i)
      /\ \A i \in Tails(x) : SuffixCases(g, x, raw, i)
      /\ \A i \in Tails(y) : SuffixCases(h, y, raw, i)
  BY <1>1, <1>3, <1>4, <1>5, ReplacementCases
<1>7. /\ Tails(t) = 1..(n + 1 + Len(y) + 1)
      /\ Tails(x) = 1..(n + 1) /\ Tails(y) = 1..(Len(y) + 1)
  BY <1>1 DEF Tails, n
<1>8. /\ \A i \in Tails(t) : f[i] \in Seq(S)
      /\ \A i \in Tails(x) : g[i] \in Seq(S)
      /\ \A i \in Tails(y) : h[i] \in Seq(S)
  <2>1. /\ \A i \in Tails(t) : f[i] \in Seq(Range(t) \cup Range(Marker))
        /\ \A i \in Tails(x) : g[i] \in Seq(Range(x) \cup Range(Marker))
        /\ \A i \in Tails(y) : h[i] \in Seq(Range(y) \cup Range(Marker))
    BY <1>1, <1>3, <1>4, <1>5, FromType
  <2>2. /\ Range(t) \cup Range(Marker) \subseteq S /\ Range(x) \cup Range(Marker) \subseteq S
        /\ Range(y) \cup Range(Marker) \subseteq S
    BY DEF S
  <2> QED BY <2>1, <2>2, SeqOfLarger
<1>9. <<s>> \in Seq(S) /\ Marker \in Seq(S) /\ \A i \in DOMAIN t : <<t[i]>> \in Seq(S)
  BY DEF S, Range, Marker
<1>10. Len(raw) \in Nat /\ Len(raw) >= 1
  BY RawLength
(* After the symbol the replacement is that of y, before it that of both. *)
<1> DEFINE Second(i) == i > n + 1 => f[i] = h[i - (n + 1)]
           First(i)  == i <= n + 1 => f[i] = g[i] \o (<<s>> \o h[1])
           Holds == {i \in Tails(t) : Second(i) /\ First(i)}
<1>11. 1 \in Tails(y) /\ h[1] \in Seq(S) /\ <<s>> \o h[1] \in Seq(S)
  BY <1>1, <1>7, <1>8, <1>9
<1>12. ASSUME NEW i \in Tails(t), \A j \in Tails(t) : j > i => j \in Holds PROVE i \in Holds
  <2>1. ASSUME i > n + 1 PROVE f[i] = h[i - (n + 1)]
    <3> DEFINE j == i - (n + 1)
    <3>0. i \in Nat /\ i <= n + 1 + Len(y) + 1
      BY <1>1, <1>7
    <3>1. j \in Tails(y) /\ i = j + (n + 1) /\ (i \in DOMAIN t <=> j \in DOMAIN y)
      <4>1. j \in 1..(Len(y) + 1) /\ i = j + (n + 1)
        BY <1>1, <2>1, <3>0
      <4>2. i \in 1..(n + 1 + Len(y)) <=> j \in 1..Len(y)
        BY <1>1, <2>1, <3>0
      <4> QED BY <1>1, <1>7, <4>1, <4>2
    <3>2. CASE i \notin DOMAIN t
      BY <1>6, <3>1, <3>2 DEF SuffixCases
    <3>3. CASE i \in DOMAIN t /\ OccursAt(t, raw, i)
      <4>1. OccursAt(y, raw, j)
        BY <1>1, <1>2, <2>1, <3>3
      <4>2. /\ f[i] = Marker \o f[i + Len(raw)]
            /\ i + Len(raw) \in Tails(t) /\ i + Len(raw) > i
        BY <1>6, <3>3 DEF SuffixCases
      <4>3. h[j] = Marker \o h[j + Len(raw)]
        BY <1>6, <3>1, <3>3, <4>1 DEF SuffixCases
      <4>4. i + Len(raw) > n + 1 /\ (i + Len(raw)) - (n + 1) = j + Len(raw)
        BY <1>1, <1>7, <1>10, <2>1
      <4>5. f[i + Len(raw)] = h[j + Len(raw)]
        BY <1>12, <4>2, <4>4
      <4> QED BY <4>2, <4>3, <4>5
    <3>4. CASE i \in DOMAIN t /\ ~OccursAt(t, raw, i)
      <4>1. ~OccursAt(y, raw, j)
        BY <1>1, <1>2, <2>1, <3>4
      <4>2. /\ f[i] = <<t[i]>> \o f[i + 1] /\ i + 1 \in Tails(t) /\ i + 1 > i
        BY <1>6, <3>4 DEF SuffixCases
      <4>3. h[j] = <<y[j]>> \o h[j + 1]
        BY <1>6, <3>1, <3>4, <4>1 DEF SuffixCases
      <4>4. i + 1 > n + 1 /\ (i + 1) - (n + 1) = j + 1
        BY <1>1, <1>7, <2>1
      <4>7. Second(i + 1)
        BY <1>12, <4>2
      <4>5. f[i + 1] = h[(i + 1) - (n + 1)]
        BY <4>4, <4>7
      <4>6. t[i] = y[j]
        <5>1. j \in 1..Len(y) /\ n + 1 + j = i
          BY <1>1, <1>7, <3>1, <3>4
        <5> QED BY <1>1, <5>1
      <4> QED BY <4>2, <4>3, <4>4, <4>5, <4>6
    <3> QED BY <3>2, <3>3, <3>4
  <2>2. ASSUME i <= n + 1 PROVE f[i] = g[i] \o (<<s>> \o h[1])
    <3>1. i \in Tails(x) /\ i \in DOMAIN t /\ g[i] \in Seq(S)
      BY <1>1, <1>7, <1>8, <2>2
    <3>2. CASE i = n + 1
      <4>1. ~OccursAt(t, raw, i) /\ i \notin DOMAIN x
        BY <1>1, <1>2, <3>1, <3>2
      <4>2. f[i] = <<t[i]>> \o f[i + 1] /\ i + 1 \in Tails(t) /\ i + 1 > i
        BY <1>6, <3>1, <4>1 DEF SuffixCases
      <4>3. g[i] = <<>>
        BY <1>6, <3>1, <4>1 DEF SuffixCases
      <4>4. i + 1 > n + 1 /\ (i + 1) - (n + 1) = 1
        BY <1>1, <3>2
      <4>5. f[i + 1] = h[1]
        BY <1>12, <4>2, <4>4
      <4>6. <<>> \o (<<s>> \o h[1]) = <<s>> \o h[1]
        BY <1>11
      <4> QED BY <1>1, <3>2, <4>2, <4>3, <4>5, <4>6
    <3>3. CASE i <= n /\ OccursAt(t, raw, i)
      <4>1. OccursAt(x, raw, i) /\ i \in DOMAIN x
        BY <1>1, <1>2, <1>7, <3>1, <3>3
      <4>2. /\ f[i] = Marker \o f[i + Len(raw)]
            /\ i + Len(raw) \in Tails(t) /\ i + Len(raw) > i
        BY <1>6, <3>1, <3>3 DEF SuffixCases
      <4>3. g[i] = Marker \o g[i + Len(raw)] /\ i + Len(raw) \in Tails(x)
        BY <1>6, <3>1, <4>1 DEF SuffixCases
      <4>4. i + Len(raw) <= n + 1
        BY <1>7, <4>3
      <4>5. f[i + Len(raw)] = g[i + Len(raw)] \o (<<s>> \o h[1])
        BY <1>12, <4>2, <4>4
      <4>6. g[i + Len(raw)] \in Seq(S)
        BY <1>8, <4>3
      <4> DEFINE a == Marker
                 b == g[i + Len(raw)]
                 c == <<s>> \o h[1]
                 d == f[i + Len(raw)]
      <4>7. /\ a \in Seq(S) /\ b \in Seq(S) /\ c \in Seq(S)
            /\ f[i] = a \o d /\ d = b \o c /\ g[i] = a \o b
        BY <1>9, <1>11, <4>2, <4>3, <4>5, <4>6
      <4> HIDE DEF a, b, c, d
      <4>8. f[i] = g[i] \o c
        BY <4>7, Regrouped
      <4> QED BY <4>8 DEF c
    <3>4. CASE i <= n /\ ~OccursAt(t, raw, i)
      <4>1. ~OccursAt(x, raw, i) /\ i \in DOMAIN x
        BY <1>1, <1>2, <1>7, <3>1, <3>4
      <4>2. /\ f[i] = <<t[i]>> \o f[i + 1] /\ i + 1 \in Tails(t) /\ i + 1 > i
        BY <1>6, <3>1, <3>4 DEF SuffixCases
      <4>3. g[i] = <<x[i]>> \o g[i + 1] /\ i + 1 \in Tails(x)
        BY <1>6, <3>1, <4>1 DEF SuffixCases
      <4>4. i + 1 <= n + 1
        BY <1>7, <4>3
      <4>5. f[i + 1] = g[i + 1] \o (<<s>> \o h[1])
        BY <1>12, <4>2, <4>4
      <4>6. g[i + 1] \in Seq(S) /\ <<t[i]>> \in Seq(S) /\ t[i] = x[i]
        BY <1>1, <1>8, <1>9, <3>1, <4>1, <4>3
      <4> DEFINE a == <<t[i]>>
                 b == g[i + 1]
                 c == <<s>> \o h[1]
                 d == f[i + 1]
      <4>7. /\ a \in Seq(S) /\ b \in Seq(S) /\ c \in Seq(S)
            /\ f[i] = a \o d /\ d = b \o c /\ g[i] = a \o b
        BY <1>11, <4>2, <4>3, <4>5, <4>6
      <4> HIDE DEF a, b, c, d
      <4>8. f[i] = g[i] \o c
        BY <4>7, Regrouped
      <4> QED BY <4>8 DEF c
    <3>5. i = n + 1 \/ i <= n
      BY <1>1, <1>7, <2>2
    <3> QED BY <3>2, <3>3, <3>4, <3>5
  <2> QED BY <2>1, <2>2
<1> HIDE DEF Holds
<1>13. Tails(t) \subseteq Holds
  <2>1. n + 1 + Len(y) \in Nat
    BY <1>1
  <2> QED BY <1>7, <1>12, <2>1, Backward
<1>14. 1 \in Tails(t) /\ 1 <= n + 1 /\ 1 \in Tails(x)
  BY <1>1, <1>7
<1>15. f[1] = g[1] \o (<<s>> \o h[1])
  BY <1>13, <1>14 DEF Holds
<1>16. g[1] \o (<<s>> \o h[1]) = g[1] \o <<s>> \o h[1]
  <2> DEFINE a == g[1]
             b == h[1]
             c == <<s>>
  <2>1. a \in Seq(S) /\ b \in Seq(S) /\ c \in Seq(S)
    BY <1>8, <1>9, <1>11, <1>14
  <2> HIDE DEF a, b, c
  <2>2. a \o (c \o b) = a \o c \o b
    BY <2>1, ConcatAssociative, SMTT(30)
  <2> QED BY <2>2 DEF a, b, c
<1> QED BY <1>3, <1>4, <1>5, <1>15, <1>16 DEF Apart, t

(* scrub_text: the text after each of the values was replaced. *)
IsOrder(order) ==
  /\ Len(order) \in Nat /\ DOMAIN order = 1..Len(order)
  /\ \A j \in DOMAIN order : IsRaw(order[j])

Scrubs(pass, text, order) ==
  pass = [i \in 0..Len(order) |-> IF i = 0 THEN text ELSE Replace(pass[i - 1], order[i])]

LEMMA PassExists ==
  ASSUME NEW text, NEW order, Len(order) \in Nat
  PROVE  \E pass : Scrubs(pass, text, order)
<1> DEFINE Early(f, n) ==
             f = [i \in 0..Len(order) |-> IF i = 0 THEN text
                                          ELSE IF i <= n THEN Replace(f[i - 1], order[i])
                                          ELSE <<>>]
           S == {n \in Nat : \E f : Early(f, n)}
<1>1. 0 \in S
  <2> DEFINE f == [i \in 0..Len(order) |-> IF i = 0 THEN text ELSE <<>>]
  <2>1. \A i \in 0..Len(order) : i # 0 => ~(i <= 0)
    OBVIOUS
  <2>2. Early(f, 0)
    BY <2>1
  <2> QED BY <2>2
<1>2. ASSUME NEW n \in Nat, n \in S PROVE n + 1 \in S
  <2>1. PICK f : Early(f, n)
    BY <1>2
  <2> DEFINE g == [i \in 0..Len(order) |-> IF i = 0 THEN text
                                           ELSE IF i <= n + 1 THEN Replace(f[i - 1], order[i])
                                           ELSE <<>>]
  <2>2. ASSUME NEW i \in 0..Len(order), i # 0, i <= n + 1 PROVE g[i - 1] = f[i - 1]
    <3>1. i - 1 \in 0..Len(order) /\ i - 1 <= n /\ i - 1 <= n + 1
      BY <2>2
    <3> QED BY <2>1, <3>1
  <2>3. g = [i \in 0..Len(order) |-> IF i = 0 THEN text
                                     ELSE IF i <= n + 1 THEN Replace(f[i - 1], order[i])
                                     ELSE <<>>]
    OBVIOUS
  <2> HIDE DEF g
  <2>4. Early(g, n + 1)
    BY <2>2, <2>3
  <2> QED BY <2>4
<1> HIDE DEF S
<1>3. Len(order) \in S
  BY <1>1, <1>2, Induct
<1>4. PICK pass : Early(pass, Len(order))
  BY <1>3 DEF S
<1>5. \A i \in 0..Len(order) : i <= Len(order)
  OBVIOUS
<1>6. Scrubs(pass, text, order)
  BY <1>4, <1>5 DEF Scrubs
<1> QED BY <1>6

LEMMA ScrubTextIs ==
  ASSUME NEW text, NEW order, Len(order) \in Nat
  PROVE  \E pass : /\ Scrubs(pass, text, order)
                   /\ ScrubText(text, order) = Cut(pass[Len(order)], MaxErrorChars)
<1> DEFINE f == CHOOSE pass : Scrubs(pass, text, order)
<1>1. Scrubs(f, text, order)
  BY PassExists
<1>2. ScrubText(text, order) = Cut(f[Len(order)], MaxErrorChars)
  BY DEF ScrubText, Scrubs
<1> QED BY <1>1, <1>2

LEMMA PassSteps ==
  ASSUME NEW text, NEW order, IsOrder(order), NEW pass, Scrubs(pass, text, order)
  PROVE  /\ Len(order) \in Nat
         /\ pass[0] = text
         /\ \A i \in Nat : i + 1 <= Len(order) =>
              /\ pass[i + 1] = Replace(pass[i], order[i + 1])
              /\ IsRaw(order[i + 1])
<1>1. Len(order) \in Nat /\ DOMAIN order = 1..Len(order)
  BY DEF IsOrder
<1>2. 0 \in 0..Len(order)
  BY <1>1
<1>3. pass[0] = text
  BY <1>2 DEF Scrubs
<1>4. ASSUME NEW i \in Nat, i + 1 <= Len(order)
      PROVE  pass[i + 1] = Replace(pass[i], order[i + 1]) /\ IsRaw(order[i + 1])
  <2>1. i + 1 \in 0..Len(order) /\ i + 1 # 0 /\ (i + 1) - 1 = i /\ i + 1 \in DOMAIN order
    BY <1>1, <1>4
  <2> QED BY <2>1 DEF Scrubs, IsOrder
<1> QED BY <1>1, <1>3, <1>4

(* Induction over the passes. *)
LEMMA EveryPass ==
  ASSUME NEW n \in Nat, NEW S, 0 \in S, \A i \in Nat : i + 1 <= n /\ i \in S => i + 1 \in S
  PROVE  0..n \subseteq S
<1> DEFINE L == {i \in Nat : i <= n => i \in S}
<1>1. 0 \in L
  OBVIOUS
<1>2. ASSUME NEW i \in Nat, i \in L PROVE i + 1 \in L
  BY <1>2
<1> HIDE DEF L
<1>3. Nat \subseteq L
  BY <1>1, <1>2, Induct
<1> QED BY <1>3 DEF L

LEMMA PassTexts ==
  ASSUME NEW text, IsText(text), NEW order, IsOrder(order), NEW pass, Scrubs(pass, text, order)
  PROVE  \A i \in 0..Len(order) :
           IsText(pass[i]) /\ Range(pass[i]) \subseteq Range(text) \cup Range(Marker)
<1> DEFINE Good(i) == IsText(pass[i]) /\ Range(pass[i]) \subseteq Range(text) \cup Range(Marker)
           S == {i \in 0..Len(order) : Good(i)}
<1>1. /\ Len(order) \in Nat
      /\ pass[0] = text
      /\ \A i \in Nat : i + 1 <= Len(order) =>
           /\ pass[i + 1] = Replace(pass[i], order[i + 1])
           /\ IsRaw(order[i + 1])
  BY PassSteps
<1>2. 0 \in S
  BY <1>1
<1>3. ASSUME NEW i \in Nat, i + 1 <= Len(order), i \in S PROVE i + 1 \in S
  <2>1. /\ IsText(Replace(pass[i], order[i + 1]))
        /\ Range(Replace(pass[i], order[i + 1])) \subseteq Range(pass[i]) \cup Range(Marker)
    BY <1>1, <1>3, ReplaceFacts
  <2>2. Good(i + 1)
    BY <1>1, <1>3, <2>1
  <2> QED BY <1>1, <1>3, <2>2
<1> HIDE DEF S
<1>4. 0..Len(order) \subseteq S
  BY <1>1, <1>2, <1>3, EveryPass
<1> QED BY <1>4 DEF S

(* Once a value was replaced it does not come back. *)
LEMMA PassRemoves ==
  ASSUME NEW text, IsText(text), NEW order, IsOrder(order), NEW pass, Scrubs(pass, text, order),
         NEW j \in DOMAIN order, ~IsMarked(order[j])
  PROVE  ~Occurs(pass[Len(order)], order[j])
<1> DEFINE v == order[j]
           S == {i \in Nat : i >= j => ~Occurs(pass[i], v)}
<1>1. /\ Len(order) \in Nat
      /\ pass[0] = text
      /\ \A i \in Nat : i + 1 <= Len(order) =>
           /\ pass[i + 1] = Replace(pass[i], order[i + 1])
           /\ IsRaw(order[i + 1])
  BY PassSteps
<1>2. \A i \in 0..Len(order) : IsText(pass[i])
  BY PassTexts
<1>3. IsRaw(v) /\ ~IsMarked(v) /\ j \in Nat /\ j >= 1 /\ j <= Len(order)
  BY DEF IsOrder
<1> HIDE DEF v
<1>4. 0 \in S
  BY <1>3
<1>5. ASSUME NEW i \in Nat, i + 1 <= Len(order), i \in S PROVE i + 1 \in S
  <2> SUFFICES ASSUME i + 1 >= j, Occurs(pass[i + 1], v) PROVE FALSE
    OBVIOUS
  <2>1. IsText(pass[i]) /\ IsRaw(order[i + 1]) /\ Occurs(Replace(pass[i], order[i + 1]), v)
    BY <1>1, <1>2, <1>5
  <2>2. Occurs(pass[i], v) /\ v # order[i + 1]
    BY <1>3, <2>1, ReplaceFacts
  <2>3. i + 1 # j
    BY <2>2 DEF v
  <2>4. i >= j
    BY <1>3, <2>3
  <2> QED BY <1>5, <2>2, <2>4
<1> HIDE DEF S
<1>6. 0..Len(order) \subseteq S
  BY <1>1, <1>4, <1>5, EveryPass
<1>7. Len(order) \in S
  BY <1>1, <1>6
<1> QED BY <1>3, <1>7 DEF S, v

(* Texts apart by a symbol that no value has are scrubbed each for itself. *)
LEMMA PassApart ==
  ASSUME NEW x, IsText(x), NEW s, NEW y, IsText(y), NEW order, IsOrder(order),
         \A j \in DOMAIN order : s \notin Range(order[j]),
         NEW f, Scrubs(f, Apart(x, s, y), order), NEW g, Scrubs(g, x, order),
         NEW h, Scrubs(h, y, order)
  PROVE  f[Len(order)] = Apart(g[Len(order)], s, h[Len(order)])
<1> DEFINE S == {i \in 0..Len(order) : f[i] = Apart(g[i], s, h[i])}
<1>1. /\ Len(order) \in Nat
      /\ f[0] = Apart(x, s, y) /\ g[0] = x /\ h[0] = y
      /\ \A i \in Nat : i + 1 <= Len(order) =>
           /\ f[i + 1] = Replace(f[i], order[i + 1])
           /\ g[i + 1] = Replace(g[i], order[i + 1])
           /\ h[i + 1] = Replace(h[i], order[i + 1])
           /\ IsRaw(order[i + 1])
  BY PassSteps, SMTT(30)
<1>2. \A i \in 0..Len(order) : IsText(g[i]) /\ IsText(h[i])
  BY PassTexts
<1>3. 0 \in S
  BY <1>1
<1>4. ASSUME NEW i \in Nat, i + 1 <= Len(order), i \in S PROVE i + 1 \in S
  <2>1. i + 1 \in DOMAIN order /\ i + 1 \in 0..Len(order)
    BY <1>1, <1>4 DEF IsOrder
  <2>2. Replace(Apart(g[i], s, h[i]), order[i + 1])
          = Apart(Replace(g[i], order[i + 1]), s, Replace(h[i], order[i + 1]))
    BY <1>1, <1>2, <1>4, <2>1, ReplaceApart
  <2> QED BY <1>1, <1>4, <2>1, <2>2
<1> HIDE DEF S
<1>5. 0..Len(order) \subseteq S
  BY <1>1, <1>3, <1>4, EveryPass
<1>6. Len(order) \in S
  BY <1>1, <1>5
<1> QED BY <1>6 DEF S

LEMMA LongerIsEqual ==
  ASSUME NEW t, IsText(t), NEW v, IsRaw(v), Len(v) >= Len(t), Occurs(t, v)
  PROVE  v = t
<1>1. /\ Len(v) \in Nat /\ Len(v) >= 1 /\ DOMAIN v = 1..Len(v) /\ v \in Seq(Range(v))
      /\ Len(t) \in Nat /\ DOMAIN t = 1..Len(t) /\ t \in Seq(Range(t))
  BY RawLength DEF IsText, IsRaw
<1>2. PICK p \in DOMAIN t : OccursAt(t, v, p)
  BY DEF Occurs
<1>3. \A k \in 1..Len(v) : p + k - 1 \in 1..Len(t) /\ t[p + k - 1] = v[k]
  BY <1>1, <1>2 DEF OccursAt
<1>4. p + Len(v) - 1 <= Len(t) /\ p >= 1 /\ p \in Nat
  BY <1>1, <1>3
<1>5. p = 1 /\ Len(v) = Len(t)
  <2> DEFINE m == Len(v)
             n == Len(t)
  <2>1. m \in Nat /\ n \in Nat /\ m >= n /\ p + m - 1 <= n /\ p \in Nat /\ p >= 1
    BY <1>1, <1>4
  <2> HIDE DEF m, n
  <2>2. p = 1 /\ m = n
    BY <2>1
  <2> QED BY <2>2 DEF m, n
<1>6. \A k \in 1..Len(v) : v[k] = t[k]
  BY <1>1, <1>3, <1>5
<1> QED BY <1>1, <1>5, <1>6, SameText

LEMMA MarkerStays ==
  ASSUME NEW v, IsRaw(v), ~IsMarked(v)
  PROVE  Replace(Marker, v) = Marker
<1>1. IsText(Marker) /\ Len(Marker) = 1 /\ DOMAIN Marker = 1..1
  BY DEF IsText, Marker, Range
<1>2. ~Occurs(Marker, v)
  <2> SUFFICES ASSUME Occurs(Marker, v) PROVE FALSE
    OBVIOUS
  <2>1. Len(v) \in Nat /\ Len(v) >= 1 /\ DOMAIN v = 1..Len(v)
    BY RawLength
  <2>2. v = Marker
    BY <1>1, <2>1, LongerIsEqual
  <2> QED BY <2>2 DEF IsMarked, Marker, Range
<1> QED BY <1>1, <1>2, ReplaceAbsent

Sorts(order) == \A i, j \in DOMAIN order : i < j => Len(order[i]) >= Len(order[j])

(* A value that is searched for becomes a marker, whatever is searched before. *)
LEMMA PassWhole ==
  ASSUME NEW order, IsOrder(order), Sorts(order), \A j \in DOMAIN order : ~IsMarked(order[j]),
         NEW t, NEW last \in DOMAIN order, order[last] = t, NEW pass, Scrubs(pass, t, order)
  PROVE  pass[Len(order)] = Marker
<1> DEFINE Met(i) == \E j \in DOMAIN order : j <= i /\ order[j] = t
           S == {i \in Nat : pass[i] = IF Met(i) THEN Marker ELSE t}
<1>1. /\ Len(order) \in Nat
      /\ pass[0] = t
      /\ \A i \in Nat : i + 1 <= Len(order) =>
           /\ pass[i + 1] = Replace(pass[i], order[i + 1])
           /\ IsRaw(order[i + 1])
  BY PassSteps
<1>2. DOMAIN order = 1..Len(order) /\ IsRaw(t) /\ IsText(t)
  BY DEF IsOrder, IsRaw
<1>3. 0 \in S
  BY <1>1, <1>2
<1>4. ASSUME NEW i \in Nat, i + 1 <= Len(order), i \in S PROVE i + 1 \in S
  <2>1. i + 1 \in DOMAIN order /\ IsRaw(order[i + 1]) /\ ~IsMarked(order[i + 1])
    BY <1>1, <1>2, <1>4
  <2>2. pass[i + 1] = Replace(pass[i], order[i + 1])
    BY <1>1, <1>4
  <2>3. CASE Met(i)
    <3>1. Met(i + 1)
      BY <1>2, <2>3
    <3>2. pass[i] = Marker
      BY <1>4, <2>3
    <3>3. pass[i + 1] = Marker
      BY <2>1, <2>2, <3>2, MarkerStays
    <3> QED BY <3>1, <3>3
  <2>4. CASE ~Met(i) /\ order[i + 1] = t
    <3>1. Met(i + 1)
      BY <2>1, <2>4
    <3>2. pass[i] = t
      BY <1>4, <2>4
    <3>3. pass[i + 1] = Marker
      BY <1>2, <2>2, <2>4, <3>2, ReplaceWhole
    <3> QED BY <3>1, <3>3
  <2>5. CASE ~Met(i) /\ order[i + 1] # t
    <3>1. ~Met(i + 1)
      BY <1>2, <2>5
    <3>2. pass[i] = t
      BY <1>4, <2>5
    <3>3. i + 1 < last
      BY <1>2, <3>1
    <3>4. Len(order[i + 1]) >= Len(t)
      BY <2>1, <3>3 DEF Sorts
    <3>5. ~Occurs(t, order[i + 1])
      BY <1>2, <2>1, <2>5, <3>4, LongerIsEqual
    <3>6. pass[i + 1] = t
      BY <1>2, <2>1, <2>2, <3>2, <3>5, ReplaceAbsent
    <3> QED BY <3>1, <3>6
  <2> QED BY <2>3, <2>4, <2>5
<1> HIDE DEF S
<1>5. 0..Len(order) \subseteq S
  BY <1>1, <1>3, <1>4, EveryPass
<1>6. Len(order) \in S
  BY <1>1, <1>5
<1>7. Met(Len(order))
  BY <1>2
<1> QED BY <1>6, <1>7 DEF S

(* The cut. *)
CutMark == <<"...(truncated)">>

LEMMA CutFacts ==
  ASSUME NEW text, IsText(text), NEW limit \in Nat
  PROVE  /\ IsText(Cut(text, limit))
         /\ Range(Cut(text, limit)) \subseteq Range(text) \cup Range(CutMark)
         /\ \A v : IsRaw(v) /\ CutMark[1] \notin Range(v) /\ Occurs(Cut(text, limit), v) =>
              Occurs(text, v)
<1>1. Len(text) \in Nat /\ DOMAIN text = 1..Len(text) /\ text \in Seq(Range(text))
  BY DEF IsText
<1>2. CASE Len(text) <= limit
  BY <1>2 DEF Cut
<1>3. CASE ~(Len(text) <= limit)
  <2> DEFINE t == Cut(text, limit)
             front == SubSeq(text, 1, limit)
             m == CutMark[1]
  <2>1. /\ Len(front) = limit /\ front \in Seq(Range(text))
        /\ \A k \in 1..limit : front[k] = text[k]
    BY <1>1, <1>3
  <2>2. t = front \o <<m>>
    BY <1>3 DEF Cut, CutMark
  <2> HIDE DEF t, front, m
  <2>3. /\ DOMAIN t = 1..(limit + 1) /\ t[limit + 1] = m
        /\ \A k \in 1..limit : t[k] = front[k]
    BY <2>1, <2>2
  <2>4. \A k \in 1..limit : t[k] = text[k] /\ k \in DOMAIN text
    BY <1>1, <1>3, <2>1, <2>3
  <2>5. Range(t) \subseteq Range(text) \cup {m}
    <3> SUFFICES ASSUME NEW k \in DOMAIN t PROVE t[k] \in Range(text) \cup {m}
      BY DEF Range
    <3>1. k = limit + 1 \/ k \in 1..limit
      BY <2>3
    <3> QED BY <2>3, <2>4, <3>1 DEF Range
  <2>6. ASSUME NEW v, IsRaw(v), m \notin Range(v), Occurs(t, v) PROVE Occurs(text, v)
    <3>1. PICK p \in DOMAIN t : OccursAt(t, v, p)
      BY <2>6 DEF Occurs
    <3>2. Len(v) \in Nat /\ Len(v) >= 1 /\ DOMAIN v = 1..Len(v)
      BY <2>6, RawLength
    <3>3. ASSUME NEW k \in DOMAIN v PROVE p + k - 1 \in 1..limit /\ t[p + k - 1] = v[k]
      <4>1. p + k - 1 \in DOMAIN t /\ t[p + k - 1] = v[k]
        BY <3>1 DEF OccursAt
      <4>2. v[k] # m
        BY <2>6 DEF Range
      <4>3. p + k - 1 # limit + 1
        BY <2>3, <4>1, <4>2
      <4> QED BY <2>3, <4>1, <4>3
    <3>4. OccursAt(text, v, p)
      BY <2>4, <3>3 DEF OccursAt
    <3>5. 1 \in DOMAIN v /\ p + 1 - 1 = p
      BY <2>3, <3>2
    <3>6. p \in DOMAIN text
      BY <2>4, <3>3, <3>5
    <3> QED BY <3>4, <3>6 DEF Occurs
  <2>7. Range(CutMark) = {m}
    BY DEF CutMark, Range, m
  <2>8. IsText(t)
    <3>1. Len(t) = limit + 1 /\ t = [k \in 1..Len(t) |-> t[k]]
      BY <2>1, <2>2
    <3>2. t \in [1..Len(t) -> Range(t)]
      BY <2>3, <3>1 DEF Range
    <3> QED BY <3>1, <3>2 DEF IsText
  <2> QED BY <2>5, <2>6, <2>7, <2>8 DEF t, m
<1> QED BY <1>2, <1>3

LEMMA PiecesOccur ==
  ASSUME NEW text, IsText(text), NEW v, IsRaw(v), v \in SubSeqs(text)
  PROVE  Occurs(text, v)
<1>1. Len(text) \in Nat /\ DOMAIN text = 1..Len(text) /\ text \in Seq(Range(text))
  BY DEF IsText
<1>2. PICK i \in 0..Len(text), j \in 0..Len(text) : v = SubSeq(text, i + 1, j)
  BY DEF SubSeqs
<1>3. Len(v) \in Nat /\ Len(v) >= 1 /\ DOMAIN v = 1..Len(v)
  BY RawLength
<1>4. Len(v) = j - i /\ \A k \in 1..Len(v) : v[k] = text[i + k]
  <2> DEFINE S == Range(text)
             m == i + 1
  <2>1. m \in Int /\ j \in Int /\ \A k \in m..j : text[k] \in S
    BY <1>1
  <2>2. m = i + 1 /\ i \in Nat /\ j \in Nat /\ v = SubSeq(text, m, j)
    BY <1>1, <1>2
  <2> HIDE DEF m, S
  <2>3. /\ Len(v) = IF m <= j THEN j - m + 1 ELSE 0
        /\ \A k \in 1..(j - m + 1) : v[k] = text[m + k - 1]
    BY <2>1, <2>2, SubSeqProperties
  <2>4. Len(v) = j - i
    BY <1>3, <2>2, <2>3
  <2>5. \A k \in 1..Len(v) : k \in 1..(j - m + 1) /\ m + k - 1 = i + k
    BY <2>2, <2>4
  <2> QED BY <2>3, <2>4, <2>5
<1>5. \A k \in 1..Len(v) : (i + 1) + k - 1 = i + k /\ i + k \in DOMAIN text
  BY <1>1, <1>3, <1>4
<1>6. OccursAt(text, v, i + 1) /\ i + 1 \in DOMAIN text
  BY <1>1, <1>3, <1>4, <1>5 DEF OccursAt
<1> QED BY <1>6 DEF Occurs

LEMMA OrdersAre ==
  ASSUME NEW values, NEW order \in LongestFirst(values), \A v \in values : IsRaw(v)
  PROVE  /\ IsOrder(order) /\ Sorts(order)
         /\ \A j \in DOMAIN order : order[j] \in values
         /\ \A v \in values : \E j \in DOMAIN order : order[j] = v
<1>1. PICK n \in 0..Cardinality(values) : order \in [1..n -> values]
  BY DEF LongestFirst, SeqOf
<1>2. n \in Nat
  BY <1>1
<1>3. Len(order) = n /\ DOMAIN order = 1..n /\ \A j \in 1..n : order[j] \in values
  BY <1>1, <1>2
<1>4. Sorts(order) /\ Range(order) = values
  BY DEF LongestFirst, Sorts
<1> QED BY <1>2, <1>3, <1>4 DEF IsOrder, Range

-----------------------------------------------------------------------------
(* scrub_text of a message that quotes two texts. *)
Message(t, u) == <<" ">> \o t \o <<" ">> \o u

(* Of the values none is left, and what is left is not of the values. *)
NothingLeft(values, t, u, error) ==
  /\ \A raw \in values : IsPlain(raw) => raw \notin SubSeqs(error)
  /\ (\A raw \in values : IsPlain(raw)) =>
       Range(error) \subseteq {" "} \cup Range(Marker) \cup Range(CutMark)
         \cup (IF t \in values THEN {} ELSE Range(t))
         \cup (IF u \in values THEN {} ELSE Range(u))

LEMMA PlainFacts ==
  ASSUME NEW raw, IsPlain(raw)
  PROVE  ~IsMarked(raw) /\ " " \notin Range(raw) /\ CutMark[1] \notin Range(raw)
BY DEF IsPlain, IsMarked, Marker, CutMark

LEMMA MessageScrubbed ==
  ASSUME NEW values, \A v \in values : IsRaw(v), NEW order \in LongestFirst(values),
         NEW t, IsText(t), NEW u, IsText(u)
  PROVE  NothingLeft(values, t, u, ScrubText(Message(t, u), order))
<1> DEFINE front == Apart(<<>>, " ", t)
           whole == Apart(front, " ", u)
           n == Len(order)
<1>1. /\ IsOrder(order) /\ Sorts(order)
      /\ \A j \in DOMAIN order : order[j] \in values
      /\ \A v \in values : \E j \in DOMAIN order : order[j] = v
  BY OrdersAre
<1>2. n \in Nat /\ n \in 0..n
  BY <1>1 DEF IsOrder
<1>3. IsText(<<>>)
  BY DEF IsText
<1>4. IsText(front) /\ IsText(whole)
  BY <1>3, ApartFacts
<1>5. Message(t, u) = whole
  <2>1. <<>> \o <<" ">> = <<" ">>
    OBVIOUS
  <2> QED BY <2>1 DEF Message, Apart
<1> HIDE DEF front, whole, n
<1>6. PICK f : Scrubs(f, whole, order) /\ ScrubText(whole, order) = Cut(f[n], MaxErrorChars)
  BY <1>2, ScrubTextIs DEF n
<1>7. IsText(f[n])
  BY <1>1, <1>2, <1>4, <1>6, PassTexts DEF n
<1>8. MaxErrorChars \in Nat
  BY CanonicalAssumption
<1> DEFINE error == ScrubText(whole, order)
<1>9. /\ IsText(error)
      /\ Range(error) \subseteq Range(f[n]) \cup Range(CutMark)
      /\ \A v : IsRaw(v) /\ CutMark[1] \notin Range(v) /\ Occurs(error, v) => Occurs(f[n], v)
  BY <1>6, <1>7, <1>8, CutFacts
<1> HIDE DEF error
<1>10. ASSUME NEW raw \in values, IsPlain(raw), raw \in SubSeqs(error) PROVE FALSE
  <2>1. PICK j \in DOMAIN order : order[j] = raw
    BY <1>1
  <2>2. IsRaw(raw) /\ ~IsMarked(raw) /\ CutMark[1] \notin Range(raw)
    BY <1>10, PlainFacts
  <2>3. ~Occurs(f[n], raw)
    BY <1>1, <1>4, <1>6, <2>1, <2>2, PassRemoves DEF n
  <2>4. Occurs(error, raw)
    BY <1>9, <1>10, <2>2, PiecesOccur
  <2> QED BY <1>9, <2>2, <2>3, <2>4
<1>11. ASSUME \A raw \in values : IsPlain(raw)
       PROVE  Range(error) \subseteq
                {" "} \cup Range(Marker) \cup Range(CutMark)
                  \cup (IF t \in values THEN {} ELSE Range(t))
                  \cup (IF u \in values THEN {} ELSE Range(u))
  <2>1. PICK a : Scrubs(a, front, order)
    BY <1>2, PassExists DEF n
  <2>2. PICK e : Scrubs(e, <<>>, order)
    BY <1>2, PassExists DEF n
  <2>3. PICK g : Scrubs(g, t, order)
    BY <1>2, PassExists DEF n
  <2>4. PICK h : Scrubs(h, u, order)
    BY <1>2, PassExists DEF n
  <2>5. \A j \in DOMAIN order : ~IsMarked(order[j]) /\ " " \notin Range(order[j])
    BY <1>1, <1>11, PlainFacts
  <2> DEFINE space == " "
  <2>13. \A j \in DOMAIN order : space \notin Range(order[j])
    BY <2>5
  <2>14. Scrubs(f, Apart(front, space, u), order) /\ Scrubs(a, Apart(<<>>, space, t), order)
    BY <1>6, <2>1 DEF whole, front
  <2> HIDE DEF space
  <2>6. f[n] = Apart(a[n], " ", h[n])
    <3>1. f[Len(order)] = Apart(a[Len(order)], space, h[Len(order)])
      BY <1>1, <1>4, <2>1, <2>4, <2>13, <2>14, PassApart
    <3> QED BY <3>1 DEF n, space
  <2>7. a[n] = Apart(e[n], " ", g[n])
    <3>1. a[Len(order)] = Apart(e[Len(order)], space, g[Len(order)])
      BY <1>1, <1>3, <2>2, <2>3, <2>13, <2>14, PassApart
    <3> QED BY <3>1 DEF n, space
  <2>8. /\ IsText(a[n]) /\ IsText(e[n]) /\ IsText(g[n]) /\ IsText(h[n])
        /\ Range(e[n]) \subseteq Range(<<>>) \cup Range(Marker)
        /\ Range(g[n]) \subseteq Range(t) \cup Range(Marker)
        /\ Range(h[n]) \subseteq Range(u) \cup Range(Marker)
    BY <1>1, <1>2, <1>3, <1>4, <2>1, <2>2, <2>3, <2>4, PassTexts DEF n
  <2>9. /\ Range(a[n]) \subseteq Range(e[n]) \cup {" "} \cup Range(g[n])
        /\ Range(f[n]) \subseteq Range(a[n]) \cup {" "} \cup Range(h[n])
    BY <2>6, <2>7, <2>8, ApartFacts
  <2>10. Range(<<>>) = {}
    BY DEF Range
  <2>11. t \in values => Range(g[n]) \subseteq Range(Marker)
    <3> SUFFICES ASSUME t \in values PROVE g[n] = Marker
      OBVIOUS
    <3>1. PICK j \in DOMAIN order : order[j] = t
      BY <1>1
    <3> QED BY <1>1, <2>3, <2>5, <3>1, PassWhole DEF n
  <2>12. u \in values => Range(h[n]) \subseteq Range(Marker)
    <3> SUFFICES ASSUME u \in values PROVE h[n] = Marker
      OBVIOUS
    <3>1. PICK j \in DOMAIN order : order[j] = u
      BY <1>1
    <3> QED BY <1>1, <2>4, <2>5, <3>1, PassWhole DEF n
  <2> QED BY <1>9, <2>8, <2>9, <2>10, <2>11, <2>12
<1>12. NothingLeft(values, t, u, error)
  BY <1>10, <1>11 DEF NothingLeft
<1> QED BY <1>5, <1>12 DEF error

-----------------------------------------------------------------------------
(* _safe_output_hash: a text is hashed as it is. *)
LEMMA HashedText ==
  ASSUME AbsentIsNoData, NEW h, IsHeap(h), NEW sensitive, NEW value, IsValue(value), NEW raw,
         Canonicalize(h, sensitive, value).ok,
         Canonicalize(h, sensitive, value).value = Text(raw)
  PROVE  value = Text(raw) \/ raw = Unsupported[2]
<1> DEFINE top == [value |-> value, depth |-> 0, around |-> {}]
<1>1. PICK walk : Walks(walk, h, sensitive, value)
                  /\ Canonicalize(h, sensitive, value) = walk[top]
  BY WalkIs DEF Canonicalize
<1>2. top \in Visits(h, value) /\ top.value = value /\ top.depth = 0 /\ top.depth <= MaxDepth
  BY DepthType DEF Visits, Values
<1> HIDE DEF top
<1>3. walk[top].ok /\ walk[top].value = Text(raw)
  BY <1>1
<1>4. CASE value[1] # "ref"
  <2>1. IsValue(top.value) /\ top.value[1] # "ref"
    BY <1>2, <1>4
  <2>2. walk[top] = IF top.value = <<"nan">> THEN Raised
                    ELSE IF top.value = <<"opaque">> THEN Canonical(Unsupported, {})
                    ELSE Canonical(top.value, {})
    <3>1. Walks(walk, h, sensitive, value) /\ top \in Visits(h, value) /\ top.depth <= MaxDepth
      BY <1>1, <1>2
    <3> QED BY <2>1, <3>1, LeafWalk, ZenonT(30)
  <2> QED BY <1>2, <1>3, <2>2 DEF Raised, Canonical, Unsupported, Text
<1>5. CASE value[1] = "ref"
  <2> DEFINE object == h[value[2]]
             parts == Walked(h, sensitive, top, walk)
  <2>1. walk[top] = IF value[2] \in top.around THEN Raised
                    ELSE IF object.shape = "mixed" THEN Canonical(Unsupported, {})
                    ELSE Assembled(object, parts)
    BY <1>1, <1>2, <1>5, ContainerWalk
  <2> HIDE DEF parts
  <2>2. CASE walk[top] = Assembled(object, parts)
    <3>1. walk[top] = Canonical(Whole(object, parts), UNION {parts[i].kept : i \in DOMAIN parts})
      BY <1>3, <2>2 DEF Assembled, Raised
    <3>2. Whole(object, parts) = Text(raw)
      BY <1>3, <3>1 DEF Canonical
    <3>3. Whole(object, parts)[1] \in {"array", "object"}
      BY DEF Whole
    <3> QED BY <3>2, <3>3 DEF Text
  <2>3. CASE walk[top] = Raised \/ walk[top] = Canonical(Unsupported, {})
    BY <1>3, <2>3 DEF Raised, Canonical, Unsupported, Text
  <2> QED BY <2>1, <2>2, <2>3
<1> QED BY <1>4, <1>5

LEMMA VisibleAreValues ==
  ASSUME NEW h, IsHeap(h), NEW value, IsValue(value), NEW v \in Visible(h, {}, value)
  PROVE  IsValue(v)
<1> DEFINE L(d) == Levels(h, {}, value)[d]
           S == {d \in Nat : d <= MaxDepth + 1 => \A x \in L(d) : IsValue(x)}
<1>1. 0 \in S
  BY LevelsAre
<1>2. ASSUME NEW d \in Nat, d \in S PROVE d + 1 \in S
  <2> SUFFICES ASSUME d + 1 <= MaxDepth + 1, NEW x \in L(d + 1) PROVE IsValue(x)
    OBVIOUS
  <2>1. d <= MaxDepth /\ d <= MaxDepth + 1
    BY DepthType
  <2>2. x \in ShownBy(h, {}, L(d))
    BY <2>1, LevelsAre
  <2>3. PICK w \in L(d) : w[1] = "ref" /\ x \in Shown(h, {}, w[2])
    BY <2>2 DEF ShownBy
  <2>4. IsValue(w)
    BY <1>2, <2>1
  <2>5. w[2] \in Objects
    BY <2>3, <2>4 DEF IsValue
  <2>6. h[w[2]].shape \in {"named", "list", "mixed"} /\ w[2] \in DOMAIN h
    BY <2>5, ContentsAssumption DEF IsHeap
  <2>7. \E i \in DOMAIN h[w[2]].items : x = h[w[2]].items[i].value
    BY <2>3, <2>6 DEF Shown
  <2> QED BY <2>6, <2>7, ItemIsValue, ValuesAreValues
<1> HIDE DEF S
<1>3. PICK d \in 0..(MaxDepth + 1) : v \in L(d)
  BY DepthType DEF Visible, VisibleAt
<1>4. d \in S
  BY <1>1, <1>2, <1>3, Induct
<1> QED BY <1>3, <1>4, DepthType DEF S

(* What is remembered are the long texts of what was removed. *)
RemovedInv ==
  /\ kept = LongRemoved
  /\ outcome # None => pc = "done" /\ LongRemovedTextsStayOut

StaysOut(texts) ==
  /\ \A raw \in texts : IsPlain(raw) =>
       outcome.hash # Text(raw) /\ raw \notin SubSeqs(outcome.error)
  /\ (\A raw \in texts : IsPlain(raw)) =>
       \A i \in DOMAIN outcome.error : \A raw \in texts \cap outcome.echoed :
         outcome.error[i] \in Range(raw) =>
           \E other \in outcome.echoed \ texts : outcome.error[i] \in Range(other)

LEMMA RemovedNext ==
  ASSUME RemovedInv, pc' = "done", UNCHANGED <<kept, removed>>, StaysOut(kept)'
  PROVE  RemovedInv'
<1>1. (kept = LongRemoved)'
  BY DEF RemovedInv, LongRemoved
<1>2. StaysOut(LongRemoved)'
  BY <1>1 DEF StaysOut
<1> QED BY <1>1, <1>2 DEF RemovedInv, LongRemovedTextsStayOut, StaysOut

LEMMA LongRemovedIs == LongRemoved = UNION {Scrubbable(v) : v \in removed}
<1>1. \A t : t \in LongRemoved <=>
              \E v \in removed : v[1] = "text" /\ Len(v[2]) >= MinScrubbable /\ t = v[2]
  BY DEF LongRemoved
<1>2. \A t, v : t \in Scrubbable(v) <=>
                 v[1] = "text" /\ Len(v[2]) >= MinScrubbable /\ t = v[2]
  BY DEF Scrubbable
<1> QED BY <1>1, <1>2

(* The walk over one argument remembers the long texts among all it removes,
   wherever they are. *)
LEMMA EntryKeepsTheRemoved ==
  ASSUME NEW h, IsHeap(h), NEW sensitive, NEW item, IsValue(item.value),
         Entry(h, sensitive, item).ok
  PROVE  Entry(h, sensitive, item).kept
           = UNION {Scrubbable(v) : v \in Removed(h, sensitive, item)}
<1>1. CASE IsSensitive(item.name, sensitive)
  <2>1. Entry(h, sensitive, item).kept = Scrubbable(item.value)
    BY <1>1 DEF Entry, Canonical
  <2>2. Removed(h, sensitive, item) = {item.value}
    BY <1>1 DEF Removed
  <2> QED BY <2>1, <2>2
<1>2. CASE ~IsSensitive(item.name, sensitive)
  <2>1. Entry(h, sensitive, item) = Walk(h, sensitive, item.value, 1)
    BY <1>2 DEF Entry
  <2>2. Removed(h, sensitive, item)
          = HiddenBelow(h, sensitive, VisibleAt(h, sensitive, item.value, 1))
    BY <1>2 DEF Removed
  <2>3. Entry(h, sensitive, item).kept
          = RemovedBelow(h, sensitive, VisibleAt(h, sensitive, item.value, 1))
    BY <2>1, WalkIsExact
  <2> QED BY <2>2, <2>3 DEF RemovedBelow
<1> QED BY <1>1, <1>2

LEMMA WalkKeepsTheRemoved ==
  ASSUME CallInv, kept = LongRemoved, WalkNext PROVE (kept = LongRemoved)'
<1>1. PICK n \in DOMAIN args \ DOMAIN walked :
        LET item  == [name |-> n, value |-> args[n]]
            entry == Entry(heap, callee.sensitive, item)
        IN  \/ /\ entry.ok
               /\ kept' = kept \cup entry.kept
               /\ removed' = removed \cup Removed(heap, callee.sensitive, item)
            \/ UNCHANGED <<kept, removed>>
  BY DEF WalkNext
<1> DEFINE item == [name |-> n, value |-> args[n]]
<1>2. IsHeap(heap) /\ IsValue(item.value)
  BY DEF CallInv, TypeOK, ArgumentsInv, IsHeap
<1>3. CASE UNCHANGED <<kept, removed>>
  BY <1>3 DEF LongRemoved
<1>4. CASE /\ Entry(heap, callee.sensitive, item).ok
           /\ kept' = kept \cup Entry(heap, callee.sensitive, item).kept
           /\ removed' = removed \cup Removed(heap, callee.sensitive, item)
  <2>1. LongRemoved' = UNION {Scrubbable(v) : v \in removed'}
    BY LongRemovedIs DEF LongRemoved, Scrubbable
  <2>2. Entry(heap, callee.sensitive, item).kept
          = UNION {Scrubbable(v) : v \in Removed(heap, callee.sensitive, item)}
    BY <1>2, <1>4, EntryKeepsTheRemoved
  <2> QED BY <1>4, <2>1, <2>2, LongRemovedIs
<1> QED BY <1>1, <1>3, <1>4

LEMMA KeptFacts ==
  ASSUME CallInv, NEW v \in kept
  PROVE  IsRaw(v)
<1>1. IsText(v) /\ Len(v) >= MinScrubbable /\ MinScrubbable \in Nat /\ MinScrubbable # 0
  BY CanonicalAssumption DEF CallInv, TypeOK
<1>2. v # <<>>
  BY <1>1
<1> QED BY <1>1, <1>2 DEF IsRaw

LEMMA ReachableAreValues ==
  ASSUME CallInv, NEW v \in Reachable
  PROVE  IsValue(v)
<1>1. PICK n \in DOMAIN args : v \in Visible(heap, {}, args[n])
  BY DEF Reachable
<1>2. IsHeap(heap) /\ IsValue(args[n])
  BY DEF CallInv, TypeOK, ArgumentsInv, IsHeap
<1> QED BY <1>1, <1>2, VisibleAreValues

LEMMA TextIsData ==
  ASSUME AbsentIsNoData, NEW raw
  PROVE  None # Text(raw)
<1>1. Text(raw) = [i \in DOMAIN Text(raw) |-> Text(raw)[i]]
  BY DEF Text
<1> QED BY <1>1 DEF AbsentIsNoData, None

LEMMA ReturnsStaysOut ==
  ASSUME AbsentIsNoData, CallInv, RemovedInv, Returns PROVE RemovedInv'
<1>1. PICK result \in Reachable :
        outcome' = [status |-> "succeeded", hash |-> OutputHash(result), error |-> <<>>,
                    echoed |-> {}]
  BY DEF Returns
<1>2. pc' = "done" /\ UNCHANGED <<kept, removed>>
  BY DEF Returns
<1>3. IsValue(result) /\ IsHeap(heap)
  BY ReachableAreValues DEF CallInv, TypeOK, IsHeap
<1>4. ASSUME NEW raw \in kept, IsPlain(raw) PROVE OutputHash(result) # Text(raw)
  <2> DEFINE canonical == Canonicalize(heap, callee.sensitive, result)
  <2> SUFFICES ASSUME OutputHash(result) = Text(raw) PROVE FALSE
    OBVIOUS
  <2>1. OutputHash(result) # None
    BY TextIsData
  <2>2. /\ ~(result[1] = "text" /\ result[2] \in kept) /\ canonical.ok
        /\ canonical.value = Text(raw)
    BY <2>1 DEF OutputHash
  <2>3. result = Text(raw) \/ raw = Unsupported[2]
    BY <1>3, <2>2, HashedText
  <2>4. raw # Unsupported[2]
    <3>1. Unsupported[2] = <<"<unsupported:">>
      BY DEF Unsupported, Text
    <3>2. "<unsupported:" \in Range(Unsupported[2])
      BY <3>1 DEF Range
    <3> QED BY <1>4, <3>2 DEF IsPlain
  <2>5. result[1] = "text" /\ result[2] = raw
    BY <2>3, <2>4 DEF Text
  <2> QED BY <2>2, <2>5
<1>5. ASSUME NEW raw \in kept PROVE raw \notin SubSeqs(<<>>)
  <2>1. IsRaw(raw) /\ IsText(<<>>)
    BY KeptFacts DEF IsText
  <2>2. ~Occurs(<<>>, raw)
    BY DEF Occurs
  <2> QED BY <2>1, <2>2, PiecesOccur
<1>6. outcome'.hash = OutputHash(result) /\ outcome'.error = <<>> /\ DOMAIN outcome'.error = {}
  BY <1>1
<1>7. StaysOut(kept)'
  BY <1>2, <1>4, <1>5, <1>6 DEF StaysOut
<1> QED BY <1>2, <1>7, RemovedNext

LEMMA RaisesStaysOut ==
  ASSUME AbsentIsNoData, CallInv, RemovedInv, Raises PROVE RemovedInv'
<1> DEFINE Quotable == {v[2] : v \in {w \in Reachable : w[1] = "text"}} \cup Ordinary
<1>1. PICK t \in Quotable, u \in Quotable, order \in LongestFirst(kept) :
        outcome' = [status |-> "failed", hash |-> None, echoed |-> {t, u},
                    error |-> ScrubText(<<" ">> \o t \o <<" ">> \o u, order)]
  BY DEF Raises
<1>2. pc' = "done" /\ UNCHANGED <<kept, removed>>
  BY DEF Raises
<1>3. \A text \in Quotable : IsText(text)
  <2>1. \A v \in Reachable : v[1] = "text" => IsText(v[2])
    BY ReachableAreValues DEF IsValue
  <2> QED BY <2>1, RegistrationsAssumption
<1> HIDE DEF Quotable
<1> DEFINE error == ScrubText(Message(t, u), order)
<1>4. /\ outcome'.error = error /\ outcome'.hash = None /\ outcome'.echoed = {t, u}
  BY <1>1 DEF Message
<1>5. /\ \A raw \in kept : IsPlain(raw) => raw \notin SubSeqs(error)
      /\ (\A raw \in kept : IsPlain(raw)) =>
           Range(error) \subseteq {" "} \cup Range(Marker) \cup Range(CutMark)
             \cup (IF t \in kept THEN {} ELSE Range(t))
             \cup (IF u \in kept THEN {} ELSE Range(u))
  <2>1. IsText(t) /\ IsText(u) /\ \A v \in kept : IsRaw(v)
    BY <1>3, KeptFacts
  <2> HIDE DEF error
  <2>2. order \in LongestFirst(kept)
    BY <1>1
  <2>3. NothingLeft(kept, t, u, error)
    BY <2>1, <2>2, MessageScrubbed DEF error
  <2> QED BY <2>3 DEF NothingLeft
<1> HIDE DEF error
<1>6. ASSUME \A raw \in kept : IsPlain(raw), NEW i \in DOMAIN error,
             NEW raw \in kept \cap {t, u}, error[i] \in Range(raw)
      PROVE  \E other \in {t, u} \ kept : error[i] \in Range(other)
  <2>1. error[i] \in Range(error)
    BY DEF Range
  <2>2. error[i] \notin {" "} \cup Range(Marker) \cup Range(CutMark)
    <3>1. Range(Marker) = {Marker[1]} /\ Range(CutMark) = {CutMark[1]}
      BY DEF Marker, CutMark, Range
    <3>2. " " \notin Range(raw) /\ Marker[1] \notin Range(raw) /\ CutMark[1] \notin Range(raw)
      BY <1>6, PlainFacts DEF IsMarked
    <3> QED BY <1>6, <3>1, <3>2
  <2>3. \/ t \notin kept /\ error[i] \in Range(t)
        \/ u \notin kept /\ error[i] \in Range(u)
    BY <1>5, <1>6, <2>1, <2>2
  <2> QED BY <2>3
<1>7. StaysOut(kept)'
  <2>1. \A raw \in kept : IsPlain(raw) =>
          outcome'.hash # Text(raw) /\ raw \notin SubSeqs(outcome'.error)
    BY <1>4, <1>5, TextIsData
  <2>2. (\A raw \in kept : IsPlain(raw)) =>
          \A i \in DOMAIN outcome'.error : \A raw \in kept \cap outcome'.echoed :
            outcome'.error[i] \in Range(raw) =>
              \E other \in outcome'.echoed \ kept : outcome'.error[i] \in Range(other)
    BY <1>4, <1>6
  <2> QED BY <1>2, <2>1, <2>2 DEF StaysOut
<1> QED BY <1>2, <1>7, RemovedNext

(***************************************************************************)
(* redaction.py, scrub_text, and engine.py, _safe_output_hash: no text of  *)
(* _MIN_SCRUBBABLE_LENGTH symbols or more that the traversal removed, from *)
(* an argument or from anywhere below one, comes back with the outcome: as *)
(* the hashed result or, whole or in pieces, in the text of the error.     *)
(* Shorter texts and other kinds of values are not remembered, and do.     *)
(***************************************************************************)
THEOREM NoLongTextComesBack ==
  ASSUME AbsentIsNoData PROVE Spec => []LongRemovedTextsStayOut
<1>1. Init => RemovedInv
  BY DEF Init, RemovedInv, LongRemoved
<1>2. CallInv /\ RemovedInv /\ [Next]_vars => RemovedInv'
  <2> SUFFICES ASSUME CallInv, RemovedInv, [Next]_vars PROVE RemovedInv'
    OBVIOUS
  <2>1. CASE Returns
    BY <2>1, ReturnsStaysOut
  <2>2. CASE Raises
    BY <2>2, RaisesStaysOut
  <2>3. CASE Terminating \/ UNCHANGED vars
    <3>1. UNCHANGED <<kept, removed, outcome, pc>>
      BY <2>3 DEF Terminating, vars
    <3> QED BY <3>1 DEF RemovedInv, LongRemovedTextsStayOut, LongRemoved
  <2>4. CASE WalkNext
    <3>1. pc # "done" /\ outcome' = outcome
      BY <2>4 DEF WalkNext, recordVars
    <3>2. (kept = LongRemoved)'
      BY <2>4, WalkKeepsTheRemoved DEF RemovedInv
    <3> QED BY <3>1, <3>2 DEF RemovedInv
  <2>5. CASE \/ \E r \in Registrations : Register(r)
             \/ Call
             \/ Bind
             \/ Ask
             \/ Decide
             \/ Run
             \/ \E o \in Objects : Edit(o)
    <3>1. pc # "done" /\ outcome' = outcome /\ UNCHANGED <<kept, removed>>
      BY <2>5 DEF Register, Call, Bind, Ask, Decide, Run, Edit, recordVars
    <3>2. outcome' = None /\ (kept = LongRemoved)'
      BY <3>1 DEF RemovedInv, LongRemoved
    <3> QED BY <3>2 DEF RemovedInv
  <2> QED BY <2>1, <2>2, <2>3, <2>4, <2>5 DEF Next
<1>3. RemovedInv => LongRemovedTextsStayOut
  BY DEF RemovedInv, LongRemovedTextsStayOut
<1> QED BY <1>1, <1>2, <1>3, CallInvariance, PTL DEF Spec

=============================================================================
