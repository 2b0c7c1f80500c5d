----------------------------- MODULE Canonical -----------------------------
(***************************************************************************)
(* src/guardrail_evidence/canonical.py and redaction.py: the one traversal *)
(* that redacts and canonicalizes, and the texts made from its result.     *)
(*                                                                         *)
(* A value is a tagged tuple: <<"text", symbols>>, <<"number">>, <<"nan">>,*)
(* <<"opaque">> (any type that is not canonical) or <<"ref", object>>.     *)
(* Objects live in a heap, so they can be shared, cyclic and changed:      *)
(* heap[o] is [shape, items], a sequence of [name, value].  The shape is   *)
(* "named" (dict, dataclass, named tuple), "list" (list, tuple; names mean *)
(* nothing) or "mixed" (a dict with a key that is no string).  The JSON it *)
(* becomes has texts, numbers, <<"array", values>> and                     *)
(* <<"object", function from names to values>>.                            *)
(*                                                                         *)
(* A name is [base, style]: which word it spells and in which letters.     *)
(***************************************************************************)
EXTENDS Sequences, FiniteSets, SequencesExt

CONSTANTS
  MaxDepth,        \* MAX_DEPTH
  MinScrubbable,   \* _MIN_SCRUBBABLE_LENGTH
  MaxErrorChars,   \* max_chars of scrub_text
  MaxValueChars,   \* _MAX_SUMMARY_VALUE_CHARS
  MaxSummaryParts, \* stands for _MAX_SUMMARY_TOTAL_CHARS
  SensitiveBases   \* the words of SENSITIVE_NAMES

ASSUME CanonicalAssumption ==
  /\ {MaxDepth, MinScrubbable, MaxErrorChars, MaxValueChars, MaxSummaryParts}
       \subseteq Nat \ {0}

IsText(symbols) == symbols \in Seq(Range(symbols))

Text(symbols) == <<"text", symbols>>

Redacted == Text(<<"<REDACTED>">>)

Unsupported == Text(<<"<unsupported:">>)

IsUnsupported(value) == value[1] = "text" /\ value[2] # <<>> /\ value[2][1] = "<unsupported:"

(* NFKC: fullwidth and other compatibility letters *)
Compatible(style) == IF style = "fullwidth" THEN "ascii" ELSE style

(* _CONFUSABLE_TO_ASCII, which holds small letters only, most without marks *)
Translate(style) == IF style = "lookalike" THEN "ascii" ELSE style

(* NFD, and the combining marks left out *)
Unmarked(style) ==
  CASE style = "accented" -> "ascii"
    [] style = "accented_lookalike" -> "lookalike"
    [] OTHER -> style

(* of ASCII capitals nothing is left to tell *)
CaseFold(style) == IF style = "capital_lookalike" THEN "lookalike" ELSE style

(***************************************************************************)
(* fold_name.  Lookalikes are translated before marks are stripped and     *)
(* case is folded: with a mark, or as a capital, one stays a lookalike.    *)
(***************************************************************************)
FoldName(name) == [name EXCEPT !.style = CaseFold(Unmarked(Translate(Compatible(@))))]

(* build_sensitive_set *)
SensitiveSet(redact) ==
  [base : SensitiveBases, style : {"ascii"}] \cup {FoldName(name) : name \in redact}

IsSensitive(name, sensitive) == FoldName(name) \in sensitive

(* Mutant: every redacted text is remembered. *)
ScrubbableAlways(value) == IF value[1] = "text" THEN {value[2]} ELSE {}

(* Mutant: a text of just the least length is not remembered. *)
ScrubbableLonger(value) ==
  IF value[1] = "text" /\ Len(value[2]) > MinScrubbable THEN {value[2]} ELSE {}

(* _redact: what is remembered of a redacted value for scrubbing. *)
Scrubbable(value) ==
  IF value[1] = "text" /\ Len(value[2]) >= MinScrubbable THEN {value[2]} ELSE {}

Raised == [ok |-> FALSE, value |-> Redacted, kept |-> {}]

Canonical(value, kept) == [ok |-> TRUE, value |-> value, kept |-> kept]

(* Mutant: named containers are walked by position. *)
HidesNothing(object, item, sensitive) == FALSE

(* The container has names, and that of the item is sensitive. *)
Hides(object, item, sensitive) ==
  object.shape # "list" /\ IsSensitive(item.name, sensitive)

(* The values a walk can come to. *)
Values(heap, value) ==
  {value} \cup {item.value : item \in
                  UNION {Range(heap[o].items) : o \in DOMAIN heap}}

Visits(heap, value) ==
  [value : Values(heap, value), depth : 0..(MaxDepth + 1), around : SUBSET DOMAIN heap]

(* The array or object that a container becomes, from what its items did. *)
Whole(object, walked) ==
  LET At(name) == CHOOSE i \in DOMAIN walked : object.items[i].name = name
  IN  IF object.shape = "list"
      THEN <<"array", [i \in DOMAIN walked |-> walked[i].value]>>
      ELSE <<"object", [name \in {object.items[i].name : i \in DOMAIN walked} |->
                          walked[At(name)].value]>>

Assembled(object, walked) ==
  IF \E i \in DOMAIN walked : ~walked[i].ok
  THEN Raised
  ELSE Canonical(Whole(object, walked), UNION {walked[i].kept : i \in DOMAIN walked})

(* _walk, where walk is what its calls of itself return.  The containers   *)
(* around the value are at.around.                                         *)
Visit(heap, sensitive, at, walk) ==
  LET object == heap[at.value[2]]
      items  == object.items
      walked == [i \in DOMAIN items |->
                   IF Hides(object, items[i], sensitive)
                   THEN Canonical(Redacted, Scrubbable(items[i].value))
                   ELSE walk[[value |-> items[i].value, depth |-> at.depth + 1,
                              around |-> at.around \cup {at.value[2]}]]]
  IN  IF at.depth > MaxDepth \/ at.value[1] = "nan" THEN Raised
      ELSE IF at.value[1] \in {"text", "number"} THEN Canonical(at.value, {})
      ELSE IF at.value[1] = "opaque" THEN Canonical(Unsupported, {})
      ELSE IF at.value[2] \in at.around THEN Raised
      ELSE IF object.shape = "mixed" THEN Canonical(Unsupported, {})
      ELSE Assembled(object, walked)

Walk(heap, sensitive, value, depth) ==
  LET walk[at \in Visits(heap, value)] == Visit(heap, sensitive, at, walk)
  IN  walk[[value |-> value, depth |-> depth, around |-> {}]]

(* The walk over one argument of a call: _redact or descend. *)
Entry(heap, sensitive, item) ==
  IF IsSensitive(item.name, sensitive)
  THEN Canonical(Redacted, Scrubbable(item.value))
  ELSE Walk(heap, sensitive, item.value, 1)

Canonicalize(heap, sensitive, value) == Walk(heap, sensitive, value, 0)

(* The canonical values at each depth inside one. *)
Nested(value) ==
  LET level[d \in 0..MaxDepth] ==
        IF d = 0 THEN {value}
        ELSE UNION {Range(v[2]) : v \in {u \in level[d - 1] : u[1] \in {"array", "object"}}}
  IN  level

(* The texts of a canonical value. *)
TextsOf(value) ==
  {v[2] : v \in {u \in UNION {Nested(value)[d] : d \in 0..MaxDepth} : u[1] = "text"}}

-----------------------------------------------------------------------------
(* The same, defined by the paths a reader of the object graph would take. *)

(* The values a visible container shows, in one step. *)
Shown(heap, sensitive, o) ==
  LET object == heap[o]
  IN  CASE object.shape = "mixed" -> {}
        [] object.shape = "list" -> {object.items[i].value : i \in DOMAIN object.items}
        [] object.shape = "named" ->
             {object.items[i].value : i \in
                {j \in DOMAIN object.items : ~IsSensitive(object.items[j].name, sensitive)}}

Hidden(heap, sensitive, o) ==
  LET object == heap[o]
  IN  IF object.shape # "named" THEN {} ELSE
        {object.items[i].value : i \in
           {j \in DOMAIN object.items : IsSensitive(object.items[j].name, sensitive)}}

(* The values at each depth below a value, as far as one too deep. *)
Levels(heap, sensitive, value) ==
  LET level[d \in 0..(MaxDepth + 1)] ==
        IF d = 0 THEN {value}
        ELSE UNION {Shown(heap, sensitive, v[2]) : v \in {u \in level[d - 1] : u[1] = "ref"}}
  IN  level

(* The values below one that is found at the given depth. *)
VisibleAt(heap, sensitive, value, depth) ==
  UNION {Levels(heap, sensitive, value)[d] : d \in 0..(MaxDepth + 1 - depth)}

Visible(heap, sensitive, value) == VisibleAt(heap, sensitive, value, 0)

(* Nothing is too deep, which no cycle avoids, and every float is finite. *)
Canonicalizable(heap, sensitive, value, depth) ==
  /\ Levels(heap, sensitive, value)[MaxDepth + 1 - depth] = {}
  /\ <<"nan">> \notin VisibleAt(heap, sensitive, value, depth)

(* The values, of whatever kind, that visible containers hide. *)
HiddenBelow(heap, sensitive, visible) ==
  UNION {Hidden(heap, sensitive, v[2]) : v \in {u \in visible : u[1] = "ref"}}

(* What is removed of one argument of a call: all of it, or what is hidden below. *)
Removed(heap, sensitive, item) ==
  IF IsSensitive(item.name, sensitive)
  THEN {item.value}
  ELSE HiddenBelow(heap, sensitive, VisibleAt(heap, sensitive, item.value, 1))

-----------------------------------------------------------------------------
(* redaction.py *)

OccursAt(text, raw, i) ==
  \A k \in DOMAIN raw : i + k - 1 \in DOMAIN text /\ text[i + k - 1] = raw[k]

(* str.replace: the text from each position on *)
Replace(text, raw) ==
  LET from[i \in 1..(Len(text) + 1)] ==
        IF i > Len(text) THEN <<>>
        ELSE IF OccursAt(text, raw, i) THEN Redacted[2] \o from[i + Len(raw)]
        ELSE <<text[i]>> \o from[i + 1]
  IN  from[1]

Cut(text, limit) ==
  IF Len(text) <= limit THEN text ELSE SubSeq(text, 1, limit) \o <<"...(truncated)">>

(* Mutant: shorter values first. *)
ShortestFirst(kept) ==
  {order \in SeqOf(kept, Cardinality(kept)) :
     /\ Range(order) = kept
     /\ \A i, j \in DOMAIN order : i < j => Len(order[i]) <= Len(order[j])}

(* sorted by length, descending; values of one length come in any order. *)
LongestFirst(kept) ==
  {order \in SeqOf(kept, Cardinality(kept)) :
     /\ Range(order) = kept
     /\ \A i, j \in DOMAIN order : i < j => Len(order[i]) >= Len(order[j])}

(* scrub_text: one value after the other, then the cut. *)
ScrubText(text, order) ==
  LET scrubbed[i \in 0..Len(order)] ==
        IF i = 0 THEN text ELSE Replace(scrubbed[i - 1], order[i])
  IN  Cut(scrubbed[Len(order)], MaxErrorChars)

(* The JSON of the value has too many characters: some text in it has. *)
IsLong(value) == \E text \in TextsOf(value) : Len(text) > MaxValueChars

TheCut == <<"cut">>

(* bounded_summary of an object, as its parts name=value in order of names. *)
BoundedSummary(object, names) ==
  [parts |-> [i \in DOMAIN names |->
                [name |-> names[i],
                 value |-> IF IsLong(object[names[i]]) THEN TheCut ELSE object[names[i]]]],
   cut |-> Len(names) > MaxSummaryParts]

=============================================================================
