--------------------------- MODULE MCCallContent ---------------------------
(***************************************************************************)
(* An instance of CallContent for TLC.  Each object is in one of a few     *)
(* states: with and without sensitive names, in other letters too, shared  *)
(* and cyclic, with what is too long, not finite or has no names.          *)
(***************************************************************************)
EXTENDS CallContent

CONSTANTS o1, o2

Token == [base |-> "token", style |-> "ascii"]
TokenLookalike == [base |-> "token", style |-> "lookalike"]
TokenAccented == [base |-> "token", style |-> "accented"]
Pin == [base |-> "pin", style |-> "capital_lookalike"]
User == [base |-> "user", style |-> "ascii"]

Bob == Text(<<"b">>)
LongText == Text(<<"l", "l", "l", "l">>)
Key == Text(<<"x", "y">>)
LongerKey == Text(<<"x", "y", "z">>)

Named(items) == [shape |-> "named", items |-> items]
List(values) ==
  [shape |-> "list", items |-> [i \in DOMAIN values |-> [name |-> User, value |-> values[i]]]]
Is(name, value) == [name |-> name, value |-> value]

MCContents ==
  [o \in {o1, o2} |->
     IF o = o1
     THEN {Named(<<Is(User, Bob), Is(TokenLookalike, Key)>>),
           Named(<<Is(User, <<"ref", o2>>), Is(TokenAccented, <<"ref", o1>>)>>),
           List(<<LongText, <<"opaque">>, <<"ref", o2>>>>),
           [shape |-> "mixed", items |-> <<Is(User, Bob)>>]}
     ELSE {Named(<<Is(Pin, LongerKey)>>),
           Named(<<Is(User, <<"ref", o1>>)>>),
           List(<<<<"nan">>>>)}]

MCArgumentsOf ==
  [n \in {Token, User} |->
     IF n = Token
     THEN {LongerKey, Bob}
     ELSE {<<"ref", o1>>, <<"ref", o2>>, LongText, <<"opaque">>, Redacted}]

Tool(kind, mark, params) == [kind |-> kind, mark |-> mark, params |-> params]

Settings(action, valid, redact, metadata) ==
  [action |-> action, valid |-> valid, redact |-> redact, metadata |-> metadata]

Usual == Settings("pay", TRUE, {Pin}, <<"ref", o1>>)

Plain == Settings("list", TRUE, {}, Absent)

MCRegistrations ==
  {[how |-> how, tools |-> <<tool>>, settings |-> <<settings>>] :
      how \in {"guard", "wrap_tool"},
      tool \in {Tool("sync", FALSE, <<Token, User>>), Tool("generator", FALSE, <<>>),
                Tool("async", TRUE, <<User>>)},
      settings \in {Usual, Settings("pay", FALSE, {}, Absent),
                    Settings("pay", TRUE, {}, LongText)}}
  \cup
  {[how |-> "wrap_tools",
    tools |-> <<Tool("async", FALSE, <<User>>), Tool("sync", FALSE, <<>>)>>,
    settings |-> <<first, second>>] :
      first \in {Plain, Usual}, second \in {Usual, Absent}}

MCObjects == {o1, o2}

MCOrdinary == {<<"e">>}

=============================================================================
