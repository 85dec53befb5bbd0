----------------------------- MODULE MCServices -----------------------------
(***************************************************************************)
(* The services on small instances.                                        *)
(***************************************************************************)
EXTENDS Services

CONSTANTS q1, q2, c1, c2, u1, u2, r1, r2, r3

\* Queries that expand the question, and do not rewrite it.
MCWishes == {{"expand"}}

\* A retry in another spelling, a batch that names one record twice, a UUID in
\* both cases, and a record without an id.
Id(name, spelling) == [name |-> name, spelling |-> spelling]
MCBatches == {<<Id(1, "plain")>>, <<Id(1, "padded"), Id(1, "upper")>>,
              <<Id(2, "upper")>>, <<Id(2, "plain"), Id(0, "plain")>>}

\* A plan whose first task may be done by the model, and one that may not.
MCPlans == {<<"model", "refused">>, <<"tool", "model">>}

\* Instances of one secret: without encryption, with a key, and with one of
\* a length AES does not know.
MCInstances == [secret : {"s"}, keyLength : {0, 16, 5}]

-----------------------------------------------------------------------------
(***************************************************************************)
(* The questions for Algorithms.                                           *)
(***************************************************************************)
Texts(symbols, n) == BoundedSeq(symbols, n)
Fences == {"none", "plain", "tagged", "open"}
Prose == {<<>>, <<"word">>, <<"{", "word", "}">>, <<"{">>}
Openers == {<<"[", "word", "]">>, <<"[">>, <<"[", "{">>, <<"{", "[">>}
Closers == {<<>>, <<"word">>, <<"}">>, <<"]">>}

TextInputs ==
  [algo : {"expand"}, wish : {2},
   answer : Texts({"w", "v", "bar", "newline", "blank", "arrow", "quote"}, 4)
              \union Texts({"w", "v", "bar", "quote"}, 5)]
  \union [algo : {"rewrite"},
          answer : Texts({"fence", "text", "newline", "blank", "quote", "left", "right", "word"}, 4)
                     \union Texts({"fence", "plaintext", "apostrophe", "word"}, 4)]
  \union [algo : {"balanced"}, answer : Texts({"{", "}", "quote", "backslash"}, 6)]
  \union [algo : {"object"}, names : Texts(ObjectNames, 2), before : Prose, fence : Fences,
          after : Prose, limit : {2, 4}]
  \union [algo : {"chunks"}, open : {"{", "["}, items : ItemLists,
          before : Prose \union Openers, fence : Fences, after : Closers]

MessageInputs ==
  [algo : {"messages"}, text : {"", "a"}, base : {"", "base"},
   messages : Texts([role : Roles, content : {"", "a"}], 3)
                \union Texts([role : {"user", "tool"}, content : {"a", "b"}], 2)]

MCTagSpelling == [p \in {"V v"} |-> "v_v"]

Lists2 == {<<>>, <<"">>, <<"y", "">>}
MCDocs == [namespace : SUBSET {"v"}, source : {{"v"}}, doc_type : SUBSET {"v"},
           location : SUBSET {"V v"}, years : SUBSET {"y"}, dates : SUBSET {"y"},
           tags : {{}} \union {{t} : t \in {"type:v", "loc:v_v", "loc:V v", "year:y", "date:y", "y"}}]
FilterInputs ==
  [algo : {"filter"}, docs : {MCDocs},
   spec : [namespace : {"", "v"}, source : {"v"}, doc_type : {"", "v"}, location : {"", "V v"},
           years : Lists2, dates : Lists2, tags : Lists2]]

Found == [fields : [{"f", "g"} -> SUBSET {"a", "b"}], number : {1}]
Numbered == [fields : [{"f", "g"} -> {{"a"}}], number : 0 .. 3]
Terms == {<<>>, <<"a">>, <<"a", "b">>}
Bounds == {1, 2, None}
NumericRanges == {r \in [GT : Bounds, GTE : Bounds, LT : Bounds, LTE : Bounds] :
  /\ None \in {r.GT, r.GTE} /\ None \in {r.LT, r.LTE}
  /\ {r.GT, r.GTE, r.LT, r.LTE} # {None}}
TimeRanges == {r \in [From : Bounds, To : Bounds, IncFrom : BOOLEAN, IncTo : BOOLEAN] :
  {r.From, r.To} # {None}}
Queried(keywords, fields, terms, clauses, numeric, time) ==
  [keyword : keywords, searchFields : fields, mustTerms : [{"f"} -> terms],
   mustNotTerms : [{"g"} -> terms], shouldTerms : [{"g"} -> terms],
   clauses : clauses, minShould : 0 .. 2, numericRanges : numeric, timeRanges : time]
QueryInputs ==
  [algo : {"query"}, docs : {Found}, fields : {<<>>, <<"g">>},
   request : Queried({"", "a"}, {<<>>, <<"f", "">>, <<"">>}, Terms,
                     {<<>>, <<On("f", "a")>>, <<On("", "b")>>}, {<<>>}, {<<>>})]
  \union [algo : {"query"}, docs : {Numbered}, fields : {<<>>},
          request : Queried({"", "a"}, {<<>>}, {<<>>}, {<<>>},
                            Texts(NumericRanges, 1), Texts(TimeRanges, 1))]

Line == {<<0, 0>>, <<1, 0>>, <<2, 0>>}
Clicks(pts, n) == [algo : {"clicks"}, stored : Texts(pts, n), answers : Texts(pts, n),
                      tolerance : {1}]
ClickInputs == Clicks(Line, 3) \union Clicks(Line \union {<<1, 1>>}, 2)

MCInputs == TextInputs \union MessageInputs \union FilterInputs \union QueryInputs
              \union ClickInputs
=============================================================================
