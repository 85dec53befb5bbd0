------------------------------ MODULE Algorithms ------------------------------
(***************************************************************************)
(* The functions without state: a behaviour asks one of them one question. *)
(* The questions are given by the instance; a property compares what the   *)
(* code's steps give with what the answer should mean.                     *)
(***************************************************************************)
EXTENDS ModelJSON, PromptMessages, Retrieval, ClickMatch

CONSTANT AlgorithmInputs

VARIABLE input

NoInput == [algo |-> "none"]

-----------------------------------------------------------------------------
(***************************************************************************)
(* The questions that can be asked.  An answer is made of symbols that are *)
(* told apart; prose around JSON has no fences, no quotes around chunks,   *)
(* and no other object before the names; a click is a point.               *)
(***************************************************************************)
IsSeq(s) == s \in Seq(ToSet(s))

\* The symbols that rewriting tells apart, and "word".
Symbols == {"word", "blank", "newline", "fence", "text", "plaintext",
            "quote", "apostrophe", "left", "right", "bar", "arrow"}
Text == Seq(Symbols)

Kinds == {"none", "plain", "tagged", "open"}
NoObject(s) == \A l, r \in 1 .. Len(s) : ~IsObject(SubSeq(s, l, r))
IsProse(s, unsaid) == IsSeq(s) /\ ToSet(s) \intersect unsaid = {}

\* The requests that a caller can make, of the fields F and the words W.  Of
\* a range, a nil bound is None, and one bound of each kind at most is given.
Conditions(F, W) == [kind : {"on"}, field : F, what : W]
IsTerms(map, F, W) ==
  IsFiniteSet(DOMAIN map) /\ DOMAIN map \subseteq F /\ \A f \in DOMAIN map : map[f] \in Seq(W)
NumericBounds == {r \in [GT : Int, GTE : Int, LT : Int, LTE : Int] :
  /\ None \in {r.GT, r.GTE} /\ None \in {r.LT, r.LTE}
  /\ {r.GT, r.GTE, r.LT, r.LTE} # {None}}
TimeBounds == {r \in [From : Int, To : Int, IncFrom : BOOLEAN, IncTo : BOOLEAN] :
  {r.From, r.To} # {None}}
IsRequest(req, F, W) ==
  /\ req.searchFields \in Seq(F)
  /\ req.clauses \in Seq(Conditions(F, W))
  /\ IsTerms(req.shouldTerms, F, W) /\ IsTerms(req.mustTerms, F, W) /\ IsTerms(req.mustNotTerms, F, W)
  /\ req.minShould \in Int
  /\ req.numericRanges \in Seq(NumericBounds) /\ req.timeRanges \in Seq(TimeBounds)

Points == Int \X Int

IsQuestion(i) ==
  \/ i.algo = "expand" /\ IsSeq(i.answer) /\ i.wish \in Int
  \/ i.algo = "rewrite" /\ i.answer \in Text
  \/ i.algo = "balanced" /\ IsSeq(i.answer)
  \/ /\ i.algo = "object" /\ i.names \in Seq(ObjectNames) /\ i.fence \in Kinds /\ i.limit \in Int
     /\ IsProse(i.before, {"fence", "json"}) /\ IsProse(i.after, {"fence", "json"}) /\ NoObject(i.before)
  \/ /\ i.algo = "chunks" /\ i.items \in ItemLists /\ i.open \in {"{", "["} /\ i.fence \in Kinds
     /\ IsProse(i.before, {"fence", "json", "quote"}) /\ IsProse(i.after, {"fence", "json", "quote"})
  \/ i.algo = "messages" /\ IsSeq(i.messages)
  \/ i.algo = "filter"
  \/ /\ i.algo = "query" /\ IsRequest(i.request, STRING, STRING) /\ i.fields \in Seq(STRING)
     /\ \A doc \in i.docs : doc.number \in Int
  \/ /\ i.algo = "clicks" /\ i.stored \in Seq(Points) /\ i.answers \in Seq(Points)
     /\ i.tolerance \in Nat

ASSUME QuestionsAssumption == \A i \in AlgorithmInputs : IsQuestion(i)

-----------------------------------------------------------------------------
AlgorithmsInit == input \in AlgorithmInputs

(***************************************************************************)
(* AlgorithmsAgree: each function does what is said of it in its module:   *)
(* expanding and rewriting queries, finding JSON in answers, building the  *)
(* messages and the filters of a request, and comparing clicks.            *)
(***************************************************************************)
AlgorithmsAgree ==
  LET i == input
  IN CASE i.algo = "none"     -> TRUE
       [] i.algo = "expand"   -> ExpansionKeepsFirst(i.answer, i.wish)
       [] i.algo = "rewrite"  -> RewriteIsOneLine(i.answer)
       [] i.algo = "balanced" -> BalancedIsValue(i.answer, "{")
       [] i.algo = "object"   -> ObjectsAreFound(i.names, i.before, i.fence, i.after, i.limit)
       [] i.algo = "chunks"   -> ChunksAreRead(i.items, i.open, i.before, i.fence, i.after)
       [] i.algo = "messages" -> NothingIsLost(i.text, i.messages, i.base)
       [] i.algo = "filter"   -> \A doc \in i.docs : FilterMeansSpec(i.spec, doc)
       [] i.algo = "query"    -> \A doc \in i.docs : QueryMeansRequest(i.request, i.fields, doc)
       [] i.algo = "clicks"   -> ClicksAreMatched(i.stored, i.answers, i.tolerance)
=============================================================================
