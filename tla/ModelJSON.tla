------------------------------ MODULE ModelJSON ------------------------------
(***************************************************************************)
(* JSON in a model's answer, between prose and fences: the object of a     *)
(* plan (agent/plan/parse.go, plan.go, validate.go) or of a self-query     *)
(* (llm/selfquery.go), and the chunks of a document (knowledge/chunk.go).  *)
(* A text is a sequence of symbols; json.Unmarshal accepts the texts that  *)
(* are built here as values, and gives what they were built from.          *)
(***************************************************************************)
EXTENDS ModelText

Closing(open) == IF open = "{" THEN "}" ELSE "]"

\* Fault for AlgorithmsAgree: an escaped quote ends the string.
ReadUnescaped(state, x, open) ==
  IF state.inString THEN [state EXCEPT !.inString = x # "quote"]
  ELSE IF x = "quote" THEN [state EXCEPT !.inString = TRUE]
  ELSE IF x = open THEN [state EXCEPT !.depth = @ + 1]
  ELSE IF x = Closing(open) THEN [state EXCEPT !.depth = @ - 1]
  ELSE state

\* One step of the scan.
ReadSymbol(state, x, open) ==
  IF state.escape THEN [state EXCEPT !.escape = FALSE]
  ELSE IF state.inString THEN [state EXCEPT !.escape = x = "backslash", !.inString = x # "quote"]
  ELSE IF x = "quote" THEN [state EXCEPT !.inString = TRUE]
  ELSE IF x = open THEN [state EXCEPT !.depth = @ + 1]
  ELSE IF x = Closing(open) THEN [state EXCEPT !.depth = @ - 1]
  ELSE state

\* The value that opens at start, or <<>>.
extractBalancedDelimiters(s, start, open) ==
  LET Scan(state, i) ==
        IF i <= start \/ state.end # 0 THEN state
        ELSE LET next == ReadSymbol(state, s[i], open)
             IN [next EXCEPT !.end = IF next.depth = 0 THEN i ELSE 0]
      end == FoldLeftDomain(Scan, [depth |-> 1, inString |-> FALSE, escape |-> FALSE, end |-> 0],
                            s).end
  IN SubSeq(s, start, end)

(***************************************************************************)
(* BalancedIsValue: what is cut out ends at the first closing symbol that  *)
(* is outside of strings and balances the opening one.  A quote opens or   *)
(* closes a string unless an odd number of backslashes in the string       *)
(* stand before it - said here without a scan.                             *)
(***************************************************************************)
BalancedIsValue(s, open) ==
  LET start  == Index(s, open)
      after  == {i \in DOMAIN s : i > start}
      quotes == {i \in after : s[i] = "quote"}
      Inside(D, i) == Cardinality({d \in D : d < i}) % 2 = 1
      Escapes(i) == Cardinality({j \in after : j < i /\ \A k \in j .. i - 1 : s[k] = "backslash"})
      Delimits(D) == \A q \in quotes : q \in D <=> (Inside(D, q) => Escapes(q) % 2 = 0)
      D == CHOOSE E \in SUBSET quotes : Delimits(E)
      Out(x, i) == {j \in after : j <= i /\ s[j] = x /\ ~Inside(D, j)}
      ends == {i \in after : /\ s[i] = Closing(open) /\ ~Inside(D, i)
                             /\ Cardinality(Out(Closing(open), i)) = Cardinality(Out(open, i)) + 1}
  IN start > 0 => extractBalancedDelimiters(s, start, open)
                    = IF ends = {} THEN <<>> ELSE SubSeq(s, start, LeastOf(ends))

-----------------------------------------------------------------------------
(***************************************************************************)
(* The object of a plan or of a self-query.  "fence" and "json" are        *)
(* the two parts of the fence a model is fond of.                          *)
(***************************************************************************)
\* The first place where a fence stands, with its tag when tag is TRUE.
FenceAt(s, tag) ==
  LET at == {i \in DOMAIN s : s[i] = "fence" /\ (tag => i < Len(s) /\ s[i + 1] = "json")}
  IN IF at = {} THEN 0 ELSE LeastOf(at)

BetweenBraces(s) ==
  LET l == Index(s, "{")  r == LastIndex(s, "}")
  IN IF l > 0 /\ r > l THEN SubSeq(s, l, r) ELSE <<>>

\* What a tagged fence holds, if it is closed.
InTaggedFence(s) ==
  LET i == FenceAt(s, TRUE)
      rest == From(s, i + 2)
  IN [found |-> i > 0 /\ Contains(rest, "fence"),
      text  |-> TrimSpace(Before(rest, Index(rest, "fence")))]

\* llm: the answer is cut first.
ExtractJSONFromLLMOutput(answer, maxChars) ==
  LET trimmed == TrimSpace(answer)
      s == IF maxChars > 0 /\ Len(trimmed) > maxChars THEN SubSeq(trimmed, 1, maxChars) ELSE trimmed
  IN IF InTaggedFence(s).found THEN InTaggedFence(s).text ELSE BetweenBraces(s)

\* agent/plan: a fence without a tag counts too, if it holds an object.
ExtractJSON(answer) ==
  LET s     == TrimSpace(answer)
      rest  == From(s, FenceAt(s, FALSE) + 1)
      inner == TrimSpace(Before(rest, LastIndex(rest, "fence")))
  IN IF InTaggedFence(s).found THEN InTaggedFence(s).text
     ELSE IF /\ FenceAt(s, FALSE) > 0 /\ Contains(rest, "fence")
             /\ inner # <<>> /\ Head(inner) = "{" THEN inner
     ELSE BetweenBraces(s)

\* An object with names in it, which json.Unmarshal reads.
ObjectNames == {"a", "b", "blank"}
Object(names) == <<"{">> \o names \o <<"}">>
IsObject(text) ==
  Len(text) >= 2 /\ text = Object(SubSeq(text, 2, Len(text) - 1))
    /\ ToSet(SubSeq(text, 2, Len(text) - 1)) \subseteq ObjectNames

NamesIn(json, answer) ==
  LET text == IF json = <<>> THEN TrimSpace(answer) ELSE json
  IN IF IsObject(text) THEN SubSeq(text, 2, Len(text) - 1) ELSE <<"error">>

Validate(tasks, maxTasks) ==
  /\ tasks # <<>> /\ Len(tasks) <= maxTasks
  /\ ~Contains(tasks, "blank")
  /\ \A i, j \in DOMAIN tasks : tasks[i] = tasks[j] => i = j

\* LLMDecomposer.Decompose, up to the goal: the tasks, or an error.
MaxTasks(req, own) == IF req > 0 THEN req ELSE IF own > 0 THEN own ELSE 6

DecomposeAnswer(answer, req, own) ==
  LET tasks == NamesIn(ExtractJSON(answer), answer)
  IN IF Validate(tasks, MaxTasks(req, own)) THEN tasks ELSE <<"error">>

\* SelfQueryExtractor.Extract, up to the filters: what the answer names.
Extract(answer, maxChars) == NamesIn(ExtractJSONFromLLMOutput(answer, maxChars), answer)

Around(before, fence, text, after) ==
  CASE fence = "none" -> before \o text \o after
    [] fence = "plain" -> before \o <<"fence", "newline">> \o text \o <<"fence">> \o after
    [] fence = "tagged" -> before \o <<"fence", "json">> \o text \o <<"blank", "fence">> \o after
    [] fence = "open" -> before \o <<"fence", "json">> \o text

(***************************************************************************)
(* ObjectsAreFound: whatever plain prose and fences a model puts around an *)
(* object, the planner and the self-query read that object; prose with     *)
(* braces does no harm when the object is in a fence - for a self-query in *)
(* one with a tag.  A plan is one to six different tasks, or an error, and *)
(* an answer that is cut at the limit is read whole or not at all.         *)
(***************************************************************************)
ObjectsAreFound(names, before, fence, after, limit) ==
  LET answer == Around(before, fence, Object(names), after)
      plain  == "{" \notin ToSet(before) /\ "}" \notin ToSet(after)
      plan   == DecomposeAnswer(answer, 0, 0)
      sound  == /\ names # <<>> /\ ~Contains(names, "blank")
                /\ Cardinality(ToSet(names)) = Len(names)
  IN /\ plain \/ fence \in {"plain", "tagged"} => plan = IF sound THEN names ELSE <<"error">>
     /\ plan = <<"error">> \/ DecomposeAnswer(answer, 1, 3) = IF Len(plan) = 1 THEN plan ELSE <<"error">>
     /\ plain \/ fence = "tagged" => /\ Extract(answer, 0) = names
                                     /\ Extract(answer, limit) \in {names, <<"error">>}

-----------------------------------------------------------------------------
(***************************************************************************)
(* The chunks of a document: an object, an array, or what is between the   *)
(* outermost brackets.  An item is an object whose text may hold brackets. *)
(***************************************************************************)
ItemTexts == {"word", "]", "}"}
Array(items) ==
  <<"[">> \o FlattenSeq([i \in DOMAIN items |-> <<"{", "quote", items[i], "quote", "}">>]) \o <<"]">>
ChunkObject(items) == <<"{", "chunks">> \o Array(items) \o <<"}">>
Value(open, items) == IF open = "{" THEN ChunkObject(items) ELSE Array(items)

CONSTANT MaxItems   \* of an answer

ASSUME ChunksAssumption == MaxItems \in Nat

ItemLists == BoundedSeq(ItemTexts, MaxItems)

\* What json.Unmarshal makes of a text: nothing when it fails, or when there
\* is no such key.
ItemsIn(text, open) ==
  IF \E items \in ItemLists : text = Value(open, items)
  THEN CHOOSE items \in ItemLists : text = Value(open, items) ELSE <<>>

stripMarkdownCodeFence(s) ==
  LET i     == IF FenceAt(s, TRUE) > 0 THEN FenceAt(s, TRUE) ELSE FenceAt(s, FALSE)
      rest  == From(s, i + 1)
      inner == TrimSpace(Before(rest, Index(rest, "fence")))
  IN IF i = 0 \/ ~Contains(rest, "fence") THEN s
     ELSE TrimSpace(TrimPrefix(inner, "json"))

extractJSONArrayStringLegacy(s) ==
  LET start == Index(s, "[")  end == LastIndex(s, "]")
  IN IF start > 0 /\ end > start THEN TrimSpace(SubSeq(s, start, end)) ELSE s

\* <<>> is an error: an answer without chunks is one.
parseLLMChunks(answer) ==
  LET s == stripMarkdownCodeFence(TrimSpace(answer))
      ValueAt(open) == IF Contains(s, open)
                       THEN extractBalancedDelimiters(s, Index(s, open), open) ELSE <<>>
      object == ItemsIn(ValueAt("{"), "{")
      array  == ItemsIn(ValueAt("["), "[")
  IN IF object # <<>> THEN object
     ELSE IF array # <<>> THEN array
     ELSE ItemsIn(extractJSONArrayStringLegacy(s), "[")

(***************************************************************************)
(* ChunksAreRead: no answer gives other chunks than the ones it holds, and *)
(* prose around them costs none as long as it opens no bracket of the kind *)
(* that is looked for - an object needs its prose to avoid one kind only.  *)
(***************************************************************************)
ChunksAreRead(items, open, before, fence, after) ==
  LET chunks == parseLLMChunks(Around(before, fence, Value(open, items), after))
      opens  == IF fence \in {"plain", "tagged"} THEN {} ELSE ToSet(before) \intersect {"{", "["}
      survives == "[" \notin opens \/ ("{" \notin opens /\ open = "{")
  IN chunks = items \/ (chunks = <<>> /\ ~survives)
=============================================================================
