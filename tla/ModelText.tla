------------------------------ MODULE ModelText ------------------------------
(***************************************************************************)
(* What is read out of a model's answer: the terms of an expansion and the *)
(* line of a rewriting (llm/expand_helpers.go, query_rewrite.go), JSON     *)
(* between prose and fences (agent/plan/parse.go, llm/selfquery.go), and   *)
(* the chunks of a document (knowledge/chunk.go).  A text is a sequence of *)
(* symbols: only those these functions tell apart, and "word".             *)
(***************************************************************************)
EXTENDS Selection

Blanks == {"blank", "newline"}

LeastOf(S) == CHOOSE i \in S : \A j \in S : i <= j
GreatestOf(S) == CHOOSE i \in S : \A j \in S : i >= j

\* strings.Trim, and the like.
TrimSymbols(s, symbols) ==
  LET kept == {i \in DOMAIN s : s[i] \notin symbols}
  IN IF kept = {} THEN <<>> ELSE SubSeq(s, LeastOf(kept), GreatestOf(kept))
TrimSpace(s) == TrimSymbols(s, Blanks)

From(s, i) == SubSeq(s, i, Len(s))
Before(s, i) == SubSeq(s, 1, i - 1)

\* strings.Index and LastIndex of one symbol, 0 if it is not there.
Index(s, symbol) == SelectInSeq(s, LAMBDA x : x = symbol)
LastIndex(s, symbol) == SelectLastInSeq(s, LAMBDA x : x = symbol)

-----------------------------------------------------------------------------
(***************************************************************************)
(* Query expansion: terms between bars, of which an explanation before an  *)
(* arrow is no part.                                                       *)
(***************************************************************************)
Separators == {"bar", "newline"}

AfterArrow(answer) == From(answer, Index(answer, "arrow") + 1)

Split(s) ==
  FoldLeft(LAMBDA parts, x : IF x \in Separators THEN Append(parts, <<>>)
                             ELSE [parts EXCEPT ![Len(parts)] = Append(@, x)],
           << <<>> >>, s)

Unquoted(part) == TrimSymbols(TrimSpace(part), {"quote"})

parseBarSeparatedTerms(answer) ==
  LET parts == Split(AfterArrow(TrimSpace(answer)))
  IN Filtered([i \in DOMAIN parts |-> Unquoted(parts[i])], LAMBDA t : t # <<>>)

dedupKeepOrder(terms) ==
  FoldLeft(LAMBDA kept, t : IF t = <<>> \/ Contains(kept, t) THEN kept ELSE Append(kept, t),
           <<>>, [i \in DOMAIN terms |-> TrimSpace(terms[i])])

expansionMaxTerms(wish) == IF wish <= 0 THEN 8 ELSE wish

\* The terms that joinExpanded puts after the query.
ExpandedQueryFromModelAnswer(answer, maxTerms) ==
  LET terms == dedupKeepOrder(parseBarSeparatedTerms(answer))
  IN IF maxTerms > 0 /\ Len(terms) > maxTerms THEN SubSeq(terms, 1, maxTerms) ELSE terms

(***************************************************************************)
(* ExpansionKeepsFirst: the terms are the first different ones of the      *)
(* answer, in its order: none is blank or there twice, and one is left out *)
(* only if as many as wanted come before it.  Said of stretches of the     *)
(* answer between separators.                                              *)
(***************************************************************************)
ExpansionKeepsFirst(answer, wish) ==
  LET s     == AfterArrow(TrimSpace(answer))
      max   == expansionMaxTerms(wish)
      terms == ExpandedQueryFromModelAnswer(answer, max)
      Bound(i) == i \in {0, Len(s) + 1} \/ s[i] \in Separators
      Stretches == {p \in (1 .. Len(s) + 1) \X (0 .. Len(s)) :
                      /\ p[1] <= p[2] + 1 /\ Bound(p[1] - 1) /\ Bound(p[2] + 1)
                      /\ \A i \in p[1] .. p[2] : ~Bound(i)}
      Word(p) == TrimSpace(Unquoted(SubSeq(s, p[1], p[2])))
      Offered == {p \in Stretches : Word(p) # <<>>}
      FirstAt(t) == LeastOf({p[1] : p \in {q \in Offered : Word(q) = t}})
  IN /\ Len(terms) <= max
     /\ ToSet(terms) \subseteq {Word(p) : p \in Offered}
     /\ \A i, j \in DOMAIN terms : i < j => FirstAt(terms[i]) < FirstAt(terms[j])
     /\ \A p \in Offered :
          ~Contains(terms, Word(p)) => Len(terms) = max /\ FirstAt(Last(terms)) < p[1]

-----------------------------------------------------------------------------
(***************************************************************************)
(* Query rewriting: one line, without a fence and one pair of quotes.      *)
(***************************************************************************)
TrimPrefix(s, symbol) == IF s # <<>> /\ Head(s) = symbol THEN Tail(s) ELSE s

\* Up to the first of the symbols.
CutAt(s, symbols) == LET i == SelectInSeq(s, LAMBDA x : x \in symbols)
                     IN IF i = 0 THEN s ELSE TrimSpace(Before(s, i))

Unfenced(s) ==
  IF s = <<>> \/ Head(s) # "fence" THEN s
  ELSE CutAt(TrimSpace(TrimPrefix(TrimPrefix(Tail(s), "plaintext"), "text")), {"fence"})

QuotePairs == {<<"quote", "quote">>, <<"apostrophe", "apostrophe">>, <<"left", "right">>}

NormalizeRewrittenQuery(answer) ==
  LET line == CutAt(Unfenced(TrimSpace(answer)), {"newline"})
  IN IF Len(line) >= 2 /\ <<Head(line), Last(line)>> \in QuotePairs
     THEN TrimSpace(SubSeq(line, 2, Len(line) - 1)) ELSE line

(***************************************************************************)
(* RewriteIsOneLine: the rewritten query is one line without blanks around *)
(* it, a stretch of the answer, and whatever fence with a known tag,       *)
(* quotes, blanks and further lines a model puts around a query of plain   *)
(* words, that query is what remains.                                      *)
(***************************************************************************)
Wrapped(query, fence, pair, blank) ==
  LET line == blank \o pair[1] \o query \o pair[2] \o blank
  IN CASE fence = "none" -> line
       [] fence = "rest" -> line \o <<"newline", "word">>
       [] fence = "fence" -> <<"fence", "newline">> \o line \o <<"newline", "fence">>
       [] OTHER -> <<"fence", fence, "newline">> \o line \o <<"fence">>

RewriteIsOneLine(answer) ==
  LET query == NormalizeRewrittenQuery(answer)
  IN /\ ~Contains(query, "newline")
     /\ query = TrimSpace(query)
     /\ \E i \in 1 .. Len(answer) + 1 : SubSeq(answer, i, i + Len(query) - 1) = query
     /\ ToSet(answer) \subseteq {"word", "blank"} =>
          \A fence \in {"none", "rest", "fence", "plaintext", "text"}, blank \in {<<>>, <<"blank">>},
             pair \in {<< <<>>, <<>> >>} \union {<< <<p[1]>>, <<p[2]>> >> : p \in QuotePairs} :
            TrimSpace(answer) # <<>> =>
              NormalizeRewrittenQuery(Wrapped(TrimSpace(answer), fence, pair, blank))
                = TrimSpace(answer)
=============================================================================
