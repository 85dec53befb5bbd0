------------------------------- MODULE Retrieval -------------------------------
(***************************************************************************)
(* Two translations into conditions of an index: a self-query's filters    *)
(* for Qdrant (src/llm/selfquery.go) and a search request for bleve        *)
(* (src/search/query_builder.go).  The indexes' reading of a condition is  *)
(* part of the model; each is checked against what the request means.      *)
(***************************************************************************)
EXTENDS Selection

CONSTANT TagSpelling   \* a place's spelling in a tag, lower-case and with _ for blanks, if another

(***************************************************************************)
(* A self-query: scalar fields, of which "" is blank, and lists.           *)
(***************************************************************************)
Scalars == {"namespace", "source", "doc_type", "location"}
Lists   == {"years", "dates", "tags"}

selfQueryDedupStrings(list) == ToSet(list) \ {""}

\* The tag that stands for a field's value.
TagPrefix == [doc_type |-> "type:", location |-> "loc:", years |-> "year:", dates |-> "date:"]
InTag(where) == IF where \in DOMAIN TagSpelling THEN TagSpelling[where] ELSE where
TagOf(field, value) == TagPrefix[field] \o (IF field = "location" THEN InTag(value) ELSE value)

ConditionMust(field, value)   == [kind |-> "value", field |-> field, of |-> {value}]
ConditionAny(field, values)   == [kind |-> "any", field |-> field, of |-> values]

Given(spec) == {f \in Scalars : spec[f] # ""} \union {f \in Lists : spec[f] # <<>>}

\* must, and the disjunction that is one more of its members; absent when
\* neither has any.
selfQuerySpecToQdrantFilter(spec) ==
  LET given == Given(spec)
      Values(f) == selfQueryDedupStrings(spec[f])
  IN [must |-> {ConditionMust(f, spec[f]) : f \in given \intersect Scalars},
      should |->
        {ConditionAny("tags", {TagOf(f, spec[f])}) : f \in given \intersect {"doc_type", "location"}}
        \union {ConditionAny(f, Values(f)) : f \in given \intersect Lists}
        \union {ConditionAny("tags", {TagOf(f, v) : v \in Values(f)}) :
                  f \in given \intersect {"years", "dates"}}]

\* Qdrant: a document, each field a set of values, meets a condition.
Meets(doc, condition) == doc[condition.field] \intersect condition.of # {}

Passes(doc, filter) ==
  /\ \A c \in filter.must : Meets(doc, c)
  /\ filter.should # {} => \E c \in filter.should : Meets(doc, c)

(***************************************************************************)
(* FilterMeansSpec: a document passes exactly if it has every scalar that  *)
(* was given and, when a kind, a place, years, dates or tags were given,   *)
(* tells of one of them - by its own field or by a tag; without any, every *)
(* document passes, and blank entries of a list admit nothing.             *)
(***************************************************************************)
FilterMeansSpec(spec, doc) ==
  LET Wanted(f) == IF f \in Scalars THEN {spec[f]} ELSE ToSet(spec[f]) \ {""}
      Tells(f, v) == \/ f = "tags" /\ v \in doc["tags"]
                     \/ f \in {"years", "dates"} /\ v \in doc[f]
                     \/ f \in DOMAIN TagPrefix /\ TagOf(f, v) \in doc["tags"]
      vague == Given(spec) \ {"namespace", "source"}
  IN Passes(doc, selfQuerySpecToQdrantFilter(spec)) <=>
       /\ \A f \in Scalars : spec[f] # "" => spec[f] \in doc[f]
       /\ vague # {} => \E f \in vague : \E v \in Wanted(f) : Tells(f, v)

-----------------------------------------------------------------------------
(***************************************************************************)
(* A search request.  A term, a match, a phrase, a prefix, a pattern, a    *)
(* fuzzy term and a query string are all conditions on a field, or on any  *)
(* field when it is ""; a range is one on the document's number.         *)
(***************************************************************************)
On(field, what) == [kind |-> "on", field |-> field, what |-> what]
AtLeast(clauses, min) == [kind |-> "atLeast", clauses |-> clauses, min |-> min]
InRange(range, inMin, inMax) == [kind |-> "range", range |-> range, inMin |-> inMin, inMax |-> inMax]

None == 100    \* a nil bound

rMin(r) == IF r.GT # None THEN r.GT ELSE r.GTE
rMax(r) == IF r.LT # None THEN r.LT ELSE r.LTE

KeywordClause(req, defaultFields) ==
  LET fields == IF req.searchFields = <<>> THEN defaultFields ELSE req.searchFields
      named  == Filtered(fields, LAMBDA f : f # "")
  IN IF req.keyword = "" THEN <<>>
     ELSE IF named = <<>> THEN <<On("", req.keyword)>>
     ELSE <<AtLeast([i \in DOMAIN named |-> On(named[i], req.keyword)], 1)>>

TermClauses(field, terms) == [i \in DOMAIN terms |-> On(field, terms[i])]

MustClauses(field, terms) ==
  CASE Len(terms) = 0 -> <<>>
    [] Len(terms) = 1 -> TermClauses(field, terms)
    [] OTHER -> <<AtLeast(TermClauses(field, terms), 1)>>

\* The clauses of a map from fields to terms, in some order; the terms of a
\* field that must have one of them are one clause.
FieldClauses(map, must) ==
  LET fields == SetToSeq(DOMAIN map)
      Clauses(f) == IF must THEN MustClauses(f, map[f]) ELSE TermClauses(f, map[f])
  IN FlattenSeq([i \in DOMAIN fields |-> Clauses(fields[i])])

\* bleve's numeric range takes its least bound in and leaves its greatest out.
NumericClauses(ranges) ==
  [i \in DOMAIN ranges |-> InRange([min |-> rMin(ranges[i]), max |-> rMax(ranges[i])], TRUE, FALSE)]

TimeClauses(ranges) ==
  [i \in DOMAIN ranges |-> InRange([min |-> ranges[i].From, max |-> ranges[i].To],
                                    ranges[i].IncFrom, ranges[i].IncTo)]

buildQuery(req, defaultFields) ==
  LET should == req.clauses \o FieldClauses(req.shouldTerms, FALSE)
      must   == KeywordClause(req, defaultFields) \o FieldClauses(req.mustTerms, TRUE)
                  \o NumericClauses(req.numericRanges) \o TimeClauses(req.timeRanges)
      enough == should # <<>> /\ req.minShould > 0
  IN [must    |-> IF enough THEN Append(must, AtLeast(should, req.minShould)) ELSE must,
      should  |-> IF enough THEN <<>> ELSE should,
      mustNot |-> FieldClauses(req.mustNotTerms, FALSE)]

-----------------------------------------------------------------------------
(***************************************************************************)
(* bleve: which documents a query finds.                                   *)
(***************************************************************************)
HitsField(doc, c) ==
  IF c.field = "" THEN \E f \in DOMAIN doc.fields : c.what \in doc.fields[f]
  ELSE c.what \in doc.fields[c.field]

HitsRange(doc, c) ==
  /\ c.range.min # None => doc.number > c.range.min \/ (c.inMin /\ doc.number = c.range.min)
  /\ c.range.max # None => doc.number < c.range.max \/ (c.inMax /\ doc.number = c.range.max)

HitsOne(doc, c) == IF c.kind = "on" THEN HitsField(doc, c) ELSE HitsRange(doc, c)

Hits(doc, c) ==
  IF c.kind = "atLeast" THEN Cardinality({i \in DOMAIN c.clauses : HitsOne(doc, c.clauses[i])}) >= c.min
  ELSE HitsOne(doc, c)

Finds(query, doc) ==
  /\ query.must # <<>> \/ query.should # <<>> \/ query.mustNot # <<>>
  /\ \A i \in DOMAIN query.must : Hits(doc, query.must[i])
  /\ \A i \in DOMAIN query.mustNot : ~Hits(doc, query.mustNot[i])
  /\ query.must = <<>> /\ query.should # <<>> =>
       \E i \in DOMAIN query.should : Hits(doc, query.should[i])

(***************************************************************************)
(* QueryMeansRequest: a document is found exactly if it has the keyword in *)
(* one of the fields, one of the terms of each field that must have some,  *)
(* none of the excluded ones, as many of the optional conditions as are    *)
(* asked for - one, if nothing else is - and numbers and times within the  *)
(* bounds.  Of a numeric range the least number is in and the greatest is  *)
(* out, whichever word was used: GT finds its own bound as GTE does, and   *)
(* LTE leaves its own bound out as LT does.                                *)
(***************************************************************************)
QueryMeansRequest(req, defaultFields, doc) ==
  LET Has(f, t) == IF f = "" THEN \E g \in DOMAIN doc.fields : t \in doc.fields[g] ELSE t \in doc.fields[f]
      fields  == ToSet(IF req.searchFields = <<>> THEN defaultFields ELSE req.searchFields)
      inside  == IF fields \subseteq {""} THEN {""} ELSE fields \ {""}
      chosen  == {i \in DOMAIN req.clauses : Has(req.clauses[i].field, req.clauses[i].what)}
      terms   == UNION {{f} \X DOMAIN req.shouldTerms[f] : f \in DOMAIN req.shouldTerms}
      chosenTerms == {p \in terms : Has(p[1], req.shouldTerms[p[1]][p[2]])}
      options == Len(req.clauses) + Cardinality(terms)
      firm == \/ req.keyword # "" \/ req.numericRanges # <<>> \/ req.timeRanges # <<>>
              \/ \E f \in DOMAIN req.mustTerms : req.mustTerms[f] # <<>>
      asked == IF options = 0 THEN 0
               ELSE IF req.minShould > 0 THEN req.minShould ELSE IF firm THEN 0 ELSE 1
      Outside(r) == \/ (r.GT # None /\ doc.number < r.GT) \/ (r.GTE # None /\ doc.number < r.GTE)
                    \/ (r.LT # None /\ doc.number >= r.LT) \/ (r.LTE # None /\ doc.number >= r.LTE)
      Untimely(r) == \/ r.From # None /\ (doc.number < r.From \/ (doc.number = r.From /\ ~r.IncFrom))
                     \/ r.To # None /\ (doc.number > r.To \/ (doc.number = r.To /\ ~r.IncTo))
  IN Finds(buildQuery(req, defaultFields), doc) <=>
       /\ firm \/ options > 0 \/ \E f \in DOMAIN req.mustNotTerms : req.mustNotTerms[f] # <<>>
       /\ req.keyword # "" => \E f \in inside : Has(f, req.keyword)
       /\ \A f \in DOMAIN req.mustTerms :
            req.mustTerms[f] # <<>> => \E t \in ToSet(req.mustTerms[f]) : Has(f, t)
       /\ \A f \in DOMAIN req.mustNotTerms : \A t \in ToSet(req.mustNotTerms[f]) : ~Has(f, t)
       /\ Cardinality(chosen) + Cardinality(chosenTerms) >= asked
       /\ \A i \in DOMAIN req.numericRanges : ~Outside(req.numericRanges[i])
       /\ \A i \in DOMAIN req.timeRanges : ~Untimely(req.timeRanges[i])
=============================================================================
