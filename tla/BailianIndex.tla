---------------------------- MODULE BailianIndex ----------------------------
(***************************************************************************)
(* The Bailian knowledge base of src/knowledge/aliyun.go: documents in the *)
(* remote indexes, which are listed page by page.  Upsert only submits a   *)
(* job, so documents appear later; while somebody goes through the pages,  *)
(* others add and delete.  The order of a listing is the remote's: a new   *)
(* document may appear anywhere in it.                                     *)
(***************************************************************************)
EXTENDS Naturals, Sequences, FiniteSets, SequencesExt, FiniteSetsExt

CONSTANTS Indexes, DefaultIndex, Documents, Readers, PageSize, MaxPages, MaxChanges

ASSUME BailianAssumption ==
  /\ DefaultIndex \in Indexes /\ IsFiniteSet(Documents)
  /\ PageSize \in Nat \ {0} /\ MaxPages \in Nat /\ MaxChanges \in Nat

VARIABLES
  documents,   \* per index, in the order of its listing
  jobs,        \* submitted and not carried out: pairs of index and document
  reader,      \* what each caller of Get, List or Query is doing
  present,     \* history: documents that have been there since the call began
  appeared,    \* history: documents that were there at some time of the call
  shrunk,      \* history: a document was deleted during the call
  changes      \* bound: jobs and deletions so far

bailianVars == <<documents, jobs, reader, present, appeared, shrunk, changes>>

NoNamespace == ""
AtRest == [doing |-> "nothing", done |-> FALSE]

BailianInit ==
  /\ documents = [i \in Indexes |-> <<>>]
  /\ jobs = {}
  /\ reader = [r \in Readers |-> AtRest]
  /\ present = [r \in Readers |-> {}] /\ appeared = [r \in Readers |-> {}]
  /\ shrunk = [r \in Readers |-> FALSE]
  /\ changes = 0

\* resolveIndexID and its four siblings.
resolveIndexID(namespace) == IF namespace = NoNamespace THEN DefaultIndex ELSE namespace
SomeIndex == {resolveIndexID(namespace) : namespace \in Indexes \union {NoNamespace}}

Reading(i) == {r \in Readers : reader[r] # AtRest /\ reader[r].index = i}

-----------------------------------------------------------------------------
(***************************************************************************)
(* Upsert: a record names its document in its id or in one of two metadata *)
(* keys, and one record without a name refuses them all.  Delete leaves    *)
(* blank ids out.  The remote may have obeyed although the call fails.     *)
(***************************************************************************)
NoName == ""
DocumentName(record) ==
  IF record.id # NoName THEN record.id
  ELSE IF record.document_id # NoName THEN record.document_id
  ELSE record.bailian_document_id

SubmitDocuments(i, records) ==
  /\ records # {} /\ changes < MaxChanges
  /\ \A record \in records : DocumentName(record) # NoName
  /\ changes' = changes + 1
  /\ jobs' = jobs \union {<<i, DocumentName(record)>> : record \in records}
  /\ UNCHANGED <<documents, reader, present, appeared, shrunk>>

CarryOut(job) ==
  LET i == job[1] d == job[2] IN
  /\ jobs' = jobs \ {job}
  /\ \/ UNCHANGED <<documents, appeared>>
     \/ /\ d \notin ToSet(documents[i])
        /\ \E place \in 1 .. Len(documents[i]) + 1 :
             documents' = [documents EXCEPT ![i] = InsertAt(@, place, d)]
        /\ appeared' = [r \in Readers |-> appeared[r] \union (IF r \in Reading(i) THEN {d} ELSE {})]
  /\ UNCHANGED <<reader, present, shrunk, changes>>

\* What is left of a listing is listed as it was before.
InOrderOf(rest, listing) == \A j, k \in DOMAIN rest, m, n \in DOMAIN listing :
  rest[j] = listing[m] /\ rest[k] = listing[n] => (j < k <=> m < n)

DeleteDocuments(i, ids) ==
  /\ changes < MaxChanges
  /\ LET named == ids \ {NoName} IN
     /\ named # {}
     /\ \E rest \in SetToSeqs(ToSet(documents[i]) \ named) :
          /\ InOrderOf(rest, documents[i])
          /\ documents' = [documents EXCEPT ![i] = rest]
     /\ present' = [r \in Readers |-> IF r \in Reading(i) THEN present[r] \ named ELSE present[r]]
     /\ shrunk' = [r \in Readers |-> shrunk[r] \/ r \in Reading(i)]
  /\ changes' = changes + 1
  /\ UNCHANGED <<jobs, reader, appeared>>

-----------------------------------------------------------------------------
(***************************************************************************)
(* Get asks for pages until it has found what it wants, the pages end or   *)
(* there have been MaxPages; a walk with List follows NextOffset.          *)
(***************************************************************************)
BeginReading(r, doing, i, wanted) ==
  /\ reader[r] = AtRest
  /\ reader' = [reader EXCEPT ![r] =
       [doing |-> doing, index |-> i, wanted |-> wanted, page |-> 1, found |-> {},
        done |-> FALSE]]
  /\ present' = [present EXCEPT ![r] = ToSet(documents[i])]
  /\ appeared' = [appeared EXCEPT ![r] = ToSet(documents[i])]
  /\ shrunk' = [shrunk EXCEPT ![r] = FALSE]
  /\ UNCHANGED <<documents, jobs, changes>>

BeginGet(r, i, ids) == ids \ {NoName} # {} /\ BeginReading(r, "get", i, ids \ {NoName})
BeginList(r, i)     == BeginReading(r, "list", i, Documents)

PageOf(i, n) == SubSeq(documents[i], PageSize * (n - 1) + 1, Min({PageSize * n, Len(documents[i])}))

\* Fault for KnowledgeRight: a page that is not full is taken for an end
\* before it has been looked at.
PageAfterLook(r, page) ==
  LET full == Len(page) = PageSize IN
  [reader[r] EXCEPT
     !.page = @ + 1,
     !.found = IF full THEN @ \union (ToSet(page) \intersect reader[r].wanted) ELSE @,
     !.done = ~full]

\* What is known after a page: the next one is asked for only if this one was
\* full, and Get has a bound on pages and stops when nothing is missing.
PageRead(r, page) ==
  LET found == reader[r].found \union (ToSet(page) \intersect reader[r].wanted)
      last == Len(page) < PageSize
      enough == reader[r].doing = "get"
                  /\ (reader[r].page = MaxPages \/ Cardinality(found) = Cardinality(reader[r].wanted))
  IN [reader[r] EXCEPT !.page = @ + 1, !.found = found,
                       !.done = last \/ enough]

ReadPage(r) ==
  /\ reader[r] # AtRest /\ ~reader[r].done
  /\ reader' = [reader EXCEPT ![r] = PageRead(r, PageOf(@.index, @.page))]
  /\ UNCHANGED <<documents, jobs, present, appeared, shrunk, changes>>

\* A request fails and the call with it.
RequestFails(r) ==
  /\ reader[r] # AtRest /\ ~reader[r].done
  /\ reader' = [reader EXCEPT ![r] = AtRest]
  /\ UNCHANGED <<documents, jobs, present, appeared, shrunk, changes>>

\* Query: the remote returns at most as many as are asked for.
DenseSimilarityTopK(topK) == IF topK \in 1 .. 100 THEN topK ELSE 5
RerankTopN(topK) == Min({DenseSimilarityTopK(topK), 20})

Retrieve(r, i, topK) ==
  /\ reader[r] = AtRest
  /\ \E found \in SUBSET ToSet(documents[i]) :
       /\ Cardinality(found) <= RerankTopN(topK)
       /\ reader' = [reader EXCEPT ![r] =
            [doing |-> "query", index |-> i, wanted |-> {}, page |-> 1, found |-> found,
             done |-> TRUE]]
  /\ present' = [present EXCEPT ![r] = ToSet(documents[i])]
  /\ appeared' = [appeared EXCEPT ![r] = ToSet(documents[i])]
  /\ UNCHANGED <<documents, jobs, shrunk, changes>>

EndReading(r) ==
  /\ reader[r].done
  /\ reader' = [reader EXCEPT ![r] = AtRest]
  /\ UNCHANGED <<documents, jobs, present, appeared, shrunk, changes>>

SomeIds == {ids \in SUBSET (Documents \union {NoName}) : Cardinality(ids) \in 1 .. 2}

BailianNext ==
  \/ \E i \in SomeIndex :
       \/ \E d \in Documents : SubmitDocuments(i, {[id |-> NoName, document_id |-> d, bailian_document_id |-> NoName]})
       \/ \E ids \in SomeIds :
            \/ SubmitDocuments(i, {[id |-> d, document_id |-> NoName, bailian_document_id |-> NoName] : d \in ids})
            \/ DeleteDocuments(i, ids)
            \/ \E r \in Readers : BeginGet(r, i, ids)
       \/ \E r \in Readers : \/ BeginList(r, i)
                             \/ \E topK \in {0, 1, 200} : Retrieve(r, i, topK)
  \/ \E job \in jobs : CarryOut(job)
  \/ \E r \in Readers : ReadPage(r) \/ RequestFails(r) \/ EndReading(r)

BailianSpec == BailianInit /\ [][BailianNext]_bailianVars

-----------------------------------------------------------------------------
BailianTypeOK ==
  /\ \A i \in Indexes : documents[i] \in Seq(Documents) /\ IsInjective(documents[i])
  /\ jobs \subseteq Indexes \X Documents
  /\ \A r \in Readers : present[r] \subseteq appeared[r] /\ appeared[r] \subseteq Documents

(***************************************************************************)
(* ReadersMissNothing (Get, List): a call that ends well has found every   *)
(* wanted document that was there all the time, unless a deletion moved    *)
(* the pages during the call or Get reached its bound on pages; and it has *)
(* found nothing that was never there.                                     *)
(***************************************************************************)
ReadersMissNothing == \A r \in Readers :
  reader[r].done =>
    /\ reader[r].found \subseteq appeared[r]
    /\ \/ present[r] \intersect reader[r].wanted \subseteq reader[r].found
       \/ shrunk[r]
       \/ (reader[r].doing = "get" /\ reader[r].page > MaxPages)
=============================================================================
