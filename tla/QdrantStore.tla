---------------------------- MODULE QdrantStore ----------------------------
(***************************************************************************)
(* The Qdrant knowledge base of src/knowledge/qdrant.go.  An Upsert embeds *)
(* its records batch by batch, looks for the collection, creates it when   *)
(* the look fails, and puts the points; callers overlap, every request may *)
(* fail before or after the server has obeyed, and callers try again.      *)
(*                                                                         *)
(* The server is external: it refuses to create what exists, keeps points  *)
(* by their ids, and scrolls in the order of ids from an offset on.        *)
(***************************************************************************)
EXTENDS Naturals, Sequences, FiniteSets, SequencesExt, FiniteSetsExt

CONSTANTS Names, UUIDs, Upserters, Batches, EmbedBatch, ScrollLimit, MaxUpserts

ASSUME QdrantAssumption ==
  /\ Names \subseteq Nat \ {0} /\ UUIDs \subseteq Names
  /\ EmbedBatch \in Nat \ {0} /\ ScrollLimit \in Nat \ {0} /\ MaxUpserts \in Nat

VARIABLES
  collection,  \* the collection exists
  points,      \* the points by id: whose record, and whose vector
  upserter,    \* what each caller of Upsert is doing
  upserts,     \* bound: calls so far
  walker,      \* a caller that follows List's offsets
  throughout   \* history: points that have been there since the walk began

qdrantVars == <<collection, points, upserter, upserts, walker, throughout>>

-----------------------------------------------------------------------------
(***************************************************************************)
(* Ids.  An id as a caller writes it has a name, 0 for a blank one, and a  *)
(* spelling; blanks around it do not count, and case does not for UUIDs.   *)
(* A blank id becomes a number of the clock's.                             *)
(***************************************************************************)
Spellings == {"plain", "padded", "upper"}
WrittenIds == [name : Names, spelling : Spellings] \union {[name |-> 0, spelling |-> "plain"]}

ASSUME BatchesAssumption == Batches \subseteq Seq(WrittenIds)

RandomIds == {1000 + n : n \in 1 .. MaxUpserts}
NamedPoint(name, upper) == 2 * name + (IF upper THEN 1 ELSE 0)

\* Fault for KnowledgeRight: the case of a UUID counts.
PointIdsAsWritten(id) ==
  IF id.name = 0 THEN RandomIds ELSE {NamedPoint(id.name, id.spelling = "upper")}

qdrantPointIDFromString(id) ==
  IF id.name = 0 THEN RandomIds
  ELSE {NamedPoint(id.name, id.spelling = "upper" /\ id.name \notin UUIDs)}

\* What the payload keeps of the id: record_id is trimmed and nothing else.
RecordId(id) == <<id.name, id.spelling = "upper">>

NoUpsert == [step |-> "none"]
NoWalk == [step |-> "none"]

QdrantInit ==
  /\ collection \in BOOLEAN
  /\ points = <<>>
  /\ upserter = [u \in Upserters |-> NoUpsert]
  /\ upserts = 0
  /\ walker = NoWalk /\ throughout = {}

-----------------------------------------------------------------------------
BeginUpsert(u, ids) ==
  /\ upserter[u] = NoUpsert /\ upserts < MaxUpserts
  /\ upserts' = upserts + 1
  /\ upserter' = [upserter EXCEPT ![u] = [step |-> "embed", ids |-> ids, asked |-> 0, vectors |-> <<>>]]
  /\ UNCHANGED <<collection, points, walker, throughout>>

EndUpsert(u) == upserter' = [upserter EXCEPT ![u] = NoUpsert]
StepTo(u, step) == upserter' = [upserter EXCEPT ![u].step = step]

\* One request of Embed: a vector for each input of the batch, or fewer.
EmbedNextBatch(u) ==
  /\ upserter[u].step = "embed"
  /\ LET n == Len(upserter[u].ids)
         from == upserter[u].asked
         to == Min({from + EmbedBatch, n})
     IN IF from < n
        THEN \E got \in 1 .. to - from :
               upserter' = [upserter EXCEPT ![u].asked = to,
                              ![u].vectors = @ \o [i \in 1 .. got |-> upserter[u].ids[from + i]]]
        ELSE IF Len(upserter[u].vectors) = n THEN StepTo(u, "look") ELSE EndUpsert(u)
  /\ UNCHANGED <<collection, points, upserts, walker, throughout>>

\* ensureCollection: any failure of the look leads to the attempt to create.
LookForCollection(u) ==
  /\ upserter[u].step = "look"
  /\ \/ collection /\ StepTo(u, "put")
     \/ StepTo(u, "create")
  /\ UNCHANGED <<collection, points, upserts, walker, throughout>>

CreateCollection(u) ==
  /\ upserter[u].step = "create"
  /\ \/ ~collection /\ collection' = TRUE /\ (StepTo(u, "put") \/ EndUpsert(u))
     \/ UNCHANGED collection /\ EndUpsert(u)
  /\ UNCHANGED <<points, upserts, walker, throughout>>

Put(ids, vectors, places) ==
  LET written == {places[i] : i \in 1 .. Len(ids)}
      last(p) == Max({i \in 1 .. Len(ids) : places[i] = p})
  IN [p \in DOMAIN points \union written |->
        IF p \in written THEN [record |-> RecordId(ids[last(p)]), vector |-> RecordId(vectors[last(p)])]
        ELSE points[p]]

\* The server may have stored the points and the answer be lost.
PutPoints(u) ==
  /\ upserter[u].step = "put"
  /\ LET ids == upserter[u].ids IN
     \/ /\ collection
        /\ \E places \in [1 .. Len(ids) -> UNION {qdrantPointIDFromString(ids[i]) : i \in 1 .. Len(ids)}] :
             /\ \A i \in 1 .. Len(ids) : places[i] \in qdrantPointIDFromString(ids[i])
             /\ points' = Put(ids, upserter[u].vectors, places)
     \/ UNCHANGED points
  /\ EndUpsert(u)
  /\ UNCHANGED <<collection, upserts, walker, throughout>>

\* Embedding or any request fails.
UpsertFails(u) ==
  /\ upserter[u].step \in {"embed", "put"}
  /\ EndUpsert(u)
  /\ UNCHANGED <<collection, points, upserts, walker, throughout>>

DeletePoints(id) ==
  /\ id.name # 0 /\ qdrantPointIDFromString(id) \intersect DOMAIN points # {}
  /\ points' = [p \in DOMAIN points \ qdrantPointIDFromString(id) |-> points[p]]
  /\ throughout' = throughout \ qdrantPointIDFromString(id)
  /\ UNCHANGED <<collection, upserter, upserts, walker>>

-----------------------------------------------------------------------------
(***************************************************************************)
(* List: the server's next_page_offset is the id of the next point.        *)
(***************************************************************************)
BeginWalk ==
  /\ walker = NoWalk
  /\ walker' = [step |-> "page", offset |-> 0, found |-> {}]
  /\ throughout' = DOMAIN points
  /\ UNCHANGED <<collection, points, upserter, upserts>>

\* The points from an offset on, and the first of them that fill a page.
Later(from) == {p \in DOMAIN points : p >= from}
FirstOf(ps) == {p \in ps : Cardinality({q \in ps : q < p}) < ScrollLimit}

\* Fault for KnowledgeRight: the offset is taken for the last point seen.
PageSkipping(from) ==
  LET found == FirstOf(Later(from)) rest == Later(from) \ found IN
  [found |-> found, next |-> IF rest = {} THEN 0 ELSE Min(rest) + 1]

ScrollPage(from) ==
  LET found == FirstOf(Later(from)) rest == Later(from) \ found IN
  [found |-> found, next |-> IF rest = {} THEN 0 ELSE Min(rest)]

ListPage ==
  /\ walker.step = "page"
  /\ LET page == ScrollPage(walker.offset) IN
     walker' = [step |-> IF page.next = 0 THEN "done" ELSE "page",
                offset |-> page.next, found |-> walker.found \union page.found]
  /\ UNCHANGED <<collection, points, upserter, upserts, throughout>>

EndWalk ==
  /\ walker # NoWalk
  /\ walker' = NoWalk /\ throughout' = {}
  /\ UNCHANGED <<collection, points, upserter, upserts>>

QdrantNext ==
  \/ \E u \in Upserters :
       \/ \E ids \in Batches : BeginUpsert(u, ids)
       \/ EmbedNextBatch(u) \/ LookForCollection(u) \/ CreateCollection(u)
       \/ PutPoints(u) \/ UpsertFails(u)
  \/ \E id \in WrittenIds : DeletePoints(id)
  \/ BeginWalk \/ ListPage \/ EndWalk

QdrantSpec == QdrantInit /\ [][QdrantNext]_qdrantVars
-----------------------------------------------------------------------------
QdrantTypeOK ==
  /\ collection \in BOOLEAN
  /\ DOMAIN points \subseteq RandomIds \union {NamedPoint(n, up) : n \in Names, up \in BOOLEAN}
  /\ throughout \subseteq DOMAIN points

(***************************************************************************)
(* PointsAreRight (Upsert, Embed, ensureCollection): however often callers *)
(* try again, a named record has one point, UUIDs have one in whatever     *)
(* case they are written, a point's vector was made from its own record,   *)
(* and there are points only in a collection.                              *)
(***************************************************************************)
PointsAreRight ==
  /\ points # <<>> => collection
  /\ \A p \in DOMAIN points : points[p].vector = points[p].record
  /\ \A p, q \in DOMAIN points :
       LET a == points[p].record b == points[q].record IN
       p # q /\ a[1] # 0 => a # b /\ (a[1] \in UUIDs => a[1] # b[1])

(***************************************************************************)
(* WalkMissesNothing (List): a caller that follows NextOffset to its end   *)
(* has seen every point that was there all the time, whatever was put and  *)
(* deleted meanwhile.                                                      *)
(***************************************************************************)
WalkMissesNothing == walker.step = "done" => throughout \subseteq walker.found
=============================================================================
