----------------------------- MODULE StoreProofs -----------------------------
(***************************************************************************)
(* Proofs about what keeps data for several callers at once: the captcha   *)
(* store, the search engine, the session memory, tokens, the Bailian       *)
(* index, the Qdrant store, the signal registry and the configuration      *)
(* cache.  Each component has an inductive invariant, the proof that every *)
(* operation keeps it, and what follows from it.                           *)
(***************************************************************************)
EXTENDS CaptchaStore, SearchEngine, SessionMemory, Tokens, BailianIndex, QdrantStore,
        Signals, ConfigCache, SequenceFacts

-----------------------------------------------------------------------------
(***************************************************************************)
(* Captchas, for any ids, callers and number of captchas.                  *)
(***************************************************************************)
Request == [doing : {"get", "purge", "delete"}, keep : BOOLEAN, kind : CaptchaKinds,
            id : Ids, answer : 1 .. MaxCaptchas]

ClientsTyped == client \in [Clients -> Request \union {NotVerifying}]

(***************************************************************************)
(* A caller that is about to delete has found its captcha under its id,    *)
(* and nothing can bring that captcha under another one: numbers are used  *)
(* once.                                                                   *)
(***************************************************************************)
Numbered ==
  /\ \A id \in Ids : entries[id] # NoEntry => entries[id].captcha <= made
  /\ \A n \in accepted : n <= made

FoundUnderItsId == \A c \in Clients : client[c].doing = "delete" =>
  /\ client[c].answer <= made
  /\ \A id \in Ids : entries[id] # NoEntry /\ entries[id].captcha = client[c].answer
       => id = client[c].id

CaptchaInv == CaptchaTypeOK /\ ClientsTyped /\ Numbered /\ FoundUnderItsId /\ AcceptedIsGone

-----------------------------------------------------------------------------
LEMMA CaptchaStarts == CaptchaInit => CaptchaInv
<1> SUFFICES ASSUME CaptchaInit PROVE CaptchaInv
  OBVIOUS
<1>1. CaptchaTypeOK
  BY CaptchaAssumption DEF CaptchaInit, CaptchaTypeOK
<1>2. ClientsTyped
  BY DEF CaptchaInit, ClientsTyped
<1>3. Numbered /\ AcceptedIsGone
  BY DEF CaptchaInit, Numbered, AcceptedIsGone, Stored
<1>4. FoundUnderItsId
  BY DEF CaptchaInit, FoundUnderItsId, NotVerifying
<1> QED
  BY <1>1, <1>2, <1>3, <1>4 DEF CaptchaInv

(***************************************************************************)
(* What is removed from the store disturbs nothing: the entries that are   *)
(* left are entries there were before.                                     *)
(***************************************************************************)
LEMMA RemovingKeeps ==
  ASSUME CaptchaInv,
         entries' \in [Ids -> CaptchaEntry \union {NoEntry}],
         \A id \in Ids : entries'[id] # NoEntry => entries'[id] = entries[id],
         UNCHANGED <<made, accepted>>,
         \A c \in Clients : client'[c].doing = "delete" => client'[c] = client[c]
  PROVE  Numbered' /\ FoundUnderItsId' /\ AcceptedIsGone'
<1>1. Numbered'
  BY DEF CaptchaInv, Numbered
<1>2. FoundUnderItsId'
  BY DEF CaptchaInv, FoundUnderItsId
<1>3. AcceptedIsGone'
  BY DEF CaptchaInv, AcceptedIsGone, Stored
<1> QED
  BY <1>1, <1>2, <1>3

\* A finished caller is verifying nothing, and the others are as they were.
LEMMA Finished ==
  ASSUME NEW c \in Clients, ClientsTyped, FinishVerify(c)
  PROVE  /\ ClientsTyped'
         /\ \A d \in Clients : client'[d] # client[d] => client'[d].doing = "nothing"
BY DEF ClientsTyped, FinishVerify, NotVerifying

LEMMA GoneOn ==
  ASSUME NEW c \in Clients, NEW what \in {"purge", "delete"}, ClientsTyped,
         client[c].doing = "get", VerifyGoesOn(c, what)
  PROVE  /\ ClientsTyped'
         /\ client'[c].doing = what /\ client'[c].id = client[c].id
         /\ client'[c].answer = client[c].answer
         /\ \A d \in Clients \ {c} : client'[d] = client[d]
<1>1. client[c] \in Request
  BY DEF ClientsTyped, NotVerifying
<1>2. client' = [client EXCEPT ![c] = [client[c] EXCEPT !.doing = what]]
  BY DEF VerifyGoesOn
<1>3. [client[c] EXCEPT !.doing = what] \in Request
  BY <1>1 DEF Request
<1>4. ClientsTyped'
  BY <1>2, <1>3 DEF ClientsTyped
<1>5. client'[c] = [client[c] EXCEPT !.doing = what] /\ \A d \in Clients \ {c} : client'[d] = client[d]
  BY <1>2 DEF ClientsTyped
<1> QED
  BY <1>1, <1>4, <1>5 DEF Request

-----------------------------------------------------------------------------
LEMMA GenerateKeeps ==
  ASSUME CaptchaInv, NEW kind \in CaptchaKinds, NEW id \in Ids, Generate(kind, id)
  PROVE  CaptchaInv'
<1> DEFINE new == [captcha |-> made + 1, kind |-> kind, expires |-> clock + Expiration]
<1>1. /\ made < MaxCaptchas /\ made' = made + 1 /\ cleaners' = cleaners + 1
      /\ entries' = [entries EXCEPT ![id] = new] /\ UNCHANGED <<clock, client, accepted>>
  BY DEF Generate, SetCaptcha
<1>2. new \in CaptchaEntry /\ new.captcha = made + 1
  BY <1>1, CaptchaAssumption DEF CaptchaEntry, CaptchaInv, CaptchaTypeOK
<1> HIDE DEF new
<1>3. /\ entries \in [Ids -> CaptchaEntry \union {NoEntry}] /\ made \in Nat
      /\ accepted \subseteq 1 .. MaxCaptchas
  BY DEF CaptchaInv, CaptchaTypeOK
<1>4. entries'[id] = new /\ \A other \in Ids \ {id} : entries'[other] = entries[other]
  BY <1>1, <1>3
<1>5. CaptchaTypeOK' /\ ClientsTyped'
  BY <1>1, <1>2, CaptchaAssumption DEF CaptchaInv, CaptchaTypeOK, ClientsTyped
<1>6. \A other \in Ids : entries[other] # NoEntry => entries[other].captcha \in Nat
  BY <1>3 DEF CaptchaEntry
<1>7. Numbered'
  BY <1>1, <1>2, <1>3, <1>4, <1>6 DEF CaptchaInv, Numbered
<1>8. \A c \in Clients : client[c].doing = "delete" => client[c].answer \in Nat
  BY DEF CaptchaInv, ClientsTyped, Request, NotVerifying
<1>9. FoundUnderItsId'
  BY <1>1, <1>2, <1>3, <1>4, <1>8 DEF CaptchaInv, FoundUnderItsId
<1>10. \A n \in accepted : n # made + 1
  BY <1>3 DEF CaptchaInv, Numbered
<1>11. \A other \in Ids : entries[other] # NoEntry => entries[other].captcha # made + 1
  BY <1>3, <1>6 DEF CaptchaInv, Numbered
<1>12. AcceptedIsGone'
  BY <1>1, <1>2, <1>4, <1>10, <1>11 DEF CaptchaInv, AcceptedIsGone, Stored
<1> QED
  BY <1>5, <1>7, <1>9, <1>12 DEF CaptchaInv

LEMMA CleanupKeeps == ASSUME CaptchaInv, cleanup PROVE CaptchaInv'
<1>1. /\ cleaners' \in Nat /\ UNCHANGED <<clock, made, client, accepted>>
      /\ entries' \in [Ids -> CaptchaEntry \union {NoEntry}]
      /\ \A id \in Ids : entries'[id] # NoEntry => entries'[id] = entries[id]
  BY DEF cleanup, CaptchaInv, CaptchaTypeOK
<1>2. CaptchaTypeOK' /\ ClientsTyped'
  BY <1>1 DEF CaptchaInv, CaptchaTypeOK, ClientsTyped
<1> QED
  BY <1>1, <1>2, RemovingKeeps DEF CaptchaInv

LEMMA BeginVerifyKeeps ==
  ASSUME CaptchaInv, NEW c \in Clients, NEW keep \in BOOLEAN, NEW kind \in CaptchaKinds,
         NEW payload, NEW id \in Ids, NEW answer \in 1 .. MaxCaptchas,
         BeginVerify(c, keep, kind, payload, id, answer)
  PROVE  CaptchaInv'
<1> DEFINE request == [doing |-> "get", keep |-> keep, kind |-> kind, id |-> id, answer |-> answer]
<1>1. UNCHANGED <<entries, clock, made, cleaners, accepted>>
  BY DEF BeginVerify
<1>2. client' = [client EXCEPT ![c] = request]
  BY DEF BeginVerify
<1>3. request \in Request /\ request.doing = "get"
  BY DEF Request
<1> HIDE DEF request
<1>4. ClientsTyped' /\ \A d \in Clients : client'[d] = IF d = c THEN request ELSE client[d]
  BY <1>2, <1>3 DEF CaptchaInv, ClientsTyped
<1>5. \A d \in Clients : client'[d].doing = "delete" => client'[d] = client[d]
  BY <1>3, <1>4
<1>6. CaptchaTypeOK'
  BY <1>1 DEF CaptchaInv, CaptchaTypeOK
<1>7. entries' \in [Ids -> CaptchaEntry \union {NoEntry}] /\ entries' = entries
  BY <1>1 DEF CaptchaInv, CaptchaTypeOK
<1> QED
  BY <1>1, <1>4, <1>5, <1>6, <1>7, RemovingKeeps DEF CaptchaInv

(***************************************************************************)
(* Get's look at the store: a match is the captcha under the caller's id,  *)
(* and under no other.                                                     *)
(***************************************************************************)
LEMMA GetKeeps ==
  ASSUME CaptchaInv, NEW c \in Clients, GetCaptcha(c)
  PROVE  CaptchaInv'
<1> DEFINE entry == entries[client[c].id]
<1>1. UNCHANGED <<entries, clock, made, cleaners, accepted>> /\ client[c].doing = "get"
  BY DEF GetCaptcha
<1>2. CaptchaTypeOK' /\ entries' \in [Ids -> CaptchaEntry \union {NoEntry}] /\ entries' = entries
  BY <1>1 DEF CaptchaInv, CaptchaTypeOK
<1>3. \/ FinishVerify(c)
      \/ VerifyGoesOn(c, "purge")
      \/ VerifyGoesOn(c, "delete") /\ entry # NoEntry /\ Matches(client[c], entry)
  BY DEF GetCaptcha
<1>4. CASE FinishVerify(c)
  BY <1>1, <1>2, <1>4, Finished, RemovingKeeps DEF CaptchaInv
<1>5. CASE VerifyGoesOn(c, "purge")
  <2>1. ClientsTyped' /\ \A d \in Clients : client'[d].doing = "delete" => client'[d] = client[d]
    BY <1>1, <1>5, GoneOn DEF CaptchaInv
  <2> QED
    BY <1>1, <1>2, <2>1, RemovingKeeps DEF CaptchaInv
<1>6. CASE VerifyGoesOn(c, "delete") /\ entry # NoEntry /\ Matches(client[c], entry)
  <2>1. /\ ClientsTyped' /\ client'[c].id = client[c].id /\ client'[c].answer = client[c].answer
        /\ \A d \in Clients \ {c} : client'[d] = client[d]
    BY <1>1, <1>6, GoneOn DEF CaptchaInv
  <2>2. client[c].id \in Ids
    BY <1>1 DEF CaptchaInv, ClientsTyped, Request, NotVerifying
  <2>3. client[c].answer <= made /\ entry.captcha = client[c].answer
    BY <1>6, <2>2 DEF CaptchaInv, Numbered, Matches
  <2>4. \A id \in Ids : entries[id] # NoEntry /\ entries[id].captcha = client[c].answer
          => id = client[c].id
    BY <1>6, <2>2, <2>3 DEF CaptchaInv, AcceptedIsGone
  <2>5. FoundUnderItsId'
    BY <1>1, <2>1, <2>3, <2>4 DEF CaptchaInv, FoundUnderItsId
  <2>6. Numbered' /\ AcceptedIsGone'
    BY <1>1 DEF CaptchaInv, Numbered, AcceptedIsGone, Stored
  <2> QED
    BY <1>2, <2>1, <2>5, <2>6 DEF CaptchaInv
<1> QED
  BY <1>3, <1>4, <1>5, <1>6

\* One entry removed.
LEMMA Deleted ==
  ASSUME CaptchaTypeOK, NEW id \in Ids, DeleteCaptcha(id)
  PROVE  /\ entries' \in [Ids -> CaptchaEntry \union {NoEntry}] /\ entries'[id] = NoEntry
         /\ \A other \in Ids : entries'[other] # NoEntry => entries'[other] = entries[other]
BY DEF CaptchaTypeOK, DeleteCaptcha

LEMMA PurgeKeeps ==
  ASSUME CaptchaInv, NEW c \in Clients, Purge(c)
  PROVE  CaptchaInv'
<1>1. client[c].id \in Ids
  BY DEF Purge, CaptchaInv, ClientsTyped, Request, NotVerifying
<1>2. /\ DeleteCaptcha(client[c].id) /\ FinishVerify(c)
      /\ UNCHANGED <<clock, made, cleaners, accepted>>
  BY DEF Purge
<1>3. /\ entries' \in [Ids -> CaptchaEntry \union {NoEntry}]
      /\ \A other \in Ids : entries'[other] # NoEntry => entries'[other] = entries[other]
  BY <1>1, <1>2, Deleted DEF CaptchaInv
<1>4. CaptchaTypeOK'
  BY <1>2, <1>3 DEF CaptchaInv, CaptchaTypeOK
<1>5. ClientsTyped' /\ \A d \in Clients : client'[d].doing = "delete" => client'[d] = client[d]
  BY <1>2, Finished DEF CaptchaInv
<1> QED
  BY <1>2, <1>3, <1>4, <1>5, RemovingKeeps DEF CaptchaInv

LEMMA AcceptKeeps ==
  ASSUME CaptchaInv, NEW c \in Clients, Accept(c)
  PROVE  CaptchaInv'
<1>1. client[c].id \in Ids /\ client[c].answer \in 1 .. MaxCaptchas
  BY DEF Accept, CaptchaInv, ClientsTyped, Request, NotVerifying
<1>2. /\ DeleteCaptcha(client[c].id) /\ FinishVerify(c) /\ client[c].doing = "delete"
      /\ accepted' = accepted \union {client[c].answer}
      /\ UNCHANGED <<clock, made, cleaners>>
  BY DEF Accept
<1>3. /\ entries' \in [Ids -> CaptchaEntry \union {NoEntry}] /\ entries'[client[c].id] = NoEntry
      /\ \A other \in Ids : entries'[other] # NoEntry => entries'[other] = entries[other]
  BY <1>1, <1>2, Deleted DEF CaptchaInv
<1>4. CaptchaTypeOK'
  BY <1>1, <1>2, <1>3 DEF CaptchaInv, CaptchaTypeOK
<1>5. ClientsTyped' /\ \A d \in Clients : client'[d].doing = "delete" => client'[d] = client[d]
  BY <1>2, Finished DEF CaptchaInv
<1>6. FoundUnderItsId'
  BY <1>2, <1>3, <1>5 DEF CaptchaInv, FoundUnderItsId
<1>7. Numbered'
  BY <1>2, <1>3 DEF CaptchaInv, Numbered, FoundUnderItsId
<1>8. \A id \in Ids : entries'[id] # NoEntry => entries'[id].captcha # client[c].answer
  BY <1>2, <1>3 DEF CaptchaInv, FoundUnderItsId
<1>9. AcceptedIsGone'
  BY <1>2, <1>3, <1>8 DEF CaptchaInv, AcceptedIsGone, Stored
<1> QED
  BY <1>4, <1>5, <1>6, <1>7, <1>9 DEF CaptchaInv

LEMMA TimePassesKeeps == ASSUME CaptchaInv, TimePasses PROVE CaptchaInv'
<1>1. CaptchaTypeOK' /\ ClientsTyped' /\ Numbered'
  BY CaptchaAssumption DEF TimePasses, CaptchaInv, CaptchaTypeOK, ClientsTyped, Numbered
<1>2. FoundUnderItsId' /\ AcceptedIsGone'
  BY DEF TimePasses, CaptchaInv, FoundUnderItsId, AcceptedIsGone, Stored
<1> QED
  BY <1>1, <1>2 DEF CaptchaInv

-----------------------------------------------------------------------------
LEMMA CaptchaInvariant == CaptchaSpec => []CaptchaInv
<1>1. CaptchaInv /\ [CaptchaNext]_captchaVars => CaptchaInv'
  <2> SUFFICES ASSUME CaptchaInv, [CaptchaNext]_captchaVars PROVE CaptchaInv'
    OBVIOUS
  <2>1. ASSUME NEW kind \in CaptchaKinds, NEW id \in Ids, Generate(kind, id) PROVE CaptchaInv'
    BY <2>1, GenerateKeeps
  <2>2. CASE cleanup
    BY <2>2, CleanupKeeps
  <2>3. CASE TimePasses
    BY <2>3, TimePassesKeeps
  <2>4. ASSUME NEW c \in Clients, NEW keep \in BOOLEAN, NEW kind \in CaptchaKinds,
               NEW payload \in {"string", "points", "decoded"}, NEW id \in Ids,
               NEW answer \in 1 .. MaxCaptchas,
               BeginVerify(c, keep, kind, payload, id, answer)
        PROVE  CaptchaInv'
    BY <2>4, BeginVerifyKeeps
  <2>5. ASSUME NEW c \in Clients, GetCaptcha(c) PROVE CaptchaInv'
    BY <2>5, GetKeeps
  <2>6. ASSUME NEW c \in Clients, Purge(c) PROVE CaptchaInv'
    BY <2>6, PurgeKeeps
  <2>7. ASSUME NEW c \in Clients, Accept(c) PROVE CaptchaInv'
    BY <2>7, AcceptKeeps
  <2>8. CASE UNCHANGED captchaVars
    BY <2>8 DEF captchaVars, CaptchaInv, CaptchaTypeOK, ClientsTyped, Numbered, FoundUnderItsId,
         AcceptedIsGone, Stored
  <2> QED
    BY <2>1, <2>2, <2>3, <2>4, <2>5, <2>6, <2>7, <2>8 DEF CaptchaNext
<1> QED
  BY <1>1, CaptchaStarts, PTL DEF CaptchaSpec

(***************************************************************************)
(* AcceptedLeavesForGood: an accepted captcha is in the store no more,     *)
(* whatever other callers, cleanups and new captchas do, for any number of *)
(* each: an answer given after an accepted one is refused.                 *)
(***************************************************************************)
THEOREM AcceptedLeavesForGood == CaptchaSpec => []AcceptedIsGone
BY CaptchaInvariant, PTL DEF CaptchaInv

-----------------------------------------------------------------------------
(***************************************************************************)
(* Chunks.  A batch that has written whole chunks goes on at a multiple of *)
(* the chunk's size.                                                       *)
(***************************************************************************)
LEMMA MultipleIsWhole ==
  ASSUME NEW size \in Nat \ {0}, NEW k \in Nat
  PROVE  (k * size) % size = 0
BY Z3

LEMMA WholeChunks ==
  ASSUME NEW size \in Nat \ {0}, NEW n \in Nat, n % size = 0
  PROVE  (n + size) % size = 0
<1> DEFINE k == n \div size
<1>1. n = k * size /\ k \in Nat
  OBVIOUS
<1> HIDE DEF k
<1>2. n + size = (k + 1) * size
  BY <1>1, Z3
<1>3. ((k + 1) * size) % size = 0
  <2>1. k + 1 \in Nat
    BY <1>1
  <2> QED
    BY <2>1, MultipleIsWhole
<1> QED
  BY <1>2, <1>3

LEMMA NoChunk == ASSUME NEW size \in Nat \ {0} PROVE 0 % size = 0
BY SMT

\* The first n documents of a request.
FirstDocs(docs, n) == {docs[i] : i \in 1 .. n}

LEMMA FirstDocsOf ==
  ASSUME NEW docs \in Seq(Docs), NEW n \in 0 .. Len(docs)
  PROVE  ToSet(SubSeq(docs, 1, n)) = FirstDocs(docs, n)
<1>1. Len(SubSeq(docs, 1, n)) = n /\ \A i \in 1 .. n : SubSeq(docs, 1, n)[i] = docs[i]
  OBVIOUS
<1>2. DOMAIN SubSeq(docs, 1, n) = 1 .. n
  BY <1>1
<1> QED
  BY <1>1, <1>2 DEF ToSet, FirstDocs

LEMMA NextDocsOf ==
  ASSUME NEW docs \in Seq(Docs), NEW n \in 0 .. Len(docs), NEW m \in n .. Len(docs)
  PROVE  ToSet(SubSeq(docs, n + 1, m)) = {docs[i] : i \in n + 1 .. m}
<1> DEFINE s == SubSeq(docs, n + 1, m)
<1>1. s \in Seq(Docs) /\ Len(s) = m - n /\ \A i \in 1 .. m - n : s[i] = docs[n + i]
  OBVIOUS
<1>2. DOMAIN s = 1 .. m - n
  BY <1>1
<1>3. ASSUME NEW i \in DOMAIN s PROVE \E j \in n + 1 .. m : s[i] = docs[j]
  <2>1. n + i \in n + 1 .. m
    BY <1>2
  <2> QED
    BY <1>1, <1>2, <2>1
<1>4. ASSUME NEW j \in n + 1 .. m PROVE \E i \in DOMAIN s : s[i] = docs[j]
  <2>1. j - n \in 1 .. m - n /\ n + (j - n) = j
    OBVIOUS
  <2> QED
    BY <1>1, <1>2, <2>1
<1>5. ToSet(s) = {s[i] : i \in DOMAIN s}
  BY DEF ToSet
<1> HIDE DEF s
<1>6. {s[i] : i \in DOMAIN s} = {docs[i] : i \in n + 1 .. m}
  BY <1>3, <1>4
<1> QED
  BY <1>5, <1>6 DEF s

LEMMA ChunkAdds ==
  ASSUME NEW docs \in Seq(Docs), NEW n \in 0 .. Len(docs), NEW m \in n .. Len(docs)
  PROVE  FirstDocs(docs, n) \union ToSet(SubSeq(docs, n + 1, m)) = FirstDocs(docs, m)
<1>1. \A i : i \in 1 .. m <=> i \in 1 .. n \/ i \in n + 1 .. m
  OBVIOUS
<1> QED
  BY <1>1, NextDocsOf DEF FirstDocs

LEMMA AllDocs ==
  ASSUME NEW docs \in Seq(Docs)
  PROVE  ToSet(docs) = FirstDocs(docs, Len(docs)) /\ ToSet(docs) \subseteq Docs
BY DEF ToSet, FirstDocs

-----------------------------------------------------------------------------
(***************************************************************************)
(* Search.  What a caller has been told follows from what came of its      *)
(* work, and the work has done what its place in the request says.         *)
(***************************************************************************)
SearchWork ==
  [op : {"index", "delete", "get", "batch", "search"}, docs : Seq(Docs), at : Nat,
   done : SUBSET Docs, result : {"running", "ok", "error"}]

IsWork(w) ==
  /\ w \in SearchWork
  /\ w.op # "batch" /\ w.result # "ok" => w.done = {}
  /\ w.result = "ok" => ToSet(w.docs) \subseteq w.done
  /\ w.op = "batch" =>
       /\ w.at \in 0 .. Len(w.docs) /\ w.done = FirstDocs(w.docs, w.at)
       /\ w.at % BatchSize = 0 \/ w.at = Len(w.docs)
       /\ w.result = "running" => w.at % BatchSize = 0

IsTold(c) ==
  /\ searcher[c] \in {"idle", "passed"} => work[c] = NoWork
  /\ searcher[c] \in {"passed", "waits"} => told[c] = "none"
  /\ searcher[c] = "idle" => told[c] = "none"
  /\ searcher[c] = "waits" => work[c] # NoWork
  /\ told[c] = "ok" => work[c] # NoWork /\ work[c].result = "ok"
  /\ told[c] = "error" /\ work[c] # NoWork => work[c].result = "error"

SearchInv ==
  /\ SearchTypeOK
  /\ DOMAIN work = SearchCallers
  /\ \A c \in SearchCallers : (work[c] = NoWork \/ IsWork(work[c])) /\ IsTold(c)
  /\ closed => ~indexOpen

LEMMA SearchStart == SearchInit => SearchInv
BY DEF SearchInit, SearchInv, SearchTypeOK, IsTold, NoWork

LEMMA WorkIsSome == \A w \in SearchWork : w # NoWork
<1> SUFFICES ASSUME NEW w \in SearchWork PROVE w # NoWork
  OBVIOUS
<1>1. w.op # "none"
  BY DEF SearchWork
<1> QED
  BY <1>1 DEF NoWork

LEMMA RequestsTyped ==
  ASSUME NEW request \in SearchRequests
  PROVE  request.op \in {"index", "delete", "get", "batch", "search"} /\ request.docs \in Seq(Docs)
<1>1. CASE request \in [op : {"index", "delete", "get"}, docs : {<<d>> : d \in Docs}]
  <2>1. PICK d \in Docs : request.docs = <<d>>
    BY <1>1
  <2>2. <<d>> \in Seq(Docs)
    OBVIOUS
  <2>3. request.op \in {"index", "delete", "get"}
    BY <1>1
  <2> QED
    BY <2>1, <2>2, <2>3
<1>2. CASE request \in [op : {"batch"}, docs : SetToSeqs(Docs)]
  <2>1. Cardinality(Docs) \in Nat
    BY SearchAssumption, FS_CardinalityType
  <2>2. \A docs \in SetToSeqs(Docs) : docs \in Seq(Docs)
    BY <2>1 DEF SetToSeqs
  <2> QED
    BY <1>2, <2>2
<1>3. CASE request \in [op : {"search"}, docs : {<<>>}]
  <2>1. request.op = "search" /\ request.docs = <<>>
    BY <1>3
  <2>2. <<>> \in Seq(Docs)
    OBVIOUS
  <2> QED
    BY <2>1, <2>2
<1> QED
  BY <1>1, <1>2, <1>3 DEF SearchRequests

\* What goes on about one caller leaves the others as they were.
LEMMA OthersKeep ==
  ASSUME SearchInv, NEW c \in SearchCallers,
         DOMAIN work' = SearchCallers,
         searcher' \in [SearchCallers -> {"idle", "passed", "waits", "told"}],
         told' \in [SearchCallers -> {"none", "ok", "error", "timeout"}],
         \A d \in SearchCallers \ {c} :
           work'[d] = work[d] /\ searcher'[d] = searcher[d] /\ told'[d] = told[d],
         work'[c] = NoWork \/ IsWork(work'[c]), IsTold(c)',
         indexed' \subseteq Docs, UNCHANGED <<closed, indexOpen>>
  PROVE  SearchInv'
<1>1. \A d \in SearchCallers : (work'[d] = NoWork \/ IsWork(work'[d])) /\ IsTold(d)'
  BY DEF SearchInv, IsTold
<1>2. SearchTypeOK'
  BY DEF SearchInv, SearchTypeOK
<1> QED
  BY <1>1, <1>2 DEF SearchInv

LEMMA WorkTaken ==
  ASSUME SearchInv, NEW c \in SearchCallers, Work(c)
  PROVE  /\ DOMAIN work' = SearchCallers /\ IsWork(work'[c]) /\ work'[c] # NoWork
         /\ \A d \in SearchCallers \ {c} : work'[d] = work[d]
         /\ indexed' \subseteq Docs
<1> DEFINE w == work[c]
           size == Len(w.docs)
           docs == NextDocs(c)
           end == ChunkEnd(c)
<1>1. w # NoWork /\ w.result = "running" /\ IsWork(w)
  BY DEF Work, WorkRuns, SearchInv
<1>2. /\ w \in SearchWork /\ w.docs \in Seq(Docs) /\ size \in Nat /\ w.at \in Nat /\ w.done \subseteq Docs
      /\ w.op \in {"index", "delete", "get", "batch", "search"}
  BY <1>1 DEF IsWork, SearchWork
<1>3. BatchSize \in Nat /\ BatchSize > 0
  BY SearchAssumption
<1>4. end = (IF w.at + BatchSize <= size THEN w.at + BatchSize ELSE size) /\ end \in Nat
  <2>1. w.at + BatchSize \in Nat
    BY <1>2, <1>3
  <2>2. Min({w.at + BatchSize, size}) = IF w.at + BatchSize <= size THEN w.at + BatchSize ELSE size
    BY <1>2, <2>1, MinOfTwo
  <2> QED
    BY <1>2, <2>1, <2>2 DEF ChunkEnd
<1>5. w.op = "batch" => w.at \in 0 .. size /\ end \in w.at .. size
  BY <1>1, <1>2, <1>3, <1>4 DEF IsWork
<1>6. docs \subseteq Docs
  <2>1. CASE w.op # "batch"
    BY <1>2, <2>1, AllDocs DEF NextDocs
  <2>2. CASE w.op = "batch"
    <3>1. docs = {w.docs[i] : i \in w.at + 1 .. end}
      BY <1>2, <1>5, <2>2, NextDocsOf DEF NextDocs
    <3>2. \A i \in w.at + 1 .. end : w.docs[i] \in Docs
      BY <1>2, <1>5, <2>2
    <3> QED
      BY <3>1, <3>2
  <2> QED
    BY <2>1, <2>2
<1>7. DEFINE result == IF w.op = "batch" /\ end < size THEN "running" ELSE "ok"
<1>8. work' = [work EXCEPT ![c].done = @ \union docs, ![c].at = end, ![c].result = result]
      /\ indexed' = ApplyToIndex(w.op, docs)
  BY DEF Work
<1> HIDE DEF docs, end, result
<1>9. /\ DOMAIN work' = SearchCallers
      /\ \A d \in SearchCallers \ {c} : work'[d] = work[d]
      /\ work'[c] = [w EXCEPT !.done = @ \union docs, !.at = end, !.result = result]
  BY <1>8 DEF SearchInv
<1>10. /\ work'[c].op = w.op /\ work'[c].docs = w.docs /\ work'[c].at = end
       /\ work'[c].done = w.done \union docs /\ work'[c].result = result
       /\ work'[c] \in SearchWork
  <2>1. result \in {"running", "ok"}
    BY DEF result
  <2> QED
    <3>1. w.done \union docs \in SUBSET Docs
      BY <1>2, <1>6
    <3>2. end \in Nat
      BY <1>4
    <3> QED
      BY <1>2, <1>9, <2>1, <3>1, <3>2 DEF SearchWork
<1>11. indexed' \subseteq Docs
  BY <1>6, <1>8 DEF ApplyToIndex, SearchInv, SearchTypeOK
<1>12. CASE w.op # "batch"
  <2>1. result = "ok" /\ docs = ToSet(w.docs)
    BY <1>12 DEF result, docs, NextDocs
  <2>2. IsWork(work'[c])
    BY <1>10, <1>12, <2>1 DEF IsWork
  <2> QED
    BY <1>9, <1>10, <1>11, <2>2, WorkIsSome
<1>13. CASE w.op = "batch"
  <2>1. w.done = FirstDocs(w.docs, w.at) /\ w.at % BatchSize = 0
    BY <1>1, <1>13 DEF IsWork
  <2>2. docs = ToSet(SubSeq(w.docs, w.at + 1, end))
    BY <1>13 DEF docs, NextDocs, end
  <2>3. w.done \union docs = FirstDocs(w.docs, end)
    BY <1>2, <1>5, <1>13, <2>1, <2>2, ChunkAdds
  <2>4. (w.at + BatchSize) % BatchSize = 0
    BY <1>2, <1>3, <2>1, WholeChunks
  <2>5. end % BatchSize = 0 \/ end = size
    BY <1>4, <2>4
  <2>6. result = "running" => end # size
    BY <1>2, <1>4 DEF result
  <2>7. result = "ok" => end = size
    BY <1>2, <1>4, <1>5, <1>13 DEF result
  <2>8. result = "ok" => ToSet(w.docs) \subseteq w.done \union docs
    BY <1>2, <2>3, <2>7, AllDocs
  <2>9. end \in 0 .. size
    BY <1>2, <1>5, <1>13
  <2>10. IsWork(work'[c])
    BY <1>10, <1>13, <2>3, <2>5, <2>6, <2>8, <2>9 DEF IsWork
  <2> QED
    BY <1>9, <1>10, <1>11, <2>10, WorkIsSome
<1> QED
  BY <1>12, <1>13

LEMMA SearchInvariant == SearchSpec => []SearchInv
<1>1. SearchInv /\ [SearchNext]_searchVars => SearchInv'
  <2> SUFFICES ASSUME SearchInv, [SearchNext]_searchVars PROVE SearchInv'
    OBVIOUS
  <2>1. CASE CloseEngine
    <3>1. SearchTypeOK' /\ (closed => ~indexOpen)'
      BY <2>1 DEF CloseEngine, SearchInv, SearchTypeOK
    <3> QED
      BY <2>1, <3>1 DEF CloseEngine, SearchInv, IsTold
  <2>2. ASSUME NEW c \in SearchCallers, guard(c) PROVE SearchInv'
    <3>1. IsTold(c)'
      BY <2>2 DEF guard, Tell, SearchInv, SearchTypeOK, IsTold
    <3>2. /\ searcher' \in [SearchCallers -> {"idle", "passed", "waits", "told"}]
          /\ told' \in [SearchCallers -> {"none", "ok", "error", "timeout"}]
          /\ \A d \in SearchCallers \ {c} : searcher'[d] = searcher[d] /\ told'[d] = told[d]
      BY <2>2 DEF guard, Tell, SearchInv, SearchTypeOK
    <3>3. UNCHANGED <<closed, indexed, indexOpen, work>>
      BY <2>2 DEF guard
    <3>4. DOMAIN work' = SearchCallers /\ indexed' \subseteq Docs /\ (work'[c] = NoWork \/ IsWork(work'[c]))
      BY <3>3 DEF SearchInv, SearchTypeOK
    <3> QED
      BY <3>1, <3>2, <3>3, <3>4, OthersKeep
  <2>3. ASSUME NEW c \in SearchCallers, NEW request \in SearchRequests, BeginSearch(c, request)
        PROVE  SearchInv'
    <3> DEFINE w == [op |-> request.op, docs |-> request.docs, at |-> 0, done |-> {}, result |-> "running"]
    <3>1. w \in SearchWork /\ w.done = {} /\ w.result = "running" /\ w.at = 0 /\ w.docs = request.docs
      BY RequestsTyped DEF SearchWork
    <3>2. 0 % BatchSize = 0 /\ Len(request.docs) \in Nat
      BY NoChunk, SearchAssumption, RequestsTyped
    <3>3. FirstDocs(request.docs, 0) = {}
      BY DEF FirstDocs
    <3>4. 0 \in 0 .. Len(request.docs)
      BY <3>2
    <3> HIDE DEF w
    <3>5. IsWork(w)
      BY <3>1, <3>2, <3>3, <3>4 DEF IsWork
    <3>6. work' = [work EXCEPT ![c] = w]
      BY <2>3 DEF BeginSearch, w
    <3>7. w # NoWork
      BY <3>1, WorkIsSome
    <3>8. IsTold(c)'
      BY <2>3, <3>6, <3>7 DEF BeginSearch, SearchInv, SearchTypeOK, IsTold
    <3>9. /\ searcher' \in [SearchCallers -> {"idle", "passed", "waits", "told"}]
          /\ told' \in [SearchCallers -> {"none", "ok", "error", "timeout"}]
          /\ \A d \in SearchCallers \ {c} : searcher'[d] = searcher[d] /\ told'[d] = told[d]
          /\ indexed' \subseteq Docs /\ UNCHANGED <<closed, indexOpen>>
      BY <2>3 DEF BeginSearch, SearchInv, SearchTypeOK
    <3>10. DOMAIN work' = SearchCallers /\ work'[c] = w /\ \A d \in SearchCallers \ {c} : work'[d] = work[d]
      BY <3>6 DEF SearchInv
    <3> QED
      BY <3>5, <3>8, <3>9, <3>10, OthersKeep
  <2>4. ASSUME NEW c \in SearchCallers, Work(c) PROVE SearchInv'
    <3>1. work[c].result = "running" /\ work[c] # NoWork /\ UNCHANGED <<closed, indexOpen, searcher, told>>
      BY <2>4 DEF Work, WorkRuns
    <3>2. searcher[c] \in {"waits", "told"} /\ told[c] \in {"none", "timeout"}
      BY <3>1 DEF SearchInv, SearchTypeOK, IsTold
    <3>3. work'[c] # NoWork
      BY <2>4, WorkTaken
    <3>4. IsTold(c)'
      BY <3>1, <3>2, <3>3 DEF IsTold, SearchInv
    <3>5. /\ searcher' \in [SearchCallers -> {"idle", "passed", "waits", "told"}]
          /\ told' \in [SearchCallers -> {"none", "ok", "error", "timeout"}]
          /\ \A d \in SearchCallers \ {c} : searcher'[d] = searcher[d] /\ told'[d] = told[d]
      BY <3>1 DEF SearchInv, SearchTypeOK
    <3>6. /\ DOMAIN work' = SearchCallers /\ IsWork(work'[c])
          /\ \A d \in SearchCallers \ {c} : work'[d] = work[d]
          /\ indexed' \subseteq Docs
      BY <2>4, WorkTaken
    <3> QED
      BY <3>1, <3>4, <3>5, <3>6, OthersKeep
  <2>5. ASSUME NEW c \in SearchCallers, WorkFails(c) PROVE SearchInv'
    <3>1. /\ work[c].result = "running" /\ work[c] # NoWork /\ IsWork(work[c])
          /\ UNCHANGED <<closed, indexed, indexOpen, searcher, told>>
      BY <2>5 DEF WorkFails, WorkRuns, SearchInv
    <3>2. work[c] \in SearchWork
      BY <3>1 DEF IsWork
    <3>3. /\ DOMAIN work' = SearchCallers /\ \A d \in SearchCallers \ {c} : work'[d] = work[d]
          /\ work'[c] = [work[c] EXCEPT !.result = "error"]
      BY <2>5 DEF WorkFails, Ends, SearchInv
    <3>4. /\ work'[c] \in SearchWork /\ work'[c].result = "error" /\ work'[c].op = work[c].op
          /\ work'[c].docs = work[c].docs /\ work'[c].at = work[c].at /\ work'[c].done = work[c].done
      BY <3>2, <3>3 DEF SearchWork
    <3>5. IsWork(work'[c])
      BY <3>1, <3>4 DEF IsWork
    <3>6. work'[c] # NoWork
      BY <3>4, WorkIsSome
    <3>7. searcher[c] \in {"waits", "told"} /\ told[c] \in {"none", "timeout"}
      BY <3>1 DEF SearchInv, SearchTypeOK, IsTold
    <3>8. IsTold(c)'
      BY <3>1, <3>6, <3>7 DEF IsTold, SearchInv
    <3>9. /\ searcher' \in [SearchCallers -> {"idle", "passed", "waits", "told"}]
          /\ told' \in [SearchCallers -> {"none", "ok", "error", "timeout"}]
          /\ \A d \in SearchCallers \ {c} : searcher'[d] = searcher[d] /\ told'[d] = told[d]
          /\ indexed' \subseteq Docs
      BY <3>1 DEF SearchInv, SearchTypeOK
    <3> QED
      BY <3>1, <3>3, <3>5, <3>8, <3>9, OthersKeep
  <2>6. ASSUME NEW c \in SearchCallers, Answered(c) \/ Deadline(c) PROVE SearchInv'
    <3>1. /\ searcher[c] = "waits" /\ UNCHANGED <<closed, indexed, indexOpen, work>>
          /\ \/ Tell(c, work[c].result) /\ work[c].result # "running"
             \/ Tell(c, "timeout")
      BY <2>6 DEF Answered, Deadline, WorkRuns, SearchInv, IsTold
    <3>2. work[c] # NoWork /\ IsWork(work[c])
      BY <3>1 DEF SearchInv, IsTold
    <3>3. work[c].result \in {"running", "ok", "error"}
      BY <3>2 DEF IsWork, SearchWork
    <3>4. /\ searcher' \in [SearchCallers -> {"idle", "passed", "waits", "told"}]
          /\ told' \in [SearchCallers -> {"none", "ok", "error", "timeout"}]
          /\ \A d \in SearchCallers \ {c} : searcher'[d] = searcher[d] /\ told'[d] = told[d]
          /\ searcher'[c] = "told"
          /\ (told'[c] = "timeout" \/ (told'[c] = work[c].result /\ work[c].result # "running"))
      <4>1. PICK answer : Tell(c, answer) /\ (answer = "timeout" \/ (answer = work[c].result /\ work[c].result # "running"))
        BY <3>1
      <4>2. answer \in {"none", "ok", "error", "timeout"}
        BY <3>3, <4>1
      <4> QED
        BY <4>1, <4>2 DEF Tell, SearchInv, SearchTypeOK
    <3>5. IsTold(c)'
      BY <3>1, <3>2, <3>3, <3>4 DEF IsTold
    <3>6. DOMAIN work' = SearchCallers /\ indexed' \subseteq Docs /\ IsWork(work'[c])
      BY <3>1, <3>2 DEF SearchInv, SearchTypeOK
    <3> QED
      BY <3>1, <3>4, <3>5, <3>6, OthersKeep
  <2>7. ASSUME NEW c \in SearchCallers, Again(c) PROVE SearchInv'
    <3>1. /\ searcher' \in [SearchCallers -> {"idle", "passed", "waits", "told"}]
          /\ told' \in [SearchCallers -> {"none", "ok", "error", "timeout"}]
          /\ \A d \in SearchCallers \ {c} : searcher'[d] = searcher[d] /\ told'[d] = told[d]
          /\ searcher'[c] = "idle" /\ told'[c] = "none"
          /\ indexed' \subseteq Docs /\ UNCHANGED <<closed, indexOpen>>
      BY <2>7 DEF Again, SearchInv, SearchTypeOK
    <3>2. DOMAIN work' = SearchCallers /\ work'[c] = NoWork /\ \A d \in SearchCallers \ {c} : work'[d] = work[d]
      BY <2>7 DEF Again, SearchInv
    <3>3. IsTold(c)'
      BY <3>1, <3>2 DEF IsTold
    <3> QED
      BY <3>1, <3>2, <3>3, OthersKeep
  <2>8. CASE UNCHANGED searchVars
    BY <2>8 DEF searchVars, SearchInv, SearchTypeOK, IsTold
  <2> QED
    BY <2>1, <2>2, <2>3, <2>4, <2>5, <2>6, <2>7, <2>8 DEF SearchNext, WorkStep
<1> QED
  BY <1>1, SearchStart, PTL DEF SearchSpec

LEMMA SearchTells == SearchInv => WritesAsTold
<1> SUFFICES ASSUME SearchInv, NEW c \in SearchCallers, work[c] # NoWork
             PROVE  /\ told[c] = "ok" => ToSet(work[c].docs) \subseteq work[c].done
                    /\ told[c] = "error" /\ work[c].op # "batch" => work[c].done = {}
                    /\ work[c].op = "batch" =>
                         \E n \in 0 .. Len(work[c].docs) :
                           /\ work[c].done = ToSet(SubSeq(work[c].docs, 1, n))
                           /\ n % BatchSize = 0 \/ n = Len(work[c].docs)
  BY DEF WritesAsTold, SearchInv
<1>1. IsWork(work[c]) /\ IsTold(c)
  BY DEF SearchInv
<1>2. work[c].docs \in Seq(Docs)
  BY <1>1 DEF IsWork, SearchWork
<1>3. ASSUME work[c].op = "batch"
      PROVE  /\ work[c].at \in 0 .. Len(work[c].docs)
             /\ work[c].done = ToSet(SubSeq(work[c].docs, 1, work[c].at))
             /\ work[c].at % BatchSize = 0 \/ work[c].at = Len(work[c].docs)
  BY <1>1, <1>2, <1>3, FirstDocsOf DEF IsWork
<1> QED
  BY <1>1, <1>3 DEF IsWork, IsTold

-----------------------------------------------------------------------------
(***************************************************************************)
(* The session.  The rows are finitely many, with one summary among them;  *)
(* what a chat has not recorded yet, no row tells of; and what it holds in *)
(* its memory has been recorded before.                                    *)
(***************************************************************************)
ChatMessages == (Chats \union AgentChats) \X {"user", "assistant"}
Rows == [tells : SUBSET ChatMessages, summary : BOOLEAN]

SessionParts ==
  /\ SessionTypeOK
  /\ memory \in [Chats -> SUBSET Rows]
  /\ messages \subseteq Rows /\ IsFiniteSet(messages)
  /\ created \ Told(messages) \subseteq overtaken
  /\ \A r, s \in messages : r # s => r.tells \intersect s.tells = {}
  /\ \A r, s \in messages : r.summary /\ s.summary => r = s

Unrecorded ==
  \A c \in Chats \union AgentChats :
    /\ chat[c] \in {"idle", "summarise", "record", "query"} => <<c, "assistant">> \notin created
    /\ chat[c] \in {"idle", "summarise", "record"} => <<c, "user">> \notin created

Remembered ==
  \A c \in Chats :
    /\ Told(memory[c]) \subseteq created
    /\ <<c, "user">> \notin Told(memory[c])
    /\ chat[c] = "idle" => memory[c] = {}
    /\ chat[c] \in {"record", "query"} => Cardinality(memory[c]) <= MaxSessionMessages

SessionInv == SessionParts /\ Unrecorded /\ Remembered

-----------------------------------------------------------------------------
LEMMA SessionStarts == SessionInit => SessionInv
<1> SUFFICES ASSUME SessionInit PROVE SessionInv
  OBVIOUS
<1>1. SessionParts
  BY FS_EmptySet DEF SessionInit, SessionParts, SessionTypeOK, Told
<1>2. Unrecorded
  BY DEF SessionInit, Unrecorded
<1>3. Remembered
  BY DEF SessionInit, Remembered, Told
<1> QED
  BY <1>1, <1>2, <1>3 DEF SessionInv

\* A summary tells of what its rows told of, and nothing else.
LEMMA SummaryTells ==
  ASSUME NEW rows, rows \subseteq Rows
  PROVE  /\ SummaryOf(rows) \in Rows /\ SummaryOf(rows).tells = Told(rows)
         /\ SummaryOf(rows).summary /\ Told({SummaryOf(rows)}) = Told(rows)
<1>1. Told(rows) \subseteq ChatMessages
  BY DEF Told, Rows
<1> QED
  BY <1>1 DEF SummaryOf, Told, Rows

(***************************************************************************)
(* A message that is recorded now: it is new, no row tells of it, and its  *)
(* row is no summary.                                                      *)
(***************************************************************************)
LEMMA MessageIsRecorded ==
  ASSUME SessionInv, NEW m \in ChatMessages, m \notin created, CreateMessage(m), UNCHANGED <<memory, overtaken>>
  PROVE  /\ messages' \subseteq Rows /\ IsFiniteSet(messages')
         /\ Told(messages') = Told(messages) \union {m} /\ created' = created \union {m}
         /\ created' \ Told(messages') \subseteq overtaken'
         /\ \A r, s \in messages' : r # s => r.tells \intersect s.tells = {}
         /\ \A r, s \in messages' : r.summary /\ s.summary => r = s
<1>1. /\ messages' = messages \union {Verbatim(m)} /\ created' = created \union {m}
      /\ Verbatim(m) \in Rows /\ Verbatim(m).tells = {m} /\ ~Verbatim(m).summary
  BY DEF CreateMessage, Verbatim, Rows
<1>2. messages' \subseteq Rows /\ IsFiniteSet(messages')
  BY <1>1, FS_AddElement DEF SessionInv, SessionParts
<1>3. Told(messages') = Told(messages) \union {m}
  BY <1>1 DEF Told
<1>4. \A r \in messages : m \notin r.tells
  BY DEF SessionInv, SessionParts, SessionTypeOK, Told
<1>5. \A r, s \in messages' : r # s => r.tells \intersect s.tells = {}
  BY <1>1, <1>4 DEF SessionInv, SessionParts
<1>6. \A r, s \in messages' : r.summary /\ s.summary => r = s
  BY <1>1 DEF SessionInv, SessionParts
<1>7. created' \ Told(messages') \subseteq overtaken'
  BY <1>1, <1>3 DEF SessionInv, SessionParts
<1> QED
  BY <1>1, <1>2, <1>3, <1>5, <1>6, <1>7

LEMMA BuildKeeps ==
  ASSUME SessionInv, NEW c \in Chats, buildSessionMemory(c)
  PROVE  SessionInv'
<1>1. /\ UNCHANGED <<messages, created, overtaken>> /\ chat[c] = "idle"
      /\ memory' = [memory EXCEPT ![c] = messages]
      /\ chat' = [chat EXCEPT ![c] = IF Cardinality(messages) > MaxSessionMessages
                                     THEN "summarise" ELSE "record"]
  BY DEF buildSessionMemory, Moves
<1>2. Cardinality(messages) \in Nat
  BY FS_CardinalityType DEF SessionInv, SessionParts
<1>3. SessionParts'
  BY <1>1 DEF SessionInv, SessionParts, SessionTypeOK, Told
<1>4. Unrecorded'
  BY <1>1 DEF SessionInv, SessionParts, SessionTypeOK, Unrecorded
<1>5. ASSUME NEW d \in Chats
      PROVE  /\ Told(memory'[d]) \subseteq created'
             /\ <<d, "user">> \notin Told(memory'[d])
             /\ chat'[d] = "idle" => memory'[d] = {}
             /\ chat'[d] \in {"record", "query"} => Cardinality(memory'[d]) <= MaxSessionMessages
  <2>1. CASE d = c
    <3>1. memory'[d] = messages /\ chat'[d] \in {"summarise", "record"}
          /\ (chat'[d] = "record" => ~(Cardinality(messages) > MaxSessionMessages))
      BY <1>1, <2>1 DEF SessionInv, SessionParts, SessionTypeOK
    <3>2. <<d, "user">> \notin created /\ Told(messages) \subseteq created
      BY <1>1, <2>1 DEF SessionInv, SessionParts, SessionTypeOK, Unrecorded
    <3> QED
      BY <1>1, <1>2, <3>1, <3>2, SessionAssumption
  <2>2. CASE d # c
    <3>1. memory'[d] = memory[d] /\ chat'[d] = chat[d]
      BY <1>1, <2>2 DEF SessionInv, SessionParts, SessionTypeOK
    <3> QED
      BY <1>1, <3>1 DEF SessionInv, Remembered
  <2> QED
    BY <2>1, <2>2
<1> QED
  BY <1>3, <1>4, <1>5 DEF SessionInv, Remembered

LEMMA CompactKeeps ==
  ASSUME SessionInv, NEW c \in Chats, compactSessionMessages(c)
  PROVE  SessionInv'
<1> DEFINE summary == SummaryOf(memory[c])
<1>1. chat[c] = "summarise" /\ UNCHANGED created
  BY DEF compactSessionMessages
<1>2. memory[c] \subseteq Rows /\ Told(memory[c]) \subseteq created /\ <<c, "user">> \notin Told(memory[c])
  BY DEF SessionInv, SessionParts, Remembered
<1>3. /\ summary \in Rows /\ summary.tells = Told(memory[c]) /\ summary.summary
      /\ Told({summary}) = Told(memory[c])
  BY <1>2, SummaryTells
<1>4. ASSUME messages' = {summary}, overtaken' = overtaken \union (Told(messages) \ summary.tells),
             memory' = [memory EXCEPT ![c] = {summary}], Moves(c, "record")
      PROVE  SessionInv'
  <2> HIDE DEF summary
  <2>1. IsFiniteSet({summary}) /\ Cardinality({summary}) = 1
    BY FS_Singleton
  <2>2. Told(messages') = Told(memory[c])
    BY <1>3, <1>4
  <2>3. SessionTypeOK' /\ memory' \in [Chats -> SUBSET Rows]
    BY <1>1, <1>2, <1>3, <1>4, <2>2 DEF SessionInv, SessionParts, SessionTypeOK, Moves
  <2>4. created' \ Told(messages') \subseteq overtaken'
    BY <1>1, <1>3, <1>4, <2>2 DEF SessionInv, SessionParts
  <2>5. SessionParts'
    BY <1>3, <1>4, <2>1, <2>3, <2>4 DEF SessionParts
  <2>6. Unrecorded'
    BY <1>1, <1>4 DEF SessionInv, SessionParts, SessionTypeOK, Unrecorded, Moves
  <2>7. ASSUME NEW d \in Chats
        PROVE  /\ Told(memory'[d]) \subseteq created'
               /\ <<d, "user">> \notin Told(memory'[d])
               /\ chat'[d] = "idle" => memory'[d] = {}
               /\ chat'[d] \in {"record", "query"} => Cardinality(memory'[d]) <= MaxSessionMessages
    <3>1. CASE d = c
      <4>1. memory'[d] = {summary} /\ chat'[d] = "record"
        BY <1>4, <3>1 DEF SessionInv, SessionParts, SessionTypeOK, Moves
      <4> QED
        BY <1>1, <1>2, <1>3, <2>1, <3>1, <4>1, SessionAssumption
    <3>2. CASE d # c
      <4>1. memory'[d] = memory[d] /\ chat'[d] = chat[d]
        BY <1>4, <3>2 DEF SessionInv, SessionParts, SessionTypeOK, Moves
      <4> QED
        BY <1>1, <4>1 DEF SessionInv, Remembered
    <3> QED
      BY <3>1, <3>2
  <2> QED
    BY <2>5, <2>6, <2>7 DEF SessionInv, Remembered
<1>5. ASSUME Moves(c, "failed"), UNCHANGED <<messages, overtaken, memory>>
      PROVE  SessionInv'
  <2>1. SessionParts'
    BY <1>1, <1>5 DEF SessionInv, SessionParts, SessionTypeOK, Moves, Told
  <2>2. Unrecorded' /\ Remembered'
    BY <1>1, <1>5 DEF SessionInv, SessionParts, SessionTypeOK, Unrecorded, Remembered, Moves, Told
  <2> QED
    BY <2>1, <2>2 DEF SessionInv
<1> QED
  BY <1>4, <1>5 DEF compactSessionMessages, ReplaceRows

(***************************************************************************)
(* Every way of recording one of a chat's two messages.                    *)
(***************************************************************************)
LEMMA RecordKeeps ==
  ASSUME SessionInv, NEW c \in Chats \union AgentChats,
         NEW from \in {"idle", "record", "query"}, chat[c] = from,
         NEW who \in {"user", "assistant"}, NEW to \in {"query", "answered"},
         IF from = "query" THEN who = "assistant" /\ to = "answered" ELSE who = "user" /\ to = "query",
         CreateMessage(<<c, who>>), Moves(c, to), UNCHANGED <<memory, overtaken>>
  PROVE  SessionInv'
<1> DEFINE m == <<c, who>>
<1>1. m \in ChatMessages /\ m \notin created
  BY DEF SessionInv, Unrecorded, ChatMessages
<1>2. /\ messages' \subseteq Rows /\ IsFiniteSet(messages')
      /\ Told(messages') = Told(messages) \union {m} /\ created' = created \union {m}
      /\ created' \ Told(messages') \subseteq overtaken'
      /\ \A r, s \in messages' : r # s => r.tells \intersect s.tells = {}
      /\ \A r, s \in messages' : r.summary /\ s.summary => r = s
  BY <1>1, MessageIsRecorded
<1>3. chat' = [chat EXCEPT ![c] = to]
  BY DEF Moves
<1>4. SessionParts'
  BY <1>1, <1>2, <1>3 DEF SessionInv, SessionParts, SessionTypeOK, ChatMessages
<1>5. Unrecorded'
  BY <1>2, <1>3 DEF SessionInv, SessionParts, SessionTypeOK, Unrecorded
<1>6. ASSUME NEW d \in Chats
      PROVE  /\ Told(memory'[d]) \subseteq created'
             /\ <<d, "user">> \notin Told(memory'[d])
             /\ chat'[d] = "idle" => memory'[d] = {}
             /\ chat'[d] \in {"record", "query"} => Cardinality(memory'[d]) <= MaxSessionMessages
  <2>1. /\ Told(memory[d]) \subseteq created /\ <<d, "user">> \notin Told(memory[d])
        /\ chat[d] = "idle" => memory[d] = {}
        /\ chat[d] \in {"record", "query"} => Cardinality(memory[d]) <= MaxSessionMessages
    BY DEF SessionInv, Remembered
  <2>2. Cardinality({}) = 0
    BY FS_EmptySet
  <2>3. chat'[d] = (IF d = c THEN to ELSE chat[d]) /\ memory'[d] = memory[d]
    BY <1>3 DEF SessionInv, SessionParts, SessionTypeOK
  <2>4. chat'[d] \in {"record", "query"} => Cardinality(memory[d]) <= MaxSessionMessages
    <3>1. CASE d = c /\ from = "idle"
      BY <2>1, <2>2, <3>1, SessionAssumption
    <3>2. CASE ~(d = c /\ from = "idle")
      BY <2>1, <2>3, <3>2
    <3> QED
      BY <3>1, <3>2
  <2> QED
    BY <1>2, <2>1, <2>3, <2>4
<1> QED
  BY <1>4, <1>5, <1>6 DEF SessionInv, Remembered

LEMMA FailsKeeps ==
  ASSUME SessionInv, NEW c \in Chats, Moves(c, "failed"), UNCHANGED <<messages, created, memory, overtaken>>
  PROVE  SessionInv'
<1>1. SessionParts'
  BY DEF SessionInv, SessionParts, SessionTypeOK, Moves, Told
<1>2. Unrecorded' /\ Remembered'
  BY DEF SessionInv, SessionParts, SessionTypeOK, Unrecorded, Remembered, Moves, Told
<1> QED
  BY <1>1, <1>2 DEF SessionInv

LEMMA SessionInvariant == SessionSpec => []SessionInv
<1>1. SessionInv /\ [SessionNext]_sessionVars => SessionInv'
  <2> SUFFICES ASSUME SessionInv, [SessionNext]_sessionVars PROVE SessionInv'
    OBVIOUS
  <2>1. ASSUME NEW c \in Chats, buildSessionMemory(c) PROVE SessionInv'
    BY <2>1, BuildKeeps
  <2>2. ASSUME NEW c \in Chats, compactSessionMessages(c) PROVE SessionInv'
    BY <2>2, CompactKeeps
  <2>3. ASSUME NEW c \in Chats, RecordQuestion(c) PROVE SessionInv'
    BY <2>3, RecordKeeps DEF RecordQuestion
  <2>4. ASSUME NEW c \in Chats, RecordAnswer(c) PROVE SessionInv'
    <3>1. CASE CreateMessage(<<c, "assistant">>) /\ Moves(c, "answered")
      BY <2>4, <3>1, RecordKeeps DEF RecordAnswer
    <3>2. CASE Moves(c, "failed") /\ UNCHANGED <<messages, created>>
      BY <2>4, <3>2, FailsKeeps DEF RecordAnswer
    <3> QED
      BY <2>4, <3>1, <3>2 DEF RecordAnswer
  <2>5. ASSUME NEW c \in AgentChats, RecordRun(c) PROVE SessionInv'
    BY <2>5, RecordKeeps DEF RecordRun
  <2>6. ASSUME NEW c \in AgentChats, RecordOutput(c) PROVE SessionInv'
    BY <2>6, RecordKeeps DEF RecordOutput
  <2>7. CASE UNCHANGED sessionVars
    BY <2>7 DEF sessionVars, SessionInv, SessionParts, SessionTypeOK, Unrecorded, Remembered, Told
  <2> QED
    BY <2>1, <2>2, <2>3, <2>4, <2>5, <2>6, <2>7 DEF SessionNext
<1> QED
  BY <1>1, SessionStarts, PTL DEF SessionSpec

LEMMA SessionHolds == SessionInv => SessionRemembers
<1> SUFFICES ASSUME SessionInv PROVE SessionRemembers
  OBVIOUS
<1> DEFINE S == {r \in messages : r.summary}
<1>1. Cardinality(S) <= 1
  <2>1. CASE S = {}
    BY <2>1, FS_EmptySet
  <2>2. CASE S # {}
    <3>1. PICK r \in S : TRUE
      BY <2>2
    <3>2. S = {r}
      BY <3>1 DEF SessionInv, SessionParts
    <3> QED
      BY <3>2, FS_Singleton
  <2> QED
    BY <2>1, <2>2
<1> QED
  BY <1>1 DEF SessionRemembers, SessionInv, SessionParts, Remembered

-----------------------------------------------------------------------------
(***************************************************************************)
(* Tokens.  What a call may still claim, and so what the claims of every   *)
(* issued token go back to.                                                *)
(***************************************************************************)
Lives(token) == IF token.type = "access" THEN accessTokenExpire ELSE refreshTokenExpire

\* A parent that was presented in time, by a user who has logged in.
SpeaksFor(parent, owner) ==
  /\ parent # Root =>
       /\ parent.type = "refresh" /\ parent.user = owner
       /\ parent.presented \in 0 .. second
       /\ parent.presented \in parent.iat .. parent.exp

IsIssued(token) ==
  /\ token.type \in {"access", "refresh"}
  /\ token.iat \in 0 .. second /\ token.exp = token.iat + Lives(token)
  /\ \E login \in logins : login[1] = token.user /\ login[2] <= token.iat
  /\ SpeaksFor(token.parent, token.user)
  /\ token.parent # Root => token.parent.presented <= token.iat

IsACall(call) ==
  /\ DOMAIN call = {"by", "user", "parent", "types", "made"}
  /\ call = [f \in DOMAIN call |-> call[f]]

IsCalled(call) ==
  /\ IsACall(call)
  /\ call.types \in Seq({"access", "refresh"}) /\ call.types # <<>>
  /\ \E login \in logins : login[1] = call.user /\ login[2] <= second
  /\ SpeaksFor(call.parent, call.user)
  /\ \A token \in call.made : IsIssued(token)

TokensInv ==
  /\ TokensTypeOK
  /\ \A login \in logins : login[2] \in 0 .. second
  /\ \A token \in issued : IsIssued(token)
  /\ \A call \in calls : IsCalled(call)

LEMMA TokensStart == TokensInit => TokensInv
BY TokensAssumption DEF TokensInit, TokensInv, TokensTypeOK

LEMMA LifetimesAreInts == accessTokenExpire \in Int /\ refreshTokenExpire \in Int
BY TokensAssumption, SMT DEF accessTokenExpire, refreshTokenExpire

LEMMA ClaimsMade ==
  ASSUME NEW i, NEW owner, NEW type \in {"access", "refresh"}, NEW at, NEW parent
  PROVE  LET token == Claims(i, owner, type, at, parent)
         IN /\ token.type = type /\ token.user = owner /\ token.iat = at /\ token.parent = parent
            /\ token.exp = at + Lives(token)
BY DEF Claims, Lives

\* What was true of a token or a call stays true as time passes and users log in.
LEMMA ClaimsStay ==
  ASSUME TokensInv, second' \in 0 .. LastSecond, second <= second', logins \subseteq logins'
  PROVE  /\ \A parent, owner : SpeaksFor(parent, owner) => SpeaksFor(parent, owner)'
         /\ \A token : IsIssued(token) => IsIssued(token)'
         /\ \A call : IsCalled(call) => IsCalled(call)'
<1>1. second \in Nat /\ second' \in Nat /\ 0 .. second \subseteq 0 .. second'
  BY TokensAssumption DEF TokensInv, TokensTypeOK
<1>2. ASSUME NEW parent, NEW owner, SpeaksFor(parent, owner) PROVE SpeaksFor(parent, owner)'
  BY <1>1, <1>2 DEF SpeaksFor
<1>3. ASSUME NEW token, IsIssued(token) PROVE IsIssued(token)'
  <2>1. SpeaksFor(token.parent, token.user)'
    BY <1>2, <1>3 DEF IsIssued
  <2> QED
    BY <1>1, <1>3, <2>1 DEF IsIssued, Lives
<1>4. ASSUME NEW call, IsCalled(call) PROVE IsCalled(call)'
  <2>1. SpeaksFor(call.parent, call.user)' /\ \A token \in call.made : IsIssued(token)'
    BY <1>2, <1>3, <1>4 DEF IsCalled
  <2>2. PICK login \in logins : login[1] = call.user /\ login[2] <= second
    BY <1>4 DEF IsCalled
  <2>3. login \in logins' /\ login[2] \in 0 .. second
    BY <2>2 DEF TokensInv
  <2>4. login[2] <= second'
    BY <1>1, <2>2, <2>3
  <2> QED
    BY <1>4, <2>1, <2>2, <2>3, <2>4 DEF IsCalled
<1> QED
  BY <1>2, <1>3, <1>4

\* A call that is begun for a user who has logged in, for whom the parent may speak.
LEMMA CallBegins ==
  ASSUME TokensInv, NEW i, NEW owner, NEW parent, UNCHANGED <<second, issued>>, logins \subseteq logins',
         GenerateTokenPair(i, owner, parent) \/ GenerateAccessToken(i, owner, parent),
         \E login \in logins' : login[1] = owner /\ login[2] <= second,
         \A login \in logins' : login[2] \in 0 .. second,
         SpeaksFor(parent, owner)
  PROVE  TokensInv'
<1>1. PICK types \in Seq({"access", "refresh"}) : types # <<>> /\ Generating(i, owner, parent, types)
  <2>1. /\ <<"access", "refresh">> \in Seq({"access", "refresh"}) /\ <<"access", "refresh">> # <<>>
        /\ <<"access">> \in Seq({"access", "refresh"}) /\ <<"access">> # <<>>
    OBVIOUS
  <2> QED
    BY <2>1 DEF GenerateTokenPair, GenerateAccessToken
<1> DEFINE call == [by |-> i, user |-> owner, parent |-> parent, types |-> types, made |-> {}]
<1>2. /\ promised' = promised + Len(types) /\ promised + Len(types) <= MaxTokens
      /\ calls' = calls \union {call} /\ Len(types) \in Nat
  BY <1>1, LenProperties DEF Generating
<1>3. second \in Nat /\ second <= second' /\ second' \in 0 .. LastSecond /\ promised' \in 0 .. MaxTokens
  BY <1>2, TokensAssumption DEF TokensInv, TokensTypeOK
<1>4. /\ SpeaksFor(parent, owner)'
      /\ \A token \in issued : IsIssued(token)'
      /\ \A c \in calls : IsCalled(c)'
  BY <1>3, ClaimsStay DEF TokensInv
<1>5. call.user = owner /\ call.parent = parent /\ call.types = types /\ call.made = {}
  OBVIOUS
<1>8. IsACall(call)
  BY DEF IsACall
<1> HIDE DEF call
<1>6. IsCalled(call)'
  BY <1>1, <1>4, <1>5, <1>8 DEF IsCalled
<1>7. \A c \in calls' : IsCalled(c)'
  BY <1>2, <1>4, <1>6
<1> QED
  BY <1>3, <1>4, <1>7 DEF TokensInv, TokensTypeOK

\* A refresh token that is accepted speaks for its user now.
LEMMA ParentSpeaks ==
  ASSUME TokensInv, NEW i, NEW token \in issued, VerifyRefreshToken(i, token)
  PROVE  /\ \E login \in logins : login[1] = token.user /\ login[2] <= second
         /\ SpeaksFor(Trace(token), token.user)
<1>1. /\ token.iat \in 0 .. second /\ token.exp = token.iat + Lives(token)
      /\ second <= token.exp /\ token.type = "refresh" /\ second \in Nat
  BY TokensAssumption DEF TokensInv, TokensTypeOK, IsIssued, VerifyRefreshToken, verify
<1>2. /\ Trace(token).type = "refresh" /\ Trace(token).user = token.user
      /\ Trace(token).iat = token.iat /\ Trace(token).exp = token.exp /\ Trace(token).presented = second
  BY <1>1 DEF Trace
<1>3. token.exp \in Int
  BY <1>1, LifetimesAreInts DEF Lives
<1>4. SpeaksFor(Trace(token), token.user)
  BY <1>1, <1>2, <1>3 DEF SpeaksFor
<1>5. PICK login \in logins : login[1] = token.user /\ login[2] <= token.iat
  BY DEF TokensInv, IsIssued
<1>6. login[2] \in 0 .. second
  BY DEF TokensInv
<1>7. login[2] <= second
  BY <1>1, <1>5, <1>6
<1> QED
  BY <1>4, <1>5, <1>7

\* The clock is at the login, and at the parent's presentation, or past them.
LEMMA IssueKeeps ==
  ASSUME TokensInv, NEW call \in calls, IssueToken(call)
  PROVE  TokensInv'
<1> DEFINE token == Claims(call.by, call.user, Head(call.types), second, call.parent)
<1>1. UNCHANGED <<second, promised, logins>>
  BY DEF IssueToken
<1>2. /\ IsCalled(call) /\ call.types \in Seq({"access", "refresh"}) /\ call.types # <<>>
      /\ second \in Nat
  BY TokensAssumption DEF TokensInv, TokensTypeOK, IsCalled
<1>3. /\ Head(call.types) \in {"access", "refresh"} /\ Len(call.types) \in Nat \ {0}
      /\ Tail(call.types) \in Seq({"access", "refresh"})
      /\ Len(call.types) # 1 => Tail(call.types) # <<>>
  <2>1. /\ Head(call.types) \in {"access", "refresh"} /\ Len(call.types) \in Nat \ {0}
        /\ Tail(call.types) \in Seq({"access", "refresh"})
        /\ Len(Tail(call.types)) = Len(call.types) - 1
    BY <1>2, HeadTailProperties, EmptySeq, LenProperties
  <2>2. ASSUME Tail(call.types) = <<>> PROVE Len(call.types) = 1
    <3>1. Len(<<>>) = 0
      OBVIOUS
    <3>2. Len(Tail(call.types)) = 0
      BY <2>2, <3>1, Zenon
    <3> QED
      BY <2>1, <3>2
  <2> QED
    BY <2>1, <2>2
<1>4. /\ token.type \in {"access", "refresh"} /\ token.user = call.user /\ token.iat = second
      /\ token.parent = call.parent /\ token.exp = second + Lives(token)
  BY <1>3, ClaimsMade
<1> HIDE DEF token
<1>5. IsIssued(token)
  <2>1. SpeaksFor(token.parent, token.user) /\ \E login \in logins : login[1] = token.user /\ login[2] <= second
    BY <1>2, <1>4 DEF IsCalled
  <2>2. token.parent # Root => token.parent.presented <= token.iat
    BY <1>2, <1>4, <2>1 DEF SpeaksFor
  <2> QED
    BY <1>2, <1>4, <2>1, <2>2 DEF IsIssued
<1>6. PICK bunch : bunch = call.made \union {token} /\ \A t \in bunch : IsIssued(t)
  BY <1>2, <1>5 DEF IsCalled
<1>7. second <= second' /\ second' \in 0 .. LastSecond
  BY <1>1, <1>2 DEF TokensInv, TokensTypeOK
<1>8. /\ \A t \in issued : IsIssued(t)'
      /\ \A t \in bunch : IsIssued(t)'
      /\ \A c \in calls : IsCalled(c)'
  BY <1>1, <1>6, <1>7, ClaimsStay DEF TokensInv
<1>9. /\ issued' = IF Len(call.types) = 1 THEN issued \union bunch ELSE issued
      /\ calls' = (calls \ {call}) \union
                    (IF Len(call.types) = 1 THEN {}
                     ELSE {[call EXCEPT !.types = Tail(call.types), !.made = bunch]})
  BY <1>6 DEF IssueToken, token
<1>10. ASSUME NEW t \in issued' PROVE IsIssued(t)'
  <2>1. t \in issued \/ t \in bunch
    BY <1>9, <1>10
  <2> QED
    BY <1>8, <2>1
<1>11. ASSUME NEW c \in calls' PROVE IsCalled(c)'
  <2>1. CASE c \in calls
    BY <1>8, <2>1
  <2>2. CASE c \notin calls
    <3>1. Len(call.types) # 1 /\ c = [call EXCEPT !.types = Tail(call.types), !.made = bunch]
      BY <1>9, <1>11, <2>2
    <3>2. IsACall(call)
      BY DEF TokensInv, IsCalled
    <3>3. c.types = Tail(call.types) /\ c.made = bunch /\ c.user = call.user /\ c.parent = call.parent
      BY <3>1, <3>2 DEF IsACall
    <3>4. IsACall(c)
      BY <3>1, <3>2 DEF IsACall
    <3>5. SpeaksFor(c.parent, c.user)' /\ \E login \in logins' : login[1] = c.user /\ login[2] <= second'
      <4>1. IsCalled(call)' /\ c.parent = call.parent /\ c.user = call.user
        BY <1>8, <3>3
      <4> QED
        BY <4>1 DEF IsCalled
    <3>6. c.types \in Seq({"access", "refresh"}) /\ c.types # <<>>
      BY <1>3, <3>1, <3>3
    <3>7. \A t \in c.made : IsIssued(t)'
      BY <1>8, <3>3
    <3> QED
      BY <3>4, <3>5, <3>6, <3>7 DEF IsCalled
  <2> QED
    BY <2>1, <2>2
<1>12. (\A t \in issued : IsIssued(t))' /\ (\A c \in calls : IsCalled(c))'
  BY <1>10, <1>11
<1> QED
  BY <1>1, <1>12 DEF TokensInv, TokensTypeOK

LEMMA TokensInvariant == TokensSpec => []TokensInv
<1>1. TokensInv /\ [TokensNext]_tokenVars => TokensInv'
  <2> SUFFICES ASSUME TokensInv, [TokensNext]_tokenVars PROVE TokensInv'
    OBVIOUS
  <2>1. CASE SecondPasses
    <3>1. second' \in 0 .. LastSecond /\ second' >= second /\ UNCHANGED <<issued, calls, promised, logins>>
      BY <2>1, TokensAssumption DEF SecondPasses, TokensInv, TokensTypeOK
    <3>2. (\A token \in issued : IsIssued(token)') /\ (\A call \in calls : IsCalled(call)')
      BY <3>1, ClaimsStay, TokensAssumption DEF TokensInv, TokensTypeOK
    <3>3. \A login \in logins' : login[2] \in 0 .. second'
      BY <3>1, TokensAssumption DEF TokensInv, TokensTypeOK
    <3> QED
      BY <3>1, <3>2, <3>3 DEF TokensInv, TokensTypeOK
  <2>2. ASSUME NEW i \in Instances, NEW owner \in TokenUsers, Login(i, owner) PROVE TokensInv'
    <3>1. /\ <<owner, second>> \in logins' /\ logins \subseteq logins' /\ UNCHANGED <<second, issued>>
          /\ GenerateTokenPair(i, owner, Root)
      BY <2>2 DEF Login
    <3>2. \E login \in logins' : login[1] = owner /\ login[2] <= second
      BY <3>1, TokensAssumption DEF TokensInv, TokensTypeOK
    <3>3. \A login \in logins' : login[2] \in 0 .. second
      BY <2>2, TokensAssumption DEF Login, TokensInv, TokensTypeOK
    <3>4. SpeaksFor(Root, owner)
      BY DEF SpeaksFor
    <3> QED
      BY <3>1, <3>2, <3>3, <3>4, CallBegins
  <2>3. ASSUME NEW i \in Instances, NEW token \in issued, RefreshToken(i, token) \/ RefreshAccessToken(i, token)
        PROVE  TokensInv'
    <3>1. /\ VerifyRefreshToken(i, token) /\ UNCHANGED <<second, issued, logins>>
          /\ \/ GenerateTokenPair(i, token.user, Trace(token))
             \/ GenerateAccessToken(i, token.user, Trace(token))
      BY <2>3 DEF RefreshToken, RefreshAccessToken
    <3>2. /\ \E login \in logins' : login[1] = token.user /\ login[2] <= second
          /\ SpeaksFor(Trace(token), token.user)
      BY <3>1, ParentSpeaks
    <3>3. \A login \in logins' : login[2] \in 0 .. second
      BY <3>1 DEF TokensInv
    <3> QED
      BY <3>1, <3>2, <3>3, CallBegins
  <2>4. ASSUME NEW call \in calls, IssueToken(call) PROVE TokensInv'
    BY <2>4, IssueKeeps
  <2>5. CASE UNCHANGED tokenVars
    <3>1. second <= second' /\ second' \in 0 .. LastSecond /\ logins \subseteq logins'
      BY <2>5, TokensAssumption DEF tokenVars, TokensInv, TokensTypeOK
    <3>2. (\A token \in issued : IsIssued(token)') /\ (\A call \in calls : IsCalled(call)')
      BY <3>1, ClaimsStay DEF TokensInv
    <3> QED
      BY <2>5, <3>1, <3>2 DEF tokenVars, TokensInv, TokensTypeOK
  <2> QED
    BY <2>1, <2>2, <2>3, <2>4, <2>5 DEF TokensNext
<1> QED
  BY <1>1, TokensStart, PTL DEF TokensSpec

LEMMA TokensHold == TokensInv => TokensLive
<1> SUFFICES ASSUME TokensInv, NEW token \in issued, NEW i \in Instances
             PROVE  /\ VerifyAccessToken(i, token) \/ VerifyRefreshToken(i, token) =>
                         /\ \E login \in logins : login[1] = token.user /\ login[2] <= token.iat
                         /\ second - token.iat <=
                              (IF VerifyAccessToken(i, token) THEN accessTokenExpire ELSE refreshTokenExpire)
                         /\ token.parent # Root =>
                              /\ token.parent.type = "refresh" /\ token.parent.user = token.user
                              /\ token.parent.presented \in token.parent.iat .. token.parent.exp
                              /\ token.parent.presented <= token.iat
                    /\ i = token.by /\ ~ShouldRefresh(token, 0) => verify(i, token) /\ ~IsExpired(token)
  BY DEF TokensLive
<1>1. IsIssued(token) /\ second \in Nat /\ token.iat \in Nat /\ token.exp = token.iat + Lives(token)
  BY TokensAssumption DEF TokensInv, TokensTypeOK, IsIssued
<1>2. Lives(token) \in Int
  BY LifetimesAreInts DEF Lives
<1>3. ASSUME VerifyAccessToken(i, token) \/ VerifyRefreshToken(i, token)
      PROVE  second - token.iat <=
               (IF VerifyAccessToken(i, token) THEN accessTokenExpire ELSE refreshTokenExpire)
  <2>1. second <= token.exp /\ (VerifyAccessToken(i, token) <=> token.type = "access")
    BY <1>3 DEF VerifyAccessToken, VerifyRefreshToken, verify
  <2>2. second - token.iat <= Lives(token)
    BY <1>1, <1>2, <2>1
  <2> QED
    BY <2>1, <2>2 DEF Lives
<1>4. ASSUME i = token.by, ~ShouldRefresh(token, 0) PROVE verify(i, token) /\ ~IsExpired(token)
  BY <1>1, <1>2, <1>4 DEF ShouldRefresh, GetExpirationTime, IsExpired, verify
<1> QED
  BY <1>1, <1>3, <1>4 DEF IsIssued, SpeaksFor

-----------------------------------------------------------------------------
(***************************************************************************)
(* The Bailian index.  A wanted document that was there all the time and   *)
(* is not found yet stands on a page that is still to be read: documents   *)
(* that are added move it back, and only deletions move it forward.        *)
(***************************************************************************)
Calls == [doing : {"get", "list", "query"}, index : Indexes, wanted : SUBSET Documents,
          page : Nat \ {0}, found : SUBSET Documents, done : BOOLEAN]

\* Somewhere after the pages that have been read.
Ahead(d, listing, page) == \E k \in 1 .. Len(listing) : listing[k] = d /\ k > PageSize * (page - 1)

FoundOrAhead(r) == \A d \in present[r] \intersect reader[r].wanted :
  d \in reader[r].found \/ Ahead(d, documents[reader[r].index], reader[r].page)

ReadsOn(r) ==
  /\ reader[r] \in Calls
  /\ ToSet(documents[reader[r].index]) \subseteq appeared[r]
  /\ reader[r].found \subseteq appeared[r]
  /\ reader[r].doing # "query" => reader[r].found \subseteq reader[r].wanted
  /\ ~reader[r].done /\ ~shrunk[r] => FoundOrAhead(r)
  /\ reader[r].done =>
       \/ present[r] \intersect reader[r].wanted \subseteq reader[r].found
       \/ shrunk[r]
       \/ (reader[r].doing = "get" /\ reader[r].page > MaxPages)

BailianTyped ==
  /\ documents \in [Indexes -> Seq(Documents)]
  /\ \A i \in Indexes : IsInjective(documents[i])
  /\ jobs \subseteq Indexes \X Documents
  /\ present \in [Readers -> SUBSET Documents]
  /\ appeared \in [Readers -> SUBSET Documents]
  /\ shrunk \in [Readers -> BOOLEAN]
  /\ DOMAIN reader = Readers
  /\ \A r \in Readers : present[r] \subseteq appeared[r]

BailianInv ==
  /\ BailianTyped
  /\ \A r \in Readers : reader[r] = AtRest \/ ReadsOn(r)

LEMMA CallIsNoRest == \A c \in Calls : c # AtRest
<1> SUFFICES ASSUME NEW c \in Calls PROVE c # AtRest
  OBVIOUS
<1>1. c.doing # "nothing"
  BY DEF Calls
<1> QED
  BY <1>1 DEF AtRest

LEMMA SomeIndexIsOne == SomeIndex \subseteq Indexes
BY BailianAssumption DEF SomeIndex, resolveIndexID

LEMMA BailianStart == BailianInit => BailianInv
<1> SUFFICES ASSUME BailianInit PROVE BailianInv
  OBVIOUS
<1>1. <<>> \in Seq(Documents) /\ IsInjective(<<>>)
  BY DEF IsInjective
<1>2. BailianTyped
  BY <1>1 DEF BailianInit, BailianTyped
<1> QED
  BY <1>2 DEF BailianInit, BailianInv

\* What changes neither the documents nor what is known of a reader keeps it.
LEMMA ReaderStays ==
  ASSUME NEW r \in Readers, ReadsOn(r),
         reader'[r] = reader[r],
         documents'[reader[r].index] = documents[reader[r].index],
         present'[r] = present[r], appeared'[r] = appeared[r], shrunk'[r] = shrunk[r]
  PROVE  ReadsOn(r)'
BY DEF ReadsOn, FoundOrAhead

-----------------------------------------------------------------------------
\* A job is carried out: a document comes to stand somewhere in the listing.
LEMMA InsertedInListing ==
  ASSUME NEW listing \in Seq(Documents), IsInjective(listing), NEW d \in Documents \ ToSet(listing),
         NEW place \in 1 .. Len(listing) + 1
  PROVE  /\ InsertAt(listing, place, d) \in Seq(Documents)
         /\ IsInjective(InsertAt(listing, place, d))
         /\ ToSet(InsertAt(listing, place, d)) \subseteq ToSet(listing) \union {d}
         /\ \A e, page : page \in Nat \ {0} /\ Ahead(e, listing, page) => Ahead(e, InsertAt(listing, place, d), page)
<1> DEFINE more == InsertAt(listing, place, d)
           n == Len(listing)
<1>1. /\ more \in Seq(Documents) /\ Len(more) = n + 1
      /\ \A i \in 1 .. n + 1 :
           more[i] = IF i < place THEN listing[i] ELSE IF i = place THEN d ELSE listing[i - 1]
  <2>1. d \in Documents
    OBVIOUS
  <2>2. LET r == InsertAt(listing, place, d)
        IN  /\ r \in Seq(Documents) /\ Len(r) = Len(listing) + 1
            /\ \A i \in 1 .. Len(listing) + 1 :
                 r[i] = IF i < place THEN listing[i] ELSE IF i = place THEN d ELSE listing[i - 1]
    BY <2>1, Inserted
  <2> QED
    BY <2>2
<1>2. /\ n \in Nat /\ DOMAIN listing = 1 .. n /\ DOMAIN more = 1 .. n + 1
      /\ \A i \in 1 .. n : listing[i] \in ToSet(listing) /\ listing[i] # d
  BY <1>1, LenProperties DEF ToSet
<1> HIDE DEF more, n
<1>3. \A i \in 1 .. n + 1 : i > place => i - 1 \in 1 .. n
  BY <1>2
<1>4. \A i \in 1 .. n + 1 : i < place => i \in 1 .. n
  BY <1>2 DEF n
<1>5. IsInjective(more)
  <2> SUFFICES ASSUME NEW i \in 1 .. n + 1, NEW j \in 1 .. n + 1, more[i] = more[j] PROVE i = j
    BY <1>2 DEF IsInjective
  <2>1. \A k, l \in 1 .. n : listing[k] = listing[l] => k = l
    BY <1>2 DEF IsInjective
  <2>2. i = place <=> j = place
    BY <1>1, <1>2, <1>3, <1>4
  <2>3. CASE i < place /\ j < place
    BY <1>1, <1>4, <2>1, <2>3
  <2>4. CASE i > place /\ j > place
    <3>1. i - 1 = j - 1
      <4>1. i - 1 \in 1 .. n /\ j - 1 \in 1 .. n
        BY <1>3, <2>4
      <4>2. more[i] = listing[i - 1] /\ more[j] = listing[j - 1]
        BY <1>1, <1>2, <2>4
      <4> QED
        BY <2>1, <4>1, <4>2
    <3> QED
      BY <3>1
  <2>5. CASE i < place /\ j > place
    <3>1. i = j - 1
      BY <1>1, <1>3, <1>4, <2>1, <2>5
    <3> QED
      BY <2>5, <3>1
  <2>6. CASE i > place /\ j < place
    <3>1. j = i - 1
      BY <1>1, <1>3, <1>4, <2>1, <2>6
    <3> QED
      BY <2>6, <3>1
  <2> QED
    BY <2>2, <2>3, <2>4, <2>5, <2>6
<1>6. ToSet(more) \subseteq ToSet(listing) \union {d}
  <2>1. ASSUME NEW i \in 1 .. n + 1 PROVE more[i] \in ToSet(listing) \union {d}
    <3>1. CASE i < place
      BY <1>1, <1>2, <1>4, <3>1
    <3>2. CASE i = place
      BY <1>1, <3>2
    <3>3. CASE i > place
      BY <1>1, <1>2, <1>3, <3>3
    <3> QED
      BY <1>2, <3>1, <3>2, <3>3
  <2> QED
    BY <1>2, <2>1 DEF ToSet
<1>7. ASSUME NEW e, NEW page \in Nat \ {0}, Ahead(e, listing, page) PROVE Ahead(e, more, page)
  <2>1. PICK k \in 1 .. n : listing[k] = e /\ k > PageSize * (page - 1)
    BY <1>7 DEF Ahead, n
  <2>2. PageSize * (page - 1) \in Int
    BY BailianAssumption
  <2>3. CASE k < place
    BY <1>1, <1>2, <2>1, <2>3 DEF Ahead
  <2>4. CASE k >= place
    <3>1. k + 1 \in 1 .. n + 1 /\ k + 1 > place /\ (k + 1) - 1 = k /\ k + 1 > PageSize * (page - 1)
      BY <1>2, <2>1, <2>2, <2>4
    <3>2. more[k + 1] = e
      BY <1>1, <2>1, <3>1
    <3> QED
      BY <1>1, <3>1, <3>2 DEF Ahead
  <2> QED
    BY <1>2, <2>3, <2>4
<1> QED
  BY <1>1, <1>5, <1>6, <1>7 DEF more

LEMMA CarryOutKeeps ==
  ASSUME BailianInv, NEW job \in jobs, CarryOut(job)
  PROVE  BailianInv'
<1> DEFINE i == job[1]
           d == job[2]
<1>1. i \in Indexes /\ d \in Documents /\ jobs' \subseteq jobs
  BY DEF CarryOut, BailianInv, BailianTyped
<1>2. CASE UNCHANGED <<documents, appeared>>
  BY <1>1, <1>2, ReaderStays DEF CarryOut, BailianInv, BailianTyped
<1>3. CASE ~UNCHANGED <<documents, appeared>>
  <2>1. /\ d \notin ToSet(documents[i])
        /\ \E place \in 1 .. Len(documents[i]) + 1 :
             documents' = [documents EXCEPT ![i] = InsertAt(documents[i], place, d)]
        /\ appeared' = [r \in Readers |-> appeared[r] \union (IF r \in Reading(i) THEN {d} ELSE {})]
    BY <1>3 DEF CarryOut
  <2>2. PICK place \in 1 .. Len(documents[i]) + 1 :
          documents' = [documents EXCEPT ![i] = InsertAt(documents[i], place, d)]
    BY <2>1
  <2>3. documents[i] \in Seq(Documents) /\ IsInjective(documents[i])
    BY <1>1 DEF BailianInv, BailianTyped
  <2>4. UNCHANGED <<reader, present, shrunk>>
    BY DEF CarryOut
  <2>5. /\ documents' \in [Indexes -> Seq(Documents)]
        /\ documents'[i] = InsertAt(documents[i], place, d)
        /\ \A j \in Indexes \ {i} : documents'[j] = documents[j]
        /\ IsInjective(documents'[i])
        /\ ToSet(documents'[i]) \subseteq ToSet(documents[i]) \union {d}
    BY <1>1, <2>1, <2>2, <2>3, InsertedInListing DEF BailianInv, BailianTyped
  <2>6. \A e, page : page \in Nat \ {0} /\ Ahead(e, documents[i], page) => Ahead(e, documents'[i], page)
    BY <1>1, <2>1, <2>2, <2>3, <2>5, InsertedInListing
  <2>7. BailianTyped'
    BY <1>1, <2>1, <2>4, <2>5 DEF BailianInv, BailianTyped
  <2>8. ASSUME NEW r \in Readers, ReadsOn(r) PROVE ReadsOn(r)'
    <3>1. reader[r] \in Calls /\ reader[r] # AtRest
      BY <2>8, CallIsNoRest DEF ReadsOn
    <3>2. appeared[r] \subseteq appeared'[r]
      BY <2>1
    <3>3. CASE reader[r].index = i
      <4>1. appeared'[r] = appeared[r] \union {d}
        BY <2>1, <3>1, <3>3 DEF Reading
      <4>2. reader[r].page \in Nat \ {0}
        BY <3>1 DEF Calls
      <4>3. FoundOrAhead(r) => FoundOrAhead(r)'
        BY <2>4, <2>6, <3>3, <4>2 DEF FoundOrAhead
      <4>4. ToSet(documents'[i]) \subseteq appeared'[r]
        BY <2>5, <2>8, <3>3, <4>1 DEF ReadsOn
      <4> QED
        BY <2>4, <2>8, <3>2, <3>3, <4>3, <4>4 DEF ReadsOn
    <3>4. CASE reader[r].index # i
      <4>1. documents'[reader[r].index] = documents[reader[r].index]
        BY <2>5, <3>1, <3>4 DEF Calls
      <4> QED
        BY <2>4, <2>8, <3>2, <4>1 DEF ReadsOn, FoundOrAhead
    <3> QED
      BY <3>3, <3>4
  <2> QED
    BY <2>4, <2>7, <2>8 DEF BailianInv
<1> QED
  BY <1>2, <1>3

LEMMA DeleteKeeps ==
  ASSUME BailianInv, NEW i \in Indexes, NEW ids, DeleteDocuments(i, ids)
  PROVE  BailianInv'
<1> DEFINE named == ids \ {NoName}
<1>1. PICK rest \in SetToSeqs(ToSet(documents[i]) \ named) : documents' = [documents EXCEPT ![i] = rest]
  BY DEF DeleteDocuments
<1>2. /\ present' = [r \in Readers |-> IF r \in Reading(i) THEN present[r] \ named ELSE present[r]]
      /\ shrunk' = [r \in Readers |-> shrunk[r] \/ r \in Reading(i)]
      /\ UNCHANGED <<jobs, reader, appeared>>
  BY DEF DeleteDocuments
<1>3. documents[i] \in Seq(Documents)
  BY DEF BailianInv, BailianTyped
<1>4. ToSet(documents[i]) \subseteq Documents
  BY <1>3 DEF ToSet
<1>5. IsFiniteSet(ToSet(documents[i]) \ named)
  BY <1>4, BailianAssumption, FS_Subset
<1> HIDE DEF named
<1>6. rest \in Seq(ToSet(documents[i]) \ named) /\ IsInjective(rest) /\ ToSet(rest) \subseteq ToSet(documents[i])
  BY <1>5, ListingOfSet
<1>7. rest \in Seq(Documents)
  BY <1>4, <1>6, SeqMonotonic
<1>8. /\ documents' \in [Indexes -> Seq(Documents)] /\ documents'[i] = rest
      /\ \A j \in Indexes \ {i} : documents'[j] = documents[j]
  BY <1>1, <1>7 DEF BailianInv, BailianTyped
<1>9. BailianTyped'
  BY <1>2, <1>6, <1>8 DEF BailianInv, BailianTyped
<1>10. ASSUME NEW r \in Readers, ReadsOn(r) PROVE ReadsOn(r)'
  <2>1. reader[r] \in Calls /\ reader[r] # AtRest
    BY <1>10, CallIsNoRest DEF ReadsOn
  <2>2. CASE reader[r].index = i
    <3>1. shrunk'[r] = TRUE
      BY <1>2, <2>1, <2>2 DEF Reading
    <3>2. ToSet(documents'[i]) \subseteq appeared'[r]
      BY <1>2, <1>6, <1>8, <1>10, <2>2 DEF ReadsOn
    <3> QED
      BY <1>2, <1>10, <2>2, <3>1, <3>2 DEF ReadsOn
  <2>3. CASE reader[r].index # i
    <3>1. documents'[reader[r].index] = documents[reader[r].index]
      BY <1>8, <2>1, <2>3 DEF Calls
    <3>2. r \notin Reading(i)
      BY <2>3 DEF Reading
    <3>3. present'[r] = present[r] /\ shrunk'[r] = shrunk[r]
      BY <1>2, <3>2 DEF BailianInv, BailianTyped
    <3> QED
      BY <1>2, <1>10, <3>1, <3>3, ReaderStays
  <2> QED
    BY <2>2, <2>3
<1> QED
  BY <1>2, <1>9, <1>10 DEF BailianInv

-----------------------------------------------------------------------------
LEMMA BeginReadingKeeps ==
  ASSUME BailianInv, NEW r \in Readers, NEW doing \in {"get", "list"}, NEW i \in Indexes,
         NEW wanted \in SUBSET Documents, BeginReading(r, doing, i, wanted)
  PROVE  BailianInv'
<1> DEFINE c == [doing |-> doing, index |-> i, wanted |-> wanted, page |-> 1, found |-> {}, done |-> FALSE]
<1>1. /\ c \in Calls /\ c.index = i /\ c.wanted = wanted /\ c.page = 1 /\ c.found = {} /\ c.done = FALSE
  BY DEF Calls
<1> HIDE DEF c
<1>2. /\ reader' = [reader EXCEPT ![r] = c]
      /\ present' = [present EXCEPT ![r] = ToSet(documents[i])]
      /\ appeared' = [appeared EXCEPT ![r] = ToSet(documents[i])]
      /\ shrunk' = [shrunk EXCEPT ![r] = FALSE]
      /\ UNCHANGED <<documents, jobs>>
  BY DEF BeginReading, c
<1>3. documents[i] \in Seq(Documents)
  BY DEF BailianInv, BailianTyped
<1>4. ToSet(documents[i]) \in SUBSET Documents
  BY <1>3 DEF ToSet
<1>5. /\ reader'[r] = c /\ present'[r] = ToSet(documents[i]) /\ appeared'[r] = ToSet(documents[i])
      /\ \A s \in Readers \ {r} : /\ reader'[s] = reader[s] /\ present'[s] = present[s]
                                  /\ appeared'[s] = appeared[s] /\ shrunk'[s] = shrunk[s]
      /\ BailianTyped'
  BY <1>2, <1>4 DEF BailianInv, BailianTyped
<1>6. ASSUME NEW d \in ToSet(documents[i]) PROVE Ahead(d, documents[i], 1)
  <2>1. PICK k \in DOMAIN documents[i] : documents[i][k] = d
    BY <1>6 DEF ToSet
  <2>2. k \in 1 .. Len(documents[i])
    BY <1>3, <2>1
  <2>3. PageSize * (1 - 1) = 0
    BY BailianAssumption
  <2> QED
    BY <2>1, <2>2, <2>3 DEF Ahead
<1>7. ReadsOn(r)'
  BY <1>1, <1>2, <1>5, <1>6 DEF ReadsOn, FoundOrAhead
<1>8. ASSUME NEW s \in Readers \ {r}, ReadsOn(s) PROVE ReadsOn(s)'
  BY <1>2, <1>5, <1>8, ReaderStays
<1> QED
  BY <1>5, <1>7, <1>8 DEF BailianInv

\* The place of the pages: one page further is PageSize documents further.
LEMMA PagesFollow ==
  ASSUME NEW n \in Nat \ {0}
  PROVE  /\ PageSize * (n - 1) \in Nat /\ PageSize * n \in Nat
         /\ PageSize * n = PageSize * (n - 1) + PageSize
         /\ (n + 1) - 1 = n /\ n + 1 \in Nat \ {0}
<1>1. PageSize \in Nat
  BY BailianAssumption
<1>2. n - 1 \in Nat
  OBVIOUS
<1>3. \A a, b \in Nat : a * b \in Nat
  BY Z3
<1>4. PageSize * n = PageSize * (n - 1) + PageSize
  BY <1>1, Z3
<1> QED
  BY <1>1, <1>2, <1>3, <1>4

LEMMA PageLooks ==
  ASSUME NEW i \in Indexes, documents[i] \in Seq(Documents), NEW n \in Nat \ {0}
  PROVE  /\ ToSet(PageOf(i, n)) \subseteq ToSet(documents[i])
         /\ \A d : Ahead(d, documents[i], n) =>
              \/ d \in ToSet(PageOf(i, n))
              \/ (Ahead(d, documents[i], n + 1) /\ Len(PageOf(i, n)) = PageSize)
<1> DEFINE l == documents[i]
           from == PageSize * (n - 1)
           to == PageSize * n
           end == Min({to, Len(l)})
           page == PageOf(i, n)
<1>1. /\ from \in Nat /\ to \in Nat /\ to = from + PageSize /\ Len(l) \in Nat /\ l \in Seq(Documents)
      /\ PageSize \in Nat /\ PageSize > 0
  BY PagesFollow, LenProperties, BailianAssumption
<1>2. end = (IF to <= Len(l) THEN to ELSE Len(l))
  BY <1>1, MinOfTwo
<1>3. end \in 0 .. Len(l)
  BY <1>1, <1>2
<1>4. page = SubSeq(l, from + 1, end)
  BY DEF PageOf
<1> HIDE DEF from, to, end, page, l
<1>5. /\ Len(page) = (IF from + 1 <= end THEN end - (from + 1) + 1 ELSE 0)
      /\ ToSet(page) = {l[k] : k \in from + 1 .. end}
      /\ ToSet(page) \subseteq ToSet(l)
  <2>1. from + 1 \in Nat \ {0}
    BY <1>1
  <2> QED
    BY <1>1, <1>3, <1>4, <2>1, PartOf
<1>6. ASSUME NEW d, NEW k \in 1 .. Len(l), l[k] = d, k > from
      PROVE  d \in ToSet(page) \/ (k > to /\ Len(page) = PageSize)
  <2>1. CASE k <= end
    <3>1. k \in from + 1 .. end
      BY <1>1, <1>6, <2>1
    <3> QED
      BY <1>5, <1>6, <3>1
  <2>2. CASE k > end
    BY <1>1, <1>2, <1>5, <2>2
  <2> QED
    BY <1>3, <2>1, <2>2
<1>7. (n + 1) - 1 = n
  OBVIOUS
<1>8. ASSUME NEW d, Ahead(d, l, n)
      PROVE  d \in ToSet(page) \/ (Ahead(d, l, n + 1) /\ Len(page) = PageSize)
  <2>1. PICK k \in 1 .. Len(l) : l[k] = d /\ k > from
    BY <1>8 DEF Ahead, from
  <2>2. CASE k > to /\ Len(page) = PageSize
    BY <1>7, <2>1, <2>2 DEF Ahead, to
  <2> QED
    BY <1>6, <2>1, <2>2
<1> QED
  BY <1>5, <1>8 DEF l, page

LEMMA ReadPageKeeps ==
  ASSUME BailianInv, NEW r \in Readers, ReadPage(r)
  PROVE  BailianInv'
<1> DEFINE c == reader[r]
           page == PageOf(c.index, c.page)
           found == c.found \union (ToSet(page) \intersect c.wanted)
           last == Len(page) < PageSize
           enough == c.doing = "get" /\ (c.page = MaxPages \/ Cardinality(found) = Cardinality(c.wanted))
<1>1. c # AtRest /\ ~c.done /\ ReadsOn(r)
  BY DEF ReadPage, BailianInv
<1>2. c \in Calls
  BY <1>1 DEF ReadsOn
<1>3. /\ c.doing \in {"get", "list", "query"} /\ c.index \in Indexes /\ c.wanted \subseteq Documents
      /\ c.page \in Nat \ {0} /\ c.found \subseteq Documents /\ c.done \in BOOLEAN
  BY <1>2 DEF Calls
<1>4. /\ reader' = [reader EXCEPT ![r] = PageRead(r, page)]
      /\ UNCHANGED <<documents, jobs, present, appeared, shrunk>>
  BY DEF ReadPage
<1>5. reader'[r] = [c EXCEPT !.page = c.page + 1, !.found = found, !.done = last \/ enough]
  BY <1>4 DEF PageRead, BailianInv, BailianTyped
<1> HIDE DEF found, last, enough
<1>6. /\ reader'[r].doing = c.doing /\ reader'[r].index = c.index /\ reader'[r].wanted = c.wanted
      /\ reader'[r].page = c.page + 1 /\ reader'[r].found = found /\ reader'[r].done = (last \/ enough)
      /\ reader'[r] \in Calls
  <2>1. found \in SUBSET Documents
    BY <1>3 DEF found
  <2>2. c.page + 1 \in Nat \ {0}
    BY <1>3
  <2>3. (last \/ enough) \in BOOLEAN
    BY DEF last, enough
  <2> QED
    BY <1>2, <1>5, <2>1, <2>2, <2>3 DEF Calls
<1>7. documents[c.index] \in Seq(Documents)
  BY <1>3 DEF BailianInv, BailianTyped
<1>8. /\ ToSet(page) \subseteq ToSet(documents[c.index])
      /\ \A d : Ahead(d, documents[c.index], c.page) =>
           d \in ToSet(page) \/ (Ahead(d, documents[c.index], c.page + 1) /\ ~last)
  <2>1. /\ ToSet(page) \subseteq ToSet(documents[c.index])
        /\ \A d : Ahead(d, documents[c.index], c.page) =>
             \/ d \in ToSet(page)
             \/ (Ahead(d, documents[c.index], c.page + 1) /\ Len(page) = PageSize)
    BY <1>3, <1>7, PageLooks
  <2>2. Len(page) = PageSize => ~last
    BY BailianAssumption DEF last
  <2> QED
    BY <2>1, <2>2
<1> HIDE DEF page
<1>9. found \subseteq appeared[r]
  BY <1>1, <1>8 DEF found, ReadsOn
<1>10. c.doing # "query" => found \subseteq c.wanted
  BY <1>1 DEF found, ReadsOn
<1>11. ASSUME ~shrunk[r], NEW d \in present[r] \intersect c.wanted
       PROVE  d \in found \/ (Ahead(d, documents[c.index], c.page + 1) /\ ~last)
  BY <1>1, <1>8, <1>11 DEF ReadsOn, FoundOrAhead, found
<1>12. ASSUME ~shrunk[r], last \/ enough
       PROVE  \/ present[r] \intersect c.wanted \subseteq found
              \/ c.doing = "get" /\ c.page + 1 > MaxPages
  <2>1. CASE last
    BY <1>11, <1>12, <2>1
  <2>2. CASE enough /\ c.page = MaxPages
    BY <1>3, <2>2, BailianAssumption DEF enough
  <2>3. CASE enough /\ Cardinality(found) = Cardinality(c.wanted)
    <3>1. IsFiniteSet(c.wanted)
      BY <1>3, BailianAssumption, FS_Subset
    <3>2. found \subseteq c.wanted
      BY <1>10, <2>3 DEF enough
    <3>3. found = c.wanted
      BY <2>3, <3>1, <3>2, FS_Subset
    <3> QED
      BY <3>3
  <2> QED
    BY <1>12, <2>1, <2>2, <2>3 DEF enough
<1>13. ReadsOn(r)'
  <2>1. (ToSet(documents[reader[r].index]) \subseteq appeared[r])'
    BY <1>1, <1>4, <1>6 DEF ReadsOn
  <2>2. (~reader[r].done /\ ~shrunk[r] => FoundOrAhead(r))'
    BY <1>4, <1>6, <1>11 DEF FoundOrAhead
  <2>3. reader'[r].done =>
          \/ present'[r] \intersect reader'[r].wanted \subseteq reader'[r].found
          \/ shrunk'[r]
          \/ (reader'[r].doing = "get" /\ reader'[r].page > MaxPages)
    BY <1>4, <1>6, <1>12
  <2> QED
    BY <1>4, <1>6, <1>9, <1>10, <2>1, <2>2, <2>3 DEF ReadsOn
<1>14. BailianTyped' /\ \A s \in Readers \ {r} : reader'[s] = reader[s]
  BY <1>4 DEF BailianInv, BailianTyped
<1>15. ASSUME NEW s \in Readers \ {r}, ReadsOn(s) PROVE ReadsOn(s)'
  BY <1>4, <1>14, <1>15, ReaderStays
<1> QED
  BY <1>13, <1>14, <1>15 DEF BailianInv

LEMMA ReadingEndsKeeps ==
  ASSUME BailianInv, NEW r \in Readers, RequestFails(r) \/ EndReading(r)
  PROVE  BailianInv'
<1>1. /\ reader' = [reader EXCEPT ![r] = AtRest]
      /\ UNCHANGED <<documents, jobs, present, appeared, shrunk>>
  BY DEF RequestFails, EndReading
<1>2. reader'[r] = AtRest /\ \A s \in Readers \ {r} : reader'[s] = reader[s]
  BY <1>1 DEF BailianInv, BailianTyped
<1>3. ASSUME NEW s \in Readers \ {r}, ReadsOn(s) PROVE ReadsOn(s)'
  BY <1>1, <1>2, <1>3, ReaderStays
<1>4. BailianTyped'
  BY <1>1 DEF BailianInv, BailianTyped
<1> QED
  BY <1>2, <1>3, <1>4 DEF BailianInv

LEMMA RetrieveKeeps ==
  ASSUME BailianInv, NEW r \in Readers, NEW i \in Indexes, NEW topK, Retrieve(r, i, topK)
  PROVE  BailianInv'
<1>1. PICK found \in SUBSET ToSet(documents[i]) :
        reader' = [reader EXCEPT ![r] =
          [doing |-> "query", index |-> i, wanted |-> {}, page |-> 1, found |-> found, done |-> TRUE]]
  BY DEF Retrieve
<1>2. /\ present' = [present EXCEPT ![r] = ToSet(documents[i])]
      /\ appeared' = [appeared EXCEPT ![r] = ToSet(documents[i])]
      /\ UNCHANGED <<documents, jobs, shrunk>>
  BY DEF Retrieve
<1> DEFINE c == [doing |-> "query", index |-> i, wanted |-> {}, page |-> 1, found |-> found, done |-> TRUE]
<1>3. documents[i] \in Seq(Documents)
  BY DEF BailianInv, BailianTyped
<1>4. ToSet(documents[i]) \in SUBSET Documents
  BY <1>3 DEF ToSet
<1>5. /\ c \in Calls /\ c.doing = "query" /\ c.index = i /\ c.wanted = {} /\ c.found = found /\ c.done = TRUE
  BY <1>4 DEF Calls
<1> HIDE DEF c
<1>6. /\ reader'[r] = c /\ present'[r] = ToSet(documents[i]) /\ appeared'[r] = ToSet(documents[i])
      /\ \A s \in Readers \ {r} : /\ reader'[s] = reader[s] /\ present'[s] = present[s]
                                  /\ appeared'[s] = appeared[s] /\ shrunk'[s] = shrunk[s]
      /\ BailianTyped'
  BY <1>1, <1>2, <1>4 DEF BailianInv, BailianTyped, c
<1>7. ReadsOn(r)'
  BY <1>2, <1>5, <1>6 DEF ReadsOn
<1>8. ASSUME NEW s \in Readers \ {r}, ReadsOn(s) PROVE ReadsOn(s)'
  BY <1>2, <1>6, <1>8, ReaderStays
<1> QED
  BY <1>6, <1>7, <1>8 DEF BailianInv

LEMMA SubmitKeeps ==
  ASSUME BailianInv, NEW i \in Indexes, NEW records, SubmitDocuments(i, records),
         \A record \in records : DocumentName(record) # NoName => DocumentName(record) \in Documents
  PROVE  BailianInv'
<1>1. jobs' \subseteq Indexes \X Documents /\ UNCHANGED <<documents, reader, present, appeared, shrunk>>
  BY DEF SubmitDocuments, BailianInv, BailianTyped
<1>2. BailianTyped'
  BY <1>1 DEF BailianInv, BailianTyped
<1> QED
  BY <1>1, <1>2, ReaderStays DEF BailianInv

LEMMA BailianInvariant == BailianSpec => []BailianInv
<1>1. BailianInv /\ [BailianNext]_bailianVars => BailianInv'
  <2> SUFFICES ASSUME BailianInv, [BailianNext]_bailianVars PROVE BailianInv'
    OBVIOUS
  <2>1. ASSUME NEW i \in Indexes, NEW d \in Documents,
               SubmitDocuments(i, {[id |-> NoName, document_id |-> d, bailian_document_id |-> NoName]})
        PROVE  BailianInv'
    <3>1. DocumentName([id |-> NoName, document_id |-> d, bailian_document_id |-> NoName]) \in {d, NoName}
      BY DEF DocumentName
    <3> QED
      BY <2>1, <3>1, SubmitKeeps
  <2>2. ASSUME NEW i \in Indexes, NEW ids \in SomeIds,
               SubmitDocuments(i, {[id |-> d, document_id |-> NoName, bailian_document_id |-> NoName] : d \in ids})
        PROVE  BailianInv'
    <3>1. \A d \in ids : DocumentName([id |-> d, document_id |-> NoName, bailian_document_id |-> NoName])
                           \in Documents \union {NoName}
      BY DEF DocumentName, SomeIds
    <3> QED
      BY <2>2, <3>1, SubmitKeeps
  <2>3. ASSUME NEW i \in Indexes, NEW ids \in SomeIds, NEW r \in Readers, BeginGet(r, i, ids)
        PROVE  BailianInv'
    <3>1. ids \ {NoName} \in SUBSET Documents
      BY DEF SomeIds
    <3> QED
      BY <2>3, <3>1, BeginReadingKeeps DEF BeginGet
  <2>4. ASSUME NEW i \in Indexes, NEW r \in Readers, BeginList(r, i) PROVE BailianInv'
    BY <2>4, BeginReadingKeeps DEF BeginList
  <2>5. CASE UNCHANGED bailianVars
    BY <2>5, ReaderStays DEF bailianVars, BailianInv, BailianTyped
  <2> QED
    BY <2>1, <2>2, <2>3, <2>4, <2>5, SomeIndexIsOne, DeleteKeeps, RetrieveKeeps, CarryOutKeeps,
       ReadPageKeeps, ReadingEndsKeeps DEF BailianNext
<1> QED
  BY <1>1, BailianStart, PTL DEF BailianSpec

LEMMA ReadersHold == BailianInv => ReadersMissNothing
<1> SUFFICES ASSUME BailianInv, NEW r \in Readers, reader[r].done
             PROVE  /\ reader[r].found \subseteq appeared[r]
                    /\ \/ present[r] \intersect reader[r].wanted \subseteq reader[r].found
                       \/ shrunk[r]
                       \/ (reader[r].doing = "get" /\ reader[r].page > MaxPages)
  BY DEF ReadersMissNothing
<1>1. reader[r] # AtRest
  BY DEF AtRest
<1> QED
  BY <1>1 DEF BailianInv, ReadsOn

-----------------------------------------------------------------------------
(***************************************************************************)
(* The Qdrant store.  A point goes back to an id as somebody wrote it; the *)
(* vectors an Upsert has been given are those of its records one by one,   *)
(* unless one is missing; and a walk has seen what comes before its        *)
(* offset.                                                                 *)
(***************************************************************************)
UpsertCalls == [step : {"embed", "look", "create", "put"}, ids : Seq(WrittenIds), asked : Nat,
                vectors : Seq(WrittenIds)]
WalkCalls == [step : {"page", "done"}, offset : Nat, found : SUBSET Nat]

Embedded(call) ==
  /\ Len(call.vectors) <= call.asked /\ call.asked <= Len(call.ids)
  /\ Len(call.vectors) = call.asked => \A i \in 1 .. call.asked : call.vectors[i] = call.ids[i]
  /\ call.step # "embed" => Len(call.vectors) = Len(call.ids)

IsPoint(p, point) == \E id \in WrittenIds :
  /\ p \in qdrantPointIDFromString(id)
  /\ point.record = RecordId(id) /\ point.vector = RecordId(id)

Walked ==
  /\ walker.step = "page" => \A p \in throughout : p \in walker.found \/ p >= walker.offset
  /\ walker.step = "done" => throughout \subseteq walker.found

QdrantInv ==
  /\ collection \in BOOLEAN /\ (points # <<>> => collection)
  /\ \A p \in DOMAIN points : IsPoint(p, points[p])
  /\ DOMAIN upserter = Upserters
  /\ \A u \in Upserters :
       upserter[u] = NoUpsert \/ (upserter[u] \in UpsertCalls /\ Embedded(upserter[u]))
  /\ walker = NoWalk \/ walker \in WalkCalls
  /\ throughout \subseteq DOMAIN points /\ Walked

LEMMA GreatestExists ==
  ASSUME NEW n \in Nat, NEW S, S \subseteq 1 .. n, S # {}
  PROVE  Max(S) \in S
<1> DEFINE T == {n - x : x \in S}
<1>1. T \subseteq Nat /\ T # {}
  <2>1. PICK x \in S : TRUE
    OBVIOUS
  <2>2. n - x \in T
    OBVIOUS
  <2>3. \A y \in S : n - y \in Nat
    OBVIOUS
  <2> QED
    BY <2>2, <2>3
<1>2. PICK m \in T : \A y \in T : m <= y
  BY <1>1, LeastExists
<1>3. PICK x \in S : m = n - x
  BY <1>2
<1>4. ASSUME NEW y \in S PROVE y <= x
  <2>1. m <= n - y
    BY <1>2
  <2> QED
    BY <1>3, <2>1
<1> QED
  BY <1>3, <1>4 DEF Max

LEMMA PointIds ==
  ASSUME NEW id \in WrittenIds, NEW p \in qdrantPointIDFromString(id)
  PROVE  /\ p \in Nat \ {0}
         /\ p \in RandomIds \union {NamedPoint(n, up) : n \in Names, up \in BOOLEAN}
         /\ id.name # 0 => p = NamedPoint(id.name, id.spelling = "upper" /\ id.name \notin UUIDs)
<1>1. CASE id.name = 0
  <2>1. p \in RandomIds
    BY <1>1 DEF qdrantPointIDFromString
  <2>2. PICK n \in 1 .. MaxUpserts : p = 1000 + n
    BY <2>1 DEF RandomIds
  <2> QED
    BY <1>1, <2>1, <2>2, QdrantAssumption
<1>2. CASE id.name # 0
  <2> DEFINE up == id.spelling = "upper" /\ id.name \notin UUIDs
  <2>1. id.name \in Names /\ id.name \in Nat \ {0}
    BY <1>2, QdrantAssumption DEF WrittenIds
  <2>2. p = NamedPoint(id.name, up) /\ up \in BOOLEAN
    BY <1>2 DEF qdrantPointIDFromString
  <2> HIDE DEF up
  <2>3. p \in Nat \ {0}
    BY <2>1, <2>2 DEF NamedPoint
  <2>4. p \in {NamedPoint(n, b) : n \in Names, b \in BOOLEAN}
    BY <2>1, <2>2
  <2> QED
    BY <1>2, <2>2, <2>3, <2>4 DEF up
<1> QED
  BY <1>1, <1>2

LEMMA PointsAreNumbers == QdrantInv => DOMAIN points \subseteq Nat \ {0}
BY PointIds DEF QdrantInv, IsPoint

LEMMA CallsAreCalls ==
  /\ \A call \in UpsertCalls : call # NoUpsert
  /\ \A call \in WalkCalls : call # NoWalk
<1>1. ASSUME NEW call \in UpsertCalls PROVE call # NoUpsert
  <2>1. call.step # "none"
    BY DEF UpsertCalls
  <2> QED
    BY <2>1 DEF NoUpsert
<1>2. ASSUME NEW call \in WalkCalls PROVE call # NoWalk
  <2>1. call.step # "none"
    BY DEF WalkCalls
  <2> QED
    BY <2>1 DEF NoWalk
<1> QED
  BY <1>1, <1>2

LEMMA QdrantStart == QdrantInit => QdrantInv
<1> SUFFICES ASSUME QdrantInit PROVE QdrantInv
  OBVIOUS
<1>1. DOMAIN points = {}
  BY DEF QdrantInit
<1>2. Walked
  BY DEF QdrantInit, Walked, NoWalk
<1> QED
  BY <1>1, <1>2 DEF QdrantInit, QdrantInv

\* What goes on about one Upsert alone leaves the rest as it was.
LEMMA UpsertMoves ==
  ASSUME QdrantInv, NEW u \in Upserters, NEW call,
         upserter' = [upserter EXCEPT ![u] = call],
         call = NoUpsert \/ (call \in UpsertCalls /\ Embedded(call)),
         UNCHANGED <<points, walker, throughout>>,
         collection' \in BOOLEAN, collection => collection'
  PROVE  QdrantInv'
BY DEF QdrantInv, Walked

-----------------------------------------------------------------------------
LEMMA EmbedKeeps ==
  ASSUME QdrantInv, NEW u \in Upserters, EmbedNextBatch(u)
  PROVE  QdrantInv'
<1> DEFINE call == upserter[u]
           n == Len(call.ids)
           from == call.asked
           to == Min({from + EmbedBatch, n})
<1>1. call.step = "embed" /\ UNCHANGED <<collection, points, walker, throughout>> /\ collection \in BOOLEAN
  BY DEF EmbedNextBatch, QdrantInv
<1>2. call \in UpsertCalls /\ Embedded(call)
  BY <1>1 DEF QdrantInv, NoUpsert
<1>3. /\ call.ids \in Seq(WrittenIds) /\ call.vectors \in Seq(WrittenIds) /\ from \in Nat
      /\ n \in Nat /\ Len(call.vectors) \in Nat
  BY <1>2, LenProperties DEF UpsertCalls
<1>4. CASE from < n
  <2>1. PICK got \in 1 .. to - from :
          upserter' = [upserter EXCEPT ![u].asked = to,
                         ![u].vectors = @ \o [i \in 1 .. got |-> call.ids[from + i]]]
    BY <1>4 DEF EmbedNextBatch
  <2> DEFINE more == [i \in 1 .. got |-> call.ids[from + i]]
             vectors == call.vectors \o more
             next == [call EXCEPT !.asked = to, !.vectors = vectors]
  <2>2. /\ to = (IF from + EmbedBatch <= n THEN from + EmbedBatch ELSE n)
        /\ from + EmbedBatch \in Nat
    <3> DEFINE end == from + EmbedBatch
    <3>1. end \in Nat /\ n \in Nat
      BY <1>3, QdrantAssumption
    <3> HIDE DEF end, n
    <3>2. Min({end, n}) = IF end <= n THEN end ELSE n
      BY <3>1, MinOfTwo
    <3> QED
      BY <3>1, <3>2 DEF end
  <2>3. to \in Nat /\ from < to /\ to <= n
    BY <1>3, <1>4, <2>2, QdrantAssumption
  <2>4. got \in Nat /\ from + got <= to
    BY <1>3, <2>3
  <2>5. \A i \in 1 .. got : from + i \in 1 .. n /\ call.ids[from + i] \in WrittenIds
    <3>1. \A k \in 1 .. n : call.ids[k] \in WrittenIds
      BY <1>3, ElementOfSeq
    <3> SUFFICES ASSUME NEW i \in 1 .. got PROVE from + i \in 1 .. n
      BY <3>1
    <3>2. from \in Nat /\ n \in Nat /\ i \in Nat /\ 1 <= i /\ i <= got
      BY <1>3, <2>4
    <3> HIDE DEF from, to, n
    <3> QED
      BY <2>3, <2>4, <3>2
  <2>6. more \in Seq(WrittenIds) /\ Len(more) = got /\ \A i \in 1 .. got : more[i] = call.ids[from + i]
    BY <2>4, <2>5
  <2>7. upserter' = [upserter EXCEPT ![u] = next]
    BY <2>1
  <2> HIDE DEF more, to
  <2>8. /\ vectors \in Seq(WrittenIds) /\ Len(vectors) = Len(call.vectors) + got
        /\ \A i \in 1 .. Len(call.vectors) + got :
             vectors[i] = IF i <= Len(call.vectors) THEN call.vectors[i] ELSE more[i - Len(call.vectors)]
    BY <1>3, <2>6, ConcatProperties
  <2> HIDE DEF vectors
  <2>9. /\ next \in UpsertCalls /\ next.asked = to /\ next.vectors = vectors /\ next.ids = call.ids
        /\ next.step = "embed"
    BY <1>1, <1>2, <2>3, <2>8 DEF UpsertCalls
  <2>10. Len(call.vectors) <= from /\ (Len(call.vectors) = from => \A i \in 1 .. from : call.vectors[i] = call.ids[i])
    BY <1>2 DEF Embedded
  <2>11. Len(vectors) <= to /\ (Len(vectors) = to => \A i \in 1 .. to : vectors[i] = call.ids[i])
    <3> HIDE DEF call, from, n
    <3>1. Len(vectors) <= to
      BY <1>3, <2>3, <2>4, <2>8, <2>10
    <3>2. ASSUME Len(vectors) = to, NEW i \in 1 .. to PROVE vectors[i] = call.ids[i]
      <4>1. Len(call.vectors) = from /\ from + got = to /\ i \in 1 .. Len(call.vectors) + got /\ i \in Nat
        BY <1>3, <2>3, <2>4, <2>8, <2>10, <3>2
      <4>2. CASE i <= from
        <5>1. i \in 1 .. from
          BY <1>3, <4>1, <4>2
        <5> QED
          BY <2>8, <2>10, <4>1, <4>2, <5>1
      <4>3. CASE i > from
        <5>1. i - from \in 1 .. got /\ from + (i - from) = i /\ ~(i <= from)
          BY <1>3, <2>4, <4>1, <4>3
        <5>2. vectors[i] = more[i - from]
          BY <2>8, <4>1, <5>1
        <5> QED
          BY <2>6, <5>1, <5>2
      <4> QED
        BY <1>3, <4>1, <4>2, <4>3
    <3> QED
      BY <3>1, <3>2
  <2>13. Embedded(next)
    BY <2>3, <2>9, <2>11 DEF Embedded
  <2> HIDE DEF next
  <2> QED
    BY <1>1, <2>7, <2>9, <2>13, UpsertMoves
<1>5. CASE ~(from < n)
  <2>1. from = n
    BY <1>2, <1>3, <1>5 DEF Embedded
  <2>2. CASE Len(call.vectors) = n
    <3> DEFINE next == [call EXCEPT !.step = "look"]
    <3>1. upserter' = [upserter EXCEPT ![u] = next]
      BY <1>5, <2>2 DEF EmbedNextBatch, StepTo
    <3>2. /\ next \in UpsertCalls /\ next.asked = from /\ next.vectors = call.vectors /\ next.ids = call.ids
          /\ next.step = "look"
      BY <1>2 DEF UpsertCalls
    <3> HIDE DEF next
    <3>3. Embedded(next)
      BY <1>2, <2>2, <3>2 DEF Embedded
    <3> QED
      BY <1>1, <3>1, <3>2, <3>3, UpsertMoves
  <2>3. CASE Len(call.vectors) # n
    <3>1. upserter' = [upserter EXCEPT ![u] = NoUpsert]
      BY <1>5, <2>3 DEF EmbedNextBatch, EndUpsert
    <3> QED
      BY <1>1, <3>1, UpsertMoves
  <2> QED
    BY <2>2, <2>3
<1> QED
  BY <1>4, <1>5

LEMMA StepKeeps ==
  ASSUME QdrantInv, NEW u \in Upserters, NEW step \in {"look", "create", "put"},
         upserter[u].step \in {"look", "create", "put"},
         StepTo(u, step) \/ EndUpsert(u),
         UNCHANGED <<points, walker, throughout>>,
         collection' \in BOOLEAN, collection => collection'
  PROVE  QdrantInv'
<1> DEFINE call == upserter[u]
           next == [call EXCEPT !.step = step]
<1>1. call \in UpsertCalls /\ Embedded(call)
  BY DEF QdrantInv, NoUpsert
<1>2. CASE EndUpsert(u)
  BY <1>2, UpsertMoves DEF EndUpsert
<1>3. CASE StepTo(u, step)
  <2>1. upserter' = [upserter EXCEPT ![u] = next]
    BY <1>3 DEF StepTo
  <2>2. /\ next \in UpsertCalls /\ next.asked = call.asked /\ next.vectors = call.vectors
        /\ next.ids = call.ids /\ next.step = step
    BY <1>1 DEF UpsertCalls
  <2> HIDE DEF next
  <2>3. Embedded(next)
    BY <1>1, <2>2 DEF Embedded
  <2> QED
    BY <2>1, <2>2, <2>3, UpsertMoves
<1> QED
  BY <1>2, <1>3

\* The point of a place holds the record of the last id that belongs there.
LEMMA PutGivesPoints ==
  ASSUME QdrantInv, NEW ids \in Seq(WrittenIds), NEW vectors,
         \A i \in 1 .. Len(ids) : vectors[i] = ids[i],
         NEW places, \A i \in 1 .. Len(ids) : places[i] \in qdrantPointIDFromString(ids[i])
  PROVE  /\ DOMAIN points \subseteq DOMAIN Put(ids, vectors, places)
         /\ \A p \in DOMAIN Put(ids, vectors, places) : IsPoint(p, Put(ids, vectors, places)[p])
<1> DEFINE written == {places[i] : i \in 1 .. Len(ids)}
           at(p) == {i \in 1 .. Len(ids) : places[i] = p}
           last(p) == Max(at(p))
           after == Put(ids, vectors, places)
<1>1. after = [p \in DOMAIN points \union written |->
                 IF p \in written THEN [record |-> RecordId(ids[last(p)]), vector |-> RecordId(vectors[last(p)])]
                 ELSE points[p]]
  BY DEF Put
<1> HIDE DEF after
<1>2. Len(ids) \in Nat /\ \A i \in 1 .. Len(ids) : ids[i] \in WrittenIds
  OBVIOUS
<1>3. ASSUME NEW p \in written PROVE last(p) \in 1 .. Len(ids) /\ places[last(p)] = p
  <2>1. at(p) \subseteq 1 .. Len(ids) /\ at(p) # {}
    OBVIOUS
  <2>2. last(p) \in at(p)
    BY <1>2, <2>1, GreatestExists
  <2> QED
    BY <2>2
<1> HIDE DEF last
<1>4. ASSUME NEW p \in written PROVE IsPoint(p, after[p])
  <2>1. /\ last(p) \in 1 .. Len(ids) /\ ids[last(p)] \in WrittenIds
        /\ p \in qdrantPointIDFromString(ids[last(p)]) /\ vectors[last(p)] = ids[last(p)]
    BY <1>2, <1>3
  <2>2. after[p] = [record |-> RecordId(ids[last(p)]), vector |-> RecordId(vectors[last(p)])]
    BY <1>1
  <2>3. after[p].record = RecordId(ids[last(p)]) /\ after[p].vector = RecordId(ids[last(p)])
    BY <2>1, <2>2
  <2> QED
    BY <2>1, <2>3 DEF IsPoint
<1>5. ASSUME NEW p \in DOMAIN points, p \notin written PROVE IsPoint(p, after[p])
  BY <1>1, <1>5 DEF QdrantInv
<1> QED
  BY <1>1, <1>4, <1>5 DEF after

LEMMA PutKeeps ==
  ASSUME QdrantInv, NEW u \in Upserters, PutPoints(u)
  PROVE  QdrantInv'
<1> DEFINE call == upserter[u]
           ids == call.ids
<1>1. /\ call.step = "put" /\ EndUpsert(u) /\ UNCHANGED <<collection, walker, throughout>>
      /\ collection \in BOOLEAN
  BY DEF PutPoints, QdrantInv
<1>2. call \in UpsertCalls /\ Embedded(call)
  BY <1>1 DEF QdrantInv, NoUpsert
<1>3. ids \in Seq(WrittenIds) /\ \A i \in 1 .. Len(ids) : call.vectors[i] = ids[i]
  <2>1. /\ ids \in Seq(WrittenIds) /\ Len(ids) \in Nat /\ call.asked \in Nat /\ Len(call.vectors) \in Nat
    BY <1>2, LenProperties DEF UpsertCalls
  <2>2. Len(call.vectors) = Len(ids) /\ Len(call.vectors) <= call.asked /\ call.asked <= Len(ids)
    BY <1>1, <1>2 DEF Embedded
  <2>3. call.asked = Len(ids) /\ Len(call.vectors) = call.asked
    BY <2>1, <2>2
  <2> QED
    BY <1>2, <2>1, <2>3 DEF Embedded
<1>4. CASE UNCHANGED points
  BY <1>1, <1>4, UpsertMoves DEF EndUpsert
<1>5. CASE ~UNCHANGED points
  <2>1. PICK places : /\ \A i \in 1 .. Len(ids) : places[i] \in qdrantPointIDFromString(ids[i])
                      /\ points' = Put(ids, call.vectors, places) /\ collection
    BY <1>5 DEF PutPoints
  <2>2. DOMAIN points \subseteq DOMAIN points' /\ \A p \in DOMAIN points' : IsPoint(p, points'[p])
    BY <1>3, <2>1, PutGivesPoints
  <2>3. /\ DOMAIN upserter' = Upserters
        /\ \A v \in Upserters : upserter'[v] = NoUpsert \/ upserter'[v] = upserter[v]
    BY <1>1 DEF EndUpsert, QdrantInv
  <2> QED
    BY <1>1, <2>1, <2>2, <2>3 DEF QdrantInv, Walked
<1> QED
  BY <1>4, <1>5

LEMMA DeletePointsKeeps ==
  ASSUME QdrantInv, NEW id \in WrittenIds, DeletePoints(id)
  PROVE  QdrantInv'
<1> DEFINE gone == qdrantPointIDFromString(id)
<1>1. /\ points' = [p \in DOMAIN points \ gone |-> points[p]] /\ throughout' = throughout \ gone
      /\ UNCHANGED <<collection, upserter, walker>> /\ gone \intersect DOMAIN points # {}
  BY DEF DeletePoints
<1> HIDE DEF gone
<1>2. DOMAIN points' = DOMAIN points \ gone /\ \A p \in DOMAIN points' : points'[p] = points[p]
  BY <1>1
<1>3. points # <<>>
  BY <1>1
<1>4. throughout' \subseteq DOMAIN points' /\ throughout' \subseteq throughout
  BY <1>1, <1>2 DEF QdrantInv
<1>5. Walked'
  BY <1>1, <1>4 DEF QdrantInv, Walked
<1> QED
  BY <1>1, <1>2, <1>3, <1>4, <1>5 DEF QdrantInv

-----------------------------------------------------------------------------
LEMMA BeginWalkKeeps == ASSUME QdrantInv, BeginWalk PROVE QdrantInv'
<1>1. /\ walker' = [step |-> "page", offset |-> 0, found |-> {}] /\ throughout' = DOMAIN points
      /\ UNCHANGED <<collection, points, upserter>>
  BY DEF BeginWalk
<1>2. walker' \in WalkCalls /\ walker'.step = "page" /\ walker'.offset = 0
  BY <1>1 DEF WalkCalls
<1>3. \A p \in DOMAIN points : p >= 0
  BY PointsAreNumbers
<1> QED
  BY <1>1, <1>2, <1>3 DEF QdrantInv, Walked

LEMMA ListPageKeeps == ASSUME QdrantInv, ListPage PROVE QdrantInv'
<1> DEFINE later == Later(walker.offset)
           found == FirstOf(later)
           rest == later \ found
           next == IF rest = {} THEN 0 ELSE Min(rest)
<1>1. walker.step = "page" /\ walker \in WalkCalls /\ UNCHANGED <<collection, points, upserter, throughout>>
  BY DEF ListPage, QdrantInv, NoWalk
<1>2. walker.offset \in Nat /\ walker.found \in SUBSET Nat
  BY <1>1 DEF WalkCalls
<1>3. /\ ScrollPage(walker.offset).found = found /\ ScrollPage(walker.offset).next = next
  BY DEF ScrollPage
<1>4. walker' = [step |-> IF next = 0 THEN "done" ELSE "page", offset |-> next,
                 found |-> walker.found \union found]
  BY <1>3 DEF ListPage
<1>5. later \subseteq Nat \ {0} /\ found \subseteq later /\ rest \subseteq Nat \ {0}
  BY PointsAreNumbers DEF Later, FirstOf
<1>6. \A p \in DOMAIN points : p >= walker.offset => p \in found \/ p \in rest
  BY DEF Later
<1> HIDE DEF later, found, rest
<1>7. next \in Nat /\ (next = 0 <=> rest = {}) /\ \A p \in rest : p >= next
  <2>1. CASE rest = {}
    BY <2>1
  <2>2. CASE rest # {}
    <3>1. Min(rest) \in rest /\ \A y \in rest : Min(rest) <= y
      BY <1>5, <2>2, LeastExists
    <3>2. next = Min(rest) /\ next \in Nat \ {0} /\ \A p \in rest : p \in Nat
      BY <1>5, <2>2, <3>1
    <3> HIDE DEF next
    <3> QED
      BY <2>2, <3>1, <3>2
  <2> QED
    BY <2>1, <2>2
<1> HIDE DEF next
<1>8. /\ walker'.step = (IF next = 0 THEN "done" ELSE "page") /\ walker'.offset = next
      /\ walker'.found = walker.found \union found /\ walker' \in WalkCalls
  BY <1>2, <1>4, <1>5, <1>7 DEF WalkCalls
<1>9. \A p \in throughout : p \in walker.found \/ p \in found \/ p \in rest
  BY <1>1, <1>6 DEF QdrantInv, Walked
<1>10. Walked'
  BY <1>1, <1>7, <1>8, <1>9 DEF Walked
<1> QED
  BY <1>1, <1>8, <1>10 DEF QdrantInv

LEMMA EndWalkKeeps == ASSUME QdrantInv, EndWalk PROVE QdrantInv'
BY DEF EndWalk, QdrantInv, Walked, NoWalk

LEMMA BeginUpsertKeeps ==
  ASSUME QdrantInv, NEW u \in Upserters, NEW ids \in Batches, BeginUpsert(u, ids)
  PROVE  QdrantInv'
<1> DEFINE call == [step |-> "embed", ids |-> ids, asked |-> 0, vectors |-> <<>>]
<1>1. ids \in Seq(WrittenIds) /\ Len(ids) \in Nat /\ <<>> \in Seq(WrittenIds) /\ Len(<<>>) = 0
  BY BatchesAssumption, LenProperties
<1>2. call \in UpsertCalls /\ call.ids = ids /\ call.asked = 0 /\ call.vectors = <<>> /\ call.step = "embed"
  BY <1>1 DEF UpsertCalls
<1>3. upserter' = [upserter EXCEPT ![u] = call] /\ UNCHANGED <<collection, points, walker, throughout>>
  BY DEF BeginUpsert
<1> HIDE DEF call
<1>4. Embedded(call)
  BY <1>1, <1>2 DEF Embedded
<1> QED
  BY <1>2, <1>3, <1>4, UpsertMoves DEF QdrantInv

LEMMA QdrantInvariant == QdrantSpec => []QdrantInv
<1>1. QdrantInv /\ [QdrantNext]_qdrantVars => QdrantInv'
  <2> SUFFICES ASSUME QdrantInv, [QdrantNext]_qdrantVars PROVE QdrantInv'
    OBVIOUS
  <2>0. collection \in BOOLEAN
    BY DEF QdrantInv
  <2>1. ASSUME NEW u \in Upserters, LookForCollection(u) PROVE QdrantInv'
    <3>1. /\ upserter[u].step = "look" /\ UNCHANGED <<collection, points, walker, throughout>>
          /\ StepTo(u, "put") \/ StepTo(u, "create")
      BY <2>1 DEF LookForCollection
    <3> QED
      BY <2>0, <3>1, StepKeeps
  <2>2. ASSUME NEW u \in Upserters, CreateCollection(u) PROVE QdrantInv'
    <3>1. /\ upserter[u].step = "create" /\ UNCHANGED <<points, walker, throughout>>
          /\ StepTo(u, "put") \/ EndUpsert(u)
          /\ collection' = TRUE \/ collection' = collection
      BY <2>2 DEF CreateCollection
    <3>2. collection' \in BOOLEAN /\ (collection => collection')
      <4>1. CASE collection' = TRUE
        BY <4>1
      <4>2. CASE collection' = collection
        BY <2>0, <4>2
      <4> QED
        BY <3>1, <4>1, <4>2
    <3>3. PICK step \in {"look", "create", "put"} : StepTo(u, step) \/ EndUpsert(u)
      BY <3>1
    <3> QED
      BY <3>1, <3>2, <3>3, StepKeeps
  <2>3. ASSUME NEW u \in Upserters, UpsertFails(u) PROVE QdrantInv'
    BY <2>0, <2>3, UpsertMoves DEF UpsertFails, EndUpsert
  <2>4. CASE UNCHANGED qdrantVars
    BY <2>4 DEF qdrantVars, QdrantInv, Walked
  <2> QED
    BY <2>1, <2>2, <2>3, <2>4, BeginUpsertKeeps, EmbedKeeps, PutKeeps, DeletePointsKeeps,
       BeginWalkKeeps, ListPageKeeps, EndWalkKeeps DEF QdrantNext
<1> QED
  BY <1>1, QdrantStart, PTL DEF QdrantSpec

LEMMA PointsHold == QdrantInv => PointsAreRight /\ WalkMissesNothing
<1> SUFFICES ASSUME QdrantInv PROVE PointsAreRight /\ WalkMissesNothing
  OBVIOUS
<1>1. \A p \in DOMAIN points : points[p].vector = points[p].record
  BY DEF QdrantInv, IsPoint
<1>2. ASSUME NEW p \in DOMAIN points, NEW q \in DOMAIN points, p # q, points[p].record[1] # 0
      PROVE  /\ points[p].record # points[q].record
             /\ points[p].record[1] \in UUIDs => points[p].record[1] # points[q].record[1]
  <2>1. PICK a \in WrittenIds : p \in qdrantPointIDFromString(a) /\ points[p].record = RecordId(a)
    BY DEF QdrantInv, IsPoint
  <2>2. PICK b \in WrittenIds : q \in qdrantPointIDFromString(b) /\ points[q].record = RecordId(b)
    BY DEF QdrantInv, IsPoint
  <2>3. /\ points[p].record[1] = a.name /\ points[p].record[2] = (a.spelling = "upper")
        /\ points[q].record[1] = b.name /\ points[q].record[2] = (b.spelling = "upper")
    BY <2>1, <2>2 DEF RecordId
  <2>4. ASSUME a.name = b.name,
               (a.spelling = "upper" /\ a.name \notin UUIDs) = (b.spelling = "upper" /\ b.name \notin UUIDs)
        PROVE  FALSE
    <3>1. a.name # 0 /\ b.name # 0
      BY <1>2, <2>3, <2>4
    <3>2. /\ p = NamedPoint(a.name, a.spelling = "upper" /\ a.name \notin UUIDs)
          /\ q = NamedPoint(b.name, b.spelling = "upper" /\ b.name \notin UUIDs)
      BY <2>1, <2>2, <3>1, PointIds
    <3> QED
      BY <1>2, <2>4, <3>2
  <2>5. a.name = b.name => (a.spelling = "upper") # (b.spelling = "upper") /\ a.name \notin UUIDs
    BY <2>4
  <2> QED
    BY <2>3, <2>5
<1>3. PointsAreRight
  BY <1>1, <1>2 DEF PointsAreRight, QdrantInv
<1>4. WalkMissesNothing
  BY DEF QdrantInv, Walked, WalkMissesNothing
<1> QED
  BY <1>3, <1>4

-----------------------------------------------------------------------------
(***************************************************************************)
(* Signals, for any number of handlers and any nesting of Emits.  First    *)
(* the slice: appending and removing keep the arrays that are being read   *)
(* as long as they were, and never let the slice outgrow its array.        *)
(***************************************************************************)
HandlerIDs == 1 .. MaxHandlers
Events == [type : {"add", "del"}, handler : HandlerIDs]
Adds(waiting, n) == {i \in 1 .. n : waiting[i].type = "add"}

IsSlice(s) ==
  /\ s = Slice(s.arrays, s.length)
  /\ s.arrays \in Seq(Seq(Nat)) /\ s.arrays # <<>>
  /\ s.length \in 0 .. Len(s.arrays[Len(s.arrays)])

\* No array goes away or gets shorter.
Outlives(old, bs) ==
  Len(old) <= Len(bs) /\ \A i \in 1 .. Len(old) : Len(old[i]) = Len(bs[i])

LEMMA SliceNumbers ==
  ASSUME NEW s, IsSlice(s)
  PROVE  /\ Len(s.arrays) \in Nat /\ Len(s.arrays) \in 1 .. Len(s.arrays)
         /\ s.arrays[Len(s.arrays)] \in Seq(Nat) /\ Last(s.arrays) = s.arrays[Len(s.arrays)]
         /\ Len(s.arrays[Len(s.arrays)]) \in Nat
         /\ s.length \in Nat /\ s.length <= Len(s.arrays[Len(s.arrays)])
<1> DEFINE old == s.arrays
<1>1. old \in Seq(Seq(Nat)) /\ old # <<>> /\ s.length \in 0 .. Len(old[Len(old)])
  BY DEF IsSlice
<1> HIDE DEF old
<1>2. Len(old) \in Nat /\ Len(old) # 0
  BY <1>1, EmptySeq, LenProperties
<1>3. Len(old) \in 1 .. Len(old)
  BY <1>2
<1>4. old[Len(old)] \in Seq(Nat)
  BY <1>1, <1>3, ElementOfSeq
<1>5. Len(old[Len(old)]) \in Nat
  BY <1>4, LenProperties
<1>6. s.length \in Nat /\ s.length <= Len(old[Len(old)])
  BY <1>1, <1>5
<1>7. Last(old) = old[Len(old)]
  BY DEF Last
<1> QED
  BY <1>2, <1>3, <1>4, <1>5, <1>6, <1>7 DEF old

LEMMA HandlerAppended ==
  ASSUME NEW s, IsSlice(s), NEW h \in Nat
  PROVE  /\ IsSlice(AppendHandler(s, h)) /\ AppendHandler(s, h).length = s.length + 1
         /\ Outlives(s.arrays, AppendHandler(s, h).arrays)
<1> DEFINE old == s.arrays  n == s.length  array == Last(old)
           put == [array EXCEPT ![n + 1] = h]
           moved == [i \in 1 .. (IF n = 0 THEN 1 ELSE 2 * n) |->
                       IF i <= n THEN array[i] ELSE IF i = n + 1 THEN h ELSE NoHandler]
<1>1. /\ old \in Seq(Seq(Nat)) /\ old # <<>> /\ array \in Seq(Nat) /\ Len(old) \in Nat
      /\ n \in Nat /\ n <= Len(array) /\ Len(array) \in Nat /\ array = old[Len(old)]
      /\ Len(old) \in 1 .. Len(old)
  BY SliceNumbers DEF IsSlice
<1>2. AppendHandler(s, h) = IF n < Len(array) THEN Slice(Front(old) \o <<put>>, n + 1)
                            ELSE Slice(old \o <<moved>>, n + 1)
  BY DEF AppendHandler
<1>3. CASE n < Len(array)
  <2>1. put \in Seq(Nat) /\ Len(put) = Len(array)
    <3> HIDE DEF n, array
    <3> QED
      BY <1>1, <1>3, ExceptSeq
  <2> HIDE DEF put, old, n, array
  <2> DEFINE bs == Front(old) \o <<put>>
  <2>2. /\ bs \in Seq(Seq(Nat)) /\ Len(bs) = Len(old) /\ bs # <<>>
        /\ \A i \in 1 .. Len(old) : bs[i] = IF i = Len(old) THEN put ELSE old[i]
    BY <1>1, <2>1, LastReplaced
  <2>4. AppendHandler(s, h) = Slice(bs, n + 1)
    BY <1>2, <1>3
  <2> HIDE DEF bs
  <2>3. Outlives(old, bs) /\ bs[Len(bs)] = put
    <3>1. bs[Len(bs)] = put
      BY <1>1, <2>2
    <3>2. \A i \in 1 .. Len(old) : Len(old[i]) = Len(bs[i])
      <4> SUFFICES ASSUME NEW i \in 1 .. Len(old) PROVE Len(old[i]) = Len(bs[i])
        OBVIOUS
      <4>1. CASE i = Len(old)
        BY <1>1, <2>1, <2>2, <4>1
      <4>2. CASE i # Len(old)
        BY <2>2, <4>2
      <4> QED
        BY <4>1, <4>2
    <3> QED
      BY <1>1, <2>2, <3>1, <3>2 DEF Outlives
  <2>5. n + 1 \in 0 .. Len(bs[Len(bs)])
    BY <1>1, <1>3, <2>1, <2>3
  <2> QED
    BY <2>2, <2>3, <2>4, <2>5 DEF IsSlice, Slice, old, n
<1>4. CASE ~(n < Len(array))
  <2>1. moved \in Seq(Nat) /\ Len(moved) = (IF n = 0 THEN 1 ELSE 2 * n)
    <3> DEFINE k == IF n = 0 THEN 1 ELSE 2 * n
    <3>1. k \in Nat
      BY <1>1
    <3>2. \A i \in 1 .. k : (IF i <= n THEN array[i] ELSE IF i = n + 1 THEN h ELSE NoHandler) \in Nat
      <4>1. \A i \in 1 .. Len(array) : array[i] \in Nat
        BY <1>1, ElementOfSeq
      <4> HIDE DEF n, array, k
      <4> QED
        BY <1>1, <3>1, <4>1 DEF NoHandler
    <3> HIDE DEF k, n, array
    <3>3. moved = [i \in 1 .. k |-> IF i <= n THEN array[i] ELSE IF i = n + 1 THEN h ELSE NoHandler]
      BY DEF k
    <3>4. moved \in [1 .. k -> Nat]
      BY <3>2, <3>3
    <3> HIDE DEF moved
    <3> QED
      BY <3>1, <3>4 DEF k
  <2> HIDE DEF moved, old, n, array
  <2> DEFINE bs == old \o <<moved>>
  <2>2. /\ bs \in Seq(Seq(Nat)) /\ Len(bs) = Len(old) + 1 /\ bs # <<>>
        /\ \A i \in 1 .. Len(old) + 1 : bs[i] = IF i = Len(old) + 1 THEN moved ELSE old[i]
    BY <1>1, <2>1, OneAdded
  <2>4. AppendHandler(s, h) = Slice(bs, n + 1)
    BY <1>2, <1>4
  <2> HIDE DEF bs
  <2>3. Outlives(old, bs) /\ bs[Len(bs)] = moved
    <3>1. Len(bs) \in 1 .. Len(old) + 1 /\ bs[Len(bs)] = moved
      BY <1>1, <2>2
    <3>2. \A i \in 1 .. Len(old) : i \in 1 .. Len(old) + 1 /\ i # Len(old) + 1
      BY <1>1
    <3>3. \A i \in 1 .. Len(old) : old[i] = bs[i]
      BY <2>2, <3>2
    <3> QED
      BY <1>1, <2>2, <3>1, <3>3 DEF Outlives
  <2>5. n + 1 \in 0 .. Len(bs[Len(bs)])
    <3>1. n + 1 <= IF n = 0 THEN 1 ELSE 2 * n
      BY <1>1
    <3>2. Len(moved) \in Nat /\ n + 1 <= Len(moved)
      BY <1>1, <2>1, <3>1
    <3> QED
      BY <1>1, <2>3, <3>2
  <2> QED
    BY <2>2, <2>3, <2>4, <2>5 DEF IsSlice, Slice, old, n
<1> QED
  BY <1>3, <1>4

LEMMA HandlerRemoved ==
  ASSUME NEW s, IsSlice(s), NEW h
  PROVE  /\ IsSlice(RemoveHandler(s, h)) /\ RemoveHandler(s, h).length <= s.length
         /\ Outlives(s.arrays, RemoveHandler(s, h).arrays)
<1> DEFINE old == s.arrays  n == s.length  array == Last(old)
           places == {i \in 1 .. n : array[i] = h}
           place == CHOOSE i \in places : \A j \in places : i <= j
           shifted == [i \in DOMAIN array |->
                         IF i >= place /\ i < n THEN array[i + 1] ELSE array[i]]
<1>1. /\ old \in Seq(Seq(Nat)) /\ old # <<>> /\ array \in Seq(Nat) /\ Len(old) \in Nat
      /\ n \in Nat /\ n <= Len(array) /\ Len(array) \in Nat /\ array = old[Len(old)]
      /\ Len(old) \in 1 .. Len(old)
  BY SliceNumbers DEF IsSlice
<1>2. RemoveHandler(s, h) = IF places = {} THEN s ELSE Slice(Front(old) \o <<shifted>>, n - 1)
  BY DEF RemoveHandler
<1>3. CASE places = {}
  <2>1. RemoveHandler(s, h) = s
    BY <1>2, <1>3
  <2>2. Outlives(old, old)
    BY <1>1 DEF Outlives
  <2> QED
    BY <1>1, <2>1, <2>2
<1>4. CASE places # {}
  <2>1. n >= 1
    BY <1>1, <1>4
  <2> HIDE DEF place, n, array
  <2>2. shifted \in Seq(Nat) /\ Len(shifted) = Len(array)
    <3>1. DOMAIN array = 1 .. Len(array) /\ \A i \in 1 .. Len(array) : array[i] \in Nat
      BY <1>1, LenProperties, ElementOfSeq
    <3>2. \A i \in 1 .. Len(array) : (IF i >= place /\ i < n THEN array[i + 1] ELSE array[i]) \in Nat
      BY <1>1, <3>1
    <3>3. shifted \in [1 .. Len(array) -> Nat]
      BY <3>1, <3>2
    <3> HIDE DEF shifted
    <3>4. shifted \in Seq(Nat)
      <4> DEFINE l == Len(array)
      <4>1. l \in Nat /\ shifted \in [1 .. l -> Nat]
        BY <1>1, <3>3
      <4> HIDE DEF l
      <4> QED
        BY <4>1
    <3>5. DOMAIN shifted = 1 .. Len(array)
      BY <3>3
    <3> QED
      BY <1>1, <3>4, <3>5, LenProperties
  <2> HIDE DEF shifted, old
  <2> DEFINE bs == Front(old) \o <<shifted>>
  <2>3. /\ bs \in Seq(Seq(Nat)) /\ Len(bs) = Len(old) /\ bs # <<>>
        /\ \A i \in 1 .. Len(old) : bs[i] = IF i = Len(old) THEN shifted ELSE old[i]
    BY <1>1, <2>2, LastReplaced
  <2>5. RemoveHandler(s, h) = Slice(bs, n - 1)
    BY <1>2, <1>4
  <2> HIDE DEF bs
  <2>4. Outlives(old, bs) /\ bs[Len(bs)] = shifted
    <3>1. bs[Len(bs)] = shifted
      BY <1>1, <2>3
    <3>2. \A i \in 1 .. Len(old) : Len(old[i]) = Len(bs[i])
      <4> SUFFICES ASSUME NEW i \in 1 .. Len(old) PROVE Len(old[i]) = Len(bs[i])
        OBVIOUS
      <4>1. CASE i = Len(old)
        BY <1>1, <2>2, <2>3, <4>1
      <4>2. CASE i # Len(old)
        BY <2>3, <4>2
      <4> QED
        BY <4>1, <4>2
    <3> QED
      BY <1>1, <2>3, <3>1, <3>2 DEF Outlives
  <2>6. n - 1 \in 0 .. Len(bs[Len(bs)]) /\ n - 1 <= n
    BY <1>1, <2>1, <2>2, <2>4
  <2> QED
    BY <2>3, <2>4, <2>5, <2>6 DEF IsSlice, Slice, old, n
<1> QED
  BY <1>3, <1>4

LEMMA OutlivesAll ==
  ASSUME NEW old, NEW mid, NEW bs, Outlives(old, mid), Outlives(mid, bs),
         Len(old) \in Nat, Len(mid) \in Nat, Len(bs) \in Nat
  PROVE  Outlives(old, bs)
<1>1. \A i \in 1 .. Len(old) : i \in 1 .. Len(mid)
  BY DEF Outlives
<1> QED
  BY <1>1 DEF Outlives

LEMMA EventApplied ==
  ASSUME NEW s, IsSlice(s), NEW event \in Events
  PROVE  /\ IsSlice(Apply(s, event)) /\ Outlives(s.arrays, Apply(s, event).arrays)
         /\ Apply(s, event).length <= IF event.type = "add" THEN s.length + 1 ELSE s.length
<1>1. event.handler \in Nat
  BY SignalsAssumption DEF Events, HandlerIDs
<1>2. CASE event.type = "add"
  <2>1. Apply(s, event) = AppendHandler(s, event.handler)
    BY <1>2 DEF Apply
  <2>2. s.length \in Nat
    BY SliceNumbers
  <2>3. /\ IsSlice(Apply(s, event)) /\ Outlives(s.arrays, Apply(s, event).arrays)
        /\ Apply(s, event).length = s.length + 1
    BY <1>1, <2>1, HandlerAppended
  <2> QED
    BY <1>2, <2>2, <2>3
<1>3. CASE event.type # "add"
  <2>1. Apply(s, event) = RemoveHandler(s, event.handler)
    BY <1>3 DEF Apply
  <2> QED
    BY <1>1, <1>3, <2>1, HandlerRemoved
<1> QED
  BY <1>2, <1>3

\* The recursive function by which the events are applied exists.
LEMMA AppliedSteps ==
  ASSUME NEW s, NEW waiting, Len(waiting) \in Nat
  PROVE  \E f : /\ f[0] = s /\ f[Len(waiting)] = Applied(s, waiting)
                /\ \A n \in 1 .. Len(waiting) : f[n] = Apply(f[n - 1], waiting[n])
<1> DEFINE last == Len(waiting)
           Follows(f, n) == f = [m \in 0 .. n |-> IF m = 0 THEN s ELSE Apply(f[m - 1], waiting[m])]
           Bad == {n \in Nat : ~\E f : Follows(f, n)}
<1>1. Bad = {}
  <2>1. SUFFICES ASSUME Bad # {} PROVE FALSE
    OBVIOUS
  <2>2. PICK n \in Bad : \A i \in Bad : n <= i
    BY <2>1, LeastExists
  <2>3. CASE n = 0
    <3> DEFINE f == [m \in 0 .. 0 |-> s]
    <3>1. f = [m \in 0 .. 0 |-> IF m = 0 THEN s ELSE Apply(f[m - 1], waiting[m])]
      OBVIOUS
    <3> QED
      BY <2>2, <2>3, <3>1
  <2>4. CASE n # 0
    <3>1. n - 1 \in Nat /\ n - 1 \notin Bad /\ n \in Nat
      <4>1. n \in Nat /\ n - 1 \in Nat
        BY <2>4
      <4> HIDE DEF Bad
      <4> QED
        BY <2>2, <4>1
    <3>2. PICK f : Follows(f, n - 1)
      BY <3>1
    <3> DEFINE g == [m \in 0 .. n |-> IF m < n THEN f[m] ELSE Apply(f[n - 1], waiting[n])]
               h == [m \in 0 .. n |-> IF m = 0 THEN s ELSE Apply(g[m - 1], waiting[m])]
    <3>3. \A m \in 0 .. n : g[m] = h[m]
      <4> SUFFICES ASSUME NEW m \in 0 .. n PROVE g[m] = h[m]
        OBVIOUS
      <4>1. CASE m = n
        <5>1. g[m] = Apply(f[n - 1], waiting[n]) /\ g[m - 1] = f[n - 1]
          BY <3>1, <2>4, <4>1
        <5> QED
          BY <2>4, <4>1, <5>1
      <4>2. CASE m # n
        <5>1. g[m] = f[m] /\ m \in 0 .. n - 1 /\ (m # 0 => g[m - 1] = f[m - 1])
          BY <3>1, <4>2
        <5>2. f[m] = IF m = 0 THEN s ELSE Apply(f[m - 1], waiting[m])
          BY <3>2, <5>1
        <5> QED
          BY <5>1, <5>2
      <4> QED
        BY <4>1, <4>2
    <3>4. g = h
      BY <3>3
    <3>5. Follows(g, n)
      BY <3>4
    <3> HIDE DEF Follows, g
    <3> QED
      BY <2>2, <3>5
  <2> QED
    BY <2>3, <2>4
<1>2. \E f : Follows(f, last)
  BY <1>1
<1> DEFINE after == CHOOSE f : Follows(f, last)
<1>3. Follows(after, last)
  <2> HIDE DEF Follows
  <2> QED
    BY <1>2
<1>4. Applied(s, waiting) = after[last]
  BY DEF Applied
<1> HIDE DEF after
<1>5. after[0] = s /\ \A n \in 1 .. last : after[n] = Apply(after[n - 1], waiting[n])
  <2>1. \A m \in 0 .. last : after[m] = IF m = 0 THEN s ELSE Apply(after[m - 1], waiting[m])
    BY <1>3
  <2> HIDE DEF last
  <2>2. last \in Nat
    BY DEF last
  <2>3. 0 \in 0 .. last /\ \A n \in 1 .. last : n \in 0 .. last /\ n # 0
    BY <2>2
  <2> HIDE DEF Follows
  <2> QED
    BY <2>1, <2>3
<1> QED
  BY <1>4, <1>5

LEMMA AddsAreFinite ==
  ASSUME NEW waiting, NEW n \in Nat
  PROVE  IsFiniteSet(Adds(waiting, n)) /\ Cardinality(Adds(waiting, n)) \in Nat
<1>1. IsFiniteSet(1 .. n)
  BY FS_Interval
<1>2. Adds(waiting, n) \subseteq 1 .. n
  BY DEF Adds
<1> QED
  BY <1>1, <1>2, FS_Subset, FS_CardinalityType

\* The adds among n events, as n grows by one.
LEMMA OneMoreAdd ==
  ASSUME NEW waiting, NEW n \in Nat \ {0}
  PROVE  /\ IsFiniteSet(Adds(waiting, n))
         /\ Cardinality(Adds(waiting, n)) \in Nat
         /\ Cardinality(Adds(waiting, n)) =
              IF waiting[n].type = "add" THEN Cardinality(Adds(waiting, n - 1)) + 1
              ELSE Cardinality(Adds(waiting, n - 1))
<1>1. \A k \in Nat : IsFiniteSet(Adds(waiting, k)) /\ Cardinality(Adds(waiting, k)) \in Nat
  BY AddsAreFinite
<1>2. n \in Nat /\ n - 1 \in Nat /\ n \notin Adds(waiting, n - 1)
  BY DEF Adds
<1>3. CASE waiting[n].type = "add"
  <2>1. Adds(waiting, n) = Adds(waiting, n - 1) \cup {n}
    BY <1>2, <1>3 DEF Adds
  <2> QED
    BY <1>1, <1>2, <1>3, <2>1, FS_AddElement
<1>4. CASE waiting[n].type # "add"
  <2>1. Adds(waiting, n) = Adds(waiting, n - 1)
    BY <1>2, <1>4 DEF Adds
  <2> QED
    BY <1>1, <1>2, <1>4, <2>1
<1> QED
  BY <1>3, <1>4

LEMMA AddsAppended ==
  ASSUME NEW waiting \in Seq(Events), NEW event \in Events
  PROVE  LET more == Append(waiting, event)
         IN Cardinality(Adds(more, Len(more))) =
              IF event.type = "add" THEN Cardinality(Adds(waiting, Len(waiting))) + 1
              ELSE Cardinality(Adds(waiting, Len(waiting)))
<1> DEFINE k == Len(waiting)  more == Append(waiting, event)
<1>1. /\ k \in Nat /\ Len(more) = k + 1 /\ more[k + 1] = event
      /\ \A i \in 1 .. k : more[i] = waiting[i]
  BY LenProperties, AppendProperties
<1>2. Adds(more, k) = Adds(waiting, k)
  BY <1>1 DEF Adds
<1> HIDE DEF more, k
<1>3. k + 1 \in Nat \ {0} /\ (k + 1) - 1 = k
  BY <1>1
<1> QED
  BY <1>1, <1>2, <1>3, OneMoreAdd DEF more, k

\* Whatever events are applied: the slice stays one, the arrays stay, and it
\* grows by no more than the adds among them.
LEMMA AllApplied ==
  ASSUME NEW s, IsSlice(s), NEW waiting \in Seq(Events)
  PROVE  /\ IsSlice(Applied(s, waiting)) /\ Outlives(s.arrays, Applied(s, waiting).arrays)
         /\ Applied(s, waiting).length <= s.length + Cardinality(Adds(waiting, Len(waiting)))
<1> DEFINE last == Len(waiting)
<1>1. last \in Nat /\ \A n \in 1 .. last : waiting[n] \in Events
  BY LenProperties, ElementOfSeq
<1>2. PICK f : /\ f[0] = s /\ f[last] = Applied(s, waiting)
               /\ \A n \in 1 .. last : f[n] = Apply(f[n - 1], waiting[n])
  BY <1>1, AppliedSteps
<1> HIDE DEF last
<1> DEFINE Fine(n) == /\ IsSlice(f[n]) /\ Outlives(s.arrays, f[n].arrays)
                      /\ f[n].length <= s.length + Cardinality(Adds(waiting, n))
           Bad == {n \in 0 .. last : ~Fine(n)}
<1>3. Bad = {}
  <2>1. SUFFICES ASSUME Bad # {} PROVE FALSE
    OBVIOUS
  <2>2. Bad \subseteq Nat
    BY <1>1
  <2>3. PICK n \in Bad : \A i \in Bad : n <= i
    <3> HIDE DEF Bad
    <3> QED
      BY <2>1, <2>2, LeastExists
  <2>4. n \in 0 .. last /\ ~Fine(n)
    OBVIOUS
  <2>5. CASE n = 0
    <3>1. Adds(waiting, 0) = {}
      BY DEF Adds
    <3>2. Cardinality(Adds(waiting, 0)) = 0
      BY <3>1, FS_EmptySet
    <3>3. Outlives(s.arrays, s.arrays)
      <4>1. Len(s.arrays) \in Nat
        BY LenProperties DEF IsSlice
      <4> QED
        BY <4>1 DEF Outlives
    <3>4. s.length \in Nat
      BY SliceNumbers
    <3> QED
      BY <1>2, <2>4, <2>5, <3>2, <3>3, <3>4
  <2>6. CASE n # 0
    <3>1. n - 1 \in 0 .. last /\ n \in 1 .. last /\ n \in Nat \ {0} /\ n - 1 \in Nat /\ ~(n <= n - 1)
      BY <1>1, <2>4, <2>6
    <3>2. Fine(n - 1)
      <4>1. n - 1 \notin Bad
        <5> HIDE DEF Bad
        <5> QED
          BY <2>3, <3>1
      <4> QED
        BY <3>1, <4>1
    <3>3. f[n] = Apply(f[n - 1], waiting[n]) /\ waiting[n] \in Events
      BY <1>1, <1>2, <3>1
    <3>4. /\ IsSlice(f[n]) /\ Outlives(f[n - 1].arrays, f[n].arrays)
          /\ f[n].length <= IF waiting[n].type = "add" THEN f[n - 1].length + 1 ELSE f[n - 1].length
      BY <3>2, <3>3, EventApplied
    <3>5. Outlives(s.arrays, f[n].arrays)
      <4>1. Len(s.arrays) \in Nat /\ Len(f[n - 1].arrays) \in Nat /\ Len(f[n].arrays) \in Nat
        BY <3>2, <3>4, LenProperties DEF IsSlice
      <4> QED
        BY <3>2, <3>4, <4>1, OutlivesAll
    <3>6. f[n].length <= s.length + Cardinality(Adds(waiting, n))
      <4>1. s.length \in Nat /\ f[n - 1].length \in Nat /\ f[n].length \in Nat
        BY <3>2, <3>4, SliceNumbers
      <4> DEFINE c == Cardinality(Adds(waiting, n))  b == Cardinality(Adds(waiting, n - 1))
      <4>2. c \in Nat /\ (c = IF waiting[n].type = "add" THEN b + 1 ELSE b)
        BY <3>1, OneMoreAdd
      <4>3. b \in Int
        BY <3>1, AddsAreFinite
      <4>4. f[n - 1].length <= s.length + b
        BY <3>2
      <4> HIDE DEF c, b
      <4>5. f[n].length <= s.length + c
        <5>1. CASE waiting[n].type = "add"
          <6>1. f[n].length <= f[n - 1].length + 1 /\ c = b + 1
            BY <3>4, <4>2, <5>1
          <6> QED
            BY <4>1, <4>2, <4>3, <4>4, <6>1, OneMoreAtMost
        <5>2. CASE waiting[n].type # "add"
          <6>1. f[n].length <= f[n - 1].length /\ c = b
            BY <3>4, <4>2, <5>2
          <6> QED
            BY <4>1, <4>3, <4>4, <6>1
        <5> QED
          BY <5>1, <5>2
      <4> QED
        BY <4>5 DEF c
    <3> QED
      BY <2>4, <3>4, <3>5, <3>6
  <2> QED
    BY <2>5, <2>6
<1>4. Fine(last)
  BY <1>1, <1>3
<1> QED
  BY <1>2, <1>4 DEF last

-----------------------------------------------------------------------------
(***************************************************************************)
(* The inductive invariant of Signals.  An Emit that no inner Emit has     *)
(* disturbed keeps inLoop up, so nothing writes into the array that it     *)
(* reads: it holds what it held when the Emit began.  Any other Emit still *)
(* reads within its array, and a connect uses up one number for ever.      *)
(***************************************************************************)
Emits == [array : Nat, length : Nat, began : Seq(Nat), called : Seq(Nat), inner : BOOLEAN]

Within(e, all) ==
  /\ e.array \in 1 .. Len(all) /\ e.length <= Len(all[e.array])
  /\ Len(e.called) <= e.length

Undisturbed(e, all) ==
  /\ Len(e.began) = e.length
  /\ \A k \in 1 .. e.length : e.began[k] = all[e.array][k]
  /\ \A k \in 1 .. Len(e.called) : e.called[k] = e.began[k]

SignalsTyped ==
  /\ lastID \in Nat /\ lastID <= MaxHandlers /\ inLoop \in BOOLEAN
  /\ events \in Seq(Events) /\ emits \in Seq(Emits)
  /\ IsSlice(Slice(arrays, length))
  /\ length + Cardinality(Adds(events, Len(events))) <= lastID

EmitsRun ==
  /\ \A i \in 1 .. Len(emits) : Within(emits[i], arrays)
  /\ \A i \in 1 .. Len(emits) : ~emits[i].inner => inLoop /\ Undisturbed(emits[i], arrays)
  /\ emits = <<>> => ~inLoop
  /\ ~inLoop => events = <<>>

SignalsInv == SignalsTyped /\ EmitsRun

LEMMA SliceOfAll ==
  ASSUME SignalsTyped
  PROVE  /\ arrays \in Seq(Seq(Nat)) /\ Len(arrays) \in Nat /\ Len(arrays) \in 1 .. Len(arrays)
         /\ arrays[Len(arrays)] \in Seq(Nat) /\ Last(arrays) = arrays[Len(arrays)]
         /\ Len(arrays[Len(arrays)]) \in Nat /\ arrays # <<>>
         /\ length \in Nat /\ length <= Len(arrays[Len(arrays)])
<1> DEFINE s == Slice(arrays, length)
<1>1. IsSlice(s) /\ s.arrays = arrays /\ s.length = length
  BY DEF SignalsTyped, Slice
<1>2. s.arrays \in Seq(Seq(Nat)) /\ s.arrays # <<>>
  BY <1>1 DEF IsSlice
<1> HIDE DEF s
<1>3. /\ Len(s.arrays) \in Nat /\ Len(s.arrays) \in 1 .. Len(s.arrays)
      /\ s.arrays[Len(s.arrays)] \in Seq(Nat) /\ Last(s.arrays) = s.arrays[Len(s.arrays)]
      /\ Len(s.arrays[Len(s.arrays)]) \in Nat
      /\ s.length \in Nat /\ s.length <= Len(s.arrays[Len(s.arrays)])
  BY <1>1, SliceNumbers
<1> QED
  BY <1>1, <1>2, <1>3

\* What an Emit reads stays where it is while the arrays outlive.
LEMMA WithinOutlives ==
  ASSUME NEW e \in Emits, NEW old, NEW bs, Len(old) \in Nat, Len(bs) \in Nat,
         Outlives(old, bs), Within(e, old)
  PROVE  Within(e, bs)
BY DEF Within, Outlives, Emits

LEMMA SignalsStart == SignalsInit => SignalsInv
<1> SUFFICES ASSUME SignalsInit PROVE SignalsInv
  OBVIOUS
<1> USE DEF SignalsInit
<1>1. events \in Seq(Events) /\ emits \in Seq(Emits) /\ Len(events) = 0 /\ Len(emits) = 0
  BY EmptySeq
<1>2. Cardinality(Adds(events, Len(events))) = 0
  <2>1. Adds(events, Len(events)) = {}
    BY <1>1 DEF Adds
  <2> QED
    BY <2>1, FS_EmptySet
<1>3. IsSlice(Slice(arrays, length))
  <2>1. arrays = <<<<>>>> /\ arrays \in Seq(Seq(Nat)) /\ arrays # <<>> /\ Len(arrays) = 1 /\ arrays[1] = <<>>
    OBVIOUS
  <2>2. Len(arrays[Len(arrays)]) = 0
    BY <2>1
  <2> QED
    BY <2>1, <2>2 DEF IsSlice, Slice
<1>4. SignalsTyped
  <2>1. lastID = 0 /\ length = 0 /\ inLoop \in BOOLEAN
    OBVIOUS
  <2> HIDE DEF SignalsInit
  <2>2. length + Cardinality(Adds(events, Len(events))) <= lastID
    BY <1>2, <2>1
  <2>3. lastID \in Nat /\ lastID <= MaxHandlers
    BY <2>1, SignalsAssumption
  <2> QED
    BY <1>1, <1>3, <2>1, <2>2, <2>3 DEF SignalsTyped
<1>5. EmitsRun
  BY <1>1 DEF EmitsRun
<1> QED
  BY <1>4, <1>5 DEF SignalsInv

\* Connects and disconnects take effect while nothing reads undisturbed.
LEMMA EventsProcessed ==
  ASSUME SignalsInv, NEW waiting \in Seq(Events),
         processEvents(waiting, FALSE)
  PROVE  /\ IsSlice(Slice(arrays', length')) /\ Outlives(arrays, arrays')
         /\ Len(arrays') \in Nat /\ events' = <<>> /\ length' \in Nat
         /\ length' <= length + Cardinality(Adds(waiting, Len(waiting)))
<1> DEFINE s == Slice(arrays, length)  t == Applied(s, waiting)
<1>1. IsSlice(s) /\ s.arrays = arrays /\ s.length = length
  BY DEF SignalsInv, SignalsTyped, Slice
<1>2. arrays' = t.arrays /\ length' = t.length /\ events' = <<>>
  BY DEF processEvents
<1> HIDE DEF s
<1>3. /\ IsSlice(t) /\ Outlives(s.arrays, t.arrays)
      /\ t.length <= s.length + Cardinality(Adds(waiting, Len(waiting)))
  BY <1>1, AllApplied
<1> HIDE DEF t
<1>4. t = Slice(arrays', length') /\ t.length \in Nat /\ Len(t.arrays) \in Nat
  BY <1>2, <1>3, SliceNumbers DEF IsSlice
<1> QED
  BY <1>1, <1>2, <1>3, <1>4

\* Connect and Disconnect: an event that waits, or is applied at once.
LEMMA EventHappens ==
  ASSUME SignalsInv, NEW event \in Events, processEvents(Append(events, event), inLoop),
         UNCHANGED <<inLoop, emits>>, lastID' \in Nat, lastID' <= MaxHandlers,
         lastID' = IF event.type = "add" THEN lastID + 1 ELSE lastID
  PROVE  SignalsInv'
<1> DEFINE more == Append(events, event)  c == Cardinality(Adds(events, Len(events)))
<1>1. more \in Seq(Events) /\ events \in Seq(Events)
  BY AppendProperties DEF SignalsInv, SignalsTyped
<1>2. c \in Nat /\ length \in Nat /\ lastID \in Nat /\ length + c <= lastID
  <2>1. Len(events) \in Nat
    BY <1>1, LenProperties
  <2> QED
    BY <2>1, AddsAreFinite, SliceOfAll DEF SignalsInv, SignalsTyped
<1>3. Cardinality(Adds(more, Len(more))) = IF event.type = "add" THEN c + 1 ELSE c
  BY <1>1, AddsAppended
<1> HIDE DEF c, more
<1>4. length + Cardinality(Adds(more, Len(more))) <= lastID'
  <2>1. CASE event.type = "add"
    BY <1>2, <1>3, <2>1
  <2>2. CASE event.type # "add"
    BY <1>2, <1>3, <2>2
  <2> QED
    BY <2>1, <2>2
<1>5. CASE inLoop
  <2>1. events' = more /\ UNCHANGED <<arrays, length>>
    BY <1>5 DEF processEvents, more
  <2>2. SignalsTyped'
    BY <1>1, <1>4, <2>1 DEF SignalsInv, SignalsTyped
  <2>3. EmitsRun'
    BY <1>5, <2>1 DEF SignalsInv, EmitsRun
  <2> QED
    BY <2>2, <2>3 DEF SignalsInv
<1>6. CASE ~inLoop
  <2>1. processEvents(more, FALSE)
    BY <1>6 DEF processEvents, more
  <2>2. /\ IsSlice(Slice(arrays', length')) /\ Outlives(arrays, arrays')
        /\ Len(arrays') \in Nat /\ events' = <<>> /\ length' \in Nat
        /\ length' <= length + Cardinality(Adds(more, Len(more)))
    BY <1>1, <2>1, EventsProcessed
  <2>3. events' \in Seq(Events) /\ Cardinality(Adds(events', Len(events'))) = 0
    <3>1. events' \in Seq(Events) /\ Len(events') = 0
      BY <2>2, EmptySeq
    <3>2. Adds(events', Len(events')) = {}
      BY <3>1 DEF Adds
    <3> QED
      BY <3>1, <3>2, FS_EmptySet
  <2>4. length' <= lastID'
    <3>1. Cardinality(Adds(more, Len(more))) \in Nat
      BY <1>2, <1>3
    <3> DEFINE d == Cardinality(Adds(more, Len(more)))
    <3>2. d \in Nat /\ length' <= length + d /\ length + d <= lastID' /\ length' \in Nat
      BY <1>4, <2>2, <3>1
    <3> HIDE DEF d
    <3> QED
      BY <1>2, <3>2, StillAtMost
  <2>5. SignalsTyped'
    <3>1. length' + Cardinality(Adds(events', Len(events'))) <= lastID'
      BY <2>2, <2>3, <2>4
    <3>2. emits \in Seq(Emits) /\ inLoop \in BOOLEAN
      BY DEF SignalsInv, SignalsTyped
    <3> QED
      BY <2>2, <2>3, <3>1, <3>2 DEF SignalsTyped
  <2>6. EmitsRun'
    <3>1. \A i \in 1 .. Len(emits) : Within(emits[i], arrays')
      <4> SUFFICES ASSUME NEW i \in 1 .. Len(emits) PROVE Within(emits[i], arrays')
        OBVIOUS
      <4>1. emits[i] \in Emits
        BY ElementOfSeq DEF SignalsInv, SignalsTyped
      <4> QED
        BY <2>2, <4>1, WithinOutlives, SliceOfAll DEF SignalsInv, EmitsRun
    <3>2. \A i \in 1 .. Len(emits) : emits[i].inner \/ inLoop
      BY DEF SignalsInv, EmitsRun
    <3> QED
      BY <1>6, <2>2, <3>1, <3>2 DEF SignalsInv, EmitsRun
  <2> QED
    BY <2>5, <2>6 DEF SignalsInv
<1> QED
  BY <1>5, <1>6 DEF SignalsInv, SignalsTyped

LEMMA ConnectSafe ==
  ASSUME SignalsInv, Connect
  PROVE  SignalsInv'
<1>1. lastID \in Nat /\ lastID + 1 \in HandlerIDs /\ lastID + 1 <= MaxHandlers
  BY SignalsAssumption DEF Connect, SignalsInv, SignalsTyped, HandlerIDs
<1>2. Add(lastID + 1) \in Events /\ Add(lastID + 1).type = "add"
  BY <1>1 DEF Add, Events
<1> QED
  BY <1>1, <1>2, EventHappens DEF Connect

LEMMA DisconnectSafe ==
  ASSUME SignalsInv, NEW h \in 1 .. MaxHandlers, Disconnect(h)
  PROVE  SignalsInv'
<1>1. Del(h) \in Events /\ Del(h).type # "add"
  BY DEF Del, Events, HandlerIDs
<1>2. lastID' = lastID /\ lastID' \in Nat /\ lastID' <= MaxHandlers
  BY DEF Disconnect, SignalsInv, SignalsTyped
<1> QED
  BY <1>1, <1>2, EventHappens DEF Disconnect

\* Clear starts a new array, and running Emits read on in the old one.
LEMMA ClearSafe ==
  ASSUME SignalsInv, Clear
  PROVE  SignalsInv'
<1> DEFINE bs == Append(arrays, <<>>)
<1>1. arrays' = bs /\ length' = 0 /\ UNCHANGED <<lastID, inLoop, events, emits>>
  BY DEF Clear
<1>2. <<>> \in Seq(Nat) /\ Len(<<>>) = 0
  BY EmptySeq
<1>3. /\ bs \in Seq(Seq(Nat)) /\ Len(bs) = Len(arrays) + 1 /\ bs[Len(arrays) + 1] = <<>>
      /\ \A i \in 1 .. Len(arrays) : bs[i] = arrays[i]
  BY <1>2, AppendProperties, SliceOfAll DEF SignalsInv
<1> HIDE DEF bs
<1>4. Len(arrays) \in Nat /\ length \in Nat
  BY SliceOfAll DEF SignalsInv
<1>5. Outlives(arrays, bs) /\ Len(bs) \in Nat /\ bs # <<>>
  <2>1. Len(bs) \in Nat /\ Len(bs) # 0 /\ Len(arrays) <= Len(bs)
    BY <1>3, <1>4
  <2>2. bs # <<>>
    BY <1>2, <2>1
  <2> QED
    BY <1>3, <2>1, <2>2 DEF Outlives
<1>6. IsSlice(Slice(bs, 0))
  <2>1. 0 \in 0 .. Len(bs[Len(bs)])
    BY <1>2, <1>3
  <2> QED
    BY <1>3, <1>5, <2>1 DEF IsSlice, Slice
<1>7. SignalsTyped'
  <2>1. length' + Cardinality(Adds(events', Len(events'))) <= lastID'
    <3> DEFINE c == Cardinality(Adds(events, Len(events)))
    <3>1. c \in Nat /\ length + c <= lastID /\ lastID \in Nat
      <4>1. Len(events) \in Nat
        BY LenProperties DEF SignalsInv, SignalsTyped
      <4> QED
        BY <4>1, AddsAreFinite DEF SignalsInv, SignalsTyped
    <3>2. Cardinality(Adds(events', Len(events'))) = c
      BY <1>1
    <3> HIDE DEF c
    <3> QED
      BY <1>1, <1>4, <3>1, <3>2
  <2> QED
    BY <1>1, <1>6, <2>1 DEF SignalsInv, SignalsTyped
<1>8. EmitsRun'
  <2>1. ASSUME NEW i \in 1 .. Len(emits)
        PROVE  /\ Within(emits[i], bs)
               /\ ~emits[i].inner => inLoop /\ Undisturbed(emits[i], bs)
    <3>1. emits[i] \in Emits
      BY ElementOfSeq DEF SignalsInv, SignalsTyped
    <3>2. Within(emits[i], arrays) /\ (~emits[i].inner => inLoop /\ Undisturbed(emits[i], arrays))
      BY DEF SignalsInv, EmitsRun
    <3>3. bs[emits[i].array] = arrays[emits[i].array]
      BY <1>3, <3>2 DEF Within
    <3> QED
      BY <1>4, <1>5, <3>1, <3>2, <3>3, WithinOutlives DEF Undisturbed
  <2> QED
    BY <1>1, <2>1 DEF SignalsInv, EmitsRun
<1> QED
  BY <1>7, <1>8 DEF SignalsInv

\* A step of an Emit leaves the slice, and the events unless it is the end.
LEMMA TypedWithEmits ==
  ASSUME SignalsInv, UNCHANGED <<lastID, arrays, length, events>>,
         inLoop' \in BOOLEAN, emits' \in Seq(Emits)
  PROVE  SignalsTyped'
BY DEF SignalsInv, SignalsTyped

LEMMA EmitSafe ==
  ASSUME SignalsInv, Emit
  PROVE  SignalsInv'
<1> DEFINE e == [array |-> Len(arrays), length |-> length,
                 began |-> SubSeq(Last(arrays), 1, length),
                 called |-> <<>>, inner |-> FALSE]
           n == Len(emits)
<1>1. inLoop' = TRUE /\ emits' = Append(emits, e) /\ UNCHANGED <<lastID, arrays, length, events>>
  BY DEF Emit
<1>2. /\ Len(arrays) \in Nat /\ Len(arrays) \in 1 .. Len(arrays) /\ length \in Nat
      /\ length <= Len(arrays[Len(arrays)]) /\ Last(arrays) = arrays[Len(arrays)]
      /\ arrays[Len(arrays)] \in Seq(Nat) /\ Len(arrays[Len(arrays)]) \in Nat
  BY SliceOfAll DEF SignalsInv
<1>3. /\ e.began \in Seq(Nat) /\ Len(e.began) = length
      /\ \A k \in 1 .. length : e.began[k] = arrays[Len(arrays)][k]
  <2> DEFINE array == arrays[Len(arrays)]
  <2>1. \A k \in 1 .. length : array[k] \in Nat
    <3>1. \A k \in 1 .. length : k \in 1 .. Len(array)
      BY <1>2
    <3> QED
      BY <1>2, <3>1, ElementOfSeq
  <2>2. e.began = SubSeq(array, 1, length)
    BY <1>2
  <2> HIDE DEF array, e
  <2>3. /\ SubSeq(array, 1, length) \in Seq(Nat)
        /\ Len(SubSeq(array, 1, length)) = IF 1 <= length THEN length - 1 + 1 ELSE 0
        /\ \A k \in 1 .. length - 1 + 1 : SubSeq(array, 1, length)[k] = array[1 + k - 1]
    BY <1>2, <2>1, SubSeqProperties
  <2>4. Len(SubSeq(array, 1, length)) = length
    BY <1>2, <2>3
  <2>5. \A k \in 1 .. length : SubSeq(array, 1, length)[k] = array[k]
    <3> SUFFICES ASSUME NEW k \in 1 .. length PROVE SubSeq(array, 1, length)[k] = array[k]
      OBVIOUS
    <3>1. k \in 1 .. length - 1 + 1 /\ 1 + k - 1 = k
      BY <1>2
    <3> QED
      BY <2>3, <3>1
  <2> QED
    BY <2>2, <2>3, <2>4, <2>5 DEF array
<1>4. /\ e.array = Len(arrays) /\ e.length = length /\ e.inner = FALSE
      /\ e.called = <<>> /\ e.called \in Seq(Nat) /\ Len(e.called) = 0
  BY EmptySeq
<1>5. e \in Emits
  BY <1>2, <1>3, <1>4 DEF Emits
<1> HIDE DEF e
<1>6. Within(e, arrays) /\ Undisturbed(e, arrays)
  BY <1>2, <1>3, <1>4 DEF Within, Undisturbed
<1>7. /\ Append(emits, e) \in Seq(Emits) /\ n \in Nat /\ Len(Append(emits, e)) = n + 1
      /\ Append(emits, e)[n + 1] = e /\ \A i \in 1 .. n : Append(emits, e)[i] = emits[i]
  BY <1>5, LenProperties, AppendProperties DEF SignalsInv, SignalsTyped
<1>8. SignalsTyped'
  BY <1>1, <1>7, TypedWithEmits
<1>9. EmitsRun'
  <2> HIDE DEF n
  <2>1. \A i \in 1 .. Len(emits') : Within(emits'[i], arrays) /\ (~emits'[i].inner => Undisturbed(emits'[i], arrays))
    <3> SUFFICES ASSUME NEW i \in 1 .. n + 1
                 PROVE  /\ Within(emits'[i], arrays)
                        /\ ~emits'[i].inner => Undisturbed(emits'[i], arrays)
      BY <1>1, <1>7
    <3>1. CASE i = n + 1
      BY <1>1, <1>6, <1>7, <3>1
    <3>2. CASE i # n + 1
      <4>1. i \in 1 .. n /\ emits'[i] = emits[i]
        BY <1>1, <1>7, <3>2
      <4> QED
        BY <4>1 DEF SignalsInv, EmitsRun, n
    <3> QED
      BY <3>1, <3>2
  <2> QED
    BY <1>1, <2>1 DEF EmitsRun
<1> QED
  BY <1>8, <1>9 DEF SignalsInv

LEMMA CallSafe ==
  ASSUME SignalsInv, CallNext
  PROVE  SignalsInv'
<1> DEFINE n == Len(emits)  e == emits[n]  next == Len(e.called) + 1
           called == Append(e.called, arrays[e.array][next])
           f == [e EXCEPT !.called = called]
<1>1. emits \in Seq(Emits) /\ n \in Nat /\ n \in 1 .. n
  <2>1. emits \in Seq(Emits) /\ emits # <<>>
    BY DEF SignalsInv, SignalsTyped, CallNext
  <2>2. n \in Nat /\ n # 0
    BY <2>1, EmptySeq, LenProperties
  <2> QED
    BY <2>1, <2>2
<1>2. e \in Emits /\ Within(e, arrays) /\ (~e.inner => inLoop /\ Undisturbed(e, arrays))
  BY <1>1, ElementOfSeq DEF SignalsInv, EmitsRun
<1>3. /\ next <= e.length /\ UNCHANGED <<lastID, arrays, length, inLoop, events>>
      /\ emits' = [emits EXCEPT ![n] = f]
  BY DEF CallNext, Last
<1> HIDE DEF n, e
<1>4. e.called \in Seq(Nat) /\ Len(e.called) \in Nat /\ e.length \in Nat
  BY <1>2, LenProperties DEF Emits
<1>5. arrays[e.array][next] \in Nat
  <2>1. arrays[e.array] \in Seq(Nat)
    BY <1>2, ElementOfSeq, SliceOfAll DEF Within, SignalsInv
  <2>2. Len(arrays[e.array]) \in Nat
    BY <2>1, LenProperties
  <2>3. next \in 1 .. Len(arrays[e.array])
    BY <1>2, <1>3, <1>4, <2>2 DEF Within
  <2> QED
    BY <2>1, <2>3, ElementOfSeq
<1>6. /\ called \in Seq(Nat) /\ Len(called) = next /\ called[next] = arrays[e.array][next]
      /\ \A k \in 1 .. Len(e.called) : called[k] = e.called[k]
  BY <1>4, <1>5, AppendProperties
<1>7. /\ f \in Emits /\ f.array = e.array /\ f.length = e.length /\ f.began = e.began
      /\ f.inner = e.inner /\ f.called = called
  BY <1>2, <1>6 DEF Emits
<1> HIDE DEF f, called
<1>8. Within(f, arrays)
  BY <1>2, <1>3, <1>6, <1>7 DEF Within
<1>9. ~f.inner => inLoop /\ Undisturbed(f, arrays)
  <2> SUFFICES ASSUME ~f.inner PROVE inLoop /\ Undisturbed(f, arrays)
    OBVIOUS
  <2>1. inLoop /\ Undisturbed(e, arrays)
    BY <1>2, <1>7
  <2>2. next \in 1 .. e.length
    BY <1>3, <1>4
  <2>3. \A k \in 1 .. next : called[k] = e.began[k]
    <3> SUFFICES ASSUME NEW k \in 1 .. next PROVE called[k] = e.began[k]
      OBVIOUS
    <3>1. CASE k = next
      BY <1>6, <2>1, <2>2, <3>1 DEF Undisturbed
    <3>2. CASE k # next
      <4>1. k \in 1 .. Len(e.called)
        BY <1>4, <3>2
      <4> QED
        BY <1>6, <2>1, <4>1 DEF Undisturbed
    <3> QED
      BY <3>1, <3>2
  <2> QED
    BY <1>6, <1>7, <2>1, <2>3 DEF Undisturbed
<1>10. emits' \in Seq(Emits) /\ Len(emits') = n /\ \A i \in 1 .. n : emits'[i] = IF i = n THEN f ELSE emits[i]
  BY <1>1, <1>3, <1>7, ExceptSeq DEF n
<1>11. inLoop' \in BOOLEAN
  BY <1>3 DEF SignalsInv, SignalsTyped
<1>12. SignalsTyped'
  BY <1>3, <1>10, <1>11, TypedWithEmits
<1>13. EmitsRun'
  <2>1. ASSUME NEW i \in 1 .. n
        PROVE  /\ Within(emits'[i], arrays)
               /\ ~emits'[i].inner => inLoop /\ Undisturbed(emits'[i], arrays)
    <3>1. CASE i = n
      BY <1>8, <1>9, <1>10, <3>1
    <3>2. CASE i # n
      BY <1>10, <3>2 DEF SignalsInv, EmitsRun, n
    <3> QED
      BY <3>1, <3>2
  <2>2. emits' # <<>>
    <3>1. Len(emits') # 0
      BY <1>1, <1>10
    <3> QED
      BY <3>1, EmptySeq
  <2>3. ~inLoop => events = <<>>
    BY DEF SignalsInv, EmitsRun
  <2> QED
    BY <1>3, <1>10, <2>1, <2>2, <2>3 DEF EmitsRun
<1> QED
  BY <1>12, <1>13 DEF SignalsInv

LEMMA EndSafe ==
  ASSUME SignalsInv, EndEmit
  PROVE  SignalsInv'
<1> DEFINE n == Len(emits)
<1>1. /\ inLoop' = FALSE /\ UNCHANGED lastID /\ processEvents(events, FALSE)
      /\ emits' = [i \in 1 .. n - 1 |-> [emits[i] EXCEPT !.inner = TRUE]]
  BY DEF EndEmit
<1>2. emits \in Seq(Emits) /\ n \in Nat /\ n \in 1 .. n
  <2>1. emits \in Seq(Emits) /\ emits # <<>>
    BY DEF SignalsInv, SignalsTyped, EndEmit
  <2>2. n \in Nat /\ n # 0
    BY <2>1, EmptySeq, LenProperties
  <2> QED
    BY <2>1, <2>2
<1>3. events \in Seq(Events)
  BY DEF SignalsInv, SignalsTyped
<1>4. /\ IsSlice(Slice(arrays', length')) /\ Outlives(arrays, arrays')
      /\ Len(arrays') \in Nat /\ events' = <<>> /\ length' \in Nat
      /\ length' <= length + Cardinality(Adds(events, Len(events)))
  BY <1>1, <1>3, EventsProcessed
<1>5. \A i \in 1 .. n - 1 : i \in 1 .. n
  BY <1>2
<1>6. \A i \in 1 .. n : emits[i] \in Emits /\ Within(emits[i], arrays)
  BY <1>2, ElementOfSeq DEF SignalsInv, EmitsRun
<1> HIDE DEF n
<1>7. ASSUME NEW i \in 1 .. n - 1
      PROVE  emits'[i] \in Emits /\ emits'[i].inner = TRUE /\ Within(emits'[i], arrays')
  <2> DEFINE e == emits[i]  f == [e EXCEPT !.inner = TRUE]
  <2>1. e \in Emits /\ Within(e, arrays)
    BY <1>5, <1>6
  <2>2. Within(e, arrays')
    BY <1>4, <2>1, WithinOutlives, SliceOfAll DEF SignalsInv
  <2>3. emits'[i] = f
    BY <1>1
  <2>4. /\ f \in Emits /\ f.inner = TRUE /\ f.array = e.array /\ f.length = e.length
        /\ f.called = e.called
    BY <2>1 DEF Emits
  <2> HIDE DEF e, f
  <2> QED
    BY <2>2, <2>3, <2>4 DEF Within
<1>8. emits' \in Seq(Emits) /\ Len(emits') = n - 1
  <2> DEFINE k == n - 1
  <2>1. k \in Nat
    BY <1>2
  <2>2. DOMAIN emits' = 1 .. k
    BY <1>1
  <2> HIDE DEF k
  <2>3. emits' \in [1 .. k -> Emits]
    <3>1. \A i \in 1 .. k : emits'[i] \in Emits
      BY <1>7 DEF k
    <3>2. emits' = [i \in 1 .. k |-> emits'[i]]
      BY <1>1 DEF k
    <3> QED
      BY <3>1, <3>2
  <2>4. emits' \in Seq(Emits)
    BY <2>1, <2>3
  <2>5. Len(emits') = k
    BY <2>1, <2>2, <2>4, LenProperties
  <2> QED
    BY <2>4, <2>5 DEF k
<1>9. SignalsTyped'
  <2>1. events' \in Seq(Events) /\ Len(events') = 0
    BY <1>4, EmptySeq
  <2>2. Adds(events', Len(events')) = {}
    BY <2>1 DEF Adds
  <2>3. Cardinality(Adds(events', Len(events'))) = 0
    BY <2>2, FS_EmptySet
  <2> DEFINE d == Cardinality(Adds(events, Len(events)))
  <2>4. d \in Nat /\ length + d <= lastID /\ length \in Nat /\ lastID \in Nat /\ lastID <= MaxHandlers
    <3>1. Len(events) \in Nat
      BY <1>3, LenProperties
    <3> QED
      BY <3>1, AddsAreFinite, SliceOfAll DEF SignalsInv, SignalsTyped
  <2>5. length' <= length + d
    BY <1>4
  <2> HIDE DEF d
  <2>7. length' <= lastID'
    BY <1>1, <1>4, <2>4, <2>5, StillAtMost
  <2>8. length' + Cardinality(Adds(events', Len(events'))) <= lastID'
    BY <1>1, <1>4, <2>3, <2>4, <2>7
  <2> QED
    BY <1>1, <1>4, <1>8, <2>1, <2>4, <2>8 DEF SignalsTyped
<1>10. EmitsRun'
  <2>1. \A i \in 1 .. Len(emits') : Within(emits'[i], arrays') /\ emits'[i].inner = TRUE
    BY <1>7, <1>8
  <2> QED
    BY <1>1, <1>4, <2>1 DEF EmitsRun
<1> QED
  BY <1>9, <1>10 DEF SignalsInv

LEMMA SignalsStep == SignalsInv /\ [SignalsNext]_signalVars => SignalsInv'
<1> SUFFICES ASSUME SignalsInv, [SignalsNext]_signalVars PROVE SignalsInv'
  OBVIOUS
<1>1. CASE SignalsNext
  BY <1>1, ConnectSafe, ClearSafe, EmitSafe, CallSafe, EndSafe, DisconnectSafe DEF SignalsNext
<1>2. CASE UNCHANGED signalVars
  BY <1>2 DEF signalVars, SignalsInv, SignalsTyped, EmitsRun
<1> QED
  BY <1>1, <1>2

\* What the invariant says of the calls of an Emit.
LEMMA SignalsHold == SignalsInv => EmitCallsEach /\ SignalsTypeOK
<1> SUFFICES ASSUME SignalsInv PROVE EmitCallsEach /\ SignalsTypeOK
  OBVIOUS
<1>1. \A i \in 1 .. Len(emits) : ~emits[i].inner => IsPrefix(emits[i].called, emits[i].began)
  <2> SUFFICES ASSUME NEW i \in 1 .. Len(emits), ~emits[i].inner
               PROVE  IsPrefix(emits[i].called, emits[i].began)
    OBVIOUS
  <2> DEFINE s == emits[i].called  t == emits[i].began  n == Len(s)
  <2>1. emits[i] \in Emits /\ Within(emits[i], arrays) /\ Undisturbed(emits[i], arrays)
    BY ElementOfSeq DEF SignalsInv, SignalsTyped, EmitsRun
  <2>2. s \in Seq(Nat) /\ t \in Seq(Nat) /\ n \in Nat /\ Len(t) \in Nat
    BY <2>1, LenProperties DEF Emits
  <2>3. n <= Len(t) /\ \A k \in 1 .. n : s[k] = t[k]
    BY <2>1 DEF Within, Undisturbed
  <2> HIDE DEF s, t
  <2>4. n \in 0 .. Len(s) /\ n \in 0 .. Len(t) /\ \A k \in 1 .. n : k \in 1 .. Len(t)
    BY <2>2, <2>3
  <2>5. SubSeq(s, 1, n) = Restrict(s, 1 .. n) /\ SubSeq(t, 1, n) = Restrict(t, 1 .. n)
    BY <2>2, <2>4, SubSeqRestrict
  <2>6. SubSeq(s, 1, n) = SubSeq(t, 1, n)
    BY <2>3, <2>5 DEF Restrict
  <2> QED
    BY <2>3, <2>6 DEF IsPrefix, s, t
<1>2. emits = <<>> => events = <<>> /\ ~inLoop
  BY DEF SignalsInv, EmitsRun
<1>3. SignalsTypeOK
  <2> DEFINE d == Cardinality(Adds(events, Len(events)))
  <2>1. d \in Nat /\ length + d <= lastID /\ length \in Nat
    <3>1. Len(events) \in Nat
      BY LenProperties DEF SignalsInv, SignalsTyped
    <3> QED
      BY <3>1, AddsAreFinite, SliceOfAll DEF SignalsInv, SignalsTyped
  <2>2. /\ lastID \in Nat /\ lastID <= MaxHandlers /\ inLoop \in BOOLEAN
        /\ events \in Seq([type : {"add", "del"}, handler : 1 .. MaxHandlers])
    BY DEF SignalsInv, SignalsTyped, Events, HandlerIDs
  <2> HIDE DEF d
  <2>3. length \in 0 .. MaxHandlers /\ lastID \in 0 .. MaxHandlers
    BY <2>1, <2>2, SignalsAssumption
  <2> QED
    BY <2>2, <2>3 DEF SignalsTypeOK
<1> QED
  BY <1>1, <1>2, <1>3 DEF EmitCallsEach

LEMMA SignalsInvariant == SignalsSpec => []SignalsInv
BY SignalsStart, SignalsStep, PTL DEF SignalsSpec

-----------------------------------------------------------------------------
(***************************************************************************)
(* ConfigCache: what a goroutine carries from one step to the next has the *)
(* type of what it will put into the cache or the database.                *)
(***************************************************************************)
Writers == [doing : {"write"}, key : Keys, value : 0 .. MaxWrites, autoload : BOOLEAN, public : BOOLEAN]
Adders  == [doing : {"add"}, values : SUBSET (Keys \X (0 .. MaxWrites))]
Lookers == [doing : {"drop", "read"}, key : Keys]
Activities == {Waiting} \union Lookers \union Adders \union Writers

ConfigInv ==
  /\ stored \in [Keys -> 0 .. MaxWrites]
  /\ autoload \subseteq Keys /\ public \subseteq Keys
  /\ cached \in [Keys -> CacheEntry \union {NoValue}]
  /\ user \in [Users -> Activities]
  /\ writes \in Nat /\ writes <= MaxWrites

LEMMA ConfigStart == ConfigInit => ConfigInv
<1> SUFFICES ASSUME ConfigInit PROVE ConfigInv
  OBVIOUS
<1>1. MaxWrites \in Nat /\ 0 \in 0 .. MaxWrites
  BY ConfigAssumption
<1>2. Waiting \in Activities
  BY DEF Activities
<1> QED
  BY <1>1, <1>2 DEF ConfigInit, ConfigInv

LEMMA EntryPut ==
  ASSUME ConfigInv, NEW k \in Keys, NEW v \in 0 .. MaxWrites
  PROVE  /\ AddEntry(k, v) => cached' \in [Keys -> CacheEntry \union {NoValue}]
         /\ RemoveEntry(k) => cached' \in [Keys -> CacheEntry \union {NoValue}]
<1>1. [value |-> v, age |-> 0] \in CacheEntry
  <2>1. 0 \in 0 .. MaxAge + 1
    BY ConfigAssumption
  <2> QED
    BY <2>1 DEF CacheEntry
<1> QED
  BY <1>1 DEF AddEntry, RemoveEntry, ConfigInv

LEMMA ActivityPut ==
  ASSUME ConfigInv, NEW u \in Users, NEW a \in Activities, Becomes(u, a)
  PROVE  user' \in [Users -> Activities]
BY DEF Becomes, ConfigInv

\* The cache by itself, and CheckValue.
LEMMA KeyStep ==
  ASSUME ConfigInv, NEW k \in Keys,
         Grow(k) \/ Evict(k) \/ \E a, p \in BOOLEAN : CheckValue(k, a, p)
  PROVE  ConfigInv'
<1>1. CASE Grow(k)
  <2> DEFINE e == cached[k]  f == [e EXCEPT !.age = @ + 1]
  <2>1. e \in CacheEntry /\ ~(e.age > MaxAge) /\ cached' = [cached EXCEPT ![k] = f]
    BY <1>1 DEF Grow, IsOld, ConfigInv
  <2>2. f \in CacheEntry
    <3>1. e.age \in 0 .. MaxAge + 1 /\ e.value \in 0 .. MaxWrites /\ e = [value |-> e.value, age |-> e.age]
      BY <2>1 DEF CacheEntry
    <3> HIDE DEF e
    <3>2. e.age + 1 \in 0 .. MaxAge + 1
      BY <2>1, <3>1, ConfigAssumption
    <3>3. f = [value |-> e.value, age |-> e.age + 1]
      BY <3>1
    <3> QED
      BY <3>1, <3>2, <3>3 DEF CacheEntry
  <2> HIDE DEF f
  <2> QED
    BY <1>1, <2>1, <2>2 DEF Grow, ConfigInv
<1>2. CASE Evict(k)
  BY <1>2 DEF Evict, RemoveEntry, ConfigInv
<1>3. CASE \E a, p \in BOOLEAN : CheckValue(k, a, p)
  <2>1. PICK a \in BOOLEAN, p \in BOOLEAN : CheckValue(k, a, p)
    BY <1>3
  <2>2. writes + 1 \in 0 .. MaxWrites /\ writes + 1 \in Nat /\ writes + 1 <= MaxWrites
    BY <2>1, ConfigAssumption DEF CheckValue, ConfigInv
  <2>3. stored' \in [Keys -> 0 .. MaxWrites]
    BY <2>1, <2>2 DEF CheckValue, ConfigInv
  <2>4. autoload' \subseteq Keys /\ public' \subseteq Keys
    BY <2>1 DEF CheckValue, Flag, ConfigInv
  <2> QED
    BY <2>1, <2>2, <2>3, <2>4 DEF CheckValue, ConfigInv
<1> QED
  BY <1>1, <1>2, <1>3

LEMMA UserStep ==
  ASSUME ConfigInv, NEW u \in Users, NEW k \in Keys,
         GetValue(u, k) \/ \E a, p \in BOOLEAN : SetValue(u, k, a, p)
  PROVE  ConfigInv'
<1>1. CASE GetValue(u, k)
  <2>1. [doing |-> "drop", key |-> k] \in Activities /\ [doing |-> "read", key |-> k] \in Activities
    BY DEF Activities, Lookers
  <2>2. user' \in [Users -> Activities]
    BY <1>1, <2>1, ActivityPut DEF GetValue, ConfigInv
  <2>3. UNCHANGED <<stored, autoload, public, cached, writes>>
    BY <1>1 DEF GetValue, Hit
  <2> QED
    BY <2>2, <2>3 DEF ConfigInv
<1>2. CASE \E a, p \in BOOLEAN : SetValue(u, k, a, p)
  <2>1. PICK a \in BOOLEAN, p \in BOOLEAN : SetValue(u, k, a, p)
    BY <1>2
  <2>2. writes + 1 \in 0 .. MaxWrites /\ writes + 1 \in Nat /\ writes + 1 <= MaxWrites
    BY <2>1, ConfigAssumption DEF SetValue, ConfigInv
  <2>3. [doing |-> "write", key |-> k, value |-> writes + 1, autoload |-> a, public |-> p] \in Activities
    BY <2>2 DEF Activities, Writers
  <2>4. user' \in [Users -> Activities]
    BY <2>1, <2>3, ActivityPut DEF SetValue
  <2>5. cached' \in [Keys -> CacheEntry \union {NoValue}]
    BY <2>1, EntryPut, ConfigAssumption DEF SetValue
  <2> QED
    BY <2>1, <2>2, <2>4, <2>5 DEF SetValue, ConfigInv
<1> QED
  BY <1>1, <1>2

LEMMA LoadStep ==
  ASSUME ConfigInv, NEW u \in Users, LoadAutoloads(u) \/ LoadPublicConfigs(u)
  PROVE  ConfigInv'
<1>1. PICK flagged \in SUBSET Keys : LoadFlagged(u, flagged)
  BY DEF LoadAutoloads, LoadPublicConfigs, ConfigInv
<1>2. [doing |-> "add", values |-> {<<k, stored[k]>> : k \in flagged}] \in Activities
  <2>1. {<<k, stored[k]>> : k \in flagged} \in SUBSET (Keys \X (0 .. MaxWrites))
    BY DEF ConfigInv
  <2> QED
    BY <2>1 DEF Activities, Adders
<1>3. user' \in [Users -> Activities]
  BY <1>1, <1>2, ActivityPut DEF LoadFlagged
<1> QED
  BY <1>1, <1>3 DEF LoadFlagged, ConfigInv

LEMMA ProceedStep ==
  ASSUME ConfigInv, NEW u \in Users, UserProceeds(u)
  PROVE  ConfigInv'
<1> DEFINE a == user[u]
<1>1. a \in Activities /\ Waiting \in Activities
  BY DEF ConfigInv, Activities
<1>2. CASE DropOld(u)
  <2>1. a \in Lookers
    BY <1>1, <1>2 DEF DropOld, Activities, Waiting, Adders, Writers
  <2>2. a.key \in Keys /\ [doing |-> "read", key |-> a.key] \in Activities
    BY <2>1 DEF Lookers, Activities
  <2>3. user' \in [Users -> Activities]
    BY <1>2, <2>2, ActivityPut DEF DropOld
  <2>4. cached' \in [Keys -> CacheEntry \union {NoValue}]
    BY <1>2, <2>2 DEF DropOld, RemoveEntry, ConfigInv
  <2> QED
    BY <1>2, <2>3, <2>4 DEF DropOld, ConfigInv
<1>3. CASE ReadRow(u)
  <2>1. a \in Lookers
    BY <1>1, <1>3 DEF ReadRow, Activities, Waiting, Adders, Writers
  <2>2. a.key \in Keys
    BY <2>1 DEF Lookers
  <2>3. [doing |-> "add", values |-> {<<a.key, stored[a.key]>>}] \in Activities
    <3>1. {<<a.key, stored[a.key]>>} \in SUBSET (Keys \X (0 .. MaxWrites))
      BY <2>2 DEF ConfigInv
    <3> QED
      BY <3>1 DEF Activities, Adders
  <2>4. user' \in [Users -> Activities]
    BY <1>1, <1>3, <2>3, ActivityPut DEF ReadRow, Rests
  <2> QED
    BY <1>3, <2>4 DEF ReadRow, ConfigInv
<1>4. CASE AddNext(u)
  <2>1. a \in Adders
    BY <1>1, <1>4 DEF AddNext, Activities, Waiting, Lookers, Writers
  <2>2. a = [doing |-> "add", values |-> a.values] /\ a.values \subseteq Keys \X (0 .. MaxWrites)
    BY <2>1 DEF Adders
  <2>3. CASE Rests(u) /\ UNCHANGED cached
    BY <1>1, <1>4, <2>3, ActivityPut DEF AddNext, Rests, ConfigInv
  <2>4. CASE \E pair \in a.values : /\ AddEntry(pair[1], pair[2])
                                    /\ Becomes(u, [a EXCEPT !.values = @ \ {pair}])
    <3>1. PICK pair \in a.values : /\ AddEntry(pair[1], pair[2])
                                   /\ Becomes(u, [a EXCEPT !.values = @ \ {pair}])
      BY <2>4
    <3>2. pair[1] \in Keys /\ pair[2] \in 0 .. MaxWrites
      <4>1. pair \in Keys \X (0 .. MaxWrites)
        BY <2>2, <3>1
      <4> HIDE DEF a
      <4> QED
        BY <4>1
    <3> HIDE DEF a
    <3>3. [a EXCEPT !.values = @ \ {pair}] \in Activities
      BY <2>1, <2>2 DEF Activities, Adders
    <3>4. user' \in [Users -> Activities]
      BY <3>1, <3>3, ActivityPut
    <3>5. cached' \in [Keys -> CacheEntry \union {NoValue}]
      BY <3>1, <3>2, EntryPut
    <3> QED
      BY <1>4, <3>4, <3>5 DEF AddNext, ConfigInv
  <2> QED
    BY <1>4, <2>3, <2>4 DEF AddNext
<1>5. CASE WriteRow(u)
  <2>1. a \in Writers
    BY <1>1, <1>5 DEF WriteRow, Activities, Waiting, Lookers, Adders
  <2>2. a.key \in Keys /\ a.value \in 0 .. MaxWrites
    BY <2>1 DEF Writers
  <2>3. user' \in [Users -> Activities]
    BY <1>1, <1>5, ActivityPut DEF WriteRow, Rests
  <2>4. stored' \in [Keys -> 0 .. MaxWrites] /\ autoload' \subseteq Keys /\ public' \subseteq Keys
    BY <1>5, <2>2 DEF WriteRow, Flag, ConfigInv
  <2> QED
    BY <1>5, <2>3, <2>4 DEF WriteRow, ConfigInv
<1> QED
  BY <1>2, <1>3, <1>4, <1>5 DEF UserProceeds

LEMMA ConfigStep == ConfigInv /\ [ConfigNext]_configVars => ConfigInv'
<1> SUFFICES ASSUME ConfigInv, [ConfigNext]_configVars PROVE ConfigInv'
  OBVIOUS
<1>1. CASE ConfigNext
  BY <1>1, KeyStep, UserStep, LoadStep, ProceedStep DEF ConfigNext
<1>2. CASE UNCHANGED configVars
  BY <1>2 DEF configVars, ConfigInv
<1> QED
  BY <1>1, <1>2

LEMMA ConfigTyped == ConfigInv => ConfigTypeOK
<1>1. ConfigInv => writes \in 0 .. MaxWrites
  BY ConfigAssumption DEF ConfigInv
<1> QED
  BY <1>1 DEF ConfigInv, ConfigTypeOK

LEMMA ConfigInvariant == ConfigSpec => []ConfigInv
BY ConfigStart, ConfigStep, PTL DEF ConfigSpec
==============================================================================
