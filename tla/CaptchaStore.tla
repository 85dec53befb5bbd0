---------------------------- MODULE CaptchaStore ----------------------------
(***************************************************************************)
(* The captcha manager and its memory store (src/captcha).  A verification *)
(* reads, compares and deletes in three critical sections, Get changes its *)
(* read lock for a write lock when it meets an expired entry, and every    *)
(* Set starts a goroutine that removes what has expired.                   *)
(***************************************************************************)
EXTENDS Naturals, FiniteSets

CONSTANTS Ids, Clients, MaxCaptchas, MaxTime, Expiration, NoEntry

ASSUME CaptchaAssumption == MaxCaptchas \in Nat /\ MaxTime \in Nat /\ Expiration \in Nat

VARIABLES
  entries,     \* MemoryStore.data
  clock,
  made,        \* history: captchas made so far; a captcha is its number
  cleaners,    \* cleanup goroutines that have not run yet
  client,      \* what each caller of the manager is doing
  accepted     \* history: captchas for which a Verify has answered true

captchaVars == <<entries, clock, made, cleaners, client, accepted>>

CaptchaKinds == {"image", "click"}
CaptchaEntry == [captcha : 1 .. MaxCaptchas, kind : CaptchaKinds, expires : 0 .. MaxTime + Expiration]
NotVerifying == [doing |-> "nothing"]

CaptchaInit ==
  /\ entries = [id \in Ids |-> NoEntry]
  /\ clock = 0 /\ made = 0 /\ cleaners = 0
  /\ client = [c \in Clients |-> NotVerifying]
  /\ accepted = {}

-----------------------------------------------------------------------------
\* The random ids are not checked against those in use.
SetCaptcha(id, entry) ==
  /\ entries' = [entries EXCEPT ![id] = entry]
  /\ cleaners' = cleaners + 1

Generate(kind, id) ==
  /\ made < MaxCaptchas
  /\ made' = made + 1
  /\ SetCaptcha(id, [captcha |-> made + 1, kind |-> kind, expires |-> clock + Expiration])
  /\ UNCHANGED <<clock, client, accepted>>

Expired(entry) == clock > entry.expires

cleanup ==
  /\ cleaners > 0
  /\ cleaners' = cleaners - 1
  /\ entries' = [id \in Ids |->
       IF entries[id] # NoEntry /\ Expired(entries[id]) THEN NoEntry ELSE entries[id]]
  /\ UNCHANGED <<clock, made, client, accepted>>

-----------------------------------------------------------------------------
(***************************************************************************)
(* Manager.Verify picks the captcha by type and refuses a payload that is  *)
(* not of that type; the pre-check also takes a list of decoded points.    *)
(***************************************************************************)
Payload == [image |-> {"string"}, click |-> {"points"}]
PreCheckPayload == [image |-> {"string"}, click |-> {"points", "decoded"}]

\* The client's answer is the right one for captcha `answer`, and one of kind
\* `kind`; the comparison of another kind is false.
BeginVerify(c, keep, kind, payload, id, answer) ==
  /\ client[c] = NotVerifying
  /\ payload \in (IF keep THEN PreCheckPayload ELSE Payload)[kind]
  /\ client' = [client EXCEPT ![c] =
       [doing |-> "get", keep |-> keep, kind |-> kind, id |-> id, answer |-> answer]]
  /\ UNCHANGED <<entries, clock, made, cleaners, accepted>>

Matches(request, entry) ==
  request.kind = entry.kind /\ request.answer = entry.captcha

FinishVerify(c) == client' = [client EXCEPT ![c] = NotVerifying]
VerifyGoesOn(c, what) == client' = [client EXCEPT ![c].doing = what]

\* Get with the comparison that follows it; what they find decides the rest.
GetCaptcha(c) ==
  /\ client[c].doing = "get"
  /\ LET entry == entries[client[c].id] IN
     \/ entry = NoEntry /\ FinishVerify(c)
     \/ entry # NoEntry /\ Expired(entry) /\ VerifyGoesOn(c, "purge")
     \/ entry # NoEntry /\ ~Expired(entry) /\ ~Matches(client[c], entry) /\ FinishVerify(c)
     \/ entry # NoEntry /\ ~Expired(entry) /\ Matches(client[c], entry)
          /\ IF client[c].keep THEN FinishVerify(c) ELSE VerifyGoesOn(c, "delete")
  /\ UNCHANGED <<entries, clock, made, cleaners, accepted>>

DeleteCaptcha(id) == entries' = [entries EXCEPT ![id] = NoEntry]

\* Get gave up its read lock: what it removes need not be what it saw.
Purge(c) ==
  /\ client[c].doing = "purge"
  /\ DeleteCaptcha(client[c].id)
  /\ FinishVerify(c)
  /\ UNCHANGED <<clock, made, cleaners, accepted>>

\* Fault for AcceptedIsGone: the accepted captcha is left in the store.
AcceptAndKeep(c) ==
  /\ client[c].doing = "delete"
  /\ accepted' = accepted \union {client[c].answer}
  /\ FinishVerify(c)
  /\ UNCHANGED <<entries, clock, made, cleaners>>

Accept(c) ==
  /\ client[c].doing = "delete"
  /\ DeleteCaptcha(client[c].id)
  /\ accepted' = accepted \union {client[c].answer}
  /\ FinishVerify(c)
  /\ UNCHANGED <<clock, made, cleaners>>

TimePasses ==
  /\ clock < MaxTime
  /\ clock' = clock + 1
  /\ UNCHANGED <<entries, made, cleaners, client, accepted>>

CaptchaNext ==
  \/ \E kind \in CaptchaKinds, id \in Ids : Generate(kind, id)
  \/ cleanup
  \/ TimePasses
  \/ \E c \in Clients :
       \/ \E keep \in BOOLEAN, kind \in CaptchaKinds, payload \in {"string", "points", "decoded"},
             id \in Ids, answer \in 1 .. MaxCaptchas :
            BeginVerify(c, keep, kind, payload, id, answer)
       \/ GetCaptcha(c) \/ Purge(c) \/ Accept(c)

CaptchaSpec == CaptchaInit /\ [][CaptchaNext]_captchaVars

-----------------------------------------------------------------------------
CaptchaTypeOK ==
  /\ entries \in [Ids -> CaptchaEntry \union {NoEntry}]
  /\ clock \in 0 .. MaxTime /\ made \in 0 .. MaxCaptchas /\ cleaners \in Nat
  /\ accepted \subseteq 1 .. MaxCaptchas

Stored == {entries[id].captcha : id \in {i \in Ids : entries[i] # NoEntry}}

(***************************************************************************)
(* AcceptedIsGone (VerifyWithFunc): once an answer has been accepted, the  *)
(* captcha is in the store no more, under no id and for good, whatever     *)
(* other verifications, cleanups and new captchas do meanwhile: an answer  *)
(* given after an accepted one is refused.  (Two answers that overlap may  *)
(* both be accepted: both can have read the entry before it is deleted.)   *)
(***************************************************************************)
AcceptedIsGone ==
  /\ accepted \intersect Stored = {}
  /\ \A id, other \in Ids :
       entries[id] # NoEntry /\ entries[other] # NoEntry
         /\ entries[id].captcha = entries[other].captcha => id = other
=============================================================================
