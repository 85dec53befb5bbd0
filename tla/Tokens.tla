------------------------------- MODULE Tokens -------------------------------
(***************************************************************************)
(* Access and refresh tokens (src/token/jwt.go).  Nothing is stored: what  *)
(* a token may still do follows from its claims and the clock.  Signatures *)
(* and encodings are abstract: a token is accepted by an instance with the *)
(* secret and the encryption it was made with.  A call reads the clock     *)
(* when it verifies a token and again for each token that it makes: time   *)
(* may pass between these steps, and other calls are made meanwhile.       *)
(***************************************************************************)
EXTENDS Integers, Sequences

CONSTANTS TokenUsers, Instances, AccessExpire, RefreshExpire, LastSecond, MaxTokens

\* An instance: its secret, and the length of its encryption key, 0 for none.
ASSUME TokensAssumption ==
  /\ \A i \in Instances : DOMAIN i = {"secret", "keyLength"}
  /\ AccessExpire \in Int /\ RefreshExpire \in Int
  /\ LastSecond \in Nat /\ MaxTokens \in Nat

VARIABLES
  second,     \* time.Now().Unix()
  issued,     \* history: the tokens that calls have returned
  calls,      \* the calls that are generating tokens (calls alike are one: they make the same)
  promised,   \* history: how many tokens they have returned or will
  logins      \* history: users that have logged in, and when

tokenVars == <<second, issued, calls, promised, logins>>

\* A length of 0 is taken for the default.
accessTokenExpire  == IF AccessExpire = 0 THEN 3600 ELSE AccessExpire
refreshTokenExpire == IF RefreshExpire = 0 THEN 604800 ELSE RefreshExpire

TokensInit == second = 0 /\ issued = {} /\ calls = {} /\ promised = 0 /\ logins = {}

-----------------------------------------------------------------------------
CanEncrypt(i) == i.keyLength \in {0, 16, 24, 32}

\* The claims of a token; parent is the refresh token that was presented.
Claims(i, user, type, at, parent) ==
  [by |-> i, user |-> user, type |-> type, iat |-> at,
   exp |-> at + (IF type = "access" THEN accessTokenExpire ELSE refreshTokenExpire),
   parent |-> parent]

\* A call that is to generate tokens of these types, one after the other.
Generating(i, user, parent, types) ==
  /\ CanEncrypt(i) /\ promised + Len(types) <= MaxTokens
  /\ promised' = promised + Len(types)
  /\ calls' = calls \union {[by |-> i, user |-> user, parent |-> parent,
                             types |-> types, made |-> {}]}

GenerateTokenPair(i, user, parent)   == Generating(i, user, parent, <<"access", "refresh">>)
GenerateAccessToken(i, user, parent) == Generating(i, user, parent, <<"access">>)

\* The clock is read for the next token; after the last one the call returns.
IssueToken(call) ==
  /\ LET made == call.made \union
                   {Claims(call.by, call.user, Head(call.types), second, call.parent)} IN
     IF Len(call.types) = 1
     THEN issued' = issued \union made /\ calls' = calls \ {call}
     ELSE /\ calls' = (calls \ {call}) \union
                        {[call EXCEPT !.types = Tail(call.types), !.made = made]}
          /\ UNCHANGED issued
  /\ UNCHANGED <<second, promised, logins>>

-----------------------------------------------------------------------------
\* The signature covers header and payload; a payload that is encrypted for
\* one and not for the other, or with another key, is no JSON.
verify(i, token) ==
  /\ i.secret = token.by.secret /\ i.keyLength = token.by.keyLength
  /\ second <= token.exp

VerifyAccessToken(i, token)  == verify(i, token) /\ token.type = "access"

\* Fault for RecordsAreTrue: the type is not looked at.
VerifyAnyToken(i, token) == verify(i, token)

VerifyRefreshToken(i, token) == verify(i, token) /\ token.type = "refresh"

\* Without looking at the signature.
GetExpirationTime(token) == token.exp
IsExpired(token) == second > GetExpirationTime(token)
ShouldRefresh(token, threshold) == GetExpirationTime(token) - second < threshold

-----------------------------------------------------------------------------
Root == [user |-> "nobody"]

Login(i, user) ==
  /\ GenerateTokenPair(i, user, Root)
  /\ logins' = logins \union {<<user, second>>}
  /\ UNCHANGED <<second, issued>>

\* The parent is kept by its claims and by when it was presented.
Trace(token) == [user |-> token.user, type |-> token.type, iat |-> token.iat, exp |-> token.exp,
                 presented |-> second]

RefreshToken(i, token) ==
  /\ VerifyRefreshToken(i, token)
  /\ GenerateTokenPair(i, token.user, Trace(token))
  /\ UNCHANGED <<second, issued, logins>>

RefreshAccessToken(i, token) ==
  /\ VerifyRefreshToken(i, token)
  /\ GenerateAccessToken(i, token.user, Trace(token))
  /\ UNCHANGED <<second, issued, logins>>

SecondPasses ==
  /\ second < LastSecond
  /\ second' = second + 1
  /\ UNCHANGED <<issued, calls, promised, logins>>

TokensNext ==
  \/ SecondPasses
  \/ \E call \in calls : IssueToken(call)
  \/ \E i \in Instances :
       \/ \E user \in TokenUsers : Login(i, user)
       \/ \E token \in issued : RefreshToken(i, token) \/ RefreshAccessToken(i, token)

TokensSpec == TokensInit /\ [][TokensNext]_tokenVars

-----------------------------------------------------------------------------
TokensTypeOK == second \in 0 .. LastSecond /\ promised \in 0 .. MaxTokens

(***************************************************************************)
(* TokensLive (verify, RefreshToken, ShouldRefresh): a token that is       *)
(* accepted belongs to a user who logged in, was issued no longer ago than *)
(* its kind lives, and if it came of another one, that was a refresh token *)
(* of the same user that was presented while it was alive and no later     *)
(* than the token was issued - which may be after its parent has expired,  *)
(* for the clock goes on between verifying and issuing; and while          *)
(* ShouldRefresh has not said so, a token is accepted and not expired.     *)
(***************************************************************************)
TokensLive == \A token \in issued, i \in Instances :
  /\ VerifyAccessToken(i, token) \/ VerifyRefreshToken(i, token) =>
       /\ \E login \in logins : login[1] = token.user /\ login[2] <= token.iat
       /\ second - token.iat <=
            (IF VerifyAccessToken(i, token) THEN accessTokenExpire ELSE refreshTokenExpire)
       /\ token.parent # Root =>
            /\ token.parent.type = "refresh" /\ token.parent.user = token.user
            /\ token.parent.presented \in token.parent.iat .. token.parent.exp
            /\ token.parent.presented <= token.iat
  /\ i = token.by /\ ~ShouldRefresh(token, 0) => verify(i, token) /\ ~IsExpired(token)
=============================================================================
