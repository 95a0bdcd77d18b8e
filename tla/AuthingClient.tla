---------------------------- MODULE AuthingClient ----------------------------
(***************************************************************************)
(* What the threads of one API process share when they call Authing        *)
(* (services/authing_ciam_provider.py): the signing keys, fetched outside  *)
(* the lock and stored by whoever is done, and the management token,       *)
(* fetched under the lock.  The provider rotates keys, under a new key id  *)
(* or an old one, and ends tokens when it likes.                           *)
(***************************************************************************)
EXTENDS Integers

CONSTANTS
  KeyIds,
  MaxKeys,      \* keys that the provider makes
  MaxTokens,    \* management tokens that it issues
  Threads,
  NoThread,
  NoKeyId

ASSUME MaxKeysAssumption   == MaxKeys \in Nat
ASSUME MaxTokensAssumption == MaxTokens \in Nat
ASSUME NoThreadAssumption  == NoThread \notin Threads
ASSUME NoKeyIdAssumption   == NoKeyId \notin KeyIds

VARIABLES
  published,   \* the provider's signing keys, by key id; 0: none
  lastKey,     \* the newest key
  issued,      \* the newest management token
  valid,       \* the tokens that the provider accepts
  jwks,        \* _jwks_by_kid; NoKeys before the first
  current,     \* now < _jwks_expires_at
  management,  \* _management_token; 0: none
  lock,        \* who holds _cache_lock across a request
  thread       \* calls in progress

clientVars == <<published, lastKey, issued, valid, jwks, current, management, lock, thread>>
upstream   == <<published, lastKey, issued, valid>>
caches     == <<jwks, current, management, lock>>

Keys    == 0 .. MaxKeys
Tokens  == 0 .. MaxTokens
KeySet  == [KeyIds -> Keys]
NoKeys  == [k \in KeyIds |-> 0]

Validating == {"keys", "fetch", "store", "decode"}
Querying   == {"token", "login", "ask", "clear"}
Ended      == {"idle", "refused"}   \* idle: answered as well, or unavailable

Thread == [ pc     : Validating \cup Querying \cup Ended,
            kid    : KeyIds \cup {NoKeyId}, key : Keys,   \* the ID token's header, and what signed it
            try    : {"first", "missing", "again"},   \* why keys or token are loaded
            keys   : KeySet, token : Tokens,          \* what is at hand
            steady : BOOLEAN ]   \* history: the provider has kept the key, or the tokens
Quiet == [pc |-> "idle", kid |-> NoKeyId, key |-> 0, try |-> "first", keys |-> NoKeys,
          token |-> 0, steady |-> TRUE]

ClientInit ==
  /\ published = NoKeys /\ lastKey = 0 /\ issued = 0 /\ valid = {}
  /\ jwks = NoKeys /\ current = FALSE /\ management = 0 /\ lock = NoThread
  /\ thread = [t \in Threads |-> Quiet]

On(t, pc) == thread[t].pc = pc
To(t, pc) == thread' = [thread EXCEPT ![t].pc = pc]
Return(t)      == thread' = [thread EXCEPT ![t] = Quiet]
Answered(t)    == Return(t)   \* _status_from_payload: whatever the answer
Unavailable(t) == Return(t)   \* _request raises
\* A rejection is remembered if the provider has given no cause for it.
Refuse(t) ==
  thread' = [thread EXCEPT ![t] = [Quiet EXCEPT !.pc = IF thread[t].steady THEN "refused" ELSE "idle"]]
Unlocked  == lock = NoThread

-----------------------------------------------------------------------------
(***************************************************************************)
(* validate_id_token.                                                      *)
(***************************************************************************)
BeginValidation(t, k) ==
  /\ thread[t].pc \in Ended /\ published[k] # 0
  /\ thread' = [thread EXCEPT ![t] = [Quiet EXCEPT !.pc = "keys", !.kid = k, !.key = published[k]]]
  /\ UNCHANGED <<upstream, caches>>

\* _load_jwks: cached keys serve unless they have expired or are refreshed; _signing_key
\* refreshes them when the key id is missing.
LoadKeys(t) ==
  LET cached == thread[t].try = "first" /\ jwks # NoKeys /\ current
  IN /\ On(t, "keys") /\ Unlocked
     /\ thread' = [thread EXCEPT
          ![t].pc   = IF ~cached THEN "fetch" ELSE IF jwks[thread[t].kid] # 0 THEN "decode" ELSE "keys",
          ![t].try  = IF cached /\ jwks[thread[t].kid] = 0 THEN "missing" ELSE @,
          ![t].keys = IF cached THEN jwks ELSE @]
     /\ UNCHANGED <<upstream, caches>>

FetchKeys(t) ==
  /\ On(t, "fetch")
  /\ \/ thread' = [thread EXCEPT ![t].pc = "store", ![t].keys = published]
     \/ Unavailable(t)
  /\ UNCHANGED <<upstream, caches>>

\* Whoever stores last wins; the thread goes on with the keys that it fetched.
StoreKeys(t) ==
  LET found == thread[t].keys[thread[t].kid] # 0
      first == thread[t].try = "first"
  IN /\ On(t, "store") /\ Unlocked
     /\ jwks' = thread[t].keys /\ current' = TRUE
     /\ \/ found /\ To(t, "decode")
        \/ ~found /\ first /\ thread' = [thread EXCEPT ![t].pc = "keys", ![t].try = "missing"]
        \/ ~found /\ ~first /\ Refuse(t)
     /\ UNCHANGED <<upstream, management, lock>>

\* Bug: a signature that the cached key does not fit is final.
DecodeOnce(t) ==
  /\ On(t, "decode")
  /\ IF thread[t].keys[thread[t].kid] = thread[t].key THEN Return(t) ELSE Refuse(t)
  /\ UNCHANGED <<upstream, caches>>

\* InvalidSignatureError: once more, with refreshed keys.
Decode(t) ==
  LET fits  == thread[t].keys[thread[t].kid] = thread[t].key
      again == thread[t].try = "again"
  IN /\ On(t, "decode")
     /\ \/ fits /\ Return(t)
        \/ ~fits /\ ~again /\ thread' = [thread EXCEPT ![t].pc = "keys", ![t].try = "again"]
        \/ ~fits /\ again /\ Refuse(t)
     /\ UNCHANGED <<upstream, caches>>

KeysExpire ==
  /\ current
  /\ current' = FALSE
  /\ UNCHANGED <<upstream, jwks, management, lock, thread>>

-----------------------------------------------------------------------------
(***************************************************************************)
(* identity_status.                                                        *)
(***************************************************************************)
BeginQuery(t) ==
  /\ thread[t].pc \in Ended
  /\ thread' = [thread EXCEPT ![t] = [Quiet EXCEPT !.pc = "token"]]
  /\ UNCHANGED <<upstream, caches>>

\* The cached token may be too close to its expiry to be used.
UseToken(t) ==
  /\ On(t, "token") /\ Unlocked
  /\ management # 0 /\ thread[t].try = "first"
  /\ thread' = [thread EXCEPT ![t].pc = "ask", ![t].token = management]
  /\ UNCHANGED <<upstream, caches>>

RequestToken(t) ==
  /\ On(t, "token") /\ Unlocked
  /\ lock' = t /\ To(t, "login")
  /\ UNCHANGED <<upstream, jwks, current, management>>

Login(t) ==
  /\ On(t, "login")
  /\ \/ /\ issued < MaxTokens
        /\ issued' = issued + 1
        /\ valid' = valid \cup {issued'}
        /\ management' = issued'
        /\ thread' = [thread EXCEPT ![t].pc = "ask", ![t].token = issued']
     \/ Unavailable(t) /\ UNCHANGED <<issued, valid, management>>
  /\ lock' = NoThread
  /\ UNCHANGED <<published, lastKey, jwks, current>>

\* 401 asks for a new token, once.
Ask(t) ==
  /\ On(t, "ask")
  /\ \/ thread[t].token \in valid /\ Answered(t)
     \/ thread[t].token \notin valid /\ thread[t].try = "first" /\ To(t, "clear")
     \/ thread[t].token \notin valid /\ thread[t].try # "first" /\ Refuse(t)
     \/ Unavailable(t)
  /\ UNCHANGED <<upstream, caches>>

\* Whatever token is cached by now.
ClearToken(t) ==
  /\ On(t, "clear") /\ Unlocked
  /\ management' = 0
  /\ thread' = [thread EXCEPT ![t].pc = "token", ![t].try = "again"]
  /\ UNCHANGED <<upstream, jwks, current, lock>>

-----------------------------------------------------------------------------
\* A new key, under a free key id or one in use; or a key is withdrawn.
Publish(k, key) ==
  /\ published' = [published EXCEPT ![k] = key]
  /\ \E j \in KeyIds : published'[j] # 0
  /\ thread' = [t \in Threads |->
       [thread[t] EXCEPT !.steady = @ /\ (thread[t].pc \in Validating => published'[thread[t].kid] = thread[t].key)]]
  /\ UNCHANGED <<issued, valid, caches>>

RotateKey(k)   == lastKey < MaxKeys /\ lastKey' = lastKey + 1 /\ Publish(k, lastKey')
WithdrawKey(k) == published[k] # 0 /\ Publish(k, 0) /\ UNCHANGED lastKey

EndTokens(ended) ==
  /\ ended \subseteq valid /\ ended # {}
  /\ valid' = valid \ ended
  /\ thread' = [t \in Threads |-> [thread[t] EXCEPT !.steady = @ /\ thread[t].pc \notin Querying]]
  /\ UNCHANGED <<published, lastKey, issued, caches>>

ClientNext ==
  \/ \E t \in Threads :
       \/ \E k \in KeyIds : BeginValidation(t, k)
       \/ LoadKeys(t) \/ FetchKeys(t) \/ StoreKeys(t) \/ Decode(t)
       \/ BeginQuery(t) \/ UseToken(t) \/ RequestToken(t) \/ Login(t) \/ Ask(t) \/ ClearToken(t)
  \/ KeysExpire
  \/ \E k \in KeyIds : RotateKey(k) \/ WithdrawKey(k)
  \/ \E ended \in SUBSET valid : EndTokens(ended)

ClientSpec == ClientInit /\ [][ClientNext]_clientVars

-----------------------------------------------------------------------------
ClientTypeOK ==
  /\ published \in KeySet /\ lastKey \in Keys
  /\ issued \in Tokens /\ valid \subseteq Tokens
  /\ jwks \in KeySet /\ current \in BOOLEAN /\ management \in Tokens
  /\ lock \in Threads \cup {NoThread}
  /\ thread \in [Threads -> Thread]

\* Whatever other threads fetch, store or drop meanwhile: an ID token is not rejected while
\* its signing key stays published, and a status query is not rejected while the provider
\* ends no token ("refreshes_jwks_when_signing_key_rotates").
SteadyProviderServes == \A t \in Threads : thread[t].pc # "refused"
=============================================================================
