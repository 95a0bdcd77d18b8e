--------------------------- MODULE ProviderLogout ---------------------------
(***************************************************************************)
(* How signing out of one device session goes on to the identity provider  *)
(* (services/identity_logout.py, provider_logout_continuations.py).  A     *)
(* login leaves a sealed hint in a continuation, a recent authentication   *)
(* replaces it, a sign-out prepares it for one browser secret, and the     *)
(* browser that returns with that secret spends it.                        *)
(***************************************************************************)
EXTENDS Integers

CONSTANTS
  Continuations,   \* provider_logout_continuation rows, numbered as they are made
  SignOuts,        \* POST /logout requests; each names the browser secret it makes
  Followers,       \* GET /logout/provider requests in flight at once
  NoSignOut

ASSUME ContinuationsAssumption == Continuations \subseteq Nat \ {0}
ASSUME NoSignOutAssumption     == NoSignOut \notin SignOuts

VARIABLES
  device,    \* status of the device session
  cont,      \* the rows
  spent,     \* history: how often a browser was sent to the provider with a row's hint
  signing,   \* sign-outs
  following  \* followers: the cookie that was found good, or NoCookie

logoutVars == <<device, cont, spent, signing, following>>

Continuation ==
  [ status : {"absent", "available", "prepared", "consumed", "superseded"},
    hint   : BOOLEAN,                      \* sealed_provider_hint is not None
    secret : SignOuts \cup {NoSignOut},    \* browser_secret_hash
    fresh  : BOOLEAN ]                     \* the secret has not expired
Absent == [status |-> "absent", hint |-> FALSE, secret |-> NoSignOut, fresh |-> FALSE]
Sealed == [Absent EXCEPT !.status = "available", !.hint = TRUE]

NoCookie == [cont |-> 0, secret |-> NoSignOut]
Cookie   == [cont : Continuations, secret : SignOuts] \cup {NoCookie}
SignOut  == [pc : {"idle", "revoke", "redirect", "done"}, cont : Continuations \cup {0}]

LogoutInit ==
  /\ device = "none"
  /\ cont = [c \in Continuations |-> Absent]
  /\ spent = [c \in Continuations |-> 0]
  /\ signing = [q \in SignOuts |-> [pc |-> "idle", cont |-> 0]]
  /\ following = [f \in Followers |-> NoCookie]

Available(c)  == cont[c].status = "available" /\ cont[c].hint
IsNewest(c)   == Available(c) /\ \A d \in Continuations : Available(d) => d <= c
IsNextRow(c)  == cont[c] = Absent /\ \A d \in Continuations : d < c => cont[d] # Absent

\* complete_login_callback makes session and row in one commit; without a hint, no row.
SignIn ==
  /\ device = "none"
  /\ device' = "active"
  /\ \/ \E c \in Continuations : IsNextRow(c) /\ cont' = [cont EXCEPT ![c] = Sealed]
     \/ UNCHANGED cont
  /\ UNCHANGED <<spent, signing, following>>

\* replace_provider_logout_continuation, in the commit of a recent authentication, which is
\* guarded by the session's status; the provider may give no hint.
ReplaceContinuation ==
  LET superseded(row) == IF row.status = "available"
                           THEN [row EXCEPT !.status = "superseded", !.hint = FALSE] ELSE row
  IN /\ device = "active"
     /\ \/ \E c \in Continuations :
             /\ IsNextRow(c)
             /\ cont' = [d \in Continuations |-> IF d = c THEN Sealed ELSE superseded(cont[d])]
        \/ cont' = [d \in Continuations |-> superseded(cont[d])]
     /\ UNCHANGED <<device, spent, signing, following>>

\* The request is authenticated and reads the newest continuation.
BeginSignOut(q) ==
  /\ signing[q].pc = "idle" /\ device = "active"
  /\ \/ \E c \in Continuations :
          IsNewest(c) /\ signing' = [signing EXCEPT ![q] = [pc |-> "revoke", cont |-> c]]
     \/ /\ \A c \in Continuations : ~Available(c)
        /\ signing' = [signing EXCEPT ![q].pc = "revoke"]
  /\ UNCHANGED <<device, cont, spent, following>>

\* The local session ends first, in a commit of its own.
RevokeDevice(q) ==
  /\ signing[q].pc = "revoke"
  /\ device' = "revoked"
  /\ signing' = [signing EXCEPT ![q].pc = "redirect"]
  /\ UNCHANGED <<cont, spent, following>>

\* The provider can be asked for a redirect: the row, by id and whatever has become of it,
\* is prepared for this browser.
PrepareRedirect(q) ==
  /\ signing[q].pc = "redirect" /\ signing[q].cont # 0
  /\ cont' = [cont EXCEPT ![signing[q].cont].status = "prepared",
                          ![signing[q].cont].secret = q, ![signing[q].cont].fresh = TRUE]
  /\ signing' = [signing EXCEPT ![q].pc = "done"]
  /\ UNCHANGED <<device, spent, following>>

\* It cannot, or there is no hint: the row is used up.
SkipRedirect(q) ==
  /\ signing[q].pc = "redirect"
  /\ cont' = [c \in Continuations |->
                IF c = signing[q].cont THEN [Absent EXCEPT !.status = "consumed"] ELSE cont[c]]
  /\ signing' = [signing EXCEPT ![q].pc = "done", ![q].cont = 0]
  /\ UNCHANGED <<device, spent, following>>

\* A browser returns with the cookie of a sign-out, any number of times.
Follow(f, q) ==
  LET c == signing[q].cont
  IN /\ following[f] = NoCookie
     /\ signing[q].pc = "done" /\ c # 0
     /\ cont[c].status = "prepared" /\ cont[c].hint /\ cont[c].fresh /\ cont[c].secret = q
     /\ following' = [following EXCEPT ![f] = [cont |-> c, secret |-> q]]
     /\ UNCHANGED <<device, cont, spent, signing>>

\* What the guarded UPDATE of continue_provider_logout leaves, and whether the browser is
\* sent on: a provider that refuses costs the hint as well.
Consumed(c) ==
  /\ cont' = [cont EXCEPT ![c] = [Absent EXCEPT !.status = "consumed"]]
  /\ \E sent \in {0, 1} : spent' = [spent EXCEPT ![c] = @ + sent]

\* Bug: the row is consumed by its id alone.
ConsumeById(f) ==
  /\ following[f] # NoCookie
  /\ Consumed(following[f].cont)
  /\ following' = [following EXCEPT ![f] = NoCookie]
  /\ UNCHANGED <<device, signing>>

ConsumeContinuation(f) ==
  LET c == following[f].cont
  IN /\ following[f] # NoCookie
     /\ IF cont[c].status = "prepared" /\ cont[c].secret = following[f].secret
          THEN Consumed(c)
          ELSE UNCHANGED <<cont, spent>>
     /\ following' = [following EXCEPT ![f] = NoCookie]
     /\ UNCHANGED <<device, signing>>

SecretExpires(c) ==
  /\ cont[c].fresh
  /\ cont' = [cont EXCEPT ![c].fresh = FALSE]
  /\ UNCHANGED <<device, spent, signing, following>>

\* The session is revoked from another device, by the synchronization or by a rollback.
RevokedElsewhere ==
  /\ device = "active"
  /\ device' = "revoked"
  /\ UNCHANGED <<cont, spent, signing, following>>

\* A process dies between two commits; its browser gets no cookie.
SignOutDies(q) ==
  /\ signing[q].pc \in {"revoke", "redirect"}
  /\ signing' = [signing EXCEPT ![q] = [pc |-> "done", cont |-> 0]]
  /\ UNCHANGED <<device, cont, spent, following>>

LogoutNext ==
  \/ SignIn \/ ReplaceContinuation \/ RevokedElsewhere
  \/ \E q \in SignOuts :
       BeginSignOut(q) \/ RevokeDevice(q) \/ PrepareRedirect(q) \/ SkipRedirect(q) \/ SignOutDies(q)
  \/ \E f \in Followers : ConsumeContinuation(f) \/ \E q \in SignOuts : Follow(f, q)
  \/ \E c \in Continuations : SecretExpires(c)

LogoutSpec == LogoutInit /\ [][LogoutNext]_logoutVars

-----------------------------------------------------------------------------
LogoutTypeOK ==
  /\ device \in {"none", "active", "revoked"}
  /\ cont \in [Continuations -> Continuation]
  /\ spent \in [Continuations -> Nat]
  /\ signing \in [SignOuts -> SignOut]
  /\ following \in [Followers -> Cookie]

\* "A server-side, single-use Sign Out record"; "superseded or consumed hints are erased":
\* whatever sign-outs, recent authentications and returning browsers overlap, a hint goes to
\* the provider once at most, after the local session was revoked, and is erased by then.
HintSpentOnce ==
  \A c \in Continuations :
    /\ spent[c] <= 1
    /\ spent[c] = 1 => ~cont[c].hint /\ device = "revoked"
    /\ cont[c].hint => cont[c].status \in {"available", "prepared"}
=============================================================================
