------------------------------ MODULE Identity ------------------------------
(***************************************************************************)
(* One customer at the identity provider: how the customer gets an account *)
(* and sessions, how a status that the provider reports takes them away,   *)
(* and how an operator gives access back (services/identity_login.py,      *)
(* identity_status_synchronization.py, external_identity_restoration.py,   *)
(* account_link_recovery.py and the request paths of auth_context.py).     *)
(*                                                                         *)
(* A handler asks the provider between its transactions, and the closing   *)
(* transaction of a login callback decides on a row it has read before it  *)
(* writes.  Where overlap is FALSE nothing comes between that read and its *)
(* commit; everything else interleaves in both cases.                      *)
(***************************************************************************)
EXTENDS Integers

CONSTANTS
  Txs,        \* login transactions; a device session is named by the one that created it
  Handlers,   \* requests and sweeps in flight at once
  NoTx,
  NoClaim

ASSUME NoTxAssumption     == NoTx \notin Txs
ASSUME NoClaimAssumption  == NoClaim \notin Handlers

VARIABLES
  overlap,    \* may closing transactions overlap?  (never changes)
  legacy,     \* is there a legacy user with the customer's e-mail?  (never changes)
  provider,   \* the customer's status at the provider
  identity,   \* the external_identity row; link = "none" before it exists
  accounts,   \* history: personal users created for the customer
  recovery,   \* the account_link_recovery row
  apiToken,   \* a workspace API token of the customer is valid
  tx,         \* login_transaction rows
  sess,       \* status of the device_session rows
  made,       \* history: how often a session was created for a transaction
  hd          \* handlers

vars == <<overlap, legacy, provider, identity, accounts, recovery, apiToken, tx, sess, made, hd>>

\* "missing" is treated as "disabled" throughout.
ProviderStatus == {"active", "locked", "disabled"}

Row == [ link   : {"none", "personal", "legacy"},     \* whose user_id it has
         status : {"active", "disabled"},
         token  : Handlers \cup {NoClaim},            \* status_check_token
         due    : BOOLEAN ]                           \* last checked five minutes ago
NoRow == [ link |-> "none", status |-> "active", token |-> NoClaim, due |-> FALSE ]

Transaction == [ status : {"absent", "pending", "processing", "completed", "rejected"},
                 for    : Txs \cup {NoTx} ]   \* recent authentication: requested_session_id

Handler == [ pc : {"idle", "claim", "exchange", "ask", "load", "decide", "reject",
                   "check", "apply", "failed", "restorable", "restore", "link"},
             tx : Txs \cup {NoTx}, answer : ProviderStatus, saw : Row ]
Idle == [ pc |-> "idle", tx |-> NoTx, answer |-> "active", saw |-> NoRow ]

Init == /\ overlap \in BOOLEAN
        /\ legacy \in BOOLEAN
        /\ provider = "active"
        /\ identity = NoRow
        /\ accounts = 0
        /\ recovery = "none"
        /\ apiToken \in {FALSE, legacy}
        /\ tx = [t \in Txs |-> [status |-> "absent", for |-> NoTx]]
        /\ sess = [t \in Txs |-> "none"]
        /\ made = [t \in Txs |-> 0]
        /\ hd = [h \in Handlers |-> Idle]

Finish(h)    == hd' = [hd EXCEPT ![h] = Idle]
Goto(h, pc)  == hd' = [hd EXCEPT ![h].pc = pc]
Ends(h, st)  == tx' = [tx EXCEPT ![hd[h].tx].status = st]

-----------------------------------------------------------------------------
(***************************************************************************)
(* What a confirmed status does.                                           *)
(***************************************************************************)
\* Bug: the provider's word is taken over as it is.
LocalStatusRaw(st) == st

\* Only disabled and missing block the row; a locked customer may try again.
LocalStatus(st) == IF st = "disabled" THEN "disabled" ELSE "active"

\* Bug: a locked customer keeps the credentials.
RevokeIfDisabled(st) ==
  /\ sess' = IF st # "disabled" THEN sess
             ELSE [t \in Txs |-> IF sess[t] = "active" THEN "revoked" ELSE sess[t]]
  /\ apiToken' = (apiToken /\ st # "disabled")

\* Anything but active revokes every session and every API token, in the same commit.
RevokeUnlessActive(st) ==
  /\ sess' = IF st = "active" THEN sess
             ELSE [t \in Txs |-> IF sess[t] = "active" THEN "revoked" ELSE sess[t]]
  /\ apiToken' = (apiToken /\ st = "active")

\* record_confirmed_identity_status assigns to the loaded row: what is assigned unchanged
\* is not written.  It never makes a row active.
RecordConfirmed(saw, st) ==
  identity' = [identity EXCEPT
    !.due    = FALSE,
    !.token  = IF saw.token = NoClaim THEN @ ELSE NoClaim,
    !.status = IF st = "disabled" /\ saw.status # "disabled" THEN "disabled" ELSE @]

-----------------------------------------------------------------------------
(***************************************************************************)
(* Login and recent authentication.                                        *)
(***************************************************************************)
StartLogin(t) ==
  /\ tx[t].status = "absent"
  /\ tx' = [tx EXCEPT ![t].status = "pending"]
  /\ UNCHANGED <<overlap, legacy, provider, identity, accounts, recovery, apiToken, sess, made, hd>>

StartRecentAuthentication(t, s) ==
  /\ tx[t].status = "absent" /\ sess[s] = "active"
  /\ tx' = [tx EXCEPT ![t] = [status |-> "pending", for |-> s]]
  /\ UNCHANGED <<overlap, legacy, provider, identity, accounts, recovery, apiToken, sess, made, hd>>

\* The callback finds a pending transaction: it is to be claimed, or rejected as expired or
\* as another browser's.
Callback(h, t) ==
  /\ hd[h] = Idle /\ tx[t].status = "pending"
  /\ \E pc \in {"claim", "reject"} : hd' = [hd EXCEPT ![h].pc = pc, ![h].tx = t]
  /\ UNCHANGED <<overlap, legacy, provider, identity, accounts, recovery, apiToken, tx, sess, made>>

\* The provider reports an error instead of a code: what is pending is rejected, and what
\* another request is processing by now as well.
ProviderRefuses(h, t) ==
  /\ hd[h] = Idle /\ tx[t].status \in {"pending", "processing"}
  /\ hd' = [hd EXCEPT ![h].pc = "reject", ![h].tx = t]
  /\ UNCHANGED <<overlap, legacy, provider, identity, accounts, recovery, apiToken, tx, sess, made>>

\* Bug: the transaction is claimed whatever has become of it.
ClaimAlways(h) ==
  /\ hd[h].pc = "claim"
  /\ Ends(h, "processing") /\ Goto(h, "exchange")
  /\ UNCHANGED <<overlap, legacy, provider, identity, accounts, recovery, apiToken, sess, made>>

\* A guarded UPDATE: one of several callbacks wins, the others are answered 409.
ClaimTransaction(h) ==
  /\ hd[h].pc = "claim"
  /\ IF tx[hd[h].tx].status = "pending"
       THEN Ends(h, "processing") /\ Goto(h, "exchange")
       ELSE Finish(h) /\ UNCHANGED tx
  /\ UNCHANGED <<overlap, legacy, provider, identity, accounts, recovery, apiToken, sess, made>>

\* The code is exchanged and the ID token validated; any failure rejects.
Exchange(h) ==
  /\ hd[h].pc = "exchange"
  /\ Goto(h, "ask") \/ Goto(h, "reject")
  /\ UNCHANGED <<overlap, legacy, provider, identity, accounts, recovery, apiToken, tx, sess, made>>

AskStatus(h) ==
  /\ hd[h].pc = "ask"
  /\ \/ hd' = [hd EXCEPT ![h].pc = "load", ![h].answer = provider]
     \/ Goto(h, "reject")
  /\ UNCHANGED <<overlap, legacy, provider, identity, accounts, recovery, apiToken, tx, sess, made>>

\* The row is read only after the provider has answered.
LoadIdentity(h) ==
  /\ hd[h].pc = "load"
  /\ hd' = [hd EXCEPT ![h].pc = "decide", ![h].saw = identity]
  /\ UNCHANGED <<overlap, legacy, provider, identity, accounts, recovery, apiToken, tx, sess, made>>

\* _reject_callback writes by id what it found pending or processing.
Reject(h) ==
  /\ hd[h].pc = "reject"
  /\ Ends(h, "rejected") /\ Finish(h)
  /\ UNCHANGED <<overlap, legacy, provider, identity, accounts, recovery, apiToken, sess, made>>

\* The customer is locked, disabled or missing: recorded on a known identity, and rejected.
RejectInactive(h) ==
  /\ hd[h].pc = "decide" /\ hd[h].answer # "active"
  /\ IF hd[h].saw.link = "none"
       THEN UNCHANGED <<identity, sess, apiToken>>
       ELSE RecordConfirmed(hd[h].saw, hd[h].answer) /\ RevokeUnlessActive(hd[h].answer)
  /\ Ends(h, "rejected") /\ Finish(h)
  /\ UNCHANGED <<overlap, legacy, provider, accounts, recovery, made>>

Deciding(h) == hd[h].pc = "decide" /\ hd[h].answer = "active"
IsLogin(h)  == tx[hd[h].tx].for = NoTx

\* Not admitted by the rollout, not verified by e-mail, no active account.
Deny(h) ==
  /\ Deciding(h)
  /\ Ends(h, "rejected") /\ Finish(h)
  /\ UNCHANGED <<overlap, legacy, provider, identity, accounts, recovery, apiToken, sess, made>>

\* The secret of the session is rotated if the session is still active.
CompleteRecentAuthentication(h) ==
  LET saw == hd[h].saw
  IN /\ Deciding(h) /\ ~IsLogin(h)
     /\ IF saw.link # "none" /\ saw.status = "active" /\ sess[tx[hd[h].tx].for] = "active"
          THEN Ends(h, "completed") /\ RecordConfirmed(saw, "active")
          ELSE Ends(h, "rejected") /\ UNCHANGED identity
     /\ Finish(h)
     /\ UNCHANGED <<overlap, legacy, provider, accounts, recovery, apiToken, sess, made>>

\* A legacy user has this e-mail: an operator has to link them.
RequireAccountLink(h) ==
  /\ Deciding(h) /\ IsLogin(h) /\ hd[h].saw.link = "none" /\ legacy
  /\ recovery' = IF recovery = "none" THEN "pending" ELSE recovery
  /\ Ends(h, "rejected") /\ Finish(h)
  /\ UNCHANGED <<overlap, legacy, provider, identity, accounts, apiToken, sess, made>>

NewSession(h) ==
  /\ sess' = [sess EXCEPT ![hd[h].tx] = "active"]
  /\ made' = [made EXCEPT ![hd[h].tx] = @ + 1]
  /\ Ends(h, "completed")

\* User, account, workspace, membership, identity and session in one transaction; the
\* unique constraint on issuer and subject rolls all of it back.
Onboard(h) ==
  /\ Deciding(h) /\ IsLogin(h) /\ hd[h].saw.link = "none" /\ ~legacy
  /\ IF identity.link = "none"
       THEN /\ identity' = [NoRow EXCEPT !.link = "personal"]
            /\ accounts' = accounts + 1
            /\ NewSession(h)
       ELSE /\ tx' = [tx EXCEPT ![hd[h].tx].status = IF @ = "processing" THEN "rejected" ELSE @]
            /\ UNCHANGED <<identity, accounts, sess, made>>
  /\ Finish(h)
  /\ UNCHANGED <<overlap, legacy, provider, recovery, apiToken>>

\* A linked customer: the row's status, as it was read, decides.
LogIn(h) ==
  LET saw == hd[h].saw
  IN /\ Deciding(h) /\ IsLogin(h) /\ saw.link # "none"
     /\ IF saw.status = "active"
          THEN RecordConfirmed(saw, "active") /\ NewSession(h)
          ELSE Ends(h, "rejected") /\ UNCHANGED <<identity, sess, made>>
     /\ Finish(h)
     /\ UNCHANGED <<overlap, legacy, provider, accounts, recovery, apiToken>>

-----------------------------------------------------------------------------
(***************************************************************************)
(* Synchronization of the status, by a request or by the sweep.            *)
(***************************************************************************)
CheckFallsDue ==
  /\ identity.link # "none" /\ ~identity.due
  /\ identity' = [identity EXCEPT !.due = TRUE]
  /\ UNCHANGED <<overlap, legacy, provider, accounts, recovery, apiToken, tx, sess, made, hd>>

HasSession     == \E t \in Txs : sess[t] = "active"
HasCredentials == apiToken \/ HasSession

\* Only a row that is active is ever checked.
ClaimCheck(h) ==
  /\ hd[h] = Idle /\ HasCredentials
  /\ identity.link # "none" /\ identity.status = "active" /\ identity.due
  /\ identity' = [identity EXCEPT !.token = h, !.due = FALSE]
  /\ Goto(h, "check")
  /\ UNCHANGED <<overlap, legacy, provider, accounts, recovery, apiToken, tx, sess, made>>

Answer(h) ==
  /\ hd[h].pc = "check"
  /\ hd' = [hd EXCEPT ![h].pc = "apply", ![h].answer = provider]
  /\ UNCHANGED <<overlap, legacy, provider, identity, accounts, recovery, apiToken, tx, sess, made>>

NoAnswer(h) ==
  /\ hd[h].pc = "check"
  /\ Goto(h, "failed")
  /\ UNCHANGED <<overlap, legacy, provider, identity, accounts, recovery, apiToken, tx, sess, made>>

\* An outage leaves the status as it is.
RecordFailedClaim(h) ==
  /\ hd[h].pc = "failed"
  /\ identity' = IF identity.token = h THEN [identity EXCEPT !.token = NoClaim] ELSE identity
  /\ Finish(h)
  /\ UNCHANGED <<overlap, legacy, provider, accounts, recovery, apiToken, tx, sess, made>>

\* Bug: a result is applied although its claim was overtaken.
ApplyAlways(h) ==
  LET st == hd[h].answer
  IN /\ hd[h].pc = "apply"
     /\ identity' = [identity EXCEPT !.status = LocalStatus(st), !.token = NoClaim, !.due = FALSE]
     /\ RevokeUnlessActive(st)
     /\ Finish(h)
     /\ UNCHANGED <<overlap, legacy, provider, accounts, recovery, tx, made>>

\* Guarded by the claim's token.
ApplyConfirmedClaim(h) ==
  LET st == hd[h].answer
  IN /\ hd[h].pc = "apply"
     /\ IF identity.token = h
          THEN /\ identity' = [identity EXCEPT !.status = LocalStatus(st), !.token = NoClaim,
                                               !.due = FALSE]
               /\ RevokeUnlessActive(st)
          ELSE UNCHANGED <<identity, sess, apiToken>>
     /\ Finish(h)
     /\ UNCHANGED <<overlap, legacy, provider, accounts, recovery, tx, made>>

-----------------------------------------------------------------------------
(***************************************************************************)
(* The operator's restoration and account link.                            *)
(***************************************************************************)
FindRestorable(h) ==
  /\ hd[h] = Idle /\ identity.link # "none" /\ identity.status = "disabled"
  /\ Goto(h, "restorable")
  /\ UNCHANGED <<overlap, legacy, provider, identity, accounts, recovery, apiToken, tx, sess, made>>

AskForRestoration(h) ==
  /\ hd[h].pc = "restorable"
  /\ \/ provider = "active" /\ Goto(h, "restore")
     \/ Finish(h)
  /\ UNCHANGED <<overlap, legacy, provider, identity, accounts, recovery, apiToken, tx, sess, made>>

Restore(h) ==
  /\ hd[h].pc = "restore"
  /\ identity' = IF identity.status = "disabled"
                   THEN [identity EXCEPT !.status = "active", !.token = NoClaim, !.due = FALSE]
                   ELSE identity
  /\ Finish(h)
  /\ UNCHANGED <<overlap, legacy, provider, accounts, recovery, apiToken, tx, sess, made>>

FindLinkable(h) ==
  /\ hd[h] = Idle /\ recovery = "pending" /\ identity.link = "none"
  /\ Goto(h, "link")
  /\ UNCHANGED <<overlap, legacy, provider, identity, accounts, recovery, apiToken, tx, sess, made>>

CreateAccountLink(h) ==
  /\ hd[h].pc = "link"
  /\ IF identity.link = "none"
       THEN identity' = [NoRow EXCEPT !.link = "legacy"] /\ recovery' = "completed"
       ELSE UNCHANGED <<identity, recovery>>
  /\ Finish(h)
  /\ UNCHANGED <<overlap, legacy, provider, accounts, apiToken, tx, sess, made>>

-----------------------------------------------------------------------------
\* Sign-out, or revocation by the customer from another device.
RevokeSession(t) ==
  /\ sess[t] = "active"
  /\ sess' = [sess EXCEPT ![t] = "revoked"]
  /\ UNCHANGED <<overlap, legacy, provider, identity, accounts, recovery, apiToken, tx, made, hd>>

\* The customer keeps this session only.
RevokeOtherSessions(t) ==
  /\ sess[t] = "active"
  /\ sess' = [s \in Txs |-> IF s # t /\ sess[s] = "active" THEN "revoked" ELSE sess[s]]
  /\ UNCHANGED <<overlap, legacy, provider, identity, accounts, recovery, apiToken, tx, made, hd>>

ProviderChanges ==
  /\ \E st \in ProviderStatus \ {provider} : provider' = st
  /\ UNCHANGED <<overlap, legacy, identity, accounts, recovery, apiToken, tx, sess, made, hd>>

Dies(h) ==
  /\ hd[h] # Idle
  /\ Finish(h)
  /\ UNCHANGED <<overlap, legacy, provider, identity, accounts, recovery, apiToken, tx, sess, made>>

\* In a closing transaction: after its reads, before its commit.
Closing(h)     == hd[h].pc \in {"decide", "reject", "link"}
Undisturbed(h) == overlap \/ \A g \in Handlers \ {h} : ~Closing(g)

Decide(h) ==
  \/ RejectInactive(h) \/ Deny(h) \/ CompleteRecentAuthentication(h)
  \/ RequireAccountLink(h) \/ Onboard(h) \/ LogIn(h)

Serve(h) ==
  \/ \E t \in Txs : Callback(h, t) \/ ProviderRefuses(h, t)
  \/ ClaimTransaction(h) \/ Exchange(h) \/ AskStatus(h) \/ LoadIdentity(h) \/ Reject(h) \/ Decide(h)
  \/ ClaimCheck(h) \/ Answer(h) \/ NoAnswer(h) \/ RecordFailedClaim(h) \/ ApplyConfirmedClaim(h)
  \/ FindRestorable(h) \/ AskForRestoration(h) \/ Restore(h)
  \/ FindLinkable(h) \/ CreateAccountLink(h)
  \/ Dies(h)

Others ==
  \/ \E t \in Txs : StartLogin(t) \/ RevokeSession(t) \/ RevokeOtherSessions(t)
  \/ \E t, s \in Txs : StartRecentAuthentication(t, s)
  \/ CheckFallsDue
  \/ ProviderChanges

Next ==
  \/ \E h \in Handlers : Undisturbed(h) /\ Serve(h)
  \/ (overlap \/ \A h \in Handlers : ~Closing(h)) /\ Others

Spec == Init /\ [][Next]_vars

(***************************************************************************)
(* Every request ends.  The sweep (maintain_identity_status_synchroniza-   *)
(* tion) visits the customers that have a session and never stops, and     *)
(* although a query may fail, be overtaken or die with its process, not    *)
(* all of them do.                                                         *)
(***************************************************************************)
Current(h) == identity.token = h

Fairness ==
  /\ WF_vars(CheckFallsDue)
  /\ \A h \in Handlers : WF_vars(hd[h] # Idle /\ Undisturbed(h) /\ Serve(h))
  /\ SF_vars(\E h \in Handlers : Undisturbed(h) /\ HasSession /\ ClaimCheck(h))
  /\ SF_vars(\E h \in Handlers : Undisturbed(h) /\ Current(h) /\ Answer(h))
  /\ SF_vars(\E h \in Handlers : Undisturbed(h) /\ Current(h) /\ ApplyConfirmedClaim(h))

FairSpec == Spec /\ Fairness

-----------------------------------------------------------------------------
(***************************************************************************)
(* Properties.                                                             *)
(***************************************************************************)
TypeOK ==
  /\ overlap \in BOOLEAN /\ legacy \in BOOLEAN
  /\ provider \in ProviderStatus
  /\ identity \in Row
  /\ accounts \in Nat
  /\ recovery \in {"none", "pending", "completed"}
  /\ apiToken \in BOOLEAN
  /\ tx \in [Txs -> Transaction]
  /\ sess \in [Txs -> {"none", "active", "revoked"}]
  /\ made \in [Txs -> Nat]
  /\ hd \in [Handlers -> Handler]

\* complete_login_callback, _create_personal_onboarding, create_account_link: a transaction
\* yields one session at most, however its callback is repeated; a customer gets one
\* account at most, and never a personal one beside the legacy one; a recovery is used up
\* exactly by the link it was made for.
EverythingOnce ==
  /\ \A t \in Txs : made[t] <= 1
  /\ accounts = IF identity.link = "personal" THEN 1 ELSE 0
  /\ identity.link = "personal" => ~legacy
  /\ recovery = "completed" <=> identity.link = "legacy"

Blocked == identity.status = "disabled"

\* "A disabled or missing identity requires an operator restoration before any fresh login;
\* restoration never revives revoked credentials": a blocked customer has no session and no
\* API token, and only restore_external_identity ends it, whichever stale answer of the
\* provider is applied meanwhile.  With overlapping closing transactions both fail.
BlockedUntilRestored ==
  /\ [](~overlap /\ Blocked => ~HasCredentials)
  /\ [][~overlap /\ Blocked /\ ~Blocked' => \E h \in Handlers : Restore(h)]_vars

\* synchronize_active_device_session_users: a customer whom the provider has locked or
\* disabled for good loses every session, without a request of the customer's.
BlockedLosesAccess ==
  (~overlap /\ <>[](provider # "active")) => <>[]~HasSession
=============================================================================
