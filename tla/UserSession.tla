---------------------------- MODULE UserSession ----------------------------
(***************************************************************************)
(* One User Session of the Web Console and the browser that holds its      *)
(* cookie (user_session_credentials.py, auth_context.py, the recent        *)
(* authentication of identity_login.py, sign-out, revocation).             *)
(*                                                                         *)
(* The cookie carries a secret.  The server keeps the hash of the current  *)
(* one and of its predecessor, which is accepted for two minutes after a   *)
(* rotation.  Secrets are random and never repeat; the model numbers them  *)
(* in the order they are issued.  Rotations and renewals are conditional   *)
(* UPDATEs; expiry, the reaction to a replay and sign-out are ORM writes   *)
(* by id, made on a row that was read earlier.                             *)
(*                                                                         *)
(* The browser sends whatever its cookie jar holds, in several requests at *)
(* once, and stores the cookie of every response in the order they come.   *)
(* The network never changes during a session; the safety of the row       *)
(* itself is meant to hold for every network.                              *)
(***************************************************************************)
EXTENDS Integers

CONSTANTS
  Requests,      \* requests the browser may have in flight
  MaxSecret,     \* bound of the runs: secrets 0 .. MaxSecret
  Networks       \* what may happen to the session's requests

\* reauth: the user may go through recent authentication; ordered: responses that set the
\* cookie arrive in the order of the rotations; lossy: responses may be lost; prompt: no
\* request or response is still under way when the two minutes end.
ASSUME SecretsAssumption == MaxSecret \in Nat
ASSUME NetworkAssumption ==
  Networks \subseteq [reauth : BOOLEAN, ordered : BOOLEAN, lossy : BOOLEAN, prompt : BOOLEAN]

VARIABLES
  net,     \* the network of this session
  row,     \* the device_session row
  jar,     \* the secret in the browser's cookie jar
  req,     \* requests in flight
  alarm    \* the session was revoked as suspected replay

vars == <<net, row, jar, req, alarm>>

Secrets == 0 .. MaxSecret
None == -1       \* no secret: NULL in the row, no cookie in a response
Deleted == -2    \* the response deletes the cookie

Row == [ status : {"active", "expired", "revoked"},
         cur    : Secrets,               \* secret_hash
         prev   : Secrets \cup {None},   \* previous_secret_hash
         grace  : BOOLEAN,               \* previous_secret_valid_until >= now
         due    : BOOLEAN,               \* secret_rotated_at + 24 hours <= now
         hour   : BOOLEAN,               \* last_seen_at + 1 hour <= now
         idle   : BOOLEAN ]              \* idle_expires_at <= now

\* saw is secret_hash as the recent authentication read it.
Request == [ pc     : {"idle", "sent", "expire", "replay", "rotate", "in", "reauth",
                       "served", "reply"},
             kind   : {"api", "reauth"},
             secret : Secrets,
             saw    : Secrets,
             cookie : Secrets \cup {None, Deleted},
             ok     : BOOLEAN ]

Idle == [pc |-> "idle", kind |-> "api", secret |-> 0, saw |-> 0, cookie |-> None, ok |-> TRUE]

Init == /\ net \in Networks
        /\ row = [ status |-> "active", cur |-> 0, prev |-> None, grace |-> FALSE,
                   due |-> FALSE, hour |-> FALSE, idle |-> FALSE ]
        /\ jar = 0
        /\ req = [q \in Requests |-> Idle]
        /\ alarm = FALSE

-----------------------------------------------------------------------------
At(q, step) == req[q].pc = step
Goto(q, step) == req' = [req EXCEPT ![q].pc = step]
Reject(q) == req' = [req EXCEPT ![q].pc = "reply", ![q].ok = FALSE]

UsesCurrent(q)  == req[q].secret = row.cur
UsesPrevious(q) == req[q].secret = row.prev

\* The browser sends a request with the cookie it has.
Send(q, kind) ==
  /\ At(q, "idle")
  /\ jar # None
  /\ kind = "reauth" => net.reauth
  /\ req' = [req EXCEPT ![q] = [Idle EXCEPT !.pc = "sent", !.kind = kind, !.secret = jar]]
  /\ UNCHANGED <<row, jar, alarm>>

(***************************************************************************)
(* resolve_user_session_credential: one action per outcome, in the order   *)
(* of the tests.                                                           *)
(***************************************************************************)
TurnAway(q) ==
  /\ At(q, "sent")
  /\ \/ row.status # "active"
     \/ /\ ~row.idle
        /\ ~UsesCurrent(q) /\ ~UsesPrevious(q)
  /\ Reject(q)
  /\ UNCHANGED <<row, jar, alarm>>

FindIdle(q) ==
  /\ At(q, "sent")
  /\ row.status = "active" /\ row.idle
  /\ Goto(q, "expire")
  /\ UNCHANGED <<row, jar, alarm>>

Expire(q) ==
  /\ At(q, "expire")
  /\ row' = [row EXCEPT !.status = "expired"]
  /\ Reject(q)
  /\ UNCHANGED <<jar, alarm>>

\* Bug: the previous secret is taken for a replay within its two minutes, too.
FindReplayEarly(q) ==
  /\ At(q, "sent")
  /\ row.status = "active" /\ ~row.idle /\ UsesPrevious(q)
  /\ Goto(q, "replay")
  /\ UNCHANGED <<row, jar, alarm>>

FindReplay(q) ==
  /\ At(q, "sent")
  /\ row.status = "active" /\ ~row.idle /\ UsesPrevious(q) /\ ~row.grace
  /\ Goto(q, "replay")
  /\ UNCHANGED <<row, jar, alarm>>

RevokeReplayed(q) ==
  /\ At(q, "replay")
  /\ row' = [row EXCEPT !.status = "revoked"]
  /\ alarm' = TRUE
  /\ Reject(q)
  /\ UNCHANGED jar

\* Bug: the recent authentication remembers the predecessor instead of the current secret.
AcceptPrevious(q) ==
  /\ At(q, "sent")
  /\ row.status = "active" /\ ~row.idle
  /\ UsesCurrent(q) \/ (UsesPrevious(q) /\ row.grace)
  /\ req' = [req EXCEPT ![q].saw = row.prev,
                        ![q].pc = IF req[q].kind = "reauth" THEN "reauth"
                                  ELSE IF UsesCurrent(q) /\ row.due THEN "rotate" ELSE "in"]
  /\ UNCHANGED <<row, jar, alarm>>

\* An API request whose secret is a day old rotates it before anything else.
Accept(q) ==
  /\ At(q, "sent")
  /\ row.status = "active" /\ ~row.idle
  /\ UsesCurrent(q) \/ (UsesPrevious(q) /\ row.grace)
  /\ req' = [req EXCEPT ![q].saw = row.cur,
                        ![q].pc = IF req[q].kind = "reauth" THEN "reauth"
                                  ELSE IF UsesCurrent(q) /\ row.due THEN "rotate" ELSE "in"]
  /\ UNCHANGED <<row, jar, alarm>>

-----------------------------------------------------------------------------
(***************************************************************************)
(* _rotate_user_session_credential and _complete_recent_authentication.    *)
(***************************************************************************)

\* The row after a rotation away from the secret old.
Rotated(old) == [row EXCEPT !.cur = @ + 1, !.prev = old, !.grace = TRUE, !.due = FALSE]

\* Bug: the rotation does not test that the presented secret is still the current one.
RotateUnguarded(q) ==
  /\ At(q, "rotate")
  /\ row.status = "active"
  /\ row.cur < MaxSecret
  /\ row' = [Rotated(req[q].secret) EXCEPT !.hour = FALSE,
                                           !.idle = IF row.hour THEN FALSE ELSE @]
  /\ req' = [req EXCEPT ![q].pc = "in", ![q].cookie = row.cur + 1]
  /\ UNCHANGED <<jar, alarm>>

\* The rotation renews the activity as well when the hour is over.
Rotate(q) ==
  /\ At(q, "rotate")
  /\ row.status = "active" /\ UsesCurrent(q)
  /\ row.cur < MaxSecret
  /\ row' = [Rotated(req[q].secret) EXCEPT !.hour = FALSE,
                                           !.idle = IF row.hour THEN FALSE ELSE @]
  /\ req' = [req EXCEPT ![q].pc = "in", ![q].cookie = row.cur + 1]
  /\ UNCHANGED <<jar, alarm>>

\* Bug: whoever loses the race for the rotation is turned away.
RotationLostRejects(q) ==
  /\ At(q, "rotate")
  /\ row.status # "active" \/ ~UsesCurrent(q)
  /\ Reject(q)
  /\ UNCHANGED <<row, jar, alarm>>

\* Another request rotated first: this one goes on under the previous secret.
RotationLost(q) ==
  /\ At(q, "rotate")
  /\ row.status # "active" \/ ~UsesCurrent(q)
  /\ IF row.status = "active" /\ UsesPrevious(q) /\ row.grace
       THEN Goto(q, "in")
       ELSE Reject(q)
  /\ UNCHANGED <<row, jar, alarm>>

\* Bug: recent authentication rotates the secret and its response does not carry the new one.
ReauthenticateSilently(q) ==
  /\ At(q, "reauth")
  /\ IF row.status = "active" /\ row.cur = req[q].saw
       THEN row.cur < MaxSecret /\ row' = Rotated(req[q].saw)
       ELSE row' = row
  /\ Goto(q, "reply")
  /\ UNCHANGED <<jar, alarm>>

\* Recent authentication replaces the secret it read as current, whichever was presented.
Reauthenticate(q) ==
  /\ At(q, "reauth")
  /\ IF row.status = "active" /\ row.cur = req[q].saw
       THEN /\ row.cur < MaxSecret
            /\ row' = Rotated(req[q].saw)
            /\ req' = [req EXCEPT ![q].pc = "reply", ![q].cookie = row.cur + 1]
       ELSE row' = row /\ Goto(q, "reply")
  /\ UNCHANGED <<jar, alarm>>

-----------------------------------------------------------------------------
\* The hourly activity checkpoint of an accepted request.
Renew(q) ==
  /\ At(q, "in")
  /\ row' = IF row.hour /\ row.status = "active"
              THEN [row EXCEPT !.hour = FALSE, !.idle = FALSE]
              ELSE row
  /\ Goto(q, "served")
  /\ UNCHANGED <<jar, alarm>>

Respond(q) ==
  /\ At(q, "served")
  /\ Goto(q, "reply")
  /\ UNCHANGED <<row, jar, alarm>>

\* sign_out_current_device: written by id, whatever has become of the session.
SignOut(q) ==
  /\ At(q, "served")
  /\ row' = [row EXCEPT !.status = "revoked"]
  /\ req' = [req EXCEPT ![q].pc = "reply", ![q].cookie = Deleted]
  /\ UNCHANGED <<jar, alarm>>

\* Another device, the identity status synchronization or a security rollback revokes it.
RevokeElsewhere ==
  /\ row.status = "active"
  /\ row' = [row EXCEPT !.status = "revoked"]
  /\ UNCHANGED <<jar, req, alarm>>

-----------------------------------------------------------------------------
(***************************************************************************)
(* The network and the clock.                                              *)
(***************************************************************************)
Deliver(q) ==
  /\ At(q, "reply")
  /\ net.ordered => \A p \in Requests :
                  req[p].cookie \in Secrets /\ req[q].cookie \in Secrets
                    => req[p].cookie >= req[q].cookie
  /\ jar' = CASE req[q].cookie = None    -> jar
              [] req[q].cookie = Deleted -> None
              [] OTHER                   -> req[q].cookie
  /\ req' = [req EXCEPT ![q] = Idle]
  /\ UNCHANGED <<row, alarm>>

\* The server dies, or the browser does not get the response.
Lose(q) ==
  /\ net.lossy
  /\ ~At(q, "idle")
  /\ req' = [req EXCEPT ![q] = Idle]
  /\ UNCHANGED <<row, jar, alarm>>

GraceEnds ==
  /\ row.grace
  /\ net.prompt => \A q \in Requests :
                 ~At(q, "idle") => req[q].secret = row.cur /\ req[q].cookie = None
  /\ row' = [row EXCEPT !.grace = FALSE]
  /\ UNCHANGED <<jar, req, alarm>>

HourPasses  == ~row.hour /\ row' = [row EXCEPT !.hour = TRUE] /\ UNCHANGED <<jar, req, alarm>>

\* A day is longer than two minutes, thirty days are longer than all of them.
RotationDue ==
  /\ ~row.due /\ ~row.grace /\ row.cur < MaxSecret
  /\ row' = [row EXCEPT !.due = TRUE]
  /\ UNCHANGED <<jar, req, alarm>>

IdleExpires ==
  /\ ~row.idle /\ row.hour /\ ~row.grace
  /\ row' = [row EXCEPT !.idle = TRUE]
  /\ UNCHANGED <<jar, req, alarm>>

Next ==
  /\ UNCHANGED net
  /\ \/ RevokeElsewhere \/ GraceEnds \/ HourPasses \/ RotationDue \/ IdleExpires
     \/ \E q \in Requests :
          \/ \E kind \in {"api", "reauth"} : Send(q, kind)
          \/ TurnAway(q) \/ FindIdle(q) \/ Expire(q) \/ FindReplay(q) \/ RevokeReplayed(q)
          \/ Accept(q) \/ Rotate(q) \/ RotationLost(q) \/ Reauthenticate(q)
          \/ Renew(q) \/ Respond(q) \/ SignOut(q) \/ Deliver(q) \/ Lose(q)

Spec == Init /\ [][Next]_vars

-----------------------------------------------------------------------------
(***************************************************************************)
(* Properties.                                                             *)
(***************************************************************************)

\* The row, the jar and the requests are typed.
TypeOK == /\ net \in Networks
          /\ row \in Row
          /\ jar \in Secrets \cup {None}
          /\ req \in [Requests -> Request]
          /\ alarm \in BOOLEAN

\* A session that expired or was revoked never becomes active again, whatever the requests
\* that read it as active still write (rotation, renewal, recent authentication).
EndedIsFinal == [][row.status # "active" => row'.status # "active"]_vars

\* The secret that is still accepted is the one the current secret replaced: overlapping
\* rotations never install two successors of one secret, nor cut off the browser that
\* holds the latest (the guard secret_hash == presented_secret_hash).
PreviousIsPredecessor == row.prev # None => row.prev = row.cur - 1

\* A browser whose responses arrive, in order and in time.
Calm == net.ordered /\ net.prompt /\ ~net.lossy

\* On a calm network the browser of a session that has not ended holds, or is being sent,
\* the current secret.
BrowserKeepsUp ==
  Calm /\ row.status = "active" /\ jar # None
    => \/ jar = row.cur
       \/ \E q \in Requests : req[q].cookie = row.cur

\* No honest browser on a calm network is taken for a replay (_reject_credential
\* "suspected_replay").
NoFalseAlarm == Calm => ~alarm

\* No request of such a browser is refused while its session lasts: the two minutes cover
\* the requests that were under way during a scheduled rotation.
NotTurnedAway ==
  [][\A q \in Requests :
       Calm /\ ~net.reauth /\ req[q].ok /\ ~req'[q].ok => row'.status # "active"]_vars
=============================================================================
