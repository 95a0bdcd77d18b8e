------------------------- MODULE UserSessionProofs -------------------------
(***************************************************************************)
(* What holds of the session row for any number of requests, any number of *)
(* rotations and any network.  The typing invariant with                   *)
(* PreviousIsPredecessor is inductive: every rotation tests that the       *)
(* secret it moves to previous_secret_hash is still the current one.       *)
(* On a calm network the cookies under way are the secrets between the     *)
(* browser's and the current one (CalmInv): the browser keeps up, is never *)
(* taken for a replay and, without recent authentication, never refused.   *)
(***************************************************************************)
EXTENDS UserSession, TLAPS

IInv == TypeOK /\ PreviousIsPredecessor

\* A request at rest is typed.
LEMMA IdleTyped == Idle \in Request
  BY SecretsAssumption DEF Idle, Request, Secrets

\* The first state satisfies the inductive invariant.
LEMMA InitIInv == Init => IInv
  <1> SUFFICES ASSUME Init PROVE IInv
    OBVIOUS
  <1>1. 0 \in Secrets
    BY SecretsAssumption DEF Secrets
  <1>2. row \in Row /\ row.prev = None
    BY <1>1 DEF Init, Row
  <1>3. req \in [Requests -> Request]
    BY IdleTyped DEF Init
  <1>4. QED
    BY <1>1, <1>2, <1>3 DEF Init, IInv, TypeOK, PreviousIsPredecessor

\* A rotation away from the current secret is typed and remembers its predecessor, and
\* keeps the session active.
LEMMA RotatedRow ==
  ASSUME TypeOK, row.cur < MaxSecret
  PROVE  /\ Rotated(row.cur) \in Row
         /\ Rotated(row.cur).prev = Rotated(row.cur).cur - 1
         /\ Rotated(row.cur).status = row.status
         /\ row.cur + 1 \in Secrets
  <1>1. row \in Row /\ row.cur \in Secrets /\ row.cur + 1 \in Secrets
    BY SecretsAssumption DEF TypeOK, Row, Secrets
  <1>2. Rotated(row.cur) = [row EXCEPT !.cur = row.cur + 1, !.prev = row.cur,
                                       !.grace = TRUE, !.due = FALSE]
    BY DEF Rotated
  <1>3. Rotated(row.cur) \in Row
    BY <1>1, <1>2 DEF Row
  <1>4. /\ Rotated(row.cur).cur = row.cur + 1 /\ Rotated(row.cur).prev = row.cur
        /\ Rotated(row.cur).status = row.status
    BY <1>1, <1>2 DEF Row
  <1> DEFINE new == Rotated(row.cur)
  <1>5. row.cur \in Int /\ new.cur = row.cur + 1 /\ new.prev = row.cur
    BY <1>1, <1>4, SecretsAssumption DEF Secrets
  <1> HIDE DEF new
  <1>6. new.prev = new.cur - 1
    BY <1>5
  <1>7. QED
    BY <1>1, <1>3, <1>4, <1>6 DEF new

-----------------------------------------------------------------------------
\* Whoever rotates the secret keeps the row, and the response carries a typed secret.
LEMMA RotateStep ==
  ASSUME TypeOK, UNCHANGED net, NEW q \in Requests, Rotate(q)
  PROVE  /\ TypeOK' /\ PreviousIsPredecessor'
         /\ row.status = "active"
  <1>1. row \in Row /\ req[q] \in Request /\ req[q].secret = row.cur /\ row.cur < MaxSecret
    BY DEF Rotate, UsesCurrent, TypeOK
  <1> DEFINE new == Rotated(row.cur)
  <1>2. new \in Row /\ new.prev = new.cur - 1 /\ row.cur + 1 \in Secrets
    BY <1>1, RotatedRow
  <1>3. PICK idle \in BOOLEAN : row' = [new EXCEPT !.hour = FALSE, !.idle = idle]
    <2>1. row' = [Rotated(row.cur) EXCEPT !.hour = FALSE,
                                          !.idle = IF row.hour THEN FALSE ELSE @]
      BY <1>1 DEF Rotate
    <2>2. (IF row.hour THEN FALSE ELSE new.idle) \in BOOLEAN
      BY <1>2 DEF Row
    <2>3. QED
      BY <2>1, <2>2
  <1> HIDE DEF new
  <1>4. row' \in Row /\ row'.prev = row'.cur - 1
    BY <1>2, <1>3 DEF Row
  <1>5. req' = [req EXCEPT ![q].pc = "in", ![q].cookie = row.cur + 1]
        /\ UNCHANGED <<jar, alarm>> /\ row.status = "active"
    BY DEF Rotate
  <1>6. req' \in [Requests -> Request]
    BY <1>1, <1>2, <1>5 DEF TypeOK, Request
  <1>7. QED
    BY <1>4, <1>5, <1>6 DEF TypeOK, PreviousIsPredecessor

LEMMA ReauthenticateStep ==
  ASSUME IInv, UNCHANGED net, NEW q \in Requests, Reauthenticate(q)
  PROVE  /\ TypeOK' /\ PreviousIsPredecessor'
         /\ row.status = "active" \/ row' = row
  <1>0. TypeOK /\ PreviousIsPredecessor /\ row \in Row /\ req[q] \in Request
    BY DEF IInv, TypeOK
  <1>1. CASE row.status = "active" /\ row.cur = req[q].saw
    <2>1. /\ row.cur < MaxSecret /\ row' = Rotated(row.cur)
          /\ req' = [req EXCEPT ![q].pc = "reply", ![q].cookie = row.cur + 1]
          /\ UNCHANGED <<jar, alarm>>
      BY <1>1 DEF Reauthenticate
    <2>2. row' \in Row /\ row'.prev = row'.cur - 1 /\ row.cur + 1 \in Secrets
      BY <1>0, <2>1, RotatedRow
    <2>3. req' \in [Requests -> Request]
      BY <1>0, <2>1, <2>2 DEF TypeOK, Request
    <2>4. QED
      BY <1>0, <1>1, <2>1, <2>2, <2>3 DEF TypeOK, PreviousIsPredecessor
  <1>2. CASE ~(row.status = "active" /\ row.cur = req[q].saw)
    <2>1. row' = row /\ Goto(q, "reply") /\ UNCHANGED <<jar, alarm>>
      BY <1>2 DEF Reauthenticate
    <2>2. req' \in [Requests -> Request]
      BY <1>0, <2>1 DEF Goto, TypeOK, Request
    <2>3. QED
      BY <1>0, <2>1, <2>2 DEF TypeOK, PreviousIsPredecessor
  <1>3. QED
    BY <1>1, <1>2

-----------------------------------------------------------------------------
\* The steps that write the row without a rotation leave its secrets alone, and none of
\* them makes an ended session active.
Quiet(q) ==
  \/ \E kind \in {"api", "reauth"} : Send(q, kind)
  \/ TurnAway(q) \/ FindIdle(q) \/ Expire(q) \/ FindReplay(q) \/ RevokeReplayed(q)
  \/ Accept(q) \/ RotationLost(q) \/ Renew(q) \/ Respond(q) \/ SignOut(q)
  \/ Deliver(q) \/ Lose(q)

Clock == RevokeElsewhere \/ GraceEnds \/ HourPasses \/ RotationDue \/ IdleExpires

SecretsKept == /\ row' \in Row
               /\ row'.cur = row.cur /\ row'.prev = row.prev
               /\ row.status # "active" => row'.status # "active"

LEMMA QuietRow ==
  ASSUME TypeOK, NEW q \in Requests, Quiet(q)
  PROVE  SecretsKept
  <1>0. row \in Row
    BY DEF TypeOK
  <1>1. \/ row' = row
        \/ row' = [row EXCEPT !.status = "expired"]
        \/ row' = [row EXCEPT !.status = "revoked"]
        \/ row' = [row EXCEPT !.hour = FALSE, !.idle = FALSE]
    BY DEF Quiet, Send, TurnAway, FindIdle, Expire, FindReplay, RevokeReplayed, Accept,
           RotationLost, Renew, Respond, SignOut, Deliver, Lose
  <1>2. QED
    BY <1>0, <1>1 DEF SecretsKept, Row

LEMMA QuietRest ==
  ASSUME TypeOK, NEW q \in Requests, Quiet(q)
  PROVE  /\ jar' \in Secrets \cup {None}
         /\ req' \in [Requests -> Request]
         /\ alarm' \in BOOLEAN
  <1>0. /\ row \in Row /\ jar \in Secrets \cup {None} /\ req \in [Requests -> Request]
        /\ alarm \in BOOLEAN /\ req[q] \in Request /\ Idle \in Request
    BY IdleTyped DEF TypeOK
  <1>1. ASSUME NEW kind \in {"api", "reauth"}, Send(q, kind)
        PROVE  req' \in [Requests -> Request]
    <2>1. jar \in Secrets
      BY <1>0, <1>1 DEF Send
    <2>2. [Idle EXCEPT !.pc = "sent", !.kind = kind, !.secret = jar] \in Request
      BY <1>0, <2>1 DEF Request
    <2>3. QED
      BY <1>0, <1>1, <2>2 DEF Send
  <1>2. ASSUME TurnAway(q) \/ FindIdle(q) \/ Expire(q) \/ FindReplay(q) \/ RevokeReplayed(q)
               \/ RotationLost(q) \/ Renew(q) \/ Respond(q)
        PROVE  req' \in [Requests -> Request]
    <2>1. \/ Reject(q)
          \/ \E step \in {"expire", "replay", "in", "served", "reply"} : Goto(q, step)
      BY <1>2 DEF TurnAway, FindIdle, Expire, FindReplay, RevokeReplayed, RotationLost,
                  Renew, Respond
    <2>2. QED
      BY <1>0, <2>1 DEF Reject, Goto, Request
  <1>3. ASSUME Accept(q) PROVE req' \in [Requests -> Request]
    <2>1. PICK step \in {"reauth", "rotate", "in"} :
            req' = [req EXCEPT ![q].saw = row.cur, ![q].pc = step]
      BY <1>3 DEF Accept
    <2>2. row.cur \in Secrets
      BY <1>0 DEF Row
    <2>3. QED
      BY <1>0, <2>1, <2>2 DEF Request
  <1>4. ASSUME SignOut(q) PROVE req' \in [Requests -> Request]
    BY <1>0, <1>4 DEF SignOut, Request
  <1>5. ASSUME Deliver(q) \/ Lose(q) PROVE req' \in [Requests -> Request]
    BY <1>0, <1>5 DEF Deliver, Lose
  <1>6. jar' \in Secrets \cup {None}
    <2>1. CASE Deliver(q)
      <3>1. req[q].cookie \in Secrets \cup {None, Deleted}
        BY <1>0 DEF Request
      <3>2. QED
        BY <1>0, <2>1, <3>1 DEF Deliver
    <2>2. CASE ~Deliver(q)
      BY <1>0, <2>2
      DEF Quiet, Send, TurnAway, FindIdle, Expire, FindReplay, RevokeReplayed, Accept,
          RotationLost, Renew, Respond, SignOut, Lose
    <2>3. QED
      BY <2>1, <2>2
  <1>7. alarm' \in BOOLEAN
    BY <1>0
    DEF Quiet, Send, TurnAway, FindIdle, Expire, FindReplay, RevokeReplayed, Accept,
        RotationLost, Renew, Respond, SignOut, Deliver, Lose
  <1>8. QED
    BY <1>1, <1>2, <1>3, <1>4, <1>5, <1>6, <1>7 DEF Quiet

LEMMA ClockStep ==
  ASSUME TypeOK, Clock
  PROVE  SecretsKept /\ UNCHANGED <<jar, req, alarm>>
  <1>0. row \in Row
    BY DEF TypeOK
  <1>1. /\ UNCHANGED <<jar, req, alarm>>
        /\ \/ row' = [row EXCEPT !.status = "revoked"]
           \/ row' = [row EXCEPT !.grace = FALSE]
           \/ row' = [row EXCEPT !.hour = TRUE]
           \/ row' = [row EXCEPT !.due = TRUE]
           \/ row' = [row EXCEPT !.idle = TRUE]
    BY DEF Clock, RevokeElsewhere, GraceEnds, HourPasses, RotationDue, IdleExpires
  <1>2. QED
    BY <1>0, <1>1 DEF SecretsKept, Row

-----------------------------------------------------------------------------
\* Every step is a rotation, a recent authentication, a quiet step or the clock's.
LEMMA StepKinds ==
  ASSUME Next
  PROVE  \/ Clock
         \/ \E q \in Requests : Rotate(q) \/ Reauthenticate(q) \/ Quiet(q)
  BY DEF Next, Clock, Quiet

LEMMA StepIInv == IInv /\ [Next]_vars => IInv'
  <1> SUFFICES ASSUME IInv, [Next]_vars PROVE IInv'
    OBVIOUS
  <1>0. TypeOK /\ PreviousIsPredecessor /\ UNCHANGED net
    BY DEF IInv, Next, vars
  <1>1. ASSUME NEW q \in Requests, Rotate(q) PROVE IInv'
    BY <1>0, <1>1, RotateStep DEF IInv
  <1>2. ASSUME NEW q \in Requests, Reauthenticate(q) PROVE IInv'
    BY <1>0, <1>2, ReauthenticateStep DEF IInv
  <1>3. ASSUME NEW q \in Requests, Quiet(q) PROVE IInv'
    BY <1>0, <1>3, QuietRow, QuietRest
    DEF IInv, TypeOK, PreviousIsPredecessor, SecretsKept
  <1>4. CASE Clock
    BY <1>0, <1>4, ClockStep DEF IInv, TypeOK, PreviousIsPredecessor, SecretsKept
  <1>5. CASE UNCHANGED vars
    BY <1>0, <1>5 DEF IInv, TypeOK, PreviousIsPredecessor, vars
  <1>6. QED
    BY <1>1, <1>2, <1>3, <1>4, <1>5, StepKinds

\* An ended session is ended after every step.
LEMMA StepEnded ==
  ASSUME IInv, [Next]_vars, row.status # "active"
  PROVE  row'.status # "active"
  <1>0. TypeOK /\ UNCHANGED net
    BY DEF IInv, Next, vars
  <1>1. ASSUME NEW q \in Requests, Rotate(q) \/ Reauthenticate(q)
        PROVE  row'.status # "active"
    BY <1>0, <1>1, RotateStep, ReauthenticateStep
  <1>2. ASSUME NEW q \in Requests, Quiet(q) PROVE row'.status # "active"
    BY <1>0, <1>2, QuietRow DEF SecretsKept
  <1>3. CASE Clock
    BY <1>0, <1>3, ClockStep DEF SecretsKept
  <1>4. CASE UNCHANGED vars
    BY <1>4 DEF vars
  <1>5. QED
    BY <1>1, <1>2, <1>3, <1>4, StepKinds

-----------------------------------------------------------------------------
\* The inductive invariant holds of every reachable state.
THEOREM SessionInvariant == Spec => []IInv
  BY InitIInv, StepIInv, PTL DEF Spec

\* Row, jar and requests are typed, whatever the network does.
THEOREM UserSessionTypeCorrect == Spec => []TypeOK
  <1>1. IInv => TypeOK
    BY DEF IInv
  <1>2. QED
    BY <1>1, SessionInvariant, PTL

\* Overlapping rotations never install two successors of one secret: what is accepted
\* beside the current secret is its predecessor.
THEOREM OneSuccessorPerSecret == Spec => []PreviousIsPredecessor
  <1>1. IInv => PreviousIsPredecessor
    BY DEF IInv
  <1>2. QED
    BY <1>1, SessionInvariant, PTL

\* No request revives a session that expired or was revoked.
THEOREM EndedSessionsStayEnded == Spec => EndedIsFinal
  <1>1. IInv /\ [Next]_vars => [row.status # "active" => row'.status # "active"]_vars
    BY StepEnded
  <1>2. QED
    BY <1>1, SessionInvariant, PTL DEF Spec, EndedIsFinal

-----------------------------------------------------------------------------
(***************************************************************************)
(* The browser on a calm network.  BrowserKeepsUp, NoFalseAlarm and        *)
(* NotTurnedAway depend on every request and response under way: the       *)
(* cookies are the secrets between the jar and the current one, each once, *)
(* so that whoever is delivered last brings the current one; when the two  *)
(* minutes are over no other secret is under way; and without recent       *)
(* authentication there is one rotation within two minutes.                *)
(***************************************************************************)
KeepsUp ==
  /\ jar # None /\ \A q \in Requests : req[q].cookie # Deleted
  /\ jar = row.cur \/ \E q \in Requests : req[q].cookie = row.cur
  /\ jar <= row.cur
  /\ \A q \in Requests :
       req[q].cookie \in Secrets => jar < req[q].cookie /\ req[q].cookie <= row.cur
  /\ \A p, q \in Requests : p # q /\ req[p].cookie \in Secrets => req[p].cookie # req[q].cookie
  /\ ~row.grace => \A q \in Requests : /\ req[q].cookie \notin Secrets
                                       /\ ~At(q, "idle") => req[q].secret = row.cur

Covered ==
  /\ jar \in {None, row.cur, row.prev}
  /\ \A q \in Requests : /\ ~At(q, "idle") => req[q].secret \in {row.cur, row.prev}
                         /\ req[q].cookie \in Secrets => req[q].cookie = row.cur
                         /\ At(q, "rotate") /\ req[q].secret = row.cur => ~row.grace

AtRest == \A q \in Requests : At(q, "idle") => req[q].cookie = None
NoReplay == ~alarm /\ \A q \in Requests : ~At(q, "replay")
NoReauth == \A q \in Requests : req[q].kind # "reauth" /\ ~At(q, "reauth")

CalmInv ==
  /\ AtRest /\ (row.grace => ~row.due)
  /\ Calm => /\ NoReplay
             /\ row.status = "active" => KeepsUp
  /\ Calm /\ ~net.reauth => /\ NoReauth
                            /\ row.status = "active" => Covered

\* No request begins or ends, no cookie is set or stored, the secrets stay.
Proceeds ==
  /\ jar' = jar /\ row'.cur = row.cur /\ row'.prev = row.prev /\ row'.grace = row.grace
  /\ \A p \in Requests : /\ req'[p].cookie = req[p].cookie /\ req'[p].secret = req[p].secret
                         /\ req'[p].kind = req[p].kind
                         /\ req'[p].pc = "idle" <=> req[p].pc = "idle"

\* The step of one request that rotates the secret.
Rotates(q) ==
  /\ jar' = jar /\ row'.cur = row.cur + 1 /\ row'.prev = row.cur /\ row'.grace
  /\ req'[q].cookie = row.cur + 1 /\ req'[q].secret = req[q].secret /\ req'[q].kind = req[q].kind
  /\ req'[q].pc \in {"in", "reply"} /\ req[q].pc \in {"rotate", "reauth"}
  /\ req[q].pc = "rotate" => req[q].secret = row.cur
  /\ \A p \in Requests : p # q => req'[p] = req[p]

\* What a rotation does to the secrets under way.
LEMMA RotatesEffect ==
  ASSUME IInv, NEW q \in Requests, Rotate(q) \/ (Reauthenticate(q) /\ row' # row)
  PROVE  Rotates(q) /\ ~row'.due /\ alarm' = alarm
  <1>0. /\ row \in Row /\ req \in [Requests -> Request] /\ req[q] \in Request
    BY DEF IInv, TypeOK
  <1>1. CASE Rotate(q)
    <2>1. /\ req[q].secret = row.cur /\ req[q].pc = "rotate"
          /\ req' = [req EXCEPT ![q].pc = "in", ![q].cookie = row.cur + 1]
          /\ UNCHANGED <<jar, alarm>>
      BY <1>1 DEF Rotate, UsesCurrent, At
    <2>2. PICK idle : row' = [row EXCEPT !.cur = row.cur + 1, !.prev = row.cur, !.grace = TRUE,
                                         !.due = FALSE, !.hour = FALSE, !.idle = idle]
      <3> DEFINE new == [row EXCEPT !.cur = row.cur + 1, !.prev = row.cur, !.grace = TRUE,
                                    !.due = FALSE]
      <3>1. row' = [new EXCEPT !.hour = FALSE, !.idle = IF row.hour THEN FALSE ELSE new.idle]
        BY <1>1, <2>1 DEF Rotate, Rotated
      <3>2. QED
        BY <3>1
    <2>3. /\ row'.cur = row.cur + 1 /\ row'.prev = row.cur /\ row'.grace /\ ~row'.due
      BY <1>0, <2>2 DEF Row
    <2>4. /\ req'[q].cookie = row.cur + 1 /\ req'[q].secret = req[q].secret
          /\ req'[q].kind = req[q].kind /\ req'[q].pc = "in"
          /\ \A p \in Requests : p # q => req'[p] = req[p]
      BY <1>0, <2>1 DEF Request
    <2>5. QED
      BY <2>1, <2>3, <2>4 DEF Rotates
  <1>2. CASE Reauthenticate(q) /\ row' # row
    <2>1. /\ req[q].pc = "reauth" /\ row' = Rotated(row.cur)
          /\ req' = [req EXCEPT ![q].pc = "reply", ![q].cookie = row.cur + 1]
          /\ UNCHANGED <<jar, alarm>>
      BY <1>2 DEF Reauthenticate, At
    <2>2. row' = [row EXCEPT !.cur = row.cur + 1, !.prev = row.cur, !.grace = TRUE, !.due = FALSE]
      BY <2>1 DEF Rotated
    <2>3. /\ row'.cur = row.cur + 1 /\ row'.prev = row.cur /\ row'.grace /\ ~row'.due
      BY <1>0, <2>2 DEF Row
    <2>4. /\ req'[q].cookie = row.cur + 1 /\ req'[q].secret = req[q].secret
          /\ req'[q].kind = req[q].kind /\ req'[q].pc = "reply"
          /\ \A p \in Requests : p # q => req'[p] = req[p]
      BY <1>0, <2>1 DEF Request
    <2>5. QED
      BY <2>1, <2>3, <2>4 DEF Rotates
  <1>3. QED
    BY <1>1, <1>2

\* What a step that is not a rotation does to the secrets under way.
LEMMA ProceedsEffect ==
  ASSUME IInv, NEW q \in Requests,
         \/ TurnAway(q) \/ FindIdle(q) \/ FindReplay(q) \/ Accept(q) \/ RotationLost(q)
         \/ Renew(q) \/ Respond(q) \/ (Reauthenticate(q) /\ row' = row)
  PROVE  Proceeds /\ row'.due = row.due /\ alarm' = alarm
  <1>0. /\ row \in Row /\ req \in [Requests -> Request] /\ req[q] \in Request
    BY DEF IInv, TypeOK
  <1>1. PICK v \in Request : v = req[q]
    BY <1>0
  <1>2. /\ jar' = jar /\ alarm' = alarm /\ row'.cur = row.cur /\ row'.prev = row.prev
        /\ row'.grace = row.grace /\ row'.due = row.due
    <2>1. row' = row \/ row' = [row EXCEPT !.hour = FALSE, !.idle = FALSE]
      BY DEF TurnAway, FindIdle, FindReplay, Accept, RotationLost, Renew, Respond
    <2>2. UNCHANGED <<jar, alarm>>
      BY DEF TurnAway, FindIdle, FindReplay, Accept, RotationLost, Renew, Respond, Reauthenticate
    <2>3. QED
      BY <1>0, <2>1, <2>2 DEF Row
  <1>3. v.pc # "idle"
    BY <1>1 DEF TurnAway, FindIdle, FindReplay, Accept, RotationLost, Renew, Respond,
                Reauthenticate, At
  <1>4. PICK w : /\ req' = [req EXCEPT ![q] = w] /\ w.cookie = v.cookie /\ w.secret = v.secret
                 /\ w.kind = v.kind /\ w.pc # "idle"
    <2>1. CASE Accept(q)
      <3>1. PICK step \in {"reauth", "rotate", "in"} :
              req' = [req EXCEPT ![q].saw = row.cur, ![q].pc = step]
        BY <2>1 DEF Accept
      <3> DEFINE w == [v EXCEPT !.saw = row.cur, !.pc = step]
      <3>2. req' = [req EXCEPT ![q] = w]
        BY <1>0, <1>1, <3>1
      <3>3. w.cookie = v.cookie /\ w.secret = v.secret /\ w.kind = v.kind /\ w.pc # "idle"
        BY DEF Request
      <3> HIDE DEF w
      <3>4. QED
        BY <3>2, <3>3
    <2>2. CASE Reject(q)
      <3> DEFINE w == [v EXCEPT !.pc = "reply", !.ok = FALSE]
      <3>1. req' = [req EXCEPT ![q] = w]
        BY <1>0, <1>1, <2>2 DEF Reject
      <3>2. w.cookie = v.cookie /\ w.secret = v.secret /\ w.kind = v.kind /\ w.pc # "idle"
        BY DEF Request
      <3> HIDE DEF w
      <3>3. QED
        BY <3>1, <3>2
    <2>3. ASSUME NEW step \in {"expire", "replay", "in", "served", "reply"}, Goto(q, step)
          PROVE  \E w : /\ req' = [req EXCEPT ![q] = w] /\ w.cookie = v.cookie
                        /\ w.secret = v.secret /\ w.kind = v.kind /\ w.pc # "idle"
      <3> DEFINE w == [v EXCEPT !.pc = step]
      <3>1. req' = [req EXCEPT ![q] = w]
        BY <1>0, <1>1, <2>3 DEF Goto
      <3>2. w.cookie = v.cookie /\ w.secret = v.secret /\ w.kind = v.kind /\ w.pc # "idle"
        BY DEF Request
      <3> HIDE DEF w
      <3>3. QED
        BY <3>1, <3>2
    <2>4. CASE Reauthenticate(q) /\ row' = row
      <3>1. Goto(q, "reply")
        <4>1. ~(row.status = "active" /\ row.cur = req[q].saw)
          <5>1. row.cur + 1 # row.cur
            BY <1>0, SecretsAssumption DEF Row, Secrets
          <5>2. Rotated(req[q].saw).cur = row.cur + 1
            BY <1>0 DEF Rotated, Row
          <5>3. QED
            BY <2>4, <5>1, <5>2 DEF Reauthenticate
        <4>2. QED
          BY <2>4, <4>1 DEF Reauthenticate
      <3>2. QED
        BY <2>3, <3>1
    <2>5. QED
      BY <2>1, <2>2, <2>3, <2>4
      DEF TurnAway, FindIdle, FindReplay, RotationLost, Renew, Respond
  <1>5. \A p \in Requests : /\ req'[p].cookie = req[p].cookie /\ req'[p].secret = req[p].secret
                            /\ req'[p].kind = req[p].kind
                            /\ req'[p].pc = "idle" <=> req[p].pc = "idle"
    BY <1>0, <1>1, <1>3, <1>4
  <1>6. QED
    BY <1>2, <1>5 DEF Proceeds

\* Secrets are numbers; no cookie and a deletion are none.
LEMMA SecretsAreNumbers ==
  Secrets \subseteq Int /\ None \in Int /\ None \notin Secrets /\ Deleted \notin Secrets
  BY SecretsAssumption DEF Secrets, None, Deleted

\* A step that keeps the secrets keeps what relates them to the jar and the cookies.
LEMMA ProceedsKeeps ==
  ASSUME Proceeds
  PROVE  /\ KeepsUp => KeepsUp'
         /\ Covered /\ (\A q \in Requests :
                          req'[q].pc = "rotate" /\ req[q].pc # "rotate" => ~row.grace)
              => Covered'
  BY DEF Proceeds, KeepsUp, Covered, At

\* A rotation: the jar and all cookies are behind the new secret.
LEMMA RotatesKeeps ==
  ASSUME IInv, IInv', KeepsUp, NEW q \in Requests, Rotates(q)
  PROVE  /\ KeepsUp'
         /\ Covered /\ NoReauth => Covered'
  <1>0. /\ row.cur \in Secrets /\ row'.cur \in Secrets /\ jar \in Secrets \cup {None}
        /\ \A p \in Requests : /\ req[p].cookie \in Secrets \cup {None, Deleted}
                              /\ req[p].secret \in Secrets
        /\ row.cur \in Int /\ row'.cur \in Int /\ jar \in Int /\ Secrets \subseteq Int
        /\ row.prev # None => row.prev = row.cur - 1
    BY SecretsAreNumbers DEF IInv, TypeOK, Row, Request, PreviousIsPredecessor
  <1>1. KeepsUp'
    <2>1. jar' <= row'.cur /\ req'[q].cookie = row'.cur
      BY <1>0 DEF KeepsUp, Rotates
    <2>2. ASSUME NEW p \in Requests, req'[p].cookie \in Secrets
          PROVE  jar' < req'[p].cookie /\ req'[p].cookie <= row'.cur
      <3>1. CASE p = q
        BY <1>0, <3>1 DEF KeepsUp, Rotates
      <3>2. CASE p # q
        <4>1. req[p].cookie \in Secrets /\ req[p].cookie \in Int /\ req'[p].cookie = req[p].cookie
          BY <1>0, <2>2, <3>2 DEF Rotates
        <4>2. jar < req[p].cookie /\ req[p].cookie <= row.cur
          BY <4>1 DEF KeepsUp
        <4>3. QED
          BY <1>0, <4>1, <4>2 DEF Rotates
      <3>3. QED
        BY <3>1, <3>2
    <2>3. ASSUME NEW p \in Requests, NEW r \in Requests, p # r, req'[p].cookie \in Secrets
          PROVE  req'[p].cookie # req'[r].cookie
      <3>1. \A x \in Requests : req[x].cookie # row.cur + 1
        BY <1>0, SecretsAreNumbers DEF KeepsUp, Rotates
      <3>2. QED
        BY <2>3, <3>1 DEF KeepsUp, Rotates
    <2>4. jar' # None /\ \A p \in Requests : req'[p].cookie # Deleted
      BY <1>0, SecretsAreNumbers DEF KeepsUp, Rotates
    <2>5. QED
      BY <2>1, <2>2, <2>3, <2>4 DEF KeepsUp, Rotates
  <1>2. ASSUME Covered, NoReauth PROVE Covered'
    <2>1. req[q].pc = "rotate" /\ ~row.grace
      BY <1>2 DEF Rotates, NoReauth, Covered, At
    <2>2. \A p \in Requests : /\ req[p].cookie \notin Secrets
                              /\ req[p].pc # "idle" => req[p].secret = row.cur
      BY <2>1 DEF KeepsUp, At
    <2>3. jar \in {None, row.cur}
      BY <2>2, <1>0 DEF KeepsUp
    <2>4. jar' \in {None, row'.cur, row'.prev}
      BY <2>3 DEF Rotates
    <2>5. ASSUME NEW p \in Requests
          PROVE  /\ req'[p].pc # "idle" => req'[p].secret \in {row'.cur, row'.prev}
                 /\ req'[p].cookie \in Secrets => req'[p].cookie = row'.cur
                 /\ req'[p].pc = "rotate" /\ req'[p].secret = row'.cur => ~row'.grace
      <3>1. CASE p = q
        BY <2>1, <2>2, <3>1 DEF Rotates
      <3>2. CASE p # q
        <4>1. req'[p] = req[p] /\ row'.prev = row.cur /\ row'.cur # row.cur
          BY <1>0, <3>2 DEF Rotates
        <4>2. QED
          BY <2>2, <4>1
      <3>3. QED
        BY <3>1, <3>2
    <2>6. QED
      BY <2>4, <2>5 DEF Covered, At
  <1>3. QED
    BY <1>1, <1>2

\* A request that is sent carries what is in the jar.
LEMMA SendKeeps ==
  ASSUME IInv, AtRest, KeepsUp, NEW q \in Requests, NEW kind \in {"api", "reauth"}, Send(q, kind)
  PROVE  /\ KeepsUp'
         /\ Covered => Covered'
  <1>0. /\ row.cur \in Secrets /\ jar \in Secrets /\ jar # None
    BY SecretsAreNumbers DEF IInv, TypeOK, Row, Send
  <1> DEFINE w == [Idle EXCEPT !.pc = "sent", !.kind = kind, !.secret = jar]
  <1>1. w.pc = "sent" /\ w.secret = jar /\ w.cookie = None
    BY DEF Idle
  <1>2. req' = [req EXCEPT ![q] = w] /\ UNCHANGED <<row, jar>> /\ req[q].pc = "idle"
    BY DEF Send, At
  <1> HIDE DEF w
  <1>3. req'[q] = w /\ \A p \in Requests : p # q => req'[p] = req[p]
    BY <1>2 DEF IInv, TypeOK
  <1>4. KeepsUp'
    <2>1. jar = row.cur \/ \E p \in Requests : req'[p].cookie = row.cur
      <3>1. CASE jar = row.cur
        BY <3>1
      <3>2. ASSUME NEW p \in Requests, req[p].cookie = row.cur
            PROVE  \E x \in Requests : req'[x].cookie = row.cur \/ jar = row.cur
        <4>1. CASE p # q
          BY <1>3, <3>2, <4>1
        <4>2. CASE p = q
          BY SecretsAreNumbers, <1>0, <1>2, <3>2, <4>2 DEF AtRest, At
        <4>3. QED
          BY <4>1, <4>2
      <3>3. QED
        BY <1>0, <3>1, <3>2 DEF KeepsUp
    <2>2. ASSUME NEW p \in Requests PROVE req'[p].cookie \in Secrets => p # q
      BY <1>1, <1>3, SecretsAreNumbers
    <2>3. ~row.grace => \A p \in Requests : /\ req'[p].cookie \notin Secrets
                                            /\ req'[p].pc # "idle" => req'[p].secret = row.cur
      <3>1. ~row.grace => jar = row.cur
        BY <1>0 DEF KeepsUp
      <3>2. QED
        BY <1>1, <1>3, <3>1, SecretsAreNumbers DEF KeepsUp, At
    <2>4. jar' # None /\ \A p \in Requests : req'[p].cookie # Deleted
      BY <1>1, <1>2, <1>3 DEF KeepsUp, None, Deleted
    <2>5. \A p \in Requests : req'[p].cookie \in Secrets => req'[p] = req[p]
      BY <1>3, <2>2
    <2>6. row' = row /\ jar' = jar
      BY <1>2
    <2>7. QED
      BY <2>1, <2>2, <2>3, <2>4, <2>5, <2>6 DEF KeepsUp, At
  <1>5. ASSUME Covered PROVE Covered'
    BY <1>0, <1>1, <1>2, <1>3, <1>5, SecretsAreNumbers DEF Covered, At
  <1>6. QED
    BY <1>4, <1>5

\* The response that comes first brings the smallest secret under way.
LEMMA DeliverKeeps ==
  ASSUME IInv, AtRest, KeepsUp, NEW q \in Requests, Deliver(q), net.ordered
  PROVE  /\ KeepsUp'
         /\ Covered => Covered'
  <1>0. /\ row.cur \in Secrets /\ jar \in Secrets /\ Secrets \subseteq Int
        /\ \A p \in Requests : req[p].cookie \in Secrets \cup {None}
    BY SecretsAreNumbers DEF IInv, TypeOK, Row, Request, KeepsUp
  <1> DEFINE c == req[q].cookie
  <1>1. /\ jar' = IF c = None THEN jar ELSE c
        /\ row' = row
        /\ c \in Secrets => \A p \in Requests : req[p].cookie \in Secrets => req[p].cookie >= c
    <2>1. c # Deleted
      BY <1>0, SecretsAreNumbers DEF None, Deleted
    <2>2. jar' = IF c = None THEN jar ELSE c
      BY <2>1 DEF Deliver
    <2>3. row' = row
      BY DEF Deliver
    <2>4. \A p \in Requests : req[p].cookie \in Secrets /\ req[q].cookie \in Secrets
                               => req[p].cookie >= req[q].cookie
      BY Zenon DEF Deliver
    <2>5. QED
      BY <2>2, <2>3, <2>4
  <1>2. /\ req'[q].cookie = None /\ req'[q].pc = "idle"
        /\ \A p \in Requests : p # q => req'[p] = req[p]
    BY DEF Deliver, IInv, TypeOK, Idle
  <1>3. c \in Secrets => \A p \in Requests : p # q /\ req[p].cookie \in Secrets => c < req[p].cookie
    <2>1. ASSUME c \in Secrets, NEW p \in Requests, p # q, req[p].cookie \in Secrets
          PROVE  c < req[p].cookie
      <3>1. c # req[p].cookie /\ req[p].cookie >= c
        BY <1>1, <2>1 DEF KeepsUp
      <3>2. c \in Int /\ req[p].cookie \in Int
        BY <1>0, <2>1
      <3> HIDE DEF c
      <3>3. QED
        BY <3>1, <3>2
    <2>2. QED
      BY <2>1
  <1>4. /\ c \in Secrets \cup {None}
        /\ c \in Secrets => jar < c /\ c <= row.cur
    BY <1>0 DEF KeepsUp
  <1>5. \A p \in Requests : /\ req'[p].cookie # Deleted
                            /\ req'[p].cookie \in Secrets => p # q /\ req'[p] = req[p]
    <2>1. None # Deleted
      BY DEF None, Deleted
    <2>2. QED
      BY <1>0, <1>2, <2>1, SecretsAreNumbers
  <1>6. KeepsUp'
    <2>1. jar' # None /\ jar' <= row'.cur
      BY <1>0, <1>1, <1>4, SecretsAreNumbers DEF KeepsUp
    <2>2. jar' = row'.cur \/ \E p \in Requests : req'[p].cookie = row'.cur
      <3>1. CASE c = row.cur
        BY <1>0, <1>1, <3>1, SecretsAreNumbers
      <3>2. ASSUME c # row.cur, NEW p \in Requests, req[p].cookie = row.cur
            PROVE  \E x \in Requests : req'[x].cookie = row'.cur
        BY <1>1, <1>2, <3>2
      <3>3. ASSUME jar = row.cur PROVE jar' = row'.cur
        <4>1. c \notin Secrets
          BY <1>0, <1>4, <3>3
        <4>2. QED
          BY <1>1, <1>4, <3>3, <4>1
      <3>4. QED
        BY <3>1, <3>2, <3>3 DEF KeepsUp
    <2>3. ASSUME NEW p \in Requests, req'[p].cookie \in Secrets
          PROVE  jar' < req'[p].cookie /\ req'[p].cookie <= row'.cur
      <3>1. p # q /\ req'[p] = req[p] /\ req[p].cookie \in Secrets
        BY <1>5, <2>3
      <3>2. jar < req[p].cookie /\ req[p].cookie <= row.cur
        BY <3>1 DEF KeepsUp
      <3>3. QED
        BY <1>1, <1>3, <1>4, <3>1, <3>2
    <2>4. \A p, r \in Requests : p # r /\ req'[p].cookie \in Secrets
                                   => req'[p].cookie # req'[r].cookie
      BY <1>2, <1>5, SecretsAreNumbers DEF KeepsUp
    <2>5. ~row'.grace => \A p \in Requests : /\ req'[p].cookie \notin Secrets
                                             /\ req'[p].pc # "idle" => req'[p].secret = row'.cur
      BY <1>1, <1>2, SecretsAreNumbers DEF KeepsUp, At
    <2>6. QED
      BY <1>5, <2>1, <2>2, <2>3, <2>4, <2>5 DEF KeepsUp, At
  <1>7. ASSUME Covered PROVE Covered'
    BY <1>1, <1>2, <1>4, <1>7, SecretsAreNumbers DEF Covered, At
  <1>8. QED
    BY <1>6, <1>7

\* When the two minutes end, every request left carries the current secret.
LEMMA GraceEndsKeeps ==
  ASSUME IInv, AtRest, KeepsUp, GraceEnds, net.prompt
  PROVE  /\ KeepsUp'
         /\ Covered => Covered'
  <1>1. /\ row' = [row EXCEPT !.grace = FALSE] /\ UNCHANGED <<jar, req>>
        /\ \A q \in Requests : /\ req[q].cookie = None
                               /\ req[q].pc # "idle" => req[q].secret = row.cur
    BY DEF GraceEnds, AtRest, At
  <1>2. row'.cur = row.cur /\ row'.prev = row.prev /\ ~row'.grace
    BY <1>1 DEF IInv, TypeOK, Row
  <1>3. QED
    BY <1>1, <1>2, SecretsAreNumbers DEF KeepsUp, Covered, At

\* A step of the server that keeps the secrets: where the request goes.
LEMMA ProceedsTo ==
  ASSUME IInv, NEW q \in Requests,
         \/ TurnAway(q) \/ FindIdle(q) \/ FindReplay(q) \/ Accept(q) \/ RotationLost(q)
         \/ Renew(q) \/ Respond(q) \/ (Reauthenticate(q) /\ row' = row)
  PROVE  /\ \A p \in Requests : p # q => req'[p] = req[p]
         /\ req'[q].pc = "replay" => FindReplay(q)
         /\ req'[q].pc = "rotate" => row.due
         /\ req'[q].pc = "reauth" => req[q].kind = "reauth"
  <1>0. req \in [Requests -> Request] /\ req[q] \in Request
    BY DEF IInv, TypeOK
  <1>1. CASE Accept(q)
    <2> DEFINE step == IF req[q].kind = "reauth" THEN "reauth"
                       ELSE IF UsesCurrent(q) /\ row.due THEN "rotate" ELSE "in"
    <2>1. req' = [req EXCEPT ![q].saw = row.cur, ![q].pc = step]
      BY <1>1 DEF Accept
    <2>2. /\ step = "rotate" => row.due
          /\ step = "reauth" => req[q].kind = "reauth"
          /\ step # "replay"
      OBVIOUS
    <2> HIDE DEF step
    <2>3. req'[q].pc = step /\ \A p \in Requests : p # q => req'[p] = req[p]
      BY <1>0, <2>1 DEF Request
    <2>4. QED
      BY <2>2, <2>3
  <1>2. CASE Reject(q)
    BY <1>0, <1>2 DEF Reject, Request
  <1>3. ASSUME Goto(q, "expire") \/ Goto(q, "in") \/ Goto(q, "served") \/ Goto(q, "reply")
        PROVE  /\ \A p \in Requests : p # q => req'[p] = req[p]
               /\ req'[q].pc \notin {"replay", "rotate", "reauth"}
    BY <1>0, <1>3 DEF Goto, Request
  <1>4. CASE FindReplay(q)
    BY <1>0, <1>4 DEF FindReplay, Goto, Request
  <1>5. CASE Reauthenticate(q) /\ row' = row
    <2>1. CASE Goto(q, "reply")
      BY <1>3, <2>1
    <2>2. CASE req' = [req EXCEPT ![q].pc = "reply", ![q].cookie = row.cur + 1]
      BY <1>0, <2>2 DEF Request
    <2>3. QED
      BY <1>5, <2>1, <2>2 DEF Reauthenticate
  <1>6. QED
    BY <1>1, <1>2, <1>3, <1>4, <1>5 DEF TurnAway, FindIdle, RotationLost, Renew, Respond

\* On a calm network no secret but the current one is presented after the two minutes.
LEMMA NoReplayFound ==
  ASSUME IInv, KeepsUp, NEW q \in Requests
  PROVE  ~FindReplay(q)
  <1> SUFFICES ASSUME FindReplay(q) PROVE FALSE
    OBVIOUS
  <1>1. req[q].secret = row.prev /\ req[q].secret = row.cur
    BY DEF FindReplay, UsesPrevious, KeepsUp, At
  <1>2. row.cur \in Secrets /\ (row.prev # None => row.prev = row.cur - 1)
    BY DEF IInv, TypeOK, Row, PreviousIsPredecessor
  <1>3. row.cur \in Int /\ row.cur # None
    BY <1>2, SecretsAreNumbers
  <1>4. row.cur = row.cur - 1
    BY <1>1, <1>2, <1>3
  <1>5. QED
    BY <1>3, <1>4

\* What an ending step leaves of the invariant.
LEMMA EndedKeeps ==
  ASSUME AtRest', row'.grace => ~row'.due, row'.status # "active",
         Calm => NoReplay', Calm /\ ~net.reauth => NoReauth', net' = net
  PROVE  CalmInv'
  BY DEF CalmInv, Calm

LEMMA CalmProceeds ==
  ASSUME IInv, CalmInv, net' = net, row'.status = "active" => row.status = "active",
         NEW q \in Requests,
         \/ TurnAway(q) \/ FindIdle(q) \/ FindReplay(q) \/ Accept(q) \/ RotationLost(q)
         \/ Renew(q) \/ Respond(q) \/ (Reauthenticate(q) /\ row' = row)
  PROVE  CalmInv'
  <1>1. Proceeds /\ row'.due = row.due /\ alarm' = alarm
    BY ProceedsEffect
  <1>2. /\ \A p \in Requests : p # q => req'[p] = req[p]
        /\ req'[q].pc = "replay" => FindReplay(q)
        /\ req'[q].pc = "rotate" => row.due
        /\ req'[q].pc = "reauth" => req[q].kind = "reauth"
    BY ProceedsTo
  <1>3. AtRest' /\ (row'.grace => ~row'.due)
    BY <1>1 DEF CalmInv, AtRest, Proceeds, At
  <1>4. ASSUME Calm PROVE NoReplay'
    <2>1. FindReplay(q) => KeepsUp
      BY <1>4 DEF CalmInv, FindReplay
    <2>2. ~FindReplay(q)
      BY <2>1, NoReplayFound
    <2>3. QED
      BY <1>1, <1>2, <1>4, <2>2 DEF CalmInv, NoReplay, At
  <1>5. ASSUME Calm, row'.status = "active" PROVE KeepsUp'
    BY <1>1, <1>5, ProceedsKeeps DEF CalmInv
  <1>6. ASSUME Calm, ~net.reauth PROVE NoReauth'
    BY <1>1, <1>2, <1>6 DEF CalmInv, NoReauth, Proceeds, At
  <1>7. ASSUME Calm, ~net.reauth, row'.status = "active" PROVE Covered'
    BY <1>1, <1>2, <1>7, ProceedsKeeps DEF CalmInv
  <1>8. QED
    BY <1>3, <1>4, <1>5, <1>6, <1>7 DEF CalmInv, Calm

LEMMA CalmRotates ==
  ASSUME IInv, IInv', CalmInv, net' = net, row'.status = "active" => row.status = "active",
         NEW q \in Requests, Rotate(q) \/ (Reauthenticate(q) /\ row' # row)
  PROVE  CalmInv'
  <1>1. Rotates(q) /\ ~row'.due /\ alarm' = alarm
    BY RotatesEffect
  <1>2. AtRest'
    BY <1>1 DEF CalmInv, AtRest, Rotates, At
  <1>3. ASSUME Calm PROVE NoReplay'
    BY <1>1, <1>3 DEF CalmInv, NoReplay, Rotates, At
  <1>4. ASSUME Calm, ~net.reauth PROVE NoReauth'
    BY <1>1, <1>4 DEF CalmInv, NoReauth, Rotates, At
  <1>5. ASSUME Calm, row'.status = "active"
        PROVE  KeepsUp' /\ (~net.reauth => Covered')
    BY <1>1, <1>5, RotatesKeeps DEF CalmInv
  <1>6. QED
    BY <1>1, <1>2, <1>3, <1>4, <1>5 DEF CalmInv, Calm

LEMMA CalmSend ==
  ASSUME IInv, CalmInv, net' = net, NEW q \in Requests, NEW kind \in {"api", "reauth"},
         Send(q, kind)
  PROVE  CalmInv'
  <1>1. UNCHANGED <<row, jar, alarm>> /\ (kind = "reauth" => net.reauth)
    BY DEF Send
  <1>2. /\ req'[q].pc = "sent" /\ req'[q].kind = kind
        /\ \A p \in Requests : p # q => req'[p] = req[p]
    BY DEF Send, IInv, TypeOK, Idle
  <1>3. AtRest' /\ (row'.grace => ~row'.due)
    BY <1>1, <1>2 DEF CalmInv, AtRest, At
  <1>4. ASSUME Calm PROVE NoReplay'
    BY <1>1, <1>2, <1>4 DEF CalmInv, NoReplay, At
  <1>5. ASSUME Calm, ~net.reauth PROVE NoReauth'
    BY <1>1, <1>2, <1>5 DEF CalmInv, NoReauth, At
  <1>6. ASSUME Calm, row'.status = "active"
        PROVE  KeepsUp' /\ (~net.reauth => Covered')
    BY <1>1, <1>6, SendKeeps DEF CalmInv
  <1>7. QED
    BY <1>3, <1>4, <1>5, <1>6 DEF CalmInv, Calm

LEMMA CalmReceives ==
  ASSUME IInv, CalmInv, net' = net, NEW q \in Requests, Deliver(q) \/ Lose(q)
  PROVE  CalmInv'
  <1>1. UNCHANGED <<row, alarm>> /\ (Calm => net.ordered /\ Deliver(q))
    BY DEF Deliver, Lose, Calm
  <1>2. /\ req'[q].pc = "idle" /\ req'[q].kind = "api" /\ req'[q].cookie = None
        /\ \A p \in Requests : p # q => req'[p] = req[p]
    BY DEF Deliver, Lose, IInv, TypeOK, Idle
  <1>3. AtRest' /\ (row'.grace => ~row'.due)
    BY <1>1, <1>2 DEF CalmInv, AtRest, At
  <1>4. ASSUME Calm PROVE NoReplay'
    BY <1>1, <1>2, <1>4 DEF CalmInv, NoReplay, At
  <1>5. ASSUME Calm, ~net.reauth PROVE NoReauth'
    BY <1>1, <1>2, <1>5 DEF CalmInv, NoReauth, At
  <1>6. ASSUME Calm, row'.status = "active"
        PROVE  KeepsUp' /\ (~net.reauth => Covered')
    BY <1>1, <1>6, DeliverKeeps DEF CalmInv
  <1>7. QED
    BY <1>3, <1>4, <1>5, <1>6 DEF CalmInv, Calm

\* The steps that end the session: what the requests hold no longer matters.
LEMMA CalmEnds ==
  ASSUME IInv, CalmInv, net' = net, NEW q \in Requests,
         Expire(q) \/ RevokeReplayed(q) \/ SignOut(q) \/ RevokeElsewhere
  PROVE  CalmInv'
  <1>0. row \in Row /\ req \in [Requests -> Request] /\ req[q] \in Request
    BY DEF IInv, TypeOK
  <1>1. row'.status # "active" /\ row'.grace = row.grace /\ row'.due = row.due
    BY <1>0 DEF Expire, RevokeReplayed, SignOut, RevokeElsewhere, Row
  <1>2. \/ req' = req
        \/ /\ req'[q].pc = "reply" /\ req'[q].kind = req[q].kind
           /\ \A p \in Requests : p # q => req'[p] = req[p]
    BY <1>0 DEF Expire, RevokeReplayed, SignOut, RevokeElsewhere, Reject, Request
  <1>3. AtRest'
    BY <1>2 DEF CalmInv, AtRest, At
  <1>4. ASSUME Calm PROVE NoReplay'
    <2>1. ~RevokeReplayed(q)
      BY <1>4 DEF CalmInv, NoReplay, RevokeReplayed
    <2>2. alarm' = alarm
      BY <2>1 DEF Expire, SignOut, RevokeElsewhere
    <2>3. QED
      BY <1>2, <1>4, <2>2 DEF CalmInv, NoReplay, At
  <1>5. ASSUME Calm, ~net.reauth PROVE NoReauth'
    BY <1>2, <1>5 DEF CalmInv, NoReauth, At
  <1>6. QED
    BY <1>1, <1>3, <1>4, <1>5, EndedKeeps DEF CalmInv

LEMMA CalmClock ==
  ASSUME IInv, CalmInv, net' = net, row'.status = "active" => row.status = "active",
         GraceEnds \/ HourPasses \/ RotationDue \/ IdleExpires
  PROVE  CalmInv'
  <1>0. row \in Row
    BY DEF IInv, TypeOK
  <1>1. UNCHANGED <<jar, req, alarm>>
    BY DEF GraceEnds, HourPasses, RotationDue, IdleExpires
  <1>2. /\ AtRest' /\ (Calm => NoReplay') /\ (Calm /\ ~net.reauth => NoReauth')
    BY <1>1 DEF CalmInv, AtRest, NoReplay, NoReauth, At
  <1>3. CASE GraceEnds
    <2>1. ~row'.grace
      BY <1>0, <1>3 DEF GraceEnds, Row
    <2>2. ASSUME Calm, row'.status = "active"
          PROVE  KeepsUp' /\ (~net.reauth => Covered')
      <3>1. KeepsUp /\ AtRest /\ net.prompt /\ (~net.reauth => Covered)
        BY <2>2 DEF CalmInv, Calm
      <3>2. QED
        BY <1>3, <3>1, GraceEndsKeeps
    <2>3. QED
      BY <1>2, <2>1, <2>2 DEF CalmInv, Calm
  <1>4. CASE HourPasses \/ RotationDue \/ IdleExpires
    <2>1. /\ row'.cur = row.cur /\ row'.prev = row.prev /\ row'.grace = row.grace
          /\ row.grace => row'.due = row.due
      BY <1>0, <1>4 DEF HourPasses, RotationDue, IdleExpires, Row
    <2>2. Proceeds
      BY <1>1, <2>1 DEF Proceeds
    <2>3. ASSUME Calm, row'.status = "active"
          PROVE  KeepsUp' /\ (~net.reauth => Covered')
      BY <1>1, <2>2, <2>3, ProceedsKeeps DEF CalmInv
    <2>4. QED
      BY <1>2, <2>1, <2>3 DEF CalmInv, Calm
  <1>5. QED
    BY <1>3, <1>4

LEMMA CalmInit == Init => CalmInv
  <1> SUFFICES ASSUME Init PROVE CalmInv
    OBVIOUS
  <1>1. \A q \in Requests : req[q].pc = "idle" /\ req[q].kind = "api" /\ req[q].cookie = None
    BY DEF Init, Idle
  <1>2. row.cur = 0 /\ jar = 0 /\ row.prev = None /\ ~row.grace /\ ~alarm
    BY DEF Init
  <1>3. None \notin Secrets /\ None # Deleted /\ None # 0
    BY SecretsAreNumbers DEF None, Deleted
  <1>4. KeepsUp /\ Covered
    BY <1>1, <1>2, <1>3 DEF KeepsUp, Covered, At
  <1>5. QED
    BY <1>1, <1>2, <1>4 DEF CalmInv, AtRest, NoReplay, NoReauth, At

LEMMA CalmStep == IInv /\ CalmInv /\ [Next]_vars => CalmInv'
  <1> SUFFICES ASSUME IInv, CalmInv, [Next]_vars PROVE CalmInv'
    OBVIOUS
  <1>1. IInv' /\ net' = net /\ (row'.status = "active" => row.status = "active")
    BY StepIInv, StepEnded DEF Next, vars
  <1>2. ASSUME NEW q \in Requests,
               \/ \E kind \in {"api", "reauth"} : Send(q, kind)
               \/ TurnAway(q) \/ FindIdle(q) \/ Expire(q) \/ FindReplay(q)
               \/ RevokeReplayed(q) \/ Accept(q) \/ Rotate(q) \/ RotationLost(q)
               \/ Reauthenticate(q) \/ Renew(q) \/ Respond(q) \/ SignOut(q)
               \/ Deliver(q) \/ Lose(q)
        PROVE  CalmInv'
    BY <1>1, <1>2, CalmProceeds, CalmRotates, CalmSend, CalmReceives, CalmEnds
  <1>3. CASE GraceEnds \/ HourPasses \/ RotationDue \/ IdleExpires
    BY <1>1, <1>3, CalmClock
  <1>4. CASE RevokeElsewhere
    <2>1. CASE Requests = {}
      <3>1. row'.status # "active" /\ row'.grace = row.grace /\ row'.due = row.due
        BY <1>4 DEF RevokeElsewhere, IInv, TypeOK, Row
      <3>2. QED
        BY <1>1, <1>4, <2>1, <3>1, EndedKeeps
        DEF RevokeElsewhere, CalmInv, AtRest, NoReplay, NoReauth
    <2>2. CASE Requests # {}
      BY <1>1, <1>4, <2>2, CalmEnds
    <2>3. QED
      BY <2>1, <2>2
  <1>5. CASE UNCHANGED vars
    BY <1>5 DEF vars, CalmInv, AtRest, NoReplay, NoReauth, KeepsUp, Covered, Calm, At
  <1>6. QED
    BY <1>2, <1>3, <1>4, <1>5, ZenonT(30) DEF Next

\* What the jar, the cookies and the row have to do with each other on a calm network.
THEOREM CalmInvariant == Spec => []CalmInv
  <1>1. Init => IInv /\ CalmInv
    BY InitIInv, CalmInit
  <1>2. (IInv /\ CalmInv) /\ [Next]_vars => (IInv /\ CalmInv)'
    BY StepIInv, CalmStep
  <1>3. QED
    BY <1>1, <1>2, PTL DEF Spec

-----------------------------------------------------------------------------
\* The browser of an active session on a calm network has the current secret or is being
\* sent it (the Set-Cookie of resolve_user_session_credential's rotation).
THEOREM CalmBrowserKeepsUp == Spec => []BrowserKeepsUp
  <1>1. CalmInv => BrowserKeepsUp
    BY DEF CalmInv, KeepsUp, BrowserKeepsUp
  <1>2. QED
    BY <1>1, CalmInvariant, PTL

\* An honest browser on a calm network never looks like a replay (_reject_credential
\* "suspected_replay" revokes the session).
THEOREM CalmBrowserIsNoReplay == Spec => []NoFalseAlarm
  <1>1. CalmInv => NoFalseAlarm
    BY DEF CalmInv, NoReplay, NoFalseAlarm
  <1>2. QED
    BY <1>1, CalmInvariant, PTL

\* Only an end of the session turns a request away.
LEMMA CalmServes ==
  ASSUME IInv, CalmInv, [Next]_vars, NEW q \in Requests,
         Calm, ~net.reauth, req[q].ok, ~req'[q].ok
  PROVE  row'.status # "active"
  <1>0. /\ req \in [Requests -> Request] /\ row \in Row
        /\ row.status = "active" => KeepsUp /\ Covered /\ AtRest
    BY DEF IInv, TypeOK, CalmInv
  <1>1. \/ \E p \in Requests : TurnAway(p) \/ Expire(p) \/ RevokeReplayed(p) \/ RotationLost(p)
        \/ row'.status # "active"
    <2>1. ASSUME NEW p \in Requests,
                 \/ \E kind \in {"api", "reauth"} : Send(p, kind)
                 \/ Deliver(p) \/ Lose(p)
          PROVE  FALSE
      <3>1. \E w : w.ok /\ req' = [req EXCEPT ![p] = w]
        BY <2>1 DEF Send, Deliver, Lose, Idle
      <3>2. QED
        BY <1>0, <3>1
    <2>2. ASSUME NEW p \in Requests,
                 \/ FindIdle(p) \/ FindReplay(p) \/ Accept(p) \/ Rotate(p)
                 \/ Reauthenticate(p) \/ Renew(p) \/ Respond(p) \/ SignOut(p)
          PROVE  FALSE
      BY <1>0, <2>2 DEF FindIdle, FindReplay, Accept, Rotate, Reauthenticate, Renew, Respond,
                        SignOut, Goto, Request
    <2>3. CASE RevokeElsewhere \/ GraceEnds \/ HourPasses \/ RotationDue \/ IdleExpires
      BY <2>3 DEF RevokeElsewhere, GraceEnds, HourPasses, RotationDue, IdleExpires
    <2>4. CASE UNCHANGED vars
      BY <2>4 DEF vars
    <2>5. QED
      BY <2>1, <2>2, <2>3, <2>4, ZenonT(30) DEF Next
  <1>2. ASSUME NEW p \in Requests, TurnAway(p), row.status = "active" PROVE FALSE
    BY <1>0, <1>2 DEF TurnAway, Covered, UsesCurrent, UsesPrevious, At
  <1>3. ASSUME NEW p \in Requests, RotationLost(p), row.status = "active"
        PROVE  req' = [req EXCEPT ![p].pc = "in"]
    <2>1. At(p, "rotate") /\ ~UsesCurrent(p)
      BY <1>3 DEF RotationLost
    <2>2. UsesPrevious(p) /\ row.grace
      BY <1>0, <1>3, <2>1 DEF Covered, KeepsUp, UsesCurrent, UsesPrevious, At
    <2>3. QED
      BY <1>3, <2>2 DEF RotationLost, Goto
  <1>4. ASSUME NEW p \in Requests, Expire(p) \/ RevokeReplayed(p) PROVE row'.status # "active"
    BY <1>0, <1>4 DEF Expire, RevokeReplayed, Row
  <1>5. ASSUME NEW p \in Requests, TurnAway(p) \/ RotationLost(p) PROVE row'.status # "active"
    <2>1. row' = row
      BY <1>5 DEF TurnAway, RotationLost
    <2>2. ~(RotationLost(p) /\ row.status = "active")
      <3>1. ASSUME req' = [req EXCEPT ![p].pc = "in"] PROVE FALSE
        BY <1>0, <3>1 DEF Request
      <3>2. QED
        BY <1>3, <3>1
    <2>3. QED
      BY <1>2, <1>5, <2>1, <2>2
  <1>6. QED
    BY <1>1, <1>4, <1>5

\* While the session lasts no request of such a browser is refused: neither one that was
\* under way during a rotation nor one that lost the race for it
\* (_previous_secret_is_within_grace, _rotate_user_session_credential).
THEOREM CalmBrowserIsServed == Spec => NotTurnedAway
  <1>1. /\ IInv /\ CalmInv /\ [Next]_vars
        => [\A q \in Requests :
              Calm /\ ~net.reauth /\ req[q].ok /\ ~req'[q].ok => row'.status # "active"]_vars
    BY CalmServes
  <1>2. QED
    BY <1>1, SessionInvariant, CalmInvariant, PTL DEF Spec, NotTurnedAway

=============================================================================
