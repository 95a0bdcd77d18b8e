--------------------------- MODULE IdentityProofs ---------------------------
(***************************************************************************)
(* Proofs about Identity for any number of transactions and handlers: what *)
(* is done once, and who can give a blocked customer access again.         *)
(***************************************************************************)
EXTENDS Identity, TLAPS

Pcs == { "idle", "claim", "exchange", "ask", "load", "decide", "reject", "check", "apply",
         "failed", "restorable", "restore", "link" }

\* Handlers that name a transaction, and those that have claimed it.
Held    == {"claim", "exchange", "ask", "load", "decide", "reject"}
Claimed == {"exchange", "ask", "load", "decide"}

\* A claimed transaction is in the hands of one handler and has no session yet; what has
\* not been claimed has none either.
TransactionsOwned ==
  /\ \A h \in Handlers : hd[h].pc \in Held => /\ hd[h].tx \in Txs
                                              /\ tx[hd[h].tx].status # "absent"
  /\ \A h \in Handlers : hd[h].pc \in Claimed => /\ tx[hd[h].tx].status # "pending"
                                                 /\ made[hd[h].tx] = 0
  /\ \A g, h \in Handlers : hd[g].pc \in Claimed /\ hd[h].pc \in Claimed /\ g # h
                              => hd[g].tx # hd[h].tx
  /\ \A t \in Txs : tx[t].status \in {"absent", "pending"} => made[t] = 0
  /\ \A t \in Txs : made[t] <= 1

\* The three other parts of EverythingOnce.
AccountOnce ==
  /\ accounts = IF identity.link = "personal" THEN 1 ELSE 0
  /\ identity.link = "personal" => ~legacy
  /\ recovery = "completed" <=> identity.link = "legacy"

IInv == TypeOK /\ TransactionsOwned /\ AccountOnce

\* One closing transaction at a time, and it decides on the row as it is.
DecidesOnRow ==
  /\ \A g, h \in Handlers : Closing(g) /\ Closing(h) => g = h
  /\ \A h \in Handlers : hd[h].pc = "decide" => hd[h].saw = identity

\* Only the row of a customer who is not blocked can be claimed for a check.
AccessFollowsRow ==
  /\ identity.link = "none" => identity.status = "active"
  /\ identity.token # NoClaim => identity.status = "active" /\ identity.link # "none"
  /\ Blocked => ~HasCredentials

BlockInv == ~overlap => DecidesOnRow /\ AccessFollowsRow

-----------------------------------------------------------------------------
(***************************************************************************)
(* What a step does to the handlers' and the transactions' records.        *)
(***************************************************************************)
OthersStay(h) == \A g \in Handlers \ {h} : hd'[g] = hd[g]

\* A handler that ends is idle.
LEMMA FinishEffect ==
  ASSUME TypeOK, NEW h \in Handlers, Finish(h)
  PROVE  /\ hd' \in [Handlers -> Handler]
         /\ hd'[h] = Idle /\ hd'[h].pc = "idle"
         /\ OthersStay(h)
<1>1. Idle \in Handler
  BY DEF Idle, Handler, NoRow, Row, ProviderStatus
<1> QED
  BY <1>1 DEF TypeOK, Finish, Idle, OthersStay

\* Goto changes the step of one handler only.
LEMMA GotoEffect ==
  ASSUME TypeOK, NEW h \in Handlers, NEW pc \in Pcs, Goto(h, pc)
  PROVE  /\ hd' \in [Handlers -> Handler]
         /\ hd'[h].pc = pc /\ hd'[h].tx = hd[h].tx /\ hd'[h].saw = hd[h].saw
         /\ OthersStay(h)
<1> PICK v \in Handler : v = hd[h]
  BY DEF TypeOK
<1> DEFINE w == [v EXCEPT !.pc = pc]
<1>1. /\ w \in Handler
      /\ w.pc = pc /\ w.tx = v.tx /\ w.saw = v.saw
  BY DEF Handler, Pcs
<1>2. hd' = [hd EXCEPT ![h] = w]
  BY DEF Goto, TypeOK
<1> HIDE DEF w
<1> QED
  BY <1>1, <1>2 DEF TypeOK, OthersStay

\* Taking a transaction up.
LEMMA TakeEffect ==
  ASSUME TypeOK, NEW h \in Handlers, NEW pc \in Pcs, NEW t \in Txs,
         hd' = [hd EXCEPT ![h].pc = pc, ![h].tx = t]
  PROVE  /\ hd' \in [Handlers -> Handler]
         /\ hd'[h].pc = pc /\ hd'[h].tx = t
         /\ OthersStay(h)
<1> PICK v \in Handler : v = hd[h]
  BY DEF TypeOK
<1> DEFINE w == [v EXCEPT !.pc = pc, !.tx = t]
<1>1. w \in Handler /\ w.pc = pc /\ w.tx = t
  BY DEF Handler, Pcs
<1>2. hd' = [hd EXCEPT ![h] = w]
  BY DEF TypeOK
<1> HIDE DEF w
<1> QED
  BY <1>1, <1>2 DEF TypeOK, OthersStay

\* The provider's answer is kept.
LEMMA AnswerEffect ==
  ASSUME TypeOK, NEW h \in Handlers, NEW pc \in Pcs,
         hd' = [hd EXCEPT ![h].pc = pc, ![h].answer = provider]
  PROVE  /\ hd' \in [Handlers -> Handler]
         /\ hd'[h].pc = pc /\ hd'[h].tx = hd[h].tx
         /\ OthersStay(h)
<1> PICK v \in Handler : v = hd[h]
  BY DEF TypeOK
<1> DEFINE w == [v EXCEPT !.pc = pc, !.answer = provider]
<1>1. w \in Handler /\ w.pc = pc /\ w.tx = v.tx
  BY DEF Handler, Pcs, TypeOK
<1>2. hd' = [hd EXCEPT ![h] = w]
  BY DEF TypeOK
<1> HIDE DEF w
<1> QED
  BY <1>1, <1>2 DEF TypeOK, OthersStay

\* The row is read.
LEMMA LoadEffect ==
  ASSUME TypeOK, NEW h \in Handlers, LoadIdentity(h)
  PROVE  /\ hd' \in [Handlers -> Handler]
         /\ hd'[h].pc = "decide" /\ hd'[h].tx = hd[h].tx /\ hd'[h].saw = identity
         /\ OthersStay(h)
<1> PICK v \in Handler : v = hd[h]
  BY DEF TypeOK
<1> DEFINE w == [v EXCEPT !.pc = "decide", !.saw = identity]
<1>1. w \in Handler /\ w.pc = "decide" /\ w.tx = v.tx /\ w.saw = identity
  BY DEF Handler, TypeOK
<1>2. hd' = [hd EXCEPT ![h] = w]
  BY DEF TypeOK, LoadIdentity
<1> HIDE DEF w
<1> QED
  BY <1>1, <1>2 DEF TypeOK, OthersStay

\* One transaction gets a status.
LEMMA EndsEffect ==
  ASSUME TypeOK, NEW h \in Handlers, NEW st \in {"processing", "completed", "rejected"},
         hd[h].tx \in Txs, Ends(h, st)
  PROVE  /\ tx' \in [Txs -> Transaction]
         /\ tx'[hd[h].tx].status = st
         /\ \A t \in Txs \ {hd[h].tx} : tx'[t] = tx[t]
<1> PICK t \in Txs : t = hd[h].tx
  OBVIOUS
<1> PICK v \in Transaction : v = tx[t]
  BY DEF TypeOK
<1> DEFINE w == [v EXCEPT !.status = st]
<1>1. w \in Transaction /\ w.status = st
  BY DEF Transaction
<1>2. tx' = [tx EXCEPT ![t] = w]
  BY DEF TypeOK, Ends
<1> HIDE DEF w
<1> QED
  BY <1>1, <1>2 DEF TypeOK

\* A row whose status may become disabled and nothing else.
LEMMA RecordEffect ==
  ASSUME TypeOK, NEW saw \in Row, NEW st \in ProviderStatus, RecordConfirmed(saw, st)
  PROVE  /\ identity' \in Row
         /\ identity'.link = identity.link
         /\ identity'.status \in {identity.status, "disabled"}
         /\ st # "disabled" => identity'.status = identity.status
         /\ saw = identity => identity'.token = NoClaim
<1> PICK v \in Row : v = identity
  BY DEF TypeOK
<1>1. /\ v.status \in {"active", "disabled"} /\ v.token \in Handlers \cup {NoClaim}
      /\ v.link \in {"none", "personal", "legacy"}
  BY DEF Row
<1> DEFINE token  == IF saw.token = NoClaim THEN v.token ELSE NoClaim
           status == IF st = "disabled" /\ saw.status # "disabled" THEN "disabled" ELSE v.status
           w == [v EXCEPT !.due = FALSE, !.token = token, !.status = status]
<1>2. /\ token \in Handlers \cup {NoClaim} /\ status \in {v.status, "disabled"}
      /\ status \in {"active", "disabled"}
      /\ st # "disabled" => status = v.status
      /\ saw = v => token = NoClaim
  BY <1>1
<1>3. identity' = w
  BY DEF RecordConfirmed
<1> HIDE DEF token, status
<1>4. w \in Row /\ w.link = v.link /\ w.status = status /\ w.token = token
  BY <1>2 DEF Row
<1> HIDE DEF w
<1> QED
  BY <1>2, <1>3, <1>4

\* Sessions only end.
LEMMA RevokeEffect ==
  ASSUME TypeOK, NEW st \in ProviderStatus, RevokeUnlessActive(st)
  PROVE  /\ sess' \in [Txs -> {"none", "active", "revoked"}] /\ apiToken' \in BOOLEAN
         /\ st # "active" => ~HasCredentials'
         /\ ~HasCredentials => ~HasCredentials'
<1>1. sess' \in [Txs -> {"none", "active", "revoked"}] /\ apiToken' \in BOOLEAN
  BY DEF TypeOK, RevokeUnlessActive
<1>2. st # "active" => ~HasCredentials'
  BY DEF TypeOK, RevokeUnlessActive, HasCredentials, HasSession
<1>3. st = "active" => sess' = sess /\ (apiToken' => apiToken)
  BY DEF TypeOK, RevokeUnlessActive
<1> QED
  BY <1>1, <1>2, <1>3 DEF HasCredentials, HasSession

-----------------------------------------------------------------------------
(***************************************************************************)
(* Transactions: a step of a handler keeps them, claims one or ends one.   *)
(***************************************************************************)
Keeps(h) ==
  /\ tx' = tx /\ made' = made
  /\ hd'[h].pc \in Claimed => hd[h].pc \in Claimed /\ hd'[h].tx = hd[h].tx
  /\ hd'[h].pc \in Held => hd'[h].tx \in Txs /\ tx[hd'[h].tx].status # "absent"
  /\ OthersStay(h)

EndsOne(h) ==
  /\ hd[h].pc \in Held /\ hd'[h].pc = "idle"
  /\ tx' \in [Txs -> Transaction]
  /\ tx'[hd[h].tx].status \in {"completed", "rejected"}
  /\ \A t \in Txs \ {hd[h].tx} : tx'[t] = tx[t]
  /\ \/ made' = made
     \/ hd[h].pc \in Claimed /\ made' = [made EXCEPT ![hd[h].tx] = @ + 1]
  /\ OthersStay(h)

LEMMA KeepsOwned ==
  ASSUME TypeOK, TransactionsOwned, NEW h \in Handlers, Keeps(h)
  PROVE  TransactionsOwned'
<1>1. ASSUME NEW g \in Handlers
      PROVE  /\ hd'[g].pc \in Claimed => hd[g].pc \in Claimed /\ hd'[g].tx = hd[g].tx
             /\ hd'[g].pc \in Held => hd'[g].tx \in Txs /\ tx[hd'[g].tx].status # "absent"
  BY DEF Keeps, OthersStay, TransactionsOwned
<1>2. tx' = tx /\ made' = made
  BY DEF Keeps
<1> QED
  BY <1>1, <1>2 DEF TransactionsOwned

LEMMA EndsOwned ==
  ASSUME TypeOK, TransactionsOwned, NEW h \in Handlers, EndsOne(h)
  PROVE  /\ TransactionsOwned'
         /\ made' \in [Txs -> Nat]
<1> PICK t \in Txs : t = hd[h].tx
  BY DEF EndsOne, TransactionsOwned
<1>1. /\ tx'[t].status \in {"completed", "rejected"}
      /\ \A u \in Txs : u # t => tx'[u] = tx[u]
  BY DEF EndsOne
<1>2. \A g \in Handlers : hd'[g].pc \in Held => g # h /\ hd'[g] = hd[g]
  BY DEF EndsOne, OthersStay, Held
<1>3. \A g \in Handlers : hd'[g].pc \in Claimed => hd[g].pc \in Claimed /\ g # h /\ hd'[g] = hd[g]
  BY <1>2 DEF Held, Claimed
<1>4. /\ made' \in [Txs -> Nat]
      /\ \A u \in Txs : u # t => made'[u] = made[u]
      /\ made'[t] <= 1
      /\ made'[t] = made[t] \/ hd[h].pc \in Claimed
  <2>1. CASE made' = made
    BY <2>1 DEF TypeOK, TransactionsOwned
  <2>2. CASE hd[h].pc \in Claimed /\ made' = [made EXCEPT ![t] = @ + 1]
    <3>1. made[t] = 0
      BY <2>2 DEF TransactionsOwned
    <3> QED
      BY <2>2, <3>1 DEF TypeOK
  <2> QED
    BY <2>1, <2>2 DEF EndsOne
<1>5. \A g \in Handlers : hd'[g].pc \in Held => /\ hd'[g].tx \in Txs
                                                /\ tx'[hd'[g].tx].status # "absent"
  BY <1>1, <1>2 DEF TransactionsOwned
<1>6. ASSUME NEW g \in Handlers, hd'[g].pc \in Claimed
      PROVE  tx'[hd'[g].tx].status # "pending" /\ made'[hd'[g].tx] = 0
  <2>1. /\ g # h /\ hd'[g] = hd[g] /\ hd[g].pc \in Claimed /\ hd[g].tx \in Txs
        /\ tx[hd[g].tx].status # "pending" /\ made[hd[g].tx] = 0
    BY <1>3, <1>6 DEF TransactionsOwned, Held, Claimed
  <2>2. CASE hd[g].tx # t
    BY <2>1, <2>2, <1>1, <1>4
  <2>3. CASE hd[g].tx = t
    <3>1. hd[h].pc \notin Claimed
      BY <2>1, <2>3 DEF TransactionsOwned
    <3> QED
      BY <2>1, <2>3, <3>1, <1>1, <1>4
  <2> QED
    BY <2>2, <2>3
<1>7. \A f, g \in Handlers : hd'[f].pc \in Claimed /\ hd'[g].pc \in Claimed /\ f # g
                               => hd'[f].tx # hd'[g].tx
  BY <1>3 DEF TransactionsOwned
<1>8. ASSUME NEW u \in Txs
      PROVE  /\ tx'[u].status \in {"absent", "pending"} => made'[u] = 0
             /\ made'[u] <= 1
  BY <1>1, <1>4 DEF TransactionsOwned
<1> QED
  BY <1>4, <1>5, <1>6, <1>7, <1>8 DEF TransactionsOwned

\* What TypeOK says of a record's parts, for the steps below.
LEMMA HandlerTyped ==
  ASSUME TypeOK, NEW h \in Handlers
  PROVE  /\ hd[h].pc \in Pcs /\ hd[h].tx \in Txs \cup {NoTx}
         /\ hd[h].answer \in ProviderStatus /\ hd[h].saw \in Row
BY DEF TypeOK, Handler, Pcs

\* The closing steps of a login or a recent authentication.
LEMMA DecideOwned ==
  ASSUME TypeOK, TransactionsOwned, NEW h \in Handlers, Decide(h)
  PROVE  TypeOK' /\ TransactionsOwned'
<1> DEFINE Goal == /\ EndsOne(h)
                   /\ hd' \in [Handlers -> Handler]
                   /\ identity' \in Row
                   /\ sess' \in [Txs -> {"none", "active", "revoked"}]
                   /\ apiToken' \in BOOLEAN
                   /\ accounts' \in Nat
                   /\ recovery' \in {"none", "pending", "completed"}
                   /\ UNCHANGED <<overlap, legacy, provider>>
<1> SUFFICES Goal
  BY EndsOwned DEF TypeOK, EndsOne
<1>0. /\ hd[h].pc = "decide" /\ hd[h].pc \in Held /\ hd[h].pc \in Claimed
      /\ hd[h].tx \in Txs /\ made[hd[h].tx] = 0
      /\ tx[hd[h].tx].status \notin {"absent", "pending"}
  BY DEF Decide, RejectInactive, Deny, CompleteRecentAuthentication, RequireAccountLink,
         Onboard, LogIn, Deciding, Held, Claimed, TransactionsOwned
<1>1. /\ hd[h].answer \in ProviderStatus /\ hd[h].saw \in Row
  BY HandlerTyped
<1>f. ASSUME Finish(h)
      PROVE  hd' \in [Handlers -> Handler] /\ hd'[h].pc = "idle" /\ OthersStay(h)
  BY <1>f, FinishEffect
<1>e. ASSUME NEW st \in {"completed", "rejected"}, Ends(h, st)
      PROVE  /\ tx' \in [Txs -> Transaction]
             /\ tx'[hd[h].tx].status \in {"completed", "rejected"}
             /\ \A t \in Txs \ {hd[h].tx} : tx'[t] = tx[t]
  BY <1>e, <1>0, EndsEffect
<1>t. identity \in Row /\ sess \in [Txs -> {"none", "active", "revoked"}]
      /\ apiToken \in BOOLEAN /\ accounts \in Nat /\ recovery \in {"none", "pending", "completed"}
  BY DEF TypeOK
<1>2. CASE RejectInactive(h)
  <2>1. /\ identity' \in Row /\ sess' \in [Txs -> {"none", "active", "revoked"}]
        /\ apiToken' \in BOOLEAN
    <3>1. CASE hd[h].saw.link = "none"
      BY <1>2, <1>t, <3>1 DEF RejectInactive
    <3>2. CASE hd[h].saw.link # "none"
      <4>1. RecordConfirmed(hd[h].saw, hd[h].answer) /\ RevokeUnlessActive(hd[h].answer)
        BY <1>2, <3>2 DEF RejectInactive
      <4> QED
        BY <4>1, <1>1, RecordEffect, RevokeEffect
    <3> QED
      BY <3>1, <3>2
  <2> QED
    BY <1>2, <1>0, <1>f, <1>e, <1>t, <2>1 DEF RejectInactive, EndsOne
<1>3. CASE Deny(h)
  BY <1>3, <1>0, <1>f, <1>e, <1>t DEF Deny, EndsOne
<1>4. CASE CompleteRecentAuthentication(h)
  <2>1. identity' \in Row
    BY <1>4, <1>1, <1>t, RecordEffect DEF CompleteRecentAuthentication, ProviderStatus
  <2> QED
    BY <1>4, <1>0, <1>f, <1>e, <1>t, <2>1 DEF CompleteRecentAuthentication, EndsOne
<1>5. CASE RequireAccountLink(h)
  BY <1>5, <1>0, <1>f, <1>e, <1>t DEF RequireAccountLink, EndsOne
<1>n. ASSUME NewSession(h)
      PROVE  /\ sess' \in [Txs -> {"none", "active", "revoked"}]
             /\ made' = [made EXCEPT ![hd[h].tx] = @ + 1]
             /\ Ends(h, "completed")
  BY <1>n, <1>t DEF NewSession
<1>6. CASE Onboard(h)
  <2>1. CASE identity.link = "none"
    <3>1. /\ NewSession(h) /\ Finish(h) /\ accounts' \in Nat
          /\ UNCHANGED <<overlap, legacy, provider, recovery, apiToken>>
      BY <1>6, <1>t, <2>1 DEF Onboard
    <3>2. identity' \in Row
      BY <1>6, <2>1 DEF Onboard, NoRow, Row
    <3> QED
      BY <3>1, <3>2, <1>0, <1>f, <1>e, <1>n, <1>t DEF EndsOne
  <2>2. CASE identity.link # "none"
    <3>1. /\ Finish(h)
          /\ tx' = [tx EXCEPT ![hd[h].tx].status = IF @ = "processing" THEN "rejected" ELSE @]
          /\ UNCHANGED <<overlap, legacy, provider, identity, accounts, recovery, apiToken, sess, made>>
      BY <1>6, <2>2 DEF Onboard
    <3>2. /\ tx' \in [Txs -> Transaction]
          /\ tx'[hd[h].tx].status \in {"completed", "rejected"}
          /\ \A t \in Txs \ {hd[h].tx} : tx'[t] = tx[t]
      <4> PICK t \in Txs : t = hd[h].tx
        BY <1>0
      <4> PICK v \in Transaction : v = tx[t]
        BY DEF TypeOK
      <4> DEFINE st == IF v.status = "processing" THEN "rejected" ELSE v.status
                 w  == [v EXCEPT !.status = st]
      <4>1. st \in {"completed", "rejected"}
        BY <1>0 DEF Transaction
      <4>2. tx' = [tx EXCEPT ![t] = w]
        BY <3>1 DEF TypeOK
      <4> HIDE DEF st
      <4>3. w \in Transaction /\ w.status = st
        BY <4>1 DEF Transaction
      <4> HIDE DEF w
      <4> QED
        BY <4>1, <4>2, <4>3 DEF TypeOK
    <3> QED
      BY <3>1, <3>2, <1>0, <1>f, <1>t DEF EndsOne
  <2> QED
    BY <2>1, <2>2
<1>7. CASE LogIn(h)
  <2>1. CASE hd[h].saw.status = "active"
    <3>1. /\ NewSession(h) /\ Finish(h) /\ RecordConfirmed(hd[h].saw, "active")
          /\ UNCHANGED <<overlap, legacy, provider, accounts, recovery, apiToken>>
      BY <1>7, <2>1 DEF LogIn
    <3>2. identity' \in Row
      BY <3>1, <1>1, RecordEffect DEF ProviderStatus
    <3> QED
      BY <3>1, <3>2, <1>0, <1>f, <1>e, <1>n, <1>t DEF EndsOne
  <2>2. CASE hd[h].saw.status # "active"
    BY <1>7, <2>2, <1>0, <1>f, <1>e, <1>t DEF LogIn, EndsOne
  <2> QED
    BY <2>1, <2>2
<1> QED
  BY <1>2, <1>3, <1>4, <1>5, <1>6, <1>7 DEF Decide

\* The steps of a handler that end no login: most leave the transactions alone, one claims.
LEMMA ServeOwned ==
  ASSUME TypeOK, TransactionsOwned, NEW h \in Handlers, Serve(h)
  PROVE  TypeOK' /\ TransactionsOwned'
<1> DEFINE Same == UNCHANGED <<overlap, legacy, provider>>
           Rows == /\ identity' \in Row
                   /\ sess' \in [Txs -> {"none", "active", "revoked"}]
                   /\ apiToken' \in BOOLEAN
                   /\ accounts' \in Nat
                   /\ recovery' \in {"none", "pending", "completed"}
<1>t. /\ identity \in Row /\ sess \in [Txs -> {"none", "active", "revoked"}]
      /\ apiToken \in BOOLEAN /\ accounts \in Nat /\ recovery \in {"none", "pending", "completed"}
      /\ hd[h].pc \in Pcs /\ hd[h].answer \in ProviderStatus
  BY HandlerTyped DEF TypeOK
<1>h. hd[h].pc \in Held => hd[h].tx \in Txs /\ tx[hd[h].tx].status # "absent"
  BY DEF TransactionsOwned
<1>k. ASSUME Keeps(h), hd' \in [Handlers -> Handler], Same, Rows
      PROVE  TypeOK' /\ TransactionsOwned'
  BY <1>k, KeepsOwned DEF TypeOK, Keeps
<1>g. ASSUME NEW pc \in Pcs \ Held, Goto(h, pc), tx' = tx, made' = made, Same, Rows
      PROVE  TypeOK' /\ TransactionsOwned'
  BY <1>g, <1>k, GotoEffect DEF Keeps, Held, Claimed
<1>f. ASSUME Finish(h), tx' = tx, made' = made, Same, Rows
      PROVE  TypeOK' /\ TransactionsOwned'
  BY <1>f, <1>k, FinishEffect DEF Keeps, Held, Claimed
<1>1. CASE \E t \in Txs : Callback(h, t)
  <2> PICK t \in Txs : Callback(h, t)
    BY <1>1
  <2> PICK pc \in {"claim", "reject"} : hd' = [hd EXCEPT ![h].pc = pc, ![h].tx = t]
    BY DEF Callback
  <2>1. pc \in Pcs /\ pc \notin Claimed
    BY DEF Pcs, Claimed
  <2>2. /\ hd' \in [Handlers -> Handler] /\ hd'[h].pc = pc /\ hd'[h].tx = t /\ OthersStay(h)
    BY <2>1, TakeEffect
  <2> QED
    BY <1>k, <1>t, <2>1, <2>2 DEF Callback, Keeps
<1>2. CASE \E t \in Txs : ProviderRefuses(h, t)
  <2> PICK t \in Txs : ProviderRefuses(h, t)
    BY <1>2
  <2>1. "reject" \in Pcs /\ "reject" \notin Claimed
    BY DEF Pcs, Claimed
  <2>2. /\ hd' \in [Handlers -> Handler] /\ hd'[h].pc = "reject" /\ hd'[h].tx = t /\ OthersStay(h)
    BY <2>1, TakeEffect DEF ProviderRefuses
  <2> QED
    BY <1>k, <1>t, <2>1, <2>2 DEF ProviderRefuses, Keeps
<1>3. CASE ClaimTransaction(h)
  <2>0. hd[h].pc = "claim" /\ hd[h].tx \in Txs /\ tx[hd[h].tx].status # "absent"
    BY <1>3, <1>h DEF ClaimTransaction, Held
  <2>1. CASE tx[hd[h].tx].status # "pending"
    BY <1>3, <2>1, <1>f, <1>t DEF ClaimTransaction
  <2>2. CASE tx[hd[h].tx].status = "pending"
    <3> PICK t \in Txs : t = hd[h].tx
      BY <2>0
    <3>1. Ends(h, "processing") /\ Goto(h, "exchange")
      BY <1>3, <2>2 DEF ClaimTransaction
    <3>2. /\ tx' \in [Txs -> Transaction] /\ tx'[t].status = "processing"
          /\ \A u \in Txs : u # t => tx'[u] = tx[u]
      BY <3>1, EndsEffect
    <3>3. /\ hd' \in [Handlers -> Handler] /\ hd'[h].pc = "exchange" /\ hd'[h].tx = t
          /\ OthersStay(h)
      BY <3>1, GotoEffect DEF Pcs
    <3>4. made' = made /\ made[t] = 0
      BY <1>3, <2>2 DEF ClaimTransaction, TransactionsOwned
    <3>5. \A g \in Handlers : hd[g].pc \in Claimed => hd[g].tx # t
      BY <2>2 DEF TransactionsOwned
    <3>6. \A g \in Handlers : g # h => hd'[g] = hd[g]
      BY <3>3 DEF OthersStay
    <3>7. \A g \in Handlers : hd'[g].pc \in Held => /\ hd'[g].tx \in Txs
                                                    /\ tx'[hd'[g].tx].status # "absent"
      BY <3>2, <3>3, <3>6 DEF TransactionsOwned
    <3>8. \A g \in Handlers : hd'[g].pc \in Claimed => /\ tx'[hd'[g].tx].status # "pending"
                                                       /\ made'[hd'[g].tx] = 0
      BY <3>2, <3>3, <3>4, <3>6, <3>7 DEF TransactionsOwned, Held, Claimed
    <3>9. \A f, g \in Handlers : hd'[f].pc \in Claimed /\ hd'[g].pc \in Claimed /\ f # g
                                   => hd'[f].tx # hd'[g].tx
      BY <3>3, <3>5, <3>6 DEF TransactionsOwned
    <3>10. \A u \in Txs : /\ tx'[u].status \in {"absent", "pending"} => made'[u] = 0
                          /\ made'[u] <= 1
      BY <3>2, <3>4 DEF TransactionsOwned
    <3>11. TransactionsOwned'
      BY <3>7, <3>8, <3>9, <3>10 DEF TransactionsOwned
    <3> QED
      BY <1>3, <3>2, <3>3, <3>4, <3>11 DEF ClaimTransaction, TypeOK
  <2> QED
    BY <2>1, <2>2
<1>4. CASE Exchange(h)
  <2> PICK pc \in {"ask", "reject"} : Goto(h, pc)
    BY <1>4 DEF Exchange
  <2>1. /\ hd' \in [Handlers -> Handler] /\ hd'[h].pc = pc /\ hd'[h].tx = hd[h].tx
        /\ OthersStay(h)
    BY GotoEffect DEF Pcs
  <2> QED
    BY <1>4, <1>k, <1>h, <1>t, <2>1 DEF Exchange, Keeps, Held, Claimed
<1>5. CASE AskStatus(h)
  <2>1. PICK pc \in {"load", "reject"} :
           /\ hd' \in [Handlers -> Handler] /\ hd'[h].pc = pc /\ hd'[h].tx = hd[h].tx
           /\ OthersStay(h)
    BY <1>5, GotoEffect, AnswerEffect DEF AskStatus, Pcs
  <2> QED
    BY <1>5, <1>k, <1>h, <1>t, <2>1 DEF AskStatus, Keeps, Held, Claimed
<1>6. CASE LoadIdentity(h)
  BY <1>6, <1>k, <1>h, <1>t, LoadEffect DEF LoadIdentity, Keeps, Held, Claimed
<1>7. CASE Reject(h)
  <2>1. hd[h].pc \in Held /\ hd[h].tx \in Txs
    BY <1>7, <1>h DEF Reject, Held
  <2>2. /\ tx' \in [Txs -> Transaction] /\ tx'[hd[h].tx].status = "rejected"
        /\ \A t \in Txs \ {hd[h].tx} : tx'[t] = tx[t]
    BY <1>7, <2>1, EndsEffect DEF Reject
  <2>3. hd' \in [Handlers -> Handler] /\ hd'[h].pc = "idle" /\ OthersStay(h)
    BY <1>7, FinishEffect DEF Reject
  <2>4. EndsOne(h)
    BY <1>7, <2>1, <2>2, <2>3 DEF EndsOne, Reject
  <2> QED
    BY <1>7, <2>2, <2>3, <2>4, EndsOwned DEF TypeOK, Reject
<1>8. CASE Decide(h)
  BY <1>8, DecideOwned
<1>9. CASE ClaimCheck(h)
  <2>1. identity' \in Row
    BY <1>9, <1>t DEF ClaimCheck, Row
  <2> QED
    BY <1>9, <1>g, <1>t, <2>1 DEF ClaimCheck, Pcs, Held
<1>10. CASE Answer(h)
  <2>1. hd' \in [Handlers -> Handler] /\ hd'[h].pc = "apply" /\ OthersStay(h)
    BY <1>10, AnswerEffect DEF Answer, Pcs
  <2> QED
    BY <1>10, <1>k, <1>t, <2>1 DEF Answer, Keeps, Held, Claimed
<1>11. CASE NoAnswer(h)
  BY <1>11, <1>g, <1>t DEF NoAnswer, Pcs, Held
<1>12. CASE RecordFailedClaim(h)
  <2>1. identity' \in Row
    BY <1>12, <1>t DEF RecordFailedClaim, Row
  <2> QED
    BY <1>12, <1>f, <1>t, <2>1 DEF RecordFailedClaim
<1>13. CASE ApplyConfirmedClaim(h)
  <2>1. CASE identity.token = h
    <3>1. identity' \in Row
      BY <1>13, <1>t, <2>1 DEF ApplyConfirmedClaim, Row, LocalStatus
    <3>2. sess' \in [Txs -> {"none", "active", "revoked"}] /\ apiToken' \in BOOLEAN
      BY <1>13, <1>t, <2>1, RevokeEffect DEF ApplyConfirmedClaim
    <3> QED
      BY <1>13, <1>f, <1>t, <3>1, <3>2 DEF ApplyConfirmedClaim
  <2>2. CASE identity.token # h
    BY <1>13, <1>f, <1>t, <2>2 DEF ApplyConfirmedClaim
  <2> QED
    BY <2>1, <2>2
<1>14. CASE FindRestorable(h)
  BY <1>14, <1>g, <1>t DEF FindRestorable, Pcs, Held
<1>15. CASE AskForRestoration(h)
  BY <1>15, <1>f, <1>g, <1>t DEF AskForRestoration, Pcs, Held
<1>16. CASE Restore(h)
  <2>1. identity' \in Row
    BY <1>16, <1>t DEF Restore, Row
  <2> QED
    BY <1>16, <1>f, <1>t, <2>1 DEF Restore
<1>17. CASE FindLinkable(h)
  BY <1>17, <1>g, <1>t DEF FindLinkable, Pcs, Held
<1>18. CASE CreateAccountLink(h)
  <2>1. identity' \in Row /\ recovery' \in {"none", "pending", "completed"}
    BY <1>18, <1>t DEF CreateAccountLink, NoRow, Row
  <2> QED
    BY <1>18, <1>f, <1>t, <2>1 DEF CreateAccountLink
<1>19. CASE Dies(h)
  BY <1>19, <1>f, <1>t DEF Dies
<1> QED
  BY <1>1, <1>2, <1>3, <1>4, <1>5, <1>6, <1>7, <1>8, <1>9, <1>10, <1>11, <1>12, <1>13, <1>14,
     <1>15, <1>16, <1>17, <1>18, <1>19 DEF Serve

\* Logins that begin, sessions that are revoked, and what happens at the provider.
LEMMA OthersOwned ==
  ASSUME TypeOK, TransactionsOwned, Others
  PROVE  TypeOK' /\ TransactionsOwned'
<1>1. ASSUME NEW t \in Txs, NEW w \in Transaction, w.status = "pending",
             tx[t].status = "absent", tx' = [tx EXCEPT ![t] = w],
             UNCHANGED <<overlap, legacy, provider, identity, accounts, recovery, apiToken, sess, made, hd>>
      PROVE  TypeOK' /\ TransactionsOwned'
  <2>1. /\ tx' \in [Txs -> Transaction] /\ tx'[t].status = "pending"
        /\ \A u \in Txs : u # t => tx'[u] = tx[u]
    BY <1>1 DEF TypeOK
  <2>2. \A h \in Handlers : hd[h].pc \in Held => hd[h].tx # t
    BY <1>1 DEF TransactionsOwned
  <2>3. TypeOK'
    BY <1>1, <2>1 DEF TypeOK
  <2>4. hd' = hd /\ made' = made
    BY <1>1
  <2>5. \A h \in Handlers : hd[h].pc \in Claimed => hd[h].pc \in Held
    BY DEF Claimed, Held
  <2> QED
    BY <1>1, <2>1, <2>2, <2>3, <2>4, <2>5 DEF TransactionsOwned
<1>2. CASE \E t \in Txs : StartLogin(t)
  <2> PICK t \in Txs : StartLogin(t)
    BY <1>2
  <2> PICK v \in Transaction : v = tx[t]
    BY DEF TypeOK
  <2> DEFINE w == [v EXCEPT !.status = "pending"]
  <2>1. w \in Transaction /\ w.status = "pending" /\ v.status = "absent"
    BY DEF Transaction, StartLogin
  <2>2. tx' = [tx EXCEPT ![t] = w]
    BY DEF StartLogin, TypeOK
  <2> HIDE DEF w
  <2> QED
    BY <1>1, <2>1, <2>2 DEF StartLogin
<1>3. CASE \E t, s \in Txs : StartRecentAuthentication(t, s)
  <2> PICK t \in Txs, s \in Txs : StartRecentAuthentication(t, s)
    BY <1>3
  <2> DEFINE w == [status |-> "pending", for |-> s]
  <2>1. w \in Transaction /\ w.status = "pending"
    BY DEF Transaction
  <2> HIDE DEF w
  <2> QED
    BY <1>1, <2>1 DEF StartRecentAuthentication, w
<1>4. CASE \E t \in Txs : RevokeSession(t) \/ RevokeOtherSessions(t)
  <2>1. /\ sess' \in [Txs -> {"none", "active", "revoked"}]
        /\ UNCHANGED <<overlap, legacy, provider, identity, accounts, recovery, apiToken, tx, made, hd>>
    BY <1>4 DEF RevokeSession, RevokeOtherSessions, TypeOK
  <2> QED
    BY <2>1 DEF TypeOK, TransactionsOwned
<1>5. CASE CheckFallsDue
  <2>1. identity' \in Row
    BY <1>5 DEF CheckFallsDue, TypeOK, Row
  <2> QED
    BY <1>5, <2>1 DEF CheckFallsDue, TypeOK, TransactionsOwned
<1>6. CASE ProviderChanges
  BY <1>6 DEF ProviderChanges, TypeOK, TransactionsOwned
<1> QED
  BY <1>2, <1>3, <1>4, <1>5, <1>6 DEF Others

-----------------------------------------------------------------------------
(***************************************************************************)
(* Accounts: only onboarding and the operator's link give the row a user.  *)
(***************************************************************************)
LEMMA AccountStep ==
  ASSUME TypeOK, AccountOnce, Next
  PROVE  AccountOnce'
<1>q. ASSUME identity'.link = identity.link, UNCHANGED <<legacy, accounts, recovery>>
      PROVE  AccountOnce'
  BY <1>q DEF AccountOnce
<1>t. identity \in Row
  BY DEF TypeOK
<1>1. ASSUME NEW h \in Handlers, Decide(h)
      PROVE  AccountOnce'
  <2>r. ASSUME NEW st \in ProviderStatus, RecordConfirmed(hd[h].saw, st)
        PROVE  identity'.link = identity.link
    BY <2>r, RecordEffect, HandlerTyped
  <2>1. CASE RejectInactive(h)
    BY <2>1, <2>r, <1>q, HandlerTyped DEF RejectInactive
  <2>2. CASE Deny(h)
    BY <2>2, <1>q DEF Deny
  <2>3. CASE CompleteRecentAuthentication(h)
    BY <2>3, <2>r, <1>q DEF CompleteRecentAuthentication, ProviderStatus
  <2>4. CASE RequireAccountLink(h)
    BY <2>4 DEF RequireAccountLink, AccountOnce
  <2>5. CASE Onboard(h)
    <3>1. CASE identity.link = "none"
      <4>1. /\ identity'.link = "personal" /\ accounts' = accounts + 1
            /\ ~legacy /\ UNCHANGED <<legacy, recovery>>
        BY <2>5, <3>1 DEF Onboard, NoRow
      <4> QED
        BY <3>1, <4>1 DEF AccountOnce
    <3>2. CASE identity.link # "none"
      BY <2>5, <3>2, <1>q DEF Onboard
    <3> QED
      BY <3>1, <3>2
  <2>6. CASE LogIn(h)
    BY <2>6, <2>r, <1>q DEF LogIn, ProviderStatus
  <2> QED
    BY <1>1, <2>1, <2>2, <2>3, <2>4, <2>5, <2>6 DEF Decide
<1>2. ASSUME NEW h \in Handlers, CreateAccountLink(h)
      PROVE  AccountOnce'
  <2>1. CASE identity.link = "none"
    <3>1. identity'.link = "legacy" /\ recovery' = "completed" /\ UNCHANGED <<legacy, accounts>>
      BY <1>2, <2>1 DEF CreateAccountLink, NoRow
    <3> QED
      BY <2>1, <3>1 DEF AccountOnce
  <2>2. CASE identity.link # "none"
    BY <1>2, <2>2, <1>q DEF CreateAccountLink
  <2> QED
    BY <2>1, <2>2
<1>3. ASSUME NEW h \in Handlers, Serve(h), ~Decide(h), ~CreateAccountLink(h)
      PROVE  AccountOnce'
  <2>1. CASE ClaimCheck(h)
    BY <2>1, <1>q, <1>t DEF ClaimCheck, Row
  <2>2. CASE RecordFailedClaim(h)
    BY <2>2, <1>q, <1>t DEF RecordFailedClaim, Row
  <2>3. CASE ApplyConfirmedClaim(h)
    BY <2>3, <1>q, <1>t DEF ApplyConfirmedClaim, Row
  <2>4. CASE Restore(h)
    BY <2>4, <1>q, <1>t DEF Restore, Row
  <2>5. CASE \E t \in Txs : Callback(h, t) \/ ProviderRefuses(h, t)
    BY <2>5, <1>q DEF Callback, ProviderRefuses
  <2>6. CASE ClaimTransaction(h) \/ Exchange(h) \/ AskStatus(h) \/ LoadIdentity(h) \/ Reject(h)
    BY <2>6, <1>q DEF ClaimTransaction, Exchange, AskStatus, LoadIdentity, Reject
  <2>7. CASE \/ Answer(h) \/ NoAnswer(h) \/ FindRestorable(h) \/ AskForRestoration(h)
             \/ FindLinkable(h) \/ Dies(h)
    BY <2>7, <1>q DEF Answer, NoAnswer, FindRestorable, AskForRestoration, FindLinkable, Dies
  <2> QED
    BY <1>3, <2>1, <2>2, <2>3, <2>4, <2>5, <2>6, <2>7 DEF Serve
<1>4. CASE Others
  BY <1>4, <1>q, <1>t DEF Others, StartLogin, StartRecentAuthentication, RevokeSession,
         RevokeOtherSessions, CheckFallsDue, ProviderChanges, Row
<1> QED
  BY <1>1, <1>2, <1>3, <1>4 DEF Next

\* The inductive invariant.
THEOREM IdentityInvariant == Spec => []IInv
<1>1. Init => IInv
  <2> SUFFICES ASSUME Init PROVE IInv
    OBVIOUS
  <2>1. NoRow \in Row /\ Idle \in Handler
    BY DEF NoRow, Row, Idle, Handler, ProviderStatus
  <2>2. [status |-> "absent", for |-> NoTx] \in Transaction
    BY DEF Transaction
  <2>3. TypeOK
    BY <2>1, <2>2 DEF Init, TypeOK, ProviderStatus
  <2>4. TransactionsOwned
    BY DEF Init, TransactionsOwned, Idle, Held, Claimed
  <2>5. AccountOnce
    BY DEF Init, AccountOnce, NoRow
  <2> QED
    BY <2>3, <2>4, <2>5 DEF IInv
<1>2. IInv /\ [Next]_vars => IInv'
  <2> SUFFICES ASSUME IInv, [Next]_vars PROVE IInv'
    OBVIOUS
  <2>1. CASE Next
    <3>1. TypeOK' /\ TransactionsOwned'
      BY <2>1, ServeOwned, OthersOwned DEF Next, IInv
    <3>2. AccountOnce'
      BY <2>1, AccountStep DEF IInv
    <3> QED
      BY <3>1, <3>2 DEF IInv
  <2>2. CASE UNCHANGED vars
    BY <2>2 DEF vars, IInv, TypeOK, TransactionsOwned, AccountOnce
  <2> QED
    BY <2>1, <2>2
<1> QED
  BY <1>1, <1>2, PTL DEF Spec

\* Every row and every handler keeps its type.
THEOREM IdentityTypeCorrect == Spec => []TypeOK
<1>1. IInv => TypeOK
  BY DEF IInv
<1> QED
  BY <1>1, IdentityInvariant, PTL

\* EverythingOnce for any number of login transactions, requests and sweeps.
THEOREM LoginsTakeEffectOnce == Spec => []EverythingOnce
<1>1. IInv => EverythingOnce
  BY DEF IInv, TransactionsOwned, AccountOnce, EverythingOnce
<1> QED
  BY <1>1, IdentityInvariant, PTL

-----------------------------------------------------------------------------
(***************************************************************************)
(* Blocked customers, while closing transactions do not overlap.           *)
(***************************************************************************)
\* A handler moves itself only, and comes to its decision by loading the row.
LEMMA HandlerMoves ==
  ASSUME TypeOK, NEW h \in Handlers, Serve(h)
  PROVE  /\ OthersStay(h)
         /\ hd'[h].pc = "decide" => hd'[h].saw = identity'
<1>f. ASSUME Finish(h)
      PROVE  OthersStay(h) /\ hd'[h].pc # "decide"
  BY <1>f, FinishEffect
<1>g. ASSUME NEW pc \in Pcs \ {"decide"}, Goto(h, pc)
      PROVE  OthersStay(h) /\ hd'[h].pc # "decide"
  BY <1>g, GotoEffect
<1>1. CASE \E t \in Txs : Callback(h, t)
  <2> PICK t \in Txs, pc \in {"claim", "reject"} : hd' = [hd EXCEPT ![h].pc = pc, ![h].tx = t]
    BY <1>1 DEF Callback
  <2> QED
    BY TakeEffect DEF Pcs
<1>2. CASE \E t \in Txs : ProviderRefuses(h, t)
  <2> PICK t \in Txs : hd' = [hd EXCEPT ![h].pc = "reject", ![h].tx = t]
    BY <1>2 DEF ProviderRefuses
  <2> QED
    BY TakeEffect DEF Pcs
<1>3. CASE ClaimTransaction(h) \/ Exchange(h) \/ Reject(h)
  BY <1>3, <1>f, <1>g DEF ClaimTransaction, Exchange, Reject, Pcs
<1>4. CASE AskStatus(h)
  BY <1>4, <1>g, AnswerEffect DEF AskStatus, Pcs
<1>5. CASE LoadIdentity(h)
  BY <1>5, LoadEffect DEF LoadIdentity
<1>6. CASE Decide(h)
  BY <1>6, <1>f DEF Decide, RejectInactive, Deny, CompleteRecentAuthentication,
         RequireAccountLink, Onboard, LogIn
<1>7. CASE Answer(h)
  BY <1>7, AnswerEffect DEF Answer, Pcs
<1>8. CASE ClaimCheck(h) \/ NoAnswer(h) \/ FindRestorable(h) \/ FindLinkable(h)
  BY <1>8, <1>g DEF ClaimCheck, NoAnswer, FindRestorable, FindLinkable, Pcs
<1>9. CASE AskForRestoration(h)
  BY <1>9, <1>f, <1>g DEF AskForRestoration, Pcs
<1>10. CASE \/ RecordFailedClaim(h) \/ ApplyConfirmedClaim(h) \/ Restore(h)
            \/ CreateAccountLink(h) \/ Dies(h)
  BY <1>10, <1>f DEF RecordFailedClaim, ApplyConfirmedClaim, Restore, CreateAccountLink, Dies
<1> QED
  BY <1>1, <1>2, <1>3, <1>4, <1>5, <1>6, <1>7, <1>8, <1>9, <1>10 DEF Serve

\* Row and credentials: a decision is made on the row as it is, and an answer is applied
\* only to the row that was claimed for it.
LEMMA AccessStep ==
  ASSUME TypeOK, AccessFollowsRow, NEW h \in Handlers, Serve(h),
         hd[h].pc = "decide" => hd[h].saw = identity
  PROVE  /\ AccessFollowsRow'
         /\ Blocked /\ ~Blocked' => Restore(h)
<1> DEFINE Goal == AccessFollowsRow' /\ (Blocked /\ ~Blocked' => Restore(h))
<1> SUFFICES Goal
  OBVIOUS
<1>t. /\ identity \in Row /\ identity.status \in {"active", "disabled"}
      /\ hd[h].saw \in Row /\ hd[h].answer \in ProviderStatus
  BY HandlerTyped DEF TypeOK, Row
\* The same row with the same or fewer claims, the same or fewer credentials.
<1>q. ASSUME identity'.link = identity.link, identity'.status = identity.status,
             identity'.token \in {identity.token, NoClaim}, ~HasCredentials => ~HasCredentials'
      PROVE  Goal
  BY <1>q DEF AccessFollowsRow, Blocked
<1>u. ASSUME UNCHANGED <<identity, sess, apiToken>>
      PROVE  Goal
  BY <1>u, <1>q DEF HasCredentials, HasSession
\* What is confirmed of a row revokes in the same step.
<1>c. ASSUME NEW st \in ProviderStatus, RecordConfirmed(hd[h].saw, st), hd[h].saw = identity,
             identity.link # "none",
             ~HasCredentials => ~HasCredentials', st # "active" => ~HasCredentials'
      PROVE  Goal
  <2>1. /\ identity'.link = identity.link /\ identity'.status \in {identity.status, "disabled"}
        /\ identity'.token = NoClaim
        /\ st # "disabled" => identity'.status = identity.status
    BY <1>c, <1>t, RecordEffect
  <2>2. CASE identity'.status = identity.status
    BY <1>c, <1>q, <2>1, <2>2
  <2>3. CASE st = "disabled" /\ identity'.status = "disabled" /\ identity.status = "active"
    BY <1>c, <2>1, <2>3 DEF AccessFollowsRow, Blocked
  <2> QED
    BY <1>t, <2>1, <2>2, <2>3
<1>1. CASE RejectInactive(h)
  <2>1. CASE hd[h].saw.link = "none"
    BY <1>1, <2>1, <1>u DEF RejectInactive
  <2>2. CASE hd[h].saw.link # "none"
    <3>1. /\ RecordConfirmed(hd[h].saw, hd[h].answer) /\ RevokeUnlessActive(hd[h].answer)
          /\ hd[h].saw = identity /\ hd[h].answer # "active"
      BY <1>1, <2>2 DEF RejectInactive
    <3> QED
      BY <3>1, <2>2, <1>t, <1>c, RevokeEffect
  <2> QED
    BY <2>1, <2>2
<1>2. CASE CompleteRecentAuthentication(h)
  <2>1. hd[h].saw = identity
    BY <1>2 DEF CompleteRecentAuthentication, Deciding
  <2>2. UNCHANGED <<sess, apiToken>>
    BY <1>2 DEF CompleteRecentAuthentication
  <2>3. \/ UNCHANGED identity
        \/ hd[h].saw.link # "none" /\ RecordConfirmed(hd[h].saw, "active")
    BY <1>2 DEF CompleteRecentAuthentication
  <2>4. ~HasCredentials => ~HasCredentials'
    BY <2>2 DEF HasCredentials, HasSession
  <2> QED
    BY <2>1, <2>2, <2>3, <2>4, <1>u, <1>c DEF ProviderStatus
<1>3. CASE Deny(h) \/ RequireAccountLink(h)
  BY <1>3, <1>u DEF Deny, RequireAccountLink
<1>4. CASE Onboard(h)
  <2>1. CASE identity.link = "none"
    <3>1. identity'.link = "personal" /\ identity'.status = "active"
      BY <1>4, <2>1 DEF Onboard, NoRow
    <3>2. identity.status = "active"
      BY <2>1 DEF AccessFollowsRow
    <3> QED
      BY <3>1, <3>2 DEF AccessFollowsRow, Blocked
  <2>2. CASE identity.link # "none"
    BY <1>4, <2>2, <1>u DEF Onboard
  <2> QED
    BY <2>1, <2>2
<1>5. CASE LogIn(h)
  <2>1. CASE hd[h].saw.status = "active"
    <3>1. /\ RecordConfirmed(hd[h].saw, "active") /\ hd[h].saw = identity
          /\ identity.status = "active"
      BY <1>5, <2>1 DEF LogIn, Deciding
    <3>2. identity'.status = "active" /\ identity'.token = NoClaim
      BY <3>1, <1>t, RecordEffect DEF ProviderStatus
    <3> QED
      BY <3>1, <3>2 DEF AccessFollowsRow, Blocked
  <2>2. CASE hd[h].saw.status # "active"
    BY <1>5, <2>2, <1>u DEF LogIn
  <2> QED
    BY <2>1, <2>2
<1>6. CASE ClaimCheck(h)
  <2>1. /\ identity'.status = "active" /\ identity.status = "active"
        /\ identity'.link # "none"
    BY <1>6, <1>t DEF ClaimCheck, Row
  <2> QED
    BY <2>1 DEF AccessFollowsRow, Blocked
<1>7. CASE RecordFailedClaim(h)
  <2>1. /\ identity'.link = identity.link /\ identity'.status = identity.status
        /\ identity'.token \in {identity.token, NoClaim}
    BY <1>7, <1>t DEF RecordFailedClaim, Row
  <2> QED
    BY <1>7, <2>1, <1>q DEF RecordFailedClaim, HasCredentials, HasSession
<1>8. CASE ApplyConfirmedClaim(h)
  <2>1. CASE identity.token = h
    <3>1. identity.status = "active" /\ identity.link # "none"
      BY <2>1, NoClaimAssumption DEF AccessFollowsRow
    <3>2. /\ identity'.link = identity.link /\ identity'.token = NoClaim
          /\ identity'.status = LocalStatus(hd[h].answer)
          /\ RevokeUnlessActive(hd[h].answer)
      BY <1>8, <2>1, <1>t DEF ApplyConfirmedClaim, Row
    <3>3. CASE LocalStatus(hd[h].answer) = "active"
      BY <3>1, <3>2, <3>3 DEF AccessFollowsRow, Blocked
    <3>4. CASE hd[h].answer = "disabled"
      <4>1. ~HasCredentials' /\ identity'.status = "disabled"
        BY <3>2, <3>4, <1>t, RevokeEffect DEF LocalStatus
      <4> QED
        BY <1>8, <3>1, <3>2, <4>1 DEF AccessFollowsRow, Blocked
    <3> QED
      BY <3>3, <3>4 DEF LocalStatus
  <2>2. CASE identity.token # h
    BY <1>8, <2>2, <1>u DEF ApplyConfirmedClaim
  <2> QED
    BY <2>1, <2>2
<1>9. CASE Restore(h)
  <2>1. CASE identity.status = "disabled"
    <3>1. identity'.status = "active" /\ identity'.token = NoClaim
      BY <1>9, <2>1, <1>t DEF Restore, Row
    <3> QED
      BY <1>9, <3>1 DEF AccessFollowsRow, Blocked
  <2>2. CASE identity.status # "disabled"
    BY <1>9, <2>2, <1>u DEF Restore
  <2> QED
    BY <2>1, <2>2
<1>10. CASE CreateAccountLink(h)
  <2>1. CASE identity.link = "none"
    <3>1. identity'.link = "legacy" /\ identity'.status = "active"
      BY <1>10, <2>1 DEF CreateAccountLink, NoRow
    <3>2. identity.status = "active"
      BY <2>1 DEF AccessFollowsRow
    <3> QED
      BY <3>1, <3>2 DEF AccessFollowsRow, Blocked
  <2>2. CASE identity.link # "none"
    BY <1>10, <2>2, <1>u DEF CreateAccountLink
  <2> QED
    BY <2>1, <2>2
<1>11. CASE \E t \in Txs : Callback(h, t) \/ ProviderRefuses(h, t)
  BY <1>11, <1>u DEF Callback, ProviderRefuses
<1>12. CASE ClaimTransaction(h) \/ Exchange(h) \/ AskStatus(h) \/ LoadIdentity(h) \/ Reject(h)
  BY <1>12, <1>u DEF ClaimTransaction, Exchange, AskStatus, LoadIdentity, Reject
<1>13. CASE \/ Answer(h) \/ NoAnswer(h) \/ FindRestorable(h) \/ AskForRestoration(h)
            \/ FindLinkable(h) \/ Dies(h)
  BY <1>13, <1>u DEF Answer, NoAnswer, FindRestorable, AskForRestoration, FindLinkable, Dies
<1> QED
  BY <1>1, <1>2, <1>3, <1>4, <1>5, <1>6, <1>7, <1>8, <1>9, <1>10, <1>11, <1>12, <1>13
     DEF Serve, Decide

\* No step of one handler disturbs another that is in its closing transaction.
LEMMA BlockStep ==
  ASSUME TypeOK, BlockInv, Next
  PROVE  /\ BlockInv'
         /\ ~overlap /\ Blocked /\ ~Blocked' => \E h \in Handlers : Restore(h)
<1>o. overlap' = overlap
  <2>1. ASSUME NEW h \in Handlers, Serve(h) PROVE overlap' = overlap
    BY <2>1 DEF Serve, Decide, Callback, ProviderRefuses,
         ClaimTransaction, Exchange, AskStatus, LoadIdentity, Reject, RejectInactive, Deny,
         CompleteRecentAuthentication, RequireAccountLink, Onboard, LogIn, ClaimCheck, Answer,
         NoAnswer, RecordFailedClaim, ApplyConfirmedClaim, FindRestorable, AskForRestoration,
         Restore, FindLinkable, CreateAccountLink, Dies
  <2>2. ASSUME Others PROVE overlap' = overlap
    BY <2>2 DEF Others, StartLogin, StartRecentAuthentication, RevokeSession,
                RevokeOtherSessions, CheckFallsDue, ProviderChanges
  <2> QED
    BY <2>1, <2>2 DEF Next
<1>1. CASE overlap
  BY <1>o, <1>1 DEF BlockInv
<1>2. CASE ~overlap
  <2>0. DecidesOnRow /\ AccessFollowsRow
    BY <1>2 DEF BlockInv
  <2>1. ASSUME NEW h \in Handlers, Undisturbed(h), Serve(h)
        PROVE  /\ DecidesOnRow' /\ AccessFollowsRow'
               /\ Blocked /\ ~Blocked' => Restore(h)
    <3>1. /\ \A g \in Handlers : g # h => hd'[g] = hd[g]
          /\ hd'[h].pc = "decide" => hd'[h].saw = identity'
      BY <2>1, HandlerMoves DEF OthersStay
    <3>2. \A g \in Handlers : g # h => ~Closing(g)
      BY <1>2, <2>1 DEF Undisturbed
    <3>3. \A g \in Handlers : g # h => ~Closing(g)'
      BY <3>1, <3>2 DEF Closing
    <3>4. \A g \in Handlers : g # h => hd'[g].pc # "decide"
      BY <3>3 DEF Closing
    <3>5. DecidesOnRow'
      BY <3>1, <3>3, <3>4 DEF DecidesOnRow
    <3> QED
      BY <2>0, <2>1, <3>5, AccessStep DEF DecidesOnRow
  <2>2. CASE (\A h \in Handlers : ~Closing(h)) /\ Others
    <3>1. hd' = hd
      BY <2>2 DEF Others, StartLogin, StartRecentAuthentication, RevokeSession,
             RevokeOtherSessions, CheckFallsDue, ProviderChanges
    <3>2. DecidesOnRow'
      BY <2>2, <3>1 DEF DecidesOnRow, Closing
    <3>3. /\ identity'.link = identity.link /\ identity'.status = identity.status
          /\ identity'.token = identity.token
      BY <2>2 DEF Others, StartLogin, StartRecentAuthentication, RevokeSession,
             RevokeOtherSessions, CheckFallsDue, ProviderChanges, TypeOK, Row
    <3>4. apiToken' = apiToken /\ \A t \in Txs : sess'[t] = "active" => sess[t] = "active"
      BY <2>2 DEF Others, StartLogin, StartRecentAuthentication, RevokeSession,
             RevokeOtherSessions, CheckFallsDue, ProviderChanges, TypeOK
    <3>5. ~HasCredentials => ~HasCredentials'
      BY <3>4 DEF HasCredentials, HasSession
    <3> QED
      BY <1>2, <1>o, <2>0, <3>2, <3>3, <3>5 DEF BlockInv, AccessFollowsRow, Blocked
  <2> QED
    BY <1>2, <1>o, <2>1, <2>2 DEF Next, BlockInv
<1> QED
  BY <1>1, <1>2

\* BlockedUntilRestored: while closing transactions do not overlap, a blocked customer has
\* neither session nor API token, and only an operator's restoration ends the block,
\* whichever answers of the provider are late.
THEOREM BlocksStay == Spec => BlockedUntilRestored
<1>1. Init => BlockInv
  BY DEF Init, BlockInv, DecidesOnRow, AccessFollowsRow, Closing, Idle, NoRow, Blocked
<1>2. TypeOK /\ BlockInv /\ [Next]_vars => BlockInv'
  <2> SUFFICES ASSUME TypeOK, BlockInv, [Next]_vars PROVE BlockInv'
    OBVIOUS
  <2>1. CASE Next
    BY <2>1, BlockStep
  <2>2. CASE UNCHANGED vars
    BY <2>2 DEF vars, BlockInv, DecidesOnRow, AccessFollowsRow, Closing, Blocked,
           HasCredentials, HasSession
  <2> QED
    BY <2>1, <2>2
<1>3. Spec => []BlockInv
  BY <1>1, <1>2, IdentityTypeCorrect, PTL DEF Spec
<1>4. BlockInv => (~overlap /\ Blocked => ~HasCredentials)
  BY DEF BlockInv, AccessFollowsRow
<1>5. TypeOK /\ BlockInv /\ [Next]_vars
        => [~overlap /\ Blocked /\ ~Blocked' => \E h \in Handlers : Restore(h)]_vars
  BY BlockStep DEF vars
<1> QED
  BY <1>3, <1>4, <1>5, IdentityTypeCorrect, PTL DEF Spec, BlockedUntilRestored
=============================================================================
