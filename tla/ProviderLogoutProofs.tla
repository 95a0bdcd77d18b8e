------------------------ MODULE ProviderLogoutProofs ------------------------
(***************************************************************************)
(* Proofs about ProviderLogout: a hint is spent once, for any number of    *)
(* rows, sign-outs and returning browsers.  With those of IdentityProofs   *)
(* these carry over to both modules in one run (MCIdentity).               *)
(***************************************************************************)
EXTENDS MCIdentity, IdentityProofs

\* A row that was there stays; a hint is kept for one that waits, and is not spent yet.
RowFacts ==
  \A c \in Continuations :
    /\ cont[c].hint => cont[c].status \in {"available", "prepared"} /\ spent[c] = 0
    /\ spent[c] <= 1
    /\ spent[c] = 1 => cont[c].status # "absent" /\ device = "revoked"
    /\ cont[c].status = "prepared" => device = "revoked"

\* A sign-out works on a row that is there, and ends the session before it prepares it.
SigningFacts ==
  \A q \in SignOuts :
    /\ signing[q].cont # 0 => cont[signing[q].cont].status # "absent"
    /\ signing[q].pc = "redirect" => device = "revoked"

\* The cookie that a browser brought is of a sign-out that is over: unless the row was
\* prepared anew, for another browser, its hint is still there.
FollowingFacts ==
  \A f \in Followers : following[f] # NoCookie =>
    LET c == following[f].cont
        q == following[f].secret
    IN /\ c \in Continuations /\ q \in SignOuts
       /\ signing[q].pc = "done" /\ device = "revoked"
       /\ cont[c].status = "prepared" /\ cont[c].secret = q => cont[c].hint

LogoutInv == LogoutTypeOK /\ RowFacts /\ SigningFacts /\ FollowingFacts

-----------------------------------------------------------------------------
LEMMA NoCookieIsNone == \A k \in Cookie : k # NoCookie => k.cont \in Continuations /\ k.secret \in SignOuts
BY ContinuationsAssumption, NoSignOutAssumption DEF Cookie, NoCookie

\* Steps that leave the handlers alone and neither spend nor prepare a hint.
LEMMA RowStep ==
  ASSUME LogoutInv, UNCHANGED <<spent, signing, following>>,
         cont' \in [Continuations -> Continuation],
         device' \in {"none", "active", "revoked"}, device = "revoked" => device' = "revoked",
         \A c \in Continuations :
            /\ cont[c].status # "absent" => cont'[c].status # "absent"
            /\ cont'[c].hint => cont'[c].status \in {"available", "prepared"}
            /\ cont'[c].hint => cont[c].hint \/ cont[c].status = "absent"
            /\ cont'[c].status = "prepared" => /\ cont[c].status = "prepared"
                                               /\ cont'[c].secret = cont[c].secret
                                               /\ cont'[c].hint = cont[c].hint
  PROVE  LogoutInv'
<1> USE DEF LogoutInv
<1>1. LogoutTypeOK'
  BY DEF LogoutTypeOK
<1>2. RowFacts'
  <2> SUFFICES ASSUME NEW c \in Continuations
               PROVE  /\ cont'[c].hint => cont'[c].status \in {"available", "prepared"} /\ spent'[c] = 0
                      /\ spent'[c] <= 1
                      /\ spent'[c] = 1 => cont'[c].status # "absent" /\ device' = "revoked"
                      /\ cont'[c].status = "prepared" => device' = "revoked"
    BY DEF RowFacts
  <2>1. spent[c] \in Nat /\ spent[c] <= 1 /\ (spent[c] = 1 => cont[c].status # "absent")
    BY DEF RowFacts, LogoutTypeOK
  <2> QED
    BY <2>1 DEF RowFacts
<1>3. SigningFacts'
  <2> SUFFICES ASSUME NEW q \in SignOuts
               PROVE  /\ signing[q].cont # 0 => cont'[signing[q].cont].status # "absent"
                      /\ signing[q].pc = "redirect" => device' = "revoked"
    BY DEF SigningFacts
  <2>1. signing[q].cont \in Continuations \cup {0}
    BY DEF LogoutTypeOK, SignOut
  <2> QED
    BY <2>1 DEF SigningFacts
<1>4. FollowingFacts'
  BY DEF FollowingFacts
<1> QED
  BY <1>1, <1>2, <1>3, <1>4

\* Steps of a sign-out that touch its own record and the device only.
LEMMA SigningStep ==
  ASSUME LogoutInv, NEW q \in SignOuts, NEW w \in SignOut,
         signing' = [signing EXCEPT ![q] = w], UNCHANGED <<cont, spent, following>>,
         device' \in {"none", "active", "revoked"}, device = "revoked" => device' = "revoked",
         w.cont # 0 => cont[w.cont].status # "absent",
         w.pc = "redirect" => device' = "revoked",
         signing[q].pc = "done" => w.pc = "done"
  PROVE  LogoutInv'
<1> USE DEF LogoutInv
<1>1. LogoutTypeOK' /\ \A p \in SignOuts : signing'[p] = IF p = q THEN w ELSE signing[p]
  BY DEF LogoutTypeOK
<1>2. RowFacts'
  BY DEF RowFacts
<1>3. SigningFacts'
  BY <1>1 DEF SigningFacts
<1>4. FollowingFacts'
  <2> SUFFICES ASSUME NEW f \in Followers, following[f] # NoCookie
               PROVE  /\ following[f].cont \in Continuations /\ following[f].secret \in SignOuts
                      /\ signing'[following[f].secret].pc = "done" /\ device' = "revoked"
                      /\ (/\ cont[following[f].cont].status = "prepared"
                          /\ cont[following[f].cont].secret = following[f].secret)
                           => cont[following[f].cont].hint
    BY DEF FollowingFacts
  <2>1. /\ following[f].cont \in Continuations /\ following[f].secret \in SignOuts
        /\ signing[following[f].secret].pc = "done" /\ device = "revoked"
        /\ (/\ cont[following[f].cont].status = "prepared"
            /\ cont[following[f].cont].secret = following[f].secret)
             => cont[following[f].cont].hint
    BY DEF FollowingFacts
  <2> QED
    BY <1>1, <2>1
<1> QED
  BY <1>1, <1>2, <1>3, <1>4

\* The rows that a login or a recent authentication leaves.
LEMMA NewRows ==
  ASSUME LogoutInv, SignIn \/ ReplaceContinuation
  PROVE  LogoutInv'
<1>s. Sealed \in Continuation /\ Sealed.status = "available"
  BY DEF Sealed, Absent, Continuation
<1>t. /\ cont \in [Continuations -> Continuation] /\ device \in {"none", "active", "revoked"}
      /\ \A c \in Continuations : cont[c].hint => cont[c].status \in {"available", "prepared"}
  BY DEF LogoutInv, LogoutTypeOK, RowFacts
<1>n. \A c \in Continuations : IsNextRow(c) => cont[c].status = "absent"
  BY DEF IsNextRow, Absent
<1>1. CASE SignIn
  <2>0. /\ UNCHANGED <<spent, signing, following>> /\ device' = "active" /\ device = "none"
    BY <1>1 DEF SignIn
  <2>1. CASE cont' = cont
    BY <2>0, <2>1, <1>t, RowStep
  <2>2. CASE \E c \in Continuations : IsNextRow(c) /\ cont' = [cont EXCEPT ![c] = Sealed]
    <3> PICK c \in Continuations : IsNextRow(c) /\ cont' = [cont EXCEPT ![c] = Sealed]
      BY <2>2
    <3>1. cont' \in [Continuations -> Continuation]
      BY <1>s, <1>t
    <3>2. cont'[c] = Sealed /\ \A d \in Continuations : d # c => cont'[d] = cont[d]
      BY <1>t
    <3>3. cont[c].status = "absent"
      BY <1>n
    <3> QED
      BY <2>0, <3>1, <3>2, <3>3, <1>s, <1>t, RowStep
  <2> QED
    BY <1>1, <2>1, <2>2 DEF SignIn
<1>2. CASE ReplaceContinuation
  <2> DEFINE Gone(row) == IF row.status = "available"
                            THEN [row EXCEPT !.status = "superseded", !.hint = FALSE] ELSE row
  <2>0. UNCHANGED <<device, spent, signing, following>>
    BY <1>2 DEF ReplaceContinuation
  <2>1. ASSUME NEW row \in Continuation
        PROVE  /\ Gone(row) \in Continuation
               /\ row.status # "available" => Gone(row) = row
               /\ row.status = "available" => Gone(row).status = "superseded" /\ ~Gone(row).hint
    BY DEF Continuation
  <2>2. CASE cont' = [d \in Continuations |-> Gone(cont[d])]
    <3> HIDE DEF Gone
    <3>1. cont' \in [Continuations -> Continuation]
      BY <2>1, <2>2, <1>t
    <3>2. \A d \in Continuations : \/ cont[d].status # "available" /\ cont'[d] = cont[d]
                                   \/ cont'[d].status = "superseded" /\ ~cont'[d].hint
      BY <2>1, <2>2, <1>t
    <3> QED
      BY <2>0, <3>1, <3>2, <1>t, RowStep
  <2>3. CASE \E c \in Continuations :
               /\ IsNextRow(c)
               /\ cont' = [d \in Continuations |-> IF d = c THEN Sealed ELSE Gone(cont[d])]
    <3> PICK c \in Continuations :
               /\ IsNextRow(c)
               /\ cont' = [d \in Continuations |-> IF d = c THEN Sealed ELSE Gone(cont[d])]
      BY <2>3
    <3> HIDE DEF Gone
    <3>1. cont' \in [Continuations -> Continuation]
      BY <2>1, <1>s, <1>t
    <3>2. \A d \in Continuations : d # c =>
             \/ cont[d].status # "available" /\ cont'[d] = cont[d]
             \/ cont'[d].status = "superseded" /\ ~cont'[d].hint
      BY <2>1, <1>t
    <3>3. cont'[c] = Sealed /\ cont[c].status = "absent"
      BY <1>n
    <3> QED
      BY <2>0, <3>1, <3>2, <3>3, <1>s, <1>t, RowStep
  <2> QED
    BY <1>2, <2>2, <2>3 DEF ReplaceContinuation
<1> QED
  BY <1>1, <1>2

\* A sign-out up to its redirect.
LEMMA SigningOut ==
  ASSUME LogoutInv, NEW q \in SignOuts, BeginSignOut(q) \/ RevokeDevice(q) \/ SignOutDies(q)
  PROVE  LogoutInv'
<1> PICK v \in SignOut : v = signing[q]
  BY DEF LogoutInv, LogoutTypeOK
<1>t. /\ device \in {"none", "active", "revoked"} /\ signing \in [SignOuts -> SignOut]
      /\ v.cont # 0 => cont[v.cont].status # "absent"
  BY DEF LogoutInv, LogoutTypeOK, SigningFacts
<1>1. CASE BeginSignOut(q)
  <2>1. PICK w \in SignOut : /\ signing' = [signing EXCEPT ![q] = w] /\ w.pc = "revoke"
                             /\ w.cont # 0 => cont[w.cont].status # "absent"
    <3>1. CASE \E c \in Continuations :
                 IsNewest(c) /\ signing' = [signing EXCEPT ![q] = [pc |-> "revoke", cont |-> c]]
      <4>1. PICK c \in Continuations :
              IsNewest(c) /\ signing' = [signing EXCEPT ![q] = [pc |-> "revoke", cont |-> c]]
        BY <3>1
      <4> DEFINE w == [pc |-> "revoke", cont |-> c]
      <4>2. w \in SignOut /\ w.pc = "revoke" /\ w.cont = c
        BY DEF SignOut
      <4>3. cont[c].status # "absent"
        BY <4>1 DEF IsNewest, Available
      <4>4. signing' = [signing EXCEPT ![q] = w]
        BY <4>1
      <4> HIDE DEF w
      <4> QED
        BY <4>2, <4>3, <4>4
    <3>2. CASE signing' = [signing EXCEPT ![q].pc = "revoke"]
      <4> DEFINE w == [v EXCEPT !.pc = "revoke"]
      <4>1. w \in SignOut /\ w.pc = "revoke" /\ w.cont = v.cont
        BY DEF SignOut
      <4>2. signing' = [signing EXCEPT ![q] = w]
        BY <3>2, <1>t
      <4> HIDE DEF w
      <4> QED
        BY <4>1, <4>2, <1>t
    <3> QED
      BY <1>1, <3>1, <3>2 DEF BeginSignOut
  <2> QED
    BY <1>1, <2>1, <1>t, SigningStep DEF BeginSignOut
<1>2. CASE RevokeDevice(q)
  <2> DEFINE w == [v EXCEPT !.pc = "redirect"]
  <2>1. w \in SignOut /\ w.pc = "redirect" /\ w.cont = v.cont
    BY DEF SignOut
  <2>2. signing' = [signing EXCEPT ![q] = w]
    BY <1>2, <1>t DEF RevokeDevice
  <2> HIDE DEF w
  <2> QED
    BY <1>2, <2>1, <2>2, <1>t, SigningStep DEF RevokeDevice
<1>3. CASE SignOutDies(q)
  <2> DEFINE w == [pc |-> "done", cont |-> 0]
  <2>1. w \in SignOut /\ w.pc = "done" /\ w.cont = 0
    BY DEF SignOut
  <2>2. signing' = [signing EXCEPT ![q] = w]
    BY <1>3 DEF SignOutDies
  <2> HIDE DEF w
  <2> QED
    BY <1>3, <2>1, <2>2, <1>t, SigningStep DEF SignOutDies
<1> QED
  BY <1>1, <1>2, <1>3

\* The end of a sign-out: no browser has its cookie yet.
LEMMA Redirecting ==
  ASSUME LogoutInv, NEW q \in SignOuts, PrepareRedirect(q) \/ SkipRedirect(q)
  PROVE  LogoutInv'
<1> USE DEF LogoutInv
<1> PICK v \in SignOut : v = signing[q]
  BY DEF LogoutTypeOK
<1>t. /\ device = "revoked" /\ v.pc = "redirect"
      /\ cont \in [Continuations -> Continuation] /\ signing \in [SignOuts -> SignOut]
      /\ v.cont # 0 => v.cont \in Continuations /\ cont[v.cont].status # "absent"
  BY DEF LogoutTypeOK, SigningFacts, PrepareRedirect, SkipRedirect, SignOut
<1> DEFINE Moved(c) == /\ cont'[c].hint => cont[c].hint
                       /\ \/ cont'[c] = cont[c]
                          \/ cont'[c].status = "consumed" /\ ~cont'[c].hint
                          \/ /\ cont'[c].status = "prepared" /\ cont[c].status # "absent"
                             /\ cont'[c].secret = q /\ cont'[c].hint = cont[c].hint
           Mine(w) == /\ w \in SignOut /\ w.pc = "done"
                      /\ w.cont # 0 => w.cont = v.cont
                      /\ signing' = [signing EXCEPT ![q] = w]
<1>1. /\ cont' \in [Continuations -> Continuation]
      /\ \A c \in Continuations : Moved(c)
      /\ \E w : Mine(w)
      /\ UNCHANGED <<device, spent, following>>
  <2>1. CASE PrepareRedirect(q)
    <3> PICK c \in Continuations : c = v.cont
      BY <2>1, <1>t DEF PrepareRedirect
    <3> PICK r \in Continuation : r = cont[c]
      BY <1>t
    <3> DEFINE n == [r EXCEPT !.status = "prepared", !.secret = q, !.fresh = TRUE]
               w == [v EXCEPT !.pc = "done"]
    <3>1. n \in Continuation /\ n.status = "prepared" /\ n.secret = q /\ n.hint = r.hint
      BY DEF Continuation
    <3>2. cont' = [cont EXCEPT ![c] = n]
      BY <2>1, <1>t DEF PrepareRedirect
    <3>3. w \in SignOut /\ w.pc = "done" /\ w.cont = v.cont
      BY DEF SignOut
    <3>4. signing' = [signing EXCEPT ![q] = w]
      BY <2>1, <1>t DEF PrepareRedirect
    <3> HIDE DEF n, w
    <3>5. cont'[c] = n /\ \A d \in Continuations : d # c => cont'[d] = cont[d]
      BY <3>2, <1>t
    <3>6. \A d \in Continuations : d # c => Moved(d)
      BY <3>5
    <3>7. Moved(c)
      <4>1. cont[c].status # "absent"
        BY <2>1, <1>t DEF PrepareRedirect
      <4> QED
        BY <3>1, <3>5, <4>1
    <3>8. Mine(w)
      BY <3>3, <3>4
    <3>9. cont' \in [Continuations -> Continuation]
      BY <3>1, <3>2, <1>t
    <3> HIDE DEF Moved, Mine
    <3> QED
      BY <2>1, <3>6, <3>7, <3>8, <3>9, <1>t DEF PrepareRedirect
  <2>2. CASE SkipRedirect(q)
    <3> DEFINE n == [Absent EXCEPT !.status = "consumed"]
               w == [v EXCEPT !.pc = "done", !.cont = 0]
    <3>1. n \in Continuation /\ n.status = "consumed" /\ ~n.hint
      BY DEF Continuation, Absent
    <3>2. cont' = [c \in Continuations |-> IF c = v.cont THEN n ELSE cont[c]]
      BY <2>2 DEF SkipRedirect
    <3>3. w \in SignOut /\ w.pc = "done" /\ w.cont = 0
      BY DEF SignOut
    <3>4. signing' = [signing EXCEPT ![q] = w]
      BY <2>2, <1>t DEF SkipRedirect
    <3> HIDE DEF n, w
    <3>5. \A d \in Continuations : Moved(d)
      BY <3>1, <3>2
    <3>6. Mine(w)
      BY <3>3, <3>4
    <3>7. cont' \in [Continuations -> Continuation]
      BY <3>1, <3>2, <1>t
    <3> HIDE DEF Moved, Mine
    <3> QED
      BY <2>2, <3>5, <3>6, <3>7, <1>t DEF SkipRedirect
  <2> QED
    BY <2>1, <2>2
<1> PICK w : Mine(w)
  BY <1>1
<1>2. \A p \in SignOuts : signing'[p] = IF p = q THEN w ELSE signing[p]
  BY <1>t
<1>3. LogoutTypeOK'
  BY <1>1, <1>t DEF LogoutTypeOK
<1>4. \A c \in Continuations : cont[c].status # "absent" => cont'[c].status # "absent"
  BY <1>1
<1>5. RowFacts'
  BY <1>1, <1>t, <1>4 DEF RowFacts
<1>6. SigningFacts'
  <2> SUFFICES ASSUME NEW p \in SignOuts
               PROVE  /\ signing'[p].cont # 0 => cont'[signing'[p].cont].status # "absent"
                      /\ signing'[p].pc = "redirect" => device' = "revoked"
    BY DEF SigningFacts
  <2>1. signing[p].cont \in Continuations \cup {0}
    BY DEF LogoutTypeOK, SignOut
  <2>2. CASE p = q
    BY <1>1, <1>2, <1>4, <1>t, <2>2
  <2>3. CASE p # q
    BY <1>1, <1>2, <1>4, <1>t, <2>1, <2>3 DEF SigningFacts
  <2> QED
    BY <2>2, <2>3
<1>7. FollowingFacts'
  <2> SUFFICES ASSUME NEW f \in Followers, following[f] # NoCookie
               PROVE  LET c == following[f].cont
                          p == following[f].secret
                      IN /\ c \in Continuations /\ p \in SignOuts
                         /\ signing'[p].pc = "done" /\ device' = "revoked"
                         /\ cont'[c].status = "prepared" /\ cont'[c].secret = p => cont'[c].hint
    BY <1>1 DEF FollowingFacts
  <2> DEFINE c == following[f].cont
             p == following[f].secret
  <2>1. /\ c \in Continuations /\ p \in SignOuts /\ signing[p].pc = "done"
        /\ cont[c].status = "prepared" /\ cont[c].secret = p => cont[c].hint
    BY DEF FollowingFacts
  <2>2. p # q
    BY <2>1, <1>t
  <2> HIDE DEF c, p
  <2>3. cont'[c].status = "prepared" /\ cont'[c].secret = p => cont'[c].hint
    BY <2>1, <2>2, <1>1
  <2> QED
    BY <2>1, <2>2, <2>3, <1>1, <1>2, <1>t DEF c, p
<1> QED
  BY <1>3, <1>5, <1>6, <1>7

\* A browser is believed on the row as it is, and what it spends is not spent again.
LEMMA Following ==
  ASSUME LogoutInv, NEW f \in Followers,
         ConsumeContinuation(f) \/ \E q \in SignOuts : Follow(f, q)
  PROVE  LogoutInv'
<1> USE DEF LogoutInv
<1>t. /\ cont \in [Continuations -> Continuation] /\ following \in [Followers -> Cookie]
      /\ spent \in [Continuations -> Nat] /\ NoCookie \in Cookie
  BY DEF LogoutTypeOK, Cookie
<1>1. CASE \E q \in SignOuts : Follow(f, q)
  <2> PICK q \in SignOuts : Follow(f, q)
    BY <1>1
  <2> PICK c \in Continuations : c = signing[q].cont
    BY DEF Follow, LogoutTypeOK, SignOut
  <2> DEFINE k == [cont |-> c, secret |-> q]
  <2>1. /\ signing[q].pc = "done" /\ cont[c].hint /\ device = "revoked"
        /\ UNCHANGED <<device, cont, spent, signing>>
    BY DEF Follow, RowFacts
  <2>2. k \in Cookie /\ k.cont = c /\ k.secret = q
    BY DEF Cookie
  <2>3. following' = [following EXCEPT ![f] = k]
    BY DEF Follow
  <2> HIDE DEF k
  <2>4. LogoutTypeOK' /\ RowFacts' /\ SigningFacts'
    BY <2>1, <2>2, <2>3 DEF LogoutTypeOK, RowFacts, SigningFacts
  <2>5. following'[f] = k /\ \A g \in Followers : g # f => following'[g] = following[g]
    BY <2>3, <1>t
  <2>6. FollowingFacts'
    BY <2>1, <2>2, <2>5 DEF FollowingFacts
  <2> QED
    BY <2>4, <2>6
<1>2. CASE ConsumeContinuation(f)
  <2> DEFINE c == following[f].cont
  <2>1. /\ c \in Continuations /\ device = "revoked" /\ UNCHANGED <<device, signing>>
        /\ cont[c].status = "prepared" /\ cont[c].secret = following[f].secret => cont[c].hint
    BY <1>2 DEF ConsumeContinuation, FollowingFacts
  <2>2. /\ following' \in [Followers -> Cookie]
        /\ \A g \in Followers : following'[g] # NoCookie => following'[g] = following[g]
    BY <1>2, <1>t DEF ConsumeContinuation
  <2>3. CASE ~(cont[c].status = "prepared" /\ cont[c].secret = following[f].secret)
    <3>1. UNCHANGED <<cont, spent>>
      BY <1>2, <2>3 DEF ConsumeContinuation
    <3>2. LogoutTypeOK' /\ RowFacts' /\ SigningFacts'
      BY <2>1, <2>2, <3>1 DEF LogoutTypeOK, RowFacts, SigningFacts
    <3>3. FollowingFacts'
      BY <2>1, <2>2, <3>1 DEF FollowingFacts
    <3> QED
      BY <3>2, <3>3
  <2>4. CASE cont[c].status = "prepared" /\ cont[c].secret = following[f].secret
    <3>1. spent[c] = 0 /\ cont[c].hint
      BY <2>1, <2>4 DEF RowFacts
    <3> DEFINE n == [Absent EXCEPT !.status = "consumed"]
    <3>2. n \in Continuation /\ n.status = "consumed" /\ ~n.hint
      BY DEF Absent, Continuation
    <3> HIDE DEF c
    <3>3. /\ cont' = [cont EXCEPT ![c] = n]
          /\ \E sent \in {0, 1} : spent' = [spent EXCEPT ![c] = @ + sent]
      BY <1>2, <2>4 DEF ConsumeContinuation, Consumed, c
    <3> HIDE DEF n
    <3>4. /\ cont' \in [Continuations -> Continuation] /\ cont'[c] = n
          /\ \A d \in Continuations : d # c => cont'[d] = cont[d]
      BY <2>1, <3>2, <3>3, <1>t
    <3>5. /\ spent' \in [Continuations -> Nat] /\ spent'[c] <= 1
          /\ \A d \in Continuations : d # c => spent'[d] = spent[d]
      BY <2>1, <3>1, <3>3, <1>t
    <3>6. LogoutTypeOK'
      BY <2>1, <2>2, <3>4, <3>5 DEF LogoutTypeOK
    <3>7. RowFacts'
      <4> SUFFICES ASSUME NEW d \in Continuations
                   PROVE  /\ cont'[d].hint => /\ cont'[d].status \in {"available", "prepared"}
                                              /\ spent'[d] = 0
                          /\ spent'[d] <= 1
                          /\ spent'[d] = 1 => cont'[d].status # "absent" /\ device' = "revoked"
                          /\ cont'[d].status = "prepared" => device' = "revoked"
        BY DEF RowFacts
      <4>1. CASE d = c
        BY <4>1, <2>1, <3>2, <3>4, <3>5
      <4>2. CASE d # c
        BY <4>2, <2>1, <3>4, <3>5 DEF RowFacts
      <4> QED
        BY <4>1, <4>2
    <3>8. \A d \in Continuations : cont[d].status # "absent" => cont'[d].status # "absent"
      BY <3>2, <3>4
    <3>9. SigningFacts'
      BY <2>1, <3>8 DEF SigningFacts, LogoutTypeOK, SignOut
    <3>10. \A d \in Continuations :
              cont'[d].status = "prepared" => cont'[d] = cont[d]
      BY <3>2, <3>4
    <3>11. FollowingFacts'
      BY <2>1, <2>2, <3>10 DEF FollowingFacts
    <3> QED
      BY <3>6, <3>7, <3>9, <3>11
  <2> QED
    BY <2>3, <2>4
<1> QED
  BY <1>1, <1>2

\* The inductive invariant.
THEOREM LogoutInvariant == LogoutSpec => []LogoutInv
<1>1. LogoutInit => LogoutInv
  <2> SUFFICES ASSUME LogoutInit PROVE LogoutInv
    OBVIOUS
  <2>1. /\ Absent \in Continuation /\ ~Absent.hint /\ Absent.status = "absent"
        /\ NoCookie \in Cookie /\ [pc |-> "idle", cont |-> 0] \in SignOut
    BY DEF Absent, Continuation, Cookie, SignOut
  <2>2. LogoutTypeOK
    BY <2>1 DEF LogoutInit, LogoutTypeOK
  <2> QED
    BY <2>1, <2>2 DEF LogoutInit, LogoutInv, RowFacts, SigningFacts, FollowingFacts
<1>2. LogoutInv /\ [LogoutNext]_logoutVars => LogoutInv'
  <2> SUFFICES ASSUME LogoutInv, [LogoutNext]_logoutVars PROVE LogoutInv'
    OBVIOUS
  <2>t. /\ cont \in [Continuations -> Continuation] /\ device \in {"none", "active", "revoked"}
        /\ \A c \in Continuations : cont[c].hint => cont[c].status \in {"available", "prepared"}
    BY DEF LogoutInv, LogoutTypeOK, RowFacts
  <2>1. CASE SignIn \/ ReplaceContinuation
    BY <2>1, NewRows
  <2>2. CASE RevokedElsewhere
    BY <2>2, <2>t, RowStep DEF RevokedElsewhere
  <2>3. CASE \E q \in SignOuts : BeginSignOut(q) \/ RevokeDevice(q) \/ SignOutDies(q)
    BY <2>3, SigningOut
  <2>4. CASE \E q \in SignOuts : PrepareRedirect(q) \/ SkipRedirect(q)
    BY <2>4, Redirecting
  <2>5. CASE \E f \in Followers : ConsumeContinuation(f) \/ \E q \in SignOuts : Follow(f, q)
    BY <2>5, Following
  <2>6. CASE \E c \in Continuations : SecretExpires(c)
    <3> PICK c \in Continuations : SecretExpires(c)
      BY <2>6
    <3> PICK r \in Continuation : r = cont[c]
      BY <2>t
    <3> DEFINE n == [r EXCEPT !.fresh = FALSE]
    <3>1. n \in Continuation /\ n.status = r.status /\ n.hint = r.hint /\ n.secret = r.secret
      BY DEF Continuation
    <3>2. cont' = [cont EXCEPT ![c] = n] /\ UNCHANGED <<device, spent, signing, following>>
      BY <2>t DEF SecretExpires
    <3> HIDE DEF n
    <3>3. /\ cont' \in [Continuations -> Continuation] /\ cont'[c] = n
          /\ \A d \in Continuations : d # c => cont'[d] = cont[d]
      BY <2>t, <3>1, <3>2
    <3>4. \A d \in Continuations : /\ cont'[d].status = cont[d].status
                                   /\ cont'[d].hint = cont[d].hint
                                   /\ cont'[d].secret = cont[d].secret
      BY <3>1, <3>3
    <3> QED
      BY <2>t, <3>2, <3>3, <3>4, RowStep
  <2>7. CASE UNCHANGED logoutVars
    BY <2>7 DEF logoutVars, LogoutInv, LogoutTypeOK, RowFacts, SigningFacts, FollowingFacts
  <2> QED
    BY <2>1, <2>2, <2>3, <2>4, <2>5, <2>6, <2>7 DEF LogoutNext
<1> QED
  BY <1>1, <1>2, PTL DEF LogoutSpec

\* HintSpentOnce: whatever sign-outs, recent authentications and returning browsers overlap,
\* a hint goes to the provider once at most, after the session was revoked, and is erased.
THEOREM HintsAreSpentOnce == LogoutSpec => []HintSpentOnce
<1>1. LogoutInv => HintSpentOnce
  <2> SUFFICES ASSUME LogoutInv, NEW c \in Continuations
               PROVE  /\ spent[c] <= 1
                      /\ spent[c] = 1 => ~cont[c].hint /\ device = "revoked"
                      /\ cont[c].hint => cont[c].status \in {"available", "prepared"}
    BY DEF HintSpentOnce
  <2> QED
    BY DEF LogoutInv, RowFacts
<1> QED
  BY <1>1, LogoutInvariant, PTL

-----------------------------------------------------------------------------
(***************************************************************************)
(* The customer and the sign-out side by side.                             *)
(***************************************************************************)

\* Seen through the customer's rows, or through the sign-out's, a behaviour of the instance
\* that TLC checks is a behaviour of that part: what is proved of either holds of MCSpec.
THEOREM IdentitySideBySide == MCSpec => Spec /\ LogoutSpec
<1>1. MCInit => Init /\ LogoutInit
  BY DEF MCInit
<1>2. [MCNext]_allVars => [Next]_vars /\ [LogoutNext]_logoutVars
  <2>1. UNCHANGED allVars => UNCHANGED <<vars, logoutVars>>
    BY DEF allVars
  <2> QED
    BY <2>1 DEF MCNext
<1> QED
  BY <1>1, <1>2, PTL DEF MCSpec, Spec, LogoutSpec

\* Customer and sign-out keep to the statuses and references that their rows may hold
\* (TypesOK), for any number of transactions, handlers, continuations and browsers.
THEOREM SideBySideTypeCorrect == MCSpec => []TypesOK
<1>1. LogoutInv => LogoutTypeOK
  BY DEF LogoutInv
<1>2. TypeOK /\ LogoutTypeOK => TypesOK
  BY DEF TypesOK
<1> QED
  BY <1>1, <1>2, IdentitySideBySide, IdentityTypeCorrect, LogoutInvariant, PTL

=============================================================================
