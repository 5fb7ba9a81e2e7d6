---------------------------- MODULE DeviceProofs ----------------------------
(***************************************************************************)
(* Proofs about the desktops of an organization, whose two parts share no  *)
(* state: the session of a desktop with the cloud, and the registration of *)
(* desktops with the keys they hold.                                       *)
(***************************************************************************)
EXTENDS CloudSession, Enrollment, FiniteSetTheorems, TLAPS

-----------------------------------------------------------------------------
(* The session.                                                             *)

SessionSteps == {"idle", "mail", "exchange", "mismatch", "refresh", "validate", "save",
                 "set", "forget", "logout", "clear", "clearVault"}

SessionThread == [step : SessionSteps, for : {"none", "start", "login", "request", "signout"},
                  session : Attempts \cup {0}]

(* The steps of a call that is about a session.                             *)
SessionOf == {"mail", "exchange", "refresh", "validate", "save", "set", "logout"}

SessionTypeOK ==
    /\ attempts \in 0 .. MaxLogins
    /\ link \in [Attempts -> {"none", "sent", "used"}]
    /\ owner \in [Attempts -> People \cup {"none", "ended"}]
    /\ pkce \in Attempts \cup {0} /\ tokenFile \in Attempts \cup {0}
    /\ memory \in Attempts \cup {0} /\ fresh \in BOOLEAN
    /\ lock \in Threads \cup {"free"}
    /\ thread \in [Threads -> SessionThread]
    /\ signedOut \in SUBSET Attempts
    /\ \A t \in Threads : thread[t].step \in SessionOf
                              => thread[t].session # 0

AcceptSteps == {"validate", "save", "set"}

(* A login accepts a session that nobody has used yet, and every other      *)
(* acceptance is of a refresh that holds the lock.                          *)
AcceptedBy ==
    /\ \A t \in Threads : thread[t].step \in {"exchange", "mismatch"} => thread[t].for = "login"
    /\ \A t \in Threads : thread[t].step \in AcceptSteps /\ thread[t].for = "login"
           => thread[t].session \notin signedOut
    /\ \A t \in Threads :
           \/ thread[t].step = "refresh"
           \/ thread[t].step \in AcceptSteps /\ thread[t].for # "login"
           => lock = t

SessionsEnd ==
    /\ \A k \in signedOut : owner[k] = "ended"
    /\ \A k \in Attempts : owner[k] # "none" => link[k] = "used"

(* The link of an attempt is asked for once.                                *)
LinksAskedOnce ==
    /\ \A k \in Attempts : k > attempts => link[k] = "none"
    /\ \A t \in Threads : thread[t].step = "mail" =>
           /\ thread[t].session <= attempts /\ link[thread[t].session] = "none"
           /\ \A u \in Threads : thread[u].step = "mail" /\ thread[u].session = thread[t].session
                  => u = t

(* Whatever holds a session that was signed out is going to be cleared.     *)
GoesToClear == \E t \in Threads : At(t, "clear")
GoesToClearVault == \E t \in Threads : At(t, "clear") \/ At(t, "clearVault")

Clearing ==
    /\ memory \in signedOut => GoesToClear
    /\ tokenFile \in signedOut => GoesToClearVault
    /\ \A t \in Threads : thread[t].step \in AcceptSteps /\ thread[t].session \in signedOut
           => GoesToClear

SessionInv == SessionTypeOK /\ AcceptedBy /\ SessionsEnd /\ LinksAskedOnce /\ Clearing

(* One thread moves, to a record r.                                         *)
Moves(t, r) ==
    /\ thread' = [thread EXCEPT ![t] = r]
    /\ r \in SessionThread
    /\ r.step \in SessionOf => r.session # 0

LEMMA MoveIs ==
  ASSUME SessionTypeOK, NEW t \in Threads, NEW r, Moves(t, r)
  PROVE  /\ thread' \in [Threads -> SessionThread] /\ thread'[t] = r
         /\ \A u \in Threads : u # t => thread'[u] = thread[u]
         /\ \A u \in Threads : thread'[u].step \in SessionOf
                              => thread'[u].session # 0
  BY DEF SessionTypeOK, Moves

LEMMA ProceedMoves ==
  ASSUME SessionTypeOK, NEW t \in Threads, NEW step \in SessionSteps, Proceed(t, step),
         step \in SessionOf => thread[t].session # 0
  PROVE  \E r : Moves(t, r) /\ r.step = step /\ r.for = thread[t].for
                            /\ r.session = thread[t].session
<1>1. PICK x : x = thread[t]
  OBVIOUS
<1>2. x \in SessionThread
  BY <1>1 DEF SessionTypeOK
<1>3. PICK r : r = [x EXCEPT !.step = step]
  OBVIOUS
<1>4. r \in SessionThread /\ r.step = step /\ r.for = x.for /\ r.session = x.session
  BY <1>2, <1>3 DEF SessionThread
<1>5. thread' = [thread EXCEPT ![t] = r]
  BY <1>1, <1>3 DEF Proceed, SessionTypeOK
<1> QED
  BY <1>1, <1>4, <1>5 DEF Moves

LEMMA UnaskedMoves ==
  ASSUME NEW t \in Threads, thread' = [thread EXCEPT ![t] = Unasked]
  PROVE  Moves(t, Unasked) /\ Unasked.step = "idle"
  BY DEF Moves, Unasked, SessionThread, SessionSteps, SessionOf

LEMMA BeginMoves ==
  ASSUME NEW t \in Threads, NEW step \in SessionSteps,
         NEW for \in {"none", "start", "login", "request", "signout"},
         NEW k \in Attempts \cup {0},
         step \in SessionOf => k # 0,
         Begin(t, step, for, k)
  PROVE  \E r : Moves(t, r) /\ r.step = step /\ r.for = for /\ r.session = k
<1>1. PICK r : r = [step |-> step, for |-> for, session |-> k]
  OBVIOUS
<1>2. r \in SessionThread /\ r.step = step /\ r.for = for /\ r.session = k
  BY <1>1 DEF SessionThread
<1> QED
  BY <1>1, <1>2 DEF Begin, Moves

LEMMA FailMoves ==
  ASSUME SessionTypeOK, NEW t \in Threads, Fail(t)
  PROVE  \E r : Moves(t, r) /\ r.step \in {"idle", "clear"}
<1>1. PICK x : x = thread[t]
  OBVIOUS
<1>2. x \in SessionThread
  BY <1>1 DEF SessionTypeOK
<1>3. PICK r : r = IF x.for = "signout" THEN [x EXCEPT !.step = "clear"] ELSE Unasked
  OBVIOUS
<1>4. r \in SessionThread /\ r.step \in {"idle", "clear"}
  BY <1>2, <1>3 DEF SessionThread, SessionSteps, Unasked
<1>5. thread' = [thread EXCEPT ![t] = r]
  BY <1>1, <1>3 DEF Fail, SessionTypeOK
<1> QED
  BY <1>4, <1>5 DEF Moves, SessionOf

(* A thread that neither clears nor begins to accept changes nothing of     *)
(* what is going to be cleared.                                             *)
Quiet(t, r) ==
    /\ thread[t].step \notin {"clear", "clearVault"}
    /\ r.step \in {"idle", "mail", "forget", "clear", "clearVault", "logout", "mismatch", "exchange"}
    /\ r.step \in {"mismatch", "exchange"} => r.for = "login"

LEMMA QuietKeeps ==
  ASSUME SessionInv, NEW t \in Threads, NEW r, Moves(t, r), Quiet(t, r),
         UNCHANGED <<memory, tokenFile, owner, signedOut>>,
         lock' \in {lock, "free"}, lock' = "free" => lock \in {t, "free"},
         \A k \in Attempts : link[k] = "used" => link'[k] = "used"
  PROVE  AcceptedBy' /\ SessionsEnd' /\ Clearing'
<1>1. /\ thread' \in [Threads -> SessionThread] /\ thread'[t] = r
      /\ \A u \in Threads : u # t => thread'[u] = thread[u]
  BY MoveIs DEF SessionInv
<1>2. AcceptedBy'
  BY <1>1, SessionAssumption DEF SessionInv, AcceptedBy, Quiet, AcceptSteps, SessionTypeOK
<1>3. SessionsEnd'
  BY DEF SessionInv, SessionsEnd
<1>4. /\ GoesToClear => GoesToClear'
      /\ GoesToClearVault => GoesToClearVault'
  BY <1>1 DEF GoesToClear, GoesToClearVault, At, Quiet
<1>5. Clearing'
  BY <1>1, <1>4 DEF SessionInv, Clearing, Quiet, AcceptSteps
<1> QED
  BY <1>2, <1>3, <1>5

LEMMA LinksStay ==
  ASSUME SessionInv, NEW t \in Threads, NEW r, Moves(t, r), r.step # "mail",
         UNCHANGED attempts,
         \A k \in Attempts : link'[k] # link[k] =>
             /\ k <= attempts
             /\ \A u \in Threads : thread[u].step = "mail" /\ thread[u].session = k => u = t
  PROVE  LinksAskedOnce'
<1>1. /\ thread'[t] = r
      /\ \A u \in Threads : u # t => thread'[u] = thread[u]
  BY MoveIs DEF SessionInv
<1>2. \A u \in Threads : thread'[u].step = "mail" =>
          u # t /\ thread'[u] = thread[u] /\ thread[u].session \in Attempts
  BY <1>1 DEF SessionInv, SessionTypeOK, SessionThread, SessionOf
<1>3. \A k \in Attempts : k > attempts => link'[k] = "none"
  <2>1. \A k \in Attempts : k > attempts => ~(k <= attempts)
    BY SessionAssumption DEF SessionInv, SessionTypeOK, Attempts
  <2> QED
    BY <2>1 DEF SessionInv, LinksAskedOnce
<1>4. ASSUME NEW u \in Threads, thread'[u].step = "mail"
      PROVE  /\ thread'[u].session <= attempts /\ link'[thread'[u].session] = "none"
             /\ \A w \in Threads : thread'[w].step = "mail"
                     /\ thread'[w].session = thread'[u].session => w = u
  <2>1. u # t /\ thread'[u] = thread[u] /\ thread[u].session \in Attempts
    BY <1>2, <1>4
  <2>2. /\ thread[u].session <= attempts /\ link[thread[u].session] = "none"
        /\ \A w \in Threads : thread[w].step = "mail"
                /\ thread[w].session = thread[u].session => w = u
    BY <1>4, <2>1 DEF SessionInv, LinksAskedOnce
  <2>3. link'[thread[u].session] = link[thread[u].session]
    BY <1>4, <2>1
  <2> QED
    BY <1>2, <2>1, <2>2, <2>3
<1> QED
  BY <1>3, <1>4 DEF LinksAskedOnce

LEMMA SessionInvInit == SessionInit => SessionInv
<1> SUFFICES ASSUME SessionInit PROVE SessionInv
  OBVIOUS
<1>1. \A t \in Threads : thread[t] = Unasked
  BY DEF SessionInit
<1>2. Unasked \in SessionThread /\ Unasked.step = "idle"
  BY DEF Unasked, SessionThread, SessionSteps
<1>3. SessionTypeOK
  <2>1. Unasked.step \notin SessionOf
    BY <1>2 DEF SessionOf
  <2>2. thread \in [Threads -> SessionThread]
    BY <1>2 DEF SessionInit
  <2>3. attempts \in 0 .. MaxLogins
    BY SessionAssumption DEF SessionInit
  <2>4. /\ link \in [Attempts -> {"none", "sent", "used"}]
        /\ owner \in [Attempts -> People \cup {"none", "ended"}]
    BY DEF SessionInit
  <2> QED
    BY <1>1, <2>1, <2>2, <2>3, <2>4 DEF SessionInit, SessionTypeOK
<1>4. AcceptedBy /\ SessionsEnd /\ LinksAskedOnce /\ Clearing
  BY <1>1, <1>2 DEF SessionInit, AcceptedBy, SessionsEnd, LinksAskedOnce, Clearing, AcceptSteps
<1> QED
  BY <1>3, <1>4 DEF SessionInv

LEMMA SessionSteps1 ==
  ASSUME SessionInv, NEW t \in Threads
  PROVE  /\ StartLogin(t) => SessionInv'
         /\ SendLink(t) => SessionInv'
         /\ Expire(t) => SessionInv'
         /\ \A k \in Attempts : OpenLink(t, k) => SessionInv'
         /\ ExchangeFails(t) => SessionInv'
<1> USE SessionAssumption DEF SessionOf
<1>1. SessionTypeOK /\ MaxLogins \in Nat
  BY DEF SessionInv
<1>2. ASSUME StartLogin(t) PROVE SessionInv'
  <2>1. attempts + 1 \in Attempts /\ attempts + 1 # 0
    BY <1>1, <1>2 DEF StartLogin, SessionTypeOK, Attempts
  <2>2. PICK r : Moves(t, r) /\ r.step = "mail" /\ r.session = attempts + 1
    BY <1>2, <2>1, BeginMoves DEF StartLogin, SessionSteps
  <2>3. Quiet(t, r)
    BY <1>2, <2>2 DEF Quiet, StartLogin, Begin, At
  <2>4. AcceptedBy' /\ SessionsEnd' /\ Clearing'
    BY <1>2, <2>2, <2>3, QuietKeeps DEF StartLogin, serviceVars, memoryVars
  <2>5. SessionTypeOK'
    BY <1>1, <1>2, <2>1, <2>2, MoveIs
    DEF StartLogin, SessionTypeOK, Attempts, serviceVars, memoryVars
  <2>6. /\ thread'[t] = r /\ \A u \in Threads : u # t => thread'[u] = thread[u]
        /\ attempts' = attempts + 1 /\ link' = link /\ attempts \in Nat
    BY <1>1, <1>2, <2>2, MoveIs DEF StartLogin, serviceVars, SessionTypeOK
  <2>7. \A u \in Threads : thread[u].step = "mail" =>
            thread[u].session \in Nat /\ thread[u].session < attempts + 1
    BY <2>6, <1>1 DEF SessionInv, LinksAskedOnce, SessionTypeOK, SessionThread, Attempts
  <2>8. \A k \in Attempts : k > attempts' => link'[k] = "none"
    BY <2>6 DEF SessionInv, LinksAskedOnce, Attempts
  <2>9. LinksAskedOnce'
    BY <2>1, <2>2, <2>6, <2>7, <2>8 DEF SessionInv, LinksAskedOnce
  <2> QED
    BY <2>4, <2>5, <2>9 DEF SessionInv
<1>3. ASSUME SendLink(t) PROVE SessionInv'
  <2>1. Moves(t, Unasked) /\ Quiet(t, Unasked)
    BY <1>3, UnaskedMoves DEF SendLink, Quiet, At
  <2>2. thread[t].session \in Attempts
    BY <1>1, <1>3 DEF SendLink, SessionTypeOK, SessionThread, At
  <2>3. /\ link' \in [Attempts -> {"none", "sent", "used"}]
        /\ pkce' \in Attempts \cup {0}
    BY <1>1, <1>3, <2>2 DEF SendLink, SessionTypeOK
  <2>4. SessionTypeOK'
    BY <1>1, <1>3, <2>1, <2>3, MoveIs DEF SendLink, SessionTypeOK, memoryVars
  <2>5. /\ link[thread[t].session] = "none" /\ thread[t].session <= attempts
        /\ \A u \in Threads : thread[u].step = "mail" /\ thread[u].session = thread[t].session
               => u = t
    BY <1>3 DEF SendLink, SessionInv, LinksAskedOnce, At
  <2>6. \A k \in Attempts : link'[k] # link[k] => k = thread[t].session
    BY <1>1, <1>3 DEF SendLink, SessionTypeOK
  <2>7. AcceptedBy' /\ SessionsEnd' /\ Clearing'
    BY <1>3, <2>1, <2>5, <2>6, QuietKeeps DEF SendLink, memoryVars
  <2>8. LinksAskedOnce'
    BY <1>3, <2>1, <2>5, <2>6, LinksStay DEF SendLink, Unasked
  <2> QED
    BY <2>4, <2>7, <2>8 DEF SessionInv
<1>4. ASSUME Expire(t) PROVE SessionInv'
  BY <1>1, <1>4
  DEF Expire, SessionInv, SessionTypeOK, AcceptedBy, SessionsEnd, LinksAskedOnce, Clearing,
      serviceVars, memoryVars, GoesToClear, GoesToClearVault, At
<1>5. ASSUME NEW k \in Attempts, OpenLink(t, k) PROVE SessionInv'
  <2>1. PICK step \in {"exchange", "mismatch"} : Begin(t, step, "login", k)
    BY <1>5 DEF OpenLink
  <2>2. k # 0
    BY DEF Attempts
  <2>3. PICK r : Moves(t, r) /\ r.step = step /\ r.for = "login"
    BY <2>1, <2>2, BeginMoves DEF SessionSteps
  <2>4. Quiet(t, r)
    BY <2>1, <2>3 DEF Quiet, Begin, At
  <2>5. AcceptedBy' /\ SessionsEnd' /\ Clearing'
    BY <1>5, <2>3, <2>4, QuietKeeps DEF OpenLink, serviceVars, memoryVars, fileVars
  <2>6. SessionTypeOK'
    BY <1>1, <1>5, <2>3, MoveIs
    DEF OpenLink, SessionTypeOK, serviceVars, memoryVars, fileVars
  <2>7. LinksAskedOnce'
    BY <1>5, <2>1, <2>3, LinksStay DEF OpenLink, serviceVars
  <2> QED
    BY <2>5, <2>6, <2>7 DEF SessionInv
<1>6. ASSUME ExchangeFails(t) PROVE SessionInv'
  <2>1. PICK r : Moves(t, r) /\ r.step \in {"idle", "clear"}
    BY <1>1, <1>6, FailMoves DEF ExchangeFails
  <2>2. Quiet(t, r)
    BY <1>6, <2>1 DEF Quiet, ExchangeFails, At
  <2>3. AcceptedBy' /\ SessionsEnd' /\ Clearing'
    BY <1>6, <2>1, <2>2, QuietKeeps DEF ExchangeFails, Fail, serviceVars, fileVars
  <2>4. SessionTypeOK'
    BY <1>1, <1>6, <2>1, MoveIs
    DEF ExchangeFails, Fail, SessionTypeOK, serviceVars, fileVars
  <2>5. LinksAskedOnce'
    BY <1>6, <2>1, LinksStay DEF ExchangeFails, serviceVars
  <2> QED
    BY <2>3, <2>4, <2>5 DEF SessionInv
<1> QED
  BY <1>2, <1>3, <1>4, <1>5, <1>6

LEMMA SessionSteps2 ==
  ASSUME SessionInv, NEW t \in Threads
  PROVE  /\ \A p \in People : Exchange(t, p) => SessionInv'
         /\ \A for \in {"request", "signout"} : UseToken(t, for) => SessionInv'
         /\ \A for \in {"request", "signout"} : BeginRefresh(t, for) => SessionInv'
         /\ NotLoggedIn(t) => SessionInv'
         /\ Refresh(t) => SessionInv'
<1> USE SessionAssumption DEF SessionOf
<1>1. SessionTypeOK /\ thread[t] \in SessionThread
  BY DEF SessionInv, SessionTypeOK
<1>2. ASSUME NEW p \in People, Exchange(t, p) PROVE SessionInv'
  <2>1. PICK r : /\ Moves(t, r) /\ r.step = "validate" /\ r.for = thread[t].for
                 /\ r.session = thread[t].session
    <3>1. thread[t].session # 0
      BY <1>1, <1>2 DEF Exchange, SessionTypeOK, At
    <3> QED
      BY <1>1, <1>2, <3>1, ProceedMoves DEF Exchange, SessionSteps
  <2>2. PICK k \in Attempts : k = thread[t].session
    BY <1>1, <1>2 DEF Exchange, SessionTypeOK, SessionThread, At
  <2>3. /\ link[k] = "sent" /\ link' = [link EXCEPT ![k] = "used"]
        /\ owner' = [owner EXCEPT ![k] = p] /\ thread[t].step = "exchange"
        /\ UNCHANGED <<attempts, signedOut, pkce, tokenFile, memory, fresh, lock>>
    BY <1>2, <2>2 DEF Exchange, At, fileVars, memoryVars
  <2>4. owner[k] = "none" /\ k \notin signedOut /\ thread[t].for = "login"
    BY <2>3 DEF SessionInv, SessionsEnd, AcceptedBy
  <2>5. /\ thread' \in [Threads -> SessionThread] /\ thread'[t] = r
        /\ \A u \in Threads : u # t => thread'[u] = thread[u]
    BY <1>1, <2>1, MoveIs
  <2>6. SessionTypeOK'
    BY <1>1, <2>1, <2>3, MoveIs DEF SessionTypeOK
  <2>7. AcceptedBy'
    BY <2>1, <2>2, <2>3, <2>4, <2>5 DEF SessionInv, AcceptedBy, AcceptSteps
  <2>8. SessionsEnd'
    BY <1>1, <2>3, <2>4 DEF SessionInv, SessionsEnd, SessionTypeOK
  <2>9. (GoesToClear => GoesToClear') /\ (GoesToClearVault => GoesToClearVault')
    BY <2>3, <2>5 DEF GoesToClear, GoesToClearVault, At
  <2>10. Clearing'
    BY <2>1, <2>2, <2>3, <2>4, <2>5, <2>9 DEF SessionInv, Clearing, AcceptSteps
  <2>11. k <= attempts
    BY <1>1, <2>3 DEF SessionInv, LinksAskedOnce, SessionTypeOK, Attempts
  <2>12. \A u \in Threads : thread[u].step = "mail" => thread[u].session # k
    BY <2>3 DEF SessionInv, LinksAskedOnce
  <2>13. \A j \in Attempts : link'[j] # link[j] => j = k
    BY <1>1, <2>3 DEF SessionTypeOK
  <2>14. LinksAskedOnce'
    BY <2>1, <2>3, <2>11, <2>12, <2>13, LinksStay
  <2> QED
    BY <2>6, <2>7, <2>8, <2>10, <2>14 DEF SessionInv
<1>3. ASSUME NEW for \in {"request", "signout"}, UseToken(t, for) PROVE SessionInv'
  <2>1. PICK r : r = IF for = "signout"
                     THEN [step |-> "logout", for |-> for, session |-> memory] ELSE Unasked
    OBVIOUS
  <2>2. memory \in Attempts \cup {0} /\ memory # 0
    BY <1>1, <1>3 DEF SessionTypeOK, UseToken, NeedsRefresh
  <2>3. Moves(t, r) /\ r.step \in {"logout", "idle"}
    BY <1>3, <2>1, <2>2 DEF Moves, UseToken, Granted, SessionThread, SessionSteps, Unasked
  <2>4. Quiet(t, r)
    BY <1>3, <2>3 DEF Quiet, UseToken, At
  <2>5. AcceptedBy' /\ SessionsEnd' /\ Clearing'
    BY <1>3, <2>3, <2>4, QuietKeeps DEF UseToken, serviceVars, fileVars, memoryVars
  <2>6. SessionTypeOK'
    BY <1>1, <1>3, <2>3, MoveIs DEF UseToken, SessionTypeOK, serviceVars, fileVars, memoryVars
  <2>7. LinksAskedOnce'
    BY <1>3, <2>3, LinksStay DEF UseToken, serviceVars
  <2> QED
    BY <2>5, <2>6, <2>7 DEF SessionInv
<1>4. ASSUME NEW for \in {"request", "signout"}, BeginRefresh(t, for) PROVE SessionInv'
  <2>1. tokenFile \in Attempts \cup {0} /\ tokenFile # 0
    BY <1>1, <1>4 DEF SessionTypeOK, BeginRefresh
  <2>2. PICK r : Moves(t, r) /\ r.step = "refresh"
    BY <1>4, <2>1, BeginMoves DEF BeginRefresh, SessionSteps
  <2>3. /\ thread' \in [Threads -> SessionThread] /\ thread'[t] = r
        /\ \A u \in Threads : u # t => thread'[u] = thread[u]
    BY <1>1, <2>2, MoveIs
  <2>4. /\ lock = "free" /\ lock' = t /\ thread[t].step = "idle"
        /\ UNCHANGED <<attempts, link, owner, signedOut, pkce, tokenFile, memory, fresh>>
    BY <1>4 DEF BeginRefresh, Begin, At, serviceVars, fileVars
  <2>5. SessionTypeOK'
    BY <1>1, <2>2, <2>4, MoveIs DEF SessionTypeOK
  <2>6. AcceptedBy'
    BY <2>2, <2>3, <2>4 DEF SessionInv, AcceptedBy, AcceptSteps
  <2>7. SessionsEnd'
    BY <2>4 DEF SessionInv, SessionsEnd
  <2>8. (GoesToClear => GoesToClear') /\ (GoesToClearVault => GoesToClearVault')
    BY <2>3, <2>4 DEF GoesToClear, GoesToClearVault, At
  <2>9. Clearing'
    BY <2>2, <2>3, <2>4, <2>8 DEF SessionInv, Clearing, AcceptSteps
  <2>10. LinksAskedOnce'
    BY <2>2, <2>4, LinksStay
  <2> QED
    BY <2>5, <2>6, <2>7, <2>9, <2>10 DEF SessionInv
<1>5. ASSUME NotLoggedIn(t) PROVE SessionInv'
  <2>1. PICK r : r = [Unasked EXCEPT !.step = "clear", !.for = "signout"]
    OBVIOUS
  <2>2. Moves(t, r) /\ r.step = "clear"
    BY <1>5, <2>1 DEF Moves, NotLoggedIn, SessionThread, SessionSteps, Unasked
  <2>3. Quiet(t, r)
    BY <1>5, <2>2 DEF Quiet, NotLoggedIn, At
  <2>4. AcceptedBy' /\ SessionsEnd' /\ Clearing'
    BY <1>5, <2>2, <2>3, QuietKeeps DEF NotLoggedIn, serviceVars, fileVars, memoryVars
  <2>5. SessionTypeOK'
    BY <1>1, <1>5, <2>2, MoveIs
    DEF NotLoggedIn, SessionTypeOK, serviceVars, fileVars, memoryVars
  <2>6. LinksAskedOnce'
    BY <1>5, <2>2, LinksStay DEF NotLoggedIn, serviceVars
  <2> QED
    BY <2>4, <2>5, <2>6 DEF SessionInv
<1>6. ASSUME Refresh(t) PROVE SessionInv'
  <2>1. CASE Fail(t)
    <3>1. PICK r : Moves(t, r) /\ r.step \in {"idle", "clear"}
      BY <1>1, <2>1, FailMoves
    <3>2. Quiet(t, r)
      BY <1>6, <3>1 DEF Quiet, Refresh, At
    <3>3. AcceptedBy' /\ SessionsEnd' /\ Clearing'
      BY <1>6, <2>1, <3>1, <3>2, QuietKeeps DEF Refresh, Fail, serviceVars, fileVars
    <3>4. SessionTypeOK'
      BY <1>1, <1>6, <2>1, <3>1, MoveIs
      DEF Refresh, Fail, SessionTypeOK, serviceVars, fileVars
    <3>5. LinksAskedOnce'
      BY <1>6, <3>1, LinksStay DEF Refresh, serviceVars
    <3> QED
      BY <3>3, <3>4, <3>5 DEF SessionInv
  <2>2. CASE owner[thread[t].session] \in People /\ Proceed(t, "validate") /\ UNCHANGED lock
    <3>1. PICK r : Moves(t, r) /\ r.step = "validate" /\ r.session = thread[t].session
      <4>1. thread[t].session # 0
        BY <1>1, <1>6 DEF Refresh, SessionTypeOK, At
      <4> QED
        BY <1>1, <2>2, <4>1, ProceedMoves DEF SessionSteps
    <3>2. /\ thread' \in [Threads -> SessionThread] /\ thread'[t] = r
          /\ \A u \in Threads : u # t => thread'[u] = thread[u]
      BY <1>1, <3>1, MoveIs
    <3>3. /\ thread[t].step = "refresh" /\ lock = t
          /\ UNCHANGED <<attempts, link, owner, signedOut, pkce, tokenFile, memory, fresh, lock>>
      BY <1>6, <2>2 DEF Refresh, At, serviceVars, fileVars, SessionInv, AcceptedBy
    <3>4. r.session \notin signedOut
      BY <2>2, <3>1 DEF SessionInv, SessionsEnd
    <3>5. SessionTypeOK'
      BY <1>1, <3>1, <3>3, MoveIs DEF SessionTypeOK
    <3>6. AcceptedBy'
      BY <3>1, <3>2, <3>3, <3>4 DEF SessionInv, AcceptedBy, AcceptSteps
    <3>7. SessionsEnd'
      BY <3>3 DEF SessionInv, SessionsEnd
    <3>8. (GoesToClear => GoesToClear') /\ (GoesToClearVault => GoesToClearVault')
      BY <3>2, <3>3 DEF GoesToClear, GoesToClearVault, At
    <3>9. Clearing'
      BY <3>1, <3>2, <3>3, <3>4, <3>8 DEF SessionInv, Clearing, AcceptSteps
    <3>10. LinksAskedOnce'
      BY <3>1, <3>3, LinksStay
    <3> QED
      BY <3>5, <3>6, <3>7, <3>9, <3>10 DEF SessionInv
  <2> QED
    BY <1>6, <2>1, <2>2 DEF Refresh
<1> QED
  BY <1>2, <1>3, <1>4, <1>5, <1>6

LEMMA SessionSteps3 ==
  ASSUME SessionInv, NEW t \in Threads
  PROVE  /\ Validate(t) => SessionInv'
         /\ Save(t) => SessionInv'
         /\ Set(t) => SessionInv'
<1> USE SessionAssumption DEF SessionOf
<1>1. SessionTypeOK /\ thread[t] \in SessionThread
  BY DEF SessionInv, SessionTypeOK
<1>2. ASSUME Validate(t) PROVE SessionInv'
  <2>1. CASE Fail(t)
    <3>1. PICK r : Moves(t, r) /\ r.step \in {"idle", "clear"}
      BY <1>1, <2>1, FailMoves
    <3>2. Quiet(t, r)
      BY <1>2, <3>1 DEF Quiet, Validate, At
    <3>3. /\ UNCHANGED <<attempts, link, owner, signedOut, tokenFile, memory, fresh>>
          /\ lock' \in {lock, "free"} /\ (lock' = "free" => lock \in {t, "free"})
          /\ lock' = IF lock = t THEN "free" ELSE lock
      BY <1>2, <2>1 DEF Validate, Fail, serviceVars
    <3>4. AcceptedBy' /\ SessionsEnd' /\ Clearing'
      BY <3>1, <3>2, <3>3, QuietKeeps
    <3>5. pkce' \in Attempts \cup {0}
      BY <1>1, <1>2 DEF Validate, SessionTypeOK
    <3>6. SessionTypeOK'
      BY <1>1, <3>1, <3>3, <3>5, MoveIs DEF SessionTypeOK
    <3>7. LinksAskedOnce'
      BY <3>1, <3>3, LinksStay
    <3> QED
      BY <3>4, <3>6, <3>7 DEF SessionInv
  <2>2. CASE Proceed(t, "save") /\ UNCHANGED <<pkce, lock>>
    <3>1. PICK r : /\ Moves(t, r) /\ r.step = "save" /\ r.session = thread[t].session
                   /\ r.for = thread[t].for
      <4>1. thread[t].session # 0
        BY <1>1, <1>2 DEF Validate, SessionTypeOK, At
      <4> QED
        BY <1>1, <2>2, <4>1, ProceedMoves DEF SessionSteps
    <3>2. /\ thread' \in [Threads -> SessionThread] /\ thread'[t] = r
          /\ \A u \in Threads : u # t => thread'[u] = thread[u]
      BY <1>1, <3>1, MoveIs
    <3>3. /\ thread[t].step = "validate"
          /\ UNCHANGED <<attempts, link, owner, signedOut, pkce, tokenFile, memory, fresh, lock>>
      BY <1>2, <2>2 DEF Validate, At, serviceVars
    <3>5. SessionTypeOK'
      BY <1>1, <3>1, <3>3, MoveIs DEF SessionTypeOK
    <3>6. AcceptedBy'
      BY <3>1, <3>2, <3>3 DEF SessionInv, AcceptedBy, AcceptSteps
    <3>7. SessionsEnd'
      BY <3>3 DEF SessionInv, SessionsEnd
    <3>8. (GoesToClear => GoesToClear') /\ (GoesToClearVault => GoesToClearVault')
      BY <3>2, <3>3 DEF GoesToClear, GoesToClearVault, At
    <3>9. Clearing'
      BY <3>1, <3>2, <3>3, <3>8 DEF SessionInv, Clearing, AcceptSteps
    <3>10. LinksAskedOnce'
      BY <3>1, <3>3, LinksStay
    <3> QED
      BY <3>5, <3>6, <3>7, <3>9, <3>10 DEF SessionInv
  <2> QED
    BY <1>2, <2>1, <2>2 DEF Validate
<1>3. ASSUME Save(t) PROVE SessionInv'
  <2>1. PICK r : /\ Moves(t, r) /\ r.step = "set" /\ r.session = thread[t].session
                 /\ r.for = thread[t].for
    <3>1. thread[t].session # 0
      BY <1>1, <1>3 DEF Save, SessionTypeOK, At
    <3> QED
      BY <1>1, <1>3, <3>1, ProceedMoves DEF SessionSteps, Save
  <2>2. /\ thread' \in [Threads -> SessionThread] /\ thread'[t] = r
        /\ \A u \in Threads : u # t => thread'[u] = thread[u]
    BY <1>1, <2>1, MoveIs
  <2>3. /\ thread[t].step = "save" /\ tokenFile' = thread[t].session
        /\ UNCHANGED <<attempts, link, owner, signedOut, pkce, memory, fresh, lock>>
    BY <1>3 DEF Save, At, serviceVars, memoryVars
  <2>4. SessionTypeOK'
    BY <1>1, <2>1, <2>3, MoveIs DEF SessionTypeOK, SessionThread
  <2>5. AcceptedBy'
    BY <2>1, <2>2, <2>3 DEF SessionInv, AcceptedBy, AcceptSteps
  <2>6. SessionsEnd'
    BY <2>3 DEF SessionInv, SessionsEnd
  <2>7. /\ GoesToClear => GoesToClear' /\ GoesToClearVault'
        /\ GoesToClearVault => GoesToClearVault'
    BY <2>2, <2>3 DEF GoesToClear, GoesToClearVault, At
  <2>8. Clearing'
    BY <2>1, <2>2, <2>3, <2>7 DEF SessionInv, Clearing, AcceptSteps
  <2>9. LinksAskedOnce'
    BY <2>1, <2>3, LinksStay
  <2> QED
    BY <2>4, <2>5, <2>6, <2>8, <2>9 DEF SessionInv
<1>4. ASSUME Set(t) PROVE SessionInv'
  <2>1. PICK r : Moves(t, r) /\ r.step \in {"forget", "logout", "idle"}
    <3>1. CASE thread[t].for = "login"
      BY <1>1, <1>4, <3>1, ProceedMoves DEF Set, SessionSteps
    <3>2. CASE thread[t].for = "signout" /\ thread[t].session # 0
      BY <1>1, <1>4, <3>2, ProceedMoves DEF Set, SessionSteps
    <3>3. CASE thread[t].for \notin {"login", "signout"}
      BY <1>4, <3>3, UnaskedMoves DEF Set
    <3>4. thread[t].session # 0
      BY <1>1, <1>4 DEF Set, SessionTypeOK, At
    <3> QED
      BY <3>1, <3>2, <3>3, <3>4
  <2>2. /\ thread' \in [Threads -> SessionThread] /\ thread'[t] = r
        /\ \A u \in Threads : u # t => thread'[u] = thread[u]
    BY <1>1, <2>1, MoveIs
  <2>3. /\ thread[t].step = "set" /\ memory' = thread[t].session /\ fresh' = TRUE
        /\ lock \in {"free", t} /\ lock' = "free"
        /\ UNCHANGED <<attempts, link, owner, signedOut, pkce, tokenFile>>
    BY <1>4 DEF Set, At, serviceVars, fileVars
  <2>4. SessionTypeOK'
    BY <1>1, <2>1, <2>3, MoveIs DEF SessionTypeOK, SessionThread
  <2>5. AcceptedBy'
    BY <2>1, <2>2, <2>3 DEF SessionInv, AcceptedBy, AcceptSteps
  <2>6. SessionsEnd'
    BY <2>3 DEF SessionInv, SessionsEnd
  <2>7. /\ GoesToClear => GoesToClear'
        /\ GoesToClearVault => GoesToClearVault'
    BY <2>2, <2>3 DEF GoesToClear, GoesToClearVault, At
  <2>8. Clearing'
    BY <2>1, <2>2, <2>3, <2>7 DEF SessionInv, Clearing, AcceptSteps
  <2>9. LinksAskedOnce'
    BY <2>1, <2>3, LinksStay
  <2> QED
    BY <2>4, <2>5, <2>6, <2>8, <2>9 DEF SessionInv
<1> QED
  BY <1>2, <1>3, <1>4

LEMMA SessionSteps4 ==
  ASSUME SessionInv, NEW t \in Threads
  PROVE  /\ ForgetAttempt(t) => SessionInv'
         /\ LogOut(t) => SessionInv'
         /\ ClearMemory(t) => SessionInv'
         /\ ClearVault(t) => SessionInv'
<1> USE SessionAssumption DEF SessionOf
<1>1. SessionTypeOK /\ thread[t] \in SessionThread
  BY DEF SessionInv, SessionTypeOK
<1>2. ASSUME ForgetAttempt(t) PROVE SessionInv'
  <2>1. Moves(t, Unasked) /\ Quiet(t, Unasked)
    BY <1>2, UnaskedMoves DEF ForgetAttempt, Quiet, At
  <2>2. AcceptedBy' /\ SessionsEnd' /\ Clearing'
    BY <1>2, <2>1, QuietKeeps DEF ForgetAttempt, serviceVars, memoryVars
  <2>3. SessionTypeOK'
    BY <1>1, <1>2, <2>1, MoveIs DEF ForgetAttempt, SessionTypeOK, serviceVars, memoryVars
  <2>4. LinksAskedOnce'
    BY <1>2, <2>1, LinksStay DEF ForgetAttempt, serviceVars, Unasked
  <2> QED
    BY <2>2, <2>3, <2>4 DEF SessionInv
<1>3. ASSUME LogOut(t) PROVE SessionInv'
  <2>1. PICK r : Moves(t, r) /\ r.step = "clear"
    BY <1>1, <1>3, ProceedMoves DEF LogOut, SessionSteps
  <2>2. /\ thread' \in [Threads -> SessionThread] /\ thread'[t] = r
        /\ \A u \in Threads : u # t => thread'[u] = thread[u]
    BY <1>1, <2>1, MoveIs
  <2>3. PICK k \in Attempts : k = thread[t].session
    BY <1>1, <1>3 DEF LogOut, SessionTypeOK, SessionThread, At
  <2>4. /\ thread[t].step = "logout"
        /\ UNCHANGED <<attempts, link, pkce, tokenFile, memory, fresh, lock>>
    BY <1>3 DEF LogOut, At, fileVars, memoryVars
  <2>5. \/ /\ owner[k] \in People
           /\ owner' = [j \in Attempts |-> IF owner[j] = owner[k] THEN "ended" ELSE owner[j]]
           /\ signedOut' = IF Accepting(k) THEN signedOut ELSE signedOut \cup {k}
        \/ UNCHANGED <<owner, signedOut>>
    BY <1>3, <2>3 DEF LogOut
  <2>6. /\ owner' \in [Attempts -> People \cup {"none", "ended"}]
        /\ signedOut' \in SUBSET Attempts
        /\ \A j \in Attempts : owner'[j] \in {owner[j], "ended"}
        /\ \A j \in Attempts : owner[j] = "none" => owner'[j] = "none"
        /\ \A j \in signedOut' : j \in signedOut
                                    \/ (j = k /\ owner'[k] = "ended" /\ ~Accepting(k))
        /\ \A j \in Attempts : owner[j] = "ended" => owner'[j] = "ended"
    <3>1. CASE UNCHANGED <<owner, signedOut>>
      BY <1>1, <3>1 DEF SessionTypeOK
    <3>2. CASE ~UNCHANGED <<owner, signedOut>>
      BY <1>1, <2>5, <3>2 DEF SessionTypeOK
    <3> QED
      BY <3>1, <3>2
  <2>7. SessionTypeOK'
    BY <1>1, <2>1, <2>4, <2>6, MoveIs DEF SessionTypeOK
  <2>8. \A u \in Threads : u # t /\ thread[u].for = "login" /\ thread[u].step \in AcceptSteps
            => thread[u].session \notin signedOut'
    BY <2>6 DEF Accepting, AcceptSteps, SessionInv, AcceptedBy
  <2>9. AcceptedBy'
    BY <2>1, <2>2, <2>4, <2>8 DEF SessionInv, AcceptedBy, AcceptSteps
  <2>10. SessionsEnd'
    BY <1>1, <2>4, <2>6 DEF SessionInv, SessionsEnd, SessionTypeOK
  <2>11. GoesToClear' /\ GoesToClearVault'
    BY <2>1, <2>2 DEF GoesToClear, GoesToClearVault, At
  <2>12. Clearing'
    BY <2>11 DEF Clearing
  <2>13. LinksAskedOnce'
    BY <2>1, <2>4, LinksStay
  <2> QED
    BY <2>7, <2>9, <2>10, <2>12, <2>13 DEF SessionInv
<1>4. ASSUME ClearMemory(t) PROVE SessionInv'
  <2>1. PICK r : Moves(t, r) /\ r.step = "clearVault"
    BY <1>1, <1>4, ProceedMoves DEF ClearMemory, SessionSteps
  <2>2. /\ thread' \in [Threads -> SessionThread] /\ thread'[t] = r
        /\ \A u \in Threads : u # t => thread'[u] = thread[u]
    BY <1>1, <2>1, MoveIs
  <2>3. /\ thread[t].step = "clear" /\ lock = "free" /\ memory' = 0 /\ fresh' = FALSE
        /\ UNCHANGED <<attempts, link, owner, signedOut, pkce, tokenFile, lock>>
    BY <1>4 DEF ClearMemory, At, fileVars, serviceVars
  <2>4. SessionTypeOK'
    BY <1>1, <2>1, <2>3, MoveIs DEF SessionTypeOK
  <2>5. AcceptedBy'
    BY <2>1, <2>2, <2>3 DEF SessionInv, AcceptedBy, AcceptSteps
  <2>6. SessionsEnd'
    BY <2>3 DEF SessionInv, SessionsEnd
  <2>7. GoesToClearVault'
    BY <2>1, <2>2 DEF GoesToClearVault, At
  <2>8. 0 \notin signedOut'
    BY <2>4 DEF SessionTypeOK, Attempts
  <2>9. \A u \in Threads : thread[u].step \in AcceptSteps => thread[u].session \notin signedOut
    BY <2>3 DEF SessionInv, AcceptedBy
  <2>10. Clearing'
    BY <2>1, <2>2, <2>3, <2>7, <2>8, <2>9 DEF Clearing, AcceptSteps
  <2>11. LinksAskedOnce'
    BY <2>1, <2>3, LinksStay
  <2> QED
    BY <2>4, <2>5, <2>6, <2>10, <2>11 DEF SessionInv
<1>5. ASSUME ClearVault(t) PROVE SessionInv'
  <2>1. PICK r : Moves(t, r) /\ r.step = "forget"
    BY <1>1, <1>5, ProceedMoves DEF ClearVault, SessionSteps
  <2>2. /\ thread' \in [Threads -> SessionThread] /\ thread'[t] = r
        /\ \A u \in Threads : u # t => thread'[u] = thread[u]
    BY <1>1, <2>1, MoveIs
  <2>3. /\ thread[t].step = "clearVault" /\ tokenFile' = 0
        /\ UNCHANGED <<attempts, link, owner, signedOut, pkce, memory, fresh, lock>>
    BY <1>5 DEF ClearVault, At, memoryVars, serviceVars
  <2>4. SessionTypeOK'
    BY <1>1, <2>1, <2>3, MoveIs DEF SessionTypeOK
  <2>5. AcceptedBy'
    BY <2>1, <2>2, <2>3 DEF SessionInv, AcceptedBy, AcceptSteps
  <2>6. SessionsEnd'
    BY <2>3 DEF SessionInv, SessionsEnd
  <2>7. GoesToClear => GoesToClear'
    BY <2>2, <2>3 DEF GoesToClear, At
  <2>8. 0 \notin signedOut'
    BY <2>4 DEF SessionTypeOK, Attempts
  <2>9. Clearing'
    BY <2>1, <2>2, <2>3, <2>7, <2>8 DEF SessionInv, Clearing, AcceptSteps
  <2>10. LinksAskedOnce'
    BY <2>1, <2>3, LinksStay
  <2> QED
    BY <2>4, <2>5, <2>6, <2>9, <2>10 DEF SessionInv
<1> QED
  BY <1>2, <1>3, <1>4, <1>5

LEMMA RestartKeepsSession ==
  ASSUME SessionInv, Age \/ Restart
  PROVE  SessionInv'
<1> USE SessionAssumption
<1>1. SessionTypeOK
  BY DEF SessionInv
<1>2. CASE Age
  <2>1. /\ UNCHANGED <<attempts, serviceVars, fileVars, memory, lock, thread>>
        /\ fresh' \in BOOLEAN
    BY <1>2 DEF Age
  <2>2. SessionTypeOK'
    BY <1>1, <2>1 DEF SessionTypeOK, serviceVars, fileVars
  <2>3. AcceptedBy' /\ SessionsEnd' /\ LinksAskedOnce'
    BY <2>1 DEF SessionInv, AcceptedBy, SessionsEnd, LinksAskedOnce, serviceVars, fileVars, At
  <2>4. GoesToClear' = GoesToClear /\ GoesToClearVault' = GoesToClearVault
    BY <2>1 DEF GoesToClear, GoesToClearVault, At
  <2>5. Clearing'
    BY <2>1, <2>4 DEF SessionInv, Clearing, serviceVars, fileVars
  <2> QED
    BY <2>2, <2>3, <2>5 DEF SessionInv
<1>3. CASE Restart
  <2>1. \A t \in Threads : thread'[t] = Unasked
    BY <1>3 DEF Restart
  <2>2. Unasked \in SessionThread /\ Unasked.step = "idle" /\ "idle" \notin SessionOf
    BY DEF Unasked, SessionThread, SessionSteps, SessionOf
  <2>3. thread' \in [Threads -> SessionThread]
    BY <1>3, <2>2 DEF Restart
  <2>4. SessionTypeOK'
    BY <1>1, <1>3, <2>1, <2>2, <2>3 DEF Restart, SessionTypeOK, fileVars
  <2>5. AcceptedBy' /\ Clearing'
    BY <1>3, <2>1, <2>2 DEF Restart, AcceptedBy, Clearing, AcceptSteps
  <2>6. SessionsEnd' /\ LinksAskedOnce'
    BY <1>3, <2>1, <2>2 DEF Restart, SessionInv, SessionsEnd, LinksAskedOnce
  <2> QED
    BY <2>4, <2>5, <2>6 DEF SessionInv
<1> QED
  BY <1>2, <1>3

(* Logins, refreshes, sign-outs and restarts keep the account of which      *)
(* session is where and who is going to clear it.                           *)
THEOREM SessionInvHolds == SessionSpec => []SessionInv
<1>1. SessionInv /\ [SessionNext]_sessionVars => SessionInv'
  <2> SUFFICES ASSUME SessionInv, [SessionNext]_sessionVars PROVE SessionInv'
    OBVIOUS
  <2>1. CASE UNCHANGED sessionVars
    BY <2>1 DEF sessionVars, serviceVars, fileVars, memoryVars, SessionInv, SessionTypeOK,
       AcceptedBy, SessionsEnd, LinksAskedOnce, Clearing, GoesToClear, GoesToClearVault, At
  <2>2. CASE Age \/ Restart
    BY <2>2, RestartKeepsSession
  <2>3. CASE SessionNext
    BY <2>2, <2>3, SessionSteps1, SessionSteps2, SessionSteps3, SessionSteps4 DEF SessionNext
  <2> QED
    BY <2>1, <2>3
<1> QED
  BY <1>1, SessionInvInit, PTL DEF SessionSpec

(* SignedOutStaysOut for any number of requests, logins and people: a       *)
(* refresh that ran beside a sign-out does not bring its session back       *)
(* (accept_session and sign_out in v9/supabase_client.py).                  *)
THEOREM NoSessionComesBack == SessionSpec => []SignedOutStaysOut
<1>1. SessionInv => SignedOutStaysOut
  BY DEF SessionInv, Clearing, SignedOutStaysOut, GoesToClear, GoesToClearVault, At, Unasked
<1> QED
  BY <1>1, SessionInvHolds, PTL

-----------------------------------------------------------------------------
(* The enrollment.                                                          *)

Keys == [version : KeyVersions, maker : Desktops \cup {"rotation"}]

Contexts == [status : {"none", "pending", "active"}, version : Nat, wanted : Nat,
             marked : BOOLEAN]

EnrollSteps == {"idle", "context", "register", "bind", "version", "device", "envelope", "put",
                "open", "activate", "clean", "seal", "pair", "resolve", "enter", "current",
                "listed", "granted"}

EnrollCalls == [pc : EnrollSteps, desk : Desktops, seen : Contexts,
                status : {"none", "invited", "active", "revoked"}, version : Nat,
                key : Keys \cup {NoKeyYet}, target : Desktops]

EnrollTypeOK ==
  /\ cloudKey \in 0 .. MaxCloudKey
  /\ member \in [Desktops -> {"none", "invited", "active", "revoked"}]
  /\ remote \in [Desktops -> {"none", "pending", "active", "revoked"}]
  /\ envelopes \in SUBSET [device : Desktops, version : 1 .. MaxCloudKey,
                           key : Keys \cup {NoKeyYet}]
  /\ context \in [Desktops -> Contexts]
  /\ localKey \in [Desktops -> KeyVersions \cup {0}]
  /\ vault \in [Desktops -> [KeyVersions -> Keys \cup {NoKeyYet}]]
  /\ call \in [Calls -> EnrollCalls]

(* Before the bootstrap the cloud has nobody, and the first owner stays.    *)
CloudBegun ==
  /\ \A d \in Desktops : remote[d] = "active" \/ member[d] # "none" => cloudKey > 0
  /\ cloudKey > 0 => remote[First] = "active"
  /\ cloudKey > 1 => envelopes # {}

LocalBegun == \A d \in Desktops : d = First \/ context[d].status # "none" => localKey[d] # 0

(* A call goes by a version the cloud has had, and what it is about to      *)
(* activate is newer than what it has seen.                                 *)
Forward(c) ==
  /\ c.pc = "version" => cloudKey > 0
  /\ c.pc = "seal" => localKey[c.desk] # 0
  /\ c.pc \in {"device", "envelope", "put", "open", "activate"}
       => c.version \in 1 .. MaxCloudKey
  /\ c.pc \in {"envelope", "put", "open", "activate"} /\ c.seen.status = "active"
       => c.version > c.seen.version

EnrollInv == EnrollTypeOK /\ CloudBegun /\ LocalBegun /\ \A q \in Calls : Forward(call[q])

(* Only the first owner's context is marked.                                *)
OneFounder == \A d \in Desktops : context[d].marked => d = First

(* The keys of the cloud's versions, wherever they are, are the cloud's.    *)
KeysHeld ==
  /\ \A d \in Desktops, v \in 1 .. MaxCloudKey : vault[d][v] \in {NoKeyYet, KeyOf(v)}
  /\ vault[First][1] = KeyOf(1)
  /\ \A e \in envelopes : e.key = KeyOf(e.version)
  /\ \A d \in Desktops : context[d].status = "active" =>
       /\ context[d].version \in 1 .. MaxCloudKey
       /\ vault[d][context[d].version] = KeyOf(context[d].version)
       /\ vault[d][localKey[d]] # NoKeyYet

(* What a call carries is what it may be taken for.                         *)
Carries(c) ==
  /\ c.seen.marked \/ c.pc = "put" => c.desk = First
  /\ c.pc \in {"open", "activate"} => c.key = KeyOf(c.version)
  /\ c.pc = "seal" => context[c.desk].status = "active"
  /\ c.pc = "pair" /\ c.version \in 1 .. MaxCloudKey => c.key = KeyOf(c.version)
  /\ c.pc \in {"enter", "current", "listed", "granted"} =>
         /\ c.seen.version \in 1 .. MaxCloudKey
         /\ vault[c.desk][c.seen.version] # NoKeyYet

KeyInv == OneFounder /\ KeysHeld /\ \A q \in Calls : Carries(call[q])

(* One organization of the two is never rotated.                            *)
OneIsRotated == MaxLocalKey = 1 \/ MaxCloudKey = 1

LEMMA Versions ==
  /\ 1 .. MaxCloudKey \subseteq KeyVersions /\ 1 .. MaxLocalKey \subseteq KeyVersions
  /\ KeyVersions \subseteq Nat /\ 0 \notin KeyVersions
  /\ 1 \in 1 .. MaxCloudKey /\ 1 \in KeyVersions /\ 0 \notin 1 .. MaxCloudKey
  /\ 1 .. MaxCloudKey \subseteq Nat
  BY EnrollmentAssumption DEF KeyVersions

LEMMA KeysAre ==
  /\ \A v \in KeyVersions : KeyOf(v) \in Keys
  /\ \A v \in KeyVersions : OrgKey(v, First) \in Keys
  /\ NoKeyYet \notin Keys
  /\ KeyOf(1) = OrgKey(1, First)
  BY EnrollmentAssumption, NoKeyAssumption DEF Keys, KeyOf, OrgKey

LEMMA NoCallIs ==
  /\ NoCall \in EnrollCalls /\ NoCall.pc = "idle" /\ NoCall.desk = First
  /\ NoCall.seen = NoContext /\ NoContext \in Contexts /\ NoContext.marked = FALSE
  /\ NoContext.status = "none"
  BY EnrollmentAssumption DEF NoCall, NoContext, EnrollCalls, EnrollSteps, Contexts

(* One call moves on to be c.                                               *)
CallMoves(q, c) == call' = [call EXCEPT ![q] = c] /\ c \in EnrollCalls

LEMMA CallIs ==
  ASSUME EnrollTypeOK, NEW q \in Calls, NEW c, CallMoves(q, c)
  PROVE  /\ call' \in [Calls -> EnrollCalls] /\ call'[q] = c
         /\ \A p \in Calls : p # q => call'[p] = call[p]
  BY DEF EnrollTypeOK, CallMoves

LEMMA GoMoves ==
  ASSUME EnrollTypeOK, NEW q \in Calls, NEW pc \in EnrollSteps, Go(q, pc)
  PROVE  \E c : /\ CallMoves(q, c) /\ c.pc = pc /\ c.desk = call[q].desk
                /\ c.seen = call[q].seen /\ c.status = call[q].status
                /\ c.version = call[q].version /\ c.key = call[q].key
                /\ c.target = call[q].target
<1>1. PICK x : x = call[q]
  OBVIOUS
<1>2. x \in EnrollCalls
  BY <1>1 DEF EnrollTypeOK
<1>3. PICK c : c = [x EXCEPT !.pc = pc]
  OBVIOUS
<1>4. /\ c \in EnrollCalls /\ c.pc = pc /\ c.desk = x.desk /\ c.seen = x.seen
      /\ c.status = x.status /\ c.version = x.version /\ c.key = x.key /\ c.target = x.target
  BY <1>2, <1>3 DEF EnrollCalls
<1>5. call' = [call EXCEPT ![q] = c]
  BY <1>1, <1>3 DEF Go, EnrollTypeOK
<1> QED
  BY <1>1, <1>4, <1>5 DEF CallMoves

LEMMA RespondMoves ==
  ASSUME NEW q \in Calls, Respond(q)
  PROVE  CallMoves(q, NoCall) /\ Forward(NoCall) /\ Carries(NoCall)
  BY NoCallIs DEF Respond, CallMoves, Forward, Carries

(* A step of one call that changes nothing else.                            *)
LEMMA OnlyCall ==
  ASSUME EnrollInv, NEW q \in Calls, NEW c, CallMoves(q, c), Forward(c),
         UNCHANGED <<cloudVars, deskVars>>
  PROVE  EnrollInv' /\ (KeyInv /\ Carries(c) => KeyInv')
<1>1. /\ call' \in [Calls -> EnrollCalls] /\ call'[q] = c
      /\ \A p \in Calls : p # q => call'[p] = call[p]
  BY CallIs DEF EnrollInv
<1>2. /\ UNCHANGED <<cloudKey, member, remote, envelopes>>
      /\ UNCHANGED <<context, localKey, vault>>
  BY DEF cloudVars, deskVars
<1>3. EnrollTypeOK' /\ CloudBegun' /\ LocalBegun'
  BY <1>1, <1>2 DEF EnrollInv, EnrollTypeOK, CloudBegun, LocalBegun
<1>4. \A p \in Calls : Forward(call[p])'
  BY <1>1, <1>2 DEF EnrollInv, Forward
<1>5. KeyInv => OneFounder' /\ KeysHeld'
  BY <1>2 DEF KeyInv, OneFounder, KeysHeld
<1>6. KeyInv /\ Carries(c) => \A p \in Calls : Carries(call[p])'
  BY <1>1, <1>2 DEF KeyInv, Carries
<1> QED
  BY <1>3, <1>4, <1>5, <1>6 DEF EnrollInv, KeyInv

(* What else may change under the calls.                                    *)
LEMMA CallsStay ==
  ASSUME EnrollInv, cloudKey' >= cloudKey, cloudKey' \in Nat,
         \A d \in Desktops : localKey[d] # 0 => localKey'[d] # 0,
         \A d \in Desktops : context[d].status = "active" => context'[d].status = "active",
         \A d \in Desktops, v \in 1 .. MaxCloudKey :
             vault[d][v] # NoKeyYet => vault'[d][v] # NoKeyYet
  PROVE  \A c \in EnrollCalls : (Forward(c) => Forward(c)') /\ (Carries(c) => Carries(c)')
<1>1. cloudKey \in Nat
  BY EnrollmentAssumption DEF EnrollInv, EnrollTypeOK
<1>2. ASSUME NEW c \in EnrollCalls, Forward(c) PROVE Forward(c)'
  BY <1>1, <1>2 DEF Forward, EnrollCalls
<1>3. ASSUME NEW c \in EnrollCalls, Carries(c) PROVE Carries(c)'
  BY <1>3 DEF Carries, EnrollCalls
<1> QED
  BY <1>2, <1>3

Kept == EnrollInv' /\ (KeyInv /\ OneIsRotated => KeyInv')

LEMMA AnsweredKept ==
  ASSUME EnrollInv, NEW q \in Calls, Respond(q), UNCHANGED <<cloudVars, deskVars>>
  PROVE  Kept
  BY RespondMoves, OnlyCall DEF Kept

(* A step that only moves its call on.                                      *)
LEMMA MovedKept ==
  ASSUME EnrollInv, NEW q \in Calls, NEW pc \in EnrollSteps, Go(q, pc),
         pc \notin {"version", "device", "put", "open", "seal", "pair"},
         pc \in {"envelope", "activate"} =>
             /\ call[q].version \in 1 .. MaxCloudKey
             /\ call[q].seen.status = "active" => call[q].version > call[q].seen.version,
         pc = "activate" => call[q].pc = "open",
         pc \in {"enter", "current", "listed", "granted"}
             => call[q].pc \in {"enter", "current", "listed", "granted"},
         UNCHANGED <<cloudVars, deskVars>>
  PROVE  Kept
<1>1. PICK c : /\ CallMoves(q, c) /\ c.pc = pc /\ c.desk = call[q].desk
               /\ c.seen = call[q].seen /\ c.status = call[q].status
               /\ c.version = call[q].version /\ c.key = call[q].key
               /\ c.target = call[q].target
  BY GoMoves DEF EnrollInv
<1>2. Forward(c)
  BY <1>1 DEF Forward
<1>3. KeyInv => Carries(c)
  <2>1. KeyInv => Carries(call[q])
    BY DEF KeyInv
  <2> QED
    BY <1>1, <2>1 DEF Carries
<1> QED
  BY <1>1, <1>2, <1>3, OnlyCall DEF Kept

LEMMA SelfSteps ==
  ASSUME EnrollInv, NEW q \in Calls
  PROVE  /\ \A d \in Desktops : AskSelf(q, d) => Kept
         /\ BindSelf(q) => Kept
         /\ ReadVersion(q) => Kept
         /\ ReadDevice(q) => Kept
         /\ ReadEnvelope(q) => Kept
         /\ OpenEnvelope(q) => Kept
<1>1. EnrollTypeOK /\ call[q] \in EnrollCalls /\ Forward(call[q])
  BY DEF EnrollInv, EnrollTypeOK
<1>2. ASSUME NEW d \in Desktops, AskSelf(q, d) PROVE Kept
  <2>1. PICK c : c = [NoCall EXCEPT !.pc = "context", !.desk = d, !.status = member[d]]
    OBVIOUS
  <2>2. member[d] \in {"none", "invited", "active", "revoked"}
    BY <1>1 DEF EnrollTypeOK
  <2>3. c \in EnrollCalls /\ c.pc = "context" /\ c.seen = NoContext
    BY <2>1, <2>2, NoCallIs DEF EnrollCalls, EnrollSteps
  <2>4. CallMoves(q, c)
    BY <1>2, <2>1, <2>3 DEF AskSelf, CallMoves
  <2>5. Forward(c) /\ Carries(c)
    BY <2>3, NoCallIs DEF Forward, Carries
  <2> QED
    BY <1>2, <2>4, <2>5, OnlyCall DEF Kept, AskSelf
<1>3. ASSUME BindSelf(q) PROVE Kept
  <2>1. UNCHANGED <<cloudVars, deskVars>>
    BY <1>3 DEF BindSelf
  <2>2. CASE Respond(q)
    BY <2>1, <2>2, AnsweredKept
  <2>3. CASE Go(q, "register")
    BY <2>1, <2>3, MovedKept DEF EnrollSteps
  <2>4. CASE Bound(call[q].desk) /\ Go(q, "version")
    <3>1. PICK c : CallMoves(q, c) /\ c.pc = "version" /\ c.desk = call[q].desk
                   /\ c.seen = call[q].seen
      BY <1>1, <2>4, GoMoves DEF EnrollSteps
    <3>2. cloudKey > 0
      BY <1>1, <2>4 DEF EnrollInv, CloudBegun, Bound, EnrollCalls
    <3>3. Forward(c)
      BY <3>1, <3>2 DEF Forward
    <3>4. KeyInv => Carries(c)
      BY <3>1 DEF KeyInv, Carries
    <3> QED
      BY <2>1, <3>1, <3>3, <3>4, OnlyCall DEF Kept
  <2> QED
    BY <1>3, <2>2, <2>3, <2>4 DEF BindSelf, GoOrRespond
<1>4. ASSUME ReadVersion(q) PROVE Kept
  <2>1. PICK x : x = call[q]
    OBVIOUS
  <2>2. PICK c : c = [x EXCEPT !.pc = "device", !.version = cloudKey]
    OBVIOUS
  <2>3. cloudKey \in 1 .. MaxCloudKey
    BY <1>1, <1>4, EnrollmentAssumption DEF ReadVersion, Forward, EnrollTypeOK
  <2>4. c \in EnrollCalls /\ c.pc = "device" /\ c.version = cloudKey /\ c.seen = x.seen
        /\ c.desk = x.desk
    BY <1>1, <2>1, <2>2, <2>3, Versions DEF EnrollCalls, EnrollSteps
  <2>5. CallMoves(q, c)
    BY <1>1, <1>4, <2>1, <2>2, <2>4 DEF ReadVersion, CallMoves, EnrollTypeOK
  <2>6. Forward(c)
    BY <2>3, <2>4 DEF Forward
  <2>7. KeyInv => Carries(c)
    BY <2>1, <2>4 DEF KeyInv, Carries
  <2> QED
    BY <1>4, <2>5, <2>6, <2>7, OnlyCall DEF Kept, ReadVersion
<1>5. ASSUME ReadDevice(q) PROVE Kept
  <2>1. UNCHANGED <<cloudVars, deskVars>>
    BY <1>5 DEF ReadDevice
  <2>2. CASE Respond(q)
    BY <2>1, <2>2, AnsweredKept
  <2>3. CASE Go(q, "envelope")
            /\ (call[q].seen.status = "active" => call[q].version > call[q].seen.version)
    <3>1. call[q].version \in 1 .. MaxCloudKey
      BY <1>1, <1>5 DEF ReadDevice, Forward
    <3> QED
      BY <2>1, <2>3, <3>1, MovedKept DEF EnrollSteps
  <2> QED
    BY <1>5, <2>2, <2>3 DEF ReadDevice, GoOrRespond
<1>6. ASSUME ReadEnvelope(q) PROVE Kept
  <2>1. /\ UNCHANGED <<cloudVars, deskVars>> /\ call[q].pc = "envelope"
        /\ call[q].version \in 1 .. MaxCloudKey
        /\ call[q].seen.status = "active" => call[q].version > call[q].seen.version
    BY <1>1, <1>6 DEF ReadEnvelope, Forward
  <2>2. CASE Respond(q)
    BY <2>1, <2>2, AnsweredKept
  <2>3. CASE Founding(q) /\ Go(q, "put")
    <3>1. PICK c : CallMoves(q, c) /\ c.pc = "put" /\ c.desk = call[q].desk
                   /\ c.seen = call[q].seen /\ c.version = call[q].version
      BY <1>1, <2>3, GoMoves DEF EnrollSteps
    <3>2. Forward(c)
      BY <2>1, <3>1 DEF Forward
    <3>3. KeyInv => Carries(c)
      BY <2>3, <3>1 DEF KeyInv, Carries, Founding
    <3> QED
      BY <2>1, <3>1, <3>2, <3>3, OnlyCall DEF Kept
  <2>4. CASE \E e \in EnvelopesOf(call[q].desk, call[q].version) :
               call' = [call EXCEPT ![q].pc = "open", ![q].key = e.key]
    <3>1. PICK e \in envelopes : /\ e.version = call[q].version
                                 /\ call' = [call EXCEPT ![q].pc = "open", ![q].key = e.key]
      BY <2>4 DEF EnvelopesOf
    <3>2. PICK x : x = call[q]
      OBVIOUS
    <3>3. PICK k \in Keys \cup {NoKeyYet} : k = e.key
      BY <1>1, <3>1 DEF EnrollTypeOK
    <3>4. PICK c : c = [x EXCEPT !.pc = "open", !.key = k]
      OBVIOUS
    <3>5. /\ c \in EnrollCalls /\ c.pc = "open" /\ c.key = k /\ c.seen = x.seen
          /\ c.version = x.version /\ c.desk = x.desk
      BY <1>1, <3>2, <3>3, <3>4 DEF EnrollCalls, EnrollSteps
    <3>6. CallMoves(q, c)
      BY <1>1, <3>1, <3>2, <3>3, <3>4, <3>5 DEF CallMoves, EnrollTypeOK
    <3>7. Forward(c)
      BY <2>1, <3>2, <3>5 DEF Forward
    <3>8. KeyInv => k = KeyOf(x.version)
      BY <3>1, <3>2, <3>3 DEF KeyInv, KeysHeld
    <3>9. KeyInv => Carries(c)
      BY <3>2, <3>5, <3>8 DEF KeyInv, Carries
    <3> QED
      BY <2>1, <3>6, <3>7, <3>9, OnlyCall DEF Kept
  <2> QED
    BY <1>6, <2>2, <2>3, <2>4 DEF ReadEnvelope, GoOrRespond
<1>7. ASSUME OpenEnvelope(q) PROVE Kept
  <2>1. /\ UNCHANGED <<cloudVars, deskVars>> /\ call[q].pc = "open"
        /\ call[q].version \in 1 .. MaxCloudKey
        /\ call[q].seen.status = "active" => call[q].version > call[q].seen.version
    BY <1>1, <1>7 DEF OpenEnvelope, Forward
  <2>2. CASE Respond(q)
    BY <2>1, <2>2, AnsweredKept
  <2>3. CASE Go(q, "activate")
    BY <2>1, <2>3, MovedKept DEF EnrollSteps
  <2> QED
    BY <1>7, <2>2, <2>3 DEF OpenEnvelope, GoOrRespond
<1> QED
  BY <1>2, <1>3, <1>4, <1>5, <1>6, <1>7

LEMMA OtherSteps ==
  ASSUME EnrollInv, NEW q \in Calls
  PROVE  /\ \A d, t \in Desktops : AskApprove(q, d, t) => Kept
         /\ Seal(q) => Kept
         /\ \A d \in Desktops : AskBusiness(q, d) => Kept
         /\ ResolveContext(q) => Kept
         /\ EnterSession(q) => Kept
         /\ SameVersion(q) => Kept
         /\ StillListed(q) => Kept
         /\ EndCall(q) => Kept
<1>1. EnrollTypeOK /\ call[q] \in EnrollCalls /\ Forward(call[q])
  BY DEF EnrollInv, EnrollTypeOK
<1>2. ASSUME NEW d \in Desktops, NEW t \in Desktops, AskApprove(q, d, t) PROVE Kept
  <2>1. PICK c : c = [NoCall EXCEPT !.pc = "seal", !.desk = d, !.target = t]
    OBVIOUS
  <2>2. c \in EnrollCalls /\ c.pc = "seal" /\ c.seen = NoContext /\ c.desk = d
    BY <2>1, NoCallIs DEF EnrollCalls, EnrollSteps
  <2>3. CallMoves(q, c) /\ context[d].status = "active"
    BY <1>2, <2>1, <2>2 DEF AskApprove, CallMoves
  <2>4. Forward(c) /\ Carries(c)
    BY <2>2, <2>3, NoCallIs DEF Forward, Carries, EnrollInv, LocalBegun
  <2> QED
    BY <1>2, <2>3, <2>4, OnlyCall DEF Kept, AskApprove
<1>3. ASSUME Seal(q) PROVE Kept
  <2>1. PICK x : x = call[q]
    OBVIOUS
  <2>2. PICK d \in Desktops : d = x.desk
    BY <1>1, <2>1 DEF EnrollCalls
  <2>3. PICK v \in KeyVersions : v = localKey[d]
    BY <1>1, <1>3, <2>1, <2>2 DEF Seal, Forward, EnrollTypeOK
  <2>4. PICK k \in Keys \cup {NoKeyYet} : k = vault[d][v]
    BY <1>1, <2>3 DEF EnrollTypeOK
  <2>5. PICK c : c = [x EXCEPT !.pc = "pair", !.version = v, !.key = k]
    OBVIOUS
  <2>6. /\ c \in EnrollCalls /\ c.pc = "pair" /\ c.key = k /\ c.seen = x.seen
        /\ c.version = v /\ c.desk = d
    BY <1>1, <2>1, <2>2, <2>5, Versions DEF EnrollCalls, EnrollSteps
  <2>7. CallMoves(q, c)
    BY <1>1, <1>3, <2>1, <2>2, <2>3, <2>4, <2>5, <2>6 DEF Seal, CallMoves, EnrollTypeOK
  <2>8. Forward(c)
    BY <2>6 DEF Forward
  <2>9. ASSUME KeyInv PROVE Carries(c)
    <3>1. context[d].status = "active" /\ (x.seen.marked => d = First)
      BY <1>3, <2>1, <2>2, <2>9 DEF Seal, KeyInv, Carries
    <3>2. k # NoKeyYet
      BY <2>3, <2>4, <2>9, <3>1 DEF KeyInv, KeysHeld
    <3>3. v \in 1 .. MaxCloudKey => k = KeyOf(v)
      BY <2>4, <2>9, <3>2 DEF KeyInv, KeysHeld
    <3> QED
      BY <2>6, <3>1, <3>3 DEF Carries
  <2> QED
    BY <1>3, <2>7, <2>8, <2>9, OnlyCall DEF Kept, Seal
<1>4. ASSUME NEW d \in Desktops, AskBusiness(q, d) PROVE Kept
  <2>1. PICK c : c = [NoCall EXCEPT !.pc = "resolve", !.desk = d]
    OBVIOUS
  <2>2. c \in EnrollCalls /\ c.pc = "resolve" /\ c.seen = NoContext
    BY <2>1, NoCallIs DEF EnrollCalls, EnrollSteps
  <2>3. CallMoves(q, c)
    BY <1>4, <2>1, <2>2 DEF AskBusiness, CallMoves
  <2>4. Forward(c) /\ Carries(c)
    BY <2>2, NoCallIs DEF Forward, Carries
  <2> QED
    BY <1>4, <2>3, <2>4, OnlyCall DEF Kept, AskBusiness
<1>5. ASSUME ResolveContext(q) PROVE Kept
  <2>1. UNCHANGED <<cloudVars, deskVars>>
    BY <1>5 DEF ResolveContext
  <2>2. CASE Respond(q)
    BY <2>1, <2>2, AnsweredKept
  <2>3. CASE ~Respond(q)
    <3>1. PICK x : x = call[q]
      OBVIOUS
    <3>2. PICK d \in Desktops : d = x.desk
      BY <1>1, <3>1 DEF EnrollCalls
    <3>3. PICK n \in Contexts : n = context[d]
      BY <1>1 DEF EnrollTypeOK
    <3>4. PICK c : c = [x EXCEPT !.pc = "enter", !.seen = n]
      OBVIOUS
    <3>5. c \in EnrollCalls /\ c.pc = "enter" /\ c.seen = n /\ c.desk = d
      BY <1>1, <3>1, <3>2, <3>4 DEF EnrollCalls, EnrollSteps
    <3>6. /\ CallMoves(q, c) /\ n.status = "active" /\ vault[d][n.version] # NoKeyYet
      BY <1>1, <1>5, <2>3, <3>1, <3>2, <3>3, <3>4, <3>5
      DEF ResolveContext, CallMoves, EnrollTypeOK
    <3>7. Forward(c)
      BY <3>5 DEF Forward
    <3>8. KeyInv => Carries(c)
      BY <3>3, <3>5, <3>6 DEF KeyInv, KeysHeld, OneFounder, Carries
    <3> QED
      BY <2>1, <3>6, <3>7, <3>8, OnlyCall DEF Kept
  <2> QED
    BY <2>2, <2>3
<1>6. ASSUME EnterSession(q) \/ SameVersion(q) \/ StillListed(q) PROVE Kept
  <2>1. PICK pc \in {"current", "listed", "granted"} : Go(q, pc) \/ Respond(q)
    BY <1>6 DEF EnterSession, SameVersion, StillListed, GoOrRespond
  <2>2. /\ UNCHANGED <<cloudVars, deskVars>>
        /\ call[q].pc \in {"enter", "current", "listed", "granted"}
    BY <1>6 DEF EnterSession, SameVersion, StillListed
  <2> QED
    BY <2>1, <2>2, AnsweredKept, MovedKept DEF EnrollSteps
<1>7. ASSUME EndCall(q) PROVE Kept
  BY <1>7, AnsweredKept DEF EndCall
<1> QED
  BY <1>2, <1>3, <1>4, <1>5, <1>6, <1>7

(* An active context stays so, at its version or a later one.               *)
Onward ==
  \A d \in Desktops : context[d].status = "active" =>
     context'[d].status = "active" /\ context'[d].version >= context[d].version

LEMMA SameContext ==
  ASSUME EnrollInv, UNCHANGED context
  PROVE  Onward
  BY DEF EnrollInv, EnrollTypeOK, Contexts, Onward

(* A step beside the calls.                                                 *)
LEMMA CallsKept ==
  ASSUME EnrollInv, UNCHANGED call, cloudKey' >= cloudKey,
         EnrollTypeOK', CloudBegun', LocalBegun',
         \A d \in Desktops : localKey[d] # 0 => localKey'[d] # 0,
         \A d \in Desktops : context[d].status = "active" => context'[d].status = "active",
         \A d \in Desktops, v \in 1 .. MaxCloudKey :
             vault[d][v] # NoKeyYet => vault'[d][v] # NoKeyYet,
         KeyInv /\ OneIsRotated => OneFounder' /\ KeysHeld'
  PROVE  Kept
<1>1. cloudKey' \in Nat
  BY EnrollmentAssumption DEF EnrollTypeOK
<1>2. \A c \in EnrollCalls : (Forward(c) => Forward(c)') /\ (Carries(c) => Carries(c)')
  BY <1>1, CallsStay
<1>3. \A q \in Calls : call[q] \in EnrollCalls /\ call'[q] = call[q]
  BY DEF EnrollInv, EnrollTypeOK
<1>4. \A q \in Calls : Forward(call[q])'
  <2>1. \A q \in Calls : Forward(call[q])
    BY DEF EnrollInv
  <2>2. \A q \in Calls : Forward(call[q]) => Forward(call[q])'
    BY <1>2, <1>3 DEF Forward
  <2> QED
    BY <2>1, <2>2
<1>5. KeyInv => \A q \in Calls : Carries(call[q])'
  <2>1. KeyInv => \A q \in Calls : Carries(call[q])
    BY DEF KeyInv
  <2>2. \A q \in Calls : Carries(call[q]) => Carries(call[q])'
    BY <1>2, <1>3 DEF Carries
  <2> QED
    BY <2>1, <2>2
<1> QED
  BY <1>4, <1>5 DEF Kept, EnrollInv, KeyInv

LEMMA CloudSteps ==
  ASSUME EnrollInv, NEW d \in Desktops
  PROVE  /\ Bootstrap => Kept
         /\ JoinAgain(d) => Kept
         /\ Expel(d) => Kept
         /\ SealRotation(d) => Kept
         /\ CommitCloudRotation => Kept
<1> USE EnrollmentAssumption
<1>1. EnrollTypeOK /\ cloudKey \in Nat /\ CloudBegun /\ LocalBegun
  BY DEF EnrollInv, EnrollTypeOK
<1>2. ASSUME Bootstrap PROVE Kept
  <2>1. UNCHANGED <<envelopes, context, localKey, vault, call>> /\ cloudKey = 0 /\ cloudKey' = 1
    BY <1>2 DEF Bootstrap, deskVars
  <2>2. EnrollTypeOK'
    BY <1>1, <1>2, <2>1, Versions DEF Bootstrap, EnrollTypeOK
  <2>3. CloudBegun' /\ LocalBegun'
    BY <1>1, <1>2, <2>1 DEF Bootstrap, EnrollTypeOK, CloudBegun, LocalBegun
  <2>4. KeyInv => OneFounder' /\ KeysHeld'
    BY <2>1 DEF KeyInv, OneFounder, KeysHeld
  <2> QED
    BY <2>1, <2>2, <2>3, <2>4, CallsKept
<1>3. ASSUME JoinAgain(d) \/ Expel(d) PROVE Kept
  <2>1. UNCHANGED <<cloudKey, envelopes, context, localKey, vault, call>>
    BY <1>3 DEF JoinAgain, Expel, deskVars
  <2>2. EnrollTypeOK'
    BY <1>1, <1>3, <2>1 DEF JoinAgain, Expel, EnrollTypeOK
  <2>3. \A x \in Desktops : /\ remote'[x] = "active" => remote[x] = "active"
                            /\ member'[x] # "none" => member[x] # "none" \/ cloudKey > 0
    BY <1>1, <1>3 DEF JoinAgain, Expel, EnrollTypeOK
  <2>4. remote[First] = "active" => remote'[First] = "active"
    BY <1>1, <1>3 DEF JoinAgain, Expel, EnrollTypeOK
  <2>5. CloudBegun' /\ LocalBegun'
    BY <1>1, <2>1, <2>3, <2>4 DEF CloudBegun, LocalBegun
  <2>6. KeyInv => OneFounder' /\ KeysHeld'
    BY <2>1 DEF KeyInv, OneFounder, KeysHeld
  <2> QED
    BY <1>1, <2>1, <2>2, <2>5, <2>6, CallsKept
<1>4. ASSUME SealRotation(d) PROVE Kept
  <2>1. PICK v \in 1 .. MaxCloudKey : v = cloudKey + 1
    BY <1>1, <1>4 DEF SealRotation
  <2>2. PICK e : e = [device |-> d, version |-> v, key |-> KeyOf(v)]
    OBVIOUS
  <2>3. /\ e \in [device : Desktops, version : 1 .. MaxCloudKey, key : Keys \cup {NoKeyYet}]
        /\ e.key = KeyOf(e.version)
    BY <2>1, <2>2, Versions, KeysAre
  <2>4. /\ envelopes' = envelopes \cup {e}
        /\ UNCHANGED <<cloudKey, member, remote, context, localKey, vault, call>>
    BY <1>4, <2>1, <2>2 DEF SealRotation, deskVars
  <2>5. EnrollTypeOK'
    BY <1>1, <2>3, <2>4 DEF EnrollTypeOK
  <2>6. CloudBegun' /\ LocalBegun'
    BY <1>1, <2>4 DEF CloudBegun, LocalBegun
  <2>7. KeyInv => OneFounder' /\ KeysHeld'
    BY <2>3, <2>4 DEF KeyInv, OneFounder, KeysHeld
  <2> QED
    BY <1>1, <2>4, <2>5, <2>6, <2>7, CallsKept
<1>5. ASSUME CommitCloudRotation PROVE Kept
  <2>1. /\ cloudKey' = cloudKey + 1 /\ cloudKey' \in 0 .. MaxCloudKey /\ cloudKey > 0
        /\ UNCHANGED <<member, remote, envelopes, context, localKey, vault, call>>
    BY <1>1, <1>5 DEF CommitCloudRotation, deskVars
  <2>2. PICK A : A = {x \in Desktops : remote[x] = "active"}
    OBVIOUS
  <2>3. PICK E : E = {e \in envelopes : e.version = cloudKey + 1}
    OBVIOUS
  <2>4. Cardinality(E) = Cardinality(A)
    BY <1>5, <2>2, <2>3 DEF CommitCloudRotation
  <2>5. IsFiniteSet(A) /\ A # {}
    BY <1>1, <2>1, <2>2, FS_Subset DEF CloudBegun
  <2>6. Cardinality(A) # 0
    BY <2>5, FS_EmptySet
  <2>7. E # {}
    BY <2>4, <2>6, FS_EmptySet
  <2>8. envelopes # {}
    BY <2>3, <2>7
  <2>9. EnrollTypeOK'
    BY <1>1, <2>1 DEF EnrollTypeOK
  <2>10. CloudBegun' /\ LocalBegun'
    BY <1>1, <2>1, <2>8 DEF CloudBegun, LocalBegun
  <2>11. KeyInv => OneFounder' /\ KeysHeld'
    BY <2>1 DEF KeyInv, OneFounder, KeysHeld
  <2> QED
    BY <1>1, <2>1, <2>9, <2>10, <2>11, CallsKept
<1> QED
  BY <1>2, <1>3, <1>4, <1>5

LEMMA FounderSteps ==
  ASSUME EnrollInv
  PROVE  /\ PrepareManifest => Kept /\ Onward
         /\ MarkManifest => Kept /\ Onward
         /\ RotateLocally => Kept
<1> USE EnrollmentAssumption
<1>1. EnrollTypeOK /\ cloudKey \in Nat /\ CloudBegun /\ LocalBegun
  BY DEF EnrollInv, EnrollTypeOK
<1>2. ASSUME PrepareManifest PROVE Kept /\ Onward
  <2>1. PICK w \in Nat : w = localKey[First]
    <3>1. localKey[First] \in KeyVersions \cup {0}
      BY <1>1 DEF EnrollTypeOK
    <3> QED
      BY <3>1, Versions
  <2>2. PICK c : c = [status |-> "pending", version |-> 0, wanted |-> w, marked |-> FALSE]
    OBVIOUS
  <2>3. c \in Contexts /\ c.status = "pending" /\ c.marked = FALSE
    BY <2>1, <2>2 DEF Contexts
  <2>4. /\ context' = [context EXCEPT ![First] = c] /\ context[First].status = "none"
        /\ UNCHANGED <<cloudKey, member, remote, envelopes, localKey, vault, call>>
    BY <1>2, <2>1, <2>2 DEF PrepareManifest, cloudVars
  <2>5. /\ context' \in [Desktops -> Contexts] /\ context'[First] = c
        /\ \A d \in Desktops : d # First => context'[d] = context[d]
    BY <1>1, <2>3, <2>4 DEF EnrollTypeOK
  <2>6. EnrollTypeOK'
    BY <1>1, <2>4, <2>5 DEF EnrollTypeOK
  <2>7. CloudBegun' /\ LocalBegun'
    BY <1>1, <2>4, <2>5 DEF CloudBegun, LocalBegun
  <2>8. KeyInv => OneFounder' /\ KeysHeld'
    BY <2>3, <2>4, <2>5 DEF KeyInv, OneFounder, KeysHeld
  <2>9. \A d \in Desktops : context[d].status = "active" => context'[d] = context[d]
    BY <2>4, <2>5
  <2>10. Onward
    BY <1>1, <2>9 DEF Onward, EnrollTypeOK, Contexts
  <2> QED
    BY <1>1, <2>4, <2>6, <2>7, <2>8, <2>9, <2>10, CallsKept
<1>3. ASSUME MarkManifest PROVE Kept /\ Onward
  <2>1. PICK x : x = context[First]
    OBVIOUS
  <2>2. PICK c : c = [x EXCEPT !.marked = TRUE]
    OBVIOUS
  <2>3. c \in Contexts /\ c.status = x.status /\ c.version = x.version
    BY <1>1, <2>1, <2>2 DEF Contexts, EnrollTypeOK
  <2>4. /\ context' = [context EXCEPT ![First] = c]
        /\ UNCHANGED <<cloudKey, member, remote, envelopes, localKey, vault, call>>
    BY <1>1, <1>3, <2>1, <2>2 DEF MarkManifest, cloudVars, EnrollTypeOK
  <2>5. /\ context' \in [Desktops -> Contexts] /\ context'[First] = c
        /\ \A d \in Desktops : d # First => context'[d] = context[d]
    BY <1>1, <2>3, <2>4 DEF EnrollTypeOK
  <2>6. EnrollTypeOK'
    BY <1>1, <2>4, <2>5 DEF EnrollTypeOK
  <2>7. \A d \in Desktops : context'[d].status = context[d].status
                            /\ context'[d].version = context[d].version
    BY <2>1, <2>3, <2>5
  <2>8. CloudBegun' /\ LocalBegun'
    BY <1>1, <2>4, <2>7 DEF CloudBegun, LocalBegun
  <2>9. KeyInv => OneFounder' /\ KeysHeld'
    BY <2>4, <2>5, <2>7 DEF KeyInv, OneFounder, KeysHeld
  <2>10. Onward
    BY <1>1, <2>7 DEF Onward, EnrollTypeOK, Contexts
  <2> QED
    BY <1>1, <2>4, <2>6, <2>7, <2>8, <2>9, <2>10, CallsKept
<1>4. ASSUME RotateLocally PROVE Kept
  <2>1. PICK l \in KeyVersions : l = localKey[First]
    BY <1>1 DEF EnrollTypeOK, LocalBegun
  <2>2. l \in Nat /\ l > 0
    BY <2>1 DEF KeyVersions
  <2>3. l < MaxLocalKey
    BY <1>4, <2>1 DEF RotateLocally
  <2>4. PICK v \in 1 .. MaxLocalKey : v = l + 1
    BY <2>2, <2>3
  <2>5. v \in KeyVersions /\ v # 0 /\ v > 1
    BY <2>2, <2>4, Versions
  <2>6. PICK k \in Keys : k = OrgKey(v, First)
    BY <2>5, KeysAre
  <2>7. /\ localKey' = [localKey EXCEPT ![First] = v]
        /\ vault' = [vault EXCEPT ![First][v] = k]
        /\ UNCHANGED <<cloudKey, member, remote, envelopes, context, call>>
    BY <1>1, <1>4, <2>1, <2>4, <2>6 DEF RotateLocally, cloudVars, EnrollTypeOK
  <2>8. /\ localKey' \in [Desktops -> KeyVersions \cup {0}] /\ localKey'[First] = v
        /\ \A d \in Desktops : d # First => localKey'[d] = localKey[d]
    BY <1>1, <2>5, <2>7 DEF EnrollTypeOK
  <2>9. /\ vault' \in [Desktops -> [KeyVersions -> Keys \cup {NoKeyYet}]]
        /\ vault'[First][v] = k
        /\ \A d \in Desktops, u \in KeyVersions : d # First \/ u # v => vault'[d][u] = vault[d][u]
    BY <1>1, <2>5, <2>7 DEF EnrollTypeOK
  <2>10. EnrollTypeOK'
    BY <1>1, <2>7, <2>8, <2>9 DEF EnrollTypeOK
  <2>11. CloudBegun' /\ LocalBegun'
    BY <1>1, <2>5, <2>7, <2>8 DEF CloudBegun, LocalBegun
  <2>12. k # NoKeyYet
    BY KeysAre
  <2>13. \A d \in Desktops, u \in KeyVersions :
            vault[d][u] # NoKeyYet => vault'[d][u] # NoKeyYet
    BY <2>9, <2>12
  <2>14. ASSUME KeyInv, OneIsRotated PROVE OneFounder' /\ KeysHeld'
    <3>1. MaxCloudKey = 1
      BY <2>5, <2>4, <2>14 DEF OneIsRotated
    <3>2. v \notin 1 .. MaxCloudKey /\ v # 1
      BY <2>5, <3>1
    <3>3. \A d \in Desktops, u \in 1 .. MaxCloudKey : vault'[d][u] = vault[d][u]
      BY <2>9, <3>2, Versions
    <3>4. \A d \in Desktops : context[d].status = "active" => vault'[d][localKey'[d]] # NoKeyYet
      BY <1>1, <2>7, <2>8, <2>9, <2>12, <2>13, <2>14 DEF KeyInv, KeysHeld, EnrollTypeOK, LocalBegun
    <3> QED
      BY <2>7, <2>14, <3>3, <3>4, Versions DEF KeyInv, OneFounder, KeysHeld
  <2> QED
    BY <1>1, <2>5, <2>7, <2>8, <2>10, <2>11, <2>13, <2>14, Versions, CallsKept
<1> QED
  BY <1>2, <1>3, <1>4

(* A step of one call that changes more than itself.                        *)
LEMMA CallActs ==
  ASSUME EnrollInv, NEW q \in Calls, NEW c, CallMoves(q, c), cloudKey' >= cloudKey,
         EnrollTypeOK', CloudBegun', LocalBegun', Forward(c)',
         \A d \in Desktops : localKey[d] # 0 => localKey'[d] # 0,
         \A d \in Desktops : context[d].status = "active" => context'[d].status = "active",
         \A d \in Desktops, v \in 1 .. MaxCloudKey :
             vault[d][v] # NoKeyYet => vault'[d][v] # NoKeyYet,
         KeyInv /\ OneIsRotated => OneFounder' /\ KeysHeld' /\ Carries(c)'
  PROVE  Kept
<1>1. cloudKey' \in Nat
  BY EnrollmentAssumption DEF EnrollTypeOK
<1>2. \A x \in EnrollCalls : (Forward(x) => Forward(x)') /\ (Carries(x) => Carries(x)')
  BY <1>1, CallsStay
<1>3. /\ \A p \in Calls : call[p] \in EnrollCalls
      /\ call'[q] = c /\ \A p \in Calls : p # q => call'[p] = call[p]
  BY CallIs DEF EnrollInv, EnrollTypeOK
<1>4. ASSUME NEW p \in Calls PROVE Forward(call[p])'
  <2>1. CASE p = q
    BY <1>3, <2>1 DEF Forward
  <2>2. CASE p # q
    <3>1. Forward(call[p])
      BY DEF EnrollInv
    <3>2. PICK x \in EnrollCalls : x = call[p] /\ x = call'[p]
      BY <1>3, <2>2
    <3>3. Forward(x)'
      BY <1>2, <3>1, <3>2
    <3> QED
      BY <3>2, <3>3 DEF Forward
  <2> QED
    BY <2>1, <2>2
<1>5. ASSUME KeyInv, OneIsRotated, NEW p \in Calls PROVE Carries(call[p])'
  <2>1. CASE p = q
    BY <1>3, <1>5, <2>1 DEF Carries
  <2>2. CASE p # q
    <3>1. Carries(call[p])
      BY <1>5 DEF KeyInv
    <3>2. PICK x \in EnrollCalls : x = call[p] /\ x = call'[p]
      BY <1>3, <2>2
    <3>3. Carries(x)'
      BY <1>2, <3>1, <3>2
    <3> QED
      BY <3>2, <3>3 DEF Carries
  <2> QED
    BY <2>1, <2>2
<1> QED
  BY <1>4, <1>5 DEF Kept, EnrollInv, KeyInv

LEMMA RegisterSteps ==
  ASSUME EnrollInv, NEW q \in Calls
  PROVE  /\ ReadContext(q) => Kept /\ Onward
         /\ Register(q) => Kept
         /\ RemoveMark(q) => Kept /\ Onward
<1> USE EnrollmentAssumption
<1>1. /\ EnrollTypeOK /\ cloudKey \in Nat /\ CloudBegun /\ LocalBegun
      /\ call[q] \in EnrollCalls
  BY DEF EnrollInv, EnrollTypeOK
<1>2. PICK d \in Desktops : d = call[q].desk
  BY <1>1 DEF EnrollCalls
<1>3. ASSUME ReadContext(q) PROVE Kept /\ Onward
  <2>1. UNCHANGED <<cloudKey, member, remote, envelopes, vault>> /\ call[q].pc = "context"
    BY <1>3 DEF ReadContext, cloudVars
  <2>2. CASE context[d].status = "none"
    <3>1. PICK c : c = [status |-> "pending", version |-> 0, wanted |-> 1, marked |-> FALSE]
      OBVIOUS
    <3>2. c \in Contexts /\ c.status = "pending" /\ c.marked = FALSE
      BY <3>1 DEF Contexts
    <3>3. /\ context' = [context EXCEPT ![d] = c]
          /\ localKey' = [localKey EXCEPT ![d] = IF localKey[d] = 0 THEN 1 ELSE localKey[d]]
          /\ Go(q, "register")
      BY <1>1, <1>2, <1>3, <2>2, <3>1 DEF ReadContext, EnrollTypeOK
    <3>4. /\ context' \in [Desktops -> Contexts] /\ context'[d] = c
          /\ \A x \in Desktops : x # d => context'[x] = context[x]
      BY <1>1, <3>2, <3>3 DEF EnrollTypeOK
    <3>5. /\ localKey' \in [Desktops -> KeyVersions \cup {0}] /\ localKey'[d] # 0
          /\ \A x \in Desktops : localKey[x] # 0 => localKey'[x] = localKey[x]
      BY <1>1, <3>3, Versions DEF EnrollTypeOK
    <3>6. PICK r : CallMoves(q, r) /\ r.pc = "register" /\ r.desk = d /\ r.seen = call[q].seen
      BY <1>1, <1>2, <3>3, GoMoves DEF EnrollSteps
    <3>7. EnrollTypeOK'
      BY <1>1, <2>1, <3>4, <3>5, <3>6, CallIs DEF EnrollTypeOK
    <3>8. CloudBegun' /\ LocalBegun'
      BY <1>1, <2>1, <3>3, <3>4, <3>5 DEF CloudBegun, LocalBegun
    <3>9. Forward(r)'
      BY <3>6 DEF Forward
    <3>10. \A x \in Desktops : context[x].status = "active" => context'[x] = context[x]
      BY <2>2, <3>4
    <3>11. ASSUME KeyInv PROVE OneFounder' /\ KeysHeld' /\ Carries(r)'
      <4>1. OneFounder'
        BY <3>2, <3>4, <3>11 DEF KeyInv, OneFounder
      <4>2. \A x \in Desktops : context'[x].status = "active"
               => context'[x] = context[x] /\ localKey'[x] = localKey[x]
        BY <1>1, <3>2, <3>4, <3>5 DEF LocalBegun
      <4>3. KeysHeld'
        BY <2>1, <3>11, <4>2 DEF KeyInv, KeysHeld
      <4>4. Carries(call[q])
        BY <3>11 DEF KeyInv
      <4>5. Carries(r)'
        BY <1>2, <3>6, <4>4 DEF Carries
      <4> QED
        BY <4>1, <4>3, <4>5
    <3>12. Kept
      BY <1>1, <2>1, <3>5, <3>6, <3>7, <3>8, <3>9, <3>10, <3>11, CallActs
    <3>13. Onward
      BY <1>1, <3>10 DEF Onward, EnrollTypeOK, Contexts
    <3> QED
      BY <3>12, <3>13
  <2>3. CASE context[d].status # "none"
    <3>1. PICK x : x = call[q]
      OBVIOUS
    <3>2. PICK n \in Contexts : n = context[d]
      BY <1>1 DEF EnrollTypeOK
    <3>3. PICK c : c = [x EXCEPT !.pc = "bind", !.seen = n]
      OBVIOUS
    <3>4. c \in EnrollCalls /\ c.pc = "bind" /\ c.seen = n /\ c.desk = d
      BY <1>1, <1>2, <3>1, <3>3 DEF EnrollCalls, EnrollSteps
    <3>5. CallMoves(q, c) /\ UNCHANGED <<context, localKey>>
      BY <1>1, <1>2, <1>3, <2>3, <3>1, <3>2, <3>3, <3>4
      DEF ReadContext, CallMoves, EnrollTypeOK
    <3>6. Forward(c)
      BY <3>4 DEF Forward
    <3>7. KeyInv => Carries(c)
      BY <3>2, <3>4 DEF KeyInv, OneFounder, Carries
    <3>8. UNCHANGED <<cloudVars, deskVars>>
      BY <2>1, <3>5 DEF cloudVars, deskVars
    <3> QED
      BY <3>5, <3>6, <3>7, <3>8, OnlyCall, SameContext DEF Kept
  <2> QED
    BY <2>2, <2>3
<1>4. ASSUME Register(q) PROVE Kept
  <2>1. /\ UNCHANGED <<cloudKey, member, envelopes, context, localKey, vault>> /\ Respond(q)
        /\ remote' = [remote EXCEPT ![d] =
             IF remote[d] = "none" /\ member[d] \in {"invited", "active"} THEN "pending"
             ELSE remote[d]]
    BY <1>1, <1>2, <1>4 DEF Register, deskVars, EnrollTypeOK
  <2>2. CallMoves(q, NoCall) /\ Forward(NoCall)' /\ Carries(NoCall)'
    BY <2>1, RespondMoves, NoCallIs DEF Forward, Carries
  <2>3. /\ remote' \in [Desktops -> {"none", "pending", "active", "revoked"}]
        /\ \A x \in Desktops : remote'[x] = "active" <=> remote[x] = "active"
    BY <1>1, <2>1 DEF EnrollTypeOK
  <2>4. EnrollTypeOK'
    BY <1>1, <2>1, <2>2, <2>3, CallIs DEF EnrollTypeOK
  <2>5. CloudBegun' /\ LocalBegun'
    BY <1>1, <2>1, <2>3 DEF CloudBegun, LocalBegun
  <2>6. KeyInv => OneFounder' /\ KeysHeld'
    BY <2>1 DEF KeyInv, OneFounder, KeysHeld
  <2> QED
    BY <1>1, <2>1, <2>2, <2>4, <2>5, <2>6, CallActs
<1>5. ASSUME RemoveMark(q) PROVE Kept /\ Onward
  <2>1. PICK x : x = context[d]
    OBVIOUS
  <2>2. PICK b \in BOOLEAN : b = IF Unchanged(q) THEN FALSE ELSE x.marked
    BY <1>1, <2>1 DEF EnrollTypeOK, Contexts
  <2>3. PICK c : c = [x EXCEPT !.marked = b]
    OBVIOUS
  <2>4. c \in Contexts /\ c.status = x.status /\ c.version = x.version /\ c.marked = b
    BY <1>1, <2>1, <2>3 DEF Contexts, EnrollTypeOK
  <2>5. /\ context' = [context EXCEPT ![d] = c] /\ Respond(q)
        /\ UNCHANGED <<cloudKey, member, remote, envelopes, localKey, vault>>
    BY <1>1, <1>2, <1>5, <2>1, <2>2, <2>3 DEF RemoveMark, cloudVars, EnrollTypeOK
  <2>6. /\ context' \in [Desktops -> Contexts] /\ context'[d] = c
        /\ \A y \in Desktops : y # d => context'[y] = context[y]
    BY <1>1, <2>4, <2>5 DEF EnrollTypeOK
  <2>7. \A y \in Desktops : /\ context'[y].status = context[y].status
                            /\ context'[y].version = context[y].version
                            /\ context'[y].marked => context[y].marked
    BY <2>1, <2>2, <2>4, <2>6
  <2>8. CallMoves(q, NoCall) /\ Forward(NoCall)' /\ Carries(NoCall)'
    BY <2>5, RespondMoves, NoCallIs DEF Forward, Carries
  <2>9. EnrollTypeOK'
    BY <1>1, <2>5, <2>6, <2>8, CallIs DEF EnrollTypeOK
  <2>10. CloudBegun' /\ LocalBegun'
    BY <1>1, <2>5, <2>7 DEF CloudBegun, LocalBegun
  <2>11. KeyInv => OneFounder' /\ KeysHeld'
    BY <2>5, <2>7 DEF KeyInv, OneFounder, KeysHeld
  <2>12. Onward
    BY <1>1, <2>7 DEF Onward, EnrollTypeOK, Contexts
  <2> QED
    BY <1>1, <2>5, <2>7, <2>8, <2>9, <2>10, <2>11, <2>12, CallActs
<1> QED
  BY <1>3, <1>4, <1>5

LEMMA SealedSteps ==
  ASSUME EnrollInv, NEW q \in Calls
  PROVE  /\ PutEnvelope(q) => Kept
         /\ Pair(q) => Kept
<1> USE EnrollmentAssumption
<1>1. /\ EnrollTypeOK /\ cloudKey \in Nat /\ CloudBegun /\ LocalBegun
      /\ call[q] \in EnrollCalls /\ Forward(call[q])
  BY DEF EnrollInv, EnrollTypeOK
<1>2. PICK d \in Desktops : d = call[q].desk
  BY <1>1 DEF EnrollCalls
<1>3. PICK x \in EnrollCalls : x = call[q]
  BY <1>1
<1>4. ASSUME PutEnvelope(q) PROVE Kept
  <2>1. UNCHANGED <<cloudKey, member, remote, context, localKey, vault>> /\ x.pc = "put"
    BY <1>3, <1>4 DEF PutEnvelope, deskVars
  <2>2. PICK v \in 1 .. MaxCloudKey : v = x.version
    BY <1>1, <1>3, <2>1 DEF Forward
  <2>3. v \in KeyVersions
    BY Versions
  <2>4. PICK k \in Keys \cup {NoKeyYet} : k = vault[d][v]
    BY <1>1, <2>3 DEF EnrollTypeOK
  <2>5. CASE Respond(q) /\ UNCHANGED envelopes
    BY <2>1, <2>5, AnsweredKept DEF cloudVars, deskVars
  <2>6. CASE cloudKey = v /\ envelopes = {}
             /\ envelopes' = {[device |-> d, version |-> v, key |-> k]}
             /\ call' = [call EXCEPT ![q].pc = "open", ![q].key = k]
    <3>1. PICK e : e = [device |-> d, version |-> v, key |-> k]
      OBVIOUS
    <3>2. /\ e \in [device : Desktops, version : 1 .. MaxCloudKey, key : Keys \cup {NoKeyYet}]
          /\ e.key = k /\ e.version = v
      BY <3>1
    <3>3. envelopes' = {e}
      BY <2>6, <3>1
    <3>4. PICK c : c = [x EXCEPT !.pc = "open", !.key = k]
      OBVIOUS
    <3>5. /\ c \in EnrollCalls /\ c.pc = "open" /\ c.key = k /\ c.seen = x.seen
          /\ c.version = v /\ c.desk = d
      BY <1>2, <1>3, <2>2, <3>4 DEF EnrollCalls, EnrollSteps
    <3>6. CallMoves(q, c)
      BY <1>1, <1>3, <2>6, <3>4, <3>5 DEF CallMoves, EnrollTypeOK
    <3>7. EnrollTypeOK'
      BY <1>1, <2>1, <3>2, <3>3, <3>6, CallIs DEF EnrollTypeOK
    <3>8. CloudBegun' /\ LocalBegun'
      BY <1>1, <2>1, <3>3 DEF CloudBegun, LocalBegun
    <3>9. Forward(c)'
      BY <1>1, <1>3, <2>1, <2>2, <3>5 DEF Forward
    <3>10. ASSUME KeyInv PROVE OneFounder' /\ KeysHeld' /\ Carries(c)'
      <4>1. Carries(x)
        BY <1>3, <3>10 DEF KeyInv
      <4>2. d = First
        BY <1>2, <1>3, <2>1, <4>1 DEF Carries
      <4>3. v = 1
        BY <1>1, <2>6 DEF CloudBegun
      <4>4. k = KeyOf(v)
        BY <2>4, <3>10, <4>2, <4>3 DEF KeyInv, KeysHeld
      <4>5. KeysHeld'
        BY <2>1, <3>2, <3>3, <3>10, <4>4 DEF KeyInv, KeysHeld
      <4>6. Carries(c)'
        BY <2>1, <3>5, <4>2, <4>4 DEF Carries
      <4> QED
        BY <2>1, <3>10, <4>5, <4>6 DEF KeyInv, OneFounder
    <3> QED
      BY <1>1, <2>1, <3>6, <3>7, <3>8, <3>9, <3>10, CallActs
  <2> QED
    BY <1>2, <1>3, <1>4, <2>2, <2>4, <2>5, <2>6 DEF PutEnvelope
<1>5. ASSUME Pair(q) PROVE Kept
  <2>1. UNCHANGED <<cloudKey, context, localKey, vault>> /\ x.pc = "pair" /\ Respond(q)
    BY <1>3, <1>5 DEF Pair, deskVars
  <2>2. CASE UNCHANGED <<envelopes, remote, member>>
    BY <2>1, <2>2, AnsweredKept DEF cloudVars, deskVars
  <2>3. CASE ~UNCHANGED <<envelopes, remote, member>>
    <3>1. PICK t \in Desktops : t = x.target
      BY <1>3 DEF EnrollCalls
    <3>2. /\ Bound(d) /\ x.version = cloudKey
          /\ envelopes' = envelopes \cup {[device |-> t, version |-> cloudKey, key |-> x.key]}
          /\ remote' = [remote EXCEPT ![t] = "active"]
          /\ member' = [member EXCEPT ![t] = "active"]
      BY <1>2, <1>3, <1>5, <2>3, <3>1 DEF Pair
    <3>3. cloudKey \in 1 .. MaxCloudKey
      BY <1>1, <3>2 DEF Bound, CloudBegun, EnrollTypeOK
    <3>4. PICK e : e = [device |-> t, version |-> cloudKey, key |-> x.key]
      OBVIOUS
    <3>5. /\ e \in [device : Desktops, version : 1 .. MaxCloudKey, key : Keys \cup {NoKeyYet}]
          /\ e.key = x.key /\ e.version = cloudKey
      BY <3>3, <3>4 DEF EnrollCalls
    <3>6. envelopes' = envelopes \cup {e}
      BY <3>2, <3>4
    <3>7. CallMoves(q, NoCall) /\ Forward(NoCall)' /\ Carries(NoCall)'
      BY <2>1, RespondMoves, NoCallIs DEF Forward, Carries
    <3>8. EnrollTypeOK'
      BY <1>1, <2>1, <3>2, <3>5, <3>6, <3>7, CallIs DEF EnrollTypeOK
    <3>9. remote[First] = "active" => remote'[First] = "active"
      BY <1>1, <3>2 DEF EnrollTypeOK
    <3>10. CloudBegun' /\ LocalBegun'
      BY <1>1, <2>1, <3>3, <3>6, <3>9 DEF CloudBegun, LocalBegun
    <3>11. ASSUME KeyInv PROVE OneFounder' /\ KeysHeld'
      <4>1. x.key = KeyOf(cloudKey)
        BY <1>3, <2>1, <3>2, <3>3, <3>11 DEF KeyInv, Carries
      <4> QED
        BY <2>1, <3>5, <3>6, <3>11, <4>1 DEF KeyInv, KeysHeld, OneFounder
    <3> QED
      BY <1>1, <2>1, <3>7, <3>8, <3>10, <3>11, CallActs
  <2> QED
    BY <2>2, <2>3
<1> QED
  BY <1>4, <1>5

LEMMA ActivateStep ==
  ASSUME EnrollInv, NEW q \in Calls, Activate(q)
  PROVE  Kept /\ Onward
<1> USE EnrollmentAssumption
<1>1. /\ EnrollTypeOK /\ cloudKey \in Nat /\ CloudBegun /\ LocalBegun
      /\ call[q] \in EnrollCalls /\ Forward(call[q])
  BY DEF EnrollInv, EnrollTypeOK
<1>2. PICK d \in Desktops : d = call[q].desk
  BY <1>1 DEF EnrollCalls
<1>3. PICK x \in EnrollCalls : x = call[q]
  BY <1>1
<1>4. x.pc = "activate" /\ UNCHANGED <<cloudKey, member, remote, envelopes>>
  BY <1>3 DEF Activate, cloudVars
<1>5. PICK v \in 1 .. MaxCloudKey : v = x.version
  BY <1>1, <1>3, <1>4 DEF Forward
<1>6. PICK k \in Keys \cup {NoKeyYet} : k = x.key
  BY DEF EnrollCalls
<1>7. v \in KeyVersions /\ v \in Nat /\ v # 0
  BY Versions
<1>8. CASE Respond(q) /\ UNCHANGED deskVars
  BY <1>4, <1>8, AnsweredKept, SameContext DEF cloudVars, deskVars
<1>9. CASE ~(Respond(q) /\ UNCHANGED deskVars)
  <2>1. PICK b \in BOOLEAN : b = x.seen.marked
    BY DEF EnrollCalls, Contexts
  <2>2. PICK n : n = [status |-> "active", version |-> v, wanted |-> v, marked |-> b]
    OBVIOUS
  <2>3. n \in Contexts /\ n.status = "active" /\ n.version = v /\ n.marked = b
    BY <1>7, <2>2 DEF Contexts
  <2>4. /\ vault[d][v] \in {NoKeyYet, k} /\ context[d] = x.seen
        /\ vault' = [vault EXCEPT ![d][v] = k]
        /\ localKey' = [localKey EXCEPT ![d] = v]
        /\ context' = [context EXCEPT ![d] = n]
        /\ \/ call' = [call EXCEPT ![q].pc = "clean", ![q].seen = context'[d]]
           \/ Respond(q)
    BY <1>2, <1>3, <1>5, <1>6, <1>9, <2>1, <2>2 DEF Activate, KeyAgrees, Unchanged
  <2>5. /\ context' \in [Desktops -> Contexts] /\ context'[d] = n
        /\ \A y \in Desktops : y # d => context'[y] = context[y]
    BY <1>1, <2>3, <2>4 DEF EnrollTypeOK
  <2>6. /\ localKey' \in [Desktops -> KeyVersions \cup {0}] /\ localKey'[d] = v
        /\ \A y \in Desktops : y # d => localKey'[y] = localKey[y]
    BY <1>1, <1>7, <2>4 DEF EnrollTypeOK
  <2>7. /\ vault' \in [Desktops -> [KeyVersions -> Keys \cup {NoKeyYet}]]
        /\ vault'[d][v] = k
        /\ \A y \in Desktops, u \in KeyVersions : y # d \/ u # v => vault'[y][u] = vault[y][u]
    BY <1>1, <1>7, <2>4 DEF EnrollTypeOK
  <2>8. PICK c : /\ CallMoves(q, c) /\ c.pc \in {"clean", "idle"}
                 /\ c.seen.marked => c.desk = d /\ b
    <3>1. CASE Respond(q)
      BY <3>1, RespondMoves, NoCallIs
    <3>2. CASE call' = [call EXCEPT ![q].pc = "clean", ![q].seen = context'[d]]
      <4>1. PICK c : c = [x EXCEPT !.pc = "clean", !.seen = n]
        OBVIOUS
      <4>2. c \in EnrollCalls /\ c.pc = "clean" /\ c.seen = n /\ c.desk = d
        BY <1>2, <1>3, <2>3, <4>1 DEF EnrollCalls, EnrollSteps
      <4>3. CallMoves(q, c)
        BY <1>1, <1>3, <2>5, <3>2, <4>1, <4>2 DEF CallMoves, EnrollTypeOK
      <4> QED
        BY <2>3, <4>2, <4>3
    <3> QED
      BY <2>4, <3>1, <3>2
  <2>9. EnrollTypeOK'
    BY <1>1, <1>4, <2>5, <2>6, <2>7, <2>8, CallIs DEF EnrollTypeOK
  <2>10. CloudBegun' /\ LocalBegun'
    BY <1>1, <1>4, <1>7, <2>5, <2>6 DEF CloudBegun, LocalBegun
  <2>11. Forward(c)'
    BY <2>8 DEF Forward
  <2>12. \A y \in Desktops : context[y].status = "active" => context'[y].status = "active"
    BY <2>3, <2>5
  <2>13. \A y \in Desktops, u \in KeyVersions :
            vault[y][u] # NoKeyYet => vault'[y][u] # NoKeyYet
    BY <2>4, <2>7
  <2>14. \A y \in Desktops : localKey[y] # 0 => localKey'[y] # 0
    BY <1>7, <2>6
  <2>15. ASSUME KeyInv PROVE OneFounder' /\ KeysHeld' /\ Carries(c)'
    <3>1. k = KeyOf(v) /\ (b => d = First)
      BY <1>2, <1>3, <1>4, <1>5, <1>6, <2>1, <2>15 DEF KeyInv, Carries
    <3>2. k # NoKeyYet
      BY <1>7, <3>1, KeysAre
    <3>3. OneFounder'
      BY <2>3, <2>5, <2>15, <3>1 DEF KeyInv, OneFounder
    <3>4. \A y \in Desktops, u \in 1 .. MaxCloudKey : vault'[y][u] \in {NoKeyYet, KeyOf(u)}
      BY <2>7, <2>15, <3>1, Versions DEF KeyInv, KeysHeld
    <3>5. vault'[First][1] = KeyOf(1)
      BY <2>7, <2>15, <3>1, Versions DEF KeyInv, KeysHeld
    <3>6. ASSUME NEW y \in Desktops, context'[y].status = "active"
          PROVE  /\ context'[y].version \in 1 .. MaxCloudKey
                 /\ vault'[y][context'[y].version] = KeyOf(context'[y].version)
                 /\ vault'[y][localKey'[y]] # NoKeyYet
      <4>1. CASE y = d
        BY <2>3, <2>5, <2>6, <2>7, <3>1, <3>2, <4>1
      <4>2. CASE y # d
        <5>1. /\ context[y].version \in 1 .. MaxCloudKey
              /\ vault[y][context[y].version] = KeyOf(context[y].version)
              /\ vault[y][localKey[y]] # NoKeyYet /\ context[y].status = "active"
          BY <2>5, <2>15, <3>6, <4>2 DEF KeyInv, KeysHeld
        <5>2. localKey[y] \in KeyVersions
          BY <1>1, <5>1 DEF EnrollTypeOK, LocalBegun
        <5>3. context'[y] = context[y] /\ localKey'[y] = localKey[y]
          BY <2>5, <2>6, <4>2
        <5>4. PICK u \in KeyVersions, w \in KeyVersions :
                 u = context[y].version /\ w = localKey[y] /\ u \in 1 .. MaxCloudKey
          BY <5>1, <5>2, Versions
        <5>5. vault'[y][u] = vault[y][u] /\ vault'[y][w] = vault[y][w]
          BY <2>7, <4>2, <5>4
        <5> QED
          BY <5>1, <5>3, <5>4, <5>5
      <4> QED
        BY <4>1, <4>2
    <3>7. KeysHeld'
      BY <1>4, <2>15, <3>4, <3>5, <3>6 DEF KeyInv, KeysHeld
    <3>8. Carries(c)'
      BY <2>8, <3>1 DEF Carries
    <3> QED
      BY <3>3, <3>7, <3>8
  <2>16. Kept
    BY <1>1, <1>4, <2>8, <2>9, <2>10, <2>11, <2>12, <2>13, <2>14, <2>15, Versions, CallActs
  <2>17. Onward
    <3>1. x.seen.status = "active" => v > x.seen.version
      BY <1>1, <1>3, <1>4, <1>5 DEF Forward
    <3> QED
      BY <1>1, <1>7, <2>3, <2>4, <2>5, <3>1 DEF Onward, EnrollTypeOK, Contexts
  <2> QED
    BY <2>16, <2>17
<1> QED
  BY <1>8, <1>9

LEMMA EnrollStarts == EnrollInit => EnrollInv /\ KeyInv
<1> SUFFICES ASSUME EnrollInit PROVE EnrollInv /\ KeyInv
  OBVIOUS
<1> USE EnrollmentAssumption
<1>1. /\ context = [d \in Desktops |-> NoContext] /\ call = [q \in Calls |-> NoCall]
      /\ cloudKey = 0 /\ envelopes = {}
  BY DEF EnrollInit
<1>2. OrgKey(1, First) \in Keys /\ KeyOf(1) = OrgKey(1, First)
  BY KeysAre, Versions
<1>3. vault \in [Desktops -> [KeyVersions -> Keys \cup {NoKeyYet}]]
  BY <1>2 DEF EnrollInit
<1>4. /\ vault[First][1] = KeyOf(1)
      /\ \A d \in Desktops, v \in 1 .. MaxCloudKey : vault[d][v] \in {NoKeyYet, KeyOf(v)}
  BY <1>2, Versions DEF EnrollInit
<1>5. EnrollTypeOK
  BY <1>1, <1>3, NoCallIs, Versions DEF EnrollInit, EnrollTypeOK
<1>6. CloudBegun /\ LocalBegun
  BY <1>1, NoCallIs DEF EnrollInit, CloudBegun, LocalBegun
<1>7. (\A q \in Calls : Forward(call[q])) /\ (\A q \in Calls : Carries(call[q]))
  BY <1>1, NoCallIs DEF Forward, Carries
<1>8. OneFounder /\ KeysHeld
  BY <1>1, <1>4, NoCallIs DEF OneFounder, KeysHeld
<1> QED
  BY <1>5, <1>6, <1>7, <1>8 DEF EnrollInv, KeyInv

LEMMA EnrollStep ==
  ASSUME EnrollInv, EnrollNext
  PROVE  Kept /\ Onward
<1>1. CASE PrepareManifest \/ MarkManifest \/ RotateLocally
  BY <1>1, FounderSteps, SameContext DEF RotateLocally
<1>2. CASE \/ Bootstrap \/ CommitCloudRotation
           \/ \E d \in Desktops : JoinAgain(d) \/ Expel(d) \/ SealRotation(d)
  BY <1>2, EnrollmentAssumption, CloudSteps, SameContext
  DEF Bootstrap, CommitCloudRotation, JoinAgain, Expel, SealRotation, deskVars
<1>3. ASSUME NEW q \in Calls,
             \/ ReadContext(q) \/ RemoveMark(q) \/ Activate(q)
      PROVE  Kept /\ Onward
  BY <1>3, RegisterSteps, ActivateStep
<1>4. ASSUME NEW q \in Calls,
             \/ \E d \in Desktops : \/ AskSelf(q, d) \/ AskBusiness(q, d)
                                    \/ \E t \in Desktops : AskApprove(q, d, t)
             \/ BindSelf(q) \/ ReadVersion(q) \/ ReadDevice(q) \/ ReadEnvelope(q)
             \/ OpenEnvelope(q) \/ Seal(q) \/ ResolveContext(q) \/ EnterSession(q)
             \/ SameVersion(q) \/ StillListed(q) \/ EndCall(q)
      PROVE  Kept /\ Onward
  <2>1. Kept
    BY <1>4, SelfSteps, OtherSteps
  <2>2. UNCHANGED context
    BY <1>4 DEF AskSelf, AskBusiness, AskApprove, BindSelf, ReadVersion, ReadDevice,
       ReadEnvelope, OpenEnvelope, Seal, ResolveContext, EnterSession, SameVersion,
       StillListed, EndCall, deskVars
  <2> QED
    BY <2>1, <2>2, SameContext
<1>5. ASSUME NEW q \in Calls, Register(q) \/ PutEnvelope(q) \/ Pair(q)
      PROVE  Kept /\ Onward
  <2>1. UNCHANGED context
    BY <1>5 DEF Register, PutEnvelope, Pair, deskVars
  <2> QED
    BY <1>5, <2>1, RegisterSteps, SealedSteps, SameContext
<1> QED
  BY <1>1, <1>2, <1>3, <1>4, <1>5 DEF EnrollNext

(* Requests, rotations and expulsions keep the rows of the cloud, the       *)
(* contexts and what a request has read in step.                            *)
THEOREM EnrollInvHolds == EnrollSpec => []EnrollInv
<1>1. EnrollInv /\ [EnrollNext]_enrollVars => EnrollInv'
  <2> SUFFICES ASSUME EnrollInv, [EnrollNext]_enrollVars PROVE EnrollInv'
    OBVIOUS
  <2>1. CASE EnrollNext
    BY <2>1, EnrollStep DEF Kept
  <2>2. CASE UNCHANGED enrollVars
    BY <2>2 DEF enrollVars, cloudVars, deskVars, EnrollInv, EnrollTypeOK, CloudBegun,
       LocalBegun, Forward
  <2> QED
    BY <2>1, <2>2
<1> QED
  BY <1>1, EnrollStarts, PTL DEF EnrollSpec

(* NeverRollsBack for any number of desktops, requests and rotations: an    *)
(* active context is only replaced by a later version of it                 *)
(* (activate_cloud_device_context in v9/repository.py).                     *)
THEOREM ContextsOnlyAdvance == EnrollSpec => NeverRollsBack
<1>1. EnrollInv /\ [EnrollNext]_enrollVars => [Onward]_enrollVars
  BY EnrollStep
<1>2. [][Onward]_enrollVars <=> NeverRollsBack
  BY DEF Onward, NeverRollsBack
<1> QED
  BY <1>1, <1>2, EnrollInvHolds, PTL DEF EnrollSpec

(* ActiveHoldsKey, as long as not both the cloud's organization and the     *)
(* first owner's local one are rotated: whatever desktops register, pair    *)
(* and call at once, nobody works under a key the others do not have.       *)
THEOREM ActiveKeysAgree == OneIsRotated /\ EnrollSpec => []ActiveHoldsKey
<1> SUFFICES ASSUME OneIsRotated PROVE EnrollSpec => []ActiveHoldsKey
  OBVIOUS
<1>1. EnrollInv /\ KeyInv /\ [EnrollNext]_enrollVars => KeyInv'
  <2> SUFFICES ASSUME EnrollInv, KeyInv, [EnrollNext]_enrollVars PROVE KeyInv'
    OBVIOUS
  <2>1. CASE EnrollNext
    BY <2>1, EnrollStep DEF Kept
  <2>2. CASE UNCHANGED enrollVars
    BY <2>2 DEF enrollVars, cloudVars, deskVars, KeyInv, OneFounder, KeysHeld, Carries
  <2> QED
    BY <2>1, <2>2
<1>2. EnrollInv /\ KeyInv => ActiveHoldsKey
  <2> SUFFICES ASSUME EnrollInv, KeyInv PROVE ActiveHoldsKey
    OBVIOUS
  <2>1. ASSUME NEW q \in Calls, call[q].pc = "granted"
        PROVE  vault[call[q].desk][call[q].seen.version] = KeyOf(call[q].seen.version)
    <3>1. /\ call[q].seen.version \in 1 .. MaxCloudKey /\ call[q].desk \in Desktops
          /\ vault[call[q].desk][call[q].seen.version] # NoKeyYet
      BY <2>1 DEF KeyInv, Carries, EnrollInv, EnrollTypeOK, EnrollCalls
    <3> QED
      BY <3>1 DEF KeyInv, KeysHeld
  <2> QED
    BY <2>1 DEF ActiveHoldsKey, KeyInv, KeysHeld
<1> QED
  BY <1>1, <1>2, EnrollStarts, EnrollInvHolds, PTL DEF EnrollSpec

=============================================================================
