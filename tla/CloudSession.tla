---------------------------- MODULE CloudSession ----------------------------
(***************************************************************************)
(* The desktop's session with the cloud (v9/supabase_client.py): a login   *)
(* by a link that is opened in the browser, the refresh token in the vault *)
(* file, the access token in memory, and signing out.  Requests of the     *)
(* desktop run these at once.  The lock covers memory and the whole of a   *)
(* refresh; the vault file is written and removed without it.              *)
(***************************************************************************)
EXTENDS Integers, FiniteSets

CONSTANTS Threads, People,
          MaxLogins      \* bound: login attempts

ASSUME SessionAssumption ==
    /\ MaxLogins \in Nat
    /\ "free" \notin Threads /\ {"none", "ended"} \cap People = {}

(* An attempt has one link, with a code that works once, and makes the      *)
(* session of the same number.  0 is none.                                  *)
Attempts == 1 .. MaxLogins

VARIABLES attempts,      \* attempts begun
          link,          \* of each attempt: none, sent, used
          owner,         \* of each session at the service, or "none", "ended"
          pkce,          \* attempt in the PKCE file
          tokenFile,     \* session whose refresh token is in the vault file
          memory,        \* session of the access token in memory
          fresh,         \* the access token is good for another 30 seconds
          lock,          \* thread that refreshes, or "free"
          thread,        \* what each thread does next
          signedOut      \* sessions signed out since the program started

serviceVars == <<link, owner, signedOut>>
fileVars == <<pkce, tokenFile>>
memoryVars == <<memory, fresh, lock>>
sessionVars == <<attempts, serviceVars, fileVars, memoryVars, thread>>

Unasked == [step |-> "idle", for |-> "none", session |-> 0]

SessionInit ==
    /\ attempts = 0
    /\ link = [k \in Attempts |-> "none"]
    /\ owner = [k \in Attempts |-> "none"]
    /\ pkce = 0 /\ tokenFile = 0
    /\ memory = 0 /\ fresh = FALSE /\ lock = "free"
    /\ thread = [t \in Threads |-> Unasked]
    /\ signedOut = {}

At(t, step) == thread[t].step = step

Proceed(t, step) == thread' = [thread EXCEPT ![t].step = step]

Begin(t, step, for, session) ==
    /\ At(t, "idle")
    /\ thread' = [thread EXCEPT ![t] = [step |-> step, for |-> for, session |-> session]]

(* A call that fails ends the request; signing out goes on regardless.      *)
Fail(t) ==
    /\ thread' = [thread EXCEPT ![t] =
           IF @.for = "signout" THEN [@ EXCEPT !.step = "clear"] ELSE Unasked]
    /\ lock' = IF lock = t THEN "free" ELSE lock
-----------------------------------------------------------------------------
(* start_email_login. *)
StartLogin(t) ==
    /\ attempts < MaxLogins
    /\ attempts' = attempts + 1
    /\ pkce' = attempts + 1
    /\ Begin(t, "mail", "start", attempts + 1)
    /\ UNCHANGED <<serviceVars, tokenFile, memoryVars>>

(* When the call fails the file goes, whichever attempt it holds by now. *)
SendLink(t) ==
    /\ At(t, "mail")
    /\ \/ link' = [link EXCEPT ![thread[t].session] = "sent"] /\ UNCHANGED pkce
       \/ /\ link' = [link EXCEPT ![thread[t].session] = "sent"] \/ UNCHANGED link
          /\ pkce' = 0
    /\ thread' = [thread EXCEPT ![t] = Unasked]
    /\ UNCHANGED <<attempts, owner, signedOut, tokenFile, memoryVars>>

(* complete_email_login.  An attempt is good for ten minutes. *)
Expire(t) ==
    /\ At(t, "idle") /\ pkce # 0
    /\ pkce' = 0
    /\ UNCHANGED <<attempts, serviceVars, tokenFile, memoryVars, thread>>

OpenLink(t, k) ==
    /\ link[k] = "sent" /\ pkce # 0
    /\ Begin(t, IF pkce = k THEN "exchange" ELSE "mismatch", "login", k)
    /\ UNCHANGED <<attempts, serviceVars, fileVars, memoryVars>>

(* The exchange is refused for the verifier of another attempt and for a    *)
(* code that was used, or does not arrive, and the attempt stays.           *)
ExchangeFails(t) ==
    /\ At(t, "mismatch") \/ At(t, "exchange")
    /\ Fail(t)
    /\ UNCHANGED <<attempts, serviceVars, fileVars, memory, fresh>>

Exchange(t, p) ==
    LET k == thread[t].session IN
    /\ At(t, "exchange") /\ link[k] = "sent"
    /\ link' = [link EXCEPT ![k] = "used"]
    /\ owner' = [owner EXCEPT ![k] = p]
    /\ Proceed(t, "validate")
    /\ UNCHANGED <<attempts, signedOut, fileVars, memoryVars>>
-----------------------------------------------------------------------------
(* access_token, for a request or to sign out. *)
NeedsRefresh == memory = 0 \/ ~fresh

Granted(t, for) ==
    thread' = [thread EXCEPT ![t] = IF for = "signout"
        THEN [step |-> "logout", for |-> for, session |-> memory] ELSE Unasked]

UseToken(t, for) ==
    /\ At(t, "idle") /\ lock = "free" /\ ~NeedsRefresh
    /\ Granted(t, for)
    /\ UNCHANGED <<attempts, serviceVars, fileVars, memoryVars>>

(* _refresh_locked: the token in the vault, whosever it is. *)
BeginRefresh(t, for) ==
    /\ lock = "free" /\ NeedsRefresh
    /\ tokenFile # 0
    /\ lock' = t
    /\ Begin(t, "refresh", for, tokenFile)
    /\ UNCHANGED <<attempts, serviceVars, fileVars, memory, fresh>>

NotLoggedIn(t) ==
    /\ At(t, "idle") /\ lock = "free" /\ NeedsRefresh
    /\ tokenFile = 0
    /\ thread' = [thread EXCEPT ![t] = [Unasked EXCEPT !.step = "clear", !.for = "signout"]]
    /\ UNCHANGED <<attempts, serviceVars, fileVars, memoryVars>>

Refresh(t) ==
    /\ At(t, "refresh")
    /\ \/ owner[thread[t].session] \in People /\ Proceed(t, "validate") /\ UNCHANGED lock
       \/ Fail(t)
    /\ UNCHANGED <<attempts, serviceVars, fileVars, memory, fresh>>
-----------------------------------------------------------------------------
(* accept_session, of a login or of a refresh. *)
Validate(t) ==
    /\ At(t, "validate")
    /\ \/ Proceed(t, "save") /\ UNCHANGED <<pkce, lock>>
       \/ Fail(t) /\ pkce' = IF thread[t].for = "login" THEN 0 ELSE pkce
    /\ UNCHANGED <<attempts, serviceVars, tokenFile, memory, fresh>>

Save(t) ==
    /\ At(t, "save")
    /\ tokenFile' = thread[t].session
    /\ Proceed(t, "set")
    /\ UNCHANGED <<attempts, serviceVars, pkce, memoryVars>>

Set(t) ==
    /\ At(t, "set") /\ lock \in {"free", t}
    /\ memory' = thread[t].session /\ fresh' = TRUE /\ lock' = "free"
    /\ CASE thread[t].for = "login" -> Proceed(t, "forget")
         [] thread[t].for = "signout" -> Proceed(t, "logout")
         [] OTHER -> thread' = [thread EXCEPT ![t] = Unasked]
    /\ UNCHANGED <<attempts, serviceVars, fileVars>>

ForgetAttempt(t) ==
    /\ At(t, "forget")
    /\ pkce' = 0
    /\ thread' = [thread EXCEPT ![t] = Unasked]
    /\ UNCHANGED <<attempts, serviceVars, tokenFile, memoryVars>>
-----------------------------------------------------------------------------
(* sign_out.  The service ends every session of the person.  Noted are the  *)
(* session that was used and not those that a login is still accepting.     *)
Accepting(k) ==
    \E t \in Threads : /\ thread[t].for = "login" /\ thread[t].session = k
                       /\ thread[t].step \in {"validate", "save", "set"}

LogOut(t) ==
    LET k == thread[t].session IN
    /\ At(t, "logout")
    /\ \/ /\ owner[k] \in People
          /\ owner' = [j \in Attempts |-> IF owner[j] = owner[k] THEN "ended" ELSE owner[j]]
          /\ signedOut' = IF Accepting(k) THEN signedOut ELSE signedOut \cup {k}
       \/ UNCHANGED <<owner, signedOut>>
    /\ Proceed(t, "clear")
    /\ UNCHANGED <<attempts, link, fileVars, memoryVars>>

(* Mutant: the vault goes before memory. *)
ClearVaultFirst(t) ==
    \/ /\ At(t, "clear")
       /\ tokenFile' = 0
       /\ Proceed(t, "clearMemory")
       /\ UNCHANGED <<attempts, serviceVars, pkce, memoryVars>>
    \/ /\ At(t, "clearMemory") /\ lock = "free"
       /\ memory' = 0 /\ fresh' = FALSE
       /\ Proceed(t, "forget")
       /\ UNCHANGED <<attempts, serviceVars, fileVars, lock>>

ClearMemory(t) ==
    /\ At(t, "clear") /\ lock = "free"
    /\ memory' = 0 /\ fresh' = FALSE
    /\ Proceed(t, "clearVault")
    /\ UNCHANGED <<attempts, serviceVars, fileVars, lock>>

ClearVault(t) ==
    /\ At(t, "clearVault")
    /\ tokenFile' = 0
    /\ Proceed(t, "forget")
    /\ UNCHANGED <<attempts, serviceVars, pkce, memoryVars>>

(* The access token comes to its end; the program ends and starts again.  A *)
(* sign-out that was cut short leaves its token in the file, and the        *)
(* service refuses it.                                                      *)
Age ==
    /\ fresh
    /\ fresh' = FALSE
    /\ UNCHANGED <<attempts, serviceVars, fileVars, memory, lock, thread>>

Restart ==
    /\ \E t \in Threads : thread[t] # Unasked
    /\ thread' = [t \in Threads |-> Unasked]
    /\ memory' = 0 /\ fresh' = FALSE /\ lock' = "free"
    /\ signedOut' = {}
    /\ UNCHANGED <<attempts, link, owner, fileVars>>
-----------------------------------------------------------------------------
SessionNext ==
    \/ \E t \in Threads :
        \/ StartLogin(t) \/ SendLink(t) \/ Expire(t) \/ ExchangeFails(t)
        \/ \E k \in Attempts : OpenLink(t, k)
        \/ \E p \in People : Exchange(t, p)
        \/ \E for \in {"request", "signout"} : UseToken(t, for) \/ BeginRefresh(t, for)
        \/ NotLoggedIn(t) \/ Refresh(t) \/ Validate(t) \/ Save(t) \/ Set(t)
        \/ ForgetAttempt(t) \/ LogOut(t) \/ ClearMemory(t) \/ ClearVault(t)
    \/ Age \/ Restart

SessionSpec == SessionInit /\ [][SessionNext]_sessionVars
-----------------------------------------------------------------------------
(* A session that was signed out at the service does not come back: once no *)
(* request is under way it is neither in memory nor in the vault, whatever  *)
(* refreshes ran beside it (supabase_client.py:690-706, 755-772).           *)
SignedOutStaysOut ==
    (\A t \in Threads : thread[t] = Unasked) => memory \notin signedOut /\ tokenFile \notin signedOut
=============================================================================
