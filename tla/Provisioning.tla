---------------------------- MODULE Provisioning ----------------------------
(***************************************************************************)
(* What the edge functions invite-member and access-applications do around *)
(* Membership: a worker claims an invitation under a lease of 120 seconds, *)
(* asks the Auth service to invite the address, reports the result under   *)
(* the attempt it claimed, deletes the account it created when the         *)
(* invitation has closed in between, and tells the access application that *)
(* asked for it (migrations 0022 and 0023).  A worker may stop anywhere,   *)
(* and any call of it may be lost.                                         *)
(***************************************************************************)
EXTENDS Membership

CONSTANTS Workers,       \* calls of provisionInvitation under way at once
          Applicant,     \* the address of the access application
          MaxAttempts    \* claims of one invitation: 5

ASSUME ProvisioningAssumption ==
    Applicant \in Users /\ MaxAttempts \in Nat \ {0}

VARIABLES provState,     \* provisioning_state
          attempt,       \* provisioning_attempt_id, 0 for null
          claims,        \* provisioning_attempt_count
          lease,         \* provisioning_lease_until > statement_timestamp()
          worker,        \* what each worker knows and does next
          filing, contact,         \* the application of the address, and whether
                                   \* it still names the address
          appStatus, appRequest

requestFields == <<provState, attempt, claims, lease>>
filingVars == <<filing, contact>>
appVars == <<filingVars, appStatus, appRequest>>
provisioningVars == <<membershipVars, requestFields, worker, appVars>>

Done == [step |-> "idle", req |-> Nobody, app |-> 0, attempt |-> 0,
         result |-> "none", made |-> FALSE, outcome |-> "none"]

ProvisioningInit ==
    /\ MembershipInit
    /\ provState = [r \in Invitations |-> "pending"]
    /\ attempt = [r \in Invitations |-> 0]
    /\ claims = [r \in Invitations |-> 0]
    /\ lease = [r \in Invitations |-> FALSE]
    /\ worker = [w \in Workers |-> Done]
    /\ filing = 1 /\ contact = TRUE
    /\ appStatus = "pending" /\ appRequest = Nobody

Start(w, r, app) ==
    /\ worker[w].step = "idle"
    /\ worker' = [worker EXCEPT ![w] = [Done EXCEPT !.step = "claim", !.req = r, !.app = app]]

Proceed(w, step) == worker' = [worker EXCEPT ![w].step = step]

(* The worker is done with the invitation; the application hears of it.     *)
Conclude(w, outcome) ==
    worker' = [worker EXCEPT ![w] =
        IF @.app # 0 THEN [@ EXCEPT !.step = "conclude", !.outcome = outcome] ELSE Done]

(* A worker may stop before its first call. *)
Dispatch(r, app) == UNCHANGED worker \/ \E w \in Workers : Start(w, r, app)
-----------------------------------------------------------------------------
(* invite-member: begin_member_invitation, whose answer is a new request or *)
(* the one under way, and then a worker.                                    *)
InviteNew(a, e) ==
    \E role \in Roles, r \in Invitations, lag \in CallLags :
        /\ Begin(a, e, role, r, lag)
        /\ Dispatch(r, 0)
        /\ UNCHANGED <<requestFields, appVars>>

InviteAgain(a, e) ==
    \E r \in Invitations, lag \in CallLags :
        /\ MayActOn(a, "member", lag) /\ Requested(e, r, lag)
        /\ \E w \in Workers : Start(w, r, 0)
        /\ UNCHANGED <<membershipVars, requestFields, appVars>>

InviteMember(a, e) ==
    /\ \E lag \in CallLags : Lapsed(e, lag) # {} /\ BeginForMember(a, e, lag)
    /\ UNCHANGED <<requestFields, worker, appVars>>

(* get_access_application_for_review: an application whose address is gone  *)
(* cannot be decided.                                                       *)
Reviewable(a) == contact /\ \E lag \in CallLags : Manages(a, lag)

(* decide_access_application, the first decision.                           *)
Reject(a) ==
    /\ Reviewable(a) /\ appStatus = "pending"
    /\ appStatus' = "rejected"
    /\ UNCHANGED <<membershipVars, requestFields, worker, filingVars, appRequest>>

Approve(a) ==
    \E r \in Invitations, lag \in CallLags :
        /\ contact /\ appStatus = "pending"
        /\ \/ Begin(a, Applicant, "member", r, lag)
           \/ /\ MayActOn(a, "member", lag) /\ Requested(Applicant, r, lag)
              /\ UNCHANGED membershipVars
        /\ appStatus' = "approved" /\ appRequest' = r
        /\ Dispatch(r, filing)
        /\ UNCHANGED <<requestFields, filingVars>>

ApproveMember(a) ==
    /\ contact /\ appStatus = "pending"
    /\ \E lag \in CallLags : BeginForMember(a, Applicant, lag)
    /\ appStatus' = "invited"
    /\ UNCHANGED <<requestFields, worker, filingVars, appRequest>>

(* An approval sent again: it finds the invitation over, or starts another  *)
(* worker.                                                                  *)
InvitationMade(r) == reqStatus[r] = "finalized" \/ provState[r] = "provisioned"

InvitationOver(r) ==
    reqStatus[r] = "cancelled" \/ provState[r] \in {"terminal_failed", "compensating"}

ApproveAgain(a) ==
    /\ Reviewable(a) /\ appStatus = "approved"
    /\ IF InvitationMade(appRequest)
       THEN appStatus' = "invited" /\ UNCHANGED worker
       ELSE IF InvitationOver(appRequest)
       THEN appStatus' = "cancelled" /\ UNCHANGED worker
       ELSE Dispatch(appRequest, filing) /\ UNCHANGED appStatus
    /\ UNCHANGED <<membershipVars, requestFields, filingVars, appRequest>>
-----------------------------------------------------------------------------
(* claim_member_invitation_provisioning.                                    *)
Close(r, state) ==
    /\ reqStatus' = [reqStatus EXCEPT ![r] = IF @ = "requested" THEN "cancelled" ELSE @]
    /\ provState' = [provState EXCEPT ![r] = state]
    /\ lease' = [lease EXCEPT ![r] = FALSE]
    /\ IF reqStatus[r] = "requested"
       THEN Apply(OnRequestClosed(Ledger, r, memStatus, memVia, "none"))
       ELSE UNCHANGED seatVars
    /\ UNCHANGED <<memberVars, reqEmail, reqRole, reqBy, reqUser, clock,
                   deviceVars, sessionVars>>

Claiming(w) == worker[w].step = "claim"

ClaimAnswered(w) ==
    LET r == worker[w].req IN
    /\ Claiming(w)
    /\ \/ InvitationMade(r) /\ Conclude(w, "invited")
       \/ /\ ~InvitationMade(r)
          /\ \/ reqStatus[r] # "requested" \/ ~LiveNow(r, "none")
             \/ InviterValid(r) /\ provState[r] \in {"compensating", "terminal_failed"}
          /\ Conclude(w, "cancelled")
       \/ /\ ~InvitationMade(r) /\ reqStatus[r] = "requested" /\ LiveNow(r, "none")
          /\ InviterValid(r) /\ provState[r] = "leased" /\ lease[r]
          /\ Conclude(w, "retryable")
    /\ UNCHANGED <<membershipVars, requestFields, appVars>>

Claimable(r) ==
    /\ ~InvitationMade(r) /\ reqStatus[r] = "requested" /\ LiveNow(r, "none")
    /\ InviterValid(r)
    /\ provState[r] \in {"pending", "retryable", "leased"} /\ ~lease[r]

ClaimRefused(w) ==
    LET r == worker[w].req IN
    /\ Claiming(w)
    /\ \/ /\ ~InvitationMade(r) /\ reqStatus[r] = "requested" /\ LiveNow(r, "none")
          /\ ~InviterValid(r)
       \/ Claimable(r) /\ claims[r] >= MaxAttempts
    /\ Close(r, "terminal_failed")
    /\ attempt' = [attempt EXCEPT ![r] = 0]
    /\ Conclude(w, "cancelled")
    /\ UNCHANGED <<claims, appVars>>

Claim(w) ==
    LET r == worker[w].req IN
    /\ Claiming(w) /\ Claimable(r) /\ claims[r] < MaxAttempts
    /\ provState' = [provState EXCEPT ![r] = "leased"]
    /\ claims' = [claims EXCEPT ![r] = @ + 1]
    /\ attempt' = [attempt EXCEPT ![r] = claims[r] + 1]
    /\ lease' = [lease EXCEPT ![r] = TRUE]
    /\ worker' = [worker EXCEPT ![w] = [@ EXCEPT !.step = "invite", !.attempt = claims[r] + 1]]
    /\ UNCHANGED <<membershipVars, appVars>>

LeaseEnds(r) ==
    /\ lease[r]
    /\ lease' = [lease EXCEPT ![r] = FALSE]
    /\ UNCHANGED <<membershipVars, provState, attempt, claims, worker, appVars>>

(* inviteUserByEmail.  The service creates the account through the hook, or *)
(* finds one, or fails before or after creating it.                         *)
InviteAddress(w) ==
    LET e == reqEmail[worker[w].req]
        Answer(result, made) ==
            worker' = [worker EXCEPT ![w] =
                [@ EXCEPT !.step = "finish", !.result = result, !.made = made]]
    IN
    /\ worker[w].step = "invite"
    /\ \/ AdmitsAccount(e) /\ SignUp(e) /\ Answer("created", TRUE)
       \/ AdmitsAccount(e) /\ SignUp(e) /\ Answer("failed", FALSE)
       \/ e \in accounts /\ Answer("exists", FALSE) /\ UNCHANGED membershipVars
       \/ Answer("failed", FALSE) /\ UNCHANGED membershipVars
       \/ e \notin accounts /\ Answer("invalid", FALSE) /\ UNCHANGED membershipVars
    /\ UNCHANGED <<requestFields, appVars>>

(* finish_member_invitation_provisioning, under the attempt that was        *)
(* claimed.                                                                 *)
Holds(w) ==
    LET r == worker[w].req
    IN  provState[r] = "leased" /\ attempt[r] = worker[w].attempt

(* Mutant: applied is taken for provisioned. *)
OutcomeApplied(result) == IF result = "invalid" THEN "cancelled" ELSE "invited"

OutcomeOf(result) ==
    CASE result = "failed" -> "retryable"
      [] result = "invalid" -> "cancelled"
      [] OTHER -> "invited"

FinishStale(w) ==
    /\ worker[w].step = "finish" /\ ~Holds(w)
    /\ Conclude(w, IF worker[w].result = "invalid" THEN "cancelled" ELSE "retryable")
    /\ UNCHANGED <<membershipVars, requestFields, appVars>>

StillOpen(r) == reqStatus[r] = "requested" /\ LiveNow(r, "none") /\ InviterValid(r)

Finish(w) ==
    LET r == worker[w].req
        result == worker[w].result
        state == IF result = "failed" /\ reqStatus[r] # "finalized"
                 THEN "retryable" ELSE "provisioned"
    IN
    /\ worker[w].step = "finish" /\ Holds(w)
    /\ reqStatus[r] = "finalized" \/ (StillOpen(r) /\ result # "invalid")
    /\ provState' = [provState EXCEPT ![r] = state]
    /\ attempt' = [attempt EXCEPT ![r] = 0]
    /\ lease' = [lease EXCEPT ![r] = FALSE]
    /\ Conclude(w, OutcomeOf(result))
    /\ UNCHANGED <<membershipVars, claims, appVars>>

(* The invitation closed, expired or lost its inviter while the worker      *)
(* waited, or the address is no address.                                    *)
FinishClosed(w) ==
    LET r == worker[w].req
        compensate == worker[w].result = "created" /\ ~StillOpen(r)
    IN
    /\ worker[w].step = "finish" /\ Holds(w) /\ reqStatus[r] # "finalized"
    /\ ~StillOpen(r) \/ worker[w].result = "invalid"
    /\ Close(r, IF compensate THEN "compensating" ELSE "terminal_failed")
    /\ attempt' = [attempt EXCEPT ![r] = IF compensate THEN attempt[r] ELSE 0]
    /\ IF compensate THEN Proceed(w, "compensate") ELSE Conclude(w, "cancelled")
    /\ UNCHANGED <<claims, appVars>>

(* The account the worker created is deleted, or the call fails.            *)
Compensate(w) ==
    LET e == reqEmail[worker[w].req] IN
    /\ worker[w].step = "compensate"
    /\ \/ worker[w].made /\ e \in accounts /\ DeleteAccount(e)
       \/ UNCHANGED membershipVars
    /\ Proceed(w, "record")
    /\ UNCHANGED <<requestFields, appVars>>

(* record_member_invitation_compensation.  An error it answers is not       *)
(* looked at.                                                               *)
RecordCompensation(w) ==
    LET r == worker[w].req
        mine == provState[r] = "compensating" /\ attempt[r] = worker[w].attempt
    IN
    /\ worker[w].step = "record"
    /\ \/ /\ provState' = [provState EXCEPT ![r] = IF mine THEN "terminal_failed" ELSE @]
          /\ attempt' = [attempt EXCEPT ![r] = IF mine THEN 0 ELSE @]
       \/ UNCHANGED <<provState, attempt>>
    /\ Conclude(w, "cancelled")
    /\ UNCHANGED <<membershipVars, claims, lease, appVars>>

(* finish_access_application_invitation.                                    *)
FinishApplication(w) ==
    /\ worker[w].step = "conclude"
    /\ IF /\ filing = worker[w].app
          /\ appStatus = "approved" /\ appRequest = worker[w].req
          /\ worker[w].outcome # "retryable"
       THEN appStatus' = worker[w].outcome ELSE UNCHANGED appStatus
    /\ worker' = [worker EXCEPT ![w] = Done]
    /\ UNCHANGED <<membershipVars, requestFields, filingVars, appRequest>>

(* The worker stops, or a call of it fails and it tells the application     *)
(* that the invitation may be tried again.                                  *)
Stop(w) ==
    /\ worker[w].step # "idle"
    /\ \/ worker' = [worker EXCEPT ![w] = Done]
       \/ worker[w].step \in {"claim", "finish"} /\ Conclude(w, "retryable")
    /\ UNCHANGED <<membershipVars, requestFields, appVars>>
-----------------------------------------------------------------------------
Work(w) ==
    \/ ClaimAnswered(w) \/ ClaimRefused(w) \/ Claim(w) \/ InviteAddress(w)
    \/ FinishStale(w) \/ Finish(w) \/ FinishClosed(w)
    \/ Compensate(w) \/ RecordCompensation(w) \/ FinishApplication(w) \/ Stop(w)

Administer(a) ==
    \/ \E lag \in CallLags : Manage(a, lag) /\ UNCHANGED <<requestFields, worker, appVars>>
    \/ \E e \in Users : InviteMember(a, e) \/ InviteNew(a, e) \/ InviteAgain(a, e)
    \/ Reject(a) \/ Approve(a) \/ ApproveMember(a) \/ ApproveAgain(a)

ProvisioningNext ==
    \/ \E w \in Workers : Work(w)
    \/ \E a \in Users : Administer(a)
    \/ \E r \in Invitations : LeaseEnds(r)
    \/ /\ (\E u \in Users : Join(u)) \/ Connect \/ (\E r \in Invitations : Expire(r))
       /\ UNCHANGED <<requestFields, worker, appVars>>

ProvisioningSpec == ProvisioningInit /\ [][ProvisioningNext]_provisioningVars
-----------------------------------------------------------------------------
(* An application is called invited only if its invitation went out or was  *)
(* accepted, or has expired since: no stale or repeated worker reports one  *)
(* that did not (0023:600-656, provisioning.mjs).                           *)
InvitedWasInvited ==
    appStatus = "invited" /\ appRequest # Nobody
        => \/ provState[appRequest] = "provisioned" \/ reqUser[appRequest] # Nobody
           \/ reqStatus[appRequest] = "cancelled" /\ clock[appRequest] # "live"

(* "Never delete a user whose membership has already been finalized and     *)
(* activated" (0022:275-277).                                               *)
SparesMembers == removed = {}
=============================================================================
