-------------------------- MODULE AccessRetention --------------------------
(***************************************************************************)
(* The life of an access application around Provisioning: anyone may file  *)
(* one, within the daily limit of the address; a service purges what is    *)
(* too old (migrations 0023 and 0028, purge-access-applications.sh).  An   *)
(* application that was decided loses the address, and the same address    *)
(* may then file anew while workers of the earlier application are under   *)
(* way.                                                                    *)
(***************************************************************************)
EXTENDS Provisioning

CONSTANTS MaxFilings,    \* bound: applications of the address
          EmailLimit     \* filings of an address in a day: 3

ASSUME RetentionAssumption ==
    MaxFilings \in Nat \ {0} /\ EmailLimit \in Nat \ {0}

VARIABLES age,           \* since created_at of a pending application, since
                         \* reviewed_at of an approved one
          filedToday     \* email_day bucket of the address

retentionVars == <<provisioningVars, age, filedToday>>

(* A pending application is "over" after 29 days; an approved one is "late" *)
(* after the grace of 5 minutes and "over" after 24 hours.                  *)
Ages == {"new", "late", "over"}

RetentionInit == ProvisioningInit /\ age = "new" /\ filedToday = 1
-----------------------------------------------------------------------------
(* submit_access_application.  A refused filing counts nothing.  Another    *)
(* filing of an address that is on file counts and changes no decision.     *)
Accepted == filedToday < EmailLimit

File ==
    /\ Accepted
    /\ filedToday' = filedToday + 1
    /\ IF contact THEN UNCHANGED <<filingVars, appStatus, appRequest, age>>
       ELSE /\ filing' = filing + 1 /\ filing < MaxFilings
            /\ contact' = TRUE
            /\ appStatus' = "pending" /\ appRequest' = Nobody
            /\ age' = "new"
    /\ UNCHANGED <<membershipVars, requestFields, worker>>

NewDay ==
    /\ filedToday > 0
    /\ filedToday' = 0
    /\ UNCHANGED <<provisioningVars, age>>

GrowOlder ==
    /\ contact /\ appStatus \in {"pending", "approved"}
    /\ \/ appStatus = "approved" /\ age = "new" /\ age' = "late"
       \/ age # "over" /\ (appStatus = "approved" => age = "late") /\ age' = "over"
    /\ UNCHANGED <<provisioningVars, filedToday>>
-----------------------------------------------------------------------------
(* purge_access_application_data.                                           *)
Leased(r) == provState[r] = "leased" /\ lease[r]

Lapsing == {r \in Invitations : reqStatus[r] = "requested" /\ ~LiveNow(r, "none")}

Overdue == {u \in Users : memStatus[u] = "invited" /\ ~LiveNow(memVia[u], "none")}

(* An approval is a bounded hand-off: it ends after the grace unless a      *)
(* worker holds its invitation, and after a day in any case.                *)
StaleApproval ==
    /\ appStatus = "approved"
    /\ \/ age = "over"
       \/ age = "late" /\ ~(appRequest \notin Lapsing /\ reqStatus[appRequest] = "requested"
                            /\ Leased(appRequest))

Closing ==
    Lapsing \cup (IF StaleApproval /\ reqStatus[appRequest] = "requested"
                  THEN {appRequest} ELSE {})

StatusAfterPurge ==
    CASE StaleApproval -> "cancelled"
      [] appStatus = "pending" /\ age = "over" -> "deleted"
      [] OTHER -> appStatus

(* Mutant: contacts are purged before stale approvals are closed. *)
ForgetsFirst == appStatus \notin {"pending", "approved"} \/ StatusAfterPurge = "deleted"

Forgets == StatusAfterPurge \notin {"pending", "approved"}

(* Mutant: the fence of a live lease goes with the request. *)
FenceDropped(r) == TRUE

FenceGoes(r) == ~Leased(r)

(* The requests that close give their seats back and the memberships that    *)
(* end have none to give: no membership came of a request that is still     *)
(* open, and an overdue one counts no longer.                               *)
Purge ==
    /\ memStatus' = [u \in Users |-> IF u \in Overdue THEN "revoked" ELSE memStatus[u]]
    /\ reqStatus' = [r \in Invitations |-> IF r \in Closing THEN "cancelled" ELSE reqStatus[r]]
    /\ seat' = [k \in Keys |-> IF k \in Closing THEN "free" ELSE seat[k]]
    /\ used' = AtLeastZero(used - Cardinality({r \in Closing : seat[r] # "free"}))
    /\ provState' = [r \in Invitations |->
                        IF r \in Closing /\ FenceGoes(r) THEN "terminal_failed" ELSE provState[r]]
    /\ attempt' = [r \in Invitations |-> IF r \in Closing /\ FenceGoes(r) THEN 0 ELSE attempt[r]]
    /\ lease' = [r \in Invitations |-> lease[r] /\ ~(r \in Closing /\ FenceGoes(r))]
    /\ appStatus' = StatusAfterPurge
    /\ contact' = (contact /\ ~Forgets)
    /\ appRequest' = IF Forgets THEN Nobody ELSE appRequest
    /\ age' = IF Forgets THEN "new" ELSE age
    /\ UNCHANGED <<accounts, memRole, memVia, removed, reqEmail, reqRole, reqBy, reqUser,
                   clock, deviceVars, sessionVars, claims, worker, filing, filedToday>>
-----------------------------------------------------------------------------
(* A decision starts the clock of the hand-off, and its end stops it.       *)
AgeOfDecision == age' = IF appStatus' = appStatus THEN age ELSE "new"

Provision == ProvisioningNext /\ AgeOfDecision /\ UNCHANGED filedToday

Retain == File \/ NewDay \/ GrowOlder \/ Purge

RetentionNext == Provision \/ Retain

RetentionSpec == RetentionInit /\ [][RetentionNext]_retentionVars
-----------------------------------------------------------------------------
(* While the lease of an attempt runs, nobody but its own worker ends it:   *)
(* whatever closes the invitation, the worker that may have created an      *)
(* account still finds its attempt and can undo it (0028:213-238, 279-305). *)
(* An account deleted under a member who had invited others leaves their    *)
(* requests without an inviter, and the next claim of one ends its lease.   *)
LeaseIsItsWorkers ==
    [][\A r \in Invitations : removed = {} /\ lease[r] /\ ~lease'[r]
         => \/ provState'[r] = "leased"
            \/ \E w \in Workers : /\ worker[w].req = r /\ worker[w].step = "finish"
                                  /\ worker[w].attempt = attempt[r]
                                  /\ worker'[w].step # "finish"]_retentionVars

(* The address outlives no purge, but in an application that waits for its  *)
(* decision or for the worker that has just been handed its invitation      *)
(* (0028:252-347).                                                          *)
AddressIsForgotten ==
    [][Purge => (contact' => \/ appStatus' = "pending" /\ age # "over"
                             \/ /\ appStatus' = "approved"
                                /\ age = "new" \/ (age = "late" /\ lease'[appRequest']))]_retentionVars
=============================================================================
