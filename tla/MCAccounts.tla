----------------------------- MODULE MCAccounts -----------------------------
(***************************************************************************)
(* The accounts on a small instance: two addresses, one of them the        *)
(* founder's.                                                              *)
(***************************************************************************)
EXTENDS AccessRetention, TLC

(* Bounds: two invitations are followed as long as no worker is needed, and *)
(* one is enough for two workers to meet.  Two invitations are to roles     *)
(* that manage.  Once a worker is needed nobody's session ends, so no call  *)
(* is that of one who was revoked while it waited; a decision that calls no *)
(* worker leaves the workers as they were; workers know nothing of devices. *)
NoWorkYet ==
    /\ \A w \in Workers : worker[w] = Done
    /\ \A r \in Invitations : provState[r] = "pending"
    /\ appStatus = "pending" /\ filing = 1 /\ age = "new"
    /\ \/ \E r \in Invitations : reqStatus[r] = "none"
       \/ \A r \in Invitations : reqRole[r] # "member"

Worked == CHOOSE r \in Invitations : TRUE

OneInvitation ==
    /\ contact /\ appStatus \in {"approved", "invited", "cancelled"} => appRequest # Nobody
    /\ appStatus # "rejected"
    /\ \A r \in Invitations : reqStatus[r] # "none" => r = Worked
    /\ \A r \in Invitations : reqRole[r] = "member"
    /\ \A s \in Sessions : sessStatus[s] = IF s = FounderSession THEN "active" ELSE "unbound"
    /\ \A d \in Devices : devStatus[d] = IF d = FounderDevice THEN "active" ELSE "none"

Busy == {w \in Workers : worker[w] # Done}

AccountsNext ==
    \/ /\ NoWorkYet /\ MembershipNext
       /\ UNCHANGED <<requestFields, worker, appVars, age, filedToday>>
    \/ OneInvitation /\ Provision
    \/ /\ OneInvitation /\ Cardinality(Busy) <= 1
       /\ Retain /\ (contact => filedToday' >= filedToday)

(* Two workers meet over the first application while it is new and nothing  *)
(* is purged; with an older or later one there is one worker, and no call   *)
(* waits for the lock.  The second application is a new one, of an address  *)
(* that is no invited member.  Days pass while the address is not on file.  *)
OneAtLaterTimes ==
    \/ filing = 1 /\ contact /\ age = "new"
    \/ /\ Cardinality(Busy) <= 1
       /\ \A r \in Invitations : clock[r] # "closing"
       /\ filing = 1 \/ (age = "new" /\ \A v \in Users : memStatus[v] \in {"none", "active"})

AccountsBound == NoWorkYet \/ (OneInvitation /\ OneAtLaterTimes)

AccountsSpec == RetentionInit /\ [][AccountsNext]_retentionVars

(* A bound for one worker that is late: nothing expires and nothing is      *)
(* filed or purged.                                                         *)
NothingExpires ==
    /\ filing = 1 /\ contact /\ age = "new" /\ filedToday = 1
    /\ \A r \in Invitations : reqRole[r] = "member" /\ clock[r] = "live"
    /\ appStatus = "pending"

Symmetry == Permutations(Workers)
=============================================================================
