------------------------------ MODULE Casework ------------------------------
(***************************************************************************)
(* From a rule hit to an alert and from an alert to a case, on one device  *)
(* (materialize_rule_hits and triage_alert in v9/service.py).  The two run *)
(* under _workflow_lock; PUT /records does not take it, so an alert can    *)
(* change while it is being triaged.  record_refs remembers which record   *)
(* came of what; records and references are written one after the other,   *)
(* and the program may stop in between.                                    *)
(***************************************************************************)
EXTENDS Integers, FiniteSets

CONSTANTS Alerts, Cases,       \* identifiers of records to come
          Desks,               \* calls under way at once
          MaxEdits,            \* bound: versions of an alert
          MaxStops             \* bound: times the program stops

NoRef == "none"

ASSUME CaseworkAssumption == NoRef \notin Alerts \cup Cases \cup Desks

VARIABLES alert,       \* the alerts: version 0 before there is one
          cases,       \* the cases that exist, each with its alert
          hitRef,      \* record_refs "alert_hit" of the one rule hit
          caseRef,     \* record_refs "alert_case"
          desk,        \* what each call has read and does next
          workflowLock,
          stops

caseworkVars == <<alert, cases, hitRef, caseRef, desk, workflowLock, stops>>

Away == [step |-> "idle"]
NoAlert == [version |-> 0, status |-> "none", case |-> NoRef]

CaseworkInit ==
    /\ alert = [a \in Alerts |-> NoAlert]
    /\ cases = {}
    /\ hitRef = NoRef /\ caseRef = [a \in Alerts |-> NoRef]
    /\ desk = [t \in Desks |-> Away]
    /\ workflowLock = NoRef /\ stops = 0

Exists(a) == alert[a].version > 0
Write(t, next) == desk' = [desk EXCEPT ![t] = next]

Lock(t) == workflowLock = NoRef /\ workflowLock' = t
Unlock(t) == workflowLock' = NoRef /\ Write(t, Away)
-----------------------------------------------------------------------------
(* materialize_rule_hits, for one hit.                                      *)
(* Mutant: the reference is looked up before the lock is taken. *)
MaterializeUnlocked(t) ==
    /\ desk[t] = Away /\ hitRef = NoRef
    /\ Write(t, [step |-> "hit"])
    /\ UNCHANGED <<alert, cases, hitRef, caseRef, workflowLock, stops>>

Materialize(t) ==
    /\ desk[t] = Away /\ hitRef = NoRef
    /\ Lock(t) /\ Write(t, [step |-> "hit"])
    /\ UNCHANGED <<alert, cases, hitRef, caseRef, stops>>

CreateAlert(t) ==
    \E a \in Alerts :
        /\ desk[t].step = "hit" /\ ~Exists(a)
        /\ alert' = [alert EXCEPT ![a] = [version |-> 1, status |-> "new", case |-> NoRef]]
        /\ Write(t, [step |-> "hitRef", alert |-> a])
        /\ UNCHANGED <<cases, hitRef, caseRef, workflowLock, stops>>

PutHitRef(t) ==
    /\ desk[t].step = "hitRef"
    /\ hitRef' = IF hitRef = NoRef THEN desk[t].alert ELSE hitRef
    /\ Unlock(t)
    /\ UNCHANGED <<alert, cases, caseRef, stops>>
-----------------------------------------------------------------------------
(* triage_alert, sent for the version the alert has: an older one is        *)
(* refused and changes nothing.                                             *)
Triage(t, a, action) ==
    /\ desk[t] = Away /\ Exists(a) /\ alert[a].version < MaxEdits
    /\ Lock(t)
    /\ Write(t, IF action = "converted"
                THEN [step |-> "convert", alert |-> a, read |-> alert[a]]
                ELSE [step |-> "update", alert |-> a, read |-> alert[a],
                      content |-> [status |-> action, case |-> alert[a].case]])
    /\ UNCHANGED <<alert, cases, hitRef, caseRef, stops>>

Converted(t, c) ==
    [step |-> "update", alert |-> desk[t].alert, read |-> desk[t].read,
     content |-> [status |-> "converted", case |-> c]]

ReuseCase(t) ==
    /\ desk[t].step = "convert" /\ caseRef[desk[t].alert] # NoRef
    /\ Write(t, Converted(t, caseRef[desk[t].alert]))
    /\ UNCHANGED <<alert, cases, hitRef, caseRef, workflowLock, stops>>

CreateCase(t) ==
    \E c \in Cases :
        /\ desk[t].step = "convert" /\ caseRef[desk[t].alert] = NoRef
        /\ \A x \in cases : x.id # c
        /\ cases' = cases \cup {[id |-> c, alert |-> desk[t].alert]}
        /\ Write(t, [step |-> "caseRef", alert |-> desk[t].alert, read |-> desk[t].read,
                     case |-> c])
        /\ UNCHANGED <<alert, hitRef, caseRef, workflowLock, stops>>

PutCaseRef(t) ==
    LET a == desk[t].alert IN
    /\ desk[t].step = "caseRef"
    /\ caseRef' = [caseRef EXCEPT ![a] = IF @ = NoRef THEN desk[t].case ELSE @]
    /\ Write(t, Converted(t, desk[t].case))
    /\ UNCHANGED <<alert, cases, hitRef, workflowLock, stops>>

(* PUT /records, of the alert as the client read it but for its text.       *)
Edit(t, a) ==
    /\ desk[t] = Away /\ Exists(a) /\ alert[a].version < MaxEdits
    /\ Write(t, [step |-> "update", alert |-> a, read |-> alert[a],
                 content |-> [status |-> alert[a].status, case |-> alert[a].case]])
    /\ UNCHANGED <<alert, cases, hitRef, caseRef, workflowLock, stops>>

(* update_record: the version is compared, and then the candidate is        *)
(* written without comparing it again.                                      *)
LeaveDesk(t) ==
    /\ Write(t, Away)
    /\ workflowLock' = IF workflowLock = t THEN NoRef ELSE workflowLock

CompareVersion(t) ==
    /\ desk[t].step = "update"
    /\ alert[desk[t].alert].version = desk[t].read.version
    /\ Write(t, [desk[t] EXCEPT !.step = "put"])
    /\ UNCHANGED <<alert, cases, hitRef, caseRef, workflowLock, stops>>

VersionConflict(t) ==
    /\ desk[t].step = "update"
    /\ alert[desk[t].alert].version # desk[t].read.version
    /\ LeaveDesk(t)
    /\ UNCHANGED <<alert, cases, hitRef, caseRef, stops>>

Put(t) ==
    /\ desk[t].step = "put"
    /\ alert' = [alert EXCEPT ![desk[t].alert] =
           [version |-> desk[t].read.version + 1, status |-> desk[t].content.status,
            case |-> desk[t].content.case]]
    /\ LeaveDesk(t)
    /\ UNCHANGED <<cases, hitRef, caseRef, stops>>

(* The program stops and starts again: what was under way is gone.          *)
Restart ==
    /\ stops < MaxStops /\ stops' = stops + 1
    /\ desk' = [t \in Desks |-> Away] /\ workflowLock' = NoRef
    /\ UNCHANGED <<alert, cases, hitRef, caseRef>>
-----------------------------------------------------------------------------
CaseworkNext ==
    \/ \E t \in Desks :
        \/ Materialize(t) \/ CreateAlert(t) \/ PutHitRef(t)
        \/ \E a \in Alerts : \/ Edit(t, a)
                             \/ \E action \in {"triaged", "converted"} : Triage(t, a, action)
        \/ ReuseCase(t) \/ CreateCase(t) \/ PutCaseRef(t)
        \/ CompareVersion(t) \/ VersionConflict(t) \/ Put(t)
    \/ Restart

CaseworkSpec == CaseworkInit /\ [][CaseworkNext]_caseworkVars
-----------------------------------------------------------------------------
(* However calls interleave, a hit becomes one alert and an alert one case, *)
(* but for one more each time the program stopped between the record and    *)
(* its reference; and the case an alert names is the one its reference      *)
(* names, whichever update of the alert came last and however often it was  *)
(* converted (service.py:2063-2120).                                        *)
OneCasePerAlert ==
    /\ Cardinality({a \in Alerts : Exists(a)}) <= 1 + stops
    /\ \A a \in Alerts : Cardinality({x \in cases : x.alert = a}) <= 1 + stops
    /\ \A a \in Alerts : alert[a].case # NoRef
          => caseRef[a] = alert[a].case /\ [id |-> alert[a].case, alert |-> a] \in cases

(* "Stale versions are refused before a case is produced, so that           *)
(* concurrent operations leave no orphan case"                              *)
(* (docs/V9_P3_GRAPH_ALERT_CASE.md:29): once nothing is under way and the   *)
(* program never stopped, every case is named by its alert.                 *)
NoOrphanCase ==
    (\A t \in Desks : desk[t] = Away) /\ stops = 0
        => \A x \in cases : alert[x.alert].case = x.id
=============================================================================
