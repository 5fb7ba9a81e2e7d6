--------------------------- MODULE RecordHistory ---------------------------
(***************************************************************************)
(* What the synchronisation cloud promises its clients, without SQL: each  *)
(* record has one line of accepted versions with a tip, competing edits    *)
(* are kept as branches beside it, and nothing a client handed over ever   *)
(* disappears.  SyncCloud is shown to implement this specification.        *)
(***************************************************************************)

CONSTANTS Records,      \* the records of one organization
          VersionIds,   \* the identifiers clients draw for versions
          Null          \* no version

VARIABLES tip,        \* tip[r]: the version readers of r see, or Null
          history,    \* history[r]: every version r's tip has been at
          branches,   \* branches[r]: versions kept beside the line of r
          settled     \* settled[r]: branches an explicit decision has closed

vars == <<tip, history, branches, settled>>

Init ==
  /\ tip = [r \in Records |-> Null]
  /\ history = [r \in Records |-> {}]
  /\ branches = [r \in Records |-> {}]
  /\ settled = [r \in Records |-> {}]

\* Versions already handed over for r, on the line or beside it.
Known(r) == history[r] \cup branches[r]

\* The line of r grows by a version nobody has used for r.
Extend(r, v) ==
  /\ v \notin Known(r)
  /\ tip' = [tip EXCEPT ![r] = v]
  /\ history' = [history EXCEPT ![r] = @ \cup {v}]
  /\ UNCHANGED <<branches, settled>>

\* A version that does not follow the tip is kept beside the line.
Fork(r, v) ==
  /\ tip[r] # Null
  /\ v \notin Known(r)
  /\ branches' = [branches EXCEPT ![r] = @ \cup {v}]
  /\ UNCHANGED <<tip, history, settled>>

\* A branch is closed in favour of the version the tip is at; the decision
\* may itself be a new version that becomes the tip.
Settle(r, b, v) ==
  /\ b \in branches[r] \ settled[r]
  /\ \/ v = tip[r] /\ UNCHANGED <<tip, history>>
     \/ /\ v \notin Known(r)
        /\ tip' = [tip EXCEPT ![r] = v]
        /\ history' = [history EXCEPT ![r] = @ \cup {v}]
  /\ settled' = [settled EXCEPT ![r] = @ \cup {b}]
  /\ UNCHANGED branches

Next ==
  \E r \in Records, v \in VersionIds :
     \/ Extend(r, v)
     \/ Fork(r, v)
     \/ \E b \in VersionIds : Settle(r, b, v)

Spec == Init /\ [][Next]_vars

=============================================================================
