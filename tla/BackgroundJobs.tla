---------------------------- MODULE BackgroundJobs ----------------------------
(***************************************************************************)
(* The background jobs of the local application: a capture of sources for  *)
(* a consulting session (consulting_agent.py) and a draft of a report      *)
(* (report_agent.py), which app.py runs in two thread pools in the same    *)
(* way.  A request creates the job's row and hands it to the pool; a       *)
(* worker claims it and calls a model or a search one phase at a time,     *)
(* each phase and what it saves under the lock of the job's stripe; a      *)
(* second request cancels or blocks it and answers only after it held      *)
(* that lock once.  A process that stops fails what was under way when it  *)
(* starts again.  The module is one of the two kinds of job: the kinds     *)
(* differ in their numbers and in whether a failure may be retried.        *)
(***************************************************************************)
EXTENDS Integers, Sequences, SequencesExt, FiniteSets

CONSTANTS Jobs,              \* identifiers of job rows
          Owners,            \* the projects, or sessions, jobs belong to
          JobKeys,           \* idempotency keys of the client
          NoKey,             \* a request without one
          Callers,           \* the threads that serve requests
          Threads,           \* the threads of the pool
          Stripes,           \* the locks of the process
          StripeOf,          \* the lock of a job
          Nobody,            \* a lock that is free
          NoJob,
          Capacity,          \* submissions of the pool, running or waiting
          MaxPhases,         \* rounds of one run
          FailureRetryable   \* whether a failed run may be retried

ASSUME JobsAssumption ==
  /\ NoKey \notin JobKeys /\ NoJob \notin Jobs /\ Nobody \notin Threads
  /\ Capacity \in Nat \ {0} /\ MaxPhases \in Nat \ {0}
  /\ FailureRetryable \subseteq BOOLEAN
  /\ StripeOf \in [Jobs -> Stripes]

VARIABLES jobRow,      \* the rows of the table
          caller,      \* what each request thread does next, to which job
          waiting,     \* the pool's queue
          thread,      \* what each thread of the pool does next
          stripe,      \* who holds each lock
          inFlight,    \* slots of the submission guard that are taken
          jobAnswered     \* jobs for which a control request was answered

jobVars == <<jobRow, caller, waiting, thread, stripe, inFlight, jobAnswered>>

Absent == [status |-> "absent", owner |-> NoJob, key |-> NoKey, retryable |-> FALSE]
Resting == [pc |-> "idle", job |-> NoJob]
Free == [pc |-> "idle", job |-> NoJob, phases |-> 0]

Pending == {"queued", "running", "cancel_requested", "block_requested"}
Terminal(status) == IF status = "cancel_requested" THEN "cancelled" ELSE "blocked"
Controlled(status) == status \in {"cancel_requested", "block_requested"}

ActiveOf(o) == {j \in Jobs : jobRow[j].owner = o /\ jobRow[j].status \in Pending}

JobsInit ==
  /\ jobRow = [j \in Jobs |-> Absent]
  /\ caller = [q \in Callers |-> Resting]
  /\ waiting = <<>>
  /\ thread = [w \in Threads |-> Free]
  /\ stripe = [s \in Stripes |-> Nobody]
  /\ inFlight = 0
  /\ jobAnswered = {}

---------------------------------------------------------------------------
(* The rows: every update is a transaction that reads the row again. *)

SetJob(j, status, retry) ==
  jobRow' = [jobRow EXCEPT ![j].status = status, ![j].retryable = retry]

(* The end a thread writes: one that comes after a control request only *)
(* acknowledges it, and one that is no transition of the row is refused. *)
EndJob(j, status, retry) ==
  LET now == jobRow[j].status IN
  CASE Controlled(now) -> SetJob(j, Terminal(now), FALSE)
    [] now = "running" \/ (now = "queued" /\ status = "failed") ->
         SetJob(j, status, IF status = "failed" THEN retry ELSE jobRow[j].retryable)
    [] OTHER -> UNCHANGED jobRow

Checkpoint(j) ==
  IF Controlled(jobRow[j].status) THEN SetJob(j, Terminal(jobRow[j].status), FALSE)
                                  ELSE UNCHANGED jobRow

---------------------------------------------------------------------------
(* The requests. *)

Serve(q, pc, j) == caller' = [caller EXCEPT ![q] = [pc |-> pc, job |-> j]]
Served(q) == caller' = [caller EXCEPT ![q] = Resting]

(* A new row, unless the key has one already (which is then the answer) or *)
(* another job of the owner is still pending (which is an error). *)
Create(q, j, o, k) ==
  /\ caller[q] = Resting
  /\ jobRow[j] = Absent
  /\ k # NoKey => ~ \E i \in Jobs : jobRow[i].owner = o /\ jobRow[i].key = k
  /\ ActiveOf(o) = {}
  /\ jobRow' = [jobRow EXCEPT ![j] =
       [status |-> "queued", owner |-> o, key |-> k, retryable |-> FALSE]]
  /\ Serve(q, "submit", j)
  /\ UNCHANGED <<waiting, thread, stripe, inFlight, jobAnswered>>

RetryJob(q, j) ==
  /\ caller[q] = Resting
  /\ jobRow[j].status = "failed" /\ jobRow[j].retryable
  /\ ActiveOf(jobRow[j].owner) = {}
  /\ SetJob(j, "queued", FALSE)
  /\ Serve(q, "submit", j)
  /\ UNCHANGED <<waiting, thread, stripe, inFlight, jobAnswered>>

(* The guard gives a slot or refuses at once; it never waits. *)
SubmitJob(q) ==
  /\ caller[q].pc = "submit"
  /\ IF inFlight < Capacity
       THEN /\ inFlight' = inFlight + 1
            /\ waiting' = Append(waiting, caller[q].job)
            /\ Served(q)
       ELSE Serve(q, "refuse", caller[q].job) /\ UNCHANGED <<waiting, inFlight>>
  /\ UNCHANGED <<jobRow, thread, stripe, jobAnswered>>

QueueFull(q) ==
  /\ caller[q].pc = "refuse"
  /\ EndJob(caller[q].job, "failed", TRUE)
  /\ Served(q)
  /\ UNCHANGED <<waiting, thread, stripe, inFlight, jobAnswered>>

(* A job that nobody claimed yet ends here; a running one is asked to end; *)
(* to ask again changes nothing and is answered again. *)
Control(q, j, asked) ==
  LET now == jobRow[j].status IN
  /\ caller[q] = Resting
  /\ now \in {"queued", "running", asked, Terminal(asked)}
  /\ CASE now = "queued" -> SetJob(j, Terminal(asked), FALSE)
       [] now = "running" -> SetJob(j, asked, FALSE)
       [] OTHER -> UNCHANGED jobRow
  /\ Serve(q, "barrier", j)
  /\ UNCHANGED <<waiting, thread, stripe, inFlight, jobAnswered>>

(* Mutant: the answer does not wait for the phase under way. *)
BarrierAtOnce(q) ==
  /\ caller[q].pc = "barrier"
  /\ jobAnswered' = jobAnswered \cup {caller[q].job}
  /\ Served(q)
  /\ UNCHANGED <<jobRow, waiting, thread, stripe, inFlight>>

(* The request holds the stripe once before it answers. *)
Barrier(q) ==
  LET j == caller[q].job IN
  /\ caller[q].pc = "barrier"
  /\ stripe[StripeOf[j]] = Nobody
  /\ jobAnswered' = jobAnswered \cup {j}
  /\ Served(q)
  /\ UNCHANGED <<jobRow, waiting, thread, stripe, inFlight>>

---------------------------------------------------------------------------
(* The threads of the pool. *)

Do(w, pc) == thread' = [thread EXCEPT ![w].pc = pc]
Unlock(w) == stripe' = [s \in Stripes |-> IF stripe[s] = w THEN Nobody ELSE stripe[s]]

TakeUp(w) ==
  /\ thread[w] = Free
  /\ waiting # <<>>
  /\ thread' = [thread EXCEPT ![w] = [pc |-> "claim", job |-> Head(waiting), phases |-> 0]]
  /\ waiting' = Tail(waiting)
  /\ UNCHANGED <<jobRow, caller, stripe, inFlight, jobAnswered>>

ClaimJob(w) ==
  LET j == thread[w].job IN
  /\ thread[w].pc = "claim"
  /\ IF jobRow[j].status = "queued"
       THEN SetJob(j, "running", jobRow[j].retryable) /\ Do(w, "lock")
       ELSE UNCHANGED jobRow /\ Do(w, "leave")
  /\ UNCHANGED <<caller, waiting, stripe, inFlight, jobAnswered>>

TakeStripe(w) ==
  LET s == StripeOf[thread[w].job] IN
  /\ thread[w].pc = "lock"
  /\ stripe[s] = Nobody
  /\ stripe' = [stripe EXCEPT ![s] = w]
  /\ Do(w, "check")
  /\ UNCHANGED <<jobRow, caller, waiting, inFlight, jobAnswered>>

(* The last look at the row before the call, with the lock in hand. *)
Authorize(w) ==
  LET j == thread[w].job IN
  /\ thread[w].pc = "check"
  /\ Checkpoint(j)
  /\ IF jobRow[j].status = "running" THEN Do(w, "call") /\ UNCHANGED stripe
                                     ELSE Do(w, "leave") /\ Unlock(w)
  /\ UNCHANGED <<caller, waiting, inFlight, jobAnswered>>

(* The call answered: its result is saved, and then named in the job's row. *)
SaveResult(w) ==
  /\ thread[w].pc = "call"
  /\ Do(w, "note")
  /\ UNCHANGED <<jobRow, caller, waiting, stripe, inFlight, jobAnswered>>

NoteResult(w) ==
  /\ thread[w].pc = "note"
  /\ thread' = [thread EXCEPT ![w].pc = "between", ![w].phases = @ + 1]
  /\ Unlock(w)
  /\ UNCHANGED <<jobRow, caller, waiting, inFlight, jobAnswered>>

(* The target is reached or the rounds are used up, or there is one more. *)
Between(w) ==
  LET j == thread[w].job IN
  /\ thread[w].pc = "between"
  /\ Checkpoint(j)
  /\ IF jobRow[j].status # "running" THEN Do(w, "leave")
     ELSE \/ Do(w, "finish")
          \/ thread[w].phases < MaxPhases /\ Do(w, "lock")
  /\ UNCHANGED <<caller, waiting, stripe, inFlight, jobAnswered>>

FinishJob(w) ==
  /\ thread[w].pc = "finish"
  /\ EndJob(thread[w].job, "done", FALSE)
  /\ Do(w, "leave")
  /\ UNCHANGED <<caller, waiting, stripe, inFlight, jobAnswered>>

(* Anything may raise: the lock is let go on the way to the handler. *)
Raise(w) ==
  /\ thread[w].pc \in {"claim", "lock", "check", "call", "note", "between"}
  /\ Do(w, "handle")
  /\ Unlock(w)
  /\ UNCHANGED <<jobRow, caller, waiting, inFlight, jobAnswered>>

HandleFailure(w) ==
  /\ thread[w].pc = "handle"
  /\ \E retry \in FailureRetryable : EndJob(thread[w].job, "failed", retry)
  /\ Do(w, "leave")
  /\ UNCHANGED <<caller, waiting, stripe, inFlight, jobAnswered>>

Leave(w) ==
  /\ thread[w].pc = "leave"
  /\ inFlight' = inFlight - 1
  /\ thread' = [thread EXCEPT ![w] = Free]
  /\ UNCHANGED <<jobRow, caller, waiting, stripe, jobAnswered>>

---------------------------------------------------------------------------
(* The process stops with everything in memory; the first call of the next *)
(* one ends every row that was pending before it reads any. *)

Recovered(row) ==
  CASE Controlled(row.status) -> [row EXCEPT !.status = Terminal(row.status), !.retryable = FALSE]
    [] row.status \in {"queued", "running"} -> [row EXCEPT !.status = "failed", !.retryable = TRUE]
    [] OTHER -> row

Restart ==
  /\ jobRow' = [j \in Jobs |-> Recovered(jobRow[j])]
  /\ caller' = [q \in Callers |-> Resting]
  /\ waiting' = <<>>
  /\ thread' = [w \in Threads |-> Free]
  /\ stripe' = [s \in Stripes |-> Nobody]
  /\ inFlight' = 0
  /\ UNCHANGED jobAnswered

JobsNext ==
  \/ \E q \in Callers :
       \/ \E j \in Jobs : \/ \E o \in Owners, k \in JobKeys \cup {NoKey} : Create(q, j, o, k)
                          \/ RetryJob(q, j)
                          \/ \E asked \in {"cancel_requested", "block_requested"} :
                               Control(q, j, asked)
       \/ SubmitJob(q) \/ QueueFull(q) \/ Barrier(q)
  \/ \E w \in Threads :
       \/ TakeUp(w) \/ ClaimJob(w) \/ TakeStripe(w) \/ Authorize(w) \/ SaveResult(w) \/ NoteResult(w)
       \/ Between(w) \/ FinishJob(w) \/ Raise(w) \/ HandleFailure(w) \/ Leave(w)
  \/ Restart

JobsSpec == JobsInit /\ [][JobsNext]_jobVars

---------------------------------------------------------------------------
(* Once a request to cancel or block a job has been answered, no call of  *)
(* the job is under way and none of its results is still to be saved, and *)
(* so it stays whatever the threads of the pool had read before.          *)
BarrierHolds ==
  \A j \in jobAnswered, w \in Threads :
    thread[w].job = j => thread[w].pc \notin {"call", "note"}

Carriers(j) ==
  Cardinality({q \in Callers : caller[q].job = j /\ caller[q].pc \in {"submit", "refuse"}})
  + Cardinality({i \in DOMAIN waiting : waiting[i] = j})
  + Cardinality({w \in Threads : thread[w].job = j /\ thread[w].pc # "leave"})

(* A pending job keeps every other job of its owner out, so something must *)
(* be on its way to end it: exactly one of a request that submits it, its *)
(* place in the queue and a thread; and an owner has at most one.  The    *)
(* guard counts what the pool holds, and no more than its capacity.       *)
PendingIsCarried ==
  /\ \A j \in Jobs : jobRow[j].status \in Pending => Carriers(j) = 1
  /\ \A o \in Owners : Cardinality(ActiveOf(o)) <= 1
  /\ inFlight = Len(waiting) + Cardinality({w \in Threads : thread[w] # Free})
  /\ inFlight <= Capacity

=============================================================================
