------------------------------ MODULE AgentJobs ------------------------------
(***************************************************************************)
(* One agent job of a device: transition_agent_job in v9/orchestration.py  *)
(* and its callers in v9/service.py.  A call reads the job, computes the   *)
(* next content from what it read (an execution asks the model in          *)
(* between), compares the version and writes.  No lock is held, and the    *)
(* write does not compare the version again.  A job is an ordinary record: *)
(* a client may also write one as it likes (POST and PUT /records), and a  *)
(* pull may replace it by what another device has stored.                  *)
(***************************************************************************)
EXTENDS Integers, Sequences

CONSTANTS Clerks,          \* calls under way at once
          JobContents,     \* what may come from outside: state, phase and gate
          MaxJobVersion    \* bound

JobPhases == <<"collect", "close_read", "outline", "draft", "verify">>

JobStates == {"queued", "running", "waiting_user", "failed", "cancelled", "succeeded"}

ASSUME JobContentsAssumption ==
    JobContents \subseteq [state : JobStates, phase : 1 .. 5,
                           gate : {"none", "outline", "release"}]

VARIABLES job,      \* the record: its version and its content
          clerk     \* what each call has read and does next

jobVars == <<job, clerk>>

(* done stands for the history: the phases that were advanced from, the     *)
(* gates that were approved, and whether a content came from outside.       *)
NewJob == [version |-> 1, state |-> "queued", phase |-> 1, gate |-> "none", done |-> {}]

Outside(x) ==
    [version |-> 1, state |-> x.state, phase |-> x.phase, gate |-> x.gate,
     done |-> {"outside"} \cup
              (IF x.state = "succeeded" THEN {"succeeded_outside"} ELSE {})]

NoCall == [step |-> "idle", read |-> NewJob, content |-> NewJob]

(* create_agent_job, or POST /records with the type "job".                  *)
JobsInit ==
    /\ job \in {NewJob} \cup {Outside(x) : x \in JobContents}
    /\ clerk = [c \in Clerks |-> NoCall]
-----------------------------------------------------------------------------
(* transition_agent_job: which actions a job admits, and what it becomes.   *)
JobActions == {"start", "advance", "approve_outline", "approve_release",
               "fail", "resume", "cancel"}

(* Mutant: any gate may be approved for release. *)
AdmitsAnyGate(j, action) ==
    CASE action = "start" -> j.state = "queued"
      [] action = "advance" -> j.state = "running"
      [] action = "approve_outline" -> j.state = "waiting_user" /\ j.gate = "outline"
      [] action = "approve_release" -> j.state = "waiting_user"
      [] action = "resume" -> j.state = "failed"
      [] OTHER -> j.state \notin {"failed", "cancelled", "succeeded"}

Admits(j, action) ==
    CASE action = "start" -> j.state = "queued"
      [] action = "advance" -> j.state = "running"
      [] action = "approve_outline" -> j.state = "waiting_user" /\ j.gate = "outline"
      [] action = "approve_release" -> j.state = "waiting_user" /\ j.gate = "release"
      [] action = "resume" -> j.state = "failed"
      [] OTHER -> j.state \notin {"failed", "cancelled", "succeeded"}

GateAfter(phase) ==
    CASE JobPhases[phase] = "outline" -> "outline"
      [] JobPhases[phase] = "verify" -> "release"
      [] OTHER -> "none"

Advanced(j) ==
    LET advanced == j.done \cup {JobPhases[j.phase]}
    IN  IF GateAfter(j.phase) = "none"
        THEN [j EXCEPT !.phase = @ + 1, !.done = advanced]
        ELSE [j EXCEPT !.state = "waiting_user", !.gate = GateAfter(j.phase),
                       !.done = advanced]

(* A failure keeps the phase and the gate, and resuming goes back to the    *)
(* queue.                                                                   *)
After(j, action) ==
    CASE action = "start" -> [j EXCEPT !.state = "running"]
      [] action = "advance" -> Advanced(j)
      [] action = "approve_outline" ->
             [j EXCEPT !.state = "running", !.phase = 4, !.gate = "none",
                       !.done = @ \cup {"approve_outline"}]
      [] action = "approve_release" ->
             [j EXCEPT !.state = "succeeded", !.gate = "none",
                       !.done = @ \cup {"approve_release"}]
      [] action = "fail" -> [j EXCEPT !.state = "failed"]
      [] action = "resume" -> [j EXCEPT !.state = "queued"]
      [] action = "cancel" -> [j EXCEPT !.state = "cancelled", !.gate = "none"]
-----------------------------------------------------------------------------
(* control_agent_job. *)
Control(c, action) ==
    /\ clerk[c].step = "idle" /\ job.version < MaxJobVersion
    /\ Admits(job, action)
    /\ clerk' = [clerk EXCEPT ![c] =
           [step |-> "update", read |-> job, content |-> After(job, action)]]
    /\ UNCHANGED job

(* execute_agent_job_phase: the executor answers or fails, and the answer   *)
(* is applied to the job as it was read.                                    *)
Execute(c) ==
    /\ clerk[c].step = "idle" /\ job.version < MaxJobVersion
    /\ job.state = "running"
    /\ clerk' = [clerk EXCEPT ![c] = [step |-> "execute", read |-> job, content |-> job]]
    /\ UNCHANGED job

Executed(c) ==
    /\ clerk[c].step = "execute"
    /\ \E action \in {"advance", "fail"} :
           clerk' = [clerk EXCEPT ![c].step = "update",
                                  ![c].content = After(clerk[c].read, action)]
    /\ UNCHANGED job

(* PUT /records/<id>: "job" is no workflow type, so a client's content      *)
(* takes the path of the computed ones, with the version the client read.   *)
WriteRecord(c, x) ==
    /\ clerk[c].step = "idle" /\ job.version < MaxJobVersion
    /\ clerk' = [clerk EXCEPT ![c] =
           [step |-> "update", read |-> job, content |-> Outside(x)]]
    /\ UNCHANGED job

(* apply_remote_event: a newer version is stored as it comes.  (With a      *)
(* change of its own still unsent, the device keeps it aside as a conflict; *)
(* the outbox is not part of this module.)                                  *)
ApplyRemote(c, x) ==
    /\ clerk[c].step = "idle" /\ job.version < MaxJobVersion
    /\ clerk' = [clerk EXCEPT ![c] =
           [step |-> "put", read |-> job, content |-> Outside(x)]]
    /\ UNCHANGED job

(* update_record. *)
PrepareJob(c) ==
    /\ clerk[c].step = "update" /\ job.version = clerk[c].read.version
    /\ clerk' = [clerk EXCEPT ![c].step = "put"]
    /\ UNCHANGED job

JobConflict(c) ==
    /\ clerk[c].step = "update" /\ job.version # clerk[c].read.version
    /\ clerk' = [clerk EXCEPT ![c] = NoCall]
    /\ UNCHANGED job

PutJob(c) ==
    /\ clerk[c].step = "put"
    /\ job' = [clerk[c].content EXCEPT !.version = clerk[c].read.version + 1]
    /\ clerk' = [clerk EXCEPT ![c] = NoCall]
-----------------------------------------------------------------------------
JobsNext ==
    \E c \in Clerks :
        \/ \E action \in JobActions : Control(c, action)
        \/ \E x \in JobContents : WriteRecord(c, x) \/ ApplyRemote(c, x)
        \/ Execute(c) \/ Executed(c) \/ PrepareJob(c) \/ JobConflict(c) \/ PutJob(c)

JobsSpec == JobsInit /\ [][JobsNext]_jobVars
-----------------------------------------------------------------------------
(* "Without evidence checks and human gates nothing goes into release"      *)
(* (docs/V9_P4_LOCAL_AGENTS_SCENARIOS.md:56), as far as the code goes:      *)
(* whatever calls, client writes and pulls store over each other, failures  *)
(* and resumptions included, a content that only transition_agent_job has   *)
(* made went through all five phases and both gates if it succeeded, and    *)
(* through the outline's if it drafts; and even after a content from        *)
(* outside, a job succeeds by the release gate alone, unless that content   *)
(* itself said that it had.                                                 *)
NothingSkipped ==
    /\ "outside" \notin job.done =>
           /\ \A p \in 1 .. job.phase - 1 : JobPhases[p] \in job.done
           /\ job.phase > 3 => "approve_outline" \in job.done
           /\ job.state = "succeeded" => {"verify", "approve_release"} \subseteq job.done
    /\ job.state = "succeeded" =>
           {"approve_release", "succeeded_outside"} \cap job.done # {}
=============================================================================
