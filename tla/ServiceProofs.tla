---------------------------- MODULE ServiceProofs ----------------------------
(***************************************************************************)
(* Proofs about the parts of the service that share no state: the agent    *)
(* jobs of a device, the WeChat publications, the alerts and cases, the    *)
(* events of the Feishu webhook, and the daily budgets.                    *)
(***************************************************************************)
EXTENDS AgentJobs, WechatLedger, Casework, FeishuWebhook, DailyBudgets,
        FiniteSetTheorems, SequenceTheorems, TLAPS

-----------------------------------------------------------------------------
(* Agent jobs.                                                              *)

Milestones == {"collect", "close_read", "outline", "draft", "verify",
               "approve_outline", "approve_release", "outside", "succeeded_outside"}

Job == [version : Nat, state : JobStates, phase : 1 .. 5,
        gate : {"none", "outline", "release"}, done : SUBSET Milestones]

(* What a content of the orchestration has behind it: a gate that stands    *)
(* open was reached by its phase, and a later phase by all the earlier ones.*)
Gated(j) ==
    /\ \A p \in 1 .. 5 : p < j.phase => JobPhases[p] \in j.done
    /\ j.phase > 3 => "approve_outline" \in j.done
    /\ j.gate = "outline" => j.phase = 3 /\ "outline" \in j.done
    /\ j.gate = "release" => j.phase = 5 /\ "verify" \in j.done
    /\ j.state = "succeeded" => {"verify", "approve_release"} \subseteq j.done

Succeeded(j) ==
    j.state = "succeeded" => {"approve_release", "succeeded_outside"} \cap j.done # {}

Earned(j) ==
    /\ j \in Job /\ Succeeded(j)
    /\ "outside" \notin j.done => Gated(j)

CallSteps == {"idle", "execute", "update", "put"}

(* A write may replace what another call wrote, so not only the job but     *)
(* what every call has read and is about to write must have earned it.      *)
JobsInv ==
    /\ Earned(job)
    /\ clerk \in [Clerks -> [step : CallSteps, read : Job, content : Job]]
    /\ \A c \in Clerks : Earned(clerk[c].read) /\ Earned(clerk[c].content)

LEMMA PhaseNames ==
    /\ JobPhases[1] = "collect" /\ JobPhases[2] = "close_read"
    /\ JobPhases[3] = "outline" /\ JobPhases[4] = "draft" /\ JobPhases[5] = "verify"
    /\ \A p \in 1 .. 5 : JobPhases[p] \in Milestones
  BY DEF JobPhases, Milestones

LEMMA NewJobEarned == Earned(NewJob)
  BY DEF Earned, Gated, Succeeded, NewJob, Job, JobStates, Milestones

LEMMA OutsideEarned ==
  ASSUME NEW x \in JobContents
  PROVE  Earned(Outside(x))
<1>1. x \in [state : JobStates, phase : 1 .. 5, gate : {"none", "outline", "release"}]
  BY JobContentsAssumption
<1>2. PICK S : S = {"outside"} \cup
                   (IF x.state = "succeeded" THEN {"succeeded_outside"} ELSE {})
  OBVIOUS
<1>3. /\ S \in SUBSET Milestones /\ "outside" \in S
      /\ x.state = "succeeded" => "succeeded_outside" \in S
  BY <1>2 DEF Milestones
<1>4. PICK k : k = [version |-> 1, state |-> x.state, phase |-> x.phase,
                    gate |-> x.gate, done |-> S]
  OBVIOUS
<1>5. k \in Job /\ k.done = S /\ k.state = x.state
  BY <1>1, <1>3, <1>4 DEF Job
<1>6. Outside(x) = k
  BY <1>2, <1>4 DEF Outside
<1> QED
  BY <1>3, <1>5, <1>6 DEF Earned, Succeeded

(* A phase that is advanced from is noted, and opens the gate it has.       *)
LEMMA AdvancedEarned ==
  ASSUME NEW j, Earned(j)
  PROVE  Earned(Advanced(j))
<1> DEFINE advanced == j.done \cup {JobPhases[j.phase]}
<1>1. j \in Job /\ advanced \in SUBSET Milestones
  BY PhaseNames DEF Earned, Gated, Succeeded, Job
<1>2. CASE j.phase \in {1, 2, 4}
  <2>1. GateAfter(j.phase) = "none"
    BY <1>2, PhaseNames DEF GateAfter
  <2>2. PICK k : k = [j EXCEPT !.phase = j.phase + 1, !.done = advanced]
    OBVIOUS
  <2>3. Advanced(j) = k
    BY <2>1, <2>2 DEF Advanced
  <2>b. j.phase + 1 \in 1 .. 5
    BY <1>1, <1>2 DEF Job
  <2>4. /\ k \in Job /\ k.phase = j.phase + 1 /\ k.done = advanced
        /\ k.state = j.state /\ k.gate = j.gate
    <3>1. PICK n \in 1 .. 5 : n = j.phase + 1
      BY <2>b
    <3>2. PICK S \in SUBSET Milestones : S = advanced
      BY <1>1
    <3>3. k = [j EXCEPT !.phase = n, !.done = S]
      BY <2>2, <3>1, <3>2
    <3>4. k \in Job
      BY <1>1, <3>3 DEF Job
    <3>5. k.phase = n /\ k.done = S /\ k.state = j.state /\ k.gate = j.gate
      BY <1>1, <3>3 DEF Job
    <3> QED
      BY <3>1, <3>2, <3>4, <3>5
  <2>5. "outside" \notin j.done =>
            \A p \in 1 .. 5 : p < j.phase + 1 => JobPhases[p] \in advanced
    BY <1>2 DEF Earned, Gated, Succeeded
  <2>6. "outside" \notin j.done => j.gate = "none"
    BY <1>1, <1>2 DEF Earned, Gated, Succeeded, Job
  <2> QED
    BY <1>2, <2>3, <2>4, <2>5, <2>6 DEF Earned, Gated, Succeeded
<1>3. CASE j.phase \in {3, 5}
  <2>1. GateAfter(j.phase) = IF j.phase = 3 THEN "outline" ELSE "release"
    BY <1>3, PhaseNames DEF GateAfter
  <2>2. PICK k : k = [j EXCEPT !.state = "waiting_user", !.gate = GateAfter(j.phase),
                               !.done = advanced]
    OBVIOUS
  <2>3. Advanced(j) = k
    BY <1>3, <2>1, <2>2 DEF Advanced
  <2>4. /\ k \in Job /\ k.phase = j.phase /\ k.done = advanced
        /\ k.state = "waiting_user" /\ k.gate = GateAfter(j.phase)
    BY <1>1, <1>3, <2>1, <2>2 DEF Job, JobStates
  <2> QED
    BY <1>1, <1>3, <2>1, <2>3, <2>4, PhaseNames DEF Earned, Gated, Succeeded, Job
<1> QED
  BY <1>1, <1>2, <1>3 DEF Job

LEMMA AfterEarned ==
  ASSUME NEW j, Earned(j), NEW action \in JobActions,
         action \in {"approve_outline", "approve_release"} => Admits(j, action)
  PROVE  Earned(After(j, action))
<1>1. j \in Job
  BY DEF Earned, Gated, Succeeded
<1>2. CASE action = "advance"
  BY <1>2, AdvancedEarned DEF After
<1>3. CASE action = "approve_outline"
  <2>1. PICK k : k = [j EXCEPT !.state = "running", !.phase = 4, !.gate = "none",
                               !.done = @ \cup {"approve_outline"}]
    OBVIOUS
  <2>2. After(j, action) = k
    BY <1>3, <2>1 DEF After
  <2>3. /\ k \in Job /\ k.phase = 4 /\ k.done = j.done \cup {"approve_outline"}
        /\ k.state = "running" /\ k.gate = "none"
    <3>1. j.done \cup {"approve_outline"} \in SUBSET Milestones
      BY <1>1 DEF Job, Milestones
    <3>2. PICK S \in SUBSET Milestones : S = j.done \cup {"approve_outline"}
      BY <3>1
    <3>3. k = [j EXCEPT !.state = "running", !.phase = 4, !.gate = "none", !.done = S]
      BY <2>1, <3>2
    <3>4. PICK open : open = [j EXCEPT !.state = "running", !.gate = "none"]
      OBVIOUS
    <3>5. open \in Job /\ open.state = "running" /\ open.gate = "none"
      BY <1>1, <3>4 DEF Job, JobStates
    <3>6. k = [open EXCEPT !.phase = 4, !.done = S]
      BY <1>1, <3>3, <3>4 DEF Job
    <3>7. k \in Job
      <4>1. PICK n \in 1 .. 5 : n = 4
        OBVIOUS
      <4>2. k = [open EXCEPT !.phase = n, !.done = S]
        BY <3>6, <4>1
      <4> QED
        BY <3>5, <4>2 DEF Job
    <3>8. k.phase = 4 /\ k.done = S
      BY <3>5, <3>6 DEF Job
    <3>9. k.state = open.state /\ k.gate = open.gate
      BY <3>5, <3>6 DEF Job
    <3> QED
      BY <3>2, <3>5, <3>7, <3>8, <3>9
  <2>4. "outside" \notin j.done => j.phase = 3 /\ "outline" \in j.done
    BY <1>3 DEF Admits, Earned, Gated, Succeeded
  <2>5. "outside" \notin j.done =>
            \A p \in 1 .. 5 : p < 4 => JobPhases[p] \in j.done \cup {"approve_outline"}
    BY <2>4, PhaseNames DEF Earned, Gated, Succeeded
  <2> QED
    BY <2>2, <2>3, <2>5 DEF Earned, Gated, Succeeded
<1>4. CASE action = "approve_release"
  <2>1. PICK k : k = [j EXCEPT !.state = "succeeded", !.gate = "none",
                               !.done = @ \cup {"approve_release"}]
    OBVIOUS
  <2>2. After(j, action) = k
    BY <1>4, <2>1 DEF After
  <2>3. /\ k \in Job /\ k.phase = j.phase /\ k.done = j.done \cup {"approve_release"}
        /\ k.state = "succeeded" /\ k.gate = "none"
    BY <1>1, <2>1 DEF Job, JobStates, Milestones
  <2>4. "outside" \notin j.done => j.phase = 5 /\ "verify" \in j.done
    BY <1>4 DEF Admits, Earned, Gated, Succeeded
  <2> QED
    BY <2>2, <2>3, <2>4 DEF Earned, Gated, Succeeded
<1>5. CASE action \in {"start", "fail", "resume"}
  <2>1. PICK s \in {"running", "failed", "queued"} : After(j, action) = [j EXCEPT !.state = s]
    BY <1>5 DEF After
  <2>2. PICK k : k = [j EXCEPT !.state = s]
    OBVIOUS
  <2>3. k \in Job /\ k.phase = j.phase /\ k.done = j.done /\ k.state = s /\ k.gate = j.gate
    BY <1>1, <2>2 DEF Job, JobStates
  <2> QED
    BY <2>1, <2>2, <2>3 DEF Earned, Gated, Succeeded
<1>6. CASE action = "cancel"
  <2>1. PICK k : k = [j EXCEPT !.state = "cancelled", !.gate = "none"]
    OBVIOUS
  <2>2. After(j, action) = k
    BY <1>6, <2>1 DEF After
  <2>3. /\ k \in Job /\ k.phase = j.phase /\ k.done = j.done
        /\ k.state = "cancelled" /\ k.gate = "none"
    BY <1>1, <2>1 DEF Job, JobStates
  <2> QED
    BY <2>2, <2>3 DEF Earned, Gated, Succeeded
<1> QED
  BY <1>2, <1>3, <1>4, <1>5, <1>6 DEF JobActions

LEMMA JobsInvInit == JobsInit => JobsInv
  BY NewJobEarned, OutsideEarned DEF JobsInit, JobsInv, NoCall, CallSteps, Earned

LEMMA JobsInvNext == JobsInv /\ [JobsNext]_jobVars => JobsInv'
<1> SUFFICES ASSUME JobsInv, [JobsNext]_jobVars PROVE JobsInv'
  OBVIOUS
<1> USE DEF CallSteps
<1>1. ASSUME NEW c \in Clerks, NEW action \in JobActions, Control(c, action) PROVE JobsInv'
  <2>1. Earned(job) /\ Admits(job, action)
    BY <1>1 DEF Control, JobsInv
  <2>2. PICK k : k = After(job, action)
    OBVIOUS
  <2>3. Earned(k)
    BY <1>1, <2>1, <2>2, AfterEarned
  <2>4. clerk' = [clerk EXCEPT ![c] = [step |-> "update", read |-> job, content |-> k]]
    BY <1>1, <2>2 DEF Control
  <2> QED
    BY <1>1, <2>1, <2>3, <2>4 DEF Control, JobsInv, Earned
<1>2. ASSUME NEW c \in Clerks, Execute(c) PROVE JobsInv'
  BY <1>2 DEF Execute, JobsInv, Earned
<1>3. ASSUME NEW c \in Clerks, Executed(c) PROVE JobsInv'
  <2>1. PICK action \in {"advance", "fail"} :
            clerk' = [clerk EXCEPT ![c].step = "update",
                                   ![c].content = After(clerk[c].read, action)]
    BY <1>3 DEF Executed
  <2>2. PICK k : k = After(clerk[c].read, action)
    OBVIOUS
  <2>3. Earned(k)
    BY <1>3, <2>1, <2>2, AfterEarned DEF JobsInv, JobActions
  <2>4. clerk' = [clerk EXCEPT ![c] = [clerk[c] EXCEPT !.step = "update", !.content = k]]
    BY <2>1, <2>2
  <2>5. PICK x : x = [clerk[c] EXCEPT !.step = "update", !.content = k]
    OBVIOUS
  <2>6. /\ x \in [step : CallSteps, read : Job, content : Job]
        /\ x.read = clerk[c].read /\ x.content = k
    BY <1>3, <2>3, <2>5 DEF JobsInv, Earned
  <2>7. clerk' = [clerk EXCEPT ![c] = x]
    BY <2>4, <2>5
  <2>8. job' = job
    BY <1>3 DEF Executed
  <2> QED
    BY <1>3, <2>3, <2>6, <2>7, <2>8 DEF JobsInv
<1>4. ASSUME NEW c \in Clerks, PrepareJob(c) PROVE JobsInv'
  BY <1>4 DEF PrepareJob, JobsInv
<1>5. ASSUME NEW c \in Clerks, JobConflict(c) PROVE JobsInv'
  BY <1>5, NewJobEarned DEF JobConflict, JobsInv, NoCall, Earned
<1>6. ASSUME NEW c \in Clerks, PutJob(c) PROVE JobsInv'
  <2>1. PICK k : k = [clerk[c].content EXCEPT !.version = clerk[c].read.version + 1]
    OBVIOUS
  <2>2. Earned(k)
    BY <2>1, <1>6 DEF JobsInv, Earned, Gated, Succeeded, Job
  <2>3. job' = k
    BY <1>6, <2>1 DEF PutJob
  <2> QED
    BY <1>6, <2>2, <2>3, NewJobEarned DEF PutJob, JobsInv, NoCall, Earned
<1>7. ASSUME NEW c \in Clerks, NEW x \in JobContents,
             WriteRecord(c, x) \/ ApplyRemote(c, x)
      PROVE  JobsInv'
  <2>1. Earned(job)
    BY DEF JobsInv
  <2>2. PICK k : k = Outside(x)
    OBVIOUS
  <2>3. Earned(k)
    BY <1>7, <2>2, OutsideEarned
  <2>4. PICK step \in {"update", "put"} :
            clerk' = [clerk EXCEPT ![c] = [step |-> step, read |-> job, content |-> k]]
    BY <1>7, <2>2 DEF WriteRecord, ApplyRemote
  <2>5. job' = job
    BY <1>7 DEF WriteRecord, ApplyRemote
  <2> QED
    BY <1>7, <2>1, <2>3, <2>4, <2>5 DEF JobsInv, Earned
<1>8. CASE UNCHANGED jobVars
  BY <1>8 DEF jobVars, JobsInv
<1> QED
  BY <1>1, <1>2, <1>3, <1>4, <1>5, <1>6, <1>7, <1>8 DEF JobsNext

(* Whatever calls read, compute and write over each other, the job and      *)
(* everything that may yet replace it have earned their phase and gate, or  *)
(* go back to a content from outside, which is known of them.               *)
THEOREM JobsInvHolds == JobsSpec => []JobsInv
<1>1. JobsInit => JobsInv
  BY JobsInvInit
<1>2. JobsInv /\ [JobsNext]_jobVars => JobsInv'
  BY JobsInvNext
<1> QED
  BY <1>1, <1>2, PTL DEF JobsSpec

(* No content of the orchestration reaches a later phase or success without *)
(* every earlier phase and the approvals of both gates, and none at all     *)
(* succeeds by a transition other than the approval of its release, for any *)
(* number of calls and versions and whatever clients and other devices      *)
(* store in between (transition_agent_job in v9/orchestration.py).          *)
THEOREM NothingIsSkipped == JobsSpec => []NothingSkipped
<1>1. JobsInv => NothingSkipped
  <2> SUFFICES ASSUME JobsInv PROVE NothingSkipped
    OBVIOUS
  <2>1. job \in Job /\ Succeeded(job)
    BY DEF JobsInv, Earned
  <2>2. ASSUME "outside" \notin job.done
        PROVE  /\ \A p \in 1 .. job.phase - 1 : JobPhases[p] \in job.done
               /\ job.phase > 3 => "approve_outline" \in job.done
               /\ job.state = "succeeded" =>
                      {"verify", "approve_release"} \subseteq job.done
    BY <2>1, <2>2 DEF JobsInv, Earned, Gated, Job
  <2> QED
    BY <2>1, <2>2 DEF Succeeded, NothingSkipped
<1> QED
  BY <1>1, JobsInvHolds, PTL

-----------------------------------------------------------------------------
(* The WeChat ledger.                                                       *)

RowStates == {"absent", "review_pending", "submitting", "uncertain", "drafted",
              "submitted", "pending_approval", "verified", "failed"}

(* There is a row as soon as a claim is held, and a run never saves the     *)
(* state of there being none.                                               *)
ClaimInv ==
    /\ DOMAIN run = Runs
    /\ {"state", "owner"} \subseteq DOMAIN row
    /\ row.state = "absent" => row.owner = NoRun
    /\ \A p \in Runs : run[p].step = "save" => run[p].state # "absent"

LEMMA AmendedField ==
  ASSUME NEW r, NEW fields, NEW f \in DOMAIN fields
  PROVE  Amended(r, fields)[f] = fields[f]
  BY DEF Amended

LEMMA ToMovesOne ==
  ASSUME NEW p \in Runs, NEW fields, DOMAIN run = Runs, To(p, fields),
         "step" \in DOMAIN fields
  PROVE  /\ DOMAIN run' = Runs
         /\ \A q \in Runs : q # p => run'[q] = run[q]
         /\ run'[p].step = fields.step
         /\ \A f \in DOMAIN fields : run'[p][f] = fields[f]
  BY AmendedField DEF To

(* A run that does not go on to save keeps the invariant, the row aside.    *)
LEMMA NotSaving ==
  ASSUME ClaimInv, NEW p \in Runs, DOMAIN run' = Runs,
         \A q \in Runs : q # p => run'[q] = run[q],
         run'[p].step = "save" => run'[p].state # "absent",
         {"state", "owner"} \subseteq DOMAIN row',
         row'.state = "absent" => row'.owner = NoRun
  PROVE  ClaimInv'
  BY DEF ClaimInv

LEMMA ToKeeps ==
  ASSUME ClaimInv, NEW p \in Runs, NEW fields, To(p, fields), "step" \in DOMAIN fields,
         fields.step = "save" => "state" \in DOMAIN fields /\ fields.state # "absent",
         {"state", "owner"} \subseteq DOMAIN row',
         row'.state = "absent" => row'.owner = NoRun
  PROVE  ClaimInv'
<1>1. DOMAIN run = Runs
  BY DEF ClaimInv
<1>2. /\ DOMAIN run' = Runs
      /\ \A q \in Runs : q # p => run'[q] = run[q]
      /\ \A f \in DOMAIN fields : run'[p][f] = fields[f]
  BY <1>1, ToMovesOne
<1>3. run'[p].step = "save" => run'[p].state # "absent"
  BY <1>2
<1> QED
  BY <1>2, <1>3, NotSaving

LEMMA OverKeeps ==
  ASSUME ClaimInv, NEW p \in Runs, NEW over,
         run' = [run EXCEPT ![p] = over], over.step # "save",
         {"state", "owner"} \subseteq DOMAIN row',
         row'.state = "absent" => row'.owner = NoRun
  PROVE  ClaimInv'
  BY DEF ClaimInv

LEMMA OnwardSaves ==
  ASSUME NEW delivery, NEW enabled, NEW media, NEW post
  PROVE  LET next == Onward(delivery, enabled, media, post)
         IN  /\ "step" \in DOMAIN next
             /\ next.step = "save" => "state" \in DOMAIN next /\ next.state # "absent"
  BY DEF Onward

LEMMA ReservedUnowned ==
  ASSUME ClaimInv, NEW text, NEW delivery
  PROVE  LET record == Reserved(text, delivery)
         IN  /\ {"state", "owner"} \subseteq DOMAIN record
             /\ record.state = "absent" => record.owner = NoRun
             /\ record.owner = row.owner \/ row.owner = NoRun
  BY DEF Reserved, NoRow, ClaimInv

LEMMA ClaimInvInit == WechatInit => ClaimInv
  BY DEF WechatInit, ClaimInv, NoRow, Over

(* What a step may do to a claim.                                           *)
ClaimKept ==
    row.owner # NoRun /\ row'.owner # row.owner
        => row'.owner = NoRun /\ run[row.owner].step \in {"complete", "doubt"}

LEMMA ClaimStep ==
  ASSUME ClaimInv, [WechatNext]_wechatVars
  PROVE  ClaimInv' /\ ClaimKept
<1> USE DEF ClaimKept
<1>1. ASSUME NEW p \in Runs, NEW text, NEW delivery, NEW enabled,
             StartRun(p, text, delivery, enabled)
      PROVE  ClaimInv' /\ ClaimKept
  <2>1. PICK record : record = Reserved(text, delivery)
    OBVIOUS
  <2>2. PICK next :
          next = Onward(delivery, enabled, record.media, Seen(delivery, record))
    OBVIOUS
  <2>3. PICK fields :
          fields = Amended([text |-> text, delivery |-> delivery, enabled |-> enabled,
                            media |-> record.media, post |-> Seen(delivery, record)], next)
    OBVIOUS
  <2>4. row' = record /\ To(p, fields)
    BY <1>1, <2>1, <2>2, <2>3 DEF StartRun
  <2>5. /\ "step" \in DOMAIN next
        /\ next.step = "save" => "state" \in DOMAIN next /\ next.state # "absent"
    BY <2>2, OnwardSaves
  <2>6. /\ DOMAIN next \subseteq DOMAIN fields
        /\ \A f \in DOMAIN next : fields[f] = next[f]
    BY <2>3 DEF Amended
  <2>7. DOMAIN run = Runs
    BY DEF ClaimInv
  <2>8. /\ DOMAIN run' = Runs
        /\ \A q \in Runs : q # p => run'[q] = run[q]
        /\ \A f \in DOMAIN fields : run'[p][f] = fields[f]
    BY <2>4, <2>5, <2>6, <2>7, ToMovesOne
  <2>9. run'[p].step = "save" => run'[p].state # "absent"
    BY <2>5, <2>6, <2>8
  <2>10. /\ {"state", "owner"} \subseteq DOMAIN record
         /\ record.state = "absent" => record.owner = NoRun
         /\ record.owner = row.owner \/ row.owner = NoRun
    BY <2>1, ReservedUnowned
  <2> QED
    BY <2>4, <2>8, <2>9, <2>10, NotSaving
<1>2. ASSUME NEW p \in Runs, ClaimSubmission(p) PROVE ClaimInv' /\ ClaimKept
  <2>1. PICK fields : fields = [step |-> "submit"]
    OBVIOUS
  <2>2. To(p, fields) /\ "step" \in DOMAIN fields /\ fields.step # "save"
    BY <1>2, <2>1 DEF ClaimSubmission
  <2>3. row' = [row EXCEPT !.state = "submitting", !.owner = p, !.leased = TRUE]
    BY <1>2 DEF ClaimSubmission
  <2>4. /\ {"state", "owner"} \subseteq DOMAIN row' /\ row'.state # "absent"
        /\ row.owner = NoRun
    BY <1>2, <2>3 DEF ClaimInv, ClaimSubmission, Claimable
  <2> QED
    BY <2>2, <2>4, ToKeeps
<1>3. ASSUME NEW p \in Runs, ClaimBlocked(p) PROVE ClaimInv' /\ ClaimKept
  BY <1>3, OverKeeps DEF ClaimBlocked, ClaimInv, Over
<1>4. ASSUME NEW p \in Runs, AddDraft(p) \/ Submit(p) \/ SubmitFailed(p) \/ Poll(p)
      PROVE  ClaimInv' /\ ClaimKept
  <2>1. row' = row
    BY <1>4 DEF AddDraft, Submit, SubmitFailed, Poll
  <2>2. PICK fields : /\ To(p, fields) /\ "step" \in DOMAIN fields
                      /\ fields.step = "save"
                            => "state" \in DOMAIN fields /\ fields.state # "absent"
    BY <1>4 DEF AddDraft, Submit, SubmitFailed, Poll
  <2> QED
    BY <2>1, <2>2, ToKeeps DEF ClaimInv
<1>5. ASSUME NEW p \in Runs, MarkUncertain(p) PROVE ClaimInv' /\ ClaimKept
  <2>1. row' = [row EXCEPT !.state = "uncertain", !.owner = NoRun, !.leased = FALSE]
    BY <1>5 DEF MarkUncertain
  <2>2. {"state", "owner"} \subseteq DOMAIN row' /\ row'.owner = NoRun
    BY <2>1 DEF ClaimInv
  <2>3. run' = [run EXCEPT ![p] = Over] /\ Over.step # "save"
    BY <1>5 DEF MarkUncertain, Over
  <2>4. ClaimInv'
    BY <2>2, <2>3, OverKeeps
  <2> QED
    BY <1>5, <2>2, <2>4 DEF MarkUncertain
<1>6. ASSUME NEW p \in Runs, CompleteDraft(p) PROVE ClaimInv' /\ ClaimKept
  <2>1. row' = [row EXCEPT !.state = "drafted", !.owner = NoRun, !.leased = FALSE,
                           !.media = run[p].media]
    BY <1>6 DEF CompleteDraft
  <2>2. {"state", "owner"} \subseteq DOMAIN row' /\ row'.owner = NoRun
    BY <2>1 DEF ClaimInv
  <2>3. PICK next : next = Onward(run[p].delivery, run[p].enabled, run[p].media,
                                  Seen(run[p].delivery, row))
    OBVIOUS
  <2>4. To(p, next)
    BY <1>6, <2>3 DEF CompleteDraft
  <2> QED
    BY <1>6, <2>2, <2>3, <2>4, OnwardSaves, ToKeeps DEF CompleteDraft
<1>7. ASSUME NEW p \in Runs, CompletePost(p) PROVE ClaimInv' /\ ClaimKept
  <2>1. row' = [row EXCEPT !.state = "submitted", !.owner = NoRun, !.leased = FALSE,
                           !.post[run[p].op] = run[p].post]
    BY <1>7 DEF CompletePost
  <2>2. {"state", "owner"} \subseteq DOMAIN row' /\ row'.owner = NoRun
    BY <2>1 DEF ClaimInv
  <2>3. PICK fields : fields = [step |-> "poll"]
    OBVIOUS
  <2>4. To(p, fields) /\ "step" \in DOMAIN fields /\ fields.step # "save"
    BY <1>7, <2>3 DEF CompletePost
  <2> QED
    BY <1>7, <2>2, <2>4, ToKeeps DEF CompletePost
<1>8. ASSUME NEW p \in Runs, SaveResult(p) PROVE ClaimInv' /\ ClaimKept
  <2>1. run[p].state # "absent"
    BY <1>8 DEF SaveResult, ClaimInv
  <2>2. \/ row' = [row EXCEPT !.state = run[p].state, !.result = TRUE,
                              !.post[run[p].delivery] = run[p].post]
        \/ row' = [row EXCEPT !.state = run[p].state, !.result = TRUE,
                              !.media = run[p].media]
    BY <1>8 DEF SaveResult
  <2>3. /\ {"state", "owner"} \subseteq DOMAIN row'
        /\ row'.state # "absent" /\ row'.owner = row.owner
    BY <2>1, <2>2 DEF ClaimInv
  <2>4. run' = [run EXCEPT ![p] = Over] /\ Over.step # "save"
    BY <1>8 DEF SaveResult, Over
  <2>5. ClaimInv'
    BY <2>3, <2>4, OverKeeps
  <2> QED
    BY <2>3, <2>5
<1>9. ASSUME NEW p \in Runs, Dies(p) PROVE ClaimInv' /\ ClaimKept
  BY <1>9 DEF Dies, ClaimInv, Over
<1>10. ASSUME NEW text, NEW delivery, PrepareEdition(text, delivery)
       PROVE  ClaimInv' /\ ClaimKept
  BY <1>10, ReservedUnowned DEF PrepareEdition, ClaimInv
<1>11. CASE LeaseOver
  <2>1. row' = [row EXCEPT !.leased = FALSE] /\ run' = run
    BY <1>11 DEF LeaseOver
  <2> QED
    BY <2>1 DEF ClaimInv
<1>12. CASE UNCHANGED wechatVars
  BY <1>12 DEF wechatVars, ClaimInv
<1> QED
  BY <1>1, <1>2, <1>3, <1>4, <1>5, <1>6, <1>7, <1>8, <1>9, <1>10, <1>11, <1>12
     DEF WechatNext, Work

(* A claim on an edition ends only by the run that holds it, once it has an *)
(* answer or is in doubt of one: nobody submits over a claim, whatever dies *)
(* and however long the platform takes (claim_submission and                *)
(* complete_submission in wechat_publisher.py).                             *)
THEOREM ClaimsEndByOwner == WechatSpec => ClaimIsItsOwners
<1>1. WechatInit => ClaimInv
  BY ClaimInvInit
<1>2. ClaimInv /\ [WechatNext]_wechatVars => ClaimInv'
  BY ClaimStep
<1>3. ClaimInv /\ [WechatNext]_wechatVars
        => [row.owner # NoRun /\ row'.owner # row.owner
               => row'.owner = NoRun
                  /\ run[row.owner].step \in {"complete", "doubt"}]_wechatVars
  BY ClaimStep DEF ClaimKept
<1> QED
  BY <1>1, <1>2, <1>3, PTL DEF WechatSpec, ClaimIsItsOwners

-----------------------------------------------------------------------------
(* Casework.                                                                *)

Statuses == {"none", "new", "triaged", "converted"}

AlertRow == [version : Nat, status : Statuses, case : Cases \cup {NoRef}]

Visits ==
    {Away, [step |-> "hit"]}
        \cup [step : {"hitRef"}, alert : Alerts]
        \cup [step : {"convert"}, alert : Alerts, read : AlertRow]
        \cup [step : {"caseRef"}, alert : Alerts, read : AlertRow, case : Cases]
        \cup [step : {"update", "put"}, alert : Alerts, read : AlertRow,
              content : [status : Statuses, case : Cases \cup {NoRef}]]

CaseworkTypeOK ==
    /\ alert \in [Alerts -> AlertRow]
    /\ cases \in SUBSET [id : Cases, alert : Alerts]
    /\ hitRef \in Alerts \cup {NoRef}
    /\ caseRef \in [Alerts -> Cases \cup {NoRef}]
    /\ desk \in [Desks -> Visits]
    /\ stops \in Nat

(* What looks up and writes references holds the lock.                      *)
LockHeld ==
    \A t \in Desks : desk[t].step \in {"hit", "hitRef", "convert", "caseRef"}
        => workflowLock = t

Hits == {a \in Alerts : Exists(a)}
CasesOf(a) == {x \in cases : x.alert = a}

(* As long as a hit has no reference and none is about to be written, every *)
(* alert of it was made before a stop.                                      *)
HitsCounted ==
    /\ IsFiniteSet(Hits) /\ Cardinality(Hits) <= 1 + stops
    /\ hitRef = NoRef /\ (\A t \in Desks : desk[t].step # "hitRef")
          => Cardinality(Hits) <= stops
    /\ \A t \in Desks : desk[t].step = "hit" => hitRef = NoRef

Noting(a) == \E t \in Desks : desk[t].step = "caseRef" /\ desk[t].alert = a

CasesCounted ==
    /\ IsFiniteSet(cases)
    /\ \A a \in Alerts :
           /\ Cardinality(CasesOf(a)) <= 1 + stops
           /\ caseRef[a] = NoRef /\ ~Noting(a) => Cardinality(CasesOf(a)) <= stops

(* A case that an alert names, or will name once an update under way is     *)
(* put, is the one of the alert's reference.                                *)
Named(a, c) == c # NoRef => caseRef[a] = c /\ [id |-> c, alert |-> a] \in cases

CasesNamed ==
    /\ \A a \in Alerts : Named(a, caseRef[a]) /\ Named(a, alert[a].case)
    /\ \A t \in Desks :
           /\ desk[t].step = "caseRef" => 
                  /\ caseRef[desk[t].alert] = NoRef
                  /\ [id |-> desk[t].case, alert |-> desk[t].alert] \in cases
           /\ desk[t].step \in {"convert", "caseRef", "update", "put"}
                  => Exists(desk[t].alert)
           /\ desk[t].step \in {"update", "put"}
                  => Named(desk[t].alert, desk[t].content.case)

CaseworkInv == CaseworkTypeOK /\ LockHeld /\ HitsCounted /\ CasesCounted /\ CasesNamed

(* What a visit carries, by its step.                                       *)
LEMMA VisitShapes ==
  ASSUME NEW v \in Visits
  PROVE  /\ v.step \in {"idle", "hit", "hitRef", "convert", "caseRef", "update", "put"}
         /\ v.step \notin {"idle", "hit"} => v.alert \in Alerts
         /\ v.step \in {"convert", "caseRef", "update", "put"} => v.read \in AlertRow
         /\ v.step = "caseRef" => v.case \in Cases
         /\ v.step \in {"update", "put"} =>
              v.content \in [status : Statuses, case : Cases \cup {NoRef}]
  BY DEF Visits, Away

LEMMA VisitsMade ==
  ASSUME NEW a \in Alerts, NEW r \in AlertRow, NEW c \in Cases
  PROVE  /\ Away \in Visits /\ [step |-> "hit"] \in Visits
         /\ [step |-> "hitRef", alert |-> a] \in Visits
         /\ [step |-> "convert", alert |-> a, read |-> r] \in Visits
         /\ [step |-> "caseRef", alert |-> a, read |-> r, case |-> c] \in Visits
         /\ \A s \in Statuses, x \in Cases \cup {NoRef} :
              [step |-> "update", alert |-> a, read |-> r,
               content |-> [status |-> s, case |-> x]] \in Visits
  BY DEF Visits

LEMMA PutPrepared ==
  ASSUME NEW v \in Visits, v.step = "update", NEW w, w = [v EXCEPT !.step = "put"]
  PROVE  /\ w \in Visits /\ w.step = "put" /\ w.alert = v.alert
         /\ w.content = v.content
  BY DEF Visits, Away

LEMMA CaseworkInit1 == CaseworkInit => CaseworkInv
<1> SUFFICES ASSUME CaseworkInit PROVE CaseworkInv
  OBVIOUS
<1>1. CaseworkTypeOK
  BY DEF CaseworkInit, CaseworkTypeOK, Visits, AlertRow, NoAlert, Statuses
<1>2. \A t \in Desks : desk[t].step = "idle"
  BY DEF CaseworkInit, Away
<1>3. Hits = {}
  BY DEF CaseworkInit, Hits, Exists, NoAlert
<1>4. \A a \in Alerts : CasesOf(a) = {}
  BY DEF CaseworkInit, CasesOf
<1>5. IsFiniteSet({}) /\ Cardinality({}) = 0
  BY FS_EmptySet
<1>6. LockHeld /\ HitsCounted /\ CasesCounted
  BY <1>2, <1>3, <1>4, <1>5 DEF LockHeld, HitsCounted, CasesCounted, CaseworkInit
<1>7. CasesNamed
  BY <1>2, CaseworkAssumption DEF CasesNamed, Named, CaseworkInit, NoAlert
<1> QED
  BY <1>1, <1>6, <1>7 DEF CaseworkInv

(* Nothing that concerns references changed.                                *)
LEMMA HitsStayCounted ==
  ASSUME HitsCounted, Hits' = Hits, hitRef' = hitRef, stops' = stops,
         \A t \in Desks : desk'[t].step = "hit" => desk[t].step = "hit",
         \A t \in Desks : desk[t].step = "hitRef" => desk'[t].step = "hitRef"
  PROVE  HitsCounted'
  BY DEF HitsCounted

LEMMA CasesStayCounted ==
  ASSUME CasesCounted, cases' = cases, caseRef' = caseRef, stops' = stops,
         \A t \in Desks : desk[t].step = "caseRef"
            => desk'[t].step = "caseRef" /\ desk'[t].alert = desk[t].alert
  PROVE  CasesCounted'
  BY DEF CasesCounted, CasesOf, Noting

LEMMA CasesStayNamed ==
  ASSUME CaseworkTypeOK, CasesNamed, cases' = cases, caseRef' = caseRef, alert' = alert,
         NEW t \in Desks, \A u \in Desks : u # t => desk'[u] = desk[u],
         desk'[t].step # "caseRef",
         desk'[t].step \in {"convert", "caseRef", "update", "put"} 
           => Exists(desk'[t].alert),
         desk'[t].step \in {"update", "put"}
           => Named(desk'[t].alert, desk'[t].content.case)
  PROVE  CasesNamed'
  BY DEF CasesNamed, Named, Exists

(* A call that leaves the references to others.                             *)
LEMMA OnlyItsDesk ==
  ASSUME CaseworkInv, NEW t \in Desks, NEW v \in Visits, desk' = [desk EXCEPT ![t] = v],
         UNCHANGED <<alert, cases, hitRef, caseRef, stops>>,
         desk[t].step \notin {"hitRef", "caseRef"}, v.step \notin {"hit", "caseRef"},
         v.step \in {"convert", "update", "put"} => Exists(v.alert),
         v.step \in {"update", "put"} => Named(v.alert, v.content.case),
         LockHeld'
  PROVE  CaseworkInv'
<1>1. CaseworkTypeOK'
  BY DEF CaseworkInv, CaseworkTypeOK
<1>2. desk'[t] = v /\ \A u \in Desks : u # t => desk'[u] = desk[u]
  BY DEF CaseworkInv, CaseworkTypeOK
<1>3. HitsCounted'
  <2>1. Hits' = Hits
    BY DEF Hits, Exists
  <2> QED
    BY <1>2, <2>1, HitsStayCounted DEF CaseworkInv
<1>4. CasesCounted'
  BY <1>2, CasesStayCounted DEF CaseworkInv
<1>5. CasesNamed'
  BY <1>2, CasesStayNamed DEF CaseworkInv
<1> QED
  BY <1>1, <1>3, <1>4, <1>5 DEF CaseworkInv

(* The lock is taken, kept or given back by the call that moves.            *)
LEMMA LockStays ==
  ASSUME CaseworkInv, NEW t \in Desks, NEW v, desk' = [desk EXCEPT ![t] = v],
         v.step \in {"hit", "hitRef", "convert", "caseRef"} => workflowLock' = t,
         workflowLock \in {NoRef, t} \/ workflowLock' = workflowLock
  PROVE  LockHeld'
<1>1. desk'[t] = v /\ \A u \in Desks : u # t => desk'[u] = desk[u]
  BY DEF CaseworkInv, CaseworkTypeOK
<1>2. ASSUME NEW u \in Desks, desk'[u].step \in {"hit", "hitRef", "convert", "caseRef"}
      PROVE  workflowLock' = u
  <2>1. CASE u = t
    BY <1>1, <1>2, <2>1
  <2>2. CASE u # t
    BY <1>1, <1>2, <2>2, CaseworkAssumption DEF CaseworkInv, LockHeld
  <2> QED
    BY <2>1, <2>2
<1> QED
  BY <1>2 DEF LockHeld

LEMMA MaterializeKeeps ==
  ASSUME CaseworkInv, NEW t \in Desks, Materialize(t)
  PROVE  CaseworkInv'
<1>1. PICK v : v = [step |-> "hit"]
  OBVIOUS
<1>2. /\ v \in Visits /\ v.step = "hit" /\ desk' = [desk EXCEPT ![t] = v]
      /\ desk[t].step = "idle"
      /\ hitRef = NoRef /\ workflowLock = NoRef /\ workflowLock' = t
      /\ UNCHANGED <<alert, cases, hitRef, caseRef, stops>>
  BY <1>1 DEF Materialize, Write, Lock, Visits, Away
<1>3. CaseworkTypeOK'
  BY <1>2 DEF CaseworkInv, CaseworkTypeOK
<1>4. desk'[t] = v /\ \A u \in Desks : u # t => desk'[u] = desk[u]
  BY <1>2 DEF CaseworkInv, CaseworkTypeOK
<1>5. LockHeld'
  BY <1>2, LockStays
<1>6. HitsCounted'
  <2>1. Hits' = Hits
    BY <1>2 DEF Hits, Exists
  <2> QED
    BY <1>2, <1>4, <2>1 DEF CaseworkInv, HitsCounted
<1>7. CasesCounted'
  BY <1>2, <1>4, CasesStayCounted DEF CaseworkInv
<1>8. CasesNamed'
  BY <1>2, <1>4, CasesStayNamed DEF CaseworkInv
<1> QED
  BY <1>3, <1>5, <1>6, <1>7, <1>8 DEF CaseworkInv

LEMMA CreateAlertKeeps ==
  ASSUME CaseworkInv, NEW t \in Desks, CreateAlert(t)
  PROVE  CaseworkInv'
<1>1. PICK a \in Alerts :
        /\ desk[t].step = "hit" /\ ~Exists(a)
        /\ alert' = [alert EXCEPT ![a] = [version |-> 1, status |-> "new", case |-> NoRef]]
        /\ Write(t, [step |-> "hitRef", alert |-> a])
        /\ UNCHANGED <<cases, hitRef, caseRef, workflowLock, stops>>
  BY DEF CreateAlert
<1>2. PICK v : v = [step |-> "hitRef", alert |-> a]
  OBVIOUS
<1>3. v \in Visits /\ v.step = "hitRef" /\ v.alert = a /\ desk' = [desk EXCEPT ![t] = v]
  BY <1>1, <1>2 DEF Write, Visits
<1>4. PICK r : r = [version |-> 1, status |-> "new", case |-> NoRef]
  OBVIOUS
<1>5. r \in AlertRow /\ r.version = 1 /\ r.case = NoRef /\ alert' = [alert EXCEPT ![a] = r]
  BY <1>1, <1>4 DEF AlertRow, Statuses
<1>6. CaseworkTypeOK'
  BY <1>1, <1>3, <1>5 DEF CaseworkInv, CaseworkTypeOK
<1>7. desk'[t] = v /\ \A u \in Desks : u # t => desk'[u] = desk[u]
  BY <1>3 DEF CaseworkInv, CaseworkTypeOK
<1>8. LockHeld'
  <2>1. workflowLock = t
    BY <1>1 DEF CaseworkInv, LockHeld
  <2> QED
    BY <1>1, <1>3, <2>1, LockStays
<1>9. alert'[a] = r /\ \A b \in Alerts : b # a => alert'[b] = alert[b]
  BY <1>5 DEF CaseworkInv, CaseworkTypeOK
<1>10. HitsCounted'
  <2>1. Hits' = Hits \cup {a} /\ a \notin Hits
    BY <1>1, <1>5, <1>9 DEF Hits, Exists
  <2>2. \A u \in Desks : desk[u].step # "hitRef"
    BY <1>1, CaseworkAssumption DEF CaseworkInv, LockHeld
  <2>3. hitRef = NoRef /\ IsFiniteSet(Hits) /\ Cardinality(Hits) <= stops
    BY <1>1, <2>2 DEF CaseworkInv, HitsCounted
  <2>4. /\ IsFiniteSet(Hits') /\ Cardinality(Hits') = Cardinality(Hits) + 1
        /\ Cardinality(Hits) \in Nat
    BY <2>1, <2>3, FS_AddElement, FS_CardinalityType
  <2>5. \A u \in Desks : desk'[u].step = "hit" => hitRef' = NoRef
    BY <1>1, <2>3
  <2> QED
    BY <1>1, <1>3, <1>7, <2>3, <2>4, <2>5 DEF CaseworkInv, CaseworkTypeOK, HitsCounted
<1>11. CasesCounted'
  BY <1>1, <1>7, CasesStayCounted DEF CaseworkInv
<1>12. CasesNamed'
  <2>1. \A b \in Alerts : Exists(b) => Exists(b)'
    BY <1>5, <1>9 DEF Exists
  <2>2. \A u \in Desks : desk'[u].step \in {"convert", "caseRef", "update", "put"}
          => desk'[u] = desk[u] /\ desk[u].alert \in Alerts
    BY <1>3, <1>7, VisitShapes DEF CaseworkInv, CaseworkTypeOK
  <2>3. \A b \in Alerts : Named(b, caseRef[b])' /\ Named(b, alert[b].case)'
    BY <1>1, <1>5, <1>9 DEF CaseworkInv, CasesNamed, Named
  <2>4. ASSUME NEW u \in Desks, desk'[u].step \in {"convert", "caseRef", "update", "put"}
        PROVE  /\ Exists(desk[u].alert)'
               /\ desk'[u].step = "caseRef" =>
                    /\ caseRef'[desk'[u].alert] = NoRef
                    /\ [id |-> desk'[u].case, alert |-> desk'[u].alert] \in cases'
               /\ desk'[u].step \in {"update", "put"} =>
                    Named(desk[u].alert, desk[u].content.case)'
    <3>1. desk'[u] = desk[u] /\ desk[u].alert \in Alerts
      BY <2>2, <2>4
    <3>2. Exists(desk[u].alert)'
      BY <2>1, <2>4, <3>1 DEF CaseworkInv, CasesNamed, Exists
    <3> QED
      BY <1>1, <2>4, <3>1, <3>2 DEF CaseworkInv, CasesNamed, Named
  <2> QED
    BY <2>3, <2>4 DEF CasesNamed
<1> QED
  BY <1>6, <1>8, <1>10, <1>11, <1>12 DEF CaseworkInv

LEMMA PutHitRefKeeps ==
  ASSUME CaseworkInv, NEW t \in Desks, PutHitRef(t)
  PROVE  CaseworkInv'
<1>1. /\ desk[t].step = "hitRef" /\ desk[t].alert \in Alerts
      /\ hitRef' = IF hitRef = NoRef THEN desk[t].alert ELSE hitRef
      /\ workflowLock' = NoRef /\ desk' = [desk EXCEPT ![t] = Away]
      /\ UNCHANGED <<alert, cases, caseRef, stops>>
  BY VisitShapes DEF PutHitRef, Unlock, Write, CaseworkInv, CaseworkTypeOK
<1>2. Away \in Visits /\ Away.step = "idle"
  BY DEF Away, Visits
<1>3. CaseworkTypeOK'
  BY <1>1, <1>2 DEF CaseworkInv, CaseworkTypeOK
<1>4. desk'[t] = Away /\ \A u \in Desks : u # t => desk'[u] = desk[u]
  BY <1>1 DEF CaseworkInv, CaseworkTypeOK
<1>5. workflowLock = t
  BY <1>1 DEF CaseworkInv, LockHeld
<1>6. LockHeld'
  BY <1>1, <1>2, <1>5, LockStays
<1>7. HitsCounted'
  <2>1. Hits' = Hits
    BY <1>1 DEF Hits, Exists
  <2>2. hitRef' # NoRef
    BY <1>1, CaseworkAssumption
  <2>3. \A u \in Desks : desk'[u].step # "hit"
    BY <1>1, <1>2, <1>4, <1>5 DEF CaseworkInv, LockHeld
  <2> QED
    BY <1>1, <2>1, <2>2, <2>3 DEF CaseworkInv, HitsCounted
<1>8. CasesCounted'
  BY <1>1, <1>4, CasesStayCounted DEF CaseworkInv
<1>9. CasesNamed'
  BY <1>1, <1>2, <1>4, CasesStayNamed DEF CaseworkInv
<1> QED
  BY <1>3, <1>6, <1>7, <1>8, <1>9 DEF CaseworkInv

LEMMA TriageKeeps ==
  ASSUME CaseworkInv, NEW t \in Desks, NEW a \in Alerts,
         NEW action \in {"triaged", "converted"}, Triage(t, a, action)
  PROVE  CaseworkInv'
<1>1. PICK v : v = IF action = "converted"
                   THEN [step |-> "convert", alert |-> a, read |-> alert[a]]
                   ELSE [step |-> "update", alert |-> a, read |-> alert[a],
                         content |-> [status |-> action, case |-> alert[a].case]]
  OBVIOUS
<1>2. alert[a] \in AlertRow /\ alert[a].case \in Cases \cup {NoRef}
  BY DEF CaseworkInv, CaseworkTypeOK, AlertRow
<1>3. /\ desk[t].step = "idle" /\ desk' = [desk EXCEPT ![t] = v] /\ Exists(a)
      /\ workflowLock = NoRef /\ workflowLock' = t
      /\ UNCHANGED <<alert, cases, hitRef, caseRef, stops>>
  BY <1>1 DEF Triage, Write, Lock, Away
<1>4. /\ v \in Visits /\ v.step \in {"convert", "update"} /\ v.alert = a
      /\ v.step = "update" => v.content.case = alert[a].case
  BY <1>1, <1>2 DEF Visits, Statuses
<1>5. Named(a, alert[a].case)
  BY DEF CaseworkInv, CasesNamed
<1>6. LockHeld'
  BY <1>3, LockStays
<1> QED
  BY <1>3, <1>4, <1>5, <1>6, OnlyItsDesk

LEMMA EditKeeps ==
  ASSUME CaseworkInv, NEW t \in Desks, NEW a \in Alerts, Edit(t, a)
  PROVE  CaseworkInv'
<1>1. PICK v : v = [step |-> "update", alert |-> a, read |-> alert[a],
                    content |-> [status |-> alert[a].status, case |-> alert[a].case]]
  OBVIOUS
<1>2. /\ alert[a] \in AlertRow /\ alert[a].case \in Cases \cup {NoRef}
      /\ alert[a].status \in Statuses
  BY DEF CaseworkInv, CaseworkTypeOK, AlertRow
<1>3. /\ desk[t].step = "idle" /\ desk' = [desk EXCEPT ![t] = v] /\ Exists(a)
      /\ UNCHANGED <<alert, cases, hitRef, caseRef, workflowLock, stops>>
  BY <1>1 DEF Edit, Write, Away
<1>4. v \in Visits /\ v.step = "update" /\ v.alert = a /\ v.content.case = alert[a].case
  BY <1>1, <1>2 DEF Visits
<1>5. Named(a, alert[a].case)
  BY DEF CaseworkInv, CasesNamed
<1>6. LockHeld'
  BY <1>3, <1>4, LockStays
<1> QED
  BY <1>3, <1>4, <1>5, <1>6, OnlyItsDesk

LEMMA ReuseCaseKeeps ==
  ASSUME CaseworkInv, NEW t \in Desks, ReuseCase(t)
  PROVE  CaseworkInv'
<1>1. /\ desk[t].step = "convert" /\ desk[t].alert \in Alerts
      /\ desk[t].read \in AlertRow /\ caseRef[desk[t].alert] \in Cases \cup {NoRef}
  BY VisitShapes DEF ReuseCase, CaseworkInv, CaseworkTypeOK
<1>2. PICK a \in Alerts : a = desk[t].alert
  BY <1>1
<1>3. PICK v : v = Converted(t, caseRef[a])
  OBVIOUS
<1>4. /\ v \in Visits /\ v.step = "update" /\ v.alert = a
      /\ v.content.case = caseRef[a]
  BY <1>1, <1>2, <1>3 DEF Converted, Visits, Statuses
<1>5. /\ desk' = [desk EXCEPT ![t] = v]
      /\ UNCHANGED <<alert, cases, hitRef, caseRef, workflowLock, stops>>
  BY <1>2, <1>3 DEF ReuseCase, Write
<1>6. Named(a, caseRef[a]) /\ Exists(a)
  BY <1>1, <1>2 DEF CaseworkInv, CasesNamed
<1>7. LockHeld'
  BY <1>4, <1>5, LockStays
<1> QED
  BY <1>1, <1>4, <1>5, <1>6, <1>7, OnlyItsDesk

LEMMA CompareVersionKeeps ==
  ASSUME CaseworkInv, NEW t \in Desks, CompareVersion(t)
  PROVE  CaseworkInv'
<1>1. desk[t].step = "update" /\ desk[t] \in Visits
  BY DEF CompareVersion, CaseworkInv, CaseworkTypeOK
<1>2. PICK v : v = [desk[t] EXCEPT !.step = "put"]
  OBVIOUS
<1>3. /\ v \in Visits /\ v.step = "put" /\ v.alert = desk[t].alert
      /\ v.content = desk[t].content
  BY <1>1, <1>2, PutPrepared
<1>4. /\ desk' = [desk EXCEPT ![t] = v]
      /\ UNCHANGED <<alert, cases, hitRef, caseRef, workflowLock, stops>>
  BY <1>2 DEF CompareVersion, Write
<1>5. Exists(v.alert) /\ Named(v.alert, v.content.case)
  BY <1>1, <1>3 DEF CaseworkInv, CasesNamed
<1>6. LockHeld'
  BY <1>3, <1>4, LockStays
<1> QED
  BY <1>1, <1>3, <1>4, <1>5, <1>6, OnlyItsDesk

LEMMA VersionConflictKeeps ==
  ASSUME CaseworkInv, NEW t \in Desks, VersionConflict(t)
  PROVE  CaseworkInv'
<1>1. /\ desk[t].step = "update" /\ desk' = [desk EXCEPT ![t] = Away]
      /\ workflowLock' = IF workflowLock = t THEN NoRef ELSE workflowLock
      /\ UNCHANGED <<alert, cases, hitRef, caseRef, stops>>
  BY DEF VersionConflict, LeaveDesk, Write
<1>2. Away \in Visits /\ Away.step = "idle"
  BY DEF Away, Visits
<1>3. LockHeld'
  BY <1>1, <1>2, LockStays
<1> QED
  BY <1>1, <1>2, <1>3, OnlyItsDesk

LEMMA CreateCaseKeeps ==
  ASSUME CaseworkInv, NEW t \in Desks, CreateCase(t)
  PROVE  CaseworkInv'
<1>1. PICK c \in Cases :
        /\ desk[t].step = "convert" /\ caseRef[desk[t].alert] = NoRef
        /\ \A x \in cases : x.id # c
        /\ cases' = cases \cup {[id |-> c, alert |-> desk[t].alert]}
        /\ Write(t, [step |-> "caseRef", alert |-> desk[t].alert, read |-> desk[t].read,
                     case |-> c])
        /\ UNCHANGED <<alert, hitRef, caseRef, workflowLock, stops>>
  BY DEF CreateCase
<1>2. desk[t].alert \in Alerts /\ desk[t].read \in AlertRow
  BY <1>1, VisitShapes DEF CaseworkInv, CaseworkTypeOK
<1>3. PICK a \in Alerts : a = desk[t].alert
  BY <1>2
<1>4. PICK v : v = [step |-> "caseRef", alert |-> a, read |-> desk[t].read, case |-> c]
  OBVIOUS
<1>5. PICK n : n = [id |-> c, alert |-> a]
  OBVIOUS
<1>6. /\ v \in Visits /\ v.step = "caseRef" /\ v.alert = a /\ v.case = c
      /\ desk' = [desk EXCEPT ![t] = v]
  BY <1>1, <1>2, <1>3, <1>4 DEF Visits, Write
<1>7. /\ n \in [id : Cases, alert : Alerts] /\ n.alert = a /\ n \notin cases
      /\ cases' = cases \cup {n}
  BY <1>1, <1>3, <1>5
<1>8. CaseworkTypeOK'
  BY <1>1, <1>6, <1>7 DEF CaseworkInv, CaseworkTypeOK
<1>9. desk'[t] = v /\ \A u \in Desks : u # t => desk'[u] = desk[u]
  BY <1>6 DEF CaseworkInv, CaseworkTypeOK
<1>10. workflowLock = t
  BY <1>1 DEF CaseworkInv, LockHeld
<1>11. LockHeld'
  BY <1>1, <1>6, <1>10, LockStays
<1>12. HitsCounted'
  <2>1. Hits' = Hits
    BY <1>1 DEF Hits, Exists
  <2> QED
    BY <1>1, <1>6, <1>9, <2>1, HitsStayCounted DEF CaseworkInv
<1>13. \A u \in Desks : desk[u].step # "caseRef"
  BY <1>1, <1>10 DEF CaseworkInv, LockHeld
<1>14. CasesCounted'
  <2>1. IsFiniteSet(cases) /\ IsFiniteSet(cases')
    BY <1>7, FS_AddElement DEF CaseworkInv, CasesCounted
  <2>2. ASSUME NEW b \in Alerts, b # a
        PROVE  CasesOf(b)' = CasesOf(b) /\ ~Noting(b)
    BY <1>7, <1>13, <2>2 DEF CasesOf, Noting
  <2>3. CasesOf(a)' = CasesOf(a) \cup {n} /\ n \notin CasesOf(a)
    BY <1>7 DEF CasesOf
  <2>4. IsFiniteSet(CasesOf(a)) /\ Cardinality(CasesOf(a)) \in Nat
    BY <2>1, FS_Subset, FS_CardinalityType DEF CasesOf
  <2>5. Cardinality(CasesOf(a)') = Cardinality(CasesOf(a)) + 1
    BY <2>3, <2>4, FS_AddElement
  <2>6. Cardinality(CasesOf(a)) <= stops
    BY <1>1, <1>3, <1>13 DEF CaseworkInv, CasesCounted, Noting
  <2>7. Noting(a)'
    BY <1>6, <1>9 DEF Noting
  <2>8. stops' = stops /\ stops \in Nat /\ caseRef' = caseRef
    BY <1>1 DEF CaseworkInv, CaseworkTypeOK
  <2>9. ASSUME NEW b \in Alerts
        PROVE  /\ Cardinality(CasesOf(b)') <= 1 + stops'
               /\ caseRef'[b] = NoRef /\ ~Noting(b)' => Cardinality(CasesOf(b)') <= stops'
    <3>1. CASE b = a
      BY <2>4, <2>5, <2>6, <2>7, <2>8, <3>1
    <3>2. CASE b # a
      BY <2>2, <2>8, <3>2 DEF CaseworkInv, CasesCounted
    <3> QED
      BY <3>1, <3>2
  <2> QED
    BY <2>1, <2>9 DEF CasesCounted
<1>15. CasesNamed'
  <2>1. \A b \in Alerts : Named(b, caseRef[b])' /\ Named(b, alert[b].case)'
    BY <1>1, <1>7 DEF CaseworkInv, CasesNamed, Named
  <2>2. Exists(a)
    BY <1>1, <1>3 DEF CaseworkInv, CasesNamed
  <2>3. ASSUME NEW u \in Desks
        PROVE  /\ desk'[u].step = "caseRef" =>
                    /\ caseRef'[desk'[u].alert] = NoRef
                    /\ [id |-> desk'[u].case, alert |-> desk'[u].alert] \in cases'
               /\ desk'[u].step \in {"convert", "caseRef", "update", "put"}
                    => Exists(desk[u].alert)'
               /\ desk'[u].step \in {"update", "put"}
                    => Named(desk[u].alert, desk[u].content.case)'
    <3>1. CASE u = t
      BY <1>1, <1>3, <1>5, <1>6, <1>7, <1>9, <2>2, <3>1 DEF Exists
    <3>2. CASE u # t
      BY <1>1, <1>7, <1>9, <3>2 DEF CaseworkInv, CasesNamed, Named, Exists
    <3> QED
      BY <3>1, <3>2
  <2> QED
    BY <2>1, <2>3 DEF CasesNamed
<1> QED
  BY <1>8, <1>11, <1>12, <1>14, <1>15 DEF CaseworkInv

LEMMA PutCaseRefKeeps ==
  ASSUME CaseworkInv, NEW t \in Desks, PutCaseRef(t)
  PROVE  CaseworkInv'
<1>1. /\ desk[t].step = "caseRef" /\ desk[t].alert \in Alerts
      /\ desk[t].read \in AlertRow /\ desk[t].case \in Cases
  BY VisitShapes DEF PutCaseRef, CaseworkInv, CaseworkTypeOK
<1>2. PICK a \in Alerts : a = desk[t].alert
  BY <1>1
<1>3. PICK c \in Cases : c = desk[t].case
  BY <1>1
<1>4. PICK v : v = Converted(t, c)
  OBVIOUS
<1>5. /\ v \in Visits /\ v.step = "update" /\ v.alert = a /\ v.content.case = c
  BY <1>1, <1>2, <1>3, <1>4 DEF Converted, Visits, Statuses
<1>6. /\ caseRef[a] = NoRef /\ [id |-> c, alert |-> a] \in cases /\ Exists(a)
  BY <1>1, <1>2, <1>3 DEF CaseworkInv, CasesNamed
<1>7. /\ desk' = [desk EXCEPT ![t] = v] /\ caseRef' = [caseRef EXCEPT ![a] = c]
      /\ UNCHANGED <<alert, cases, hitRef, workflowLock, stops>>
  BY <1>2, <1>3, <1>4, <1>6 DEF PutCaseRef, Write
<1>8. CaseworkTypeOK'
  BY <1>5, <1>7 DEF CaseworkInv, CaseworkTypeOK
<1>9. /\ desk'[t] = v /\ \A u \in Desks : u # t => desk'[u] = desk[u]
      /\ caseRef'[a] = c /\ \A b \in Alerts : b # a => caseRef'[b] = caseRef[b]
  BY <1>7 DEF CaseworkInv, CaseworkTypeOK
<1>10. c # NoRef
  BY CaseworkAssumption
<1>11. workflowLock = t
  BY <1>1 DEF CaseworkInv, LockHeld
<1>12. LockHeld'
  BY <1>5, <1>7, LockStays
<1>13. HitsCounted'
  <2>1. Hits' = Hits
    BY <1>7 DEF Hits, Exists
  <2> QED
    BY <1>1, <1>5, <1>7, <1>9, <2>1, HitsStayCounted DEF CaseworkInv
<1>14. CasesCounted'
  <2>1. \A b \in Alerts : CasesOf(b)' = CasesOf(b)
    BY <1>7 DEF CasesOf
  <2>2. ASSUME NEW b \in Alerts, b # a, ~Noting(b)'
        PROVE  ~Noting(b)
    BY <1>1, <1>2, <1>9, <2>2 DEF Noting
  <2> QED
    BY <1>7, <1>9, <1>10, <2>1, <2>2 DEF CaseworkInv, CasesCounted
<1>15. CasesNamed'
  <2>1. ASSUME NEW b \in Alerts, NEW x, Named(b, x) PROVE Named(b, x)'
    BY <1>6, <1>7, <1>9, <2>1 DEF Named
  <2>2. \A b \in Alerts : Named(b, caseRef[b])' /\ Named(b, alert[b].case)'
    <3>1. ASSUME NEW b \in Alerts PROVE Named(b, alert[b].case)'
      <4>1. Named(b, alert[b].case) /\ alert'[b] = alert[b]
        BY <1>7 DEF CaseworkInv, CasesNamed
      <4>2. PICK x : x = alert[b].case
        OBVIOUS
      <4>3. Named(b, x)'
        BY <2>1, <4>1, <4>2
      <4> QED
        BY <4>1, <4>2, <4>3 DEF Named
    <3>2. ASSUME NEW b \in Alerts PROVE Named(b, caseRef[b])'
      <4>1. Named(b, caseRef[b])
        BY DEF CaseworkInv, CasesNamed
      <4>2. CASE b = a
        BY <1>6, <1>7, <1>9, <4>2 DEF Named
      <4>3. CASE b # a
        BY <1>7, <1>9, <4>1, <4>3 DEF Named
      <4> QED
        BY <4>2, <4>3
    <3> QED
      BY <3>1, <3>2
  <2>3. Named(a, c)'
    BY <1>6, <1>7, <1>9 DEF Named
  <2>4. ASSUME NEW u \in Desks
        PROVE  /\ desk'[u].step = "caseRef" =>
                    /\ caseRef'[desk'[u].alert] = NoRef
                    /\ [id |-> desk'[u].case, alert |-> desk'[u].alert] \in cases'
               /\ desk'[u].step \in {"convert", "caseRef", "update", "put"}
                    => Exists(desk[u].alert)'
               /\ desk'[u].step \in {"update", "put"}
                    => Named(desk[u].alert, desk[u].content.case)'
    <3>1. CASE u = t
      BY <1>5, <1>6, <1>7, <1>9, <2>3, <3>1 DEF Exists
    <3>2. CASE u # t
      <4>1. desk'[u] = desk[u] /\ desk[u].step # "caseRef"
        BY <1>9, <1>11, <3>2 DEF CaseworkInv, LockHeld
      <4>2. desk[u].step \in {"convert", "update", "put"} => desk[u].alert \in Alerts
        BY VisitShapes DEF CaseworkInv, CaseworkTypeOK
      <4>3. desk[u].step \in {"convert", "update", "put"} => Exists(desk[u].alert)'
        BY <1>7, <4>1 DEF CaseworkInv, CasesNamed, Exists
      <4>4. desk[u].step \in {"update", "put"}
              => Named(desk[u].alert, desk[u].content.case)
        BY DEF CaseworkInv, CasesNamed
      <4> QED
        BY <2>1, <4>1, <4>2, <4>3, <4>4 DEF Named
    <3> QED
      BY <3>1, <3>2
  <2> QED
    BY <2>2, <2>4 DEF CasesNamed
<1> QED
  BY <1>8, <1>12, <1>13, <1>14, <1>15 DEF CaseworkInv

LEMMA PutKeeps ==
  ASSUME CaseworkInv, NEW t \in Desks, Put(t)
  PROVE  CaseworkInv'
<1>1. /\ desk[t].step = "put" /\ desk[t].alert \in Alerts /\ desk[t].read \in AlertRow
      /\ desk[t].content \in [status : Statuses, case : Cases \cup {NoRef}]
  BY VisitShapes DEF Put, CaseworkInv, CaseworkTypeOK
<1>2. PICK a \in Alerts : a = desk[t].alert
  BY <1>1
<1>3. PICK r : r = [version |-> desk[t].read.version + 1,
                    status |-> desk[t].content.status, case |-> desk[t].content.case]
  OBVIOUS
<1>4. r \in AlertRow /\ r.version > 0 /\ r.case = desk[t].content.case
  BY <1>1, <1>3 DEF AlertRow
<1>5. /\ alert' = [alert EXCEPT ![a] = r] /\ desk' = [desk EXCEPT ![t] = Away]
      /\ workflowLock' = IF workflowLock = t THEN NoRef ELSE workflowLock
      /\ UNCHANGED <<cases, hitRef, caseRef, stops>>
  BY <1>2, <1>3 DEF Put, LeaveDesk, Write
<1>6. Away \in Visits /\ Away.step = "idle"
  BY DEF Away, Visits
<1>7. CaseworkTypeOK'
  BY <1>4, <1>5, <1>6 DEF CaseworkInv, CaseworkTypeOK
<1>8. /\ desk'[t] = Away /\ \A u \in Desks : u # t => desk'[u] = desk[u]
      /\ alert'[a] = r /\ \A b \in Alerts : b # a => alert'[b] = alert[b]
  BY <1>5 DEF CaseworkInv, CaseworkTypeOK
<1>9. LockHeld'
  BY <1>5, <1>6, LockStays
<1>10. Exists(a) /\ Named(a, r.case)
  BY <1>1, <1>2, <1>4 DEF CaseworkInv, CasesNamed
<1>11. \A b \in Alerts : Exists(b)' <=> Exists(b)
  BY <1>4, <1>8, <1>10 DEF Exists
<1>12. HitsCounted'
  <2>1. Hits' = Hits
    BY <1>11 DEF Hits
  <2> QED
    BY <1>1, <1>5, <1>6, <1>8, <2>1, HitsStayCounted DEF CaseworkInv
<1>13. CasesCounted'
  BY <1>1, <1>5, <1>8, CasesStayCounted DEF CaseworkInv
<1>14. CasesNamed'
  <2>1. \A b \in Alerts : Named(b, caseRef[b])' /\ Named(b, alert[b].case)'
    <3>1. ASSUME NEW b \in Alerts, b # a PROVE Named(b, alert[b].case)'
      <4>1. Named(b, alert[b].case) /\ alert'[b] = alert[b]
        BY <1>8, <3>1 DEF CaseworkInv, CasesNamed
      <4>2. PICK x : x = alert[b].case
        OBVIOUS
      <4>3. Named(b, x)'
        BY <1>5, <4>1, <4>2 DEF Named
      <4> QED
        BY <4>1, <4>2, <4>3 DEF Named
    <3>2. Named(a, alert[a].case)'
      BY <1>5, <1>8, <1>10 DEF Named
    <3>3. \A b \in Alerts : Named(b, caseRef[b])'
      BY <1>5 DEF CaseworkInv, CasesNamed, Named
    <3> QED
      BY <3>1, <3>2, <3>3
  <2>2. ASSUME NEW u \in Desks
        PROVE  /\ desk'[u].step = "caseRef" =>
                    /\ caseRef'[desk'[u].alert] = NoRef
                    /\ [id |-> desk'[u].case, alert |-> desk'[u].alert] \in cases'
               /\ desk'[u].step \in {"convert", "caseRef", "update", "put"}
                    => Exists(desk[u].alert)'
               /\ desk'[u].step \in {"update", "put"}
                    => Named(desk[u].alert, desk[u].content.case)'
    <3>1. CASE u = t
      BY <1>6, <1>8, <3>1
    <3>2. CASE u # t
      <4>1. desk'[u] = desk[u]
        BY <1>8, <3>2
      <4>2. desk[u].step \in {"convert", "caseRef", "update", "put"}
              => desk[u].alert \in Alerts
        BY VisitShapes DEF CaseworkInv, CaseworkTypeOK
      <4>3. desk[u].step \in {"convert", "caseRef", "update", "put"}
              => Exists(desk[u].alert)'
        BY <1>11, <4>1, <4>2 DEF CaseworkInv, CasesNamed, Exists
      <4> QED
        BY <1>5, <4>1, <4>3 DEF CaseworkInv, CasesNamed, Named
    <3> QED
      BY <3>1, <3>2
  <2> QED
    BY <2>1, <2>2 DEF CasesNamed
<1> QED
  BY <1>7, <1>9, <1>12, <1>13, <1>14 DEF CaseworkInv

(* What was under way is gone, and one more record may be without its       *)
(* reference.                                                               *)
LEMMA RestartKeeps ==
  ASSUME CaseworkInv, Restart
  PROVE  CaseworkInv'
<1>1. /\ stops' = stops + 1 /\ stops \in Nat
      /\ desk' = [t \in Desks |-> Away] /\ workflowLock' = NoRef
      /\ UNCHANGED <<alert, cases, hitRef, caseRef>>
  BY DEF Restart, CaseworkInv, CaseworkTypeOK
<1>2. CaseworkTypeOK'
  BY <1>1 DEF CaseworkInv, CaseworkTypeOK, Visits
<1>3. \A t \in Desks : desk'[t].step = "idle"
  BY <1>1 DEF Away
<1>4. Hits' = Hits /\ \A a \in Alerts : CasesOf(a)' = CasesOf(a)
  BY <1>1 DEF Hits, Exists, CasesOf
<1>5. IsFiniteSet(Hits) /\ IsFiniteSet(cases) /\ \A a \in Alerts : IsFiniteSet(CasesOf(a))
  BY FS_Subset DEF CaseworkInv, HitsCounted, CasesCounted, CasesOf
<1>6. Cardinality(Hits) \in Nat /\ \A a \in Alerts : Cardinality(CasesOf(a)) \in Nat
  BY <1>5, FS_CardinalityType
<1>7. LockHeld' /\ HitsCounted'
  BY <1>1, <1>3, <1>4, <1>5, <1>6 DEF CaseworkInv, LockHeld, HitsCounted
<1>8. CasesCounted'
  BY <1>1, <1>4, <1>5, <1>6 DEF CaseworkInv, CasesCounted
<1>9. CasesNamed'
  BY <1>1, <1>3 DEF CaseworkInv, CasesNamed, Named
<1> QED
  BY <1>2, <1>7, <1>8, <1>9 DEF CaseworkInv

LEMMA CaseworkStep == CaseworkInv /\ [CaseworkNext]_caseworkVars => CaseworkInv'
<1> SUFFICES ASSUME CaseworkInv, [CaseworkNext]_caseworkVars PROVE CaseworkInv'
  OBVIOUS
<1>1. CASE Restart
  BY <1>1, RestartKeeps
<1>2. ASSUME NEW t \in Desks,
             \/ Materialize(t) \/ CreateAlert(t) \/ PutHitRef(t)
             \/ \E a \in Alerts : \/ Edit(t, a)
                                  \/ \E action \in {"triaged", "converted"} :
                                         Triage(t, a, action)
             \/ ReuseCase(t) \/ CreateCase(t) \/ PutCaseRef(t)
             \/ CompareVersion(t) \/ VersionConflict(t) \/ Put(t)
      PROVE  CaseworkInv'
  BY <1>2, MaterializeKeeps, CreateAlertKeeps, PutHitRefKeeps, TriageKeeps, EditKeeps,
     ReuseCaseKeeps, CreateCaseKeeps, PutCaseRefKeeps, CompareVersionKeeps,
     VersionConflictKeeps, PutKeeps
<1>3. CASE UNCHANGED caseworkVars
  BY <1>3 DEF caseworkVars, CaseworkInv, CaseworkTypeOK, LockHeld, HitsCounted, Hits,
     Exists, CasesCounted, CasesOf, Noting, CasesNamed, Named
<1> QED
  BY <1>1, <1>2, <1>3 DEF CaseworkNext

(* Calls under the lock, edits beside it and stops between a record and its *)
(* reference keep the account of what was made of a hit and of an alert.    *)
THEOREM CaseworkInvHolds == CaseworkSpec => []CaseworkInv
<1>1. CaseworkInit => CaseworkInv
  BY CaseworkInit1
<1> QED
  BY <1>1, CaseworkStep, PTL DEF CaseworkSpec

(* A hit becomes one alert and an alert one case, but for one more each     *)
(* time the program stopped between the two writes, and an alert names the  *)
(* case of its reference (materialize_rule_hits and triage_alert in         *)
(* v9/service.py), for any number of calls, records and stops.              *)
THEOREM AlertsHaveOneCase == CaseworkSpec => []OneCasePerAlert
<1>1. CaseworkInv => OneCasePerAlert
  BY DEF CaseworkInv, HitsCounted, Hits, CasesCounted, CasesOf, CasesNamed, Named,
     OneCasePerAlert
<1> QED
  BY <1>1, CaseworkInvHolds, PTL

-----------------------------------------------------------------------------
(* The Feishu webhook.                                                      *)

DeliveryRow == [state : {"none", "leased", "completed"}, token : Nat, over : BOOLEAN]

WebhookJob ==
    [event : Events, token : Nat,
     step : {"admit", "handle", "work", "close", "teardown"},
     slot : {"none", "held", "released"}]

WebhookTypeOK ==
    /\ store \in [Events -> DeliveryRow]
    /\ completed \in Seq(Events)
    /\ jobs \in SUBSET WebhookJob
    /\ inflight \in Int
    /\ tokens \in Nat

(* The queue of completed rows names each once, and none that a lease       *)
(* covers: what is evicted or forgotten is done.                            *)
CompletedOnce ==
    /\ \A i \in 1 .. Len(completed) :
           store[completed[i]].state = "completed" /\ ~store[completed[i]].over
    /\ \A i, k \in 1 .. Len(completed) : completed[i] = completed[k] => i = k

Holders == {j \in jobs : j.slot = "held"}

(* A claim token is drawn once, so two deliveries are never one job.        *)
SlotsCounted ==
    /\ IsFiniteSet(jobs)
    /\ \A j \in jobs : /\ j.token <= tokens
                       /\ j.step \in {"admit", "close"} => j.slot # "held"
    /\ \A j, k \in jobs : j.token = k.token => j = k
    /\ inflight = Cardinality(Holders) /\ inflight <= MaxInflight

WebhookInv == WebhookTypeOK /\ CompletedOnce /\ SlotsCounted

(* A job goes on, keeping its token.                                        *)
LEMMA MoveCounts ==
  ASSUME WebhookInv, NEW j \in jobs, NEW k \in WebhookJob, Move(j, k), tokens' = tokens,
         k.token = j.token, k.step # "admit", k.step = "close" => k.slot # "held",
         \/ j.slot = "held" /\ k.slot = "held" /\ inflight' = inflight
         \/ j.slot # "held" /\ k.slot # "held" /\ inflight' = inflight
         \/ j.slot = "held" /\ k.slot # "held" /\ inflight' = inflight - 1
         \/ /\ j.slot # "held" /\ k.slot = "held" /\ inflight' = inflight + 1
            /\ inflight < MaxInflight
  PROVE  SlotsCounted'
<1>1. /\ IsFiniteSet(jobs) /\ inflight = Cardinality(Holders) /\ inflight \in Int
      /\ inflight <= MaxInflight
      /\ \A i \in jobs : i.token <= tokens /\ (i.step \in {"admit", "close"} => i.slot # "held")
      /\ \A i, l \in jobs : i.token = l.token => i = l
  BY DEF WebhookInv, SlotsCounted, WebhookTypeOK
<1>2. jobs' = (jobs \ {j}) \cup {k}
  BY DEF Move
<1>3. IsFiniteSet(jobs') /\ IsFiniteSet(Holders)
  BY <1>1, <1>2, FS_AddElement, FS_RemoveElement, FS_Subset DEF Holders
<1>4. \A i \in jobs \ {j} : i.token # k.token
  BY <1>1
<1>5. \A i \in jobs' : i.token <= tokens' /\ (i.step \in {"admit", "close"} => i.slot # "held")
  BY <1>1, <1>2
<1>6. \A i, l \in jobs' : i.token = l.token => i = l
  BY <1>1, <1>2, <1>4
<1>7. Cardinality(Holders) \in Nat
  BY <1>3, FS_CardinalityType
<1>8. k \notin jobs \ {j}
  BY <1>4
<1>9. inflight' = Cardinality(Holders') /\ inflight' <= MaxInflight
  <2>1. CASE j.slot = "held" /\ k.slot = "held" /\ inflight' = inflight
    <3>1. Holders' = (Holders \ {j}) \cup {k} /\ j \in Holders /\ k \notin Holders \ {j}
      BY <1>2, <1>8, <2>1 DEF Holders
    <3>2. /\ Cardinality(Holders \ {j}) = Cardinality(Holders) - 1
          /\ IsFiniteSet(Holders \ {j})
      BY <1>3, <3>1, FS_RemoveElement
    <3>3. Cardinality(Holders') = Cardinality(Holders \ {j}) + 1
      BY <3>1, <3>2, FS_AddElement
    <3> QED
      BY <1>1, <1>7, <2>1, <3>2, <3>3
  <2>2. CASE j.slot # "held" /\ k.slot # "held" /\ inflight' = inflight
    <3>1. Holders' = Holders
      BY <1>2, <2>2 DEF Holders
    <3> QED
      BY <1>1, <2>2, <3>1
  <2>3. CASE j.slot = "held" /\ k.slot # "held" /\ inflight' = inflight - 1
    <3>1. Holders' = Holders \ {j} /\ j \in Holders
      BY <1>2, <2>3 DEF Holders
    <3>2. Cardinality(Holders \ {j}) = Cardinality(Holders) - 1
      BY <1>3, <3>1, FS_RemoveElement
    <3> QED
      BY <1>1, <1>7, <2>3, <3>1, <3>2, WebhookAssumption
  <2>4. CASE /\ j.slot # "held" /\ k.slot = "held" /\ inflight' = inflight + 1
             /\ inflight < MaxInflight
    <3>1. Holders' = Holders \cup {k} /\ k \notin Holders
      BY <1>2, <1>8, <2>4 DEF Holders
    <3>2. Cardinality(Holders \cup {k}) = Cardinality(Holders) + 1
      BY <1>3, <3>1, FS_AddElement
    <3> QED
      BY <1>1, <1>7, <2>4, <3>1, <3>2, WebhookAssumption
  <2> QED
    BY <2>1, <2>2, <2>3, <2>4
<1> QED
  BY <1>3, <1>5, <1>6, <1>9 DEF SlotsCounted

(* A job ends, and its slot with it.                                        *)
LEMMA DropCounts ==
  ASSUME WebhookInv, NEW j \in jobs, Drop(j), tokens' = tokens,
         \/ j.slot # "held" /\ inflight' = inflight
         \/ j.slot = "held" /\ inflight' = inflight - 1
  PROVE  SlotsCounted'
<1>1. /\ IsFiniteSet(jobs) /\ inflight = Cardinality(Holders) /\ inflight \in Int
      /\ inflight <= MaxInflight
      /\ \A i \in jobs : i.token <= tokens /\ (i.step \in {"admit", "close"} => i.slot # "held")
      /\ \A i, l \in jobs : i.token = l.token => i = l
  BY DEF WebhookInv, SlotsCounted, WebhookTypeOK
<1>2. jobs' = jobs \ {j}
  BY DEF Drop
<1>3. IsFiniteSet(jobs') /\ IsFiniteSet(Holders) /\ Cardinality(Holders) \in Nat
  BY <1>1, <1>2, FS_RemoveElement, FS_Subset, FS_CardinalityType DEF Holders
<1>4. inflight' = Cardinality(Holders') /\ inflight' <= MaxInflight
  <2>1. CASE j.slot # "held" /\ inflight' = inflight
    <3>1. Holders' = Holders
      BY <1>2, <2>1 DEF Holders
    <3> QED
      BY <1>1, <2>1, <3>1
  <2>2. CASE j.slot = "held" /\ inflight' = inflight - 1
    <3>1. Holders' = Holders \ {j} /\ j \in Holders
      BY <1>2, <2>2 DEF Holders
    <3>2. Cardinality(Holders \ {j}) = Cardinality(Holders) - 1
      BY <1>3, <3>1, FS_RemoveElement
    <3> QED
      BY <1>1, <1>3, <2>2, <3>1, <3>2, WebhookAssumption
  <2> QED
    BY <2>1, <2>2
<1> QED
  BY <1>1, <1>2, <1>3, <1>4 DEF SlotsCounted

(* What may happen to the row of an event.                                  *)
LeaseKept ==
    \A e \in Events :
        store[e].state = "leased" /\ ~store[e].over /\ store'[e] # store[e]
            => \/ store'[e].over
               \/ \E j \in jobs : /\ j.event = e /\ j.token = store[e].token
                                  /\ j \notin jobs'

LEMMA CompleteKeeps ==
  ASSUME WebhookInv, NEW j \in jobs, CompleteEvent(j)
  PROVE  /\ store' \in [Events -> DeliveryRow] /\ completed' \in Seq(Events)
         /\ CompletedOnce'
         /\ \A e \in Events : store'[e] # store[e]
              => j.event = e /\ j.token = store[e].token
<1>1. /\ store \in [Events -> DeliveryRow] /\ completed \in Seq(Events)
      /\ j.event \in Events
  BY DEF WebhookInv, WebhookTypeOK, WebhookJob
<1>2. CASE ~HoldsEvent(j)
  BY <1>1, <1>2 DEF CompleteEvent, WebhookInv, CompletedOnce
<1>3. CASE HoldsEvent(j)
  <2>1. PICK e \in Events : e = j.event
    BY <1>1
  <2>2. PICK r : r = [state |-> "completed", token |-> 0, over |-> FALSE]
    OBVIOUS
  <2>3. r \in DeliveryRow /\ r.state = "completed" /\ ~r.over
    BY <2>2 DEF DeliveryRow
  <2>4. store' = [store EXCEPT ![e] = r] /\ completed' = Append(completed, e)
    BY <1>3, <2>1, <2>2 DEF CompleteEvent
  <2>5. store[e].state = "leased" /\ store[e].token = j.token
    BY <1>3, <2>1 DEF HoldsEvent
  <2>6. \A i \in 1 .. Len(completed) : completed[i] \in Events /\ completed[i] # e
    BY <1>1, <2>5, ElementOfSeq DEF WebhookInv, CompletedOnce
  <2>7. /\ completed' \in Seq(Events) /\ Len(completed') = Len(completed) + 1
        /\ \A i \in 1 .. Len(completed) : completed'[i] = completed[i]
        /\ completed'[Len(completed) + 1] = e /\ Len(completed) \in Nat
    BY <1>1, <2>4, AppendProperties, LenProperties
  <2>8. CompletedOnce'
    <3>1. ASSUME NEW i \in 1 .. Len(completed')
          PROVE  store'[completed'[i]].state = "completed" /\ ~store'[completed'[i]].over
      <4>1. CASE i \in 1 .. Len(completed)
        BY <1>1, <2>4, <2>6, <2>7, <4>1 DEF WebhookInv, CompletedOnce
      <4>2. CASE i = Len(completed) + 1
        BY <1>1, <2>3, <2>4, <2>7, <4>2
      <4> QED
        BY <2>7, <4>1, <4>2
    <3>2. ASSUME NEW i \in 1 .. Len(completed'), NEW k \in 1 .. Len(completed'),
                 completed'[i] = completed'[k]
          PROVE  i = k
      <4>1. CASE i \in 1 .. Len(completed) /\ k \in 1 .. Len(completed)
        BY <2>7, <3>2, <4>1 DEF WebhookInv, CompletedOnce
      <4>2. CASE i \in 1 .. Len(completed) /\ k = Len(completed) + 1
        BY <2>6, <2>7, <3>2, <4>2
      <4>3. CASE k \in 1 .. Len(completed) /\ i = Len(completed) + 1
        BY <2>6, <2>7, <3>2, <4>3
      <4> QED
        BY <2>7, <4>1, <4>2, <4>3
    <3> QED
      BY <3>1, <3>2 DEF CompletedOnce
  <2> QED
    BY <1>1, <2>1, <2>3, <2>4, <2>5, <2>7, <2>8
<1> QED
  BY <1>2, <1>3

LEMMA ReleaseKeeps ==
  ASSUME WebhookInv, NEW j \in jobs, ReleaseEvent(j)
  PROVE  /\ store' \in [Events -> DeliveryRow] /\ completed' \in Seq(Events)
         /\ CompletedOnce'
         /\ \A e \in Events : store'[e] # store[e]
              => j.event = e /\ j.token = store[e].token
<1>1. /\ store \in [Events -> DeliveryRow] /\ completed \in Seq(Events)
      /\ completed' = completed /\ j.event \in Events
  BY DEF WebhookInv, WebhookTypeOK, WebhookJob, ReleaseEvent
<1>2. CASE ~HoldsEvent(j)
  BY <1>1, <1>2 DEF ReleaseEvent, WebhookInv, CompletedOnce
<1>3. CASE HoldsEvent(j)
  <2>1. PICK e \in Events : e = j.event
    BY <1>1
  <2>2. NoDelivery \in DeliveryRow
    BY DEF DeliveryRow, NoDelivery
  <2>3. store' = [store EXCEPT ![e] = NoDelivery]
    BY <1>3, <2>1 DEF ReleaseEvent
  <2>4. store[e].state = "leased" /\ store[e].token = j.token
    BY <1>3, <2>1 DEF HoldsEvent
  <2>5. \A i \in 1 .. Len(completed) : completed[i] \in Events /\ completed[i] # e
    BY <1>1, <2>4, ElementOfSeq DEF WebhookInv, CompletedOnce
  <2>6. CompletedOnce'
    BY <1>1, <2>3, <2>5 DEF WebhookInv, CompletedOnce
  <2> QED
    BY <1>1, <2>1, <2>2, <2>3, <2>4, <2>6
<1> QED
  BY <1>2, <1>3

(* A row that is evicted or forgotten is the oldest completed one.          *)
LEMMA OldestGoes ==
  ASSUME WebhookInv, completed # <<>>, completed' = Tail(completed),
         \A e \in Events : e # Head(completed) /\ store[e].state = "completed"
            => store'[e] = store[e]
  PROVE  /\ completed' \in Seq(Events) /\ CompletedOnce'
         /\ Head(completed) \in Events /\ store[Head(completed)].state = "completed"
<1>1. completed \in Seq(Events)
  BY DEF WebhookInv, WebhookTypeOK
<1>2. /\ completed' \in Seq(Events) /\ Len(completed') = Len(completed) - 1
      /\ \A i \in 1 .. Len(completed') : completed'[i] = completed[i + 1]
      /\ Head(completed) \in Events
  BY <1>1, HeadTailProperties
<1>3. /\ Head(completed) = completed[1] /\ 1 \in 1 .. Len(completed)
      /\ Len(completed) \in Nat /\ \A i \in 1 .. Len(completed) : completed[i] \in Events
  BY <1>1, EmptySeq, LenProperties, ElementOfSeq
<1>4. ASSUME NEW i \in 1 .. Len(completed')
      PROVE  /\ i + 1 \in 1 .. Len(completed) /\ completed'[i] = completed[i + 1]
             /\ store'[completed'[i]] = store[completed[i + 1]]
  <2>1. i + 1 \in 1 .. Len(completed) /\ completed'[i] = completed[i + 1] /\ i + 1 # 1
    BY <1>2, <1>3
  <2>2. completed[i + 1] # Head(completed)
    BY <1>3, <2>1 DEF WebhookInv, CompletedOnce
  <2> QED
    BY <1>3, <2>1, <2>2 DEF WebhookInv, CompletedOnce
<1>5. CompletedOnce'
  <2>1. ASSUME NEW i \in 1 .. Len(completed')
        PROVE  store'[completed'[i]].state = "completed" /\ ~store'[completed'[i]].over
    BY <1>4 DEF WebhookInv, CompletedOnce
  <2>2. ASSUME NEW i \in 1 .. Len(completed'), NEW k \in 1 .. Len(completed'),
               completed'[i] = completed'[k]
        PROVE  i = k
    <3>1. i + 1 = k + 1
      BY <1>4, <2>2 DEF WebhookInv, CompletedOnce
    <3> QED
      BY <3>1
  <2> QED
    BY <2>1, <2>2 DEF CompletedOnce
<1> QED
  BY <1>2, <1>3, <1>5 DEF WebhookInv, CompletedOnce

(* A lease that is over is removed, and nothing else.                       *)
LEMMA PurgeKeeps ==
  ASSUME WebhookInv
  PROVE  /\ Purged \in [Events -> DeliveryRow]
         /\ \A e \in Events : ~store[e].over => Purged[e] = store[e]
         /\ \A i \in 1 .. Len(completed) :
              completed[i] \in Events /\ Purged[completed[i]] = store[completed[i]]
<1>1. store \in [Events -> DeliveryRow] /\ completed \in Seq(Events)
  BY DEF WebhookInv, WebhookTypeOK
<1>2. NoDelivery \in DeliveryRow
  BY DEF NoDelivery, DeliveryRow
<1>3. \A i \in 1 .. Len(completed) : completed[i] \in Events
  BY <1>1, ElementOfSeq
<1> QED
  BY <1>1, <1>2, <1>3 DEF Purged, WebhookInv, CompletedOnce

LEMMA WebhookInvInit == WebhookInit => WebhookInv
<1> SUFFICES ASSUME WebhookInit PROVE WebhookInv
  OBVIOUS
<1>1. WebhookTypeOK
  BY EmptySeq DEF WebhookInit, WebhookTypeOK, DeliveryRow, NoDelivery
<1>2. CompletedOnce
  BY DEF WebhookInit, CompletedOnce
<1>3. Holders = {} /\ IsFiniteSet({}) /\ Cardinality({}) = 0
  BY FS_EmptySet DEF WebhookInit, Holders
<1>4. SlotsCounted
  BY <1>3, WebhookAssumption DEF WebhookInit, SlotsCounted
<1> QED
  BY <1>1, <1>2, <1>4 DEF WebhookInv

LEMMA DeliverKeeps ==
  ASSUME WebhookInv, NEW e \in Events, Deliver(e)
  PROVE  WebhookInv' /\ LeaseKept
<1>1. /\ store \in [Events -> DeliveryRow] /\ completed \in Seq(Events)
      /\ jobs \in SUBSET WebhookJob /\ tokens \in Nat /\ inflight \in Int
  BY DEF WebhookInv, WebhookTypeOK
<1>2. PICK lease : lease = [state |-> "leased", token |-> tokens + 1, over |-> FALSE]
  OBVIOUS
<1>3. lease \in DeliveryRow
  BY <1>1, <1>2 DEF DeliveryRow
<1>4. PICK j : j = [event |-> e, token |-> tokens + 1, step |-> "admit", slot |-> "none"]
  OBVIOUS
<1>5. /\ j \in WebhookJob /\ j.event = e /\ j.token = tokens + 1 /\ j.step = "admit"
      /\ j.slot = "none"
  BY <1>1, <1>4 DEF WebhookJob
<1>6. /\ Purged[e].state = "none" /\ (Full => completed # <<>>)
      /\ store' = [x \in Events |-> 
                     IF x = e THEN lease
                     ELSE IF Full /\ x = Head(completed) THEN NoDelivery ELSE Purged[x]]
      /\ completed' = IF Full THEN Tail(completed) ELSE completed
      /\ jobs' = jobs \cup {j} /\ tokens' = tokens + 1 /\ inflight' = inflight
  BY <1>2, <1>4 DEF Deliver, Skipped
<1>7. /\ Purged \in [Events -> DeliveryRow]
      /\ \A x \in Events : ~store[x].over => Purged[x] = store[x]
      /\ \A i \in 1 .. Len(completed) :
           completed[i] \in Events /\ Purged[completed[i]] = store[completed[i]]
  BY PurgeKeeps
<1>8. store' \in [Events -> DeliveryRow]
  BY <1>3, <1>6, <1>7 DEF NoDelivery, DeliveryRow
<1>9. \A i \in 1 .. Len(completed) : completed[i] # e
  BY <1>6, <1>7 DEF WebhookInv, CompletedOnce
<1>10. /\ completed' \in Seq(Events) /\ CompletedOnce'
       /\ Full => store[Head(completed)].state = "completed"
  <2>1. CASE Full
    <3>1. PICK rest : rest = Tail(completed)
      OBVIOUS
    <3>2. completed # <<>> /\ completed' = rest
      BY <1>6, <2>1, <3>1
    <3>3. /\ Len(rest) = Len(completed) - 1
          /\ rest \in Seq(Events)
          /\ \A i \in 1 .. Len(rest) : rest[i] = completed[i + 1]
      BY <1>1, <3>1, <3>2, HeadTailProperties
    <3>4. /\ Head(completed) = completed[1] /\ 1 \in 1 .. Len(completed)
          /\ Len(completed) \in Nat
      BY <1>1, <3>2, EmptySeq, LenProperties
    <3>5. ASSUME NEW i \in 1 .. Len(rest)
          PROVE  i + 1 \in 1 .. Len(completed) /\ store'[rest[i]] = store[completed[i + 1]]
      <4>1. i + 1 \in 1 .. Len(completed) /\ rest[i] = completed[i + 1] /\ i + 1 # 1
        BY <3>3, <3>4
      <4>2. completed[i + 1] # Head(completed) /\ completed[i + 1] # e
        BY <1>9, <3>4, <4>1 DEF WebhookInv, CompletedOnce
      <4> QED
        BY <1>6, <1>7, <4>1, <4>2
    <3>6. \A i \in 1 .. Len(rest) :
            store'[rest[i]].state = "completed" /\ ~store'[rest[i]].over
      BY <3>5 DEF WebhookInv, CompletedOnce
    <3>7. ASSUME NEW i \in 1 .. Len(rest), NEW k \in 1 .. Len(rest), rest[i] = rest[k]
          PROVE  i = k
      <4>1. i + 1 = k + 1
        BY <3>3, <3>5, <3>7 DEF WebhookInv, CompletedOnce
      <4> QED
        BY <4>1
    <3> QED
      BY <3>2, <3>3, <3>4, <3>6, <3>7 DEF WebhookInv, CompletedOnce
  <2>2. CASE ~Full
    <3>1. completed' = completed
      BY <1>6, <2>2
    <3>2. \A i \in 1 .. Len(completed) : store'[completed[i]] = store[completed[i]]
      BY <1>6, <1>7, <1>9, <2>2
    <3> QED
      BY <1>1, <2>2, <3>1, <3>2 DEF WebhookInv, CompletedOnce
  <2> QED
    BY <2>1, <2>2
<1>11. WebhookTypeOK'
  BY <1>1, <1>5, <1>6, <1>8, <1>10 DEF WebhookTypeOK
<1>12. SlotsCounted'
  <2>1. \A i \in jobs : i.token <= tokens /\ i.token \in Nat
    BY <1>1 DEF WebhookInv, SlotsCounted, WebhookJob
  <2>2. IsFiniteSet(jobs') /\ Holders' = Holders
    BY <1>5, <1>6, FS_AddElement DEF WebhookInv, SlotsCounted, Holders
  <2>3. \A i \in jobs' : i.token <= tokens' /\ (i.step \in {"admit", "close"} => i.slot # "held")
    BY <1>1, <1>5, <1>6, <2>1 DEF WebhookInv, SlotsCounted
  <2>4. \A i, k \in jobs' : i.token = k.token => i = k
    BY <1>1, <1>5, <1>6, <2>1 DEF WebhookInv, SlotsCounted
  <2> QED
    BY <1>6, <2>2, <2>3, <2>4 DEF WebhookInv, SlotsCounted
<1>13. LeaseKept
  BY <1>6, <1>7, <1>10 DEF LeaseKept
<1> QED
  BY <1>10, <1>11, <1>12, <1>13 DEF WebhookInv

(* The event's row changes only by the job that leaves.                     *)
LEMMA JobLeaves ==
  ASSUME WebhookInv, NEW j \in jobs, j \notin jobs',
         CompleteEvent(j) \/ ReleaseEvent(j) \/ UNCHANGED <<store, completed>>
  PROVE  LeaseKept
<1>1. CASE CompleteEvent(j)
  BY <1>1, CompleteKeeps DEF LeaseKept
<1>2. CASE ReleaseEvent(j)
  BY <1>2, ReleaseKeeps DEF LeaseKept
<1>3. CASE UNCHANGED <<store, completed>>
  BY <1>3 DEF LeaseKept
<1> QED
  BY <1>1, <1>2, <1>3

LEMMA RowsKept ==
  ASSUME WebhookInv, NEW j \in jobs,
         CompleteEvent(j) \/ ReleaseEvent(j) \/ UNCHANGED <<store, completed>>
  PROVE  /\ store' \in [Events -> DeliveryRow] /\ completed' \in Seq(Events)
         /\ CompletedOnce'
<1>1. CASE CompleteEvent(j)
  BY <1>1, CompleteKeeps
<1>2. CASE ReleaseEvent(j)
  BY <1>2, ReleaseKeeps
<1>3. CASE UNCHANGED <<store, completed>>
  BY <1>3 DEF WebhookInv, WebhookTypeOK, CompletedOnce
<1> QED
  BY <1>1, <1>2, <1>3

LEMMA MoveKeeps ==
  ASSUME WebhookInv, NEW j \in jobs, NEW k \in WebhookJob, Move(j, k), tokens' = tokens,
         CompleteEvent(j) \/ ReleaseEvent(j) \/ UNCHANGED <<store, completed>>,
         k.token = j.token, k.step \notin {"admit", j.step},
         k.step = "close" => k.slot # "held",
         \/ j.slot = "held" /\ k.slot = "held" /\ inflight' = inflight
         \/ j.slot # "held" /\ k.slot # "held" /\ inflight' = inflight
         \/ j.slot = "held" /\ k.slot # "held" /\ inflight' = inflight - 1
         \/ /\ j.slot # "held" /\ k.slot = "held" /\ inflight' = inflight + 1
            /\ inflight < MaxInflight
  PROVE  WebhookInv' /\ LeaseKept
<1>1. SlotsCounted'
  BY MoveCounts
<1>2. j \notin jobs' /\ jobs' \in SUBSET WebhookJob
  BY DEF Move, WebhookInv, WebhookTypeOK
<1>3. LeaseKept
  BY <1>2, JobLeaves
<1>4. /\ store' \in [Events -> DeliveryRow] /\ completed' \in Seq(Events)
      /\ CompletedOnce'
  BY RowsKept
<1>5. inflight' \in Int /\ tokens' \in Nat
  BY DEF WebhookInv, WebhookTypeOK
<1> QED
  BY <1>1, <1>2, <1>3, <1>4, <1>5 DEF WebhookInv, WebhookTypeOK

LEMMA DropKeeps ==
  ASSUME WebhookInv, NEW j \in jobs, Drop(j), tokens' = tokens,
         CompleteEvent(j) \/ ReleaseEvent(j) \/ UNCHANGED <<store, completed>>,
         \/ j.slot # "held" /\ inflight' = inflight
         \/ j.slot = "held" /\ inflight' = inflight - 1
  PROVE  WebhookInv' /\ LeaseKept
<1>1. SlotsCounted'
  BY DropCounts
<1>2. j \notin jobs' /\ jobs' \in SUBSET WebhookJob
  BY DEF Drop, WebhookInv, WebhookTypeOK
<1>3. LeaseKept
  BY <1>2, JobLeaves
<1>4. /\ store' \in [Events -> DeliveryRow] /\ completed' \in Seq(Events)
      /\ CompletedOnce'
  BY RowsKept
<1>5. inflight' \in Int /\ tokens' \in Nat
  BY DEF WebhookInv, WebhookTypeOK
<1> QED
  BY <1>1, <1>2, <1>3, <1>4, <1>5 DEF WebhookInv, WebhookTypeOK

LEMMA ServeKeeps ==
  ASSUME WebhookInv, NEW j \in jobs, Serve(j)
  PROVE  WebhookInv' /\ LeaseKept
<1>1. /\ j \in WebhookJob /\ inflight \in Int
      /\ j.step \in {"admit", "close"} => j.slot # "held"
  BY DEF WebhookInv, WebhookTypeOK, SlotsCounted
<1>2. CASE Admit(j)
  <2>1. PICK k : k = [j EXCEPT !.step = "handle", !.slot = "held"]
    OBVIOUS
  <2>2. k \in WebhookJob /\ k.token = j.token /\ k.step = "handle" /\ k.slot = "held"
    BY <1>1, <2>1 DEF WebhookJob
  <2>3. /\ Move(j, k) /\ tokens' = tokens /\ UNCHANGED <<store, completed>>
        /\ j.step = "admit" /\ inflight' = inflight + 1 /\ inflight < MaxInflight
    BY <1>2, <2>1 DEF Admit
  <2> QED
    BY <1>1, <2>2, <2>3, MoveKeeps
<1>3. CASE NotAdmitted(j)
  <2>1. /\ Drop(j) /\ tokens' = tokens /\ ReleaseEvent(j) /\ inflight' = inflight
        /\ j.slot # "held"
    BY <1>1, <1>3 DEF NotAdmitted
  <2> QED
    BY <2>1, DropKeeps
<1>4. CASE AnswerNow(j) \/ QueueFails(j)
  <2>1. PICK k : k = [j EXCEPT !.step = "teardown", !.slot = "released"]
    OBVIOUS
  <2>2. k \in WebhookJob /\ k.token = j.token /\ k.step = "teardown" /\ k.slot = "released"
    BY <1>1, <2>1 DEF WebhookJob
  <2>3. /\ Move(j, k) /\ tokens' = tokens /\ (CompleteEvent(j) \/ ReleaseEvent(j))
        /\ j.step = "handle"
        /\ inflight' = IF j.slot = "held" THEN inflight - 1 ELSE inflight
    BY <1>4, <2>1 DEF AnswerNow, QueueFails, ReleaseSlot
  <2> QED
    BY <2>2, <2>3, MoveKeeps
<1>5. CASE QueueJob(j)
  <2>1. PICK k : k = [j EXCEPT !.step = "work"]
    OBVIOUS
  <2>2. k \in WebhookJob /\ k.token = j.token /\ k.step = "work" /\ k.slot = j.slot
    BY <1>1, <2>1 DEF WebhookJob
  <2>3. /\ Move(j, k) /\ tokens' = tokens /\ UNCHANGED <<store, completed>>
        /\ j.step = "handle" /\ inflight' = inflight
    BY <1>5, <2>1 DEF QueueJob
  <2> QED
    BY <2>2, <2>3, MoveKeeps
<1>6. CASE HandlerFails(j)
  <2>1. PICK k : k = [j EXCEPT !.step = "teardown"]
    OBVIOUS
  <2>2. k \in WebhookJob /\ k.token = j.token /\ k.step = "teardown" /\ k.slot = j.slot
    BY <1>1, <2>1 DEF WebhookJob
  <2>3. /\ Move(j, k) /\ tokens' = tokens /\ UNCHANGED <<store, completed>>
        /\ j.step = "handle" /\ inflight' = inflight
    BY <1>6, <2>1 DEF HandlerFails
  <2> QED
    BY <2>2, <2>3, MoveKeeps
<1>7. CASE Teardown(j)
  <2>1. /\ Drop(j) /\ tokens' = tokens
        /\ ReleaseEvent(j) \/ UNCHANGED <<store, completed>>
        /\ inflight' = IF j.slot = "held" THEN inflight - 1 ELSE inflight
    BY <1>7 DEF Teardown, ReleaseSlot
  <2> QED
    BY <2>1, DropKeeps
<1>8. CASE WorkEnds(j)
  <2>1. PICK k : k = [j EXCEPT !.step = "close", !.slot = "released"]
    OBVIOUS
  <2>2. k \in WebhookJob /\ k.token = j.token /\ k.step = "close" /\ k.slot = "released"
    BY <1>1, <2>1 DEF WebhookJob
  <2>3. /\ Move(j, k) /\ tokens' = tokens /\ UNCHANGED <<store, completed>>
        /\ j.step = "work"
        /\ inflight' = IF j.slot = "held" THEN inflight - 1 ELSE inflight
    BY <1>8, <2>1 DEF WorkEnds, ReleaseSlot
  <2> QED
    BY <2>2, <2>3, MoveKeeps
<1>9. CASE CloseLease(j)
  <2>1. /\ Drop(j) /\ tokens' = tokens /\ (CompleteEvent(j) \/ ReleaseEvent(j))
        /\ inflight' = inflight /\ j.step = "close"
    BY <1>9 DEF CloseLease
  <2> QED
    BY <1>1, <2>1, DropKeeps
<1> QED
  BY <1>2, <1>3, <1>4, <1>5, <1>6, <1>7, <1>8, <1>9 DEF Serve

LEMMA WebhookStep ==
  ASSUME WebhookInv, [WebhookNext]_webhookVars
  PROVE  WebhookInv' /\ LeaseKept
<1>1. ASSUME NEW e \in Events, Deliver(e) PROVE WebhookInv' /\ LeaseKept
  BY <1>1, DeliverKeeps
<1>2. ASSUME NEW e \in Events, DeliverAgain(e) PROVE WebhookInv' /\ LeaseKept
  <2>1. store' = Purged /\ UNCHANGED <<completed, jobs, inflight, tokens>>
    BY <1>2 DEF DeliverAgain
  <2>2. /\ Purged \in [Events -> DeliveryRow]
        /\ \A x \in Events : ~store[x].over => Purged[x] = store[x]
        /\ \A i \in 1 .. Len(completed) :
             completed[i] \in Events /\ Purged[completed[i]] = store[completed[i]]
    BY PurgeKeeps
  <2>3. WebhookTypeOK' /\ SlotsCounted'
    BY <2>1, <2>2 DEF WebhookInv, WebhookTypeOK, SlotsCounted, Holders
  <2>4. CompletedOnce'
    BY <2>1, <2>2 DEF WebhookInv, CompletedOnce
  <2>5. LeaseKept
    BY <2>1, <2>2 DEF LeaseKept
  <2> QED
    BY <2>3, <2>4, <2>5 DEF WebhookInv
<1>3. ASSUME NEW e \in Events, LeaseRunsOut(e) PROVE WebhookInv' /\ LeaseKept
  <2>1. /\ store[e].state = "leased" /\ store' = [store EXCEPT ![e].over = TRUE]
        /\ UNCHANGED <<completed, jobs, inflight, tokens>>
    BY <1>3 DEF LeaseRunsOut
  <2>2. WebhookTypeOK' /\ SlotsCounted'
    BY <2>1 DEF WebhookInv, WebhookTypeOK, SlotsCounted, Holders, DeliveryRow
  <2>3. \A x \in Events : x # e => store'[x] = store[x]
    BY <2>1 DEF WebhookInv, WebhookTypeOK
  <2>4. store'[e].over
    BY <2>1 DEF WebhookInv, WebhookTypeOK, DeliveryRow
  <2>5. \A i \in 1 .. Len(completed) : completed[i] \in Events /\ completed[i] # e
    BY <2>1, ElementOfSeq DEF WebhookInv, WebhookTypeOK, CompletedOnce
  <2>6. CompletedOnce'
    BY <2>1, <2>3, <2>5 DEF WebhookInv, CompletedOnce
  <2>7. LeaseKept
    BY <2>3, <2>4 DEF LeaseKept
  <2> QED
    BY <2>2, <2>6, <2>7 DEF WebhookInv
<1>4. ASSUME NEW j \in jobs, Serve(j) PROVE WebhookInv' /\ LeaseKept
  BY <1>4, ServeKeeps
<1>5. CASE Forget
  <2>1. PICK e : e = Head(completed)
    OBVIOUS
  <2>2. /\ completed # <<>> /\ completed' = Tail(completed)
        /\ store' = [store EXCEPT ![e] = NoDelivery]
        /\ UNCHANGED <<jobs, inflight, tokens>>
    BY <1>5, <2>1 DEF Forget
  <2>3. \A x \in Events : x # e => store'[x] = store[x]
    BY <2>2 DEF WebhookInv, WebhookTypeOK
  <2>4. /\ completed' \in Seq(Events) /\ CompletedOnce'
        /\ e \in Events /\ store[e].state = "completed"
    BY <2>1, <2>2, <2>3, OldestGoes
  <2>5. WebhookTypeOK' /\ SlotsCounted'
    BY <2>2, <2>4 DEF WebhookInv, WebhookTypeOK, SlotsCounted, Holders, DeliveryRow,
       NoDelivery
  <2>6. LeaseKept
    BY <2>3, <2>4 DEF LeaseKept
  <2> QED
    BY <2>4, <2>5, <2>6 DEF WebhookInv
<1>6. CASE ProcessStops
  <2>1. jobs' = {} /\ inflight' = 0 /\ UNCHANGED <<store, completed, tokens>>
    BY <1>6 DEF ProcessStops
  <2>2. Holders' = {} /\ IsFiniteSet({}) /\ Cardinality({}) = 0
    BY <2>1, FS_EmptySet DEF Holders
  <2>3. SlotsCounted'
    BY <2>1, <2>2, WebhookAssumption DEF SlotsCounted
  <2>4. WebhookTypeOK' /\ CompletedOnce' /\ LeaseKept
    BY <2>1 DEF WebhookInv, WebhookTypeOK, CompletedOnce, LeaseKept
  <2> QED
    BY <2>3, <2>4 DEF WebhookInv
<1>7. CASE UNCHANGED webhookVars
  <2>1. WebhookInv'
    BY <1>7 DEF webhookVars, WebhookInv, WebhookTypeOK, CompletedOnce, SlotsCounted,
       Holders
  <2>2. LeaseKept
    BY <1>7 DEF webhookVars, LeaseKept
  <2> QED
    BY <2>1, <2>2
<1> QED
  BY <1>1, <1>2, <1>3, <1>4, <1>5, <1>6, <1>7 DEF WebhookNext

(* Deliveries, workers, expiries, evictions and stops keep the rows, their  *)
(* queue and the slots in step.                                             *)
THEOREM WebhookInvHolds == WebhookSpec => []WebhookInv
<1>1. WebhookInit => WebhookInv
  BY WebhookInvInit
<1>2. WebhookInv /\ [WebhookNext]_webhookVars => WebhookInv'
  BY WebhookStep
<1> QED
  BY <1>1, <1>2, PTL DEF WebhookSpec

(* While a lease runs, only the job that holds it ends it, and in ending it *)
(* the job is over: a late worker touches nobody else's event, and a full   *)
(* store evicts nothing that is in work (feishu_webhook_security.py).       *)
THEOREM LeasesEndByHolder == WebhookSpec => LeaseIsItsHolders
<1>1. WebhookInv /\ [WebhookNext]_webhookVars => LeaseKept
  BY WebhookStep
<1>2. WebhookInv /\ [WebhookNext]_webhookVars
        => [\A e \in Events :
              store[e].state = "leased" /\ ~store[e].over /\ store'[e] # store[e]
                => \/ store'[e].over
                   \/ \E j \in jobs : /\ j.event = e /\ j.token = store[e].token
                                      /\ j \notin jobs']_webhookVars
  BY <1>1 DEF LeaseKept
<1> QED
  BY <1>2, WebhookInvHolds, PTL DEF WebhookSpec, LeaseIsItsHolders

(* The admission controller counts exactly the slots that deliveries hold:  *)
(* none leaks and none is returned twice on any path out of the handler or  *)
(* the worker, and the count never passes its limit.                        *)
THEOREM SlotsAreExact == WebhookSpec => []SlotsExact
<1>1. WebhookInv => SlotsExact
  <2> SUFFICES ASSUME WebhookInv PROVE SlotsExact
    OBVIOUS
  <2>1. IsFiniteSet(Holders) /\ Holders = {j \in jobs : j.slot = "held"}
    BY FS_Subset DEF WebhookInv, SlotsCounted, Holders
  <2>2. Cardinality(Holders) \in Nat
    BY <2>1, FS_CardinalityType
  <2> QED
    BY <2>1, <2>2, WebhookAssumption DEF WebhookInv, SlotsCounted, SlotsExact
<1> QED
  BY <1>1, WebhookInvHolds, PTL

-----------------------------------------------------------------------------
(* Daily budgets.                                                           *)

(* What a call may have reserved, a line of the ledger, and what a call     *)
(* may be doing.                                                            *)
Reservations ==
    [day : 0 .. Days, amount : 0 .. MaxAmount,
     status : {"none", "reserved", "confirmed", "released"}]

Rows == [limit : Nat \cup {NoLimit}, reserved : Int, confirmed : Int]

CallProgress ==
    [step : {"new", "tokens", "sent", "give back", "settle", "settle tokens", "release",
             "release tokens", "search", "over"},
     used : Nat]

BudgetTypeOK ==
    /\ limit \in Limits /\ today \in 1 .. Days
    /\ ledger \in [Budgets -> [1 .. Days -> Rows]]
    /\ reserved \in [Spenders -> [Budgets -> Reservations]]
    /\ progress \in [Spenders -> CallProgress]

(* What a call has reserved, by what it does next: a reservation never      *)
(* replaces another one, and a call is one call.                            *)
ReservedByStep ==
    \A c \in Spenders :
        /\ progress[c].step = "new" => \A b \in Budgets : reserved[c][b].status = "none"
        /\ progress[c].step = "tokens" => /\ reserved[c]["ai_tokens"].status = "none"
                                          /\ reserved[c]["ai_calls"].day \in 1 .. Days
        /\ \A b \in Budgets : reserved[c][b].status # "none" => reserved[c][b].day \in 1 .. Days
        /\ reserved[c]["ai_calls"].status = "reserved" => reserved[c]["ai_calls"].amount = 1

BudgetInv == BudgetTypeOK /\ ReservedByStep /\ LedgerMatches

(* What a row of the ledger sums up, of the reservations r.                 *)
OfIn(r, b, d, s) == {c \in Spenders : r[c][b].status = s /\ r[c][b].day = d}
UnitsIn(r, C, b) == UNION {{c} \X (1 .. r[c][b].amount) : c \in C}
SumIn(r, b, d, s) == Cardinality(UnitsIn(r, OfIn(r, b, d, s), b))

(* The calls are finitely many, so their sums can be counted.               *)
LEMMA SpendersFinite == IsFiniteSet(Spenders)
<1>1. IsFiniteSet(AiCalls) /\ IsFiniteSet(Searches)
  BY BudgetAssumption
<1> QED
  BY <1>1, FS_Union DEF Spenders

(* The units of any calls can be counted.                                   *)
LEMMA UnitsFinite ==
  ASSUME NEW r \in [Spenders -> [Budgets -> Reservations]], NEW b \in Budgets,
         NEW C \in SUBSET Spenders
  PROVE  IsFiniteSet(UnitsIn(r, C, b)) /\ Cardinality(UnitsIn(r, C, b)) \in Nat
<1>1. MaxAmount \in Nat
  BY BudgetAssumption
<1>2. IsFiniteSet(1 .. MaxAmount)
  BY <1>1, FS_Interval
<1>3. IsFiniteSet(Spenders \X (1 .. MaxAmount))
  BY <1>2, SpendersFinite, FS_Product
<1>4. UnitsIn(r, C, b) \subseteq Spenders \X (1 .. MaxAmount)
  <2>1. \A c \in C : r[c][b].amount \in 0 .. MaxAmount
    BY DEF Reservations
  <2>2. \A c \in C : {c} \X (1 .. r[c][b].amount) \subseteq Spenders \X (1 .. MaxAmount)
    BY <1>1, <2>1
  <2> QED
    BY <2>2 DEF UnitsIn
<1> QED
  BY <1>3, <1>4, FS_Subset, FS_CardinalityType

(* One call more or less.                                                   *)
LEMMA OneTimes ==
  ASSUME NEW c, NEW n \in Nat
  PROVE  IsFiniteSet({c} \X (1 .. n)) /\ Cardinality({c} \X (1 .. n)) = n
<1>1. PICK S, T : S = {c} /\ T = 1 .. n
  OBVIOUS
<1>2. IsFiniteSet(S) /\ Cardinality(S) = 1
  BY <1>1, FS_Singleton
<1>3. IsFiniteSet(T) /\ Cardinality(T) = n
  BY <1>1, FS_Interval
<1>4. IsFiniteSet(S \X T) /\ Cardinality(S \X T) = Cardinality(S) * Cardinality(T)
  BY <1>2, <1>3, FS_Product
<1>5. Cardinality(S \X T) = 1 * n
  BY <1>2, <1>3, <1>4
<1> QED
  BY <1>1, <1>4, <1>5

(* Without one of the calls the sum is less by its amount.                  *)
LEMMA UnitsWithout ==
  ASSUME NEW r \in [Spenders -> [Budgets -> Reservations]], NEW b \in Budgets,
         NEW C \in SUBSET Spenders, NEW c \in C
  PROVE  Cardinality(UnitsIn(r, C, b))
           = Cardinality(UnitsIn(r, C \ {c}, b)) + r[c][b].amount
<1>1. PICK n \in Nat : n = r[c][b].amount
  BY BudgetAssumption DEF Reservations
<1>2. PICK own : own = {c} \X (1 .. n)
  OBVIOUS
<1>3. PICK rest : rest = UnitsIn(r, C \ {c}, b)
  OBVIOUS
<1>4. IsFiniteSet(own) /\ Cardinality(own) = n
  BY <1>2, OneTimes
<1>5. IsFiniteSet(rest) /\ Cardinality(rest) \in Nat
  BY <1>3, UnitsFinite
<1>6. UnitsIn(r, C, b) = rest \cup own
  BY <1>1, <1>2, <1>3 DEF UnitsIn
<1>7. rest \cap own = {}
  BY <1>2, <1>3 DEF UnitsIn
<1>8. Cardinality(rest \cup own)
        = Cardinality(rest) + Cardinality(own) - Cardinality(rest \cap own)
  BY <1>4, <1>5, FS_Union
<1>9. Cardinality(rest \cap own) = 0
  BY <1>7, FS_EmptySet
<1> QED
  BY <1>1, <1>3, <1>4, <1>5, <1>6, <1>8, <1>9

(* Whether a reservation is part of a sum, and what the others make.        *)
Counts(r, c, b, d, s) == r[c][b].status = s /\ r[c][b].day = d

OthersIn(r, c, b, d, s) == Cardinality(UnitsIn(r, OfIn(r, b, d, s) \ {c}, b))

(* A sum is that of the other calls and, if it counts, this one.            *)
LEMMA SumIs ==
  ASSUME NEW r \in [Spenders -> [Budgets -> Reservations]],
         NEW c \in Spenders, NEW b \in Budgets, NEW d, NEW s
  PROVE  /\ OthersIn(r, c, b, d, s) \in Nat /\ SumIn(r, b, d, s) \in Nat
         /\ Counts(r, c, b, d, s)
              => SumIn(r, b, d, s) = OthersIn(r, c, b, d, s) + r[c][b].amount
         /\ ~Counts(r, c, b, d, s) => SumIn(r, b, d, s) = OthersIn(r, c, b, d, s)
<1>1. PICK R \in SUBSET Spenders : R = OfIn(r, b, d, s)
  BY DEF OfIn
<1>2. OthersIn(r, c, b, d, s) \in Nat /\ SumIn(r, b, d, s) \in Nat
  <2>1. R \ {c} \in SUBSET Spenders
    OBVIOUS
  <2> QED
    BY <1>1, <2>1, UnitsFinite DEF OthersIn, SumIn
<1>3. ASSUME Counts(r, c, b, d, s)
      PROVE  SumIn(r, b, d, s) = OthersIn(r, c, b, d, s) + r[c][b].amount
  <2>1. c \in R
    BY <1>1, <1>3 DEF Counts, OfIn
  <2>2. Cardinality(UnitsIn(r, R, b)) = Cardinality(UnitsIn(r, R \ {c}, b)) + r[c][b].amount
    BY <2>1, UnitsWithout
  <2> QED
    BY <1>1, <2>2 DEF SumIn, OthersIn
<1>4. ASSUME ~Counts(r, c, b, d, s) PROVE SumIn(r, b, d, s) = OthersIn(r, c, b, d, s)
  <2>1. R = R \ {c}
    BY <1>1, <1>4 DEF Counts, OfIn
  <2> QED
    BY <1>1, <2>1 DEF SumIn, OthersIn
<1> QED
  BY <1>2, <1>3, <1>4

(* Calls with the same amounts have the same units.                         *)
LEMMA UnitsOfSame ==
  ASSUME NEW r, NEW q, NEW b, NEW C, \A c \in C : q[c][b].amount = r[c][b].amount
  PROVE  UnitsIn(q, C, b) = UnitsIn(r, C, b)
  BY DEF UnitsIn

(* Two tables of reservations differ at most in one.                        *)
Alike(q, r, c, b) == \A x \in Spenders, y \in Budgets : x # c \/ y # b => q[x][y] = r[x][y]

(* A reservation that is made, settled or given back leaves the others.     *)
LEMMA OthersSame ==
  ASSUME NEW r, NEW q, NEW c \in Spenders, NEW b \in Budgets, NEW d, NEW s, Alike(q, r, c, b)
  PROVE  OthersIn(q, c, b, d, s) = OthersIn(r, c, b, d, s)
<1>1. PICK C : C = OfIn(r, b, d, s) \ {c}
  OBVIOUS
<1>2. C = OfIn(q, b, d, s) \ {c}
  BY <1>1 DEF OfIn, Alike
<1>3. UnitsIn(q, C, b) = UnitsIn(r, C, b)
  <2>1. \A x \in C : q[x][b].amount = r[x][b].amount
    BY <1>1 DEF OfIn, Alike
  <2> QED
    BY <2>1, UnitsOfSame
<1> QED
  BY <1>1, <1>2, <1>3 DEF OthersIn

(* The sums of another budget stay too.                                     *)
LEMMA OtherBudgetSame ==
  ASSUME NEW r, NEW q, NEW c \in Spenders, NEW b \in Budgets, NEW y \in Budgets, y # b,
         NEW d, NEW s, Alike(q, r, c, b)
  PROVE  SumIn(q, y, d, s) = SumIn(r, y, d, s)
<1>1. OfIn(q, y, d, s) = OfIn(r, y, d, s)
  BY DEF OfIn, Alike
<1>2. \A x \in OfIn(r, y, d, s) : q[x][y].amount = r[x][y].amount
  BY DEF OfIn, Alike
<1>3. UnitsIn(q, OfIn(r, y, d, s), y) = UnitsIn(r, OfIn(r, y, d, s), y)
  BY <1>2, UnitsOfSame
<1> QED
  BY <1>1, <1>3 DEF SumIn

(* A row says what its reservations say.                                    *)
RowMatches(line, r, b, d) ==
    /\ line.reserved = SumIn(r, b, d, "reserved")
    /\ line.confirmed = SumIn(r, b, d, "confirmed")
    /\ line.limit # NoLimit => line.reserved + line.confirmed <= line.limit

(* The ledger matches when each of its rows does, now and after a step.     *)
LEMMA MatchesByRow ==
  LedgerMatches <=> \A b \in Budgets, d \in 1 .. Days : RowMatches(ledger[b][d], reserved, b, d)
<1>1. ASSUME NEW b \in Budgets, NEW d, NEW s
      PROVE  Amount({c \in Spenders : reserved[c][b].status = s /\ reserved[c][b].day = d}, b)
               = SumIn(reserved, b, d, s)
  BY DEF Amount, Units, SumIn, UnitsIn, OfIn
<1>2. LedgerMatches <=>
        \A b \in Budgets, d \in 1 .. Days :
          /\ ledger[b][d].reserved
                = Amount({c \in Spenders : reserved[c][b].status = "reserved" /\ reserved[c][b].day = d}, b)
          /\ ledger[b][d].confirmed
                = Amount({c \in Spenders : reserved[c][b].status = "confirmed" /\ reserved[c][b].day = d}, b)
          /\ ledger[b][d].limit # NoLimit
                => ledger[b][d].reserved + ledger[b][d].confirmed <= ledger[b][d].limit
  BY DEF LedgerMatches
<1>3. ASSUME NEW b \in Budgets, NEW d \in 1 .. Days
      PROVE  /\ Amount({c \in Spenders : reserved[c][b].status = "reserved" /\ reserved[c][b].day = d}, b)
                   = SumIn(reserved, b, d, "reserved")
             /\ Amount({c \in Spenders : reserved[c][b].status = "confirmed" /\ reserved[c][b].day = d}, b)
                   = SumIn(reserved, b, d, "confirmed")
  BY <1>1
<1> QED
  BY <1>2, <1>3 DEF RowMatches

LEMMA MatchesByRowThen ==
  LedgerMatches' <=> \A b \in Budgets, d \in 1 .. Days : RowMatches(ledger'[b][d], reserved', b, d)
<1>1. ASSUME NEW b \in Budgets, NEW d \in 1 .. Days, NEW s
      PROVE  Amount({c \in Spenders : reserved[c][b].status = s /\ reserved[c][b].day = d}, b)'
               = SumIn(reserved', b, d, s)
  BY DEF Amount, Units, SumIn, UnitsIn, OfIn
<1>2. LedgerMatches' <=>
        \A b \in Budgets, d \in 1 .. Days :
          /\ ledger'[b][d].reserved
                = Amount({c \in Spenders : reserved[c][b].status = "reserved" /\ reserved[c][b].day = d}, b)'
          /\ ledger'[b][d].confirmed
                = Amount({c \in Spenders : reserved[c][b].status = "confirmed" /\ reserved[c][b].day = d}, b)'
          /\ ledger'[b][d].limit # NoLimit
                => ledger'[b][d].reserved + ledger'[b][d].confirmed <= ledger'[b][d].limit
  BY DEF LedgerMatches
<1>3. ASSUME NEW b \in Budgets, NEW d \in 1 .. Days
      PROVE  /\ Amount({c \in Spenders : reserved[c][b].status = "reserved" /\ reserved[c][b].day = d}, b)'
                   = SumIn(reserved', b, d, "reserved")
             /\ Amount({c \in Spenders : reserved[c][b].status = "confirmed" /\ reserved[c][b].day = d}, b)'
                   = SumIn(reserved', b, d, "confirmed")
  BY <1>1
<1> QED
  BY <1>2, <1>3 DEF RowMatches

(* One row and one reservation of it change.                                *)
RowChange(c, b, d, line, new) ==
    /\ ledger' = [ledger EXCEPT ![b][d] = line]
    /\ reserved' = [reserved EXCEPT ![c][b] = new]
    /\ new.day = d
    /\ reserved[c][b].status = "none" \/ reserved[c][b].day = d
    /\ RowMatches(line, reserved', b, d)

RowChanged(c, b, new) ==
    /\ LedgerMatches'
    /\ ledger' \in [Budgets -> [1 .. Days -> Rows]]
    /\ reserved' \in [Spenders -> [Budgets -> Reservations]]
    /\ \A x \in Spenders, y \in Budgets :
          reserved'[x][y] = IF x = c /\ y = b THEN new ELSE reserved[x][y]

(* The other rows then match as they did.                                   *)
LEMMA RowChanges ==
  ASSUME BudgetTypeOK, LedgerMatches, NEW c \in Spenders, NEW b \in Budgets,
         NEW d \in 1 .. Days, NEW line \in Rows, NEW new \in Reservations,
         RowChange(c, b, d, line, new)
  PROVE  RowChanged(c, b, new)
<1> USE DEF RowChange
<1>1. /\ ledger \in [Budgets -> [1 .. Days -> Rows]]
      /\ reserved \in [Spenders -> [Budgets -> Reservations]]
  BY DEF BudgetTypeOK
<1>2. /\ ledger' \in [Budgets -> [1 .. Days -> Rows]]
      /\ reserved' \in [Spenders -> [Budgets -> Reservations]]
  BY <1>1
<1>3. /\ \A x \in Spenders, y \in Budgets :
            reserved'[x][y] = IF x = c /\ y = b THEN new ELSE reserved[x][y]
      /\ \A y \in Budgets, e \in 1 .. Days :
            ledger'[y][e] = IF y = b /\ e = d THEN line ELSE ledger[y][e]
  BY <1>1
<1>4. PICK r, q \in [Spenders -> [Budgets -> Reservations]] : r = reserved /\ q = reserved'
  BY <1>1, <1>2
<1>5. Alike(q, r, c, b)
  BY <1>3, <1>4 DEF Alike
<1>6. ASSUME NEW y \in Budgets, NEW e \in 1 .. Days, NEW s \in {"reserved", "confirmed"},
             y # b \/ e # d
      PROVE  SumIn(q, y, e, s) = SumIn(r, y, e, s)
  <2>1. CASE y # b
    BY <1>5, <2>1, OtherBudgetSame
  <2>2. CASE y = b /\ e # d
    <3>1. ~Counts(r, c, b, e, s) /\ ~Counts(q, c, b, e, s)
      BY <1>3, <1>4, <2>2 DEF Counts
    <3>2. OthersIn(q, c, b, e, s) = OthersIn(r, c, b, e, s)
      BY <1>5, OthersSame
    <3> QED
      BY <2>2, <3>1, <3>2, SumIs
  <2> QED
    BY <1>6, <2>1, <2>2
<1>7. ASSUME NEW y \in Budgets, NEW e \in 1 .. Days
      PROVE  RowMatches(ledger'[y][e], q, y, e)
  <2>1. CASE y = b /\ e = d
    BY <1>3, <1>4, <2>1
  <2>2. CASE y # b \/ e # d
    <3>1. ledger'[y][e] = ledger[y][e]
      BY <1>3, <2>2
    <3>2. RowMatches(ledger[y][e], r, y, e)
      BY <1>4, MatchesByRow
    <3>3. /\ SumIn(q, y, e, "reserved") = SumIn(r, y, e, "reserved")
          /\ SumIn(q, y, e, "confirmed") = SumIn(r, y, e, "confirmed")
      BY <1>6, <2>2
    <3> QED
      BY <3>1, <3>2, <3>3 DEF RowMatches
  <2> QED
    BY <2>1, <2>2
<1>8. ASSUME NEW y \in Budgets, NEW e \in 1 .. Days
      PROVE  RowMatches(ledger'[y][e], reserved', y, e)
  <2>1. RowMatches(ledger'[y][e], q, y, e)
    BY <1>7
  <2>2. q = reserved'
    BY <1>4
  <2> QED
    BY <2>1, <2>2 DEF RowMatches
<1>9. LedgerMatches'
  BY <1>8, MatchesByRowThen
<1> QED
  BY <1>2, <1>3, <1>9 DEF RowChanged

(* A configured limit is a positive number.                                 *)
LEMMA LimitIs ==
  ASSUME BudgetTypeOK
  PROVE  limit \in Nat /\ limit > 0 /\ limit # NoLimit /\ MaxAmount \in Nat /\ MaxAmount > 0
  BY BudgetAssumption DEF BudgetTypeOK, NoLimit

(* reserve_daily_budget: what is reserved is added to the row, within its   *)
(* limit.                                                                   *)
LEMMA ReserveFits ==
  ASSUME BudgetTypeOK, LedgerMatches, NEW c \in Spenders, NEW b \in Budgets,
         NEW d \in 1 .. Days, NEW amount \in 1 .. MaxAmount,
         reserved[c][b].status = "none", Reserve(c, b, d, amount)
  PROVE  /\ LedgerMatches'
         /\ ledger' \in [Budgets -> [1 .. Days -> Rows]]
         /\ reserved' \in [Spenders -> [Budgets -> Reservations]]
         /\ \A x \in Spenders, y \in Budgets :
               reserved'[x][y] = IF x = c /\ y = b
                                 THEN [day |-> d, amount |-> amount, status |-> "reserved"]
                                 ELSE reserved[x][y]
<1>1. limit \in Nat /\ limit > 0 /\ limit # NoLimit /\ amount \in Nat /\ amount > 0
      /\ amount \in 0 .. MaxAmount
  BY LimitIs
<1>2. PICK old \in Rows : old = ledger[b][d]
  BY DEF BudgetTypeOK
<1>3. PICK line : line = [old EXCEPT !.limit = limit, !.reserved = old.reserved + amount]
  OBVIOUS
<1>4. line \in Rows /\ line.limit = limit /\ line.reserved = old.reserved + amount
      /\ line.confirmed = old.confirmed
  <2>1. old = [limit |-> old.limit, reserved |-> old.reserved, confirmed |-> old.confirmed]
        /\ old.reserved \in Int /\ old.confirmed \in Int
    BY DEF Rows
  <2>2. line = [limit |-> limit, reserved |-> old.reserved + amount, confirmed |-> old.confirmed]
    BY <1>3, <2>1
  <2> QED
    BY <1>1, <2>1, <2>2 DEF Rows
<1>5. PICK new : new = [day |-> d, amount |-> amount, status |-> "reserved"]
  OBVIOUS
<1>6. new \in Reservations /\ new.day = d /\ new.amount = amount /\ new.status = "reserved"
  BY <1>1, <1>5, BudgetAssumption DEF Reservations
<1>7. /\ ledger' = [ledger EXCEPT ![b][d] = line] /\ reserved' = [reserved EXCEPT ![c][b] = new]
      /\ old.reserved + old.confirmed + amount <= limit
  BY <1>2, <1>3, <1>5 DEF Reserve, Fits
<1>8. PICK r \in [Spenders -> [Budgets -> Reservations]] : r = reserved
  BY DEF BudgetTypeOK
<1>9. PICK q \in [Spenders -> [Budgets -> Reservations]] : q = reserved'
  BY <1>6, <1>7 DEF BudgetTypeOK
<1>10. /\ Alike(q, r, c, b)
       /\ q[c][b] = new /\ r[c][b].status = "none"
  BY <1>7, <1>8, <1>9 DEF Alike
<1>11. RowMatches(old, r, b, d)
  BY <1>2, <1>8, MatchesByRow
<1>12. SumIn(q, b, d, "reserved") = SumIn(r, b, d, "reserved") + amount
  <2>1. ~Counts(r, c, b, d, "reserved") /\ Counts(q, c, b, d, "reserved")
    BY <1>6, <1>10 DEF Counts
  <2>2. OthersIn(q, c, b, d, "reserved") = OthersIn(r, c, b, d, "reserved")
    BY <1>10, OthersSame
  <2> QED
    BY <1>6, <1>10, <2>1, <2>2, SumIs
<1>13. SumIn(q, b, d, "confirmed") = SumIn(r, b, d, "confirmed")
  <2>1. ~Counts(r, c, b, d, "confirmed") /\ ~Counts(q, c, b, d, "confirmed")
    BY <1>6, <1>10 DEF Counts
  <2>2. OthersIn(q, c, b, d, "confirmed") = OthersIn(r, c, b, d, "confirmed")
    BY <1>10, OthersSame
  <2> QED
    BY <2>1, <2>2, SumIs
<1>14. RowMatches(line, q, b, d)
  <2>1. old.reserved \in Int /\ old.confirmed \in Int
    BY DEF Rows
  <2> QED
    BY <1>1, <1>4, <1>7, <1>11, <1>12, <1>13, <2>1 DEF RowMatches
<1>15. RowMatches(line, reserved', b, d)
  BY <1>9, <1>14
<1>16. RowChange(c, b, d, line, new)
  BY <1>6, <1>7, <1>15 DEF RowChange
<1>17. RowChanged(c, b, new)
  BY <1>4, <1>6, <1>16, RowChanges
<1> QED
  BY <1>5, <1>17 DEF RowChanged

(* _finish_budget_reservation: what is settled moves from reserved to       *)
(* confirmed, and no more is confirmed than was reserved.                   *)
LEMMA SettleMatches ==
  ASSUME BudgetTypeOK, LedgerMatches, NEW c \in Spenders, NEW b \in Budgets,
         NEW amount \in Nat, Settle(c, b, amount),
         reserved[c][b].status = "reserved"
             => amount <= reserved[c][b].amount /\ reserved[c][b].day \in 1 .. Days
  PROVE  /\ LedgerMatches'
         /\ ledger' \in [Budgets -> [1 .. Days -> Rows]]
         /\ reserved' \in [Spenders -> [Budgets -> Reservations]]
         /\ \A x \in Spenders, y \in Budgets :
               \/ reserved'[x][y] = reserved[x][y]
               \/ /\ x = c /\ y = b /\ reserved[x][y].status = "reserved"
                  /\ reserved'[x][y].status = "confirmed"
                  /\ reserved'[x][y].day = reserved[x][y].day
<1>1. CASE reserved[c][b].status # "reserved"
  <2>1. UNCHANGED <<ledger, reserved>>
    BY <1>1 DEF Settle
  <2> QED
    BY <2>1, MatchesByRow, MatchesByRowThen DEF BudgetTypeOK
<1>2. CASE reserved[c][b].status = "reserved"
  <2>1. PICK o \in Reservations : o = reserved[c][b]
    BY DEF BudgetTypeOK
  <2>2. PICK d \in 1 .. Days : d = o.day
    BY <1>2, <2>1
  <2>3. amount <= o.amount /\ o.amount \in Nat /\ amount \in 0 .. MaxAmount
    BY <1>2, <2>1, BudgetAssumption DEF Reservations
  <2>4. PICK old \in Rows : old = ledger[b][d]
    BY DEF BudgetTypeOK
  <2>5. PICK line : line = [old EXCEPT !.reserved = old.reserved - o.amount,
                              !.confirmed = old.confirmed + amount]
    OBVIOUS
  <2>6. line \in Rows /\ line.limit = old.limit /\ line.reserved = old.reserved - o.amount
        /\ line.confirmed = old.confirmed + amount
    <3>1. old = [limit |-> old.limit, reserved |-> old.reserved, confirmed |-> old.confirmed]
          /\ old.reserved \in Int /\ old.confirmed \in Int /\ old.limit \in Nat \cup {NoLimit}
      BY DEF Rows
    <3>2. line = [limit |-> old.limit, reserved |-> old.reserved - o.amount,
                 confirmed |-> old.confirmed + amount]
      BY <2>5, <3>1
    <3>3. old.reserved - o.amount \in Int /\ old.confirmed + amount \in Int
      BY <2>3, <3>1
    <3> QED
      BY <3>1, <3>2, <3>3 DEF Rows
  <2>7. PICK new : new = [o EXCEPT !.amount = amount, !.status = "confirmed"]
    OBVIOUS
  <2>8. new \in Reservations /\ new.day = d /\ new.amount = amount /\ new.status = "confirmed"
    BY <2>1, <2>2, <2>3, <2>7 DEF Reservations
  <2>9. ledger' = [ledger EXCEPT ![b][d] = line] /\ reserved' = [reserved EXCEPT ![c][b] = new]
    BY <1>2, <2>1, <2>2, <2>4, <2>5, <2>7 DEF Settle
  <2>10. PICK r \in [Spenders -> [Budgets -> Reservations]] : r = reserved
    BY DEF BudgetTypeOK
  <2>11. PICK q \in [Spenders -> [Budgets -> Reservations]] : q = reserved'
    BY <2>8, <2>9 DEF BudgetTypeOK
  <2>12. /\ Alike(q, r, c, b)
         /\ q[c][b] = new /\ r[c][b] = o
    BY <2>1, <2>9, <2>10, <2>11 DEF Alike
  <2>13. RowMatches(old, r, b, d)
    BY <2>4, <2>10, MatchesByRow
  <2>14. SumIn(r, b, d, "reserved") = SumIn(q, b, d, "reserved") + o.amount
         /\ SumIn(q, b, d, "reserved") \in Nat
    <3>1. Counts(r, c, b, d, "reserved") /\ ~Counts(q, c, b, d, "reserved")
      BY <1>2, <2>1, <2>2, <2>8, <2>12 DEF Counts
    <3>2. OthersIn(q, c, b, d, "reserved") = OthersIn(r, c, b, d, "reserved")
      BY <2>12, OthersSame
    <3> QED
      BY <2>12, <3>1, <3>2, SumIs
  <2>15. SumIn(q, b, d, "confirmed") = SumIn(r, b, d, "confirmed") + amount
    <3>1. ~Counts(r, c, b, d, "confirmed") /\ Counts(q, c, b, d, "confirmed")
      BY <1>2, <2>1, <2>8, <2>12 DEF Counts
    <3>2. OthersIn(q, c, b, d, "confirmed") = OthersIn(r, c, b, d, "confirmed")
      BY <2>12, OthersSame
    <3> QED
      BY <2>8, <2>12, <3>1, <3>2, SumIs
  <2>16. RowMatches(line, q, b, d)
    <3>1. old.reserved \in Int /\ old.confirmed \in Int /\ old.limit \in Int
      BY DEF Rows, NoLimit
    <3> QED
      BY <2>3, <2>6, <2>13, <2>14, <2>15, <3>1 DEF RowMatches
  <2>17. RowMatches(line, reserved', b, d)
    BY <2>11, <2>16
  <2>18. reserved[c][b].day = d
    BY <2>1, <2>2
  <2>19. RowChange(c, b, d, line, new)
    BY <2>8, <2>9, <2>17, <2>18 DEF RowChange
  <2>20. RowChanged(c, b, new)
    BY <2>6, <2>8, <2>19, RowChanges
  <2> QED
    BY <1>2, <2>8, <2>18, <2>20 DEF RowChanged
<1> QED
  BY <1>1, <1>2

(* _finish_budget_reservation: what is given back leaves the row.           *)
LEMMA ReleaseMatches ==
  ASSUME BudgetTypeOK, LedgerMatches, NEW c \in Spenders, NEW b \in Budgets, Release(c, b),
         reserved[c][b].status = "reserved" => reserved[c][b].day \in 1 .. Days
  PROVE  /\ LedgerMatches'
         /\ ledger' \in [Budgets -> [1 .. Days -> Rows]]
         /\ reserved' \in [Spenders -> [Budgets -> Reservations]]
         /\ \A x \in Spenders, y \in Budgets :
               \/ reserved'[x][y] = reserved[x][y]
               \/ /\ x = c /\ y = b /\ reserved[x][y].status = "reserved"
                  /\ reserved'[x][y].status = "released"
                  /\ reserved'[x][y].day = reserved[x][y].day
<1>1. CASE reserved[c][b].status # "reserved"
  <2>1. UNCHANGED <<ledger, reserved>>
    BY <1>1 DEF Release
  <2> QED
    BY <2>1, MatchesByRow, MatchesByRowThen DEF BudgetTypeOK
<1>2. CASE reserved[c][b].status = "reserved"
  <2>1. PICK o \in Reservations : o = reserved[c][b]
    BY DEF BudgetTypeOK
  <2>2. PICK d \in 1 .. Days : d = o.day
    BY <1>2, <2>1
  <2>3. o.amount \in Nat
    BY BudgetAssumption DEF Reservations
  <2>4. PICK old \in Rows : old = ledger[b][d]
    BY DEF BudgetTypeOK
  <2>5. PICK line : line = [old EXCEPT !.reserved = @ - o.amount]
    OBVIOUS
  <2>6. line \in Rows /\ line.limit = old.limit /\ line.reserved = old.reserved - o.amount
        /\ line.confirmed = old.confirmed
    BY <2>3, <2>4, <2>5 DEF Rows
  <2>7. PICK new : new = [o EXCEPT !.status = "released"]
    OBVIOUS
  <2>8. new \in Reservations /\ new.day = d /\ new.status = "released"
    BY <2>1, <2>2, <2>7 DEF Reservations
  <2>9. ledger' = [ledger EXCEPT ![b][d] = line] /\ reserved' = [reserved EXCEPT ![c][b] = new]
    <3>1. /\ ledger' = [ledger EXCEPT ![b][o.day].reserved = @ - o.amount]
          /\ reserved' = [reserved EXCEPT ![c][b].status = "released"]
      BY <1>2, <2>1 DEF Release
    <3> QED
      BY <2>1, <2>2, <2>4, <2>5, <2>7, <3>1 DEF BudgetTypeOK
  <2>10. PICK r \in [Spenders -> [Budgets -> Reservations]] : r = reserved
    BY DEF BudgetTypeOK
  <2>11. PICK q \in [Spenders -> [Budgets -> Reservations]] : q = reserved'
    BY <2>8, <2>9 DEF BudgetTypeOK
  <2>12. /\ Alike(q, r, c, b)
         /\ q[c][b] = new /\ r[c][b] = o
    BY <2>1, <2>9, <2>10, <2>11 DEF Alike
  <2>13. RowMatches(old, r, b, d)
    BY <2>4, <2>10, MatchesByRow
  <2>14. SumIn(r, b, d, "reserved") = SumIn(q, b, d, "reserved") + o.amount
         /\ SumIn(q, b, d, "reserved") \in Nat
    <3>1. Counts(r, c, b, d, "reserved") /\ ~Counts(q, c, b, d, "reserved")
      BY <1>2, <2>1, <2>2, <2>8, <2>12 DEF Counts
    <3>2. OthersIn(q, c, b, d, "reserved") = OthersIn(r, c, b, d, "reserved")
      BY <2>12, OthersSame
    <3> QED
      BY <2>12, <3>1, <3>2, SumIs
  <2>15. SumIn(q, b, d, "confirmed") = SumIn(r, b, d, "confirmed")
    <3>1. ~Counts(r, c, b, d, "confirmed") /\ ~Counts(q, c, b, d, "confirmed")
      BY <1>2, <2>1, <2>8, <2>12 DEF Counts
    <3>2. OthersIn(q, c, b, d, "confirmed") = OthersIn(r, c, b, d, "confirmed")
      BY <2>12, OthersSame
    <3> QED
      BY <3>1, <3>2, SumIs
  <2>16. RowMatches(line, q, b, d)
    <3>1. old.reserved \in Int /\ old.confirmed \in Int /\ old.limit \in Int
      BY DEF Rows, NoLimit
    <3> QED
      BY <2>3, <2>6, <2>13, <2>14, <2>15, <3>1 DEF RowMatches
  <2>17. RowMatches(line, reserved', b, d)
    BY <2>11, <2>16
  <2>18. reserved[c][b].day = d
    BY <2>1, <2>2
  <2>19. RowChange(c, b, d, line, new)
    BY <2>8, <2>9, <2>17, <2>18 DEF RowChange
  <2>20. RowChanged(c, b, new)
    BY <2>6, <2>8, <2>19, RowChanges
  <2> QED
    BY <1>2, <2>8, <2>18, <2>20 DEF RowChanged
<1> QED
  BY <1>1, <1>2

(* Where a call may be.                                                     *)
Steps == {"new", "tokens", "sent", "give back", "settle", "settle tokens", "release",
          "release tokens", "search", "over"}

(* A call goes on, and nothing else about calls.                            *)
LEMMA Advances ==
  ASSUME BudgetTypeOK, NEW c \in Spenders, NEW to \in Steps, Advance(c, to)
  PROVE  /\ progress' \in [Spenders -> CallProgress]
         /\ progress'[c].step = to
         /\ \A x \in Spenders : x # c => progress'[x] = progress[x]
<1>1. PICK p \in CallProgress : p = progress[c]
  BY DEF BudgetTypeOK
<1>2. PICK new : new = [p EXCEPT !.step = to]
  OBVIOUS
<1>3. new \in CallProgress /\ new.step = to
  BY <1>2 DEF CallProgress, Steps
<1>4. progress' = [progress EXCEPT ![c] = new]
  BY <1>1, <1>2 DEF Advance, BudgetTypeOK
<1> QED
  BY <1>3, <1>4 DEF BudgetTypeOK

(* Each kind of step keeps the invariant: a reservation is made.            *)
LEMMA AfterReserve ==
  ASSUME BudgetInv, NEW c \in Spenders, NEW b \in Budgets, NEW d \in 1 .. Days,
         NEW amount \in 1 .. MaxAmount, NEW to \in Steps,
         reserved[c][b].status = "none", Reserve(c, b, d, amount), Advance(c, to),
         UNCHANGED <<limit, today>>, to # "new",
         to = "tokens" => reserved[c]["ai_tokens"].status = "none" /\ b = "ai_calls",
         b = "ai_calls" => amount = 1
  PROVE  BudgetInv'
<1>1. /\ LedgerMatches'
      /\ ledger' \in [Budgets -> [1 .. Days -> Rows]]
      /\ reserved' \in [Spenders -> [Budgets -> Reservations]]
      /\ \A x \in Spenders, y \in Budgets :
            reserved'[x][y] = IF x = c /\ y = b
                              THEN [day |-> d, amount |-> amount, status |-> "reserved"]
                              ELSE reserved[x][y]
  BY ReserveFits DEF BudgetInv
<1>2. /\ progress' \in [Spenders -> CallProgress]
      /\ progress'[c].step = to
      /\ \A x \in Spenders : x # c => progress'[x] = progress[x]
  BY Advances DEF BudgetInv
<1>3. BudgetTypeOK'
  BY <1>1, <1>2 DEF BudgetInv, BudgetTypeOK
<1>4. ReservedByStep'
  <2> SUFFICES ASSUME NEW x \in Spenders
               PROVE  /\ progress'[x].step = "new"
                           => \A y \in Budgets : reserved'[x][y].status = "none"
                      /\ progress'[x].step = "tokens"
                           => /\ reserved'[x]["ai_tokens"].status = "none"
                              /\ reserved'[x]["ai_calls"].day \in 1 .. Days
                      /\ \A y \in Budgets : reserved'[x][y].status # "none"
                                              => reserved'[x][y].day \in 1 .. Days
                      /\ reserved'[x]["ai_calls"].status = "reserved"
                           => reserved'[x]["ai_calls"].amount = 1
    BY DEF ReservedByStep
  <2>1. {"ai_calls", "ai_tokens"} \subseteq Budgets
    BY DEF Budgets
  <2>2. /\ progress[x].step = "new" => \A y \in Budgets : reserved[x][y].status = "none"
        /\ progress[x].step = "tokens" => /\ reserved[x]["ai_tokens"].status = "none"
                                          /\ reserved[x]["ai_calls"].day \in 1 .. Days
        /\ \A y \in Budgets : reserved[x][y].status # "none" => reserved[x][y].day \in 1 .. Days
        /\ reserved[x]["ai_calls"].status = "reserved" => reserved[x]["ai_calls"].amount = 1
    BY DEF BudgetInv, ReservedByStep
  <2>3. CASE x # c
    <3>1. \A y \in Budgets : reserved'[x][y] = reserved[x][y]
      BY <1>1, <2>3
    <3> QED
      BY <1>2, <2>1, <2>2, <2>3, <3>1
  <2>4. CASE x = c
    <3>1. /\ reserved'[c][b].day = d /\ reserved'[c][b].amount = amount
          /\ reserved'[c][b].status = "reserved"
      BY <1>1
    <3>2. \A y \in Budgets : y # b => reserved'[c][y] = reserved[c][y]
      BY <1>1
    <3> QED
      BY <1>2, <2>1, <2>2, <2>4, <3>1, <3>2
  <2> QED
    BY <2>3, <2>4
<1> QED
  BY <1>1, <1>3, <1>4 DEF BudgetInv

(* A reservation ends, or nothing happens to any.                           *)
Ends(c, b, how) ==
    \A x \in Spenders, y \in Budgets :
       \/ reserved'[x][y] = reserved[x][y]
       \/ /\ x = c /\ y = b /\ reserved[x][y].status = "reserved"
          /\ reserved'[x][y].status = how
          /\ reserved'[x][y].day = reserved[x][y].day

(* A reservation is settled or given back.                                  *)
LEMMA AfterEnd ==
  ASSUME BudgetInv, NEW c \in Spenders, NEW b \in Budgets, NEW how \in {"confirmed", "released"},
         NEW to \in Steps, Advance(c, to), to \notin {"new", "tokens"},
         UNCHANGED <<limit, today>>, LedgerMatches',
         ledger' \in [Budgets -> [1 .. Days -> Rows]],
         reserved' \in [Spenders -> [Budgets -> Reservations]],
         Ends(c, b, how)
  PROVE  BudgetInv'
<1>2. /\ progress' \in [Spenders -> CallProgress]
      /\ progress'[c].step = to
      /\ \A x \in Spenders : x # c => progress'[x] = progress[x]
  BY Advances DEF BudgetInv
<1>3. BudgetTypeOK'
  BY <1>2 DEF BudgetInv, BudgetTypeOK
<1>4. ReservedByStep'
  <2> SUFFICES ASSUME NEW x \in Spenders
               PROVE  /\ progress'[x].step = "new"
                           => \A y \in Budgets : reserved'[x][y].status = "none"
                      /\ progress'[x].step = "tokens"
                           => /\ reserved'[x]["ai_tokens"].status = "none"
                              /\ reserved'[x]["ai_calls"].day \in 1 .. Days
                      /\ \A y \in Budgets : reserved'[x][y].status # "none"
                                              => reserved'[x][y].day \in 1 .. Days
                      /\ reserved'[x]["ai_calls"].status = "reserved"
                           => reserved'[x]["ai_calls"].amount = 1
    BY DEF ReservedByStep
  <2>1. {"ai_calls", "ai_tokens"} \subseteq Budgets
    BY DEF Budgets
  <2>2. /\ progress[x].step = "new" => \A y \in Budgets : reserved[x][y].status = "none"
        /\ progress[x].step = "tokens" => /\ reserved[x]["ai_tokens"].status = "none"
                                          /\ reserved[x]["ai_calls"].day \in 1 .. Days
        /\ \A y \in Budgets : reserved[x][y].status # "none" => reserved[x][y].day \in 1 .. Days
        /\ reserved[x]["ai_calls"].status = "reserved" => reserved[x]["ai_calls"].amount = 1
    BY DEF BudgetInv, ReservedByStep
  <2>3. CASE x # c
    <3>1. \A y \in Budgets : reserved'[x][y] = reserved[x][y]
      BY <2>3 DEF Ends
    <3> QED
      BY <1>2, <2>1, <2>2, <2>3, <3>1
  <2>4. CASE x = c
    <3>1. \A y \in Budgets : \/ reserved'[c][y] = reserved[c][y]
                             \/ /\ reserved[c][y].status = "reserved"
                                /\ reserved'[c][y].status = how
                                /\ reserved'[c][y].day = reserved[c][y].day
      BY DEF Ends
    <3>2. how # "reserved"
      OBVIOUS
    <3> QED
      BY <1>2, <2>1, <2>2, <2>4, <3>1, <3>2
  <2> QED
    BY <2>3, <2>4
<1> QED
  BY <1>3, <1>4 DEF BudgetInv

(* A reservation is settled with no more than was reserved.                 *)
LEMMA AfterSettle ==
  ASSUME BudgetInv, NEW c \in Spenders, NEW b \in Budgets, NEW amount \in Nat,
         Settle(c, b, amount), reserved[c][b].status = "reserved" => amount <= reserved[c][b].amount,
         NEW to \in Steps, Advance(c, to), to \notin {"new", "tokens"},
         UNCHANGED <<limit, today>>
  PROVE  BudgetInv'
<1>1. reserved[c][b].status = "reserved" => reserved[c][b].day \in 1 .. Days
  BY DEF BudgetInv, ReservedByStep
<1>2. /\ LedgerMatches'
      /\ ledger' \in [Budgets -> [1 .. Days -> Rows]]
      /\ reserved' \in [Spenders -> [Budgets -> Reservations]]
      /\ Ends(c, b, "confirmed")
  BY <1>1, SettleMatches DEF BudgetInv, Ends
<1> QED
  BY <1>2, AfterEnd

(* A reservation is given back.                                             *)
LEMMA AfterRelease ==
  ASSUME BudgetInv, NEW c \in Spenders, NEW b \in Budgets, Release(c, b),
         NEW to \in Steps, Advance(c, to), to \notin {"new", "tokens"},
         UNCHANGED <<limit, today>>
  PROVE  BudgetInv'
<1>1. reserved[c][b].status = "reserved" => reserved[c][b].day \in 1 .. Days
  BY DEF BudgetInv, ReservedByStep
<1>2. /\ LedgerMatches'
      /\ ledger' \in [Budgets -> [1 .. Days -> Rows]]
      /\ reserved' \in [Spenders -> [Budgets -> Reservations]]
      /\ Ends(c, b, "released")
  BY <1>1, ReleaseMatches DEF BudgetInv, Ends
<1> QED
  BY <1>2, AfterEnd

(* Nothing is reserved or given back.                                       *)
LEMMA AfterNothing ==
  ASSUME BudgetInv, UNCHANGED <<limit, ledger, reserved>>, today' \in 1 .. Days,
         progress' \in [Spenders -> CallProgress],
         \A x \in Spenders : progress'[x].step \in {progress[x].step} \cup (Steps \ {"new", "tokens"})
  PROVE  BudgetInv'
<1>1. BudgetTypeOK'
  BY DEF BudgetInv, BudgetTypeOK
<1>2. ReservedByStep'
  <2> SUFFICES ASSUME NEW x \in Spenders
               PROVE  /\ progress'[x].step = "new"
                           => \A y \in Budgets : reserved[x][y].status = "none"
                      /\ progress'[x].step = "tokens"
                           => /\ reserved[x]["ai_tokens"].status = "none"
                              /\ reserved[x]["ai_calls"].day \in 1 .. Days
                      /\ \A y \in Budgets : reserved[x][y].status # "none"
                                              => reserved[x][y].day \in 1 .. Days
                      /\ reserved[x]["ai_calls"].status = "reserved"
                           => reserved[x]["ai_calls"].amount = 1
    BY DEF ReservedByStep
  <2>1. /\ progress[x].step = "new" => \A y \in Budgets : reserved[x][y].status = "none"
        /\ progress[x].step = "tokens" => /\ reserved[x]["ai_tokens"].status = "none"
                                          /\ reserved[x]["ai_calls"].day \in 1 .. Days
        /\ \A y \in Budgets : reserved[x][y].status # "none" => reserved[x][y].day \in 1 .. Days
        /\ reserved[x]["ai_calls"].status = "reserved" => reserved[x]["ai_calls"].amount = 1
    BY DEF BudgetInv, ReservedByStep
  <2> QED
    BY <2>1
<1>3. LedgerMatches'
  <2>1. \A y \in Budgets, e \in 1 .. Days : RowMatches(ledger[y][e], reserved, y, e)
    BY MatchesByRow DEF BudgetInv
  <2>2. ledger' = ledger /\ reserved' = reserved
    OBVIOUS
  <2>3. \A y \in Budgets, e \in 1 .. Days : RowMatches(ledger'[y][e], reserved', y, e)
    BY <2>1, <2>2
  <2> QED
    BY <2>3, MatchesByRowThen
<1> QED
  BY <1>1, <1>2, <1>3 DEF BudgetInv

(* A new start gives back what is still reserved: the rows it corrects      *)
(* then have nothing reserved, and what was confirmed stays.                *)
LEMMA StartKeeps ==
  ASSUME BudgetInv, Start
  PROVE  BudgetInv'
<1> DEFINE line(b, d) == [ledger[b][d] EXCEPT !.reserved = @ - Amount(LeftReserved(b, d), b)]
<1>1. /\ ledger' = [b \in Budgets |-> [d \in 1 .. Days |-> line(b, d)]]
      /\ reserved' = [c \in Spenders |-> [b \in Budgets |-> Released(c, b)]]
      /\ limit' \in Limits /\ today' = today /\ progress' = progress
  BY DEF Start
<1>2. PICK r \in [Spenders -> [Budgets -> Reservations]] : r = reserved
  BY DEF BudgetInv, BudgetTypeOK
<1>3. ASSUME NEW c \in Spenders, NEW b \in Budgets
      PROVE  /\ Released(c, b) \in Reservations
             /\ Released(c, b).day = r[c][b].day /\ Released(c, b).amount = r[c][b].amount
             /\ r[c][b].status = "reserved" => Released(c, b).status = "released"
             /\ r[c][b].status # "reserved" => Released(c, b).status = r[c][b].status
  <2>1. PICK o \in Reservations : o = reserved[c][b]
    BY DEF BudgetInv, BudgetTypeOK
  <2>2. CASE o.status = "reserved"
    <3>1. Released(c, b) = [o EXCEPT !.status = "released"]
      BY <2>1, <2>2 DEF Released
    <3> QED
      BY <1>2, <2>1, <2>2, <3>1 DEF Reservations
  <2>3. CASE o.status # "reserved"
    <3>1. Released(c, b) = o
      BY <2>1, <2>3 DEF Released
    <3> QED
      BY <1>2, <2>1, <2>3, <3>1
  <2> QED
    BY <2>2, <2>3
<1>4. PICK q \in [Spenders -> [Budgets -> Reservations]] : q = reserved'
  BY <1>1, <1>3
<1>5. ASSUME NEW c \in Spenders, NEW b \in Budgets
      PROVE  /\ q[c][b].day = r[c][b].day /\ q[c][b].amount = r[c][b].amount
             /\ r[c][b].status = "reserved" => q[c][b].status = "released"
             /\ r[c][b].status # "reserved" => q[c][b].status = r[c][b].status
  <2>1. q[c][b] = Released(c, b)
    BY <1>1, <1>4
  <2> QED
    BY <1>3, <2>1
<1>6. ASSUME NEW b \in Budgets, NEW d \in 1 .. Days
      PROVE  /\ ledger'[b][d] \in Rows
             /\ RowMatches(ledger'[b][d], q, b, d)
  <2>1. PICK old \in Rows : old = ledger[b][d]
    BY DEF BudgetInv, BudgetTypeOK
  <2>2. RowMatches(old, r, b, d)
    BY <1>2, <2>1, MatchesByRow DEF BudgetInv
  <2>3. Amount(LeftReserved(b, d), b) = SumIn(r, b, d, "reserved")
    BY <1>2 DEF Amount, Units, LeftReserved, SumIn, UnitsIn, OfIn
  <2>4. old.reserved = SumIn(r, b, d, "reserved") /\ old.confirmed = SumIn(r, b, d, "confirmed")
        /\ (old.limit # NoLimit => old.reserved + old.confirmed <= old.limit)
    BY <2>2 DEF RowMatches
  <2>5. SumIn(r, b, d, "reserved") \in Nat /\ SumIn(r, b, d, "confirmed") \in Nat
    BY UnitsFinite DEF SumIn, OfIn
  <2>6. PICK n \in Nat : n = old.reserved
    BY <2>4, <2>5
  <2>7. ledger'[b][d] = [old EXCEPT !.reserved = n - n]
    <3>1. ledger'[b][d] = line(b, d)
      BY <1>1
    <3>2. line(b, d) = [old EXCEPT !.reserved = old.reserved - Amount(LeftReserved(b, d), b)]
      BY <2>1
    <3>3. old.reserved = n /\ Amount(LeftReserved(b, d), b) = n
      BY <2>3, <2>4, <2>6
    <3> QED
      BY <3>1, <3>2, <3>3
  <2>8. /\ ledger'[b][d] \in Rows /\ ledger'[b][d].reserved = 0
        /\ ledger'[b][d].confirmed = old.confirmed /\ ledger'[b][d].limit = old.limit
    BY <2>1, <2>7 DEF Rows
  <2>9. SumIn(q, b, d, "reserved") = 0
    <3>1. OfIn(q, b, d, "reserved") = {}
      BY <1>5 DEF OfIn, Reservations
    <3>2. UnitsIn(q, {}, b) = {}
      BY DEF UnitsIn
    <3> QED
      BY <3>1, <3>2, FS_EmptySet DEF SumIn
  <2>10. SumIn(q, b, d, "confirmed") = SumIn(r, b, d, "confirmed")
    <3>1. PICK C \in SUBSET Spenders : C = OfIn(r, b, d, "confirmed")
      BY DEF OfIn
    <3>2. OfIn(q, b, d, "confirmed") = C
      BY <1>5, <3>1 DEF OfIn, Reservations
    <3>3. \A x \in C : q[x][b].amount = r[x][b].amount
      BY <1>5
    <3>4. UnitsIn(q, C, b) = UnitsIn(r, C, b)
      BY <3>3, UnitsOfSame
    <3> QED
      BY <3>1, <3>2, <3>4 DEF SumIn
  <2>11. old.limit # NoLimit => old.limit \in Nat
    BY DEF Rows
  <2>12. old.limit # NoLimit => 0 + old.confirmed <= old.limit
    BY <2>4, <2>5, <2>11
  <2> QED
    BY <2>4, <2>8, <2>9, <2>10, <2>12 DEF RowMatches
<1>7. BudgetTypeOK'
  <2>1. ledger' \in [Budgets -> [1 .. Days -> Rows]]
    <3>1. \A b \in Budgets, d \in 1 .. Days : line(b, d) \in Rows
      BY <1>1, <1>6
    <3> HIDE DEF line
    <3> QED
      BY <1>1, <3>1
  <2> QED
    BY <1>1, <1>4, <2>1 DEF BudgetInv, BudgetTypeOK
<1>8. ReservedByStep'
  <2> SUFFICES ASSUME NEW x \in Spenders
               PROVE  /\ progress[x].step = "new"
                           => \A y \in Budgets : q[x][y].status = "none"
                      /\ progress[x].step = "tokens"
                           => /\ q[x]["ai_tokens"].status = "none"
                              /\ q[x]["ai_calls"].day \in 1 .. Days
                      /\ \A y \in Budgets : q[x][y].status # "none"
                                              => q[x][y].day \in 1 .. Days
                      /\ q[x]["ai_calls"].status = "reserved"
                           => q[x]["ai_calls"].amount = 1
    BY <1>1, <1>4 DEF ReservedByStep
  <2>1. {"ai_calls", "ai_tokens"} \subseteq Budgets
    BY DEF Budgets
  <2>2. /\ progress[x].step = "new" => \A y \in Budgets : r[x][y].status = "none"
        /\ progress[x].step = "tokens" => /\ r[x]["ai_tokens"].status = "none"
                                          /\ r[x]["ai_calls"].day \in 1 .. Days
        /\ \A y \in Budgets : r[x][y].status # "none" => r[x][y].day \in 1 .. Days
        /\ r[x]["ai_calls"].status = "reserved" => r[x]["ai_calls"].amount = 1
    BY <1>2 DEF BudgetInv, ReservedByStep
  <2>3. \A y \in Budgets :
          /\ q[x][y].day = r[x][y].day /\ q[x][y].amount = r[x][y].amount
          /\ r[x][y].status = "reserved" => q[x][y].status = "released"
          /\ r[x][y].status # "reserved" => q[x][y].status = r[x][y].status
    BY <1>5
  <2> QED
    BY <2>1, <2>2, <2>3
<1>9. LedgerMatches'
  <2>1. ASSUME NEW y \in Budgets, NEW e \in 1 .. Days
        PROVE  RowMatches(ledger'[y][e], reserved', y, e)
    <3>1. RowMatches(ledger'[y][e], q, y, e)
      BY <1>6
    <3>2. q = reserved'
      BY <1>4
    <3> QED
      BY <3>1, <3>2 DEF RowMatches
  <2> QED
    BY <2>1, MatchesByRowThen
<1> QED
  BY <1>7, <1>8, <1>9 DEF BudgetInv

(* At first nothing is reserved.                                            *)
LEMMA BudgetBegins ==
  ASSUME BudgetInit
  PROVE  BudgetInv
<1>1. BudgetTypeOK
  <2>1. [limit |-> NoLimit, reserved |-> 0, confirmed |-> 0] \in Rows
    BY DEF Rows
  <2>2. NoReservation \in Reservations
    BY BudgetAssumption DEF NoReservation, Reservations
  <2>3. [step |-> "new", used |-> 0] \in CallProgress
    BY DEF CallProgress
  <2>4. 1 \in 1 .. Days
    BY BudgetAssumption
  <2> QED
    BY <2>1, <2>2, <2>3, <2>4 DEF BudgetInit, BudgetTypeOK
<1>2. \A c \in Spenders : progress[c].step = "new"
                         /\ \A b \in Budgets : reserved[c][b].status = "none"
  BY DEF BudgetInit, NoReservation
<1>3. ReservedByStep
  <2>1. "ai_calls" \in Budgets
    BY DEF Budgets
  <2> QED
    BY <1>2, <2>1 DEF ReservedByStep
<1>4. ASSUME NEW b \in Budgets, NEW d \in 1 .. Days
      PROVE  RowMatches(ledger[b][d], reserved, b, d)
  <2>1. ledger[b][d] = [limit |-> NoLimit, reserved |-> 0, confirmed |-> 0]
    BY DEF BudgetInit
  <2>2. ASSUME NEW s \in {"reserved", "confirmed"}
        PROVE  SumIn(reserved, b, d, s) = 0
    <3>1. OfIn(reserved, b, d, s) = {}
      BY <1>2 DEF OfIn
    <3>2. UnitsIn(reserved, {}, b) = {}
      BY DEF UnitsIn
    <3> QED
      BY <3>1, <3>2, FS_EmptySet DEF SumIn
  <2> QED
    BY <2>1, <2>2 DEF RowMatches
<1>5. LedgerMatches
  BY <1>4, MatchesByRow
<1> QED
  BY <1>1, <1>3, <1>5 DEF BudgetInv

(* What a call has reserved, by where it is.                                *)
LEMMA CallIsAt ==
  ASSUME BudgetInv, NEW c \in Spenders
  PROVE  /\ progress[c].step = "new" => \A b \in Budgets : reserved[c][b].status = "none"
         /\ progress[c].step = "tokens" => /\ reserved[c]["ai_tokens"].status = "none"
                                           /\ reserved[c]["ai_calls"].day \in 1 .. Days
         /\ reserved[c]["ai_calls"].status = "reserved" => reserved[c]["ai_calls"].amount = 1
         /\ {"ai_calls", "ai_tokens", "search_calls"} \subseteq Budgets
         /\ today \in 1 .. Days /\ 1 \in 1 .. MaxAmount
  BY BudgetAssumption DEF BudgetInv, BudgetTypeOK, ReservedByStep, Budgets

(* A call goes on without a reservation.                                    *)
LEMMA GoesOn ==
  ASSUME BudgetInv, NEW c \in Spenders, NEW to \in Steps \ {"new", "tokens"}, Advance(c, to),
         UNCHANGED <<limit, today, ledger, reserved>>
  PROVE  BudgetInv'
<1>1. /\ progress' \in [Spenders -> CallProgress] /\ progress'[c].step = to
      /\ \A x \in Spenders : x # c => progress'[x] = progress[x]
  BY Advances DEF BudgetInv
<1>2. today' \in 1 .. Days
  BY CallIsAt
<1> QED
  BY <1>1, <1>2, AfterNothing

(* Each step of a call keeps the invariant.                                 *)
LEMMA ReserveCallKeeps ==
  ASSUME BudgetInv, NEW c \in Spenders, ReserveCall(c)
  PROVE  BudgetInv'
<1>1. /\ progress[c].step = "new" /\ Reserve(c, "ai_calls", today, 1) /\ Advance(c, "tokens")
      /\ UNCHANGED <<limit, today>>
  BY DEF ReserveCall, Doing
<1>2. reserved[c]["ai_calls"].status = "none" /\ reserved[c]["ai_tokens"].status = "none"
  BY <1>1, CallIsAt
<1>3. "tokens" \in Steps
  BY DEF Steps
<1> QED
  BY <1>1, <1>2, <1>3, CallIsAt, AfterReserve

LEMMA ReserveTokensKeeps ==
  ASSUME BudgetInv, NEW c \in Spenders, ReserveTokens(c)
  PROVE  BudgetInv'
<1>1. PICK amount \in 1 .. MaxAmount :
        \/ Reserve(c, "ai_tokens", reserved[c]["ai_calls"].day, amount) /\ Advance(c, "sent")
        \/ Advance(c, "give back") /\ UNCHANGED <<ledger, reserved>>
  BY DEF ReserveTokens
<1>2. progress[c].step = "tokens" /\ UNCHANGED <<limit, today>>
  BY DEF ReserveTokens, Doing
<1>3. PICK d \in 1 .. Days : d = reserved[c]["ai_calls"].day
  BY <1>2, CallIsAt
<1>4. {"sent", "give back"} \subseteq Steps
  BY DEF Steps
<1>5. CASE Reserve(c, "ai_tokens", d, amount) /\ Advance(c, "sent")
  BY <1>2, <1>4, <1>5, CallIsAt, AfterReserve
<1>6. CASE Advance(c, "give back") /\ UNCHANGED <<ledger, reserved>>
  BY <1>2, <1>4, <1>6, GoesOn
<1> QED
  BY <1>1, <1>3, <1>5, <1>6

LEMMA GiveBackKeeps ==
  ASSUME BudgetInv, NEW c \in Spenders, GiveBack(c)
  PROVE  BudgetInv'
<1>1. /\ Release(c, "ai_calls") \/ UNCHANGED <<ledger, reserved>>
      /\ Advance(c, "over") /\ UNCHANGED <<limit, today>>
  BY DEF GiveBack
<1>2. "over" \in Steps
  BY DEF Steps
<1>3. CASE Release(c, "ai_calls")
  BY <1>1, <1>2, <1>3, CallIsAt, AfterRelease
<1>4. CASE UNCHANGED <<ledger, reserved>>
  BY <1>1, <1>2, <1>4, GoesOn
<1> QED
  BY <1>1, <1>3, <1>4

LEMMA ConcludeKeeps ==
  ASSUME BudgetInv, NEW c \in Spenders, Conclude(c)
  PROVE  BudgetInv'
<1>1. UNCHANGED <<limit, today, ledger, reserved>> /\ {"settle", "release"} \subseteq Steps
  BY DEF Conclude, Steps
<1>2. ASSUME NEW used \in Nat, progress' = [progress EXCEPT ![c] = [step |-> "settle", used |-> used]]
      PROVE  BudgetInv'
  <2>1. [step |-> "settle", used |-> used] \in CallProgress
    BY DEF CallProgress
  <2>2. /\ progress' \in [Spenders -> CallProgress]
        /\ \A x \in Spenders : progress'[x].step \in {progress[x].step, "settle"}
    BY <1>2, <2>1 DEF BudgetInv, BudgetTypeOK
  <2> QED
    BY <1>1, <2>2, CallIsAt, AfterNothing
<1>3. CASE \E used \in 0 .. MaxAmount + 1 :
              progress' = [progress EXCEPT ![c] = [step |-> "settle", used |-> used]]
  <2>1. 0 .. MaxAmount + 1 \subseteq Nat
    BY BudgetAssumption
  <2> QED
    BY <1>2, <1>3, <2>1
<1>4. CASE progress' = [progress EXCEPT ![c] = [step |-> "settle",
                                       used |-> reserved[c]["ai_tokens"].amount]]
  <2>1. PICK o \in Reservations : o = reserved[c]["ai_tokens"]
    BY CallIsAt DEF BudgetInv, BudgetTypeOK
  <2>2. o.amount \in Nat
    BY BudgetAssumption DEF Reservations
  <2> QED
    BY <1>2, <1>4, <2>1, <2>2
<1>5. CASE Advance(c, "release")
  BY <1>1, <1>5, GoesOn
<1> QED
  BY <1>3, <1>4, <1>5 DEF Conclude

LEMMA SettleCallKeeps ==
  ASSUME BudgetInv, NEW c \in Spenders, SettleCall(c)
  PROVE  BudgetInv'
<1>1. Settle(c, "ai_calls", 1) /\ Advance(c, "settle tokens") /\ UNCHANGED <<limit, today>>
  BY DEF SettleCall
<1>2. "settle tokens" \in Steps
  BY DEF Steps
<1>3. reserved[c]["ai_calls"].status = "reserved" => 1 <= reserved[c]["ai_calls"].amount
  BY CallIsAt
<1> QED
  BY <1>1, <1>2, <1>3, CallIsAt, AfterSettle

LEMMA SettleTokensKeeps ==
  ASSUME BudgetInv, NEW c \in Spenders, SettleTokens(c)
  PROVE  BudgetInv'
<1>1. Advance(c, "over") /\ UNCHANGED <<limit, today>> /\ "over" \in Steps
  BY DEF SettleTokens, Steps
<1>2. PICK used \in Nat : used = progress[c].used
  BY DEF BudgetInv, BudgetTypeOK, CallProgress
<1>3. CASE used <= reserved[c]["ai_tokens"].amount
  <2>1. Settle(c, "ai_tokens", used)
    BY <1>2, <1>3 DEF SettleTokens
  <2> QED
    BY <1>1, <1>3, <2>1, CallIsAt, AfterSettle
<1>4. CASE ~(used <= reserved[c]["ai_tokens"].amount)
  <2>1. UNCHANGED <<ledger, reserved>>
    BY <1>2, <1>4 DEF SettleTokens
  <2> QED
    BY <1>1, <2>1, GoesOn
<1> QED
  BY <1>3, <1>4

LEMMA ReleaseCallKeeps ==
  ASSUME BudgetInv, NEW c \in Spenders, ReleaseCall(c)
  PROVE  BudgetInv'
<1>1. Release(c, "ai_calls") /\ Advance(c, "release tokens") /\ UNCHANGED <<limit, today>>
      /\ "release tokens" \in Steps
  BY DEF ReleaseCall, Steps
<1> QED
  BY <1>1, CallIsAt, AfterRelease

LEMMA ReleaseTokensKeeps ==
  ASSUME BudgetInv, NEW c \in Spenders, ReleaseTokens(c)
  PROVE  BudgetInv'
<1>1. Release(c, "ai_tokens") /\ Advance(c, "over") /\ UNCHANGED <<limit, today>>
      /\ "over" \in Steps
  BY DEF ReleaseTokens, Steps
<1> QED
  BY <1>1, CallIsAt, AfterRelease

LEMMA ReserveSearchKeeps ==
  ASSUME BudgetInv, NEW c \in Spenders, ReserveSearch(c)
  PROVE  BudgetInv'
<1>1. PICK n \in 1 .. MaxAmount : Reserve(c, "search_calls", today, n)
  BY DEF ReserveSearch
<1>2. progress[c].step = "new" /\ Advance(c, "search") /\ UNCHANGED <<limit, today>>
      /\ "search" \in Steps
  BY DEF ReserveSearch, Doing, Steps
<1>3. reserved[c]["search_calls"].status = "none"
  BY <1>2, CallIsAt
<1> QED
  BY <1>1, <1>2, <1>3, CallIsAt, AfterReserve

LEMMA ConfirmSearchKeeps ==
  ASSUME BudgetInv, NEW c \in Spenders, ConfirmSearch(c)
  PROVE  BudgetInv'
<1>1. /\ Settle(c, "search_calls", reserved[c]["search_calls"].amount)
      /\ Advance(c, "over") /\ UNCHANGED <<limit, today>> /\ "over" \in Steps
  BY DEF ConfirmSearch, Steps
<1>2. PICK o \in Reservations : o = reserved[c]["search_calls"]
  BY CallIsAt DEF BudgetInv, BudgetTypeOK
<1>3. o.amount \in Nat /\ o.amount <= o.amount
  BY BudgetAssumption DEF Reservations
<1> QED
  BY <1>1, <1>2, <1>3, CallIsAt, AfterSettle

(* Every step keeps the invariant.                                          *)
LEMMA BudgetStep ==
  ASSUME BudgetInv, [BudgetNext]_budgetVars
  PROVE  BudgetInv'
<1>1. CASE NextDay
  <2>1. today' \in 1 .. Days
    BY <1>1, BudgetAssumption DEF BudgetInv, BudgetTypeOK, NextDay
  <2>2. progress' = progress /\ UNCHANGED <<limit, ledger, reserved>>
    BY <1>1 DEF NextDay
  <2> QED
    BY <2>1, <2>2, AfterNothing DEF BudgetInv, BudgetTypeOK
<1>2. CASE End
  <2>1. [step |-> "over", used |-> 0] \in CallProgress /\ "over" \in Steps
    BY DEF CallProgress, Steps
  <2>2. /\ progress' \in [Spenders -> CallProgress]
        /\ \A x \in Spenders : progress'[x].step \in {progress[x].step, "over"}
    BY <1>2, <2>1 DEF End, BudgetInv, BudgetTypeOK
  <2>3. UNCHANGED <<limit, today, ledger, reserved>>
    BY <1>2 DEF End
  <2> QED
    BY <2>1, <2>2, <2>3, CallIsAt, AfterNothing DEF BudgetInv, BudgetTypeOK
<1>3. CASE UNCHANGED budgetVars
  <2>1. progress' = progress /\ UNCHANGED <<limit, today, ledger, reserved>>
    BY <1>3 DEF budgetVars
  <2> QED
    BY <2>1, AfterNothing DEF BudgetInv, BudgetTypeOK
<1>4. CASE Start
  BY <1>4, StartKeeps
<1>5. ASSUME NEW c \in Spenders,
             \/ ReserveCall(c) \/ ReserveTokens(c) \/ GiveBack(c) \/ Conclude(c)
             \/ SettleCall(c) \/ SettleTokens(c) \/ ReleaseCall(c) \/ ReleaseTokens(c)
             \/ ReserveSearch(c) \/ ConfirmSearch(c)
      PROVE  BudgetInv'
  BY <1>5, ReserveCallKeeps, ReserveTokensKeeps, GiveBackKeeps, ConcludeKeeps, SettleCallKeeps,
     SettleTokensKeeps, ReleaseCallKeeps, ReleaseTokensKeeps, ReserveSearchKeeps,
     ConfirmSearchKeeps
<1> QED
  BY <1>1, <1>2, <1>3, <1>4, <1>5 DEF BudgetNext

(* Whatever calls overlap, fail by half or are cut off by the end of the    *)
(* program, and whatever the limits are configured to between two runs, a   *)
(* row of the ledger says what its reservations say and stays within the    *)
(* limit its day began with (user_state.py:443-640).                        *)
THEOREM LedgerAlwaysMatches == BudgetSpec => []LedgerMatches
<1>1. BudgetInit => BudgetInv
  BY BudgetBegins
<1>2. BudgetInv /\ [BudgetNext]_budgetVars => BudgetInv'
  BY BudgetStep
<1>3. BudgetInv => LedgerMatches
  BY DEF BudgetInv
<1> QED
  BY <1>1, <1>2, <1>3, PTL DEF BudgetSpec
=============================================================================
