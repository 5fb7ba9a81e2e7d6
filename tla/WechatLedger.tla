---------------------------- MODULE WechatLedger ----------------------------
(***************************************************************************)
(* Publishing one edition to WeChat: the row of PublicationLedger that     *)
(* belongs to it and the runs of scripts/run_daily_wechat.py that share it *)
(* (PublicationService.run in wechat_publisher.py).  A run reads the row,  *)
(* claims it for a submission, calls the platform and records the answer,  *)
(* each in a transaction of its own; it may die anywhere, and the answer   *)
(* of the platform may be lost.                                            *)
(***************************************************************************)
EXTENDS Integers, FiniteSets

CONSTANTS Runs,        \* processes
          Texts,       \* articles that are prepared for the edition
          MaxPosts     \* bound: drafts, and submissions, on the platform

PostKinds == {"publish", "mass"}         \* the public deliveries
NoRun == "none"

VARIABLES row,       \* the row, or what stands for there being none
          run,       \* what each run holds and does next
          wxDrafts,    \* the platform's drafts, each the text it was made of
          wxPosts      \* the platform's submissions

wechatVars == <<row, run, wxDrafts, wxPosts>>

NoRow == [state |-> "absent", text |-> NoRun, delivery |-> "draft", media |-> 0,
          post |-> [k \in PostKinds |-> 0], owner |-> NoRun, leased |-> FALSE, result |-> FALSE]

Over == [step |-> "over"]

WechatInit == row = NoRow /\ run = [p \in Runs |-> Over] /\ wxDrafts = {} /\ wxPosts = {}

(* r with the fields of another record in place of its own.                 *)
Amended(r, fields) ==
    [f \in DOMAIN r \cup DOMAIN fields |-> IF f \in DOMAIN fields THEN fields[f] ELSE r[f]]

To(p, fields) == run' = [run EXCEPT ![p] = Amended(@, fields)]
-----------------------------------------------------------------------------
(* reserve.  The text and the delivery may change as long as the row is in  *)
(* review.                                                                  *)
Reserved(text, delivery) ==
    CASE row.state = "absent" ->
             [NoRow EXCEPT !.state = "review_pending", !.text = text, !.delivery = delivery]
      [] row.state = "review_pending" ->
             [row EXCEPT !.text = text, !.delivery = delivery]
      [] OTHER -> row

Conflicts(text, delivery) ==
    /\ row.state \notin {"absent", "review_pending"}
    /\ row.text # text \/ row.delivery # delivery

PrepareEdition(text, delivery) ==
    /\ ~Conflicts(text, delivery)
    /\ row' = Reserved(text, delivery) /\ row' # row
    /\ UNCHANGED <<run, wxDrafts, wxPosts>>

Final(enabled) ==
    {"drafted", "verified", "failed"} \cup (IF enabled THEN {} ELSE {"pending_approval"})

(* What a run does once it knows the draft and the submission it saw.       *)
Onward(delivery, enabled, media, post) ==
    IF media = 0 THEN [step |-> "claim", op |-> "draft"]
    ELSE IF delivery = "draft" THEN [step |-> "save", state |-> "drafted"]
    ELSE IF ~enabled THEN [step |-> "save", state |-> "pending_approval"]
    ELSE IF post = 0 THEN [step |-> "claim", op |-> delivery]
    ELSE [step |-> "poll"]

Seen(delivery, r) == IF delivery \in PostKinds THEN r.post[delivery] ELSE 0

(* The run of an approved article when enabled, else one that only drafts. *)
StartRun(p, text, delivery, enabled) ==
    LET record == Reserved(text, delivery) IN
    /\ run[p] = Over /\ ~Conflicts(text, delivery)
    /\ enabled => delivery \in PostKinds
    /\ ~(record.result /\ record.state \in Final(enabled))
    /\ row' = record
    /\ To(p, Amended([text |-> text, delivery |-> delivery, enabled |-> enabled,
                      media |-> record.media, post |-> Seen(delivery, record)],
                     Onward(delivery, enabled, record.media, Seen(delivery, record))))
    /\ UNCHANGED <<wxDrafts, wxPosts>>
-----------------------------------------------------------------------------
(* claim_submission.                                                        *)
(* Mutant: a claim whose lease is over may be taken. *)
ClaimableIfOver == row.state # "uncertain" /\ (row.owner = NoRun \/ ~row.leased)

Claimable == row.state # "uncertain" /\ row.owner = NoRun

ClaimSubmission(p) ==
    /\ run[p].step = "claim" /\ Claimable
    /\ row' = [row EXCEPT !.state = "submitting", !.owner = p, !.leased = TRUE]
    /\ To(p, [step |-> "submit"])
    /\ UNCHANGED <<wxDrafts, wxPosts>>

(* Answered in_progress or submission_uncertain. *)
ClaimBlocked(p) ==
    /\ run[p].step = "claim" /\ ~Claimable
    /\ run' = [run EXCEPT ![p] = Over]
    /\ UNCHANGED <<row, wxDrafts, wxPosts>>

LeaseOver ==
    /\ row.leased
    /\ row' = [row EXCEPT !.leased = FALSE]
    /\ UNCHANGED <<run, wxDrafts, wxPosts>>

(* add_draft, submit_publish and mass_send_all: the platform does it, and   *)
(* the answer may be lost, or it does not.                                  *)
AddDraft(p) ==
    LET id == Cardinality(wxDrafts) + 1 IN
    /\ run[p].step = "submit" /\ run[p].op = "draft" /\ id <= MaxPosts
    /\ wxDrafts' = wxDrafts \cup {[id |-> id, text |-> run[p].text]}
    /\ To(p, [step |-> "complete", media |-> id]) \/ To(p, [step |-> "doubt"])
    /\ UNCHANGED <<row, wxPosts>>

Submit(p) ==
    LET id == Cardinality(wxPosts) + 1 IN
    /\ run[p].step = "submit" /\ run[p].op \in PostKinds /\ id <= MaxPosts
    /\ wxPosts' = wxPosts \cup {[id |-> id, kind |-> run[p].op, media |-> run[p].media]}
    /\ To(p, [step |-> "complete", post |-> id]) \/ To(p, [step |-> "doubt"])
    /\ UNCHANGED <<row, wxDrafts>>

SubmitFailed(p) ==
    /\ run[p].step = "submit"
    /\ To(p, [step |-> "doubt"])
    /\ UNCHANGED <<row, wxDrafts, wxPosts>>

(* complete_submission and mark_submission_uncertain, of the owner's claim. *)
MarkUncertain(p) ==
    /\ run[p].step = "doubt" /\ row.owner = p
    /\ row' = [row EXCEPT !.state = "uncertain", !.owner = NoRun, !.leased = FALSE]
    /\ run' = [run EXCEPT ![p] = Over]
    /\ UNCHANGED <<wxDrafts, wxPosts>>

CompleteDraft(p) ==
    /\ run[p].step = "complete" /\ run[p].op = "draft" /\ row.owner = p
    /\ row' = [row EXCEPT !.state = "drafted", !.owner = NoRun, !.leased = FALSE,
                          !.media = run[p].media]
    /\ To(p, Onward(run[p].delivery, run[p].enabled, run[p].media,
                    Seen(run[p].delivery, row)))
    /\ UNCHANGED <<wxDrafts, wxPosts>>

CompletePost(p) ==
    /\ run[p].step = "complete" /\ run[p].op \in PostKinds /\ row.owner = p
    /\ row' = [row EXCEPT !.state = "submitted", !.owner = NoRun, !.leased = FALSE,
                          !.post[run[p].op] = run[p].post]
    /\ To(p, [step |-> "poll"])
    /\ UNCHANGED <<wxDrafts, wxPosts>>

(* get_publish_status and mass_get.                                         *)
Poll(p) ==
    /\ run[p].step = "poll"
    /\ \E state \in {"submitted", "verified", "failed"} :
           To(p, [step |-> "save", state |-> state])
    /\ UNCHANGED <<row, wxDrafts, wxPosts>>

(* _save_result: the row is updated whoever owns it and whatever its state. *)
SaveResult(p) ==
    LET posted == run[p].state \in {"submitted", "verified", "failed"} IN
    /\ run[p].step = "save"
    /\ row' = IF posted
              THEN [row EXCEPT !.state = run[p].state, !.result = TRUE,
                               !.post[run[p].delivery] = run[p].post]
              ELSE [row EXCEPT !.state = run[p].state, !.result = TRUE,
                               !.media = run[p].media]
    /\ run' = [run EXCEPT ![p] = Over]
    /\ UNCHANGED <<wxDrafts, wxPosts>>

(* A run dies.  An owner is named anew for every claim, so one that held    *)
(* the claim is never seen again.                                           *)
Dies(p) ==
    /\ run[p].step \notin {"over", "dead"}
    /\ run' = [run EXCEPT ![p] = IF row.owner = p THEN [step |-> "dead"] ELSE Over]
    /\ UNCHANGED <<row, wxDrafts, wxPosts>>
-----------------------------------------------------------------------------
Work(p) ==
    \/ \E text \in Texts, delivery \in PostKinds \cup {"draft"}, enabled \in BOOLEAN :
           StartRun(p, text, delivery, enabled)
    \/ ClaimSubmission(p) \/ ClaimBlocked(p)
    \/ AddDraft(p) \/ Submit(p) \/ SubmitFailed(p)
    \/ MarkUncertain(p) \/ CompleteDraft(p) \/ CompletePost(p)
    \/ Poll(p) \/ SaveResult(p) \/ Dies(p)

WechatNext ==
    \/ \E p \in Runs : Work(p)
    \/ \E text \in Texts, delivery \in PostKinds \cup {"draft"} : PrepareEdition(text, delivery)
    \/ LeaseOver

WechatSpec == WechatInit /\ [][WechatNext]_wechatVars
-----------------------------------------------------------------------------
(* "If the lease is over and the result unknown, ... nothing is retried     *)
(* automatically" (docs/WECHAT_PUBLISHING.md:120): whatever else writes the *)
(* row and however long a submission takes, a claim ends only by its owner, *)
(* with its answer or in doubt of it; the claim of a run that died stays.   *)
ClaimIsItsOwners ==
    [][row.owner # NoRun /\ row'.owner # row.owner
           => row'.owner = NoRun /\ run[row.owner].step \in {"complete", "doubt"}]_wechatVars

(* "Concurrent callers for the same key get IN_PROGRESS and do not submit   *)
(* again" (docs/WECHAT_PUBLISHING.md:120).                                  *)
SubmittedOnce == \A k \in PostKinds : Cardinality({x \in wxPosts : x.kind = k}) <= 1
=============================================================================
