---------------------------- MODULE FeishuWebhook ----------------------------
(***************************************************************************)
(* How the Feishu bot handles a delivered event: the lease of the event in *)
(* the deduplication store, a slot of the admission controller, and the    *)
(* worker that is handed both (feishu_webhook in feishu_cloud.py and       *)
(* feishu_webhook_security.py).  Feishu delivers an event again until it   *)
(* is answered with code 0; the process may stop, and the store outlives   *)
(* it.                                                                     *)
(***************************************************************************)
EXTENDS Integers, FiniteSets, Sequences

CONSTANTS Events,
          MaxEntries,      \* rows of event_deliveries
          MaxInflight,     \* work slots
          MaxDeliveries    \* bound

ASSUME WebhookAssumption == MaxInflight \in Nat

VARIABLES store,       \* event_deliveries
          completed,   \* its completed rows, the oldest first
          jobs,        \* the deliveries under way, each with its two leases
          inflight,    \* the count of the admission controller
          answered,    \* events Feishu was answered code 0 for
          tokens       \* claim tokens drawn

webhookVars == <<store, completed, jobs, inflight, answered, tokens>>

NoDelivery == [state |-> "none", token |-> 0, over |-> FALSE]

WebhookInit ==
    /\ store = [e \in Events |-> NoDelivery]
    /\ completed = <<>> /\ jobs = {} /\ inflight = 0
    /\ answered = {} /\ tokens = 0

Move(j, k) == jobs' = (jobs \ {j}) \cup {k}
Drop(j) == jobs' = jobs \ {j}
-----------------------------------------------------------------------------
(* PersistentEventDeduper.acquire: leases that are over are removed, and    *)
(* the oldest completed row if the store is full.                           *)
Purged == [e \in Events |-> IF store[e].over THEN NoDelivery ELSE store[e]]

Kept(s) == {e \in Events : s[e].state # "none"}

Skipped(e) == Purged[e].state # "none"

(* Answered 0: the event is in work or done. *)
DeliverAgain(e) ==
    /\ Skipped(e)
    /\ store' = Purged
    /\ answered' = answered \cup {e}
    /\ UNCHANGED <<completed, jobs, inflight, tokens>>

Full == Cardinality(Kept(Purged)) >= MaxEntries

Deliver(e) ==
    LET lease == [state |-> "leased", token |-> tokens + 1, over |-> FALSE] IN
    /\ ~Skipped(e) /\ tokens < MaxDeliveries
    /\ Full => completed # <<>>          \* or dedupe_store_capacity_exceeded
    /\ store' = [x \in Events |->
                    IF x = e THEN lease
                    ELSE IF Full /\ x = Head(completed) THEN NoDelivery ELSE Purged[x]]
    /\ completed' = IF Full THEN Tail(completed) ELSE completed
    /\ jobs' = jobs \cup {[event |-> e, token |-> tokens + 1, step |-> "admit",
                           slot |-> "none"]}
    /\ tokens' = tokens + 1
    /\ UNCHANGED <<inflight, answered>>

(* The EventLease of a job: its row changes only if it still has its token. *)
(* Mutant: the token is not compared. *)
HoldsAny(j) == store[j.event].state = "leased"

HoldsEvent(j) ==
    store[j.event].state = "leased" /\ store[j.event].token = j.token

CompleteEvent(j) ==
    IF HoldsEvent(j)
    THEN /\ store' = [store EXCEPT ![j.event] =
                         [state |-> "completed", token |-> 0, over |-> FALSE]]
         /\ completed' = Append(completed, j.event)
    ELSE UNCHANGED <<store, completed>>

ReleaseEvent(j) ==
    /\ store' = IF HoldsEvent(j) THEN [store EXCEPT ![j.event] = NoDelivery] ELSE store
    /\ UNCHANGED completed

(* WebhookAdmissionLease.release counts once, however often it is called.   *)
ReleaseSlot(j) == inflight' = IF j.slot = "held" THEN inflight - 1 ELSE inflight
-----------------------------------------------------------------------------
Admit(j) ==
    /\ j.step = "admit" /\ inflight < MaxInflight
    /\ inflight' = inflight + 1
    /\ Move(j, [j EXCEPT !.step = "handle", !.slot = "held"])
    /\ UNCHANGED <<store, completed, answered, tokens>>

(* No slot, or a rate limit of the sender, the chat or all. *)
NotAdmitted(j) ==
    /\ j.step = "admit"
    /\ ReleaseEvent(j) /\ Drop(j)
    /\ UNCHANGED <<inflight, answered, tokens>>

(* A command is answered in the request: _ack_webhook_event, and then the   *)
(* teardown of the request, which finds both leases closed.                 *)
AnswerNow(j) ==
    /\ j.step = "handle"
    /\ CompleteEvent(j) /\ ReleaseSlot(j)
    /\ Move(j, [j EXCEPT !.step = "teardown", !.slot = "released"])
    /\ answered' = answered \cup {j.event}
    /\ UNCHANGED tokens

(* _queue_webhook_job: the leases go to a worker.  The answer may be lost.  *)
QueueJob(j) ==
    /\ j.step = "handle"
    /\ Move(j, [j EXCEPT !.step = "work"])
    /\ answered' \in {answered, answered \cup {j.event}}
    /\ UNCHANGED <<store, completed, inflight, tokens>>

QueueFails(j) ==
    /\ j.step = "handle"
    /\ ReleaseEvent(j) /\ ReleaseSlot(j)
    /\ Move(j, [j EXCEPT !.step = "teardown", !.slot = "released"])
    /\ UNCHANGED <<answered, tokens>>

(* The handler raises. *)
HandlerFails(j) ==
    /\ j.step = "handle"
    /\ Move(j, [j EXCEPT !.step = "teardown"])
    /\ UNCHANGED <<store, completed, inflight, answered, tokens>>

(* _release_unhanded_webhook_leases.  A lease that was completed or         *)
(* released is closed, and closing it again does nothing.                   *)
Teardown(j) ==
    /\ j.step = "teardown"
    /\ IF j.slot = "held" THEN ReleaseEvent(j) ELSE UNCHANGED <<store, completed>>
    /\ ReleaseSlot(j) /\ Drop(j)
    /\ UNCHANGED <<answered, tokens>>

(* The worker returns its slot, and then completes the event or, if it      *)
(* raised, releases it.                                                     *)
WorkEnds(j) ==
    /\ j.step = "work"
    /\ ReleaseSlot(j)
    /\ Move(j, [j EXCEPT !.step = "close", !.slot = "released"])
    /\ UNCHANGED <<store, completed, answered, tokens>>

CloseLease(j) ==
    /\ j.step = "close"
    /\ CompleteEvent(j) \/ ReleaseEvent(j)
    /\ Drop(j)
    /\ UNCHANGED <<inflight, answered, tokens>>

(* Time: a lease runs out, and a completed row is forgotten.                *)
LeaseRunsOut(e) ==
    /\ store[e].state = "leased" /\ ~store[e].over
    /\ store' = [store EXCEPT ![e].over = TRUE]
    /\ UNCHANGED <<completed, jobs, inflight, answered, tokens>>

Forget ==
    /\ completed # <<>>
    /\ store' = [store EXCEPT ![Head(completed)] = NoDelivery]
    /\ completed' = Tail(completed)
    /\ UNCHANGED <<jobs, inflight, answered, tokens>>

ProcessStops ==
    /\ jobs # {}
    /\ jobs' = {} /\ inflight' = 0
    /\ UNCHANGED <<store, completed, answered, tokens>>
-----------------------------------------------------------------------------
Serve(j) ==
    \/ Admit(j) \/ NotAdmitted(j) \/ AnswerNow(j) \/ QueueJob(j) \/ QueueFails(j)
    \/ HandlerFails(j) \/ Teardown(j) \/ WorkEnds(j) \/ CloseLease(j)

WebhookNext ==
    \/ \E e \in Events : Deliver(e) \/ DeliverAgain(e) \/ LeaseRunsOut(e)
    \/ \E j \in jobs : Serve(j)
    \/ Forget \/ ProcessStops

WebhookSpec == WebhookInit /\ [][WebhookNext]_webhookVars
-----------------------------------------------------------------------------
(* The slots that are counted are the ones deliveries hold, on every path   *)
(* out of the handler and of the worker: none leaks, none is returned twice *)
(* (feishu_webhook_security.py:227-357).                                    *)
SlotsExact ==
    /\ inflight = Cardinality({j \in jobs : j.slot = "held"})
    /\ inflight \in 0 .. MaxInflight

(* As long as a lease runs, only the delivery that holds it ends it: a      *)
(* worker that comes late, after its own ran out, neither completes nor     *)
(* releases the event for the one that took over.                           *)
LeaseIsItsHolders ==
    [][\A e \in Events :
          store[e].state = "leased" /\ ~store[e].over /\ store'[e] # store[e]
              => \/ store'[e].over
                 \/ \E j \in jobs : /\ j.event = e /\ j.token = store[e].token
                                    /\ j \notin jobs']_webhookVars

(* "Submit work without acknowledging the event until the worker returns    *)
(* ... a process crash leaves a bounded lease that another Feishu retry can *)
(* take over after expiry" (feishu_webhook_security.py:916-920): an event   *)
(* Feishu will not deliver again is done, or in work.                       *)
AnsweredIsHandled ==
    \A e \in answered :
        store[e].state = "leased" => \E j \in jobs : j.event = e
=============================================================================
