----------------------------- MODULE MCServices -----------------------------
(***************************************************************************)
(* Model checking of the parts that share no state: a behaviour is one of  *)
(* the part it begins with, and the other parts stay as they begin.  What  *)
(* is explored is the union of the parts, not their product.               *)
(***************************************************************************)
EXTENDS Publication, Casework, AgentJobs, WechatLedger, FeishuWebhook,
        ReleaseSwitch, DailyBudgets

CONSTANTS Parts,       \* the parts to explore
          Symmetric    \* sets of values that can be exchanged

VARIABLE part

(* The releases 1 and 2 speak one wire contract, 3 another. *)
Wires == <<1, 1, 2>>

(* A job said to be done, and one at the release gate without the work.     *)
WrittenJobs ==
  {[state |-> "succeeded", phase |-> 1, gate |-> "none"],
   [state |-> "waiting_user", phase |-> 5, gate |-> "release"]}

Symmetry == UNION {Permutations(S) : S \in Symmetric}

ServicesInit ==
  /\ part \in Parts
  /\ Init /\ CaseworkInit /\ JobsInit /\ (part = "jobs" \/ job = NewJob)
   /\ WechatInit /\ WebhookInit
  /\ SwitchInit /\ (part = "release" \/ container = NoContainer)
  /\ BudgetInit /\ (part = "budgets" \/ limit = 1)

ServicesNext ==
  \/ /\ part = "publication" /\ Next
     /\ UNCHANGED <<part, caseworkVars, jobVars, wechatVars, webhookVars, switchVars, budgetVars>>
  \/ /\ part = "casework" /\ CaseworkNext
     /\ UNCHANGED <<part, vars, jobVars, wechatVars, webhookVars, switchVars, budgetVars>>
  \/ /\ part = "jobs" /\ JobsNext
     /\ UNCHANGED <<part, vars, caseworkVars, wechatVars, webhookVars, switchVars, budgetVars>>
  \/ /\ part = "wechat" /\ WechatNext
     /\ UNCHANGED <<part, vars, caseworkVars, jobVars, webhookVars, switchVars, budgetVars>>
  \/ /\ part = "webhook" /\ WebhookNext
     /\ UNCHANGED <<part, vars, caseworkVars, jobVars, wechatVars, switchVars, budgetVars>>
  \/ /\ part = "release" /\ SwitchNext
     /\ UNCHANGED <<part, vars, caseworkVars, jobVars, wechatVars, webhookVars, budgetVars>>
  \/ /\ part = "budgets" /\ BudgetNext
     /\ UNCHANGED <<part, vars, caseworkVars, jobVars, wechatVars, webhookVars, switchVars>>

ServicesSpec ==
  ServicesInit
    /\ [][ServicesNext]_<<part, vars, caseworkVars, jobVars, wechatVars, webhookVars, switchVars, budgetVars>>

=============================================================================
