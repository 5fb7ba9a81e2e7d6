---------------------------- MODULE DailyBudgets ----------------------------
(***************************************************************************)
(* The daily budgets of AI calls, their tokens and web searches: a call    *)
(* reserves what it may use before it goes out and settles or gives back   *)
(* what it did (user_state.py: daily_budgets, budget_reservations; app.py: *)
(* _post_ai_with_budget, _search_budget_reserve).  Every step is one       *)
(* transaction; the program may end between any two, and releases when it  *)
(* starts again what its predecessor left reserved.                        *)
(***************************************************************************)
EXTENDS Integers, FiniteSets

CONSTANTS AiCalls, Searches,  \* calls the program makes
          Days,               \* bound: days that begin
          Limits,             \* values the daily limits may be configured to
          MaxAmount           \* bound: tokens or searches of a call

ASSUME BudgetAssumption ==
    /\ Limits \subseteq Nat \ {0} /\ Limits # {}
    /\ Days \in Nat \ {0} /\ MaxAmount \in Nat \ {0}
    /\ AiCalls \cap Searches = {}
    /\ IsFiniteSet(AiCalls) /\ IsFiniteSet(Searches)

VARIABLES limit,      \* configured limit, the same for every budget
          today,
          ledger,     \* daily_budgets: of each budget of each day
          reserved,   \* budget_reservations: of each call in each budget
          progress,   \* what each call does next, and the tokens it used
          running

budgetVars == <<limit, today, ledger, reserved, progress, running>>

Budgets == {"ai_calls", "ai_tokens", "search_calls"}
Spenders == AiCalls \cup Searches
NoLimit == -1

NoReservation == [day |-> 0, amount |-> 0, status |-> "none"]

BudgetInit ==
    /\ limit \in Limits /\ today = 1 /\ running = TRUE
    /\ ledger = [b \in Budgets |-> [d \in 1 .. Days |->
                    [limit |-> NoLimit, reserved |-> 0, confirmed |-> 0]]]
    /\ reserved = [c \in Spenders |-> [b \in Budgets |-> NoReservation]]
    /\ progress = [c \in Spenders |-> [step |-> "new", used |-> 0]]

Doing(c, step) == running /\ progress[c].step = step
Advance(c, step) == progress' = [progress EXCEPT ![c].step = step]
-----------------------------------------------------------------------------
(* reserve_daily_budget.  The first reservation of a day fixes its limit.   *)
SameLimit(b, d) == ledger[b][d].limit \in {NoLimit, limit}

Fits(b, d, amount) == ledger[b][d].reserved + ledger[b][d].confirmed + amount <= limit

Reserve(c, b, d, amount) ==
    /\ SameLimit(b, d) /\ Fits(b, d, amount)
    /\ LET row == ledger[b][d] IN
       ledger' = [ledger EXCEPT ![b][d] =
                     [row EXCEPT !.limit = limit, !.reserved = row.reserved + amount]]
    /\ reserved' = [reserved EXCEPT ![c][b] =
                       [day |-> d, amount |-> amount, status |-> "reserved"]]

(* _finish_budget_reservation: only what is still reserved is settled.      *)
Settle(c, b, amount) ==
    LET r == reserved[c][b]
        row == ledger[b][r.day]
    IN
    IF r.status # "reserved" THEN UNCHANGED <<ledger, reserved>>
    ELSE /\ ledger' = [ledger EXCEPT ![b][r.day] =
                          [row EXCEPT !.reserved = row.reserved - r.amount,
                                      !.confirmed = row.confirmed + amount]]
         /\ reserved' = [reserved EXCEPT ![c][b] =
                            [r EXCEPT !.amount = amount, !.status = "confirmed"]]

Release(c, b) ==
    LET r == reserved[c][b] IN
    IF r.status # "reserved" THEN UNCHANGED <<ledger, reserved>>
    ELSE /\ ledger' = [ledger EXCEPT ![b][r.day].reserved = @ - r.amount]
         /\ reserved' = [reserved EXCEPT ![c][b].status = "released"]
-----------------------------------------------------------------------------
(* _ai_budget_reserve: one call, then its tokens, of the same day.          *)
ReserveCall(c) ==
    /\ Doing(c, "new") /\ c \in AiCalls
    /\ Reserve(c, "ai_calls", today, 1)
    /\ Advance(c, "tokens")
    /\ UNCHANGED <<limit, today, running>>

ReserveTokens(c) ==
    /\ Doing(c, "tokens")
    /\ \E amount \in 1 .. MaxAmount :
          LET day == reserved[c]["ai_calls"].day IN
          IF SameLimit("ai_tokens", day) /\ Fits("ai_tokens", day, amount)
          THEN Reserve(c, "ai_tokens", day, amount) /\ Advance(c, "sent")
          ELSE Advance(c, "give back") /\ UNCHANGED <<ledger, reserved>>
    /\ UNCHANGED <<limit, today, running>>

(* The call is given back, unless the transaction fails, which is ignored.  *)
GiveBack(c) ==
    /\ Doing(c, "give back")
    /\ Release(c, "ai_calls") \/ UNCHANGED <<ledger, reserved>>
    /\ Advance(c, "over")
    /\ UNCHANGED <<limit, today, running>>

(* _post_ai_with_budget: the provider answers, with its usage or without,   *)
(* or the call fails.                                                       *)
Conclude(c) ==
    /\ Doing(c, "sent")
    /\ \/ \E used \in 0 .. MaxAmount + 1 :
              progress' = [progress EXCEPT ![c] = [step |-> "settle", used |-> used]]
       \/ progress' = [progress EXCEPT ![c] = [step |-> "settle",
                                       used |-> reserved[c]["ai_tokens"].amount]]
       \/ Advance(c, "release")
    /\ UNCHANGED <<limit, today, ledger, reserved, running>>

SettleCall(c) ==
    /\ Doing(c, "settle")
    /\ Settle(c, "ai_calls", 1)
    /\ Advance(c, "settle tokens")
    /\ UNCHANGED <<limit, today, running>>

(* More tokens than were reserved cannot be confirmed: the reservation      *)
(* stays until the program starts again.                                    *)
SettleTokens(c) ==
    /\ Doing(c, "settle tokens")
    /\ IF progress[c].used <= reserved[c]["ai_tokens"].amount
       THEN Settle(c, "ai_tokens", progress[c].used) ELSE UNCHANGED <<ledger, reserved>>
    /\ Advance(c, "over")
    /\ UNCHANGED <<limit, today, running>>

ReleaseCall(c) ==
    /\ Doing(c, "release")
    /\ Release(c, "ai_calls")
    /\ Advance(c, "release tokens")
    /\ UNCHANGED <<limit, today, running>>

ReleaseTokens(c) ==
    /\ Doing(c, "release tokens")
    /\ Release(c, "ai_tokens")
    /\ Advance(c, "over")
    /\ UNCHANGED <<limit, today, running>>

(* _search_budget_reserve: what is reserved counts as used at once.         *)
ReserveSearch(c) ==
    /\ Doing(c, "new") /\ c \in Searches
    /\ \E n \in 1 .. MaxAmount : Reserve(c, "search_calls", today, n)
    /\ Advance(c, "search")
    /\ UNCHANGED <<limit, today, running>>

ConfirmSearch(c) ==
    /\ Doing(c, "search")
    /\ Settle(c, "search_calls", reserved[c]["search_calls"].amount)
    /\ Advance(c, "over")
    /\ UNCHANGED <<limit, today, running>>
-----------------------------------------------------------------------------
NextDay ==
    /\ today < Days
    /\ today' = today + 1
    /\ UNCHANGED <<limit, ledger, reserved, progress, running>>

End ==
    /\ running
    /\ running' = FALSE
    /\ progress' = [c \in Spenders |-> IF progress[c].step = "new" THEN progress[c]
                                ELSE [step |-> "over", used |-> 0]]
    /\ UNCHANGED <<limit, today, ledger, reserved>>

(* recover_abandoned_budget_reservations, when the module is loaded.        *)
LeftReserved(b, d) ==
    {c \in Spenders : reserved[c][b].status = "reserved" /\ reserved[c][b].day = d}

(* The sum of what is reserved, counted unit by unit. *)
Units(C, b) == UNION {{c} \X (1 .. reserved[c][b].amount) : c \in C}

Amount(C, b) == Cardinality(Units(C, b))

(* Mutant: the ledger is corrected and the reservations stay. *)
ReleasedByAmount(c, b) == reserved[c][b]

Released(c, b) ==
    IF reserved[c][b].status = "reserved"
    THEN [reserved[c][b] EXCEPT !.status = "released"] ELSE reserved[c][b]

Start ==
    /\ ~running
    /\ running' = TRUE
    /\ limit' \in Limits
    /\ \A b \in Budgets, d \in 1 .. Days :
          ledger[b][d].reserved >= Amount(LeftReserved(b, d), b)
    /\ ledger' = [b \in Budgets |-> [d \in 1 .. Days |->
           [ledger[b][d] EXCEPT !.reserved = @ - Amount(LeftReserved(b, d), b)]]]
    /\ reserved' = [c \in Spenders |-> [b \in Budgets |-> Released(c, b)]]
    /\ UNCHANGED <<today, progress>>

BudgetNext ==
    \/ \E c \in Spenders :
        \/ ReserveCall(c) \/ ReserveTokens(c) \/ GiveBack(c) \/ Conclude(c)
        \/ SettleCall(c) \/ SettleTokens(c) \/ ReleaseCall(c) \/ ReleaseTokens(c)
        \/ ReserveSearch(c) \/ ConfirmSearch(c)
    \/ NextDay \/ End \/ Start

BudgetSpec == BudgetInit /\ [][BudgetNext]_budgetVars
-----------------------------------------------------------------------------
(* The ledger of a day says what its reservations say and stays within the  *)
(* limit the day began with, whatever calls overlap, half of a call fails,  *)
(* the day turns or the program ends between two steps: a recovery never    *)
(* finds it corrupt (user_state.py:443-640).                                *)
LedgerMatches ==
    \A b \in Budgets, d \in 1 .. Days :
        LET of(status) == {c \in Spenders : reserved[c][b].status = status
                                         /\ reserved[c][b].day = d}
            row == ledger[b][d]
        IN  /\ row.reserved = Amount(of("reserved"), b)
            /\ row.confirmed = Amount(of("confirmed"), b)
            /\ row.limit # NoLimit => row.reserved + row.confirmed <= row.limit
=============================================================================
