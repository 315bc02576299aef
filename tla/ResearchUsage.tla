---------------------------- MODULE ResearchUsage ----------------------------
(***************************************************************************)
(* The student's daily token quota: backend/app/services/research_usage.py *)
(* (reservations before a model call, settlement after it) and             *)
(* quota_service.py (what a teacher grants). reserve and settle lock the   *)
(* user row first and then the run, so each is one step; refill reads and  *)
(* writes without a lock, so it is two.                                    *)
(***************************************************************************)
EXTENDS ResearchRuns

CONSTANTS
    Teachers,   \* who may refill the quota at the same time
    Quota,      \* users.daily_token_quota
    Estimate,   \* tokens reserved for a call: its prompt and longest output
    Prompt,     \* tokens recorded for a call that failed: its prompt alone
    Bills       \* tokens a call may turn out to cost

ASSUME TokenAssumption ==
    Quota \in Nat \ {0} /\ Estimate \in Nat /\ Prompt \in Nat /\ Bills \subseteq Nat

VARIABLES
    day,        \* date.today()
    used,       \* usage_stats.tokens_used of each day
    granted,    \* the sum of each day's quota_grants
    refill      \* what each teacher's request has read: <<day, tokens>>

quota == <<day, used, granted, refill>>

Call == [state: {"none", "active", "settled"}, request: Requests \cup {NoRequest},
         date: Days, reserved: Nat, billed: Nat]

NoCall == [state |-> "none", request |-> NoRequest, date |-> 1,
           reserved |-> 0, billed |-> 0]

NoRefill == <<0, 0>>

InitUsage == /\ call = [c \in Calls |-> NoCall]
             /\ day = 1
             /\ used = [d \in Days |-> 0]
             /\ granted = [d \in Days |-> 0]
             /\ refill = [p \in Teachers |-> NoRefill]

-----------------------------------------------------------------------------
DailyLimit(d) == Quota + granted[d]

\* What the reservations of a day hold back.
Held(d) == SumFunctionOnSet([c \in Calls |-> call[c].reserved],
                            {c \in Calls : call[c].state = "active" /\ call[c].date = d})

\* Mutant: calls in flight are not counted.
WithinLimitUsedOnly(d) == used[d] + Estimate <= DailyLimit(d)

\* The quota check of reserve.
WithinLimit(d) == used[d] + Held(d) + Estimate <= DailyLimit(d)

NextCall(c) == call[c].state = "none" /\ \A b \in Calls : b < c => call[b].state # "none"

\* reserve for a run that is running.
Reserve(q, c) ==
    /\ run[q].status = "running"
    /\ NextCall(c)
    /\ WithinLimit(day)
    /\ call' = [call EXCEPT ![c] = [state |-> "active", request |-> q, date |-> day,
                                    reserved |-> Estimate, billed |-> 0]]

\* Mutant: the usage is booked on the day the answer came.
BookedToday(c, billed) == [used EXCEPT ![day] = @ + billed]

\* The usage_stats row of the reservation's day.
Booked(c, billed) == [used EXCEPT ![call[c].date] = @ + billed]

\* The tail of settle: the last call of a run that was closed before it.
Settlement(c) ==
    LET q == call[c].request
    IN  IF run[q].status \in {"failed", "cancelled"} /\ HeldCalls(q) = {c}
        THEN [run EXCEPT ![q].settlement = "settled"] ELSE run

\* settle.
Settle(c, billed) ==
    /\ call[c].state = "active"
    /\ call' = [call EXCEPT ![c].state = "settled", ![c].billed = billed]
    /\ used' = Booked(c, billed)
    /\ run' = Settlement(c)
    /\ UNCHANGED <<messages, cited, day, granted, refill>>

-----------------------------------------------------------------------------
\* refill reads the usage of today ...
ReadUsage(p) ==
    /\ refill[p] = NoRefill
    /\ used[day] > granted[day]
    /\ refill' = [refill EXCEPT ![p] = <<day, used[day] - granted[day]>>]
    /\ UNCHANGED <<day, used, granted>>

\* ... and grants what was used beyond earlier grants.
Grant(p) ==
    /\ refill[p] # NoRefill
    /\ granted' = [granted EXCEPT ![refill[p][1]] = @ + refill[p][2]]
    /\ refill' = [refill EXCEPT ![p] = NoRefill]
    /\ UNCHANGED <<day, used>>

Midnight == /\ day < MaxDay
            /\ day' = day + 1
            /\ UNCHANGED <<used, granted, refill>>

=============================================================================
