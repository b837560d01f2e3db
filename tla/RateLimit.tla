------------------------------- MODULE RateLimit -------------------------------
(***************************************************************************)
(* backend/app/ratelimit.py: fixed-window counters that all workers share  *)
(* through one table, and the sweep of old windows in the hourly loop of   *)
(* routers/agent.py.                                                       *)
(*                                                                         *)
(* check_rate_limit is at most three transactions: an UPDATE that counts   *)
(* only under the limit, an INSERT of the first hit, and, when the INSERT  *)
(* meets a row, the UPDATE once more.  PostgreSQL makes the second writer  *)
(* of a row (and of a key being inserted) wait for the first, so each is   *)
(* one step; anything may happen between two of them.                      *)
(***************************************************************************)
EXTENDS Naturals

CONSTANTS
    Worker, Bucket,
    Limit,          \* hits a bucket may have in one window
    KeepWindows,    \* windows the sweep leaves alone before the current one
    Lag,            \* windows a request may be behind the sweeper's clock
    Horizon         \* bound: the last window

\* The counters are right only if no request is older than the windows the sweep keeps:
\* a request that waits longer for its statement would find its window swept.
ASSUME LimitAssumption ==
    /\ Limit \in Nat \ {0}
    /\ KeepWindows \in Nat /\ Lag \in Nat /\ Horizon \in Nat
    /\ Lag <= KeepWindows

VARIABLES
    clock,      \* the current window, int(now // window_seconds)
    count,      \* rate_limits: the count of every (bucket, window_key), 0 without a row
    calls,      \* the running calls of check_rate_limit, and their last results
    accepted    \* history: committed hits of every bucket in every window

limiterVars == <<clock, count, calls, accepted>>

Window == 0 .. Horizon
Counts == [Bucket -> [Window -> 0 .. Limit]]
Step == {"update", "insert", "again"}
Call == [step : Step, bucket : Bucket, window : Window]
Result(answer) == [step |-> answer]
Results == {Result("idle"), Result("accepted"), Result("limited")}

Running(w) == calls[w].step \in Step

LimiterInit ==
    /\ clock = 0
    /\ count = [b \in Bucket |-> [k \in Window |-> 0]]
    /\ calls = [w \in Worker |-> Result("idle")]
    /\ accepted = [b \in Bucket |-> [k \in Window |-> 0]]

\* The window is read once, at the start.
Begin(w, b, k) ==
    /\ ~Running(w)
    /\ k <= clock /\ clock <= k + Lag
    /\ calls' = [calls EXCEPT ![w] = [step |-> "update", bucket |-> b, window |-> k]]
    /\ UNCHANGED <<clock, count, accepted>>

\* The transaction of w counts its hit and commits.
Hit(w, b, k) ==
    /\ count' = [count EXCEPT ![b][k] = @ + 1]
    /\ accepted' = [accepted EXCEPT ![b][k] = @ + 1]
    /\ calls' = [calls EXCEPT ![w] = Result("accepted")]

Row(b, k) == count[b][k] > 0

\* Mutant of UnderBudget: the predicate of the UPDATE is forgotten.
AnyRow(b, k) == Row(b, k)
UnderBudget(b, k) == Row(b, k) /\ count[b][k] < Limit

Goto(w, step) == calls' = [calls EXCEPT ![w].step = step]

\* First the conditional UPDATE: no row of the window, or one at the limit, matches nothing.
Update(w) ==
    LET b == calls[w].bucket
        k == calls[w].window
    IN  /\ calls[w].step = "update"
        /\ \/ UnderBudget(b, k) /\ Hit(w, b, k)
           \/ ~UnderBudget(b, k) /\ Goto(w, "insert") /\ UNCHANGED <<count, accepted>>
        /\ UNCHANGED clock

\* Mutant of Insert: losing the race for the first row is taken for the limit.
InsertOrRefuse(w) ==
    LET b == calls[w].bucket
        k == calls[w].window
    IN  /\ calls[w].step = "insert"
        /\ \/ ~Row(b, k) /\ Hit(w, b, k)
           \/ /\ Row(b, k)
              /\ calls' = [calls EXCEPT ![w] = Result("limited")]
              /\ UNCHANGED <<count, accepted>>
        /\ UNCHANGED clock

\* Then the INSERT; the unique key sends the loser of a race on.
Insert(w) ==
    LET b == calls[w].bucket
        k == calls[w].window
    IN  /\ calls[w].step = "insert"
        /\ \/ ~Row(b, k) /\ Hit(w, b, k)
           \/ Row(b, k) /\ Goto(w, "again") /\ UNCHANGED <<count, accepted>>
        /\ UNCHANGED clock

\* Mutant of Again: a miss tries the INSERT once more.
AgainForEver(w) ==
    LET b == calls[w].bucket
        k == calls[w].window
    IN  /\ calls[w].step = "again"
        /\ \/ UnderBudget(b, k) /\ Hit(w, b, k)
           \/ ~UnderBudget(b, k) /\ Goto(w, "insert") /\ UNCHANGED <<count, accepted>>
        /\ UNCHANGED clock

\* Last the UPDATE again, whose miss means that the budget is spent.
Again(w) ==
    LET b == calls[w].bucket
        k == calls[w].window
    IN  /\ calls[w].step = "again"
        /\ \/ UnderBudget(b, k) /\ Hit(w, b, k)
           \/ /\ ~UnderBudget(b, k)
              /\ calls' = [calls EXCEPT ![w] = Result("limited")]
              /\ UNCHANGED <<count, accepted>>
        /\ UNCHANGED clock

Check(w) == Update(w) \/ Insert(w) \/ Again(w)

\* The worker dies between two transactions.  (When it dies after the commit of its hit the
\* budget is used all the same.)
Die(w) ==
    /\ Running(w)
    /\ calls' = [calls EXCEPT ![w] = Result("idle")]
    /\ UNCHANGED <<clock, count, accepted>>

\* purge_expired_rate_limits, any time: the loop sleeps an hour.
Purge ==
    /\ count' = [b \in Bucket |-> [k \in Window |->
                    IF k + KeepWindows < clock THEN 0 ELSE count[b][k]]]
    /\ UNCHANGED <<clock, calls, accepted>>

\* Time passes; no call falls further behind than Lag.
Tick ==
    /\ clock < Horizon
    /\ \A w \in Worker : Running(w) => clock < calls[w].window + Lag
    /\ clock' = clock + 1
    /\ UNCHANGED <<count, calls, accepted>>

LimiterNext ==
    \/ \E w \in Worker, b \in Bucket, k \in Window : Begin(w, b, k)
    \/ \E w \in Worker : Check(w) \/ Die(w)
    \/ Purge
    \/ Tick

\* A worker that has begun a call goes on with it.
LimiterFairness == \A w \in Worker : WF_limiterVars(Check(w))
LimiterSpec == LimiterInit /\ [][LimiterNext]_limiterVars /\ LimiterFairness

-----------------------------------------------------------------------------
(* Properties                                                              *)

LimiterTypeOK ==
    /\ clock \in Window
    /\ count \in Counts
    /\ calls \in [Worker -> Results \cup Call]
    /\ accepted \in Counts

\* The caller's view of the calls.
Verdict == [w \in Worker |->
    IF Running(w) THEN [of |-> "asked", bucket |-> calls[w].bucket, window |-> calls[w].window]
    ELSE [of |-> IF calls[w].step = "idle" THEN "nobody" ELSE calls[w].step]]

Promise == INSTANCE Budget WITH used <- accepted, verdict <- Verdict

\* ratelimit.py:58-60, "no worker can push the counter past `limit`", and line 95, a miss
\* of the last UPDATE means that the row is at the limit: however the statements of the
\* workers interleave with each other, with deaths and with the sweep, a hit is accepted
\* only within the budget and refused only when exactly Limit hits were accepted.
KeepsBudget == Promise!Spec

\* Every call that goes on is answered: nobody waits for anybody in a circle.
EveryCallAnswered == \A w \in Worker : Running(w) ~> ~Running(w)
=============================================================================
