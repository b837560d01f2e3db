----------------------------- MODULE MCProgress -----------------------------
(***************************************************************************)
(* Two small modules with liveness in one run: a behaviour is one of       *)
(* ActivityOutbox or one of RateLimit, as its initial state says.  They    *)
(* share nothing, and the other one's variables stay where they are.       *)
(***************************************************************************)
EXTENDS ActivityOutbox, RateLimit

VARIABLE part

all == <<part, vars, limiterVars>>

Outbox == part = "outbox" /\ UNCHANGED <<part, limiterVars>>
Limiter == part = "limiter" /\ UNCHANGED <<part, vars>>

MCInit == part \in {"outbox", "limiter"} /\ Init /\ LimiterInit
MCNext == (Outbox /\ Next) \/ (Limiter /\ LimiterNext)

\* The Fairness of each, where its actions may be taken.
MCFairness ==
    /\ \A w \in Worker : WF_all(Limiter /\ Check(w))
    /\ \A p \in Publisher : /\ WF_all(Outbox /\ Post(p))
                            /\ WF_all(Outbox /\ Settle(p))
                            /\ WF_all(Outbox /\ GiveUp(p))
    /\ \A e \in Event :
         /\ WF_all(Outbox /\ BackoffEnds(e))
         /\ SF_all(Outbox /\ \E p \in Publisher : e \in sending[p].batch /\ Collect(p))
         /\ SF_all(Outbox /\ \E p \in Publisher :
                e \in sending[p].batch /\ sending[p].stage = "answered" /\ Settle(p))

MCSpec == MCInit /\ [][MCNext]_all /\ MCFairness
=============================================================================
