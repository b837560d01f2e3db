------------------------------- MODULE Heartbeat -------------------------------
(***************************************************************************)
(* Usage counters and the LLM kill switch between the processes of one     *)
(* service (mmos_client/_heartbeat.py) and MM OS (routers/agent.py         *)
(* heartbeat, routers/platform.py toggle_llm): one day, one service, one   *)
(* kind of counter.  Code and table count; here each unit that is used has *)
(* a number, so that one lost and another counted twice are told apart.    *)
(*                                                                         *)
(* A process counts what its requests report, and its heartbeat thread     *)
(* posts a snapshot, takes the answer and clears the counters, each under  *)
(* the counters' lock and nothing across the three.  MM OS adds to the     *)
(* row of the day by reading it and writing the sum.  A client that gives  *)
(* up does not stop the handler that carries its request out.              *)
(***************************************************************************)
EXTENDS Integers

CONSTANTS
    Process,
    Handler,    \* bound: heartbeats MM OS handles at once
    MaxUse,     \* bound: units the service uses
    MaxToggles, \* bound: times an administrator flips the switch
    MaxTrouble  \* bound: timeouts, failures of MM OS and restarts of processes

ASSUME HeartbeatAssumption == {MaxUse, MaxToggles, MaxTrouble} \subseteq Nat

VARIABLES
    enabled,    \* llm_registrations.enabled
    version,    \* config_version, the number of llm.* audit rows
    row,        \* llm_usage_daily of today: how often each unit is counted in it
    handlers,   \* what each handler has in memory
    counter,    \* UsageAccumulator of each process: the units in it
    beat,       \* the heartbeat thread of each process
    cached,     \* llm_enabled and config_version of each process
    trouble,    \* timeouts, failures and restarts so far
    used,       \* history: how many units the service has reported
    spoilt      \* history: what the code gives no guarantee for

beatVars == <<enabled, version, row, handlers, counter, beat, cached, trouble, used, spoilt>>

Unit == 1 .. MaxUse
NoRow == [u \in Unit |-> 0]
Free == [phase |-> "free"]
Asleep == [phase |-> "asleep"]

\* "wiped": a unit was reported between a heartbeat's snapshot and its clear; "overlapped":
\* two handlers read the same row and both wrote it; "repeated": a report was stored and the
\* process did not learn of it; "restarted": a process died with its counters.
Spoilers == {"wiped", "overlapped", "repeated", "restarted"}

BeatsInit ==
    /\ enabled = TRUE
    /\ version = 0
    /\ row = NoRow
    /\ handlers = [h \in Handler |-> Free]
    /\ counter = [p \in Process |-> {}]
    /\ beat = [p \in Process |-> Asleep]
    /\ cached = [p \in Process |-> [enabled |-> TRUE, version |-> -1]]
    /\ trouble = 0
    /\ used = 0
    /\ spoilt = {}

\* report_usage, on the request's own thread.
Use(p) ==
    /\ used < MaxUse
    /\ used' = used + 1
    /\ counter' = [counter EXCEPT ![p] = @ \cup {used'}]
    /\ UNCHANGED <<enabled, version, row, handlers, beat, cached, trouble, spoilt>>

\* beat_once takes the snapshot and posts it.
PostBeat(p, h) ==
    /\ beat[p].phase = "asleep"
    /\ handlers[h] = Free
    /\ beat' = [beat EXCEPT ![p] = [phase |-> "posted", to |-> h, usage |-> counter[p]]]
    /\ handlers' = [handlers EXCEPT ![h] = [phase |-> "called", usage |-> counter[p]]]
    /\ UNCHANGED <<enabled, version, row, counter, cached, trouble, used, spoilt>>

Awaited(h) == \E p \in Process : beat[p].phase = "posted" /\ beat[p].to = h

\* The handler loads the registration and, when the body reports usage, the row of the day;
\* the first report of the day creates it.
Load(h) ==
    /\ handlers[h].phase = "called"
    /\ handlers' = [handlers EXCEPT ![h] =
            [phase |-> "loaded", usage |-> @.usage, row |-> row, enabled |-> enabled]]
    /\ UNCHANGED <<enabled, version, row, counter, beat, cached, trouble, used, spoilt>>

Answer(h) == [phase |-> "answered", enabled |-> handlers[h].enabled, version |-> version]
Failure == [phase |-> "failed"]

\* Its client awaits the outcome, or nobody does.
Finish(h, outcome) == handlers' = [handlers EXCEPT ![h] = IF Awaited(h) THEN outcome ELSE Free]

\* The handler stores the sum it has computed; two that create the row conflict.  Then it
\* answers with the switch it loaded and the version of now.
Store(h) ==
    LET m == handlers[h] IN
    /\ m.phase = "loaded"
    /\ \/ /\ m.usage = {}
          /\ Finish(h, Answer(h))
          /\ UNCHANGED <<row, spoilt>>
       \/ /\ m.usage # {} /\ m.row = NoRow /\ row # NoRow
          /\ Finish(h, Failure)
          /\ UNCHANGED <<row, spoilt>>
       \/ /\ m.usage # {} /\ (m.row = NoRow => row = NoRow)
          /\ row' = [u \in Unit |-> m.row[u] + (IF u \in m.usage THEN 1 ELSE 0)]
          /\ spoilt' = spoilt \cup (IF row = m.row THEN {} ELSE {"overlapped"})
                              \cup (IF Awaited(h) THEN {} ELSE {"repeated"})
          /\ Finish(h, Answer(h))
    /\ UNCHANGED <<enabled, version, counter, beat, cached, trouble, used>>

Troubled == trouble < MaxTrouble /\ trouble' = trouble + 1

\* MM OS restarts, its database fails, the service key is refused: nothing is stored.
Fail(h) ==
    /\ handlers[h].phase \in {"called", "loaded"}
    /\ Troubled
    /\ Finish(h, Failure)
    /\ UNCHANGED <<enabled, version, row, counter, beat, cached, used, spoilt>>

\* Mutant of Receive: an answer with the version known already is taken for no news.
ReceiveByVersion(p) ==
    /\ beat[p].phase = "posted"
    /\ LET h == beat[p].to IN
        /\ handlers[h].phase = "answered"
        /\ cached' = IF handlers[h].version = cached[p].version THEN cached
                     ELSE [cached EXCEPT ![p] = [enabled |-> handlers[h].enabled,
                                                 version |-> handlers[h].version]]
        /\ handlers' = [handlers EXCEPT ![h] = Free]
        /\ beat' = [beat EXCEPT ![p] = [phase |-> "received", usage |-> @.usage]]
    /\ UNCHANGED <<enabled, version, row, counter, trouble, used, spoilt>>

\* The answer arrives: the switch and the version are taken over.
Receive(p) ==
    /\ beat[p].phase = "posted"
    /\ LET h == beat[p].to IN
        /\ handlers[h].phase = "answered"
        /\ cached' = [cached EXCEPT ![p] = [enabled |-> handlers[h].enabled,
                                            version |-> handlers[h].version]]
        /\ handlers' = [handlers EXCEPT ![h] = Free]
        /\ beat' = [beat EXCEPT ![p] = [phase |-> "received", usage |-> @.usage]]
    /\ UNCHANGED <<enabled, version, row, counter, trouble, used, spoilt>>

\* Mutant of Clear: what was shipped stays in the counters.
KeepCounting(p) ==
    /\ beat[p].phase = "received"
    /\ beat' = [beat EXCEPT ![p] = Asleep]
    /\ UNCHANGED <<enabled, version, row, handlers, counter, cached, trouble, used, spoilt>>

\* Then the counters are cleared, whatever they hold by now.
Clear(p) ==
    /\ beat[p].phase = "received"
    /\ counter' = [counter EXCEPT ![p] = {}]
    /\ beat' = [beat EXCEPT ![p] = Asleep]
    /\ spoilt' = spoilt \cup (IF counter[p] = beat[p].usage THEN {} ELSE {"wiped"})
    /\ UNCHANGED <<enabled, version, row, handlers, cached, trouble, used>>

\* Mutant of GiveUpBeat: a failed heartbeat clears the counters too.
GiveUpAndClear(p) ==
    /\ beat[p].phase = "posted"
    /\ counter' = [counter EXCEPT ![p] = {}]
    /\ beat' = [beat EXCEPT ![p] = Asleep]
    /\ LET h == beat[p].to IN
        /\ \/ handlers[h].phase = "failed" /\ UNCHANGED trouble
           \/ handlers[h].phase # "failed" /\ Troubled
        /\ handlers' = [handlers EXCEPT ![h] = IF @.phase \in {"answered", "failed"} THEN Free ELSE @]
        /\ spoilt' = spoilt \cup (IF handlers[h].phase = "answered" THEN {"repeated"} ELSE {})
    /\ UNCHANGED <<enabled, version, row, cached, used>>

\* A failure or a timeout: the counters are left, and a handler may still be at work, or have
\* stored the report and lost its answer.
GiveUpBeat(p) ==
    /\ beat[p].phase = "posted"
    /\ beat' = [beat EXCEPT ![p] = Asleep]
    /\ LET h == beat[p].to IN
        /\ \/ handlers[h].phase = "failed" /\ UNCHANGED trouble
           \/ handlers[h].phase # "failed" /\ Troubled
        /\ handlers' = [handlers EXCEPT ![h] = IF @.phase \in {"answered", "failed"} THEN Free ELSE @]
        /\ spoilt' = spoilt \cup (IF handlers[h].phase = "answered" THEN {"repeated"} ELSE {})
    /\ UNCHANGED <<enabled, version, row, counter, cached, used>>

\* The process restarts: counters and cache are memory, and the switch is on at the start.
RestartProcess(p) ==
    /\ counter[p] # {} \/ beat[p].phase # "asleep"
    /\ Troubled
    /\ counter' = [counter EXCEPT ![p] = {}]
    /\ beat' = [beat EXCEPT ![p] = Asleep]
    /\ cached' = [cached EXCEPT ![p] = [enabled |-> TRUE, version |-> -1]]
    /\ handlers' = [h \in Handler |->
            IF beat[p].phase = "posted" /\ beat[p].to = h /\ handlers[h].phase \in {"answered", "failed"}
            THEN Free ELSE handlers[h]]
    /\ spoilt' = spoilt \cup {"restarted"}
    /\ UNCHANGED <<enabled, version, row, used>>

\* toggle_llm, with its audit row in the same transaction.
Toggle ==
    /\ version < MaxToggles
    /\ enabled' \in BOOLEAN
    /\ version' = version + 1
    /\ UNCHANGED <<row, handlers, counter, beat, cached, trouble, used, spoilt>>

BeatsNext ==
    \/ \E p \in Process :
        \/ Use(p) \/ Receive(p) \/ Clear(p) \/ GiveUpBeat(p) \/ RestartProcess(p)
        \/ \E h \in Handler : PostBeat(p, h)
    \/ \E h \in Handler : Load(h) \/ Store(h) \/ Fail(h)
    \/ Toggle

\* Heartbeat threads beat for ever, MM OS carries its requests out, and answers arrive; it is
\* MaxTrouble that lets the trouble end.
BeatsFairness ==
    /\ \A p \in Process : /\ SF_beatVars(\E h \in Handler : PostBeat(p, h))
                          /\ WF_beatVars(Receive(p))
                          /\ WF_beatVars(Clear(p))
                          /\ WF_beatVars(GiveUpBeat(p))
    /\ \A h \in Handler : WF_beatVars(Load(h)) /\ WF_beatVars(Store(h))

BeatsSpec == BeatsInit /\ [][BeatsNext]_beatVars /\ BeatsFairness

-----------------------------------------------------------------------------
(* Properties                                                              *)

HeartbeatTypeOK ==
    /\ enabled \in BOOLEAN /\ version \in 0 .. MaxToggles /\ used \in 0 .. MaxUse
    /\ row \in [Unit -> Nat]
    /\ counter \in [Process -> SUBSET Unit]
    /\ trouble \in 0 .. MaxTrouble
    /\ cached \in [Process -> [enabled : BOOLEAN, version : -1 .. MaxToggles]]
    /\ spoilt \subseteq Spoilers

\* _heartbeat.py:3-4, "a successful heartbeat ships and clears the counters, a failed one
\* leaves them for the next attempt": through failures, timeouts and answers that come too
\* late no unit is lost, unless it was reported while a heartbeat was on its way, two
\* heartbeats of the service overlapped in MM OS, or a process died.
UsageKept ==
    spoilt \cap {"wiped", "overlapped", "restarted"} = {} =>
        \A u \in 1 .. used : row[u] > 0 \/ \E p \in Process : u \in counter[p]

\* No unit is counted twice, nor one that was not used, unless a report was stored and its
\* sender not told.
UsageCountedOnce ==
    "repeated" \notin spoilt => \A u \in Unit : row[u] <= IF u <= used THEN 1 ELSE 0

\* "kill-switch pickup": when the administrators have stopped flipping the switch, every
\* process comes to cache its last position, whatever answers are lost or late.
SwitchReachesEveryProcess ==
    \A p \in Process : <>[](cached[p].enabled = enabled)
=============================================================================
