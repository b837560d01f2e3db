--------------------------- MODULE ActivityOutbox ---------------------------
(***************************************************************************)
(* Activity reporting of one service (mmos_client/activity.py, used by the *)
(* Service Desk through servicedesk/app/activity.py) and its collector     *)
(* (backend routers/activity.py): the ORM capture writes an event into the *)
(* transaction of the change, publishers retry what is not acknowledged,   *)
(* the collector deduplicates by event identifier.                         *)
(*                                                                         *)
(* Several publishers may run on one outbox, one per process.  A request   *)
(* whose publisher has timed out may still be carried out later.           *)
(* next_attempt_at is abstracted to `waiting`: the delay is at most 300    *)
(* seconds and always ends; `attempts`, which only sizes it, is left out.  *)
(***************************************************************************)
EXTENDS Integers, FiniteSets

CONSTANTS
    Event,          \* changed rows, each with the event that reports it
    Publisher,
    Batch,          \* LIMIT 20 of publish_once, max_length of the collector's Batch
    MaxCrashes, MaxStrays       \* bounds of a TLC run

ASSUME BatchAssumption == Batch \in Nat \ {0}
ASSUME BoundAssumption == {MaxCrashes, MaxStrays} \subseteq Nat /\ IsFiniteSet(Event)

VARIABLES
    flushed,    \* rows flushed in the open transactions, with their events: a set of sets
    born,       \* created_at of each event: its place in the order of the flushes
    changed,    \* committed rows of the audited tables
    events,     \* activity_events
    delivered,  \* activity_delivery.delivered_at IS NOT NULL
    waiting,    \* activity_delivery.next_attempt_at > now
    sending,    \* publish_once of each publisher
    strays,     \* requests that nobody waits for any more
    history,    \* service_activity of MM OS
    crashes

vars == <<flushed, born, changed, events, delivered, waiting, sending, strays, history, crashes>>

Stage == {"idle", "posted", "answered", "failed"}
Idle == [stage |-> "idle", batch |-> {}]

TypeOK ==
    /\ flushed \subseteq SUBSET Event
    /\ born \in [Event -> Nat]
    /\ {changed, events, delivered, waiting, history} \subseteq SUBSET Event
    /\ sending \in [Publisher -> [stage : Stage, batch : SUBSET Event]]
    /\ strays \subseteq SUBSET Event
    /\ crashes \in Nat

Init ==
    /\ flushed = {}
    /\ born = [e \in Event |-> 0]
    /\ changed = {} /\ events = {} /\ delivered = {} /\ waiting = {}
    /\ sending = [p \in Publisher |-> Idle]
    /\ strays = {}
    /\ history = {}
    /\ crashes = 0

(***************************************************************************)
(* The service's own transactions.                                         *)
(***************************************************************************)
\* capture_changes and persist_changes: a flush writes the rows, and enqueues the event of
\* each in the same transaction.  T is what the transaction has flushed before.
Flush(T, E) ==
    /\ E # {} /\ \A e \in E : born[e] = 0
    /\ T \in flushed \cup {{}}
    /\ flushed' = (flushed \ {T}) \cup {T \cup E}
    /\ born' = [e \in Event |-> IF e \in E THEN 1 + Cardinality({f \in Event : born[f] > 0})
                                            ELSE born[e]]
    /\ UNCHANGED <<changed, events, delivered, waiting, sending, strays, history, crashes>>

Commit(T) ==
    /\ flushed' = flushed \ {T}
    /\ changed' = changed \cup T
    /\ events' = events \cup T
    /\ UNCHANGED <<born, delivered, waiting, sending, strays, history, crashes>>

\* Mutant of Rollback: the event was enqueued by a transaction of its own.
RollbackLeavesEvents(T) ==
    /\ flushed' = flushed \ {T}
    /\ events' = events \cup T
    /\ UNCHANGED <<born, changed, delivered, waiting, sending, strays, history, crashes>>

Rollback(T) ==
    /\ flushed' = flushed \ {T}
    /\ UNCHANGED <<born, changed, events, delivered, waiting, sending, strays, history, crashes>>

(***************************************************************************)
(* publish_once: read a batch, post it, settle it; each in a transaction   *)
(* of its own, with nothing locked in between.                             *)
(***************************************************************************)
Due == events \ (delivered \cup waiting)

\* The oldest due events, at most Batch of them.
Oldest(B) ==
    /\ B \subseteq Due
    /\ \A e \in B, f \in Due \ B : born[e] <= born[f]
    /\ Cardinality(B) = IF Cardinality(Due) <= Batch THEN Cardinality(Due) ELSE Batch

Post(p) ==
    /\ sending[p].stage = "idle"
    /\ Due # {}
    /\ \E B \in SUBSET Due :
         /\ Oldest(B)
         /\ sending' = [sending EXCEPT ![p] = [stage |-> "posted", batch |-> B]]
    /\ UNCHANGED <<flushed, born, changed, events, delivered, waiting, strays, history, crashes>>

\* collect_activity: the whole batch in one transaction, an event already there only
\* acknowledged again.
Collect(p) ==
    /\ sending[p].stage = "posted"
    /\ history' = history \cup sending[p].batch
    /\ sending' = [sending EXCEPT ![p].stage = "answered"]
    /\ UNCHANGED <<flushed, born, changed, events, delivered, waiting, strays, crashes>>

\* A timeout, a refusal, a lost or broken answer.  The request may still be on its way.
GiveUp(p) ==
    /\ sending[p].stage \in {"posted", "answered"}
    /\ sending' = [sending EXCEPT ![p].stage = "failed"]
    /\ strays' \in {strays} \cup
         IF sending[p].stage = "posted" /\ Cardinality(strays) < MaxStrays
         THEN {strays \cup {sending[p].batch}} ELSE {}
    /\ UNCHANGED <<flushed, born, changed, events, delivered, waiting, history, crashes>>

CollectStray(B) ==
    /\ strays' = strays \ {B}
    /\ history' = history \cup B
    /\ UNCHANGED <<flushed, born, changed, events, delivered, waiting, sending, crashes>>

LoseStray(B) ==
    /\ strays' = strays \ {B}
    /\ UNCHANGED <<flushed, born, changed, events, delivered, waiting, sending, history, crashes>>

\* Mutants of Settle: any end of the exchange counts as delivery; the failed exchange of a
\* slow publisher writes over the delivery of another.
SettleAsDelivered(p) ==
    /\ sending[p].stage \in {"answered", "failed"}
    /\ sending' = [sending EXCEPT ![p] = Idle]
    /\ delivered' = delivered \cup sending[p].batch
    /\ waiting' = waiting \ sending[p].batch
    /\ UNCHANGED <<flushed, born, changed, events, strays, history, crashes>>
SettleBlindly(p) ==
    /\ sending[p].stage \in {"answered", "failed"}
    /\ sending' = [sending EXCEPT ![p] = Idle]
    /\ IF sending[p].stage = "answered"
       THEN /\ delivered' = delivered \cup sending[p].batch
            /\ waiting' = waiting \ sending[p].batch
       ELSE /\ delivered' = delivered \ sending[p].batch
            /\ waiting' = waiting \cup sending[p].batch
    /\ UNCHANGED <<flushed, born, changed, events, strays, history, crashes>>

\* Only rows that nobody has marked delivered are written.
Settle(p) ==
    /\ sending[p].stage \in {"answered", "failed"}
    /\ sending' = [sending EXCEPT ![p] = Idle]
    /\ LET open == sending[p].batch \ delivered IN
       IF sending[p].stage = "answered"
       THEN delivered' = delivered \cup open /\ waiting' = waiting \ open
       ELSE waiting' = waiting \cup open /\ UNCHANGED delivered
    /\ UNCHANGED <<flushed, born, changed, events, strays, history, crashes>>

\* Mutant of BackoffEnds: the delay grows without its cap and never ends.
BackoffForever(e) == FALSE /\ UNCHANGED vars

\* next_attempt_at <= now
BackoffEnds(e) ==
    /\ e \in waiting
    /\ waiting' = waiting \ {e}
    /\ UNCHANGED <<flushed, born, changed, events, delivered, sending, strays, history, crashes>>

\* The publisher's process dies and is started again; its request may be on its way.
Crash(p) ==
    /\ crashes < MaxCrashes
    /\ sending[p].stage # "idle"
    /\ crashes' = crashes + 1
    /\ sending' = [sending EXCEPT ![p] = Idle]
    /\ strays' \in {strays} \cup
         IF sending[p].stage = "posted" /\ Cardinality(strays) < MaxStrays
         THEN {strays \cup {sending[p].batch}} ELSE {}
    /\ UNCHANGED <<flushed, born, changed, events, delivered, waiting, history>>

Next ==
    \/ \E T \in flushed \cup {{}}, E \in SUBSET Event : Flush(T, E)
    \/ \E T \in flushed : Commit(T) \/ Rollback(T)
    \/ \E p \in Publisher : Post(p) \/ Collect(p) \/ GiveUp(p) \/ Settle(p) \/ Crash(p)
    \/ \E B \in strays : CollectStray(B) \/ LoseStray(B)
    \/ \E e \in Event : BackoffEnds(e)

\* The publishers' loops run, a back-off ends, and an exchange that is tried again and again
\* succeeds at some time, for every event.  Nothing makes a service commit.
Fairness ==
    /\ \A p \in Publisher : WF_vars(Post(p)) /\ WF_vars(Settle(p)) /\ WF_vars(GiveUp(p))
    /\ \A e \in Event :
         /\ WF_vars(BackoffEnds(e))
         /\ SF_vars(\E p \in Publisher : e \in sending[p].batch /\ Collect(p))
         /\ SF_vars(\E p \in Publisher :
                e \in sending[p].batch /\ sending[p].stage = "answered" /\ Settle(p))

Spec == Init /\ [][Next]_vars /\ Fairness
-----------------------------------------------------------------------------
(***************************************************************************)
(* Properties.                                                             *)
(***************************************************************************)
\* An event is marked delivered only when the history has it: no timeout, crash or second
\* publisher makes the service drop evidence that MM OS does not hold (publish_once).
DeliveredIsCollected == delivered \subseteq history

\* Once marked delivered, an event stays so: the late failure of a slow publisher does not
\* undo what another has settled (publish_once, "delivered_at IS NULL").
DeliveryStands == [][delivered \subseteq delivered']_vars

\* The outbox and the collector do what ActivityLog promises: the history shows committed
\* changes only, and every committed change reaches it.
Log == INSTANCE ActivityLog
HistoryIsFaithful == Log!Spec

\* Every event of a committed change is in the end settled, so that the outbox drains (delivery_status).
OutboxDrains == \A e \in Event : e \in changed ~> e \in delivered
=============================================================================
