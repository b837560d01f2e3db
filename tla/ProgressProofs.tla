--------------------------- MODULE ProgressProofs ---------------------------
(***************************************************************************)
(* Proofs about the activity outbox, the request limits and the usage      *)
(* counters.                                                               *)
(*                                                                         *)
(* Outbox, for any events, publishers and batches: what is marked          *)
(* delivered is in the history, and outbox and collector implement the     *)
(* safety part of ActivityLog.                                             *)
(*                                                                         *)
(* Limits, for any workers, buckets and windows and any limit: the shared  *)
(* counters implement Budget.                                              *)
(*                                                                         *)
(* Usage, for any processes, handlers and units: what the heartbeats of a  *)
(* service may lose, and when they may count twice.                        *)
(***************************************************************************)
EXTENDS ActivityOutbox, RateLimit, Heartbeat, FiniteSetTheorems, TLAPS

-----------------------------------------------------------------------------
(* The outbox                                                              *)

\* A batch is made of outbox rows, and an acknowledged batch is in the history.
ExchangeInv ==
    /\ \A p \in Publisher : sending[p].batch \subseteq events
    /\ \A p \in Publisher : sending[p].stage = "answered" => sending[p].batch \subseteq history
    /\ \A B \in strays : B \subseteq events

\* The outbox holds exactly the events of the committed changes, and no open transaction
\* shares a row with them or with another.
CaptureInv ==
    /\ events = changed
    /\ history \subseteq events
    /\ \A e \in changed : born[e] > 0
    /\ \A T \in flushed : T # {} /\ T \cap changed = {} /\ \A e \in T : born[e] > 0
    /\ \A T, U \in flushed : T = U \/ T \cap U = {}

OutboxInv == TypeOK /\ ExchangeInv /\ CaptureInv /\ DeliveredIsCollected

LEMMA OutboxInitially == ASSUME Init PROVE OutboxInv
  BY BoundAssumption DEF Init, OutboxInv, TypeOK, ExchangeInv, CaptureInv, DeliveredIsCollected, Idle, Stage

\* The transactions of the service: only they touch the open transactions and the outbox.
LEMMA ServiceStep ==
    ASSUME OutboxInv, \/ \E T \in flushed \cup {{}}, E \in SUBSET Event : Flush(T, E)
                 \/ \E T \in flushed : Commit(T) \/ Rollback(T)
    PROVE  OutboxInv'
<1>. USE DEF OutboxInv
<1>1. ASSUME NEW T \in flushed \cup {{}}, NEW E \in SUBSET Event, Flush(T, E) PROVE OutboxInv'
  <2>1. /\ flushed' = (flushed \ {T}) \cup {T \cup E}
        /\ UNCHANGED <<changed, events, delivered, waiting, sending, strays, history, crashes>>
    BY <1>1 DEF Flush
  <2>. DEFINE next == 1 + Cardinality({f \in Event : born[f] > 0})
  <2>2. next \in Nat \ {0}
    <3>1. IsFiniteSet({f \in Event : born[f] > 0})
      BY BoundAssumption, FS_Subset
    <3>2. Cardinality({f \in Event : born[f] > 0}) \in Nat
      BY <3>1, FS_CardinalityType
    <3>. QED
      BY <3>2
  <2>3. born' = [e \in Event |-> IF e \in E THEN next ELSE born[e]]
    BY <1>1 DEF Flush
  <2>. HIDE DEF next
  <2>4. /\ born' \in [Event -> Nat]
        /\ \A e \in Event : born[e] > 0 => born'[e] > 0
        /\ \A e \in E : born'[e] > 0
    BY <2>2, <2>3 DEF TypeOK
  <2>5. TypeOK'
    BY <2>1, <2>4 DEF TypeOK
  <2>6. ExchangeInv' /\ DeliveredIsCollected'
    BY <2>1 DEF ExchangeInv, DeliveredIsCollected
  <2>7. E # {} /\ \A e \in E : born[e] = 0
    BY <1>1 DEF Flush
  <2>8. T \cap changed = {} /\ (\A e \in T : e \in Event /\ born[e] > 0)
        /\ \A U \in flushed : U # T => T \cap U = {}
    BY DEF CaptureInv, TypeOK
  <2>9. E \cap changed = {} /\ \A U \in flushed : E \cap U = {}
    BY <2>7 DEF CaptureInv
  <2>10. CaptureInv'
    <3>1. changed \subseteq Event
      BY DEF TypeOK
    <3>2. ASSUME NEW U \in flushed' PROVE U # {} /\ U \cap changed = {} /\ \A e \in U : born'[e] > 0
      BY <2>1, <2>4, <2>7, <2>8, <2>9, <3>2 DEF CaptureInv, TypeOK
    <3>3. ASSUME NEW U \in flushed', NEW V \in flushed' PROVE U = V \/ U \cap V = {}
      BY <2>1, <2>8, <2>9, <3>3 DEF CaptureInv
    <3>4. \A e \in changed : born'[e] > 0
      BY <2>4, <3>1 DEF CaptureInv
    <3>. QED
      BY <2>1, <3>2, <3>3, <3>4 DEF CaptureInv
  <2>. QED
    BY <2>5, <2>6, <2>10
<1>2. ASSUME NEW T \in flushed, Commit(T) PROVE OutboxInv'
  BY <1>2 DEF Commit, TypeOK, ExchangeInv, CaptureInv, DeliveredIsCollected
<1>3. ASSUME NEW T \in flushed, Rollback(T) PROVE OutboxInv'
  BY <1>3 DEF Rollback, TypeOK, ExchangeInv, CaptureInv, DeliveredIsCollected
<1>. QED
  BY <1>1, <1>2, <1>3

\* One publisher's step.
LEMMA PublisherStep ==
    ASSUME OutboxInv, NEW p \in Publisher,
           Post(p) \/ Collect(p) \/ GiveUp(p) \/ Settle(p) \/ Crash(p)
    PROVE  OutboxInv'
<1>. USE DEF OutboxInv
<1>0. /\ \A q \in Publisher : sending[q].stage \in Stage /\ sending[q].batch \subseteq Event
      /\ flushed \subseteq SUBSET Event /\ born \in [Event -> Nat]
  BY DEF TypeOK
<1>1. CASE Post(p)
  <2>1. PICK B \in SUBSET Due :
            sending' = [sending EXCEPT ![p] = [stage |-> "posted", batch |-> B]]
    BY <1>1 DEF Post
  <2>2. B \subseteq events /\ B \subseteq Event
    BY DEF Due, TypeOK
  <2>3. UNCHANGED <<flushed, born, changed, events, delivered, waiting, strays, history, crashes>>
    BY <1>1 DEF Post
  <2>4. TypeOK'
    BY <2>1, <2>2, <2>3 DEF TypeOK, Stage
  <2>5. ExchangeInv'
    BY <2>1, <2>2, <2>3 DEF ExchangeInv, TypeOK
  <2>. QED
    BY <2>3, <2>4, <2>5 DEF CaptureInv, DeliveredIsCollected
<1>2. CASE Collect(p)
  BY <1>0, <1>2 DEF Collect, TypeOK, Stage, ExchangeInv, CaptureInv, DeliveredIsCollected
<1>3. CASE GiveUp(p)
  <2>1. strays' \subseteq strays \cup {sending[p].batch}
    BY <1>3 DEF GiveUp
  <2>2. /\ sending' = [sending EXCEPT ![p].stage = "failed"]
        /\ UNCHANGED <<flushed, born, changed, events, delivered, waiting, history, crashes>>
    BY <1>3 DEF GiveUp
  <2>3. TypeOK'
    BY <1>0, <2>1, <2>2 DEF TypeOK, Stage
  <2>. QED
    BY <2>1, <2>2, <2>3 DEF TypeOK, ExchangeInv, CaptureInv, DeliveredIsCollected
<1>4. CASE Settle(p)
  <2>1. /\ sending' = [sending EXCEPT ![p] = Idle]
        /\ UNCHANGED <<flushed, born, changed, events, strays, history, crashes>>
    BY <1>4 DEF Settle
  <2>2. /\ delivered' \subseteq delivered \cup sending[p].batch
        /\ waiting' \subseteq waiting \cup sending[p].batch
        /\ sending[p].stage # "answered" => delivered' = delivered
    BY <1>4 DEF Settle
  <2>3. TypeOK'
    BY <1>0, <2>1, <2>2 DEF TypeOK, Stage, Idle
  <2>4. ExchangeInv'
    BY <2>1 DEF ExchangeInv, TypeOK, Idle
  <2>5. DeliveredIsCollected'
    BY <2>1, <2>2 DEF DeliveredIsCollected, ExchangeInv
  <2>. QED
    BY <2>1, <2>3, <2>4, <2>5 DEF CaptureInv
<1>5. CASE Crash(p)
  <2>1. strays' \subseteq strays \cup {sending[p].batch}
    BY <1>5 DEF Crash
  <2>2. /\ sending' = [sending EXCEPT ![p] = Idle] /\ crashes' = crashes + 1
        /\ UNCHANGED <<flushed, born, changed, events, delivered, waiting, history>>
    BY <1>5 DEF Crash
  <2>3. TypeOK'
    BY <1>0, <2>1, <2>2 DEF TypeOK, Stage, Idle
  <2>. QED
    BY <2>1, <2>2, <2>3 DEF TypeOK, ExchangeInv, CaptureInv, DeliveredIsCollected, Idle
<1>. QED
  BY <1>1, <1>2, <1>3, <1>4, <1>5

LEMMA OutboxStep == ASSUME OutboxInv, [Next]_vars PROVE OutboxInv'
<1>1. ASSUME NEW B \in strays, CollectStray(B) \/ LoseStray(B) PROVE OutboxInv'
  BY <1>1 DEF CollectStray, LoseStray, OutboxInv, TypeOK, ExchangeInv, CaptureInv, DeliveredIsCollected
<1>2. ASSUME NEW e \in Event, BackoffEnds(e) PROVE OutboxInv'
  BY <1>2 DEF BackoffEnds, OutboxInv, TypeOK, ExchangeInv, CaptureInv, DeliveredIsCollected
<1>3. ASSUME UNCHANGED vars PROVE OutboxInv'
  BY <1>3 DEF vars, OutboxInv, TypeOK, ExchangeInv, CaptureInv, DeliveredIsCollected
<1>. QED
  BY <1>1, <1>2, <1>3, ServiceStep, PublisherStep DEF Next

LEMMA OutboxInvariance == Spec => []OutboxInv
  BY OutboxInitially, OutboxStep, PTL DEF Spec

\* Whatever is lost, late or doubled, and whoever crashes, an event that the service believes
\* delivered is in the history of MM OS (publish_once, collect_activity).
THEOREM DeliveredCollected == Spec => []DeliveredIsCollected
  BY OutboxInvariance, PTL DEF OutboxInv

\* A delivery mark is never taken back (publish_once).
THEOREM DeliveryFinal == Spec => DeliveryStands
<1>1. ASSUME [Next]_vars PROVE delivered \subseteq delivered'
  BY <1>1 DEF Next, vars, Flush, Commit, Rollback, Post, Collect, GiveUp, Settle, Crash,
     CollectStray, LoseStray, BackoffEnds
<1>. QED
  BY <1>1, PTL DEF Spec, DeliveryStands

\* Outbox, publishers and collector implement the safety of ActivityLog: the history shows
\* committed changes only, each of them once, and loses none it has.
THEOREM ImplementsLog == Spec => Log!Safe
<1>1. ASSUME Init PROVE Log!Init
  BY <1>1 DEF Init, Log!Init
<1>2. ASSUME OutboxInv, [Next]_vars PROVE [Log!Next]_<<changed, history>>
  <2>1. ASSUME NEW T \in flushed, Commit(T) PROVE Log!Next
    <3>1. T \in SUBSET Event
      BY <1>2, <2>1 DEF OutboxInv, TypeOK
    <3>2. Log!Change(T)
      BY <1>2, <2>1 DEF Commit, OutboxInv, CaptureInv, Log!Change
    <3>. QED
      BY <3>1, <3>2 DEF Log!Next
  <2>2. ASSUME NEW B \in SUBSET Event, B \subseteq events,
               history' = history \cup B, UNCHANGED changed
        PROVE  [Log!Next]_<<changed, history>>
    <3>. DEFINE E == B \ history
    <3>1. CASE E = {}
      BY <2>2, <3>1
    <3>2. CASE E # {}
      <4>1. Log!Collect(E)
        BY <1>2, <2>2, <3>2 DEF OutboxInv, CaptureInv, Log!Collect
      <4>2. E \in SUBSET Event
        OBVIOUS
      <4>. QED
        BY <4>1, <4>2 DEF Log!Next
    <3>. QED
      BY <3>1, <3>2
  <2>3. ASSUME NEW p \in Publisher, Collect(p) PROVE [Log!Next]_<<changed, history>>
    <3>1. sending[p].batch \subseteq events /\ sending[p].batch \in SUBSET Event
      BY <1>2 DEF OutboxInv, TypeOK, ExchangeInv
    <3>2. history' = history \cup sending[p].batch /\ UNCHANGED changed
      BY <2>3 DEF Collect
    <3>. QED
      BY <2>2, <3>1, <3>2
  <2>4. ASSUME NEW B \in strays, CollectStray(B) PROVE [Log!Next]_<<changed, history>>
    BY <1>2, <2>2, <2>4 DEF CollectStray, OutboxInv, TypeOK, ExchangeInv
  <2>5. CASE \/ \E T \in flushed \cup {{}}, E \in SUBSET Event : Flush(T, E)
             \/ \E T \in flushed : Rollback(T)
             \/ \E p \in Publisher : Post(p) \/ GiveUp(p) \/ Settle(p) \/ Crash(p)
             \/ \E B \in strays : LoseStray(B)
             \/ \E e \in Event : BackoffEnds(e)
             \/ UNCHANGED vars
    BY <2>5 DEF Flush, Rollback, Post, GiveUp, Settle, Crash, LoseStray, BackoffEnds, vars
  <2>. QED
    BY <1>2, <2>1, <2>3, <2>4, <2>5 DEF Next
<1>. QED
  BY <1>1, <1>2, OutboxInvariance, PTL DEF Spec, Log!Safe

-----------------------------------------------------------------------------
(* The limits                                                              *)

\* The inductive invariant.  A call is never further behind than Lag, so the windows calls
\* look at are the ones the sweep keeps; there the table is the history; and a call that has
\* lost the race for the first row knows that there is one.
InReach(k) == clock <= k + Lag

CallsInReach == \A w \in Worker : Running(w) => InReach(calls[w].window)
TableIsHistory == \A b \in Bucket, k \in Window : InReach(k) => count[b][k] = accepted[b][k]
LoserSawRow == \A w \in Worker :
    calls[w].step = "again" => accepted[calls[w].bucket][calls[w].window] > 0

LimiterInv == LimiterTypeOK /\ CallsInReach /\ TableIsHistory /\ LoserSawRow

USE LimitAssumption

\* A result is not a running call.
LEMMA CallShape == ASSUME LimiterTypeOK, NEW w \in Worker, Running(w)
                   PROVE  calls[w] \in Call /\ calls[w].bucket \in Bucket /\ calls[w].window \in Window
  BY DEF LimiterTypeOK, Running, Step, Call, Result, Results

\* What a counted hit does, wherever it is counted.
LEMMA HitCounts ==
  ASSUME LimiterInv, NEW w \in Worker, Running(w), clock' = clock,
         count[calls[w].bucket][calls[w].window] < Limit,
         Hit(w, calls[w].bucket, calls[w].window)
  PROVE  /\ LimiterInv'
         /\ accepted[calls[w].bucket][calls[w].window] < Limit
  <1> DEFINE b == calls[w].bucket
             k == calls[w].window
  <1>1. b \in Bucket /\ k \in Window
    BY CallShape DEF LimiterInv
  <1>2. InReach(k) /\ count[b][k] = accepted[b][k]
    BY <1>1 DEF LimiterInv, CallsInReach, TableIsHistory
  <1>3. /\ count[b][k] \in 0 .. Limit - 1
        /\ accepted[b][k] + 1 \in 0 .. Limit
    BY <1>1, <1>2 DEF LimiterInv, LimiterTypeOK, Counts
  <1>4. LimiterTypeOK'
    <2>1. count' \in Counts
      BY <1>1, <1>3 DEF LimiterInv, LimiterTypeOK, Counts, Hit
    <2>2. accepted' \in Counts
      BY <1>1, <1>3 DEF LimiterInv, LimiterTypeOK, Counts, Hit
    <2>3. calls' \in [Worker -> Results \cup Call]
      BY DEF LimiterInv, LimiterTypeOK, Hit, Results
    <2> QED BY <2>1, <2>2, <2>3 DEF LimiterInv, LimiterTypeOK
  <1>5. \A v \in Worker : calls'[v] = IF v = w THEN Result("accepted") ELSE calls[v]
    BY DEF Hit, LimiterInv, LimiterTypeOK
  <1>6. CallsInReach'
    BY <1>5 DEF LimiterInv, CallsInReach, InReach, Running, Result, Step
  <1>7. \A c \in Bucket, j \in Window :
          /\ count'[c][j] = IF c = b /\ j = k THEN count[b][k] + 1 ELSE count[c][j]
          /\ accepted'[c][j] = IF c = b /\ j = k THEN accepted[b][k] + 1 ELSE accepted[c][j]
    BY <1>1 DEF Hit, LimiterInv, LimiterTypeOK, Counts
  <1>8. TableIsHistory'
    BY <1>2, <1>7 DEF LimiterInv, TableIsHistory, InReach
  <1>9. LoserSawRow'
    <2> SUFFICES ASSUME NEW v \in Worker, calls'[v].step = "again"
                 PROVE  accepted'[calls'[v].bucket][calls'[v].window] > 0
      BY DEF LoserSawRow
    <2>1. v # w /\ calls'[v] = calls[v]
      BY <1>5 DEF Result
    <2>2. calls[v].bucket \in Bucket /\ calls[v].window \in Window
      BY <2>1, CallShape DEF Running, Step, LimiterInv
    <2>3. accepted[calls[v].bucket][calls[v].window] > 0
      BY <2>1 DEF LimiterInv, LoserSawRow
    <2>4. accepted[b][k] \in Nat
      BY <1>1 DEF LimiterInv, LimiterTypeOK, Counts
    <2> QED BY <1>7, <2>1, <2>2, <2>3, <2>4
  <1> QED BY <1>2, <1>3, <1>4, <1>6, <1>8, <1>9 DEF LimiterInv

\* Moving a call to another step, or ending it, counts nothing.
LEMMA MoveCounts ==
  ASSUME LimiterInv, NEW w \in Worker, UNCHANGED <<clock, count, accepted>>,
         NEW c \in Results \cup Call, calls' = [calls EXCEPT ![w] = c],
         c \in Call => InReach(c.window),
         c.step = "again" => accepted[c.bucket][c.window] > 0
  PROVE  LimiterInv'
  <1>1. \A v \in Worker : calls'[v] = IF v = w THEN c ELSE calls[v]
    BY DEF LimiterInv, LimiterTypeOK
  <1>2. LimiterTypeOK'
    BY DEF LimiterInv, LimiterTypeOK, Counts
  <1>3. CallsInReach'
    <2>1. c.step \in Step => c \in Call
      BY DEF Results, Result, Call, Step
    <2> QED BY <1>1, <2>1 DEF LimiterInv, CallsInReach, Running, InReach
  <1>4. LoserSawRow'
    BY <1>1 DEF LimiterInv, LoserSawRow
  <1>5. TableIsHistory'
    BY DEF LimiterInv, TableIsHistory, InReach
  <1> QED BY <1>2, <1>3, <1>4, <1>5 DEF LimiterInv

LEMMA UpdateKeeps == ASSUME LimiterInv, NEW w \in Worker, Update(w) PROVE LimiterInv'
  <1> DEFINE b == calls[w].bucket
             k == calls[w].window
  <1>1. Running(w) /\ clock' = clock
    BY DEF Update, Running, Step
  <1>2. calls[w] \in Call /\ b \in Bucket /\ k \in Window
    BY <1>1, CallShape DEF LimiterInv
  <1>3. CASE UnderBudget(b, k) /\ Hit(w, b, k)
    BY <1>1, <1>3, HitCounts DEF UnderBudget
  <1>4. CASE Goto(w, "insert") /\ UNCHANGED <<count, accepted>>
    <2> DEFINE c == [calls[w] EXCEPT !.step = "insert"]
    <2>1. c \in Call /\ c.step = "insert" /\ c.window = k
      BY <1>2 DEF Call, Step
    <2>2. calls' = [calls EXCEPT ![w] = c]
      BY <1>4 DEF Goto
    <2>3. InReach(k)
      BY <1>1 DEF LimiterInv, CallsInReach
    <2> HIDE DEF c
    <2> QED BY <1>1, <1>4, <2>1, <2>2, <2>3, MoveCounts
  <1> QED BY <1>3, <1>4 DEF Update

LEMMA InsertKeeps == ASSUME LimiterInv, NEW w \in Worker, Insert(w) PROVE LimiterInv'
  <1> DEFINE b == calls[w].bucket
             k == calls[w].window
  <1>1. Running(w) /\ clock' = clock
    BY DEF Insert, Running, Step
  <1>2. calls[w] \in Call /\ b \in Bucket /\ k \in Window
    BY <1>1, CallShape DEF LimiterInv
  <1>3. CASE ~Row(b, k) /\ Hit(w, b, k)
    <2>1. count[b][k] < Limit
      BY <1>2, <1>3 DEF Row, LimiterInv, LimiterTypeOK, Counts
    <2> QED BY <1>1, <1>3, <2>1, HitCounts
  <1>4. CASE Row(b, k) /\ Goto(w, "again") /\ UNCHANGED <<count, accepted>>
    <2> DEFINE c == [calls[w] EXCEPT !.step = "again"]
    <2>1. c \in Call /\ c.window = k /\ c.bucket = b
      BY <1>2 DEF Call, Step
    <2>2. calls' = [calls EXCEPT ![w] = c]
      BY <1>4 DEF Goto
    <2>3. InReach(k)
      BY <1>1 DEF LimiterInv, CallsInReach
    <2>4. accepted[b][k] > 0
      BY <1>2, <1>4, <2>3 DEF Row, LimiterInv, TableIsHistory
    <2> HIDE DEF c
    <2> QED BY <1>1, <1>4, <2>1, <2>2, <2>3, <2>4, MoveCounts
  <1> QED BY <1>3, <1>4 DEF Insert

LEMMA AgainKeeps == ASSUME LimiterInv, NEW w \in Worker, Again(w) PROVE LimiterInv'
  <1> DEFINE b == calls[w].bucket
             k == calls[w].window
  <1>1. Running(w) /\ clock' = clock
    BY DEF Again, Running, Step
  <1>2. CASE UnderBudget(b, k) /\ Hit(w, b, k)
    BY <1>1, <1>2, HitCounts DEF UnderBudget
  <1>3. CASE calls' = [calls EXCEPT ![w] = Result("limited")] /\ UNCHANGED <<count, accepted>>
    BY <1>1, <1>3, MoveCounts DEF Result, Results, Call, Step
  <1> QED BY <1>2, <1>3 DEF Again

LEMMA LimiterInvariance == LimiterSpec => []LimiterInv
  <1>1. LimiterInit => LimiterInv
    BY DEF LimiterInit, LimiterInv, LimiterTypeOK, CallsInReach, TableIsHistory, LoserSawRow, InReach, Running, Step,
           Counts, Window, Results, Result
  <1>2. LimiterInv /\ [LimiterNext]_limiterVars => LimiterInv'
    <2> SUFFICES ASSUME LimiterInv, [LimiterNext]_limiterVars PROVE LimiterInv'
      OBVIOUS
    <2>1. ASSUME NEW w \in Worker, NEW b \in Bucket, NEW k \in Window, Begin(w, b, k) PROVE LimiterInv'
      <3> DEFINE c == [step |-> "update", bucket |-> b, window |-> k]
      <3>1. c \in Call /\ c.step = "update" /\ InReach(c.window)
        BY <2>1 DEF Call, Step, Begin, InReach
      <3>2. calls' = [calls EXCEPT ![w] = c] /\ UNCHANGED <<clock, count, accepted>>
        BY <2>1 DEF Begin
      <3> HIDE DEF c
      <3> QED BY <3>1, <3>2, MoveCounts
    <2>2. ASSUME NEW w \in Worker, Check(w) PROVE LimiterInv'
      BY <2>2, UpdateKeeps, InsertKeeps, AgainKeeps DEF Check
    <2>3. ASSUME NEW w \in Worker, Die(w) PROVE LimiterInv'
      BY <2>3, MoveCounts DEF Die, Result, Results, Call, Step
    <2>4. CASE Purge
      <3>1. \A b \in Bucket, k \in Window :
              count'[b][k] = IF k + KeepWindows < clock THEN 0 ELSE count[b][k]
        BY <2>4 DEF Purge
      <3>2. count' \in Counts
        BY <2>4 DEF Purge, LimiterInv, LimiterTypeOK, Counts
      <3>3. LimiterTypeOK'
        BY <2>4, <3>2 DEF Purge, LimiterInv, LimiterTypeOK
      <3>4. TableIsHistory'
        BY <2>4, <3>1 DEF Purge, LimiterInv, TableIsHistory, InReach, LimiterTypeOK, Window
      <3> QED BY <2>4, <3>3, <3>4 DEF Purge, LimiterInv, CallsInReach, LoserSawRow, InReach, Running
    <2>5. CASE Tick
      <3>1. LimiterTypeOK'
        BY <2>5 DEF Tick, LimiterInv, LimiterTypeOK, Window
      <3>2. CallsInReach'
        <4> SUFFICES ASSUME NEW w \in Worker, Running(w) PROVE clock + 1 <= calls[w].window + Lag
          BY <2>5 DEF Tick, CallsInReach, Running, InReach
        <4>1. clock < calls[w].window + Lag /\ calls[w].window \in Nat /\ clock \in Nat
          BY <2>5, CallShape DEF Tick, LimiterInv, LimiterTypeOK, Window
        <4> QED BY <4>1
      <3>3. TableIsHistory'
        BY <2>5 DEF Tick, LimiterInv, TableIsHistory, InReach, LimiterTypeOK, Window
      <3> QED BY <2>5, <3>1, <3>2, <3>3 DEF Tick, LimiterInv, LoserSawRow
    <2>6. CASE UNCHANGED limiterVars
      BY <2>6 DEF limiterVars, LimiterInv, LimiterTypeOK, CallsInReach, TableIsHistory, LoserSawRow, InReach, Running
    <2> QED BY <2>1, <2>2, <2>3, <2>4, <2>5, <2>6 DEF LimiterNext
  <1> QED BY <1>1, <1>2, PTL DEF LimiterSpec

\* The variables keep their types, so no counter ever passes the limit (ratelimit.py:60).
THEOREM LimiterTypeCorrect == LimiterSpec => []LimiterTypeOK
  BY LimiterInvariance, PTL DEF LimiterInv

-----------------------------------------------------------------------------
(* The refinement                                                          *)

LEMMA VerdictOf == \A w \in Worker : Verdict[w] =
    IF Running(w) THEN [of |-> "asked", bucket |-> calls[w].bucket, window |-> calls[w].window]
    ELSE [of |-> IF calls[w].step = "idle" THEN "nobody" ELSE calls[w].step]
  BY DEF Verdict

\* A step that changes the call of one worker changes one verdict.
LEMMA OneVerdict ==
  ASSUME LimiterTypeOK, NEW w \in Worker, NEW c, calls' = [calls EXCEPT ![w] = c]
  PROVE  Verdict' = [Verdict EXCEPT ![w] =
           IF c.step \in Step THEN [of |-> "asked", bucket |-> c.bucket, window |-> c.window]
           ELSE [of |-> IF c.step = "idle" THEN "nobody" ELSE c.step]]
  BY DEF Verdict, Running, LimiterTypeOK

LEMMA HitAccepts ==
  ASSUME LimiterInv, NEW w \in Worker, Running(w), clock' = clock,
         count[calls[w].bucket][calls[w].window] < Limit,
         Hit(w, calls[w].bucket, calls[w].window)
  PROVE  Promise!Next
  <1> DEFINE b == calls[w].bucket
             k == calls[w].window
  <1>1. b \in Bucket /\ k \in Promise!Window
    BY CallShape DEF LimiterInv, Window, Promise!Window
  <1>2. accepted[b][k] < Limit
    BY HitCounts
  <1>3. Verdict[w] = Promise!Asked(b, k)
    BY VerdictOf DEF Promise!Asked
  <1>4. Verdict' = [Verdict EXCEPT ![w] = Promise!Told("accepted")]
    BY OneVerdict DEF Hit, Result, Step, Promise!Told, LimiterInv
  <1>5. Promise!Accept(w, b, k)
    BY <1>2, <1>3, <1>4 DEF Promise!Accept, Hit
  <1> QED BY <1>1, <1>5 DEF Promise!Next

\* A call that only goes on tells its caller nothing.
LEMMA GotoStutters ==
  ASSUME LimiterTypeOK, NEW w \in Worker, Running(w), NEW s \in Step, Goto(w, s)
  PROVE  Verdict' = Verdict
  <1>1. calls[w] \in Call
    BY CallShape
  <1>2. \A v \in Worker : /\ Running(v)' = Running(v)
                          /\ Running(v) => /\ calls'[v].bucket = calls[v].bucket
                                           /\ calls'[v].window = calls[v].window
                          /\ ~Running(v) => calls'[v] = calls[v]
    BY <1>1 DEF Goto, Running, LimiterTypeOK, Call, Step
  <1> QED BY <1>2 DEF Verdict

LEMMA CheckImplements ==
  ASSUME LimiterInv, NEW w \in Worker, Check(w)
  PROVE  Promise!Next \/ UNCHANGED <<accepted, Verdict>>
  <1> DEFINE b == calls[w].bucket
             k == calls[w].window
  <1>1. Running(w) /\ clock' = clock
    BY DEF Check, Update, Insert, Again, Running, Step
  <1>2. b \in Bucket /\ k \in Window /\ count[b][k] \in 0 .. Limit /\ accepted[b][k] \in 0 .. Limit
    BY <1>1, CallShape DEF LimiterInv, LimiterTypeOK, Counts
  <1>3. CASE Hit(w, b, k) /\ count[b][k] < Limit
    BY <1>1, <1>3, HitAccepts
  <1>4. CASE \E s \in Step : Goto(w, s) /\ UNCHANGED accepted
    BY <1>1, <1>4, GotoStutters DEF LimiterInv
  <1>5. CASE /\ calls[w].step = "again"
             /\ ~UnderBudget(b, k)
             /\ calls' = [calls EXCEPT ![w] = Result("limited")]
             /\ UNCHANGED <<count, accepted>>
    <2>1. count[b][k] = accepted[b][k] /\ accepted[b][k] > 0
      BY <1>1, <1>2, <1>5 DEF LimiterInv, CallsInReach, TableIsHistory, LoserSawRow
    <2>2. accepted[b][k] = Limit
      BY <1>2, <1>5, <2>1 DEF UnderBudget, Row
    <2>3. Verdict[w] = Promise!Asked(b, k)
      BY <1>1, VerdictOf DEF Promise!Asked
    <2>4. Verdict' = [Verdict EXCEPT ![w] = Promise!Told("limited")]
      BY <1>5, OneVerdict DEF Result, Step, Promise!Told, LimiterInv
    <2>5. Promise!Refuse(w, b, k)
      BY <1>5, <2>2, <2>3, <2>4 DEF Promise!Refuse
    <2> QED BY <1>2, <2>5 DEF Promise!Next, Window, Promise!Window
  <1>6. CASE Update(w)
    BY <1>3, <1>4, <1>6 DEF Update, UnderBudget, Step
  <1>7. CASE Insert(w)
    <2>1. ~Row(b, k) => count[b][k] < Limit
      BY <1>2 DEF Row
    <2> QED BY <1>3, <1>4, <1>7, <2>1 DEF Insert, Step
  <1>8. CASE Again(w)
    BY <1>3, <1>5, <1>8 DEF Again, UnderBudget
  <1> QED BY <1>6, <1>7, <1>8 DEF Check

\* ratelimit.py:58-60 and 95: whatever the workers interleave, and however often the sweep
\* runs, the limiter accepts within the budget and refuses only when it is spent.
THEOREM KeepsTheBudget == LimiterSpec => KeepsBudget
  <1>1. LimiterInit => Promise!Init
    BY DEF LimiterInit, Promise!Init, Verdict, Running, Result, Step, Window, Promise!Window, Promise!Quiet
  <1>2. LimiterInv /\ [LimiterNext]_limiterVars => [Promise!Next]_<<accepted, Verdict>>
    <2> SUFFICES ASSUME LimiterInv, [LimiterNext]_limiterVars PROVE Promise!Next \/ UNCHANGED <<accepted, Verdict>>
      OBVIOUS
    <2>1. ASSUME NEW w \in Worker, NEW b \in Bucket, NEW k \in Window, Begin(w, b, k)
          PROVE  Promise!Next
      <3>1. Verdict' = [Verdict EXCEPT ![w] = Promise!Asked(b, k)]
        BY <2>1, OneVerdict DEF Begin, Step, Promise!Asked, LimiterInv
      <3>2. Verdict[w].of # "asked"
        <4>1. ~Running(w) /\ calls[w] \in Results
          BY <2>1 DEF Begin, LimiterInv, LimiterTypeOK, Running, Call
        <4>2. calls[w].step # "asked"
          BY <4>1 DEF Results, Result
        <4>3. Verdict[w] = [of |-> IF calls[w].step = "idle" THEN "nobody" ELSE calls[w].step]
          BY <4>1, VerdictOf
        <4> QED BY <4>2, <4>3
      <3>3. Promise!Ask(w, b, k)
        BY <2>1, <3>1, <3>2 DEF Promise!Ask, Begin
      <3> QED BY <3>3 DEF Promise!Next, Window, Promise!Window
    <2>2. ASSUME NEW w \in Worker, Check(w)
          PROVE  Promise!Next \/ UNCHANGED <<accepted, Verdict>>
      BY <2>2, CheckImplements
    <2>3. ASSUME NEW w \in Worker, Die(w) PROVE Promise!Next
      <3>1. calls[w].bucket \in Bucket /\ calls[w].window \in Window
        BY <2>3, CallShape DEF Die, LimiterInv
      <3>2. Verdict[w] = Promise!Asked(calls[w].bucket, calls[w].window)
        BY <2>3, VerdictOf DEF Die, Promise!Asked
      <3>3. Verdict' = [Verdict EXCEPT ![w] = Promise!Quiet]
        BY <2>3, OneVerdict DEF Die, Result, Step, Promise!Quiet, LimiterInv
      <3>4. Promise!Lose(w, calls[w].bucket, calls[w].window)
        BY <2>3, <3>2, <3>3 DEF Promise!Lose, Die
      <3> QED BY <3>1, <3>4 DEF Promise!Next, Window, Promise!Window
    <2>4. CASE Purge \/ Tick \/ UNCHANGED limiterVars
      BY <2>4 DEF Purge, Tick, limiterVars, Verdict, Running
    <2> QED BY <2>1, <2>2, <2>3, <2>4 DEF LimiterNext
  <1> QED BY <1>1, <1>2, LimiterInvariance, PTL DEF LimiterSpec, KeepsBudget, Promise!Spec

-----------------------------------------------------------------------------
(* The usage counters                                                      *)

Carried ==
    [phase : {"called"}, usage : SUBSET Unit]
    \cup [phase : {"loaded"}, usage : SUBSET Unit, row : [Unit -> Nat], enabled : BOOLEAN]
Outcome == {Failure} \cup [phase : {"answered"}, enabled : BOOLEAN, version : Nat]
Beating ==
    [phase : {"posted"}, to : Handler, usage : SUBSET Unit]
    \cup [phase : {"received"}, usage : SUBSET Unit]

BeatTypes ==
    /\ enabled \in BOOLEAN /\ version \in Nat /\ used \in 0 .. MaxUse
    /\ row \in [Unit -> Nat]
    /\ counter \in [Process -> SUBSET (1 .. used)]
    /\ handlers \in [Handler -> {Free} \cup Carried \cup Outcome]
    /\ beat \in [Process -> {Asleep} \cup Beating]

Posted(p) == beat[p].phase = "posted"

\* The report of p is in the row, as far as p can know or find out.
Shipped(p) == beat[p].phase = "received" \/ (Posted(p) /\ handlers[beat[p].to].phase = "answered")

\* A unit is in one process; a heartbeat under way is of its process alone, carries what its
\* handler carries, and no more than its process still counts.
Exchange ==
    /\ \A p, q \in Process : p # q => counter[p] \cap counter[q] = {}
    /\ \A p \in Process : beat[p] # Asleep => beat[p].usage \subseteq counter[p]
    /\ \A p, q \in Process : (Posted(p) /\ Posted(q) /\ beat[p].to = beat[q].to) => p = q
    /\ \A p \in Process : Posted(p) =>
         /\ handlers[beat[p].to] # Free
         /\ handlers[beat[p].to].phase \in {"called", "loaded"} => handlers[beat[p].to].usage = beat[p].usage

\* What was shipped is in the row.
ShippedStored ==
    "overlapped" \notin spoilt => \A p \in Process : Shipped(p) => \A u \in beat[p].usage : row[u] > 0

Once(r) == \A u \in Unit : r[u] <= IF u <= used THEN 1 ELSE 0

\* A unit is known when it is in the row, or a handler has read it there.
Known(u) == row[u] > 0 \/ \E h \in Handler : handlers[h].phase = "loaded" /\ handlers[h].row[u] > 0

\* Rows and what was read of them count every unit once, and a process that still counts a
\* unit that is known has shipped it.
CountedOnce ==
    "repeated" \notin spoilt =>
        /\ Once(row)
        /\ \A h \in Handler : handlers[h].phase = "loaded" => Once(handlers[h].row)
        /\ \A p \in Process : \A u \in counter[p] : Known(u) => Shipped(p) /\ u \in beat[p].usage

BeatsInv == BeatTypes /\ Exchange /\ ShippedStored /\ CountedOnce /\ UsageKept

LEMMA BeatFacts ==
    ASSUME BeatTypes
    PROVE  /\ \A p \in Process :
                /\ beat[p].phase \in {"asleep", "posted", "received"}
                /\ beat[p].phase = "asleep" <=> beat[p] = Asleep
                /\ Posted(p) => beat[p].to \in Handler
                /\ beat[p] # Asleep => beat[p].usage \in SUBSET Unit
           /\ \A h \in Handler :
                /\ handlers[h] = Free <=> handlers[h].phase = "free"
                /\ handlers[h].phase \in {"called", "loaded"} => handlers[h].usage \in SUBSET Unit
                /\ handlers[h].phase = "loaded" => handlers[h].row \in [Unit -> Nat] /\ handlers[h].enabled \in BOOLEAN
<1>1. ASSUME NEW p \in Process
      PROVE  /\ beat[p].phase \in {"asleep", "posted", "received"}
             /\ beat[p].phase = "asleep" <=> beat[p] = Asleep
             /\ Posted(p) => beat[p].to \in Handler
             /\ beat[p] # Asleep => beat[p].usage \in SUBSET Unit
  <2>1. beat[p] \in {Asleep} \cup Beating
    BY DEF BeatTypes
  <2>. QED
    BY <2>1 DEF Beating, Asleep, Posted
<1>2. ASSUME NEW h \in Handler
      PROVE  /\ handlers[h] = Free <=> handlers[h].phase = "free"
             /\ handlers[h].phase \in {"called", "loaded"} => handlers[h].usage \in SUBSET Unit
             /\ handlers[h].phase = "loaded" => handlers[h].row \in [Unit -> Nat] /\ handlers[h].enabled \in BOOLEAN
  <2>1. handlers[h] \in {Free} \cup Carried \cup Outcome
    BY DEF BeatTypes
  <2>. QED
    BY <2>1 DEF Carried, Outcome, Free, Failure
<1>. QED
  BY <1>1, <1>2

LEMMA BeatsInitially == ASSUME BeatsInit PROVE BeatsInv
<1>1. BeatTypes
  BY HeartbeatAssumption DEF BeatsInit, BeatTypes, NoRow, Unit
<1>2. Exchange
  BY DEF BeatsInit, Exchange, Posted, Asleep
<1>3. ShippedStored /\ UsageKept
  BY DEF BeatsInit, ShippedStored, Shipped, Posted, Asleep, UsageKept
<1>4. CountedOnce
  BY HeartbeatAssumption DEF BeatsInit, CountedOnce, Once, NoRow, Free, Unit
<1>. QED
  BY <1>1, <1>2, <1>3, <1>4 DEF BeatsInv

\* Steps that count nothing and clear nothing: nobody is taken to have shipped who has not
\* (but for who carried nothing), and handlers know no more than the row says.
LEMMA RowRests ==
    ASSUME BeatsInv, BeatTypes', Exchange', UNCHANGED <<row, used, counter>>, spoilt \subseteq spoilt',
           \A p \in Process : Shipped(p)' =>
               beat'[p].usage = {} \/ (Shipped(p) /\ beat'[p].usage = beat[p].usage),
           "repeated" \notin spoilt' =>
               \A p \in Process : Shipped(p) => Shipped(p)' /\ beat'[p].usage = beat[p].usage,
           \A h \in Handler : handlers'[h].phase = "loaded" =>
               \/ handlers[h].phase = "loaded" /\ handlers'[h].row = handlers[h].row
               \/ handlers'[h].row = row
    PROVE  BeatsInv'
<1>1. ShippedStored'
  BY DEF BeatsInv, ShippedStored
<1>2. UsageKept'
  BY DEF BeatsInv, UsageKept
<1>3. ASSUME "repeated" \notin spoilt' PROVE CountedOnce'
  <2>1. \A r : Once(r)' <=> Once(r)
    BY DEF Once
  <2>2. \A u : Known(u)' => Known(u)
    BY DEF Known
  <2>3. Once(row) /\ \A h \in Handler : handlers[h].phase = "loaded" => Once(handlers[h].row)
    BY <1>3 DEF BeatsInv, CountedOnce
  <2>4. Once(row)'
    BY <2>3 DEF Once
  <2>5. ASSUME NEW h \in Handler, handlers'[h].phase = "loaded" PROVE Once(handlers[h].row)'
    BY <2>3, <2>5 DEF Once
  <2>6. ASSUME NEW p \in Process, NEW u \in counter'[p], Known(u)' PROVE Shipped(p)' /\ u \in beat'[p].usage
    BY <1>3, <2>2, <2>6 DEF BeatsInv, CountedOnce
  <2>. QED
    BY <2>4, <2>5, <2>6 DEF CountedOnce
<1>. QED
  BY <1>1, <1>2, <1>3 DEF BeatsInv, CountedOnce

LEMMA PostBeatStep == ASSUME BeatsInv, NEW p \in Process, NEW h \in Handler, PostBeat(p, h) PROVE BeatsInv'
<1>. DEFINE b == [phase |-> "posted", to |-> h, usage |-> counter[p]]
            c == [phase |-> "called", usage |-> counter[p]]
<1>1. /\ beat[p].phase = "asleep" /\ handlers[h] = Free
      /\ beat' = [beat EXCEPT ![p] = b] /\ handlers' = [handlers EXCEPT ![h] = c]
      /\ UNCHANGED <<enabled, version, row, counter, used, spoilt>>
  BY DEF PostBeat
<1>2. BeatTypes /\ Exchange /\ counter[p] \in SUBSET Unit
  BY HeartbeatAssumption DEF BeatsInv, BeatTypes, Unit
<1>3. b \in Beating /\ c \in Carried
  BY <1>2 DEF Beating, Carried
<1>4. b.phase = "posted" /\ b.to = h /\ b.usage = counter[p] /\ c.phase = "called" /\ c.usage = counter[p]
  OBVIOUS
<1>. HIDE DEF b, c
<1>5. BeatTypes'
  BY <1>1, <1>2, <1>3 DEF BeatTypes
<1>6. /\ beat'[p] = b /\ \A o \in Process \ {p} : beat'[o] = beat[o]
      /\ handlers'[h] = c /\ \A o \in Handler \ {h} : handlers'[o] = handlers[o]
  BY <1>1, <1>2 DEF BeatTypes
<1>7. \A o \in Process : Posted(o) => beat[o].to # h
  BY <1>1, <1>2 DEF Exchange
<1>8. c # Free
  BY <1>4 DEF Free
<1>9. Exchange'
  <2>1. \A q \in Process : Posted(q)' => (q = p /\ beat'[q].to = h) \/ (q # p /\ Posted(q) /\ beat'[q] = beat[q])
    BY <1>4, <1>6 DEF Posted
  <2>2. \A q \in Process : beat'[q] # Asleep => beat'[q].usage \subseteq counter[q]
    BY <1>2, <1>4, <1>6 DEF Exchange
  <2>3. \A q, r \in Process : (Posted(q)' /\ Posted(r)' /\ beat'[q].to = beat'[r].to) => q = r
    BY <1>2, <1>7, <2>1 DEF Exchange
  <2>4. ASSUME NEW q \in Process, Posted(q)'
        PROVE  /\ handlers'[beat'[q].to] # Free
               /\ handlers'[beat'[q].to].phase \in {"called", "loaded"}
                    => handlers'[beat'[q].to].usage = beat'[q].usage
    <3>1. CASE q = p
      BY <1>4, <1>6, <1>8, <3>1
    <3>2. CASE q # p
      <4>1. beat'[q] = beat[q] /\ Posted(q) /\ beat[q].to \in Handler \ {h}
        BY <1>2, <1>7, <2>1, <2>4, <3>2, BeatFacts
      <4>. QED
        BY <1>2, <1>6, <4>1 DEF Exchange
    <3>. QED
      BY <3>1, <3>2
  <2>. QED
    BY <1>1, <1>2, <2>2, <2>3, <2>4 DEF Exchange
<1>10. \A o \in Process : (Shipped(o)' <=> Shipped(o)) /\ (Shipped(o) => beat'[o] = beat[o])
  <2>1. ~Shipped(p) /\ ~Shipped(p)'
    BY <1>1, <1>4, <1>6 DEF Shipped, Posted
  <2>2. ASSUME NEW o \in Process \ {p} PROVE (Shipped(o)' <=> Shipped(o)) /\ beat'[o] = beat[o]
    BY <1>2, <1>6, <1>7, BeatFacts DEF Shipped, Posted
  <2>. QED
    BY <2>1, <2>2
<1>11. \A o \in Handler : handlers'[o].phase = "loaded" => handlers[o].phase = "loaded" /\ handlers'[o].row = handlers[o].row
  BY <1>4, <1>6
<1>. QED
  BY <1>1, <1>5, <1>9, <1>10, <1>11, RowRests

\* A step of one handler that goes on with what it carries, or has done with it.
LEMMA HandlerRests ==
    ASSUME BeatsInv, UNCHANGED <<enabled, version, row, used, counter, beat, spoilt>>,
           NEW h \in Handler, handlers[h].phase \in {"called", "loaded"},
           NEW c \in {Free} \cup Carried \cup Outcome, handlers' = [handlers EXCEPT ![h] = c],
           Awaited(h) => c # Free,
           c.phase \in {"called", "loaded"} => c.usage = handlers[h].usage,
           c.phase = "loaded" => c.row = row,
           c.phase = "answered" => handlers[h].usage = {}
    PROVE  BeatsInv'
<1>1. BeatTypes /\ Exchange
  BY DEF BeatsInv
<1>2. BeatTypes'
  BY <1>1 DEF BeatTypes
<1>3. handlers'[h] = c /\ \A o \in Handler \ {h} : handlers'[o] = handlers[o]
  BY <1>1 DEF BeatTypes
<1>4. \A q \in Process : Posted(q)' <=> Posted(q)
  BY DEF Posted
<1>5. ASSUME NEW q \in Process, Posted(q)
      PROVE  /\ handlers'[beat[q].to] # Free
             /\ handlers'[beat[q].to].phase \in {"called", "loaded"}
                  => handlers'[beat[q].to].usage = beat[q].usage
  <2>1. CASE beat[q].to = h
    BY <1>1, <1>3, <1>5, <2>1 DEF Awaited, Posted, Exchange
  <2>2. CASE beat[q].to # h
    BY <1>1, <1>3, <1>5, <2>2, BeatFacts DEF Exchange
  <2>. QED
    BY <2>1, <2>2
<1>6. Exchange'
  BY <1>1, <1>4, <1>5 DEF Exchange
<1>7. ASSUME NEW q \in Process
      PROVE  (Shipped(q) => Shipped(q)') /\ (Shipped(q)' => Shipped(q) \/ beat[q].usage = {})
  <2>1. CASE Posted(q) /\ beat[q].to = h
    BY <1>1, <1>3, <2>1 DEF Shipped, Posted, Exchange
  <2>2. CASE ~(Posted(q) /\ beat[q].to = h)
    BY <1>1, <1>3, <2>2, BeatFacts DEF Shipped, Posted
  <2>. QED
    BY <2>1, <2>2
<1>8. \A o \in Handler : handlers'[o].phase = "loaded" =>
          \/ handlers[o].phase = "loaded" /\ handlers'[o].row = handlers[o].row
          \/ handlers'[o].row = row
  BY <1>3
<1>. QED
  BY <1>2, <1>6, <1>7, <1>8, RowRests

LEMMA LoadStep == ASSUME BeatsInv, NEW h \in Handler, Load(h) PROVE BeatsInv'
<1>. DEFINE c == [phase |-> "loaded", usage |-> handlers[h].usage, row |-> row, enabled |-> enabled]
<1>1. /\ handlers[h].phase = "called" /\ handlers' = [handlers EXCEPT ![h] = c]
      /\ UNCHANGED <<enabled, version, row, used, counter, beat, spoilt>>
  BY DEF Load
<1>2. handlers[h].usage \in SUBSET Unit /\ row \in [Unit -> Nat] /\ enabled \in BOOLEAN
  BY <1>1, BeatFacts DEF BeatsInv, BeatTypes
<1>3. c \in Carried /\ c.phase = "loaded" /\ c.usage = handlers[h].usage /\ c.row = row /\ c # Free
  BY <1>2 DEF Carried, Free
<1>. HIDE DEF c
<1>. QED
  BY <1>1, <1>3, HandlerRests

\* What a handler leaves behind is an outcome for who awaits it.
LEMMA Finished ==
    ASSUME BeatsInv, NEW h \in Handler, NEW outcome \in Outcome, Finish(h, outcome)
    PROVE  \E c \in {Free} \cup Outcome :
             /\ handlers' = [handlers EXCEPT ![h] = c]
             /\ c = IF Awaited(h) THEN outcome ELSE Free
             /\ c.phase \notin {"called", "loaded"}
             /\ Awaited(h) => c # Free
<1>. DEFINE c == IF Awaited(h) THEN outcome ELSE Free
<1>1. c \in {Free} \cup Outcome /\ handlers' = [handlers EXCEPT ![h] = c]
  BY DEF Finish
<1>2. outcome # Free /\ outcome.phase \notin {"called", "loaded"}
  BY DEF Outcome, Failure, Free
<1>3. c.phase \notin {"called", "loaded"} /\ (Awaited(h) => c # Free)
  BY <1>2 DEF Free
<1>. QED
  BY <1>1, <1>3

LEMMA FailStep == ASSUME BeatsInv, NEW h \in Handler, Fail(h) PROVE BeatsInv'
<1>1. /\ handlers[h].phase \in {"called", "loaded"} /\ Finish(h, Failure)
      /\ UNCHANGED <<enabled, version, row, used, counter, beat, spoilt>>
  BY DEF Fail
<1>2. Failure \in Outcome /\ Failure.phase # "answered" /\ Free.phase # "answered"
  BY DEF Outcome, Failure, Free
<1>. QED
  BY <1>1, <1>2, Finished, HandlerRests

\* A report is counted: once, unless nobody waits to hear of it.
LEMMA CountStep ==
    ASSUME BeatsInv, NEW h \in Handler, handlers[h].phase = "loaded", Finish(h, Answer(h)),
           row' = [u \in Unit |-> handlers[h].row[u] + (IF u \in handlers[h].usage THEN 1 ELSE 0)],
           spoilt' = spoilt \cup (IF row = handlers[h].row THEN {} ELSE {"overlapped"})
                            \cup (IF Awaited(h) THEN {} ELSE {"repeated"}),
           UNCHANGED <<enabled, version, counter, beat, used>>
    PROVE  BeatsInv'
<1>. DEFINE m == handlers[h]
<1>1. BeatTypes /\ Exchange
  BY DEF BeatsInv
<1>2. m.row \in [Unit -> Nat] /\ m.usage \in SUBSET Unit /\ row \in [Unit -> Nat] /\ used \in Nat
  BY <1>1, BeatFacts, HeartbeatAssumption DEF BeatTypes
<1>3. Answer(h) \in Outcome /\ Answer(h).phase = "answered"
  BY <1>1, BeatFacts DEF Answer, Outcome, BeatTypes
<1>4. PICK c \in {Free} \cup Outcome :
             /\ handlers' = [handlers EXCEPT ![h] = c]
             /\ c = IF Awaited(h) THEN Answer(h) ELSE Free
             /\ c.phase \notin {"called", "loaded"}
             /\ Awaited(h) => c # Free
  BY <1>3, Finished
<1>5. handlers'[h] = c /\ \A o \in Handler \ {h} : handlers'[o] = handlers[o]
  BY <1>1, <1>4 DEF BeatTypes
<1>6. \A u \in Unit : row'[u] = m.row[u] + (IF u \in m.usage THEN 1 ELSE 0)
  OBVIOUS
<1>7. BeatTypes'
  BY <1>1, <1>2, <1>4 DEF BeatTypes
<1>8. \A q \in Process : Posted(q)' <=> Posted(q)
  BY DEF Posted
<1>9. ASSUME NEW q \in Process, Posted(q)
      PROVE  /\ handlers'[beat[q].to] # Free
             /\ handlers'[beat[q].to].phase \in {"called", "loaded"}
                  => handlers'[beat[q].to].usage = beat[q].usage
  <2>1. CASE beat[q].to = h
    BY <1>4, <1>5, <1>9, <2>1 DEF Awaited, Posted
  <2>2. CASE beat[q].to # h
    BY <1>1, <1>5, <1>9, <2>2, BeatFacts DEF Exchange
  <2>. QED
    BY <2>1, <2>2
<1>10. Exchange'
  BY <1>1, <1>8, <1>9 DEF Exchange
<1>11. ASSUME NEW q \in Process
       PROVE  /\ Shipped(q) => Shipped(q)'
              /\ Shipped(q)' => Shipped(q) \/ (Posted(q) /\ beat[q].to = h /\ beat[q].usage = m.usage)
  <2>1. CASE Posted(q) /\ beat[q].to = h
    BY <1>1, <2>1 DEF Shipped, Posted, Exchange
  <2>2. CASE ~(Posted(q) /\ beat[q].to = h)
    BY <1>1, <1>5, <2>2, BeatFacts DEF Shipped, Posted
  <2>. QED
    BY <2>1, <2>2
<1>12. "overlapped" \notin spoilt' =>
           /\ "overlapped" \notin spoilt
           /\ \A u \in Unit : row'[u] >= row[u] /\ (u \in m.usage => row'[u] > 0)
  BY <1>2, <1>6
<1>13. ShippedStored'
  <2>1. SUFFICES ASSUME "overlapped" \notin spoilt', NEW q \in Process, Shipped(q)', NEW u \in beat[q].usage
                 PROVE  row'[u] > 0
    BY DEF ShippedStored
  <2>2. u \in Unit
    BY <1>1, <2>1, BeatFacts DEF Shipped, Posted, Asleep
  <2>3. row[u] \in Nat /\ row'[u] \in Nat
    BY <1>2, <1>7, <2>2 DEF BeatTypes
  <2>4. row[u] > 0 \/ u \in m.usage
    BY <1>11, <1>12, <2>1 DEF BeatsInv, ShippedStored
  <2>. QED
    BY <1>12, <2>1, <2>2, <2>3, <2>4
<1>14. UsageKept'
  <2>1. SUFFICES ASSUME spoilt' \cap {"wiped", "overlapped", "restarted"} = {}, NEW u \in 1 .. used
                 PROVE  row'[u] > 0 \/ \E p \in Process : u \in counter[p]
    BY DEF UsageKept
  <2>2. row[u] > 0 \/ \E p \in Process : u \in counter[p]
    BY <2>1 DEF BeatsInv, UsageKept
  <2>3. u \in Unit
    BY <1>1, HeartbeatAssumption DEF BeatTypes, Unit
  <2>4. row[u] \in Nat /\ row'[u] \in Nat /\ row'[u] >= row[u]
    BY <1>2, <1>7, <1>12, <2>1, <2>3 DEF BeatTypes
  <2>. QED
    BY <2>2, <2>4
<1>15. CountedOnce'
  <2>1. SUFFICES ASSUME "repeated" \notin spoilt' PROVE CountedOnce'
    BY DEF CountedOnce
  <2>2. "repeated" \notin spoilt /\ Awaited(h)
    BY <2>1
  <2>3. PICK p \in Process : Posted(p) /\ beat[p].to = h
    BY <2>2 DEF Awaited, Posted
  <2>4. m.usage = beat[p].usage /\ m.usage \subseteq counter[p] /\ beat[p] # Asleep /\ ~Shipped(p)
    BY <1>1, <2>3 DEF Exchange, Posted, Shipped, Asleep
  <2>5. /\ Once(m.row)
        /\ \A o \in Handler : handlers[o].phase = "loaded" => Once(handlers[o].row)
        /\ \A q \in Process : \A u \in counter[q] : Known(u) => Shipped(q) /\ u \in beat[q].usage
    BY <2>2 DEF BeatsInv, CountedOnce
  <2>6. \A u \in m.usage : ~Known(u) /\ u \in 1 .. used /\ u \in Unit
    BY <1>1, <1>2, <2>4, <2>5 DEF BeatTypes
  <2>7. \A u \in m.usage : m.row[u] = 0
    BY <1>2, <2>6 DEF Known
  <2>8. Once(row)'
    <3>1. SUFFICES ASSUME NEW u \in Unit PROVE row'[u] <= IF u <= used THEN 1 ELSE 0
      BY DEF Once
    <3>2. CASE u \in m.usage
      BY <1>2, <1>6, <2>6, <2>7, <3>2
    <3>3. CASE u \notin m.usage
      BY <1>2, <1>6, <2>5, <3>3 DEF Once
    <3>. QED
      BY <3>2, <3>3
  <2>9. ASSUME NEW o \in Handler, handlers'[o].phase = "loaded" PROVE Once(handlers[o].row)'
    BY <1>4, <1>5, <2>5, <2>9 DEF Once
  <2>10. ASSUME NEW u \in Unit, Known(u)' PROVE Known(u) \/ u \in m.usage
    <3>1. row'[u] > 0 => u \in m.usage \/ m.row[u] > 0
      BY <1>2, <1>6
    <3>. QED
      BY <1>4, <1>5, <2>10, <3>1 DEF Known
  <2>11. ASSUME NEW q \in Process, NEW u \in counter[q], Known(u)' PROVE Shipped(q)' /\ u \in beat[q].usage
    <3>1. u \in Unit
      BY <1>1, HeartbeatAssumption DEF BeatTypes, Unit
    <3>2. CASE Known(u)
      BY <1>11, <2>5, <3>2
    <3>3. CASE u \in m.usage
      <4>1. q = p
        BY <1>1, <2>4, <3>3 DEF Exchange
      <4>2. Shipped(p)'
        BY <1>3, <1>4, <1>5, <2>2, <2>3 DEF Shipped, Posted
      <4>. QED
        BY <2>4, <3>3, <4>1, <4>2
    <3>. QED
      BY <2>10, <2>11, <3>1, <3>2, <3>3
  <2>. QED
    BY <2>8, <2>9, <2>11 DEF CountedOnce
<1>. QED
  BY <1>7, <1>10, <1>13, <1>14, <1>15 DEF BeatsInv

LEMMA StoreStep == ASSUME BeatsInv, NEW h \in Handler, Store(h) PROVE BeatsInv'
<1>1. /\ handlers[h].phase = "loaded" /\ UNCHANGED <<enabled, version, counter, beat, used>>
  BY DEF Store
<1>2. Answer(h) \in Outcome /\ Failure \in Outcome /\ Failure.phase # "answered" /\ Free.phase # "answered"
  BY <1>1, BeatFacts DEF Answer, Outcome, Failure, Free, BeatsInv, BeatTypes
<1>3. CASE handlers[h].usage = {} /\ Finish(h, Answer(h)) /\ UNCHANGED <<row, spoilt>>
  BY <1>1, <1>2, <1>3, Finished, HandlerRests
<1>4. CASE Finish(h, Failure) /\ UNCHANGED <<row, spoilt>>
  BY <1>1, <1>2, <1>4, Finished, HandlerRests
<1>5. CASE /\ row' = [u \in Unit |-> handlers[h].row[u] + (IF u \in handlers[h].usage THEN 1 ELSE 0)]
           /\ spoilt' = spoilt \cup (IF row = handlers[h].row THEN {} ELSE {"overlapped"})
                               \cup (IF Awaited(h) THEN {} ELSE {"repeated"})
           /\ Finish(h, Answer(h))
  BY <1>1, <1>5, CountStep
<1>. QED
  BY <1>3, <1>4, <1>5 DEF Store

\* A step of one heartbeat that ends its exchange, or goes on without it.
LEMMA BeatRests ==
    ASSUME BeatsInv, UNCHANGED <<enabled, version, row, used, counter>>, spoilt \subseteq spoilt',
           NEW p \in Process, Posted(p),
           NEW b \in {Asleep} \cup Beating, beat' = [beat EXCEPT ![p] = b],
           b.phase # "posted", b # Asleep => b.usage = beat[p].usage /\ b.phase = "received" /\ Shipped(p),
           b = Asleep => ~Shipped(p) \/ "repeated" \in spoilt',
           NEW c \in {Free, handlers[beat[p].to]}, handlers' = [handlers EXCEPT ![beat[p].to] = c]
    PROVE  BeatsInv'
<1>. DEFINE h == beat[p].to
<1>1. BeatTypes /\ Exchange /\ h \in Handler
  BY BeatFacts DEF BeatsInv
<1>2. BeatTypes'
  BY <1>1 DEF BeatTypes
<1>3. /\ beat'[p] = b /\ \A o \in Process \ {p} : beat'[o] = beat[o]
      /\ handlers'[h] = c /\ \A o \in Handler \ {h} : handlers'[o] = handlers[o]
  BY <1>1 DEF BeatTypes
<1>4. \A q \in Process : Posted(q)' => q # p /\ Posted(q) /\ beat'[q] = beat[q] /\ beat[q].to # h
  BY <1>1, <1>3 DEF Posted, Exchange
<1>5. Exchange'
  <2>1. \A q \in Process : beat'[q] # Asleep => beat'[q].usage \subseteq counter[q]
    BY <1>1, <1>3 DEF Exchange, Posted, Asleep
  <2>2. \A q, r \in Process : (Posted(q)' /\ Posted(r)' /\ beat'[q].to = beat'[r].to) => q = r
    BY <1>1, <1>4 DEF Exchange
  <2>3. ASSUME NEW q \in Process, Posted(q)'
        PROVE  /\ handlers'[beat'[q].to] # Free
               /\ handlers'[beat'[q].to].phase \in {"called", "loaded"}
                    => handlers'[beat'[q].to].usage = beat'[q].usage
    <3>1. Posted(q) /\ beat'[q] = beat[q] /\ beat[q].to \in Handler \ {h}
      BY <1>1, <1>4, <2>3, BeatFacts
    <3>. QED
      BY <1>1, <1>3, <3>1 DEF Exchange
  <2>. QED
    BY <1>1, <2>1, <2>2, <2>3 DEF Exchange
<1>6. ASSUME NEW q \in Process \ {p} PROVE (Shipped(q)' <=> Shipped(q)) /\ beat'[q] = beat[q]
  <2>1. CASE Posted(q)
    <3>1. beat[q].to \in Handler \ {h}
      BY <1>1, <2>1, BeatFacts DEF Exchange
    <3>. QED
      BY <1>3, <3>1 DEF Shipped, Posted
  <2>2. CASE ~Posted(q)
    BY <1>3, <2>2 DEF Shipped, Posted
  <2>. QED
    BY <2>1, <2>2
<1>7. Shipped(p)' => Shipped(p) /\ beat'[p].usage = beat[p].usage
  BY <1>3 DEF Shipped, Posted, Asleep
<1>8. "repeated" \notin spoilt' => (Shipped(p) => Shipped(p)' /\ beat'[p].usage = beat[p].usage)
  BY <1>3 DEF Shipped, Posted
<1>9. \A o \in Handler : handlers'[o].phase = "loaded" =>
          handlers[o].phase = "loaded" /\ handlers'[o].row = handlers[o].row
  BY <1>3 DEF Free
<1>. QED
  BY <1>2, <1>5, <1>6, <1>7, <1>8, <1>9, RowRests

LEMMA ReceiveStep == ASSUME BeatsInv, NEW p \in Process, Receive(p) PROVE BeatsInv'
<1>. DEFINE b == [phase |-> "received", usage |-> beat[p].usage]
<1>1. /\ Posted(p) /\ handlers[beat[p].to].phase = "answered"
      /\ handlers' = [handlers EXCEPT ![beat[p].to] = Free] /\ beat' = [beat EXCEPT ![p] = b]
      /\ UNCHANGED <<enabled, version, row, counter, used, spoilt>>
  BY DEF Receive, Posted
<1>2. beat[p].usage \in SUBSET Unit
  BY <1>1, BeatFacts DEF BeatsInv, Posted, Asleep
<1>3. b \in Beating /\ b.phase = "received" /\ b.usage = beat[p].usage /\ b # Asleep
  BY <1>2 DEF Beating, Asleep
<1>4. Shipped(p)
  BY <1>1 DEF Shipped
<1>. HIDE DEF b
<1>. QED
  BY <1>1, <1>3, <1>4, BeatRests

LEMMA GiveUpBeatStep == ASSUME BeatsInv, NEW p \in Process, GiveUpBeat(p) PROVE BeatsInv'
<1>. DEFINE h == beat[p].to
            c == IF handlers[h].phase \in {"answered", "failed"} THEN Free ELSE handlers[h]
<1>1. /\ Posted(p) /\ beat' = [beat EXCEPT ![p] = Asleep]
      /\ UNCHANGED <<enabled, version, row, counter, used>>
      /\ spoilt' = spoilt \cup (IF handlers[h].phase = "answered" THEN {"repeated"} ELSE {})
  BY DEF GiveUpBeat, Posted
<1>2. h \in Handler
  BY <1>1, BeatFacts DEF BeatsInv
<1>3. handlers' = [handlers EXCEPT ![h] = c]
  BY <1>2 DEF GiveUpBeat, BeatsInv, BeatTypes
<1>4. Shipped(p) => handlers[h].phase = "answered"
  BY <1>1 DEF Shipped, Posted
<1>5. Asleep.phase # "posted" /\ c \in {Free, handlers[h]}
  BY DEF Asleep
<1>. HIDE DEF c
<1>. QED
  BY <1>1, <1>3, <1>4, <1>5, BeatRests

\* The counters of one process are emptied, and its heartbeat ends.
LEMMA EmptyStep ==
    ASSUME BeatsInv, UNCHANGED <<enabled, version, row, used>>, spoilt \subseteq spoilt',
           NEW p \in Process, counter' = [counter EXCEPT ![p] = {}], beat' = [beat EXCEPT ![p] = Asleep],
           handlers' \in [Handler -> {Free} \cup Carried \cup Outcome],
           \A h \in Handler : handlers'[h] = handlers[h] \/ (Posted(p) /\ beat[p].to = h /\ handlers'[h] = Free),
           spoilt' \cap {"wiped", "overlapped", "restarted"} = {} => \A u \in counter[p] : row[u] > 0
    PROVE  BeatsInv'
<1>1. BeatTypes /\ Exchange
  BY DEF BeatsInv
<1>2. BeatTypes'
  BY <1>1 DEF BeatTypes
<1>3. /\ beat'[p] = Asleep /\ counter'[p] = {}
      /\ \A o \in Process \ {p} : beat'[o] = beat[o] /\ counter'[o] = counter[o]
  BY <1>1 DEF BeatTypes
<1>4. ASSUME NEW q \in Process, Posted(q)' \/ Shipped(q)'
      PROVE  q # p /\ beat'[q] = beat[q] /\ (Posted(q) => beat[q].to \in Handler /\ handlers'[beat[q].to] = handlers[beat[q].to])
  <2>1. q # p /\ beat'[q] = beat[q]
    BY <1>3, <1>4 DEF Posted, Shipped, Asleep
  <2>2. ASSUME Posted(q) PROVE beat[q].to \in Handler /\ handlers'[beat[q].to] = handlers[beat[q].to]
    BY <1>1, <2>1, <2>2, BeatFacts DEF Exchange
  <2>. QED
    BY <2>1, <2>2
<1>5. \A q \in Process : Posted(q)' => Posted(q)
  BY <1>4 DEF Posted
<1>6. Exchange'
  <2>1. \A q, r \in Process : q # r => counter'[q] \cap counter'[r] = {}
    BY <1>1, <1>3 DEF Exchange
  <2>2. \A q \in Process : beat'[q] # Asleep => beat'[q].usage \subseteq counter'[q]
    BY <1>1, <1>3 DEF Exchange
  <2>3. \A q, r \in Process : (Posted(q)' /\ Posted(r)' /\ beat'[q].to = beat'[r].to) => q = r
    BY <1>1, <1>4, <1>5 DEF Exchange
  <2>4. ASSUME NEW q \in Process, Posted(q)'
        PROVE  /\ handlers'[beat'[q].to] # Free
               /\ handlers'[beat'[q].to].phase \in {"called", "loaded"}
                    => handlers'[beat'[q].to].usage = beat'[q].usage
    BY <1>1, <1>4, <1>5, <2>4 DEF Exchange
  <2>. QED
    BY <2>1, <2>2, <2>3, <2>4 DEF Exchange
<1>7. \A q \in Process : Shipped(q)' => Shipped(q) /\ beat'[q].usage = beat[q].usage
  BY <1>4 DEF Shipped, Posted
<1>8. ShippedStored'
  BY <1>7 DEF BeatsInv, ShippedStored
<1>9. UsageKept'
  <2>1. SUFFICES ASSUME spoilt' \cap {"wiped", "overlapped", "restarted"} = {}, NEW u \in 1 .. used
                 PROVE  row[u] > 0 \/ \E q \in Process : u \in counter'[q]
    BY DEF UsageKept
  <2>2. row[u] > 0 \/ \E q \in Process : u \in counter[q]
    BY <2>1 DEF BeatsInv, UsageKept
  <2>. QED
    BY <1>3, <2>1, <2>2
<1>10. CountedOnce'
  <2>1. SUFFICES ASSUME "repeated" \notin spoilt' PROVE CountedOnce'
    BY DEF CountedOnce
  <2>2. Once(row)'
    BY <2>1 DEF BeatsInv, CountedOnce, Once
  <2>3. \A h \in Handler : handlers'[h].phase = "loaded" => handlers'[h] = handlers[h]
    BY DEF Free
  <2>4. ASSUME NEW h \in Handler, handlers'[h].phase = "loaded" PROVE Once(handlers[h].row)'
    BY <2>1, <2>3, <2>4 DEF BeatsInv, CountedOnce, Once
  <2>5. \A u : Known(u)' => Known(u)
    BY <2>3 DEF Known
  <2>6. ASSUME NEW q \in Process, NEW u \in counter'[q], Known(u)' PROVE Shipped(q)' /\ u \in beat'[q].usage
    <3>1. q # p /\ u \in counter[q] /\ beat'[q] = beat[q]
      BY <1>3, <2>6
    <3>2. Shipped(q) /\ u \in beat[q].usage
      BY <2>1, <2>5, <2>6, <3>1 DEF BeatsInv, CountedOnce
    <3>3. Posted(q) => handlers'[beat[q].to] = handlers[beat[q].to]
      BY <1>1, <3>1, BeatFacts DEF Exchange
    <3>. QED
      BY <3>1, <3>2, <3>3 DEF Shipped, Posted
  <2>. QED
    BY <2>2, <2>4, <2>6 DEF CountedOnce
<1>. QED
  BY <1>2, <1>6, <1>8, <1>9, <1>10 DEF BeatsInv

LEMMA ClearStep == ASSUME BeatsInv, NEW p \in Process, Clear(p) PROVE BeatsInv'
<1>1. /\ beat[p].phase = "received"
      /\ counter' = [counter EXCEPT ![p] = {}] /\ beat' = [beat EXCEPT ![p] = Asleep]
      /\ spoilt' = spoilt \cup (IF counter[p] = beat[p].usage THEN {} ELSE {"wiped"})
      /\ UNCHANGED <<enabled, version, row, used, handlers>>
  BY DEF Clear
<1>2. spoilt' \cap {"wiped", "overlapped", "restarted"} = {} => \A u \in counter[p] : row[u] > 0
  BY <1>1 DEF BeatsInv, ShippedStored, Shipped
<1>3. handlers' \in [Handler -> {Free} \cup Carried \cup Outcome]
  BY <1>1 DEF BeatsInv, BeatTypes
<1>. QED
  BY <1>1, <1>2, <1>3, EmptyStep

LEMMA RestartStep == ASSUME BeatsInv, NEW p \in Process, RestartProcess(p) PROVE BeatsInv'
<1>1. /\ counter' = [counter EXCEPT ![p] = {}] /\ beat' = [beat EXCEPT ![p] = Asleep]
      /\ spoilt' = spoilt \cup {"restarted"} /\ UNCHANGED <<enabled, version, row, used>>
      /\ handlers' = [h \in Handler |->
            IF beat[p].phase = "posted" /\ beat[p].to = h /\ handlers[h].phase \in {"answered", "failed"}
            THEN Free ELSE handlers[h]]
  BY DEF RestartProcess
<1>2. handlers' \in [Handler -> {Free} \cup Carried \cup Outcome]
  BY <1>1 DEF BeatsInv, BeatTypes
<1>3. \A h \in Handler : handlers'[h] = handlers[h] \/ (Posted(p) /\ beat[p].to = h /\ handlers'[h] = Free)
  BY <1>1 DEF Posted
<1>. QED
  BY <1>1, <1>2, <1>3, EmptyStep

\* A unit that is new is known to nobody.
LEMMA UseStep == ASSUME BeatsInv, NEW p \in Process, Use(p) PROVE BeatsInv'
<1>1. /\ used < MaxUse /\ used' = used + 1 /\ counter' = [counter EXCEPT ![p] = counter[p] \cup {used + 1}]
      /\ UNCHANGED <<enabled, version, row, handlers, beat, spoilt>>
  BY DEF Use
<1>2. BeatTypes /\ Exchange /\ used \in Nat /\ MaxUse \in Nat
  BY HeartbeatAssumption DEF BeatsInv, BeatTypes
<1>3. 1 .. used' = (1 .. used) \cup {used + 1} /\ used + 1 \notin 1 .. used /\ used + 1 \in Unit
  BY <1>1, <1>2 DEF Unit
<1>4. BeatTypes'
  <2>1. used' \in 0 .. MaxUse
    BY <1>1, <1>2
  <2>2. counter' \in [Process -> SUBSET (1 .. used')]
    BY <1>1, <1>2, <1>3 DEF BeatTypes
  <2>. QED
    BY <1>1, <1>2, <2>1, <2>2 DEF BeatTypes
<1>5. /\ counter'[p] = counter[p] \cup {used + 1}
      /\ \A o \in Process \ {p} : counter'[o] = counter[o]
      /\ \A o \in Process : counter[o] \subseteq 1 .. used
  BY <1>1, <1>2 DEF BeatTypes
<1>6. \A q \in Process : (Posted(q)' <=> Posted(q)) /\ (Shipped(q)' <=> Shipped(q))
  BY <1>1 DEF Posted, Shipped
<1>7. Exchange'
  <2>1. \A q, r \in Process : q # r => counter'[q] \cap counter'[r] = {}
    BY <1>2, <1>3, <1>5 DEF Exchange
  <2>2. \A q \in Process : beat[q] # Asleep => beat[q].usage \subseteq counter'[q]
    BY <1>2, <1>5 DEF Exchange
  <2>. QED
    BY <1>1, <1>2, <1>6, <2>1, <2>2 DEF Exchange
<1>8. ShippedStored'
  BY <1>1, <1>6 DEF BeatsInv, ShippedStored
<1>9. UsageKept'
  <2>1. SUFFICES ASSUME spoilt \cap {"wiped", "overlapped", "restarted"} = {}, NEW u \in 1 .. used'
                 PROVE  row[u] > 0 \/ \E q \in Process : u \in counter'[q]
    BY <1>1 DEF UsageKept
  <2>2. CASE u \in 1 .. used
    <3>1. row[u] > 0 \/ \E q \in Process : u \in counter[q]
      BY <2>1, <2>2 DEF BeatsInv, UsageKept
    <3>. QED
      BY <1>5, <3>1
  <2>3. CASE u = used + 1
    BY <1>5, <2>3
  <2>. QED
    BY <1>3, <2>1, <2>2, <2>3
<1>10. CountedOnce'
  <2>1. SUFFICES ASSUME "repeated" \notin spoilt PROVE CountedOnce'
    BY <1>1 DEF CountedOnce
  <2>2. /\ Once(row)
        /\ \A h \in Handler : handlers[h].phase = "loaded" => Once(handlers[h].row)
        /\ \A q \in Process : \A u \in counter[q] : Known(u) => Shipped(q) /\ u \in beat[q].usage
    BY <2>1 DEF BeatsInv, CountedOnce
  <2>3. ASSUME NEW r \in [Unit -> Nat], Once(r) PROVE Once(r)' /\ ~(r[used + 1] > 0)
    <3>1. Once(r)'
      <4>1. SUFFICES ASSUME NEW u \in Unit PROVE r[u] <= IF u <= used' THEN 1 ELSE 0
        BY DEF Once
      <4>2. u \in Nat /\ r[u] \in Nat
        BY <1>2 DEF Unit
      <4>. QED
        BY <1>1, <1>2, <2>3, <4>2 DEF Once
    <3>2. r[used + 1] \in Nat /\ r[used + 1] <= 0
      BY <1>2, <1>3, <2>3 DEF Once
    <3>. QED
      BY <3>1, <3>2
  <2>4. row \in [Unit -> Nat] /\ \A h \in Handler : handlers[h].phase = "loaded" => handlers[h].row \in [Unit -> Nat]
    BY <1>2, BeatFacts DEF BeatTypes
  <2>5. Once(row)'
    BY <1>1, <2>2, <2>3, <2>4 DEF Once
  <2>6. ASSUME NEW h \in Handler, handlers'[h].phase = "loaded" PROVE Once(handlers[h].row)'
    <3>1. PICK r : r = handlers[h].row
      OBVIOUS
    <3>2. Once(r)'
      BY <1>1, <2>2, <2>3, <2>4, <2>6, <3>1
    <3>. QED
      BY <1>1, <3>1, <3>2 DEF Once
  <2>7. \A u : Known(u)' <=> Known(u)
    BY <1>1 DEF Known
  <2>8. ~Known(used + 1)
    BY <2>2, <2>3, <2>4 DEF Known
  <2>9. ASSUME NEW q \in Process, NEW u \in counter'[q], Known(u)' PROVE Shipped(q)' /\ u \in beat'[q].usage
    <3>1. Known(u) /\ u \in counter[q]
      BY <1>5, <2>7, <2>8, <2>9
    <3>. QED
      BY <1>1, <1>6, <2>2, <3>1
  <2>. QED
    BY <2>5, <2>6, <2>9 DEF CountedOnce
<1>. QED
  BY <1>4, <1>7, <1>8, <1>9, <1>10 DEF BeatsInv

\* What the counters are not in.
LEMMA ElsewhereStep ==
    ASSUME BeatsInv, UNCHANGED <<row, used, counter, beat, handlers, spoilt>>,
           enabled' \in BOOLEAN, version' \in Nat
    PROVE  BeatsInv'
<1>1. BeatTypes'
  BY DEF BeatsInv, BeatTypes
<1>2. Exchange' /\ \A p \in Process : Shipped(p)' <=> Shipped(p)
  BY DEF BeatsInv, Exchange, Shipped, Posted
<1>. QED
  BY <1>1, <1>2, RowRests

LEMMA BeatsStep == ASSUME BeatsInv, [BeatsNext]_beatVars PROVE BeatsInv'
<1>1. ASSUME NEW p \in Process, Use(p) \/ Receive(p) \/ Clear(p) \/ GiveUpBeat(p) \/ RestartProcess(p)
      PROVE  BeatsInv'
  BY <1>1, UseStep, ReceiveStep, ClearStep, GiveUpBeatStep, RestartStep
<1>2. ASSUME NEW p \in Process, NEW h \in Handler, PostBeat(p, h) PROVE BeatsInv'
  BY <1>2, PostBeatStep
<1>3. ASSUME NEW h \in Handler, Load(h) \/ Store(h) \/ Fail(h) PROVE BeatsInv'
  BY <1>3, LoadStep, StoreStep, FailStep
<1>4. CASE Toggle \/ UNCHANGED beatVars
  BY <1>4, ElsewhereStep DEF Toggle, beatVars, BeatsInv, BeatTypes
<1>. QED
  BY <1>1, <1>2, <1>3, <1>4 DEF BeatsNext

LEMMA BeatsInvariance == BeatsSpec => []BeatsInv
  BY BeatsInitially, BeatsStep, PTL DEF BeatsSpec

\* _heartbeat.py:3-4, "a successful heartbeat ships and clears the counters, a failed one
\* leaves them for the next attempt": whatever fails, times out or is answered too late, no
\* unit is lost but in the ways UsageKept names.
THEOREM NoUsageLost == BeatsSpec => []UsageKept
<1>1. BeatsInv => UsageKept
  BY DEF BeatsInv
<1>. QED
  BY <1>1, BeatsInvariance, PTL

\* The row of the day counts no unit twice, and none that was not used, while every report
\* that was stored is known to its sender.
THEOREM NoUsageTwice == BeatsSpec => []UsageCountedOnce
<1>1. BeatsInv => UsageCountedOnce
  BY DEF BeatsInv, CountedOnce, Once, UsageCountedOnce
<1>. QED
  BY <1>1, BeatsInvariance, PTL
=============================================================================
