-------------------------- MODULE AdminGuardProofs --------------------------
(***************************************************************************)
(* AdminGuard, for any number of people and of requests: among the         *)
(* requests that take the guard, an active administrator remains, and each *)
(* of them acts for somebody who is an administrator at that moment.       *)
(*                                                                         *)
(* LlmControl, for any number of features and requests: the row of the     *)
(* feature that an upsert holds keeps reports from being lost and          *)
(* decisions from being undone, and the version counted before the         *)
(* features are read dates what a service caches of them.                  *)
(***************************************************************************)
EXTENDS AdminGuard, LlmControl, FiniteSetTheorems, TLAPS

RequestRecord == [kind : Kind, actor : User, target : User, row : Account, guarded : BOOLEAN]

\* Who is inside the guard holds the lock.
HolderInv == \A q \in Request : (Running(q) /\ requests[q].guarded) => guard = q

\* While a removal is inside the guard, somebody else than its target is an active administrator.
MarginInv ==
    ~blind => \A q \in Request :
        (Running(q) /\ requests[q].guarded /\ requests[q].kind \in Removal)
            => ActiveAdmins \ {requests[q].target} # {}

IInv == TypeOK /\ HolderInv /\ MarginInv /\ GuardKeepsAdmin /\ GuardedByAdmin

LEMMA Initially == ASSUME Init PROVE IInv
<1>1. TypeOK
  BY DEF Init, TypeOK
<1>2. \A q \in Request : ~Running(q)
  BY DEF Init, Running
<1>. QED
  BY <1>1, <1>2 DEF Init, IInv, HolderInv, MarginInv, GuardKeepsAdmin, AdminRemains, GuardedByAdmin

LEMMA RunningRequest ==
    ASSUME TypeOK, NEW q \in Request, Running(q) PROVE requests[q] \in RequestRecord
  BY DEF TypeOK, Running, RequestRecord

\* With two active administrators, one remains without the target.
LEMMA OneBesides ==
    ASSUME NEW t, Cardinality(ActiveAdmins) > 1 PROVE ActiveAdmins \ {t} # {}
<1>1. SUFFICES ASSUME ActiveAdmins \in SUBSET {t} PROVE FALSE
  OBVIOUS
<1>2. IsFiniteSet({t}) /\ Cardinality({t}) = 1
  BY FS_Singleton
<1>3. Cardinality(ActiveAdmins) <= 1 /\ IsFiniteSet(ActiveAdmins)
  BY <1>1, <1>2, FS_Subset
<1>4. Cardinality(ActiveAdmins) \in Nat
  BY <1>3, FS_CardinalityType
<1>. QED
  BY <1>3, <1>4

LEMMA StartStep ==
    ASSUME IInv, NEW q \in Request, NEW actor \in User, NEW target \in User, NEW kind \in Kind,
           Start(q, actor, target, kind)
    PROVE  IInv'
<1>. DEFINE r == [kind |-> kind, actor |-> actor, target |-> target,
                  row |-> account[target], guarded |-> FALSE]
<1>1. /\ requests' = [requests EXCEPT ![q] = r]
      /\ UNCHANGED <<account, guard, blind>>
  BY DEF Start
<1>2. TypeOK
  BY DEF IInv
<1>3. r \in RequestRecord /\ ~r.guarded
  BY <1>2 DEF TypeOK, RequestRecord
<1>. HIDE DEF r
<1>4. TypeOK'
  BY <1>1, <1>2, <1>3 DEF TypeOK, RequestRecord
<1>5. \A p \in Request : (Running(p) /\ requests[p].guarded)'
                           => Running(p) /\ requests[p].guarded /\ requests'[p] = requests[p]
  BY <1>1, <1>2, <1>3 DEF TypeOK, Running
<1>6. ActiveAdmins' = ActiveAdmins
  BY <1>1 DEF ActiveAdmins
<1>. QED
  BY <1>1, <1>4, <1>5, <1>6
  DEF IInv, HolderInv, MarginInv, GuardKeepsAdmin, AdminRemains, GuardedByAdmin

LEMMA TakeGuardStep ==
    ASSUME IInv, NEW q \in Request, TakeGuard(q)
    PROVE  IInv'
<1>. DEFINE r == Refreshed(requests[q])
<1>1. /\ guard = Free
      /\ account[r.actor].admin /\ account[r.actor].active
      /\ LeavesAnAdmin(r)
      /\ guard' = q
      /\ requests' = [requests EXCEPT ![q] = r]
      /\ UNCHANGED <<account, blind>>
  BY DEF TakeGuard
<1>2. TypeOK
  BY DEF IInv
<1>3. requests[q] \in RequestRecord
  BY <1>2, RunningRequest DEF TakeGuard
<1>4. /\ r \in RequestRecord
      /\ r.row.admin = account[r.target].admin
      /\ r.row.active = account[r.target].active
  BY <1>2, <1>3 DEF Refreshed, RequestRecord, TypeOK, Account
<1>. HIDE DEF r
<1>5. TypeOK'
  BY <1>1, <1>2, <1>4 DEF TypeOK, RequestRecord
<1>6. \A p \in Request : p # q => ~(Running(p) /\ requests[p].guarded)'
  <2>1. \A p \in Request : ~(Running(p) /\ requests[p].guarded)
    BY <1>1, GuardNames DEF IInv, HolderInv
  <2>. QED
    BY <1>1, <1>2, <2>1 DEF TypeOK, Running
<1>7. requests'[q] = r
  BY <1>1, <1>2 DEF TypeOK
<1>8. ActiveAdmins' = ActiveAdmins
  BY <1>1 DEF ActiveAdmins
<1>9. MarginInv'
  <2>1. SUFFICES ASSUME ~blind, r.kind \in Removal PROVE ActiveAdmins \ {r.target} # {}
    BY <1>1, <1>6, <1>7, <1>8 DEF MarginInv
  <2>2. CASE r.row.admin /\ r.row.active
    BY <1>1, <2>1, <2>2, OneBesides DEF LeavesAnAdmin
  <2>3. CASE ~(r.row.admin /\ r.row.active)
    <3>1. r.target \notin ActiveAdmins
      BY <1>4, <2>3 DEF ActiveAdmins
    <3>2. ActiveAdmins # {}
      BY <2>1 DEF IInv, GuardKeepsAdmin, AdminRemains
    <3>. QED
      BY <3>1, <3>2
  <2>. QED
    BY <2>2, <2>3
<1>10. HolderInv' /\ GuardedByAdmin' /\ GuardKeepsAdmin'
  BY <1>1, <1>6, <1>7, <1>8 DEF IInv, HolderInv, GuardedByAdmin, GuardKeepsAdmin, AdminRemains
<1>. QED
  BY <1>5, <1>9, <1>10 DEF IInv

\* The end of a request leaves the others as they were.
LEMMA EndStep ==
    ASSUME IInv, NEW q \in Request, Running(q), End(q),
           account' \in [User -> Account], blind' \in BOOLEAN
    PROVE  /\ TypeOK'
           /\ HolderInv'
           /\ \A p \in Request : (Running(p) /\ requests[p].guarded)'
                => p # q /\ Running(p) /\ requests[p].guarded /\ requests'[p] = requests[p]
<1>1. requests' = [requests EXCEPT ![q] = Idle] /\ guard' = IF guard = q THEN Free ELSE guard
  BY DEF End
<1>2. TypeOK
  BY DEF IInv
<1>3. TypeOK'
  BY <1>1, <1>2 DEF TypeOK
<1>4. \A p \in Request : (Running(p) /\ requests[p].guarded)'
        => p # q /\ Running(p) /\ requests[p].guarded /\ requests'[p] = requests[p]
  BY <1>1, <1>2 DEF TypeOK, Running
<1>5. HolderInv'
  BY <1>1, <1>4 DEF IInv, HolderInv
<1>. QED
  BY <1>3, <1>4, <1>5

LEMMA AbortStep ==
    ASSUME IInv, NEW q \in Request, Abort(q)
    PROVE  IInv'
<1>1. Running(q) /\ End(q) /\ UNCHANGED <<account, blind>>
  BY DEF Abort
<1>2. account' \in [User -> Account] /\ blind' \in BOOLEAN
  BY <1>1 DEF IInv, TypeOK
<1>3. ActiveAdmins' = ActiveAdmins
  BY <1>1 DEF ActiveAdmins
<1>. QED
  BY <1>1, <1>2, <1>3, EndStep
  DEF IInv, MarginInv, GuardKeepsAdmin, AdminRemains, GuardedByAdmin

LEMMA CommitStep ==
    ASSUME IInv, NEW q \in Request, Commit(q)
    PROVE  IInv'
<1>. DEFINE r == requests[q]
            a == account[r.target]
<1>1. /\ Running(q)
      /\ account' = [account EXCEPT ![r.target] = Written(r, a)]
      /\ blind' = (blind \/ (~r.guarded /\ r.kind \in Removal /\ a.admin))
      /\ End(q)
  BY DEF Commit
<1>2. TypeOK
  BY DEF IInv
<1>3. r \in RequestRecord
  BY <1>1, <1>2, RunningRequest
<1>4. /\ r.kind \in Kind /\ r.target \in User /\ r.actor \in User /\ r.guarded \in BOOLEAN
      /\ a \in Account /\ r.row \in Account
  BY <1>2, <1>3 DEF RequestRecord, TypeOK
<1>5. /\ Written(r, a) \in Account
      /\ r.kind \notin Removal => (/\ a.admin => Written(r, a).admin
                                   /\ a.active => Written(r, a).active
                                   /\ a.employed => Written(r, a).employed)
  <2>1. CASE r.kind = "switch_off"
    BY <1>4, <2>1 DEF Written, Removal, Account
  <2>2. CASE r.kind = "exit"
    BY <1>4, <2>2 DEF Written, Removal, Account
  <2>3. CASE r.kind = "demote"
    BY <1>4, <2>3 DEF Written, Removal, Account
  <2>4. CASE r.kind = "promote"
    BY <1>4, <2>4 DEF Written, Removal, Account
  <2>5. CASE r.kind = "restore"
    BY <1>4, <2>5 DEF Written, Removal, Account
  <2>6. CASE r.kind = "rehire"
    BY <1>4, <2>6 DEF Written, Removal, Account
  <2>. QED
    BY <1>4, <2>1, <2>2, <2>3, <2>4, <2>5, <2>6 DEF Kind, Removal
<1>. HIDE DEF r, a
<1>6. account' \in [User -> Account] /\ blind' \in BOOLEAN
  BY <1>1, <1>2, <1>4, <1>5 DEF TypeOK
<1>7. /\ TypeOK'
      /\ HolderInv'
      /\ \A p \in Request : (Running(p) /\ requests[p].guarded)'
            => p # q /\ Running(p) /\ requests[p].guarded /\ requests'[p] = requests[p]
  BY <1>1, <1>6, EndStep
<1>8. \A u \in User : u # r.target => account'[u] = account[u]
  BY <1>1, <1>2 DEF TypeOK
<1>9. account'[r.target] = Written(r, a)
  BY <1>1, <1>2, <1>4 DEF TypeOK
<1>10. ActiveAdmins \ {r.target} \subseteq ActiveAdmins'
  BY <1>8 DEF ActiveAdmins
<1>11. CASE r.guarded
  <2>1. \A p \in Request : ~(Running(p) /\ requests[p].guarded)'
    BY <1>1, <1>7, <1>11 DEF IInv, HolderInv, r
  <2>2. MarginInv' /\ GuardedByAdmin'
    BY <2>1 DEF MarginInv, GuardedByAdmin
  <2>3. ~blind' => ActiveAdmins' # {}
    <3>1. SUFFICES ASSUME ~blind PROVE ActiveAdmins' # {}
      BY <1>1
    <3>2. CASE r.kind \in Removal
      BY <1>1, <1>10, <1>11, <3>1, <3>2 DEF IInv, MarginInv, r
    <3>3. CASE r.kind \notin Removal
      <4>1. ActiveAdmins \subseteq ActiveAdmins'
        BY <1>4, <1>5, <1>8, <1>9, <3>3 DEF ActiveAdmins, a
      <4>. QED
        BY <3>1, <4>1 DEF IInv, GuardKeepsAdmin, AdminRemains
    <3>. QED
      BY <3>2, <3>3
  <2>. QED
    BY <1>7, <2>2, <2>3 DEF IInv, GuardKeepsAdmin, AdminRemains
<1>12. CASE ~r.guarded
  <2>1. CASE blind'
    BY <1>7, <2>1 DEF IInv, MarginInv, GuardedByAdmin, GuardKeepsAdmin
  <2>2. CASE ~blind'
    <3>1. ~blind /\ (r.kind \in Removal => ~a.admin)
      BY <1>1, <1>12, <2>2
    <3>2. \A u \in User : account[u].admin /\ account[u].active
                            => /\ account'[u].admin /\ account'[u].active
                               /\ account[u].employed => account'[u].employed
      BY <1>4, <1>5, <1>8, <1>9, <3>1 DEF a
    <3>3. ActiveAdmins \subseteq ActiveAdmins'
      BY <3>2 DEF ActiveAdmins
    <3>4. GuardKeepsAdmin' /\ MarginInv'
      BY <1>7, <3>1, <3>3 DEF IInv, GuardKeepsAdmin, AdminRemains, MarginInv
    <3>5. GuardedByAdmin'
      <4>1. SUFFICES ASSUME NEW p \in Request, (Running(p) /\ requests[p].guarded)'
                     PROVE  (account[requests[p].actor].admin /\ account[requests[p].actor].active)'
        BY DEF GuardedByAdmin
      <4>2. Running(p) /\ requests[p].guarded /\ requests'[p] = requests[p]
        BY <1>7, <4>1
      <4>3. requests[p].actor \in User
        BY <1>2, <4>2, RunningRequest DEF RequestRecord
      <4>4. account[requests[p].actor].admin /\ account[requests[p].actor].active
        BY <3>1, <4>2 DEF IInv, GuardedByAdmin
      <4>. QED
        BY <3>2, <4>2, <4>3, <4>4
    <3>. QED
      BY <1>7, <3>4, <3>5 DEF IInv
  <2>. QED
    BY <2>1, <2>2
<1>. QED
  BY <1>4, <1>11, <1>12

LEMMA Inductive == ASSUME IInv, [Next]_vars PROVE IInv'
<1>1. CASE \E q \in Request, actor, target \in User, kind \in Kind : Start(q, actor, target, kind)
  BY <1>1, StartStep
<1>2. CASE \E q \in Request : TakeGuard(q) \/ Commit(q) \/ Abort(q)
  BY <1>2, TakeGuardStep, CommitStep, AbortStep
<1>3. CASE UNCHANGED vars
  BY <1>3 DEF vars, IInv, TypeOK, HolderInv, MarginInv, GuardKeepsAdmin, GuardedByAdmin,
              AdminRemains, ActiveAdmins, Running
<1>. QED
  BY <1>1, <1>2, <1>3 DEF Next

LEMMA Always == Spec => []IInv
<1>1. Init => IInv
  BY Initially
<1>2. IInv /\ [Next]_vars => IInv'
  BY Inductive
<1>. QED
  BY <1>1, <1>2, PTL DEF Spec

\* Among the requests that take the guard of protected_admin_change, an active
\* administrator always remains, however many people and requests there are.
THEOREM GuardedAdminRemains == Spec => []GuardKeepsAdmin
<1>1. IInv => GuardKeepsAdmin
  BY DEF IInv
<1>. QED
  BY <1>1, Always, PTL

\* What is done inside the guard is done for somebody who is an active administrator then.
THEOREM GuardActsForAdmin == Spec => []GuardedByAdmin
<1>1. IInv => GuardedByAdmin
  BY DEF IInv
<1>. QED
  BY <1>1, Always, PTL

-----------------------------------------------------------------------------
(* The LLM control plane                                                   *)

FeatureKind == {"policy", "register", "usage"}

\* What a call remembers, by its kind and step.
ServiceCall == [kind : {"service"}, on : {ServiceSwitch}, value : BOOLEAN,
                row : [exists : BOOLEAN, enabled : BOOLEAN]]
FeatureCall == [kind : {"feature"}, of : Feature, on : Decision, value : BOOLEAN, row : FeatureRow]
ReadCall == [kind : FeatureKind, of : Feature, on : Decision \cup {<<>>}, value : Allowed \cup {0, 1},
             row : FeatureRow, step : {"read"}]
FlushedCall == [kind : FeatureKind, of : Feature, on : Decision \cup {<<>>}, value : Allowed \cup {0, 1},
                row : FeatureRow, step : {"flushed"}, usage : 0 .. MaxReports]
FetchSwitch == [kind : {"fetch"}, on : {<<>>}, step : {"switch"}]
FetchVersion == [kind : {"fetch"}, on : {<<>>}, step : {"version"}, llm_enabled : BOOLEAN]
FetchFeatures == [kind : {"fetch"}, on : {<<>>}, step : {"features"}, llm_enabled : BOOLEAN,
                  version : 0 .. MaxVersion]
FetchAnswer == [kind : {"fetch"}, on : {<<>>}, step : {"answer"}, llm_enabled : BOOLEAN,
                version : 0 .. MaxVersion, service : BOOLEAN]
CallType == {NoCall} \cup ServiceCall \cup FeatureCall \cup ReadCall \cup FlushedCall
            \cup FetchSwitch \cup FetchVersion \cup FetchFeatures \cup FetchAnswer

LlmTypes == LlmTypeOK /\ calls \in [Call -> CallType] /\ reported \in [Feature -> Nat]
            /\ DOMAIN decided = Decision /\ decided = [d \in Decision |-> decided[d]]

\* A call works on the decision of its kind and feature; one of an administrator carries a
\* value for it, a report of usage one unit.
Works(q) ==
    /\ calls[q].kind = "feature" => calls[q].on = FeatureSwitch(calls[q].of)
    /\ calls[q].kind = "policy" => calls[q].on = FeatureLists(calls[q].of) /\ calls[q].value \in Allowed
    /\ calls[q].kind \in {"register", "usage"} => calls[q].on = <<>>
    /\ calls[q].kind = "usage" => calls[q].value = 1

\* What has been flushed holds the row of the feature, and with it the usage it has read.
Holds(q) ==
    calls[q].kind \in FeatureKind /\ calls[q].step = "flushed" =>
        holder[calls[q].of] = q /\ calls[q].usage = features[calls[q].of].usage

\* Unless two administrators were at it at once, who decides has read what still is.
StillRead(q) ==
    calls[q].on \notin contested =>
        /\ calls[q].kind = "service" => calls[q].row.enabled = service.enabled
        /\ calls[q].kind = "feature" => calls[q].row.enabled = features[calls[q].of].enabled
        /\ calls[q].kind = "policy" => calls[q].row.allowed = features[calls[q].of].allowed

\* Unless the version has moved since it was counted, the switch read after it still is.
Fetches(q) ==
    calls[q].kind = "fetch" =>
        /\ calls[q].step \in {"features", "answer"} => calls[q].version <= version
        /\ calls[q].step = "answer" /\ calls[q].version = version => calls[q].service = service.enabled

CallInv(q) == Works(q) /\ Holds(q) /\ StillRead(q) /\ Fetches(q)

CachedBefore ==
    /\ cached.version \in 0 .. version \cup {MaxVersion + 1}
    /\ cached.version # MaxVersion + 1 => DOMAIN cached.features \subseteq Feature

LlmInv ==
    /\ LlmTypes /\ (\A q \in Call : CallInv(q)) /\ CachedBefore
    /\ UsageExact /\ DecisionsStand /\ CachedFeaturesCurrent

\* The decisions are told apart.
LEMMA DecisionsApart ==
    ASSUME NEW f \in Feature, NEW g \in Feature
    PROVE  /\ ServiceSwitch \in Decision /\ FeatureSwitch(f) \in Decision /\ FeatureLists(f) \in Decision
           /\ ServiceSwitch # FeatureSwitch(f) /\ ServiceSwitch # FeatureLists(f)
           /\ FeatureSwitch(f) # FeatureLists(g)
           /\ FeatureSwitch(f) = FeatureSwitch(g) => f = g
           /\ FeatureLists(f) = FeatureLists(g) => f = g
           /\ <<>> # ServiceSwitch /\ <<>> # FeatureSwitch(f) /\ <<>> # FeatureLists(f)
  BY DEF Decision, ServiceSwitch, FeatureSwitch, FeatureLists

\* What the kind and the step of a call say of it.
LEMMA CallFields ==
    ASSUME NEW r \in CallType
    PROVE  /\ r.kind = "service" => r \in ServiceCall
           /\ r.kind = "feature" => r \in FeatureCall
           /\ r.kind \in FeatureKind => r \in ReadCall \cup FlushedCall
           /\ r.kind \in FeatureKind /\ r.step = "read" => r \in ReadCall
           /\ r.kind \in FeatureKind /\ r.step = "flushed" => r \in FlushedCall
           /\ r.kind = "fetch" => r \in FetchSwitch \cup FetchVersion \cup FetchFeatures \cup FetchAnswer
           /\ r.kind = "fetch" /\ r.step = "switch" => r \in FetchSwitch
           /\ r.kind = "fetch" /\ r.step = "version" => r \in FetchVersion
           /\ r.kind = "fetch" /\ r.step = "features" => r \in FetchFeatures
           /\ r.kind = "fetch" /\ r.step = "answer" => r \in FetchAnswer
           /\ r.kind \notin {"service", "feature", "fetch"} \cup FeatureKind => r = NoCall
  BY DEF CallType, FeatureKind, NoCall, ServiceCall, FeatureCall, ReadCall, FlushedCall, FetchSwitch,
         FetchVersion, FetchFeatures, FetchAnswer

LEMMA LlmInitially == ASSUME LlmInit PROVE LlmInv
<1>. USE LlmAssumption
<1>1. LlmTypes
  BY DEF LlmInit, LlmTypes, LlmTypeOK, FeatureRow, NoRow, CallType
<1>2. ASSUME NEW q \in Call PROVE CallInv(q)
  BY DEF LlmInit, CallInv, Works, Holds, StillRead, Fetches, NoCall, FeatureKind
<1>3. CachedBefore /\ UsageExact /\ CachedFeaturesCurrent
  <2>1. cached.version = MaxVersion + 1 /\ version = 0 /\ MaxVersion \in Nat
    BY DEF LlmInit
  <2>2. CachedBefore /\ CachedFeaturesCurrent
    BY <2>1 DEF CachedBefore, CachedFeaturesCurrent
  <2>3. UsageExact
    BY DEF LlmInit, UsageExact, NoRow
  <2>. QED
    BY <2>2, <2>3
<1>4. DecisionsStand
  BY DecisionsApart DEF LlmInit, DecisionsStand, NoRow, Decision
<1>. QED
  BY <1>1, <1>2, <1>3, <1>4 DEF LlmInv

\* A step that changes nothing but its own call and the rows that call holds.
LEMMA QuietStep ==
    ASSUME LlmInv, NEW q \in Call, NEW r \in CallType, calls' = [calls EXCEPT ![q] = r],
           UNCHANGED <<service, features, version, cached, reported, decided, contested>>,
           holder' \in [Feature -> Call \cup {Nobody}],
           \A o \in Call \ {q}, f \in Feature : holder[f] = o => holder'[f] = o,
           CallInv(q)'
    PROVE  LlmInv'
<1>1. LlmTypes'
  BY DEF LlmInv, LlmTypes, LlmTypeOK
<1>2. ASSUME NEW o \in Call, o # q PROVE CallInv(o)'
  <2>1. calls'[o] = calls[o] /\ CallInv(o) /\ calls[o] \in CallType
    BY <1>2 DEF LlmInv, LlmTypes
  <2>2. calls[o].kind \in FeatureKind => calls[o].of \in Feature
    BY <2>1, CallFields DEF ReadCall, FlushedCall
  <2>3. Holds(o)'
    BY <1>2, <2>1, <2>2 DEF CallInv, Holds
  <2>. QED
    BY <2>1, <2>3 DEF CallInv, Works, StillRead, Fetches
<1>3. CachedBefore' /\ UsageExact' /\ DecisionsStand' /\ CachedFeaturesCurrent'
  BY DEF LlmInv, CachedBefore, UsageExact, DecisionsStand, CachedFeaturesCurrent
<1>. QED
  BY <1>1, <1>2, <1>3 DEF LlmInv

LEMMA EndCallHolder ==
    ASSUME LlmTypes, NEW q \in Call, EndCall(q)
    PROVE  /\ NoCall \in CallType /\ calls' = [calls EXCEPT ![q] = NoCall]
           /\ holder' \in [Feature -> Call \cup {Nobody}]
           /\ \A o \in Call \ {q}, f \in Feature : holder[f] = o => holder'[f] = o
           /\ calls'[q] = NoCall /\ \A o \in Call \ {q} : calls'[o] = calls[o]
  BY DEF LlmTypes, LlmTypeOK, EndCall, Become, CallType

\* Steps that only read.
LEMMA AbortCallStep == ASSUME LlmInv, NEW q \in Call, AbortCall(q) PROVE LlmInv'
<1>1. CallInv(q)'
  BY EndCallHolder DEF LlmInv, AbortCall, CallInv, Works, Holds, StillRead, Fetches, NoCall, FeatureKind
<1>. QED
  BY <1>1, QuietStep, EndCallHolder DEF LlmInv, AbortCall

LEMMA ToggleStep ==
    ASSUME LlmInv, NEW q \in Call, NEW value \in BOOLEAN,
           ToggleService(q, value) \/ \E f \in Feature : ToggleFeature(q, f, value)
    PROVE  LlmInv'
<1>1. CASE ToggleService(q, value)
  <2>. DEFINE r == [kind |-> "service", on |-> ServiceSwitch, value |-> value, row |-> service]
  <2>1. r \in CallType
    BY DEF CallType, ServiceCall, LlmInv, LlmTypes, LlmTypeOK
  <2>2. calls' = [calls EXCEPT ![q] = r] /\ calls'[q] = r
    BY <1>1 DEF ToggleService, Become, LlmInv, LlmTypes
  <2>3. CallInv(q)'
    BY <1>1, <2>2 DEF ToggleService, CallInv, Works, Holds, StillRead, Fetches, FeatureKind
  <2>. QED
    BY <1>1, <2>1, <2>2, <2>3, QuietStep DEF ToggleService, LlmInv, LlmTypes, LlmTypeOK
<1>2. ASSUME NEW f \in Feature, ToggleFeature(q, f, value) PROVE LlmInv'
  <2>. DEFINE r == [kind |-> "feature", of |-> f, on |-> FeatureSwitch(f), value |-> value, row |-> features[f]]
  <2>1. r \in CallType
    BY DecisionsApart DEF CallType, FeatureCall, LlmInv, LlmTypes, LlmTypeOK
  <2>2. calls' = [calls EXCEPT ![q] = r] /\ calls'[q] = r
    BY <1>2 DEF ToggleFeature, Become, LlmInv, LlmTypes
  <2>3. CallInv(q)'
    BY <1>2, <2>2 DEF ToggleFeature, CallInv, Works, Holds, StillRead, Fetches, FeatureKind
  <2>. QED
    BY <1>2, <2>1, <2>2, <2>3, QuietStep DEF ToggleFeature, LlmInv, LlmTypes, LlmTypeOK
<1>. QED
  BY <1>1, <1>2

LEMMA LookUpStep ==
    ASSUME LlmInv, NEW q \in Call, NEW f \in Feature,
           \/ \E allowed \in Allowed : SetPolicy(q, f, allowed)
           \/ Register(q, f) \/ Report(q, f)
    PROVE  LlmInv'
<1>1. PICK kind \in FeatureKind, value \in Allowed \cup {0, 1} :
          /\ LookUp(q, kind, f, value)
          /\ kind = "policy" => value \in Allowed
          /\ kind = "usage" => value = 1
  BY DEF SetPolicy, Register, Report, FeatureKind
<1>. DEFINE r == [kind |-> kind, of |-> f, on |-> IF kind = "policy" THEN FeatureLists(f) ELSE <<>>,
                  value |-> value, row |-> features[f], step |-> "read"]
<1>2. r \in CallType
  BY DecisionsApart DEF CallType, ReadCall, LlmInv, LlmTypes, LlmTypeOK
<1>3. calls' = [calls EXCEPT ![q] = r] /\ calls'[q] = r
  BY <1>1 DEF LookUp, Become, LlmInv, LlmTypes
<1>4. CallInv(q)'
  BY <1>1, <1>3 DEF LookUp, CallInv, Works, Holds, StillRead, Fetches, FeatureKind
<1>. QED
  BY <1>1, <1>2, <1>3, <1>4, QuietStep DEF LookUp, LlmInv, LlmTypes, LlmTypeOK

\* The flush takes the row, which nobody held, and reads the usage under it.
LEMMA FlushStep == ASSUME LlmInv, NEW q \in Call, Flush(q) PROVE LlmInv'
<1>. DEFINE c == calls[q]
            r == [kind |-> c.kind, of |-> c.of, on |-> c.on, value |-> c.value, row |-> c.row,
                  step |-> "flushed", usage |-> features[c.of].usage]
<1>1. c \in ReadCall
  BY CallFields DEF Flush, LlmInv, LlmTypes, FeatureKind
<1>2. r \in CallType
  BY <1>1 DEF CallType, ReadCall, FlushedCall, LlmInv, LlmTypes, LlmTypeOK, FeatureRow
<1>3. calls' = [calls EXCEPT ![q] = r] /\ calls'[q] = r
  BY DEF Flush, Become, LlmInv, LlmTypes
<1>4. holder[c.of] = Nobody /\ holder' = [holder EXCEPT ![c.of] = q] /\ c.of \in Feature
  BY <1>1 DEF Flush, Lock, ReadCall
<1>5. CallInv(q)'
  <2>1. Works(q)' /\ StillRead(q)' /\ Fetches(q)'
    BY <1>1, <1>3 DEF Flush, LlmInv, CallInv, Works, StillRead, Fetches, ReadCall, FeatureKind
  <2>2. Holds(q)'
    BY <1>3, <1>4 DEF Flush, Holds, LlmInv, LlmTypes, LlmTypeOK
  <2>. QED
    BY <2>1, <2>2 DEF CallInv
<1>6. \A o \in Call \ {q}, f \in Feature : holder[f] = o => holder'[f] = o
  BY <1>4, LlmAssumption DEF LlmInv, LlmTypes, LlmTypeOK
<1>7. holder' \in [Feature -> Call \cup {Nobody}]
  BY <1>4 DEF LlmInv, LlmTypes, LlmTypeOK
<1>. QED
  BY <1>2, <1>3, <1>5, <1>6, <1>7, QuietStep DEF Flush

\* The reads of the policy, in their order: each remembers what is committed by then.
LEMMA ReadStep ==
    ASSUME LlmInv, NEW q \in Call,
           NEW r \in FetchSwitch \cup FetchVersion \cup FetchFeatures \cup FetchAnswer, Become(q, r),
           r.step \in {"features", "answer"} => r.version <= version,
           r.step = "answer" => r.service = service.enabled,
           UNCHANGED <<service, features, version, holder, cached, reported, decided, contested>>
    PROVE  LlmInv'
<1>1. r \in CallType /\ r.kind = "fetch" /\ calls' = [calls EXCEPT ![q] = r] /\ calls'[q] = r
  BY DEF CallType, FetchSwitch, FetchVersion, FetchFeatures, FetchAnswer, Become, LlmInv, LlmTypes
<1>2. CallInv(q)'
  BY <1>1 DEF CallInv, Works, Holds, StillRead, Fetches, FeatureKind
<1>. QED
  BY <1>1, <1>2, QuietStep DEF LlmInv, LlmTypes, LlmTypeOK

LEMMA ReadingStep ==
    ASSUME LlmInv, NEW q \in Call, FetchPolicy(q) \/ ReadSwitch(q) \/ ReadVersion(q) \/ ReadServiceAgain(q)
    PROVE  LlmInv'
<1>. USE DEF LlmInv, LlmTypes, LlmTypeOK
<1>. DEFINE c == calls[q]
            switch == [kind |-> "fetch", on |-> <<>>, step |-> "switch"]
            counted == [kind |-> "fetch", on |-> <<>>, step |-> "version", llm_enabled |-> service.enabled]
            read == [kind |-> "fetch", on |-> <<>>, step |-> "features", llm_enabled |-> c.llm_enabled,
                     version |-> version]
            again == [kind |-> "fetch", on |-> <<>>, step |-> "answer", llm_enabled |-> c.llm_enabled,
                      version |-> c.version, service |-> service.enabled]
<1>1. CASE FetchPolicy(q)
  <2>1. switch \in FetchSwitch
    BY DEF FetchSwitch
  <2>. QED
    BY <1>1, <2>1, ReadStep DEF FetchPolicy
<1>2. CASE ReadSwitch(q)
  <2>1. counted \in FetchVersion
    BY DEF FetchVersion
  <2>. QED
    BY <1>2, <2>1, ReadStep DEF ReadSwitch
<1>3. CASE ReadVersion(q)
  <2>1. c \in FetchVersion
    BY <1>3, CallFields DEF ReadVersion
  <2>2. read \in FetchFeatures /\ read.version <= version
    BY <2>1 DEF FetchVersion, FetchFeatures
  <2>. QED
    BY <1>3, <2>2, ReadStep DEF ReadVersion
<1>4. CASE ReadServiceAgain(q)
  <2>1. c \in FetchFeatures /\ c.version <= version
    BY <1>4, CallFields DEF ReadServiceAgain, CallInv, Fetches
  <2>2. again \in FetchAnswer /\ again.version <= version /\ again.service = service.enabled
    BY <2>1 DEF FetchFeatures, FetchAnswer
  <2>. QED
    BY <1>4, <2>2, ReadStep DEF ReadServiceAgain
<1>. QED
  BY <1>1, <1>2, <1>3, <1>4

\* A commit of an administrator's decision: whoever else was taking it makes it contested,
\* and every answer under way, and the cached one, are of an older version.
LEMMA DecisionStep ==
    ASSUME LlmInv, NEW q \in Call, NEW d \in Decision, Decide(q, d), EndCall(q),
           version < MaxVersion, version' = version + 1, UNCHANGED <<cached, reported>>,
           service' \in [exists : BOOLEAN, enabled : BOOLEAN], features' \in [Feature -> FeatureRow],
           d # ServiceSwitch => service'.enabled = service.enabled,
           d = ServiceSwitch /\ d \notin contested => service'.enabled = calls[q].value,
           \A f \in Feature :
               /\ features'[f].usage = features[f].usage
               /\ d # FeatureSwitch(f) => features'[f].enabled = features[f].enabled
               /\ d = FeatureSwitch(f) /\ d \notin contested => features'[f].enabled = calls[q].value
               /\ d # FeatureLists(f) => features'[f].allowed = features[f].allowed
               /\ d = FeatureLists(f) /\ d \notin contested => features'[f].allowed = calls[q].value
    PROVE  LlmInv'
<1>. USE LlmAssumption
<1>1. LlmTypes
  BY DEF LlmInv
<1>2. /\ contested \subseteq contested' /\ contested' \subseteq Decision
      /\ \A o \in Call \ {q} : calls[o].on = d => d \in contested'
      /\ decided' = [decided EXCEPT ![d] = calls[q].value]
  BY <1>1 DEF Decide, LlmTypes, LlmTypeOK
<1>3. decided'[d] = calls[q].value /\ \A e \in Decision \ {d} : decided'[e] = decided[e]
  BY <1>1, <1>2 DEF LlmTypes
<1>4. version \in 0 .. MaxVersion /\ version' \in 0 .. MaxVersion
  BY <1>1 DEF LlmTypes, LlmTypeOK
<1>5. LlmTypes'
  <2>1. calls' \in [Call -> CallType] /\ holder' \in [Feature -> Call \cup {Nobody}]
    BY <1>1, EndCallHolder DEF LlmTypes
  <2>2. DOMAIN decided' = Decision /\ decided' = [e \in Decision |-> decided'[e]]
    BY <1>1, <1>2 DEF LlmTypes
  <2>. QED
    BY <1>1, <1>2, <1>4, <2>1, <2>2 DEF LlmTypes, LlmTypeOK
<1>6. ASSUME NEW o \in Call PROVE CallInv(o)'
  <2>1. CASE o = q
    BY <1>1, <2>1, EndCallHolder DEF CallInv, Works, Holds, StillRead, Fetches, NoCall, FeatureKind
  <2>2. CASE o # q
    <3>1. calls'[o] = calls[o] /\ CallInv(o) /\ calls[o] \in CallType
      BY <1>1, <2>2, EndCallHolder DEF LlmInv, LlmTypes
    <3>2. calls[o].kind \in FeatureKind => calls[o].of \in Feature
      BY <3>1, CallFields DEF ReadCall, FlushedCall
    <3>3. Holds(o)'
      BY <1>1, <2>2, <3>1, <3>2, EndCallHolder DEF CallInv, Holds
    <3>4. StillRead(o)'
      <4>1. CASE calls[o].on \in contested'
        BY <3>1, <4>1 DEF StillRead
      <4>2. CASE calls[o].on \notin contested'
        <5>1. calls[o].on # d /\ calls[o].on \notin contested
          BY <1>2, <2>2, <4>2
        <5>2. calls[o].kind = "service" => calls[o].on = ServiceSwitch
          BY <3>1, CallFields DEF ServiceCall
        <5>3. calls[o].kind = "feature" => calls[o].of \in Feature
          BY <3>1, CallFields DEF FeatureCall
        <5>. QED
          BY <3>1, <3>2, <5>1, <5>2, <5>3 DEF CallInv, Works, StillRead, FeatureKind
      <4>. QED
        BY <4>1, <4>2
    <3>5. Fetches(o)'
      <4>1. calls[o].kind = "fetch" /\ calls[o].step \in {"features", "answer"} => calls[o].version \in Nat
        BY <3>1, CallFields DEF FetchFeatures, FetchAnswer
      <4>. QED
        BY <1>4, <3>1, <4>1 DEF CallInv, Fetches
    <3>. QED
      BY <3>1, <3>3, <3>4, <3>5 DEF CallInv, Works
  <2>. QED
    BY <2>1, <2>2
<1>7. CachedBefore' /\ CachedFeaturesCurrent'
  <2>1. cached.version \in 0 .. version \cup {MaxVersion + 1}
    BY DEF LlmInv, CachedBefore
  <2>2. cached.version # version' /\ cached.version \in 0 .. version' \cup {MaxVersion + 1}
    BY <1>4, <2>1
  <2>. QED
    BY <2>2 DEF LlmInv, CachedBefore, CachedFeaturesCurrent
<1>8. UsageExact'
  BY DEF LlmInv, UsageExact
<1>9. DecisionsStand'
  BY <1>2, <1>3, DecisionsApart DEF LlmInv, DecisionsStand
<1>. QED
  BY <1>5, <1>6, <1>7, <1>8, <1>9 DEF LlmInv

LEMMA CommitServiceStep == ASSUME LlmInv, NEW q \in Call, CommitService(q) PROVE LlmInv'
<1>1. calls[q] \in ServiceCall
  BY CallFields DEF CommitService, LlmInv, LlmTypes
<1>2. ServiceSwitch \notin contested => calls[q].row.enabled = service.enabled
  BY <1>1 DEF CommitService, LlmInv, CallInv, StillRead, ServiceCall
<1>3. ServiceSwitch \in Decision /\ \A f \in Feature : ServiceSwitch # FeatureSwitch(f) /\ ServiceSwitch # FeatureLists(f)
  <2>1. ServiceSwitch \in Decision
    BY DEF Decision
  <2>. QED
    BY <2>1, DecisionsApart
<1>4. service' \in [exists : BOOLEAN, enabled : BOOLEAN]
  BY <1>1 DEF CommitService, ServiceCall, LlmInv, LlmTypes, LlmTypeOK
<1>5. ServiceSwitch \notin contested => service'.enabled = calls[q].value
  BY <1>2 DEF CommitService
<1>6. features' = features /\ features' \in [Feature -> FeatureRow]
  BY DEF CommitService, LlmInv, LlmTypes, LlmTypeOK
<1>. QED
  BY <1>3, <1>4, <1>5, <1>6, DecisionStep DEF CommitService

LEMMA CommitFeatureStep == ASSUME LlmInv, NEW q \in Call, CommitFeature(q) PROVE LlmInv'
<1>. DEFINE f == calls[q].of
            d == FeatureSwitch(f)
<1>1. calls[q] \in FeatureCall /\ f \in Feature
  BY CallFields DEF CommitFeature, LlmInv, LlmTypes, FeatureCall
<1>2. d \notin contested => calls[q].row.enabled = features[f].enabled
  BY DEF CommitFeature, LlmInv, CallInv, Works, StillRead
<1>3. /\ d \in Decision /\ d # ServiceSwitch
      /\ \A g \in Feature : d # FeatureLists(g) /\ (d = FeatureSwitch(g) => g = f)
  BY <1>1, DecisionsApart
<1>4. /\ features' \in [Feature -> FeatureRow]
      /\ \A g \in Feature : /\ features'[g].usage = features[g].usage
                            /\ features'[g].allowed = features[g].allowed
                            /\ g # f => features'[g].enabled = features[g].enabled
      /\ d \notin contested => features'[f].enabled = calls[q].value
  BY <1>1, <1>2 DEF CommitFeature, FeatureCall, FeatureRow, LlmInv, LlmTypes, LlmTypeOK
<1>5. service' = service /\ service' \in [exists : BOOLEAN, enabled : BOOLEAN]
  BY DEF CommitFeature, LlmInv, LlmTypes, LlmTypeOK
<1>. HIDE DEF f, d
<1>. QED
  BY <1>1, <1>3, <1>4, <1>5, DecisionStep DEF CommitFeature, f, d

LEMMA CommitPolicyStep == ASSUME LlmInv, NEW q \in Call, CommitPolicy(q) PROVE LlmInv'
<1>. DEFINE f == calls[q].of
            d == FeatureLists(f)
<1>1. calls[q] \in FlushedCall /\ f \in Feature /\ calls[q].value \in Allowed
  BY CallFields DEF CommitPolicy, Flushed, LlmInv, LlmTypes, CallInv, Works, FlushedCall, FeatureKind
<1>2. d \notin contested => calls[q].row.allowed = features[f].allowed
  BY DEF CommitPolicy, Flushed, LlmInv, CallInv, Works, StillRead
<1>3. /\ d \in Decision /\ d # ServiceSwitch
      /\ \A g \in Feature : d # FeatureSwitch(g) /\ (d = FeatureLists(g) => g = f)
  BY <1>1, DecisionsApart
<1>4. /\ features' \in [Feature -> FeatureRow]
      /\ \A g \in Feature : /\ features'[g].usage = features[g].usage
                            /\ features'[g].enabled = features[g].enabled
                            /\ g # f => features'[g].allowed = features[g].allowed
      /\ d \notin contested => features'[f].allowed = calls[q].value
  <2>1. features[f] \in FeatureRow /\ features \in [Feature -> FeatureRow]
    BY <1>1 DEF LlmInv, LlmTypes, LlmTypeOK
  <2>2. features' = [features EXCEPT ![f] = [features[f] EXCEPT !.exists = TRUE,
                        !.allowed = IF calls[q].value = calls[q].row.allowed THEN features[f].allowed
                                    ELSE calls[q].value]]
    BY <2>1 DEF CommitPolicy, FeatureRow
  <2>. QED
    BY <1>1, <1>2, <2>1, <2>2 DEF FeatureRow
<1>5. service' = service /\ service' \in [exists : BOOLEAN, enabled : BOOLEAN]
  BY DEF CommitPolicy, LlmInv, LlmTypes, LlmTypeOK
<1>6. /\ Decide(q, d) /\ EndCall(q)
      /\ version < MaxVersion /\ version' = version + 1 /\ UNCHANGED <<cached, reported>>
  BY DEF CommitPolicy
<1>. HIDE DEF f, d
<1>7. \A g \in Feature :
          /\ d # FeatureLists(g) => features'[g].allowed = features[g].allowed
          /\ d = FeatureLists(g) /\ d \notin contested => features'[g].allowed = calls[q].value
  BY <1>1, <1>3, <1>4 DEF d
<1>. QED
  BY <1>3, <1>4, <1>5, <1>6, <1>7, DecisionStep

\* A commit of the service's own: it leaves what administrators decide, and the usage of
\* every feature whose row it does not hold.
LEMMA OwnStep ==
    ASSUME LlmInv, NEW q \in Call, NEW f \in Feature, NEW r \in {NoCall} \cup FetchSwitch, Become(q, r),
           holder[f] = q, holder' \in [Feature -> Call \cup {Nobody}],
           \A o \in Call \ {q}, g \in Feature : holder[g] = o => holder'[g] = o,
           features' \in [Feature -> FeatureRow],
           \A g \in Feature : /\ features'[g].enabled = features[g].enabled
                              /\ features'[g].allowed = features[g].allowed
                              /\ g # f => features'[g].usage = features[g].usage,
           reported' \in [Feature -> Nat], UsageExact',
           UNCHANGED <<service, version, cached, decided, contested>>
    PROVE  LlmInv'
<1>1. LlmTypes /\ r \in CallType /\ calls' = [calls EXCEPT ![q] = r] /\ calls'[q] = r
  BY DEF LlmInv, LlmTypes, CallType, Become
<1>2. LlmTypes'
  BY <1>1 DEF LlmTypes, LlmTypeOK
<1>3. CallInv(q)'
  BY <1>1 DEF CallInv, Works, Holds, StillRead, Fetches, FeatureKind, NoCall, FetchSwitch
<1>4. ASSUME NEW o \in Call, o # q PROVE CallInv(o)'
  <2>1. calls'[o] = calls[o] /\ CallInv(o) /\ calls[o] \in CallType
    BY <1>1, <1>4 DEF LlmInv, LlmTypes
  <2>2. /\ calls[o].kind \in FeatureKind => calls[o].of \in Feature
        /\ calls[o].kind = "feature" => calls[o].of \in Feature
    BY <2>1, CallFields DEF ReadCall, FlushedCall, FeatureCall
  <2>3. Holds(o)'
    BY <1>4, <2>1, <2>2 DEF CallInv, Holds
  <2>4. StillRead(o)'
    BY <2>1, <2>2 DEF CallInv, StillRead, FeatureKind
  <2>. QED
    BY <2>1, <2>3, <2>4 DEF CallInv, Works, Fetches
<1>5. CachedBefore' /\ DecisionsStand' /\ CachedFeaturesCurrent'
  <2>1. CachedBefore' /\ DecisionsStand'
    BY DEF LlmInv, CachedBefore, DecisionsStand
  <2>2. CachedFeaturesCurrent'
    <3>1. cached.version = version => DOMAIN cached.features \subseteq Feature
      BY LlmAssumption DEF LlmInv, LlmTypes, LlmTypeOK, CachedBefore
    <3>2. ASSUME cached.version = version, NEW g \in DOMAIN cached.features
          PROVE  cached.features[g] = [enabled |-> service.enabled /\ features'[g].enabled,
                                       allowed |-> features'[g].allowed]
      BY <3>1, <3>2 DEF LlmInv, CachedFeaturesCurrent
    <3>. QED
      BY <3>2 DEF CachedFeaturesCurrent
  <2>. QED
    BY <2>1, <2>2
<1>. QED
  BY <1>2, <1>3, <1>4, <1>5 DEF LlmInv

LEMMA CommitRegisterStep == ASSUME LlmInv, NEW q \in Call, CommitRegister(q) PROVE LlmInv'
<1>. DEFINE f == calls[q].of
            r == [kind |-> "fetch", on |-> <<>>, step |-> "switch"]
<1>1. f \in Feature /\ holder[f] = q
  BY CallFields DEF CommitRegister, Flushed, LlmInv, LlmTypes, CallInv, Holds, FlushedCall, FeatureKind
<1>2. /\ features' \in [Feature -> FeatureRow]
      /\ \A g \in Feature : /\ features'[g].enabled = features[g].enabled
                            /\ features'[g].allowed = features[g].allowed
                            /\ features'[g].usage = features[g].usage
  <2>1. features[f] \in FeatureRow /\ features \in [Feature -> FeatureRow]
    BY <1>1 DEF LlmInv, LlmTypes, LlmTypeOK
  <2>2. features' = [features EXCEPT ![f] = [features[f] EXCEPT !.exists = TRUE]]
    BY DEF CommitRegister, Declared
  <2>. QED
    BY <1>1, <2>1, <2>2 DEF FeatureRow
<1>3. /\ holder' \in [Feature -> Call \cup {Nobody}]
      /\ \A o \in Call \ {q}, g \in Feature : holder[g] = o => holder'[g] = o
  BY <1>1 DEF CommitRegister, LlmInv, LlmTypes, LlmTypeOK
<1>4. reported' = reported /\ reported' \in [Feature -> Nat] /\ UsageExact'
  BY <1>2 DEF CommitRegister, LlmInv, LlmTypes, UsageExact
<1>5. r \in FetchSwitch /\ Become(q, r)
  BY DEF CommitRegister, FetchSwitch
<1>. HIDE DEF f, r
<1>. QED
  BY <1>1, <1>2, <1>3, <1>4, <1>5, OwnStep DEF CommitRegister

\* The usage it adds to is the one it read under the row it holds.
LEMMA CommitUsageStep == ASSUME LlmInv, NEW q \in Call, CommitUsage(q) PROVE LlmInv'
<1>. DEFINE f == calls[q].of
<1>1. f \in Feature /\ holder[f] = q /\ calls[q].usage = features[f].usage /\ calls[q].value = 1
  BY CallFields DEF CommitUsage, Flushed, LlmInv, LlmTypes, CallInv, Holds, Works, FlushedCall, FeatureKind
<1>2. features[f].usage = reported[f] /\ reported[f] \in Nat /\ reported[f] < MaxReports
  BY <1>1 DEF CommitUsage, LlmInv, LlmTypes, UsageExact
<1>3. /\ features' = [features EXCEPT ![f] = [Declared(calls[q], features[f]) EXCEPT !.usage = features[f].usage + 1]]
      /\ reported' = [reported EXCEPT ![f] = reported[f] + 1]
  BY <1>1 DEF CommitUsage
<1>4. /\ features' \in [Feature -> FeatureRow]
      /\ \A g \in Feature : /\ features'[g].enabled = features[g].enabled
                            /\ features'[g].allowed = features[g].allowed
                            /\ g # f => features'[g].usage = features[g].usage
      /\ features'[f].usage = features[f].usage + 1
  <2>1. features[f] \in FeatureRow /\ features \in [Feature -> FeatureRow]
    BY <1>1 DEF LlmInv, LlmTypes, LlmTypeOK
  <2>2. features' = [features EXCEPT ![f] = [[features[f] EXCEPT !.exists = TRUE]
                                                EXCEPT !.usage = features[f].usage + 1]]
    BY <1>3 DEF Declared
  <2>3. features[f].usage + 1 \in 0 .. MaxReports
    BY <1>2, LlmAssumption
  <2>. QED
    BY <1>1, <2>1, <2>2, <2>3 DEF FeatureRow
<1>5. reported' \in [Feature -> Nat] /\ UsageExact'
  BY <1>1, <1>2, <1>3, <1>4 DEF LlmInv, LlmTypes, UsageExact
<1>6. LlmTypes /\ EndCall(q)
  BY DEF LlmInv, CommitUsage
<1>. HIDE DEF f
<1>. QED
  BY <1>1, <1>4, <1>5, <1>6, EndCallHolder, OwnStep DEF CommitUsage, EndCall

\* The answer: whatever was committed between its reads, the version it carries was
\* counted before.
LEMMA AnswerPolicyStep == ASSUME LlmInv, NEW q \in Call, AnswerPolicy(q) PROVE LlmInv'
<1>. USE LlmAssumption
<1>. DEFINE r == calls[q]
<1>1. r \in FetchAnswer /\ r.version <= version /\ (r.version = version => r.service = service.enabled)
  BY CallFields DEF AnswerPolicy, LlmInv, LlmTypes, CallInv, Fetches
<1>2. cached'.version = r.version /\ cached'.features = EffectivePolicy(r.service)
  BY DEF AnswerPolicy, VersionRead
<1>3. version \in Nat /\ r.version \in 0 .. version
  BY <1>1 DEF LlmInv, LlmTypes, LlmTypeOK, FetchAnswer
<1>4. DOMAIN cached'.features \subseteq Feature
  BY <1>2 DEF EffectivePolicy
<1>5. CachedBefore'
  BY <1>2, <1>3, <1>4 DEF AnswerPolicy, CachedBefore
<1>6. CachedFeaturesCurrent'
  BY <1>1, <1>2 DEF AnswerPolicy, EffectivePolicy, CachedFeaturesCurrent
<1>7. LlmTypes /\ EndCall(q)
  BY DEF LlmInv, AnswerPolicy
<1>8. LlmTypes'
  BY <1>7, EndCallHolder DEF AnswerPolicy, LlmTypes, LlmTypeOK
<1>9. ASSUME NEW o \in Call PROVE CallInv(o)'
  <2>1. CASE o = q
    BY <1>7, <2>1, EndCallHolder DEF CallInv, Works, Holds, StillRead, Fetches, NoCall, FeatureKind
  <2>2. CASE o # q
    <3>1. calls'[o] = calls[o] /\ CallInv(o) /\ calls[o] \in CallType
      BY <1>7, <2>2, EndCallHolder DEF LlmInv, LlmTypes
    <3>2. calls[o].kind \in FeatureKind => calls[o].of \in Feature
      BY <3>1, CallFields DEF ReadCall, FlushedCall
    <3>3. Holds(o)'
      BY <1>7, <2>2, <3>1, <3>2, EndCallHolder DEF AnswerPolicy, CallInv, Holds
    <3>. QED
      BY <3>1, <3>3 DEF AnswerPolicy, CallInv, Works, StillRead, Fetches
  <2>. QED
    BY <2>1, <2>2
<1>10. UsageExact' /\ DecisionsStand'
  BY DEF AnswerPolicy, LlmInv, UsageExact, DecisionsStand
<1>. QED
  BY <1>5, <1>6, <1>8, <1>9, <1>10 DEF LlmInv

LEMMA LlmStep == ASSUME LlmInv, [LlmNext]_llmVars PROVE LlmInv'
<1>1. CASE UNCHANGED llmVars
  BY <1>1
  DEF llmVars, LlmInv, LlmTypes, LlmTypeOK, CallInv, Works, Holds, StillRead, Fetches, CachedBefore,
      UsageExact, DecisionsStand, CachedFeaturesCurrent
<1>2. CASE LlmNext
  BY <1>2, AbortCallStep, ToggleStep, LookUpStep, FlushStep, ReadingStep, CommitServiceStep,
     CommitFeatureStep, CommitPolicyStep, CommitRegisterStep, CommitUsageStep, AnswerPolicyStep
  DEF LlmNext
<1>. QED
  BY <1>1, <1>2

LEMMA LlmAlways == LlmSpec => []LlmInv
  BY LlmInitially, LlmStep, PTL DEF LlmSpec

\* llm_control.py:86, for any number of features and requests: what is metered of a feature
\* is what was reported, because the upsert before it holds the feature's row.
THEOREM UsageAccumulated == LlmSpec => []UsageExact
  BY LlmAlways, PTL DEF LlmInv

\* routers/agent.py:246-247: no registration or report undoes what an administrator decided;
\* only another administrator deciding the same at the same time may.
THEOREM DecisionsKept == LlmSpec => []DecisionsStand
  BY LlmAlways, PTL DEF LlmInv

\* docs/15-llm-control-plane.md:57-59, of the features: what a service has cached under the
\* current version is current.
THEOREM FeaturesCurrent == LlmSpec => []CachedFeaturesCurrent
  BY LlmAlways, PTL DEF LlmInv
=============================================================================
