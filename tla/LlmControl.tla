------------------------------- MODULE LlmControl -------------------------------
(***************************************************************************)
(* The LLM control plane of one service: the service-wide switch and the   *)
(* features' switches and allow-lists that administrators set              *)
(* (routers/platform.py toggle_llm, toggle_feature, set_feature_policy),   *)
(* what the service declares, meters and fetches (routers/agent.py         *)
(* llm_register, llm_usage, llm_policy), and what they share               *)
(* (llm_control.py).  config_version is the number of llm.* audit rows,    *)
(* written in the transaction of the change they record.                   *)
(*                                                                         *)
(* A request reads its rows first.  get_or_create_feature flushes: that    *)
(* UPDATE (last_seen_at is always new) or INSERT holds the feature's row   *)
(* until the commit.  At the commit a column is written only where its new *)
(* value differs from the one in memory.                                   *)
(***************************************************************************)
EXTENDS Naturals

CONSTANTS
    Feature,
    Call,    \* bound: requests at once
    Allowed,    \* allow-lists of providers and models
    Open,       \* the empty list, no restriction
    Nobody,
    MaxVersion, \* bound: changes administrators make
    MaxReports  \* bound: reports of usage

ASSUME LlmAssumption == Open \in Allowed /\ Nobody \notin Call /\ {MaxVersion, MaxReports} \subseteq Nat

VARIABLES
    service,    \* llm_registrations: whether there is a row, and its switch
    features,   \* llm_features, with the usage of the day
    version,    \* llm.* audit rows
    holder,     \* the request that holds the row of each feature
    calls,
    cached,     \* the policy the service has cached, with its version
    reported,   \* history: usage reports committed for each feature
    decided,    \* history: what administrators last decided, of the service and each feature
    contested   \* history: the decisions two administrators were taking at once

llmVars == <<service, features, version, holder, calls, cached, reported, decided, contested>>

FeatureRow == [exists : BOOLEAN, enabled : BOOLEAN, allowed : Allowed, usage : 0 .. MaxReports]
NoRow == [exists |-> FALSE, enabled |-> TRUE, allowed |-> Open, usage |-> 0]
NoCall == [kind |-> "idle", on |-> <<>>]

\* What administrators decide: the service's switch, a feature's switch, its allow-lists.
ServiceSwitch == <<"service">>
FeatureSwitch(f) == <<"feature", f>>
FeatureLists(f) == <<"policy", f>>
Decision == {ServiceSwitch} \cup {FeatureSwitch(f) : f \in Feature} \cup {FeatureLists(f) : f \in Feature}

LlmInit ==
    /\ service = [exists |-> FALSE, enabled |-> TRUE]
    /\ features = [f \in Feature |-> NoRow]
    /\ version = 0
    /\ holder = [f \in Feature |-> Nobody]
    /\ calls = [q \in Call |-> NoCall]
    /\ cached = [version |-> MaxVersion + 1]
    /\ reported = [f \in Feature |-> 0]
    /\ decided = [d \in Decision |-> IF \E f \in Feature : d = FeatureLists(f) THEN Open ELSE TRUE]
    /\ contested = {}

Become(q, r) == calls' = [calls EXCEPT ![q] = r]

\* The transaction of q is over and its locks are gone.
EndCall(q) ==
    /\ Become(q, NoCall)
    /\ holder' = [f \in Feature |-> IF holder[f] = q THEN Nobody ELSE holder[f]]

\* A request dies, or is refused, with nothing written.
AbortCall(q) ==
    /\ calls[q] # NoCall
    /\ EndCall(q)
    /\ UNCHANGED <<service, features, version, cached, reported, decided, contested>>

-----------------------------------------------------------------------------
(* Administrators                                                          *)

\* The decision is recorded; another administrator may be about to take the same one.
Decide(q, d) ==
    /\ decided' = [decided EXCEPT ![d] = calls[q].value]
    /\ contested' = IF \E other \in Call \ {q} : calls[other].on = d
                    THEN contested \cup {d} ELSE contested

\* toggle_llm reads the registration; service_llm_enabled takes a missing one for "on".
ToggleService(q, value) ==
    /\ calls[q] = NoCall
    /\ Become(q, [kind |-> "service", on |-> ServiceSwitch, value |-> value, row |-> service])
    /\ UNCHANGED <<service, features, version, holder, cached, reported, decided, contested>>

\* Two requests that create the row conflict, and the second fails.
CommitService(q) ==
    LET r == calls[q] IN
    /\ r.kind = "service"
    /\ version < MaxVersion
    /\ r.row.exists \/ ~service.exists
    /\ service' = [exists |-> TRUE,
                   enabled |-> IF r.value = r.row.enabled THEN service.enabled ELSE r.value]
    /\ version' = version + 1
    /\ Decide(q, ServiceSwitch)
    /\ EndCall(q)
    /\ UNCHANGED <<features, cached, reported>>

\* toggle_feature reads the feature, which must be there.
ToggleFeature(q, f, value) ==
    /\ calls[q] = NoCall
    /\ features[f].exists
    /\ Become(q, [kind |-> "feature", of |-> f, on |-> FeatureSwitch(f), value |-> value, row |-> features[f]])
    /\ UNCHANGED <<service, features, version, holder, cached, reported, decided, contested>>

CommitFeature(q) ==
    LET r == calls[q] IN
    /\ r.kind = "feature"
    /\ version < MaxVersion
    /\ holder[r.of] = Nobody
    /\ features' = [features EXCEPT ![r.of].enabled = IF r.value = r.row.enabled THEN @ ELSE r.value]
    /\ version' = version + 1
    /\ Decide(q, FeatureSwitch(r.of))
    /\ EndCall(q)
    /\ UNCHANGED <<service, cached, reported>>

-----------------------------------------------------------------------------
(* get_or_create_feature, and the handlers that use it                     *)

\* It looks the feature up ...
LookUp(q, kind, f, value) ==
    /\ calls[q] = NoCall
    /\ Become(q, [kind |-> kind, of |-> f, on |-> IF kind = "policy" THEN FeatureLists(f) ELSE <<>>,
                  value |-> value, row |-> features[f], step |-> "read"])
    /\ UNCHANGED <<service, features, version, holder, cached, reported, decided, contested>>

SetPolicy(q, f, allowed) == LookUp(q, "policy", f, allowed)
Register(q, f) == LookUp(q, "register", f, 0)
Report(q, f) == LookUp(q, "usage", f, 1)

\* Mutant of Lock: the lookup is not flushed.
LockNothing(q, f) ==
    /\ calls[q].row.exists \/ ~features[f].exists
    /\ UNCHANGED holder

\* ... and flushes: an INSERT conflicts with a feature created meanwhile, an UPDATE waits.
Lock(q, f) ==
    /\ holder[f] = Nobody
    /\ calls[q].row.exists \/ ~features[f].exists
    /\ holder' = [holder EXCEPT ![f] = q]

\* record_feature_usage reads the row of the day after that.
Flush(q) ==
    LET r == calls[q] IN
    /\ r.kind \in {"policy", "register", "usage"} /\ r.step = "read"
    /\ Lock(q, r.of)
    /\ Become(q, [kind |-> r.kind, of |-> r.of, on |-> r.on, value |-> r.value, row |-> r.row,
                  step |-> "flushed", usage |-> features[r.of].usage])
    /\ UNCHANGED <<service, features, version, cached, reported, decided, contested>>

Flushed(q, kind) == calls[q].kind = kind /\ calls[q].step = "flushed"

CommitPolicy(q) ==
    LET r == calls[q] IN
    /\ Flushed(q, "policy")
    /\ version < MaxVersion
    /\ features' = [features EXCEPT ![r.of].exists = TRUE,
                                    ![r.of].allowed = IF r.value = r.row.allowed THEN @ ELSE r.value]
    /\ version' = version + 1
    /\ Decide(q, FeatureLists(r.of))
    /\ EndCall(q)
    /\ UNCHANGED <<service, cached, reported>>

\* Mutant of Declared: the feature is saved as it was read.
DeclaredWhole(r, row) == [r.row EXCEPT !.exists = TRUE, !.usage = row.usage]

\* Declaring changes what the service says it uses, and nothing administrators set.
Declared(r, row) == [row EXCEPT !.exists = TRUE]

\* llm_register goes on to answer with the policy.
CommitRegister(q) ==
    LET r == calls[q] IN
    /\ Flushed(q, "register")
    /\ features' = [features EXCEPT ![r.of] = Declared(r, @)]
    /\ Become(q, [kind |-> "fetch", on |-> <<>>, step |-> "switch"])
    /\ holder' = [holder EXCEPT ![r.of] = Nobody]
    /\ UNCHANGED <<service, version, cached, reported, decided, contested>>

CommitUsage(q) ==
    LET r == calls[q] IN
    /\ Flushed(q, "usage")
    /\ reported[r.of] < MaxReports
    /\ features' = [features EXCEPT ![r.of] = [Declared(r, @) EXCEPT !.usage = r.usage + r.value]]
    /\ reported' = [reported EXCEPT ![r.of] = @ + r.value]
    /\ EndCall(q)
    /\ UNCHANGED <<service, version, cached, decided, contested>>

-----------------------------------------------------------------------------
(* The policy a service fetches: three reads, each of what is committed    *)
(* by then                                                                 *)

FetchPolicy(q) ==
    /\ calls[q] = NoCall
    /\ Become(q, [kind |-> "fetch", on |-> <<>>, step |-> "switch"])
    /\ UNCHANGED <<service, features, version, holder, cached, reported, decided, contested>>

ReadSwitch(q) ==
    /\ calls[q].kind = "fetch" /\ calls[q].step = "switch"
    /\ Become(q, [kind |-> "fetch", on |-> <<>>, step |-> "version", llm_enabled |-> service.enabled])
    /\ UNCHANGED <<service, features, version, holder, cached, reported, decided, contested>>

\* Mutant of VersionRead: the version is counted last.
VersionLast(q) == version
VersionRead(q) == calls[q].version

ReadVersion(q) ==
    LET r == calls[q] IN
    /\ r.kind = "fetch" /\ r.step = "version"
    /\ Become(q, [kind |-> "fetch", on |-> <<>>, step |-> "features", llm_enabled |-> r.llm_enabled,
                  version |-> version])
    /\ UNCHANGED <<service, features, version, holder, cached, reported, decided, contested>>

\* _feature_policies reads the switch again, then the features.
ReadServiceAgain(q) ==
    LET r == calls[q] IN
    /\ r.kind = "fetch" /\ r.step = "features"
    /\ Become(q, [kind |-> "fetch", on |-> <<>>, step |-> "answer", llm_enabled |-> r.llm_enabled,
                  version |-> r.version, service |-> service.enabled])
    /\ UNCHANGED <<service, features, version, holder, cached, reported, decided, contested>>

\* feature_policy_dict: the effective switch is the service's and the feature's.
EffectivePolicy(serviceEnabled) ==
    [f \in {g \in Feature : features[g].exists} |->
        [enabled |-> serviceEnabled /\ features[f].enabled, allowed |-> features[f].allowed]]

\* The service caches the answer.
AnswerPolicy(q) ==
    LET r == calls[q] IN
    /\ r.kind = "fetch" /\ r.step = "answer"
    /\ cached' = [llm_enabled |-> r.llm_enabled, version |-> VersionRead(q),
                  features |-> EffectivePolicy(r.service)]
    /\ EndCall(q)
    /\ UNCHANGED <<service, features, version, reported, decided, contested>>

LlmNext == \E q \in Call :
    \/ AbortCall(q)
    \/ \E value \in BOOLEAN : ToggleService(q, value)
    \/ \E f \in Feature, value \in BOOLEAN : ToggleFeature(q, f, value)
    \/ \E f \in Feature, allowed \in Allowed : SetPolicy(q, f, allowed)
    \/ \E f \in Feature : Register(q, f) \/ Report(q, f)
    \/ CommitService(q) \/ CommitFeature(q) \/ CommitPolicy(q)
    \/ Flush(q) \/ CommitRegister(q) \/ CommitUsage(q)
    \/ FetchPolicy(q) \/ ReadSwitch(q) \/ ReadVersion(q) \/ ReadServiceAgain(q) \/ AnswerPolicy(q)

LlmSpec == LlmInit /\ [][LlmNext]_llmVars

-----------------------------------------------------------------------------
(* Properties                                                              *)

LlmTypeOK ==
    /\ service \in [exists : BOOLEAN, enabled : BOOLEAN]
    /\ features \in [Feature -> FeatureRow]
    /\ version \in 0 .. MaxVersion
    /\ holder \in [Feature -> Call \cup {Nobody}]
    /\ contested \subseteq Decision

\* llm_control.py:86, "Accumulated, never overwritten": unlike the service-wide counter of
\* the heartbeat, no report of a feature's usage is lost to another; the row of the feature
\* that get_or_create_feature happens to lock is what serialises them.
UsageExact == \A f \in Feature : features[f].usage = reported[f]

\* routers/agent.py:246-247: declaring and metering a feature "never resets the admin's
\* policy or kill switch", however stale the row they have read; only another
\* administrator taking the same decision at the same time may undo it (a column is not
\* written when it was read with the value it should get).
DecisionsStand == \A d \in Decision \ contested :
    /\ d = ServiceSwitch => service.enabled = decided[d]
    /\ \A f \in Feature : /\ d = FeatureSwitch(f) => features[f].enabled = decided[d]
                          /\ d = FeatureLists(f) => features[f].allowed = decided[d]

\* docs/15-llm-control-plane.md:57-59, of the features: as long as config_version has not
\* moved, what the service has cached of them is current, whatever was committed between
\* the reads of the answer.
CachedFeaturesCurrent ==
    cached.version = version =>
        \A f \in DOMAIN cached.features :
            cached.features[f] = [enabled |-> service.enabled /\ features[f].enabled,
                                  allowed |-> features[f].allowed]

\* The same of the service-wide switch.  It does not hold: llm_policy reads the switch
\* before it counts the version.
CachedSwitchCurrent == cached.version = version => cached.llm_enabled = service.enabled
=============================================================================
