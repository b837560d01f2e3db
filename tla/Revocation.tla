----------------------------- MODULE Revocation -----------------------------
(***************************************************************************)
(* How MM OS takes access away, end to end: the token handoff              *)
(* (backend routers/tokens.py), the transactions that remove access and    *)
(* publish revocation rows (routers/platform.py, authorization.py), the    *)
(* hourly purge and the snapshot feed (routers/agent.py), and the deny-    *)
(* list of every service that runs mmos-client (_denylist.py, _verify.py,  *)
(* core.py), with its lost polls, late answers and restarts.               *)
(*                                                                         *)
(* Time is one clock in ticks.  All containers run on one host             *)
(* (docs/04-auth-flow.md, "Clock skew"), so MM OS and the services read    *)
(* the same clock.  A second is `Sec` ticks: tokens carry whole seconds,   *)
(* revocation rows carry microseconds.                                     *)
(***************************************************************************)
EXTENDS Integers, FiniteSets

CONSTANTS
    User, Service, Role,
    Client,             \* the services that run mmos-client
    Persistent,         \* the clients given a state directory (StateStore)
    Jti,                \* token identifiers
    Global, NoJti,      \* service_id IS NULL; jti IS NULL
    Sec,                \* ticks in a second
    TTL,                \* service_token_ttl_seconds
    Skew,               \* clock_skew_seconds
    Retention,          \* _REVOCATION_TTL, 2 hours
    IdentityRetention,  \* 24 hours: revoke_identity, service_disabled
    MaxOffline,         \* max_offline_seconds
    SavedMaxAge,        \* the 900 of DenyList.__init__
    HttpTimeout,        \* how old an answer may be when it is merged
    Lifetimes,          \* how long a temporary grant lasts
    MaxTokens, MaxRevocations, MaxGrants, MaxPolls, MaxNow   \* bounds of a TLC run

ASSUME TimeAssumption ==
    /\ Sec \in Nat \ {0}
    /\ {TTL, Skew, Retention, IdentityRetention, MaxOffline, SavedMaxAge, HttpTimeout} \subseteq Nat
    /\ Lifetimes \subseteq Nat
    /\ {MaxTokens, MaxRevocations, MaxGrants, MaxPolls, MaxNow} \subseteq Nat

\* A row is kept until no live token can be covered by it.
ASSUME RetentionAssumption ==
    /\ Retention > TTL + Skew
    /\ IdentityRetention >= Retention

ASSUME NameAssumption ==
    /\ Client \subseteq Service
    /\ Persistent \subseteq Client
    /\ Global \notin Service
    /\ NoJti \notin Jti

VARIABLES
    now,        \* the clock
    grants,     \* grants table
    active,     \* users.is_active
    enabled,    \* services.is_active
    minting,    \* handoffs that have read the grants and not yet signed
    tokens,     \* tokens issued
    revoking,   \* access-removing transactions begun and not yet committed
    rows,       \* revocations table
    polls,      \* answers of the feed on their way to a client
    list,       \* DenyList of each client process
    saved,      \* the deny-list in the StateStore of each persistent client
    coldTried,  \* MMOS._cold_poll_attempted
    log         \* history: every committed subject revocation, never purged

vars == <<now, grants, active, enabled, minting, tokens, revoking, rows,
          polls, list, saved, coldTried, log>>

Forever == MaxNow + TTL + Sec      \* expires_at IS NULL: after every instant of a run

Floor(t) == t - (t % Sec)
Earlier(a, b) == IF a <= b THEN a ELSE b

Grant == [user: User, service: Service, role: Role, until: Nat]
Handoff == [sub: User, aud: Service, roles: SUBSET Role, until: Nat, read: Nat]
Token == [jti: Jti, sub: User, aud: Service, roles: SUBSET Role,
          iat: Nat, exp: Int, read: Nat]
Row == [sub: User, scope: Service \cup {Global}, jti: Jti \cup {NoJti},
        at: Nat, purge: Nat]
Entry == [sub: User, scope: Service \cup {Global}, at: Nat, committed: Nat]
Transaction == [subs: SUBSET User, scope: Service \cup {Global}, lost: SUBSET Grant,
                gained: SUBSET Grant, jtis: SUBSET Jti, at: Nat, keep: Nat,
                kills: BOOLEAN, disables: BOOLEAN]
Poller == {"timer", "cold"}
Snapshot == [enabled: BOOLEAN, subs: SUBSET [sub: User, at: Nat],
             jtis: SUBSET Jti, seen: SUBSET Entry]
Answer == [client: Client, by: Poller, asOf: Nat, snap: Snapshot]
DenyList == [synced: BOOLEAN, last: Nat, snap: Snapshot]

NoSnapshot == [enabled |-> TRUE, subs |-> {}, jtis |-> {}, seen |-> {}]
EmptyList == [synced |-> FALSE, last |-> 0, snap |-> NoSnapshot]

TypeOK ==
    /\ now \in Nat
    /\ grants \subseteq Grant
    /\ active \in [User -> BOOLEAN]
    /\ enabled \in [Service -> BOOLEAN]
    /\ minting \subseteq Handoff
    /\ tokens \subseteq Token
    /\ revoking \subseteq Transaction
    /\ rows \subseteq Row
    /\ polls \subseteq Answer
    /\ list \in [Client -> DenyList]
    /\ saved \in [Client -> DenyList]
    /\ coldTried \in [Client -> BOOLEAN]
    /\ log \subseteq Entry

Init ==
    /\ now = 0
    /\ grants = {}
    /\ active = [u \in User |-> TRUE]
    /\ enabled = [s \in Service |-> TRUE]
    /\ minting = {}
    /\ tokens = {}
    /\ revoking = {}
    /\ rows = {}
    /\ polls = {}
    /\ list = [c \in Client |-> EmptyList]
    /\ saved = [c \in Client |-> EmptyList]
    /\ coldTried = [c \in Client |-> FALSE]
    /\ log = {}

Tick ==
    /\ now < MaxNow
    /\ now' = now + 1
    /\ UNCHANGED <<grants, active, enabled, minting, tokens, revoking, rows,
                   polls, list, saved, coldTried, log>>

(***************************************************************************)
(* MM OS: grants and the token handoff.                                    *)
(***************************************************************************)
GrantsOf(u, s) == {g \in grants : g.user = u /\ g.service = s}

\* live_grants: the grants that have not expired.
LiveGrants(u, s) == {g \in GrantsOf(u, s) : g.until > now}

\* One grant per (user, service, role), whatever its expiry.
Unique(G) == \A g, h \in G : (g.user = h.user /\ g.service = h.service /\ g.role = h.role) => g = h

CreateGrant(u, s, r, until) ==
    /\ Cardinality(grants) < MaxGrants
    /\ \A g \in GrantsOf(u, s) : g.role # r
    /\ until > now
    /\ grants' = grants \cup {[user |-> u, service |-> s, role |-> r, until |-> until]}
    /\ UNCHANGED <<now, active, enabled, minting, tokens, revoking, rows,
                   polls, list, saved, coldTried, log>>

\* The handoff reads the session's user, the service and the live grants.
MintRead(u, s) ==
    /\ Cardinality(minting) + Cardinality(tokens) < MaxTokens
    /\ active[u] /\ enabled[s]
    /\ LiveGrants(u, s) # {}
    /\ \E until \in {g.until : g \in LiveGrants(u, s)} :
         /\ \A g \in LiveGrants(u, s) : until <= g.until
         /\ minting' = minting \cup
              {[sub |-> u, aud |-> s, roles |-> {g.role : g \in LiveGrants(u, s)},
                until |-> until, read |-> now]}
    /\ UNCHANGED <<now, grants, active, enabled, tokens, revoking, rows,
                   polls, list, saved, coldTried, log>>

\* mint_service_token, on the clock of the moment it signs; nothing is read again.
Signed(m, j) ==
    [jti |-> j, sub |-> m.sub, aud |-> m.aud, roles |-> m.roles,
     iat |-> Floor(now), exp |-> Earlier(Floor(now) + TTL, Floor(m.until)), read |-> m.read]

MintSign(m, j) ==
    /\ \A t \in tokens : t.jti # j
    /\ minting' = minting \ {m}
    /\ tokens' = tokens \cup {Signed(m, j)}
    /\ UNCHANGED <<now, grants, active, enabled, revoking, rows,
                   polls, list, saved, coldTried, log>>

(***************************************************************************)
(* MM OS: the transactions that remove access.  Each fixes its `at` when   *)
(* its handler reads the clock and makes everything visible at its commit. *)
(***************************************************************************)
Begin(tx) ==
    /\ Cardinality(revoking) + Cardinality(log) < MaxRevocations
    /\ revoking' = revoking \cup {tx}
    /\ UNCHANGED <<now, grants, active, enabled, minting, tokens, rows,
                   polls, list, saved, coldTried, log>>

\* delete_grant
DeleteGrant(g) ==
    Begin([subs |-> {g.user}, scope |-> g.service, lost |-> {g}, gained |-> {},
           jtis |-> {}, at |-> now, keep |-> Retention,
           kills |-> FALSE, disables |-> FALSE])

\* The grants that one role replaces, and the one it needs when it is not among those held.
Others(u, s, r) == {g \in GrantsOf(u, s) : g.role # r}
Wanted(u, s, r) ==
    IF Others(u, s, r) = GrantsOf(u, s)
    THEN {[user |-> u, service |-> s, role |-> r, until |-> Forever]} ELSE {}

\* Mutant of ReplaceRoles: the role change writes no revocation row.
ReplaceRolesSilently(u, s, r) ==
    /\ Others(u, s, r) # {}
    /\ Begin([subs |-> {}, scope |-> s, lost |-> Others(u, s, r),
              gained |-> Wanted(u, s, r), jtis |-> {}, at |-> now, keep |-> Retention,
              kills |-> FALSE, disables |-> FALSE])

\* batch_grants with replace, roles_io.assign_roles: one role instead of those held.
ReplaceRoles(u, s, r) ==
    /\ Others(u, s, r) # {}
    /\ Begin([subs |-> {u}, scope |-> s, lost |-> Others(u, s, r),
              gained |-> Wanted(u, s, r), jtis |-> {}, at |-> now, keep |-> Retention,
              kills |-> FALSE, disables |-> FALSE])

\* kill_user: revoke_identity's global row, plus one row per token issued within the TTL.
KillUser(u) ==
    Begin([subs |-> {u}, scope |-> Global, lost |-> {}, gained |-> {},
           jtis |-> {t.jti : t \in {x \in tokens : x.sub = u /\ x.read + TTL >= now}},
           at |-> now, keep |-> IdentityRetention, kills |-> TRUE, disables |-> FALSE])

\* patch_service with is_active false: everyone who holds a grant on it.
DisableService(s) ==
    /\ enabled[s]
    /\ Begin([subs |-> {g.user : g \in {x \in grants : x.service = s}}, scope |-> s,
              lost |-> {}, gained |-> {}, jtis |-> {}, at |-> now,
              keep |-> IdentityRetention, kills |-> FALSE, disables |-> TRUE])

SubjectRows(tx) ==
    {[sub |-> u, scope |-> tx.scope, jti |-> NoJti, at |-> tx.at, purge |-> tx.at + tx.keep] :
        u \in tx.subs}
TokenRows(tx) ==
    {[sub |-> t.sub, scope |-> t.aud, jti |-> t.jti, at |-> tx.at, purge |-> tx.at + Retention] :
        t \in {x \in tokens : x.jti \in tx.jtis}}
Entries(tx) ==
    {[sub |-> u, scope |-> tx.scope, at |-> tx.at, committed |-> now] : u \in tx.subs}

\* The mutation and its revocation rows become visible together.
Commit(tx) ==
    /\ Unique((grants \ tx.lost) \cup tx.gained)
    /\ revoking' = revoking \ {tx}
    /\ grants' = (grants \ tx.lost) \cup tx.gained
    /\ active' = [u \in User |-> active[u] /\ ~(tx.kills /\ u \in tx.subs)]
    /\ enabled' = [s \in Service |-> enabled[s] /\ ~(tx.disables /\ s = tx.scope)]
    /\ rows' = rows \cup SubjectRows(tx) \cup TokenRows(tx)
    /\ log' = log \cup Entries(tx)
    /\ UNCHANGED <<now, minting, tokens, polls, list, saved, coldTried>>

\* The request dies, or a constraint refuses it: nothing of it remains.
Rollback(tx) ==
    /\ revoking' = revoking \ {tx}
    /\ UNCHANGED <<now, grants, active, enabled, minting, tokens, rows,
                   polls, list, saved, coldTried, log>>

ActivateUser(u) ==
    /\ ~active[u]
    /\ active' = [active EXCEPT ![u] = TRUE]
    /\ UNCHANGED <<now, grants, enabled, minting, tokens, revoking, rows,
                   polls, list, saved, coldTried, log>>

EnableService(s) ==
    /\ ~enabled[s]
    /\ enabled' = [enabled EXCEPT ![s] = TRUE]
    /\ UNCHANGED <<now, grants, active, minting, tokens, revoking, rows,
                   polls, list, saved, coldTried, log>>

\* Mutant of Purge: a row is dropped with the token lifetime, forgetting the clock skew.
PurgeByLifetime ==
    /\ rows' = {r \in rows : r.at + TTL > now}
    /\ rows' # rows
    /\ UNCHANGED <<now, grants, active, enabled, minting, tokens, revoking,
                   polls, list, saved, coldTried, log>>

\* purge_expired_revocations
Purge ==
    /\ rows' = {r \in rows : r.purge > now}
    /\ rows' # rows
    /\ UNCHANGED <<now, grants, active, enabled, minting, tokens, revoking,
                   polls, list, saved, coldTried, log>>

(***************************************************************************)
(* The feed and the deny-list of a client.                                 *)
(***************************************************************************)
\* Mutants of FeedRows: the global rows forgotten, the service filter forgotten.
FeedRowsLocalOnly(c) == {r \in rows : r.purge > now /\ r.scope = c}
FeedRowsUnscoped(c) == {r \in rows : r.purge > now}

\* GET /api/agent/revocations: every retained row of the service or global.
FeedRows(c) == {r \in rows : r.purge > now /\ r.scope \in {c, Global}}

\* Mutant of Feed: the rows without a jti are not kept out of revoked_jti.
FeedUnsplit(c) ==
    [enabled |-> enabled[c],
     subs |-> {[sub |-> r.sub, at |-> r.at] : r \in {x \in FeedRows(c) : x.jti = NoJti}},
     jtis |-> {r.jti : r \in FeedRows(c)}, seen |-> log]

Feed(c) ==
    [enabled |-> enabled[c],
     subs |-> {[sub |-> r.sub, at |-> r.at] : r \in {x \in FeedRows(c) : x.jti = NoJti}},
     jtis |-> {r.jti : r \in {x \in FeedRows(c) : x.jti # NoJti}},
     seen |-> log]

\* The poller thread, and the one poll a request makes when nothing was ever merged.
PollRead(c, by) ==
    /\ Cardinality(polls) < MaxPolls
    /\ \A p \in polls : ~(p.client = c /\ p.by = by)
    /\ by = "cold" => ~list[c].synced /\ ~coldTried[c]
    /\ polls' = polls \cup {[client |-> c, by |-> by, asOf |-> now, snap |-> Feed(c)]}
    /\ coldTried' = [coldTried EXCEPT ![c] = @ \/ by = "cold"]
    /\ UNCHANGED <<now, grants, active, enabled, minting, tokens, revoking,
                   rows, list, saved, log>>

\* DenyList.merge of a snapshot replaces what was there.  StateStore.write may fail
\* and is then only logged.
PollMerge(p) ==
    /\ now - p.asOf <= HttpTimeout
    /\ polls' = polls \ {p}
    /\ list' = [list EXCEPT ![p.client] = [synced |-> TRUE, last |-> now, snap |-> p.snap]]
    /\ saved' \in {saved, [saved EXCEPT ![p.client] = list'[p.client]]}
    /\ p.client \notin Persistent => saved' = saved
    /\ UNCHANGED <<now, grants, active, enabled, minting, tokens, revoking,
                   rows, coldTried, log>>

\* A timeout or an error: the deny-list is left as it was.
PollFail(p) ==
    /\ polls' = polls \ {p}
    /\ UNCHANGED <<now, grants, active, enabled, minting, tokens, revoking,
                   rows, list, saved, coldTried, log>>

\* A new process loads the saved list when it is fresh, and starts empty otherwise.
Restart(c) ==
    /\ polls' = {p \in polls : p.client # c}
    /\ list' = [list EXCEPT ![c] =
                  IF saved[c].synced /\ now - saved[c].last <= SavedMaxAge
                  THEN saved[c] ELSE EmptyList]
    /\ coldTried' = [coldTried EXCEPT ![c] = FALSE]
    /\ UNCHANGED <<now, grants, active, enabled, minting, tokens, revoking,
                   rows, saved, log>>

\* DenyList.is_revoked.  The code keeps the latest `at` of a subject, which answers
\* as the set of them does.
IsRevoked(c, t) ==
    \/ ~list[c].snap.enabled
    \/ t.jti \in list[c].snap.jtis
    \/ \E e \in list[c].snap.subs : e.sub = t.sub /\ t.iat <= e.at

\* verify_token's time checks.
InTime(t) ==
    /\ now <= t.exp + Skew
    /\ t.iat < t.exp
    /\ t.exp - t.iat <= TTL
    /\ t.iat <= now + Skew

\* Mutant of HasAuthority: once merged, a list is good for ever.
HasAuthorityForever(c) == list[c].synced

\* MMOS._verify: the authority is recent enough to decide.
HasAuthority(c) == list[c].synced /\ now - list[c].last <= MaxOffline

Accepts(c, t) == t.aud = c /\ InTime(t) /\ HasAuthority(c) /\ ~IsRevoked(c, t)

Next ==
    \/ Tick
    \/ \E u \in User, s \in Service, r \in Role, d \in Lifetimes :
         CreateGrant(u, s, r, now + d)
    \/ \E u \in User, s \in Service, r \in Role : CreateGrant(u, s, r, Forever)
    \/ \E u \in User, s \in Service : MintRead(u, s)
    \/ \E m \in minting, j \in Jti : MintSign(m, j)
    \/ \E g \in grants : DeleteGrant(g)
    \/ \E u \in User, s \in Service, r \in Role : ReplaceRoles(u, s, r)
    \/ \E u \in User : KillUser(u) \/ ActivateUser(u)
    \/ \E s \in Service : DisableService(s) \/ EnableService(s)
    \/ \E tx \in revoking : Commit(tx) \/ Rollback(tx)
    \/ Purge
    \/ \E c \in Client, by \in Poller : PollRead(c, by)
    \/ \E p \in polls : PollMerge(p) \/ PollFail(p)
    \/ \E c \in Client : Restart(c)

Spec == Init /\ [][Next]_vars
-----------------------------------------------------------------------------
(***************************************************************************)
(* Properties.                                                             *)
(***************************************************************************)
InScope(r, t) == r.sub = t.sub /\ r.scope \in {t.aud, Global}

\* A revocation covers the subject's tokens issued at or before it.
Covers(r, t) == InScope(r, t) /\ t.iat <= r.at

\* Once a service has merged a feed answer read after a revocation committed, it accepts no
\* token the revocation covers: not after the row is purged, and not from a list reloaded at
\* a restart (_denylist.py, agent.py purge_expired_revocations).
SyncedRefuses ==
    \A c \in Client, t \in tokens : \A r \in list[c].snap.seen :
        Covers(r, t) => ~Accepts(c, t)

\* However many polls fail, are late or overtake each other, a covered token is accepted for
\* at most the offline authority plus one answer's delay after the commit (core.py _verify).
ExposureBounded ==
    \A c \in Client, t \in tokens, r \in log :
        Covers(r, t) /\ Accepts(c, t) => now <= r.committed + HttpTimeout + MaxOffline

\* A service refuses a token as revoked only for a revocation of that subject, for that
\* service or for all, or because the service itself was disabled: revocations never leak
\* across services (agent.py revocations).
RefusalsAreJustified ==
    \A c \in Client, t \in tokens :
        t.aud = c /\ IsRevoked(c, t) => ~list[c].snap.enabled \/ \E r \in log : Covers(r, t)

\* The table keeps a row for as long as a token it covers can be in time anywhere: the purge
\* and the retention never let a revoked token come back (models.py Revocation).
RowOutlivesTokens ==
    \A r \in log, t \in tokens :
        Covers(r, t) /\ InTime(t) =>
            \E row \in rows : /\ row.sub = r.sub /\ row.scope = r.scope
                             /\ row.jti = NoJti /\ row.at = r.at /\ row.purge > now

\* What a token says is what MM OS would still say: its person is active and every role in
\* it is granted for as long as the token lives.
Entitled(t) ==
    /\ active[t.sub]
    /\ \A role \in t.roles : \E g \in GrantsOf(t.sub, t.aud) :
         g.role = role /\ t.exp <= g.until

\* Access removal is never a two-step that can half-fail (platform.py delete_grant): a token
\* that claims more than MM OS would now grant was overtaken by a committed revocation.
LossIsPublished ==
    \A t \in tokens : Entitled(t) \/ \E r \in log : InScope(r, t) /\ t.read <= r.committed

\* docs/04-auth-flow.md, "Revocation, end to end": a removed grant reaches the deny-list, and
\* "Worst case exposure is 60 seconds".  So a token in time that claims more than MM OS would
\* now grant is covered by a revocation.
LossIsCovered ==
    \A t \in tokens : InTime(t) => Entitled(t) \/ \E r \in log : Covers(r, t)

\* _denylist.py is_revoked: a subject revocation cuts off tokens issued at or before it, not
\* the person forever.  A handoff that began after the revocation committed is not cut off.
FreshTokenUsable ==
    \A t \in tokens, r \in log : t.read > r.committed => ~Covers(r, t)

\* docs/04-auth-flow.md: once the deny-list is merged, the "next request from that user: 401".
MergedRevocationSticks ==
    [][\A c \in Client, t \in tokens :
          (\E r \in list[c].snap.seen : Covers(r, t)) => ~Accepts(c, t)']_vars
=============================================================================
