-------------------------- MODULE RevocationProofs --------------------------
(***************************************************************************)
(* What holds of module Revocation for every number of people, services,   *)
(* tokens and revocations, and for every value of the timings that keeps a *)
(* row longer than a token lives.                                          *)
(***************************************************************************)
EXTENDS Revocation, TLAPS

USE DEF Grant, Handoff, Token, Row, Entry, Transaction, Snapshot, Answer, DenyList, Poller

-----------------------------------------------------------------------------
(* Whole seconds. *)

\* A time rounded down to its second is a time, and not a later one.
LEMMA FloorFact == ASSUME NEW t \in Nat PROVE Floor(t) \in Nat /\ Floor(t) <= t
  BY TimeAssumption, SMT DEF Floor

LEMMA TimesAreNat ==
    /\ Sec \in Nat \ {0} /\ TTL \in Nat /\ Skew \in Nat /\ Retention \in Nat
    /\ IdentityRetention \in Nat /\ MaxOffline \in Nat /\ SavedMaxAge \in Nat
    /\ HttpTimeout \in Nat /\ MaxNow \in Nat
  BY TimeAssumption

-----------------------------------------------------------------------------
(* Types. *)

LEMMA ForeverIsNat == Forever \in Nat
  BY TimesAreNat DEF Forever

\* Beginning a well-formed transaction keeps every variable well-formed.
LEMMA BeginType ==
    ASSUME TypeOK, NEW tx \in Transaction, Begin(tx) PROVE TypeOK'
  BY DEF TypeOK, Begin

LEMMA TypeStep == ASSUME TypeOK, [Next]_vars PROVE TypeOK'
<1>. USE TimesAreNat
<1>1. CASE Tick
  BY <1>1 DEF TypeOK, Tick
<1>2. ASSUME NEW u \in User, NEW s \in Service, NEW r \in Role, NEW e \in Nat,
             CreateGrant(u, s, r, e)
      PROVE TypeOK'
  BY <1>2 DEF TypeOK, CreateGrant
<1>3. ASSUME NEW u \in User, NEW s \in Service, MintRead(u, s) PROVE TypeOK'
  <2>1. PICK until \in {g.until : g \in LiveGrants(u, s)} :
          minting' = minting \cup
              {[sub |-> u, aud |-> s, roles |-> {g.role : g \in LiveGrants(u, s)},
                until |-> until, read |-> now]}
    BY <1>3 DEF MintRead
  <2>2. LiveGrants(u, s) \subseteq Grant
    BY DEF TypeOK, LiveGrants, GrantsOf
  <2>3. [sub |-> u, aud |-> s, roles |-> {g.role : g \in LiveGrants(u, s)},
         until |-> until, read |-> now] \in Handoff
    BY <2>1, <2>2 DEF TypeOK
  <2>. QED
    BY <1>3, <2>1, <2>3 DEF TypeOK, MintRead
<1>4. ASSUME NEW m \in minting, NEW j \in Jti, MintSign(m, j) PROVE TypeOK'
  <2>1. Signed(m, j) \in Token
    BY FloorFact DEF TypeOK, Signed, Earlier
  <2>. QED
    BY <1>4, <2>1 DEF TypeOK, MintSign
<1>5. ASSUME NEW g \in grants, DeleteGrant(g) PROVE TypeOK'
  <2>1. [subs |-> {g.user}, scope |-> g.service, lost |-> {g}, gained |-> {},
         jtis |-> {}, at |-> now, keep |-> Retention,
         kills |-> FALSE, disables |-> FALSE] \in Transaction
    BY DEF TypeOK
  <2>. QED
    BY <1>5, <2>1, BeginType DEF DeleteGrant
<1>6. ASSUME NEW u \in User, NEW s \in Service, NEW r \in Role, ReplaceRoles(u, s, r)
      PROVE TypeOK'
  <2>1. Wanted(u, s, r) \subseteq Grant /\ Others(u, s, r) \subseteq Grant
    BY ForeverIsNat DEF TypeOK, GrantsOf, Others, Wanted
  <2>2. [subs |-> {u}, scope |-> s, lost |-> Others(u, s, r), gained |-> Wanted(u, s, r),
         jtis |-> {}, at |-> now, keep |-> Retention,
         kills |-> FALSE, disables |-> FALSE] \in Transaction
    BY <2>1 DEF TypeOK
  <2>. QED
    BY <1>6, <2>2, BeginType DEF ReplaceRoles
<1>7. ASSUME NEW u \in User, KillUser(u) PROVE TypeOK'
  <2>. DEFINE jtis == {t.jti : t \in {x \in tokens : x.sub = u /\ x.read + TTL >= now}}
  <2>1. jtis \subseteq Jti
    BY DEF TypeOK
  <2>. HIDE DEF jtis
  <2>2. [subs |-> {u}, scope |-> Global, lost |-> {}, gained |-> {}, jtis |-> jtis,
         at |-> now, keep |-> IdentityRetention, kills |-> TRUE, disables |-> FALSE]
        \in Transaction
    BY <2>1 DEF TypeOK
  <2>. QED
    BY <1>7, <2>2, BeginType DEF KillUser, jtis
<1>8. ASSUME NEW s \in Service, DisableService(s) PROVE TypeOK'
  <2>. DEFINE holders == {g.user : g \in {x \in grants : x.service = s}}
  <2>1. holders \subseteq User
    BY DEF TypeOK
  <2>. HIDE DEF holders
  <2>2. [subs |-> holders, scope |-> s, lost |-> {}, gained |-> {}, jtis |-> {},
         at |-> now, keep |-> IdentityRetention, kills |-> FALSE, disables |-> TRUE]
        \in Transaction
    BY <2>1 DEF TypeOK
  <2>. QED
    BY <1>8, <2>2, BeginType DEF DisableService, holders
<1>9. ASSUME NEW u \in User, ActivateUser(u) PROVE TypeOK'
  BY <1>9 DEF TypeOK, ActivateUser
<1>10. ASSUME NEW s \in Service, EnableService(s) PROVE TypeOK'
  BY <1>10 DEF TypeOK, EnableService
<1>11. ASSUME NEW tx \in revoking, Commit(tx) PROVE TypeOK'
  <2>1. SubjectRows(tx) \subseteq Row /\ Entries(tx) \subseteq Entry
    BY DEF TypeOK, SubjectRows, Entries
  <2>2. TokenRows(tx) \subseteq Row
    BY DEF TypeOK, TokenRows
  <2>3. grants' \subseteq Grant
    BY <1>11 DEF TypeOK, Commit
  <2>4. active' \in [User -> BOOLEAN] /\ enabled' \in [Service -> BOOLEAN]
    BY <1>11 DEF TypeOK, Commit
  <2>. QED
    BY <1>11, <2>1, <2>2, <2>3, <2>4 DEF TypeOK, Commit
<1>12. ASSUME NEW tx \in revoking, Rollback(tx) PROVE TypeOK'
  BY <1>12 DEF TypeOK, Rollback
<1>13. CASE Purge
  BY <1>13 DEF TypeOK, Purge
<1>14. ASSUME NEW c \in Client, NEW by \in Poller, PollRead(c, by) PROVE TypeOK'
  <2>1. Feed(c) \in Snapshot
    <3>1. {[sub |-> r.sub, at |-> r.at] : r \in {x \in FeedRows(c) : x.jti = NoJti}}
             \subseteq [sub: User, at: Nat]
      BY DEF TypeOK, FeedRows
    <3>2. {r.jti : r \in {x \in FeedRows(c) : x.jti # NoJti}} \subseteq Jti
      BY DEF TypeOK, FeedRows
    <3>. QED
      BY <3>1, <3>2, NameAssumption DEF TypeOK, Feed
  <2>. QED
    BY <1>14, <2>1 DEF TypeOK, PollRead
<1>15. ASSUME NEW p \in polls, PollMerge(p) PROVE TypeOK'
  <2>1. [synced |-> TRUE, last |-> now, snap |-> p.snap] \in DenyList
    BY DEF TypeOK
  <2>2. list' \in [Client -> DenyList]
    BY <1>15, <2>1 DEF TypeOK, PollMerge
  <2>3. saved' \in [Client -> DenyList]
    <3>1. saved' = saved \/ saved' = [saved EXCEPT ![p.client] = list'[p.client]]
      BY <1>15 DEF PollMerge
    <3>2. list'[p.client] \in DenyList
      BY <2>2 DEF TypeOK
    <3>. QED
      BY <3>1, <3>2 DEF TypeOK
  <2>. QED
    BY <1>15, <2>2, <2>3 DEF TypeOK, PollMerge
<1>16. ASSUME NEW p \in polls, PollFail(p) PROVE TypeOK'
  BY <1>16 DEF TypeOK, PollFail
<1>17. ASSUME NEW c \in Client, Restart(c) PROVE TypeOK'
  <2>1. EmptyList \in DenyList
    BY DEF EmptyList, NoSnapshot
  <2>. QED
    BY <1>17, <2>1 DEF TypeOK, Restart
<1>18. CASE UNCHANGED vars
  BY <1>18 DEF TypeOK, vars
<1>19. ASSUME NEW d \in Lifetimes PROVE now + d \in Nat
  <2>1. now \in Nat
    BY DEF TypeOK
  <2>2. Lifetimes \subseteq Nat
    BY TimeAssumption
  <2>. QED
    BY <2>1, <2>2
<1>. QED
  BY <1>1, <1>2, <1>3, <1>4, <1>5, <1>6, <1>7, <1>8, <1>9, <1>10, <1>11, <1>12, <1>13,
     <1>14, <1>15, <1>16, <1>17, <1>18, <1>19, ForeverIsNat DEF Next

\* Every reachable state is well-formed, whatever the timings.
THEOREM TypeCorrect == Spec => []TypeOK
<1>1. Init => TypeOK
  <2>1. EmptyList \in DenyList
    BY DEF EmptyList, NoSnapshot
  <2>. QED
    BY <2>1 DEF Init, TypeOK
<1>. QED
  BY <1>1, TypeStep, PTL DEF Spec

-----------------------------------------------------------------------------
(* What the transactions under way promise, and what only grows. *)

\* The actions that begin a transaction, and those that change neither the tables nor the
\* transactions.
Beginning ==
    \/ \E g \in grants : DeleteGrant(g)
    \/ \E u \in User, s \in Service, r \in Role : ReplaceRoles(u, s, r)
    \/ \E u \in User : KillUser(u)
    \/ \E s \in Service : DisableService(s)

Granting ==
    \/ \E u \in User, s \in Service, r \in Role, e \in Nat : CreateGrant(u, s, r, e)
    \/ \E u \in User : ActivateUser(u)
    \/ \E s \in Service : EnableService(s)

Minting ==
    \/ \E u \in User, s \in Service : MintRead(u, s)
    \/ \E m \in minting, j \in Jti : MintSign(m, j)

Polling ==
    \/ \E c \in Client, by \in Poller : PollRead(c, by)
    \/ \E p \in polls : PollMerge(p) \/ PollFail(p)
    \/ \E c \in Client : Restart(c)

LEMMA StepKinds ==
    ASSUME TypeOK, [Next]_vars
    PROVE  \/ Tick \/ Granting \/ Minting \/ Beginning \/ Purge \/ Polling
           \/ \E tx \in revoking : Commit(tx) \/ Rollback(tx)
           \/ UNCHANGED vars
<1>1. \A d \in Lifetimes : now + d \in Nat
  <2>1. now \in Nat
    BY DEF TypeOK
  <2>2. Lifetimes \subseteq Nat
    BY TimeAssumption
  <2>. QED
    BY <2>1, <2>2
<1>. QED
  BY <1>1, ForeverIsNat DEF Next, Granting, Minting, Beginning, Polling

\* What a transaction has fixed by the time it commits: whoever loses a grant or the account
\* is among its subjects, within its scope; its rows last at least the retention.
Honest(tx) ==
    /\ \A g \in tx.lost : g.user \in tx.subs /\ g.service = tx.scope
    /\ tx.kills => tx.scope = Global
    /\ tx.at <= now
    /\ Retention <= tx.keep

TxInv == \A tx \in revoking : Honest(tx)

LEMMA TxStep == ASSUME TypeOK, TxInv, [Next]_vars PROVE TxInv'
<1>. USE TimesAreNat, RetentionAssumption DEF TxInv, Honest
<1>1. CASE Tick
  BY <1>1 DEF Tick, TypeOK
<1>2. CASE Granting \/ Minting \/ Purge \/ Polling \/ UNCHANGED vars
  BY <1>2 DEF Granting, CreateGrant, ActivateUser, EnableService, Minting, MintRead, MintSign,
       Purge, Polling, PollRead, PollMerge, PollFail, Restart, vars
<1>3. CASE Beginning
  <2>1. ASSUME NEW g \in grants, DeleteGrant(g) PROVE TxInv'
    BY <2>1 DEF DeleteGrant, Begin, TypeOK
  <2>2. ASSUME NEW u \in User, NEW s \in Service, NEW r \in Role, ReplaceRoles(u, s, r)
        PROVE TxInv'
    BY <2>2 DEF ReplaceRoles, Others, Begin, GrantsOf, TypeOK
  <2>3. ASSUME NEW u \in User, KillUser(u) PROVE TxInv'
    BY <2>3 DEF KillUser, Begin, TypeOK
  <2>4. ASSUME NEW s \in Service, DisableService(s) PROVE TxInv'
    BY <2>4 DEF DisableService, Begin, TypeOK
  <2>. QED
    BY <1>3, <2>1, <2>2, <2>3, <2>4 DEF Beginning
<1>4. ASSUME NEW tx \in revoking, Commit(tx) \/ Rollback(tx) PROVE TxInv'
  BY <1>4 DEF Commit, Rollback
<1>. QED
  BY <1>1, <1>2, <1>3, <1>4, StepKinds

\* Time, issued tokens and committed revocations are never taken back.
LEMMA Monotone ==
    ASSUME TypeOK, [Next]_vars PROVE now <= now' /\ now' \in Nat /\ tokens \subseteq tokens' /\ log \subseteq log'
<1>1. CASE Tick
  BY <1>1 DEF Tick, TypeOK
<1>2. CASE Granting \/ Beginning \/ Purge \/ Polling \/ UNCHANGED vars
  <2>1. now' = now /\ tokens' = tokens /\ log' = log
    BY <1>2 DEF Granting, CreateGrant, ActivateUser, EnableService,
       Beginning, DeleteGrant, ReplaceRoles, KillUser, DisableService, Begin,
       Purge, Polling, PollRead, PollMerge, PollFail, Restart, vars
  <2>. QED
    BY <2>1 DEF TypeOK
<1>4. CASE Minting
  <2>1. now' = now /\ tokens \subseteq tokens' /\ log' = log
    BY <1>4 DEF Minting, MintRead, MintSign
  <2>. QED
    BY <2>1 DEF TypeOK
<1>3. ASSUME NEW tx \in revoking, Commit(tx) \/ Rollback(tx)
      PROVE now' = now /\ tokens' = tokens /\ log \subseteq log'
  BY <1>3 DEF Commit, Rollback
<1>. QED
  BY <1>1, <1>2, <1>3, <1>4, StepKinds DEF TypeOK

-----------------------------------------------------------------------------
(* Losing access is always published. *)

\* A handoff or a token claims no more than its person now has until `end`.
Backed(x, end) ==
    /\ active[x.sub]
    /\ \A role \in x.roles : \E g \in GrantsOf(x.sub, x.aud) : g.role = role /\ end <= g.until

\* It was overtaken by a revocation committed since its grants were read.
Overtaken(x) == \E r \in log : InScope(r, x) /\ x.read <= r.committed

PublishedInv ==
    /\ \A m \in minting : m.read <= now /\ (Backed(m, m.until) \/ Overtaken(m))
    /\ \A t \in tokens : t.read <= now /\ (Backed(t, t.exp) \/ Overtaken(t))

\* A step that takes nothing away keeps every claim backed, or overtaken.
LEMMA BackedKept ==
    ASSUME grants \subseteq grants', \A u \in User : active[u] => active'[u], log \subseteq log',
           NEW x, x.sub \in User, NEW end, Backed(x, end) \/ Overtaken(x)
    PROVE  Backed(x, end)' \/ Overtaken(x)'
  BY DEF Backed, Overtaken, GrantsOf, InScope

\* A commit takes a claim's backing away only from the subjects it publishes.
LEMMA BackedCommit ==
    ASSUME TypeOK, TxInv, NEW tx \in revoking, Commit(tx),
           NEW x, x.sub \in User, x.aud \in Service, x.read \in Nat, x.read <= now,
           NEW end, Backed(x, end) \/ Overtaken(x)
    PROVE  Backed(x, end)' \/ Overtaken(x)'
<1>1. CASE Overtaken(x)
  BY <1>1 DEF Overtaken, Commit, InScope
<1>2. CASE x.sub \in tx.subs /\ tx.scope \in {x.aud, Global}
  <2>1. [sub |-> x.sub, scope |-> tx.scope, at |-> tx.at, committed |-> now] \in log'
    BY <1>2 DEF Commit, Entries
  <2>. QED
    BY <1>2, <2>1 DEF Overtaken, InScope, TypeOK
<1>3. CASE Backed(x, end) /\ ~(x.sub \in tx.subs /\ tx.scope \in {x.aud, Global})
  <2>1. active'[x.sub]
    BY <1>3 DEF Backed, Commit, TxInv, Honest
  <2>2. ASSUME NEW g \in GrantsOf(x.sub, x.aud) PROVE g \in GrantsOf(x.sub, x.aud)'
    BY <1>3, <2>2 DEF GrantsOf, Commit, TxInv, Honest
  <2>. QED
    BY <1>3, <2>1, <2>2 DEF Backed
<1>. QED
  BY <1>1, <1>2, <1>3

LEMMA PublishedStep ==
    ASSUME TypeOK, TypeOK', TxInv, PublishedInv, [Next]_vars PROVE PublishedInv'
<1>. USE DEF PublishedInv
<1>1. CASE Tick \/ Granting \/ Beginning \/ Purge \/ Polling \/ UNCHANGED vars
  <2>1. /\ grants \subseteq grants' /\ log \subseteq log'
        /\ \A u \in User : active[u] => active'[u]
        /\ minting' = minting /\ tokens' = tokens
    BY <1>1 DEF Tick, Granting, CreateGrant, ActivateUser, EnableService, Beginning, DeleteGrant,
       ReplaceRoles, KillUser, DisableService, Begin, Purge, Polling, PollRead, PollMerge,
       PollFail, Restart, vars, TypeOK
  <2>2. now <= now' /\ now' \in Nat
    BY Monotone
  <2>3. ASSUME NEW m \in minting
        PROVE  m.read <= now' /\ (Backed(m, m.until)' \/ Overtaken(m)')
    <3>1. m.read \in Nat /\ m.sub \in User /\ m.read <= now /\ (Backed(m, m.until) \/ Overtaken(m))
      BY DEF TypeOK
    <3>2. m.read <= now'
      BY <2>2, <3>1 DEF TypeOK
    <3>. QED
      BY <2>1, <3>1, <3>2, BackedKept
  <2>4. ASSUME NEW t \in tokens
        PROVE  t.read <= now' /\ (Backed(t, t.exp)' \/ Overtaken(t)')
    <3>1. t.read \in Nat /\ t.sub \in User /\ t.read <= now /\ (Backed(t, t.exp) \/ Overtaken(t))
      BY DEF TypeOK
    <3>2. t.read <= now'
      BY <2>2, <3>1 DEF TypeOK
    <3>. QED
      BY <2>1, <3>1, <3>2, BackedKept
  <2>. QED
    BY <2>1, <2>3, <2>4
<1>2. ASSUME NEW tx \in revoking, Commit(tx) PROVE PublishedInv'
  <2>1. minting' = minting /\ tokens' = tokens /\ now' = now
    BY <1>2 DEF Commit
  <2>2. ASSUME NEW m \in minting
        PROVE  m.read <= now' /\ (Backed(m, m.until)' \/ Overtaken(m)')
    BY <1>2, <2>1, BackedCommit DEF TypeOK
  <2>3. ASSUME NEW t \in tokens
        PROVE  t.read <= now' /\ (Backed(t, t.exp)' \/ Overtaken(t)')
    BY <1>2, <2>1, BackedCommit DEF TypeOK
  <2>. QED
    BY <2>1, <2>2, <2>3
<1>3. ASSUME NEW tx \in revoking, Rollback(tx) PROVE PublishedInv'
  BY <1>3 DEF Rollback, Backed, Overtaken, GrantsOf
<1>4. ASSUME NEW u \in User, NEW s \in Service, MintRead(u, s) PROVE PublishedInv'
  <2>1. PICK until \in {g.until : g \in LiveGrants(u, s)} :
          /\ \A g \in LiveGrants(u, s) : until <= g.until
          /\ minting' = minting \cup
              {[sub |-> u, aud |-> s, roles |-> {g.role : g \in LiveGrants(u, s)},
                until |-> until, read |-> now]}
    BY <1>4 DEF MintRead
  <2>. DEFINE m == [sub |-> u, aud |-> s, roles |-> {g.role : g \in LiveGrants(u, s)},
                    until |-> until, read |-> now]
  <2>2. Backed(m, m.until)
    BY <1>4, <2>1 DEF MintRead, Backed, LiveGrants
  <2>3. m.read <= now
    BY DEF TypeOK
  <2>. QED
    <3>1. minting' = minting \cup {m} /\ tokens' = tokens /\ now' = now
      BY <1>4, <2>1 DEF MintRead
    <3>2. \A x, end : (Backed(x, end)' <=> Backed(x, end)) /\ (Overtaken(x)' <=> Overtaken(x))
      BY <1>4 DEF MintRead, Backed, Overtaken, GrantsOf, InScope
    <3>. HIDE DEF m
    <3>. QED
      BY <2>2, <2>3, <3>1, <3>2
<1>5. ASSUME NEW m \in minting, NEW j \in Jti, MintSign(m, j) PROVE PublishedInv'
  <2>. DEFINE t == Signed(m, j)
  <2>1. t.exp <= m.until /\ t.exp \in Int /\ m.until \in Nat
    BY FloorFact, TimesAreNat DEF Signed, Earlier, TypeOK
  <2>2. t.sub = m.sub /\ t.aud = m.aud /\ t.roles = m.roles /\ t.read = m.read
    BY DEF Signed
  <2>. HIDE DEF t
  <2>3. Backed(t, t.exp) \/ Overtaken(t)
    <3>1. CASE Overtaken(m)
      BY <3>1, <2>2 DEF Overtaken, InScope
    <3>2. CASE Backed(m, m.until)
      BY <3>2, <2>1, <2>2 DEF Backed, GrantsOf, TypeOK
    <3>. QED
      BY <3>1, <3>2
  <2>4. t.read <= now
    BY <2>2
  <2>5. tokens' = tokens \cup {t} /\ minting' \subseteq minting
    BY <1>5 DEF MintSign, t
  <2>. QED
    BY <1>5, <2>3, <2>4, <2>5 DEF MintSign, Backed, Overtaken, GrantsOf
<1>. QED
  BY <1>1, <1>2, <1>3, <1>4, <1>5, StepKinds DEF Minting

\* Access removal is never a two-step that can half-fail: whatever handoffs and transactions
\* interleave, a token that claims more than MM OS would now grant was overtaken by a
\* revocation of its subject for its service (platform.py, people.py, tokens.py).
THEOREM LossPublished == Spec => []LossIsPublished
<1>1. Init => TypeOK /\ TxInv /\ PublishedInv
  <2>1. EmptyList \in DenyList
    BY DEF EmptyList, NoSnapshot
  <2>. QED
    BY <2>1 DEF Init, TypeOK, TxInv, PublishedInv
<1>2. TypeOK /\ TxInv /\ PublishedInv /\ [Next]_vars => (TypeOK /\ TxInv /\ PublishedInv)'
  BY TypeStep, TxStep, PublishedStep
<1>3. TypeOK /\ TxInv /\ PublishedInv => LossIsPublished
  BY DEF PublishedInv, LossIsPublished, Entitled, Backed, Overtaken
<1>. QED
  BY <1>1, <1>2, <1>3, PTL DEF Spec

-----------------------------------------------------------------------------
(* The table keeps a row for as long as a covered token lives. *)

\* The row that publishes r.
Publishes(row, r) ==
    /\ row.sub = r.sub /\ row.scope = r.scope /\ row.jti = NoJti /\ row.at = r.at
    /\ r.at + Retention <= row.purge

Outlived(r) == r.at + Retention <= now

KeptInv == \A r \in log : Outlived(r) \/ \E row \in rows : Publishes(row, r)

LEMMA KeptStep == ASSUME TypeOK, TxInv, KeptInv, [Next]_vars PROVE KeptInv'
<1>. USE TimesAreNat DEF KeptInv, Outlived, Publishes
<1>1. CASE Tick
  BY <1>1 DEF Tick, TypeOK
<1>2. CASE Granting \/ Minting \/ Beginning \/ Polling \/ UNCHANGED vars
  <2>1. rows' = rows /\ log' = log /\ now' = now
    BY <1>2 DEF Granting, CreateGrant, ActivateUser, EnableService, Minting, MintRead, MintSign,
       Beginning, DeleteGrant, ReplaceRoles, KillUser, DisableService, Begin,
       Polling, PollRead, PollMerge, PollFail, Restart, vars
  <2>. QED
    BY <2>1
<1>3. CASE Purge
  BY <1>3 DEF Purge, TypeOK
<1>4. ASSUME NEW tx \in revoking, Commit(tx) PROVE KeptInv'
  <2>1. ASSUME NEW u \in tx.subs
        PROVE  \E row \in rows' : Publishes(row, [sub |-> u, scope |-> tx.scope,
                                                  at |-> tx.at, committed |-> now])
    <3>1. [sub |-> u, scope |-> tx.scope, jti |-> NoJti, at |-> tx.at,
           purge |-> tx.at + tx.keep] \in rows'
      BY <1>4, <2>1 DEF Commit, SubjectRows
    <3>2. tx.at + Retention <= tx.at + tx.keep
      BY DEF TxInv, Honest, TypeOK
    <3>. QED
      BY <3>1, <3>2
  <2>. QED
    BY <1>4, <2>1 DEF Commit, Entries
<1>5. ASSUME NEW tx \in revoking, Rollback(tx) PROVE KeptInv'
  BY <1>5 DEF Rollback
<1>. QED
  BY <1>1, <1>2, <1>3, <1>4, <1>5, StepKinds

\* A token that is in time is younger than the retention of whatever covers it.
LEMMA CoveredIsYoung ==
    ASSUME TypeOK, NEW r \in log, NEW t \in tokens, Covers(r, t), InTime(t)
    PROVE  ~Outlived(r)
  BY TimesAreNat, RetentionAssumption DEF Covers, InTime, Outlived, TypeOK

\* The purge and the retention never let a revoked token come back
\* (agent.py purge_expired_revocations, models.py Revocation).
THEOREM RowsOutlive == Spec => []RowOutlivesTokens
<1>1. Init => TypeOK /\ TxInv /\ KeptInv
  <2>1. EmptyList \in DenyList
    BY DEF EmptyList, NoSnapshot
  <2>. QED
    BY <2>1 DEF Init, TypeOK, TxInv, KeptInv
<1>2. TypeOK /\ TxInv /\ KeptInv /\ [Next]_vars => (TypeOK /\ TxInv /\ KeptInv)'
  BY TypeStep, TxStep, KeptStep
<1>3. TypeOK /\ KeptInv => RowOutlivesTokens
  <2>. SUFFICES ASSUME TypeOK, KeptInv, NEW r \in log, NEW t \in tokens, Covers(r, t), InTime(t)
                PROVE  \E row \in rows : /\ row.sub = r.sub /\ row.scope = r.scope
                                         /\ row.jti = NoJti /\ row.at = r.at /\ row.purge > now
    BY DEF RowOutlivesTokens
  <2>1. ~Outlived(r)
    BY CoveredIsYoung
  <2>. QED
    BY <2>1, TimesAreNat DEF KeptInv, Outlived, Publishes, TypeOK
<1>. QED
  BY <1>1, <1>2, <1>3, PTL DEF Spec

-----------------------------------------------------------------------------
(* A service that has merged a revocation refuses what it covers. *)

\* A deny-list holds every revocation its snapshot was read after, until no token is left.
Holds(c, snap) ==
    \A r \in snap.seen : r.scope \in {c, Global} =>
        Outlived(r) \/ \E e \in snap.subs : e.sub = r.sub /\ e.at = r.at

HoldsInv ==
    /\ \A p \in polls : Holds(p.client, p.snap)
    /\ \A c \in Client : Holds(c, list[c].snap) /\ Holds(c, saved[c].snap)

LEMMA FeedHolds == ASSUME TypeOK, KeptInv, NEW c \in Client PROVE Holds(c, Feed(c))
<1>. SUFFICES ASSUME NEW r \in log, r.scope \in {c, Global}, ~Outlived(r)
              PROVE  \E e \in Feed(c).subs : e.sub = r.sub /\ e.at = r.at
  BY DEF Holds, Feed
<1>1. PICK row \in rows : Publishes(row, r)
  BY DEF KeptInv
<1>2. row \in FeedRows(c) /\ row.jti = NoJti
  BY <1>1, TimesAreNat DEF FeedRows, Publishes, Outlived, TypeOK
<1>. QED
  <2>1. [sub |-> row.sub, at |-> row.at] \in Feed(c).subs
    BY <1>2 DEF Feed
  <2>. QED
    BY <1>1, <2>1 DEF Publishes

\* A restarted process has the saved list or an empty one.
LEMMA RestartList ==
    ASSUME TypeOK, NEW c \in Client, Restart(c), NEW d \in Client
    PROVE  list'[d] \in {list[d], saved[d], EmptyList}
  BY DEF TypeOK, Restart

LEMMA MergeList ==
    ASSUME TypeOK, NEW p \in polls, PollMerge(p), NEW d \in Client
    PROVE  /\ list'[d] = list[d] \/ (d = p.client /\ list'[d] = [synced |-> TRUE, last |-> now, snap |-> p.snap])
           /\ saved'[d] = saved[d] \/ (d = p.client /\ saved'[d] = [synced |-> TRUE, last |-> now, snap |-> p.snap])
<1>1. \/ list'[d] = list[d]
      \/ d = p.client /\ list'[d] = [synced |-> TRUE, last |-> now, snap |-> p.snap]
  BY DEF TypeOK, PollMerge
<1>2. saved' = saved \/ saved' = [saved EXCEPT ![p.client] = list'[p.client]]
  BY DEF PollMerge
<1>3. p.client \in Client /\ list'[p.client] = [synced |-> TRUE, last |-> now, snap |-> p.snap]
  BY DEF TypeOK, PollMerge
<1>. QED
  BY <1>1, <1>2, <1>3 DEF TypeOK

LEMMA HoldsStep ==
    ASSUME TypeOK, TypeOK', KeptInv, HoldsInv, [Next]_vars PROVE HoldsInv'
<1>1. ASSUME NEW snap, NEW c, Holds(c, snap), snap.seen \subseteq Entry
      PROVE  Holds(c, snap)'
  <2>1. now <= now' /\ now' \in Nat /\ now \in Nat
    BY Monotone DEF TypeOK
  <2>2. ASSUME NEW r \in snap.seen, Outlived(r) PROVE Outlived(r)'
    BY <1>1, <2>1, <2>2, TimesAreNat DEF Outlived
  <2>. QED
    BY <1>1, <2>2 DEF Holds
<1>2. \A c \in Client : Holds(c, EmptyList.snap)'
  BY DEF Holds, EmptyList, NoSnapshot
<1>3. \A p \in polls : Holds(p.client, p.snap)'
  BY <1>1 DEF HoldsInv, TypeOK
<1>4. \A c \in Client : Holds(c, list[c].snap) => (Holds(c, list[c].snap) /\ list[c].snap.seen \subseteq Entry)
  BY DEF TypeOK
<1>5. ASSUME NEW c \in Client, NEW l \in {list[c], saved[c]} PROVE Holds(c, l.snap)'
  BY <1>1 DEF HoldsInv, TypeOK
<1>6. CASE Tick \/ Granting \/ Minting \/ Beginning \/ Purge \/ UNCHANGED vars
  <2>1. polls' = polls /\ list' = list /\ saved' = saved
    BY <1>6 DEF Tick, Granting, CreateGrant, ActivateUser, EnableService, Minting, MintRead, MintSign,
       Beginning, DeleteGrant, ReplaceRoles, KillUser, DisableService, Begin, Purge, vars
  <2>. QED
    BY <1>3, <1>5, <2>1 DEF HoldsInv
<1>7. ASSUME NEW tx \in revoking, Commit(tx) \/ Rollback(tx) PROVE HoldsInv'
  <2>1. polls' = polls /\ list' = list /\ saved' = saved
    BY <1>7 DEF Commit, Rollback
  <2>. QED
    BY <1>3, <1>5, <2>1 DEF HoldsInv
<1>8. ASSUME NEW c \in Client, NEW by \in Poller, PollRead(c, by) PROVE HoldsInv'
  <2>1. /\ polls' = polls \cup {[client |-> c, by |-> by, asOf |-> now, snap |-> Feed(c)]}
        /\ list' = list /\ saved' = saved
    BY <1>8 DEF PollRead
  <2>2. Feed(c).seen \subseteq Entry
    BY DEF Feed, TypeOK
  <2>3. Holds(c, Feed(c))
    BY FeedHolds
  <2>4. now' = now
    BY <1>8 DEF PollRead
  <2>. DEFINE f == Feed(c)
  <2>5. \A p \in polls' : p \in polls \/ (p.client = c /\ p.snap = f)
    BY <2>1
  <2>6. ASSUME NEW p \in polls' PROVE Holds(p.client, p.snap)'
    <3>1. CASE p \in polls
      BY <1>3, <3>1
    <3>2. CASE p.client = c /\ p.snap = f
      BY <2>3, <2>4, <3>2 DEF Holds, Outlived
    <3>. QED
      BY <2>5, <3>1, <3>2
  <2>. QED
    BY <1>5, <2>1, <2>6 DEF HoldsInv
<1>9. ASSUME NEW p \in polls, PollMerge(p) PROVE HoldsInv'
  <2>1. polls' \subseteq polls
    BY <1>9 DEF PollMerge
  <2>2. ASSUME NEW c \in Client PROVE Holds(c, list[c].snap)' /\ Holds(c, saved[c].snap)'
    <3>1. /\ list'[c].snap \in {list[c].snap, saved[c].snap} \/ (c = p.client /\ list'[c].snap = p.snap)
          /\ saved'[c].snap \in {list[c].snap, saved[c].snap} \/ (c = p.client /\ saved'[c].snap = p.snap)
      <4>. DEFINE merged == [synced |-> TRUE, last |-> now, snap |-> p.snap]
      <4>1. /\ list'[c] = list[c] \/ (c = p.client /\ list'[c] = merged)
            /\ saved'[c] = saved[c] \/ (c = p.client /\ saved'[c] = merged)
        BY <1>9, MergeList
      <4>2. merged.snap = p.snap
        OBVIOUS
      <4>. QED
        BY <4>1, <4>2
    <3>. QED
      BY <1>3, <1>5, <3>1 DEF Holds
  <2>. QED
    BY <1>3, <2>1, <2>2 DEF HoldsInv
<1>10. ASSUME NEW p \in polls, PollFail(p) PROVE HoldsInv'
  BY <1>3, <1>5, <1>10 DEF PollFail, HoldsInv
<1>11. ASSUME NEW c \in Client, Restart(c) PROVE HoldsInv'
  <2>1. polls' \subseteq polls /\ saved' = saved
    BY <1>11 DEF Restart
  <2>2. ASSUME NEW d \in Client PROVE Holds(d, list[d].snap)'
    <3>1. list'[d].snap \in {list[d].snap, saved[d].snap, EmptyList.snap}
      BY <1>11, RestartList
    <3>. QED
      BY <1>2, <1>5, <3>1 DEF Holds
  <2>. QED
    BY <1>3, <1>5, <2>1, <2>2 DEF HoldsInv
<1>. QED
  BY <1>6, <1>7, <1>8, <1>9, <1>10, <1>11, StepKinds DEF Polling

LEMMA HoldsSynced == ASSUME TypeOK, HoldsInv PROVE SyncedRefuses
<1>. SUFFICES ASSUME NEW c \in Client, NEW t \in tokens, NEW r \in list[c].snap.seen,
                     Covers(r, t), Accepts(c, t)
              PROVE  FALSE
  BY DEF SyncedRefuses
<1>1. r \in Entry /\ t.aud = c /\ InTime(t)
  BY DEF TypeOK, Accepts
<1>2. ~Outlived(r)
  BY <1>1, TimesAreNat, RetentionAssumption DEF Covers, InTime, Outlived, TypeOK
<1>3. PICK e \in list[c].snap.subs : e.sub = r.sub /\ e.at = r.at
  BY <1>1, <1>2 DEF HoldsInv, Holds, Covers, InScope
<1>. QED
  BY <1>3 DEF Accepts, IsRevoked, Covers, InScope

\* Once a service has merged an answer read after a revocation committed, it accepts nothing
\* the revocation covers: across purges, lost and late polls, and restarts from a saved or
\* an empty list (_denylist.py, agent.py revocations).
THEOREM SyncedServiceRefuses == Spec => []SyncedRefuses
<1>1. Init => TypeOK /\ TxInv /\ KeptInv /\ HoldsInv
  <2>1. EmptyList \in DenyList
    BY DEF EmptyList, NoSnapshot
  <2>2. Init => TypeOK /\ TxInv /\ KeptInv
    BY <2>1 DEF Init, TypeOK, TxInv, KeptInv
  <2>3. Init => HoldsInv
    BY DEF Init, HoldsInv, Holds, EmptyList, NoSnapshot
  <2>. QED
    BY <2>2, <2>3
<1>2. TypeOK /\ TxInv /\ KeptInv /\ HoldsInv /\ [Next]_vars
        => (TypeOK /\ TxInv /\ KeptInv /\ HoldsInv)'
  BY TypeStep, TxStep, KeptStep, HoldsStep
<1>3. TypeOK /\ HoldsInv => SyncedRefuses
  BY HoldsSynced
<1>. QED
  BY <1>1, <1>2, <1>3, PTL DEF Spec

-----------------------------------------------------------------------------
(* How long a covered token may still be accepted. *)

\* Whatever an answer or a list does not hold was committed after it was read.
ReadBefore(asOf, snap) == \A r \in log \ snap.seen : asOf <= r.committed
Recent(l) == l.synced =>
    l.last <= now /\ \A r \in log \ l.snap.seen : l.last <= r.committed + HttpTimeout

RecentInv ==
    /\ \A p \in polls : p.asOf <= now /\ ReadBefore(p.asOf, p.snap)
    /\ \A c \in Client : Recent(list[c]) /\ Recent(saved[c])

LEMMA RecentStep ==
    ASSUME TypeOK, TypeOK', RecentInv, [Next]_vars PROVE RecentInv'
<1>. USE TimesAreNat
<1>0. now <= now' /\ now' \in Nat /\ now \in Nat
  BY Monotone DEF TypeOK
<1>1. \A r \in log' \ log : r.committed = now
  <2>1. ASSUME NEW tx \in revoking, Commit(tx) PROVE \A r \in log' \ log : r.committed = now
    BY <2>1 DEF Commit, Entries
  <2>2. CASE Tick \/ Granting \/ Minting \/ Beginning \/ Purge \/ Polling \/ UNCHANGED vars
             \/ \E tx \in revoking : Rollback(tx)
    <3>1. log' = log
      BY <2>2 DEF Tick, Granting, CreateGrant, ActivateUser, EnableService, Minting, MintRead,
       MintSign, Beginning, DeleteGrant, ReplaceRoles, KillUser, DisableService, Begin, Purge,
       Polling, PollRead, PollMerge, PollFail, Restart, Rollback, vars
    <3>. QED
      BY <3>1
  <2>. QED
    BY <2>1, <2>2, StepKinds
<1>2. ASSUME NEW p \in polls PROVE p.asOf <= now' /\ ReadBefore(p.asOf, p.snap)'
  BY <1>0, <1>1 DEF RecentInv, ReadBefore, TypeOK
<1>3. ASSUME NEW l \in DenyList, Recent(l) PROVE Recent(l)'
  <2>1. ASSUME l.synced PROVE l.last <= now'
    BY <1>0, <1>3, <2>1 DEF Recent
  <2>2. ASSUME l.synced, NEW r \in log' \ l.snap.seen PROVE l.last <= r.committed + HttpTimeout
    BY <1>0, <1>1, <1>3, <2>2 DEF Recent
  <2>. QED
    BY <2>1, <2>2 DEF Recent
<1>5. ASSUME NEW c \in Client, NEW l \in {list[c], saved[c]} PROVE Recent(l)'
  BY <1>3 DEF RecentInv, TypeOK
<1>6. CASE Tick \/ Granting \/ Minting \/ Beginning \/ Purge \/ UNCHANGED vars
           \/ \E tx \in revoking : Commit(tx) \/ Rollback(tx)
  <2>1. polls' = polls /\ list' = list /\ saved' = saved
    BY <1>6 DEF Tick, Granting, CreateGrant, ActivateUser, EnableService, Minting, MintRead, MintSign,
       Beginning, DeleteGrant, ReplaceRoles, KillUser, DisableService, Begin, Purge, vars, Commit, Rollback
  <2>. QED
    BY <1>2, <1>5, <2>1 DEF RecentInv, Recent, ReadBefore
<1>7. ASSUME NEW c \in Client, NEW by \in Poller, PollRead(c, by) PROVE RecentInv'
  <2>1. /\ polls' = polls \cup {[client |-> c, by |-> by, asOf |-> now, snap |-> Feed(c)]}
        /\ list' = list /\ saved' = saved /\ log' = log /\ now' = now
    BY <1>7 DEF PollRead
  <2>2. ReadBefore(now, Feed(c))'
    BY <2>1 DEF ReadBefore, Feed
  <2>. DEFINE f == Feed(c)
  <2>3. Feed(c).seen = log
    BY DEF Feed
  <2>4. \A p \in polls' : p \in polls \/ (p.asOf = now /\ p.snap.seen = log)
    BY <2>1, <2>3
  <2>5. ASSUME NEW p \in polls' PROVE p.asOf <= now' /\ ReadBefore(p.asOf, p.snap)'
    BY <1>0, <1>2, <2>1, <2>4 DEF ReadBefore
  <2>. QED
    BY <1>5, <2>1, <2>5 DEF RecentInv, Recent
<1>8. ASSUME NEW p \in polls, PollMerge(p) PROVE RecentInv'
  <2>. DEFINE merged == [synced |-> TRUE, last |-> now, snap |-> p.snap]
  <2>1. polls' \subseteq polls /\ now' = now /\ log' = log /\ now - p.asOf <= HttpTimeout
    BY <1>8 DEF PollMerge
  <2>2. ASSUME NEW l, l = merged PROVE Recent(l)'
    <3>1. \A r \in log \ p.snap.seen : p.asOf <= r.committed
      BY DEF RecentInv, ReadBefore
    <3>2. \A r \in log : r.committed \in Nat
      BY DEF TypeOK
    <3>3. p.asOf \in Nat
      BY DEF TypeOK
    <3>4. \A r \in log \ p.snap.seen : now <= r.committed + HttpTimeout
      BY <1>0, <2>1, <3>1, <3>2, <3>3
    <3>. QED
      BY <1>0, <2>1, <2>2, <3>4 DEF Recent
  <2>3. ASSUME NEW c \in Client PROVE Recent(list[c])' /\ Recent(saved[c])'
    <3>1. /\ list'[c] = list[c] \/ list'[c] = merged
          /\ saved'[c] = saved[c] \/ saved'[c] = merged
      BY <1>8, MergeList
    <3>. HIDE DEF merged
    <3>. QED
      BY <1>5, <2>2, <3>1 DEF Recent
  <2>. QED
    BY <1>2, <2>1, <2>3 DEF RecentInv
<1>9. ASSUME NEW p \in polls, PollFail(p) PROVE RecentInv'
  BY <1>2, <1>5, <1>9 DEF PollFail, RecentInv, Recent
<1>10. ASSUME NEW c \in Client, Restart(c) PROVE RecentInv'
  <2>1. polls' \subseteq polls /\ saved' = saved
    BY <1>10 DEF Restart
  <2>2. ASSUME NEW d \in Client PROVE Recent(list[d])'
    <3>1. list'[d] \in {list[d], saved[d]} \/ ~list'[d].synced
      BY <1>10, RestartList DEF EmptyList
    <3>. QED
      BY <1>5, <3>1 DEF Recent
  <2>. QED
    BY <1>2, <1>5, <2>1, <2>2 DEF RecentInv, Recent
<1>. QED
  BY <1>6, <1>7, <1>8, <1>9, <1>10, StepKinds DEF Polling

\* However polls fail, linger or overtake each other, a service accepts a covered token for at
\* most the offline authority plus one answer's delay after the commit (core.py _verify).
THEOREM ExposureIsBounded == Spec => []ExposureBounded
<1>1. Init => TypeOK /\ TxInv /\ KeptInv /\ HoldsInv /\ RecentInv
  <2>1. EmptyList \in DenyList
    BY DEF EmptyList, NoSnapshot
  <2>2. Init => TypeOK /\ TxInv /\ KeptInv
    BY <2>1 DEF Init, TypeOK, TxInv, KeptInv
  <2>3. Init => HoldsInv
    BY DEF Init, HoldsInv, Holds, EmptyList, NoSnapshot
  <2>4. Init => RecentInv
    BY DEF Init, RecentInv, Recent, EmptyList
  <2>. QED
    BY <2>2, <2>3, <2>4
<1>2. TypeOK /\ TxInv /\ KeptInv /\ HoldsInv /\ RecentInv /\ [Next]_vars
        => (TypeOK /\ TxInv /\ KeptInv /\ HoldsInv /\ RecentInv)'
  BY TypeStep, TxStep, KeptStep, HoldsStep, RecentStep
<1>3. TypeOK /\ HoldsInv /\ RecentInv => ExposureBounded
  <2>. SUFFICES ASSUME TypeOK, HoldsInv, RecentInv,
                       NEW c \in Client, NEW t \in tokens, NEW r \in log, Covers(r, t), Accepts(c, t)
                PROVE  now <= r.committed + HttpTimeout + MaxOffline
    BY DEF ExposureBounded
  <2>1. r \notin list[c].snap.seen
    BY HoldsSynced DEF SyncedRefuses
  <2>2. list[c].synced /\ now - list[c].last <= MaxOffline
    BY DEF Accepts, HasAuthority
  <2>3. list[c].last <= r.committed + HttpTimeout
    BY <2>1, <2>2 DEF RecentInv, Recent
  <2>4. list[c].last \in Nat /\ r.committed \in Nat /\ now \in Nat
    BY DEF TypeOK
  <2>. QED
    BY <2>2, <2>3, <2>4, TimesAreNat
<1>. QED
  BY <1>1, <1>2, <1>3, PTL DEF Spec

-----------------------------------------------------------------------------
(* A refusal is always someone's revocation. *)

Unambiguous == \A t, x \in tokens : t.jti = x.jti => t = x
Issued == \A t \in tokens : t.iat <= now

SubjectJustified(sub, scope, at) == \E r \in log : r.sub = sub /\ r.scope = scope /\ r.at = at
TokenJustified(j) == \E t \in tokens, r \in log : t.jti = j /\ Covers(r, t)

JustifiedInv ==
    /\ Unambiguous /\ Issued
    /\ \A tx \in revoking : \A j \in tx.jtis :
         \E t \in tokens : t.jti = j /\ t.sub \in tx.subs /\ tx.scope = Global /\ t.iat <= tx.at
    /\ \A row \in rows : row.jti = NoJti => SubjectJustified(row.sub, row.scope, row.at)
    /\ \A row \in rows : row.jti # NoJti => TokenJustified(row.jti)

SnapJustified(c, snap) ==
    /\ \A e \in snap.subs : \E scope \in {c, Global} : SubjectJustified(e.sub, scope, e.at)
    /\ \A j \in snap.jtis : TokenJustified(j)

ListsJustifiedInv ==
    /\ \A p \in polls : SnapJustified(p.client, p.snap)
    /\ \A c \in Client : SnapJustified(c, list[c].snap) /\ SnapJustified(c, saved[c].snap)

\* Justifications stay: nothing is taken out of the history or of the issued tokens.
LEMMA JustificationsStay ==
    ASSUME tokens \subseteq tokens', log \subseteq log'
    PROVE  /\ \A sub, scope, at : SubjectJustified(sub, scope, at) => SubjectJustified(sub, scope, at)'
           /\ \A j : TokenJustified(j) => TokenJustified(j)'
  BY DEF SubjectJustified, TokenJustified, Covers, InScope

LEMMA JustifiedStep ==
    ASSUME TypeOK, TypeOK', JustifiedInv, [Next]_vars PROVE JustifiedInv'
<1>0. /\ now <= now' /\ now' \in Nat /\ now \in Nat /\ tokens \subseteq tokens' /\ log \subseteq log'
      /\ \A sub, scope, at : SubjectJustified(sub, scope, at) => SubjectJustified(sub, scope, at)'
      /\ \A j : TokenJustified(j) => TokenJustified(j)'
  BY Monotone, JustificationsStay DEF TypeOK
<1>1. CASE Tick \/ Granting \/ Purge \/ Polling \/ UNCHANGED vars
           \/ \E tx \in revoking : Rollback(tx)
  <2>1. tokens' = tokens /\ rows' \subseteq rows /\ revoking' \subseteq revoking
    BY <1>1 DEF Tick, Granting, CreateGrant, ActivateUser, EnableService, Purge,
       Polling, PollRead, PollMerge, PollFail, Restart, Rollback, vars
  <2>2. Issued'
    BY <1>0, <2>1 DEF JustifiedInv, Issued, TypeOK
  <2>. QED
    BY <1>0, <2>1, <2>2 DEF JustifiedInv, Unambiguous
<1>2. CASE Beginning
  <2>1. tokens' = tokens /\ rows' = rows /\ now' = now
    BY <1>2 DEF Beginning, DeleteGrant, ReplaceRoles, KillUser, DisableService, Begin
  <2>2. ASSUME NEW tx, Begin(tx),
               \A j \in tx.jtis : \E t \in tokens :
                  t.jti = j /\ t.sub \in tx.subs /\ tx.scope = Global /\ t.iat <= tx.at
        PROVE JustifiedInv'
    BY <1>0, <2>1, <2>2 DEF JustifiedInv, Begin, Unambiguous, Issued
  <2>3. ASSUME NEW g \in grants, DeleteGrant(g) PROVE JustifiedInv'
    BY <2>2, <2>3 DEF DeleteGrant
  <2>4. ASSUME NEW u \in User, NEW s \in Service, NEW r \in Role, ReplaceRoles(u, s, r)
        PROVE JustifiedInv'
    BY <2>2, <2>4 DEF ReplaceRoles
  <2>5. ASSUME NEW u \in User, KillUser(u) PROVE JustifiedInv'
    BY <2>2, <2>5 DEF KillUser, JustifiedInv, Issued
  <2>6. ASSUME NEW s \in Service, DisableService(s) PROVE JustifiedInv'
    BY <2>2, <2>6 DEF DisableService
  <2>. QED
    BY <1>2, <2>3, <2>4, <2>5, <2>6 DEF Beginning
<1>3. ASSUME NEW u \in User, NEW s \in Service, MintRead(u, s) PROVE JustifiedInv'
  BY <1>0, <1>3 DEF MintRead, JustifiedInv, Unambiguous, Issued
<1>4. ASSUME NEW m \in minting, NEW j \in Jti, MintSign(m, j) PROVE JustifiedInv'
  <2>1. /\ tokens' = tokens \cup {Signed(m, j)} /\ \A t \in tokens : t.jti # j
        /\ rows' = rows /\ revoking' = revoking /\ now' = now
    BY <1>4 DEF MintSign
  <2>2. Signed(m, j).jti = j /\ Signed(m, j).iat <= now
    BY FloorFact DEF Signed, TypeOK
  <2>3. Unambiguous' /\ Issued'
    BY <2>1, <2>2 DEF JustifiedInv, Unambiguous, Issued
  <2>. QED
    BY <1>0, <2>1, <2>3 DEF JustifiedInv
<1>5. ASSUME NEW tx \in revoking, Commit(tx) PROVE JustifiedInv'
  <2>1. /\ tokens' = tokens /\ now' = now /\ revoking' \subseteq revoking
        /\ rows' = rows \cup SubjectRows(tx) \cup TokenRows(tx) /\ log' = log \cup Entries(tx)
    BY <1>5 DEF Commit
  <2>2. ASSUME NEW row \in SubjectRows(tx)
        PROVE  row.jti = NoJti /\ SubjectJustified(row.sub, row.scope, row.at)'
    <3>1. PICK u \in tx.subs :
            row = [sub |-> u, scope |-> tx.scope, jti |-> NoJti, at |-> tx.at, purge |-> tx.at + tx.keep]
      BY <2>2 DEF SubjectRows
    <3>2. row.sub = u /\ row.scope = tx.scope /\ row.jti = NoJti /\ row.at = tx.at
      BY <3>1
    <3>3. [sub |-> u, scope |-> tx.scope, at |-> tx.at, committed |-> now] \in log'
      BY <2>1 DEF Entries
    <3>. QED
      BY <3>2, <3>3 DEF SubjectJustified
  <2>3. ASSUME NEW row \in TokenRows(tx)
        PROVE  row.jti # NoJti /\ TokenJustified(row.jti)'
    <3>1. PICK x \in tokens : x.jti \in tx.jtis /\ row.jti = x.jti
      BY <2>3 DEF TokenRows
    <3>2. PICK t \in tokens : /\ t.jti = x.jti /\ t.sub \in tx.subs
                              /\ tx.scope = Global /\ t.iat <= tx.at
      BY <3>1 DEF JustifiedInv
    <3>3. [sub |-> t.sub, scope |-> Global, at |-> tx.at, committed |-> now] \in log'
      BY <2>1, <3>2 DEF Entries
    <3>4. row.jti # NoJti
      BY <3>1, NameAssumption DEF TypeOK
    <3>. QED
      BY <2>1, <3>1, <3>2, <3>3, <3>4 DEF TokenJustified, Covers, InScope
  <2>. QED
    BY <1>0, <2>1, <2>2, <2>3 DEF JustifiedInv, Unambiguous, Issued
<1>. QED
  BY <1>1, <1>2, <1>3, <1>4, <1>5, StepKinds DEF Minting

LEMMA ListsJustifiedStep ==
    ASSUME TypeOK, TypeOK', JustifiedInv, ListsJustifiedInv, [Next]_vars
    PROVE  ListsJustifiedInv'
<1>0. /\ \A sub, scope, at : SubjectJustified(sub, scope, at) => SubjectJustified(sub, scope, at)'
      /\ \A j : TokenJustified(j) => TokenJustified(j)'
  BY Monotone, JustificationsStay
<1>1. ASSUME NEW snap, NEW c, SnapJustified(c, snap) PROVE SnapJustified(c, snap)'
  BY <1>0, <1>1 DEF SnapJustified
<1>2. \A c \in Client : SnapJustified(c, EmptyList.snap)'
  BY DEF SnapJustified, EmptyList, NoSnapshot
<1>3. \A p \in polls : SnapJustified(p.client, p.snap)'
  BY <1>1 DEF ListsJustifiedInv
<1>4. ASSUME NEW c \in Client, NEW l \in {list[c], saved[c]} PROVE SnapJustified(c, l.snap)'
  BY <1>1 DEF ListsJustifiedInv
<1>5. CASE Tick \/ Granting \/ Minting \/ Beginning \/ Purge \/ UNCHANGED vars
           \/ \E tx \in revoking : Commit(tx) \/ Rollback(tx)
  <2>1. polls' = polls /\ list' = list /\ saved' = saved
    BY <1>5 DEF Tick, Granting, CreateGrant, ActivateUser, EnableService, Minting, MintRead, MintSign,
       Beginning, DeleteGrant, ReplaceRoles, KillUser, DisableService, Begin, Purge, vars, Commit, Rollback
  <2>. QED
    BY <1>3, <1>4, <2>1 DEF ListsJustifiedInv
<1>6. ASSUME NEW c \in Client, NEW by \in Poller, PollRead(c, by) PROVE ListsJustifiedInv'
  <2>1. /\ polls' = polls \cup {[client |-> c, by |-> by, asOf |-> now, snap |-> Feed(c)]}
        /\ list' = list /\ saved' = saved
    BY <1>6 DEF PollRead
  <2>2. SnapJustified(c, Feed(c))
    BY DEF SnapJustified, Feed, FeedRows, JustifiedInv
  <2>. DEFINE f == Feed(c)
  <2>3. \A p \in polls' : p \in polls \/ (p.client = c /\ p.snap = f)
    BY <2>1
  <2>4. ASSUME NEW p \in polls' PROVE SnapJustified(p.client, p.snap)'
    <3>1. CASE p \in polls
      BY <1>3, <3>1
    <3>2. CASE p.client = c /\ p.snap = f
      BY <1>1, <2>2, <3>2
    <3>. QED
      BY <2>3, <3>1, <3>2
  <2>. QED
    BY <1>4, <2>1, <2>4 DEF ListsJustifiedInv
<1>7. ASSUME NEW p \in polls, PollMerge(p) PROVE ListsJustifiedInv'
  <2>1. polls' \subseteq polls
    BY <1>7 DEF PollMerge
  <2>2. ASSUME NEW c \in Client PROVE SnapJustified(c, list[c].snap)' /\ SnapJustified(c, saved[c].snap)'
    <3>1. /\ list'[c].snap \in {list[c].snap, saved[c].snap} \/ (c = p.client /\ list'[c].snap = p.snap)
          /\ saved'[c].snap \in {list[c].snap, saved[c].snap} \/ (c = p.client /\ saved'[c].snap = p.snap)
      <4>. DEFINE merged == [synced |-> TRUE, last |-> now, snap |-> p.snap]
      <4>1. /\ list'[c] = list[c] \/ (c = p.client /\ list'[c] = merged)
            /\ saved'[c] = saved[c] \/ (c = p.client /\ saved'[c] = merged)
        BY <1>7, MergeList
      <4>2. merged.snap = p.snap
        OBVIOUS
      <4>. QED
        BY <4>1, <4>2
    <3>. QED
      BY <1>3, <1>4, <3>1 DEF SnapJustified
  <2>. QED
    BY <1>3, <2>1, <2>2 DEF ListsJustifiedInv
<1>8. ASSUME NEW p \in polls, PollFail(p) PROVE ListsJustifiedInv'
  BY <1>3, <1>4, <1>8 DEF PollFail, ListsJustifiedInv
<1>9. ASSUME NEW c \in Client, Restart(c) PROVE ListsJustifiedInv'
  <2>1. polls' \subseteq polls /\ saved' = saved
    BY <1>9 DEF Restart
  <2>2. ASSUME NEW d \in Client PROVE SnapJustified(d, list[d].snap)'
    <3>1. list'[d].snap \in {list[d].snap, saved[d].snap, EmptyList.snap}
      BY <1>9, RestartList
    <3>. QED
      BY <1>2, <1>4, <3>1 DEF SnapJustified
  <2>. QED
    BY <1>3, <1>4, <2>1, <2>2 DEF ListsJustifiedInv
<1>. QED
  BY <1>5, <1>6, <1>7, <1>8, <1>9, StepKinds DEF Polling

\* A service refuses a token as revoked only for a revocation that covers it, or because the
\* service itself was disabled: nothing leaks to another service or to a newer token.
THEOREM RefusalsJustified == Spec => []RefusalsAreJustified
<1>1. Init => TypeOK /\ JustifiedInv /\ ListsJustifiedInv
  <2>1. EmptyList \in DenyList
    BY DEF EmptyList, NoSnapshot
  <2>2. Init => TypeOK /\ JustifiedInv
    BY <2>1 DEF Init, TypeOK, JustifiedInv, Unambiguous, Issued
  <2>3. Init => ListsJustifiedInv
    BY DEF Init, ListsJustifiedInv, SnapJustified, EmptyList, NoSnapshot
  <2>. QED
    BY <2>2, <2>3
<1>2. TypeOK /\ JustifiedInv /\ ListsJustifiedInv /\ [Next]_vars
        => (TypeOK /\ JustifiedInv /\ ListsJustifiedInv)'
  BY TypeStep, JustifiedStep, ListsJustifiedStep
<1>3. TypeOK /\ JustifiedInv /\ ListsJustifiedInv => RefusalsAreJustified
  <2>. SUFFICES ASSUME TypeOK, JustifiedInv, ListsJustifiedInv, NEW c \in Client, NEW t \in tokens,
                       t.aud = c, IsRevoked(c, t), list[c].snap.enabled
                PROVE  \E r \in log : Covers(r, t)
    BY DEF RefusalsAreJustified
  <2>1. CASE t.jti \in list[c].snap.jtis
    BY <2>1 DEF ListsJustifiedInv, SnapJustified, TokenJustified, JustifiedInv, Unambiguous
  <2>2. ASSUME NEW e \in list[c].snap.subs, e.sub = t.sub, t.iat <= e.at
        PROVE  \E r \in log : Covers(r, t)
    <3>1. PICK r \in log : r.sub = e.sub /\ r.scope \in {c, Global} /\ r.at = e.at
      BY DEF ListsJustifiedInv, SnapJustified, SubjectJustified
    <3>. QED
      BY <2>2, <3>1 DEF Covers, InScope
  <2>. QED
    BY <2>1, <2>2 DEF IsRevoked
<1>. QED
  BY <1>1, <1>2, <1>3, PTL DEF Spec
=============================================================================
