# MM OS: a TLA+ model

MM OS is a company shell (FastAPI over PostgreSQL, `backend/`) that signs people in, decides
which services they may use and hands them a signed token per service. Services (`servicedesk/`,
`passwordmanager/`, others outside the repository) run the client library
`packages/mmos-client-py`, which verifies tokens on its own and learns of revocations by polling.

This directory holds specifications of the parts where a mistake is hard to see and hard to test
(concurrent transactions, lost and late messages, restarts), TLC configurations that check them on
small instances, and TLAPS proofs of the most important results for every instance.

    tlc -workers 2 -config MCTickets.cfg MCTickets.tla       # one run
    tlapm TicketsProofs.tla                                  # one module of proofs

## 1. Inventory

| Component | State it keeps | Operations | Module |
|---|---|---|---|
| Service access (`routers/tokens.py`, `routers/platform.py`, `routers/agent.py`, `security.py`) | grants, services, revocations | grant, revoke, replace roles, kill, disable, hand off a token, feed, hourly purge | `Revocation` |
| Service client (`mmos_client/_denylist.py`, `_state.py`, `_verify.py`, `core.py`) | deny-list in memory, a copy on disk, poller thread | poll, merge, verify, restart | `Revocation` |
| Activity outbox (`mmos_client/activity.py`, `servicedesk/app/activity.py`) and collector (`routers/activity.py`) | `activity_events`, `activity_delivery`; `service_activity` | capture at the flush, publish, collect, settle, back off | `ActivityOutbox` |
| Sign-in (`routers/auth.py`, `deps.py`, `provision.py`) | PIN hash, failed attempts, lock, sessions | PIN and Google sign-in, confirm step, PIN change, reset, logout | `SignIn` |
| Accounts and their addresses (`routers/people.py`, `people_sheet.py`, `onboarding.py`, `provision.py`, `routers/auth.py`) | employees, users, personal addresses | create, list, link, confirm the code, reset, import | `Identity` |
| Administrators' guard (`authorization.py`, `routers/people.py`, `routers/platform.py`, `people_sheet.py`) | `is_platform_admin`, `is_active`, employment | promote, demote, switch off, exit, restore | `AdminGuard` |
| Roles of a service (`roles_io.py`, `roles_cli.py`, `access_contract.py`, `routers/platform.py`, `people_sheet.py`, `onboarding.py`) | permission catalog, roles, grants | hand edits, role files, drafts, sheets, bulk and batch grants | `Roles` |
| Delegated administration (`authorization.py`, `routers/platform.py`) | grants, `user_capabilities` | grant within the ceiling, give and take capabilities | `Delegation` |
| Request limits (`ratelimit.py`) | a counter per bucket and window | hit, sweep | `RateLimit` |
| Heartbeat and usage (`_heartbeat.py`, `routers/agent.py`) | counters in memory, daily sums, kill switch | report, beat, add up, toggle | `Heartbeat` |
| LLM control plane (`llm_control.py`, `routers/platform.py`, `routers/agent.py`) | features, switches, allow-lists, usage | declare, report, switch, set policy, fetch | `LlmControl` |
| JWKS cache (`_jwks.py`, `_state.py`, `security.py`) | a key, its age, the time of the last fetch, a saved copy | get, fetch, restart, rotate | `KeyCache` |
| Service Desk tickets (`state_machine.py`, `privacy.py`, `routers/{tickets,proposals,decisions}.py`) | tickets, proposals, decisions | create, assign, transition, propose, decide | `Tickets` |
| Desk: references and clocks (`refs.py`, `state_machine.py`, `sla.py`, `routers/admin.py`) | numbers, first response, closing, targets | create, move, reopen, retarget, rename | `Desk` |
| Desk: approvers (`routing.py`, `org_chart.py`, org chain in `routers/agent.py`) | rules, default approver, managers | route, preview, edit | `Routing` |
| Desk: mails (`notifications.py`) | the list of failed mails | notify, retry, restart | `Notices` |
| Comments, seam to MM OS, password manager shell, embed bar, frontends, seeds, migrations, scripts | none of interest | | none |

How they interact. A browser signs in and holds a shell session; it exchanges the session for a
token of one service (handoff). The service verifies the token's signature with a key of its cache
and its times by itself, and looks the subject up in its deny-list, which a thread refreshes from
the feed, at most one request of its own and one "cold" request of a user at a time. An
administrator's handler takes access away and writes the revocation rows in the same transaction.
A service's business transaction writes its activity events with it; publisher threads post them to
the collector. A heartbeat thread ships usage and brings the kill switch back. The Service Desk's
handlers are concurrent transactions on a ticket's row; routing one asks MM OS for the org chart.

What is hard, and what makes each part correct:

* **Service access and the client.** A handoff overlaps a removal; a poll fails, is late, or is
  overtaken; a process restarts on an old list; the purge forgets rows while tokens live. Correct:
  a loss of access is always published; a revoked token is refused everywhere once the revocation
  has been seen and, at the latest, when the offline authority ends; nobody else is refused.
* **Activity.** Answers are lost after the collector's commit, publishers overlap and die. Correct:
  the history shows the committed changes, once, all of them in the end.
* **Sign-in.** Three handlers verify a PIN: sign-in and the PIN change count a wrong one on the same
  attempts, the confirm step does not; guesses arrive at all of them at once, and sign-ins overlap PIN
  changes, resets and switch-offs. Correct: bounded guesses per lockout; a change of PIN or of access
  ends the sessions there are.
* **Accounts.** Addresses move between lists while a confirm step hashes a PIN. Correct: a personal
  address signs in only after its code was typed, and never replaces a PIN its owner chose.
* **Administrators' guard.** Requests overlap that each leave one administrator on their own.
  Correct: somebody remains, and nobody acts on rights already lost.
* **Roles.** Many ways to change what a role may do or who holds it, some on drafts that have
  become old. Correct: live sessions claim nothing taken away; roles are declared; an import settles.
* **Delegation.** Checks on grants, roles and departments that change before the write. Correct:
  no power arises that no administrator gave.
* **Shared counters** (limits, usage). Several workers on one row. Correct: the budget is exact;
  usage is lost or doubled only where the code says so.
* **Caches** (keys, kill switch, LLM policy). Correct: a withdrawn key is forgotten in time, a new
  one served in time, a switch arrives in the end, a cached policy is current for its version.
* **Tickets.** Handlers without a lock overwrite each other's status; review goes several rounds.
  Correct: the tables are kept, no self-approval, every approver counted afresh in every round.
* **Around the tickets.** Numbers, clocks, approvers and mails through overlaps and failures.

The hazards are listed line by line in `PROJECT.json`, each with the properties that watch it or
the reason why none does.

## 2. The modules

Every module models a handler as the transaction it is. A handler that reads without a lock and
writes at its commit is two actions (`...Read`, `...Commit`), with a record of what was read in
between; a handler that holds a row lock takes it in the first action and releases it in the second.
`Abort` and `Rollback` are the requests that die or are refused at any point. `UNCHANGED` columns
are columns SQLAlchemy does not write: it writes those whose value differs from the one loaded, which
the models keep where it matters.

**`Revocation`**: service access and the client, end to end, on one clock (`docs/04-auth-flow.md`,
all containers share a host's clock). `MintRead`/`MintSign` are the halves of
`issue_service_token`: it reads the grants, then signs with the clock of that moment.
`DeleteGrant`, `ReplaceRoles`, `KillUser`, `DisableService` fix their `revoked_at` and become
visible at `Commit`. `Feed` is the snapshot query, `PollRead`/`PollMerge`/`PollFail` a request of the
client's poller thread or of a cold start, `Restart` a new process that reads the saved list.
`Accepts` is the verdict of `MMOS._verify`. A second is `Sec` ticks, because tokens carry whole
seconds and revocations microseconds. `log` is a history of all revocations, never purged, and
`seen` (in an answer) is what of it had been committed when the answer was read; only properties
read them.

**`ActivityLog`** is what activity reporting promises: changes are committed, some sets of committed
changes reach the history, each in the end. **`ActivityOutbox`** is how the outbox and the collector
do it, and implements `ActivityLog` under the identity mapping of `changed` and `history`. `Flush`
is the ORM hook, `Post`/`Collect`/`GiveUp`/`Settle` are `publish_once` with the collector in the
middle, `strays` are requests carried out after their sender timed out, `waiting` abstracts
`next_attempt_at > now`.

**`SignIn`**: one row lock per user, sign-in, PIN change, the confirm step and IT's cutoffs as
requests. A PIN is a version number and it is unset, issued (a one-time PIN) or its owner's own; a
guess is right or wrong. The confirm step asks for an own PIN (`OnboardWrong`, `OnboardRight`) and
sets one otherwise (`OnboardRead`, then `OnboardPersonal` or `OnboardSession`); it takes no lock, and
neither reads nor writes the attempts when it verifies. `wrong` is a history of when the present PIN
was guessed wrong, and whether the handler counted it. Session identifiers are recycled in the model; a request that remembers an identifier
whose session has ended and whose identifier was given again would see another session, so
`Issue` takes only identifiers no request remembers.

**`Identity`**: employees with their accounts and addresses, and the visitors who hold an address.
The confirm-your-code handler is two steps, because it hashes a PIN between its reads and its
commit; every other handler, and every row of a sheet or a roster, is one. `proved` is a history of
the codes each address has typed since it was listed.

**`AdminGuard`**: users with employees, the advisory lock, and requests holding the row they loaded.
`TakeGuard` is `protected_admin_change` with the reload, the check of the actor and the margin;
`Commit` writes what the handler decided. `blind` is a history: some request removed an
administrator without having taken the guard.

**`Roles`**: the catalog, the roles and the grants of one service, one step per request, and the
session of one person, which a revocation ends (`CutOff`). `Assignments` is the engine that
`roles_io.assign_roles` shares between role files and sheets, as the set of outcomes: the engine has
the last grant of an unordered query at hand for each person (`Picks`). `Imports` is `apply`,
`MakeDraft`/`ImportDraft` a draft that waits for an administrator while roles change.

**`Delegation`**: permissions of roles, grants with an expiry, and capabilities with a scope. A
delegate's request passes `require_grant_ceiling` in one step and is written in another; `bestowed`
is a history of what administrators gave, `raced` of what a role got while a request for it was
decided already.

**`Budget`** is what a request limit promises: one budget for every bucket and window.
**`RateLimit`** is `check_rate_limit` statement by statement, with deaths between them and the
sweep, and implements `Budget` with `used <- accepted, verdict <- Verdict`.

**`Heartbeat`**: the counters of each process, its heartbeat thread (`PostBeat`, `Receive` or
`GiveUpBeat`, `Clear`), the handlers at MM OS (`Load`, `Store`, `Fail`) and the switch. The code
counts; the model gives every unit a number, a counter is the set of the units in it and the row of
the day says how often each unit is in it, so that a lost unit cannot be made up for by another that
is counted twice, as it could in a sum. `spoilt` names the cases in which the code gives no
guarantee, so that the properties say what holds in all others.

**`LlmControl`**: declarations, reports, administrators' decisions and policy fetches, each in the
statements it is made of; `holder` is the row lock that the flush in `get_or_create_feature` takes.

**`KeyCache`**: `_jwks.py` on two clocks (`time.time` for ages, `time.monotonic`, which begins with
the machine, for the spacing of fetches), the saved copy, restarts of process and machine, rotations
and withdrawals. `failed` is a history: the keys since whose last change a fetch has failed.

**`Tickets`**: one ticket with the tables of `state_machine.py`, the routings `resolve_approver` can
return, and the handlers. Only `decide` locks the row. `signed`, `visits`, `verdicts` and `stale`
are histories. Approvers are assumed to hold the permission `ticket.approve`, as the desk's roles
give it to everybody.

**`Desk`**: the references, the instants a ticket was answered and closed, and the targets they are
measured against; **`Routing`**: the rules, MM OS's walk up the chart one employee at a time, and the
default, while all of them are edited; **`Notices`**: the list of mails that failed, with retries
that copy, clear and send it at once.

`MC...` modules only add the model values, the symmetry sets and, in six of them, a second or third
module beside the first, which they extend both: a behaviour is then one of one module or of the
other, chosen by `part` in its initial state (`MCAccess` also serves runs of `Revocation` alone, by
`Parts`). The modules put together share no state in the code either, but for the grants, which
`Revocation` and `Delegation` each keep for questions of their own (section 5), and the other's
variables stay where they are, so that such a run checks what two runs would. The module that comes
second has names of its own (`KeysSpec`, `LlmSpec`, `IdentitySpec`, `LimiterSpec`, `BeatsSpec`,
`CeilingSpec`, `RoutesSpec`, `MailsSpec`), so that proofs and runs can extend several modules and
speak of the same definitions. In `MCProgress` the fairness of each is stated where its actions may
be taken. `...Proofs` modules hold theorems. Definitions whose comment starts with "Mutant of" are
not used by the specification: each is a plausible bug of one definition, under which the property
named in `PROJECT.json` fails.

## 3. The runs

| Run | Question | Bounds | Result |
|---|---|---|---|
| `authority` | Is every loss of access published, and do rows outlive the tokens they cover? Can delegates make a power no administrator gave? | 1 user, 2 services, 2 roles, 2 tokens, 1 removal, temporary grants; 2 people, 2 departments, 2 roles, 1 permission, 2 grants, 2 capability rows; 1.1 million states | holds |
| `denylist` | Does a client with failures, restarts and a saved list refuse what it must, and only that? | 1 user, 2 services, 1 of them a client, 1 token, 1 removal, 3 ticks; 5.9 million states | holds |
| `signin` | Are counted guesses bounded, and does a PIN change leave no other session? Does a service trust the right keys for the right time? | 1 user, 2 requests, 2 sessions, 2 attempts, lockout of 2, 3 ticks, 2 new PINs, 1 uncounted guess at a time; 2 keys, 7 moments, every restart; 2.7 million states | holds |
| `adminguard` | Does the guard keep an administrator, and act for one? Do LLM decisions, usage and cached policies stand? | 3 people, 2 requests, every initial state with an administrator; 1 feature, 2 requests, 2 decisions, 2 reports; 1.4 million states | holds |
| `people` | Do sessions, roles and imports agree? Who signs in with which address? | 2 people, 2 roles, 2 permissions, 4 role files (one not valid), 1 manifest, 2 sheets; 2 employees, 1 company and 1 private address, 3 acts; 346,000 states | holds |
| `progress` | Do outbox and collector implement `ActivityLog`, and the limiter `Budget`, liveness included? | 2 events, 2 publishers, batches of 1, 2 crashes, 1 stray request; 3 workers, limit of 2, 3 windows; 48,000 states | holds |
| `heartbeat` | When is usage lost or doubled, and does the kill switch arrive? | 2 processes, 2 handlers, 2 units, 1 flip, 1 trouble; 792,000 states | holds |
| `tickets` | Do decisions keep their promises while other handlers overwrite statuses? | 3 people, 1 agent, lists of at most 2 approvers, 2 handlers, 2 versions, 2 visits to review; 1.2 million states | holds |
| `desk` | Are numbers, clocks, approvers and mails right through overlaps and failures? | 2 tickets, 2 handlers, 2 hops over the turn of a year; 3 people, 2 rules, 2 edits; 2 mails, 2 retries, 3 failures; 2.4 million states | holds |
| `mint_race` | Is a removed role always covered? (`docs/04-auth-flow.md`) | as `authority` without the delegates, 2 ticks, permanent grants only | violated |
| `confirm_guesses` | Are guesses bounded at every handler that verifies a PIN? (`docs/04-auth-flow.md`) | as `signin`, 3 uncounted guesses at a time | violated |
| `illegal_hop` | Are the transition tables kept? (`state_machine.py`) | as `tickets` | violated |

Of the violations, each with the sentence of the repository it contradicts in `PROJECT.json`:

* **mint_race**: the handoff signs, in a later second, grants it read before a removal committed;
  nothing revokes that token, which is in time for its whole life.
* **confirm_guesses**: `onboard` (`auth.py:738-744`) answers a wrong PIN without counting it in
  `failed_pin_attempts` and without asking for `locked_until`; its limit of requests per address is
  the only one there.
* **illegal_hop**: `transition_ticket` and `create_proposal` write a status computed from an
  unlocked read.

**Stated, and not true of the code.** Six more properties stand in the modules, in no
configuration of this directory. Put in place of a configuration's properties, TLC shows a trace:

| Property | Under | What happens |
|---|---|---|
| `FreshTokenUsable` (`Revocation`) | `MCAuthority.cfg` with `Sec = 2`, `TTL = 2`, retentions of 5 | `_denylist.py:52` compares a token's whole-second `iat` with the microseconds of a revocation: a token minted after a revocation, in the same second, is refused for its whole life, against `roles_io.py:70` "come in with the new permissions" |
| `MergedRevocationSticks` (`Revocation`) | `MCDenyList.cfg` with one service, `MaxPolls = 2`, `HttpTimeout = 1` | `_denylist.py:56` replaces the list by any snapshot; a cold poll and the poller's own overlap, and the older answer, merged last, takes a revocation out again until the next poll |
| `CutoffEndsSessions` (`SignIn`) | `MCSignIn.cfg` | `revoke_identity` (`authorization.py:94`) reads the sessions before the handler waits for the user's row, so a sign-in that holds it commits one more |
| `AdminRemains` (`AdminGuard`) | `MCAdminGuard.cfg` | `kill_user` (`platform.py:1401`) and others decide on a row loaded before the guard whether to take it; the target is promoted meanwhile, and the others are removed |
| `OneAccountPerAddress` (`Identity`) | `MCPeople.cfg` | `create_person` (`people.py:201`), the linking of an address, a sheet's official address and rosters do not look at the verified personal addresses |
| `CachedSwitchCurrent` (`LlmControl`) | `MCAdminGuard.cfg` | `llm_policy` reads the service's switch before it counts `config_version`: a service caches the old switch with the new version, and keeps it until the next change or its heartbeat |

The properties of the passing runs are what remains true in spite of these: `LossIsPublished` where
`LossIsCovered` fails, `ExposureBounded` where `MergedRevocationSticks` fails, `RefusalsAreJustified`
where `FreshTokenUsable` fails, `OwnChangeEndsSessions` where `CutoffEndsSessions` fails,
`CountedGuessesBounded` where `GuessesBounded` fails, `GuardKeepsAdmin` where `AdminRemains` fails, `VerifiedByCode` where `OneAccountPerAddress` fails,
`CachedFeaturesCurrent` where `CachedSwitchCurrent` fails, the approval properties where `LegalHops`
fails. In the same way the histories `raced`, `spoilt`, `contested`, `crossed`, `overlapped` and
`excused` name the races in which the code promises nothing, and the properties speak of the rest;
the hazards in `PROJECT.json` say which of their cases a property leaves out in this way.

Other things met while modelling, which the models reproduce and no property is about:
the preview of a rule that names the requester alone says so, although the request will be routed
past it (`routing.py`); two first calls of `set_approval_default` may leave two rows; a later commit
replaces the instant of a first response; a rejected ticket keeps breaching its target, for
`closed_at` is set at "closed" only; `get_person` after the commit makes a handler fail with its
decision made (`decisions.py:99`); an approver who has left, or who is the requester by the
default, leaves a ticket in review; `org_chain` that does not answer makes `resolve_approver` raise,
although `routing.py:9` says it never does; `provision.py:84` resets counters read from a stale row,
which the ORM may therefore not write.

**Why the bounds are enough.** Most violations need two requests and one object, and the passing
runs have at least those: two handlers overlap on one account, ticket, feature or grant. Two
services are needed for a row of the wrong scope, two roles for one that replaces another and for a
token that claims one of them, three administrators for two removals and one who remains, two
approvers for an order between them and a third person for the requester, two visits for a second
round, two attempts so that one wrong guess is still allowed. Two events with batches of one make
the order of the outbox matter; three workers at a limit of two make one of them the loser. Two
delegates make a chain, two departments a capability that could widen, two keys a rotation. Two
mails make one that fails while another is sent again; nothing in the repository calls
`retry_failed`, whose docstring expects a caller, and the model has two calls. The lockout, the
token lifetime, the skew, the retention, the refetch interval and the ages of keys are the smallest
values in the order the configuration has them. `denylist` has one poll in flight and answers
without delay, to stay small; overlapping and late polls are in the proofs, for any number.
`CHECK_DEADLOCK FALSE` is set everywhere: the bounds (clock, versions, visits, tokens, acts) end
every behaviour, and so do a closed ticket and a drained outbox. Symmetry sets hold names that
appear in no constant beside their set; liveness is checked without symmetry.

**Fairness.** `ActivityOutbox`: the publishers' loops run for as long as their processes do (`_run`:
`Post`, `Settle` and the time-out are weakly fair), a back-off has an end (at most 300 seconds), and
an exchange that is attempted infinitely often for an event succeeds sometimes (strong fairness of
the collector's commit and of settling an answer: the network may lose any finite number of
messages). A service need not commit anything. `RateLimit`: a call that has begun goes on to its next
statement (weakly fair; a worker may die instead). `Heartbeat`: the threads beat for ever, a handler
carries out its request, an answer that is there is taken or its wait ends; `PostBeat` is strongly fair,
since another process may have the handlers for itself for a while, not for ever. Crashes, timeouts
and restarts are bounded in number, which is the assumption that processes stay up long enough at
some time. Nothing else assumes fairness.

## 4. What is proved

The proofs hold for all values of the constants that satisfy the named assumptions; TLC evaluates
these assumptions on every run. Each inductive invariant was model-checked before its proof was
written. A module of proofs extends one module, two or three, and proves theorems about each
specification separately.

**`RevocationProofs`** (`TimeAssumption`, `RetentionAssumption`, `NameAssumption`). The retention of
a row exceeds token lifetime plus skew: this is what the purge rests on.
* `TypeCorrect`.
* `LossPublished`: the invariant adds that whoever an open transaction takes something from is among
  its subjects and in its scope (`TxInv`), and that what a token or a pending handoff claims is
  still granted or was overtaken by a revocation committed since its grants were read
  (`PublishedInv`).
* `RowsOutlive`: a row of the history is in the table or its purge time is past (`KeptInv`).
* `SyncedServiceRefuses`: an answer in flight, the list and the saved copy hold every revocation of
  what they have `seen` (`HoldsInv`), except those older than the retention, whose tokens are out of
  time.
* `ExposureIsBounded`: what a list has not seen was committed at most one answer's delay before the
  list was merged, or later (`RecentInv`).
* `RefusalsJustified`: entries of a list come from the history in scope (`JustifiedInv`,
  `ListsJustifiedInv`).

**`ProgressProofs`**, outbox (`BatchAssumption`, `BoundAssumption`). `OutboxInv` adds to the types that an
answered batch is in the history and all batches are of committed events (`ExchangeInv`), and that
the outbox holds the events of exactly the committed changes, none of them in an open transaction
(`CaptureInv`). From it `DeliveredCollected`, `DeliveryFinal` and `ImplementsLog`: every step is a
step of `ActivityLog` or a stutter (its safety part; the fair part is model-checked).

**`SignInProofs`** (`LockoutAssumption`, `SignInNames`). `IInv`: types, a PIN sign-in and a PIN
change hold their user's row (`LockInv`), and a change at work has read every session its user has
(`ReadInv`), since whoever would add one waits for the row. From it `ChangeLeavesOwn`. `FewGuesses`, of
`CountedGuessesBounded`, adds that a request that holds the row has read the counters there are
(`RowInv`), and that the counters tell enough of the counted guesses (`GuessInv`): without a lock there
were no more recent ones than `attempts`, with one every one is forgotten by the time the lock ends.
A PIN that a reset or the confirm step sets begins a new history, whatever columns are not written.

Keys (`KeyCacheAssumption`: the refetch interval is positive, the age at which a key is fetched again
no shorter than it, and the age up to which it is trusted no shorter than that; any waiting time).
`KeysInv`: no instant is in the future and a fetch on its way is at most `Timeout` old
(`KeyClocks`); a withdrawn key, in the cache or on the disk, was fetched at most `Timeout` after its
withdrawal, and one still on its way was asked for before it (`WithdrawnDated`); the last fetch
filled the cache, or it failed, or is older than the last change (`LastFetch`). From it `TrustEnded`,
`ForgottenInTime` and `NewKeyInTime`. The two clocks of the machine are why the start of the machine
is a case of its own in `LastFetch`: after it, a fetch is refused that the ages would ask for.

**`AdminGuardProofs`** (`GuardNames`). `IInv`: a request inside the guard holds the lock, so
there is one (`HolderInv`), and while a removal is inside, somebody else than its target is an
active administrator (`MarginInv`). `GuardedAdminRemains` and `GuardActsForAdmin` are parts of it.

LLM control plane (`LlmAssumption`). `LlmInv`: a call that has flushed holds its feature's row and has
its usage at hand (`Holds`); an administrator's call has read the value that still is, unless another
was at the same one (`StillRead`); a policy fetch that counted the version of now has the switch of
now (`Fetches`, `CachedBefore`). From it `UsageAccumulated`, `DecisionsKept` and `FeaturesCurrent`:
the row lock that the flush takes early is what `UsageExact` rests on, and SQLAlchemy's writing of
changed columns alone is what `DecisionsStand` rests on.

**`RolesProofs`** (`RolesAssumption`: role files, manifests and sheets have the shape their parsers
let through). `IInv`: the tables have their types and a grant's role exists (`Tables`), a draft is
as well-formed as a file, and the two theorems themselves, `CurrentSessions` and `RolesDeclared`.
`AssignmentsKeep` says, for whatever grant the engine has at hand for each person, that it gives
existing roles only and takes nothing from those it does not cut off; `CarriedRoles` and
`ImportOutcome` say it of "replaces" and of the whole import. `ImportsSettle` rests on what an import
that fills gaps leaves behind (`InForce`): the roles of its file, none that it replaces or would drop,
nobody with a role twice, and a role for everybody it has one for; a second import of the same file
then finds nothing to do. That nobody is moved needs `apply` not to ask for `people_override`, as the
people sheet does: an import that moved the last holder of a role would let the next one drop it.

Accounts (`IdentityAssumption`). The confirm step reads, hashes and commits, so `PeopleInv` asks that a
typed code is still its owner's (`TypedForOwner`) and the PIN that was read still the PIN (`PinRead`),
but for the addresses in `crossed`, listed anew meanwhile, and the accounts in `overlapped`, whose
PIN changed inside the step. From it `CodeVerifies` and `OwnPinKept`.

**`DelegationProofs`** (`HorizonAssumption`). A request is checked in one state and written in
another, so `IInv` asks of the request that waits what is asked of what is written: `RequestRooted`
and `RequestBacked`, beside `AuthorityRooted` and `CapabilityRooted`. `ServiceAuthority` and
`PlatformAuthority` follow.

**`ProgressProofs`**, limits (`LimitAssumption`: no request is older than the windows the sweep keeps).
`LimiterInv`: the counters within reach are the history of accepted hits (`TableIsHistory`), calls
are within reach (`CallsInReach`), and whoever lost the insert saw a row that was hit
(`LoserSawRow`). `LimiterTypeCorrect`, and `KeepsTheBudget`: under the refinement mapping every
behaviour is one of `Budget`.

Usage (`HeartbeatAssumption`). `BeatsInv`: a unit is in one process, a heartbeat carries what its
handler carries and no more than its process still counts (`Exchange`); what was shipped is in the
row, unless handlers overlapped (`ShippedStored`); and, unless a report was stored whose sender was
not told, rows and what handlers have read of them count a unit once, and a process that still
counts a unit which is known has shipped it in the heartbeat it is about to clear (`CountedOnce`).
The last part is what makes it inductive: a second report of the same unit is possible exactly when a
unit is known and its process does not know. From it `NoUsageLost` and `NoUsageTwice`.

**`TicketsProofs`** (`DeskNames`). `IInv`: types (and handlers are at work only once there is
a ticket), a remembered transition writes no approval, nothing past a proposal without one, and
nothing before a review from after it (`TransitionInv`), the decider holds the row's lock and its
memory agrees with the row (`LockInv`), what the ticket counts as approved has been signed
(`SignedInv`), and as long as no status was overwritten it is the turn of an approver who has not
approved (`TurnInv`). From it the four properties of the run, and `NoOwnDecision`: nobody decides on
their own request, which no run checks beside its proof.

**`DeskProofs`**, references and clocks (`DeskAssumption`). `DeskInv`: whoever creates has counted some
of the tickets there are (`Counted`), so its number is taken or the next; the first response is the
first move, and who has read one goes on after it (`FirstMove`). From it `NumbersHold` and
`ClocksHold`.

Approvers (`RoutingAssumption`: a chart of any size and shape, cycles included; any bound of the
walk). `RoutesInv`: a walk that nobody edited around has read the chain of managers so far (`Climbed`)
and found the first of it who qualifies (`Picked`), and started because no rule decides
(`RightSoFar`). From it `RequestsRoutedRight`. `Nearest` speaks of paths in the chart and the code of
a loop; that a path of managers is the list the loop has read would be an induction over its length.
It is proved as the least place where the two differ, which cannot be the first and has one before
it: `LeastOf` gives the least element of a set of numbers, from the library's `WFMin`.

Mails (no assumption). `MailsInv` adds that a retry that is not at work holds nothing. From it
`MailsKept`.

Only model-checked: liveness (`OutboxDrains`, the fair part of `HistoryIsFaithful`,
`EveryCallAnswered`, `SwitchReachesEveryProcess`), which is beyond the prover. Every safety property
of a passing run is a theorem. The six properties that are not true of the code, and the three
violations, have none.

## 5. Not modelled

* The contents of tokens, signatures; names, texts, labels, sort orders, audit rows.
* The feed's older form without snapshots, and a client that holds it.
* The collector's refusal of a batch (the client validates the same contract before it enqueues),
  the size of the back-off, and SQLite's variant of the outbox.
* The parsing and normalising of the people sheet, its older import, MM OS's departments, and the
  columns of an employee that no property reads.
* Google's side of a sign-in, and the contents of its cookies; health and manifests in heartbeats.
* The desk's local roles (tickets take them as given) and its comments: a comment is one row that is
  added and never changed.
* The pages of MM OS and the desk, the embed bar, the password manager's shell (it keeps no secret
  yet), seeds, migrations, scripts and deployment: presentation, or run once by an operator.
* The modules share one database in the code. Handlers of different modules meet in the grants
  (`Revocation`, `Roles`, `Delegation`) and in the accounts (`SignIn`, `AdminGuard`, `Identity`): each
  module models the requests its properties are about, and takes the steps of the others on the
  shared columns as its own (a batch that replaces somebody's roles is `ReplaceRoles` in
  `Revocation` and `BatchGrants` in `Roles`).

## 6. What could come next

1. An abstract access authority (who may do what, and until when a loss may go unnoticed) that
   `Revocation` is shown to implement.
2. An abstract usage ledger that `Heartbeat` implements while nothing is spoilt, and an abstract
   ticket that `Tickets` implements while no status was overwritten.
3. `KeyCache` with the verdict of `Revocation`: a token whose key was withdrawn, under an old list.
4. `Delegation` with `Roles`: role files imported while a delegate's request is decided.
