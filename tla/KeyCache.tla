-------------------------------- MODULE KeyCache --------------------------------
(***************************************************************************)
(* packages/mmos-client-py/mmos_client/_jwks.py: the service's copy of the *)
(* one key MM OS publishes (security.py jwks), the copy saved in the state *)
(* directory (_state.py), rotations, failed fetches, restarts of the       *)
(* process and of its machine.                                             *)
(*                                                                         *)
(* Two clocks: time.time() tells the age of the keys, time.monotonic(),    *)
(* which starts with the machine, spaces the fetches.  get_key holds the   *)
(* cache's lock while it fetches.                                          *)
(***************************************************************************)
EXTENDS Integers

CONSTANTS
    Kid,
    MinRefresh,     \* seconds between two fetches (60)
    Stale,          \* age at which the keys are fetched again (300)
    Usable,         \* age past which no key is used (86400)
    Timeout,        \* the longest a fetch takes (5)
    Horizon,        \* bound: the last moment
    None

ASSUME KeyCacheAssumption ==
    /\ {MinRefresh, Stale, Usable, Timeout, Horizon} \subseteq Nat
    /\ MinRefresh > 0
    /\ MinRefresh <= Stale /\ Stale <= Usable
    /\ None \notin Kid

VARIABLES
    moment,
    published,  \* MM OS: the key it signs with and publishes, and since when
    retired,    \* history: when each key was last published, if it no longer is
    boot,       \* when the machine of the service started
    cache,      \* the process: kid, last_success, last_fetch
    saved,      \* the state directory: kid and fetched_at
    fetch,      \* the request for the keys that holds the lock
    failed,     \* history: the keys since whose last rotation, in or out, a fetch has failed
    answer      \* what get_key has just answered

keyVars == <<moment, published, retired, boot, cache, saved, fetch, failed, answer>>

Moment == 0 .. Horizon
Never == 0 - Usable - 1
Silent == [kid |-> None, known |-> FALSE]
NoFetch == [wanted |-> None, answered |-> None]
NothingSaved == [kid |-> None, at |-> Never]
Empty(s) == [kid |-> None, success |-> Never, fetched |-> s]

KeysInit ==
    /\ moment = 0
    /\ \E k \in Kid : published = [kid |-> k, since |-> Never]
    /\ retired = [k \in Kid |-> Never]
    /\ boot \in {Never, 0}
    /\ cache = Empty(boot)
    /\ saved = NothingSaved
    /\ fetch = NoFetch
    /\ failed = {}
    /\ answer = Silent

\* MM OS is restarted with another key; it publishes that one alone.
Rotate(k) ==
    /\ k # published.kid
    /\ published' = [kid |-> k, since |-> moment]
    /\ retired' = [retired EXCEPT ![published.kid] = moment, ![k] = Never]
    /\ failed' = failed \ {published.kid, k}
    /\ answer' = Silent
    /\ UNCHANGED <<moment, boot, cache, saved, fetch>>

NotFetching == fetch = NoFetch
CanRefetch == moment - cache.fetched >= MinRefresh
Age == moment - cache.success

\* Mutant of Wanted: keys are fetched for an unknown kid only.
WantedUnknownOnly(k) == cache.kid # k

\* Mutant of Wanted: keys are fetched when they are old only.
WantedStaleOnly(k) == Age >= Stale
Wanted(k) == Age >= Stale \/ cache.kid # k

Known(k) == cache.kid = k /\ Age <= Usable

Tell(k) == answer' = [kid |-> k, known |-> Known(k)]

\* get_key when the cached keys have to do.
GetCached(k) ==
    /\ NotFetching
    /\ ~(Wanted(k) /\ CanRefetch)
    /\ Tell(k)
    /\ UNCHANGED <<moment, published, retired, boot, cache, saved, fetch, failed>>

StartFetch(k) ==
    /\ fetch' = [wanted |-> k, answered |-> None]
    /\ cache' = [cache EXCEPT !.fetched = moment]

\* get_key when it fetches first.
GetFetching(k) ==
    /\ NotFetching
    /\ Wanted(k) /\ CanRefetch
    /\ StartFetch(k)
    /\ answer' = Silent
    /\ UNCHANGED <<moment, published, retired, boot, saved, failed>>

\* force_refresh passes the spacing over.
ForceRefresh(k) ==
    /\ NotFetching
    /\ StartFetch(k)
    /\ answer' = Silent
    /\ UNCHANGED <<moment, published, retired, boot, saved, failed>>

\* MM OS answers with the key it publishes at that moment.
Serve ==
    /\ ~NotFetching /\ fetch.answered = None
    /\ fetch' = [fetch EXCEPT !.answered = published.kid]
    /\ answer' = Silent
    /\ UNCHANGED <<moment, published, retired, boot, cache, saved, failed>>

\* The answer is installed, dated now, and saved if the disk allows; get_key goes on.
Install ==
    /\ fetch.answered # None
    /\ cache' = [cache EXCEPT !.kid = fetch.answered, !.success = moment]
    /\ saved' \in {[kid |-> fetch.answered, at |-> moment], saved}
    /\ answer' = [kid |-> fetch.wanted, known |-> fetch.answered = fetch.wanted]
    /\ fetch' = NoFetch
    /\ UNCHANGED <<moment, published, retired, boot, failed>>

\* The fetch fails or times out, whatever MM OS did: the cached keys are kept.
FetchFails ==
    /\ ~NotFetching
    /\ failed' = Kid
    /\ Tell(fetch.wanted)
    /\ fetch' = NoFetch
    /\ UNCHANGED <<moment, published, retired, boot, cache, saved>>

\* Mutant of Loaded: the saved keys are taken for fresh ones.
LoadedAsFresh == [kid |-> saved.kid, success |-> moment, fetched |-> boot']
Loaded ==
    IF saved.kid # None /\ moment - saved.at <= Usable
    THEN [kid |-> saved.kid, success |-> saved.at, fetched |-> boot']
    ELSE Empty(boot')

\* The process starts again, with its machine or without; last_fetch is 0.0, the moment at
\* which the monotonic clock started.
Restart ==
    /\ boot' \in {boot, moment}
    /\ cache' = Loaded
    /\ fetch' = NoFetch
    /\ answer' = Silent
    /\ UNCHANGED <<moment, published, retired, saved, failed>>

KeysTick ==
    /\ moment < Horizon
    /\ ~NotFetching => moment - cache.fetched < Timeout
    /\ moment' = moment + 1
    /\ answer' = Silent
    /\ UNCHANGED <<published, retired, boot, cache, saved, fetch, failed>>

KeysNext ==
    \/ \E k \in Kid : Rotate(k) \/ GetCached(k) \/ GetFetching(k) \/ ForceRefresh(k)
    \/ Serve \/ Install \/ FetchFails
    \/ Restart
    \/ KeysTick

KeysSpec == KeysInit /\ [][KeysNext]_keyVars

-----------------------------------------------------------------------------
(* Properties                                                              *)

KeyCacheTypeOK ==
    /\ moment \in Moment
    /\ published \in [kid : Kid, since : Moment \cup {Never}]
    /\ retired \in [Kid -> Moment \cup {Never}]
    /\ boot \in Moment \cup {Never}
    /\ cache \in [kid : Kid \cup {None}, success : Moment \cup {Never}, fetched : Moment \cup {Never}]
    /\ saved \in [kid : Kid \cup {None}, at : Moment \cup {Never}]
    /\ fetch \in [wanted : Kid \cup {None}, answered : Kid \cup {None}]
    /\ failed \subseteq Kid
    /\ answer \in [kid : Kid \cup {None}, known : BOOLEAN]

Answered(k) == answer.kid = k
Withdrawn(k) == k # published.kid

\* _jwks.py:31 and 40: cut off from MM OS, through restarts and with saved keys, a service
\* trusts a withdrawn key for Usable and the length of a fetch at most.
TrustEnds == \A k \in Kid :
    (Answered(k) /\ answer.known /\ Withdrawn(k)) => moment - retired[k] <= Usable + Timeout

\* _jwks.py:38: while MM OS answers, a withdrawn key is forgotten within Stale, although
\* nobody asks for a kid the cache lacks; a failed fetch, or the first MinRefresh of the
\* machine (last_fetch 0.0), is the one excuse.
WithdrawnForgotten == \A k \in Kid :
    /\ Answered(k) /\ answer.known /\ Withdrawn(k)
    /\ k \notin failed
    /\ moment - boot >= MinRefresh
    => moment - retired[k] <= Stale + Timeout

\* _jwks.py:44: a rotation while no fetch is allowed refuses the new key for less than
\* MinRefresh (and the fetch on its way at the rotation), unless MM OS could not be reached.
NewKeyServed ==
    /\ Answered(published.kid) /\ ~answer.known
    /\ published.kid \notin failed
    /\ moment - boot >= MinRefresh
    => moment - published.since < MinRefresh + Timeout
=============================================================================
