------------------------------- MODULE SignIn -------------------------------
(***************************************************************************)
(* PIN and Google sign-in, the confirm-your-code step, PIN changes and the *)
(* shell sessions of MM OS (routers/auth.py, provision.py,                 *)
(* authorization.py revoke_identity, routers/people.py update_user), as    *)
(* concurrent transactions on the rows of users and sessions.  Identity    *)
(* models whose address is whose; here a user has one or has none.         *)
(*                                                                         *)
(* PostgreSQL runs them in READ COMMITTED.  SELECT ... FOR UPDATE and an   *)
(* UPDATE wait for a row that another transaction has locked; inserting a  *)
(* session waits for its user's row as well (the foreign key's FOR KEY     *)
(* SHARE).  Sessions of SQLAlchemy do not flush before a SELECT (db.py,    *)
(* autoflush=False) and write only the columns whose value has changed     *)
(* since it was loaded.                                                    *)
(*                                                                         *)
(* The users here are not platform administrators, whom pin_login refuses. *)
(***************************************************************************)
EXTENDS Naturals, FiniteSets

CONSTANTS
    User,
    Request,        \* the requests running at the same time
    SessionId,
    Free,           \* nobody holds the row lock
    MaxAttempts,    \* pin_max_attempts
    Lockout,        \* pin_lockout_minutes
    Google,         \* the users whose Google account is linked
    Personal,       \* the users with a personal address that waits for the confirm step
    Admins,         \* whether IT resets PINs and switches people off
    MaxNow, MaxPins, \* bounds of a TLC run
    MaxUncounted    \* bound: recent wrong PINs of one user at the confirm step

ASSUME LockoutAssumption == MaxAttempts \in Nat \ {0} /\ Lockout \in Nat \ {0}
ASSUME SignInNames == /\ Free \notin Request
                      /\ Google \subseteq User /\ Personal \subseteq User
                      /\ Admins \in BOOLEAN

VARIABLES
    now,
    account,    \* users joined with employees: pin (a version) and its state, attempts, locked (0 is NULL), active, employed
    rowLock,    \* who holds the row of a user
    sessions,   \* live rows of sessions
    requests,   \* what each running request has read
    wrong       \* history: when the current PIN was guessed wrong, since it was proved to a handler that counts

vars == <<now, account, rowLock, sessions, requests, wrong>>

Cutoff == {"reset", "deactivate", "exit"}
Mode == {"personal", "session"}

\* "unset": pin_set_at is empty; "issued": a one-time PIN, to be changed; "own".
PinState == {"unset", "issued", "own"}

Idle == [kind |-> "idle"]
SessionsOf(u) == {s \in sessions : s.user = u}
IdsOf(u) == {s.id : s \in SessionsOf(u)}
SignedIn(u) == account[u].active /\ account[u].employed
Counters(u) == [attempts |-> account[u].attempts, locked |-> account[u].locked]

Init ==
    /\ now = 0
    /\ account = [u \in User |-> [pin |-> 0, state |-> "own", attempts |-> 0, locked |-> 0,
                                  active |-> TRUE, employed |-> TRUE]]
    /\ rowLock = [u \in User |-> Free]
    /\ sessions = {}
    /\ requests = [q \in Request |-> Idle]
    /\ wrong = [u \in User |-> {}]

Tick ==
    /\ now < MaxNow
    /\ now' = now + 1
    /\ wrong' = [u \in User |-> {w \in wrong[u] : w.at + Lockout > now + 1}]
    /\ UNCHANGED <<account, rowLock, sessions, requests>>

\* The transaction of q ends, at its commit or at a rollback, and gives its row lock back.
End(q) ==
    /\ requests' = [requests EXCEPT ![q] = Idle]
    /\ rowLock' = [u \in User |-> IF rowLock[u] = q THEN Free ELSE rowLock[u]]

\* A new session.  An identifier stands for another session once no row and no request
\* remembers the first.
Remembered ==
    {s.id : s \in sessions} \cup UNION {requests[q].ids : q \in {r \in Request : requests[r].kind \in Cutoff \cup {"change"}}}

Issue(u, id) ==
    /\ id \in SessionId \ Remembered
    /\ sessions' = sessions \cup {[id |-> id, user |-> u]}

\* A request that fails, is refused or dies leaves nothing.
Abort(q) ==
    /\ requests[q] # Idle
    /\ End(q)
    /\ UNCHANGED <<now, account, sessions, wrong>>

(***************************************************************************)
(* The failed attempts of one account, under its row lock.                 *)
(***************************************************************************)
\* A lock whose time is over is forgotten, with the attempts that led to it.
Unexpired(a) == IF a.locked # 0 /\ a.locked <= now THEN [a EXCEPT !.attempts = 0, !.locked = 0] ELSE a

Failed(a) ==
    [a EXCEPT !.attempts = a.attempts + 1,
              !.locked = IF a.attempts + 1 >= MaxAttempts THEN now + Lockout ELSE a.locked]

\* The guesses of the last Lockout minutes, and one of now, numbered among those of one time.
Recent(guesses) == {w \in guesses : w.at + Lockout > now}
Counted(guesses) == {w \in guesses : w.counted}
GuessNow(guesses, counted) ==
    [at |-> now, nth |-> Cardinality({w \in guesses : w.at = now}), counted |-> counted]

\* A wrong guess is counted on the row as the request has read it.
WrongGuess(u, row) ==
    /\ LET counted == Failed(Unexpired(row)) IN
         account' = [account EXCEPT ![u].attempts = counted.attempts, ![u].locked = counted.locked]
    /\ wrong' = [wrong EXCEPT ![u] = Recent(@) \cup {GuessNow(@, TRUE)}]

RightGuess(u) ==
    /\ account' = [account EXCEPT ![u].attempts = 0, ![u].locked = 0]
    /\ wrong' = [wrong EXCEPT ![u] = {}]

(***************************************************************************)
(* pin_login                                                               *)
(***************************************************************************)
\* Mutant of LoginLock: the row is read without FOR UPDATE.
LoginUnlocked(q, u) ==
    /\ requests[q] = Idle
    /\ requests' = [requests EXCEPT ![q] = [kind |-> "login", user |-> u, row |-> account[u]]]
    /\ UNCHANGED <<now, account, rowLock, sessions, wrong>>

\* SELECT ... FOR UPDATE with populate_existing: the committed row, held until the end.
LoginLock(q, u) ==
    /\ requests[q] = Idle
    /\ rowLock[u] = Free
    /\ rowLock' = [rowLock EXCEPT ![u] = q]
    /\ requests' = [requests EXCEPT ![q] = [kind |-> "login", user |-> u, row |-> account[u]]]
    /\ UNCHANGED <<now, account, sessions, wrong>>

\* What the request has in memory of its user's row decides and is written back.
LoginRefused(q) ==
    /\ requests[q].kind = "login"
    /\ requests[q].row.locked > now
    /\ End(q)
    /\ UNCHANGED <<now, account, sessions, wrong>>

\* A wrong PIN, or the PIN of somebody whose access is off.
LoginWrong(q) ==
    /\ requests[q].kind = "login"
    /\ requests[q].row.locked <= now
    /\ WrongGuess(requests[q].user, requests[q].row)
    /\ End(q)
    /\ UNCHANGED <<now, sessions>>

LoginOk(q, id) ==
    /\ requests[q].kind = "login"
    /\ requests[q].row.locked <= now
    /\ requests[q].row.active /\ requests[q].row.employed
    /\ RightGuess(requests[q].user)
    /\ Issue(requests[q].user, id)
    /\ End(q)
    /\ UNCHANGED now

(***************************************************************************)
(* change_pin: the owner, signed in, proves the current PIN.               *)
(***************************************************************************)
\* Mutant of ChangeLock: the row is the one the request's dependencies loaded.
ChangeUnlocked(q, s) ==
    /\ requests[q] = Idle
    /\ SignedIn(s.user)
    /\ requests' = [requests EXCEPT ![q] = [kind |-> "change", user |-> s.user, own |-> s.id,
                                            ids |-> IdsOf(s.user), row |-> account[s.user]]]
    /\ UNCHANGED <<now, account, rowLock, sessions, wrong>>

ChangeLock(q, s) ==
    /\ requests[q] = Idle
    /\ SignedIn(s.user)
    /\ rowLock[s.user] = Free
    /\ rowLock' = [rowLock EXCEPT ![s.user] = q]
    /\ requests' = [requests EXCEPT ![q] = [kind |-> "change", user |-> s.user, own |-> s.id,
                                            ids |-> IdsOf(s.user), row |-> account[s.user]]]
    /\ UNCHANGED <<now, account, sessions, wrong>>

ChangeWrong(q) ==
    /\ requests[q].kind = "change"
    /\ requests[q].row.locked <= now
    /\ WrongGuess(requests[q].user, requests[q].row)
    /\ End(q)
    /\ UNCHANGED <<now, sessions>>

\* A new PIN; every session read is revoked but the one the owner is using, which must
\* still be live.
ChangeOk(q) ==
    /\ requests[q].kind = "change"
    /\ requests[q].row.locked <= now
    /\ requests[q].own \in IdsOf(requests[q].user)
    /\ LET u == requests[q].user IN
         /\ account[u].pin < MaxPins
         /\ account' = [account EXCEPT ![u].pin = @ + 1, ![u].state = "own",
                                       ![u].attempts = 0, ![u].locked = 0]
         /\ wrong' = [wrong EXCEPT ![u] = {}]
         /\ sessions' = {s \in sessions : s.id \in requests[q].ids => s.id = requests[q].own}
    /\ End(q)
    /\ UNCHANGED <<now>>

(***************************************************************************)
(* Google sign-in, which reads the user without a lock; its session waits  *)
(* for the row.                                                            *)
(***************************************************************************)
GoogleRead(q, u) ==
    /\ requests[q] = Idle
    /\ u \in Google
    /\ SignedIn(u)
    /\ requests' = [requests EXCEPT ![q] = [kind |-> "enter", user |-> u]]
    /\ UNCHANGED <<now, account, rowLock, sessions, wrong>>

Enter(q, id) ==
    /\ requests[q].kind = "enter"
    /\ rowLock[requests[q].user] = Free
    /\ Issue(requests[q].user, id)
    /\ End(q)
    /\ UNCHANGED <<now, account, wrong>>

(***************************************************************************)
(* onboard, the confirm-your-code step, by the holder of the personal      *)
(* address or in a session without a PIN: it reads the user without a lock *)
(* and does not ask whether the employee is still there.  Whoever typed a  *)
(* wrong code has changed nothing.                                         *)
(***************************************************************************)
\* A column is written only when its new value differs from the one loaded.
Written(loaded, current, new) == IF loaded = new THEN current ELSE new

\* A PIN replaces the one of a row that was read without a lock.
NewPin(u, loaded, state) ==
    /\ rowLock[u] = Free
    /\ account[u].pin < MaxPins
    /\ account' = [account EXCEPT
         ![u].pin = @ + 1,
         ![u].state = state,
         ![u].attempts = Written(loaded.attempts, @, 0),
         ![u].locked = Written(loaded.locked, @, 0)]
    /\ wrong' = [wrong EXCEPT ![u] = {}]

\* A PIN its owner chose has to be proved, and a wrong one is audited and not counted.
OnboardWrong(u) ==
    /\ u \in Personal
    /\ account[u].active /\ account[u].state = "own"
    /\ Cardinality(Recent(wrong[u]) \ Counted(wrong[u])) < MaxUncounted
    /\ wrong' = [wrong EXCEPT ![u] = Recent(@) \cup {GuessNow(@, FALSE)}]
    /\ UNCHANGED <<now, account, rowLock, sessions, requests>>

\* The right one signs in, whatever locked_until says; the counters stay.
OnboardRight(q, u) ==
    /\ requests[q] = Idle
    /\ u \in Personal
    /\ account[u].active /\ account[u].state = "own"
    /\ requests' = [requests EXCEPT ![q] = [kind |-> "enter", user |-> u]]
    /\ UNCHANGED <<now, account, rowLock, sessions, wrong>>

\* No PIN yet, or a one-time PIN: the one typed is going to be set.
OnboardRead(q, u, mode) ==
    /\ requests[q] = Idle
    /\ mode = "personal" => u \in Personal /\ account[u].active /\ account[u].state # "own"
    /\ mode = "session" => SessionsOf(u) # {} /\ SignedIn(u) /\ account[u].state = "unset"
    /\ requests' = [requests EXCEPT ![q] = [kind |-> mode, user |-> u, loaded |-> Counters(u)]]
    /\ UNCHANGED <<now, account, rowLock, sessions, wrong>>

OnboardPersonal(q, id) ==
    /\ requests[q].kind = "personal"
    /\ NewPin(requests[q].user, requests[q].loaded, "own")
    /\ Issue(requests[q].user, id)
    /\ End(q)
    /\ UNCHANGED now

OnboardSession(q) ==
    /\ requests[q].kind = "session"
    /\ NewPin(requests[q].user, requests[q].loaded, "own")
    /\ End(q)
    /\ UNCHANGED <<now, sessions>>

(***************************************************************************)
(* IT: a new one-time PIN, or access switched off.  Both read the user and *)
(* the live sessions without a lock and write at their commit.             *)
(***************************************************************************)
CutoffRead(q, u, kind) ==
    /\ Admins
    /\ requests[q] = Idle
    /\ kind = "deactivate" => account[u].active
    /\ kind = "exit" => account[u].employed
    /\ requests' = [requests EXCEPT ![q] = [kind |-> kind, user |-> u, ids |-> IdsOf(u),
                                            loaded |-> Counters(u)]]
    /\ UNCHANGED <<now, account, rowLock, sessions, wrong>>

\* issue_one_time_pin, or clear, with revoke_identity.
ResetPin(q, state) ==
    /\ requests[q].kind = "reset"
    /\ NewPin(requests[q].user, requests[q].loaded, state)
    /\ sessions' = {s \in sessions : s.id \notin requests[q].ids}
    /\ End(q)
    /\ UNCHANGED <<now>>

\* update_user with is_active false, kill_user.
Deactivate(q) ==
    /\ requests[q].kind = "deactivate"
    /\ rowLock[requests[q].user] = Free
    /\ account' = [account EXCEPT ![requests[q].user].active = FALSE]
    /\ sessions' = {s \in sessions : s.id \notin requests[q].ids}
    /\ End(q)
    /\ UNCHANGED <<now, wrong>>

\* update_employee with status suspended or exited: the row of users is not written.
ExitEmployee(q) ==
    /\ requests[q].kind = "exit"
    /\ account' = [account EXCEPT ![requests[q].user].employed = FALSE]
    /\ sessions' = {s \in sessions : s.id \notin requests[q].ids}
    /\ End(q)
    /\ UNCHANGED <<now, wrong>>

Reinstate(u) ==
    /\ Admins
    /\ ~SignedIn(u)
    /\ rowLock[u] = Free
    /\ account' = [account EXCEPT ![u].active = TRUE, ![u].employed = TRUE]
    /\ UNCHANGED <<now, rowLock, sessions, requests, wrong>>

\* logout, or expires_at.
SessionEnds(s) ==
    /\ sessions' = sessions \ {s}
    /\ UNCHANGED <<now, account, rowLock, requests, wrong>>

Next ==
    \/ Tick
    \/ \E q \in Request, u \in User : LoginLock(q, u) \/ GoogleRead(q, u) \/ OnboardRight(q, u)
    \/ \E q \in Request, u \in User, mode \in Mode : OnboardRead(q, u, mode)
    \/ \E q \in Request, s \in sessions : ChangeLock(q, s)
    \/ \E q \in Request, u \in User, kind \in Cutoff : CutoffRead(q, u, kind)
    \/ \E q \in Request : \/ LoginRefused(q) \/ LoginWrong(q)
                          \/ ChangeWrong(q) \/ ChangeOk(q)
                          \/ OnboardSession(q)
                          \/ Deactivate(q) \/ ExitEmployee(q)
                          \/ Abort(q)
    \/ \E q \in Request, state \in PinState \ {"own"} : ResetPin(q, state)
    \/ \E q \in Request, id \in SessionId :
        LoginOk(q, id) \/ Enter(q, id) \/ OnboardPersonal(q, id)
    \/ \E u \in User : OnboardWrong(u) \/ Reinstate(u)
    \/ \E s \in sessions : SessionEnds(s)

Spec == Init /\ [][Next]_vars

-----------------------------------------------------------------------------
(* Properties                                                              *)

\* docs/03-api-contract.md:48, "`/api/auth/pin` is rate limited: 5 attempts per employee code
\* per 15 minutes": however many requests guess at once, through sign-in and through the PIN
\* change together, no more than MaxAttempts of their wrong guesses of one PIN are answered
\* in any Lockout minutes, unless the PIN was proved to one of them in between.
CountedGuessesBounded == \A u \in User : Cardinality(Counted(Recent(wrong[u]))) <= MaxAttempts

\* docs/04-auth-flow.md:34, "5 attempts per employee code per 15 minutes, then a 15-minute
\* lock": the same of every handler that verifies the PIN.  The confirm step neither counts
\* a wrong PIN nor asks for the lock.
GuessesBounded == \A u \in User : Cardinality(Recent(wrong[u])) <= MaxAttempts

\* change_pin: when the owner's new PIN is committed, no session of the owner is live but
\* the one that made the change, whoever signs in at the same time.
OwnChangeEndsSessions ==
    [][\A q \in Request :
         (requests[q].kind = "change" /\ account'[requests[q].user].pin # account[requests[q].user].pin)
           => \A s \in sessions' : s.user = requests[q].user => s.id = requests[q].own]_vars

\* authorization.py:87, "Terminate shell sessions and emit a global cutoff, atomically with
\* the mutation": when IT's new PIN or switch-off is committed, no session of that user is
\* live.  The sessions are read before the users row is written, so a sign-in that holds
\* the row, with the PIN being replaced, commits a session the cutoff does not see.
CutoffEndsSessions ==
    [][\A q \in Request :
         (requests[q].kind \in Cutoff /\ requests'[q] = Idle /\ account' # account)
           => \A s \in sessions' : s.user # requests[q].user]_vars
=============================================================================
