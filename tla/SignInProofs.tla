---------------------------- MODULE SignInProofs ----------------------------
(***************************************************************************)
(* SignIn, for any number of users, requests and sessions: the owner's     *)
(* change of the PIN leaves no other session, because it holds the row of  *)
(* the user from the moment it reads the sessions; and for the same reason *)
(* guesses through sign-in and PIN change are counted one after the other, *)
(* and stay under the limit although IT's reset and the confirm step write *)
(* over the counters.                                                      *)
(*                                                                         *)
(* KeyCache, for any keys, rotations and waiting times: what a service     *)
(* trusts, forgets and refuses, by the moments at which the copies of a    *)
(* key were fetched.                                                       *)
(***************************************************************************)
EXTENDS SignIn, KeyCache, FiniteSetTheorems, TLAPS

Account == [pin : Nat, state : PinState, attempts : Nat, locked : Nat, active : BOOLEAN, employed : BOOLEAN]

\* What a request remembers, by its kind.
LoginType == [kind : {"login"}, user : User, row : Account]
ChangeType == [kind : {"change"}, user : User, own : SessionId, ids : SUBSET SessionId, row : Account]
EnterType == [kind : {"enter"}, user : User]
CountersType == [attempts : Nat, locked : Nat]
OnboardType == [kind : Mode, user : User, loaded : CountersType]
CutoffType == [kind : Cutoff, user : User, ids : SUBSET SessionId, loaded : CountersType]
Unlocked == EnterType \cup OnboardType \cup CutoffType
RequestType == {Idle} \cup LoginType \cup ChangeType \cup Unlocked

TypeOK ==
    /\ now \in Nat
    /\ account \in [User -> Account]
    /\ rowLock \in [User -> Request \cup {Free}]
    /\ sessions \subseteq [id : SessionId, user : User]
    /\ requests \in [Request -> RequestType]

\* A PIN sign-in and a PIN change hold the row of their user.
LockInv ==
    \A q \in Request : requests[q].kind \in {"login", "change"} => rowLock[requests[q].user] = q

\* Who changes a PIN has read every session there is.
ReadInv ==
    \A q \in Request : requests[q].kind = "change" => IdsOf(requests[q].user) \subseteq requests[q].ids

IInv == TypeOK /\ LockInv /\ ReadInv

\* What the fields of a request are.
LEMMA Fields ==
    ASSUME TypeOK, NEW q \in Request
    PROVE  /\ requests[q] = Idle <=> requests[q].kind = "idle"
           /\ requests[q] # Idle => requests[q].user \in User
           /\ requests[q].kind = "login" => requests[q] \in LoginType
           /\ requests[q].kind = "change" => requests[q] \in ChangeType
           /\ requests[q].kind = "enter" => requests[q] \in EnterType
           /\ requests[q].kind \in Mode => requests[q] \in OnboardType
           /\ requests[q].kind \in Cutoff => requests[q] \in CutoffType
  BY DEF TypeOK, RequestType, LoginType, ChangeType, Unlocked, EnterType, OnboardType, CutoffType,
         Cutoff, Mode, Idle

LEMMA Initially == ASSUME Init PROVE IInv
  BY DEF Init, IInv, TypeOK, LockInv, ReadInv, RequestType, Idle, Account, PinState, IdsOf, SessionsOf

-----------------------------------------------------------------------------
(* The steps, by what they do to the locks and the sessions.               *)

\* The end of a request keeps the invariant whatever it writes to the accounts, as long as
\* the new session it leaves, if any, is of a user whose row is free or its own.
LEMMA EndStep ==
    ASSUME IInv, NEW q \in Request, End(q), UNCHANGED now, account' \in [User -> Account],
           sessions' \subseteq [id : SessionId, user : User],
           \A s \in sessions' \ sessions : rowLock[s.user] \in {Free, q}
    PROVE  IInv'
<1>. USE SignInNames
<1>1. TypeOK'
  <2>1. requests' \in [Request -> RequestType]
    BY DEF IInv, TypeOK, End, RequestType
  <2>2. rowLock' \in [User -> Request \cup {Free}]
    BY DEF IInv, TypeOK, End
  <2>. QED
    BY <2>1, <2>2 DEF IInv, TypeOK
<1>2. ASSUME NEW r \in Request, requests'[r].kind \in {"login", "change"}
      PROVE  r # q /\ requests'[r] = requests[r] /\ rowLock[requests[r].user] = r
             /\ requests[r].user \in User
  <2>1. r # q
    BY <1>2 DEF IInv, TypeOK, End, Idle
  <2>2. requests'[r] = requests[r]
    BY <2>1 DEF IInv, TypeOK, End
  <2>3. requests[r].user \in User
    BY <1>2, <2>2, Fields DEF IInv, Idle
  <2>. QED
    BY <1>2, <2>1, <2>2, <2>3 DEF IInv, LockInv
<1>3. LockInv'
  BY <1>2 DEF LockInv, IInv, TypeOK, End
<1>4. ReadInv'
  <2>. SUFFICES ASSUME NEW r \in Request, requests'[r].kind = "change",
                       NEW s \in sessions', s.user = requests[r].user
                PROVE  s.id \in requests[r].ids
    BY <1>2 DEF ReadInv, IdsOf, SessionsOf
  <2>1. rowLock[s.user] = r /\ r # q /\ requests[r].kind = "change"
    BY <1>2
  <2>2. s \in sessions
    BY <2>1
  <2>. QED
    BY <2>1, <2>2 DEF IInv, ReadInv, IdsOf, SessionsOf
<1>. QED
  BY <1>1, <1>3, <1>4 DEF IInv

\* A request that begins without the row.
LEMMA BeginStep ==
    ASSUME IInv, NEW q \in Request, NEW new \in Unlocked,
           requests' = [requests EXCEPT ![q] = new],
           UNCHANGED <<now, account, rowLock, sessions>>
    PROVE  IInv'
<1>1. new.kind \notin {"login", "change"}
  BY DEF Unlocked, EnterType, OnboardType, CutoffType, Cutoff, Mode
<1>2. TypeOK'
  <2>1. new \in RequestType
    BY DEF RequestType
  <2>. QED
    BY <2>1 DEF IInv, TypeOK
<1>3. \A r \in Request : requests'[r].kind \in {"login", "change"} => requests'[r] = requests[r]
  BY <1>1 DEF IInv, TypeOK
<1>. QED
  BY <1>2, <1>3 DEF IInv, LockInv, ReadInv, IdsOf, SessionsOf

\* A request that begins with the row, which nobody held.
LEMMA LockStep ==
    ASSUME IInv, NEW q \in Request, NEW u \in User, NEW new \in LoginType \cup ChangeType,
           new.user = u, new.kind = "change" => IdsOf(u) \subseteq new.ids,
           rowLock[u] = Free,
           rowLock' = [rowLock EXCEPT ![u] = q],
           requests' = [requests EXCEPT ![q] = new],
           UNCHANGED <<now, account, sessions>>
    PROVE  IInv'
<1>. USE SignInNames
<1>1. TypeOK'
  <2>1. new \in RequestType
    BY DEF RequestType
  <2>. QED
    BY <2>1 DEF IInv, TypeOK
<1>2. ASSUME NEW r \in Request, r # q, requests'[r].kind \in {"login", "change"}
      PROVE  requests'[r] = requests[r] /\ rowLock[requests[r].user] = r /\ requests[r].user # u
  BY <1>2 DEF IInv, TypeOK, LockInv
<1>3. requests'[q] = new /\ rowLock'[u] = q
  BY DEF IInv, TypeOK
<1>4. LockInv'
  BY <1>2, <1>3 DEF IInv, TypeOK, LockInv
<1>5. ReadInv'
  BY <1>2, <1>3 DEF IInv, ReadInv, IdsOf, SessionsOf
<1>. QED
  BY <1>1, <1>4, <1>5 DEF IInv

\* What is left of the sessions after a step that only ends some.
LEMMA FewerSessions ==
    ASSUME IInv, sessions' \subseteq sessions, UNCHANGED <<rowLock, requests>>,
           now' \in Nat, account' \in [User -> Account]
    PROVE  IInv'
  BY DEF IInv, TypeOK, LockInv, ReadInv, IdsOf, SessionsOf

-----------------------------------------------------------------------------
(* The invariant.                                                          *)

\* The accounts stay well-formed.
LEMMA CounterTypes ==
    ASSUME TypeOK, NEW u \in User, NEW row \in Account, WrongGuess(u, row)
    PROVE  account' \in [User -> Account]
<1>. DEFINE counted == Failed(Unexpired(row))
<1>1. Unexpired(row) \in Account
  BY DEF Unexpired, Account
<1>2. MaxAttempts \in Nat /\ Lockout \in Nat
  BY LockoutAssumption
<1>3. counted.attempts \in Nat /\ counted.locked \in Nat
  BY <1>1, <1>2 DEF Failed, Account, TypeOK
<1>. HIDE DEF counted
<1>4. account' = [account EXCEPT ![u].attempts = counted.attempts, ![u].locked = counted.locked]
  BY DEF WrongGuess, counted
<1>. QED
  BY <1>3, <1>4 DEF TypeOK, Account

LEMMA Proved ==
    ASSUME TypeOK, NEW u \in User, RightGuess(u)
    PROVE  account' \in [User -> Account]
  BY DEF TypeOK, Account, RightGuess

LEMMA Renewed ==
    ASSUME TypeOK, NEW u \in User, NEW x \in PinState, NEW a \in Nat, NEW l \in Nat,
           account' = [account EXCEPT ![u].pin = @ + 1, ![u].state = x, ![u].attempts = a, ![u].locked = l]
    PROVE  account' \in [User -> Account]
<1>. DEFINE p == account[u].pin + 1
            new == [account[u] EXCEPT !.pin = p, !.state = x, !.attempts = a, !.locked = l]
<1>1. account[u] \in Account /\ p \in Nat
  BY DEF TypeOK, Account
<1>2. account' = [account EXCEPT ![u] = new]
  BY DEF TypeOK
<1>. HIDE DEF p
<1>3. new \in Account
  BY <1>1 DEF Account
<1>. HIDE DEF new
<1>. QED
  BY <1>2, <1>3 DEF TypeOK

\* A PIN set on a row that was read without a lock.
LEMMA Replaced ==
    ASSUME TypeOK, NEW u \in User, NEW loaded \in CountersType, NEW x \in PinState, NewPin(u, loaded, x)
    PROVE  account' \in [User -> Account]
<1>. DEFINE attempts == Written(loaded.attempts, account[u].attempts, 0)
            locked == Written(loaded.locked, account[u].locked, 0)
<1>1. attempts \in Nat /\ locked \in Nat
  BY DEF TypeOK, Account, Written
<1>2. account' = [account EXCEPT ![u].pin = @ + 1, ![u].state = x,
                                 ![u].attempts = attempts, ![u].locked = locked]
  BY DEF NewPin, TypeOK
<1>. HIDE DEF attempts, locked
<1>. QED
  BY <1>1, <1>2, Renewed

LEMMA Step == ASSUME IInv, [Next]_vars PROVE IInv'
<1>. USE SignInNames
<1>0. TypeOK
  BY DEF IInv
<1>1. CASE Tick
  BY <1>0, <1>1, FewerSessions DEF Tick, TypeOK
<1>2. ASSUME NEW q \in Request, NEW u \in User, LoginLock(q, u) PROVE IInv'
  <2>1. [kind |-> "login", user |-> u, row |-> account[u]] \in LoginType
    BY <1>0 DEF LoginType, TypeOK
  <2>. QED
    BY <1>2, <2>1, LockStep DEF LoginLock
<1>3. ASSUME NEW q \in Request, NEW u \in User, GoogleRead(q, u) \/ OnboardRight(q, u) PROVE IInv'
  <2>1. [kind |-> "enter", user |-> u] \in Unlocked
    BY DEF EnterType, Unlocked
  <2>. QED
    BY <1>3, <2>1, BeginStep DEF GoogleRead, OnboardRight
<1>4. ASSUME NEW q \in Request, NEW s \in sessions, ChangeLock(q, s) PROVE IInv'
  <2>. DEFINE new == [kind |-> "change", user |-> s.user, own |-> s.id,
                      ids |-> IdsOf(s.user), row |-> account[s.user]]
  <2>1. s.user \in User /\ s.id \in SessionId /\ IdsOf(s.user) \in SUBSET SessionId
    BY <1>0 DEF TypeOK, IdsOf, SessionsOf
  <2>2. new \in ChangeType
    BY <1>0, <2>1 DEF ChangeType, TypeOK
  <2>. QED
    BY <1>4, <2>1, <2>2, LockStep DEF ChangeLock
<1>5. ASSUME NEW q \in Request, NEW u \in User, NEW kind \in Cutoff, CutoffRead(q, u, kind) PROVE IInv'
  <2>. DEFINE new == [kind |-> kind, user |-> u, ids |-> IdsOf(u), loaded |-> Counters(u)]
  <2>1. IdsOf(u) \in SUBSET SessionId
    BY <1>0 DEF TypeOK, IdsOf, SessionsOf
  <2>2. Counters(u) \in CountersType
    BY <1>0 DEF Counters, CountersType, TypeOK, Account
  <2>3. new \in Unlocked
    BY <2>1, <2>2 DEF CutoffType, Unlocked
  <2>. QED
    BY <1>5, <2>3, BeginStep DEF CutoffRead
<1>6. ASSUME NEW q \in Request, LoginRefused(q) \/ Abort(q) PROVE IInv'
  BY <1>0, <1>6, EndStep DEF LoginRefused, Abort, TypeOK
<1>7. ASSUME NEW q \in Request, LoginWrong(q) \/ ChangeWrong(q) PROVE IInv'
  <2>1. requests[q].user \in User /\ requests[q].row \in Account
    BY <1>0, <1>7, Fields DEF LoginWrong, ChangeWrong, LoginType, ChangeType
  <2>2. account' \in [User -> Account]
    BY <1>0, <1>7, <2>1, CounterTypes DEF LoginWrong, ChangeWrong
  <2>. QED
    BY <1>0, <1>7, <2>2, EndStep DEF LoginWrong, ChangeWrong, TypeOK
<1>8. ASSUME NEW q \in Request, NEW id \in SessionId, LoginOk(q, id) PROVE IInv'
  <2>1. requests[q].user \in User /\ rowLock[requests[q].user] = q
    BY <1>0, <1>8, Fields DEF LoginOk, LoginType, IInv, LockInv
  <2>2. account' \in [User -> Account]
    BY <1>0, <1>8, <2>1, Proved DEF LoginOk
  <2>3. sessions' = sessions \cup {[id |-> id, user |-> requests[q].user]}
    BY <1>8 DEF LoginOk, Issue
  <2>. QED
    BY <1>0, <1>8, <2>1, <2>2, <2>3, EndStep DEF LoginOk, TypeOK
<1>9. ASSUME NEW q \in Request, NEW id \in SessionId, Enter(q, id) PROVE IInv'
  <2>1. requests[q].user \in User /\ rowLock[requests[q].user] = Free
    BY <1>0, <1>9, Fields DEF Enter, EnterType
  <2>2. sessions' = sessions \cup {[id |-> id, user |-> requests[q].user]}
    BY <1>9 DEF Enter, Issue
  <2>. QED
    BY <1>0, <1>9, <2>1, <2>2, EndStep DEF Enter, TypeOK
<1>10. ASSUME NEW q \in Request, ChangeOk(q) PROVE IInv'
  <2>1. account' \in [User -> Account]
    <3>1. requests[q].user \in User
      BY <1>0, <1>10, Fields DEF ChangeOk, ChangeType
    <3>2. account' = [account EXCEPT ![requests[q].user].pin = @ + 1, ![requests[q].user].state = "own",
                        ![requests[q].user].attempts = 0, ![requests[q].user].locked = 0]
      BY <1>10 DEF ChangeOk
    <3>. QED
      BY <1>0, <3>1, <3>2, Renewed DEF PinState
  <2>2. sessions' \subseteq sessions
    BY <1>10 DEF ChangeOk
  <2>. QED
    BY <1>0, <1>10, <2>1, <2>2, EndStep DEF ChangeOk, TypeOK
<1>11. ASSUME NEW q \in Request, NEW state \in PinState \ {"own"}, ResetPin(q, state) PROVE IInv'
  <2>1. account' \in [User -> Account]
    BY <1>0, <1>11, Fields, Replaced DEF ResetPin, Cutoff, CutoffType
  <2>2. sessions' \subseteq sessions
    BY <1>11 DEF ResetPin
  <2>. QED
    BY <1>0, <1>11, <2>1, <2>2, EndStep DEF ResetPin, TypeOK
<1>12. ASSUME NEW q \in Request, Deactivate(q) \/ ExitEmployee(q) PROVE IInv'
  <2>1. account' \in [User -> Account]
    <3>1. \/ account' = [account EXCEPT ![requests[q].user].active = FALSE]
          \/ account' = [account EXCEPT ![requests[q].user].employed = FALSE]
      BY <1>12 DEF Deactivate, ExitEmployee
    <3>2. CASE account' = [account EXCEPT ![requests[q].user].active = FALSE]
      BY <1>0, <3>2 DEF TypeOK, Account
    <3>3. CASE account' = [account EXCEPT ![requests[q].user].employed = FALSE]
      BY <1>0, <3>3 DEF TypeOK, Account
    <3>. QED
      BY <3>1, <3>2, <3>3
  <2>2. sessions' \subseteq sessions
    BY <1>12 DEF Deactivate, ExitEmployee
  <2>. QED
    BY <1>0, <1>12, <2>1, <2>2, EndStep DEF Deactivate, ExitEmployee, TypeOK
<1>13. ASSUME NEW u \in User, Reinstate(u) PROVE IInv'
  <2>1. account' \in [User -> Account]
    <3>. DEFINE new == [account[u] EXCEPT !.active = TRUE, !.employed = TRUE]
    <3>1. account[u] \in Account
      BY <1>0 DEF TypeOK
    <3>2. [account[u] EXCEPT !.active = TRUE] \in Account
      BY <3>1 DEF Account
    <3>3. new \in Account
      BY <3>2 DEF Account
    <3>4. account' = [account EXCEPT ![u] = new]
      BY <1>0, <1>13 DEF Reinstate, TypeOK
    <3>. HIDE DEF new
    <3>. QED
      BY <1>0, <3>3, <3>4 DEF TypeOK
  <2>. QED
    BY <1>0, <1>13, <2>1, FewerSessions DEF Reinstate, TypeOK
<1>14. ASSUME NEW s \in sessions, SessionEnds(s) PROVE IInv'
  BY <1>0, <1>14, FewerSessions DEF SessionEnds, TypeOK
<1>15. ASSUME NEW u \in User, OnboardWrong(u) PROVE IInv'
  BY <1>0, <1>15, FewerSessions DEF OnboardWrong, TypeOK
<1>16. ASSUME NEW q \in Request, NEW u \in User, NEW mode \in Mode, OnboardRead(q, u, mode) PROVE IInv'
  <2>1. Counters(u) \in CountersType
    BY <1>0 DEF Counters, CountersType, TypeOK, Account
  <2>2. [kind |-> mode, user |-> u, loaded |-> Counters(u)] \in Unlocked
    BY <2>1 DEF OnboardType, Unlocked
  <2>. QED
    BY <1>16, <2>2, BeginStep DEF OnboardRead
<1>17. ASSUME NEW q \in Request, NEW id \in SessionId, OnboardPersonal(q, id) PROVE IInv'
  <2>1. requests[q].user \in User /\ rowLock[requests[q].user] = Free /\ account' \in [User -> Account]
    BY <1>0, <1>17, Fields, Replaced DEF OnboardPersonal, Mode, OnboardType, PinState, NewPin
  <2>2. sessions' = sessions \cup {[id |-> id, user |-> requests[q].user]}
    BY <1>17 DEF OnboardPersonal, Issue
  <2>. QED
    BY <1>0, <1>17, <2>1, <2>2, EndStep DEF OnboardPersonal, TypeOK
<1>18. ASSUME NEW q \in Request, OnboardSession(q) PROVE IInv'
  <2>1. account' \in [User -> Account]
    BY <1>0, <1>18, Fields, Replaced DEF OnboardSession, Mode, OnboardType, PinState
  <2>. QED
    BY <1>0, <1>18, <2>1, EndStep DEF OnboardSession, TypeOK
<1>19. CASE UNCHANGED vars
  BY <1>0, <1>19, FewerSessions DEF vars, TypeOK
<1>. QED
  BY <1>1, <1>2, <1>3, <1>4, <1>5, <1>6, <1>7, <1>8, <1>9, <1>10, <1>11, <1>12, <1>13, <1>14, <1>15,
     <1>16, <1>17, <1>18, <1>19 DEF Next

-----------------------------------------------------------------------------
(* The owner's change.                                                     *)

\* A new PIN while a change is at work on it is that change's own.
LEMMA OnlyOwn ==
    ASSUME IInv, Next, NEW q \in Request, requests[q].kind = "change",
           account'[requests[q].user].pin # account[requests[q].user].pin
    PROVE  ChangeOk(q)
<1>. DEFINE u == requests[q].user
<1>0. TypeOK /\ u \in User /\ rowLock[u] = q /\ q # Free
  BY Fields, SignInNames DEF IInv, LockInv, ChangeType
<1>1. \A v \in User : account[v] \in Account
  BY <1>0 DEF TypeOK
<1>2. ASSUME NEW v \in User, NEW row, WrongGuess(v, row) PROVE FALSE
  BY <1>0, <1>1, <1>2 DEF WrongGuess, TypeOK, Account
<1>3. ASSUME NEW v \in User, RightGuess(v) PROVE FALSE
  BY <1>0, <1>1, <1>3 DEF RightGuess, TypeOK, Account
<1>4. ASSUME NEW r \in Request, LoginWrong(r) \/ ChangeWrong(r) PROVE FALSE
  BY <1>0, <1>2, <1>4, Fields DEF LoginWrong, ChangeWrong, LoginType, ChangeType
<1>5. ASSUME NEW r \in Request, NEW id \in SessionId, LoginOk(r, id) PROVE FALSE
  BY <1>0, <1>3, <1>5, Fields DEF LoginOk, LoginType
<1>6. ASSUME NEW v \in User, NEW loaded, NEW state, NewPin(v, loaded, state) PROVE FALSE
  <2>1. v # u
    BY <1>0, <1>6 DEF NewPin
  <2>. QED
    BY <1>0, <1>6, <2>1 DEF NewPin, TypeOK
<1>10. ASSUME NEW r \in Request, NEW state, ResetPin(r, state) PROVE FALSE
  BY <1>0, <1>6, <1>10, Fields DEF ResetPin, Cutoff, CutoffType
<1>11. ASSUME NEW r \in Request, NEW id, OnboardPersonal(r, id) \/ OnboardSession(r) PROVE FALSE
  BY <1>0, <1>6, <1>11, Fields DEF OnboardPersonal, OnboardSession, Mode, OnboardType
<1>7. ASSUME NEW r \in Request, Deactivate(r) \/ ExitEmployee(r) PROVE FALSE
  BY <1>0, <1>1, <1>7 DEF Deactivate, ExitEmployee, TypeOK, Account
<1>8. ASSUME NEW v \in User, Reinstate(v) PROVE FALSE
  BY <1>0, <1>1, <1>8 DEF Reinstate, TypeOK, Account
<1>9. ASSUME NEW r \in Request, ChangeOk(r) PROVE r = q
  <2>1. requests[r].user \in User /\ rowLock[requests[r].user] = r
    BY <1>0, <1>9, Fields DEF ChangeOk, IInv, LockInv, ChangeType
  <2>2. CASE requests[r].user # u
    BY <1>0, <1>9, <2>1, <2>2 DEF ChangeOk, TypeOK
  <2>. QED
    BY <1>0, <2>1, <2>2
<1>. QED
  BY <1>4, <1>5, <1>7, <1>8, <1>9, <1>10, <1>11
     DEF Next, Tick, LoginLock, GoogleRead, ChangeLock, CutoffRead, LoginRefused, Abort, Enter,
         OnboardRight, OnboardRead, OnboardWrong, SessionEnds

\* change_pin: after it no session of the owner is live but the one that made the change,
\* for any number of sign-ins, by PIN or Google, at the same time.
THEOREM ChangeLeavesOwn == Spec => OwnChangeEndsSessions
<1>1. Init => IInv
  BY Initially
<1>2. IInv /\ [Next]_vars => IInv'
  BY Step
<1>3. IInv /\ [Next]_vars =>
        [\A q \in Request :
           (requests[q].kind = "change" /\ account'[requests[q].user].pin # account[requests[q].user].pin)
             => \A s \in sessions' : s.user = requests[q].user => s.id = requests[q].own]_vars
  <2>. SUFFICES ASSUME IInv, Next, NEW q \in Request, requests[q].kind = "change",
                       account'[requests[q].user].pin # account[requests[q].user].pin,
                       NEW s \in sessions', s.user = requests[q].user
                PROVE  s.id = requests[q].own
    BY DEF vars
  <2>1. sessions' = {x \in sessions : x.id \in requests[q].ids => x.id = requests[q].own}
    BY OnlyOwn DEF ChangeOk
  <2>2. s \in sessions /\ s.id \in IdsOf(requests[q].user)
    BY <2>1 DEF IdsOf, SessionsOf
  <2>3. s.id \in requests[q].ids
    BY <2>2 DEF IInv, ReadInv
  <2>. QED
    BY <2>1, <2>3
<1>. QED
  BY <1>1, <1>2, <1>3, PTL DEF Spec, OwnChangeEndsSessions

-----------------------------------------------------------------------------
(* The guesses.                                                            *)

\* What a sign-in or a PIN change has read of the counters is what they are.
RowInv ==
    \A q \in Request : requests[q].kind \in {"login", "change"} =>
        /\ requests[q].row.attempts = account[requests[q].user].attempts
        /\ requests[q].row.locked = account[requests[q].user].locked

\* The counters tell enough of the guesses that are counted: without a lock there were no more than attempts,
\* and one is left; with a lock every guess is forgotten by the time it ends.
CountersTell(u) ==
    /\ account[u].locked = 0 => /\ Cardinality(Counted(Recent(wrong[u]))) <= account[u].attempts
                                /\ Cardinality(Counted(Recent(wrong[u]))) < MaxAttempts
    /\ account[u].locked # 0 => \A w \in Counted(wrong[u]) : w.at + Lockout <= account[u].locked

GuessesOf(u) ==
    /\ IsFiniteSet(Counted(wrong[u]))
    /\ \A w \in wrong[u] : w.at \in Nat /\ w.at <= now
    /\ Cardinality(Counted(Recent(wrong[u]))) <= MaxAttempts
    /\ CountersTell(u)

GuessInv == wrong = [u \in User |-> wrong[u]] /\ \A u \in User : GuessesOf(u)

\* Rows that are held keep their counters while a request ends.
LEMMA RowsKept ==
    ASSUME IInv, RowInv, NEW q \in Request, End(q),
           \A v \in User : rowLock[v] \notin {Free, q} =>
               account'[v].attempts = account[v].attempts /\ account'[v].locked = account[v].locked
    PROVE  RowInv'
<1>. SUFFICES ASSUME NEW r \in Request, requests'[r].kind \in {"login", "change"}
              PROVE  /\ requests'[r].row.attempts = account'[requests'[r].user].attempts
                     /\ requests'[r].row.locked = account'[requests'[r].user].locked
  BY DEF RowInv
<1>1. r # q /\ requests'[r] = requests[r]
  BY DEF IInv, TypeOK, End, Idle
<1>2. requests[r].user \in User /\ rowLock[requests[r].user] = r /\ r # Free
  BY <1>1, Fields, SignInNames DEF IInv, LockInv, Idle
<1>. QED
  BY <1>1, <1>2 DEF RowInv

\* An account whose guesses are forgotten or which is left alone.
LEMMA GuessesKept ==
    ASSUME TypeOK, GuessInv, UNCHANGED now, NEW u \in User, account'[u] \in Account,
           \/ wrong'[u] = {}
           \/ /\ wrong'[u] = wrong[u]
              /\ account'[u].attempts = account[u].attempts /\ account'[u].locked = account[u].locked
    PROVE  GuessesOf(u)'
<1>1. CASE wrong'[u] = {}
  <2>1. Counted(Recent({}))' = {} /\ Counted({}) = {} /\ Cardinality({}) = 0 /\ IsFiniteSet({})
    BY FS_EmptySet DEF Recent, Counted
  <2>2. account'[u].attempts \in Nat
    BY DEF Account
  <2>. QED
    BY <1>1, <2>1, <2>2, LockoutAssumption DEF GuessesOf, CountersTell, Recent, Counted
<1>2. CASE wrong'[u] = wrong[u] /\ account'[u].attempts = account[u].attempts
           /\ account'[u].locked = account[u].locked
  BY <1>2 DEF GuessInv, GuessesOf, CountersTell, Recent, Counted
<1>. QED
  BY <1>1, <1>2

\* A wrong guess on an account that is not locked.
LEMMA GuessesCounted ==
    ASSUME TypeOK, GuessInv, UNCHANGED now, NEW u \in User, NEW row \in Account, WrongGuess(u, row),
           row.attempts = account[u].attempts, row.locked = account[u].locked, row.locked <= now
    PROVE  GuessesOf(u)'
<1>. DEFINE a == Unexpired(row)
            old == Counted(Recent(wrong[u]))
            new == old \cup {GuessNow(wrong[u], TRUE)}
<1>. USE LockoutAssumption
<1>1. /\ IsFiniteSet(Counted(wrong[u])) /\ now \in Nat
      /\ \A w \in wrong[u] : w.at \in Nat /\ w.at <= now
      /\ CountersTell(u)
  BY DEF GuessInv, GuessesOf, TypeOK
<1>2. row.attempts \in Nat /\ row.locked \in Nat
  BY DEF Account
<1>3. a.attempts \in Nat /\ a.locked = 0
  BY <1>1, <1>2 DEF Unexpired, Account
<1>4. IsFiniteSet(old) /\ Cardinality(old) \in Nat
  BY <1>1, FS_Subset, FS_CardinalityType DEF Recent, Counted
<1>5. Cardinality(old) <= a.attempts /\ Cardinality(old) < MaxAttempts
  <2>1. CASE row.locked = 0
    BY <1>1, <2>1 DEF Unexpired, CountersTell
  <2>2. CASE row.locked # 0
    <3>1. old = {}
      BY <1>1, <1>2, <2>2 DEF CountersTell, Recent, Counted
    <3>. QED
      BY <1>3, <3>1, FS_EmptySet
  <2>. QED
    BY <2>1, <2>2
<1>6. IsFiniteSet(new) /\ Cardinality(new) \in Nat /\ Cardinality(new) <= Cardinality(old) + 1
  <2>. DEFINE x == GuessNow(wrong[u], TRUE)
  <2>. HIDE DEF x, old
  <2>1. /\ IsFiniteSet(old \cup {x})
        /\ Cardinality(old \cup {x}) = Cardinality(old) \/ Cardinality(old \cup {x}) = Cardinality(old) + 1
    BY <1>4, FS_AddElement
  <2>. QED
    BY <1>4, <2>1 DEF x
<1>7. \A w \in new : w.at \in Nat /\ w.at <= now
  BY <1>1 DEF Recent, GuessNow, Counted
<1>8. /\ \A w \in wrong'[u] : w.at \in Nat /\ w.at <= now
      /\ Counted(wrong[u])' = new /\ Counted(Recent(wrong[u]))' = new
  <2>. DEFINE x == GuessNow(wrong[u], TRUE)
  <2>1. wrong'[u] = Recent(wrong[u]) \cup {x}
    BY DEF WrongGuess, GuessInv
  <2>2. x.counted /\ x.at = now
    BY DEF GuessNow
  <2>. HIDE DEF x
  <2>3. Recent(wrong[u])' = wrong'[u]
    BY <1>1, <2>1, <2>2 DEF Recent
  <2>4. Counted(wrong'[u]) = new
    BY <2>1, <2>2 DEF Counted, x
  <2>5. \A w \in wrong'[u] : w.at \in Nat /\ w.at <= now
    BY <1>1, <2>1, <2>2 DEF Recent
  <2>. QED
    BY <2>3, <2>4, <2>5 DEF Counted
<1>9. account'[u].attempts = a.attempts + 1
      /\ account'[u].locked = IF a.attempts + 1 >= MaxAttempts THEN now + Lockout ELSE a.locked
  BY DEF WrongGuess, Failed, TypeOK, Account
<1>. HIDE DEF a, old, new
<1>10. CountersTell(u)'
  <2>1. CASE a.attempts + 1 >= MaxAttempts
    <3>1. account'[u].locked = now + Lockout /\ account'[u].locked # 0
      BY <1>1, <1>9, <2>1
    <3>. QED
      BY <1>1, <1>7, <1>8, <3>1 DEF CountersTell
  <2>2. CASE ~(a.attempts + 1 >= MaxAttempts)
    BY <1>3, <1>4, <1>5, <1>6, <1>8, <1>9, <2>2 DEF CountersTell
  <2>. QED
    BY <2>1, <2>2
<1>. QED
  BY <1>4, <1>5, <1>6, <1>7, <1>8, <1>10 DEF GuessesOf

\* Time forgets guesses.
LEMMA GuessesForgotten == ASSUME TypeOK, GuessInv, Tick, NEW u \in User PROVE GuessesOf(u)'
<1>. USE LockoutAssumption
<1>1. /\ IsFiniteSet(Counted(wrong[u])) /\ now \in Nat
      /\ \A w \in wrong[u] : w.at \in Nat /\ w.at <= now
      /\ Cardinality(Counted(Recent(wrong[u]))) <= MaxAttempts
      /\ CountersTell(u)
  BY DEF GuessInv, GuessesOf, TypeOK
<1>2. /\ wrong'[u] = {w \in wrong[u] : w.at + Lockout > now + 1} /\ now' = now + 1
      /\ account'[u] = account[u]
  BY DEF Tick
<1>3. IsFiniteSet(Counted(Recent(wrong[u]))) /\ Counted(wrong'[u]) \subseteq Counted(wrong[u])
  BY <1>1, <1>2, FS_Subset DEF Recent, Counted
<1>4. Counted(Recent(wrong[u]))' \subseteq Counted(Recent(wrong[u]))
  BY <1>1, <1>2 DEF Recent, Counted
<1>5. /\ IsFiniteSet(Counted(wrong'[u]))
      /\ Cardinality(Counted(Recent(wrong[u]))') \in Nat /\ Cardinality(Counted(Recent(wrong[u]))) \in Nat
      /\ Cardinality(Counted(Recent(wrong[u]))') <= Cardinality(Counted(Recent(wrong[u])))
  BY <1>1, <1>3, <1>4, FS_Subset, FS_CardinalityType
<1>6. \A w \in wrong'[u] : w.at \in Nat /\ w.at <= now'
  BY <1>1, <1>2
<1>7. account[u].attempts \in Nat
  BY DEF TypeOK, Account
<1>. QED
  BY <1>1, <1>2, <1>3, <1>5, <1>6, <1>7 DEF GuessesOf, CountersTell, Counted

\* A wrong PIN at the confirm step.
LEMMA NotCounted ==
    ASSUME TypeOK, GuessInv, NEW v \in User, OnboardWrong(v), NEW u \in User
    PROVE  GuessesOf(u)'
<1>1. /\ IsFiniteSet(Counted(wrong[u])) /\ now \in Nat /\ now' = now
      /\ \A w \in wrong[u] : w.at \in Nat /\ w.at <= now
      /\ Cardinality(Counted(Recent(wrong[u]))) <= MaxAttempts
      /\ CountersTell(u) /\ account' = account
  BY DEF GuessInv, GuessesOf, TypeOK, OnboardWrong
<1>2. \/ wrong'[u] = wrong[u]
      \/ wrong'[u] = Recent(wrong[u]) \cup {GuessNow(wrong[u], FALSE)}
  BY DEF OnboardWrong, GuessInv
<1>3. ~GuessNow(wrong[u], FALSE).counted /\ GuessNow(wrong[u], FALSE).at = now
  BY DEF GuessNow
<1>4. Counted(Recent(wrong[u]))' = Counted(Recent(wrong[u])) /\ Counted(wrong[u])' \subseteq Counted(wrong[u])
  BY <1>1, <1>2, <1>3 DEF Counted, Recent
<1>5. \A w \in wrong'[u] : w.at \in Nat /\ w.at <= now
  <2>. DEFINE x == GuessNow(wrong[u], FALSE)
  <2>1. x.at = now
    BY <1>3
  <2>. HIDE DEF x
  <2>2. wrong'[u] = wrong[u] \/ wrong'[u] = Recent(wrong[u]) \cup {x}
    BY <1>2 DEF x
  <2>. QED
    BY <1>1, <2>1, <2>2 DEF Recent
<1>6. IsFiniteSet(Counted(wrong[u])')
  BY <1>1, <1>4, FS_Subset
<1>. QED
  BY <1>1, <1>4, <1>5, <1>6 DEF GuessesOf, CountersTell

LEMMA GuessStep == ASSUME IInv, RowInv, GuessInv, [Next]_vars PROVE RowInv' /\ GuessInv'
<1>. USE SignInNames
<1>0. TypeOK /\ IInv' /\ TypeOK'
  BY Step DEF IInv
<1>1. \A u \in User : account[u] \in Account /\ account'[u] \in Account
  BY <1>0 DEF TypeOK
\* A step that writes neither counters nor guesses.
<1>2. ASSUME UNCHANGED <<now, wrong>>,
             \A u \in User : account'[u].attempts = account[u].attempts /\ account'[u].locked = account[u].locked
      PROVE  GuessInv'
  BY <1>0, <1>1, <1>2, GuessesKept DEF GuessInv
<1>3. CASE Tick
  <2>1. RowInv'
    BY <1>3 DEF Tick, RowInv
  <2>2. wrong' = [u \in User |-> wrong'[u]]
    BY <1>3 DEF Tick
  <2>. QED
    BY <1>0, <1>3, <2>1, <2>2, GuessesForgotten DEF GuessInv
<1>4. ASSUME NEW q \in Request, NEW u \in User, LoginLock(q, u) PROVE RowInv' /\ GuessInv'
  BY <1>0, <1>2, <1>4 DEF LoginLock, RowInv, TypeOK
<1>5. ASSUME NEW q \in Request, NEW u \in User, GoogleRead(q, u) \/ OnboardRight(q, u)
      PROVE  RowInv' /\ GuessInv'
  BY <1>0, <1>2, <1>5 DEF GoogleRead, OnboardRight, RowInv, TypeOK
<1>6. ASSUME NEW q \in Request, NEW s \in sessions, ChangeLock(q, s) PROVE RowInv' /\ GuessInv'
  BY <1>0, <1>2, <1>6 DEF ChangeLock, RowInv, TypeOK
<1>7. ASSUME NEW q \in Request, NEW u \in User, NEW kind \in Cutoff, CutoffRead(q, u, kind)
      PROVE  RowInv' /\ GuessInv'
  BY <1>0, <1>2, <1>7 DEF CutoffRead, RowInv, TypeOK, Cutoff
<1>8. ASSUME NEW q \in Request, LoginRefused(q) \/ Abort(q) PROVE RowInv' /\ GuessInv'
  <2>1. End(q) /\ UNCHANGED <<now, account, wrong>>
    BY <1>8 DEF LoginRefused, Abort
  <2>. QED
    BY <1>2, <2>1, RowsKept
<1>9. ASSUME NEW q \in Request, LoginWrong(q) \/ ChangeWrong(q) PROVE RowInv' /\ GuessInv'
  <2>1. /\ requests[q].kind \in {"login", "change"} /\ requests[q].row.locked <= now
        /\ WrongGuess(requests[q].user, requests[q].row) /\ End(q) /\ UNCHANGED now
    BY <1>9 DEF LoginWrong, ChangeWrong
  <2>2. PICK u \in User, row \in Account :
          u = requests[q].user /\ row = requests[q].row /\ rowLock[u] = q
          /\ row.attempts = account[u].attempts /\ row.locked = account[u].locked
    BY <1>0, <2>1, Fields DEF LoginType, ChangeType, IInv, LockInv, RowInv
  <2>3. WrongGuess(u, row) /\ row.locked <= now
    BY <2>1, <2>2
  <2>4. \A v \in User \ {u} : account'[v] = account[v] /\ wrong'[v] = wrong[v]
    BY <1>0, <2>3 DEF WrongGuess, TypeOK, GuessInv
  <2>5. RowInv'
    BY <2>1, <2>2, <2>4, RowsKept
  <2>6. wrong' = [v \in User |-> wrong'[v]]
    BY <2>3 DEF WrongGuess, GuessInv
  <2>7. GuessesOf(u)'
    BY <1>0, <2>1, <2>2, <2>3, GuessesCounted
  <2>8. \A v \in User \ {u} : GuessesOf(v)'
    BY <1>0, <1>1, <2>1, <2>4, GuessesKept
  <2>. QED
    BY <2>5, <2>6, <2>7, <2>8 DEF GuessInv
\* The PIN is proved or replaced.
<1>10. ASSUME NEW q \in Request, End(q), UNCHANGED now, NEW u \in User, rowLock[u] \in {Free, q},
              wrong' = [wrong EXCEPT ![u] = {}], \A v \in User \ {u} : account'[v] = account[v]
       PROVE  RowInv' /\ GuessInv'
  <2>1. RowInv'
    BY <1>10, RowsKept
  <2>2. wrong'[u] = {} /\ \A v \in User \ {u} : wrong'[v] = wrong[v]
    BY <1>10 DEF GuessInv
  <2>3. wrong' = [v \in User |-> wrong'[v]]
    BY <1>10 DEF GuessInv
  <2>4. \A v \in User : GuessesOf(v)'
    BY <1>0, <1>1, <1>10, <2>2, GuessesKept
  <2>. QED
    BY <2>1, <2>3, <2>4 DEF GuessInv
<1>11. ASSUME NEW q \in Request, NEW id \in SessionId, LoginOk(q, id) PROVE RowInv' /\ GuessInv'
  <2>1. PICK u \in User : u = requests[q].user /\ rowLock[u] = q
    BY <1>0, <1>11, Fields DEF LoginOk, LoginType, IInv, LockInv
  <2>2. RightGuess(u) /\ End(q) /\ UNCHANGED now
    BY <1>11, <2>1 DEF LoginOk
  <2>. QED
    BY <1>0, <1>10, <2>1, <2>2 DEF RightGuess, TypeOK
<1>12. ASSUME NEW q \in Request, ChangeOk(q) PROVE RowInv' /\ GuessInv'
  <2>1. PICK u \in User : u = requests[q].user /\ rowLock[u] = q
    BY <1>0, <1>12, Fields DEF ChangeOk, ChangeType, IInv, LockInv
  <2>2. /\ End(q) /\ UNCHANGED now /\ wrong' = [wrong EXCEPT ![u] = {}]
        /\ \A v \in User \ {u} : account'[v] = account[v]
    BY <1>0, <1>12, <2>1 DEF ChangeOk, TypeOK
  <2>. QED
    BY <1>10, <2>1, <2>2
<1>13. ASSUME NEW q \in Request, NEW id \in SessionId, Enter(q, id) PROVE RowInv' /\ GuessInv'
  <2>1. End(q) /\ UNCHANGED <<now, account, wrong>>
    BY <1>13 DEF Enter
  <2>. QED
    BY <1>2, <2>1, RowsKept
<1>17. ASSUME NEW q \in Request, End(q), UNCHANGED now, NEW loaded, NEW state, requests[q].user \in User,
              NewPin(requests[q].user, loaded, state)
       PROVE  RowInv' /\ GuessInv'
  <2>. DEFINE u == requests[q].user
  <2>1. /\ rowLock[u] = Free /\ wrong' = [wrong EXCEPT ![u] = {}]
        /\ \A v \in User \ {u} : account'[v] = account[v]
    BY <1>0, <1>17 DEF NewPin, TypeOK
  <2>. QED
    BY <1>10, <1>17, <2>1
<1>18. ASSUME NEW q \in Request, NEW state \in PinState \ {"own"}, ResetPin(q, state)
       PROVE  RowInv' /\ GuessInv'
  BY <1>0, <1>17, <1>18, Fields DEF ResetPin, Cutoff, CutoffType
<1>19. ASSUME NEW q \in Request, OnboardSession(q) \/ \E id \in SessionId : OnboardPersonal(q, id)
       PROVE  RowInv' /\ GuessInv'
  BY <1>0, <1>17, <1>19, Fields DEF OnboardPersonal, OnboardSession, Mode, OnboardType
<1>20. ASSUME NEW q \in Request, NEW u \in User, NEW mode \in Mode, OnboardRead(q, u, mode)
       PROVE  RowInv' /\ GuessInv'
  BY <1>0, <1>2, <1>20 DEF OnboardRead, RowInv, TypeOK, Mode
<1>21. ASSUME NEW u \in User, OnboardWrong(u) PROVE RowInv' /\ GuessInv'
  <2>1. RowInv' /\ wrong' = [v \in User |-> wrong'[v]]
    BY <1>21 DEF OnboardWrong, RowInv, GuessInv
  <2>. QED
    BY <1>0, <1>21, <2>1, NotCounted DEF GuessInv
<1>14. ASSUME NEW q \in Request, Deactivate(q) \/ ExitEmployee(q) PROVE RowInv' /\ GuessInv'
  <2>1. End(q) /\ UNCHANGED <<now, wrong>>
    BY <1>14 DEF Deactivate, ExitEmployee
  <2>2. \A v \in User : account'[v].attempts = account[v].attempts /\ account'[v].locked = account[v].locked
    BY <1>0, <1>1, <1>14 DEF Deactivate, ExitEmployee, TypeOK, Account
  <2>. QED
    BY <1>2, <2>1, <2>2, RowsKept
<1>15. ASSUME NEW u \in User, Reinstate(u) PROVE RowInv' /\ GuessInv'
  <2>1. \A v \in User : account'[v].attempts = account[v].attempts /\ account'[v].locked = account[v].locked
    BY <1>0, <1>1, <1>15 DEF Reinstate, TypeOK, Account
  <2>2. \A q \in Request : requests[q].kind \in {"login", "change"} => requests[q].user \in User
    BY <1>0, Fields DEF Idle
  <2>. QED
    BY <1>2, <1>15, <2>1, <2>2 DEF Reinstate, RowInv
<1>16. CASE (\E s \in sessions : SessionEnds(s)) \/ UNCHANGED vars
  <2>1. UNCHANGED <<now, account, requests, wrong>>
    BY <1>16 DEF SessionEnds, vars
  <2>. QED
    BY <1>2, <2>1 DEF RowInv
<1>. QED
  BY <1>3, <1>4, <1>5, <1>6, <1>7, <1>8, <1>9, <1>11, <1>12, <1>13, <1>14, <1>15, <1>16, <1>18,
     <1>19, <1>20, <1>21 DEF Next

\* docs/03-api-contract.md:48: for any number of requests that guess at once, through sign-in
\* and PIN change, no more than MaxAttempts of their wrong guesses of one PIN in any Lockout
\* minutes, unless it was proved between; whatever goes on at the confirm step meanwhile.
THEOREM FewGuesses == Spec => []CountedGuessesBounded
<1>1. Init => IInv /\ RowInv /\ GuessInv
  <2>. SUFFICES ASSUME Init PROVE RowInv /\ GuessInv
    BY Initially
  <2>1. Counted(Recent({})) = {} /\ Counted({}) = {} /\ Cardinality({}) = 0 /\ IsFiniteSet({})
    BY FS_EmptySet DEF Recent, Counted
  <2>. QED
    <3>1. RowInv
      BY DEF Init, RowInv, Idle
    <3>2. ASSUME NEW u \in User PROVE GuessesOf(u)
      <4>1. wrong[u] = {} /\ account[u].attempts = 0 /\ account[u].locked = 0
        BY DEF Init
      <4>. QED
        BY <2>1, <4>1, LockoutAssumption DEF GuessesOf, CountersTell
    <3>3. wrong = [u \in User |-> wrong[u]]
      BY DEF Init
    <3>. QED
      BY <3>1, <3>2, <3>3 DEF GuessInv
<1>2. IInv /\ RowInv /\ GuessInv /\ [Next]_vars => (IInv /\ RowInv /\ GuessInv)'
  BY Step, GuessStep
<1>3. GuessInv => CountedGuessesBounded
  BY DEF GuessInv, GuessesOf, CountedGuessesBounded
<1>. QED
  BY <1>1, <1>2, <1>3, PTL DEF Spec

-----------------------------------------------------------------------------
(* The keys of a service                                                   *)

\* The clocks, and a fetch on its way: started at cache.fetched, at most Timeout ago.
KeyClocks ==
    /\ boot <= moment /\ cache.fetched <= moment /\ cache.success <= moment /\ saved.at <= moment
    /\ published.since <= moment
    /\ \A k \in Kid : Withdrawn(k) => retired[k] <= published.since
    /\ ~NotFetching => moment - cache.fetched <= Timeout
    /\ cache.kid = None => cache.success = Never

\* A withdrawn key, in the cache or on the disk, was fetched at most Timeout after MM OS
\* last published it; one still on its way was asked for before.
WithdrawnDated == \A k \in Kid : Withdrawn(k) =>
    /\ cache.kid = k => cache.success <= retired[k] + Timeout
    /\ saved.kid = k => saved.at <= retired[k] + Timeout
    /\ fetch.answered = k => cache.fetched <= retired[k]

LastChange(k) == IF Withdrawn(k) THEN retired[k] ELSE published.since

\* Unless it failed, the last fetch is the one that filled the cache, or it is older than
\* the last change of the key, or there was none since the machine started.
LastFetch == \A k \in Kid \ failed :
    NotFetching => \/ cache.fetched = boot
                   \/ cache.fetched <= cache.success
                   \/ cache.fetched <= LastChange(k)

KeysRight == TrustEnds /\ WithdrawnForgotten /\ NewKeyServed

KeysInv == KeyCacheTypeOK /\ KeyClocks /\ WithdrawnDated /\ LastFetch /\ KeysRight

LEMMA KeysInitially == ASSUME KeysInit PROVE KeysInv
  BY KeyCacheAssumption
  DEF KeysInit, KeysInv, KeyCacheTypeOK, KeyClocks, WithdrawnDated, LastFetch, LastChange, KeysRight,
      TrustEnds, WithdrawnForgotten, NewKeyServed, Answered, Withdrawn, Moment, Never, Empty,
      NothingSaved, NoFetch, NotFetching, Silent

\* Only an answer can break the promises: the other steps silence it.
LEMMA SilentStep == ASSUME KeysInv, KeyCacheTypeOK', answer' = Silent PROVE KeysRight'
  BY KeyCacheAssumption
  DEF KeysRight, TrustEnds, WithdrawnForgotten, NewKeyServed, Answered, Silent, KeyCacheTypeOK

\* What an answer has to satisfy.
LEMMA AnswerStep ==
    ASSUME NEW k \in Kid, NEW known \in BOOLEAN, answer' = [kid |-> k, known |-> known],
           UNCHANGED <<moment, published, retired, boot>>,
           known /\ Withdrawn(k) =>
               /\ moment - retired[k] <= Usable + Timeout
               /\ k \notin failed' /\ moment - boot >= MinRefresh => moment - retired[k] <= Stale + Timeout,
           ~known /\ ~Withdrawn(k) =>
               (k \notin failed' /\ moment - boot >= MinRefresh
                    => moment - published.since < MinRefresh + Timeout)
    PROVE  KeysRight'
<1>1. TrustEnds'
  BY DEF TrustEnds, Answered, Withdrawn
<1>2. WithdrawnForgotten'
  BY DEF WithdrawnForgotten, Answered, Withdrawn
<1>3. NewKeyServed'
  BY DEF NewKeyServed, Answered, Withdrawn
<1>. QED
  BY <1>1, <1>2, <1>3 DEF KeysRight

\* A rotation dates every copy of the key it withdraws, and clears its own two keys.
LEMMA RotateStep == ASSUME KeysInv, NEW k \in Kid, Rotate(k) PROVE KeysInv'
<1>. USE KeyCacheAssumption DEF Moment, Never
<1>1. KeyCacheTypeOK'
  BY DEF KeysInv, KeyCacheTypeOK, Rotate, Silent
<1>2. KeyClocks'
  BY DEF KeysInv, KeyCacheTypeOK, KeyClocks, Rotate, Withdrawn, NotFetching, NoFetch
<1>3. WithdrawnDated'
  BY DEF KeysInv, KeyCacheTypeOK, KeyClocks, WithdrawnDated, Rotate, Withdrawn
<1>4. LastFetch'
  BY DEF KeysInv, KeyCacheTypeOK, KeyClocks, LastFetch, LastChange, Rotate, Withdrawn, NotFetching, NoFetch
<1>5. KeysRight'
  BY <1>1, SilentStep DEF Rotate
<1>. QED
  BY <1>1, <1>2, <1>3, <1>4, <1>5 DEF KeysInv

\* A fetch starts, in get_key or forced.
LEMMA StartStep ==
    ASSUME KeysInv, NEW k \in Kid, StartFetch(k), answer' = Silent,
           UNCHANGED <<moment, published, retired, boot, saved, failed>>, NotFetching
    PROVE  KeysInv'
<1>. USE KeyCacheAssumption DEF Moment, Never, NotFetching, NoFetch
<1>1. KeyCacheTypeOK'
  BY DEF KeysInv, KeyCacheTypeOK, StartFetch, Silent
<1>2. KeyClocks'
  BY DEF KeysInv, KeyCacheTypeOK, KeyClocks, StartFetch, Withdrawn
<1>3. WithdrawnDated'
  BY DEF KeysInv, KeyCacheTypeOK, WithdrawnDated, StartFetch, Withdrawn
<1>4. LastFetch'
  BY DEF LastFetch, StartFetch
<1>5. KeysRight'
  BY <1>1, SilentStep
<1>. QED
  BY <1>1, <1>2, <1>3, <1>4, <1>5 DEF KeysInv

LEMMA ServeStep == ASSUME KeysInv, Serve PROVE KeysInv'
<1>. USE KeyCacheAssumption DEF Moment, Never, NotFetching, NoFetch
<1>1. KeyCacheTypeOK'
  BY DEF KeysInv, KeyCacheTypeOK, Serve, Silent
<1>2. KeyClocks'
  BY DEF KeysInv, KeyCacheTypeOK, KeyClocks, Serve, Withdrawn
<1>3. WithdrawnDated'
  BY DEF KeysInv, KeyCacheTypeOK, WithdrawnDated, Serve, Withdrawn
<1>4. LastFetch'
  BY DEF KeysInv, KeyCacheTypeOK, LastFetch, Serve
<1>5. KeysRight'
  BY <1>1, SilentStep DEF Serve
<1>. QED
  BY <1>1, <1>2, <1>3, <1>4, <1>5 DEF KeysInv

\* What is installed was asked for at most Timeout ago: before the key was withdrawn, if it was.
LEMMA InstallStep == ASSUME KeysInv, Install PROVE KeysInv'
<1>. USE KeyCacheAssumption DEF Moment, Never
<1>1. ~NotFetching /\ fetch.answered \in Kid /\ fetch.wanted \in Kid \cup {None}
  BY DEF KeysInv, KeyCacheTypeOK, Install, NotFetching, NoFetch
<1>2. KeyCacheTypeOK'
  <2>1. cache' \in [kid : Kid \cup {None}, success : Moment \cup {Never}, fetched : Moment \cup {Never}]
    BY <1>1 DEF KeysInv, KeyCacheTypeOK, Install
  <2>2. saved' \in [kid : Kid \cup {None}, at : Moment \cup {Never}]
    BY <1>1 DEF KeysInv, KeyCacheTypeOK, Install
  <2>3. answer' \in [kid : Kid \cup {None}, known : BOOLEAN]
    BY <1>1 DEF Install
  <2>. QED
    BY <2>1, <2>2, <2>3 DEF KeysInv, KeyCacheTypeOK, Install, NoFetch
<1>3. ASSUME NEW k \in Kid, Withdrawn(k), fetch.answered = k
      PROVE  moment <= retired[k] + Timeout /\ moment <= published.since + Timeout
  BY <1>1, <1>3 DEF KeysInv, KeyCacheTypeOK, KeyClocks, WithdrawnDated, Withdrawn
<1>4. KeyClocks'
  BY <1>1 DEF KeysInv, KeyCacheTypeOK, KeyClocks, Install, Withdrawn, NotFetching, NoFetch
<1>5. WithdrawnDated'
  BY <1>1, <1>3 DEF KeysInv, KeyCacheTypeOK, WithdrawnDated, Install, Withdrawn, NoFetch
<1>6. LastFetch'
  BY <1>1 DEF KeysInv, KeyCacheTypeOK, KeyClocks, LastFetch, Install, NotFetching, NoFetch
<1>7. KeysRight'
  <2>1. CASE fetch.wanted = None
    BY <2>1
    DEF Install, KeysRight, TrustEnds, WithdrawnForgotten, NewKeyServed, Answered, KeysInv, KeyCacheTypeOK
  <2>2. CASE fetch.wanted \in Kid
    <3>. DEFINE known == fetch.answered = fetch.wanted
    <3>1. known /\ Withdrawn(fetch.wanted) => moment <= retired[fetch.wanted] + Timeout
      BY <2>2, <1>3
    <3>2. ~known /\ ~Withdrawn(fetch.wanted) => moment <= published.since + Timeout
      BY <1>1, <1>3 DEF Withdrawn
    <3>3. retired[fetch.wanted] \in Int /\ published.since \in Int /\ moment \in Int
      BY <2>2 DEF KeysInv, KeyCacheTypeOK
    <3>4. answer' = [kid |-> fetch.wanted, known |-> known] /\ UNCHANGED <<moment, published, retired, boot>>
      BY DEF Install
    <3>5. known \in BOOLEAN
      OBVIOUS
    <3>. HIDE DEF known
    <3>. QED
      BY <2>2, <3>1, <3>2, <3>3, <3>4, <3>5, AnswerStep
  <2>. QED
    BY <1>1, <2>1, <2>2
<1>. QED
  BY <1>2, <1>4, <1>5, <1>6, <1>7 DEF KeysInv

\* The cached keys have to do: what Known and Wanted let through.
LEMMA GetCachedStep == ASSUME KeysInv, NEW k \in Kid, GetCached(k) PROVE KeysInv'
<1>. USE KeyCacheAssumption DEF Moment, Never
<1>1. KeyCacheTypeOK' /\ KeyClocks' /\ WithdrawnDated' /\ LastFetch'
  <2>1. KeyCacheTypeOK'
    BY DEF KeysInv, KeyCacheTypeOK, GetCached, Tell, Known, Age
  <2>. QED
    BY <2>1
    DEF KeysInv, KeyClocks, WithdrawnDated, LastFetch, LastChange, GetCached, Withdrawn, NotFetching, NoFetch
<1>2. KeysInv /\ KeyCacheTypeOK /\ KeyClocks /\ Known(k) \in BOOLEAN
  BY DEF KeysInv, Known
<1>3. ASSUME k \notin failed, moment - boot >= MinRefresh, Wanted(k)
      PROVE  /\ moment - cache.fetched < MinRefresh
             /\ cache.fetched <= cache.success \/ cache.fetched <= LastChange(k)
  BY <1>2, <1>3 DEF GetCached, CanRefetch, KeysInv, LastFetch, KeyCacheTypeOK
<1>4. ASSUME Known(k), Withdrawn(k)
      PROVE  /\ moment - retired[k] <= Usable + Timeout
             /\ k \notin failed /\ moment - boot >= MinRefresh => moment - retired[k] <= Stale + Timeout
  <2>1. cache.success <= retired[k] + Timeout
    BY <1>2, <1>4 DEF KeysInv, WithdrawnDated, Known
  <2>2. moment - retired[k] <= Usable + Timeout
    BY <1>2, <1>4, <2>1 DEF Known, Age, KeyCacheTypeOK
  <2>3. CASE ~Wanted(k)
    BY <1>2, <2>1, <2>2, <2>3 DEF Wanted, Age, KeyCacheTypeOK
  <2>4. CASE Wanted(k)
    BY <1>2, <1>3, <1>4, <2>1, <2>2, <2>4 DEF LastChange, KeyCacheTypeOK
  <2>. QED
    BY <2>3, <2>4
<1>5. ASSUME ~Known(k), ~Withdrawn(k), k \notin failed, moment - boot >= MinRefresh
      PROVE  moment - published.since < MinRefresh + Timeout
  <2>1. Wanted(k)
    BY <1>2, <1>5 DEF Wanted, Known, Age, KeyCacheTypeOK
  <2>2. CASE cache.fetched <= published.since
    BY <1>2, <1>3, <1>5, <2>1, <2>2 DEF KeyCacheTypeOK
  <2>3. CASE cache.fetched <= cache.success
    <3>1. moment - cache.success < MinRefresh
      BY <1>2, <1>3, <1>5, <2>1, <2>3 DEF KeyCacheTypeOK
    <3>2. cache.kid \in Kid /\ cache.kid # published.kid
      BY <1>2, <1>5, <3>1 DEF Known, Age, Withdrawn, KeyCacheTypeOK, KeyClocks
    <3>3. cache.success <= published.since + Timeout
      BY <1>2, <3>2 DEF KeysInv, WithdrawnDated, Withdrawn, KeyCacheTypeOK, KeyClocks
    <3>. QED
      BY <1>2, <3>1, <3>3 DEF KeyCacheTypeOK
  <2>. QED
    BY <1>3, <1>5, <2>1, <2>2, <2>3 DEF LastChange
<1>6. KeysRight'
  BY <1>2, <1>4, <1>5, AnswerStep DEF GetCached, Tell
<1>. QED
  BY <1>1, <1>6 DEF KeysInv

LEMMA FetchFailsStep == ASSUME KeysInv, FetchFails PROVE KeysInv'
<1>. USE KeyCacheAssumption DEF Moment, Never
<1>1. KeyCacheTypeOK'
  BY DEF KeysInv, KeyCacheTypeOK, FetchFails, NoFetch, Tell, Known, Age
<1>2. KeyClocks'
  BY DEF KeysInv, KeyCacheTypeOK, KeyClocks, FetchFails, Withdrawn, NotFetching
<1>3. WithdrawnDated'
  BY DEF KeysInv, KeyCacheTypeOK, WithdrawnDated, FetchFails, Withdrawn, NoFetch
<1>4. LastFetch'
  BY DEF FetchFails, LastFetch
<1>5. KeysRight'
  <2>1. TrustEnds'
    <3>1. ASSUME NEW k \in Kid, Known(k), Withdrawn(k)
          PROVE  moment - retired[k] <= Usable + Timeout
      <4>1. cache.success <= retired[k] + Timeout
        BY <3>1 DEF KeysInv, WithdrawnDated, Known
      <4>. QED
        BY <3>1, <4>1 DEF Known, Age, KeysInv, KeyCacheTypeOK
    <3>. QED
      BY <3>1 DEF TrustEnds, FetchFails, Tell, Answered, Withdrawn
  <2>2. WithdrawnForgotten' /\ NewKeyServed'
    BY <1>1 DEF WithdrawnForgotten, NewKeyServed, FetchFails, KeyCacheTypeOK
  <2>. QED
    BY <2>1, <2>2 DEF KeysRight
<1>. QED
  BY <1>1, <1>2, <1>3, <1>4, <1>5 DEF KeysInv

\* A restart takes the saved keys with the date of their fetch.
LEMMA RestartStep == ASSUME KeysInv, Restart PROVE KeysInv'
<1>. USE KeyCacheAssumption DEF Moment, Never
<1>1. KeyCacheTypeOK'
  BY DEF KeysInv, KeyCacheTypeOK, Restart, Loaded, Empty, NoFetch, Silent
<1>2. KeyClocks'
  BY DEF KeysInv, KeyCacheTypeOK, KeyClocks, Restart, Loaded, Empty, Withdrawn, NotFetching
<1>3. WithdrawnDated'
  BY DEF KeysInv, KeyCacheTypeOK, WithdrawnDated, Restart, Loaded, Empty, Withdrawn, NoFetch
<1>4. LastFetch'
  BY DEF Restart, Loaded, Empty, LastFetch
<1>5. KeysRight'
  BY <1>1, SilentStep DEF Restart
<1>. QED
  BY <1>1, <1>2, <1>3, <1>4, <1>5 DEF KeysInv

LEMMA KeysTickStep == ASSUME KeysInv, KeysTick PROVE KeysInv'
<1>. USE KeyCacheAssumption DEF Moment, Never
<1>1. KeyCacheTypeOK'
  BY DEF KeysInv, KeyCacheTypeOK, KeysTick, Silent
<1>2. KeyClocks'
  BY DEF KeysInv, KeyCacheTypeOK, KeyClocks, KeysTick, Withdrawn, NotFetching, NoFetch
<1>3. WithdrawnDated' /\ LastFetch'
  BY DEF KeysInv, WithdrawnDated, LastFetch, LastChange, KeysTick, Withdrawn, NotFetching, NoFetch
<1>4. KeysRight'
  BY <1>1, SilentStep DEF KeysTick
<1>. QED
  BY <1>1, <1>2, <1>3, <1>4 DEF KeysInv

LEMMA KeysStep == ASSUME KeysInv, [KeysNext]_keyVars PROVE KeysInv'
<1>1. ASSUME NEW k \in Kid, GetFetching(k) \/ ForceRefresh(k)
      PROVE  KeysInv'
  BY <1>1, StartStep DEF GetFetching, ForceRefresh
<1>2. CASE UNCHANGED keyVars
  BY <1>2
  DEF keyVars, KeysInv, KeyCacheTypeOK, KeyClocks, WithdrawnDated, LastFetch, LastChange, KeysRight,
      TrustEnds, WithdrawnForgotten, NewKeyServed, Answered, Withdrawn, NotFetching
<1>. QED
  BY <1>1, <1>2, RotateStep, GetCachedStep, ServeStep, InstallStep, FetchFailsStep, RestartStep,
     KeysTickStep DEF KeysNext

LEMMA KeysAlways == KeysSpec => []KeysInv
  BY KeysInitially, KeysStep, PTL DEF KeysSpec

\* _jwks.py:31 and 40: through rotations, restarts and failures, a withdrawn key is trusted
\* for Usable and the length of a fetch at most.
THEOREM TrustEnded == KeysSpec => []TrustEnds
  BY KeysAlways, PTL DEF KeysInv, KeysRight

\* _jwks.py:38: while no fetch fails, a withdrawn key is forgotten within Stale and the
\* length of a fetch, although nobody asks for a kid the cache lacks.
THEOREM ForgottenInTime == KeysSpec => []WithdrawnForgotten
  BY KeysAlways, PTL DEF KeysInv, KeysRight

\* _jwks.py:44: while no fetch fails, a new key is refused for less than the spacing of the
\* fetches and the length of one.
THEOREM NewKeyInTime == KeysSpec => []NewKeyServed
  BY KeysAlways, PTL DEF KeysInv, KeysRight
=============================================================================
