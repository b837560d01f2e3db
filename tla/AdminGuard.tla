----------------------------- MODULE AdminGuard -----------------------------
(***************************************************************************)
(* Platform administrators, and the guard that keeps one of them:          *)
(* authorization.py protected_admin_change, with the operations that give  *)
(* and take administration, access and employment (routers/people.py       *)
(* update_user, update_employee, patch_account; routers/platform.py        *)
(* kill_user; people_sheet.py).                                            *)
(*                                                                         *)
(* A request loads its target, decides on what it has loaded whether the   *)
(* guard is wanted, takes it (an advisory lock PostgreSQL gives back when  *)
(* the transaction ends), reads target and actor afresh, counts, and       *)
(* commits.  A column is written only when its new value differs from the  *)
(* one in memory (SQLAlchemy's unit of work).                              *)
(***************************************************************************)
EXTENDS Naturals, FiniteSets

CONSTANTS User, Request, Free

ASSUME GuardNames == Free \notin Request /\ IsFiniteSet(User)

VARIABLES
    account,    \* users joined with employees: admin, active, employed
    guard,      \* the request that holds the advisory lock
    requests,   \* the running requests, and the row each has in memory
    blind       \* history: a request that had not taken the guard removed an administrator

vars == <<account, guard, requests, blind>>

Removal == {"switch_off", "exit", "demote"}
Kind == Removal \cup {"promote", "restore", "rehire"}
Account == [admin : BOOLEAN, active : BOOLEAN, employed : BOOLEAN]

Idle == [kind |-> "idle"]
Running(q) == requests[q] # Idle

ActiveAdmins == {u \in User : account[u].admin /\ account[u].active /\ account[u].employed}

Init ==
    /\ account \in [User -> Account]
    /\ ActiveAdmins # {}
    /\ guard = Free
    /\ requests = [q \in Request |-> Idle]
    /\ blind = FALSE

\* The dependencies let the actor in and the handler loads the target.  Switching off,
\* exiting and restoring may be delegated to people who are not administrators.
Start(q, actor, target, kind) ==
    /\ ~Running(q)
    /\ account[actor].active /\ account[actor].employed
    /\ kind \in {"promote", "demote"} => account[actor].admin
    /\ requests' = [requests EXCEPT ![q] = [kind |-> kind, actor |-> actor, target |-> target,
                                            row |-> account[target], guarded |-> FALSE]]
    /\ UNCHANGED <<account, guard, blind>>

\* Platform administration is taken away under the guard always; access and employment are
\* changed under it only for whoever is an administrator in the row in memory.
WantsGuard(r) ==
    \/ r.kind = "demote"
    \/ r.kind \in {"switch_off", "exit", "rehire"} /\ r.row.admin

\* db.refresh(target) reads the row of users; the employee in memory stays as it was.
Refreshed(r) == [r EXCEPT !.row.admin = account[r.target].admin,
                          !.row.active = account[r.target].active,
                          !.guarded = TRUE]

\* Refused, with nothing but an audit row, when the last active administrator would go.
LeavesAnAdmin(r) ==
    (r.kind \in Removal /\ r.row.admin /\ r.row.active) => Cardinality(ActiveAdmins) > 1

\* Mutant of TakeGuard: the lock is not waited for.
TakeGuardAtOnce(q) ==
    LET r == Refreshed(requests[q]) IN
    /\ Running(q) /\ ~requests[q].guarded
    /\ WantsGuard(requests[q]) \/ requests[q].kind = "promote"
    /\ account[r.actor].admin /\ account[r.actor].active
    /\ LeavesAnAdmin(r)
    /\ guard' = q
    /\ requests' = [requests EXCEPT ![q] = r]
    /\ UNCHANGED <<account, blind>>

\* Mutant of TakeGuard: the actor is not read again.
TakeGuardOnTrust(q) ==
    LET r == Refreshed(requests[q]) IN
    /\ Running(q) /\ ~requests[q].guarded
    /\ WantsGuard(requests[q]) \/ requests[q].kind = "promote"
    /\ guard = Free
    /\ LeavesAnAdmin(r)
    /\ guard' = q
    /\ requests' = [requests EXCEPT ![q] = r]
    /\ UNCHANGED <<account, blind>>

\* protected_admin_change, when it does not refuse.
TakeGuard(q) ==
    LET r == Refreshed(requests[q]) IN
    /\ Running(q) /\ ~requests[q].guarded
    /\ WantsGuard(requests[q]) \/ requests[q].kind = "promote"
    /\ guard = Free
    /\ account[r.actor].admin /\ account[r.actor].active
    /\ LeavesAnAdmin(r)
    /\ guard' = q
    /\ requests' = [requests EXCEPT ![q] = r]
    /\ UNCHANGED <<account, blind>>

\* The transaction of q is over.
End(q) ==
    /\ requests' = [requests EXCEPT ![q] = Idle]
    /\ guard' = IF guard = q THEN Free ELSE guard

\* Refused by the guard or by a check of the handler, or dead.
Abort(q) ==
    /\ Running(q)
    /\ End(q)
    /\ UNCHANGED <<account, blind>>

\* The row of the target once r is committed on it.
Written(r, a) ==
    CASE r.kind = "switch_off" -> [a EXCEPT !.active = @ /\ ~r.row.active]
      [] r.kind = "exit"       -> [a EXCEPT !.employed = @ /\ ~r.row.employed]
      [] r.kind = "demote"     -> [a EXCEPT !.admin = @ /\ ~r.row.admin]
      [] r.kind = "promote"    -> [a EXCEPT !.admin = @ \/ ~r.row.admin]
      [] r.kind = "restore"    -> [a EXCEPT !.active = @ \/ ~r.row.active]
      [] r.kind = "rehire"     -> [a EXCEPT !.employed = @ \/ ~r.row.employed]

\* patch_account promotes without the guard.
Commit(q) ==
    LET r == requests[q] IN
    /\ Running(q)
    /\ WantsGuard(r) => r.guarded
    /\ account' = [account EXCEPT ![r.target] = Written(r, @)]
    /\ blind' = (blind \/ (/\ ~r.guarded
                           /\ r.kind \in Removal
                           /\ account[r.target].admin))
    /\ End(q)

Next ==
    \/ \E q \in Request, actor, target \in User, kind \in Kind : Start(q, actor, target, kind)
    \/ \E q \in Request : TakeGuard(q) \/ Commit(q) \/ Abort(q)

Spec == Init /\ [][Next]_vars

-----------------------------------------------------------------------------
(* Properties                                                              *)

TypeOK ==
    /\ account \in [User -> Account]
    /\ guard \in Request \cup {Free}
    /\ requests \in [Request -> {Idle} \cup
                      [kind : Kind, actor : User, target : User, row : Account, guarded : BOOLEAN]]
    /\ blind \in BOOLEAN

\* authorization.py:63, "An active platform administrator must remain."  It does not: a
\* handler asks for the guard only if the target was an administrator when it was loaded,
\* and by the commit it may have been promoted and the others be gone.
AdminRemains == ActiveAdmins # {}

\* protected_admin_change keeps its promise among the requests that take it: however they
\* overlap, with each other and with promotions and restorations that do not take it, an
\* active administrator remains until an unguarded request has removed one.
GuardKeepsAdmin == ~blind => AdminRemains

\* Of two administrators who take administration from each other at once, the slower is
\* refused: a request inside the guard acts for somebody who is an administrator then,
\* and not merely when the request came in.
GuardedByAdmin ==
    ~blind => \A q \in Request : (Running(q) /\ requests[q].guarded)
                => account[requests[q].actor].admin /\ account[requests[q].actor].active
=============================================================================
