------------------------------- MODULE Delegation -------------------------------
(***************************************************************************)
(* Delegated administration: what somebody who is no platform              *)
(* administrator may give to others, of the roles of one service           *)
(* (authorization.py require_grant_ceiling, with create_grant, bulk_grants *)
(* and batch_grants of routers/platform.py) and of the capabilities        *)
(* themselves (grant_capability, revoke_capability).                       *)
(*                                                                         *)
(* A delegate's request decides on what it reads and writes later, when    *)
(* grants, roles, departments and capabilities may have changed.           *)
(* Platform administrators pass every one of these checks; what they do is *)
(* one step.                                                               *)
(***************************************************************************)
EXTENDS Integers, FiniteSets, Functions

CONSTANTS
    Person, Department, Key, Perm,
    Everywhere,     \* scope_department_id NULL
    Horizon,        \* bound: the last moment
    MaxHeld,        \* bound: grants at once
    MaxRows,        \* bound: rows of user_capabilities
    MaxBestowed     \* bound: different powers administrators give

ASSUME HorizonAssumption == Horizon \in Nat

VARIABLES
    moment,
    permissions,    \* service_roles: the permissions of each role
    held,           \* grants: for each person and role, when it expires, or NoGrant
    capabilities,   \* user_capabilities: how many rows there are of each assignment
    request,        \* a delegate's request that has passed its checks
    bestowed,       \* history: what administrators have ever given, and until when
    raced           \* history: what a role got while a request for it was decided already

ceilingVars == <<moment, permissions, held, capabilities, request, bestowed, raced>>

Unending == Horizon + 1
NoGrant == -1
Expiry == 1 .. Unending
Scope == Department \cup {Everywhere}
Capability == {"grants.add", "admin_roles.manage"}
Assignment == [user : Person, capability : Capability, scope : Scope]
NoRequest == [kind |-> "none"]

\* A permission, or a capability in a scope, until some moment.
Power(x, until) == [of |-> x, until |-> until]
CapabilityPower(c, s) == Power(<<c, s>>, Unending)
RolePowers(k, until) == {Power(p, until) : p \in permissions[k]}

CeilingInit ==
    /\ moment = 0
    /\ permissions = [k \in Key |-> {}]
    /\ held = [u \in Person |-> [k \in Key |-> NoGrant]]
    /\ capabilities = [a \in Assignment |-> 0]
    /\ request = NoRequest
    /\ bestowed = {}
    /\ raced = {}

Granted == {uk \in Person \X Key : held[uk[1]][uk[2]] # NoGrant}

\* The unique key refuses a grant that is there.
InsertGrant(u, k, until) ==
    /\ held[u][k] = NoGrant
    /\ Cardinality(Granted) < MaxHeld
    /\ held' = [held EXCEPT ![u][k] = until]

Live(u, k) == held[u][k] > moment
Scopes(u, c) == {s \in Scope : capabilities[[user |-> u, capability |-> c, scope |-> s]] > 0}

Bestow(powers) ==
    /\ bestowed' = bestowed \cup powers
    /\ Cardinality(bestowed') <= MaxBestowed

\* permits, for somebody who is no administrator.
Permits(u, c, s) == Everywhere \in Scopes(u, c) \/ s \in Scopes(u, c) \cap Department

-----------------------------------------------------------------------------
(* Roles                                                                   *)

\* Mutant of Ceiling: a grant that ends covers one that does not.
CeilingForEver(a, u, k, until, d) ==
    /\ a # u
    /\ Permits(a, "grants.add", d)
    /\ \E g \in Key :
        /\ Live(a, g)
        /\ g = k \/ (permissions[k] # {} /\ permissions[k] \subseteq permissions[g])

\* require_grant_ceiling: one live grant of the delegate's own, of the role or of all that it
\* allows, which lasts as long.  The person's department is d now; people change departments at
\* any moment (update_employee, bulk_accounts), so no variable remembers it.
Ceiling(a, u, k, until, d) ==
    /\ a # u
    /\ Permits(a, "grants.add", d)
    /\ \E g \in Key :
        /\ Live(a, g)
        /\ g = k \/ (permissions[k] # {} /\ permissions[k] \subseteq permissions[g])
        /\ until <= held[a][g]

\* create_grant; bulk_grants and batch_grants ask for each person and role with no expiry.
Ask(a, u, k, until) ==
    /\ request = NoRequest
    /\ until > moment
    /\ \E d \in Department : Ceiling(a, u, k, until, d)
    /\ held[u][k] = NoGrant
    /\ request' = [kind |-> "grant", user |-> u, role |-> k, until |-> until]
    /\ UNCHANGED <<moment, permissions, held, capabilities, bestowed, raced>>

CommitGrant ==
    /\ request.kind = "grant"
    /\ InsertGrant(request.user, request.role, request.until)
    /\ request' = NoRequest
    /\ UNCHANGED <<moment, permissions, capabilities, bestowed, raced>>

AdminGrant(u, k, until) ==
    /\ until > moment
    /\ InsertGrant(u, k, until)
    /\ Bestow(RolePowers(k, until))
    /\ UNCHANGED <<moment, permissions, capabilities, request, raced>>

\* delete_grant, whoever may.
Remove(u, k) ==
    /\ held[u][k] # NoGrant
    /\ held' = [held EXCEPT ![u][k] = NoGrant]
    /\ UNCHANGED <<moment, permissions, capabilities, request, bestowed, raced>>

\* patch_role: an administrator gives everybody who holds the role what is new in it.
PatchRole(k, perms) ==
    /\ permissions' = [permissions EXCEPT ![k] = perms]
    /\ Bestow({Power(p, held[u][k]) : p \in perms, u \in {v \in Person : held[v][k] # NoGrant}})
    /\ raced' = raced \cup
            IF request.kind = "grant" /\ request.role = k
            THEN {Power(p, request.until) : p \in perms \ permissions[k]} ELSE {}
    /\ UNCHANGED <<moment, held, capabilities, request>>

-----------------------------------------------------------------------------
(* Capabilities                                                            *)

\* Mutant of AskCapability: who manages capabilities may give every one.
AskAnyCapability(a, u, c, s) ==
    /\ request = NoRequest
    /\ Everywhere \in Scopes(a, "admin_roles.manage")
    /\ a # u
    /\ capabilities[[user |-> u, capability |-> c, scope |-> s]] = 0
    /\ request' = [kind |-> "capability", row |-> [user |-> u, capability |-> c, scope |-> s]]
    /\ UNCHANGED <<moment, permissions, held, capabilities, bestowed, raced>>

\* grant_capability by a delegate, who needs admin_roles.manage everywhere, and the capability
\* in the scope given; not to themselves.
AskCapability(a, u, c, s) ==
    /\ request = NoRequest
    /\ Everywhere \in Scopes(a, "admin_roles.manage")
    /\ Permits(a, c, s)
    /\ a # u
    /\ capabilities[[user |-> u, capability |-> c, scope |-> s]] = 0
    /\ request' = [kind |-> "capability", row |-> [user |-> u, capability |-> c, scope |-> s]]
    /\ UNCHANGED <<moment, permissions, held, capabilities, bestowed, raced>>

Rows == {a \in Assignment : capabilities[a] > 0}

\* The unique key refuses a second row of one department; NULL scopes are never equal.
Insert(row) ==
    /\ SumFunction(capabilities) < MaxRows
    /\ capabilities[row] = 0 \/ row.scope = Everywhere
    /\ capabilities' = [capabilities EXCEPT ![row] = @ + 1]

CommitCapability ==
    /\ request.kind = "capability"
    /\ Insert(request.row)
    /\ request' = NoRequest
    /\ UNCHANGED <<moment, permissions, held, bestowed, raced>>

AdminCapability(u, c, s) ==
    LET row == [user |-> u, capability |-> c, scope |-> s]
    IN  /\ capabilities[row] = 0
        /\ Insert(row)
        /\ Bestow({CapabilityPower(c, s)})
        /\ UNCHANGED <<moment, permissions, held, request, raced>>

\* revoke_capability, one row, whoever may.
RevokeCapability(row) ==
    /\ capabilities[row] > 0
    /\ capabilities' = [capabilities EXCEPT ![row] = @ - 1]
    /\ UNCHANGED <<moment, permissions, held, request, bestowed, raced>>

-----------------------------------------------------------------------------
\* A delegate's request fails, or its process dies.
GiveUp ==
    /\ request # NoRequest
    /\ request' = NoRequest
    /\ UNCHANGED <<moment, permissions, held, capabilities, bestowed, raced>>

Passes ==
    /\ moment < Horizon
    /\ moment' = moment + 1
    /\ UNCHANGED <<permissions, held, capabilities, request, bestowed, raced>>

CeilingNext ==
    \/ \E u \in Person, k \in Key, until \in Expiry :
        \/ AdminGrant(u, k, until)
        \/ \E a \in Person : Ask(a, u, k, until)
    \/ \E u \in Person, k \in Key : Remove(u, k)
    \/ \E k \in Key, perms \in SUBSET Perm : PatchRole(k, perms)
    \/ \E u \in Person, c \in Capability, s \in Scope :
        \/ AdminCapability(u, c, s)
        \/ \E a \in Person : AskCapability(a, u, c, s)
    \/ \E row \in Assignment : RevokeCapability(row)
    \/ CommitGrant \/ CommitCapability \/ GiveUp
    \/ Passes

CeilingSpec == CeilingInit /\ [][CeilingNext]_ceilingVars

-----------------------------------------------------------------------------
(* Properties                                                              *)

DelegationTypeOK ==
    /\ moment \in 0 .. Horizon
    /\ permissions \in [Key -> SUBSET Perm]
    /\ held \in [Person -> [Key -> Expiry \cup {NoGrant}]]
    /\ capabilities \in [Assignment -> 0 .. MaxRows]
    /\ request \in {NoRequest}
                   \cup [kind : {"grant"}, user : Person, role : Key, until : Expiry]
                   \cup [kind : {"capability"}, row : Assignment]

Rooted(p, until) == \E b \in bestowed \cup raced : b.of = p /\ b.until >= until

\* authorization.py:103-104, "Existing broad grants.add rows alone cannot create service
\* authority": through any chain of delegates, departments, expiries and edits of roles, what
\* somebody may do in a service, and for how long, an administrator once gave to somebody; the
\* exception is what a role gained while a request for it had been decided.
AuthorityRooted == \A u \in Person, k \in Key :
    held[u][k] # NoGrant => \A p \in permissions[k] : Rooted(p, held[u][k])

\* platform.py:973-976: nobody comes to administer what no administrator gave anybody: a
\* capability of one department never grows into one everywhere, by whichever path.
CapabilityRooted == \A row \in Rows :
    \/ CapabilityPower(row.capability, row.scope) \in bestowed
    \/ CapabilityPower(row.capability, Everywhere) \in bestowed
================================================================================
