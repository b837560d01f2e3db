----------------------------- MODULE DelegationProofs -----------------------------
(***************************************************************************)
(* What delegates give, administrators gave: the two invariants of         *)
(* module Delegation for any people, roles, permissions and departments.   *)
(* A request is decided on one state and written in another, so both have  *)
(* to hold of the request that waits as well as of what is written.        *)
(***************************************************************************)
EXTENDS Delegation, TLAPS

\* The types the arguments below need.
Shapes ==
    /\ permissions \in [Key -> SUBSET Perm]
    /\ held \in [Person -> [Key -> Expiry \cup {NoGrant}]]
    /\ capabilities \in [Assignment -> Nat]
    /\ request \in {NoRequest}
                   \cup [kind : {"grant"}, user : Person, role : Key, until : Expiry]
                   \cup [kind : {"capability"}, row : Assignment]
    /\ \A b \in bestowed \cup raced : b.until \in Int

\* A grant that has passed its checks is rooted before it is written.
RequestRooted ==
    request.kind = "grant" => \A p \in permissions[request.role] : Rooted(p, request.until)

Backed(row) ==
    \/ CapabilityPower(row.capability, row.scope) \in bestowed
    \/ CapabilityPower(row.capability, Everywhere) \in bestowed

\* And so is a capability.
RequestBacked == request.kind = "capability" => Backed(request.row)

IInv == Shapes /\ AuthorityRooted /\ RequestRooted /\ CapabilityRooted /\ RequestBacked

LEMMA Times == Expiry \subseteq Int /\ Unending \in Int /\ NoGrant \in Int /\ NoGrant \notin Expiry
  BY HorizonAssumption DEF Expiry, Unending, NoGrant

LEMMA GrantTimes == ASSUME Shapes, NEW u \in Person, NEW k \in Key PROVE held[u][k] \in Int
<1>1. held[u][k] \in Expiry \cup {NoGrant}
  BY DEF Shapes
<1> QED BY <1>1, Times

LEMMA RequestShape ==
  ASSUME Shapes
  PROVE  /\ request.kind = "grant" => request.user \in Person /\ request.role \in Key /\ request.until \in Expiry
         /\ request.kind = "capability" => request.row \in Assignment
  BY DEF Shapes, NoRequest

\* What is rooted until some moment is rooted until every earlier one, and stays it: history
\* only grows.
LEMMA RootedEarlier ==
  ASSUME Shapes, NEW p, NEW s \in Int, NEW t \in Int, t <= s, Rooted(p, s)
  PROVE  Rooted(p, t)
  BY DEF Shapes, Rooted

-----------------------------------------------------------------------------
(* Steps that leave a part alone                                           *)

\* Roles and their grants do not change, or lose a grant.
LEMMA RolesUntouched ==
  ASSUME Shapes, AuthorityRooted, RequestRooted,
         UNCHANGED permissions, bestowed \subseteq bestowed', raced \subseteq raced',
         \A u \in Person, k \in Key : held'[u][k] \in {held[u][k], NoGrant},
         request' = request \/ request'.kind # "grant"
  PROVE  AuthorityRooted' /\ RequestRooted'
<1>1. AuthorityRooted'
  <2> SUFFICES ASSUME NEW u \in Person, NEW k \in Key, held'[u][k] # NoGrant, NEW p \in permissions'[k]
               PROVE  Rooted(p, held[u][k])' /\ held'[u][k] = held[u][k]
    BY DEF AuthorityRooted
  <2>1. held'[u][k] = held[u][k] /\ p \in permissions[k]
    OBVIOUS
  <2>2. Rooted(p, held[u][k])
    BY <2>1 DEF AuthorityRooted
  <2> QED BY <2>1, <2>2 DEF Rooted
<1>2. RequestRooted'
  <2> SUFFICES ASSUME request'.kind = "grant", NEW p \in permissions'[request'.role]
               PROVE  Rooted(p, request.until)'
    BY DEF RequestRooted
  <2>1. request' = request
    OBVIOUS
  <2>2. Rooted(p, request.until)
    BY <2>1 DEF RequestRooted
  <2> QED BY <2>1, <2>2 DEF Rooted
<1> QED BY <1>1, <1>2

\* Capabilities do not change, or lose a row.
LEMMA CapabilitiesUntouched ==
  ASSUME CapabilityRooted, RequestBacked, bestowed \subseteq bestowed',
         \A row \in Assignment : capabilities'[row] > 0 => capabilities[row] > 0,
         request' = request \/ request'.kind # "capability"
  PROVE  CapabilityRooted' /\ RequestBacked'
  BY DEF CapabilityRooted, RequestBacked, Rows, Backed

-----------------------------------------------------------------------------
(* Roles                                                                   *)

LEMMA AskKeeps ==
  ASSUME IInv, NEW a \in Person, NEW u \in Person, NEW k \in Key, NEW until \in Expiry, Ask(a, u, k, until)
  PROVE  IInv'
<1>1. request' = [kind |-> "grant", user |-> u, role |-> k, until |-> until]
      /\ UNCHANGED <<permissions, held, capabilities, bestowed, raced>>
  BY DEF Ask
<1>2. Shapes'
  BY <1>1 DEF IInv, Shapes
<1>3. PICK g \in Key :
        /\ held[a][g] > moment /\ until <= held[a][g]
        /\ g = k \/ permissions[k] \subseteq permissions[g]
  BY DEF Ask, Ceiling, Live
<1>4. held[a][g] \in Expiry
  <2>1. held[a][g] \in Expiry \cup {NoGrant}
    BY DEF IInv, Shapes
  <2>2. until >= 1 /\ until \in Int
    BY HorizonAssumption DEF Expiry, Unending
  <2>3. held[a][g] # NoGrant
    BY <1>3, <2>2 DEF NoGrant
  <2> QED BY <2>1, <2>3
<1>5. ASSUME NEW p \in permissions[k] PROVE Rooted(p, until)
  <2>1. p \in permissions[g]
    BY <1>3
  <2>2. Rooted(p, held[a][g])
    BY <1>4, <2>1, Times DEF IInv, AuthorityRooted
  <2> QED BY <1>3, <1>4, <2>2, Times, RootedEarlier DEF IInv
<1>6. RequestRooted'
  BY <1>1, <1>5 DEF RequestRooted, Rooted
<1>7. AuthorityRooted'
  BY <1>1 DEF IInv, AuthorityRooted, Rooted
<1>8. CapabilityRooted' /\ RequestBacked'
  BY <1>1, CapabilitiesUntouched DEF IInv
<1> QED BY <1>2, <1>6, <1>7, <1>8 DEF IInv

\* A grant whose powers are rooted by the time it is written.
LEMMA NewGrant ==
  ASSUME Shapes, AuthorityRooted, NEW u \in Person, NEW k \in Key, NEW until \in Expiry,
         held' = [held EXCEPT ![u][k] = until], UNCHANGED permissions,
         bestowed \subseteq bestowed', raced \subseteq raced',
         \A p \in permissions[k] : Rooted(p, until)'
  PROVE  AuthorityRooted' /\ held' \in [Person -> [Key -> Expiry \cup {NoGrant}]]
<1>1. held' \in [Person -> [Key -> Expiry \cup {NoGrant}]]
  BY DEF Shapes
<1>2. ASSUME NEW v \in Person, NEW h \in Key, held'[v][h] # NoGrant, NEW p \in permissions'[h]
      PROVE  Rooted(p, held[v][h])'
  <2>1. CASE v = u /\ h = k
    <3>1. held'[v][h] = until
      BY <2>1 DEF Shapes
    <3> QED BY <2>1, <3>1, <1>2 DEF Rooted
  <2>2. CASE ~(v = u /\ h = k)
    <3>1. held'[v][h] = held[v][h]
      BY <2>2 DEF Shapes
    <3>2. Rooted(p, held[v][h])
      BY <1>2, <3>1 DEF AuthorityRooted
    <3> QED BY <3>1, <3>2 DEF Rooted
  <2> QED BY <2>1, <2>2
<1> QED BY <1>1, <1>2 DEF AuthorityRooted

LEMMA CommitGrantKeeps == ASSUME IInv, CommitGrant PROVE IInv'
<1>1. /\ request.kind = "grant"
      /\ held' = [held EXCEPT ![request.user][request.role] = request.until]
      /\ request' = NoRequest
      /\ UNCHANGED <<permissions, capabilities, bestowed, raced>>
  BY DEF CommitGrant, InsertGrant
<1>2. request.user \in Person /\ request.role \in Key /\ request.until \in Expiry
  BY <1>1, RequestShape DEF IInv
<1>3. \A p \in permissions[request.role] : Rooted(p, request.until)
  BY <1>1 DEF IInv, RequestRooted
<1>4. PICK u \in Person, k \in Key, until \in Expiry :
        u = request.user /\ k = request.role /\ until = request.until
  BY <1>2
<1>5. AuthorityRooted' /\ held' \in [Person -> [Key -> Expiry \cup {NoGrant}]]
  <2>1. \A p \in permissions[k] : Rooted(p, until)'
    BY <1>1, <1>3, <1>4 DEF Rooted
  <2> QED BY <1>1, <1>4, <2>1, NewGrant DEF IInv
<1>6. Shapes'
  BY <1>1, <1>5 DEF IInv, Shapes
<1>7. RequestRooted' /\ CapabilityRooted' /\ RequestBacked'
  BY <1>1 DEF IInv, RequestRooted, CapabilityRooted, RequestBacked, Rows, NoRequest
<1> QED BY <1>5, <1>6, <1>7 DEF IInv

LEMMA AdminGrantKeeps ==
  ASSUME IInv, NEW u \in Person, NEW k \in Key, NEW until \in Expiry, AdminGrant(u, k, until)
  PROVE  IInv'
<1>1. /\ held' = [held EXCEPT ![u][k] = until]
      /\ bestowed' = bestowed \cup RolePowers(k, until)
      /\ UNCHANGED <<permissions, capabilities, request, raced>>
  BY DEF AdminGrant, InsertGrant, Bestow
<1>2. ASSUME NEW p \in permissions[k] PROVE Rooted(p, until)'
  <2>1. Power(p, until) \in bestowed'
    BY <1>1 DEF RolePowers
  <2>2. Power(p, until).of = p /\ Power(p, until).until >= until
    BY Times DEF Power
  <2> QED BY <2>1, <2>2 DEF Rooted
<1>3. AuthorityRooted' /\ held' \in [Person -> [Key -> Expiry \cup {NoGrant}]]
  BY <1>1, <1>2, NewGrant DEF IInv
<1>4. Shapes'
  <2>1. \A b \in RolePowers(k, until) : b.until \in Int
    BY Times DEF RolePowers, Power
  <2> QED BY <1>1, <1>3, <2>1 DEF IInv, Shapes
<1>5. RequestRooted'
  BY <1>1 DEF IInv, RequestRooted, Rooted
<1>6. CapabilityRooted' /\ RequestBacked'
  BY <1>1, CapabilitiesUntouched DEF IInv
<1> QED BY <1>3, <1>4, <1>5, <1>6 DEF IInv

LEMMA PatchRoleKeeps ==
  ASSUME IInv, NEW k \in Key, NEW perms \in SUBSET Perm, PatchRole(k, perms)
  PROVE  IInv'
<1> DEFINE Given == {Power(p, held[u][k]) : p \in perms, u \in {v \in Person : held[v][k] # NoGrant}}
           Late == {Power(p, request.until) : p \in perms \ permissions[k]}
<1>1. /\ permissions' = [permissions EXCEPT ![k] = perms]
      /\ bestowed' = bestowed \cup Given
      /\ raced' = raced \cup IF request.kind = "grant" /\ request.role = k THEN Late ELSE {}
      /\ UNCHANGED <<held, capabilities, request>>
  BY DEF PatchRole, Bestow
<1>2. permissions' \in [Key -> SUBSET Perm] /\ permissions'[k] = perms
      /\ \A h \in Key \ {k} : permissions'[h] = permissions[h]
  BY <1>1 DEF IInv, Shapes
<1>3. Shapes'
  <2>1. \A b \in Given : b.until \in Int
    BY GrantTimes DEF IInv, Power
  <2>2. request.kind = "grant" => \A b \in Late : b.until \in Int
    <3>1. request.kind = "grant" => request.until \in Int
      BY RequestShape, Times DEF IInv
    <3> QED BY <3>1 DEF Power
  <2> QED BY <1>1, <1>2, <2>1, <2>2 DEF IInv, Shapes
<1>4. ASSUME NEW u \in Person, NEW h \in Key, held[u][h] # NoGrant, NEW p \in permissions'[h]
      PROVE  \E b \in bestowed' \cup raced' : b.of = p /\ b.until >= held[u][h]
  <2>1. CASE h = k
    <3>1. Power(p, held[u][k]) \in bestowed'
      BY <1>1, <1>2, <1>4, <2>1
    <3>2. held[u][k] \in Int
      BY GrantTimes DEF IInv
    <3> QED BY <2>1, <3>1, <3>2 DEF Power
  <2>2. CASE h # k
    <3>1. Rooted(p, held[u][h])
      BY <1>2, <1>4, <2>2 DEF IInv, AuthorityRooted
    <3> QED BY <1>1, <3>1 DEF Rooted
  <2> QED BY <2>1, <2>2
<1>5. AuthorityRooted'
  BY <1>1, <1>4 DEF AuthorityRooted, Rooted
<1>6. ASSUME request.kind = "grant", NEW p \in permissions'[request.role]
      PROVE  \E b \in bestowed' \cup raced' : b.of = p /\ b.until >= request.until
  <2>1. request.role \in Key /\ request.until \in Int
    BY <1>6, RequestShape, Times DEF IInv
  <2>2. CASE p \in permissions[request.role]
    <3>1. Rooted(p, request.until)
      BY <1>6, <2>2 DEF IInv, RequestRooted
    <3> QED BY <1>1, <3>1 DEF Rooted
  <2>3. CASE p \notin permissions[request.role]
    <3>1. request.role = k /\ p \in perms \ permissions[k]
      BY <1>2, <1>6, <2>1, <2>3
    <3>2. Power(p, request.until) \in raced'
      BY <1>1, <1>6, <3>1
    <3> QED BY <2>1, <3>2 DEF Power
  <2> QED BY <2>2, <2>3
<1>7. RequestRooted'
  BY <1>1, <1>6 DEF RequestRooted, Rooted
<1>8. CapabilityRooted' /\ RequestBacked'
  BY <1>1, CapabilitiesUntouched DEF IInv
<1> QED BY <1>3, <1>5, <1>7, <1>8 DEF IInv

-----------------------------------------------------------------------------
(* Capabilities                                                            *)

LEMMA AskCapabilityKeeps ==
  ASSUME IInv, NEW a \in Person, NEW u \in Person, NEW c \in Capability, NEW s \in Scope,
         AskCapability(a, u, c, s)
  PROVE  IInv'
<1> DEFINE row == [user |-> u, capability |-> c, scope |-> s]
<1>1. /\ request' = [kind |-> "capability", row |-> row]
      /\ UNCHANGED <<permissions, held, capabilities, bestowed, raced>>
  BY DEF AskCapability
<1>2. row \in Assignment
  BY DEF Assignment
<1>3. Shapes'
  BY <1>1, <1>2 DEF IInv, Shapes
<1>4. PICK t \in {s, Everywhere} : t \in Scopes(a, c)
  BY DEF AskCapability, Permits
<1>5. [user |-> a, capability |-> c, scope |-> t] \in Rows
  BY <1>4 DEF Scopes, Rows, Assignment
<1>6. Backed(row)
  BY <1>4, <1>5 DEF IInv, CapabilityRooted, Backed
<1>7. RequestBacked'
  BY <1>1, <1>6 DEF RequestBacked, Backed
<1>8. CapabilityRooted'
  BY <1>1 DEF IInv, CapabilityRooted, Rows
<1>9. AuthorityRooted' /\ RequestRooted'
  BY <1>1 DEF IInv, AuthorityRooted, RequestRooted, Rooted
<1> QED BY <1>3, <1>7, <1>8, <1>9 DEF IInv

\* A row is written that is backed by then.
LEMMA NewRow ==
  ASSUME Shapes, CapabilityRooted, NEW row \in Assignment, Insert(row),
         bestowed \subseteq bestowed', Backed(row)'
  PROVE  CapabilityRooted' /\ capabilities' \in [Assignment -> Nat]
<1>1. capabilities' = [capabilities EXCEPT ![row] = @ + 1]
  BY DEF Insert
<1>2. capabilities' \in [Assignment -> Nat]
  BY <1>1 DEF Shapes
<1>3. Rows' \subseteq Rows \cup {row}
  BY <1>1 DEF Shapes, Rows
<1> QED BY <1>2, <1>3 DEF CapabilityRooted, Backed

LEMMA CommitCapabilityKeeps == ASSUME IInv, CommitCapability PROVE IInv'
<1>1. /\ request.kind = "capability" /\ Insert(request.row) /\ request' = NoRequest
      /\ UNCHANGED <<permissions, held, bestowed, raced>>
  BY DEF CommitCapability
<1>2. request.row \in Assignment /\ Backed(request.row)
  BY <1>1, RequestShape DEF IInv, RequestBacked
<1>3. CapabilityRooted' /\ capabilities' \in [Assignment -> Nat]
  <2>1. PICK row \in Assignment : row = request.row
    BY <1>2
  <2>2. Backed(row)'
    BY <1>1, <1>2, <2>1 DEF Backed
  <2> QED BY <1>1, <2>1, <2>2, NewRow DEF IInv
<1>4. Shapes'
  BY <1>1, <1>3 DEF IInv, Shapes
<1>5. AuthorityRooted' /\ RequestRooted' /\ RequestBacked'
  BY <1>1 DEF IInv, AuthorityRooted, RequestRooted, RequestBacked, Rooted, NoRequest
<1> QED BY <1>3, <1>4, <1>5 DEF IInv

LEMMA AdminCapabilityKeeps ==
  ASSUME IInv, NEW u \in Person, NEW c \in Capability, NEW s \in Scope, AdminCapability(u, c, s)
  PROVE  IInv'
<1> DEFINE row == [user |-> u, capability |-> c, scope |-> s]
<1>1. /\ Insert(row)
      /\ bestowed' = bestowed \cup {CapabilityPower(c, s)}
      /\ UNCHANGED <<permissions, held, request, raced>>
  BY DEF AdminCapability, Bestow
<1>2. row \in Assignment
  BY DEF Assignment
<1>3. Backed(row)'
  BY <1>1 DEF Backed
<1>4. CapabilityRooted' /\ capabilities' \in [Assignment -> Nat]
  BY <1>1, <1>2, <1>3, NewRow DEF IInv
<1>5. Shapes'
  <2>1. CapabilityPower(c, s).until \in Int
    BY Times DEF CapabilityPower, Power
  <2> QED BY <1>1, <1>4, <2>1 DEF IInv, Shapes
<1>6. RequestBacked'
  BY <1>1 DEF IInv, RequestBacked, Backed
<1>7. AuthorityRooted' /\ RequestRooted'
  BY <1>1 DEF IInv, AuthorityRooted, RequestRooted, Rooted
<1> QED BY <1>4, <1>5, <1>6, <1>7 DEF IInv

-----------------------------------------------------------------------------
THEOREM Invariance == CeilingSpec => []IInv
<1>1. CeilingInit => IInv
  BY DEF CeilingInit, IInv, Shapes, AuthorityRooted, RequestRooted, CapabilityRooted, RequestBacked, Rows, NoRequest
<1>2. IInv /\ [CeilingNext]_ceilingVars => IInv'
  <2> SUFFICES ASSUME IInv, [CeilingNext]_ceilingVars PROVE IInv'
    OBVIOUS
  <2>1. ASSUME NEW u \in Person, NEW k \in Key, Remove(u, k) PROVE IInv'
    <3>1. /\ held' = [held EXCEPT ![u][k] = NoGrant]
          /\ UNCHANGED <<permissions, capabilities, request, bestowed, raced>>
      BY <2>1 DEF Remove
    <3>2. \A v \in Person, h \in Key : held'[v][h] \in {held[v][h], NoGrant}
      BY <3>1 DEF IInv, Shapes
    <3>3. Shapes'
      BY <3>1 DEF IInv, Shapes
    <3>4. AuthorityRooted' /\ RequestRooted'
      BY <3>1, <3>2, RolesUntouched DEF IInv
    <3>5. CapabilityRooted' /\ RequestBacked'
      BY <3>1, CapabilitiesUntouched DEF IInv
    <3> QED BY <3>3, <3>4, <3>5 DEF IInv
  <2>2. ASSUME NEW row \in Assignment, RevokeCapability(row) PROVE IInv'
    <3>1. /\ capabilities[row] > 0 /\ capabilities' = [capabilities EXCEPT ![row] = @ - 1]
          /\ UNCHANGED <<permissions, held, request, bestowed, raced>>
      BY <2>2 DEF RevokeCapability
    <3>2. Shapes' /\ \A r \in Assignment : capabilities'[r] > 0 => capabilities[r] > 0
      BY <3>1 DEF IInv, Shapes
    <3>3. AuthorityRooted' /\ RequestRooted'
      BY <3>1 DEF IInv, AuthorityRooted, RequestRooted, Rooted
    <3>4. CapabilityRooted' /\ RequestBacked'
      BY <3>1, <3>2, CapabilitiesUntouched DEF IInv
    <3> QED BY <3>2, <3>3, <3>4 DEF IInv
  <2>3. CASE GiveUp
    <3>1. request' = NoRequest /\ UNCHANGED <<permissions, held, capabilities, bestowed, raced>>
      BY <2>3 DEF GiveUp
    <3> QED BY <3>1 DEF IInv, Shapes, AuthorityRooted, RequestRooted, CapabilityRooted, RequestBacked,
                       Rooted, Rows, NoRequest
  <2>4. CASE Passes \/ UNCHANGED ceilingVars
    <3>1. UNCHANGED <<permissions, held, capabilities, request, bestowed, raced>>
      BY <2>4 DEF Passes, ceilingVars
    <3> QED BY <3>1 DEF IInv, Shapes, AuthorityRooted, RequestRooted, CapabilityRooted, RequestBacked,
                       Rooted, Rows, Backed
  <2> QED BY <2>1, <2>2, <2>3, <2>4, AskKeeps, CommitGrantKeeps, AdminGrantKeeps, PatchRoleKeeps,
             AskCapabilityKeeps, CommitCapabilityKeeps, AdminCapabilityKeeps DEF CeilingNext
<1> QED BY <1>1, <1>2, PTL DEF CeilingSpec

\* authorization.py:103-104: no chain of delegates, with whatever role edits, expiries and
\* stale decisions in between, makes a permission that no administrator gave, or makes one
\* last longer than the one an administrator gave.
THEOREM ServiceAuthority == CeilingSpec => []AuthorityRooted
  BY Invariance, PTL DEF IInv

\* platform.py:973-976: whoever manages capabilities passes on only what an administrator
\* gave to somebody, in that scope or everywhere.
THEOREM PlatformAuthority == CeilingSpec => []CapabilityRooted
  BY Invariance, PTL DEF IInv
===================================================================================
