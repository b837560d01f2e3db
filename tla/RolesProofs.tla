------------------------------ MODULE RolesProofs ------------------------------
(***************************************************************************)
(* Roles, for any people, roles, permissions, role files, manifests and    *)
(* sheets: sessions claim nothing that has been taken away, every role is  *)
(* declared, and a role file imported twice changes nothing the second     *)
(* time.                                                                   *)
(*                                                                         *)
(* Identity, for any people and addresses: whose code verifies an address, *)
(* and which PINs the confirm step replaces.                               *)
(***************************************************************************)
EXTENDS Roles, Identity, TLAPS

\* The types the arguments below need.
Tables ==
    /\ catalog \subseteq Perm
    /\ roles \in [DOMAIN roles -> Role] /\ DOMAIN roles \subseteq Key
    /\ grants \subseteq Grant
    /\ \A g \in grants : g.role \in DOMAIN roles
    /\ session = NoSession \/ session.user \in User

\* And a draft is as well-formed as a file.
Shapes == Tables /\ (draft = None \/ WellFormed(draft))

IInv == Shapes /\ SessionsCurrent /\ DeclaredRoles

-----------------------------------------------------------------------------
(* Sessions                                                                *)

\* A session stands when its owner keeps every grant that is live and every role of these
\* its permissions.
Standing(u) ==
    \A g \in LiveGrants(u) :
        g \in grants' /\ roles[g.role].permissions \subseteq roles'[g.role].permissions

\* A session that ends, or whose owner's access stands, is as current as it was.
LEMMA StillCurrent ==
  ASSUME SessionsCurrent,
         session' = NoSession \/ (session' = session /\ Standing(session.user))
  PROVE  SessionsCurrent'
<1>1. CASE session' = NoSession
  BY <1>1 DEF SessionsCurrent
<1>2. CASE session' = session /\ session # NoSession /\ Standing(session.user)
  <2> DEFINE u == session.user
  <2>1. LiveGrants(u) \subseteq {g \in grants' : g.user = u /\ g.live}
    BY <1>2 DEF Standing, LiveGrants, GrantsOf
  <2>2. (LiveGrants(session.user))' = {g \in grants' : g.user = u /\ g.live}
    BY <1>2 DEF LiveGrants, GrantsOf
  <2>3. session.roles \subseteq {g.role : g \in LiveGrants(u)}
    BY <1>2 DEF SessionsCurrent
  <2>4. session.permissions \subseteq Access(u)
    BY <1>2 DEF SessionsCurrent
  <2>5. Access(u) \subseteq UNION {roles'[g.role].permissions : g \in {h \in grants' : h.user = u /\ h.live}}
    BY <1>2, <2>1 DEF Access, Standing
  <2>6. (Access(session.user))' = UNION {roles'[g.role].permissions : g \in {h \in grants' : h.user = u /\ h.live}}
    BY <1>2, <2>2 DEF Access
  <2> QED BY <1>2, <2>1, <2>2, <2>3, <2>4, <2>5, <2>6 DEF SessionsCurrent
<1>3. CASE session' = session /\ session = NoSession
  BY <1>3 DEF SessionsCurrent
<1> QED BY <1>1, <1>2, <1>3

\* Whom a revocation cuts off has no session left.
LEMMA CutOffSession ==
  ASSUME NEW people, CutOff(people), session = NoSession \/ session.user \in User
  PROVE  /\ session' = NoSession \/ (session' = session /\ session.user \notin people)
         /\ session' = NoSession \/ session'.user \in User
  BY DEF CutOff

-----------------------------------------------------------------------------
(* The assignment engine                                                   *)

\* Whatever grants the engine has at hand, it gives roles that exist, and takes nothing from
\* those it does not cut off.
LEMMA AssignmentsKeep ==
  ASSUME NEW block, NEW table, NEW held, NEW a \in Assignments(block, table, held),
         block.only \subseteq User, DOMAIN table \subseteq Key,
         held \subseteq Grant, \A g \in held : g.role \in DOMAIN table
  PROVE  /\ a.grants \subseteq Grant
         /\ \A g \in a.grants : g.role \in DOMAIN table
         /\ \A g \in held : g.user \notin a.cut => g \in a.grants
<1>1. PICK pick \in Picks(held) :
        LET moved == Moved(block, table, pick)
        IN  a = [grants |-> (held \ {pick[u] : u \in moved})
                     \cup {[pick[u] EXCEPT !.role = RoleFor(block, u)] : u \in moved}
                     \cup {Permanent(u, RoleFor(block, u)) : u \in Assigned(block, table) \ DOMAIN pick},
                 cut |-> moved]
  BY DEF Assignments
<1> DEFINE moved == Moved(block, table, pick)
           old == held \ {pick[u] : u \in moved}
           changed == {[pick[u] EXCEPT !.role = RoleFor(block, u)] : u \in moved}
           new == {Permanent(u, RoleFor(block, u)) : u \in Assigned(block, table) \ DOMAIN pick}
<1>2. a.grants = old \cup changed \cup new /\ a.cut = moved
  BY <1>1
<1>3. \A u \in Assigned(block, table) : u \in User /\ RoleFor(block, u) \in DOMAIN table
  BY DEF Assigned
<1>4. \A u \in moved : u \in Assigned(block, table) /\ u \in DOMAIN pick
  BY DEF Moved
<1>5. \A u \in DOMAIN pick : pick[u] \in held /\ pick[u].user = u
  BY DEF Picks
<1>6. \A g \in changed : g \in Grant /\ g.role \in DOMAIN table
  <2> SUFFICES ASSUME NEW u \in moved
               PROVE  /\ [pick[u] EXCEPT !.role = RoleFor(block, u)] \in Grant
                      /\ [pick[u] EXCEPT !.role = RoleFor(block, u)].role \in DOMAIN table
    OBVIOUS
  <2>1. pick[u] \in Grant
    BY <1>4, <1>5
  <2>2. RoleFor(block, u) \in DOMAIN table /\ RoleFor(block, u) \in Key
    BY <1>3, <1>4
  <2> HIDE DEF moved
  <2> QED BY <2>1, <2>2 DEF Grant
<1>7. \A g \in new : g \in Grant /\ g.role \in DOMAIN table
  <2> SUFFICES ASSUME NEW u \in Assigned(block, table)
               PROVE  /\ Permanent(u, RoleFor(block, u)) \in Grant
                      /\ Permanent(u, RoleFor(block, u)).role \in DOMAIN table
    OBVIOUS
  <2>1. u \in User /\ RoleFor(block, u) \in DOMAIN table /\ RoleFor(block, u) \in Key
    BY <1>3
  <2> QED BY <2>1 DEF Permanent, Grant
<1>8. \A g \in held : g.user \notin moved => g \in old
  BY <1>4, <1>5
<1> HIDE DEF old, changed, new, moved
<1>9. \A g \in old : g \in held
  BY DEF old
<1> QED BY <1>2, <1>6, <1>7, <1>8, <1>9

-----------------------------------------------------------------------------
(* Role files                                                              *)

Carries(f) == {Carried(f, g) : g \in grants}
Kept(f) == DOMAIN roles \ (Replaced(f) \cup Dropped(f, Carries(f)))
Table(f) == [k \in DOMAIN f.roles \cup Kept(f) |-> Written(f, k)]

\* The grants that "replaces" leaves have roles of the file or roles that stay.
LEMMA CarriedRoles ==
  ASSUME Shapes, NEW f, WellFormed(f), Valid(f)
  PROVE  /\ Table(f) \in [DOMAIN Table(f) -> Role] /\ DOMAIN Table(f) \subseteq Key
         /\ Carries(f) \subseteq Grant
         /\ \A g \in Carries(f) : g.role \in DOMAIN Table(f)
<1>1. DOMAIN Table(f) = DOMAIN f.roles \cup Kept(f) /\ Kept(f) \subseteq DOMAIN roles
  BY DEF Table, Kept
<1>2. \A k \in DOMAIN f.roles \cup Kept(f) : Written(f, k) \in Role
  BY <1>1 DEF Written, WellFormed, Shapes, Tables, Role
<1>3. Table(f) \in [DOMAIN Table(f) -> Role] /\ DOMAIN Table(f) \subseteq Key
  BY <1>1, <1>2 DEF Table, WellFormed, Shapes, Tables
<1>4. ASSUME NEW g \in grants
      PROVE  Carried(f, g) \in Grant /\ Carried(f, g).role \in DOMAIN f.roles \cup Kept(f)
  <2>1. g \in Grant /\ g.role \in DOMAIN roles
    BY DEF Shapes, Tables
  <2>2. CASE g.role \in Replaced(f)
    <3>1. \E n \in DOMAIN f.roles : g.role \in f.roles[n].replaces
      BY <2>2 DEF Replaced
    <3>2. Successor(f, g.role) \in DOMAIN f.roles
      BY <3>1 DEF Successor
    <3>3. Carried(f, g) = [g EXCEPT !.role = Successor(f, g.role)]
      BY <2>2 DEF Carried
    <3> QED BY <2>1, <3>2, <3>3 DEF Grant, WellFormed
  <2>3. CASE g.role \notin Replaced(f)
    <3>1. Carried(f, g) = g /\ g \in Carries(f)
      BY <2>3 DEF Carried, Carries
    <3>2. g.role \notin Dropped(f, Carries(f))
      BY <3>1 DEF Dropped
    <3> QED BY <2>1, <2>3, <3>1, <3>2 DEF Kept
  <2> QED BY <2>2, <2>3
<1> QED BY <1>1, <1>3, <1>4 DEF Carries

\* What an import makes, in the words of the lemmas above.
LEMMA ImportOutcome ==
  ASSUME NEW f, NEW mode, Import(f, mode)
  PROVE  /\ Valid(f)
         /\ \E a \in Assignments(InMode(f.assign, mode), Table(f), Carries(f)) :
                /\ catalog' = f.permissions /\ roles' = Table(f) /\ grants' = a.grants
                /\ CutOff(a.cut \cup UNION {Holders(k) : k \in Replaced(f) \cup Repermitted(f)})
         /\ unlisted' = DOMAIN Table(f) \ DOMAIN f.roles
<1>1. PICK outcome \in Imports(f, mode) :
        /\ catalog' = outcome.catalog /\ roles' = outcome.roles /\ grants' = outcome.grants
        /\ CutOff(outcome.cut) /\ unlisted' = DOMAIN outcome.roles \ DOMAIN f.roles
  BY DEF Import
<1>2. Valid(f)
  BY <1>1 DEF Imports
<1>3. PICK a \in Assignments(InMode(f.assign, mode), Table(f), Carries(f)) :
        outcome = [catalog |-> f.permissions, roles |-> Table(f), grants |-> a.grants,
                   cut |-> a.cut \cup UNION {Holders(k) : k \in Replaced(f) \cup Repermitted(f)}]
  BY <1>1 DEF Imports, Carries, Table, Kept
<1> QED BY <1>1, <1>2, <1>3

\* An import leaves tables, a current session and declared roles.
LEMMA ImportStep ==
  ASSUME Shapes, SessionsCurrent, NEW f, WellFormed(f), NEW mode, Import(f, mode)
  PROVE  Tables' /\ SessionsCurrent' /\ DeclaredRoles'
<1> DEFINE cut(a) == a.cut \cup UNION {Holders(k) : k \in Replaced(f) \cup Repermitted(f)}
<1>1. PICK a \in Assignments(InMode(f.assign, mode), Table(f), Carries(f)) :
        /\ catalog' = f.permissions /\ roles' = Table(f) /\ grants' = a.grants
        /\ CutOff(cut(a))
  BY ImportOutcome
<1>2. Valid(f) /\ unlisted' = DOMAIN Table(f) \ DOMAIN f.roles
  BY ImportOutcome
<1>3. /\ Table(f) \in [DOMAIN Table(f) -> Role] /\ DOMAIN Table(f) \subseteq Key
      /\ Carries(f) \subseteq Grant
      /\ \A g \in Carries(f) : g.role \in DOMAIN Table(f)
  BY <1>2, CarriedRoles
<1>4. InMode(f.assign, mode).only \subseteq User
  BY DEF InMode, WellFormed
<1>5. /\ a.grants \subseteq Grant
      /\ \A g \in a.grants : g.role \in DOMAIN Table(f)
      /\ \A g \in Carries(f) : g.user \notin a.cut => g \in a.grants
  BY <1>3, <1>4, AssignmentsKeep
<1>6. /\ session' = NoSession \/ (session' = session /\ session.user \notin cut(a))
      /\ session' = NoSession \/ session'.user \in User
  <2> HIDE DEF cut
  <2> QED BY <1>1, CutOffSession DEF Shapes, Tables
<1>7. Tables'
  <2>1. catalog' \subseteq Perm
    BY <1>1 DEF WellFormed
  <2>2. roles' \in [DOMAIN roles' -> Role] /\ DOMAIN roles' \subseteq Key
    BY <1>1, <1>3
  <2>3. grants' \subseteq Grant /\ \A g \in grants' : g.role \in DOMAIN roles'
    BY <1>1, <1>5
  <2> QED BY <2>1, <2>2, <2>3, <1>6 DEF Tables
<1>8. SessionsCurrent'
  <2>1. ASSUME session.user \notin cut(a), NEW g \in LiveGrants(session.user)
        PROVE  g \in grants' /\ roles[g.role].permissions \subseteq roles'[g.role].permissions
    <3>1. g \in grants /\ g.user = session.user /\ g.role \in DOMAIN roles
      BY DEF LiveGrants, GrantsOf, Shapes, Tables
    <3>2. session.user \in Holders(g.role)
      BY <3>1 DEF Holders
    <3>3. g.role \notin Replaced(f) /\ g.role \notin Repermitted(f) /\ session.user \notin a.cut
      BY <2>1, <3>2
    <3>4. Carried(f, g) = g /\ g \in Carries(f)
      BY <3>1, <3>3 DEF Carried, Carries
    <3>5. g \in grants' /\ g.role \in DOMAIN Table(f)
      BY <1>1, <1>3, <1>5, <3>1, <3>3, <3>4
    <3>6. roles'[g.role] = Written(f, g.role)
      BY <1>1, <3>5 DEF Table
    <3>7. Written(f, g.role).permissions = roles[g.role].permissions
      BY <3>1, <3>3 DEF Written, Repermitted
    <3> QED BY <3>5, <3>6, <3>7
  <2>2. session.user \notin cut(a) => Standing(session.user)
    BY <2>1 DEF Standing
  <2> HIDE DEF cut
  <2> QED BY <1>6, <2>2, StillCurrent
<1>9. DeclaredRoles'
  <2>1. DOMAIN roles' \ unlisted' \subseteq DOMAIN f.roles
    BY <1>1, <1>2
  <2>2. ASSUME NEW k \in DOMAIN roles' \ unlisted'
        PROVE  /\ roles'[k].permissions = f.roles[k].permissions
               /\ roles'[k].default = f.roles[k].default
    BY <1>1, <2>1 DEF Table, Written
  <2>3. \A k \in DOMAIN f.roles :
            f.roles[k].permissions \subseteq f.permissions /\ (f.permissions # {} => f.roles[k].permissions # {})
    BY <1>2 DEF Valid
  <2>4. \A j, k \in DOMAIN f.roles : f.roles[j].default /\ f.roles[k].default => j = k
    BY <1>2 DEF Valid, OneDefault
  <2>5. \A k \in DOMAIN roles' \ unlisted' :
            roles'[k].permissions \subseteq catalog' /\ (catalog' # {} => roles'[k].permissions # {})
    BY <1>1, <2>1, <2>2, <2>3
  <2>6. \A j, k \in DOMAIN roles' \ unlisted' : roles'[j].default /\ roles'[k].default => j = k
    BY <2>1, <2>2, <2>4
  <2> QED BY <2>5, <2>6 DEF DeclaredRoles, Declared
<1> QED BY <1>7, <1>8, <1>9

-----------------------------------------------------------------------------
(* Hand edits                                                              *)

\* Roles are edited, and whoever is not cut off keeps the permissions of their roles.
LEMMA RolesEdited ==
  ASSUME Shapes, SessionsCurrent, NEW people, CutOff(people), UNCHANGED grants,
         \A g \in grants : g.user \notin people =>
            roles[g.role].permissions \subseteq roles'[g.role].permissions
  PROVE  SessionsCurrent'
<1>1. session' = NoSession \/ (session' = session /\ session.user \notin people)
  BY CutOffSession DEF Shapes, Tables
<1>2. session.user \notin people => Standing(session.user)
  BY DEF Standing, LiveGrants, GrantsOf
<1> QED BY <1>1, <1>2, StillCurrent

\* Grants are edited, and whoever is not cut off keeps theirs.
LEMMA GrantsEdited ==
  ASSUME Shapes, SessionsCurrent, NEW people, CutOff(people), UNCHANGED roles,
         \A g \in grants : g.user \notin people => g \in grants'
  PROVE  SessionsCurrent'
<1>1. session' = NoSession \/ (session' = session /\ session.user \notin people)
  BY CutOffSession DEF Shapes, Tables
<1>2. session.user \notin people => Standing(session.user)
  BY DEF Standing, LiveGrants, GrantsOf
<1> QED BY <1>1, <1>2, StillCurrent

\* Who keeps their session is not cut off.
LEMMA Uncut == ASSUME UNCHANGED session PROVE CutOff({})
  BY DEF CutOff

LEMMA AddRoleStep ==
  ASSUME IInv, NEW k \in Key, NEW default \in BOOLEAN, NEW permissions \in SUBSET Perm,
         AddRole(k, default, permissions)
  PROVE  IInv'
<1>1. /\ k \notin DOMAIN roles /\ Declared(permissions)
      /\ DOMAIN roles' = DOMAIN roles \cup {k}
      /\ roles'[k] = [default |-> default, permissions |-> permissions]
      /\ \A j \in DOMAIN roles : roles'[j] = IF default THEN Cleared(roles)[j] ELSE roles[j]
      /\ roles' = [j \in DOMAIN roles' |-> roles'[j]]
  BY DEF AddRole
<1>2. \A j \in DOMAIN roles :
        /\ roles'[j] \in Role
        /\ roles'[j].permissions = roles[j].permissions
        /\ roles'[j].default => roles[j].default /\ ~default
  <2> SUFFICES ASSUME NEW j \in DOMAIN roles
               PROVE  /\ roles'[j] \in Role
                      /\ roles'[j].permissions = roles[j].permissions
                      /\ roles'[j].default => roles[j].default /\ ~default
    OBVIOUS
  <2>1. roles[j] \in Role
    BY DEF IInv, Shapes, Tables
  <2>2. CASE default
    <3>1. roles'[j] = [roles[j] EXCEPT !.default = FALSE]
      BY <1>1, <2>2 DEF Cleared
    <3> QED BY <2>1, <3>1 DEF Role
  <2>3. CASE ~default
    BY <1>1, <2>1, <2>3
  <2> QED BY <2>2, <2>3
<1>3. UNCHANGED <<catalog, grants, draft, session>> /\ unlisted' = unlisted \ {k}
  BY DEF AddRole
<1>4. Shapes'
  <2>1. \A j \in DOMAIN roles' : roles'[j] \in Role
    BY <1>1, <1>2 DEF Role
  <2>2. roles' \in [DOMAIN roles' -> Role] /\ DOMAIN roles' \subseteq Key
    BY <1>1, <2>1 DEF IInv, Shapes, Tables
  <2> QED BY <1>1, <1>3, <2>2 DEF IInv, Shapes, Tables, NoSession, WellFormed
<1>5. SessionsCurrent'
  <2>1. \A g \in grants : roles[g.role].permissions \subseteq roles'[g.role].permissions
    BY <1>2 DEF IInv, Shapes, Tables
  <2> QED BY <1>3, <2>1, RolesEdited, Uncut DEF IInv
<1>6. DeclaredRoles'
  <2>1. \A j \in DOMAIN roles \ unlisted : Declared(roles'[j].permissions)
    BY <1>2 DEF IInv, DeclaredRoles
  <2>2. \A j \in DOMAIN roles' \ unlisted' : Declared(roles'[j].permissions)
    BY <1>1, <1>3, <2>1
  <2>3. \A i, j \in DOMAIN roles' \ unlisted' : roles'[i].default /\ roles'[j].default => i = j
    BY <1>1, <1>2, <1>3 DEF IInv, DeclaredRoles
  <2> QED BY <1>3, <2>2, <2>3 DEF DeclaredRoles, Declared
<1> QED BY <1>4, <1>5, <1>6 DEF IInv

LEMMA PatchDefaultStep ==
  ASSUME IInv, NEW k \in Key, NEW default \in BOOLEAN, PatchDefault(k, default)
  PROVE  IInv'
<1>1. UNCHANGED <<catalog, grants, draft, session, unlisted>>
  BY DEF PatchDefault
<1>2. /\ DOMAIN roles' = DOMAIN roles /\ roles' = [j \in DOMAIN roles' |-> roles'[j]]
  BY DEF PatchDefault, Cleared
<1>3. \A j \in DOMAIN roles :
        /\ roles'[j] \in Role
        /\ roles'[j].permissions = roles[j].permissions
        /\ roles'[j].default => IF j = k THEN default ELSE roles[j].default /\ ~default
  <2> SUFFICES ASSUME NEW j \in DOMAIN roles
               PROVE  /\ roles'[j] \in Role
                      /\ roles'[j].permissions = roles[j].permissions
                      /\ roles'[j].default => IF j = k THEN default ELSE roles[j].default /\ ~default
    OBVIOUS
  <2>1. roles[j] \in Role
    BY DEF IInv, Shapes, Tables
  <2>2. roles'[j] = IF j = k
                    THEN [(IF default THEN Cleared(roles) ELSE roles)[j] EXCEPT !.default = default]
                    ELSE (IF default THEN Cleared(roles) ELSE roles)[j]
    BY DEF PatchDefault, Cleared
  <2>3. CASE default
    <3>1. Cleared(roles)[j] = [roles[j] EXCEPT !.default = FALSE]
      BY DEF Cleared
    <3> QED BY <2>1, <2>2, <2>3, <3>1 DEF Role
  <2>4. CASE ~default
    <3>1. CASE j = k
      <4>1. roles'[j] = [roles[j] EXCEPT !.default = default]
        BY <2>2, <2>4, <3>1
      <4> QED BY <2>1, <2>4, <3>1, <4>1 DEF Role
    <3>2. CASE j # k
      BY <2>1, <2>2, <2>4, <3>2
    <3> QED BY <3>1, <3>2
  <2> QED BY <2>3, <2>4
<1>4. Shapes'
  <2>1. \A j \in DOMAIN roles' : roles'[j] \in Role
    BY <1>2, <1>3 DEF Role
  <2>2. roles' \in [DOMAIN roles' -> Role] /\ DOMAIN roles' \subseteq Key
    BY <1>2, <2>1 DEF IInv, Shapes, Tables
  <2> QED BY <1>1, <1>2, <2>2 DEF IInv, Shapes, Tables, NoSession, WellFormed
<1>5. SessionsCurrent'
  <2>1. \A g \in grants : roles[g.role].permissions \subseteq roles'[g.role].permissions
    BY <1>3 DEF IInv, Shapes, Tables
  <2> QED BY <1>1, <2>1, RolesEdited, Uncut DEF IInv
<1>6. DeclaredRoles'
  BY <1>1, <1>2, <1>3 DEF IInv, DeclaredRoles, Declared
<1> QED BY <1>4, <1>5, <1>6 DEF IInv

LEMMA PatchPermissionsStep ==
  ASSUME IInv, NEW k \in Key, NEW permissions \in SUBSET Perm, PatchPermissions(k, permissions)
  PROVE  IInv'
<1> DEFINE people == IF permissions = roles[k].permissions THEN {} ELSE Holders(k)
<1>1. /\ UNCHANGED <<catalog, grants, draft>> /\ CutOff(people) /\ k \in DOMAIN roles
      /\ Declared(permissions)
      /\ unlisted' = IF roles[k].default THEN unlisted ELSE unlisted \ {k}
  BY DEF PatchPermissions
<1>2. /\ DOMAIN roles' = DOMAIN roles /\ roles' = [j \in DOMAIN roles' |-> roles'[j]]
      /\ \A j \in DOMAIN roles :
            /\ roles[j] \in Role
            /\ roles'[j] = [default |-> roles[j].default,
                            permissions |-> IF j = k THEN permissions ELSE roles[j].permissions]
  BY DEF PatchPermissions, IInv, Shapes, Tables, Role
<1>3. Shapes'
  <2>1. \A j \in DOMAIN roles' : roles'[j] \in Role
    BY <1>2 DEF Role
  <2>2. roles' \in [DOMAIN roles' -> Role] /\ DOMAIN roles' \subseteq Key
    BY <1>2, <2>1 DEF IInv, Shapes, Tables
  <2>3. session' = NoSession \/ session'.user \in User
    BY <1>1, CutOffSession DEF IInv, Shapes, Tables
  <2> QED BY <1>1, <1>2, <2>2, <2>3 DEF IInv, Shapes, Tables, NoSession, WellFormed
<1>4. SessionsCurrent'
  <2>1. ASSUME NEW g \in grants, g.user \notin people
        PROVE  roles[g.role].permissions \subseteq roles'[g.role].permissions
    BY <1>2, <2>1 DEF Holders, IInv, Shapes, Tables
  <2> HIDE DEF people
  <2> QED BY <1>1, <2>1, RolesEdited DEF IInv
<1>5. DeclaredRoles'
  BY <1>1, <1>2 DEF IInv, DeclaredRoles, Declared
<1> QED BY <1>3, <1>4, <1>5 DEF IInv

LEMMA DeleteRoleStep ==
  ASSUME IInv, NEW k \in Key, DeleteRole(k)
  PROVE  IInv'
<1>1. /\ UNCHANGED <<catalog, grants, draft, session>> /\ unlisted' = unlisted \ {k}
      /\ \A g \in grants : g.role # k
      /\ DOMAIN roles' = DOMAIN roles \ {k} /\ roles' = [j \in DOMAIN roles' |-> roles[j]]
  BY DEF DeleteRole, Restrict, Holders
<1>2. Shapes'
  <2>1. roles' \in [DOMAIN roles' -> Role] /\ DOMAIN roles' \subseteq Key
    BY <1>1 DEF IInv, Shapes, Tables
  <2> QED BY <1>1, <2>1 DEF IInv, Shapes, Tables, NoSession, WellFormed
<1>3. SessionsCurrent'
  <2>1. \A g \in grants : roles[g.role].permissions \subseteq roles'[g.role].permissions
    BY <1>1 DEF IInv, Shapes, Tables
  <2> QED BY <1>1, <2>1, RolesEdited, Uncut DEF IInv
<1>4. DeclaredRoles'
  BY <1>1 DEF IInv, DeclaredRoles, Declared
<1> QED BY <1>2, <1>3, <1>4 DEF IInv

-----------------------------------------------------------------------------
(* Grants                                                                  *)

\* Grants of roles there are are added, and taken from people who are cut off.
LEMMA GrantsChange ==
  ASSUME IInv, UNCHANGED <<catalog, roles, draft, unlisted>>, NEW people, CutOff(people),
         \A g \in grants : g.user \notin people => g \in grants',
         \A g \in grants' : g \in Grant /\ g.role \in DOMAIN roles
  PROVE  IInv'
<1>1. SessionsCurrent'
  BY GrantsEdited DEF IInv
<1>2. session' = NoSession \/ session'.user \in User
  BY CutOffSession DEF IInv, Shapes, Tables
<1>3. Shapes'
  BY <1>2 DEF IInv, Shapes, Tables, NoSession, WellFormed
<1>4. DeclaredRoles'
  BY DEF IInv, DeclaredRoles, Declared
<1> QED BY <1>1, <1>3, <1>4 DEF IInv

LEMMA PermanentGrant ==
  ASSUME NEW u \in User, NEW k \in Key
  PROVE  Permanent(u, k) \in Grant /\ Permanent(u, k).role = k
  BY DEF Permanent, Grant

LEMMA LowestRole ==
  ASSUME Lowest # None
  PROVE  Lowest \in DOMAIN roles
  BY DEF Lowest

LEMMA GrantEditStep ==
  ASSUME IInv, GrantEdit
  PROVE  IInv'
<1> USE DEF IInv, Shapes, Tables
<1>1. ASSUME NEW u \in User, NEW k \in Key, NEW temporary \in BOOLEAN, CreateGrant(u, k, temporary)
      PROVE  IInv'
  <2>1. /\ UNCHANGED <<catalog, roles, draft, session, unlisted>> /\ k \in DOMAIN roles
        /\ grants' = grants \cup {[Permanent(u, k) EXCEPT !.temporary = temporary]}
    BY <1>1 DEF CreateGrant
  <2>2. /\ [Permanent(u, k) EXCEPT !.temporary = temporary] \in Grant
        /\ [Permanent(u, k) EXCEPT !.temporary = temporary].role = k
    BY DEF Permanent, Grant
  <2> QED BY <2>1, <2>2, Uncut, GrantsChange
<1>2. ASSUME NEW g \in grants, DeleteGrant(g)
      PROVE  IInv'
  BY <1>2, GrantsChange DEF DeleteGrant
<1>3. ASSUME NEW people \in SUBSET User, NEW k \in Key, BulkGrants(people, k)
      PROVE  IInv'
  <2>1. /\ UNCHANGED <<catalog, roles, draft, session, unlisted>> /\ k \in DOMAIN roles
        /\ grants' = grants \cup {Permanent(u, k) : u \in {v \in people : ~Has(v, k)}}
    BY <1>3 DEF BulkGrants
  <2>2. \A g \in grants' : g \in Grant /\ g.role \in DOMAIN roles
    BY <2>1, PermanentGrant
  <2> QED BY <2>1, <2>2, Uncut, GrantsChange
<1>4. ASSUME NEW u \in User, NEW keys \in SUBSET Key, NEW replace \in BOOLEAN,
             BatchGrants(u, keys, replace)
      PROVE  IInv'
  <2> DEFINE unwanted == IF replace THEN {g \in GrantsOf(u) : g.role \notin keys} ELSE {}
             cut == IF unwanted = {} THEN {} ELSE {u}
  <2>1. /\ UNCHANGED <<catalog, roles, draft, unlisted>> /\ CutOff(cut)
        /\ keys \subseteq DOMAIN roles
        /\ grants' = (grants \ unwanted) \cup {Permanent(u, k) : k \in {j \in keys : ~Has(u, j)}}
    BY <1>4 DEF BatchGrants
  <2>2. \A g \in grants' : g \in Grant /\ g.role \in DOMAIN roles
    BY <2>1, PermanentGrant
  <2>3. \A g \in grants : g.user \notin cut => g \in grants'
    BY <2>1 DEF GrantsOf
  <2> HIDE DEF cut
  <2> QED BY <2>1, <2>2, <2>3, GrantsChange
<1>5. ASSUME NEW u \in User, Onboard(u)
      PROVE  IInv'
  <2>1. /\ UNCHANGED <<catalog, roles, draft, session, unlisted>>
        /\ Lowest \in DOMAIN roles /\ grants' = grants \cup {Permanent(u, Lowest)}
    BY <1>5, LowestRole DEF Onboard
  <2>2. Permanent(u, Lowest) \in Grant /\ Permanent(u, Lowest).role \in DOMAIN roles
    BY <2>1, PermanentGrant
  <2> QED BY <2>1, <2>2, Uncut, GrantsChange
<1> QED BY <1>1, <1>2, <1>3, <1>4, <1>5 DEF GrantEdit

\* The people sheet: the engine gives and moves, then a cell that says `none` takes away.
LEMMA SheetStep ==
  ASSUME IInv, NEW c \in Columns, NEW skip \in SUBSET User, SheetColumn(c, skip)
  PROVE  IInv'
<1>1. PICK a \in Assignments(SheetBlock(c, skip), roles, grants) :
        LET barred == {u \in DOMAIN c.cells \ skip : c.cells[u] = NoAccess /\ Held(a.grants, u) # {}}
        IN  \E gone \in {p \in [barred -> a.grants] : \A u \in barred : p[u].user = u} :
                /\ grants' = a.grants \ Range(gone)
                /\ CutOff(a.cut \cup barred)
                /\ UNCHANGED <<catalog, roles, draft, unlisted>>
  BY DEF SheetColumn
<1> DEFINE barred == {u \in DOMAIN c.cells \ skip : c.cells[u] = NoAccess /\ Held(a.grants, u) # {}}
<1>2. PICK gone \in {p \in [barred -> a.grants] : \A u \in barred : p[u].user = u} :
        /\ grants' = a.grants \ Range(gone)
        /\ CutOff(a.cut \cup barred)
        /\ UNCHANGED <<catalog, roles, draft, unlisted>>
  BY <1>1
<1>3. SheetBlock(c, skip).only \subseteq User
  BY RolesAssumption DEF SheetBlock
<1>4. /\ a.grants \subseteq Grant
      /\ \A g \in a.grants : g.role \in DOMAIN roles
      /\ \A g \in grants : g.user \notin a.cut => g \in a.grants
  BY <1>3, AssignmentsKeep DEF IInv, Shapes, Tables
<1> HIDE DEF barred
<1>5. \A g \in Range(gone) : g.user \in barred
  BY <1>2 DEF Range
<1>6. \A g \in grants : g.user \notin a.cut \cup barred => g \in grants'
  BY <1>2, <1>4, <1>5
<1>7. \A g \in grants' : g \in Grant /\ g.role \in DOMAIN roles
  BY <1>2, <1>4
<1> QED BY <1>2, <1>6, <1>7, GrantsChange

-----------------------------------------------------------------------------
(* Drafts, tokens and expiry                                               *)

LEMMA DraftWellFormed ==
  ASSUME Shapes, NEW m \in Manifests
  PROVE  WellFormed(Draft(m))
<1> DEFINE keys == DOMAIN m.suggested \cup DOMAIN roles
           part(k) == [default |-> k \in DOMAIN roles /\ roles[k].default,
                       permissions |-> IF k \in DOMAIN m.suggested THEN m.suggested[k]
                                       ELSE roles[k].permissions \cap m.permissions,
                       replaces |-> {}]
<1>1. keys \subseteq Key /\ m.permissions \subseteq Perm
  BY RolesAssumption DEF Shapes, Tables
<1>2. \A k \in keys : part(k).permissions \subseteq Perm
  BY RolesAssumption, <1>1
<1>3. \A k \in keys : part(k).default \in BOOLEAN
  OBVIOUS
<1>4. /\ Draft(m).permissions = m.permissions
      /\ Draft(m).roles = [k \in keys |-> part(k)]
      /\ Draft(m).assign = NoAssign
  BY DEF Draft
<1> HIDE DEF part, keys
<1> QED BY <1>1, <1>2, <1>3, <1>4 DEF WellFormed, NoAssign

LEMMA MintStep ==
  ASSUME IInv, NEW u \in User, Mint(u)
  PROVE  IInv'
<1>1. /\ UNCHANGED <<catalog, roles, grants, draft, unlisted>>
      /\ session' = [user |-> u, roles |-> {g.role : g \in LiveGrants(u)}, permissions |-> Access(u)]
  BY DEF Mint
<1>2. (LiveGrants(u))' = LiveGrants(u) /\ (Access(u))' = Access(u)
  BY <1>1 DEF LiveGrants, GrantsOf, Access
<1>3. SessionsCurrent'
  BY <1>1, <1>2 DEF SessionsCurrent, LiveGrants, GrantsOf, Access
<1>4. Shapes'
  BY <1>1 DEF IInv, Shapes, Tables, WellFormed
<1>5. DeclaredRoles'
  BY <1>1 DEF IInv, DeclaredRoles, Declared
<1> QED BY <1>3, <1>4, <1>5 DEF IInv

LEMMA LapseStep ==
  ASSUME IInv, NEW g \in grants, Lapse(g)
  PROVE  IInv'
<1>1. /\ UNCHANGED <<catalog, roles, draft, unlisted>> /\ CutOff({g.user})
      /\ grants' = (grants \ {g}) \cup {[g EXCEPT !.live = FALSE]}
  BY DEF Lapse
<1>2. [g EXCEPT !.live = FALSE] \in Grant /\ [g EXCEPT !.live = FALSE].role = g.role
  BY DEF IInv, Shapes, Tables, Grant
<1>3. \A h \in grants' : h \in Grant /\ h.role \in DOMAIN roles
  BY <1>1, <1>2 DEF IInv, Shapes, Tables
<1> QED BY <1>1, <1>3, GrantsChange

LEMMA FileStep ==
  ASSUME IInv, NEW f, WellFormed(f), NEW mode, Import(f, mode), draft' = draft \/ draft' = None
  PROVE  IInv'
<1>1. Tables' /\ SessionsCurrent' /\ DeclaredRoles'
  BY ImportStep DEF IInv
<1>2. draft' = None \/ WellFormed(draft')
  BY DEF IInv, Shapes
<1> QED BY <1>1, <1>2 DEF IInv, Shapes, WellFormed

LEMMA DraftStep ==
  ASSUME IInv, NEW m \in Manifests, MakeDraft(m)
  PROVE  IInv'
<1>1. UNCHANGED <<catalog, roles, grants, session, unlisted>> /\ draft' = Draft(m)
  BY DEF MakeDraft
<1>2. WellFormed(Draft(m))
  BY DraftWellFormed DEF IInv
<1>3. Shapes'
  BY <1>1, <1>2 DEF IInv, Shapes, Tables, NoSession, WellFormed
<1>4. SessionsCurrent'
  BY <1>1 DEF IInv, SessionsCurrent, LiveGrants, GrantsOf, Access, NoSession
<1>5. DeclaredRoles'
  BY <1>1 DEF IInv, DeclaredRoles, Declared
<1> QED BY <1>3, <1>4, <1>5 DEF IInv

-----------------------------------------------------------------------------
(* The theorems                                                            *)

LEMMA InitInv == Init => IInv
<1> SUFFICES ASSUME Init PROVE IInv
  OBVIOUS
<1>1. DOMAIN roles = {} /\ roles = [k \in DOMAIN roles |-> roles[k]]
  BY DEF Init
<1> QED BY <1>1 DEF Init, IInv, Shapes, Tables, SessionsCurrent, DeclaredRoles, NoSession

LEMMA NextInv == IInv /\ [Next]_vars => IInv'
<1> SUFFICES ASSUME IInv, [Next]_vars PROVE IInv'
  OBVIOUS
<1>1. ASSUME NEW f \in Files, NEW mode \in {"missing", "all"}, ImportFile(f, mode)
      PROVE  IInv'
  BY <1>1, RolesAssumption, FileStep DEF ImportFile
<1>2. CASE HandEdit
  BY <1>2, AddRoleStep, PatchDefaultStep, PatchPermissionsStep, DeleteRoleStep DEF HandEdit
<1>3. CASE GrantEdit
  BY <1>3, GrantEditStep
<1>4. CASE Upload
  <2>1. CASE ImportDraft
    <3>1. WellFormed(draft) /\ Import(draft, "missing") /\ draft' = None
      BY <2>1 DEF ImportDraft, IInv, Shapes
    <3> QED BY <3>1, FileStep
  <2> QED BY <1>4, <2>1, DraftStep, SheetStep DEF Upload
<1>5. ASSUME NEW u \in User, Mint(u) PROVE IInv'
  BY <1>5, MintStep
<1>6. ASSUME NEW g \in grants, Lapse(g) PROVE IInv'
  BY <1>6, LapseStep
<1>7. CASE UNCHANGED vars
  BY <1>7 DEF vars, IInv, Shapes, Tables, SessionsCurrent, DeclaredRoles, Declared, NoSession,
              LiveGrants, GrantsOf, Access, WellFormed
<1> QED BY <1>1, <1>2, <1>3, <1>4, <1>5, <1>6, <1>7 DEF Next, Other

THEOREM Invariance == Spec => []IInv
  BY InitInv, NextInv, PTL DEF Spec

\* roles_io.py revoke_role_holders and its callers: whatever hand edits, imports, sheets and
\* expiries do, a session that has not been cut off claims no role and no permission that its
\* owner would not be given now.
THEOREM CurrentSessions == Spec => []SessionsCurrent
<1>1. IInv => SessionsCurrent
  BY DEF IInv
<1> QED BY <1>1, Invariance, PTL

\* roles_io.py validate and platform.py _check_permissions: the roles are declared by the
\* catalog and have one default at most, except those that an import has left as they were.
THEOREM RolesDeclared == Spec => []DeclaredRoles
<1>1. IInv => DeclaredRoles
  BY DEF IInv
<1> QED BY <1>1, Invariance, PTL

-----------------------------------------------------------------------------
(* Imports                                                                 *)

\* A role file is in force: its roles are what it says, there are none that it replaces or
\* would drop, nobody has a role twice, and everybody it has a role for has one.
InForce(f) ==
    /\ Valid(f)
    /\ catalog = f.permissions
    /\ roles = [k \in DOMAIN roles |-> roles[k]]
    /\ DOMAIN f.roles \subseteq DOMAIN roles /\ DOMAIN roles \cap Replaced(f) = {}
    /\ \A k \in DOMAIN f.roles :
          roles[k] = [default |-> f.roles[k].default, permissions |-> f.roles[k].permissions]
    /\ f.remove_unlisted => \A k \in DOMAIN roles \ DOMAIN f.roles : \E g \in grants : g.role = k
    /\ \A g \in grants : g.role \in DOMAIN roles
    /\ \A g, h \in grants : g.user = h.user /\ g.role = h.role => g = h
    /\ \A u \in f.assign.only : RoleFor(f.assign, u) \in DOMAIN roles => \E g \in grants : g.user = u

\* The mode leaves alone what a block says.
LEMMA SameRole ==
  ASSUME NEW block, NEW mode, NEW u
  PROVE  /\ RoleFor(InMode(block, mode), u) = RoleFor(block, u)
         /\ InMode(block, mode).only = block.only
<1>1. /\ InMode(block, mode).people = block.people /\ InMode(block, mode).rules = block.rules
      /\ InMode(block, mode).default = block.default /\ InMode(block, mode).only = block.only
  BY DEF InMode
<1>2. Matching(InMode(block, mode), u) = Matching(block, u)
  BY <1>1 DEF Matching
<1>3. FirstRule(InMode(block, mode), u) = FirstRule(block, u)
  BY <1>1, <1>2 DEF FirstRule
<1> QED BY <1>1, <1>2, <1>3 DEF RoleFor

\* An import that fills gaps moves nobody.
LEMMA FillsGaps ==
  ASSUME NEW block, NEW table, NEW pick
  PROVE  Moved(InMode(block, "missing"), table, pick) = {}
  BY DEF Moved, Rederives, InMode

\* There is a grant at hand of everybody who has one.
LEMMA SomePick ==
  ASSUME NEW held
  PROVE  \E pick \in Picks(held) : DOMAIN pick = {g.user : g \in held}
<1> DEFINE pick == [u \in {g.user : g \in held} |-> CHOOSE g \in held : g.user = u]
<1>1. \A u \in {g.user : g \in held} : pick[u] \in held /\ pick[u].user = u
  OBVIOUS
<1>2. pick \in Picks(held)
  BY <1>1 DEF Picks
<1> QED BY <1>2

\* What the engine makes of it: it adds a grant for everybody who has none.
LEMMA Filled ==
  ASSUME NEW block, NEW table, NEW held
  PROVE  Assignments(InMode(block, "missing"), table, held) =
           {[grants |-> held \cup {Permanent(u, RoleFor(block, u)) :
                                   u \in Assigned(InMode(block, "missing"), table) \ {g.user : g \in held}},
             cut |-> {}]}
<1> DEFINE mb == InMode(block, "missing")
           holding == {g.user : g \in held}
           new == {Permanent(u, RoleFor(block, u)) : u \in Assigned(mb, table) \ holding}
           made(pick) ==
             LET moved == Moved(mb, table, pick)
             IN  [grants |-> (held \ {pick[u] : u \in moved})
                             \cup {[pick[u] EXCEPT !.role = RoleFor(mb, u)] : u \in moved}
                             \cup {Permanent(u, RoleFor(mb, u)) : u \in Assigned(mb, table) \ DOMAIN pick},
                  cut |-> moved]
<1>1. ASSUME NEW pick \in Picks(held)
      PROVE  made(pick) = [grants |-> held \cup new, cut |-> {}]
  <2>1. DOMAIN pick = holding
    BY DEF Picks
  <2>2. Moved(mb, table, pick) = {}
    BY FillsGaps
  <2>3. \A u : RoleFor(mb, u) = RoleFor(block, u)
    BY SameRole
  <2>4. {Permanent(u, RoleFor(mb, u)) : u \in Assigned(mb, table) \ DOMAIN pick} = new
    BY <2>1, <2>3
  <2>5. {pick[u] : u \in {}} = {} /\ {[pick[u] EXCEPT !.role = RoleFor(mb, u)] : u \in {}} = {}
    OBVIOUS
  <2> HIDE DEF mb, new
  <2> QED BY <2>2, <2>4, <2>5
<1>2. Assignments(mb, table, held) =
        {made(pick) : pick \in {p \in Picks(held) :
            \A u \in Moved(mb, table, p) : RoleFor(mb, u) \notin RolesIn(held, u)}}
  BY DEF Assignments
<1>3. {p \in Picks(held) : \A u \in Moved(mb, table, p) : RoleFor(mb, u) \notin RolesIn(held, u)}
        = Picks(held)
  BY FillsGaps
<1>4. Picks(held) # {}
  BY SomePick
<1> HIDE DEF made, mb, new
<1>5. {made(pick) : pick \in Picks(held)} = {[grants |-> held \cup new, cut |-> {}]}
  BY <1>1, <1>4
<1> QED BY <1>2, <1>3, <1>5 DEF mb, new

\* A file in force, imported once more, changes nothing.
LEMMA InForceSettles ==
  ASSUME NEW f, InForce(f)
  PROVE  Imports(f, "missing") =
           {[catalog |-> catalog, roles |-> roles, grants |-> grants, cut |-> {}]}
<1>1. \A g \in grants : g.role \notin Replaced(f) /\ Carried(f, g) = g
  BY DEF InForce, Carried
<1>2. ~Collision(f)
  BY <1>1 DEF Collision, InForce
<1>3. Carries(f) = grants
  BY <1>1 DEF Carries
<1>4. Dropped(f, Carries(f)) \cap DOMAIN roles = {}
  BY <1>3 DEF Dropped, InForce
<1>5. DOMAIN f.roles \cup Kept(f) = DOMAIN roles
  BY <1>4 DEF Kept, InForce
<1>6. Table(f) = roles
  <2>1. \A k \in DOMAIN roles : Written(f, k) = roles[k]
    BY DEF Written, InForce
  <2>2. Table(f) = [k \in DOMAIN roles |-> roles[k]]
    BY <1>5, <2>1 DEF Table
  <2> QED BY <2>2 DEF InForce
<1>7. UNION {Holders(k) : k \in Replaced(f) \cup Repermitted(f)} = {}
  <2>1. \A k \in DOMAIN f.roles : roles[k].permissions = f.roles[k].permissions
    <3> SUFFICES ASSUME NEW k \in DOMAIN f.roles PROVE roles[k].permissions = f.roles[k].permissions
      OBVIOUS
    <3>1. roles[k] = [default |-> f.roles[k].default, permissions |-> f.roles[k].permissions]
      BY DEF InForce
    <3> DEFINE d == f.roles[k].default
               p == f.roles[k].permissions
    <3>2. roles[k] = [default |-> d, permissions |-> p]
      BY <3>1
    <3> HIDE DEF d, p
    <3>3. roles[k].permissions = p
      BY <3>2
    <3> QED BY <3>3 DEF p
  <2>2. Repermitted(f) = {}
    BY <2>1 DEF Repermitted
  <2>3. \A k \in Replaced(f) : Holders(k) = {}
    BY <1>1 DEF Holders
  <2> QED BY <2>2, <2>3
<1>8. Assignments(InMode(f.assign, "missing"), roles, grants) = {[grants |-> grants, cut |-> {}]}
  <2> DEFINE without == Assigned(InMode(f.assign, "missing"), roles) \ {g.user : g \in grants}
             given == {Permanent(u, RoleFor(f.assign, u)) : u \in without}
  <2>1. without = {}
    BY SameRole DEF InForce, Assigned
  <2>2. given = {}
    BY <2>1
  <2>3. Assignments(InMode(f.assign, "missing"), roles, grants) = {[grants |-> grants \cup given, cut |-> {}]}
    BY Filled
  <2> HIDE DEF given
  <2> QED BY <2>2, <2>3
<1> DEFINE sentBack == UNION {Holders(k) : k \in Replaced(f) \cup Repermitted(f)}
<1>9. Imports(f, "missing") =
        {[catalog |-> f.permissions, roles |-> Table(f), grants |-> a.grants, cut |-> a.cut \cup sentBack]
           : a \in Assignments(InMode(f.assign, "missing"), Table(f), Carries(f))}
  BY <1>2 DEF Imports, InForce, Carries, Table, Kept
<1> HIDE DEF sentBack
<1>10. Imports(f, "missing") =
        {[catalog |-> catalog, roles |-> roles, grants |-> a.grants, cut |-> a.cut \cup sentBack]
           : a \in {[grants |-> grants, cut |-> {}]}}
  BY <1>3, <1>6, <1>8, <1>9 DEF InForce
<1> QED BY <1>7, <1>10 DEF sentBack

\* An import that fills gaps puts its file in force.
LEMMA ImportInForce ==
  ASSUME Shapes, NEW f, WellFormed(f), Import(f, "missing")
  PROVE  InForce(f)'
<1> DEFINE new == {Permanent(u, RoleFor(f.assign, u)) :
                   u \in Assigned(InMode(f.assign, "missing"), Table(f)) \ {g.user : g \in Carries(f)}}
<1>1. /\ Valid(f) /\ ~Collision(f)
      /\ catalog' = f.permissions /\ roles' = Table(f)
      /\ grants' = Carries(f) \cup new
  <2>1. PICK a \in Assignments(InMode(f.assign, "missing"), Table(f), Carries(f)) :
          catalog' = f.permissions /\ roles' = Table(f) /\ grants' = a.grants
    BY ImportOutcome
  <2>2. a = [grants |-> Carries(f) \cup new, cut |-> {}]
    BY Filled
  <2>3. Valid(f) /\ ~Collision(f)
    BY DEF Import, Imports
  <2> HIDE DEF new
  <2> QED BY <2>1, <2>2, <2>3
<1>2. /\ DOMAIN Table(f) = DOMAIN f.roles \cup Kept(f)
      /\ Table(f) = [k \in DOMAIN Table(f) |-> Table(f)[k]]
      /\ \A k \in DOMAIN f.roles : Table(f)[k] = [default |-> f.roles[k].default,
                                                  permissions |-> f.roles[k].permissions]
  BY DEF Table, Written
<1>3. DOMAIN Table(f) \cap Replaced(f) = {}
  BY <1>1, <1>2 DEF Valid, Kept
<1>4. \A g \in Carries(f) : g.role \in DOMAIN Table(f)
  BY <1>1, CarriedRoles
<1>5. ASSUME NEW u \in Assigned(InMode(f.assign, "missing"), Table(f))
      PROVE  /\ u \in f.assign.only /\ RoleFor(f.assign, u) \in DOMAIN Table(f)
             /\ Permanent(u, RoleFor(f.assign, u)).user = u
             /\ Permanent(u, RoleFor(f.assign, u)).role = RoleFor(f.assign, u)
  BY SameRole DEF Assigned, Permanent
<1>6. \A g \in grants' : g.role \in DOMAIN roles'
  BY <1>1, <1>4, <1>5
<1>7. \A g, h \in Carries(f) : g.user = h.user /\ g.role = h.role => g = h
  <2>1. SUFFICES ASSUME NEW g \in grants, NEW h \in grants, Carried(f, g).user = Carried(f, h).user,
                        Carried(f, g).role = Carried(f, h).role
                 PROVE  Carried(f, g) = Carried(f, h)
    BY DEF Carries
  <2>2. Carried(f, g).user = g.user /\ Carried(f, h).user = h.user
    BY DEF Carried, Shapes, Tables, Grant
  <2> QED BY <1>1, <2>1, <2>2 DEF Collision
<1>8. \A g, h \in grants' : g.user = h.user /\ g.role = h.role => g = h
  <2>1. \A h \in new : h.user \notin {g.user : g \in Carries(f)} /\ h = Permanent(h.user, RoleFor(f.assign, h.user))
    BY <1>5
  <2> HIDE DEF new
  <2> QED BY <1>1, <1>7, <2>1
<1>9. f.remove_unlisted => \A k \in DOMAIN roles' \ DOMAIN f.roles : \E g \in grants' : g.role = k
  <2>1. SUFFICES ASSUME f.remove_unlisted, NEW k \in Kept(f), k \notin DOMAIN f.roles
                 PROVE  \E g \in Carries(f) : g.role = k
    BY <1>1, <1>2
  <2> QED BY <2>1 DEF Kept, Dropped
<1>10. \A u \in f.assign.only : RoleFor(f.assign, u) \in DOMAIN roles' => \E g \in grants' : g.user = u
  <2>1. SUFFICES ASSUME NEW u \in f.assign.only, RoleFor(f.assign, u) \in DOMAIN Table(f),
                        u \notin {g.user : g \in Carries(f)}
                 PROVE  \E g \in new : g.user = u
    BY <1>1
  <2>2. u \in Assigned(InMode(f.assign, "missing"), Table(f))
    BY <2>1, SameRole DEF Assigned
  <2>3. Permanent(u, RoleFor(f.assign, u)) \in new /\ Permanent(u, RoleFor(f.assign, u)).user = u
    BY <1>5, <2>1, <2>2
  <2> QED BY <2>3
<1> HIDE DEF new
<1>11. /\ Valid(f)' /\ Replaced(f)' = Replaced(f)
  BY <1>1 DEF Valid, OneDefault, Replaced, Named, RoleFor, Matching, FirstRule
<1> QED BY <1>1, <1>2, <1>3, <1>6, <1>8, <1>9, <1>10, <1>11 DEF InForce

\* roles_io.py apply: a role file that has just been imported can be imported again, and then
\* changes no role, no grant and no session.
THEOREM ImportsSettle == Spec => []ImportSettles
<1> DEFINE Settled == imported # None => InForce(imported)
<1>1. Init => Settled
  BY DEF Init
<1>2. IInv /\ Settled /\ [Next]_vars => Settled'
  <2> SUFFICES ASSUME IInv, Settled, [Next]_vars PROVE Settled'
    OBVIOUS
  <2>1. ASSUME NEW f \in Files, ImportFile(f, "missing")
        PROVE  Settled'
    <3>1. imported' = f /\ InForce(f)'
      BY <2>1, RolesAssumption, ImportInForce DEF ImportFile, IInv
    <3> QED BY <3>1 DEF InForce
  <2>2. ASSUME NEW f \in Files, ImportFile(f, "all")
        PROVE  Settled'
    BY <2>2 DEF ImportFile
  <2>3. CASE Other /\ imported' = None
    BY <2>3
  <2>4. CASE UNCHANGED vars
    BY <2>4 DEF vars, InForce
  <2> QED BY <2>1, <2>2, <2>3, <2>4 DEF Next
<1>3. Settled => ImportSettles
  BY InForceSettles DEF ImportSettles
<1> QED BY <1>1, <1>2, <1>3, Invariance, PTL DEF Spec

-----------------------------------------------------------------------------
(* Who somebody is                                                         *)

Owners == listed \in [Address -> [owner : Code \cup {Absent}, verified : BOOLEAN]]

\* Whoever is in, or has typed a code, does so for somebody; so does a listed address.
Visitors ==
    /\ visits = [a \in Address |-> visits[a]]
    /\ \A a \in Address :
        /\ visits[a].at \in {"in", "submitted"} => visits[a].user \in Code
        /\ visits[a].at = "welcome" /\ visits[a].mode = "personal" => visits[a].user \in Code

\* A code typed for a listed address is its owner's when the commit comes, unless the
\* address was listed anew meanwhile.
TypedForOwner == \A a \in Address \ crossed :
    Submitting(a) /\ visits[a].mode = "personal" /\ listed[a].owner # Absent
        => listed[a].owner = visits[a].user

\* The PIN the confirm step has read is the PIN there is, unless it changed meanwhile; an
\* onboarding session went in with none.
PinRead == \A a \in Address : Submitting(a) =>
    /\ visits[a].pin = users[visits[a].user].pin \/ visits[a].user \in overlapped
    /\ visits[a].mode = "session" => visits[a].pin = "unset"

PeopleInv == Owners /\ Visitors /\ TypedForOwner /\ PinRead /\ VerifiedByCode /\ OwnPinStands

LEMMA PeopleInitially == ASSUME IdentityInit PROVE PeopleInv
  BY DEF IdentityInit, PeopleInv, Owners, Visitors, TypedForOwner, PinRead, VerifiedByCode, OwnPinStands,
         Unlisted, Out, Submitting

\* Whoever comes, is told to wait, types a code or leaves: only the visit changes.
LEMMA VisitStep ==
    ASSUME PeopleInv, NEW a \in Address, NEW v, Visit(a, v), Nothing,
           v.at \in {"in", "submitted"} => v.user \in Code,
           v.at = "welcome" /\ v.mode = "personal" => v.user \in Code,
           v.at = "submitted" => /\ v.pin = users[v.user].pin
                                 /\ v.mode = "session" => v.pin = "unset"
                                 /\ v.mode = "personal" => listed[a].owner = v.user
    PROVE  PeopleInv'
<1>1. /\ visits' = [b \in Address |-> visits'[b]]
      /\ visits'[a] = v /\ \A b \in Address \ {a} : visits'[b] = visits[b]
  BY DEF PeopleInv, Visitors, Visit
<1>. QED
  BY <1>1
  DEF PeopleInv, Owners, Visitors, TypedForOwner, PinRead, VerifiedByCode, OwnPinStands, Nothing, Submitting

LEMMA GoogleLoginStep == ASSUME PeopleInv, NEW a \in Address, GoogleLogin(a) PROVE PeopleInv'
<1>. DEFINE owner == listed[a].owner
            known == IF Login(a) # {} THEN Login(a)
                     ELSE {k \in {owner} \ {Absent} : users[k].active /\ listed[a].verified}
<1>1. owner \in Code \cup {Absent} /\ known \subseteq Code
  BY DEF PeopleInv, Owners, Login
<1>2. Nothing
  BY DEF GoogleLogin
<1>3. ASSUME NEW k \in known, Visit(a, [at |-> "in", user |-> k]) PROVE PeopleInv'
  BY <1>1, <1>2, <1>3, VisitStep
<1>4. ASSUME owner # Absent, Visit(a, [at |-> "welcome", mode |-> "personal", user |-> owner]) PROVE PeopleInv'
  BY <1>1, <1>2, <1>4, VisitStep
<1>5. ASSUME Visit(a, [at |-> "welcome", mode |-> "new", user |-> Absent]) PROVE PeopleInv'
  BY <1>2, <1>5, VisitStep
<1>. QED
  BY <1>3, <1>4, <1>5 DEF GoogleLogin

LEMMA LeaveStep == ASSUME PeopleInv, NEW a \in Address, Leave(a) PROVE PeopleInv'
  BY VisitStep DEF Leave, Out

\* The code that was typed is the account's, and the PIN is read with it.
LEMMA SubmitStep ==
    ASSUME PeopleInv, NEW a \in Address, NEW mode, NEW k \in Code, Submit(a, mode, k), Nothing,
           mode = "session" => users[k].pin = "unset",
           mode = "personal" => listed[a].owner = k
    PROVE  PeopleInv'
  BY VisitStep DEF Submit

LEMMA SubmittingStep ==
    ASSUME PeopleInv, NEW a \in Address,
           SubmitSession(a) \/ SubmitPersonal(a) \/ \E k \in Code : SubmitNew(a, k)
    PROVE  PeopleInv'
<1>1. CASE SubmitSession(a)
  BY <1>1, SubmitStep DEF SubmitSession, PeopleInv, Visitors
<1>2. CASE SubmitPersonal(a)
  BY <1>2, SubmitStep DEF SubmitPersonal, PeopleInv, Visitors
<1>3. ASSUME NEW k \in Code, SubmitNew(a, k) PROVE PeopleInv'
  BY <1>3, SubmitStep DEF SubmitNew
<1>. QED
  BY <1>1, <1>2, <1>3

\* What the histories do to the visits that go on.
LEMMA Watched ==
    ASSUME PeopleInv, Watch, Owners'
    PROVE  /\ crossed \subseteq crossed' /\ overlapped \subseteq overlapped'
           /\ \A a \in Address : (visits'[a] = visits[a] /\ Submitting(a)) =>
                /\ Submitting(a)'
                /\ a \notin crossed' /\ listed'[a].owner # Absent => listed'[a].owner = listed[a].owner
                /\ users'[visits[a].user].pin = users[visits[a].user].pin \/ visits[a].user \in overlapped'
  BY DEF PeopleInv, Visitors, Watch, Submitting

\* A commit of the confirm step, of `k` who enters.
LEMMA EnterStep ==
    ASSUME PeopleInv, NEW a \in Address, NEW k \in Code, Enter(a, k), Owners', VerifiedByCode',
           \A b \in Address \ {a} : listed'[b].owner = listed[b].owner,
           lost' \subseteq overlapped'
    PROVE  PeopleInv'
<1>1. /\ visits' = [b \in Address |-> visits'[b]] /\ visits'[a] = [at |-> "in", user |-> k]
      /\ \A b \in Address \ {a} : visits'[b] = visits[b]
  BY DEF PeopleInv, Visitors, Enter, Visit
<1>2. ~Submitting(a)'
  BY <1>1 DEF Submitting
<1>3. Visitors'
  BY <1>1 DEF PeopleInv, Visitors
<1>4. TypedForOwner'
  BY <1>1, <1>2, Watched DEF PeopleInv, TypedForOwner, Enter, Submitting
<1>5. PinRead'
  BY <1>1, <1>2, Watched DEF PeopleInv, PinRead, Enter, Submitting
<1>. QED
  BY <1>3, <1>4, <1>5 DEF PeopleInv, OwnPinStands

LEMMA CommitStep ==
    ASSUME PeopleInv, NEW a \in Address, CommitSession(a) \/ CommitPersonal(a) \/ CommitNew(a)
    PROVE  PeopleInv'
<1>. DEFINE k == visits[a].user
<1>1. Submitting(a) /\ k \in Code /\ Enter(a, k) /\ Watch
  BY DEF CommitSession, CommitPersonal, CommitNew, PeopleInv, Visitors, Submitting, Enter
<1>2. visits[a].pin = users[k].pin \/ k \in overlapped
  BY <1>1 DEF PeopleInv, PinRead
<1>3. crossed \subseteq crossed' /\ overlapped \subseteq overlapped' /\ lost \subseteq overlapped
  BY <1>1 DEF Watch, PeopleInv, OwnPinStands
<1>4. CASE CommitSession(a)
  <2>1. lost' \subseteq overlapped'
    BY <1>1, <1>2, <1>3, <1>4 DEF CommitSession, PeopleInv, PinRead
  <2>2. Owners' /\ VerifiedByCode' /\ UNCHANGED listed
    BY <1>3, <1>4 DEF CommitSession, OnlyUsers, PeopleInv, Owners, VerifiedByCode
  <2>. QED
    BY <1>1, <2>1, <2>2, EnterStep
<1>5. CASE CommitPersonal(a)
  <2>1. lost' \subseteq overlapped'
    BY <1>1, <1>2, <1>3, <1>5 DEF CommitPersonal, PinStands
  <2>2. Owners' /\ \A b \in Address : listed'[b].owner = listed[b].owner /\ (b # a => listed'[b] = listed[b])
    BY <1>5 DEF CommitPersonal, PeopleInv, Owners
  <2>3. a \notin crossed => listed[a].owner = k
    BY <1>1, <1>5 DEF CommitPersonal, PeopleInv, TypedForOwner
  <2>4. VerifiedByCode'
    BY <1>3, <1>5, <2>2, <2>3 DEF CommitPersonal, PeopleInv, VerifiedByCode
  <2>. QED
    BY <1>1, <2>1, <2>2, <2>4, EnterStep
<1>6. CASE CommitNew(a)
  BY <1>1, <1>3, <1>6, EnterStep DEF CommitNew, PeopleInv, Owners, VerifiedByCode
<1>. QED
  BY <1>4, <1>5, <1>6

\* A change by an administrator or by somebody in their own account: some sessions end, and
\* no address becomes verified or keeps that with another owner.
LEMMA ActStep ==
    ASSUME PeopleInv, Act, UNCHANGED visits \/ \E ks \in SUBSET Code : SignOut(ks), Owners',
           \A a \in Address : listed'[a].verified =>
                /\ listed[a].verified /\ listed'[a].owner = listed[a].owner
                /\ <<a, listed[a].owner>> \in proved => <<a, listed[a].owner>> \in proved'
    PROVE  PeopleInv'
<1>1. Watch /\ lost' = lost
  BY DEF Act
<1>2. /\ visits' = [a \in Address |-> visits'[a]]
      /\ \A a \in Address : visits'[a] = visits[a] \/ visits'[a] = Out
  BY DEF PeopleInv, Visitors, SignOut
<1>3. Visitors'
  BY <1>2 DEF PeopleInv, Visitors, Out
<1>4. \A a \in Address : Submitting(a)' => visits'[a] = visits[a] /\ Submitting(a)
  BY <1>2 DEF Submitting, Out
<1>5. TypedForOwner' /\ PinRead'
  BY <1>1, <1>4, Watched DEF PeopleInv, TypedForOwner, PinRead
<1>6. VerifiedByCode' /\ OwnPinStands'
  BY <1>1, Watched DEF PeopleInv, VerifiedByCode, OwnPinStands
<1>. QED
  BY <1>3, <1>5, <1>6 DEF PeopleInv

\* The ones that leave the listed addresses alone.
LEMMA OnlyUsersStep ==
    ASSUME PeopleInv, Act, UNCHANGED <<listed, proved>>, UNCHANGED visits \/ \E ks \in SUBSET Code : SignOut(ks)
    PROVE  PeopleInv'
  BY ActStep DEF PeopleInv, Owners

LEMMA RelistStep ==
    ASSUME PeopleInv, NEW k \in Code, NEW a \in Address, Relist(k, a), proved' = proved \ {<<a, k>>},
           Act, \E ks \in SUBSET Code : SignOut(ks)
    PROVE  PeopleInv'
<1>1. Owners'
  BY DEF PeopleInv, Owners, Relist, Unlisted
<1>2. \A b \in Address : listed'[b].verified => b # a /\ listed'[b] = listed[b]
  BY DEF Relist, Unlisted
<1>. QED
  BY <1>1, <1>2, ActStep

LEMMA RemoveStep == ASSUME PeopleInv, NEW k \in Code, RemovePersonal(k) PROVE PeopleInv'
<1>1. Owners'
  BY DEF PeopleInv, Owners, RemovePersonal, Unlisted
<1>2. \A b \in Address : listed'[b].verified => listed'[b] = listed[b]
  BY DEF RemovePersonal, Unlisted
<1>. QED
  BY <1>1, <1>2, ActStep DEF RemovePersonal

LEMMA SheetRowStep ==
    ASSUME PeopleInv, NEW k \in Code, NEW a \in Company \cup {Absent}, NEW p \in MaybeAddress,
           NEW exited \in BOOLEAN, SheetRow(k, a, p, exited)
    PROVE  PeopleInv'
<1>1. Act /\ \E ks \in SUBSET Code : SignOut(ks)
  BY DEF SheetRow
<1>2. CASE p # Absent /\ Free(k, p) /\ listed[p].owner # k
  <2>1. p \in Address /\ Relist(k, p) /\ proved' = proved \ {<<p, k>>}
    BY <1>2 DEF SheetRow, MaybeAddress
  <2>. QED
    BY <1>1, <2>1, RelistStep
<1>3. CASE ~(p # Absent /\ Free(k, p) /\ listed[p].owner # k)
  BY <1>1, <1>3, OnlyUsersStep DEF SheetRow
<1>. QED
  BY <1>2, <1>3

LEMMA PeopleStep == ASSUME PeopleInv, [IdentityNext]_identityVars PROVE PeopleInv'
<1>1. ASSUME NEW a \in Address,
             \/ GoogleLogin(a) \/ Leave(a)
             \/ SubmitSession(a) \/ SubmitPersonal(a)
             \/ CommitSession(a) \/ CommitPersonal(a) \/ CommitNew(a)
             \/ \E k \in Code : SubmitNew(a, k)
      PROVE  PeopleInv'
  BY <1>1, GoogleLoginStep, LeaveStep, SubmittingStep, CommitStep
<1>2. ASSUME NEW k \in Code, NEW a \in Address, Link(k, a) PROVE PeopleInv'
  BY <1>2, OnlyUsersStep DEF Link, OnlyUsers
<1>3. ASSUME NEW k \in Code, NEW a \in Address, SetPersonal(k, a) PROVE PeopleInv'
  BY <1>3, RelistStep DEF SetPersonal
<1>4. ASSUME NEW k \in Code, ChangePin(k) PROVE PeopleInv'
  BY <1>4, OnlyUsersStep DEF ChangePin, OnlyUsers
<1>5. ASSUME NEW k \in Code, RemovePersonal(k) PROVE PeopleInv'
  BY <1>5, RemoveStep
<1>6. ASSUME NEW k \in Code, NEW pin \in {"unset", "issued"}, ResetPin(k, pin) PROVE PeopleInv'
  BY <1>6, OnlyUsersStep DEF ResetPin, OnlyUsers
<1>7. ASSUME NEW k \in Code, NEW active \in BOOLEAN, NEW admin \in BOOLEAN, Switch(k, active, admin)
      PROVE  PeopleInv'
  BY <1>7, OnlyUsersStep DEF Switch, OnlyUsers
<1>8. ASSUME NEW k \in Code, NEW admin \in BOOLEAN, ProvisionByCode(k, admin) PROVE PeopleInv'
  BY <1>8, OnlyUsersStep DEF ProvisionByCode, OnlyUsers
<1>9. ASSUME NEW k \in Code, NEW a \in Company \cup {Absent}, SetOfficial(k, a) PROVE PeopleInv'
  BY <1>9, OnlyUsersStep DEF SetOfficial
<1>10. ASSUME NEW k \in Code, NEW a \in Company \cup {Absent}, NEW p \in MaybeAddress, NEW exited \in BOOLEAN,
              SheetRow(k, a, p, exited)
       PROVE  PeopleInv'
  BY <1>10, SheetRowStep
<1>11. ASSUME NEW k \in Code, NEW a \in MaybeAddress, EditWork(k, a) \/ CreateEmployee(k, a) \/ CreatePerson(k, a)
       PROVE  PeopleInv'
  BY <1>11, OnlyUsersStep DEF EditWork, CreateEmployee, CreatePerson, NewEmployee
<1>12. ASSUME NEW k \in Code, NEW a \in Company, NEW active \in BOOLEAN, NEW admin \in BOOLEAN,
              NEW reset \in BOOLEAN, Roster(k, a, active, admin, reset)
       PROVE  PeopleInv'
  BY <1>12, OnlyUsersStep DEF Roster
<1>13. CASE UNCHANGED identityVars
  BY <1>13
  DEF identityVars, PeopleInv, Owners, Visitors, TypedForOwner, PinRead, VerifiedByCode, OwnPinStands, Submitting
<1>14. CASE IdentityNext
  BY <1>14, <1>1, <1>2, <1>3, <1>4, <1>5, <1>6, <1>7, <1>8, <1>9, <1>10, <1>11, <1>12 DEF IdentityNext
<1>. QED
  BY <1>13, <1>14

LEMMA PeopleAlways == IdentitySpec => []PeopleInv
  BY PeopleInitially, PeopleStep, PTL DEF IdentitySpec

\* onboarding.py:12-14, for any people and addresses: a verified address is one whose owner's
\* code was typed with it since it was listed, unless it changed hands inside the very step
\* that verified it.
THEOREM CodeVerifies == IdentitySpec => []VerifiedByCode
  BY PeopleAlways, PTL DEF PeopleInv

\* routers/auth.py:736-737: the confirm step never replaces a PIN its owner chose, unless the
\* PIN changed inside that very step.
THEOREM OwnPinKept == IdentitySpec => []OwnPinStands
  BY PeopleAlways, PTL DEF PeopleInv
=============================================================================
