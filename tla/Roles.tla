--------------------------------- MODULE Roles ---------------------------------
(***************************************************************************)
(* The roles of one service and who holds them: the hand edits of          *)
(* routers/platform.py, the role files of roles_io.py, the drafts of       *)
(* access_contract.py, and the role column of the people sheet             *)
(* (people_sheet.py _apply_grants), which shares the assignment engine     *)
(* with the role files.                                                    *)
(*                                                                         *)
(* Every request is one step here: what a token handoff may read between   *)
(* the statements of one is the subject of module Revocation.  A role file *)
(* is a member of Files, with what validate looks at and apply uses; names *)
(* and the order of the roles are left out.                                *)
(***************************************************************************)
EXTENDS Naturals, FiniteSets, Sequences, Functions

CONSTANTS
    User, Key, Perm,
    Files,      \* role files an administrator may import, valid or not
    Manifests,  \* what the service may declare at /_mmos/manifest
    Columns,    \* columns of the people sheet for this service
    MaxTemporary, \* bound: grants with an expiry at once
    NoAccess,   \* a cell of the sheet that says `none`
    None

\* What the parser of a role file, the editor of manifests and the reader of the sheet let
\* through to the handlers.
WellFormed(f) ==
    /\ f.permissions \subseteq Perm
    /\ DOMAIN f.roles \subseteq Key
    /\ \A k \in DOMAIN f.roles :
        /\ f.roles[k].permissions \subseteq Perm
        /\ f.roles[k].default \in BOOLEAN
    /\ f.assign.only \subseteq User

ASSUME RolesAssumption ==
    /\ \A f \in Files : WellFormed(f)
    /\ \A m \in Manifests :
        /\ m.permissions \subseteq Perm
        /\ DOMAIN m.suggested \subseteq Key
        /\ \A k \in DOMAIN m.suggested : m.suggested[k] \subseteq Perm
    /\ \A c \in Columns : c.present \subseteq User

VARIABLES
    catalog,    \* services.permission_catalog
    roles,      \* service_roles, by key
    grants,     \* grants on this service
    draft,      \* a role file drafted from a manifest, that an administrator looks through
    session,    \* the session of somebody in the service: what its token carries
    unlisted,   \* history: roles the last import left as they were
    imported    \* history: the role file that has just been imported

vars == <<catalog, roles, grants, draft, session, unlisted, imported>>

Role == [default : BOOLEAN, permissions : SUBSET Perm]
RoleTable == UNION {[keys -> Role] : keys \in SUBSET Key}
\* live: expires_at is empty or in the future; temporary: there is an expires_at.
Grant == [user : User, role : Key, temporary : BOOLEAN, live : BOOLEAN]
Permanent(u, k) == [user |-> u, role |-> k, temporary |-> FALSE, live |-> TRUE]
NoSession == [user |-> None]

Init ==
    /\ catalog = {}
    /\ roles = <<>>
    /\ grants = {}
    /\ draft = None
    /\ session = NoSession
    /\ unlisted = {}
    /\ imported = None

GrantsOf(u) == {g \in grants : g.user = u}
Holders(k) == {g.user : g \in {h \in grants : h.role = k}}
Has(u, k) == \E g \in grants : g.user = u /\ g.role = k

\* tokens.py live_grants and token_access.
LiveGrants(u) == {g \in GrantsOf(u) : g.live}
Access(u) == UNION {roles[g.role].permissions : g \in LiveGrants(u)}

\* A committed revocation of these people for this service ends their session.
CutOff(people) == session' = IF session.user \in people THEN NoSession ELSE session

\* people_sheet.py service_columns and onboarding.py lowest_roles: a role marked default.
Lowest == IF \E k \in DOMAIN roles : roles[k].default
          THEN CHOOSE k \in DOMAIN roles : roles[k].default ELSE None

Mint(u) ==
    /\ LiveGrants(u) # {}
    /\ session' = [user |-> u, roles |-> {g.role : g \in LiveGrants(u)}, permissions |-> Access(u)]
    /\ UNCHANGED <<catalog, roles, grants, draft, unlisted>>

\* A token ends with the first of its grants.
Lapse(g) ==
    /\ g.temporary /\ g.live
    /\ grants' = (grants \ {g}) \cup {[g EXCEPT !.live = FALSE]}
    /\ CutOff({g.user})
    /\ UNCHANGED <<catalog, roles, draft, unlisted>>

-----------------------------------------------------------------------------
(* Hand edits                                                              *)

\* _check_permissions.
Declared(permissions) ==
    /\ permissions \subseteq catalog
    /\ catalog # {} => permissions # {}

\* _clear_default.
Cleared(table) == [k \in DOMAIN table |-> [table[k] EXCEPT !.default = FALSE]]

AddRole(k, default, permissions) ==
    /\ k \notin DOMAIN roles
    /\ Declared(permissions)
    /\ roles' = [j \in DOMAIN roles \cup {k} |->
            IF j = k THEN [default |-> default, permissions |-> permissions]
            ELSE IF default THEN Cleared(roles)[j] ELSE roles[j]]
    /\ unlisted' = unlisted \ {k}
    /\ UNCHANGED <<catalog, grants, draft, session>>

\* patch_role with another default ...
PatchDefault(k, default) ==
    /\ k \in DOMAIN roles
    /\ roles' = [(IF default THEN Cleared(roles) ELSE roles) EXCEPT ![k].default = default]
    /\ UNCHANGED <<catalog, grants, draft, session, unlisted>>

\* Mutant of PatchPermissions: the holders keep their sessions.
PatchPermissionsQuietly(k, permissions) ==
    /\ k \in DOMAIN roles
    /\ Declared(permissions)
    /\ roles' = [roles EXCEPT ![k].permissions = permissions]
    /\ CutOff({})
    /\ unlisted' = IF roles[k].default THEN unlisted ELSE unlisted \ {k}
    /\ UNCHANGED <<catalog, grants, draft>>

\* ... and with other permissions; every holder is sent back through MM OS.
PatchPermissions(k, permissions) ==
    /\ k \in DOMAIN roles
    /\ Declared(permissions)
    /\ roles' = [roles EXCEPT ![k].permissions = permissions]
    /\ CutOff(IF permissions = roles[k].permissions THEN {} ELSE Holders(k))
    /\ unlisted' = IF roles[k].default THEN unlisted ELSE unlisted \ {k}
    /\ UNCHANGED <<catalog, grants, draft>>

DeleteRole(k) ==
    /\ k \in DOMAIN roles
    /\ Holders(k) = {}
    /\ roles' = Restrict(roles, DOMAIN roles \ {k})
    /\ unlisted' = unlisted \ {k}
    /\ UNCHANGED <<catalog, grants, draft, session>>

\* create_grant, of an administrator.
CreateGrant(u, k, temporary) ==
    /\ k \in DOMAIN roles
    /\ ~Has(u, k)
    /\ temporary => Cardinality({g \in grants : g.temporary}) < MaxTemporary
    /\ grants' = grants \cup {[Permanent(u, k) EXCEPT !.temporary = temporary]}
    /\ UNCHANGED <<catalog, roles, draft, session, unlisted>>

DeleteGrant(g) ==
    /\ grants' = grants \ {g}
    /\ CutOff({g.user})
    /\ UNCHANGED <<catalog, roles, draft, unlisted>>

\* bulk_grants, for everybody a filter names.
BulkGrants(people, k) ==
    /\ k \in DOMAIN roles
    /\ grants' = grants \cup {Permanent(u, k) : u \in {v \in people : ~Has(v, k)}}
    /\ UNCHANGED <<catalog, roles, draft, session, unlisted>>

\* batch_grants, which adds roles or replaces them.
BatchGrants(u, keys, replace) ==
    LET unwanted == IF replace THEN {g \in GrantsOf(u) : g.role \notin keys} ELSE {}
    IN  /\ keys # {} /\ keys \subseteq DOMAIN roles
        /\ grants' = (grants \ unwanted) \cup {Permanent(u, k) : k \in {j \in keys : ~Has(u, j)}}
        /\ CutOff(IF unwanted = {} THEN {} ELSE {u})
        /\ UNCHANGED <<catalog, roles, draft, unlisted>>

-----------------------------------------------------------------------------
(* The assignment engine                                                   *)

\* A block names people with their roles, has rules in their order and a default role.
\* _rule_matches compares fields of a person; here a rule says whom it matches.
Matching(block, u) == {i \in DOMAIN block.rules : u \in block.rules[i].whom}

FirstRule(block, u) ==
    block.rules[CHOOSE i \in Matching(block, u) : \A j \in Matching(block, u) : i <= j].role

\* role_for: who is named, else the first rule that matches, else the default.
RoleFor(block, u) ==
    IF u \in DOMAIN block.people THEN block.people[u]
    ELSE IF Matching(block, u) # {} THEN FirstRule(block, u) ELSE block.default

\* Mutant of Rederives: a role already held never stands in the way.
RederivesAll(block, u) == TRUE

\* "missing" fills gaps only; a role the people sheet names for a person (people_override)
\* wins all the same.
Rederives(block, u) == block.mode = "all" \/ (block.override /\ u \in DOMAIN block.people)

Held(held, u) == {g \in held : g.user = u}
RolesIn(held, u) == {g.role : g \in Held(held, u)}

\* The people a block gives a role of `table`, and those among them whose grant at hand,
\* pick[u], is given that role.
Assigned(block, table) == {u \in block.only : RoleFor(block, u) \in DOMAIN table}
Moved(block, table, pick) ==
    {u \in Assigned(block, table) \cap DOMAIN pick :
        pick[u].role # RoleFor(block, u) /\ Rederives(block, u)}

\* The engine has one grant of each person at hand, the last row of an unordered query.
Picks(held) == {p \in [{g.user : g \in held} -> held] : \A u \in DOMAIN p : p[u].user = u}

\* What assign_roles may make of the grants `held`, and whom it cuts off.  It leaves
\* expires_at of a grant it moves as it is, and the unique key of grants refuses the whole
\* transaction when one is moved to a role that its holder has already.
Assignments(block, table, held) ==
    {LET moved == Moved(block, table, pick)
     IN  [grants |-> (held \ {pick[u] : u \in moved})
                     \cup {[pick[u] EXCEPT !.role = RoleFor(block, u)] : u \in moved}
                     \cup {Permanent(u, RoleFor(block, u)) : u \in Assigned(block, table) \ DOMAIN pick},
          cut |-> moved]
     : pick \in {p \in Picks(held) :
                    \A u \in Moved(block, table, p) : RoleFor(block, u) \notin RolesIn(held, u)}}

\* parse_workbook and _parse_defaults ignore what is not a role of the service now.
NamedRoles(c) == Restrict(c.cells, {u \in DOMAIN c.cells : c.cells[u] \in DOMAIN roles})
DefaultRules(c) == SelectSeq(c.defaults, LAMBDA rule : rule.role \in DOMAIN roles)

\* The role column of the people sheet: the people of the sheet who are active, the roles its
\* cells name, NoAccess in some, and the departments' defaults; a blank cell gets the role of
\* the department, or the service's default role.  Administrators may untick people.
SheetBlock(c, skip) ==
    [only |-> c.present \ ({u \in DOMAIN c.cells : c.cells[u] = NoAccess} \cup skip),
     people |-> NamedRoles(c), rules |-> DefaultRules(c), default |-> Lowest, mode |-> "missing", override |-> TRUE]

\* _apply_grants: the engine first, then one grant of everybody whose cell says `none`.
SheetColumn(c, skip) ==
    \E a \in Assignments(SheetBlock(c, skip), roles, grants) :
        LET barred == {u \in DOMAIN c.cells \ skip : c.cells[u] = NoAccess /\ Held(a.grants, u) # {}}
        IN  \E gone \in {p \in [barred -> a.grants] : \A u \in barred : p[u].user = u} :
                /\ grants' = a.grants \ Range(gone)
                /\ CutOff(a.cut \cup barred)
                /\ UNCHANGED <<catalog, roles, draft, unlisted>>

\* grant_lowest_roles, for an account nobody has configured.
Onboard(u) ==
    /\ GrantsOf(u) = {} /\ Lowest # None
    /\ grants' = grants \cup {Permanent(u, Lowest)}
    /\ UNCHANGED <<catalog, roles, draft, session, unlisted>>

-----------------------------------------------------------------------------
(* Role files                                                              *)

Replaced(f) == UNION {f.roles[k].replaces : k \in DOMAIN f.roles}

OneDefault(f) == \A j, k \in DOMAIN f.roles : f.roles[j].default /\ f.roles[k].default => j = k
Named(f) == {RoleFor(f.assign, u) : u \in f.assign.only}

\* Mutant of Valid: a role without permissions passes.
ValidOrEmpty(f) ==
    /\ DOMAIN f.roles # {}
    /\ \A k \in DOMAIN f.roles : f.roles[k].permissions \subseteq f.permissions
    /\ OneDefault(f)
    /\ Replaced(f) \cap DOMAIN f.roles = {}
    /\ Named(f) \subseteq DOMAIN f.roles \cup {None}

\* validate.
Valid(f) ==
    /\ DOMAIN f.roles # {}
    /\ \A k \in DOMAIN f.roles :
        /\ f.roles[k].permissions \subseteq f.permissions
        /\ f.permissions # {} => f.roles[k].permissions # {}
    /\ OneDefault(f)
    /\ Replaced(f) \cap DOMAIN f.roles = {}
    /\ Named(f) \subseteq DOMAIN f.roles \cup {None}

\* The grants after "replaces".
Successor(f, k) == CHOOSE n \in DOMAIN f.roles : k \in f.roles[n].replaces
Carried(f, g) == IF g.role \in Replaced(f) THEN [g EXCEPT !.role = Successor(f, g.role)] ELSE g

\* Somebody who holds a role and the one that replaces it makes the import fail.
Collision(f) == \E g, h \in grants : g # h /\ g.user = h.user /\ Carried(f, g).role = Carried(f, h).role

\* remove_unlisted keeps what somebody holds.
Dropped(f, held) ==
    IF f.remove_unlisted
    THEN {k \in DOMAIN roles \ (DOMAIN f.roles \cup Replaced(f)) : \A g \in held : g.role # k}
    ELSE {}

Written(f, k) ==
    IF k \in DOMAIN f.roles
    THEN [default |-> f.roles[k].default, permissions |-> f.roles[k].permissions]
    ELSE roles[k]
Repermitted(f) == {k \in DOMAIN roles \cap DOMAIN f.roles : roles[k].permissions # f.roles[k].permissions}

\* The administrator's request says which mode; apply never asks for people_override.
InMode(block, mode) ==
    [only |-> block.only, people |-> block.people, rules |-> block.rules,
     default |-> block.default, mode |-> mode, override |-> FALSE]

\* What apply may make of a service, in the file's mode or another.
Imports(f, mode) ==
    IF ~Valid(f) \/ Collision(f) THEN {}
    ELSE LET carried == {Carried(f, g) : g \in grants}
             kept == DOMAIN roles \ (Replaced(f) \cup Dropped(f, carried))
             table == [k \in DOMAIN f.roles \cup kept |-> Written(f, k)]
             sentBack == UNION {Holders(k) : k \in Replaced(f) \cup Repermitted(f)}
         IN  {[catalog |-> f.permissions, roles |-> table, grants |-> a.grants, cut |-> a.cut \cup sentBack]
              : a \in Assignments(InMode(f.assign, mode), table, carried)}

Import(f, mode) == \E outcome \in Imports(f, mode) :
    /\ catalog' = outcome.catalog
    /\ roles' = outcome.roles
    /\ grants' = outcome.grants
    /\ CutOff(outcome.cut)
    /\ unlisted' = DOMAIN outcome.roles \ DOMAIN f.roles

ImportFile(f, mode) ==
    /\ Import(f, mode)
    /\ imported' = IF mode = "missing" THEN f ELSE None
    /\ UNCHANGED draft

\* draft_role_file: the suggested roles, and the others with what is left of their permissions.
NoAssign == [only |-> {}, people |-> <<>>, rules |-> <<>>, default |-> None]
Draft(m) ==
    [permissions |-> m.permissions,
     roles |-> [k \in DOMAIN m.suggested \cup DOMAIN roles |->
        [default |-> k \in DOMAIN roles /\ roles[k].default,
         permissions |-> IF k \in DOMAIN m.suggested THEN m.suggested[k]
                         ELSE roles[k].permissions \cap m.permissions,
         replaces |-> {}]],
     remove_unlisted |-> FALSE, assign |-> NoAssign]

\* The administrator gets a draft, looks through it, and imports it later as it is.  (One
\* that is not valid has to be edited first, and is a file like any other.)
MakeDraft(m) ==
    /\ Valid(Draft(m))
    /\ draft' = Draft(m)
    /\ UNCHANGED <<catalog, roles, grants, session, unlisted>>

ImportDraft ==
    /\ draft # None
    /\ Import(draft, "missing")
    /\ draft' = None

HandEdit ==
    \/ \E k \in Key, default \in BOOLEAN : PatchDefault(k, default)
    \/ \E k \in Key, permissions \in SUBSET Perm :
        \/ PatchPermissions(k, permissions)
        \/ \E default \in BOOLEAN : AddRole(k, default, permissions)
    \/ \E k \in Key : DeleteRole(k)

GrantEdit ==
    \/ \E u \in User, k \in Key, temporary \in BOOLEAN : CreateGrant(u, k, temporary)
    \/ \E g \in grants : DeleteGrant(g)
    \/ \E people \in SUBSET User, k \in Key : BulkGrants(people, k)
    \/ \E u \in User, keys \in SUBSET Key, replace \in BOOLEAN : BatchGrants(u, keys, replace)
    \/ \E u \in User : Onboard(u)

Upload ==
    \/ \E m \in Manifests : MakeDraft(m)
    \/ ImportDraft
    \/ \E c \in Columns, skip \in SUBSET User : SheetColumn(c, skip)

Other ==
    \/ HandEdit \/ GrantEdit \/ Upload
    \/ \E u \in User : Mint(u)
    \/ \E g \in grants : Lapse(g)

Next ==
    \/ \E f \in Files, mode \in {"missing", "all"} : ImportFile(f, mode)
    \/ Other /\ imported' = None

Spec == Init /\ [][Next]_vars

-----------------------------------------------------------------------------
(* Properties                                                              *)

\* Everything is what the handlers may make it; a grant's role exists, and nobody has a role
\* twice.
RolesTypeOK ==
    /\ catalog \subseteq Perm
    /\ roles \in RoleTable
    /\ grants \subseteq Grant
    /\ \A g \in grants : g.role \in DOMAIN roles
    /\ \A g, h \in grants : g.user = h.user /\ g.role = h.role => g = h
    /\ unlisted \subseteq DOMAIN roles

\* roles_io.py:70 and platform.py:527, over every way to change what a role may do or who
\* holds it: a session that is still alive claims nothing its owner would not be given now.
SessionsCurrent ==
    session # NoSession =>
        /\ session.roles \subseteq {g.role : g \in LiveGrants(session.user)}
        /\ session.permissions \subseteq Access(session.user)

\* models.py:190 and platform.py:481: every role is declared by the catalog and allowed
\* something, and one role at most is the default, through hand edits, imports, drafts that
\* have become old, and replacements; the roles that the last import has left as they were
\* are the only exception.
DeclaredRoles ==
    /\ \A k \in DOMAIN roles \ unlisted : Declared(roles[k].permissions)
    /\ \A j, k \in DOMAIN roles \ unlisted : roles[j].default /\ roles[k].default => j = k

\* A role file that has been imported is in force: importing it once more is possible and
\* changes nothing, whatever roles, grants and defaults it met the first time.
ImportSettles ==
    imported # None =>
        Imports(imported, "missing") =
            {[catalog |-> catalog, roles |-> roles, grants |-> grants, cut |-> {}]}
================================================================================
