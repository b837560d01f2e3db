-------------------------------- MODULE MCPeople --------------------------------
(***************************************************************************)
(* Who somebody is and what they may do in a service, in one run: a        *)
(* behaviour is one of Roles or one of Identity, as its initial state      *)
(* says.  They share nothing, and the other one's variables stay where     *)
(* they are.                                                               *)
(***************************************************************************)
EXTENDS Roles, Identity, TLC

CONSTANTS ann, bob, viewer, editor, read, write, c1, g1

VARIABLE part

MCInit == part \in {"roles", "identity"} /\ Init /\ IdentityInit

MCNext ==
    \/ part = "roles" /\ Next /\ UNCHANGED <<part, identityVars>>
    \/ part = "identity" /\ IdentityNext /\ UNCHANGED <<part, vars>>

MCSpec == MCInit /\ [][MCNext]_<<part, vars, identityVars>>

-----------------------------------------------------------------------------
(* The role files, manifests and columns of the sheet                      *)

Part(default, permissions, replaces) ==
    [default |-> default, permissions |-> permissions, replaces |-> replaces]
File(permissions, table, remove, assign) ==
    [permissions |-> permissions, roles |-> table, remove_unlisted |-> remove, assign |-> assign]
Assign(people, rules, default) ==
    [only |-> User, people |-> people, rules |-> rules, default |-> default]

Viewer == viewer :> Part(TRUE, {read}, {})
Editor == editor :> Part(FALSE, {read, write}, {})

MCFiles == {
    \* both roles, everybody gets the lower one, ann the other
    File({read, write}, Viewer @@ Editor, FALSE, Assign(ann :> editor, <<>>, viewer)),
    \* one role left, without the other's permission; what nobody holds goes
    File({read}, Viewer, TRUE, Assign(<<>>, <<[whom |-> {bob}, role |-> viewer]>>, None)),
    \* one role replaces the other
    File({read, write}, editor :> Part(TRUE, {write}, {viewer}), FALSE, NoAssign),
    \* not valid: nothing allowed
    File({read}, viewer :> Part(FALSE, {}, {}), FALSE, NoAssign)}

MCManifests == {[permissions |-> {write}, suggested |-> editor :> {write}]}

MCColumns == {
    [present |-> User, cells |-> (ann :> editor @@ bob :> NoAccess), defaults |-> <<>>],
    [present |-> {bob}, cells |-> <<>>, defaults |-> <<[whom |-> {bob}, role |-> viewer]>>]}
=================================================================================
