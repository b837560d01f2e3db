------------------------------- MODULE MCAccess -------------------------------
(***************************************************************************)
(* How access is given and taken away: a behaviour is one of Revocation or *)
(* one of Delegation, as its initial state says, and a configuration may   *)
(* ask for one of them only.  The other one's variables stay where they    *)
(* are.                                                                    *)
(***************************************************************************)
EXTENDS Revocation, Delegation, TLC

CONSTANT Parts      \* which of the two the run looks at

VARIABLE part

MCInit == part \in Parts \cap {"handoffs", "ceiling"} /\ Init /\ CeilingInit

MCNext ==
    \/ part = "handoffs" /\ Next /\ UNCHANGED <<part, ceilingVars>>
    \/ part = "ceiling" /\ CeilingNext /\ UNCHANGED <<part, vars>>

MCSpec == MCInit /\ [][MCNext]_<<part, vars, ceilingVars>>

Interchangeable == Permutations(Person) \cup Permutations(Key) \cup Permutations(Department)
=============================================================================
