------------------------------ MODULE MCSignIn ------------------------------
(***************************************************************************)
(* Who is let in, by MM OS and by a service, in one run: a behaviour is    *)
(* one of SignIn or one of KeyCache, as its initial state says.  They      *)
(* share nothing, and the other one's variables stay where they are.       *)
(***************************************************************************)
EXTENDS SignIn, KeyCache, TLC

CONSTANTS u1, q1, q2, s1, s2, k1, k2

VARIABLE part

KeysAtRest ==
    /\ moment = 0 /\ boot = 0 /\ cache = Empty(0)
    /\ published = [kid |-> k1, since |-> Never]
    /\ retired = [k \in Kid |-> Never]
    /\ saved = NothingSaved /\ fetch = NoFetch /\ failed = {}
    /\ answer = Silent

MCInit ==
    /\ Init
    /\ \/ part = "keys" /\ KeysInit
       \/ part = "sign_in" /\ KeysAtRest

MCNext ==
    \/ part = "keys" /\ KeysNext /\ UNCHANGED <<part, vars>>
    \/ part = "sign_in" /\ Next /\ UNCHANGED <<part, keyVars>>

MCSpec == MCInit /\ [][MCNext]_<<part, vars, keyVars>>

Interchangeable == Permutations(Request) \cup Permutations(SessionId)
=============================================================================
