---------------------------- MODULE MCAdminGuard ----------------------------
(***************************************************************************)
(* What administrators decide, in one run: a behaviour is one of           *)
(* AdminGuard or one of LlmControl, as its initial state says.  They share *)
(* nothing, and the other one's variables stay where they are.             *)
(***************************************************************************)
EXTENDS AdminGuard, LlmControl, TLC

CONSTANTS u1, u2, u3, q1, q2, f1, narrow

VARIABLE part

\* AdminGuard starts anywhere; while LlmControl runs it is in one state.
MCInit ==
    /\ LlmInit
    /\ Init
    /\ \/ part = "guard"
       \/ part = "llm" /\ \A u \in User : account[u] = [admin |-> TRUE, active |-> TRUE, employed |-> TRUE]

MCNext ==
    \/ part = "guard" /\ Next /\ UNCHANGED <<part, llmVars>>
    \/ part = "llm" /\ LlmNext /\ UNCHANGED <<part, vars>>

MCSpec == MCInit /\ [][MCNext]_<<part, vars, llmVars>>

Interchangeable == Permutations(User) \cup Permutations(Request)
=============================================================================
