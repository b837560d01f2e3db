------------------------------- MODULE MCDesk --------------------------------
(***************************************************************************)
(* What the Service Desk does around its tickets, in one run: a behaviour  *)
(* is one of Desk, one of Routing or one of Notices, as its initial state  *)
(* says.  They share nothing, and the variables of the other two stay      *)
(* where they are.                                                         *)
(***************************************************************************)
EXTENDS Desk, Routing, Notices, TLC

CONSTANTS q1, q2, p1, p2, p3, c1, n1, n2, r1, r2

VARIABLE part

\* Two rules equally specific, and one that is less so.
MCRules == {
    [pinned |-> {"department"}, matches |-> TRUE, mode |-> "any_of", approvers |-> <<p1, p2>>],
    [pinned |-> {}, matches |-> TRUE, mode |-> "sequence", approvers |-> <<p2>>],
    [pinned |-> {"department"}, matches |-> TRUE, mode |-> "sequence", approvers |-> <<p3>>],
    [pinned |-> {"department", "priority"}, matches |-> FALSE, mode |-> "any_of", approvers |-> <<p1>>]}

RoutesAtRest ==
    /\ rules = <<>> /\ default = Nobody
    /\ manager = [p \in Person |-> Nobody] /\ qualified = {}
    /\ callers = [q \in Caller |-> NotAsking] /\ edits = 0

MCInit ==
    /\ Init /\ MailsInit
    /\ \/ part = "routes" /\ RoutesInit
       \/ part \in {"clocks", "mails"} /\ RoutesAtRest

MCNext ==
    \/ part = "clocks" /\ Next /\ UNCHANGED <<part, routeVars, mailVars>>
    \/ part = "routes" /\ RoutesNext /\ UNCHANGED <<part, vars, mailVars>>
    \/ part = "mails" /\ MailsNext /\ UNCHANGED <<part, vars, routeVars>>

MCSpec == MCInit /\ [][MCNext]_<<part, vars, routeVars, mailVars>>

Interchangeable == Permutations(Request)
==============================================================================
