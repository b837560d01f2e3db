------------------------------- MODULE Routing -------------------------------
(***************************************************************************)
(* Who a request for automation goes to (routing.py, org_chart.py of the   *)
(* Service Desk, org_chain in agent.py of MM OS): the most specific rule   *)
(* that matches, else the nearest qualified manager, else the default      *)
(* approver.  The rules are read first, then MM OS walks the chain, one    *)
(* employee at a time, and the default is read last; administrators edit   *)
(* the rules and the default, and HR the employees, in between.            *)
(*                                                                         *)
(* Requests are of one department, category and priority, so that a rule   *)
(* matches them or does not.                                               *)
(***************************************************************************)
EXTENDS Naturals, Sequences, FiniteSets, Functions

CONSTANTS
    Person, Nobody,
    Caller,
    MaxChain,   \* the 20 of org_chain
    Rule,       \* bound: the rules administrators write
    MaxRules,   \* bound: rules at once
    MaxEdits    \* bound: edits after the first request

Axis == {"department", "category", "priority"}
ARule == [pinned : SUBSET Axis, matches : BOOLEAN, mode : {"sequence", "any_of"}, approvers : Seq(Person)]

ASSUME RoutingAssumption == Nobody \notin Person /\ MaxChain \in Nat \ {0} /\ Rule \subseteq ARule

VARIABLES
    rules,      \* approval_rules, by created_at
    default,    \* the person of approval_default
    manager,    \* employees.manager_id, where the manager has an account
    qualified,  \* employees with is_approver or an approval_level that is one
    callers,    \* what each request has read
    edits

routeVars == <<rules, default, manager, qualified, callers, edits>>

NotAsking == [stage |-> "idle"]
Unrouted == [source |-> "none", approver |-> Nobody, approvers |-> <<>>, mode |-> "sequence"]
Routed(source, p) == [source |-> source, approver |-> p, approvers |-> <<p>>, mode |-> "sequence"]

RoutesInit ==
    /\ rules = <<>>
    /\ default = Nobody
    /\ manager \in [Person -> Person \cup {Nobody}]
    /\ qualified \in SUBSET Person
    /\ callers = [q \in Caller |-> NotAsking]
    /\ edits = 0

(***************************************************************************)
(* The rules.                                                              *)
(***************************************************************************)
\* Mutant of Goes: the newest of the most specific.
GoesNewest(a, b) ==
    \/ Cardinality(rules[a].pinned) > Cardinality(rules[b].pinned)
    \/ Cardinality(rules[a].pinned) = Cardinality(rules[b].pinned) /\ a >= b

\* The sort key: the more specific rule first, then the older one.
Goes(a, b) ==
    \/ Cardinality(rules[a].pinned) > Cardinality(rules[b].pinned)
    \/ Cardinality(rules[a].pinned) = Cardinality(rules[b].pinned) /\ a <= b

Matching == {i \in DOMAIN rules : rules[i].matches}
IsBest(i) == i \in Matching /\ \A j \in Matching : Goes(i, j)

\* The places of a rule's list where there is not the requester.
Others(approvers, p) == {n \in DOMAIN approvers : approvers[n] # p}
First(places) == CHOOSE n \in places : \A m \in places : n <= m

ByRule(i, p) ==
    LET others == Others(rules[i].approvers, p) IN
    [source |-> "rule", approver |-> IF others = {} THEN Nobody ELSE rules[i].approvers[First(others)],
     approvers |-> rules[i].approvers, mode |-> rules[i].mode]

\* The rule decides: for a request when it names somebody else, for a preview always.
Decides(i, kind, p) == IsBest(i) /\ (kind = "preview" \/ Others(rules[i].approvers, p) # {})

(***************************************************************************)
(* A request, or a preview of one.                                         *)
(***************************************************************************)
Start(q, kind, p) ==
    /\ callers[q] = NotAsking
    /\ \/ \E i \in DOMAIN rules :
            /\ Decides(i, kind, p)
            /\ callers' = [callers EXCEPT ![q] =
                 [stage |-> "routed", kind |-> kind, by |-> p, quiet |-> TRUE, to |-> ByRule(i, p)]]
       \/ /\ \A i \in DOMAIN rules : ~Decides(i, kind, p)
          /\ callers' = [callers EXCEPT ![q] =
               [stage |-> "walking", kind |-> kind, by |-> p, quiet |-> TRUE,
                at |-> p, seen |-> <<>>, found |-> Nobody]]
    /\ UNCHANGED <<rules, default, manager, qualified, edits>>

MoreToRead(r) == r.at # Nobody /\ r.at \notin Range(r.seen) /\ Len(r.seen) < MaxChain

\* Mutant of Chosen: the highest of the qualified.
ChosenLast(r) == IF r.at \in qualified /\ r.at # r.by THEN r.at ELSE r.found

\* compute_approver takes the first who qualifies and is not the requester.
Chosen(r) == IF r.found = Nobody /\ r.at \in qualified /\ r.at # r.by THEN r.at ELSE r.found

\* One turn of the loop in org_chain reads one employee.
Walk(q) ==
    LET r == callers[q] IN
    /\ r.stage = "walking" /\ MoreToRead(r)
    /\ callers' = [callers EXCEPT ![q] = [r EXCEPT !.found = Chosen(r),
                                                     !.seen = Append(@, r.at),
                                                     !.at = manager[r.at]]]
    /\ UNCHANGED <<rules, default, manager, qualified, edits>>

\* The chain is answered; without a result the default is read.
Arrive(q) ==
    LET r == callers[q]
        to == IF r.found # Nobody THEN Routed("chain", r.found)
              ELSE IF default # Nobody THEN Routed("default", default) ELSE Unrouted
    IN
    /\ r.stage = "walking" /\ ~MoreToRead(r)
    /\ callers' = [callers EXCEPT ![q] = [stage |-> "routed", kind |-> r.kind, by |-> r.by,
                                            quiet |-> r.quiet, to |-> to]]
    /\ UNCHANGED <<rules, default, manager, qualified, edits>>

\* The ticket is committed, or refused when nobody was found; or MM OS did not answer.
Leave(q) ==
    /\ callers[q] # NotAsking
    /\ callers' = [callers EXCEPT ![q] = NotAsking]
    /\ UNCHANGED <<rules, default, manager, qualified, edits>>

(***************************************************************************)
(* Edits.                                                                  *)
(***************************************************************************)
\* What was read before the edit may no longer be what is there.
Edit ==
    /\ edits < MaxEdits
    /\ edits' = edits + 1
    /\ callers' = [q \in Caller |-> IF callers[q] = NotAsking THEN NotAsking
                                      ELSE [callers[q] EXCEPT !.quiet = FALSE]]

CreateRule(rule) ==
    /\ Len(rules) < MaxRules
    /\ rules' = Append(rules, rule)
    /\ Edit
    /\ UNCHANGED <<default, manager, qualified>>

\* created_at stays, and with it the place among rules as specific.
UpdateRule(i, rule) ==
    /\ rules' = [rules EXCEPT ![i] = rule]
    /\ Edit
    /\ UNCHANGED <<default, manager, qualified>>

DeleteRule(i) ==
    /\ rules' = SubSeq(rules, 1, i - 1) \o SubSeq(rules, i + 1, Len(rules))
    /\ Edit
    /\ UNCHANGED <<default, manager, qualified>>

SetDefault(p) ==
    /\ default' = p
    /\ Edit
    /\ UNCHANGED <<rules, manager, qualified>>

\* HR moves somebody to another manager, or to one without an account; nothing keeps two
\* people from being each other's manager.
SetManager(p, m) ==
    /\ manager' = [manager EXCEPT ![p] = m]
    /\ Edit
    /\ UNCHANGED <<rules, default, qualified>>

SetLevel(p) ==
    /\ qualified' = IF p \in qualified THEN qualified \ {p} ELSE qualified \cup {p}
    /\ Edit
    /\ UNCHANGED <<rules, default, manager>>

RoutesNext ==
    \/ \E q \in Caller : \/ \E kind \in {"create", "preview"}, p \in Person : Start(q, kind, p)
                          \/ Walk(q) \/ Arrive(q) \/ Leave(q)
    \/ \E rule \in Rule : \/ CreateRule(rule)
                          \/ \E i \in DOMAIN rules : UpdateRule(i, rule)
    \/ \E i \in DOMAIN rules : DeleteRule(i)
    \/ \E p \in Person : SetDefault(p) \/ SetLevel(p)
    \/ \E p \in Person, m \in Person \cup {Nobody} : SetManager(p, m)

RoutesSpec == RoutesInit /\ [][RoutesNext]_routeVars

-----------------------------------------------------------------------------
(* Properties                                                              *)

RoutesTypeOK ==
    /\ rules \in Seq(ARule) /\ Len(rules) <= MaxRules
    /\ default \in Person \cup {Nobody}
    /\ manager \in [Person -> Person \cup {Nobody}]
    /\ qualified \subseteq Person
    /\ \A q \in Caller : callers[q].stage \in {"idle", "walking", "routed"}

\* The first n people above p, p first.
Chain(p, n) == {path \in [0 .. n -> Person] :
    path[0] = p /\ \A k \in 1 .. n : path[k] = manager[path[k - 1]]}

\* The nearest qualified person above p, within the chain MM OS sends.
Nearest(p, a) ==
    /\ a \in qualified \ {p}
    /\ \E n \in 1 .. (MaxChain - 1) : \E path \in Chain(p, n) :
         path[n] = a /\ \A k \in 1 .. (n - 1) : path[k] \notin qualified \ {p}

\* The rule that governs: none that matches pins more axes, or as many and is older.
Governs(i) ==
    /\ rules[i].matches
    /\ ~\E j \in DOMAIN rules :
         /\ rules[j].matches
         /\ LET a == Cardinality(rules[i].pinned)  b == Cardinality(rules[j].pinned)
            IN b > a \/ (b = a /\ j < i)

\* The rules that govern and name somebody but p.
Naming(p) == {i \in DOMAIN rules : Governs(i) /\ Others(rules[i].approvers, p) # {}}

\* What a request of p comes to.
Right(to, p) ==
    \/ /\ to.source = "rule"
       /\ \E i \in Naming(p) : /\ to.approvers = rules[i].approvers /\ to.mode = rules[i].mode
                              /\ to.approver \in Range(to.approvers) \ {p}
    \/ to.source = "chain" /\ Naming(p) = {} /\ Nearest(p, to.approver)
    \/ /\ to.source \in {"default", "none"} /\ Naming(p) = {}
       /\ \A a \in Person : ~Nearest(p, a)
       /\ to.approver = default /\ (to.source = "none" <=> default = Nobody)

\* routing.py:4-7, "an explicit rule (most specific first) overrides the manager-chain walk;
\* where none matches, fall back to the chain; where the chain also fails, fall back to the
\* single configured ApprovalDefault", and the preview says so beforehand: what is read in
\* three places, one of them another server's walk over people who may be each other's
\* managers, is that, unless somebody edited meanwhile.  (The preview of a rule that names
\* the requester alone does not say that it will be passed over.)
RoutedRight ==
    \A q \in Caller :
        LET r == callers[q] IN
        /\ r.stage = "routed" /\ r.quiet
        /\ r.kind = "create" \/ r.to.approver # Nobody \/ r.to.source # "rule"
        => Right(r.to, r.by)
==============================================================================
