------------------------------ MODULE Tickets -------------------------------
(***************************************************************************)
(* One ticket of the Service Desk, from its creation to its end: the two   *)
(* state machines (state_machine.py), the routing of approvals             *)
(* (routing.py, org_chart.py), who may see and move it (privacy.py,        *)
(* routers/tickets.py), proposals (routers/proposals.py) and the           *)
(* managers' decisions (routers/decisions.py).                             *)
(*                                                                         *)
(* Every handler is a transaction of its own.  decide() holds the row of   *)
(* the ticket (SELECT ... FOR UPDATE) from its read to its commit; the     *)
(* other handlers read the ticket without a lock and their UPDATE, or the  *)
(* foreign key of what they insert, waits for the row at the commit.       *)
(***************************************************************************)
EXTENDS Naturals, Sequences, FiniteSets

CONSTANTS
    Person, Nobody,
    Agent,          \* holders of ticket.assign, proposal.write, ticket.transition, queue.read
    Oversight,      \* holders of ticket.private_oversight
    Request, Free,  \* handlers at work; nobody holds the row
    MaxApprovers, MaxVersions, MaxVisits    \* bounds of a TLC run

ASSUME DeskNames == /\ Nobody \notin Person
                    /\ Free \notin Request
                    /\ Agent \subseteq Person /\ Oversight \subseteq Person

VARIABLES
    ticket,     \* the row of tickets
    rowLock,    \* who holds it
    version,    \* the latest version in proposals, 0 without any
    requests,   \* what each handler at work has read
    signed,     \* history: whose approval has been recorded since changes were last requested
    visits,     \* history: how often the ticket was put into manager_review
    verdicts,   \* history: how often a decision took it out again
    stale       \* history: a status was written over one its writer had not read

vars == <<ticket, rowLock, version, requests, signed, visits, verdicts, stale>>

(***************************************************************************)
(* The tables.                                                             *)
(***************************************************************************)
SUPPORT_TRANSITIONS ==
    {<<"open", "in_progress">>, <<"open", "rejected">>, <<"in_progress", "waiting_on_requester">>,
     <<"waiting_on_requester", "resolved">>, <<"resolved", "closed">>, <<"closed", "resolved">>}

AUTOMATION_TRANSITIONS ==
    {<<"draft", "submitted">>, <<"submitted", "it_review">>, <<"it_review", "proposal_ready">>,
     <<"it_review", "rejected">>, <<"proposal_ready", "manager_review">>,
     <<"manager_review", "approved">>, <<"manager_review", "changes_requested">>,
     <<"manager_review", "rejected">>, <<"changes_requested", "it_review">>,
     <<"approved", "in_build">>, <<"in_build", "deployed">>, <<"deployed", "closed">>}

Status == {"open", "in_progress", "waiting_on_requester", "resolved", "closed", "rejected",
           "draft", "submitted", "it_review", "proposal_ready", "manager_review",
           "changes_requested", "approved", "in_build", "deployed"}

TRANSITIONS(kind) == IF kind = "support" THEN SUPPORT_TRANSITIONS ELSE AUTOMATION_TRANSITIONS

REQUESTER_OR_AGENT(kind) ==
    IF kind = "support" THEN {<<"resolved", "closed">>, <<"closed", "resolved">>}
                        ELSE {<<"deployed", "closed">>}

\* Mutant of AGENT_ONLY: the generic endpoint may announce a proposal nobody has written.
AnyAgentHop(kind) ==
    {hop \in TRANSITIONS(kind) \ REQUESTER_OR_AGENT(kind) : hop[1] \notin {"draft", "manager_review"}}

\* What the generic endpoint leaves to proposals and decisions is no agent's to do.
AGENT_ONLY(kind) ==
    {hop \in TRANSITIONS(kind) \ REQUESTER_OR_AGENT(kind) :
        hop[1] \notin {"draft", "manager_review"} /\ hop # <<"it_review", "proposal_ready">>}

(***************************************************************************)
(* Rows and requests.                                                      *)
(***************************************************************************)
Modes == {"sequence", "any_of"}
NoTicket == [kind |-> "none", status |-> "none"]
Exists == ticket # NoTicket

Ticket == [kind : {"support", "automation"}, status : Status, requester : Person, private : BOOLEAN,
           assignee : Person \cup {Nobody}, approver : Person \cup {Nobody},
           mode : Modes, approvers : Seq(Person), approved_by : SUBSET Person,
           closed_at : {"never", "recently", "long_ago"}]

Idle == [op |-> "idle"]

Init ==
    /\ ticket = NoTicket
    /\ rowLock = Free
    /\ version = 0
    /\ requests = [q \in Request |-> Idle]
    /\ signed = {}
    /\ visits = 0
    /\ verdicts = 0
    /\ stale = FALSE

\* The approvers of a ticket but its requester.
Eligible(t) == {t.approvers[i] : i \in 1..Len(t.approvers)} \ {t.requester}

\* The first of the approvers who is in S.
IsFirst(p, approvers, S) ==
    \E i \in 1..Len(approvers) : /\ approvers[i] = p /\ p \in S
                                 /\ \A j \in 1..(i - 1) : approvers[j] \notin S

\* privacy.can_see_full
CanSee(t, p) ==
    \/ ~t.private
    \/ p \in Oversight \cup {t.requester, t.assignee, t.approver}
    \/ t.mode = "any_of" /\ p \in Eligible(t)
    \/ t.assignee = Nobody /\ p \in Agent

\* Mutant of MayDecide: without the check that repeats the rule against self-approval.
MayDecideOwn(t, p) ==
    /\ t.status = "manager_review"
    /\ IF t.mode = "any_of" THEN p \in Eligible(t) ELSE t.approver = p
    /\ p \notin t.approved_by

\* decide()'s checks.
MayDecide(t, p) ==
    /\ t.status = "manager_review"
    /\ IF t.mode = "any_of" THEN p \in Eligible(t) ELSE t.approver = p
    /\ p \notin t.approved_by
    /\ p # t.requester

(***************************************************************************)
(* Creation, with the approvers resolve_approver finds.                    *)
(***************************************************************************)
Lists == UNION {[1..n -> Person] : n \in 1..MaxApprovers}

\* A rule that names somebody but the requester; or the first qualified manager above the
\* requester; or the default approver, who may be the requester.
Routing(requester) ==
    {[mode |-> m, approvers |-> l] : m \in Modes,
                                     l \in {k \in Lists : \E i \in DOMAIN k : k[i] # requester}}
    \cup {[mode |-> "sequence", approvers |-> <<p>>] : p \in Person}

Opened(kind, p, private) ==
    [kind |-> kind, status |-> IF kind = "support" THEN "open" ELSE "submitted",
     requester |-> p, private |-> private, assignee |-> Nobody, approver |-> Nobody,
     mode |-> "sequence", approvers |-> <<>>, approved_by |-> {}, closed_at |-> "never"]

CreateSupport(p, private) ==
    /\ ~Exists
    /\ ticket' = Opened("support", p, private)
    /\ UNCHANGED <<rowLock, version, requests, signed, visits, verdicts, stale>>

\* The approver is the first who is not the requester; the default approver may be.  (The
\* code leaves the requester out of the list it stores; here Eligible does.)
CreateAutomation(p, private, routing) ==
    /\ ~Exists
    /\ \E approver \in Person :
         /\ \/ IsFirst(approver, routing.approvers, Person \ {p})
            \/ routing.approvers = <<p>> /\ approver = p
         /\ ticket' = [Opened("automation", p, private) EXCEPT
                         !.approver = approver,
                         !.mode = routing.mode,
                         !.approvers = routing.approvers]
    /\ UNCHANGED <<rowLock, version, requests, signed, visits, verdicts, stale>>

(***************************************************************************)
(* Handlers without a lock.                                                *)
(***************************************************************************)
End(q) == requests' = [requests EXCEPT ![q] = Idle]

Abort(q) ==
    /\ requests[q] # Idle
    /\ End(q)
    /\ rowLock' = IF rowLock = q THEN Free ELSE rowLock
    /\ UNCHANGED <<ticket, version, signed, visits, verdicts, stale>>

\* assign_ticket, which writes one column, when it differs from the one read.
AssignRead(q, p, to) ==
    /\ requests[q] = Idle /\ Exists
    /\ p \in Agent /\ CanSee(ticket, p)
    /\ to # ticket.assignee
    /\ requests' = [requests EXCEPT ![q] = [op |-> "assign", to |-> to]]
    /\ UNCHANGED <<ticket, rowLock, version, signed, visits, verdicts, stale>>

AssignCommit(q) ==
    /\ requests[q].op = "assign"
    /\ rowLock = Free
    /\ ticket' = [ticket EXCEPT !.assignee = requests[q].to]
    /\ End(q)
    /\ UNCHANGED <<rowLock, version, signed, visits, verdicts, stale>>

\* transition_ticket: the ticket as read says whether the hop is allowed, and to whom.
TransitionRead(q, p, to) ==
    LET hop == <<ticket.status, to>> IN
    /\ requests[q] = Idle /\ Exists
    /\ CanSee(ticket, p)
    /\ \/ hop \in AGENT_ONLY(ticket.kind) /\ p \in Agent
       \/ hop \in REQUESTER_OR_AGENT(ticket.kind) /\ p \in Agent \cup {ticket.requester}
    /\ hop = <<"closed", "resolved">> => ticket.closed_at = "recently"
    /\ requests' = [requests EXCEPT ![q] = [op |-> "transition", from |-> ticket.status, to |-> to]]
    /\ UNCHANGED <<ticket, rowLock, version, signed, visits, verdicts, stale>>

\* apply_transition writes the new status, whatever the status is by now.
Moved(t, from, to) ==
    [t EXCEPT !.status = to,
              !.closed_at = IF to = "closed" THEN "recently" ELSE IF from = "closed" THEN "never" ELSE @]

TransitionCommit(q) ==
    LET r == requests[q] IN
    /\ r.op = "transition"
    /\ rowLock = Free
    /\ r.to = "manager_review" => visits < MaxVisits
    /\ ticket' = Moved(ticket, r.from, r.to)
    /\ visits' = IF r.to = "manager_review" THEN visits + 1 ELSE visits
    /\ stale' = (stale \/ ticket.status # r.from)
    /\ End(q)
    /\ UNCHANGED <<rowLock, version, signed, verdicts>>

\* create_proposal reads the ticket, then the latest version, and commits both the new
\* version and the status; (ticket, version) is unique.
ProposalRead(q, p) ==
    /\ requests[q] = Idle /\ Exists
    /\ p \in Agent /\ CanSee(ticket, p)
    /\ ticket.kind = "automation" /\ ticket.status = "it_review"
    /\ requests' = [requests EXCEPT ![q] = [op |-> "proposal"]]
    /\ UNCHANGED <<ticket, rowLock, version, signed, visits, verdicts, stale>>

ProposalNumber(q) ==
    /\ requests[q].op = "proposal"
    /\ version < MaxVersions
    /\ requests' = [requests EXCEPT ![q] = [op |-> "numbered", next |-> version + 1]]
    /\ UNCHANGED <<ticket, rowLock, version, signed, visits, verdicts, stale>>

ProposalCommit(q) ==
    /\ requests[q].op = "numbered"
    /\ rowLock = Free
    /\ requests[q].next > version
    /\ version' = requests[q].next
    /\ ticket' = Moved(ticket, "it_review", "proposal_ready")
    /\ stale' = (stale \/ ticket.status # "it_review")
    /\ End(q)
    /\ UNCHANGED <<rowLock, signed, visits, verdicts>>

(***************************************************************************)
(* decide(), under the lock of the row.                                    *)
(***************************************************************************)
\* Mutant of DecideRead: without FOR UPDATE.
DecideUnlocked(q, p) ==
    /\ requests[q] = Idle /\ Exists
    /\ MayDecide(ticket, p)
    /\ requests' = [requests EXCEPT ![q] = [op |-> "decide", by |-> p, row |-> ticket]]
    /\ UNCHANGED <<ticket, rowLock, version, signed, visits, verdicts, stale>>

DecideRead(q, p) ==
    /\ requests[q] = Idle /\ Exists
    /\ rowLock = Free
    /\ MayDecide(ticket, p)
    /\ rowLock' = q
    /\ requests' = [requests EXCEPT ![q] = [op |-> "decide", by |-> p, row |-> ticket]]
    /\ UNCHANGED <<ticket, version, signed, visits, verdicts, stale>>

\* Who must still approve when the decision of r is an approval.
Remaining(r) == Eligible(r.row) \ (r.row.approved_by \cup {r.by})

\* The row of decisions is inserted and the transaction ends.
Decided(q) ==
    /\ End(q)
    /\ rowLock' = IF rowLock = q THEN Free ELSE rowLock
    /\ UNCHANGED <<version, visits, stale>>

\* An approval in a sequence that is not the last passes the ticket on.
Pass(q) ==
    LET r == requests[q] IN
    /\ r.op = "decide"
    /\ r.row.mode = "sequence" /\ Remaining(r) # {}
    /\ \E next \in Person :
         /\ IsFirst(next, r.row.approvers, Remaining(r))
         /\ ticket' = [ticket EXCEPT !.approver = next, !.approved_by = r.row.approved_by \cup {r.by}]
    /\ signed' = signed \cup {r.by}
    /\ Decided(q)
    /\ UNCHANGED verdicts

\* The last approval, or the only one any_of wants.
Approve(q) ==
    LET r == requests[q] IN
    /\ r.op = "decide"
    /\ r.row.mode = "sequence" => Remaining(r) = {}
    /\ ticket' = [Moved(ticket, "manager_review", "approved") EXCEPT
                    !.approved_by = IF r.row.mode = "sequence" THEN r.row.approved_by \cup {r.by} ELSE @]
    /\ signed' = signed \cup {r.by}
    /\ Decided(q)
    /\ verdicts' = verdicts + 1

\* Mutant of RequestChanges: the next round goes on where this one stopped.
RequestChangesOnly(q) ==
    /\ requests[q].op = "decide"
    /\ ticket' = Moved(ticket, "manager_review", "changes_requested")
    /\ signed' = {}
    /\ Decided(q)
    /\ verdicts' = verdicts + 1

\* Mutant of RequestChanges: the sequence starts again but its approvals are kept.
RequestChangesHalf(q) ==
    LET r == requests[q] IN
    /\ r.op = "decide"
    /\ \E first \in Person :
         /\ IsFirst(first, r.row.approvers, Eligible(r.row))
         /\ ticket' = [Moved(ticket, "manager_review", "changes_requested") EXCEPT !.approver = first]
    /\ signed' = {}
    /\ Decided(q)
    /\ verdicts' = verdicts + 1

\* The approvals so far are forgotten and the sequence starts again.
RequestChanges(q) ==
    LET r == requests[q] IN
    /\ r.op = "decide"
    /\ \E first \in Person :
         /\ IsFirst(first, r.row.approvers, Eligible(r.row))
         /\ ticket' = [Moved(ticket, "manager_review", "changes_requested") EXCEPT
                         !.approved_by = {}, !.approver = first]
    /\ signed' = {}
    /\ Decided(q)
    /\ verdicts' = verdicts + 1

Reject(q) ==
    /\ requests[q].op = "decide"
    /\ ticket' = Moved(ticket, "manager_review", "rejected")
    /\ Decided(q)
    /\ verdicts' = verdicts + 1
    /\ UNCHANGED signed

\* The seven days of REOPEN_WINDOW pass.
WindowEnds ==
    /\ Exists
    /\ ticket.closed_at = "recently"
    /\ ticket' = [ticket EXCEPT !.closed_at = "long_ago"]
    /\ UNCHANGED <<rowLock, version, requests, signed, visits, verdicts, stale>>

Next ==
    \/ \E p \in Person, private \in BOOLEAN :
         \/ CreateSupport(p, private)
         \/ \E routing \in Routing(p) : CreateAutomation(p, private, routing)
    \/ \E q \in Request, p \in Person :
         \/ \E to \in Person : AssignRead(q, p, to)
         \/ \E to \in Status : TransitionRead(q, p, to)
         \/ ProposalRead(q, p) \/ DecideRead(q, p)
    \/ \E q \in Request : \/ AssignCommit(q) \/ TransitionCommit(q)
                          \/ ProposalNumber(q) \/ ProposalCommit(q)
                          \/ Pass(q) \/ Approve(q) \/ RequestChanges(q) \/ Reject(q)
                          \/ Abort(q)
    \/ WindowEnds

Spec == Init /\ [][Next]_vars

-----------------------------------------------------------------------------
(* Properties                                                              *)

TypeOK ==
    /\ ticket \in Ticket \cup {NoTicket}
    /\ rowLock \in Request \cup {Free}
    /\ version \in Nat
    /\ requests \in [Request -> {Idle} \cup [op : {"assign"}, to : Person]
                                     \cup [op : {"transition"}, from : Status, to : Status]
                                     \cup [op : {"proposal"}] \cup [op : {"numbered"}, next : Nat]
                                     \cup [op : {"decide"}, by : Person, row : Ticket]]
    /\ signed \subseteq Person
    /\ visits \in Nat /\ verdicts \in Nat
    /\ stale \in BOOLEAN

\* state_machine.py:1-2, "Both state machines, enforced in code", "An illegal transition is
\* a 409": the status changes along the tables only.  Two handlers that have read the same
\* status both write theirs, and the later one may undo a rejection or an approval.
LegalHops ==
    [][(Exists /\ ticket'.status # ticket.status)
         => <<ticket.status, ticket'.status>> \in TRANSITIONS(ticket.kind)]_vars

\* decisions.py: a sequence ends in approval only when every approver but the requester has
\* approved since changes were last requested, and any_of only when one of them has, also
\* when handlers that read an older status have moved the ticket about in between.
FullApproval ==
    [][(Exists /\ ticket.status # "approved" /\ ticket'.status = "approved")
         => IF ticket.mode = "sequence" THEN Eligible(ticket) \subseteq signed'
                                        ELSE Eligible(ticket) \cap signed' # {}]_vars

\* decisions.py, FOR UPDATE: of two managers who decide at once, one decides.  However
\* often the ticket comes to manager_review, each visit ends with one decision at most.
OneVerdictPerReview == verdicts <= visits /\ (ticket.status = "manager_review" => verdicts < visits)

\* docs/07: "a request with no IT proposal cannot reach a manager", nor anything after.
ReviewedWithProposal ==
    ticket.status \in {"proposal_ready", "manager_review", "changes_requested", "approved",
                       "in_build", "deployed"} => version > 0

\* docs/07: "a requester can never approve their own request", though routing may name the
\* requester as the default approver.
NobodyDecidesOwn == \A q \in Request : requests[q].op = "decide" => requests[q].by # ticket.requester

\* A ticket in review waits for somebody who may decide it, round after round, as long as
\* no handler has overwritten a status it had not read and somebody but the requester was
\* named at all.
ReviewCanEnd ==
    (Exists /\ ticket.status = "manager_review" /\ ~stale /\ Eligible(ticket) # {})
        => \E p \in Person : MayDecide(ticket, p)
=============================================================================
