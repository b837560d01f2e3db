--------------------------- MODULE TicketsProofs ----------------------------
(***************************************************************************)
(* Tickets for any people, any list of approvers and any number of         *)
(* handlers at work: what decide() and create_proposal() promise holds,    *)
(* although transition_ticket() overwrites statuses it has not read.       *)
(***************************************************************************)
EXTENDS Tickets, TLAPS

Proposed == {"proposal_ready", "manager_review", "changes_requested", "approved", "in_build", "deployed"}
Undecided == {"submitted", "it_review", "proposal_ready", "manager_review", "changes_requested"}

\* Along the hops of the generic endpoint nothing is proposed, approved or undecided that
\* was not before.
LEMMA GenericHops ==
    ASSUME NEW kind, NEW from, NEW to, <<from, to>> \in AGENT_ONLY(kind) \cup REQUESTER_OR_AGENT(kind)
    PROVE  /\ to \in Proposed => from \in Proposed
           /\ to # "approved"
           /\ to \in Status
           /\ to \in Undecided => from \in Undecided
<1>1. CASE kind = "support"
  BY <1>1 DEF AGENT_ONLY, REQUESTER_OR_AGENT, TRANSITIONS, SUPPORT_TRANSITIONS, Proposed, Undecided, Status
<1>2. CASE kind # "support"
  BY <1>2 DEF AGENT_ONLY, REQUESTER_OR_AGENT, TRANSITIONS, AUTOMATION_TRANSITIONS, Proposed, Undecided, Status
<1>. QED
  BY <1>1, <1>2

-----------------------------------------------------------------------------
(* Types                                                                   *)

LEMMA OpenedType ==
    ASSUME NEW kind \in {"support", "automation"}, NEW p \in Person, NEW private \in BOOLEAN
    PROVE  Opened(kind, p, private) \in Ticket
<1>. DEFINE status == IF kind = "support" THEN "open" ELSE "submitted"
<1>1. <<>> \in Seq(Person) /\ {} \in SUBSET Person /\ status \in Status
  BY DEF Status
<1>2. Opened(kind, p, private) =
        [kind |-> kind, status |-> status, requester |-> p, private |-> private,
         assignee |-> Nobody, approver |-> Nobody, mode |-> "sequence", approvers |-> <<>>,
         approved_by |-> {}, closed_at |-> "never"]
  BY Zenon DEF Opened
<1>. HIDE DEF status
<1>. QED
  BY <1>1, <1>2 DEF Ticket, Modes

LEMMA RoutingType ==
    ASSUME NEW p \in Person, NEW routing \in Routing(p)
    PROVE  routing.mode \in Modes /\ routing.approvers \in Seq(Person)
<1>1. \A l \in Lists : l \in Seq(Person)
  <2>1. \A n \in 1..MaxApprovers : \A l \in [1..n -> Person] : l \in Seq(Person)
    OBVIOUS
  <2>. QED
    BY <2>1 DEF Lists
<1>2. \A a \in Person : <<a>> \in Seq(Person)
  OBVIOUS
<1>3. CASE \E m \in Modes, l \in Lists : routing = [mode |-> m, approvers |-> l]
  BY <1>1, <1>3
<1>4. CASE \E a \in Person : routing = [mode |-> "sequence", approvers |-> <<a>>]
  BY <1>2, <1>4 DEF Modes
<1>. QED
  BY <1>3, <1>4 DEF Routing

LEMMA MovedType ==
    ASSUME NEW t \in Ticket, NEW from \in Status, NEW to \in Status
    PROVE  Moved(t, from, to) \in Ticket
  BY DEF Moved, Ticket

\* Handlers are at work on a ticket that exists.
AtWork == Exists \/ \A q \in Request : requests[q] = Idle

RequestType == {Idle} \cup [op : {"assign"}, to : Person]
                 \cup [op : {"transition"}, from : Status, to : Status]
                 \cup [op : {"proposal"}] \cup [op : {"numbered"}, next : Nat]
                 \cup [op : {"decide"}, by : Person, row : Ticket]

LEMMA TypeStep == ASSUME TypeOK, AtWork, [Next]_vars PROVE TypeOK' /\ AtWork'
<1>. USE DEF TypeOK
<1>a. requests \in [Request -> RequestType] /\ Idle \in RequestType
  BY DEF RequestType
<1>b. ASSUME Exists PROVE ticket \in Ticket
  BY <1>b DEF Exists
<1>c. \A t \in Ticket : t # NoTicket
  BY DEF Ticket, NoTicket
\* A read.
<1>1. ASSUME NEW q \in Request, NEW r \in RequestType, Exists,
             requests' = [requests EXCEPT ![q] = r],
             UNCHANGED <<ticket, version, signed, visits, verdicts, stale>>,
             rowLock' \in Request \cup {Free}
      PROVE  TypeOK' /\ AtWork'
  <2>1. requests' \in [Request -> RequestType]
    BY <1>1, <1>a
  <2>. QED
    BY <1>1, <2>1 DEF RequestType, AtWork, Exists
\* A commit.
<1>2. ASSUME NEW q \in Request, End(q), ticket' \in Ticket, rowLock' \in Request \cup {Free},
             version' \in Nat, signed' \subseteq Person, visits' \in Nat, verdicts' \in Nat,
             stale' \in BOOLEAN
      PROVE  TypeOK' /\ AtWork'
  <2>1. requests' \in [Request -> RequestType]
    BY <1>2, <1>a DEF End
  <2>2. Exists'
    BY <1>2, <1>c DEF Exists
  <2>. QED
    BY <1>2, <2>1, <2>2 DEF RequestType, AtWork
<1>3. ASSUME NEW p \in Person, NEW private \in BOOLEAN, CreateSupport(p, private) PROVE TypeOK' /\ AtWork'
  <2>1. ticket' \in Ticket
    BY <1>3, OpenedType DEF CreateSupport
  <2>. QED
    BY <1>3, <1>c, <2>1 DEF CreateSupport, AtWork, Exists
<1>4. ASSUME NEW p \in Person, NEW private \in BOOLEAN, NEW routing \in Routing(p),
             CreateAutomation(p, private, routing)
      PROVE  TypeOK' /\ AtWork'
  <2>1. PICK approver \in Person :
          ticket' = [Opened("automation", p, private) EXCEPT
                       !.approver = approver, !.mode = routing.mode, !.approvers = routing.approvers]
    BY <1>4 DEF CreateAutomation
  <2>2. Opened("automation", p, private) \in Ticket
    BY OpenedType
  <2>3. routing.mode \in Modes /\ routing.approvers \in Seq(Person)
    BY RoutingType
  <2>4. ticket' \in Ticket
    BY <2>1, <2>2, <2>3 DEF Ticket
  <2>. QED
    BY <1>4, <1>c, <2>4 DEF CreateAutomation, AtWork, Exists
<1>5. ASSUME NEW q \in Request, NEW p \in Person, NEW to \in Person, AssignRead(q, p, to) PROVE TypeOK' /\ AtWork'
  <2>1. [op |-> "assign", to |-> to] \in RequestType
    BY DEF RequestType
  <2>. QED
    BY <1>5, <1>1, <2>1 DEF AssignRead
<1>6. ASSUME NEW q \in Request, NEW p \in Person, NEW to \in Status, TransitionRead(q, p, to)
      PROVE  TypeOK' /\ AtWork'
  <2>1. ticket.status \in Status
    BY <1>6, <1>b DEF TransitionRead, Ticket
  <2>2. [op |-> "transition", from |-> ticket.status, to |-> to] \in RequestType
    BY <2>1 DEF RequestType
  <2>. QED
    BY <1>6, <1>1, <2>2 DEF TransitionRead
<1>7. ASSUME NEW q \in Request, NEW p \in Person, ProposalRead(q, p) PROVE TypeOK' /\ AtWork'
  <2>1. [op |-> "proposal"] \in RequestType
    BY DEF RequestType
  <2>. QED
    BY <1>7, <1>1, <2>1 DEF ProposalRead
<1>8. ASSUME NEW q \in Request, NEW p \in Person, DecideRead(q, p) PROVE TypeOK' /\ AtWork'
  <2>1. [op |-> "decide", by |-> p, row |-> ticket] \in RequestType
    BY <1>8, <1>b DEF DecideRead, RequestType
  <2>. QED
    BY <1>8, <1>1, <2>1 DEF DecideRead
\* From here on a handler is at work, so the ticket exists.
<1>d. ASSUME NEW q \in Request, requests[q] # Idle PROVE ticket \in Ticket /\ Exists
  BY <1>d, <1>b DEF AtWork
<1>e. /\ "assign" # "idle" /\ "transition" # "idle" /\ "proposal" # "idle"
      /\ "numbered" # "idle" /\ "decide" # "idle"
  OBVIOUS
<1>9. ASSUME NEW q \in Request, AssignCommit(q) PROVE TypeOK' /\ AtWork'
  <2>1. requests[q] # Idle /\ requests[q].to \in Person
    BY <1>9, <1>a DEF AssignCommit, Idle, RequestType
  <2>2. ticket' \in Ticket
    BY <1>9, <1>d, <2>1 DEF AssignCommit, Ticket
  <2>. QED
    BY <1>9, <1>2, <2>2 DEF AssignCommit
<1>10. ASSUME NEW q \in Request, TransitionCommit(q) PROVE TypeOK' /\ AtWork'
  <2>1. requests[q] # Idle /\ requests[q].from \in Status /\ requests[q].to \in Status
    BY <1>10, <1>a DEF TransitionCommit, Idle, RequestType
  <2>2. ticket' \in Ticket
    BY <1>10, <1>d, <2>1, MovedType DEF TransitionCommit
  <2>3. visits' \in Nat /\ stale' \in BOOLEAN
    BY <1>10 DEF TransitionCommit
  <2>. QED
    BY <1>10, <1>2, <2>2, <2>3 DEF TransitionCommit
<1>11. ASSUME NEW q \in Request, ProposalNumber(q) PROVE TypeOK' /\ AtWork'
  <2>1. requests[q] # Idle
    BY <1>11 DEF ProposalNumber, Idle
  <2>2. [op |-> "numbered", next |-> version + 1] \in RequestType
    BY DEF RequestType
  <2>. QED
    BY <1>11, <1>1, <1>d, <2>1, <2>2 DEF ProposalNumber
<1>12. ASSUME NEW q \in Request, ProposalCommit(q) PROVE TypeOK' /\ AtWork'
  <2>1. requests[q] # Idle /\ requests[q].next \in Nat
    BY <1>12, <1>a DEF ProposalCommit, Idle, RequestType
  <2>2. ticket' \in Ticket
    BY <1>12, <1>d, <2>1, MovedType DEF ProposalCommit, Status
  <2>. QED
    BY <1>12, <1>2, <2>1, <2>2 DEF ProposalCommit
<1>f. ASSUME NEW q \in Request, requests[q].op = "decide"
      PROVE  /\ requests[q].by \in Person /\ requests[q].row \in Ticket
             /\ ticket \in Ticket
             /\ \A to \in Status : Moved(ticket, "manager_review", to) \in Ticket
             /\ requests[q].row.approved_by \cup {requests[q].by} \in SUBSET Person
  <2>1. requests[q] # Idle /\ requests[q].by \in Person /\ requests[q].row \in Ticket
    BY <1>f, <1>a DEF Idle, RequestType
  <2>2. ticket \in Ticket
    BY <1>d, <2>1
  <2>3. \A to \in Status : Moved(ticket, "manager_review", to) \in Ticket
    BY <2>2, MovedType DEF Status
  <2>. QED
    BY <2>1, <2>2, <2>3 DEF Ticket
<1>g. ASSUME NEW q \in Request, Decided(q), ticket' \in Ticket, signed' \subseteq Person, verdicts' \in Nat
      PROVE  TypeOK' /\ AtWork'
  BY <1>g, <1>2 DEF Decided
<1>13. ASSUME NEW q \in Request, Pass(q) PROVE TypeOK' /\ AtWork'
  <2>1. requests[q].op = "decide"
    BY <1>13 DEF Pass
  <2>2. PICK next \in Person :
          ticket' = [ticket EXCEPT !.approver = next,
                       !.approved_by = requests[q].row.approved_by \cup {requests[q].by}]
    BY <1>13 DEF Pass
  <2>3. ticket' \in Ticket
    BY <1>f, <2>1, <2>2 DEF Ticket
  <2>. QED
    BY <1>13, <1>f, <1>g, <2>3 DEF Pass
<1>14. ASSUME NEW q \in Request, Approve(q) PROVE TypeOK' /\ AtWork'
  <2>1. Moved(ticket, "manager_review", "approved") \in Ticket
    BY <1>14, <1>f DEF Approve, Status
  <2>2. ticket' \in Ticket
    BY <1>14, <1>f, <2>1 DEF Approve, Ticket
  <2>. QED
    <3>1. signed' \subseteq Person /\ verdicts' \in Nat
      BY <1>14, <1>f DEF Approve
    <3>. QED
      BY <1>14, <1>g, <2>2, <3>1 DEF Approve
<1>15. ASSUME NEW q \in Request, RequestChanges(q) PROVE TypeOK' /\ AtWork'
  <2>1. Moved(ticket, "manager_review", "changes_requested") \in Ticket
    BY <1>15, <1>f DEF RequestChanges, Status
  <2>2. ticket' \in Ticket
    BY <1>15, <2>1 DEF RequestChanges, Ticket
  <2>. QED
    BY <1>15, <1>g, <2>2 DEF RequestChanges
<1>16. ASSUME NEW q \in Request, Reject(q) PROVE TypeOK' /\ AtWork'
  <2>1. Moved(ticket, "manager_review", "rejected") \in Ticket
    BY <1>16, <1>f DEF Reject, Status
  <2>. QED
    BY <1>16, <1>g, <2>1 DEF Reject
<1>17. ASSUME NEW q \in Request, Abort(q) PROVE TypeOK' /\ AtWork'
  BY <1>17, <1>1, <1>a, <1>d DEF Abort, End
<1>18. CASE WindowEnds
  <2>1. ticket' \in Ticket
    BY <1>18, <1>b DEF WindowEnds, Ticket
  <2>. QED
    BY <1>18, <1>c, <2>1 DEF WindowEnds, AtWork, Exists
<1>19. CASE UNCHANGED vars
  BY <1>19 DEF vars, AtWork, Exists
<1>. QED
  BY <1>3, <1>4, <1>5, <1>6, <1>7, <1>8, <1>9, <1>10, <1>11, <1>12, <1>13, <1>14, <1>15, <1>16,
     <1>17, <1>18, <1>19 DEF Next

-----------------------------------------------------------------------------
(* The inductive invariant                                                 *)

\* What a transition has read allows what it is about to write.
TransitionInv ==
    \A q \in Request : requests[q].op = "transition" =>
        /\ requests[q].to \in Proposed => version > 0
        /\ requests[q].to # "approved"
        /\ requests[q].to \in Undecided => requests[q].from \in Undecided

SameReview(t, u) ==
    /\ t.status = u.status /\ t.requester = u.requester /\ t.mode = u.mode
    /\ t.approvers = u.approvers /\ t.approver = u.approver /\ t.approved_by = u.approved_by

\* Who decides holds the row, and the ticket is as it was read.
LockInv ==
    \A q \in Request : requests[q].op = "decide" =>
        /\ rowLock = q
        /\ SameReview(requests[q].row, ticket)
        /\ MayDecide(requests[q].row, requests[q].by)

\* What the ticket counts as approved has been signed.
SignedInv == Exists => IF ticket.mode = "sequence" THEN ticket.approved_by \subseteq signed
                                                   ELSE ticket.approved_by = {}

\* In a sequence it is the turn of an approver who has not approved yet.
TurnInv ==
    (Exists /\ ~stale /\ ticket.status \in Undecided /\ Eligible(ticket) # {} /\ ticket.mode = "sequence")
        => ticket.approver \in Eligible(ticket) \ ticket.approved_by

Typed == TypeOK /\ AtWork
IInv == /\ Typed /\ TransitionInv /\ LockInv /\ SignedInv /\ TurnInv
        /\ OneVerdictPerReview /\ ReviewedWithProposal

\* The invariant says nothing of a handler that neither moves nor decides the ticket.
LEMMA QuietStep ==
    ASSUME IInv, Typed', NEW q \in Request, NEW r,
           requests' = [requests EXCEPT ![q] = r],
           UNCHANGED <<ticket, rowLock, version, signed, visits, verdicts, stale>>,
           r.op \notin {"transition", "decide"}
    PROVE  IInv'
<1>1. \A p \in Request : requests'[p].op \in {"transition", "decide"} => requests'[p] = requests[p]
  BY DEF IInv, Typed, TypeOK
<1>2. TransitionInv'
  BY <1>1 DEF IInv, TransitionInv
<1>3. LockInv'
  BY <1>1 DEF IInv, LockInv
<1>4. SignedInv' /\ TurnInv' /\ OneVerdictPerReview' /\ ReviewedWithProposal'
  BY DEF IInv, SignedInv, TurnInv, OneVerdictPerReview, ReviewedWithProposal, Exists
<1>. QED
  BY <1>2, <1>3, <1>4 DEF IInv

\* Every handler has its place in requests once it is at work.
LEMMA AtWorkExists ==
    ASSUME Typed, NEW q \in Request, requests[q].op # "idle"
    PROVE  Exists /\ ticket \in Ticket
<1>1. Exists
  BY DEF Typed, AtWork, Idle
<1>. QED
  BY <1>1 DEF Typed, TypeOK, Exists

LEMMA CreateStep ==
    ASSUME IInv, Typed', NEW p \in Person, NEW private \in BOOLEAN,
           \/ CreateSupport(p, private)
           \/ \E routing \in Routing(p) : CreateAutomation(p, private, routing)
    PROVE  IInv'
<1>1. /\ ~Exists
      /\ UNCHANGED <<rowLock, version, requests, signed, visits, verdicts, stale>>
  BY DEF CreateSupport, CreateAutomation
<1>2. \A q \in Request : requests[q] = Idle
  BY <1>1 DEF IInv, Typed, AtWork
<1>3. TransitionInv' /\ LockInv'
  BY <1>1, <1>2 DEF TransitionInv, LockInv, Idle
<1>4. /\ ticket'.status \in {"open", "submitted"} /\ ticket'.approved_by = {}
      /\ ticket'.mode = "sequence" => TurnInv'
  <2>1. CASE CreateSupport(p, private)
    BY <2>1 DEF CreateSupport, Opened, TurnInv, Undecided
  <2>2. ASSUME NEW routing \in Routing(p), CreateAutomation(p, private, routing)
        PROVE  /\ ticket'.status \in {"open", "submitted"} /\ ticket'.approved_by = {}
               /\ TurnInv'
    <3>1. PICK approver \in Person :
            /\ \/ IsFirst(approver, routing.approvers, Person \ {p})
               \/ routing.approvers = <<p>> /\ approver = p
            /\ ticket' = [Opened("automation", p, private) EXCEPT
                            !.approver = approver, !.mode = routing.mode, !.approvers = routing.approvers]
      BY <2>2 DEF CreateAutomation
    <3>2. /\ ticket'.status = "submitted" /\ ticket'.approved_by = {} /\ ticket'.requester = p
          /\ ticket'.approver = approver /\ ticket'.approvers = routing.approvers
      BY <3>1 DEF Opened
    <3>3. CASE IsFirst(approver, routing.approvers, Person \ {p})
      <4>1. approver \in Eligible(ticket')
        BY <3>2, <3>3 DEF IsFirst, Eligible
      <4>. QED
        BY <3>2, <4>1 DEF TurnInv
    <3>4. CASE routing.approvers = <<p>>
      <4>1. Eligible(ticket') = {}
        BY <3>2, <3>4 DEF Eligible
      <4>. QED
        BY <3>2, <4>1 DEF TurnInv
    <3>. QED
      BY <3>1, <3>2, <3>3, <3>4
  <2>. QED
    BY <2>1, <2>2
<1>5. SignedInv'
  BY <1>4 DEF SignedInv
<1>6. ticket.status = "none"
  BY <1>1 DEF Exists, NoTicket
<1>7. OneVerdictPerReview' /\ ReviewedWithProposal'
  BY <1>1, <1>4 DEF IInv, OneVerdictPerReview, ReviewedWithProposal
<1>8. TurnInv'
  BY <1>4 DEF TurnInv
<1>. QED
  BY <1>3, <1>5, <1>7, <1>8 DEF IInv

LEMMA TransitionReadStep ==
    ASSUME IInv, Typed', NEW q \in Request, NEW p \in Person, NEW to \in Status, TransitionRead(q, p, to)
    PROVE  IInv'
<1>. DEFINE r == [op |-> "transition", from |-> ticket.status, to |-> to]
<1>1. /\ requests' = [requests EXCEPT ![q] = r]
      /\ UNCHANGED <<ticket, rowLock, version, signed, visits, verdicts, stale>>
      /\ Exists
      /\ <<ticket.status, to>> \in AGENT_ONLY(ticket.kind) \cup REQUESTER_OR_AGENT(ticket.kind)
  BY DEF TransitionRead
<1>2. /\ r.to \in Proposed => version > 0
      /\ r.to # "approved"
      /\ r.to \in Undecided => r.from \in Undecided
  BY <1>1, GenericHops DEF IInv, ReviewedWithProposal, Proposed
<1>3. /\ requests'[q] = r /\ r.op = "transition"
      /\ \A o \in Request : o # q => requests'[o] = requests[o]
  BY <1>1 DEF IInv, Typed, TypeOK
<1>. HIDE DEF r
<1>4. TransitionInv'
  BY <1>1, <1>2, <1>3 DEF IInv, TransitionInv
<1>5. LockInv'
  BY <1>1, <1>3 DEF IInv, LockInv
<1>6. SignedInv' /\ TurnInv' /\ OneVerdictPerReview' /\ ReviewedWithProposal'
  BY <1>1 DEF IInv, SignedInv, TurnInv, OneVerdictPerReview, ReviewedWithProposal, Exists
<1>. QED
  BY <1>4, <1>5, <1>6 DEF IInv

LEMMA DecideReadStep ==
    ASSUME IInv, Typed', NEW q \in Request, NEW p \in Person, DecideRead(q, p)
    PROVE  IInv'
<1>. DEFINE r == [op |-> "decide", by |-> p, row |-> ticket]
<1>1. /\ requests' = [requests EXCEPT ![q] = r]
      /\ UNCHANGED <<ticket, version, signed, visits, verdicts, stale>>
      /\ rowLock = Free /\ rowLock' = q
      /\ MayDecide(ticket, p)
  BY DEF DecideRead
<1>2. /\ r.op = "decide" /\ r.by = p /\ r.row = ticket
      /\ requests'[q] = r
      /\ \A o \in Request : o # q => requests'[o] = requests[o]
  BY <1>1 DEF IInv, Typed, TypeOK
<1>. HIDE DEF r
<1>3. \A o \in Request : requests[o].op # "decide"
  BY <1>1, DeskNames DEF IInv, LockInv
<1>4. LockInv'
  BY <1>1, <1>2, <1>3 DEF LockInv, SameReview
<1>5. TransitionInv'
  BY <1>1, <1>2 DEF IInv, TransitionInv
<1>6. SignedInv' /\ TurnInv' /\ OneVerdictPerReview' /\ ReviewedWithProposal'
  BY <1>1 DEF IInv, SignedInv, TurnInv, OneVerdictPerReview, ReviewedWithProposal, Exists
<1>. QED
  BY <1>4, <1>5, <1>6 DEF IInv

\* A handler that had no lock commits: nobody is deciding then.
LEMMA UnlockedCommit ==
    ASSUME IInv, NEW q \in Request, End(q), rowLock = Free, version' \in Nat, version \in Nat, version' >= version
    PROVE  /\ LockInv'
           /\ TransitionInv'
<1>1. /\ requests'[q] = Idle
      /\ \A o \in Request : o # q => requests'[o] = requests[o]
  BY DEF End, IInv, Typed, TypeOK
<1>2. \A o \in Request : requests[o].op # "decide"
  BY DeskNames DEF IInv, LockInv
<1>3. LockInv'
  BY <1>1, <1>2 DEF LockInv, Idle
<1>4. TransitionInv'
  BY <1>1 DEF IInv, TransitionInv, Idle
<1>. QED
  BY <1>3, <1>4

LEMMA AssignCommitStep ==
    ASSUME IInv, Typed', NEW q \in Request, AssignCommit(q)
    PROVE  IInv'
<1>1. Exists /\ ticket \in Ticket
  BY AtWorkExists DEF AssignCommit, IInv
<1>2. /\ End(q) /\ rowLock = Free
      /\ ticket' = [ticket EXCEPT !.assignee = requests[q].to]
      /\ UNCHANGED <<rowLock, version, signed, visits, verdicts, stale>>
  BY DEF AssignCommit
<1>3. /\ SameReview(ticket', ticket)
      /\ Eligible(ticket') = Eligible(ticket)
  BY <1>1, <1>2 DEF SameReview, Eligible, Ticket
<1>4. TransitionInv' /\ LockInv'
  BY <1>2, UnlockedCommit DEF IInv, Typed, TypeOK
<1>5. SignedInv' /\ TurnInv' /\ OneVerdictPerReview' /\ ReviewedWithProposal'
  BY <1>1, <1>2, <1>3
  DEF IInv, SameReview, SignedInv, TurnInv, OneVerdictPerReview, ReviewedWithProposal
<1>. QED
  BY <1>4, <1>5 DEF IInv

\* Moving the ticket leaves its review alone but for the status.
LEMMA MovedFields ==
    \A t \in Ticket : \A from, to :
        LET m == Moved(t, from, to) IN
        /\ m.status = to
        /\ m.mode = t.mode /\ m.approver = t.approver /\ m.approved_by = t.approved_by
        /\ Eligible(m) = Eligible(t)
<1>. SUFFICES ASSUME NEW t \in Ticket, NEW from, NEW to
              PROVE  LET m == Moved(t, from, to) IN
                     /\ m.status = to
                     /\ m.mode = t.mode /\ m.approver = t.approver /\ m.approved_by = t.approved_by
                     /\ Eligible(m) = Eligible(t)
  OBVIOUS
<1>1. /\ Moved(t, from, to).requester = t.requester
      /\ Moved(t, from, to).approvers = t.approvers
      /\ Moved(t, from, to).status = to
      /\ Moved(t, from, to).mode = t.mode /\ Moved(t, from, to).approver = t.approver
      /\ Moved(t, from, to).approved_by = t.approved_by
  BY DEF Moved, Ticket
<1>2. Eligible(Moved(t, from, to)) = Eligible(t)
  BY <1>1 DEF Eligible
<1>. QED
  BY <1>1, <1>2

LEMMA TransitionCommitStep ==
    ASSUME IInv, Typed', NEW q \in Request, TransitionCommit(q)
    PROVE  IInv'
<1>. DEFINE r == requests[q]
<1>1. Exists /\ ticket \in Ticket
  BY AtWorkExists DEF TransitionCommit, IInv
<1>2. /\ r.op = "transition" /\ End(q) /\ rowLock = Free
      /\ ticket' = Moved(ticket, r.from, r.to)
      /\ visits' = IF r.to = "manager_review" THEN visits + 1 ELSE visits
      /\ stale' = (stale \/ ticket.status # r.from)
      /\ UNCHANGED <<rowLock, version, signed, verdicts>>
  BY DEF TransitionCommit
<1>3. /\ r.to \in Proposed => version > 0
      /\ r.to \in Undecided => r.from \in Undecided
  BY <1>2 DEF IInv, TransitionInv
<1>. HIDE DEF r
<1>4. /\ ticket'.status = r.to /\ ticket'.mode = ticket.mode
      /\ ticket'.approver = ticket.approver /\ ticket'.approved_by = ticket.approved_by
      /\ Eligible(ticket') = Eligible(ticket)
  <2>. DEFINE m == Moved(ticket, r.from, r.to)
  <2>1. /\ m.status = r.to /\ m.mode = ticket.mode
        /\ m.approver = ticket.approver /\ m.approved_by = ticket.approved_by
        /\ Eligible(m) = Eligible(ticket)
    BY <1>1, MovedFields
  <2>2. ticket' = m
    BY <1>2
  <2>. HIDE DEF m
  <2>. QED
    BY <2>1, <2>2
<1>5. TransitionInv' /\ LockInv'
  BY <1>2, UnlockedCommit DEF IInv, Typed, TypeOK
<1>6. SignedInv'
  BY <1>1, <1>2, <1>4 DEF IInv, SignedInv
<1>7. TurnInv'
  BY <1>1, <1>2, <1>3, <1>4 DEF IInv, TurnInv
<1>8. OneVerdictPerReview'
  BY <1>2, <1>4 DEF IInv, Typed, TypeOK, OneVerdictPerReview
<1>9. ReviewedWithProposal'
  BY <1>2, <1>3, <1>4 DEF ReviewedWithProposal, Proposed
<1>. QED
  BY <1>5, <1>6, <1>7, <1>8, <1>9 DEF IInv

LEMMA ProposalCommitStep ==
    ASSUME IInv, Typed', NEW q \in Request, ProposalCommit(q)
    PROVE  IInv'
<1>1. Exists /\ ticket \in Ticket
  BY AtWorkExists DEF ProposalCommit, IInv
<1>2. /\ End(q) /\ rowLock = Free
      /\ version' = requests[q].next /\ requests[q].next > version
      /\ ticket' = Moved(ticket, "it_review", "proposal_ready")
      /\ stale' = (stale \/ ticket.status # "it_review")
      /\ UNCHANGED <<rowLock, signed, visits, verdicts>>
  BY DEF ProposalCommit
<1>3. version \in Nat /\ version' \in Nat /\ version' >= version /\ version' > 0
  BY <1>2 DEF IInv, Typed, TypeOK
<1>4. /\ ticket'.status = "proposal_ready" /\ ticket'.mode = ticket.mode
      /\ ticket'.approver = ticket.approver /\ ticket'.approved_by = ticket.approved_by
      /\ Eligible(ticket') = Eligible(ticket)
  <2>. DEFINE m == Moved(ticket, "it_review", "proposal_ready")
  <2>1. /\ m.status = "proposal_ready" /\ m.mode = ticket.mode
        /\ m.approver = ticket.approver /\ m.approved_by = ticket.approved_by
        /\ Eligible(m) = Eligible(ticket)
    BY <1>1, MovedFields
  <2>2. ticket' = m
    BY <1>2
  <2>. HIDE DEF m
  <2>. QED
    BY <2>1, <2>2
<1>5. TransitionInv' /\ LockInv'
  BY <1>2, <1>3, UnlockedCommit
<1>6. SignedInv' /\ TurnInv'
  BY <1>1, <1>2, <1>4 DEF IInv, SignedInv, TurnInv, Undecided
<1>7. OneVerdictPerReview' /\ ReviewedWithProposal'
  BY <1>2, <1>3, <1>4 DEF IInv, OneVerdictPerReview, ReviewedWithProposal
<1>. QED
  BY <1>5, <1>6, <1>7 DEF IInv

\* What holds at the commit of a decision.
LEMMA DecisionFacts ==
    ASSUME IInv, NEW q \in Request, requests[q].op = "decide"
    PROVE  /\ Exists /\ ticket \in Ticket
           /\ ticket.status = "manager_review"
           /\ SameReview(requests[q].row, ticket)
           /\ MayDecide(requests[q].row, requests[q].by)
           /\ Eligible(requests[q].row) = Eligible(ticket)
           /\ version > 0 /\ verdicts < visits
<1>1. Exists /\ ticket \in Ticket
  BY AtWorkExists DEF IInv
<1>2. SameReview(requests[q].row, ticket) /\ MayDecide(requests[q].row, requests[q].by)
  BY DEF IInv, LockInv
<1>3. ticket.status = "manager_review"
  BY <1>2 DEF SameReview, MayDecide
<1>4. Eligible(requests[q].row) = Eligible(ticket)
  BY <1>2 DEF SameReview, Eligible
<1>. QED
  BY <1>1, <1>2, <1>3, <1>4 DEF IInv, OneVerdictPerReview, ReviewedWithProposal

LEMMA DecidedStep ==
    ASSUME IInv, NEW q \in Request, requests[q].op = "decide", Decided(q)
    PROVE  LockInv' /\ TransitionInv'
<1>1. /\ requests'[q] = Idle
      /\ \A o \in Request : o # q => requests'[o] = requests[o]
      /\ version' = version
  BY DEF Decided, End, IInv, Typed, TypeOK
<1>2. \A o \in Request : o # q => requests[o].op # "decide"
  BY DEF IInv, LockInv
<1>3. LockInv'
  BY <1>1, <1>2 DEF LockInv, Idle
<1>4. TransitionInv'
  BY <1>1 DEF IInv, TransitionInv, Idle
<1>. QED
  BY <1>3, <1>4

LEMMA PassStep == ASSUME IInv, Typed', NEW q \in Request, Pass(q) PROVE IInv'
<1>. DEFINE r == requests[q]
<1>1. r.op = "decide" /\ Decided(q) /\ r.row.mode = "sequence"
      /\ signed' = signed \cup {r.by} /\ UNCHANGED verdicts /\ UNCHANGED <<visits, stale, version>>
  BY DEF Pass, Decided
<1>2. PICK next \in Person :
        /\ IsFirst(next, r.row.approvers, Remaining(r))
        /\ ticket' = [ticket EXCEPT !.approver = next, !.approved_by = r.row.approved_by \cup {r.by}]
  BY DEF Pass
<1>3. /\ Exists /\ ticket \in Ticket /\ ticket.status = "manager_review"
      /\ SameReview(r.row, ticket) /\ Eligible(r.row) = Eligible(ticket)
      /\ version > 0 /\ verdicts < visits
  BY <1>1, DecisionFacts
<1>4. LockInv' /\ TransitionInv'
  BY <1>1, DecidedStep
<1>. HIDE DEF r
<1>5. /\ ticket'.status = "manager_review" /\ ticket'.mode = ticket.mode /\ ticket.mode = "sequence"
      /\ ticket'.approver = next /\ ticket'.approved_by = ticket.approved_by \cup {r.by}
      /\ Eligible(ticket') = Eligible(ticket)
  BY <1>1, <1>2, <1>3 DEF SameReview, Ticket, Eligible
<1>6. next \in Eligible(ticket') \ ticket'.approved_by
  BY <1>2, <1>3, <1>5 DEF IsFirst, Remaining, SameReview
<1>7. SignedInv'
  BY <1>1, <1>3, <1>5 DEF IInv, SignedInv
<1>8. TurnInv' /\ OneVerdictPerReview' /\ ReviewedWithProposal'
  BY <1>1, <1>3, <1>5, <1>6 DEF TurnInv, IInv, OneVerdictPerReview, ReviewedWithProposal
<1>. QED
  BY <1>4, <1>7, <1>8 DEF IInv

LEMMA ApproveStep == ASSUME IInv, Typed', NEW q \in Request, Approve(q) PROVE IInv'
<1>. DEFINE r == requests[q]
            by == IF r.row.mode = "sequence" THEN r.row.approved_by \cup {r.by} ELSE ticket.approved_by
<1>1. r.op = "decide" /\ Decided(q) /\ signed' = signed \cup {r.by} /\ verdicts' = verdicts + 1
      /\ UNCHANGED <<visits, stale, version>>
  BY DEF Approve, Decided
<1>2. /\ Exists /\ ticket \in Ticket /\ SameReview(r.row, ticket)
      /\ version > 0 /\ verdicts < visits
  BY <1>1, DecisionFacts
<1>3. Moved(ticket, "manager_review", "approved") \in Ticket
  BY <1>2, MovedType DEF Status
<1>4. /\ ticket'.status = "approved" /\ ticket'.mode = ticket.mode /\ ticket'.approved_by = by
  <2>1. Moved(ticket, "manager_review", "approved").approved_by = ticket.approved_by
    BY <1>2, MovedFields
  <2>2. ticket' = [Moved(ticket, "manager_review", "approved") EXCEPT !.approved_by = by]
    BY <2>1 DEF Approve
  <2>. QED
    BY <1>2, <1>3, <2>2, MovedFields DEF Ticket
<1>5. LockInv' /\ TransitionInv'
  BY <1>1, DecidedStep
<1>6. SignedInv'
  BY <1>1, <1>2, <1>4 DEF IInv, SignedInv, SameReview
<1>7. TurnInv' /\ OneVerdictPerReview' /\ ReviewedWithProposal'
  BY <1>1, <1>2, <1>4 DEF TurnInv, Undecided, IInv, Typed, TypeOK, OneVerdictPerReview, ReviewedWithProposal
<1>. QED
  BY <1>5, <1>6, <1>7 DEF IInv

LEMMA RequestChangesStep == ASSUME IInv, Typed', NEW q \in Request, RequestChanges(q) PROVE IInv'
<1>. DEFINE r == requests[q]
<1>1. r.op = "decide" /\ Decided(q) /\ verdicts' = verdicts + 1 /\ UNCHANGED <<visits, stale, version>>
  BY DEF RequestChanges, Decided
<1>2. PICK first \in Person :
        /\ IsFirst(first, r.row.approvers, Eligible(r.row))
        /\ ticket' = [Moved(ticket, "manager_review", "changes_requested") EXCEPT
                        !.approved_by = {}, !.approver = first]
  BY DEF RequestChanges
<1>3. /\ Exists /\ ticket \in Ticket /\ Eligible(r.row) = Eligible(ticket)
      /\ version > 0 /\ verdicts < visits
  BY <1>1, DecisionFacts
<1>4. LockInv' /\ TransitionInv'
  BY <1>1, DecidedStep
<1>. HIDE DEF r
<1>5. Moved(ticket, "manager_review", "changes_requested") \in Ticket
  BY <1>3, MovedType DEF Status
<1>6. /\ ticket'.status = "changes_requested"
      /\ ticket'.approver = first /\ ticket'.approved_by = {}
      /\ Eligible(ticket') = Eligible(Moved(ticket, "manager_review", "changes_requested"))
  BY <1>2, <1>3, <1>5, MovedFields DEF Ticket, Eligible
<1>7. first \in Eligible(ticket')
  BY <1>2, <1>3, <1>6, MovedFields DEF IsFirst
<1>8. SignedInv' /\ TurnInv' /\ OneVerdictPerReview' /\ ReviewedWithProposal'
  BY <1>1, <1>3, <1>6, <1>7
  DEF SignedInv, TurnInv, IInv, Typed, TypeOK, OneVerdictPerReview, ReviewedWithProposal
<1>. QED
  BY <1>4, <1>8 DEF IInv

LEMMA RejectStep == ASSUME IInv, Typed', NEW q \in Request, Reject(q) PROVE IInv'
<1>1. /\ requests[q].op = "decide" /\ Decided(q) /\ verdicts' = verdicts + 1
      /\ ticket' = Moved(ticket, "manager_review", "rejected")
      /\ UNCHANGED <<visits, stale, version, signed>>
  BY DEF Reject, Decided
<1>2. Exists /\ ticket \in Ticket /\ verdicts < visits
  BY <1>1, DecisionFacts
<1>3. /\ ticket'.status = "rejected" /\ ticket'.mode = ticket.mode
      /\ ticket'.approved_by = ticket.approved_by
  BY <1>1, <1>2, MovedFields
<1>4. LockInv' /\ TransitionInv'
  BY <1>1, DecidedStep
<1>5. SignedInv' /\ TurnInv' /\ OneVerdictPerReview' /\ ReviewedWithProposal'
  BY <1>1, <1>2, <1>3
  DEF SignedInv, TurnInv, Undecided, IInv, Typed, TypeOK, OneVerdictPerReview, ReviewedWithProposal
<1>. QED
  BY <1>4, <1>5 DEF IInv

LEMMA AbortStep == ASSUME IInv, Typed', NEW q \in Request, Abort(q) PROVE IInv'
<1>1. /\ requests'[q] = Idle
      /\ \A o \in Request : o # q => requests'[o] = requests[o]
      /\ rowLock' = IF rowLock = q THEN Free ELSE rowLock
      /\ UNCHANGED <<ticket, version, signed, visits, verdicts, stale>>
  BY DEF Abort, End, IInv, Typed, TypeOK
<1>2. TransitionInv'
  BY <1>1 DEF IInv, TransitionInv, Idle
<1>3. LockInv'
  BY <1>1 DEF IInv, LockInv, Idle
<1>4. SignedInv' /\ TurnInv' /\ OneVerdictPerReview' /\ ReviewedWithProposal'
  BY <1>1 DEF IInv, SignedInv, TurnInv, OneVerdictPerReview, ReviewedWithProposal, Exists
<1>. QED
  BY <1>2, <1>3, <1>4 DEF IInv

LEMMA WindowStep == ASSUME IInv, Typed', WindowEnds PROVE IInv'
<1>1. /\ Exists /\ ticket' = [ticket EXCEPT !.closed_at = "long_ago"]
      /\ UNCHANGED <<rowLock, version, requests, signed, visits, verdicts, stale>>
  BY DEF WindowEnds
<1>2. ticket \in Ticket
  BY <1>1 DEF IInv, Typed, TypeOK, Exists
<1>3. SameReview(ticket', ticket) /\ Eligible(ticket') = Eligible(ticket)
  BY <1>1, <1>2 DEF SameReview, Eligible, Ticket
<1>4. TransitionInv'
  BY <1>1 DEF IInv, TransitionInv
<1>5. LockInv'
  BY <1>1, <1>3 DEF IInv, LockInv, SameReview
<1>6. SignedInv' /\ TurnInv' /\ OneVerdictPerReview' /\ ReviewedWithProposal'
  BY <1>1, <1>3 DEF IInv, SameReview, SignedInv, TurnInv, OneVerdictPerReview, ReviewedWithProposal
<1>. QED
  BY <1>4, <1>5, <1>6 DEF IInv

LEMMA Inductive == ASSUME IInv, [Next]_vars PROVE IInv'
<1>1. Typed'
  BY TypeStep DEF IInv, Typed
<1>2. ASSUME NEW q \in Request, NEW p \in Person, NEW to \in Person, AssignRead(q, p, to) PROVE IInv'
  <2>1. [op |-> "assign", to |-> to].op \notin {"transition", "decide"}
    OBVIOUS
  <2>. QED
    BY <1>1, <1>2, <2>1, QuietStep DEF AssignRead
<1>3. ASSUME NEW q \in Request, NEW p \in Person, ProposalRead(q, p) PROVE IInv'
  <2>1. [op |-> "proposal"].op \notin {"transition", "decide"}
    OBVIOUS
  <2>. QED
    BY <1>1, <1>3, <2>1, QuietStep DEF ProposalRead
<1>4. ASSUME NEW q \in Request, ProposalNumber(q) PROVE IInv'
  <2>1. [op |-> "numbered", next |-> version + 1].op \notin {"transition", "decide"}
    OBVIOUS
  <2>. QED
    BY <1>1, <1>4, <2>1, QuietStep DEF ProposalNumber
<1>5. CASE UNCHANGED vars
  <2>1. UNCHANGED <<ticket, rowLock, version, requests, signed, visits, verdicts, stale>>
    BY <1>5 DEF vars
  <2>2. TransitionInv' /\ LockInv'
    BY <2>1 DEF IInv, TransitionInv, LockInv
  <2>3. SignedInv' /\ TurnInv' /\ OneVerdictPerReview' /\ ReviewedWithProposal'
    BY <2>1 DEF IInv, SignedInv, TurnInv, OneVerdictPerReview, ReviewedWithProposal, Exists
  <2>. QED
    BY <1>1, <2>2, <2>3 DEF IInv
<1>. QED
  BY <1>1, <1>2, <1>3, <1>4, <1>5, CreateStep, TransitionReadStep, DecideReadStep, AssignCommitStep,
     TransitionCommitStep, ProposalCommitStep, PassStep, ApproveStep, RequestChangesStep, RejectStep,
     AbortStep, WindowStep
  DEF Next

LEMMA Initially == Init => IInv
<1>. SUFFICES ASSUME Init PROVE IInv
  OBVIOUS
<1>1. Typed
  BY DEF Init, Typed, TypeOK, AtWork
<1>2. TransitionInv /\ LockInv
  BY DEF Init, TransitionInv, LockInv, Idle
<1>3. SignedInv /\ TurnInv /\ OneVerdictPerReview /\ ReviewedWithProposal
  BY DEF Init, Exists, NoTicket, SignedInv, TurnInv, OneVerdictPerReview, ReviewedWithProposal
<1>. QED
  BY <1>1, <1>2, <1>3 DEF IInv

LEMMA Always == Spec => []IInv
  BY Initially, Inductive, PTL DEF Spec

-----------------------------------------------------------------------------
(* What the invariant gives                                                *)

\* Every variable keeps its type, whatever handlers overwrite.
THEOREM TypeCorrect == Spec => []TypeOK
<1>1. IInv => TypeOK
  BY DEF IInv, Typed
<1>. QED
  BY <1>1, Always, PTL

\* decisions.py, FOR UPDATE: each time the ticket is put before the managers, one decision
\* at most takes it away again, however many managers decide at once.
THEOREM OneVerdict == Spec => []OneVerdictPerReview
<1>1. IInv => OneVerdictPerReview
  BY DEF IInv
<1>. QED
  BY <1>1, Always, PTL

\* state_machine.py and create_proposal: nothing reaches a manager, or passes one, before
\* IT has written a proposal, whatever statuses handlers overwrite.
THEOREM ProposalFirst == Spec => []ReviewedWithProposal
<1>1. IInv => ReviewedWithProposal
  BY DEF IInv
<1>. QED
  BY <1>1, Always, PTL

\* decisions.py: whoever is deciding is not the requester, until the commit.
THEOREM NoOwnDecision == Spec => []NobodyDecidesOwn
<1>1. IInv => NobodyDecidesOwn
  BY DEF IInv, LockInv, SameReview, MayDecide, NobodyDecidesOwn
<1>. QED
  BY <1>1, Always, PTL

\* decisions.py: a ticket that nobody has overwritten never waits in manager_review for
\* somebody decide() refuses, in any round and for any list of approvers.
THEOREM ReviewsEnd == Spec => []ReviewCanEnd
<1>1. ASSUME IInv PROVE ReviewCanEnd
  <2>. SUFFICES ASSUME Exists, ticket.status = "manager_review", ~stale, Eligible(ticket) # {}
                PROVE  \E p \in Person : MayDecide(ticket, p)
    BY DEF ReviewCanEnd
  <2>1. ticket \in Ticket
    BY <1>1 DEF IInv, Typed, TypeOK, Exists
  <2>2. Eligible(ticket) \subseteq Person \ {ticket.requester}
    BY <2>1 DEF Ticket, Eligible
  <2>3. CASE ticket.mode = "sequence"
    <3>1. ticket.approver \in Eligible(ticket) \ ticket.approved_by
      BY <1>1, <2>3 DEF IInv, TurnInv, Undecided
    <3>2. MayDecide(ticket, ticket.approver)
      BY <2>2, <2>3, <3>1 DEF MayDecide
    <3>. QED
      BY <2>2, <3>1, <3>2
  <2>4. CASE ticket.mode = "any_of"
    <3>1. ticket.approved_by = {}
      BY <1>1, <2>4 DEF IInv, SignedInv
    <3>2. PICK p \in Eligible(ticket) : TRUE
      OBVIOUS
    <3>3. MayDecide(ticket, p)
      BY <2>2, <2>4, <3>1, <3>2 DEF MayDecide
    <3>. QED
      BY <2>2, <3>2, <3>3
  <2>. QED
    BY <2>1, <2>3, <2>4 DEF Ticket, Modes
<1>. QED
  BY <1>1, Always, PTL

\* What FullApproval says of a step.
ApprovedInFull ==
    (Exists /\ ticket.status # "approved" /\ ticket'.status = "approved")
        => IF ticket.mode = "sequence" THEN Eligible(ticket) \subseteq signed'
                                       ELSE Eligible(ticket) \cap signed' # {}

\* The last approval: everybody else's is in approved_by, which has been signed.
LEMMA LastApproval == ASSUME IInv, NEW q \in Request, Approve(q) PROVE ApprovedInFull
<1>. DEFINE r == requests[q]
<1>1. /\ r.op = "decide" /\ signed' = signed \cup {r.by}
      /\ r.row.mode = "sequence" => Remaining(r) = {}
  BY DEF Approve
<1>2. /\ Exists /\ SameReview(r.row, ticket) /\ MayDecide(r.row, r.by)
      /\ Eligible(r.row) = Eligible(ticket)
  BY <1>1, DecisionFacts
<1>. HIDE DEF r
<1>3. CASE ticket.mode = "sequence"
  <2>1. r.row.approved_by \subseteq signed
    BY <1>2, <1>3 DEF IInv, SignedInv, SameReview
  <2>2. Eligible(ticket) \subseteq r.row.approved_by \cup {r.by}
    BY <1>1, <1>2, <1>3 DEF Remaining, SameReview
  <2>. QED
    BY <1>1, <1>3, <2>1, <2>2 DEF ApprovedInFull
<1>4. CASE ticket.mode # "sequence"
  <2>1. ticket.mode = "any_of"
    BY <1>2, <1>4 DEF IInv, Typed, TypeOK, Exists, Ticket, Modes
  <2>2. r.by \in Eligible(ticket)
    BY <1>2, <2>1 DEF MayDecide, SameReview
  <2>. QED
    BY <1>1, <1>4, <2>2 DEF ApprovedInFull
<1>. QED
  BY <1>3, <1>4

LEMMA ApprovalStep == ASSUME IInv, [Next]_vars PROVE ApprovedInFull
<1>1. ASSUME \/ ~Exists \/ UNCHANGED ticket \/ ticket'.status = ticket.status
             \/ ticket'.status # "approved"
      PROVE  ApprovedInFull
  BY <1>1 DEF ApprovedInFull
<1>2. Exists => ticket \in Ticket
  BY DEF IInv, Typed, TypeOK, Exists
<1>3. ASSUME NEW q \in Request, AssignCommit(q) PROVE ApprovedInFull
  <2>1. ~Exists \/ ticket'.status = ticket.status
    BY <1>2, <1>3 DEF AssignCommit, Ticket
  <2>. QED
    BY <1>1, <2>1
<1>4. ASSUME NEW q \in Request, TransitionCommit(q) PROVE ApprovedInFull
  <2>1. requests[q].to # "approved"
    BY <1>4 DEF TransitionCommit, IInv, TransitionInv
  <2>2. ~Exists \/ ticket'.status = requests[q].to
    BY <1>2, <1>4, MovedFields DEF TransitionCommit
  <2>. QED
    BY <1>1, <2>1, <2>2
<1>5. ASSUME NEW q \in Request, ProposalCommit(q) PROVE ApprovedInFull
  <2>1. ~Exists \/ ticket'.status = "proposal_ready"
    BY <1>2, <1>5, MovedFields DEF ProposalCommit
  <2>. QED
    BY <1>1, <2>1
<1>6. ASSUME NEW q \in Request, Pass(q) PROVE ApprovedInFull
  <2>1. ~Exists \/ ticket'.status = ticket.status
    BY <1>2, <1>6 DEF Pass, Ticket
  <2>. QED
    BY <1>1, <2>1
<1>7. ASSUME NEW q \in Request, RequestChanges(q) PROVE ApprovedInFull
  <2>1. ASSUME Exists PROVE Moved(ticket, "manager_review", "changes_requested") \in Ticket
    BY <1>2, <2>1, MovedType DEF Status
  <2>2. ~Exists \/ Moved(ticket, "manager_review", "changes_requested").status = "changes_requested"
    BY <1>2, MovedFields
  <2>3. ~Exists \/ ticket'.status = "changes_requested"
    BY <1>7, <2>1, <2>2 DEF RequestChanges, Ticket
  <2>. QED
    BY <1>1, <2>3
<1>8. ASSUME NEW q \in Request, Reject(q) PROVE ApprovedInFull
  <2>1. ~Exists \/ ticket'.status = "rejected"
    BY <1>2, <1>8, MovedFields DEF Reject
  <2>. QED
    BY <1>1, <2>1
<1>9. CASE WindowEnds
  <2>1. ticket'.status = ticket.status
    BY <1>2, <1>9 DEF WindowEnds, Ticket
  <2>. QED
    BY <1>1, <2>1
\* Creations, reads and aborts.
<1>10. ASSUME NEW p \in Person, NEW private \in BOOLEAN,
              \/ CreateSupport(p, private)
              \/ \E routing \in Routing(p) : CreateAutomation(p, private, routing)
       PROVE  ApprovedInFull
  BY <1>1, <1>10 DEF CreateSupport, CreateAutomation
<1>11. ASSUME NEW q \in Request, NEW p \in Person,
              \/ \E to \in Person : AssignRead(q, p, to)
              \/ \E to \in Status : TransitionRead(q, p, to)
              \/ ProposalRead(q, p) \/ DecideRead(q, p)
       PROVE  ApprovedInFull
  <2>1. UNCHANGED ticket
    BY <1>11 DEF AssignRead, TransitionRead, ProposalRead, DecideRead
  <2>. QED
    BY <1>1, <2>1
<1>12. ASSUME NEW q \in Request, ProposalNumber(q) \/ Abort(q) PROVE ApprovedInFull
  <2>1. UNCHANGED ticket
    BY <1>12 DEF ProposalNumber, Abort
  <2>. QED
    BY <1>1, <2>1
<1>13. CASE UNCHANGED vars
  BY <1>1, <1>13 DEF vars
<1>. QED
  BY <1>3, <1>4, <1>5, <1>6, <1>7, <1>8, <1>9, <1>10, <1>11, <1>12, <1>13, LastApproval DEF Next

\* decisions.py: a sequence is approved when every approver but the requester has approved
\* since changes were last requested, any_of when one has: for every list and any writers.
THEOREM ApprovedByAll == Spec => FullApproval
<1>1. IInv /\ [Next]_vars
        => [(Exists /\ ticket.status # "approved" /\ ticket'.status = "approved")
              => IF ticket.mode = "sequence" THEN Eligible(ticket) \subseteq signed'
                                             ELSE Eligible(ticket) \cap signed' # {}]_vars
  BY ApprovalStep DEF ApprovedInFull
<1>. QED
  BY <1>1, Always, PTL DEF Spec, FullApproval
=============================================================================
