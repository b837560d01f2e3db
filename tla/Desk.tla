-------------------------------- MODULE Desk ---------------------------------
(***************************************************************************)
(* The Service Desk's numbers and clocks: the references of tickets        *)
(* (refs.py), the instants a ticket was answered and closed                *)
(* (state_machine.py), and the targets administrators set for them         *)
(* (sla.py, routers/admin.py).  Tickets has the states; here a ticket is   *)
(* closed or not.                                                          *)
(*                                                                         *)
(* Every handler reads, takes the time and commits; others commit in       *)
(* between.  Tickets are of one department and one priority.               *)
(***************************************************************************)
EXTENDS Naturals, Sequences, FiniteSets

CONSTANTS
    Request,
    Never,          \* NULL in a column of instants
    Year,           \* how long a year is
    ReopenWindow,   \* the seven days
    Minutes,        \* the targets administrators set
    MaxTickets, MaxHops, Horizon     \* bounds of a TLC run

ASSUME DeskAssumption == /\ Never \notin Nat /\ Minutes \subseteq Nat
                         /\ Year \in Nat \ {0} /\ ReopenWindow \in Nat

VARIABLES
    clock,
    tickets,        \* the rows of tickets, in order of insertion
    department,     \* the row of departments with the tickets' department: none, named so, renamed
    target,         \* its row in sla_configs, or Never
    requests,
    moved,          \* history: when each ticket was first moved, by its writer's clock
    hops,           \* how often tickets were moved
    raced           \* history: the tickets two handlers have answered at once

vars == <<clock, tickets, department, target, requests, moved, hops, raced>>

Instant == 0 .. Horizon
Kind == {"support", "automation"}
Idle == [op |-> "idle"]
Index == DOMAIN tickets

Init ==
    /\ clock = 0
    /\ tickets = <<>>
    /\ department = "none"
    /\ target = Never
    /\ requests = [q \in Request |-> Idle]
    /\ moved = <<>>
    /\ hops = 0
    /\ raced = {}

Tick ==
    /\ clock < Horizon
    /\ clock' = clock + 1
    /\ UNCHANGED <<tickets, department, target, requests, moved, hops, raced>>

End(q) == requests' = [requests EXCEPT ![q] = Idle]

\* A handler fails, and its transaction is rolled back.
Abort(q) ==
    /\ requests[q] # Idle
    /\ End(q)
    /\ UNCHANGED <<clock, tickets, department, target, moved, hops, raced>>

(***************************************************************************)
(* References.                                                             *)
(***************************************************************************)
Ref(kind, year, n) == [kind |-> kind, year |-> year, n |-> n]

\* Mutant of Issued: every ticket of the kind is counted, whatever its year.
IssuedEver(kind, year) == {i \in Index : tickets[i].ref.kind = kind}

Issued(kind, year) == {i \in Index : tickets[i].ref.kind = kind /\ tickets[i].ref.year = year}

\* create_ticket takes the time, and next_ref counts; then the approver is looked for, which
\* may take seconds.
CreateRead(q, kind) ==
    LET year == clock \div Year IN
    /\ requests[q] = Idle
    /\ requests' = [requests EXCEPT ![q] =
         [op |-> "create", at |-> clock, ref |-> Ref(kind, year, Cardinality(Issued(kind, year)) + 1)]]
    /\ UNCHANGED <<clock, tickets, department, target, moved, hops, raced>>

\* Mutant of CreateCommit: ref is not unique.
CreateCommitTwice(q) ==
    LET r == requests[q] IN
    /\ r.op = "create"
    /\ Len(tickets) < MaxTickets
    /\ tickets' = Append(tickets, [ref |-> r.ref, closed |-> FALSE, created_at |-> r.at,
                                   first_response_at |-> Never, closed_at |-> Never])
    /\ moved' = Append(moved, Never)
    /\ End(q)
    /\ UNCHANGED <<clock, department, target, hops, raced>>

\* ref is unique: the later of two tickets with one reference is refused.
CreateCommit(q) ==
    LET r == requests[q] IN
    /\ r.op = "create"
    /\ Len(tickets) < MaxTickets
    /\ \A i \in Index : tickets[i].ref # r.ref
    /\ tickets' = Append(tickets, [ref |-> r.ref, closed |-> FALSE, created_at |-> r.at,
                                   first_response_at |-> Never, closed_at |-> Never])
    /\ moved' = Append(moved, Never)
    /\ End(q)
    /\ UNCHANGED <<clock, department, target, hops, raced>>

(***************************************************************************)
(* The instants of a ticket.                                               *)
(***************************************************************************)
\* transition_ticket, create_proposal and decide read the ticket and see whether the hop is
\* allowed; a closed one may only be reopened, for as long as the window is open.
MoveRead(q, i, close) ==
    LET t == tickets[i] IN
    /\ requests[q] = Idle
    /\ t.closed => /\ ~close /\ t.ref.kind = "support"
                   /\ t.closed_at # Never /\ clock - t.closed_at <= ReopenWindow
    /\ requests' = [requests EXCEPT ![q] = [op |-> "move", of |-> i, close |-> close, closed |-> t.closed,
                                            answered |-> t.first_response_at # Never, read |-> clock]]
    /\ UNCHANGED <<clock, tickets, department, target, moved, hops, raced>>

\* Mutant of Stamp: every hop counts as the response.
StampAgain(t, r, now) ==
    [t EXCEPT !.closed = r.close,
              !.first_response_at = now,
              !.closed_at = IF r.close THEN now ELSE IF r.closed THEN Never ELSE @]

\* apply_transition takes the time; the commit writes the columns that it has changed from
\* what was read, over whatever is there by now.
Stamp(t, r, now) ==
    [t EXCEPT !.closed = r.close,
              !.first_response_at = IF r.answered THEN @ ELSE now,
              !.closed_at = IF r.close THEN now ELSE IF r.closed THEN Never ELSE @]

MoveCommit(q) ==
    LET r == requests[q]  i == r.of IN
    /\ r.op = "move"
    /\ hops < MaxHops /\ hops' = hops + 1
    /\ \E now \in r.read .. clock :
         /\ tickets' = [tickets EXCEPT ![i] = Stamp(@, r, now)]
         /\ moved' = [moved EXCEPT ![i] = IF @ = Never \/ now < @ THEN now ELSE @]
    /\ raced' = IF ~r.answered /\ tickets[i].first_response_at # Never
                THEN raced \cup {i} ELSE raced
    /\ End(q)
    /\ UNCHANGED <<clock, department, target>>

(***************************************************************************)
(* Administration.  A row is found or inserted, and its key is unique: the *)
(* later of two who insert it is refused.                                  *)
(***************************************************************************)
\* A new row for the name takes the place of one that was renamed, and has no targets yet.
CreateDepartment ==
    /\ department # "named"
    /\ department' = "named"
    /\ target' = Never
    /\ UNCHANGED <<clock, tickets, requests, moved, hops, raced>>

\* The tickets keep the name their requesters had; the targets go with the row.
UpdateDepartment ==
    /\ department # "none"
    /\ department' \in {"named", "renamed"} \ {department}
    /\ UNCHANGED <<clock, tickets, target, requests, moved, hops, raced>>

UpsertSla(minutes) ==
    /\ department # "none"
    /\ target' = minutes
    /\ UNCHANGED <<clock, tickets, department, requests, moved, hops, raced>>

Next ==
    \/ Tick
    \/ \E q \in Request : \/ \E kind \in Kind : CreateRead(q, kind)
                          \/ \E i \in Index, close \in BOOLEAN : MoveRead(q, i, close)
                          \/ CreateCommit(q) \/ MoveCommit(q) \/ Abort(q)
    \/ CreateDepartment \/ UpdateDepartment
    \/ \E minutes \in Minutes : UpsertSla(minutes)

Spec == Init /\ [][Next]_vars

(***************************************************************************)
(* What is shown of a ticket.                                              *)
(***************************************************************************)
\* sla_status_for finds a target by the name of the department.
Targeted == department = "named" /\ target # Never

\* Mutant of Exceeds: exactly the target is a breach.
Reaches(from, until) == (IF until = Never THEN clock ELSE until) - from >= target

Exceeds(from, until) == (IF until = Never THEN clock ELSE until) - from > target
ResponseBreached(t) == Exceeds(t.created_at, t.first_response_at)

-----------------------------------------------------------------------------
(* Properties                                                              *)

TypeOK ==
    /\ clock \in Instant
    /\ Len(tickets) <= MaxTickets /\ Len(moved) = Len(tickets) /\ raced \subseteq Index
    /\ \A i \in Index : /\ tickets[i].created_at \in Instant
                        /\ tickets[i].first_response_at \in Instant \cup {Never}
                        /\ tickets[i].closed_at \in Instant \cup {Never}
    /\ department \in {"none", "named", "renamed"}
    /\ target \in Minutes \cup {Never}

\* refs.py, "Sequential per kind per calendar year, counted from existing rows", "not
\* race-proof under concurrent writes": two creations that count the same rows cost one of
\* them its request, and never the sequence: the n-th ticket stored of a kind and a year has
\* number n, also when creations overlap, fail and straddle the turn of the year.
NumbersRunOn ==
    \A i \in Index :
        LET ref == tickets[i].ref IN
        ref.n = Cardinality({j \in Issued(ref.kind, ref.year) : j <= i})

\* sla.py and state_machine.py, "the first time anyone moves the ticket at all after
\* creation counts as responded to", "elapsed exactly equal to the target is not": a ticket
\* that has been moved is shown in breach of its response target if and only if nobody had
\* moved it in time, whatever is closed, reopened, retargeted and renamed since.  When two
\* handlers answer a ticket at once, the later commit replaces the instant of the first.
FirstMoveCounts ==
    \A i \in Index \ raced :
        (moved[i] # Never /\ Targeted)
            => (ResponseBreached(tickets[i]) <=> moved[i] > tickets[i].created_at + target)

\* The clock of a closed ticket stands, whoever else was at work on it.
ClosedClockStands == \A i \in Index : tickets[i].closed => tickets[i].closed_at # Never

\* Both clocks of the service levels.
ClocksRight == FirstMoveCounts /\ ClosedClockStands
==============================================================================
