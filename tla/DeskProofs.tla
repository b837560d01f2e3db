----------------------------- MODULE DeskProofs ------------------------------
(***************************************************************************)
(* Proofs about the Service Desk around its tickets: references and clocks *)
(* (Desk), the approver of a request (Routing), mails (Notices).  Each has *)
(* its own inductive invariant, and neither number of tickets, nor of      *)
(* people, rules, requests or mails is bounded here.                       *)
(***************************************************************************)
EXTENDS Desk, Routing, Notices, FiniteSetTheorems, SequenceTheorems,
        WellFoundedInduction, TLAPS

\* A set of naturals that is not empty has a least element.
LEMMA LeastOf ==
    ASSUME NEW S \in SUBSET Nat, S # {}
    PROVE  \E n \in S : \A m \in S : n <= m
<1>1. PICK n \in S : \A m \in S : <<m, n>> \notin OpToRel(<, Nat)
  BY WFMin, NatLessThanWellFounded, Zenon
<1>2. ASSUME NEW m \in S PROVE n <= m
  <2>1. ~(m < n)
    BY <1>1, Zenon DEF OpToRel
  <2>. QED
    BY <2>1
<1>. QED
  BY <1>2

-----------------------------------------------------------------------------
(* References and clocks                                                   *)

RefType == [kind : Kind, year : Nat, n : Nat]
Ticket == [ref : RefType, closed : BOOLEAN, created_at : Nat,
           first_response_at : Nat \cup {Never}, closed_at : Nat \cup {Never}]
CreateRequest == [op : {"create"}, at : Nat, ref : RefType]
MoveRequest == [op : {"move"}, of : Nat, close : BOOLEAN, closed : BOOLEAN, answered : BOOLEAN, read : Nat]

DeskTypes ==
    /\ clock \in Nat /\ target \in Minutes \cup {Never}
    /\ tickets \in Seq(Ticket)
    /\ moved \in Seq(Nat \cup {Never}) /\ Len(moved) = Len(tickets)
    /\ requests \in [Request -> {Idle} \cup CreateRequest \cup MoveRequest]
    /\ raced \subseteq Index

\* No instant is in the future; a request knows tickets that are there.
DeskClocks ==
    /\ \A i \in Index : tickets[i].first_response_at # Never => tickets[i].first_response_at <= clock
    /\ \A q \in Request : requests[q].op = "move" => requests[q].of \in Index /\ requests[q].read <= clock

\* Who creates has counted some of the tickets there are.
Counted ==
    \A q \in Request : requests[q].op = "create" =>
        LET ref == requests[q].ref
        IN  ref.n \in 1 .. Cardinality(Issued(ref.kind, ref.year)) + 1

\* The first response of a ticket is its first move; who has read one goes on after it.
FirstMove ==
    /\ \A i \in Index \ raced : tickets[i].first_response_at = moved[i]
    /\ \A q \in Request : requests[q].op = "move" /\ requests[q].answered /\ requests[q].of \notin raced =>
          LET first == tickets[requests[q].of].first_response_at
          IN  first # Never /\ first <= requests[q].read

DeskInv == DeskTypes /\ DeskClocks /\ Counted /\ FirstMove /\ NumbersRunOn /\ ClosedClockStands

LEMMA TicketTyped ==
    ASSUME DeskTypes, NEW i \in Index
    PROVE  /\ i \in 1 .. Len(tickets) /\ Len(tickets) \in Nat
           /\ tickets[i] \in Ticket
           /\ tickets[i].first_response_at \in Nat \cup {Never}
<1>1. i \in 1 .. Len(tickets) /\ Len(tickets) \in Nat
  BY DEF DeskTypes, Index
<1>2. tickets[i] \in Ticket
  BY <1>1 DEF DeskTypes
<1>. QED
  BY <1>1, <1>2 DEF Ticket

\* The tickets of a kind and a year, up to the k-th ticket of all.
Upto(kind, year, k) == {j \in Issued(kind, year) : j <= k}

LEMMA IssuedFinite ==
    ASSUME DeskTypes, NEW kind, NEW year
    PROVE  IsFiniteSet(Issued(kind, year)) /\ Cardinality(Issued(kind, year)) \in Nat
<1>1. IsFiniteSet(1 .. Len(tickets))
  BY FS_Interval DEF DeskTypes
<1>2. Issued(kind, year) \subseteq 1 .. Len(tickets)
  BY DEF Issued, Index, DeskTypes
<1>. QED
  BY <1>1, <1>2, FS_Subset, FS_CardinalityType

LEMMA UptoCount ==
    ASSUME DeskTypes, NEW kind, NEW year
    PROVE  /\ \A k \in Nat : IsFiniteSet(Upto(kind, year, k)) /\ Cardinality(Upto(kind, year, k)) \in Nat
           /\ Cardinality(Upto(kind, year, 0)) = 0
           /\ Upto(kind, year, Len(tickets)) = Issued(kind, year)
           /\ \A k \in Nat : Upto(kind, year, k + 1) =
                  Upto(kind, year, k) \cup (IF k + 1 \in Issued(kind, year) THEN {k + 1} ELSE {})
<1>1. Issued(kind, year) \subseteq 1 .. Len(tickets) /\ Len(tickets) \in Nat
  BY DEF Issued, Index, DeskTypes
<1>2. ASSUME NEW k \in Nat PROVE IsFiniteSet(Upto(kind, year, k)) /\ Cardinality(Upto(kind, year, k)) \in Nat
  <2>1. Upto(kind, year, k) \subseteq Issued(kind, year)
    BY DEF Upto
  <2>. QED
    BY <2>1, IssuedFinite, FS_Subset, FS_CardinalityType
<1>3. Cardinality(Upto(kind, year, 0)) = 0
  <2>1. Upto(kind, year, 0) = {}
    BY <1>1 DEF Upto
  <2>. QED
    BY <2>1, FS_EmptySet
<1>4. Upto(kind, year, Len(tickets)) = Issued(kind, year)
  BY <1>1 DEF Upto
<1>5. ASSUME NEW k \in Nat
      PROVE  Upto(kind, year, k + 1) =
                 Upto(kind, year, k) \cup (IF k + 1 \in Issued(kind, year) THEN {k + 1} ELSE {})
  <2>1. \A j \in Issued(kind, year) : j <= k + 1 <=> j <= k \/ j = k + 1
    BY <1>1
  <2>. QED
    BY <2>1 DEF Upto
<1>. QED
  BY <1>2, <1>3, <1>4, <1>5

\* Every number up to the count has been given: the first ticket with which the count
\* reaches the number has it.
LEMMA NumberGiven ==
    ASSUME DeskTypes, NumbersRunOn, NEW kind \in Kind, NEW year \in Nat, NEW m \in Nat \ {0},
           m <= Cardinality(Issued(kind, year))
    PROVE  \E i \in Index : tickets[i].ref = Ref(kind, year, m)
<1>. DEFINE Reached == {k \in Nat : m <= Cardinality(Upto(kind, year, k))}
<1>1. Len(tickets) \in Reached
  <2>1. Len(tickets) \in Nat
    BY DEF DeskTypes
  <2>2. Cardinality(Upto(kind, year, Len(tickets))) = Cardinality(Issued(kind, year))
    BY UptoCount, Zenon
  <2>. QED
    BY <2>1, <2>2
<1>2. PICK k \in Reached : \A l \in Reached : k <= l
  <2>1. Reached \in SUBSET Nat /\ Reached # {}
    BY <1>1
  <2>. QED
    BY <2>1, LeastOf, Zenon
<1>3. k \in Nat /\ k # 0 /\ m <= Cardinality(Upto(kind, year, k))
  BY UptoCount
<1>. DEFINE before == Upto(kind, year, k - 1)
<1>4. k - 1 \in Nat /\ (k - 1) + 1 = k
  BY <1>3
<1>5. IsFiniteSet(before) /\ Cardinality(before) \in Nat
  BY <1>4, UptoCount
<1>6. Cardinality(before) < m
  <2>1. k - 1 \notin Reached
    BY <1>2, <1>3
  <2>. QED
    BY <1>4, <1>5, <2>1
<1>7. Upto(kind, year, k) = before \cup (IF k \in Issued(kind, year) THEN {k} ELSE {})
  <2>1. Upto(kind, year, (k - 1) + 1) =
            before \cup (IF (k - 1) + 1 \in Issued(kind, year) THEN {(k - 1) + 1} ELSE {})
    BY <1>4, UptoCount, Zenon
  <2>. QED
    BY <1>4, <2>1, Zenon
<1>8. k \in Issued(kind, year)
  <2>. HIDE DEF before
  <2>1. k \notin Issued(kind, year) => Upto(kind, year, k) = before
    BY <1>7
  <2>. QED
    BY <1>3, <1>5, <1>6, <2>1
<1>9. Cardinality(Upto(kind, year, k)) = m
  <2>1. k \notin before
    BY <1>3 DEF Upto
  <2>. HIDE DEF before
  <2>2. Upto(kind, year, k) = before \cup {k}
    BY <1>7, <1>8
  <2>3. Cardinality(before \cup {k}) = Cardinality(before) + 1
    BY <1>5, <2>1, FS_AddElement
  <2>. QED
    BY <1>3, <1>5, <1>6, <2>2, <2>3
<1>10. k \in Index /\ tickets[k].ref.kind = kind /\ tickets[k].ref.year = year
  BY <1>8 DEF Issued
<1>11. tickets[k].ref.n = m
  BY <1>9, <1>10 DEF NumbersRunOn, Upto
<1>12. tickets[k].ref \in RefType
  BY <1>10, TicketTyped DEF Ticket
<1>. QED
  BY <1>10, <1>11, <1>12 DEF RefType, Ref

\* Steps that leave the references alone leave the numbers and the counts alone.
LEMMA SameRefs ==
    ASSUME DeskInv, DeskTypes', Len(tickets') = Len(tickets),
           \A i \in Index : tickets'[i].ref = tickets[i].ref
    PROVE  /\ Index' = Index /\ \A kind, year : Issued(kind, year)' = Issued(kind, year)
           /\ NumbersRunOn'
<1>1. Index' = Index
  BY DEF DeskInv, DeskTypes, Index
<1>2. \A kind, year : Issued(kind, year)' = Issued(kind, year)
  BY <1>1 DEF Issued
<1>3. NumbersRunOn'
  BY <1>1, <1>2 DEF DeskInv, NumbersRunOn
<1>. QED
  BY <1>1, <1>2, <1>3

LEMMA DeskInitially == ASSUME Init PROVE DeskInv
<1>. USE DeskAssumption
<1>1. DeskTypes
  BY DEF Init, DeskTypes, Index
<1>. QED
  BY <1>1 DEF Init, DeskInv, DeskClocks, Counted, FirstMove, NumbersRunOn, ClosedClockStands, Index, Idle

\* Steps that leave the tickets alone, with one request that goes on at most.
LEMMA TicketsRest ==
    ASSUME DeskInv, UNCHANGED <<tickets, moved, raced>>,
           clock' \in Nat, clock <= clock', target' \in Minutes \cup {Never},
           NEW q \in Request, NEW r \in {Idle, requests[q]} \cup CreateRequest \cup MoveRequest,
           requests' = [requests EXCEPT ![q] = r],
           r # requests[q] /\ r.op = "create" =>
               r.ref.n \in 1 .. Cardinality(Issued(r.ref.kind, r.ref.year)) + 1,
           r # requests[q] /\ r.op = "move" =>
               /\ r.of \in Index /\ r.read <= clock
               /\ r.answered => /\ tickets[r.of].first_response_at # Never
                                /\ tickets[r.of].first_response_at <= r.read
    PROVE  DeskInv'
<1>1. DeskTypes'
  BY DEF DeskInv, DeskTypes, Index
<1>2. NumbersRunOn' /\ Index' = Index /\ \A kind, year : Issued(kind, year)' = Issued(kind, year)
  BY <1>1, SameRefs DEF DeskInv, DeskTypes
<1>3. requests'[q] = r /\ \A o \in Request \ {q} : requests'[o] = requests[o]
  BY DEF DeskInv, DeskTypes
<1>4. \A i \in Index : tickets[i].first_response_at \in Nat \cup {Never}
  BY TicketTyped DEF DeskInv
<1>5. \A o \in Request : requests[o].op = "move" => requests[o] \in MoveRequest
  BY DEF DeskInv, DeskTypes, CreateRequest, MoveRequest, Idle
<1>6. DeskClocks'
  <2>1. \A i \in Index : tickets[i].first_response_at # Never => tickets[i].first_response_at <= clock'
    BY <1>4 DEF DeskInv, DeskTypes, DeskClocks
  <2>2. ASSUME NEW o \in Request, requests'[o].op = "move"
        PROVE  requests'[o].of \in Index /\ requests'[o].read <= clock'
    <3>1. requests'[o] \in MoveRequest
      BY <1>3, <1>5, <2>2 DEF DeskInv, DeskTypes, CreateRequest, MoveRequest, Idle
    <3>2. requests'[o].of \in Index /\ requests'[o].read <= clock
      BY <1>3, <2>2 DEF DeskInv, DeskClocks, Idle
    <3>. QED
      BY <3>1, <3>2 DEF MoveRequest, DeskInv, DeskTypes
  <2>. QED
    BY <1>2, <2>1, <2>2 DEF DeskClocks
<1>7. Counted'
  BY <1>2, <1>3 DEF DeskInv, Counted, Idle
<1>8. FirstMove'
  BY <1>2, <1>3 DEF DeskInv, FirstMove, Idle
<1>9. ClosedClockStands'
  BY <1>2 DEF DeskInv, ClosedClockStands
<1>. QED
  BY <1>1, <1>2, <1>6, <1>7, <1>8, <1>9 DEF DeskInv

\* Time, administration and failures.
LEMMA QuietDeskStep ==
    ASSUME DeskInv, UNCHANGED <<tickets, moved, raced, requests>>,
           clock' \in Nat, clock <= clock', target' \in Minutes \cup {Never}
    PROVE  DeskInv'
<1>1. CASE Request = {}
  <2>1. DeskTypes'
    BY DEF DeskInv, DeskTypes, Index
  <2>2. NumbersRunOn' /\ Index' = Index
    BY <2>1, SameRefs DEF DeskInv, DeskTypes
  <2>3. \A i \in Index : tickets[i].first_response_at \in Nat \cup {Never}
    BY TicketTyped DEF DeskInv
  <2>4. DeskClocks'
    BY <1>1, <2>2, <2>3 DEF DeskInv, DeskTypes, DeskClocks
  <2>. QED
    BY <1>1, <2>1, <2>2, <2>4 DEF DeskInv, Counted, FirstMove, ClosedClockStands
<1>2. ASSUME NEW q \in Request PROVE DeskInv'
  <2>1. requests' = [requests EXCEPT ![q] = requests[q]]
    BY DEF DeskInv, DeskTypes
  <2>. QED
    BY <2>1, TicketsRest
<1>. QED
  BY <1>1, <1>2

LEMMA AroundStep ==
    ASSUME DeskInv,
           \/ Tick \/ CreateDepartment \/ UpdateDepartment
           \/ \E minutes \in Minutes : UpsertSla(minutes)
    PROVE  DeskInv'
  BY QuietDeskStep DEF DeskInv, DeskTypes, Tick, CreateDepartment, UpdateDepartment, UpsertSla

LEMMA ClockRuns ==
    ASSUME DeskInv, UNCHANGED <<clock, target>>
    PROVE  clock' \in Nat /\ clock <= clock' /\ target' \in Minutes \cup {Never}
  BY DEF DeskInv, DeskTypes

LEMMA AbortDeskStep == ASSUME DeskInv, NEW q \in Request, Abort(q) PROVE DeskInv'
<1>1. requests' = [requests EXCEPT ![q] = Idle] /\ UNCHANGED <<tickets, moved, raced, clock, target>>
  BY DEF Abort, End
<1>2. Idle.op # "create" /\ Idle.op # "move"
  BY DEF Idle
<1>. QED
  BY <1>1, <1>2, ClockRuns, TicketsRest

LEMMA CreateReadStep == ASSUME DeskInv, NEW q \in Request, NEW kind \in Kind, CreateRead(q, kind) PROVE DeskInv'
<1>. DEFINE year == clock \div Year
            count == Cardinality(Issued(kind, year))
            r == [op |-> "create", at |-> clock, ref |-> Ref(kind, year, count + 1)]
<1>1. year \in Nat
  BY DeskAssumption DEF DeskInv, DeskTypes
<1>2. count \in Nat
  BY IssuedFinite DEF DeskInv
<1>3. r \in CreateRequest
  BY <1>1, <1>2 DEF CreateRequest, RefType, Ref, DeskInv, DeskTypes
<1>4. r.ref.kind = kind /\ r.ref.year = year /\ r.ref.n = count + 1 /\ r.op = "create"
  BY DEF Ref
<1>5. r.ref.n \in 1 .. Cardinality(Issued(r.ref.kind, r.ref.year)) + 1
  BY <1>2, <1>4
<1>6. requests' = [requests EXCEPT ![q] = r] /\ UNCHANGED <<tickets, moved, raced, clock, target>>
  BY DEF CreateRead
<1>. HIDE DEF r
<1>. QED
  BY <1>3, <1>4, <1>5, <1>6, ClockRuns, TicketsRest

LEMMA MoveReadStep ==
    ASSUME DeskInv, NEW q \in Request, NEW i \in Index, NEW close \in BOOLEAN, MoveRead(q, i, close)
    PROVE  DeskInv'
<1>. DEFINE t == tickets[i]
            r == [op |-> "move", of |-> i, close |-> close, closed |-> t.closed,
                  answered |-> t.first_response_at # Never, read |-> clock]
<1>1. t \in Ticket /\ i \in Nat
  BY TicketTyped DEF DeskInv
<1>2. r \in MoveRequest
  BY <1>1 DEF MoveRequest, Ticket, DeskInv, DeskTypes
<1>3. /\ r.op = "move" /\ r.of = i /\ r.read = clock
      /\ r.answered => t.first_response_at # Never /\ t.first_response_at <= clock
  BY DEF DeskInv, DeskClocks
<1>4. requests' = [requests EXCEPT ![q] = r] /\ UNCHANGED <<tickets, moved, raced, clock, target>>
  BY DEF MoveRead
<1>5. clock \in Nat /\ tickets[i].first_response_at \in Nat \cup {Never}
  BY TicketTyped DEF DeskInv, DeskTypes
<1>. HIDE DEF r
<1>6. /\ r.op # "create"
      /\ r.of \in Index /\ r.read <= clock
      /\ r.answered => /\ tickets[r.of].first_response_at # Never
                       /\ tickets[r.of].first_response_at <= r.read
  BY <1>3, <1>5
<1>. QED
  BY <1>2, <1>4, <1>6, ClockRuns, TicketsRest

\* Who commits a ticket has counted all of its kind and year: every smaller number is given.
LEMMA CommitCounts ==
    ASSUME DeskInv, NEW q \in Request, CreateCommit(q)
    PROVE  /\ requests[q] \in CreateRequest
           /\ LET ref == requests[q].ref IN ref.n = Cardinality(Issued(ref.kind, ref.year)) + 1
<1>. DEFINE ref == requests[q].ref
            count == Cardinality(Issued(ref.kind, ref.year))
<1>1. requests[q] \in CreateRequest
  BY DEF CreateCommit, DeskInv, DeskTypes, Idle, MoveRequest
<1>2. ref \in RefType /\ ref.kind \in Kind /\ ref.year \in Nat
  BY <1>1 DEF CreateRequest, RefType
<1>3. count \in Nat
  BY IssuedFinite DEF DeskInv
<1>4. ref.n \in 1 .. count + 1
  BY DEF DeskInv, Counted, CreateCommit
<1>5. ~(ref.n <= count)
  <2>1. SUFFICES ASSUME ref.n <= count PROVE FALSE
    OBVIOUS
  <2>2. ref.n \in Nat \ {0}
    BY <1>3, <1>4
  <2>3. PICK i \in Index : tickets[i].ref = Ref(ref.kind, ref.year, ref.n)
    BY <1>2, <2>1, <2>2, NumberGiven DEF DeskInv
  <2>4. Ref(ref.kind, ref.year, ref.n) = ref
    BY <1>2 DEF Ref, RefType
  <2>. QED
    BY <2>3, <2>4 DEF CreateCommit
<1>. QED
  BY <1>1, <1>3, <1>4, <1>5

LEMMA CreateCommitStep == ASSUME DeskInv, NEW q \in Request, CreateCommit(q) PROVE DeskInv'
<1>. DEFINE r == requests[q]
            ref == r.ref
            last == Len(tickets) + 1
            t == [ref |-> ref, closed |-> FALSE, created_at |-> r.at,
                  first_response_at |-> Never, closed_at |-> Never]
            count == Cardinality(Issued(ref.kind, ref.year))
<1>1. r \in CreateRequest /\ ref.n = count + 1
  BY CommitCounts
<1>2. t \in Ticket
  BY <1>1 DEF CreateRequest, Ticket
<1>3. /\ tickets' = Append(tickets, t) /\ moved' = Append(moved, Never)
      /\ requests' = [requests EXCEPT ![q] = Idle] /\ UNCHANGED <<clock, target, raced>>
  BY DEF CreateCommit, End
<1>. HIDE DEF t
<1>4. /\ tickets \in Seq(Ticket) /\ moved \in Seq(Nat \cup {Never}) /\ Len(moved) = Len(tickets)
      /\ Len(tickets) \in Nat /\ Index = 1 .. Len(tickets)
  BY DEF DeskInv, DeskTypes, Index
<1>5. /\ tickets' \in Seq(Ticket) /\ Len(tickets') = last /\ Index' = 1 .. last
      /\ \A i \in Index : tickets'[i] = tickets[i]
      /\ tickets'[last] = t
  BY <1>2, <1>3, <1>4 DEF Index
<1>6. /\ moved' \in Seq(Nat \cup {Never}) /\ Len(moved') = last
      /\ \A i \in Index : moved'[i] = moved[i]
      /\ moved'[last] = Never
  BY <1>3, <1>4
<1>7. Index' = Index \cup {last} /\ last \notin Index /\ last \in Nat /\ \A i \in Index : i < last
  BY <1>4, <1>5
<1>8. /\ requests'[q] = Idle /\ requests' \in [Request -> {Idle} \cup CreateRequest \cup MoveRequest]
      /\ \A o \in Request \ {q} : requests'[o] = requests[o]
  BY <1>3 DEF DeskInv, DeskTypes
<1>9. DeskTypes'
  BY <1>3, <1>5, <1>6, <1>7, <1>8 DEF DeskInv, DeskTypes
<1>10. DeskClocks'
  <2>1. \A i \in Index' : tickets'[i].first_response_at # Never => tickets'[i].first_response_at <= clock
    BY <1>5, <1>7 DEF t, DeskInv, DeskClocks
  <2>2. \A o \in Request : requests'[o].op = "move" => requests'[o].of \in Index /\ requests'[o].read <= clock
    BY <1>8 DEF Idle, DeskInv, DeskClocks
  <2>3. clock' = clock /\ Index \subseteq Index'
    BY <1>3, <1>7
  <2>. QED
    BY <2>1, <2>2, <2>3 DEF DeskClocks
<1>11. t.ref = ref /\ t.first_response_at = Never /\ t.closed = FALSE
  BY DEF t
<1>12. ASSUME NEW kind, NEW year
       PROVE  Issued(kind, year)' =
                Issued(kind, year) \cup (IF kind = ref.kind /\ year = ref.year THEN {last} ELSE {})
  BY <1>5, <1>7, <1>11 DEF Issued
<1>13. ASSUME NEW kind, NEW year
       PROVE  /\ IsFiniteSet(Issued(kind, year)) /\ Cardinality(Issued(kind, year)) \in Nat
              /\ last \notin Issued(kind, year)
              /\ Cardinality(Issued(kind, year) \cup {last}) = Cardinality(Issued(kind, year)) + 1
  <2>1. IsFiniteSet(Issued(kind, year)) /\ Cardinality(Issued(kind, year)) \in Nat
    BY IssuedFinite DEF DeskInv
  <2>2. last \notin Issued(kind, year)
    BY <1>7 DEF Issued
  <2>. QED
    BY <2>1, <2>2, FS_AddElement
<1>14. Counted'
  <2>1. SUFFICES ASSUME NEW o \in Request, NEW kind, NEW year, requests'[o].op = "create",
                        kind = requests'[o].ref.kind, year = requests'[o].ref.year
                 PROVE  requests'[o].ref.n \in 1 .. Cardinality(Issued(kind, year)') + 1
    BY DEF Counted, Issued
  <2>2. requests'[o] = requests[o] /\ requests[o].op = "create"
    BY <1>8, <2>1 DEF Idle
  <2>3. requests[o].ref.n \in 1 .. Cardinality(Issued(kind, year)) + 1
    BY <2>1, <2>2 DEF DeskInv, Counted
  <2>4. \/ Issued(kind, year)' = Issued(kind, year)
        \/ Issued(kind, year)' = Issued(kind, year) \cup {last}
    BY <1>12
  <2>5. Cardinality(Issued(kind, year)') \in {Cardinality(Issued(kind, year)), Cardinality(Issued(kind, year)) + 1}
    BY <1>13, <2>4
  <2>6. requests[o].ref.n \in 1 .. Cardinality(Issued(kind, year)') + 1
    <3>1. Cardinality(Issued(kind, year)) \in Nat
      BY <1>13
    <3>. QED
      BY <2>3, <2>5, <3>1
  <2>. QED
    BY <2>2, <2>6
<1>15. FirstMove'
  <2>1. raced' = raced /\ last \notin raced
    BY <1>3, <1>7 DEF DeskInv, DeskTypes
  <2>2. \A i \in Index' \ raced' : tickets'[i].first_response_at = moved'[i]
    BY <1>5, <1>6, <1>7, <1>11, <2>1 DEF DeskInv, FirstMove
  <2>3. \A o \in Request : requests'[o].op = "move" => requests'[o] = requests[o] /\ requests[o].of \in Index
    BY <1>8 DEF Idle, DeskInv, DeskClocks
  <2>. QED
    BY <1>5, <2>1, <2>2, <2>3 DEF DeskInv, FirstMove
<1>16. NumbersRunOn'
  <2>1. SUFFICES ASSUME NEW i \in Index', NEW kind, NEW year,
                        kind = tickets'[i].ref.kind, year = tickets'[i].ref.year
                 PROVE  tickets'[i].ref.n = Cardinality({j \in Issued(kind, year)' : j <= i})
    BY DEF NumbersRunOn, Issued
  <2>2. CASE i \in Index
    <3>1. tickets'[i] = tickets[i] /\ i \in Nat /\ ~(last <= i)
      BY <1>4, <1>5, <1>7, <2>2
    <3>2. {j \in Issued(kind, year)' : j <= i} = {j \in Issued(kind, year) : j <= i}
      BY <1>12, <3>1
    <3>3. tickets[i].ref.n = Cardinality({j \in Issued(kind, year) : j <= i})
      BY <2>1, <2>2, <3>1 DEF DeskInv, NumbersRunOn
    <3>. QED
      BY <3>1, <3>2, <3>3
  <2>3. CASE i = last
    <3>1. tickets'[i].ref = ref /\ kind = ref.kind /\ year = ref.year
      BY <1>5, <1>11, <2>1, <2>3
    <3>2. Issued(kind, year)' = Issued(kind, year) \cup {last}
      BY <1>12, <3>1
    <3>3. \A j \in Issued(kind, year)' : j <= i
      BY <1>4, <1>7, <2>3, <3>2 DEF Issued
    <3>4. {j \in Issued(kind, year)' : j <= i} = Issued(kind, year) \cup {last}
      BY <3>2, <3>3
    <3>5. Cardinality(Issued(kind, year) \cup {last}) = Cardinality(Issued(kind, year)) + 1
      BY <1>13
    <3>6. ref.n = Cardinality(Issued(kind, year)) + 1
      BY <1>1, <3>1
    <3>. QED
      BY <3>1, <3>4, <3>5, <3>6
  <2>. QED
    BY <1>7, <2>1, <2>2, <2>3
<1>17. ClosedClockStands'
  BY <1>5, <1>7, <1>11 DEF DeskInv, ClosedClockStands
<1>. QED
  BY <1>9, <1>10, <1>14, <1>15, <1>16, <1>17 DEF DeskInv

\* What a hop writes to its ticket.
LEMMA StampWrites ==
    ASSUME NEW t \in Ticket, NEW r \in MoveRequest, NEW now \in Nat
    PROVE  LET s == Stamp(t, r, now)
           IN  /\ s \in Ticket /\ s.ref = t.ref
               /\ s.first_response_at = IF r.answered THEN t.first_response_at ELSE now
               /\ s.closed => s.closed_at = now
  BY DEF Stamp, Ticket, MoveRequest

LEMMA MoveCommitStep == ASSUME DeskInv, NEW q \in Request, MoveCommit(q) PROVE DeskInv'
<1>. DEFINE r == requests[q]
            i == r.of
            first == tickets[i].first_response_at
<1>1. r \in MoveRequest /\ i \in Index /\ r.read \in Nat /\ r.read <= clock
  <2>1. r \in MoveRequest
    BY DEF MoveCommit, DeskInv, DeskTypes, Idle, CreateRequest
  <2>. QED
    BY <2>1 DEF MoveRequest, MoveCommit, DeskInv, DeskClocks
<1>2. PICK now \in r.read .. clock :
        /\ tickets' = [tickets EXCEPT ![i] = Stamp(@, r, now)]
        /\ moved' = [moved EXCEPT ![i] = IF @ = Never \/ now < @ THEN now ELSE @]
  BY DEF MoveCommit
<1>3. now \in Nat /\ r.read <= now /\ now <= clock /\ clock \in Nat /\ now # Never
  BY <1>1, DeskAssumption DEF DeskInv, DeskTypes
<1>4. /\ requests' = [requests EXCEPT ![q] = Idle] /\ UNCHANGED <<clock, target>>
      /\ raced' = IF ~r.answered /\ first # Never THEN raced \cup {i} ELSE raced
  BY DEF MoveCommit, End
<1>. DEFINE s == Stamp(tickets[i], r, now)
<1>5. tickets[i] \in Ticket /\ first \in Nat \cup {Never} /\ i \in 1 .. Len(tickets)
  BY <1>1, TicketTyped DEF DeskInv
<1>6. /\ s \in Ticket /\ s.ref = tickets[i].ref
      /\ s.first_response_at = IF r.answered THEN first ELSE now
      /\ s.closed => s.closed_at = now
  BY <1>1, <1>3, <1>5, StampWrites
<1>7. /\ tickets' \in Seq(Ticket) /\ Len(tickets') = Len(tickets) /\ Index' = Index
      /\ tickets'[i] = s /\ \A o \in Index \ {i} : tickets'[o] = tickets[o]
  <2>. HIDE DEF s
  <2>1. tickets' = [tickets EXCEPT ![i] = s]
    BY <1>2 DEF s
  <2>. QED
    BY <1>1, <1>6, <2>1 DEF DeskInv, DeskTypes, Index
<1>. HIDE DEF s
<1>8. /\ moved' \in Seq(Nat \cup {Never}) /\ Len(moved') = Len(tickets)
      /\ moved'[i] = IF moved[i] = Never \/ now < moved[i] THEN now ELSE moved[i]
      /\ \A o \in Index \ {i} : moved'[o] = moved[o]
  BY <1>2, <1>3, <1>5 DEF DeskInv, DeskTypes, Index
<1>9. /\ requests'[q] = Idle /\ requests' \in [Request -> {Idle} \cup CreateRequest \cup MoveRequest]
      /\ \A o \in Request \ {q} : requests'[o] = requests[o]
  BY <1>4 DEF DeskInv, DeskTypes
<1>10. DeskTypes'
  BY <1>1, <1>4, <1>7, <1>8, <1>9 DEF DeskInv, DeskTypes
<1>11. /\ NumbersRunOn' /\ \A kind, year : Issued(kind, year)' = Issued(kind, year)
  <2>1. \A o \in Index : tickets'[o].ref = tickets[o].ref
    BY <1>6, <1>7
  <2>. QED
    BY <1>7, <1>10, <2>1, SameRefs
<1>12. Counted'
  BY <1>9, <1>11 DEF DeskInv, Counted, Idle
<1>13. \A o \in Request : requests'[o].op = "move" => requests'[o] = requests[o]
  BY <1>9 DEF Idle
<1>14. DeskClocks'
  <2>1. \A o \in Index : tickets'[o].first_response_at # Never => tickets'[o].first_response_at <= clock
    BY <1>3, <1>6, <1>7, <1>1 DEF DeskInv, DeskClocks
  <2>2. \A o \in Request : requests'[o].op = "move" => requests'[o].of \in Index /\ requests'[o].read <= clock
    BY <1>13 DEF DeskInv, DeskClocks
  <2>. QED
    BY <1>4, <1>7, <2>1, <2>2 DEF DeskClocks
<1>15. r.answered /\ i \notin raced => moved[i] = first /\ first # Never /\ first <= r.read
  BY <1>1 DEF DeskInv, FirstMove, MoveCommit
<1>16. i \notin raced => first = moved[i]
  BY <1>1 DEF DeskInv, FirstMove
<1>17. i \notin raced' => s.first_response_at = moved'[i] /\ (first # Never => s.first_response_at = first)
  <2>1. SUFFICES ASSUME i \notin raced'
                 PROVE  s.first_response_at = moved'[i] /\ (first # Never => s.first_response_at = first)
    OBVIOUS
  <2>2. i \notin raced /\ (r.answered \/ first = Never)
    BY <1>4, <2>1
  <2>3. CASE r.answered
    <3>1. moved[i] = first /\ first # Never /\ first \in Nat /\ first <= now
      BY <1>1, <1>3, <1>5, <1>15, <2>2, <2>3
    <3>2. moved'[i] = first
      BY <1>3, <1>8, <3>1
    <3>. QED
      BY <1>6, <2>3, <3>2
  <2>4. CASE ~r.answered
    <3>1. first = Never /\ moved[i] = Never
      BY <1>16, <2>2, <2>4
    <3>. QED
      BY <1>6, <1>8, <2>4, <3>1
  <2>. QED
    BY <2>3, <2>4
<1>18. raced \subseteq raced'
  BY <1>4
<1>19. FirstMove'
  <2>1. \A o \in Index' \ raced' : tickets'[o].first_response_at = moved'[o]
    BY <1>7, <1>8, <1>17, <1>18 DEF DeskInv, FirstMove
  <2>2. ASSUME NEW o \in Request, requests'[o].op = "move", requests'[o].answered, requests'[o].of \notin raced'
        PROVE  /\ tickets'[requests'[o].of].first_response_at # Never
               /\ tickets'[requests'[o].of].first_response_at <= requests'[o].read
    <3>1. requests'[o] = requests[o] /\ requests[o].of \in Index
      BY <1>13, <2>2 DEF DeskInv, DeskClocks
    <3>2. /\ tickets[requests[o].of].first_response_at # Never
          /\ tickets[requests[o].of].first_response_at <= requests[o].read
      BY <1>18, <2>2, <3>1 DEF DeskInv, FirstMove
    <3>3. tickets'[requests[o].of].first_response_at = tickets[requests[o].of].first_response_at
      BY <1>7, <1>17, <2>2, <3>1, <3>2
    <3>. QED
      BY <3>1, <3>2, <3>3
  <2>. QED
    BY <2>1, <2>2 DEF FirstMove
<1>20. ClosedClockStands'
  BY <1>3, <1>6, <1>7 DEF DeskInv, ClosedClockStands
<1>. QED
  BY <1>10, <1>11, <1>12, <1>14, <1>19, <1>20 DEF DeskInv

LEMMA DeskStep == ASSUME DeskInv, [Next]_vars PROVE DeskInv'
<1>1. CASE Tick \/ CreateDepartment \/ UpdateDepartment \/ \E minutes \in Minutes : UpsertSla(minutes)
  BY <1>1, AroundStep
<1>2. ASSUME NEW q \in Request, NEW kind \in Kind, CreateRead(q, kind) PROVE DeskInv'
  BY <1>2, CreateReadStep
<1>3. ASSUME NEW q \in Request, NEW i \in Index, NEW close \in BOOLEAN, MoveRead(q, i, close) PROVE DeskInv'
  BY <1>3, MoveReadStep
<1>4. ASSUME NEW q \in Request, CreateCommit(q) \/ MoveCommit(q) \/ Abort(q) PROVE DeskInv'
  BY <1>4, CreateCommitStep, MoveCommitStep, AbortDeskStep
<1>5. CASE UNCHANGED vars
  BY <1>5, ClockRuns, QuietDeskStep DEF vars
<1>. QED
  BY <1>1, <1>2, <1>3, <1>4, <1>5 DEF Next

LEMMA DeskInvariant == Spec => []DeskInv
  BY DeskInitially, DeskStep, PTL DEF Spec

\* refs.py: the n-th ticket stored of a kind and a year has number n, however many creations
\* count the same rows, fail and straddle the turn of the year.
THEOREM NumbersHold == Spec => []NumbersRunOn
<1>1. DeskInv => NumbersRunOn
  BY DEF DeskInv
<1>. QED
  BY <1>1, DeskInvariant, PTL

\* sla.py: a moved ticket is shown in breach if and only if its first move came too late, and
\* a closed ticket has the instant it was closed at.
THEOREM ClocksHold == Spec => []ClocksRight
<1>1. DeskInv => FirstMoveCounts
  <2>1. SUFFICES ASSUME DeskInv, NEW i \in Index \ raced, moved[i] # Never, Targeted
                 PROVE  ResponseBreached(tickets[i]) <=> moved[i] > tickets[i].created_at + target
    BY DEF FirstMoveCounts
  <2>2. tickets[i].first_response_at = moved[i] /\ moved[i] \in Nat
    BY <2>1, TicketTyped DEF DeskInv, FirstMove
  <2>3. tickets[i].created_at \in Nat /\ target \in Nat
    BY <2>1, TicketTyped, DeskAssumption DEF DeskInv, DeskTypes, Ticket, Targeted
  <2>. QED
    BY <2>1, <2>2, <2>3 DEF ResponseBreached, Exceeds
<1>2. DeskInv => ClocksRight
  BY <1>1 DEF DeskInv, ClocksRight
<1>. QED
  BY <1>2, DeskInvariant, PTL

-----------------------------------------------------------------------------
(* Routing                                                                 *)

Answer == [source : {"rule", "chain", "default", "none"}, approver : Person \cup {Nobody},
           approvers : Seq(Person \cup {Nobody}), mode : {"sequence", "any_of"}]
Walker == [stage : {"walking"}, kind : {"create", "preview"}, by : Person, quiet : BOOLEAN,
           at : Person \cup {Nobody}, seen : Seq(Person), found : Person \cup {Nobody}]
Answered == [stage : {"routed"}, kind : {"create", "preview"}, by : Person, quiet : BOOLEAN, to : Answer]

ChartTypes ==
    /\ rules \in Seq(ARule) /\ default \in Person \cup {Nobody}
    /\ manager \in [Person -> Person \cup {Nobody}] /\ qualified \subseteq Person

RoutesTypes == ChartTypes /\ callers \in [Caller -> {NotAsking} \cup Walker \cup Answered]

\* What has been seen is the chain of managers so far, and the next is to be read.
Climbed(r) ==
    /\ Len(r.seen) <= MaxChain
    /\ \A k \in DOMAIN r.seen : r.seen[k] = IF k = 1 THEN r.by ELSE manager[r.seen[k - 1]]
    /\ r.at = IF Len(r.seen) = 0 THEN r.by ELSE manager[r.seen[Len(r.seen)]]

\* The first who qualifies of those seen has been found.
Picked(r) ==
    \/ r.found = Nobody /\ \A k \in DOMAIN r.seen : r.seen[k] \notin qualified \ {r.by}
    \/ \E k \in DOMAIN r.seen :
         /\ r.found = r.seen[k] /\ r.found \in qualified \ {r.by}
         /\ \A j \in 1 .. k - 1 : r.seen[j] \notin qualified \ {r.by}

\* Whoever walks undisturbed has no rule to go by, and is right so far; who is routed is right.
RightSoFar(r) ==
    /\ (r.stage = "walking" /\ r.quiet) => Naming(r.by) = {} /\ Climbed(r) /\ Picked(r)
    /\ (/\ r.stage = "routed" /\ r.quiet
        /\ r.kind = "create" \/ r.to.approver # Nobody \/ r.to.source # "rule") => Right(r.to, r.by)

RoutesInv == RoutesTypes /\ \A q \in Caller : RightSoFar(callers[q])

\* The order of the rules is told by numbers: the rule that is best is the one that governs.
LEMMA BestGoverns ==
    ASSUME ChartTypes, NEW i \in DOMAIN rules
    PROVE  IsBest(i) <=> Governs(i)
<1>1. \A j \in DOMAIN rules : j \in Nat /\ Cardinality(rules[j].pinned) \in Nat
  <2>1. SUFFICES ASSUME NEW j \in DOMAIN rules PROVE j \in Nat /\ Cardinality(rules[j].pinned) \in Nat
    OBVIOUS
  <2>2. j \in Nat /\ rules[j] \in ARule
    BY DEF ChartTypes
  <2>3. rules[j].pinned \in SUBSET Axis
    BY <2>2 DEF ARule
  <2>4. IsFiniteSet(Axis)
    <3>1. IsFiniteSet({"department", "category"} \cup {"priority"})
      <4>1. IsFiniteSet({"department"} \cup {"category"})
        BY FS_Singleton, FS_AddElement
      <4>. QED
        BY <4>1, FS_AddElement
    <3>2. Axis = {"department", "category"} \cup {"priority"}
      BY DEF Axis
    <3>. QED
      BY <3>1, <3>2
  <2>. QED
    BY <2>2, <2>3, <2>4, FS_Subset, FS_CardinalityType
<1>. QED
  BY <1>1 DEF IsBest, Matching, Goes, Governs

\* The first of a rule's list who is not the requester is not the requester.
LEMMA FirstOther ==
    ASSUME NEW approvers \in Seq(Person), NEW p, Others(approvers, p) # {}
    PROVE  /\ First(Others(approvers, p)) \in DOMAIN approvers
           /\ approvers[First(Others(approvers, p))] \in Range(approvers) \ {p}
<1>1. Others(approvers, p) \in SUBSET Nat
  BY DEF Others
<1>2. \E n \in Others(approvers, p) : \A m \in Others(approvers, p) : n <= m
  BY <1>1, LeastOf
<1>3. First(Others(approvers, p)) \in Others(approvers, p)
  BY <1>2 DEF First
<1>. QED
  BY <1>3 DEF Others, Range

LEMMA RoutesInitially == ASSUME RoutesInit PROVE RoutesInv
  BY DEF RoutesInit, RoutesInv, RoutesTypes, ChartTypes, RightSoFar, NotAsking

\* An edit disturbs everybody who is at it.
LEMMA EditStep == ASSUME RoutesInv, ChartTypes', Edit PROVE RoutesInv'
<1>1. ASSUME NEW q \in Caller
      PROVE  /\ callers'[q] \in {NotAsking} \cup Walker \cup Answered
             /\ callers'[q].stage = "idle" \/ ~callers'[q].quiet
  <2>1. callers'[q] = IF callers[q] = NotAsking THEN NotAsking ELSE [callers[q] EXCEPT !.quiet = FALSE]
    BY DEF Edit
  <2>2. callers[q] \in {NotAsking} \cup Walker \cup Answered
    BY DEF RoutesInv, RoutesTypes
  <2>. QED
    <3>. DEFINE r == [callers[q] EXCEPT !.quiet = FALSE]
    <3>1. CASE callers[q] = NotAsking
      BY <2>1, <3>1 DEF NotAsking
    <3>2. CASE callers[q] # NotAsking /\ callers[q] \in Walker
      <4>1. r \in Walker /\ ~r.quiet
        BY <3>2 DEF Walker
      <4>. QED
        BY <2>1, <3>2, <4>1
    <3>3. CASE callers[q] # NotAsking /\ callers[q] \in Answered
      <4>1. r \in Answered /\ ~r.quiet
        BY <3>3 DEF Answered
      <4>. QED
        BY <2>1, <3>3, <4>1
    <3>. QED
      BY <2>2, <3>1, <3>2, <3>3
<1>2. callers' \in [Caller -> {NotAsking} \cup Walker \cup Answered]
  BY <1>1 DEF Edit
<1>3. \A q \in Caller : RightSoFar(callers[q])'
  BY <1>1 DEF RightSoFar
<1>. QED
  BY <1>2, <1>3 DEF RoutesInv, RoutesTypes

LEMMA EditsStep ==
    ASSUME RoutesInv,
           \/ \E rule \in Rule : CreateRule(rule) \/ \E i \in DOMAIN rules : UpdateRule(i, rule)
           \/ \E i \in DOMAIN rules : DeleteRule(i)
           \/ \E p \in Person : SetDefault(p) \/ SetLevel(p)
           \/ \E p \in Person, m \in Person \cup {Nobody} : SetManager(p, m)
    PROVE  RoutesInv'
<1>. USE RoutingAssumption
<1>1. ChartTypes
  BY DEF RoutesInv, RoutesTypes
<1>2. ASSUME NEW rule \in Rule, CreateRule(rule) PROVE ChartTypes' /\ Edit
  BY <1>1, <1>2 DEF CreateRule, ChartTypes
<1>3. ASSUME NEW rule \in Rule, NEW i \in DOMAIN rules, UpdateRule(i, rule) PROVE ChartTypes' /\ Edit
  BY <1>1, <1>3 DEF UpdateRule, ChartTypes
<1>4. ASSUME NEW i \in DOMAIN rules, DeleteRule(i) PROVE ChartTypes' /\ Edit
  <2>1. rules \in Seq(ARule) /\ i \in 1 .. Len(rules) /\ Len(rules) \in Nat
    BY <1>1 DEF ChartTypes
  <2>2. SubSeq(rules, 1, i - 1) \in Seq(ARule) /\ SubSeq(rules, i + 1, Len(rules)) \in Seq(ARule)
    BY <2>1, SubSeqProperties
  <2>3. rules' \in Seq(ARule)
    BY <1>4, <2>2 DEF DeleteRule
  <2>. QED
    BY <1>1, <1>4, <2>3 DEF DeleteRule, ChartTypes
<1>5. ASSUME NEW p \in Person, SetDefault(p) \/ SetLevel(p) PROVE ChartTypes' /\ Edit
  BY <1>1, <1>5 DEF SetDefault, SetLevel, ChartTypes
<1>6. ASSUME NEW p \in Person, NEW m \in Person \cup {Nobody}, SetManager(p, m) PROVE ChartTypes' /\ Edit
  BY <1>1, <1>6 DEF SetManager, ChartTypes
<1>. QED
  BY <1>2, <1>3, <1>4, <1>5, <1>6, EditStep

\* What is said of a request is said of what it has read and of the chart.
LEMMA ChartRests ==
    ASSUME UNCHANGED <<rules, default, manager, qualified>>, NEW s
    PROVE  RightSoFar(s)' <=> RightSoFar(s)
<1>1. \A p : Naming(p)' = Naming(p)
  BY DEF Naming, Governs
<1>2. (Climbed(s)' <=> Climbed(s)) /\ (Picked(s)' <=> Picked(s))
  BY DEF Climbed, Picked
<1>3. \A p, a : Nearest(p, a)' <=> Nearest(p, a)
  BY DEF Nearest, Chain
<1>4. \A to, p : Right(to, p)' <=> Right(to, p)
  BY <1>1, <1>3 DEF Right
<1>. QED
  BY <1>1, <1>2, <1>4 DEF RightSoFar

\* A step of one request at most.
LEMMA CallersStep ==
    ASSUME RoutesInv, UNCHANGED <<rules, default, manager, qualified>>,
           callers' \in [Caller -> {NotAsking} \cup Walker \cup Answered],
           \A o \in Caller : callers'[o] = callers[o] \/ \E s : callers'[o] = s /\ RightSoFar(s)
    PROVE  RoutesInv'
<1>1. RoutesTypes'
  BY DEF RoutesInv, RoutesTypes, ChartTypes
<1>2. SUFFICES ASSUME NEW o \in Caller, NEW s, s = callers'[o]
               PROVE  RightSoFar(s)'
  BY <1>1 DEF RoutesInv, RightSoFar, Right, Naming, Governs, Nearest, Chain, Climbed, Picked
<1>3. RightSoFar(s)
  BY <1>2 DEF RoutesInv
<1>. QED
  BY <1>3, ChartRests

LEMMA OneStep ==
    ASSUME RoutesInv, UNCHANGED <<rules, default, manager, qualified>>,
           NEW q \in Caller, NEW r \in {NotAsking} \cup Walker \cup Answered,
           callers' = [callers EXCEPT ![q] = r], RightSoFar(r)
    PROVE  RoutesInv'
<1>1. callers'[q] = r /\ \A o \in Caller \ {q} : callers'[o] = callers[o]
  BY DEF RoutesInv, RoutesTypes
<1>2. callers' \in [Caller -> {NotAsking} \cup Walker \cup Answered]
  BY DEF RoutesInv, RoutesTypes
<1>. QED
  BY <1>1, <1>2, CallersStep

LEMMA StartStep ==
    ASSUME RoutesInv, NEW q \in Caller, NEW kind \in {"create", "preview"}, NEW p \in Person, Start(q, kind, p)
    PROVE  RoutesInv'
<1>. USE RoutingAssumption
<1>1. ChartTypes /\ UNCHANGED <<rules, default, manager, qualified>>
  BY DEF RoutesInv, RoutesTypes, Start
<1>2. ASSUME NEW i \in DOMAIN rules, Decides(i, kind, p),
             callers' = [callers EXCEPT ![q] =
                 [stage |-> "routed", kind |-> kind, by |-> p, quiet |-> TRUE, to |-> ByRule(i, p)]]
      PROVE  RoutesInv'
  <2>. DEFINE to == ByRule(i, p)
              r == [stage |-> "routed", kind |-> kind, by |-> p, quiet |-> TRUE, to |-> to]
              others == Others(rules[i].approvers, p)
  <2>1. rules[i].approvers \in Seq(Person) /\ rules[i].mode \in {"sequence", "any_of"}
    <3>1. rules[i] \in ARule
      BY <1>1 DEF ChartTypes
    <3>. QED
      BY <3>1 DEF ARule
  <2>2. /\ to.source = "rule" /\ to.approvers = rules[i].approvers /\ to.mode = rules[i].mode
        /\ to.approver = IF others = {} THEN Nobody ELSE rules[i].approvers[First(others)]
    BY DEF ByRule
  <2>3. others # {} => to.approver \in Range(to.approvers) \ {p}
    BY <2>1, <2>2, FirstOther
  <2>4. to.approver \in Person \cup {Nobody}
    BY <2>1, <2>2, <2>3 DEF Range
  <2>5. to \in Answer
    BY <2>1, <2>2, <2>4 DEF ByRule, Answer
  <2>6. r \in Answered
    <3>. HIDE DEF to
    <3>. QED
      BY <2>5 DEF Answered
  <2>7. others # {} => i \in Naming(p)
    BY <1>1, <1>2, BestGoverns DEF Decides, Naming
  <2>8. (kind = "create" \/ to.approver # Nobody \/ to.source # "rule") => Right(to, p)
    <3>1. SUFFICES ASSUME kind = "create" \/ to.approver # Nobody PROVE Right(to, p)
      BY <2>2
    <3>2. others # {}
      BY <1>2, <2>2, <3>1 DEF Decides
    <3>. QED
      BY <2>2, <2>3, <2>7, <3>2 DEF Right
  <2>. HIDE DEF to
  <2>9. /\ r.stage = "routed" /\ r.kind = kind /\ r.by = p /\ r.to = to
    OBVIOUS
  <2>10. callers' = [callers EXCEPT ![q] = r]
    BY <1>2 DEF to
  <2>. HIDE DEF r
  <2>. QED
    BY <1>1, <2>6, <2>8, <2>9, <2>10, OneStep DEF RightSoFar
<1>3. ASSUME \A i \in DOMAIN rules : ~Decides(i, kind, p),
             callers' = [callers EXCEPT ![q] =
               [stage |-> "walking", kind |-> kind, by |-> p, quiet |-> TRUE,
                at |-> p, seen |-> <<>>, found |-> Nobody]]
      PROVE  RoutesInv'
  <2>. DEFINE r == [stage |-> "walking", kind |-> kind, by |-> p, quiet |-> TRUE,
                    at |-> p, seen |-> <<>>, found |-> Nobody]
  <2>1. Naming(p) = {}
    BY <1>1, <1>3, BestGoverns DEF Decides, Naming
  <2>2. r \in Walker
    BY DEF Walker
  <2>3. Climbed(r) /\ Picked(r)
    BY DEF Climbed, Picked
  <2>4. r.stage = "walking" /\ r.by = p
    OBVIOUS
  <2>5. callers' = [callers EXCEPT ![q] = r]
    BY <1>3
  <2>. HIDE DEF r
  <2>. QED
    BY <1>1, <2>1, <2>2, <2>3, <2>4, <2>5, OneStep DEF RightSoFar
<1>. QED
  BY <1>2, <1>3 DEF Start

\* Another employee is read.
LEMMA WalkStep == ASSUME RoutesInv, NEW q \in Caller, Walk(q) PROVE RoutesInv'
<1>. USE RoutingAssumption
<1>. DEFINE r == callers[q]
            s == [r EXCEPT !.found = Chosen(r), !.seen = Append(@, r.at), !.at = manager[r.at]]
            last == Len(r.seen) + 1
<1>1. ChartTypes /\ UNCHANGED <<rules, default, manager, qualified>> /\ callers' = [callers EXCEPT ![q] = s]
  BY DEF RoutesInv, RoutesTypes, Walk
<1>2. r \in Walker /\ r.at \in Person /\ Len(r.seen) < MaxChain
  BY DEF RoutesInv, RoutesTypes, Walk, MoreToRead, Walker, Answered, NotAsking
<1>3. r.seen \in Seq(Person) /\ Len(r.seen) \in Nat /\ r.found \in Person \cup {Nobody} /\ r.by \in Person
  BY <1>2 DEF Walker
<1>4. /\ s.stage = "walking" /\ s.kind = r.kind /\ s.by = r.by /\ s.quiet = r.quiet
      /\ s.found = Chosen(r) /\ s.seen = Append(r.seen, r.at) /\ s.at = manager[r.at]
  BY <1>2 DEF Walker
<1>5. Chosen(r) \in Person \cup {Nobody}
  BY <1>2, <1>3 DEF Chosen
<1>6. s \in Walker
  <2>1. manager[r.at] \in Person \cup {Nobody} /\ Append(r.seen, r.at) \in Seq(Person)
    BY <1>1, <1>2, <1>3 DEF ChartTypes
  <2>. QED
    BY <1>2, <1>5, <2>1 DEF Walker
<1>7. /\ Len(s.seen) = last /\ s.seen[last] = r.at /\ DOMAIN s.seen = 1 .. last /\ last \in Nat
      /\ \A k \in DOMAIN r.seen : k \in 1 .. Len(r.seen) /\ s.seen[k] = r.seen[k]
      /\ DOMAIN r.seen = 1 .. Len(r.seen)
  BY <1>2, <1>3, <1>4
<1>. HIDE DEF s
<1>8. ASSUME r.quiet PROVE Naming(s.by) = {} /\ Climbed(s) /\ Picked(s)
  <2>1. Naming(r.by) = {} /\ Climbed(r) /\ Picked(r)
    BY <1>2, <1>8 DEF RoutesInv, RightSoFar, Walker
  <2>2. Climbed(s)
    <3>1. Len(s.seen) <= MaxChain
      BY <1>2, <1>3, <1>7
    <3>2. ASSUME NEW k \in DOMAIN s.seen
          PROVE  s.seen[k] = IF k = 1 THEN s.by ELSE manager[s.seen[k - 1]]
      <4>1. CASE k \in DOMAIN r.seen
        <5>1. s.seen[k] = r.seen[k] /\ (k # 1 => k - 1 \in DOMAIN r.seen /\ s.seen[k - 1] = r.seen[k - 1])
          BY <1>3, <1>7, <4>1
        <5>. QED
          BY <1>4, <2>1, <4>1, <5>1 DEF Climbed
      <4>2. CASE k = last
        <5>1. s.seen[k] = IF Len(r.seen) = 0 THEN r.by ELSE manager[r.seen[Len(r.seen)]]
          BY <1>7, <2>1, <4>2 DEF Climbed
        <5>2. k = 1 <=> Len(r.seen) = 0
          BY <1>3, <4>2
        <5>3. k # 1 => k - 1 = Len(r.seen) /\ s.seen[k - 1] = r.seen[Len(r.seen)]
          BY <1>3, <1>7, <4>2
        <5>. QED
          BY <1>4, <5>1, <5>2, <5>3
      <4>. QED
        BY <1>3, <1>7, <4>1, <4>2
    <3>3. s.at = manager[s.seen[Len(s.seen)]] /\ Len(s.seen) # 0
      BY <1>3, <1>4, <1>7
    <3>. QED
      BY <3>1, <3>2, <3>3 DEF Climbed
  <2>3. Picked(s)
    <3>1. CASE r.found = Nobody
      <4>1. \A k \in DOMAIN r.seen : r.seen[k] \notin qualified \ {r.by}
        BY <1>1, <2>1, <3>1 DEF Picked, ChartTypes
      <4>2. CASE r.at \in qualified \ {r.by}
        <5>1. s.found = s.seen[last] /\ s.found \in qualified \ {s.by}
          BY <1>4, <1>7, <3>1, <4>2 DEF Chosen
        <5>2. \A j \in 1 .. last - 1 : s.seen[j] \notin qualified \ {s.by}
          BY <1>3, <1>4, <1>7, <4>1
        <5>3. last \in DOMAIN s.seen
          BY <1>3, <1>7
        <5>. QED
          BY <5>1, <5>2, <5>3 DEF Picked
      <4>3. CASE r.at \notin qualified \ {r.by}
        <5>1. s.found = Nobody
          BY <1>4, <3>1, <4>3 DEF Chosen
        <5>2. \A k \in DOMAIN s.seen : k \in DOMAIN r.seen \/ k = last
          BY <1>3, <1>7
        <5>3. \A k \in DOMAIN s.seen : s.seen[k] \notin qualified \ {s.by}
          BY <1>4, <1>7, <4>1, <4>3, <5>2
        <5>. QED
          BY <5>1, <5>3 DEF Picked
      <4>. QED
        BY <4>2, <4>3
    <3>2. CASE r.found # Nobody
      <4>1. PICK k \in DOMAIN r.seen :
              /\ r.found = r.seen[k] /\ r.found \in qualified \ {r.by}
              /\ \A j \in 1 .. k - 1 : r.seen[j] \notin qualified \ {r.by}
        BY <2>1, <3>2 DEF Picked
      <4>2. s.found = r.found
        BY <1>4, <3>2 DEF Chosen
      <4>3. k \in DOMAIN s.seen /\ s.seen[k] = r.seen[k] /\ \A j \in 1 .. k - 1 : s.seen[j] = r.seen[j]
        BY <1>3, <1>7
      <4>. QED
        BY <1>4, <4>1, <4>2, <4>3 DEF Picked
    <3>. QED
      BY <3>1, <3>2
  <2>. QED
    BY <1>4, <2>1, <2>2, <2>3
<1>. QED
  BY <1>1, <1>4, <1>6, <1>8, OneStep DEF RightSoFar

\* Who was found is the nearest: what has been seen is the path to them.
LEMMA FoundNearest ==
    ASSUME ChartTypes, NEW r \in Walker, Climbed(r), Picked(r), r.found # Nobody
    PROVE  Nearest(r.by, r.found)
<1>1. PICK k \in DOMAIN r.seen :
        /\ r.found = r.seen[k] /\ r.found \in qualified \ {r.by}
        /\ \A j \in 1 .. k - 1 : r.seen[j] \notin qualified \ {r.by}
  BY DEF Picked
<1>2. r.seen \in Seq(Person) /\ Len(r.seen) \in Nat /\ DOMAIN r.seen = 1 .. Len(r.seen) /\ Len(r.seen) <= MaxChain
  BY DEF Walker, Climbed
<1>3. k \in 1 .. Len(r.seen) /\ k # 1
  BY <1>1, <1>2 DEF Climbed
<1>. DEFINE n == k - 1
            path == [j \in 0 .. n |-> r.seen[j + 1]]
<1>4. n \in 1 .. MaxChain - 1
  BY <1>2, <1>3, RoutingAssumption
<1>5. \A j \in 0 .. n : j + 1 \in DOMAIN r.seen /\ r.seen[j + 1] \in Person
  BY <1>2, <1>3
<1>6. path \in [0 .. n -> Person]
  BY <1>5
<1>7. path[0] = r.by
  BY <1>4, <1>5 DEF Climbed
<1>8. ASSUME NEW j \in 1 .. n PROVE path[j] = manager[path[j - 1]]
  <2>1. j \in 0 .. n /\ j - 1 \in 0 .. n /\ (j - 1) + 1 = j /\ (j + 1) - 1 = j /\ j + 1 # 1
    BY <1>4
  <2>2. r.seen[j + 1] = manager[r.seen[(j + 1) - 1]]
    BY <1>5, <2>1 DEF Climbed
  <2>. QED
    BY <2>1, <2>2
<1>9. path[n] = r.found
  BY <1>1, <1>3, <1>4
<1>10. \A j \in 1 .. n - 1 : path[j] \notin qualified \ {r.by}
  <2>1. SUFFICES ASSUME NEW j \in 1 .. n - 1 PROVE path[j] \notin qualified \ {r.by}
    OBVIOUS
  <2>2. j \in 0 .. n /\ j + 1 \in 1 .. k - 1
    BY <1>3
  <2>. QED
    BY <1>1, <2>2
<1>11. path \in Chain(r.by, n)
  <2>. HIDE DEF path, n
  <2>. QED
    BY <1>6, <1>7, <1>8 DEF Chain
<1>. HIDE DEF path, n
<1>. QED
  BY <1>1, <1>4, <1>9, <1>10, <1>11 DEF Nearest

\* Where a walk has ended with nobody, nobody above qualifies within the chain: a path that
\* is no longer than the chain has been seen from end to end, and so has any path when the
\* walk has come to the top or round in a circle.
LEMMA NobodyNearest ==
    ASSUME ChartTypes, NEW r \in Walker, Climbed(r), Picked(r), r.found = Nobody, ~MoreToRead(r),
           NEW a \in Person
    PROVE  ~Nearest(r.by, a)
<1>. USE RoutingAssumption
<1>1. SUFFICES ASSUME NEW n \in 1 .. (MaxChain - 1), NEW path \in Chain(r.by, n),
                      path[n] \in qualified \ {r.by}
               PROVE  FALSE
  BY DEF Nearest
<1>2. /\ r.seen \in Seq(Person) /\ Len(r.seen) \in Nat /\ DOMAIN r.seen = 1 .. Len(r.seen)
      /\ Len(r.seen) <= MaxChain /\ r.by \in Person /\ MaxChain \in Nat /\ n \in Nat
  BY DEF Walker, Climbed
<1>3. \A k \in DOMAIN r.seen : r.seen[k] \notin qualified \ {r.by}
  BY DEF Picked, ChartTypes
<1>4. Len(r.seen) # 0
  BY <1>2 DEF MoreToRead, Climbed, Range
<1>5. /\ path[0] = r.by /\ \A k \in 0 .. n : path[k] \in Person
      /\ \A k \in 1 .. n : path[k] = manager[path[k - 1]]
  BY DEF Chain
<1>6. 1 \in DOMAIN r.seen /\ r.seen[1] = r.by
  <2>1. 1 \in DOMAIN r.seen
    BY <1>2, <1>4
  <2>. QED
    BY <2>1 DEF Climbed
<1>7. ASSUME NEW k \in DOMAIN r.seen
      PROVE  manager[r.seen[k]] = IF k = Len(r.seen) THEN r.at ELSE r.seen[k + 1]
  <2>1. k # Len(r.seen) => k + 1 \in DOMAIN r.seen /\ k + 1 # 1 /\ (k + 1) - 1 = k
    BY <1>2
  <2>. QED
    BY <1>4, <2>1 DEF Climbed
<1>8. CASE r.at = Nobody \/ r.at \in Range(r.seen)
  <2>. DEFINE Unseen == {k \in 0 .. n : path[k] \notin Range(r.seen)}
  <2>1. n \in Unseen
    BY <1>1, <1>2, <1>3 DEF Range
  <2>2. PICK m \in Unseen : \A k \in Unseen : m <= k
    <3>1. Unseen \in SUBSET Nat /\ Unseen # {}
      BY <2>1
    <3>. QED
      BY <3>1, LeastOf
  <2>3. m # 0
    BY <1>5, <1>6, <2>2 DEF Range
  <2>4. m \in 1 .. n /\ m - 1 \in 0 .. n /\ m - 1 \notin Unseen
    BY <1>2, <2>2, <2>3
  <2>5. PICK k \in DOMAIN r.seen : r.seen[k] = path[m - 1]
    BY <2>4 DEF Range
  <2>6. path[m] = (IF k = Len(r.seen) THEN r.at ELSE r.seen[k + 1]) /\ path[m] \in Person
    BY <1>5, <1>7, <2>4, <2>5
  <2>7. k # Len(r.seen) => k + 1 \in DOMAIN r.seen
    BY <1>2, <2>5
  <2>. QED
    BY <1>8, <2>2, <2>6, <2>7 DEF Range
<1>9. CASE Len(r.seen) = MaxChain
  <2>. DEFINE Off == {k \in 0 .. n : path[k] # r.seen[k + 1]}
  <2>1. n + 1 \in DOMAIN r.seen
    BY <1>2, <1>9
  <2>2. n \in Off
    BY <1>1, <1>2, <1>3, <2>1
  <2>3. PICK m \in Off : \A k \in Off : m <= k
    <3>1. Off \in SUBSET Nat /\ Off # {}
      BY <2>2
    <3>. QED
      BY <3>1, LeastOf
  <2>4. m # 0
    BY <1>5, <1>6, <2>3
  <2>5. m \in 1 .. n /\ m - 1 \in 0 .. n /\ m - 1 \notin Off /\ (m - 1) + 1 = m
    BY <1>2, <2>3, <2>4
  <2>6. path[m - 1] = r.seen[m] /\ m \in DOMAIN r.seen /\ m # Len(r.seen)
    BY <1>2, <1>9, <2>5
  <2>. QED
    BY <1>5, <1>7, <2>3, <2>5, <2>6
<1>. QED
  BY <1>2, <1>8, <1>9 DEF MoreToRead

LEMMA ArriveStep == ASSUME RoutesInv, NEW q \in Caller, Arrive(q) PROVE RoutesInv'
<1>. USE RoutingAssumption
<1>. DEFINE r == callers[q]
            to == IF r.found # Nobody THEN Routed("chain", r.found)
                  ELSE IF default # Nobody THEN Routed("default", default) ELSE Unrouted
            s == [stage |-> "routed", kind |-> r.kind, by |-> r.by, quiet |-> r.quiet, to |-> to]
<1>1. /\ ChartTypes /\ UNCHANGED <<rules, default, manager, qualified>>
      /\ callers' = [callers EXCEPT ![q] = s] /\ ~MoreToRead(r)
  BY DEF RoutesInv, RoutesTypes, Arrive
<1>2. r \in Walker
  BY DEF RoutesInv, RoutesTypes, Arrive, Answered, NotAsking
<1>3. r.found \in Person \cup {Nobody} /\ default \in Person \cup {Nobody}
  BY <1>1, <1>2 DEF Walker, ChartTypes
<1>4. to \in Answer
  <2>1. ASSUME NEW source \in {"chain", "default"}, NEW p \in Person PROVE Routed(source, p) \in Answer
    BY DEF Routed, Answer
  <2>2. Unrouted \in Answer
    BY DEF Unrouted, Answer
  <2>. QED
    BY <1>3, <2>1, <2>2
<1>5. /\ r.found # Nobody => to.source = "chain" /\ to.approver = r.found
      /\ r.found = Nobody => /\ to.source \in {"default", "none"} /\ to.approver = default
                             /\ to.source = "none" <=> default = Nobody
  BY DEF Routed, Unrouted
<1>. HIDE DEF to
<1>6. s \in Answered /\ s.stage = "routed" /\ s.to = to /\ s.by = r.by /\ s.quiet = r.quiet
  BY <1>2, <1>4 DEF Walker, Answered
<1>7. ASSUME r.quiet PROVE Right(to, r.by)
  <2>1. Naming(r.by) = {} /\ Climbed(r) /\ Picked(r)
    BY <1>2, <1>7 DEF RoutesInv, RightSoFar, Walker
  <2>2. CASE r.found # Nobody
    BY <1>1, <1>2, <1>5, <2>1, <2>2, FoundNearest DEF Right
  <2>3. CASE r.found = Nobody
    <3>1. \A a \in Person : ~Nearest(r.by, a)
      BY <1>1, <1>2, <2>1, <2>3, NobodyNearest
    <3>. QED
      BY <1>5, <2>1, <2>3, <3>1 DEF Right
  <2>. QED
    BY <2>2, <2>3
<1>. HIDE DEF s
<1>. QED
  BY <1>1, <1>6, <1>7, OneStep DEF RightSoFar

LEMMA RoutesStep == ASSUME RoutesInv, [RoutesNext]_routeVars PROVE RoutesInv'
<1>1. ASSUME NEW q \in Caller, Leave(q) PROVE RoutesInv'
  <2>1. /\ UNCHANGED <<rules, default, manager, qualified>> /\ callers' = [callers EXCEPT ![q] = NotAsking]
        /\ RightSoFar(NotAsking)
    BY <1>1 DEF Leave, NotAsking, RightSoFar
  <2>. QED
    BY <2>1, OneStep
<1>2. ASSUME NEW q \in Caller, Walk(q) \/ Arrive(q) PROVE RoutesInv'
  BY <1>2, WalkStep, ArriveStep
<1>3. ASSUME NEW q \in Caller, NEW kind \in {"create", "preview"}, NEW p \in Person, Start(q, kind, p)
      PROVE  RoutesInv'
  BY <1>3, StartStep
<1>4. CASE UNCHANGED routeVars
  <2>1. UNCHANGED <<rules, default, manager, qualified, callers>>
    BY <1>4 DEF routeVars
  <2>. QED
    BY <2>1, CallersStep DEF RoutesInv, RoutesTypes
<1>. QED
  BY <1>1, <1>2, <1>3, <1>4, EditsStep DEF RoutesNext

\* routing.py:4-7, "an explicit rule (most specific first) overrides the manager-chain walk;
\* where none matches, fall back to the chain; where the chain also fails, fall back to the
\* single configured ApprovalDefault": what is read in three places is that, for charts of any
\* size and shape, unless somebody edited meanwhile.
THEOREM RequestsRoutedRight == RoutesSpec => []RoutedRight
<1>1. RoutesInv => RoutedRight
  BY DEF RoutesInv, RightSoFar, RoutedRight
<1>. QED
  BY <1>1, RoutesInitially, RoutesStep, PTL DEF RoutesSpec

-----------------------------------------------------------------------------
(* Mails                                                                   *)

\* Who sleeps, or has just returned, holds nothing.
SleepersEmpty == \A r \in Retry : retries[r].stage = "asleep" => retries[r] = Asleep

Held(n) == delivered[n] > 0 \/ n \in sending \/ failed[n] > 0 \/ \E r \in Retry : retries[r].pending[n] > 0

MailsTypes ==
    /\ failed \in [Notice -> Nat] /\ delivered \in [Notice -> Nat] /\ announced \subseteq Notice
    /\ retries \in [Retry -> [stage : {"asleep", "copied", "sending"}, pending : [Notice -> Nat]]]

MailsInv == MailsTypes /\ SleepersEmpty /\ NoticesKept

LEMMA MailsInitially == ASSUME MailsInit PROVE MailsInv
  BY DEF MailsInit, MailsInv, MailsTypes, SleepersEmpty, NoticesKept, NoMail, Asleep

\* A step that lets go of no notice but those it excuses.
LEMMA KeptStep ==
    ASSUME MailsInv, MailsTypes', SleepersEmpty',
           \A n \in announced' \ excused' : (n \in announced \ excused => Held(n)) => Held(n)'
    PROVE  MailsInv'
  BY DEF MailsInv, NoticesKept, Held

\* A notice that fails is in the list again, and nothing that was delivered is taken back.
LEMMA FailsStep ==
    ASSUME MailsTypes, NEW n \in Notice, Fails(n)
    PROVE  /\ failed' \in [Notice -> Nat] /\ delivered' \in [Notice -> Nat] /\ failed'[n] > 0
           /\ \A m \in Notice : (failed[m] > 0 => failed'[m] > 0) /\ (delivered[m] > 0 => delivered'[m] > 0)
  BY DEF MailsTypes, Fails

LEMMA HandlerStep ==
    ASSUME MailsInv, NEW n \in Notice, Notify(n) \/ Sent(n) \/ NotSent(n)
    PROVE  MailsInv'
<1>. USE DEF MailsInv, MailsTypes
<1>1. CASE Notify(n)
  BY <1>1, KeptStep DEF Notify, SleepersEmpty, Held
<1>2. CASE Sent(n)
  <2>1. delivered' \in [Notice -> Nat] /\ delivered'[n] > 0 /\ \A m \in Notice \ {n} : delivered'[m] = delivered[m]
    BY <1>2 DEF Sent
  <2>. QED
    BY <1>2, <2>1, KeptStep DEF Sent, SleepersEmpty, Held
<1>3. CASE NotSent(n)
  BY <1>3, FailsStep, KeptStep DEF NotSent, SleepersEmpty, Held
<1>. QED
  BY <1>1, <1>2, <1>3

\* What a retry has taken is delivered, or back in the list.
LEMMA TakenStep ==
    ASSUME MailsInv, NEW r \in Retry, NEW n \in Notice, Resent(r, n) \/ NotResent(r, n)
    PROVE  MailsInv'
<1>. USE DEF MailsInv, MailsTypes
<1>1. /\ retries' \in [Retry -> [stage : {"asleep", "copied", "sending"}, pending : [Notice -> Nat]]]
      /\ \A o \in Retry : retries'[o].stage = retries[o].stage /\ (o # r => retries'[o] = retries[o])
      /\ retries[r].stage = "sending"
      /\ \A m \in Notice \ {n} : retries'[r].pending[m] = retries[r].pending[m]
  <2>1. retries' = [retries EXCEPT ![r].pending[n] = retries[r].pending[n] - 1]
        /\ retries[r].stage = "sending" /\ retries[r].pending[n] - 1 \in Nat
    BY DEF Resent, NotResent, Taken
  <2>2. [retries[r].pending EXCEPT ![n] = retries[r].pending[n] - 1] \in [Notice -> Nat]
    BY <2>1
  <2>. QED
    BY <2>1, <2>2
<1>2. SleepersEmpty'
  BY <1>1 DEF SleepersEmpty
<1>3. /\ failed' \in [Notice -> Nat] /\ delivered' \in [Notice -> Nat]
      /\ failed'[n] > 0 \/ delivered'[n] > 0
      /\ \A m \in Notice : (failed[m] > 0 => failed'[m] > 0) /\ (delivered[m] > 0 => delivered'[m] > 0)
  <2>1. CASE Resent(r, n)
    BY <2>1 DEF Resent
  <2>2. CASE NotResent(r, n)
    BY <2>2, FailsStep DEF NotResent
  <2>. QED
    BY <2>1, <2>2
<1>4. UNCHANGED <<sending, announced, excused>>
  BY DEF Resent, NotResent
<1>5. ASSUME NEW m \in Notice, Held(m) PROVE Held(m)'
  BY <1>1, <1>3, <1>4, <1>5 DEF Held
<1>. QED
  BY <1>1, <1>2, <1>3, <1>4, <1>5, KeptStep

\* The copy, the clearing of the list and the return of a retry.
LEMMA RetryStep ==
    ASSUME MailsInv, NEW r \in Retry, Copy(r) \/ Clear(r) \/ Return(r)
    PROVE  MailsInv'
<1>. USE DEF MailsInv, MailsTypes
<1>1. CASE Copy(r)
  <2>1. \A o \in Retry : o # r => retries'[o] = retries[o]
    BY <1>1 DEF Copy
  <2>2. retries[r].pending = NoMail
    BY <1>1 DEF Copy, SleepersEmpty, Asleep
  <2>3. ASSUME NEW n \in Notice, Held(n) PROVE Held(n)'
    BY <1>1, <2>1, <2>2, <2>3 DEF Copy, Held, NoMail
  <2>. QED
    BY <1>1, <2>1, <2>3, KeptStep DEF Copy, SleepersEmpty
<1>2. CASE Clear(r)
  <2>1. \A o \in Retry : /\ retries'[o].pending = retries[o].pending
                         /\ o # r => retries'[o] = retries[o]
                         /\ o = r => retries'[o].stage = "sending"
    BY <1>2 DEF Clear
  <2>2. ASSUME NEW n \in announced' \ excused', Held(n) PROVE Held(n)'
    <3>1. failed[n] <= retries[r].pending[n]
      BY <1>2, <2>2 DEF Clear
    <3>. QED
      BY <1>2, <2>1, <2>2, <3>1 DEF Clear, Held
  <2>3. MailsTypes'
    BY <1>2 DEF Clear, NoMail
  <2>4. SleepersEmpty'
    BY <2>1 DEF SleepersEmpty
  <2>. QED
    BY <1>2, <2>2, <2>3, <2>4, KeptStep DEF Clear
<1>3. CASE Return(r)
  <2>1. retries'[r] = Asleep /\ \A o \in Retry : o # r => retries'[o] = retries[o]
    BY <1>3 DEF Return
  <2>2. ASSUME NEW n \in Notice, Held(n) PROVE Held(n)'
    BY <1>3, <2>1, <2>2 DEF Return, Held, NoMail
  <2>3. MailsTypes' /\ SleepersEmpty'
    BY <1>3, <2>1 DEF Return, SleepersEmpty, Asleep, NoMail
  <2>. QED
    BY <1>3, <2>2, <2>3, KeptStep DEF Return
<1>. QED
  BY <1>1, <1>2, <1>3

LEMMA MailsRestartStep == ASSUME MailsInv, Restart PROVE MailsInv'
<1>1. ASSUME NEW n \in announced' \ excused' PROVE n \in announced \ excused /\ Held(n) => delivered[n] > 0
  BY <1>1 DEF Restart, Held, Of, MailsInv, MailsTypes
<1>. QED
  BY <1>1, KeptStep DEF Restart, MailsInv, MailsTypes, SleepersEmpty, Held, NoMail, Asleep, NoticesKept

LEMMA MailsStep == ASSUME MailsInv, [MailsNext]_mailVars PROVE MailsInv'
<1>1. CASE UNCHANGED mailVars
  BY <1>1 DEF mailVars, MailsInv, MailsTypes, SleepersEmpty, NoticesKept
<1>2. CASE MailsNext
  BY <1>2, HandlerStep, TakenStep, RetryStep, MailsRestartStep DEF MailsNext
<1>. QED
  BY <1>1, <1>2

\* notifications.py:4-8, for any notices, retries and failures: a notice whose handler came
\* to notify has reached the server or somebody still holds it, unless the process was
\* restarted or it was queued between the copy and the clearing of the list.
THEOREM MailsKept == MailsSpec => []NoticesKept
  BY MailsInitially, MailsStep, PTL DEF MailsSpec, MailsInv
==============================================================================
