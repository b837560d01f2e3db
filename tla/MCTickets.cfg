CONSTANTS
    p1 = p1
    p2 = p2
    p3 = p3
    q1 = q1
    q2 = q2
    Person = {p1, p2, p3}
    Nobody = Nobody
    Agent = {p1}
    Oversight = {}
    Request = {q1, q2}
    Free = Free
    MaxApprovers = 2
    MaxVersions = 2
    MaxVisits = 2
SPECIFICATION Spec
CHECK_DEADLOCK FALSE
SYMMETRY Interchangeable
INVARIANT OneVerdictPerReview
INVARIANT ReviewedWithProposal
INVARIANT ReviewCanEnd
PROPERTY FullApproval
