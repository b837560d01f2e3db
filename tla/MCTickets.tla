----------------------------- MODULE MCTickets ------------------------------
EXTENDS Tickets, TLC
CONSTANTS p1, p2, p3, q1, q2

Interchangeable == Permutations(Person \ Agent) \cup Permutations(Request)
=============================================================================
