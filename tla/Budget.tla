-------------------------------- MODULE Budget --------------------------------
(***************************************************************************)
(* What a request limit promises whoever calls check_rate_limit: one       *)
(* budget for every bucket and window, whatever worker is asked; a hit is  *)
(* refused only when the budget is spent.                                  *)
(***************************************************************************)
EXTENDS Naturals

CONSTANTS Worker, Bucket, Limit, Horizon

VARIABLES
    used,       \* accepted hits of every bucket in every window
    verdict     \* what each worker's caller has been told

Window == 0 .. Horizon
Quiet == [of |-> "nobody"]
Asked(b, k) == [of |-> "asked", bucket |-> b, window |-> k]
Told(answer) == [of |-> answer]

Init ==
    /\ used = [b \in Bucket |-> [k \in Window |-> 0]]
    /\ verdict = [w \in Worker |-> Quiet]

\* A caller asks, about the window its own clock shows.
Ask(w, b, k) ==
    /\ verdict[w].of # "asked"
    /\ verdict' = [verdict EXCEPT ![w] = Asked(b, k)]
    /\ UNCHANGED used

Accept(w, b, k) ==
    /\ verdict[w] = Asked(b, k)
    /\ used[b][k] < Limit
    /\ used' = [used EXCEPT ![b][k] = @ + 1]
    /\ verdict' = [verdict EXCEPT ![w] = Told("accepted")]

Refuse(w, b, k) ==
    /\ verdict[w] = Asked(b, k)
    /\ used[b][k] = Limit
    /\ verdict' = [verdict EXCEPT ![w] = Told("limited")]
    /\ UNCHANGED used

\* The worker dies with the hit uncounted.
Lose(w, b, k) ==
    /\ verdict[w] = Asked(b, k)
    /\ verdict' = [verdict EXCEPT ![w] = Quiet]
    /\ UNCHANGED used

Next == \E w \in Worker, b \in Bucket, k \in Window :
            Ask(w, b, k) \/ Accept(w, b, k) \/ Refuse(w, b, k) \/ Lose(w, b, k)

Spec == Init /\ [][Next]_<<used, verdict>>
=============================================================================
