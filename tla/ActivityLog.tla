---------------------------- MODULE ActivityLog ----------------------------
(***************************************************************************)
(* What activity reporting promises, whatever outbox and collector do:     *)
(* a change that a service commits leaves evidence, and the history of MM  *)
(* OS comes to show exactly the changes that were committed.               *)
(***************************************************************************)
CONSTANT Event

VARIABLES
    changed,    \* the changes some service has committed, each with its event
    history     \* the events MM OS shows

Init == changed = {} /\ history = {}

\* A transaction commits all of its changes at once.
Change(E) ==
    /\ E # {}
    /\ E \cap changed = {}
    /\ changed' = changed \cup E
    /\ UNCHANGED history

\* Some committed changes reach the history, none of them twice and none ever taken out.
Collect(E) ==
    /\ E # {}
    /\ E \subseteq changed \ history
    /\ history' = history \cup E
    /\ UNCHANGED changed

Next ==
    \/ \E E \in SUBSET Event : Change(E)
    \/ \E E \in SUBSET Event : Collect(E)

Safe == Init /\ [][Next]_<<changed, history>>

\* Nothing that was committed stays out of the history.
Spec == Safe /\ \A e \in Event : WF_<<changed, history>>(\E E \in SUBSET Event : e \in E /\ Collect(E))
=============================================================================
