------------------------------- MODULE Notices -------------------------------
(***************************************************************************)
(* The Service Desk's mails (notifications.py).  A handler that has        *)
(* committed sends its notice; one that cannot be sent goes to a list in   *)
(* memory, from which retry_failed sends it again.  Handlers and retries   *)
(* run in threads of one process: the copy of the list, its clearing and   *)
(* each append are single steps, and anything may happen between them.     *)
(***************************************************************************)
EXTENDS Naturals

CONSTANTS
    Notice,
    Retry,          \* bound: calls of retry_failed at once
    MaxFailures     \* bound: sends that fail, and restarts

VARIABLES
    sending,    \* the notices their handlers are sending
    failed,     \* _failed: how often each notice is in the list
    retries,    \* what each call of retry_failed has copied and not yet sent
    delivered,  \* how often each notice has reached the mail server
    failures,
    announced,  \* history: the notices whose handlers have come to notify
    excused     \* history: the notices the code does not promise to keep

mailVars == <<sending, failed, retries, delivered, failures, announced, excused>>

NoMail == [n \in Notice |-> 0]
Asleep == [stage |-> "asleep", pending |-> NoMail]
Of(bag) == {n \in Notice : bag[n] > 0}

MailsInit ==
    /\ sending = {}
    /\ failed = NoMail
    /\ retries = [r \in Retry |-> Asleep]
    /\ delivered = NoMail
    /\ failures = 0
    /\ announced = {} /\ excused = {}

Notify(n) ==
    /\ n \notin announced
    /\ announced' = announced \cup {n}
    /\ sending' = sending \cup {n}
    /\ UNCHANGED <<failed, retries, delivered, failures, excused>>

Sent(n) ==
    /\ n \in sending
    /\ sending' = sending \ {n}
    /\ delivered' = [delivered EXCEPT ![n] = @ + 1]
    /\ UNCHANGED <<failed, retries, failures, announced, excused>>

\* smtplib raises: before the server has taken the mail, or after (its answer to QUIT).
Fails(n) ==
    /\ failures < MaxFailures /\ failures' = failures + 1
    /\ delivered' \in {delivered, [delivered EXCEPT ![n] = @ + 1]}
    /\ failed' = [failed EXCEPT ![n] = @ + 1]

NotSent(n) ==
    /\ n \in sending
    /\ sending' = sending \ {n}
    /\ Fails(n)
    /\ UNCHANGED <<retries, announced, excused>>

(***************************************************************************)
(* retry_failed.                                                           *)
(***************************************************************************)
Copy(r) ==
    /\ retries[r].stage = "asleep"
    /\ retries' = [retries EXCEPT ![r] = [stage |-> "copied", pending |-> failed]]
    /\ UNCHANGED <<sending, failed, delivered, failures, announced, excused>>

\* What was appended since the copy was taken goes with the rest.
Clear(r) ==
    /\ retries[r].stage = "copied"
    /\ failed' = NoMail
    /\ excused' = excused \cup {n \in Notice : failed[n] > retries[r].pending[n]}
    /\ retries' = [retries EXCEPT ![r].stage = "sending"]
    /\ UNCHANGED <<sending, delivered, failures, announced>>

Taken(r, n) ==
    /\ retries[r].stage = "sending"
    /\ retries[r].pending[n] > 0
    /\ retries' = [retries EXCEPT ![r].pending[n] = @ - 1]

Resent(r, n) ==
    /\ Taken(r, n)
    /\ delivered' = [delivered EXCEPT ![n] = @ + 1]
    /\ UNCHANGED <<sending, failed, failures, announced, excused>>

\* Mutant of NotResent: the retry does not queue what fails again.
NotResentAgain(r, n) ==
    /\ Taken(r, n)
    /\ failures < MaxFailures /\ failures' = failures + 1
    /\ UNCHANGED <<sending, failed, delivered, announced, excused>>

\* notify queues it again.
NotResent(r, n) ==
    /\ Taken(r, n)
    /\ Fails(n)
    /\ UNCHANGED <<sending, announced, excused>>

Return(r) ==
    /\ retries[r].stage = "sending" /\ retries[r].pending = NoMail
    /\ retries' = [retries EXCEPT ![r] = Asleep]
    /\ UNCHANGED <<sending, failed, delivered, failures, announced, excused>>

\* "explicitly allowed to be lost on restart"
Restart ==
    /\ failures < MaxFailures /\ failures' = failures + 1
    /\ excused' = excused \cup sending \cup Of(failed) \cup UNION {Of(retries[r].pending) : r \in Retry}
    /\ sending' = {}
    /\ failed' = NoMail
    /\ retries' = [r \in Retry |-> Asleep]
    /\ UNCHANGED <<delivered, announced>>

MailsNext ==
    \/ \E n \in Notice : \/ Notify(n) \/ Sent(n) \/ NotSent(n)
                         \/ \E r \in Retry : Resent(r, n) \/ NotResent(r, n)
    \/ \E r \in Retry : Copy(r) \/ Clear(r) \/ Return(r)
    \/ Restart

MailsSpec == MailsInit /\ [][MailsNext]_mailVars

-----------------------------------------------------------------------------
(* Properties                                                              *)

MailsTypeOK ==
    /\ sending \subseteq announced /\ announced \subseteq Notice /\ excused \subseteq Notice
    /\ failed \in [Notice -> Nat] /\ delivered \in [Notice -> Nat]
    /\ retries \in [Retry -> [stage : {"asleep", "copied", "sending"}, pending : [Notice -> Nat]]]
    /\ failures \in 0 .. MaxFailures

\* notifications.py:4-8, failed sends go to "an in-memory queue", "explicitly allowed to be
\* lost on restart": through any number of failures and of retries at once a notice has
\* reached the server or somebody still holds it, unless the process was restarted or the
\* notice was queued between the copy and the clearing of the list.
NoticesKept ==
    \A n \in announced \ excused :
        \/ delivered[n] > 0 \/ n \in sending \/ failed[n] > 0
        \/ \E r \in Retry : retries[r].pending[n] > 0
==============================================================================
