--------------------------- MODULE RequestService ---------------------------
(***************************************************************************)
(* What the server side of an exchange promises its clients: a request is  *)
(* accepted once for as long as it is remembered, its handler runs at most *)
(* once, and only a response that is ready is ever sent, any number of     *)
(* times.  A forgotten request that arrives again starts a new life.       *)
(***************************************************************************)
EXTENDS Naturals

CONSTANTS
    Requests,
    Lives       \* how often a request may be accepted

VARIABLES
    known,      \* the requests that are remembered
    life,       \* how often each request has been forgotten
    job,        \* what has become of a request in each of its lives
    replied     \* the requests that have been answered

vars == <<known, life, job, replied>>

Stages == {"none", "accepted", "working", "ready"}

Init ==
    /\ known = {}
    /\ life = [r \in Requests |-> 0]
    /\ job = [r \in Requests |-> [n \in 0 .. Lives |-> "none"]]
    /\ replied = {}

Accept(r) ==
    /\ r \notin known
    /\ job[r][life[r]] = "none"
    /\ known' = known \cup {r}
    /\ job' = [job EXCEPT ![r][life[r]] = "accepted"]
    /\ UNCHANGED <<life, replied>>

\* A handler runs, or the request is answered without one.
Begin(r, n) ==
    /\ job[r][n] = "accepted"
    /\ job' = [job EXCEPT ![r][n] = "working"]
    /\ UNCHANGED <<known, life, replied>>

Finish(r, n) ==
    /\ job[r][n] \in {"accepted", "working"}
    /\ job' = [job EXCEPT ![r][n] = "ready"]
    /\ UNCHANGED <<known, life, replied>>

Reply(r) ==
    /\ \E n \in 0 .. Lives : job[r][n] = "ready"
    /\ replied' = replied \cup {r}
    /\ UNCHANGED <<known, life, job>>

\* The purge forgets any number of requests at once.
Forget(F) ==
    /\ F # {} /\ F \subseteq known
    /\ known' = known \ F
    /\ life' = [r \in Requests |-> IF r \in F THEN life[r] + 1 ELSE life[r]]
    /\ UNCHANGED <<job, replied>>

Next ==
    \/ \E r \in Requests :
        \/ Accept(r) \/ Reply(r)
        \/ \E n \in 0 .. Lives : Begin(r, n) \/ Finish(r, n)
    \/ \E F \in SUBSET Requests : Forget(F)

Spec == Init /\ [][Next]_vars

=============================================================================
