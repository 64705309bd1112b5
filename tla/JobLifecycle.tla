---------------------------- MODULE JobLifecycle ----------------------------
(* What requester and provider may rely on for one job, whatever tables,    *)
(* requests and sweeps there are: the provider decides once, the job is on  *)
(* at most one machine of that provider while it is held, a result needs a  *)
(* started job, an end is final, and one mail follows a result.             *)
EXTENDS Naturals

CONSTANTS Users, Machines, Owner, None

VARIABLES phase, provider, decision, holder, mailed

lifeVars == <<phase, provider, decision, holder, mailed>>

Live    == {"waiting", "ready", "held", "started"}
Results == {"completed", "failed"}

Init == /\ phase = "absent"
        /\ provider = None
        /\ decision = "none"
        /\ holder = None
        /\ mailed = 0

Submit ==
    /\ phase = "absent"
    /\ phase' = "waiting"
    /\ provider' \in Users
    /\ UNCHANGED <<decision, holder, mailed>>

\* A preempted job may still be rejected, if it was never decided.
DecideTo(from, verdict, to) ==
    /\ phase \in from
    /\ decision = "none"
    /\ decision' = verdict
    /\ phase' = to
    /\ UNCHANGED <<provider, holder, mailed>>

Approve == DecideTo({"waiting"}, "approved", "ready")
Reject  == DecideTo({"waiting", "preempted"}, "rejected", "rejected")

TakeUp ==
    /\ phase = "ready"
    /\ phase' = "held"
    /\ \E m \in Machines : Owner[m] = provider /\ holder' = m
    /\ UNCHANGED <<provider, decision, mailed>>

\* A machine that cannot run the job hands it back, before it started.
HandBack ==
    /\ phase = "held"
    /\ phase' = "ready"
    /\ holder' = None
    /\ UNCHANGED <<provider, decision, mailed>>

Begin ==
    /\ phase = "held"
    /\ phase' = "started"
    /\ UNCHANGED <<provider, decision, holder, mailed>>

End ==
    /\ \/ phase = "started" /\ phase' \in Results
       \/ phase = "held"    /\ phase' = "failed"
       \/ phase \in Live    /\ phase' \in {"cancelled", "preempted"}
    /\ holder' = None
    /\ UNCHANGED <<provider, decision, mailed>>

\* The requester is told of a result, once.
Notify ==
    /\ phase \in Results
    /\ mailed = 0
    /\ mailed' = 1
    /\ UNCHANGED <<phase, provider, decision, holder>>

Next == Submit \/ Approve \/ Reject \/ TakeUp \/ HandBack \/ Begin \/ End \/ Notify

Spec == Init /\ [][Next]_lifeVars
=============================================================================
