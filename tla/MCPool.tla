------------------------------- MODULE MCPool -------------------------------
\* Three uses of threads in one run, chosen at the start: a pool of two
\* workers, one of which fails in setup, with two clients and one job; the same
\* with one client and two jobs, where it may fail; or one handle that the
\* clients join, with and without a timeout, detach and drop.
EXTENDS Pool

VARIABLE use

everything == <<use, allVars, handleVars, poolVars>>

MCInit == use \in {"clients", "jobs", "handles"} /\ AllInit

\* The clients and the jobs of each use.
Active == IF use = "jobs" THEN {Main} ELSE Client
Jobs == IF use = "jobs" THEN Job ELSE {CHOOSE f \in Job : TRUE}

Proceed == /\ \/ \E w \in Worker : WorkerStep(w)
              \/ \E c \in Client : ClientStep(c)
           /\ use = "clients" => \A w \in Fragile : work'[w].at \in {"setup", "failed"}

MCNext ==
  \/ /\ use # "handles"
     /\ \/ Proceed
        \/ \E c \in Active : ClientCall(c)
     /\ \A f \in Job \ Jobs : future'[f].state = "none"
     /\ UNCHANGED use
  \/ use = "handles" /\ HandleNext(Fragile) /\ UNCHANGED <<use, queueVars, poolVars>>

\* As long as a worker or a call in progress can go on, one of them does: jobs
\* end, and no thread is starved for ever.  Nobody has to call anything.
MCFairness == WF_everything(use # "handles" /\ Proceed /\ UNCHANGED use)

MCSpec == MCInit /\ [][MCNext]_everything /\ MCFairness
=============================================================================
