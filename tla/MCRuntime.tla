------------------------------ MODULE MCRuntime -----------------------------
\* The two protocols that threads poll for, in one run, chosen at the start: a
\* group of an interpreted and a compiled thread and its collector, and signals
\* polled by an interpreted and a compiled thread.
EXTENDS Interrupts

VARIABLE protocol

everything == <<protocol, vars, signalVars>>

MCInit == protocol \in {"collector", "signals"} /\ InterruptInit

MCNext == \/ protocol = "collector" /\ InterruptNext /\ UNCHANGED protocol
          \/ protocol = "signals" /\ SignalNext /\ UNCHANGED <<protocol, vars>>

MCSpec == /\ MCInit /\ [][MCNext]_everything
          /\ protocol = "collector" => InterruptFairness
=============================================================================
