----------------------------- MODULE Interrupts -----------------------------
(***************************************************************************)
(* How compiled code takes part in a collection.  Interpreted code looks   *)
(* at WantGC before each instruction (CheckFlags); a compiled loop looks   *)
(* only at JitInterruptFlag (bc_emit_interrupt_check, src/jit.c), which a  *)
(* collector and every signal raise, and which is one flag for all         *)
(* threads.  vm_jit_handle_interrupt (src/vm.c) clears it after it has     *)
(* looked at WantGC, whatever was asked for meanwhile.                     *)
(*                                                                         *)
(* Of Signals only the flag and how far a thread is in the handler move    *)
(* here; a signal is the raised flag.  A compiled thread may also come     *)
(* through CheckFlags, when its code calls a function or a Ty handler of a *)
(* signal, but need not.                                                   *)
(***************************************************************************)
EXTENDS ThreadGroup, Signals

pollVars == <<JitInterruptFlag, poll>>
idleSignalVars == <<SignalStates, AnySignalPending, setVars, irq, scans, threw, sent>>

\* The flag is up at a backward jump: vm_jit_handle_interrupt takes part in a
\* collection that is asked for ...
JitInterrupt(t) == /\ t \in Compiled /\ pc[t] = "run" /\ poll[t] = "code"
                   /\ JitInterruptFlag
                   /\ poll' = [poll EXCEPT ![t] = "clear"]
                   /\ \/ wantGC /\ gcOff[t] = 0 /\ WaitGC(t, "run")
                      \/ ~ (wantGC /\ gcOff[t] = 0) /\ UNCHANGED groupVars
                   /\ UNCHANGED JitInterruptFlag

\* ... and clears the flag.
JitInterruptEnds(t) == /\ pc[t] = "run" /\ poll[t] = "clear"
                       /\ JitInterruptFlag' = FALSE
                       /\ poll' = [poll EXCEPT ![t] = "code"]
                       /\ UNCHANGED groupVars

\* vm_do_signal
AnySignal == /\ JitInterruptFlag' = TRUE
             /\ UNCHANGED <<groupVars, poll>>

\* Mutant: a collector asks through WantGC alone.
GroupStepUnflagged(t) == /\ pc[t] = "run" => poll[t] = "code"
                         /\ Program(t) \/ Wait(t) \/ Collect(t)
                         /\ UNCHANGED pollVars

\* Every other step of a thread.  DoGC raises the flag when it sets WantGC.
GroupStep(t) == /\ pc[t] = "run" => poll[t] = "code"
                /\ Program(t) \/ Wait(t) \/ Collect(t)
                /\ JitInterruptFlag' = (JitInterruptFlag \/ pc[t] = "gcGroup")
                /\ UNCHANGED poll

InterruptInit == Init /\ SignalInit

InterruptNext == /\ \/ AnySignal
                    \/ \E t \in Thread : JitInterrupt(t) \/ JitInterruptEnds(t) \/ GroupStep(t)
                 /\ UNCHANGED idleSignalVars

\* An interpreted thread comes to CheckFlags and a compiled one to a backward jump
\* again and again; in between either may block or be in a GC_STOP region.
InterruptFairness ==
  /\ ProtocolFairness
  /\ \A t \in Thread \ Compiled : SF_vars(CheckFlags(t))
  /\ \A t \in Thread \cap Compiled : /\ SF_<<groupVars, pollVars>>(JitInterrupt(t))
                                     /\ WF_<<groupVars, pollVars>>(JitInterruptEnds(t))

-----------------------------------------------------------------------------
\* A compiled thread that has looked at WantGC is about to clear the flag of a
\* collector that has raised it since.
ClearsRequest(u) == LeaderAt({"gcScan"}) /\ pc[u] = "run" /\ poll[u] = "clear"

\* A collection that has the GC lock comes to its end, whether the other threads are
\* interpreted, compiled or blocked: unless it met a thread with a stale DONE, scans
\* for one that is in thread.group(), or raised JitInterruptFlag while a compiled
\* thread was about to clear it.
CollectionFinishes ==
  \A t \in Thread :
    (pc[t] = "gcGroup") ~>
      (pc[t] = "gcEnd" \/ \E u \in Thread : Stale(u) \/ Entangled(u) \/ ClearsRequest(u))
=============================================================================
