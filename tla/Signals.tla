------------------------------ MODULE Signals -------------------------------
(***************************************************************************)
(* Signals (src/vm.c, src/jit.c, os.signal() of src/functions.c): the      *)
(* kernel interrupts a thread to run vm_do_signal, which only raises three *)
(* flags; threads poll them, interpreted code AnySignalPending before each *)
(* instruction, compiled code JitInterruptFlag at backward jumps, and one  *)
(* of them scans SignalStates and calls the Ty functions.                  *)
(*                                                                         *)
(* A handler is Ty code: it polls too, so scans nest.  A handler that      *)
(* throws abandons its scan, and those below the try that catches it.      *)
(***************************************************************************)
EXTENDS Naturals, Sequences

CONSTANTS Poller,       \* the threads
          Compiled,     \* those that run compiled code
          NSIG,         \* signals are 1 .. NSIG
          MaxSignals,   \* bound: signals delivered
          MaxNest,      \* bound: nesting of scans in one thread
          MaxCalls      \* bound: calls of os.signal()

ASSUME SignalAssumption == Compiled \subseteq Poller /\ {NSIG, MaxSignals, MaxNest, MaxCalls} \subseteq Nat

Sig == 1 .. NSIG

VARIABLES
  SignalStates,      \* the signals that wait for a scan
  AnySignalPending,
  JitInterruptFlag,
  SignalHandlers,    \* "zero", a function, or the integer or nil of a default action
  action,            \* sigaction's disposition of each signal
  irq,               \* how far each thread is in vm_do_signal
  poll,              \* how far each compiled thread is in vm_jit_handle_interrupt
  scans,             \* the scans each thread has begun, innermost last
  setting,           \* how far each thread is in os.signal()
  threw,             \* a handler has thrown
  crossed,           \* signals for which two calls of os.signal() overlapped
  sent, calls        \* the bounded counters

flagVars == <<SignalStates, AnySignalPending, JitInterruptFlag>>
setVars == <<SignalHandlers, action, setting, crossed, calls>>
signalVars == <<flagVars, setVars, irq, poll, scans, threw, sent>>

Top(t) == scans[t][Len(scans[t])]
Popped(s, n) == SubSeq(s, 1, Len(s) - n)
ScanAt(t, l, s) == scans' = [scans EXCEPT ![t][Len(scans[t])] = [at |-> l, sig |-> s]]
StartScan(t) == scans' = [scans EXCEPT ![t] = Append(@, [at |-> "scan", sig |-> 1])]

\* The thread executes Ty code, of the program or of a handler.
InCode(t) == /\ irq[t] = "none"
             /\ poll[t] = "code" /\ setting[t].at = "none"
             /\ scans[t] # <<>> => Top(t).at = "handler"

-----------------------------------------------------------------------------
(* vm_do_signal, on whatever thread the kernel interrupts *)

Deliver(t, s) == /\ irq[t] = "none"
                 /\ action[s] = "vm" /\ sent < MaxSignals
                 /\ sent' = sent + 1
                 /\ SignalStates' = SignalStates \cup {s}
                 /\ irq' = [irq EXCEPT ![t] = "any"]
                 /\ UNCHANGED <<AnySignalPending, JitInterruptFlag, setVars, poll, scans, threw>>

DeliverAny(t) == /\ irq[t] = "any"
                 /\ AnySignalPending' = TRUE
                 /\ irq' = [irq EXCEPT ![t] = "flag"]
                 /\ UNCHANGED <<SignalStates, JitInterruptFlag, setVars, poll, scans, threw, sent>>

DeliverFlag(t) == /\ irq[t] = "flag"
                  /\ JitInterruptFlag' = TRUE
                  /\ irq' = [irq EXCEPT ![t] = "none"]
                  /\ UNCHANGED <<SignalStates, AnySignalPending, setVars, poll, scans, threw, sent>>

-----------------------------------------------------------------------------
(* Polling *)

\* CheckFlags: TakePendingSignals, by compare and swap, and the scan.
CheckSignals(t) == /\ InCode(t) /\ t \notin Compiled
                   /\ Len(scans[t]) < MaxNest
                   /\ AnySignalPending
                   /\ AnySignalPending' = FALSE
                   /\ StartScan(t)
                   /\ UNCHANGED <<SignalStates, JitInterruptFlag, setVars, irq, poll, threw, sent>>

\* The check that bc_emit_interrupt_check compiles in.
JitCheck(t) == /\ InCode(t) /\ t \in Compiled
               /\ Len(scans[t]) < MaxNest
               /\ JitInterruptFlag
               /\ poll' = [poll EXCEPT ![t] = "clear"]
               /\ UNCHANGED <<flagVars, setVars, irq, scans, threw, sent>>

\* Mutant: clears the flag and does not look at the signals.
JitClearOnly(t) == /\ poll[t] = "clear" /\ irq[t] = "none"
                   /\ JitInterruptFlag' = FALSE
                   /\ poll' = [poll EXCEPT ![t] = "code"]
                   /\ UNCHANGED <<SignalStates, AnySignalPending, setVars, irq, scans, threw, sent>>

\* vm_jit_handle_interrupt: JitInterruptFlag = 0 ...
JitClear(t) == /\ poll[t] = "clear" /\ irq[t] = "none"
               /\ JitInterruptFlag' = FALSE
               /\ poll' = [poll EXCEPT ![t] = "take"]
               /\ UNCHANGED <<SignalStates, AnySignalPending, setVars, irq, scans, threw, sent>>

\* ... and TakePendingSignals.
JitTake(t) == /\ poll[t] = "take" /\ irq[t] = "none"
              /\ IF AnySignalPending THEN StartScan(t) ELSE UNCHANGED scans
              /\ AnySignalPending' = FALSE
              /\ poll' = [poll EXCEPT ![t] = "code"]
              /\ UNCHANGED <<SignalStates, JitInterruptFlag, setVars, irq, threw, sent>>

-----------------------------------------------------------------------------
(* HandlePendingSignals *)

Scanning(t, l) == irq[t] = "none" /\ scans[t] # <<>> /\ Top(t).at = l

\* The compare and swap of SignalStates[sig].
ScanState(t) == /\ Scanning(t, "scan")
                /\ Top(t).sig <= NSIG
                /\ IF Top(t).sig \in SignalStates THEN ScanAt(t, "read", Top(t).sig)
                   ELSE ScanAt(t, "scan", Top(t).sig + 1)
                /\ SignalStates' = SignalStates \ {Top(t).sig}
                /\ UNCHANGED <<AnySignalPending, JitInterruptFlag, setVars, irq, poll, threw, sent>>

\* The handler is read under SignalLock; a zero one is skipped, anything else
\* is called.
ScanRead(t) == /\ Scanning(t, "read")
               /\ IF SignalHandlers[Top(t).sig] = "zero" THEN ScanAt(t, "scan", Top(t).sig + 1)
                  ELSE ScanAt(t, SignalHandlers[Top(t).sig], Top(t).sig)
               /\ UNCHANGED <<flagVars, setVars, irq, poll, threw, sent>>

HandlerReturns(t) == /\ Scanning(t, "handler") /\ InCode(t)
                     /\ ScanAt(t, "scan", Top(t).sig + 1)
                     /\ UNCHANGED <<flagVars, setVars, irq, poll, threw, sent>>

\* The handler throws, or is no function; the try that catches it is below
\* one or more of the scans.
HandlerThrows(t) == /\ (Scanning(t, "handler") /\ InCode(t)) \/ Scanning(t, "default")
                    /\ \E n \in 1 .. Len(scans[t]) :
                         scans' = [scans EXCEPT ![t] = Popped(@, n)]
                    /\ threw' = TRUE
                    /\ UNCHANGED <<flagVars, setVars, irq, poll, sent>>

\* Mutant: the flag that started the scan is cleared at its end.
ScanEndsClears(t) == /\ Scanning(t, "scan")
                     /\ Top(t).sig = NSIG + 1
                     /\ scans' = [scans EXCEPT ![t] = Popped(@, 1)]
                     /\ AnySignalPending' = FALSE
                     /\ UNCHANGED <<SignalStates, JitInterruptFlag, setVars, irq, poll, threw, sent>>

ScanEnds(t) == /\ Scanning(t, "scan")
               /\ Top(t).sig = NSIG + 1
               /\ scans' = [scans EXCEPT ![t] = Popped(@, 1)]
               /\ UNCHANGED <<flagVars, setVars, irq, poll, threw, sent>>

-----------------------------------------------------------------------------
(* os.signal(sig, f) *)

\* A default action deletes the handler first (vm_del_sigfn).
SignalCall(t, s, f) ==
  /\ InCode(t) /\ calls < MaxCalls
  /\ calls' = calls + 1
  /\ SignalHandlers' = IF f = "default" THEN [SignalHandlers EXCEPT ![s] = "zero"]
                       ELSE SignalHandlers
  /\ setting' = [setting EXCEPT ![t] = [at |-> "sigaction", sig |-> s, fn |-> f]]
  /\ crossed' = IF \E u \in Poller : setting[u].at # "none" /\ setting[u].sig = s
                THEN crossed \cup {s} ELSE crossed
  /\ UNCHANGED <<flagVars, action, irq, poll, scans, threw, sent>>

SigAction(t) == LET c == setting[t] IN
  /\ c.at = "sigaction" /\ irq[t] = "none"
  /\ action' = [action EXCEPT ![c.sig] = IF c.fn = "handler" THEN "vm" ELSE "default"]
  /\ setting' = [setting EXCEPT ![t].at = "set"]
  /\ UNCHANGED <<flagVars, SignalHandlers, crossed, calls, irq, poll, scans, threw, sent>>

\* sigaction fails for a signal that no handler can be set for: os.signal() returns.
SigActionFails(t) == LET c == setting[t] IN
  /\ c.at = "sigaction" /\ irq[t] = "none" /\ action[c.sig] = "default"
  /\ setting' = [setting EXCEPT ![t].at = "none"]
  /\ UNCHANGED <<flagVars, SignalHandlers, action, crossed, calls, irq, poll, scans, threw, sent>>

\* Mutant: keeps a handler that is there already.
SetHandlerOnce(t) == LET c == setting[t] IN
  /\ c.at = "set" /\ irq[t] = "none"
  /\ SignalHandlers' = [SignalHandlers EXCEPT ![c.sig] = IF @ = "zero" THEN c.fn ELSE @]
  /\ setting' = [setting EXCEPT ![t].at = "none"]
  /\ UNCHANGED <<flagVars, action, crossed, calls, irq, poll, scans, threw, sent>>

\* vm_set_sigfn, for a default action too.
SetHandler(t) == LET c == setting[t] IN
  /\ c.at = "set" /\ irq[t] = "none"
  /\ SignalHandlers' = [SignalHandlers EXCEPT ![c.sig] = c.fn]
  /\ setting' = [setting EXCEPT ![t].at = "none"]
  /\ UNCHANGED <<flagVars, action, crossed, calls, irq, poll, scans, threw, sent>>

-----------------------------------------------------------------------------
SignalInit ==
  /\ SignalStates = {} /\ AnySignalPending = FALSE /\ JitInterruptFlag = FALSE
  /\ SignalHandlers = [s \in Sig |-> "zero"]
  /\ action = [s \in Sig |-> "default"]
  /\ irq = [t \in Poller |-> "none"]
  /\ poll = [t \in Poller |-> "code"]
  /\ scans = [t \in Poller |-> <<>>]
  /\ setting = [t \in Poller |-> [at |-> "none", sig |-> 1, fn |-> "default"]]
  /\ threw = FALSE /\ crossed = {} /\ sent = 0 /\ calls = 0

SignalNext == \E t \in Poller :
  \/ DeliverAny(t) \/ DeliverFlag(t)
  \/ CheckSignals(t) \/ JitCheck(t) \/ JitClear(t) \/ JitTake(t)
  \/ ScanState(t) \/ ScanRead(t) \/ HandlerReturns(t) \/ HandlerThrows(t) \/ ScanEnds(t)
  \/ SigAction(t) \/ SigActionFails(t) \/ SetHandler(t)
  \/ \E s \in Sig : Deliver(t, s) \/ \E f \in {"handler", "default"} : SignalCall(t, s, f)

SignalSpec == SignalInit /\ [][SignalNext]_signalVars

-----------------------------------------------------------------------------
\* The state of the flags and of the threads.
SignalTypeOK ==
  /\ SignalStates \subseteq Sig
  /\ {AnySignalPending, JitInterruptFlag, threw} \subseteq BOOLEAN
  /\ SignalHandlers \in [Sig -> {"zero", "handler", "default"}]
  /\ action \in [Sig -> {"default", "vm"}]
  /\ irq \in [Poller -> {"none", "any", "flag"}]
  /\ poll \in [Poller -> {"code", "clear", "take"}]
  /\ \A t \in Poller : \A i \in DOMAIN scans[t] :
       scans[t][i] \in [at : {"scan", "read", "handler", "default"}, sig : 1 .. NSIG + 1]

\* The scan will still look at s.
WillVisit(scan, s) == IF scan.at = "scan" THEN scan.sig <= s ELSE scan.sig < s

\* A signal is not left behind: as long as it waits some thread is about to
\* find it, through AnySignalPending or because its scan has not passed it,
\* unless a handler threw out of a scan.
NoSignalLost ==
  /\ SignalTypeOK
  /\ \A s \in SignalStates :
       \/ AnySignalPending \/ threw
       \/ \E t \in Poller : irq[t] = "any" \/ \E i \in DOMAIN scans[t] : WillVisit(scans[t][i], s)

\* Compiled code sees every signal: a pending one comes with
\* JitInterruptFlag, or the flag is about to be raised, or the thread that
\* cleared it is about to look.
FlagCoversPending ==
  AnySignalPending => \/ JitInterruptFlag
                      \/ \E t \in Poller : irq[t] = "flag" \/ poll[t] = "take"

\* When os.signal() has returned, a signal that vm_do_signal receives has a
\* function to call, unless two calls for it overlapped.
RegisteredIsCallable ==
  \A s \in Sig \ crossed :
    action[s] = "vm" /\ (\A t \in Poller : setting[t].at # "none" => setting[t].sig # s)
      => SignalHandlers[s] = "handler"
=============================================================================
