------------------------------- MODULE Unwind -------------------------------
(***************************************************************************)
(* How the bytecode of try, catch, finally, return, break, continue,       *)
(* resource scopes and generators unwinds: the opcodes TRY, THROW,         *)
(* RETHROW, CATCH, FINALLY, END_TRY, YIELD and those of the drop groups,   *)
(* DoThrow and DoDrop (src/vm.c), in the order in which emit_try,          *)
(* emit_return, the break and continue statements and the patterns that    *)
(* bind resources (src/compiler.c) lay them out.                           *)
(*                                                                         *)
(* The program is any program: at every point it may open or close a       *)
(* construct, throw, leave, resume or yield.  Where the program is, is     *)
(* the sequence of constructs it is inside of (nest) and, while it leaves  *)
(* several of them at once, the instructions that remain (todo).  What the *)
(* machine knows are its stacks.  One generator runs beside the main       *)
(* program; each of the two has its own TRY_STACK and DROP_STACK, and they *)
(* share THROW_STACK.                                                      *)
(***************************************************************************)
EXTENDS Integers, Sequences, SequencesExt, FiniteSets

CONSTANTS MaxNest,     \* bound: constructs open at once
          MaxTries,    \* bound: try statements entered
          MaxGroups,   \* bound: resource scopes entered
          MaxRaised    \* bound: exceptions thrown

ASSUME UnwindAssumption == {MaxNest, MaxTries, MaxGroups, MaxRaised} \subseteq Nat

VARIABLES
  co,        \* ty->st and IP of what runs: the program or the generator
  caller,    \* the co_state swapped out by call_co, NoCo outside the generator
  gen,       \* the generator's co_state while it is suspended, NoCo otherwise
  throws,    \* THROW_STACK
  status,    \* "run"; "end" when the program is over; "abort" after abort()
  fin,       \* how often the finally block of each try has been entered
  drops,     \* how often the objects of each resource scope were dropped
  failed,    \* the resource scopes whose pattern did not match
  raised,    \* exceptions thrown so far
  marks      \* the rare things the program has done (see below)

groupVars == <<drops, failed>>
vars == <<co, caller, gen, throws, status, fin, groupVars, raised, marks>>

\* What a property below makes an exception for:
\*   leaveHandler  a handler was left by return, break or continue
\*   throwHandler  a handler threw
\*   leaveFinally  a finally block was left by return, break or continue
\*   throwFinally  a finally block threw
\*   throwCall     a function called by a handler threw
\*   throwDrop     a __drop__ method threw
\*   throwGen      the generator threw with resource scopes open
\*   yieldHandler  the generator yielded while it handled an exception
\*   returnGen     the generator returned from inside a try or a resource scope
\*   leaveGroup    the head of a loop did not match, with its resource scope open
\*   bareDrop      a case of a match statement dropped the scope around it
Marks == {"leaveHandler", "throwHandler", "leaveFinally", "throwFinally",
          "throwCall", "throwDrop", "throwGen", "yieldHandler", "returnGen",
          "leaveGroup", "bareDrop"}
Without(M) == marks \cap M = {}

TryKinds == {"body", "match", "handler", "finally"}
Kinds == TryKinds \cup {"call", "loop", "scope"}
In(k, id) == [kind |-> k, id |-> id]
Insn(op, n) == [op |-> op, to |-> n]
NoCo == <<>>

\* Where to go on after a finally block: end == NULL stands for "rethrow".
Rethrow == [throw |-> TRUE, nest |-> <<>>, todo |-> <<>>]
Goto(n, i) == [throw |-> FALSE, nest |-> n, todo |-> i]

Running == status = "run" /\ co.todo = <<>>
Inner == Last(co.nest)
Inside(k) == co.nest # <<>> /\ Inner.kind = k
Count(s, K) == Cardinality({i \in DOMAIN s : s[i].kind \in K})
Open(n) == co' = [co EXCEPT !.nest = Append(@, n)]
Become(n) == co' = [co EXCEPT !.nest = Append(Front(@), n)]

\* The constructs of the running function, from the innermost call on.
Calls(n) == {i \in DOMAIN n : n[i].kind = "call"}
Base(n) == IF Calls(n) = {} THEN 0 ELSE CHOOSE i \in Calls(n) : \A j \in Calls(n) : j <= i
From(n, i) == SubSeq(n, i + 1, Len(n))

-----------------------------------------------------------------------------
(* The stacks                                                               *)

\* A co_state; the program starts inside the handler of its embedder.
State(ts) == [nest |-> <<>>, todo |-> <<>>, tries |-> ts, drop |-> <<>>, frames |-> 0]

\* PushTry and the operands of TRY.
Try(c, id) == [id |-> id, state |-> "TRY", at |-> c.nest, ds |-> Len(c.drop),
               fs |-> c.frames, end |-> Goto(c.nest, <<>>), exc |-> 0]

\* IP = t->finally, with the tries below t kept.
ToFinally(c, below, t) == [c EXCEPT !.nest = Append(t.at, In("finally", t.id)),
                                    !.todo = <<>>, !.tries = Append(below, t)]
Began(id) == fin' = [fin EXCEPT ![id] = @ + 1]

\* DoDrop of the scopes in g: every object's __drop__ is called.
Dropped(g) == /\ drops' = [d \in DOMAIN drops |->
                             drops[d] + Cardinality({i \in DOMAIN g : g[i] = d})]
              /\ UNCHANGED failed

\* DoThrow passes over the tries whose finally block already runs and looks at
\* the last one left; when the generator has none, co_abort goes to its caller.
Live(c) == {i \in DOMAIN c.tries : c.tries[i].state # "FINALLY"}
Aborting(c) == Live(c) = {} /\ caller # NoCo
Catcher(c) == IF Aborting(c) THEN caller ELSE c
Top(c) == CHOOSE i \in Live(c) : \A j \in Live(c) : j <= i

\* TRY_TRY: drop the scopes opened since (g), restore the stacks, IP = t->catch,
\* and leave s as the current try.
CatchAt(c, n, t, s, g, f) ==
  /\ Dropped(g)
  /\ UNCHANGED fin
  /\ IF t.id = 0
     THEN status' = "end" /\ co' = State(SubSeq(c.tries, 1, n))
     ELSE /\ UNCHANGED status
          /\ co' = [nest |-> Append(t.at, In("match", t.id)), todo |-> <<>>,
                    tries |-> Append(SubSeq(c.tries, 1, n - 1), s),
                    drop |-> SubSeq(c.drop, 1, t.ds), frames |-> f]

\* Mutants: the scopes are not dropped; FRAMES is not restored; the try stays in
\* TRY_THROW.
CaughtNoDrop(c, n, t, exc, again) ==
  CatchAt(c, n, t, [t EXCEPT !.state = "CATCH", !.exc = exc], again, t.fs)
CaughtDeep(c, n, t, exc, again) ==
  CatchAt(c, n, t, [t EXCEPT !.state = "CATCH", !.exc = exc],
          From(c.drop, t.ds) \o again, c.frames)
CaughtThrowing(c, n, t, exc, again) ==
  CatchAt(c, n, t, [t EXCEPT !.state = "THROW", !.exc = exc],
          From(c.drop, t.ds) \o again, t.fs)

Caught(c, n, t, exc, again) ==
  CatchAt(c, n, t, [t EXCEPT !.state = "CATCH", !.exc = exc],
          From(c.drop, t.ds) \o again, t.fs)

\* "an exception was thrown while handling another exception"
Abort == status' = "abort" /\ UNCHANGED <<co, fin, groupVars>>

\* A __drop__ that throws on the way finds t in TRY_THROW.
DropFails(c, t) == From(c.drop, t.ds) # <<>> /\ Abort

\* TRY_CATCH: a handler threw; run the finally block, then throw on.
LeavesHandler(c, n, t, exc, again) ==
  /\ co' = ToFinally(c, SubSeq(c.tries, 1, n - 1),
                     [t EXCEPT !.state = "THROW", !.end = Rethrow, !.exc = exc])
  /\ Began(t.id)
  /\ Dropped(again)
  /\ UNCHANGED status

\* DoThrow, from co_state c; M is noted, and the objects of the scopes in again
\* were dropped by the __drop__ calls that led here.
DoThrow(c, exc, M, again) ==
  LET d == Catcher(c)
      n == Top(d)
      t == d.tries[n]
      Finally == IF In("finally", t.id) \in Range(d.nest) THEN {"throwFinally"} ELSE {}
      Note(N) == marks' = marks \cup M \cup N \cup
                   (IF Aborting(c) /\ c.drop # <<>> THEN {"throwGen"} ELSE {})
  IN /\ caller' = IF Aborting(c) THEN NoCo ELSE caller
     /\ UNCHANGED gen
     /\ \/ /\ t.state = "TRY"
           /\ \/ /\ Caught(d, n, t, exc, again)
                 /\ Note(Finally)
              \/ DropFails(d, t) /\ Note({"throwDrop"})
        \/ /\ t.state = "CATCH"
           /\ LeavesHandler(d, n, t, exc, again)
           /\ Note({"throwHandler"} \cup IF d.frames # t.fs THEN {"throwCall"} ELSE {})
        \/ /\ t.state = "THROW"
           /\ Abort
           /\ Note(Finally)

-----------------------------------------------------------------------------
(* Statements                                                               *)

Init == /\ co = State(<<Try(State(<<>>), 0)>>)
        /\ caller = NoCo
        /\ gen = State(<<>>)
        /\ throws = <<>>
        /\ status = "run"
        /\ fin = <<>> /\ drops = <<>> /\ failed = {}
        /\ raised = 0
        /\ marks = {}

\* A statement may begin here, not in the middle of matching an exception.
Stmt == Running /\ ~ Inside("match")
Depth(c) == IF c = NoCo THEN 0 ELSE Len(c.nest)
CanOpen == Stmt /\ Depth(co) + Depth(caller) + Depth(gen) < MaxNest

Loop == /\ CanOpen
        /\ Open(In("loop", 0))
        /\ UNCHANGED <<caller, gen, throws, status, fin, groupVars, raised, marks>>

\* A call of a function: a frame is pushed.
Call == /\ CanOpen
        /\ co' = [co EXCEPT !.nest = Append(@, In("call", 0)), !.frames = @ + 1]
        /\ UNCHANGED <<caller, gen, throws, status, fin, groupVars, raised, marks>>

\* A block or a pattern with resources: PUSH_DROP_GROUP.
Scope == /\ CanOpen /\ Len(drops) < MaxGroups
         /\ drops' = Append(drops, 0)
         /\ co' = [co EXCEPT !.nest = Append(@, In("scope", Len(drops'))),
                             !.drop = Append(@, Len(drops'))]
         /\ UNCHANGED <<caller, gen, throws, status, fin, failed, raised, marks>>

\* TRY
EnterTry == /\ CanOpen /\ Len(fin) < MaxTries
            /\ fin' = Append(fin, 0)
            /\ co' = [co EXCEPT !.nest = Append(@, In("body", Len(fin'))),
                                !.tries = Append(@, Try(co, Len(fin')))]
            /\ UNCHANGED <<caller, gen, throws, status, groupVars, raised, marks>>

\* The end of a loop, of the program, or of a function that ends without return.
LoopEnds == /\ Running /\ Inside("loop")
            /\ co' = [co EXCEPT !.nest = Front(@)]
            /\ UNCHANGED <<caller, gen, throws, status, fin, groupVars, raised, marks>>

CallEnds == /\ Running /\ Inside("call")
            /\ co' = [co EXCEPT !.nest = Front(@), !.frames = @ - 1]
            /\ UNCHANGED <<caller, gen, throws, status, fin, groupVars, raised, marks>>

ProgramEnds == /\ Running /\ co.nest = <<>> /\ caller = NoCo
               /\ status' = "end"
               /\ UNCHANGED <<co, caller, gen, throws, fin, groupVars, raised, marks>>

\* DROP at the end of a block.
ScopeEnds == /\ Running /\ Inside("scope")
             /\ Dropped(<<Last(co.drop)>>)
             /\ co' = [co EXCEPT !.nest = Front(@), !.drop = Front(@)]
             /\ UNCHANGED <<caller, gen, throws, status, fin, raised, marks>>

\* The head of a loop does not match: a while-let or the `while` of a for-each
\* leaves the loop, the `if` of a for-each goes on with it.  No DROP is on the way.
HeadFails == /\ Running /\ Inside("scope")
             /\ Len(co.nest) > 1 /\ co.nest[Len(co.nest) - 1].kind = "loop"
             /\ \E out \in {0, 1} :
                  co' = [co EXCEPT !.nest = SubSeq(@, 1, Len(@) - 1 - out)]
             /\ failed' = failed \cup {Inner.id}
             /\ marks' = marks \cup {"leaveGroup"}
             /\ UNCHANGED <<caller, gen, throws, status, fin, drops, raised>>

\* A case of a match expression does not match: DISCARD_DROP_GROUP.
CaseFails == /\ Running /\ Inside("scope")
             /\ co' = [co EXCEPT !.nest = Front(@), !.drop = Front(@)]
             /\ failed' = failed \cup {Last(co.drop)}
             /\ UNCHANGED <<caller, gen, throws, status, fin, drops, raised, marks>>

\* A case of a match statement that binds resources ends: its DROP has no
\* PUSH_DROP_GROUP, and the objects went to the scope around the statement.
\* Without one PUSH_DROP has written outside of DROP_STACK already.
CaseEnds == /\ Stmt /\ co.drop # <<>>
            /\ Dropped(<<Last(co.drop)>>)
            /\ co' = [co EXCEPT !.drop = Front(@)]
            /\ marks' = marks \cup {"bareDrop"}
            /\ UNCHANGED <<caller, gen, throws, status, fin, raised>>

\* The body is over: JUMP finally, with the try still in TRY_TRY.
BodyEnds == /\ Running /\ Inside("body")
            /\ Become(In("finally", Inner.id))
            /\ Began(Inner.id)
            /\ UNCHANGED <<caller, gen, throws, status, groupVars, raised, marks>>

\* A pattern matches the exception.
Match == /\ Running /\ Inside("match")
         /\ Become(In("handler", Inner.id))
         /\ UNCHANGED <<caller, gen, throws, status, fin, groupVars, raised, marks>>

\* RETHROW: none does.
NoMatch == /\ Running /\ Inside("match")
           /\ LET t == Last(co.tries)
              IN /\ co' = ToFinally(co, Front(co.tries),
                                    [t EXCEPT !.state = "THROW", !.end = Rethrow])
                 /\ Began(t.id)
           /\ UNCHANGED <<caller, gen, throws, status, groupVars, raised, marks>>

\* Mutants: the oldest entry of THROW_STACK is popped; none is; the finally block is
\* jumped over.
HandlerEndsOldest == /\ Running /\ Inside("handler")
                     /\ throws' = Tail(throws)
                     /\ co' = [co EXCEPT !.nest = Append(Front(@), In("finally", Inner.id)),
                                         !.tries[Len(co.tries)].state = "FINALLY"]
                     /\ Began(Inner.id)
                     /\ UNCHANGED <<caller, gen, status, groupVars, raised, marks>>
HandlerEndsKeeping == /\ Running /\ Inside("handler")
                      /\ co' = [co EXCEPT !.nest = Append(Front(@), In("finally", Inner.id)),
                                          !.tries[Len(co.tries)].state = "FINALLY"]
                      /\ Began(Inner.id)
                      /\ UNCHANGED <<caller, gen, throws, status, groupVars, raised, marks>>
HandlerEndsPast == /\ Running /\ Inside("handler")
                   /\ throws' = Front(throws)
                   /\ co' = [co EXCEPT !.nest = Front(@), !.tries = Front(@)]
                   /\ UNCHANGED <<caller, gen, status, fin, groupVars, raised, marks>>

\* CATCH at the end of a handler.
HandlerEnds == /\ Running /\ Inside("handler")
               /\ throws' = Front(throws)
               /\ co' = [co EXCEPT !.nest = Append(Front(@), In("finally", Inner.id)),
                                   !.tries[Len(co.tries)].state = "FINALLY"]
               /\ Began(Inner.id)
               /\ UNCHANGED <<caller, gen, status, groupVars, raised, marks>>

\* END_TRY, with TRY_STACK as it is after the pop
EndWith(ts) == /\ Running /\ Inside("finally")
               /\ LET t == Last(co.tries)
                      popped == [co EXCEPT !.tries = ts]
                  IN IF t.end.throw THEN DoThrow(popped, Last(throws), {}, <<>>)
                     ELSE /\ co' = [popped EXCEPT !.nest = t.end.nest, !.todo = t.end.todo]
                          /\ UNCHANGED <<caller, gen, status, fin, groupVars, marks>>
               /\ UNCHANGED <<throws, raised>>

\* Mutant: the try is left on the stack.
EndTryKeeping == EndWith(co.tries)

EndTry == EndWith(Front(co.tries))

\* THROW, or an error raised by the runtime: RaiseException.
Throw == /\ Running /\ raised < MaxRaised
         /\ raised' = raised + 1
         /\ throws' = Append(throws, raised')
         /\ DoThrow(co, raised', {}, <<>>)

\* A __drop__ throws at the end of a block: its scope is still on DROP_STACK.
DropThrows == /\ Running /\ Inside("scope") /\ raised < MaxRaised
              /\ raised' = raised + 1
              /\ throws' = Append(throws, raised')
              /\ DoThrow(co, raised', {"throwDrop"}, <<Last(co.drop)>>)

-----------------------------------------------------------------------------
(* Leaving several constructs at once                                       *)

\* The instructions for leaving the constructs in left: FINALLY for each try in
\* K, then DROP for each resource scope, then op.
Leave(left, K, op) == [i \in 1 .. Count(left, K) |-> Insn("FINALLY", 0)]
                        \o [i \in 1 .. Count(left, {"scope"}) |-> Insn("DROP", 0)]
                        \o <<op>>
Left(left) ==
  marks' = marks \cup (IF Count(left, {"handler"}) > 0 THEN {"leaveHandler"} ELSE {})
                 \cup (IF Count(left, {"finally"}) > 0 THEN {"leaveFinally"} ELSE {})

\* emit_return: refused when the innermost try of the function is in its finally
\* block, otherwise FINALLY for every try of the function.
Return == /\ Stmt /\ Calls(co.nest) # {}
          /\ LET left == From(co.nest, Base(co.nest))
                 tries == SelectSeq(left, LAMBDA n : n.kind \in TryKinds)
             IN /\ tries # <<>> => Last(tries).kind # "finally"
                /\ co' = [co EXCEPT !.todo = Leave(left, TryKinds, Insn("RETURN", 0))]
                /\ Left(left)
          /\ UNCHANGED <<caller, gen, throws, status, fin, groupVars, raised>>

\* STATEMENT_BREAK and STATEMENT_CONTINUE, to any loop of the function: FINALLY
\* for every try on the way that is not in its finally block.
Jump == /\ Stmt
        /\ \E l \in Base(co.nest) + 1 .. Len(co.nest), back \in {0, 1} :
             /\ co.nest[l].kind = "loop"
             /\ LET left == From(co.nest, l)
                IN /\ co' = [co EXCEPT !.todo = Leave(left, TryKinds \ {"finally"},
                                                      Insn("JUMP", l - back))]
                   /\ Left(left)
        /\ UNCHANGED <<caller, gen, throws, status, fin, groupVars, raised>>

Leaving(op) == status = "run" /\ co.todo # <<>> /\ Head(co.todo).op = op

\* FINALLY: run the finally block of the current try and come back.
FinallyInsn == /\ Leaving("FINALLY")
               /\ LET t == Last(co.tries)
                  IN /\ co' = ToFinally(co, Front(co.tries),
                                [t EXCEPT !.state = "FINALLY",
                                          !.end = Goto(co.nest, Tail(co.todo))])
                     /\ Began(t.id)
               /\ UNCHANGED <<caller, gen, throws, status, groupVars, raised, marks>>

DropInsn == /\ Leaving("DROP")
            /\ Dropped(<<Last(co.drop)>>)
            /\ co' = [co EXCEPT !.drop = Front(@), !.todo = Tail(@)]
            /\ UNCHANGED <<caller, gen, throws, status, fin, raised, marks>>

JumpInsn == /\ Leaving("JUMP")
            /\ co' = [co EXCEPT !.nest = SubSeq(@, 1, Head(co.todo).to), !.todo = Tail(@)]
            /\ UNCHANGED <<caller, gen, throws, status, fin, groupVars, raised, marks>>

ReturnInsn == /\ Leaving("RETURN")
              /\ co' = [co EXCEPT !.nest = SubSeq(@, 1, Base(@) - 1), !.todo = <<>>,
                                  !.frames = @ - 1]
              /\ UNCHANGED <<caller, gen, throws, status, fin, groupVars, raised, marks>>

-----------------------------------------------------------------------------
(* The generator                                                            *)

\* call_co: swap the co_states.
Resume == /\ Stmt /\ caller = NoCo /\ gen # NoCo
          /\ caller' = co /\ co' = gen /\ gen' = NoCo
          /\ UNCHANGED <<throws, status, fin, groupVars, raised, marks>>

Handling(c) == {i \in DOMAIN c.tries : c.tries[i].state \in {"CATCH", "THROW"}}

\* co_yield_value: swap them back, and go on with todo when resumed.
YieldTo(todo, M) ==
  /\ caller # NoCo
  /\ gen' = [co EXCEPT !.todo = todo] /\ co' = caller /\ caller' = NoCo
  /\ marks' = marks \cup M \cup (IF Handling(co) # {} THEN {"yieldHandler"} ELSE {})
  /\ UNCHANGED <<throws, status, fin, groupVars, raised>>

Yield == Stmt /\ Calls(co.nest) = {} /\ YieldTo(<<>>, {})

\* The end of the generator's code: YIELD_NONE, for ever.
End == <<Insn("YIELD_NONE", 0)>>

\* STATEMENT_GENERATOR_RETURN: yield the value, then JUMP to the end, without
\* FINALLY and DROP.
GeneratorReturn ==
  /\ Stmt /\ Calls(co.nest) = {}
  /\ YieldTo(<<Insn("JUMP", 0)>> \o End,
             IF Count(co.nest, TryKinds \cup {"scope"}) > 0 THEN {"returnGen"} ELSE {})

\* The body of the generator is over.
GeneratorEnds == /\ Running /\ caller # NoCo /\ co.nest = <<>>
                 /\ co' = [co EXCEPT !.todo = End]
                 /\ UNCHANGED <<caller, gen, throws, status, fin, groupVars, raised, marks>>

YieldNone == Leaving("YIELD_NONE") /\ YieldTo(End, {})

Over == status # "run" /\ UNCHANGED vars

Next == \/ Loop \/ Call \/ Scope \/ EnterTry
        \/ LoopEnds \/ CallEnds \/ ScopeEnds \/ ProgramEnds
        \/ HeadFails \/ CaseFails \/ CaseEnds
        \/ BodyEnds \/ Match \/ NoMatch \/ HandlerEnds \/ EndTry
        \/ Throw \/ DropThrows
        \/ Return \/ Jump \/ FinallyInsn \/ DropInsn \/ JumpInsn \/ ReturnInsn
        \/ Resume \/ Yield \/ GeneratorReturn \/ GeneratorEnds \/ YieldNone
        \/ Over

Spec == Init /\ [][Next]_vars

-----------------------------------------------------------------------------
(* Properties                                                               *)

States == {c \in {co, caller, gen} : c # NoCo}
Ids(s) == [i \in DOMAIN s |-> s[i].id]
OpenTries(c) == Ids(SelectSeq(c.nest, LAMBDA n : n.kind \in TryKinds))

\* Everything stays in the range of its type; the try of the embedder is never
\* popped, and END_TRY, CATCH and DROP always find an entry on their stack.
TypeOK ==
  /\ status \in {"run", "end", "abort"}
  /\ failed \subseteq DOMAIN drops
  /\ marks \subseteq Marks
  /\ \A c \in States : /\ \A i \in DOMAIN c.nest : c.nest[i].kind \in Kinds
                       /\ \A i \in DOMAIN c.tries :
                            c.tries[i].state \in {"TRY", "CATCH", "THROW", "FINALLY"}
  /\ (caller = NoCo /\ status = "run") => co.tries # <<>> /\ co.tries[1].id = 0

\* The generator has returned from inside a try or a resource scope.
Abandoned(c) == "returnGen" \in marks /\ c.todo # <<>> /\ Last(c.todo) = Last(End)

Mirrored ==
  \A c \in States :
    Abandoned(c) \/ Ids(SelectSeq(c.tries, LAMBDA t : t.id # 0)) = OpenTries(c)

\* Between two statements TRY_STACK of every coroutine mirrors the try statements
\* the program is inside of, so that CATCH, END_TRY and FINALLY, which all act on
\* the current try, act on the right one: unless a finally block was left early.
\* A generator that has returned from inside a try runs none of them any more.
TriesMirrorNesting ==
  /\ TypeOK
  /\ (Running /\ Without({"leaveFinally"})) => Mirrored

\* The try statements that c is still inside of, or never leaves.
Within(c) == Range(OpenTries(c)) \cup IF Abandoned(c) THEN Range(Ids(c.tries)) ELSE {}

\* A finally block runs once for each time its try statement is entered, on every
\* way out: the end of the body or of a handler, an exception that passes, return,
\* break and continue; unless a finally block threw or was left early.  The one way
\* out that skips it is the return of a generator.
FinallyRunsOnce ==
  (status # "abort" /\ Without({"leaveFinally", "throwFinally"})) =>
    \A id \in DOMAIN fin :
      /\ fin[id] <= 1
      /\ (co.todo = <<>> /\ \A c \in States : id \notin Within(c)) => fin[id] = 1

\* What END_TRY throws on after the finally block is the exception that brought the
\* try there, although THROW_STACK is shared by all handlers and coroutines: unless
\* one was left with its entry still on the stack, or the generator yielded inside.
RethrowsOwn ==
  (Running /\ Inside("finally") /\ Last(co.tries).state = "THROW"
     /\ Without({"leaveHandler", "throwHandler", "leaveFinally", "yieldHandler"})) =>
    Last(throws) = Last(co.tries).exc

\* The entries of THROW_STACK, which are roots of the collector and the causes of
\* later errors, are those of the exceptions being handled.
ThrowsAreHandled ==
  (Running /\ Without({"leaveHandler", "throwHandler", "leaveFinally"})) =>
    Len(throws) = Cardinality(Handling(co))
                    + (IF caller = NoCo THEN 0 ELSE Cardinality(Handling(caller)))
                    + (IF gen = NoCo THEN 0 ELSE Cardinality(Handling(gen)))

\* The resource scopes in nest n, and those that c is inside of or, in a finally
\* block on its way out of several constructs, has not dropped yet.
Scopes(n) == {n[i].id : i \in {j \in DOMAIN n : n[j].kind = "scope"}}
OpenScopes(c) ==
  Scopes(c.nest) \cup UNION {Scopes(c.tries[i].end.nest) :
                               i \in {j \in DOMAIN c.tries : c.tries[j].state = "FINALLY"}}

\* The scopes that wait for the exception that passes to be caught, and those of a
\* generator that returned from inside of them.
Waiting(c) ==
  IF Abandoned(c) THEN Range(c.drop)
  ELSE UNION {Range(From(c.drop, c.tries[i].ds)) :
                i \in {j \in DOMAIN c.tries : c.tries[j].end.throw}}

\* A resource is never dropped twice, nor while its block is open, unless a __drop__
\* threw or a match statement dropped the scope around it; and it has been dropped
\* by the time its block is left, on every way out but the return of a generator,
\* unless the generator threw, a finally block was left early, or the head of a loop
\* failed with its scope open.  A scope whose pattern did not match is let go.
DroppedOnce ==
  (status = "run" /\ co.todo = <<>> /\ Without({"throwDrop", "bareDrop"})) =>
    \A d \in DOMAIN drops :
      /\ drops[d] <= 1
      /\ (\E c \in States : d \in Scopes(c.nest)) => drops[d] = 0
      /\ (/\ d \notin failed
          /\ Without({"throwGen", "leaveFinally", "leaveGroup"})
          /\ \A c \in States : d \notin OpenScopes(c) \cup Waiting(c)) => drops[d] = 1

\* The program runs in the frame of its own function.
FramesMirrorCalls ==
  (Running /\ Without({"throwCall"})) =>
    \A c \in States : c.frames = Cardinality(Calls(c.nest))

\* abort() is only reached from a finally block or a __drop__ that throws.
AbortsOnlyOnDoubleThrow ==
  status = "abort" => ~ Without({"throwFinally", "throwDrop"})

\* An exception thrown by a finally block goes to the enclosing try: the handlers of
\* the block's own try are behind it.
FinallyThrowEscapes ==
  \A c \in {x \in States : x.todo = <<>>} : \A i \in DOMAIN c.nest :
    c.nest[i].kind \in {"match", "handler"} => fin[c.nest[i].id] = 0

=============================================================================
