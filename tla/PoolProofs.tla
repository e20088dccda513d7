----------------------------- MODULE PoolProofs -----------------------------
(***************************************************************************)
(* For any number of threads, calls and jobs: a thread's handle outlives   *)
(* the thread's use of it, the thread is reclaimed exactly once, whoever   *)
(* joins, detaches or drops it, and a timed join is woken; the pool runs   *)
(* every job at most once, loses none, and ends when its workers have.     *)
(*                                                                         *)
(* HandleInv does not mention the group: what a thread does before it      *)
(* exits does not matter to its handle.  What the pool does to its queue   *)
(* and to the handles of its workers are steps of SharedQueue and of       *)
(* ThreadHandle, so what is proved of those holds in the pool as well.     *)
(***************************************************************************)
EXTENDS PoolStepProofs, ThreadGroupProofs

-----------------------------------------------------------------------------
(* Handles: the invariant *)

\* What holds of every handle: the pin is kept to the end of the thread, a call
\* in progress keeps the handle held, and a flag or a join that has returned
\* means that pthreads has been told.
Handles ==
  /\ \A c \in Client : joiner[c].at # "none" => joiner[c].of \in Worker
  /\ \A t \in Worker :
       /\ ~ handle[t].pinned => life[t] = "ended"
       /\ handle[t].freed => ~ handle[t].held /\ ~ handle[t].pinned
       /\ ~ handle[t].held => \A c \in Client : ~ InCall(c, t)
       /\ handle[t].joined \/ handle[t].detached \/ handle[t].freed => os[t] # "joinable"
       /\ \A c \in Client : InCall(c, t) /\ joiner[c].at = "lock" => os[t] # "joinable"

\* What holds of a handle that no two calls overlapped on: one call at a time,
\* none after a join or a detach, and pthreads has been told only by those.
Single ==
  \A t \in Worker \ overlapped :
    /\ t \notin misused
    /\ \A c, d \in Client : InCall(c, t) /\ InCall(d, t) => c = d
    /\ \A c \in Client : InCall(c, t) => ~ handle[t].joined /\ ~ handle[t].detached
    /\ \A c \in Client : InCall(c, t) /\ joiner[c].at = "waiting" => life[t] \in {"runs", "dead"}
    /\ os[t] # "joinable" => \/ handle[t].joined \/ handle[t].detached \/ handle[t].freed
                             \/ \E c \in Client : InCall(c, t) /\ joiner[c].at = "lock"

\* The inductive invariant of the handles.
HandleInv == HandleTypeOK /\ Handles /\ Single

\* What a step may do to the handles.
HandleStep ==
  \/ \E t \in Worker : \/ NotAlive(t) \/ SignalExit(t) \/ ThreadEnds(t)
                       \/ DropHandle(t) \/ Finalize(t)
  \/ \E c \in Client : Join(c)
  \/ \E c \in Client, t \in Worker : JoinCall(c, t) \/ TimedJoinCall(c, t) \/ Detach(c, t)
  \/ UNCHANGED handleVars

\* HandleInv gives the properties of ThreadHandle.
LEMMA HandleConsequences ==
  ASSUME HandleInv
  PROVE  HandleOutlivesThread /\ ReclaimedOnce /\ ExitWakesJoiner
<1>1. HandleOutlivesThread
  BY Zenon DEF HandleInv, Handles, HandleOutlivesThread
<1>2. ReclaimedOnce
  BY Zenon DEF HandleInv, HandleTypeOK, Handles, Single, ReclaimedOnce
<1>3. ExitWakesJoiner
  BY DEF HandleInv, Handles, Single, InCall, ExitWakesJoiner
<1>4. QED
  BY <1>1, <1>2, <1>3, Zenon

-----------------------------------------------------------------------------
(* Handles: the end of a thread *)

\* alive = false, the signal, and the end of the thread function.
LEMMA ThreadEndsKeeps ==
  ASSUME HandleInv, NEW t \in Worker, NotAlive(t) \/ SignalExit(t) \/ ThreadEnds(t)
  PROVE  HandleInv'
<1> DEFINE H == [joined : BOOLEAN, detached : BOOLEAN, pinned : BOOLEAN, held : BOOLEAN,
                 freed : BOOLEAN]
<1>t. /\ life \in [Worker -> {"runs", "dead", "signalled", "ended"}]
      /\ handle \in [Worker -> H]
      /\ joiner \in [Client -> [at : {"none", "mutex", "waiting", "join", "lock"},
                                of : Worker \cup {NoThread}]]
  BY Zenon DEF HandleInv, HandleTypeOK
<1> HIDE DEF H
<1>0. UNCHANGED <<os, misused, overlapped>>
  BY Zenon DEF NotAlive, SignalExit, ThreadEnds
<1>1. CASE NotAlive(t)
  <2>1. life' = [life EXCEPT ![t] = "dead"] /\ life[t] = "runs" /\ UNCHANGED <<handle, joiner>>
    BY <1>1, Zenon DEF NotAlive
  <2>2. HandleTypeOK'
    BY <1>0, <1>t, <2>1, Zenon DEF HandleInv, HandleTypeOK
  <2>3. Handles' /\ Single'
    BY <1>0, <1>t, <2>1 DEF HandleInv, Handles, Single, InCall
  <2>4. QED
    BY <2>2, <2>3, Zenon DEF HandleInv
<1>2. CASE ThreadEnds(t)
  <2>1. /\ life' = [life EXCEPT ![t] = "ended"] /\ life[t] = "signalled"
        /\ handle' = [handle EXCEPT ![t].pinned = FALSE] /\ UNCHANGED joiner
    BY <1>2, Zenon DEF ThreadEnds
  <2>2. /\ handle' \in [Worker -> H]
        /\ \A u \in Worker : u # t => handle'[u] = handle[u]
        /\ handle'[t] = [handle[t] EXCEPT !.pinned = FALSE]
    BY <1>t, <2>1, Zenon DEF H
  <2>3. /\ handle'[t].pinned = FALSE
        /\ \A u \in Worker : /\ handle'[u].held = handle[u].held
                             /\ handle'[u].joined = handle[u].joined
                             /\ handle'[u].detached = handle[u].detached
                             /\ handle'[u].freed = handle[u].freed
                             /\ u # t => handle'[u].pinned = handle[u].pinned
    BY <1>t, <2>2 DEF H
  <2>4. HandleTypeOK'
    BY <1>0, <1>t, <2>1, <2>2, Zenon DEF HandleInv, HandleTypeOK, H
  <2>5. Handles'
    BY <1>0, <1>t, <2>1, <2>3 DEF HandleInv, Handles, InCall
  <2>6. Single'
    BY <1>0, <1>t, <2>1, <2>3 DEF HandleInv, Single, InCall
  <2>7. QED
    BY <2>4, <2>5, <2>6, Zenon DEF HandleInv
<1>3. CASE SignalExit(t)
  <2>1. /\ life' = [life EXCEPT ![t] = "signalled"] /\ life[t] = "dead" /\ UNCHANGED handle
        /\ \/ /\ UNCHANGED joiner
              /\ \A c \in Client : ~ (InCall(c, t) /\ joiner[c].at = "waiting")
           \/ \E c \in Client : /\ InCall(c, t) /\ joiner[c].at = "waiting"
                                /\ joiner' = [joiner EXCEPT ![c] = [at |-> "mutex", of |-> t]]
    BY <1>3, Zenon DEF SignalExit, Joining, JoinerAt, InCall
  <2>2. CASE /\ UNCHANGED joiner
             /\ \A c \in Client : ~ (InCall(c, t) /\ joiner[c].at = "waiting")
    <3>1. HandleTypeOK'
      BY <1>0, <1>t, <2>1, <2>2, Zenon DEF HandleInv, HandleTypeOK
    <3>2. Handles' /\ Single'
      BY <1>0, <1>t, <2>1, <2>2 DEF HandleInv, Handles, Single, InCall
    <3>3. QED
      BY <3>1, <3>2, Zenon DEF HandleInv
  <2>3. ASSUME NEW c \in Client, InCall(c, t), joiner[c].at = "waiting",
               joiner' = [joiner EXCEPT ![c] = [at |-> "mutex", of |-> t]]
        PROVE  HandleInv'
    <3>1. HandleTypeOK'
      BY <1>0, <1>t, <2>1, <2>3, Zenon DEF HandleInv, HandleTypeOK
    <3>2. /\ joiner'[c].at = "mutex" /\ joiner'[c].of = t
          /\ \A d \in Client : d # c => joiner'[d] = joiner[d]
          /\ \A d \in Client, u \in Worker : InCall(d, u)' <=> InCall(d, u)
      BY <1>t, <2>3, Zenon DEF InCall
    <3>3. Handles'
      BY <1>0, <1>t, <2>1, <2>3, <3>2, Zenon DEF HandleInv, Handles
    <3>4. Single'
      BY <1>0, <1>t, <2>1, <2>3, <3>2 DEF HandleInv, Single
    <3>5. QED
      BY <3>1, <3>3, <3>4, Zenon DEF HandleInv
  <2>4. QED
    BY <2>1, <2>2, <2>3, Zenon
<1>4. QED
  BY <1>1, <1>2, <1>3, Zenon

-----------------------------------------------------------------------------
(* Handles: thread.join() *)

\* The type of a handle, for the steps below.
Handle == [joined : BOOLEAN, detached : BOOLEAN, pinned : BOOLEAN, held : BOOLEAN,
           freed : BOOLEAN]

\* thread.join() begins, with or without a timeout.
LEMMA JoinCallKeeps ==
  ASSUME HandleInv, NEW c \in Client, NEW t \in Worker, JoinCall(c, t) \/ TimedJoinCall(c, t)
  PROVE  HandleInv'
<1>t. joiner \in [Client -> Joiner] /\ handle \in [Worker -> Handle]
  BY Zenon DEF HandleInv, HandleTypeOK, Handle, Joiner
<1>1. /\ UNCHANGED <<life, handle, os>> /\ joiner[c].at = "none"
      /\ handle[t].held /\ ~ handle[t].joined
      /\ overlapped' = IF Joining(t) # {} \/ handle[t].detached THEN overlapped \cup {t}
                       ELSE overlapped
  BY Zenon DEF JoinCall, TimedJoinCall, Overlap
<1>2. PICK l \in {"mutex", "join"} :
        /\ JoinerAt(c, l, t)
        /\ \/ UNCHANGED misused
           \/ misused' = IF os[t] # "joinable" \/ InOsJoin(t) # {} THEN misused \cup {t}
                         ELSE misused
  BY Zenon DEF JoinCall, TimedJoinCall, OsCall
<1>3. /\ joiner' \in [Client -> Joiner]
      /\ joiner'[c].at = l /\ joiner'[c].of = t
      /\ \A d \in Client : d # c => joiner'[d] = joiner[d]
      /\ \A d \in Client, u \in Worker : d # c => (InCall(d, u)' <=> InCall(d, u))
      /\ \A u \in Worker : InCall(c, u)' <=> u = t
  BY <1>t, <1>2, JoinerMoves
<1>4. \A u \in Worker : ~ InCall(c, u)
  BY <1>1, Zenon DEF InCall
<1>5. HandleTypeOK'
  BY <1>1, <1>2, <1>3, Zenon DEF HandleInv, HandleTypeOK, Joiner
<1>6. Handles'
  <2>1. \A d \in Client : joiner'[d].at # "none" => joiner'[d].of \in Worker
    BY <1>3, Zenon DEF HandleInv, Handles
  <2>2. QED
    BY <1>1, <1>2, <1>3, <1>4, <2>1 DEF HandleInv, Handles
<1>7. ASSUME t \notin overlapped'
      PROVE  /\ misused' = misused /\ os[t] = "joinable"
             /\ ~ handle[t].detached /\ \A d \in Client : ~ InCall(d, t)
             /\ overlapped' = overlapped
  <2>1. Joining(t) = {} /\ ~ handle[t].detached /\ overlapped' = overlapped
    BY <1>1, <1>7, Zenon
  <2>2. (\A d \in Client : ~ InCall(d, t)) /\ InOsJoin(t) = {}
    BY <2>1, Zenon DEF Joining, InCall, InOsJoin
  <2>3. ~ handle[t].freed
    BY <1>1, Zenon DEF HandleInv, Handles
  <2>4. os[t] = "joinable"
    BY <1>1, <1>7, <2>1, <2>2, <2>3, Zenon DEF HandleInv, Single
  <2>5. QED
    BY <1>2, <2>1, <2>2, <2>4, Zenon
<1>8. Single'
  <2> SUFFICES ASSUME NEW u \in Worker, u \notin overlapped'
               PROVE  /\ u \notin misused'
                      /\ \A b, d \in Client : InCall(b, u)' /\ InCall(d, u)' => b = d
                      /\ \A d \in Client : InCall(d, u)' => ~ handle[u].joined /\ ~ handle[u].detached
                      /\ \A d \in Client : InCall(d, u)' /\ joiner'[d].at = "waiting"
                                             => life[u] \in {"runs", "dead"}
                      /\ os[u] # "joinable"
                           => \/ handle[u].joined \/ handle[u].detached \/ handle[u].freed
                              \/ \E d \in Client : InCall(d, u)' /\ joiner'[d].at = "lock"
    BY <1>1, Zenon DEF Single
  <2>1. u \notin overlapped
    BY <1>1, Zenon
  <2>2. CASE u = t
    BY <1>1, <1>2, <1>3, <1>7, <2>1, <2>2 DEF HandleInv, Single
  <2>3. CASE u # t
    BY <1>1, <1>2, <1>3, <1>4, <2>1, <2>3 DEF HandleInv, Single
  <2>4. QED
    BY <2>2, <2>3, Zenon
<1>9. QED
  BY <1>5, <1>6, <1>8, Zenon DEF HandleInv

\* thread.join() goes on and returns.
LEMMA JoinKeeps ==
  ASSUME HandleInv, NEW c \in Client, Join(c)
  PROVE  HandleInv'
<1> DEFINE t == joiner[c].of
<1>t. joiner \in [Client -> Joiner] /\ handle \in [Worker -> Handle]
  BY Zenon DEF HandleInv, HandleTypeOK, Handle, Joiner
<1>0. joiner[c].at # "none" /\ t \in Worker /\ InCall(c, t) /\ UNCHANGED <<life, overlapped>>
  BY Zenon DEF HandleInv, Handles, Join, TestAlive, JoinTimedOut, OsJoin, JoinReturn, InCall
<1>1. \A u \in Worker : InCall(c, u) => u = t
  BY Zenon DEF InCall
<1> HIDE DEF t
<1>2. CASE TestAlive(c)
  <2>1. /\ joiner[c].at = "mutex" /\ UNCHANGED <<handle, os>>
        /\ \/ life[t] = "runs" /\ JoinerAt(c, "waiting", t) /\ UNCHANGED misused
           \/ life[t] # "runs" /\ JoinerAt(c, "join", t) /\ OsCall(t)
    BY <1>2, Zenon DEF TestAlive, t
  <2>2. PICK l \in {"waiting", "join"} : JoinerAt(c, l, t) /\ (l = "waiting" => life[t] = "runs")
    BY <2>1, Zenon
  <2>3. /\ joiner' \in [Client -> Joiner]
        /\ joiner'[c].at = l /\ joiner'[c].of = t
        /\ \A d \in Client : d # c => joiner'[d] = joiner[d]
        /\ \A d \in Client, u \in Worker : InCall(d, u)' <=> InCall(d, u)
    BY <1>t, <1>0, <1>1, <2>2, JoinerMoves
  <2>4. misused' \subseteq misused \cup {t}
    BY <2>1, Zenon DEF OsCall
  <2>5. t \notin overlapped => misused' = misused
    <3> SUFFICES ASSUME t \notin overlapped PROVE misused' = misused
      OBVIOUS
    <3>1. InOsJoin(t) = {}
      BY <1>0, <2>1 DEF InOsJoin, Joining, InCall, HandleInv, Single
    <3>2. ~ handle[t].freed
      BY <1>0, <1>t, Zenon DEF HandleInv, Handles
    <3>3. os[t] = "joinable"
      BY <1>0, <2>1, <3>2, Zenon DEF HandleInv, Single
    <3>4. QED
      BY <2>1, <3>1, <3>3, Zenon DEF OsCall
  <2>6. HandleTypeOK'
    BY <1>0, <2>1, <2>3, <2>4, Zenon DEF HandleInv, HandleTypeOK, Joiner
  <2>7. Handles'
    BY <1>0, <2>1, <2>3, Zenon DEF HandleInv, Handles
  <2>8. Single'
    <3>1. \A u \in Worker \ overlapped : u \notin misused'
      BY <2>4, <2>5, Zenon DEF HandleInv, Single
    <3>2. QED
      BY <1>0, <1>1, <2>1, <2>2, <2>3, <3>1 DEF HandleInv, Single
  <2>9. QED
    BY <2>6, <2>7, <2>8, Zenon DEF HandleInv
<1>3. CASE JoinTimedOut(c)
  <2>1. joiner[c].at = "waiting" /\ JoinerAt(c, "none", NoThread) /\ UNCHANGED <<handle, os, misused>>
    BY <1>3, Zenon DEF JoinTimedOut
  <2>2. /\ joiner' \in [Client -> Joiner]
        /\ joiner'[c].at = "none"
        /\ \A d \in Client : d # c => joiner'[d] = joiner[d]
        /\ \A d \in Client, u \in Worker : InCall(d, u)' <=> d # c /\ InCall(d, u)
    BY <1>t, <2>1, JoinerMoves, Zenon
  <2>3. HandleTypeOK'
    BY <1>0, <2>1, <2>2, Zenon DEF HandleInv, HandleTypeOK, Joiner
  <2>4. Handles'
    BY <1>0, <2>1, <2>2, Zenon DEF HandleInv, Handles
  <2>5. Single'
    BY <1>0, <1>1, <2>1, <2>2 DEF HandleInv, Single
  <2>6. QED
    BY <2>3, <2>4, <2>5, Zenon DEF HandleInv
<1>4. CASE OsJoin(c)
  <2>1. /\ joiner[c].at = "join" /\ JoinerAt(c, "lock", t) /\ UNCHANGED <<handle, misused>>
        /\ os' = [os EXCEPT ![t] = "joined"]
    BY <1>4, Zenon DEF OsJoin, t
  <2>2. /\ joiner' \in [Client -> Joiner]
        /\ joiner'[c].at = "lock" /\ joiner'[c].of = t
        /\ \A d \in Client : d # c => joiner'[d] = joiner[d]
        /\ \A d \in Client, u \in Worker : InCall(d, u)' <=> InCall(d, u)
    BY <1>t, <1>0, <1>1, <2>1, JoinerMoves
  <2>3. os'[t] = "joined" /\ \A u \in Worker : u # t => os'[u] = os[u]
    BY <1>0, <2>1, Zenon DEF HandleInv, HandleTypeOK
  <2>4. HandleTypeOK'
    BY <1>0, <2>1, <2>2, Zenon DEF HandleInv, HandleTypeOK, Joiner
  <2>5. Handles'
    <3>1. \A d \in Client : joiner'[d].at # "none" => joiner'[d].of \in Worker
      BY <1>0, <2>2, Zenon DEF HandleInv, Handles
    <3>2. \A u \in Worker : /\ os[u] # "joinable" => os'[u] # "joinable"
                            /\ \A d \in Client : InCall(d, u)' /\ joiner'[d].at = "lock"
                                                  => os'[u] # "joinable"
      BY <1>0, <1>1, <2>2, <2>3 DEF HandleInv, Handles
    <3>3. QED
      BY <1>0, <2>1, <2>2, <3>1, <3>2, Zenon DEF HandleInv, Handles
  <2>6. Single'
    BY <1>0, <1>1, <2>1, <2>2, <2>3 DEF HandleInv, Single
  <2>7. QED
    BY <2>4, <2>5, <2>6, Zenon DEF HandleInv
<1>5. CASE JoinReturn(c)
  <2>1. /\ joiner[c].at = "lock" /\ JoinerAt(c, "none", NoThread) /\ UNCHANGED <<os, misused>>
        /\ handle' = [handle EXCEPT ![t].joined = TRUE]
    BY <1>5, Zenon DEF JoinReturn, t
  <2>2. /\ joiner' \in [Client -> Joiner]
        /\ joiner'[c].at = "none"
        /\ \A d \in Client : d # c => joiner'[d] = joiner[d]
        /\ \A d \in Client, u \in Worker : InCall(d, u)' <=> d # c /\ InCall(d, u)
    BY <1>t, <2>1, JoinerMoves, Zenon
  <2>3. /\ handle' \in [Worker -> Handle]
        /\ \A u \in Worker : u # t => handle'[u] = handle[u]
        /\ handle'[t] = [handle[t] EXCEPT !.joined = TRUE]
    BY <1>t, <1>0, <2>1, Zenon DEF Handle
  <2>4. /\ handle'[t].joined
        /\ \A u \in Worker : /\ handle'[u].held = handle[u].held
                             /\ handle'[u].pinned = handle[u].pinned
                             /\ handle'[u].detached = handle[u].detached
                             /\ handle'[u].freed = handle[u].freed
                             /\ u # t => handle'[u].joined = handle[u].joined
    BY <1>t, <1>0, <2>3 DEF Handle
  <2>5. os[t] # "joinable"
    BY <1>0, <2>1, Zenon DEF HandleInv, Handles
  <2>6. HandleTypeOK'
    BY <1>0, <2>1, <2>2, <2>3, Zenon DEF HandleInv, HandleTypeOK, Joiner, Handle
  <2>7. Handles'
    BY <1>0, <2>1, <2>2, <2>4, <2>5 DEF HandleInv, Handles
  <2>8. Single'
    BY <1>0, <1>1, <2>1, <2>2, <2>4, <2>5 DEF HandleInv, Single
  <2>9. QED
    BY <2>6, <2>7, <2>8, Zenon DEF HandleInv
<1>6. QED
  BY <1>2, <1>3, <1>4, <1>5, Zenon DEF Join

-----------------------------------------------------------------------------
(* Handles: thread.detach(), the last reference and the finalizer *)

\* thread.detach() of a handle that nothing else was called on finds the thread
\* joinable.
LEMMA DetachKeeps ==
  ASSUME HandleInv, NEW c \in Client, NEW t \in Worker, Detach(c, t)
  PROVE  HandleInv'
<1>t. joiner \in [Client -> Joiner] /\ handle \in [Worker -> Handle]
  BY Zenon DEF HandleInv, HandleTypeOK, Handle, Joiner
<1>1. /\ UNCHANGED <<life, joiner>> /\ handle[t].held
      /\ OsCall(t)
      /\ overlapped' = IF Joining(t) # {} \/ handle[t].joined \/ handle[t].detached
                       THEN overlapped \cup {t} ELSE overlapped
      /\ \/ /\ os' = [os EXCEPT ![t] = "detached"]
            /\ handle' = [handle EXCEPT ![t].detached = TRUE]
         \/ os[t] # "joinable" /\ UNCHANGED <<os, handle>>
  BY Zenon DEF Detach
<1>2. \A d \in Client, u \in Worker : InCall(d, u)' <=> InCall(d, u)
  BY <1>1, Zenon DEF InCall
<1>3. misused' \subseteq misused \cup {t} /\ overlapped \subseteq overlapped'
  BY <1>1, Zenon DEF OsCall
<1>4. ASSUME t \notin overlapped'
      PROVE  /\ misused' = misused /\ os[t] = "joinable"
             /\ \A d \in Client : ~ InCall(d, t)
  <2>1. Joining(t) = {} /\ ~ handle[t].detached /\ ~ handle[t].joined /\ t \notin overlapped
    BY <1>1, <1>4, Zenon
  <2>2. (\A d \in Client : ~ InCall(d, t)) /\ InOsJoin(t) = {}
    BY <2>1, Zenon DEF Joining, InCall, InOsJoin
  <2>3. ~ handle[t].freed
    BY <1>1, Zenon DEF HandleInv, Handles
  <2>4. os[t] = "joinable"
    BY <2>1, <2>2, <2>3, Zenon DEF HandleInv, Single
  <2>5. QED
    BY <1>1, <2>2, <2>4, Zenon DEF OsCall
<1>5. \A u \in Worker \ overlapped' : u \notin misused'
  BY <1>3, <1>4, Zenon DEF HandleInv, Single
<1>6. CASE os' = [os EXCEPT ![t] = "detached"] /\ handle' = [handle EXCEPT ![t].detached = TRUE]
  <2>1. /\ handle' \in [Worker -> Handle]
        /\ \A u \in Worker : u # t => handle'[u] = handle[u]
        /\ handle'[t] = [handle[t] EXCEPT !.detached = TRUE]
    BY <1>t, <1>6, Zenon DEF Handle
  <2>2. /\ handle'[t].detached
        /\ \A u \in Worker : /\ handle'[u].held = handle[u].held
                             /\ handle'[u].pinned = handle[u].pinned
                             /\ handle'[u].joined = handle[u].joined
                             /\ handle'[u].freed = handle[u].freed
                             /\ u # t => handle'[u].detached = handle[u].detached
    BY <1>t, <2>1 DEF Handle
  <2>3. os'[t] = "detached" /\ \A u \in Worker : u # t => os'[u] = os[u]
    BY <1>6, Zenon DEF HandleInv, HandleTypeOK
  <2>4. HandleTypeOK'
    BY <1>1, <1>3, <1>6, <2>1, Zenon DEF HandleInv, HandleTypeOK, Handle
  <2>5. Handles'
    <3>1. \A u \in Worker : os[u] # "joinable" => os'[u] # "joinable"
      BY <2>3, Zenon
    <3>2. QED
      BY <1>1, <1>2, <2>2, <2>3, <3>1 DEF HandleInv, Handles
  <2>6. Single'
    BY <1>1, <1>2, <1>3, <1>4, <1>5, <2>2, <2>3 DEF HandleInv, Single
  <2>7. QED
    BY <2>4, <2>5, <2>6, Zenon DEF HandleInv
<1>7. CASE os[t] # "joinable" /\ UNCHANGED <<os, handle>>
  <2>1. HandleTypeOK'
    BY <1>1, <1>3, <1>7, Zenon DEF HandleInv, HandleTypeOK
  <2>2. Handles'
    BY <1>1, <1>2, <1>7, Zenon DEF HandleInv, Handles
  <2>3. \A u \in Worker \ overlapped' : u # t /\ u \notin overlapped
    BY <1>3, <1>4, <1>7, Zenon
  <2>4. Single'
    BY <1>1, <1>2, <1>5, <1>7, <2>3, Zenon DEF HandleInv, Single
  <2>5. QED
    BY <2>1, <2>2, <2>4, Zenon DEF HandleInv
<1>8. QED
  BY <1>1, <1>6, <1>7, Zenon

\* The handle becomes unreachable; later it is finalized.
LEMMA DropKeeps ==
  ASSUME HandleInv, NEW t \in Worker, DropHandle(t) \/ Finalize(t)
  PROVE  HandleInv'
<1>t. joiner \in [Client -> Joiner] /\ handle \in [Worker -> Handle]
  BY Zenon DEF HandleInv, HandleTypeOK, Handle, Joiner
<1>0. UNCHANGED <<life, joiner, overlapped>>
  BY Zenon DEF DropHandle, Finalize
<1>1. \A d \in Client, u \in Worker : InCall(d, u)' <=> InCall(d, u)
  BY <1>0, Zenon DEF InCall
<1>2. CASE DropHandle(t)
  <2>1. /\ Joining(t) = {} /\ UNCHANGED <<os, misused>>
        /\ handle' = [handle EXCEPT ![t].held = FALSE]
    BY <1>2, Zenon DEF DropHandle
  <2>2. /\ handle' \in [Worker -> Handle]
        /\ \A u \in Worker : u # t => handle'[u] = handle[u]
        /\ handle'[t] = [handle[t] EXCEPT !.held = FALSE]
    BY <1>t, <2>1, Zenon DEF Handle
  <2>3. /\ ~ handle'[t].held
        /\ \A u \in Worker : /\ handle'[u].detached = handle[u].detached
                             /\ handle'[u].pinned = handle[u].pinned
                             /\ handle'[u].joined = handle[u].joined
                             /\ handle'[u].freed = handle[u].freed
                             /\ u # t => handle'[u].held = handle[u].held
    BY <1>t, <2>2 DEF Handle
  <2>4. \A d \in Client : ~ InCall(d, t)
    BY <2>1, Zenon DEF Joining, InCall
  <2>5. HandleTypeOK'
    BY <1>0, <2>1, <2>2, Zenon DEF HandleInv, HandleTypeOK, Handle
  <2>6. Handles'
    BY <1>0, <1>1, <2>1, <2>3, <2>4 DEF HandleInv, Handles
  <2>7. Single'
    BY <1>0, <1>1, <2>1, <2>3 DEF HandleInv, Single
  <2>8. QED
    BY <2>5, <2>6, <2>7, Zenon DEF HandleInv
<1>3. CASE Finalize(t)
  <2>1. /\ ~ handle[t].held /\ ~ handle[t].pinned /\ ~ handle[t].freed
        /\ \/ /\ ~ handle[t].joined /\ ~ handle[t].detached
              /\ OsCall(t)
              /\ os' = [os EXCEPT ![t] = IF life[t] = "runs" THEN "detached" ELSE "joined"]
           \/ (handle[t].joined \/ handle[t].detached) /\ UNCHANGED <<misused, os>>
        /\ handle' = [handle EXCEPT ![t].freed = TRUE]
    BY <1>3, Zenon DEF Finalize
  <2>2. /\ handle' \in [Worker -> Handle]
        /\ \A u \in Worker : u # t => handle'[u] = handle[u]
        /\ handle'[t] = [handle[t] EXCEPT !.freed = TRUE]
    BY <1>t, <2>1, Zenon DEF Handle
  <2>3. /\ handle'[t].freed
        /\ \A u \in Worker : /\ handle'[u].detached = handle[u].detached
                             /\ handle'[u].pinned = handle[u].pinned
                             /\ handle'[u].joined = handle[u].joined
                             /\ handle'[u].held = handle[u].held
                             /\ u # t => handle'[u].freed = handle[u].freed
    BY <1>t, <2>2 DEF Handle
  <2>4. os' \in [Worker -> {"joinable", "joined", "detached"}]
    BY <2>1, Zenon DEF HandleInv, HandleTypeOK
  <2>5. os'[t] # "joinable" /\ \A u \in Worker : u # t => os'[u] = os[u]
    BY <2>1, Zenon DEF HandleInv, HandleTypeOK, Handles
  <2>6. \A d \in Client : ~ InCall(d, t)
    BY <2>1, Zenon DEF HandleInv, Handles
  <2>7. misused' \subseteq misused \cup {t}
    BY <2>1, Zenon DEF OsCall
  <2>8. t \notin overlapped => misused' = misused
    <3> SUFFICES ASSUME t \notin overlapped, ~ handle[t].joined, ~ handle[t].detached, OsCall(t)
                 PROVE  misused' = misused
      BY <2>1, Zenon
    <3>1. InOsJoin(t) = {}
      BY <2>6, Zenon DEF InOsJoin, Joining, InCall
    <3>2. os[t] = "joinable"
      BY <2>1, <2>6, Zenon DEF HandleInv, Single
    <3>3. QED
      BY <3>1, <3>2, Zenon DEF OsCall
  <2>9. HandleTypeOK'
    BY <1>0, <2>2, <2>4, <2>7, Zenon DEF HandleInv, HandleTypeOK, Handle
  <2>10. Handles'
    <3>1. \A u \in Worker : os[u] # "joinable" => os'[u] # "joinable"
      BY <2>5, Zenon
    <3>2. QED
      BY <1>0, <1>1, <2>1, <2>3, <2>5, <3>1 DEF HandleInv, Handles
  <2>11. Single'
    <3>1. \A u \in Worker \ overlapped : u \notin misused'
      BY <2>7, <2>8, Zenon DEF HandleInv, Single
    <3>2. QED
      BY <1>0, <1>1, <2>3, <2>5, <2>6, <3>1 DEF HandleInv, Single
  <2>12. QED
    BY <2>9, <2>10, <2>11, Zenon DEF HandleInv
<1>4. QED
  BY <1>2, <1>3, Zenon

-----------------------------------------------------------------------------
(* Handles: the results *)

\* Every step keeps the invariant of the handles.
LEMMA HandleInvStep ==
  ASSUME HandleInv, HandleStep
  PROVE  HandleInv'
<1>1. CASE UNCHANGED handleVars
  BY <1>1 DEF handleVars, HandleInv, HandleTypeOK, Handles, Single, InCall
<1>2. QED
  BY <1>1, ThreadEndsKeeps, JoinCallKeeps, JoinKeeps, DetachKeeps, DropKeeps, Zenon
     DEF HandleStep

\* A handle starts pinned and held, its thread joinable.
LEMMA HandleInvInit == HandleInit => HandleInv
<1> SUFFICES ASSUME HandleInit PROVE HandleInv
  OBVIOUS
<1>1. handle \in [Worker -> Handle]
  BY Zenon DEF HandleInit, Handle
<1>2. HandleTypeOK
  BY <1>1, Zenon DEF HandleInit, HandleTypeOK, Handle
<1>3. Handles /\ Single
  BY Zenon DEF HandleInit, Handles, Single, InCall
<1>4. QED
  BY <1>2, <1>3, Zenon DEF HandleInv

\* A program that uses handles keeps their invariant.
LEMMA HandleInvHolds == HandleSpec => []HandleInv
<1>1. ASSUME [HandleNext(Worker)]_<<vars, handleVars>>
      PROVE  HandleStep
  BY <1>1, Zenon DEF HandleNext, HandleStep, Exit
<1>2. HandleInv /\ [HandleNext(Worker)]_<<vars, handleVars>> => HandleInv'
  BY <1>1, HandleInvStep, Zenon
<1>3. QED
  BY <1>2, HandleInvInit, PTL DEF HandleSpec

\* The finalizer of a thread's handle (gc.c) runs only when vm_run_thread has
\* used the handle for the last time, whatever the program calls on it and
\* whenever it drops it.
THEOREM HandleIsNotFreedEarly == HandleSpec => []HandleOutlivesThread
BY HandleInvHolds, HandleConsequences, PTL

\* A thread is joined or detached exactly once, by thread.join(),
\* thread.detach() or the finalizer, unless the program makes two calls on one
\* handle that overlap or uses one that it has detached.
THEOREM ThreadIsReclaimedOnce == HandleSpec => []ReclaimedOnce
BY HandleInvHolds, HandleConsequences, PTL

\* The one signal at the end of vm_run_thread reaches the timed join that
\* waits for it.
THEOREM EndOfThreadWakes == HandleSpec => []ExitWakesJoiner
BY HandleInvHolds, HandleConsequences, PTL

-----------------------------------------------------------------------------
(* The pool, its queue and its handles *)

\* __threads lists every worker.
LEMMA ThreadsFacts == ThreadsListed
<1> DEFINE N == Cardinality(Worker)
<1> DEFINE Injects(f) == \A m, n \in DOMAIN f : f[m] = f[n] => m = n
<1>1. IsFiniteSet(Worker)
  BY ThreadAssumption, HandleAssumption, FS_Subset, Zenon
<1>2. N \in Nat /\ ExistsBijection(1 .. N, Worker)
  BY <1>1, FS_CardinalityType, Zenon
<1>3. \E f \in [1 .. N -> Worker] : Injects(f)
  BY <1>2, Zenon DEF ExistsBijection, Bijection, Injection, IsInjective
<1>4. Threads \in [1 .. N -> Worker] /\ Injects(Threads)
  BY <1>3, Zenon DEF Threads
<1>5. Threads \in Injection(1 .. N, Worker)
  BY <1>4, Zenon DEF Injection, IsInjective
<1>6. Cardinality(1 .. N) = N
  BY <1>2, FS_Interval
<1>7. Threads \in Surjection(1 .. N, Worker)
  BY <1>1, <1>5, <1>6, FS_Injection, Zenon
<1>8. Threads \in Seq(Worker) /\ Len(Threads) = N
  BY <1>2, <1>4
<1>9. \A w \in Worker : \E n \in 1 .. N : Threads[n] = w
  BY <1>7, Zenon DEF Surjection
<1>10. QED
  BY <1>2, <1>4, <1>8, <1>9, Zenon DEF ThreadsListed

\* Under the queue and the group a step of the pool is a step of the queue, or a
\* thread that is in no method blocks, goes on or leaves.
LEMMA PoolStepKinds ==
  ASSUME Roles, [PoolNext]_poolAll
  PROVE  \/ [QueueNext]_allVars
         \/ \E t \in Thread : /\ at[t] = "idle" /\ UNCHANGED queueVars
                              /\ Block(t) \/ Unblock(t) \/ CleanupThread(t) \/ LeaveGroup(t)
<1> USE HandleAssumption
<1>1. CASE UNCHANGED poolAll
  BY <1>1, Zenon DEF poolAll
<1>2. ASSUME NEW w \in Worker, WorkerStep(w)
      PROVE  \/ [QueueNext]_allVars
             \/ /\ at[w] = "idle" /\ UNCHANGED queueVars
                /\ CleanupThread(w) \/ LeaveGroup(w)
  <2>1. CASE Setup(w) \/ Start(w) \/ Settle(w)
    BY <2>1, Zenon DEF Setup, Start, Settle
  <2>2. CASE TakeCall(w) \/ TakeWait(w) \/ Take(w) \/ TakeClosed(w)
    BY <2>2, Zenon DEF TakeCall, TakeWait, Take, TakeClosed, QueueNext
  <2>3. CASE WorkerExit(w)
    <3>1. at[w] = "idle" /\ UNCHANGED queueVars
      BY <2>3, Zenon DEF WorkerExit, Roles, WorkerRole
    <3>2. CleanupThread(w) \/ LeaveGroup(w) \/ UNCHANGED vars
      BY <2>3, Zenon DEF WorkerExit, Exit, NotAlive, SignalExit, ThreadEnds
    <3>3. QED
      BY <3>1, <3>2, Zenon DEF allVars, groupVars
  <2>4. QED
    BY <1>2, <2>1, <2>2, <2>3, Zenon DEF WorkerStep
<1>3. ASSUME NEW c \in Client, ClientStep(c) \/ ClientCall(c)
      PROVE  \/ [QueueNext]_allVars
             \/ at[c] = "idle" /\ UNCHANGED queueVars /\ (Block(c) \/ Unblock(c))
  <2>1. CASE \/ SubmitPut(c) \/ QueueBroadcast(c) \/ SubmitReturn(c) \/ CloseQueue(c)
             \/ CloseReturn(c) \/ CloseCall(c) \/ \E f \in Job : Submit(c, f)
    BY <2>1, Zenon
       DEF SubmitPut, QueueBroadcast, SubmitReturn, CloseQueue, CloseReturn, CloseCall,
           Submit, QueueNext
  <2>2. CASE CloseThrows(c) \/ CloseEnds(c) \/ \E f \in Job : Cancel(c, f)
    BY <2>2, Zenon DEF CloseThrows, CloseEnds, Cancel
  <2>3. CASE CloseOsJoin(c)
    BY <2>3, Zenon DEF CloseOsJoin, OsJoin, allVars, groupVars
  <2>4. CASE WaitReturn(c) \/ \E f \in Job : WaitCall(c, f)
    BY <2>4, Zenon DEF WaitReturn, WaitCall, Roles, ClientRole
  <2>5. CASE CloseJoin(c) \/ CloseJoined(c)
    BY <2>5, Zenon DEF CloseJoin, CloseJoined, JoinCall, JoinReturn, Roles, ClientRole
  <2>6. QED
    BY <1>3, <2>1, <2>2, <2>3, <2>4, <2>5, Zenon DEF ClientStep, ClientCall
<1>4. QED
  BY <1>1, <1>2, <1>3, Zenon DEF PoolNext

\* What is proved of the queue holds in the pool.
LEMMA QueueInPool ==
  ASSUME Typed, QueueInv, Roles, [PoolNext]_poolAll
  PROVE  Typed' /\ QueueInv'
<1>1. CASE [QueueNext]_allVars
  BY <1>1, TypedStep, ControlStep, TakeStep, WakeupStep, PutsStep, Zenon DEF QueueInv
<1>2. ASSUME NEW t \in Thread, at[t] = "idle", UNCHANGED queueVars,
             Block(t) \/ Unblock(t) \/ CleanupThread(t) \/ LeaveGroup(t)
      PROVE  Typed' /\ QueueInv'
  <2>1. TypeOK'
    BY <1>2, TypeStep, Zenon DEF Typed, Next, Program
  <2>2. Typed'
    BY <1>2, <2>1, Zenon DEF Typed, queueVars
  <2>3. \A u \in Thread : u # t => pc'[u] = pc[u]
    BY <1>2, Zenon DEF Block, Unblock, CleanupThread, LeaveGroup, Go, Typed, TypeOK
  <2>4. QueueControl'
    BY <1>2, <2>3, Zenon DEF QueueInv, QueueControl, queueVars
  <2>5. PutsCounted' /\ TakeSeesItem' /\ NoLostWakeup'
    BY <1>2, Zenon DEF QueueInv, PutsCounted, Putting, TakeSeesItem, NoLostWakeup, queueVars
  <2>6. QED
    BY <2>2, <2>4, <2>5, Zenon DEF QueueInv
<1>3. QED
  BY <1>1, <1>2, PoolStepKinds, Zenon

\* What the pool does to the handles are calls of join() and the ends of threads.
LEMMA PoolHandleStep ==
  ASSUME PoolTyped, [PoolNext]_poolAll
  PROVE  HandleStep
<1>1. CASE UNCHANGED poolAll
  BY <1>1, Zenon DEF poolAll, HandleStep
<1>2. ASSUME NEW w \in Worker, WorkerStep(w) PROVE HandleStep
  <2>1. CASE WorkerExit(w)
    BY <2>1, Zenon DEF WorkerExit, Exit, HandleStep
  <2>2. QED
    BY <1>2, <2>1, Zenon
       DEF WorkerStep, Setup, TakeCall, TakeWait, Take, TakeClosed, Start, Settle, HandleStep
<1>3. ASSUME NEW c \in Client, ClientStep(c) \/ ClientCall(c) PROVE HandleStep
  <2>1. CASE CloseJoin(c)
    <3>1. client[c].next \in 1 .. Len(Threads)
      BY <2>1, ThreadsFacts DEF CloseJoin, PoolTyped, Clients, ThreadsListed
    <3>2. QED
      BY <2>1, <3>1, ThreadsFacts, Zenon DEF CloseJoin, HandleStep, ThreadsListed
  <2>2. CASE CloseOsJoin(c) \/ CloseJoined(c)
    BY <2>2, Zenon DEF CloseOsJoin, CloseJoined, HandleStep, Join
  <2>3. QED
    BY <1>3, <2>1, <2>2, Zenon
       DEF ClientStep, ClientCall, SubmitPut, QueueBroadcast, SubmitReturn, WaitReturn,
           CloseQueue, CloseReturn, CloseThrows, CloseEnds, CloseCall, Submit, Cancel,
           WaitCall, HandleStep
<1>4. QED
  BY <1>1, <1>2, <1>3, Zenon DEF PoolNext

-----------------------------------------------------------------------------
(* The pool: the results *)

\* The pool starts with no job and all workers before setup.
LEMMA PoolInvInit ==
  ASSUME AllInit
  PROVE  Typed /\ QueueInv /\ HandleInv /\ PoolInv
<1>1. Typed /\ QueueInv /\ HandleInv
  BY QueueInvInit, HandleInvInit, Zenon DEF AllInit
<1>2. PoolTyped
  <2>1. future \in [Job -> Futures]
    BY Zenon DEF AllInit, PoolInit, Futures, States
  <2>2. client \in [Client -> Clients]
    BY ThreadsFacts DEF AllInit, PoolInit, Clients, ThreadsListed
  <2>3. items \in Seq(Job) /\ Len(items) = count
    BY DEF AllInit, PoolInit, QueueInit, AllRun, Members
  <2>4. QED
    BY <2>1, <2>2, <2>3, Zenon DEF AllInit, PoolInit, PoolTyped, Work
<1>3. \A w \in Worker : work[w].at = "setup" /\ work[w].job = NoJob /\ at[w] = "idle"
  BY HandleAssumption, Zenon DEF AllInit, PoolInit, QueueInit, AllRun, Members
<1>4. \A c \in Client : client[c].at = "idle" /\ at[c] = "idle" /\ joiner[c].at = "none"
  BY HandleAssumption, Zenon DEF AllInit, PoolInit, QueueInit, AllRun, Members, HandleInit
<1>5. Len(items) = 0 /\ \A f \in Job : future[f].state = "none"
  BY Zenon DEF AllInit, PoolInit
<1>6. Roles
  BY <1>3, <1>4, PoolAssumption, Zenon DEF Roles, WorkerRole, ClientRole
<1>7. Places
  BY <1>3, <1>4, <1>5, PoolAssumption DEF Places, Pending
<1>8. Progress
  BY <1>3, <1>4, <1>5, PoolAssumption DEF Progress, Pending
<1>9. Drained /\ Joined
  BY <1>3, <1>4, <1>5, Zenon DEF Drained, Joined
<1>10. QED
  BY <1>1, <1>2, <1>6, <1>7, <1>8, <1>9, Zenon DEF PoolInv

\* Each step of the pool keeps the invariants of the queue, of the handles and
\* of the pool.
LEMMA PoolInvStep ==
  ASSUME Typed, QueueInv, HandleInv, PoolInv, [PoolNext]_poolAll
  PROVE  Typed' /\ QueueInv' /\ HandleInv' /\ PoolInv'
<1>0. PoolTyped /\ Roles /\ Places /\ Progress /\ Drained /\ Joined
  BY Zenon DEF PoolInv
<1>t. TakeSeesItem /\ HandleTypeOK
  BY Zenon DEF QueueInv, HandleInv
<1>1. Typed' /\ QueueInv' /\ HandleInv'
  BY <1>0, QueueInPool, PoolHandleStep, HandleInvStep, Zenon
<1>2. PoolTyped' /\ Roles' /\ Places' /\ Drained' /\ Joined'
  BY <1>0, <1>t, ThreadsFacts, PoolTypedStep, RolesStep, PlacesStep, DrainedStep, JoinedStep,
     Zenon
<1>3. Progress'
  <2>1. CASE UNCHANGED poolAll
    BY <1>0, <2>1, Zenon DEF poolAll, poolVars, allVars, queueVars, Progress, Pending
  <2>2. QED
    BY <1>0, <1>t, <2>1, WorkerProgress, ClientProgress, Zenon DEF PoolNext
<1>4. QED
  BY <1>1, <1>2, <1>3, Zenon DEF PoolInv

\* The invariants hold in the pool.
LEMMA PoolInvHolds == PoolSpec => [](Typed /\ QueueInv /\ HandleInv /\ PoolInv)
<1>1. AllInit => Typed /\ QueueInv /\ HandleInv /\ PoolInv
  BY PoolInvInit, Zenon
<1>2. Typed /\ QueueInv /\ HandleInv /\ PoolInv /\ [PoolNext]_poolAll
        => (Typed /\ QueueInv /\ HandleInv /\ PoolInv)'
  BY PoolInvStep, Zenon
<1>3. QED
  BY <1>1, <1>2, PTL DEF PoolSpec, poolAll

\* Each future is found by exactly one party, whoever submits, cancels, takes
\* and closes (tp.ty): in the queue once or with one worker, never both, and
\* not lost while it is unsettled.
THEOREM JobsRunOnce == PoolSpec => []EachJobOnce
<1>1. ASSUME Typed, QueueInv, HandleInv, PoolInv PROVE EachJobOnce
  <2>0. PoolTyped /\ Places /\ Progress
    BY <1>1, Zenon DEF PoolInv
  <2>1. PoolTypeOK
    BY <1>1, <2>0, QueueTypes, Zenon
       DEF HandleInv, PoolTyped, PoolTypeOK, Work, Clients, Futures
  <2>2. DOMAIN items = 1 .. Len(items)
    BY <2>0 DEF PoolTyped
  <2>3. ASSUME NEW f \in Job
        PROVE  Cardinality({i \in DOMAIN items : items[i] = f}) + Cardinality(Held(f)) <= 1
    <3> DEFINE A == {i \in DOMAIN items : items[i] = f}
    <3>1. A = {} \/ \E i : A = {i}
      BY <2>0, <2>2 DEF Places
    <3>2. Held(f) = {} \/ \E w : Held(f) = {w}
      BY <2>0 DEF Places, Held
    <3>3. A = {} \/ Held(f) = {}
      BY <2>0, <2>2, Zenon DEF Places, Held
    <3> HIDE DEF A
    <3>4. Cardinality({}) = 0 /\ \A x : Cardinality({x}) = 1
      BY FS_EmptySet, FS_Singleton, Zenon
    <3>5. (A = {} /\ Cardinality(A) = 0) \/ Cardinality(A) = 1
      BY <3>1, <3>4, Zenon
    <3>6. (Held(f) = {} /\ Cardinality(Held(f)) = 0) \/ Cardinality(Held(f)) = 1
      BY <3>2, <3>4, Zenon
    <3>7. Cardinality(A) = 0 \/ Cardinality(Held(f)) = 0
      BY <3>3, <3>4, Zenon
    <3>8. Cardinality(A) + Cardinality(Held(f)) <= 1
      BY <3>5, <3>6, <3>7
    <3>9. QED
      BY <3>8, Zenon DEF A
  <2>4. ASSUME NEW f \in Job, future[f].state \in {"CREATED", "RUNNING"}
        PROVE  \/ \E c \in Client : client[c].at = "submit" /\ client[c].job = f
               \/ Held(f) # {} \/ \E i \in DOMAIN items : items[i] = f
    BY <2>0, <2>2, <2>4, Zenon DEF Progress, Pending, Held
  <2>5. QED
    BY <2>1, <2>3, <2>4, Zenon DEF EachJobOnce
<1>2. QED
  BY <1>1, PoolInvHolds, PTL

\* A worker leaves only futures that were put after the close.
THEOREM QueueIsDrained == PoolSpec => []DrainedBeforeEnd
<1>1. ASSUME PoolInv PROVE DrainedBeforeEnd
  <2>1. DOMAIN items = 1 .. Len(items)
    BY <1>1 DEF PoolInv, PoolTyped
  <2>2. QED
    BY <1>1, <2>1, Zenon DEF PoolInv, Drained, DrainedBeforeEnd
<1>2. QED
  BY <1>1, PoolInvHolds, PTL

\* close() returns after the end of every worker, unless two calls of it joined
\* one worker at the same time.
THEOREM CloseJoinsAll == PoolSpec => []ClosedMeansEnded
<1>1. ASSUME PoolInv PROVE ClosedMeansEnded
  <2>1. ASSUME NEW c \in Client, client[c].at = "closed", NEW w \in Worker
        PROVE  life[w] = "ended" \/ w \in misused
    <3>1. PICK n \in 1 .. Len(Threads) : Threads[n] = w
      BY ThreadsFacts, Zenon DEF ThreadsListed
    <3>2. client[c].next = Len(Threads) + 1
      BY <1>1, <2>1, Zenon DEF PoolInv, Joined
    <3>3. n < client[c].next
      BY <3>1, <3>2, ThreadsFacts DEF ThreadsListed
    <3>4. QED
      BY <1>1, <2>1, <3>1, <3>3, Zenon DEF PoolInv, Joined, Ended
  <2>2. QED
    BY <2>1, Zenon DEF ClosedMeansEnded
<1>2. QED
  BY <1>1, PoolInvHolds, PTL

\* No step changes a future that was completed, aborted or canceled.
THEOREM SettledStays == PoolSpec => SettledForGood
<1>1. ASSUME Typed, QueueInv, HandleInv, PoolInv, [PoolNext]_poolAll,
             NEW f \in Job, Settled(f)
      PROVE  future'[f] = future[f]
  <2>0. PoolTyped /\ Roles /\ Progress /\ future \in [Job -> Futures]
    BY <1>1, Zenon DEF PoolInv, PoolTyped
  <2>1. future[f].state \notin {"none", "CREATED", "RUNNING"}
    BY <1>1, Zenon DEF Settled
  <2>2. ASSUME NEW g, NEW s, NEW d, g # f, Set(g, s, d) PROVE future'[f] = future[f]
    BY <2>0, <2>2, Zenon DEF Set
  <2>3. CASE UNCHANGED poolAll
    BY <2>3, Zenon DEF poolAll, poolVars
  <2>4. ASSUME NEW w \in Worker, WorkerStep(w) PROVE future'[f] = future[f]
    <3>1. CASE Start(w)
      BY <2>1, <2>2, <3>1, Zenon DEF Start
    <3>2. CASE Settle(w)
      <4>1. future[work[w].job].state = "RUNNING"
        BY <2>0, <3>2, Zenon DEF Settle, Progress
      <4>2. QED
        BY <2>1, <2>2, <3>2, <4>1, Zenon DEF Settle
    <3>3. QED
      BY <2>4, <3>1, <3>2, Zenon
         DEF WorkerStep, Setup, TakeCall, TakeWait, Take, TakeClosed, WorkerExit, poolVars
  <2>5. ASSUME NEW c \in Client, ClientStep(c) \/ ClientCall(c) PROVE future'[f] = future[f]
    <3>1. ASSUME NEW g \in Job, Submit(c, g) \/ Cancel(c, g) PROVE future'[f] = future[f]
      BY <2>1, <2>2, <3>1, Zenon DEF Submit, Cancel
    <3>2. QED
      BY <2>5, <3>1, Zenon
         DEF ClientStep, ClientCall, SubmitPut, QueueBroadcast, SubmitReturn, WaitReturn,
             CloseQueue, CloseReturn, CloseJoin, CloseOsJoin, CloseJoined, CloseThrows,
             CloseEnds, CloseCall, WaitCall, poolVars
  <2>6. QED
    BY <1>1, <2>3, <2>4, <2>5, Zenon DEF PoolNext
<1>2. Typed /\ QueueInv /\ HandleInv /\ PoolInv /\ [PoolNext]_poolAll
        => [\A f \in Job : Settled(f) => future'[f] = future[f]]_poolAll
  BY <1>1, Zenon
<1>3. QED
  BY <1>2, PoolInvHolds, PTL DEF PoolSpec, SettledForGood, poolAll

\* The handles of the pool's workers are safe as well.
THEOREM PoolHandles == PoolSpec => [](HandleOutlivesThread /\ ReclaimedOnce /\ ExitWakesJoiner)
BY PoolInvHolds, HandleConsequences, PTL

=============================================================================
