------------------------- MODULE DispatchLoopProofs -------------------------
(***************************************************************************)
(* The scheduler's threads and mutexes, for any workers, any number of     *)
(* dispatch threads, frames, failing calls and spurious wake-ups, whether  *)
(* or not the process is told to stop.                                     *)
(***************************************************************************)
EXTENDS DispatchLoop, TLAPS

(* The thread the loop is about to spawn.                                  *)
Fresh == CHOOSE u \in Threads : thread[u] = "none"

(* Between the pop and the spawn there is a thread to spawn, with a worker. *)
SpawnIsReady ==
    loop = "spawn" =>
        Fresh \in Threads /\ thread[Fresh] = "none" /\ tworker[Fresh] \in Workers

(* A thread that is not over can be joined and knows its worker.           *)
ThreadsKnown ==
    \A t \in Threads : thread[t] \notin {"none", "finished"} =>
        t \in joinable /\ tworker[t] \in Workers

LoopInv == TypeOK /\ SpawnIsReady /\ ThreadsKnown

(* The steps that spawn no thread and hand out no worker.                  *)
Aside ==
    \/ LoopStart \/ LoopEnter \/ PredicateScan \/ PredicateDecide \/ Sleep
    \/ Reacquire \/ AssignLockWorkers \/ AssignLockQueue \/ AssignDone \/ Announce
    \/ SpuriousWake \/ AddJobNotify \/ StopNotify \/ JoinLock \/ StopServer \/ JoinLoop
    \/ AddJob \/ Stop
    \/ \E w \in Workers : EstablishNotify(w)

-----------------------------------------------------------------------------
LEMMA LoopKinds ==
    ASSUME [Next]_vars
    PROVE  \/ Aside \/ AssignSpawn \/ JoinThreads
           \/ \E w \in Workers : AssignPop(w) \/ Establish(w)
           \/ \E t \in Threads : ThreadStep(t) \/ Reject(t)
           \/ UNCHANGED vars
BY DEF Next, LoopStep, MainStep, Aside

LEMMA AsideLeaves ==
    ASSUME TypeOK, Aside
    PROVE  /\ UNCHANGED <<idle, joined, thread, tworker, joinable, rejects>>
           /\ loop' = "spawn" <=> loop = "spawn"
BY DEF Aside, LoopStart, LoopEnter, PredicateScan, PredicateDecide, Sleep, Reacquire,
   AssignLockWorkers, AssignLockQueue, AssignDone, Announce, SpuriousWake,
   AddJobNotify, StopNotify, JoinLock, StopServer, JoinLoop, AddJob, Stop,
   EstablishNotify, Notify, LoopOnly, MainOnly

(* The threads that are not spawned yet only change with a spawn.          *)
LEMMA FreshStays ==
    ASSUME \A u \in Threads : thread'[u] = "none" <=> thread[u] = "none"
    PROVE  Fresh' = Fresh
BY DEF Fresh

LEMMA FreshIsFree ==
    ASSUME \E t \in Threads : thread[t] = "none"
    PROVE  Fresh \in Threads /\ thread[Fresh] = "none"
BY DEF Fresh

LEMMA LoopInvInit == Init => LoopInv
<1> SUFFICES ASSUME Init PROVE LoopInv
  OBVIOUS
<1>1. 0 \in 0 .. MaxFrames /\ 0 \in 0 .. MaxRejects /\ 0 \in 0 .. MaxSpurious
  BY LoopAssumption
<1>2. saw \in BOOLEAN /\ running \in BOOLEAN /\ destroyed \in BOOLEAN
  BY DEF Init
<1>3. TypeOK
  BY <1>1, <1>2 DEF Init, TypeOK, LoopPC, MainPC, ThreadPC
<1>4. SpawnIsReady /\ ThreadsKnown
  BY DEF Init, SpawnIsReady, ThreadsKnown
<1> QED
  BY <1>3, <1>4 DEF LoopInv

LEMMA AsideKeepsType ==
    ASSUME LoopInv, Aside
    PROVE  LoopInv'
<1>1. TypeOK
  BY DEF LoopInv
<1>2. TypeOK'
  <2>1. CASE LoopStart \/ LoopEnter \/ PredicateScan \/ PredicateDecide \/ Sleep
             \/ Reacquire \/ AssignLockWorkers \/ AssignLockQueue \/ AssignDone
             \/ Announce
    BY <1>1, <2>1 DEF TypeOK, LoopStart, LoopEnter, PredicateScan, PredicateDecide,
       Sleep, Reacquire, AssignLockWorkers, AssignLockQueue, AssignDone, Announce,
       LoopOnly, LoopPC
  <2>2. CASE JoinLock \/ StopServer \/ JoinLoop
    BY <1>1, <2>2 DEF TypeOK, JoinLock, StopServer, JoinLoop, MainOnly, MainPC
  <2>3. CASE AddJobNotify \/ StopNotify \/ Stop \/ \E w \in Workers : EstablishNotify(w)
    BY <1>1, <2>3 DEF TypeOK, AddJobNotify, StopNotify, Stop, EstablishNotify, Notify,
       MainPC, LoopPC
  <2>4. CASE AddJob \/ SpuriousWake
    BY <1>1, <2>4, LoopAssumption DEF TypeOK, AddJob, SpuriousWake, MainPC, LoopPC
  <2> QED
    BY <2>1, <2>2, <2>3, <2>4 DEF Aside
<1>3. /\ UNCHANGED <<thread, tworker, joinable>>
      /\ loop' = "spawn" <=> loop = "spawn"
  BY <1>1, AsideLeaves
<1> QED
  BY <1>2, <1>3 DEF LoopInv, SpawnIsReady, ThreadsKnown, Fresh

LEMMA PopKeepsType ==
    ASSUME LoopInv, NEW w \in Workers, AssignPop(w)
    PROVE  LoopInv'
<1>1. TypeOK /\ ThreadsKnown
  BY DEF LoopInv
<1>2. Fresh \in Threads /\ thread[Fresh] = "none"
  BY FreshIsFree DEF AssignPop
<1>3. tworker' = [tworker EXCEPT ![Fresh] = w] /\ thread' = thread
  BY DEF AssignPop, Fresh
<1>4. Fresh' = Fresh
  BY <1>3, FreshStays
<1>5. TypeOK'
  BY <1>1, <1>3 DEF TypeOK, AssignPop, LoopPC
<1>6. SpawnIsReady'
  BY <1>1, <1>2, <1>3, <1>4 DEF SpawnIsReady, TypeOK
<1>7. ThreadsKnown'
  BY <1>1, <1>2, <1>3 DEF ThreadsKnown, TypeOK, AssignPop
<1> QED
  BY <1>5, <1>6, <1>7 DEF LoopInv

LEMMA SpawnKeepsType ==
    ASSUME LoopInv, AssignSpawn
    PROVE  LoopInv'
<1>1. TypeOK /\ ThreadsKnown /\ SpawnIsReady
  BY DEF LoopInv
<1>2. Fresh \in Threads /\ thread[Fresh] = "none" /\ tworker[Fresh] \in Workers
  BY <1>1 DEF SpawnIsReady, AssignSpawn
<1>3. PICK f \in Threads : f = Fresh
  BY <1>2
<1>4. thread' = [thread EXCEPT ![f] = "call"] /\ joinable' = joinable \cup {f}
  BY <1>3 DEF AssignSpawn, Fresh
<1>5. TypeOK'
  BY <1>1, <1>4 DEF TypeOK, AssignSpawn, LoopPC, ThreadPC
<1>6. SpawnIsReady'
  BY DEF SpawnIsReady, AssignSpawn
<1>7. ThreadsKnown'
  BY <1>1, <1>2, <1>3, <1>4 DEF ThreadsKnown, TypeOK, AssignSpawn
<1> QED
  BY <1>5, <1>6, <1>7 DEF LoopInv

(* A dispatch thread moves on, and takes nobody along.                     *)
LEMMA ThreadMoves ==
    ASSUME LoopInv, NEW t \in Threads, ThreadStep(t) \/ Reject(t)
    PROVE  /\ thread[t] \notin {"none", "finished"} /\ thread'[t] # "none"
           /\ \A u \in Threads \ {t} : thread'[u] = thread[u]
           /\ UNCHANGED <<tworker, joinable, joined>>
           /\ loop' = "spawn" <=> loop = "spawn"
           /\ Fresh' = Fresh
<1>1. /\ thread[t] \notin {"none", "finished"} /\ thread'[t] # "none"
      /\ \A u \in Threads \ {t} : thread'[u] = thread[u]
      /\ UNCHANGED <<tworker, joinable, joined>>
      /\ loop' = "spawn" <=> loop = "spawn"
  BY DEF LoopInv, TypeOK, ThreadStep, CallbackIdle, CallbackNotify, CallbackUnserved,
     RejectPush, RejectOffline, RejectNotify, Reject, Notify, ThreadOnly
<1>2. Fresh' = Fresh
  BY <1>1, FreshStays
<1> QED
  BY <1>1, <1>2

LEMMA ThreadKeepsType ==
    ASSUME LoopInv, NEW t \in Threads, ThreadStep(t) \/ Reject(t)
    PROVE  LoopInv'
<1>1. TypeOK /\ ThreadsKnown /\ SpawnIsReady
  BY DEF LoopInv
<1>2. /\ thread[t] \notin {"none", "finished"} /\ thread'[t] # "none"
      /\ \A u \in Threads \ {t} : thread'[u] = thread[u]
      /\ UNCHANGED <<tworker, joinable>>
      /\ loop' = "spawn" <=> loop = "spawn"
      /\ Fresh' = Fresh
  BY ThreadMoves
<1>3. tworker[t] \in Workers
  BY <1>1, <1>2 DEF ThreadsKnown
<1>4. TypeOK'
  BY <1>1, <1>3, LoopAssumption DEF TypeOK, ThreadStep, CallbackIdle, CallbackNotify,
     CallbackUnserved, RejectPush, RejectOffline, RejectNotify, Reject, Notify,
     ThreadOnly, ThreadPC, LoopPC
<1>5. SpawnIsReady' /\ ThreadsKnown'
  BY <1>1, <1>2 DEF SpawnIsReady, ThreadsKnown
<1> QED
  BY <1>4, <1>5 DEF LoopInv

LEMMA LoopInvNext == LoopInv /\ [Next]_vars => LoopInv'
<1> SUFFICES ASSUME LoopInv, [Next]_vars PROVE LoopInv'
  OBVIOUS
<1>1. ASSUME NEW w \in Workers, Establish(w) PROVE LoopInv'
  BY <1>1 DEF Establish, LoopInv, TypeOK, SpawnIsReady, ThreadsKnown, Fresh
<1>2. CASE JoinThreads
  BY <1>2 DEF JoinThreads, MainOnly, LoopInv, TypeOK, SpawnIsReady, ThreadsKnown, Fresh,
     MainPC
<1>3. CASE UNCHANGED vars
  BY <1>3 DEF vars, LoopInv, TypeOK, SpawnIsReady, ThreadsKnown, Fresh
<1> QED
  BY <1>1, <1>2, <1>3, LoopKinds, AsideKeepsType, PopKeepsType, SpawnKeepsType,
     ThreadKeepsType

(* Types hold for any workers, threads and bounds.                         *)
THEOREM LoopTypeCorrect == Spec => []TypeOK
<1>1. LoopInv => TypeOK
  BY DEF LoopInv
<1> QED
  BY <1>1, LoopInvInit, LoopInvNext, PTL DEF Spec

-----------------------------------------------------------------------------
(* What the loop knows when it goes to sleep: whoever changes the queue    *)
(* needs queue_mutex_, which it holds until it sleeps; and whoever changes *)
(* it later has yet to notify.                                             *)
SleepInv ==
    /\ loop = "tosleep" /\ saw => pending = 0
    /\ PushIsNeverMissed

LEMMA SleepInit == Init => SleepInv
BY DEF Init, SleepInv, PushIsNeverMissed

LEMMA SleepNext == LoopInv /\ SleepInv /\ [Next]_vars => SleepInv'
<1> SUFFICES ASSUME LoopInv, SleepInv, [Next]_vars PROVE SleepInv'
  OBVIOUS
<1>0. TypeOK
  BY DEF LoopInv
<1> USE DEF SleepInv, PushIsNeverMissed
<1>1. CASE LoopStep
  BY <1>0, <1>1 DEF LoopStep, LoopStart, LoopEnter, PredicateScan, PredicateDecide,
     Sleep, Reacquire, AssignLockWorkers, AssignLockQueue, AssignPop, AssignSpawn,
     AssignDone, Announce, LoopOnly, TypeOK
<1>2. CASE SpuriousWake
  BY <1>2 DEF SpuriousWake
<1>3. CASE MainStep
  BY <1>3 DEF MainStep, AddJobNotify, StopNotify, JoinLock, JoinThreads, StopServer,
     JoinLoop, Notify, MainOnly
<1>4. CASE AddJob \/ Stop
  BY <1>4 DEF AddJob, Stop, QueueHeld
<1>5. ASSUME NEW w \in Workers, Establish(w) \/ EstablishNotify(w) PROVE SleepInv'
  BY <1>5 DEF Establish, EstablishNotify, Notify
<1>6. ASSUME NEW t \in Threads, ThreadStep(t) \/ Reject(t) PROVE SleepInv'
  <2>0. thread \in [Threads -> ThreadPC]
    BY <1>0 DEF TypeOK
  <2>1. CASE RejectPush(t)
    <3>1. thread'[t] = "offline" /\ loop # "tosleep" /\ loop' = loop
      BY <2>0, <2>1 DEF RejectPush, QueueHeld
    <3> QED
      BY <3>1
  <2>2. CASE RejectOffline(t)
    <3>1. thread'[t] = "announce" /\ UNCHANGED <<loop, saw, pending, main>>
      BY <2>0, <2>2 DEF RejectOffline, ThreadOnly
    <3> QED
      BY <3>1
  <2>3. CASE CallbackNotify(t) \/ RejectNotify(t)
    BY <2>3 DEF CallbackNotify, RejectNotify, Notify, ThreadOnly
  <2>4. CASE CallbackIdle(t) \/ CallbackUnserved(t) \/ Reject(t)
    <3>1. /\ UNCHANGED <<loop, saw, pending, main>>
          /\ \A u \in Threads : thread[u] \in {"offline", "announce"} =>
                                    thread'[u] = thread[u]
      BY <2>0, <2>4 DEF CallbackIdle, CallbackUnserved, Reject, ThreadOnly
    <3> QED
      BY <3>1
  <2> QED
    BY <1>6, <2>1, <2>2, <2>3, <2>4 DEF ThreadStep
<1>7. CASE UNCHANGED vars
  BY <1>7 DEF vars
<1> QED
  BY <1>1, <1>2, <1>3, <1>4, <1>5, <1>6, <1>7 DEF Next

(* However many frames and failing calls: a loop that sleeps although it   *)
(* saw an idle worker and there are frames has a notification on its way   *)
(* (addJob and the rejection path).                                        *)
THEOREM PushesAreNeverMissed == Spec => []PushIsNeverMissed
<1>1. Init => LoopInv /\ SleepInv
  BY LoopInvInit, SleepInit
<1>2. LoopInv /\ SleepInv /\ [Next]_vars => (LoopInv /\ SleepInv)'
  BY LoopInvNext, SleepNext
<1>3. SleepInv => PushIsNeverMissed
  BY DEF SleepInv
<1> QED
  BY <1>1, <1>2, <1>3, PTL DEF Spec

-----------------------------------------------------------------------------
(* The workers that are taken: by threads that call them or have not given *)
(* back their frame, and by the thread about to be spawned.                *)
Calls(t) == thread[t] \in {"call", "push"}

CalledInv ==
    /\ idle \subseteq joined
    /\ WorkerIsCalledOnce
    /\ \A t \in Threads : Calls(t) => tworker[t] \in joined
    /\ loop = "spawn" =>
        /\ tworker[Fresh] \in joined \ idle
        /\ \A t \in Threads : Calls(t) => tworker[t] # tworker[Fresh]

LEMMA CalledInit == Init => CalledInv
BY DEF Init, CalledInv, WorkerIsCalledOnce, Calls

(* A step that hands out no worker and adds no idle one but new ones.      *)
LEMMA CallsAreKept ==
    ASSUME CalledInv, UNCHANGED tworker, Fresh' = Fresh,
           joined \subseteq joined', idle' \subseteq joined',
           \A w \in idle' : w \in idle \/ w \notin joined,
           \A t \in Threads : Calls(t)' => Calls(t),
           loop' = "spawn" => loop = "spawn"
    PROVE  CalledInv'
BY DEF CalledInv, WorkerIsCalledOnce, Calls

LEMMA CalledNext == LoopInv /\ CalledInv /\ [Next]_vars => CalledInv'
<1> SUFFICES ASSUME LoopInv, CalledInv, [Next]_vars PROVE CalledInv'
  OBVIOUS
<1>0. /\ TypeOK /\ SpawnIsReady /\ idle \subseteq joined
      /\ thread \in [Threads -> ThreadPC]
      /\ tworker \in [Threads -> Workers \cup {"nobody"}]
  BY DEF LoopInv, TypeOK, CalledInv
<1>1. CASE Aside
  <2>1. /\ UNCHANGED <<idle, joined, thread, tworker>>
        /\ loop' = "spawn" <=> loop = "spawn"
    BY <1>0, <1>1, AsideLeaves
  <2> QED
    BY <1>0, <2>1, FreshStays, CallsAreKept DEF Calls
<1>2. CASE AssignSpawn
  <2>1. PICK f \in Threads : f = Fresh /\ thread[f] = "none"
    BY <1>0, <1>2 DEF AssignSpawn, SpawnIsReady
  <2>2. /\ thread' = [thread EXCEPT ![f] = "call"]
        /\ UNCHANGED <<idle, joined, tworker>>
        /\ loop = "spawn" /\ loop' = "assign"
    BY <1>2, <2>1 DEF AssignSpawn, Fresh
  <2>3. \A t \in Threads : Calls(t)' <=> Calls(t) \/ t = f
    BY <1>0, <2>2 DEF Calls
  <2>4. /\ tworker[f] \in joined \ idle
        /\ \A t \in Threads : Calls(t) => tworker[t] # tworker[f]
    BY <2>1, <2>2 DEF CalledInv
  <2> QED
    BY <2>2, <2>3, <2>4 DEF CalledInv, WorkerIsCalledOnce, Calls
<1>3. CASE JoinThreads
  <2>1. UNCHANGED <<idle, joined, thread, tworker, loop>>
    BY <1>3 DEF JoinThreads, MainOnly
  <2> QED
    BY <1>0, <2>1, FreshStays, CallsAreKept DEF Calls
<1>4. ASSUME NEW w \in Workers, AssignPop(w) PROVE CalledInv'
  <2>1. PICK f \in Threads : f = Fresh /\ thread[f] = "none"
    BY <1>4, FreshIsFree DEF AssignPop
  <2>2. /\ tworker' = [tworker EXCEPT ![f] = w]
        /\ w \in idle /\ idle' = idle \ {w}
        /\ UNCHANGED <<joined, thread>>
    BY <1>4, <2>1 DEF AssignPop, Fresh
  <2>3. Fresh' = f
    BY <2>1, <2>2, FreshStays
  <2>4. \A t \in Threads : Calls(t) => t # f /\ tworker'[t] = tworker[t] /\ tworker[t] # w
    BY <1>0, <2>1, <2>2 DEF CalledInv, WorkerIsCalledOnce, Calls
  <2>5. tworker'[f] = w
    BY <1>0, <2>2
  <2> QED
    BY <1>0, <2>2, <2>3, <2>4, <2>5 DEF CalledInv, WorkerIsCalledOnce, Calls
<1>5. ASSUME NEW w \in Workers, Establish(w) PROVE CalledInv'
  <2>1. /\ UNCHANGED <<thread, tworker, loop>>
        /\ w \notin joined /\ joined' = joined \cup {w} /\ idle' = idle \cup {w}
    BY <1>5 DEF Establish
  <2> QED
    BY <1>0, <2>1, FreshStays, CallsAreKept DEF Calls
<1>6. ASSUME NEW t \in Threads, ThreadStep(t) \/ Reject(t) PROVE CalledInv'
  <2>1. /\ \A u \in Threads \ {t} : thread'[u] = thread[u]
        /\ UNCHANGED <<tworker, joined>>
        /\ loop' = "spawn" <=> loop = "spawn"
        /\ Fresh' = Fresh
    BY <1>6, ThreadMoves
  <2>2. CASE CallbackIdle(t)
    <3>1. /\ thread[t] = "call" /\ thread'[t] = "notify" /\ loop # "spawn"
          /\ idle' = idle \cup {tworker[t]}
      BY <1>0, <2>2 DEF CallbackIdle, WorkersHeld
    <3>2. \A u \in Threads : Calls(u)' => Calls(u) /\ tworker[u] # tworker[t]
      BY <2>1, <3>1 DEF CalledInv, WorkerIsCalledOnce, Calls
    <3>3. tworker[t] \in joined
      BY <3>1 DEF CalledInv, Calls
    <3> QED
      BY <2>1, <3>1, <3>2, <3>3 DEF CalledInv, WorkerIsCalledOnce, Calls
  <2>3. CASE ~CallbackIdle(t)
    <3>1. idle' \subseteq idle /\ (Calls(t)' => Calls(t))
      BY <1>0, <1>6, <2>3 DEF ThreadStep, CallbackNotify, CallbackUnserved, RejectPush,
         RejectOffline, RejectNotify, Reject, Calls
    <3>2. \A u \in Threads : Calls(u)' => Calls(u)
      BY <2>1, <3>1 DEF Calls
    <3> QED
      BY <1>0, <2>1, <3>1, <3>2, CallsAreKept
  <2> QED
    BY <2>2, <2>3
<1>7. CASE UNCHANGED vars
  <2>1. UNCHANGED <<idle, joined, thread, tworker, loop>>
    BY <1>7 DEF vars
  <2> QED
    BY <1>0, <2>1, FreshStays, CallsAreKept DEF Calls
<1> QED
  BY <1>1, <1>2, <1>3, <1>4, <1>5, <1>6, <1>7, LoopKinds

(* For any number of workers and dispatch threads: no worker is called by  *)
(* two threads, or IDLE while a thread calls it (assignJobs, callbacks and *)
(* rejections under workers_mutex_).                                       *)
THEOREM WorkersAreCalledOnce == Spec => []WorkerIsCalledOnce
<1>1. Init => LoopInv /\ CalledInv
  BY LoopInvInit, CalledInit
<1>2. LoopInv /\ CalledInv /\ [Next]_vars => (LoopInv /\ CalledInv)'
  BY LoopInvNext, CalledNext
<1>3. CalledInv => WorkerIsCalledOnce
  BY DEF CalledInv
<1> QED
  BY <1>1, <1>2, <1>3, PTL DEF Spec

-----------------------------------------------------------------------------
(* The second stop finds the loop ended, so that the threads it joins are  *)
(* the last.                                                               *)
ExitInv ==
    /\ destroyed => loop = "ended"
    /\ main = "exited" => destroyed /\ joinable = {}

LEMMA ExitInit == Init => ExitInv
BY DEF Init, ExitInv

LEMMA ExitNext == LoopInv /\ ExitInv /\ [Next]_vars => ExitInv'
<1> SUFFICES ASSUME LoopInv, ExitInv, [Next]_vars PROVE ExitInv'
  OBVIOUS
<1> USE DEF ExitInv
<1>1. CASE LoopStep \/ SpuriousWake
  BY <1>1 DEF LoopStep, LoopStart, LoopEnter, PredicateScan, PredicateDecide,
     Sleep, Reacquire, AssignLockWorkers, AssignLockQueue, AssignPop, AssignSpawn,
     AssignDone, Announce, LoopOnly, SpuriousWake
<1>2. CASE MainStep
  BY <1>2 DEF MainStep, AddJobNotify, StopNotify, JoinLock, JoinThreads, StopServer,
     JoinLoop, Notify, MainOnly
<1>3. CASE AddJob \/ Stop
  BY <1>3 DEF AddJob, Stop
<1>4. ASSUME NEW w \in Workers, Establish(w) \/ EstablishNotify(w) PROVE ExitInv'
  BY <1>4 DEF Establish, EstablishNotify, Notify
<1>5. ASSUME NEW t \in Threads, ThreadStep(t) \/ Reject(t) PROVE ExitInv'
  BY <1>5 DEF ThreadStep, CallbackIdle, CallbackNotify, CallbackUnserved,
     RejectPush, RejectOffline, RejectNotify, Reject, Notify, ThreadOnly
<1>6. CASE UNCHANGED vars
  BY <1>6 DEF vars
<1> QED
  BY <1>1, <1>2, <1>3, <1>4, <1>5, <1>6 DEF Next

(* Whenever the process is told to stop: when it exits, the loop has ended *)
(* and every dispatch thread is joined (stop, joinThreads, ~Scheduler).    *)
THEOREM ExitsLeaveNoThread == Spec => []ExitLeavesNoThread
<1>1. Init => LoopInv /\ ExitInv
  BY LoopInvInit, ExitInit
<1>2. LoopInv /\ ExitInv /\ [Next]_vars => (LoopInv /\ ExitInv)'
  BY LoopInvNext, ExitNext
<1>3. LoopInv /\ ExitInv => ExitLeavesNoThread
  BY DEF LoopInv, ThreadsKnown, ExitInv, ExitLeavesNoThread
<1> QED
  BY <1>1, <1>2, <1>3, PTL DEF Spec
=============================================================================
