--------------------------- MODULE DispatchLoop ---------------------------
(***************************************************************************)
(* The threads of the scheduler process around its mutexes and its one     *)
(* condition variable: the loop of Scheduler::run, the HTTP thread that    *)
(* queues frames and later stops the scheduler (it is main), the gRPC      *)
(* handlers that change a worker's status, and the dispatch threads.       *)
(*                                                                         *)
(* Which frame goes where is the business of FrameDispatch; here a frame   *)
(* is one unit of `pending', and what counts is who holds which mutex, who *)
(* sleeps, and who is notified when.  A critical section in which a thread *)
(* takes no further lock is one action, enabled when its mutex is free.    *)
(***************************************************************************)
EXTENDS Integers, FiniteSets

CONSTANTS
    Workers,
    Threads,      \* dispatch threads that can be spawned
    MaxFrames,    \* frames the HTTP thread queues, one addJob each
    MaxRejects,   \* RenderJob RPCs that fail
    MaxSpurious,  \* wake-ups nobody asked for
    CanStop       \* whether the process is told to shut down

ASSUME LoopAssumption ==
    /\ IsFiniteSet(Threads)
    /\ MaxFrames \in Nat /\ MaxRejects \in Nat /\ MaxSpurious \in Nat
    /\ CanStop \in BOOLEAN

LoopPC == {"start", "enter", "scan", "decide", "tosleep", "asleep", "woken",
           "awake", "wantqueue", "assign", "spawn", "announce", "ended"}
MainPC == {"serving", "notify", "tell", "locking", "joining",
           "stopserver", "joinloop", "exited"}
ThreadPC == {"none", "call", "notify", "push", "offline", "announce", "finished"}

VARIABLES
    loop,       \* where run / assignJobs is
    saw,        \* has_idle_worker in the wait predicate
    main,       \* where the HTTP thread, then main's cleanup, is
    running,    \* running_
    pending,    \* pending_jobs_.size()
    added,      \* addJob calls so far
    idle,       \* the workers whose status is IDLE
    joined,     \* workers that ever called EstablishConnection
    greeting,   \* workers whose handler has yet to call notify_one
    thread, tworker,    \* the dispatch threads, the worker each one calls
    joinable,   \* dispatch_threads_
    rejects, spurious,
    destroyed   \* ~Scheduler runs stop() a second time

vars == <<loop, saw, main, running, pending, added, idle, joined, greeting,
          thread, tworker, joinable, rejects, spurious, destroyed>>

-----------------------------------------------------------------------------
(* Who holds a mutex follows from where the threads are.                   *)

QueueHeld   == loop \in {"scan", "decide", "tosleep", "assign", "spawn"}
WorkersHeld == loop \in {"wantqueue", "assign", "spawn"}
ThreadsHeld == main = "joining"

ServerUp == main \notin {"joinloop", "exited"} /\ ~destroyed

(* notify_one and notify_all do the same here: only the loop ever waits.   *)
Notify == loop' = IF loop = "asleep" THEN "woken" ELSE loop

Init ==
    /\ loop = "start" /\ saw = FALSE
    /\ main = "serving" /\ running = FALSE
    /\ pending = 0 /\ added = 0
    /\ idle = {} /\ joined = {} /\ greeting = {}
    /\ thread = [t \in Threads |-> "none"]
    /\ tworker = [t \in Threads |-> "nobody"]
    /\ joinable = {} /\ rejects = 0 /\ spurious = 0 /\ destroyed = FALSE

-----------------------------------------------------------------------------
(* The scheduling loop.                                                    *)

LoopOnly == <<main, pending, added, idle, joined, greeting, thread, tworker,
              joinable, rejects, spurious, destroyed>>

LoopStart ==
    /\ loop = "start"
    /\ running' = TRUE
    /\ loop' = "enter"
    /\ UNCHANGED <<saw, LoopOnly>>

(* `while (running_)', then unique_lock(queue_mutex_).                     *)
LoopEnter ==
    /\ loop = "enter"
    /\ loop' = IF running THEN "scan" ELSE "ended"
    /\ UNCHANGED <<saw, running, LoopOnly>>

(* The predicate takes workers_mutex_ and gives it back before it returns. *)
PredicateScan ==
    /\ loop = "scan"
    /\ saw' = (idle # {})
    /\ loop' = "decide"
    /\ UNCHANGED <<running, LoopOnly>>

PredicateDecide ==
    /\ loop = "decide"
    /\ loop' = IF (pending > 0 /\ saw) \/ ~running THEN "awake" ELSE "tosleep"
    /\ UNCHANGED <<saw, running, LoopOnly>>

(* wait releases queue_mutex_ and starts to wait in one step.              *)
Sleep ==
    /\ loop = "tosleep"
    /\ loop' = "asleep"
    /\ UNCHANGED <<saw, running, LoopOnly>>

(* A wake-up nobody asked for, which the predicate is there to absorb.     *)
SpuriousWake ==
    /\ loop = "asleep" /\ spurious < MaxSpurious
    /\ loop' = "woken"
    /\ spurious' = spurious + 1
    /\ UNCHANGED <<saw, running, main, pending, added, idle, joined, greeting,
                   thread, tworker, joinable, rejects, destroyed>>

Reacquire ==
    /\ loop = "woken"
    /\ loop' = "scan"
    /\ UNCHANGED <<saw, running, LoopOnly>>

(* The wait is over and queue_mutex_ released; assignJobs starts with      *)
(* workers_mutex_.                                                         *)
AssignLockWorkers ==
    /\ loop = "awake"
    /\ loop' = IF running THEN "wantqueue" ELSE "ended"
    /\ UNCHANGED <<saw, running, LoopOnly>>

AssignLockQueue ==
    /\ loop = "wantqueue"
    /\ loop' = "assign"
    /\ UNCHANGED <<saw, running, LoopOnly>>

(* Mutants: the queue is not tested for being empty; the worker is not     *)
(* marked BUSY.                                                            *)
AssignPopBut(w, tests, busy) ==
    /\ loop = "assign" /\ w \in idle
    /\ tests => pending > 0
    /\ \E t \in Threads : thread[t] = "none"
    /\ LET t == CHOOSE u \in Threads : thread[u] = "none"
       IN  tworker' = [tworker EXCEPT ![t] = w]
    /\ pending' = pending - 1
    /\ idle' = IF busy THEN idle \ {w} ELSE idle
    /\ loop' = "spawn"
    /\ UNCHANGED <<saw, main, running, added, joined, greeting, thread, joinable,
                   rejects, spurious, destroyed>>

AssignPopEmpty(w) == AssignPopBut(w, FALSE, TRUE)
AssignPopNotBusy(w) == AssignPopBut(w, TRUE, FALSE)

AssignPop(w) ==
    /\ loop = "assign" /\ pending > 0 /\ w \in idle
    /\ \E t \in Threads : thread[t] = "none"
    /\ LET t == CHOOSE u \in Threads : thread[u] = "none"
       IN  tworker' = [tworker EXCEPT ![t] = w]
    /\ pending' = pending - 1
    /\ idle' = idle \ {w}
    /\ loop' = "spawn"
    /\ UNCHANGED <<saw, main, running, added, joined, greeting, thread, joinable,
                   rejects, spurious, destroyed>>

(* threads_mutex_ is taken with workers_mutex_ and queue_mutex_ held.      *)
AssignSpawn ==
    /\ loop = "spawn" /\ ~ThreadsHeld
    /\ LET t == CHOOSE u \in Threads : thread[u] = "none"
       IN  /\ thread' = [thread EXCEPT ![t] = "call"]
           /\ joinable' = joinable \cup {t}
    /\ loop' = "assign"
    /\ UNCHANGED <<saw, main, running, pending, added, idle, joined, greeting,
                   tworker, rejects, spurious, destroyed>>

(* Mutant: the loop holds its mutexes until the queue is empty.            *)
AssignDoneWhenEmpty ==
    /\ loop = "assign" /\ pending = 0
    /\ loop' = "announce"
    /\ UNCHANGED <<saw, running, LoopOnly>>

AssignDone ==
    /\ loop = "assign" /\ (pending = 0 \/ idle = {})
    /\ loop' = "announce"
    /\ UNCHANGED <<saw, running, LoopOnly>>

(* The loop notifies a condition variable only it waits for.               *)
Announce ==
    /\ loop = "announce"
    /\ loop' = "enter"
    /\ UNCHANGED <<saw, running, LoopOnly>>

-----------------------------------------------------------------------------
(* The HTTP thread and its cleanup: main.                                  *)

(* Mutant: the push does not take queue_mutex_.                            *)
AddJobUnlocked ==
    /\ main = "serving"
    /\ added < MaxFrames
    /\ pending' = pending + 1
    /\ added' = added + 1
    /\ main' = "notify"
    /\ UNCHANGED <<loop, saw, running, idle, joined, greeting, thread, tworker,
                   joinable, rejects, spurious, destroyed>>

AddJob ==
    /\ main = "serving" /\ ~QueueHeld
    /\ added < MaxFrames
    /\ pending' = pending + 1
    /\ added' = added + 1
    /\ main' = "notify"
    /\ UNCHANGED <<loop, saw, running, idle, joined, greeting, thread, tworker,
                   joinable, rejects, spurious, destroyed>>

(* Mutant: addJob does not notify.                                         *)
AddJobSilent ==
    /\ main = "notify"
    /\ main' = "serving"
    /\ UNCHANGED <<loop, saw, running, pending, added, idle, joined, greeting,
                   thread, tworker, joinable, rejects, spurious, destroyed>>

AddJobNotify ==
    /\ main = "notify"
    /\ Notify
    /\ main' = "serving"
    /\ UNCHANGED <<saw, running, pending, added, idle, joined, greeting, thread,
                   tworker, joinable, rejects, spurious, destroyed>>

(* drogon's run() returned, or the static Scheduler is destroyed.          *)
Stop ==
    /\ main = "serving" /\ CanStop
    /\ main' = "tell"
    /\ running' = FALSE
    /\ UNCHANGED <<loop, saw, pending, added, idle, joined, greeting, thread,
                   tworker, joinable, rejects, spurious, destroyed>>

StopNotify ==
    /\ main = "tell"
    /\ Notify
    /\ main' = "locking"
    /\ UNCHANGED <<saw, running, pending, added, idle, joined, greeting, thread,
                   tworker, joinable, rejects, spurious, destroyed>>

MainOnly == <<loop, saw, pending, added, idle, joined, greeting, thread, tworker,
              rejects, spurious>>

(* joinThreads keeps threads_mutex_ while it joins.                        *)
JoinLock ==
    /\ main = "locking"
    /\ main' = "joining"
    /\ UNCHANGED <<MainOnly, running, joinable, destroyed>>

JoinThreads ==
    /\ main = "joining"
    /\ \A t \in joinable : thread[t] = "finished"
    /\ joinable' = {}
    /\ main' = IF destroyed THEN "exited" ELSE "stopserver"
    /\ UNCHANGED <<MainOnly, running, destroyed>>

(* The gRPC server answers no callback and no registration from here on.   *)
StopServer ==
    /\ main = "stopserver"
    /\ main' = "joinloop"
    /\ UNCHANGED <<MainOnly, running, joinable, destroyed>>

(* Mutant: ~Scheduler does not stop a second time.                         *)
JoinLoopOnce ==
    /\ main = "joinloop" /\ loop = "ended"
    /\ main' = "exited"
    /\ running' = FALSE
    /\ destroyed' = TRUE
    /\ UNCHANGED <<MainOnly, joinable>>

(* scheduler_thread.join(), then ~Scheduler calls stop() again.            *)
JoinLoop ==
    /\ main = "joinloop" /\ loop = "ended"
    /\ main' = "tell"
    /\ running' = FALSE
    /\ destroyed' = TRUE
    /\ UNCHANGED <<MainOnly, joinable>>

-----------------------------------------------------------------------------
(* gRPC handlers of workers that register or come back.  They hold         *)
(* workers_mutex_ only to set the status, and notify afterwards.           *)

Establish(w) ==
    /\ ServerUp /\ ~WorkersHeld
    /\ w \notin joined
    /\ joined' = joined \cup {w}
    /\ idle' = idle \cup {w}
    /\ greeting' = greeting \cup {w}
    /\ UNCHANGED <<loop, saw, main, running, pending, added, thread, tworker,
                   joinable, rejects, spurious, destroyed>>

EstablishNotify(w) ==
    /\ w \in greeting
    /\ greeting' = greeting \ {w}
    /\ Notify
    /\ UNCHANGED <<saw, main, running, pending, added, idle, joined, thread,
                   tworker, joinable, rejects, spurious, destroyed>>

-----------------------------------------------------------------------------
(* A dispatch thread.  Its RPC returns only after the worker has called    *)
(* back, and the callback's handler needs workers_mutex_.                  *)

ThreadOnly == <<saw, main, running, added, joined, greeting, tworker, joinable,
                spurious, destroyed>>

CallbackIdle(t) ==
    /\ thread[t] = "call" /\ ServerUp /\ ~WorkersHeld
    /\ idle' = idle \cup {tworker[t]}
    /\ thread' = [thread EXCEPT ![t] = "notify"]
    /\ UNCHANGED <<loop, pending, rejects, ThreadOnly>>

(* The handler notifies and answers, the worker answers, the thread ends.  *)
CallbackNotify(t) ==
    /\ thread[t] = "notify"
    /\ Notify
    /\ thread' = [thread EXCEPT ![t] = "finished"]
    /\ UNCHANGED <<idle, pending, rejects, ThreadOnly>>

(* The callback meets a stopped server; the worker logs it and answers.    *)
CallbackUnserved(t) ==
    /\ thread[t] = "call" /\ ~ServerUp
    /\ thread' = [thread EXCEPT ![t] = "finished"]
    /\ UNCHANGED <<loop, idle, pending, rejects, ThreadOnly>>

Reject(t) ==
    /\ thread[t] = "call" /\ rejects < MaxRejects
    /\ rejects' = rejects + 1
    /\ thread' = [thread EXCEPT ![t] = "push"]
    /\ UNCHANGED <<loop, idle, pending, ThreadOnly>>

RejectPush(t) ==
    /\ thread[t] = "push" /\ ~QueueHeld
    /\ pending' = pending + 1
    /\ thread' = [thread EXCEPT ![t] = "offline"]
    /\ UNCHANGED <<loop, idle, rejects, ThreadOnly>>

RejectOffline(t) ==
    /\ thread[t] = "offline" /\ ~WorkersHeld
    /\ idle' = idle \ {tworker[t]}
    /\ thread' = [thread EXCEPT ![t] = "announce"]
    /\ UNCHANGED <<loop, pending, rejects, ThreadOnly>>

RejectNotify(t) ==
    /\ thread[t] = "announce"
    /\ Notify
    /\ thread' = [thread EXCEPT ![t] = "finished"]
    /\ UNCHANGED <<idle, pending, rejects, ThreadOnly>>

-----------------------------------------------------------------------------
LoopStep ==
    \/ LoopStart \/ LoopEnter \/ PredicateScan \/ PredicateDecide \/ Sleep
    \/ Reacquire \/ AssignLockWorkers \/ AssignLockQueue
    \/ \E w \in Workers : AssignPop(w)
    \/ AssignSpawn \/ AssignDone \/ Announce

MainStep ==
    \/ AddJobNotify \/ StopNotify \/ JoinLock \/ JoinThreads
    \/ StopServer \/ JoinLoop

ThreadStep(t) ==
    \/ CallbackIdle(t) \/ CallbackNotify(t) \/ CallbackUnserved(t)
    \/ RejectPush(t) \/ RejectOffline(t) \/ RejectNotify(t)

Next ==
    \/ LoopStep \/ SpuriousWake
    \/ MainStep \/ AddJob \/ Stop
    \/ \E w \in Workers : Establish(w) \/ EstablishNotify(w)
    \/ \E t \in Threads : ThreadStep(t) \/ Reject(t)

Spec == Init /\ [][Next]_vars

(* Every thread that can run runs; a worker answers its call in the end.   *)
Fairness ==
    /\ WF_vars(LoopStep) /\ WF_vars(MainStep)
    /\ \A w \in Workers : WF_vars(EstablishNotify(w))
    /\ \A t \in Threads : WF_vars(ThreadStep(t))

FairSpec == Spec /\ Fairness

-----------------------------------------------------------------------------
(* Every variable stays in its type.                                       *)
TypeOK ==
    /\ loop \in LoopPC /\ saw \in BOOLEAN
    /\ main \in MainPC /\ running \in BOOLEAN
    /\ pending \in Nat /\ added \in 0 .. MaxFrames
    /\ idle \subseteq Workers /\ joined \subseteq Workers
    /\ greeting \subseteq Workers
    /\ thread \in [Threads -> ThreadPC]
    /\ tworker \in [Threads -> Workers \cup {"nobody"}]
    /\ joinable \subseteq Threads
    /\ rejects \in 0 .. MaxRejects /\ spurious \in 0 .. MaxSpurious
    /\ destroyed \in BOOLEAN

(* A frame that addJob or a rejection pushes while the loop is about to    *)
(* sleep, or sleeps, is announced afterwards: pushes hold queue_mutex_, so *)
(* none falls between the predicate and the wait (scheduler.cpp:91-100 and *)
(* 311-322).                                                               *)
PushIsNeverMissed ==
    loop = "asleep" /\ saw /\ pending > 0 =>
        \/ main = "notify"
        \/ \E t \in Threads : thread[t] \in {"offline", "announce"}

(* No worker is called by two dispatch threads, nor handed out as IDLE     *)
(* while one still calls it, across callbacks, rejections and shutdown.    *)
WorkerIsCalledOnce ==
    \A t \in Threads : thread[t] \in {"call", "push"} =>
        /\ tworker[t] \notin idle
        /\ \A u \in Threads : thread[u] \in {"call", "push"}
                                /\ tworker[u] = tworker[t] => u = t

(* The process never exits under a thread: neither the loop nor a dispatch *)
(* thread, also one spawned after the first joinThreads, outlives main     *)
(* (scheduler.hpp:77, ~Scheduler stops a second time).                     *)
ExitLeavesNoThread ==
    main = "exited" =>
        /\ loop = "ended"
        /\ \A t \in Threads : thread[t] \in {"none", "finished"}

(* Until shutdown no dispatch thread is stuck on a mutex: the loop gives   *)
(* workers_mutex_ and queue_mutex_ back however frames keep coming.        *)
DispatchThreadsFinish ==
    \A t \in Threads :
        thread[t] # "none" ~> thread[t] = "finished" \/ main \notin {"serving", "notify"}

(* A loop that fell asleep with an idle worker at hand wakes up when a     *)
(* frame arrives.                                                          *)
SleeperHearsPush ==
    loop = "asleep" /\ saw /\ pending > 0 ~> loop # "asleep"

(* scheduler.cpp:235: the loop waits for a frame and an idle worker, and   *)
(* goes on when it has both.                                               *)
IdleWorkerGetsFrame ==
    pending > 0 /\ idle # {} ~> pending = 0 \/ idle = {} \/ ~running

(* scheduler.cpp:296: a thread per dispatch, "so gRPC calls don't block    *)
(* the loop".                                                              *)
CallsDoNotBlockLoop == loop = "spawn" ~> loop # "spawn"

=============================================================================
