--------------------------- MODULE FrameDispatch ---------------------------
(***************************************************************************)
(* The life of a render: an HTTP request becomes frames in the scheduler's *)
(* queue, the scheduling loop hands each frame to an idle worker over a    *)
(* synchronous RenderJob RPC, the worker calls back with JobCompleted      *)
(* before it answers, and the callback books the frame and, with the last  *)
(* one, flips the render to COMPLETED.  A rejected RPC puts the frame back *)
(* in the queue and takes the worker out of the pool.                      *)
(*                                                                         *)
(* Threads that interleave: the HTTP thread (Submit), the scheduling loop  *)
(* (AssignFrame), one dispatch thread per frame (CallStep), one gRPC       *)
(* handler thread per callback (CallbackStep), the workers.  A critical    *)
(* section is one action; what runs between two critical sections is not.  *)
(*                                                                         *)
(* The condition variable that wakes the loop is not modelled here: the    *)
(* loop may take a step whenever its predicate holds.                      *)
(***************************************************************************)
EXTENDS Integers, Sequences, FiniteSets

CONSTANTS
    Renders,    \* render ids
    Workers,    \* worker ids (the --name of a render_worker process)
    Jobs,       \* job ids the scheduler can mint; bounds the dispatches
    NumFrames,  \* animation_runtime of each render; 0 is accepted by the code
    Faults,     \* the kinds of failure that may happen
    MaxFaults   \* bound on how many of them happen

FaultKinds == {"render", "upload", "callback", "sever", "crash", "leave"}

ASSUME FramesAssumption == NumFrames \in [Renders -> Nat]
ASSUME JobsAssumption == IsFiniteSet(Jobs)
ASSUME FaultsAssumption == Faults \subseteq FaultKinds /\ MaxFaults \in Nat

Frames(r) == 0 .. NumFrames[r] - 1
FrameJobs == {f \in Renders \X Nat : f[2] \in Frames(f[1])}

RenderStatus == {"NONE", "IN_QUEUE", "IN_PROGRESS", "COMPLETED"}
WorkerStatus == {"UNKNOWN", "IDLE", "BUSY", "OFFLINE"}
ProcState == {"down", "starting", "serving", "leaving", "draining"}
CallState == {"none", "inflight", "failed", "erased", "requeued", "closed"}
CallbackStage == {"notified", "landing", "showing", "linking", "completing",
                  "idling"}
Stage == {"none", "sent", "rendering", "replying", "done"} \cup CallbackStage

VARIABLES
    \* RenderHistory: what GET /renders/{id} reads
    status, shown, links,
    \* Scheduler::render_progress_: its keys, and per key the frames with a
    \* link and the framesCompleted counter
    tracked, landed, count,
    \* pending_jobs_, worker_job_to_render_id_, workers_[].status
    queue, jobMap, wstatus,
    \* per job id: the FrameJob and worker captured by its dispatch thread, the
    \* state of that thread's RPC, how far the worker and its callback are,
    \* whether the worker will answer OK, and the callback's local variables
    jframe, jworker, call, stage, ok, snap,
    \* the worker processes, the frames in the S3 bucket, faults so far
    proc, bucket, faults

history  == <<status, shown, links>>
progress == <<tracked, landed, count>>
job      == <<jframe, jworker>>
world    == <<proc, bucket, faults>>
vars == <<history, progress, queue, jobMap, wstatus, job, call, stage, ok, snap,
          world>>

NoFrame  == <<"no frame">>
NoWorker == "no worker"
NoSnap   == [n |-> 0, all |-> FALSE, links |-> {}]

RenderOf(j) == jframe[j][1]
FrameOf(j)  == jframe[j][2]
Queued(f)   == \E k \in DOMAIN queue : queue[k] = f

Fault(f) == f \in Faults /\ faults < MaxFaults /\ faults' = faults + 1

-----------------------------------------------------------------------------
Init ==
    /\ status = [r \in Renders |-> "NONE"]
    /\ shown  = [r \in Renders |-> 0]
    /\ links  = [r \in Renders |-> {}]
    /\ tracked = {}
    /\ landed = [r \in Renders |-> {}]
    /\ count  = [r \in Renders |-> 0]
    /\ queue  = << >>
    /\ jobMap = {}
    /\ wstatus = [w \in Workers |-> "UNKNOWN"]
    /\ jframe  = [j \in Jobs |-> NoFrame]
    /\ jworker = [j \in Jobs |-> NoWorker]
    /\ call  = [j \in Jobs |-> "none"]
    /\ stage = [j \in Jobs |-> "none"]
    /\ ok    = [j \in Jobs |-> TRUE]
    /\ snap  = [j \in Jobs |-> NoSnap]
    /\ proc  = [w \in Workers |-> "down"]
    /\ bucket = {}
    /\ faults = 0

-----------------------------------------------------------------------------
(* The HTTP thread.                                                        *)

(* Mutant: frame indices start at one.                                     *)
AddJobFromOne(r) ==
    IF NumFrames[r] <= 0
    THEN UNCHANGED <<progress, queue>>
    ELSE /\ tracked' = tracked \cup {r}
         /\ landed' = [landed EXCEPT ![r] = {}]
         /\ count' = [count EXCEPT ![r] = 0]
         /\ queue' = queue \o [k \in 1 .. NumFrames[r] |-> <<r, k>>]

(* createRenderRequest: addRender, then addJob, which opens a progress     *)
(* entry and queues one FrameJob per frame, or returns early when there    *)
(* are none.  No other thread can name the render before its frames are in *)
(* the queue, so the handler is one action.                                *)
AddJob(r) ==
    IF NumFrames[r] <= 0
    THEN UNCHANGED <<progress, queue>>
    ELSE /\ tracked' = tracked \cup {r}
         /\ landed' = [landed EXCEPT ![r] = {}]
         /\ count' = [count EXCEPT ![r] = 0]
         /\ queue' = queue \o [k \in 1 .. NumFrames[r] |-> <<r, k - 1>>]

Submit(r) ==
    /\ status[r] = "NONE"
    /\ status' = [status EXCEPT ![r] = "IN_QUEUE"]
    /\ AddJob(r)
    /\ UNCHANGED <<shown, links, jobMap, wstatus, job, call, stage, ok, snap,
                   world>>

-----------------------------------------------------------------------------
(* The scheduling loop.                                                    *)

FreshJob == CHOOSE j \in Jobs : call[j] = "none"

(* Mutants: the frame stays in the queue, the job is not entered into the  *)
(* map, the worker is not marked BUSY.                                     *)
AssignFrameBut(w, pops, registers, busy) ==
    /\ queue # << >>
    /\ wstatus[w] = "IDLE"
    /\ \E j \in Jobs : call[j] = "none"
    /\ LET j == FreshJob
           f == Head(queue)
       IN  /\ queue' = IF pops THEN Tail(queue) ELSE queue
           /\ wstatus' = IF busy THEN [wstatus EXCEPT ![w] = "BUSY"] ELSE wstatus
           /\ status' = [status EXCEPT ![f[1]] = "IN_PROGRESS"]
           /\ jobMap' = IF registers THEN jobMap \cup {j} ELSE jobMap
           /\ jframe' = [jframe EXCEPT ![j] = f]
           /\ jworker' = [jworker EXCEPT ![j] = w]
           /\ call' = [call EXCEPT ![j] = "inflight"]
           /\ stage' = [stage EXCEPT ![j] = "sent"]
    /\ UNCHANGED <<shown, links, progress, ok, snap, world>>

AssignFrameNoPop(w)        == AssignFrameBut(w, FALSE, TRUE, TRUE)
AssignFrameUnregistered(w) == AssignFrameBut(w, TRUE, FALSE, TRUE)
AssignFrameNotBusy(w)      == AssignFrameBut(w, TRUE, TRUE, FALSE)

(* One turn of assignJobs' loop.  The code picks the first idle worker in  *)
(* roster order; any idle worker stands for every roster order.  The loop  *)
(* holds workers_mutex_ and queue_mutex_ over all its turns; letting other *)
(* threads in between two turns only adds behaviours that a second call of *)
(* assignJobs has.                                                         *)
AssignFrame(w) ==
    /\ queue # << >>
    /\ wstatus[w] = "IDLE"
    /\ \E j \in Jobs : call[j] = "none"
    /\ LET j == FreshJob
           f == Head(queue)
       IN  /\ queue' = Tail(queue)
           /\ wstatus' = [wstatus EXCEPT ![w] = "BUSY"]
           /\ status' = [status EXCEPT ![f[1]] = "IN_PROGRESS"]
           /\ jobMap' = jobMap \cup {j}
           /\ jframe' = [jframe EXCEPT ![j] = f]
           /\ jworker' = [jworker EXCEPT ![j] = w]
           /\ call' = [call EXCEPT ![j] = "inflight"]
           /\ stage' = [stage EXCEPT ![j] = "sent"]
    /\ UNCHANGED <<shown, links, progress, ok, snap, world>>

-----------------------------------------------------------------------------
(* The dispatch thread of a job, once its RPC is not accepted.             *)

(* The worker's port is closed: not listening yet, shutting down, gone.    *)
CallRefused(j) ==
    /\ call[j] = "inflight" /\ stage[j] = "sent"
    /\ proc[jworker[j]] \in {"down", "starting", "draining"}
    /\ call' = [call EXCEPT ![j] = "failed"]
    /\ stage' = [stage EXCEPT ![j] = "done"]
    /\ UNCHANGED <<history, progress, queue, jobMap, wstatus, job, ok, snap,
                   world>>

(* The connection breaks while the worker lives on and keeps rendering.    *)
CallSevered(j) ==
    /\ call[j] = "inflight" /\ stage[j] \notin {"none", "sent", "done"}
    /\ Fault("sever")
    /\ call' = [call EXCEPT ![j] = "failed"]
    /\ UNCHANGED <<history, progress, queue, jobMap, wstatus, job, stage, ok,
                   snap, proc, bucket>>

CallErase(j) ==
    /\ call[j] = "failed"
    /\ jobMap' = jobMap \ {j}
    /\ call' = [call EXCEPT ![j] = "erased"]
    /\ UNCHANGED <<history, progress, queue, wstatus, job, stage, ok, snap,
                   world>>

(* Mutant: the rejection path forgets the frame.                           *)
CallRequeueDropped(j) ==
    /\ call[j] = "erased"
    /\ call' = [call EXCEPT ![j] = "requeued"]
    /\ UNCHANGED <<history, progress, queue, jobMap, wstatus, job, stage, ok,
                   snap, world>>

CallRequeue(j) ==
    /\ call[j] = "erased"
    /\ queue' = Append(queue, jframe[j])
    /\ call' = [call EXCEPT ![j] = "requeued"]
    /\ UNCHANGED <<history, progress, jobMap, wstatus, job, stage, ok, snap,
                   world>>

(* Mutant: the rejection path leaves the worker as it is.                  *)
CallOfflineSilent(j) ==
    /\ call[j] = "requeued"
    /\ call' = [call EXCEPT ![j] = "closed"]
    /\ UNCHANGED <<history, progress, queue, jobMap, wstatus, job, stage, ok,
                   snap, world>>

CallOffline(j) ==
    /\ call[j] = "requeued"
    /\ wstatus' = [wstatus EXCEPT ![jworker[j]] = "OFFLINE"]
    /\ call' = [call EXCEPT ![j] = "closed"]
    /\ UNCHANGED <<history, progress, queue, jobMap, job, stage, ok, snap,
                   world>>

-----------------------------------------------------------------------------
(* The worker's RenderJob handler.                                         *)

WorkerReceive(j) ==
    /\ call[j] = "inflight" /\ stage[j] = "sent"
    /\ proc[jworker[j]] \in {"serving", "leaving"}
    /\ stage' = [stage EXCEPT ![j] = "rendering"]
    /\ UNCHANGED <<history, progress, queue, jobMap, wstatus, job, call, ok,
                   snap, world>>

(* generateScene returned; putObject's result is not looked at, so a lost  *)
(* upload goes on exactly like a good one.                                 *)
WorkerRender(j) ==
    /\ stage[j] = "rendering"
    /\ \/ bucket' = bucket \cup {jframe[j]} /\ UNCHANGED faults
       \/ Fault("upload") /\ UNCHANGED bucket
    /\ stage' = [stage EXCEPT ![j] = "notified"]
    /\ UNCHANGED <<history, progress, queue, jobMap, wstatus, job, call, ok,
                   snap, proc>>

(* generateScene threw: the catch block calls JobCompleted all the same    *)
(* and will answer INTERNAL.                                               *)
WorkerFail(j) ==
    /\ stage[j] = "rendering"
    /\ Fault("render")
    /\ ok' = [ok EXCEPT ![j] = FALSE]
    /\ stage' = [stage EXCEPT ![j] = "notified"]
    /\ UNCHANGED <<history, progress, queue, jobMap, wstatus, job, call, snap,
                   proc, bucket>>

(* SchedulerClient::JobCompleted logs a failed RPC and returns.            *)
WorkerNotifyLost(j) ==
    /\ stage[j] = "notified"
    /\ Fault("callback")
    /\ stage' = [stage EXCEPT ![j] = "replying"]
    /\ UNCHANGED <<history, progress, queue, jobMap, wstatus, job, call, ok,
                   snap, proc, bucket>>

(* The answer closes the dispatch thread's call, when it still waits.      *)
WorkerReply(j) ==
    /\ stage[j] = "replying"
    /\ stage' = [stage EXCEPT ![j] = "done"]
    /\ call' = [call EXCEPT ![j] = IF @ # "inflight" THEN @
                                   ELSE IF ok[j] THEN "closed" ELSE "failed"]
    /\ UNCHANGED <<history, progress, queue, jobMap, wstatus, job, ok, snap,
                   world>>

-----------------------------------------------------------------------------
(* SchedulerServer::JobCompleted: markRenderCompleted, then markWorkerIdle *)
(* whatever markRenderCompleted returned.                                  *)

CallbackLookup(j) ==
    /\ stage[j] = "notified"
    /\ stage' = [stage EXCEPT ![j] = IF j \in jobMap THEN "landing" ELSE "idling"]
    /\ jobMap' = jobMap \ {j}
    /\ UNCHANGED <<history, progress, queue, wstatus, job, call, ok, snap, world>>

(* Mutants: a frame counts each time it lands, the entry of a finished     *)
(* render stays, completion is tested with > for >=.                       *)
CallbackLandBut(j, counts, erases, late) ==
    LET r == RenderOf(j)
        i == FrameOf(j)
        now == landed[r] \cup {i}
        n == IF counts \/ i \notin landed[r] THEN count[r] + 1 ELSE count[r]
        all == IF late THEN n > NumFrames[r] ELSE n >= NumFrames[r]
        erase == all /\ erases
    IN  /\ stage[j] = "landing"
        /\ \/ /\ r \notin tracked
              /\ stage' = [stage EXCEPT ![j] = "idling"]
              /\ UNCHANGED <<progress, snap>>
           \/ /\ r \in tracked
              /\ stage' = [stage EXCEPT ![j] = "showing"]
              /\ snap' = [snap EXCEPT ![j] = [n |-> n, all |-> all,
                                              links |-> IF all THEN now ELSE {}]]
              /\ tracked' = IF erase THEN tracked \ {r} ELSE tracked
              /\ landed' = [landed EXCEPT ![r] = IF erase THEN {} ELSE now]
              /\ count' = [count EXCEPT ![r] = IF erase THEN 0 ELSE n]
        /\ UNCHANGED <<history, queue, jobMap, wstatus, job, call, ok, world>>

CallbackLandUnguarded(j) == CallbackLandBut(j, TRUE, TRUE, FALSE)
CallbackLandKeepsEntry(j) == CallbackLandBut(j, FALSE, FALSE, FALSE)
CallbackLandLate(j) == CallbackLandBut(j, FALSE, TRUE, TRUE)

(* The critical section on progress_mutex_.                                *)
CallbackLand(j) ==
    LET r == RenderOf(j)
        i == FrameOf(j)
        fresh == i \notin landed[r]
        now == IF fresh THEN landed[r] \cup {i} ELSE landed[r]
        n == IF fresh THEN count[r] + 1 ELSE count[r]
        all == n >= NumFrames[r]
    IN  /\ stage[j] = "landing"
        /\ \/ /\ r \notin tracked
              /\ stage' = [stage EXCEPT ![j] = "idling"]
              /\ UNCHANGED <<progress, snap>>
           \/ /\ r \in tracked
              /\ stage' = [stage EXCEPT ![j] = "showing"]
              /\ snap' = [snap EXCEPT ![j] = [n |-> n, all |-> all,
                                              links |-> IF all THEN now ELSE {}]]
              /\ tracked' = IF all THEN tracked \ {r} ELSE tracked
              /\ landed' = [landed EXCEPT ![r] = IF all THEN {} ELSE now]
              /\ count' = [count EXCEPT ![r] = IF all THEN 0 ELSE n]
        /\ UNCHANGED <<history, queue, jobMap, wstatus, job, call, ok, world>>

(* Mutant: the links of a finished render are not stored.                  *)
CallbackShowSkipsLinks(j) ==
    /\ stage[j] = "showing"
    /\ shown' = [shown EXCEPT ![RenderOf(j)] = snap[j].n]
    /\ stage' = [stage EXCEPT ![j] = IF snap[j].all THEN "completing" ELSE "idling"]
    /\ UNCHANGED <<status, links, progress, queue, jobMap, wstatus, job, call,
                   ok, snap, world>>

CallbackShow(j) ==
    /\ stage[j] = "showing"
    /\ shown' = [shown EXCEPT ![RenderOf(j)] = snap[j].n]
    /\ stage' = [stage EXCEPT ![j] = IF snap[j].all THEN "linking" ELSE "idling"]
    /\ UNCHANGED <<status, links, progress, queue, jobMap, wstatus, job, call,
                   ok, snap, world>>

CallbackLink(j) ==
    /\ stage[j] = "linking"
    /\ links' = [links EXCEPT ![RenderOf(j)] = snap[j].links]
    /\ stage' = [stage EXCEPT ![j] = "completing"]
    /\ UNCHANGED <<status, shown, progress, queue, jobMap, wstatus, job, call,
                   ok, snap, world>>

CallbackComplete(j) ==
    /\ stage[j] = "completing"
    /\ status' = [status EXCEPT ![RenderOf(j)] = "COMPLETED"]
    /\ stage' = [stage EXCEPT ![j] = "idling"]
    /\ UNCHANGED <<shown, links, progress, queue, jobMap, wstatus, job, call,
                   ok, snap, world>>

(* Mutant: the callback does not free the worker.                          *)
CallbackIdleSilent(j) ==
    /\ stage[j] = "idling"
    /\ stage' = [stage EXCEPT ![j] = "replying"]
    /\ UNCHANGED <<history, progress, queue, jobMap, wstatus, job, call, ok, snap,
                   world>>

CallbackIdle(j) ==
    /\ stage[j] = "idling"
    /\ wstatus' = [wstatus EXCEPT ![jworker[j]] = "IDLE"]
    /\ stage' = [stage EXCEPT ![j] = "replying"]
    /\ UNCHANGED <<history, progress, queue, jobMap, job, call, ok, snap, world>>

-----------------------------------------------------------------------------
(* The worker processes.                                                   *)

(* EstablishConnection: register or reconnect, both end in IDLE.           *)
Establish(w) ==
    /\ proc[w] = "down"
    /\ proc' = [proc EXCEPT ![w] = "starting"]
    /\ wstatus' = [wstatus EXCEPT ![w] = "IDLE"]
    /\ UNCHANGED <<history, progress, queue, jobMap, job, call, stage, ok, snap,
                   bucket, faults>>

(* BuildServer, which main calls after it has registered.                  *)
StartServing(w) ==
    /\ proc[w] = "starting"
    /\ proc' = [proc EXCEPT ![w] = "serving"]
    /\ UNCHANGED <<history, progress, queue, jobMap, wstatus, job, call, stage,
                   ok, snap, bucket, faults>>

(* SIGTERM: shutdownServer tells the scheduler first ...                   *)
Disconnect(w) ==
    /\ proc[w] = "serving"
    /\ Fault("leave")
    /\ proc' = [proc EXCEPT ![w] = "leaving"]
    /\ wstatus' = [wstatus EXCEPT ![w] = "OFFLINE"]
    /\ UNCHANGED <<history, progress, queue, jobMap, job, call, stage, ok, snap,
                   bucket>>

(* ... then closes the port and waits for the handlers that still run.     *)
ShutdownServer(w) ==
    /\ proc[w] = "leaving"
    /\ proc' = [proc EXCEPT ![w] = "draining"]
    /\ UNCHANGED <<history, progress, queue, jobMap, wstatus, job, call, stage,
                   ok, snap, bucket, faults>>

Exit(w) ==
    /\ proc[w] = "draining"
    /\ \A j \in Jobs : jworker[j] = w => stage[j] \in {"sent", "done"}
    /\ proc' = [proc EXCEPT ![w] = "down"]
    /\ UNCHANGED <<history, progress, queue, jobMap, wstatus, job, call, stage,
                   ok, snap, bucket, faults>>

(* The process dies: its calls fail, its handlers vanish.  A JobCompleted  *)
(* the scheduler already has is still served.                              *)
Crash(w) ==
    LET mine == {j \in Jobs : stage[j] # "none" /\ jworker[j] = w}
    IN  /\ proc[w] # "down"
        /\ Fault("crash")
        /\ proc' = [proc EXCEPT ![w] = "down"]
        /\ call' = [j \in Jobs |-> IF j \in mine /\ call[j] = "inflight"
                                   THEN "failed" ELSE call[j]]
        /\ stage' = [j \in Jobs |-> IF j \in mine /\ stage[j] \notin CallbackStage
                                    THEN "done" ELSE stage[j]]
        /\ UNCHANGED <<history, progress, queue, jobMap, wstatus, job, ok, snap,
                       bucket>>

-----------------------------------------------------------------------------
CallStep(j) ==
    CallRefused(j) \/ CallErase(j) \/ CallRequeue(j) \/ CallOffline(j)

WorkerStep(j) == WorkerReceive(j) \/ WorkerRender(j) \/ WorkerReply(j)

CallbackStep(j) ==
    \/ CallbackLookup(j) \/ CallbackLand(j) \/ CallbackShow(j)
    \/ CallbackLink(j) \/ CallbackComplete(j) \/ CallbackIdle(j)

FaultStep(j) == CallSevered(j) \/ WorkerFail(j) \/ WorkerNotifyLost(j)

ProcessStep(w) ==
    \/ Establish(w) \/ StartServing(w) \/ Disconnect(w)
    \/ ShutdownServer(w) \/ Exit(w) \/ Crash(w)

Next ==
    \/ \E r \in Renders : Submit(r)
    \/ \E w \in Workers : AssignFrame(w) \/ ProcessStep(w)
    \/ \E j \in Jobs : CallStep(j) \/ WorkerStep(j) \/ CallbackStep(j) \/ FaultStep(j)

Spec == Init /\ [][Next]_vars

(* Threads are scheduled: the loop, each dispatch thread, each handler and *)
(* a worker's start-up go on.  Nothing makes a request, a worker process,  *)
(* a signal or a fault happen.                                             *)
Fairness ==
    /\ WF_vars(\E w \in Workers : AssignFrame(w))
    /\ \A j \in Jobs : /\ WF_vars(CallStep(j))
                       /\ WF_vars(WorkerStep(j))
                       /\ WF_vars(CallbackStep(j))
    /\ \A w \in Workers : WF_vars(StartServing(w) \/ ShutdownServer(w) \/ Exit(w))

FairSpec == Spec /\ Fairness

-----------------------------------------------------------------------------
(* Every variable stays in its type; in particular the queue and the       *)
(* dispatched jobs only ever hold frames that their render has.            *)
TypeOK ==
    /\ status \in [Renders -> RenderStatus]
    /\ shown \in [Renders -> Nat]
    /\ links \in [Renders -> SUBSET Nat]
    /\ tracked \subseteq Renders
    /\ landed \in [Renders -> SUBSET Nat]
    /\ count \in [Renders -> Nat]
    /\ queue \in Seq(FrameJobs)
    /\ jobMap \subseteq Jobs
    /\ wstatus \in [Workers -> WorkerStatus]
    /\ jframe \in [Jobs -> FrameJobs \cup {NoFrame}]
    /\ jworker \in [Jobs -> Workers \cup {NoWorker}]
    /\ call \in [Jobs -> CallState]
    /\ stage \in [Jobs -> Stage]
    /\ ok \in [Jobs -> BOOLEAN]
    /\ snap \in [Jobs -> [n : Nat, all : BOOLEAN, links : SUBSET Nat]]
    /\ proc \in [Workers -> ProcState]
    /\ bucket \subseteq FrameJobs
    /\ faults \in 0 .. MaxFaults

(* The job answers for its frame: the worker still owes a callback that    *)
(* will find its entry, or an answer that will fail the call, or the frame *)
(* is on its way back to the queue, or on its way into the progress entry. *)
Carried(j) ==
    \/ /\ call[j] = "inflight" /\ j \in jobMap
       /\ stage[j] \in {"sent", "rendering", "notified"} \/ ~ok[j]
    \/ call[j] \in {"failed", "erased"}
    \/ stage[j] = "landing"

(* The worker rendered the frame, and its JobCompleted never arrived.      *)
CallbackLost(j) ==
    /\ j \in jobMap /\ ok[j]
    /\ stage[j] \in {"replying", "done"} /\ call[j] \in {"inflight", "closed"}

Forgotten(j) == "callback" \in Faults /\ CallbackLost(j)

Held(j) == Carried(j) \/ Forgotten(j)

(* No frame is lost: a frame its render still waits for is in the queue or *)
(* carried by a job, through every refusal, crash, broken connection and   *)
(* late callback.  Only a lost JobCompleted loses a frame: worker and      *)
(* scheduler both drop it (scheduler_client.cpp:86, scheduler.cpp:324).    *)
NoLostFrame ==
    \A r \in tracked : \A i \in Frames(r) \ landed[r] :
        Queued(<<r, i>>) \/ \E j \in Jobs : jframe[j] = <<r, i>> /\ Held(j)

(* The dispatch thread owns the frame from the pop to the push back.       *)
Owns(j) == call[j] \in {"inflight", "failed", "erased"}

(* A frame has one owner: requeueing never leaves a frame twice in the     *)
(* queue, nor in the queue and with a dispatch thread that waits for it,   *)
(* nor with two such threads (assignJobs, the rejection path).             *)
OneOwnerPerFrame ==
    /\ \A k, m \in DOMAIN queue : queue[k] = queue[m] => k = m
    /\ \A j \in Jobs : Owns(j) => ~Queued(jframe[j])
    /\ \A j, k \in Jobs : Owns(j) /\ Owns(k) /\ jframe[j] = jframe[k] => j = k

(* The counter that decides completion is the number of frames with a      *)
(* link, although a frame can land twice; an entry that has all its frames *)
(* is not left behind, and the callback that finds the count complete has  *)
(* a link for every frame (markRenderCompleted's critical section).        *)
CountMatchesLinks ==
    /\ \A r \in tracked : /\ landed[r] \subseteq Frames(r)
                          /\ count[r] = Cardinality(landed[r])
                          /\ count[r] < NumFrames[r]
    /\ \A j \in Jobs : snap[j].all => snap[j].links = Frames(RenderOf(j))

(* What a client reads of a COMPLETED render has a link for every frame:   *)
(* the links are in place before the status says so, whichever callback    *)
(* finished the render (toJson shows them once the status is COMPLETED).   *)
CompletedHasEveryLink ==
    \A r \in Renders : status[r] = "COMPLETED" => links[r] = Frames(r)

(* A render is finalised by one callback only, however many callbacks of   *)
(* its frames run together and however often a frame is rendered.          *)
FinalisedOnce ==
    \A j, k \in Jobs :
        snap[j].all /\ snap[k].all /\ RenderOf(j) = RenderOf(k) => j = k

(* scheduler.hpp:89: a callback whose dispatch thread still waits for the  *)
(* worker's answer finds the job's entry in the map.                       *)
CallbackFindsEntry ==
    \A j \in Jobs : stage[j] = "notified" /\ call[j] = "inflight" => j \in jobMap

(* A BUSY worker has a job that will still take it out of BUSY, by its     *)
(* callback or by its rejection: no order of callbacks, rejections and     *)
(* reconnects leaves a worker BUSY with nothing to free it, unless a       *)
(* callback was lost.                                                      *)
BusyWorkerHasJob ==
    \A w \in Workers : wstatus[w] = "BUSY" =>
        \E j \in Jobs :
            /\ jworker[j] = w
            /\ \/ call[j] \in {"failed", "erased", "requeued"}
               \/ stage[j] \in {"sent", "rendering"} \cup CallbackStage
               \/ call[j] = "inflight" /\ ~ok[j]
               \/ Forgotten(j)

(* A worker works on one frame at a time while processes and connections   *)
(* stay up: its handlers write one local file per render, so two at once   *)
(* would overwrite each other (render_server.cpp:69).  Renders that throw  *)
(* and lost callbacks do not break it.                                     *)
OneFramePerWorker ==
    \A j, k \in Jobs :
        /\ stage[j] \in {"rendering", "notified"}
        /\ stage[k] \in {"rendering", "notified"}
        /\ jworker[j] = jworker[k]
        => j = k

(* Every render with frames is completed, or the pool runs dry: each       *)
(* worker is unknown or OFFLINE, where only an operator brings it back.    *)
NoWorkerLeft == \A w \in Workers : wstatus[w] \in {"UNKNOWN", "OFFLINE"}

EveryRenderFinishes ==
    \A r \in Renders : r \in tracked ~> status[r] = "COMPLETED" \/ NoWorkerLeft

(* No worker stays BUSY: whatever happens to its frame, the callback or    *)
(* the rejection takes it out of BUSY.                                     *)
BusyWorkerIsFreed == \A w \in Workers : wstatus[w] = "BUSY" ~> wstatus[w] # "BUSY"

(* scheduler.hpp:37-39: COMPLETED "only once every frame is in".           *)
CompletedMeansEveryFrameIsIn ==
    \A r \in Renders : status[r] = "COMPLETED" =>
        \A i \in Frames(r) : <<r, i>> \in bucket

(* renderRequest.cpp:165: the links are "populated once the render         *)
(* completes"; the frontend stops polling then (app/page.tsx:287).         *)
CompletedIsFinal ==
    [][\A r \in Renders : status[r] = "COMPLETED" => status'[r] = "COMPLETED"]_vars

-----------------------------------------------------------------------------
(* The ledger a progress entry stands for.  The entry of a closed ledger   *)
(* is erased: its frames are the links its finalising callback took along. *)
Phase(r) ==
    IF status[r] = "NONE" THEN "absent"
    ELSE IF NumFrames[r] = 0 THEN "skipped"
    ELSE IF r \in tracked THEN "open" ELSE "closed"

Finals(r) == {j \in Jobs : snap[j].all /\ RenderOf(j) = r}

Delivered(r) ==
    IF Phase(r) = "closed" THEN UNION {snap[j].links : j \in Finals(r)}
    ELSE landed[r]

Ledger == INSTANCE FrameLedger WITH
    phase <- [r \in Renders |-> Phase(r)],
    delivered <- [r \in Renders |-> Delivered(r)]

(* The scheduler implements the ledger: rejections, retries, duplicate and *)
(* late callbacks never deliver a frame twice, never reopen a finished     *)
(* render and never close one that misses a frame.                         *)
ImplementsLedger == Ledger!Spec

=============================================================================
