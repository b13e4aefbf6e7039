------------------------ MODULE FrameDispatchProofs ------------------------
(***************************************************************************)
(* Proofs about FrameDispatch, for every set of renders, workers and jobs, *)
(* every number of frames and every combination of faults.                 *)
(***************************************************************************)
EXTENDS FrameDispatch, FiniteSetTheorems, SequenceTheorems, TLAPS

(* A job is idle in all its parts or has a frame and a worker.             *)
JobsKnown ==
    \A j \in Jobs :
        /\ call[j] = "none" <=> stage[j] = "none"
        /\ call[j] # "none" => jframe[j] \in FrameJobs /\ jworker[j] \in Workers

TypeInv == TypeOK /\ JobsKnown

-----------------------------------------------------------------------------
(* generateJobId never mints an id that is in use.                         *)
LEMMA FreshJobIsFresh ==
    ASSUME \E j \in Jobs : call[j] = "none"
    PROVE  FreshJob \in Jobs /\ call[FreshJob] = "none"
BY DEF FreshJob

(* A frame in the queue is a frame of its render.                          *)
LEMMA FrameJobParts ==
    ASSUME NEW f \in FrameJobs
    PROVE  f[1] \in Renders /\ f[2] \in Nat /\ f[2] \in Frames(f[1])
           /\ f = <<f[1], f[2]>>
BY DEF FrameJobs

(* The frames createRenderRequest queues are frames of the render.         *)
LEMMA SubmittedFrames ==
    ASSUME NEW r \in Renders
    PROVE  [k \in 1 .. NumFrames[r] |-> <<r, k - 1>>] \in Seq(FrameJobs)
<1>1. NumFrames[r] \in Nat
  BY FramesAssumption
<1>2. \A k \in 1 .. NumFrames[r] : <<r, k - 1>> \in FrameJobs
  BY <1>1 DEF FrameJobs, Frames
<1> QED
  BY <1>1, <1>2, SeqDef

-----------------------------------------------------------------------------
LEMMA TypeInit == Init => TypeInv
BY FaultsAssumption DEF Init, TypeInv, TypeOK, JobsKnown, RenderStatus, WorkerStatus,
   ProcState, CallState, Stage, CallbackStage, NoSnap

LEMMA TypeNext == TypeInv /\ [Next]_vars => TypeInv'
<1> SUFFICES ASSUME TypeInv, [Next]_vars PROVE TypeInv'
  OBVIOUS
<1> USE DEF TypeInv
<1>1. ASSUME NEW r \in Renders, Submit(r) PROVE TypeInv'
  <2>1. NumFrames[r] \in Nat
    BY FramesAssumption
  <2>2. CASE NumFrames[r] <= 0
    <3>1. UNCHANGED <<tracked, landed, count, queue>>
      BY <1>1, <2>2 DEF Submit, AddJob, progress
    <3> QED
      BY <1>1, <3>1 DEF TypeOK, JobsKnown, Submit, RenderStatus, job, world
  <2>3. CASE ~(NumFrames[r] <= 0)
    <3>1. queue' \in Seq(FrameJobs)
      <4> DEFINE frames == [k \in 1 .. NumFrames[r] |-> <<r, k - 1>>]
      <4>1. frames \in Seq(FrameJobs) /\ queue \in Seq(FrameJobs)
        BY SubmittedFrames DEF TypeOK
      <4>2. queue' = queue \o frames
        BY <1>1, <2>3 DEF Submit, AddJob
      <4> HIDE DEF frames
      <4> QED
        BY <4>1, <4>2, ConcatProperties
    <3>2. /\ tracked' = tracked \cup {r}
          /\ landed' = [landed EXCEPT ![r] = {}]
          /\ count' = [count EXCEPT ![r] = 0]
      BY <1>1, <2>3 DEF Submit, AddJob
    <3> QED
      BY <1>1, <3>1, <3>2 DEF TypeOK, JobsKnown, Submit, RenderStatus, job, world
  <2> QED
    BY <2>2, <2>3
<1>2. ASSUME NEW w \in Workers, AssignFrame(w) PROVE TypeInv'
  <2> DEFINE j == FreshJob
             f == Head(queue)
  <2>1. j \in Jobs /\ call[j] = "none"
    BY <1>2, FreshJobIsFresh DEF AssignFrame
  <2>2. f \in FrameJobs /\ Tail(queue) \in Seq(FrameJobs)
    BY <1>2 DEF AssignFrame, TypeOK
  <2>3. f[1] \in Renders
    BY <2>2, FrameJobParts
  <2> QED
    BY <1>2, <2>1, <2>2, <2>3 DEF AssignFrame, TypeOK, JobsKnown, RenderStatus,
       WorkerStatus, CallState, Stage, progress, world
<1>3. ASSUME NEW j \in Jobs, CallStep(j) PROVE TypeInv'
  <2>1. CASE CallRefused(j)
    BY <2>1 DEF CallRefused, TypeOK, JobsKnown, CallState, Stage, history, progress,
       job, world
  <2>2. CASE CallErase(j)
    BY <2>2 DEF CallErase, TypeOK, JobsKnown, CallState, history, progress, job, world
  <2>3. CASE CallRequeue(j)
    <3>1. jframe[j] \in FrameJobs
      BY <2>3 DEF CallRequeue, JobsKnown
    <3>2. Append(queue, jframe[j]) \in Seq(FrameJobs)
      BY <3>1 DEF TypeOK
    <3> QED
      BY <2>3, <3>2 DEF CallRequeue, TypeOK, JobsKnown, CallState, history, progress,
         job, world
  <2>4. CASE CallOffline(j)
    BY <2>4 DEF CallOffline, TypeOK, JobsKnown, CallState, WorkerStatus, history,
       progress, job, world
  <2> QED
    BY <1>3, <2>1, <2>2, <2>3, <2>4 DEF CallStep
<1>4. ASSUME NEW j \in Jobs, WorkerStep(j) PROVE TypeInv'
  <2>1. CASE WorkerReceive(j)
    BY <2>1 DEF WorkerReceive, TypeOK, JobsKnown, Stage, history, progress, job, world
  <2>2. CASE WorkerRender(j)
    BY <2>2, FaultsAssumption DEF WorkerRender, Fault, TypeOK, JobsKnown, Stage,
       CallbackStage, history, progress, job
  <2>3. CASE WorkerReply(j)
    BY <2>3 DEF WorkerReply, TypeOK, JobsKnown, Stage, CallState, history, progress,
       job, world
  <2> QED
    BY <1>4, <2>1, <2>2, <2>3 DEF WorkerStep
<1>5. ASSUME NEW j \in Jobs, CallbackStep(j) PROVE TypeInv'
  <2>0. stage[j] \in CallbackStage => RenderOf(j) \in Renders /\ FrameOf(j) \in Nat
                                      /\ jworker[j] \in Workers
    BY FrameJobParts DEF JobsKnown, RenderOf, FrameOf, CallbackStage
  <2>1. CASE CallbackLookup(j)
    BY <2>1 DEF CallbackLookup, TypeOK, JobsKnown, Stage, CallbackStage, history,
       progress, job, world
  <2>2. CASE CallbackLand(j)
    <3>1. RenderOf(j) \in Renders /\ FrameOf(j) \in Nat
      BY <2>0, <2>2 DEF CallbackLand, CallbackStage
    <3>2. CASE RenderOf(j) \notin tracked
      BY <2>2, <3>2 DEF CallbackLand, TypeOK, JobsKnown, Stage, CallbackStage,
         history, progress, job, world
    <3>3. CASE RenderOf(j) \in tracked
      <4> DEFINE r == RenderOf(j)
                 i == FrameOf(j)
                 fresh == i \notin landed[r]
                 now == IF fresh THEN landed[r] \cup {i} ELSE landed[r]
                 n == IF fresh THEN count[r] + 1 ELSE count[r]
                 all == n >= NumFrames[r]
      <4>1. now \in SUBSET Nat /\ n \in Nat /\ all \in BOOLEAN
        BY <3>1 DEF TypeOK
      <4>2. /\ snap' = [snap EXCEPT ![j] = [n |-> n, all |-> all,
                                            links |-> IF all THEN now ELSE {}]]
            /\ tracked' = IF all THEN tracked \ {r} ELSE tracked
            /\ landed' = [landed EXCEPT ![r] = IF all THEN {} ELSE now]
            /\ count' = [count EXCEPT ![r] = IF all THEN 0 ELSE n]
            /\ stage' = [stage EXCEPT ![j] = "showing"]
        BY <2>2, <3>3 DEF CallbackLand
      <4> HIDE DEF now, n, all, fresh
      <4>3. /\ snap' \in [Jobs -> [n : Nat, all : BOOLEAN, links : SUBSET Nat]]
            /\ tracked' \subseteq Renders
            /\ landed' \in [Renders -> SUBSET Nat]
            /\ count' \in [Renders -> Nat]
        BY <4>1, <4>2, <3>1 DEF TypeOK
      <4>4. UNCHANGED <<history, queue, jobMap, wstatus, job, call, ok, world>>
            /\ stage[j] = "landing"
        BY <2>2 DEF CallbackLand
      <4> QED
        BY <4>2, <4>3, <4>4 DEF TypeOK, JobsKnown, Stage, CallbackStage, history,
           job, world
    <3> QED
      BY <3>2, <3>3
  <2>3. CASE CallbackShow(j)
    BY <2>0, <2>3 DEF CallbackShow, TypeOK, JobsKnown, Stage, CallbackStage, progress,
       job, world
  <2>4. CASE CallbackLink(j)
    BY <2>0, <2>4 DEF CallbackLink, TypeOK, JobsKnown, Stage, CallbackStage, progress,
       job, world
  <2>5. CASE CallbackComplete(j)
    BY <2>0, <2>5 DEF CallbackComplete, TypeOK, JobsKnown, Stage, CallbackStage,
       RenderStatus, progress, job, world
  <2>6. CASE CallbackIdle(j)
    BY <2>0, <2>6 DEF CallbackIdle, TypeOK, JobsKnown, Stage, CallbackStage,
       WorkerStatus, history, progress, job, world
  <2> QED
    BY <1>5, <2>1, <2>2, <2>3, <2>4, <2>5, <2>6 DEF CallbackStep
<1>6. ASSUME NEW j \in Jobs, FaultStep(j) PROVE TypeInv'
  <2>1. CASE CallSevered(j)
    BY <2>1, FaultsAssumption DEF CallSevered, Fault, TypeOK, JobsKnown, CallState,
       history, progress, job
  <2>2. CASE WorkerFail(j)
    BY <2>2, FaultsAssumption DEF WorkerFail, Fault, TypeOK, JobsKnown, Stage,
       CallbackStage, history, progress, job
  <2>3. CASE WorkerNotifyLost(j)
    BY <2>3, FaultsAssumption DEF WorkerNotifyLost, Fault, TypeOK, JobsKnown, Stage,
       CallbackStage, history, progress, job
  <2> QED
    BY <1>6, <2>1, <2>2, <2>3 DEF FaultStep
<1>7. ASSUME NEW w \in Workers, ProcessStep(w) PROVE TypeInv'
  <2>1. CASE Establish(w)
    BY <2>1 DEF Establish, TypeOK, JobsKnown, WorkerStatus, ProcState, history,
       progress, job
  <2>2. CASE StartServing(w)
    BY <2>2 DEF StartServing, TypeOK, JobsKnown, ProcState, history,
       progress, job
  <2>3. CASE Disconnect(w)
    BY <2>3, FaultsAssumption DEF Disconnect, Fault, TypeOK, JobsKnown, WorkerStatus, ProcState, history,
       progress, job
  <2>4. CASE ShutdownServer(w)
    BY <2>4 DEF ShutdownServer, TypeOK, JobsKnown, ProcState, history,
       progress, job
  <2>5. CASE Exit(w)
    BY <2>5 DEF Exit, TypeOK, JobsKnown, ProcState, history,
       progress, job
  <2>6. CASE Crash(w)
    BY <2>6, FaultsAssumption DEF Crash, Fault, TypeOK, JobsKnown, CallState, Stage, CallbackStage, ProcState, history,
       progress, job
  <2> QED
    BY <1>7, <2>1, <2>2, <2>3, <2>4, <2>5, <2>6 DEF ProcessStep
<1>8. CASE UNCHANGED vars
  BY <1>8 DEF vars, history, progress, job, world, TypeOK, JobsKnown
<1> QED
  BY <1>1, <1>2, <1>3, <1>4, <1>5, <1>6, <1>7, <1>8 DEF Next

(* Every reachable state is well typed, and every dispatched job has a     *)
(* frame of its render and a worker: what the queue and the dispatch       *)
(* threads hand to a worker is a frame the render really has.              *)
THEOREM TypeCorrect == Spec => []TypeOK
<1>1. Init => TypeInv
  BY TypeInit
<1>2. TypeInv /\ [Next]_vars => TypeInv'
  BY TypeNext
<1>3. TypeInv => TypeOK
  BY DEF TypeInv
<1> QED
  BY <1>1, <1>2, <1>3, PTL DEF Spec

-----------------------------------------------------------------------------
(* The queue as a set of frames: what a pop, a push back and a submission  *)
(* change.                                                                 *)
LEMMA QueuedAfterPop ==
    ASSUME TypeOK, queue # << >>, queue' = Tail(queue), NEW f
    PROVE  /\ Queued(f) => f = Head(queue) \/ Queued(f)'
           /\ Queued(f)' => Queued(f)
<1>1. queue \in Seq(FrameJobs)
  BY DEF TypeOK
<1>2. /\ DOMAIN queue = 1 .. Len(queue)
      /\ DOMAIN queue' = 1 .. Len(queue) - 1
      /\ Len(queue) \in Nat
      /\ \A k \in 1 .. Len(queue) - 1 : queue'[k] = queue[k + 1]
      /\ Head(queue) = queue[1]
  BY <1>1
<1>3. ASSUME NEW k \in DOMAIN queue, queue[k] = f
      PROVE  f = Head(queue) \/ Queued(f)'
  <2>1. CASE k = 1
    BY <1>2, <1>3, <2>1
  <2>2. CASE k # 1
    <3>1. k - 1 \in DOMAIN queue' /\ queue'[k - 1] = f
      BY <1>2, <1>3, <2>2
    <3> QED
      BY <3>1 DEF Queued
  <2> QED
    BY <2>1, <2>2
<1>4. ASSUME NEW k \in DOMAIN queue', queue'[k] = f
      PROVE  Queued(f)
  <2>1. k + 1 \in DOMAIN queue /\ queue[k + 1] = f
    BY <1>2, <1>4
  <2> QED
    BY <2>1 DEF Queued
<1> QED
  BY <1>3, <1>4 DEF Queued

LEMMA QueuedAfterPush ==
    ASSUME TypeOK, NEW e \in FrameJobs, queue' = Append(queue, e), NEW f
    PROVE  Queued(f)' <=> Queued(f) \/ f = e
<1>1. queue \in Seq(FrameJobs)
  BY DEF TypeOK
<1>2. /\ DOMAIN queue = 1 .. Len(queue)
      /\ DOMAIN queue' = 1 .. Len(queue) + 1
      /\ Len(queue) \in Nat
      /\ \A k \in 1 .. Len(queue) : queue'[k] = queue[k]
      /\ queue'[Len(queue) + 1] = e
  BY <1>1
<1>3. ASSUME NEW k \in DOMAIN queue', queue'[k] = f
      PROVE  Queued(f) \/ f = e
  <2>1. k \in 1 .. Len(queue) \/ k = Len(queue) + 1
    BY <1>2
  <2> QED
    BY <1>2, <1>3, <2>1 DEF Queued
<1>4. ASSUME Queued(f) \/ f = e
      PROVE  Queued(f)'
  <2>1. CASE f = e
    <3>1. Len(queue) + 1 \in DOMAIN queue'
      BY <1>2
    <3> QED
      BY <1>2, <2>1, <3>1 DEF Queued
  <2>2. CASE Queued(f)
    <3>1. PICK k \in DOMAIN queue : queue[k] = f
      BY <2>2 DEF Queued
    <3>2. k \in DOMAIN queue' /\ queue'[k] = f
      BY <1>2, <3>1
    <3> QED
      BY <3>2 DEF Queued
  <2> QED
    BY <1>4, <2>1, <2>2
<1> QED
  BY <1>3, <1>4 DEF Queued

LEMMA QueuedAfterSubmit ==
    ASSUME TypeOK, NEW r \in Renders,
           queue' = queue \o [k \in 1 .. NumFrames[r] |-> <<r, k - 1>>], NEW f
    PROVE  Queued(f)' <=> Queued(f) \/ \E i \in Frames(r) : f = <<r, i>>
<1> DEFINE frames == [k \in 1 .. NumFrames[r] |-> <<r, k - 1>>]
<1>1. queue \in Seq(FrameJobs) /\ frames \in Seq(FrameJobs)
  BY SubmittedFrames DEF TypeOK
<1>2. /\ NumFrames[r] \in Nat /\ Len(frames) = NumFrames[r]
      /\ \A k \in 1 .. NumFrames[r] : frames[k] = <<r, k - 1>>
  BY <1>1, FramesAssumption, LenProperties
<1>3. queue' = queue \o frames
  OBVIOUS
<1> HIDE DEF frames
<1>4. /\ DOMAIN queue = 1 .. Len(queue)
      /\ Len(queue) \in Nat
      /\ DOMAIN queue' = 1 .. Len(queue) + NumFrames[r]
      /\ \A k \in 1 .. Len(queue) + NumFrames[r] :
            queue'[k] = IF k <= Len(queue) THEN queue[k] ELSE frames[k - Len(queue)]
  <2>1. DOMAIN queue = 1 .. Len(queue) /\ Len(queue) \in Nat
    BY <1>1, LenProperties
  <2>2. /\ queue \o frames \in Seq(FrameJobs)
        /\ Len(queue \o frames) = Len(queue) + NumFrames[r]
        /\ \A k \in 1 .. Len(queue) + NumFrames[r] :
              (queue \o frames)[k] =
                  IF k <= Len(queue) THEN queue[k] ELSE frames[k - Len(queue)]
    <3>1. /\ queue \o frames \in Seq(FrameJobs)
          /\ Len(queue \o frames) = Len(queue) + Len(frames)
          /\ \A k \in 1 .. Len(queue) + Len(frames) :
                (queue \o frames)[k] =
                    IF k <= Len(queue) THEN queue[k] ELSE frames[k - Len(queue)]
      BY <1>1, ConcatProperties, Zenon
    <3>2. Len(frames) = NumFrames[r]
      BY <1>2
    <3> QED
      BY <3>1, <3>2, Zenon
  <2>3. DOMAIN queue' = 1 .. Len(queue) + NumFrames[r]
    BY <1>3, <2>2, LenProperties, Zenon
  <2> QED
    BY <1>3, <2>1, <2>2, <2>3, Zenon
<1>5. ASSUME NEW k \in DOMAIN queue', queue'[k] = f
      PROVE  Queued(f) \/ \E i \in Frames(r) : f = <<r, i>>
  <2>1. CASE k <= Len(queue)
    BY <1>4, <1>5, <2>1 DEF Queued
  <2>2. CASE ~(k <= Len(queue))
    <3>1. k - Len(queue) \in 1 .. NumFrames[r]
      BY <1>2, <1>4, <2>2
    <3>2. f = <<r, k - Len(queue) - 1>>
      BY <1>2, <1>4, <1>5, <2>2, <3>1
    <3>3. k - Len(queue) - 1 \in Frames(r)
      BY <1>2, <1>4, <3>1 DEF Frames
    <3> QED
      BY <3>2, <3>3
  <2> QED
    BY <2>1, <2>2
<1>6. ASSUME Queued(f)
      PROVE  Queued(f)'
  <2>1. PICK k \in DOMAIN queue : queue[k] = f
    BY <1>6 DEF Queued
  <2>2. k \in DOMAIN queue' /\ queue'[k] = f
    BY <1>2, <1>4, <2>1
  <2> QED
    BY <2>2 DEF Queued
<1>7. ASSUME NEW i \in Frames(r), f = <<r, i>>
      PROVE  Queued(f)'
  <2> DEFINE k == Len(queue) + i + 1
  <2>1. i \in Nat /\ i + 1 \in 1 .. NumFrames[r]
    BY <1>2 DEF Frames
  <2>2. k \in DOMAIN queue' /\ ~(k <= Len(queue)) /\ k - Len(queue) = i + 1
    BY <1>2, <1>4, <2>1
  <2>3. queue'[k] = frames[i + 1]
    BY <1>4, <2>2
  <2>4. queue'[k] = f
    BY <1>2, <1>7, <2>1, <2>3
  <2> QED
    BY <2>2, <2>4 DEF Queued
<1> QED
  BY <1>5, <1>6, <1>7 DEF Queued

-----------------------------------------------------------------------------
(* No frame is lost.                                                       *)

(* A step that leaves the progress entries and the frames of the jobs      *)
(* alone loses no frame if every job keeps its hold on its frame or gives  *)
(* the frame back to the queue.                                            *)
LEMMA HoldingLosesNothing ==
    ASSUME NoLostFrame, UNCHANGED <<tracked, landed, jframe>>,
           \A f : Queued(f) => Queued(f)',
           \A k \in Jobs : Held(k) => Held(k)' \/ Queued(jframe[k])'
    PROVE  NoLostFrame'
<1> SUFFICES ASSUME NEW r \in tracked, NEW i \in Frames(r) \ landed[r]
             PROVE  Queued(<<r, i>>)' \/ \E j \in Jobs : jframe[j] = <<r, i>> /\ Held(j)'
  BY DEF NoLostFrame
<1>1. CASE Queued(<<r, i>>)
  BY <1>1
<1>2. CASE \E j \in Jobs : jframe[j] = <<r, i>> /\ Held(j)
  <2>1. PICK j \in Jobs : jframe[j] = <<r, i>> /\ Held(j)
    BY <1>2
  <2>2. Held(j)' \/ Queued(jframe[j])'
    BY <2>1
  <2> QED
    BY <2>1, <2>2
<1> QED
  BY <1>1, <1>2 DEF NoLostFrame

LEMMA SubmitLosesNothing ==
    ASSUME TypeInv, NoLostFrame, NEW s \in Renders, Submit(s)
    PROVE  NoLostFrame'
<1>0. UNCHANGED <<jframe, jobMap, call, stage, ok>>
  BY DEF Submit, job
<1>1. \A k \in Jobs : Held(k)' <=> Held(k)
  BY <1>0 DEF Held, Carried, Forgotten, CallbackLost
<1>2. CASE NumFrames[s] <= 0
  <2>1. UNCHANGED <<tracked, landed, queue>>
    BY <1>2 DEF Submit, AddJob, progress
  <2> QED
    BY <1>0, <1>1, <2>1, HoldingLosesNothing DEF Queued
<1>3. CASE ~(NumFrames[s] <= 0)
  <2>1. /\ tracked' = tracked \cup {s}
        /\ landed' = [landed EXCEPT ![s] = {}]
        /\ queue' = queue \o [k \in 1 .. NumFrames[s] |-> <<s, k - 1>>]
    BY <1>3 DEF Submit, AddJob
  <2>2. \A f : Queued(f)' <=> Queued(f) \/ \E i \in Frames(s) : f = <<s, i>>
    BY <2>1, QueuedAfterSubmit DEF TypeInv
  <2> SUFFICES ASSUME NEW r \in tracked', NEW i \in Frames(r) \ landed'[r]
               PROVE  \/ Queued(<<r, i>>)'
                      \/ \E j \in Jobs : jframe'[j] = <<r, i>> /\ Held(j)'
    BY DEF NoLostFrame
  <2>3. CASE r = s
    BY <2>2, <2>3
  <2>4. CASE r # s
    <3>1. r \in tracked /\ i \in Frames(r) \ landed[r]
      BY <2>1, <2>4 DEF TypeInv, TypeOK
    <3> QED
      BY <1>0, <1>1, <2>2, <3>1 DEF NoLostFrame
  <2> QED
    BY <2>3, <2>4
<1> QED
  BY <1>2, <1>3

LEMMA AssignLosesNothing ==
    ASSUME TypeInv, NoLostFrame, NEW w \in Workers, AssignFrame(w)
    PROVE  NoLostFrame'
<1>0. PICK j \in Jobs : j = FreshJob /\ call[j] = "none"
  BY FreshJobIsFresh DEF AssignFrame
<1> DEFINE f == Head(queue)
<1>1. j \in Jobs /\ call[j] = "none" /\ stage[j] = "none"
  BY <1>0 DEF TypeInv, JobsKnown
<1>2. /\ queue # << >> /\ queue' = Tail(queue)
      /\ jobMap' = jobMap \cup {j}
      /\ jframe' = [jframe EXCEPT ![j] = f]
      /\ call' = [call EXCEPT ![j] = "inflight"]
      /\ stage' = [stage EXCEPT ![j] = "sent"]
      /\ UNCHANGED <<tracked, landed, ok>>
  BY <1>0 DEF AssignFrame, progress
<1> HIDE DEF f
<1>3. ~Held(j)
  BY <1>1 DEF Held, Carried, Forgotten, CallbackLost
<1>4. jframe'[j] = f /\ Held(j)'
  BY <1>1, <1>2 DEF TypeInv, TypeOK, Held, Carried
<1>5. ASSUME NEW k \in Jobs, k # j PROVE jframe'[k] = jframe[k] /\ (Held(k) => Held(k)')
  BY <1>1, <1>2, <1>5 DEF TypeInv, TypeOK, Held, Carried, Forgotten, CallbackLost
<1> SUFFICES ASSUME NEW r \in tracked, NEW i \in Frames(r) \ landed[r]
             PROVE  \/ Queued(<<r, i>>)'
                    \/ \E k \in Jobs : jframe'[k] = <<r, i>> /\ Held(k)'
  BY <1>2 DEF NoLostFrame
<1>6. CASE Queued(<<r, i>>)
  <2>1. <<r, i>> = f \/ Queued(<<r, i>>)'
    BY <1>2, <1>6, QueuedAfterPop DEF TypeInv, f
  <2> QED
    BY <1>1, <1>4, <2>1
<1>7. CASE \E k \in Jobs : jframe[k] = <<r, i>> /\ Held(k)
  BY <1>3, <1>5, <1>7
<1> QED
  BY <1>6, <1>7 DEF NoLostFrame

LEMMA LandLosesNothing ==
    ASSUME TypeInv, NoLostFrame, NEW j \in Jobs, CallbackLand(j)
    PROVE  NoLostFrame'
<1>1. /\ stage[j] = "landing"
      /\ UNCHANGED <<queue, jobMap, jframe, call, ok>>
      /\ stage' \in {[stage EXCEPT ![j] = "idling"], [stage EXCEPT ![j] = "showing"]}
  BY DEF CallbackLand, job
<1>2. jframe[j] = <<RenderOf(j), FrameOf(j)>> /\ RenderOf(j) \in Renders
  BY <1>1, FrameJobParts DEF TypeInv, JobsKnown, RenderOf, FrameOf
<1>3. ASSUME NEW k \in Jobs, k # j, Held(k) PROVE Held(k)'
  BY <1>1, <1>3 DEF TypeInv, TypeOK, Held, Carried, Forgotten, CallbackLost
<1>4. /\ tracked' \subseteq tracked
      /\ \A r \in tracked' : landed[r] \subseteq landed'[r]
      /\ RenderOf(j) \in tracked' => FrameOf(j) \in landed'[RenderOf(j)]
  <2>1. CASE RenderOf(j) \notin tracked
    BY <2>1 DEF CallbackLand, progress
  <2>2. CASE RenderOf(j) \in tracked
    <3> DEFINE r == RenderOf(j)
               i == FrameOf(j)
               now == IF i \notin landed[r] THEN landed[r] \cup {i} ELSE landed[r]
               n == IF i \notin landed[r] THEN count[r] + 1 ELSE count[r]
               all == n >= NumFrames[r]
    <3>1. /\ tracked' = IF all THEN tracked \ {r} ELSE tracked
          /\ landed' = [landed EXCEPT ![r] = IF all THEN {} ELSE now]
      BY <2>2 DEF CallbackLand
    <3>2. i \in now /\ landed[r] \subseteq now
      OBVIOUS
    <3> HIDE DEF all, now, n
    <3>3. CASE all
      BY <1>2, <3>1, <3>3 DEF TypeInv, TypeOK
    <3>4. CASE ~all
      BY <1>2, <3>1, <3>2, <3>4 DEF TypeInv, TypeOK
    <3> QED
      BY <3>3, <3>4
  <2> QED
    BY <2>1, <2>2
<1> SUFFICES ASSUME NEW r \in tracked', NEW i \in Frames(r) \ landed'[r]
             PROVE  \/ Queued(<<r, i>>)'
                    \/ \E k \in Jobs : jframe'[k] = <<r, i>> /\ Held(k)'
  BY DEF NoLostFrame
<1>5. CASE Queued(<<r, i>>)
  BY <1>1, <1>5 DEF Queued
<1>6. CASE \E k \in Jobs : jframe[k] = <<r, i>> /\ Held(k)
  <2>1. PICK k \in Jobs : jframe[k] = <<r, i>> /\ Held(k)
    BY <1>6
  <2>2. k # j
    BY <1>2, <1>4, <2>1
  <2> QED
    BY <1>1, <1>3, <2>1, <2>2
<1> QED
  BY <1>4, <1>5, <1>6 DEF NoLostFrame

LEMMA NoLostFrameNext == TypeInv /\ NoLostFrame /\ [Next]_vars => NoLostFrame'
<1> SUFFICES ASSUME TypeInv, NoLostFrame, [Next]_vars PROVE NoLostFrame'
  OBVIOUS
<1> USE DEF Held, Carried, Forgotten, CallbackLost
<1>0. TypeOK
  BY DEF TypeInv
<1>1. ASSUME NEW r \in Renders, Submit(r) PROVE NoLostFrame'
  BY <1>1, SubmitLosesNothing
<1>2. ASSUME NEW w \in Workers, AssignFrame(w) PROVE NoLostFrame'
  BY <1>2, AssignLosesNothing
<1>3. ASSUME NEW j \in Jobs, CallStep(j) PROVE NoLostFrame'
  <2>1. UNCHANGED <<tracked, landed, jframe>>
    BY <1>3 DEF CallStep, CallRefused, CallErase, CallRequeue, CallOffline, progress,
       job
  <2>2. \A f : Queued(f) => Queued(f)'
    <3>1. CASE CallRequeue(j)
      <4>1. jframe[j] \in FrameJobs /\ queue' = Append(queue, jframe[j])
        BY <3>1 DEF CallRequeue, TypeInv, JobsKnown
      <4> QED
        BY <1>0, <4>1, QueuedAfterPush
    <3>2. CASE ~CallRequeue(j)
      BY <1>3, <3>2 DEF CallStep, CallRefused, CallErase, CallOffline, Queued
    <3> QED
      BY <3>1, <3>2
  <2>3. ASSUME NEW k \in Jobs, Held(k) PROVE Held(k)' \/ Queued(jframe[k])'
    <3>1. CASE CallRequeue(j)
      <4>1. jframe[j] \in FrameJobs /\ queue' = Append(queue, jframe[j])
        BY <3>1 DEF CallRequeue, TypeInv, JobsKnown
      <4>2. Queued(jframe[j])'
        BY <1>0, <2>1, <4>1, QueuedAfterPush
      <4>3. k # j => Held(k)'
        BY <1>0, <2>3, <3>1 DEF CallRequeue, TypeOK
      <4> QED
        BY <4>2, <4>3
    <3>2. CASE CallRefused(j)
      BY <1>0, <2>3, <3>2 DEF CallRefused, TypeOK
    <3>3. CASE CallErase(j)
      BY <1>0, <2>3, <3>3 DEF CallErase, TypeOK
    <3>4. CASE CallOffline(j)
      BY <1>0, <2>3, <3>4 DEF CallOffline, TypeOK
    <3> QED
      BY <1>3, <3>1, <3>2, <3>3, <3>4 DEF CallStep
  <2> QED
    BY <2>1, <2>2, <2>3, HoldingLosesNothing
<1>4. ASSUME NEW j \in Jobs, WorkerStep(j) PROVE NoLostFrame'
  <2>1. UNCHANGED <<tracked, landed, jframe, queue>>
    BY <1>4 DEF WorkerStep, WorkerReceive, WorkerRender, WorkerReply, progress, job
  <2>2. ASSUME NEW k \in Jobs, Held(k) PROVE Held(k)'
    <3>1. CASE WorkerReceive(j)
      BY <1>0, <2>2, <3>1 DEF WorkerReceive, TypeOK
    <3>2. CASE WorkerRender(j)
      BY <1>0, <2>2, <3>2 DEF WorkerRender, TypeOK
    <3>3. CASE WorkerReply(j)
      BY <1>0, <2>2, <3>3 DEF WorkerReply, TypeOK
    <3> QED
      BY <1>4, <3>1, <3>2, <3>3 DEF WorkerStep
  <2> QED
    BY <2>1, <2>2, HoldingLosesNothing DEF Queued
<1>5. ASSUME NEW j \in Jobs, CallbackStep(j) PROVE NoLostFrame'
  <2>1. CASE CallbackLand(j)
    BY <2>1, LandLosesNothing
  <2>2. CASE ~CallbackLand(j)
    <3>1. UNCHANGED <<tracked, landed, jframe, queue>>
      BY <1>5, <2>2 DEF CallbackStep, CallbackLookup, CallbackShow, CallbackLink,
         CallbackComplete, CallbackIdle, progress, job
    <3>2. ASSUME NEW k \in Jobs, Held(k) PROVE Held(k)'
      <4>1. CASE CallbackLookup(j)
        BY <1>0, <3>2, <4>1 DEF CallbackLookup, TypeOK
      <4>2. CASE CallbackShow(j)
        BY <1>0, <3>2, <4>2 DEF CallbackShow, TypeOK
      <4>3. CASE CallbackLink(j)
        BY <1>0, <3>2, <4>3 DEF CallbackLink, TypeOK
      <4>4. CASE CallbackComplete(j)
        BY <1>0, <3>2, <4>4 DEF CallbackComplete, TypeOK
      <4>5. CASE CallbackIdle(j)
        BY <1>0, <3>2, <4>5 DEF CallbackIdle, TypeOK
      <4> QED
        BY <1>5, <2>2, <4>1, <4>2, <4>3, <4>4, <4>5 DEF CallbackStep
    <3> QED
      BY <3>1, <3>2, HoldingLosesNothing DEF Queued
  <2> QED
    BY <2>1, <2>2
<1>6. ASSUME NEW j \in Jobs, FaultStep(j) PROVE NoLostFrame'
  <2>1. UNCHANGED <<tracked, landed, jframe, queue>>
    BY <1>6 DEF FaultStep, CallSevered, WorkerFail, WorkerNotifyLost, progress, job
  <2>2. ASSUME NEW k \in Jobs, Held(k) PROVE Held(k)'
    <3>1. CASE CallSevered(j)
      BY <1>0, <2>2, <3>1 DEF CallSevered, TypeOK
    <3>2. CASE WorkerFail(j)
      BY <1>0, <2>2, <3>2 DEF WorkerFail, TypeOK
    <3>3. CASE WorkerNotifyLost(j)
      BY <1>0, <2>2, <3>3 DEF WorkerNotifyLost, Fault, TypeOK
    <3> QED
      BY <1>6, <3>1, <3>2, <3>3 DEF FaultStep
  <2> QED
    BY <2>1, <2>2, HoldingLosesNothing DEF Queued
<1>7. ASSUME NEW w \in Workers, ProcessStep(w) PROVE NoLostFrame'
  <2>1. UNCHANGED <<tracked, landed, jframe, queue>>
    BY <1>7 DEF ProcessStep, Establish, StartServing, Disconnect, ShutdownServer, Exit,
       Crash, progress, history, job
  <2>2. ASSUME NEW k \in Jobs, Held(k) PROVE Held(k)'
    <3>1. CASE Crash(w)
      BY <1>0, <2>2, <3>1 DEF Crash, TypeOK, CallbackStage
    <3>2. CASE ~Crash(w)
      <4>1. UNCHANGED <<jobMap, call, stage, ok>>
        BY <1>7, <3>2 DEF ProcessStep, Establish, StartServing, Disconnect,
           ShutdownServer, Exit
      <4> QED
        BY <2>2, <4>1
    <3> QED
      BY <3>1, <3>2
  <2> QED
    BY <2>1, <2>2, HoldingLosesNothing DEF Queued
<1>8. CASE UNCHANGED vars
  BY <1>8, HoldingLosesNothing DEF vars, progress, job, Queued
<1> QED
  BY <1>1, <1>2, <1>3, <1>4, <1>5, <1>6, <1>7, <1>8 DEF Next

(* No frame is lost: whatever is refused, severed, crashes, restarts or    *)
(* answers late, a frame its render still waits for is in the queue or     *)
(* held by a job, and only a lost JobCompleted makes the hold a dead one.  *)
THEOREM FramesAreNeverLost == Spec => []NoLostFrame
<1>1. Init => TypeInv /\ NoLostFrame
  BY TypeInit DEF Init, NoLostFrame
<1>2. TypeInv /\ NoLostFrame /\ [Next]_vars => (TypeInv /\ NoLostFrame)'
  BY TypeNext, NoLostFrameNext
<1> QED
  BY <1>1, <1>2, PTL DEF Spec

=============================================================================
