------------------------- MODULE FrameLedgerProofs -------------------------
(***************************************************************************)
(* FrameDispatch implements FrameLedger: the progress entries, counted by  *)
(* an integer and finalised by whichever callback comes last, deliver each *)
(* frame of a render once and close it with the last one.                  *)
(* What a client then reads of a COMPLETED render: the links are stored    *)
(* before the status is, by the one callback that finalises the render,    *)
(* while other callbacks and the scheduling loop write the same history.   *)
(* And who has what: a frame is in one place of the queue or with one      *)
(* dispatch thread, a callback that is waited for finds its entry, a BUSY  *)
(* worker has a job that will free it, and a worker of a quiet system      *)
(* renders one frame at a time.                                            *)
(***************************************************************************)
EXTENDS FrameDispatchProofs

(* What the books say of a render that is not in them: nothing has landed, *)
(* and before it is submitted no frame of it is anywhere.                  *)
UntrackedIsEmpty == \A r \in Renders : r \notin tracked => landed[r] = {}

KnownFramesAreSubmitted ==
    /\ \A r \in tracked : status[r] # "NONE" /\ NumFrames[r] # 0
    /\ \A f \in FrameJobs : Queued(f) => status[f[1]] # "NONE" /\ NumFrames[f[1]] # 0
    /\ \A j \in Jobs : call[j] # "none" =>
            status[RenderOf(j)] # "NONE" /\ NumFrames[RenderOf(j)] # 0

(* A finished entry is gone and its callback is known; an entry is only    *)
(* gone when a callback took its links along.                              *)
FinalsHaveNoEntry ==
    \A j \in Jobs : snap[j].all => call[j] # "none" /\ RenderOf(j) \notin tracked

ClosedHasFinal ==
    \A r \in Renders :
        status[r] # "NONE" /\ NumFrames[r] # 0 /\ r \notin tracked => Finals(r) # {}

BookInv ==
    /\ CountMatchesLinks /\ UntrackedIsEmpty /\ KnownFramesAreSubmitted
    /\ FinalsHaveNoEntry /\ ClosedHasFinal /\ FinalisedOnce

-----------------------------------------------------------------------------
LEMMA FramesAreFinite ==
    ASSUME NEW r \in Renders
    PROVE  IsFiniteSet(Frames(r)) /\ Cardinality(Frames(r)) = NumFrames[r]
<1>1. NumFrames[r] \in Nat
  BY FramesAssumption
<1> DEFINE m == NumFrames[r] - 1
<1>2. m \in Int /\ 0 \in Int
  BY <1>1
<1> HIDE DEF m
<1>3. /\ IsFiniteSet(0 .. m)
      /\ Cardinality(0 .. m) = IF 0 > m THEN 0 ELSE m - 0 + 1
  BY <1>2, FS_Interval
<1> QED
  BY <1>1, <1>3 DEF Frames, m

(* The counter reaches the number of frames with the last frame, no sooner *)
(* and no later.                                                           *)
LEMMA LastFrameFillsTheBook ==
    ASSUME NEW r \in Renders, NEW L \in SUBSET Frames(r), NEW i \in Frames(r),
           i \notin L, Cardinality(L) < NumFrames[r]
    PROVE  /\ Cardinality(L \cup {i}) = Cardinality(L) + 1
           /\ Cardinality(L) \in Nat
           /\ Cardinality(L) + 1 >= NumFrames[r] <=> L \cup {i} = Frames(r)
<1>1. /\ IsFiniteSet(Frames(r)) /\ Cardinality(Frames(r)) = NumFrames[r]
      /\ NumFrames[r] \in Nat
  BY FramesAreFinite, FramesAssumption
<1>2. IsFiniteSet(L)
  BY <1>1, FS_Subset
<1>3. Cardinality(L) \in Nat /\ Cardinality(L \cup {i}) = Cardinality(L) + 1
  BY <1>2, FS_CardinalityType, FS_AddElement
<1>4. L \cup {i} \in SUBSET Frames(r)
  OBVIOUS
<1>5. Cardinality(L \cup {i}) = NumFrames[r] => Frames(r) = L \cup {i}
  BY <1>1, <1>4, FS_Subset
<1> QED
  BY <1>1, <1>3, <1>5

(* The three things a callback can do to the entry of its render: land a   *)
(* frame again, land one of several frames, land the last frame.           *)
LEMMA LandingCases ==
    ASSUME TypeInv, CountMatchesLinks, NEW j \in Jobs, CallbackLand(j),
           RenderOf(j) \in tracked
    PROVE  LET r == RenderOf(j)
               i == FrameOf(j)
           IN  /\ r \in Renders /\ i \in Frames(r) /\ call[j] # "none"
               /\ \A k \in Jobs : k # j => snap'[k] = snap[k]
               /\ stage' = [stage EXCEPT ![j] = "showing"]
               /\ \/ /\ i \in landed[r]
                     /\ UNCHANGED <<tracked, landed, count>>
                     /\ snap'[j].all = FALSE
                  \/ /\ i \notin landed[r] /\ landed[r] \cup {i} # Frames(r)
                     /\ UNCHANGED tracked
                     /\ landed' = [landed EXCEPT ![r] = landed[r] \cup {i}]
                     /\ count' = [count EXCEPT ![r] = count[r] + 1]
                     /\ count[r] + 1 = Cardinality(landed[r] \cup {i})
                     /\ count[r] + 1 < NumFrames[r]
                     /\ snap'[j].all = FALSE
                  \/ /\ i \notin landed[r] /\ landed[r] \cup {i} = Frames(r)
                     /\ tracked' = tracked \ {r}
                     /\ landed' = [landed EXCEPT ![r] = {}]
                     /\ count' = [count EXCEPT ![r] = 0]
                     /\ snap'[j].all = TRUE /\ snap'[j].links = Frames(r)
<1> DEFINE r == RenderOf(j)
           i == FrameOf(j)
           now == IF i \notin landed[r] THEN landed[r] \cup {i} ELSE landed[r]
           n == IF i \notin landed[r] THEN count[r] + 1 ELSE count[r]
           all == n >= NumFrames[r]
<1>1. /\ snap' = [snap EXCEPT ![j] = [n |-> n, all |-> all,
                                      links |-> IF all THEN now ELSE {}]]
      /\ tracked' = IF all THEN tracked \ {r} ELSE tracked
      /\ landed' = [landed EXCEPT ![r] = IF all THEN {} ELSE now]
      /\ count' = [count EXCEPT ![r] = IF all THEN 0 ELSE n]
      /\ stage[j] = "landing" /\ stage' = [stage EXCEPT ![j] = "showing"]
  BY DEF CallbackLand
<1>2. /\ r \in Renders /\ i \in Frames(r) /\ call[j] # "none"
  <2>1. call[j] # "none"
    BY <1>1 DEF TypeInv, JobsKnown
  <2>2. jframe[j] \in FrameJobs
    BY <2>1 DEF TypeInv, JobsKnown
  <2> QED
    BY <2>1, <2>2, FrameJobParts DEF RenderOf, FrameOf
<1>3. /\ landed[r] \in SUBSET Frames(r)
      /\ count[r] = Cardinality(landed[r]) /\ count[r] < NumFrames[r]
      /\ count[r] \in Nat /\ NumFrames[r] \in Nat
  BY <1>2, FramesAssumption DEF CountMatchesLinks, TypeInv, TypeOK
<1>4. /\ landed = [landed EXCEPT ![r] = landed[r]]
      /\ count = [count EXCEPT ![r] = count[r]]
      /\ snap'[j].all = all /\ (all => snap'[j].links = now)
      /\ \A k \in Jobs : k # j => snap'[k] = snap[k]
  BY <1>1, <1>2 DEF TypeInv, TypeOK
<1>5. CASE i \in landed[r]
  <2>1. now = landed[r] /\ n = count[r] /\ ~all
    BY <1>3, <1>5
  <2> HIDE DEF now, n, all
  <2>2. UNCHANGED <<tracked, landed, count>> /\ snap'[j].all = FALSE
    BY <1>1, <1>4, <2>1
  <2> QED
    BY <1>1, <1>2, <1>4, <1>5, <2>2
<1>6. CASE i \notin landed[r]
  <2>1. now = landed[r] \cup {i} /\ n = count[r] + 1
    BY <1>6
  <2>2. /\ Cardinality(landed[r] \cup {i}) = count[r] + 1
        /\ all <=> landed[r] \cup {i} = Frames(r)
    BY <1>2, <1>3, <1>6, <2>1, LastFrameFillsTheBook
  <2>3. ~all => count[r] + 1 < NumFrames[r]
    BY <1>3, <2>1
  <2> HIDE DEF now, n, all
  <2>4. CASE all
    <3>1. landed[r] \cup {i} = Frames(r)
      BY <2>2, <2>4
    <3>2. snap'[j].all = TRUE /\ snap'[j].links = Frames(r)
      BY <1>4, <2>1, <2>4, <3>1
    <3>3. /\ tracked' = tracked \ {r}
          /\ landed' = [landed EXCEPT ![r] = {}]
          /\ count' = [count EXCEPT ![r] = 0]
      BY <1>1, <2>4
    <3> QED
      BY <1>1, <1>2, <1>4, <1>6, <3>1, <3>2, <3>3
  <2>5. CASE ~all
    BY <1>1, <1>2, <1>4, <1>6, <2>1, <2>2, <2>3, <2>5
  <2> QED
    BY <2>4, <2>5
<1> QED
  BY <1>5, <1>6

-----------------------------------------------------------------------------
(* The books are right in every reachable state.                           *)

LEMMA BookInit == Init => BookInv
BY DEF Init, BookInv, CountMatchesLinks, UntrackedIsEmpty, KnownFramesAreSubmitted,
   FinalsHaveNoEntry, ClosedHasFinal, FinalisedOnce, NoSnap, Queued

(* A step that touches no entry and moves frames only between the queue    *)
(* and the jobs keeps the books right.                                     *)
LEMMA BookKept ==
    ASSUME TypeInv, BookInv, UNCHANGED <<tracked, landed, count, snap>>,
           \A r \in Renders : status[r] # "NONE" => status'[r] # "NONE",
           \A r \in Renders : status'[r] # "NONE" => status[r] # "NONE"
                                                    \/ NumFrames[r] = 0,
           \A k \in Jobs : call[k] # "none" => call'[k] # "none"
                                               /\ jframe'[k] = jframe[k],
           \A f \in FrameJobs : Queued(f)' => Queued(f) \/ \E k \in Jobs :
                                              call[k] # "none" /\ jframe[k] = f,
           \A k \in Jobs : call'[k] # "none" => \/ jframe'[k] \in FrameJobs
                                                   /\ Queued(jframe'[k])
                                                \/ call[k] # "none"
                                                   /\ jframe'[k] = jframe[k]
    PROVE  BookInv'
<1>0. \A k \in Jobs : snap[k].all => call[k] # "none" /\ RenderOf(k)' = RenderOf(k)
  BY DEF BookInv, FinalsHaveNoEntry, RenderOf
<1>1. CountMatchesLinks' /\ UntrackedIsEmpty' /\ FinalsHaveNoEntry'
      /\ FinalisedOnce'
  BY <1>0 DEF BookInv, CountMatchesLinks, UntrackedIsEmpty, FinalsHaveNoEntry,
     FinalisedOnce
<1>5. ClosedHasFinal'
  BY <1>0 DEF BookInv, ClosedHasFinal, Finals
<1>2. ASSUME NEW r \in tracked'
      PROVE  status'[r] # "NONE" /\ NumFrames[r] # 0
  BY <1>2 DEF BookInv, KnownFramesAreSubmitted, TypeInv, TypeOK
<1>3. ASSUME NEW f \in FrameJobs, Queued(f)'
      PROVE  status'[f[1]] # "NONE" /\ NumFrames[f[1]] # 0
  <2>1. status[f[1]] # "NONE" /\ NumFrames[f[1]] # 0
    BY <1>3 DEF BookInv, KnownFramesAreSubmitted, RenderOf
  <2> QED
    BY <2>1, FrameJobParts
<1>4. ASSUME NEW k \in Jobs, call'[k] # "none"
      PROVE  status'[RenderOf(k)'] # "NONE" /\ NumFrames[RenderOf(k)'] # 0
  <2>1. /\ jframe'[k] \in FrameJobs
        /\ status[jframe'[k][1]] # "NONE" /\ NumFrames[jframe'[k][1]] # 0
    BY <1>4 DEF BookInv, KnownFramesAreSubmitted, RenderOf, TypeInv, JobsKnown
  <2> QED
    BY <2>1, FrameJobParts DEF RenderOf
<1> QED
  BY <1>1, <1>2, <1>3, <1>4, <1>5 DEF BookInv, KnownFramesAreSubmitted

LEMMA SubmitKeepsBooks ==
    ASSUME TypeInv, BookInv, NEW s \in Renders, Submit(s)
    PROVE  BookInv'
<1>1. /\ status[s] = "NONE" /\ status' = [status EXCEPT ![s] = "IN_QUEUE"]
      /\ UNCHANGED <<call, jframe, snap>>
  BY DEF Submit, job
<1>2. NumFrames[s] \in Nat
  BY FramesAssumption
<1>3. CASE NumFrames[s] <= 0
  <2>1. UNCHANGED <<tracked, landed, count, queue>>
    BY <1>3 DEF Submit, AddJob, progress
  <2>2. \A r \in Renders : /\ status[r] # "NONE" => status'[r] # "NONE"
                           /\ status'[r] # "NONE" => \/ status[r] # "NONE"
                                                     \/ NumFrames[r] = 0
    BY <1>1, <1>2, <1>3 DEF TypeInv, TypeOK
  <2>3. \A k \in Jobs : call'[k] # "none" => call[k] # "none" /\ jframe'[k] = jframe[k]
    BY <1>1
  <2> QED
    BY <1>1, <2>1, <2>2, <2>3, BookKept DEF Queued
<1>4. CASE ~(NumFrames[s] <= 0)
  <2>1. /\ tracked' = tracked \cup {s}
        /\ landed' = [landed EXCEPT ![s] = {}]
        /\ count' = [count EXCEPT ![s] = 0]
        /\ queue' = queue \o [k \in 1 .. NumFrames[s] |-> <<s, k - 1>>]
    BY <1>4 DEF Submit, AddJob
  <2>2. CountMatchesLinks'
    <3>1. ASSUME NEW j \in Jobs, snap[j].all
          PROVE  snap[j].links = Frames(RenderOf(j))
      BY <3>1 DEF BookInv, CountMatchesLinks
    <3>2. ASSUME NEW r \in tracked'
          PROVE  /\ landed'[r] \subseteq Frames(r)
                 /\ count'[r] = Cardinality(landed'[r]) /\ count'[r] < NumFrames[r]
      BY <1>2, <1>4, <2>1, <3>2, FS_EmptySet
         DEF BookInv, CountMatchesLinks, TypeInv, TypeOK
    <3> QED
      BY <1>1, <3>1, <3>2 DEF CountMatchesLinks, RenderOf
  <2>3. UntrackedIsEmpty'
    BY <2>1 DEF BookInv, UntrackedIsEmpty, TypeInv, TypeOK
  <2>4. \A f : Queued(f)' <=> Queued(f) \/ \E i \in Frames(s) : f = <<s, i>>
    BY <2>1, QueuedAfterSubmit DEF TypeInv
  <2>5. \A r \in Renders : status[r] # "NONE" => status'[r] # "NONE"
    BY <1>1 DEF TypeInv, TypeOK
  <2>6. status'[s] # "NONE" /\ NumFrames[s] # 0
    BY <1>1, <1>4 DEF TypeInv, TypeOK
  <2>7. ASSUME NEW r \in tracked'
        PROVE  status'[r] # "NONE" /\ NumFrames[r] # 0
    BY <2>1, <2>5, <2>6, <2>7 DEF BookInv, KnownFramesAreSubmitted, TypeInv, TypeOK
  <2>8. ASSUME NEW f \in FrameJobs, Queued(f)'
        PROVE  status'[f[1]] # "NONE" /\ NumFrames[f[1]] # 0
    <3>1. CASE Queued(f)
      BY <2>5, <3>1, FrameJobParts DEF BookInv, KnownFramesAreSubmitted
    <3>2. CASE \E i \in Frames(s) : f = <<s, i>>
      BY <2>6, <3>2
    <3> QED
      BY <2>4, <2>8, <3>1, <3>2
  <2>9. ASSUME NEW k \in Jobs, call'[k] # "none"
        PROVE  status'[RenderOf(k)'] # "NONE" /\ NumFrames[RenderOf(k)'] # 0
    <3>1. call[k] # "none" /\ jframe'[k] = jframe[k] /\ jframe[k] \in FrameJobs
      BY <1>1, <2>9 DEF TypeInv, JobsKnown
    <3> QED
      BY <2>5, <3>1, FrameJobParts DEF BookInv, KnownFramesAreSubmitted, RenderOf
  <2>10. FinalsHaveNoEntry' /\ FinalisedOnce'
    BY <1>1, <2>1 DEF BookInv, FinalsHaveNoEntry, FinalisedOnce, RenderOf,
       KnownFramesAreSubmitted
  <2>11. ClosedHasFinal'
    BY <1>1, <2>1 DEF BookInv, ClosedHasFinal, Finals, RenderOf, TypeInv, TypeOK
  <2> QED
    BY <2>2, <2>3, <2>7, <2>8, <2>9, <2>10, <2>11 DEF BookInv, KnownFramesAreSubmitted
<1> QED
  BY <1>3, <1>4

LEMMA AssignKeepsBooks ==
    ASSUME TypeInv, BookInv, NEW w \in Workers, AssignFrame(w)
    PROVE  /\ BookInv' /\ UNCHANGED <<tracked, landed, count, snap>>
           /\ \A r \in Renders : status'[r] = "NONE" <=> status[r] = "NONE"
           /\ \A k \in Jobs : call[k] # "none" => call'[k] # "none"
                                                  /\ jframe'[k] = jframe[k]
<1>1. PICK j \in Jobs : j = FreshJob /\ call[j] = "none"
  BY FreshJobIsFresh DEF AssignFrame
<1>2. PICK f \in FrameJobs : f = Head(queue)
  BY DEF AssignFrame, TypeInv, TypeOK
<1>3. /\ queue # << >> /\ queue' = Tail(queue)
      /\ status' = [status EXCEPT ![f[1]] = "IN_PROGRESS"]
      /\ jframe' = [jframe EXCEPT ![j] = f]
      /\ call' = [call EXCEPT ![j] = "inflight"]
      /\ UNCHANGED <<tracked, landed, count, snap>>
  BY <1>1, <1>2 DEF AssignFrame, progress
<1>4. Queued(f)
  <2>1. 1 \in DOMAIN queue /\ queue[1] = f
    BY <1>2, <1>3 DEF TypeInv, TypeOK
  <2> QED
    BY <2>1 DEF Queued
<1>5. \A r \in Renders : status'[r] = "NONE" <=> status[r] = "NONE"
  BY <1>3, <1>4, FrameJobParts DEF BookInv, KnownFramesAreSubmitted, TypeInv, TypeOK
<1>6. \A g \in FrameJobs : Queued(g)' => Queued(g)
  BY <1>3, QueuedAfterPop DEF TypeInv
<1>7. \A k \in Jobs : call'[k] # "none" =>
          \/ jframe'[k] \in FrameJobs /\ Queued(jframe'[k])
          \/ call[k] # "none" /\ jframe'[k] = jframe[k]
  BY <1>3, <1>4 DEF TypeInv, TypeOK
<1>8. \A k \in Jobs : call[k] # "none" => call'[k] # "none" /\ jframe'[k] = jframe[k]
  BY <1>1, <1>3 DEF TypeInv, TypeOK
<1> QED
  BY <1>3, <1>5, <1>6, <1>7, <1>8, BookKept

LEMMA LandKeepsBooks ==
    ASSUME TypeInv, BookInv, NEW j \in Jobs, CallbackLand(j)
    PROVE  BookInv'
<1>1. UNCHANGED <<status, queue, call, jframe>>
  BY DEF CallbackLand, history, job
<1>2. KnownFramesAreSubmitted' /\ tracked' \subseteq tracked
  <2>1. tracked' \subseteq tracked
    BY DEF CallbackLand, progress
  <2> QED
    BY <1>1, <2>1 DEF BookInv, KnownFramesAreSubmitted, RenderOf, Queued
<1>3. CASE RenderOf(j) \notin tracked
  <2>1. UNCHANGED <<tracked, landed, count, snap>>
    BY <1>3 DEF CallbackLand, progress
  <2> QED
    BY <1>1, <1>2, <2>1 DEF BookInv, CountMatchesLinks, UntrackedIsEmpty,
       FinalsHaveNoEntry, ClosedHasFinal, Finals, FinalisedOnce, RenderOf
<1>4. CASE RenderOf(j) \in tracked
  <2> DEFINE r == RenderOf(j)
             i == FrameOf(j)
  <2>0. /\ r \in Renders /\ i \in Frames(r) /\ call[j] # "none"
        /\ \A k \in Jobs : k # j => snap'[k] = snap[k]
    BY <1>4, LandingCases DEF BookInv
  <2>1. /\ \A k \in Jobs : RenderOf(k)' = RenderOf(k)
        /\ \A k \in Jobs : snap[k].all => RenderOf(k) # r /\ k # j
    BY <1>1, <1>4 DEF BookInv, FinalsHaveNoEntry, RenderOf
  <2>2. ASSUME snap'[j].all = FALSE, UNCHANGED tracked
        PROVE  /\ FinalsHaveNoEntry' /\ ClosedHasFinal' /\ FinalisedOnce'
               /\ \A k \in Jobs : snap'[k].all => snap'[k].links = Frames(RenderOf(k)')
    <3>1. \A k \in Jobs : /\ snap'[k].all => snap[k].all
                          /\ snap[k].all => snap'[k] = snap[k]
      BY <2>0, <2>1, <2>2
    <3>2. FinalsHaveNoEntry' /\ FinalisedOnce'
      BY <1>1, <2>1, <2>2, <3>1 DEF BookInv, FinalsHaveNoEntry, FinalisedOnce
    <3>3. ClosedHasFinal'
      BY <1>1, <2>1, <2>2, <3>1 DEF BookInv, ClosedHasFinal, Finals
    <3> QED
      BY <2>1, <3>1, <3>2, <3>3 DEF BookInv, CountMatchesLinks
  <2>3. CASE i \in landed[r]
    <3>1. UNCHANGED <<tracked, landed, count>> /\ snap'[j].all = FALSE
      BY <1>4, <2>3, LandingCases DEF BookInv
    <3> QED
      BY <1>2, <2>2, <3>1 DEF BookInv, CountMatchesLinks, UntrackedIsEmpty
  <2>4. CASE i \notin landed[r] /\ landed[r] \cup {i} # Frames(r)
    <3>1. /\ UNCHANGED tracked
          /\ landed' = [landed EXCEPT ![r] = landed[r] \cup {i}]
          /\ count' = [count EXCEPT ![r] = count[r] + 1]
          /\ count[r] + 1 = Cardinality(landed[r] \cup {i})
          /\ count[r] + 1 < NumFrames[r]
          /\ snap'[j].all = FALSE
      BY <1>4, <2>4, LandingCases DEF BookInv
    <3>2. \A q \in tracked' : /\ landed'[q] \subseteq Frames(q)
                              /\ count'[q] = Cardinality(landed'[q])
                              /\ count'[q] < NumFrames[q]
      BY <2>0, <3>1 DEF BookInv, CountMatchesLinks, TypeInv, TypeOK
    <3>3. UntrackedIsEmpty'
      BY <1>4, <2>0, <3>1 DEF BookInv, UntrackedIsEmpty, TypeInv, TypeOK
    <3> QED
      BY <1>2, <2>2, <3>1, <3>2, <3>3 DEF BookInv, CountMatchesLinks
  <2>5. CASE i \notin landed[r] /\ landed[r] \cup {i} = Frames(r)
    <3>1. /\ tracked' = tracked \ {r}
          /\ landed' = [landed EXCEPT ![r] = {}]
          /\ count' = [count EXCEPT ![r] = 0]
          /\ snap'[j].all = TRUE /\ snap'[j].links = Frames(r)
      BY <1>4, <2>5, LandingCases DEF BookInv
    <3>2. \A q \in tracked' : /\ landed'[q] \subseteq Frames(q)
                              /\ count'[q] = Cardinality(landed'[q])
                              /\ count'[q] < NumFrames[q]
      BY <2>0, <3>1 DEF BookInv, CountMatchesLinks, TypeInv, TypeOK
    <3>3. UntrackedIsEmpty'
      BY <2>0, <3>1 DEF BookInv, UntrackedIsEmpty, TypeInv, TypeOK
    <3>4. \A k \in Jobs : snap'[k].all => k = j \/ (snap[k].all /\ snap'[k] = snap[k])
      <4> SUFFICES ASSUME NEW k \in Jobs, k # j, snap'[k].all
                   PROVE  snap[k].all /\ snap'[k] = snap[k]
        OBVIOUS
      <4> QED
        BY <2>0
    <3>5. CountMatchesLinks'
      BY <2>1, <3>1, <3>2, <3>4 DEF BookInv, CountMatchesLinks
    <3>6. FinalsHaveNoEntry' /\ FinalisedOnce'
      BY <1>1, <2>0, <2>1, <3>1, <3>4 DEF BookInv, FinalsHaveNoEntry, FinalisedOnce
    <3>7. ClosedHasFinal'
      <4>1. ASSUME NEW q \in Renders, status'[q] # "NONE", NumFrames[q] # 0,
                   q \notin tracked'
            PROVE  Finals(q)' # {}
        <5>1. CASE q = r
          BY <2>1, <3>1, <5>1 DEF Finals
        <5>2. CASE q # r
          <6>1. PICK k \in Jobs : snap[k].all /\ RenderOf(k) = q
            BY <1>1, <3>1, <4>1, <5>2 DEF BookInv, ClosedHasFinal, Finals
          <6>2. snap'[k] = snap[k]
            BY <2>0, <2>1, <6>1
          <6> QED
            BY <2>1, <6>1, <6>2 DEF Finals
        <5> QED
          BY <5>1, <5>2
      <4> QED
        BY <4>1 DEF ClosedHasFinal
    <3> QED
      BY <1>2, <3>3, <3>5, <3>6, <3>7 DEF BookInv
  <2> QED
    BY <2>3, <2>4, <2>5
<1> QED
  BY <1>3, <1>4

(* The steps of calls, workers, processes and faults, and the callback     *)
(* around its critical section, are not in the books at all.               *)
Bystander ==
    \/ \E j \in Jobs : CallStep(j) \/ WorkerStep(j) \/ FaultStep(j)
                       \/ (CallbackStep(j) /\ ~CallbackLand(j))
    \/ \E w \in Workers : ProcessStep(w)
    \/ UNCHANGED vars

LEMMA BystanderKeepsBooks ==
    ASSUME TypeInv, BookInv, Bystander
    PROVE  /\ BookInv' /\ UNCHANGED <<tracked, landed, count, snap>>
           /\ \A r \in Renders : status'[r] = "NONE" <=> status[r] = "NONE"
           /\ \A k \in Jobs : call[k] # "none" => call'[k] # "none"
                                                  /\ jframe'[k] = jframe[k]
<1>1. UNCHANGED <<tracked, landed, count, jframe, snap>>
  BY DEF Bystander, CallStep, CallRefused, CallErase, CallRequeue, CallOffline,
     WorkerStep, WorkerReceive, WorkerRender, WorkerReply, FaultStep, CallSevered,
     WorkerFail, WorkerNotifyLost, CallbackStep, CallbackLookup, CallbackShow,
     CallbackLink, CallbackComplete, CallbackIdle, ProcessStep, Establish,
     StartServing, Disconnect, ShutdownServer, Exit, Crash, vars, progress, job
<1>2. \A r \in Renders : status'[r] = "NONE" <=> status[r] = "NONE"
  <2>1. CASE UNCHANGED status
    BY <2>1
  <2>2. ASSUME NEW j \in Jobs, CallbackComplete(j)
        PROVE  \A r \in Renders : status'[r] = "NONE" <=> status[r] = "NONE"
    <3>1. call[j] # "none"
      BY <2>2 DEF CallbackComplete, TypeInv, JobsKnown
    <3>2. status[RenderOf(j)] # "NONE"
      BY <3>1 DEF BookInv, KnownFramesAreSubmitted
    <3> QED
      BY <2>2, <3>2 DEF CallbackComplete, TypeInv, TypeOK
  <2> QED
    BY <2>1, <2>2 DEF Bystander, CallStep, CallRefused, CallErase, CallRequeue,
       CallOffline, WorkerStep, WorkerReceive, WorkerRender, WorkerReply, FaultStep,
       CallSevered, WorkerFail, WorkerNotifyLost, CallbackStep, CallbackLookup,
       CallbackShow, CallbackLink, CallbackIdle, ProcessStep, Establish,
       StartServing, Disconnect, ShutdownServer, Exit, Crash, vars, history
<1>3. \A f \in FrameJobs : Queued(f)' =>
          Queued(f) \/ \E k \in Jobs : call[k] # "none" /\ jframe[k] = f
  <2>1. CASE UNCHANGED queue
    BY <2>1 DEF Queued
  <2>2. ASSUME NEW j \in Jobs, CallRequeue(j), NEW f \in FrameJobs, Queued(f)'
        PROVE  Queued(f) \/ \E k \in Jobs : call[k] # "none" /\ jframe[k] = f
    <3>1. call[j] # "none" /\ jframe[j] \in FrameJobs
          /\ queue' = Append(queue, jframe[j])
      BY <2>2 DEF CallRequeue, TypeInv, JobsKnown
    <3> QED
      BY <2>2, <3>1, QueuedAfterPush DEF TypeInv
  <2> QED
    BY <2>1, <2>2 DEF Bystander, CallStep, CallRefused, CallErase,
       CallOffline, WorkerStep, WorkerReceive, WorkerRender, WorkerReply, FaultStep,
       CallSevered, WorkerFail, WorkerNotifyLost, CallbackStep, CallbackLookup,
       CallbackShow, CallbackLink, CallbackComplete, CallbackIdle, ProcessStep,
       Establish, StartServing, Disconnect, ShutdownServer, Exit, Crash, vars
<1>4. \A k \in Jobs : call'[k] # "none" <=> call[k] # "none"
  BY DEF Bystander, CallStep, CallRefused, CallErase, CallRequeue, CallOffline,
     WorkerStep, WorkerReceive, WorkerRender, WorkerReply, FaultStep, CallSevered,
     WorkerFail, WorkerNotifyLost, CallbackStep, CallbackLookup, CallbackShow,
     CallbackLink, CallbackComplete, CallbackIdle, ProcessStep, Establish,
     StartServing, Disconnect, ShutdownServer, Exit, Crash, vars, TypeInv, TypeOK,
     JobsKnown
<1> QED
  BY <1>1, <1>2, <1>3, <1>4, BookKept

LEMMA StepKinds ==
    ASSUME [Next]_vars
    PROVE  \/ \E r \in Renders : Submit(r)
           \/ \E w \in Workers : AssignFrame(w)
           \/ \E j \in Jobs : CallbackLand(j)
           \/ Bystander
BY DEF Next, Bystander

LEMMA BookNext == TypeInv /\ BookInv /\ [Next]_vars => BookInv'
BY StepKinds, SubmitKeepsBooks, AssignKeepsBooks, LandKeepsBooks, BystanderKeepsBooks

(* The counter that decides completion is always the number of frames with *)
(* a link, and the callback that completes it has a link for each frame.   *)
THEOREM BooksAreRight == Spec => []CountMatchesLinks
<1>1. Init => TypeInv /\ BookInv
  BY TypeInit, BookInit
<1>2. TypeInv /\ BookInv /\ [Next]_vars => (TypeInv /\ BookInv)'
  BY TypeNext, BookNext
<1>3. BookInv => CountMatchesLinks
  BY DEF BookInv
<1> QED
  BY <1>1, <1>2, <1>3, PTL DEF Spec

(* However many callbacks of a render run together, one finalises it.      *)
THEOREM RendersAreFinalisedOnce == Spec => []FinalisedOnce
<1>1. Init => TypeInv /\ BookInv
  BY TypeInit, BookInit
<1>2. TypeInv /\ BookInv /\ [Next]_vars => (TypeInv /\ BookInv)'
  BY TypeNext, BookNext
<1>3. BookInv => FinalisedOnce
  BY DEF BookInv
<1> QED
  BY <1>1, <1>2, <1>3, PTL DEF Spec

-----------------------------------------------------------------------------
(* The refinement.                                                         *)

(* The links a finalising callback took along are all frames of the render. *)
LEMMA ClosedIsFull ==
    ASSUME BookInv, NEW r \in Renders
    PROVE  Delivered(r) = IF Phase(r) = "closed" THEN Frames(r) ELSE landed[r]
<1>1. CASE Phase(r) # "closed"
  BY <1>1 DEF Delivered
<1>2. CASE Phase(r) = "closed"
  <2>1. Finals(r) # {}
    BY <1>2 DEF Phase, BookInv, ClosedHasFinal
  <2>2. \A j \in Finals(r) : snap[j].links = Frames(r)
    BY DEF Finals, BookInv, CountMatchesLinks
  <2>3. UNION {snap[j].links : j \in Finals(r)} = Frames(r)
    BY <2>1, <2>2
  <2> QED
    BY <1>2, <2>3 DEF Delivered
<1> QED
  BY <1>1, <1>2

LEMMA LedgerInit == Init => Ledger!Init
BY DEF Init, Ledger!Init, Phase, Delivered

LEMMA DeliveredNext ==
    ASSUME BookInv', NEW r \in Renders
    PROVE  Delivered(r)' = IF Phase(r)' = "closed" THEN Frames(r) ELSE landed'[r]
<1>1. CASE Phase(r)' # "closed"
  BY <1>1 DEF Delivered
<1>2. CASE Phase(r)' = "closed"
  <2>1. Finals(r)' # {}
    BY <1>2 DEF Phase, BookInv, ClosedHasFinal
  <2>2. \A j \in Finals(r)' : snap'[j].links = Frames(r)
    BY DEF Finals, BookInv, CountMatchesLinks
  <2>3. (UNION {snap[j].links : j \in Finals(r)})' = Frames(r)
    BY <2>1, <2>2
  <2> QED
    BY <1>2, <2>3 DEF Delivered
<1> QED
  BY <1>1, <1>2

(* What the ledger shows depends on the entries and on whether a render    *)
(* was submitted.                                                          *)
LEMMA LedgerKept ==
    ASSUME BookInv, BookInv', UNCHANGED <<tracked, landed>>,
           \A r \in Renders : status'[r] = "NONE" <=> status[r] = "NONE"
    PROVE  UNCHANGED Ledger!vars
<1>1. \A r \in Renders : Phase(r)' = Phase(r)
  BY DEF Phase
<1>2. \A r \in Renders : Delivered(r)' = Delivered(r)
  <2> SUFFICES ASSUME NEW r \in Renders PROVE Delivered(r)' = Delivered(r)
    OBVIOUS
  <2>1. Delivered(r) = IF Phase(r) = "closed" THEN Frames(r) ELSE landed[r]
    BY ClosedIsFull
  <2>2. Delivered(r)' = IF Phase(r)' = "closed" THEN Frames(r) ELSE landed'[r]
    BY DeliveredNext
  <2> QED
    BY <1>1, <2>1, <2>2
<1> QED
  BY <1>1, <1>2 DEF Ledger!vars

LEMMA SubmitOpensLedger ==
    ASSUME TypeInv, BookInv, BookInv', NEW s \in Renders, Submit(s)
    PROVE  Ledger!Open(s)
<1>1. /\ status[s] = "NONE" /\ status' = [status EXCEPT ![s] = "IN_QUEUE"]
  BY DEF Submit
<1>2. s \notin tracked /\ landed[s] = {}
  BY <1>1 DEF BookInv, KnownFramesAreSubmitted, UntrackedIsEmpty, TypeInv, TypeOK
<1>3. NumFrames[s] \in Nat
  BY FramesAssumption
<1>4. /\ \A r \in Renders \ {s} : r \in tracked' <=> r \in tracked
      /\ landed' = landed
      /\ NumFrames[s] # 0 <=> s \in tracked'
  <2>1. CASE NumFrames[s] <= 0
    BY <1>2, <1>3, <2>1 DEF Submit, AddJob, progress
  <2>2. CASE ~(NumFrames[s] <= 0)
    <3>1. tracked' = tracked \cup {s} /\ landed' = [landed EXCEPT ![s] = {}]
      BY <2>2 DEF Submit, AddJob
    <3>2. landed' = landed
      BY <1>2, <3>1 DEF TypeInv, TypeOK
    <3> QED
      BY <1>3, <2>2, <3>1, <3>2
  <2> QED
    BY <2>1, <2>2
<1>5. /\ Phase(s) = "absent"
      /\ Phase(s)' = IF NumFrames[s] = 0 THEN "skipped" ELSE "open"
      /\ \A r \in Renders : r # s => Phase(r)' = Phase(r)
  BY <1>1, <1>4 DEF Phase, TypeInv, TypeOK
<1>6. \A r \in Renders : Delivered(r)' = Delivered(r)
  BY <1>4, <1>5, ClosedIsFull, DeliveredNext
<1> QED
  BY <1>5, <1>6 DEF Ledger!Open

LEMMA LandDelivers ==
    ASSUME TypeInv, BookInv, BookInv', NEW j \in Jobs, CallbackLand(j)
    PROVE  UNCHANGED Ledger!vars
           \/ \E r \in Renders : \E i \in Frames(r) : Ledger!Deliver(r, i)
<1>1. UNCHANGED status
  BY DEF CallbackLand, history
<1>2. CASE RenderOf(j) \notin tracked
  <2>1. UNCHANGED <<tracked, landed>>
    BY <1>2 DEF CallbackLand, progress
  <2> QED
    BY <1>1, <2>1, LedgerKept
<1>3. CASE RenderOf(j) \in tracked
  <2>1. RenderOf(j) \in Renders /\ FrameOf(j) \in Frames(RenderOf(j))
    BY <1>3, LandingCases DEF BookInv
  <2>2. PICK r \in Renders : r = RenderOf(j)
    BY <2>1
  <2>3. PICK i \in Frames(r) : i = FrameOf(j)
    BY <2>1, <2>2
  <2>4. status[r] # "NONE" /\ NumFrames[r] # 0 /\ r \in tracked
    BY <1>3, <2>2 DEF BookInv, KnownFramesAreSubmitted
  <2>5. Phase(r) = "open" /\ Delivered(r) = landed[r]
    BY <2>4 DEF Phase, Delivered
  <2>6. CASE i \in landed[r]
    <3>1. UNCHANGED <<tracked, landed>>
      BY <1>3, <2>2, <2>3, <2>6, LandingCases DEF BookInv
    <3> QED
      BY <1>1, <3>1, LedgerKept
  <2>7. CASE i \notin landed[r]
    <3>1. /\ \A q \in Renders : q # r => Phase(q)' = Phase(q) /\ landed'[q] = landed[q]
          /\ Phase(r)' = IF landed[r] \cup {i} = Frames(r) THEN "closed" ELSE "open"
          /\ landed[r] \cup {i} # Frames(r) => landed'[r] = landed[r] \cup {i}
      <4>1. CASE landed[r] \cup {i} # Frames(r)
        <5>1. UNCHANGED tracked /\ landed' = [landed EXCEPT ![r] = landed[r] \cup {i}]
          BY <1>3, <2>2, <2>3, <2>7, <4>1, LandingCases DEF BookInv
        <5> QED
          BY <1>1, <2>4, <4>1, <5>1 DEF Phase, TypeInv, TypeOK
      <4>2. CASE landed[r] \cup {i} = Frames(r)
        <5>1. tracked' = tracked \ {r} /\ landed' = [landed EXCEPT ![r] = {}]
          BY <1>3, <2>2, <2>3, <2>7, <4>2, LandingCases DEF BookInv
        <5> QED
          BY <1>1, <2>4, <4>2, <5>1 DEF Phase, TypeInv, TypeOK
      <4> QED
        BY <4>1, <4>2
    <3>2. /\ \A q \in Renders : q # r => Delivered(q)' = Delivered(q)
          /\ Delivered(r)' = landed[r] \cup {i}
      BY <3>1, ClosedIsFull, DeliveredNext
    <3>3. Ledger!Deliver(r, i)
      <4> DEFINE P == [q \in Renders |-> Phase(q)]
                 D == [q \in Renders |-> Delivered(q)]
      <4>1. P[r] = "open" /\ i \notin D[r]
        BY <2>5, <2>7
      <4>2. D' = [D EXCEPT ![r] = D[r] \cup {i}]
        BY <2>5, <3>2
      <4>3. D'[r] = landed[r] \cup {i}
        BY <3>2
      <4>4. P' = [P EXCEPT ![r] = IF D'[r] = Frames(r) THEN "closed" ELSE "open"]
        BY <3>1, <4>3
      <4> QED
        BY <4>1, <4>2, <4>4 DEF Ledger!Deliver, Ledger!Frames, Frames
    <3> QED
      BY <3>3
  <2> QED
    BY <2>6, <2>7
<1> QED
  BY <1>2, <1>3

LEMMA LedgerNext ==
    ASSUME TypeInv, BookInv, [Next]_vars
    PROVE  [Ledger!Next]_(Ledger!vars)
<1>0. BookInv'
  BY BookNext
<1>1. ASSUME NEW r \in Renders, Submit(r) PROVE Ledger!Next
  BY <1>0, <1>1, SubmitOpensLedger DEF Ledger!Next
<1>2. ASSUME NEW w \in Workers, AssignFrame(w) PROVE UNCHANGED Ledger!vars
  <2>1. /\ UNCHANGED <<tracked, landed>>
        /\ \A r \in Renders : status'[r] = "NONE" <=> status[r] = "NONE"
    BY <1>2, AssignKeepsBooks
  <2> QED
    BY <1>0, <2>1, LedgerKept
<1>3. ASSUME NEW j \in Jobs, CallbackLand(j)
      PROVE  UNCHANGED Ledger!vars \/ Ledger!Next
  BY <1>0, <1>3, LandDelivers DEF Ledger!Next, Ledger!Frames, Frames
<1>4. CASE Bystander
  <2>1. /\ UNCHANGED <<tracked, landed>>
        /\ \A r \in Renders : status'[r] = "NONE" <=> status[r] = "NONE"
    BY <1>4, BystanderKeepsBooks
  <2> QED
    BY <1>0, <2>1, LedgerKept
<1> QED
  BY <1>1, <1>2, <1>3, <1>4, StepKinds

(* FrameDispatch implements FrameLedger: each frame of a render is booked  *)
(* exactly once and the render closes exactly with its last frame, under   *)
(* every order of retries, duplicate, late and lost callbacks.             *)
THEOREM DispatchImplementsLedger == Spec => ImplementsLedger
<1>1. Init => TypeInv /\ BookInv
  BY TypeInit, BookInit
<1>2. TypeInv /\ BookInv /\ [Next]_vars => (TypeInv /\ BookInv)'
  BY TypeNext, BookNext
<1>3. Init => Ledger!Init
  BY LedgerInit
<1>4. TypeInv /\ BookInv /\ [Next]_vars => [Ledger!Next]_(Ledger!vars)
  BY LedgerNext
<1> QED
  BY <1>1, <1>2, <1>3, <1>4, PTL DEF Spec, ImplementsLedger, Ledger!Spec

-----------------------------------------------------------------------------
(* Links before COMPLETED.                                                 *)

(* Only a callback that finalises gets past the frame count, and it has    *)
(* stored the links when it is about to store the status.                  *)
FinaliserHasLinks ==
    \A j \in Jobs :
        /\ stage[j] \in {"linking", "completing"} => snap[j].all
        /\ stage[j] = "completing" => links[RenderOf(j)] = Frames(RenderOf(j))

LinkInv == FinaliserHasLinks /\ CompletedHasEveryLink

LEMMA LinkInit == Init => LinkInv
BY DEF Init, LinkInv, FinaliserHasLinks, CompletedHasEveryLink

(* A step that completes no render, stores no links and brings no callback *)
(* to the point where it would.                                            *)
LEMMA LinkKept ==
    ASSUME LinkInv, UNCHANGED links,
           \A r \in Renders : status'[r] = "COMPLETED" => status[r] = "COMPLETED",
           \A k \in Jobs : stage'[k] \in {"linking", "completing"} =>
                               /\ stage'[k] = stage[k]
                               /\ snap'[k] = snap[k] /\ jframe'[k] = jframe[k]
    PROVE  LinkInv'
<1>1. ASSUME NEW k \in Jobs, stage'[k] \in {"linking", "completing"}
      PROVE  snap'[k].all
  BY <1>1 DEF LinkInv, FinaliserHasLinks
<1>2. ASSUME NEW k \in Jobs, stage'[k] = "completing"
      PROVE  links'[RenderOf(k)'] = Frames(RenderOf(k)')
  BY <1>2 DEF LinkInv, FinaliserHasLinks, RenderOf
<1>3. CompletedHasEveryLink'
  BY DEF LinkInv, CompletedHasEveryLink
<1> QED
  BY <1>1, <1>2, <1>3 DEF LinkInv, FinaliserHasLinks

LEMMA SubmitKeepsLinks ==
    ASSUME TypeInv, LinkInv, NEW s \in Renders, Submit(s)
    PROVE  LinkInv'
<1>1. status' = [status EXCEPT ![s] = "IN_QUEUE"]
      /\ UNCHANGED <<links, stage, snap, jframe>>
  BY DEF Submit, job
<1>2. \A r \in Renders : status'[r] = "COMPLETED" => status[r] = "COMPLETED"
  BY <1>1 DEF TypeInv, TypeOK
<1> QED
  BY <1>1, <1>2, LinkKept

LEMMA AssignKeepsLinks ==
    ASSUME TypeInv, LinkInv, NEW w \in Workers, AssignFrame(w)
    PROVE  LinkInv'
<1>1. PICK j \in Jobs : j = FreshJob
  BY FreshJobIsFresh DEF AssignFrame
<1>2. PICK f \in FrameJobs : f = Head(queue)
  BY DEF AssignFrame, TypeInv, TypeOK
<1>3. /\ status' = [status EXCEPT ![f[1]] = "IN_PROGRESS"]
      /\ jframe' = [jframe EXCEPT ![j] = f]
      /\ stage' = [stage EXCEPT ![j] = "sent"]
      /\ UNCHANGED <<links, snap>>
  BY <1>1, <1>2 DEF AssignFrame
<1>4. \A r \in Renders : status'[r] = "COMPLETED" => status[r] = "COMPLETED"
  BY <1>3 DEF TypeInv, TypeOK
<1>5. \A k \in Jobs : stage'[k] \in {"linking", "completing"} =>
                          /\ stage'[k] = stage[k]
                          /\ snap'[k] = snap[k] /\ jframe'[k] = jframe[k]
  BY <1>3 DEF TypeInv, TypeOK
<1> QED
  BY <1>3, <1>4, <1>5, LinkKept

LEMMA LandKeepsLinks ==
    ASSUME TypeInv, BookInv, LinkInv, NEW j \in Jobs, CallbackLand(j)
    PROVE  LinkInv'
<1>1. UNCHANGED <<status, links, jframe>> /\ stage[j] = "landing"
  BY DEF CallbackLand, history, job
<1>2. \A k \in Jobs : k # j => stage'[k] = stage[k] /\ snap'[k] = snap[k]
  BY LandingCases DEF CallbackLand, BookInv, TypeInv, TypeOK
<1>3. stage'[j] \in {"idling", "showing"}
  BY DEF CallbackLand, TypeInv, TypeOK
<1>4. \A k \in Jobs : stage'[k] \in {"linking", "completing"} =>
                          /\ stage'[k] = stage[k]
                          /\ snap'[k] = snap[k] /\ jframe'[k] = jframe[k]
  BY <1>1, <1>2, <1>3
<1> QED
  BY <1>1, <1>4, LinkKept

LEMMA ShowKeepsLinks ==
    ASSUME TypeInv, LinkInv, NEW j \in Jobs, CallbackShow(j)
    PROVE  LinkInv'
<1>1. /\ UNCHANGED <<status, links, snap, jframe>>
      /\ stage' = [stage EXCEPT ![j] = IF snap[j].all THEN "linking" ELSE "idling"]
  BY DEF CallbackShow, job
<1>2. CompletedHasEveryLink'
  BY <1>1 DEF LinkInv, CompletedHasEveryLink
<1>3. ASSUME NEW k \in Jobs
      PROVE  /\ stage'[k] \in {"linking", "completing"} => snap'[k].all
             /\ stage'[k] = "completing" => links'[RenderOf(k)'] = Frames(RenderOf(k)')
  <2>1. CASE k = j
    BY <1>1, <2>1 DEF TypeInv, TypeOK
  <2>2. CASE k # j
    BY <1>1, <2>2 DEF LinkInv, FinaliserHasLinks, RenderOf, TypeInv, TypeOK
  <2> QED
    BY <2>1, <2>2
<1> QED
  BY <1>2, <1>3 DEF LinkInv, FinaliserHasLinks

LEMMA LinkKeepsLinks ==
    ASSUME TypeInv, BookInv, LinkInv, NEW j \in Jobs, CallbackLink(j)
    PROVE  LinkInv'
<1> DEFINE r == RenderOf(j)
<1>1. /\ UNCHANGED <<status, snap, jframe>> /\ stage[j] = "linking"
      /\ links' = [links EXCEPT ![r] = snap[j].links]
      /\ stage' = [stage EXCEPT ![j] = "completing"]
  BY DEF CallbackLink, job
<1>2. snap[j].all
  BY <1>1 DEF LinkInv, FinaliserHasLinks
<1>3. snap[j].links = Frames(r) /\ r \in Renders
  BY <1>2, FrameJobParts DEF BookInv, CountMatchesLinks, FinalsHaveNoEntry, TypeInv,
     JobsKnown, RenderOf
<1>4. \A q \in Renders : links'[q] = IF q = r THEN Frames(q) ELSE links[q]
  BY <1>1, <1>3 DEF TypeInv, TypeOK
<1>5. CompletedHasEveryLink'
  BY <1>1, <1>4 DEF LinkInv, CompletedHasEveryLink
<1>6. ASSUME NEW k \in Jobs
      PROVE  /\ stage'[k] \in {"linking", "completing"} => snap'[k].all
             /\ stage'[k] = "completing" => links'[RenderOf(k)'] = Frames(RenderOf(k)')
  <2>1. RenderOf(k)' = RenderOf(k)
    BY <1>1 DEF RenderOf
  <2>2. CASE k = j
    BY <1>1, <1>2, <1>3, <1>4, <2>1, <2>2
  <2>3. CASE k # j
    <3>1. stage'[k] = stage[k]
      BY <1>1, <2>3 DEF TypeInv, TypeOK
    <3>2. ASSUME stage[k] = "completing"
          PROVE  RenderOf(k) \in Renders /\ links[RenderOf(k)] = Frames(RenderOf(k))
      BY <3>2, FrameJobParts DEF LinkInv, FinaliserHasLinks, TypeInv, JobsKnown, RenderOf
    <3> QED
      BY <1>1, <1>4, <2>1, <3>1, <3>2 DEF LinkInv, FinaliserHasLinks
  <2> QED
    BY <2>2, <2>3
<1> QED
  BY <1>5, <1>6 DEF LinkInv, FinaliserHasLinks

LEMMA CompleteKeepsLinks ==
    ASSUME TypeInv, LinkInv, NEW j \in Jobs, CallbackComplete(j)
    PROVE  LinkInv'
<1>1. /\ UNCHANGED <<links, snap, jframe>> /\ stage[j] = "completing"
      /\ status' = [status EXCEPT ![RenderOf(j)] = "COMPLETED"]
      /\ stage' = [stage EXCEPT ![j] = "idling"]
  BY DEF CallbackComplete, job
<1>2. links[RenderOf(j)] = Frames(RenderOf(j))
  BY <1>1 DEF LinkInv, FinaliserHasLinks
<1>3. CompletedHasEveryLink'
  BY <1>1, <1>2 DEF LinkInv, CompletedHasEveryLink, TypeInv, TypeOK
<1>4. FinaliserHasLinks'
  BY <1>1 DEF LinkInv, FinaliserHasLinks, RenderOf, TypeInv, TypeOK
<1> QED
  BY <1>3, <1>4 DEF LinkInv

(* Every other step leaves status and links alone and moves callbacks      *)
(* outside the part that finalises.                                        *)
LEMMA OthersKeepLinks ==
    ASSUME TypeInv, LinkInv, Bystander,
           ~ \E j \in Jobs : CallbackShow(j) \/ CallbackLink(j) \/ CallbackComplete(j)
    PROVE  LinkInv'
<1>1. UNCHANGED <<status, links, snap, jframe>>
  BY DEF Bystander, CallStep, CallRefused, CallErase, CallRequeue, CallOffline,
     WorkerStep, WorkerReceive, WorkerRender, WorkerReply, FaultStep, CallSevered,
     WorkerFail, WorkerNotifyLost, CallbackStep, CallbackLookup, CallbackIdle,
     ProcessStep, Establish, StartServing, Disconnect, ShutdownServer, Exit, Crash,
     vars, history, job
<1>2. \A k \in Jobs : stage'[k] \in {"linking", "completing"} => stage'[k] = stage[k]
  <2>1. CASE \E j \in Jobs : CallStep(j) \/ WorkerStep(j) \/ FaultStep(j)
    BY <2>1 DEF CallStep, CallRefused, CallErase, CallRequeue, CallOffline,
       WorkerStep, WorkerReceive, WorkerRender, WorkerReply, FaultStep, CallSevered,
       WorkerFail, WorkerNotifyLost, TypeInv, TypeOK
  <2>2. CASE \E j \in Jobs : CallbackStep(j) /\ ~CallbackLand(j)
    BY <2>2 DEF CallbackStep, CallbackLookup, CallbackIdle, TypeInv, TypeOK
  <2>3. CASE \E w \in Workers : ProcessStep(w)
    BY <2>3 DEF ProcessStep, Establish, StartServing, Disconnect, ShutdownServer,
       Exit, Crash, TypeInv, TypeOK
  <2>4. CASE UNCHANGED vars
    BY <2>4 DEF vars
  <2> QED
    BY <2>1, <2>2, <2>3, <2>4 DEF Bystander
<1> QED
  BY <1>1, <1>2, LinkKept

LEMMA LinkNext == TypeInv /\ BookInv /\ LinkInv /\ [Next]_vars => LinkInv'
BY StepKinds, SubmitKeepsLinks, AssignKeepsLinks, LandKeepsLinks, ShowKeepsLinks,
   LinkKeepsLinks, CompleteKeepsLinks, OthersKeepLinks

(* A COMPLETED render shows a link for each of its frames.                 *)
THEOREM CompletedRendersHaveLinks == Spec => []CompletedHasEveryLink
<1>1. Init => TypeInv /\ BookInv /\ LinkInv
  BY TypeInit, BookInit, LinkInit
<1>2. TypeInv /\ BookInv /\ LinkInv /\ [Next]_vars => (TypeInv /\ BookInv /\ LinkInv)'
  BY TypeNext, BookNext, LinkNext
<1>3. LinkInv => CompletedHasEveryLink
  BY DEF LinkInv
<1> QED
  BY <1>1, <1>2, <1>3, PTL DEF Spec

-----------------------------------------------------------------------------
(* Who has a frame, and who has a worker.                                  *)

(* The entry of a job stays until its callback looks it up or its call has *)
(* failed.                                                                 *)
EntryInv ==
    \A j \in Jobs :
        call[j] = "inflight" /\ stage[j] \in {"sent", "rendering", "notified"}
            => j \in jobMap

(* A job that will take its worker out of BUSY.  A callback that has not   *)
(* looked up its entry yet only counts while it is waited for: without an  *)
(* entry, losing it would leave no trace of the worker.                    *)
WillFree(j) ==
    \/ call[j] \in {"failed", "erased", "requeued"}
    \/ call[j] = "inflight" /\ stage[j] \in {"sent", "rendering", "notified"}
    \/ stage[j] \in CallbackStage \ {"notified"}
    \/ call[j] = "inflight" /\ ~ok[j]
    \/ Forgotten(j)

BusyInv ==
    \A w \in Workers : wstatus[w] = "BUSY" =>
        \E j \in Jobs : jworker[j] = w /\ WillFree(j)

-----------------------------------------------------------------------------
LEMMA EntryInit == Init => EntryInv
BY DEF Init, EntryInv

LEMMA EntryNext == TypeInv /\ EntryInv /\ [Next]_vars => EntryInv'
<1> SUFFICES ASSUME TypeInv, EntryInv, [Next]_vars PROVE EntryInv'
  OBVIOUS
<1>0. call \in [Jobs -> CallState] /\ stage \in [Jobs -> Stage]
  BY DEF TypeInv, TypeOK
<1>1. ASSUME NEW r \in Renders, Submit(r) PROVE EntryInv'
  BY <1>1 DEF Submit, EntryInv
<1>2. ASSUME NEW w \in Workers, AssignFrame(w) PROVE EntryInv'
  <2>1. PICK j \in Jobs : /\ jobMap' = jobMap \cup {j}
                          /\ call' = [call EXCEPT ![j] = "inflight"]
                          /\ stage' = [stage EXCEPT ![j] = "sent"]
    BY <1>2, FreshJobIsFresh DEF AssignFrame
  <2> QED
    BY <1>0, <2>1 DEF EntryInv
<1>3. ASSUME NEW w \in Workers, ProcessStep(w) PROVE EntryInv'
  BY <1>0, <1>3 DEF ProcessStep, Establish, StartServing, Disconnect, ShutdownServer,
     Exit, Crash, CallbackStage, EntryInv
<1>4. ASSUME NEW j \in Jobs, CallStep(j) PROVE EntryInv'
  BY <1>0, <1>4 DEF CallStep, CallRefused, CallErase, CallRequeue, CallOffline, EntryInv
<1>5. ASSUME NEW j \in Jobs, WorkerStep(j) PROVE EntryInv'
  BY <1>0, <1>5 DEF WorkerStep, WorkerReceive, WorkerRender, WorkerReply, EntryInv
<1>6. ASSUME NEW j \in Jobs, CallbackStep(j) PROVE EntryInv'
  BY <1>0, <1>6 DEF CallbackStep, CallbackLookup, CallbackLand, CallbackShow,
     CallbackLink, CallbackComplete, CallbackIdle, EntryInv
<1>7. ASSUME NEW j \in Jobs, FaultStep(j) PROVE EntryInv'
  BY <1>0, <1>7 DEF FaultStep, CallSevered, WorkerFail, WorkerNotifyLost, EntryInv
<1>8. CASE UNCHANGED vars
  BY <1>8 DEF vars, EntryInv
<1> QED
  BY <1>1, <1>2, <1>3, <1>4, <1>5, <1>6, <1>7, <1>8 DEF Next

(* For any workers, jobs and failures: a callback whose dispatch thread    *)
(* still waits finds the job's entry (markRenderCompleted's lookup).       *)
THEOREM CallbacksFindTheirEntry == Spec => []CallbackFindsEntry
<1>1. Init => TypeInv /\ EntryInv
  BY TypeInit, EntryInit
<1>2. TypeInv /\ EntryInv /\ [Next]_vars => (TypeInv /\ EntryInv)'
  BY TypeNext, EntryNext
<1>3. EntryInv => CallbackFindsEntry
  BY DEF EntryInv, CallbackFindsEntry
<1> QED
  BY <1>1, <1>2, <1>3, PTL DEF Spec

-----------------------------------------------------------------------------
LEMMA BusyInit == Init => BusyInv
BY DEF Init, BusyInv

(* A step that makes no worker BUSY is harmless if each job keeps its      *)
(* worker, and still will free it unless the worker is not BUSY any more.  *)
LEMMA FreersAreKept ==
    ASSUME BusyInv, jworker' = jworker,
           \A w \in Workers : wstatus'[w] = "BUSY" => wstatus[w] = "BUSY",
           \A j \in Jobs : WillFree(j) /\ jworker[j] \in Workers =>
                WillFree(j)' \/ wstatus'[jworker[j]] # "BUSY"
    PROVE  BusyInv'
BY DEF BusyInv

LEMMA BusyNext == TypeInv /\ EntryInv /\ BusyInv /\ [Next]_vars => BusyInv'
<1> SUFFICES ASSUME TypeInv, EntryInv, BusyInv, [Next]_vars PROVE BusyInv'
  OBVIOUS
<1>0. /\ call \in [Jobs -> CallState] /\ stage \in [Jobs -> Stage]
      /\ wstatus \in [Workers -> WorkerStatus] /\ ok \in [Jobs -> BOOLEAN]
      /\ \A j \in Jobs : call[j] = "none" <=> stage[j] = "none"
  BY DEF TypeInv, TypeOK, JobsKnown
<1> USE DEF WillFree, Forgotten, CallbackLost, CallbackStage
<1>1. ASSUME NEW r \in Renders, Submit(r) PROVE BusyInv'
  BY <1>1, FreersAreKept DEF Submit, job
<1>2. ASSUME NEW w \in Workers, AssignFrame(w) PROVE BusyInv'
  <2>1. PICK j \in Jobs : j = FreshJob /\ call[j] = "none"
    BY <1>2, FreshJobIsFresh DEF AssignFrame
  <2>2. /\ jobMap' = jobMap \cup {j}
        /\ call' = [call EXCEPT ![j] = "inflight"]
        /\ stage' = [stage EXCEPT ![j] = "sent"]
        /\ jworker' = [jworker EXCEPT ![j] = w]
        /\ wstatus' = [wstatus EXCEPT ![w] = "BUSY"]
        /\ ok' = ok
    BY <1>2, <2>1 DEF AssignFrame
  <2>3. jworker \in [Jobs -> Workers \cup {NoWorker}]
    BY DEF TypeInv, TypeOK
  <2>4. jworker'[j] = w /\ WillFree(j)'
    BY <1>0, <2>1, <2>2, <2>3
  <2>5. ~WillFree(j)
    BY <1>0, <2>1
  <2>6. \A k \in Jobs : k # j => jworker'[k] = jworker[k] /\ (WillFree(k) => WillFree(k)')
    BY <1>0, <2>1, <2>2, <2>3
  <2>7. \A v \in Workers : v # w => wstatus'[v] = wstatus[v]
    BY <1>0, <2>2
  <2> HIDE DEF WillFree
  <2> QED
    BY <2>1, <2>4, <2>5, <2>6, <2>7 DEF BusyInv
<1>3. ASSUME NEW w \in Workers, ProcessStep(w) PROVE BusyInv'
  <2>1. CASE Crash(w)
    <3>1. jworker' = jworker /\ wstatus' = wstatus
      BY <2>1 DEF Crash, job
    <3>2. \A j \in Jobs : WillFree(j) => WillFree(j)'
      BY <1>0, <2>1 DEF Crash
    <3> QED
      BY <3>1, <3>2, FreersAreKept
  <2>2. CASE Establish(w) \/ StartServing(w) \/ Disconnect(w) \/ ShutdownServer(w)
             \/ Exit(w)
    <3>1. UNCHANGED <<jworker, call, stage, ok, jobMap>>
      BY <2>2 DEF Establish, StartServing, Disconnect, ShutdownServer, Exit, job
    <3>2. \A v \in Workers : wstatus'[v] = "BUSY" => wstatus[v] = "BUSY"
      BY <1>0, <2>2 DEF Establish, StartServing, Disconnect, ShutdownServer, Exit
    <3> QED
      BY <3>1, <3>2, FreersAreKept
  <2> QED
    BY <1>3, <2>1, <2>2 DEF ProcessStep
<1>4. ASSUME NEW j \in Jobs, CallStep(j) PROVE BusyInv'
  <2>1. jworker' = jworker
    BY <1>4 DEF CallStep, CallRefused, CallErase, CallRequeue, CallOffline, job
  <2>2. \A v \in Workers : wstatus'[v] = "BUSY" => wstatus[v] = "BUSY"
    BY <1>0, <1>4 DEF CallStep, CallRefused, CallErase, CallRequeue, CallOffline
  <2>3. \A k \in Jobs : WillFree(k) /\ jworker[k] \in Workers =>
            WillFree(k)' \/ wstatus'[jworker[k]] # "BUSY"
    BY <1>0, <1>4 DEF CallStep, CallRefused, CallErase, CallRequeue, CallOffline
  <2> QED
    BY <2>1, <2>2, <2>3, FreersAreKept
<1>5. ASSUME NEW j \in Jobs, WorkerStep(j) PROVE BusyInv'
  <2>1. jworker' = jworker /\ wstatus' = wstatus
    BY <1>5 DEF WorkerStep, WorkerReceive, WorkerRender, WorkerReply, job
  <2>2. \A k \in Jobs : WillFree(k) => WillFree(k)'
    BY <1>0, <1>5 DEF WorkerStep, WorkerReceive, WorkerRender, WorkerReply
  <2> QED
    BY <2>1, <2>2, FreersAreKept
<1>6. ASSUME NEW j \in Jobs, CallbackStep(j) PROVE BusyInv'
  <2>1. jworker' = jworker
    BY <1>6 DEF CallbackStep, CallbackLookup, CallbackLand, CallbackShow, CallbackLink,
       CallbackComplete, CallbackIdle, job
  <2>2. \A v \in Workers : wstatus'[v] = "BUSY" => wstatus[v] = "BUSY"
    BY <1>0, <1>6 DEF CallbackStep, CallbackLookup, CallbackLand, CallbackShow,
       CallbackLink, CallbackComplete, CallbackIdle
  <2>3. \A k \in Jobs : WillFree(k) /\ jworker[k] \in Workers =>
            WillFree(k)' \/ wstatus'[jworker[k]] # "BUSY"
    <3>1. CASE CallbackIdle(j)
      BY <1>0, <3>1 DEF CallbackIdle
    <3>2. CASE ~CallbackIdle(j)
      BY <1>0, <1>6, <3>2 DEF CallbackStep, CallbackLookup, CallbackLand,
         CallbackShow, CallbackLink, CallbackComplete
    <3> QED
      BY <3>1, <3>2
  <2> QED
    BY <2>1, <2>2, <2>3, FreersAreKept
<1>7. ASSUME NEW j \in Jobs, FaultStep(j) PROVE BusyInv'
  <2>1. jworker' = jworker /\ wstatus' = wstatus
    BY <1>7 DEF FaultStep, CallSevered, WorkerFail, WorkerNotifyLost, job
  <2>2. \A k \in Jobs : WillFree(k) => WillFree(k)'
    <3>1. CASE CallSevered(j)
      BY <1>0, <3>1 DEF CallSevered
    <3>2. CASE WorkerFail(j)
      BY <1>0, <3>2 DEF WorkerFail
    <3>3. CASE WorkerNotifyLost(j)
      BY <1>0, <3>3 DEF WorkerNotifyLost, Fault, EntryInv
    <3> QED
      BY <1>7, <3>1, <3>2, <3>3 DEF FaultStep
  <2> QED
    BY <2>1, <2>2, FreersAreKept
<1>8. CASE UNCHANGED vars
  BY <1>8, FreersAreKept DEF vars, job
<1> QED
  BY <1>1, <1>2, <1>3, <1>4, <1>5, <1>6, <1>7, <1>8 DEF Next

(* For any workers, jobs and failures: a BUSY worker has a job that will   *)
(* take it out of BUSY, or whose callback was lost.                        *)
THEOREM BusyWorkersHaveJobs == Spec => []BusyWorkerHasJob
<1>1. Init => TypeInv /\ EntryInv /\ BusyInv
  BY TypeInit, EntryInit, BusyInit
<1>2. /\ TypeInv /\ EntryInv /\ BusyInv
      /\ [Next]_vars
      => (TypeInv /\ EntryInv /\ BusyInv)'
  BY TypeNext, EntryNext, BusyNext
<1>3. BusyInv => BusyWorkerHasJob
  BY DEF BusyInv, BusyWorkerHasJob, WillFree, CallbackStage
<1> QED
  BY <1>1, <1>2, <1>3, PTL DEF Spec
-----------------------------------------------------------------------------
LEMMA OwnersInit == Init => OneOwnerPerFrame
BY DEF Init, OneOwnerPerFrame, Owns, Queued

(* What a step may do to the owners: no frame appears in the queue, and    *)
(* whoever owns a frame owned it before.                                   *)
LEMMA OwnersAreKept ==
    ASSUME TypeInv, OneOwnerPerFrame, queue' = queue, jframe' = jframe,
           \A k \in Jobs : Owns(k)' => Owns(k)
    PROVE  OneOwnerPerFrame'
BY DEF OneOwnerPerFrame, Queued

(* A new render's frames are with nobody, and are queued once each.        *)
LEMMA SubmitKeepsOwners ==
    ASSUME TypeInv, KnownFramesAreSubmitted, OneOwnerPerFrame,
           NEW r \in Renders, Submit(r)
    PROVE  OneOwnerPerFrame'
<1>1. UNCHANGED <<jframe, call>> /\ status[r] = "NONE"
  BY DEF Submit, job
<1>2. CASE NumFrames[r] <= 0
  BY <1>1, <1>2, OwnersAreKept DEF Submit, AddJob, Owns
<1>3. CASE ~(NumFrames[r] <= 0)
  <2> DEFINE frames == [k \in 1 .. NumFrames[r] |-> <<r, k - 1>>]
  <2>1. queue' = queue \o frames
    BY <1>3 DEF Submit, AddJob
  <2>2. \A f : Queued(f)' <=> Queued(f) \/ \E i \in Frames(r) : f = <<r, i>>
    BY <2>1, QueuedAfterSubmit DEF TypeInv
  <2>3. \A i \in Frames(r) : <<r, i>> \in FrameJobs /\ ~Queued(<<r, i>>)
    <3>1. \A i \in Frames(r) : <<r, i>> \in FrameJobs
      BY FramesAssumption DEF Frames, FrameJobs
    <3> QED
      BY <1>1, <3>1 DEF KnownFramesAreSubmitted
  <2>4. \A j \in Jobs : Owns(j)' <=> Owns(j)
    BY <1>1 DEF Owns
  <2>5. ASSUME NEW j \in Jobs, Owns(j)
        PROVE  ~Queued(jframe[j])'
    <3>1. call[j] # "none"
      BY <2>5 DEF Owns
    <3>2. jframe[j][1] # r
      BY <1>1, <3>1 DEF KnownFramesAreSubmitted, RenderOf
    <3> QED
      BY <1>1, <2>2, <2>5, <3>2 DEF OneOwnerPerFrame
  <2>6. /\ queue \in Seq(FrameJobs) /\ frames \in Seq(FrameJobs)
        /\ Len(frames) = NumFrames[r] /\ NumFrames[r] \in Nat
    BY SubmittedFrames, FramesAssumption, LenProperties DEF TypeInv, TypeOK
  <2>7. \A k \in 1 .. NumFrames[r] : frames[k] = <<r, k - 1>>
    OBVIOUS
  <2> HIDE DEF frames
  <2>8. /\ queue \o frames \in Seq(FrameJobs)
        /\ Len(queue \o frames) = Len(queue) + Len(frames)
        /\ \A k \in 1 .. Len(queue) + Len(frames) :
              (queue \o frames)[k] =
                  IF k <= Len(queue) THEN queue[k] ELSE frames[k - Len(queue)]
    BY <2>6, ConcatProperties, Zenon
  <2>9. DOMAIN queue = 1 .. Len(queue) /\ Len(queue) \in Nat
        /\ DOMAIN queue' = 1 .. Len(queue) + NumFrames[r]
    BY <2>1, <2>6, <2>8, LenProperties
  <2>10. ASSUME NEW k \in DOMAIN queue', NEW m \in DOMAIN queue', queue'[k] = queue'[m]
         PROVE  k = m
    <3>1. \A n \in DOMAIN queue' :
              \/ n \in DOMAIN queue /\ queue'[n] = queue[n]
              \/ n - Len(queue) \in 1 .. NumFrames[r]
                 /\ queue'[n] = <<r, n - Len(queue) - 1>>
      <4> SUFFICES ASSUME NEW n \in DOMAIN queue'
                   PROVE  \/ n \in DOMAIN queue /\ queue'[n] = queue[n]
                          \/ n - Len(queue) \in 1 .. NumFrames[r]
                             /\ queue'[n] = <<r, n - Len(queue) - 1>>
        OBVIOUS
      <4>1. queue'[n] = IF n <= Len(queue) THEN queue[n] ELSE frames[n - Len(queue)]
        BY <2>1, <2>6, <2>8, <2>9
      <4>2. CASE n <= Len(queue)
        BY <2>9, <4>1, <4>2
      <4>3. CASE ~(n <= Len(queue))
        <5>1. n - Len(queue) \in 1 .. NumFrames[r]
          BY <2>6, <2>9, <4>3
        <5> QED
          BY <2>7, <4>1, <4>3, <5>1
      <4> QED
        BY <4>2, <4>3
    <3>2. \A n \in DOMAIN queue, i \in 1 .. NumFrames[r] : queue[n] # <<r, i - 1>>
      <4>1. \A i \in 1 .. NumFrames[r] : i - 1 \in Frames(r)
        BY <2>6 DEF Frames
      <4> QED
        BY <2>3, <4>1 DEF Queued
    <3>3. k \in Int /\ m \in Int
      BY <2>6, <2>9
    <3>4. CASE k \in DOMAIN queue /\ queue'[k] = queue[k]
      <4>1. CASE m \in DOMAIN queue /\ queue'[m] = queue[m]
        BY <2>10, <3>4, <4>1 DEF OneOwnerPerFrame
      <4>2. CASE m - Len(queue) \in 1 .. NumFrames[r]
                 /\ queue'[m] = <<r, m - Len(queue) - 1>>
        <5>1. queue[k] # <<r, (m - Len(queue)) - 1>>
          BY <3>2, <3>4, <4>2
        <5> QED
          BY <2>10, <3>4, <4>2, <5>1
      <4> QED
        BY <3>1, <4>1, <4>2
    <3>5. CASE k - Len(queue) \in 1 .. NumFrames[r]
               /\ queue'[k] = <<r, k - Len(queue) - 1>>
      <4>1. CASE m \in DOMAIN queue /\ queue'[m] = queue[m]
        <5>1. queue[m] # <<r, (k - Len(queue)) - 1>>
          BY <3>2, <3>5, <4>1
        <5> QED
          BY <2>10, <3>5, <4>1, <5>1
      <4>2. CASE m - Len(queue) \in 1 .. NumFrames[r]
                 /\ queue'[m] = <<r, m - Len(queue) - 1>>
        <5>0. <<r, k - Len(queue) - 1>> = <<r, m - Len(queue) - 1>>
          BY <2>10, <3>5, <4>2, Zenon
        <5>1. k - Len(queue) - 1 = m - Len(queue) - 1
          BY <5>0
        <5> QED
          BY <2>9, <3>3, <5>1
      <4> QED
        BY <3>1, <4>1, <4>2
    <3> QED
      BY <3>1, <3>4, <3>5
  <2> QED
    BY <1>1, <2>4, <2>5, <2>10 DEF OneOwnerPerFrame
<1> QED
  BY <1>2, <1>3

(* The head of the queue is there once: with the pop it is the job's.      *)
LEMMA AssignKeepsOwners ==
    ASSUME TypeInv, OneOwnerPerFrame, NEW w \in Workers, AssignFrame(w)
    PROVE  OneOwnerPerFrame'
<1>1. PICK j \in Jobs : j = FreshJob /\ call[j] = "none"
  BY FreshJobIsFresh DEF AssignFrame
<1>2. /\ queue # << >> /\ queue' = Tail(queue)
      /\ jframe' = [jframe EXCEPT ![j] = Head(queue)]
      /\ call' = [call EXCEPT ![j] = "inflight"]
  BY <1>1 DEF AssignFrame
<1>3. /\ queue \in Seq(FrameJobs) /\ jframe \in [Jobs -> FrameJobs \cup {NoFrame}]
      /\ call \in [Jobs -> CallState]
  BY DEF TypeInv, TypeOK
<1>4. /\ DOMAIN queue = 1 .. Len(queue) /\ Len(queue) \in Nat \ {0}
      /\ DOMAIN queue' = 1 .. Len(queue) - 1
      /\ \A k \in 1 .. Len(queue) - 1 : queue'[k] = queue[k + 1]
      /\ Head(queue) = queue[1]
  BY <1>2, <1>3
<1>5. Queued(Head(queue))
  <2>1. 1 \in DOMAIN queue /\ queue[1] = Head(queue)
    BY <1>4
  <2> QED
    BY <2>1 DEF Queued
<1>6. ASSUME NEW k \in DOMAIN queue' PROVE queue'[k] # Head(queue)
  BY <1>4 DEF OneOwnerPerFrame
<1>7. ASSUME NEW k \in DOMAIN queue', NEW m \in DOMAIN queue', queue'[k] = queue'[m]
      PROVE  k = m
  <2>1. k + 1 \in DOMAIN queue /\ m + 1 \in DOMAIN queue /\ k \in Int /\ m \in Int
        /\ queue[k + 1] = queue[m + 1]
    BY <1>4, <1>7
  <2>2. k + 1 = m + 1
    BY <2>1 DEF OneOwnerPerFrame
  <2> QED
    BY <2>1, <2>2
<1>8. \A k \in Jobs : k # j => jframe'[k] = jframe[k] /\ (Owns(k)' <=> Owns(k))
  BY <1>2, <1>3 DEF Owns
<1>9. jframe'[j] = Head(queue)
  BY <1>2, <1>3
<1>10. \A f : Queued(f)' => Queued(f) /\ f # Head(queue)
  BY <1>2, <1>6, QueuedAfterPop DEF TypeInv, Queued
<1>11. \A k \in Jobs : Owns(k)' => ~Queued(jframe[k])'
  BY <1>8, <1>9, <1>10 DEF OneOwnerPerFrame
<1>12. \A k, m \in Jobs : Owns(k)' /\ Owns(m)' /\ jframe'[k] = jframe'[m] => k = m
  BY <1>5, <1>8, <1>9 DEF OneOwnerPerFrame
<1> QED
  BY <1>7, <1>11, <1>12 DEF OneOwnerPerFrame

(* The rejection path gives up the frame with the push.                    *)
LEMMA RequeueKeepsOwners ==
    ASSUME TypeInv, OneOwnerPerFrame, NEW j \in Jobs, CallRequeue(j)
    PROVE  OneOwnerPerFrame'
<1>1. /\ Owns(j) /\ jframe[j] \in FrameJobs
      /\ queue' = Append(queue, jframe[j])
      /\ call' = [call EXCEPT ![j] = "requeued"]
      /\ jframe' = jframe
  BY DEF CallRequeue, Owns, TypeInv, JobsKnown, job
<1>2. queue \in Seq(FrameJobs) /\ call \in [Jobs -> CallState]
  BY DEF TypeInv, TypeOK
<1>3. /\ DOMAIN queue = 1 .. Len(queue) /\ Len(queue) \in Nat
      /\ DOMAIN queue' = 1 .. Len(queue) + 1
      /\ \A k \in 1 .. Len(queue) : queue'[k] = queue[k]
      /\ queue'[Len(queue) + 1] = jframe[j]
  BY <1>1, <1>2
<1>4. \A k \in DOMAIN queue : queue[k] # jframe[j]
  BY <1>1 DEF OneOwnerPerFrame, Queued
<1>5. ASSUME NEW k \in DOMAIN queue', NEW m \in DOMAIN queue', queue'[k] = queue'[m]
      PROVE  k = m
  <2>1. \A n \in DOMAIN queue' : n \in DOMAIN queue \/ n = Len(queue) + 1
    BY <1>3
  <2>2. \A n \in DOMAIN queue : queue'[n] = queue[n]
    BY <1>3
  <2> QED
    BY <1>3, <1>4, <1>5, <2>1, <2>2 DEF OneOwnerPerFrame
<1>6. \A f : Queued(f)' <=> Queued(f) \/ f = jframe[j]
  BY <1>1, QueuedAfterPush DEF TypeInv
<1>7. ~Owns(j)' /\ \A k \in Jobs : k # j => (Owns(k)' <=> Owns(k))
  BY <1>1, <1>2 DEF Owns
<1>8. \A k \in Jobs : Owns(k)' => ~Queued(jframe[k])'
  BY <1>1, <1>6, <1>7 DEF OneOwnerPerFrame
<1>9. \A k, m \in Jobs : Owns(k)' /\ Owns(m)' /\ jframe'[k] = jframe'[m] => k = m
  BY <1>1, <1>7 DEF OneOwnerPerFrame
<1> QED
  BY <1>5, <1>8, <1>9 DEF OneOwnerPerFrame

LEMMA OwnersNext ==
    TypeInv /\ BookInv /\ OneOwnerPerFrame /\ [Next]_vars => OneOwnerPerFrame'
<1> SUFFICES ASSUME TypeInv, BookInv, OneOwnerPerFrame, [Next]_vars
             PROVE  OneOwnerPerFrame'
  OBVIOUS
<1>0. KnownFramesAreSubmitted /\ call \in [Jobs -> CallState]
  BY DEF BookInv, TypeInv, TypeOK
<1>1. ASSUME NEW r \in Renders, Submit(r) PROVE OneOwnerPerFrame'
  BY <1>0, <1>1, SubmitKeepsOwners
<1>2. ASSUME NEW w \in Workers, AssignFrame(w) PROVE OneOwnerPerFrame'
  BY <1>2, AssignKeepsOwners
<1>3. ASSUME NEW w \in Workers, ProcessStep(w) PROVE OneOwnerPerFrame'
  <2>1. queue' = queue /\ jframe' = jframe
    BY <1>3 DEF ProcessStep, Establish, StartServing, Disconnect, ShutdownServer, Exit,
       Crash, job
  <2>2. \A k \in Jobs : Owns(k)' => Owns(k)
    BY <1>0, <1>3 DEF ProcessStep, Establish, StartServing, Disconnect, ShutdownServer,
       Exit, Crash, Owns
  <2> QED
    BY <2>1, <2>2, OwnersAreKept
<1>4. ASSUME NEW j \in Jobs, CallStep(j) PROVE OneOwnerPerFrame'
  <2>1. CASE CallRequeue(j)
    BY <2>1, RequeueKeepsOwners
  <2>2. CASE CallRefused(j) \/ CallErase(j) \/ CallOffline(j)
    <3>1. queue' = queue /\ jframe' = jframe
      BY <2>2 DEF CallRefused, CallErase, CallOffline, job
    <3>2. \A k \in Jobs : Owns(k)' => Owns(k)
      BY <1>0, <2>2 DEF CallRefused, CallErase, CallOffline, Owns
    <3> QED
      BY <3>1, <3>2, OwnersAreKept
  <2> QED
    BY <1>4, <2>1, <2>2 DEF CallStep
<1>5. ASSUME NEW j \in Jobs, WorkerStep(j) \/ FaultStep(j) PROVE OneOwnerPerFrame'
  <2>1. queue' = queue /\ jframe' = jframe
    BY <1>5 DEF WorkerStep, WorkerReceive, WorkerRender, WorkerReply, FaultStep,
       CallSevered, WorkerFail, WorkerNotifyLost, job
  <2>2. \A k \in Jobs : Owns(k)' => Owns(k)
    BY <1>0, <1>5 DEF WorkerStep, WorkerReceive, WorkerRender, WorkerReply, FaultStep,
       CallSevered, WorkerFail, WorkerNotifyLost, Owns
  <2> QED
    BY <2>1, <2>2, OwnersAreKept
<1>6. ASSUME NEW j \in Jobs, CallbackStep(j) PROVE OneOwnerPerFrame'
  <2>1. UNCHANGED <<queue, jframe, call>>
    BY <1>6 DEF CallbackStep, CallbackLookup, CallbackLand, CallbackShow, CallbackLink,
       CallbackComplete, CallbackIdle, job
  <2>2. \A k \in Jobs : Owns(k)' => Owns(k)
    BY <2>1 DEF Owns
  <2> QED
    BY <2>1, <2>2, OwnersAreKept
<1>7. CASE UNCHANGED vars
  BY <1>7, OwnersAreKept DEF vars, job, Owns
<1> QED
  BY <1>1, <1>2, <1>3, <1>4, <1>5, <1>6, <1>7 DEF Next

(* For any renders, workers, jobs and failures: a frame is never twice in  *)
(* the queue, nor there while a dispatch thread has it, nor with two       *)
(* dispatch threads (assignJobs and the rejection path).                   *)
THEOREM FramesHaveOneOwner == Spec => []OneOwnerPerFrame
<1>1. Init => TypeInv /\ BookInv /\ OneOwnerPerFrame
  BY TypeInit, BookInit, OwnersInit
<1>2. /\ TypeInv /\ BookInv /\ OneOwnerPerFrame
      /\ [Next]_vars
      => (TypeInv /\ BookInv /\ OneOwnerPerFrame)'
  BY TypeNext, BookNext, OwnersNext
<1> QED
  BY <1>1, <1>2, PTL DEF Spec

-----------------------------------------------------------------------------
(* Processes and connections stay up.                                      *)
Calm == Faults \cap {"sever", "crash", "leave"} = {}

Working(j) == stage[j] \in {"sent", "rendering"} \cup CallbackStage

(* A worker that never started has no job; an IDLE one has none it works   *)
(* on: OFFLINE is never left but by a callback, the only way to IDLE.      *)
CalmInv ==
    /\ \A w \in Workers : proc[w] = "down" =>
            \A j \in Jobs : stage[j] # "none" => jworker[j] # w
    /\ \A w \in Workers : proc[w] = "down" => wstatus[w] = "UNKNOWN"
    /\ \A w \in Workers : proc[w] \in {"down", "starting", "serving"}
    /\ \A j \in Jobs : Working(j) => wstatus[jworker[j]] # "IDLE"
    /\ \A j, k \in Jobs : Working(j) /\ Working(k) /\ jworker[j] = jworker[k] => j = k

LEMMA CalmInit == Init => CalmInv
BY DEF Init, CalmInv, Working, CallbackStage

LEMMA CalmNext == Calm /\ TypeInv /\ CalmInv /\ [Next]_vars => CalmInv'
<1> SUFFICES ASSUME Calm, TypeInv, CalmInv, [Next]_vars PROVE CalmInv'
  OBVIOUS
<1>0. /\ stage \in [Jobs -> Stage] /\ wstatus \in [Workers -> WorkerStatus]
      /\ proc \in [Workers -> ProcState]
      /\ jworker \in [Jobs -> Workers \cup {NoWorker}]
      /\ \A j \in Jobs : stage[j] # "none" => jworker[j] \in Workers
      /\ \A j \in Jobs : call[j] = "none" <=> stage[j] = "none"
  BY DEF TypeInv, TypeOK, JobsKnown
<1> USE DEF Working, CallbackStage
<1>1. ASSUME NEW r \in Renders, Submit(r) PROVE CalmInv'
  BY <1>1 DEF Submit, CalmInv, job, world
<1>2. ASSUME NEW w \in Workers, AssignFrame(w) PROVE CalmInv'
  <2>1. PICK j \in Jobs : j = FreshJob /\ call[j] = "none"
    BY <1>2, FreshJobIsFresh DEF AssignFrame
  <2>2. /\ stage' = [stage EXCEPT ![j] = "sent"]
        /\ jworker' = [jworker EXCEPT ![j] = w]
        /\ wstatus' = [wstatus EXCEPT ![w] = "BUSY"]
        /\ wstatus[w] = "IDLE" /\ proc' = proc
    BY <1>2, <2>1 DEF AssignFrame, world
  <2>3. \A k \in Jobs : k # j => /\ jworker'[k] = jworker[k] /\ stage'[k] = stage[k]
                                 /\ Working(k) => jworker[k] # w
    BY <1>0, <2>2 DEF CalmInv
  <2>4. jworker'[j] = w /\ proc[w] # "down"
    BY <1>0, <2>2 DEF CalmInv
  <2> QED
    BY <1>0, <2>2, <2>3, <2>4 DEF CalmInv
<1>3. ASSUME NEW w \in Workers, ProcessStep(w) PROVE CalmInv'
  <2>1. CASE Establish(w)
    BY <1>0, <2>1 DEF Establish, CalmInv, job
  <2>2. CASE StartServing(w)
    BY <1>0, <2>2 DEF StartServing, CalmInv, job
  <2>3. ~(Disconnect(w) \/ Crash(w) \/ ShutdownServer(w) \/ Exit(w))
    BY DEF Disconnect, Crash, ShutdownServer, Exit, Fault, Calm, CalmInv
  <2> QED
    BY <1>3, <2>1, <2>2, <2>3 DEF ProcessStep
<1>4. ASSUME NEW j \in Jobs, CallStep(j) PROVE CalmInv'
  <2>1. CASE CallOffline(j)
    <3>1. stage[j] # "none" /\ jworker[j] \in Workers /\ proc[jworker[j]] # "down"
      BY <1>0, <2>1 DEF CallOffline, CalmInv
    <3> QED
      BY <1>0, <2>1, <3>1 DEF CallOffline, CalmInv, job, world
  <2>2. CASE CallRefused(j) \/ CallErase(j) \/ CallRequeue(j)
    BY <1>0, <2>2 DEF CallRefused, CallErase, CallRequeue, CalmInv, job, world
  <2> QED
    BY <1>4, <2>1, <2>2 DEF CallStep
<1>5. ASSUME NEW j \in Jobs, WorkerStep(j) PROVE CalmInv'
  BY <1>0, <1>5 DEF WorkerStep, WorkerReceive, WorkerRender, WorkerReply, CalmInv, job,
     world
<1>6. ASSUME NEW j \in Jobs, CallbackStep(j) PROVE CalmInv'
  <2>1. CASE CallbackIdle(j)
    BY <1>0, <2>1 DEF CallbackIdle, CalmInv, job, world
  <2>2. CASE ~CallbackIdle(j)
    <3>1. UNCHANGED <<jworker, proc, wstatus>>
      BY <1>6, <2>2 DEF CallbackStep, CallbackLookup, CallbackLand, CallbackShow,
         CallbackLink, CallbackComplete, job, world
    <3>2. \A k \in Jobs : /\ Working(k)' => Working(k)
                          /\ stage'[k] # "none" => stage[k] # "none"
      BY <1>0, <1>6, <2>2 DEF CallbackStep, CallbackLookup, CallbackLand,
         CallbackShow, CallbackLink, CallbackComplete
    <3> QED
      BY <3>1, <3>2 DEF CalmInv
  <2> QED
    BY <2>1, <2>2
<1>7. ASSUME NEW j \in Jobs, FaultStep(j) PROVE CalmInv'
  BY <1>0, <1>7 DEF FaultStep, CallSevered, WorkerFail, WorkerNotifyLost, Fault, Calm,
     CalmInv, job
<1>8. CASE UNCHANGED vars
  BY <1>8 DEF vars, CalmInv, job, world
<1> QED
  BY <1>1, <1>2, <1>3, <1>4, <1>5, <1>6, <1>7, <1>8 DEF Next

(* While processes and connections stay up, a worker works on one frame at *)
(* a time, whatever renders throw and callbacks are lost.                  *)
THEOREM WorkersRenderOneFrame == ASSUME Calm PROVE Spec => []OneFramePerWorker
<1>1. Init => TypeInv /\ CalmInv
  BY TypeInit, CalmInit
<1>2. TypeInv /\ CalmInv /\ [Next]_vars => (TypeInv /\ CalmInv)'
  BY TypeNext, CalmNext
<1>3. CalmInv => OneFramePerWorker
  BY DEF CalmInv, OneFramePerWorker, Working, CallbackStage
<1> QED
  BY <1>1, <1>2, <1>3, PTL DEF Spec
=============================================================================
