-------------------------- MODULE PathTracerProofs --------------------------
(***************************************************************************)
(* Proofs about PathTracer.  Its program is a constant of forty-two steps: *)
(* what a step needs, makes and drops is read off its text once, as lemmas *)
(* about Program and Declared, and the invariants follow from those and    *)
(* from one fact of a run: as long as it runs, exactly the objects its     *)
(* earlier steps have made and not dropped are live.                       *)
(***************************************************************************)
EXTENDS PathTracer, TileSubdivisionProofs, WellFoundedInduction

(* The steps of a frame, spelled out.                                      *)
LEMMA ProgramSteps ==
    /\ Len(Program) = 42
    /\ Program[1] = Make("instance", {})
    /\ Program[2] = Step("select", {"physicalDevice"}, {"instance"}, Layouts,
                         "same")
    /\ Program[3] = Make("device", {"physicalDevice"})
    /\ Program[4] = Make("queue", {"device"})
    /\ Program[5] = Make("commandPool", {"device"})
    /\ Program[6] = Make("allocator", {"physicalDevice", "device", "instance"})
    /\ Program[7] = Host({})
    /\ Program[8] = Make("vertexBuffer", {"allocator"})
    /\ Program[9] = Make("indexBuffer", {"allocator"})
    /\ Program[10] = Make("materialBuffer", {"allocator"})
    /\ Program[11] = Make("materialIndexBuffer", {"allocator"})
    /\ Program[12] = Make("outputImage", {"allocator"})
    /\ Program[13] = Make("outputImageView", {"device", "outputImage"})
    /\ Program[14] = Transition({"outputImage"}, "undefined", "general")
    /\ Program[15] = Make("blasBuffer", {"allocator"})
    /\ Program[16] = Make("blas", {"device", "blasBuffer"})
    /\ Program[17] = Make("scratchBuffer", {"allocator"})
    /\ Program[18] = Commands({"blas", "scratchBuffer", "vertexBuffer",
                               "indexBuffer"})
    /\ Program[19] = Make("instanceBuffer", {"allocator", "blas"})
    /\ Program[20] = Make("tlasBuffer", {"allocator"})
    /\ Program[21] = Make("tlas", {"device", "tlasBuffer"})
    /\ Program[22] = Make("tlasScratchBuffer", {"allocator"})
    /\ Program[23] = Commands({"tlas", "tlasScratchBuffer", "instanceBuffer",
                               "blas"})
    /\ Program[24] = Leave({"scratchBuffer", "tlasScratchBuffer"})
    /\ Program[25] = Host({})
    /\ Program[26] = Make("raygenModule", {"device"})
    /\ Program[27] = Make("missModule", {"device"})
    /\ Program[28] = Make("chitModule", {"device"})
    /\ Program[29] = Make("descriptorSetLayout", {"device"})
    /\ Program[30] = Make("pipelineLayout", {"device", "descriptorSetLayout"})
    /\ Program[31] = Make("pipeline", {"device", "pipelineLayout",
                          "raygenModule", "missModule", "chitModule"})
    /\ Program[32] = Leave({"raygenModule", "missModule", "chitModule"})
    /\ Program[33] = Host({"pipeline"})
    /\ Program[34] = Make("sbtBuffer", {"allocator"})
    /\ Program[35] = Make("descriptorPool", {"device"})
    /\ Program[36] = Make("descriptorSet", {"descriptorPool",
                          "descriptorSetLayout", "tlas", "outputImageView",
                          "vertexBuffer", "indexBuffer", "materialBuffer",
                          "materialIndexBuffer"})
    /\ Program[37] = TraceRays
    /\ Program[38] = Make("stagingBuffer", {"allocator"})
    /\ Program[39] = Transition({"outputImage", "stagingBuffer"}, "general",
                                "transferSrc")
    /\ Program[40] = Step("write", {}, {"stagingBuffer"}, Layouts, "same")
    /\ Program[41] = Leave({"stagingBuffer"})
    /\ Program[42] = Host({"device"})
BY DEF Program, VulkanContext, CreateInstance, CreateLogicalDevice,
       CreateCommandPool, CreateAllocator, Scene, SceneMembers,
       PathTracerConstructor, CreateOutputImage, CreateAccelerationStructures,
       CreateRayTracingPipeline, CreateShaderBindingTable, CreateDescriptorSets,
       SaveImage

(* The objects in the order of their construction, spelled out.            *)
LEMMA DeclaredObjects ==
    /\ Len(Declared) = 29
    /\ Declared[1] = "instance" /\ Declared[2] = "physicalDevice"
    /\ Declared[3] = "device" /\ Declared[4] = "queue"
    /\ Declared[5] = "commandPool" /\ Declared[6] = "allocator"
    /\ Declared[7] = "vertexBuffer" /\ Declared[8] = "indexBuffer"
    /\ Declared[9] = "materialBuffer" /\ Declared[10] = "materialIndexBuffer"
    /\ Declared[11] = "outputImage" /\ Declared[12] = "outputImageView"
    /\ Declared[13] = "blasBuffer" /\ Declared[14] = "blas"
    /\ Declared[15] = "tlasBuffer" /\ Declared[16] = "tlas"
    /\ Declared[17] = "instanceBuffer" /\ Declared[18] = "pipelineLayout"
    /\ Declared[19] = "pipeline" /\ Declared[20] = "descriptorSetLayout"
    /\ Declared[21] = "descriptorPool" /\ Declared[22] = "descriptorSet"
    /\ Declared[23] = "sbtBuffer" /\ Declared[24] = "scratchBuffer"
    /\ Declared[25] = "tlasScratchBuffer" /\ Declared[26] = "raygenModule"
    /\ Declared[27] = "missModule" /\ Declared[28] = "chitModule"
    /\ Declared[29] = "stagingBuffer"
BY DEF Declared, ContextMembers, SceneMembers, TracerMembers, Locals

LEMMA ObjectsAre ==
    /\ Objects = {"instance", "physicalDevice", "device", "queue",
         "commandPool", "allocator", "vertexBuffer", "indexBuffer",
         "materialBuffer", "materialIndexBuffer", "outputImage",
         "outputImageView", "blasBuffer", "blas", "tlasBuffer", "tlas",
         "instanceBuffer", "pipelineLayout", "pipeline",
         "descriptorSetLayout", "descriptorPool", "descriptorSet",
         "sbtBuffer", "scratchBuffer", "tlasScratchBuffer", "raygenModule",
         "missModule", "chitModule", "stagingBuffer"}
    /\ DOMAIN Declared = 1 .. 29
<1>1. DOMAIN Declared = 1 .. 29
  BY DEF Declared, ContextMembers, SceneMembers, TracerMembers, Locals
<1>2. QED
  BY <1>1, DeclaredObjects DEF Objects

(* Cases over the steps, and over the objects, by their numbers.           *)
StepNumbers ==
    {1, 2, 3, 4, 5, 6, 7, 8, 9, 10, 11, 12, 13, 14, 15, 16, 17, 18, 19, 20, 21,
     22, 23, 24, 25, 26, 27, 28, 29, 30, 31, 32, 33, 34, 35, 36, 37, 38, 39, 40,
     41, 42}

ObjectNumbers ==
    {1, 2, 3, 4, 5, 6, 7, 8, 9, 10, 11, 12, 13, 14, 15, 16, 17, 18, 19, 20, 21,
     22, 23, 24, 25, 26, 27, 28, 29}

LEMMA Numbers == 1 .. 42 = StepNumbers /\ 1 .. 29 = ObjectNumbers
BY DEF StepNumbers, ObjectNumbers

LocalObjects == {"scratchBuffer", "tlasScratchBuffer", "raygenModule",
                 "missModule", "chitModule", "stagingBuffer"}

(* What makes a step stand out from the others.                            *)
LEMMA StepKinds ==
    ASSUME NEW k \in 1 .. 42
    PROVE  /\ Program[k].op \in {"make", "select", "commands", "host", "trace",
                                 "write", "leave"}
           /\ Program[k].op = "trace" <=> k = 37
           /\ Program[k].op = "write" <=> k = 40
           /\ Program[k].op = "select" <=> k = 2
           /\ Program[k].op = "leave" <=> k \in {24, 32, 41}
BY Numbers, ProgramSteps
   DEF StepNumbers, Step, Make, Host, Commands, Transition, Leave, TraceRays

(* Only "make" and "select" make objects, the allocator is the sixth, and  *)
(* what goes before the end is local to a function.                        *)
LEMMA StepObjects ==
    ASSUME NEW k \in 1 .. 42
    PROVE  /\ Program[k].objs \subseteq Objects
           /\ Program[k].to \in Layouts \cup {"same"}
           /\ Program[k].op \in {"commands", "host", "trace", "write"} =>
                Program[k].objs = {}
           /\ "allocator" \in Program[k].objs => k = 6
           /\ Program[k].op = "leave" => Program[k].objs \subseteq LocalObjects
BY Numbers, ProgramSteps, ObjectsAre
   DEF StepNumbers, Step, Make, Host, Commands, Transition, Leave, TraceRays,
       Layouts, LocalObjects

(* The layout of the output image before a step.                           *)
LayoutBefore(k) == IF k <= 14 THEN "undefined"
                   ELSE IF k <= 39 THEN "general" ELSE "transferSrc"

(* Every command finds the image in the layout it states.                  *)
LEMMA StepLayouts ==
    ASSUME NEW k \in 1 .. 42
    PROVE  /\ LayoutBefore(k) \in Program[k].from
           /\ Program[k].op = "commands" =>
                LayoutBefore(k + 1) = IF Program[k].to = "same"
                                      THEN LayoutBefore(k) ELSE Program[k].to
           /\ Program[k].op # "commands" =>
                LayoutBefore(k + 1) = LayoutBefore(k)
BY Numbers, ProgramSteps
   DEF StepNumbers, Step, Make, Host, Commands, Transition, Leave, TraceRays,
       Layouts, LayoutBefore

(* What an object needs is declared before it.                             *)
LEMMA NeedsAreDeclaredBefore ==
    ASSUME NEW i \in 1 .. 29, NEW m \in 1 .. 29,
           Declared[i] \in Needs(Declared[m])
    PROVE  i < m
<1>1. Declared[i] \in {"instance", "physicalDevice", "device", "allocator",
                       "outputImage", "blasBuffer", "tlasBuffer",
                       "descriptorPool"}
  BY DEF Needs, Buffers
<1>2. i \in {1, 2, 3, 6, 11, 13, 15, 21}
  BY <1>1, Numbers, DeclaredObjects DEF ObjectNumbers
<1>3. QED
  BY <1>1, <1>2, Numbers, DeclaredObjects DEF ObjectNumbers, Needs, Buffers

LEMMA NeedsAreNoLocals ==
    ASSUME NEW o \in Objects
    PROVE  Needs(o) \subseteq Objects \ LocalObjects
BY ObjectsAre DEF Needs, Buffers, LocalObjects

-----------------------------------------------------------------------------
(* Which objects are live while the program runs.                          *)

Makes(k, o) == Program[k].op \in {"make", "select"} /\ o \in Program[k].objs
Drops(k, o) == Program[k].op = "leave" /\ o \in Program[k].objs

MadeBefore(k) ==
    {o \in Objects : \E j \in 1 .. k - 1 :
        Makes(j, o) /\ \A i \in j + 1 .. k - 1 : ~ Drops(i, o)}

(* A step adds what it makes and takes away what it drops.                 *)
LEMMA MadeAfterStep ==
    ASSUME NEW k \in 1 .. 42
    PROVE  /\ Program[k].op \in {"make", "select"} =>
                MadeBefore(k + 1) = MadeBefore(k) \cup Program[k].objs
           /\ Program[k].op = "leave" =>
                MadeBefore(k + 1) = MadeBefore(k) \ Program[k].objs
           /\ Program[k].op \in {"commands", "host", "trace", "write"} =>
                MadeBefore(k + 1) = MadeBefore(k)
<1> DEFINE Stays(j, o, n) == \A i \in j + 1 .. n : ~ Drops(i, o)
<1>1. ASSUME NEW o \in Objects
      PROVE  o \in MadeBefore(k + 1) <=>
                (o \in MadeBefore(k) /\ ~ Drops(k, o)) \/ Makes(k, o)
  <2>1. ASSUME NEW j \in 1 .. k - 1
        PROVE  Stays(j, o, k) <=> Stays(j, o, k - 1) /\ ~ Drops(k, o)
    OBVIOUS
  <2>2. Stays(k, o, k)
    OBVIOUS
  <2>3. 1 .. k = 1 .. k - 1 \cup {k} /\ (k + 1) - 1 = k
    OBVIOUS
  <2>4. o \in MadeBefore(k + 1) <=>
            \E j \in 1 .. k : Makes(j, o) /\ Stays(j, o, k)
    BY <2>3 DEF MadeBefore
  <2>5. o \in MadeBefore(k) <=>
            \E j \in 1 .. k - 1 : Makes(j, o) /\ Stays(j, o, k - 1)
    BY DEF MadeBefore
  <2> HIDE DEF Stays
  <2>6. QED
    BY <2>1, <2>2, <2>3, <2>4, <2>5
<1>2. MadeBefore(k) \subseteq Objects /\ MadeBefore(k + 1) \subseteq Objects
  BY DEF MadeBefore
<1>3. Program[k].objs \subseteq Objects
  BY StepObjects
<1>4. CASE Program[k].op \in {"make", "select"}
  BY <1>1, <1>2, <1>3, <1>4 DEF Makes, Drops
<1>5. CASE Program[k].op = "leave"
  BY <1>1, <1>2, <1>3, <1>5 DEF Makes, Drops
<1>6. CASE Program[k].op \in {"commands", "host", "trace", "write"}
  BY <1>1, <1>2, <1>3, <1>6 DEF Makes, Drops
<1>7. QED
  BY <1>4, <1>5, <1>6, StepKinds

(* An object is there from the step after the one that makes it; a local   *)
(* one until its function returns.                                         *)
LEMMA ObjectsStay ==
    ASSUME NEW k \in 1 .. 43, NEW j \in 1 .. k - 1, NEW o \in Objects,
           Makes(j, o),
           o \notin LocalObjects \/ \A i \in j + 1 .. k - 1 : i \notin {24, 32, 41}
    PROVE  o \in MadeBefore(k)
<1>1. ASSUME NEW i \in j + 1 .. k - 1
      PROVE  ~ Drops(i, o)
  <2>1. i \in 1 .. 42
    OBVIOUS
  <2>2. QED
    BY <2>1, StepKinds, StepObjects DEF Drops
<1>2. QED
  BY <1>1 DEF MadeBefore

LEMMA MadeObjects ==
    ASSUME NEW k \in 1 .. 42
    PROVE  /\ k > 1 => "instance" \in MadeBefore(k)
           /\ k > 2 => "physicalDevice" \in MadeBefore(k)
           /\ k > 3 => "device" \in MadeBefore(k)
           /\ k > 4 => "queue" \in MadeBefore(k)
           /\ k > 5 => "commandPool" \in MadeBefore(k)
           /\ k > 6 => "allocator" \in MadeBefore(k)
           /\ k > 8 => "vertexBuffer" \in MadeBefore(k)
           /\ k > 9 => "indexBuffer" \in MadeBefore(k)
           /\ k > 10 => "materialBuffer" \in MadeBefore(k)
           /\ k > 11 => "materialIndexBuffer" \in MadeBefore(k)
           /\ k > 12 => "outputImage" \in MadeBefore(k)
           /\ k > 13 => "outputImageView" \in MadeBefore(k)
           /\ k > 15 => "blasBuffer" \in MadeBefore(k)
           /\ k > 16 => "blas" \in MadeBefore(k)
           /\ k \in 18 .. 24 => "scratchBuffer" \in MadeBefore(k)
           /\ k > 19 => "instanceBuffer" \in MadeBefore(k)
           /\ k > 20 => "tlasBuffer" \in MadeBefore(k)
           /\ k > 21 => "tlas" \in MadeBefore(k)
           /\ k \in 23 .. 24 => "tlasScratchBuffer" \in MadeBefore(k)
           /\ k \in 27 .. 32 => "raygenModule" \in MadeBefore(k)
           /\ k \in 28 .. 32 => "missModule" \in MadeBefore(k)
           /\ k \in 29 .. 32 => "chitModule" \in MadeBefore(k)
           /\ k > 29 => "descriptorSetLayout" \in MadeBefore(k)
           /\ k > 30 => "pipelineLayout" \in MadeBefore(k)
           /\ k > 31 => "pipeline" \in MadeBefore(k)
           /\ k > 34 => "sbtBuffer" \in MadeBefore(k)
           /\ k > 35 => "descriptorPool" \in MadeBefore(k)
           /\ k > 36 => "descriptorSet" \in MadeBefore(k)
           /\ k \in 39 .. 41 => "stagingBuffer" \in MadeBefore(k)
<1>1. /\ Makes(1, "instance") /\ Makes(2, "physicalDevice")
      /\ Makes(3, "device") /\ Makes(4, "queue") /\ Makes(5, "commandPool")
      /\ Makes(6, "allocator") /\ Makes(8, "vertexBuffer")
      /\ Makes(9, "indexBuffer") /\ Makes(10, "materialBuffer")
      /\ Makes(11, "materialIndexBuffer") /\ Makes(12, "outputImage")
      /\ Makes(13, "outputImageView") /\ Makes(15, "blasBuffer")
      /\ Makes(16, "blas") /\ Makes(17, "scratchBuffer")
      /\ Makes(19, "instanceBuffer") /\ Makes(20, "tlasBuffer")
      /\ Makes(21, "tlas") /\ Makes(22, "tlasScratchBuffer")
      /\ Makes(26, "raygenModule") /\ Makes(27, "missModule")
      /\ Makes(28, "chitModule") /\ Makes(29, "descriptorSetLayout")
      /\ Makes(30, "pipelineLayout") /\ Makes(31, "pipeline")
      /\ Makes(34, "sbtBuffer") /\ Makes(35, "descriptorPool")
      /\ Makes(36, "descriptorSet") /\ Makes(38, "stagingBuffer")
  BY ProgramSteps DEF Makes, Step, Make
<1>2. \A o \in Objects, j \in 1 .. 42 :
        j < k /\ Makes(j, o)
        /\ (o \notin LocalObjects
            \/ \A i \in j + 1 .. k - 1 : i \notin {24, 32, 41})
        => o \in MadeBefore(k)
  BY ObjectsStay
<1>3. QED
  BY <1>1, <1>2, ObjectsAre DEF LocalObjects

(* A call is only given objects that are there, and an object is made when *)
(* what it needs is there.                                                 *)
LEMMA StepUsesAreMade ==
    ASSUME NEW k \in 1 .. 42
    PROVE  Program[k].uses \subseteq MadeBefore(k)
<1>1. CASE k \in 1 .. 14
  BY <1>1, ProgramSteps, MadeObjects
     DEF Step, Make, Host, Transition, Recording
<1>2. CASE k \in 15 .. 24
  BY <1>2, ProgramSteps, MadeObjects
     DEF Step, Make, Commands, Leave, Recording
<1>3. CASE k \in 25 .. 36
  BY <1>3, ProgramSteps, MadeObjects
     DEF Step, Make, Host, Leave
<1>4. CASE k = 37
  BY <1>4, ProgramSteps, MadeObjects DEF Step, TraceRays, Recording
<1>5. CASE k \in 38 .. 42
  BY <1>5, ProgramSteps, MadeObjects
     DEF Step, Make, Host, Transition, Leave, Recording
<1>6. QED
  BY <1>1, <1>2, <1>3, <1>4, <1>5

LEMMA StepNeedsAreMade ==
    ASSUME NEW k \in 1 .. 42, NEW o, Makes(k, o)
    PROVE  Needs(o) \subseteq MadeBefore(k)
BY Numbers, ProgramSteps, MadeObjects
   DEF StepNumbers, Makes, Step, Make, Host, Commands, Transition, Leave,
       TraceRays, Needs, Buffers
-----------------------------------------------------------------------------
(* The device: its queue family and its shader binding table.              *)

(* A set of naturals that is not empty has a least one.                    *)
LEMMA LeastNatural ==
    ASSUME NEW S \in SUBSET Nat, S # {}
    PROVE  \E m \in S : \A n \in S : m <= n
<1>1. IsWellFoundedOn(OpToRel(<, Nat), Nat)
  BY NatLessThanWellFounded
<1>2. PICK m \in S : \A n \in S : ~ (<<n, m>> \in OpToRel(<, Nat))
  BY <1>1, WFMin
<1>3. \A n \in S : m <= n
  <2>1. TAKE n \in S
  <2>2. ~ (<<n, m>> \in {pair \in Nat \X Nat : pair[1] < pair[2]})
    BY <1>2 DEF OpToRel
  <2>3. QED
    BY <2>2
<1>4. QED
  BY <1>3

(* A suitable GPU has a first family that can compute, the one             *)
(* ComputeFamily stands for.                                               *)
LEMMA ComputeFamilyComputes ==
    ASSUME NEW g \in Gpu, Suitable(g)
    PROVE  ComputeFamily(g) \in DOMAIN g.families
           /\ g.families[ComputeFamily(g)]
<1> DEFINE Computing == {i \in DOMAIN g.families : g.families[i]}
<1>1. g.families \in Seq(BOOLEAN)
  BY DEF Gpu
<1>2. DOMAIN g.families = 1 .. Len(g.families) /\ Len(g.families) \in Nat
  BY <1>1
<1>3. Computing \in SUBSET Nat /\ Computing # {}
  BY <1>2 DEF Suitable
<1>4. PICK m \in Computing : \A i \in Computing : m <= i
  BY <1>3, LeastNatural
<1>5. m \in Nat /\ m \in DOMAIN g.families /\ g.families[m]
  BY <1>3, <1>4
<1>6. ASSUME NEW k \in 1 .. m - 1
      PROVE  ~ g.families[k]
  <2>1. k \in DOMAIN g.families /\ k \in Nat /\ ~ (m <= k)
    BY <1>2, <1>5
  <2>2. QED
    BY <1>4, <2>1
<1>7. QED
  BY <1>5, <1>6 DEF ComputeFamily

(* AlignUp rounds up to the next multiple.                                 *)
LEMMA AlignUpFacts ==
    ASSUME NEW n \in Nat, NEW a \in Nat \ {0}
    PROVE  \E q \in Nat : /\ AlignUp(n, a) = q * a
                          /\ n <= q * a /\ q * a < n + a
<1> DEFINE q == (n + a - 1) \div a
<1>1. q \in Nat /\ q * a <= n + a - 1 /\ n + a - 1 < q * a + a
  OBVIOUS
<1>2. AlignUp(n, a) = q * a /\ q * a \in Nat
  BY <1>1 DEF AlignUp
<1> HIDE DEF q
<1>3. QED
  BY <1>1, <1>2

LEMMA MultiplesAlign ==
    ASSUME NEW q \in Nat, NEW a \in Nat \ {0}
    PROVE  (q * a) % a = 0
OBVIOUS

LEMMA FewerMultiples ==
    ASSUME NEW p \in Nat, NEW q \in Nat, NEW a \in Nat \ {0},
           q * a < p * a + a
    PROVE  q * a <= p * a
<1>1. q < p + 1
  <2>1. (p + 1) * a = p * a + a
    OBVIOUS
  <2>2. CASE q >= p + 1
    <3>1. PICK d \in Nat : q = (p + 1) + d
      BY <2>2
    <3>2. q * a = (p + 1) * a + d * a /\ d * a >= 0
      BY <3>1
    <3>3. QED
      BY <2>1, <3>2
  <2>3. QED
    BY <2>2
<1>2. PICK d \in Nat : p = q + d
  BY <1>1
<1>3. p * a = q * a + d * a /\ d * a >= 0
  BY <1>2
<1>4. QED
  BY <1>3

(* The handle alignment divides the base alignment.  Both are powers of    *)
(* two, so it says that the first is not the larger one: the layout of the *)
(* table relies on it, and the code does not check it.                     *)
AlignmentsNest(g) ==
    \E m \in Nat \ {0} : g.baseAlignment = m * g.handleAlignment

LEMMA StridesNest ==
    ASSUME NEW g \in Gpu, AlignmentsNest(g)
    PROVE  HandleStride(g) <= BaseStride(g)
<1> DEFINE n == g.handleSize
           a == g.handleAlignment
           b == g.baseAlignment
<1>1. n \in Nat /\ a \in Nat \ {0} /\ b \in Nat \ {0}
  BY DEF Gpu
<1>2. PICK m \in Nat \ {0} : b = m * a
  BY DEF AlignmentsNest
<1> HIDE DEF n, a, b
<1>3. PICK q \in Nat : AlignUp(n, a) = q * a /\ q * a < n + a
  BY <1>1, AlignUpFacts
<1>4. PICK p \in Nat : AlignUp(n, b) = p * b /\ n <= p * b
  BY <1>1, AlignUpFacts
<1>5. p * b = (p * m) * a /\ p * m \in Nat
  BY <1>1, <1>2
<1>6. q * a \in Nat /\ (p * m) * a \in Nat
  BY <1>1, <1>5
<1>7. q * a < (p * m) * a + a
  BY <1>1, <1>3, <1>4, <1>5, <1>6
<1>8. q * a <= (p * m) * a
  BY <1>1, <1>5, <1>7, FewerMultiples
<1>9. QED
  BY <1>3, <1>4, <1>5, <1>8 DEF HandleStride, BaseStride, n, a, b

(* The regions of the shader binding table, for every size and alignment.  *)
TableIsRight(g) ==
    LET Groups == 0 .. GroupCount - 1
    IN  \A i \in Groups :
            LET region == SbtRegion(g, i)
            IN /\ region.offset % g.baseAlignment = 0
               /\ region.size % g.handleAlignment = 0
               /\ region.offset = HandleOffset(g, i)
               /\ g.handleSize <= region.size
               /\ region.offset + region.size <= SbtSize(g)
               /\ \A k \in i + 1 .. GroupCount - 1 :
                    region.offset + region.size <= SbtRegion(g, k).offset

LEMMA TableOfGpu ==
    ASSUME NEW g \in Gpu, AlignmentsNest(g)
    PROVE  TableIsRight(g)
<1> DEFINE H == HandleStride(g)
           B == BaseStride(g)
<1>1. /\ g.handleSize \in Nat /\ g.handleAlignment \in Nat \ {0}
      /\ g.baseAlignment \in Nat \ {0}
  BY DEF Gpu
<1>2. PICK q \in Nat : H = q * g.handleAlignment /\ g.handleSize <= H
  BY <1>1, AlignUpFacts DEF HandleStride
<1>3. PICK p \in Nat : B = p * g.baseAlignment
  BY <1>1, AlignUpFacts DEF BaseStride
<1> HIDE DEF H, B
<1>4. H \in Nat /\ B \in Nat
  BY <1>1, <1>2, <1>3
<1>5. H % g.handleAlignment = 0
  BY <1>1, <1>2, MultiplesAlign
<1>6. H <= B
  BY StridesNest DEF H, B
<1>7. ASSUME NEW i \in {0, 1, 2}
      PROVE  (i * B) % g.baseAlignment = 0
  <2>1. i * B = (i * p) * g.baseAlignment /\ i * p \in Nat
    BY <1>1, <1>3
  <2>2. QED
    BY <1>1, <2>1, MultiplesAlign
<1>8. ASSUME NEW i \in {0, 1, 2}
      PROVE  /\ SbtRegion(g, i).offset = i * B /\ SbtRegion(g, i).size = H
             /\ HandleOffset(g, i) = i * B
  BY DEF SbtRegion, HandleOffset, H, B
<1>9. SbtSize(g) = 3 * B
  BY DEF SbtSize, GroupCount, B
<1>10. ASSUME NEW i \in {0, 1, 2}
       PROVE  /\ i * B + H <= 3 * B
              /\ \A k \in i + 1 .. 2 : k \in {0, 1, 2} /\ i * B + H <= k * B
  BY <1>4, <1>6
<1>11. ASSUME NEW i \in {0, 1, 2}
       PROVE  LET region == SbtRegion(g, i)
              IN /\ region.offset % g.baseAlignment = 0
                 /\ region.size % g.handleAlignment = 0
                 /\ region.offset = HandleOffset(g, i)
                 /\ g.handleSize <= region.size
                 /\ region.offset + region.size <= SbtSize(g)
                 /\ \A k \in i + 1 .. 2 :
                      region.offset + region.size <= SbtRegion(g, k).offset
  <2>1. \A k \in i + 1 .. 2 :
            SbtRegion(g, i).offset + SbtRegion(g, i).size
                <= SbtRegion(g, k).offset
    BY <1>8, <1>10
  <2>2. QED
    BY <1>2, <1>5, <1>7, <1>8, <1>9, <1>10, <2>1
<1>12. 0 .. GroupCount - 1 = {0, 1, 2} /\ GroupCount - 1 = 2
  BY DEF GroupCount
<1>13. QED
  BY <1>11, <1>12 DEF TableIsRight
-----------------------------------------------------------------------------
(* Types.                                                                  *)

(* Whatever happens around it, the recursion of TileSubdivision goes on as *)
(* if it were alone.                                                       *)
LEMMA StepsOfTiles == [Next]_vars => [TilesNext]_tileVars
BY DEF Next, vars, MakeObject, SelectPhysicalDevice, ExecuteCommands, HostWork,
       Trace, RenderReturns, WritePng, LeaveFunction, Throw, LeaveBlock,
       Destroy, Finish

(* Rendering a frame, with all that can throw, implements cutting an image *)
(* into tiles: the theorems of TileSubdivisionProofs hold of it.           *)
THEOREM RenderRefinesTiles == Spec => TilesSpec
<1>1. Init => TilesInit
  BY DEF Init
<1>2. [Next]_vars => [TilesNext]_tileVars
  BY StepsOfTiles
<1>3. QED
  BY <1>1, <1>2, PTL DEF Spec, TilesSpec

(* The part of TypeOK that is not about tiles.                             *)
GpuTypeOK ==
    /\ gpus \in GpuLists
    /\ gpu \in 0 .. Len(gpus)
    /\ gpu # 0 => family \in DOMAIN gpus[gpu].families
    /\ pc \in 1 .. 43
    /\ mode \in {"running", "unwinding", "leaving", "threw", "returned"}
    /\ live \subseteq Objects
    /\ layout \in Layouts
    /\ saved \in BOOLEAN

LEMMA GpuListsAre ==
    ASSUME gpus \in GpuLists
    PROVE  /\ gpus \in Seq(Gpu) /\ Len(gpus) \in Nat
           /\ DOMAIN gpus = 1 .. Len(gpus)
           /\ \A i \in DOMAIN gpus : gpus[i] \in Gpu
<1>1. gpus \in Seq(Gpu)
  BY GpusAssumption
<1>2. QED
  BY <1>1

LEMMA GpuTypeInit == Init => GpuTypeOK
<1> SUFFICES ASSUME Init PROVE GpuTypeOK
  OBVIOUS
<1>1. gpus \in GpuLists /\ gpu = 0
  BY DEF Init
<1>2. 0 \in 0 .. Len(gpus)
  BY <1>1, GpuListsAre
<1>3. saved \in BOOLEAN
  BY DEF Init
<1>4. QED
  BY <1>1, <1>2, <1>3 DEF Init, GpuTypeOK, Layouts

(* What an action that takes the next step of the program finds.           *)
LEMMA RunningStep ==
    ASSUME GpuTypeOK, NEW op, Running(op)
    PROVE  /\ mode = "running" /\ pc \in 1 .. 42 /\ Program[pc].op = op
           /\ pc + 1 \in 1 .. 43
<1>1. Len(Program) = 42
  BY ProgramSteps
<1>2. pc \in 1 .. 43
  BY DEF GpuTypeOK
<1>3. QED
  BY <1>1, <1>2 DEF Running

LEMMA GpuTypeNext == GpuTypeOK /\ [Next]_vars => GpuTypeOK'
<1> SUFFICES ASSUME GpuTypeOK, [Next]_vars PROVE GpuTypeOK'
  OBVIOUS
<1> USE DEF GpuTypeOK
<1>1. CASE MakeObject
  <2>1. pc \in 1 .. 42 /\ pc + 1 \in 1 .. 43
    BY <1>1, RunningStep DEF MakeObject
  <2>2. Program[pc].objs \subseteq Objects
    BY <2>1, StepObjects
  <2>3. QED
    BY <1>1, <2>1, <2>2 DEF MakeObject, NextStep
<1>2. CASE SelectPhysicalDevice
  <2>1. pc \in 1 .. 42 /\ pc + 1 \in 1 .. 43
    BY <1>2, RunningStep DEF SelectPhysicalDevice
  <2>2. Program[pc].objs \subseteq Objects
    BY <2>1, StepObjects
  <2>3. PICK i \in DOMAIN gpus :
            /\ Suitable(gpus[i]) /\ gpu' = i
            /\ family' = ComputeFamily(gpus[i])
    BY <1>2 DEF SelectPhysicalDevice
  <2>4. gpu' \in 0 .. Len(gpus) /\ family' \in DOMAIN gpus[gpu'].families
    BY <2>3, GpuListsAre, ComputeFamilyComputes
  <2>5. QED
    BY <1>2, <2>1, <2>2, <2>4 DEF SelectPhysicalDevice, NextStep
<1>3. CASE ExecuteCommands
  <2>1. pc \in 1 .. 42 /\ pc + 1 \in 1 .. 43
    BY <1>3, RunningStep DEF ExecuteCommands
  <2>2. Program[pc].to \in Layouts \cup {"same"}
    BY <2>1, StepObjects
  <2>3. layout' \in Layouts
    BY <1>3, <2>2 DEF ExecuteCommands
  <2>4. QED
    BY <1>3, <2>1, <2>3 DEF ExecuteCommands, NextStep
<1>4. CASE HostWork \/ RenderReturns \/ WritePng
  <2>1. pc + 1 \in 1 .. 43
    BY <1>4, RunningStep DEF HostWork, RenderReturns, WritePng
  <2>2. QED
    BY <1>4, <2>1 DEF HostWork, RenderReturns, WritePng, NextStep
<1>5. CASE LeaveFunction
  <2>1. pc + 1 \in 1 .. 43
    BY <1>5, RunningStep DEF LeaveFunction
  <2>2. QED
    BY <1>5, <2>1 DEF LeaveFunction, NextStep
<1>6. CASE Trace \/ UNCHANGED vars
  BY <1>6 DEF Trace, vars, gpuVars
<1>7. CASE Throw
  BY <1>7 DEF Throw, Unwind
<1>8. CASE LeaveBlock \/ Destroy \/ Finish
  BY <1>8 DEF LeaveBlock, Destroy, Finish
<1>9. QED
  BY <1>1, <1>2, <1>3, <1>4, <1>5, <1>6, <1>7, <1>8 DEF Next

LEMMA TypeInit == Init => TilesTypeOK /\ GpuTypeOK
BY TilesInitTypeOK, GpuTypeInit DEF Init

LEMMA TypeNext == TilesTypeOK /\ GpuTypeOK /\ [Next]_vars
                  => (TilesTypeOK /\ GpuTypeOK)'
BY TilesNextTypeOK, GpuTypeNext, StepsOfTiles

(* Every variable of a frame has the values the code gives it; the chosen  *)
(* queue family is one of the chosen GPU.                                  *)
THEOREM TypeCorrect == Spec => []TypeOK
<1>1. TilesTypeOK /\ GpuTypeOK => TypeOK
  BY ProgramSteps DEF GpuTypeOK, TypeOK
<1>2. QED
  BY <1>1, TypeInit, TypeNext, PTL DEF Spec

-----------------------------------------------------------------------------
(* Objects: their calls, their order, their end.                           *)

(* As long as the program runs, what is live and the layout of the image   *)
(* are those its text gives; afterwards destructors only take away.        *)
LiveInv ==
    /\ mode = "running" => live = MadeBefore(pc) /\ layout = LayoutBefore(pc)
    /\ live \subseteq MadeBefore(pc)
    /\ mode \in {"threw", "returned"} => live = {}

(* The allocator has an owner as soon as it exists: nothing can throw      *)
(* between its creation and the end of VulkanContext's constructor.        *)
LEMMA OwnersExist ==
    ASSUME GpuTypeOK, live \subseteq MadeBefore(pc)
    PROVE  Destroyable = live
<1>1. Len(VulkanContext) = 6
  BY DEF VulkanContext, CreateInstance, CreateLogicalDevice,
         CreateCommandPool, CreateAllocator
<1>2. ASSUME "allocator" \in live
      PROVE  pc > 6
  <2>1. PICK j \in 1 .. pc - 1 : Makes(j, "allocator")
    BY <1>2 DEF MadeBefore
  <2>2. pc \in 1 .. 43 /\ j \in 1 .. 42
    BY DEF GpuTypeOK
  <2>3. j = 6
    BY <2>1, <2>2, StepObjects DEF Makes
  <2>4. QED
    BY <2>2, <2>3
<1>3. QED
  BY <1>1, <1>2 DEF Destroyable, HasOwner

LEMMA LiveInit == Init => LiveInv
BY DEF Init, LiveInv, MadeBefore, LayoutBefore

LEMMA LiveNext == GpuTypeOK /\ LiveInv /\ [Next]_vars => LiveInv'
<1> SUFFICES ASSUME GpuTypeOK, LiveInv, [Next]_vars PROVE LiveInv'
  OBVIOUS
<1>1. ASSUME NEW op, Running(op), NextStep,
             live' = MadeBefore(pc + 1), layout' = LayoutBefore(pc + 1)
      PROVE  LiveInv'
  BY <1>1, RunningStep DEF NextStep, LiveInv, MadeBefore, LayoutBefore, Makes, Drops
<1>2. CASE MakeObject \/ SelectPhysicalDevice
  <2>1. /\ mode = "running" /\ pc \in 1 .. 42
        /\ Program[pc].op \in {"make", "select"}
    BY <1>2, RunningStep DEF MakeObject, SelectPhysicalDevice
  <2>2. live' = MadeBefore(pc + 1) /\ layout' = LayoutBefore(pc + 1)
    BY <1>2, <2>1, MadeAfterStep, StepLayouts
       DEF MakeObject, SelectPhysicalDevice, LiveInv
  <2>3. QED
    BY <1>1, <1>2, <2>2 DEF MakeObject, SelectPhysicalDevice
<1>3. CASE ExecuteCommands
  <2>1. /\ mode = "running" /\ pc \in 1 .. 42 /\ Program[pc].op = "commands"
    BY <1>3, RunningStep DEF ExecuteCommands
  <2>2. live' = MadeBefore(pc + 1) /\ layout' = LayoutBefore(pc + 1)
    BY <1>3, <2>1, MadeAfterStep, StepLayouts DEF ExecuteCommands, LiveInv
  <2>3. QED
    BY <1>1, <1>3, <2>2 DEF ExecuteCommands
<1>4. CASE HostWork \/ RenderReturns \/ WritePng
  <2>1. /\ mode = "running" /\ pc \in 1 .. 42
        /\ Program[pc].op \in {"host", "trace", "write"}
    BY <1>4, RunningStep DEF HostWork, RenderReturns, WritePng
  <2>2. live' = MadeBefore(pc + 1) /\ layout' = LayoutBefore(pc + 1)
    BY <1>4, <2>1, MadeAfterStep, StepLayouts
       DEF HostWork, RenderReturns, WritePng, LiveInv
  <2>3. QED
    BY <1>1, <1>4, <2>2 DEF HostWork, RenderReturns, WritePng
<1>5. CASE LeaveFunction
  <2>1. /\ mode = "running" /\ pc \in 1 .. 42 /\ Program[pc].op = "leave"
    BY <1>5, RunningStep DEF LeaveFunction
  <2>2. live' = MadeBefore(pc + 1) /\ layout' = LayoutBefore(pc + 1)
    BY <1>5, <2>1, MadeAfterStep, StepLayouts DEF LeaveFunction, LiveInv
  <2>3. QED
    BY <1>1, <1>5, <2>2 DEF LeaveFunction
<1>6. CASE Trace \/ UNCHANGED vars
  BY <1>6 DEF Trace, vars, gpuVars, LiveInv, MadeBefore, LayoutBefore, Makes, Drops
<1>7. CASE Throw \/ LeaveBlock
  BY <1>7 DEF Throw, Unwind, LeaveBlock, LiveInv, MadeBefore, Makes, Drops
<1>8. CASE Destroy
  BY <1>8 DEF Destroy, LiveInv, MadeBefore, Makes, Drops
<1>9. CASE Finish
  <2>1. Destroyable = live
    BY OwnersExist DEF LiveInv
  <2>2. QED
    BY <1>9, <2>1 DEF Finish, LiveInv, MadeBefore, Makes, Drops
<1>10. QED
  BY <1>2, <1>3, <1>4, <1>5, <1>6, <1>7, <1>8, <1>9 DEF Next

(* However the block is left, nothing that was made is left behind.        *)
THEOREM NothingIsLeaked == Spec => []NothingLeaks
<1>1. Init => TilesTypeOK /\ GpuTypeOK /\ LiveInv
  BY TypeInit, LiveInit
<1>2. /\ TilesTypeOK /\ GpuTypeOK /\ LiveInv
      /\ [Next]_vars
      => (TilesTypeOK /\ GpuTypeOK /\ LiveInv)'
  BY TypeNext, LiveNext
<1>3. LiveInv => NothingLeaks
  BY DEF LiveInv, NothingLeaks
<1>4. QED
  BY <1>1, <1>2, <1>3, PTL DEF Spec

(* Every call is given live objects, and every command the image in the    *)
(* layout it states, wherever in the program a frame is.                   *)
THEOREM EveryCallIsValid == Spec => []CallsAreValid
<1>1. Init => TilesTypeOK /\ GpuTypeOK /\ LiveInv
  BY TypeInit, LiveInit
<1>2. /\ TilesTypeOK /\ GpuTypeOK /\ LiveInv
      /\ [Next]_vars
      => (TilesTypeOK /\ GpuTypeOK /\ LiveInv)'
  BY TypeNext, LiveNext
<1>3. GpuTypeOK /\ LiveInv => CallsAreValid
  <2> SUFFICES ASSUME GpuTypeOK, LiveInv, mode = "running", pc <= Len(Program)
               PROVE  /\ Program[pc].uses \subseteq live
                      /\ layout \in Program[pc].from
    BY DEF CallsAreValid
  <2>1. Len(Program) = 42
    BY ProgramSteps
  <2>2. pc \in 1 .. 42
    BY <2>1 DEF GpuTypeOK
  <2>3. live = MadeBefore(pc) /\ layout = LayoutBefore(pc)
    BY DEF LiveInv
  <2>4. QED
    BY <2>2, <2>3, StepUsesAreMade, StepLayouts
<1>4. QED
  BY <1>1, <1>2, <1>3, PTL DEF Spec

LEMMA OutlivesInit == Init => NothingOutlivesItsNeeds
BY DEF Init, NothingOutlivesItsNeeds

(* An object is made after what it needs, dropped when nothing needs it,   *)
(* and destroyed before it.                                                *)
LEMMA OutlivesNext ==
    GpuTypeOK /\ LiveInv /\ NothingOutlivesItsNeeds /\ [Next]_vars
    => NothingOutlivesItsNeeds'
<1> SUFFICES ASSUME GpuTypeOK, LiveInv, NothingOutlivesItsNeeds, [Next]_vars
             PROVE  NothingOutlivesItsNeeds'
  OBVIOUS
<1>1. CASE MakeObject \/ SelectPhysicalDevice
  <2>1. /\ mode = "running" /\ pc \in 1 .. 42
        /\ Program[pc].op \in {"make", "select"}
    BY <1>1, RunningStep DEF MakeObject, SelectPhysicalDevice
  <2>2. live = MadeBefore(pc) /\ live' = live \cup Program[pc].objs
    BY <1>1, <2>1 DEF LiveInv, MakeObject, SelectPhysicalDevice
  <2>3. \A o \in Program[pc].objs : Needs(o) \subseteq live
    BY <2>1, <2>2, StepNeedsAreMade DEF Makes
  <2>4. QED
    BY <2>2, <2>3 DEF NothingOutlivesItsNeeds
<1>2. CASE LeaveFunction
  <2>1. /\ mode = "running" /\ pc \in 1 .. 42 /\ Program[pc].op = "leave"
    BY <1>2, RunningStep DEF LeaveFunction
  <2>2. Program[pc].objs \subseteq LocalObjects
    BY <2>1, StepObjects
  <2>3. live' = live \ Program[pc].objs /\ live \subseteq Objects
    BY <1>2 DEF LeaveFunction, GpuTypeOK
  <2>4. QED
    BY <2>2, <2>3, NeedsAreNoLocals DEF NothingOutlivesItsNeeds
<1>3. CASE Destroy
  <2>1. Destroyable = live /\ live \subseteq Objects
    BY OwnersExist DEF LiveInv, GpuTypeOK
  <2>2. PICK i \in DOMAIN Declared :
            /\ \A k \in i + 1 .. Len(Declared) : Declared[k] \notin live
            /\ live' = live \ {Declared[i]}
    BY <1>3, <2>1 DEF Destroy
  <2>3. i \in 1 .. 29 /\ Len(Declared) = 29
    BY ObjectsAre, DeclaredObjects
  <2>4. ASSUME NEW o \in live', NEW p \in Needs(o)
        PROVE  p \in live'
    <3>1. o \in live /\ o # Declared[i]
      BY <2>2
    <3>2. p \in live
      BY <3>1 DEF NothingOutlivesItsNeeds
    <3>3. PICK m \in 1 .. 29 : Declared[m] = o
      BY <2>1, <3>1, ObjectsAre DEF Objects
    <3>4. m < i
      BY <2>2, <2>3, <3>1, <3>3
    <3>5. CASE p = Declared[i]
      BY <2>3, <3>3, <3>4, <3>5, NeedsAreDeclaredBefore
    <3>6. QED
      BY <2>2, <3>2, <3>5
  <2>5. QED
    BY <2>4 DEF NothingOutlivesItsNeeds
<1>4. CASE live' = live
  BY <1>4 DEF NothingOutlivesItsNeeds
<1>5. QED
  BY <1>1, <1>2, <1>3, <1>4
     DEF Next, vars, gpuVars, ExecuteCommands, HostWork, Trace, RenderReturns,
         WritePng, Throw, LeaveBlock, Finish

(* Wherever a call throws, no object outlives one it needs.                *)
THEOREM NeedsOutliveObjects == Spec => []NothingOutlivesItsNeeds
<1>1. Init => /\ TilesTypeOK /\ GpuTypeOK /\ LiveInv
              /\ NothingOutlivesItsNeeds
  BY TypeInit, LiveInit, OutlivesInit
<1>2. /\ TilesTypeOK /\ GpuTypeOK /\ LiveInv /\ NothingOutlivesItsNeeds
      /\ [Next]_vars
      => (TilesTypeOK /\ GpuTypeOK /\ LiveInv /\ NothingOutlivesItsNeeds)'
  BY TypeNext, LiveNext, OutlivesNext
<1>3. QED
  BY <1>1, <1>2, PTL DEF Spec

-----------------------------------------------------------------------------
(* The chosen GPU.                                                         *)

GpuInv == gpu # 0 => gpus[gpu].families[family]

LEMMA GpuInvNext == GpuTypeOK /\ GpuInv /\ [Next]_vars => GpuInv'
<1> SUFFICES ASSUME GpuTypeOK, GpuInv, [Next]_vars PROVE GpuInv'
  OBVIOUS
<1>1. CASE SelectPhysicalDevice
  <2>1. PICK i \in DOMAIN gpus :
            /\ Suitable(gpus[i]) /\ gpu' = i
            /\ family' = ComputeFamily(gpus[i])
    BY <1>1 DEF SelectPhysicalDevice
  <2>2. gpus[i].families[ComputeFamily(gpus[i])]
    BY <2>1, GpuListsAre, ComputeFamilyComputes DEF GpuTypeOK
  <2>3. gpus' = gpus
    BY <1>1 DEF SelectPhysicalDevice
  <2>4. QED
    BY <2>1, <2>2, <2>3 DEF GpuInv
<1>2. CASE UNCHANGED <<gpus, gpu, family>>
  BY <1>2 DEF GpuInv
<1>3. QED
  BY <1>1, <1>2
     DEF Next, vars, gpuVars, MakeObject, ExecuteCommands, HostWork, Trace,
         RenderReturns, WritePng, LeaveFunction, Throw, LeaveBlock, Destroy,
         Finish

(* On every GPU whose base alignment is a multiple of its handle alignment *)
(* the queue family can compute, and the regions of the shader binding     *)
(* table are aligned, apart, in the buffer and as large as a handle.       *)
THEOREM GpuIsSetUpRight ==
    (\A list \in GpuLists : \A i \in DOMAIN list : AlignmentsNest(list[i]))
    => (Spec => []GpuIsSetUp)
<1> SUFFICES ASSUME \A list \in GpuLists :
                        \A i \in DOMAIN list : AlignmentsNest(list[i])
             PROVE  Spec => []GpuIsSetUp
  OBVIOUS
<1>1. Init => TilesTypeOK /\ GpuTypeOK /\ GpuInv
  BY TypeInit DEF Init, GpuInv
<1>2. /\ TilesTypeOK /\ GpuTypeOK /\ GpuInv
      /\ [Next]_vars
      => (TilesTypeOK /\ GpuTypeOK /\ GpuInv)'
  BY TypeNext, GpuInvNext
<1>3. GpuTypeOK /\ GpuInv => GpuIsSetUp
  <2> SUFFICES ASSUME GpuTypeOK, GpuInv, gpu # 0
               PROVE  /\ gpus[gpu].families[family]
                      /\ TableIsRight(gpus[gpu])
    BY DEF GpuIsSetUp, TableIsRight
  <2>1. gpus \in GpuLists /\ gpu \in 0 .. Len(gpus)
    BY DEF GpuTypeOK
  <2>2. gpu \in DOMAIN gpus /\ gpus[gpu] \in Gpu
    BY <2>1, GpuListsAre
  <2>3. AlignmentsNest(gpus[gpu])
    BY <2>1, <2>2
  <2>4. QED
    BY <2>2, <2>3, TableOfGpu DEF GpuInv
<1>4. QED
  BY <1>1, <1>2, <1>3, PTL DEF Spec

-----------------------------------------------------------------------------
(* The image that is saved.                                                *)

(* render only returns when no call of renderTileRecursive is left, and    *)
(* the file is written later.                                              *)
SavedInv ==
    /\ pc > 37 => pending = << >>
    /\ saved => pc > 37

LEMMA SavedInit == Init => SavedInv
BY DEF Init, SavedInv

LEMMA SavedNext == GpuTypeOK /\ SavedInv /\ [Next]_vars => SavedInv'
<1> SUFFICES ASSUME GpuTypeOK, SavedInv, [Next]_vars PROVE SavedInv'
  OBVIOUS
<1>1. pc \in 1 .. 43
  BY DEF GpuTypeOK
<1>2. CASE Trace
  <2>1. pc = 37
    BY <1>2, RunningStep, StepKinds DEF Trace
  <2>2. QED
    BY <1>2, <2>1 DEF Trace, gpuVars, SavedInv
<1>3. CASE RenderReturns
  <2>1. pc = 37
    BY <1>3, RunningStep, StepKinds DEF RenderReturns
  <2>2. QED
    BY <1>3, <2>1 DEF RenderReturns, NextStep, SavedInv, tileVars
<1>4. CASE WritePng
  <2>1. pc = 40
    BY <1>4, RunningStep, StepKinds DEF WritePng
  <2>2. QED
    BY <1>4, <2>1 DEF WritePng, NextStep, SavedInv, tileVars
<1>5. CASE MakeObject \/ SelectPhysicalDevice \/ ExecuteCommands \/ HostWork
           \/ LeaveFunction
  <2>1. pc # 37
    BY <1>5, RunningStep, StepKinds
       DEF MakeObject, SelectPhysicalDevice, ExecuteCommands, HostWork,
           LeaveFunction
  <2>2. pc' = pc + 1 /\ UNCHANGED <<pending, saved>>
    BY <1>5 DEF MakeObject, SelectPhysicalDevice, ExecuteCommands, HostWork,
                LeaveFunction, NextStep, tileVars
  <2>3. QED
    BY <1>1, <2>1, <2>2 DEF SavedInv
<1>6. CASE UNCHANGED <<pc, pending, saved>>
  BY <1>6 DEF SavedInv
<1>7. QED
  BY <1>2, <1>3, <1>4, <1>5, <1>6
     DEF Next, vars, gpuVars, tileVars, Throw, Unwind, LeaveBlock, Destroy,
         Finish

(* When the file holds the image, every pixel of it has been traced, for   *)
(* every size of image and of tiles.                                       *)
THEOREM SavedImagesAreComplete == Spec => []SavedImageIsComplete
<1>1. Init => TilesTypeOK /\ GpuTypeOK /\ TilesCoverOnce /\ SavedInv
  BY TypeInit, CoverInit, SavedInit DEF Init
<1>2. /\ TilesTypeOK /\ GpuTypeOK /\ TilesCoverOnce /\ SavedInv
      /\ [Next]_vars
      => (TilesTypeOK /\ GpuTypeOK /\ TilesCoverOnce /\ SavedInv)'
  BY TypeNext, StepsOfTiles, CoverNext, SavedNext
<1>3. TilesCoverOnce /\ SavedInv => SavedImageIsComplete
  BY DEF TilesCoverOnce, NoPixelIsMissing, Regions, SavedInv,
         SavedImageIsComplete
<1>4. QED
  BY <1>1, <1>2, <1>3, PTL DEF Spec
=============================================================================
