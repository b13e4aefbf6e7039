----------------------------- MODULE PathTracer -----------------------------
(***************************************************************************)
(* A worker renders one frame: generateScene from the construction of the  *)
(* VulkanContext to the end of the block that holds it.  The steps are     *)
(* those of GpuObjects!Program, with the recursion of TileSubdivision in   *)
(* place of its "trace" step.  Every call that can throw may do so, and    *)
(* then the stack unwinds; the same destructors run on the normal path.    *)
(***************************************************************************)
EXTENDS TileSubdivision, GpuObjects

CONSTANT GpuLists  \* what vkEnumeratePhysicalDevices may return

(* The alignments are powers of two, so never zero.                        *)
Gpu == [extensions : BOOLEAN, families : Seq(BOOLEAN), handleSize : Nat,
        handleAlignment : Nat \ {0}, baseAlignment : Nat \ {0}]

ASSUME GpusAssumption == GpuLists \subseteq Seq(Gpu)

VARIABLES
    gpus,    \* the machine's GPUs
    gpu,     \* m_physicalDevice as an index into gpus, 0 for none
    family,  \* m_queueFamilyIndex, counted from one
    pc,      \* the next step of Program
    mode,    \* "running", "unwinding", "leaving", "threw", "returned"
    live,    \* objects constructed and not yet destroyed
    layout,  \* the layout of the output image
    saved    \* whether the file holds the image

gpuVars == <<gpus, gpu, family, pc, mode, live, layout, saved>>
vars == <<tileVars, gpuVars>>

Init ==
    /\ TilesInit
    /\ gpus \in GpuLists
    /\ gpu = 0 /\ family = 0
    /\ pc = 1
    /\ mode = "running"
    /\ live = {}
    /\ layout = "undefined"
    /\ saved = FALSE

Running(op) == mode = "running" /\ pc <= Len(Program) /\ Program[pc].op = op

NextStep == pc' = pc + 1 /\ UNCHANGED mode
Unwind   == mode' = "unwinding" /\ UNCHANGED pc

-----------------------------------------------------------------------------
MakeObject ==
    /\ Running("make")
    /\ live' = live \cup Program[pc].objs
    /\ NextStep
    /\ UNCHANGED <<tileVars, gpus, gpu, family, layout, saved>>

(* The first GPU with every extension and a compute queue family.          *)
Suitable(g) == g.extensions /\ \E i \in DOMAIN g.families : g.families[i]

ComputeFamily(g) ==
    CHOOSE i \in DOMAIN g.families :
        g.families[i] /\ \A k \in 1 .. i - 1 : ~ g.families[k]

SelectPhysicalDevice ==
    /\ Running("select")
    /\ \E i \in DOMAIN gpus :
        /\ Suitable(gpus[i])
        /\ \A k \in 1 .. i - 1 : ~ Suitable(gpus[k])
        /\ gpu' = i
        /\ family' = ComputeFamily(gpus[i])
    /\ live' = live \cup Program[pc].objs
    /\ NextStep
    /\ UNCHANGED <<tileVars, gpus, layout, saved>>

(* executeCommands: record, submit, wait.                                  *)
ExecuteCommands ==
    /\ Running("commands")
    /\ layout' = IF Program[pc].to = "same" THEN layout ELSE Program[pc].to
    /\ NextStep
    /\ UNCHANGED <<tileVars, gpus, gpu, family, live, saved>>

HostWork ==
    /\ Running("host")
    /\ NextStep
    /\ UNCHANGED <<tileVars, gpus, gpu, family, live, layout, saved>>

(* renderTileRecursive; a tile is one executeCommands.                     *)
Trace ==
    /\ Running("trace")
    /\ TilesNext
    /\ UNCHANGED gpuVars

(* Mutant: render returns after the first tile.                            *)
RenderReturnsEarly ==
    /\ Running("trace")
    /\ tiles # {}
    /\ NextStep
    /\ UNCHANGED <<tileVars, gpus, gpu, family, live, layout, saved>>

RenderReturns ==
    /\ Running("trace")
    /\ pending = << >>
    /\ NextStep
    /\ UNCHANGED <<tileVars, gpus, gpu, family, live, layout, saved>>

WritePng ==
    /\ Running("write")
    /\ saved' \in BOOLEAN
    /\ NextStep
    /\ UNCHANGED <<tileVars, gpus, gpu, family, live, layout>>

LeaveFunction ==
    /\ Running("leave")
    /\ live' = live \ Program[pc].objs
    /\ NextStep
    /\ UNCHANGED <<tileVars, gpus, gpu, family, layout, saved>>

(* A call of Vulkan, of the allocator or of the host throws; while tracing *)
(* it is the dispatch of a tile.  selectPhysicalDevice can do nothing else *)
(* when no GPU is suitable.                                                *)
Throw ==
    /\ \E op \in {"make", "select", "commands", "host", "trace"} : Running(op)
    /\ Running("trace") => pending # << >> /\ ~ Splits(Head(pending))
    /\ Unwind
    /\ UNCHANGED <<tileVars, gpus, gpu, family, live, layout, saved>>

LeaveBlock ==
    /\ mode = "running" /\ pc > Len(Program)
    /\ mode' = "leaving"
    /\ UNCHANGED <<tileVars, gpus, gpu, family, pc, live, layout, saved>>

(* ~VulkanContext, which owns the allocator's raw handle, only runs when   *)
(* its constructor has returned.                                           *)
HasOwner(o) == o = "allocator" => pc > Len(VulkanContext)

Destroyable == {o \in live : HasOwner(o)}

Destroy ==
    /\ mode \in {"unwinding", "leaving"}
    /\ \E i \in DOMAIN Declared :
        /\ Declared[i] \in Destroyable
        /\ \A k \in i + 1 .. Len(Declared) : Declared[k] \notin Destroyable
        /\ live' = live \ {Declared[i]}
    /\ UNCHANGED <<tileVars, gpus, gpu, family, pc, mode, layout, saved>>

Finish ==
    /\ mode \in {"unwinding", "leaving"}
    /\ Destroyable = {}
    /\ mode' = IF mode = "unwinding" THEN "threw" ELSE "returned"
    /\ UNCHANGED <<tileVars, gpus, gpu, family, pc, live, layout, saved>>

Next ==
    \/ MakeObject \/ SelectPhysicalDevice \/ ExecuteCommands \/ HostWork
    \/ Trace \/ RenderReturns \/ WritePng \/ LeaveFunction
    \/ Throw \/ LeaveBlock \/ Destroy \/ Finish

Spec == Init /\ [][Next]_vars

-----------------------------------------------------------------------------
(* Properties.                                                             *)

(* Every variable has the values the code gives it.                        *)
TypeOK ==
    /\ TilesTypeOK
    /\ gpus \in GpuLists
    /\ gpu \in 0 .. Len(gpus)
    /\ gpu # 0 => family \in DOMAIN gpus[gpu].families
    /\ pc \in 1 .. Len(Program) + 1
    /\ mode \in {"running", "unwinding", "leaving", "threw", "returned"}
    /\ live \subseteq Objects
    /\ layout \in Layouts
    /\ saved \in BOOLEAN

(* Wherever a call throws, objects go in an order in which none outlives   *)
(* one it needs: members are declared, and made, in an order that suits    *)
(* Vulkan's rules although nothing in the code states them.                *)
NothingOutlivesItsNeeds == \A o \in live : Needs(o) \subseteq live

(* However the block is left, no GPU object and no allocation is left      *)
(* behind: the worker's process goes on to render the next frame.          *)
NothingLeaks == mode \in {"threw", "returned"} => live = {}

(* A call is only given handles of live objects, and a command the image   *)
(* in the layout it states.                                                *)
CallsAreValid ==
    mode = "running" /\ pc <= Len(Program) =>
        /\ Program[pc].uses \subseteq live
        /\ layout \in Program[pc].from

(* The queue is of a family of the chosen GPU that can compute, and the    *)
(* shader binding table gives each group a region that is aligned, lies in *)
(* the buffer, apart from the others, and holds the group's handle.        *)
GpuIsSetUp ==
    gpu # 0 =>
        LET g == gpus[gpu]
            Groups == 0 .. GroupCount - 1
        IN /\ g.families[family]
           /\ \A i \in Groups :
                LET region == SbtRegion(g, i)
                IN /\ region.offset % g.baseAlignment = 0
                   /\ region.size % g.handleAlignment = 0
                   /\ region.offset = HandleOffset(g, i)
                   /\ g.handleSize <= region.size
                   /\ region.offset + region.size <= SbtSize(g)
                   /\ \A k \in i + 1 .. GroupCount - 1 :
                        region.offset + region.size <= SbtRegion(g, k).offset

(* When the file holds the image, every pixel of it has been traced.       *)
SavedImageIsComplete ==
    saved => \A px \in 0 .. image[1] - 1, py \in 0 .. image[2] - 1 :
                \E r \in tiles : HasPixel(r, px, py)
=============================================================================
