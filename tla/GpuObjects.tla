----------------------------- MODULE GpuObjects -----------------------------
(***************************************************************************)
(* The Vulkan objects a frame needs and the calls that make and use them,  *)
(* in the order generateScene makes them: VulkanContext, Scene,            *)
(* PathTracer, render, saveImage.  A step makes one object, submits one    *)
(* command buffer and waits for it, does host work that may throw, or      *)
(* leaves a function and its locals.  Formats, usages and the contents of  *)
(* the create-infos are left out; which handles a call is given is not.    *)
(***************************************************************************)
EXTENDS Integers, Sequences

(* Objects in the order C++ constructs the variables that own them: locals *)
(* of generateScene and members by declaration, then locals of member      *)
(* functions.  Destruction, normal or by unwinding, runs in the opposite   *)
(* order.  ~VulkanContext destroys the allocator before the members.       *)
ContextMembers == <<"instance", "physicalDevice", "device", "queue",
                    "commandPool", "allocator">>
SceneMembers == <<"vertexBuffer", "indexBuffer", "materialBuffer",
                  "materialIndexBuffer">>

(* Mutant: the set is declared before the pool it comes from.              *)
TracerMembersSetFirst ==
    <<"outputImage", "outputImageView", "blasBuffer", "blas", "tlasBuffer",
      "tlas", "instanceBuffer", "pipelineLayout", "pipeline",
      "descriptorSetLayout", "descriptorSet", "descriptorPool", "sbtBuffer">>

TracerMembers ==
    <<"outputImage", "outputImageView", "blasBuffer", "blas", "tlasBuffer",
      "tlas", "instanceBuffer", "pipelineLayout", "pipeline",
      "descriptorSetLayout", "descriptorPool", "descriptorSet", "sbtBuffer">>

Locals == <<"scratchBuffer", "tlasScratchBuffer", "raygenModule",
            "missModule", "chitModule", "stagingBuffer">>

Declared == ContextMembers \o SceneMembers \o TracerMembers \o Locals
Objects == {Declared[i] : i \in DOMAIN Declared}

Buffers == {"vertexBuffer", "indexBuffer", "materialBuffer",
            "materialIndexBuffer", "blasBuffer", "tlasBuffer",
            "instanceBuffer", "sbtBuffer", "scratchBuffer",
            "tlasScratchBuffer", "stagingBuffer"}

(* What Vulkan and its memory allocator want to be alive as long as an     *)
(* object is.                                                              *)
Needs(o) ==
    CASE o = "instance"       -> {}
      [] o = "physicalDevice" -> {"instance"}
      [] o = "device"         -> {"physicalDevice"}
      [] o = "allocator"      -> {"device", "instance"}
      [] o \in Buffers \cup {"outputImage"} -> {"allocator"}
      [] o = "outputImageView" -> {"device", "outputImage"}
      [] o = "blas"           -> {"device", "blasBuffer"}
      [] o = "tlas"           -> {"device", "tlasBuffer"}
      [] o = "descriptorSet"  -> {"device", "descriptorPool"}
      [] OTHER                -> {"device"}

Layouts == {"undefined", "general", "transferSrc"}

(* What recording and submitting a command buffer takes.                   *)
Recording == {"device", "commandPool", "queue"}

Step(op, objs, uses, from, to) ==
    [op |-> op, objs |-> objs, uses |-> uses, from |-> from, to |-> to]
Make(o, uses) == Step("make", {o}, uses, Layouts, "same")
Commands(uses) == Step("commands", {}, uses \cup Recording, Layouts, "same")
Transition(uses, from, to) ==
    Step("commands", {}, uses \cup Recording, {from}, to)
Host(uses) == Step("host", {}, uses, Layouts, "same")
Leave(objs) == Step("leave", objs, {}, Layouts, "same")

-----------------------------------------------------------------------------
(* VulkanContext's constructor; "select" is selectPhysicalDevice.          *)

CreateInstance == << Make("instance", {}) >>
CreateLogicalDevice == << Make("device", {"physicalDevice"}),
                          Make("queue", {"device"}) >>
CreateCommandPool == << Make("commandPool", {"device"}) >>
CreateAllocator ==
    << Make("allocator", {"physicalDevice", "device", "instance"}) >>

(* Mutant: the allocator is made before the constructor's last throw.      *)
VulkanContextAllocatorEarly ==
    CreateInstance
    \o << Step("select", {"physicalDevice"}, {"instance"}, Layouts, "same") >>
    \o CreateLogicalDevice \o CreateAllocator \o CreateCommandPool

VulkanContext ==
    CreateInstance
    \o << Step("select", {"physicalDevice"}, {"instance"}, Layouts, "same") >>
    \o CreateLogicalDevice \o CreateCommandPool \o CreateAllocator

(* Loading the glTF file and flattening it may throw; then the buffers.    *)
Scene == << Host({}) >>
         \o [i \in DOMAIN SceneMembers |-> Make(SceneMembers[i], {"allocator"})]

CreateOutputImage ==
    << Make("outputImage", {"allocator"}),
       Make("outputImageView", {"device", "outputImage"}),
       Transition({"outputImage"}, "undefined", "general") >>

(* Mutant: the scratch buffer of the lower level is gone when it is used.  *)
CreateAccelerationStructuresScratchGone ==
    << Make("blasBuffer", {"allocator"}),
       Make("blas", {"device", "blasBuffer"}),
       Make("scratchBuffer", {"allocator"}),
       Leave({"scratchBuffer"}),
       Commands({"blas", "scratchBuffer", "vertexBuffer", "indexBuffer"}),
       Make("instanceBuffer", {"allocator", "blas"}),
       Make("tlasBuffer", {"allocator"}),
       Make("tlas", {"device", "tlasBuffer"}),
       Make("tlasScratchBuffer", {"allocator"}),
       Commands({"tlas", "tlasScratchBuffer", "instanceBuffer", "blas"}),
       Leave({"tlasScratchBuffer"}) >>

CreateAccelerationStructures ==
    << Make("blasBuffer", {"allocator"}),
       Make("blas", {"device", "blasBuffer"}),
       Make("scratchBuffer", {"allocator"}),
       Commands({"blas", "scratchBuffer", "vertexBuffer", "indexBuffer"}),
       Make("instanceBuffer", {"allocator", "blas"}),
       Make("tlasBuffer", {"allocator"}),
       Make("tlas", {"device", "tlasBuffer"}),
       Make("tlasScratchBuffer", {"allocator"}),
       Commands({"tlas", "tlasScratchBuffer", "instanceBuffer", "blas"}),
       Leave({"scratchBuffer", "tlasScratchBuffer"}) >>

(* The host step is loadShader, which throws when a file does not open.    *)
CreateRayTracingPipeline ==
    << Host({}),
       Make("raygenModule", {"device"}),
       Make("missModule", {"device"}),
       Make("chitModule", {"device"}),
       Make("descriptorSetLayout", {"device"}),
       Make("pipelineLayout", {"device", "descriptorSetLayout"}),
       Make("pipeline", {"device", "pipelineLayout", "raygenModule",
                         "missModule", "chitModule"}),
       Leave({"raygenModule", "missModule", "chitModule"}) >>

CreateShaderBindingTable ==
    << Host({"pipeline"}), Make("sbtBuffer", {"allocator"}) >>

CreateDescriptorSets ==
    << Make("descriptorPool", {"device"}),
       Make("descriptorSet", {"descriptorPool", "descriptorSetLayout", "tlas",
                              "outputImageView", "vertexBuffer", "indexBuffer",
                              "materialBuffer", "materialIndexBuffer"}) >>

PathTracerConstructor ==
    CreateOutputImage \o CreateAccelerationStructures
    \o CreateRayTracingPipeline \o CreateShaderBindingTable
    \o CreateDescriptorSets

(* One dispatch reads everything the descriptor set and the acceleration   *)
(* structures refer to.                                                    *)
TraceRays ==
    Step("trace", {}, Recording \cup
                      {"pipeline", "pipelineLayout", "descriptorSet", "tlas",
                       "blas", "outputImage", "outputImageView", "sbtBuffer",
                       "vertexBuffer", "indexBuffer", "materialBuffer",
                       "materialIndexBuffer"}, {"general"}, "same")

(* The step that writes the file never throws: stbi_write_png's result is  *)
(* not looked at.                                                          *)
SaveImage ==
    << Make("stagingBuffer", {"allocator"}),
       Transition({"outputImage", "stagingBuffer"}, "general", "transferSrc"),
       Step("write", {}, {"stagingBuffer"}, Layouts, "same"),
       Leave({"stagingBuffer"}) >>

(* The block of generateScene that ends with ctx.device().waitIdle().      *)
Program == VulkanContext \o Scene \o PathTracerConstructor \o << TraceRays >>
           \o SaveImage \o << Host({"device"}) >>

-----------------------------------------------------------------------------
(* The shader binding table: raygen, miss and hit, a handle each.  The     *)
(* alignments are powers of two, for which the code's bit mask rounds up.  *)

AlignUp(n, alignment) == ((n + alignment - 1) \div alignment) * alignment

HandleStride(gpu) == AlignUp(gpu.handleSize, gpu.handleAlignment)
BaseStride(gpu)   == AlignUp(gpu.handleSize, gpu.baseAlignment)
GroupCount == 3
SbtSize(gpu) == GroupCount * BaseStride(gpu)

(* Where the copy loop puts the handle of a group.                         *)
HandleOffset(gpu, group) == group * BaseStride(gpu)

(* Mutant: the hit region starts where packed handles would put it.        *)
SbtRegionPacked(gpu, group) ==
    [offset |-> group * HandleStride(gpu), size |-> HandleStride(gpu)]

(* m_raygenRegion, m_missRegion, m_hitRegion, relative to the buffer.      *)
SbtRegion(gpu, group) ==
    [offset |-> group * BaseStride(gpu), size |-> HandleStride(gpu)]
=============================================================================
