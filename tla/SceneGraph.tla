----------------------------- MODULE SceneGraph -----------------------------
(***************************************************************************)
(* A glTF file becomes the vertices, triangles and materials of a frame:   *)
(* SceneGraph::fromGltf loads the node tree into a SceneBuilder,           *)
(* updateAnimation sets the nodes the first animation moves, and           *)
(* flattenToScene walks the tree and appends every mesh in world space.    *)
(* The recursions run on explicit stacks, the call to make next first.     *)
(*                                                                         *)
(* Numbers that are indices start at 0 as in the file and the code; None   *)
(* is -1.  A vertex is its position in its mesh.  A transform is kept as   *)
(* where its translation, rotation and scale come from, a world transform  *)
(* as the local ones multiplied, root first; the arithmetic is left out.   *)
(***************************************************************************)
EXTENDS Integers, Sequences, FiniteSets

CONSTANTS
    Files,  \* the parsed glTF files (tinygltf::Model) a scene may be
    Times   \* animation times a frame may be rendered at

None == -1

Paths == {"translation", "rotation", "scale"}

(* Where a part of a transform comes from: nowhere, the node in the file,  *)
(* one key of a channel, or two keys and the position between them.        *)
Identity == << >>
FromFile == <<0>>
Zero     == << None >>
Key(i)   == <<i>>
Between(i, done, span) == <<i, i + 1, done, span>>

Primitive == [triangles : BOOLEAN, vertices : Nat, indices : Seq(Nat),
              material : Nat \cup {None}]
GltfNodeData == [children : Seq(Nat), mesh : Nat \cup {None},
                 trs : SUBSET Paths]
Channel == [node : Nat \cup {None}, path : STRING, times : Seq(Int)]
File == [parses : BOOLEAN, scenes : Nat, defaultScene : Nat \cup {None},
         roots : Seq(Nat), nodes : Seq(GltfNodeData),
         meshes : Seq(Seq(Primitive)), channels : Seq(Channel)]

(* What glTF asks of a file and the code takes for granted.                *)

NodesOf(f)       == 0 .. Len(f.nodes) - 1
ChildrenIn(f, n) == {f.nodes[n + 1].children[i] :
                        i \in DOMAIN f.nodes[n + 1].children}

IndicesInRange(f) ==
    /\ \A i \in DOMAIN f.roots : f.roots[i] \in NodesOf(f)
    /\ \A n \in NodesOf(f) :
        /\ ChildrenIn(f, n) \subseteq NodesOf(f)
        /\ f.nodes[n + 1].mesh \in {None} \cup 0 .. Len(f.meshes) - 1

TrianglesAreWhole(f) ==
    \A i \in DOMAIN f.meshes : \A k \in DOMAIN f.meshes[i] :
        LET primitive == f.meshes[i][k]
        IN  primitive.triangles =>
                /\ Len(primitive.indices) % 3 = 0
                /\ \A c \in DOMAIN primitive.indices :
                        primitive.indices[c] < primitive.vertices

(* A channel has keys, in the order of time, and its target to itself.     *)
ChannelsAreSound(f) ==
    \A k \in DOMAIN f.channels :
        LET t == f.channels[k].times
        IN  /\ t # << >>
            /\ \A i \in 1 .. Len(t) - 1 : t[i] < t[i + 1]
            /\ \A l \in DOMAIN f.channels :
                  /\ f.channels[l].node = f.channels[k].node
                  /\ f.channels[l].path = f.channels[k].path
                  => l = k

(* m is n or a descendant of n: it is in every set that contains n and     *)
(* the children of its members.                                            *)
BelowIn(f, n) ==
    {m \in NodesOf(f) :
        \A S \in SUBSET NodesOf(f) :
            n \in S /\ (\A p \in S : ChildrenIn(f, p) \subseteq S) => m \in S}

(* The nodes form trees, and a scene names roots.                          *)
NodesFormTrees(f) ==
    /\ \A i, j \in DOMAIN f.roots : f.roots[i] = f.roots[j] => i = j
    /\ \A n \in NodesOf(f) :
        LET children == f.nodes[n + 1].children
        IN  /\ \A i, j \in DOMAIN children : children[i] = children[j] => i = j
            /\ \A c \in ChildrenIn(f, n) :
                /\ n \notin BelowIn(f, c)
                /\ \A i \in DOMAIN f.roots : f.roots[i] # c
                /\ \A m \in NodesOf(f) : c \in ChildrenIn(f, m) => m = n

ASSUME FilesAssumption ==
    /\ Times \subseteq Int
    /\ \A f \in Files :
        /\ f \in File
        /\ IndicesInRange(f)
        /\ TrianglesAreWhole(f)
        /\ ChannelsAreSound(f)
        /\ NodesFormTrees(f)

VARIABLES
    file,       \* the model
    time,       \* the frame's animation time
    pc,         \* "load", "nodes", "animate", "roots", "walk", "built",
                \* "failed", "undefined"
    calls,      \* calls of loadGltfNode still to make
    nodes,      \* m_nodes of the builder
    meshes,     \* m_meshes
    materials,  \* m_materials
    channel,    \* channels of the animation applied so far
    walk,       \* calls of traverseAndFlatten still to make
    vertices, indices, materialIndices  \* what goes to the GPU

builder == <<nodes, meshes, materials>>
output  == <<vertices, indices, materialIndices>>
vars == <<file, time, pc, calls, builder, channel, walk, output>>

Init ==
    /\ file \in Files
    /\ time \in Times
    /\ pc = "load"
    /\ calls = << >>
    /\ nodes = << >> /\ meshes = << >> /\ materials = << >>
    /\ channel = 0
    /\ walk = << >>
    /\ vertices = << >> /\ indices = << >> /\ materialIndices = << >>

GltfNode(n) == file.nodes[n + 1]
Node(id)    == nodes[id + 1]
Ids         == 0 .. Len(nodes) - 1

-----------------------------------------------------------------------------
(* Loading.                                                                *)

(* loadGltfFile throws when the file does not parse or has no scene, and   *)
(* fromGltf takes scenes[defaultScene].  A file need not name a default    *)
(* scene; the index is then -1 and the read is out of bounds.              *)
LoadGltfFile ==
    /\ pc = "load"
    /\ pc' = CASE ~ file.parses \/ file.scenes = 0 -> "failed"
               [] file.defaultScene = None -> "undefined"
               [] OTHER -> "nodes"
    /\ calls' = [i \in DOMAIN file.roots |->
                    [node |-> file.roots[i], parent |-> None]]
    /\ UNCHANGED <<file, time, builder, channel, walk, output>>

(* getGltfNodeTransform.                                                   *)
GltfTransform(g) == [p \in Paths |-> IF p \in g.trs THEN FromFile ELSE Identity]

Primitives(g) == IF g.mesh = None THEN << >> ELSE file.meshes[g.mesh + 1]

(* Only the first primitive counts; one that is not made of triangles ends *)
(* the call, before the children.                                          *)
HasPrimitive(g) == Primitives(g) # << >>
Skipped(g) == HasPrimitive(g) /\ ~ Primitives(g)[1].triangles
Drawn(g)   == HasPrimitive(g) /\ Primitives(g)[1].triangles

CreateNode(g, call) ==
    [name |-> call.node, local |-> GltfTransform(g), parent |-> call.parent,
     children |-> << >>, mesh |-> IF Drawn(g) THEN Len(meshes) ELSE None,
     parts |-> [p \in Paths |-> Identity]]

(* Mutant: every child is entered with the first node.                     *)
SetParentFirst(child, parent) ==
    IF parent = None THEN nodes
    ELSE [nodes EXCEPT ![1].children = Append(@, child)]

SetParent(child, parent) ==
    IF parent = None THEN nodes
    ELSE [nodes EXCEPT ![parent + 1].children = Append(@, child)]

(* Mutant: children hang off the root of their tree.                       *)
ChildCallsToRoot(g, call) ==
    [i \in DOMAIN g.children |->
        [node |-> g.children[i],
         parent |-> IF call.parent = None THEN Len(nodes) ELSE call.parent]]

(* Mutant: a node's last child is forgotten.                               *)
ChildCallsButLast(g, call) ==
    [i \in 1 .. Len(g.children) - 1 |->
        [node |-> g.children[i], parent |-> Len(nodes)]]

ChildCalls(g, call) ==
    [i \in DOMAIN g.children |->
        [node |-> g.children[i], parent |-> Len(nodes)]]

LoadGltfNode ==
    /\ pc = "nodes" /\ calls # << >>
    /\ LET call == Head(calls)
           g == GltfNode(call.node)
       IN /\ nodes' = Append(SetParent(Len(nodes), call.parent),
                             CreateNode(g, call))
          /\ IF Drawn(g)
             THEN LET primitive == Primitives(g)[1]
                  IN /\ materials' = Append(materials, primitive.material)
                     /\ meshes' = Append(meshes,
                            [vertices |-> primitive.vertices,
                             indices |-> primitive.indices,
                             material |-> Len(materials)])
             ELSE UNCHANGED <<meshes, materials>>
          /\ calls' = (IF Skipped(g) THEN << >> ELSE ChildCalls(g, call))
                      \o Tail(calls)
    /\ UNCHANGED <<file, time, pc, channel, walk, output>>

LoadEnds ==
    /\ pc = "nodes" /\ calls = << >>
    /\ pc' = "animate"
    /\ UNCHANGED <<file, time, calls, builder, channel, walk, output>>

-----------------------------------------------------------------------------
(* Animating: the channels of the first animation, one after the other.    *)

(* sampleVec3Channel and sampleQuatChannel.  The times of a channel grow,  *)
(* so one pair of keys encloses a time between the first and the last.     *)
Sample(c) ==
    LET t == c.times
        Brackets(i) == t[i] <= time /\ time <= t[i + 1]
    IN IF Len(t) = 0 THEN (IF c.path = "rotation" THEN Identity ELSE Zero)
       ELSE IF time <= t[1] THEN Key(1)
       ELSE IF time >= t[Len(t)] THEN Key(Len(t))
       ELSE LET i == CHOOSE i \in 1 .. Len(t) - 1 :
                         Brackets(i) /\ \A k \in 1 .. i - 1 : ~ Brackets(k)
            IN  Between(i, time - t[i], t[i + 1] - t[i])

(* Mutant: the new part replaces the whole transform.                      *)
WithPartAlone(node, path, value) ==
    LET parts == [[p \in Paths |-> Identity] EXCEPT ![path] = value]
    IN [node EXCEPT !.parts = parts, !.local = parts]

(* setNodeTranslation, -Rotation, -Scale and updateNodeTransform: the      *)
(* local transform is made anew of the parts that have been set, which are *)
(* never those of the file.                                                *)
WithPart(node, path, value) ==
    LET parts == [node.parts EXCEPT ![path] = value]
    IN [node EXCEPT !.parts = parts, !.local = parts]

(* Mutant: id 0 is taken for no node.                                      *)
IsNodeIdPositive(n) == n \in Ids \ {0}

IsNodeId(n) == n \in Ids

(* A channel's target is an index into the file's nodes; the setter takes  *)
(* it for a node id of the builder and throws when there is no such id.    *)
UpdateAnimation ==
    /\ pc = "animate" /\ channel < Len(file.channels)
    /\ LET c == file.channels[channel + 1]
       IN CASE c.path \notin Paths ->
                 UNCHANGED <<nodes, pc>>
            [] c.path \in Paths /\ ~ IsNodeId(c.node) ->
                 pc' = "failed" /\ UNCHANGED nodes
            [] OTHER ->
                 /\ nodes' = [nodes EXCEPT
                        ![c.node + 1] = WithPart(@, c.path, Sample(c))]
                 /\ UNCHANGED pc
    /\ channel' = channel + 1
    /\ UNCHANGED <<file, time, calls, meshes, materials, walk, output>>

AnimationEnds ==
    /\ pc = "animate" /\ channel = Len(file.channels)
    /\ pc' = "roots"
    /\ UNCHANGED <<file, time, calls, builder, channel, walk, output>>

-----------------------------------------------------------------------------
(* Flattening.                                                             *)

Roots == {id \in Ids : Node(id).parent = None}

(* getRootNodes, in the order of the ids.                                  *)
RootNodes ==
    CHOOSE ids \in [1 .. Cardinality(Roots) -> Roots] :
        \A i, j \in DOMAIN ids : i < j => ids[i] < ids[j]

FlattenToScene ==
    /\ pc = "roots"
    /\ walk' = [i \in DOMAIN RootNodes |->
                    [node |-> RootNodes[i], above |-> << >>]]
    /\ pc' = "walk"
    /\ UNCHANGED <<file, time, calls, builder, channel, output>>

World(call) ==
    Append(call.above,
           [node |-> Node(call.node).name, local |-> Node(call.node).local])

(* Mutant: indices keep counting from the mesh's first vertex.             *)
OffsetIndicesNot(mesh) == mesh.indices

OffsetIndices(mesh) ==
    [i \in DOMAIN mesh.indices |-> Len(vertices) + mesh.indices[i]]

TriangleCount(mesh) == Len(mesh.indices) \div 3

TraverseAndFlatten ==
    /\ pc = "walk" /\ walk # << >>
    /\ LET call == Head(walk)
           node == Node(call.node)
       IN /\ IF node.mesh = None THEN UNCHANGED output
             ELSE LET mesh == meshes[node.mesh + 1]
                  IN /\ vertices' = vertices \o
                            [i \in 1 .. mesh.vertices |->
                                [node |-> node.name, vertex |-> i - 1,
                                 world |-> World(call)]]
                     /\ indices' = indices \o OffsetIndices(mesh)
                     /\ materialIndices' = materialIndices \o
                            [i \in 1 .. TriangleCount(mesh) |-> mesh.material]
          /\ walk' = [i \in DOMAIN node.children |->
                         [node |-> node.children[i], above |-> World(call)]]
                     \o Tail(walk)
    /\ UNCHANGED <<file, time, pc, calls, builder, channel>>

(* "Scene has no geometry", and Scene's constructor, which throws when a   *)
(* buffer would be empty.                                                  *)
Build ==
    /\ pc = "walk" /\ walk = << >>
    /\ pc' = IF vertices = << >> \/ indices = << >> \/ materialIndices = << >>
             THEN "failed" ELSE "built"
    /\ UNCHANGED <<file, time, calls, builder, channel, walk, output>>

Next ==
    \/ LoadGltfFile \/ LoadGltfNode \/ LoadEnds
    \/ UpdateAnimation \/ AnimationEnds
    \/ FlattenToScene \/ TraverseAndFlatten \/ Build

Spec == Init /\ [][Next]_vars

-----------------------------------------------------------------------------
(* Properties.                                                             *)

GltfNodes   == NodesOf(file)
Children(n) == ChildrenIn(file, n)
Below(n)    == BelowIn(file, n)

(* The path of file nodes from a root down to node n.                      *)
IsPathTo(path, n) ==
    /\ path # << >>
    /\ \E i \in DOMAIN file.roots : file.roots[i] = Head(path)
    /\ \A i \in 1 .. Len(path) - 1 : path[i + 1] \in Children(path[i])
    /\ path[Len(path)] = n

Names(world) == [i \in DOMAIN world |-> world[i].node]

Reachable == UNION {Below(file.roots[i]) : i \in DOMAIN file.roots}

(* The nodes the builder cannot keep: those of a mesh whose first          *)
(* primitive is not made of triangles, and everything below them.  It      *)
(* makes a node of the former, but does not go on to the latter.           *)
SkippedNodes == {n \in GltfNodes : Skipped(GltfNode(n))}
Lost         == UNION {Below(n) : n \in SkippedNodes}
NotEntered   == UNION {Below(n) \ {n} : n \in SkippedNodes}

(* Ids index the builder's tables, parents and children agree, and no      *)
(* output refers to a mesh or material that does not exist.                *)
TypeOK ==
    /\ file \in Files /\ time \in Times
    /\ pc \in {"load", "nodes", "animate", "roots", "walk", "built", "failed",
               "undefined"}
    /\ \A id \in Ids :
        /\ Node(id).mesh \in {None} \cup 0 .. Len(meshes) - 1
        /\ Node(id).parent \in {None} \cup 0 .. id - 1
        /\ \A i \in DOMAIN Node(id).children :
                Node(Node(id).children[i]).parent = id
    /\ \A i \in DOMAIN meshes : meshes[i].material \in 0 .. Len(materials) - 1
    /\ channel \in 0 .. Len(file.channels)

(* The frame shows the mesh of every node of the scene once, but for the   *)
(* nodes at and below a mesh that is not made of triangles: the warning    *)
(* speaks of the primitive only.                                           *)
GeometryIsKept ==
    pc = "built" =>
        /\ {<<vertices[i].node, vertices[i].vertex>> : i \in DOMAIN vertices} =
             UNION {{n} \X (0 .. Primitives(GltfNode(n))[1].vertices - 1) :
                n \in {m \in Reachable \ Lost : HasPrimitive(GltfNode(m))}}
        /\ \A i, j \in DOMAIN vertices :
             vertices[i].node = vertices[j].node
             /\ vertices[i].vertex = vertices[j].vertex => i = j

(* A vertex is moved by the local transforms on the path from its root to  *)
(* its node, each once and in that order, although the file, the builder   *)
(* and the traversal number the nodes differently.                         *)
WorldTransformsFollowTheTree ==
    \A i \in DOMAIN vertices : IsPathTo(Names(vertices[i].world),
                                        vertices[i].node)

(* Each triangle has its three corners in the vertices of one node and the *)
(* material of that node's primitive.                                      *)
TrianglesStayTogether ==
    pc = "built" =>
        /\ Len(indices) = 3 * Len(materialIndices)
        /\ \A k \in DOMAIN materialIndices :
            \E n \in GltfNodes :
                /\ \A corner \in 1 .. 3 :
                    LET i == indices[3 * (k - 1) + corner]
                    IN i < Len(vertices) /\ vertices[i + 1].node = n
                /\ Primitives(GltfNode(n))[1].material =
                     materials[materialIndices[k] + 1]

(* The point of its channel's time line a sampled part stands for, in      *)
(* units of the span between the keys.                                     *)
StandsFor(part, c) ==
    CASE Len(part) = 1 -> c.times[part[1]] = time
                          \/ (part[1] = 1 /\ time < c.times[1])
                          \/ (part[1] = Len(c.times) /\ time > c.times[part[1]])
      [] Len(part) = 4 -> /\ part[2] = part[1] + 1 /\ part[4] > 0
                          /\ part[3] \in 0 .. part[4]
                          /\ c.times[part[1]] + part[3] = time
                          /\ c.times[part[1]] + part[4] = c.times[part[2]]
      [] OTHER -> FALSE

(* Where the file numbers its nodes the way the builder does, every part a *)
(* linear channel moves is sampled at the frame's time, held before the    *)
(* first and after the last key, and a node no channel moves keeps the     *)
(* transform of the file.  (The other parts of an animated node do not:    *)
(* they are reset.)                                                        *)
AnimationFollowsTheFile ==
    pc = "built" /\ (\A id \in Ids : Node(id).name = id) =>
        \A id \in Ids :
            LET Moving == {k \in DOMAIN file.channels :
                             file.channels[k].node = id
                             /\ file.channels[k].path \in Paths}
            IN /\ Moving = {} => Node(id).local = GltfTransform(GltfNode(id))
               /\ \A k \in Moving :
                    StandsFor(Node(id).local[file.channels[k].path],
                              file.channels[k])

(* A frame fails only for a file that does not load, an animation of a     *)
(* node the scene does not load, or a scene without triangles.             *)
FailuresHaveACause ==
    pc = "failed" =>
        \/ ~ file.parses \/ file.scenes = 0
        \/ \E k \in DOMAIN file.channels :
             /\ file.channels[k].path \in Paths
             /\ file.channels[k].node \notin
                  0 .. Cardinality(Reachable \ NotEntered) - 1
        \/ \A n \in Reachable \ Lost :
             HasPrimitive(GltfNode(n)) =>
                Primitives(GltfNode(n))[1].indices = << >>
=============================================================================
