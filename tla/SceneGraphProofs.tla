-------------------------- MODULE SceneGraphProofs --------------------------
(***************************************************************************)
(* Proofs about SceneGraph, for every set of files that keep the rules of  *)
(* glTF FilesAssumption lists and for every time.  The builder's nodes     *)
(* follow the file's: each stands for a file node, below the node that     *)
(* stands for its parent, and its mesh is that of the file.                *)
(***************************************************************************)
EXTENDS SceneGraph, FiniteSetTheorems, FunctionTheorems, WellFoundedInduction, TLAPS

-----------------------------------------------------------------------------
(* Types.                                                                  *)

Transform == [Paths -> Seq(Int)]
BuilderNode == [name : Nat, local : Transform, parent : Nat \cup {None},
                children : Seq(Nat), mesh : Nat \cup {None}, parts : Transform]
Mesh == [vertices : Nat, indices : Seq(Nat), material : Nat]
LoadCall == [node : Nat, parent : Nat \cup {None}]
WorldStep == [node : Nat, local : Transform]
WalkCall == [node : Nat, above : Seq(WorldStep)]
Vertex == [node : Nat, vertex : Nat, world : Seq(WorldStep)]

InputTypes ==
    /\ file \in Files /\ time \in Times
    /\ pc \in {"load", "nodes", "animate", "roots", "walk", "built", "failed",
               "undefined"}
    /\ channel \in 0 .. Len(file.channels)

BuilderTypes ==
    /\ nodes \in Seq(BuilderNode)
    /\ meshes \in Seq(Mesh)
    /\ materials \in Seq(Nat \cup {None})
    /\ calls \in Seq(LoadCall)

OutputTypes ==
    /\ walk \in Seq(WalkCall)
    /\ vertices \in Seq(Vertex)
    /\ indices \in Seq(Nat)
    /\ materialIndices \in Seq(Nat)

Types == InputTypes /\ BuilderTypes /\ OutputTypes

(* The file of a frame is one glTF allows.                                 *)
LEMMA FileFacts ==
    ASSUME file \in Files
    PROVE  /\ file \in File
           /\ file.roots \in Seq(Nat) /\ file.nodes \in Seq(GltfNodeData)
           /\ file.meshes \in Seq(Seq(Primitive))
           /\ file.channels \in Seq(Channel)
           /\ IndicesInRange(file) /\ TrianglesAreWhole(file)
           /\ ChannelsAreSound(file) /\ NodesFormTrees(file)
<1>1. /\ file \in File
      /\ IndicesInRange(file) /\ TrianglesAreWhole(file)
      /\ ChannelsAreSound(file) /\ NodesFormTrees(file)
  BY FilesAssumption
<1>2. QED
  BY <1>1 DEF File

(* A node of the file, and the first primitive of its mesh.                *)
LEMMA GltfNodeFacts ==
    ASSUME file \in Files, NEW n \in GltfNodes
    PROVE  /\ n \in Nat /\ n + 1 \in DOMAIN file.nodes
           /\ GltfNode(n) \in GltfNodeData
           /\ GltfNode(n).children \in Seq(Nat)
           /\ \A i \in DOMAIN GltfNode(n).children :
                  GltfNode(n).children[i] \in GltfNodes
           /\ Children(n) \subseteq GltfNodes
           /\ Primitives(GltfNode(n)) \in Seq(Primitive)
<1>1. file.nodes \in Seq(GltfNodeData) /\ file.meshes \in Seq(Seq(Primitive))
  BY FileFacts
<1>2. n \in Nat /\ n + 1 \in DOMAIN file.nodes
  BY <1>1 DEF GltfNodes, NodesOf
<1>3. GltfNode(n) \in GltfNodeData
  BY <1>1, <1>2 DEF GltfNode
<1>4. GltfNode(n).children \in Seq(Nat)
  BY <1>3 DEF GltfNodeData
<1>5. Children(n) \subseteq GltfNodes
  BY FileFacts DEF IndicesInRange, GltfNodes, Children
<1>6. \A i \in DOMAIN GltfNode(n).children : GltfNode(n).children[i] \in Children(n)
  BY DEF Children, ChildrenIn, GltfNode
<1>7. GltfNode(n).mesh \in {None} \cup 0 .. Len(file.meshes) - 1
  BY FileFacts DEF IndicesInRange, GltfNodes, GltfNode
<1>8. CASE GltfNode(n).mesh = None
  BY <1>2, <1>3, <1>4, <1>5, <1>6, <1>8 DEF Primitives
<1>9. CASE GltfNode(n).mesh # None
  <2>1. GltfNode(n).mesh + 1 \in DOMAIN file.meshes
    BY <1>1, <1>7, <1>9
  <2>2. Primitives(GltfNode(n)) = file.meshes[GltfNode(n).mesh + 1]
    BY <1>9 DEF Primitives
  <2>3. file.meshes[GltfNode(n).mesh + 1] \in Seq(Primitive)
    BY <1>1, <2>1
  <2>4. QED
    BY <1>2, <1>3, <1>4, <1>5, <1>6, <2>2, <2>3
<1>10. QED
  BY <1>8, <1>9

LEMMA DrawnFacts ==
    ASSUME file \in Files, NEW n \in GltfNodes, HasPrimitive(GltfNode(n))
    PROVE  LET primitive == Primitives(GltfNode(n))[1]
           IN  /\ primitive \in Primitive
               /\ primitive.vertices \in Nat /\ primitive.indices \in Seq(Nat)
               /\ primitive.material \in Nat \cup {None}
               /\ primitive.triangles \in BOOLEAN
               /\ Drawn(GltfNode(n)) =>
                    /\ Len(primitive.indices) % 3 = 0
                    /\ \A c \in DOMAIN primitive.indices :
                            primitive.indices[c] < primitive.vertices
<1>1. Primitives(GltfNode(n)) \in Seq(Primitive) /\ Primitives(GltfNode(n)) # << >>
  BY GltfNodeFacts DEF HasPrimitive
<1>2. 1 \in DOMAIN Primitives(GltfNode(n))
  BY <1>1
<1>3. Primitives(GltfNode(n))[1] \in Primitive
  BY <1>1, <1>2
<1>4. GltfNode(n).mesh # None
  BY <1>1 DEF Primitives
<1>5. Primitives(GltfNode(n)) = file.meshes[GltfNode(n).mesh + 1]
  BY <1>4 DEF Primitives
<1>6. GltfNode(n).mesh + 1 \in DOMAIN file.meshes
  <2>1. GltfNode(n).mesh \in {None} \cup 0 .. Len(file.meshes) - 1
    BY FileFacts DEF IndicesInRange, GltfNodes, GltfNode
  <2>2. file.meshes \in Seq(Seq(Primitive))
    BY FileFacts
  <2>3. QED
    BY <1>4, <2>1, <2>2
<1>7. TrianglesAreWhole(file)
  BY FileFacts
<1>8. Drawn(GltfNode(n)) =>
        /\ Len(Primitives(GltfNode(n))[1].indices) % 3 = 0
        /\ \A c \in DOMAIN Primitives(GltfNode(n))[1].indices :
              Primitives(GltfNode(n))[1].indices[c]
                < Primitives(GltfNode(n))[1].vertices
  BY <1>2, <1>5, <1>6, <1>7 DEF TrianglesAreWhole, Drawn
<1>9. QED
  BY <1>3, <1>8 DEF Primitive

-----------------------------------------------------------------------------
(* The builder's nodes follow the file's.                                  *)

RootNames == {file.roots[i] : i \in DOMAIN file.roots}

(* A file node stands below the one a builder node stands for.             *)
StandsBelow(name, parent) ==
    IF parent = None THEN name \in RootNames
    ELSE parent \in Ids /\ name \in Children(Node(parent).name)

NodesFollowFile ==
    \A id \in Ids : /\ Node(id).name \in GltfNodes
                    /\ Node(id).parent \in {None} \cup 0 .. id - 1
                    /\ StandsBelow(Node(id).name, Node(id).parent)

CallsFollowFile ==
    \A i \in DOMAIN calls : /\ calls[i].node \in GltfNodes
                            /\ StandsBelow(calls[i].node, calls[i].parent)

(* Parents and children agree, and no child is entered twice.              *)
ChildrenAgree ==
    \A id \in Ids :
        /\ \A i \in DOMAIN Node(id).children :
              /\ Node(id).children[i] \in Ids
              /\ Node(Node(id).children[i]).parent = id
        /\ \A i, j \in DOMAIN Node(id).children :
              Node(id).children[i] = Node(id).children[j] => i = j
        /\ Node(id).parent # None =>
              \E i \in DOMAIN Node(Node(id).parent).children :
                    Node(Node(id).parent).children[i] = id

(* A builder node has a mesh if its file node is drawn, the one of its     *)
(* first primitive.                                                        *)
HasMeshOf(id, n) ==
    IF Drawn(GltfNode(n))
    THEN /\ Node(id).mesh \in 0 .. Len(meshes) - 1
         /\ LET primitive == Primitives(GltfNode(n))[1]
                mesh == meshes[Node(id).mesh + 1]
            IN  /\ mesh.vertices = primitive.vertices
                /\ mesh.indices = primitive.indices
                /\ materials[mesh.material + 1] = primitive.material
    ELSE Node(id).mesh = None

MeshesFollowFile ==
    /\ \A i \in DOMAIN meshes : meshes[i].material \in 0 .. Len(materials) - 1
    /\ \A id \in Ids : HasMeshOf(id, Node(id).name)

BuilderInv ==
    NodesFollowFile /\ CallsFollowFile /\ ChildrenAgree /\ MeshesFollowFile

-----------------------------------------------------------------------------
(* One call of loadGltfNode.                                               *)

LEMMA NodeFacts ==
    ASSUME BuilderTypes, NEW id \in Ids
    PROVE  /\ id \in Nat /\ id + 1 \in DOMAIN nodes
           /\ Node(id) \in BuilderNode
           /\ Node(id).name \in Nat /\ Node(id).local \in Transform
           /\ Node(id).parent \in Nat \cup {None}
           /\ Node(id).children \in Seq(Nat)
           /\ Node(id).mesh \in Nat \cup {None} /\ Node(id).parts \in Transform
<1>1. nodes \in Seq(BuilderNode)
  BY DEF BuilderTypes
<1>2. id \in Nat /\ id + 1 \in DOMAIN nodes
  BY <1>1 DEF Ids
<1>3. Node(id) \in BuilderNode
  BY <1>1, <1>2 DEF Node
<1>4. QED
  BY <1>2, <1>3 DEF BuilderNode

LEMMA FirstCall ==
    ASSUME BuilderTypes, calls # << >>
    PROVE  /\ 1 \in DOMAIN calls /\ Head(calls) = calls[1]
           /\ Head(calls) \in LoadCall
           /\ Head(calls).node \in Nat /\ Head(calls).parent \in Nat \cup {None}
           /\ Len(Tail(calls)) = Len(calls) - 1 /\ Len(calls) \in Nat \ {0}
           /\ Tail(calls) \in Seq(LoadCall)
           /\ \A i \in 1 .. Len(calls) - 1 : Tail(calls)[i] = calls[i + 1]
<1>1. calls \in Seq(LoadCall)
  BY DEF BuilderTypes
<1>2. /\ 1 \in DOMAIN calls /\ Head(calls) = calls[1]
      /\ Len(Tail(calls)) = Len(calls) - 1 /\ Len(calls) \in Nat \ {0}
      /\ Tail(calls) \in Seq(LoadCall)
      /\ \A i \in 1 .. Len(calls) - 1 : Tail(calls)[i] = calls[i + 1]
  BY <1>1
<1>3. calls[1] \in LoadCall
  BY <1>1, <1>2
<1>4. QED
  BY <1>2, <1>3 DEF LoadCall

LEMMA CreateNodeFacts ==
    ASSUME InputTypes, BuilderTypes, NEW call \in LoadCall,
           call.node \in GltfNodes
    PROVE  LET node == CreateNode(GltfNode(call.node), call)
           IN  /\ node \in BuilderNode
               /\ node.name = call.node /\ node.parent = call.parent
               /\ node.children = << >>
               /\ node.local = GltfTransform(GltfNode(call.node))
               /\ node.parts = [p \in Paths |-> Identity]
               /\ node.mesh = IF Drawn(GltfNode(call.node)) THEN Len(meshes)
                              ELSE None
<1>1. call.node \in Nat /\ call.parent \in Nat \cup {None}
  BY DEF LoadCall
<1>2. GltfTransform(GltfNode(call.node)) \in Transform
  BY DEF GltfTransform, Transform, FromFile, Identity
<1>3. [p \in Paths |-> Identity] \in Transform
  BY DEF Transform, Identity
<1>4. Len(meshes) \in Nat
  BY DEF BuilderTypes
<1>5. << >> \in Seq(Nat)
  OBVIOUS
<1>6. QED
  BY <1>1, <1>2, <1>3, <1>4, <1>5 DEF CreateNode, BuilderNode

LEMMA SetParentFacts ==
    ASSUME BuilderTypes, NEW parent \in {None} \cup Ids
    PROVE  LET n == Len(nodes)
           IN  /\ SetParent(n, parent) \in Seq(BuilderNode)
               /\ Len(SetParent(n, parent)) = n
               /\ \A id \in Ids : SetParent(n, parent)[id + 1] =
                    IF id = parent
                    THEN [Node(id) EXCEPT !.children = Append(@, n)]
                    ELSE Node(id)
<1> DEFINE n == Len(nodes)
<1>1. nodes \in Seq(BuilderNode) /\ n \in Nat
  BY DEF BuilderTypes
<1>2. CASE parent = None
  BY <1>1, <1>2 DEF SetParent, Ids, Node, None
<1>3. CASE parent # None
  <2>1. parent \in Ids /\ parent + 1 \in DOMAIN nodes
    BY <1>1, <1>3 DEF Ids
  <2>2. SetParent(n, parent) =
            [nodes EXCEPT ![parent + 1].children = Append(@, n)]
    BY <1>3 DEF SetParent
  <2>3. [Node(parent) EXCEPT !.children = Append(@, n)] \in BuilderNode
    <3>1. Append(Node(parent).children, n) \in Seq(Nat)
      BY <1>1, <2>1, NodeFacts
    <3>2. QED
      BY <2>1, <3>1, NodeFacts DEF BuilderNode
  <2>4. DEFINE changed == [Node(parent) EXCEPT !.children = Append(@, n)]
  <2>5. SetParent(n, parent) = [nodes EXCEPT ![parent + 1] = changed]
    BY <2>2 DEF Node
  <2> HIDE DEF changed
  <2>6. /\ SetParent(n, parent) \in Seq(BuilderNode)
        /\ Len(SetParent(n, parent)) = n
        /\ \A i \in DOMAIN nodes : SetParent(n, parent)[i] =
                IF i = parent + 1 THEN changed ELSE nodes[i]
    BY <1>1, <2>1, <2>3, <2>5 DEF changed
  <2>7. \A id \in Ids : id + 1 \in DOMAIN nodes
    BY <1>1 DEF Ids
  <2>8. \A id \in Ids : id + 1 = parent + 1 => id = parent
    BY <1>1, <2>1 DEF Ids
  <2>9. QED
    BY <2>6, <2>7, <2>8 DEF Node, changed
<1>4. QED
  BY <1>2, <1>3

(* What the call adds to the builder: a node, and its number at its parent.*)
LEMMA LoadedNodes ==
    ASSUME InputTypes, BuilderTypes, CallsFollowFile, LoadGltfNode
    PROVE  LET call == Head(calls)
               n == Len(nodes)
           IN  /\ call \in LoadCall /\ call.node \in GltfNodes
               /\ call.parent \in {None} \cup Ids
               /\ n \in Nat
               /\ nodes' \in Seq(BuilderNode) /\ Len(nodes') = n + 1
               /\ \A id \in Ids : nodes'[id + 1] =
                    IF id = call.parent
                    THEN [Node(id) EXCEPT !.children = Append(@, n)]
                    ELSE Node(id)
               /\ nodes'[n + 1] = CreateNode(GltfNode(call.node), call)
<1> DEFINE call == Head(calls)
           n == Len(nodes)
<1>1. calls # << >>
  BY DEF LoadGltfNode
<1>2. call = calls[1] /\ 1 \in DOMAIN calls /\ call \in LoadCall
  BY <1>1, FirstCall
<1>3. call.node \in GltfNodes /\ call.parent \in {None} \cup Ids
  BY <1>2 DEF CallsFollowFile, StandsBelow
<1>4. n \in Nat
  BY DEF BuilderTypes
<1>5. nodes' = Append(SetParent(n, call.parent),
                      CreateNode(GltfNode(call.node), call))
  BY DEF LoadGltfNode
<1>6. CreateNode(GltfNode(call.node), call) \in BuilderNode
  BY <1>2, <1>3, CreateNodeFacts
<1>7. /\ SetParent(n, call.parent) \in Seq(BuilderNode)
      /\ Len(SetParent(n, call.parent)) = n
      /\ \A id \in Ids : SetParent(n, call.parent)[id + 1] =
            IF id = call.parent
            THEN [Node(id) EXCEPT !.children = Append(@, n)]
            ELSE Node(id)
  BY <1>3, SetParentFacts
<1> HIDE DEF call, n
<1>8. /\ nodes' \in Seq(BuilderNode) /\ Len(nodes') = n + 1
      /\ nodes'[n + 1] = CreateNode(GltfNode(call.node), call)
      /\ \A i \in 1 .. n : nodes'[i] = SetParent(n, call.parent)[i]
  BY <1>4, <1>5, <1>6, <1>7
<1>9. \A id \in Ids : id + 1 \in 1 .. n
  BY <1>4 DEF Ids, n
<1>10. QED
  BY <1>2, <1>3, <1>4, <1>7, <1>8, <1>9 DEF call, n

(* The same, read node by node.                                            *)
LEMMA LoadedNodeByNode ==
    ASSUME InputTypes, BuilderTypes, CallsFollowFile, LoadGltfNode
    PROVE  LET call == Head(calls)
               n == Len(nodes)
           IN  /\ n \in Nat /\ n \notin Ids /\ Ids' = Ids \cup {n}
               /\ \A id \in Ids :
                    /\ nodes'[id + 1].name = Node(id).name
                    /\ nodes'[id + 1].parent = Node(id).parent
                    /\ nodes'[id + 1].mesh = Node(id).mesh
                    /\ nodes'[id + 1].local = Node(id).local
                    /\ nodes'[id + 1].parts = Node(id).parts
                    /\ nodes'[id + 1].children =
                         IF id = call.parent THEN Append(Node(id).children, n)
                         ELSE Node(id).children
               /\ nodes'[n + 1].name = call.node
               /\ nodes'[n + 1].parent = call.parent
               /\ nodes'[n + 1].children = << >>
               /\ nodes'[n + 1].local = GltfTransform(GltfNode(call.node))
               /\ nodes'[n + 1].parts = [p \in Paths |-> Identity]
               /\ nodes'[n + 1].mesh =
                    IF Drawn(GltfNode(call.node)) THEN Len(meshes) ELSE None
<1> DEFINE call == Head(calls)
           n == Len(nodes)
<1>1. /\ call \in LoadCall /\ call.node \in GltfNodes /\ n \in Nat
      /\ Len(nodes') = n + 1
      /\ \A id \in Ids : nodes'[id + 1] =
            IF id = call.parent
            THEN [Node(id) EXCEPT !.children = Append(@, n)]
            ELSE Node(id)
      /\ nodes'[n + 1] = CreateNode(GltfNode(call.node), call)
  BY LoadedNodes
<1>2. n \notin Ids /\ Ids' = Ids \cup {n}
  BY <1>1 DEF Ids
<1> HIDE DEF call, n
<1>3. ASSUME NEW id \in Ids
      PROVE  /\ nodes'[id + 1].name = Node(id).name
             /\ nodes'[id + 1].parent = Node(id).parent
             /\ nodes'[id + 1].mesh = Node(id).mesh
             /\ nodes'[id + 1].local = Node(id).local
             /\ nodes'[id + 1].parts = Node(id).parts
             /\ nodes'[id + 1].children =
                  IF id = call.parent THEN Append(Node(id).children, n)
                  ELSE Node(id).children
  <2>1. Node(id) \in BuilderNode
    BY NodeFacts
  <2>2. QED
    BY <1>1, <2>1 DEF BuilderNode
<1>4. /\ nodes'[n + 1].name = call.node
      /\ nodes'[n + 1].parent = call.parent
      /\ nodes'[n + 1].children = << >>
      /\ nodes'[n + 1].local = GltfTransform(GltfNode(call.node))
      /\ nodes'[n + 1].parts = [p \in Paths |-> Identity]
      /\ nodes'[n + 1].mesh =
            IF Drawn(GltfNode(call.node)) THEN Len(meshes) ELSE None
  BY <1>1, CreateNodeFacts
<1>5. QED
  BY <1>1, <1>2, <1>3, <1>4 DEF call, n

(* What the call leaves to do: its children, unless it is skipped, then    *)
(* what was left before.                                                   *)
LEMMA LoadedCalls ==
    ASSUME InputTypes, BuilderTypes, CallsFollowFile, LoadGltfNode
    PROVE  LET call == Head(calls)
               g == GltfNode(call.node)
               kids == IF Skipped(g) THEN 0 ELSE Len(g.children)
           IN  /\ kids \in Nat /\ Len(calls) \in Nat \ {0}
               /\ calls' \in Seq(LoadCall)
               /\ Len(calls') = kids + Len(calls) - 1
               /\ \A i \in 1 .. kids :
                    /\ i \in DOMAIN g.children
                    /\ calls'[i].node = g.children[i]
                    /\ calls'[i].parent = Len(nodes)
               /\ \A i \in 1 .. Len(calls) - 1 :
                    calls'[kids + i] = calls[i + 1]
<1> DEFINE call == Head(calls)
           g == GltfNode(call.node)
           kids == IF Skipped(g) THEN 0 ELSE Len(g.children)
           new == IF Skipped(g) THEN << >> ELSE ChildCalls(g, call)
<1>1. /\ Len(nodes) \in Nat
      /\ Len(Tail(calls)) = Len(calls) - 1 /\ Len(calls) \in Nat \ {0}
      /\ Tail(calls) \in Seq(LoadCall)
      /\ \A i \in 1 .. Len(calls) - 1 : Tail(calls)[i] = calls[i + 1]
  BY FirstCall DEF LoadGltfNode, BuilderTypes
<1>2. call.node \in GltfNodes
  BY LoadedNodes
<1>3. g.children \in Seq(Nat)
  BY <1>2, GltfNodeFacts DEF InputTypes
<1>4. calls' = new \o Tail(calls)
  BY DEF LoadGltfNode
<1> HIDE DEF call, g
<1>5. /\ new \in Seq(LoadCall) /\ Len(new) = kids /\ kids \in Nat
      /\ \A i \in 1 .. kids :
            /\ i \in DOMAIN g.children
            /\ new[i].node = g.children[i] /\ new[i].parent = Len(nodes)
  <2>1. CASE Skipped(g)
    BY <2>1
  <2>2. CASE ~ Skipped(g)
    <3>1. new = [i \in 1 .. Len(g.children) |->
                    [node |-> g.children[i], parent |-> Len(nodes)]]
      BY <1>3, <2>2 DEF ChildCalls
    <3>2. Len(g.children) \in Nat /\ DOMAIN g.children = 1 .. Len(g.children)
      BY <1>3
    <3>3. \A i \in 1 .. Len(g.children) :
             [node |-> g.children[i], parent |-> Len(nodes)] \in LoadCall
      BY <1>1, <1>3, <3>2 DEF LoadCall
    <3>4. new \in Seq(LoadCall) /\ Len(new) = Len(g.children)
      BY <3>1, <3>2, <3>3
    <3>5. QED
      BY <2>2, <3>1, <3>2, <3>4
  <2>3. QED
    BY <2>1, <2>2
<1> HIDE DEF new, kids
<1>6. /\ calls' \in Seq(LoadCall)
      /\ Len(calls') = kids + Len(calls) - 1
      /\ \A i \in 1 .. kids : calls'[i] = new[i]
      /\ \A i \in 1 .. Len(calls) - 1 : calls'[kids + i] = Tail(calls)[i]
  <2> DEFINE rest == Tail(calls)
  <2>1. /\ rest \in Seq(LoadCall) /\ new \in Seq(LoadCall)
        /\ Len(new) = kids /\ kids \in Nat
        /\ Len(rest) = Len(calls) - 1 /\ Len(calls) \in Nat \ {0}
    BY <1>1, <1>5
  <2>2. calls' = new \o rest
    BY <1>4
  <2> HIDE DEF rest
  <2>3. /\ calls' \in Seq(LoadCall)
        /\ Len(calls') = kids + Len(rest)
        /\ \A i \in 1 .. kids : calls'[i] = new[i]
        /\ \A i \in 1 .. Len(rest) : calls'[kids + i] = rest[i]
    BY <2>1, <2>2
  <2>4. QED
    BY <2>1, <2>3 DEF rest
<1>7. QED
  BY <1>1, <1>5, <1>6 DEF kids, g, call

(* The meshes and materials after the call.                                *)
LEMMA LoadedMeshes ==
    ASSUME InputTypes, BuilderTypes, CallsFollowFile, LoadGltfNode
    PROVE  LET n == Head(calls).node
               primitive == Primitives(GltfNode(n))[1]
           IN  /\ n \in GltfNodes
               /\ Len(meshes) \in Nat /\ Len(materials) \in Nat
               /\ meshes' \in Seq(Mesh) /\ materials' \in Seq(Nat \cup {None})
               /\ Len(meshes) <= Len(meshes') /\ Len(materials) <= Len(materials')
               /\ \A i \in 1 .. Len(meshes) : meshes'[i] = meshes[i]
               /\ \A i \in 1 .. Len(materials) : materials'[i] = materials[i]
               /\ Drawn(GltfNode(n)) =>
                    /\ Len(meshes') = Len(meshes) + 1
                    /\ Len(materials') = Len(materials) + 1
                    /\ meshes'[Len(meshes) + 1].vertices = primitive.vertices
                    /\ meshes'[Len(meshes) + 1].indices = primitive.indices
                    /\ meshes'[Len(meshes) + 1].material = Len(materials)
                    /\ materials'[Len(materials) + 1] = primitive.material
               /\ ~ Drawn(GltfNode(n)) =>
                    Len(meshes') = Len(meshes) /\ Len(materials') = Len(materials)
<1> DEFINE n == Head(calls).node
           primitive == Primitives(GltfNode(n))[1]
<1>1. n \in GltfNodes
  BY LoadedNodes
<1>2. /\ meshes \in Seq(Mesh) /\ materials \in Seq(Nat \cup {None})
      /\ Len(meshes) \in Nat /\ Len(materials) \in Nat
  BY DEF BuilderTypes
<1>3. CASE Drawn(GltfNode(n))
  <2> DEFINE mesh == [vertices |-> primitive.vertices,
                      indices |-> primitive.indices,
                      material |-> Len(materials)]
  <2>1. materials' = Append(materials, primitive.material)
        /\ meshes' = Append(meshes, mesh)
    BY <1>3 DEF LoadGltfNode
  <2>2. /\ primitive.vertices \in Nat /\ primitive.indices \in Seq(Nat)
        /\ primitive.material \in Nat \cup {None}
    BY <1>1, <1>3, DrawnFacts DEF InputTypes, Drawn
  <2> HIDE DEF primitive
  <2>3. mesh \in Mesh
    BY <1>2, <2>2 DEF Mesh
  <2>4. /\ mesh.vertices = primitive.vertices
        /\ mesh.indices = primitive.indices
        /\ mesh.material = Len(materials)
    OBVIOUS
  <2> HIDE DEF mesh
  <2>5. /\ meshes' \in Seq(Mesh) /\ Len(meshes') = Len(meshes) + 1
        /\ meshes'[Len(meshes) + 1] = mesh
        /\ \A i \in 1 .. Len(meshes) : meshes'[i] = meshes[i]
    BY <1>2, <2>1, <2>3
  <2>6. /\ materials' \in Seq(Nat \cup {None})
        /\ Len(materials') = Len(materials) + 1
        /\ materials'[Len(materials) + 1] = primitive.material
        /\ \A i \in 1 .. Len(materials) : materials'[i] = materials[i]
    BY <1>2, <2>1, <2>2
  <2>7. QED
    BY <1>1, <1>2, <1>3, <2>4, <2>5, <2>6 DEF primitive
<1>4. CASE ~ Drawn(GltfNode(n))
  <2>1. UNCHANGED <<meshes, materials>>
    BY <1>4 DEF LoadGltfNode
  <2>2. QED
    BY <1>1, <1>2, <1>4, <2>1
<1>5. QED
  BY <1>3, <1>4

LEMMA LoadTypes ==
    ASSUME InputTypes, BuilderTypes, CallsFollowFile, LoadGltfNode
    PROVE  BuilderTypes'
BY LoadedNodes, LoadedCalls, LoadedMeshes DEF BuilderTypes

(* A node keeps standing below its parent.                                 *)
LEMMA LoadKeepsStanding ==
    ASSUME InputTypes, BuilderTypes, CallsFollowFile, LoadGltfNode,
           NEW name, NEW parent, StandsBelow(name, parent)
    PROVE  /\ parent = None => name \in RootNames'
           /\ parent # None =>
                parent \in Ids' /\ name \in ChildrenIn(file', nodes'[parent + 1].name)
<1>1. file' = file
  BY DEF LoadGltfNode
<1>2. CASE parent = None
  BY <1>1, <1>2 DEF StandsBelow, RootNames
<1>3. CASE parent # None
  <2>1. parent \in Ids /\ name \in ChildrenIn(file, Node(parent).name)
    BY <1>3 DEF StandsBelow, Children
  <2>2. parent \in Ids' /\ nodes'[parent + 1].name = Node(parent).name
    BY <2>1, LoadedNodeByNode
  <2>3. QED
    BY <1>1, <1>3, <2>1, <2>2
<1>4. QED
  BY <1>2, <1>3

LEMMA LoadKeepsNodes ==
    ASSUME InputTypes, BuilderTypes, NodesFollowFile, CallsFollowFile,
           LoadGltfNode
    PROVE  NodesFollowFile'
<1> DEFINE call == Head(calls)
           n == Len(nodes)
<1>1. n \in Nat /\ n \notin Ids /\ Ids' = Ids \cup {n} /\ Ids = 0 .. n - 1
  BY LoadedNodeByNode DEF Ids
<1>2. /\ call.node \in GltfNodes /\ call.parent \in {None} \cup Ids
      /\ StandsBelow(call.node, call.parent)
  BY FirstCall DEF LoadGltfNode, CallsFollowFile, StandsBelow
<1>3. file' = file
  BY DEF LoadGltfNode
<1> HIDE DEF call, n
<1>4. ASSUME NEW id \in Ids'
      PROVE  \E name, parent :
                /\ nodes'[id + 1].name = name /\ nodes'[id + 1].parent = parent
                /\ name \in GltfNodes /\ parent \in {None} \cup 0 .. id - 1
                /\ StandsBelow(name, parent)
  <2>1. CASE id \in Ids
    <3>1. nodes'[id + 1].name = Node(id).name
          /\ nodes'[id + 1].parent = Node(id).parent
      BY <2>1, LoadedNodeByNode
    <3>2. QED
      BY <2>1, <3>1 DEF NodesFollowFile
  <2>2. CASE id = n
    <3>1. nodes'[id + 1].name = call.node /\ nodes'[id + 1].parent = call.parent
      BY <2>2, LoadedNodeByNode DEF n, call
    <3>2. QED
      BY <1>1, <1>2, <2>2, <3>1
  <2>3. QED
    BY <1>1, <2>1, <2>2
<1>5. ASSUME NEW id \in Ids'
      PROVE  /\ nodes'[id + 1].name \in GltfNodes'
             /\ nodes'[id + 1].parent \in {None} \cup 0 .. id - 1
             /\ nodes'[id + 1].parent = None => nodes'[id + 1].name \in RootNames'
             /\ nodes'[id + 1].parent # None =>
                    /\ nodes'[id + 1].parent \in Ids'
                    /\ nodes'[id + 1].name \in
                         ChildrenIn(file', nodes'[nodes'[id + 1].parent + 1].name)
  <2>1. PICK name, parent :
            /\ nodes'[id + 1].name = name /\ nodes'[id + 1].parent = parent
            /\ name \in GltfNodes /\ parent \in {None} \cup 0 .. id - 1
            /\ StandsBelow(name, parent)
    BY <1>4
  <2>2. /\ parent = None => name \in RootNames'
        /\ parent # None =>
             parent \in Ids' /\ name \in ChildrenIn(file', nodes'[parent + 1].name)
    BY <2>1, LoadKeepsStanding
  <2>3. QED
    BY <1>3, <2>1, <2>2 DEF GltfNodes
<1>6. QED
  BY <1>5 DEF NodesFollowFile, StandsBelow, Children, Node

LEMMA LoadKeepsCalls ==
    ASSUME InputTypes, BuilderTypes, CallsFollowFile, LoadGltfNode
    PROVE  CallsFollowFile'
<1> DEFINE call == Head(calls)
           g == GltfNode(call.node)
           kids == IF Skipped(g) THEN 0 ELSE Len(g.children)
           n == Len(nodes)
<1>1. /\ kids \in Nat /\ Len(calls) \in Nat \ {0}
      /\ calls' \in Seq(LoadCall)
      /\ Len(calls') = kids + Len(calls) - 1
      /\ \A i \in 1 .. kids :
            /\ i \in DOMAIN g.children
            /\ calls'[i].node = g.children[i]
            /\ calls'[i].parent = n
      /\ \A i \in 1 .. Len(calls) - 1 : calls'[kids + i] = calls[i + 1]
  BY LoadedCalls
<1>2. call.node \in GltfNodes /\ n \in Nat /\ n \in Ids'
      /\ nodes'[n + 1].name = call.node
  BY LoadedNodes, LoadedNodeByNode
<1>3. file' = file
  BY DEF LoadGltfNode
<1>4. calls \in Seq(LoadCall)
  BY DEF BuilderTypes
<1> HIDE DEF call, n, kids
<1>5. ASSUME NEW i \in DOMAIN calls'
      PROVE  /\ calls'[i].node \in GltfNodes
             /\ calls'[i].parent = None => calls'[i].node \in RootNames'
             /\ calls'[i].parent # None =>
                    /\ calls'[i].parent \in Ids'
                    /\ calls'[i].node \in
                         ChildrenIn(file', nodes'[calls'[i].parent + 1].name)
  <2>1. i \in 1 .. kids + Len(calls) - 1
    BY <1>1
  <2>2. CASE i \in 1 .. kids
    <3>1. /\ i \in DOMAIN g.children /\ calls'[i].node = g.children[i]
          /\ calls'[i].parent = n
      BY <1>1, <2>2
    <3>2. g.children[i] \in GltfNodes /\ g.children[i] \in ChildrenIn(file, call.node)
      BY <1>2, <3>1, GltfNodeFacts DEF InputTypes, ChildrenIn, GltfNode
    <3>3. n # None
      BY <1>2 DEF None
    <3>4. calls'[i].node \in ChildrenIn(file', nodes'[n + 1].name)
      BY <1>2, <1>3, <3>1, <3>2
    <3>5. QED
      BY <1>2, <3>1, <3>2, <3>3, <3>4
  <2>3. CASE i \notin 1 .. kids
    <3>1. PICK k \in 1 .. Len(calls) - 1 : i = kids + k
      <4>1. i - kids \in 1 .. Len(calls) - 1 /\ i = kids + (i - kids)
        BY <1>1, <2>1, <2>3
      <4>2. QED
        BY <4>1
    <3>2. calls'[i] = calls[k + 1] /\ k + 1 \in DOMAIN calls
      BY <1>1, <1>4, <3>1
    <3>3. calls[k + 1].node \in GltfNodes
          /\ StandsBelow(calls[k + 1].node, calls[k + 1].parent)
      BY <3>2 DEF CallsFollowFile
    <3>4. QED
      BY <3>2, <3>3, LoadKeepsStanding
  <2>4. QED
    BY <2>2, <2>3
<1>6. GltfNodes' = GltfNodes
  BY <1>3 DEF GltfNodes
<1>7. QED
  BY <1>5, <1>6 DEF CallsFollowFile, StandsBelow, Children, Node

LEMMA LoadKeepsChildren ==
    ASSUME InputTypes, BuilderTypes, NodesFollowFile, CallsFollowFile,
           ChildrenAgree, LoadGltfNode
    PROVE  ChildrenAgree'
<1> DEFINE call == Head(calls)
           n == Len(nodes)
           ChildrenOf(id) == nodes'[id + 1].children
<1>1. n \in Nat /\ n \notin Ids /\ Ids' = Ids \cup {n}
  BY LoadedNodeByNode
<1>2. call.parent \in {None} \cup Ids
  BY LoadedNodes
<1>3. /\ \A id \in Ids :
            /\ nodes'[id + 1].parent = Node(id).parent
            /\ ChildrenOf(id) = IF id = call.parent
                                THEN Append(Node(id).children, n)
                                ELSE Node(id).children
      /\ nodes'[n + 1].parent = call.parent
      /\ ChildrenOf(n) = << >>
  BY LoadedNodeByNode
<1>4. n # None
  BY <1>1 DEF None
<1>5. \A id \in Ids : Node(id).children \in Seq(Nat)
  BY NodeFacts
<1> HIDE DEF call, n
<1>6. ASSUME NEW id \in Ids, id = call.parent
      PROVE  /\ Len(ChildrenOf(id)) = Len(Node(id).children) + 1
             /\ Len(Node(id).children) \in Nat
             /\ DOMAIN ChildrenOf(id) = DOMAIN Node(id).children
                                        \cup {Len(Node(id).children) + 1}
             /\ \A i \in DOMAIN Node(id).children :
                  ChildrenOf(id)[i] = Node(id).children[i]
             /\ ChildrenOf(id)[Len(Node(id).children) + 1] = n
  <2> DEFINE old == Node(id).children
  <2>1. old \in Seq(Nat) /\ ChildrenOf(id) = Append(old, n)
    BY <1>3, <1>5, <1>6
  <2> HIDE DEF old, ChildrenOf
  <2>2. QED
    <3>1. /\ Len(ChildrenOf(id)) = Len(old) + 1 /\ Len(old) \in Nat
          /\ DOMAIN ChildrenOf(id) = DOMAIN old \cup {Len(old) + 1}
          /\ \A i \in DOMAIN old : ChildrenOf(id)[i] = old[i]
          /\ ChildrenOf(id)[Len(old) + 1] = n
      BY <1>1, <2>1
    <3>2. QED
      BY <3>1 DEF old
(* Entries of a node are nodes whose parent it is.                         *)
<1>7. ASSUME NEW id \in Ids', NEW i \in DOMAIN ChildrenOf(id)
      PROVE  /\ ChildrenOf(id)[i] \in Ids'
             /\ nodes'[ChildrenOf(id)[i] + 1].parent = id
  <2>1. ASSUME id \in Ids, i \in DOMAIN Node(id).children,
               ChildrenOf(id)[i] = Node(id).children[i]
        PROVE  /\ ChildrenOf(id)[i] \in Ids'
               /\ nodes'[ChildrenOf(id)[i] + 1].parent = id
    BY <1>1, <1>3, <2>1 DEF ChildrenAgree
  <2>2. CASE id \in Ids /\ id # call.parent
    BY <1>3, <2>1, <2>2
  <2>3. CASE id \in Ids /\ id = call.parent
    <3>1. CASE i \in DOMAIN Node(id).children
      BY <1>6, <2>1, <2>3, <3>1
    <3>2. CASE i = Len(Node(id).children) + 1
      BY <1>1, <1>3, <1>6, <2>3, <3>2
    <3>3. QED
      BY <1>6, <2>3, <3>1, <3>2
  <2>4. CASE id = n
    BY <1>3, <2>4
  <2>5. QED
    BY <1>1, <2>2, <2>3, <2>4
(* They are distinct.                                                      *)
<1>8. ASSUME NEW id \in Ids', NEW i \in DOMAIN ChildrenOf(id),
             NEW j \in DOMAIN ChildrenOf(id),
             ChildrenOf(id)[i] = ChildrenOf(id)[j]
      PROVE  i = j
  <2>1. CASE id \in Ids /\ id # call.parent
    BY <1>3, <1>8, <2>1 DEF ChildrenAgree
  <2>2. CASE id \in Ids /\ id = call.parent
    <3>1. \A k \in DOMAIN Node(id).children : Node(id).children[k] # n
      BY <1>1, <2>2 DEF ChildrenAgree
    <3>2. CASE i \in DOMAIN Node(id).children /\ j \in DOMAIN Node(id).children
      BY <1>6, <1>8, <2>2, <3>2 DEF ChildrenAgree
    <3>3. QED
      BY <1>6, <1>8, <2>2, <3>1, <3>2
  <2>3. CASE id = n
    BY <1>3, <2>3
  <2>4. QED
    BY <1>1, <2>1, <2>2, <2>3
(* A node with a parent is one of its parent's.                            *)
<1>9. ASSUME NEW id \in Ids', nodes'[id + 1].parent # None
      PROVE  \E i \in DOMAIN ChildrenOf(nodes'[id + 1].parent) :
                ChildrenOf(nodes'[id + 1].parent)[i] = id
  <2>1. CASE id \in Ids
    <3>1. PICK p \in Ids : p = Node(id).parent
      BY <1>3, <1>9, <2>1 DEF NodesFollowFile, StandsBelow
    <3>2. PICK i \in DOMAIN Node(p).children : Node(p).children[i] = id
      BY <1>3, <1>9, <2>1, <3>1 DEF ChildrenAgree
    <3>3. i \in DOMAIN ChildrenOf(p) /\ ChildrenOf(p)[i] = id
      <4>1. CASE p = call.parent
        BY <1>6, <3>2, <4>1
      <4>2. CASE p # call.parent
        BY <1>3, <3>2, <4>2
      <4>3. QED
        BY <4>1, <4>2
    <3>4. nodes'[id + 1].parent = p
      BY <1>3, <2>1, <3>1
    <3>5. QED
      BY <3>3, <3>4
  <2>2. CASE id = n
    <3>1. nodes'[id + 1].parent = call.parent /\ call.parent \in Ids
      BY <1>2, <1>3, <1>9, <2>2
    <3>2. QED
      BY <1>6, <2>2, <3>1
  <2>3. QED
    BY <1>1, <2>1, <2>2
<1>10. QED
  BY <1>7, <1>8, <1>9 DEF ChildrenAgree, Node

LEMMA LoadKeepsMeshes ==
    ASSUME InputTypes, BuilderTypes, CallsFollowFile, MeshesFollowFile,
           LoadGltfNode
    PROVE  MeshesFollowFile'
<1> DEFINE call == Head(calls)
           n == Len(nodes)
           primitive == Primitives(GltfNode(call.node))[1]
<1>1. /\ Len(meshes) \in Nat /\ Len(materials) \in Nat
      /\ meshes \in Seq(Mesh) /\ meshes' \in Seq(Mesh)
      /\ materials' \in Seq(Nat \cup {None})
      /\ Len(meshes) <= Len(meshes') /\ Len(materials) <= Len(materials')
      /\ \A i \in 1 .. Len(meshes) : meshes'[i] = meshes[i]
      /\ \A i \in 1 .. Len(materials) : materials'[i] = materials[i]
  BY LoadedMeshes DEF BuilderTypes
<1>2. Drawn(GltfNode(call.node)) =>
        /\ Len(meshes') = Len(meshes) + 1
        /\ Len(materials') = Len(materials) + 1
        /\ meshes'[Len(meshes) + 1].vertices = primitive.vertices
        /\ meshes'[Len(meshes) + 1].indices = primitive.indices
        /\ meshes'[Len(meshes) + 1].material = Len(materials)
        /\ materials'[Len(materials) + 1] = primitive.material
  BY LoadedMeshes
<1>3. ~ Drawn(GltfNode(call.node)) =>
        Len(meshes') = Len(meshes) /\ Len(materials') = Len(materials)
  BY LoadedMeshes
<1>4. file' = file
  BY DEF LoadGltfNode
<1>5. /\ \A id \in Ids : /\ nodes'[id + 1].name = Node(id).name
                         /\ nodes'[id + 1].mesh = Node(id).mesh
      /\ nodes'[n + 1].name = call.node
      /\ nodes'[n + 1].mesh =
            IF Drawn(GltfNode(call.node)) THEN Len(meshes) ELSE None
      /\ Ids' = Ids \cup {n}
  BY LoadedNodeByNode
<1> HIDE DEF call, n, primitive
<1>6. ASSUME NEW i \in DOMAIN meshes'
      PROVE  meshes'[i].material \in 0 .. Len(materials') - 1
  <2>1. i \in 1 .. Len(meshes')
    BY <1>1
  <2>2. CASE i \in 1 .. Len(meshes)
    <3>1. meshes[i].material \in 0 .. Len(materials) - 1
      BY <1>1, <2>2 DEF MeshesFollowFile
    <3>2. QED
      BY <1>1, <2>2, <3>1
  <2>3. CASE i \notin 1 .. Len(meshes)
    <3>1. Drawn(GltfNode(call.node)) /\ i = Len(meshes) + 1
      BY <1>1, <1>2, <1>3, <2>1, <2>3
    <3>2. QED
      BY <1>1, <1>2, <3>1
  <2>4. QED
    BY <2>2, <2>3
(* What HasMeshOf says of a node, after the call.                          *)
<1> DEFINE MeshOf(id, m) ==
        IF Drawn(GltfNode(m))
        THEN /\ nodes'[id + 1].mesh \in 0 .. Len(meshes') - 1
             /\ LET mesh == meshes'[nodes'[id + 1].mesh + 1]
                IN  /\ mesh.vertices = Primitives(GltfNode(m))[1].vertices
                    /\ mesh.indices = Primitives(GltfNode(m))[1].indices
                    /\ materials'[mesh.material + 1] =
                         Primitives(GltfNode(m))[1].material
        ELSE nodes'[id + 1].mesh = None
<1>7. ASSUME NEW id \in Ids
      PROVE  MeshOf(id, nodes'[id + 1].name)
  <2> DEFINE m == Node(id).name
  <2>1. HasMeshOf(id, m) /\ nodes'[id + 1].mesh = Node(id).mesh
        /\ nodes'[id + 1].name = m
    BY <1>5 DEF MeshesFollowFile
  <2> HIDE DEF m
  <2>2. CASE Drawn(GltfNode(m))
    <3>1. PICK k \in 1 .. Len(meshes) : k = Node(id).mesh + 1
      BY <1>1, <2>1, <2>2 DEF HasMeshOf
    <3>2. meshes[k].material \in 0 .. Len(materials) - 1
      BY <1>1, <3>1 DEF MeshesFollowFile
    <3>3. meshes[k].material + 1 \in 1 .. Len(materials)
      BY <1>1, <3>2
    <3>4. meshes'[k] = meshes[k]
          /\ materials'[meshes[k].material + 1] = materials[meshes[k].material + 1]
      BY <1>1, <3>1, <3>3
    <3>5. /\ meshes[k].vertices = Primitives(GltfNode(m))[1].vertices
          /\ meshes[k].indices = Primitives(GltfNode(m))[1].indices
          /\ materials[meshes[k].material + 1] =
                Primitives(GltfNode(m))[1].material
          /\ Node(id).mesh \in 0 .. Len(meshes) - 1
      BY <2>1, <2>2, <3>1 DEF HasMeshOf
    <3>6. Node(id).mesh \in 0 .. Len(meshes') - 1
      BY <1>1, <3>5
    <3>7. QED
      BY <2>1, <2>2, <3>1, <3>4, <3>5, <3>6
  <2>3. CASE ~ Drawn(GltfNode(m))
    BY <2>1, <2>3 DEF HasMeshOf
  <2>4. QED
    BY <2>2, <2>3
<1>8. MeshOf(n, nodes'[n + 1].name)
  <2>1. CASE Drawn(GltfNode(call.node))
    <3>1. nodes'[n + 1].mesh = Len(meshes) /\ Len(meshes') = Len(meshes) + 1
      BY <1>2, <1>5, <2>1
    <3>2. nodes'[n + 1].mesh \in 0 .. Len(meshes') - 1
      BY <1>1, <3>1
    <3>3. QED
      BY <1>2, <1>5, <2>1, <3>1, <3>2 DEF primitive
  <2>2. CASE ~ Drawn(GltfNode(call.node))
    BY <1>5, <2>2
  <2>3. QED
    BY <2>1, <2>2
<1>9. \A id \in Ids' : MeshOf(id, nodes'[id + 1].name)
  BY <1>5, <1>7, <1>8
<1> HIDE DEF MeshOf
<1>10. ASSUME NEW id \in Ids'
       PROVE  HasMeshOf(id, nodes[id + 1].name)'
  BY <1>4, <1>9
     DEF MeshOf, HasMeshOf, Node, GltfNode, Drawn, HasPrimitive, Primitives
<1>11. QED
  BY <1>6, <1>10 DEF MeshesFollowFile, Node

-----------------------------------------------------------------------------
(* One channel of the animation.                                           *)

(* A set of naturals that is not empty has a least one.                    *)
LEMMA LeastNatural ==
    ASSUME NEW S \in SUBSET Nat, S # {}
    PROVE  \E m \in S : \A n \in S : m <= n
<1>1. IsWellFoundedOn(OpToRel(<, Nat), Nat)
  BY NatLessThanWellFounded
<1>2. PICK m \in S : \A n \in S : ~ (<<n, m>> \in OpToRel(<, Nat))
  BY <1>1, WFMin
<1>3. \A n \in S : m <= n
  <2>1. TAKE n \in S
  <2>2. ~ (<<n, m>> \in {pair \in Nat \X Nat : pair[1] < pair[2]})
    BY <1>2 DEF OpToRel
  <2>3. QED
    BY <2>2
<1>4. QED
  BY <1>3

(* Between the first and the last key, a pair of keys encloses the time.   *)
LEMMA KeysEnclose ==
    ASSUME NEW t \in Seq(Int), NEW at \in Int, t # << >>,
           ~ (at <= t[1]), ~ (at >= t[Len(t)])
    PROVE  \E i \in 1 .. Len(t) - 1 :
              /\ t[i] <= at /\ at <= t[i + 1]
              /\ \A k \in 1 .. i - 1 : ~ (t[k] <= at /\ at <= t[k + 1])
<1> DEFINE S == {i \in 1 .. Len(t) - 1 : at <= t[i + 1]}
<1>1. Len(t) \in Nat \ {0} /\ \A i \in 1 .. Len(t) : t[i] \in Int
  OBVIOUS
<1>2. Len(t) # 1 /\ Len(t) - 1 \in S
  <2>1. t[Len(t)] \in Int /\ at < t[Len(t)] /\ t[1] \in Int /\ t[1] < at
    BY <1>1
  <2>2. Len(t) # 1
    BY <2>1
  <2>3. QED
    BY <1>1, <2>1, <2>2
<1>3. S \in SUBSET Nat /\ S # {}
  <2>1. \A i \in S : i \in Nat
    BY <1>1
  <2> HIDE DEF S
  <2>2. QED
    BY <1>2, <2>1
<1>4. PICK m \in S : \A n \in S : m <= n
  BY <1>3, LeastNatural
<1>5. m \in 1 .. Len(t) - 1 /\ at <= t[m + 1]
  BY <1>4
<1>6. \A k \in 1 .. m - 1 : ~ (at <= t[k + 1])
  <2>1. TAKE k \in 1 .. m - 1
  <2>2. k \in 1 .. Len(t) - 1 /\ ~ (m <= k)
    BY <1>1, <1>5
  <2>3. QED
    BY <1>4, <2>2
<1>7. t[m] <= at
  <2>1. CASE m = 1
    BY <1>1, <2>1
  <2>2. CASE m # 1
    <3>1. m - 1 \in 1 .. m - 1 /\ m \in 1 .. Len(t) /\ (m - 1) + 1 = m
      BY <1>1, <1>5, <2>2
    <3>2. ~ (at <= t[m])
      BY <1>6, <3>1
    <3>3. QED
      BY <1>1, <3>1, <3>2
  <2>3. QED
    BY <2>1, <2>2
<1>8. QED
  BY <1>5, <1>6, <1>7

LEMMA ChannelFacts ==
    ASSUME InputTypes, NEW k \in DOMAIN file.channels
    PROVE  LET c == file.channels[k]
           IN  /\ c \in Channel
               /\ c.node \in Nat \cup {None} /\ c.times \in Seq(Int)
               /\ c.times # << >>
               /\ \A i \in 1 .. Len(c.times) - 1 : c.times[i] < c.times[i + 1]
               /\ \A l \in DOMAIN file.channels :
                    /\ file.channels[l].node = c.node
                    /\ file.channels[l].path = c.path
                    => l = k
               /\ time \in Int
<1>1. file.channels \in Seq(Channel) /\ ChannelsAreSound(file)
  BY FileFacts DEF InputTypes
<1>2. file.channels[k] \in Channel
  BY <1>1
<1>3. time \in Int
  BY FilesAssumption DEF InputTypes
<1>4. QED
  BY <1>1, <1>2, <1>3 DEF Channel, ChannelsAreSound

(* What it takes to stand for a time: one key, or two around it.           *)
LEMMA OneKeyStandsFor ==
    ASSUME NEW c, NEW i \in Int, time \in Int,
           \/ i = 1 /\ c.times[1] \in Int /\ time <= c.times[1]
           \/ i = Len(c.times) /\ c.times[i] \in Int /\ time >= c.times[i]
    PROVE  Key(i) \in Seq(Int) /\ StandsFor(Key(i), c)
<1>1. Key(i) = <<i>> /\ Len(Key(i)) = 1 /\ Key(i)[1] = i /\ Key(i) \in Seq(Int)
  BY DEF Key
<1>2. \/ c.times[i] = time
      \/ i = 1 /\ time < c.times[1]
      \/ i = Len(c.times) /\ time > c.times[i]
  OBVIOUS
<1>3. StandsFor(Key(i), c)
  BY <1>1, <1>2 DEF StandsFor
<1>4. QED
  BY <1>1, <1>3

LEMMA TwoKeysStandFor ==
    ASSUME NEW c, NEW i \in Int, time \in Int,
           c.times[i] \in Int, c.times[i + 1] \in Int,
           c.times[i] < c.times[i + 1],
           c.times[i] <= time, time <= c.times[i + 1]
    PROVE  LET part == Between(i, time - c.times[i], c.times[i + 1] - c.times[i])
           IN  part \in Seq(Int) /\ StandsFor(part, c)
<1> DEFINE done == time - c.times[i]
           span == c.times[i + 1] - c.times[i]
           part == Between(i, done, span)
<1>1. /\ done \in Int /\ span \in Int /\ span > 0 /\ done \in 0 .. span
      /\ c.times[i] + done = time /\ c.times[i] + span = c.times[i + 1]
  OBVIOUS
<1> HIDE DEF done, span
<1>2. /\ Len(part) = 4 /\ part[1] = i /\ part[2] = i + 1
      /\ part[3] = done /\ part[4] = span /\ part \in Seq(Int)
  BY <1>1 DEF Between
<1> HIDE DEF part
<1>3. StandsFor(part, c)
  BY <1>1, <1>2 DEF StandsFor
<1>4. QED
  BY <1>2, <1>3 DEF part, done, span

(* A sampled part stands for the frame's time on its channel.              *)
LEMMA SampleStandsFor ==
    ASSUME InputTypes, NEW k \in DOMAIN file.channels
    PROVE  /\ Sample(file.channels[k]) \in Seq(Int)
           /\ StandsFor(Sample(file.channels[k]), file.channels[k])
<1> DEFINE c == file.channels[k]
           t == c.times
<1>1. /\ t \in Seq(Int) /\ t # << >> /\ time \in Int
      /\ \A i \in 1 .. Len(t) - 1 : t[i] < t[i + 1]
  BY ChannelFacts
<1>2. Len(t) \in Nat \ {0} /\ \A i \in 1 .. Len(t) : t[i] \in Int
  BY <1>1
<1> HIDE DEF c
<1>3. CASE time <= t[1]
  <2>1. Sample(c) = Key(1)
    BY <1>2, <1>3 DEF Sample
  <2>2. QED
    BY <1>1, <1>2, <1>3, <2>1, OneKeyStandsFor DEF c
<1>4. CASE ~ (time <= t[1]) /\ time >= t[Len(t)]
  <2>1. Sample(c) = Key(Len(t))
    BY <1>2, <1>4 DEF Sample
  <2>2. Len(t) \in Int /\ t[Len(t)] \in Int
    BY <1>2
  <2>3. QED
    BY <1>1, <1>4, <2>1, <2>2, OneKeyStandsFor DEF c
<1>5. CASE ~ (time <= t[1]) /\ ~ (time >= t[Len(t)])
  <2> DEFINE First(i) == /\ t[i] <= time /\ time <= t[i + 1]
                         /\ \A j \in 1 .. i - 1 : ~ (t[j] <= time /\ time <= t[j + 1])
             i == CHOOSE i \in 1 .. Len(t) - 1 :
                     (t[i] <= time /\ time <= t[i + 1])
                     /\ \A j \in 1 .. i - 1 : ~ (t[j] <= time /\ time <= t[j + 1])
  <2>1. \E j \in 1 .. Len(t) - 1 : First(j)
    BY <1>1, <1>5, KeysEnclose
  <2>2. i \in 1 .. Len(t) - 1 /\ t[i] <= time /\ time <= t[i + 1]
    BY <2>1
  <2>3. Len(t) # 0
    BY <1>2
  <2>4. Sample(c) = Between(i, time - t[i], t[i + 1] - t[i])
    BY <1>5, <2>3, Zenon DEF Sample
  <2> HIDE DEF i, t
  <2>5. t[i] \in Int /\ t[i + 1] \in Int /\ i \in Int /\ t[i] < t[i + 1]
    BY <1>1, <1>2, <2>2
  <2>6. QED
    BY <1>1, <2>2, <2>4, <2>5, TwoKeysStandFor DEF c, t
<1>6. QED
  BY <1>3, <1>4, <1>5

(* A channel changes the parts of one node, and nothing else of the tree.  *)
LEMMA AnimatedNodes ==
    ASSUME InputTypes, BuilderTypes, UpdateAnimation
    PROVE  LET c == file.channels[channel + 1]
               applies == c.path \in Paths /\ c.node \in Ids
           IN  /\ channel \in Nat /\ channel + 1 \in DOMAIN file.channels
               /\ nodes' \in Seq(BuilderNode) /\ Ids' = Ids
               /\ \A id \in Ids :
                    /\ nodes'[id + 1].name = Node(id).name
                    /\ nodes'[id + 1].parent = Node(id).parent
                    /\ nodes'[id + 1].children = Node(id).children
                    /\ nodes'[id + 1].mesh = Node(id).mesh
                    /\ ~ (applies /\ id = c.node) =>
                        /\ nodes'[id + 1].local = Node(id).local
                        /\ nodes'[id + 1].parts = Node(id).parts
                    /\ applies /\ id = c.node =>
                        /\ nodes'[id + 1].parts =
                             [Node(id).parts EXCEPT ![c.path] = Sample(c)]
                        /\ nodes'[id + 1].local = nodes'[id + 1].parts
<1> DEFINE c == file.channels[channel + 1]
           applies == c.path \in Paths /\ c.node \in Ids
<1>1. channel \in Nat /\ channel + 1 \in DOMAIN file.channels
  <2>1. file.channels \in Seq(Channel)
    BY FileFacts DEF InputTypes
  <2>2. channel \in 0 .. Len(file.channels) /\ channel < Len(file.channels)
    BY DEF InputTypes, UpdateAnimation
  <2>3. QED
    BY <2>1, <2>2
<1>2. Sample(c) \in Seq(Int)
  BY <1>1, SampleStandsFor
<1>3. nodes \in Seq(BuilderNode)
  BY DEF BuilderTypes
<1>4. CASE ~ applies
  <2>1. nodes' = nodes
    BY <1>4 DEF UpdateAnimation, IsNodeId
  <2>2. Ids' = Ids /\ \A id \in Ids : nodes'[id + 1] = Node(id)
    BY <2>1 DEF Ids, Node
  <2> HIDE DEF applies
  <2>3. QED
    BY <1>1, <1>3, <1>4, <2>1, <2>2 DEF applies
<1>5. CASE applies
  <2> DEFINE k == c.node
             changed == WithPart(Node(k), c.path, Sample(c))
  <2>1. nodes' = [nodes EXCEPT ![k + 1] = WithPart(@, c.path, Sample(c))]
    BY <1>5 DEF UpdateAnimation, IsNodeId
  <2>2. nodes' = [nodes EXCEPT ![k + 1] = changed]
    BY <2>1 DEF Node
  <2>3. k \in Ids /\ k \in Nat /\ k + 1 \in DOMAIN nodes
        /\ Node(k) \in BuilderNode /\ Node(k).parts \in Transform
        /\ c.path \in Paths
    BY <1>5, NodeFacts
  <2> HIDE DEF k, c
  <2>4. [Node(k).parts EXCEPT ![c.path] = Sample(c)] \in Transform
    BY <1>2, <2>3 DEF Transform
  <2>5. /\ changed \in BuilderNode
        /\ changed.name = Node(k).name /\ changed.parent = Node(k).parent
        /\ changed.children = Node(k).children /\ changed.mesh = Node(k).mesh
        /\ changed.parts = [Node(k).parts EXCEPT ![c.path] = Sample(c)]
        /\ changed.local = changed.parts
    <3>1. changed = [Node(k) EXCEPT
                        !.parts = [Node(k).parts EXCEPT ![c.path] = Sample(c)],
                        !.local = [Node(k).parts EXCEPT ![c.path] = Sample(c)]]
      BY DEF WithPart
    <3>2. QED
      BY <2>3, <2>4, <3>1 DEF BuilderNode
  <2> HIDE DEF changed
  <2>6. nodes' \in Seq(BuilderNode) /\ Len(nodes') = Len(nodes)
    BY <1>3, <2>2, <2>3, <2>5
  <2>7. \A id \in Ids : id + 1 \in DOMAIN nodes /\ (id + 1 = k + 1 => id = k)
    BY <1>3, <2>3 DEF Ids
  <2>8. \A id \in Ids : nodes'[id + 1] = IF id = k THEN changed ELSE Node(id)
    BY <1>3, <2>2, <2>3, <2>7 DEF Node
  <2>9. Ids' = Ids
    BY <2>6 DEF Ids
  <2>10. QED
    BY <1>1, <1>5, <2>5, <2>6, <2>8, <2>9 DEF k, c
<1>6. QED
  BY <1>4, <1>5

LEMMA AnimationKeepsBuilder ==
    ASSUME InputTypes, BuilderTypes, BuilderInv, UpdateAnimation
    PROVE  BuilderTypes' /\ BuilderInv'
<1>1. /\ UNCHANGED <<file, time, calls, meshes, materials>>
      /\ nodes' \in Seq(BuilderNode) /\ Ids' = Ids
      /\ \A id \in Ids : /\ nodes'[id + 1].name = Node(id).name
                         /\ nodes'[id + 1].parent = Node(id).parent
                         /\ nodes'[id + 1].children = Node(id).children
                         /\ nodes'[id + 1].mesh = Node(id).mesh
  BY AnimatedNodes DEF UpdateAnimation
<1>2. GltfNodes' = GltfNodes /\ RootNames' = RootNames
  BY <1>1 DEF GltfNodes, RootNames
<1>3. ASSUME NEW name, NEW parent, StandsBelow(name, parent)
      PROVE  StandsBelow(name, parent)'
  BY <1>1, <1>2, <1>3 DEF StandsBelow, Children, Node
<1>4. BuilderTypes'
  BY <1>1 DEF BuilderTypes
<1>5. NodesFollowFile'
  <2>1. ASSUME NEW id \in Ids
        PROVE  /\ nodes'[id + 1].name \in GltfNodes
               /\ nodes'[id + 1].parent \in {None} \cup 0 .. id - 1
               /\ nodes'[id + 1].parent = None =>
                    nodes'[id + 1].name \in RootNames'
               /\ nodes'[id + 1].parent # None =>
                    /\ nodes'[id + 1].parent \in Ids'
                    /\ nodes'[id + 1].name \in
                         ChildrenIn(file', nodes'[nodes'[id + 1].parent + 1].name)
    <3>1. PICK name, parent :
              /\ name = Node(id).name /\ parent = Node(id).parent
              /\ name \in GltfNodes /\ parent \in {None} \cup 0 .. id - 1
              /\ StandsBelow(name, parent)
      BY DEF BuilderInv, NodesFollowFile
    <3>2. StandsBelow(name, parent)'
      BY <1>3, <3>1
    <3>3. QED
      BY <1>1, <3>1, <3>2 DEF StandsBelow, Children, Node
  <2>2. QED
    BY <1>1, <1>2, <2>1 DEF NodesFollowFile, StandsBelow, Children, Node
<1>6. CallsFollowFile'
  BY <1>1, <1>2, <1>3 DEF BuilderInv, CallsFollowFile
<1>7. ChildrenAgree'
  <2>1. \A id \in Ids :
          /\ \A i \in DOMAIN Node(id).children : Node(id).children[i] \in Ids
          /\ Node(id).parent # None => Node(id).parent \in Ids
    BY DEF BuilderInv, ChildrenAgree, NodesFollowFile, StandsBelow
  <2>2. QED
    BY <1>1, <2>1 DEF BuilderInv, ChildrenAgree, Node
<1>8. MeshesFollowFile'
  <2>1. ASSUME NEW id \in Ids, NEW n, HasMeshOf(id, n)
        PROVE  HasMeshOf(id, n)'
    BY <1>1, <2>1 DEF HasMeshOf, Node, GltfNode, Drawn, HasPrimitive, Primitives
  <2>2. ASSUME NEW id \in Ids'
        PROVE  HasMeshOf(id, nodes[id + 1].name)'
    <3>1. PICK n : n = Node(id).name
      OBVIOUS
    <3>2. HasMeshOf(id, n)'
      BY <1>1, <2>1, <3>1 DEF BuilderInv, MeshesFollowFile
    <3>3. nodes'[id + 1].name = n
      BY <1>1, <3>1
    <3>4. QED
      BY <3>2, <3>3 DEF HasMeshOf
  <2>3. \A i \in DOMAIN meshes' :
            meshes'[i].material \in 0 .. Len(materials') - 1
    BY <1>1 DEF BuilderInv, MeshesFollowFile
  <2>4. QED
    BY <2>2, <2>3 DEF MeshesFollowFile, Node
<1>9. QED
  BY <1>4, <1>5, <1>6, <1>7, <1>8 DEF BuilderInv

-----------------------------------------------------------------------------
(* What waits for its phase is empty before it.                            *)
PhaseInv ==
    /\ pc \in {"load", "nodes", "animate", "roots"} =>
          /\ walk = << >>
          /\ vertices = << >> /\ indices = << >> /\ materialIndices = << >>
    /\ pc \in {"load", "nodes"} => channel = 0
    /\ pc = "load" => nodes = << >> /\ meshes = << >> /\ calls = << >>
    /\ pc \in {"animate", "roots", "walk", "built"} => calls = << >>
    /\ pc \in {"roots", "walk", "built"} => channel = Len(file.channels)
    /\ pc = "built" => walk = << >>

LEMMA InitTypes ==
    ASSUME Init
    PROVE  Types /\ BuilderInv /\ PhaseInv
<1>1. Types
  <2>1. file.channels \in Seq(Channel)
    BY FileFacts DEF Init
  <2>2. channel \in 0 .. Len(file.channels)
    BY <2>1 DEF Init
  <2>3. /\ << >> \in Seq(BuilderNode) /\ << >> \in Seq(Mesh)
        /\ << >> \in Seq(Nat \cup {None}) /\ << >> \in Seq(LoadCall)
        /\ << >> \in Seq(WalkCall) /\ << >> \in Seq(Vertex) /\ << >> \in Seq(Nat)
    OBVIOUS
  <2>4. QED
    BY <2>2, <2>3 DEF Init, Types, InputTypes, BuilderTypes, OutputTypes
<1>2. Ids = {} /\ DOMAIN calls = {} /\ DOMAIN meshes = {}
  BY DEF Init, Ids
<1>3. BuilderInv
  BY <1>2 DEF BuilderInv, NodesFollowFile, CallsFollowFile, ChildrenAgree,
              MeshesFollowFile
<1>4. PhaseInv
  BY DEF Init, PhaseInv
<1>5. QED
  BY <1>1, <1>3, <1>4

(* The calls for the roots of the scene.                                   *)
LEMMA FirstCalls ==
    ASSUME InputTypes, LoadGltfFile
    PROVE  /\ file.roots \in Seq(Nat)
           /\ calls' \in Seq(LoadCall) /\ Len(calls') = Len(file.roots)
           /\ \A i \in DOMAIN file.roots :
                /\ calls'[i].node = file.roots[i]
                /\ calls'[i].parent = None
                /\ file.roots[i] \in GltfNodes
<1>1. file.roots \in Seq(Nat)
      /\ \A i \in DOMAIN file.roots : file.roots[i] \in GltfNodes
  BY FileFacts DEF InputTypes, IndicesInRange, GltfNodes
<1>2. calls' = [i \in 1 .. Len(file.roots) |->
                    [node |-> file.roots[i], parent |-> None]]
  BY <1>1 DEF LoadGltfFile
<1>3. \A i \in 1 .. Len(file.roots) :
         [node |-> file.roots[i], parent |-> None] \in LoadCall
  BY <1>1 DEF LoadCall
<1>4. Len(file.roots) \in Nat
  BY <1>1
<1>5. calls' \in Seq(LoadCall) /\ Len(calls') = Len(file.roots)
  BY <1>2, <1>3, <1>4
<1>6. QED
  BY <1>1, <1>2, <1>5

(* Actions that leave the builder alone.                                   *)
LEMMA TreeStays ==
    ASSUME NodesFollowFile, ChildrenAgree, MeshesFollowFile,
           UNCHANGED <<file, nodes, meshes, materials>>
    PROVE  NodesFollowFile' /\ ChildrenAgree' /\ MeshesFollowFile'
<1>1. NodesFollowFile'
  BY DEF NodesFollowFile, StandsBelow, RootNames, Children, GltfNodes, Ids, Node
<1>2. ChildrenAgree'
  BY DEF ChildrenAgree, Ids, Node
<1>3. MeshesFollowFile'
  BY DEF MeshesFollowFile, Ids, Node, HasMeshOf, GltfNode, Drawn, HasPrimitive,
     Primitives
<1>4. QED
  BY <1>1, <1>2, <1>3

LEMMA BuilderStays ==
    ASSUME BuilderTypes, BuilderInv, UNCHANGED <<file, calls, builder>>
    PROVE  BuilderTypes' /\ BuilderInv'
<1>1. UNCHANGED <<file, calls, nodes, meshes, materials>>
  BY DEF builder
<1>2. NodesFollowFile' /\ ChildrenAgree' /\ MeshesFollowFile'
  BY <1>1, TreeStays DEF BuilderInv
<1>3. CallsFollowFile'
  BY <1>1 DEF BuilderInv, CallsFollowFile, StandsBelow, RootNames, Children,
     GltfNodes, Ids, Node
<1>4. BuilderTypes'
  BY <1>1 DEF BuilderTypes
<1>5. QED
  BY <1>2, <1>3, <1>4 DEF BuilderInv

LEMMA OpeningKeepsBuilder ==
    ASSUME InputTypes, BuilderTypes, BuilderInv, LoadGltfFile
    PROVE  BuilderTypes' /\ BuilderInv'
<1>1. UNCHANGED <<file, nodes, meshes, materials>>
  BY DEF LoadGltfFile, builder
<1>2. BuilderTypes'
  BY <1>1, FirstCalls DEF BuilderTypes
<1>3. NodesFollowFile' /\ ChildrenAgree' /\ MeshesFollowFile'
  BY <1>1, TreeStays DEF BuilderInv
<1>4. CallsFollowFile'
  <2>1. DOMAIN calls' = DOMAIN file.roots
    BY FirstCalls
  <2>2. ASSUME NEW i \in DOMAIN calls'
        PROVE  /\ calls'[i].node \in GltfNodes' /\ calls'[i].parent = None
               /\ calls'[i].node \in RootNames'
    BY <1>1, <2>1, FirstCalls DEF RootNames, GltfNodes
  <2>3. QED
    BY <2>2 DEF CallsFollowFile, StandsBelow
<1>5. QED
  BY <1>2, <1>3, <1>4 DEF BuilderInv

-----------------------------------------------------------------------------
(* The roots of the builder, in the order of their ids.                    *)

Ascending(ids) == \A i, j \in DOMAIN ids : i < j => ids[i] < ids[j]

LEMMA NextInOrder ==
    ASSUME NEW P \in SUBSET Nat, IsFiniteSet(P), NEW m \in Nat,
           \A p \in P : p < m,
           NEW ids \in [1 .. Cardinality(P) -> P], Ascending(ids)
    PROVE  \E longer \in [1 .. Cardinality(P \cup {m}) -> P \cup {m}] :
                Ascending(longer)
<1> DEFINE c == Cardinality(P)
           longer == [i \in 1 .. c + 1 |-> IF i <= c THEN ids[i] ELSE m]
<1>1. c \in Nat
  BY FS_CardinalityType
<1>2. Cardinality(P \cup {m}) = c + 1
  <2>1. m \notin P
    OBVIOUS
  <2>2. QED
    BY <2>1, FS_AddElement
<1>3. DOMAIN ids = 1 .. c /\ \A i \in 1 .. c : ids[i] \in P
  OBVIOUS
<1> HIDE DEF c
<1>4. longer \in [1 .. c + 1 -> P \cup {m}]
  BY <1>1, <1>3
<1>5. Ascending(longer)
  <2>1. \A i, j \in 1 .. c + 1 : i < j => longer[i] < longer[j]
    <3>1. TAKE i, j \in 1 .. c + 1
    <3>2. HAVE i < j
    <3>3. i \in 1 .. c /\ longer[i] = ids[i]
      BY <1>1, <3>2
    <3>4. CASE j <= c
      <4>1. j \in 1 .. c /\ longer[j] = ids[j]
        BY <1>1, <3>4
      <4>2. QED
        BY <1>3, <3>2, <3>3, <4>1 DEF Ascending
    <3>5. CASE ~ (j <= c)
      BY <1>3, <3>3, <3>5
    <3>6. QED
      BY <3>4, <3>5
  <2>2. DOMAIN longer = 1 .. c + 1
    OBVIOUS
  <2> HIDE DEF longer
  <2>3. QED
    BY <2>1, <2>2 DEF Ascending
<1>6. QED
  BY <1>2, <1>4, <1>5 DEF c

(* Every set of ids can be put in order, and the order names each.         *)
LEMMA OrderExists ==
    ASSUME NEW n \in Nat, NEW R \in SUBSET (0 .. n - 1)
    PROVE  \E ids \in [1 .. Cardinality(R) -> R] : Ascending(ids)
<1> DEFINE Prefix(k) == {r \in R : r < k}
           Ordered(k) == \E ids \in [1 .. Cardinality(Prefix(k)) -> Prefix(k)] :
                            Ascending(ids)
           Bad == {k \in 0 .. n : ~ Ordered(k)}
<1>0. /\ n - 1 \in Int
      /\ \A r \in R : r \in Nat /\ r < n
  OBVIOUS
<1>1. \A k \in Nat : Prefix(k) \in SUBSET Nat /\ IsFiniteSet(Prefix(k))
  <2>1. TAKE k \in Nat
  <2>2. IsFiniteSet(0 .. n - 1)
    BY <1>0, FS_Interval
  <2>3. Prefix(k) \in SUBSET (0 .. n - 1) /\ Prefix(k) \in SUBSET Nat
    BY <1>0
  <2> HIDE DEF Prefix
  <2>4. IsFiniteSet(Prefix(k))
    BY <2>2, <2>3, FS_Subset
  <2>5. QED
    BY <2>3, <2>4
<1>2. Bad = {}
  <2>1. SUFFICES ASSUME Bad # {} PROVE FALSE
    OBVIOUS
  <2>2. PICK m \in Bad : \A k \in Bad : m <= k
    <3>1. Bad \in SUBSET Nat
      OBVIOUS
    <3> HIDE DEF Bad
    <3>2. QED
      BY <2>1, <3>1, LeastNatural
  <2>3. m \in 0 .. n /\ ~ Ordered(m)
    BY <2>2
  <2>4. CASE m = 0
    <3>0. \A r \in R : ~ (r < m)
      BY <1>0, <2>4
    <3>1. Prefix(m) = {}
      BY <3>0
    <3>2. Cardinality(Prefix(m)) = 0
      BY <3>1, FS_EmptySet
    <3>3. 1 .. 0 = {}
      OBVIOUS
    <3> DEFINE none == [i \in {} |-> 0]
    <3>4. none \in [{} -> {}] /\ DOMAIN none = {}
      OBVIOUS
    <3>5. Ascending(none)
      BY <3>4 DEF Ascending
    <3> HIDE DEF none
    <3>6. none \in [1 .. Cardinality(Prefix(m)) -> Prefix(m)]
      BY <3>1, <3>2, <3>3, <3>4
    <3>7. QED
      BY <2>3, <3>5, <3>6
  <2>5. CASE m # 0
    <3>1. m - 1 \in 0 .. n /\ m - 1 \in Nat /\ ~ (m <= m - 1)
      BY <2>3, <2>5
    <3>2. m - 1 \notin Bad
      BY <2>2, <3>1
    <3>3. Ordered(m - 1)
      BY <3>1, <3>2
    <3>4. PICK ids \in [1 .. Cardinality(Prefix(m - 1)) -> Prefix(m - 1)] :
                Ascending(ids)
      BY <3>3
    <3>9. \A r \in R : r < m <=> r = m - 1 \/ r < m - 1
      BY <1>0, <2>3
    <3>5. CASE m - 1 \in R
      <4>1. Prefix(m) = Prefix(m - 1) \cup {m - 1}
        BY <3>5, <3>9
      <4>2. \A p \in Prefix(m - 1) : p < m - 1
        OBVIOUS
      <4>3. Prefix(m - 1) \in SUBSET Nat /\ IsFiniteSet(Prefix(m - 1))
        BY <1>1, <3>1
      <4> HIDE DEF Prefix
      <4>4. \E longer \in [1 .. Cardinality(Prefix(m - 1) \cup {m - 1})
                             -> Prefix(m - 1) \cup {m - 1}] : Ascending(longer)
        BY <3>1, <3>4, <4>2, <4>3, NextInOrder
      <4>5. QED
        BY <2>3, <4>1, <4>4
    <3>6. CASE m - 1 \notin R
      <4>1. Prefix(m) = Prefix(m - 1)
        BY <3>6, <3>9
      <4>2. QED
        BY <2>3, <3>3, <4>1
    <3>7. QED
      BY <3>5, <3>6
  <2>6. QED
    BY <2>4, <2>5
<1>3. Ordered(n)
  <2>1. n \in 0 .. n
    OBVIOUS
  <2>2. n \notin Bad
    BY <1>2
  <2>3. QED
    BY <2>1, <2>2
<1>4. Prefix(n) = R
  BY <1>0
<1>5. QED
  BY <1>3, <1>4

LEMMA RootsInOrder ==
    ASSUME BuilderTypes
    PROVE  /\ Cardinality(Roots) \in Nat
           /\ RootNodes \in [1 .. Cardinality(Roots) -> Roots]
           /\ Ascending(RootNodes)
           /\ \A id \in Roots : \E i \in DOMAIN RootNodes : RootNodes[i] = id
<1>1. Len(nodes) \in Nat /\ Roots \in SUBSET (0 .. Len(nodes) - 1)
      /\ \A id \in Roots : id \in Nat
  BY DEF BuilderTypes, Roots, Ids
<1>2. IsFiniteSet(Roots)
  <2>1. Len(nodes) - 1 \in Int
    BY <1>1
  <2>2. IsFiniteSet(0 .. Len(nodes) - 1)
    BY <2>1, FS_Interval
  <2>3. QED
    BY <1>1, <2>2, FS_Subset
<1> DEFINE c == Cardinality(Roots)
<1>3. c \in Nat
  BY <1>2, FS_CardinalityType
<1>4. \E ids \in [1 .. c -> Roots] :
        \A i, j \in DOMAIN ids : i < j => ids[i] < ids[j]
  BY <1>1, OrderExists DEF Ascending
<1>5. /\ RootNodes \in [1 .. c -> Roots]
      /\ \A i, j \in DOMAIN RootNodes : i < j => RootNodes[i] < RootNodes[j]
  BY <1>4, Zenon DEF RootNodes
<1> HIDE DEF c
<1>6. \A i, j \in 1 .. c : RootNodes[i] = RootNodes[j] => i = j
  <2>1. TAKE i, j \in 1 .. c
  <2>2. HAVE RootNodes[i] = RootNodes[j]
  <2>3. RootNodes[i] \in Roots /\ DOMAIN RootNodes = 1 .. c
    BY <1>5
  <2>0. RootNodes[i] \in Nat
    BY <1>1, <2>3
  <2>4. ~ (RootNodes[i] < RootNodes[j]) /\ ~ (RootNodes[j] < RootNodes[i])
    BY <2>0, <2>2
  <2>5. ~ (i < j) /\ ~ (j < i)
    BY <1>5, <2>3, <2>4
  <2>6. QED
    BY <1>3, <2>5
<1>7. RootNodes \in Injection(1 .. c, Roots)
  BY <1>5, <1>6, Fun_IsInj
<1>8. Cardinality(1 .. c) = c
  BY <1>3, FS_Interval
<1>9. RootNodes \in Surjection(1 .. c, Roots)
  BY <1>2, <1>7, <1>8, FS_Injection DEF c
<1>10. \A id \in Roots : \E i \in 1 .. c : RootNodes[i] = id
  BY <1>9 DEF Surjection
<1>11. QED
  BY <1>3, <1>5, <1>10 DEF Ascending, c

-----------------------------------------------------------------------------
(* One call of traverseAndFlatten.                                         *)

LEMMA Joined ==
    ASSUME NEW T, NEW a \in Seq(T), NEW b \in Seq(T), NEW c, c = a \o b
    PROVE  /\ c \in Seq(T) /\ Len(a) \in Nat /\ Len(b) \in Nat
           /\ Len(c) = Len(a) + Len(b)
           /\ \A i \in 1 .. Len(a) : c[i] = a[i]
           /\ \A i \in 1 .. Len(b) : c[Len(a) + i] = b[i]
OBVIOUS

LEMMA Listed ==
    ASSUME NEW T, NEW n \in Nat, NEW s \in [1 .. n -> T]
    PROVE  s \in Seq(T) /\ Len(s) = n
OBVIOUS

LEMMA FirstWalk ==
    ASSUME OutputTypes, walk # << >>
    PROVE  /\ 1 \in DOMAIN walk /\ Head(walk) = walk[1]
           /\ Head(walk) \in WalkCall
           /\ Head(walk).node \in Nat /\ Head(walk).above \in Seq(WorldStep)
           /\ Len(Tail(walk)) = Len(walk) - 1 /\ Len(walk) \in Nat \ {0}
           /\ Tail(walk) \in Seq(WalkCall)
           /\ \A i \in 1 .. Len(walk) - 1 : Tail(walk)[i] = walk[i + 1]
<1>1. walk \in Seq(WalkCall)
  BY DEF OutputTypes
<1>2. /\ 1 \in DOMAIN walk /\ Head(walk) = walk[1]
      /\ Len(Tail(walk)) = Len(walk) - 1 /\ Len(walk) \in Nat \ {0}
      /\ Tail(walk) \in Seq(WalkCall)
      /\ \A i \in 1 .. Len(walk) - 1 : Tail(walk)[i] = walk[i + 1]
  BY <1>1
<1>3. walk[1] \in WalkCall
  BY <1>1, <1>2
<1>4. QED
  BY <1>2, <1>3 DEF WalkCall

LEMMA WorldFacts ==
    ASSUME BuilderTypes, NEW call \in WalkCall, call.node \in Ids
    PROVE  LET step == [node |-> Node(call.node).name,
                        local |-> Node(call.node).local]
           IN  /\ World(call) \in Seq(WorldStep)
               /\ call.above \in Seq(WorldStep) /\ Len(call.above) \in Nat
               /\ Len(World(call)) = Len(call.above) + 1
               /\ \A i \in 1 .. Len(call.above) : World(call)[i] = call.above[i]
               /\ World(call)[Len(call.above) + 1] = step
<1> DEFINE step == [node |-> Node(call.node).name,
                    local |-> Node(call.node).local]
<1>1. call.above \in Seq(WorldStep)
  BY DEF WalkCall
<1>2. step \in WorldStep
  BY NodeFacts DEF WorldStep
<1>3. World(call) = Append(call.above, step)
  BY DEF World
<1> HIDE DEF step
<1>4. QED
  BY <1>1, <1>2, <1>3 DEF step

(* The calls it makes, then those left before.                             *)
LEMMA WalkedCalls ==
    ASSUME BuilderTypes, OutputTypes, ChildrenAgree, TraverseAndFlatten,
           Head(walk).node \in Ids
    PROVE  LET call == Head(walk)
               children == Node(call.node).children
           IN  /\ call \in WalkCall /\ call = walk[1]
               /\ children \in Seq(Nat) /\ Len(children) \in Nat
               /\ Len(walk) \in Nat \ {0}
               /\ walk' \in Seq(WalkCall)
               /\ Len(walk') = Len(children) + (Len(walk) - 1)
               /\ \A i \in 1 .. Len(children) :
                    walk'[i] = [node |-> children[i], above |-> World(call)]
               /\ \A i \in 1 .. Len(walk) - 1 :
                    walk'[Len(children) + i] = walk[i + 1]
<1> DEFINE call == Head(walk)
           children == Node(call.node).children
           new == [i \in DOMAIN children |->
                    [node |-> children[i], above |-> World(call)]]
<1>1. walk # << >> /\ walk' = new \o Tail(walk)
  BY DEF TraverseAndFlatten
<1>2. call \in WalkCall /\ World(call) \in Seq(WorldStep)
  BY <1>1, FirstWalk, WorldFacts
<1>3. children \in Seq(Nat) /\ Len(children) \in Nat
      /\ DOMAIN children = 1 .. Len(children)
  BY NodeFacts
<1>4. new \in [1 .. Len(children) -> WalkCall]
  <2>1. \A i \in 1 .. Len(children) :
            [node |-> children[i], above |-> World(call)] \in WalkCall
    BY <1>2, <1>3 DEF WalkCall
  <2> HIDE DEF children, call
  <2>2. QED
    BY <1>3, <2>1
<1>5. \A i \in 1 .. Len(children) :
         new[i] = [node |-> children[i], above |-> World(call)]
  BY <1>3
<1> HIDE DEF children, call, new
<1>6. new \in Seq(WalkCall) /\ Len(new) = Len(children)
  BY <1>3, <1>4, Listed
<1>7. /\ Tail(walk) \in Seq(WalkCall) /\ Len(Tail(walk)) = Len(walk) - 1
      /\ \A i \in 1 .. Len(walk) - 1 : Tail(walk)[i] = walk[i + 1]
      /\ Len(walk) \in Nat \ {0} /\ call = walk[1]
  BY <1>1, FirstWalk DEF call
<1>8. /\ walk' \in Seq(WalkCall)
      /\ Len(walk') = Len(children) + (Len(walk) - 1)
      /\ \A i \in 1 .. Len(children) : walk'[i] = new[i]
      /\ \A i \in 1 .. Len(walk) - 1 : walk'[Len(children) + i] = Tail(walk)[i]
  <2> DEFINE rest == Tail(walk)
  <2>1. walk' = new \o rest /\ rest \in Seq(WalkCall) /\ new \in Seq(WalkCall)
    BY <1>1, <1>6, <1>7
  <2>2. Len(rest) = Len(walk) - 1 /\ Len(new) = Len(children)
    BY <1>6, <1>7
  <2> HIDE DEF rest
  <2>3. /\ walk' \in Seq(WalkCall) /\ Len(walk') = Len(new) + Len(rest)
        /\ \A i \in 1 .. Len(new) : walk'[i] = new[i]
        /\ \A i \in 1 .. Len(rest) : walk'[Len(new) + i] = rest[i]
    BY <2>1, Joined
  <2>4. QED
    BY <2>2, <2>3 DEF rest
<1>9. QED
  BY <1>2, <1>3, <1>5, <1>7, <1>8 DEF children, call

(* What it adds to the vertices.                                           *)
LEMMA WalkedVertices ==
    ASSUME InputTypes, BuilderTypes, OutputTypes, BuilderInv,
           TraverseAndFlatten, Head(walk).node \in Ids
    PROVE  LET call == Head(walk)
               n == Node(call.node).name
               v == IF Drawn(GltfNode(n))
                    THEN Primitives(GltfNode(n))[1].vertices ELSE 0
           IN  /\ n \in GltfNodes /\ v \in Nat /\ Len(vertices) \in Nat
               /\ vertices' \in Seq(Vertex)
               /\ Len(vertices') = Len(vertices) + v
               /\ \A i \in 1 .. Len(vertices) : vertices'[i] = vertices[i]
               /\ \A i \in 1 .. v : vertices'[Len(vertices) + i] =
                    [node |-> n, vertex |-> i - 1, world |-> World(call)]
<1> DEFINE call == Head(walk)
           n == Node(call.node).name
           v == IF Drawn(GltfNode(n))
                THEN Primitives(GltfNode(n))[1].vertices ELSE 0
           new == [i \in 1 .. v |->
                    [node |-> n, vertex |-> i - 1, world |-> World(call)]]
<1>1. n \in GltfNodes /\ HasMeshOf(call.node, n) /\ n \in Nat
  BY GltfNodeFacts DEF BuilderInv, NodesFollowFile, MeshesFollowFile, InputTypes
<1>2. vertices \in Seq(Vertex) /\ Len(vertices) \in Nat
  BY DEF OutputTypes
<1>3. World(call) \in Seq(WorldStep)
  BY FirstWalk, WorldFacts DEF TraverseAndFlatten
<1>4. CASE Drawn(GltfNode(n))
  <2>1. v \in Nat
    BY <1>1, <1>4, DrawnFacts DEF InputTypes, Drawn
  <2>2. Node(call.node).mesh # None
        /\ meshes[Node(call.node).mesh + 1].vertices = v
    BY <1>1, <1>4 DEF HasMeshOf, BuilderTypes, None
  <2>3. vertices' = vertices \o new
    BY <2>2 DEF TraverseAndFlatten
  <2> HIDE DEF v, call, n
  <2>4. new \in [1 .. v -> Vertex]
    <3>1. \A i \in 1 .. v :
             [node |-> n, vertex |-> i - 1, world |-> World(call)] \in Vertex
      BY <1>1, <1>3, <2>1 DEF Vertex
    <3>2. QED
      BY <3>1
  <2>5. \A i \in 1 .. v :
            new[i] = [node |-> n, vertex |-> i - 1, world |-> World(call)]
    OBVIOUS
  <2> HIDE DEF new
  <2>6. new \in Seq(Vertex) /\ Len(new) = v
    BY <2>1, <2>4, Listed
  <2>7. /\ vertices' \in Seq(Vertex) /\ Len(vertices') = Len(vertices) + v
        /\ \A i \in 1 .. Len(vertices) : vertices'[i] = vertices[i]
        /\ \A i \in 1 .. v : vertices'[Len(vertices) + i] = new[i]
    <3>1. /\ vertices' \in Seq(Vertex)
          /\ Len(vertices') = Len(vertices) + Len(new)
          /\ \A i \in 1 .. Len(vertices) : vertices'[i] = vertices[i]
          /\ \A i \in 1 .. Len(new) : vertices'[Len(vertices) + i] = new[i]
      <4>1. /\ vertices \in Seq(Vertex) /\ new \in Seq(Vertex)
            /\ vertices' = vertices \o new
        BY <1>2, <2>3, <2>6
      <4>2. QED
        BY ONLY <4>1, Joined
    <3>2. QED
      BY <2>6, <3>1
  <2>8. QED
    BY <1>1, <1>2, <2>1, <2>5, <2>7 DEF v, call, n
<1>5. CASE ~ Drawn(GltfNode(n))
  <2>1. Node(call.node).mesh = None
    BY <1>1, <1>5 DEF HasMeshOf
  <2>2. vertices' = vertices
    BY <2>1 DEF TraverseAndFlatten, output
  <2>3. QED
    BY <1>1, <1>2, <1>5, <2>2
<1>6. QED
  BY <1>4, <1>5

(* What it adds to the triangles and their materials.                      *)
LEMMA WalkedTriangles ==
    ASSUME InputTypes, BuilderTypes, OutputTypes, BuilderInv,
           TraverseAndFlatten, Head(walk).node \in Ids
    PROVE  LET n == Node(Head(walk).node).name
               primitive == Primitives(GltfNode(n))[1]
               t == IF Drawn(GltfNode(n)) THEN Len(primitive.indices) \div 3
                    ELSE 0
           IN  /\ t \in Nat /\ Len(indices) \in Nat /\ Len(materialIndices) \in Nat
               /\ Drawn(GltfNode(n)) => Len(primitive.indices) = 3 * t
               /\ indices' \in Seq(Nat) /\ materialIndices' \in Seq(Nat)
               /\ Len(indices') = Len(indices) + 3 * t
               /\ Len(materialIndices') = Len(materialIndices) + t
               /\ \A i \in 1 .. Len(indices) : indices'[i] = indices[i]
               /\ \A i \in 1 .. Len(materialIndices) :
                    materialIndices'[i] = materialIndices[i]
               /\ \A i \in 1 .. 3 * t : indices'[Len(indices) + i] =
                    Len(vertices) + primitive.indices[i]
               /\ \A k \in 1 .. t : 
                    LET m == materialIndices'[Len(materialIndices) + k]
                    IN  /\ m \in 0 .. Len(materials) - 1
                        /\ materials[m + 1] = primitive.material
<1> DEFINE n == Node(Head(walk).node).name
           primitive == Primitives(GltfNode(n))[1]
           mesh == meshes[Node(Head(walk).node).mesh + 1]
           t == IF Drawn(GltfNode(n)) THEN Len(primitive.indices) \div 3 ELSE 0
<1>1. n \in GltfNodes /\ HasMeshOf(Head(walk).node, n)
  BY DEF BuilderInv, NodesFollowFile, MeshesFollowFile
<1>2. /\ indices \in Seq(Nat) /\ materialIndices \in Seq(Nat)
      /\ Len(indices) \in Nat /\ Len(materialIndices) \in Nat
      /\ Len(vertices) \in Nat
  BY DEF OutputTypes
<1>3. CASE Drawn(GltfNode(n))
  <2>1. primitive.indices \in Seq(Nat) /\ Len(primitive.indices) % 3 = 0
    BY <1>1, <1>3, DrawnFacts DEF InputTypes, Drawn
  <2>2. /\ t \in Nat /\ Len(primitive.indices) = 3 * t
        /\ t = Len(primitive.indices) \div 3
    <3>1. t = Len(primitive.indices) \div 3
      BY <1>3
    <3> HIDE DEF t, primitive
    <3> DEFINE l == Len(primitive.indices)
    <3>2. l \in Nat
      BY <2>1
    <3>5. l % 3 = 0 /\ t = l \div 3
      BY <2>1, <3>1, Zenon
    <3> HIDE DEF l
    <3>3. t \in Nat /\ l = 3 * t /\ t = l \div 3
      BY <3>2, <3>5
    <3>4. QED
      BY <3>3 DEF l
  <2>3. /\ Node(Head(walk).node).mesh # None
        /\ Node(Head(walk).node).mesh + 1 \in DOMAIN meshes
        /\ mesh.indices = primitive.indices
        /\ materials[mesh.material + 1] = primitive.material
    BY <1>1, <1>3 DEF HasMeshOf, BuilderTypes, None
  <2>4. mesh.material \in 0 .. Len(materials) - 1 /\ mesh.material \in Nat
    BY <2>3 DEF BuilderInv, MeshesFollowFile
  <2> DEFINE corners == [i \in 1 .. 3 * t |->
                            Len(vertices) + primitive.indices[i]]
             material == [k \in 1 .. t |-> mesh.material]
  <2>5. DOMAIN mesh.indices = 1 .. 3 * t /\ TriangleCount(mesh) = t
    <3> HIDE DEF t, mesh, primitive
    <3>1. DOMAIN primitive.indices = 1 .. Len(primitive.indices)
      BY <2>1
    <3>2. QED
      BY <2>2, <2>3, <3>1 DEF TriangleCount
  <2>6. OffsetIndices(mesh) = corners
    <3>1. OffsetIndices(mesh) = [i \in DOMAIN mesh.indices |->
                                    Len(vertices) + mesh.indices[i]]
      BY DEF OffsetIndices
    <3> HIDE DEF t, mesh, primitive
    <3>2. QED
      BY <2>3, <2>5, <3>1
  <2>7. indices' = indices \o corners
        /\ materialIndices' = materialIndices \o material
    <3>1. indices' = indices \o OffsetIndices(mesh)
          /\ materialIndices' = materialIndices \o
                [i \in 1 .. TriangleCount(mesh) |-> mesh.material]
      BY <2>3 DEF TraverseAndFlatten
    <3> HIDE DEF t, mesh, primitive
    <3>2. QED
      BY <2>5, <2>6, <3>1
  <2>8. DOMAIN primitive.indices = 1 .. 3 * t
        /\ \A i \in 1 .. 3 * t : primitive.indices[i] \in Nat
    <3> HIDE DEF t, primitive
    <3>1. /\ DOMAIN primitive.indices = 1 .. Len(primitive.indices)
          /\ \A i \in 1 .. Len(primitive.indices) : primitive.indices[i] \in Nat
      BY <2>1
    <3>2. QED
      BY <2>2, <3>1
  <2> HIDE DEF t, mesh, primitive
  <2>9. corners \in [1 .. 3 * t -> Nat] /\ material \in [1 .. t -> Nat]
    BY <1>2, <2>4, <2>8
  <2>10. /\ \A i \in 1 .. 3 * t :
                corners[i] = Len(vertices) + primitive.indices[i]
         /\ \A k \in 1 .. t : material[k] = mesh.material
    OBVIOUS
  <2> HIDE DEF corners, material
  <2>11. 3 * t \in Nat
    BY <2>2
  <2>12. /\ corners \in Seq(Nat) /\ Len(corners) = 3 * t
         /\ material \in Seq(Nat) /\ Len(material) = t
    BY <2>2, <2>9, <2>11, Listed
  <2>13. /\ indices' \in Seq(Nat) /\ Len(indices') = Len(indices) + 3 * t
         /\ \A i \in 1 .. Len(indices) : indices'[i] = indices[i]
         /\ \A i \in 1 .. 3 * t : indices'[Len(indices) + i] = corners[i]
    BY <1>2, <2>7, <2>12, Joined
  <2>14. /\ materialIndices' \in Seq(Nat)
         /\ Len(materialIndices') = Len(materialIndices) + t
         /\ \A i \in 1 .. Len(materialIndices) :
                materialIndices'[i] = materialIndices[i]
         /\ \A k \in 1 .. t :
                materialIndices'[Len(materialIndices) + k] = material[k]
    <3>1. /\ materialIndices' \in Seq(Nat)
          /\ Len(materialIndices') = Len(materialIndices) + Len(material)
          /\ \A i \in 1 .. Len(materialIndices) :
                materialIndices'[i] = materialIndices[i]
          /\ \A k \in 1 .. Len(material) :
                materialIndices'[Len(materialIndices) + k] = material[k]
      <4>1. /\ materialIndices \in Seq(Nat) /\ material \in Seq(Nat)
            /\ materialIndices' = materialIndices \o material
        BY <1>2, <2>7, <2>12
      <4>2. QED
        BY ONLY <4>1, Joined
    <3>2. QED
      BY <2>12, <3>1
  <2>15. \A k \in 1 .. t :
            LET m == materialIndices'[Len(materialIndices) + k]
            IN  /\ m \in 0 .. Len(materials) - 1
                /\ materials[m + 1] = primitive.material
    BY <2>3, <2>4, <2>10, <2>14
  <2>16. QED
    BY <1>2, <2>2, <2>10, <2>13, <2>14, <2>15 DEF t, primitive
<1>4. CASE ~ Drawn(GltfNode(n))
  <2>1. Node(Head(walk).node).mesh = None
    BY <1>1, <1>4 DEF HasMeshOf
  <2>2. indices' = indices /\ materialIndices' = materialIndices
    BY <2>1 DEF TraverseAndFlatten, output
  <2>3. t = 0 /\ 1 .. 0 = {} /\ 3 * 0 = 0
    BY <1>4
  <2> HIDE DEF t, primitive
  <2>4. QED
    BY <1>2, <1>4, <2>2, <2>3 DEF t, primitive
<1>5. QED
  BY <1>3, <1>4

-----------------------------------------------------------------------------
(* The walk follows the tree: a call for a node comes with the path to its *)
(* parent.                                                                 *)

StandsAt(id, above) ==
    /\ id \in Ids
    /\ IF above = << >> THEN Node(id).parent = None
       ELSE /\ Node(id).parent # None
            /\ IsPathTo(Names(above), Node(Node(id).parent).name)

WalkFollowsTree ==
    \A i \in DOMAIN walk : StandsAt(walk[i].node, walk[i].above)

LEMMA NamesFacts ==
    ASSUME NEW world \in Seq(WorldStep)
    PROVE  /\ Names(world) \in Seq(Nat) /\ Len(Names(world)) = Len(world)
           /\ Len(world) \in Nat
           /\ \A i \in 1 .. Len(world) : Names(world)[i] = world[i].node
<1>1. DOMAIN world = 1 .. Len(world) /\ Len(world) \in Nat
  OBVIOUS
<1>2. \A i \in 1 .. Len(world) : world[i] \in WorldStep
  OBVIOUS
<1>3. \A i \in 1 .. Len(world) : world[i].node \in Nat
  BY <1>2 DEF WorldStep
<1>4. Names(world) \in [1 .. Len(world) -> Nat]
  BY <1>1, <1>3 DEF Names
<1>5. Names(world) \in Seq(Nat) /\ Len(Names(world)) = Len(world)
  BY <1>1, <1>4, Listed
<1>6. QED
  BY <1>1, <1>5 DEF Names

LEMMA PathGrows ==
    ASSUME BuilderTypes, NodesFollowFile, NEW call \in WalkCall,
           StandsAt(call.node, call.above)
    PROVE  IsPathTo(Names(World(call)), Node(call.node).name)
<1> DEFINE id == call.node
           above == call.above
           m == Len(above)
           old == Names(above)
           path == Names(World(call))
<1>1. id \in Ids
  BY DEF StandsAt
<1>2. /\ World(call) \in Seq(WorldStep) /\ above \in Seq(WorldStep) /\ m \in Nat
      /\ Len(World(call)) = m + 1
      /\ \A i \in 1 .. m : World(call)[i] = above[i]
      /\ World(call)[m + 1].node = Node(id).name
  <2>1. /\ World(call) \in Seq(WorldStep) /\ above \in Seq(WorldStep)
        /\ m \in Nat /\ Len(World(call)) = m + 1
        /\ \A i \in 1 .. m : World(call)[i] = above[i]
        /\ World(call)[m + 1] = [node |-> Node(id).name, local |-> Node(id).local]
    BY <1>1, WorldFacts
  <2>2. QED
    BY ONLY <2>1
<1>3. /\ old \in Seq(Nat) /\ Len(old) = m
      /\ \A i \in 1 .. m : old[i] = above[i].node
  BY <1>2, NamesFacts
<1>4. /\ path \in Seq(Nat) /\ Len(path) = m + 1
      /\ \A i \in 1 .. m + 1 : path[i] = World(call)[i].node
  <2>1. World(call) \in Seq(WorldStep) /\ Len(World(call)) = m + 1
    BY <1>2
  <2>2. /\ path \in Seq(Nat) /\ Len(path) = Len(World(call))
        /\ \A i \in 1 .. Len(World(call)) : path[i] = World(call)[i].node
    BY <2>1, NamesFacts
  <2>3. QED
    BY <2>1, <2>2
<1> HIDE DEF m, old, path
<1>5. (\A i \in 1 .. m : path[i] = old[i]) /\ path[m + 1] = Node(id).name
  <2>1. \A i \in 1 .. m : i \in 1 .. m + 1
    BY <1>2
  <2>2. m + 1 \in 1 .. m + 1
    BY <1>2
  <2>3. \A i \in 1 .. m : path[i] = old[i]
    BY <1>2, <1>3, <1>4, <2>1
  <2>4. QED
    BY <1>2, <1>4, <2>2, <2>3
<1>6. path # << >> /\ path[Len(path)] = Node(id).name /\ Head(path) = path[1]
  BY <1>2, <1>4, <1>5
<1>7. StandsBelow(Node(id).name, Node(id).parent)
  BY <1>1 DEF NodesFollowFile
<1>8. CASE above = << >>
  <2>1. m = 0
    BY <1>8 DEF m
  <2>2. Node(id).name \in RootNames
    BY <1>7, <1>8 DEF StandsAt, StandsBelow
  <2>3. \E i \in DOMAIN file.roots : file.roots[i] = Head(path)
    BY <1>5, <1>6, <2>1, <2>2 DEF RootNames
  <2>4. 1 .. Len(path) - 1 = {}
    BY <1>4, <2>1
  <2>5. QED
    BY <1>6, <2>3, <2>4 DEF IsPathTo, path
<1>9. CASE above # << >>
  <2>1. m \in Nat \ {0}
    BY <1>2, <1>9 DEF m
  <2>2. Node(id).parent # None /\ IsPathTo(old, Node(Node(id).parent).name)
    BY <1>9 DEF StandsAt, old
  <2>3. /\ \E i \in DOMAIN file.roots : file.roots[i] = Head(old)
        /\ \A i \in 1 .. m - 1 : old[i + 1] \in Children(old[i])
        /\ old[m] = Node(Node(id).parent).name
    BY <1>3, <2>2 DEF IsPathTo
  <2>4. Head(old) = old[1]
    BY <1>3, <2>1
  <2>5. Head(path) = Head(old)
    BY <1>5, <1>6, <2>1, <2>4
  <2>6. path[m + 1] \in Children(path[m])
    <3>1. Node(id).name \in Children(Node(Node(id).parent).name)
      BY <1>7, <2>2 DEF StandsBelow
    <3>2. m \in 1 .. m
      BY <2>1
    <3>3. QED
      BY <1>5, <2>3, <3>1, <3>2
  <2>7. \A i \in 1 .. m : path[i + 1] \in Children(path[i])
    <3>1. TAKE i \in 1 .. m
    <3>2. CASE i = m
      BY <2>6, <3>2
    <3>3. CASE i # m
      <4>1. i \in 1 .. m - 1 /\ i + 1 \in 1 .. m /\ i \in 1 .. m
        BY <2>1, <3>3
      <4>2. QED
        BY <1>5, <2>3, <4>1
    <3>4. QED
      BY <3>2, <3>3
  <2>8. Len(path) - 1 = m
    BY <1>4, <2>1
  <2>9. QED
    BY <1>6, <2>3, <2>5, <2>7, <2>8 DEF IsPathTo, path
<1>10. QED
  BY <1>8, <1>9

LEMMA FlattenStartsAtRoots ==
    ASSUME BuilderTypes, FlattenToScene
    PROVE  /\ walk' \in Seq(WalkCall) /\ WalkFollowsTree'
           /\ Len(walk') = Cardinality(Roots) /\ Cardinality(Roots) \in Nat
           /\ \A i \in 1 .. Cardinality(Roots) :
                /\ RootNodes[i] \in Roots
                /\ walk'[i] = [node |-> RootNodes[i], above |-> << >>]
<1> DEFINE c == Cardinality(Roots)
<1>1. c \in Nat /\ RootNodes \in [1 .. c -> Roots] /\ DOMAIN RootNodes = 1 .. c
  BY RootsInOrder
<1>2. walk' = [i \in 1 .. c |-> [node |-> RootNodes[i], above |-> << >>]]
  BY <1>1 DEF FlattenToScene
<1> HIDE DEF c
<1>3. \A i \in 1 .. c : RootNodes[i] \in Roots
  BY <1>1
<1>4. \A id \in Roots : id \in Ids /\ id \in Nat /\ Node(id).parent = None
  BY NodeFacts DEF Roots
<1>5. \A i \in 1 .. c : [node |-> RootNodes[i], above |-> << >>] \in WalkCall
  BY <1>3, <1>4 DEF WalkCall
<1>6. walk' \in [1 .. c -> WalkCall]
  BY <1>2, <1>5
<1>7. walk' \in Seq(WalkCall) /\ Len(walk') = c
  BY <1>1, <1>6, Listed
<1>8. nodes' = nodes
  BY DEF FlattenToScene, builder
<1>9. ASSUME NEW i \in DOMAIN walk'
      PROVE  /\ walk'[i].node \in Ids' /\ walk'[i].above = << >>
             /\ nodes'[walk'[i].node + 1].parent = None
  <2>1. i \in 1 .. c /\ walk'[i] = [node |-> RootNodes[i], above |-> << >>]
    BY <1>2
  <2>2. RootNodes[i] \in Ids /\ Node(RootNodes[i]).parent = None
    BY <1>3, <1>4, <2>1
  <2>3. QED
    BY <1>8, <2>1, <2>2 DEF Ids, Node
<1>10. WalkFollowsTree'
  BY <1>9 DEF WalkFollowsTree, StandsAt, Node
<1>11. QED
  BY <1>1, <1>2, <1>3, <1>7, <1>10 DEF c

LEMMA WalkKeepsTree ==
    ASSUME InputTypes, BuilderTypes, OutputTypes, BuilderInv,
           WalkFollowsTree, TraverseAndFlatten
    PROVE  /\ walk' \in Seq(WalkCall) /\ WalkFollowsTree'
           /\ Head(walk).node \in Ids
           /\ IsPathTo(Names(World(Head(walk))), Node(Head(walk).node).name)
<1> DEFINE call == Head(walk)
           children == Node(call.node).children
           n == Len(children)
<1>1. walk # << >> /\ UNCHANGED <<file, nodes>>
  BY DEF TraverseAndFlatten, builder
<1>2. call \in WalkCall /\ call = walk[1] /\ 1 \in DOMAIN walk
  BY <1>1, FirstWalk
<1>3. StandsAt(call.node, call.above) /\ call.node \in Ids
  BY <1>2 DEF WalkFollowsTree, StandsAt
<1>4. IsPathTo(Names(World(call)), Node(call.node).name)
  BY <1>2, <1>3, PathGrows DEF BuilderInv
<1>5. World(call) # << >>
  <2>1. World(call) \in Seq(WorldStep) /\ call.above \in Seq(WorldStep)
        /\ Len(World(call)) = Len(call.above) + 1 /\ Len(call.above) \in Nat
    BY <1>2, <1>3, WorldFacts
  <2>2. QED
    BY <2>1
<1>6. /\ children \in Seq(Nat) /\ n \in Nat /\ Len(walk) \in Nat \ {0}
      /\ walk' \in Seq(WalkCall)
      /\ Len(walk') = n + (Len(walk) - 1)
      /\ \A i \in 1 .. n :
            walk'[i] = [node |-> children[i], above |-> World(call)]
      /\ \A i \in 1 .. Len(walk) - 1 : walk'[n + i] = walk[i + 1]
  BY <1>3, WalkedCalls DEF BuilderInv
<1>7. \A i \in 1 .. n : children[i] \in Ids /\ Node(children[i]).parent = call.node
  BY <1>3, <1>6 DEF BuilderInv, ChildrenAgree
<1>8. call.node # None
  BY <1>3, NodeFacts DEF None
<1>9. walk \in Seq(WalkCall)
  BY DEF OutputTypes
<1> HIDE DEF call, children, n
<1>10. ASSUME NEW i \in DOMAIN walk'
       PROVE  \E id, above : /\ walk'[i].node = id /\ walk'[i].above = above
                             /\ StandsAt(id, above)
  <2>1. i \in 1 .. n + (Len(walk) - 1)
    BY <1>6
  <2>2. CASE i \in 1 .. n
    <3>0. walk'[i] = [node |-> children[i], above |-> World(call)]
      BY <1>6, <2>2
    <3>1. walk'[i].node = children[i] /\ walk'[i].above = World(call)
      BY <3>0
    <3>2. StandsAt(children[i], World(call))
      BY <1>4, <1>5, <1>7, <1>8, <2>2 DEF StandsAt
    <3>3. QED
      BY <3>1, <3>2
  <2>3. CASE i \notin 1 .. n
    <3>1. /\ i - n \in 1 .. Len(walk) - 1 /\ i = n + (i - n)
          /\ (i - n) + 1 \in 1 .. Len(walk)
      BY <1>6, <2>1, <2>3
    <3>2. walk'[i] = walk[(i - n) + 1] /\ (i - n) + 1 \in DOMAIN walk
      BY <1>6, <1>9, <3>1
    <3>3. QED
      BY <3>2 DEF WalkFollowsTree
  <2>4. QED
    BY <2>2, <2>3
<1>11. \A id, above : StandsAt(id, above) => StandsAt(id, above)'
  BY <1>1 DEF StandsAt, Ids, Node, IsPathTo, Names, Children
<1>12. WalkFollowsTree'
  BY <1>10, <1>11 DEF WalkFollowsTree
<1>13. QED
  BY <1>3, <1>4, <1>6, <1>12 DEF call

-----------------------------------------------------------------------------
(* Triangle k has its corners in one node, of whose primitive it has the   *)
(* material.                                                               *)

Corner(k, corner) == indices[3 * (k - 1) + corner]

IsTriangleOf(k, n) ==
    /\ n \in GltfNodes
    /\ \A corner \in 1 .. 3 : /\ Corner(k, corner) < Len(vertices)
                              /\ vertices[Corner(k, corner) + 1].node = n
    /\ Primitives(GltfNode(n))[1].material = materials[materialIndices[k] + 1]

TrianglesAreTogether ==
    /\ Len(indices) = 3 * Len(materialIndices)
    /\ \A k \in DOMAIN materialIndices : \E n : IsTriangleOf(k, n)

LEMMA OldTriangles ==
    ASSUME InputTypes, BuilderTypes, OutputTypes, BuilderInv,
           TraverseAndFlatten, Head(walk).node \in Ids, TrianglesAreTogether,
           NEW k \in 1 .. Len(materialIndices), NEW n, IsTriangleOf(k, n)
    PROVE  IsTriangleOf(k, n)'
<1>1. /\ Len(materialIndices) \in Nat /\ indices \in Seq(Nat)
      /\ Len(indices) = 3 * Len(materialIndices) /\ k \in Nat
      /\ Len(vertices) \in Nat
  BY DEF OutputTypes, TrianglesAreTogether
<1>2. UNCHANGED <<file, materials>>
  BY DEF TraverseAndFlatten, builder
<1>3. materialIndices'[k] = materialIndices[k]
  BY WalkedTriangles
<1>4. ASSUME NEW corner \in 1 .. 3
      PROVE  /\ Corner(k, corner)' = Corner(k, corner)
             /\ Corner(k, corner) < Len(vertices')
             /\ vertices'[Corner(k, corner) + 1].node = n
  <2> DEFINE i == 3 * (k - 1) + corner
  <2>1. i \in 1 .. Len(indices)
    BY <1>1
  <2>2. indices'[i] = indices[i]
    BY <2>1, WalkedTriangles
  <2>3. indices[i] \in Nat
    BY <1>1, <2>1
  <2> HIDE DEF i
  <2>4. indices[i] < Len(vertices) /\ vertices[indices[i] + 1].node = n
    BY DEF IsTriangleOf, Corner, i
  <2>5. indices[i] + 1 \in 1 .. Len(vertices)
    BY <1>1, <2>3, <2>4
  <2>6. vertices'[indices[i] + 1] = vertices[indices[i] + 1]
    BY <2>5, WalkedVertices
  <2>7. Len(vertices') \in Nat /\ Len(vertices) <= Len(vertices')
    <3>1. PICK v \in Nat : Len(vertices') = Len(vertices) + v
      BY WalkedVertices
    <3>2. QED
      BY <1>1, <3>1
  <2>8. indices[i] < Len(vertices')
    BY <1>1, <2>3, <2>4, <2>7
  <2>9. QED
    BY <2>2, <2>4, <2>6, <2>8 DEF Corner, i
<1>5. n \in GltfNodes'
      /\ Primitives(GltfNode(n))[1].material =
            materials[materialIndices[k] + 1]
  BY <1>2 DEF IsTriangleOf, GltfNodes
<1>6. (Primitives(GltfNode(n))[1].material)' =
        Primitives(GltfNode(n))[1].material
  BY <1>2 DEF Primitives, GltfNode
<1>7. QED
  BY <1>2, <1>3, <1>4, <1>5, <1>6 DEF IsTriangleOf

LEMMA NewTriangles ==
    ASSUME InputTypes, BuilderTypes, OutputTypes, BuilderInv,
           TraverseAndFlatten, Head(walk).node \in Ids, TrianglesAreTogether,
           NEW k \in 1 .. Len(materialIndices'), k \notin 1 .. Len(materialIndices)
    PROVE  \E n : IsTriangleOf(k, n)'
<1> DEFINE n == Node(Head(walk).node).name
           primitive == Primitives(GltfNode(n))[1]
           t == IF Drawn(GltfNode(n)) THEN Len(primitive.indices) \div 3 ELSE 0
           v == IF Drawn(GltfNode(n)) THEN primitive.vertices ELSE 0
<1>1. /\ t \in Nat /\ Len(indices) \in Nat /\ Len(materialIndices) \in Nat
      /\ Drawn(GltfNode(n)) => Len(primitive.indices) = 3 * t
      /\ Len(materialIndices') = Len(materialIndices) + t
      /\ \A i \in 1 .. 3 * t :
            indices'[Len(indices) + i] = Len(vertices) + primitive.indices[i]
      /\ \A i \in 1 .. t :
            materials[materialIndices'[Len(materialIndices) + i] + 1]
                = primitive.material
  BY WalkedTriangles
<1>2. /\ n \in GltfNodes /\ v \in Nat /\ Len(vertices) \in Nat
      /\ Len(vertices') = Len(vertices) + v
      /\ \A i \in 1 .. v : vertices'[Len(vertices) + i] =
            [node |-> n, vertex |-> i - 1, world |-> World(Head(walk))]
  BY WalkedVertices
<1>3. Len(indices) = 3 * Len(materialIndices)
  BY DEF TrianglesAreTogether
<1>4. UNCHANGED <<file, nodes, materials>>
  BY DEF TraverseAndFlatten, builder
<1>5. t # 0 => Drawn(GltfNode(n))
  OBVIOUS
<1> HIDE DEF t
<1> DEFINE j == k - Len(materialIndices)
<1>6. j \in 1 .. t /\ k = Len(materialIndices) + j
  BY <1>1
<1>7. Drawn(GltfNode(n))
  BY <1>1, <1>5, <1>6
<1>8. /\ primitive.indices \in Seq(Nat) /\ v = primitive.vertices
      /\ \A c \in DOMAIN primitive.indices : primitive.indices[c] < v
  BY <1>2, <1>7, DrawnFacts DEF InputTypes, Drawn
<1>9. Len(primitive.indices) = 3 * t
  BY <1>1, <1>7
<1> HIDE DEF n, primitive, v, j
<1>10. ASSUME NEW corner \in 1 .. 3
       PROVE  /\ indices'[3 * (k - 1) + corner] < Len(vertices')
              /\ vertices'[indices'[3 * (k - 1) + corner] + 1].node = n
  <2> DEFINE i == 3 * (j - 1) + corner
             x == primitive.indices[i]
  <2>1. i \in 1 .. 3 * t /\ 3 * (k - 1) + corner = Len(indices) + i
    BY <1>1, <1>3, <1>6
  <2>2. indices'[3 * (k - 1) + corner] = Len(vertices) + x
    BY <1>1, <2>1
  <2>3. x \in Nat /\ x < v
    <3>1. i \in DOMAIN primitive.indices
      BY <1>8, <1>9, <2>1
    <3>2. QED
      BY <1>8, <3>1
  <2> HIDE DEF i, x
  <2>4. x + 1 \in 1 .. v /\ (Len(vertices) + x) + 1 = Len(vertices) + (x + 1)
        /\ Len(vertices) + x < Len(vertices) + v
    BY <1>2, <2>3
  <2>5. vertices'[Len(vertices) + (x + 1)] =
            [node |-> n, vertex |-> (x + 1) - 1, world |-> World(Head(walk))]
    BY <1>2, <2>4
  <2>6. vertices'[Len(vertices) + (x + 1)].node = n
    BY <2>5
  <2>7. QED
    BY <1>2, <2>2, <2>4, <2>6
<1>11. materials[materialIndices'[k] + 1] = primitive.material
  BY <1>1, <1>6
<1>12. QED
  <2>2. ASSUME NEW m, m = n
        PROVE  IsTriangleOf(k, m)'
    <3>1. m \in GltfNodes'
      BY <1>2, <1>4, <2>2 DEF GltfNodes
    <3>2. (Primitives(GltfNode(m))[1].material)' =
            Primitives(GltfNode(m))[1].material
      BY <1>4 DEF Primitives, GltfNode
    <3>3. Primitives(GltfNode(m))[1].material = materials'[materialIndices'[k] + 1]
      BY <1>4, <1>11, <2>2 DEF primitive
    <3>4. QED
      BY <1>10, <2>2, <3>1, <3>2, <3>3 DEF IsTriangleOf, Corner
  <2>3. QED
    BY <2>2

-----------------------------------------------------------------------------
(* The inductive invariant.                                                *)

OutputInv ==
    WalkFollowsTree /\ WorldTransformsFollowTheTree /\ TrianglesAreTogether

SceneInv == Types /\ BuilderInv /\ PhaseInv /\ OutputInv

NothingOut ==
    /\ walk = << >>
    /\ vertices = << >> /\ indices = << >> /\ materialIndices = << >>

LEMMA NothingOutIsSound ==
    ASSUME NothingOut
    PROVE  OutputInv
<1>1. DOMAIN walk = {} /\ DOMAIN vertices = {} /\ DOMAIN materialIndices = {}
      /\ Len(indices) = 3 * Len(materialIndices)
  BY DEF NothingOut
<1>2. QED
  BY <1>1 DEF OutputInv, WalkFollowsTree, WorldTransformsFollowTheTree,
              TrianglesAreTogether

LEMMA OutputStays ==
    ASSUME OutputInv, UNCHANGED <<file, builder, walk, output>>
    PROVE  OutputInv'
<1>1. UNCHANGED <<file, nodes, meshes, materials, walk>>
      /\ UNCHANGED <<vertices, indices, materialIndices>>
  BY DEF builder, output
<1>2. WalkFollowsTree'
  BY <1>1 DEF OutputInv, WalkFollowsTree, StandsAt, Ids, Node, IsPathTo, Names,
              Children
<1>3. WorldTransformsFollowTheTree'
  BY <1>1 DEF OutputInv, WorldTransformsFollowTheTree, IsPathTo, Names, Children
<1>4. TrianglesAreTogether'
  BY <1>1 DEF OutputInv, TrianglesAreTogether, IsTriangleOf, Corner, GltfNodes,
              Primitives, GltfNode
<1>5. QED
  BY <1>2, <1>3, <1>4 DEF OutputInv

LEMMA WalkKeepsOutput ==
    ASSUME SceneInv, TraverseAndFlatten
    PROVE  OutputTypes' /\ OutputInv'
<1>1. /\ InputTypes /\ BuilderTypes /\ OutputTypes /\ BuilderInv
      /\ WalkFollowsTree /\ WorldTransformsFollowTheTree /\ TrianglesAreTogether
  BY DEF SceneInv, Types, OutputInv
<1>2. /\ walk' \in Seq(WalkCall) /\ WalkFollowsTree' /\ Head(walk).node \in Ids
      /\ IsPathTo(Names(World(Head(walk))), Node(Head(walk).node).name)
  BY <1>1, WalkKeepsTree
<1>3. file' = file
  BY DEF TraverseAndFlatten
<1>4. OutputTypes'
  BY <1>1, <1>2, WalkedVertices, WalkedTriangles DEF OutputTypes
<1>5. WorldTransformsFollowTheTree'
  <2> DEFINE n == Node(Head(walk).node).name
             v == IF Drawn(GltfNode(n))
                  THEN Primitives(GltfNode(n))[1].vertices ELSE 0
             w == World(Head(walk))
  <2>1. /\ v \in Nat /\ Len(vertices) \in Nat
        /\ vertices' \in Seq(Vertex) /\ Len(vertices') = Len(vertices) + v
        /\ \A i \in 1 .. Len(vertices) : vertices'[i] = vertices[i]
        /\ \A i \in 1 .. v : vertices'[Len(vertices) + i] =
                [node |-> n, vertex |-> i - 1, world |-> w]
    BY <1>1, <1>2, WalkedVertices
  <2>2. IsPathTo(Names(w), n)
    BY <1>2
  <2>3. vertices \in Seq(Vertex)
    BY <1>1 DEF OutputTypes
  <2> HIDE DEF n, v, w
  <2>4. ASSUME NEW i \in DOMAIN vertices'
        PROVE  IsPathTo(Names(vertices'[i].world), vertices'[i].node)
    <3>1. i \in 1 .. Len(vertices) + v
      BY <2>1
    <3>2. CASE i \in 1 .. Len(vertices)
      <4>1. vertices'[i] = vertices[i] /\ i \in DOMAIN vertices
        BY <2>1, <2>3, <3>2
      <4>2. QED
        BY <1>1, <4>1 DEF WorldTransformsFollowTheTree
    <3>3. CASE i \notin 1 .. Len(vertices)
      <4>1. i - Len(vertices) \in 1 .. v
            /\ i = Len(vertices) + (i - Len(vertices))
        BY <2>1, <3>1, <3>3
      <4>2. vertices'[i] = [node |-> n, vertex |-> (i - Len(vertices)) - 1,
                            world |-> w]
        BY <2>1, <4>1
      <4>3. vertices'[i].node = n /\ vertices'[i].world = w
        BY <4>2
      <4>4. QED
        BY <2>2, <4>3
    <3>4. QED
      BY <3>2, <3>3
  <2>5. \A path, n2 : IsPathTo(path, n2) => IsPathTo(path, n2)'
    BY <1>3 DEF IsPathTo, Children
  <2>6. QED
    BY <2>4, <2>5 DEF WorldTransformsFollowTheTree, Names
<1>6. TrianglesAreTogether'
  <2>1. Len(indices') = 3 * Len(materialIndices')
        /\ materialIndices' \in Seq(Nat)
    <3>1. PICK t \in Nat : /\ Len(indices') = Len(indices) + 3 * t
                           /\ Len(materialIndices') = Len(materialIndices) + t
                           /\ materialIndices' \in Seq(Nat)
                           /\ Len(materialIndices) \in Nat
      BY <1>1, <1>2, WalkedTriangles
    <3>2. Len(indices) = 3 * Len(materialIndices)
      BY <1>1 DEF TrianglesAreTogether
    <3>3. QED
      BY <3>1, <3>2
  <2>2. ASSUME NEW k \in DOMAIN materialIndices'
        PROVE  \E n : IsTriangleOf(k, n)'
    <3>1. k \in 1 .. Len(materialIndices')
      BY <2>1, <2>2
    <3>2. CASE k \in 1 .. Len(materialIndices)
      <4>1. k \in DOMAIN materialIndices
        BY <1>1, <3>2 DEF OutputTypes
      <4>2. PICK n : IsTriangleOf(k, n)
        BY <1>1, <4>1 DEF TrianglesAreTogether
      <4>3. QED
        BY <1>1, <1>2, <3>2, <4>2, OldTriangles
    <3>3. CASE k \notin 1 .. Len(materialIndices)
      BY <1>1, <1>2, <3>1, <3>3, NewTriangles
    <3>4. QED
      BY <3>2, <3>3
  <2>3. QED
    BY <2>1, <2>2 DEF TrianglesAreTogether
<1>7. QED
  BY <1>2, <1>4, <1>5, <1>6 DEF OutputInv

LEMMA StepKeepsInputs ==
    ASSUME InputTypes, BuilderTypes, [Next]_vars
    PROVE  InputTypes'
<1>1. file.channels \in Seq(Channel)
  BY FileFacts DEF InputTypes
<1>2. channel \in 0 .. Len(file.channels) /\ Len(file.channels) \in Nat
  BY <1>1 DEF InputTypes
<1>3. UNCHANGED <<file, time>>
  BY DEF Next, vars, LoadGltfFile, LoadGltfNode, LoadEnds, UpdateAnimation,
         AnimationEnds, FlattenToScene, TraverseAndFlatten, Build
<1>4. channel' \in 0 .. Len(file.channels)
  <2>1. CASE UpdateAnimation
    BY <1>2, <2>1 DEF UpdateAnimation
  <2>2. CASE ~ UpdateAnimation
    BY <1>2, <2>2 DEF Next, vars, LoadGltfFile, LoadGltfNode, LoadEnds,
       AnimationEnds, FlattenToScene, TraverseAndFlatten, Build
  <2>3. QED
    BY <2>1, <2>2
<1>5. pc' \in {"load", "nodes", "animate", "roots", "walk", "built", "failed",
               "undefined"}
  BY DEF InputTypes, Next, vars, LoadGltfFile, LoadGltfNode, LoadEnds,
     UpdateAnimation, AnimationEnds, FlattenToScene, TraverseAndFlatten, Build
<1>6. QED
  BY <1>3, <1>4, <1>5 DEF InputTypes

LEMMA StepKeepsPhase ==
    ASSUME InputTypes, PhaseInv, [Next]_vars
    PROVE  PhaseInv'
<1>1. CASE LoadGltfFile
  BY <1>1 DEF LoadGltfFile, PhaseInv, builder, output
<1>2. CASE LoadGltfNode
  BY <1>2 DEF LoadGltfNode, PhaseInv, output
<1>3. CASE LoadEnds
  BY <1>3 DEF LoadEnds, PhaseInv, builder, output
<1>4. CASE UpdateAnimation
  BY <1>4 DEF UpdateAnimation, PhaseInv, output
<1>5. CASE AnimationEnds
  BY <1>5 DEF AnimationEnds, PhaseInv, builder, output
<1>6. CASE FlattenToScene
  BY <1>6 DEF FlattenToScene, PhaseInv, builder, output
<1>7. CASE TraverseAndFlatten
  BY <1>7 DEF TraverseAndFlatten, PhaseInv, builder
<1>8. CASE Build
  BY <1>8 DEF Build, PhaseInv, builder, output
<1>9. CASE UNCHANGED vars
  BY <1>9 DEF vars, PhaseInv, builder, output
<1>10. QED
  BY <1>1, <1>2, <1>3, <1>4, <1>5, <1>6, <1>7, <1>8, <1>9 DEF Next

LEMMA StepKeepsScene ==
    ASSUME SceneInv, [Next]_vars
    PROVE  SceneInv'
<1>1. /\ InputTypes /\ BuilderTypes /\ OutputTypes /\ BuilderInv /\ PhaseInv
      /\ OutputInv
  BY DEF SceneInv, Types
<1>2. InputTypes' /\ PhaseInv'
  BY <1>1, StepKeepsInputs, StepKeepsPhase
<1>3. ASSUME UNCHANGED <<walk, output>>
      PROVE  OutputTypes'
  BY <1>1, <1>3 DEF OutputTypes, output
<1>4. ASSUME pc \in {"load", "nodes", "animate", "roots"}
      PROVE  NothingOut
  BY <1>1, <1>4 DEF PhaseInv, NothingOut
<1>5. ASSUME NothingOut, UNCHANGED <<walk, output>>
      PROVE  OutputInv'
  <2>1. NothingOut'
    BY <1>5 DEF NothingOut, output
  <2>2. NothingOut' => OutputInv'
    BY NothingOutIsSound, PTL
  <2>3. QED
    BY <2>1, <2>2
<1>6. CASE LoadGltfFile
  <2>1. BuilderTypes' /\ BuilderInv'
    BY <1>1, <1>6, OpeningKeepsBuilder
  <2>2. NothingOut /\ UNCHANGED <<walk, output>>
    BY <1>4, <1>6 DEF LoadGltfFile
  <2>3. QED
    BY <1>2, <1>3, <1>5, <2>1, <2>2 DEF SceneInv, Types
<1>7. CASE LoadGltfNode
  <2>1. BuilderTypes' /\ BuilderInv'
    BY <1>1, <1>7, LoadTypes, LoadKeepsNodes, LoadKeepsCalls, LoadKeepsChildren,
       LoadKeepsMeshes DEF BuilderInv
  <2>2. NothingOut /\ UNCHANGED <<walk, output>>
    BY <1>4, <1>7 DEF LoadGltfNode
  <2>3. QED
    BY <1>2, <1>3, <1>5, <2>1, <2>2 DEF SceneInv, Types
<1>8. CASE UpdateAnimation
  <2>1. BuilderTypes' /\ BuilderInv'
    BY <1>1, <1>8, AnimationKeepsBuilder
  <2>2. NothingOut /\ UNCHANGED <<walk, output>>
    BY <1>4, <1>8 DEF UpdateAnimation
  <2>3. QED
    BY <1>2, <1>3, <1>5, <2>1, <2>2 DEF SceneInv, Types
<1>9. CASE LoadEnds \/ AnimationEnds \/ Build \/ UNCHANGED vars
  <2>1. UNCHANGED <<file, calls, builder, walk, output>>
    BY <1>9 DEF LoadEnds, AnimationEnds, Build, vars
  <2>2. BuilderTypes' /\ BuilderInv'
    BY <1>1, <2>1, BuilderStays
  <2>3. OutputInv' /\ OutputTypes'
    BY <1>1, <1>3, <2>1, OutputStays
  <2>4. QED
    BY <1>2, <2>2, <2>3 DEF SceneInv, Types
<1>10. CASE FlattenToScene
  <2>1. UNCHANGED <<file, calls, builder, output>>
    BY <1>10 DEF FlattenToScene
  <2>2. BuilderTypes' /\ BuilderInv'
    BY <1>1, <2>1, BuilderStays
  <2>3. walk' \in Seq(WalkCall) /\ WalkFollowsTree'
    BY <1>1, <1>10, FlattenStartsAtRoots
  <2>4. vertices' = << >> /\ indices' = << >> /\ materialIndices' = << >>
    BY <1>4, <1>10, <2>1 DEF FlattenToScene, NothingOut, output
  <2>5. DOMAIN vertices' = {} /\ DOMAIN materialIndices' = {}
        /\ Len(indices') = 3 * Len(materialIndices')
    BY <2>4
  <2>6. WorldTransformsFollowTheTree' /\ TrianglesAreTogether'
    BY <2>5 DEF WorldTransformsFollowTheTree, TrianglesAreTogether
  <2>7. OutputTypes'
    BY <1>1, <2>1, <2>3 DEF OutputTypes, output
  <2>8. QED
    BY <1>2, <2>2, <2>3, <2>6, <2>7 DEF SceneInv, Types, OutputInv
<1>11. CASE TraverseAndFlatten
  <2>1. BuilderTypes' /\ BuilderInv'
    BY <1>1, <1>11, BuilderStays DEF TraverseAndFlatten
  <2>2. OutputTypes' /\ OutputInv'
    BY <1>11, WalkKeepsOutput
  <2>3. QED
    BY <1>2, <2>1, <2>2 DEF SceneInv, Types
<1>12. QED
  BY <1>6, <1>7, <1>8, <1>9, <1>10, <1>11 DEF Next

LEMMA Inductive == Spec => []SceneInv
<1>1. Init => SceneInv
  <2> SUFFICES ASSUME Init PROVE SceneInv
    OBVIOUS
  <2>2. NothingOut
    BY DEF Init, NothingOut
  <2>3. QED
    BY <2>2, InitTypes, NothingOutIsSound DEF SceneInv
<1>2. SceneInv /\ [Next]_vars => SceneInv'
  BY StepKeepsScene
<1>3. QED
  BY <1>1, <1>2, PTL DEF Spec

-----------------------------------------------------------------------------
(* Ids index the builder's tables, and parents and children agree          *)
(* (SceneBuilder).                                                         *)
THEOREM TypeCorrect == Spec => []TypeOK
<1>1. SceneInv => TypeOK
  <2> SUFFICES ASSUME SceneInv PROVE TypeOK
    OBVIOUS
  <2>1. /\ InputTypes /\ BuilderTypes
        /\ NodesFollowFile /\ ChildrenAgree /\ MeshesFollowFile
    BY DEF SceneInv, Types, BuilderInv
  <2>2. ASSUME NEW id \in Ids
        PROVE  Node(id).mesh \in {None} \cup 0 .. Len(meshes) - 1
    <3>1. HasMeshOf(id, Node(id).name)
      BY <2>1 DEF MeshesFollowFile
    <3>2. QED
      BY <3>1 DEF HasMeshOf
  <2>3. \A id \in Ids :
          /\ Node(id).parent \in {None} \cup 0 .. id - 1
          /\ \A i \in DOMAIN Node(id).children :
                Node(Node(id).children[i]).parent = id
    BY <2>1 DEF NodesFollowFile, ChildrenAgree
  <2>4. \A i \in DOMAIN meshes :
            meshes[i].material \in 0 .. Len(materials) - 1
    BY <2>1 DEF MeshesFollowFile
  <2>5. QED
    BY <2>1, <2>2, <2>3, <2>4 DEF InputTypes, TypeOK
<1>2. QED
  BY <1>1, Inductive, PTL

(* A vertex of the frame is moved by the transforms of the nodes on the    *)
(* path from its root to its node, in that order (traverseAndFlatten).     *)
THEOREM VerticesFollowTheTree == Spec => []WorldTransformsFollowTheTree
<1>1. SceneInv => WorldTransformsFollowTheTree
  BY DEF SceneInv, OutputInv
<1>2. QED
  BY <1>1, Inductive, PTL

(* The corners of a triangle belong to one node, and its material is that  *)
(* of the node's primitive (traverseAndFlatten).                           *)
THEOREM TrianglesAreKept == Spec => []TrianglesStayTogether
<1>1. SceneInv => TrianglesStayTogether
  BY DEF SceneInv, OutputInv, TrianglesAreTogether, IsTriangleOf, Corner,
         TrianglesStayTogether
<1>2. QED
  BY <1>1, Inductive, PTL

-----------------------------------------------------------------------------
(* The channels applied so far have set the parts they move; a node that   *)
(* none of them moves has the transform of the file.                       *)

Moves(k, id) ==
    file.channels[k].node = id /\ file.channels[k].path \in Paths

NodeIsAnimated(id, node, done) ==
    /\ (\A k \in 1 .. done : ~ Moves(k, id)) =>
            node.local = GltfTransform(GltfNode(node.name))
    /\ \A k \in 1 .. done : Moves(k, id) =>
            /\ node.local = node.parts
            /\ node.parts[file.channels[k].path] = Sample(file.channels[k])

ChannelsAreApplied == \A id \in Ids : NodeIsAnimated(id, Node(id), channel)

LEMMA LoadKeepsChannels ==
    ASSUME SceneInv, ChannelsAreApplied, LoadGltfNode
    PROVE  ChannelsAreApplied'
<1>1. InputTypes /\ BuilderTypes /\ CallsFollowFile
  BY DEF SceneInv, Types, BuilderInv
<1>2. /\ channel = 0 /\ UNCHANGED <<file, time, channel>>
  BY DEF SceneInv, PhaseInv, LoadGltfNode
<1>3. 1 .. 0 = {}
  OBVIOUS
<1>4. ASSUME NEW id \in Ids'
      PROVE  nodes'[id + 1].local = GltfTransform(GltfNode(nodes'[id + 1].name))
  <2> DEFINE n == Len(nodes)
  <2>1. CASE id \in Ids
    <3>1. Node(id).local = GltfTransform(GltfNode(Node(id).name))
      BY <1>2, <1>3, <2>1 DEF ChannelsAreApplied, NodeIsAnimated
    <3>2. nodes'[id + 1].local = Node(id).local
          /\ nodes'[id + 1].name = Node(id).name
      BY <1>1, <2>1, LoadedNodeByNode
    <3>3. QED
      BY <3>1, <3>2
  <2>2. CASE id = n
    <3>1. /\ nodes'[n + 1].local = GltfTransform(GltfNode(Head(calls).node))
          /\ nodes'[n + 1].name = Head(calls).node
      BY <1>1, LoadedNodeByNode
    <3>2. QED
      BY <2>2, <3>1
  <2>3. QED
    BY <1>1, <2>1, <2>2, LoadedNodeByNode
<1>5. \A m : GltfTransform(GltfNode(m))' = GltfTransform(GltfNode(m))
  BY <1>2 DEF GltfTransform, GltfNode
<1>6. \A id \in Ids' : nodes'[id + 1].local =
         GltfTransform(file'.nodes[nodes'[id + 1].name + 1])
  BY <1>2, <1>4 DEF GltfNode
<1>7. QED
  BY <1>2, <1>3, <1>6 DEF ChannelsAreApplied, NodeIsAnimated, Node, GltfNode,
     GltfTransform

(* What a channel leaves of the channels before it.                        *)
LEMMA ChannelIsApplied ==
    ASSUME SceneInv, ChannelsAreApplied, UpdateAnimation, NEW id \in Ids
    PROVE  NodeIsAnimated(id, nodes'[id + 1], channel + 1)
<1> DEFINE c == file.channels[channel + 1]
           node == nodes'[id + 1]
           applies == c.path \in Paths /\ c.node \in Ids
<1>1. InputTypes /\ BuilderTypes
  BY DEF SceneInv, Types
<1>2. /\ channel \in Nat /\ channel + 1 \in DOMAIN file.channels
      /\ node.name = Node(id).name
      /\ ~ (applies /\ id = c.node) =>
            node.local = Node(id).local /\ node.parts = Node(id).parts
      /\ applies /\ id = c.node =>
            /\ node.parts = [Node(id).parts EXCEPT ![c.path] = Sample(c)]
            /\ node.local = node.parts
  BY <1>1, AnimatedNodes
<1>3. Moves(channel + 1, id) <=> applies /\ id = c.node
  BY DEF Moves
<1>4. NodeIsAnimated(id, Node(id), channel)
  BY DEF ChannelsAreApplied
<1>5. \A k \in 1 .. channel + 1 : k \in 1 .. channel \/ k = channel + 1
  BY <1>2
<1>6. \A k \in 1 .. channel : k \in 1 .. channel + 1 /\ k # channel + 1
                              /\ k \in DOMAIN file.channels
  <2>1. file.channels \in Seq(Channel)
    BY <1>1, FileFacts DEF InputTypes
  <2>2. QED
    BY <1>2, <2>1
<1>7. channel + 1 \in 1 .. channel + 1
  BY <1>2
<1> HIDE DEF node, applies, c
<1>8. CASE ~ Moves(channel + 1, id)
  <2>1. node.local = Node(id).local /\ node.parts = Node(id).parts
        /\ node.name = Node(id).name
    BY <1>2, <1>3, <1>8
  <2>2. \A k \in 1 .. channel + 1 : Moves(k, id) => k \in 1 .. channel
    BY <1>5, <1>8
  <2>3. QED
    BY <1>4, <1>6, <2>1, <2>2 DEF NodeIsAnimated, node
<1>9. CASE Moves(channel + 1, id)
  <2>1. /\ node.parts = [Node(id).parts EXCEPT ![c.path] = Sample(c)]
        /\ node.local = node.parts /\ c.path \in Paths /\ c.node = id
    BY <1>2, <1>3, <1>9 DEF applies
  <2>2. Node(id).parts \in Transform
    BY <1>1, NodeFacts
  <2>3. node.parts[c.path] = Sample(c)
        /\ \A p \in Paths \ {c.path} : node.parts[p] = Node(id).parts[p]
    BY <2>1, <2>2 DEF Transform
  <2>4. ASSUME NEW k \in 1 .. channel, Moves(k, id)
        PROVE  node.parts[file.channels[k].path] = Sample(file.channels[k])
    <3>1. file.channels[k].path # c.path
      BY <1>1, <1>2, <1>6, <2>1, <2>4, ChannelFacts DEF Moves, c
    <3>2. file.channels[k].path \in Paths \ {c.path}
      BY <2>4, <3>1 DEF Moves
    <3>3. Node(id).parts[file.channels[k].path] = Sample(file.channels[k])
      BY <1>4, <2>4 DEF NodeIsAnimated
    <3>4. QED
      BY <2>3, <3>2, <3>3
  <2>5. \A k \in 1 .. channel + 1 : Moves(k, id) =>
            /\ node.local = node.parts
            /\ node.parts[file.channels[k].path] = Sample(file.channels[k])
    BY <1>5, <2>1, <2>3, <2>4 DEF c
  <2>6. QED
    BY <1>7, <1>9, <2>5 DEF NodeIsAnimated, node
<1>10. QED
  BY <1>8, <1>9

LEMMA StepKeepsChannels ==
    ASSUME SceneInv, ChannelsAreApplied, [Next]_vars
    PROVE  ChannelsAreApplied'
<1>1. CASE LoadGltfNode
  BY <1>1, LoadKeepsChannels
<1>2. UNCHANGED <<file, time>>
  BY DEF Next, vars, LoadGltfFile, LoadGltfNode, LoadEnds, UpdateAnimation,
         AnimationEnds, FlattenToScene, TraverseAndFlatten, Build
<1>3. ASSUME NEW id, NEW node, NEW done, NodeIsAnimated(id, node, done)
      PROVE  NodeIsAnimated(id, node, done)'
  BY <1>2, <1>3 DEF NodeIsAnimated, Moves, GltfTransform, GltfNode, Sample
<1>4. CASE UpdateAnimation
  <2>1. InputTypes /\ BuilderTypes
    BY DEF SceneInv, Types
  <2>2. Ids' = Ids /\ channel' = channel + 1
    BY <1>4, <2>1, AnimatedNodes DEF UpdateAnimation
  <2>3. ASSUME NEW id \in Ids'
        PROVE  \E node, done : /\ node = nodes'[id + 1] /\ done = channel'
                               /\ NodeIsAnimated(id, node, done)'
    <3>1. PICK node, done : /\ node = nodes'[id + 1] /\ done = channel'
                            /\ NodeIsAnimated(id, node, done)
      BY <1>4, <2>2, ChannelIsApplied
    <3>2. NodeIsAnimated(id, node, done)'
      BY <1>3, <3>1
    <3>3. QED
      BY <3>1, <3>2
  <2>4. QED
    BY <2>3 DEF ChannelsAreApplied, Node, NodeIsAnimated
<1>5. CASE UNCHANGED <<nodes, channel>>
  <2>1. Ids' = Ids
    BY <1>5 DEF Ids
  <2>2. ASSUME NEW id \in Ids'
        PROVE  \E node, done : /\ node = nodes'[id + 1] /\ done = channel'
                               /\ NodeIsAnimated(id, node, done)'
    <3>1. PICK node, done : /\ node = nodes'[id + 1] /\ done = channel'
                            /\ NodeIsAnimated(id, node, done)
      BY <1>5, <2>1 DEF ChannelsAreApplied, Node
    <3>2. NodeIsAnimated(id, node, done)'
      BY <1>3, <3>1
    <3>3. QED
      BY <3>1, <3>2
  <2>3. QED
    BY <2>2 DEF ChannelsAreApplied, Node, NodeIsAnimated
<1>6. UNCHANGED <<nodes, channel>> \/ LoadGltfNode \/ UpdateAnimation
  BY DEF Next, vars, builder, LoadGltfFile, LoadEnds, AnimationEnds,
         FlattenToScene, TraverseAndFlatten, Build
<1>7. QED
  BY <1>1, <1>4, <1>5, <1>6

(* Every part a channel moves is sampled at the frame's time, and a node   *)
(* no channel moves keeps the transform of the file (updateAnimation).     *)
THEOREM AnimationIsFaithful == Spec => []AnimationFollowsTheFile
<1>1. Init => ChannelsAreApplied
  <2>1. Init => Ids = {}
    BY DEF Init, Ids
  <2>2. QED
    BY <2>1 DEF ChannelsAreApplied
<1>2. SceneInv /\ ChannelsAreApplied /\ [Next]_vars => ChannelsAreApplied'
  BY StepKeepsChannels
<1>3. SceneInv /\ ChannelsAreApplied => AnimationFollowsTheFile
  <2> SUFFICES ASSUME SceneInv, ChannelsAreApplied, pc = "built",
                      \A id \in Ids : Node(id).name = id,
                      NEW id \in Ids
               PROVE  LET Moving == {k \in DOMAIN file.channels :
                                        file.channels[k].node = id
                                        /\ file.channels[k].path \in Paths}
                      IN /\ Moving = {} =>
                               Node(id).local = GltfTransform(GltfNode(id))
                         /\ \A k \in Moving :
                               StandsFor(Node(id).local[file.channels[k].path],
                                         file.channels[k])
    BY DEF AnimationFollowsTheFile
  <2>1. InputTypes /\ file.channels \in Seq(Channel)
    BY FileFacts DEF SceneInv, Types, InputTypes
  <2>2. channel = Len(file.channels)
    BY DEF SceneInv, PhaseInv
  <2>3. DOMAIN file.channels = 1 .. channel
    BY <2>1, <2>2
  <2>4. NodeIsAnimated(id, Node(id), channel)
    BY DEF ChannelsAreApplied
  <2>5. (\A k \in DOMAIN file.channels : ~ Moves(k, id)) =>
            Node(id).local = GltfTransform(GltfNode(id))
    BY <2>3, <2>4 DEF NodeIsAnimated
  <2>6. ASSUME NEW k \in DOMAIN file.channels, Moves(k, id)
        PROVE  StandsFor(Node(id).local[file.channels[k].path], file.channels[k])
    <3>1. Node(id).local[file.channels[k].path] = Sample(file.channels[k])
      BY <2>3, <2>4, <2>6 DEF NodeIsAnimated
    <3>2. StandsFor(Sample(file.channels[k]), file.channels[k])
      BY <2>1, SampleStandsFor
    <3>3. QED
      BY <3>1, <3>2
  <2>7. QED
    BY <2>5, <2>6 DEF Moves
<1>4. QED
  BY <1>1, <1>2, <1>3, Inductive, PTL DEF Spec

-----------------------------------------------------------------------------
(* Below n: n, and what is reached from it by going to children.           *)

LEMMA BelowFacts ==
    ASSUME file \in Files, NEW n \in GltfNodes
    PROVE  /\ Below(n) \subseteq GltfNodes /\ n \in Below(n)
           /\ \A p \in Below(n) : Children(p) \subseteq Below(n)
           /\ \A S \in SUBSET GltfNodes :
                n \in S /\ (\A p \in S : Children(p) \subseteq S)
                => Below(n) \subseteq S
<1>1. /\ Below(n) \subseteq GltfNodes /\ n \in Below(n)
      /\ \A S \in SUBSET GltfNodes :
            n \in S /\ (\A p \in S : Children(p) \subseteq S)
            => Below(n) \subseteq S
  BY DEF Below, BelowIn, GltfNodes, Children
<1>2. ASSUME NEW p \in Below(n), NEW c \in Children(p)
      PROVE  c \in Below(n)
  <2>1. c \in GltfNodes
    BY <1>1, GltfNodeFacts
  <2>2. ASSUME NEW S \in SUBSET GltfNodes,
               n \in S, \A q \in S : Children(q) \subseteq S
        PROVE  c \in S
    BY <1>1, <2>2
  <2>3. QED
    BY <2>1, <2>2 DEF Below, BelowIn, GltfNodes, Children
<1>3. QED
  BY <1>1, <1>2

(* What is below n but n itself has a parent there.                        *)
LEMMA BelowHasParent ==
    ASSUME file \in Files, NEW n \in GltfNodes, NEW m \in Below(n), m # n
    PROVE  \E p \in Below(n) : m \in Children(p)
<1> SUFFICES ASSUME \A p \in Below(n) : m \notin Children(p)
             PROVE  FALSE
  OBVIOUS
<1> DEFINE S == Below(n) \ {m}
<1>1. /\ S \in SUBSET GltfNodes /\ n \in S
      /\ \A p \in S : Children(p) \subseteq S
  BY BelowFacts
<1> HIDE DEF S
<1>2. Below(n) \subseteq S
  BY <1>1, BelowFacts
<1>3. QED
  BY <1>2 DEF S

(* A node has one parent, is not below its children, and a root has none.  *)
LEMMA TreeFacts ==
    ASSUME file \in Files, NEW n \in GltfNodes, NEW c \in Children(n)
    PROVE  /\ c \in GltfNodes /\ n \notin Below(c) /\ c \notin RootNames
           /\ \A m \in GltfNodes : c \in Children(m) => m = n
           /\ \A i, j \in DOMAIN GltfNode(n).children :
                GltfNode(n).children[i] = GltfNode(n).children[j] => i = j
<1>1. NodesFormTrees(file)
  BY FileFacts
<1>2. c \in GltfNodes
  BY GltfNodeFacts
<1>3. QED
  BY <1>1, <1>2
     DEF NodesFormTrees, GltfNodes, Children, Below, RootNames, GltfNode

LEMMA RootFacts ==
    ASSUME file \in Files
    PROVE  /\ RootNames \subseteq GltfNodes /\ RootNames \subseteq Reachable
           /\ Reachable \subseteq GltfNodes
           /\ \A i, j \in DOMAIN file.roots : file.roots[i] = file.roots[j] => i = j
           /\ \A p \in Reachable : Children(p) \subseteq Reachable
<1>1. RootNames \subseteq GltfNodes
      /\ \A i, j \in DOMAIN file.roots : file.roots[i] = file.roots[j] => i = j
  BY FileFacts DEF IndicesInRange, NodesFormTrees, RootNames, GltfNodes
<1>2. Reachable = UNION {Below(r) : r \in RootNames}
  BY DEF Reachable, RootNames
<1>3. QED
  BY <1>1, <1>2, BelowFacts

(* What the builder does not enter, it does not enter from above.          *)
LEMMA NotEnteredFacts ==
    ASSUME file \in Files
    PROVE  /\ \A r \in RootNames : r \notin NotEntered
           /\ \A n \in GltfNodes : \A c \in Children(n) :
                c \in NotEntered <=> n \in NotEntered \/ Skipped(GltfNode(n))
<1>1. \A c : c \in NotEntered <=>
        \E s \in SkippedNodes : c \in Below(s) /\ c # s
  BY DEF NotEntered
<1>2. \A s \in SkippedNodes : s \in GltfNodes /\ Skipped(GltfNode(s))
  BY DEF SkippedNodes
<1>3. ASSUME NEW r \in RootNames, r \in NotEntered
      PROVE  FALSE
  <2>1. PICK s \in SkippedNodes : r \in Below(s) /\ r # s
    BY <1>1, <1>3
  <2>2. PICK p \in Below(s) : r \in Children(p)
    BY <1>2, <2>1, BelowHasParent
  <2>3. p \in GltfNodes
    BY <1>2, BelowFacts
  <2>4. QED
    BY <2>2, <2>3, TreeFacts
<1>4. ASSUME NEW n \in GltfNodes, NEW c \in Children(n), c \in NotEntered,
             ~ Skipped(GltfNode(n))
      PROVE  n \in NotEntered
  <2>1. PICK s \in SkippedNodes : c \in Below(s) /\ c # s
    BY <1>1, <1>4
  <2>2. PICK p \in Below(s) : c \in Children(p)
    BY <1>2, <2>1, BelowHasParent
  <2>3. p \in GltfNodes
    BY <1>2, BelowFacts
  <2>4. p = n
    BY <2>2, <2>3, TreeFacts
  <2>5. n # s
    BY <1>2, <1>4
  <2>6. QED
    BY <1>1, <2>2, <2>4, <2>5
<1>5. ASSUME NEW n \in GltfNodes, NEW c \in Children(n), n \in NotEntered
      PROVE  c \in NotEntered
  <2>1. PICK s \in SkippedNodes : n \in Below(s) /\ n # s
    BY <1>1, <1>5
  <2>2. c \in Below(s)
    BY <1>2, <2>1, BelowFacts
  <2>3. c # s
    BY <2>1, TreeFacts
  <2>4. QED
    BY <1>1, <2>1, <2>2, <2>3
<1>6. ASSUME NEW n \in GltfNodes, NEW c \in Children(n), Skipped(GltfNode(n))
      PROVE  c \in NotEntered
  <2>1. n \in SkippedNodes
    BY <1>6 DEF SkippedNodes
  <2>2. c \in Below(n)
    BY BelowFacts
  <2>3. c # n
    BY BelowFacts, TreeFacts
  <2>4. QED
    BY <1>1, <2>1, <2>2, <2>3
<1>7. QED
  BY <1>3, <1>4, <1>5, <1>6

-----------------------------------------------------------------------------
(* Every file node the builder is to enter is entered once: it has a node, *)
(* or a call is pending for it.                                            *)

Loaded  == {Node(id).name : id \in Ids}
Pending == {calls[i].node : i \in DOMAIN calls}

LoadIsComplete ==
    /\ pc # "load" => RootNames \subseteq Loaded \cup Pending
    /\ \A n \in Loaded : ~ Skipped(GltfNode(n)) =>
            Children(n) \subseteq Loaded \cup Pending

LoadIsConfined == Loaded \cup Pending \subseteq Reachable \ NotEntered

LoadIsOnce ==
    /\ \A i, j \in Ids : Node(i).name = Node(j).name => i = j
    /\ \A i, j \in DOMAIN calls : calls[i].node = calls[j].node => i = j
    /\ Loaded \cap Pending = {}

LoadInv == LoadIsComplete /\ LoadIsConfined /\ LoadIsOnce

(* The children of a node the builder has not entered are not there yet.   *)
LEMMA NotYetThere ==
    ASSUME file \in Files, NodesFollowFile, CallsFollowFile,
           NEW n \in GltfNodes, n \notin Loaded, NEW c \in Children(n)
    PROVE  c \notin Loaded /\ c \notin Pending
<1>1. ASSUME NEW parent, StandsBelow(c, parent)
      PROVE  FALSE
  <2>1. parent # None
    BY <1>1, TreeFacts DEF StandsBelow
  <2>2. parent \in Ids /\ c \in Children(Node(parent).name)
    BY <1>1, <2>1 DEF StandsBelow
  <2>3. Node(parent).name \in GltfNodes /\ Node(parent).name \in Loaded
    BY <2>2 DEF NodesFollowFile, Loaded
  <2>4. Node(parent).name = n
    BY <2>2, <2>3, TreeFacts
  <2>5. QED
    BY <2>3, <2>4
<1>2. c \notin Loaded
  BY <1>1 DEF Loaded, NodesFollowFile
<1>3. c \notin Pending
  BY <1>1 DEF Pending, CallsFollowFile
<1>4. QED
  BY <1>2, <1>3

LEMMA LoadedSets ==
    ASSUME InputTypes, BuilderTypes, CallsFollowFile, LoadIsOnce, LoadGltfNode
    PROVE  LET n == Head(calls).node
           IN  /\ n \in GltfNodes /\ n \in Pending /\ n \notin Loaded
               /\ Loaded' = Loaded \cup {n}
               /\ Pending' = (IF Skipped(GltfNode(n)) THEN {} ELSE Children(n))
                             \cup (Pending \ {n})
<1> DEFINE call == Head(calls)
           n == call.node
           g == GltfNode(n)
           kids == IF Skipped(g) THEN 0 ELSE Len(g.children)
<1>1. calls # << >> /\ calls \in Seq(LoadCall)
  BY DEF LoadGltfNode, BuilderTypes
<1>2. 1 \in DOMAIN calls /\ call = calls[1] /\ n \in GltfNodes
  BY <1>1, FirstCall, LoadedNodes
<1>3. n \in Pending /\ n \notin Loaded
  BY <1>2 DEF Pending, LoadIsOnce
<1>4. Loaded' = Loaded \cup {n}
  <2> DEFINE new == Len(nodes)
  <2>1. /\ Ids' = Ids \cup {new} /\ nodes'[new + 1].name = n
        /\ \A id \in Ids : nodes'[id + 1].name = Node(id).name
    BY LoadedNodeByNode
  <2> HIDE DEF new, n
  <2>2. Loaded' = {nodes'[id + 1].name : id \in Ids'}
    BY DEF Loaded, Node
  <2>3. {nodes'[id + 1].name : id \in Ids'} = Loaded \cup {n}
    BY <2>1 DEF Loaded
  <2>4. QED
    BY <2>2, <2>3
<1>5. /\ kids \in Nat /\ Len(calls) \in Nat \ {0}
      /\ calls' \in Seq(LoadCall)
      /\ Len(calls') = kids + Len(calls) - 1
      /\ \A i \in 1 .. kids : /\ i \in DOMAIN g.children
                              /\ calls'[i].node = g.children[i]
      /\ \A i \in 1 .. Len(calls) - 1 : calls'[kids + i] = calls[i + 1]
  BY LoadedCalls
<1>6. g.children \in Seq(Nat) /\ DOMAIN g.children = 1 .. Len(g.children)
      /\ Len(g.children) \in Nat
  BY <1>2, GltfNodeFacts DEF InputTypes
<1>7. {g.children[i] : i \in 1 .. kids} =
        IF Skipped(g) THEN {} ELSE Children(n)
  <2>1. Children(n) = {g.children[i] : i \in DOMAIN g.children}
    BY DEF Children, ChildrenIn, GltfNode
  <2>2. CASE Skipped(g)
    <3>1. 1 .. kids = {}
      BY <2>2
    <3>2. QED
      BY <2>2, <3>1
  <2>3. CASE ~ Skipped(g)
    BY <1>6, <2>1, <2>3
  <2>4. QED
    BY <2>2, <2>3
<1> HIDE DEF kids, g, call
<1>8. {calls[i + 1].node : i \in 1 .. Len(calls) - 1} = Pending \ {n}
  <2>1. \A i \in 1 .. Len(calls) - 1 : i + 1 \in DOMAIN calls /\ i + 1 # 1
    BY <1>1
  <2>2. \A j \in DOMAIN calls : j # 1 =>
            j - 1 \in 1 .. Len(calls) - 1 /\ (j - 1) + 1 = j
    BY <1>1
  <2>3. \A j \in DOMAIN calls : calls[j].node = n => j = 1
    BY <1>2 DEF LoadIsOnce
  <2>4. {calls[i + 1].node : i \in 1 .. Len(calls) - 1} \subseteq Pending \ {n}
    BY <2>1, <2>3 DEF Pending
  <2>5. ASSUME NEW m \in Pending \ {n}
        PROVE  m \in {calls[i + 1].node : i \in 1 .. Len(calls) - 1}
    <3>1. PICK j \in DOMAIN calls : m = calls[j].node
      BY DEF Pending
    <3>2. j # 1
      BY <1>2, <2>5, <3>1
    <3>3. PICK i \in 1 .. Len(calls) - 1 : i + 1 = j
      BY <2>2, <3>2
    <3>4. QED
      BY <3>1, <3>3
  <2>6. QED
    BY <2>4, <2>5
<1>9. Pending' = {calls'[i].node : i \in 1 .. kids}
                 \cup {calls'[kids + i].node : i \in 1 .. Len(calls) - 1}
  <2>1. DOMAIN calls' = 1 .. kids + Len(calls) - 1
    BY <1>5
  <2>2. \A i \in 1 .. kids : i \in DOMAIN calls'
    BY <1>5, <2>1
  <2>3. \A i \in 1 .. Len(calls) - 1 : kids + i \in DOMAIN calls'
    BY <1>5, <2>1
  <2>4. \A j \in DOMAIN calls' : j \notin 1 .. kids =>
            j - kids \in 1 .. Len(calls) - 1 /\ kids + (j - kids) = j
    BY <1>5, <2>1
  <2>5. ASSUME NEW j \in DOMAIN calls'
        PROVE  calls'[j].node \in {calls'[i].node : i \in 1 .. kids}
                 \cup {calls'[kids + i].node : i \in 1 .. Len(calls) - 1}
    <3>1. CASE j \in 1 .. kids
      BY <3>1
    <3>2. CASE j \notin 1 .. kids
      <4>1. PICK i \in 1 .. Len(calls) - 1 : kids + i = j
        BY <2>4, <3>2
      <4>2. QED
        BY <4>1
    <3>3. QED
      BY <3>1, <3>2
  <2>6. Pending' = {calls'[i].node : i \in DOMAIN calls'}
    BY DEF Pending
  <2>7. QED
    BY <2>2, <2>3, <2>5, <2>6
<1>10. {calls'[i].node : i \in 1 .. kids} = {g.children[i] : i \in 1 .. kids}
  BY <1>5
<1>11. {calls'[kids + i].node : i \in 1 .. Len(calls) - 1} =
         {calls[i + 1].node : i \in 1 .. Len(calls) - 1}
  BY <1>5
<1>12. Pending' = (IF Skipped(g) THEN {} ELSE Children(n)) \cup (Pending \ {n})
  BY <1>7, <1>8, <1>9, <1>10, <1>11
<1>13. QED
  BY <1>2, <1>3, <1>4, <1>12 DEF g, call

LEMMA LoadKeepsCallsDistinct ==
    ASSUME InputTypes, BuilderTypes, NodesFollowFile, CallsFollowFile,
           LoadIsOnce, LoadGltfNode
    PROVE  \A i, j \in DOMAIN calls' : calls'[i].node = calls'[j].node => i = j
<1> DEFINE n == Head(calls).node
           g == GltfNode(n)
           kids == IF Skipped(g) THEN 0 ELSE Len(g.children)
<1>1. /\ kids \in Nat /\ Len(calls) \in Nat \ {0}
      /\ calls' \in Seq(LoadCall)
      /\ Len(calls') = kids + Len(calls) - 1
      /\ \A i \in 1 .. kids : /\ i \in DOMAIN g.children
                              /\ calls'[i].node = g.children[i]
      /\ \A i \in 1 .. Len(calls) - 1 : calls'[kids + i] = calls[i + 1]
  BY LoadedCalls
<1>2. n \in GltfNodes /\ n \notin Loaded
  BY LoadedSets
<1>3. \A i \in DOMAIN g.children : g.children[i] \in Children(n)
  BY DEF Children, ChildrenIn, GltfNode
<1>4. \A c \in Children(n) : c \notin Pending
  BY <1>2, NotYetThere DEF InputTypes
<1>5. calls \in Seq(LoadCall)
  BY DEF BuilderTypes
<1>6. \A i, j \in DOMAIN g.children : g.children[i] = g.children[j] => i = j
  BY <1>2, <1>3, TreeFacts DEF InputTypes
<1> HIDE DEF n, g, kids
<1>7. ASSUME NEW i \in DOMAIN calls', i \notin 1 .. kids
      PROVE  \E k \in DOMAIN calls : /\ k = i - kids + 1 /\ i \in Int
                                     /\ calls'[i] = calls[k]
                                     /\ calls'[i].node \in Pending
  <2>1. /\ i - kids \in 1 .. Len(calls) - 1 /\ kids + (i - kids) = i
        /\ i - kids + 1 \in DOMAIN calls /\ i \in Int
    BY <1>1, <1>5, <1>7
  <2>2. calls'[kids + (i - kids)] = calls[i - kids + 1]
    BY <1>1, <2>1
  <2>3. calls[i - kids + 1].node \in Pending
    BY <2>1 DEF Pending
  <2>4. QED
    BY <2>1, <2>2, <2>3
<1>8. ASSUME NEW i \in DOMAIN calls', NEW j \in DOMAIN calls',
             calls'[i].node = calls'[j].node
      PROVE  i = j
  <2>1. CASE i \in 1 .. kids /\ j \in 1 .. kids
    BY <1>1, <1>6, <1>8, <2>1
  <2>2. CASE i \in 1 .. kids /\ j \notin 1 .. kids
    BY <1>1, <1>3, <1>4, <1>7, <1>8, <2>2
  <2>3. CASE i \notin 1 .. kids /\ j \in 1 .. kids
    BY <1>1, <1>3, <1>4, <1>7, <1>8, <2>3
  <2>4. CASE i \notin 1 .. kids /\ j \notin 1 .. kids
    <3>1. PICK k \in DOMAIN calls :
                k = i - kids + 1 /\ i \in Int /\ calls'[i] = calls[k]
      BY <1>7, <2>4
    <3>2. PICK l \in DOMAIN calls :
                l = j - kids + 1 /\ j \in Int /\ calls'[j] = calls[l]
      BY <1>7, <2>4
    <3>3. k = l
      BY <1>8, <3>1, <3>2 DEF LoadIsOnce
    <3>4. QED
      BY <1>1, <3>1, <3>2, <3>3
  <2>5. QED
    BY <2>1, <2>2, <2>3, <2>4
<1>9. QED
  BY <1>8

LEMMA LoadKeepsLoad ==
    ASSUME InputTypes, BuilderTypes, NodesFollowFile, CallsFollowFile,
           LoadInv, LoadGltfNode
    PROVE  LoadInv'
<1> DEFINE n == Head(calls).node
           new == IF Skipped(GltfNode(n)) THEN {} ELSE Children(n)
<1>1. /\ n \in GltfNodes /\ n \in Pending /\ n \notin Loaded
      /\ Loaded' = Loaded \cup {n}
      /\ Pending' = new \cup (Pending \ {n})
  BY LoadedSets DEF LoadInv
<1>2. file' = file /\ pc = "nodes" /\ pc' = pc /\ file \in Files
  BY DEF LoadGltfNode, InputTypes
<1> HIDE DEF n
<1>3. LoadIsComplete'
  <2>1. Loaded \cup Pending \subseteq Loaded' \cup Pending'
    BY <1>1
  <2>2. RootNames \subseteq Loaded' \cup Pending'
    BY <1>2, <2>1 DEF LoadInv, LoadIsComplete
  <2>3. ASSUME NEW m \in Loaded', ~ Skipped(GltfNode(m))
        PROVE  Children(m) \subseteq Loaded' \cup Pending'
    <3>1. CASE m \in Loaded
      BY <2>1, <2>3, <3>1 DEF LoadInv, LoadIsComplete
    <3>2. CASE m = n
      BY <1>1, <2>3, <3>2
    <3>3. QED
      BY <1>1, <3>1, <3>2
  <2>4. RootNames' = RootNames
    BY <1>2 DEF RootNames
  <2>5. QED
    BY <1>2, <2>2, <2>3, <2>4
       DEF LoadIsComplete, Children, GltfNode, Skipped, HasPrimitive, Primitives
<1>4. LoadIsConfined'
  <2>1. n \in Reachable \ NotEntered
    BY <1>1 DEF LoadInv, LoadIsConfined
  <2>2. new \subseteq Reachable \ NotEntered
    BY <1>1, <1>2, <2>1, RootFacts, NotEnteredFacts
  <2>3. Loaded' \cup Pending' \subseteq Reachable \ NotEntered
    BY <1>1, <2>1, <2>2 DEF LoadInv, LoadIsConfined
  <2>4. Reachable' = Reachable /\ NotEntered' = NotEntered
    BY <1>2 DEF Reachable, NotEntered, SkippedNodes, Below, GltfNodes,
       Skipped, HasPrimitive, Primitives, GltfNode
  <2>5. QED
    BY <2>3, <2>4 DEF LoadIsConfined
<1>5. LoadIsOnce'
  <2>1. \A i, j \in DOMAIN calls' : calls'[i].node = calls'[j].node => i = j
    BY LoadKeepsCallsDistinct DEF LoadInv
  <2>2. Loaded' \cap Pending' = {}
    <3>1. new \cap Loaded = {} /\ n \notin new
      <4>1. \A c \in Children(n) : c \notin Loaded
        BY <1>1, <1>2, NotYetThere
      <4>2. n \notin Children(n)
        BY <1>1, <1>2, BelowFacts, TreeFacts
      <4>3. QED
        BY <4>1, <4>2
    <3> HIDE DEF new
    <3>2. QED
      BY <1>1, <3>1 DEF LoadInv, LoadIsOnce
  <2>3. ASSUME NEW i \in Ids', NEW j \in Ids',
               nodes'[i + 1].name = nodes'[j + 1].name
        PROVE  i = j
    <3> DEFINE k == Len(nodes)
    <3>1. /\ Ids' = Ids \cup {k} /\ nodes'[k + 1].name = n
          /\ \A id \in Ids : nodes'[id + 1].name = Node(id).name
      BY LoadedNodeByNode DEF n
    <3>2. \A id \in Ids : Node(id).name # n
      BY <1>1 DEF Loaded
    <3> HIDE DEF k
    <3>3. CASE i \in Ids /\ j \in Ids
      BY <2>3, <3>1, <3>3 DEF LoadInv, LoadIsOnce
    <3>4. QED
      BY <2>3, <3>1, <3>2, <3>3
  <2>4. QED
    BY <2>1, <2>2, <2>3 DEF LoadIsOnce, Node
<1>6. QED
  BY <1>3, <1>4, <1>5 DEF LoadInv

LEMMA LoadStays ==
    ASSUME LoadInv, file' = file, Ids' = Ids, calls' = calls,
           pc # "load" \/ pc' = "load",
           \A id \in Ids : nodes'[id + 1].name = Node(id).name
    PROVE  LoadInv'
<1>1. Loaded' = Loaded /\ Pending' = Pending
  BY DEF Loaded, Pending, Node
<1>2. LoadIsOnce'
  BY <1>1 DEF LoadInv, LoadIsOnce, Node
<1>3. LoadIsConfined'
  BY <1>1 DEF LoadInv, LoadIsConfined, Reachable, NotEntered, SkippedNodes,
     Below, GltfNodes, Skipped, HasPrimitive, Primitives, GltfNode
<1>4. LoadIsComplete'
  BY <1>1 DEF LoadInv, LoadIsComplete, RootNames, Skipped, HasPrimitive,
     Primitives, GltfNode, Children
<1>5. QED
  BY <1>2, <1>3, <1>4 DEF LoadInv

LEMMA OpeningStartsLoad ==
    ASSUME InputTypes, PhaseInv, LoadGltfFile
    PROVE  LoadInv'
<1>1. nodes' = << >> /\ file' = file /\ file \in Files
  BY DEF LoadGltfFile, PhaseInv, builder, InputTypes
<1>2. Ids' = {}
  BY <1>1 DEF Ids
<1>3. /\ DOMAIN calls' = DOMAIN file.roots
      /\ \A i \in DOMAIN file.roots : calls'[i].node = file.roots[i]
  BY FirstCalls
<1>4. Loaded' = {} /\ Pending' = RootNames
  BY <1>2, <1>3 DEF Loaded, Pending, RootNames
<1>5. LoadIsComplete'
  <2>1. RootNames' = RootNames
    BY <1>1 DEF RootNames
  <2>2. QED
    BY <1>4, <2>1 DEF LoadIsComplete
<1>6. LoadIsConfined'
  <2>1. RootNames \subseteq Reachable \ NotEntered
    BY <1>1, RootFacts, NotEnteredFacts
  <2>2. Reachable' = Reachable /\ NotEntered' = NotEntered
    BY <1>1 DEF Reachable, NotEntered, SkippedNodes, Below, GltfNodes,
       Skipped, HasPrimitive, Primitives, GltfNode
  <2>3. QED
    BY <1>4, <2>1, <2>2 DEF LoadIsConfined
<1>7. LoadIsOnce'
  <2>1. \A i, j \in DOMAIN calls' : calls'[i].node = calls'[j].node => i = j
    BY <1>1, <1>3, RootFacts
  <2>2. QED
    BY <1>2, <1>4, <2>1 DEF LoadIsOnce
<1>8. QED
  BY <1>5, <1>6, <1>7 DEF LoadInv

LEMMA StepKeepsLoad ==
    ASSUME SceneInv, LoadInv, [Next]_vars
    PROVE  LoadInv'
<1>1. /\ InputTypes /\ BuilderTypes /\ NodesFollowFile /\ CallsFollowFile
      /\ PhaseInv
  BY DEF SceneInv, Types, BuilderInv
<1>2. CASE LoadGltfFile
  BY <1>1, <1>2, OpeningStartsLoad
<1>3. CASE LoadGltfNode
  BY <1>1, <1>3, LoadKeepsLoad
<1>4. CASE UpdateAnimation
  BY <1>1, <1>4, AnimatedNodes, LoadStays DEF UpdateAnimation
<1>5. CASE LoadEnds \/ AnimationEnds \/ FlattenToScene \/ TraverseAndFlatten
           \/ Build \/ UNCHANGED vars
  <2>1. UNCHANGED <<file, nodes, calls>>
        /\ (pc # "load" \/ pc' = "load")
    BY <1>5 DEF LoadEnds, AnimationEnds, FlattenToScene, TraverseAndFlatten,
       Build, vars, builder
  <2>2. Ids' = Ids /\ \A id \in Ids : nodes'[id + 1].name = Node(id).name
    BY <2>1 DEF Ids, Node
  <2>3. QED
    BY <2>1, <2>2, LoadStays
<1>6. QED
  BY <1>2, <1>3, <1>4, <1>5 DEF Next

(* When no call is pending, the builder has the nodes of the scene.        *)
LEMMA LoadedIsAll ==
    ASSUME SceneInv, LoadInv, calls = << >>, pc # "load"
    PROVE  Loaded = Reachable \ NotEntered
<1>1. file \in Files /\ NodesFollowFile
  BY DEF SceneInv, Types, InputTypes, BuilderInv
<1>2. Pending = {}
  <2>1. DOMAIN calls = {}
    OBVIOUS
  <2>2. QED
    BY <2>1 DEF Pending
<1>3. Loaded \subseteq GltfNodes
  BY <1>1 DEF Loaded, NodesFollowFile
<1>4. NotEntered \subseteq GltfNodes
  <2>1. \A s \in SkippedNodes : s \in GltfNodes
    BY DEF SkippedNodes
  <2>2. QED
    BY <1>1, <2>1, BelowFacts DEF NotEntered
<1> DEFINE S == Loaded \cup NotEntered
<1>5. S \in SUBSET GltfNodes /\ RootNames \subseteq S
  BY <1>2, <1>3, <1>4 DEF LoadInv, LoadIsComplete
<1>6. ASSUME NEW p \in S
      PROVE  Children(p) \subseteq S
  <2>1. CASE p \in NotEntered \/ Skipped(GltfNode(p))
    BY <1>1, <1>5, <2>1, NotEnteredFacts
  <2>2. CASE p \in Loaded /\ ~ Skipped(GltfNode(p))
    BY <1>2, <2>2 DEF LoadInv, LoadIsComplete
  <2>3. QED
    BY <2>1, <2>2
<1> HIDE DEF S
<1>7. \A r \in RootNames : Below(r) \subseteq S
  BY <1>1, <1>5, <1>6, BelowFacts
<1>8. Reachable \subseteq S
  BY <1>7 DEF Reachable, RootNames
<1>9. Loaded \subseteq Reachable \ NotEntered
  BY DEF LoadInv, LoadIsConfined
<1>10. QED
  BY <1>8, <1>9 DEF S

LEMMA LoadedCount ==
    ASSUME SceneInv, LoadInv
    PROVE  /\ IsFiniteSet(Loaded) /\ Cardinality(Loaded) = Len(nodes)
           /\ Ids = 0 .. Cardinality(Loaded) - 1
<1>1. Len(nodes) \in Nat
  BY DEF SceneInv, Types, BuilderTypes
<1>2. IsFiniteSet(Ids) /\ Cardinality(Ids) = Len(nodes)
  <2>1. Len(nodes) - 1 \in Int /\ 0 \in Int
    BY <1>1
  <2>2. IsFiniteSet(0 .. Len(nodes) - 1)
        /\ Cardinality(0 .. Len(nodes) - 1) =
              IF 0 > Len(nodes) - 1 THEN 0 ELSE (Len(nodes) - 1) - 0 + 1
    BY <2>1, FS_Interval
  <2>3. QED
    BY <1>1, <2>2 DEF Ids
<1> DEFINE named == [id \in Ids |-> Node(id).name]
<1>3. named \in [Ids -> Loaded]
  BY DEF Loaded
<1>4. \A i, j \in Ids : named[i] = named[j] => i = j
  BY DEF LoadInv, LoadIsOnce
<1>5. \A n \in Loaded : \E id \in Ids : named[id] = n
  BY DEF Loaded
<1> HIDE DEF named
<1>6. named \in Bijection(Ids, Loaded)
  BY <1>3, <1>4, <1>5, Fun_IsBij
<1>7. IsFiniteSet(Loaded) /\ Cardinality(Loaded) = Cardinality(Ids)
  BY <1>2, <1>6, FS_Bijection DEF ExistsBijection
<1>8. QED
  BY <1>2, <1>7 DEF Ids

(* A node that is not lost is drawn if it has a primitive.                 *)
LEMMA LostFacts ==
    ASSUME file \in Files, NEW n \in GltfNodes
    PROVE  n \in Lost <=> n \in NotEntered \/ Skipped(GltfNode(n))
<1>1. /\ n \in NotEntered <=> \E s \in SkippedNodes : n \in Below(s) /\ n # s
      /\ n \in Lost <=> \E s \in SkippedNodes : n \in Below(s)
  BY DEF NotEntered, Lost
<1>2. Skipped(GltfNode(n)) <=> n \in SkippedNodes
  BY DEF SkippedNodes
<1>3. n \in Below(n)
  BY BelowFacts
<1>4. QED
  BY <1>1, <1>2, <1>3
-----------------------------------------------------------------------------
(* The walk comes to every node of the builder once.                       *)

Waiting == {walk[i].node : i \in DOMAIN walk}

IsDrawn(id)     == Drawn(GltfNode(Node(id).name))
PrimitiveOf(id) == Primitives(GltfNode(Node(id).name))[1]

(* V are the nodes it has been to.                                         *)
VisitedAre(V) ==
    /\ V \subseteq Ids
    /\ \A i, j \in DOMAIN walk : walk[i].node = walk[j].node => i = j
    /\ Waiting \subseteq Ids \ V
    /\ \A id \in Ids :
        /\ Node(id).parent \in {None} \cup V => id \in V \cup Waiting
        /\ id \in V \cup Waiting => Node(id).parent \in {None} \cup V

(* Their meshes are in the output, each vertex once.                       *)
OutputIsOf(V) ==
    /\ \A i \in DOMAIN vertices : \E id \in V :
        /\ IsDrawn(id) /\ vertices[i].node = Node(id).name
        /\ vertices[i].vertex \in 0 .. PrimitiveOf(id).vertices - 1
    /\ \A id \in V : IsDrawn(id) =>
        \A x \in 0 .. PrimitiveOf(id).vertices - 1 : \E i \in DOMAIN vertices :
            vertices[i].node = Node(id).name /\ vertices[i].vertex = x
    /\ \A i, j \in DOMAIN vertices :
        vertices[i].node = vertices[j].node
        /\ vertices[i].vertex = vertices[j].vertex => i = j
    /\ indices = << >> =>
        \A id \in V : IsDrawn(id) => PrimitiveOf(id).indices = << >>

WalkIsComplete ==
    pc \in {"walk", "built"} => \E V : VisitedAre(V) /\ OutputIsOf(V)

LEMMA FlattenVisits ==
    ASSUME SceneInv, FlattenToScene
    PROVE  WalkIsComplete'
<1>1. InputTypes /\ BuilderTypes /\ PhaseInv /\ NodesFollowFile
  BY DEF SceneInv, Types, BuilderInv
<1>2. /\ UNCHANGED nodes /\ vertices' = << >>
  BY <1>1 DEF FlattenToScene, PhaseInv, builder, output
<1> DEFINE c == Cardinality(Roots)
<1>3. /\ walk' \in Seq(WalkCall) /\ Len(walk') = c /\ c \in Nat
      /\ \A i \in 1 .. c :
            /\ RootNodes[i] \in Roots
            /\ walk'[i] = [node |-> RootNodes[i], above |-> << >>]
  BY <1>1, FlattenStartsAtRoots
<1>4. /\ RootNodes \in [1 .. c -> Roots] /\ Ascending(RootNodes)
      /\ \A id \in Roots : \E i \in 1 .. c : RootNodes[i] = id
  BY <1>1, RootsInOrder
<1>5. Roots \subseteq Ids /\ \A id \in Roots : id \in Nat
  BY <1>1, NodeFacts DEF Roots
<1> HIDE DEF c
<1>6. DOMAIN walk' = 1 .. c /\ \A i \in 1 .. c : walk'[i].node = RootNodes[i]
  BY <1>3
<1>7. \A i, j \in 1 .. c : RootNodes[i] = RootNodes[j] => i = j
  <2>1. TAKE i, j \in 1 .. c
  <2>2. HAVE RootNodes[i] = RootNodes[j]
  <2>3. RootNodes[i] \in Nat /\ DOMAIN RootNodes = 1 .. c
    BY <1>4, <1>5
  <2>4. ~ (RootNodes[i] < RootNodes[j]) /\ ~ (RootNodes[j] < RootNodes[i])
    BY <2>2, <2>3
  <2>5. ~ (i < j) /\ ~ (j < i)
    BY <1>4, <2>3, <2>4 DEF Ascending
  <2>6. QED
    BY <1>3, <2>5
<1>8. Waiting' = Roots
  BY <1>4, <1>6 DEF Waiting
<1>9. VisitedAre({})'
  <2>1. Ids' = Ids /\ \A id \in Ids : nodes'[id + 1] = Node(id)
    BY <1>2 DEF Ids, Node
  <2>2. \A i, j \in DOMAIN walk' : walk'[i].node = walk'[j].node => i = j
    BY <1>6, <1>7
  <2>3. \A id \in Ids : Node(id).parent = None <=> id \in Roots
    BY DEF Roots
  <2>4. QED
    BY <1>5, <1>8, <2>1, <2>2, <2>3 DEF VisitedAre, Node
<1>10. OutputIsOf({})'
  <2>1. DOMAIN vertices' = {}
    BY <1>2
  <2>2. QED
    BY <2>1 DEF OutputIsOf
<1>11. QED
  BY <1>9, <1>10 DEF WalkIsComplete

LEMMA WalkVisits ==
    ASSUME SceneInv, TraverseAndFlatten, NEW V, VisitedAre(V),
           NEW W, W = V \cup {Head(walk).node}
    PROVE  Head(walk).node \in Ids \ V /\ VisitedAre(W)'
<1> DEFINE id == Head(walk).node
           children == Node(id).children
           n == Len(children)
<1>1. /\ InputTypes /\ BuilderTypes /\ OutputTypes /\ BuilderInv /\ ChildrenAgree
      /\ WalkFollowsTree
  BY DEF SceneInv, Types, BuilderInv, OutputInv
<1>2. walk # << >> /\ UNCHANGED nodes /\ walk \in Seq(WalkCall)
  BY <1>1 DEF TraverseAndFlatten, builder, OutputTypes
<1>3. 1 \in DOMAIN walk /\ id = walk[1].node /\ id \in Ids
  BY <1>1, <1>2, FirstWalk, WalkKeepsTree
<1>4. id \in Waiting /\ id \notin V /\ id \in Nat
  BY <1>1, <1>3, NodeFacts DEF Waiting, VisitedAre
<1>5. /\ n \in Nat /\ Len(walk) \in Nat \ {0} /\ DOMAIN children = 1 .. n
      /\ walk' \in Seq(WalkCall) /\ Len(walk') = n + (Len(walk) - 1)
      /\ \A i \in 1 .. n : walk'[i] =
            [node |-> children[i], above |-> World(Head(walk))]
      /\ \A i \in 1 .. Len(walk) - 1 : walk'[n + i] = walk[i + 1]
  <2>1. children \in Seq(Nat) /\ n \in Nat
    BY <1>1, <1>3, NodeFacts
  <2>2. DOMAIN children = 1 .. n
    BY <2>1
  <2>3. QED
    BY <1>1, <1>3, <2>1, <2>2, WalkedCalls
<1>6. \A i \in 1 .. n : walk'[i].node = children[i]
  <2> HIDE DEF n, children, id
  <2>1. TAKE i \in 1 .. n
  <2>2. walk'[i] = [node |-> children[i], above |-> World(Head(walk))]
    BY <1>5
  <2>3. QED
    BY <2>2
<1>7. /\ \A i \in 1 .. n : children[i] \in Ids /\ Node(children[i]).parent = id
      /\ \A i, j \in 1 .. n : children[i] = children[j] => i = j
      /\ \A d \in Ids : Node(d).parent = id => \E i \in 1 .. n : children[i] = d
  <2>1. id # None
    BY <1>4 DEF None
  <2>2. QED
    BY <1>1, <1>3, <1>5, <2>1 DEF ChildrenAgree
<1> HIDE DEF id, children, n
<1> DEFINE Kids == {children[i] : i \in 1 .. n}
<1>8. /\ Kids \subseteq Ids
      /\ \A d \in Ids : d \in Kids <=> Node(d).parent = id
  BY <1>7
<1>9. Kids \cap (V \cup Waiting) = {}
  <2>1. id \notin {None} \cup V
    BY <1>4 DEF None
  <2>2. \A d \in V \cup Waiting : d \in Ids
    BY DEF VisitedAre
  <2> HIDE DEF Kids
  <2>3. QED
    BY <1>8, <2>1, <2>2 DEF VisitedAre
<1>10. ASSUME NEW i \in DOMAIN walk', i \notin 1 .. n
       PROVE  \E k \in DOMAIN walk : /\ k = i - n + 1 /\ i \in Int /\ k # 1
                                     /\ walk'[i] = walk[k]
                                     /\ walk'[i].node \in Waiting
  <2>1. /\ i - n \in 1 .. Len(walk) - 1 /\ n + (i - n) = i
        /\ i - n + 1 \in DOMAIN walk /\ i \in Int /\ i - n + 1 # 1
    BY <1>2, <1>5, <1>10
  <2>2. walk'[n + (i - n)] = walk[i - n + 1]
    BY <1>5, <2>1
  <2>3. walk[i - n + 1].node \in Waiting
    BY <2>1 DEF Waiting
  <2>4. QED
    BY <2>1, <2>2, <2>3
<1>11. ASSUME NEW i \in DOMAIN walk', NEW j \in DOMAIN walk',
              walk'[i].node = walk'[j].node
       PROVE  i = j
  <2>0. \A k \in 1 .. n : walk'[k].node \in Kids
    BY <1>6
  <2> HIDE DEF Kids
  <2>1. CASE i \in 1 .. n /\ j \in 1 .. n
    BY <1>6, <1>7, <1>11, <2>1
  <2>2. CASE i \in 1 .. n /\ j \notin 1 .. n
    BY <1>9, <1>10, <1>11, <2>0, <2>2
  <2>3. CASE i \notin 1 .. n /\ j \in 1 .. n
    BY <1>9, <1>10, <1>11, <2>0, <2>3
  <2>4. CASE i \notin 1 .. n /\ j \notin 1 .. n
    <3>1. PICK k \in DOMAIN walk :
                k = i - n + 1 /\ i \in Int /\ walk'[i] = walk[k]
      BY <1>10, <2>4
    <3>2. PICK l \in DOMAIN walk :
                l = j - n + 1 /\ j \in Int /\ walk'[j] = walk[l]
      BY <1>10, <2>4
    <3>3. k = l
      BY <1>11, <3>1, <3>2 DEF VisitedAre
    <3>4. QED
      BY <1>5, <3>1, <3>2, <3>3
  <2>5. QED
    BY <2>1, <2>2, <2>3, <2>4
<1>12. Waiting' = Kids \cup (Waiting \ {id})
  <2>1. Waiting' = {walk'[i].node : i \in DOMAIN walk'}
    BY DEF Waiting
  <2>2. ASSUME NEW i \in DOMAIN walk'
        PROVE  walk'[i].node \in Kids \cup (Waiting \ {id})
    <3>1. CASE i \in 1 .. n
      BY <1>6, <3>1
    <3>2. CASE i \notin 1 .. n
      <4>1. PICK k \in DOMAIN walk :
                k # 1 /\ walk'[i] = walk[k] /\ walk'[i].node \in Waiting
        BY <1>10, <3>2
      <4>2. walk[k].node # id
        BY <1>3, <4>1 DEF VisitedAre
      <4>3. QED
        BY <4>1, <4>2
    <3>3. QED
      BY <3>1, <3>2
  <2>3. ASSUME NEW i \in 1 .. n
        PROVE  children[i] \in {walk'[k].node : k \in DOMAIN walk'}
    <3>1. i \in DOMAIN walk'
      BY <1>5
    <3>2. QED
      BY <1>6, <3>1
  <2>4. ASSUME NEW d \in Waiting \ {id}
        PROVE  d \in {walk'[k].node : k \in DOMAIN walk'}
    <3>1. PICK k \in DOMAIN walk : walk[k].node = d
      BY DEF Waiting
    <3>2. k # 1
      BY <1>3, <3>1
    <3>3. /\ k - 1 \in 1 .. Len(walk) - 1 /\ (k - 1) + 1 = k
          /\ n + (k - 1) \in DOMAIN walk'
      BY <1>2, <1>5, <3>2
    <3>4. walk'[n + (k - 1)] = walk[k]
      BY <1>5, <3>3
    <3>5. QED
      BY <3>1, <3>3, <3>4
  <2>5. QED
    BY <2>1, <2>2, <2>3, <2>4
<1> HIDE DEF Kids
<1>13. VisitedAre(W)'
  <2>1. Ids' = Ids /\ \A d \in Ids : nodes'[d + 1] = Node(d)
    BY <1>2 DEF Ids, Node
  <2>2. ASSUME NEW d \in Ids
        PROVE  /\ Node(d).parent \in {None} \cup V \cup {id} =>
                    d \in V \cup {id} \cup Waiting'
               /\ d \in V \cup {id} \cup Waiting' =>
                    Node(d).parent \in {None} \cup V \cup {id}
    <3>1. /\ Node(d).parent \in {None} \cup V => d \in V \cup Waiting
          /\ d \in V \cup Waiting => Node(d).parent \in {None} \cup V
      BY DEF VisitedAre
    <3>2. QED
      BY <1>4, <1>8, <1>12, <3>1
  <2>3. V \cup {id} \subseteq Ids /\ Waiting' \subseteq Ids \ (V \cup {id})
    <3>1. V \subseteq Ids /\ Waiting \subseteq Ids \ V
      BY DEF VisitedAre
    <3>2. QED
      BY <1>3, <1>4, <1>8, <1>9, <1>12, <3>1
  <2>4. \A d \in Ids :
          /\ nodes'[d + 1].parent \in {None} \cup V \cup {id} =>
                d \in V \cup {id} \cup Waiting'
          /\ d \in V \cup {id} \cup Waiting' =>
                nodes'[d + 1].parent \in {None} \cup V \cup {id}
    BY <2>1, <2>2
  <2>5. W = V \cup {id}
    BY DEF id
  <2>6. QED
    BY <1>11, <2>1, <2>3, <2>4, <2>5 DEF VisitedAre, Node
<1>14. QED
  BY <1>3, <1>4, <1>13 DEF id

LEMMA WalkOutputs ==
    ASSUME SceneInv, LoadInv, TraverseAndFlatten, NEW V \in SUBSET Ids,
           Head(walk).node \in Ids \ V, OutputIsOf(V),
           NEW W, W = V \cup {Head(walk).node}
    PROVE  OutputIsOf(W)'
<1> DEFINE id == Head(walk).node
           n == Node(id).name
           primitive == Primitives(GltfNode(n))[1]
           v == IF Drawn(GltfNode(n)) THEN primitive.vertices ELSE 0
           old == Len(vertices)
           IsNew(i) == i - old \in 1 .. v /\ i = old + (i - old)
<1>1. InputTypes /\ BuilderTypes /\ OutputTypes /\ BuilderInv /\ id \in Ids
  BY DEF SceneInv, Types
<1>2. UNCHANGED <<file, nodes>>
  BY DEF TraverseAndFlatten, builder
<1>3. /\ v \in Nat /\ old \in Nat
      /\ vertices' \in Seq(Vertex) /\ Len(vertices') = old + v
      /\ \A i \in 1 .. old : vertices'[i] = vertices[i]
      /\ \A i \in 1 .. v : vertices'[old + i] =
            [node |-> n, vertex |-> i - 1, world |-> World(Head(walk))]
  BY <1>1, WalkedVertices
<1>4. DOMAIN vertices = 1 .. old
  BY <1>1 DEF OutputTypes
<1>5. \A d \in V : d \in Ids /\ Node(d).name # n
  BY <1>1 DEF LoadInv, LoadIsOnce
<1>6. W = V \cup {id} /\ (IsDrawn(id) <=> Drawn(GltfNode(n)))
      /\ PrimitiveOf(id) = primitive
  BY DEF IsDrawn, PrimitiveOf
<1> HIDE DEF id, n, primitive, v, old
<1>7. ASSUME NEW i \in DOMAIN vertices'
      PROVE  \/ i \in DOMAIN vertices /\ vertices'[i] = vertices[i]
             \/ /\ i \notin DOMAIN vertices /\ IsNew(i)
                /\ vertices'[i].node = n /\ vertices'[i].vertex = i - old - 1
  <2>1. i \in 1 .. old + v
    BY <1>3
  <2>2. CASE i \in 1 .. old
    BY <1>3, <1>4, <2>2
  <2>3. CASE i \notin 1 .. old
    <3>1. IsNew(i)
      BY <1>3, <2>1, <2>3
    <3>2. vertices'[i] = [node |-> n, vertex |-> (i - old) - 1,
                          world |-> World(Head(walk))]
      BY <1>3, <3>1
    <3>3. vertices'[i].node = n /\ vertices'[i].vertex = i - old - 1
      BY <3>2
    <3>4. QED
      BY <1>4, <2>3, <3>1, <3>3
  <2>4. QED
    BY <2>2, <2>3
<1>8. \A d : d \in Ids => /\ nodes'[d + 1] = Node(d)
                          /\ (IsDrawn(d)' <=> IsDrawn(d))
                          /\ PrimitiveOf(d)' = PrimitiveOf(d)
  BY <1>2 DEF Node, IsDrawn, PrimitiveOf, GltfNode, Drawn, HasPrimitive,
     Primitives
<1>9. ASSUME NEW i \in DOMAIN vertices'
      PROVE  \E d \in W :
                /\ IsDrawn(d) /\ vertices'[i].node = Node(d).name
                /\ vertices'[i].vertex \in 0 .. PrimitiveOf(d).vertices - 1
  <2>1. CASE i \in DOMAIN vertices /\ vertices'[i] = vertices[i]
    BY <1>6, <2>1 DEF OutputIsOf
  <2>2. CASE /\ IsNew(i)
             /\ vertices'[i].node = n /\ vertices'[i].vertex = i - old - 1
    <3>1. v # 0
      BY <1>3, <2>2
    <3>2. Drawn(GltfNode(n)) /\ v = primitive.vertices
      BY <3>1 DEF v
    <3>3. vertices'[i].vertex \in 0 .. v - 1
      BY <1>3, <2>2
    <3>4. QED
      BY <1>6, <2>2, <3>2, <3>3 DEF n
  <2>3. QED
    BY <1>7, <2>1, <2>2
<1>10. ASSUME NEW d \in W, IsDrawn(d),
              NEW x \in 0 .. PrimitiveOf(d).vertices - 1
       PROVE  \E i \in DOMAIN vertices' :
                 vertices'[i].node = Node(d).name /\ vertices'[i].vertex = x
  <2>1. CASE d \in V
    <3>1. PICK i \in DOMAIN vertices :
                vertices[i].node = Node(d).name /\ vertices[i].vertex = x
      BY <1>10, <2>1 DEF OutputIsOf
    <3>2. i \in DOMAIN vertices' /\ vertices'[i] = vertices[i]
      BY <1>3, <1>4
    <3>3. QED
      BY <3>1, <3>2
  <2>2. CASE d = id
    <3>1. v = primitive.vertices /\ PrimitiveOf(d) = primitive
      BY <1>6, <1>10, <2>2 DEF v
    <3>2. x + 1 \in 1 .. v /\ old + (x + 1) \in DOMAIN vertices'
          /\ (x + 1) - 1 = x
      BY <1>3, <3>1
    <3>3. vertices'[old + (x + 1)] =
            [node |-> n, vertex |-> (x + 1) - 1, world |-> World(Head(walk))]
      BY <1>3, <3>2
    <3>4. vertices'[old + (x + 1)].node = n /\ vertices'[old + (x + 1)].vertex = x
      BY <3>2, <3>3
    <3>5. QED
      BY <2>2, <3>2, <3>4 DEF n
  <2>3. QED
    BY <1>6, <2>1, <2>2
<1>11. ASSUME NEW i \in DOMAIN vertices', NEW j \in DOMAIN vertices',
              vertices'[i].node = vertices'[j].node,
              vertices'[i].vertex = vertices'[j].vertex
       PROVE  i = j
  <2> DEFINE IsOld(k) == k \in DOMAIN vertices /\ vertices'[k] = vertices[k]
             IsAdded(k) == /\ IsNew(k) /\ vertices'[k].node = n
                           /\ vertices'[k].vertex = k - old - 1
  <2>1. \A k \in DOMAIN vertices : vertices[k].node # n
    BY <1>5 DEF OutputIsOf
  <2>2. \A k \in DOMAIN vertices' : IsOld(k) \/ IsAdded(k)
    BY <1>7
  <2>3. ASSUME IsOld(i), IsOld(j)
        PROVE  i = j
    BY <1>11, <2>3 DEF OutputIsOf
  <2>4. ASSUME IsOld(i), IsAdded(j)
        PROVE  FALSE
    BY <1>11, <2>1, <2>4
  <2>5. ASSUME IsAdded(i), IsOld(j)
        PROVE  FALSE
    BY <1>11, <2>1, <2>5
  <2>6. ASSUME IsAdded(i), IsAdded(j)
        PROVE  i = j
    <3>1. i \in Int /\ j \in Int
      BY <1>3
    <3>2. i - old - 1 = j - old - 1
      BY <1>11, <2>6
    <3>3. QED
      BY <1>3, <3>1, <3>2
  <2>7. CASE IsOld(i)
    <3>1. CASE IsOld(j)
      BY <2>3, <2>7, <3>1
    <3>2. CASE IsAdded(j)
      BY <2>4, <2>7, <3>2
    <3>3. QED
      BY <2>2, <3>1, <3>2
  <2>8. CASE IsAdded(i)
    <3>1. CASE IsOld(j)
      BY <2>5, <2>8, <3>1
    <3>2. CASE IsAdded(j)
      BY <2>6, <2>8, <3>2
    <3>3. QED
      BY <2>2, <3>1, <3>2
  <2>9. QED
    BY <2>2, <2>7, <2>8
<1>12. ASSUME indices' = << >>, NEW d \in W, IsDrawn(d)
       PROVE  PrimitiveOf(d).indices = << >>
  <2> DEFINE t == IF Drawn(GltfNode(n)) THEN Len(primitive.indices) \div 3 ELSE 0
  <2>1. /\ t \in Nat /\ Len(indices) \in Nat
        /\ Drawn(GltfNode(n)) => Len(primitive.indices) = 3 * t
        /\ Len(indices') = Len(indices) + 3 * t
    BY <1>1, WalkedTriangles DEF n, id, primitive
  <2> HIDE DEF t
  <2>2. Len(indices') = 0
    BY <1>12
  <2>3. t = 0 /\ Len(indices) = 0
    <3> DEFINE l == Len(indices)
    <3>1. l \in Nat /\ t \in Nat /\ 0 = l + 3 * t
      BY <2>1, <2>2, Zenon
    <3> HIDE DEF l
    <3>2. t = 0 /\ l = 0
      BY <3>1
    <3>3. QED
      BY <3>2 DEF l
  <2>4. CASE d \in V
    <3>1. indices = << >>
      BY <1>1, <2>3 DEF OutputTypes
    <3>2. QED
      BY <1>12, <2>4, <3>1 DEF OutputIsOf
  <2>5. CASE d = id
    <3>1. Drawn(GltfNode(n)) /\ PrimitiveOf(d) = primitive
      BY <1>6, <1>12, <2>5
    <3>2. Len(primitive.indices) = 0
      BY <2>1, <2>3, <3>1
    <3>3. n \in GltfNodes
      BY <1>1 DEF n, BuilderInv, NodesFollowFile
    <3>4. primitive.indices \in Seq(Nat)
      BY <1>1, <3>1, <3>3, DrawnFacts DEF InputTypes, Drawn, primitive
    <3>5. QED
      BY <3>1, <3>2, <3>4
  <2>6. QED
    BY <1>6, <2>4, <2>5
<1>13. \A d \in W : d \in Ids
  BY <1>1, <1>6
<1>14. QED
  BY <1>8, <1>9, <1>10, <1>11, <1>12, <1>13 DEF OutputIsOf, Node

LEMMA StepKeepsWalk ==
    ASSUME SceneInv, LoadInv, WalkIsComplete, [Next]_vars
    PROVE  WalkIsComplete'
<1>1. CASE FlattenToScene
  BY <1>1, FlattenVisits
<1>2. CASE TraverseAndFlatten
  <2>1. pc = "walk" /\ pc' = "walk"
    BY <1>2 DEF TraverseAndFlatten
  <2>2. PICK V : VisitedAre(V) /\ OutputIsOf(V)
    BY <2>1 DEF WalkIsComplete
  <2>3. PICK W : W = V \cup {Head(walk).node}
    OBVIOUS
  <2>4. Head(walk).node \in Ids \ V /\ VisitedAre(W)'
    BY <1>2, <2>2, <2>3, WalkVisits
  <2>5. V \in SUBSET Ids
    BY <2>2 DEF VisitedAre
  <2>6. OutputIsOf(W)'
    BY <1>2, <2>2, <2>3, <2>4, <2>5, WalkOutputs
  <2>7. QED
    BY <2>4, <2>6 DEF WalkIsComplete
<1>3. CASE Build \/ UNCHANGED vars
  <2>1. UNCHANGED <<file, nodes, walk, vertices, indices>>
        /\ (pc' \in {"walk", "built"} => pc \in {"walk", "built"})
    BY <1>3 DEF Build, vars, builder, output
  <2>2. ASSUME NEW V, VisitedAre(V), OutputIsOf(V)
        PROVE  VisitedAre(V)' /\ OutputIsOf(V)'
    <3>1. VisitedAre(V)'
      BY <2>1, <2>2 DEF VisitedAre, Waiting, Ids, Node
    <3>2. \A d : /\ Node(d)' = Node(d) /\ (IsDrawn(d)' <=> IsDrawn(d))
                 /\ PrimitiveOf(d)' = PrimitiveOf(d)
      BY <2>1 DEF IsDrawn, PrimitiveOf, Node, GltfNode, Drawn, HasPrimitive,
         Primitives
    <3>4. OutputIsOf(V)'
      BY <2>1, <2>2, <3>2 DEF OutputIsOf
    <3>5. QED
      BY <3>1, <3>4
  <2>3. QED
    BY <2>1, <2>2 DEF WalkIsComplete
<1>4. CASE LoadGltfFile \/ LoadGltfNode \/ LoadEnds \/ UpdateAnimation
           \/ AnimationEnds
  <2>1. pc' \notin {"walk", "built"}
    BY <1>4 DEF LoadGltfFile, LoadGltfNode, LoadEnds, UpdateAnimation,
       AnimationEnds
  <2>2. QED
    BY <2>1 DEF WalkIsComplete
<1>5. QED
  BY <1>1, <1>2, <1>3, <1>4 DEF Next

(* When the walk is over it has been to every node.                        *)
LEMMA VisitedIsAll ==
    ASSUME SceneInv, walk = << >>, NEW V, VisitedAre(V)
    PROVE  V = Ids
<1>1. BuilderTypes /\ NodesFollowFile
  BY DEF SceneInv, Types, BuilderInv
<1>2. Waiting = {}
  <2>1. DOMAIN walk = {}
    OBVIOUS
  <2>2. QED
    BY <2>1 DEF Waiting
<1> DEFINE Missed == Ids \ V
<1>3. Missed = {}
  <2>1. SUFFICES ASSUME Missed # {} PROVE FALSE
    OBVIOUS
  <2>2. Missed \in SUBSET Nat
    BY <1>1, NodeFacts
  <2> HIDE DEF Missed
  <2>3. PICK m \in Missed : \A d \in Missed : m <= d
    BY <2>1, <2>2, LeastNatural
  <2>4. m \in Ids /\ m \notin V /\ m \in Nat
    BY <2>2, <2>3 DEF Missed
  <2>5. Node(m).parent \notin {None} \cup V
    BY <1>2, <2>4 DEF VisitedAre
  <2>6. /\ Node(m).parent \in 0 .. m - 1 /\ Node(m).parent \in Ids
        /\ Node(m).parent \notin V
    BY <1>1, <2>4, <2>5 DEF NodesFollowFile, StandsBelow
  <2>7. Node(m).parent \in Missed
    BY <2>6 DEF Missed
  <2>8. ~ (m <= Node(m).parent)
    BY <2>4, <2>6
  <2>9. QED
    BY <2>3, <2>7, <2>8
<1>4. QED
  BY <1>3 DEF VisitedAre

(* The nodes of the builder that are drawn are the file's that are to be   *)
(* shown.                                                                  *)
LEMMA DrawnAreShown ==
    ASSUME SceneInv, LoadInv, pc \in {"walk", "built"}
    PROVE  /\ \A id \in Ids : IsDrawn(id) =>
                Node(id).name \in Reachable \ Lost
                /\ HasPrimitive(GltfNode(Node(id).name))
           /\ \A n \in Reachable \ Lost : HasPrimitive(GltfNode(n)) =>
                \E id \in Ids : Node(id).name = n /\ IsDrawn(id)
<1>1. file \in Files /\ calls = << >>
  BY DEF SceneInv, Types, InputTypes, PhaseInv
<1>2. Loaded = Reachable \ NotEntered
  BY <1>1, LoadedIsAll
<1>3. Reachable \subseteq GltfNodes
  BY <1>1, RootFacts
<1>4. ASSUME NEW id \in Ids, IsDrawn(id)
      PROVE  Node(id).name \in Reachable \ Lost
             /\ HasPrimitive(GltfNode(Node(id).name))
  <2>1. Node(id).name \in Reachable \ NotEntered
    BY <1>2 DEF Loaded
  <2>2. ~ Skipped(GltfNode(Node(id).name))
        /\ HasPrimitive(GltfNode(Node(id).name))
    BY <1>4 DEF IsDrawn, Drawn, Skipped
  <2>3. QED
    BY <1>1, <1>3, <2>1, <2>2, LostFacts
<1>5. ASSUME NEW n \in Reachable \ Lost, HasPrimitive(GltfNode(n))
      PROVE  \E id \in Ids : Node(id).name = n /\ IsDrawn(id)
  <2>1. n \notin NotEntered /\ ~ Skipped(GltfNode(n))
    BY <1>1, <1>3, LostFacts
  <2>2. PICK id \in Ids : Node(id).name = n
    BY <1>2, <2>1 DEF Loaded
  <2>3. Drawn(GltfNode(n))
    BY <1>5, <2>1 DEF Skipped, Drawn
  <2>4. QED
    BY <2>2, <2>3 DEF IsDrawn
<1>6. QED
  BY <1>4, <1>5

FullInv == SceneInv /\ LoadInv /\ WalkIsComplete

LEMMA FullInductive == Spec => []FullInv
<1>1. Init => LoadInv /\ WalkIsComplete
  <2> SUFFICES ASSUME Init PROVE LoadInv /\ WalkIsComplete
    OBVIOUS
  <2>1. Ids = {} /\ DOMAIN calls = {} /\ pc = "load"
    BY DEF Init, Ids
  <2>2. Loaded = {} /\ Pending = {}
    BY <2>1 DEF Loaded, Pending
  <2>3. LoadInv
    BY <2>1, <2>2 DEF LoadInv, LoadIsComplete, LoadIsConfined, LoadIsOnce
  <2>4. WalkIsComplete
    BY <2>1 DEF WalkIsComplete
  <2>5. QED
    BY <2>3, <2>4
<1>2. SceneInv /\ LoadInv /\ [Next]_vars => LoadInv'
  BY StepKeepsLoad
<1>3. SceneInv /\ LoadInv /\ WalkIsComplete /\ [Next]_vars => WalkIsComplete'
  BY StepKeepsWalk
<1>4. QED
  BY <1>1, <1>2, <1>3, Inductive, PTL DEF Spec, FullInv

(* The frame shows the mesh of every node of the scene once, but for those *)
(* at and below a mesh that is not made of triangles (fromGltf and         *)
(* flattenToScene together).                                               *)
THEOREM MeshesAreShown == Spec => []GeometryIsKept
<1>1. FullInv => GeometryIsKept
  <2> SUFFICES ASSUME FullInv, pc = "built"
               PROVE  GeometryIsKept
    BY DEF GeometryIsKept
  <2>1. SceneInv /\ LoadInv /\ walk = << >>
    BY DEF FullInv, SceneInv, PhaseInv
  <2>2. PICK V : VisitedAre(V) /\ OutputIsOf(V)
    BY DEF FullInv, WalkIsComplete
  <2>3. OutputIsOf(Ids)
    BY <2>1, <2>2, VisitedIsAll
  <2> DEFINE shown == {<<vertices[i].node, vertices[i].vertex>> :
                          i \in DOMAIN vertices}
             wanted == {n \in Reachable \ Lost : HasPrimitive(GltfNode(n))}
             Points(n) == {n} \X (0 .. Primitives(GltfNode(n))[1].vertices - 1)
  <2>4. ASSUME NEW i \in DOMAIN vertices
        PROVE  \E n \in wanted :
                  <<vertices[i].node, vertices[i].vertex>> \in Points(n)
    <3>1. PICK id \in Ids :
                /\ IsDrawn(id) /\ vertices[i].node = Node(id).name
                /\ vertices[i].vertex \in 0 .. PrimitiveOf(id).vertices - 1
      BY <2>3 DEF OutputIsOf
    <3>2. Node(id).name \in wanted
      BY <2>1, <3>1, DrawnAreShown
    <3>3. QED
      BY <3>1, <3>2 DEF PrimitiveOf
  <2>5. ASSUME NEW n \in wanted,
               NEW x \in 0 .. Primitives(GltfNode(n))[1].vertices - 1
        PROVE  <<n, x>> \in shown
    <3>1. PICK id \in Ids : Node(id).name = n /\ IsDrawn(id)
      BY <2>1, DrawnAreShown
    <3>2. PICK i \in DOMAIN vertices :
                vertices[i].node = n /\ vertices[i].vertex = x
      BY <2>3, <3>1 DEF OutputIsOf, PrimitiveOf
    <3>3. QED
      BY <3>2
  <2>6. shown = UNION {Points(n) : n \in wanted}
    <3>1. shown \subseteq UNION {Points(n) : n \in wanted}
      BY <2>4
    <3>2. ASSUME NEW n \in wanted, NEW point \in Points(n)
          PROVE  point \in shown
      <4>1. PICK x \in 0 .. Primitives(GltfNode(n))[1].vertices - 1 :
                    point = <<n, x>>
        OBVIOUS
      <4>2. QED
        BY <2>5, <4>1
    <3>3. QED
      BY <3>1, <3>2
  <2>7. \A i, j \in DOMAIN vertices :
            vertices[i].node = vertices[j].node
            /\ vertices[i].vertex = vertices[j].vertex => i = j
    BY <2>3 DEF OutputIsOf
  <2>8. QED
    BY <2>6, <2>7 DEF GeometryIsKept
<1>2. QED
  BY <1>1, FullInductive, PTL

(* When flattening throws, nothing of the scene has a triangle.            *)
LEMMA BuildFails ==
    ASSUME FullInv, Build, pc' = "failed"
    PROVE  \A n \in Reachable \ Lost :
              HasPrimitive(GltfNode(n)) =>
                Primitives(GltfNode(n))[1].indices = << >>
<1>1. /\ SceneInv /\ LoadInv /\ pc = "walk" /\ walk = << >>
      /\ vertices = << >> \/ indices = << >> \/ materialIndices = << >>
  BY DEF FullInv, Build
<1>2. /\ InputTypes /\ indices \in Seq(Nat) /\ NodesFollowFile
      /\ Len(indices) = 3 * Len(materialIndices)
  BY <1>1 DEF SceneInv, Types, OutputTypes, BuilderInv, OutputInv,
              TrianglesAreTogether
<1>3. PICK V : VisitedAre(V) /\ OutputIsOf(V)
  BY <1>1 DEF FullInv, WalkIsComplete
<1>4. OutputIsOf(Ids)
  BY <1>1, <1>3, VisitedIsAll
<1>5. ASSUME NEW id \in Ids, IsDrawn(id)
      PROVE  PrimitiveOf(id).indices = << >>
  <2>1. CASE vertices = << >>
    <3>1. Node(id).name \in GltfNodes
      BY <1>2 DEF NodesFollowFile
    <3>2. /\ PrimitiveOf(id).vertices \in Nat
          /\ PrimitiveOf(id).indices \in Seq(Nat)
          /\ \A c \in DOMAIN PrimitiveOf(id).indices :
                PrimitiveOf(id).indices[c] < PrimitiveOf(id).vertices
      BY <1>2, <1>5, <3>1, DrawnFacts
         DEF InputTypes, IsDrawn, Drawn, PrimitiveOf
    <3>3. DOMAIN vertices = {}
      BY <2>1
    <3>4. 0 .. PrimitiveOf(id).vertices - 1 = {}
      BY <1>4, <1>5, <3>3 DEF OutputIsOf
    <3>5. PrimitiveOf(id).vertices = 0
      BY <3>2, <3>4
    <3>6. QED
      BY <3>2, <3>5
  <2>2. CASE indices = << >>
    BY <1>4, <1>5, <2>2 DEF OutputIsOf
  <2>3. CASE materialIndices = << >>
    <3>1. Len(indices) = 0
      BY <1>2, <2>3
    <3>2. indices = << >>
      BY <1>2, <3>1
    <3>3. QED
      BY <2>2, <3>2
  <2>4. QED
    BY <1>1, <2>1, <2>2, <2>3
<1>6. QED
  BY <1>1, <1>5, DrawnAreShown DEF PrimitiveOf

LEMMA StepHasCause ==
    ASSUME FullInv, FailuresHaveACause, [Next]_vars
    PROVE  FailuresHaveACause'
<1>1. SceneInv /\ LoadInv /\ InputTypes /\ BuilderTypes /\ PhaseInv
  BY DEF FullInv, SceneInv, Types
<1>2. file' = file
  BY DEF Next, vars, LoadGltfFile, LoadGltfNode, LoadEnds, UpdateAnimation,
         AnimationEnds, FlattenToScene, TraverseAndFlatten, Build
<1> DEFINE Count == Cardinality(Reachable \ NotEntered)
           Cause ==
             \/ ~ file.parses \/ file.scenes = 0
             \/ \E k \in DOMAIN file.channels :
                  /\ file.channels[k].path \in Paths
                  /\ file.channels[k].node \notin 0 .. Count - 1
             \/ \A n \in Reachable \ Lost :
                  HasPrimitive(GltfNode(n)) =>
                     Primitives(GltfNode(n))[1].indices = << >>
<1>3. ASSUME pc' = "failed", pc # "failed"
      PROVE  Cause
  <2>1. CASE LoadGltfFile
    BY <1>3, <2>1 DEF LoadGltfFile
  <2>2. CASE UpdateAnimation
    <3>1. /\ channel + 1 \in DOMAIN file.channels
          /\ file.channels[channel + 1].path \in Paths
          /\ file.channels[channel + 1].node \notin Ids
      BY <1>1, <1>3, <2>2, AnimatedNodes DEF UpdateAnimation, IsNodeId
    <3>2. pc = "animate" /\ calls = << >>
      BY <1>1, <2>2 DEF UpdateAnimation, PhaseInv
    <3>3. Ids = 0 .. Count - 1
      BY <1>1, <3>2, LoadedIsAll, LoadedCount
    <3>4. QED
      BY <3>1, <3>3
  <2>3. CASE Build
    BY <1>3, <2>3, BuildFails
  <2>4. QED
    BY <1>3, <2>1, <2>2, <2>3
       DEF Next, vars, LoadGltfNode, LoadEnds, AnimationEnds, FlattenToScene,
           TraverseAndFlatten
<1>4. ASSUME pc = "failed"
      PROVE  Cause
  BY <1>4 DEF FailuresHaveACause
<1>5. pc' = "failed" => Cause
  BY <1>3, <1>4
<1> HIDE DEF Cause
<1>6. Cause' <=> Cause
  BY <1>2 DEF Cause, Count, Reachable, Lost, NotEntered, SkippedNodes, Below,
     GltfNodes, Skipped, HasPrimitive, Primitives, GltfNode
<1>7. FailuresHaveACause <=> (pc = "failed" => Cause)
  BY DEF FailuresHaveACause, Cause, Count
<1>8. QED
  <2>1. FailuresHaveACause' <=> (pc' = "failed" => Cause')
    BY DEF FailuresHaveACause, Cause, Count
  <2>2. QED
    BY <1>5, <1>6, <2>1

(* A frame fails only for a file that does not load, an animation of a     *)
(* node the scene does not load, or a scene without triangles.             *)
THEOREM FailuresAreExplained == Spec => []FailuresHaveACause
<1>1. Init => FailuresHaveACause
  BY DEF Init, FailuresHaveACause
<1>2. FullInv /\ FailuresHaveACause /\ [Next]_vars => FailuresHaveACause'
  BY StepHasCause
<1>3. QED
  BY <1>1, <1>2, FullInductive, PTL DEF Spec
=============================================================================
