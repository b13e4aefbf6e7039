---------------------------- MODULE MCSceneGraph ----------------------------
(* Every forest of three nodes, numbered in any way, with a triangle, a    *)
(* line, or a triangle without indices on its nodes, six animations, and   *)
(* frames before, on, between and after the keys; and the files that do    *)
(* not load.                                                               *)
EXTENDS SceneGraph, TLC, SequencesExt

Triangle  == [triangles |-> TRUE, vertices |-> 3, indices |-> <<0, 2, 1>>,
              material |-> 1]
Lines     == [triangles |-> FALSE, vertices |-> 2, indices |-> <<0, 1>>,
              material |-> 0]
Unindexed == [triangles |-> TRUE, vertices |-> 3, indices |-> << >>,
              material |-> None]

Meshes == << <<Triangle, Lines>>, <<Lines>>, <<Unindexed>>,
             <<[Triangle EXCEPT !.material = None]>> >>

(* Parents of the nodes 0, 1, 2 without a cycle.                           *)
Forests ==
    {p \in [0 .. 2 -> None .. 2] :
        \A n \in 0 .. 2 :
            p[n] = None
            \/ (p[n] # n /\ (p[p[n]] = None
                \/ (p[p[n]] # n /\ p[p[n]] # p[n] /\ p[p[p[n]]] = None)))}

Ascending(S) == SetToSortSeq(S, <)

Parts == <<{"scale"}, {"translation", "rotation"}, {}>>

ChannelOf(node, path, times) == [node |-> node, path |-> path, times |-> times]

Animations == {
    << >>,
    << ChannelOf(1, "translation", <<1, 3>>) >>,
    << ChannelOf(0, "scale", <<2>>), ChannelOf(2, "rotation", <<1, 2, 5>>) >>,
    << ChannelOf(1, "rotation", <<1, 3>>), ChannelOf(1, "translation", <<0, 4>>) >>,
    << ChannelOf(2, "weights", <<1, 3>>) >>,
    << ChannelOf(0, "rotation", <<1, 3>>), ChannelOf(None, "scale", <<1, 3>>) >> }

GltfFile(parents, mesh, channels) ==
    [parses |-> TRUE, scenes |-> 1, defaultScene |-> 0,
     roots |-> Ascending({n \in 0 .. 2 : parents[n] = None}),
     nodes |-> [i \in 1 .. 3 |->
                  [children |-> Ascending({n \in 0 .. 2 : parents[n] = i - 1}),
                   mesh |-> mesh[i], trs |-> Parts[i]]],
     meshes |-> Meshes, channels |-> channels]

AnyFile == GltfFile([n \in 0 .. 2 |-> None], <<0, 0, 0>>, << >>)

SmallFiles ==
    {GltfFile(parents, mesh, channels) :
        parents \in Forests, channels \in Animations,
        mesh \in {<<0, None, 3>>, <<0, 1, 3>>, <<1, 3, 0>>, <<3, 2, 1>>,
                  <<None, 2, 2>>, <<3, 0, None>>}}
    \cup {[AnyFile EXCEPT !.parses = FALSE], [AnyFile EXCEPT !.scenes = 0],
          [AnyFile EXCEPT !.defaultScene = None]}
=============================================================================
