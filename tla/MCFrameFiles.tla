---------------------------- MODULE MCFrameFiles ----------------------------
(* Two uploads under one name, one under another name, and one without a   *)
(* name whose file name is the other's key; two frames, which may share a  *)
(* directory.                                                              *)
EXTENDS FrameFiles, TLC

Names == << <<"a", "/", "b">>, <<"a", "/", "b">>, <<"a", " ", "b">>, << >> >>
FileNames == << << >>, << >>, << >>, <<"a", "_", "b", ".gltf">> >>

SmallUploads == {"u1", "u2", "u3", "u4"}
Index == [u \in SmallUploads |->
            CASE u = "u1" -> 1 [] u = "u2" -> 2 [] u = "u3" -> 3 [] OTHER -> 4]
SmallNameOf == [u \in SmallUploads |-> Names[Index[u]]]
SmallFileNameOf == [u \in SmallUploads |-> FileNames[Index[u]]]
=============================================================================
