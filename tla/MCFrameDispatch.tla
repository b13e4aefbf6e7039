-------------------------- MODULE MCFrameDispatch --------------------------
(* Instances of FrameDispatch for TLC. *)
EXTENDS FrameDispatch, TLC

CONSTANTS r1, r2, w1, w2

OneRenderTwoFrames == r1 :> 2
TwoRenders == r1 :> 2 @@ r2 :> 1
OneFrameAndEmpty == r1 :> 1 @@ r2 :> 0
OneFrame == r1 :> 1
CalmFaults == {"render", "upload", "callback"}
RenderFault == {"render"}
CrashFault == {"crash"}
FairFaults == FaultKinds \ {"callback"}
AllFaults == FaultKinds
WorkerSymmetry == Permutations(Workers)
=============================================================================
