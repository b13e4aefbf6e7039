---------------------------- MODULE MCPathTracer ----------------------------
(* The tile limits are the code's 64 and 512 divided by 32; the images are *)
(* 1920 x 1080 and others around the limits at the same scale.  The GPUs   *)
(* are a discrete one, one with smaller alignments, one without ray        *)
(* tracing and one without a compute queue.                                *)
EXTENDS PathTracer, TLC

SmallImages == {<<1, 1>>, <<16, 16>>, <<17, 3>>, <<17, 7>>, <<3, 40>>,
                <<33, 17>>, <<31, 35>>, <<4, 36>>, <<60, 34>>}

Device(ext, families, handle, base) ==
    [extensions |-> ext, families |-> families, handleSize |-> 32,
     handleAlignment |-> handle, baseAlignment |-> base]

Discrete == Device(TRUE, <<FALSE, TRUE>>, 32, 64)
Integrated == Device(TRUE, <<TRUE>>, 16, 16)
Old == Device(FALSE, <<TRUE>>, 32, 64)
CopyOnly == Device(TRUE, <<FALSE>>, 32, 64)

SmallGpuLists == {<<Discrete>>, <<Old, CopyOnly, Integrated>>, <<Old>>, << >>}
=============================================================================
