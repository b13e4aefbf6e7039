---------------------------- MODULE FrameLedger ----------------------------
(***************************************************************************)
(* What frame dispatch promises, without queue, workers or callbacks: a    *)
(* submitted render is a ledger that opens empty, takes each of its frames *)
(* exactly once, and closes with the last one, for good.  A render without *)
(* frames never opens.                                                     *)
(***************************************************************************)
EXTENDS Integers

CONSTANTS Renders, NumFrames

Frames(r) == 0 .. NumFrames[r] - 1

VARIABLES phase, delivered

vars == <<phase, delivered>>

Init ==
    /\ phase = [r \in Renders |-> "absent"]
    /\ delivered = [r \in Renders |-> {}]

Open(r) ==
    /\ phase[r] = "absent"
    /\ phase' = [phase EXCEPT ![r] = IF NumFrames[r] = 0 THEN "skipped" ELSE "open"]
    /\ UNCHANGED delivered

Deliver(r, i) ==
    /\ phase[r] = "open" /\ i \notin delivered[r]
    /\ delivered' = [delivered EXCEPT ![r] = @ \cup {i}]
    /\ phase' = [phase EXCEPT ![r] =
                    IF delivered'[r] = Frames(r) THEN "closed" ELSE "open"]

Next ==
    \/ \E r \in Renders : Open(r)
    \/ \E r \in Renders : \E i \in Frames(r) : Deliver(r, i)

Spec == Init /\ [][Next]_vars

=============================================================================
