---------------------------- MODULE Registration ----------------------------
(***************************************************************************)
(* Scheduler::workers_ as worker processes come and go.  FrameDispatch     *)
(* takes one entry per worker name for granted; this module is about how   *)
(* the entries come to be.                                                 *)
(*                                                                         *)
(* A process calls EstablishConnection once, before it serves.  The        *)
(* handler looks its name up without workers_mutex_, and then, in a        *)
(* critical section of its own, appends an entry or resets the one that is *)
(* there.  A handler outlives the process that called it: a process that   *)
(* is killed and started again under its --name has two.  Processes that   *)
(* are started without a --name share the default one.                     *)
(*                                                                         *)
(* While registerWorker appends, the vector may move its entries: a lookup *)
(* that runs then reads what is being moved, and may find nothing.         *)
(***************************************************************************)
EXTENDS Integers, Sequences, FiniteSets

CONSTANTS
    Processes,  \* render_worker processes
    NameOf,     \* the --name each is started with
    Calls,      \* calls of EstablishConnection; bounds the starts
    NoProcess

VARIABLES
    workers,    \* workers_: id, process address and status of each entry
    stage,      \* how far the handler of each call is
    caller,     \* the process that made the call
    proc        \* the processes: "down", "serving", or the call one waits for

vars == <<workers, stage, caller, proc>>

WorkerStatus == {"IDLE", "OFFLINE"}

TypeOK ==
    /\ workers \in Seq([id : {NameOf[p] : p \in Processes}, address : Processes,
                        status : WorkerStatus])
    /\ stage \in [Calls -> {"none", "sent", "missed", "appending", "found",
                            "answered", "ended"}]
    /\ caller \in [Calls -> Processes \cup {NoProcess}]
    /\ proc \in [Processes -> {"down", "serving"} \cup Calls]

Init ==
    /\ workers = << >>
    /\ stage = [c \in Calls |-> "none"]
    /\ caller = [c \in Calls |-> NoProcess]
    /\ proc = [p \in Processes |-> "down"]

-----------------------------------------------------------------------------
IdOf(c) == NameOf[caller[c]]

(* findWorkerByID: the first entry of that name, 0 for a null pointer.     *)
FindWorkerByID(id) ==
    LET Same == {i \in DOMAIN workers : workers[i].id = id}
    IN  IF Same = {} THEN 0 ELSE CHOOSE i \in Same : \A k \in Same : i <= k

(* workers_mutex_ is held by a registerWorker in the middle of push_back;  *)
(* the other critical sections are one action each.                        *)
Locked == \E c \in Calls : stage[c] = "appending"

SetStatus(id, s) ==
    workers' = IF FindWorkerByID(id) = 0
               THEN workers
               ELSE [workers EXCEPT ![FindWorkerByID(id)].status = s]

(* A process starts and sends EstablishConnection.                         *)
Start(p) ==
    /\ proc[p] = "down"
    /\ \E c \in Calls :
        /\ stage[c] = "none"
        /\ stage' = [stage EXCEPT ![c] = "sent"]
        /\ caller' = [caller EXCEPT ![c] = p]
        /\ proc' = [proc EXCEPT ![p] = c]
    /\ UNCHANGED workers

(* The unlocked lookup of EstablishConnection.                             *)
LookUp(c) ==
    /\ stage[c] = "sent"
    /\ \/ /\ FindWorkerByID(IdOf(c)) # 0
          /\ stage' = [stage EXCEPT ![c] = "found"]
       \/ /\ FindWorkerByID(IdOf(c)) = 0 \/ Locked
          /\ stage' = [stage EXCEPT ![c] = "missed"]
    /\ UNCHANGED <<workers, caller, proc>>

(* registerWorker, which does not look again.                              *)
RegisterBegin(c) ==
    /\ stage[c] = "missed" /\ ~Locked
    /\ stage' = [stage EXCEPT ![c] = "appending"]
    /\ UNCHANGED <<workers, caller, proc>>

RegisterEnd(c) ==
    /\ stage[c] = "appending"
    /\ workers' = Append(workers, [id |-> IdOf(c), address |-> caller[c],
                                   status |-> "IDLE"])
    /\ stage' = [stage EXCEPT ![c] = "answered"]
    /\ UNCHANGED <<caller, proc>>

(* reconnectWorker: the status only, the address of the entry stays.       *)
Reconnect(c) ==
    /\ stage[c] = "found" /\ ~Locked
    /\ SetStatus(IdOf(c), "IDLE")
    /\ stage' = [stage EXCEPT ![c] = "answered"]
    /\ UNCHANGED <<caller, proc>>

(* The answer is OK or RECONNECTED, and a process serves on either.  A     *)
(* caller that is gone, or that has called again, does not hear it.        *)
Answer(c) ==
    /\ stage[c] = "answered"
    /\ stage' = [stage EXCEPT ![c] = "ended"]
    /\ proc' = IF proc[caller[c]] = c
               THEN [proc EXCEPT ![caller[c]] = "serving"]
               ELSE proc
    /\ UNCHANGED <<workers, caller>>

(* shutdownServer on a signal: Disconnect, whose handler marks the entry   *)
(* OFFLINE if its unlocked lookup finds one, and then the process ends.    *)
Disconnect(p) ==
    /\ proc[p] = "serving"
    /\ \/ ~Locked /\ SetStatus(NameOf[p], "OFFLINE")
       \/ Locked /\ UNCHANGED workers
    /\ proc' = [proc EXCEPT ![p] = "down"]
    /\ UNCHANGED <<stage, caller>>

(* A process dies; the handler of its call goes on.                        *)
Crash(p) ==
    /\ proc[p] # "down"
    /\ proc' = [proc EXCEPT ![p] = "down"]
    /\ UNCHANGED <<workers, stage, caller>>

Next ==
    \/ \E p \in Processes : Start(p) \/ Disconnect(p) \/ Crash(p)
    \/ \E c \in Calls : \/ LookUp(c) \/ RegisterBegin(c) \/ RegisterEnd(c)
                        \/ Reconnect(c) \/ Answer(c)

Spec == Init /\ [][Next]_vars

-----------------------------------------------------------------------------
(* "A reconnecting render worker may already be registered to the          *)
(* scheduler's client list.  To prevent data duplication, a render worker  *)
(* can be given an 'RECONNECTED'" (scheduler_server.proto:18-19): the list *)
(* has one entry per name.  A second entry is never found by name: no      *)
(* callback, reconnect or Disconnect changes it, so it is handed one frame *)
(* and is BUSY for ever after.                                             *)
NoDuplicateWorker ==
    \A i, k \in DOMAIN workers : workers[i].id = workers[k].id => i = k
=============================================================================
