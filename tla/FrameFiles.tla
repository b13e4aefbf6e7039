----------------------------- MODULE FrameFiles -----------------------------
(***************************************************************************)
(* From a listed scene to a frame in the bucket.  A RenderJob handler of a *)
(* worker fetches the scene object into temp_<key>, loads that file,       *)
(* renders, writes the image to the render's output name, removes the      *)
(* scene file, puts the image into the bucket and removes it.  Both files  *)
(* lie in the process's working directory: handlers of one process, and    *)
(* workers started in one directory, share them without a lock.            *)
(*                                                                         *)
(* Handlers run with each other, with uploads and restarts of the          *)
(* scheduler (SceneUpload).  They may throw wherever the code may, crash,  *)
(* and find the files of handlers that did.                                *)
(***************************************************************************)
EXTENDS SceneUpload

CONSTANTS
    Handlers,  \* the frames rendered: one RenderJob call each
    Dirs       \* working directories of the worker processes

Stages == {"idle", "queued", "write", "check", "load", "render", "wait",
           "cleanup", "put", "remove", "done", "failed"}

(* What a file or object holds: nothing at all, nothing yet, one scene, a  *)
(* mixture of two; an image is the handler and the scene that made it.     *)
Blank == "blank"
Mixed == "mixed"
NoImage == [by |-> NoData, scene |-> NoData]
EmptyImage == [by |-> Blank, scene |-> Blank]

VARIABLES
    pc,      \* per handler, the next step of RenderJob
    job,     \* the listed scene it renders, and what the bucket held for it
    dir,     \* its working directory
    fetched, \* the object's data, in memory while it is written to the file
    loaded,  \* the scene it renders
    temp,    \* per directory and key, what temp_<key> holds
    out,     \* per directory, the image file
    frames,  \* the frame objects of the bucket
    shared,  \* handlers that met another one in their directory
    silent   \* handlers whose image was not written, without an error

handlerVars == <<pc, job, dir, fetched, loaded>>
fileVars == <<temp, out, frames, shared, silent>>
vars == <<uploadVars, handlerVars, fileVars>>

NoJob == [name |-> << >>, key |-> << >>, data |-> NoData]

Init ==
    /\ UploadInit
    /\ pc = [h \in Handlers |-> "idle"]
    /\ job = [h \in Handlers |-> NoJob]
    /\ dir \in [Handlers -> Dirs]
    /\ fetched = [h \in Handlers |-> NoData]
    /\ loaded = [h \in Handlers |-> NoData]
    /\ temp = [d \in Dirs |-> [k \in Keys |-> NoData]]
    /\ out = [d \in Dirs |-> NoImage]
    /\ frames = [h \in Handlers |-> NoImage]
    /\ shared = {} /\ silent = {}

At(h, stg) == pc[h] = stg
Go(h, stg) == pc' = [pc EXCEPT ![h] = stg]
Active(h) == pc[h] \notin {"idle", "queued", "done", "failed"}
TempOf(h) == temp[dir[h]][job[h].key]
SetTemp(h, data) == temp' = [temp EXCEPT ![dir[h]][job[h].key] = data]

-----------------------------------------------------------------------------
(* A render of a listed scene is requested.                                *)
Submit(h) ==
    /\ At(h, "idle")
    /\ \E s \in scenes :
        job' = [job EXCEPT ![h] = [name |-> s[1], key |-> s[2],
                                   data |-> objects[s[2]]]]
    /\ Go(h, "queued")
    /\ UNCHANGED <<uploadVars, dir, fetched, loaded, fileVars>>

(* getObject up to the opening of the file, which truncates it.            *)
Fetch(h) ==
    /\ At(h, "queued")
    /\ objects[job[h].key] # NoData
    /\ fetched' = [fetched EXCEPT ![h] = objects[job[h].key]]
    /\ SetTemp(h, Blank)
    /\ shared' = shared \cup
         {g \in Handlers : \E o \in Handlers :
            /\ dir[o] = dir[h] /\ o # h /\ Active(o) /\ g \in {h, o}}
    /\ Go(h, "write")
    /\ UNCHANGED <<uploadVars, job, dir, loaded, out, frames, silent>>

(* writeFileToPath writes from the start of the file.  What another        *)
(* handler wrote there is overwritten, as far as this data reaches.        *)
WriteScene(h) ==
    /\ At(h, "write")
    /\ \/ SetTemp(h, fetched[h])
       \/ TempOf(h) \notin {Blank, NoData, fetched[h]} /\ SetTemp(h, Mixed)
    /\ fetched' = [fetched EXCEPT ![h] = NoData]
    /\ Go(h, "check")
    /\ UNCHANGED <<uploadVars, job, dir, loaded, out, frames, shared, silent>>

(* The length is compared: a truncated file is noticed, another complete   *)
(* one only if it has another length.                                      *)
SizeMatches(h) == TempOf(h) \notin {Blank, NoData}

CheckSize(h) ==
    /\ At(h, "check")
    /\ SizeMatches(h)
    /\ Go(h, "load")
    /\ UNCHANGED <<uploadVars, job, dir, fetched, loaded, fileVars>>

(* SceneGraph::fromGltf reads the file.                                    *)
LoadScene(h) ==
    /\ At(h, "load")
    /\ TempOf(h) \notin {Blank, NoData}
    /\ loaded' = [loaded EXCEPT ![h] = TempOf(h)]
    /\ Go(h, "render")
    /\ UNCHANGED <<uploadVars, job, dir, fetched, fileVars>>

(* PathTracer::render and saveImage.  stbi_write_png may fail to open the  *)
(* file; saveImage does not look.                                          *)
RenderAndSave(h) ==
    /\ At(h, "render")
    /\ \/ /\ out' = [out EXCEPT ![dir[h]] = [by |-> h, scene |-> loaded[h]]]
          /\ UNCHANGED silent
       \/ /\ silent' = silent \cup {h}
          /\ UNCHANGED out
    /\ Go(h, "cleanup")
    /\ UNCHANGED <<uploadVars, job, dir, fetched, loaded, temp, frames, shared>>

(* Mutant: the scene file stays.                                           *)
RemoveTempNever(h) ==
    /\ At(h, "cleanup")
    /\ loaded' = [loaded EXCEPT ![h] = NoData]
    /\ Go(h, "put")
    /\ UNCHANGED <<uploadVars, job, dir, fetched, fileVars>>

(* The GPU is idle and the scene is gone; the file is removed.             *)
RemoveTemp(h) ==
    /\ At(h, "cleanup")
    /\ SetTemp(h, NoData)
    /\ loaded' = [loaded EXCEPT ![h] = NoData]
    /\ Go(h, "put")
    /\ UNCHANGED <<uploadVars, job, dir, fetched, out, frames, shared, silent>>

(* Mutant: the image is removed before it is put into the bucket.          *)
PutImageLate(h) ==
    /\ At(h, "put")
    /\ frames' = [frames EXCEPT ![h] = EmptyImage]
    /\ Go(h, "remove")
    /\ UNCHANGED <<uploadVars, job, dir, fetched, loaded, temp, out, shared,
                   silent>>

(* putObject, its result ignored; without a file the request has no body.  *)
PutImage(h) ==
    /\ At(h, "put")
    /\ \/ frames' = [frames EXCEPT ![h] = IF out[dir[h]] = NoImage
                                          THEN EmptyImage ELSE out[dir[h]]]
       \/ UNCHANGED frames
    /\ Go(h, "remove")
    /\ UNCHANGED <<uploadVars, job, dir, fetched, loaded, temp, out, shared,
                   silent>>

(* The file is removed if it is there; then the job is reported.           *)
RemoveOutput(h) ==
    /\ At(h, "remove")
    /\ out' = [out EXCEPT ![dir[h]] = NoImage]
    /\ Go(h, "done")
    /\ UNCHANGED <<uploadVars, job, dir, fetched, loaded, temp, frames, shared,
                   silent>>

(* An exception before putObject, waitIdle's included, which the handler   *)
(* reports like a frame; or, at any stage, the death of the process.  The  *)
(* files stay where they are.                                              *)
Fail(h) ==
    /\ Active(h) \/ At(h, "queued")
    /\ Go(h, "failed")
    /\ fetched' = [fetched EXCEPT ![h] = NoData]
    /\ loaded' = [loaded EXCEPT ![h] = NoData]
    /\ UNCHANGED <<uploadVars, job, dir, fileVars>>

Handle(h) ==
    \/ Submit(h) \/ Fetch(h) \/ WriteScene(h) \/ CheckSize(h) \/ LoadScene(h)
    \/ RenderAndSave(h) \/ RemoveTemp(h) \/ PutImage(h) \/ RemoveOutput(h)
    \/ Fail(h)

(* The queue is lost with the scheduler.                                   *)
SchedulerRestart ==
    /\ Restart
    /\ pc' = [h \in Handlers |-> IF pc[h] = "queued" THEN "idle" ELSE pc[h]]
    /\ UNCHANGED <<job, dir, fetched, loaded, fileVars>>

Next ==
    \/ UploadNext /\ UNCHANGED <<handlerVars, fileVars>>
    \/ SchedulerRestart
    \/ \E h \in Handlers : Handle(h)

Spec == Init /\ [][Next]_vars

-----------------------------------------------------------------------------
(* Properties.                                                             *)

FileData == Uploads \cup {NoData, Blank, Mixed}
Images == [by : Handlers, scene : FileData] \cup {NoImage, EmptyImage}

(* Every variable has the values the code gives it; a file holds one scene *)
(* or image, or what is left of two.                                       *)
TypeOK ==
    /\ scenes \subseteq {NameOf[u] : u \in Uploads} \X Keys
    /\ \A s, t \in scenes : s[1] = t[1] => s = t
    /\ objects \in [Keys -> Uploads \cup {NoData}]
    /\ (current = NoData) = (stage = "idle")
    /\ \A h \in Handlers : pc[h] \in Stages
    /\ loaded \in [Handlers -> Uploads \cup {NoData, Mixed}]
    /\ \A d \in Dirs, k \in Keys : temp[d][k] \in FileData
    /\ \A d \in Dirs : out[d] \in Images

(* The frame object of a handler that has its directory to itself and      *)
(* whose image could be written is its own image, never one a failed       *)
(* handler left behind.                                                    *)
FramesAreOwn ==
    \A h \in Handlers :
        h \notin shared \cup silent /\ frames[h] # NoImage => frames[h].by = h

(* Such a frame shows the scene the list showed when it was requested, if  *)
(* the scene's name is private and the list has not been lost since:       *)
(* uploads that run meanwhile do not change it.                            *)
FramesShowTheListedScene ==
    restarts = 0 =>
        \A h \in Handlers :
            /\ h \notin shared \cup silent
            /\ frames[h] # NoImage
            /\ job[h].name \in PrivateNames
            => frames[h].scene = job[h].data

(* Once the handlers of a directory are through, and none of them failed,  *)
(* no file of theirs is left, whether or not they got into each other's    *)
(* way.                                                                    *)
FilesAreCleaned ==
    \A d \in Dirs :
        (\A h \in Handlers : dir[h] = d => ~ Active(h) /\ ~ At(h, "failed")) =>
            /\ out[d] = NoImage
            /\ \A k \in Keys : temp[d][k] = NoData
=============================================================================
