-------------------------- MODULE FrameFilesProofs --------------------------
(***************************************************************************)
(* For any upload requests, names, keys, handlers and restarts: a listed   *)
(* scene is in the bucket, and for names with a key of their own the list  *)
(* and the bucket implement SceneCatalogue; the specification is that of   *)
(* FrameFiles, whose handlers only read what an upload writes.             *)
(*                                                                         *)
(* For any handlers, directories, uploads and restarts: what a worker      *)
(* renders and stores for a frame, alone in its directory, is that frame   *)
(* of the listed scene, whatever failed handlers left behind; and handlers *)
(* that do not fail leave nothing.                                         *)
(***************************************************************************)
EXTENDS FrameFiles, TLAPS

(* What an upload in progress has established: its name was not listed     *)
(* when it was looked up, and has not been since, because there is one     *)
(* HTTP thread; once it is about to be listed, its object is there.        *)
UploadInv ==
    /\ objects \in [Keys -> Uploads \cup {NoData}]
    /\ \A s \in scenes : \E u \in Uploads :
            NameOf[u] # << >> /\ s = <<NameOf[u], SceneKey(u)>>
    /\ ListedScenesAreStored
    /\ stage \in {"idle", "put", "list"}
    /\ stage = "idle" => current = NoData
    /\ stage # "idle" => current \in Uploads /\ ~ Listed(NameOf[current])
    /\ stage = "list" => objects[SceneKey(current)] # NoData

LEMMA KeysOfUploads == \A u \in Uploads : SceneKey(u) \in Keys
BY DEF Keys

LEMMA UploadInvInit == Init => UploadInv
<1> SUFFICES ASSUME Init PROVE UploadInv
  OBVIOUS
<1> QED
  BY DEF Init, UploadInit, UploadInv, ListedScenesAreStored

(* Answering ends the request and leaves list and bucket alone.            *)
LEMMA AnswerKeepsInv ==
    ASSUME UploadInv, NEW u, Answer(u), UNCHANGED <<scenes, objects>>
    PROVE  UploadInv'
BY DEF UploadInv, Answer, ListedScenesAreStored, Listed

LEMMA ReceiveKeepsInv ==
    ASSUME UploadInv, NEW u \in Uploads, Receive(u)
    PROVE  UploadInv'
<1>1. CASE Answer(u)
  BY <1>1, AnswerKeepsInv DEF Receive
<1>2. CASE NameIsFree(u) /\ current' = u /\ stage' = "put"
  BY <1>2 DEF Receive, UploadInv, ListedScenesAreStored, Listed, NameIsFree
<1> QED
  BY <1>1, <1>2 DEF Receive

(* What PutScene does to the bucket.                                       *)
LEMMA PutSceneObjects ==
    ASSUME UploadInv, PutScene
    PROVE  /\ current \in Uploads /\ ~ Listed(NameOf[current])
           /\ SceneKey(current) \in Keys
           /\ scenes' = scenes
           /\ objects' \in [Keys -> Uploads \cup {NoData}]
           /\ \A k \in Keys : \/ objects'[k] = objects[k]
                              \/ /\ k = SceneKey(current)
                                 /\ objects'[k] = current
<1>1. /\ current \in Uploads /\ ~ Listed(NameOf[current]) /\ scenes' = scenes
      /\ SceneKey(current) \in Keys
  BY KeysOfUploads DEF PutScene, UploadInv
<1>2. \/ objects' = objects
      \/ objects' = [objects EXCEPT ![SceneKey(current)] = current]
  BY DEF PutScene
<1> QED
  BY <1>1, <1>2 DEF UploadInv

LEMMA PutSceneKeepsInv ==
    ASSUME UploadInv, PutScene
    PROVE  UploadInv'
<1>1. \A s \in scenes : s[2] \in Keys
  BY KeysOfUploads DEF UploadInv
<1>2. current # NoData
  BY PutSceneObjects, UploadsAssumption
<1>3. ListedScenesAreStored'
  BY <1>1, <1>2, PutSceneObjects DEF UploadInv, ListedScenesAreStored
<1>4. \/ Answer(current)
      \/ /\ stage' = "list" /\ UNCHANGED <<current, answered>>
         /\ objects' = [objects EXCEPT ![SceneKey(current)] = current]
  BY DEF PutScene
<1>5. CASE Answer(current)
  BY <1>3, <1>5, PutSceneObjects DEF UploadInv, Answer
<1>6. CASE /\ stage' = "list" /\ UNCHANGED <<current, answered>>
           /\ objects' = [objects EXCEPT ![SceneKey(current)] = current]
  <2>1. objects'[SceneKey(current)] = current
    BY <1>6, PutSceneObjects DEF UploadInv
  <2>2. SceneKey(current)' = SceneKey(current)
    BY <1>6
  <2> QED
    BY <1>2, <1>3, <1>6, <2>1, <2>2, PutSceneObjects DEF UploadInv, Listed
<1> QED
  BY <1>4, <1>5, <1>6

(* What AddScene does to the list.                                         *)
LEMMA AddSceneList ==
    ASSUME UploadInv, AddScene
    PROVE  /\ current \in Uploads /\ ~ Listed(NameOf[current])
           /\ objects' = objects /\ objects[SceneKey(current)] \in Uploads
           /\ \/ scenes' = scenes
              \/ /\ NameOf[current] # << >>
                 /\ scenes' = scenes \cup {<<NameOf[current], SceneKey(current)>>}
<1>1. /\ current \in Uploads /\ ~ Listed(NameOf[current])
      /\ objects[SceneKey(current)] # NoData
  BY DEF AddScene, UploadInv
<1>2. objects[SceneKey(current)] \in Uploads
  BY <1>1, KeysOfUploads DEF UploadInv
<1> QED
  BY <1>1, <1>2 DEF AddScene

LEMMA AddSceneKeepsInv ==
    ASSUME UploadInv, AddScene
    PROVE  UploadInv'
<1>1. \A s \in scenes' : \E u \in Uploads :
            NameOf[u] # << >> /\ s = <<NameOf[u], SceneKey(u)>>
  BY AddSceneList DEF UploadInv
<1>2. \A s \in scenes' : objects'[s[2]] # NoData
  BY AddSceneList, UploadsAssumption DEF UploadInv, ListedScenesAreStored
<1>3. stage' = "idle" /\ current' = NoData
  BY DEF AddScene, Answer
<1> QED
  BY <1>1, <1>2, <1>3, AddSceneList DEF UploadInv, ListedScenesAreStored

LEMMA RestartKeepsInv ==
    ASSUME UploadInv, Restart
    PROVE  UploadInv'
<1>1. scenes' = {} /\ objects' = objects
  BY DEF Restart
<1>2. stage' = "idle" /\ current' = NoData
  BY UploadsAssumption DEF Restart, Answer, UploadInv
<1> QED
  BY <1>1, <1>2 DEF UploadInv, ListedScenesAreStored

(* The four kinds of steps there are for list and bucket.                  *)
LEMMA UploadSteps ==
    ASSUME [Next]_vars
    PROVE  \/ \E u \in Uploads : Receive(u)
           \/ PutScene
           \/ AddScene
           \/ Restart
           \/ UNCHANGED uploadVars
<1>1. ASSUME NEW h \in Handlers, Handle(h) PROVE UNCHANGED uploadVars
  BY <1>1 DEF Handle, Submit, Fetch, WriteScene, CheckSize, LoadScene,
              RenderAndSave, RemoveTemp, PutImage, RemoveOutput, Fail
<1> QED
  BY <1>1 DEF Next, UploadNext, SchedulerRestart, vars

LEMMA UploadInvNext == UploadInv /\ [Next]_vars => UploadInv'
<1> SUFFICES ASSUME UploadInv, [Next]_vars PROVE UploadInv'
  OBVIOUS
<1>1. CASE UNCHANGED uploadVars
  <2>1. UNCHANGED <<scenes, objects, current, stage>>
    BY <1>1 DEF uploadVars
  <2>2. SceneKey(current)' = SceneKey(current)
    BY <2>1
  <2> QED
    BY <2>1, <2>2 DEF UploadInv, ListedScenesAreStored, Listed
<1> QED
  BY <1>1, UploadSteps, ReceiveKeepsInv, PutSceneKeepsInv, AddSceneKeepsInv,
     RestartKeepsInv

(* Whatever fails, is retried or restarts, GET /scenes shows no scene that *)
(* the bucket does not hold, for any names and keys.                       *)
THEOREM ListedScenesHaveObjects == Spec => []ListedScenesAreStored
<1>1. UploadInv => ListedScenesAreStored
  BY DEF UploadInv
<1> QED
  BY <1>1, UploadInvInit, UploadInvNext, PTL DEF Spec

-----------------------------------------------------------------------------
(* The catalogue.                                                          *)

(* A key is made of the name alone, where there is a name.                 *)
LEMMA SameNameSameKey ==
    ASSUME NEW u \in Uploads, NEW v \in Uploads,
           NameOf[u] = NameOf[v], NameOf[u] # << >>
    PROVE  SceneKey(u) = SceneKey(v)
BY DEF SceneKey

LEMMA KeyOfName ==
    ASSUME NEW n \in PrivateNames
    PROVE  /\ KeyOf(n) \in Keys
           /\ \A u \in Uploads : NameOf[u] = n <=> SceneKey(u) = KeyOf(n)
<1> DEFINE first == CHOOSE u \in Uploads : NameOf[u] = n
<1>1. /\ n # << >> /\ \E u \in Uploads : NameOf[u] = n
      /\ \A u, v \in Uploads :
            NameOf[u] = n /\ SceneKey(v) = SceneKey(u) => NameOf[v] = n
  BY DEF PrivateNames
<1>2. first \in Uploads /\ NameOf[first] = n
  BY <1>1
<1>3. KeyOf(n) = SceneKey(first)
  BY DEF KeyOf
<1> HIDE DEF first
<1> QED
  BY <1>1, <1>2, <1>3, KeysOfUploads, SameNameSameKey

(* What the catalogue shows for a name.                                    *)
Shown(n) == IF Listed(n) THEN objects[KeyOf(n)] ELSE NoData

LEMMA KeyIsConstant ==
    ASSUME NEW n PROVE KeyOf(n)' = KeyOf(n)
OBVIOUS

LEMMA CatalogueInit == Init => Catalogue!Init
BY DEF Init, UploadInit, Catalogue!Init, Listed

LEMMA StutterOfList ==
    ASSUME UNCHANGED <<scenes, objects>>
    PROVE  \A n \in PrivateNames : Shown(n)' = Shown(n)
BY KeyIsConstant DEF Shown, Listed

(* An object that is overwritten belongs to no listed private name.        *)
LEMMA PutSceneStutters ==
    ASSUME UploadInv, PutScene
    PROVE  \A n \in PrivateNames : Shown(n)' = Shown(n)
<1> SUFFICES ASSUME NEW n \in PrivateNames PROVE Shown(n)' = Shown(n)
  OBVIOUS
<1>1. Listed(n)' <=> Listed(n)
  BY PutSceneObjects DEF Listed
<1>2. ASSUME Listed(n) PROVE objects'[KeyOf(n)] = objects[KeyOf(n)]
  <2>1. NameOf[current] # n
    BY <1>2, PutSceneObjects
  <2>2. KeyOf(n) # SceneKey(current)
    BY <2>1, PutSceneObjects, KeyOfName
  <2> QED
    BY <2>2, PutSceneObjects, KeyOfName
<1> QED
  BY <1>1, <1>2, KeyIsConstant DEF Shown

(* Listing a scene adds its name to the catalogue, if it is a private one. *)
LEMMA AddSceneAdds ==
    ASSUME UploadInv, AddScene
    PROVE  \/ \A n \in PrivateNames : Shown(n)' = Shown(n)
           \/ \E n \in PrivateNames, data \in Uploads :
                /\ Shown(n) = NoData /\ Shown(n)' = data
                /\ \A m \in PrivateNames : m # n => Shown(m)' = Shown(m)
<1>1. CASE scenes' = scenes
  BY <1>1, StutterOfList, AddSceneList
<1>2. CASE scenes' = scenes \cup {<<NameOf[current], SceneKey(current)>>}
  <2>0. PICK c : c = NameOf[current]
    OBVIOUS
  <2>1. /\ ~ Listed(c) /\ Listed(c)'
        /\ \A m : m # c => (Listed(m)' <=> Listed(m))
    <3> DEFINE new == <<c, SceneKey(current)>>
    <3>1. ~ Listed(c) /\ scenes' = scenes \cup {new} /\ new[1] = c
      BY <1>2, <2>0, AddSceneList
    <3> HIDE DEF new
    <3>2. new \in scenes'
      BY <3>1
    <3> QED
      BY <3>1, <3>2 DEF Listed
  <2>2. \A m \in PrivateNames : m # c => Shown(m)' = Shown(m)
    BY <2>1, AddSceneList, KeyIsConstant DEF Shown
  <2>3. CASE c \in PrivateNames
    <3>1. KeyOf(c) = SceneKey(current)
      BY <2>0, <2>3, AddSceneList, KeyOfName
    <3>2. Shown(c) = NoData /\ Shown(c)' = objects[SceneKey(current)]
      BY <2>1, <3>1, AddSceneList, KeyIsConstant DEF Shown
    <3> QED
      BY <2>2, <2>3, <3>2, AddSceneList
  <2>4. CASE c \notin PrivateNames
    BY <2>2, <2>4
  <2> QED
    BY <2>3, <2>4
<1> QED
  BY <1>1, <1>2, AddSceneList

LEMMA CatalogueNext ==
    UploadInv /\ [Next]_vars =>
        [Catalogue!Next]_([n \in PrivateNames |-> Shown(n)])
<1> SUFFICES ASSUME UploadInv, [Next]_vars
             PROVE  [Catalogue!Next]_([n \in PrivateNames |-> Shown(n)])
  OBVIOUS
<1> DEFINE E == [n \in PrivateNames |-> Shown(n)]
<1>1. E' = [n \in PrivateNames |-> Shown(n)']
  OBVIOUS
<1>2. CASE \A n \in PrivateNames : Shown(n)' = Shown(n)
  BY <1>1, <1>2
<1>3. CASE \E n \in PrivateNames, data \in Uploads :
                /\ Shown(n) = NoData /\ Shown(n)' = data
                /\ \A m \in PrivateNames : m # n => Shown(m)' = Shown(m)
  <2>1. PICK n \in PrivateNames, data \in Uploads :
                /\ Shown(n) = NoData /\ Shown(n)' = data
                /\ \A m \in PrivateNames : m # n => Shown(m)' = Shown(m)
    BY <1>3
  <2>2. E[n] = NoData /\ E' = [E EXCEPT ![n] = data]
    BY <1>1, <2>1
  <2>3. Catalogue!Add(n, data)
    BY <2>2 DEF Catalogue!Add, Shown
  <2> QED
    BY <2>3 DEF Catalogue!Next
<1>4. CASE Restart
  <2>1. \A n \in PrivateNames : Shown(n)' = NoData
    BY <1>4 DEF Restart, Listed, Shown
  <2>2. Catalogue!Forget
    BY <1>1, <2>1 DEF Catalogue!Forget, Shown
  <2> QED
    BY <2>2 DEF Catalogue!Next
<1>5. CASE \E u \in Uploads : Receive(u)
  BY <1>2, <1>5, StutterOfList DEF Receive
<1>6. CASE UNCHANGED uploadVars
  BY <1>2, <1>6, StutterOfList DEF uploadVars
<1> QED
  BY <1>2, <1>3, <1>4, <1>5, <1>6, UploadSteps, PutSceneStutters, AddSceneAdds

(* Uploading implements the catalogue: under a name with a key of its own  *)
(* a listed scene is never replaced, for any set of requests and however   *)
(* putObject fails and the scheduler restarts.                             *)
THEOREM UploadsImplementCatalogue == Spec => ImplementsCatalogue
<1>1. Catalogue!Spec <=>
        Catalogue!Init
        /\ [][Catalogue!Next]_([n \in PrivateNames |-> Shown(n)])
  BY DEF Catalogue!Spec, Shown
<1> QED
  BY <1>1, UploadInvInit, UploadInvNext, CatalogueInit, CatalogueNext, PTL
     DEF Spec, ImplementsCatalogue

-----------------------------------------------------------------------------
(* Frames, from the request to the bucket.                                 *)

UploadNames == {NameOf[u] : u \in Uploads}
Jobs == [name : UploadNames, key : Keys, data : Uploads]

(* The types of what the handlers keep, and that a handler past its        *)
(* request has a job, past loading a scene.                                *)
FilesInv ==
    /\ pc \in [Handlers -> Stages]
    /\ dir \in [Handlers -> Dirs]
    /\ job \in [Handlers -> Jobs \cup {NoJob}]
    /\ fetched \in [Handlers -> Uploads \cup {NoData}]
    /\ loaded \in [Handlers -> Uploads \cup {NoData, Mixed}]
    /\ temp \in [Dirs -> [Keys -> FileData]]
    /\ out \in [Dirs -> Images]
    /\ frames \in [Handlers -> Images]
    /\ \A h \in Handlers :
        /\ pc[h] # "idle" => job[h] \in Jobs
        /\ pc[h] = "render" => loaded[h] # NoData
        /\ frames[h] # NoImage => pc[h] \in {"remove", "done", "failed"}

LEMMA FilesInvInit == Init => FilesInv
BY DEF Init, FilesInv, Stages, FileData, Images

(* The listed scene a request names, and its object.                       *)
LEMMA ListedJob ==
    ASSUME UploadInv, NEW s \in scenes
    PROVE  /\ s[1] \in UploadNames /\ s[2] \in Keys
           /\ objects[s[2]] \in Uploads
<1>1. PICK u \in Uploads : s = <<NameOf[u], SceneKey(u)>>
  BY DEF UploadInv
<1>2. s[1] \in UploadNames /\ s[2] \in Keys
  BY <1>1, KeysOfUploads DEF UploadNames
<1>3. objects[s[2]] # NoData
  BY DEF UploadInv, ListedScenesAreStored
<1> QED
  BY <1>2, <1>3 DEF UploadInv

LEMMA HandleKeepsFiles ==
    ASSUME UploadInv, FilesInv, NEW h \in Handlers, Handle(h)
    PROVE  FilesInv'
<1> USE DEF FilesInv, Stages, At, Go
<1>1. CASE Submit(h)
  <2>1. PICK s \in scenes :
            job' = [job EXCEPT ![h] = [name |-> s[1], key |-> s[2],
                                       data |-> objects[s[2]]]]
    BY <1>1 DEF Submit
  <2>2. [name |-> s[1], key |-> s[2], data |-> objects[s[2]]] \in Jobs
    BY ListedJob DEF Jobs
  <2> QED
    BY <1>1, <2>1, <2>2 DEF Submit, fileVars
<1>2. CASE Fetch(h)
  <2>1. job[h].key \in Keys
    BY <1>2 DEF Fetch, Jobs
  <2>2. objects[job[h].key] \in Uploads
    BY <1>2, <2>1 DEF Fetch, UploadInv
  <2> QED
    BY <1>2, <2>1, <2>2 DEF Fetch, SetTemp, FileData
<1>3. CASE WriteScene(h)
  BY <1>3 DEF WriteScene, SetTemp, FileData
<1>4. CASE CheckSize(h)
  BY <1>4 DEF CheckSize, fileVars
<1>5. CASE LoadScene(h)
  <2>1. job[h].key \in Keys
    BY <1>5 DEF LoadScene, Jobs
  <2>2. TempOf(h) \in Uploads \cup {Mixed} /\ TempOf(h) # NoData
    BY <1>5, <2>1 DEF LoadScene, TempOf, FileData
  <2> QED
    BY <1>5, <2>2 DEF LoadScene, fileVars
<1>6. CASE RenderAndSave(h)
  <2>1. [by |-> h, scene |-> loaded[h]] \in Images
    BY DEF Images, FileData
  <2> QED
    BY <1>6, <2>1 DEF RenderAndSave
<1>7. CASE RemoveTemp(h)
  BY <1>7 DEF RemoveTemp, SetTemp, FileData
<1>8. CASE PutImage(h)
  <2>1. out[dir[h]] \in Images /\ EmptyImage \in Images
    BY DEF Images
  <2> QED
    BY <1>8, <2>1 DEF PutImage
<1>9. CASE RemoveOutput(h)
  <2>1. NoImage \in Images
    BY DEF Images
  <2> QED
    BY <1>9, <2>1 DEF RemoveOutput
<1>10. CASE Fail(h)
  BY <1>10 DEF Fail, fileVars, Active
<1> QED
  BY <1>1, <1>2, <1>3, <1>4, <1>5, <1>6, <1>7, <1>8, <1>9, <1>10 DEF Handle

(* Steps of the scheduler: no file changes, and no handler but those of    *)
(* queued frames, which a restart forgets.                                 *)
LEMMA SchedulerSteps ==
    ASSUME FilesInv, [Next]_vars
    PROVE  \/ \E h \in Handlers : Handle(h)
           \/ /\ UNCHANGED <<job, dir, fetched, loaded, fileVars>>
              /\ \/ UNCHANGED pc
                 \/ /\ Restart
                    /\ pc' \in [Handlers -> Stages]
                    /\ \A h \in Handlers :
                         pc'[h] = pc[h] \/ (pc[h] = "queued" /\ pc'[h] = "idle")
<1>1. CASE SchedulerRestart
  <2>1. pc' = [h \in Handlers |-> IF pc[h] = "queued" THEN "idle" ELSE pc[h]]
    BY <1>1 DEF SchedulerRestart
  <2>2. \A h \in Handlers :
            pc'[h] = pc[h] \/ (pc[h] = "queued" /\ pc'[h] = "idle")
    BY <2>1
  <2>3. pc' \in [Handlers -> Stages]
    BY <2>1 DEF FilesInv, Stages
  <2> QED
    BY <1>1, <2>2, <2>3 DEF SchedulerRestart
<1>2. CASE UNCHANGED <<handlerVars, fileVars>>
  BY <1>2 DEF handlerVars
<1> QED
  BY <1>1, <1>2 DEF Next, vars

LEMMA FilesInvNext == UploadInv /\ FilesInv /\ [Next]_vars => FilesInv'
<1> SUFFICES ASSUME UploadInv, FilesInv, [Next]_vars PROVE FilesInv'
  OBVIOUS
<1>1. CASE /\ UNCHANGED <<job, dir, fetched, loaded, fileVars>>
           /\ \/ UNCHANGED pc
              \/ /\ pc' \in [Handlers -> Stages]
                 /\ \A h \in Handlers :
                      pc'[h] = pc[h] \/ (pc[h] = "queued" /\ pc'[h] = "idle")
  BY <1>1 DEF FilesInv, fileVars
<1> QED
  BY <1>1, HandleKeepsFiles, SchedulerSteps

-----------------------------------------------------------------------------
(* Cleaning up.  A file that is there has a handler that is about to       *)
(* remove it, or failed: a handler only leaves those stages by removing    *)
(* its file, which is everybody's of that name in the directory.           *)

TempOwner(h, d, k) ==
    /\ dir[h] = d /\ job[h].key = k
    /\ pc[h] \in {"write", "check", "load", "render", "cleanup", "failed"}

OutOwner(h, d) ==
    dir[h] = d /\ pc[h] \in {"cleanup", "put", "remove", "failed"}

CleanInv ==
    /\ \A d \in Dirs, k \in Keys :
        temp[d][k] # NoData => \E h \in Handlers : TempOwner(h, d, k)
    /\ \A d \in Dirs : out[d] # NoImage => \E h \in Handlers : OutOwner(h, d)

LEMMA CleanInit == Init => CleanInv
BY DEF Init, CleanInv

(* A step is harmless where a file is gone, has its handler for a new      *)
(* owner, or is as it was with the owners it had.                          *)
LEMMA OwnersAreKept ==
    ASSUME CleanInv, NEW h \in Handlers,
           \A d \in Dirs, k \in Keys :
                \/ temp'[d][k] = NoData
                \/ TempOwner(h, d, k)'
                \/ /\ temp'[d][k] = temp[d][k]
                   /\ \A g \in Handlers : TempOwner(g, d, k) => TempOwner(g, d, k)',
           \A d \in Dirs :
                \/ out'[d] = NoImage
                \/ OutOwner(h, d)'
                \/ /\ out'[d] = out[d]
                   /\ \A g \in Handlers : OutOwner(g, d) => OutOwner(g, d)'
    PROVE  CleanInv'
<1>1. \A d \in Dirs, k \in Keys :
        temp'[d][k] # NoData => \E g \in Handlers : TempOwner(g, d, k)'
  BY DEF CleanInv
<1>2. \A d \in Dirs : out'[d] # NoImage => \E g \in Handlers : OutOwner(g, d)'
  BY DEF CleanInv
<1> QED
  BY <1>1, <1>2 DEF CleanInv

LEMMA HandleKeepsClean ==
    ASSUME UploadInv, FilesInv, CleanInv, NEW h \in Handlers, Handle(h)
    PROVE  CleanInv'
<1> DEFINE TempKept(d, k) ==
             \/ temp'[d][k] = NoData
             \/ TempOwner(h, d, k)'
             \/ /\ temp'[d][k] = temp[d][k]
                /\ \A g \in Handlers : TempOwner(g, d, k) => TempOwner(g, d, k)'
           OutKept(d) ==
             \/ out'[d] = NoImage
             \/ OutOwner(h, d)'
             \/ /\ out'[d] = out[d]
                /\ \A g \in Handlers : OutOwner(g, d) => OutOwner(g, d)'
<1> SUFFICES /\ \A d \in Dirs, k \in Keys : TempKept(d, k)
             /\ \A d \in Dirs : OutKept(d)
  BY OwnersAreKept
<1> USE DEF FilesInv, At, Go, TempOwner, OutOwner
<1>1. CASE Submit(h)
  BY <1>1 DEF Submit, fileVars
<1>2. CASE Fetch(h)
  BY <1>2 DEF Fetch, SetTemp
<1>3. CASE WriteScene(h)
  <2>1. PICK data : SetTemp(h, data)
    BY <1>3 DEF WriteScene
  <2>2. \A d \in Dirs, k \in Keys : TempKept(d, k)
    BY <1>3, <2>1 DEF WriteScene, SetTemp
  <2>3. \A d \in Dirs : OutKept(d)
    BY <1>3 DEF WriteScene
  <2> QED
    BY <2>2, <2>3
<1>4. CASE CheckSize(h)
  BY <1>4 DEF CheckSize, fileVars
<1>5. CASE LoadScene(h)
  BY <1>5 DEF LoadScene, fileVars
<1>6. CASE RenderAndSave(h)
  BY <1>6 DEF RenderAndSave
<1>7. CASE RemoveTemp(h)
  BY <1>7 DEF RemoveTemp, SetTemp
<1>8. CASE PutImage(h)
  BY <1>8 DEF PutImage
<1>9. CASE RemoveOutput(h)
  BY <1>9 DEF RemoveOutput
<1>10. CASE Fail(h)
  BY <1>10 DEF Fail, fileVars, Active
<1> QED
  BY <1>1, <1>2, <1>3, <1>4, <1>5, <1>6, <1>7, <1>8, <1>9, <1>10 DEF Handle

LEMMA CleanNext ==
    UploadInv /\ FilesInv /\ CleanInv /\ [Next]_vars => CleanInv'
<1> SUFFICES ASSUME UploadInv, FilesInv, CleanInv, [Next]_vars PROVE CleanInv'
  OBVIOUS
<1>1. CASE /\ UNCHANGED <<job, dir, fetched, loaded, fileVars>>
           /\ \/ UNCHANGED pc
              \/ \A h \in Handlers :
                   pc'[h] = pc[h] \/ (pc[h] = "queued" /\ pc'[h] = "idle")
  BY <1>1 DEF CleanInv, TempOwner, OutOwner, fileVars
<1> QED
  BY <1>1, HandleKeepsClean, SchedulerSteps

LEMMA CleanMeansCleaned == CleanInv => FilesAreCleaned
<1> SUFFICES ASSUME CleanInv, NEW d \in Dirs,
                    \A h \in Handlers : dir[h] = d => ~ Active(h) /\ ~ At(h, "failed")
             PROVE  out[d] = NoImage /\ \A k \in Keys : temp[d][k] = NoData
  BY DEF FilesAreCleaned
<1>1. \A h \in Handlers : ~ OutOwner(h, d)
  BY DEF OutOwner, Active, At
<1>2. \A h \in Handlers : \A k \in Keys : ~ TempOwner(h, d, k)
  BY DEF TempOwner, Active, At
<1> QED
  BY <1>1, <1>2 DEF CleanInv

(* Handlers that are through, none of which failed, have left no file in   *)
(* their directory, however many of them got into each other's way.        *)
THEOREM DirectoriesAreCleaned == Spec => []FilesAreCleaned
<1>1. Init => UploadInv /\ FilesInv /\ CleanInv
  BY UploadInvInit, FilesInvInit, CleanInit
<1>2. /\ UploadInv /\ FilesInv /\ CleanInv
      /\ [Next]_vars
      => (UploadInv /\ FilesInv /\ CleanInv)'
  BY UploadInvNext, FilesInvNext, CleanNext
<1> QED
  BY <1>1, <1>2, CleanMeansCleaned, PTL DEF Spec

-----------------------------------------------------------------------------
(* Types, as the run checks them.                                          *)

LEMMA InvsMeanTypeOK == UploadInv /\ FilesInv => TypeOK
<1> SUFFICES ASSUME UploadInv, FilesInv PROVE TypeOK
  OBVIOUS
<1>1. \A s \in scenes : s[1] \in UploadNames /\ s[2] \in Keys /\ s = <<s[1], s[2]>>
  BY ListedJob DEF UploadInv
<1>2. scenes \subseteq UploadNames \X Keys
  BY <1>1
<1>3. ASSUME NEW s \in scenes, NEW t \in scenes, s[1] = t[1] PROVE s = t
  <2>1. PICK u \in Uploads : NameOf[u] # << >> /\ s = <<NameOf[u], SceneKey(u)>>
    BY DEF UploadInv
  <2>2. PICK v \in Uploads : NameOf[v] # << >> /\ t = <<NameOf[v], SceneKey(v)>>
    BY DEF UploadInv
  <2>3. NameOf[u] = NameOf[v]
    BY <1>3, <2>1, <2>2
  <2> QED
    BY <2>1, <2>2, <2>3, SameNameSameKey
<1>4. current = NoData <=> stage = "idle"
  BY UploadsAssumption DEF UploadInv
<1> QED
  BY <1>2, <1>3, <1>4 DEF TypeOK, UploadInv, FilesInv, UploadNames

(* Type correctness of uploads and handlers, for every set of requests: in *)
(* particular no name is listed twice.                                     *)
THEOREM FilesTypeCorrect == Spec => []TypeOK
<1>1. Init => UploadInv /\ FilesInv
  BY UploadInvInit, FilesInvInit
<1>2. UploadInv /\ FilesInv /\ [Next]_vars => (UploadInv /\ FilesInv)'
  BY UploadInvNext, FilesInvNext
<1> QED
  BY <1>1, <1>2, InvsMeanTypeOK, PTL DEF Spec

-----------------------------------------------------------------------------
(* Whose image a frame is.  Two handlers that are busy in one directory    *)
(* have met; one that met nobody finds its files as it left them.          *)

OwnInv ==
    /\ \A h, o \in Handlers :
        h # o /\ dir[h] = dir[o] /\ Active(h) /\ Active(o) => h \in shared
    /\ \A h \in Handlers : h \notin shared \cup silent =>
        /\ pc[h] \in {"cleanup", "put"} =>
                out[dir[h]].by = h /\ out[dir[h]] # NoImage
        /\ frames[h] # NoImage => frames[h].by = h

LEMMA OwnInit == Init => OwnInv
BY DEF Init, OwnInv, Active

(* What a handler's step does to a handler that it does not meet.          *)
LEMMA OthersStep ==
    ASSUME FilesInv, OwnInv, NEW h \in Handlers, NEW o \in Handlers, h # o,
           Handle(o), h \notin shared' \cup silent'
    PROVE  /\ h \notin shared \cup silent
           /\ pc'[h] = pc[h] /\ job'[h] = job[h] /\ dir' = dir
           /\ fetched'[h] = fetched[h] /\ loaded'[h] = loaded[h]
           /\ frames'[h] = frames[h]
           /\ Active(h) => /\ temp'[dir[h]] = temp[dir[h]]
                           /\ out'[dir[h]] = out[dir[h]]
<1>1. shared \subseteq shared' /\ silent \subseteq silent'
  BY DEF Handle, Submit, Fetch, WriteScene, CheckSize, LoadScene,
         RenderAndSave, RemoveTemp, PutImage, RemoveOutput, Fail, fileVars
<1>2. h \notin shared \cup silent
  BY <1>1
<1>3. Active(h) /\ Active(o) => dir[h] # dir[o]
  BY <1>2 DEF OwnInv
<1> USE DEF FilesInv, At, Go
<1>4. CASE Submit(o)
  BY <1>2, <1>4 DEF Submit, fileVars
<1>5. CASE Fetch(o)
  <2>1. Active(h) => dir[h] # dir[o]
    BY <1>5 DEF Fetch
  <2> QED
    BY <1>2, <1>5, <2>1 DEF Fetch, SetTemp
<1>6. CASE WriteScene(o)
  <2>1. Active(o) /\ \E data : SetTemp(o, data)
    BY <1>6 DEF WriteScene, Active
  <2> QED
    BY <1>2, <1>3, <1>6, <2>1 DEF WriteScene, SetTemp
<1>7. CASE CheckSize(o)
  BY <1>2, <1>7 DEF CheckSize, fileVars
<1>8. CASE LoadScene(o)
  BY <1>2, <1>8 DEF LoadScene, fileVars
<1>9. CASE RenderAndSave(o)
  <2>1. Active(o)
    BY <1>9 DEF RenderAndSave, Active
  <2> QED
    BY <1>2, <1>3, <1>9, <2>1 DEF RenderAndSave
<1>10. CASE RemoveTemp(o)
  <2>1. Active(o)
    BY <1>10 DEF RemoveTemp, Active
  <2> QED
    BY <1>2, <1>3, <1>10, <2>1 DEF RemoveTemp, SetTemp
<1>11. CASE PutImage(o)
  BY <1>2, <1>11 DEF PutImage
<1>12. CASE RemoveOutput(o)
  <2>1. Active(o)
    BY <1>12 DEF RemoveOutput, Active
  <2> QED
    BY <1>2, <1>3, <1>12, <2>1 DEF RemoveOutput
<1>13. CASE Fail(o)
  BY <1>2, <1>13 DEF Fail, fileVars
<1> QED
  BY <1>4, <1>5, <1>6, <1>7, <1>8, <1>9, <1>10, <1>11, <1>12, <1>13 DEF Handle

(* Only fetching makes a handler busy, and it looks who else is.           *)
LEMMA MeetingIsNoticed ==
    ASSUME FilesInv, OwnInv, NEW o \in Handlers, Handle(o)
    PROVE  \A g, h \in Handlers :
             g # h /\ dir'[g] = dir'[h] /\ Active(g)' /\ Active(h)' => g \in shared'
<1> USE DEF FilesInv, At, Go
<1>1. dir' = dir
  BY DEF Handle, Submit, Fetch, WriteScene, CheckSize, LoadScene,
         RenderAndSave, RemoveTemp, PutImage, RemoveOutput, Fail
<1>2. CASE Fetch(o)
  <2>1. \A g \in Handlers : g # o => pc'[g] = pc[g]
    BY <1>2 DEF Fetch
  <2>2. shared \subseteq shared'
        /\ \A g \in Handlers :
             g # o /\ dir[g] = dir[o] /\ Active(g) => g \in shared' /\ o \in shared'
    BY <1>2 DEF Fetch
  <2> QED
    BY <1>1, <2>1, <2>2 DEF OwnInv, Active
<1>3. CASE ~ Fetch(o)
  <2>1. shared \subseteq shared'
    BY DEF Handle, Submit, Fetch, WriteScene, CheckSize, LoadScene,
           RenderAndSave, RemoveTemp, PutImage, RemoveOutput, Fail, fileVars
  <2>2. \A g \in Handlers : Active(g)' => Active(g)
    BY <1>3 DEF Handle, Submit, WriteScene, CheckSize, LoadScene,
           RenderAndSave, RemoveTemp, PutImage, RemoveOutput, Fail, Active
  <2> QED
    BY <1>1, <2>1, <2>2 DEF OwnInv
<1> QED
  BY <1>2, <1>3

(* A handler's own step.                                                   *)
LEMMA OwnStep ==
    ASSUME UploadInv, FilesInv, OwnInv, NEW h \in Handlers, Handle(h),
           h \notin shared' \cup silent'
    PROVE  /\ pc'[h] \in {"cleanup", "put"} =>
                out'[dir'[h]].by = h /\ out'[dir'[h]] # NoImage
           /\ frames'[h] # NoImage => frames'[h].by = h
<1>1. h \notin shared \cup silent
  BY DEF Handle, Submit, Fetch, WriteScene, CheckSize, LoadScene,
         RenderAndSave, RemoveTemp, PutImage, RemoveOutput, Fail, fileVars
<1>2. /\ pc[h] \in {"cleanup", "put"} =>
                out[dir[h]].by = h /\ out[dir[h]] # NoImage
      /\ frames[h] # NoImage => frames[h].by = h
  BY <1>1 DEF OwnInv
<1> USE DEF FilesInv, At, Go
<1>3. CASE RenderAndSave(h)
  <2>1. out' = [out EXCEPT ![dir[h]] = [by |-> h, scene |-> loaded[h]]]
    BY <1>3 DEF RenderAndSave
  <2>2. out'[dir[h]] = [by |-> h, scene |-> loaded[h]] /\ loaded[h] # NoData
    BY <1>3, <2>1 DEF RenderAndSave
  <2>3. out'[dir[h]].by = h /\ out'[dir[h]].scene # NoData /\ NoImage.scene = NoData
    BY <2>2 DEF NoImage
  <2> QED
    BY <1>2, <1>3, <2>3 DEF RenderAndSave
<1>4. CASE RemoveTemp(h)
  BY <1>2, <1>4 DEF RemoveTemp
<1>5. CASE PutImage(h)
  BY <1>2, <1>5 DEF PutImage
<1>6. CASE ~ RenderAndSave(h) /\ ~ RemoveTemp(h) /\ ~ PutImage(h)
  <2>1. frames' = frames /\ pc'[h] \notin {"cleanup", "put"}
    BY <1>6 DEF Handle, Submit, Fetch, WriteScene, CheckSize, LoadScene,
           RemoveOutput, Fail, fileVars
  <2> QED
    BY <1>2, <2>1
<1> QED
  BY <1>3, <1>4, <1>5, <1>6

LEMMA OwnNext ==
    UploadInv /\ FilesInv /\ OwnInv /\ [Next]_vars => OwnInv'
<1> SUFFICES ASSUME UploadInv, FilesInv, OwnInv, [Next]_vars PROVE OwnInv'
  OBVIOUS
<1>1. ASSUME NEW o \in Handlers, Handle(o) PROVE OwnInv'
  <2>1. ASSUME NEW h \in Handlers, h \notin shared' \cup silent'
        PROVE  /\ pc'[h] \in {"cleanup", "put"} =>
                    out'[dir'[h]].by = h /\ out'[dir'[h]] # NoImage
               /\ frames'[h] # NoImage => frames'[h].by = h
    <3>1. CASE h = o
      BY <1>1, <2>1, <3>1, OwnStep
    <3>2. CASE h # o
      BY <1>1, <2>1, <3>2, OthersStep DEF OwnInv, Active
    <3> QED
      BY <3>1, <3>2
  <2> QED
    BY <1>1, <2>1, MeetingIsNoticed DEF OwnInv
<1>2. CASE /\ UNCHANGED <<job, dir, fetched, loaded, fileVars>>
           /\ \/ UNCHANGED pc
              \/ \A h \in Handlers :
                   pc'[h] = pc[h] \/ (pc[h] = "queued" /\ pc'[h] = "idle")
  <2>1. \A h \in Handlers :
            pc'[h] = pc[h] \/ (pc[h] = "queued" /\ pc'[h] = "idle")
    BY <1>2
  <2>2. UNCHANGED <<dir, out, frames, shared, silent>>
    BY <1>2 DEF fileVars
  <2> QED
    BY <2>1, <2>2 DEF OwnInv, Active
<1> QED
  BY <1>1, <1>2, SchedulerSteps

(* The frame of a handler that met nobody is its own image, although       *)
(* handlers that failed leave theirs under the same name.                  *)
THEOREM FramesAreTheirOwn == Spec => []FramesAreOwn
<1>1. Init => UploadInv /\ FilesInv /\ OwnInv
  BY UploadInvInit, FilesInvInit, OwnInit
<1>2. /\ UploadInv /\ FilesInv /\ OwnInv
      /\ [Next]_vars
      => (UploadInv /\ FilesInv /\ OwnInv)'
  BY UploadInvNext, FilesInvNext, OwnNext
<1>3. OwnInv => FramesAreOwn
  BY DEF OwnInv, FramesAreOwn
<1> QED
  BY <1>1, <1>2, <1>3, PTL DEF Spec

-----------------------------------------------------------------------------
(* What a frame shows.  As long as the scheduler has not restarted, a      *)
(* private name a job was made for stays listed, and so its object is the  *)
(* one it was; from there the data goes into the file, the scene, the      *)
(* image and the frame, one after the other.                               *)

JobIsCurrent(h) ==
    /\ Listed(job[h].name)
    /\ job[h].key = KeyOf(job[h].name)
    /\ objects[KeyOf(job[h].name)] = job[h].data

DataIsPassedOn(h) ==
    /\ pc[h] = "write" => fetched[h] = job[h].data /\ TempOf(h) = Blank
    /\ pc[h] \in {"check", "load"} => TempOf(h) = job[h].data
    /\ pc[h] = "render" => loaded[h] = job[h].data
    /\ pc[h] \in {"cleanup", "put"} => out[dir[h]].scene = job[h].data
    /\ frames[h] # NoImage => frames[h].scene = job[h].data

ShowInv ==
    /\ restarts \in Nat
    /\ restarts = 0 =>
        \A h \in Handlers : pc[h] # "idle" /\ job[h].name \in PrivateNames =>
            /\ JobIsCurrent(h)
            /\ h \notin shared \cup silent => DataIsPassedOn(h)

LEMMA ShowInit == Init => ShowInv
BY DEF Init, UploadInit, ShowInv

(* Uploads leave what a listed private name stands for as it is.           *)
LEMMA ListedStaysListed ==
    ASSUME UploadInv, [Next]_vars, ~ Restart, NEW n \in PrivateNames, Listed(n)
    PROVE  Listed(n)' /\ objects'[KeyOf(n)] = objects[KeyOf(n)]
<1>1. CASE \E u \in Uploads : Receive(u)
  BY <1>1 DEF Receive, Listed
<1>2. CASE PutScene
  <2>1. Listed(n)' /\ Shown(n)' = Shown(n)
    BY <1>2, PutSceneStutters, PutSceneObjects DEF Listed
  <2>2. Shown(n) = objects[KeyOf(n)] /\ Shown(n)' = objects'[KeyOf(n)]
    BY <2>1, KeyIsConstant DEF Shown
  <2> QED
    BY <2>1, <2>2
<1>3. CASE AddScene
  BY <1>3, AddSceneList DEF Listed
<1>4. CASE UNCHANGED uploadVars
  BY <1>4 DEF uploadVars, Listed
<1> QED
  BY <1>1, <1>2, <1>3, <1>4, UploadSteps

(* The job of a handler that keeps it stays current.                       *)
LEMMA JobStaysCurrent ==
    ASSUME UploadInv, [Next]_vars, ~ Restart, NEW h \in Handlers,
           job[h].name \in PrivateNames, job'[h] = job[h], JobIsCurrent(h)
    PROVE  JobIsCurrent(h)'
<1>1. PICK n \in PrivateNames : n = job[h].name
  OBVIOUS
<1>2. Listed(n)' /\ objects'[KeyOf(n)] = objects[KeyOf(n)]
  BY <1>1, ListedStaysListed DEF JobIsCurrent
<1>3. n = job'[h].name
  BY <1>1
<1> QED
  BY <1>1, <1>2, <1>3 DEF JobIsCurrent

LEMMA SubmittedJobIsCurrent ==
    ASSUME UploadInv, FilesInv, NEW h \in Handlers, Submit(h),
           job'[h].name \in PrivateNames
    PROVE  JobIsCurrent(h)'
<1>1. PICK s \in scenes :
          job' = [job EXCEPT ![h] = [name |-> s[1], key |-> s[2],
                                     data |-> objects[s[2]]]]
  BY DEF Submit
<1>2. job'[h] = [name |-> s[1], key |-> s[2], data |-> objects[s[2]]]
  BY <1>1 DEF FilesInv
<1>3. UNCHANGED <<scenes, objects>>
  BY DEF Submit, uploadVars
<1>4. PICK u \in Uploads : s = <<NameOf[u], SceneKey(u)>>
  BY DEF UploadInv
<1>5. PICK n \in PrivateNames : n = s[1]
  BY <1>2
<1>6. KeyOf(n) = s[2]
  BY <1>4, <1>5, KeyOfName
<1>7. Listed(n)' /\ n = job'[h].name
  BY <1>2, <1>3, <1>5 DEF Listed
<1> QED
  BY <1>2, <1>3, <1>5, <1>6, <1>7 DEF JobIsCurrent

(* A handler's own step passes the data on.                                *)
LEMMA OwnStepPassesOn ==
    ASSUME UploadInv, FilesInv, OwnInv, NEW h \in Handlers, Handle(h),
           h \notin shared' \cup silent',
           pc[h] # "idle" => JobIsCurrent(h) /\ DataIsPassedOn(h)
    PROVE  DataIsPassedOn(h)'
<1> USE DEF FilesInv, At, Go, TempOf, DataIsPassedOn
<1>1. CASE Submit(h)
  BY <1>1 DEF Submit, fileVars
<1>2. /\ ~ Submit(h) => pc[h] # "idle" /\ dir' = dir /\ job' = job
      /\ h \notin shared \cup silent
  BY DEF Handle, Submit, Fetch, WriteScene, CheckSize, LoadScene, Active,
         RenderAndSave, RemoveTemp, PutImage, RemoveOutput, Fail, fileVars
<1>3. CASE Fetch(h)
  <2>1. job[h].key \in Keys /\ objects[job[h].key] = job[h].data
    BY <1>3 DEF Fetch, JobIsCurrent, Jobs
  <2>2. fetched'[h] = job[h].data /\ temp'[dir[h]][job[h].key] = Blank
    BY <1>3, <2>1 DEF Fetch, SetTemp
  <2> QED
    BY <1>3, <2>2 DEF Fetch
<1>4. CASE WriteScene(h)
  <2>1. job[h].key \in Keys /\ SetTemp(h, fetched[h])
    BY <1>4 DEF WriteScene, Jobs
  <2>2. temp'[dir[h]][job[h].key] = job[h].data
    BY <1>4, <2>1 DEF WriteScene, SetTemp
  <2> QED
    BY <1>4, <2>2 DEF WriteScene
<1>5. CASE CheckSize(h)
  BY <1>5 DEF CheckSize, fileVars
<1>6. CASE LoadScene(h)
  BY <1>6 DEF LoadScene, fileVars
<1>7. CASE RenderAndSave(h)
  <2>1. out'[dir[h]] = [by |-> h, scene |-> loaded[h]]
    BY <1>2, <1>7 DEF RenderAndSave
  <2> QED
    BY <1>7, <2>1 DEF RenderAndSave
<1>8. CASE RemoveTemp(h)
  BY <1>8 DEF RemoveTemp
<1>9. CASE PutImage(h)
  <2>1. out[dir[h]] # NoImage
    BY <1>2, <1>9 DEF OwnInv, PutImage
  <2> QED
    BY <1>9, <2>1 DEF PutImage
<1>10. CASE RemoveOutput(h)
  BY <1>10 DEF RemoveOutput
<1>11. CASE Fail(h)
  BY <1>11 DEF Fail, fileVars
<1> QED
  BY <1>1, <1>3, <1>4, <1>5, <1>6, <1>7, <1>8, <1>9, <1>10, <1>11 DEF Handle

LEMMA ShowNext ==
    UploadInv /\ FilesInv /\ OwnInv /\ ShowInv /\ [Next]_vars => ShowInv'
<1> SUFFICES ASSUME UploadInv, FilesInv, OwnInv, ShowInv, [Next]_vars
             PROVE  ShowInv'
  OBVIOUS
<1>1. CASE Restart
  BY <1>1 DEF Restart, ShowInv
<1>2. CASE ~ Restart
  <2>1. restarts' = restarts
    BY <1>2, UploadSteps DEF Receive, PutScene, AddScene, uploadVars
  <2> SUFFICES ASSUME restarts = 0, NEW h \in Handlers, pc'[h] # "idle",
                      job'[h].name \in PrivateNames
               PROVE  /\ JobIsCurrent(h)'
                      /\ h \notin shared' \cup silent' => DataIsPassedOn(h)'
    BY <2>1 DEF ShowInv
  <2>2. ASSUME pc[h] # "idle", job'[h] = job[h]
        PROVE  JobIsCurrent(h)' /\ JobIsCurrent(h)
               /\ (h \notin shared \cup silent => DataIsPassedOn(h))
    BY <1>2, <2>2, JobStaysCurrent DEF ShowInv
  <2>3. ASSUME Handle(h)
        PROVE  /\ JobIsCurrent(h)'
               /\ h \notin shared' \cup silent' => DataIsPassedOn(h)'
    <3>1. CASE Submit(h)
      <4>1. pc[h] = "idle"
        BY <3>1 DEF Submit, At
      <4> QED
        BY <2>3, <3>1, <4>1, SubmittedJobIsCurrent, OwnStepPassesOn
    <3>2. CASE ~ Submit(h)
      <4>1. /\ pc[h] # "idle" /\ job' = job
            /\ shared \subseteq shared' /\ silent \subseteq silent'
        BY <2>3, <3>2 DEF Handle, Fetch, WriteScene, CheckSize, LoadScene,
           RenderAndSave, RemoveTemp, PutImage, RemoveOutput, Fail, fileVars,
           At, Active
      <4> QED
        BY <2>2, <2>3, <4>1, OwnStepPassesOn
    <3> QED
      BY <3>1, <3>2
  <2>4. ASSUME NEW o \in Handlers, o # h, Handle(o)
        PROVE  /\ JobIsCurrent(h)'
               /\ h \notin shared' \cup silent' => DataIsPassedOn(h)'
    <3>1. pc'[h] = pc[h] /\ job'[h] = job[h]
      BY <2>4 DEF Handle, Submit, Fetch, WriteScene, CheckSize, LoadScene,
           RenderAndSave, RemoveTemp, PutImage, RemoveOutput, Fail, Go, FilesInv
    <3>2. ASSUME h \notin shared' \cup silent' PROVE DataIsPassedOn(h)'
      <4>1. /\ h \notin shared \cup silent /\ dir' = dir
            /\ fetched'[h] = fetched[h] /\ loaded'[h] = loaded[h]
            /\ frames'[h] = frames[h]
            /\ Active(h) => /\ temp'[dir[h]] = temp[dir[h]]
                            /\ out'[dir[h]] = out[dir[h]]
        BY <2>4, <3>2, OthersStep
      <4> QED
        BY <2>2, <3>1, <4>1 DEF DataIsPassedOn, TempOf, Active
    <3> QED
      BY <2>2, <3>1, <3>2
  <2>5. CASE UNCHANGED <<pc, job, dir, fetched, loaded, fileVars>>
    <3>1. pc[h] # "idle" /\ job'[h] = job[h]
      BY <2>5
    <3>2. DataIsPassedOn(h) => DataIsPassedOn(h)'
      BY <2>5 DEF DataIsPassedOn, TempOf, fileVars
    <3> QED
      BY <2>2, <2>5, <3>1, <3>2 DEF fileVars
  <2> QED
    BY <1>2, <2>3, <2>4, <2>5, SchedulerSteps
<1> QED
  BY <1>1, <1>2

(* A frame shows the scene that was listed under its private name when it  *)
(* was requested, whatever is uploaded, fails or is left behind meanwhile, *)
(* unless the list is lost.                                                *)
THEOREM FramesAreOfTheListedScene == Spec => []FramesShowTheListedScene
<1>1. Init => UploadInv /\ FilesInv /\ OwnInv /\ ShowInv
  BY UploadInvInit, FilesInvInit, OwnInit, ShowInit
<1>2. /\ UploadInv /\ FilesInv /\ OwnInv /\ ShowInv
      /\ [Next]_vars
      => (UploadInv /\ FilesInv /\ OwnInv /\ ShowInv)'
  BY UploadInvNext, FilesInvNext, OwnNext, ShowNext
<1>3. FilesInv /\ ShowInv => FramesShowTheListedScene
  BY DEF FilesInv, ShowInv, DataIsPassedOn, FramesShowTheListedScene
<1> QED
  BY <1>1, <1>2, <1>3, PTL DEF Spec
=============================================================================
