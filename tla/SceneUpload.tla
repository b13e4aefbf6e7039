---------------------------- MODULE SceneUpload ----------------------------
(***************************************************************************)
(* POST /scenes: the scheduler's HTTP thread checks the display name,      *)
(* writes the scene to a temporary file, puts that into the bucket under a *)
(* key made of the name, and lists the scene.  There is one HTTP thread    *)
(* (drogon's default), so requests do not overlap; workers read the bucket *)
(* meanwhile, and the scheduler may die and restart with an empty list.    *)
(*                                                                         *)
(* A name is a sequence of characters; a scene's data is the request that  *)
(* brought it.                                                             *)
(***************************************************************************)
EXTENDS Integers, Sequences, FiniteSets

CONSTANTS
    Uploads,    \* upload requests
    NameOf,     \* scene_name of each, << >> when it is missing
    FileNameOf, \* scene_file_name
    NoData,     \* no such object or file
    MaxRestarts \* bound on the scheduler's restarts

ASSUME UploadsAssumption ==
    /\ NoData \notin Uploads
    /\ MaxRestarts \in Nat

VARIABLES
    scenes,   \* SceneList: <<display name, key>> pairs, one per name
    objects,  \* the scene objects of the bucket, by key
    current,  \* the request the HTTP thread works on, or NoData
    stage,    \* how far it is: "idle", "put", "list"
    answered, \* requests that are over
    restarts

uploadVars == <<scenes, objects, current, stage, answered, restarts>>

(* sceneNameS3.                                                            *)
SceneKey(u) ==
    LET name == SelectSeq(NameOf[u], LAMBDA c : c # ".")
    IN IF NameOf[u] = << >> THEN FileNameOf[u]
       ELSE [i \in DOMAIN name |->
                CASE name[i] = " " -> "_"
                  [] name[i] = "/" -> "-"
                  [] OTHER -> name[i]] \o <<".gltf">>

Keys == {SceneKey(u) : u \in Uploads}

UploadInit ==
    /\ scenes = {}
    /\ objects = [k \in Keys |-> NoData]
    /\ current = NoData
    /\ stage = "idle"
    /\ answered = {}
    /\ restarts = 0

Listed(name) == \E s \in scenes : s[1] = name

(* Mutant: the thread still works on the answered request.                 *)
AnswerStuck(u) ==
    /\ answered' = answered \cup {u}
    /\ current' = NoData
    /\ UNCHANGED stage

Answer(u) ==
    /\ answered' = answered \cup {u}
    /\ current' = NoData
    /\ stage' = "idle"

(* Mutant: the name is not looked up.                                      *)
NameIsFreeAlways(u) == TRUE

(* findSceneByKey.                                                         *)
NameIsFree(u) == ~ Listed(NameOf[u])

(* The name is looked up and the data written to tmp.gltf, which the next  *)
(* request rewrites.  Writing may fail, and always does for an empty       *)
(* scene: inserting an empty stream sets failbit.                          *)
Receive(u) ==
    /\ current = NoData /\ u \notin answered
    /\ \/ NameIsFree(u) /\ current' = u /\ stage' = "put" /\ UNCHANGED answered
       \/ Answer(u)
    /\ UNCHANGED <<scenes, objects, restarts>>

(* Mutant: what putObject returns is not looked at.                        *)
PutSceneUnchecked ==
    /\ stage = "put"
    /\ \/ objects' = [objects EXCEPT ![SceneKey(current)] = current]
       \/ UNCHANGED objects
    /\ stage' = "list"
    /\ UNCHANGED <<scenes, current, answered, restarts>>

(* putObject, which overwrites.  A call that fails may have stored the     *)
(* object all the same: the answer got lost.                               *)
PutScene ==
    /\ stage = "put"
    /\ \/ /\ SceneKey(current) # << >>
          /\ objects' = [objects EXCEPT ![SceneKey(current)] = current]
          /\ \/ stage' = "list" /\ UNCHANGED <<current, answered>>
             \/ Answer(current)
       \/ /\ Answer(current)
          /\ UNCHANGED objects
    /\ UNCHANGED <<scenes, restarts>>

(* addScene refuses a scene without a display name; emplace keeps an entry *)
(* that is there.                                                          *)
AddScene ==
    /\ stage = "list"
    /\ Answer(current)
    /\ scenes' = IF NameOf[current] = << >> \/ Listed(NameOf[current])
                 THEN scenes
                 ELSE scenes \cup {<<NameOf[current], SceneKey(current)>>}
    /\ UNCHANGED <<objects, restarts>>

(* The scheduler's process dies at any point of a request and starts anew. *)
Restart ==
    /\ restarts < MaxRestarts
    /\ restarts' = restarts + 1
    /\ scenes' = {}
    /\ IF current = NoData THEN UNCHANGED <<current, stage, answered>>
       ELSE Answer(current)
    /\ UNCHANGED objects

UploadNext == (\E u \in Uploads : Receive(u)) \/ PutScene \/ AddScene

-----------------------------------------------------------------------------
(* Names whose key no request with another name can have.                  *)
PrivateNames ==
    {n \in {NameOf[u] : u \in Uploads} \ {<< >>} :
        \A u, v \in Uploads :
            NameOf[u] = n /\ SceneKey(v) = SceneKey(u) => NameOf[v] = n}

KeyOf(n) == SceneKey(CHOOSE u \in Uploads : NameOf[u] = n)

Catalogue == INSTANCE SceneCatalogue WITH
    Names <- PrivateNames,
    Data <- Uploads,
    entries <- [n \in PrivateNames |->
                    IF Listed(n) THEN objects[KeyOf(n)] ELSE NoData]

(* Uploading implements the catalogue for private names: a listed scene is *)
(* never replaced, whatever fails, is retried or restarts.                 *)
ImplementsCatalogue == Catalogue!Spec

(* A scene that GET /scenes shows is in the bucket, so that a render of it *)
(* does not fail for want of its file; shared names included.              *)
ListedScenesAreStored == \A s \in scenes : objects[s[2]] # NoData
=============================================================================
