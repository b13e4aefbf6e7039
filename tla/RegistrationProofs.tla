------------------------- MODULE RegistrationProofs -------------------------
(***************************************************************************)
(* What registration without a lock around lookup and append does promise. *)
(* A worker that serves is on the list.  A name gets a second entry only   *)
(* if a lookup falls between another handler's lookup and the end of its   *)
(* append.  And such an entry is out of everybody's reach.                 *)
(***************************************************************************)
EXTENDS Registration, WellFoundedInduction, TLAPS

HasEntry(id) == \E i \in DOMAIN workers : workers[i].id = id

(* No lookup runs while an entry is appended, or while another handler of  *)
(* its name has looked and not yet appended: what one critical section of  *)
(* workers_mutex_ around both would ensure.                                *)
LookUpIsAlone ==
    \A c \in Calls : LookUp(c) =>
        ~ Locked /\ \A d \in Calls : stage[d] = "missed" => IdOf(d) # IdOf(c)

(* A process that serves has an entry under its name.                      *)
ServingWorkersAreListed ==
    \A p \in Processes : proc[p] = "serving" => HasEntry(NameOf[p])

(* The list only grows, and an entry behind another one of its name stays  *)
(* as it is: no reconnect and no Disconnect reaches it.                    *)
SecondEntriesStay ==
    /\ DOMAIN workers \subseteq DOMAIN workers'
    /\ \A k \in DOMAIN workers :
         (\E i \in 1 .. k - 1 : workers[i].id = workers[k].id) =>
            workers'[k] = workers[k]

-----------------------------------------------------------------------------
(* Types.                                                                  *)

LookedUp == {"missed", "appending"}

(* A call that was made has a caller.                                      *)
CallersAreKnown ==
    \A c \in Calls : stage[c] # "none" => caller[c] \in Processes

Types == TypeOK /\ CallersAreKnown

LEMMA TypesInit == Init => Types
BY DEF Init, Types, TypeOK, CallersAreKnown

LEMMA StatusKeepsEntries ==
    ASSUME TypeOK, NEW id, NEW s \in WorkerStatus, SetStatus(id, s)
    PROVE  /\ workers' \in Seq([id : {NameOf[p] : p \in Processes},
                                address : Processes, status : WorkerStatus])
           /\ DOMAIN workers' = DOMAIN workers
           /\ \A i \in DOMAIN workers : workers'[i].id = workers[i].id
<1> DEFINE Entry == [id : {NameOf[p] : p \in Processes}, address : Processes,
                     status : WorkerStatus]
           k == FindWorkerByID(id)
<1>1. workers \in Seq(Entry)
  BY DEF TypeOK
<1>2. CASE workers' = workers
  BY <1>1, <1>2
<1>3. CASE workers' = [workers EXCEPT ![k].status = s]
  <2> DEFINE e == [workers[k] EXCEPT !.status = s]
  <2>1. workers[k] \in Entry => e \in Entry /\ e.id = workers[k].id
    OBVIOUS
  <2>2. workers' = [workers EXCEPT ![k] = e]
    BY <1>3
  <2> HIDE DEF e, k, Entry
  <2>3. \A i \in DOMAIN workers : workers[i] \in Entry
    BY <1>1
  <2>4. \A i \in DOMAIN workers : workers'[i] = IF i = k THEN e ELSE workers[i]
    BY <1>1, <2>2
  <2>5. \A i \in DOMAIN workers : /\ workers'[i] \in Entry
                                   /\ workers'[i].id = workers[i].id
    BY <2>1, <2>3, <2>4
  <2>6. DOMAIN workers' = DOMAIN workers /\ DOMAIN workers = 1 .. Len(workers)
        /\ Len(workers) \in Nat
    BY <1>1, <2>2
  <2>7. workers' \in [1 .. Len(workers) -> Entry]
    <3>1. workers' = [i \in 1 .. Len(workers) |-> workers'[i]]
      BY <2>2, <2>6
    <3>2. QED
      BY <2>5, <2>6, <3>1
  <2>8. workers' \in Seq(Entry)
    BY <2>6, <2>7
  <2>9. QED
    BY <2>5, <2>6, <2>8 DEF Entry
<1>4. QED
  BY <1>2, <1>3 DEF SetStatus

(* What a step does to the list: nothing, a status, or an entry more.      *)
LEMMA StepOfList ==
    ASSUME Types, [Next]_vars
    PROVE  \/ UNCHANGED workers
           \/ \E p \in Processes, s \in WorkerStatus : SetStatus(NameOf[p], s)
           \/ \E c \in Calls : RegisterEnd(c)
<1>1. ASSUME NEW c \in Calls, Reconnect(c)
      PROVE  \E p \in Processes, s \in WorkerStatus : SetStatus(NameOf[p], s)
  <2>1. caller[c] \in Processes
    BY <1>1 DEF Types, CallersAreKnown, Reconnect
  <2>2. SetStatus(NameOf[caller[c]], "IDLE") /\ "IDLE" \in WorkerStatus
    BY <1>1 DEF Reconnect, IdOf, WorkerStatus
  <2>3. QED
    BY <2>1, <2>2
<1>2. ASSUME NEW p \in Processes, Disconnect(p)
      PROVE  \/ UNCHANGED workers
             \/ SetStatus(NameOf[p], "OFFLINE") /\ "OFFLINE" \in WorkerStatus
  BY <1>2 DEF Disconnect, WorkerStatus
<1>3. ASSUME NEW p \in Processes, Start(p) \/ Crash(p)
      PROVE  UNCHANGED workers
  BY <1>3 DEF Start, Crash
<1>4. ASSUME NEW c \in Calls, LookUp(c) \/ RegisterBegin(c) \/ Answer(c)
      PROVE  UNCHANGED workers
  BY <1>4 DEF LookUp, RegisterBegin, Answer
<1>5. QED
  BY <1>1, <1>2, <1>3, <1>4 DEF Next, vars

LEMMA AppendedEntry ==
    ASSUME Types, NEW c \in Calls, RegisterEnd(c)
    PROVE  /\ workers' \in Seq([id : {NameOf[p] : p \in Processes},
                                address : Processes, status : WorkerStatus])
           /\ DOMAIN workers' = DOMAIN workers \cup {Len(workers) + 1}
           /\ \A i \in DOMAIN workers : workers'[i] = workers[i]
           /\ workers'[Len(workers) + 1].id = IdOf(c)
<1> DEFINE Entry == [id : {NameOf[p] : p \in Processes}, address : Processes,
                     status : WorkerStatus]
           e == [id |-> IdOf(c), address |-> caller[c], status |-> "IDLE"]
<1>1. workers \in Seq(Entry)
  BY DEF Types, TypeOK
<1>2. caller[c] \in Processes
  BY DEF Types, CallersAreKnown, RegisterEnd
<1>3. e \in Entry /\ e.id = IdOf(c)
  BY <1>2 DEF IdOf, WorkerStatus
<1>4. workers' = Append(workers, e)
  BY DEF RegisterEnd
<1> HIDE DEF e, Entry
<1>5. workers' \in Seq(Entry) /\ Len(workers') = Len(workers) + 1
      /\ (\A i \in DOMAIN workers : workers'[i] = workers[i])
      /\ workers'[Len(workers) + 1] = e
  BY <1>1, <1>3, <1>4
<1>6. DOMAIN workers' = DOMAIN workers \cup {Len(workers) + 1}
  BY <1>1, <1>5
<1>7. QED
  BY <1>3, <1>5, <1>6 DEF Entry

(* The list keeps its entries and their names.                             *)
LEMMA ListGrows ==
    ASSUME Types, [Next]_vars
    PROVE  /\ workers' \in Seq([id : {NameOf[p] : p \in Processes},
                                address : Processes, status : WorkerStatus])
           /\ DOMAIN workers \subseteq DOMAIN workers'
           /\ \A i \in DOMAIN workers : workers'[i].id = workers[i].id
           /\ \A id : HasEntry(id) => HasEntry(id)'
<1>1. /\ workers' \in Seq([id : {NameOf[p] : p \in Processes},
                           address : Processes, status : WorkerStatus])
      /\ DOMAIN workers \subseteq DOMAIN workers'
      /\ \A i \in DOMAIN workers : workers'[i].id = workers[i].id
  <2>1. CASE UNCHANGED workers
    BY <2>1 DEF Types, TypeOK
  <2>2. CASE \E p \in Processes, s \in WorkerStatus : SetStatus(NameOf[p], s)
    <3>1. PICK p \in Processes, s \in WorkerStatus : SetStatus(NameOf[p], s)
      BY <2>2
    <3>2. QED
      BY <3>1, StatusKeepsEntries DEF Types
  <2>3. CASE \E c \in Calls : RegisterEnd(c)
    BY <2>3, AppendedEntry
  <2>4. QED
    BY <2>1, <2>2, <2>3, StepOfList
<1>2. \A id : HasEntry(id) => HasEntry(id)'
  BY <1>1 DEF HasEntry
<1>3. QED
  BY <1>1, <1>2

LEMMA TypesNext == Types /\ [Next]_vars => Types'
<1> SUFFICES ASSUME Types, [Next]_vars PROVE Types'
  OBVIOUS
<1> USE DEF Types, TypeOK, CallersAreKnown
<1>1. workers' \in Seq([id : {NameOf[p] : p \in Processes},
                        address : Processes, status : WorkerStatus])
  BY ListGrows
<1>2. ASSUME NEW p \in Processes, Start(p) PROVE Types'
  BY <1>1, <1>2 DEF Start
<1>3. ASSUME NEW p \in Processes, Disconnect(p) \/ Crash(p) PROVE Types'
  BY <1>1, <1>3 DEF Disconnect, Crash
<1>4. ASSUME NEW c \in Calls, LookUp(c) \/ RegisterBegin(c) \/ RegisterEnd(c)
                               \/ Reconnect(c)
      PROVE  Types'
  BY <1>1, <1>4 DEF LookUp, RegisterBegin, RegisterEnd, Reconnect
<1>5. ASSUME NEW c \in Calls, Answer(c) PROVE Types'
  <2>1. proc' \in [Processes -> {"down", "serving"} \cup Calls]
    BY <1>5 DEF Answer
  <2>2. QED
    BY <1>1, <1>5, <2>1 DEF Answer
<1>6. CASE UNCHANGED vars
  BY <1>1, <1>6 DEF vars
<1>7. QED
  BY <1>2, <1>3, <1>4, <1>5, <1>6 DEF Next

(* Roster, handlers and processes have the values the code gives them, for *)
(* any processes, names and calls (EstablishConnection, Disconnect).       *)
THEOREM RegistrationTypeCorrect == Spec => []TypeOK
<1>1. Types => TypeOK
  BY DEF Types
<1>2. QED
  BY <1>1, TypesInit, TypesNext, PTL DEF Spec

-----------------------------------------------------------------------------
(* A worker that serves is on the list.                                    *)

(* A handler that found an entry, or is through, has one.                  *)
ListedInv ==
    /\ \A c \in Calls : stage[c] \in {"found", "answered", "ended"} =>
            HasEntry(IdOf(c))
    /\ ServingWorkersAreListed

LEMMA ListedNext ==
    ASSUME "serving" \notin Calls, Types, ListedInv, [Next]_vars
    PROVE  ListedInv'
<1>0. /\ \A id : HasEntry(id) => HasEntry(id)'
      /\ stage \in [Calls -> {"none", "sent", "missed", "appending", "found",
                               "answered", "ended"}]
      /\ caller \in [Calls -> Processes \cup {NoProcess}]
      /\ proc \in [Processes -> {"down", "serving"} \cup Calls]
      /\ \A c \in Calls : stage[c] # "none" => caller[c] \in Processes
  BY ListGrows DEF Types, TypeOK, CallersAreKnown
<1> USE DEF ListedInv, ServingWorkersAreListed, IdOf
<1>1. ASSUME NEW p \in Processes, Start(p) PROVE ListedInv'
  <2>1. PICK c \in Calls : /\ stage[c] = "none"
                           /\ stage' = [stage EXCEPT ![c] = "sent"]
                           /\ caller' = [caller EXCEPT ![c] = p]
                           /\ proc' = [proc EXCEPT ![p] = c]
    BY <1>1 DEF Start
  <2>2. \A d \in Calls : stage'[d] \in {"found", "answered", "ended"} =>
                             stage'[d] = stage[d] /\ caller'[d] = caller[d]
    BY <1>0, <2>1
  <2>3. \A q \in Processes : proc'[q] = "serving" => proc[q] = "serving"
    BY <1>0, <2>1
  <2>4. QED
    BY <1>0, <2>2, <2>3
<1>2. ASSUME NEW p \in Processes, Disconnect(p) \/ Crash(p) PROVE ListedInv'
  BY <1>0, <1>2 DEF Disconnect, Crash
<1>3. ASSUME NEW c \in Calls, LookUp(c) PROVE ListedInv'
  <2>1. stage'[c] = "found" => HasEntry(IdOf(c))
    BY <1>0, <1>3 DEF LookUp, FindWorkerByID, HasEntry
  <2>2. \A d \in Calls \ {c} : stage'[d] = stage[d]
    BY <1>0, <1>3 DEF LookUp
  <2>3. stage'[c] \in {"found", "missed"} /\ UNCHANGED <<caller, proc>>
    BY <1>0, <1>3 DEF LookUp
  <2>4. QED
    BY <1>0, <2>1, <2>2, <2>3
<1>4. ASSUME NEW c \in Calls, RegisterBegin(c) \/ Reconnect(c) PROVE ListedInv'
  BY <1>0, <1>4 DEF RegisterBegin, Reconnect
<1>5. ASSUME NEW c \in Calls, RegisterEnd(c) PROVE ListedInv'
  <2>1. HasEntry(IdOf(c))'
    <3>1. workers'[Len(workers) + 1].id = IdOf(c) /\ UNCHANGED caller
          /\ Len(workers) + 1 \in DOMAIN workers'
      BY <1>5, AppendedEntry DEF RegisterEnd
    <3>2. QED
      BY <3>1 DEF HasEntry
  <2>2. QED
    BY <1>0, <1>5, <2>1 DEF RegisterEnd
<1>6. ASSUME NEW c \in Calls, Answer(c) PROVE ListedInv'
  <2>1. caller[c] \in Processes /\ HasEntry(NameOf[caller[c]])
    BY <1>0, <1>6 DEF Answer
  <2>2. \A p \in Processes : proc'[p] = "serving" =>
            p = caller[c] \/ proc[p] = "serving"
    BY <1>0, <1>6, <2>1 DEF Answer
  <2>3. \A d \in Calls : stage'[d] \in {"found", "answered", "ended"} =>
            stage[d] \in {"found", "answered", "ended"}
    BY <1>0, <1>6 DEF Answer
  <2>4. UNCHANGED caller
    BY <1>6 DEF Answer
  <2>5. QED
    BY <1>0, <2>1, <2>2, <2>3, <2>4
<1>7. CASE UNCHANGED vars
  BY <1>0, <1>7 DEF vars
<1>8. QED
  BY <1>1, <1>2, <1>3, <1>4, <1>5, <1>6, <1>7 DEF Next

(* Whatever lookups miss and whichever handlers of dead processes go on, a *)
(* process that serves has an entry, so that the loop can hand it frames.  *)
THEOREM ServingWorkersHaveEntries ==
    "serving" \notin Calls => (Spec => []ServingWorkersAreListed)
<1> SUFFICES ASSUME "serving" \notin Calls
             PROVE  Spec => []ServingWorkersAreListed
  OBVIOUS
<1>1. Init => ListedInv
  BY DEF Init, ListedInv, ServingWorkersAreListed
<1>2. Types /\ ListedInv /\ [Next]_vars => ListedInv'
  BY ListedNext
<1>3. ListedInv => ServingWorkersAreListed
  BY DEF ListedInv
<1>4. QED
  BY <1>1, <1>2, <1>3, TypesInit, TypesNext, PTL DEF Spec

-----------------------------------------------------------------------------
(* A second entry is out of reach.                                         *)

(* A set of positions that is not empty has a first one.                   *)
LEMMA FirstPosition ==
    ASSUME NEW S \in SUBSET Nat, S # {}
    PROVE  \E m \in S : \A n \in S : m <= n
<1>1. IsWellFoundedOn(OpToRel(<, Nat), Nat)
  BY NatLessThanWellFounded
<1>2. PICK m \in S : \A n \in S : ~ (<<n, m>> \in OpToRel(<, Nat))
  BY <1>1, WFMin
<1>3. \A n \in S : m <= n
  <2>1. TAKE n \in S
  <2>2. ~ (<<n, m>> \in {pair \in Nat \X Nat : pair[1] < pair[2]})
    BY <1>2 DEF OpToRel
  <2>3. QED
    BY <2>2
<1>4. QED
  BY <1>3

LEMMA FoundIsFirst ==
    ASSUME TypeOK, NEW id, NEW i \in DOMAIN workers, workers[i].id = id
    PROVE  FindWorkerByID(id) <= i
<1> DEFINE Same == {n \in DOMAIN workers : workers[n].id = id}
<1>1. DOMAIN workers = 1 .. Len(workers) /\ Len(workers) \in Nat
  BY DEF TypeOK
<1>2. Same \in SUBSET Nat /\ i \in Same
  BY <1>1
<1>3. PICK m \in Same : \A n \in Same : m <= n
  BY <1>2, FirstPosition
<1>4. FindWorkerByID(id) = CHOOSE m0 \in Same : \A n \in Same : m0 <= n
  BY <1>2 DEF FindWorkerByID
<1> HIDE DEF Same
<1>5. \A n \in Same : FindWorkerByID(id) <= n
  BY <1>3, <1>4
<1>6. QED
  BY <1>2, <1>5

LEMMA FoundIsThere ==
    ASSUME TypeOK, NEW id
    PROVE  /\ FindWorkerByID(id) = 0 <=> ~ HasEntry(id)
           /\ FindWorkerByID(id) # 0 =>
                /\ FindWorkerByID(id) \in DOMAIN workers
                /\ workers[FindWorkerByID(id)].id = id
<1> DEFINE Same == {n \in DOMAIN workers : workers[n].id = id}
<1>1. DOMAIN workers = 1 .. Len(workers) /\ Len(workers) \in Nat
  BY DEF TypeOK
<1>2. Same = {} <=> ~ HasEntry(id)
  BY DEF HasEntry
<1>3. CASE Same = {}
  BY <1>2, <1>3 DEF FindWorkerByID
<1>4. CASE Same # {}
  <2>1. Same \in SUBSET Nat
    BY <1>1
  <2>2. PICK m \in Same : \A n \in Same : m <= n
    <3> HIDE DEF Same
    <3>1. QED
      BY <1>4, <2>1, FirstPosition
  <2>3. FindWorkerByID(id) = CHOOSE m0 \in Same : \A n \in Same : m0 <= n
    BY <1>4 DEF FindWorkerByID
  <2>4. FindWorkerByID(id) \in Same
    <3> HIDE DEF Same
    <3>1. QED
      BY <2>2, <2>3
  <2>5. FindWorkerByID(id) # 0
    BY <1>1, <2>4
  <2>6. QED
    BY <1>2, <1>4, <2>4, <2>5
<1>5. QED
  BY <1>3, <1>4

(* Reconnects and Disconnects go by name and reach the first entry of it   *)
(* (findWorkerByID): an entry behind another one of its name keeps its     *)
(* status for ever, whoever starts, stops or dies.                         *)
THEOREM SecondEntriesAreOutOfReach == Spec => [][SecondEntriesStay]_vars
<1>1. ASSUME Types, [Next]_vars PROVE SecondEntriesStay
  <2>1. DOMAIN workers \subseteq DOMAIN workers'
    BY <1>1, ListGrows
  <2> SUFFICES ASSUME NEW k \in DOMAIN workers, NEW i \in 1 .. k - 1,
                      workers[i].id = workers[k].id
               PROVE  workers'[k] = workers[k]
    BY <2>1 DEF SecondEntriesStay
  <2>2. CASE \E p \in Processes, s \in WorkerStatus : SetStatus(NameOf[p], s)
    <3>1. PICK p \in Processes, s \in WorkerStatus : SetStatus(NameOf[p], s)
      BY <2>2
    <3> DEFINE first == FindWorkerByID(NameOf[p])
    <3>2. DOMAIN workers = 1 .. Len(workers) /\ Len(workers) \in Nat
          /\ i \in DOMAIN workers
      BY <1>1 DEF Types, TypeOK
    <3>3. ASSUME first = k, first # 0 PROVE FALSE
      <4>1. workers[k].id = NameOf[p]
        BY <1>1, <3>3, FoundIsThere DEF Types
      <4>2. first <= i
        BY <1>1, <3>2, <4>1, FoundIsFirst DEF Types
      <4>3. QED
        BY <3>2, <3>3, <4>2
    <3> HIDE DEF first
    <3>4. \/ workers' = workers
          \/ first # 0 /\ \E e : workers' = [workers EXCEPT ![first] = e]
      BY <3>1 DEF SetStatus, first
    <3>5. QED
      BY <1>1, <3>2, <3>3, <3>4 DEF Types, TypeOK
  <2>3. CASE \E c \in Calls : RegisterEnd(c)
    BY <1>1, <2>3, AppendedEntry
  <2>4. QED
    BY <1>1, <2>2, <2>3, StepOfList
<1>2. QED
  BY <1>1, TypesInit, TypesNext, PTL DEF Spec

-----------------------------------------------------------------------------
(* What a second entry needs.                                              *)

(* Handlers that have not found an entry and not appended one yet are of   *)
(* different names, and their names are not on the list.                   *)
ApartInv ==
    /\ NoDuplicateWorker
    /\ \A c \in Calls : stage[c] \in LookedUp => ~ HasEntry(IdOf(c))
    /\ \A c, d \in Calls :
         stage[c] \in LookedUp /\ stage[d] \in LookedUp /\ IdOf(c) = IdOf(d)
            => c = d

LEMMA ApartNext ==
    ASSUME Types, ApartInv, [Next]_vars, [LookUpIsAlone]_vars
    PROVE  ApartInv'
<1>0. /\ stage \in [Calls -> {"none", "sent", "missed", "appending", "found",
                               "answered", "ended"}]
      /\ caller \in [Calls -> Processes \cup {NoProcess}]
  BY DEF Types, TypeOK
<1> USE DEF IdOf, LookedUp
<1>1. ASSUME /\ \A i \in DOMAIN workers : workers'[i].id = workers[i].id
             /\ DOMAIN workers' = DOMAIN workers
      PROVE  NoDuplicateWorker' /\ \A id : HasEntry(id)' <=> HasEntry(id)
  BY <1>1 DEF ApartInv, NoDuplicateWorker, HasEntry
<1>2. ASSUME NoDuplicateWorker', \A id : HasEntry(id)' <=> HasEntry(id),
             \A c \in Calls : stage'[c] \in LookedUp =>
                stage[c] \in LookedUp /\ caller'[c] = caller[c]
      PROVE  ApartInv'
  BY <1>2 DEF ApartInv
<1>3. ASSUME NEW p \in Processes, Start(p) PROVE ApartInv'
  <2>1. UNCHANGED workers
    BY <1>3 DEF Start
  <2>2. \A c \in Calls : stage'[c] \in LookedUp =>
            stage[c] \in LookedUp /\ caller'[c] = caller[c]
    BY <1>0, <1>3 DEF Start
  <2>3. QED
    BY <1>1, <1>2, <2>1, <2>2
<1>4. CASE \E p \in Processes, s \in WorkerStatus :
                SetStatus(NameOf[p], s) /\ UNCHANGED caller
                /\ \A c \in Calls : stage'[c] \in LookedUp => stage'[c] = stage[c]
  <2>1. /\ DOMAIN workers' = DOMAIN workers
        /\ \A i \in DOMAIN workers : workers'[i].id = workers[i].id
    BY <1>4, StatusKeepsEntries DEF Types
  <2>2. QED
    BY <1>1, <1>2, <1>4, <2>1
<1>5. ASSUME NEW c \in Calls, LookUp(c) PROVE ApartInv'
  <2>1. UNCHANGED <<workers, caller>> /\ stage # stage'
    BY <1>0, <1>5 DEF LookUp
  <2>2. ~ Locked /\ \A d \in Calls : stage[d] = "missed" => IdOf(d) # IdOf(c)
    BY <1>5, <2>1 DEF LookUpIsAlone, vars
  <2>3. \A d \in Calls : stage[d] # "appending"
    BY <2>2 DEF Locked
  <2>4. stage'[c] = "missed" => ~ HasEntry(IdOf(c))
    <3>1. SUFFICES ASSUME stage'[c] = "missed" PROVE ~ HasEntry(IdOf(c))
      OBVIOUS
    <3>2. FindWorkerByID(IdOf(c)) = 0
      BY <1>0, <1>5, <2>2, <3>1 DEF LookUp
    <3>3. QED
      BY <3>2, FoundIsThere DEF Types, HasEntry
  <2>5. /\ stage'[c] \in {"found", "missed"}
        /\ \A d \in Calls \ {c} : stage'[d] = stage[d]
    BY <1>0, <1>5 DEF LookUp
  <2>6. NoDuplicateWorker' /\ \A id : HasEntry(id)' <=> HasEntry(id)
    BY <1>1, <2>1
  <2>7. QED
    BY <2>1, <2>2, <2>3, <2>4, <2>5, <2>6 DEF ApartInv
<1>6. ASSUME NEW c \in Calls, RegisterBegin(c) \/ Answer(c) PROVE ApartInv'
  <2>1. UNCHANGED <<workers, caller>>
    BY <1>6 DEF RegisterBegin, Answer
  <2>2. \A d \in Calls : stage'[d] \in LookedUp => stage[d] \in LookedUp
    BY <1>0, <1>6 DEF RegisterBegin, Answer
  <2>3. QED
    BY <1>1, <1>2, <2>1, <2>2
<1>7. ASSUME NEW c \in Calls, RegisterEnd(c) PROVE ApartInv'
  <2>1. /\ DOMAIN workers' = DOMAIN workers \cup {Len(workers) + 1}
        /\ \A i \in DOMAIN workers : workers'[i] = workers[i]
        /\ workers'[Len(workers) + 1].id = IdOf(c)
    BY <1>7, AppendedEntry
  <2>2. stage[c] = "appending" /\ UNCHANGED caller
        /\ \A d \in Calls : stage'[d] \in LookedUp =>
                                d # c /\ stage[d] \in LookedUp
    BY <1>0, <1>7 DEF RegisterEnd
  <2>3. ~ HasEntry(IdOf(c))
    BY <2>2 DEF ApartInv
  <2>4. \A id : HasEntry(id)' => HasEntry(id) \/ id = IdOf(c)
    BY <2>1 DEF HasEntry
  <2>5. NoDuplicateWorker'
    BY <2>1, <2>3 DEF ApartInv, NoDuplicateWorker, HasEntry
  <2>6. QED
    BY <2>2, <2>4, <2>5 DEF ApartInv
<1>8. ASSUME NEW p \in Processes, Disconnect(p) \/ Crash(p) PROVE ApartInv'
  <2>1. UNCHANGED <<stage, caller>>
    BY <1>8 DEF Disconnect, Crash
  <2>2. CASE UNCHANGED workers
    BY <1>1, <1>2, <2>1, <2>2
  <2>3. CASE ~ (UNCHANGED workers)
    BY <1>4, <1>8, <2>1, <2>3 DEF Disconnect, Crash, WorkerStatus
  <2>4. QED
    BY <2>2, <2>3
<1>9. ASSUME NEW c \in Calls, Reconnect(c) PROVE ApartInv'
  <2>1. caller[c] \in Processes
    BY <1>9 DEF Types, CallersAreKnown, Reconnect
  <2>2. \A d \in Calls : stage'[d] \in LookedUp => stage'[d] = stage[d]
    BY <1>0, <1>9 DEF Reconnect
  <2>3. SetStatus(NameOf[caller[c]], "IDLE") /\ UNCHANGED caller
    BY <1>9 DEF Reconnect
  <2>4. QED
    BY <1>4, <2>1, <2>2, <2>3 DEF WorkerStatus
<1>10. CASE UNCHANGED vars
  BY <1>1, <1>2, <1>10 DEF vars
<1>11. QED
  BY <1>3, <1>5, <1>6, <1>7, <1>8, <1>9, <1>10 DEF Next

(* NoDuplicateWorker, which the code does not keep, holds as long as no    *)
(* lookup falls into another handler's registration: nothing but the race  *)
(* of EstablishConnection (lookup) with registerWorker (append) makes a    *)
(* second entry, neither crashes nor restarts nor shared names.            *)
THEOREM DuplicatesNeedTheRace ==
    Spec /\ [][LookUpIsAlone]_vars => []NoDuplicateWorker
<1>1. Init => ApartInv
  BY DEF Init, ApartInv, NoDuplicateWorker, LookedUp
<1>2. Types /\ ApartInv /\ [Next]_vars /\ [LookUpIsAlone]_vars => ApartInv'
  BY ApartNext
<1>3. ApartInv => NoDuplicateWorker
  BY DEF ApartInv
<1>4. QED
  BY <1>1, <1>2, <1>3, TypesInit, TypesNext, PTL DEF Spec
=============================================================================
