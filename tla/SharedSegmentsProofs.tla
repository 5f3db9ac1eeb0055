------------------------ MODULE SharedSegmentsProofs ------------------------
(***************************************************************************)
(* Theorems about module SharedSegments, for any processes, names and      *)
(* segments, and any number of failed system calls and crashes.            *)
(***************************************************************************)
EXTENDS SharedSegments, TLAPS

-----------------------------------------------------------------------------
(* What closeShm leaves.                                                   *)

Pointer == {"null", "mapped"}
Objects(ptrs) ==
  [exists : BOOLEAN, ptr : ptrs, file : BOOLEAN, map : BOOLEAN, segment : 0 .. MaxSegments,
   name : Name \cup {NoName}, size : {"empty", "full"}]
Entries == [name : Name, size : {"empty", "full"}, segment : Segment]
Listing == [todo : SUBSET Name, sizing : SUBSET Name, found : SUBSET Entries, steady : SUBSET Name]
Resource == Segment \X {"view", "map", "file"}
Mishap == {"early", "half", "replaced", "map", "close"}

(* Whether it succeeds or not, closeShm keeps what the object stands for; a
   success leaves nothing in the object and loses at most a handle of the file
   that a system call failed to close, and only MAP_FAILED on Linux makes it
   fail without a system call that does. *)
Closed(o, a) ==
  /\ a.object \in Objects({"null", "mapped", "failed"})
  /\ a.object.exists = o.exists
  /\ a.object.segment = o.segment
  /\ a.object.name = o.name
  /\ a.charged \in {0, 1}
  /\ o.ptr # "failed" => a.object.ptr \in Pointer
  /\ a.ok => Held(a.object) = {}
  /\ a.object.map => o.map
  /\ a.object.ptr = "mapped" => o.ptr = "mapped"
  /\ a.lost \subseteq {<<o.segment, "file">>}
  /\ a.lost # {} => a.ok /\ a.charged = 1
  /\ ~ a.ok /\ a.charged = 0 => platform = "linux" /\ o.ptr = "failed"
  /\ ~ a.ok => a.object.ptr = o.ptr \/ a.object.ptr = "null"
  /\ a.ok \in BOOLEAN

LEMMA Closing ==
  ASSUME NEW o \in Objects({"null", "mapped", "failed"}), NEW a \in CloseShm(o)
  PROVE  Closed(o, a)
<1> DEFINE l == [Outcome(Emptied(o), TRUE, 1) EXCEPT !.lost = {<<o.segment, "file">>}]
<1>1. \/ a = Outcome(Emptied(o), TRUE, 0)
      \/ a = l
      \/ a = Outcome(Unmapped(o), FALSE, 1)
      \/ a = Outcome(o, FALSE, 1)
      \/ a = Outcome(o, FALSE, 0) /\ platform = "linux" /\ o.ptr = "failed"
  BY DEF CloseShm, CloseLinuxShm, CloseWin32Shm, UnmapFails, CloseFails, FileLost
<1>2. CASE a = Outcome(Emptied(o), TRUE, 0) \/ a = l
  <2>1. /\ a.object = Emptied(o) /\ a.ok = TRUE /\ a.charged \in {0, 1}
        /\ \/ a.lost = {}
           \/ a.lost = {<<o.segment, "file">>} /\ a.charged = 1
    BY <1>2 DEF Outcome
  <2>2. /\ Emptied(o) \in Objects({"null", "mapped", "failed"})
        /\ Emptied(o).exists = o.exists /\ Emptied(o).segment = o.segment
        /\ Emptied(o).name = o.name /\ Emptied(o).ptr = "null"
        /\ Emptied(o).map = FALSE /\ Emptied(o).file = FALSE
    BY DEF Emptied, Objects
  <2>3. Held(Emptied(o)) = {}
    BY <2>2 DEF Held
  <2>4. QED
    BY <2>1, <2>2, <2>3 DEF Pointer, Closed
<1>3. CASE a = Outcome(Unmapped(o), FALSE, 1)
  <2>1. a.object = Unmapped(o) /\ a.ok = FALSE /\ ~ a.ok /\ a.charged = 1 /\ a.charged # 0
        /\ a.lost = {}
    BY <1>3 DEF Outcome
  <2>2. /\ Unmapped(o) \in Objects({"null", "mapped", "failed"})
        /\ Unmapped(o).exists = o.exists /\ Unmapped(o).segment = o.segment
        /\ Unmapped(o).name = o.name /\ Unmapped(o).ptr = "null"
        /\ Unmapped(o).map = o.map
    BY DEF Unmapped, Objects
  <2>3. a.object.ptr = "null" /\ a.object.ptr \in Pointer
    BY <2>1, <2>2 DEF Pointer
  <2>4. QED
    BY <2>1, <2>2, <2>3 DEF Closed
<1>4. CASE a = Outcome(o, FALSE, 1)
  BY <1>4 DEF Outcome, Objects, Pointer, Closed
<1>5. CASE a = Outcome(o, FALSE, 0) /\ platform = "linux" /\ o.ptr = "failed"
  BY <1>5 DEF Outcome, Objects, Pointer, Closed
<1>6. QED
  BY <1>1, <1>2, <1>3, <1>4, <1>5

-----------------------------------------------------------------------------
(* The inductive invariant.                                                *)

Types ==
  /\ platform \in {"linux", "windows"}
  /\ created \in 0 .. MaxSegments /\ full \subseteq Segment
  /\ header \in [Segment -> SUBSET Area] /\ directory \in [Name -> 0 .. created]
  /\ complete \subseteq Segment
  /\ pc \in [Process -> {"idle", "resize", "map", "store", "read", "scan", "size"}]
  /\ shm \in [Process -> Objects(Pointer)]
  /\ pointer \in [Process -> [Area -> {"null", "start", "area"}]]
  /\ leaked \in [Process -> SUBSET Resource]
  /\ mishap \in [Process -> SUBSET Mishap]
  /\ listing \in [Process -> Listing]
  /\ faults \in 0 .. MaxFaults /\ crashes \in 0 .. MaxCrashes

(* An object stands for a segment from the first step that made it, and has
   its view from the step that mapped it. *)
Objected ==
  \A p \in Process :
    /\ shm[p].exists <=> shm[p].segment # 0
    /\ shm[p].exists => shm[p].name \in Name
    /\ pc[p] \in {"resize", "map", "store", "read"} => shm[p].exists
    /\ pc[p] \in {"resize", "map"} => shm[p].ptr = "null"
    /\ pc[p] \in {"store", "read"} => shm[p].ptr = "mapped"
    /\ pc[p] \in {"resize", "map", "store"} => pointer[p] = NoPointers
    /\ ~ shm[p].exists => pointer[p] = NoPointers /\ shm[p].ptr = "null"

IndTypes == Types /\ Objected

(* What a process notes of the listing it makes. *)
LEMMA ListingAt ==
  ASSUME Types, NEW p \in Process
  PROVE  listing[p] \in Listing
BY DEF Types

LEMMA SizedEntries ==
  ASSUME IndTypes, NEW n \in Name, directory[n] # 0
  PROVE  Sized(n) \subseteq Entries
<1>1. directory[n] \in 0 .. created /\ created \in 0 .. MaxSegments
  BY DEF IndTypes, Types
<1>2. directory[n] \in Segment
  BY <1>1, SegmentsAssumption DEF Segment
<1>3. QED
  BY <1>2 DEF Sized, Entry, SizeOf, Entries

(* The steps by which an object goes away. *)
LEMMA GivingUp ==
  ASSUME IndTypes, NEW p \in Process, NEW o \in Objects({"null", "mapped", "failed"}),
         NEW charged \in {0, 1}, NEW why \in SUBSET {"map"}, GiveUp(p, o, charged, why),
         o.segment \in Segment
  PROVE  /\ faults' \in 0 .. MaxFaults
         /\ leaked' \in [Process -> SUBSET Resource]
         /\ mishap' \in [Process -> SUBSET Mishap]
         /\ shm' = [shm EXCEPT ![p] = NoObject]
         /\ pointer' = [pointer EXCEPT ![p] = NoPointers]
         /\ pc' = [pc EXCEPT ![p] = "idle"]
<1>1. PICK a \in CloseShm(o) :
        /\ faults' = faults + charged + a.charged
        /\ faults' <= MaxFaults
        /\ leaked' = [leaked EXCEPT ![p] = @ \cup LeftBy(a)]
        /\ mishap' = [mishap EXCEPT ![p] = (@ \ OfObject) \cup
             (IF LeftBy(a) = {} THEN {}
              ELSE why \cup (IF a.charged = 1 THEN {"close"} ELSE {}))]
  BY DEF GiveUp
<1>2. Closed(o, a)
  BY Closing
<1>3. faults' \in 0 .. MaxFaults
  BY <1>1, <1>2, SegmentsAssumption DEF IndTypes, Types, Closed
<1>4. LeftBy(a) \subseteq Resource
  <2>1. Held(a.object) \subseteq Resource
    BY <1>2 DEF Closed, Held, Resource
  <2>2. a.lost \subseteq Resource
    BY <1>2 DEF Closed, Resource
  <2>3. QED
    BY <2>1, <2>2 DEF LeftBy
<1>5. leaked' \in [Process -> SUBSET Resource]
  BY <1>1, <1>4 DEF IndTypes, Types
<1>6. mishap' \in [Process -> SUBSET Mishap]
  BY <1>1 DEF IndTypes, Types, Mishap
<1>7. QED
  BY <1>3, <1>5, <1>6 DEF GiveUp

LEMMA NewObjects ==
  /\ NoObject \in Objects(Pointer)
  /\ NoObject.exists = FALSE /\ NoObject.segment = 0 /\ NoObject.ptr = "null"
  /\ Held(NoObject) = {}
  /\ \A n \in Name, s \in 1 .. MaxSegments, size \in {"empty", "full"} :
       /\ Object(n, s, size) \in Objects(Pointer)
       /\ Object(n, s, size).exists = TRUE /\ Object(n, s, size).segment = s
       /\ Object(n, s, size).ptr = "null" /\ Object(n, s, size).name = n
<1>1. /\ NoObject \in Objects(Pointer)
      /\ NoObject.exists = FALSE /\ NoObject.segment = 0 /\ NoObject.ptr = "null"
      /\ NoObject.map = FALSE /\ NoObject.file = FALSE
  BY SegmentsAssumption DEF NoObject, Objects, Pointer
<1>2. Held(NoObject) = {}
  BY <1>1 DEF Held
<1>3. ASSUME NEW n \in Name, NEW s \in 1 .. MaxSegments, NEW size \in {"empty", "full"}
      PROVE  /\ Object(n, s, size) \in Objects(Pointer)
             /\ Object(n, s, size).exists = TRUE /\ Object(n, s, size).segment = s
             /\ Object(n, s, size).ptr = "null" /\ Object(n, s, size).name = n
  BY SegmentsAssumption DEF Object, Objects, Pointer
<1>4. QED
  BY <1>1, <1>2, <1>3

(* The steps of a process, with what creating, sizing, opening and mapping do
   said once for both systems. *)
Resized(p) ==
  \E sized \in Objects(Pointer) :
    /\ SizeShm(p, sized)
    /\ sized.exists = shm[p].exists /\ sized.segment = shm[p].segment
    /\ sized.name = shm[p].name /\ sized.ptr = shm[p].ptr

Opened(p) ==
  \E e \in Entries, opened \in Objects(Pointer) :
    /\ OpenShm(p, e, opened)
    /\ opened.exists = TRUE /\ opened.segment = directory[e.name]
    /\ opened.name = e.name /\ opened.ptr = "null" /\ opened.size = e.size
    /\ e \in listing[p].found
    /\ platform = "windows" => opened.segment \in full \/ MappingExists(opened.segment)

Dropped(p) ==
  \E o \in Objects(Pointer), charged \in {0, 1} :
    /\ o.segment \in Segment /\ GiveUp(p, o, charged, {})
    /\ o = shm[p] \/ (~ o.map /\ o.ptr = "null")
    /\ UNCHANGED <<platform, systemVars, listing, crashes>>

AStep(p) ==
  \/ \E n \in Name : CreateShm(p, n) \/ DeleteShm(p, n) \/ ScanEntry(p, n) \/ SizeEntry(p, n)
  \/ Resized(p) \/ Opened(p)
  \/ Mapped(p) /\ (platform = "linux" => shm[p].size # "empty")
  \/ \E ptr \in {"null", "failed"}, charged \in {0, 1} : NotMapped(p, ptr, charged)
  \/ \E a \in Area : StoreOffset(p, a) \/ ReadOffset(p, a)
  \/ CloseSegment(p) \/ Dropped(p) \/ StartListing(p) \/ EndListing(p) \/ Crash(p)

LEMMA Steps ==
  ASSUME IndTypes, NEW p \in Process, Step(p)
  PROVE  AStep(p)
<1> USE DEF IndTypes
<1>0. ASSUME NEW e \in listing[p].found, directory[e.name] # 0
      PROVE  /\ e \in Entries
             /\ ObjectOf(e) \in Objects(Pointer) /\ ObjectOf(e).exists = TRUE
             /\ ObjectOf(e).segment = directory[e.name] /\ ObjectOf(e).name = e.name
             /\ ObjectOf(e).ptr = "null" /\ ObjectOf(e).size = e.size
             /\ ObjectOf(e).map = FALSE /\ directory[e.name] \in Segment
  <2>1. e \in Entries
    BY ListingAt DEF Listing
  <2>2. e.name \in Name /\ e.size \in {"empty", "full"}
    BY <2>1 DEF Entries
  <2>3. directory[e.name] \in 0 .. created /\ created \in 0 .. MaxSegments
    BY <2>2 DEF Types
  <2>4. directory[e.name] \in 1 .. MaxSegments
    BY <1>0, <2>3, SegmentsAssumption
  <2>5. QED
    BY <2>1, <2>2, <2>4, NewObjects DEF ObjectOf, Segment, Object
<1>1. ASSUME NEW e \in listing[p].found,
             \/ OpenLinuxShm(p, e)
             \/ \E mode \in {"read", "write", "fallback"} : OpenWin32Shm(p, e, mode)
      PROVE  Opened(p)
  <2>1. PICK opened : /\ OpenShm(p, e, opened)
                      /\ \/ opened = [ObjectOf(e) EXCEPT !.file = TRUE]
                         \/ \E b \in BOOLEAN :
                              opened = [ObjectOf(e) EXCEPT !.file = b, !.map = TRUE]
                      /\ platform = "windows" => \/ directory[e.name] \in full
                                                 \/ MappingExists(directory[e.name])
    BY <1>1 DEF OpenLinuxShm, OpenWin32Shm
  <2>2. /\ e \in Entries /\ ObjectOf(e) \in Objects(Pointer) /\ ObjectOf(e).exists = TRUE
        /\ ObjectOf(e).segment = directory[e.name] /\ ObjectOf(e).name = e.name
        /\ ObjectOf(e).ptr = "null" /\ ObjectOf(e).size = e.size
    BY <2>1, <1>0 DEF OpenShm
  <2>3. /\ opened \in Objects(Pointer) /\ opened.exists = TRUE
        /\ opened.segment = directory[e.name] /\ opened.name = e.name
        /\ opened.ptr = "null" /\ opened.size = e.size
    BY <2>1, <2>2 DEF Objects
  <2>4. QED
    BY <2>1, <2>2, <2>3 DEF Opened
<1>2. ASSUME Truncate(p) \/ CreateMapping(p)
      PROVE  Resized(p)
  <2>1. shm[p] \in Objects(Pointer)
    BY DEF Types
  <2>2. PICK sized : /\ SizeShm(p, sized)
                     /\ sized = shm[p] \/ sized = [shm[p] EXCEPT !.map = TRUE]
    BY <1>2 DEF Truncate, CreateMapping
  <2>3. /\ sized \in Objects(Pointer) /\ sized.exists = shm[p].exists
        /\ sized.segment = shm[p].segment /\ sized.name = shm[p].name
        /\ sized.ptr = shm[p].ptr
    BY <2>1, <2>2 DEF Objects
  <2>4. QED
    BY <2>2, <2>3 DEF Resized
<1>3. ASSUME MapLinuxShm(p) \/ MapWin32Shm(p)
      PROVE  \/ Mapped(p) /\ (platform = "linux" => shm[p].size # "empty")
             \/ \E ptr \in {"null", "failed"}, charged \in {0, 1} : NotMapped(p, ptr, charged)
  BY <1>3 DEF MapLinuxShm, MapWin32Shm
<1>4. ASSUME NEW e \in listing[p].found, NEW charged \in {0, 1}, FailWin32Open(p, e, charged)
      PROVE  Dropped(p)
  <2> DEFINE b == ObjectOf(e)
             o == [b EXCEPT !.file = TRUE]
  <2>1. b \in Objects(Pointer) /\ b.segment \in Segment /\ ~ b.map /\ b.ptr = "null"
    BY <1>4, <1>0 DEF FailWin32Open
  <2>2. /\ GiveUp(p, o, charged, {})
        /\ UNCHANGED <<platform, systemVars, listing, crashes>>
    BY <1>4 DEF FailWin32Open
  <2> HIDE DEF b
  <2>3. o \in Objects(Pointer) /\ o.segment \in Segment /\ ~ o.map /\ o.ptr = "null"
    BY <2>1 DEF Objects
  <2> HIDE DEF o
  <2>4. QED
    BY <2>2, <2>3 DEF Dropped
<1>5. ASSUME DestroyManager(p)
      PROVE  Dropped(p)
  <2>1. shm[p] \in Objects(Pointer) /\ shm[p].segment \in Segment
    BY <1>5 DEF DestroyManager, Types, Objected, Objects, Segment
  <2>2. QED
    BY <2>1, <1>5 DEF DestroyManager, Dropped
<1>6. QED
  BY <1>1, <1>2, <1>3, <1>4, <1>5 DEF Step, AStep

LEMMA TypesInit == Init => IndTypes
<1> SUFFICES ASSUME Init PROVE IndTypes
  OBVIOUS
<1>1. NoListing \in Listing
  BY DEF NoListing, Listing
<1>2. NoPointers \in [Area -> {"null", "start", "area"}]
  BY DEF NoPointers
<1>3. Types
  BY <1>1, <1>2, NewObjects, SegmentsAssumption DEF Init, Types
<1>4. Objected
  BY NewObjects DEF Init, Objected
<1>5. QED
  BY <1>3, <1>4 DEF IndTypes

LEMMA TypesStep ==
  ASSUME IndTypes, [Next]_vars
  PROVE  IndTypes'
<1> USE DEF IndTypes
<1>1. ASSUME NEW p \in Process, NEW n \in Name, CreateShm(p, n)
      PROVE  IndTypes'
  <2> DEFINE s == created + 1
             o == [Object(n, s, "full") EXCEPT !.file = TRUE]
  <2>1. s \in 1 .. MaxSegments
    BY <1>1, SegmentsAssumption DEF CreateShm, Types
  <2>2. o \in Objects(Pointer) /\ o.exists = TRUE /\ o.segment = s /\ o.ptr = "null" /\ o.name = n
    <3> DEFINE b == Object(n, s, "full")
    <3>1. b \in Objects(Pointer) /\ b.exists = TRUE /\ b.segment = s /\ b.ptr = "null" /\ b.name = n
      BY <2>1, NewObjects
    <3>2. o = [b EXCEPT !.file = TRUE]
      OBVIOUS
    <3> HIDE DEF b, o, s
    <3>3. QED
      BY <3>1, <3>2 DEF Objects
  <2>3. shm' = [shm EXCEPT ![p] = o]
    BY <1>1 DEF CreateShm
  <2>4. s \in Nat /\ s # 0
    BY <2>1
  <2>5. created' = s /\ directory' = [directory EXCEPT ![n] = s] /\ created \in Nat
    BY <1>1 DEF CreateShm, Types
  <2>6. directory' \in [Name -> 0 .. created']
    BY <2>5, <2>4 DEF Types
  <2> HIDE DEF o, s
  <2>7. /\ pc' = [pc EXCEPT ![p] = "resize"]
        /\ UNCHANGED <<platform, full, header, complete, pointer, leaked, mishap, listing>>
        /\ UNCHANGED <<faults, crashes>>
        /\ pc[p] = "idle" /\ ~ shm[p].exists
    BY <1>1 DEF CreateShm, boundVars
  <2>8. Types'
    BY <2>2, <2>3, <2>5, <2>6, <2>7, <2>1 DEF Types
  <2>10. Objected'
    BY <2>2, <2>3, <2>4, <2>7 DEF Types, Objected
  <2>9. QED
    BY <2>8, <2>10
<1>2. ASSUME NEW p \in Process, NEW sized, SizeShm(p, sized), sized \in Objects(Pointer),
             sized.exists = shm[p].exists, sized.segment = shm[p].segment,
             sized.name = shm[p].name, sized.ptr = shm[p].ptr
      PROVE  IndTypes'
  <2>1. shm[p].segment \in Segment /\ shm[p] \in Objects({"null", "mapped", "failed"})
    BY <1>2 DEF SizeShm, Types, Objected, Objects, Segment, Pointer
  <2>2. CASE GiveUp(p, shm[p], 1, {})
    <3>1. /\ faults' \in 0 .. MaxFaults
          /\ leaked' \in [Process -> SUBSET Resource]
          /\ mishap' \in [Process -> SUBSET Mishap]
          /\ shm' = [shm EXCEPT ![p] = NoObject]
          /\ pointer' = [pointer EXCEPT ![p] = NoPointers]
          /\ pc' = [pc EXCEPT ![p] = "idle"]
      BY <2>1, <2>2, GivingUp
    <3>2. UNCHANGED <<platform, created, header, directory, complete, listing, crashes>>
      BY <1>2 DEF SizeShm
    <3>3. full' \in SUBSET Segment
      BY <1>2, <2>1 DEF SizeShm, Types
    <3>4. Types'
      BY <3>1, <3>2, <3>3, NewObjects DEF Types, NoPointers
    <3>5. Objected'
      BY <3>1, <3>2, NewObjects DEF Types, Objected
    <3>6. QED
      BY <3>4, <3>5
  <2>3. CASE /\ full' = full \cup {shm[p].segment}
             /\ shm' = [shm EXCEPT ![p] = sized]
             /\ pc' = [pc EXCEPT ![p] = "map"]
             /\ UNCHANGED <<pointer, leaked, mishap, faults>>
    <3>1. Types'
      BY <1>2, <2>1, <2>3 DEF SizeShm, Types
    <3>2. Objected'
      BY <1>2, <2>3 DEF SizeShm, Types, Objected
    <3>3. QED
      BY <3>1, <3>2
  <2>4. QED
    BY <1>2, <2>2, <2>3 DEF SizeShm
<1>3. ASSUME NEW p \in Process, Mapped(p)
      PROVE  IndTypes'
  <2> DEFINE o == [shm[p] EXCEPT !.ptr = "mapped"]
  <2>1. /\ o \in Objects(Pointer) /\ o.exists = shm[p].exists /\ o.segment = shm[p].segment
        /\ o.name = shm[p].name /\ o.ptr = "mapped"
    <3>1. shm[p] \in Objects(Pointer) /\ "mapped" \in Pointer
      BY DEF Types, Pointer
    <3>2. o \in Objects(Pointer)
      BY <3>1 DEF Objects
    <3>3. o.exists = shm[p].exists /\ o.segment = shm[p].segment /\ o.name = shm[p].name
      BY <3>1 DEF Objects
    <3>4. o.ptr = "mapped"
      BY <3>1 DEF Objects
    <3>5. QED
      BY <3>2, <3>3, <3>4
  <2>2. shm' = [shm EXCEPT ![p] = o]
    BY <1>3 DEF Mapped
  <2> HIDE DEF o
  <2>3. /\ pc[p] = "map"
        /\ pc' = [pc EXCEPT ![p] = IF p \in Owner THEN "store" ELSE "read"]
        /\ mishap' \in [Process -> SUBSET Mishap]
        /\ UNCHANGED <<platform, created, full, header, directory, complete>>
        /\ UNCHANGED <<pointer, leaked, listing, faults, crashes>>
    BY <1>3 DEF Mapped, systemVars, boundVars, Types, Mishap
  <2>4. Types'
    BY <2>1, <2>2, <2>3 DEF Types
  <2>5. Objected'
    BY <2>1, <2>2, <2>3 DEF Types, Objected
  <2>6. QED
    BY <2>4, <2>5
<1>4. ASSUME NEW p \in Process, NEW o \in Objects({"null", "mapped", "failed"}),
             NEW charged \in {0, 1}, NEW why \in SUBSET {"map"}, GiveUp(p, o, charged, why),
             o.segment \in Segment,
             UNCHANGED <<platform, systemVars, listing, crashes>>
      PROVE  IndTypes'
  <2>1. /\ faults' \in 0 .. MaxFaults
        /\ leaked' \in [Process -> SUBSET Resource]
        /\ mishap' \in [Process -> SUBSET Mishap]
        /\ shm' = [shm EXCEPT ![p] = NoObject]
        /\ pointer' = [pointer EXCEPT ![p] = NoPointers]
        /\ pc' = [pc EXCEPT ![p] = "idle"]
    BY <1>4, GivingUp
  <2>2. UNCHANGED <<platform, created, full, header, directory, complete, listing, crashes>>
    BY <1>4 DEF systemVars
  <2>3. Types'
    BY <2>1, <2>2, NewObjects DEF Types, NoPointers
  <2>4. Objected'
    BY <2>1, <2>2, NewObjects DEF Types, Objected
  <2>5. QED
    BY <2>3, <2>4
<1>5. ASSUME NEW p \in Process, NEW ptr \in {"null", "failed"}, NEW charged \in {0, 1},
             NotMapped(p, ptr, charged)
      PROVE  IndTypes'
  <2> DEFINE o == [shm[p] EXCEPT !.ptr = ptr]
  <2>1. o \in Objects({"null", "mapped", "failed"}) /\ o.segment = shm[p].segment
    <3>1. shm[p] \in Objects(Pointer)
      BY DEF Types
    <3>2. CASE ptr = "null"
      BY <3>1, <3>2 DEF Objects, Pointer
    <3>3. CASE ptr = "failed"
      BY <3>1, <3>3 DEF Objects, Pointer
    <3>4. QED
      BY <3>2, <3>3
  <2>2. shm[p].segment \in Segment
    BY <1>5 DEF NotMapped, Types, Objected, Objects, Segment
  <2>3. GiveUp(p, o, charged, {"map"}) /\ UNCHANGED <<platform, systemVars, listing, crashes>>
    BY <1>5 DEF NotMapped
  <2> HIDE DEF o
  <2>4. QED
    BY <1>4, <2>1, <2>2, <2>3
<1>6. ASSUME NEW p \in Process, NEW a \in Area, StoreOffset(p, a)
      PROVE  IndTypes'
  <2>1. shm[p].segment \in Segment
    BY <1>6 DEF StoreOffset, Types, Objected, Objects, Segment
  <2>2. /\ pc[p] = "store"
        /\ header' \in [Segment -> SUBSET Area]
        /\ UNCHANGED <<platform, created, full, directory, shm, leaked, mishap, listing>>
        /\ UNCHANGED <<faults, crashes>>
        /\ \/ /\ pointer' = [pointer EXCEPT ![p] = [b \in Area |-> "area"]]
              /\ complete' \in SUBSET Segment
              /\ pc' = [pc EXCEPT ![p] = "idle"]
           \/ pointer' = pointer /\ complete' = complete /\ pc' = pc
    BY <1>6, <2>1 DEF StoreOffset, Types, boundVars
  <2>3. /\ pointer' \in [Process -> [Area -> {"null", "start", "area"}]]
        /\ pc' \in [Process -> {"idle", "resize", "map", "store", "read", "scan", "size"}]
        /\ complete' \subseteq Segment
    <3>1. CASE pointer' = pointer /\ complete' = complete /\ pc' = pc
      BY <3>1 DEF Types
    <3>2. CASE /\ pointer' = [pointer EXCEPT ![p] = [b \in Area |-> "area"]]
               /\ complete' \in SUBSET Segment
               /\ pc' = [pc EXCEPT ![p] = "idle"]
      <4>1. [b \in Area |-> "area"] \in [Area -> {"null", "start", "area"}]
        OBVIOUS
      <4>2. QED
        BY <3>2, <4>1 DEF Types
    <3>3. QED
      BY <2>2, <3>1, <3>2
  <2>4. Types'
    BY <2>2, <2>3 DEF Types
  <2>5. Objected'
    BY <2>2 DEF Types, Objected
  <2>6. QED
    BY <2>4, <2>5
<1>7. ASSUME NEW p \in Process, NEW e \in Entries, NEW opened, OpenShm(p, e, opened),
             opened \in Objects(Pointer), opened.exists = TRUE,
             opened.segment = directory[e.name], opened.name = e.name, opened.ptr = "null"
      PROVE  IndTypes'
  <2>1. e.name \in Name /\ NoListing \in Listing /\ directory[e.name] # 0
    BY <1>7 DEF Entries, NoListing, Listing, OpenShm
  <2>2. /\ pc[p] = "idle" /\ ~ shm[p].exists
        /\ shm' = [shm EXCEPT ![p] = opened]
        /\ pc' = [pc EXCEPT ![p] = "map"]
        /\ listing' = [listing EXCEPT ![p] = NoListing]
        /\ mishap' \in [Process -> SUBSET Mishap]
        /\ UNCHANGED <<platform, created, full, header, directory, complete>>
        /\ UNCHANGED <<pointer, leaked, faults, crashes>>
    BY <1>7 DEF OpenShm, systemVars, boundVars, Types, Mishap
  <2>3. Types'
    BY <1>7, <2>1, <2>2 DEF Types
  <2>4. Objected'
    BY <1>7, <2>1, <2>2 DEF Types, Objected
  <2>5. QED
    BY <2>3, <2>4
<1>8. ASSUME NEW p \in Process, NEW a \in Area, ReadOffset(p, a)
      PROVE  IndTypes'
  <2>1. /\ pc[p] = "read"
        /\ pointer' \in [Process -> [Area -> {"null", "start", "area"}]]
        /\ pc' \in [Process -> {"idle", "resize", "map", "store", "read", "scan", "size"}]
        /\ \A q \in Process \ {p} : pc'[q] = pc[q] /\ pointer'[q] = pointer[q]
        /\ pc'[p] \in {"read", "idle"}
        /\ UNCHANGED <<platform, created, full, header, directory, complete>>
        /\ UNCHANGED <<shm, leaked, mishap, listing, faults, crashes>>
    BY <1>8 DEF ReadOffset, Types, systemVars, boundVars
  <2>2. Types'
    BY <2>1 DEF Types
  <2>3. Objected'
    BY <2>1 DEF Types, Objected
  <2>4. QED
    BY <2>2, <2>3
<1>9. ASSUME NEW p \in Process, CloseSegment(p)
      PROVE  IndTypes'
  <2>1. PICK a \in CloseShm(shm[p]) :
          /\ faults' = faults + a.charged
          /\ faults' <= MaxFaults
          /\ shm' = [shm EXCEPT ![p] = IF a.ok THEN NoObject ELSE a.object]
          /\ pointer' = [pointer EXCEPT ![p] = PointersAfter(p, a.ok)]
          /\ leaked' = [leaked EXCEPT ![p] = IF a.ok THEN @ \cup LeftBy(a) ELSE @]
          /\ mishap' = [mishap EXCEPT ![p] =
               IF a.ok THEN (@ \ OfObject) \cup (IF a.lost = {} THEN {} ELSE {"close"})
               ELSE @ \cup (IF a.object.ptr = "null" THEN {"half"} ELSE {})]
    BY <1>9 DEF CloseSegment
  <2>2. /\ pc[p] = "idle" /\ shm[p].exists
        /\ UNCHANGED <<platform, created, full, header, directory, complete>>
        /\ UNCHANGED <<pc, listing, crashes>>
    BY <1>9 DEF CloseSegment, systemVars
  <2>3. shm[p] \in Objects({"null", "mapped", "failed"}) /\ shm[p].ptr # "failed"
    BY DEF Types, Objects, Pointer
  <2>4. Closed(shm[p], a)
    BY <2>3, Closing
  <2>5. a.object \in Objects(Pointer)
    BY <2>3, <2>4 DEF Closed, Objects
  <2>6. faults' \in 0 .. MaxFaults
    BY <2>1, <2>4, SegmentsAssumption DEF Types, Closed
  <2>7. leaked' \in [Process -> SUBSET Resource]
    <3>1. shm[p].segment \in Segment
      BY <2>2 DEF Types, Objected, Objects, Segment
    <3>2. a.ok => LeftBy(a) \subseteq Resource
      BY <2>4, <3>1 DEF Closed, LeftBy, Resource
    <3>3. QED
      BY <2>1, <3>2 DEF Types
  <2>8. mishap' \in [Process -> SUBSET Mishap]
    BY <2>1 DEF Types, Mishap
  <2>9. CASE a.ok
    <3>1. shm' = [shm EXCEPT ![p] = NoObject] /\ pointer' = [pointer EXCEPT ![p] = NoPointers]
      BY <2>1, <2>9 DEF PointersAfter
    <3>2. Types'
      BY <3>1, <2>2, <2>6, <2>7, <2>8, NewObjects DEF Types, NoPointers
    <3>3. Objected'
      BY <3>1, <2>2, NewObjects DEF Types, Objected
    <3>4. QED
      BY <3>2, <3>3
  <2>10. CASE ~ a.ok
    <3>1. shm' = [shm EXCEPT ![p] = a.object] /\ pointer' = pointer
      BY <2>1, <2>10 DEF PointersAfter, Types
    <3>2. Types'
      BY <3>1, <2>2, <2>5, <2>6, <2>7, <2>8 DEF Types
    <3>3. Objected'
      BY <3>1, <2>2, <2>4 DEF Types, Objected, Closed
    <3>4. QED
      BY <3>2, <3>3
  <2>11. QED
    BY <2>9, <2>10
<1>10. ASSUME NEW p \in Process, NEW n \in Name, DeleteShm(p, n)
       PROVE  IndTypes'
  <2>1. listing' \in [Process -> Listing]
    <3>1. ASSUME NEW q \in Process
          PROVE  [listing[q] EXCEPT !.steady = @ \ {n}] \in Listing
      BY ListingAt DEF Listing
    <3>2. QED
      BY <1>10, <3>1 DEF DeleteShm
  <2>2. /\ directory' = [directory EXCEPT ![n] = 0]
        /\ UNCHANGED <<platform, created, full, header, complete>>
        /\ UNCHANGED <<pc, shm, pointer, leaked, mishap, faults, crashes>>
    BY <1>10 DEF DeleteShm, boundVars
  <2>3. directory' \in [Name -> 0 .. created']
    BY <2>2 DEF Types
  <2>4. Types'
    BY <2>1, <2>2, <2>3 DEF Types
  <2>5. Objected'
    BY <2>2 DEF Types, Objected
  <2>6. QED
    BY <2>4, <2>5
<1>11. ASSUME NEW p \in Process, NEW l \in Listing, NEW at \in {"idle", "scan", "size"},
              pc[p] \in {"idle", "scan", "size"},
              listing' = [listing EXCEPT ![p] = l], pc' = [pc EXCEPT ![p] = at],
              UNCHANGED <<platform, systemVars, shm, pointer, leaked, mishap, boundVars>>
       PROVE  IndTypes'
  <2>1. /\ UNCHANGED <<platform, created, full, header, directory, complete>>
        /\ UNCHANGED <<shm, pointer, leaked, mishap, faults, crashes>>
    BY <1>11 DEF systemVars, boundVars
  <2>2. Types'
    BY <1>11, <2>1 DEF Types
  <2>3. Objected'
    BY <1>11, <2>1 DEF Types, Objected
  <2>4. QED
    BY <2>2, <2>3
<1>12. ASSUME NEW p \in Process, Crash(p)
       PROVE  IndTypes'
  <2>1. /\ pc' = [pc EXCEPT ![p] = "idle"] /\ shm' = [shm EXCEPT ![p] = NoObject]
        /\ pointer' = [pointer EXCEPT ![p] = NoPointers]
        /\ leaked' = [leaked EXCEPT ![p] = {}] /\ mishap' = [mishap EXCEPT ![p] = {}]
        /\ listing' = [listing EXCEPT ![p] = NoListing]
        /\ UNCHANGED <<platform, created, full, header, directory, complete, faults>>
    BY <1>12 DEF Crash, systemVars
  <2>2. crashes' \in 0 .. MaxCrashes
    BY <1>12, SegmentsAssumption DEF Crash, Types
  <2>3. NoListing \in Listing
    BY DEF NoListing, Listing
  <2>4. Types'
    BY <2>1, <2>2, <2>3, NewObjects DEF Types, NoPointers
  <2>5. Objected'
    BY <2>1, NewObjects DEF Types, Objected
  <2>6. QED
    BY <2>4, <2>5
<1>13. ASSUME UNCHANGED vars
       PROVE  IndTypes'
  BY <1>13 DEF vars, systemVars, boundVars, Types, Objected
<1>14. ASSUME NEW p \in Process, StartListing(p)
       PROVE  IndTypes'
  <2> DEFINE l == [NoListing EXCEPT !.todo = Name, !.steady = {n \in Name : directory[n] # 0}]
  <2>1. l \in Listing
    BY DEF NoListing, Listing
  <2>2. /\ pc[p] = "idle"
        /\ listing' = [listing EXCEPT ![p] = l] /\ pc' = [pc EXCEPT ![p] = "scan"]
        /\ UNCHANGED <<platform, systemVars, shm, pointer, leaked, mishap, boundVars>>
    BY <1>14 DEF StartListing
  <2> HIDE DEF l
  <2>3. QED
    BY <1>11, <2>1, <2>2
<1>15. ASSUME NEW p \in Process, NEW n \in Name, ScanEntry(p, n)
       PROVE  IndTypes'
  <2> DEFINE l == [listing[p] EXCEPT !.todo = @ \ {n},
                     !.sizing = IF directory[n] # 0 THEN @ \cup {n} ELSE @]
             at == IF listing[p].todo = {n} THEN "size" ELSE "scan"
  <2>1. l \in Listing
    BY ListingAt DEF Listing
  <2>2. /\ pc[p] = "scan" /\ at \in {"idle", "scan", "size"}
        /\ pc' = [pc EXCEPT ![p] = at]
        /\ UNCHANGED <<platform, systemVars, shm, pointer, leaked, mishap, boundVars>>
    BY <1>15 DEF ScanEntry
  <2>3. listing' = [listing EXCEPT ![p] = l]
    BY <1>15 DEF ScanEntry, Types
  <2> HIDE DEF l, at
  <2>4. QED
    BY <1>11, <2>1, <2>2, <2>3
<1>16. ASSUME NEW p \in Process, NEW n \in Name, SizeEntry(p, n)
       PROVE  IndTypes'
  <2>1. /\ pc[p] = "size"
        /\ UNCHANGED <<platform, systemVars, shm, pointer, leaked, mishap, boundVars>>
    BY <1>16 DEF SizeEntry
  <2>2. CASE directory[n] # 0
    <3> DEFINE l == [listing[p] EXCEPT !.sizing = @ \ {n}, !.found = @ \cup Sized(n)]
    <3>1. Sized(n) \subseteq Entries
      BY <2>2, SizedEntries
    <3>2. l \in Listing
      BY <3>1, ListingAt DEF Listing
    <3>3. listing' = [listing EXCEPT ![p] = l] /\ pc' = [pc EXCEPT ![p] = "size"]
      BY <1>16, <2>2 DEF SizeEntry, Types
    <3> HIDE DEF l
    <3>4. QED
      BY <1>11, <2>1, <3>2, <3>3
  <2>3. CASE directory[n] = 0
    <3> DEFINE l == [listing[p] EXCEPT !.sizing = {}, !.steady = {}]
    <3>1. l \in Listing
      BY ListingAt DEF Listing
    <3>2. listing' = [listing EXCEPT ![p] = l] /\ pc' = [pc EXCEPT ![p] = "idle"]
      BY <1>16, <2>3 DEF SizeEntry, Types
    <3> HIDE DEF l
    <3>3. QED
      BY <1>11, <2>1, <3>1, <3>2
  <2>4. QED
    BY <2>2, <2>3
<1>17. ASSUME NEW p \in Process, EndListing(p)
       PROVE  IndTypes'
  <2> DEFINE l == [listing[p] EXCEPT !.steady = {}]
  <2>1. l \in Listing
    BY ListingAt DEF Listing
  <2>2. /\ pc[p] = "size"
        /\ listing' = [listing EXCEPT ![p] = l] /\ pc' = [pc EXCEPT ![p] = "idle"]
        /\ UNCHANGED <<platform, systemVars, shm, pointer, leaked, mishap, boundVars>>
    BY <1>17 DEF EndListing
  <2> HIDE DEF l
  <2>3. QED
    BY <1>11, <2>1, <2>2
<1>18. ASSUME NEW p \in Process, Dropped(p)
       PROVE  IndTypes'
  <2>1. PICK o \in Objects(Pointer), charged \in {0, 1} :
          /\ o.segment \in Segment /\ GiveUp(p, o, charged, {})
          /\ UNCHANGED <<platform, systemVars, listing, crashes>>
    BY <1>18 DEF Dropped
  <2>2. o \in Objects({"null", "mapped", "failed"})
    BY DEF Objects, Pointer
  <2>3. QED
    BY <1>4, <2>1, <2>2
<1>19. ASSUME NEW p \in Process, Step(p)
       PROVE  IndTypes'
  <2>1. AStep(p)
    BY <1>19, Steps
  <2>2. QED
    BY <2>1, <1>1, <1>2, <1>3, <1>5, <1>6, <1>7, <1>8, <1>9, <1>10, <1>12, <1>14, <1>15, <1>16,
       <1>17, <1>18 DEF AStep, Resized, Opened
<1>20. QED
  BY <1>13, <1>19 DEF Next

(* The types of the objects, processes and calls hold in every state. *)
THEOREM TypesAlways == Spec => []IndTypes
<1>1. Init => IndTypes
  BY TypesInit
<1>2. IndTypes /\ [Next]_vars => IndTypes'
  BY TypesStep
<1>3. QED
  BY <1>1, <1>2, PTL DEF Spec

(* The variables of segments and processes hold what TypeOK says. *)
THEOREM TypeCorrect == Spec => []TypeOK
<1>1. IndTypes => TypeOK
  BY DEF IndTypes, Types, Objected, Objects, Pointer, TypeOK
<1>2. QED
  BY <1>1, TypesAlways, PTL

-----------------------------------------------------------------------------
(* Lists.  What was there when the scan began and was not deleted since is yet
   to be scanned, waits for its size or is in the list. *)
ListInv ==
  \A p \in Process :
    /\ \A n \in listing[p].steady : directory[n] # 0
    /\ pc[p] = "scan" => listing[p].steady \subseteq listing[p].todo \cup listing[p].sizing
    /\ pc[p] = "size" =>
         listing[p].steady \subseteq listing[p].sizing \cup {e.name : e \in listing[p].found}

LEMMA ListStep ==
  ASSUME IndTypes, ListInv, [Next]_vars
  PROVE  ListInv'
<1> USE DEF IndTypes
<1>1. ASSUME UNCHANGED listing,
             \A n \in Name : directory[n] # 0 => directory'[n] # 0,
             \A q \in Process : pc'[q] = pc[q] \/ pc'[q] \notin {"scan", "size"}
      PROVE  ListInv'
  <2>1. \A q \in Process : listing[q].steady \subseteq Name
    BY ListingAt DEF Listing
  <2>2. QED
    BY <1>1, <2>1 DEF ListInv
<1>2. ASSUME NEW p \in Process, NEW l \in Listing, NEW at, UNCHANGED directory,
             listing' = [listing EXCEPT ![p] = l], pc' = [pc EXCEPT ![p] = at],
             \A n \in l.steady : directory[n] # 0,
             at = "scan" => l.steady \subseteq l.todo \cup l.sizing,
             at = "size" => l.steady \subseteq l.sizing \cup {e.name : e \in l.found}
      PROVE  ListInv'
  <2>1. \A q \in Process \ {p} : listing'[q] = listing[q] /\ pc'[q] = pc[q]
    BY <1>2 DEF Types
  <2>2. listing'[p] = l /\ pc'[p] = at
    BY <1>2 DEF Types
  <2>3. QED
    BY <1>2, <2>1, <2>2 DEF ListInv
<1>3. ASSUME NEW p \in Process, NEW n \in Name, CreateShm(p, n)
      PROVE  ListInv'
  <2>1. created \in Nat
    BY DEF Types
  <2>2. UNCHANGED listing /\ directory' = [directory EXCEPT ![n] = created + 1]
    BY <1>3 DEF CreateShm
  <2>3. \A m \in Name : directory[m] # 0 => directory'[m] # 0
    BY <2>1, <2>2 DEF Types
  <2>4. \A q \in Process : pc'[q] = pc[q] \/ pc'[q] \notin {"scan", "size"}
    BY <1>3 DEF CreateShm, Types
  <2>5. QED
    BY <1>1, <2>2, <2>3, <2>4
<1>4. ASSUME NEW p \in Process, NEW n \in Name, DeleteShm(p, n)
      PROVE  ListInv'
  <2>1. ASSUME NEW q \in Process
        PROVE  /\ listing'[q].steady = listing[q].steady \ {n}
               /\ listing'[q].todo = listing[q].todo /\ listing'[q].sizing = listing[q].sizing
               /\ listing'[q].found = listing[q].found /\ pc'[q] = pc[q]
               /\ listing[q].steady \subseteq Name
    BY <1>4 DEF DeleteShm, Types, Listing
  <2>2. \A m \in Name \ {n} : directory'[m] = directory[m]
    BY <1>4 DEF DeleteShm, Types
  <2>3. QED
    BY <2>1, <2>2 DEF ListInv
<1>5. ASSUME NEW p \in Process, NEW n \in Name, ScanEntry(p, n)
      PROVE  ListInv'
  <2> DEFINE l == [listing[p] EXCEPT !.todo = @ \ {n},
                     !.sizing = IF directory[n] # 0 THEN @ \cup {n} ELSE @]
             at == IF listing[p].todo = {n} THEN "size" ELSE "scan"
  <2>1. l \in Listing
    BY ListingAt DEF Listing
  <2>2. /\ l.steady = listing[p].steady /\ l.todo = listing[p].todo \ {n}
        /\ l.sizing = IF directory[n] # 0 THEN listing[p].sizing \cup {n} ELSE listing[p].sizing
    BY ListingAt DEF Listing
  <2>3. /\ listing' = [listing EXCEPT ![p] = l] /\ pc' = [pc EXCEPT ![p] = at]
        /\ UNCHANGED directory /\ pc[p] = "scan"
    BY <1>5 DEF ScanEntry, Types, systemVars
  <2>4. at = "size" => listing[p].todo = {n}
    OBVIOUS
  <2> HIDE DEF l, at
  <2>5. \A m \in l.steady : directory[m] # 0
    BY <2>2 DEF ListInv
  <2>6. l.steady \subseteq l.todo \cup l.sizing
    BY <2>2, <2>3 DEF ListInv
  <2>7. at = "size" => l.steady \subseteq l.sizing \cup {e.name : e \in l.found}
    BY <2>2, <2>4, <2>6
  <2>8. QED
    BY <1>2, <2>1, <2>3, <2>5, <2>6, <2>7
<1>6. ASSUME NEW p \in Process, NEW n \in Name, SizeEntry(p, n)
      PROVE  ListInv'
  <2>1. UNCHANGED directory /\ pc[p] = "size"
    BY <1>6 DEF SizeEntry, systemVars
  <2>2. CASE directory[n] # 0
    <3> DEFINE l == [listing[p] EXCEPT !.sizing = @ \ {n}, !.found = @ \cup Sized(n)]
               x == Entry(n)
    <3>1. Sized(n) \subseteq Entries
      BY <2>2, SizedEntries
    <3>2. l \in Listing
      BY <3>1, ListingAt DEF Listing
    <3>3. /\ l.steady = listing[p].steady /\ l.sizing = listing[p].sizing \ {n}
          /\ l.found = listing[p].found \cup Sized(n)
      BY ListingAt DEF Listing
    <3>4. listing' = [listing EXCEPT ![p] = l] /\ pc' = [pc EXCEPT ![p] = "size"]
      BY <1>6, <2>2 DEF SizeEntry, Types
    <3>5. x \in Sized(n) /\ x.name = n
      BY DEF Sized, Entry
    <3> HIDE DEF l, x
    <3>6. n \in {e.name : e \in l.found}
      BY <3>3, <3>5
    <3>7. l.steady \subseteq l.sizing \cup {e.name : e \in l.found}
      BY <2>1, <3>3, <3>6 DEF ListInv
    <3>8. \A m \in l.steady : directory[m] # 0
      BY <3>3 DEF ListInv
    <3>9. QED
      BY <1>2, <2>1, <3>2, <3>4, <3>7, <3>8
  <2>3. CASE directory[n] = 0
    <3> DEFINE l == [listing[p] EXCEPT !.sizing = {}, !.steady = {}]
    <3>1. l \in Listing /\ l.steady = {}
      BY ListingAt DEF Listing
    <3>2. listing' = [listing EXCEPT ![p] = l] /\ pc' = [pc EXCEPT ![p] = "idle"]
      BY <1>6, <2>3 DEF SizeEntry, Types
    <3> HIDE DEF l
    <3>3. QED
      BY <1>2, <2>1, <3>1, <3>2
  <2>4. QED
    BY <2>2, <2>3
<1>7. ASSUME NEW p \in Process, StartListing(p)
      PROVE  ListInv'
  <2> DEFINE l == [NoListing EXCEPT !.todo = Name, !.steady = {n \in Name : directory[n] # 0}]
  <2>1. /\ l \in Listing /\ l.todo = Name
        /\ l.steady \subseteq Name /\ \A n \in l.steady : directory[n] # 0
    BY DEF NoListing, Listing
  <2>2. /\ UNCHANGED directory
        /\ listing' = [listing EXCEPT ![p] = l] /\ pc' = [pc EXCEPT ![p] = "scan"]
    BY <1>7 DEF StartListing, systemVars
  <2> HIDE DEF l
  <2>3. QED
    BY <1>2, <2>1, <2>2
<1>8. ASSUME NEW p \in Process, EndListing(p)
      PROVE  ListInv'
  <2> DEFINE l == [listing[p] EXCEPT !.steady = {}]
  <2>1. l \in Listing /\ l.steady = {}
    BY ListingAt DEF Listing
  <2>2. /\ UNCHANGED directory
        /\ listing' = [listing EXCEPT ![p] = l] /\ pc' = [pc EXCEPT ![p] = "idle"]
    BY <1>8 DEF EndListing, systemVars
  <2> HIDE DEF l
  <2>3. QED
    BY <1>2, <2>1, <2>2
<1>9. ASSUME NEW p \in Process, Opened(p) \/ Crash(p)
      PROVE  ListInv'
  <2>1. NoListing \in Listing /\ NoListing.steady = {}
    BY DEF NoListing, Listing
  <2>2. /\ listing' = [listing EXCEPT ![p] = NoListing] /\ UNCHANGED directory
        /\ \/ pc' = [pc EXCEPT ![p] = "map"]
           \/ pc' = [pc EXCEPT ![p] = "idle"]
    BY <1>9 DEF Opened, OpenShm, Crash, systemVars
  <2>3. CASE pc' = [pc EXCEPT ![p] = "map"]
    BY <1>2, <2>1, <2>2, <2>3
  <2>4. CASE pc' = [pc EXCEPT ![p] = "idle"]
    BY <1>2, <2>1, <2>2, <2>4
  <2>5. QED
    BY <2>2, <2>3, <2>4
<1>10. ASSUME NEW p \in Process,
              \/ Resized(p) \/ Mapped(p) \/ CloseSegment(p) \/ Dropped(p)
              \/ \E ptr, charged : NotMapped(p, ptr, charged)
              \/ \E a \in Area : StoreOffset(p, a) \/ ReadOffset(p, a)
       PROVE  ListInv'
  <2>1. UNCHANGED listing /\ UNCHANGED directory
    BY <1>10 DEF Resized, SizeShm, Mapped, NotMapped, StoreOffset, ReadOffset, CloseSegment,
                 Dropped, systemVars
  <2>2. \A q \in Process : pc'[q] = pc[q] \/ pc'[q] \notin {"scan", "size"}
    <3>1. CASE Resized(p) \/ Mapped(p)
      BY <3>1 DEF Resized, SizeShm, Mapped, GiveUp, Types
    <3>2. CASE \/ CloseSegment(p) \/ Dropped(p)
               \/ \E ptr, charged : NotMapped(p, ptr, charged)
      BY <3>2 DEF NotMapped, GiveUp, CloseSegment, Dropped, Types
    <3>3. CASE \E a \in Area : StoreOffset(p, a) \/ ReadOffset(p, a)
      BY <3>3 DEF StoreOffset, ReadOffset, Types
    <3>4. QED
      BY <1>10, <3>1, <3>2, <3>3
  <2>3. QED
    BY <1>1, <2>1, <2>2
<1>11. ASSUME UNCHANGED vars
       PROVE  ListInv'
  BY <1>11 DEF vars, systemVars, ListInv
<1>12. ASSUME NEW p \in Process, Step(p)
       PROVE  ListInv'
  <2>1. AStep(p)
    BY <1>12, Steps
  <2>2. QED
    BY <2>1, <1>3, <1>4, <1>5, <1>6, <1>7, <1>8, <1>9, <1>10 DEF AStep
<1>13. QED
  BY <1>11, <1>12 DEF Next

(* ListsWhatStays, for every number of processes and names: a list that is
   returned has every segment that was there all the time. *)
THEOREM ListsKeep == Spec => []ListsWhatStays
<1>1. Init => ListInv
  BY DEF Init, ListInv, NoListing
<1>2. ListInv => ListsWhatStays
  BY DEF ListInv, ListsWhatStays
<1>3. IndTypes /\ ListInv /\ [Next]_vars => ListInv'
  BY ListStep
<1>4. QED
  BY <1>1, <1>2, <1>3, TypesAlways, PTL DEF Spec

-----------------------------------------------------------------------------
(* Sizes.  An entry of a list that has a size is of a segment that has it.  On
   Windows there is a mapping only of such segments, and on Linux one without
   size is refused, unless its name stood for another segment in the list. *)
ListedSized(p) == \A e \in listing[p].found : e.size = "full" => e.segment \in full
ReachesSized(p) ==
  pc[p] \in {"map", "read"} =>
    \/ shm[p].segment \in full
    \/ platform = "linux" /\ ("replaced" \in mishap[p] \/ (pc[p] = "map" /\ shm[p].size = "empty"))
MapsSized(p) ==
  platform = "windows" =>
    /\ shm[p].map \/ shm[p].ptr = "mapped" => shm[p].segment \in full
    /\ \A h \in leaked[p] : h[2] \in {"map", "view"} => h[1] \in full

SizedInv == \A p \in Process : ListedSized(p) /\ ReachesSized(p) /\ MapsSized(p)

LEMMA MappedSized ==
  ASSUME IndTypes, SizedInv, platform = "windows", NEW s \in Segment, MappingExists(s)
  PROVE  s \in full
<1>1. PICK q \in Process : \/ shm[q].segment = s /\ (shm[q].map \/ shm[q].ptr = "mapped")
                           \/ leaked[q] \cap {<<s, "map">>, <<s, "view">>} # {}
  BY DEF MappingExists
<1>2. MapsSized(q)
  BY DEF SizedInv
<1>3. QED
  BY <1>1, <1>2 DEF MapsSized

LEMMA SizedStep ==
  ASSUME IndTypes, SizedInv, [Next]_vars
  PROVE  SizedInv'
<1> USE DEF IndTypes
<1>1. ASSUME NEW p \in Process, NEW q \in Process, AStep(p), q # p
      PROVE  /\ listing'[q].found = listing[q].found
             /\ UNCHANGED <<shm[q], pc[q], mishap[q], leaked[q]>>
  <2>1. CASE \E n \in Name : DeleteShm(p, n)
    BY <2>1 DEF DeleteShm, Types, Listing
  <2>2. CASE \/ \E n \in Name : CreateShm(p, n) \/ ScanEntry(p, n) \/ SizeEntry(p, n)
             \/ Opened(p) \/ Mapped(p) \/ StartListing(p) \/ EndListing(p) \/ Crash(p)
    BY <1>1, <2>2 DEF CreateShm, ScanEntry, SizeEntry, Opened, OpenShm, Mapped, StartListing,
                      EndListing, Crash, Types
  <2>3. CASE \E a \in Area : StoreOffset(p, a) \/ ReadOffset(p, a)
    BY <1>1, <2>3 DEF StoreOffset, ReadOffset, Types
  <2>4. CASE \/ Resized(p) \/ Dropped(p) \/ CloseSegment(p)
             \/ \E ptr \in {"null", "failed"}, charged \in {0, 1} : NotMapped(p, ptr, charged)
    BY <1>1, <2>4 DEF Resized, SizeShm, Dropped, CloseSegment, NotMapped, GiveUp, Types
  <2>5. QED
    BY <1>1, <2>1, <2>2, <2>3, <2>4 DEF AStep
<1>2. ASSUME NEW p \in Process, AStep(p)
      PROVE  full \subseteq full' /\ UNCHANGED platform
  BY <1>2 DEF AStep, CreateShm, DeleteShm, ScanEntry, SizeEntry, Resized, SizeShm, Opened, OpenShm,
              Mapped, NotMapped, StoreOffset, ReadOffset, CloseSegment, Dropped, StartListing,
              EndListing, Crash, systemVars
(* What each part of the invariant needs of a step. *)
<1>3. ASSUME NEW q \in Process, full \subseteq full', listing'[q].found \subseteq listing[q].found
      PROVE  ListedSized(q)'
  BY <1>3 DEF SizedInv, ListedSized
<1>4. ASSUME NEW q \in Process, full \subseteq full', UNCHANGED platform, shm'[q] = shm[q],
             pc'[q] = pc[q] \/ pc'[q] \notin {"map", "read"}, mishap[q] \subseteq mishap'[q]
      PROVE  ReachesSized(q)'
  BY <1>4 DEF SizedInv, ReachesSized
<1>5. ASSUME NEW q \in Process, full \subseteq full', UNCHANGED platform, leaked'[q] = leaked[q],
             shm'[q] = shm[q] \/ (~ shm'[q].map /\ shm'[q].ptr = "null")
      PROVE  MapsSized(q)'
  BY <1>5 DEF SizedInv, MapsSized
<1>6. ASSUME NEW p \in Process, NEW o \in Objects({"null", "mapped", "failed"}),
             NEW charged, NEW why, GiveUp(p, o, charged, why), full \subseteq full',
             UNCHANGED platform, listing'[p].found = listing[p].found,
             platform = "windows" /\ (o.map \/ o.ptr = "mapped") => o.segment \in full
      PROVE  ListedSized(p)' /\ ReachesSized(p)' /\ MapsSized(p)'
  <2>1. PICK a \in CloseShm(o) : leaked' = [leaked EXCEPT ![p] = @ \cup LeftBy(a)]
    BY <1>6 DEF GiveUp
  <2>2. Closed(o, a)
    BY Closing
  <2>3. pc'[p] = "idle" /\ shm'[p] = NoObject /\ leaked'[p] = leaked[p] \cup LeftBy(a)
    BY <1>6, <2>1 DEF GiveUp, Types
  <2>4. \A h \in LeftBy(a) : h[2] \in {"map", "view"} =>
          h[1] = o.segment /\ (o.map \/ o.ptr = "mapped")
    <3>1. ASSUME NEW h \in Held(a.object), h[2] \in {"map", "view"}
          PROVE  h[1] = o.segment /\ (o.map \/ o.ptr = "mapped")
      BY <2>2, <3>1 DEF Held, Closed
    <3>2. ASSUME NEW h \in a.lost
          PROVE  h[2] = "file"
      BY <2>2, <3>2 DEF Closed
    <3>3. QED
      BY <3>1, <3>2 DEF LeftBy
  <2>5. MapsSized(p)
    BY DEF SizedInv
  <2>6. MapsSized(p)'
    BY <1>6, <2>3, <2>4, <2>5, NewObjects DEF MapsSized, NoObject
  <2>7. QED
    BY <1>3, <1>6, <2>3, <2>6 DEF ReachesSized
<1>7. ASSUME NEW p \in Process, UNCHANGED <<platform, full, shm, mishap, leaked>>,
             pc'[p] = pc[p] \/ pc'[p] \notin {"map", "read"},
             listing'[p].found \subseteq listing[p].found
      PROVE  ListedSized(p)' /\ ReachesSized(p)' /\ MapsSized(p)'
  BY <1>3, <1>4, <1>5, <1>7
<1>8. ASSUME NEW p \in Process, NEW n \in Name, CreateShm(p, n)
      PROVE  ListedSized(p)' /\ ReachesSized(p)' /\ MapsSized(p)'
  <2> DEFINE b == Object(n, created + 1, "full")
             o == [b EXCEPT !.file = TRUE]
  <2>1. created + 1 \in 1 .. MaxSegments
    BY <1>8, SegmentsAssumption DEF CreateShm, Types
  <2>2. b \in Objects(Pointer) /\ ~ b.map /\ b.ptr = "null"
    BY <2>1, NewObjects DEF Object
  <2>3. /\ shm' = [shm EXCEPT ![p] = o] /\ pc' = [pc EXCEPT ![p] = "resize"]
        /\ UNCHANGED <<platform, full, leaked, listing>>
    BY <1>8 DEF CreateShm
  <2> HIDE DEF b
  <2>4. ~ o.map /\ o.ptr = "null"
    BY <2>2 DEF Objects
  <2> HIDE DEF o
  <2>5. shm'[p] = o /\ pc'[p] = "resize"
    BY <2>3 DEF Types
  <2>6. ReachesSized(p)'
    BY <2>5 DEF ReachesSized
  <2>7. QED
    BY <1>3, <1>5, <2>3, <2>4, <2>5, <2>6
<1>9. ASSUME NEW p \in Process, Resized(p)
      PROVE  ListedSized(p)' /\ ReachesSized(p)' /\ MapsSized(p)'
  <2>1. PICK sized \in Objects(Pointer) : SizeShm(p, sized) /\ sized.segment = shm[p].segment
    BY <1>9 DEF Resized
  <2>2. UNCHANGED <<platform, listing>> /\ full \subseteq full'
    BY <2>1 DEF SizeShm
  <2>3. CASE GiveUp(p, shm[p], 1, {})
    <3>1. shm[p] \in Objects({"null", "mapped", "failed"})
      BY DEF Types, Objects, Pointer
    <3>2. platform = "windows" /\ (shm[p].map \/ shm[p].ptr = "mapped") => shm[p].segment \in full
      BY DEF SizedInv, MapsSized
    <3>3. QED
      BY <1>6, <2>2, <2>3, <3>1, <3>2
  <2>4. CASE /\ full' = full \cup {shm[p].segment}
             /\ shm' = [shm EXCEPT ![p] = sized]
             /\ pc' = [pc EXCEPT ![p] = "map"]
             /\ UNCHANGED <<pointer, leaked, mishap, faults>>
    <3>1. shm'[p] = sized /\ shm'[p].segment \in full' /\ leaked'[p] = leaked[p]
      BY <2>1, <2>4 DEF Types
    <3>2. MapsSized(p)
      BY DEF SizedInv
    <3>3. ReachesSized(p)' /\ MapsSized(p)'
      BY <2>2, <3>1, <3>2 DEF ReachesSized, MapsSized
    <3>4. QED
      BY <1>3, <2>2, <3>3
  <2>5. QED
    BY <2>1, <2>3, <2>4 DEF SizeShm
<1>10. ASSUME NEW p \in Process, Opened(p)
       PROVE  ListedSized(p)' /\ ReachesSized(p)' /\ MapsSized(p)'
  <2>1. PICK e \in Entries, opened \in Objects(Pointer) :
          /\ OpenShm(p, e, opened)
          /\ opened.segment = directory[e.name] /\ opened.name = e.name
          /\ opened.ptr = "null" /\ opened.size = e.size /\ opened.exists
          /\ e \in listing[p].found
          /\ platform = "windows" => opened.segment \in full \/ MappingExists(opened.segment)
    BY <1>10 DEF Opened
  <2>2. /\ shm' = [shm EXCEPT ![p] = opened] /\ pc' = [pc EXCEPT ![p] = "map"]
        /\ mishap' = [mishap EXCEPT ![p] = @ \cup
             (IF directory[e.name] = e.segment THEN {} ELSE {"replaced"})]
        /\ listing' = [listing EXCEPT ![p] = NoListing]
        /\ UNCHANGED <<platform, full, leaked>> /\ directory[e.name] # 0
    BY <2>1 DEF OpenShm, systemVars
  <2>3. /\ shm'[p] = opened /\ pc'[p] = "map" /\ listing'[p].found = {}
        /\ mishap'[p] = mishap[p] \cup
             (IF directory[e.name] = e.segment THEN {} ELSE {"replaced"})
    BY <2>2 DEF Types, NoListing
  <2>4. platform = "windows" => opened.segment \in full
    <3>1. opened.segment \in Segment
      BY <2>1, <2>2 DEF Objects, Segment
    <3>2. QED
      BY <2>1, <3>1, MappedSized
  <2>5. e.size = "full" => e.segment \in full
    BY <2>1 DEF SizedInv, ListedSized
  <2>6. e.size \in {"empty", "full"}
    BY DEF Entries
  <2>7. ReachesSized(p)'
    BY <2>1, <2>2, <2>3, <2>4, <2>5, <2>6 DEF ReachesSized, Types
  <2>8. MapsSized(p)'
    <3>1. MapsSized(p)
      BY DEF SizedInv
    <3>2. QED
      BY <2>2, <2>3, <2>4, <3>1 DEF MapsSized
  <2>9. QED
    BY <1>3, <2>2, <2>3, <2>7, <2>8
<1>11. ASSUME NEW p \in Process, Mapped(p), platform = "linux" => shm[p].size # "empty"
       PROVE  ListedSized(p)' /\ ReachesSized(p)' /\ MapsSized(p)'
  <2>1. /\ pc[p] = "map" /\ mishap[p] \subseteq mishap'[p]
        /\ shm'[p].segment = shm[p].segment
        /\ UNCHANGED <<platform, full, leaked, listing>>
    BY <1>11 DEF Mapped, systemVars, Types, Objects
  <2>2. shm[p].segment \in full \/ (platform = "linux" /\ "replaced" \in mishap[p])
    BY <1>11, <2>1 DEF SizedInv, ReachesSized, Types
  <2>3. platform = "windows" => shm[p].segment \in full
    BY <2>2
  <2>4. MapsSized(p)
    BY DEF SizedInv
  <2>5. QED
    BY <1>3, <2>1, <2>2, <2>3, <2>4 DEF ReachesSized, MapsSized
<1>12. ASSUME NEW p \in Process, NEW ptr \in {"null", "failed"}, NEW charged \in {0, 1},
              NotMapped(p, ptr, charged)
       PROVE  ListedSized(p)' /\ ReachesSized(p)' /\ MapsSized(p)'
  <2> DEFINE o == [shm[p] EXCEPT !.ptr = ptr]
  <2>1. /\ o \in Objects({"null", "mapped", "failed"}) /\ o.segment = shm[p].segment
        /\ o.map = shm[p].map /\ o.ptr # "mapped"
    <3>1. shm[p] \in Objects(Pointer)
      BY DEF Types
    <3>2. CASE ptr = "null"
      BY <3>1, <3>2 DEF Objects, Pointer
    <3>3. CASE ptr = "failed"
      BY <3>1, <3>3 DEF Objects, Pointer
    <3>4. QED
      BY <3>2, <3>3
  <2>2. GiveUp(p, o, charged, {"map"}) /\ UNCHANGED <<platform, full, listing>>
    BY <1>12 DEF NotMapped, systemVars
  <2> HIDE DEF o
  <2>3. platform = "windows" /\ (o.map \/ o.ptr = "mapped") => o.segment \in full
    BY <2>1 DEF SizedInv, MapsSized
  <2>4. QED
    BY <1>6, <2>1, <2>2, <2>3
<1>13. ASSUME NEW p \in Process, Dropped(p)
       PROVE  ListedSized(p)' /\ ReachesSized(p)' /\ MapsSized(p)'
  <2>1. PICK o \in Objects(Pointer), charged \in {0, 1} :
          /\ GiveUp(p, o, charged, {})
          /\ o = shm[p] \/ (~ o.map /\ o.ptr = "null")
          /\ UNCHANGED <<platform, full, listing>>
    BY <1>13 DEF Dropped, systemVars
  <2>2. o \in Objects({"null", "mapped", "failed"})
    BY DEF Objects, Pointer
  <2>3. platform = "windows" /\ (o.map \/ o.ptr = "mapped") => o.segment \in full
    BY <2>1 DEF SizedInv, MapsSized
  <2>4. QED
    BY <1>6, <2>1, <2>2, <2>3
<1>14. ASSUME NEW p \in Process, CloseSegment(p)
       PROVE  ListedSized(p)' /\ ReachesSized(p)' /\ MapsSized(p)'
  <2>1. PICK a \in CloseShm(shm[p]) :
          /\ shm' = [shm EXCEPT ![p] = IF a.ok THEN NoObject ELSE a.object]
          /\ leaked' = [leaked EXCEPT ![p] = IF a.ok THEN @ \cup LeftBy(a) ELSE @]
    BY <1>14 DEF CloseSegment
  <2>2. Closed(shm[p], a)
    <3>1. shm[p] \in Objects({"null", "mapped", "failed"})
      BY DEF Types, Objects, Pointer
    <3>2. QED
      BY <3>1, Closing
  <2>3. pc'[p] = "idle" /\ UNCHANGED <<platform, full, listing>>
    BY <1>14 DEF CloseSegment, systemVars
  <2>4. ReachesSized(p)'
    BY <2>3 DEF ReachesSized
  <2>5. MapsSized(p)'
    <3>1. MapsSized(p)
      BY DEF SizedInv
    <3>2. CASE a.ok
      <4>1. \A h \in LeftBy(a) : h[2] = "file"
        BY <2>2, <3>2 DEF Closed, LeftBy
      <4>2. shm'[p] = NoObject /\ leaked'[p] = leaked[p] \cup LeftBy(a)
        BY <2>1, <3>2 DEF Types
      <4>3. QED
        BY <2>3, <3>1, <4>1, <4>2, NewObjects DEF MapsSized, NoObject
    <3>3. CASE ~ a.ok
      <4>1. shm'[p] = a.object /\ leaked'[p] = leaked[p]
        BY <2>1, <3>3 DEF Types
      <4>2. /\ a.object.segment = shm[p].segment /\ a.object.map => shm[p].map
            /\ a.object.ptr = "mapped" => shm[p].ptr = "mapped"
        BY <2>2 DEF Closed
      <4>3. QED
        BY <2>2, <2>3, <3>1, <4>1, <4>2 DEF MapsSized, Closed
    <3>4. QED
      BY <3>2, <3>3
  <2>6. QED
    BY <1>3, <2>3, <2>4, <2>5
<1>15. ASSUME NEW p \in Process, NEW n \in Name, SizeEntry(p, n)
       PROVE  ListedSized(p)' /\ ReachesSized(p)' /\ MapsSized(p)'
  <2>1. /\ UNCHANGED <<platform, full, shm, mishap, leaked>>
        /\ pc'[p] = pc[p] \/ pc'[p] = "idle"
    BY <1>15 DEF SizeEntry, systemVars, Types
  <2>2. \A e \in Sized(n) : e.size = "full" => e.segment \in full
    BY DEF Sized, Entry, SizeOf
  <2>3. listing'[p].found \subseteq listing[p].found \cup Sized(n)
    <3>1. CASE /\ directory[n] # 0
               /\ listing' = [listing EXCEPT ![p].sizing = @ \ {n},
                                             ![p].found = @ \cup Sized(n)]
      <4>1. listing'[p] = [listing[p] EXCEPT !.sizing = @ \ {n}, !.found = @ \cup Sized(n)]
        BY <3>1 DEF Types
      <4>2. QED
        BY <4>1, ListingAt DEF Listing
    <3>2. CASE listing' = [listing EXCEPT ![p].sizing = {}, ![p].steady = {}]
      <4>1. listing'[p] = [listing[p] EXCEPT !.sizing = {}, !.steady = {}]
        BY <3>2 DEF Types
      <4>2. QED
        BY <4>1, ListingAt DEF Listing
    <3>3. QED
      BY <1>15, <3>1, <3>2 DEF SizeEntry
  <2>4. ListedSized(p)'
    BY <2>1, <2>2, <2>3 DEF SizedInv, ListedSized
  <2>5. QED
    BY <1>4, <1>5, <2>1, <2>4
<1>16. ASSUME NEW p \in Process, Crash(p)
       PROVE  ListedSized(p)' /\ ReachesSized(p)' /\ MapsSized(p)'
  <2>1. /\ pc'[p] = "idle" /\ shm'[p] = NoObject /\ leaked'[p] = {} /\ listing'[p] = NoListing
    BY <1>16 DEF Crash, Types
  <2>2. QED
    BY <2>1, NewObjects DEF ListedSized, ReachesSized, MapsSized, NoListing, NoObject
<1>17. ASSUME NEW p \in Process,
              \/ \E n \in Name : DeleteShm(p, n) \/ ScanEntry(p, n)
              \/ \E a \in Area : StoreOffset(p, a) \/ ReadOffset(p, a)
              \/ StartListing(p) \/ EndListing(p)
       PROVE  ListedSized(p)' /\ ReachesSized(p)' /\ MapsSized(p)'
  <2>1. UNCHANGED <<platform, full, shm, mishap, leaked>>
    BY <1>17 DEF DeleteShm, ScanEntry, StoreOffset, ReadOffset, StartListing, EndListing, systemVars
  <2>2. pc'[p] = pc[p] \/ pc'[p] \notin {"map", "read"}
    BY <1>17 DEF DeleteShm, ScanEntry, StoreOffset, ReadOffset, StartListing, EndListing, Types
  <2>3. listing'[p].found \subseteq listing[p].found
    <3>1. CASE \E n \in Name : DeleteShm(p, n)
      <4>1. PICK n \in Name : listing'[p] = [listing[p] EXCEPT !.steady = @ \ {n}]
        BY <3>1 DEF DeleteShm
      <4>2. QED
        BY <4>1, ListingAt DEF Listing
    <3>2. CASE \E n \in Name : ScanEntry(p, n)
      BY <3>2, ListingAt DEF ScanEntry, Types, Listing
    <3>3. CASE StartListing(p) \/ EndListing(p)
      <4>1. CASE StartListing(p)
        <5>1. listing'[p] = [NoListing EXCEPT !.todo = Name,
                                              !.steady = {n \in Name : directory[n] # 0}]
          BY <4>1 DEF StartListing, Types
        <5>2. QED
          BY <5>1 DEF NoListing
      <4>2. CASE EndListing(p)
        <5>1. listing'[p] = [listing[p] EXCEPT !.steady = {}]
          BY <4>2 DEF EndListing, Types
        <5>2. QED
          BY <5>1, ListingAt DEF Listing
      <4>3. QED
        BY <3>3, <4>1, <4>2
    <3>4. CASE \E a \in Area : StoreOffset(p, a) \/ ReadOffset(p, a)
      BY <3>4 DEF StoreOffset, ReadOffset
    <3>5. QED
      BY <1>17, <3>1, <3>2, <3>3, <3>4
  <2>4. QED
    BY <1>7, <2>1, <2>2, <2>3
<1>18. ASSUME NEW p \in Process, Step(p)
       PROVE  SizedInv'
  <2>1. AStep(p)
    BY <1>18, Steps
  <2>2. ListedSized(p)' /\ ReachesSized(p)' /\ MapsSized(p)'
    BY <2>1, <1>8, <1>9, <1>10, <1>11, <1>12, <1>13, <1>14, <1>15, <1>16, <1>17 DEF AStep
  <2>3. ASSUME NEW q \in Process, q # p
        PROVE  ListedSized(q)' /\ ReachesSized(q)' /\ MapsSized(q)'
    BY <2>1, <2>3, <1>1, <1>2, <1>3, <1>4, <1>5
  <2>4. QED
    BY <2>2, <2>3 DEF SizedInv
<1>19. ASSUME UNCHANGED vars
       PROVE  SizedInv'
  BY <1>19 DEF vars, systemVars, SizedInv, ListedSized, ReachesSized, MapsSized
<1>20. QED
  BY <1>18, <1>19 DEF Next

(* SizedWhenRead, for every number of processes, names and segments: who is
   about to touch a segment that it listed and opened finds it with its size,
   unless, on Linux, the name stands for another one by then. *)
THEOREM ReadsSized == Spec => []SizedWhenRead
<1>1. Init => SizedInv
  BY NewObjects DEF Init, SizedInv, ListedSized, ReachesSized, MapsSized, NoListing, NoObject
<1>2. SizedInv => SizedWhenRead
  BY DEF SizedInv, ReachesSized, SizedWhenRead
<1>3. IndTypes /\ SizedInv /\ [Next]_vars => SizedInv'
  BY SizedStep
<1>4. QED
  BY <1>1, <1>2, <1>3, TypesAlways, PTL DEF Spec

-----------------------------------------------------------------------------
(* What is held without an object.  Only MAP_FAILED makes closeShm fail by
   itself, and only a failed mapping on Linux leaves it. *)
LEMMA HeldStep ==
  ASSUME IndTypes, NothingHeld, [Next]_vars
  PROVE  NothingHeld'
<1> USE DEF IndTypes
<1>1. ASSUME NEW p \in Process, NEW o \in Objects({"null", "mapped", "failed"}),
             NEW charged \in {0, 1}, NEW why \in SUBSET {"map"}, GiveUp(p, o, charged, why),
             o.ptr = "failed" => why = {"map"}, UNCHANGED platform
      PROVE  NothingHeld'
  <2>1. PICK a \in CloseShm(o) :
          /\ leaked' = [leaked EXCEPT ![p] = @ \cup LeftBy(a)]
          /\ mishap' = [mishap EXCEPT ![p] = (@ \ OfObject) \cup
               (IF LeftBy(a) = {} THEN {}
                ELSE why \cup (IF a.charged = 1 THEN {"close"} ELSE {}))]
    BY <1>1 DEF GiveUp
  <2>2. Closed(o, a)
    BY Closing
  <2>3. CASE LeftBy(a) = {}
    <3>1. leaked' = leaked
      BY <2>1, <2>3 DEF Types
    <3>2. mishap' = [mishap EXCEPT ![p] = @ \ OfObject]
      BY <2>1, <2>3
    <3>3. QED
      BY <3>1, <3>2, <1>1 DEF NothingHeld, Types, OfObject
  <2>4. CASE LeftBy(a) # {}
    <3>1. "close" \in mishap'[p] \/ (platform = "linux" /\ "map" \in mishap'[p])
      <4>1. mishap'[p] = (mishap[p] \ OfObject) \cup
                         (why \cup (IF a.charged = 1 THEN {"close"} ELSE {}))
        BY <2>1, <2>4 DEF Types
      <4>2. a.charged = 1 \/ (platform = "linux" /\ o.ptr = "failed")
        BY <2>2, <2>4 DEF Closed, LeftBy
      <4>3. QED
        BY <4>1, <4>2, <1>1
    <3>2. \A q \in Process \ {p} : leaked'[q] = leaked[q] /\ mishap'[q] = mishap[q]
      BY <2>1 DEF Types
    <3>3. QED
      BY <3>1, <3>2, <1>1 DEF NothingHeld
  <2>5. QED
    BY <2>3, <2>4
<1>2. ASSUME UNCHANGED <<platform, leaked>>,
             \A q \in Process : mishap[q] \cap {"close", "map"} \subseteq mishap'[q]
      PROVE  NothingHeld'
  BY <1>2 DEF NothingHeld
<1>3. ASSUME NEW p \in Process, Resized(p)
      PROVE  NothingHeld'
  <2>1. UNCHANGED platform /\ (GiveUp(p, shm[p], 1, {}) \/ UNCHANGED <<leaked, mishap>>)
    BY <1>3 DEF Resized, SizeShm
  <2>2. shm[p] \in Objects({"null", "mapped", "failed"}) /\ shm[p].ptr # "failed"
    BY DEF Types, Objects, Pointer
  <2>3. CASE UNCHANGED <<leaked, mishap>>
    BY <2>1, <2>3, <1>2
  <2>4. QED
    BY <2>1, <2>2, <2>3, <1>1
<1>4. ASSUME NEW p \in Process, NEW ptr \in {"null", "failed"}, NEW charged \in {0, 1},
             NotMapped(p, ptr, charged)
      PROVE  NothingHeld'
  <2> DEFINE o == [shm[p] EXCEPT !.ptr = ptr]
  <2>1. o \in Objects({"null", "mapped", "failed"})
    <3>1. shm[p] \in Objects(Pointer)
      BY DEF Types
    <3>2. CASE ptr = "null"
      BY <3>1, <3>2 DEF Objects, Pointer
    <3>3. CASE ptr = "failed"
      BY <3>1, <3>3 DEF Objects, Pointer
    <3>4. QED
      BY <3>2, <3>3
  <2>2. GiveUp(p, o, charged, {"map"}) /\ UNCHANGED platform
    BY <1>4 DEF NotMapped
  <2> HIDE DEF o
  <2>3. QED
    BY <2>1, <2>2, <1>1
<1>5. ASSUME NEW p \in Process, Dropped(p)
      PROVE  NothingHeld'
  <2>1. PICK o \in Objects(Pointer), charged \in {0, 1} :
          GiveUp(p, o, charged, {}) /\ UNCHANGED platform
    BY <1>5 DEF Dropped
  <2>2. o \in Objects({"null", "mapped", "failed"}) /\ o.ptr # "failed"
    BY DEF Objects, Pointer
  <2>3. QED
    BY <2>1, <2>2, <1>1
<1>6. ASSUME NEW p \in Process, CloseSegment(p)
      PROVE  NothingHeld'
  <2>1. PICK a \in CloseShm(shm[p]) :
          /\ leaked' = [leaked EXCEPT ![p] = IF a.ok THEN @ \cup LeftBy(a) ELSE @]
          /\ mishap' = [mishap EXCEPT ![p] =
               IF a.ok THEN (@ \ OfObject) \cup (IF a.lost = {} THEN {} ELSE {"close"})
               ELSE @ \cup (IF a.object.ptr = "null" THEN {"half"} ELSE {})]
    BY <1>6 DEF CloseSegment
  <2>2. Closed(shm[p], a)
    <3>1. shm[p] \in Objects({"null", "mapped", "failed"})
      BY DEF Types, Objects, Pointer
    <3>2. QED
      BY <3>1, Closing
  <2>3. UNCHANGED platform
    BY <1>6 DEF CloseSegment
  <2>4. \A q \in Process : mishap[q] \cap {"close", "map"} \subseteq mishap'[q]
    BY <2>1 DEF Types, OfObject
  <2>5. \A q \in Process : leaked'[q] = leaked[q] \/ "close" \in mishap'[q]
    <3>1. \A q \in Process \ {p} : leaked'[q] = leaked[q]
      BY <2>1 DEF Types
    <3>2. CASE a.ok /\ a.lost # {}
      <4>1. "close" \in mishap'[p]
        BY <2>1, <3>2 DEF Types
      <4>2. QED
        BY <3>1, <4>1
    <3>3. CASE ~ a.ok \/ a.lost = {}
      <4>1. a.ok => LeftBy(a) = {}
        BY <2>2, <3>3 DEF Closed, LeftBy
      <4>2. leaked'[p] = leaked[p]
        BY <2>1, <4>1 DEF Types
      <4>3. QED
        BY <3>1, <4>2
    <3>4. QED
      BY <3>2, <3>3
  <2>6. QED
    BY <2>3, <2>4, <2>5 DEF NothingHeld
<1>7. ASSUME NEW p \in Process, Crash(p)
      PROVE  NothingHeld'
  BY <1>7 DEF Crash, NothingHeld, Types
<1>8. ASSUME NEW p \in Process, Mapped(p)
      PROVE  NothingHeld'
  <2>1. UNCHANGED <<platform, leaked>>
    BY <1>8 DEF Mapped
  <2>2. \A q \in Process : mishap[q] \cap {"close", "map"} \subseteq mishap'[q]
    BY <1>8 DEF Mapped, Types
  <2>3. QED
    BY <2>1, <2>2, <1>2
<1>9. ASSUME NEW p \in Process, Opened(p)
      PROVE  NothingHeld'
  <2>1. UNCHANGED <<platform, leaked>>
    BY <1>9 DEF Opened, OpenShm
  <2>2. \A q \in Process : mishap[q] \cap {"close", "map"} \subseteq mishap'[q]
    BY <1>9 DEF Opened, OpenShm, Types
  <2>3. QED
    BY <2>1, <2>2, <1>2
<1>10. ASSUME UNCHANGED <<platform, leaked, mishap>>
       PROVE  NothingHeld'
  BY <1>10 DEF NothingHeld
<1>11. ASSUME NEW p \in Process, Step(p)
       PROVE  NothingHeld'
  <2>1. AStep(p)
    BY <1>11, Steps
  <2>2. ASSUME \/ \E n \in Name : \/ CreateShm(p, n) \/ DeleteShm(p, n)
                                  \/ ScanEntry(p, n) \/ SizeEntry(p, n)
               \/ \E a \in Area : StoreOffset(p, a) \/ ReadOffset(p, a)
               \/ StartListing(p) \/ EndListing(p)
        PROVE  UNCHANGED <<platform, leaked, mishap>>
    BY <2>2 DEF CreateShm, DeleteShm, ScanEntry, SizeEntry, StoreOffset, ReadOffset, StartListing,
                EndListing
  <2>3. QED
    BY <2>1, <2>2, <1>3, <1>4, <1>5, <1>6, <1>7, <1>8, <1>9, <1>10 DEF AStep
<1>12. QED
  BY <1>11, <1>10 DEF Next, vars

(* NothingHeld, for every number of segments and faults: without an object a
   manager holds nothing, unless a mapping failed on Linux or a clean-up did. *)
THEOREM NothingLeaks == Spec => []NothingHeld
<1>1. Init => NothingHeld
  BY DEF Init, NothingHeld
<1>2. IndTypes /\ NothingHeld /\ [Next]_vars => NothingHeld'
  BY HeldStep
<1>3. QED
  BY <1>1, <1>2, TypesAlways, PTL DEF Spec

-----------------------------------------------------------------------------
(* Pointers.  A segment whose creation returned has its whole header, and who
   reads a header of another one has opened it early. *)
PointerInv ==
  /\ \A s \in complete : header[s] = Area
  /\ \A p \in Process :
       /\ pc[p] = "read" /\ shm[p].segment \notin complete => "early" \in mishap[p]
       /\ \A a \in Area :
            /\ pointer[p][a] # "null" => shm[p].ptr = "mapped" \/ "half" \in mishap[p]
            /\ pointer[p][a] = "start" => "early" \in mishap[p]

LEMMA PointerStep ==
  ASSUME IndTypes, PointerInv, [Next]_vars
  PROVE  PointerInv'
<1> USE DEF IndTypes
<1>1. ASSUME NEW p \in Process, NEW at, at # "read", pc' = [pc EXCEPT ![p] = at],
             NEW o, shm' = [shm EXCEPT ![p] = o],
             pointer' = [pointer EXCEPT ![p] = NoPointers],
             \A q \in Process \ {p} : mishap'[q] = mishap[q], UNCHANGED <<complete, header>>
      PROVE  PointerInv'
  <2>1. \A q \in Process \ {p} : pc'[q] = pc[q] /\ shm'[q] = shm[q] /\ pointer'[q] = pointer[q]
    BY <1>1 DEF Types
  <2>2. pc'[p] = at /\ pointer'[p] = NoPointers /\ \A a \in Area : NoPointers[a] = "null"
    BY <1>1 DEF Types, NoPointers
  <2>3. QED
    BY <1>1, <2>1, <2>2 DEF PointerInv
<1>2. ASSUME NEW p \in Process, NEW o, NEW charged, NEW why, GiveUp(p, o, charged, why),
             UNCHANGED <<complete, header>>
      PROVE  PointerInv'
  <2>1. \A q \in Process \ {p} : mishap'[q] = mishap[q]
    BY <1>2 DEF GiveUp, Types
  <2>2. /\ pc' = [pc EXCEPT ![p] = "idle"] /\ shm' = [shm EXCEPT ![p] = NoObject]
        /\ pointer' = [pointer EXCEPT ![p] = NoPointers]
    BY <1>2 DEF GiveUp
  <2>3. QED
    BY <1>1, <1>2, <2>1, <2>2
<1>3. ASSUME NEW p \in Process, Crash(p)
      PROVE  PointerInv'
  <2>1. \A q \in Process \ {p} : mishap'[q] = mishap[q]
    BY <1>3 DEF Crash, Types
  <2>2. /\ pc' = [pc EXCEPT ![p] = "idle"] /\ shm' = [shm EXCEPT ![p] = NoObject]
        /\ pointer' = [pointer EXCEPT ![p] = NoPointers] /\ UNCHANGED <<complete, header>>
    BY <1>3 DEF Crash, systemVars
  <2>3. QED
    BY <1>1, <2>1, <2>2
(* An object without pointers becomes another, on the way to its mapping. *)
<1>4. ASSUME NEW p \in Process, NEW at, at # "read", pc' = [pc EXCEPT ![p] = at],
             NEW o, shm' = [shm EXCEPT ![p] = o],
             pointer[p] = NoPointers, UNCHANGED <<pointer, complete, header>>,
             \A q \in Process \ {p} : mishap'[q] = mishap[q]
      PROVE  PointerInv'
  <2>1. pointer' = [pointer EXCEPT ![p] = NoPointers]
    BY <1>4 DEF Types
  <2>2. QED
    BY <1>1, <1>4, <2>1
<1>5. ASSUME NEW p \in Process, \/ \E n \in Name : CreateShm(p, n)
                                \/ Opened(p) \/ Resized(p)
      PROVE  PointerInv'
  <2>1. UNCHANGED <<complete, header>>
    BY <1>5 DEF CreateShm, Opened, OpenShm, Resized, SizeShm, systemVars
  <2>2. CASE GiveUp(p, shm[p], 1, {})
    BY <2>1, <2>2, <1>2
  <2>3. CASE ~ GiveUp(p, shm[p], 1, {})
    <3>1. pointer[p] = NoPointers
      BY <1>5 DEF CreateShm, Opened, OpenShm, Resized, SizeShm, Objected
    <3>2. \E at, o : /\ at # "read" /\ pc' = [pc EXCEPT ![p] = at]
                     /\ shm' = [shm EXCEPT ![p] = o] /\ UNCHANGED pointer
      BY <1>5, <2>3 DEF CreateShm, Opened, OpenShm, Resized, SizeShm
    <3>3. \A q \in Process \ {p} : mishap'[q] = mishap[q]
      BY <1>5, <2>3 DEF CreateShm, Opened, OpenShm, Resized, SizeShm, Types
    <3>4. QED
      BY <3>1, <3>2, <3>3, <2>1, <1>4
  <2>4. QED
    BY <2>2, <2>3
<1>6. ASSUME NEW p \in Process, Mapped(p)
      PROVE  PointerInv'
  <2>1. /\ shm'[p].ptr = "mapped" /\ shm'[p].segment = shm[p].segment
        /\ pc'[p] = "read" /\ shm[p].segment \notin complete => "early" \in mishap'[p]
        /\ mishap[p] \subseteq mishap'[p]
    BY <1>6 DEF Mapped, Types, Objects, Process
  <2>2. \A q \in Process \ {p} : pc'[q] = pc[q] /\ shm'[q] = shm[q] /\ mishap'[q] = mishap[q]
    BY <1>6 DEF Mapped, Types
  <2>3. UNCHANGED <<pointer, complete, header>>
    BY <1>6 DEF Mapped, systemVars
  <2>4. QED
    BY <2>1, <2>2, <2>3 DEF PointerInv
<1>7. ASSUME NEW p \in Process, NEW a \in Area, StoreOffset(p, a)
      PROVE  PointerInv'
  <2> DEFINE s == shm[p].segment
  <2>1. s \in Segment
    BY <1>7 DEF StoreOffset, Types, Objected, Objects, Segment
  <2>2. /\ header' = [header EXCEPT ![s] = @ \cup {a}]
        /\ UNCHANGED <<shm, mishap>> /\ pc[p] = "store"
    BY <1>7 DEF StoreOffset
  <2>3. \A t \in Segment : header[t] \subseteq header'[t] /\ header'[t] \subseteq Area
    BY <2>1, <2>2 DEF Types
  <2>4. shm[p].ptr = "mapped"
    BY <2>2 DEF Objected
  <2>5. CASE header'[s] = Area
    <3>1. /\ pointer' = [pointer EXCEPT ![p] = [b \in Area |-> "area"]]
          /\ complete' = complete \cup {s} /\ pc' = [pc EXCEPT ![p] = "idle"]
      BY <1>7, <2>5 DEF StoreOffset, AllStored
    <3> HIDE DEF s
    <3>2. \A t \in complete' : header'[t] = Area
      BY <2>3, <2>5, <3>1 DEF PointerInv, Types
    <3>3. /\ \A q \in Process \ {p} : pc'[q] = pc[q] /\ pointer'[q] = pointer[q]
          /\ pc'[p] = "idle" /\ \A b \in Area : pointer'[p][b] = "area"
      BY <3>1 DEF Types
    <3>4. QED
      BY <2>2, <2>4, <3>1, <3>2, <3>3 DEF PointerInv
  <2>6. CASE header'[s] # Area
    <3>1. UNCHANGED <<pointer, complete, pc>>
      BY <1>7, <2>6 DEF StoreOffset, AllStored
    <3> HIDE DEF s
    <3>2. \A t \in complete' : header'[t] = Area
      BY <2>3, <3>1 DEF PointerInv, Types
    <3>3. QED
      BY <2>2, <3>1, <3>2 DEF PointerInv
  <2>7. QED
    BY <2>5, <2>6
<1>8. ASSUME NEW p \in Process, NEW a \in Area, ReadOffset(p, a)
      PROVE  PointerInv'
  <2> DEFINE w == IF a \in header[shm[p].segment] THEN "area" ELSE "start"
  <2>1. /\ pc[p] = "read" /\ pointer' = [pointer EXCEPT ![p][a] = w]
        /\ UNCHANGED <<complete, header, shm, mishap>>
    BY <1>8 DEF ReadOffset, systemVars
  <2>2. w = "start" => "early" \in mishap[p]
    BY <2>1 DEF PointerInv
  <2>3. shm[p].ptr = "mapped"
    BY <2>1 DEF Objected
  <2> HIDE DEF w
  <2>4. /\ \A q \in Process \ {p} : pointer'[q] = pointer[q]
        /\ \A b \in Area \ {a} : pointer'[p][b] = pointer[p][b]
        /\ pointer'[p][a] = w
    BY <2>1 DEF Types
  <2>5. \A q \in Process : pc'[q] = "read" => pc[q] = "read"
    BY <1>8 DEF ReadOffset, Types
  <2>6. QED
    BY <2>1, <2>2, <2>3, <2>4, <2>5 DEF PointerInv
<1>9. ASSUME NEW p \in Process, CloseSegment(p)
      PROVE  PointerInv'
  <2>1. PICK a \in CloseShm(shm[p]) :
          /\ shm' = [shm EXCEPT ![p] = IF a.ok THEN NoObject ELSE a.object]
          /\ pointer' = [pointer EXCEPT ![p] = PointersAfter(p, a.ok)]
          /\ mishap' = [mishap EXCEPT ![p] =
               IF a.ok THEN (@ \ OfObject) \cup (IF a.lost = {} THEN {} ELSE {"close"})
               ELSE @ \cup (IF a.object.ptr = "null" THEN {"half"} ELSE {})]
    BY <1>9 DEF CloseSegment
  <2>2. pc[p] = "idle" /\ UNCHANGED <<pc, complete, header>>
    BY <1>9 DEF CloseSegment, systemVars
  <2>3. \A q \in Process \ {p} : mishap'[q] = mishap[q] /\ shm'[q] = shm[q]
    BY <2>1 DEF Types
  <2>4. CASE a.ok
    <3>1. pc' = [pc EXCEPT ![p] = "idle"]
      BY <2>2 DEF Types
    <3>2. shm' = [shm EXCEPT ![p] = NoObject] /\ pointer' = [pointer EXCEPT ![p] = NoPointers]
      BY <2>1, <2>4 DEF PointersAfter
    <3>3. QED
      BY <3>1, <3>2, <2>2, <2>3, <1>1
  <2>5. CASE ~ a.ok
    <3>1. Closed(shm[p], a)
      <4>1. shm[p] \in Objects({"null", "mapped", "failed"})
        BY DEF Types, Objects, Pointer
      <4>2. QED
        BY <4>1, Closing
    <3>2. pointer' = pointer
      BY <2>1, <2>5 DEF PointersAfter, Types
    <3>3. /\ shm'[p] = a.object /\ mishap[p] \subseteq mishap'[p]
          /\ a.object.ptr = "null" => "half" \in mishap'[p]
      BY <2>1, <2>5 DEF Types
    <3>4. a.object.ptr = shm[p].ptr \/ a.object.ptr = "null"
      BY <3>1, <2>5 DEF Closed
    <3>5. QED
      BY <2>2, <2>3, <3>2, <3>3, <3>4 DEF PointerInv
  <2>6. QED
    BY <2>4, <2>5
<1>10. ASSUME NEW p \in Process, \/ \E ptr, charged : NotMapped(p, ptr, charged)
                                 \/ Dropped(p)
       PROVE  PointerInv'
  BY <1>10, <1>2 DEF NotMapped, Dropped, systemVars
<1>11. ASSUME UNCHANGED <<shm, pointer, mishap, complete, header>>,
              \A q \in Process : pc'[q] = "read" => pc[q] = "read"
       PROVE  PointerInv'
  BY <1>11 DEF PointerInv
<1>12. ASSUME NEW p \in Process, \/ \E n \in Name : \/ DeleteShm(p, n)
                                                    \/ ScanEntry(p, n) \/ SizeEntry(p, n)
                                 \/ StartListing(p) \/ EndListing(p)
       PROVE  PointerInv'
  <2>1. UNCHANGED <<shm, pointer, mishap, complete, header>>
    BY <1>12 DEF DeleteShm, ScanEntry, SizeEntry, StartListing, EndListing, systemVars
  <2>2. \A q \in Process : pc'[q] = "read" => pc[q] = "read"
    BY <1>12 DEF DeleteShm, ScanEntry, SizeEntry, StartListing, EndListing, Types
  <2>3. QED
    BY <2>1, <2>2, <1>11
<1>13. ASSUME NEW p \in Process, Step(p)
       PROVE  PointerInv'
  <2>1. AStep(p)
    BY <1>13, Steps
  <2>2. QED
    BY <2>1, <1>3, <1>5, <1>6, <1>7, <1>8, <1>9, <1>10, <1>12 DEF AStep
<1>14. QED
  BY <1>11, <1>13 DEF Next, vars, systemVars

(* PointersRight, for every number of processes, names and segments: the
   pointers into a segment lead to mapped memory and to the areas meant. *)
THEOREM PointersLead == Spec => []PointersRight
<1>1. Init => PointerInv
  BY DEF Init, PointerInv, NoPointers
<1>2. PointerInv => PointersRight
  BY DEF PointerInv, PointersRight
<1>3. IndTypes /\ PointerInv /\ [Next]_vars => PointerInv'
  BY PointerStep
<1>4. QED
  BY <1>1, <1>2, <1>3, TypesAlways, PTL DEF Spec
=============================================================================
