--------------------------- MODULE SharedSegments ---------------------------
(***************************************************************************)
(* Shared memory segments of life signs among several processes: OsShm on  *)
(* Linux and Windows, and the life-sign manager of each process that       *)
(* creates, opens, closes, lists and deletes segments.                     *)
(*                                                                         *)
(* A segment is a file in a directory: an object under /dev/shm on Linux,  *)
(* the backing file of a named mapping on Windows.  Every system call that *)
(* another process can notice is a step, may fail (MaxFaults bounds how    *)
(* many do), and a process may crash between any two of them.  A process   *)
(* is single-threaded here; its threads are the subject of LifeSignSlots.  *)
(***************************************************************************)
EXTENDS Integers, FiniteSets

CONSTANTS
  Owner,       (* processes that create segments                           *)
  Inspector,   (* processes that open what others created                  *)
  Name,        (* segment names: process, its id, the time in seconds      *)
  NoName,
  MaxSegments, (* bound: segments ever created                             *)
  MaxFaults,   (* bound: system calls that fail                            *)
  MaxCrashes   (* bound: crashes of processes                              *)

ASSUME SegmentsAssumption ==
  /\ Owner \cap Inspector = {} /\ NoName \notin Name
  /\ MaxSegments \in Nat /\ MaxFaults \in Nat /\ MaxCrashes \in Nat

VARIABLES
  platform,  (* "linux" or "windows"                                       *)
  created,   (* number of segments created so far, which names the last    *)
  full,      (* segments that have their size; others are empty files      *)
  header,    (* of each segment: the areas whose offset its header holds   *)
  directory, (* the segment each name stands for, 0 for none               *)
  complete,  (* history: segments whose creation returned                  *)
  pc,        (* of each process: what it is about to do                    *)
  shm,       (* of each process: its OsShm object                          *)
  pointer,   (* of each process: where m_contextAreaHeader, m_lifeSignArea *)
             (* point: to the "start" of the segment or to their "area"    *)
  leaked,    (* of each process: what it holds without an object           *)
  mishap,    (* history of each process: what went wrong or came too early *)
  listing,   (* of each process: the list of segments, as far as it got    *)
  faults, crashes

systemVars == <<created, full, header, directory, complete>>
boundVars == <<faults, crashes>>
vars == <<platform, systemVars, pc, shm, pointer, leaked, mishap, listing, boundVars>>

Process == Owner \cup Inspector
Segment == 1 .. MaxSegments
Area == {"context", "threads"}

(* An OsShm object: m_shmPtr; whether it holds the descriptor or handle of
   the file, and on Windows that of the mapping; the segment, the name and
   the size it was opened with. *)
NoObject == [exists |-> FALSE, ptr |-> "null", file |-> FALSE, map |-> FALSE,
             segment |-> 0, name |-> NoName, size |-> "empty"]
Object(n, s, size) == [exists |-> TRUE, ptr |-> "null", file |-> FALSE, map |-> FALSE,
                       segment |-> s, name |-> n, size |-> size]
Held(o) == {<<o.segment, r>> : r \in (IF o.ptr = "mapped" THEN {"view"} ELSE {})
                               \cup (IF o.map THEN {"map"} ELSE {})
                               \cup (IF o.file THEN {"file"} ELSE {})}
NoPointers == [a \in Area |-> "null"]
(* Mishaps that concern the object a process has, and go with it. *)
OfObject == {"early", "half", "replaced"}
NoListing == [todo |-> {}, sizing |-> {}, found |-> {}, steady |-> {}]

Init ==
  /\ platform \in {"linux", "windows"}
  /\ created = 0 /\ full = {} /\ header = [s \in Segment |-> {}]
  /\ directory = [n \in Name |-> 0] /\ complete = {}
  /\ pc = [p \in Process |-> "idle"]
  /\ shm = [p \in Process |-> NoObject]
  /\ pointer = [p \in Process |-> NoPointers]
  /\ leaked = [p \in Process |-> {}] /\ mishap = [p \in Process |-> {}]
  /\ listing = [p \in Process |-> NoListing]
  /\ faults = 0 /\ crashes = 0

-----------------------------------------------------------------------------
(* closeShm: unmaps, closes the mapping (Windows) and the file, in this
   order, and stops at the first that fails. *)
Unmapped(o) == [o EXCEPT !.ptr = "null"]
(* A fault: the file is left open. *)
FileLeft(o) == [o EXCEPT !.ptr = "null", !.map = FALSE]
Emptied(o) == [o EXCEPT !.ptr = "null", !.map = FALSE, !.file = FALSE]

Outcome(o, ok, charged) == [object |-> o, ok |-> ok, charged |-> charged, lost |-> {}]
LeftBy(a) == Held(a.object) \cup a.lost
UnmapFails(o) == IF o.ptr = "mapped" THEN {Outcome(o, FALSE, 1)} ELSE {}
CloseFails(o, held) == IF held THEN {Outcome(Unmapped(o), FALSE, 1)} ELSE {}

(* A failed mmap leaves m_shmPtr at MAP_FAILED, which cannot be unmapped. *)
CloseLinuxShm(o) ==
  IF o.ptr = "failed" THEN {Outcome(o, FALSE, 0)}
  ELSE {Outcome(Emptied(o), TRUE, 0)} \cup UnmapFails(o) \cup CloseFails(o, o.file)
(* The result of closing the backing file is ignored: when it fails, the
   object forgets a handle that stays open, and closeShm succeeds. *)
FileLost(o) ==
  IF o.file THEN {[Outcome(Emptied(o), TRUE, 1) EXCEPT !.lost = {<<o.segment, "file">>}]}
  ELSE {}
CloseWin32Shm(o) ==
  {Outcome(Emptied(o), TRUE, 0)} \cup UnmapFails(o) \cup CloseFails(o, o.map) \cup FileLost(o)
CloseShm(o) == IF platform = "linux" THEN CloseLinuxShm(o) ELSE CloseWin32Shm(o)

(* A create or open that fails after the object took hold of something, and
   the manager's destructor: closeShm, whose result is ignored, and the
   object is deleted. *)
GiveUp(p, o, charged, why) ==
  \E a \in CloseShm(o) :
    /\ faults' = faults + charged + a.charged
    /\ faults' <= MaxFaults
    /\ leaked' = [leaked EXCEPT ![p] = @ \cup LeftBy(a)]
    /\ mishap' = [mishap EXCEPT ![p] = (@ \ OfObject) \cup
         (IF LeftBy(a) = {} THEN {} ELSE why \cup (IF a.charged = 1 THEN {"close"} ELSE {}))]
    /\ shm' = [shm EXCEPT ![p] = NoObject]
    /\ pointer' = [pointer EXCEPT ![p] = NoPointers]
    /\ pc' = [pc EXCEPT ![p] = "idle"]

-----------------------------------------------------------------------------
(* createLifeSignShmSegment.  The file of the name must not exist yet. *)
CreateShm(p, n) ==
  /\ pc[p] = "idle" /\ ~shm[p].exists /\ p \in Owner
  /\ directory[n] = 0 /\ created < MaxSegments
  /\ created' = created + 1
  /\ directory' = [directory EXCEPT ![n] = created + 1]
  /\ shm' = [shm EXCEPT ![p] = [Object(n, created + 1, "full") EXCEPT !.file = TRUE]]
  /\ pc' = [pc EXCEPT ![p] = "resize"]
  /\ UNCHANGED <<platform, full, header, complete, pointer, leaked, mishap, listing,
                 boundVars>>

(* The file gets its size, by ftruncate or by CreateFileMapping.  The file of
   a creation that fails from here on stays, with its name. *)
SizeShm(p, sized) ==
  /\ pc[p] = "resize"
  /\ \/ /\ full' = full \cup {shm[p].segment}
        /\ shm' = [shm EXCEPT ![p] = sized]
        /\ pc' = [pc EXCEPT ![p] = "map"]
        /\ UNCHANGED <<pointer, leaked, mishap, faults>>
     \/ GiveUp(p, shm[p], 1, {}) /\ UNCHANGED full
  /\ UNCHANGED <<platform, created, header, directory, complete, listing, crashes>>

Truncate(p) == platform = "linux" /\ SizeShm(p, shm[p])
CreateMapping(p) == platform = "windows" /\ SizeShm(p, [shm[p] EXCEPT !.map = TRUE])

(* mmap, MapViewOfFile *)
Mapped(p) ==
  /\ pc[p] = "map"
  /\ shm' = [shm EXCEPT ![p].ptr = "mapped"]
  /\ pc' = [pc EXCEPT ![p] = IF p \in Owner THEN "store" ELSE "read"]
  /\ mishap' = [mishap EXCEPT ![p] = @ \cup
       (IF p \in Inspector /\ shm[p].segment \notin complete THEN {"early"} ELSE {})]
  /\ UNCHANGED <<platform, systemVars, pointer, leaked, listing, boundVars>>
NotMapped(p, ptr, charged) ==
  /\ pc[p] = "map"
  /\ GiveUp(p, [shm[p] EXCEPT !.ptr = ptr], charged, {"map"})
  /\ UNCHANGED <<platform, systemVars, listing, crashes>>

(* A length of zero is refused by mmap; for MapViewOfFile it means the whole
   file. *)
MapLinuxShm(p) ==
  /\ platform = "linux"
  /\ \/ shm[p].size # "empty" /\ Mapped(p)
     \/ NotMapped(p, "failed", IF shm[p].size = "empty" THEN 0 ELSE 1)
MapWin32Shm(p) == platform = "windows" /\ (Mapped(p) \/ NotMapped(p, "null", 1))

(* The owner fills in the header by plain stores, which others may see in
   any order, and then sets its own pointers. *)
AllStored(s) == header'[s] = Area

StoreOffset(p, a) ==
  LET s == shm[p].segment IN
  /\ pc[p] = "store" /\ a \notin header[s]
  /\ header' = [header EXCEPT ![s] = @ \cup {a}]
  /\ IF AllStored(s)
     THEN /\ pointer' = [pointer EXCEPT ![p] = [b \in Area |-> "area"]]
          /\ complete' = complete \cup {s}
          /\ pc' = [pc EXCEPT ![p] = "idle"]
     ELSE UNCHANGED <<pointer, complete, pc>>
  /\ UNCHANGED <<platform, created, full, directory, shm, leaked, mishap, listing,
                 boundVars>>

-----------------------------------------------------------------------------
(* openLifeSignShmSegment, by an entry of the list, which the inspector makes
   anew for the next time. *)
OpenShm(p, e, opened) ==
  /\ pc[p] = "idle" /\ ~shm[p].exists /\ p \in Inspector
  /\ e \in listing[p].found /\ directory[e.name] # 0
  /\ shm' = [shm EXCEPT ![p] = opened]
  /\ pc' = [pc EXCEPT ![p] = "map"]
  /\ mishap' = [mishap EXCEPT ![p] = @ \cup
       (IF directory[e.name] = e.segment THEN {} ELSE {"replaced"})]
  /\ listing' = [listing EXCEPT ![p] = NoListing]
  /\ UNCHANGED <<platform, systemVars, pointer, leaked, boundVars>>

ObjectOf(e) == Object(e.name, directory[e.name], e.size)
OpenLinuxShm(p, e) ==
  platform = "linux" /\ OpenShm(p, e, [ObjectOf(e) EXCEPT !.file = TRUE])

(* The backing file is opened only to write or to fall back to it; a mapping
   object of the name exists as long as a process holds a handle or a view of
   it, and without one only the fallback to a file that is not empty helps. *)
MappingExists(s) ==
  \E p \in Process : \/ shm[p].segment = s /\ (shm[p].map \/ shm[p].ptr = "mapped")
                     \/ leaked[p] \cap {<<s, "map">>, <<s, "view">>} # {}

OpenWin32Shm(p, e, mode) ==
  LET s == directory[e.name] IN
  /\ platform = "windows"
  /\ MappingExists(s) \/ (mode = "fallback" /\ s \in full)
  /\ OpenShm(p, e, [ObjectOf(e) EXCEPT !.file = (mode # "read"), !.map = TRUE])

(* The backing file opens, but no mapping does. *)
FailWin32Open(p, e, charged) ==
  LET s == directory[e.name] IN
  /\ platform = "windows" /\ pc[p] = "idle" /\ ~shm[p].exists /\ p \in Inspector
  /\ e \in listing[p].found /\ s # 0
  /\ charged = 1 \/ ~MappingExists(s)
  /\ GiveUp(p, [ObjectOf(e) EXCEPT !.file = TRUE], charged, {})
  /\ UNCHANGED <<platform, systemVars, listing, crashes>>

(* Reading the header of a segment that has no size yet kills the process:
   Crash. *)
ReadOffset(p, a) ==
  LET s == shm[p].segment IN
  /\ pc[p] = "read" /\ pointer[p][a] = "null" /\ s \in full
  /\ pointer' = [pointer EXCEPT ![p][a] = IF a \in header[s] THEN "area" ELSE "start"]
  /\ pc' = [pc EXCEPT ![p] = IF \E b \in Area : pointer'[p][b] = "null" THEN "read" ELSE "idle"]
  /\ UNCHANGED <<platform, systemVars, shm, leaked, mishap, listing, boundVars>>

-----------------------------------------------------------------------------
(* closeLifeSignShmSegment.  The pointers into the segment are reset, and
   the object is deleted, only after closeShm succeeded.  With deleteShm set
   the manager goes on to DeleteShm. *)
(* A fault: the pointers are left as they are. *)
KeptPointers(p, ok) == pointer[p]
PointersAfter(p, ok) == IF ok THEN NoPointers ELSE pointer[p]

CloseSegment(p) ==
  /\ pc[p] = "idle" /\ shm[p].exists
  /\ \E a \in CloseShm(shm[p]) :
       /\ faults' = faults + a.charged
       /\ faults' <= MaxFaults
       /\ shm' = [shm EXCEPT ![p] = IF a.ok THEN NoObject ELSE a.object]
       /\ pointer' = [pointer EXCEPT ![p] = PointersAfter(p, a.ok)]
       /\ leaked' = [leaked EXCEPT ![p] = IF a.ok THEN @ \cup LeftBy(a) ELSE @]
       /\ mishap' = [mishap EXCEPT ![p] =
            IF a.ok THEN (@ \ OfObject) \cup (IF a.lost = {} THEN {} ELSE {"close"})
            ELSE @ \cup (IF a.object.ptr = "null" THEN {"half"} ELSE {})]
  /\ UNCHANGED <<platform, systemVars, pc, listing, crashes>>

(* deleteLifeSignShmSegment.  Windows refuses while the file is in use. *)
InUse(s) == \E p \in Process : shm[p].segment = s \/ \E h \in leaked[p] : h[1] = s
Deletable(n) == directory[n] # 0 /\ (platform = "windows" => ~InUse(directory[n]))

DeleteShm(p, n) ==
  /\ pc[p] = "idle" /\ Deletable(n)
  /\ directory' = [directory EXCEPT ![n] = 0]
  /\ listing' = [q \in Process |-> [listing[q] EXCEPT !.steady = @ \ {n}]]
  /\ UNCHANGED <<platform, created, full, header, complete, pc, shm, pointer, leaked, mishap,
                 boundVars>>

(* Terminating the library destroys the manager. *)
DestroyManager(p) ==
  /\ pc[p] = "idle" /\ shm[p].exists
  /\ GiveUp(p, shm[p], 0, {})
  /\ UNCHANGED <<platform, systemVars, listing, crashes>>

-----------------------------------------------------------------------------
(* listLifeSignShmSegments: the directory is scanned for names that fit the
   pattern, then the size of each file found is asked for; a file gone by
   then fails the whole call. *)
StartListing(p) ==
  /\ pc[p] = "idle" /\ p \in Inspector
  /\ listing' = [listing EXCEPT ![p] = [NoListing EXCEPT
                   !.todo = Name, !.steady = {n \in Name : directory[n] # 0}]]
  /\ pc' = [pc EXCEPT ![p] = "scan"]
  /\ UNCHANGED <<platform, systemVars, shm, pointer, leaked, mishap, boundVars>>

ScanEntry(p, n) ==
  /\ pc[p] = "scan" /\ n \in listing[p].todo
  /\ listing' = [listing EXCEPT ![p].todo = @ \ {n},
                                ![p].sizing = IF directory[n] # 0 THEN @ \cup {n} ELSE @]
  /\ pc' = [pc EXCEPT ![p] = IF listing[p].todo = {n} THEN "size" ELSE "scan"]
  /\ UNCHANGED <<platform, systemVars, shm, pointer, leaked, mishap, boundVars>>

(* A fault: the size its owner is going to give the file. *)
SizeMeant(n) == "full"
SizeOf(n) == IF directory[n] \in full THEN "full" ELSE "empty"
(* An entry of the list: the name, the size, and as history the segment that
   had the size. *)
Entry(n) == [name |-> n, size |-> SizeOf(n), segment |-> directory[n]]
(* A fault: a file without size is left out. *)
SizedIfFull(n) == IF directory[n] \in full THEN {Entry(n)} ELSE {}
Sized(n) == {Entry(n)}

SizeEntry(p, n) ==
  /\ pc[p] = "size" /\ n \in listing[p].sizing
  /\ \/ /\ directory[n] # 0
        /\ listing' = [listing EXCEPT ![p].sizing = @ \ {n}, ![p].found = @ \cup Sized(n)]
        /\ UNCHANGED pc
     \/ /\ directory[n] = 0
        /\ listing' = [listing EXCEPT ![p].sizing = {}, ![p].steady = {}]
        /\ pc' = [pc EXCEPT ![p] = "idle"]
  /\ UNCHANGED <<platform, systemVars, shm, pointer, leaked, mishap, boundVars>>

(* The list is returned; the caller keeps its entries. *)
EndListing(p) ==
  /\ pc[p] = "size" /\ listing[p].sizing = {}
  /\ listing' = [listing EXCEPT ![p].steady = {}]
  /\ pc' = [pc EXCEPT ![p] = "idle"]
  /\ UNCHANGED <<platform, systemVars, shm, pointer, leaked, mishap, boundVars>>

-----------------------------------------------------------------------------
(* A process ends, by a crash or in touching a segment without size, and is
   started again: the system closes what it held, files stay. *)
Crash(p) ==
  LET touched == pc[p] = "read" /\ shm[p].segment \notin full IN
  /\ touched \/ crashes < MaxCrashes
  /\ crashes' = IF touched THEN crashes ELSE crashes + 1
  /\ pc' = [pc EXCEPT ![p] = "idle"] /\ shm' = [shm EXCEPT ![p] = NoObject]
  /\ pointer' = [pointer EXCEPT ![p] = NoPointers]
  /\ leaked' = [leaked EXCEPT ![p] = {}] /\ mishap' = [mishap EXCEPT ![p] = {}]
  /\ listing' = [listing EXCEPT ![p] = NoListing]
  /\ UNCHANGED <<platform, systemVars, faults>>

Step(p) ==
  \/ \E n \in Name : CreateShm(p, n) \/ DeleteShm(p, n) \/ ScanEntry(p, n) \/ SizeEntry(p, n)
  \/ Truncate(p) \/ CreateMapping(p) \/ MapLinuxShm(p) \/ MapWin32Shm(p)
  \/ \E a \in Area : StoreOffset(p, a) \/ ReadOffset(p, a)
  \/ \E e \in listing[p].found :
       \/ OpenLinuxShm(p, e)
       \/ \E mode \in {"read", "write", "fallback"} : OpenWin32Shm(p, e, mode)
       \/ \E charged \in {0, 1} : FailWin32Open(p, e, charged)
  \/ CloseSegment(p) \/ DestroyManager(p)
  \/ StartListing(p) \/ EndListing(p)
  \/ Crash(p)

Next == \E p \in Process : Step(p)

Spec == Init /\ [][Next]_vars

-----------------------------------------------------------------------------
(* The type invariant: what the variables of segments and processes hold. *)
TypeOK ==
  /\ created \in 0 .. MaxSegments /\ full \subseteq Segment
  /\ header \in [Segment -> SUBSET Area] /\ directory \in [Name -> 0 .. created]
  /\ pointer \in [Process -> [Area -> {"null", "start", "area"}]]
  /\ \A p \in Process :
       /\ pc[p] \in {"idle", "resize", "map", "store", "read", "scan", "size"}
       /\ shm[p].exists <=> shm[p].segment # 0
       /\ shm[p].ptr \in {"null", "mapped"}
  /\ faults \in 0 .. MaxFaults /\ crashes \in 0 .. MaxCrashes

(* The pointers into a segment, computed once from a header that is filled in
   without synchronisation, lead to mapped memory and to the areas meant: but
   for a close that failed after unmapping, and for who opened the segment
   before its creation had returned. *)
PointersRight ==
  \A p \in Process, a \in Area :
    /\ pointer[p][a] # "null" => shm[p].ptr = "mapped" \/ "half" \in mishap[p]
    /\ pointer[p][a] = "start" => "early" \in mishap[p]

(* A manager without an object holds no descriptor, handle or view, unless a
   mapping failed on Linux, whose clean-up gives up, or a system call that
   lets go of something failed. *)
NothingHeld ==
  \A p \in Process :
    leaked[p] # {} => \/ "close" \in mishap[p]
                      \/ platform = "linux" /\ "map" \in mishap[p]

(* Who is about to touch the header of a segment that it opened finds it with
   its size, however early it listed and opened it; but on Linux the name it
   had listed may stand for another segment by then. *)
SizedWhenRead ==
  \A p \in Process :
    pc[p] = "read" => \/ shm[p].segment \in full
                      \/ platform = "linux" /\ "replaced" \in mishap[p]

(* A list that is returned without error has every segment that was there
   all the time. *)
ListsWhatStays ==
  \A p \in Process :
    pc[p] = "size" /\ listing[p].sizing = {} =>
      listing[p].steady \subseteq {e.name : e \in listing[p].found}
=============================================================================
