---------------------------- MODULE LifeSignSlots ----------------------------
(***************************************************************************)
(* Thread slots of the life-sign segment (LifeSignManager).                *)
(*                                                                         *)
(* The life-sign area of the segment is cut into MaxThreads slots.  A      *)
(* thread takes a slot the first time it reports (obtainThreadSlot, under  *)
(* m_lock), remembers it in the thread_local sThreadSlotId, and registers  *)
(* it in a thread-local-storage key whose destructor gives the slot back   *)
(* when the thread exits (cleanupThreadSlot, releaseThreadSlot).  The      *)
(* segment itself is created and closed by the application.                *)
(*                                                                         *)
(* One step is one critical section of m_lock, or one call when the code   *)
(* touches only thread-local data.  Which bytes a record occupies inside   *)
(* the slot is the subject of module LifeSignRing; here a report is the    *)
(* fact that a thread has written into a slot.                             *)
(*                                                                         *)
(* A slot has two addresses.  The segment is laid out, written and read    *)
(* with the share of each thread rounded up to four bytes                  *)
(* (m_threadAreaSize), but obtainThreadSlot and releaseThreadSlot store    *)
(* the owner and the counter with the share as it is.  Only when both are  *)
(* the same is a slot InPlace; otherwise the store lands across headers    *)
(* that are not its own, which are torn from then on.                      *)
(***************************************************************************)
EXTENDS Integers, Sequences

CONSTANTS
  Thread,      (* threads of the process, each with one lifetime         *)
  MaxThreads,  (* maxThreads argument of createLifeSignShmSegment        *)
  MaxCreates,  (* bound: how many times the segment is created           *)
  LateReports, (* TRUE: a thread may still report from a thread-local
                  destructor that runs after cleanupThreadSlot           *)
  NoThread,    (* m_threadId of a slot header that was never used        *)
  Shares,      (* bytes of the life-sign area per thread, any of which the
                  arguments of createLifeSignShmSegment may give         *)
  HeaderSize   (* sizeof(LifeSignThreadAreaHeader)                       *)

ASSUME MaxThreadsAssumption == MaxThreads \in Nat \ {0}
ASSUME MaxCreatesAssumption == MaxCreates \in Nat
ASSUME LateReportsAssumption == LateReports \in BOOLEAN
ASSUME NoThreadAssumption == NoThread \notin Thread
ASSUME HeaderSizeAssumption == HeaderSize \in Nat \ {0}
ASSUME SharesAssumption == Shares \subseteq {n \in Nat : n >= HeaderSize}

Slot == 0 .. MaxThreads - 1

(* DBGUTIL_INVALID_THREAD_SLOT_ID and DBGUTIL_NO_THREAD_SLOT_ID *)
InvalidSlotId == -1
NoSlotId == -2

VARIABLES
  segmentOpen, (* m_shm # nullptr, and m_lifeSignHeader with it          *)
  creates,     (* how many times the segment has been created            *)
  share,       (* m_lifeSignAreaSize / m_maxThreads of the last creation *)
  vacantSlots, (* m_vacantSlots, front first                             *)
  phase,       (* where each thread is in its lifetime                   *)
  slotId,      (* sThreadSlotId of each thread                           *)
  tls,         (* value of sThreadSlotKey in each thread, 0 for null     *)
  threadId,    (* m_threadId of each slot header                         *)
  state,       (* m_state of each slot header                            *)
  endTime,     (* m_endEpochMilliSeconds of each slot header             *)
  now,         (* logical clock behind getEpochTimeMilliseconds          *)
  torn,        (* headers a store meant for another place has hit: what
                  they show is no longer known                           *)
  writers,     (* history: who wrote into the slot since it was taken    *)
  taker,       (* history: the last thread obtainThreadSlot gave each
                  slot of the segment to                                 *)
  leaked,      (* history: slots of exited threads never given back      *)
  fault        (* m_lifeSignHeader was dereferenced while null           *)

segmentVars == <<segmentOpen, creates, share>>
threadVars == <<phase, slotId, tls>>
headerVars == <<threadId, state, endTime, now, torn, writers, taker>>
vars == <<segmentVars, vacantSlots, threadVars, headerVars, leaked, fault>>

Vacant == {vacantSlots[i] : i \in 1 .. Len(vacantSlots)}

(* t has been given slotId[t] and has not finished giving it back *)
Holds(t) == phase[t] \in {"running", "cleanup"} /\ slotId[t] \in Slot

(* Where the stores of obtainThreadSlot and releaseThreadSlot begin, and
   where the header is that everybody else uses. *)
AlignTo4(n) == ((n + 3) \div 4) * 4
ThreadAreaSize == AlignTo4(share)
StoreAt(s) == s * share
HeaderAt(s) == s * ThreadAreaSize

InPlace(s) == StoreAt(s) = HeaderAt(s)

(* The headers with a byte that a store meant for slot s may write. *)
Touched(s) ==
  {h \in Slot : /\ StoreAt(s) < HeaderAt(h) + HeaderSize
                /\ HeaderAt(h) < StoreAt(s) + HeaderSize}

Init ==
  /\ segmentOpen = FALSE
  /\ creates = 0
  /\ share = 0
  /\ torn = {}
  /\ taker = [s \in Slot |-> NoThread]
  /\ vacantSlots = <<>>
  /\ phase = [t \in Thread |-> "new"]
  /\ slotId = [t \in Thread |-> InvalidSlotId]
  /\ tls = [t \in Thread |-> 0]
  /\ threadId = [s \in Slot |-> NoThread]
  /\ state = [s \in Slot |-> 0]
  /\ endTime = [s \in Slot |-> 0]
  /\ now = 0
  /\ writers = [s \in Slot |-> {}]
  /\ leaked = {}
  /\ fault = FALSE

-----------------------------------------------------------------------------
(* The segment.                                                            *)

(* The slots createLifeSignShmSegment pushes: it never empties the list.   *)
FreshSlots == vacantSlots \o [i \in 1 .. MaxThreads |-> i - 1]

(* A call that fails on the way undoes what it did, so only the success    *)
(* changes state.  The new key reads as null in every thread; a thread     *)
(* already inside the destructor of the old key keeps its argument.        *)
CreateSegment ==
  /\ ~fault
  /\ ~segmentOpen
  /\ creates < MaxCreates
  /\ segmentOpen' = TRUE
  /\ creates' = creates + 1
  /\ share' \in Shares
  /\ vacantSlots' = FreshSlots
  /\ tls' = [t \in Thread |-> IF phase[t] = "cleanup" THEN tls[t] ELSE 0]
  /\ threadId' = [s \in Slot |-> NoThread]
  /\ state' = [s \in Slot |-> 0]
  /\ endTime' = [s \in Slot |-> 0]
  /\ torn' = {}
  /\ writers' = [s \in Slot |-> {}]
  /\ taker' = [s \in Slot |-> NoThread]
  /\ UNCHANGED <<phase, slotId, now, leaked, fault>>

(* The key is destroyed, so destructors stop running; m_vacantSlots and    *)
(* the sThreadSlotId of the threads stay as they are.                      *)
CloseSegment ==
  /\ ~fault
  /\ segmentOpen
  /\ segmentOpen' = FALSE
  /\ UNCHANGED <<creates, share, vacantSlots, threadVars, headerVars, leaked,
                 fault>>

-----------------------------------------------------------------------------
(* The threads.                                                            *)

Start(t) ==
  /\ ~fault
  /\ phase[t] = "new"
  /\ phase' = [phase EXCEPT ![t] = "running"]
  /\ UNCHANGED <<segmentVars, vacantSlots, slotId, tls, headerVars, leaked,
                 fault>>

(* A fault: the thread-local-storage value is asked, not sThreadSlotId.    *)
NeedsSlotByTls(t) == tls[t] = 0 /\ slotId[t] # NoSlotId

(* writeLifeSignRecord asks for a slot.                                    *)
NeedsSlot(t) == slotId[t] = InvalidSlotId

(* A fault: the slot is handed out and stays in the list.                  *)
SlotsNotPopped == vacantSlots

(* The slot obtainThreadSlot hands out and what it leaves in the list.     *)
NextSlot == Head(vacantSlots)
SlotsAfterObtain == Tail(vacantSlots)

(* Faults: the header is not marked running, keeps its old owner, or is
   taken to be where the store lands. *)
ClaimUnmarked(s, t) ==
  /\ threadId' = [threadId EXCEPT ![s] = t]
  /\ torn' = torn \cup (Touched(s) \ {s})
  /\ writers' = [writers EXCEPT ![s] = {t}]
  /\ taker' = [taker EXCEPT ![s] = t]
  /\ UNCHANGED state
ClaimUnowned(s, t) ==
  /\ state' = [state EXCEPT ![s] = @ + 1]
  /\ torn' = torn \cup (Touched(s) \ {s})
  /\ writers' = [writers EXCEPT ![s] = {t}]
  /\ taker' = [taker EXCEPT ![s] = t]
  /\ UNCHANGED threadId

(* What obtainThreadSlot stores for slot s, and the record of t that       *)
(* follows.  In place, the ring of the slot becomes empty before t writes; *)
(* otherwise the ring keeps what other threads have written.               *)
ClaimHeader(s, t) ==
  /\ IF InPlace(s)
       THEN /\ threadId' = [threadId EXCEPT ![s] = t]
            /\ state' = [state EXCEPT ![s] = @ + 1]
            /\ torn' = torn \cup (Touched(s) \ {s})
            /\ writers' = [writers EXCEPT ![s] = {t}]
       ELSE /\ torn' = torn \cup Touched(s)
            /\ writers' = [writers EXCEPT ![s] = @ \cup {t}]
            /\ UNCHANGED <<threadId, state>>
  /\ taker' = [taker EXCEPT ![s] = t]

(* First report of a thread when a slot is free: obtainThreadSlot and the  *)
(* record that follows it.  The result of setTls is not looked at.         *)
ReportInNewSlot(t) ==
  /\ ~fault
  /\ segmentOpen
  /\ phase[t] = "running"
  /\ NeedsSlot(t)
  /\ vacantSlots # <<>>
  /\ \E registered \in BOOLEAN :
       tls' = [tls EXCEPT ![t] = IF registered THEN NextSlot + 1 ELSE 0]
  /\ vacantSlots' = SlotsAfterObtain
  /\ slotId' = [slotId EXCEPT ![t] = NextSlot]
  /\ ClaimHeader(NextSlot, t)
  /\ UNCHANGED <<segmentVars, phase, endTime, now, leaked, fault>>

(* First report when no slot is free: the thread is marked, and from then  *)
(* on its reports are dropped with no further effect.                      *)
ReportRefused(t) ==
  /\ ~fault
  /\ phase[t] = "running"
  /\ NeedsSlot(t)
  /\ vacantSlots = <<>>
  /\ slotId' = [slotId EXCEPT ![t] = NoSlotId]
  /\ UNCHANGED <<segmentVars, vacantSlots, phase, tls, headerVars, leaked,
                 fault>>

(* A report of a thread that has a slot.                                   *)
ReportInOwnSlot(t) ==
  /\ ~fault
  /\ segmentOpen
  /\ phase[t] = "running" \/ (LateReports /\ phase[t] = "late")
  /\ slotId[t] \in Slot
  /\ writers' = [writers EXCEPT ![slotId[t]] = @ \cup {t}]
  /\ UNCHANGED <<segmentVars, vacantSlots, threadVars, threadId, state,
                 endTime, now, torn, taker, leaked, fault>>

(* writeLifeSignRecord and obtainThreadSlot use m_lifeSignHeader without   *)
(* a null check: a report after the segment was closed ends the process.   *)
ReportFaults(t) ==
  /\ ~fault
  /\ ~segmentOpen
  /\ phase[t] = "running" \/ (LateReports /\ phase[t] = "late")
  /\ \/ slotId[t] \in Slot
     \/ NeedsSlot(t) /\ vacantSlots # <<>>
  /\ fault' = TRUE
  /\ UNCHANGED <<segmentVars, vacantSlots, threadVars, headerVars, leaked>>

(* The thread returns.  The runtime calls cleanupThreadSlot for a key that *)
(* still exists and whose value is not null; otherwise a slot the thread   *)
(* had is never given back.                                                *)
Exit(t) ==
  /\ ~fault
  /\ phase[t] = "running"
  /\ IF segmentOpen /\ tls[t] # 0
       THEN /\ phase' = [phase EXCEPT ![t] = "cleanup"]
            /\ UNCHANGED leaked
       ELSE /\ phase' = [phase EXCEPT ![t] = "exited"]
            /\ leaked' = leaked \cup ({slotId[t]} \cap Slot)
  /\ UNCHANGED <<segmentVars, vacantSlots, slotId, tls, headerVars, fault>>

(* A fault: the +1 the slot was saved with is not taken off again.         *)
ReleasedSlotUnshifted(t) == tls[t]

(* The slot cleanupThreadSlot gives back, and the list afterwards.         *)
ReleasedSlot(t) == tls[t] - 1
SlotsAfterRelease(s) == Append(vacantSlots, s)

(* What releaseThreadSlot stores for slot s: the time and the counter.     *)
CloseHeader(s) ==
  IF InPlace(s)
    THEN /\ endTime' = [endTime EXCEPT ![s] = now + 1]
         /\ state' = [state EXCEPT ![s] = @ + 1]
         /\ torn' = torn \cup (Touched(s) \ {s})
    ELSE /\ torn' = torn \cup Touched(s)
         /\ UNCHANGED <<endTime, state>>

(* releaseThreadSlot, which faults when the segment was closed between the *)
(* start of the destructor and this point.  sThreadSlotId is not reset.    *)
ReleaseSlot(t) ==
  LET s == ReleasedSlot(t) IN
  /\ ~fault
  /\ phase[t] = "cleanup"
  /\ vacantSlots' = SlotsAfterRelease(s)
  /\ phase' = [phase EXCEPT ![t] = "late"]
  /\ tls' = [tls EXCEPT ![t] = 0]
  /\ IF segmentOpen
       THEN /\ now' = now + 1
            /\ CloseHeader(s)
            /\ UNCHANGED fault
       ELSE /\ fault' = TRUE
            /\ UNCHANGED <<endTime, now, state, torn>>
  /\ UNCHANGED <<segmentVars, slotId, threadId, writers, taker, leaked>>

(* The last thread-local destructors have run.                             *)
Vanish(t) ==
  /\ ~fault
  /\ phase[t] = "late"
  /\ phase' = [phase EXCEPT ![t] = "exited"]
  /\ UNCHANGED <<segmentVars, vacantSlots, slotId, tls, headerVars, leaked,
                 fault>>

-----------------------------------------------------------------------------
Next ==
  \/ CreateSegment
  \/ CloseSegment
  \/ \E t \in Thread :
       \/ Start(t)
       \/ ReportInNewSlot(t)
       \/ ReportRefused(t)
       \/ ReportInOwnSlot(t)
       \/ ReportFaults(t)
       \/ Exit(t)
       \/ ReleaseSlot(t)
       \/ Vanish(t)

Spec == Init /\ [][Next]_vars

-----------------------------------------------------------------------------
(* What readThreadLifeSignDetails reports of a slot.                       *)
IsRunning(s) == state[s] % 2 # 0
UseCount(s) == (state[s] + 1) \div 2

-----------------------------------------------------------------------------
(* Types of the state, and the range a slot id can be in. *)
TypeOK ==
  /\ segmentOpen \in BOOLEAN
  /\ creates \in 0 .. MaxCreates
  /\ share \in Shares \cup {0}
  /\ vacantSlots \in Seq(Slot)
  /\ phase \in [Thread -> {"new", "running", "cleanup", "late", "exited"}]
  /\ slotId \in [Thread -> Slot \cup {InvalidSlotId, NoSlotId}]
  /\ tls \in [Thread -> 0 .. MaxThreads]
  /\ threadId \in [Slot -> Thread \cup {NoThread}]
  /\ state \in [Slot -> Nat]
  /\ endTime \in [Slot -> Nat]
  /\ now \in Nat
  /\ torn \in SUBSET Slot
  /\ writers \in [Slot -> SUBSET Thread]
  /\ taker \in [Slot -> Thread \cup {NoThread}]
  /\ leaked \in SUBSET Slot
  /\ fault \in BOOLEAN

(* A slot is vacant at most once. *)
VacantOnce ==
  \A i, j \in 1 .. Len(vacantSlots) :
    vacantSlots[i] = vacantSlots[j] => i = j

(* Two threads never hold the same slot. *)
HeldOnce ==
  \A t, u \in Thread :
    Holds(t) /\ Holds(u) /\ slotId[t] = slotId[u] => t = u

(* A slot somebody holds is neither vacant nor leaked, nor is a leaked one
   vacant. *)
HeldNotVacant ==
  /\ \A t \in Thread : Holds(t) => slotId[t] \notin Vacant \cup leaked
  /\ leaked \cap Vacant = {}

(* From the creation of the segment on, every slot is in exactly one place:
   once in m_vacantSlots, held by one thread, or leaked because its thread
   exited without a destructor call (obtainThreadSlot, releaseThreadSlot and
   the thread-exit path, in any order over any number of threads). *)
SlotsAccounted ==
  /\ VacantOnce
  /\ HeldOnce
  /\ HeldNotVacant
  /\ creates > 0 =>
       \A s \in Slot :
         \/ s \in Vacant \cup leaked
         \/ \E t \in Thread : Holds(t) /\ slotId[t] = s

(* Every record in a slot was written by the thread whose identifier the
   slot's header shows, for the slots obtainThreadSlot stores in place: what an
   inspector prints under a thread id never comes from another thread, and no
   store for another slot hits the header (writeLifeSignRecord against
   obtainThreadSlot and releaseThreadSlot of other threads). *)
RecordsAttributed ==
  \A s \in Slot :
    InPlace(s) => s \notin torn /\ writers[s] \subseteq {threadId[s]}

(* The same of every slot, whatever the share: the segment is "divided into
   sub-areas per-thread, so that there are no race conditions" (the project's
   README).  A share that is not a multiple of four refutes it. *)
HeadersOwn ==
  \A s \in Slot : s \notin torn /\ writers[s] \subseteq {threadId[s]}

(* The ring of a slot is written by a single thread from the time the slot
   is taken to the time it is taken again: "no race conditions", "only a
   thread-local ring-buffer" in the project's README. *)
SoleWriter ==
  \A s \in Slot : \A t, u \in writers[s] : t = u

(* What readThreadLifeSignDetails shows of a slot that obtainThreadSlot stores
   in place is true: it reads as running exactly while it is taken, and as never
   used exactly when no thread ever took it. *)
DetailsAccurate ==
  segmentOpen =>
    \A s \in Slot :
      InPlace(s) =>
        /\ s \notin torn
        /\ IsRunning(s) <=> s \notin Vacant
        /\ UseCount(s) = 0 <=> taker[s] = NoThread

(* Who owns each slot, as the abstract pool sees it. *)
PoolOwner == [s \in Slot |-> IF s \in Vacant THEN NoThread ELSE taker[s]]

Pool == INSTANCE SlotPool WITH owner <- PoolOwner

(* The slot bookkeeping implements the abstract pool: a slot changes hands
   only through the free list, and a thread owns at most one. *)
ImplementsPool == Pool!Spec

=============================================================================
