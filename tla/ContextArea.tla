----------------------------- MODULE ContextArea -----------------------------
(***************************************************************************)
(* The context area of the life-sign segment (LifeSignManager).            *)
(*                                                                         *)
(* Any number of threads append records with writeContextRecord, without a *)
(* lock: a thread reserves space with fetch_add on m_writePos, and either  *)
(* fills the space or, when the end of the area is passed, gives it back   *)
(* with a second fetch_add.  An inspector, in the same process or in       *)
(* another one, walks the records with readContextRecord while writers are *)
(* at work or after the process has died.                                  *)
(*                                                                         *)
(* One step is one atomic access to m_writePos, the store of a length, one *)
(* memcpy, or the two halves of readContextRecord.  Space is counted in    *)
(* words of the four bytes a length takes, so the records that occur here  *)
(* have a size that is a multiple of four.                                 *)
(***************************************************************************)
EXTENDS Integers, Sequences, FiniteSets

CONSTANTS
  Writer,      (* writers                                                *)
  AreaSize,    (* m_contextAreaSize                                      *)
  MaxAreaSize, (* DBGUTIL_MAX_CONTEXT_AREA_SIZE_BYTES                     *)
  RecLen,      (* the record lengths the application uses                *)
  StrayNumber, (* what a word that is no length reads as, as a length; a
                  negative one stands for an unsigned one just below 2^32 *)
  MaxCalls     (* bound: calls of writeContextRecord per thread          *)

ASSUME AreaSizeAssumption == /\ AreaSize \in Nat
                             /\ MaxAreaSize \in Nat
                             /\ AreaSize <= MaxAreaSize
ASSUME RecLenAssumption == RecLen \subseteq Nat
ASSUME StrayNumberAssumption == StrayNumber \subseteq Int
ASSUME MaxCallsAssumption == MaxCalls \in Nat

(* The uint32_t in front of every record. *)
LengthSize == 1

(* A call of writeContextRecord, or the record it has written. *)
Record == [writer : Writer, number : 1 .. MaxCalls, offset : Nat, len : RecLen]

(* A word of the area: a length, a word of the payload of a record, or 0.  *)
LengthOf(r) == [kind |-> "length", rec |-> r]
DataOf(r) == [kind |-> "data", rec |-> r]
Zero == [kind |-> "zero"]

VARIABLES
  writePos,   (* m_writePos                                              *)
  area,       (* the words of m_contextArea                              *)
  pc,         (* where each writer is in writeContextRecord              *)
  call,       (* the last call of each writer                            *)
  calls,      (* how often each writer has called                        *)
  crashed,    (* the writing process has died                            *)
  written,    (* history: records whose call returned DBGUTIL_ERR_OK     *)
  rejected,   (* history: some reservation did not fit                   *)
  raced,      (* history: two of those were to be given back at once     *)
  readPc,     (* where the inspector is in readContextRecord             *)
  readOffset, (* its in-out argument offset                              *)
  readLimit,  (* the write position it loaded                            *)
  found,      (* history: the records returned to it, while in step      *)
  inStep      (* history: it has met no record still being written       *)

writerVars == <<writePos, area, pc, call, calls, crashed, written, rejected,
                raced>>
readerVars == <<readPc, readOffset, readLimit, found, inStep>>
contextVars == <<writerVars, readerVars>>

ContextInit ==
  /\ writePos = 0
  /\ area = [i \in 0 .. AreaSize - 1 |-> Zero]
  /\ pc = [t \in Writer |-> "idle"]
  /\ call = [t \in Writer |-> <<>>]
  /\ calls = [t \in Writer |-> 0]
  /\ crashed = FALSE
  /\ written = {}
  /\ rejected = FALSE
  /\ raced = FALSE
  /\ readPc = "load"
  /\ readOffset = 0
  /\ readLimit = 0
  /\ found = <<>>
  /\ inStep = TRUE

-----------------------------------------------------------------------------
(* writeContextRecord.                                                     *)

(* A fault: room for the payload only. *)
PayloadLength(len) == len

(* realLength, and the words a record takes. *)
RealLength(len) == len + LengthSize
Words(r) == r.offset .. r.offset + r.len + LengthSize - 1

(* A fault: the start of the record is compared, not its end. *)
StartFits(offset, len) == offset <= AreaSize

Fits(offset, len) == offset + RealLength(len) <= AreaSize

(* Writers that are about to give their reservation back. *)
GivingBack == {t \in Writer : pc[t] = "backoff"}

(* The first fetch_add and the test of what it returned. *)
Reserve(t, len) ==
  LET offset == writePos IN
  /\ ~crashed
  /\ pc[t] = "idle"
  /\ calls[t] < MaxCalls
  /\ writePos' = writePos + RealLength(len)
  /\ calls' = [calls EXCEPT ![t] = @ + 1]
  /\ call' = [call EXCEPT ![t] = [writer |-> t, number |-> calls[t] + 1,
                                  offset |-> offset, len |-> len]]
  /\ pc' = [pc EXCEPT ![t] = IF Fits(offset, len) THEN "length" ELSE "backoff"]
  /\ rejected' = (rejected \/ ~Fits(offset, len))
  /\ raced' = (raced \/ (~Fits(offset, len) /\ GivingBack # {}))
  /\ UNCHANGED <<area, crashed, written, readerVars>>

(* The words of the area after those in W were overwritten. *)
Stored(W, word) == [i \in DOMAIN area |-> IF i \in W THEN word ELSE area[i]]

(* A fault: the call returns before the payload is copied. *)
StoreLengthOnly(t) ==
  /\ ~crashed
  /\ pc[t] = "length"
  /\ area' = Stored({call[t].offset}, LengthOf(call[t]))
  /\ written' = written \cup {call[t]}
  /\ pc' = [pc EXCEPT ![t] = "idle"]
  /\ UNCHANGED <<writePos, call, calls, crashed, rejected, raced, readerVars>>

StoreLength(t) ==
  /\ ~crashed
  /\ pc[t] = "length"
  /\ area' = Stored({call[t].offset}, LengthOf(call[t]))
  /\ pc' = [pc EXCEPT ![t] = "payload"]
  /\ UNCHANGED <<writePos, call, calls, crashed, written, rejected, raced,
                 readerVars>>

CopyPayload(t) ==
  /\ ~crashed
  /\ pc[t] = "payload"
  /\ area' = Stored(Words(call[t]) \ {call[t].offset}, DataOf(call[t]))
  /\ written' = written \cup {call[t]}
  /\ pc' = [pc EXCEPT ![t] = "idle"]
  /\ UNCHANGED <<writePos, call, calls, crashed, rejected, raced, readerVars>>

(* Faults: the length prefix is not given back, or nothing is. *)
BackOffPayload(t) == writePos - call[t].len
BackOffNothing(t) == writePos

(* What the second fetch_add leaves, and the return of RESOURCE_LIMIT. *)
PosAfterBackOff(t) == writePos - RealLength(call[t].len)

BackOff(t) ==
  /\ ~crashed
  /\ pc[t] = "backoff"
  /\ writePos' = PosAfterBackOff(t)
  /\ pc' = [pc EXCEPT ![t] = "idle"]
  /\ UNCHANGED <<area, call, calls, crashed, written, rejected, raced,
                 readerVars>>

(* The process dies in the middle of whatever its threads are doing; the
   segment stays. *)
Crash ==
  /\ ~crashed
  /\ crashed' = TRUE
  /\ UNCHANGED <<writePos, area, pc, call, calls, written, rejected, raced,
                 readerVars>>

-----------------------------------------------------------------------------
(* readContextRecord.                                                      *)

(* The write position is loaded and the offset compared with it.  At the end
   of the stream nothing changes: the caller may ask again later. *)
ReadLimit ==
  /\ readPc = "load"
  /\ readOffset # writePos
  /\ readLimit' = writePos
  /\ readPc' = IF writePos \in readOffset + 1 .. MaxAreaSize
                 THEN "fetch" ELSE "failed"
  /\ UNCHANGED <<writerVars, readOffset, found, inStep>>

(* The numbers the word at offset i can read as: payload words, and words
   past the end of the area, are no lengths. *)
LengthAt(i) ==
  IF i \notin DOMAIN area \/ area[i].kind = "data"
    THEN StrayNumber
    ELSE {IF area[i].kind = "length" THEN area[i].rec.len ELSE 0}

(* A fault: the length prefix is not stepped over. *)
NextOffsetUnprefixed(n) == readOffset + n

(* Where the next record starts. *)
NextOffset(n) == readOffset + LengthSize + n

(* The record whose length stands at offset i, and whether what the caller
   finds between there and the next offset is that record, whole. *)
IsWhole(i, n) ==
  /\ i \in DOMAIN area
  /\ area[i].kind = "length"
  /\ \A j \in i + 1 .. i + n : j \in DOMAIN area /\ area[j] = DataOf(area[i].rec)

(* The records still being written, those cut short by a crash included. *)
Unfinished == {call[t] : t \in {u \in Writer : pc[u] # "idle"}}

(* The length is read and checked against the limit, in unsigned arithmetic,
   and the record returned; the offset has passed the length in any case. *)
ReadRecord ==
  /\ readPc = "fetch"
  /\ inStep' = (inStep /\ \A r \in Unfinished : readOffset \notin Words(r))
  /\ \E n \in LengthAt(readOffset) :
       IF readOffset + LengthSize + n \notin 0 .. readLimit
         THEN /\ readPc' = "failed"
              /\ readOffset' = readOffset + LengthSize
              /\ UNCHANGED found
         ELSE /\ readPc' = "load"
              /\ readOffset' = NextOffset(n)
              /\ found' = IF inStep'
                            THEN Append(found, [offset |-> readOffset, len |-> n,
                                                whole |-> IsWhole(readOffset, n)])
                            ELSE found
  /\ UNCHANGED <<writerVars, readLimit>>

-----------------------------------------------------------------------------
WriterNext ==
  \E t \in Writer :
    \/ \E len \in RecLen : Reserve(t, len)
    \/ StoreLength(t)
    \/ CopyPayload(t)
    \/ BackOff(t)

ReaderNext == ReadLimit \/ ReadRecord

ContextNext == WriterNext \/ Crash \/ ReaderNext

(* The inspector's loop keeps calling until it is told to stop; nothing is
   asked of the writers. *)
ContextSpec == ContextInit /\ [][ContextNext]_contextVars /\ WF_contextVars(ReaderNext)

-----------------------------------------------------------------------------
(* Types of the state; a record that was acknowledged lies inside the area. *)
ContextTypeOK ==
  /\ writePos \in Nat
  /\ pc \in [Writer -> {"idle", "length", "payload", "backoff"}]
  /\ call \in [Writer -> Record \cup {<<>>}]
  /\ calls \in [Writer -> 0 .. MaxCalls]
  /\ crashed \in BOOLEAN
  /\ written \in SUBSET Record
  /\ \A r \in written : Words(r) \subseteq 0 .. AreaSize - 1
  /\ rejected \in BOOLEAN
  /\ raced \in BOOLEAN

(* The reservations that count in m_writePos, those about to be given back
   included, and the ones that were granted. *)
Reserved == Unfinished \cup written
Granted == written \cup {call[t] : t \in {u \in Writer : pc[u] \in {"length", "payload"}}}

(* The words of a set of reservations, each word marked with the reservation
   it was counted for. *)
Units(R) == UNION {{r} \X (1 .. RealLength(r.len)) : r \in R}

(* m_writePos is exactly the space of the records written, being written and
   being given back: no order of reservations and back-offs of any threads
   loses or double counts space, so it never drifts. *)
SpaceAccounted == writePos = Cardinality(Units(Reserved))

(* However many threads race for the end of the area, the space granted never
   exceeds it: every back-off leaves the area with room for what was granted. *)
NeverOversubscribed == Cardinality(Units(Granted)) <= AreaSize

(* As long as at most one reservation was waiting to be given back at a time,
   every word up to m_writePos belongs to exactly one reservation: no two
   writers share a word and there is no gap, also after the area was found
   full (the two fetch_add of writeContextRecord against each other). *)
TiledUntilRace ==
  ~raced =>
    \A i \in 0 .. writePos - 1 :
      \E r \in Reserved : \A q \in Reserved : i \in Words(q) <=> q = r

(* A record whose call returned DBGUTIL_ERR_OK is in the area, whole. *)
Kept(r) == IsWhole(r.offset, r.len) /\ area[r.offset] = LengthOf(r)

(* Under the same condition a record that was acknowledged stays in the area
   as it was written. *)
KeptUntilRace == ~raced => \A r \in written : Kept(r)

(* A record that was acknowledged stays in the area as it was written:
   "the context area is not circular". *)
AcknowledgedKept == \A r \in written : Kept(r)

(* An inspector that reads from offset zero, while writers are at work or after
   a crash at any point, gets whole records in the order of their offsets with
   none left out, up to the first record it catches half written (and while
   no reservation has been rejected). *)
ReadsInOrder ==
  ~rejected =>
    \A k \in 1 .. Len(found) :
      /\ found[k].whole
      /\ found[k].offset = IF k = 1 THEN 0
                           ELSE found[k - 1].offset + found[k - 1].len + LengthSize

(* After a crash at any point, with any stray number behind a torn record, the
   loop over readContextRecord ends: it reaches the write position or an
   error.  (With a stray number just below 2^32 the sum of offset and length
   wraps around, the check passes, and the loop may not end.) *)
ReaderFinishes == crashed ~> (readPc = "failed" \/ readOffset = writePos)

=============================================================================
