---------------------------- MODULE LifeSignRing ----------------------------
(***************************************************************************)
(* The ring buffers of the life-sign area (LifeSignManager).               *)
(*                                                                         *)
(* Every slot of the area has a header and a ring, written by the thread   *)
(* that owns the slot with writeLifeSignRecord and read with               *)
(* readLifeSignRecord, here by an inspector that opens the segment after a *)
(* crash: a crash may come in any state, so what it finds is a function of *)
(* the state.  Which thread owns a slot is the subject of LifeSignSlots;   *)
(* here a slot passes from one thread to another in Retake.                *)
(*                                                                         *)
(* Positions are bytes, memory is kept by words of four bytes.  The ring   *)
(* of a slot starts after the slot's header, yet positions go up to        *)
(* ThreadAreaSize: the last HeaderSize bytes of a ring are the header of   *)
(* the next slot, and, for the last slot, lie behind the area in the rest  *)
(* of the segment's last page.                                             *)
(*                                                                         *)
(* The writer and the inspector find the header of a slot at a multiple of *)
(* ThreadAreaSize, the share of each thread rounded up to four bytes, but  *)
(* obtainThreadSlot resets the positions at a multiple of the share as it  *)
(* is.  When the share is not a multiple of four, this is the header of    *)
(* slot 0 only: for the others the store hits bytes of the slot before and *)
(* some of the header, and the old positions stay, in part or altogether.  *)
(***************************************************************************)
EXTENDS Integers, Sequences

CONSTANTS
  MaxThreads,     (* number of slots                                     *)
  ThreadAreaSize, (* m_threadAreaSize                                    *)
  HeaderSize,     (* sizeof(LifeSignThreadAreaHeader)                    *)
  RecLen,         (* the record lengths the application uses             *)
  MaxWrites,      (* bound: records written into one slot                *)
  MaxTakes,       (* bound: how often a slot is taken                    *)
  Shares          (* bytes of the life-sign area per thread, before they
                     are rounded up: those that give ThreadAreaSize      *)

AlignTo4(n) == ((n + 3) \div 4) * 4

ASSUME SizesAssumption ==
  /\ MaxThreads \in Nat \ {0}
  /\ ThreadAreaSize \in Nat /\ ThreadAreaSize % 4 = 0
  /\ HeaderSize \in 8 .. ThreadAreaSize /\ HeaderSize % 4 = 0
  /\ RecLen \subseteq Nat
  /\ MaxWrites \in Nat /\ MaxTakes \in Nat
ASSUME SharesAssumption ==
  Shares \subseteq {n \in Nat : AlignTo4(n) = ThreadAreaSize}

Slot == 0 .. MaxThreads - 1
Word == 0 .. ThreadAreaSize \div 4 - 1

(* What a word of a ring holds: the length field of a record, the k-th word
   of its payload, zero, or bytes that are none of these. *)
LengthOf(r) == [kind |-> "length", rec |-> r, part |-> 0]
DataOf(r, k) == [kind |-> "data", rec |-> r, part |-> k]
NoRecord == [take |-> 0, number |-> 0, len |-> 0]
Zero == [kind |-> "zero", rec |-> NoRecord, part |-> 0]
Torn == [kind |-> "torn", rec |-> NoRecord, part |-> 0]

VARIABLES
  share,   (* m_lifeSignAreaSize / m_maxThreads                          *)
  ring,    (* the words of the ring of each slot                         *)
  headPos, (* m_headPos                                                  *)
  tailPos, (* m_tailPos                                                  *)
  count,   (* m_recordCount, below zero instead of just below 2^32      *)
  pc,      (* where the owner of each slot is in writeLifeSignRecord     *)
  cur,     (* the record it writes                                       *)
  takes,   (* how often each slot has been taken                         *)
  written, (* history: records of the owner whose call has returned      *)
  used,    (* history: bytes the owner's records needed so far           *)
  spoiled  (* a write or read went outside the slot: nothing is known of
              what follows, and the model stops                          *)

headerVars == <<headPos, tailPos, count>>
vars == <<share, ring, headerVars, pc, cur, takes, written, used, spoiled>>

(* The header that obtainThreadSlot resets is the one the others use. *)
InPlace(s) == s * share = s * ThreadAreaSize

Init ==
  /\ share \in Shares
  /\ ring = [s \in Slot |-> [w \in Word |-> Zero]]
  /\ headPos = [s \in Slot |-> 0]
  /\ tailPos = [s \in Slot |-> 0]
  /\ count = [s \in Slot |-> 0]
  /\ pc = [s \in Slot |-> "idle"]
  /\ cur = [s \in Slot |-> NoRecord]
  /\ takes = [s \in Slot |-> 0]
  /\ written = [s \in Slot |-> <<>>]
  /\ used = [s \in Slot |-> 0]
  /\ spoiled = FALSE

-----------------------------------------------------------------------------
(* writeLifeSignRecord.                                                    *)

(* A fault: no room for the terminating null. *)
AlignedUnterminated(len) == AlignTo4(len)

(* recLenAligned and realLength. *)
Aligned(len) == AlignTo4(len + 1)
RealLength(len) == Aligned(len) + 4

(* 2^32 modulo the size: what an unsigned difference below zero gains.      *)
Wrap == ((65536 % ThreadAreaSize) * (65536 % ThreadAreaSize)) % ThreadAreaSize

(* The number of bytes between the head and the tail of s.                 *)
CyclicDiff(s) ==
  LET diff == tailPos[s] + ThreadAreaSize - headPos[s] IN
  (IF diff < 0 THEN diff + Wrap ELSE diff) % ThreadAreaSize

Crowded(s) == CyclicDiff(s) + RealLength(cur[s].len) > ThreadAreaSize


CountOnTake(s) == 0

(* A slot is vacated and taken by a new thread: obtainThreadSlot.  A header
   that is not in place is not the one reset, and the bytes that are reset
   belong to something else. *)
Retake(s) ==
  /\ ~spoiled
  /\ pc[s] = "idle"
  /\ takes[s] < MaxTakes
  /\ takes' = [takes EXCEPT ![s] = @ + 1]
  /\ IF InPlace(s)
       THEN /\ headPos' = [headPos EXCEPT ![s] = 0]
            /\ tailPos' = [tailPos EXCEPT ![s] = 0]
            /\ count' = [count EXCEPT ![s] = CountOnTake(s)]
            /\ UNCHANGED spoiled
       ELSE /\ spoiled' = TRUE
            /\ UNCHANGED headerVars
  /\ written' = [written EXCEPT ![s] = <<>>]
  /\ used' = [used EXCEPT ![s] = 0]
  /\ UNCHANGED <<share, ring, pc, cur>>

(* The call starts; a record longer than the ring is refused. *)
BeginWrite(s, len) ==
  /\ ~spoiled
  /\ pc[s] = "idle"
  /\ takes[s] > 0
  /\ Len(written[s]) < MaxWrites
  /\ RealLength(len) <= ThreadAreaSize
  /\ cur' = [cur EXCEPT ![s] = [take |-> takes[s], number |-> Len(written[s]) + 1,
                                len |-> len]]
  /\ used' = [used EXCEPT ![s] = @ + RealLength(len)]
  /\ pc' = [pc EXCEPT ![s] = "evict"]
  /\ UNCHANGED <<share, ring, headerVars, takes, written, spoiled>>

(* The numbers the length field at byte position p can read as, a negative one
   standing for an unsigned one just below 2^32; all that lead past the end of
   the ring are alike. *)
LengthAt(s, p) ==
  LET w == ring[s][p \div 4] IN
  IF p % 4 = 0 /\ w.kind = "length" THEN {w.rec.len + 1}
  ELSE IF p % 4 = 0 /\ w.kind = "zero" THEN {0}
  ELSE -(p + 4) .. ThreadAreaSize

(* One turn of the loop that advances the head to the next record; the loop
   reads outside the ring once the head has passed the end. *)
EvictHead(s) ==
  /\ ~spoiled
  /\ pc[s] = "evict"
  /\ Crowded(s)
  /\ IF headPos[s] >= ThreadAreaSize
       THEN /\ spoiled' = TRUE
            /\ UNCHANGED <<headPos, count>>
       ELSE /\ \E n \in LengthAt(s, headPos[s]) :
                 headPos' = [headPos EXCEPT ![s] = @ + n + 4]
            /\ count' = [count EXCEPT ![s] = @ - 1]
            /\ UNCHANGED spoiled
  /\ UNCHANGED <<share, ring, tailPos, pc, cur, takes, written, used>>

(* Words W of the ring of s are written; those that are the next slot's header
   must not be. *)
OutsideSlot(s, W) ==
  s # MaxThreads - 1 /\ \E w \in W : w * 4 >= ThreadAreaSize - HeaderSize


Advanced(s, n) == (tailPos[s] + n) % ThreadAreaSize

(* The length field is stored and the tail moved behind it. *)
StoreLength(s) ==
  LET w == tailPos[s] \div 4 IN
  /\ ~spoiled
  /\ pc[s] = "evict"
  /\ ~Crowded(s)
  /\ ring' = [ring EXCEPT ![s][w] = LengthOf(cur[s])]
  /\ tailPos' = [tailPos EXCEPT ![s] = Advanced(s, 4)]
  /\ spoiled' = OutsideSlot(s, {w})
  /\ pc' = [pc EXCEPT ![s] = "copy"]
  /\ UNCHANGED <<share, headPos, count, cur, takes, written, used>>

(* A fault: the room kept for the next slot's header counts as the end. *)
ContiguousBeforeHeader(s) ==
  tailPos[s] + RealLength(cur[s].len) < ThreadAreaSize - HeaderSize

(* The test that decides whether the record is copied in one piece. *)
Contiguous(s) == tailPos[s] + RealLength(cur[s].len) < ThreadAreaSize

BytesTillEnd(s) == ThreadAreaSize - tailPos[s]
BytesFromStart(s) == cur[s].len + 1 - BytesTillEnd(s)

(* The payload is copied in one piece. *)
CopyPayload(s) ==
  LET first == tailPos[s] \div 4
      W == first .. first + Aligned(cur[s].len) \div 4 - 1
  IN
  /\ ~spoiled
  /\ pc[s] = "copy"
  /\ Contiguous(s)
  /\ ring' = [ring EXCEPT ![s] = [w \in Word |->
                IF w \in W THEN DataOf(cur[s], w - first + 1) ELSE @[w]]]
  /\ spoiled' = OutsideSlot(s, W)
  /\ pc' = [pc EXCEPT ![s] = "publish"]
  /\ UNCHANGED <<share, headerVars, cur, takes, written, used>>

(* The payload is copied in two pieces and the null stored behind the second
   one.  A record that ends before the end of the ring after all makes the
   length of the second piece wrap around to almost 2^32: the copy runs out of
   the segment. *)
CopyPayloadInParts(s) ==
  LET first == tailPos[s] \div 4
      last == ThreadAreaSize \div 4 - 1
      rest == AlignTo4(BytesFromStart(s)) \div 4
      null == BytesFromStart(s) \div 4
      Part(w) == IF w \in first .. last THEN DataOf(cur[s], w - first + 1)
                 ELSE IF w < rest THEN DataOf(cur[s], last - first + 2 + w)
                 ELSE IF w = null THEN Torn
                 ELSE ring[s][w]
  IN
  /\ ~spoiled
  /\ pc[s] = "copy"
  /\ ~Contiguous(s)
  /\ IF BytesFromStart(s) < 0
       THEN /\ spoiled' = TRUE
            /\ UNCHANGED ring
       ELSE /\ ring' = [ring EXCEPT ![s] = [w \in Word |-> Part(w)]]
            /\ spoiled' = OutsideSlot(s, first .. last)
  /\ pc' = [pc EXCEPT ![s] = "publish"]
  /\ UNCHANGED <<share, headerVars, cur, takes, written, used>>

(* The tail is moved behind the payload, the record counted, and the call
   returns. *)
Publish(s) ==
  /\ ~spoiled
  /\ pc[s] = "publish"
  /\ tailPos' = [tailPos EXCEPT ![s] = Advanced(s, Aligned(cur[s].len))]
  /\ count' = [count EXCEPT ![s] = @ + 1]
  /\ written' = [written EXCEPT ![s] = Append(@, cur[s])]
  /\ pc' = [pc EXCEPT ![s] = "idle"]
  /\ UNCHANGED <<share, ring, headPos, cur, takes, used, spoiled>>

-----------------------------------------------------------------------------
Next ==
  \E s \in Slot :
    \/ Retake(s)
    \/ \E len \in RecLen : BeginWrite(s, len)
    \/ EvictHead(s)
    \/ StoreLength(s)
    \/ CopyPayload(s)
    \/ CopyPayloadInParts(s)
    \/ Publish(s)

Spec == Init /\ [][Next]_vars

-----------------------------------------------------------------------------
(* readLifeSignRecord.                                                     *)

(* The words returned for a record of m words: in place they start at the
   caller's offset, not at the offset from the head. *)
WordsFrom(s, first, m) == [k \in 1 .. m |-> ring[s][(first + k - 1) % (ThreadAreaSize \div 4)]]

(* The payload of r as the writer stored it. *)
Payload(r) == [k \in 1 .. Aligned(r.len) \div 4 |-> DataOf(r, k)]

(* One call, for a caller whose offset and results so far are in p. *)
ReadOne(s, p) ==
  LET start == (headPos[s] + p.offset) % ThreadAreaSize
      word == ring[s][start \div 4]
      aligned == AlignTo4(word.rec.len + 1)
      data == (start + 4) % ThreadAreaSize
      end == (data + aligned) % ThreadAreaSize
      inPlace == WordsFrom(s, (p.offset + 4) \div 4, aligned \div 4)
      copied == WordsFrom(s, data \div 4, aligned \div 4)
  IN
  IF start >= tailPos[s] THEN [p EXCEPT !.stop = "end"]
  ELSE IF start % 4 # 0 \/ word.kind # "length" THEN [p EXCEPT !.stop = "garbage"]
  ELSE IF end > tailPos[s] THEN [p EXCEPT !.stop = "corrupt"]
  ELSE [p EXCEPT !.offset = @ + 4 + aligned,
                 !.found = Append(@, IF data < end THEN inPlace ELSE copied)]

(* All calls, from offset zero until one fails; k bounds their number. *)
ReadUpTo(s) ==
  LET Calls[k \in 0 .. MaxWrites + 1] ==
        IF k = 0 THEN [offset |-> 0, found |-> <<>>, stop |-> "none"]
        ELSE IF Calls[k - 1].stop # "none" THEN Calls[k - 1]
        ELSE ReadOne(s, Calls[k - 1])
  IN Calls[MaxWrites + 1]

-----------------------------------------------------------------------------
(* Types of the state; the tail stays inside the ring and on a word. *)
TypeOK ==
  /\ share \in Shares
  /\ \A s \in Slot : DOMAIN ring[s] = Word
  /\ headPos \in [Slot -> Nat]
  /\ tailPos \in [Slot -> {w * 4 : w \in Word}]
  /\ count \in [Slot -> Int]
  /\ pc \in [Slot -> {"idle", "evict", "copy", "publish"}]
  /\ takes \in [Slot -> 0 .. MaxTakes]
  /\ \A s \in Slot : Len(written[s]) <= MaxWrites
  /\ used \in [Slot -> Nat]
  /\ spoiled \in BOOLEAN

(* The records of the owner of s fit into the bytes of the slot. *)
Roomy(s) == used[s] <= ThreadAreaSize - HeaderSize

(* As long as a thread's records fit into its slot and nothing was spoiled
   (SpoiledOnlyPastRoom says when), an inspector that opens the segment after
   a crash at any point finds all of them, whole and in order, none of an
   earlier owner, and a record the crash cut short is reported as corrupt and
   not returned. *)
ReadsWhatWasWritten ==
  \A s \in Slot :
    Roomy(s) /\ ~spoiled =>
      /\ ReadUpTo(s).found = [i \in 1 .. Len(written[s]) |-> Payload(written[s][i])]
      /\ ReadUpTo(s).stop = IF pc[s] \in {"copy", "publish"} THEN "corrupt" ELSE "end"


(* Nothing outside its slot is touched as long as all records fit and every
   slot that was taken has its header where obtainThreadSlot looks for it. *)
SpoiledOnlyPastRoom ==
  (\A s \in Slot : Roomy(s) /\ (takes[s] > 0 => InPlace(s))) => ~spoiled

(* The thread areas are disjoint: what one thread writes never reaches the
   area of another one ("divided into sub-areas per-thread, so that there are
   no race conditions"). *)
StaysInSlot == ~spoiled

(* After every report, the report is the last record an inspector finds ("when
   all area is used up, new records begin to overwrite old records"). *)
NewestReadable ==
  \A s \in Slot :
    pc[s] = "idle" /\ written[s] # <<>> =>
      LET found == ReadUpTo(s).found IN
      found # <<>> /\ found[Len(found)] = Payload(written[s][Len(written[s])])

=============================================================================
