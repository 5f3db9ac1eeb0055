------------------------- MODULE LifeSignRingProofs -------------------------
(***************************************************************************)
(* Proofs about the ring buffers of LifeSignRing: as long as the records   *)
(* of a thread fit into its slot, they lie in the ring one behind the      *)
(* other from its beginning, and an inspector that opens the segment after *)
(* a crash in any state reads them all and nothing else.                   *)
(*                                                                         *)
(* The inspector's calls are a recursive function; what they return is     *)
(* shown by induction, which is taken from the well-foundedness of the     *)
(* natural numbers.                                                        *)
(***************************************************************************)
EXTENDS LifeSignRing, WellFoundedInduction, SequenceTheorems, TLAPS

(* The words of a payload. *)
Words(len) == Aligned(len) \div 4
RingWords == ThreadAreaSize \div 4

LEMMA Aligning ==
  ASSUME NEW len \in Nat
  PROVE  /\ Words(len) \in Nat /\ Words(len) >= 1
         /\ Aligned(len) = 4 * Words(len)
         /\ RealLength(len) = 4 * Words(len) + 4
<1> DEFINE q == (len + 1 + 3) \div 4
<1>1. q \in Nat /\ q >= 1
  OBVIOUS
<1> HIDE DEF q
<1>2. Aligned(len) = q * 4
  BY DEF Aligned, AlignTo4, q
<1>3. (q * 4) \div 4 = q
  BY <1>1
<1>4. QED
  BY <1>1, <1>2, <1>3 DEF Words, RealLength

LEMMA RingSize ==
  /\ RingWords \in Nat /\ ThreadAreaSize = 4 * RingWords
  /\ Word = 0 .. RingWords - 1
BY SizesAssumption DEF RingWords, Word

LEMMA ModSmall ==
  ASSUME NEW n \in Nat, NEW x \in Nat, x < n
  PROVE  x % n = x
OBVIOUS

LEMMA ModOnce ==
  ASSUME NEW n \in Nat, NEW x \in Nat, x < n
  PROVE  (x + n) % n = x
OBVIOUS

(* A number of words stays one when it is wrapped around the ring. *)
LEMMA WrapsToWords ==
  ASSUME NEW a \in Nat
  PROVE  (4 * a) % ThreadAreaSize \in {w * 4 : w \in Word}
<1>1. RingWords \in Nat /\ RingWords > 0 /\ ThreadAreaSize = 4 * RingWords
      /\ Word = 0 .. RingWords - 1
  BY RingSize, SizesAssumption
<1>2. PICK r, q : r = a % RingWords /\ q = a \div RingWords
  OBVIOUS
<1>3. r \in 0 .. RingWords - 1 /\ q \in Nat /\ a = RingWords * q + r
  BY <1>1, <1>2
<1>4. 4 * a = ThreadAreaSize * q + 4 * r /\ 4 * r \in 0 .. ThreadAreaSize - 1
  BY <1>1, <1>3
<1>5. (4 * a) % ThreadAreaSize = 4 * r
  BY <1>1, <1>3, <1>4
<1>6. QED
  BY <1>1, <1>3, <1>5

(* Induction over the natural numbers, by the set of those for which the
   claim holds. *)
LEMMA NatSets ==
  ASSUME NEW S, 0 \in S, \A n \in Nat : n \in S => n + 1 \in S
  PROVE  Nat \subseteq S
<1>1. SUFFICES ASSUME Nat \ S # {} PROVE FALSE
  OBVIOUS
<1>2. PICK R : IsWellFoundedOn(R, Nat) /\ R = {ss \in Nat \X Nat : ss[1] < ss[2]}
  BY NatLessThanWellFounded DEF OpToRel
<1>3. \A T : T \subseteq Nat /\ T # {} => \E x \in T : \A y \in T : ~ (<<y, x>> \in R)
  BY <1>2, WFMin
<1>4. PICK x \in Nat \ S : \A y \in Nat \ S : ~ (<<y, x>> \in R)
  BY <1>1, <1>3
<1>5. \A y \in Nat \ S : ~ (y < x)
  BY <1>2, <1>4
<1>6. x # 0
  BY <1>4
<1>7. x - 1 \in Nat /\ x - 1 < x
  BY <1>6
<1>8. x - 1 \in S
  BY <1>5, <1>7
<1>9. QED
  BY <1>4, <1>7, <1>8

-----------------------------------------------------------------------------
(* The inductive invariant.                                                *)

Record == [take : Nat, number : Nat, len : Nat]
Cell == [kind : {"length", "data", "zero", "torn"}, rec : Record, part : Int]

RingTypes == ring \in [Slot -> [Word -> Cell]]
HeaderTypes ==
  /\ headPos \in [Slot -> Nat] /\ tailPos \in [Slot -> {w * 4 : w \in Word}]
  /\ count \in [Slot -> Int]
OwnerTypes ==
  /\ share \in Shares
  /\ pc \in [Slot -> {"idle", "evict", "copy", "publish"}]
  /\ cur \in [Slot -> Record]
  /\ takes \in [Slot -> 0 .. MaxTakes]
  /\ written \in [Slot -> Seq(Record)]
  /\ used \in [Slot -> Nat]
  /\ spoiled \in BOOLEAN
WritesBounded ==
  \A s \in Slot : IF pc[s] = "idle" THEN Len(written[s]) <= MaxWrites
                  ELSE Len(written[s]) < MaxWrites
Types == RingTypes /\ HeaderTypes /\ OwnerTypes /\ WritesBounded

(* The records of the owner of s lie one behind the other, the i-th up to the
   word o[i]; what it is writing is behind them. *)
Laid(s, o) ==
  LET n == Len(written[s]) IN
  /\ o \in [0 .. n -> Nat] /\ o[0] = 0
  /\ \A i \in 0 .. n : o[i] <= o[n]
  /\ \A i \in 1 .. n :
       /\ o[i] = o[i - 1] + Words(written[s][i].len) + 1
       /\ ring[s][o[i - 1]] = LengthOf(written[s][i])
       /\ \A k \in 1 .. Words(written[s][i].len) :
            ring[s][o[i - 1] + k] = DataOf(written[s][i], k)
Writing(s, end) ==
  /\ headPos[s] = 0
  /\ used[s] = 4 * end + (IF pc[s] = "idle" THEN 0 ELSE RealLength(cur[s].len))
  /\ tailPos[s] = 4 * end + (IF pc[s] \in {"copy", "publish"} THEN 4 ELSE 0)
  /\ pc[s] \in {"copy", "publish"} => ring[s][end] = LengthOf(cur[s])
  /\ pc[s] = "publish" => \A k \in 1 .. Words(cur[s].len) : ring[s][end + k] = DataOf(cur[s], k)
Layout(s, o) == Laid(s, o) /\ Writing(s, o[Len(written[s])])

RingInv ==
  /\ Types
  /\ \A s \in Slot : Roomy(s) /\ ~spoiled => \E o : Layout(s, o)
  /\ SpoiledOnlyPastRoom

-----------------------------------------------------------------------------
(* Steps.                                                                  *)

LEMMA InitRingInv == Init => RingInv
<1>1. SUFFICES ASSUME Init PROVE RingInv
  OBVIOUS
<1>2. NoRecord \in Record /\ Zero \in Cell
  BY DEF NoRecord, Zero, Record, Cell
<1>3. Types
  <2>1. RingTypes
    BY <1>1, <1>2 DEF Init, RingTypes
  <2>2. HeaderTypes
    <3>1. 0 \in Word /\ 0 = 0 * 4
      BY RingSize, SizesAssumption
    <3>2. QED
      BY <1>1, <3>1 DEF Init, HeaderTypes
  <2>3. OwnerTypes
    <3>1. cur \in [Slot -> Record]
      BY <1>1, <1>2 DEF Init
    <3>2. written \in [Slot -> Seq(Record)]
      BY <1>1 DEF Init
    <3>3. takes \in [Slot -> 0 .. MaxTakes] /\ used \in [Slot -> Nat]
      BY <1>1, SizesAssumption DEF Init
    <3>4. pc \in [Slot -> {"idle", "evict", "copy", "publish"}] /\ spoiled \in BOOLEAN
          /\ share \in Shares
      BY <1>1 DEF Init
    <3>5. QED
      BY <3>1, <3>2, <3>3, <3>4 DEF OwnerTypes
  <2>4. WritesBounded
    BY <1>1, SizesAssumption DEF Init, WritesBounded
  <2>5. QED
    BY <2>1, <2>2, <2>3, <2>4 DEF Types
<1>4. ASSUME NEW s \in Slot
      PROVE  \E o : Layout(s, o)
  <2> DEFINE o == [i \in 0 .. 0 |-> 0]
  <2>1. written[s] = <<>> /\ Len(written[s]) = 0 /\ pc[s] = "idle" /\ headPos[s] = 0
        /\ tailPos[s] = 0 /\ used[s] = 0
    BY <1>1, <1>4 DEF Init
  <2>2. o \in [0 .. 0 -> Nat] /\ o[0] = 0
    OBVIOUS
  <2> HIDE DEF o
  <2>3. Laid(s, o)
    BY <2>1, <2>2 DEF Laid
  <2>4. Writing(s, o[0])
    BY <2>1, <2>2 DEF Writing
  <2>5. QED
    BY <2>1, <2>3, <2>4 DEF Layout
<1>5. SpoiledOnlyPastRoom
  BY <1>1 DEF Init, SpoiledOnlyPastRoom
<1>6. QED
  BY <1>3, <1>4, <1>5 DEF RingInv

(* A slot that a step leaves alone stays as it is. *)
LEMMA SlotStays ==
  ASSUME NEW u \in Slot, ring'[u] = ring[u], headPos'[u] = headPos[u],
         tailPos'[u] = tailPos[u], pc'[u] = pc[u], cur'[u] = cur[u],
         written'[u] = written[u], used'[u] = used[u], NEW o, Layout(u, o)
  PROVE  Layout(u, o)'
<1>1. Laid(u, o)'
  BY DEF Layout, Laid
<1>2. Writing(u, o[Len(written[u])])'
  BY DEF Layout, Writing
<1>3. QED
  BY <1>1, <1>2 DEF Layout

(* What a step of one slot has to show. *)
LEMMA SlotStep ==
  ASSUME RingInv, ~ spoiled, NEW s \in Slot, Types',
         \A u \in Slot \ {s} :
           /\ ring'[u] = ring[u] /\ headPos'[u] = headPos[u] /\ tailPos'[u] = tailPos[u]
           /\ pc'[u] = pc[u] /\ cur'[u] = cur[u] /\ written'[u] = written[u]
           /\ used'[u] = used[u],
         Roomy(s)' => ~ spoiled' /\ \E o : Layout(s, o)'
  PROVE  RingInv'
<1>1. ASSUME NEW u \in Slot, Roomy(u)', ~ spoiled'
      PROVE  \E o : Layout(u, o)'
  <2>1. CASE u = s
    BY <1>1, <2>1
  <2>2. CASE u # s
    <3>1. Roomy(u)
      BY <1>1, <2>2 DEF Roomy
    <3>2. PICK o : Layout(u, o)
      BY <3>1 DEF RingInv
    <3>3. QED
      BY <2>2, <3>2, SlotStays
  <2>3. QED
    BY <2>1, <2>2
<1>2. SpoiledOnlyPastRoom'
  BY DEF SpoiledOnlyPastRoom
<1>3. QED
  BY <1>1, <1>2 DEF RingInv

(* The reset of a header in place. *)
LEMMA RetakeInPlaceStep ==
  ASSUME RingInv, NEW s \in Slot, Retake(s), InPlace(s)
  PROVE  RingInv'
<1>1. /\ ~ spoiled /\ ~ spoiled' /\ pc[s] = "idle"
      /\ takes' = [takes EXCEPT ![s] = takes[s] + 1]
      /\ headPos' = [headPos EXCEPT ![s] = 0]
      /\ tailPos' = [tailPos EXCEPT ![s] = 0]
      /\ count' = [count EXCEPT ![s] = 0]
      /\ written' = [written EXCEPT ![s] = <<>>]
      /\ used' = [used EXCEPT ![s] = 0]
      /\ UNCHANGED <<share, ring, pc, cur>>
  BY DEF Retake, CountOnTake, RingInv, Types, OwnerTypes
<1>2. /\ headPos'[s] = 0 /\ tailPos'[s] = 0 /\ written'[s] = <<>> /\ used'[s] = 0
      /\ \A u \in Slot \ {s} :
           /\ headPos'[u] = headPos[u] /\ tailPos'[u] = tailPos[u]
           /\ written'[u] = written[u] /\ used'[u] = used[u]
  BY <1>1 DEF RingInv, Types, HeaderTypes, OwnerTypes
<1>3. Types'
  <2>1. RingTypes'
    BY <1>1 DEF RingInv, Types, RingTypes
  <2>2. HeaderTypes'
    <3>1. 0 \in Word /\ 0 = 0 * 4
      BY RingSize, SizesAssumption
    <3>2. QED
      BY <1>1, <3>1 DEF RingInv, Types, HeaderTypes
  <2>3. takes' \in [Slot -> 0 .. MaxTakes]
    <3>1. takes[s] + 1 \in 0 .. MaxTakes
      BY SizesAssumption DEF Retake, RingInv, Types, OwnerTypes
    <3>2. QED
      BY <1>1, <3>1 DEF RingInv, Types, OwnerTypes
  <2>4. OwnerTypes'
    <3>1. written' \in [Slot -> Seq(Record)]
      BY <1>1 DEF RingInv, Types, OwnerTypes
    <3>2. used' \in [Slot -> Nat] /\ pc' = pc /\ cur' = cur /\ spoiled' = spoiled
      BY <1>1 DEF RingInv, Types, OwnerTypes, Retake
    <3>3. QED
      BY <1>1, <2>3, <3>1, <3>2 DEF RingInv, Types, OwnerTypes
  <2>5. WritesBounded'
    <3>1. Len(written'[s]) = 0 /\ 0 <= MaxWrites
      BY <1>2, SizesAssumption
    <3>2. QED
      BY <1>1, <1>2, <3>1 DEF RingInv, Types, WritesBounded
  <2>6. QED
    BY <2>1, <2>2, <2>4, <2>5 DEF Types
<1>4. \E o : Layout(s, o)'
  <2> DEFINE o == [i \in 0 .. 0 |-> 0]
  <2>1. o \in [0 .. 0 -> Nat] /\ o[0] = 0 /\ Len(written'[s]) = 0
    BY <1>2
  <2> HIDE DEF o
  <2>2. Laid(s, o)'
    BY <2>1 DEF Laid
  <2>3. Writing(s, o[0])'
    BY <1>1, <1>2, <2>1 DEF Writing
  <2>4. QED
    BY <2>1, <2>2, <2>3 DEF Layout
<1>5. QED
  BY <1>1, <1>2, <1>3, <1>4, SlotStep

(* The reset that misses the header: nothing is claimed from then on. *)
LEMMA RetakeElsewhereStep ==
  ASSUME RingInv, NEW s \in Slot, Retake(s), ~ InPlace(s)
  PROVE  RingInv'
<1>1. /\ spoiled' = TRUE /\ pc[s] = "idle" /\ takes[s] < MaxTakes
      /\ takes' = [takes EXCEPT ![s] = takes[s] + 1]
      /\ written' = [written EXCEPT ![s] = <<>>]
      /\ used' = [used EXCEPT ![s] = 0]
      /\ UNCHANGED <<share, ring, headPos, tailPos, count, pc, cur>>
  BY DEF Retake, headerVars
<1>2. takes[s] + 1 \in 0 .. MaxTakes /\ takes'[s] > 0
  BY <1>1, SizesAssumption DEF RingInv, Types, OwnerTypes
<1>3. Types'
  <2>1. RingTypes' /\ HeaderTypes'
    BY <1>1 DEF RingInv, Types, RingTypes, HeaderTypes
  <2>2. written' \in [Slot -> Seq(Record)]
    BY <1>1 DEF RingInv, Types, OwnerTypes
  <2>3. takes' \in [Slot -> 0 .. MaxTakes]
    BY <1>1, <1>2 DEF RingInv, Types, OwnerTypes
  <2>4. OwnerTypes'
    BY <1>1, <2>2, <2>3 DEF RingInv, Types, OwnerTypes
  <2>5. WritesBounded'
    <3>1. written'[s] = <<>> /\ Len(written'[s]) = 0 /\ 0 <= MaxWrites
          /\ \A u \in Slot \ {s} : written'[u] = written[u]
      BY <1>1, SizesAssumption DEF RingInv, Types, OwnerTypes
    <3>2. QED
      BY <1>1, <3>1 DEF RingInv, Types, WritesBounded
  <2>6. QED
    BY <2>1, <2>4, <2>5 DEF Types
<1>4. ~ InPlace(s)'
  BY <1>1 DEF InPlace
<1>5. SpoiledOnlyPastRoom'
  BY <1>2, <1>4 DEF SpoiledOnlyPastRoom
<1>6. QED
  BY <1>1, <1>3, <1>5 DEF RingInv

LEMMA RetakeStep ==
  ASSUME RingInv, NEW s \in Slot, Retake(s)
  PROVE  RingInv'
BY RetakeInPlaceStep, RetakeElsewhereStep

LEMMA BeginWriteStep ==
  ASSUME RingInv, NEW s \in Slot, NEW len \in RecLen, BeginWrite(s, len)
  PROVE  RingInv'
<1>1. PICK r : r = [take |-> takes[s], number |-> Len(written[s]) + 1, len |-> len]
  OBVIOUS
<1>2. /\ ~ spoiled /\ ~ spoiled' /\ pc[s] = "idle" /\ Len(written[s]) < MaxWrites
      /\ cur' = [cur EXCEPT ![s] = r]
      /\ used' = [used EXCEPT ![s] = used[s] + RealLength(len)]
      /\ pc' = [pc EXCEPT ![s] = "evict"]
      /\ UNCHANGED <<share, ring, headPos, tailPos, count, takes, written>>
  BY <1>1 DEF BeginWrite, headerVars
<1>3. r \in Record /\ r.len = len /\ RealLength(len) \in Nat
  <2>1. len \in Nat
    BY SizesAssumption
  <2>2. RealLength(len) \in Nat
    BY <2>1, Aligning
  <2>3. takes[s] \in Nat /\ Len(written[s]) + 1 \in Nat
    BY SizesAssumption DEF RingInv, Types, OwnerTypes
  <2>4. QED
    BY <1>1, <2>1, <2>2, <2>3 DEF Record
<1>4. /\ cur'[s] = r /\ pc'[s] = "evict" /\ used'[s] = used[s] + RealLength(len)
      /\ \A u \in Slot \ {s} : cur'[u] = cur[u] /\ pc'[u] = pc[u] /\ used'[u] = used[u]
  BY <1>2 DEF RingInv, Types, OwnerTypes
<1>5. Types'
  <2>1. RingTypes' /\ HeaderTypes'
    BY <1>2 DEF RingInv, Types, RingTypes, HeaderTypes
  <2>2. used' \in [Slot -> Nat]
    BY <1>2, <1>3 DEF RingInv, Types, OwnerTypes
  <2>3. OwnerTypes'
    <3>1. cur' \in [Slot -> Record]
      BY <1>2, <1>3 DEF RingInv, Types, OwnerTypes
    <3>2. pc' \in [Slot -> {"idle", "evict", "copy", "publish"}]
      BY <1>2 DEF RingInv, Types, OwnerTypes
    <3>3. takes' = takes /\ written' = written /\ spoiled' = spoiled
      BY <1>2 DEF BeginWrite
    <3>4. QED
      BY <1>2, <2>2, <3>1, <3>2, <3>3 DEF RingInv, Types, OwnerTypes
  <2>4. WritesBounded'
    BY <1>2, <1>4 DEF RingInv, Types, WritesBounded
  <2>5. QED
    BY <2>1, <2>3, <2>4 DEF Types
<1>6. ASSUME Roomy(s)'
      PROVE  \E o : Layout(s, o)'
  <2>1. used[s] \in Nat /\ RealLength(len) \in Nat /\ used'[s] <= ThreadAreaSize - HeaderSize
        /\ ThreadAreaSize \in Nat /\ HeaderSize \in Nat
    BY <1>3, <1>6, SizesAssumption DEF RingInv, Types, OwnerTypes, Roomy
  <2>2. Roomy(s)
    BY <1>4, <2>1 DEF Roomy
  <2>3. PICK o : Layout(s, o)
    BY <1>2, <2>2 DEF RingInv
  <2>4. Laid(s, o)'
    BY <1>2, <2>3 DEF Layout, Laid
  <2>5. Writing(s, o[Len(written[s])])'
    <3>1. PICK e : e = o[Len(written[s])]
      OBVIOUS
    <3>2. used[s] = 4 * e + 0 /\ tailPos[s] = 4 * e + 0 /\ headPos[s] = 0
      BY <1>2, <2>3, <3>1 DEF Layout, Writing
    <3>3. e \in Nat
      BY <2>3, <3>1 DEF Layout, Laid, RingInv, Types, OwnerTypes
    <3>4. used'[s] = 4 * e + RealLength(cur'[s].len)
      BY <1>3, <1>4, <2>1, <3>2, <3>3
    <3>5. Writing(s, e)'
      BY <1>2, <1>4, <3>2, <3>4 DEF Writing
    <3>6. QED
      BY <1>2, <3>1, <3>5
  <2>6. QED
    BY <1>2, <2>4, <2>5 DEF Layout
<1>7. QED
  BY <1>2, <1>4, <1>5, <1>6, SlotStep

(* A slot with room for its records is never crowded. *)
LEMMA NotCrowded ==
  ASSUME RingInv, NEW s \in Slot, ~ spoiled, pc[s] = "evict", Roomy(s)
  PROVE  ~ Crowded(s)
<1>1. PICK o : Layout(s, o)
  BY DEF RingInv
<1>2. PICK e : e = o[Len(written[s])]
  OBVIOUS
<1>3. e \in Nat
  BY <1>1, <1>2 DEF Layout, Laid, RingInv, Types, OwnerTypes
<1>4. PICK l : l = RealLength(cur[s].len)
  OBVIOUS
<1>5. l \in Nat /\ l >= 4
  <2>1. cur[s].len \in Nat
    BY DEF RingInv, Types, OwnerTypes, Record
  <2>2. Words(cur[s].len) \in Nat /\ RealLength(cur[s].len) = 4 * Words(cur[s].len) + 4
    BY <2>1, Aligning
  <2>3. QED
    BY <1>4, <2>2
<1>6. headPos[s] = 0 /\ tailPos[s] = 4 * e + 0 /\ used[s] = 4 * e + l
  BY <1>1, <1>2, <1>4 DEF Layout, Writing
<1>7. ThreadAreaSize \in Nat /\ HeaderSize \in Nat /\ 4 * e + l <= ThreadAreaSize - HeaderSize
      /\ HeaderSize >= 8
  BY <1>6, SizesAssumption DEF Roomy
<1>8. 4 * e < ThreadAreaSize /\ tailPos[s] = 4 * e
  BY <1>3, <1>5, <1>6, <1>7
<1>9. (4 * e + ThreadAreaSize) % ThreadAreaSize = 4 * e
  BY <1>3, <1>7, <1>8, ModOnce
<1>10. tailPos[s] + ThreadAreaSize - headPos[s] = 4 * e + ThreadAreaSize
       /\ ~ (4 * e + ThreadAreaSize < 0)
  BY <1>3, <1>6, <1>7, <1>8
<1>11. CyclicDiff(s) = 4 * e
  BY <1>9, <1>10 DEF CyclicDiff
<1>12. ~ (4 * e + l > ThreadAreaSize)
  BY <1>3, <1>5, <1>7
<1>13. QED
  BY <1>4, <1>11, <1>12 DEF Crowded

LEMMA LengthsAreNumbers ==
  ASSUME Types, NEW s \in Slot, headPos[s] < ThreadAreaSize,
         NEW n \in LengthAt(s, headPos[s])
  PROVE  n \in Int /\ headPos[s] + n + 4 \in Nat
<1>1. PICK p : p = headPos[s]
  OBVIOUS
<1>2. p \in Nat /\ p < ThreadAreaSize
  BY <1>1 DEF Types, HeaderTypes
<1>3. p \div 4 \in Word
  BY <1>2, RingSize
<1>4. PICK w : w = ring[s][p \div 4]
  OBVIOUS
<1>5. w.rec.len \in Nat
  BY <1>3, <1>4 DEF Types, RingTypes, Cell, Record
<1>6. n \in {w.rec.len + 1} \/ n \in {0} \/ n \in -(p + 4) .. ThreadAreaSize
  BY <1>1, <1>4 DEF LengthAt
<1>7. ThreadAreaSize \in Nat
  BY SizesAssumption
<1>8. n \in Int /\ p + n + 4 \in Nat
  BY <1>2, <1>5, <1>6, <1>7
<1>9. QED
  BY <1>1, <1>8

LEMMA EvictHeadStep ==
  ASSUME RingInv, NEW s \in Slot, EvictHead(s)
  PROVE  RingInv'
<1>1. /\ ~ spoiled /\ pc[s] = "evict" /\ Crowded(s)
      /\ UNCHANGED <<share, ring, tailPos, pc, cur, takes, written, used>>
  BY DEF EvictHead
<1>2. HeaderTypes' /\ spoiled' \in BOOLEAN /\ \A u \in Slot \ {s} : headPos'[u] = headPos[u]
  <2>1. CASE headPos[s] >= ThreadAreaSize
    BY <1>1, <2>1 DEF EvictHead, RingInv, Types, HeaderTypes, OwnerTypes
  <2>2. CASE ~ (headPos[s] >= ThreadAreaSize)
    <3>1. PICK n \in LengthAt(s, headPos[s]) :
             /\ headPos' = [headPos EXCEPT ![s] = headPos[s] + n + 4]
             /\ count' = [count EXCEPT ![s] = count[s] - 1]
             /\ spoiled' = spoiled
      BY <2>2 DEF EvictHead, RingInv, Types, HeaderTypes
    <3>2. headPos[s] < ThreadAreaSize
      BY <2>2, SizesAssumption DEF RingInv, Types, HeaderTypes
    <3>3. headPos[s] + n + 4 \in Nat
      BY <3>2, LengthsAreNumbers DEF RingInv
    <3>4. headPos' \in [Slot -> Nat] /\ count' \in [Slot -> Int]
      BY <3>1, <3>3 DEF RingInv, Types, HeaderTypes
    <3>5. QED
      BY <1>1, <3>1, <3>4 DEF RingInv, Types, HeaderTypes, OwnerTypes
  <2>3. QED
    BY <2>1, <2>2
<1>3. Types'
  <2>1. RingTypes' /\ WritesBounded'
    BY <1>1 DEF RingInv, Types, RingTypes, WritesBounded
  <2>2. OwnerTypes'
    BY <1>1, <1>2 DEF RingInv, Types, OwnerTypes
  <2>3. QED
    BY <1>2, <2>1, <2>2 DEF Types
<1>4. ~ Roomy(s)'
  BY <1>1, NotCrowded DEF Roomy
<1>5. QED
  BY <1>1, <1>2, <1>3, <1>4, SlotStep

(* Where a record is written in a slot with room. *)
Placed(s, e, m) ==
  /\ e \in Nat /\ m \in Nat /\ m >= 1 /\ ThreadAreaSize \in Nat /\ HeaderSize \in Nat
  /\ HeaderSize >= 8 /\ RingWords \in Nat /\ ThreadAreaSize = 4 * RingWords
  /\ Word = 0 .. RingWords - 1
  /\ Aligned(cur[s].len) = 4 * m /\ RealLength(cur[s].len) = 4 * m + 4
  /\ 4 * e + 4 * m + 4 <= ThreadAreaSize - HeaderSize
  /\ headPos[s] = 0
  /\ tailPos[s] = 4 * e + (IF pc[s] = "evict" THEN 0 ELSE 4)

LEMMA Place ==
  ASSUME RingInv, NEW s \in Slot, pc[s] # "idle", Roomy(s), NEW o, Layout(s, o)
  PROVE  Placed(s, o[Len(written[s])], Words(cur[s].len))
<1> PICK e, m : e = o[Len(written[s])] /\ m = Words(cur[s].len)
  OBVIOUS
<1>1. e \in Nat
  BY DEF Layout, Laid, RingInv, Types, OwnerTypes
<1>2. cur[s].len \in Nat /\ pc[s] \in {"evict", "copy", "publish"} /\ used[s] \in Nat
  BY DEF RingInv, Types, OwnerTypes, Record
<1>3. m \in Nat /\ m >= 1 /\ Aligned(cur[s].len) = 4 * m /\ RealLength(cur[s].len) = 4 * m + 4
  BY <1>2, Aligning
<1>4. used[s] = 4 * e + (4 * m + 4) /\ headPos[s] = 0
  BY <1>3 DEF Layout, Writing
<1>5. used[s] <= ThreadAreaSize - HeaderSize
  BY DEF Roomy
<1>6. tailPos[s] = 4 * e + (IF pc[s] = "evict" THEN 0 ELSE 4)
  BY <1>2 DEF Layout, Writing
<1>7. 4 * e + 4 * m + 4 <= ThreadAreaSize - HeaderSize
  BY <1>1, <1>3, <1>4, <1>5
<1>8. QED
  BY <1>1, <1>3, <1>4, <1>6, <1>7, RingSize, SizesAssumption DEF Placed

(* What lies in front of the words a step writes stays as it is. *)
LEMMA LaidKept ==
  ASSUME Types, NEW s \in Slot, NEW o, Laid(s, o), written'[s] = written[s],
         \A w \in Nat : w < o[Len(written[s])] => ring'[s][w] = ring[s][w]
  PROVE  Laid(s, o)'
<1>1. PICK n : n = Len(written[s])
  OBVIOUS
<1>2. n \in Nat
  BY <1>1 DEF Types, OwnerTypes
<1>3. /\ o \in [0 .. n -> Nat] /\ o[0] = 0
      /\ \A i \in 0 .. n : o[i] <= o[n]
  BY <1>1 DEF Laid
<1>4. \A i \in 1 .. n :
        /\ o[i] = o[i - 1] + Words(written[s][i].len) + 1
        /\ ring[s][o[i - 1]] = LengthOf(written[s][i])
        /\ \A k \in 1 .. Words(written[s][i].len) :
             ring[s][o[i - 1] + k] = DataOf(written[s][i], k)
  BY <1>1 DEF Laid
<1>5. ASSUME NEW i \in 1 .. n
      PROVE  /\ o[i] = o[i - 1] + Words(written'[s][i].len) + 1
             /\ ring'[s][o[i - 1]] = LengthOf(written'[s][i])
             /\ \A k \in 1 .. Words(written'[s][i].len) :
                  ring'[s][o[i - 1] + k] = DataOf(written'[s][i], k)
  <2>1. PICK a, b, m : a = o[i - 1] /\ b = o[i] /\ m = Words(written[s][i].len)
    OBVIOUS
  <2>2. a \in Nat /\ b \in Nat /\ o[n] \in Nat /\ b <= o[n]
    BY <1>2, <1>3, <2>1
  <2>3. written[s][i].len \in Nat
    <3>1. written[s] \in Seq(Record) /\ i \in 1 .. Len(written[s])
      BY <1>1 DEF Types, OwnerTypes
    <3>2. written[s][i] \in Record
      BY <3>1
    <3>3. QED
      BY <3>2 DEF Record
  <2>4. m \in Nat
    BY <2>1, <2>3, Aligning
  <2>5. b = a + m + 1
    BY <1>4, <2>1
  <2>6. ring'[s][a] = ring[s][a]
    BY <1>1, <2>2, <2>4, <2>5
  <2>7. ASSUME NEW k \in 1 .. m
        PROVE  ring'[s][a + k] = DataOf(written[s][i], k)
    <3>1. PICK w : w = a + k
      OBVIOUS
    <3>2. w \in Nat /\ w < o[n]
      BY <2>2, <2>4, <2>5, <3>1
    <3>3. ring'[s][w] = ring[s][w]
      BY <1>1, <3>2
    <3>4. ring[s][w] = DataOf(written[s][i], k)
      BY <1>4, <2>1, <3>1
    <3>5. QED
      BY <3>1, <3>3, <3>4
  <2>8. QED
    BY <1>4, <2>1, <2>6, <2>7
<1>6. QED
  BY <1>1, <1>3, <1>5 DEF Laid

LEMMA StoreLengthStep ==
  ASSUME RingInv, NEW s \in Slot, StoreLength(s)
  PROVE  RingInv'
<1>1. PICK w0 : w0 = tailPos[s] \div 4
  OBVIOUS
<1>2. /\ ~ spoiled /\ pc[s] = "evict"
      /\ ring' = [ring EXCEPT ![s][w0] = LengthOf(cur[s])]
      /\ tailPos' = [tailPos EXCEPT ![s] = Advanced(s, 4)]
      /\ spoiled' = OutsideSlot(s, {w0})
      /\ pc' = [pc EXCEPT ![s] = "copy"]
      /\ UNCHANGED <<share, headPos, count, cur, takes, written, used>>
  BY <1>1 DEF StoreLength
<1>3. /\ pc'[s] = "copy" /\ tailPos'[s] = Advanced(s, 4)
      /\ \A u \in Slot \ {s} : /\ ring'[u] = ring[u] /\ tailPos'[u] = tailPos[u]
                               /\ pc'[u] = pc[u]
  BY <1>2 DEF RingInv, Types, RingTypes, HeaderTypes, OwnerTypes
<1>4. w0 \in Word /\ tailPos[s] = 4 * w0
  <2>1. PICK w \in Word : tailPos[s] = w * 4
    BY DEF RingInv, Types, HeaderTypes
  <2>2. QED
    BY <1>1, <2>1, RingSize
<1>5. /\ ring'[s][w0] = LengthOf(cur[s])
      /\ \A w \in Word : w # w0 => ring'[s][w] = ring[s][w]
  BY <1>2, <1>4 DEF RingInv, Types, RingTypes
<1>6. Types'
  <2>1. LengthOf(cur[s]) \in Cell
    BY DEF RingInv, Types, OwnerTypes, LengthOf, Cell
  <2>2. RingTypes'
    BY <1>2, <2>1 DEF RingInv, Types, RingTypes
  <2>3. HeaderTypes'
    <3>1. w0 + 1 \in Nat /\ tailPos[s] + 4 = 4 * (w0 + 1)
      BY <1>4, RingSize
    <3>2. Advanced(s, 4) \in {w * 4 : w \in Word}
      BY <3>1, WrapsToWords DEF Advanced
    <3>3. QED
      BY <1>2, <3>2 DEF RingInv, Types, HeaderTypes
  <2>4. pc' \in [Slot -> {"idle", "evict", "copy", "publish"}] /\ spoiled' \in BOOLEAN
    BY <1>2 DEF RingInv, Types, OwnerTypes, OutsideSlot
  <2>5. OwnerTypes'
    BY <1>2, <2>4 DEF RingInv, Types, OwnerTypes
  <2>6. WritesBounded'
    BY <1>2, <1>3 DEF RingInv, Types, WritesBounded
  <2>7. QED
    BY <2>2, <2>3, <2>5, <2>6 DEF Types
<1>7. ASSUME Roomy(s)'
      PROVE  ~ spoiled' /\ \E o : Layout(s, o)'
  <2>1. Roomy(s)
    BY <1>2, <1>7 DEF Roomy
  <2>2. PICK o : Layout(s, o)
    BY <1>2, <2>1 DEF RingInv
  <2>3. PICK e, m : e = o[Len(written[s])] /\ m = Words(cur[s].len)
    OBVIOUS
  <2>4. /\ e \in Nat /\ m \in Nat /\ m >= 1 /\ ThreadAreaSize \in Nat /\ HeaderSize \in Nat
        /\ HeaderSize >= 8 /\ RingWords \in Nat /\ ThreadAreaSize = 4 * RingWords
        /\ Word = 0 .. RingWords - 1
        /\ RealLength(cur[s].len) = 4 * m + 4
        /\ 4 * e + 4 * m + 4 <= ThreadAreaSize - HeaderSize
        /\ headPos[s] = 0 /\ tailPos[s] = 4 * e
    <3>1. Placed(s, o[Len(written[s])], Words(cur[s].len))
      BY <1>2, <2>1, <2>2, Place
    <3>2. QED
      <4>1. Placed(s, e, m)
        BY <2>3, <3>1
      <4>2. QED
        BY <1>2, <4>1 DEF Placed
  <2>5. w0 = e
    BY <1>4, <2>4
  <2>6. ~ spoiled'
    <3>1. ~ (e * 4 >= ThreadAreaSize - HeaderSize)
      BY <2>4
    <3>2. QED
      BY <1>2, <2>5, <3>1 DEF OutsideSlot
  <2>7. Laid(s, o)'
    <3>1. ASSUME NEW w \in Nat, w < e
          PROVE  ring'[s][w] = ring[s][w]
      <4>1. w \in Word /\ w # w0
        BY <2>4, <2>5, <3>1
      <4>2. QED
        BY <1>5, <4>1
    <3>2. QED
      BY <1>2, <2>2, <2>3, <3>1, LaidKept DEF Layout, RingInv
  <2>8. Writing(s, e)'
    <3>1. used[s] = 4 * e + RealLength(cur[s].len)
      BY <1>2, <2>2, <2>3 DEF Layout, Writing
    <3>2. 4 * e + 4 \in Nat /\ 4 * e + 4 < ThreadAreaSize
      BY <2>4
    <3>3. (4 * e + 4) % ThreadAreaSize = 4 * e + 4
      BY <2>4, <3>2, ModSmall
    <3>4. tailPos'[s] = 4 * e + 4
      BY <1>3, <2>4, <3>3 DEF Advanced
    <3>5. QED
      BY <1>2, <1>3, <1>5, <2>4, <2>5, <3>1, <3>4 DEF Writing
  <2>9. QED
    BY <1>2, <2>3, <2>6, <2>7, <2>8 DEF Layout
<1>8. QED
  BY <1>2, <1>3, <1>6, <1>7, SlotStep

LEMMA CopyPayloadStep ==
  ASSUME RingInv, NEW s \in Slot, CopyPayload(s)
  PROVE  RingInv'
<1>1. PICK first, m : first = tailPos[s] \div 4 /\ m = Words(cur[s].len)
  OBVIOUS
<1>2. PICK row : row = [w \in Word |-> IF w \in first .. first + m - 1
                                        THEN DataOf(cur[s], w - first + 1) ELSE ring[s][w]]
  OBVIOUS
<1>3. /\ ~ spoiled /\ pc[s] = "copy"
      /\ ring' = [ring EXCEPT ![s] = row]
      /\ spoiled' = OutsideSlot(s, first .. first + m - 1)
      /\ pc' = [pc EXCEPT ![s] = "publish"]
      /\ UNCHANGED <<share, headPos, tailPos, count, cur, takes, written, used>>
  BY <1>1, <1>2 DEF CopyPayload, Words, headerVars, RingInv, Types, RingTypes
<1>4. /\ pc'[s] = "publish" /\ ring'[s] = row
      /\ \A u \in Slot \ {s} : ring'[u] = ring[u] /\ pc'[u] = pc[u]
  BY <1>3 DEF RingInv, Types, RingTypes, OwnerTypes
<1>5. first \in Word /\ tailPos[s] = 4 * first
  <2>1. PICK w \in Word : tailPos[s] = w * 4
    BY DEF RingInv, Types, HeaderTypes
  <2>2. QED
    BY <1>1, <2>1, RingSize
<1>6. cur[s] \in Record /\ cur[s].len \in Nat
  BY DEF RingInv, Types, OwnerTypes, Record
<1>7. Types'
  <2>1. row \in [Word -> Cell]
    <3>1. ASSUME NEW w \in Word, w \in first .. first + m - 1
          PROVE  DataOf(cur[s], w - first + 1) \in Cell
      <4>1. w - first + 1 \in Int
        BY <1>5, RingSize
      <4>2. QED
        BY <1>6, <4>1 DEF DataOf, Cell
    <3>2. ring[s] \in [Word -> Cell]
      BY DEF RingInv, Types, RingTypes
    <3>3. QED
      BY <1>2, <3>1, <3>2
  <2>2. RingTypes'
    BY <1>3, <2>1 DEF RingInv, Types, RingTypes
  <2>3. HeaderTypes'
    BY <1>3 DEF RingInv, Types, HeaderTypes
  <2>4. pc' \in [Slot -> {"idle", "evict", "copy", "publish"}] /\ spoiled' \in BOOLEAN
    BY <1>3 DEF RingInv, Types, OwnerTypes, OutsideSlot
  <2>5. OwnerTypes'
    BY <1>3, <2>4 DEF RingInv, Types, OwnerTypes
  <2>6. WritesBounded'
    BY <1>3, <1>4 DEF RingInv, Types, WritesBounded
  <2>7. QED
    BY <2>2, <2>3, <2>5, <2>6 DEF Types
<1>8. ASSUME Roomy(s)'
      PROVE  ~ spoiled' /\ \E o : Layout(s, o)'
  <2>1. Roomy(s)
    BY <1>3, <1>8 DEF Roomy
  <2>2. PICK o : Layout(s, o)
    BY <1>3, <2>1 DEF RingInv
  <2>3. PICK e : e = o[Len(written[s])]
    OBVIOUS
  <2>4. /\ e \in Nat /\ m \in Nat /\ m >= 1 /\ ThreadAreaSize \in Nat /\ HeaderSize \in Nat
        /\ HeaderSize >= 8 /\ RingWords \in Nat /\ ThreadAreaSize = 4 * RingWords
        /\ Word = 0 .. RingWords - 1
        /\ RealLength(cur[s].len) = 4 * m + 4
        /\ 4 * e + 4 * m + 4 <= ThreadAreaSize - HeaderSize
        /\ headPos[s] = 0 /\ tailPos[s] = 4 * e + 4
    <3>1. Placed(s, o[Len(written[s])], Words(cur[s].len))
      BY <1>3, <2>1, <2>2, Place
    <3>2. QED
      BY <1>1, <1>3, <2>3, <3>1 DEF Placed
  <2>5. first = e + 1
    BY <1>5, <2>4
  <2>6. ~ spoiled'
    <3>1. ASSUME NEW w \in first .. first + m - 1
          PROVE  ~ (w * 4 >= ThreadAreaSize - HeaderSize)
      <4>1. w \in Int /\ w <= e + m
        BY <2>4, <2>5, <3>1
      <4>2. PICK x, y : x = 4 * e + 4 * m /\ y = ThreadAreaSize - HeaderSize
        OBVIOUS
      <4>3. x \in Nat /\ y \in Int /\ x + 4 <= y
        BY <2>4, <4>2
      <4>4. w * 4 <= x
        BY <2>4, <4>1, <4>2
      <4>5. QED
        BY <4>1, <4>2, <4>3, <4>4
    <3>2. QED
      BY <1>3, <3>1 DEF OutsideSlot
  <2>7. Laid(s, o)'
    <3>1. ASSUME NEW w \in Nat, w < e + 1
          PROVE  ring'[s][w] = ring[s][w]
      <4>1. w \in Word /\ ~ (w \in first .. first + m - 1)
        BY <2>4, <2>5, <3>1
      <4>2. QED
        BY <1>2, <1>4, <4>1
    <3>2. \A w \in Nat : w < e => ring'[s][w] = ring[s][w]
      BY <2>4, <3>1
    <3>3. QED
      BY <1>3, <2>2, <2>3, <3>2, LaidKept DEF Layout, RingInv
  <2>8. Writing(s, e)'
    <3>1. used[s] = 4 * e + RealLength(cur[s].len) /\ ring[s][e] = LengthOf(cur[s])
      BY <1>3, <2>2, <2>3 DEF Layout, Writing
    <3>2. ring'[s][e] = LengthOf(cur[s])
      <4>1. e \in Word /\ ~ (e \in first .. first + m - 1)
        BY <2>4, <2>5
      <4>2. QED
        BY <1>2, <1>4, <3>1, <4>1
    <3>3. ASSUME NEW k \in 1 .. m
          PROVE  ring'[s][e + k] = DataOf(cur[s], k)
      <4>1. PICK w : w = e + k
        OBVIOUS
      <4>2. w \in Word /\ w \in first .. first + m - 1 /\ w - first + 1 = k
        BY <2>4, <2>5, <4>1
      <4>3. row[w] = DataOf(cur[s], k)
        BY <1>2, <4>2
      <4>4. QED
        BY <1>4, <4>1, <4>3
    <3>4. QED
      BY <1>1, <1>3, <1>4, <2>4, <3>1, <3>2, <3>3 DEF Writing
  <2>9. QED
    BY <1>3, <2>3, <2>6, <2>7, <2>8 DEF Layout
<1>9. QED
  BY <1>3, <1>4, <1>7, <1>8, SlotStep

(* A record that ends in front of the next header is copied in one piece. *)
LEMMA RoomIsContiguous ==
  ASSUME RingInv, NEW s \in Slot, ~ spoiled, pc[s] = "copy", Roomy(s)
  PROVE  Contiguous(s)
<1>1. PICK o : Layout(s, o)
  BY DEF RingInv
<1>2. PICK e, m : e = o[Len(written[s])] /\ m = Words(cur[s].len)
  OBVIOUS
<1>3. /\ e \in Nat /\ m \in Nat /\ ThreadAreaSize \in Nat /\ HeaderSize \in Nat
      /\ HeaderSize >= 8 /\ RealLength(cur[s].len) = 4 * m + 4
      /\ 4 * e + 4 * m + 4 <= ThreadAreaSize - HeaderSize /\ tailPos[s] = 4 * e + 4
  <2>1. Placed(s, o[Len(written[s])], Words(cur[s].len))
    BY <1>1, Place
  <2>2. QED
    BY <1>2, <2>1 DEF Placed
<1>4. (4 * e + 4) + (4 * m + 4) < ThreadAreaSize
  BY <1>3
<1>5. QED
  BY <1>3, <1>4 DEF Contiguous

LEMMA CopyPayloadInPartsStep ==
  ASSUME RingInv, NEW s \in Slot, CopyPayloadInParts(s)
  PROVE  RingInv'
<1>1. PICK first, last, rest, null :
        /\ first = tailPos[s] \div 4 /\ last = ThreadAreaSize \div 4 - 1
        /\ rest = AlignTo4(BytesFromStart(s)) \div 4 /\ null = BytesFromStart(s) \div 4
  OBVIOUS
<1>2. PICK row : row = [w \in Word |->
                          IF w \in first .. last THEN DataOf(cur[s], w - first + 1)
                          ELSE IF w < rest THEN DataOf(cur[s], last - first + 2 + w)
                          ELSE IF w = null THEN Torn
                          ELSE ring[s][w]]
  OBVIOUS
<1>3. /\ ~ spoiled /\ pc[s] = "copy" /\ ~ Contiguous(s)
      /\ ring' = ring \/ ring' = [ring EXCEPT ![s] = row]
      /\ spoiled' = TRUE \/ spoiled' = OutsideSlot(s, first .. last)
      /\ pc' = [pc EXCEPT ![s] = "publish"]
      /\ UNCHANGED <<share, headPos, tailPos, count, cur, takes, written, used>>
  BY <1>1, <1>2 DEF CopyPayloadInParts, headerVars
<1>4. /\ pc'[s] = "publish"
      /\ \A u \in Slot \ {s} : ring'[u] = ring[u] /\ pc'[u] = pc[u]
  BY <1>3 DEF RingInv, Types, RingTypes, OwnerTypes
<1>5. first \in Int /\ last \in Int
  <2>1. PICK w \in Word : tailPos[s] = w * 4
    BY DEF RingInv, Types, HeaderTypes
  <2>2. QED
    BY <1>1, <2>1, RingSize DEF RingWords
<1>6. Types'
  <2>1. row \in [Word -> Cell]
    <3>1. \A k \in Int : DataOf(cur[s], k) \in Cell
      BY DEF DataOf, Cell, RingInv, Types, OwnerTypes
    <3>2. Torn \in Cell
      BY DEF Torn, NoRecord, Cell, Record
    <3>3. ring[s] \in [Word -> Cell]
      BY DEF RingInv, Types, RingTypes
    <3>4. \A w \in Word : w - first + 1 \in Int /\ last - first + 2 + w \in Int
      BY <1>5, RingSize
    <3>5. ASSUME NEW w \in Word
          PROVE  row[w] \in Cell
      BY <1>2, <3>1, <3>2, <3>3, <3>4
    <3>6. QED
      BY <1>2, <3>5
  <2>2. RingTypes'
    BY <1>3, <2>1 DEF RingInv, Types, RingTypes
  <2>3. HeaderTypes'
    BY <1>3 DEF RingInv, Types, HeaderTypes
  <2>4. pc' \in [Slot -> {"idle", "evict", "copy", "publish"}] /\ spoiled' \in BOOLEAN
    BY <1>3 DEF RingInv, Types, OwnerTypes, OutsideSlot
  <2>5. OwnerTypes'
    BY <1>3, <2>4 DEF RingInv, Types, OwnerTypes
  <2>6. WritesBounded'
    BY <1>3, <1>4 DEF RingInv, Types, WritesBounded
  <2>7. QED
    BY <2>2, <2>3, <2>5, <2>6 DEF Types
<1>7. ~ Roomy(s)'
  BY <1>3, RoomIsContiguous DEF Roomy
<1>8. QED
  BY <1>3, <1>4, <1>6, <1>7, SlotStep

LEMMA PublishStep ==
  ASSUME RingInv, NEW s \in Slot, Publish(s)
  PROVE  RingInv'
<1>1. PICK m : m = Words(cur[s].len)
  OBVIOUS
<1>2. /\ ~ spoiled /\ ~ spoiled' /\ pc[s] = "publish"
      /\ tailPos' = [tailPos EXCEPT ![s] = Advanced(s, Aligned(cur[s].len))]
      /\ count' = [count EXCEPT ![s] = count[s] + 1]
      /\ written' = [written EXCEPT ![s] = Append(written[s], cur[s])]
      /\ pc' = [pc EXCEPT ![s] = "idle"]
      /\ UNCHANGED <<share, ring, headPos, cur, takes, used, spoiled>>
  BY DEF Publish, RingInv, Types, HeaderTypes, OwnerTypes
<1>3. /\ pc'[s] = "idle" /\ tailPos'[s] = Advanced(s, Aligned(cur[s].len))
      /\ written'[s] = Append(written[s], cur[s])
      /\ \A u \in Slot \ {s} : /\ tailPos'[u] = tailPos[u] /\ pc'[u] = pc[u]
                               /\ written'[u] = written[u]
  BY <1>2 DEF RingInv, Types, HeaderTypes, OwnerTypes
<1>4. cur[s] \in Record /\ cur[s].len \in Nat /\ written[s] \in Seq(Record)
  BY DEF RingInv, Types, OwnerTypes, Record
<1>5. m \in Nat /\ Aligned(cur[s].len) = 4 * m
  BY <1>1, <1>4, Aligning
<1>6. PICK n : n = Len(written[s])
  OBVIOUS
<1>7. /\ n \in Nat /\ n < MaxWrites /\ Len(written'[s]) = n + 1 /\ written'[s] \in Seq(Record)
      /\ written'[s][n + 1] = cur[s]
      /\ \A i \in 1 .. n : written'[s][i] = written[s][i]
  <2>1. n < MaxWrites
    BY <1>2, <1>6 DEF RingInv, Types, WritesBounded
  <2>2. QED
    BY <1>3, <1>4, <1>6, <2>1
<1>8. Types'
  <2>1. RingTypes'
    BY <1>2 DEF RingInv, Types, RingTypes
  <2>2. HeaderTypes'
    <3>1. PICK w \in Word : tailPos[s] = w * 4
      BY DEF RingInv, Types, HeaderTypes
    <3>2. w + m \in Nat /\ tailPos[s] + 4 * m = 4 * (w + m)
      BY <1>5, <3>1, RingSize
    <3>3. Advanced(s, Aligned(cur[s].len)) \in {v * 4 : v \in Word}
      BY <1>5, <3>2, WrapsToWords DEF Advanced
    <3>4. tailPos' \in [Slot -> {v * 4 : v \in Word}]
      BY <1>2, <3>3 DEF RingInv, Types, HeaderTypes
    <3>5. count' \in [Slot -> Int]
      BY <1>2 DEF RingInv, Types, HeaderTypes
    <3>6. QED
      BY <1>2, <3>4, <3>5 DEF RingInv, Types, HeaderTypes
  <2>3. written' \in [Slot -> Seq(Record)]
    BY <1>2, <1>3, <1>7 DEF RingInv, Types, OwnerTypes
  <2>4. pc' \in [Slot -> {"idle", "evict", "copy", "publish"}]
    BY <1>2 DEF RingInv, Types, OwnerTypes
  <2>5. OwnerTypes'
    BY <1>2, <2>3, <2>4 DEF RingInv, Types, OwnerTypes
  <2>6. WritesBounded'
    <3>1. Len(written'[s]) <= MaxWrites
      BY <1>7, SizesAssumption
    <3>2. QED
      BY <1>3, <3>1 DEF RingInv, Types, WritesBounded
  <2>7. QED
    BY <2>1, <2>2, <2>5, <2>6 DEF Types
<1>9. ASSUME Roomy(s)'
      PROVE  \E o : Layout(s, o)'
  <2>1. Roomy(s)
    BY <1>2, <1>9 DEF Roomy
  <2>2. PICK o : Layout(s, o)
    BY <1>2, <2>1 DEF RingInv
  <2>3. PICK e : e = o[n]
    OBVIOUS
  <2>4. /\ e \in Nat /\ m >= 1 /\ ThreadAreaSize \in Nat /\ HeaderSize \in Nat
        /\ HeaderSize >= 8 /\ RealLength(cur[s].len) = 4 * m + 4
        /\ 4 * e + 4 * m + 4 <= ThreadAreaSize - HeaderSize
        /\ headPos[s] = 0 /\ tailPos[s] = 4 * e + 4
    <3>1. Placed(s, o[Len(written[s])], Words(cur[s].len))
      BY <1>2, <2>1, <2>2, Place
    <3>2. QED
      BY <1>1, <1>2, <1>6, <2>3, <3>1 DEF Placed
  <2>5. /\ used[s] = 4 * e + RealLength(cur[s].len) /\ ring[s][e] = LengthOf(cur[s])
        /\ \A k \in 1 .. m : ring[s][e + k] = DataOf(cur[s], k)
    BY <1>1, <1>2, <1>6, <2>2, <2>3 DEF Layout, Writing
  <2>6. /\ o \in [0 .. n -> Nat] /\ o[0] = 0
        /\ \A i \in 0 .. n : o[i] <= e
        /\ \A i \in 1 .. n :
             /\ o[i] = o[i - 1] + Words(written[s][i].len) + 1
             /\ ring[s][o[i - 1]] = LengthOf(written[s][i])
             /\ \A k \in 1 .. Words(written[s][i].len) :
                  ring[s][o[i - 1] + k] = DataOf(written[s][i], k)
    BY <1>6, <2>2, <2>3 DEF Layout, Laid
  <2>7. PICK p : p = [i \in 0 .. n + 1 |-> IF i = n + 1 THEN e + m + 1 ELSE o[i]]
    OBVIOUS
  <2>8. /\ p \in [0 .. n + 1 -> Nat] /\ p[0] = 0 /\ p[n + 1] = e + m + 1 /\ p[n] = e
        /\ \A i \in 0 .. n : p[i] = o[i]
    <3>1. \A i \in 0 .. n : i \in 0 .. n + 1 /\ i # n + 1
      BY <1>7
    <3>2. \A i \in 0 .. n : p[i] = o[i]
      BY <2>7, <3>1
    <3>3. n + 1 \in 0 .. n + 1 /\ 0 \in 0 .. n /\ n \in 0 .. n
      BY <1>7
    <3>4. p[n + 1] = e + m + 1
      BY <2>7, <3>3
    <3>5. e + m + 1 \in Nat
      BY <1>5, <2>4
    <3>6. \A i \in 0 .. n + 1 : (IF i = n + 1 THEN e + m + 1 ELSE o[i]) \in Nat
      BY <1>7, <2>6, <3>5
    <3>7. p \in [0 .. n + 1 -> Nat]
      BY <2>7, <3>6
    <3>8. QED
      BY <2>3, <2>6, <3>2, <3>3, <3>4, <3>7
  <2>9. \A i \in 0 .. n + 1 : p[i] <= p[n + 1]
    <3>1. ASSUME NEW i \in 0 .. n
          PROVE  p[i] <= e + m + 1
      <4>1. p[i] = o[i] /\ o[i] \in Nat /\ o[i] <= e
        BY <2>6, <2>8, <3>1
      <4>2. QED
        BY <1>5, <2>4, <4>1
    <3>2. p[n + 1] <= e + m + 1
      BY <1>5, <2>4, <2>8
    <3>3. \A i \in 0 .. n + 1 : i \in 0 .. n \/ i = n + 1
      BY <1>7
    <3>4. \A i \in 0 .. n + 1 : p[i] <= e + m + 1
      BY <3>1, <3>2, <3>3
    <3>5. QED
      BY <2>8, <3>4
  <2>10. ASSUME NEW i \in 1 .. n + 1
         PROVE  /\ p[i] = p[i - 1] + Words(written'[s][i].len) + 1
                /\ ring'[s][p[i - 1]] = LengthOf(written'[s][i])
                /\ \A k \in 1 .. Words(written'[s][i].len) :
                     ring'[s][p[i - 1] + k] = DataOf(written'[s][i], k)
    <3>1. CASE i = n + 1
      <4>1. i - 1 = n
        BY <1>7, <3>1
      <4>2. p[i - 1] = e /\ p[i] = e + m + 1 /\ written'[s][i] = cur[s]
        BY <1>7, <2>8, <3>1, <4>1
      <4>3. QED
        BY <1>1, <1>2, <2>5, <4>2
    <3>2. CASE i # n + 1
      <4>1. i \in 1 .. n /\ i - 1 \in 0 .. n /\ i \in 0 .. n
        BY <1>7, <3>2
      <4>2. p[i - 1] = o[i - 1] /\ p[i] = o[i] /\ written'[s][i] = written[s][i]
        BY <1>7, <2>8, <4>1
      <4>3. QED
        BY <1>2, <2>6, <4>1, <4>2
    <3>3. QED
      BY <3>1, <3>2
  <2>11. Laid(s, p)'
    BY <1>7, <2>8, <2>9, <2>10 DEF Laid
  <2>12. Writing(s, e + m + 1)'
    <3>1. 4 * e + 4 + 4 * m \in Nat /\ 4 * e + 4 + 4 * m < ThreadAreaSize
      BY <1>5, <2>4
    <3>2. (4 * e + 4 + 4 * m) % ThreadAreaSize = 4 * e + 4 + 4 * m
      BY <2>4, <3>1, ModSmall
    <3>3. tailPos'[s] = 4 * e + 4 + 4 * m
      BY <1>3, <1>5, <2>4, <3>2 DEF Advanced
    <3>4. PICK f : f = e + m + 1
      OBVIOUS
    <3>5. tailPos'[s] = 4 * f + 0 /\ used'[s] = 4 * f + 0 /\ headPos'[s] = 0
      <4>1. 4 * f = 4 * e + 4 * m + 4 /\ f \in Nat
        BY <1>5, <2>4, <3>4
      <4>2. used'[s] = 4 * e + (4 * m + 4) /\ headPos'[s] = 0
        BY <1>2, <2>4, <2>5
      <4>3. QED
        BY <1>5, <2>4, <3>3, <4>1, <4>2
    <3>6. Writing(s, f)'
      BY <1>3, <3>5 DEF Writing
    <3>7. QED
      BY <3>4, <3>6
  <2>13. QED
    BY <1>7, <2>8, <2>11, <2>12 DEF Layout
<1>10. QED
  BY <1>2, <1>3, <1>8, <1>9, SlotStep

LEMMA StepRingInv == RingInv /\ [Next]_vars => RingInv'
<1>1. SUFFICES ASSUME RingInv, [Next]_vars PROVE RingInv'
  OBVIOUS
<1>2. CASE UNCHANGED vars
  <2>1. Types'
    BY <1>1, <1>2 DEF vars, headerVars, RingInv, Types, RingTypes, HeaderTypes, OwnerTypes,
                      WritesBounded
  <2>2. ASSUME NEW u \in Slot, Roomy(u)', ~ spoiled'
        PROVE  \E o : Layout(u, o)'
    <3>1. Roomy(u) /\ ~ spoiled
      BY <1>2, <2>2 DEF vars, Roomy
    <3>2. PICK o : Layout(u, o)
      BY <1>1, <3>1 DEF RingInv
    <3>3. QED
      BY <1>2, <3>2, SlotStays DEF vars, headerVars
  <2>3. SpoiledOnlyPastRoom'
    BY <1>1, <1>2 DEF vars, RingInv, SpoiledOnlyPastRoom, Roomy, InPlace
  <2>4. QED
    BY <2>1, <2>2, <2>3 DEF RingInv
<1>3. ASSUME NEW s \in Slot, \/ Retake(s)
                             \/ \E len \in RecLen : BeginWrite(s, len)
                             \/ EvictHead(s) \/ StoreLength(s)
                             \/ CopyPayload(s) \/ CopyPayloadInParts(s)
                             \/ Publish(s)
      PROVE  RingInv'
  BY <1>1, <1>3, RetakeStep, BeginWriteStep, EvictHeadStep, StoreLengthStep, CopyPayloadStep,
     CopyPayloadInPartsStep, PublishStep
<1>4. QED
  BY <1>1, <1>2, <1>3 DEF Next

(* RingInv is inductive: it holds in every state. *)
THEOREM SpecRingInv == Spec => []RingInv
<1>1. QED
  BY InitRingInv, StepRingInv, PTL DEF Spec

(* Types of the state; every tail is the position of a word of the ring,
   however often the ring was wrapped around. *)
THEOREM TypesAlways == Spec => []TypeOK
<1>1. RingInv => TypeOK
  <2>1. SUFFICES ASSUME RingInv PROVE TypeOK
    OBVIOUS
  <2>2. \A s \in Slot : DOMAIN ring[s] = Word
    BY <2>1 DEF RingInv, Types, RingTypes
  <2>3. \A s \in Slot : Len(written[s]) <= MaxWrites
    BY <2>1, SizesAssumption DEF RingInv, Types, WritesBounded, OwnerTypes
  <2>4. QED
    BY <2>1, <2>2, <2>3 DEF RingInv, Types, HeaderTypes, OwnerTypes, TypeOK
<1>2. QED
  BY <1>1, SpecRingInv, PTL

(* writeLifeSignRecord touches nothing outside the slots, and no turn of its
   loop reads outside them, as long as the records of every owner fit into
   its slot and obtainThreadSlot resets the header of every slot it hands out
   where the writer looks for it. *)
THEOREM NothingOutside == Spec => []SpoiledOnlyPastRoom
<1>1. RingInv => SpoiledOnlyPastRoom
  BY DEF RingInv
<1>2. QED
  BY <1>1, SpecRingInv, PTL

-----------------------------------------------------------------------------
(* readLifeSignRecord in a slot with room for its records.                 *)

Call(offset, found, stop) == [offset |-> offset, found |-> found, stop |-> stop]

LEMMA TailPlace ==
  ASSUME RingInv, NEW s \in Slot, Roomy(s), NEW o, Layout(s, o),
         NEW e, e = o[Len(written[s])]
  PROVE  /\ e \in Nat /\ headPos[s] = 0 /\ 4 * e + 8 <= ThreadAreaSize
         /\ pc[s] \notin {"copy", "publish"} => tailPos[s] = 4 * e
         /\ pc[s] \in {"copy", "publish"} =>
              tailPos[s] = 4 * e + 4 /\ ring[s][e] = LengthOf(cur[s])
<1>1. e \in Nat
  BY DEF Layout, Laid, RingInv, Types, OwnerTypes
<1>2. Writing(s, e)
  BY DEF Layout
<1>3. used[s] <= ThreadAreaSize - HeaderSize /\ ThreadAreaSize \in Nat /\ HeaderSize \in Nat
      /\ HeaderSize >= 8
  BY SizesAssumption DEF Roomy
<1>4. cur[s].len \in Nat /\ pc[s] \in {"idle", "evict", "copy", "publish"} /\ used[s] \in Nat
  BY DEF RingInv, Types, OwnerTypes, Record
<1>5. RealLength(cur[s].len) \in Nat
  <2>1. Words(cur[s].len) \in Nat /\ RealLength(cur[s].len) = 4 * Words(cur[s].len) + 4
    BY <1>4, Aligning
  <2>2. QED
    BY <2>1
<1>6. 4 * e <= used[s]
  <2>1. CASE pc[s] = "idle"
    BY <1>1, <1>2, <2>1 DEF Writing
  <2>2. CASE pc[s] # "idle"
    BY <1>1, <1>2, <1>5, <2>2 DEF Writing
  <2>3. QED
    BY <2>1, <2>2
<1>7. 4 * e + 8 <= ThreadAreaSize
  <2>1. PICK u : u = used[s]
    OBVIOUS
  <2>2. u \in Nat /\ 4 * e <= u /\ u <= ThreadAreaSize - HeaderSize
    BY <1>3, <1>4, <1>6, <2>1
  <2>3. QED
    BY <1>1, <1>3, <2>2
<1>8. headPos[s] = 0
  BY <1>2 DEF Writing
<1>9. pc[s] \in {"copy", "publish"} => tailPos[s] = 4 * e + 4 /\ ring[s][e] = LengthOf(cur[s])
  BY <1>2 DEF Writing
<1>10. pc[s] \notin {"copy", "publish"} => tailPos[s] = 4 * e
  <2>1. pc[s] \notin {"copy", "publish"} => tailPos[s] = 4 * e + 0
    BY <1>2 DEF Writing
  <2>2. QED
    BY <1>1, <2>1
<1>11. QED
  BY <1>1, <1>7, <1>8, <1>9, <1>10

(* A call that starts on the length field of a record returns the record when
   it ends in front of the tail, and reports one that ends behind it. *)
RecordAt(s, a, r) ==
  /\ headPos[s] = 0 /\ tailPos[s] \in Nat /\ a \in Nat /\ r \in Record
  /\ ring[s][a] = LengthOf(r)
  /\ 4 * a < tailPos[s] /\ 4 * a + 4 < ThreadAreaSize
  /\ 4 * (a + Words(r.len) + 1) < ThreadAreaSize
Cut(s, a, r) == 4 * (a + Words(r.len) + 1) > tailPos[s]

LEMMA ReadAt ==
  ASSUME NEW s \in Slot, NEW a, NEW r, RecordAt(s, a, r), NEW found
  PROVE  /\ Cut(s, a, r) =>
              ReadOne(s, Call(4 * a, found, "none")) = Call(4 * a, found, "corrupt")
         /\ /\ ~ Cut(s, a, r)
            /\ \A k \in 1 .. Words(r.len) : ring[s][a + k] = DataOf(r, k)
            => ReadOne(s, Call(4 * a, found, "none"))
                 = Call(4 * (a + Words(r.len) + 1), Append(found, Payload(r)), "none")
<1> PICK m : m = Words(r.len)
  OBVIOUS
<1>0. /\ headPos[s] = 0 /\ tailPos[s] \in Nat /\ a \in Nat /\ r \in Record
      /\ ring[s][a] = LengthOf(r)
      /\ 4 * a < tailPos[s] /\ 4 * a + 4 < ThreadAreaSize
      /\ 4 * (a + m + 1) < ThreadAreaSize
  BY DEF RecordAt
<1> USE <1>0
<1>1. r.len \in Nat
  BY DEF Record
<1>2. m \in Nat /\ m >= 1 /\ Aligned(r.len) = 4 * m
  BY <1>1, Aligning
<1>3. RingWords \in Nat /\ ThreadAreaSize = 4 * RingWords /\ ThreadAreaSize \in Nat
  BY RingSize, SizesAssumption
<1>4. PICK p : p = Call(4 * a, found, "none")
  OBVIOUS
<1>5. p.offset = 4 * a /\ p.found = found
  BY <1>4 DEF Call
<1>6. PICK start, data, end : start = 4 * a /\ data = 4 * a + 4 /\ end = 4 * (a + m + 1)
  OBVIOUS
<1>7. /\ start \in Nat /\ start < ThreadAreaSize /\ data \in Nat /\ data < ThreadAreaSize
      /\ end \in Nat /\ end < ThreadAreaSize /\ data + 4 * m = end /\ data < end
      /\ start + 4 = data
  BY <1>2, <1>3, <1>6
<1>8. (headPos[s] + p.offset) % ThreadAreaSize = start
  <2>1. headPos[s] + p.offset = start
    BY <1>5, <1>6
  <2>2. QED
    BY <1>3, <1>7, <2>1, ModSmall
<1>9. (start + 4) % ThreadAreaSize = data /\ (data + 4 * m) % ThreadAreaSize = end
  BY <1>3, <1>7, ModSmall
<1>10. start \div 4 = a /\ start % 4 = 0 /\ (p.offset + 4) \div 4 = a + 1 /\ (4 * m) \div 4 = m
  BY <1>2, <1>5, <1>6
<1>11. ring[s][start \div 4] = LengthOf(r) /\ LengthOf(r).kind = "length"
       /\ LengthOf(r).rec = r
  BY <1>10 DEF LengthOf
<1>12. AlignTo4(LengthOf(r).rec.len + 1) = 4 * m
  BY <1>2, <1>11 DEF Aligned
<1>13. ReadOne(s, p) =
         IF start >= tailPos[s] THEN [p EXCEPT !.stop = "end"]
         ELSE IF start % 4 # 0 \/ LengthOf(r).kind # "length" THEN [p EXCEPT !.stop = "garbage"]
         ELSE IF end > tailPos[s] THEN [p EXCEPT !.stop = "corrupt"]
         ELSE [p EXCEPT !.offset = p.offset + 4 + 4 * m,
                        !.found = Append(p.found, IF data < end
                                                  THEN WordsFrom(s, a + 1, m)
                                                  ELSE WordsFrom(s, data \div 4, m))]
  BY <1>8, <1>9, <1>10, <1>11, <1>12 DEF ReadOne
<1>14. ~ (start >= tailPos[s])
  BY <1>6
<1>15. ASSUME end > tailPos[s]
       PROVE  ReadOne(s, p) = Call(4 * a, found, "corrupt")
  <2>1. ReadOne(s, p) = [p EXCEPT !.stop = "corrupt"]
    BY <1>10, <1>11, <1>13, <1>14, <1>15
  <2>2. QED
    BY <1>4, <2>1 DEF Call
<1>16. ASSUME ~ (end > tailPos[s]), \A k \in 1 .. m : ring[s][a + k] = DataOf(r, k)
       PROVE  ReadOne(s, p) = Call(end, Append(found, Payload(r)), "none")
  <2>1. WordsFrom(s, a + 1, m) = Payload(r)
    <3>1. Aligned(r.len) \div 4 = m
      BY <1>2
    <3>2. ASSUME NEW k \in 1 .. m
          PROVE  ring[s][(a + 1 + k - 1) % (ThreadAreaSize \div 4)] = DataOf(r, k)
      <4>1. ThreadAreaSize \div 4 = RingWords
        BY DEF RingWords
      <4>2. PICK w : w = a + k
        OBVIOUS
      <4>3. w \in Nat /\ w < RingWords /\ a + 1 + k - 1 = w
        BY <1>2, <1>3, <1>6, <1>7, <4>2
      <4>4. w % RingWords = w
        BY <1>3, <4>3, ModSmall
      <4>5. QED
        BY <1>16, <4>1, <4>2, <4>3, <4>4
    <3>3. QED
      BY <3>1, <3>2 DEF WordsFrom, Payload
  <2>2. ReadOne(s, p) = [p EXCEPT !.offset = p.offset + 4 + 4 * m,
                                  !.found = Append(p.found, WordsFrom(s, a + 1, m))]
    BY <1>7, <1>10, <1>11, <1>13, <1>14, <1>16
  <2>3. p.offset + 4 + 4 * m = end
    BY <1>2, <1>5, <1>6
  <2>4. ReadOne(s, p) = [p EXCEPT !.offset = end, !.found = Append(found, Payload(r))]
    BY <1>5, <2>1, <2>2, <2>3
  <2>5. QED
    BY <1>4, <2>4 DEF Call
<1>17. Cut(s, a, r) <=> end > tailPos[s]
  BY <1>6 DEF Cut
<1>18. QED
  BY <1>4, <1>6, <1>15, <1>16, <1>17

(* The payloads of the first k records of the owner of s. *)
Payloads(s, k) == [i \in 1 .. k |-> Payload(written[s][i])]

LEMMA NextPayload ==
  ASSUME NEW s \in Slot, NEW k \in Nat
  PROVE  Append(Payloads(s, k), Payload(written[s][k + 1])) = Payloads(s, k + 1)
<1>1. PICK S : S = {Payload(written[s][i]) : i \in 1 .. k + 1}
  OBVIOUS
<1>2. PICK f, g, x : f = Payloads(s, k) /\ g = Payloads(s, k + 1)
                     /\ x = Payload(written[s][k + 1])
  OBVIOUS
<1>3. k + 1 \in Nat /\ k + 1 \in 1 .. k + 1 /\ \A i \in 1 .. k : i \in 1 .. k + 1
  OBVIOUS
<1>4. f \in Seq(S) /\ Len(f) = k /\ \A i \in 1 .. k : f[i] = Payload(written[s][i])
  <2>1. f \in [1 .. k -> S]
    BY <1>1, <1>2, <1>3 DEF Payloads
  <2>2. QED
    BY <1>2, <2>1 DEF Payloads
<1>5. g \in Seq(S) /\ Len(g) = k + 1 /\ \A i \in 1 .. k + 1 : g[i] = Payload(written[s][i])
  <2>1. g \in [1 .. k + 1 -> S]
    BY <1>1, <1>2 DEF Payloads
  <2>2. QED
    BY <1>2, <1>3, <2>1 DEF Payloads
<1>6. x \in S
  BY <1>1, <1>2, <1>3
<1>7. PICK h : h = Append(f, x)
  OBVIOUS
<1>8. h \in Seq(S) /\ Len(h) = k + 1 /\ h[k + 1] = x /\ \A i \in 1 .. k : h[i] = f[i]
  BY <1>4, <1>6, <1>7
<1>9. \A i \in 1 .. k + 1 : h[i] = g[i]
  <2>1. \A i \in 1 .. k + 1 : i \in 1 .. k \/ i = k + 1
    OBVIOUS
  <2>2. \A i \in 1 .. k : h[i] = g[i]
    BY <1>3, <1>4, <1>5, <1>8
  <2>3. h[k + 1] = g[k + 1]
    BY <1>2, <1>3, <1>5, <1>8
  <2>4. QED
    BY <2>1, <2>2, <2>3
<1>10. h = g
  BY <1>5, <1>8, <1>9, SeqEqual
<1>11. QED
  BY <1>2, <1>7, <1>10

(* The inspector's calls, one after the other, when the records lie as o says:
   one call for each record, and one that fails behind the last of them. *)
Verdict(s) == IF pc[s] \in {"copy", "publish"} THEN "corrupt" ELSE "end"
Answer(s, o, k) ==
  LET n == Len(written[s]) IN
  IF k <= n THEN Call(4 * o[k], Payloads(s, k), "none")
  ELSE Call(4 * o[n], Payloads(s, n), Verdict(s))

LEMMA ReadRecord ==
  ASSUME RingInv, NEW s \in Slot, Roomy(s), NEW o, Layout(s, o),
         NEW k \in Nat, k < Len(written[s])
  PROVE  ReadOne(s, Answer(s, o, k)) = Answer(s, o, k + 1)
<1>1. PICK n, e, a, r, m : /\ n = Len(written[s]) /\ e = o[n] /\ a = o[k]
                           /\ r = written[s][k + 1] /\ m = Words(r.len)
  OBVIOUS
<1>2. n \in Nat /\ k + 1 \in 1 .. n /\ k \in 0 .. n /\ k + 1 - 1 = k
  BY <1>1 DEF RingInv, Types, OwnerTypes
<1>3. r \in Record /\ m \in Nat /\ m >= 1
  <2>1. written[s] \in Seq(Record) /\ k + 1 \in 1 .. Len(written[s])
    BY <1>1, <1>2 DEF RingInv, Types, OwnerTypes
  <2>2. r \in Record /\ r.len \in Nat
    <3>1. written[s][k + 1] \in Record
      BY <2>1
    <3>2. QED
      BY <1>1, <3>1 DEF Record
  <2>3. QED
    BY <1>1, <2>2, Aligning
<1>4. /\ a \in Nat /\ o[k + 1] \in Nat /\ o[k + 1] <= e
      /\ o[k + 1] = a + m + 1
      /\ ring[s][a] = LengthOf(r)
      /\ \A i \in 1 .. m : ring[s][a + i] = DataOf(r, i)
  <2>1. o \in [0 .. n -> Nat] /\ \A i \in 0 .. n : o[i] <= e
    BY <1>1 DEF Layout, Laid
  <2>2. /\ o[k + 1] = o[k + 1 - 1] + m + 1
        /\ ring[s][o[k + 1 - 1]] = LengthOf(r)
        /\ \A i \in 1 .. m : ring[s][o[k + 1 - 1] + i] = DataOf(r, i)
    BY <1>1, <1>2 DEF Layout, Laid
  <2>3. QED
    BY <1>1, <1>2, <2>1, <2>2
<1>5. /\ e \in Nat /\ headPos[s] = 0 /\ 4 * e + 8 <= ThreadAreaSize
      /\ tailPos[s] \in {4 * e, 4 * e + 4}
  BY <1>1, TailPlace
<1>6. ThreadAreaSize \in Nat
  BY SizesAssumption
<1>7. tailPos[s] \in Nat /\ 4 * a < tailPos[s] /\ 4 * a + 4 < ThreadAreaSize
      /\ 4 * (a + m + 1) < ThreadAreaSize /\ ~ (4 * (a + m + 1) > tailPos[s])
  BY <1>3, <1>4, <1>5, <1>6
<1>8. ReadOne(s, Call(4 * a, Payloads(s, k), "none"))
        = Call(4 * (a + m + 1), Append(Payloads(s, k), Payload(r)), "none")
  <2>1. PICK f : f = Payloads(s, k)
    OBVIOUS
  <2>2. m = Words(r.len)
    BY <1>1
  <2>3. headPos[s] = 0 /\ a \in Nat /\ ring[s][a] = LengthOf(r)
        /\ \A i \in 1 .. m : ring[s][a + i] = DataOf(r, i)
    BY <1>4, <1>5
  <2>4. ReadOne(s, Call(4 * a, f, "none"))
          = Call(4 * (a + m + 1), Append(f, Payload(r)), "none")
    <3>1. RecordAt(s, a, r) /\ ~ Cut(s, a, r)
      BY <1>3, <1>7, <2>2, <2>3 DEF RecordAt, Cut
    <3>2. \A i \in 1 .. Words(r.len) : ring[s][a + i] = DataOf(r, i)
      BY <2>2, <2>3
    <3>3. ReadOne(s, Call(4 * a, f, "none"))
            = Call(4 * (a + Words(r.len) + 1), Append(f, Payload(r)), "none")
      BY <3>1, <3>2, ReadAt
    <3>4. QED
      BY <2>2, <3>3
  <2>5. QED
    BY <2>1, <2>4
<1>9. Append(Payloads(s, k), Payload(r)) = Payloads(s, k + 1)
  BY <1>1, NextPayload
<1>10. Answer(s, o, k) = Call(4 * a, Payloads(s, k), "none")
  BY <1>1, <1>2 DEF Answer
<1>11. Answer(s, o, k + 1) = Call(4 * o[k + 1], Payloads(s, k + 1), "none")
  BY <1>1, <1>2 DEF Answer
<1>12. QED
  BY <1>4, <1>8, <1>9, <1>10, <1>11

LEMMA ReadBehindLast ==
  ASSUME RingInv, NEW s \in Slot, Roomy(s), NEW o, Layout(s, o), NEW n, n = Len(written[s])
  PROVE  ReadOne(s, Answer(s, o, n)) = Answer(s, o, n + 1)
<1>1. PICK e : e = o[n]
  OBVIOUS
<1>2. n \in Nat /\ n <= n /\ ~ (n + 1 <= n)
  BY DEF RingInv, Types, OwnerTypes
<1>3. /\ e \in Nat /\ headPos[s] = 0 /\ 4 * e + 8 <= ThreadAreaSize
      /\ pc[s] \notin {"copy", "publish"} => tailPos[s] = 4 * e
      /\ pc[s] \in {"copy", "publish"} => tailPos[s] = 4 * e + 4 /\ ring[s][e] = LengthOf(cur[s])
  BY <1>1, TailPlace
<1>4. ThreadAreaSize \in Nat
  BY SizesAssumption
<1>5. PICK p : p = Call(4 * e, Payloads(s, n), "none")
  OBVIOUS
<1>6. Answer(s, o, n) = p /\ Answer(s, o, n + 1) = Call(4 * e, Payloads(s, n), Verdict(s))
  BY <1>1, <1>2, <1>5 DEF Answer
<1>7. CASE pc[s] \in {"copy", "publish"}
  <2>1. PICK m : m = Words(cur[s].len)
    OBVIOUS
  <2>2. cur[s] \in Record /\ cur[s].len \in Nat
    BY DEF RingInv, Types, OwnerTypes, Record
  <2>3. m \in Nat /\ m >= 1
    BY <2>1, <2>2, Aligning
  <2>4. pc[s] # "idle" /\ pc[s] # "evict"
    BY <1>7
  <2>5. 4 * e + 4 * m + 4 <= ThreadAreaSize - HeaderSize /\ HeaderSize \in Nat /\ HeaderSize >= 8
    <3>1. Placed(s, o[Len(written[s])], Words(cur[s].len))
      BY <2>4, Place
    <3>2. QED
      BY <1>1, <2>1, <3>1 DEF Placed
  <2>6. /\ tailPos[s] \in Nat /\ 4 * e < tailPos[s] /\ 4 * e + 4 < ThreadAreaSize
        /\ 4 * (e + m + 1) < ThreadAreaSize /\ 4 * (e + m + 1) > tailPos[s]
    BY <1>3, <1>4, <1>7, <2>3, <2>5
  <2>7. ReadOne(s, p) = Call(4 * e, Payloads(s, n), "corrupt")
    <3>1. PICK f : f = Payloads(s, n)
      OBVIOUS
    <3>2. headPos[s] = 0 /\ e \in Nat /\ ring[s][e] = LengthOf(cur[s])
      BY <1>3, <1>7
    <3>3. RecordAt(s, e, cur[s]) /\ Cut(s, e, cur[s])
      BY <2>1, <2>2, <2>6, <3>2 DEF RecordAt, Cut
    <3>4. ReadOne(s, Call(4 * e, f, "none")) = Call(4 * e, f, "corrupt")
      BY <3>3, ReadAt
    <3>5. QED
      BY <1>5, <3>1, <3>4
  <2>8. QED
    BY <1>6, <1>7, <2>7 DEF Verdict
<1>8. CASE pc[s] \notin {"copy", "publish"}
  <2>1. p.offset = 4 * e
    BY <1>5 DEF Call
  <2>2. PICK start : start = 4 * e
    OBVIOUS
  <2>3. start \in Nat /\ start < ThreadAreaSize /\ headPos[s] + p.offset = start
        /\ tailPos[s] = start
    BY <1>3, <1>4, <1>8, <2>1, <2>2
  <2>4. (headPos[s] + p.offset) % ThreadAreaSize = start
    BY <1>4, <2>3, ModSmall
  <2>5. start >= tailPos[s]
    BY <2>3
  <2>6. ReadOne(s, p) = [p EXCEPT !.stop = "end"]
    BY <2>4, <2>5 DEF ReadOne
  <2>7. ReadOne(s, p) = Call(4 * e, Payloads(s, n), "end")
    BY <1>5, <2>6 DEF Call
  <2>8. QED
    BY <1>6, <1>8, <2>7 DEF Verdict
<1>9. QED
  BY <1>7, <1>8

(* The calls of the inspector, as ReadUpTo defines them, have exactly one
   solution. *)
LEMMA CallsAreAnswers ==
  ASSUME RingInv, NEW s \in Slot, Roomy(s), NEW o, Layout(s, o)
  PROVE  ReadUpTo(s) = Answer(s, o, MaxWrites + 1)
<1> DEFINE D == 0 .. MaxWrites + 1
           First == Call(0, <<>>, "none")
           Turn(f, k) == IF k = 0 THEN First
                         ELSE IF f[k - 1].stop # "none" THEN f[k - 1]
                         ELSE ReadOne(s, f[k - 1])
           Solves(f) == f = [k \in D |-> Turn(f, k)]
           C == CHOOSE f : Solves(f)
<1>1. ReadUpTo(s) = C[MaxWrites + 1]
  BY DEF ReadUpTo, Call
<1>2. PICK n : n = Len(written[s])
  OBVIOUS
<1>3. n \in Nat /\ n <= MaxWrites /\ MaxWrites \in Nat
  <2>1. n <= MaxWrites
    BY <1>2, SizesAssumption DEF RingInv, Types, OwnerTypes, WritesBounded
  <2>2. QED
    BY <1>2, <2>1, SizesAssumption DEF RingInv, Types, OwnerTypes
<1>4. Answer(s, o, 0) = First
  <2>1. o[0] = 0 /\ 0 <= n
    BY <1>3 DEF Layout, Laid
  <2>2. Payloads(s, 0) = <<>>
    BY DEF Payloads
  <2>3. QED
    BY <1>2, <2>1, <2>2 DEF Answer
<1>5. ASSUME NEW k \in Nat
      PROVE  /\ k <= n => Answer(s, o, k).stop = "none"
             /\ k > n => Answer(s, o, k).stop # "none" /\ Answer(s, o, k) = Answer(s, o, n + 1)
  <2>1. CASE k <= n
    BY <1>2, <1>3, <2>1 DEF Answer, Call
  <2>2. CASE ~ (k <= n)
    <3>1. ~ (n + 1 <= n)
      BY <1>3
    <3>2. Answer(s, o, k) = Call(4 * o[n], Payloads(s, n), Verdict(s))
          /\ Answer(s, o, n + 1) = Call(4 * o[n], Payloads(s, n), Verdict(s))
      BY <1>2, <2>2, <3>1 DEF Answer
    <3>3. Verdict(s) # "none"
      BY DEF Verdict
    <3>4. QED
      BY <2>2, <3>2, <3>3 DEF Call
  <2>3. QED
    BY <1>3, <2>1, <2>2
<1>6. ASSUME NEW k \in Nat
      PROVE  Answer(s, o, k + 1) = IF Answer(s, o, k).stop # "none" THEN Answer(s, o, k)
                                   ELSE ReadOne(s, Answer(s, o, k))
  <2>1. CASE k < n
    <3>1. ReadOne(s, Answer(s, o, k)) = Answer(s, o, k + 1)
      BY <1>2, <2>1, ReadRecord
    <3>2. Answer(s, o, k).stop = "none"
      BY <1>3, <1>5, <2>1
    <3>3. QED
      BY <3>1, <3>2
  <2>2. CASE k = n
    <3>1. ReadOne(s, Answer(s, o, k)) = Answer(s, o, k + 1)
      BY <1>2, <2>2, ReadBehindLast
    <3>2. Answer(s, o, k).stop = "none"
      BY <1>3, <1>5, <2>2
    <3>3. QED
      BY <3>1, <3>2
  <2>3. CASE k > n
    <3>1. PICK l : l = k + 1
      OBVIOUS
    <3>2. l \in Nat /\ l > n
      BY <1>3, <2>3, <3>1
    <3>3. Answer(s, o, l) = Answer(s, o, n + 1)
      BY <1>5, <3>2
    <3>4. Answer(s, o, k) = Answer(s, o, n + 1) /\ Answer(s, o, k).stop # "none"
      BY <1>5, <2>3
    <3>5. QED
      BY <3>1, <3>3, <3>4
  <2>4. QED
    BY <1>3, <2>1, <2>2, <2>3
<1> DEFINE G == [k \in D |-> Answer(s, o, k)]
<1>7. Solves(G)
  <2>1. ASSUME NEW k \in D
        PROVE  G[k] = Turn(G, k)
    <3>1. CASE k = 0
      BY <1>4, <2>1, <3>1
    <3>2. CASE k # 0
      <4>1. PICK j : j = k - 1
        OBVIOUS
      <4>2. j \in Nat /\ j \in D /\ k = j + 1
        BY <1>3, <2>1, <3>2, <4>1
      <4>3. G[j] = Answer(s, o, j) /\ G[k] = Answer(s, o, k)
        BY <2>1, <4>2
      <4> HIDE DEF G
      <4>4. Answer(s, o, k) = IF G[j].stop # "none" THEN G[j] ELSE ReadOne(s, G[j])
        BY <1>6, <4>2, <4>3
      <4>5. QED
        BY <3>2, <4>1, <4>3, <4>4
    <3>3. QED
      BY <3>1, <3>2
  <2>2. G = [k \in D |-> G[k]]
    OBVIOUS
  <2> HIDE DEF G, Turn
  <2>3. QED
    BY <2>1, <2>2
<1> HIDE DEF G, Turn
<1>8. Solves(C)
  <2>1. \E f : Solves(f)
    BY <1>7
  <2> HIDE DEF Solves
  <2>2. QED
    BY <2>1
<1> HIDE DEF C
<1>9. \A k \in D : C[k] = Turn(C, k)
  BY <1>8
<1> HIDE DEF Solves
<1> DEFINE S == {k \in Nat : k \in D => C[k] = Answer(s, o, k)}
<1>10. 0 \in S
  <2>1. 0 \in D
    BY <1>3
  <2>2. C[0] = First
    BY <1>9, <2>1 DEF Turn
  <2>3. QED
    BY <1>4, <2>2
<1>11. ASSUME NEW k \in Nat, k \in S PROVE k + 1 \in S
  <2>1. SUFFICES ASSUME k + 1 \in D PROVE C[k + 1] = Answer(s, o, k + 1)
    OBVIOUS
  <2>2. PICK l : l = k + 1
    OBVIOUS
  <2>3. k \in D /\ l \in D /\ l # 0 /\ l - 1 = k
    BY <1>3, <2>1, <2>2
  <2>4. C[k] = Answer(s, o, k)
    BY <1>11, <2>3
  <2>5. C[l] = IF C[k].stop # "none" THEN C[k] ELSE ReadOne(s, C[k])
    BY <1>9, <2>3 DEF Turn
  <2>6. QED
    BY <1>6, <2>2, <2>4, <2>5
<1> HIDE DEF S
<1>12. Nat \subseteq S
  BY <1>10, <1>11, NatSets
<1>13. MaxWrites + 1 \in Nat /\ MaxWrites + 1 \in D
  BY <1>3
<1>14. C[MaxWrites + 1] = Answer(s, o, MaxWrites + 1)
  BY <1>12, <1>13 DEF S
<1>15. QED
  BY <1>1, <1>14

(* As long as a thread's records fit into its slot and nothing was spoiled
   (NothingOutside says when that is), an inspector that opens the segment after
   a crash at any point finds all of them, whole and in order, none of an
   earlier owner, and the record the crash cut short is
   reported as corrupt (readLifeSignRecord of what writeLifeSignRecord left). *)
THEOREM InspectorReadsAll == Spec => []ReadsWhatWasWritten
<1>1. RingInv => ReadsWhatWasWritten
  <2>1. SUFFICES ASSUME RingInv, NEW s \in Slot, Roomy(s), ~ spoiled
                 PROVE  /\ ReadUpTo(s).found
                             = [i \in 1 .. Len(written[s]) |-> Payload(written[s][i])]
                        /\ ReadUpTo(s).stop
                             = IF pc[s] \in {"copy", "publish"} THEN "corrupt" ELSE "end"
    BY DEF ReadsWhatWasWritten
  <2>2. PICK o : Layout(s, o)
    BY <2>1 DEF RingInv
  <2>3. ReadUpTo(s) = Answer(s, o, MaxWrites + 1)
    BY <2>1, <2>2, CallsAreAnswers
  <2>4. PICK n : n = Len(written[s])
    OBVIOUS
  <2>5. n \in Nat /\ n <= MaxWrites /\ MaxWrites \in Nat
    <3>1. n <= MaxWrites
      BY <2>1, <2>4, SizesAssumption DEF RingInv, Types, OwnerTypes, WritesBounded
    <3>2. QED
      BY <2>1, <2>4, <3>1, SizesAssumption DEF RingInv, Types, OwnerTypes
  <2>6. ~ (MaxWrites + 1 <= n)
    BY <2>5
  <2>7. ReadUpTo(s) = Call(4 * o[n], Payloads(s, n), Verdict(s))
    BY <2>3, <2>4, <2>6 DEF Answer
  <2>8. ReadUpTo(s).found = Payloads(s, n) /\ ReadUpTo(s).stop = Verdict(s)
    BY <2>7 DEF Call
  <2>9. QED
    BY <2>4, <2>8 DEF Payloads, Verdict
<1>2. QED
  BY <1>1, SpecRingInv, PTL

================================================================================
