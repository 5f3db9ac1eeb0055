---------------------- MODULE LifeSignManagerProofs ----------------------
(***************************************************************************)
(* Theorems about the life-sign manager.  About its thread slots (module   *)
(* LifeSignSlots), for any number of threads and slots, while the segment  *)
(* is created at most once in the process and no thread reports after its  *)
(* slot was given back; about its context area (module ContextArea), for   *)
(* any number of writers, any sizes of area and records, and any number of *)
(* calls.                                                                  *)
(***************************************************************************)
EXTENDS LifeSignSlots, ContextArea, FiniteSetTheorems, TLAPS

(* The elements of a sequence, each standing in it once. *)
Elems(q) == {q[i] : i \in 1 .. Len(q)}
Once(q) == \A i, j \in 1 .. Len(q) : q[i] = q[j] => i = j

(* Taking the first element of a list without repetitions removes exactly
   that element (m_vacantSlots.front() and pop_front()). *)
LEMMA TailOfOnce ==
  ASSUME NEW S, NEW q \in Seq(S), q # <<>>, Once(q)
  PROVE  /\ Head(q) \in S
         /\ Head(q) \in Elems(q)
         /\ Tail(q) \in Seq(S)
         /\ Once(Tail(q))
         /\ Elems(Tail(q)) = Elems(q) \ {Head(q)}
<1>1. /\ Len(q) \in Nat \ {0}
      /\ Head(q) = q[1]
      /\ \A i \in 1 .. Len(q) : q[i] \in S
      /\ Tail(q) \in Seq(S)
      /\ Len(Tail(q)) = Len(q) - 1
      /\ \A i \in 1 .. Len(q) - 1 : Tail(q)[i] = q[i + 1]
  OBVIOUS
<1>2. Once(Tail(q))
  <2>1. SUFFICES ASSUME NEW i \in 1 .. Len(Tail(q)), NEW j \in 1 .. Len(Tail(q)),
                        Tail(q)[i] = Tail(q)[j]
                 PROVE  i = j
    BY DEF Once
  <2>2. q[i + 1] = q[j + 1]
    BY <1>1, <2>1
  <2>3. i + 1 = j + 1
    BY <1>1, <2>1, <2>2 DEF Once
  <2>4. QED
    BY <1>1, <2>1, <2>3
<1>3. Elems(Tail(q)) \subseteq Elems(q) \ {Head(q)}
  <2>1. SUFFICES ASSUME NEW i \in 1 .. Len(q) - 1
                 PROVE  q[i + 1] \in Elems(q) \ {q[1]}
    BY <1>1 DEF Elems
  <2>2. i + 1 \in 1 .. Len(q) /\ 1 \in 1 .. Len(q) /\ i + 1 # 1
    BY <1>1
  <2>3. QED
    BY <1>1, <2>2 DEF Elems, Once
<1>4. Elems(q) \ {Head(q)} \subseteq Elems(Tail(q))
  <2>1. SUFFICES ASSUME NEW k \in 1 .. Len(q), q[k] # q[1]
                 PROVE  q[k] \in Elems(Tail(q))
    BY <1>1 DEF Elems
  <2>2. k - 1 \in 1 .. Len(Tail(q)) /\ Tail(q)[k - 1] = q[k]
    BY <1>1, <2>1
  <2>3. QED
    BY <2>2 DEF Elems
<1>5. Elems(Tail(q)) = Elems(q) \ {Head(q)} /\ Head(q) \in Elems(q) /\ Head(q) \in S
  <2>1. 1 \in 1 .. Len(q) /\ q[1] \in S
    BY <1>1
  <2>2. Head(q) \in Elems(q)
    BY <1>1, <2>1 DEF Elems
  <2>3. QED
    BY <1>1, <1>3, <1>4, <2>1, <2>2
<1>6. QED
  BY <1>1, <1>2, <1>5

(* Appending an element that is not in the list adds exactly that element
   (m_vacantSlots.push_back()). *)
LEMMA AppendOnce ==
  ASSUME NEW S, NEW q \in Seq(S), NEW s \in S
  PROVE  /\ Append(q, s) \in Seq(S)
         /\ Elems(Append(q, s)) = Elems(q) \cup {s}
         /\ Once(q) /\ s \notin Elems(q) => Once(Append(q, s))
<1>1. /\ Len(q) \in Nat
      /\ Append(q, s) \in Seq(S)
      /\ Len(Append(q, s)) = Len(q) + 1
      /\ \A i \in 1 .. Len(q) : Append(q, s)[i] = q[i]
      /\ Append(q, s)[Len(q) + 1] = s
  OBVIOUS
<1>2. \A i \in 1 .. Len(q) + 1 : i \in 1 .. Len(q) \/ i = Len(q) + 1
  BY <1>1
<1>3. Elems(Append(q, s)) \subseteq Elems(q) \cup {s}
  BY <1>1, <1>2 DEF Elems
<1>4. Elems(q) \cup {s} \subseteq Elems(Append(q, s))
  <2>1. Elems(q) \subseteq Elems(Append(q, s))
    <3>1. \A i \in 1 .. Len(q) : i \in 1 .. Len(q) + 1
      BY <1>1
    <3>2. QED
      BY <1>1, <3>1 DEF Elems
  <2>2. s \in Elems(Append(q, s))
    <3>1. Len(q) + 1 \in 1 .. Len(q) + 1
      BY <1>1
    <3>2. QED
      BY <1>1, <3>1 DEF Elems
  <2>3. QED
    BY <2>1, <2>2
<1>5. Once(q) /\ s \notin Elems(q) => Once(Append(q, s))
  BY <1>1, <1>2 DEF Elems, Once
<1>6. QED
  BY <1>1, <1>3, <1>4, <1>5

-----------------------------------------------------------------------------
(* The inductive invariant.                                                *)

(* Before the segment exists nothing has been handed out. *)
NothingBeforeCreation ==
  creates = 0 =>
    /\ ~segmentOpen
    /\ vacantSlots = <<>>
    /\ leaked = {}
    /\ \A t \in Thread : slotId[t] \notin Slot

(* A thread that was refused a slot, or has not reported, has none registered;
   a registered slot is the thread's own. *)
RegisteredIsOwn ==
  \A t \in Thread :
    /\ phase[t] = "new" => slotId[t] = InvalidSlotId
    /\ phase[t] \in {"new", "running", "cleanup"} /\ tls[t] # 0 =>
         slotId[t] \in Slot /\ tls[t] = slotId[t] + 1
    /\ phase[t] = "cleanup" => tls[t] # 0

(* Who holds a slot is the last one it was given to. *)
HolderTook == \A t \in Thread : Holds(t) => taker[slotId[t]] = t

(* A header in place is whole and names the last one the slot was given to. *)
TakerNamed == \A s \in Slot : InPlace(s) => s \notin torn /\ threadId[s] = taker[s]

(* From the creation of the segment on, the share is one of those allowed. *)
ShareKnown == creates > 0 => share \in Shares

(* The coverage part of SlotsAccounted. *)
EverySlotSomewhere ==
  creates > 0 =>
    \A s \in Slot :
      \/ s \in Vacant \cup leaked
      \/ \E t \in Thread : Holds(t) /\ slotId[t] = s

IndInv ==
  /\ TypeOK
  /\ NothingBeforeCreation
  /\ RegisteredIsOwn
  /\ VacantOnce
  /\ HeldOnce
  /\ HeldNotVacant
  /\ EverySlotSomewhere
  /\ ShareKnown
  /\ HolderTook
  /\ TakerNamed
  /\ RecordsAttributed

-----------------------------------------------------------------------------
(* The setting of the theorems: one segment in the life of the process, and
   no report of a thread after its slot was given back. *)
OneLifetime == MaxCreates <= 1 /\ ~LateReports

(* A store for one slot leaves the headers in place of all others alone: shares
   are no smaller than a header, and two multiples of the share are at least
   one share apart. *)
LEMMA StoresKeepApart ==
  ASSUME share \in Shares, NEW s \in Slot, NEW h \in Slot, s # h, InPlace(h)
  PROVE  h \notin Touched(s)
<1>1. share \in Nat /\ HeaderSize \in Nat /\ share >= HeaderSize /\ s \in Int /\ h \in Int
  BY SharesAssumption, HeaderSizeAssumption, MaxThreadsAssumption DEF Slot
<1>2. HeaderAt(h) = h * share /\ StoreAt(s) = s * share
  BY DEF InPlace, StoreAt, HeaderAt
<1>3. \A a, b \in Int : a >= b + 1 => a * share >= b * share + share
  <2>1. SUFFICES ASSUME NEW a \in Int, NEW b \in Int, a >= b + 1
                 PROVE  a * share >= b * share + share
    OBVIOUS
  <2>2. PICK d \in Nat : a = b + 1 + d
    <3>1. a - b - 1 \in Nat /\ a = b + 1 + (a - b - 1)
      BY <2>1
    <3>2. QED
      BY <3>1
  <2>3. a * share = b * share + share + d * share
    BY <1>1, <2>2
  <2>4. d * share \in Nat /\ b * share \in Int
    BY <1>1, <2>2
  <2>5. QED
    BY <1>1, <2>3, <2>4
<1>4. s * share \in Int /\ h * share \in Int
  BY <1>1
<1>5. s * share >= h * share + share \/ h * share >= s * share + share
  <2>1. s >= h + 1 \/ h >= s + 1
    BY <1>1
  <2>2. QED
    BY <1>1, <1>3, <2>1
<1>6. QED
  BY <1>1, <1>2, <1>4, <1>5 DEF Touched

(* What obtaining slot s stores, for a header in place and for any other. *)
LEMMA ClaimedHeader ==
  ASSUME TypeOK, share \in Shares, NEW s \in Slot, NEW t \in Thread, ClaimHeader(s, t)
  PROVE  /\ taker' = [taker EXCEPT ![s] = t]
         /\ threadId' \in [Slot -> Thread \cup {NoThread}]
         /\ state' \in [Slot -> Nat]
         /\ torn' \in SUBSET Slot
         /\ writers' \in [Slot -> SUBSET Thread]
         /\ InPlace(s) => /\ s \in torn' <=> s \in torn
                          /\ threadId'[s] = t
                          /\ state'[s] = state[s] + 1
                          /\ writers'[s] = {t}
         /\ \A h \in Slot \ {s} :
              /\ InPlace(h) => (h \in torn' <=> h \in torn)
              /\ threadId'[h] = threadId[h]
              /\ state'[h] = state[h]
              /\ writers'[h] = writers[h]
<1>1. \A h \in Slot \ {s} : InPlace(h) => h \notin Touched(s)
  BY StoresKeepApart
<1>2. Touched(s) \subseteq Slot
  BY DEF Touched
<1>3. CASE InPlace(s)
  <2>1. /\ taker' = [taker EXCEPT ![s] = t]
        /\ threadId' = [threadId EXCEPT ![s] = t]
        /\ state' = [state EXCEPT ![s] = @ + 1]
        /\ torn' = torn \cup (Touched(s) \ {s})
        /\ writers' = [writers EXCEPT ![s] = {t}]
    BY <1>3 DEF ClaimHeader
  <2>2. QED
    BY <1>1, <1>2, <2>1 DEF TypeOK
<1>4. CASE ~InPlace(s)
  <2>1. /\ taker' = [taker EXCEPT ![s] = t]
        /\ threadId' = threadId /\ state' = state
        /\ torn' = torn \cup Touched(s)
        /\ writers' = [writers EXCEPT ![s] = @ \cup {t}]
    BY <1>4 DEF ClaimHeader
  <2>2. QED
    BY <1>1, <1>2, <1>4, <2>1 DEF TypeOK
<1>5. QED
  BY <1>3, <1>4

(* What giving slot s back stores. *)
LEMMA ClosedHeader ==
  ASSUME TypeOK, share \in Shares, NEW s \in Slot, CloseHeader(s)
  PROVE  /\ endTime' \in [Slot -> Nat]
         /\ state' \in [Slot -> Nat]
         /\ torn' \in SUBSET Slot
         /\ InPlace(s) => /\ s \in torn' <=> s \in torn
                          /\ state'[s] = state[s] + 1
         /\ \A h \in Slot \ {s} :
              /\ InPlace(h) => (h \in torn' <=> h \in torn)
              /\ state'[h] = state[h]
<1>1. \A h \in Slot \ {s} : InPlace(h) => h \notin Touched(s)
  BY StoresKeepApart
<1>2. Touched(s) \subseteq Slot /\ now + 1 \in Nat
  BY DEF Touched, TypeOK
<1>3. CASE InPlace(s)
  <2>1. /\ endTime' = [endTime EXCEPT ![s] = now + 1]
        /\ state' = [state EXCEPT ![s] = @ + 1]
        /\ torn' = torn \cup (Touched(s) \ {s})
    BY <1>3 DEF CloseHeader
  <2>2. QED
    BY <1>1, <1>2, <2>1 DEF TypeOK
<1>4. CASE ~InPlace(s)
  <2>1. torn' = torn \cup Touched(s) /\ endTime' = endTime /\ state' = state
    BY <1>4 DEF CloseHeader
  <2>2. QED
    BY <1>1, <1>2, <1>4, <2>1 DEF TypeOK
<1>5. QED
  BY <1>3, <1>4

LEMMA InitIndInv == Init => IndInv
<1>1. SUFFICES ASSUME Init
               PROVE  IndInv
  OBVIOUS
<1>2. InvalidSlotId \notin Slot /\ Vacant = {}
  BY <1>1, MaxThreadsAssumption DEF Init, Slot, InvalidSlotId, Vacant
<1>3. TypeOK
  <2>1. vacantSlots \in Seq(Slot)
    BY <1>1 DEF Init
  <2>2. tls \in [Thread -> 0 .. MaxThreads] /\ creates \in 0 .. MaxCreates
    BY <1>1, MaxThreadsAssumption, MaxCreatesAssumption DEF Init
  <2>3. slotId \in [Thread -> Slot \cup {InvalidSlotId, NoSlotId}]
    BY <1>1 DEF Init
  <2>4. state \in [Slot -> Nat] /\ endTime \in [Slot -> Nat] /\ now \in Nat
    BY <1>1 DEF Init
  <2>5. QED
    BY <1>1, <2>1, <2>2, <2>3, <2>4 DEF Init, TypeOK
<1>4. QED
  BY <1>1, <1>2, <1>3 DEF Init, IndInv, NothingBeforeCreation, RegisteredIsOwn,
     VacantOnce, HeldOnce, HeldNotVacant, EverySlotSomewhere, HolderTook,
     TakerNamed, ShareKnown, RecordsAttributed, Holds

(* The slots of a new segment are the numbers of all slots, once each. *)
LEMMA FreshSlotsFacts ==
  ASSUME vacantSlots = <<>>
  PROVE  /\ FreshSlots \in Seq(Slot)
         /\ Once(FreshSlots)
         /\ Elems(FreshSlots) = Slot
<1> DEFINE all == [i \in 1 .. MaxThreads |-> i - 1]
<1>1. all \in Seq(Slot) /\ Len(all) = MaxThreads
  BY MaxThreadsAssumption DEF Slot
<1>2. FreshSlots = all
  BY <1>1 DEF FreshSlots
<1>3. \A i \in 1 .. MaxThreads : all[i] = i - 1
  OBVIOUS
<1>4. Once(all)
  BY <1>1, <1>3, MaxThreadsAssumption DEF Once
<1>5. Elems(all) = Slot
  <2>1. \A s \in Slot : s + 1 \in 1 .. MaxThreads /\ all[s + 1] = s
    BY MaxThreadsAssumption DEF Slot
  <2>2. \A i \in 1 .. MaxThreads : all[i] \in Slot
    BY MaxThreadsAssumption DEF Slot
  <2>3. QED
    BY <1>1, <2>1, <2>2 DEF Elems
<1>6. QED
  BY <1>1, <1>2, <1>4, <1>5

LEMMA CreateSegmentStep ==
  ASSUME OneLifetime, IndInv, CreateSegment
  PROVE  IndInv'
<1> USE DEF IndInv
<1>1. creates = 0 /\ creates' = 1 /\ segmentOpen' = TRUE
  BY MaxCreatesAssumption DEF CreateSegment, OneLifetime, TypeOK
<1>2. /\ vacantSlots = <<>>
      /\ leaked = {}
      /\ \A t \in Thread : slotId[t] \notin Slot
  BY <1>1 DEF NothingBeforeCreation
<1>3. /\ vacantSlots' \in Seq(Slot)
      /\ Once(vacantSlots')
      /\ Vacant' = Slot
  BY <1>2, FreshSlotsFacts DEF CreateSegment, Vacant, Elems
<1>4. TypeOK'
  BY <1>1, <1>3, MaxCreatesAssumption, MaxThreadsAssumption
     DEF CreateSegment, TypeOK, OneLifetime, headerVars
<1>5. \A t \in Thread : ~Holds(t)'
  BY <1>2 DEF Holds, CreateSegment
<1>6. RegisteredIsOwn'
  BY <1>2, MaxThreadsAssumption DEF RegisteredIsOwn, CreateSegment, TypeOK
<1>7. QED
  BY <1>1, <1>2, <1>3, <1>4, <1>5, <1>6
     DEF NothingBeforeCreation, VacantOnce, Once, HeldOnce, HeldNotVacant,
         EverySlotSomewhere, HolderTook, TakerNamed, ShareKnown, RecordsAttributed,
         CreateSegment

LEMMA ReportInNewSlotStep ==
  ASSUME IndInv, NEW t \in Thread, ReportInNewSlot(t)
  PROVE  IndInv'
<1> USE DEF IndInv
<1> DEFINE s == Head(vacantSlots)
<1>1. /\ s \in Slot
      /\ s \in Vacant
      /\ Tail(vacantSlots) \in Seq(Slot)
      /\ Once(Tail(vacantSlots))
      /\ Vacant' = Vacant \ {s}
  <2>1. vacantSlots \in Seq(Slot) /\ vacantSlots # <<>> /\ Once(vacantSlots)
    BY DEF ReportInNewSlot, TypeOK, VacantOnce, Once
  <2>2. vacantSlots' = Tail(vacantSlots)
    BY DEF ReportInNewSlot, SlotsAfterObtain
  <2>3. /\ s \in Slot
        /\ s \in Elems(vacantSlots)
        /\ Tail(vacantSlots) \in Seq(Slot)
        /\ Once(Tail(vacantSlots))
        /\ Elems(Tail(vacantSlots)) = Elems(vacantSlots) \ {s}
    BY <2>1, TailOfOnce
  <2>4. QED
    BY <2>2, <2>3 DEF Vacant, Elems
<1>2. /\ vacantSlots' = Tail(vacantSlots)
      /\ slotId' = [slotId EXCEPT ![t] = s]
      /\ ClaimHeader(s, t)
      /\ phase[t] = "running"
      /\ UNCHANGED <<segmentOpen, creates, share, phase, endTime, now, leaked, fault>>
  BY DEF ReportInNewSlot, SlotsAfterObtain, NextSlot, segmentVars
<1> HIDE DEF s
<1>3. s + 1 \in 1 .. MaxThreads
  BY <1>1, MaxThreadsAssumption DEF Slot
<1>4. share \in Shares /\ share' = share /\ creates > 0
  BY <1>1, <1>2 DEF ReportInNewSlot, NothingBeforeCreation, ShareKnown, TypeOK
<1>5. /\ taker' = [taker EXCEPT ![s] = t]
      /\ threadId' \in [Slot -> Thread \cup {NoThread}]
      /\ state' \in [Slot -> Nat]
      /\ torn' \in SUBSET Slot
      /\ writers' \in [Slot -> SUBSET Thread]
      /\ InPlace(s) => /\ s \in torn' <=> s \in torn
                       /\ threadId'[s] = t
                       /\ state'[s] = state[s] + 1
                       /\ writers'[s] = {t}
      /\ \A h \in Slot \ {s} :
           /\ InPlace(h) => (h \in torn' <=> h \in torn)
           /\ threadId'[h] = threadId[h]
           /\ state'[h] = state[h]
           /\ writers'[h] = writers[h]
  BY <1>4, <1>1, <1>2, ClaimedHeader
<1>6. /\ tls' \in [Thread -> 0 .. MaxThreads]
      /\ tls'[t] \in {0, s + 1}
      /\ \A u \in Thread \ {t} : tls'[u] = tls[u]
  <2>1. PICK registered \in BOOLEAN :
          tls' = [tls EXCEPT ![t] = IF registered THEN s + 1 ELSE 0]
    BY DEF ReportInNewSlot, NextSlot, s
  <2>2. tls \in [Thread -> 0 .. MaxThreads]
    BY DEF TypeOK
  <2>3. (IF registered THEN s + 1 ELSE 0) \in {0, s + 1}
    OBVIOUS
  <2>4. {0, s + 1} \subseteq 0 .. MaxThreads
    BY <1>3, MaxThreadsAssumption
  <2>5. QED
    BY <2>1, <2>2, <2>3, <2>4
<1>7. TypeOK'
  <2>1. vacantSlots' \in Seq(Slot)
    BY <1>1, <1>2
  <2>2. slotId' \in [Thread -> Slot \cup {InvalidSlotId, NoSlotId}]
    BY <1>1, <1>2 DEF TypeOK
  <2>3. taker' \in [Slot -> Thread \cup {NoThread}]
    BY <1>1, <1>5 DEF TypeOK
  <2>4. QED
    BY <1>2, <1>5, <1>6, <2>1, <2>2, <2>3 DEF TypeOK
<1>8. /\ \A u \in Thread \ {t} : (Holds(u)' <=> Holds(u)) /\ slotId'[u] = slotId[u]
      /\ Holds(t)'
      /\ slotId'[t] = s
  BY <1>1, <1>2 DEF Holds, TypeOK
<1>9. \A u \in Thread : Holds(u) => slotId[u] # s /\ slotId[u] \in Slot
  BY <1>1 DEF HeldNotVacant, Holds
<1>10. ~Holds(t)
  BY MaxThreadsAssumption DEF ReportInNewSlot, NeedsSlot, Holds, Slot, InvalidSlotId
<1>11. NothingBeforeCreation'
  BY <1>1, <1>2 DEF NothingBeforeCreation, Vacant, TypeOK
<1>12. RegisteredIsOwn'
  BY <1>2, <1>3, <1>6, <1>8, <1>1 DEF RegisteredIsOwn
<1>13. VacantOnce'
  BY <1>1, <1>2 DEF VacantOnce, Once
<1>14. HeldOnce'
  BY <1>8, <1>9 DEF HeldOnce
<1>15. HeldNotVacant'
  BY <1>1, <1>2, <1>8, <1>9 DEF HeldNotVacant
<1>16. EverySlotSomewhere'
  BY <1>1, <1>2, <1>8, <1>10 DEF EverySlotSomewhere
<1>17. HolderTook'
  <2>1. taker'[s] = t /\ \A h \in Slot \ {s} : taker'[h] = taker[h]
    BY <1>1, <1>5 DEF TypeOK
  <2>2. \A u \in Thread \ {t} : Holds(u)' => taker'[slotId'[u]] = u
    BY <1>8, <1>9, <2>1 DEF HolderTook
  <2>3. QED
    BY <1>8, <2>1, <2>2 DEF HolderTook
<1>18. ShareKnown' /\ \A h \in Slot : InPlace(h)' <=> InPlace(h)
  BY <1>4 DEF ShareKnown, InPlace, StoreAt, HeaderAt, ThreadAreaSize
<1>19. TakerNamed'
  <2>1. taker'[s] = t /\ \A h \in Slot \ {s} : taker'[h] = taker[h]
    BY <1>1, <1>5 DEF TypeOK
  <2>2. QED
    BY <1>5, <1>18, <2>1 DEF TakerNamed
<1>20. RecordsAttributed'
  BY <1>5, <1>18, <1>19 DEF RecordsAttributed, TakerNamed
<1>21. QED
  BY <1>7, <1>11, <1>12, <1>13, <1>14, <1>15, <1>16, <1>17, <1>18, <1>19, <1>20

LEMMA ReleaseSlotStep ==
  ASSUME IndInv, NEW t \in Thread, ReleaseSlot(t)
  PROVE  IndInv'
<1> USE DEF IndInv
<1> DEFINE s == slotId[t]
<1>1. /\ s \in Slot
      /\ ReleasedSlot(t) = s
      /\ Holds(t)
  <2>1. phase[t] = "cleanup"
    BY DEF ReleaseSlot
  <2>2. tls[t] # 0 /\ s \in Slot /\ tls[t] = s + 1
    BY <2>1 DEF RegisteredIsOwn
  <2>3. QED
    BY <2>1, <2>2, MaxThreadsAssumption DEF ReleasedSlot, Holds, Slot
<1>2. s \notin Vacant \cup leaked
  BY <1>1 DEF HeldNotVacant
<1>3. /\ vacantSlots' \in Seq(Slot)
      /\ Once(vacantSlots')
      /\ Vacant' = Vacant \cup {s}
  <2>1. vacantSlots' = Append(vacantSlots, s)
    BY <1>1 DEF ReleaseSlot, SlotsAfterRelease
  <2>2. vacantSlots \in Seq(Slot) /\ Once(vacantSlots)
    BY DEF TypeOK, VacantOnce, Once
  <2>3. s \notin Elems(vacantSlots)
    BY <1>2 DEF Vacant, Elems
  <2>4. /\ vacantSlots' \in Seq(Slot)
        /\ Once(vacantSlots')
        /\ Elems(vacantSlots') = Elems(vacantSlots) \cup {s}
    BY <1>1, <2>1, <2>2, <2>3, AppendOnce
  <2>5. QED
    BY <2>4 DEF Vacant, Elems
<1>4. /\ phase[t] = "cleanup"
      /\ phase' = [phase EXCEPT ![t] = "late"]
      /\ tls' = [tls EXCEPT ![t] = 0]
      /\ UNCHANGED <<segmentOpen, creates, share, slotId, threadId, writers, taker, leaked>>
  BY DEF ReleaseSlot, segmentVars
<1>5. share \in Shares /\ \A h \in Slot : InPlace(h)' <=> InPlace(h)
  BY <1>1, <1>4 DEF NothingBeforeCreation, ShareKnown, TypeOK, InPlace, StoreAt, HeaderAt,
     ThreadAreaSize
<1>6. /\ endTime' \in [Slot -> Nat]
      /\ now' \in Nat
      /\ state' \in [Slot -> Nat]
      /\ torn' \in SUBSET Slot
      /\ fault' \in BOOLEAN
      /\ \A h \in Slot : InPlace(h) => (h \in torn' <=> h \in torn)
  <2>1. CASE segmentOpen
    <3>1. CloseHeader(s) /\ now' = now + 1 /\ fault' = fault
      BY <1>1, <2>1 DEF ReleaseSlot
    <3>2. /\ endTime' \in [Slot -> Nat]
          /\ state' \in [Slot -> Nat]
          /\ torn' \in SUBSET Slot
          /\ \A h \in Slot : InPlace(h) => (h \in torn' <=> h \in torn)
      BY <1>5, <1>1, <3>1, ClosedHeader
    <3>3. now' \in Nat /\ fault' \in BOOLEAN
      BY <3>1 DEF TypeOK
    <3>4. QED
      BY <3>2, <3>3
  <2>2. CASE ~segmentOpen
    BY <2>2 DEF ReleaseSlot, TypeOK
  <2>3. QED
    BY <2>1, <2>2
<1>7. TypeOK'
  <2>1. tls' \in [Thread -> 0 .. MaxThreads]
    BY <1>4, MaxThreadsAssumption DEF TypeOK
  <2>2. QED
    BY <1>3, <1>4, <1>6, <2>1 DEF TypeOK
<1>8. ~Holds(t)' /\ \A u \in Thread \ {t} : Holds(u)' <=> Holds(u)
  BY <1>4 DEF Holds, TypeOK
<1>9. \A u \in Thread \ {t} : Holds(u) => slotId[u] # s
  BY <1>1 DEF HeldOnce
<1>10. NothingBeforeCreation'
  BY <1>1, <1>4 DEF NothingBeforeCreation
<1>11. RegisteredIsOwn'
  BY <1>4 DEF RegisteredIsOwn, TypeOK
<1>12. VacantOnce' /\ HeldOnce'
  BY <1>3, <1>4, <1>8 DEF VacantOnce, Once, HeldOnce
<1>13. HeldNotVacant'
  BY <1>2, <1>3, <1>4, <1>8, <1>9 DEF HeldNotVacant
<1>14. EverySlotSomewhere'
  BY <1>3, <1>4, <1>8 DEF EverySlotSomewhere
<1>15. HolderTook' /\ ShareKnown' /\ TakerNamed' /\ RecordsAttributed'
  BY <1>5, <1>6, <1>4, <1>8 DEF HolderTook, ShareKnown, TakerNamed, RecordsAttributed
<1>16. QED
  BY <1>7, <1>10, <1>11, <1>12, <1>13, <1>14, <1>15

(* Steps that leave the headers as they are. *)
HeadersAsBefore == UNCHANGED <<creates, share, threadId, torn, writers, taker>>

LEMMA KeptHeaders ==
  ASSUME IndInv, HeadersAsBefore
  PROVE  ShareKnown' /\ TakerNamed' /\ RecordsAttributed'
<1>1. \A h \in Slot : InPlace(h)' <=> InPlace(h)
  BY DEF HeadersAsBefore, InPlace, StoreAt, HeaderAt, ThreadAreaSize
<1>2. QED
  BY <1>1 DEF HeadersAsBefore, IndInv, ShareKnown, TakerNamed, RecordsAttributed

LEMMA ExitStep ==
  ASSUME IndInv, NEW t \in Thread, Exit(t)
  PROVE  IndInv'
<1> USE DEF IndInv
<1>1. /\ phase[t] = "running"
      /\ UNCHANGED <<segmentOpen, creates, share, vacantSlots, slotId, tls, threadId,
                     state, endTime, now, torn, writers, taker, fault>>
  BY DEF Exit, segmentVars, headerVars
<1>2. Vacant' = Vacant
  BY <1>1 DEF Vacant
<1>3. HeadersAsBefore
  BY <1>1 DEF HeadersAsBefore
<1>4. CASE segmentOpen /\ tls[t] # 0
  <2>1. phase' = [phase EXCEPT ![t] = "cleanup"] /\ leaked' = leaked
    BY <1>4 DEF Exit
  <2>2. \A u \in Thread : Holds(u)' <=> Holds(u)
    BY <1>1, <2>1 DEF Holds, TypeOK
  <2>3. TypeOK' /\ RegisteredIsOwn'
    BY <1>1, <1>4, <2>1 DEF TypeOK, RegisteredIsOwn
  <2>4. QED
    BY <1>3, <1>1, <1>2, <2>1, <2>2, <2>3, KeptHeaders DEF NothingBeforeCreation,
       VacantOnce, HeldOnce, HeldNotVacant, EverySlotSomewhere, HolderTook
<1>5. CASE ~(segmentOpen /\ tls[t] # 0)
  <2>1. /\ phase' = [phase EXCEPT ![t] = "exited"]
        /\ leaked' = leaked \cup ({slotId[t]} \cap Slot)
    BY <1>5 DEF Exit
  <2>2. ~Holds(t)' /\ \A u \in Thread \ {t} : Holds(u)' <=> Holds(u)
    BY <1>1, <2>1 DEF Holds, TypeOK
  <2>3. TypeOK' /\ RegisteredIsOwn'
    BY <1>1, <2>1 DEF TypeOK, RegisteredIsOwn
  <2>4. NothingBeforeCreation'
    BY <1>1, <2>1 DEF NothingBeforeCreation
  <2>5. Holds(t) <=> slotId[t] \in Slot
    BY <1>1 DEF Holds
  <2>6. HeldNotVacant'
    BY <1>1, <1>2, <2>1, <2>2, <2>5 DEF HeldNotVacant, HeldOnce
  <2>7. EverySlotSomewhere'
    BY <1>1, <1>2, <2>1, <2>2, <2>5 DEF EverySlotSomewhere
  <2>8. VacantOnce' /\ HeldOnce' /\ HolderTook'
    BY <1>1, <2>2 DEF VacantOnce, HeldOnce, HolderTook
  <2>9. QED
    BY <1>3, <2>3, <2>4, <2>6, <2>7, <2>8, KeptHeaders
<1>6. QED
  BY <1>4, <1>5

LEMMA ReportInOwnSlotStep ==
  ASSUME OneLifetime, IndInv, NEW t \in Thread, ReportInOwnSlot(t)
  PROVE  IndInv'
<1> USE DEF IndInv
<1>1. /\ Holds(t)
      /\ writers' = [writers EXCEPT ![slotId[t]] = @ \cup {t}]
      /\ UNCHANGED <<segmentOpen, creates, share, vacantSlots, phase, slotId, tls,
                     threadId, state, endTime, now, torn, taker, leaked, fault>>
  BY DEF ReportInOwnSlot, OneLifetime, Holds, segmentVars, threadVars
<1>2. /\ Vacant' = Vacant
      /\ \A u \in Thread : Holds(u)' <=> Holds(u)
  BY <1>1 DEF Vacant, Holds
<1>3. ShareKnown' /\ TakerNamed' /\ RecordsAttributed'
  <2>1. \A h \in Slot : InPlace(h)' <=> InPlace(h)
    BY <1>1 DEF InPlace, StoreAt, HeaderAt, ThreadAreaSize
  <2>2. taker[slotId[t]] = t
    BY <1>1 DEF HolderTook
  <2>3. QED
    BY <1>1, <2>1, <2>2 DEF RecordsAttributed, ShareKnown, TakerNamed, TypeOK
<1>4. TypeOK'
  <2>1. writers' \in [Slot -> SUBSET Thread]
    BY <1>1 DEF TypeOK, Holds
  <2>2. QED
    BY <1>1, <2>1 DEF TypeOK
<1>5. QED
  BY <1>1, <1>2, <1>3, <1>4 DEF NothingBeforeCreation, RegisteredIsOwn,
     VacantOnce, HeldOnce, HeldNotVacant, EverySlotSomewhere, HolderTook

LEMMA ReportRefusedStep ==
  ASSUME IndInv, NEW t \in Thread, ReportRefused(t)
  PROVE  IndInv'
<1> USE DEF IndInv
<1>1. /\ phase[t] = "running"
      /\ slotId[t] = InvalidSlotId
      /\ slotId' = [slotId EXCEPT ![t] = NoSlotId]
      /\ UNCHANGED <<segmentOpen, creates, share, vacantSlots, phase, tls, threadId,
                     state, endTime, now, torn, writers, taker, leaked, fault>>
  BY DEF ReportRefused, NeedsSlot, segmentVars, headerVars
<1>2. InvalidSlotId \notin Slot /\ NoSlotId \notin Slot
  BY MaxThreadsAssumption DEF Slot, InvalidSlotId, NoSlotId
<1>3. \A u \in Thread : /\ Holds(u)' <=> Holds(u)
                        /\ Holds(u) => slotId'[u] = slotId[u]
  BY <1>1, <1>2 DEF Holds, TypeOK
<1>4. Vacant' = Vacant
  BY <1>1 DEF Vacant
<1>5. TypeOK'
  <2>1. slotId' \in [Thread -> Slot \cup {InvalidSlotId, NoSlotId}]
    BY <1>1 DEF TypeOK
  <2>2. QED
    BY <1>1, <2>1 DEF TypeOK
<1>6. NothingBeforeCreation'
  BY <1>1, <1>2 DEF NothingBeforeCreation, TypeOK
<1>7. RegisteredIsOwn'
  BY <1>1, <1>2 DEF RegisteredIsOwn, TypeOK
<1>8. ShareKnown' /\ TakerNamed' /\ RecordsAttributed'
  BY <1>1, KeptHeaders DEF HeadersAsBefore
<1>9. QED
  BY <1>1, <1>3, <1>4, <1>5, <1>6, <1>7, <1>8 DEF VacantOnce, HeldOnce,
     HeldNotVacant, EverySlotSomewhere, HolderTook

(* Steps that change no slot, no list and no header. *)
LEMMA QuietStep ==
  ASSUME IndInv,
         \/ CloseSegment
         \/ \E t \in Thread : Start(t) \/ ReportFaults(t) \/ Vanish(t)
         \/ UNCHANGED vars
  PROVE  IndInv'
<1> USE DEF IndInv
<1>1. /\ UNCHANGED <<creates, share, vacantSlots, slotId, tls, threadId, state, endTime,
                     now, torn, writers, taker, leaked>>
      /\ segmentOpen' \in {segmentOpen, FALSE}
      /\ fault' \in BOOLEAN
  BY DEF CloseSegment, Start, ReportFaults, Vanish, vars, segmentVars,
     threadVars, headerVars, TypeOK
<1>2. /\ phase' \in [Thread -> {"new", "running", "cleanup", "late", "exited"}]
      /\ \A u \in Thread : \/ phase'[u] = phase[u]
                           \/ phase[u] = "new" /\ phase'[u] = "running"
                           \/ phase[u] = "late" /\ phase'[u] = "exited"
  BY DEF CloseSegment, Start, ReportFaults, Vanish, vars, threadVars, TypeOK
<1>3. InvalidSlotId \notin Slot
  BY MaxThreadsAssumption DEF Slot, InvalidSlotId
<1>4. \A u \in Thread : Holds(u)' <=> Holds(u)
  BY <1>1, <1>2, <1>3 DEF Holds, RegisteredIsOwn
<1>5. Vacant' = Vacant
  BY <1>1 DEF Vacant
<1>6. TypeOK'
  BY <1>1, <1>2 DEF TypeOK
<1>7. RegisteredIsOwn'
  BY <1>1, <1>2 DEF RegisteredIsOwn
<1>8. NothingBeforeCreation'
  BY <1>1 DEF NothingBeforeCreation, TypeOK
<1>9. VacantOnce' /\ HeldOnce' /\ HolderTook'
  BY <1>1, <1>4 DEF VacantOnce, HeldOnce, HolderTook
<1>10. ShareKnown' /\ TakerNamed' /\ RecordsAttributed'
  BY <1>1, KeptHeaders DEF HeadersAsBefore
<1>11. HeldNotVacant' /\ EverySlotSomewhere'
  BY <1>1, <1>4, <1>5 DEF HeldNotVacant, EverySlotSomewhere
<1>12. QED
  BY <1>6, <1>7, <1>8, <1>9, <1>11, <1>10

LEMMA NextIndInv ==
  ASSUME OneLifetime, IndInv, [Next]_vars
  PROVE  IndInv'
<1>1. CASE CreateSegment
  BY <1>1, CreateSegmentStep
<1>2. CASE CloseSegment \/ UNCHANGED vars
  BY <1>2, QuietStep
<1>3. ASSUME NEW t \in Thread, ReportInNewSlot(t)
      PROVE  IndInv'
  BY <1>3, ReportInNewSlotStep
<1>4. ASSUME NEW t \in Thread, ReleaseSlot(t)
      PROVE  IndInv'
  BY <1>4, ReleaseSlotStep
<1>5. ASSUME NEW t \in Thread, Exit(t)
      PROVE  IndInv'
  BY <1>5, ExitStep
<1>6. ASSUME NEW t \in Thread, ReportInOwnSlot(t)
      PROVE  IndInv'
  BY <1>6, ReportInOwnSlotStep
<1>7. ASSUME NEW t \in Thread, ReportRefused(t)
      PROVE  IndInv'
  BY <1>7, ReportRefusedStep
<1>8. ASSUME NEW t \in Thread, Start(t) \/ ReportFaults(t) \/ Vanish(t)
      PROVE  IndInv'
  BY <1>8, QuietStep
<1>9. QED
  BY <1>1, <1>2, <1>3, <1>4, <1>5, <1>6, <1>7, <1>8 DEF Next

(* The inductive invariant of the slots (obtainThreadSlot, releaseThreadSlot)
   holds in every state while one segment lives. *)
THEOREM SpecIndInv ==
  ASSUME OneLifetime
  PROVE  Spec => []IndInv
<1>1. Init => IndInv
  BY InitIndInv
<1>2. IndInv /\ [Next]_vars => IndInv'
  BY NextIndInv
<1>3. QED
  BY <1>1, <1>2, PTL DEF Spec

(* The variables keep their types. *)
THEOREM SlotsTypeCorrect ==
  ASSUME OneLifetime
  PROVE  Spec => []TypeOK
<1>1. IndInv => TypeOK
  BY DEF IndInv
<1>2. QED
  BY <1>1, SpecIndInv, PTL

(* No slot is lost or in two places: LifeSignManager::obtainThreadSlot and
   releaseThreadSlot keep every slot in the free list once, with one thread,
   or leaked. *)
THEOREM SlotsNeverShared ==
  ASSUME OneLifetime
  PROVE  Spec => []SlotsAccounted
<1>1. IndInv => SlotsAccounted
  BY DEF IndInv, SlotsAccounted, EverySlotSomewhere
<1>2. QED
  BY <1>1, SpecIndInv, PTL

(* What a post-mortem reader finds in a slot is from the thread its header
   names, and the header is whole, for every slot whose header obtainThreadSlot
   stores where the others read it (slot 0, and all slots when the share of a
   thread is a multiple of four). *)
THEOREM RecordsAlwaysAttributed ==
  ASSUME OneLifetime
  PROVE  Spec => []RecordsAttributed
<1>1. IndInv => RecordsAttributed
  BY DEF IndInv
<1>2. QED
  BY <1>1, SpecIndInv, PTL

-----------------------------------------------------------------------------
(* The refinement of SlotPool.                                             *)

(* A slot that is not vacant belongs to a thread that remembers it, and before
   the segment is created none belongs to anybody. *)
OwnersRemember ==
  /\ \A s \in Slot :
       s \notin Vacant /\ taker[s] # NoThread => slotId[taker[s]] = s
  /\ creates = 0 => \A s \in Slot : taker[s] = NoThread

(* The effect of obtaining a slot on what the pool sees. *)
LEMMA TakenSlot ==
  ASSUME IndInv, NEW t \in Thread, ReportInNewSlot(t)
  PROVE  \E s \in Slot :
           /\ s \in Vacant /\ Vacant' = Vacant \ {s}
           /\ slotId[t] \notin Slot
           /\ slotId' = [slotId EXCEPT ![t] = s]
           /\ taker' = [taker EXCEPT ![s] = t]
           /\ InPlace(s) => state'[s] = state[s] + 1
           /\ \A h \in Slot \ {s} : state'[h] = state[h]
           /\ creates' = creates /\ creates # 0
           /\ share' = share
<1> USE DEF IndInv
<1>1. vacantSlots \in Seq(Slot) /\ vacantSlots # <<>> /\ Once(vacantSlots)
  BY DEF ReportInNewSlot, TypeOK, VacantOnce, Once
<1>2. vacantSlots' = Tail(vacantSlots)
  BY DEF ReportInNewSlot, SlotsAfterObtain
<1>3. /\ Head(vacantSlots) \in Slot
      /\ Head(vacantSlots) \in Elems(vacantSlots)
      /\ Elems(Tail(vacantSlots)) = Elems(vacantSlots) \ {Head(vacantSlots)}
  BY <1>1, TailOfOnce
<1>4. slotId[t] \notin Slot
  BY MaxThreadsAssumption DEF ReportInNewSlot, NeedsSlot, InvalidSlotId, Slot
<1>5. creates' = creates /\ creates # 0 /\ share' = share /\ share \in Shares
  BY <1>1 DEF ReportInNewSlot, segmentVars, NothingBeforeCreation, ShareKnown, TypeOK
<1>6. Head(vacantSlots) \in Vacant /\ Vacant' = Vacant \ {Head(vacantSlots)}
  BY <1>2, <1>3 DEF Vacant, Elems
<1>7. /\ slotId' = [slotId EXCEPT ![t] = Head(vacantSlots)]
      /\ ClaimHeader(Head(vacantSlots), t)
  BY DEF ReportInNewSlot, NextSlot
<1>8. /\ taker' = [taker EXCEPT ![Head(vacantSlots)] = t]
      /\ InPlace(Head(vacantSlots)) => state'[Head(vacantSlots)] = state[Head(vacantSlots)] + 1
      /\ \A h \in Slot \ {Head(vacantSlots)} : state'[h] = state[h]
  BY <1>3, <1>5, <1>7, ClaimedHeader
<1>9. QED
  BY <1>3, <1>4, <1>5, <1>6, <1>7, <1>8

(* The effect of giving a slot back on what the pool sees. *)
LEMMA GivenSlot ==
  ASSUME IndInv, NEW t \in Thread, ReleaseSlot(t)
  PROVE  \E s \in Slot :
           /\ s \notin Vacant /\ Vacant' = Vacant \cup {s}
           /\ taker[s] = t
           /\ segmentOpen =>
                /\ InPlace(s) => state'[s] = state[s] + 1
                /\ \A h \in Slot \ {s} : state'[h] = state[h]
           /\ UNCHANGED <<segmentOpen, slotId, taker, creates, share>>
<1> USE DEF IndInv
<1>1. phase[t] = "cleanup"
  BY DEF ReleaseSlot
<1>2. /\ slotId[t] \in Slot /\ ReleasedSlot(t) = slotId[t] /\ Holds(t)
  BY <1>1, MaxThreadsAssumption DEF RegisteredIsOwn, ReleasedSlot, Slot, Holds
<1>3. slotId[t] \notin Vacant /\ taker[slotId[t]] = t
  BY <1>2 DEF HeldNotVacant, HolderTook
<1>4. vacantSlots' = Append(vacantSlots, slotId[t])
  BY <1>2 DEF ReleaseSlot, SlotsAfterRelease
<1>5. Elems(vacantSlots') = Elems(vacantSlots) \cup {slotId[t]}
  BY <1>2, <1>4, AppendOnce DEF TypeOK
<1>6. Vacant' = Vacant \cup {slotId[t]}
  BY <1>5 DEF Vacant, Elems
<1>7. UNCHANGED <<segmentOpen, slotId, taker, creates, share>> /\ share \in Shares
  BY <1>2 DEF ReleaseSlot, segmentVars, NothingBeforeCreation, ShareKnown, TypeOK
<1>8. segmentOpen => /\ InPlace(slotId[t]) => state'[slotId[t]] = state[slotId[t]] + 1
                     /\ \A h \in Slot \ {slotId[t]} : state'[h] = state[h]
  <2>1. segmentOpen => CloseHeader(slotId[t])
    BY <1>2 DEF ReleaseSlot
  <2>2. QED
    BY <1>2, <1>7, <2>1, ClosedHeader
<1>9. QED
  BY <1>2, <1>3, <1>6, <1>7, <1>8

(* The segment comes up with all slots vacant. *)
LEMMA CreatedSlots ==
  ASSUME OneLifetime, IndInv, CreateSegment
  PROVE  /\ creates = 0 /\ creates' = 1 /\ Vacant' = Slot
         /\ taker' = [s \in Slot |-> NoThread]
         /\ state' = [s \in Slot |-> 0]
<1>1. creates = 0 /\ creates' = 1
  BY MaxCreatesAssumption DEF CreateSegment, OneLifetime, TypeOK, IndInv
<1>2. vacantSlots = <<>>
  BY <1>1 DEF NothingBeforeCreation, IndInv
<1>3. Vacant' = Slot
  BY <1>2, FreshSlotsFacts DEF CreateSegment, Vacant, Elems
<1>4. QED
  BY <1>1, <1>3 DEF CreateSegment

(* The steps that leave the slots with whom they are. *)
OwnersStay ==
  /\ UNCHANGED <<Vacant, taker, state, creates, share>>
  /\ segmentOpen' => segmentOpen
  /\ \A t \in Thread : slotId[t] \in Slot => slotId'[t] = slotId[t]

LEMMA OtherSteps ==
  ASSUME IndInv,
         \/ CloseSegment
         \/ UNCHANGED vars
         \/ \E t \in Thread :
              \/ Start(t) \/ ReportRefused(t) \/ ReportInOwnSlot(t) \/ ReportFaults(t)
              \/ Exit(t) \/ Vanish(t)
  PROVE  OwnersStay
<1>1. UNCHANGED <<vacantSlots, taker, state, creates, share>> /\ (segmentOpen' => segmentOpen)
  BY DEF CloseSegment, vars, Start, ReportRefused, ReportInOwnSlot, ReportFaults, Exit, Vanish,
         segmentVars, headerVars
<1>2. Vacant' = Vacant
  BY <1>1 DEF Vacant
<1>3. \A t \in Thread : slotId[t] \in Slot => slotId'[t] = slotId[t]
  <2>1. CASE UNCHANGED slotId
    BY <2>1
  <2>2. ASSUME NEW t \in Thread, ReportRefused(t)
        PROVE  \A u \in Thread : slotId[u] \in Slot => slotId'[u] = slotId[u]
    <3>1. slotId[t] \notin Slot /\ slotId' = [slotId EXCEPT ![t] = NoSlotId]
      BY <2>2, MaxThreadsAssumption DEF ReportRefused, NeedsSlot, InvalidSlotId, Slot
    <3>2. QED
      BY <3>1 DEF IndInv, TypeOK
  <2>3. QED
    BY <2>1, <2>2 DEF CloseSegment, vars, Start, ReportInOwnSlot, ReportFaults, Exit, Vanish,
                      threadVars
<1>4. QED
  BY <1>1, <1>2, <1>3 DEF OwnersStay

(* Every step is one of four kinds. *)
LEMMA KindsOfStep ==
  ASSUME OneLifetime, IndInv, [Next]_vars
  PROVE  \/ CreateSegment
         \/ \E t \in Thread : ReportInNewSlot(t) \/ ReleaseSlot(t)
         \/ OwnersStay
BY OtherSteps DEF Next

LEMMA NextOwnersRemember ==
  ASSUME OneLifetime, IndInv, OwnersRemember, [Next]_vars
  PROVE  OwnersRemember'
<1>1. CASE CreateSegment
  BY <1>1, CreatedSlots DEF OwnersRemember
<1>2. ASSUME NEW t \in Thread, ReportInNewSlot(t) PROVE OwnersRemember'
  <2>1. PICK s \in Slot :
           /\ s \in Vacant /\ Vacant' = Vacant \ {s}
           /\ slotId[t] \notin Slot
           /\ slotId' = [slotId EXCEPT ![t] = s]
           /\ taker' = [taker EXCEPT ![s] = t]
           /\ creates' = creates /\ creates # 0
    BY <1>2, TakenSlot
  <2>2. taker'[s] = t /\ slotId'[t] = s
    BY <2>1 DEF IndInv, TypeOK
  <2>3. ASSUME NEW r \in Slot \ {s}, r \notin Vacant', taker'[r] # NoThread
        PROVE  slotId'[taker'[r]] = r
    <3>1. taker'[r] = taker[r] /\ r \notin Vacant
      BY <2>1, <2>3 DEF IndInv, TypeOK
    <3>2. slotId[taker[r]] = r /\ taker[r] \in Thread
      BY <2>3, <3>1 DEF OwnersRemember, IndInv, TypeOK
    <3>3. taker[r] # t
      BY <2>1, <3>2
    <3>4. QED
      BY <2>1, <3>1, <3>2, <3>3 DEF IndInv, TypeOK
  <2>4. QED
    BY <2>1, <2>2, <2>3 DEF OwnersRemember
<1>3. ASSUME NEW t \in Thread, ReleaseSlot(t) PROVE OwnersRemember'
  BY <1>3, GivenSlot DEF OwnersRemember
<1>4. CASE OwnersStay
  BY <1>4 DEF OwnersStay, OwnersRemember, IndInv, TypeOK
<1>5. QED
  BY <1>1, <1>2, <1>3, <1>4, KindsOfStep

LEMMA RefinesPoolInit == Init => OwnersRemember /\ Pool!Init
BY DEF Init, OwnersRemember, Pool!Init, PoolOwner, Vacant

LEMMA RefinesPoolNext ==
  ASSUME OneLifetime, IndInv, OwnersRemember, [Next]_vars
  PROVE  [Pool!Next]_PoolOwner
<1>1. CASE CreateSegment
  <2>1. \A s \in Slot : taker[s] = NoThread /\ taker'[s] = NoThread
    BY <1>1, CreatedSlots DEF OwnersRemember
  <2>2. PoolOwner' = PoolOwner
    BY <2>1 DEF PoolOwner
  <2>3. QED
    BY <2>2
<1>2. ASSUME NEW t \in Thread, ReportInNewSlot(t) PROVE Pool!Next
  <2>1. PICK s \in Slot :
           /\ s \in Vacant /\ Vacant' = Vacant \ {s}
           /\ slotId[t] \notin Slot
           /\ taker' = [taker EXCEPT ![s] = t]
    BY <1>2, TakenSlot
  <2>2. ~Pool!Owns(t)
    BY <2>1, NoThreadAssumption DEF Pool!Owns, PoolOwner, OwnersRemember
  <2>3. PoolOwner[s] = NoThread
    BY <2>1 DEF PoolOwner
  <2>4. PoolOwner' = [PoolOwner EXCEPT ![s] = t]
    BY <2>1 DEF PoolOwner, IndInv, TypeOK
  <2>5. Pool!Acquire(t)
    BY <2>2, <2>3, <2>4 DEF Pool!Acquire
  <2>6. QED
    BY <2>5 DEF Pool!Next
<1>3. ASSUME NEW t \in Thread, ReleaseSlot(t) PROVE Pool!Next
  <2>1. PICK s \in Slot :
           /\ s \notin Vacant /\ Vacant' = Vacant \cup {s}
           /\ taker[s] = t
           /\ UNCHANGED <<slotId, taker, creates>>
    BY <1>3, GivenSlot
  <2>2. PoolOwner[s] = t
    BY <2>1 DEF PoolOwner
  <2>3. PoolOwner' = [PoolOwner EXCEPT ![s] = NoThread]
    BY <2>1 DEF PoolOwner
  <2>4. Pool!Release(t)
    BY <2>2, <2>3 DEF Pool!Release
  <2>5. QED
    BY <2>4 DEF Pool!Next
<1>4. CASE OwnersStay
  <2>1. PoolOwner' = PoolOwner
    BY <1>4 DEF OwnersStay, PoolOwner
  <2>2. QED
    BY <2>1
<1>5. QED
  BY <1>1, <1>2, <1>3, <1>4, KindsOfStep

(* The free list, the thread-local slot identifiers and the exit path together
   are a pool: a slot has one owner at a time, a thread owns at most one, and a
   slot changes hands only by being given back. *)
THEOREM SlotsImplementPool ==
  ASSUME OneLifetime
  PROVE  Spec => ImplementsPool
<1>1. Init => OwnersRemember /\ Pool!Init
  BY RefinesPoolInit
<1>2. IndInv /\ OwnersRemember /\ [Next]_vars => OwnersRemember'
  BY NextOwnersRemember
<1>3. IndInv /\ OwnersRemember /\ [Next]_vars => [Pool!Next]_PoolOwner
  BY RefinesPoolNext
<1>4. QED
  BY <1>1, <1>2, <1>3, SpecIndInv, PTL DEF Spec, ImplementsPool, Pool!Spec

-----------------------------------------------------------------------------
(* What an inspector is told of a slot.                                    *)

(* While the segment is open the counter in a header is odd exactly while the
   slot is taken, and zero exactly until somebody took it. *)
CountersTrue ==
  segmentOpen =>
    \A s \in Slot :
      InPlace(s) =>
        /\ state[s] % 2 = 1 <=> s \notin Vacant
        /\ state[s] = 0 <=> taker[s] = NoThread

(* One more use turns a running slot into a finished one, and back. *)
LEMMA CounterStep ==
  ASSUME NEW n \in Nat
  PROVE  /\ n % 2 \in {0, 1}
         /\ (n + 1) % 2 = 1 <=> n % 2 = 0
         /\ n + 1 # 0
         /\ (n + 1) \div 2 = 0 <=> n = 0
OBVIOUS

LEMMA NextCountersTrue ==
  ASSUME OneLifetime, IndInv, CountersTrue, [Next]_vars
  PROVE  CountersTrue'
<1> SUFFICES ASSUME segmentOpen', NEW r \in Slot, InPlace(r)'
             PROVE  /\ state'[r] % 2 = 1 <=> r \notin Vacant'
                    /\ state'[r] = 0 <=> taker'[r] = NoThread
  BY DEF CountersTrue
<1>1. CASE CreateSegment
  BY <1>1, CreatedSlots
<1>2. ASSUME NEW t \in Thread, ReportInNewSlot(t)
      PROVE  /\ state'[r] % 2 = 1 <=> r \notin Vacant'
             /\ state'[r] = 0 <=> taker'[r] = NoThread
  <2>1. PICK s \in Slot :
           /\ s \in Vacant /\ Vacant' = Vacant \ {s}
           /\ taker' = [taker EXCEPT ![s] = t]
           /\ InPlace(s) => state'[s] = state[s] + 1
           /\ \A h \in Slot \ {s} : state'[h] = state[h]
           /\ share' = share
    BY <1>2, TakenSlot
  <2>7. InPlace(r)
    BY <2>1 DEF InPlace, StoreAt, HeaderAt, ThreadAreaSize
  <2>2. segmentOpen /\ t # NoThread /\ state[s] \in Nat
    BY <1>2, NoThreadAssumption DEF ReportInNewSlot, IndInv, TypeOK
  <2>4. CASE r = s
    <3>1. state'[r] = state[s] + 1 /\ taker'[r] = t /\ r \notin Vacant'
      BY <2>1, <2>4, <2>7 DEF IndInv, TypeOK
    <3>2. state[s] % 2 = 0
      BY <2>1, <2>2, <2>4, <2>7, CounterStep DEF CountersTrue
    <3>3. QED
      BY <2>2, <3>1, <3>2, CounterStep
  <2>5. CASE r # s
    <3>1. state'[r] = state[r] /\ taker'[r] = taker[r] /\ (r \in Vacant' <=> r \in Vacant)
      BY <2>1, <2>5 DEF IndInv, TypeOK
    <3>2. QED
      BY <2>2, <2>7, <3>1 DEF CountersTrue
  <2>6. QED
    BY <2>4, <2>5
<1>3. ASSUME NEW t \in Thread, ReleaseSlot(t)
      PROVE  /\ state'[r] % 2 = 1 <=> r \notin Vacant'
             /\ state'[r] = 0 <=> taker'[r] = NoThread
  <2>1. PICK s \in Slot :
           /\ s \notin Vacant /\ Vacant' = Vacant \cup {s}
           /\ taker[s] = t
           /\ segmentOpen =>
                /\ InPlace(s) => state'[s] = state[s] + 1
                /\ \A h \in Slot \ {s} : state'[h] = state[h]
           /\ UNCHANGED <<segmentOpen, slotId, taker, creates, share>>
    BY <1>3, GivenSlot
  <2>7. InPlace(r)
    BY <2>1 DEF InPlace, StoreAt, HeaderAt, ThreadAreaSize
  <2>2. segmentOpen /\ t # NoThread /\ state[s] \in Nat
    BY <2>1, NoThreadAssumption DEF IndInv, TypeOK
  <2>4. CASE r = s
    <3>1. state'[r] = state[s] + 1 /\ taker'[r] = t /\ r \in Vacant'
      BY <2>1, <2>2, <2>4, <2>7 DEF IndInv, TypeOK
    <3>4. state[s] % 2 = 1
      BY <2>1, <2>2, <2>4, <2>7 DEF CountersTrue
    <3>2. (state[s] + 1) % 2 # 1 /\ state[s] + 1 # 0
      BY <2>2, <3>4, CounterStep
    <3>3. QED
      BY <2>2, <3>1, <3>2
  <2>5. CASE r # s
    <3>1. state'[r] = state[r] /\ taker'[r] = taker[r] /\ (r \in Vacant' <=> r \in Vacant)
      BY <2>1, <2>2, <2>5 DEF IndInv, TypeOK
    <3>2. QED
      BY <2>2, <2>7, <3>1 DEF CountersTrue
  <2>6. QED
    BY <2>4, <2>5
<1>4. CASE OwnersStay
  BY <1>4 DEF OwnersStay, CountersTrue, InPlace, StoreAt, HeaderAt, ThreadAreaSize
<1>5. QED
  BY <1>1, <1>2, <1>3, <1>4, KindsOfStep

(* What readThreadLifeSignDetails shows of a slot whose header is in place is
   true: it reads as running exactly while a thread has it, and as never used
   exactly when no thread ever took it. *)
THEOREM DetailsAlwaysAccurate ==
  ASSUME OneLifetime
  PROVE  Spec => []DetailsAccurate
<1>1. Init => CountersTrue
  BY DEF Init, CountersTrue
<1>2. IndInv /\ CountersTrue /\ [Next]_vars => CountersTrue'
  BY NextCountersTrue
<1>3. IndInv /\ CountersTrue => DetailsAccurate
  <2>1. SUFFICES ASSUME IndInv, CountersTrue, segmentOpen, NEW s \in Slot, InPlace(s)
                 PROVE  /\ s \notin torn
                        /\ IsRunning(s) <=> s \notin Vacant
                        /\ UseCount(s) = 0 <=> taker[s] = NoThread
    BY DEF DetailsAccurate
  <2>5. s \notin torn
    BY <2>1 DEF IndInv, TakerNamed
  <2>2. state[s] \in Nat
    BY <2>1 DEF IndInv, TypeOK
  <2>3. state[s] % 2 \in {0, 1} /\ (UseCount(s) = 0 <=> state[s] = 0)
    BY <2>2, CounterStep DEF UseCount
  <2>4. QED
    BY <2>1, <2>3, <2>5 DEF CountersTrue, IsRunning
<1>4. QED
  BY <1>1, <1>2, <1>3, SpecIndInv, PTL DEF Spec

-----------------------------------------------------------------------------
(* Counting space.                                                         *)

(* The units of one reservation are as many as the words it takes. *)
LEMMA UnitsOfOne ==
  ASSUME NEW r, r.len \in Nat
  PROVE  /\ IsFiniteSet(Units({r}))
         /\ Cardinality(Units({r})) = RealLength(r.len)
<1> DEFINE n == RealLength(r.len)
<1>1. n \in Nat \ {0}
  BY DEF RealLength, LengthSize
<1>2. IsFiniteSet(1 .. n) /\ Cardinality(1 .. n) = n
  <2>1. 1 \in Int /\ n \in Int /\ n - 1 + 1 = n /\ ~(1 > n)
    BY <1>1
  <2> HIDE DEF n
  <2>2. QED
    BY <2>1, FS_Interval
<1>3. IsFiniteSet({r}) /\ Cardinality({r}) = 1
  BY FS_Singleton
<1>4. Units({r}) = {r} \X (1 .. n)
  BY DEF Units
<1>5. /\ IsFiniteSet({r} \X (1 .. n))
      /\ Cardinality({r} \X (1 .. n)) = 1 * n
  <2> DEFINE S == {r}
             T == 1 .. n
  <2>1. /\ IsFiniteSet(S) /\ Cardinality(S) = 1
        /\ IsFiniteSet(T) /\ Cardinality(T) = n
    BY <1>2, <1>3
  <2> HIDE DEF n, S, T
  <2>2. IsFiniteSet(S \X T) /\ Cardinality(S \X T) = Cardinality(S) * Cardinality(T)
    BY <2>1, FS_Product
  <2>3. QED
    BY <2>1, <2>2 DEF S, T
<1>6. 1 * n = n
  BY <1>1
<1>7. QED
  <2> HIDE DEF n
  <2>1. Cardinality({r} \X (1 .. n)) = n
    BY <1>5, <1>6
  <2>2. QED
    BY <1>4, <1>5, <2>1 DEF n

(* A new reservation adds its own words to the count. *)
LEMMA UnitsAdd ==
  ASSUME NEW R, NEW r, r \notin R, r.len \in Nat, IsFiniteSet(Units(R))
  PROVE  /\ IsFiniteSet(Units(R \cup {r}))
         /\ Cardinality(Units(R \cup {r})) = Cardinality(Units(R)) + RealLength(r.len)
<1>1. Units(R \cup {r}) = Units(R) \cup Units({r})
  BY DEF Units
<1>2. Units(R) \cap Units({r}) = {}
  BY DEF Units
<1>3. IsFiniteSet(Units({r})) /\ Cardinality(Units({r})) = RealLength(r.len)
  BY UnitsOfOne
<1>4. Cardinality({}) = 0
  BY FS_EmptySet
<1>5. Cardinality(Units(R)) \in Nat /\ RealLength(r.len) \in Nat
  BY FS_CardinalityType DEF RealLength, LengthSize
<1>6. /\ IsFiniteSet(Units(R) \cup Units({r}))
      /\ Cardinality(Units(R) \cup Units({r})) =
           Cardinality(Units(R)) + Cardinality(Units({r}))
             - Cardinality(Units(R) \cap Units({r}))
  BY <1>3, FS_Union
<1>7. Cardinality(Units(R) \cap Units({r})) = 0
  BY <1>2, <1>4
<1>8. Cardinality(Units(R) \cup Units({r})) = Cardinality(Units(R)) + RealLength(r.len)
  BY <1>3, <1>5, <1>6, <1>7
<1>9. QED
  BY <1>1, <1>6, <1>8

(* A reservation given back takes exactly its own words off the count. *)
LEMMA UnitsRemove ==
  ASSUME NEW R, NEW r \in R, r.len \in Nat, IsFiniteSet(Units(R))
  PROVE  /\ IsFiniteSet(Units(R \ {r}))
         /\ Cardinality(Units(R \ {r})) = Cardinality(Units(R)) - RealLength(r.len)
<1>1. Units(R \ {r}) \subseteq Units(R)
  BY DEF Units
<1>2. IsFiniteSet(Units(R \ {r}))
  BY <1>1, FS_Subset
<1>3. (R \ {r}) \cup {r} = R /\ r \notin R \ {r}
  OBVIOUS
<1>4. Cardinality(Units(R)) = Cardinality(Units(R \ {r})) + RealLength(r.len)
  <2> DEFINE S == R \ {r}
  <2>1. r \notin S /\ S \cup {r} = R /\ IsFiniteSet(Units(S))
    BY <1>2, <1>3
  <2> HIDE DEF S
  <2>2. Cardinality(Units(S \cup {r})) = Cardinality(Units(S)) + RealLength(r.len)
    BY <2>1, UnitsAdd
  <2>3. QED
    BY <2>1, <2>2 DEF S
<1>5. Cardinality(Units(R \ {r})) \in Nat /\ RealLength(r.len) \in Nat
  BY <1>2, FS_CardinalityType DEF RealLength, LengthSize
<1>6. QED
  BY <1>2, <1>4, <1>5

-----------------------------------------------------------------------------
(* The inductive invariant.                                                *)

Busy(t) == pc[t] # "idle"

(* The call a writer is in is its own, its latest, and inside the area when it
   was granted; what was written comes from earlier calls. *)
CallsInOrder ==
  /\ \A t \in Writer : Busy(t) =>
       /\ call[t] \in Record
       /\ call[t].writer = t
       /\ call[t].number = calls[t]
       /\ pc[t] # "backoff" => Fits(call[t].offset, call[t].len)
  /\ \A r \in written : /\ r.number <= calls[r.writer]
                        /\ Busy(r.writer) => r.number < calls[r.writer]

SpaceInv ==
  /\ ContextTypeOK
  /\ CallsInOrder
  /\ IsFiniteSet(Units(Reserved))
  /\ SpaceAccounted
  /\ NeverOversubscribed

LEMMA ReservedFacts ==
  ASSUME SpaceInv
  PROVE  /\ Reserved \subseteq Record
         /\ Granted \subseteq Reserved
         /\ \A r \in Record : RealLength(r.len) \in Nat \ {0} /\ r.len \in Nat
<1>1. Unfinished \subseteq Record
  BY DEF SpaceInv, CallsInOrder, Unfinished, Busy
<1>2. written \subseteq Record
  BY DEF SpaceInv, ContextTypeOK
<1>3. Granted \subseteq Reserved
  BY DEF Granted, Reserved, Unfinished
<1>4. \A r \in Record : RealLength(r.len) \in Nat \ {0} /\ r.len \in Nat
  <2>1. \A r \in Record : r.len \in RecLen
    BY DEF Record
  <2>2. \A n \in Nat : n + 1 \in Nat \ {0}
    OBVIOUS
  <2>3. QED
    BY <2>1, <2>2, RecLenAssumption DEF RealLength, LengthSize
<1>5. QED
  BY <1>1, <1>2, <1>3, <1>4 DEF Reserved

(* What was granted is counted in the write position. *)
LEMMA GrantedWithinPos ==
  ASSUME SpaceInv
  PROVE  /\ IsFiniteSet(Units(Granted))
         /\ Cardinality(Units(Granted)) \in Nat
         /\ Cardinality(Units(Granted)) <= writePos
<1>1. Units(Granted) \subseteq Units(Reserved)
  BY ReservedFacts DEF Units
<1>2. QED
  BY <1>1, FS_Subset, FS_CardinalityType DEF SpaceInv, SpaceAccounted

LEMMA InitSpaceInv == ContextInit => SpaceInv
<1>1. SUFFICES ASSUME ContextInit
               PROVE  SpaceInv
  OBVIOUS
<1>2. Reserved = {} /\ Granted = {}
  BY <1>1 DEF ContextInit, Reserved, Granted, Unfinished
<1>3. Units({}) = {}
  BY DEF Units
<1>4. IsFiniteSet({}) /\ Cardinality({}) = 0
  BY FS_EmptySet
<1>5. ContextTypeOK
  <2>1. calls \in [Writer -> 0 .. MaxCalls]
    BY <1>1, MaxCallsAssumption DEF ContextInit
  <2>2. pc \in [Writer -> {"idle", "length", "payload", "backoff"}]
    BY <1>1 DEF ContextInit
  <2>3. call \in [Writer -> Record \cup {<<>>}]
    BY <1>1, Zenon DEF ContextInit
  <2>4. QED
    BY <1>1, <2>1, <2>2, <2>3 DEF ContextInit, ContextTypeOK
<1>6. CallsInOrder
  BY <1>1 DEF ContextInit, CallsInOrder, Busy
<1>7. SpaceAccounted /\ NeverOversubscribed
  <2>1. Cardinality(Units(Reserved)) = 0 /\ Cardinality(Units(Granted)) = 0
    BY <1>2, <1>3, <1>4
  <2>2. writePos = 0 /\ 0 <= AreaSize
    BY <1>1, AreaSizeAssumption DEF ContextInit
  <2>3. QED
    BY <2>1, <2>2 DEF SpaceAccounted, NeverOversubscribed
<1>8. QED
  BY <1>2, <1>3, <1>4, <1>5, <1>6, <1>7 DEF SpaceInv

(* How each action of a writer changes the sets of reservations. *)
LEMMA ReserveSets ==
  ASSUME SpaceInv, NEW t \in Writer, NEW len \in RecLen, Reserve(t, len)
  PROVE  /\ call'[t] \notin Reserved
         /\ call'[t] \in Record
         /\ call'[t].len = len
         /\ call'[t].offset = writePos
         /\ call'[t].writer = t
         /\ call'[t].number = calls[t] + 1
         /\ Reserved' = Reserved \cup {call'[t]}
         /\ Granted' = Granted \cup IF Fits(writePos, len) THEN {call'[t]} ELSE {}
<1> DEFINE new == [writer |-> t, number |-> calls[t] + 1,
                   offset |-> writePos, len |-> len]
<1>1. /\ calls[t] \in Nat
      /\ calls[t] + 1 \in 1 .. MaxCalls
      /\ writePos \in Nat
      /\ ~Busy(t)
  BY MaxCallsAssumption DEF SpaceInv, ContextTypeOK, Reserve, Busy
<1>2. new \in Record
  BY <1>1 DEF Record
<1>3. /\ call' = [call EXCEPT ![t] = new]
      /\ pc' = [pc EXCEPT ![t] = IF Fits(writePos, len) THEN "length" ELSE "backoff"]
      /\ written' = written
  BY DEF Reserve
<1>4. call'[t] = new /\ \A u \in Writer \ {t} : call'[u] = call[u]
  BY <1>3 DEF SpaceInv, ContextTypeOK
<1>5. /\ pc'[t] = IF Fits(writePos, len) THEN "length" ELSE "backoff"
      /\ \A u \in Writer \ {t} : pc'[u] = pc[u]
  BY <1>3 DEF SpaceInv, ContextTypeOK
<1>6. new \notin Reserved
  <2>1. \A u \in Writer : Busy(u) => call[u].writer # t
    BY <1>1 DEF SpaceInv, CallsInOrder
  <2>2. \A r \in written : r.writer = t => r.number # calls[t] + 1
    <3>1. \A r \in written : r.number \in Nat /\ r.number <= calls[r.writer]
      BY DEF SpaceInv, CallsInOrder, ContextTypeOK, Record
    <3>2. QED
      BY <1>1, <3>1
  <2>3. QED
    BY <2>1, <2>2 DEF Reserved, Unfinished, Busy
<1>7. Unfinished' = Unfinished \cup {new}
  <2>1. \A u \in Writer \ {t} : pc'[u] = pc[u] /\ call'[u] = call[u]
    BY <1>4, <1>5
  <2>2. pc[t] = "idle" /\ pc'[t] # "idle"
    BY <1>1, <1>5 DEF Busy
  <2> HIDE DEF new
  <2>3. QED
    BY <1>4, <2>1, <2>2 DEF Unfinished
<1>8. Reserved' = Reserved \cup {new}
  BY <1>3, <1>7 DEF Reserved
<1>9. Granted' = Granted \cup IF Fits(writePos, len) THEN {new} ELSE {}
  <2>1. \A u \in Writer \ {t} : pc'[u] = pc[u] /\ call'[u] = call[u]
    BY <1>4, <1>5
  <2>2. pc[t] = "idle"
    BY <1>1 DEF Busy
  <2> HIDE DEF new
  <2>3. CASE Fits(writePos, len)
    <3>1. pc'[t] = "length"
      BY <1>5, <2>3
    <3>2. QED
      BY <1>3, <1>4, <2>1, <2>2, <2>3, <3>1 DEF Granted
  <2>4. CASE ~Fits(writePos, len)
    <3>1. pc'[t] = "backoff"
      BY <1>5, <2>4
    <3>2. QED
      BY <1>3, <1>4, <2>1, <2>2, <2>4, <3>1 DEF Granted
  <2>5. QED
    BY <2>3, <2>4
<1>10. QED
  BY <1>2, <1>4, <1>6, <1>8, <1>9

LEMMA BackOffSets ==
  ASSUME SpaceInv, NEW t \in Writer, BackOff(t)
  PROVE  /\ call[t] \in Reserved
         /\ Reserved' = Reserved \ {call[t]}
         /\ Granted' = Granted
         /\ call[t] \notin Granted
<1>1. /\ pc[t] = "backoff"
      /\ pc' = [pc EXCEPT ![t] = "idle"]
      /\ call' = call
      /\ written' = written
  BY DEF BackOff
<1>2. /\ pc'[t] = "idle"
      /\ \A u \in Writer \ {t} : pc'[u] = pc[u]
  BY <1>1 DEF SpaceInv, ContextTypeOK
<1>3. call[t].writer = t /\ call[t].number = calls[t] /\ Busy(t)
  BY <1>1 DEF SpaceInv, CallsInOrder, Busy
<1>4. \A u \in Writer \ {t} : Busy(u) => call[u] # call[t]
  BY <1>3 DEF SpaceInv, CallsInOrder
<1>5. call[t] \notin written
  <2>1. SUFFICES ASSUME call[t] \in written
                 PROVE  FALSE
    OBVIOUS
  <2>2. call[t].number < calls[t] /\ calls[t] \in Int
    BY <1>3, <2>1, MaxCallsAssumption DEF SpaceInv, CallsInOrder, ContextTypeOK
  <2>3. QED
    BY <1>3, <2>2
<1>6. Unfinished' = Unfinished \ {call[t]}
  BY <1>1, <1>2, <1>4 DEF Unfinished, Busy
<1>7. Granted' = Granted /\ call[t] \notin Granted
  BY <1>1, <1>2, <1>4, <1>5 DEF Granted, Busy
<1>8. call[t] \in Reserved
  BY <1>1 DEF Reserved, Unfinished
<1>9. QED
  BY <1>1, <1>5, <1>6, <1>7, <1>8 DEF Reserved

LEMMA CopyPayloadSets ==
  ASSUME SpaceInv, NEW t \in Writer, CopyPayload(t)
  PROVE  Reserved' = Reserved /\ Granted' = Granted
<1>1. /\ pc[t] = "payload"
      /\ pc' = [pc EXCEPT ![t] = "idle"]
      /\ call' = call
      /\ written' = written \cup {call[t]}
  BY DEF CopyPayload
<1>2. /\ pc'[t] = "idle"
      /\ \A u \in Writer \ {t} : pc'[u] = pc[u]
  BY <1>1 DEF SpaceInv, ContextTypeOK
<1>3. QED
  BY <1>1, <1>2 DEF Reserved, Granted, Unfinished

LEMMA StoreLengthSets ==
  ASSUME SpaceInv, NEW t \in Writer, StoreLength(t)
  PROVE  Reserved' = Reserved /\ Granted' = Granted
<1>1. /\ pc[t] = "length"
      /\ pc' = [pc EXCEPT ![t] = "payload"]
      /\ call' = call
      /\ written' = written
  BY DEF StoreLength
<1>2. /\ pc'[t] = "payload"
      /\ \A u \in Writer \ {t} : pc'[u] = pc[u]
  BY <1>1 DEF SpaceInv, ContextTypeOK
<1>3. QED
  BY <1>1, <1>2 DEF Reserved, Granted, Unfinished

-----------------------------------------------------------------------------
(* Every step preserves the invariant.                                     *)

LEMMA ReserveSpace ==
  ASSUME SpaceInv, NEW t \in Writer, NEW len \in RecLen, Reserve(t, len)
  PROVE  SpaceInv'
<1> DEFINE new == call'[t]
<1>1. /\ new \notin Reserved
      /\ new \in Record
      /\ new.len = len
      /\ new.offset = writePos
      /\ new.writer = t
      /\ new.number = calls[t] + 1
      /\ Reserved' = Reserved \cup {new}
      /\ Granted' = Granted \cup IF Fits(writePos, len) THEN {new} ELSE {}
  BY ReserveSets
<1>2. new.len \in Nat /\ RealLength(len) \in Nat /\ writePos \in Nat
  BY <1>1, ReservedFacts DEF SpaceInv, ContextTypeOK
<1>3. /\ calls' = [calls EXCEPT ![t] = @ + 1]
      /\ calls[t] \in 0 .. MaxCalls
      /\ calls[t] < MaxCalls
      /\ pc[t] = "idle"
      /\ pc' = [pc EXCEPT ![t] = IF Fits(writePos, len) THEN "length" ELSE "backoff"]
      /\ writePos' = writePos + RealLength(len)
      /\ written' = written
  BY DEF Reserve, SpaceInv, ContextTypeOK
<1>4. call' \in [Writer -> Record \cup {<<>>}]
      /\ \A u \in Writer \ {t} : call'[u] = call[u]
  <2>1. PICK r \in {new} : call' = [call EXCEPT ![t] = r]
    BY DEF Reserve, SpaceInv, ContextTypeOK
  <2>2. QED
    BY <1>1, <2>1 DEF SpaceInv, ContextTypeOK
<1>5. ContextTypeOK'
  <2>1. writePos' \in Nat
    BY <1>2, <1>3
  <2>2. pc' \in [Writer -> {"idle", "length", "payload", "backoff"}]
    BY <1>3 DEF SpaceInv, ContextTypeOK
  <2>3. calls' \in [Writer -> 0 .. MaxCalls]
    BY <1>3, MaxCallsAssumption DEF SpaceInv, ContextTypeOK
  <2>4. /\ crashed' \in BOOLEAN
        /\ rejected' \in BOOLEAN
        /\ raced' \in BOOLEAN
    BY DEF Reserve, SpaceInv, ContextTypeOK
  <2>5. written' \in SUBSET Record /\ \A r \in written' : Words(r) \subseteq 0 .. AreaSize - 1
    BY <1>3 DEF SpaceInv, ContextTypeOK
  <2>6. QED
    BY <1>4, <2>1, <2>2, <2>3, <2>4, <2>5 DEF ContextTypeOK, Words
<1>6. CallsInOrder'
  <2>1. /\ calls'[t] = calls[t] + 1
        /\ \A u \in Writer \ {t} : calls'[u] = calls[u] /\ pc'[u] = pc[u]
        /\ pc'[t] = IF Fits(writePos, len) THEN "length" ELSE "backoff"
    BY <1>3 DEF SpaceInv, ContextTypeOK
  <2>2. ASSUME NEW u \in Writer, Busy(u)'
        PROVE  /\ call'[u] \in Record
               /\ call'[u].writer = u
               /\ call'[u].number = calls'[u]
               /\ pc'[u] # "backoff" => Fits(call'[u].offset, call'[u].len)
    <3>1. CASE u = t
      BY <1>1, <2>1, <3>1
    <3>2. CASE u # t
      BY <1>4, <2>1, <2>2, <3>2 DEF SpaceInv, CallsInOrder, Busy
    <3>3. QED
      BY <3>1, <3>2
  <2>3. ASSUME NEW r \in written
        PROVE  /\ r.number <= calls'[r.writer]
               /\ Busy(r.writer)' => r.number < calls'[r.writer]
    <3>1. /\ r.number \in Nat /\ r.writer \in Writer /\ calls[r.writer] \in Nat
          /\ r.number <= calls[r.writer]
          /\ Busy(r.writer) => r.number < calls[r.writer]
      BY <2>3, MaxCallsAssumption DEF SpaceInv, CallsInOrder, ContextTypeOK, Record
    <3>2. CASE r.writer = t
      BY <2>1, <3>1, <3>2
    <3>3. CASE r.writer # t
      BY <2>1, <3>1, <3>3 DEF Busy
    <3>4. QED
      BY <3>2, <3>3
  <2>4. QED
    BY <1>3, <2>2, <2>3 DEF CallsInOrder, Fits
<1>7. IsFiniteSet(Units(Reserved))' /\ SpaceAccounted'
  <2> HIDE DEF new
  <2>1. /\ IsFiniteSet(Units(Reserved \cup {new}))
        /\ Cardinality(Units(Reserved \cup {new})) =
             Cardinality(Units(Reserved)) + RealLength(len)
    BY <1>1, <1>2, UnitsAdd DEF SpaceInv
  <2>2. QED
    BY <1>1, <1>3, <2>1 DEF SpaceInv, SpaceAccounted, Units
<1>8. NeverOversubscribed'
  <2> HIDE DEF new
  <2>1. CASE ~Fits(writePos, len)
    <3>1. Granted' = Granted
      BY <1>1, <2>1
    <3>2. QED
      BY <3>1 DEF SpaceInv, NeverOversubscribed, Units
  <2>2. CASE Fits(writePos, len)
    <3>1. new \notin Granted /\ Granted' = Granted \cup {new}
      BY <1>1, <2>2, ReservedFacts
    <3>2. Cardinality(Units(Granted \cup {new})) =
            Cardinality(Units(Granted)) + RealLength(len)
      BY <1>1, <1>2, <3>1, GrantedWithinPos, UnitsAdd
    <3>3. /\ Cardinality(Units(Granted)) \in Nat
          /\ Cardinality(Units(Granted)) <= writePos
      BY GrantedWithinPos
    <3>4. writePos + RealLength(len) <= AreaSize
      BY <2>2 DEF Fits
    <3>5. Cardinality(Units(Granted \cup {new})) <= AreaSize
      BY <1>2, <3>2, <3>3, <3>4, AreaSizeAssumption
    <3>6. QED
      BY <3>1, <3>5 DEF NeverOversubscribed, Units
  <2>3. QED
    BY <2>1, <2>2
<1>9. QED
  BY <1>5, <1>6, <1>7, <1>8 DEF SpaceInv

LEMMA BackOffSpace ==
  ASSUME SpaceInv, NEW t \in Writer, BackOff(t)
  PROVE  SpaceInv'
<1> DEFINE old == call[t]
<1>1. /\ old \in Reserved
      /\ Reserved' = Reserved \ {old}
      /\ Granted' = Granted
      /\ old \notin Granted
  BY BackOffSets
<1>2. old \in Record /\ old.len \in Nat /\ RealLength(old.len) \in Nat /\ writePos \in Nat
  BY <1>1, ReservedFacts DEF SpaceInv, ContextTypeOK
<1>3. /\ pc' = [pc EXCEPT ![t] = "idle"]
      /\ writePos' = writePos - RealLength(old.len)
      /\ UNCHANGED <<call, calls, crashed, written, rejected, raced>>
  BY DEF BackOff, PosAfterBackOff
<1>4. IsFiniteSet(Units(Reserved))' /\ SpaceAccounted'
  <2> HIDE DEF old
  <2>1. /\ IsFiniteSet(Units(Reserved \ {old}))
        /\ Cardinality(Units(Reserved \ {old})) =
             Cardinality(Units(Reserved)) - RealLength(old.len)
    BY <1>1, <1>2, UnitsRemove DEF SpaceInv
  <2>2. QED
    BY <1>1, <1>3, <2>1 DEF SpaceInv, SpaceAccounted, Units
<1>5. writePos' \in Nat
  BY <1>4, FS_CardinalityType DEF SpaceAccounted
<1>6. ContextTypeOK'
  BY <1>3, <1>5 DEF SpaceInv, ContextTypeOK, Words
<1>7. CallsInOrder'
  BY <1>3 DEF SpaceInv, CallsInOrder, ContextTypeOK, Busy, Fits
<1>8. NeverOversubscribed'
  BY <1>1 DEF SpaceInv, NeverOversubscribed, Units
<1>9. QED
  BY <1>4, <1>6, <1>7, <1>8 DEF SpaceInv

LEMMA StoreLengthSpace ==
  ASSUME SpaceInv, NEW t \in Writer, StoreLength(t)
  PROVE  SpaceInv'
<1>1. Reserved' = Reserved /\ Granted' = Granted
  BY StoreLengthSets
<1>2. /\ pc[t] = "length"
      /\ pc' = [pc EXCEPT ![t] = "payload"]
      /\ UNCHANGED <<writePos, call, calls, crashed, written, rejected, raced>>
  BY DEF StoreLength
<1>3. ContextTypeOK' /\ CallsInOrder'
  BY <1>2 DEF SpaceInv, ContextTypeOK, Words, CallsInOrder, Busy, Fits
<1>4. QED
  BY <1>1, <1>2, <1>3 DEF SpaceInv, SpaceAccounted, NeverOversubscribed, Units

LEMMA CopyPayloadSpace ==
  ASSUME SpaceInv, NEW t \in Writer, CopyPayload(t)
  PROVE  SpaceInv'
<1> DEFINE r == call[t]
<1>1. Reserved' = Reserved /\ Granted' = Granted
  BY CopyPayloadSets
<1>2. /\ pc[t] = "payload"
      /\ pc' = [pc EXCEPT ![t] = "idle"]
      /\ written' = written \cup {r}
      /\ UNCHANGED <<writePos, call, calls, crashed, rejected, raced>>
  BY DEF CopyPayload
<1>3. /\ r \in Record
      /\ r.writer = t
      /\ r.number = calls[t]
      /\ Fits(r.offset, r.len)
  BY <1>2 DEF SpaceInv, CallsInOrder, Busy
<1>4. Words(r) \subseteq 0 .. AreaSize - 1
  <2>1. r.offset \in Nat /\ r.len \in Nat /\ r.offset + r.len + 1 <= AreaSize
    BY <1>3, ReservedFacts DEF Record, Fits, RealLength, LengthSize
  <2> HIDE DEF r
  <2>2. QED
    BY <2>1, AreaSizeAssumption DEF Words, LengthSize
<1>5. ContextTypeOK'
  <2> HIDE DEF r
  <2>1. /\ written' \in SUBSET Record
        /\ \A q \in written' : Words(q) \subseteq 0 .. AreaSize - 1
    BY <1>2, <1>3, <1>4 DEF SpaceInv, ContextTypeOK
  <2>2. QED
    BY <1>2, <2>1 DEF SpaceInv, ContextTypeOK, Words
<1>6. CallsInOrder'
  <2>1. /\ pc'[t] = "idle"
        /\ \A u \in Writer \ {t} : pc'[u] = pc[u]
    BY <1>2 DEF SpaceInv, ContextTypeOK
  <2>2. \A q \in written' : q.writer \in Writer /\ q.number \in Int
    BY <1>2, <1>3 DEF SpaceInv, ContextTypeOK, Record
  <2>3. \A q \in written' : /\ q.number <= calls[q.writer]
                            /\ Busy(q.writer)' => q.number < calls[q.writer]
    BY <1>2, <1>3, <2>1, <2>2, MaxCallsAssumption DEF SpaceInv, CallsInOrder, ContextTypeOK, Busy
  <2>4. \A u \in Writer : Busy(u)' =>
          /\ call[u] \in Record
          /\ call[u].writer = u
          /\ call[u].number = calls[u]
          /\ pc'[u] # "backoff" => Fits(call[u].offset, call[u].len)
    BY <2>1 DEF SpaceInv, CallsInOrder, Busy
  <2>5. QED
    BY <1>2, <2>3, <2>4 DEF CallsInOrder, Fits
<1>7. QED
  BY <1>1, <1>2, <1>5, <1>6 DEF SpaceInv, SpaceAccounted, NeverOversubscribed, Units

(* A crash and the steps of the inspector touch no reservation. *)
LEMMA OtherSpace ==
  ASSUME SpaceInv, Crash \/ ReaderNext \/ UNCHANGED contextVars
  PROVE  SpaceInv'
<1>1. /\ UNCHANGED <<writePos, pc, call, calls, written, rejected, raced>>
      /\ crashed' \in BOOLEAN
  BY DEF Crash, ReaderNext, ReadLimit, ReadRecord, contextVars, writerVars, SpaceInv, ContextTypeOK
<1>2. Reserved' = Reserved /\ Granted' = Granted
  BY <1>1 DEF Reserved, Granted, Unfinished
<1>3. ContextTypeOK' /\ CallsInOrder'
  BY <1>1 DEF SpaceInv, ContextTypeOK, Words, CallsInOrder, Busy, Fits
<1>4. QED
  BY <1>1, <1>2, <1>3 DEF SpaceInv, SpaceAccounted, NeverOversubscribed, Units

LEMMA NextSpaceInv == SpaceInv /\ [ContextNext]_contextVars => SpaceInv'
<1>1. SUFFICES ASSUME SpaceInv, [ContextNext]_contextVars
               PROVE  SpaceInv'
  OBVIOUS
<1>2. CASE Crash \/ ReaderNext \/ UNCHANGED contextVars
  BY <1>1, <1>2, OtherSpace
<1>3. CASE WriterNext
  BY <1>1, <1>3, ReserveSpace, StoreLengthSpace, CopyPayloadSpace, BackOffSpace
     DEF WriterNext
<1>4. QED
  BY <1>1, <1>2, <1>3 DEF ContextNext

(* What each writer of writeContextRecord has reserved adds up to the write
   position, in every state. *)
THEOREM SpecSpaceInv == ContextSpec => []SpaceInv
<1>1. ContextInit => SpaceInv
  BY InitSpaceInv
<1>2. SpaceInv /\ [ContextNext]_contextVars => SpaceInv'
  BY NextSpaceInv
<1>3. QED
  BY <1>1, <1>2, PTL DEF ContextSpec

(* The variables keep their types, and acknowledged records lie in the area. *)
THEOREM ContextTypeCorrect == ContextSpec => []ContextTypeOK
<1>1. SpaceInv => ContextTypeOK
  BY DEF SpaceInv
<1>2. QED
  BY <1>1, SpecSpaceInv, PTL

(* The lock-free reservation of writeContextRecord never loses track of its
   space, whatever the interleaving of reservations and back-offs. *)
THEOREM SpaceNeverDrifts == ContextSpec => []SpaceAccounted
<1>1. SpaceInv => SpaceAccounted
  BY DEF SpaceInv
<1>2. QED
  BY <1>1, SpecSpaceInv, PTL

(* The space granted by writeContextRecord never exceeds the context area. *)
THEOREM GrantsFitTheArea == ContextSpec => []NeverOversubscribed
<1>1. SpaceInv => NeverOversubscribed
  BY DEF SpaceInv
<1>2. QED
  BY <1>1, SpecSpaceInv, PTL

-----------------------------------------------------------------------------
(* Reservations tile the area as long as no two are given back at once.    *)

End(r) == r.offset + RealLength(r.len)

(* A reservation that is to be given back is the only one of its kind and the
   last in the area, whose end it passes, so every later one is rejected. *)
LastGivesBack ==
  /\ \A t, u \in GivingBack : t = u
  /\ \A t \in GivingBack : End(call[t]) = writePos /\ writePos > AreaSize

Apart ==
  \A q, r \in Reserved : q # r => End(q) <= r.offset \/ End(r) <= q.offset

BelowPos == \A r \in Reserved : End(r) <= writePos

Covered == \A i \in 0 .. writePos - 1 : \E r \in Reserved : i \in Words(r)

TileInv == ~raced => LastGivesBack /\ Apart /\ BelowPos /\ Covered

LEMMA InitTileInv == ContextInit => TileInv
BY DEF ContextInit, TileInv, LastGivesBack, Apart, BelowPos, Covered, GivingBack, Reserved,
   Unfinished

(* Numbers of a reservation. *)
LEMMA RecordNumbers ==
  ASSUME NEW r \in Record
  PROVE  /\ r.offset \in Nat /\ r.len \in Nat /\ End(r) \in Nat
         /\ r.offset < End(r)
         /\ Words(r) = r.offset .. End(r) - 1
<1>1. r.offset \in Nat /\ r.len \in Nat
  <2>1. r.offset \in Nat /\ r.len \in RecLen
    BY DEF Record
  <2>2. QED
    BY <2>1, RecLenAssumption
<1>2. End(r) = r.offset + r.len + 1
  BY <1>1 DEF End, RealLength, LengthSize
<1>3. Words(r) = r.offset .. r.offset + r.len
  BY <1>1 DEF Words, LengthSize
<1>4. QED
  BY <1>1, <1>2, <1>3

LEMMA ReserveTiles ==
  ASSUME SpaceInv, TileInv, NEW t \in Writer, NEW len \in RecLen, Reserve(t, len)
  PROVE  TileInv'
<1> DEFINE new == call'[t]
<1>1. SUFFICES ASSUME ~raced'
               PROVE  (LastGivesBack /\ Apart /\ BelowPos /\ Covered)'
  BY DEF TileInv
<1>2. /\ new \in Record
      /\ new.len = len
      /\ new.offset = writePos
      /\ Reserved' = Reserved \cup {new}
      /\ Reserved \subseteq Record
  BY ReserveSets, ReservedFacts
<1>3. /\ ~raced
      /\ Fits(writePos, len) \/ GivingBack = {}
      /\ writePos' = writePos + RealLength(len)
      /\ pc' = [pc EXCEPT ![t] = IF Fits(writePos, len) THEN "length" ELSE "backoff"]
  BY <1>1 DEF Reserve, SpaceInv, ContextTypeOK
<1>4. /\ End(new) = writePos'
      /\ RealLength(len) \in Nat
      /\ writePos \in Nat
      /\ writePos < writePos'
  <2>1. End(new) = writePos + RealLength(len)
    BY <1>2 DEF End
  <2>2. writePos \in Nat /\ RealLength(len) \in Nat \ {0}
    BY <1>2, ReservedFacts DEF SpaceInv, ContextTypeOK
  <2>3. QED
    BY <1>3, <2>1, <2>2
<1>5. LastGivesBack /\ Apart /\ BelowPos /\ Covered
  BY <1>3 DEF TileInv
<1> HIDE DEF new
<1>6. GivingBack = {}
  <2>1. SUFFICES ASSUME GivingBack # {}
                 PROVE  FALSE
    OBVIOUS
  <2>2. writePos > AreaSize /\ Fits(writePos, len)
    BY <1>3, <1>5, <2>1 DEF LastGivesBack
  <2>3. QED
    BY <1>4, <2>2, AreaSizeAssumption DEF Fits
<1>7. LastGivesBack'
  <2>1. \A u \in Writer \ {t} : pc'[u] = pc[u]
    BY <1>3 DEF SpaceInv, ContextTypeOK
  <2>2. \A u \in GivingBack' : u = t /\ ~Fits(writePos, len)
    BY <1>3, <1>6, <2>1 DEF GivingBack, SpaceInv, ContextTypeOK
  <2>3. ~Fits(writePos, len) => writePos' > AreaSize
    BY <1>3, <1>4, AreaSizeAssumption DEF Fits
  <2>4. GivingBack' # {} => writePos' > AreaSize
    BY <2>2, <2>3
  <2>5. \A u \in GivingBack' : End(call'[u]) = writePos'
    BY <1>4, <2>2 DEF new
  <2>6. QED
    BY <2>2, <2>4, <2>5 DEF LastGivesBack, End, RealLength
<1>8. Apart'
  <2>1. ASSUME NEW q \in Reserved', NEW r \in Reserved', q # r
        PROVE  End(q) <= r.offset \/ End(r) <= q.offset
    <3>1. CASE q \in Reserved /\ r \in Reserved
      BY <1>5, <2>1, <3>1 DEF Apart
    <3>2. CASE q = new \/ r = new
      BY <1>2, <1>5, <2>1, <3>2 DEF BelowPos
    <3>3. QED
      BY <1>2, <2>1, <3>1, <3>2
  <2>2. QED
    BY <2>1 DEF Apart, End, RealLength
<1>9. BelowPos'
  <2>1. \A r \in Reserved' : End(r) <= writePos'
    BY <1>2, <1>4, <1>5, RecordNumbers DEF BelowPos
  <2>2. QED
    BY <2>1 DEF BelowPos, End, RealLength
<1>10. Covered'
  <2>1. ASSUME NEW i \in 0 .. writePos' - 1
        PROVE  \E r \in Reserved' : i \in Words(r)
    <3>1. CASE i < writePos
      BY <1>2, <1>4, <1>5, <3>1 DEF Covered
    <3>2. CASE i >= writePos
      BY <1>2, <1>4, <3>2, RecordNumbers
    <3>3. QED
      BY <1>4, <3>1, <3>2
  <2>2. QED
    BY <2>1 DEF Covered, Words
<1>11. QED
  BY <1>7, <1>8, <1>9, <1>10

LEMMA BackOffTiles ==
  ASSUME SpaceInv, TileInv, NEW t \in Writer, BackOff(t)
  PROVE  TileInv'
<1> DEFINE old == call[t]
<1>1. SUFFICES ASSUME ~raced
               PROVE  (LastGivesBack /\ Apart /\ BelowPos /\ Covered)'
  BY DEF TileInv, BackOff
<1>2. /\ old \in Reserved
      /\ Reserved' = Reserved \ {old}
      /\ Reserved \subseteq Record
  BY BackOffSets, ReservedFacts
<1>3. /\ LastGivesBack /\ Apart /\ BelowPos /\ Covered
      /\ t \in GivingBack
      /\ call' = call
      /\ pc' = [pc EXCEPT ![t] = "idle"]
      /\ writePos' = writePos - RealLength(old.len)
  BY <1>1 DEF TileInv, BackOff, GivingBack, PosAfterBackOff
<1>4. /\ old.offset \in Nat /\ old.len \in Nat /\ writePos \in Nat
      /\ writePos' = old.offset
      /\ End(old) = writePos
  <2>1. End(old) = writePos
    BY <1>3 DEF LastGivesBack
  <2>2. old \in Record
    BY <1>2
  <2>3. old.offset \in Nat /\ old.len \in Nat
    BY <2>2, RecordNumbers
  <2>4. writePos \in Nat
    BY DEF SpaceInv, ContextTypeOK
  <2>5. QED
    BY <1>3, <2>1, <2>3, <2>4 DEF End, RealLength, LengthSize
<1> HIDE DEF old
<1>5. LastGivesBack'
  <2>1. GivingBack' = {}
    BY <1>3 DEF LastGivesBack, GivingBack, SpaceInv, ContextTypeOK
  <2>2. QED
    BY <2>1 DEF LastGivesBack
<1>6. Apart'
  <2>1. \A q, r \in Reserved' : q # r => End(q) <= r.offset \/ End(r) <= q.offset
    BY <1>2, <1>3 DEF Apart
  <2>2. QED
    BY <2>1 DEF Apart, End, RealLength
<1>7. BelowPos'
  <2>1. ASSUME NEW r \in Reserved'
        PROVE  End(r) <= writePos'
    <3>1. r \in Reserved /\ r # old /\ r \in Record
      BY <1>2, <2>1
    <3>2. /\ r.offset \in Nat /\ End(r) \in Nat /\ r.offset < End(r)
      BY <3>1, RecordNumbers
    <3>3. End(r) <= writePos
      BY <1>3, <3>1 DEF BelowPos
    <3>4. End(r) <= old.offset \/ End(old) <= r.offset
      BY <1>2, <1>3, <3>1 DEF Apart
    <3>5. QED
      BY <1>4, <3>2, <3>3, <3>4
  <2>2. QED
    BY <2>1 DEF BelowPos, End, RealLength
<1>8. Covered'
  <2>1. ASSUME NEW i \in 0 .. writePos' - 1
        PROVE  \E r \in Reserved' : i \in Words(r)
    <3>1. old \in Record /\ End(old) \in Nat /\ old.offset < End(old)
          /\ Words(old) = old.offset .. End(old) - 1
      BY <1>2, RecordNumbers
    <3>2. i \in 0 .. writePos - 1 /\ i \notin Words(old)
      BY <1>4, <3>1
    <3>3. PICK r \in Reserved : i \in Words(r)
      BY <1>3, <3>2 DEF Covered
    <3>4. QED
      BY <1>2, <3>2, <3>3
  <2>2. QED
    BY <2>1 DEF Covered, Words
<1>9. QED
  BY <1>5, <1>6, <1>7, <1>8

(* The other steps leave reservations where they are. *)
LEMMA OtherTiles ==
  ASSUME SpaceInv, TileInv,
         \/ \E t \in Writer : StoreLength(t) \/ CopyPayload(t)
         \/ Crash \/ ReaderNext \/ UNCHANGED contextVars
  PROVE  TileInv'
<1>1. /\ Reserved' = Reserved
      /\ GivingBack' = GivingBack
      /\ UNCHANGED <<writePos, call, raced>>
  <2>1. CASE Crash \/ ReaderNext \/ UNCHANGED contextVars
    <3>1. UNCHANGED <<writePos, pc, call, written, raced>>
      BY <2>1 DEF Crash, ReaderNext, ReadLimit, ReadRecord, contextVars, writerVars
    <3>2. QED
      BY <3>1 DEF Reserved, Unfinished, GivingBack
  <2>2. ASSUME NEW t \in Writer, StoreLength(t) \/ CopyPayload(t)
        PROVE  /\ Reserved' = Reserved
               /\ GivingBack' = GivingBack
               /\ UNCHANGED <<writePos, call, raced>>
    <3>1. Reserved' = Reserved
      BY <2>2, StoreLengthSets, CopyPayloadSets
    <3>2. /\ pc[t] # "backoff" /\ pc'[t] # "backoff"
          /\ \A u \in Writer \ {t} : pc'[u] = pc[u]
          /\ UNCHANGED <<writePos, call, raced>>
      BY <2>2 DEF StoreLength, CopyPayload, SpaceInv, ContextTypeOK
    <3>3. QED
      BY <3>1, <3>2 DEF GivingBack
  <2>3. QED
    BY <2>1, <2>2
<1>2. QED
  BY <1>1 DEF TileInv, LastGivesBack, Apart, BelowPos, Covered, End, RealLength, Words

(* Until two back-offs coincide the reservations lie side by side, in every
   state. *)
THEOREM SpecTileInv == ContextSpec => []TileInv
<1>1. ContextInit => TileInv
  BY InitTileInv
<1>2. SpaceInv /\ TileInv /\ [ContextNext]_contextVars => TileInv'
  BY ReserveTiles, BackOffTiles, OtherTiles DEF ContextNext, WriterNext
<1>3. QED
  BY <1>1, <1>2, SpecSpaceInv, PTL DEF ContextSpec

(* Two writers share a word of the context area, or leave a gap in it, only
   after two reservations were waiting to be given back at the same time. *)
THEOREM WritersKeepApart == ContextSpec => []TiledUntilRace
<1>1. SpaceInv /\ TileInv => TiledUntilRace
  <2>1. SUFFICES ASSUME SpaceInv, TileInv, ~raced, NEW i \in 0 .. writePos - 1
                 PROVE  \E r \in Reserved : \A q \in Reserved : i \in Words(q) <=> q = r
    BY DEF TiledUntilRace
  <2>2. PICK r \in Reserved : i \in Words(r)
    BY <2>1 DEF TileInv, Covered
  <2>3. ASSUME NEW q \in Reserved, i \in Words(q), q # r
        PROVE  FALSE
    <3>1. q \in Record /\ r \in Record
      BY <2>1, ReservedFacts
    <3>2. End(q) <= r.offset \/ End(r) <= q.offset
      BY <2>1, <2>3 DEF TileInv, Apart
    <3>3. /\ i \in q.offset .. End(q) - 1 /\ i \in r.offset .. End(r) - 1
          /\ q.offset \in Nat /\ r.offset \in Nat /\ End(q) \in Nat /\ End(r) \in Nat
      BY <2>2, <2>3, <3>1, RecordNumbers
    <3>4. QED
      BY <3>2, <3>3
  <2>4. QED
    BY <2>2, <2>3
<1>2. QED
  BY <1>1, SpecSpaceInv, SpecTileInv, PTL

-----------------------------------------------------------------------------
(* What was acknowledged stays in the area.                                *)

(* The length of a record is in place before its payload is copied. *)
KeptInv ==
  /\ DOMAIN area = 0 .. AreaSize - 1
  /\ ~raced =>
       /\ \A r \in written : Kept(r)
       /\ \A t \in Writer : pc[t] = "payload" => area[call[t].offset] = LengthOf(call[t])

LEMMA WordsDisjoint ==
  ASSUME SpaceInv, TileInv, ~raced, NEW q \in Reserved, NEW r \in Reserved, q # r
  PROVE  Words(q) \cap Words(r) = {}
<1>1. q \in Record /\ r \in Record
  BY ReservedFacts
<1>2. End(q) <= r.offset \/ End(r) <= q.offset
  BY DEF TileInv, Apart
<1>3. /\ Words(q) = q.offset .. End(q) - 1 /\ Words(r) = r.offset .. End(r) - 1
      /\ q.offset \in Nat /\ r.offset \in Nat /\ End(q) \in Nat /\ End(r) \in Nat
  BY <1>1, RecordNumbers
<1>4. QED
  BY <1>2, <1>3

(* The words of a record; writing elsewhere leaves it as it was. *)
LEMMA KeptStill ==
  ASSUME NEW r \in Record, Kept(r), NEW W, NEW word, area' = Stored(W, word),
         W \cap Words(r) = {}
  PROVE  Kept(r)'
<1>1. r.offset \in Nat /\ r.len \in Nat /\ Words(r) = r.offset .. r.offset + r.len
  BY RecordNumbers DEF End, RealLength, LengthSize
<1>2. \A i \in Words(r) : i \in DOMAIN area => i \in DOMAIN area' /\ area'[i] = area[i]
  BY DEF Stored
<1>3. area[r.offset] = LengthOf(r) /\ IsWhole(r.offset, r.len)
  BY DEF Kept
<1>4. r.offset \in Words(r) /\ \A j \in r.offset + 1 .. r.offset + r.len : j \in Words(r)
  BY <1>1
<1>5. /\ r.offset \in DOMAIN area'
      /\ area'[r.offset] = area[r.offset]
      /\ area[r.offset].kind = "length"
  BY <1>2, <1>3, <1>4 DEF IsWhole
<1>6. \A j \in r.offset + 1 .. r.offset + r.len :
        j \in DOMAIN area' /\ area'[j] = DataOf(area[r.offset].rec)
  BY <1>2, <1>3, <1>4 DEF IsWhole
<1>7. QED
  BY <1>3, <1>5, <1>6 DEF Kept, IsWhole

LEMMA StoreLengthKeeps ==
  ASSUME SpaceInv, TileInv, KeptInv, NEW t \in Writer, StoreLength(t)
  PROVE  KeptInv'
<1>1. PICK own : own = call[t]
  OBVIOUS
<1>2. /\ pc[t] = "length"
      /\ area' = Stored({own.offset}, LengthOf(own))
      /\ pc' = [pc EXCEPT ![t] = "payload"]
      /\ UNCHANGED <<call, written, raced>>
  BY <1>1 DEF StoreLength
<1>3. DOMAIN area' = 0 .. AreaSize - 1
  BY <1>2 DEF KeptInv, Stored
<1>4. SUFFICES ASSUME ~raced
               PROVE  /\ \A r \in written : Kept(r)'
                      /\ \A u \in Writer : pc'[u] = "payload" =>
                           area'[call[u].offset] = LengthOf(call[u])
  BY <1>2, <1>3 DEF KeptInv
<1>5. /\ own \in Record /\ own \in Reserved /\ own.writer = t /\ own.number = calls[t]
      /\ Fits(own.offset, own.len)
  BY <1>1, <1>2 DEF SpaceInv, CallsInOrder, Busy, Reserved, Unfinished
<1>6. own.offset \in Words(own) /\ own.offset \in DOMAIN area
  <2>1. own.offset \in Nat /\ own.len \in Nat /\ Words(own) = own.offset .. own.offset + own.len
    BY <1>5, RecordNumbers DEF End, RealLength, LengthSize
  <2>2. own.offset + own.len + 1 <= AreaSize
    BY <1>5, <2>1 DEF Fits, RealLength, LengthSize
  <2>3. QED
    BY <2>1, <2>2, AreaSizeAssumption DEF KeptInv
<1>7. ASSUME NEW r \in written
      PROVE  Kept(r)'
  <2>1. r \in Record /\ r \in Reserved /\ Kept(r)
    BY <1>4 DEF SpaceInv, ContextTypeOK, Reserved, KeptInv
  <2>2. r # own
    <3>1. Busy(t) /\ calls[t] \in Nat
      BY <1>2, MaxCallsAssumption DEF Busy, SpaceInv, ContextTypeOK
    <3>2. r.writer = t => r.number < calls[t]
      BY <3>1 DEF SpaceInv, CallsInOrder
    <3>3. QED
      BY <1>5, <3>1, <3>2
  <2>3. {own.offset} \cap Words(r) = {}
    BY <1>4, <1>5, <1>6, <2>1, <2>2, WordsDisjoint
  <2>4. QED
    BY <1>2, <2>1, <2>3, KeptStill
<1>8. ASSUME NEW u \in Writer, pc'[u] = "payload"
      PROVE  area'[call[u].offset] = LengthOf(call[u])
  <2>1. CASE u = t
    BY <1>1, <1>2, <1>6, <2>1 DEF Stored
  <2>2. CASE u # t
    <3> DEFINE other == call[u]
    <3>1. pc[u] = "payload"
      BY <1>2, <1>8, <2>2 DEF SpaceInv, ContextTypeOK
    <3>2. /\ other \in Record /\ other \in Reserved /\ other.writer = u
          /\ Fits(other.offset, other.len) /\ area[other.offset] = LengthOf(other)
      BY <1>4, <3>1 DEF SpaceInv, CallsInOrder, Busy, Reserved, Unfinished, KeptInv
    <3> HIDE DEF other
    <3>3. other # own
      BY <1>5, <2>2, <3>2
    <3>4. other.offset \in Words(other) /\ other.offset \in 0 .. AreaSize - 1
      <4>1. /\ other.offset \in Nat /\ other.len \in Nat
            /\ Words(other) = other.offset .. other.offset + other.len
        BY <3>2, RecordNumbers DEF End, RealLength, LengthSize
      <4>2. other.offset + other.len + 1 <= AreaSize
        BY <3>2, <4>1 DEF Fits, RealLength, LengthSize
      <4>3. QED
        BY <4>1, <4>2, AreaSizeAssumption
    <3>5. other.offset # own.offset
      BY <1>4, <1>5, <1>6, <3>2, <3>3, <3>4, WordsDisjoint
    <3>6. area'[other.offset] = area[other.offset]
      BY <1>2, <3>4, <3>5 DEF Stored, KeptInv
    <3>7. QED
      BY <3>2, <3>6 DEF other
  <2>3. QED
    BY <2>1, <2>2
<1>9. QED
  BY <1>7, <1>8

LEMMA CopyPayloadKeeps ==
  ASSUME SpaceInv, TileInv, KeptInv, NEW t \in Writer, CopyPayload(t)
  PROVE  KeptInv'
<1>1. PICK own : own = call[t]
  OBVIOUS
<1>2. /\ pc[t] = "payload"
      /\ area' = Stored(Words(own) \ {own.offset}, DataOf(own))
      /\ pc' = [pc EXCEPT ![t] = "idle"]
      /\ written' = written \cup {own}
      /\ UNCHANGED <<call, raced>>
  BY <1>1 DEF CopyPayload
<1>3. DOMAIN area' = 0 .. AreaSize - 1
  BY <1>2 DEF KeptInv, Stored
<1>4. SUFFICES ASSUME ~raced
               PROVE  /\ \A r \in written \cup {own} : Kept(r)'
                      /\ \A u \in Writer : pc'[u] = "payload" =>
                           area'[call[u].offset] = LengthOf(call[u])
  BY <1>2, <1>3 DEF KeptInv
<1>5. /\ own \in Record /\ own \in Reserved /\ own.writer = t /\ own.number = calls[t]
      /\ Fits(own.offset, own.len) /\ area[own.offset] = LengthOf(own)
  BY <1>1, <1>2, <1>4 DEF SpaceInv, CallsInOrder, Busy, Reserved, Unfinished, KeptInv
<1>6. /\ own.offset \in Nat /\ own.len \in Nat
      /\ Words(own) = own.offset .. own.offset + own.len
      /\ Words(own) \subseteq DOMAIN area
  <2>1. own.offset \in Nat /\ own.len \in Nat /\ Words(own) = own.offset .. own.offset + own.len
    BY <1>5, RecordNumbers DEF End, RealLength, LengthSize
  <2>2. own.offset + own.len + 1 <= AreaSize
    BY <1>5, <2>1 DEF Fits, RealLength, LengthSize
  <2>3. Words(own) \subseteq 0 .. AreaSize - 1
    BY <2>1, <2>2, AreaSizeAssumption
  <2>4. QED
    BY <2>1, <2>3 DEF KeptInv
<1>7. Kept(own)'
  <2>1. /\ own.offset \in DOMAIN area' /\ area'[own.offset] = LengthOf(own)
    BY <1>2, <1>5, <1>6 DEF Stored
  <2>2. ASSUME NEW j \in own.offset + 1 .. own.offset + own.len
        PROVE  j \in DOMAIN area' /\ area'[j] = DataOf(own)
    <3>1. j \in Words(own) \ {own.offset}
      BY <1>6
    <3>2. QED
      BY <1>2, <1>6, <3>1 DEF Stored
  <2>3. area'[own.offset].kind = "length" /\ area'[own.offset].rec = own
    BY <2>1 DEF LengthOf
  <2>4. IsWhole(own.offset, own.len)'
    BY <2>1, <2>2, <2>3 DEF IsWhole
  <2>5. QED
    BY <2>1, <2>4 DEF Kept
<1>8. ASSUME NEW r \in written
      PROVE  Kept(r)'
  <2>1. r \in Record /\ r \in Reserved /\ Kept(r)
    BY <1>4 DEF SpaceInv, ContextTypeOK, Reserved, KeptInv
  <2>2. r # own
    <3>1. Busy(t) /\ calls[t] \in Nat
      BY <1>2, MaxCallsAssumption DEF Busy, SpaceInv, ContextTypeOK
    <3>2. r.writer = t => r.number < calls[t]
      BY <3>1 DEF SpaceInv, CallsInOrder
    <3>3. QED
      BY <1>5, <3>1, <3>2
  <2>3. (Words(own) \ {own.offset}) \cap Words(r) = {}
    BY <1>4, <1>5, <2>1, <2>2, WordsDisjoint
  <2>4. QED
    BY <1>2, <2>1, <2>3, KeptStill
<1>9. ASSUME NEW u \in Writer, pc'[u] = "payload"
      PROVE  area'[call[u].offset] = LengthOf(call[u])
  <2> DEFINE other == call[u]
  <2>1. u # t /\ pc[u] = "payload"
    BY <1>2, <1>9 DEF SpaceInv, ContextTypeOK
  <2>2. /\ other \in Record /\ other \in Reserved /\ other.writer = u
        /\ Fits(other.offset, other.len) /\ area[other.offset] = LengthOf(other)
    BY <1>4, <2>1 DEF SpaceInv, CallsInOrder, Busy, Reserved, Unfinished, KeptInv
  <2> HIDE DEF other
  <2>3. other # own
    BY <1>5, <2>1, <2>2
  <2>4. other.offset \in Words(other) /\ other.offset \in 0 .. AreaSize - 1
    <3>1. /\ other.offset \in Nat /\ other.len \in Nat
          /\ Words(other) = other.offset .. other.offset + other.len
      BY <2>2, RecordNumbers DEF End, RealLength, LengthSize
    <3>2. other.offset + other.len + 1 <= AreaSize
      BY <2>2, <3>1 DEF Fits, RealLength, LengthSize
    <3>3. QED
      BY <3>1, <3>2, AreaSizeAssumption
  <2>5. other.offset \notin Words(own)
    BY <1>4, <1>5, <2>2, <2>3, <2>4, WordsDisjoint
  <2>6. area'[other.offset] = area[other.offset]
    BY <1>2, <2>4, <2>5 DEF Stored, KeptInv
  <2>7. QED
    BY <2>2, <2>6 DEF other
<1>10. QED
  BY <1>7, <1>8, <1>9

(* The other steps write nothing into the area. *)
LEMMA OtherKeeps ==
  ASSUME SpaceInv, KeptInv,
         \/ \E t \in Writer : BackOff(t) \/ \E len \in RecLen : Reserve(t, len)
         \/ Crash \/ ReaderNext \/ UNCHANGED contextVars
  PROVE  KeptInv'
<1>1. UNCHANGED <<area, written>> /\ (~raced' => ~raced)
  <2>1. CASE Crash \/ ReaderNext \/ UNCHANGED contextVars
    BY <2>1 DEF Crash, ReaderNext, ReadLimit, ReadRecord, contextVars, writerVars
  <2>2. ASSUME NEW t \in Writer, BackOff(t) PROVE UNCHANGED <<area, written, raced>>
    BY <2>2 DEF BackOff
  <2>3. ASSUME NEW t \in Writer, NEW len \in RecLen, Reserve(t, len)
        PROVE  UNCHANGED <<area, written>> /\ (~raced' => ~raced)
    <3>1. raced' = (raced \/ (~Fits(writePos, len) /\ GivingBack # {}))
      BY <2>3 DEF Reserve
    <3>2. UNCHANGED <<area, written>>
      BY <2>3 DEF Reserve
    <3>3. QED
      BY <3>1, <3>2
  <2>4. QED
    BY <2>1, <2>2, <2>3
<1>2. \A u \in Writer : pc'[u] = "payload" => pc[u] = "payload" /\ call'[u] = call[u]
  <2>1. CASE Crash \/ ReaderNext \/ UNCHANGED contextVars
    BY <2>1 DEF Crash, ReaderNext, ReadLimit, ReadRecord, contextVars, writerVars
  <2>2. ASSUME NEW t \in Writer, BackOff(t)
        PROVE  \A u \in Writer : pc'[u] = "payload" => pc[u] = "payload" /\ call'[u] = call[u]
    BY <2>2 DEF BackOff, SpaceInv, ContextTypeOK
  <2>3. ASSUME NEW t \in Writer, NEW len \in RecLen, Reserve(t, len)
        PROVE  \A u \in Writer : pc'[u] = "payload" => pc[u] = "payload" /\ call'[u] = call[u]
    <3>1. /\ pc'[t] \in {"length", "backoff"}
          /\ \A u \in Writer \ {t} : pc'[u] = pc[u] /\ call'[u] = call[u]
      BY <2>3 DEF Reserve, SpaceInv, ContextTypeOK
    <3>2. QED
      BY <3>1
  <2>4. QED
    BY <2>1, <2>2, <2>3
<1>3. QED
  BY <1>1, <1>2 DEF KeptInv, Kept, IsWhole

(* Until then the words of an acknowledged record are as they were written,
   in every state. *)
THEOREM SpecKeptInv == ContextSpec => []KeptInv
<1>1. ContextInit => KeptInv
  BY DEF ContextInit, KeptInv
<1>2. SpaceInv /\ TileInv /\ KeptInv /\ [ContextNext]_contextVars => KeptInv'
  BY StoreLengthKeeps, CopyPayloadKeeps, OtherKeeps DEF ContextNext, WriterNext
<1>3. QED
  BY <1>1, <1>2, SpecSpaceInv, SpecTileInv, PTL DEF ContextSpec

(* A record whose write was acknowledged is not touched by any later write, as
   long as no two reservations were waiting to be given back at the same time
   (writeContextRecord). *)
THEOREM AcknowledgedStay == ContextSpec => []KeptUntilRace
<1>1. KeptInv => KeptUntilRace
  BY DEF KeptInv, KeptUntilRace
<1>2. QED
  BY <1>1, SpecKeptInv, PTL

-----------------------------------------------------------------------------
(* What the inspector reads.                                               *)

(* A place where a record starts or ends: no reservation extends across it. *)
Boundary(p) ==
  /\ p \in 0 .. writePos
  /\ \A r \in Reserved : End(r) <= p \/ p <= r.offset

Found == [offset : Nat, len : Nat, whole : BOOLEAN]

(* Where the record after the first k that were returned starts. *)
FoundEnd(k) == IF k = 0 THEN 0 ELSE found[k].offset + found[k].len + LengthSize

InOrder ==
  /\ found \in Seq(Found)
  /\ \A k \in 1 .. Len(found) : found[k].whole /\ found[k].offset = FoundEnd(k - 1)

(* The inspector, while in step, stands at a boundary, just behind the records
   that were returned to it, and reads up to a boundary. *)
AtBoundary ==
  inStep =>
    /\ readOffset = FoundEnd(Len(found))
    /\ Boundary(readOffset)
    /\ readPc = "fetch" => readOffset < readLimit /\ Boundary(readLimit)

ReadInv ==
  /\ inStep \in BOOLEAN
  /\ ~rejected =>
       /\ ~raced
       /\ GivingBack = {}
       /\ InOrder
       /\ AtBoundary

LEMMA InitReadInv == ContextInit => ReadInv
<1> SUFFICES ASSUME ContextInit PROVE ReadInv
  OBVIOUS
<1>1. found = <<>> /\ found \in Seq(Found) /\ Len(found) = 0
  BY DEF ContextInit
<1>2. InOrder
  BY <1>1 DEF InOrder
<1>3. Reserved = {} /\ GivingBack = {}
  BY DEF ContextInit, Reserved, Unfinished, GivingBack
<1>4. AtBoundary
  BY <1>1, <1>3 DEF ContextInit, AtBoundary, FoundEnd, Boundary
<1>5. QED
  BY <1>2, <1>3, <1>4 DEF ContextInit, ReadInv

(* A write position that only grew, and new records behind it, leave the
   inspector where it was. *)
LEMMA ReserveReads ==
  ASSUME SpaceInv, ReadInv, NEW t \in Writer, NEW len \in RecLen, Reserve(t, len)
  PROVE  ReadInv'
<1>1. UNCHANGED <<readPc, readOffset, readLimit, found, inStep>>
  BY DEF Reserve, readerVars
<1>2. rejected' = (rejected \/ ~Fits(writePos, len))
  BY DEF Reserve
<1>3. SUFFICES ASSUME ~rejected, Fits(writePos, len)
               PROVE  ~raced' /\ GivingBack' = {} /\ InOrder' /\ AtBoundary'
  BY <1>1, <1>2 DEF ReadInv
<1>4. ~raced /\ GivingBack = {} /\ InOrder /\ AtBoundary
  BY <1>3 DEF ReadInv
<1>5. ~raced'
  <2>1. raced' = (raced \/ (~Fits(writePos, len) /\ GivingBack # {}))
    BY DEF Reserve
  <2>2. QED
    BY <1>3, <1>4, <2>1
<1>6. GivingBack' = {}
  <2>1. pc' = [pc EXCEPT ![t] = "length"]
    BY <1>3 DEF Reserve
  <2>2. QED
    BY <1>4, <2>1 DEF GivingBack, SpaceInv, ContextTypeOK
<1>7. PICK new \in Record : new.offset = writePos /\ Reserved' = Reserved \cup {new}
  BY ReserveSets
<1>8. writePos \in Nat /\ writePos' \in Nat /\ writePos <= writePos'
  <2>1. writePos' = writePos + RealLength(len)
    BY DEF Reserve
  <2>2. len \in Nat /\ writePos \in Nat
    BY RecLenAssumption DEF SpaceInv, ContextTypeOK
  <2>3. QED
    BY <2>1, <2>2 DEF RealLength, LengthSize
<1>9. ASSUME NEW p, Boundary(p)
      PROVE  p \in 0 .. writePos' /\ \A r \in Reserved' : End(r) <= p \/ p <= r.offset
  <2>1. p \in 0 .. writePos
    BY <1>9 DEF Boundary
  <2>2. QED
    BY <1>7, <1>8, <1>9, <2>1 DEF Boundary
<1>10. AtBoundary'
  <2>1. inStep => /\ readOffset = FoundEnd(Len(found)) /\ Boundary(readOffset)
                  /\ readPc = "fetch" => readOffset < readLimit /\ Boundary(readLimit)
    BY <1>4 DEF AtBoundary
  <2>2. QED
    BY <1>1, <1>9, <2>1 DEF AtBoundary, FoundEnd, Boundary, End
<1>11. QED
  BY <1>1, <1>4, <1>5, <1>6, <1>10 DEF InOrder, FoundEnd

(* The other steps of the writers change no reservation. *)
LEMMA WritersRead ==
  ASSUME SpaceInv, ReadInv,
         \/ \E t \in Writer : StoreLength(t) \/ CopyPayload(t) \/ BackOff(t)
         \/ Crash \/ UNCHANGED contextVars
  PROVE  ReadInv'
<1>1. UNCHANGED <<readPc, readOffset, readLimit, found, inStep, rejected, raced>>
  BY DEF StoreLength, CopyPayload, BackOff, Crash, contextVars, writerVars, readerVars
<1>2. SUFFICES ASSUME ~rejected
               PROVE  ~raced /\ GivingBack' = {} /\ InOrder' /\ AtBoundary'
  BY <1>1 DEF ReadInv
<1>3. ~raced /\ GivingBack = {} /\ InOrder /\ AtBoundary
  BY <1>2 DEF ReadInv
<1>4. Reserved' = Reserved /\ GivingBack' = {} /\ writePos' = writePos
  <2>1. CASE Crash \/ UNCHANGED contextVars
    <3>1. UNCHANGED <<pc, call, written, writePos>>
      BY <2>1 DEF Crash, contextVars, writerVars
    <3>2. QED
      BY <1>3, <3>1 DEF Reserved, Unfinished, GivingBack
  <2>2. ASSUME NEW t \in Writer, StoreLength(t) \/ CopyPayload(t)
        PROVE  Reserved' = Reserved /\ GivingBack' = {} /\ writePos' = writePos
    <3>1. Reserved' = Reserved
      BY <2>2, StoreLengthSets, CopyPayloadSets
    <3>2. /\ pc'[t] # "backoff" /\ writePos' = writePos
          /\ \A u \in Writer \ {t} : pc'[u] = pc[u]
      BY <2>2 DEF StoreLength, CopyPayload, SpaceInv, ContextTypeOK
    <3>3. QED
      BY <1>3, <3>1, <3>2 DEF GivingBack
  <2>3. ASSUME NEW t \in Writer, BackOff(t) PROVE FALSE
    BY <1>3, <2>3 DEF BackOff, GivingBack
  <2>4. QED
    BY <2>1, <2>2, <2>3
<1>5. InOrder' /\ AtBoundary'
  BY <1>1, <1>3, <1>4 DEF InOrder, AtBoundary, FoundEnd, Boundary, End
<1>6. QED
  BY <1>3, <1>4, <1>5

(* The inspector loads the write position, which is a boundary. *)
LEMMA ReadLimitReads ==
  ASSUME SpaceInv, TileInv, ReadInv, ReadLimit
  PROVE  ReadInv'
<1>1. /\ UNCHANGED <<readOffset, found, inStep, rejected, raced, writePos>>
      /\ UNCHANGED <<pc, call, written>>
      /\ readLimit' = writePos
      /\ readPc' = "fetch" => writePos \in readOffset + 1 .. MaxAreaSize
  BY DEF ReadLimit, writerVars
<1>2. SUFFICES ASSUME ~rejected
               PROVE  ~raced /\ GivingBack' = {} /\ InOrder' /\ AtBoundary'
  BY <1>1 DEF ReadInv
<1>3. ~raced /\ GivingBack = {} /\ InOrder /\ AtBoundary
  BY <1>2 DEF ReadInv
<1>4. Reserved' = Reserved /\ GivingBack' = GivingBack
  BY <1>1 DEF Reserved, Unfinished, GivingBack
<1>5. Boundary(writePos) /\ writePos \in Nat
  <2>1. writePos \in Nat
    BY DEF SpaceInv, ContextTypeOK
  <2>2. BelowPos
    BY <1>3 DEF TileInv
  <2>3. QED
    BY <2>1, <2>2 DEF Boundary, BelowPos
<1>6. AtBoundary'
  <2>1. ASSUME inStep
        PROVE  /\ readOffset = FoundEnd(Len(found))
               /\ Boundary(readOffset)
               /\ readPc' = "fetch" => readOffset < writePos /\ Boundary(writePos)
    <3>1. readOffset = FoundEnd(Len(found)) /\ Boundary(readOffset)
      BY <1>3, <2>1 DEF AtBoundary
    <3>2. readOffset \in Nat
      BY <1>5, <3>1 DEF Boundary
    <3>3. readPc' = "fetch" => readOffset < writePos
      BY <1>1, <1>5, <3>2
    <3>4. QED
      BY <1>5, <3>1, <3>3
  <2>2. QED
    BY <1>1, <1>4, <2>1 DEF AtBoundary, FoundEnd, Boundary, End
<1>7. InOrder'
  BY <1>1, <1>3 DEF InOrder, FoundEnd
<1>8. QED
  BY <1>3, <1>4, <1>6, <1>7

(* At a boundary below the write position, and outside every reservation that
   is not finished, stands a record that was acknowledged. *)
LEMMA RecordAt ==
  ASSUME SpaceInv, TileInv, KeptInv, ~raced, NEW p, Boundary(p), p < writePos,
         \A r \in Unfinished : p \notin Words(r)
  PROVE  \E r \in written : r \in Record /\ r \in Reserved /\ r.offset = p /\ Kept(r)
<1>1. writePos \in Nat
  BY DEF SpaceInv, ContextTypeOK
<1>2. p \in 0 .. writePos - 1
  BY <1>1 DEF Boundary
<1>3. PICK r \in Reserved : p \in Words(r)
  BY <1>2 DEF TileInv, Covered
<1>4. r \in Record /\ r \in written
  BY <1>3, ReservedFacts DEF Reserved
<1>5. r.offset \in Nat /\ End(r) \in Nat /\ Words(r) = r.offset .. End(r) - 1
  BY <1>4, RecordNumbers
<1>6. End(r) <= p \/ p <= r.offset
  BY DEF Boundary
<1>7. r.offset = p
  BY <1>2, <1>3, <1>5, <1>6
<1>8. QED
  BY <1>4, <1>7 DEF KeptInv

LEMMA ReadRecordReads ==
  ASSUME SpaceInv, TileInv, KeptInv, ReadInv, ReadRecord
  PROVE  ReadInv'
<1>1. /\ UNCHANGED <<rejected, raced, writePos, pc, call, written, area, readLimit>>
      /\ readPc = "fetch"
      /\ inStep' = (inStep /\ \A r \in Unfinished : readOffset \notin Words(r))
  BY DEF ReadRecord, writerVars
<1>2. SUFFICES ASSUME ~rejected
               PROVE  ~raced /\ GivingBack' = {} /\ InOrder' /\ AtBoundary'
  BY <1>1 DEF ReadInv
<1>3. ~raced /\ GivingBack = {} /\ InOrder /\ AtBoundary
  BY <1>2 DEF ReadInv
<1>4. Reserved' = Reserved /\ GivingBack' = {}
  BY <1>1, <1>3 DEF Reserved, Unfinished, GivingBack
<1>5. CASE ~inStep'
  <2>1. found' = found
    BY <1>5 DEF ReadRecord
  <2>2. InOrder' /\ AtBoundary'
    BY <1>3, <1>5, <2>1 DEF InOrder, AtBoundary, FoundEnd
  <2>3. QED
    BY <1>3, <1>4, <2>2
<1>6. CASE inStep'
  <2>1. inStep /\ \A r \in Unfinished : readOffset \notin Words(r)
    BY <1>1, <1>6
  <2>2. /\ readOffset = FoundEnd(Len(found)) /\ Boundary(readOffset)
        /\ readOffset < readLimit /\ Boundary(readLimit)
    BY <1>1, <1>3, <2>1 DEF AtBoundary
  <2>3. writePos \in Nat /\ readOffset \in Nat /\ readLimit \in Nat /\ readLimit <= writePos
        /\ readOffset < writePos
    BY <2>2 DEF SpaceInv, ContextTypeOK, Boundary
  <2>4. PICK r \in written : r \in Record /\ r \in Reserved /\ r.offset = readOffset /\ Kept(r)
    BY <1>3, <2>1, <2>2, <2>3, RecordAt
  <2>5. r.len \in Nat /\ End(r) = readOffset + LengthSize + r.len /\ LengthSize = 1
    BY <2>3, <2>4, RecordNumbers DEF End, RealLength, LengthSize
  <2>6. LengthAt(readOffset) = {r.len}
    <3>1. /\ readOffset \in DOMAIN area /\ area[readOffset] = LengthOf(r)
      BY <2>4 DEF Kept, IsWhole
    <3>2. area[readOffset].kind = "length" /\ area[readOffset].rec = r
      BY <3>1 DEF LengthOf
    <3>3. QED
      BY <3>1, <3>2 DEF LengthAt
  <2>7. End(r) <= readLimit
    <3>1. End(r) <= readLimit \/ readLimit <= r.offset
      BY <2>2, <2>4 DEF Boundary
    <3>2. QED
      BY <2>2, <2>3, <2>4, <3>1
  <2> DEFINE new == [offset |-> readOffset, len |-> r.len, whole |-> TRUE]
  <2>8. readPc' = "load" /\ readOffset' = End(r) /\ found' = Append(found, new)
    <3>1. readOffset + LengthSize + r.len \in 0 .. readLimit
      BY <2>3, <2>5, <2>7
    <3>2. IsWhole(readOffset, r.len) = TRUE
      BY <2>4 DEF Kept, IsWhole
    <3>3. /\ readPc' = "load" /\ readOffset' = NextOffset(r.len)
          /\ found' = Append(found, [offset |-> readOffset, len |-> r.len,
                                     whole |-> IsWhole(readOffset, r.len)])
      BY <1>6, <2>6, <3>1 DEF ReadRecord
    <3>4. QED
      BY <2>5, <3>2, <3>3 DEF NextOffset
  <2>9. found \in Seq(Found) /\ Len(found) \in Nat /\ new \in Found
    BY <1>3, <2>3, <2>5 DEF InOrder, Found
  <2>10. new.offset = readOffset /\ new.len = r.len /\ new.whole
    OBVIOUS
  <2> HIDE DEF new
  <2>11. /\ found' \in Seq(Found) /\ Len(found') = Len(found) + 1
         /\ \A k \in 1 .. Len(found) : found'[k] = found[k]
         /\ found'[Len(found) + 1] = new
    <3> HIDE DEF Found
    <3>1. QED
      BY <2>8, <2>9
  <2>12. \A k \in 0 .. Len(found) : FoundEnd(k)' = FoundEnd(k)
    BY <2>9, <2>11 DEF FoundEnd
  <2>13. InOrder'
    <3>1. ASSUME NEW k \in 1 .. Len(found) + 1
          PROVE  found'[k].whole /\ found'[k].offset = FoundEnd(k - 1)'
      <4>1. CASE k \in 1 .. Len(found)
        <5>1. found[k].whole /\ found[k].offset = FoundEnd(k - 1)
          BY <1>3, <4>1 DEF InOrder
        <5>2. k - 1 \in 0 .. Len(found)
          BY <2>9
        <5>3. QED
          BY <2>11, <2>12, <4>1, <5>1, <5>2
      <4>2. CASE k = Len(found) + 1
        <5>1. k - 1 = Len(found) /\ Len(found) \in 0 .. Len(found)
          BY <2>9, <4>2
        <5>2. QED
          BY <2>2, <2>10, <2>11, <2>12, <4>2, <5>1
      <4>3. QED
        BY <2>9, <4>1, <4>2
    <3>2. QED
      BY <2>11, <3>1 DEF InOrder
  <2>14. Boundary(End(r))
    <3>1. End(r) \in 0 .. writePos
      BY <2>3, <2>5, <2>7
    <3>2. ASSUME NEW q \in Reserved PROVE End(q) <= End(r) \/ End(r) <= q.offset
      <4>1. q \in Record
        BY ReservedFacts
      <4>2. q.offset \in Nat /\ End(q) \in Nat /\ q.offset < End(q)
        BY <4>1, RecordNumbers
      <4>3. q # r => End(q) <= r.offset \/ End(r) <= q.offset
        BY <1>3, <2>4 DEF TileInv, Apart
      <4>4. QED
        BY <2>3, <2>4, <2>5, <4>2, <4>3
    <3>3. QED
      BY <3>1, <3>2 DEF Boundary
  <2>15. FoundEnd(Len(found))' = End(r)
    <3>1. Len(found') # 0 /\ found'[Len(found')] = new
      BY <2>9, <2>11
    <3>2. new.offset + new.len + LengthSize = End(r)
      BY <2>3, <2>5, <2>10
    <3>3. QED
      BY <3>1, <3>2 DEF FoundEnd
  <2>16. AtBoundary'
    BY <1>1, <1>4, <2>8, <2>14, <2>15 DEF AtBoundary, Boundary, End
  <2>17. QED
    BY <1>3, <1>4, <2>13, <2>16
<1>7. inStep' \in BOOLEAN
  BY <1>1
<1>8. QED
  BY <1>5, <1>6

(* What readContextRecord has found is a row of whole records, in every
   state. *)
THEOREM SpecReadInv == ContextSpec => []ReadInv
<1>1. ContextInit => ReadInv
  BY InitReadInv
<1>2. SpaceInv /\ TileInv /\ KeptInv /\ ReadInv /\ [ContextNext]_contextVars => ReadInv'
  BY ReserveReads, WritersRead, ReadLimitReads, ReadRecordReads
     DEF ContextNext, WriterNext, ReaderNext
<1>3. QED
  BY <1>1, <1>2, SpecSpaceInv, SpecTileInv, SpecKeptInv, PTL DEF ContextSpec

(* An inspector gets whole records, from the first on and with none left out,
   however its reads and the writers' steps interleave and wherever the process
   crashes, up to the first record it finds half written (readContextRecord
   against writeContextRecord). *)
THEOREM InspectorReadsInOrder == ContextSpec => []ReadsInOrder
<1>1. ReadInv => ReadsInOrder
  <2>1. SUFFICES ASSUME ReadInv, ~rejected, NEW k \in 1 .. Len(found)
                 PROVE  /\ found[k].whole
                        /\ found[k].offset =
                             IF k = 1 THEN 0
                             ELSE found[k - 1].offset + found[k - 1].len + LengthSize
    BY DEF ReadsInOrder
  <2>2. found[k].whole /\ found[k].offset = FoundEnd(k - 1) /\ Len(found) \in Nat
    BY <2>1 DEF ReadInv, InOrder
  <2>3. k - 1 = 0 <=> k = 1
    BY <2>2
  <2>4. QED
    BY <2>2, <2>3 DEF FoundEnd
<1>2. QED
  BY <1>1, SpecReadInv, PTL

=============================================================================
