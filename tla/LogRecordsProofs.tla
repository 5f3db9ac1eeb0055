-------------------------- MODULE LogRecordsProofs --------------------------
(***************************************************************************)
(* Theorems about module LogRecords, for any threads and messages, however *)
(* deep they nest and however often the library is terminated.             *)
(*                                                                         *)
(* The size of a buffer that was enlarged is left as DoubledSize chooses   *)
(* it: that a doubling which is large enough exists rests on exponents,    *)
(* which the provers do not know.                                          *)
(***************************************************************************)
EXTENDS LogRecords, SequenceTheorems, TLAPS

-----------------------------------------------------------------------------
(* Types.                                                                  *)

Sizes == {FixedSize} \cup {DoubledSize(n) : n \in Nat}

Buffer == [size : Sizes, offset : Nat, full : BOOLEAN, text : Seq(Message \cup {Leftover})]

Call == [msg : Message, record : Nat \ {0}]

Typed ==
  /\ key \in Nat /\ terms \in Nat /\ key \in {0, terms + 1}
  /\ records \in [Thread -> Seq(Buffer)]
  /\ tls \in [Thread -> Nat]
  /\ calls \in [Thread -> Seq(Call)]
  /\ state \in [Thread -> States]
  /\ lost \in [Thread -> Seq(Message)]

-----------------------------------------------------------------------------
(* Buffers.                                                                *)

LEMMA NewBufferUnused == NewBuffer \in Buffer /\ ~InUse(NewBuffer)
BY DEF NewBuffer, Buffer, Sizes, InUse

LEMMA ResetKeeps ==
  ASSUME NEW b \in Buffer
  PROVE  /\ ResetBuffer(b) \in Buffer
         /\ ResetBuffer(b).offset = b.offset
         /\ ~InUse(b) => ResetBuffer(b).text = <<>>
<1>1. <<>> \in Seq(Message \cup {Leftover}) /\ <<Leftover>> \in Seq(Message \cup {Leftover})
  OBVIOUS
<1>2. PICK s \in Seq(Message \cup {Leftover}) :
        s = IF b.offset > 0 THEN <<Leftover>> ELSE <<>>
  BY <1>1
<1>3. ResetBuffer(b) = [b EXCEPT !.size = FixedSize, !.text = s]
  BY <1>2 DEF ResetBuffer
<1>4. FixedSize \in Sizes
  BY DEF Sizes
<1>5. ResetBuffer(b) \in Buffer /\ ResetBuffer(b).offset = b.offset /\ ResetBuffer(b).text = s
  BY <1>3, <1>4 DEF Buffer
<1>6. QED
  BY <1>2, <1>5 DEF InUse

LEMMA EnsureLengthKeeps ==
  ASSUME NEW b \in Buffer, NEW len \in Nat
  PROVE  /\ EnsureLength(b, len) \in Buffer
         /\ EnsureLength(b, len).offset = b.offset
         /\ EnsureLength(b, len).text = b.text
<1>1. b.offset + len \in Nat
  BY DEF Buffer
<1>2. DoubledSize(b.offset + len) \in Sizes
  BY <1>1 DEF Sizes
<1>3. QED
  BY <1>2 DEF EnsureLength, Resize, Buffer

(* A message is appended whole, with room for the null, or not at all. *)
LEMMA Appended ==
  ASSUME NEW b \in Buffer, ~InUse(b), b.text = <<>>, NEW m \in Message, NEW len \in Nat \ {0},
         NEW a, a = AppendV(b, m, len)
  PROVE  /\ a \in Buffer
         /\ InUse(a) => a.text = <<m>> /\ a.offset < a.size
<1>1. ASSUME NEW c \in Buffer, c.offset = 0, c.text = <<>>, Fits(c, len)
      PROVE  /\ Written(c, m, len) \in Buffer
             /\ Written(c, m, len).text = <<m>>
             /\ Written(c, m, len).offset < Written(c, m, len).size
  <2>1. /\ Written(c, m, len) = [c EXCEPT !.offset = c.offset + len, !.text = <<m>>]
        /\ c.offset + len \in Nat
        /\ <<m>> \in Seq(Message \cup {Leftover})
    BY <1>1 DEF Written
  <2>2. QED
    BY <1>1, <2>1 DEF Buffer, Fits
<1>2. b.offset = 0
  BY DEF InUse, Buffer
<1> DEFINE grown == EnsureLength(b, len)
<1>3. grown \in Buffer /\ grown.offset = 0 /\ grown.text = <<>>
  BY <1>2, EnsureLengthKeeps
<1> HIDE DEF grown
<1>4. \/ a = b \/ a = grown
      \/ Fits(b, len) /\ a = Written(b, m, len)
      \/ Fits(grown, len) /\ a = Written(grown, m, len)
  BY DEF AppendV, grown
<1>5. CASE a = b \/ a = grown
  BY <1>2, <1>3, <1>5 DEF InUse
<1>6. QED
  BY <1>1, <1>2, <1>3, <1>4, <1>5

-----------------------------------------------------------------------------
(* The inductive invariant.                                                *)

(* A delivery has a record of its own in the chain, the deeper the higher,
   which holds its message. *)
Holds(chain, c) ==
  /\ c.record <= Len(chain)
  /\ InUse(chain[c.record])
  /\ chain[c.record].text = <<c.msg>>
  /\ chain[c.record].offset < chain[c.record].size

Nested ==
  \A t \in Thread :
    /\ \A i \in 1 .. Len(calls[t]) : Holds(records[t], calls[t][i])
    /\ \A i, j \in 1 .. Len(calls[t]) :
         i < j => calls[t][i].record < calls[t][j].record

(* The head record of a thread is freed, or will be, or its key is gone. *)
HeadKept ==
  \A t \in Thread : records[t] # <<>> =>
    \/ t \in freed
    \/ tls[t] \in 1 .. terms
    \/ Stored(t)

GoneQuietly ==
  \A t \in Thread : state[t] = "gone" =>
    /\ calls[t] = <<>>
    /\ records[t] # <<>> => t \in freed \/ tls[t] \in 1 .. terms

IndInv == Typed /\ Nested /\ ChainBounded /\ HeadKept /\ GoneQuietly

-----------------------------------------------------------------------------
(* Steps.                                                                  *)

LEMMA HoldsStill ==
  ASSUME NEW chain, NEW longer, NEW c, Holds(chain, c), c.record <= Len(longer),
         longer[c.record] = chain[c.record]
  PROVE  Holds(longer, c)
BY DEF Holds

LEMMA InitIndInv == Init => IndInv
<1> SUFFICES ASSUME Init PROVE IndInv
  OBVIOUS
<1>1. Typed
  BY DEF Init, Typed, States
<1>2. Nested /\ ChainBounded
  BY DEF Init, Nested, ChainBounded, Top
<1>3. HeadKept /\ GoneQuietly
  BY DEF Init, HeadKept, GoneQuietly
<1>4. QED
  BY <1>1, <1>2, <1>3 DEF IndInv

(* Where a message is formatted: a record that is not in use, at the top of a
   chain that is the old one or has one record more. *)
Extends(t, chain) ==
  /\ chain \in Seq(Buffer) /\ Len(chain) \in Nat \ {0}
  /\ Len(chain) \in {Len(records[t]), Len(records[t]) + 1}
  /\ \A i \in 1 .. Len(chain) - 1 : i <= Len(records[t]) /\ chain[i] = records[t][i]
  /\ Len(chain) <= Len(records[t]) => ~InUse(records[t][Len(chain)])
  /\ ~InUse(chain[Len(chain)]) /\ chain[Len(chain)] \in Buffer

LEMMA TopUnused ==
  ASSUME Typed, NEW t \in Thread, NEW chain, chain = Pushed(WithHead(t).chain)
  PROVE  Extends(t, chain)
<1>1. records[t] \in Seq(Buffer) /\ Len(records[t]) \in Nat
  BY DEF Typed
<1>2. CASE records[t] = <<>>
  <2>1. WithHead(t).chain = <<NewBuffer>>
    BY <1>2 DEF WithHead
  <2>2. chain = <<NewBuffer>>
    BY <2>1, NewBufferUnused DEF Pushed
  <2>3. QED
    BY <1>2, <2>2, NewBufferUnused DEF Extends
<1>3. CASE records[t] # <<>>
  <2>1. WithHead(t).chain = records[t]
    BY <1>3 DEF WithHead
  <2>2. Len(records[t]) >= 1
    BY <1>1, <1>3
  <2>3. CASE InUse(records[t][Len(records[t])])
    <3>1. chain = Append(records[t], NewBuffer)
      BY <2>1, <2>3 DEF Pushed
    <3>2. /\ chain \in Seq(Buffer) /\ Len(chain) = Len(records[t]) + 1
          /\ \A i \in 1 .. Len(records[t]) : chain[i] = records[t][i]
          /\ chain[Len(records[t]) + 1] = NewBuffer
      BY <1>1, <3>1, NewBufferUnused
    <3>3. QED
      BY <1>1, <3>2, NewBufferUnused DEF Extends
  <2>4. CASE ~InUse(records[t][Len(records[t])])
    <3>1. chain = records[t]
      BY <2>1, <2>4 DEF Pushed
    <3>2. QED
      BY <1>1, <2>2, <2>4, <3>1 DEF Extends
  <2>5. QED
    BY <2>3, <2>4
<1>4. QED
  BY <1>2, <1>3

(* What logMsg does, in terms of that chain and the buffer it ends up with. *)
Formats(t, m, chain, b) ==
  /\ Extends(t, chain)
  /\ b \in Buffer
  /\ InUse(b) => b.text = <<m>> /\ b.offset < b.size
  /\ records' = [records EXCEPT ![t] = [chain EXCEPT ![Len(chain)] = b]]
  /\ tls' = [tls EXCEPT ![t] = IF records[t] = <<>> THEN key ELSE tls[t]]
  /\ IF InUse(b)
       THEN /\ calls' = [calls EXCEPT ![t] = Append(@, [msg |-> m, record |-> Len(chain)])]
            /\ lost' = lost
       ELSE /\ lost' = [lost EXCEPT ![t] = Append(@, m)]
            /\ calls' = calls

LEMMA LogMsgFormats ==
  ASSUME Typed, NEW t \in Thread, NEW m \in Message, LogMsg(t, m)
  PROVE  \E chain, b : Formats(t, m, chain, b)
<1> DEFINE head == WithHead(t)
           chain == Pushed(head.chain)
           r == ResetBuffer(chain[Len(chain)])
           b == AppendV(r, m, Length[m])
<1>1. Extends(t, chain)
  BY TopUnused
<1>2. /\ records' = [records EXCEPT ![t] = [chain EXCEPT ![Len(chain)] = b]]
      /\ tls' = [tls EXCEPT ![t] = head.stored]
      /\ IF InUse(b)
           THEN /\ calls' = [calls EXCEPT ![t] = Append(@, [msg |-> m, record |-> Len(chain)])]
                /\ lost' = lost
           ELSE /\ lost' = [lost EXCEPT ![t] = Append(@, m)]
                /\ calls' = calls
  BY DEF LogMsg
<1>3. head.stored = IF records[t] = <<>> THEN key ELSE tls[t]
  BY DEF WithHead
<1> HIDE DEF head, chain
<1>4. r \in Buffer /\ ~InUse(r) /\ r.text = <<>>
  BY <1>1, ResetKeeps DEF InUse, Extends
<1> HIDE DEF r
<1>5. b \in Buffer /\ (InUse(b) => b.text = <<m>> /\ b.offset < b.size)
  BY <1>4, LogAssumption, Appended
<1> HIDE DEF b
<1>6. Formats(t, m, chain, b)
  BY <1>1, <1>2, <1>3, <1>5 DEF Formats
<1>7. QED
  BY <1>6

LEMMA LogMsgStep ==
  ASSUME IndInv, NEW t \in Thread, NEW m \in Message, LogMsg(t, m)
  PROVE  IndInv'
<1>1. Typed /\ Nested /\ ChainBounded /\ HeadKept /\ GoneQuietly
  BY DEF IndInv
<1>2. PICK chain, b : Formats(t, m, chain, b)
  BY <1>1, LogMsgFormats
<1> DEFINE n == Len(chain)
<1>3. /\ n \in Nat \ {0} /\ n \in {Len(records[t]), Len(records[t]) + 1}
      /\ chain \in Seq(Buffer) /\ b \in Buffer
      /\ \A i \in 1 .. n - 1 : i <= Len(records[t]) /\ chain[i] = records[t][i]
      /\ n <= Len(records[t]) => ~InUse(records[t][n])
      /\ InUse(b) => b.text = <<m>> /\ b.offset < b.size
  BY <1>2 DEF Formats, Extends
<1>4. records' = [records EXCEPT ![t] = [chain EXCEPT ![n] = b]]
  BY <1>2 DEF Formats
<1>5. tls' = [tls EXCEPT ![t] = IF records[t] = <<>> THEN key ELSE tls[t]]
  BY <1>2 DEF Formats
<1>6. IF InUse(b)
        THEN /\ calls' = [calls EXCEPT ![t] = Append(@, [msg |-> m, record |-> n])]
             /\ lost' = lost
        ELSE /\ lost' = [lost EXCEPT ![t] = Append(@, m)]
             /\ calls' = calls
  BY <1>2 DEF Formats
<1> HIDE DEF n
<1>7. /\ UNCHANGED <<key, terms, freed, state>>
      /\ t \notin freed /\ state[t] # "gone"
      /\ key # 0 \/ records[t] # <<>>
  BY DEF LogMsg, CanLog
<1>8. /\ records[t] \in Seq(Buffer) /\ Len(records[t]) \in Nat
      /\ calls[t] \in Seq(Call) /\ Len(calls[t]) \in Nat
      /\ lost[t] \in Seq(Message) /\ Len(lost[t]) \in Nat
  BY <1>1 DEF Typed
<1>9. \A u \in Thread \ {t} : /\ records'[u] = records[u] /\ tls'[u] = tls[u]
                              /\ calls'[u] = calls[u] /\ lost'[u] = lost[u]
  BY <1>1, <1>4, <1>5, <1>6 DEF Typed
<1>10. /\ records'[t] \in Seq(Buffer) /\ Len(records'[t]) = n
       /\ \A i \in 1 .. n - 1 : i <= Len(records[t]) /\ records'[t][i] = records[t][i]
       /\ records'[t][n] = b
  <2>1. records'[t] = [chain EXCEPT ![n] = b]
    BY <1>1, <1>4 DEF Typed
  <2>2. QED
    BY <1>3, <2>1 DEF n
<1> DEFINE c == [msg |-> m, record |-> n]
<1>11. c \in Call /\ c.msg = m /\ c.record = n
  BY <1>3 DEF Call
<1> HIDE DEF c
<1>12. \/ /\ InUse(b)
          /\ calls' = [calls EXCEPT ![t] = Append(calls[t], c)]
          /\ lost' = lost
       \/ /\ calls' = calls
          /\ lost' = [lost EXCEPT ![t] = Append(lost[t], m)]
  BY <1>6 DEF c
<1>13. /\ Append(calls[t], c) \in Seq(Call) /\ Len(Append(calls[t], c)) = Len(calls[t]) + 1
       /\ \A i \in 1 .. Len(calls[t]) : Append(calls[t], c)[i] = calls[t][i]
       /\ Append(calls[t], c)[Len(calls[t]) + 1] = c
       /\ Append(lost[t], m) \in Seq(Message) /\ Len(Append(lost[t], m)) = Len(lost[t]) + 1
  BY <1>8, <1>11, AppendProperties
<1>14. \/ /\ InUse(b)
          /\ calls'[t] = Append(calls[t], c)
          /\ lost'[t] = lost[t]
       \/ /\ calls'[t] = calls[t]
          /\ lost'[t] = Append(lost[t], m)
  BY <1>1, <1>12 DEF Typed
<1>15. Typed'
  <2>1. records' \in [Thread -> Seq(Buffer)]
    BY <1>1, <1>4, <1>10 DEF Typed
  <2>2. calls' \in [Thread -> Seq(Call)]
    BY <1>1, <1>12, <1>13 DEF Typed
  <2>3. lost' \in [Thread -> Seq(Message)]
    BY <1>1, <1>12, <1>13 DEF Typed
  <2>4. tls' \in [Thread -> Nat]
    BY <1>1, <1>5 DEF Typed
  <2>5. QED
    BY <1>1, <1>7, <2>1, <2>2, <2>3, <2>4 DEF Typed
<1>16. Nested'
  <2>1. ASSUME NEW i \in 1 .. Len(calls[t])
        PROVE  /\ calls[t][i].record \in 1 .. n - 1
               /\ Holds(records'[t], calls[t][i])
    <3>1. calls[t][i] \in Call
      BY <1>8
    <3>2. calls[t][i].record \in Nat \ {0}
      BY <3>1 DEF Call
    <3>3. Holds(records[t], calls[t][i])
      BY <1>1 DEF Nested
    <3>4. calls[t][i].record <= Len(records[t]) /\ InUse(records[t][calls[t][i].record])
      BY <3>3 DEF Holds
    <3>5. calls[t][i].record \in 1 .. n - 1
      <4> DEFINE q == calls[t][i].record
                 old == Len(records[t])
      <4>1. q \in Nat \ {0} /\ q <= old /\ old \in Nat /\ n \in {old, old + 1}
        BY <1>3, <1>8, <3>2, <3>4
      <4>2. q = n => ~InUse(records[t][q])
        BY <1>3, <4>1
      <4>3. q # n
        BY <3>4, <4>2
      <4> HIDE DEF q, old
      <4>4. q \in 1 .. n - 1
        BY <4>1, <4>3
      <4>5. QED
        BY <4>4 DEF q
    <3>6. calls[t][i].record <= Len(records'[t])
      BY <1>3, <1>10, <3>5
    <3>7. records'[t][calls[t][i].record] = records[t][calls[t][i].record]
      BY <1>10, <3>5
    <3>8. QED
      BY <3>3, <3>5, <3>6, <3>7, HoldsStill
  <2>2. InUse(b) => Holds(records'[t], c)
    BY <1>3, <1>10, <1>11 DEF Holds
  <2>3. ASSUME NEW i \in 1 .. Len(calls'[t])
        PROVE  \/ i \in 1 .. Len(calls[t]) /\ calls'[t][i] = calls[t][i]
               \/ i = Len(calls[t]) + 1 /\ calls'[t][i] = c /\ InUse(b)
    BY <1>8, <1>13, <1>14
  <2>4. \A i \in 1 .. Len(calls'[t]) : Holds(records'[t], calls'[t][i])
    BY <2>1, <2>2, <2>3
  <2>5. ASSUME NEW i \in 1 .. Len(calls'[t]), NEW j \in 1 .. Len(calls'[t]), i < j
        PROVE  calls'[t][i].record < calls'[t][j].record
    <3>1. i \in 1 .. Len(calls[t]) /\ calls'[t][i] = calls[t][i]
      BY <1>8, <1>13, <1>14, <2>3, <2>5
    <3>2. CASE j \in 1 .. Len(calls[t]) /\ calls'[t][j] = calls[t][j]
      BY <1>1, <2>5, <3>1, <3>2 DEF Nested
    <3>3. CASE calls'[t][j] = c
      BY <1>3, <1>11, <2>1, <3>1, <3>3
    <3>4. QED
      BY <2>3, <3>2, <3>3
  <2>6. ASSUME NEW u \in Thread \ {t}
        PROVE  /\ \A i \in 1 .. Len(calls'[u]) : Holds(records'[u], calls'[u][i])
               /\ \A i, j \in 1 .. Len(calls'[u]) :
                    i < j => calls'[u][i].record < calls'[u][j].record
    BY <1>1, <1>9 DEF Nested
  <2>7. QED
    BY <2>4, <2>5, <2>6 DEF Nested
<1>17. ChainBounded'
  <2>1. Len(records[t]) <= 1 + Len(calls[t]) + Len(lost[t])
    BY <1>1 DEF ChainBounded, Top
  <2>2. \/ Len(calls'[t]) = Len(calls[t]) + 1 /\ Len(lost'[t]) = Len(lost[t])
        \/ Len(calls'[t]) = Len(calls[t]) /\ Len(lost'[t]) = Len(lost[t]) + 1
    BY <1>13, <1>14
  <2>3. n <= 1 + Len(calls'[t]) + Len(lost'[t])
    <3> DEFINE k == Len(calls[t])
               l == Len(lost[t])
               kk == Len(calls'[t])
               ll == Len(lost'[t])
               old == Len(records[t])
    <3>1. /\ n \in Nat /\ k \in Nat /\ l \in Nat /\ old \in Nat
          /\ n \in {old, old + 1} /\ old <= 1 + k + l
      BY <1>3, <1>8, <2>1
    <3>2. \/ kk = k + 1 /\ ll = l
          \/ kk = k /\ ll = l + 1
      BY <2>2
    <3> HIDE DEF k, l, kk, ll, old
    <3>3. n <= 1 + kk + ll
      BY <3>1, <3>2
    <3>4. QED
      BY <3>3 DEF kk, ll
  <2>4. QED
    BY <1>1, <1>9, <1>10, <2>3 DEF ChainBounded, Top
<1>18. HeadKept'
  <2>1. tls'[t] = IF records[t] = <<>> THEN key ELSE tls[t]
    BY <1>1, <1>5 DEF Typed
  <2>2. t \in freed' \/ tls'[t] \in 1 .. terms' \/ Stored(t)'
    BY <1>1, <1>7, <2>1 DEF HeadKept, Stored
  <2>3. QED
    BY <1>1, <1>7, <1>9, <2>2 DEF HeadKept, Stored
<1>19. GoneQuietly'
  BY <1>1, <1>7, <1>9 DEF GoneQuietly
<1>20. QED
  BY <1>15, <1>16, <1>17, <1>18, <1>19 DEF IndInv

(* The record at the top is removed, the one that was delivered keeps nothing:
   the deliveries under it still have theirs. *)
LEMMA HandlerReturnsStep ==
  ASSUME IndInv, NEW t \in Thread, HandlerReturns(t)
  PROVE  IndInv'
<1>1. Typed /\ Nested /\ ChainBounded /\ HeadKept /\ GoneQuietly
  BY DEF IndInv
<1>2. /\ records[t] \in Seq(Buffer) /\ Len(records[t]) \in Nat
      /\ calls[t] \in Seq(Call) /\ Len(calls[t]) \in Nat
      /\ Len(lost[t]) \in Nat
  BY <1>1 DEF Typed
<1> DEFINE k == Len(calls[t])
           n == Len(records[t])
           r == calls[t][k].record
           reset == [records[t] EXCEPT ![r] = ResetBuffer(@)]
<1>3. k \in Nat \ {0} /\ calls[t][k] \in Call
  BY <1>2 DEF HandlerReturns
<1>4. r \in 1 .. n
  <2>1. r \in Nat \ {0}
    BY <1>3 DEF Call
  <2>2. r <= n
    BY <1>1, <1>3 DEF Nested, Holds
  <2>3. QED
    BY <1>2, <2>1, <2>2
<1>5. /\ records' = [records EXCEPT ![t] = Popped(reset)]
      /\ calls' = [calls EXCEPT ![t] = SubSeq(calls[t], 1, k - 1)]
      /\ UNCHANGED <<key, terms, tls, freed, state, lost>>
  BY DEF HandlerReturns
<1>6. reset \in Seq(Buffer) /\ Len(reset) = n /\ \A i \in 1 .. n : i # r => reset[i] = records[t][i]
  <2>1. records[t][r] \in Buffer
    BY <1>2, <1>4
  <2>2. ResetBuffer(records[t][r]) \in Buffer
    BY <2>1, ResetKeeps
  <2>3. QED
    BY <1>2, <1>4, <2>2
<1> HIDE DEF reset
<1> DEFINE top == IF n > 1 THEN n - 1 ELSE n
           popped == Popped(reset)
<1>7. popped \in Seq(Buffer) /\ Len(popped) = top /\ \A i \in 1 .. top : popped[i] = reset[i]
  <2>1. CASE n > 1
    BY <1>2, <1>6, <2>1 DEF Popped
  <2>2. CASE ~(n > 1)
    BY <1>2, <1>6, <2>2 DEF Popped
  <2>3. QED
    BY <2>1, <2>2
<1>8. /\ SubSeq(calls[t], 1, k - 1) \in Seq(Call) /\ Len(SubSeq(calls[t], 1, k - 1)) = k - 1
      /\ \A i \in 1 .. k - 1 : SubSeq(calls[t], 1, k - 1)[i] = calls[t][i]
  BY <1>2, <1>3
<1> HIDE DEF popped
<1>9. records' = [records EXCEPT ![t] = popped] /\ records'[t] = popped
  BY <1>1, <1>5 DEF Typed, popped
<1>10. /\ calls'[t] \in Seq(Call) /\ Len(calls'[t]) = k - 1
       /\ \A i \in 1 .. k - 1 : calls'[t][i] = calls[t][i]
  BY <1>1, <1>5, <1>8 DEF Typed
<1>11. \A u \in Thread \ {t} : records'[u] = records[u] /\ calls'[u] = calls[u]
  BY <1>1, <1>5, <1>9 DEF Typed
<1>12. Typed'
  <2>1. records' \in [Thread -> Seq(Buffer)]
    BY <1>1, <1>7, <1>9 DEF Typed
  <2>2. calls' \in [Thread -> Seq(Call)]
    BY <1>1, <1>5, <1>8 DEF Typed
  <2>3. QED
    BY <1>1, <1>5, <2>1, <2>2 DEF Typed
<1>13. Nested'
  <2>1. ASSUME NEW i \in 1 .. k - 1 PROVE Holds(records'[t], calls'[t][i])
    <3>1. i \in 1 .. k /\ k \in 1 .. k /\ i < k
      BY <1>3
    <3>2. Holds(records[t], calls[t][i]) /\ calls[t][i].record < r
      BY <1>1, <3>1 DEF Nested
    <3>3. calls[t][i] \in Call
      BY <1>2, <3>1
    <3>4. calls[t][i].record \in Nat \ {0}
      BY <3>3 DEF Call
    <3>5. calls[t][i].record \in 1 .. top /\ calls[t][i].record \in 1 .. n /\ calls[t][i].record # r
      <4> DEFINE q == calls[t][i].record
      <4>1. q \in Nat \ {0} /\ q < r /\ r \in 1 .. n /\ n \in Nat
        BY <1>2, <1>4, <3>2, <3>4
      <4> HIDE DEF q, r, n
      <4>2. q \in 1 .. top /\ q \in 1 .. n /\ q # r
        BY <4>1
      <4>3. QED
        BY <4>2 DEF q
    <3>6. records'[t][calls[t][i].record] = records[t][calls[t][i].record]
      BY <1>6, <1>7, <1>9, <3>5
    <3>7. calls[t][i].record <= Len(records'[t])
      BY <1>7, <1>9, <3>5
    <3>8. QED
      BY <1>10, <3>2, <3>6, <3>7, HoldsStill
  <2>2. \A i, j \in 1 .. k - 1 : i < j => calls'[t][i].record < calls'[t][j].record
    <3>1. ASSUME NEW i \in 1 .. k - 1, NEW j \in 1 .. k - 1, i < j
          PROVE  calls'[t][i].record < calls'[t][j].record
      <4>1. i \in 1 .. k /\ j \in 1 .. k
        BY <1>3
      <4>2. calls[t][i].record < calls[t][j].record
        BY <1>1, <3>1, <4>1 DEF Nested
      <4>3. QED
        BY <1>10, <4>2
    <3>2. QED
      BY <3>1
  <2>3. \A u \in Thread \ {t} :
          /\ \A i \in 1 .. Len(calls'[u]) : Holds(records'[u], calls'[u][i])
          /\ \A i, j \in 1 .. Len(calls'[u]) :
               i < j => calls'[u][i].record < calls'[u][j].record
    BY <1>1, <1>11 DEF Nested
  <2>4. QED
    BY <1>10, <2>1, <2>2, <2>3 DEF Nested
<1>14. ChainBounded'
  <2>1. n <= 1 + k + Len(lost[t])
    BY <1>1 DEF ChainBounded, Top
  <2>2. top <= 1 + (k - 1) + Len(lost[t])
    <3> DEFINE l == Len(lost[t])
    <3>1. n \in Nat /\ k \in Nat \ {0} /\ l \in Nat /\ n <= 1 + k + l
      BY <1>2, <1>3, <2>1
    <3> HIDE DEF n, k, l
    <3>2. top <= 1 + (k - 1) + l
      BY <3>1
    <3>3. QED
      BY <3>2 DEF l
  <2>3. Len(records'[t]) <= 1 + Len(calls'[t]) + Len(lost[t])
    BY <1>7, <1>9, <1>10, <2>2
  <2>4. QED
    BY <1>1, <1>5, <1>11, <2>3 DEF ChainBounded, Top
<1>15. HeadKept' /\ GoneQuietly'
  <2>1. records[t] # <<>> /\ calls[t] # <<>>
    BY <1>2, <1>3, <1>4
  <2>2. QED
    BY <1>1, <1>5, <1>11, <2>1 DEF HeadKept, GoneQuietly, Stored
<1>16. QED
  BY <1>12, <1>13, <1>14, <1>15 DEF IndInv

(* Creating and destroying the key: a record stored under the old key will not
   be freed, and is remembered by it. *)
LEMMA KeyStep ==
  ASSUME IndInv, FinishInitLog \/ TermLog
  PROVE  IndInv'
<1>1. Typed /\ Nested /\ ChainBounded /\ HeadKept /\ GoneQuietly
  BY DEF IndInv
<1>2. UNCHANGED <<records, tls, freed, calls, state, lost>>
  BY DEF FinishInitLog, TermLog
<1>3. \/ key = 0 /\ key' = terms + 1 /\ terms' = terms
      \/ key # 0 /\ key' = 0 /\ terms' = terms + 1
  BY DEF FinishInitLog, TermLog
<1>4. Typed'
  BY <1>1, <1>2, <1>3 DEF Typed
<1>5. Nested' /\ ChainBounded'
  BY <1>1, <1>2 DEF Nested, ChainBounded, Top
<1>6. \A t \in Thread : tls[t] \in Nat
  BY <1>1 DEF Typed
<1>7. HeadKept'
  <2>1. ASSUME NEW t \in Thread, tls[t] \in 1 .. terms \/ Stored(t)
        PROVE  tls[t] \in 1 .. terms' \/ Stored(t)'
    BY <1>1, <1>2, <1>3, <1>6, <2>1 DEF Typed, Stored
  <2>2. QED
    BY <1>1, <1>2, <2>1 DEF HeadKept
<1>8. GoneQuietly'
  <2>1. \A t \in Thread : tls[t] \in 1 .. terms => tls[t] \in 1 .. terms'
    BY <1>1, <1>3, <1>6 DEF Typed
  <2>2. QED
    BY <1>1, <1>2, <2>1 DEF GoneQuietly
<1>9. QED
  BY <1>4, <1>5, <1>7, <1>8 DEF IndInv

(* A thread exits, or goes astray. *)
LEMMA ThreadStep ==
  ASSUME IndInv, NEW t \in Thread,
         LogWithoutKey(t) \/ Exit(t) \/ LogAfterFree(t) \/ Gone(t) \/ FreeLogData(t)
  PROVE  IndInv'
<1>1. Typed /\ Nested /\ ChainBounded /\ HeadKept /\ GoneQuietly
  BY DEF IndInv
<1>2. UNCHANGED <<key, terms, records, calls, lost>>
  BY DEF LogWithoutKey, Exit, LogAfterFree, Gone, FreeLogData
<1>3. Nested' /\ ChainBounded'
  BY <1>1, <1>2 DEF Nested, ChainBounded, Top
<1>4. CASE FreeLogData(t)
  <2>1. /\ tls' = [tls EXCEPT ![t] = 0] /\ freed' = freed \cup {t} /\ state' = state
    BY <1>4 DEF FreeLogData
  <2>2. Typed'
    BY <1>1, <1>2, <2>1 DEF Typed
  <2>3. \A u \in Thread \ {t} : tls'[u] = tls[u]
    BY <1>1, <2>1 DEF Typed
  <2>4. HeadKept' /\ GoneQuietly'
    BY <1>1, <1>2, <2>1, <2>3 DEF HeadKept, GoneQuietly, Stored
  <2>5. QED
    BY <1>3, <2>2, <2>4 DEF IndInv
<1>5. CASE ~FreeLogData(t)
  <2>1. UNCHANGED <<tls, freed>>
    BY <1>5 DEF LogWithoutKey, Exit, LogAfterFree, Gone
  <2>2. PICK s \in States : state' = [state EXCEPT ![t] = s] /\ (s = "gone" => Gone(t))
    BY <1>5 DEF LogWithoutKey, Exit, LogAfterFree, Gone, States
  <2>3. Typed'
    BY <1>1, <1>2, <2>1, <2>2 DEF Typed
  <2>4. HeadKept'
    BY <1>1, <1>2, <2>1 DEF HeadKept, Stored
  <2>5. GoneQuietly'
    <3>1. ASSUME NEW u \in Thread, state'[u] = "gone"
          PROVE  calls[u] = <<>> /\ (records[u] # <<>> => u \in freed \/ tls[u] \in 1 .. terms)
      <4>1. CASE u # t
        BY <1>1, <2>2, <3>1, <4>1 DEF Typed, GoneQuietly
      <4>2. CASE u = t
        <5>1. Gone(t)
          BY <1>1, <2>2, <3>1, <4>2 DEF Typed
        <5>2. QED
          BY <1>1, <4>2, <5>1 DEF Gone, HeadKept
      <4>3. QED
        BY <4>1, <4>2
    <3>2. QED
      BY <1>2, <2>1, <3>1 DEF GoneQuietly
  <2>6. QED
    BY <1>3, <2>3, <2>4, <2>5 DEF IndInv
<1>6. QED
  BY <1>4, <1>5

LEMMA NextIndInv == IndInv /\ [Next]_vars => IndInv'
<1> SUFFICES ASSUME IndInv, [Next]_vars PROVE IndInv'
  OBVIOUS
<1>1. CASE UNCHANGED vars
  <2>1. UNCHANGED <<key, terms, records, tls, freed, calls, state, lost>>
    BY <1>1 DEF vars
  <2>2. Typed /\ Nested /\ ChainBounded /\ HeadKept /\ GoneQuietly
    BY DEF IndInv
  <2>3. Typed'
    BY <2>1, <2>2 DEF Typed
  <2>4. Nested' /\ ChainBounded'
    BY <2>1, <2>2 DEF Nested, ChainBounded, Top
  <2>5. HeadKept' /\ GoneQuietly'
    BY <2>1, <2>2 DEF HeadKept, GoneQuietly, Stored
  <2>6. QED
    BY <2>3, <2>4, <2>5 DEF IndInv
<1>2. QED
  BY <1>1, KeyStep, LogMsgStep, HandlerReturnsStep, ThreadStep DEF Next

(* Every delivery under way has a record of its own, the deeper the higher in
   the chain, and a head record is freed, will be, or has lost its key
   (pushLogData, popLogData, freeLogData), in every state. *)
THEOREM SpecIndInv == Spec => []IndInv
<1>1. Init => IndInv
  BY InitIndInv
<1>2. IndInv /\ [Next]_vars => IndInv'
  BY NextIndInv
<1>3. QED
  BY <1>1, <1>2, PTL DEF Spec

-----------------------------------------------------------------------------
(* Safety.                                                                 *)

(* Whatever is logged from within a log handler, and however deep that goes,
   the record that a handler reads holds its message whole, and the null
   (logMsg, pushLogData, finishLogData). *)
THEOREM MessagesDeliveredIntact == Spec => []DeliversIntact
<1>1. IndInv => DeliversIntact
  <2>1. SUFFICES ASSUME Typed, Nested, NEW t \in Thread, NEW i \in DOMAIN calls[t]
                 PROVE  LET b == records[t][calls[t][i].record]
                        IN  b.text = <<calls[t][i].msg>> /\ b.offset < b.size
    BY DEF IndInv, DeliversIntact
  <2>2. i \in 1 .. Len(calls[t])
    BY <2>1 DEF Typed
  <2>3. Holds(records[t], calls[t][i])
    BY <2>1, <2>2 DEF Nested
  <2>4. QED
    BY <2>3 DEF Holds
<1>2. QED
  BY <1>1, SpecIndInv, PTL

(* A thread never has more records than its head, one for each delivery under
   way and one for each message it lost (pushLogData, popLogData). *)
THEOREM ChainStaysBounded == Spec => []ChainBounded
<1>1. IndInv => ChainBounded
  BY DEF IndInv
<1>2. QED
  BY <1>1, SpecIndInv, PTL

(* A thread that is gone leaves no head record behind, unless the library was
   terminated after its first message, and no other record unless it lost
   messages (freeLogData, destroyTls). *)
THEOREM RecordsFreedWhenGone == Spec => []FreedWhenGone
<1>1. IndInv => FreedWhenGone
  <2>1. SUFFICES ASSUME IndInv, NEW t \in Thread, state[t] = "gone"
                 PROVE  /\ records[t] # <<>> => t \in freed \/ tls[t] \in 1 .. terms
                        /\ Top(t) > 1 => lost[t] # <<>>
    BY DEF FreedWhenGone
  <2>2. calls[t] = <<>> /\ (records[t] # <<>> => t \in freed \/ tls[t] \in 1 .. terms)
    BY <2>1 DEF IndInv, GoneQuietly
  <2>3. Top(t) <= 1 + Len(lost[t]) /\ Top(t) \in Nat
    <3>1. Top(t) <= 1 + Len(calls[t]) + Len(lost[t])
      BY <2>1 DEF IndInv, ChainBounded
    <3>2. Len(calls[t]) = 0 /\ Len(lost[t]) \in Nat /\ Top(t) \in Nat
      BY <2>1, <2>2 DEF IndInv, Typed, Top
    <3>3. QED
      BY <3>1, <3>2
  <2>4. lost[t] = <<>> => Len(lost[t]) = 0
    OBVIOUS
  <2>5. QED
    BY <2>2, <2>3, <2>4
<1>2. QED
  BY <1>1, SpecIndInv, PTL

=============================================================================
