------------------------- MODULE ThreadRequestProofs -------------------------
(***************************************************************************)
(* Theorems about module ThreadRequest, for any threads, any mix of        *)
(* waiting modes, any results and any number of requests.                  *)
(***************************************************************************)
EXTENDS ThreadRequest, TLAPS

-----------------------------------------------------------------------------
(* The inductive invariant.                                                *)

(* The pointers in use by t, by their place: zero for the one its handler was
   given, then those in the queue. *)
Place(t) == (IF handler[t] = "none" THEN {} ELSE {0}) \cup 1 .. Len(pending[t])
At(t, k) == IF k = 0 THEN serving[t] ELSE pending[t][k]

Asking(o) == pc[o] \in {"submitted", "poll", "lock", "test", "sleep"}

(* A pointer in use leads to a request sent to that thread, whose sender has
   not been told yet. *)
PointsWell(t, p) ==
  /\ p \in Pointer
  /\ live[p.owner]
  /\ number[p.owner] = p.number
  /\ target[p.owner] = t
  /\ Asking(p.owner)
  /\ ~flag[p.owner]

PointersGood == \A t \in Thread : \A k \in Place(t) : PointsWell(t, At(t, k))

(* A thread does not use a pointer twice. *)
PlacesDiffer ==
  \A t \in Thread : \A j, k \in Place(t) : At(t, j) = At(t, k) => j = k

(* Requests of a thread are among those of the process. *)
NumbersBounded == \A t \in Thread : number[t] <= requests

(* Between two requests nothing is left of the last one. *)
IdleClean == \A t \in Thread : pc[t] = "idle" => ~flag[t] /\ ran[t] = NoResult

(* A request whose handler has not got to the executor has not been executed. *)
NotYetRun ==
  \A t \in Thread : \A k \in Place(t) :
    k # 0 \/ handler[t] = "exec" => ran[At(t, k).owner] = NoResult

(* What a handler is about to store is what the executor returned. *)
HandlerKnows ==
  \A t \in Thread :
    /\ handler[t] \in {"result", "flag", "notify"} =>
         got[t] \in Result /\ ran[Owner(t)] = got[t]
    /\ handler[t] = "flag" => result[Owner(t)] = got[t]

(* The flag is set only after the result. *)
FlagLast ==
  \A t \in Thread :
    /\ flag[t] => ran[t] \in Result /\ result[t] = ran[t]
    /\ pc[t] = "load" => flag[t]

IndInv ==
  /\ TypeOK
  /\ PointersGood
  /\ PlacesDiffer
  /\ NumbersBounded
  /\ IdleClean
  /\ NotYetRun
  /\ HandlerKnows
  /\ FlagLast

-----------------------------------------------------------------------------
(* Facts about pointers.                                                   *)

(* Two pointers in use that lead to requests of one thread are the same one, in
   the same place: a request has at most one signal. *)
LEMMA OnePointer ==
  ASSUME PointersGood, PlacesDiffer, NEW t \in Thread, NEW u \in Thread,
         NEW k \in Place(t), NEW j \in Place(u), At(t, k).owner = At(u, j).owner
  PROVE  t = u /\ k = j
<1>1. PointsWell(t, At(t, k)) /\ PointsWell(u, At(u, j))
  BY DEF PointersGood
<1>2. t = u
  BY <1>1 DEF PointsWell
<1>3. At(t, k) = At(u, j)
  BY <1>1 DEF PointsWell, Pointer
<1>4. QED
  BY <1>2, <1>3 DEF PlacesDiffer

(* What InUse lists is what stands in the places. *)
LEMMA InUsePlaces ==
  ASSUME TypeOK, NEW t \in Thread
  PROVE  \A i \in 1 .. Len(InUse(t)) :
           LET k == IF handler[t] = "none" THEN i ELSE i - 1 IN
           k \in Place(t) /\ InUse(t)[i] = At(t, k)
<1>1. pending[t] \in Seq(Pointer) /\ Len(pending[t]) \in Nat
  BY DEF TypeOK
<1>2. CASE handler[t] = "none"
  <2>1. InUse(t) = pending[t]
    BY <1>1, <1>2 DEF InUse
  <2>2. QED
    BY <1>1, <1>2, <2>1 DEF Place, At
<1>3. CASE handler[t] # "none"
  <2>1. /\ Len(InUse(t)) = Len(pending[t]) + 1
        /\ InUse(t)[1] = serving[t]
        /\ \A i \in 2 .. Len(pending[t]) + 1 : InUse(t)[i] = pending[t][i - 1]
    BY <1>1, <1>3 DEF InUse
  <2>2. QED
    BY <1>1, <1>3, <2>1 DEF Place, At
<1>4. QED
  BY <1>2, <1>3

(* Nobody has a pointer to a request of a thread that asks for nothing. *)
LEMMA NoPointerTo ==
  ASSUME PointersGood, NEW o \in Thread, ~Asking(o) \/ flag[o],
         NEW t \in Thread, NEW k \in Place(t)
  PROVE  At(t, k).owner # o
BY DEF PointersGood, PointsWell

-----------------------------------------------------------------------------
(* The initial states and the steps.                                       *)

LEMMA InitIndInv == Init => IndInv
<1> SUFFICES ASSUME Init PROVE IndInv
  OBVIOUS
<1>1. TypeOK
  BY MaxRequestsAssumption DEF Init, TypeOK
<1>2. \A t \in Thread : Place(t) = {}
  <2>1. SUFFICES ASSUME NEW t \in Thread PROVE Place(t) = {}
    OBVIOUS
  <2>2. handler[t] = "none" /\ pending[t] = <<>>
    BY DEF Init
  <2>3. 1 .. Len(pending[t]) = {}
    BY <2>2
  <2>4. QED
    BY <2>2, <2>3 DEF Place
<1>3. QED
  BY <1>1, <1>2 DEF Init, IndInv, PointersGood, PlacesDiffer, NumbersBounded, IdleClean,
     NotYetRun, HandlerKnows, FlagLast

(* A step that leaves the pointers, their targets and the requests alone. *)
Still == UNCHANGED <<pending, handler, serving>>

LEMMA StillPlaces ==
  ASSUME Still
  PROVE  /\ \A t \in Thread : Place(t)' = Place(t)
         /\ \A t \in Thread : \A k \in Place(t) : At(t, k)' = At(t, k)
BY DEF Still, Place, At

(* The waiting thread goes on. *)
LEMMA WaitingStep ==
  ASSUME IndInv, NEW t \in Thread,
         BeginWait(t) \/ Poll(t) \/ Lock(t) \/ Test(t) \/ WakeSpuriously(t)
  PROVE  IndInv'
<1> USE DEF IndInv
<1>1. /\ Still /\ UNCHANGED <<target, number, requests, live, requestVars, ran, got, processVars, answer>>
      /\ Asking(t)
      /\ \E place \in {"poll", "lock", "test", "sleep", "load"} :
            /\ pc' = [pc EXCEPT ![t] = place]
            /\ place = "load" => flag[t]
  BY DEF BeginWait, Poll, Lock, Test, WakeSpuriously, Still, countVars, targetVars,
         processVars, requestVars, Asking
<1>2. PICK place \in {"poll", "lock", "test", "sleep", "load"} :
            /\ pc' = [pc EXCEPT ![t] = place]
            /\ place = "load" => flag[t]
  BY <1>1
<1>3. TypeOK'
  BY <1>1, <1>2 DEF TypeOK, Still, requestVars, processVars
<1>4. /\ \A u \in Thread : Place(u)' = Place(u)
      /\ \A u \in Thread : \A k \in Place(u) : At(u, k)' = At(u, k)
  BY <1>1, StillPlaces
<1>5. \A o \in Thread : Asking(o) /\ ~flag[o] => Asking(o)'
  BY <1>2 DEF Asking, TypeOK
<1>6. PointersGood'
  BY <1>1, <1>4, <1>5 DEF PointersGood, PointsWell, Pointer, requestVars
<1>7. PlacesDiffer'
  BY <1>4 DEF PlacesDiffer
<1>8. NumbersBounded' /\ NotYetRun' /\ HandlerKnows'
  BY <1>1, <1>4 DEF NumbersBounded, NotYetRun, HandlerKnows, requestVars, Owner, Still
<1>9. IdleClean' /\ FlagLast'
  BY <1>1, <1>2 DEF IdleClean, FlagLast, TypeOK, requestVars
<1>10. QED
  BY <1>3, <1>6, <1>7, <1>8, <1>9

(* A wait returns, and the sender takes the answer. *)
LEMMA LoadResultStep ==
  ASSUME IndInv, NEW t \in Thread, LoadResult(t)
  PROVE  IndInv'
<1> USE DEF IndInv
<1>1. /\ Still /\ UNCHANGED <<target, number, requests, live, requestVars, ran, got, processVars>>
      /\ pc[t] = "load" /\ flag[t]
      /\ pc' = [pc EXCEPT ![t] = "answered"]
      /\ answer' = [answer EXCEPT ![t] = result[t]]
  BY DEF LoadResult, Still, countVars, targetVars, processVars, requestVars, FlagLast
<1>2. TypeOK'
  BY <1>1 DEF TypeOK, Still, requestVars, processVars
<1>3. /\ \A u \in Thread : Place(u)' = Place(u)
      /\ \A u \in Thread : \A k \in Place(u) : At(u, k)' = At(u, k)
  BY <1>1, StillPlaces
<1>4. \A o \in Thread : Asking(o) /\ ~flag[o] => Asking(o)'
  BY <1>1 DEF Asking, TypeOK
<1>5. PointersGood'
  BY <1>1, <1>3, <1>4 DEF PointersGood, PointsWell, Pointer, requestVars
<1>6. PlacesDiffer'
  BY <1>3 DEF PlacesDiffer
<1>7. NumbersBounded' /\ NotYetRun' /\ HandlerKnows'
  BY <1>1, <1>3 DEF NumbersBounded, NotYetRun, HandlerKnows, requestVars, Owner, Still
<1>8. IdleClean' /\ FlagLast'
  BY <1>1 DEF IdleClean, FlagLast, TypeOK, requestVars
<1>9. QED
  BY <1>2, <1>5, <1>6, <1>7, <1>8

(* A request is freed: nobody has a pointer to it any more. *)
LEMMA FreeRequestStep ==
  ASSUME IndInv, NEW t \in Thread, FreeRequest(t)
  PROVE  IndInv'
<1> USE DEF IndInv
<1>1. /\ Still /\ UNCHANGED <<number, requests, got, processVars>>
      /\ pc[t] = "answered"
      /\ pc' = [pc EXCEPT ![t] = "idle"]
      /\ live' = [live EXCEPT ![t] = FALSE]
      /\ target' = [target EXCEPT ![t] = t]
      /\ result' = [result EXCEPT ![t] = NoResult]
      /\ flag' = [flag EXCEPT ![t] = FALSE]
      /\ answer' = [answer EXCEPT ![t] = NoResult]
      /\ ran' = [ran EXCEPT ![t] = NoResult]
  BY DEF FreeRequest, Still, countVars, targetVars, processVars
<1>2. TypeOK'
  BY <1>1 DEF TypeOK, Still, processVars
<1>3. /\ \A u \in Thread : Place(u)' = Place(u)
      /\ \A u \in Thread : \A k \in Place(u) : At(u, k)' = At(u, k)
  BY <1>1, StillPlaces
<1>4. \A u \in Thread : \A k \in Place(u) : At(u, k).owner # t
  BY <1>1, NoPointerTo DEF Asking
<1>5. PointersGood'
  BY <1>1, <1>3, <1>4 DEF PointersGood, PointsWell, Pointer, Asking, TypeOK
<1>6. PlacesDiffer'
  BY <1>3 DEF PlacesDiffer
<1>7. NumbersBounded' /\ IdleClean'
  BY <1>1 DEF NumbersBounded, IdleClean, TypeOK
<1>8. NotYetRun'
  <2>1. \A u \in Thread : \A k \in Place(u) : At(u, k).owner \in Thread
    BY DEF PointersGood, PointsWell, Pointer
  <2>2. QED
    BY <1>1, <1>3, <1>4, <2>1 DEF NotYetRun, TypeOK, Still
<1>9. HandlerKnows'
  <2>1. \A u \in Thread : handler[u] # "none" => Owner(u) # t /\ Owner(u) \in Thread
    <3>1. \A u \in Thread : handler[u] # "none" => 0 \in Place(u) /\ At(u, 0) = serving[u]
      BY DEF Place, At
    <3>2. QED
      BY <1>4, <3>1 DEF Owner, PointersGood, PointsWell, Pointer
  <2>2. QED
    BY <1>1, <2>1 DEF HandlerKnows, Owner, Still, TypeOK
<1>10. FlagLast'
  BY <1>1 DEF FlagLast, TypeOK
<1>11. QED
  BY <1>2, <1>5, <1>6, <1>7, <1>8, <1>9, <1>10

(* A thread that asks itself: no pointer is made. *)
LEMMA SelfStep ==
  ASSUME IndInv, NEW t \in Thread, ExecOnSelf(t) \/ SubmitToSelf(t)
  PROVE  IndInv'
<1> USE DEF IndInv
<1>1. /\ Still /\ UNCHANGED <<got, processVars>>
      /\ pc[t] = "idle"
      /\ requests < MaxRequests
      /\ requests' = requests + 1
      /\ number' = [number EXCEPT ![t] = @ + 1]
      /\ target' = [target EXCEPT ![t] = t]
  BY DEF ExecOnSelf, SubmitToSelf, NewRequest, Still, targetVars, processVars
<1> DEFINE Told(r) ==
             /\ pc' = [pc EXCEPT ![t] = "answered"]
             /\ answer' = [answer EXCEPT ![t] = r]
             /\ UNCHANGED <<live, result, flag, ran>>
           Done(r) ==
             /\ pc' = [pc EXCEPT ![t] = "submitted"]
             /\ live' = [live EXCEPT ![t] = TRUE]
             /\ flag' = [flag EXCEPT ![t] = TRUE]
             /\ result' = [result EXCEPT ![t] = r]
             /\ ran' = [ran EXCEPT ![t] = r]
             /\ UNCHANGED answer
<1>2. PICK r \in Result : Told(r) \/ Done(r)
  BY DEF ExecOnSelf, SubmitToSelf, requestVars
<1>3. TypeOK'
  <2>1. number[t] + 1 \in 0 .. MaxRequests /\ requests + 1 \in 0 .. MaxRequests
    BY <1>1, MaxRequestsAssumption DEF TypeOK, NumbersBounded
  <2>2. CASE Told(r)
    BY <1>1, <2>1, <2>2 DEF TypeOK, Still, processVars
  <2>3. CASE Done(r)
    BY <1>1, <2>1, <2>3 DEF TypeOK, Still, processVars
  <2>4. QED
    BY <1>2, <2>2, <2>3
<1>4. /\ \A u \in Thread : Place(u)' = Place(u)
      /\ \A u \in Thread : \A k \in Place(u) : At(u, k)' = At(u, k)
  BY <1>1, StillPlaces
<1>5. \A u \in Thread : \A k \in Place(u) : At(u, k).owner \in Thread \ {t}
  BY <1>1, NoPointerTo DEF Asking, PointersGood, PointsWell, Pointer
<1>6. PointersGood'
  BY <1>1, <1>2, <1>4, <1>5 DEF PointersGood, PointsWell, Pointer, Asking, TypeOK
<1>7. PlacesDiffer'
  BY <1>4 DEF PlacesDiffer
<1>8. NumbersBounded'
  BY <1>1, MaxRequestsAssumption DEF NumbersBounded, TypeOK
<1>9. IdleClean' /\ FlagLast'
  <2>1. CASE Told(r)
    BY <1>1, <2>1 DEF IdleClean, FlagLast, TypeOK
  <2>2. CASE Done(r)
    BY <1>1, <2>2 DEF IdleClean, FlagLast, TypeOK
  <2>3. QED
    BY <1>2, <2>1, <2>2
<1>10. NotYetRun'
  BY <1>1, <1>2, <1>4, <1>5 DEF NotYetRun, TypeOK, Still
<1>11. HandlerKnows'
  <2>1. \A u \in Thread : handler[u] # "none" => Owner(u) \in Thread \ {t}
    <3>1. \A u \in Thread : handler[u] # "none" => 0 \in Place(u) /\ At(u, 0) = serving[u]
      BY DEF Place, At
    <3>2. QED
      BY <1>5, <3>1 DEF Owner
  <2>2. QED
    BY <1>1, <1>2, <2>1 DEF HandlerKnows, Owner, Still, TypeOK
<1>12. QED
  BY <1>3, <1>6, <1>7, <1>8, <1>9, <1>10, <1>11

(* A request is sent: one more pointer, at the end of the target's queue. *)
LEMMA SubmitRequestStep ==
  ASSUME IndInv, NEW t \in Thread, NEW u \in Thread, SubmitRequest(t, u)
  PROVE  IndInv'
<1> USE DEF IndInv
<1>0. PICK p, last : /\ p = [owner |-> t, number |-> number[t] + 1]
                     /\ last = Len(pending[u]) + 1
  OBVIOUS
<1>1. /\ pc[t] = "idle"
      /\ requests < MaxRequests
      /\ requests' = requests + 1
      /\ number' = [number EXCEPT ![t] = @ + 1]
      /\ target' = [target EXCEPT ![t] = u]
      /\ pc' = [pc EXCEPT ![t] = "submitted"]
      /\ live' = [live EXCEPT ![t] = TRUE]
      /\ pending' = [pending EXCEPT ![u] = @ \o <<p>>]
      /\ UNCHANGED <<answer, result, flag, ran, handler, serving, got, alive, installed>>
  BY <1>0 DEF SubmitRequest, NewRequest, SignalsSent, requestVars, processVars
<1>2. /\ number[t] + 1 \in 1 .. MaxRequests
      /\ requests + 1 \in 0 .. MaxRequests
      /\ p \in Pointer
  BY <1>0, <1>1, MaxRequestsAssumption DEF TypeOK, NumbersBounded, Pointer
<1>3. /\ pending[u] \in Seq(Pointer)
      /\ pending'[u] \in Seq(Pointer)
      /\ last \in Nat \ {0}
      /\ Len(pending'[u]) = last
      /\ pending'[u][last] = p
      /\ \A k \in 1 .. Len(pending[u]) : pending'[u][k] = pending[u][k]
  <2>1. pending[u] \in Seq(Pointer) /\ pending'[u] = pending[u] \o <<p>> /\ <<p>> \in Seq(Pointer)
    BY <1>1, <1>2 DEF TypeOK
  <2>2. QED
    BY <1>0, <2>1
<1>4. TypeOK'
  <2>1. pending' \in [Thread -> Seq(Pointer)]
    BY <1>1, <1>3 DEF TypeOK
  <2>2. QED
    BY <1>1, <1>2, <2>1 DEF TypeOK
<1>5. /\ Place(u)' = Place(u) \cup {last} /\ last \notin Place(u) /\ At(u, last)' = p
      /\ \A k \in Place(u) : At(u, k)' = At(u, k)
  <2>1. Len(pending[u]) \in Nat /\ last = Len(pending[u]) + 1
    BY <1>0, <1>3
  <2>2. 1 .. last = 1 .. Len(pending[u]) \cup {last} /\ last \notin 0 .. Len(pending[u])
    BY <2>1
  <2>3. Place(u)' = Place(u) \cup {last} /\ last \notin Place(u)
    BY <1>1, <1>3, <2>1, <2>2 DEF Place
  <2>4. At(u, last)' = p
    BY <1>3 DEF At
  <2>5. \A k \in Place(u) : At(u, k)' = At(u, k)
    BY <1>1, <1>3 DEF Place, At
  <2>6. QED
    BY <2>3, <2>4, <2>5
<1>6. \A v \in Thread \ {u} : /\ Place(v)' = Place(v)
                              /\ \A k \in Place(v) : At(v, k)' = At(v, k)
  BY <1>1 DEF Place, At, TypeOK
<1>7. \A v \in Thread : \A k \in Place(v) : At(v, k).owner \in Thread \ {t}
  BY <1>1, NoPointerTo DEF Asking, PointersGood, PointsWell, Pointer
<1>8. p.owner = t /\ p.number = number[t] + 1
  BY <1>0
<1>9. ~flag[t] /\ ran[t] = NoResult
  BY <1>1 DEF IdleClean
<1>10. PointersGood'
  <2>1. ASSUME NEW v \in Thread, NEW k \in Place(v)
        PROVE  PointsWell(v, At(v, k))'
    <3>1. At(v, k)' = At(v, k) /\ PointsWell(v, At(v, k)) /\ At(v, k).owner \in Thread \ {t}
      BY <1>5, <1>6, <1>7 DEF PointersGood
    <3>2. QED
      BY <1>1, <3>1 DEF PointsWell, Asking, TypeOK
  <2>2. PointsWell(u, At(u, last))'
    BY <1>1, <1>2, <1>5, <1>8, <1>9 DEF PointsWell, Asking, TypeOK
  <2>3. QED
    BY <1>5, <1>6, <2>1, <2>2 DEF PointersGood
<1>11. PlacesDiffer'
  <2>1. \A k \in Place(u) : At(u, k) # p
    BY <1>7, <1>8
  <2>2. QED
    BY <1>5, <1>6, <2>1 DEF PlacesDiffer
<1>12. NumbersBounded'
  BY <1>1, MaxRequestsAssumption DEF NumbersBounded, TypeOK
<1>13. IdleClean' /\ FlagLast'
  BY <1>1 DEF IdleClean, FlagLast, TypeOK
<1>14. NotYetRun'
  <2>1. ASSUME NEW v \in Thread, NEW k \in Place(v), k # 0 \/ handler[v] = "exec"
        PROVE  ran[At(v, k)'.owner] = NoResult
    BY <1>5, <1>6, <2>1 DEF NotYetRun
  <2>2. QED
    BY <1>1, <1>5, <1>6, <1>8, <1>9, <2>1 DEF NotYetRun
<1>15. HandlerKnows'
  BY <1>1 DEF HandlerKnows, Owner
<1>16. QED
  BY <1>4, <1>10, <1>11, <1>12, <1>13, <1>14, <1>15

(* A thread exits, or the signal handler is removed. *)
LEMMA EndStep ==
  ASSUME IndInv, Terminate \/ \E t \in Thread : Exit(t)
  PROVE  IndInv'
<1> USE DEF IndInv
<1>1. CASE Terminate
  <2>1. UNCHANGED <<pc, target, number, requests, live, answer, result, flag, ran, pending,
                    handler, serving, got, alive>> /\ installed' = FALSE
    BY <1>1 DEF Terminate, senderVars, requestVars, targetVars
  <2>2. TypeOK'
    BY <2>1 DEF TypeOK
  <2>3. PointersGood' /\ PlacesDiffer' /\ NotYetRun'
    BY <2>1 DEF PointersGood, PointsWell, PlacesDiffer, NotYetRun, Place, At, Asking
  <2>4. NumbersBounded' /\ IdleClean' /\ HandlerKnows' /\ FlagLast'
    BY <2>1 DEF NumbersBounded, IdleClean, HandlerKnows, FlagLast, Owner
  <2>5. QED
    BY <2>2, <2>3, <2>4
<1>2. ASSUME NEW t \in Thread, Exit(t) PROVE IndInv'
  <2>1. /\ UNCHANGED <<pc, target, number, requests, live, answer, result, flag, ran,
                        handler, serving, got, installed>>
        /\ alive' = [alive EXCEPT ![t] = FALSE]
        /\ pending' = [pending EXCEPT ![t] = <<>>]
        /\ handler[t] = "none"
    BY <1>2 DEF Exit, senderVars, requestVars, Runs
  <2>2. TypeOK'
    <3>1. <<>> \in Seq(Pointer)
      OBVIOUS
    <3>2. pending' \in [Thread -> Seq(Pointer)]
      BY <2>1, <3>1 DEF TypeOK
    <3>3. QED
      BY <2>1, <3>2 DEF TypeOK
  <2>3. Place(t)' = {}
    <3>1. 1 .. Len(pending'[t]) = {}
      BY <2>1 DEF TypeOK
    <3>2. QED
      BY <2>1, <3>1 DEF Place
  <2>4. \A v \in Thread \ {t} : /\ Place(v)' = Place(v)
                                /\ \A k \in Place(v) : At(v, k)' = At(v, k)
    BY <2>1 DEF Place, At, TypeOK
  <2>5. PointersGood' /\ PlacesDiffer' /\ NotYetRun'
    BY <2>1, <2>3, <2>4 DEF PointersGood, PointsWell, PlacesDiffer, NotYetRun, Asking
  <2>6. NumbersBounded' /\ IdleClean' /\ HandlerKnows' /\ FlagLast'
    BY <2>1 DEF NumbersBounded, IdleClean, HandlerKnows, FlagLast, Owner
  <2>7. QED
    BY <2>2, <2>5, <2>6
<1>3. QED
  BY <1>1, <1>2

(* A signal is delivered: the places of its target move up by one. *)
LEMMA DeliverStep ==
  ASSUME IndInv, NEW t \in Thread, Deliver(t)
  PROVE  IndInv'
<1> USE DEF IndInv
<1>1. /\ UNCHANGED <<pc, target, number, requests, live, answer, result, flag, ran,
                      got, alive, installed>>
      /\ handler[t] = "none"
      /\ pending[t] # <<>>
      /\ serving' = [serving EXCEPT ![t] = Head(pending[t])]
      /\ pending' = [pending EXCEPT ![t] = Tail(@)]
      /\ handler' = [handler EXCEPT ![t] = "exec"]
  BY DEF Deliver, senderVars, requestVars, Runs, processVars
<1>2. /\ pending[t] \in Seq(Pointer) /\ Len(pending[t]) \in Nat \ {0}
      /\ Head(pending[t]) = pending[t][1] /\ Head(pending[t]) \in Pointer
      /\ Tail(pending[t]) \in Seq(Pointer)
      /\ Len(Tail(pending[t])) = Len(pending[t]) - 1
      /\ \A k \in 1 .. Len(pending[t]) - 1 : Tail(pending[t])[k] = pending[t][k + 1]
  <2>1. pending[t] \in Seq(Pointer) /\ pending[t] # <<>>
    BY <1>1 DEF TypeOK
  <2>2. QED
    BY <2>1
<1>3. TypeOK'
  <2>1. pending' \in [Thread -> Seq(Pointer)] /\ serving' \in [Thread -> Pointer \cup {NoPointer}]
    BY <1>1, <1>2 DEF TypeOK
  <2>2. QED
    BY <1>1, <2>1 DEF TypeOK
<1>4. \A k \in Place(t)' : k + 1 \in Place(t) /\ At(t, k)' = At(t, k + 1) /\ k \in Nat
  <2>1. Place(t)' = 0 .. Len(pending[t]) - 1
    BY <1>1, <1>2 DEF Place, TypeOK
  <2>2. Place(t) = 1 .. Len(pending[t])
    BY <1>1 DEF Place
  <2>3. QED
    BY <1>1, <1>2, <2>1, <2>2 DEF At, TypeOK
<1>5. \A v \in Thread \ {t} : /\ Place(v)' = Place(v)
                              /\ \A k \in Place(v) : At(v, k)' = At(v, k)
  BY <1>1 DEF Place, At, TypeOK
<1>6. PointersGood'
  BY <1>1, <1>4, <1>5 DEF PointersGood, PointsWell, Asking
<1>7. PlacesDiffer'
  <2>1. ASSUME NEW j \in Place(t)', NEW k \in Place(t)', At(t, j)' = At(t, k)' PROVE j = k
    <3>1. j + 1 = k + 1
      BY <1>4, <2>1 DEF PlacesDiffer
    <3>2. QED
      BY <1>4, <3>1
  <2>2. QED
    BY <1>5, <2>1 DEF PlacesDiffer
<1>8. NotYetRun'
  <2>1. ASSUME NEW k \in Place(t)' PROVE ran[At(t, k)'.owner] = NoResult
    BY <1>4 DEF NotYetRun
  <2>2. ASSUME NEW v \in Thread \ {t}, NEW k \in Place(v), k # 0 \/ handler[v] = "exec"
        PROVE  ran[At(v, k)'.owner] = NoResult
    BY <1>5, <2>2 DEF NotYetRun
  <2>3. \A v \in Thread \ {t} : handler'[v] = handler[v]
    BY <1>1 DEF TypeOK
  <2>4. QED
    BY <1>1, <1>5, <2>1, <2>2, <2>3 DEF NotYetRun
<1>9. NumbersBounded' /\ IdleClean' /\ FlagLast'
  BY <1>1 DEF NumbersBounded, IdleClean, FlagLast
<1>10. HandlerKnows'
  BY <1>1 DEF HandlerKnows, Owner, TypeOK
<1>11. QED
  BY <1>3, <1>6, <1>7, <1>8, <1>9, <1>10

(* The request a handler serves is alive, asks, and nobody else serves it. *)
LEMMA Served ==
  ASSUME IndInv, NEW t \in Thread, handler[t] # "none"
  PROVE  /\ 0 \in Place(t) /\ At(t, 0) = serving[t]
         /\ Owner(t) \in Thread
         /\ Asking(Owner(t)) /\ ~flag[Owner(t)]
         /\ target[Owner(t)] = t
         /\ \A u \in Thread : \A k \in Place(u) :
              At(u, k).owner \in Thread /\ (At(u, k).owner = Owner(t) => u = t /\ k = 0)
         /\ \A u \in Thread \ {t} : handler[u] # "none" => Owner(u) \in Thread \ {Owner(t)}
<1> USE DEF IndInv
<1>1. \A u \in Thread : handler[u] # "none" =>
        0 \in Place(u) /\ At(u, 0) = serving[u] /\ Owner(u) = At(u, 0).owner
  BY DEF Place, At, Owner
<1>2. PointsWell(t, serving[t])
  BY <1>1 DEF PointersGood
<1>3. \A u \in Thread : \A k \in Place(u) :
        At(u, k).owner \in Thread /\ (At(u, k).owner = Owner(t) => u = t /\ k = 0)
  <2>1. ASSUME NEW u \in Thread, NEW k \in Place(u)
        PROVE  At(u, k).owner \in Thread
    BY DEF PointersGood, PointsWell, Pointer
  <2>2. ASSUME NEW u \in Thread, NEW k \in Place(u), At(u, k).owner = Owner(t)
        PROVE  u = t /\ k = 0
    BY <1>1, <2>2, OnePointer
  <2>3. QED
    BY <2>1, <2>2
<1>4. QED
  BY <1>1, <1>2, <1>3 DEF PointsWell, Pointer, Owner

(* The executor runs. *)
LEMMA RunExecutorStep ==
  ASSUME IndInv, NEW t \in Thread, RunExecutor(t)
  PROVE  IndInv'
<1> USE DEF IndInv
<1>1. handler[t] = "exec"
  BY DEF RunExecutor
<1>2. PICK r \in Result, place \in {"result", "notify"} :
        /\ got' = [got EXCEPT ![t] = r]
        /\ ran' = [ran EXCEPT ![Owner(t)] = r]
        /\ handler' = [handler EXCEPT ![t] = place]
        /\ serving' = serving
        /\ UNCHANGED <<pc, target, number, requests, live, answer, result, flag, pending,
                        alive, installed>>
  BY DEF RunExecutor, HandlerGoesTo, FirstStore, senderVars, requestVars, processVars, TypeOK
<1>3. PICK o \in Thread : /\ o = Owner(t) /\ Asking(o) /\ ~flag[o]
                          /\ \A u \in Thread : \A k \in Place(u) :
                               At(u, k).owner \in Thread
                               /\ (At(u, k).owner = o => u = t /\ k = 0)
                          /\ \A u \in Thread \ {t} : handler[u] # "none" =>
                               Owner(u) \in Thread \ {o}
  BY <1>1, Served
<1>4. TypeOK'
  BY <1>2, <1>3 DEF TypeOK
<1>5. /\ \A u \in Thread : Place(u)' = Place(u)
      /\ \A u \in Thread : \A k \in Place(u) : At(u, k)' = At(u, k)
  BY <1>1, <1>2 DEF Place, At, TypeOK
<1>6. PointersGood' /\ PlacesDiffer'
  BY <1>2, <1>5 DEF PointersGood, PointsWell, PlacesDiffer, Asking
<1>7. NumbersBounded' /\ IdleClean' /\ FlagLast'
  BY <1>2, <1>3 DEF NumbersBounded, IdleClean, FlagLast, TypeOK, Asking
<1>8. NotYetRun'
  <2>1. ASSUME NEW u \in Thread, NEW k \in Place(u), (k # 0 \/ handler[u] = "exec")'
        PROVE  ran'[At(u, k).owner] = NoResult
    <3>1. u # t \/ k # 0
      BY <1>2, <2>1 DEF TypeOK
    <3>2. k # 0 \/ handler[u] = "exec"
      BY <1>2, <2>1, <3>1 DEF TypeOK
    <3>3. ran[At(u, k).owner] = NoResult /\ At(u, k).owner \in Thread \ {o}
      BY <1>3, <3>1, <3>2 DEF NotYetRun
    <3>4. QED
      BY <1>2, <1>3, <3>3 DEF TypeOK
  <2>2. QED
    BY <1>5, <2>1 DEF NotYetRun
<1>9. HandlerKnows'
  <2>1. \A u \in Thread : Owner(u)' = Owner(u)
    BY <1>2 DEF Owner
  <2>2. got'[t] = r /\ ran'[o] = r /\ handler'[t] = place
    BY <1>2, <1>3 DEF TypeOK
  <2>3. \A u \in Thread \ {t} : handler'[u] = handler[u] /\ got'[u] = got[u]
    BY <1>2 DEF TypeOK
  <2>4. \A q \in Thread \ {o} : ran'[q] = ran[q]
    BY <1>2, <1>3 DEF TypeOK
  <2>5. QED
    BY <1>2, <1>3, <2>1, <2>2, <2>3, <2>4 DEF HandlerKnows
<1>10. QED
  BY <1>4, <1>6, <1>7, <1>8, <1>9

(* The result is stored, and the flag is next. *)
LEMMA StoreResultStep ==
  ASSUME IndInv, NEW t \in Thread, StoreResult(t)
  PROVE  IndInv'
<1> USE DEF IndInv
<1>1. /\ handler[t] = "result"
      /\ result' = [result EXCEPT ![Owner(t)] = got[t]]
      /\ handler' = [handler EXCEPT ![t] = "flag"]
      /\ serving' = serving
      /\ UNCHANGED <<pc, target, number, requests, live, answer, flag, ran, pending, got,
                      alive, installed>>
  BY DEF StoreResult, StoredResult, HandlerGoesTo, FirstStore, senderVars, processVars, TypeOK
<1>2. PICK o \in Thread : /\ o = Owner(t) /\ ~flag[o]
                          /\ \A u \in Thread \ {t} : handler[u] # "none" =>
                               Owner(u) \in Thread \ {o}
  BY <1>1, Served
<1>3. TypeOK'
  BY <1>1, <1>2 DEF TypeOK
<1>4. /\ \A u \in Thread : Place(u)' = Place(u)
      /\ \A u \in Thread : \A k \in Place(u) : At(u, k)' = At(u, k)
  BY <1>1 DEF Place, At, TypeOK
<1>5. PointersGood' /\ PlacesDiffer'
  BY <1>1, <1>4 DEF PointersGood, PointsWell, PlacesDiffer, Asking
<1>6. NumbersBounded' /\ IdleClean' /\ FlagLast'
  BY <1>1, <1>2 DEF NumbersBounded, IdleClean, FlagLast, TypeOK
<1>7. NotYetRun'
  <2>1. \A u \in Thread : handler'[u] = "exec" => handler[u] = "exec"
    BY <1>1 DEF TypeOK
  <2>2. QED
    BY <1>1, <1>4, <2>1 DEF NotYetRun
<1>8. HandlerKnows'
  <2>1. \A u \in Thread : Owner(u)' = Owner(u)
    BY <1>1 DEF Owner
  <2>2. result'[o] = got[t] /\ handler'[t] = "flag"
    BY <1>1, <1>2 DEF TypeOK
  <2>3. \A u \in Thread \ {t} : handler'[u] = handler[u]
    BY <1>1 DEF TypeOK
  <2>4. \A q \in Thread \ {o} : result'[q] = result[q]
    BY <1>1, <1>2 DEF TypeOK
  <2>5. QED
    BY <1>1, <1>2, <2>1, <2>2, <2>3, <2>4 DEF HandlerKnows
<1>9. QED
  BY <1>3, <1>5, <1>6, <1>7, <1>8

(* The handler sets the flag, in either mode, and is done with the request. *)
LEMMA HandlerDone ==
  ASSUME IndInv, NEW t \in Thread, StoreFlag(t) \/ NotifyOwner(t)
  PROVE  IndInv'
<1> USE DEF IndInv
<1>1. handler[t] \in {"flag", "notify"}
  BY DEF StoreFlag, NotifyOwner
<1>2. PICK o \in Thread : /\ o = Owner(t) /\ Asking(o) /\ ~flag[o]
                          /\ \A u \in Thread : \A k \in Place(u) :
                               At(u, k).owner \in Thread
                               /\ (At(u, k).owner = o => u = t /\ k = 0)
                          /\ \A u \in Thread \ {t} : handler[u] # "none" =>
                               Owner(u) \in Thread \ {o}
  BY <1>1, Served
<1>3. /\ flag' = [flag EXCEPT ![o] = TRUE]
      /\ got' = [got EXCEPT ![t] = NoResult]
      /\ handler' = [handler EXCEPT ![t] = "none"]
      /\ serving' = [serving EXCEPT ![t] = NoPointer]
      /\ UNCHANGED <<target, number, requests, live, answer, ran, pending, alive, installed>>
  BY <1>2 DEF StoreFlag, NotifyOwner, HandlerGoesTo, FirstStore, senderVars, countVars, processVars
<1>4. /\ got[t] \in Result /\ ran[o] = got[t]
      /\ result' = [result EXCEPT ![o] = got[t]]
  <2>1. got[t] \in Result /\ ran[o] = got[t]
    BY <1>1, <1>2 DEF HandlerKnows
  <2>2. CASE StoreFlag(t)
    BY <1>2, <2>1, <2>2 DEF StoreFlag, HandlerKnows, TypeOK
  <2>3. CASE NotifyOwner(t)
    BY <1>2, <2>1, <2>3 DEF NotifyOwner, StoredResult
  <2>4. QED
    BY <2>1, <2>2, <2>3
<1>5. PICK place \in {"submitted", "poll", "lock", "test", "sleep"} :
        pc' = [pc EXCEPT ![o] = place]
  <2>1. CASE StoreFlag(t)
    BY <1>2, <2>1 DEF StoreFlag, senderVars, TypeOK, Asking
  <2>2. CASE NotifyOwner(t)
    BY <1>2, <2>2 DEF NotifyOwner, AfterNotification, TypeOK, Asking
  <2>3. QED
    BY <2>1, <2>2
<1>6. TypeOK'
  BY <1>2, <1>3, <1>4, <1>5 DEF TypeOK
<1>7. /\ \A u \in Thread : \A k \in Place(u)' :
            k \in Place(u) /\ At(u, k)' = At(u, k) /\ At(u, k).owner \in Thread \ {o}
  <2>1. Place(t)' = 1 .. Len(pending[t]) /\ 0 \notin Place(t)'
    <3>1. Len(pending[t]) \in Nat
      BY DEF TypeOK
    <3>2. QED
      BY <1>3, <3>1 DEF Place, TypeOK
  <2>2. \A u \in Thread \ {t} : Place(u)' = Place(u) /\ serving'[u] = serving[u]
    BY <1>3 DEF Place, TypeOK
  <2>3. \A u \in Thread : \A k \in Place(u)' :
           k \in Place(u) /\ At(u, k)' = At(u, k) /\ (u # t \/ k # 0)
    BY <1>3, <2>1, <2>2 DEF Place, At
  <2>4. QED
    BY <1>2, <2>3
<1>8. PointersGood' /\ PlacesDiffer' /\ NotYetRun'
  <2>1. PointersGood'
    <3>1. ASSUME NEW u \in Thread, NEW k \in Place(u)' PROVE PointsWell(u, At(u, k))'
      <4>1. PointsWell(u, At(u, k)) /\ At(u, k)' = At(u, k) /\ At(u, k).owner \in Thread \ {o}
        BY <1>7 DEF PointersGood
      <4>2. QED
        BY <1>3, <1>5, <4>1 DEF PointsWell, Asking, TypeOK
    <3>2. QED
      BY <3>1 DEF PointersGood
  <2>2. PlacesDiffer'
    BY <1>7 DEF PlacesDiffer
  <2>3. NotYetRun'
    <3>1. \A u \in Thread : handler'[u] = "exec" => handler[u] = "exec"
      BY <1>3 DEF TypeOK
    <3>2. QED
      BY <1>3, <1>7, <3>1 DEF NotYetRun
  <2>4. QED
    BY <2>1, <2>2, <2>3
<1>9. NumbersBounded' /\ IdleClean' /\ FlagLast'
  BY <1>2, <1>3, <1>4, <1>5 DEF NumbersBounded, IdleClean, FlagLast, TypeOK, Asking
<1>10. HandlerKnows'
  <2>1. \A u \in Thread \ {t} : /\ handler'[u] = handler[u] /\ got'[u] = got[u]
                                /\ serving'[u] = serving[u]
    BY <1>3 DEF TypeOK
  <2>2. handler'[t] = "none"
    BY <1>3 DEF TypeOK
  <2>3. \A q \in Thread \ {o} : result'[q] = result[q]
    BY <1>2, <1>4 DEF TypeOK
  <2>4. QED
    BY <1>2, <1>3, <2>1, <2>2, <2>3 DEF HandlerKnows, Owner
<1>11. QED
  BY <1>6, <1>8, <1>9, <1>10

LEMMA NextIndInv == IndInv /\ [Next]_vars => IndInv'
<1> SUFFICES ASSUME IndInv, [Next]_vars PROVE IndInv'
  OBVIOUS
<1>1. CASE UNCHANGED vars
  <2>1. UNCHANGED <<pc, target, number, requests, live, answer, result, flag, ran, pending,
                    handler, serving, got, alive, installed>>
    BY <1>1 DEF vars, senderVars, requestVars, targetVars, processVars
  <2>2. TypeOK'
    BY <2>1 DEF TypeOK, IndInv
  <2>3. PointersGood' /\ PlacesDiffer' /\ NotYetRun'
    BY <2>1 DEF PointersGood, PointsWell, PlacesDiffer, NotYetRun, Place, At, Asking, IndInv
  <2>4. NumbersBounded' /\ IdleClean' /\ HandlerKnows' /\ FlagLast'
    BY <2>1 DEF NumbersBounded, IdleClean, HandlerKnows, FlagLast, Owner, IndInv
  <2>5. QED
    BY <2>2, <2>3, <2>4 DEF IndInv
<1>2. ASSUME NEW t \in Thread, ExecOnSelf(t) \/ SubmitToSelf(t) PROVE IndInv'
  BY <1>2, SelfStep
<1>3. ASSUME NEW t \in Thread, NEW u \in Thread, SubmitRequest(t, u) PROVE IndInv'
  BY <1>3, SubmitRequestStep
<1>4. ASSUME NEW t \in Thread, BeginWait(t) \/ WakeSpuriously(t) PROVE IndInv'
  BY <1>4, WaitingStep
<1>5. ASSUME NEW t \in Thread, WaitStep(t) PROVE IndInv'
  BY <1>5, WaitingStep, LoadResultStep, FreeRequestStep DEF WaitStep
<1>6. ASSUME NEW t \in Thread, HandlerStep(t) \/ NotifyOwner(t) PROVE IndInv'
  BY <1>6, DeliverStep, RunExecutorStep, StoreResultStep, HandlerDone DEF HandlerStep
<1>7. ASSUME Terminate \/ \E t \in Thread : Exit(t) PROVE IndInv'
  BY <1>7, EndStep
<1>8. QED
  BY <1>1, <1>2, <1>3, <1>4, <1>5, <1>6, <1>7 DEF Next

(* The inductive invariant of requests, their signals and their handlers
   (execThreadRequest, submitThreadRequest) holds in every state. *)
THEOREM SpecIndInv == Spec => []IndInv
<1>1. Init => IndInv
  BY InitIndInv
<1>2. IndInv /\ [Next]_vars => IndInv'
  BY NextIndInv
<1>3. QED
  BY <1>1, <1>2, PTL DEF Spec

-----------------------------------------------------------------------------
(* Safety.                                                                 *)

(* The state of senders, handlers and queues keeps its types, whatever the
   threads and however many requests (OsThreadManager, signalHandler). *)
THEOREM RequestTypeCorrect == Spec => []TypeOK
<1>1. IndInv => TypeOK
  BY DEF IndInv
<1>2. QED
  BY <1>1, SpecIndInv, PTL

(* No handler ever touches a request whose wait has returned: what a signal
   carries is a live request of its sender, for the thread that gets it
   (execThreadRequest keeps the request on its stack, notify() writes to it). *)
THEOREM NeverStale == Spec => []NoStalePointer
<1>1. IndInv => NoStalePointer
  <2>1. SUFFICES ASSUME IndInv, NEW t \in Thread, NEW i \in 1 .. Len(InUse(t))
                 PROVE  /\ live[InUse(t)[i].owner]
                        /\ number[InUse(t)[i].owner] = InUse(t)[i].number
                        /\ target[InUse(t)[i].owner] = t
    BY DEF NoStalePointer
  <2>2. PICK k \in Place(t) : InUse(t)[i] = At(t, k)
    BY <2>1, InUsePlaces DEF IndInv
  <2>3. QED
    BY <2>1, <2>2 DEF IndInv, PointersGood, PointsWell
<1>2. QED
  BY <1>1, SpecIndInv, PTL

(* No two signals carry the same request, so that none is executed twice
   (submitThreadSignalRequest against late deliveries). *)
THEOREM DeliveredAtMostOnce == Spec => []DeliveredOnce
<1>1. IndInv => DeliveredOnce
  <2>1. SUFFICES ASSUME IndInv, NEW t \in Thread, NEW u \in Thread,
                        NEW i \in 1 .. Len(InUse(t)), NEW j \in 1 .. Len(InUse(u)),
                        InUse(t)[i] = InUse(u)[j]
                 PROVE  t = u /\ i = j
    BY DEF DeliveredOnce
  <2> DEFINE k == IF handler[t] = "none" THEN i ELSE i - 1
             l == IF handler[u] = "none" THEN j ELSE j - 1
  <2>2. k \in Place(t) /\ InUse(t)[i] = At(t, k) /\ l \in Place(u) /\ InUse(u)[j] = At(u, l)
    BY <2>1, InUsePlaces DEF IndInv
  <2>3. t = u /\ k = l
    <3>1. PICK m \in Place(t), n \in Place(u) : m = k /\ n = l
      BY <2>2
    <3>2. At(t, m).owner = At(u, n).owner
      <4> HIDE DEF k, l
      <4>1. QED
        BY <2>1, <2>2, <3>1
    <3>3. PointersGood /\ PlacesDiffer
      BY <2>1 DEF IndInv
    <3>4. t = u /\ m = n
      BY <3>2, <3>3, OnePointer
    <3>5. QED
      BY <3>1, <3>4
  <2>4. QED
    BY <2>3
<1>2. QED
  BY <1>1, SpecIndInv, PTL

(* Once the handler is gone every request has been released. *)
Ended == ~installed => \A t \in Thread : pc[t] = "idle"

LEMMA EndedStep == IndInv /\ Ended /\ [Next]_vars => Ended'
<1> SUFFICES ASSUME IndInv, Ended, [Next]_vars, ~installed' PROVE \A t \in Thread : pc'[t] = "idle"
  BY DEF Ended
<1>1. TypeOK
  BY DEF IndInv
<1>2. CASE UNCHANGED vars
  BY <1>2 DEF vars, senderVars, processVars, Ended
<1>3. CASE Terminate
  BY <1>3 DEF Terminate, AllReleased, senderVars
<1>4. ASSUME NEW t \in Thread, NEW u \in Thread,
             ExecOnSelf(t) \/ SubmitToSelf(t) \/ SubmitRequest(t, u)
      PROVE  installed /\ installed'
  BY <1>4 DEF ExecOnSelf, SubmitToSelf, SubmitRequest, NewRequest, processVars
<1>5. ASSUME NEW t \in Thread, BeginWait(t) \/ WaitStep(t) \/ WakeSpuriously(t)
      PROVE  pc[t] # "idle" /\ installed' = installed
  BY <1>5 DEF BeginWait, WaitStep, Poll, Lock, Test, LoadResult, FreeRequest, WakeSpuriously,
              processVars
<1>6. ASSUME NEW t \in Thread, HandlerStep(t) \/ Exit(t)
      PROVE  UNCHANGED <<pc, installed>>
  BY <1>6 DEF HandlerStep, Deliver, RunExecutor, StoreResult, StoreFlag, Exit, senderVars,
              processVars
<1>7. ASSUME NEW t \in Thread, NotifyOwner(t)
      PROVE  installed' = installed /\ \E o \in Thread : pc[o] # "idle"
  <2>1. PICK o \in Thread : Asking(o)
    BY <1>7, <1>1, Served DEF NotifyOwner, IndInv
  <2>2. pc[o] # "idle"
    BY <2>1 DEF Asking
  <2>3. installed' = installed
    BY <1>7 DEF NotifyOwner, processVars
  <2>4. QED
    BY <2>2, <2>3
<1>8. QED
  BY <1>2, <1>3, <1>4, <1>5, <1>6, <1>7 DEF Next, Ended

(* Waiting on every future before the library is terminated is enough: once
   the handler is removed no signal is on its way and no handler runs, whatever
   the threads did before (termLinuxThreadManager). *)
THEOREM QuietOnceTerminated == Spec => []QuietAfterTerminate
<1>1. Init => Ended
  BY DEF Init, Ended
<1>2. IndInv /\ Ended => QuietAfterTerminate
  <2>1. SUFFICES ASSUME IndInv, Ended, ~installed, NEW t \in Thread PROVE InUse(t) = <<>>
    BY DEF QuietAfterTerminate
  <2>2. ASSUME NEW k \in Place(t) PROVE FALSE
    <3>1. PointsWell(t, At(t, k))
      BY <2>1, <2>2 DEF IndInv, PointersGood
    <3>2. At(t, k).owner \in Thread /\ Asking(At(t, k).owner)
      BY <3>1 DEF PointsWell, Pointer
    <3>3. QED
      BY <2>1, <3>2 DEF Ended, Asking
  <2>3. pending[t] \in Seq(Pointer) /\ Len(pending[t]) \in Nat
    BY <2>1 DEF IndInv, TypeOK
  <2>4. handler[t] = "none" /\ Len(pending[t]) = 0
    <3>1. Len(pending[t]) # 0 => 1 \in Place(t)
      BY <2>3 DEF Place
    <3>2. handler[t] # "none" => 0 \in Place(t)
      BY DEF Place
    <3>3. QED
      BY <2>2, <3>1, <3>2
  <2>5. pending[t] = <<>>
    BY <2>3, <2>4
  <2>6. QED
    BY <2>4, <2>5 DEF InUse
<1>3. QED
  BY <1>1, <1>2, EndedStep, NextIndInv, SpecIndInv, PTL DEF Spec

-----------------------------------------------------------------------------
(* The refinement.                                                         *)

LEMMA RefinesInit == Init => Remote!Init
BY DEF Init, Remote!Init, Status

(* Steps the abstract specification does not see. *)
LEMMA Unseen ==
  ASSUME UNCHANGED <<ran, answer>>, TypeOK,
         \A u \in Thread :
           /\ (pc[u] = "idle") = (pc'[u] = "idle")
           /\ (pc[u] = "answered") = (pc'[u] = "answered")
  PROVE  UNCHANGED Remote!vars
<1>1. \A u \in Thread : Status(u)' = Status(u)
  BY DEF Status
<1>2. QED
  BY <1>1 DEF Remote!vars

(* The status of one thread changes, and with it nothing else. *)
LEMMA StatusOf ==
  ASSUME NEW t \in Thread, TypeOK,
         \A u \in Thread \ {t} : pc'[u] = pc[u] /\ ran'[u] = ran[u]
  PROVE  [u \in Thread |-> Status(u)'] =
           [[u \in Thread |-> Status(u)] EXCEPT ![t] = Status(t)']
BY DEF Status

LEMMA RefinesNext == IndInv /\ [Next]_vars => [Remote!Next]_Remote!vars
<1> SUFFICES ASSUME IndInv, [Next]_vars PROVE [Remote!Next]_Remote!vars
  OBVIOUS
<1> USE DEF IndInv
<1>1. CASE UNCHANGED vars
  BY <1>1, Unseen DEF vars, senderVars, requestVars, targetVars, processVars
<1>2. ASSUME NEW t \in Thread, ExecOnSelf(t) PROVE Remote!Next
  <2>1. PICK r \in Result : answer' = [answer EXCEPT ![t] = r]
    BY <1>2 DEF ExecOnSelf
  <2>2. pc[t] = "idle" /\ pc' = [pc EXCEPT ![t] = "answered"] /\ ran' = ran
    BY <1>2 DEF ExecOnSelf, NewRequest
  <2>3. Status(t) = "none" /\ Status(t)' = "answered"
    BY <2>2 DEF Status, TypeOK
  <2>4. Remote!AnswerOwn(t, r)
    BY <2>1, <2>2, <2>3, StatusOf DEF Remote!AnswerOwn, TypeOK
  <2>5. QED
    BY <2>4 DEF Remote!Next
<1>3. ASSUME NEW t \in Thread, SubmitToSelf(t) PROVE Remote!Next
  <2>1. PICK r \in Result : ran' = [ran EXCEPT ![t] = r]
    BY <1>3 DEF SubmitToSelf
  <2>2. pc[t] = "idle" /\ pc' = [pc EXCEPT ![t] = "submitted"] /\ answer' = answer
    BY <1>3 DEF SubmitToSelf, NewRequest
  <2>3. Status(t) = "none" /\ Status(t)' = "performed"
    BY <2>1, <2>2, NoResultAssumption DEF Status, TypeOK
  <2>4. Remote!Perform(t, r)
    BY <2>1, <2>2, <2>3, StatusOf DEF Remote!Perform, TypeOK
  <2>5. QED
    BY <2>4 DEF Remote!Next
<1>4. ASSUME NEW t \in Thread, NEW u \in Thread, SubmitRequest(t, u) PROVE Remote!Next
  <2>1. /\ pc[t] = "idle" /\ pc' = [pc EXCEPT ![t] = "submitted"]
        /\ UNCHANGED <<answer, ran>>
    BY <1>4 DEF SubmitRequest, NewRequest
  <2>2. Status(t) = "none" /\ Status(t)' = "asked"
    BY <2>1 DEF Status, TypeOK, IdleClean
  <2>3. Remote!Ask(t)
    BY <2>1, <2>2, StatusOf DEF Remote!Ask, TypeOK
  <2>4. QED
    BY <2>3 DEF Remote!Next
<1>5. ASSUME NEW t \in Thread,
             BeginWait(t) \/ WakeSpuriously(t) \/ Poll(t) \/ Lock(t) \/ Test(t)
      PROVE  UNCHANGED Remote!vars
  <2>1. /\ UNCHANGED <<ran, answer>>
        /\ \E place \in {"poll", "lock", "test", "sleep", "load"} :
             pc' = [pc EXCEPT ![t] = place]
        /\ pc[t] \notin {"idle", "answered"}
    BY <1>5 DEF BeginWait, WakeSpuriously, Poll, Lock, Test
  <2>2. QED
    BY <2>1, Unseen DEF TypeOK
<1>6. ASSUME NEW t \in Thread, LoadResult(t) PROVE Remote!Next
  <2>1. /\ pc[t] = "load" /\ pc' = [pc EXCEPT ![t] = "answered"]
        /\ answer' = [answer EXCEPT ![t] = result[t]]
        /\ ran' = ran
    BY <1>6 DEF LoadResult
  <2>2. ran[t] \in Result /\ result[t] = ran[t]
    BY <2>1 DEF FlagLast
  <2>3. Status(t) = "performed" /\ Status(t)' = "answered"
    BY <2>1, <2>2, NoResultAssumption DEF Status, TypeOK
  <2>4. Remote!Answer(t)
    BY <2>1, <2>2, <2>3, StatusOf DEF Remote!Answer, TypeOK
  <2>5. QED
    BY <2>4 DEF Remote!Next
<1>7. ASSUME NEW t \in Thread, FreeRequest(t) PROVE Remote!Next
  <2>1. /\ pc[t] = "answered" /\ pc' = [pc EXCEPT ![t] = "idle"]
        /\ answer' = [answer EXCEPT ![t] = NoResult]
        /\ ran' = [ran EXCEPT ![t] = NoResult]
    BY <1>7 DEF FreeRequest
  <2>2. Status(t) = "answered" /\ Status(t)' = "none"
    BY <2>1 DEF Status, TypeOK
  <2>3. Remote!Forget(t)
    BY <2>1, <2>2, StatusOf DEF Remote!Forget, TypeOK
  <2>4. QED
    BY <2>3 DEF Remote!Next
<1>8. ASSUME NEW t \in Thread, RunExecutor(t) PROVE Remote!Next
  <2>1. handler[t] = "exec"
    BY <1>8 DEF RunExecutor
  <2>2. PICK o \in Thread : o = Owner(t) /\ Asking(o) /\ ran[o] = NoResult
    BY <2>1, Served DEF NotYetRun, Owner
  <2>3. PICK r \in Result : ran' = [ran EXCEPT ![o] = r]
    BY <1>8, <2>2 DEF RunExecutor
  <2>4. UNCHANGED <<pc, answer>>
    BY <1>8 DEF RunExecutor, senderVars
  <2>5. Status(o) = "asked" /\ Status(o)' = "performed"
    BY <2>2, <2>3, <2>4, NoResultAssumption DEF Status, TypeOK, Asking
  <2>6. Remote!Perform(o, r)
    BY <2>3, <2>4, <2>5, StatusOf DEF Remote!Perform, TypeOK
  <2>7. QED
    BY <2>6 DEF Remote!Next
<1>9. ASSUME NEW t \in Thread, NotifyOwner(t) PROVE UNCHANGED Remote!vars
  <2>1. PICK o \in Thread : o = Owner(t) /\ Asking(o)
    BY <1>9, Served DEF NotifyOwner
  <2>2. /\ UNCHANGED <<ran, answer>>
        /\ pc' = [pc EXCEPT ![o] = IF pc[o] = "sleep" THEN "lock" ELSE pc[o]]
    BY <1>9, <2>1 DEF NotifyOwner, AfterNotification
  <2>3. QED
    BY <2>1, <2>2, Unseen DEF Asking, TypeOK
<1>10. ASSUME NEW t \in Thread,
              Deliver(t) \/ StoreResult(t) \/ StoreFlag(t) \/ Exit(t)
       PROVE  UNCHANGED Remote!vars
  <2>1. UNCHANGED <<pc, ran, answer>>
    BY <1>10 DEF Deliver, StoreResult, StoreFlag, Exit, senderVars
  <2>2. QED
    BY <2>1, Unseen
<1>11. CASE Terminate
  <2>1. UNCHANGED <<pc, ran, answer>>
    BY <1>11 DEF Terminate, senderVars
  <2>2. QED
    BY <2>1, Unseen
<1>12. QED
  BY <1>1, <1>2, <1>3, <1>4, <1>5, <1>6, <1>7, <1>8, <1>9, <1>10, <1>11
     DEF Next, WaitStep, HandlerStep

(* A wait returns what one execution on the target returned, which took place
   after the request was made, and every request gets one answer: the signal,
   the stores of notify() and both ways to wait implement RemoteExec. *)
THEOREM RequestsImplementRemoteExec == Spec => ImplementsRemoteExec
<1>1. Init => Remote!Init
  BY RefinesInit
<1>2. IndInv /\ [Next]_vars => [Remote!Next]_Remote!vars
  BY RefinesNext
<1>3. QED
  BY <1>1, <1>2, SpecIndInv, PTL DEF Spec, ImplementsRemoteExec, Remote!Spec

=============================================================================
