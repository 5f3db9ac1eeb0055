---------------------------- MODULE LifecycleProofs ----------------------------
(***************************************************************************)
(* Theorems about module Lifecycle, for any number of threads, any table   *)
(* of signals, any number of calls of initDbgUtil and any flags: what is   *)
(* complete while the library is up, what is restored after it was         *)
(* terminated, when an exception can run into a null pointer, and where    *)
(* the loggers are in their table.                                         *)
(***************************************************************************)
EXTENDS Lifecycle, SequenceTheorems, WellFoundedInduction, TLAPS

-----------------------------------------------------------------------------
(* The steps of the two calls, by their places.                            *)

Doings == {"createKey", "createHandler", "register", "publish", "init", "finish",
           "clear", "restore", "destroyHandler", "destroy", "destroyKey"}
Names == SignalSet \cup Component \cup {"log", "library"}
AnyStep == [do : Doings, what : Names]

(* What is left of some steps from the k-th on. *)
From(steps, k) == SubSeq(steps, k, Len(steps))

(* The place of createHandler in InitSteps, and that of the clearing of the
   handler's pointer in TermSteps; the signals follow, in order. *)
CreatePlace == Len(InitBefore) + 2
ClearPlace == 2 * Len(TermBefore) + 1

(* What a concatenation of two sequences has at each place. *)
LEMMA ConcatPlaces ==
  ASSUME NEW S, NEW s \in Seq(S), NEW t \in Seq(S)
  PROVE  /\ s \o t \in Seq(S)
         /\ Len(s \o t) = Len(s) + Len(t)
         /\ \A i \in 1 .. Len(s) : (s \o t)[i] = s[i]
         /\ \A i \in 1 .. Len(t) : (s \o t)[Len(s) + i] = t[i]
OBVIOUS

(* Going on from the k-th step. *)
LEMMA FromPlaces ==
  ASSUME NEW S, NEW s \in Seq(S), NEW k \in 1 .. Len(s)
  PROVE  /\ From(s, k) # <<>>
         /\ From(s, k) \in Seq(S)
         /\ Len(From(s, k)) = Len(s) - k + 1
         /\ \A i \in 1 .. Len(s) - k + 1 : From(s, k)[i] = s[k + i - 1]
         /\ Head(From(s, k)) = s[k]
         /\ Tail(From(s, k)) = From(s, k + 1)
         /\ k = Len(s) => Tail(From(s, k)) = <<>>
<1>1. /\ Len(s) \in Nat
      /\ From(s, k) \in Seq(S)
      /\ Len(From(s, k)) = Len(s) - k + 1
      /\ \A i \in 1 .. Len(s) - k + 1 : From(s, k)[i] = s[k + i - 1]
  BY DEF From
<1>2. From(s, k) # <<>> /\ Head(From(s, k)) = s[k]
  BY <1>1
<1>3. Tail(From(s, k)) = From(s, k + 1)
  BY <1>1 DEF From
<1>4. k = Len(s) => Tail(From(s, k)) = <<>>
  BY <1>1, <1>3, SubSeqEmpty DEF From
<1>5. QED
  BY <1>1, <1>2, <1>3, <1>4

(* The signals in force are given by a sequence. *)
LEMMA SignalsSequence ==
  ASSUME platform \in {"linux", "windows", "msystem"}
  PROVE  /\ Signals \in Seq(SignalSet) /\ Len(Signals) \in Nat
         /\ DOMAIN Signals = 1 .. Len(Signals)
         /\ platform = "linux" => Signals = LinuxSignals
         /\ platform # "linux" => Len(Signals) = 1 /\ Signals[1] = "filter"
<1>1. CASE platform = "linux"
  <2>1. Signals = LinuxSignals /\ LinuxSignals \in Seq(STRING)
    BY <1>1, SignalsAssumption DEF Signals
  <2>2. \A j \in 1 .. Len(LinuxSignals) : LinuxSignals[j] \in SignalSet
    BY <2>1 DEF SignalSet
  <2>3. LinuxSignals \in Seq(SignalSet)
    BY <2>1, <2>2
  <2>4. QED
    BY <1>1, <2>1, <2>3
<1>2. CASE platform # "linux"
  <2>1. Signals = <<"filter">> /\ "filter" \in SignalSet
    BY <1>2 DEF Signals, SignalSet
  <2>2. <<"filter">> \in Seq(SignalSet)
    BY <2>1
  <2>3. Len(<<"filter">>) = 1 /\ DOMAIN <<"filter">> = 1 .. 1 /\ <<"filter">>[1] = "filter"
    OBVIOUS
  <2>4. QED
    BY <1>2, <2>1, <2>2, <2>3
<1>3. QED
  BY <1>1, <1>2

(* A step is a step, whatever it does. *)
LEMMA StepType ==
  ASSUME NEW do \in Doings, NEW what \in Names
  PROVE  /\ Step(do, what) \in AnyStep
         /\ <<Step(do, what)>> \in Seq(AnyStep)
         /\ Len(<<Step(do, what)>>) = 1
         /\ <<Step(do, what)>>[1] = Step(do, what)
<1>1. Step(do, what) \in AnyStep
  BY DEF Step, AnyStep
<1>2. QED
  BY <1>1

(* The steps of the exception handler. *)
LEMMA InitExceptionsPlaces ==
  ASSUME platform \in {"linux", "windows", "msystem"}
  PROVE  /\ InitExceptions \in Seq(AnyStep)
         /\ Len(InitExceptions) = Len(Signals) + 2
         /\ InitExceptions[1] = Step("createHandler", "exceptions")
         /\ \A j \in 1 .. Len(Signals) :
              InitExceptions[1 + j] = Step("register", Signals[j])
         /\ InitExceptions[Len(Signals) + 2] = Step("publish", "exceptions")
<1> DEFINE a == <<Step("createHandler", "exceptions")>>
           r == Signalled("register")
           b == <<Step("publish", "exceptions")>>
<1>1. /\ a \in Seq(AnyStep) /\ Len(a) = 1 /\ a[1] = Step("createHandler", "exceptions")
      /\ b \in Seq(AnyStep) /\ Len(b) = 1 /\ b[1] = Step("publish", "exceptions")
  BY StepType DEF Doings, Names, Component
<1>2. /\ r \in Seq(AnyStep) /\ Len(r) = Len(Signals) /\ Len(Signals) \in Nat
      /\ \A j \in 1 .. Len(Signals) : r[j] = Step("register", Signals[j])
  <2>1. Len(Signals) \in Nat /\ \A j \in 1 .. Len(Signals) : Signals[j] \in Names
    BY SignalsSequence DEF Names
  <2>2. r = [j \in 1 .. Len(Signals) |-> Step("register", Signals[j])]
    BY DEF Signalled
  <2>3. \A j \in 1 .. Len(Signals) : Step("register", Signals[j]) \in AnyStep
    BY <2>1, StepType DEF Doings
  <2>4. QED
    BY <2>1, <2>2, <2>3
<1>3. InitExceptions = (a \o r) \o b
  BY DEF InitExceptions
<1> HIDE DEF a, r, b
<1>4. /\ a \o r \in Seq(AnyStep) /\ Len(a \o r) = 1 + Len(Signals)
      /\ (a \o r)[1] = a[1]
      /\ \A j \in 1 .. Len(Signals) : (a \o r)[1 + j] = r[j]
  BY <1>1, <1>2, ConcatPlaces
<1> DEFINE ar == a \o r
<1> HIDE DEF ar
<1>5. /\ ar \o b \in Seq(AnyStep) /\ Len(ar \o b) = Len(Signals) + 2
      /\ \A i \in 1 .. 1 + Len(Signals) : (ar \o b)[i] = ar[i]
      /\ (ar \o b)[1 + Len(Signals) + 1] = b[1]
  BY <1>1, <1>2, <1>4, ConcatPlaces DEF ar
<1>6. QED
  BY <1>1, <1>2, <1>3, <1>4, <1>5 DEF ar

LEMMA TermExceptionsPlaces ==
  ASSUME platform \in {"linux", "windows", "msystem"}
  PROVE  /\ TermExceptions \in Seq(AnyStep)
         /\ Len(TermExceptions) = Len(Signals) + 2
         /\ TermExceptions[1] = Step("clear", "exceptions")
         /\ \A j \in 1 .. Len(Signals) :
              TermExceptions[1 + j] = Step("restore", Signals[j])
         /\ TermExceptions[Len(Signals) + 2] = Step("destroyHandler", "exceptions")
<1> DEFINE a == <<Step("clear", "exceptions")>>
           r == Signalled("restore")
           b == <<Step("destroyHandler", "exceptions")>>
<1>1. /\ a \in Seq(AnyStep) /\ Len(a) = 1 /\ a[1] = Step("clear", "exceptions")
      /\ b \in Seq(AnyStep) /\ Len(b) = 1 /\ b[1] = Step("destroyHandler", "exceptions")
  BY StepType DEF Doings, Names, Component
<1>2. /\ r \in Seq(AnyStep) /\ Len(r) = Len(Signals) /\ Len(Signals) \in Nat
      /\ \A j \in 1 .. Len(Signals) : r[j] = Step("restore", Signals[j])
  <2>1. Len(Signals) \in Nat /\ \A j \in 1 .. Len(Signals) : Signals[j] \in Names
    BY SignalsSequence DEF Names
  <2>2. r = [j \in 1 .. Len(Signals) |-> Step("restore", Signals[j])]
    BY DEF Signalled
  <2>3. \A j \in 1 .. Len(Signals) : Step("restore", Signals[j]) \in AnyStep
    BY <2>1, StepType DEF Doings
  <2>4. QED
    BY <2>1, <2>2, <2>3
<1>3. TermExceptions = (a \o r) \o b
  BY DEF TermExceptions
<1> HIDE DEF a, r, b
<1>4. /\ a \o r \in Seq(AnyStep) /\ Len(a \o r) = 1 + Len(Signals)
      /\ (a \o r)[1] = a[1]
      /\ \A j \in 1 .. Len(Signals) : (a \o r)[1 + j] = r[j]
  BY <1>1, <1>2, ConcatPlaces
<1> DEFINE ar == a \o r
<1> HIDE DEF ar
<1>5. /\ ar \o b \in Seq(AnyStep) /\ Len(ar \o b) = Len(Signals) + 2
      /\ \A i \in 1 .. 1 + Len(Signals) : (ar \o b)[i] = ar[i]
      /\ (ar \o b)[1 + Len(Signals) + 1] = b[1]
  BY <1>1, <1>2, <1>4, ConcatPlaces DEF ar
<1>6. QED
  BY <1>1, <1>2, <1>3, <1>4, <1>5 DEF ar

(* The steps before the exception handler's, its own, and those after. *)
LEMMA ThreeParts ==
  ASSUME NEW S, NEW a \in Seq(S), NEW b \in Seq(S), NEW c \in Seq(S), NEW d \in Seq(S),
         NEW all, all = (a \o b \o c) \o d
  PROVE  /\ all \in Seq(S)
         /\ Len(all) = Len(a) + Len(b) + Len(c) + Len(d)
         /\ \A i \in 1 .. Len(a) : all[i] = a[i]
         /\ \A i \in 1 .. Len(b) : all[Len(a) + i] = b[i]
         /\ \A i \in 1 .. Len(c) : all[Len(a) + Len(b) + i] = c[i]
         /\ \A i \in 1 .. Len(d) : all[Len(a) + Len(b) + Len(c) + i] = d[i]
<1> DEFINE ab == a \o b
<1>1. /\ ab \in Seq(S) /\ Len(ab) = Len(a) + Len(b)
      /\ \A i \in 1 .. Len(a) : ab[i] = a[i]
      /\ \A i \in 1 .. Len(b) : ab[Len(a) + i] = b[i]
  BY ConcatPlaces
<1>2. Len(a) \in Nat /\ Len(b) \in Nat /\ Len(c) \in Nat /\ Len(d) \in Nat
  OBVIOUS
<1> HIDE DEF ab
<1> DEFINE abc == ab \o c
<1>3. /\ abc \in Seq(S) /\ Len(abc) = Len(ab) + Len(c)
      /\ \A i \in 1 .. Len(ab) : abc[i] = ab[i]
      /\ \A i \in 1 .. Len(c) : abc[Len(ab) + i] = c[i]
  <2>1. ab \in Seq(S)
    BY <1>1
  <2>2. QED
    BY <2>1, ConcatPlaces
<1> HIDE DEF abc
<1>4. /\ abc \o d \in Seq(S) /\ Len(abc \o d) = Len(abc) + Len(d)
      /\ \A i \in 1 .. Len(abc) : (abc \o d)[i] = abc[i]
      /\ \A i \in 1 .. Len(d) : (abc \o d)[Len(abc) + i] = d[i]
  <2>1. abc \in Seq(S)
    BY <1>3
  <2>2. QED
    BY <2>1, ConcatPlaces
<1>5. \A i \in 1 .. Len(a) : (abc \o d)[i] = a[i]
  <2>1. \A i \in 1 .. Len(a) : i \in 1 .. Len(ab) /\ i \in 1 .. Len(abc)
    BY <1>1, <1>2, <1>3
  <2>2. QED
    BY <1>1, <1>3, <1>4, <2>1
<1>6. \A i \in 1 .. Len(b) : (abc \o d)[Len(a) + i] = b[i]
  <2>1. \A i \in 1 .. Len(b) : Len(a) + i \in 1 .. Len(ab) /\ Len(a) + i \in 1 .. Len(abc)
    BY <1>1, <1>2, <1>3
  <2>2. QED
    BY <1>1, <1>3, <1>4, <2>1
<1>7. \A i \in 1 .. Len(c) : (abc \o d)[Len(a) + Len(b) + i] = c[i]
  <2>1. \A i \in 1 .. Len(c) : Len(ab) + i \in 1 .. Len(abc)
    BY <1>1, <1>2, <1>3
  <2>2. QED
    BY <1>1, <1>3, <1>4, <2>1
<1>8. \A i \in 1 .. Len(d) : (abc \o d)[Len(a) + Len(b) + Len(c) + i] = d[i]
  BY <1>1, <1>3, <1>4
<1>9. all = abc \o d
  BY DEF ab, abc
<1>10. QED
  BY <1>1, <1>2, <1>3, <1>4, <1>5, <1>6, <1>7, <1>8, <1>9

(* The components but for the exception handler, and the four orders. *)
OtherComponent == Component \ {"exceptions"}

LEMMA Orders ==
  ASSUME platform \in {"linux", "windows", "msystem"}
  PROVE  /\ InitBefore \in Seq(OtherComponent) /\ InitAfter \in Seq(OtherComponent)
         /\ TermBefore \in Seq(OtherComponent) /\ TermAfter \in Seq(OtherComponent)
         /\ Len(InitBefore) \in Nat /\ Len(InitAfter) \in Nat
         /\ Len(TermBefore) \in Nat /\ Len(TermAfter) \in Nat
         /\ platform = "linux" => CreatePlace = 2
         /\ \A c \in OtherComponent :
              \/ \E i \in 1 .. Len(InitBefore) : InitBefore[i] = c
              \/ \E i \in 1 .. Len(InitAfter) : InitAfter[i] = c
<1>1. /\ "modules" \in OtherComponent /\ "symbols" \in OtherComponent
      /\ "threads" \in OtherComponent /\ "stacks" \in OtherComponent
      /\ "images" \in OtherComponent /\ "lifesigns" \in OtherComponent
  BY DEF OtherComponent, Component
<1>2. /\ OtherComponent = {"modules", "symbols", "threads", "stacks", "images", "lifesigns"}
  BY DEF OtherComponent, Component
<1>3. CASE platform = "linux"
  <2>1. /\ InitBefore = <<>> /\ TermAfter = <<>>
        /\ InitAfter = <<"modules", "symbols", "threads", "stacks", "images", "lifesigns">>
        /\ TermBefore = <<"lifesigns", "images", "stacks", "threads", "symbols", "modules">>
    BY <1>3 DEF InitBefore, InitAfter, TermBefore, TermAfter
  <2>2. /\ InitBefore \in Seq(OtherComponent) /\ InitAfter \in Seq(OtherComponent)
        /\ TermBefore \in Seq(OtherComponent) /\ TermAfter \in Seq(OtherComponent)
    <3>1. <<>> \in Seq(OtherComponent)
      OBVIOUS
    <3>2. <<"modules", "symbols", "threads", "stacks", "images", "lifesigns">> \in Seq(OtherComponent)
      BY <1>1
    <3>3. <<"lifesigns", "images", "stacks", "threads", "symbols", "modules">> \in Seq(OtherComponent)
      BY <1>1
    <3>4. QED
      BY <2>1, <3>1, <3>2, <3>3
  <2>3. CreatePlace = 2
    BY <2>1 DEF CreatePlace
  <2>4. \A c \in OtherComponent : \E i \in 1 .. Len(InitAfter) : InitAfter[i] = c
    <3>1. /\ InitAfter[1] = "modules" /\ InitAfter[2] = "symbols" /\ InitAfter[3] = "threads"
          /\ InitAfter[4] = "stacks" /\ InitAfter[5] = "images" /\ InitAfter[6] = "lifesigns"
          /\ Len(InitAfter) = 6
      BY <2>1
    <3>2. QED
      BY <1>2, <3>1
  <2>5. QED
    BY <2>2, <2>3, <2>4
<1>4. CASE platform # "linux"
  <2>1. /\ InitBefore = <<"modules", "symbols">>
        /\ InitAfter = <<"threads", "stacks", "images", "lifesigns">>
        /\ TermBefore = <<"lifesigns", "images", "stacks">>
        /\ TermAfter = <<"threads", "symbols", "modules">>
    BY <1>4 DEF InitBefore, InitAfter, TermBefore, TermAfter
  <2>2. /\ InitBefore \in Seq(OtherComponent) /\ InitAfter \in Seq(OtherComponent)
        /\ TermBefore \in Seq(OtherComponent) /\ TermAfter \in Seq(OtherComponent)
    <3>1. <<"modules", "symbols">> \in Seq(OtherComponent)
      BY <1>1
    <3>2. <<"threads", "stacks", "images", "lifesigns">> \in Seq(OtherComponent)
      BY <1>1
    <3>3. <<"lifesigns", "images", "stacks">> \in Seq(OtherComponent)
      BY <1>1
    <3>4. <<"threads", "symbols", "modules">> \in Seq(OtherComponent)
      BY <1>1
    <3>5. QED
      BY <2>1, <3>1, <3>2, <3>3, <3>4
  <2>3. \A c \in OtherComponent :
              \/ \E i \in 1 .. Len(InitBefore) : InitBefore[i] = c
              \/ \E i \in 1 .. Len(InitAfter) : InitAfter[i] = c
    <3>1. /\ InitBefore[1] = "modules" /\ InitBefore[2] = "symbols" /\ InitAfter[1] = "threads"
          /\ InitAfter[2] = "stacks" /\ InitAfter[3] = "images" /\ InitAfter[4] = "lifesigns"
          /\ Len(InitBefore) = 2 /\ Len(InitAfter) = 4
      BY <2>1
    <3>2. QED
      BY <1>2, <3>1
  <2>4. QED
    BY <1>4, <2>2, <2>3
<1>5. QED
  BY <1>3, <1>4

(* The components in the order of initialisation on Linux, and the places of
   a component's init step and of the clearing of its pointer, which
   destroying it follows. *)
Rank(c) ==
  CASE c = "modules" -> 1 [] c = "symbols" -> 2 [] c = "threads" -> 3
    [] c = "stacks" -> 4 [] c = "images" -> 5 [] c = "lifesigns" -> 6
InitPlace(c) ==
  IF platform # "linux" /\ c \in {"modules", "symbols"}
    THEN 1 + Rank(c) ELSE Len(Signals) + 3 + Rank(c)
TermPlace(c) ==
  IF platform # "linux" /\ c \in {"modules", "symbols", "threads"}
    THEN Len(Signals) + 15 - 2 * Rank(c) ELSE 13 - 2 * Rank(c)

LEMMA PlacesByRank ==
  ASSUME platform \in {"linux", "windows", "msystem"}
  PROVE  /\ \A i \in 1 .. Len(InitBefore) : InitPlace(InitBefore[i]) = 1 + i
         /\ \A i \in 1 .. Len(InitAfter) :
              InitPlace(InitAfter[i]) = Len(InitBefore) + Len(Signals) + 3 + i
         /\ \A i \in 1 .. Len(TermBefore) : TermPlace(TermBefore[i]) = 2 * i - 1
         /\ \A i \in 1 .. Len(TermAfter) :
              TermPlace(TermAfter[i]) = 2 * Len(TermBefore) + Len(Signals) + 2 + (2 * i - 1)
         /\ Len(TermBefore) + Len(TermAfter) = 6
         /\ ClearPlace = IF platform = "linux" THEN 13 ELSE 7
<1>1. Len(Signals) \in Nat
  BY SignalsSequence
<1>2. /\ Rank("modules") = 1 /\ Rank("symbols") = 2 /\ Rank("threads") = 3
      /\ Rank("stacks") = 4 /\ Rank("images") = 5 /\ Rank("lifesigns") = 6
  BY DEF Rank
<1>3. CASE platform = "linux"
  <2>1. /\ InitBefore = <<>> /\ TermAfter = <<>>
        /\ InitAfter = <<"modules", "symbols", "threads", "stacks", "images", "lifesigns">>
        /\ TermBefore = <<"lifesigns", "images", "stacks", "threads", "symbols", "modules">>
    BY <1>3 DEF InitBefore, InitAfter, TermBefore, TermAfter
  <2>2. /\ InitAfter[1] = "modules" /\ InitAfter[2] = "symbols" /\ InitAfter[3] = "threads"
        /\ InitAfter[4] = "stacks" /\ InitAfter[5] = "images" /\ InitAfter[6] = "lifesigns"
        /\ Len(InitAfter) = 6 /\ Len(InitBefore) = 0
    BY <2>1
  <2>3. /\ TermBefore[1] = "lifesigns" /\ TermBefore[2] = "images" /\ TermBefore[3] = "stacks"
        /\ TermBefore[4] = "threads" /\ TermBefore[5] = "symbols" /\ TermBefore[6] = "modules"
        /\ Len(TermBefore) = 6 /\ Len(TermAfter) = 0
    BY <2>1
  <2>4. \A i \in 1 .. 6 : InitPlace(InitAfter[i]) = Len(Signals) + 3 + i
    BY <1>1, <1>2, <1>3, <2>2 DEF InitPlace
  <2>5. \A i \in 1 .. 6 : TermPlace(TermBefore[i]) = 2 * i - 1
    BY <1>1, <1>2, <1>3, <2>3 DEF TermPlace
  <2>6. QED
    BY <1>1, <1>3, <2>2, <2>3, <2>4, <2>5 DEF ClearPlace
<1>4. CASE platform # "linux"
  <2>1. /\ InitBefore = <<"modules", "symbols">>
        /\ InitAfter = <<"threads", "stacks", "images", "lifesigns">>
        /\ TermBefore = <<"lifesigns", "images", "stacks">>
        /\ TermAfter = <<"threads", "symbols", "modules">>
    BY <1>4 DEF InitBefore, InitAfter, TermBefore, TermAfter
  <2>2. /\ InitBefore[1] = "modules" /\ InitBefore[2] = "symbols" /\ InitAfter[1] = "threads"
        /\ InitAfter[2] = "stacks" /\ InitAfter[3] = "images" /\ InitAfter[4] = "lifesigns"
        /\ Len(InitAfter) = 4 /\ Len(InitBefore) = 2
    BY <2>1
  <2>3. /\ TermBefore[1] = "lifesigns" /\ TermBefore[2] = "images" /\ TermBefore[3] = "stacks"
        /\ TermAfter[1] = "threads" /\ TermAfter[2] = "symbols" /\ TermAfter[3] = "modules"
        /\ Len(TermBefore) = 3 /\ Len(TermAfter) = 3
    BY <2>1
  <2>4. /\ \A i \in 1 .. 2 : InitPlace(InitBefore[i]) = 1 + i
        /\ \A i \in 1 .. 4 : InitPlace(InitAfter[i]) = 2 + Len(Signals) + 3 + i
    BY <1>1, <1>2, <1>4, <2>2 DEF InitPlace
  <2>5. /\ \A i \in 1 .. 3 : TermPlace(TermBefore[i]) = 2 * i - 1
        /\ \A i \in 1 .. 3 : TermPlace(TermAfter[i]) = 6 + Len(Signals) + 2 + (2 * i - 1)
    <3>1. /\ TermPlace("lifesigns") = 1 /\ TermPlace("images") = 3 /\ TermPlace("stacks") = 5
      BY <1>2 DEF TermPlace
    <3>2. /\ TermPlace("threads") = Len(Signals) + 9
          /\ TermPlace("symbols") = Len(Signals) + 11
          /\ TermPlace("modules") = Len(Signals) + 13
      BY <1>1, <1>2, <1>4 DEF TermPlace
    <3>3. \A i \in 1 .. 3 : i = 1 \/ i = 2 \/ i = 3
      OBVIOUS
    <3>4. \A i \in 1 .. 3 : TermPlace(TermBefore[i]) = 2 * i - 1
      BY <2>3, <3>1, <3>3
    <3>5. \A i \in 1 .. 3 : TermPlace(TermAfter[i]) = 6 + Len(Signals) + 2 + (2 * i - 1)
      BY <1>1, <2>3, <3>2, <3>3
    <3>6. QED
      BY <3>4, <3>5
  <2>6. QED
    BY <1>1, <1>4, <2>2, <2>3, <2>4, <2>5 DEF ClearPlace
<1>5. QED
  BY <1>3, <1>4

LEMMA InitsPlaces ==
  ASSUME NEW order \in Seq(OtherComponent)
  PROVE  /\ Inits(order) \in Seq(AnyStep) /\ Len(Inits(order)) = Len(order)
         /\ \A i \in 1 .. Len(order) : Inits(order)[i] = Step("init", order[i])
<1>1. Len(order) \in Nat /\ \A i \in 1 .. Len(order) : order[i] \in Names
  BY DEF Names, OtherComponent
<1>2. Inits(order) = [i \in 1 .. Len(order) |-> Step("init", order[i])]
  BY DEF Inits
<1>3. \A i \in 1 .. Len(order) : Step("init", order[i]) \in AnyStep
  BY <1>1, StepType DEF Doings
<1>4. QED
  BY <1>1, <1>2, <1>3

LEMMA Halves ==
  ASSUME NEW i \in Nat, NEW j \in Int, j = (i + 1) \div 2
  PROVE  \/ i % 2 = 1 /\ i = 2 * j - 1
         \/ i % 2 # 1 /\ i = 2 * j
OBVIOUS

LEMMA TermsPlaces ==
  ASSUME NEW order \in Seq(OtherComponent)
  PROVE  /\ Terms(order) \in Seq(AnyStep) /\ Len(Terms(order)) = 2 * Len(order)
         /\ \A i \in 1 .. 2 * Len(order) : \E j \in 1 .. Len(order) :
              \/ i = 2 * j - 1 /\ Terms(order)[i] = Step("clear", order[j])
              \/ i = 2 * j /\ Terms(order)[i] = Step("destroy", order[j])
<1> DEFINE do(i) == IF i % 2 = 1 THEN "clear" ELSE "destroy"
           c(i) == order[(i + 1) \div 2]
<1>1. Len(order) \in Nat
  OBVIOUS
<1>2. \A i \in 1 .. 2 * Len(order) : (i + 1) \div 2 \in 1 .. Len(order)
  BY <1>1
<1>3. \A i \in 1 .. 2 * Len(order) : c(i) \in OtherComponent /\ c(i) \in Names
  BY <1>2 DEF Names, OtherComponent
<1>4. Terms(order) = [i \in 1 .. 2 * Len(order) |-> Step(do(i), c(i))]
  BY DEF Terms
<1>5. \A i \in 1 .. 2 * Len(order) : Step(do(i), c(i)) \in AnyStep
  BY <1>3, StepType DEF Doings
<1> HIDE DEF c
<1>6. Terms(order) \in Seq(AnyStep) /\ Len(Terms(order)) = 2 * Len(order)
  BY <1>1, <1>4, <1>5
<1>7. ASSUME NEW i \in 1 .. 2 * Len(order)
      PROVE  \E j \in 1 .. Len(order) :
               \/ i = 2 * j - 1 /\ Terms(order)[i] = Step("clear", order[j])
               \/ i = 2 * j /\ Terms(order)[i] = Step("destroy", order[j])
  <2>1. PICK j : j = (i + 1) \div 2
    OBVIOUS
  <2>2. j \in 1 .. Len(order)
    BY <1>2, <2>1
  <2>3. Terms(order)[i] = Step(do(i), order[j])
    BY <1>4, <2>1 DEF c
  <2>4. \/ i % 2 = 1 /\ i = 2 * j - 1
        \/ i % 2 # 1 /\ i = 2 * j
    <3>1. i \in Nat /\ j \in Int
      BY <1>1, <2>2
    <3>2. QED
      BY ONLY <3>1, <2>1, Halves
  <2>5. QED
    BY <2>2, <2>3, <2>4
<1>8. QED
  BY <1>6, <1>7

(* The steps of initDbgUtil, by place. *)
LEMMA InitPlaces ==
  ASSUME platform \in {"linux", "windows", "msystem"}
  PROVE  /\ InitSteps \in Seq(AnyStep)
         /\ Len(Signals) \in Nat /\ CreatePlace \in Nat /\ CreatePlace > 1
         /\ Len(InitSteps) \in Nat /\ Len(InitSteps) > CreatePlace + Len(Signals) + 1
         /\ InitSteps[1] = Step("createKey", "log")
         /\ InitSteps[CreatePlace] = Step("createHandler", "exceptions")
         /\ \A j \in 1 .. Len(Signals) : InitSteps[CreatePlace + j] = Step("register", Signals[j])
         /\ InitSteps[CreatePlace + Len(Signals) + 1] = Step("publish", "exceptions")
         /\ InitSteps[Len(InitSteps)] = Step("finish", "library")
         /\ \A k \in 1 .. Len(InitSteps) :
              \/ k \in {1, CreatePlace, CreatePlace + Len(Signals) + 1, Len(InitSteps)}
              \/ k - CreatePlace \in 1 .. Len(Signals)
              \/ \E c \in OtherComponent : InitSteps[k] = Step("init", c) /\ k = InitPlace(c)
         /\ \A c \in OtherComponent :
              \E k \in 1 .. Len(InitSteps) - 1 : InitSteps[k] = Step("init", c)
<1> DEFINE h == <<Step("createKey", "log")>>
           p == Inits(InitBefore)
           q == InitExceptions
           r == Inits(InitAfter)
           d == <<Step("finish", "library")>>
           n == Len(Signals)
           a == h \o p
           lp == Len(InitBefore)
           lr == Len(InitAfter)
<1>1. /\ h \in Seq(AnyStep) /\ Len(h) = 1 /\ h[1] = Step("createKey", "log")
      /\ d \in Seq(AnyStep) /\ Len(d) = 1 /\ d[1] = Step("finish", "library")
  BY StepType DEF Doings, Names
<1>2. /\ p \in Seq(AnyStep) /\ Len(p) = lp /\ lp \in Nat
      /\ \A i \in 1 .. lp : p[i] = Step("init", InitBefore[i])
      /\ r \in Seq(AnyStep) /\ Len(r) = lr /\ lr \in Nat
      /\ \A i \in 1 .. lr : r[i] = Step("init", InitAfter[i])
  BY Orders, InitsPlaces
<1>3. /\ \A i \in 1 .. lp : InitBefore[i] \in OtherComponent
      /\ \A i \in 1 .. lr : InitAfter[i] \in OtherComponent
      /\ \A c \in OtherComponent : \/ \E i \in 1 .. lp : InitBefore[i] = c
                                   \/ \E i \in 1 .. lr : InitAfter[i] = c
  <2>1. InitBefore \in Seq(OtherComponent) /\ InitAfter \in Seq(OtherComponent)
    BY Orders
  <2>2. /\ \A i \in 1 .. lp : InitBefore[i] \in OtherComponent
        /\ \A i \in 1 .. lr : InitAfter[i] \in OtherComponent
    BY <2>1
  <2>3. QED
    BY <2>2, Orders
<1>4. /\ q \in Seq(AnyStep) /\ Len(q) = n + 2 /\ n \in Nat
      /\ q[1] = Step("createHandler", "exceptions")
      /\ \A j \in 1 .. n : q[1 + j] = Step("register", Signals[j])
      /\ q[n + 2] = Step("publish", "exceptions")
  BY InitExceptionsPlaces, SignalsSequence
<1>5. InitSteps = (a \o q \o r) \o d
  BY DEF InitSteps
<1>6. CreatePlace = lp + 2
  BY DEF CreatePlace
<1> HIDE DEF h, p, q, r, d, n, lp, lr
<1>7. /\ a \in Seq(AnyStep) /\ Len(a) = 1 + lp
      /\ a[1] = Step("createKey", "log")
      /\ \A i \in 1 .. lp : a[1 + i] = Step("init", InitBefore[i])
  <2>1. /\ a \in Seq(AnyStep) /\ Len(a) = Len(h) + Len(p)
        /\ \A i \in 1 .. Len(h) : a[i] = h[i]
        /\ \A i \in 1 .. Len(p) : a[Len(h) + i] = p[i]
    <3>1. h \in Seq(AnyStep) /\ p \in Seq(AnyStep)
      BY <1>1, <1>2
    <3>2. QED
      BY ONLY <3>1, ConcatPlaces, SMTT(60)
  <2>2. QED
    BY <1>1, <1>2, <2>1
<1> HIDE DEF a
<1>8. /\ InitSteps \in Seq(AnyStep)
      /\ Len(InitSteps) = Len(a) + Len(q) + Len(r) + Len(d)
      /\ \A i \in 1 .. Len(a) : InitSteps[i] = a[i]
      /\ \A i \in 1 .. Len(q) : InitSteps[Len(a) + i] = q[i]
      /\ \A i \in 1 .. Len(r) : InitSteps[Len(a) + Len(q) + i] = r[i]
      /\ \A i \in 1 .. Len(d) : InitSteps[Len(a) + Len(q) + Len(r) + i] = d[i]
  <2>1. a \in Seq(AnyStep) /\ q \in Seq(AnyStep) /\ r \in Seq(AnyStep) /\ d \in Seq(AnyStep)
    BY <1>1, <1>2, <1>4, <1>7
  <2>2. QED
    BY <2>1, <1>5, ThreeParts, SMTT(20)
<1>9. /\ Len(InitSteps) = lp + n + lr + 4
      /\ \A i \in 1 .. 1 + lp : InitSteps[i] = a[i]
      /\ \A i \in 1 .. n + 2 : InitSteps[lp + 1 + i] = q[i]
      /\ \A i \in 1 .. lr : InitSteps[lp + n + 3 + i] = r[i]
      /\ InitSteps[lp + n + lr + 4] = d[1]
  BY <1>1, <1>2, <1>4, <1>7, <1>8
<1>10. /\ InitSteps[1] = Step("createKey", "log")
       /\ InitSteps[CreatePlace] = Step("createHandler", "exceptions")
       /\ InitSteps[CreatePlace + n + 1] = Step("publish", "exceptions")
       /\ InitSteps[Len(InitSteps)] = Step("finish", "library")
  BY <1>1, <1>2, <1>4, <1>6, <1>7, <1>9
<1>11. \A j \in 1 .. n : InitSteps[CreatePlace + j] = Step("register", Signals[j])
  <2>1. \A j \in 1 .. n : 1 + j \in 1 .. n + 2 /\ lp + 1 + (1 + j) = CreatePlace + j
    BY <1>2, <1>4, <1>6
  <2>2. QED
    BY <1>4, <1>9, <2>1, ZenonT(60)
<1>12. \A i \in 1 .. lp : InitSteps[1 + i] = Step("init", InitBefore[i])
  <2>1. \A i \in 1 .. lp : 1 + i \in 1 .. 1 + lp
    BY <1>2
  <2>2. QED
    BY <1>7, <1>9, <2>1
<1>13. \A i \in 1 .. lr : InitSteps[lp + n + 3 + i] = Step("init", InitAfter[i])
  BY <1>2, <1>9
<1>14. ASSUME NEW k \in 1 .. Len(InitSteps),
              k \notin {1, CreatePlace, CreatePlace + n + 1, Len(InitSteps)},
              k - CreatePlace \notin 1 .. n
       PROVE  \E c \in OtherComponent : InitSteps[k] = Step("init", c) /\ k = InitPlace(c)
  <2>1. k - 1 \in 1 .. lp \/ k - (lp + n + 3) \in 1 .. lr
    <3>1. lp \in Nat /\ lr \in Nat /\ n \in Nat /\ Len(InitSteps) = lp + n + lr + 4
      BY <1>2, <1>4, <1>9
    <3>2. QED
      BY <3>1, <1>6, <1>14
  <2>2. CASE k - 1 \in 1 .. lp
    <3>1. InitSteps[1 + (k - 1)] = Step("init", InitBefore[k - 1]) /\ 1 + (k - 1) = k
      BY <1>9, <1>12, <2>2
    <3>2. InitPlace(InitBefore[k - 1]) = 1 + (k - 1)
      BY <2>2, PlacesByRank DEF lp
    <3>3. QED
      BY <1>3, <2>2, <3>1, <3>2
  <2>3. CASE k - (lp + n + 3) \in 1 .. lr
    <3>1. /\ InitSteps[lp + n + 3 + (k - (lp + n + 3))] = Step("init", InitAfter[k - (lp + n + 3)])
          /\ lp + n + 3 + (k - (lp + n + 3)) = k
      BY <1>2, <1>4, <1>9, <1>13, <2>3
    <3>2. InitPlace(InitAfter[k - (lp + n + 3)]) = lp + n + 3 + (k - (lp + n + 3))
      BY <2>3, PlacesByRank DEF lp, lr, n
    <3>3. QED
      BY <1>3, <2>3, <3>1, <3>2
  <2>4. QED
    BY <2>1, <2>2, <2>3
<1>15. ASSUME NEW c \in OtherComponent
       PROVE  \E k \in 1 .. Len(InitSteps) - 1 : InitSteps[k] = Step("init", c)
  <2>1. ASSUME NEW i \in 1 .. lp, InitBefore[i] = c
        PROVE  \E k \in 1 .. Len(InitSteps) - 1 : InitSteps[k] = Step("init", c)
    <3>1. 1 + i \in 1 .. Len(InitSteps) - 1
      BY <1>2, <1>4, <1>9
    <3>2. QED
      BY <1>12, <2>1, <3>1
  <2>2. ASSUME NEW i \in 1 .. lr, InitAfter[i] = c
        PROVE  \E k \in 1 .. Len(InitSteps) - 1 : InitSteps[k] = Step("init", c)
    <3>1. lp + n + 3 + i \in 1 .. Len(InitSteps) - 1
      BY <1>2, <1>4, <1>9, SMTT(20)
    <3>2. QED
      BY <1>13, <2>2, <3>1
  <2>3. QED
    BY <1>3, <2>1, <2>2
<1>16. /\ CreatePlace \in Nat /\ CreatePlace > 1 /\ n \in Nat
       /\ Len(InitSteps) \in Nat /\ Len(InitSteps) > CreatePlace + n + 1
  BY <1>2, <1>4, <1>6, <1>9
<1>17. QED
  BY <1>8, <1>10, <1>11, <1>14, <1>15, <1>16 DEF n

(* The steps of termDbgUtil, by place. *)
LEMMA TermPlaces ==
  ASSUME platform \in {"linux", "windows", "msystem"}
  PROVE  /\ TermSteps \in Seq(AnyStep)
         /\ Len(Signals) \in Nat /\ ClearPlace \in Nat /\ ClearPlace > 0
         /\ Len(TermSteps) \in Nat /\ Len(TermSteps) > ClearPlace + Len(Signals) + 1
         /\ TermSteps[ClearPlace] = Step("clear", "exceptions")
         /\ \A j \in 1 .. Len(Signals) : TermSteps[ClearPlace + j] = Step("restore", Signals[j])
         /\ TermSteps[ClearPlace + Len(Signals) + 1] = Step("destroyHandler", "exceptions")
         /\ TermSteps[Len(TermSteps)] = Step("destroyKey", "log")
         /\ \A k \in 1 .. Len(TermSteps) :
              \/ k \in {ClearPlace, ClearPlace + Len(Signals) + 1, Len(TermSteps)}
              \/ k - ClearPlace \in 1 .. Len(Signals)
              \/ \E c \in OtherComponent :
                   \/ k = TermPlace(c) /\ TermSteps[k] = Step("clear", c)
                   \/ k = TermPlace(c) + 1 /\ TermSteps[k] = Step("destroy", c)
         /\ Len(TermSteps) = Len(Signals) + 15
<1> DEFINE p == Terms(TermBefore)
           q == TermExceptions
           r == Terms(TermAfter)
           d == <<Step("destroyKey", "log")>>
           n == Len(Signals)
           lp == 2 * Len(TermBefore)
           lr == 2 * Len(TermAfter)
<1>1. d \in Seq(AnyStep) /\ Len(d) = 1 /\ d[1] = Step("destroyKey", "log")
  BY StepType DEF Doings, Names
<1>2. /\ p \in Seq(AnyStep) /\ Len(p) = lp /\ lp \in Nat
      /\ \A i \in 1 .. lp : \E c \in OtherComponent :
           \/ i = TermPlace(c) /\ p[i] = Step("clear", c)
           \/ i = TermPlace(c) + 1 /\ p[i] = Step("destroy", c)
  <2>1. /\ TermBefore \in Seq(OtherComponent) /\ Len(TermBefore) \in Nat
        /\ \A j \in 1 .. Len(TermBefore) : TermPlace(TermBefore[j]) = 2 * j - 1
    BY Orders, PlacesByRank
  <2>2. /\ p \in Seq(AnyStep) /\ Len(p) = lp
        /\ \A i \in 1 .. lp : \E j \in 1 .. Len(TermBefore) :
             \/ i = 2 * j - 1 /\ p[i] = Step("clear", TermBefore[j])
             \/ i = 2 * j /\ p[i] = Step("destroy", TermBefore[j])
    BY <2>1, TermsPlaces
  <2>3. ASSUME NEW i \in 1 .. lp
        PROVE  \E c \in OtherComponent :
                 \/ i = TermPlace(c) /\ p[i] = Step("clear", c)
                 \/ i = TermPlace(c) + 1 /\ p[i] = Step("destroy", c)
    <3>1. PICK j \in 1 .. Len(TermBefore) :
             \/ i = 2 * j - 1 /\ p[i] = Step("clear", TermBefore[j])
             \/ i = 2 * j /\ p[i] = Step("destroy", TermBefore[j])
      BY <2>2, <2>3
    <3>2. TermBefore[j] \in OtherComponent /\ TermPlace(TermBefore[j]) = 2 * j - 1
      BY <2>1
    <3>3. 2 * j = TermPlace(TermBefore[j]) + 1
      BY <2>1, <3>2
    <3>4. QED
      BY <3>1, <3>2, <3>3
  <2>4. QED
    BY <2>1, <2>2, <2>3
<1>3. /\ r \in Seq(AnyStep) /\ Len(r) = lr /\ lr \in Nat
      /\ \A i \in 1 .. lr : \E c \in OtherComponent :
           \/ lp + n + 2 + i = TermPlace(c) /\ r[i] = Step("clear", c)
           \/ lp + n + 2 + i = TermPlace(c) + 1 /\ r[i] = Step("destroy", c)
  <2>1. /\ TermAfter \in Seq(OtherComponent) /\ Len(TermAfter) \in Nat /\ n \in Nat
        /\ lp \in Nat
        /\ \A j \in 1 .. Len(TermAfter) : TermPlace(TermAfter[j]) = lp + n + 2 + (2 * j - 1)
    BY Orders, PlacesByRank, SignalsSequence
  <2>2. /\ r \in Seq(AnyStep) /\ Len(r) = lr
        /\ \A i \in 1 .. lr : \E j \in 1 .. Len(TermAfter) :
             \/ i = 2 * j - 1 /\ r[i] = Step("clear", TermAfter[j])
             \/ i = 2 * j /\ r[i] = Step("destroy", TermAfter[j])
    BY <2>1, TermsPlaces
  <2>3. ASSUME NEW i \in 1 .. lr
        PROVE  \E c \in OtherComponent :
                 \/ lp + n + 2 + i = TermPlace(c) /\ r[i] = Step("clear", c)
                 \/ lp + n + 2 + i = TermPlace(c) + 1 /\ r[i] = Step("destroy", c)
    <3>1. PICK j \in 1 .. Len(TermAfter) :
             \/ i = 2 * j - 1 /\ r[i] = Step("clear", TermAfter[j])
             \/ i = 2 * j /\ r[i] = Step("destroy", TermAfter[j])
      BY <2>2, <2>3
    <3>2. TermAfter[j] \in OtherComponent /\ TermPlace(TermAfter[j]) = lp + n + 2 + (2 * j - 1)
      BY <2>1
    <3> HIDE DEF lp, n
    <3>3. lp + n + 2 + 2 * j = TermPlace(TermAfter[j]) + 1
      BY <2>1, <3>2
    <3>4. QED
      BY <3>1, <3>2, <3>3
  <2>4. QED
    BY <2>1, <2>2, <2>3
<1>4. /\ q \in Seq(AnyStep) /\ Len(q) = n + 2 /\ n \in Nat
      /\ q[1] = Step("clear", "exceptions")
      /\ \A j \in 1 .. n : q[1 + j] = Step("restore", Signals[j])
      /\ q[n + 2] = Step("destroyHandler", "exceptions")
  BY TermExceptionsPlaces, SignalsSequence
<1>5. TermSteps = (p \o q \o r) \o d
  BY DEF TermSteps
<1>6. ClearPlace = lp + 1
  BY DEF ClearPlace
<1> HIDE DEF p, q, r, d, n, lp, lr
<1>7. /\ TermSteps \in Seq(AnyStep)
      /\ Len(TermSteps) = Len(p) + Len(q) + Len(r) + Len(d)
      /\ \A i \in 1 .. Len(p) : TermSteps[i] = p[i]
      /\ \A i \in 1 .. Len(q) : TermSteps[Len(p) + i] = q[i]
      /\ \A i \in 1 .. Len(r) : TermSteps[Len(p) + Len(q) + i] = r[i]
      /\ \A i \in 1 .. Len(d) : TermSteps[Len(p) + Len(q) + Len(r) + i] = d[i]
  <2>1. p \in Seq(AnyStep) /\ q \in Seq(AnyStep) /\ r \in Seq(AnyStep) /\ d \in Seq(AnyStep)
    BY <1>1, <1>2, <1>3, <1>4
  <2>2. QED
    BY <2>1, <1>5, ThreeParts
<1>8. /\ Len(TermSteps) = lp + n + lr + 3
      /\ \A i \in 1 .. lp : TermSteps[i] = p[i]
      /\ \A i \in 1 .. n + 2 : TermSteps[lp + i] = q[i]
      /\ \A i \in 1 .. lr : TermSteps[lp + n + 2 + i] = r[i]
      /\ TermSteps[lp + n + lr + 3] = d[1]
  <2>1. /\ Len(p) = lp /\ Len(q) = n + 2 /\ Len(r) = lr /\ Len(d) = 1
        /\ lp \in Nat /\ n \in Nat /\ lr \in Nat
    BY <1>1, <1>2, <1>3, <1>4
  <2>2. QED
    BY <2>1, <1>7
<1>9. /\ TermSteps[ClearPlace] = Step("clear", "exceptions")
      /\ TermSteps[ClearPlace + n + 1] = Step("destroyHandler", "exceptions")
      /\ TermSteps[Len(TermSteps)] = Step("destroyKey", "log")
  BY <1>1, <1>2, <1>4, <1>6, <1>8
<1>10. \A j \in 1 .. n : TermSteps[ClearPlace + j] = Step("restore", Signals[j])
  <2>1. \A j \in 1 .. n : 1 + j \in 1 .. n + 2 /\ lp + (1 + j) = ClearPlace + j
    BY <1>2, <1>4, <1>6
  <2>2. QED
    BY <1>4, <1>8, <2>1
<1>11. ASSUME NEW k \in 1 .. Len(TermSteps),
              k \notin {ClearPlace, ClearPlace + n + 1, Len(TermSteps)},
              k - ClearPlace \notin 1 .. n
       PROVE  \E c \in OtherComponent :
                \/ k = TermPlace(c) /\ TermSteps[k] = Step("clear", c)
                \/ k = TermPlace(c) + 1 /\ TermSteps[k] = Step("destroy", c)
  <2>1. k \in 1 .. lp \/ k - (lp + n + 2) \in 1 .. lr
    BY <1>2, <1>3, <1>4, <1>6, <1>8, <1>11
  <2>2. CASE k \in 1 .. lp
    BY <1>2, <1>8, <2>2
  <2>3. CASE k - (lp + n + 2) \in 1 .. lr
    <3>1. /\ TermSteps[lp + n + 2 + (k - (lp + n + 2))] = r[k - (lp + n + 2)]
          /\ lp + n + 2 + (k - (lp + n + 2)) = k
      BY <1>2, <1>4, <1>8, <2>3
    <3>2. QED
      BY <1>3, <2>3, <3>1
  <2>4. QED
    BY <2>1, <2>2, <2>3
<1>12. /\ ClearPlace \in Nat /\ ClearPlace > 0 /\ n \in Nat
       /\ Len(TermSteps) \in Nat /\ Len(TermSteps) > ClearPlace + n + 1
  BY <1>2, <1>3, <1>4, <1>6, <1>8
<1>13. Len(TermSteps) = Len(Signals) + 15
  <2>1. Len(TermBefore) + Len(TermAfter) = 6 /\ Len(TermBefore) \in Nat /\ Len(TermAfter) \in Nat
    BY Orders, PlacesByRank
  <2>2. lp + lr = 12
    BY <2>1 DEF lp, lr
  <2>3. QED
    BY <1>2, <1>3, <1>4, <1>8, <2>2 DEF n
<1>14. QED
  BY <1>7, <1>9, <1>10, <1>11, <1>12, <1>13 DEF n

-----------------------------------------------------------------------------
(* The inductive invariant.                                                *)

Types ==
  /\ platform \in {"linux", "windows", "msystem"}
  /\ phase \in {"down", "init", "up", "term", "broken", "stuck"}
  /\ disposition \in [SignalSet -> {"app", "ours", "default"}]
  /\ previous \in [SignalSet -> {"none", "app", "ours", "default"}]
  /\ instances \subseteq Component /\ installed \subseteq Component
  /\ logKey \in BOOLEAN /\ hooking \in BOOLEAN /\ unrestored \in BOOLEAN
  /\ terminator \in {"app", "ours"} /\ prevTerminator \in {"app", "ours"}

Complete == installed = Component /\ instances = Component /\ logKey

HandlerExists == "exceptions" \in instances

(* What a step of initDbgUtil that was made has left behind. *)
Done(step) ==
  /\ step.do = "createKey" => logKey
  /\ step.do = "createHandler" => HandlerExists
  /\ step.do = "publish" => "exceptions" \in installed
  /\ step.do = "init" => step.what \in instances /\ step.what \in installed

(* On Linux, and as long as no handler could not be restored. *)
Restorable == platform = "linux" /\ ~ unrestored
SignalPlaces == DOMAIN LinuxSignals
Saved(j) == previous[LinuxSignals[j]]

(* From the m-th signal on, those with a saved handler come first. *)
SavedFirst(m) ==
  \A i, j \in SignalPlaces : m <= i /\ i < j /\ Saved(i) = "none" => Saved(j) = "none"

(* initDbgUtil is at its k-th step. *)
SignalsStarting(k) ==
  /\ SavedFirst(1)
  /\ \A j \in SignalPlaces :
       /\ k <= j + 2 => Saved(j) = "none"
       /\ j + 2 < k /\ k <= Len(LinuxSignals) + 2 => Saved(j) = "app"
Starting(k) ==
  /\ todo = From(InitSteps, k)
  /\ \A i \in 1 .. k - 1 : Done(InitSteps[i])
  /\ k <= CreatePlace /\ (k > 1 \/ ~ logKey) => ~ HandlerExists
  /\ Restorable /\ k > 2 => SignalsStarting(k)

(* termDbgUtil is at its k-th step. *)
SignalsEnding(k) ==
  /\ SavedFirst(k - ClearPlace)
  /\ \A j \in SignalPlaces : ClearPlace + j < k => Saved(j) = "none"
Ending(k) ==
  /\ todo = From(TermSteps, k)
  /\ HandlerExists <=> k <= ClearPlace + Len(Signals) + 1
  /\ Restorable => SignalsEnding(k)

PhaseInv ==
  /\ phase = "init" => \E k \in 1 .. Len(InitSteps) : Starting(k)
  /\ phase = "term" => \E k \in 1 .. Len(TermSteps) : Ending(k)
  /\ phase \notin {"init", "term"} => todo = <<>>
  /\ phase = "up" => Complete /\ (Restorable => SavedFirst(1))
  /\ phase = "down" => ~ logKey /\ ~ HandlerExists
  /\ phase = "broken" => logKey \/ ~ HandlerExists

(* The application's handlers are where the library will find them. *)
HandlerInv ==
  /\ terminator = IF hooking /\ HandlerExists THEN "ours" ELSE "app"
  /\ hooking /\ HandlerExists => prevTerminator = "app"
  /\ Restorable => \A j \in SignalPlaces :
       \/ disposition[LinuxSignals[j]] = "app" /\ Saved(j) = "none"
       \/ disposition[LinuxSignals[j]] = "ours" /\ Saved(j) = "app" /\ HandlerExists

(* Under MSYSTEM the filter is not replaced. *)
MsystemInv ==
  platform = "msystem" =>
    \A s \in SignalSet : disposition[s] # "ours" /\ previous[s] = "none"

LifeInv == Types /\ PhaseInv /\ HandlerInv /\ MsystemInv

-----------------------------------------------------------------------------
(* Whose turn it is.                                                       *)

LEMMA StepParts ==
  ASSUME NEW do, NEW what, NEW did, NEW whom, Step(do, what) = Step(did, whom)
  PROVE  do = did /\ what = whom
<1>1. Step(do, what).do = do /\ Step(do, what).what = what
  BY DEF Step
<1>2. Step(did, whom).do = did /\ Step(did, whom).what = whom
  BY DEF Step
<1>3. QED
  BY <1>1, <1>2

(* The steps that only one of the two calls makes. *)
InitDoings == {"createKey", "createHandler", "register", "publish", "init", "finish"}
TermDoings == {"clear", "restore", "destroyHandler", "destroy", "destroyKey"}

(* Where a step of initDbgUtil can stand. *)
PlacedInit(k, do, what) ==
  /\ do = "createKey" => k = 1
  /\ do = "createHandler" => k = CreatePlace
  /\ do = "register" => k - CreatePlace \in 1 .. Len(Signals) /\ Signals[k - CreatePlace] = what
  /\ do = "publish" => k = CreatePlace + Len(Signals) + 1
  /\ do = "init" => /\ what \in OtherComponent
                    /\ k \notin {1, CreatePlace, CreatePlace + Len(Signals) + 1}
                    /\ k - CreatePlace \notin 1 .. Len(Signals)
  /\ do = "finish" <=> k = Len(InitSteps)

LEMMA InitPlaced ==
  ASSUME platform \in {"linux", "windows", "msystem"},
         NEW k \in 1 .. Len(InitSteps), NEW do, NEW what, InitSteps[k] = Step(do, what)
  PROVE  PlacedInit(k, do, what) /\ do \in InitDoings
<1>1. /\ Len(Signals) \in Nat /\ CreatePlace \in Nat /\ CreatePlace > 1 /\ Len(InitSteps) \in Nat
      /\ Len(InitSteps) > CreatePlace + Len(Signals) + 1
  BY InitPlaces
<1>2. CASE k = 1
  <2>1. do = "createKey"
    BY <1>2, InitPlaces, StepParts
  <2>2. k # Len(InitSteps)
    <3> DEFINE n == Len(InitSteps)
    <3>1. n \in Nat /\ n > 1
      BY <1>1
    <3> HIDE DEF n
    <3>2. k # n
      BY <1>2, <3>1
    <3>3. QED
      BY <3>2 DEF n
  <2>3. QED
    BY <1>2, <2>1, <2>2 DEF PlacedInit, InitDoings
<1>3. CASE k = CreatePlace
  <2>1. do = "createHandler"
    BY <1>3, InitPlaces, StepParts
  <2>2. QED
    BY <1>1, <1>3, <2>1 DEF PlacedInit, InitDoings
<1>4. CASE k = CreatePlace + Len(Signals) + 1
  <2>1. do = "publish"
    BY <1>4, InitPlaces, StepParts
  <2>2. QED
    BY <1>1, <1>4, <2>1 DEF PlacedInit, InitDoings
<1>5. CASE k = Len(InitSteps)
  <2>1. do = "finish"
    BY <1>5, InitPlaces, StepParts
  <2>2. QED
    BY <1>1, <1>5, <2>1 DEF PlacedInit, InitDoings
<1>6. CASE k - CreatePlace \in 1 .. Len(Signals)
  <2>1. CreatePlace + (k - CreatePlace) = k /\ k # Len(InitSteps)
    BY <1>1, <1>6
  <2>2. InitSteps[CreatePlace + (k - CreatePlace)] = Step("register", Signals[k - CreatePlace])
    BY <1>6, InitPlaces
  <2>3. do = "register" /\ what = Signals[k - CreatePlace]
    BY <2>1, <2>2, StepParts
  <2>4. QED
    BY <1>1, <1>6, <2>1, <2>3 DEF PlacedInit, InitDoings
<1>7. CASE /\ k \notin {1, CreatePlace, CreatePlace + Len(Signals) + 1, Len(InitSteps)}
           /\ k - CreatePlace \notin 1 .. Len(Signals)
  <2>1. \E c \in OtherComponent : InitSteps[k] = Step("init", c)
    BY <1>7, InitPlaces
  <2>2. do = "init" /\ what \in OtherComponent
    BY <2>1, StepParts
  <2>3. QED
    BY <1>1, <1>7, <2>2 DEF PlacedInit, InitDoings
<1>8. QED
  BY <1>2, <1>3, <1>4, <1>5, <1>6, <1>7

(* Where a step of termDbgUtil can stand. *)
PlacedTerm(k, do, what) ==
  /\ do = "clear" => /\ k # ClearPlace + Len(Signals) + 1
                     /\ k - ClearPlace \notin 1 .. Len(Signals)
  /\ do = "restore" => k - ClearPlace \in 1 .. Len(Signals) /\ Signals[k - ClearPlace] = what
  /\ do = "destroyHandler" => k = ClearPlace + Len(Signals) + 1
  /\ do = "destroy" => /\ what \in OtherComponent
                       /\ k # ClearPlace + Len(Signals) + 1
                       /\ k - ClearPlace \notin 1 .. Len(Signals)
  /\ do = "destroyKey" <=> k = Len(TermSteps)

LEMMA TermPlaced ==
  ASSUME platform \in {"linux", "windows", "msystem"},
         NEW k \in 1 .. Len(TermSteps), NEW do, NEW what, TermSteps[k] = Step(do, what)
  PROVE  PlacedTerm(k, do, what) /\ do \in TermDoings
<1>1. /\ Len(Signals) \in Nat /\ ClearPlace \in Nat /\ ClearPlace > 0 /\ Len(TermSteps) \in Nat
      /\ Len(TermSteps) > ClearPlace + Len(Signals) + 1
  BY TermPlaces
<1>2. CASE k = ClearPlace
  <2>1. do = "clear"
    BY <1>2, TermPlaces, StepParts
  <2>2. QED
    BY <1>1, <1>2, <2>1 DEF PlacedTerm, TermDoings
<1>3. CASE k = ClearPlace + Len(Signals) + 1
  <2>1. do = "destroyHandler"
    BY <1>3, TermPlaces, StepParts
  <2>2. QED
    BY <1>1, <1>3, <2>1 DEF PlacedTerm, TermDoings
<1>4. CASE k = Len(TermSteps)
  <2>1. do = "destroyKey"
    BY <1>4, TermPlaces, StepParts
  <2>2. QED
    BY <1>1, <1>4, <2>1 DEF PlacedTerm, TermDoings
<1>5. CASE k - ClearPlace \in 1 .. Len(Signals)
  <2>1. ClearPlace + (k - ClearPlace) = k /\ k # Len(TermSteps)
    BY <1>1, <1>5
  <2>2. TermSteps[ClearPlace + (k - ClearPlace)] = Step("restore", Signals[k - ClearPlace])
    BY <1>5, TermPlaces
  <2>3. do = "restore" /\ what = Signals[k - ClearPlace]
    BY <2>1, <2>2, StepParts
  <2>4. QED
    BY <1>1, <1>5, <2>1, <2>3 DEF PlacedTerm, TermDoings
<1>6. CASE /\ k \notin {ClearPlace, ClearPlace + Len(Signals) + 1, Len(TermSteps)}
           /\ k - ClearPlace \notin 1 .. Len(Signals)
  <2>1. PICK c \in OtherComponent : TermSteps[k] \in {Step("clear", c), Step("destroy", c)}
    BY <1>6, TermPlaces, ZenonT(60)
  <2>2. do \in {"clear", "destroy"} /\ what \in OtherComponent
    BY <2>1, StepParts
  <2>3. QED
    BY <1>1, <1>6, <2>2 DEF PlacedTerm, TermDoings
<1>7. QED
  BY <1>2, <1>3, <1>4, <1>5, <1>6

(* A step of initDbgUtil is next: it is that call's turn, at the step's
   place. *)
LEMMA InitTurn ==
  ASSUME LifeInv, todo # <<>>, NEW do \in InitDoings, NEW what, Head(todo) = Step(do, what)
  PROVE  /\ phase = "init"
         /\ \E k \in 1 .. Len(InitSteps) :
              /\ Starting(k) /\ InitSteps[k] = Step(do, what) /\ PlacedInit(k, do, what)
              /\ Tail(todo) = From(InitSteps, k + 1)
              /\ k = Len(InitSteps) => Tail(todo) = <<>>
<1>1. platform \in {"linux", "windows", "msystem"}
  BY DEF LifeInv, Types
<1>2. phase # "term"
  <2>1. SUFFICES ASSUME phase = "term" PROVE FALSE
    OBVIOUS
  <2>2. PICK k \in 1 .. Len(TermSteps) : Ending(k)
    BY <2>1 DEF LifeInv, PhaseInv
  <2>3. TermSteps[k] = Step(do, what)
    BY <1>1, <2>2, FromPlaces, TermPlaces DEF Ending
  <2>4. do \in TermDoings
    BY <1>1, <2>3, TermPlaced
  <2>5. QED
    BY <2>4 DEF InitDoings, TermDoings
<1>3. phase = "init"
  BY <1>2 DEF LifeInv, PhaseInv
<1>4. PICK k \in 1 .. Len(InitSteps) : Starting(k)
  BY <1>3 DEF LifeInv, PhaseInv
<1>5. /\ InitSteps[k] = Step(do, what)
      /\ Tail(todo) = From(InitSteps, k + 1)
      /\ k = Len(InitSteps) => Tail(todo) = <<>>
  BY <1>1, <1>4, FromPlaces, InitPlaces, ZenonT(60) DEF Starting
<1>6. PlacedInit(k, do, what)
  BY <1>1, <1>5, InitPlaced
<1>7. QED
  BY <1>3, <1>4, <1>5, <1>6

LEMMA TermTurn ==
  ASSUME LifeInv, todo # <<>>, NEW do \in TermDoings, NEW what, Head(todo) = Step(do, what)
  PROVE  /\ phase = "term"
         /\ \E k \in 1 .. Len(TermSteps) :
              /\ Ending(k) /\ TermSteps[k] = Step(do, what) /\ PlacedTerm(k, do, what)
              /\ Tail(todo) = From(TermSteps, k + 1)
              /\ k = Len(TermSteps) => Tail(todo) = <<>>
<1>1. platform \in {"linux", "windows", "msystem"}
  BY DEF LifeInv, Types
<1>2. phase # "init"
  <2>1. SUFFICES ASSUME phase = "init" PROVE FALSE
    OBVIOUS
  <2>2. PICK k \in 1 .. Len(InitSteps) : Starting(k)
    BY <2>1 DEF LifeInv, PhaseInv
  <2>3. InitSteps[k] = Step(do, what)
    BY <1>1, <2>2, FromPlaces, InitPlaces DEF Starting
  <2>4. do \in InitDoings
    BY <1>1, <2>3, InitPlaced
  <2>5. QED
    BY <2>4 DEF InitDoings, TermDoings
<1>3. phase = "term"
  BY <1>2 DEF LifeInv, PhaseInv
<1>4. PICK k \in 1 .. Len(TermSteps) : Ending(k)
  BY <1>3 DEF LifeInv, PhaseInv
<1>5. /\ TermSteps[k] = Step(do, what)
      /\ Tail(todo) = From(TermSteps, k + 1)
      /\ k = Len(TermSteps) => Tail(todo) = <<>>
  BY <1>1, <1>4, FromPlaces, TermPlaces, ZenonT(60) DEF Ending
<1>6. PlacedTerm(k, do, what)
  BY <1>1, <1>5, TermPlaced
<1>7. QED
  BY <1>3, <1>4, <1>5, <1>6

(* Passing over the steps of one kind, from the k-th to just before the
   m-th. *)
LEMMA PassedOver ==
  ASSUME NEW steps \in Seq(AnyStep), NEW k \in 1 .. Len(steps), NEW m \in k + 1 .. Len(steps),
         todo = From(steps, k), NEW do,
         \A i \in k .. m - 1 : steps[i].do = do, steps[m].do # do
  PROVE  After(do) = From(steps, m)
<1> DEFINE f == m - k + 1
           First(x) == todo[x].do # do /\ \A i \in 1 .. x - 1 : todo[i].do = do
<1>1. /\ Len(steps) \in Nat /\ f \in 1 .. Len(todo) /\ DOMAIN todo = 1 .. Len(todo)
      /\ todo \in Seq(AnyStep) /\ Len(todo) = Len(steps) - k + 1
      /\ \A i \in 1 .. Len(todo) : todo[i] = steps[k + i - 1]
  <2>1. /\ todo \in Seq(AnyStep) /\ Len(todo) = Len(steps) - k + 1
        /\ \A i \in 1 .. Len(steps) - k + 1 : todo[i] = steps[k + i - 1]
    BY FromPlaces, ZenonT(60)
  <2>2. Len(steps) \in Nat /\ DOMAIN todo = 1 .. Len(todo)
    BY <2>1
  <2>3. f \in 1 .. Len(todo)
    BY <2>1, <2>2
  <2>4. QED
    BY <2>1, <2>2, <2>3
<1>2. First(f)
  <2>1. todo[f] = steps[m]
    <3>1. k + f - 1 = m
      OBVIOUS
    <3>2. QED
      BY <1>1, <3>1
  <2>2. ASSUME NEW i \in 1 .. f - 1
        PROVE  todo[i].do = do
    <3>1. k + i - 1 \in k .. m - 1 /\ i \in 1 .. Len(todo)
      BY <1>1
    <3>2. QED
      BY <1>1, <3>1
  <2>3. QED
    BY <2>1, <2>2
<1>3. ASSUME NEW x \in DOMAIN todo, First(x)
      PROVE  x = f
  <2>1. x \in 1 .. Len(todo) /\ x \in Nat /\ f \in Nat
    BY <1>1
  <2>2. ~ x < f
    BY <1>2, <1>3, <2>1
  <2>3. ~ f < x
    BY <1>2, <1>3, <2>1, <1>1
  <2>4. QED
    BY <2>1, <2>2, <2>3
<1>4. (CHOOSE x \in DOMAIN todo : First(x)) = f
  BY <1>1, <1>2, <1>3
<1>5. After(do) = SubSeq(todo, f, Len(todo))
  BY <1>4 DEF After
<1>6. SubSeq(todo, f, Len(todo)) = From(steps, m)
  <2> DEFINE u == SubSeq(todo, f, Len(todo))
             v == From(steps, m)
             n == Len(steps) - m + 1
  <2>1. /\ u \in Seq(AnyStep) /\ Len(u) = Len(todo) - f + 1
        /\ \A i \in 1 .. Len(todo) - f + 1 : u[i] = todo[f + i - 1]
    <3>1. \A i \in f .. Len(todo) : todo[i] \in AnyStep
      BY <1>1
    <3>2. f \in Int /\ Len(todo) \in Int /\ f <= Len(todo)
      BY <1>1
    <3>3. QED
      BY <3>1, <3>2, SubSeqProperties
  <2>2. /\ v \in Seq(AnyStep) /\ Len(v) = n
        /\ \A i \in 1 .. n : v[i] = steps[m + i - 1]
    BY FromPlaces
  <2>3. Len(todo) - f + 1 = n /\ n \in Nat
    BY <1>1
  <2> HIDE DEF u, v
  <2>4. ASSUME NEW i \in 1 .. n
        PROVE  u[i] = v[i]
    <3>1. f + i - 1 \in 1 .. Len(todo) /\ k + (f + i - 1) - 1 = m + i - 1
      <4>1. Len(todo) = Len(steps) - k + 1 /\ Len(steps) \in Nat
        BY <1>1
      <4>2. QED
        BY <4>1
    <3>2. todo[f + i - 1] = steps[m + i - 1]
      BY <1>1, <3>1
    <3>3. QED
      BY <2>1, <2>2, <2>3, <3>2
  <2> HIDE DEF n
  <2>5. Len(u) = n /\ Len(v) = n
    BY <2>1, <2>2, <2>3
  <2>6. u = v
    BY <2>1, <2>2, <2>4, <2>5, SeqEqual
  <2>7. QED
    BY <2>6 DEF u, v
<1>7. QED
  BY <1>5, <1>6

-----------------------------------------------------------------------------
(* The steps keep the invariant.                                           *)

(* The platform stays, and with it the plan of both calls. *)
LEMMA PlansStay ==
  ASSUME platform' = platform
  PROVE  /\ InitSteps' = InitSteps /\ TermSteps' = TermSteps /\ Signals' = Signals
         /\ CreatePlace' = CreatePlace /\ ClearPlace' = ClearPlace
<1>1. Signals' = Signals
  BY DEF Signals
<1>2. /\ InitBefore' = InitBefore /\ InitAfter' = InitAfter
      /\ TermBefore' = TermBefore /\ TermAfter' = TermAfter
  BY DEF InitBefore, InitAfter, TermBefore, TermAfter
<1>3. InitExceptions' = InitExceptions /\ TermExceptions' = TermExceptions
  BY <1>1 DEF InitExceptions, TermExceptions, Signalled
<1>4. QED
  BY <1>1, <1>2, <1>3 DEF InitSteps, TermSteps, Inits, Terms, CreatePlace, ClearPlace

(* Going on with initDbgUtil from the k-th step to the m-th. *)
LEMMA StartingOn ==
  ASSUME LifeInv, NEW k \in 1 .. Len(InitSteps), NEW m \in k + 1 .. Len(InitSteps),
         Starting(k), platform' = platform, phase' = "init",
         todo' = From(InitSteps, m),
         logKey => logKey', instances \subseteq instances', installed \subseteq installed',
         \A i \in k .. m - 1 : Done(InitSteps[i])',
         m <= CreatePlace => ~ HandlerExists',
         Restorable' /\ m > 2 => SignalsStarting(m)'
  PROVE  PhaseInv'
<1>1. /\ InitSteps' = InitSteps /\ CreatePlace' = CreatePlace
      /\ Len(InitSteps) \in Nat
  BY PlansStay, InitPlaces DEF LifeInv, Types
<1>2. ASSUME NEW i \in 1 .. m - 1
      PROVE  Done(InitSteps[i])'
  <2>1. CASE i \in k .. m - 1
    BY <2>1
  <2>2. CASE i \in 1 .. k - 1
    <3>1. Done(InitSteps[i])
      BY <2>2 DEF Starting
    <3>2. QED
      BY <1>1, <3>1 DEF Done, HandlerExists
  <2>3. QED
    BY <2>1, <2>2
<1>3. Starting(m)'
  BY <1>1, <1>2 DEF Starting
<1>4. m \in 1 .. Len(InitSteps)'
  BY <1>1
<1>5. QED
  BY <1>3, <1>4 DEF PhaseInv

(* Going on with termDbgUtil. *)
LEMMA EndingOn ==
  ASSUME LifeInv, NEW k \in 1 .. Len(TermSteps), NEW m \in k + 1 .. Len(TermSteps),
         platform' = platform, phase' = "term",
         todo' = From(TermSteps, m),
         HandlerExists' <=> m <= ClearPlace + Len(Signals) + 1,
         Restorable' => SignalsEnding(m)'
  PROVE  PhaseInv'
<1>1. /\ TermSteps' = TermSteps /\ ClearPlace' = ClearPlace /\ Signals' = Signals
      /\ Len(TermSteps) \in Nat
  BY PlansStay, TermPlaces DEF LifeInv, Types
<1>2. Ending(m)'
  BY <1>1 DEF Ending
<1>3. m \in 1 .. Len(TermSteps)'
  BY <1>1
<1>4. QED
  BY <1>2, <1>3 DEF PhaseInv

(* What does not touch the handlers leaves their part of the invariant. *)
LEMMA HandlersStay ==
  ASSUME LifeInv,
         UNCHANGED <<platform, hooking, terminator, prevTerminator, disposition, previous,
                     unrestored>>,
         HandlerExists' <=> HandlerExists
  PROVE  HandlerInv' /\ MsystemInv'
BY DEF LifeInv, HandlerInv, MsystemInv, Restorable, SignalPlaces, Saved

LEMMA InitDbgUtilStep ==
  ASSUME LifeInv, InitDbgUtil
  PROVE  LifeInv'
<1>1. /\ phase \in {"down", "broken"} /\ phase' = "init" /\ todo' = InitSteps
      /\ UNCHANGED <<platform, logKey, instances, installed, hooking, disposition, previous,
                     terminator, prevTerminator, unrestored>>
  BY DEF InitDbgUtil, dispatchVars, flagVars, handlerVars
<1>2. /\ InitSteps' = InitSteps /\ CreatePlace' = CreatePlace
      /\ Len(InitSteps) \in Nat \ {0} /\ InitSteps \in Seq(AnyStep)
  <2>1. /\ Len(InitSteps) \in Nat /\ Len(InitSteps) > CreatePlace + Len(Signals) + 1
        /\ CreatePlace \in Nat /\ Len(Signals) \in Nat
    BY InitPlaces DEF LifeInv, Types
  <2>2. QED
    BY <1>1, <2>1, PlansStay, InitPlaces DEF LifeInv, Types
<1>3. From(InitSteps, 1) = InitSteps
  BY <1>2 DEF From
<1>4. ~ logKey => ~ HandlerExists
  BY <1>1 DEF LifeInv, PhaseInv
<1>5. Starting(1)'
  BY <1>1, <1>2, <1>3, <1>4 DEF Starting, HandlerExists
<1>6. 1 \in 1 .. Len(InitSteps)'
  BY <1>2
<1>7. PhaseInv'
  BY <1>1, <1>5, <1>6 DEF PhaseInv
<1>8. HandlerInv' /\ MsystemInv'
  BY <1>1, HandlersStay DEF HandlerExists
<1>9. Types'
  BY <1>1 DEF LifeInv, Types
<1>10. QED
  BY <1>7, <1>8, <1>9 DEF LifeInv

LEMMA CreateKeyStep ==
  ASSUME LifeInv, CreateKey
  PROVE  LifeInv'
<1>1. /\ todo # <<>> /\ Head(todo) = Step("createKey", "log")
      /\ UNCHANGED <<platform, instances, installed, hooking, disposition, previous,
                     terminator, prevTerminator, unrestored>>
  BY DEF CreateKey, dispatchVars, flagVars, handlerVars
<1>2. PICK k \in 1 .. Len(InitSteps) :
        /\ Starting(k) /\ InitSteps[k] = Step("createKey", "log") /\ k = 1
        /\ Tail(todo) = From(InitSteps, k + 1)
  BY <1>1, InitTurn DEF InitDoings, PlacedInit
<1>3. phase = "init"
  BY <1>1, InitTurn DEF InitDoings
<1>4. HandlerInv' /\ MsystemInv'
  BY <1>1, HandlersStay DEF HandlerExists
<1>5. CreatePlace \in Nat /\ CreatePlace > 1 /\ Len(InitSteps) \in Nat
      /\ Len(InitSteps) > CreatePlace
  <2>1. /\ CreatePlace \in Nat /\ CreatePlace > 1 /\ Len(Signals) \in Nat
        /\ Len(InitSteps) \in Nat /\ Len(InitSteps) > CreatePlace + Len(Signals) + 1
    BY InitPlaces DEF LifeInv, Types
  <2>2. QED
    BY <2>1
<1>6. CASE ~ logKey /\ logKey' = TRUE /\ todo' = Tail(todo) /\ phase' = phase
  <2>1. ~ HandlerExists'
    BY <1>1, <1>2, <1>5, <1>6 DEF Starting, HandlerExists
  <2>2. k + 1 \in k + 1 .. Len(InitSteps)
    BY <1>2, <1>5
  <2>3. \A i \in k .. (k + 1) - 1 : Done(InitSteps[i])'
    <3>1. \A i \in k .. (k + 1) - 1 : i = k
      OBVIOUS
    <3>2. InitSteps[k]' = InitSteps[k]
      BY <1>1, <1>2, PlansStay
    <3>3. Step("createKey", "log").do = "createKey"
      BY DEF Step
    <3>4. Done(InitSteps[k])'
      BY <1>2, <1>6, <3>2, <3>3 DEF Done
    <3>5. QED
      BY <3>1, <3>4
  <2>4. ~ (k + 1 > 2)
    BY <1>2
  <2>5. PhaseInv'
    BY <1>1, <1>2, <1>3, <1>6, <2>1, <2>2, <2>3, <2>4, StartingOn
  <2>6. Types'
    BY <1>1, <1>6 DEF LifeInv, Types
  <2>7. QED
    BY <1>4, <2>5, <2>6 DEF LifeInv
<1>7. CASE Fail /\ logKey' = logKey
  <2>1. logKey \/ ~ HandlerExists
    BY <1>2, <1>5 DEF Starting
  <2>2. PhaseInv'
    BY <1>1, <1>7, <2>1 DEF PhaseInv, Fail, HandlerExists
  <2>3. Types'
    BY <1>1, <1>7 DEF LifeInv, Types, Fail
  <2>4. QED
    BY <1>4, <2>2, <2>3 DEF LifeInv
<1>8. QED
  BY <1>6, <1>7 DEF CreateKey


(* The init function of a component, on whichever platform. *)
InitEffect(c) ==
  /\ todo # <<>> /\ Head(todo) = Step("init", c)
  /\ \/ /\ todo' = Tail(todo) /\ phase' = phase
        /\ instances' = instances \cup {c} /\ installed' = installed \cup {c}
     \/ /\ todo' = <<>> /\ phase' = "broken"
        /\ instances' \in {instances, instances \cup {c}} /\ installed' = installed
  /\ UNCHANGED <<platform, process, logKey, hooking, disposition, previous, terminator,
                 prevTerminator, unrestored>>

LEMMA InitComponentParts ==
  ASSUME InitComponent
  PROVE  \E c \in OtherComponent : InitEffect(c)
<1>1. UNCHANGED <<platform, process, logKey, hooking, disposition, previous, terminator,
                 prevTerminator, unrestored>>
  BY DEF InitComponent, dispatchVars, flagVars, handlerVars
<1> DEFINE Outcome(c) == /\ At("init", c)
                         /\ Comes(c) \/ NotCreated(c) \/ NotInitialized(c) \/ NothingDone
<1>2. ASSUME NEW c \in OtherComponent, Outcome(c)
      PROVE  InitEffect(c)
  BY <1>1, <1>2 DEF InitEffect, At, Comes, NotCreated, NotInitialized, NothingDone, Fail
<1>3. \E c \in OtherComponent : Outcome(c)
  <2>1. /\ "modules" \in OtherComponent /\ "symbols" \in OtherComponent
        /\ "threads" \in OtherComponent /\ "stacks" \in OtherComponent
        /\ "images" \in OtherComponent /\ "lifesigns" \in OtherComponent
    BY DEF OtherComponent, Component
  <2>2. \/ Outcome("modules") \/ Outcome("symbols") \/ Outcome("threads")
        \/ Outcome("stacks") \/ Outcome("images") \/ Outcome("lifesigns")
    BY DEF InitComponent, InitOn,
       InitLinuxModuleManager, CreateLinuxModuleManager, InitLinuxSymbolEngine,
       InitLinuxThreadManager, InitializeLinuxThreadManager, InitLinuxStackTrace,
       InitElfReader, InitLinuxLifeSignManager, InitWin32ModuleManager, InitProcessHandle,
       InitWin32SymbolEngine, InitializeWin32SymbolEngine, InitWin32ThreadManager,
       InitWin32StackTrace, InitWin32PEReader, InitWin32LifeSignManager, InitWin32Shm
  <2>3. QED
    BY <2>1, <2>2
<1>4. QED
  BY <1>2, <1>3

(* The places of the steps are numbers. *)
LEMMA InitNumbers ==
  ASSUME LifeInv
  PROVE  /\ CreatePlace \in Nat /\ CreatePlace > 1 /\ Len(Signals) \in Nat
         /\ Len(InitSteps) \in Nat /\ Len(InitSteps) > CreatePlace + Len(Signals) + 1
         /\ platform = "linux" => CreatePlace = 2 /\ Signals = LinuxSignals
         /\ SignalPlaces = 1 .. Len(LinuxSignals)
<1>1. platform \in {"linux", "windows", "msystem"}
  BY DEF LifeInv, Types
<1>2. SignalPlaces = 1 .. Len(LinuxSignals)
  BY SignalsAssumption DEF SignalPlaces
<1>3. QED
  BY <1>1, <1>2, InitPlaces, Orders, SignalsSequence

(* What initDbgUtil knows of the signals once it is past them. *)
LEMMA PastSignals ==
  ASSUME LifeInv, platform = "linux", NEW k \in Nat, NEW m \in Nat,
         k > CreatePlace + Len(Signals), m > CreatePlace + Len(Signals)
  PROVE  SignalsStarting(k) <=> SignalsStarting(m)
<1>1. CreatePlace = 2 /\ Signals = LinuxSignals /\ Len(LinuxSignals) \in Nat
      /\ SignalPlaces = 1 .. Len(LinuxSignals)
  BY InitNumbers
<1>2. ASSUME NEW j \in SignalPlaces, NEW x \in Nat, x > CreatePlace + Len(Signals)
      PROVE  ~ (x <= j + 2) /\ ~ (x <= Len(LinuxSignals) + 2)
  BY <1>1, <1>2
<1>3. QED
  BY <1>2 DEF SignalsStarting

LEMMA InitComponentStep ==
  ASSUME LifeInv, InitComponent
  PROVE  LifeInv'
<1>1. PICK c \in OtherComponent : InitEffect(c)
  BY InitComponentParts
<1>2. PICK k \in 1 .. Len(InitSteps) :
        /\ Starting(k) /\ InitSteps[k] = Step("init", c) /\ PlacedInit(k, "init", c)
        /\ Tail(todo) = From(InitSteps, k + 1)
  BY <1>1, InitTurn DEF InitDoings, InitEffect
<1>3. phase = "init"
  BY <1>1, InitTurn DEF InitDoings, InitEffect
<1>4. c \in Component /\ c # "exceptions"
  BY DEF OtherComponent
<1>5. HandlerExists' <=> HandlerExists
  BY <1>1, <1>4 DEF HandlerExists, InitEffect
<1>6. HandlerInv' /\ MsystemInv'
  BY <1>1, <1>5, HandlersStay DEF InitEffect
<1>7. Types'
  BY <1>1, <1>4 DEF LifeInv, Types, InitEffect
<1>8. /\ k \notin {1, CreatePlace, CreatePlace + Len(Signals) + 1, Len(InitSteps)}
      /\ k - CreatePlace \notin 1 .. Len(Signals)
  BY <1>2 DEF PlacedInit
<1>9. CASE /\ todo' = Tail(todo) /\ phase' = phase
           /\ instances' = instances \cup {c} /\ installed' = installed \cup {c}
  <2>1. k + 1 \in k + 1 .. Len(InitSteps)
    BY <1>8, InitNumbers
  <2>2. \A i \in k .. (k + 1) - 1 : Done(InitSteps[i])'
    <3>1. \A i \in k .. (k + 1) - 1 : i = k
      OBVIOUS
    <3>2. InitSteps[k]' = InitSteps[k]
      BY <1>1, <1>2, PlansStay DEF InitEffect
    <3>3. Step("init", c).do = "init" /\ Step("init", c).what = c
      BY DEF Step
    <3>4. Done(InitSteps[k])'
      BY <1>2, <1>9, <3>2, <3>3 DEF Done
    <3>5. QED
      BY <3>1, <3>4
  <2>3. k + 1 <= CreatePlace => ~ HandlerExists'
    <3>1. k + 1 <= CreatePlace => k <= CreatePlace /\ k > 1
      BY <1>8, InitNumbers
    <3>2. QED
      BY <1>2, <1>5, <3>1 DEF Starting
  <2>4. Restorable' /\ k + 1 > 2 => SignalsStarting(k + 1)'
    <3>1. SUFFICES ASSUME Restorable, k + 1 > 2
                   PROVE  SignalsStarting(k + 1)
      BY <1>1 DEF InitEffect, Restorable, SignalsStarting, SavedFirst, Saved, SignalPlaces
    <3>2. platform = "linux"
      BY <3>1 DEF Restorable
    <3>3. k > CreatePlace + Len(Signals) /\ k > 2 /\ k + 1 > CreatePlace + Len(Signals)
      BY <1>8, <3>1, <3>2, InitNumbers
    <3>4. SignalsStarting(k)
      BY <1>2, <3>1, <3>3 DEF Starting
    <3>5. QED
      BY <3>2, <3>3, <3>4, PastSignals
  <2>5. /\ platform' = platform /\ (logKey => logKey') /\ phase' = "init"
        /\ todo' = From(InitSteps, k + 1)
        /\ instances \subseteq instances' /\ installed \subseteq installed'
    BY <1>1, <1>2, <1>3, <1>9 DEF InitEffect
  <2>6. PhaseInv'
    BY <1>2, <2>1, <2>2, <2>3, <2>4, <2>5, StartingOn
  <2>7. QED
    BY <1>6, <1>7, <2>6 DEF LifeInv
<1>10. CASE todo' = <<>> /\ phase' = "broken"
  <2>1. logKey
    <3>1. 1 \in 1 .. k - 1
      BY <1>8
    <3>2. Done(InitSteps[1])
      BY <1>2, <3>1 DEF Starting
    <3>3. InitSteps[1] = Step("createKey", "log") /\ Step("createKey", "log").do = "createKey"
      BY InitPlaces DEF Step, LifeInv, Types
    <3>4. QED
      BY <3>2, <3>3 DEF Done
  <2>2. PhaseInv'
    BY <1>1, <1>10, <2>1 DEF PhaseInv, InitEffect
  <2>3. QED
    BY <1>6, <1>7, <2>2 DEF LifeInv
<1>11. QED
  BY <1>1, <1>9, <1>10 DEF InitEffect

LEMMA CreateHandlerStep ==
  ASSUME LifeInv, CreateHandler
  PROVE  LifeInv'
<1>1. /\ todo # <<>> /\ Head(todo) = Step("createHandler", "exceptions") /\ todo' = Tail(todo)
      /\ instances' = instances \cup {"exceptions"}
      /\ IF hooking THEN prevTerminator' = terminator /\ terminator' = "ours"
         ELSE UNCHANGED <<prevTerminator, terminator>>
      /\ previous' = [s \in SignalSet |-> IF platform = "linux" THEN "none" ELSE previous[s]]
      /\ UNCHANGED <<platform, phase, logKey, installed, hooking, disposition, unrestored>>
  BY DEF CreateHandler, Doing, dispatchVars, flagVars
<1>2. PICK k \in 1 .. Len(InitSteps) :
        /\ Starting(k) /\ InitSteps[k] = Step("createHandler", "exceptions")
        /\ k = CreatePlace /\ Tail(todo) = From(InitSteps, k + 1)
  BY <1>1, InitTurn DEF InitDoings, PlacedInit
<1>3. phase = "init"
  BY <1>1, InitTurn DEF InitDoings
<1>4. ~ HandlerExists /\ HandlerExists'
  BY <1>1, <1>2, InitNumbers DEF Starting, HandlerExists
<1>5. Types'
  <2>1. previous' \in [SignalSet -> {"none", "app", "ours", "default"}]
    BY <1>1 DEF LifeInv, Types
  <2>2. QED
    BY <1>1, <2>1 DEF LifeInv, Types, Component
<1>6. \A j \in SignalPlaces : LinuxSignals[j] \in SignalSet
  BY DEF SignalPlaces, SignalSet
<1>7. Restorable' => Restorable /\ \A j \in SignalPlaces : Saved(j)' = "none"
  BY <1>1, <1>6 DEF Restorable, Saved
<1>8. HandlerInv'
  <2>1. terminator = "app"
    BY <1>4 DEF LifeInv, HandlerInv
  <2>2. Restorable' => \A j \in SignalPlaces :
          disposition'[LinuxSignals[j]] = "app" /\ Saved(j)' = "none"
    BY <1>1, <1>4, <1>7 DEF LifeInv, HandlerInv
  <2>3. /\ terminator' = IF hooking' /\ HandlerExists' THEN "ours" ELSE "app"
        /\ hooking' /\ HandlerExists' => prevTerminator' = "app"
    BY <1>1, <1>4, <2>1 DEF LifeInv, Types
  <2>4. QED
    BY <2>2, <2>3 DEF HandlerInv, SignalPlaces
<1>9. MsystemInv'
  BY <1>1 DEF LifeInv, MsystemInv
<1>10. PhaseInv'
  <2>1. k + 1 \in k + 1 .. Len(InitSteps) /\ ~ (k + 1 <= CreatePlace)
    BY <1>2, InitNumbers
  <2>2. \A i \in k .. (k + 1) - 1 : Done(InitSteps[i])'
    <3>1. \A i \in k .. (k + 1) - 1 : i = k
      OBVIOUS
    <3>2. InitSteps[k]' = InitSteps[k]
      BY <1>1, <1>2, PlansStay
    <3>3. Step("createHandler", "exceptions").do = "createHandler"
      BY DEF Step
    <3>4. Done(InitSteps[k])'
      BY <1>2, <1>4, <3>2, <3>3 DEF Done
    <3>5. QED
      BY <3>1, <3>4
  <2>3. Restorable' => SignalsStarting(k + 1)'
    <3>1. SUFFICES ASSUME Restorable'
                   PROVE  SignalsStarting(k + 1)'
      OBVIOUS
    <3>2. platform = "linux" /\ \A j \in SignalPlaces : Saved(j)' = "none"
      BY <1>1, <1>7, <3>1 DEF Restorable
    <3>3. \A j \in SignalPlaces : ~ (j + 2 < k + 1)
      BY <1>2, <3>2, InitNumbers
    <3>4. QED
      BY <3>2, <3>3 DEF SignalsStarting, SavedFirst, SignalPlaces
  <2>4. /\ platform' = platform /\ (logKey => logKey') /\ phase' = "init"
        /\ todo' = From(InitSteps, k + 1)
        /\ instances \subseteq instances' /\ installed \subseteq installed'
    BY <1>1, <1>2, <1>3
  <2>5. QED
    BY <1>2, <2>1, <2>2, <2>3, <2>4, StartingOn
<1>11. QED
  BY <1>5, <1>8, <1>9, <1>10 DEF LifeInv


(* The signals are told apart by their places. *)
LEMMA SignalsApart ==
  ASSUME NEW i \in SignalPlaces, NEW j \in SignalPlaces, i # j
  PROVE  LinuxSignals[i] # LinuxSignals[j] /\ LinuxSignals[i] \in SignalSet
BY SignalsAssumption DEF SignalPlaces, SignalSet

LEMMA RegisterHandlerStep ==
  ASSUME LifeInv, NEW s \in SignalSet, RegisterHandler(s)
  PROVE  LifeInv'
<1>1. /\ todo # <<>> /\ Head(todo) = Step("register", s)
      /\ Registered(s) \/ NotRegistered
      /\ UNCHANGED <<platform, phase, logKey, instances, installed, hooking, terminator,
                     prevTerminator, unrestored>>
  BY DEF RegisterHandler, RegisterSignalHandler, RegisterFilter, At, dispatchVars, flagVars
<1>2. PICK k \in 1 .. Len(InitSteps) :
        /\ Starting(k) /\ InitSteps[k] = Step("register", s)
        /\ PlacedInit(k, "register", s) /\ Tail(todo) = From(InitSteps, k + 1)
  BY <1>1, InitTurn DEF InitDoings
<1>3. phase' = "init"
  BY <1>1, InitTurn DEF InitDoings
<1>a. PICK r, n : r = k - CreatePlace /\ n = Len(Signals)
  OBVIOUS
<1>4. /\ r \in 1 .. n /\ Signals[r] = s /\ k # Len(InitSteps)
  BY <1>2, <1>a DEF PlacedInit
<1>5. /\ n \in Nat /\ CreatePlace \in Nat /\ CreatePlace > 1 /\ Len(InitSteps) \in Nat
      /\ Len(InitSteps) > CreatePlace + n + 1 /\ k = r + CreatePlace
  BY <1>a, InitNumbers
<1>6. HandlerExists /\ (HandlerExists' <=> HandlerExists)
  <2>1. CreatePlace \in 1 .. k - 1
    BY <1>4, <1>5
  <2>2. Done(InitSteps[CreatePlace])
    BY <1>2, <2>1 DEF Starting
  <2>3. /\ InitSteps[CreatePlace] = Step("createHandler", "exceptions")
        /\ Step("createHandler", "exceptions").do = "createHandler"
    BY InitPlaces DEF Step, LifeInv, Types
  <2>4. QED
    BY <1>1, <2>2, <2>3 DEF Done, HandlerExists
<1>7. ASSUME NEW i \in k .. CreatePlace + n
      PROVE  InitSteps[i].do = "register" /\ Done(InitSteps[i])'
  <2>1. i - CreatePlace \in 1 .. n /\ CreatePlace + (i - CreatePlace) = i
    BY <1>4, <1>5
  <2>2. InitSteps[CreatePlace + (i - CreatePlace)] = Step("register", Signals[i - CreatePlace])
    BY <1>a, <2>1, InitPlaces DEF LifeInv, Types
  <2>3. InitSteps[i].do = "register"
    BY <2>1, <2>2 DEF Step
  <2>4. InitSteps' = InitSteps
    BY <1>1, PlansStay
  <2>5. QED
    BY <2>3, <2>4 DEF Done
<1>8. /\ platform' = platform /\ (logKey => logKey')
      /\ instances \subseteq instances' /\ installed \subseteq installed'
  BY <1>1
<1>9. Restorable => SignalsStarting(k)
  BY <1>2, <1>4, <1>5 DEF Starting
<1>10. Restorable => /\ platform = "linux" /\ CreatePlace = 2 /\ n = Len(LinuxSignals)
                     /\ SignalPlaces = 1 .. n /\ r \in SignalPlaces /\ LinuxSignals[r] = s
  BY <1>4, <1>a, InitNumbers DEF Restorable
<1>11. CASE Registered(s)
  <2>1. /\ catching /\ platform # "msystem"
        /\ disposition' = [disposition EXCEPT ![s] = "ours"]
        /\ previous' = [previous EXCEPT ![s] = disposition[s]]
        /\ todo' = From(InitSteps, k + 1)
    BY <1>2, <1>11 DEF Registered, Registers
  <2>2. Types'
    BY <1>1, <2>1 DEF LifeInv, Types
  <2>3. MsystemInv'
    BY <1>1, <2>1 DEF MsystemInv
  <2>4. Restorable => Saved(r) = "none" /\ disposition[s] = "app"
    <3>1. SUFFICES ASSUME Restorable PROVE Saved(r) = "none" /\ disposition[s] = "app"
      OBVIOUS
    <3>2. k <= r + 2
      BY <1>4, <1>5, <1>10, <3>1
    <3>3. Saved(r) = "none"
      BY <1>9, <1>10, <3>1, <3>2 DEF SignalsStarting
    <3>4. QED
      BY <1>10, <3>1, <3>3 DEF LifeInv, HandlerInv
  <2>5. Restorable => /\ Saved(r)' = "app" /\ disposition'[s] = "ours"
                      /\ \A j \in SignalPlaces \ {r} :
                           /\ Saved(j)' = Saved(j)
                           /\ disposition'[LinuxSignals[j]] = disposition[LinuxSignals[j]]
    <3>1. SUFFICES ASSUME Restorable
                   PROVE  /\ Saved(r)' = "app" /\ disposition'[s] = "ours"
                          /\ \A j \in SignalPlaces \ {r} :
                               /\ Saved(j)' = Saved(j)
                               /\ disposition'[LinuxSignals[j]] = disposition[LinuxSignals[j]]
      OBVIOUS
    <3>2. Saved(r)' = "app" /\ disposition'[s] = "ours"
      BY <1>10, <2>1, <2>4, <3>1 DEF Saved, LifeInv, Types
    <3>3. ASSUME NEW j \in SignalPlaces \ {r}
          PROVE  /\ Saved(j)' = Saved(j)
                 /\ disposition'[LinuxSignals[j]] = disposition[LinuxSignals[j]]
      <4>1. LinuxSignals[j] # s /\ LinuxSignals[j] \in SignalSet
        BY <1>10, <3>1, SignalsApart
      <4>2. QED
        BY <2>1, <4>1 DEF Saved, LifeInv, Types
    <3>4. QED
      BY <3>2, <3>3
  <2>6. Restorable' => Restorable
    BY <1>1 DEF Restorable
  <2>7. HandlerInv'
    <3>1. Restorable' => \A j \in SignalPlaces :
            \/ disposition'[LinuxSignals[j]] = "app" /\ Saved(j)' = "none"
            \/ disposition'[LinuxSignals[j]] = "ours" /\ Saved(j)' = "app" /\ HandlerExists'
      BY <1>6, <1>10, <2>5, <2>6 DEF LifeInv, HandlerInv
    <3>2. QED
      BY <1>1, <1>6, <3>1 DEF LifeInv, HandlerInv, SignalPlaces
  <2>8. Restorable' => SignalsStarting(k + 1)'
    <3>1. SUFFICES ASSUME Restorable
                   PROVE  SignalsStarting(k + 1)'
      BY <2>6
    <3>2. k = r + 2
      BY <1>4, <1>5, <1>10, <3>1
    <3>3. ASSUME NEW j \in SignalPlaces
          PROVE  /\ j < r + 1 => Saved(j)' = "app"
                 /\ j > r => Saved(j)' = "none"
      <4>1. j \in 1 .. n /\ r \in Nat /\ k <= Len(LinuxSignals) + 2
        BY <1>4, <1>10, <3>1, <3>2
      <4>2. j < r => Saved(j) = "app"
        BY <1>9, <3>1, <3>2, <4>1 DEF SignalsStarting
      <4>3. j > r => Saved(j) = "none"
        BY <1>9, <3>1, <3>2, <4>1 DEF SignalsStarting
      <4>4. j = r \/ j < r \/ j > r
        BY <1>4, <4>1
      <4>5. QED
        BY <1>4, <2>5, <3>1, <4>1, <4>2, <4>3, <4>4
    <3>5. \A i, j \in SignalPlaces : i < j /\ Saved(i)' = "none" => Saved(j)' = "none"
      <4>1. ASSUME NEW i \in SignalPlaces, NEW j \in SignalPlaces, i < j, Saved(i)' = "none"
            PROVE  Saved(j)' = "none"
        <5>1. i \in Nat /\ j \in Nat /\ r \in Nat
          BY <1>4, <1>10, <3>1
        <5>2. ~ (i < r + 1)
          BY <3>3, <4>1
        <5>3. j > r
          BY <4>1, <5>1, <5>2
        <5>4. QED
          BY <3>3, <5>3
      <4>2. QED
        BY <4>1
    <3>6. SavedFirst(1)'
      BY <3>5 DEF SavedFirst, SignalPlaces
    <3>7. \A j \in SignalPlaces :
            /\ k + 1 <= j + 2 => Saved(j)' = "none"
            /\ j + 2 < k + 1 /\ k + 1 <= Len(LinuxSignals) + 2 => Saved(j)' = "app"
      <4>1. ASSUME NEW j \in SignalPlaces
            PROVE  /\ k + 1 <= j + 2 => Saved(j)' = "none"
                   /\ j + 2 < k + 1 => Saved(j)' = "app"
        <5>1. j \in Nat /\ r \in Nat
          BY <1>4, <1>10, <3>1
        <5>2. CASE j < r + 1
          <6>1. ~ (k + 1 <= j + 2) /\ Saved(j)' = "app"
            BY <3>2, <3>3, <5>1, <5>2
          <6>2. QED
            BY <6>1
        <5>3. CASE j > r
          <6>1. ~ (j + 2 < k + 1) /\ Saved(j)' = "none"
            BY <3>2, <3>3, <5>1, <5>3
          <6>2. QED
            BY <6>1
        <5>4. QED
          BY <5>1, <5>2, <5>3
      <4>2. QED
        BY <4>1
    <3>8. QED
      BY <3>6, <3>7 DEF SignalsStarting, SignalPlaces
  <2>9. PhaseInv'
    <3>1. k + 1 \in k + 1 .. Len(InitSteps) /\ ~ (k + 1 <= CreatePlace)
      BY <1>4, <1>5
    <3>2. \A i \in k .. (k + 1) - 1 : i \in k .. CreatePlace + n
      BY <1>4, <1>5
    <3>3. \A i \in k .. (k + 1) - 1 : Done(InitSteps[i])'
      BY <1>7, <3>2
    <3>4. QED
      BY <1>2, <1>3, <1>8, <2>1, <2>8, <3>1, <3>3, StartingOn
  <2>10. QED
    BY <2>2, <2>3, <2>7, <2>9 DEF LifeInv
<1>12. CASE NotRegistered
  <2>1. todo' = After("register") /\ UNCHANGED <<disposition, previous>>
    BY <1>12 DEF NotRegistered, AfterRegister
  <2>a. PICK m : m = CreatePlace + n + 1
    OBVIOUS
  <2>2. m \in k + 1 .. Len(InitSteps) /\ ~ (m <= CreatePlace)
    BY <1>4, <1>5, <2>a
  <2>3. \A i \in k .. m - 1 : i \in k .. CreatePlace + n
    BY <1>4, <1>5, <2>a
  <2>4. InitSteps[m].do # "register"
    BY <1>a, <2>a, InitPlaces DEF Step, LifeInv, Types
  <2>5. todo' = From(InitSteps, m)
    <3>1. \A i \in k .. m - 1 : InitSteps[i].do = "register"
      BY <1>7, <2>3
    <3>2. InitSteps \in Seq(AnyStep) /\ todo = From(InitSteps, k)
      BY <1>2, InitPlaces DEF Starting, LifeInv, Types
    <3>3. After("register") = From(InitSteps, m)
      BY <2>2, <2>4, <3>1, <3>2, PassedOver
    <3>4. QED
      BY <2>1, <3>3
  <2>6. \A i \in k .. m - 1 : Done(InitSteps[i])'
    BY <1>7, <2>3
  <2>7. Restorable' => SignalsStarting(m)'
    <3>1. SUFFICES ASSUME Restorable PROVE SignalsStarting(m)
      BY <1>1, <2>1 DEF Restorable, SignalsStarting, SavedFirst, Saved, SignalPlaces
    <3>2. SavedFirst(1)
      BY <1>9, <3>1 DEF SignalsStarting
    <3>3. \A j \in SignalPlaces : ~ (m <= j + 2) /\ ~ (m <= Len(LinuxSignals) + 2)
      BY <1>5, <1>10, <2>a, <3>1
    <3>4. QED
      BY <3>2, <3>3 DEF SignalsStarting
  <2>8. PhaseInv'
    BY <1>2, <1>3, <1>8, <2>2, <2>5, <2>6, <2>7, StartingOn
  <2>9. HandlerInv' /\ MsystemInv'
    BY <1>1, <1>6, <2>1, HandlersStay
  <2>10. Types'
    BY <1>1, <2>1 DEF LifeInv, Types
  <2>11. QED
    BY <2>8, <2>9, <2>10 DEF LifeInv
<1>13. QED
  BY <1>1, <1>11, <1>12

LEMMA PublishStep ==
  ASSUME LifeInv, Publish
  PROVE  LifeInv'
<1>1. /\ todo # <<>> /\ Head(todo) = Step("publish", "exceptions") /\ todo' = Tail(todo)
      /\ installed' = installed \cup {"exceptions"}
      /\ UNCHANGED <<platform, phase, logKey, instances, hooking, disposition, previous,
                     terminator, prevTerminator, unrestored>>
  BY DEF Publish, Doing, dispatchVars, flagVars, handlerVars
<1>2. PICK k \in 1 .. Len(InitSteps) :
        /\ Starting(k) /\ InitSteps[k] = Step("publish", "exceptions")
        /\ k = CreatePlace + Len(Signals) + 1 /\ Tail(todo) = From(InitSteps, k + 1)
  BY <1>1, InitTurn DEF InitDoings, PlacedInit
<1>3. phase' = "init"
  BY <1>1, InitTurn DEF InitDoings
<1>4. HandlerInv' /\ MsystemInv'
  BY <1>1, HandlersStay DEF HandlerExists
<1>5. Types'
  BY <1>1 DEF LifeInv, Types, Component
<1>6. k + 1 \in k + 1 .. Len(InitSteps) /\ ~ (k + 1 <= CreatePlace)
  BY <1>2, InitNumbers
<1>7. \A i \in k .. (k + 1) - 1 : Done(InitSteps[i])'
  <2>1. \A i \in k .. (k + 1) - 1 : i = k
    OBVIOUS
  <2>2. InitSteps[k]' = InitSteps[k]
    BY <1>1, <1>2, PlansStay
  <2>3. Step("publish", "exceptions").do = "publish"
    BY DEF Step
  <2>4. Done(InitSteps[k])'
    BY <1>1, <1>2, <2>2, <2>3 DEF Done
  <2>5. QED
    BY <2>1, <2>4
<1>8. Restorable' => SignalsStarting(k + 1)'
  <2>1. SUFFICES ASSUME Restorable
                 PROVE  SignalsStarting(k + 1)
    BY <1>1 DEF Restorable, SignalsStarting, SavedFirst, Saved, SignalPlaces
  <2>2. platform = "linux"
    BY <2>1 DEF Restorable
  <2>3. k > CreatePlace + Len(Signals) /\ k > 2 /\ k + 1 > CreatePlace + Len(Signals)
    BY <1>2, <2>2, InitNumbers
  <2>4. SignalsStarting(k)
    BY <1>2, <2>1, <2>3 DEF Starting
  <2>5. QED
    BY <2>2, <2>3, <2>4, PastSignals
<1>9. /\ platform' = platform /\ (logKey => logKey') /\ todo' = From(InitSteps, k + 1)
      /\ instances \subseteq instances' /\ installed \subseteq installed'
  BY <1>1, <1>2
<1>10. PhaseInv'
  BY <1>2, <1>3, <1>6, <1>7, <1>8, <1>9, StartingOn
<1>11. QED
  BY <1>4, <1>5, <1>10 DEF LifeInv

LEMMA FinishStep ==
  ASSUME LifeInv, Finish
  PROVE  LifeInv'
<1>1. /\ todo # <<>> /\ Head(todo) = Step("finish", "library") /\ todo' = Tail(todo)
      /\ phase' = "up"
      /\ UNCHANGED <<platform, logKey, instances, installed, hooking, disposition, previous,
                     terminator, prevTerminator, unrestored>>
  BY DEF Finish, Doing, dispatchVars, flagVars, handlerVars
<1>2. PICK k \in 1 .. Len(InitSteps) :
        /\ Starting(k) /\ k = Len(InitSteps) /\ Tail(todo) = <<>>
  BY <1>1, InitTurn DEF InitDoings, PlacedInit
<1>3. HandlerInv' /\ MsystemInv'
  BY <1>1, HandlersStay DEF HandlerExists
<1>4. Types'
  BY <1>1 DEF LifeInv, Types
<1>5. \A i \in 1 .. Len(InitSteps) - 1 : Done(InitSteps[i])
  BY <1>2 DEF Starting
<1>6. platform \in {"linux", "windows", "msystem"}
  BY DEF LifeInv, Types
<1>7. logKey /\ HandlerExists /\ "exceptions" \in installed
  <2>1. /\ 1 \in 1 .. Len(InitSteps) - 1
        /\ CreatePlace \in 1 .. Len(InitSteps) - 1
        /\ CreatePlace + Len(Signals) + 1 \in 1 .. Len(InitSteps) - 1
    BY InitNumbers
  <2>2. /\ InitSteps[1].do = "createKey" /\ InitSteps[CreatePlace].do = "createHandler"
        /\ InitSteps[CreatePlace + Len(Signals) + 1].do = "publish"
    BY <1>6, InitPlaces DEF Step
  <2>3. QED
    BY <1>5, <2>1, <2>2 DEF Done
<1>8. ASSUME NEW c \in OtherComponent
      PROVE  c \in instances /\ c \in installed
  <2>1. PICK i \in 1 .. Len(InitSteps) - 1 : InitSteps[i] = Step("init", c)
    BY <1>6, InitPlaces
  <2>2. InitSteps[i].do = "init" /\ InitSteps[i].what = c
    BY <2>1 DEF Step
  <2>3. QED
    BY <1>5, <2>2 DEF Done
<1>9. Complete'
  <2>1. /\ \A c \in Component : c \in instances /\ c \in installed
    BY <1>7, <1>8 DEF OtherComponent, HandlerExists
  <2>2. instances = Component /\ installed = Component
    BY <2>1 DEF LifeInv, Types
  <2>3. QED
    BY <1>1, <1>7, <2>2 DEF Complete
<1>10. Restorable' => SavedFirst(1)'
  <2>1. SUFFICES ASSUME Restorable PROVE SavedFirst(1)
    BY <1>1 DEF Restorable, SavedFirst, Saved, SignalPlaces
  <2>2. k > 2
    BY <1>2, <2>1, InitNumbers DEF Restorable
  <2>3. QED
    BY <1>2, <2>1, <2>2 DEF Starting, SignalsStarting
<1>11. PhaseInv'
  BY <1>1, <1>2, <1>9, <1>10 DEF PhaseInv
<1>12. QED
  BY <1>3, <1>4, <1>11 DEF LifeInv


LEMMA TermNumbers ==
  ASSUME LifeInv
  PROVE  /\ ClearPlace \in Nat /\ ClearPlace > 0 /\ Len(Signals) \in Nat
         /\ Len(TermSteps) \in Nat /\ Len(TermSteps) > ClearPlace + Len(Signals) + 1
         /\ platform = "linux" => Signals = LinuxSignals
         /\ SignalPlaces = 1 .. Len(LinuxSignals)
<1>1. platform \in {"linux", "windows", "msystem"}
  BY DEF LifeInv, Types
<1>2. QED
  BY <1>1, TermPlaces, InitNumbers

LEMMA TermDbgUtilStep ==
  ASSUME LifeInv, TermDbgUtil
  PROVE  LifeInv'
<1>1. /\ phase = "up" /\ phase' = "term" /\ todo' = TermSteps
      /\ UNCHANGED <<platform, logKey, instances, installed, hooking, disposition, previous,
                     terminator, prevTerminator, unrestored>>
  BY DEF TermDbgUtil, dispatchVars, flagVars, handlerVars
<1>2. /\ TermSteps' = TermSteps /\ ClearPlace' = ClearPlace /\ Signals' = Signals
  BY <1>1, PlansStay
<1>3. /\ Len(TermSteps) \in Nat \ {0} /\ ClearPlace \in Nat /\ Len(Signals) \in Nat
      /\ ClearPlace > 0 /\ SignalPlaces = 1 .. Len(LinuxSignals) /\ Len(LinuxSignals) \in Nat
  BY TermNumbers, SignalsAssumption
<1>4. From(TermSteps, 1) = TermSteps
  BY TermPlaces DEF From, LifeInv, Types
<1>5. HandlerExists
  BY <1>1 DEF LifeInv, PhaseInv, Complete, HandlerExists, Component
<1>6. Restorable' => SignalsEnding(1)'
  <2>1. SUFFICES ASSUME Restorable PROVE SignalsEnding(1)
    BY <1>1, <1>2 DEF Restorable, SignalsEnding, SavedFirst, Saved, SignalPlaces
  <2>2. SavedFirst(1)
    BY <1>1, <2>1 DEF LifeInv, PhaseInv
  <2>3. SavedFirst(1 - ClearPlace)
    BY <1>3, <2>2 DEF SavedFirst
  <2>4. \A j \in SignalPlaces : ~ (ClearPlace + j < 1)
    BY <1>3
  <2>5. QED
    BY <2>3, <2>4 DEF SignalsEnding
<1>7. Ending(1)'
  <2>1. 1 <= ClearPlace + Len(Signals) + 1
    BY <1>3
  <2>2. QED
    BY <1>1, <1>2, <1>4, <1>5, <1>6, <2>1 DEF Ending, HandlerExists
<1>8. 1 \in 1 .. Len(TermSteps)'
  BY <1>2, <1>3
<1>9. PhaseInv'
  BY <1>1, <1>7, <1>8 DEF PhaseInv
<1>10. HandlerInv' /\ MsystemInv'
  BY <1>1, HandlersStay DEF HandlerExists
<1>11. Types'
  BY <1>1 DEF LifeInv, Types
<1>12. QED
  BY <1>9, <1>10, <1>11 DEF LifeInv

(* A step of termDbgUtil that is none of the exception handler's, except the
   clearing of its pointer. *)
LEMMA EndingBetween ==
  ASSUME LifeInv, NEW k \in 1 .. Len(TermSteps), Ending(k),
         k # Len(TermSteps), k # ClearPlace + Len(Signals) + 1,
         k - ClearPlace \notin 1 .. Len(Signals),
         phase' = "term", todo' = From(TermSteps, k + 1),
         UNCHANGED <<platform, previous, unrestored>>,
         HandlerExists' <=> HandlerExists
  PROVE  PhaseInv'
<1>1. /\ ClearPlace \in Nat /\ Len(Signals) \in Nat /\ Len(TermSteps) \in Nat
      /\ SignalPlaces = 1 .. Len(LinuxSignals)
      /\ platform = "linux" => Signals = LinuxSignals
  BY TermNumbers
<1>2. k + 1 \in k + 1 .. Len(TermSteps)
  BY <1>1
<1>3. HandlerExists' <=> k + 1 <= ClearPlace + Len(Signals) + 1
  <2>1. k <= ClearPlace + Len(Signals) + 1 <=> k + 1 <= ClearPlace + Len(Signals) + 1
    BY <1>1
  <2>2. QED
    BY <2>1 DEF Ending
<1>4. Restorable' => SignalsEnding(k + 1)'
  <2>1. SUFFICES ASSUME Restorable PROVE SignalsEnding(k + 1)
    <3>1. ClearPlace' = ClearPlace
      BY PlansStay
    <3>2. QED
      BY <3>1 DEF Restorable, SignalsEnding, SavedFirst, Saved, SignalPlaces
  <2>2. SignalsEnding(k)
    BY <2>1 DEF Ending
  <2>a. PICK m, q : m = k + 1 /\ q = m - ClearPlace
    OBVIOUS
  <2>3. SavedFirst(q)
    <3>1. \A i \in SignalPlaces : q <= i => k - ClearPlace <= i
      BY <1>1, <2>a
    <3>2. QED
      BY <2>2, <3>1 DEF SignalsEnding, SavedFirst
  <2>4. \A j \in SignalPlaces : ClearPlace + j < k + 1 => ClearPlace + j < k
    <3>1. ASSUME NEW j \in SignalPlaces, ClearPlace + j < k + 1
          PROVE  ClearPlace + j < k
      <4>1. j \in 1 .. Len(Signals)
        BY <1>1, <2>1 DEF Restorable
      <4>2. QED
        BY <1>1, <3>1, <4>1
    <3>2. QED
      BY <3>1
  <2>5. ASSUME NEW j \in SignalPlaces, ClearPlace + j < k + 1
        PROVE  Saved(j) = "none"
    <3>1. ClearPlace + j < k
      BY <2>4, <2>5
    <3>2. QED
      BY <2>2, <3>1 DEF SignalsEnding
  <2>6. \A j \in SignalPlaces : ClearPlace + j < m => Saved(j) = "none"
    BY <2>5, <2>a
  <2>7. SignalsEnding(m)
    BY <2>3, <2>a, <2>6 DEF SignalsEnding
  <2>8. QED
    BY <2>7, <2>a
<1>5. QED
  BY <1>2, <1>3, <1>4, EndingOn

LEMMA ClearPointerStep ==
  ASSUME LifeInv, NEW c \in Component, ClearPointer(c)
  PROVE  LifeInv'
<1>1. /\ todo # <<>> /\ Head(todo) = Step("clear", c) /\ todo' = Tail(todo)
      /\ installed' = installed \ {c}
      /\ UNCHANGED <<platform, phase, logKey, instances, hooking, disposition, previous,
                     terminator, prevTerminator, unrestored>>
  BY DEF ClearPointer, Doing, dispatchVars, flagVars, handlerVars
<1>2. PICK k \in 1 .. Len(TermSteps) :
        /\ Ending(k) /\ PlacedTerm(k, "clear", c) /\ Tail(todo) = From(TermSteps, k + 1)
  BY <1>1, TermTurn DEF TermDoings
<1>3. phase' = "term"
  BY <1>1, TermTurn DEF TermDoings
<1>4. PhaseInv'
  BY <1>1, <1>2, <1>3, EndingBetween DEF PlacedTerm, HandlerExists
<1>5. HandlerInv' /\ MsystemInv'
  BY <1>1, HandlersStay DEF HandlerExists
<1>6. Types'
  BY <1>1 DEF LifeInv, Types
<1>7. QED
  BY <1>4, <1>5, <1>6 DEF LifeInv

(* The term function of a component, on whichever platform. *)
TermEffect(c) ==
  /\ todo # <<>> /\ Head(todo) = Step("destroy", c)
  /\ \/ todo' = Tail(todo) /\ phase' = phase /\ instances' = instances \ {c}
     \/ todo' = <<>> /\ phase' = "stuck" /\ instances' = instances
  /\ UNCHANGED <<platform, process, installed, logKey, hooking, disposition, previous,
                 terminator, prevTerminator, unrestored>>

LEMMA TermComponentParts ==
  ASSUME TermComponent
  PROVE  \E c \in OtherComponent : TermEffect(c)
<1>1. UNCHANGED <<platform, process, installed, logKey, hooking, disposition, previous,
                 terminator, prevTerminator, unrestored>>
  BY DEF TermComponent, dispatchVars, flagVars, handlerVars
<1> DEFINE Outcome(c) == At("destroy", c) /\ ((\E ls : Goes(c, ls)) \/ CannotGo)
<1>2. ASSUME NEW c \in OtherComponent, Outcome(c)
      PROVE  TermEffect(c)
  BY <1>1, <1>2 DEF TermEffect, At, Goes, CannotGo
<1>3. \E c \in OtherComponent : Outcome(c)
  <2>1. /\ "modules" \in OtherComponent /\ "symbols" \in OtherComponent
        /\ "threads" \in OtherComponent /\ "stacks" \in OtherComponent
        /\ "images" \in OtherComponent /\ "lifesigns" \in OtherComponent
    BY DEF OtherComponent, Component
  <2>2. \/ Outcome("modules") \/ Outcome("symbols") \/ Outcome("threads")
        \/ Outcome("stacks") \/ Outcome("images") \/ Outcome("lifesigns")
    BY DEF TermComponent, TermOn, TermLinuxModuleManager, TermLinuxSymbolEngine,
       TermLinuxThreadManager, TermLinuxStackTrace, TermElfReader, TermLinuxLifeSignManager,
       TermWin32ModuleManager, TermWin32SymbolEngine, TermWin32ThreadManager,
       TermWin32StackTrace, TermWin32PEReader, TermWin32LifeSignManager
  <2>3. QED
    BY <2>1, <2>2
<1>4. QED
  BY <1>2, <1>3

LEMMA TermComponentStep ==
  ASSUME LifeInv, TermComponent
  PROVE  LifeInv'
<1>1. PICK c \in OtherComponent : TermEffect(c)
  BY TermComponentParts
<1>2. PICK k \in 1 .. Len(TermSteps) :
        /\ Ending(k) /\ PlacedTerm(k, "destroy", c) /\ Tail(todo) = From(TermSteps, k + 1)
  BY <1>1, TermTurn DEF TermDoings, TermEffect
<1>3. phase = "term"
  BY <1>1, TermTurn DEF TermDoings, TermEffect
<1>4. HandlerExists' <=> HandlerExists
  BY <1>1 DEF HandlerExists, TermEffect, OtherComponent
<1>5. HandlerInv' /\ MsystemInv'
  BY <1>1, <1>4, HandlersStay DEF TermEffect
<1>6. Types'
  BY <1>1 DEF LifeInv, Types, TermEffect
<1>7. CASE todo' = Tail(todo) /\ phase' = phase
  <2>1. PhaseInv'
    BY <1>1, <1>2, <1>3, <1>4, <1>7, EndingBetween DEF PlacedTerm, TermEffect
  <2>2. QED
    BY <1>5, <1>6, <2>1 DEF LifeInv
<1>8. CASE todo' = <<>> /\ phase' = "stuck"
  <2>1. PhaseInv'
    BY <1>8 DEF PhaseInv
  <2>2. QED
    BY <1>5, <1>6, <2>1 DEF LifeInv
<1>9. QED
  BY <1>1, <1>7, <1>8 DEF TermEffect

LEMMA DestroyHandlerStep ==
  ASSUME LifeInv, DestroyHandler
  PROVE  LifeInv'
<1>1. /\ todo # <<>> /\ Head(todo) = Step("destroyHandler", "exceptions") /\ todo' = Tail(todo)
      /\ terminator' = IF hooking THEN prevTerminator ELSE terminator
      /\ instances' = instances \ {"exceptions"}
      /\ UNCHANGED <<platform, phase, logKey, installed, hooking, disposition, previous,
                     prevTerminator, unrestored>>
  BY DEF DestroyHandler, Doing, dispatchVars, flagVars
<1>2. PICK k \in 1 .. Len(TermSteps) :
        /\ Ending(k) /\ k = ClearPlace + Len(Signals) + 1 /\ k # Len(TermSteps)
        /\ Tail(todo) = From(TermSteps, k + 1)
  BY <1>1, TermTurn DEF TermDoings, PlacedTerm
<1>3. phase' = "term"
  BY <1>1, TermTurn DEF TermDoings
<1>4. /\ ClearPlace \in Nat /\ Len(Signals) \in Nat /\ Len(TermSteps) \in Nat
      /\ SignalPlaces = 1 .. Len(LinuxSignals)
      /\ platform = "linux" => Signals = LinuxSignals
  BY TermNumbers
<1>5. HandlerExists /\ ~ HandlerExists'
  BY <1>1, <1>2, <1>4 DEF Ending, HandlerExists
<1>6. Restorable => \A j \in SignalPlaces : Saved(j) = "none"
  <2>1. SUFFICES ASSUME Restorable, NEW j \in SignalPlaces PROVE Saved(j) = "none"
    OBVIOUS
  <2>2. ClearPlace + j < k
    BY <1>2, <1>4, <2>1 DEF Restorable
  <2>3. QED
    BY <1>2, <2>1, <2>2 DEF Ending, SignalsEnding
<1>7. HandlerInv'
  <2>1. terminator' = "app"
    BY <1>1, <1>5 DEF LifeInv, HandlerInv
  <2>2. Restorable' => \A j \in SignalPlaces :
          disposition'[LinuxSignals[j]] = "app" /\ Saved(j)' = "none"
    BY <1>1, <1>6 DEF LifeInv, HandlerInv, Restorable, Saved
  <2>3. QED
    BY <1>5, <2>1, <2>2 DEF HandlerInv, SignalPlaces
<1>8. MsystemInv'
  BY <1>1 DEF LifeInv, MsystemInv
<1>9. Types'
  <2>1. terminator' \in {"app", "ours"}
    BY <1>1 DEF LifeInv, Types
  <2>2. QED
    BY <1>1, <2>1 DEF LifeInv, Types
<1>10. PhaseInv'
  <2>1. k + 1 \in k + 1 .. Len(TermSteps) /\ ~ (k + 1 <= ClearPlace + Len(Signals) + 1)
    BY <1>2, <1>4
  <2>2. Restorable' => SignalsEnding(k + 1)'
    <3>1. SUFFICES ASSUME Restorable PROVE SignalsEnding(k + 1)
      <4>1. ClearPlace' = ClearPlace
        BY <1>1, PlansStay
      <4>2. QED
        BY <1>1, <4>1 DEF Restorable, SignalsEnding, SavedFirst, Saved, SignalPlaces
    <3>2. QED
      BY <1>6, <3>1 DEF SignalsEnding, SavedFirst
  <2>3. QED
    BY <1>1, <1>2, <1>3, <1>5, <2>1, <2>2, EndingOn
<1>11. QED
  BY <1>7, <1>8, <1>9, <1>10 DEF LifeInv

LEMMA DestroyKeyStep ==
  ASSUME LifeInv, DestroyKey
  PROVE  LifeInv'
<1>1. /\ todo # <<>> /\ Head(todo) = Step("destroyKey", "log") /\ todo' = Tail(todo)
      /\ logKey' = FALSE /\ phase' = "down"
      /\ UNCHANGED <<platform, instances, installed, hooking, disposition, previous, terminator,
                     prevTerminator, unrestored>>
  BY DEF DestroyKey, Doing, dispatchVars, flagVars, handlerVars
<1>2. PICK k \in 1 .. Len(TermSteps) :
        /\ Ending(k) /\ k = Len(TermSteps) /\ Tail(todo) = <<>>
  BY <1>1, TermTurn DEF TermDoings, PlacedTerm
<1>3. ~ HandlerExists
  BY <1>2, TermNumbers DEF Ending
<1>4. PhaseInv'
  BY <1>1, <1>2, <1>3 DEF PhaseInv, HandlerExists
<1>5. HandlerInv' /\ MsystemInv'
  BY <1>1, HandlersStay DEF HandlerExists
<1>6. Types'
  BY <1>1 DEF LifeInv, Types
<1>7. QED
  BY <1>4, <1>5, <1>6 DEF LifeInv

LEMMA RestoreHandlerStep ==
  ASSUME LifeInv, NEW s \in SignalSet, RestoreHandler(s)
  PROVE  LifeInv'
<1>1. /\ todo # <<>> /\ Head(todo) = Step("restore", s)
      /\ UNCHANGED <<platform, phase, logKey, instances, installed, hooking, terminator,
                     prevTerminator>>
  BY DEF RestoreHandler, At, dispatchVars, flagVars
<1>2. PICK k \in 1 .. Len(TermSteps) :
        /\ Ending(k) /\ PlacedTerm(k, "restore", s) /\ Tail(todo) = From(TermSteps, k + 1)
  BY <1>1, TermTurn DEF TermDoings
<1>3. phase' = "term"
  BY <1>1, TermTurn DEF TermDoings
<1>4. PICK r, n, m : r = k - ClearPlace /\ n = Len(Signals) /\ m = ClearPlace + n + 1
  OBVIOUS
<1>5. r \in 1 .. n /\ Signals[r] = s
  BY <1>2, <1>4 DEF PlacedTerm
<1>6. /\ n \in Nat /\ ClearPlace \in Nat /\ Len(TermSteps) \in Nat
      /\ m < Len(TermSteps) /\ k = ClearPlace + r
  BY <1>2, <1>4, TermNumbers
<1>7. Restorable => /\ platform = "linux" /\ n = Len(LinuxSignals)
                    /\ SignalPlaces = 1 .. n /\ r \in SignalPlaces /\ LinuxSignals[r] = s
  BY <1>4, <1>5, TermNumbers DEF Restorable
<1>8. HandlerExists /\ (HandlerExists' <=> HandlerExists)
  <2>1. k <= ClearPlace + n + 1
    BY <1>5, <1>6
  <2>2. QED
    BY <1>1, <1>2, <1>4, <2>1 DEF Ending, HandlerExists
<1>9. Restorable => /\ \A i, j \in SignalPlaces :
                         r <= i /\ i < j /\ Saved(i) = "none" => Saved(j) = "none"
                    /\ \A j \in SignalPlaces : j < r => Saved(j) = "none"
  <2>1. SUFFICES ASSUME Restorable
                 PROVE  /\ \A i, j \in SignalPlaces :
                             r <= i /\ i < j /\ Saved(i) = "none" => Saved(j) = "none"
                        /\ \A j \in SignalPlaces : j < r => Saved(j) = "none"
    OBVIOUS
  <2>2. SignalsEnding(k)
    BY <1>2, <2>1 DEF Ending
  <2>3. ASSUME NEW j \in SignalPlaces, j < r
        PROVE  Saved(j) = "none"
    <3>1. ClearPlace + j < k
      BY <1>5, <1>6, <1>7, <2>1, <2>3
    <3>2. QED
      BY <2>2, <3>1 DEF SignalsEnding
  <2>4. SavedFirst(r)
    BY <1>4, <2>2 DEF SignalsEnding
  <2>5. QED
    BY <2>3, <2>4 DEF SavedFirst
<1>10. /\ k + 1 \in k + 1 .. Len(TermSteps) /\ k + 1 <= ClearPlace + Len(Signals) + 1
       /\ m \in k + 1 .. Len(TermSteps) /\ m <= ClearPlace + Len(Signals) + 1
  BY <1>4, <1>5, <1>6
<1>11. After("restore") = From(TermSteps, m)
  <2>1. ASSUME NEW i \in k .. m - 1
        PROVE  TermSteps[i].do = "restore"
    <3>1. i - ClearPlace \in 1 .. n /\ ClearPlace + (i - ClearPlace) = i
      BY <1>4, <1>5, <1>6
    <3>2. TermSteps[ClearPlace + (i - ClearPlace)] = Step("restore", Signals[i - ClearPlace])
      BY <1>4, <3>1, TermPlaces DEF LifeInv, Types
    <3>3. QED
      BY <3>1, <3>2 DEF Step
  <2>2. TermSteps[m].do # "restore"
    BY <1>4, TermPlaces DEF Step, LifeInv, Types
  <2>3. TermSteps \in Seq(AnyStep) /\ todo = From(TermSteps, k)
    BY <1>2, TermPlaces DEF Ending, LifeInv, Types
  <2>4. QED
    BY <1>10, <2>1, <2>2, <2>3, PassedOver
<1>12. ASSUME platform = "linux", previous[s] # "none",
              previous' = [previous EXCEPT ![s] = "none"], Restored(s)
       PROVE  LifeInv'
  <2>1. /\ disposition' = [disposition EXCEPT ![s] = previous[s]]
        /\ todo' = From(TermSteps, k + 1) /\ unrestored' = unrestored
    BY <1>2, <1>12 DEF Restored
  <2>2. Types'
    <3>1. /\ previous' \in [SignalSet -> {"none", "app", "ours", "default"}]
          /\ disposition' \in [SignalSet -> {"app", "ours", "default"}]
      BY <1>12, <2>1 DEF LifeInv, Types
    <3>2. QED
      BY <1>1, <2>1, <3>1 DEF LifeInv, Types
  <2>3. MsystemInv'
    BY <1>1, <1>12 DEF MsystemInv
  <2>4. Restorable' => Restorable
    BY <1>1, <2>1 DEF Restorable
  <2>5. Restorable => /\ Saved(r)' = "none" /\ disposition'[LinuxSignals[r]] = "app"
                      /\ \A j \in SignalPlaces \ {r} :
                           /\ Saved(j)' = Saved(j)
                           /\ disposition'[LinuxSignals[j]] = disposition[LinuxSignals[j]]
    <3>1. SUFFICES ASSUME Restorable
                   PROVE  /\ Saved(r)' = "none" /\ disposition'[LinuxSignals[r]] = "app"
                          /\ \A j \in SignalPlaces \ {r} :
                               /\ Saved(j)' = Saved(j)
                               /\ disposition'[LinuxSignals[j]] = disposition[LinuxSignals[j]]
      OBVIOUS
    <3>2. Saved(r) = "app"
      BY <1>7, <1>12, <3>1 DEF Saved, LifeInv, HandlerInv
    <3>3. Saved(r)' = "none" /\ disposition'[LinuxSignals[r]] = "app"
      BY <1>7, <1>12, <2>1, <3>1, <3>2 DEF Saved, LifeInv, Types
    <3>4. ASSUME NEW j \in SignalPlaces \ {r}
          PROVE  /\ Saved(j)' = Saved(j)
                 /\ disposition'[LinuxSignals[j]] = disposition[LinuxSignals[j]]
      <4>1. LinuxSignals[j] # s /\ LinuxSignals[j] \in SignalSet
        BY <1>7, <3>1, SignalsApart
      <4>2. QED
        BY <1>12, <2>1, <4>1 DEF Saved, LifeInv, Types
    <3>5. QED
      BY <3>3, <3>4
  <2>6. HandlerInv'
    <3>1. Restorable' => \A j \in SignalPlaces :
            \/ disposition'[LinuxSignals[j]] = "app" /\ Saved(j)' = "none"
            \/ disposition'[LinuxSignals[j]] = "ours" /\ Saved(j)' = "app" /\ HandlerExists'
      BY <1>8, <1>7, <2>4, <2>5 DEF LifeInv, HandlerInv
    <3>2. QED
      BY <1>1, <1>8, <3>1 DEF LifeInv, HandlerInv, SignalPlaces
  <2>7. Restorable' => SignalsEnding(k + 1)'
    <3>1. SUFFICES ASSUME Restorable PROVE SignalsEnding(k + 1)'
      BY <2>4
    <3>2. ClearPlace' = ClearPlace /\ (k + 1 - ClearPlace = r + 1)
      BY <1>1, <1>5, <1>6, PlansStay
    <3>3. ASSUME NEW j \in SignalPlaces, ClearPlace + j < k + 1
          PROVE  Saved(j)' = "none"
      <4>1. j = r \/ j < r
        BY <1>5, <1>6, <1>7, <3>1, <3>3
      <4>2. QED
        BY <1>5, <1>7, <1>9, <2>5, <3>1, <4>1
    <3>4. ASSUME NEW i \in SignalPlaces, NEW j \in SignalPlaces,
                 r + 1 <= i, i < j, Saved(i)' = "none"
          PROVE  Saved(j)' = "none"
      <4>1. r <= i /\ i # r /\ j # r
        BY <1>5, <1>7, <3>1, <3>4
      <4>2. QED
        BY <1>9, <2>5, <3>1, <3>4, <4>1
    <3>5. SavedFirst(r + 1)'
      BY <3>4 DEF SavedFirst, SignalPlaces
    <3>6. PICK q : q = k + 1 /\ q - ClearPlace = r + 1
      BY <1>5, <1>6
    <3>7. SavedFirst(q - ClearPlace)'
      BY <3>2, <3>5, <3>6 DEF SavedFirst, SignalPlaces, Saved
    <3>8. \A j \in SignalPlaces : ClearPlace + j < q => Saved(j)' = "none"
      BY <3>3, <3>6
    <3>9. SignalsEnding(q)'
      BY <3>2, <3>7, <3>8 DEF SignalsEnding, SignalPlaces
    <3>10. QED
      BY <3>6, <3>9
  <2>8. PhaseInv'
    BY <1>1, <1>3, <1>8, <1>10, <2>1, <2>7, EndingOn
  <2>9. QED
    BY <2>2, <2>3, <2>6, <2>8 DEF LifeInv
<1>13. ASSUME platform = "linux", previous' = [previous EXCEPT ![s] = "none"],
              todo' = AfterRestore, unrestored' = TRUE, disposition' = disposition
       PROVE  LifeInv'
  <2>1. ~ Restorable'
    BY <1>13 DEF Restorable
  <2>2. Types'
    <3>1. previous' \in [SignalSet -> {"none", "app", "ours", "default"}]
      BY <1>13 DEF LifeInv, Types
    <3>2. QED
      BY <1>1, <1>13, <3>1 DEF LifeInv, Types
  <2>3. MsystemInv'
    BY <1>1, <1>13 DEF MsystemInv
  <2>4. HandlerInv'
    BY <1>1, <1>8, <2>1 DEF LifeInv, HandlerInv
  <2>5. todo' = From(TermSteps, m)
    BY <1>11, <1>13 DEF AfterRestore
  <2>6. PhaseInv'
    BY <1>1, <1>3, <1>8, <1>10, <2>1, <2>5, EndingOn
  <2>7. QED
    BY <2>2, <2>3, <2>4, <2>6 DEF LifeInv
<1>14. ASSUME platform = "linux" => previous[s] = "none",
              todo' = AfterRestore, UNCHANGED <<disposition, previous, unrestored>>
       PROVE  LifeInv'
  <2>1. Types'
    BY <1>1, <1>14 DEF LifeInv, Types
  <2>2. HandlerInv' /\ MsystemInv'
    BY <1>1, <1>8, <1>14, HandlersStay
  <2>3. Restorable' => SignalsEnding(m)'
    <3>1. SUFFICES ASSUME Restorable PROVE SignalsEnding(m)
      <4>1. ClearPlace' = ClearPlace
        BY <1>1, PlansStay
      <4>2. QED
        BY <1>1, <1>14, <4>1 DEF Restorable, SignalsEnding, SavedFirst, Saved, SignalPlaces
    <3>2. Saved(r) = "none"
      BY <1>7, <1>14, <3>1 DEF Saved
    <3>3. ASSUME NEW j \in SignalPlaces
          PROVE  Saved(j) = "none"
      <4>1. j < r \/ j = r \/ r < j
        BY <1>5, <1>7, <3>1
      <4>2. r <= r
        BY <1>5
      <4>3. QED
        BY <1>7, <1>9, <3>1, <3>2, <4>1, <4>2
    <3>4. QED
      BY <3>3 DEF SignalsEnding, SavedFirst
  <2>4. todo' = From(TermSteps, m)
    BY <1>11, <1>14 DEF AfterRestore
  <2>5. PhaseInv'
    BY <1>1, <1>3, <1>8, <1>10, <2>3, <2>4, EndingOn
  <2>6. QED
    BY <2>1, <2>2, <2>5 DEF LifeInv
<1>15. ASSUME platform = "msystem", Restored(s), previous' = previous
       PROVE  LifeInv'
  <2>1. /\ disposition' = [disposition EXCEPT ![s] = "default"]
        /\ todo' = From(TermSteps, k + 1) /\ unrestored' = unrestored
    BY <1>2, <1>15 DEF Restored, LifeInv, MsystemInv
  <2>2. ~ Restorable'
    BY <1>1, <1>15 DEF Restorable
  <2>3. Types'
    BY <1>1, <1>15, <2>1 DEF LifeInv, Types
  <2>4. MsystemInv'
    BY <1>1, <1>15, <2>1 DEF LifeInv, MsystemInv, Types
  <2>5. HandlerInv'
    BY <1>1, <1>8, <2>2 DEF LifeInv, HandlerInv
  <2>6. PhaseInv'
    BY <1>1, <1>3, <1>8, <1>10, <2>1, <2>2, EndingOn
  <2>7. QED
    BY <2>3, <2>4, <2>5, <2>6 DEF LifeInv
<1>16. CASE RestoreSignalHandler(s)
  BY <1>12, <1>13, <1>14, <1>16 DEF RestoreSignalHandler, Restored
<1>17. CASE RestoreFilter(s)
  BY <1>14, <1>15, <1>17 DEF RestoreFilter
<1>18. QED
  BY <1>16, <1>17 DEF RestoreHandler

(* Exceptions, and the handlers that run, leave all this alone. *)
LEMMA LifeStays ==
  ASSUME LifeInv, UNCHANGED <<platform, lifeVars>>
  PROVE  LifeInv'
<1>1. UNCHANGED <<platform, phase, todo, logKey, instances, installed, hooking, disposition,
                  previous, terminator, prevTerminator, unrestored>>
  BY DEF lifeVars, flagVars, handlerVars
<1>2. /\ InitSteps' = InitSteps /\ TermSteps' = TermSteps /\ Signals' = Signals
      /\ CreatePlace' = CreatePlace /\ ClearPlace' = ClearPlace
  BY <1>1, PlansStay
<1>3. Types' /\ HandlerInv' /\ MsystemInv'
  BY <1>1, HandlersStay DEF LifeInv, Types, HandlerExists
<1>4. \A k : Starting(k) => Starting(k)'
  BY <1>1, <1>2 DEF Starting, Done, HandlerExists, Restorable, SignalsStarting, SavedFirst,
                    Saved, SignalPlaces
<1>5. \A k : Ending(k) => Ending(k)'
  BY <1>1, <1>2 DEF Ending, HandlerExists, Restorable, SignalsEnding, SavedFirst,
                    Saved, SignalPlaces
<1>6. PhaseInv'
  BY <1>1, <1>2, <1>4, <1>5 DEF LifeInv, PhaseInv, Complete, HandlerExists, Restorable,
                                SavedFirst, Saved, SignalPlaces
<1>7. QED
  BY <1>3, <1>6 DEF LifeInv

LEMMA InitLifeInv == Init => LifeInv
<1>1. SUFFICES ASSUME Init PROVE LifeInv
  OBVIOUS
<1>2. Types
  <2>1. logKey \in BOOLEAN /\ unrestored \in BOOLEAN
    BY <1>1 DEF Init
  <2>2. hooking \in BOOLEAN
    <3>1. PICK flags \in FlagSets : hooking = ("hook" \in flags)
      BY <1>1 DEF Init
    <3>2. QED
      BY <3>1
  <2>3. QED
    BY <1>1, <2>1, <2>2 DEF Init, Types
<1>3. PhaseInv
  BY <1>1 DEF Init, PhaseInv, HandlerExists
<1>4. HandlerInv
  <2>1. \A j \in SignalPlaces : LinuxSignals[j] \in SignalSet
    BY DEF SignalPlaces, SignalSet
  <2>2. QED
    BY <1>1, <2>1 DEF Init, HandlerInv, HandlerExists, Saved
<1>5. MsystemInv
  BY <1>1 DEF Init, MsystemInv
<1>6. QED
  BY <1>2, <1>3, <1>4, <1>5 DEF LifeInv

(* What a handler's steps leave alone. *)
LEMMA HandlingParts ==
  ASSUME NEW t \in Thread,
         \/ \E s \in SignalSet : RaiseSignal(t, s)
         \/ CallTerminate(t) \/ Handle(t)
  PROVE  /\ UNCHANGED <<platform, lifeVars>>
         /\ process = "alive"
<1>1. CASE \E s \in SignalSet : RaiseSignal(t, s)
  BY <1>1 DEF RaiseSignal, Enter
<1>2. CASE CallTerminate(t)
  BY <1>2 DEF CallTerminate, Enter
<1>3. CASE Handle(t)
  <2>1. UNCHANGED lifeVars /\ process = "alive"
    BY <1>3 DEF Handle, WalkStack, PrintFrames, Listen
  <2>2. \/ PrintSignal(t) \/ PrintAddress(t) \/ PrintExtended(t)
        \/ WalkStack(t) \/ PrintFrames(t) \/ Listen(t)
    BY <1>3 DEF Handle
  <2>3. platform' = platform
    BY <2>2 DEF PrintSignal, PrintAddress, PrintExtended, PrintInfo, WalkStack,
                PrintStackBegin, PrintFrames, PrintStackEntries, Listen, Dispatch
  <2>4. QED
    BY <2>1, <2>3
<1>4. QED
  BY <1>1, <1>2, <1>3

(* A step of initDbgUtil or of termDbgUtil. *)
LibraryStep ==
  \/ InitDbgUtil \/ CreateKey \/ CreateHandler \/ Publish \/ Finish
  \/ TermDbgUtil \/ DestroyHandler \/ DestroyKey
  \/ InitComponent \/ TermComponent
  \/ \E c \in Component : ClearPointer(c)
  \/ \E s \in SignalSet : RegisterHandler(s) \/ RestoreHandler(s)
HandlingStep ==
  \E t \in Thread :
    \/ \E s \in SignalSet : RaiseSignal(t, s)
    \/ CallTerminate(t) \/ Handle(t)

LEMMA NextCases == Next => LibraryStep \/ HandlingStep
BY DEF Next, LibraryStep, HandlingStep

LEMMA LibraryStepLifeInv ==
  ASSUME LifeInv, LibraryStep
  PROVE  LifeInv'
<1>1. CASE InitDbgUtil \/ CreateKey \/ CreateHandler \/ Publish \/ Finish
  BY <1>1, InitDbgUtilStep, CreateKeyStep, CreateHandlerStep, PublishStep, FinishStep
<1>2. CASE TermDbgUtil \/ DestroyHandler \/ DestroyKey
  BY <1>2, TermDbgUtilStep, DestroyHandlerStep, DestroyKeyStep
<1>3. CASE InitComponent \/ TermComponent
  BY <1>3, InitComponentStep, TermComponentStep
<1>4. CASE \E c \in Component : ClearPointer(c)
  BY <1>4, ClearPointerStep
<1>5. CASE \E s \in SignalSet : RegisterHandler(s) \/ RestoreHandler(s)
  BY <1>5, RegisterHandlerStep, RestoreHandlerStep
<1>6. QED
  BY <1>1, <1>2, <1>3, <1>4, <1>5 DEF LibraryStep

LEMMA NextLifeInv ==
  ASSUME LifeInv, [Next]_vars
  PROVE  LifeInv'
<1>1. CASE LibraryStep
  BY <1>1, LibraryStepLifeInv
<1>2. CASE HandlingStep
  BY <1>2, HandlingParts, LifeStays DEF HandlingStep
<1>3. CASE UNCHANGED vars
  BY <1>3, LifeStays DEF vars, dispatchVars
<1>4. QED
  BY <1>1, <1>2, <1>3, NextCases

(* Wherever initDbgUtil and termDbgUtil are, and whatever failed before, the
   key, the instances, the global pointers, the saved handlers and the
   handlers that are in force are what the steps made so far imply. *)
THEOREM StepsAccounted == Spec => []LifeInv
<1>1. Init => LifeInv
  BY InitLifeInv
<1>2. LifeInv /\ [Next]_vars => LifeInv'
  BY NextLifeInv
<1>3. QED
  BY <1>1, <1>2, PTL DEF Spec

(* While the library is up every component has its instance and its global
   pointer, and the key of the log records exists, whatever earlier attempts
   at initDbgUtil failed at. *)
THEOREM CompleteWhenUp == Spec => []UpMeansComplete
<1>1. LifeInv => UpMeansComplete
  BY DEF LifeInv, PhaseInv, Complete, UpMeansComplete
<1>2. QED
  BY <1>1, StepsAccounted, PTL

(* After termDbgUtil the application's own terminate handler is in force
   again, and on Linux its own handler of every signal, also when only some
   of the library's could be installed, unless restoring one failed. *)
THEOREM HandlersGivenBack == Spec => []HandlersRestored
<1>1. LifeInv => HandlersRestored
  <2>1. SUFFICES ASSUME LifeInv, phase = "down", ~ unrestored
                 PROVE  /\ terminator = "app"
                        /\ platform = "linux" => \A s \in SignalsNow : disposition[s] = "app"
    BY DEF HandlersRestored
  <2>2. ~ HandlerExists
    BY <2>1 DEF LifeInv, PhaseInv
  <2>3. terminator = "app"
    BY <2>1, <2>2 DEF LifeInv, HandlerInv
  <2>4. ASSUME platform = "linux", NEW s \in SignalsNow
        PROVE  disposition[s] = "app"
    <3>1. PICK j \in SignalPlaces : s = LinuxSignals[j]
      BY <2>4 DEF SignalsNow, Signals, SignalPlaces
    <3>2. QED
      BY <2>1, <2>2, <2>4, <3>1 DEF LifeInv, HandlerInv, Restorable
  <2>5. QED
    BY <2>3, <2>4
<1>2. QED
  BY <1>1, StepsAccounted, PTL

-----------------------------------------------------------------------------
(* Exceptions at any moment.                                               *)

LEMMA LibraryStepAlive == LibraryStep => process = "alive" /\ UNCHANGED dispatchVars
<1>1. ASSUME InitDbgUtil \/ CreateKey \/ CreateHandler \/ Publish \/ Finish
      PROVE  process = "alive" /\ UNCHANGED dispatchVars
  BY <1>1 DEF InitDbgUtil, CreateKey, CreateHandler, Publish, Finish, Doing
<1>2. ASSUME TermDbgUtil \/ DestroyHandler \/ DestroyKey
      PROVE  process = "alive" /\ UNCHANGED dispatchVars
  BY <1>2 DEF TermDbgUtil, DestroyHandler, DestroyKey, Doing
<1>3. ASSUME InitComponent
      PROVE  process = "alive" /\ UNCHANGED dispatchVars
  BY <1>3 DEF InitComponent, InitOn, At, InitLinuxModuleManager,
    InitLinuxSymbolEngine, InitLinuxThreadManager, InitLinuxStackTrace, InitElfReader,
    InitLinuxLifeSignManager, InitWin32ModuleManager, InitWin32SymbolEngine,
    InitWin32ThreadManager, InitWin32StackTrace, InitWin32PEReader, InitWin32LifeSignManager
<1>4. ASSUME TermComponent
      PROVE  process = "alive" /\ UNCHANGED dispatchVars
  BY <1>4 DEF TermComponent, TermOn, At, TermLinuxModuleManager,
    TermLinuxSymbolEngine, TermLinuxThreadManager, TermLinuxStackTrace, TermElfReader,
    TermLinuxLifeSignManager, TermWin32ModuleManager, TermWin32SymbolEngine,
    TermWin32ThreadManager, TermWin32StackTrace, TermWin32PEReader, TermWin32LifeSignManager
<1>5. ASSUME NEW c \in Component, ClearPointer(c)
      PROVE  process = "alive" /\ UNCHANGED dispatchVars
  BY <1>5 DEF ClearPointer, Doing
<1>6. ASSUME NEW s \in SignalSet, RegisterHandler(s) \/ RestoreHandler(s)
      PROVE  process = "alive" /\ UNCHANGED dispatchVars
  BY <1>6 DEF RegisterHandler, RestoreHandler, At
<1>7. QED
  BY <1>1, <1>2, <1>3, <1>4, <1>5, <1>6 DEF LibraryStep

LEMMA HandlingCrash ==
  ASSUME LifeInv, NEW t \in Thread,
         \/ \E s \in SignalSet : RaiseSignal(t, s)
         \/ CallTerminate(t) \/ Handle(t)
  PROVE  CrashesOnlyAtTheEdges'
<1>1. UNCHANGED <<platform, phase, installed, unrestored>> /\ process = "alive"
  BY HandlingParts DEF lifeVars, handlerVars
<1>2. phase = "up" => "exceptions" \in installed /\ Walkers \subseteq installed
  BY DEF LifeInv, PhaseInv, Complete, Component, Walkers
<1>3. phase = "down" => ~ HandlerExists
  BY DEF LifeInv, PhaseInv
<1>4. ASSUME NEW s \in SignalSet, RaiseSignal(t, s)
      PROVE  CrashesOnlyAtTheEdges'
  <2>1. s \in SignalsNow /\ disposition[s] = "ours"
    BY <1>4 DEF RaiseSignal
  <2>2. process' = "noHandler" => "exceptions" \notin installed
    BY <1>1, <1>4 DEF RaiseSignal, Enter
  <2>3. process' # "noWalker"
    BY <1>1, <1>4 DEF RaiseSignal, Enter
  <2>4. phase = "down" => unrestored \/ platform = "windows"
    <3>1. SUFFICES ASSUME phase = "down", ~ unrestored, platform # "windows"
                   PROVE  FALSE
      OBVIOUS
    <3>2. CASE platform = "linux"
      <4>1. PICK j \in SignalPlaces : s = LinuxSignals[j]
        BY <2>1, <3>2 DEF SignalsNow, Signals, SignalPlaces
      <4>2. QED
        BY <1>3, <2>1, <3>1, <3>2, <4>1 DEF LifeInv, HandlerInv, Restorable
    <3>3. CASE platform = "msystem"
      BY <2>1, <3>3 DEF LifeInv, MsystemInv
    <3>4. QED
      BY <3>1, <3>2, <3>3 DEF LifeInv, Types
  <2>5. QED
    BY <1>1, <1>2, <2>2, <2>3, <2>4 DEF CrashesOnlyAtTheEdges
<1>5. ASSUME CallTerminate(t)
      PROVE  CrashesOnlyAtTheEdges'
  <2>1. process' = "noHandler" => "exceptions" \notin installed
    BY <1>1, <1>5 DEF CallTerminate, Enter
  <2>2. process' # "noWalker"
    BY <1>1, <1>5 DEF CallTerminate, Enter
  <2>3. phase # "down"
    BY <1>3, <1>5 DEF CallTerminate, LifeInv, HandlerInv
  <2>4. QED
    BY <1>1, <1>2, <2>1, <2>2, <2>3 DEF CrashesOnlyAtTheEdges
<1>6. ASSUME Handle(t)
      PROVE  CrashesOnlyAtTheEdges'
  <2>1. CASE PrintSignal(t) \/ PrintAddress(t) \/ PrintExtended(t)
    <3>1. process' \in {"alive", "overrun"}
      BY <1>1, <2>1 DEF PrintSignal, PrintAddress, PrintExtended, PrintInfo
    <3>2. QED
      BY <3>1 DEF CrashesOnlyAtTheEdges
  <2>2. CASE WalkStack(t)
    <3>1. process' # "noHandler"
      BY <2>2 DEF WalkStack, PrintStackBegin
    <3>2. process' = "noWalker" => ~ (Walkers \subseteq installed)
      BY <2>2 DEF WalkStack, PrintStackBegin
    <3>3. QED
      BY <1>1, <1>2, <3>1, <3>2 DEF CrashesOnlyAtTheEdges
  <2>3. CASE PrintFrames(t) \/ Listen(t)
    <3>1. process' \in {"alive", "overrun", "ended"}
      BY <2>3 DEF PrintFrames, PrintStackEntries, Listen, Dispatch
    <3>2. QED
      BY <3>1 DEF CrashesOnlyAtTheEdges
  <2>4. QED
    BY <1>6, <2>1, <2>2, <2>3 DEF Handle
<1>7. QED
  BY <1>4, <1>5, <1>6

(* An exception that finds the library's handler without the handler's
   global pointer, or a handler that finds no provider of stack traces, is
   raised while the library starts or stops or after either failed, never
   while it is up; and, of the handler, after termDbgUtil only where
   restoring a signal's handler failed or, on Windows, the filter was left. *)
THEOREM CrashesConfined == Spec => []CrashesOnlyAtTheEdges
<1>1. Init => CrashesOnlyAtTheEdges
  BY DEF Init, DispatchInit, CrashesOnlyAtTheEdges
<1>2. LifeInv /\ CrashesOnlyAtTheEdges /\ [Next]_vars => CrashesOnlyAtTheEdges'
  <2>1. SUFFICES ASSUME LifeInv, CrashesOnlyAtTheEdges, [Next]_vars
                 PROVE  CrashesOnlyAtTheEdges'
    OBVIOUS
  <2>2. CASE LibraryStep
    BY <2>2, LibraryStepAlive DEF CrashesOnlyAtTheEdges, dispatchVars
  <2>3. CASE HandlingStep
    BY <2>1, <2>3, HandlingCrash DEF HandlingStep
  <2>4. CASE UNCHANGED vars
    <3>1. UNCHANGED <<platform, process, phase, unrestored>>
      BY <2>4 DEF vars, dispatchVars, lifeVars, handlerVars
    <3>2. QED
      BY <2>1, <3>1 DEF CrashesOnlyAtTheEdges
  <2>5. QED
    BY <2>1, <2>2, <2>3, <2>4, NextCases
<1>3. QED
  BY <1>1, <1>2, StepsAccounted, PTL DEF Spec

-----------------------------------------------------------------------------
(* The texts that the listener is given.                                   *)

Parts == {Gap, "signal", "address", "extended", "thread", "frames"}
Places == {"out", "signal", "address", "extended", "stack", "frames", "listen",
           "terminate", "terminateFrames", "listenTerminate"}

DispatchTypes ==
  /\ at \in [Thread -> Places]
  /\ infoLen \in Nat /\ stackLen \in Nat /\ faults \in Nat
  /\ infoBuf \in [Thread -> [1 .. InfoCells -> Parts]]
  /\ stackBuf \in [Thread -> [1 .. StackCells -> Parts]]

(* Threads that are in the handler together know of it. *)
Apart ==
  \A t, u \in Thread : at[t] # "out" /\ at[u] # "out" /\ t # u => t \in mixed

(* Before the first exception nothing was printed. *)
Fresh == faults = 0 => stackLen = 0 /\ \A t \in Thread : at[t] = "out"

(* The information that a thread has printed so far. *)
InfoRight(t) ==
  /\ at[t] = "address" => infoLen = 1 /\ infoBuf[t][1] = "signal"
  /\ at[t] = "extended" => /\ infoLen = 2
                           /\ infoBuf[t][1] = "signal" /\ infoBuf[t][2] = "address"
  /\ at[t] \in {"stack", "frames", "listen"} =>
       /\ infoBuf[t][1] = "signal" /\ infoBuf[t][2] = "address" /\ infoBuf[t][3] = "extended"
       /\ 3 < InfoCells => infoBuf[t][4] = Gap

(* The call stack that the first thread has printed so far. *)
StackRight(t) ==
  /\ at[t] \in {"signal", "address", "extended", "stack", "terminate"} => stackLen = 0
  /\ at[t] \in {"frames", "terminateFrames"} => stackLen = 1 /\ stackBuf[t][1] = "thread"
  /\ at[t] \in {"listen", "listenTerminate"} =>
       /\ stackBuf[t][1] = "thread" /\ stackBuf[t][2] = "frames"
       /\ 2 < StackCells => stackBuf[t][3] = Gap

(* Of a thread that is alone in the handler. *)
AloneRight(t) ==
  at[t] # "out" /\ t \notin mixed =>
    /\ platform = "linux" => InfoRight(t)
    /\ t \notin later => StackRight(t)

DispatchInv ==
  /\ DispatchTypes /\ Apart /\ Fresh /\ ReportsWhole
  /\ \A t \in Thread : AloneRight(t)

(* The buffers have room for what one exception prints. *)
BuffersSuffice == InfoCells >= 3 /\ StackCells >= 2

(* What is read of a buffer that begins with certain parts. *)
LEMMA TextIs ==
  ASSUME NEW m \in Nat, NEW buf \in [1 .. m -> Parts], NEW parts \in Seq(Parts),
         NEW n \in 0 .. m, Len(parts) = n,
         \A i \in 1 .. n : buf[i] = parts[i] /\ parts[i] # Gap,
         n < m => buf[n + 1] = Gap
  PROVE  Text(buf) = parts
<1> DEFINE shown == {k \in 0 .. m : \A i \in 1 .. k : buf[i] # Gap}
           longest == CHOOSE k \in shown : \A j \in shown : j <= k
<1>1. Len(buf) = m
  OBVIOUS
<1>2. n \in shown
  OBVIOUS
<1>3. \A j \in shown : j <= n
  <2>1. ASSUME NEW j \in shown, ~ (j <= n)
        PROVE  FALSE
    <3>1. n + 1 \in 1 .. j /\ n < m
      BY <2>1
    <3>2. buf[n + 1] # Gap
      BY <2>1, <3>1
    <3>3. QED
      BY <3>1, <3>2
  <2>2. QED
    BY <2>1
<1>4. ASSUME NEW k \in shown, \A j \in shown : j <= k
      PROVE  k = n
  <2>1. k \in Nat
    OBVIOUS
  <2> HIDE DEF shown
  <2>2. n <= k /\ k <= n
    BY <1>2, <1>3, <1>4
  <2>3. QED
    BY <2>1, <2>2
<1>5. longest = n
  <2> HIDE DEF shown
  <2>1. longest \in shown /\ \A j \in shown : j <= longest
    BY <1>2, <1>3
  <2> HIDE DEF longest
  <2>2. QED
    BY <1>4, <2>1
<1>6. Text(buf) = SubSeq(buf, 1, longest)
  BY <1>1 DEF Text
<1>7. SubSeq(buf, 1, n) = parts
  <2> DEFINE u == SubSeq(buf, 1, n)
  <2>1. \A i \in 1 .. n : buf[i] \in Parts
    OBVIOUS
  <2>2. /\ u \in Seq(Parts) /\ Len(u) = n
        /\ \A i \in 1 .. n : u[i] = buf[i]
    BY <2>1, SubSeqProperties
  <2> HIDE DEF u
  <2>3. \A i \in 1 .. n : u[i] = parts[i]
    BY <2>2
  <2>4. u = parts
    BY <2>2, <2>3, SeqEqual
  <2>5. QED
    BY <2>4 DEF u
<1>8. QED
  BY <1>5, <1>6, <1>7

(* Printing keeps a buffer a buffer. *)
LEMMA PrintedIs ==
  ASSUME NEW m \in Nat, NEW buf \in [1 .. m -> Parts], NEW len \in Nat, NEW part \in Parts
  PROVE  /\ Printed(buf, len, part) \in [1 .. m -> Parts]
         /\ len + 1 <= m => Printed(buf, len, part)[len + 1] = part
         /\ len + 2 <= m => Printed(buf, len, part)[len + 2] = Gap
         /\ \A i \in 1 .. m : i <= len => Printed(buf, len, part)[i] = buf[i]
<1>1. \A i \in 1 .. m : Printed(buf, len, part)[i] =
        IF i = len + 1 THEN part ELSE IF i = len + 2 THEN Gap ELSE buf[i]
  BY DEF Printed
<1>2. Printed(buf, len, part) \in [1 .. m -> Parts]
  BY DEF Printed, Parts
<1>3. len + 1 <= m => Printed(buf, len, part)[len + 1] = part
  BY <1>1
<1>4. len + 2 <= m => Printed(buf, len, part)[len + 2] = Gap
  BY <1>1
<1>5. \A i \in 1 .. m : i <= len => Printed(buf, len, part)[i] = buf[i]
  BY <1>1
<1>6. QED
  BY <1>2, <1>3, <1>4, <1>5

LEMMA InitDispatchInv == Init => DispatchInv
<1>1. SUFFICES ASSUME Init PROVE DispatchInv
  OBVIOUS
<1>2. DispatchTypes
  BY <1>1 DEF Init, DispatchInit, DispatchTypes, Empty, Places, Parts
<1>3. Apart /\ Fresh /\ \A t \in Thread : AloneRight(t)
  BY <1>1 DEF Init, DispatchInit, Apart, Fresh, AloneRight
<1>4. ReportsWhole
  BY <1>1 DEF Init, DispatchInit, ReportsWhole
<1>5. QED
  BY <1>2, <1>3, <1>4 DEF DispatchInv

(* A step of a thread in the handler: the others are not alone. *)
LEMMA InsideStep ==
  ASSUME DispatchInv, NEW t \in Thread, at[t] # "out", NEW to \in Places,
         at' = [at EXCEPT ![t] = to],
         UNCHANGED <<platform, faults, mixed, later>>,
         DispatchTypes', ReportsWhole', AloneRight(t)'
  PROVE  DispatchInv'
<1>1. \A u \in Thread \ {t} : at'[u] = at[u]
  BY DEF DispatchInv, DispatchTypes
<1>2. Apart'
  BY <1>1 DEF DispatchInv, Apart
<1>3. Fresh'
  BY DEF DispatchInv, Fresh
<1>4. ASSUME NEW u \in Thread, u # t
      PROVE  AloneRight(u)'
  <2>1. at[u] # "out" => u \in mixed
    BY <1>4 DEF DispatchInv, Apart
  <2>2. QED
    BY <1>1, <1>4, <2>1 DEF AloneRight
<1>5. QED
  BY <1>2, <1>3, <1>4 DEF DispatchInv

LEMMA EnterStep ==
  ASSUME DispatchInv, NEW t \in Thread, NEW first \in {"signal", "terminate"}, Enter(t, first)
  PROVE  DispatchInv'
<1>1. /\ at[t] = "out" /\ at' = [at EXCEPT ![t] = first]
      /\ faults' = faults + 1
      /\ mixed' = IF Inside = {} THEN mixed \ {t} ELSE mixed \cup Inside \cup {t}
      /\ later' = IF faults = 0 THEN later ELSE later \cup {t}
      /\ UNCHANGED <<platform, infoLen, infoBuf, stackLen, stackBuf, reports>>
  BY DEF Enter, Go, textVars
<1>2. /\ at'[t] = first /\ \A u \in Thread \ {t} : at'[u] = at[u]
      /\ faults \in Nat /\ faults' # 0
  BY <1>1 DEF DispatchInv, DispatchTypes
<1>3. DispatchTypes'
  BY <1>1 DEF DispatchInv, DispatchTypes, Places
<1>4. ASSUME NEW u \in Thread, at[u] # "out"
      PROVE  u \in mixed'
  <2>1. u \in Inside
    BY <1>4 DEF Inside
  <2>2. QED
    BY <1>1, <2>1
<1>5. Apart'
  <2>1. ASSUME NEW u \in Thread, NEW v \in Thread, at'[u] # "out", at'[v] # "out", u # v
        PROVE  u \in mixed'
    <3>1. CASE u # t
      BY <1>2, <1>4, <2>1, <3>1
    <3>2. CASE u = t
      <4>1. v \in Inside
        BY <1>2, <2>1, <3>2 DEF Inside
      <4>2. QED
        BY <1>1, <3>2, <4>1
    <3>3. QED
      BY <3>1, <3>2
  <2>2. QED
    BY <2>1 DEF Apart
<1>6. Fresh'
  BY <1>2 DEF Fresh
<1>7. ReportsWhole'
  BY <1>1 DEF DispatchInv, ReportsWhole
<1>8. ASSUME NEW u \in Thread
      PROVE  AloneRight(u)'
  <2>1. CASE u # t
    BY <1>2, <1>4, <2>1 DEF AloneRight
  <2>2. CASE u = t
    <3>1. InfoRight(t)'
      BY <1>2 DEF InfoRight
    <3>2. t \notin later' => stackLen' = 0
      BY <1>1 DEF DispatchInv, Fresh
    <3>3. t \notin later' => StackRight(t)'
      BY <1>2, <3>2 DEF StackRight
    <3>4. QED
      BY <2>2, <3>1, <3>3 DEF AloneRight
  <2>3. QED
    BY <2>1, <2>2
<1>9. QED
  BY <1>3, <1>5, <1>6, <1>7, <1>8 DEF DispatchInv

LEMMA PrintSignalStep ==
  ASSUME BuffersSuffice, DispatchInv, NEW t \in Thread, PrintSignal(t)
  PROVE  DispatchInv'
<1>1. /\ at[t] = "signal" /\ at' = [at EXCEPT ![t] = "address"]
      /\ infoBuf' = [infoBuf EXCEPT ![t] = Printed(infoBuf[t], 0, "signal")]
      /\ infoLen' = LengthAfterFirst
      /\ UNCHANGED <<platform, stackLen, stackBuf, faults, mixed, later, reports>>
  BY DEF PrintSignal, Go, InfoParts, historyVars
<1>2. /\ Printed(infoBuf[t], 0, "signal") \in [1 .. InfoCells -> Parts]
      /\ Printed(infoBuf[t], 0, "signal")[1] = "signal"
  <2>1. InfoCells \in Nat /\ infoBuf[t] \in [1 .. InfoCells -> Parts] /\ "signal" \in Parts
    BY DispatchAssumption DEF DispatchInv, DispatchTypes, Parts
  <2>2. 0 \in Nat /\ 1 \in DOMAIN infoBuf[t]
    BY <2>1 DEF BuffersSuffice
  <2>3. Printed(infoBuf[t], 0, "signal")[1] = "signal"
    BY <2>2 DEF Printed
  <2>4. QED
    BY <2>1, <2>2, <2>3, PrintedIs
<1>3. DispatchTypes'
  BY <1>1, <1>2 DEF DispatchInv, DispatchTypes, Places, LengthAfterFirst
<1>4. at'[t] = "address" /\ infoBuf'[t][1] = "signal"
  BY <1>1, <1>2 DEF DispatchInv, DispatchTypes
<1>5. platform' = "linux" => InfoRight(t)'
  BY <1>1, <1>4 DEF InfoRight, LengthAfterFirst
<1>6. AloneRight(t)'
  <2>1. StackRight(t) => StackRight(t)'
    BY <1>1, <1>4 DEF StackRight
  <2>2. QED
    BY <1>1, <1>5, <2>1 DEF DispatchInv, AloneRight
<1>7. ReportsWhole'
  BY <1>1 DEF DispatchInv, ReportsWhole
<1>8. QED
  BY <1>1, <1>3, <1>6, <1>7, InsideStep DEF Places

(* The parts of the information after the first. *)
InfoPath(i, part, next) ==
  \/ i = 2 /\ part = "address" /\ next = "extended"
  \/ i = 3 /\ part = "extended" /\ next = "stack"

LEMMA PrintInfoStep ==
  ASSUME BuffersSuffice, DispatchInv, NEW t \in Thread, NEW i, NEW part, NEW next,
         InfoPath(i, part, next), PrintInfo(t, i, next)
  PROVE  DispatchInv'
<1>1. InfoParts[i] = part
  BY DEF InfoPath, InfoParts
<1>2. PICK buf :
        /\ buf = Printed(infoBuf[t], infoLen, part)
        /\ at[t] = part /\ at' = [at EXCEPT ![t] = next]
        /\ infoBuf' = [infoBuf EXCEPT ![t] = buf]
        /\ infoLen' = infoLen + 1
        /\ UNCHANGED <<platform, stackLen, stackBuf, faults, mixed, later, reports>>
  BY <1>1 DEF PrintInfo, Go, historyVars
<1>3. /\ InfoCells \in Nat /\ InfoCells >= 3 /\ infoLen \in Nat
      /\ infoBuf[t] \in [1 .. InfoCells -> Parts] /\ part \in Parts
  BY <1>2, DispatchAssumption DEF DispatchInv, DispatchTypes, Parts, BuffersSuffice, InfoPath
<1>4. /\ buf \in [1 .. InfoCells -> Parts]
      /\ infoLen + 1 <= InfoCells => buf[infoLen + 1] = part
      /\ infoLen + 2 <= InfoCells => buf[infoLen + 2] = Gap
      /\ \A j \in 1 .. InfoCells : j <= infoLen => buf[j] = infoBuf[t][j]
  <2>1. buf = Printed(infoBuf[t], infoLen, part)
    BY <1>2
  <2>2. /\ buf \in [1 .. InfoCells -> Parts]
        /\ infoLen + 1 <= InfoCells => buf[infoLen + 1] = part
    BY <1>3, <2>1, PrintedIs
  <2>3. infoLen + 2 <= InfoCells => buf[infoLen + 2] = Gap
    BY <1>3, <2>1, PrintedIs
  <2>4. \A j \in 1 .. InfoCells : j <= infoLen => buf[j] = infoBuf[t][j]
    BY <1>3, <2>1, PrintedIs
  <2>5. QED
    BY <2>2, <2>3, <2>4
<1>5. at'[t] = next /\ infoBuf'[t] = buf
  BY <1>2 DEF DispatchInv, DispatchTypes
<1>6. DispatchTypes'
  BY <1>2, <1>4 DEF DispatchInv, DispatchTypes, Places, InfoPath
<1>7. InfoRight(t) => InfoRight(t)'
  <2>1. CASE i = 2 /\ part = "address" /\ next = "extended"
    <3>1. SUFFICES ASSUME infoLen = 1, infoBuf[t][1] = "signal"
                   PROVE  infoLen' = 2 /\ buf[1] = "signal" /\ buf[2] = "address"
      BY <1>2, <1>5, <2>1 DEF InfoRight
    <3>2. buf[1] = infoBuf[t][1]
      BY <1>3, <1>4, <3>1
    <3>3. buf[2] = "address"
      BY <1>2, <1>3, <1>4, <2>1, <3>1
    <3>4. QED
      BY <1>2, <3>1, <3>2, <3>3
  <2>2. CASE i = 3 /\ part = "extended" /\ next = "stack"
    <3>1. SUFFICES ASSUME infoLen = 2, infoBuf[t][1] = "signal", infoBuf[t][2] = "address"
                   PROVE  /\ buf[1] = "signal" /\ buf[2] = "address" /\ buf[3] = "extended"
                          /\ 3 < InfoCells => buf[4] = Gap
      BY <1>2, <1>5, <2>2 DEF InfoRight
    <3>2. buf[1] = infoBuf[t][1] /\ buf[2] = infoBuf[t][2]
      BY <1>3, <1>4, <3>1
    <3>3. buf[3] = "extended"
      BY <1>2, <1>3, <1>4, <2>2, <3>1
    <3>4. 3 < InfoCells => buf[4] = Gap
      BY <1>3, <1>4, <3>1
    <3>5. QED
      BY <3>1, <3>2, <3>3, <3>4
  <2>3. QED
    BY <2>1, <2>2 DEF InfoPath
<1>8. StackRight(t) => StackRight(t)'
  BY <1>2, <1>5 DEF StackRight, InfoPath
<1>9. AloneRight(t)'
  BY <1>2, <1>5, <1>7, <1>8 DEF DispatchInv, AloneRight, InfoPath
<1>10. ReportsWhole'
  BY <1>2 DEF DispatchInv, ReportsWhole
<1>11. at[t] # "out" /\ next \in Places
  BY <1>2 DEF Places, InfoPath
<1>12. QED
  BY <1>2, <1>6, <1>9, <1>10, <1>11, InsideStep

(* Both paths through the printing of the call stack. *)
StackPath(from, next) ==
  \/ from = "stack" /\ next = "frames"
  \/ from = "terminate" /\ next = "terminateFrames"
FramesPath(from, next) ==
  \/ from = "frames" /\ next = "listen"
  \/ from = "terminateFrames" /\ next = "listenTerminate"

LEMMA PrintStackBeginStep ==
  ASSUME BuffersSuffice, DispatchInv, NEW t \in Thread, NEW from, NEW next,
         StackPath(from, next), PrintStackBegin(t, from, next)
  PROVE  DispatchInv'
<1>1. PICK old, buf :
        /\ old = [stackBuf[t] EXCEPT ![1] = Gap] /\ buf = Printed(old, stackLen, "thread")
        /\ at[t] = from /\ at' = [at EXCEPT ![t] = next]
        /\ stackBuf' = [stackBuf EXCEPT ![t] = buf]
        /\ stackLen' = stackLen + 1
        /\ UNCHANGED <<platform, infoLen, infoBuf, faults, mixed, later, reports>>
  BY DEF PrintStackBegin, Go, StackParts, historyVars
<1>2. /\ StackCells \in Nat /\ StackCells >= 2 /\ stackLen \in Nat
      /\ old \in [1 .. StackCells -> Parts] /\ "thread" \in Parts
  BY <1>1, DispatchAssumption DEF DispatchInv, DispatchTypes, Parts, BuffersSuffice
<1>3. /\ buf \in [1 .. StackCells -> Parts]
      /\ stackLen = 0 => buf[1] = "thread"
  <2>1. buf = Printed(old, stackLen, "thread")
    BY <1>1
  <2>2. /\ buf \in [1 .. StackCells -> Parts]
        /\ stackLen + 1 <= StackCells => buf[stackLen + 1] = "thread"
    BY <1>2, <2>1, PrintedIs
  <2>3. QED
    BY <1>2, <2>2
<1>4. at'[t] = next /\ stackBuf'[t] = buf /\ next \in Places /\ from # "out"
  BY <1>1 DEF DispatchInv, DispatchTypes, StackPath, Places
<1>5. DispatchTypes'
  <2>1. stackBuf' \in [Thread -> [1 .. StackCells -> Parts]]
    <3>1. stackBuf' = [stackBuf EXCEPT ![t] = buf]
      BY <1>1
    <3>2. QED
      BY <1>3, <3>1 DEF DispatchInv, DispatchTypes
  <2>2. at' \in [Thread -> Places] /\ stackLen' \in Nat
    BY <1>1, <1>2, <1>4 DEF DispatchInv, DispatchTypes
  <2>3. QED
    BY <1>1, <2>1, <2>2 DEF DispatchInv, DispatchTypes
<1>6. InfoRight(t) => InfoRight(t)'
  BY <1>1, <1>4 DEF InfoRight, StackPath
<1>7. StackRight(t) => StackRight(t)'
  BY <1>1, <1>2, <1>3, <1>4 DEF StackRight, StackPath
<1>8. AloneRight(t)'
  BY <1>1, <1>4, <1>6, <1>7 DEF DispatchInv, AloneRight
<1>9. ReportsWhole'
  BY <1>1 DEF DispatchInv, ReportsWhole
<1>10. QED
  BY <1>1, <1>4, <1>5, <1>8, <1>9, InsideStep

LEMMA PrintStackEntriesStep ==
  ASSUME BuffersSuffice, DispatchInv, NEW t \in Thread, NEW from, NEW next,
         FramesPath(from, next), PrintStackEntries(t, from, next)
  PROVE  DispatchInv'
<1>1. PICK buf :
        /\ buf = Printed(stackBuf[t], stackLen, "frames")
        /\ at[t] = from /\ at' = [at EXCEPT ![t] = next]
        /\ stackBuf' = [stackBuf EXCEPT ![t] = buf]
        /\ stackLen' = stackLen + 1
        /\ UNCHANGED <<platform, infoLen, infoBuf, faults, mixed, later, reports>>
  BY DEF PrintStackEntries, Go, StackParts, historyVars
<1>2. /\ StackCells \in Nat /\ StackCells >= 2 /\ stackLen \in Nat
      /\ stackBuf[t] \in [1 .. StackCells -> Parts] /\ "frames" \in Parts
  BY DispatchAssumption DEF DispatchInv, DispatchTypes, Parts, BuffersSuffice
<1>3. /\ buf \in [1 .. StackCells -> Parts]
      /\ stackLen + 1 <= StackCells => buf[stackLen + 1] = "frames"
      /\ stackLen + 2 <= StackCells => buf[stackLen + 2] = Gap
      /\ \A j \in 1 .. StackCells : j <= stackLen => buf[j] = stackBuf[t][j]
  <2>1. PICK old : old = stackBuf[t]
    OBVIOUS
  <2>2. old \in [1 .. StackCells -> Parts] /\ buf = Printed(old, stackLen, "frames")
    BY <1>1, <1>2, <2>1
  <2>3. Printed(old, stackLen, "frames") \in [1 .. StackCells -> Parts]
    BY <1>2, <2>2, PrintedIs, ZenonT(60)
  <2>4. /\ stackLen + 1 <= StackCells => Printed(old, stackLen, "frames")[stackLen + 1] = "frames"
        /\ stackLen + 2 <= StackCells => Printed(old, stackLen, "frames")[stackLen + 2] = Gap
    BY <1>2, <2>2, PrintedIs, ZenonT(60)
  <2>5. \A j \in 1 .. StackCells :
          j <= stackLen => Printed(old, stackLen, "frames")[j] = old[j]
    BY <1>2, <2>2, PrintedIs, ZenonT(60)
  <2>6. QED
    BY <2>1, <2>2, <2>3, <2>4, <2>5
<1>4. stackLen = 1 => /\ buf[1] = stackBuf[t][1] /\ buf[2] = "frames"
                      /\ 2 < StackCells => buf[3] = Gap
  BY <1>2, <1>3
<1>5. at'[t] = next /\ stackBuf'[t] = buf /\ next \in Places /\ from # "out"
  BY <1>1 DEF DispatchInv, DispatchTypes, FramesPath, Places
<1>6. DispatchTypes'
  BY <1>1, <1>2, <1>3, <1>5 DEF DispatchInv, DispatchTypes
<1>7. InfoRight(t) => InfoRight(t)'
  BY <1>1, <1>5 DEF InfoRight, FramesPath
<1>8. StackRight(t) => StackRight(t)'
  BY <1>1, <1>4, <1>5 DEF StackRight, FramesPath
<1>9. AloneRight(t)'
  BY <1>1, <1>5, <1>7, <1>8 DEF DispatchInv, AloneRight
<1>10. ReportsWhole'
  BY <1>1 DEF DispatchInv, ReportsWhole
<1>11. QED
  BY <1>1, <1>5, <1>6, <1>9, <1>10, InsideStep

(* What the thread's buffers then show. *)
LEMMA ReportIs ==
  ASSUME BuffersSuffice, DispatchInv, NEW t \in Thread,
         at[t] \in {"listen", "listenTerminate"}, t \notin mixed
  PROVE  /\ platform = "linux" => Report(t).info
         /\ t \notin later => Report(t).stack
<1>1. /\ InfoCells \in Nat /\ InfoCells >= 3 /\ StackCells \in Nat /\ StackCells >= 2
      /\ infoBuf[t] \in [1 .. InfoCells -> Parts]
      /\ stackBuf[t] \in [1 .. StackCells -> Parts]
  BY DispatchAssumption DEF DispatchInv, DispatchTypes, BuffersSuffice
<1>2. AloneRight(t) /\ at[t] # "out"
  BY DEF DispatchInv
<1>3. ASSUME platform = "linux", at[t] = "listen"
      PROVE  Text(infoBuf[t]) = InfoParts
  <2>1. /\ infoBuf[t][1] = "signal" /\ infoBuf[t][2] = "address"
        /\ infoBuf[t][3] = "extended"
        /\ 3 < InfoCells => infoBuf[t][4] = Gap
    BY <1>2, <1>3 DEF AloneRight, InfoRight
  <2>2. \A i \in 1 .. 3 : infoBuf[t][i] = InfoParts[i] /\ InfoParts[i] # Gap
    BY <2>1 DEF Gap, InfoParts
  <2>3. InfoParts \in Seq(Parts) /\ Len(InfoParts) = 3
    BY DEF InfoParts, Parts
  <2>4. 3 \in 0 .. InfoCells /\ (3 < InfoCells => infoBuf[t][3 + 1] = Gap)
    BY <1>1, <2>1
  <2>5. QED
    BY <1>1, <2>2, <2>3, <2>4, TextIs
<1>4. ASSUME t \notin later
      PROVE  Text(stackBuf[t]) = StackParts
  <2>1. /\ stackBuf[t][1] = "thread" /\ stackBuf[t][2] = "frames"
        /\ 2 < StackCells => stackBuf[t][3] = Gap
    BY <1>2, <1>4 DEF AloneRight, StackRight
  <2>2. \A i \in 1 .. 2 : stackBuf[t][i] = StackParts[i] /\ StackParts[i] # Gap
    BY <2>1 DEF Gap, StackParts
  <2>3. StackParts \in Seq(Parts) /\ Len(StackParts) = 2
    BY DEF StackParts, Parts
  <2>4. 2 \in 0 .. StackCells /\ (2 < StackCells => stackBuf[t][2 + 1] = Gap)
    BY <1>1, <2>1
  <2>5. QED
    BY <1>1, <2>2, <2>3, <2>4, TextIs
<1>5. QED
  BY <1>3, <1>4 DEF Report

LEMMA ListenStep ==
  ASSUME BuffersSuffice, DispatchInv, NEW t \in Thread, Listen(t)
  PROVE  DispatchInv'
<1>1. /\ at[t] \in {"listen", "listenTerminate"} /\ at' = [at EXCEPT ![t] = "out"]
      /\ reports' = reports \/ reports' = reports \cup {Report(t)}
      /\ UNCHANGED <<platform, infoLen, infoBuf, stackLen, stackBuf, faults, mixed, later>>
  BY DEF Listen, Dispatch, textVars
<1>2. Report(t).alone => t \notin mixed
  BY DEF Report
<1>3. Report(t).first => t \notin later
  BY DEF Report
<1>4. ReportsWhole'
  <2>1. Report(t).alone => /\ platform = "linux" => Report(t).info
                           /\ Report(t).first => Report(t).stack
    BY <1>1, <1>2, <1>3, ReportIs
  <2>2. QED
    BY <1>1, <2>1 DEF DispatchInv, ReportsWhole
<1>5. DispatchTypes'
  BY <1>1 DEF DispatchInv, DispatchTypes, Places
<1>6. AloneRight(t)'
  BY <1>1 DEF DispatchInv, DispatchTypes, AloneRight
<1>7. QED
  BY <1>1, <1>4, <1>5, <1>6, InsideStep DEF Places

(* Only the way a process ended changes, if anything. *)
LEMMA DispatchStays ==
  ASSUME DispatchInv, UNCHANGED <<platform, at, textVars, historyVars>>
  PROVE  DispatchInv'
<1>1. UNCHANGED <<platform, at, infoLen, infoBuf, stackLen, stackBuf, faults, mixed, later,
                  reports>>
  BY DEF textVars, historyVars
<1>2. \A t \in Thread : AloneRight(t)'
  BY <1>1 DEF DispatchInv, AloneRight, InfoRight, StackRight
<1>3. QED
  BY <1>1, <1>2 DEF DispatchInv, DispatchTypes, Apart, Fresh, ReportsWhole

LEMMA HandlingDispatchInv ==
  ASSUME BuffersSuffice, DispatchInv, HandlingStep
  PROVE  DispatchInv'
<1>1. PICK t \in Thread : \/ \E s \in SignalSet : RaiseSignal(t, s)
                          \/ CallTerminate(t) \/ Handle(t)
  BY DEF HandlingStep
<1>2. CASE (\E s \in SignalSet : RaiseSignal(t, s)) \/ CallTerminate(t)
  <2>1. \/ \E first \in {"signal", "terminate"} : Enter(t, first)
        \/ UNCHANGED <<platform, at, textVars, historyVars>>
    BY <1>2 DEF RaiseSignal, CallTerminate
  <2>2. QED
    BY <2>1, EnterStep, DispatchStays
<1>3. CASE Handle(t)
  <2>1. CASE PrintSignal(t) \/ PrintAddress(t) \/ PrintExtended(t)
    <3>1. PrintSignal(t)
            \/ \E i, part, next : InfoPath(i, part, next) /\ PrintInfo(t, i, next)
      BY <2>1 DEF PrintAddress, PrintExtended, InfoPath
    <3>2. QED
      BY <3>1, PrintSignalStep, PrintInfoStep
  <2>2. CASE WalkStack(t)
    <3>1. \/ \E from, next : StackPath(from, next) /\ PrintStackBegin(t, from, next)
          \/ UNCHANGED <<platform, at, textVars, historyVars>>
      BY <2>2 DEF WalkStack, StackPath
    <3>2. QED
      BY <3>1, PrintStackBeginStep, DispatchStays
  <2>3. CASE PrintFrames(t)
    <3>1. \E from, next : FramesPath(from, next) /\ PrintStackEntries(t, from, next)
      BY <2>3 DEF PrintFrames, FramesPath
    <3>2. QED
      BY <3>1, PrintStackEntriesStep
  <2>4. CASE Listen(t)
    BY <2>4, ListenStep
  <2>5. QED
    BY <1>3, <2>1, <2>2, <2>3, <2>4 DEF Handle
<1>4. QED
  BY <1>1, <1>2, <1>3

(* What the listener is told of an exception whose thread was alone in the
   handler is whole, if the buffers have room for one exception: on Linux its
   information, however many were handled before, and the call stack of the
   first one (signalHandler, finalizeSignalHandling, prepareCallStack). *)
THEOREM AloneReportsWhole ==
  ASSUME BuffersSuffice
  PROVE  Spec => []ReportsWhole
<1>1. Init => DispatchInv
  BY InitDispatchInv
<1>2. DispatchInv /\ [Next]_vars => DispatchInv'
  <2>1. SUFFICES ASSUME DispatchInv, [Next]_vars
                 PROVE  DispatchInv'
    OBVIOUS
  <2>2. CASE LibraryStep
    BY <2>1, <2>2, LibraryStepAlive, DispatchStays DEF dispatchVars
  <2>3. CASE HandlingStep
    BY <2>1, <2>3, HandlingDispatchInv
  <2>4. CASE UNCHANGED vars
    BY <2>1, <2>4, DispatchStays DEF vars, dispatchVars
  <2>5. QED
    BY <2>1, <2>2, <2>3, <2>4, NextCases
<1>3. DispatchInv => ReportsWhole
  BY DEF DispatchInv
<1>4. QED
  BY <1>1, <1>2, <1>3, PTL DEF Spec
-----------------------------------------------------------------------------
(* The registry of loggers.                                                *)

(* Induction over the natural numbers, by the set of those for which the
   claim holds; and the least of some numbers. *)
LEMMA LeastNumber ==
  ASSUME NEW T, T \subseteq Nat, T # {}
  PROVE  \E x \in T : \A y \in T : x <= y
<1>1. PICK R : IsWellFoundedOn(R, Nat) /\ R = {ss \in Nat \X Nat : ss[1] < ss[2]}
  BY NatLessThanWellFounded DEF OpToRel
<1>2. \A U : U \subseteq Nat /\ U # {} => \E x \in U : \A y \in U : ~ (<<y, x>> \in R)
  BY <1>1, WFMin
<1>3. PICK x \in T : \A y \in T : ~ (<<y, x>> \in R)
  BY <1>2
<1>4. \A y \in T : ~ (y < x)
  BY <1>1, <1>3
<1>5. QED
  BY <1>3, <1>4

LEMMA NatSets ==
  ASSUME NEW S, 0 \in S, \A n \in Nat : n \in S => n + 1 \in S
  PROVE  Nat \subseteq S
<1>1. SUFFICES ASSUME Nat \ S # {} PROVE FALSE
  OBVIOUS
<1>2. PICK x \in Nat \ S : \A y \in Nat \ S : x <= y
  BY <1>1, LeastNumber
<1>3. x # 0
  BY <1>2
<1>4. PICK y : y = x - 1
  OBVIOUS
<1>5. y \in Nat /\ y < x /\ x = y + 1
  BY <1>3, <1>4
<1>6. y \in S
  BY <1>2, <1>5
<1>7. QED
  BY <1>2, <1>5, <1>6

Entry == Logger \cup {NoLogger}
Registry == [table : Seq(Entry), id : [Logger -> Int]]

(* The loggers of U are at their own places, and every other entry of the
   table is clear or one of S, that was left behind. *)
InPlace(r, l) == r.id[l] \in 0 .. Len(r.table) - 1 /\ r.table[r.id[l] + 1] = l
Own(r, U) == \A l \in U : r.id[l] = NoId \/ InPlace(r, l)
Entries(r, U, S) ==
  \A i \in 1 .. Len(r.table) :
    \/ r.table[i] = NoLogger \/ r.table[i] \in S
    \/ r.table[i] \in U /\ r.id[r.table[i]] = i - 1
Account(r, U, S) == r \in Registry /\ Own(r, U) /\ Entries(r, U, S)

LEMMA AccountWidens ==
  ASSUME NEW r, NEW U, NEW S, NEW T, Account(r, U, S), S \subseteq T
  PROVE  Account(r, U, T)
BY DEF Account, Entries

LEMMA AccountNarrows ==
  ASSUME NEW r, NEW U, NEW S, NEW V, Account(r, U, S), V \subseteq U, U \ V \subseteq S
  PROVE  Account(r, V, S)
BY DEF Account, Own, Entries

(* registerLogger puts the logger at its place; it must not have one yet, or
   be of those whose entries may be left behind. *)
LEMMA Registering ==
  ASSUME NEW r, NEW U \in SUBSET Logger, NEW S, NEW l \in Logger, Account(r, U, S),
         l \notin U \/ l \in S
  PROVE  Account(Register(r, l), U \cup {l}, S)
<1> DEFINE q == Register(r, l)
<1>1. /\ r \in Registry /\ r.table \in Seq(Entry) /\ Len(r.table) \in Nat
      /\ r.id \in [Logger -> Int] /\ l \in Entry
  BY DEF Account, Registry, Entry
<1>2. CASE Len(r.table) > MaxLoggers
  <2>1. q = [r EXCEPT !.id[l] = NoId]
    BY <1>2 DEF Register
  <2>2. q \in Registry /\ q.table = r.table /\ q.id = [r.id EXCEPT ![l] = NoId]
    <3>1. q.table = r.table /\ q.id = [r.id EXCEPT ![l] = NoId]
      BY <1>1, <2>1 DEF Registry
    <3>2. NoId \in Int
      BY DEF NoId
    <3>3. q \in Registry
      BY <1>1, <2>1, <3>2 DEF Registry
    <3>4. QED
      BY <3>1, <3>3
  <2> HIDE DEF q
  <2>3. Own(q, U \cup {l})
    BY <1>1, <2>2 DEF Account, Own, InPlace
  <2>4. Entries(q, U \cup {l}, S)
    <3>1. SUFFICES ASSUME NEW i \in 1 .. Len(r.table), r.table[i] # NoLogger, r.table[i] \notin S
                   PROVE  r.table[i] \in U \cup {l} /\ q.id[r.table[i]] = i - 1
      BY <2>2 DEF Entries
    <3>2. r.table[i] \in U /\ r.id[r.table[i]] = i - 1
      BY <3>1 DEF Account, Entries
    <3>3. r.table[i] # l
      BY <3>1, <3>2
    <3>4. QED
      BY <1>1, <2>2, <3>2, <3>3
  <2>5. QED
    BY <2>2, <2>3, <2>4 DEF Account, q
<1>3. CASE ~ (Len(r.table) > MaxLoggers)
  <2>1. q = [table |-> Append(r.table, l), id |-> [r.id EXCEPT ![l] = Len(r.table)]]
    BY <1>3 DEF Register
  <2>2. PICK n : n = Len(r.table)
    OBVIOUS
  <2>3. /\ q.table = Append(r.table, l) /\ q.table \in Seq(Entry)
        /\ n \in Nat /\ Len(q.table) = n + 1 /\ q.table[n + 1] = l
        /\ \A i \in 1 .. n : q.table[i] = r.table[i]
        /\ q.id = [r.id EXCEPT ![l] = n] /\ q.id \in [Logger -> Int]
    BY <1>1, <2>1, <2>2
  <2>4. q \in Registry
    BY <1>1, <2>1 DEF Registry
  <2> HIDE DEF q
  <2>5. ASSUME NEW k \in U \cup {l}
        PROVE  q.id[k] = NoId \/ InPlace(q, k)
    <3>1. CASE k = l
      BY <1>1, <2>3, <3>1 DEF InPlace
    <3>2. CASE k # l
      <4>1. k \in U /\ k \in Logger /\ q.id[k] = r.id[k]
        BY <1>1, <2>3, <2>5, <3>2
      <4>2. r.id[k] = NoId \/ InPlace(r, k)
        BY <4>1 DEF Account, Own
      <4>3. CASE InPlace(r, k)
        <5>1. PICK m : m = r.id[k]
          OBVIOUS
        <5>2. m \in 0 .. n - 1 /\ r.table[m + 1] = k
          BY <2>2, <4>3, <5>1 DEF InPlace
        <5>3. m + 1 \in 1 .. n /\ m \in 0 .. (n + 1) - 1
          BY <2>3, <5>2
        <5>4. QED
          BY <2>3, <4>1, <5>1, <5>2, <5>3 DEF InPlace
      <4>4. QED
        BY <4>1, <4>2, <4>3
    <3>3. QED
      BY <3>1, <3>2
  <2>6. ASSUME NEW i \in 1 .. n + 1, q.table[i] # NoLogger, q.table[i] \notin S
        PROVE  q.table[i] \in U \cup {l} /\ q.id[q.table[i]] = i - 1
    <3>1. CASE i = n + 1
      BY <1>1, <2>3, <3>1
    <3>2. CASE i \in 1 .. n
      <4>1. q.table[i] = r.table[i]
        BY <2>3, <3>2
      <4>2. r.table[i] \in U /\ r.id[r.table[i]] = i - 1
        BY <2>2, <2>6, <3>2, <4>1 DEF Account, Entries
      <4>3. r.table[i] # l
        BY <2>6, <4>1, <4>2
      <4>4. QED
        BY <1>1, <2>3, <4>1, <4>2, <4>3
    <3>3. QED
      BY <2>3, <3>1, <3>2
  <2>7. Own(q, U \cup {l})
    BY <2>5 DEF Own
  <2>8. Entries(q, U \cup {l}, S)
    BY <2>3, <2>6 DEF Entries
  <2>9. QED
    BY <2>4, <2>7, <2>8 DEF Account, q
<1>4. QED
  BY <1>2, <1>3

(* Trimming a table keeps its first entries, and all that are in use. *)
LEMMA Trimming ==
  ASSUME NEW t \in Seq(Entry)
  PROVE  /\ Trimmed(t) \in Seq(Entry) /\ Len(Trimmed(t)) \in 0 .. Len(t)
         /\ \A i \in 1 .. Len(Trimmed(t)) : Trimmed(t)[i] = t[i]
         /\ \A i \in 1 .. Len(t) : t[i] # NoLogger => i <= Len(Trimmed(t))
<1> DEFINE n == Len(t)
           used == {i \in DOMAIN t : t[i] # NoLogger}
           Last(i) == \A j \in used : j <= i
<1>1. n \in Nat /\ DOMAIN t = 1 .. n /\ used \subseteq 1 .. n
  OBVIOUS
<1>2. CASE used = {}
  <2>1. Trimmed(t) = <<>>
    BY <1>2 DEF Trimmed
  <2>2. <<>> \in Seq(Entry) /\ Len(<<>>) = 0
    OBVIOUS
  <2>3. \A i \in 1 .. n : t[i] = NoLogger
    BY <1>1, <1>2
  <2>4. QED
    BY <1>1, <2>1, <2>2, <2>3
<1>3. CASE used # {}
  <2>1. \E i \in used : Last(i)
    <3> DEFINE T == {n - i : i \in used}
    <3>1. T \subseteq Nat /\ T # {}
      BY <1>1, <1>3
    <3>2. PICK x \in T : \A y \in T : x <= y
      BY <3>1, LeastNumber
    <3>3. PICK i \in used : x = n - i
      BY <3>2
    <3>4. ASSUME NEW j \in used PROVE j <= i
      <4>1. n - i <= n - j
        BY <3>2, <3>3
      <4>2. QED
        BY <1>1, <4>1
    <3>5. QED
      BY <3>4
  <2>2. PICK m : m = CHOOSE i \in used : Last(i)
    OBVIOUS
  <2>3. m \in used /\ Last(m)
    <3> HIDE DEF Last, used
    <3>1. QED
      BY <2>1, <2>2
  <2>4. Trimmed(t) = SubSeq(t, 1, m)
    BY <1>3, <2>2 DEF Trimmed
  <2>5. m \in 1 .. n
    BY <1>1, <2>3
  <2>6. /\ SubSeq(t, 1, m) \in Seq(Entry) /\ Len(SubSeq(t, 1, m)) = m
        /\ \A i \in 1 .. m : SubSeq(t, 1, m)[i] = t[i]
    <3>1. \A i \in 1 .. m : t[i] \in Entry
      BY <1>1, <2>5
    <3>2. QED
      BY <1>1, <2>5, <3>1
  <2>7. \A i \in 1 .. n : t[i] # NoLogger => i <= m
    BY <1>1, <2>3
  <2> HIDE DEF n, used, Last
  <2>8. QED
    BY <1>1, <2>4, <2>5, <2>6, <2>7 DEF n
<1>4. QED
  BY <1>2, <1>3

(* unregisterLogger takes the logger out and leaves the others in place,
   provided that it is one of those that are in use. *)
LEMMA Unregistering ==
  ASSUME NEW r, NEW U \in SUBSET Logger, NEW S, NEW l \in U, Account(r, U, S)
  PROVE  Account(Unregister(r, l), U \ {l}, S)
<1> DEFINE q == Unregister(r, l)
           n == Len(r.table)
<1>1. /\ r \in Registry /\ r.table \in Seq(Entry) /\ n \in Nat
      /\ r.id \in [Logger -> Int] /\ l \in Logger /\ NoLogger \in Entry /\ NoLogger \notin Logger
      /\ r.id[l] \in Int
  BY RegistryAssumption DEF Account, Registry, Entry
<1>2. CASE ~ (r.id[l] \in 0 .. n - 1)
  <2>1. q = r
    BY <1>2 DEF Unregister
  <2>2. ASSUME NEW i \in 1 .. n, r.table[i] # NoLogger, r.table[i] \notin S
        PROVE  r.table[i] \in U \ {l} /\ r.id[r.table[i]] = i - 1
    <3>1. r.table[i] \in U /\ r.id[r.table[i]] = i - 1
      BY <2>2 DEF Account, Entries
    <3>2. r.table[i] # l
      BY <1>1, <1>2, <3>1
    <3>3. QED
      BY <3>1, <3>2
  <2>3. Entries(r, U \ {l}, S)
    BY <2>2 DEF Entries
  <2>4. Own(r, U \ {l})
    BY DEF Account, Own
  <2>5. QED
    BY <1>1, <2>1, <2>3, <2>4 DEF Account
<1>3. CASE r.id[l] \in 0 .. n - 1
  <2>1. PICK p : p = r.id[l] + 1
    OBVIOUS
  <2>2. PICK t : t = [r.table EXCEPT ![p] = NoLogger]
    OBVIOUS
  <2>3. q = [r EXCEPT !.table = Trimmed(t)]
    BY <1>3, <2>1, <2>2 DEF Unregister
  <2>4. p \in 1 .. n /\ p = r.id[l] + 1
    BY <1>1, <1>3, <2>1
  <2>5. /\ t \in Seq(Entry) /\ Len(t) = n /\ t[p] = NoLogger
        /\ \A i \in 1 .. n : i # p => t[i] = r.table[i]
    BY <1>1, <2>2, <2>4
  <2>6. PICK m : m = Len(Trimmed(t))
    OBVIOUS
  <2>7. /\ Trimmed(t) \in Seq(Entry) /\ m \in 0 .. n
        /\ \A i \in 1 .. m : Trimmed(t)[i] = t[i]
        /\ \A i \in 1 .. n : t[i] # NoLogger => i <= m
    BY <2>5, <2>6, Trimming
  <2>8. q \in Registry /\ q.table = Trimmed(t) /\ q.id = r.id
    <3>1. q.table = Trimmed(t) /\ q.id = r.id
      BY <1>1, <2>3 DEF Registry
    <3>2. q \in Registry
      BY <1>1, <2>3, <2>7 DEF Registry
    <3>3. QED
      BY <3>1, <3>2
  <2>9. r.table[p] = l
    <3>1. r.id[l] # NoId
      BY <1>1, <1>3 DEF NoId
    <3>2. InPlace(r, l)
      BY <3>1 DEF Account, Own
    <3>3. QED
      BY <2>1, <3>2 DEF InPlace
  <2> HIDE DEF q
  <2>10. ASSUME NEW k \in U \ {l}, q.id[k] # NoId
         PROVE  InPlace(q, k)
    <3>1. InPlace(r, k)
      BY <2>8, <2>10 DEF Account, Own
    <3>2. PICK j : j = r.id[k] + 1
      OBVIOUS
    <3>3. k \in Logger /\ r.id[k] \in Int
      BY <1>1
    <3>4. j \in 1 .. n /\ r.table[j] = k /\ r.id[k] = j - 1
      <4>1. r.id[k] \in 0 .. Len(r.table) - 1 /\ r.table[r.id[k] + 1] = k
        BY <3>1 DEF InPlace
      <4>2. r.table[j] = k
        BY <3>2, <4>1
      <4>3. j \in 1 .. n /\ r.id[k] = j - 1
        BY <1>1, <3>2, <3>3, <4>1
      <4>4. QED
        BY <4>2, <4>3
    <3>5. j # p
      BY <2>9, <2>10, <3>4
    <3>6. t[j] = k /\ k # NoLogger
      BY <1>1, <2>5, <3>3, <3>4, <3>5
    <3>7. j <= m
      BY <2>7, <3>4, <3>6
    <3>8. j \in 1 .. m /\ j - 1 \in 0 .. m - 1
      BY <2>7, <3>4, <3>7
    <3>9. Trimmed(t)[j] = k
      BY <2>7, <3>6, <3>8
    <3>10. q.id[k] = j - 1 /\ Len(q.table) = m /\ q.table[q.id[k] + 1] = k
      BY <2>6, <2>8, <3>2, <3>4, <3>9
    <3>11. QED
      BY <3>8, <3>10 DEF InPlace
  <2>11. ASSUME NEW i \in 1 .. m, q.table[i] # NoLogger, q.table[i] \notin S
         PROVE  q.table[i] \in U \ {l} /\ q.id[q.table[i]] = i - 1
    <3>1. q.table[i] = t[i] /\ i \in 1 .. n
      BY <2>7, <2>8
    <3>2. i # p
      BY <2>5, <2>11, <3>1
    <3>3. q.table[i] = r.table[i]
      BY <2>5, <3>1, <3>2
    <3>4. r.table[i] \in U /\ r.id[r.table[i]] = i - 1
      BY <2>11, <3>1, <3>3 DEF Account, Entries
    <3>5. r.table[i] # l
      BY <1>1, <2>4, <3>1, <3>2, <3>4
    <3>6. QED
      BY <2>8, <3>3, <3>4, <3>5
  <2>12. Own(q, U \ {l})
    BY <2>10 DEF Own
  <2>13. Entries(q, U \ {l}, S)
    BY <2>6, <2>8, <2>11 DEF Entries
  <2>14. QED
    BY <2>8, <2>12, <2>13 DEF Account, q
<1>4. QED
  BY <1>2, <1>3

(* The loggers named by a sequence that names none of them twice. *)
Named(ls) == {ls[i] : i \in 1 .. Len(ls)}
Unrepeated(ls) == ls \in Seq(Logger) /\ \A i, j \in 1 .. Len(ls) : ls[i] = ls[j] => i = j

(* Registering, or unregistering, the first ones of a sequence. *)
RegisterSteps(f, r, ls, n) ==
  f = [i \in 0 .. n |-> IF i = 0 THEN r ELSE Register(f[i - 1], ls[i])]
UnregisterSteps(f, r, ls, n) ==
  f = [i \in 0 .. n |-> IF i = 0 THEN r ELSE Unregister(f[i - 1], ls[i])]

LEMMA RegisterAllSteps ==
  ASSUME NEW r, NEW ls \in Seq(Logger)
  PROVE  \E f : RegisterSteps(f, r, ls, Len(ls)) /\ RegisterAll(r, ls) = f[Len(ls)]
<1> DEFINE Solves(n) == \E f : RegisterSteps(f, r, ls, n)
           S == {n \in Nat : Solves(n)}
<1>1. 0 \in S
  <2>1. PICK f : f = [i \in 0 .. 0 |-> r]
    OBVIOUS
  <2>2. RegisterSteps(f, r, ls, 0)
    BY <2>1 DEF RegisterSteps
  <2>3. QED
    BY <2>2
<1>2. ASSUME NEW n \in Nat, n \in S
      PROVE  n + 1 \in S
  <2>1. PICK f : RegisterSteps(f, r, ls, n)
    BY <1>2
  <2>2. PICK m : m = n + 1
    OBVIOUS
  <2>3. PICK g : g = [i \in 0 .. m |-> IF i = m THEN Register(f[n], ls[m]) ELSE f[i]]
    OBVIOUS
  <2>4. \A i \in 0 .. n : g[i] = f[i]
    BY <2>2, <2>3
  <2>5. \A i \in 0 .. n : f[i] = IF i = 0 THEN r ELSE Register(f[i - 1], ls[i])
    BY <2>1 DEF RegisterSteps
  <2>6. ASSUME NEW i \in 0 .. m
        PROVE  g[i] = IF i = 0 THEN r ELSE Register(g[i - 1], ls[i])
    <3>1. CASE i = m
      <4>1. g[i] = Register(f[n], ls[m]) /\ i # 0 /\ i - 1 = n /\ n \in 0 .. n
        BY <2>2, <2>3, <3>1
      <4>2. g[n] = f[n]
        BY <2>4, <4>1
      <4>3. QED
        BY <3>1, <4>1, <4>2
    <3>2. CASE i = 0
      BY <2>2, <2>4, <2>5, <3>2
    <3>3. CASE i # m /\ i # 0
      <4>1. i \in 0 .. n /\ i - 1 \in 0 .. n
        BY <2>2, <3>3
      <4>2. g[i] = f[i] /\ g[i - 1] = f[i - 1]
        BY <2>4, <4>1
      <4>3. QED
        BY <2>5, <3>3, <4>1, <4>2
    <3>4. QED
      BY <3>1, <3>2, <3>3
  <2>7. g = [i \in 0 .. m |-> g[i]]
    BY <2>3
  <2>8. RegisterSteps(g, r, ls, m)
    BY <2>6, <2>7 DEF RegisterSteps
  <2>9. QED
    BY <2>2, <2>8
<1>3. Solves(Len(ls))
  <2>1. Len(ls) \in Nat
    OBVIOUS
  <2> HIDE DEF Solves
  <2>2. QED
    BY <1>1, <1>2, <2>1, NatSets
<1>4. PICK c : c = CHOOSE f : RegisterSteps(f, r, ls, Len(ls))
  OBVIOUS
<1>5. RegisterSteps(c, r, ls, Len(ls))
  BY <1>3, <1>4
<1>6. RegisterAll(r, ls) = c[Len(ls)]
  BY <1>4 DEF RegisterAll, RegisterSteps
<1>7. QED
  BY <1>5, <1>6

LEMMA UnregisterAllSteps ==
  ASSUME NEW r, NEW ls \in Seq(Logger)
  PROVE  \E f : UnregisterSteps(f, r, ls, Len(ls)) /\ UnregisterAll(r, ls) = f[Len(ls)]
<1> DEFINE Solves(n) == \E f : UnregisterSteps(f, r, ls, n)
           S == {n \in Nat : Solves(n)}
<1>1. 0 \in S
  <2>1. PICK f : f = [i \in 0 .. 0 |-> r]
    OBVIOUS
  <2>2. UnregisterSteps(f, r, ls, 0)
    BY <2>1 DEF UnregisterSteps
  <2>3. QED
    BY <2>2
<1>2. ASSUME NEW n \in Nat, n \in S
      PROVE  n + 1 \in S
  <2>1. PICK f : UnregisterSteps(f, r, ls, n)
    BY <1>2
  <2>2. PICK m : m = n + 1
    OBVIOUS
  <2>3. PICK g : g = [i \in 0 .. m |-> IF i = m THEN Unregister(f[n], ls[m]) ELSE f[i]]
    OBVIOUS
  <2>4. \A i \in 0 .. n : g[i] = f[i]
    BY <2>2, <2>3
  <2>5. \A i \in 0 .. n : f[i] = IF i = 0 THEN r ELSE Unregister(f[i - 1], ls[i])
    BY <2>1 DEF UnregisterSteps
  <2>6. ASSUME NEW i \in 0 .. m
        PROVE  g[i] = IF i = 0 THEN r ELSE Unregister(g[i - 1], ls[i])
    <3>1. CASE i = m
      <4>1. g[i] = Unregister(f[n], ls[m]) /\ i # 0 /\ i - 1 = n /\ n \in 0 .. n
        BY <2>2, <2>3, <3>1
      <4>2. g[n] = f[n]
        BY <2>4, <4>1
      <4>3. QED
        BY <3>1, <4>1, <4>2
    <3>2. CASE i = 0
      BY <2>2, <2>4, <2>5, <3>2
    <3>3. CASE i # m /\ i # 0
      <4>1. i \in 0 .. n /\ i - 1 \in 0 .. n
        BY <2>2, <3>3
      <4>2. g[i] = f[i] /\ g[i - 1] = f[i - 1]
        BY <2>4, <4>1
      <4>3. QED
        BY <2>5, <3>3, <4>1, <4>2
    <3>4. QED
      BY <3>1, <3>2, <3>3
  <2>7. g = [i \in 0 .. m |-> g[i]]
    BY <2>3
  <2>8. UnregisterSteps(g, r, ls, m)
    BY <2>6, <2>7 DEF UnregisterSteps
  <2>9. QED
    BY <2>2, <2>8
<1>3. Solves(Len(ls))
  <2>1. Len(ls) \in Nat
    OBVIOUS
  <2> HIDE DEF Solves
  <2>2. QED
    BY <1>1, <1>2, <2>1, NatSets
<1>4. PICK c : c = CHOOSE f : UnregisterSteps(f, r, ls, Len(ls))
  OBVIOUS
<1>5. UnregisterSteps(c, r, ls, Len(ls))
  BY <1>3, <1>4
<1>6. UnregisterAll(r, ls) = c[Len(ls)]
  BY <1>4 DEF UnregisterAll, UnregisterSteps
<1>7. QED
  BY <1>5, <1>6

(* Several loggers that have no place yet, or of which entries may be left
   behind, get one each. *)
LEMMA RegisteringAll ==
  ASSUME NEW r, NEW U \in SUBSET Logger, NEW S, NEW ls, Unrepeated(ls), Account(r, U, S),
         \A l \in Named(ls) : l \notin U \/ l \in S
  PROVE  Account(RegisterAll(r, ls), U \cup Named(ls), S)
<1> DEFINE n == Len(ls)
           First(k) == {ls[i] : i \in 1 .. k}
<1>1. /\ ls \in Seq(Logger) /\ n \in Nat /\ \A i \in 1 .. n : ls[i] \in Logger
      /\ \A i, j \in 1 .. n : ls[i] = ls[j] => i = j
  BY DEF Unrepeated
<1>2. PICK f : RegisterSteps(f, r, ls, n) /\ RegisterAll(r, ls) = f[n]
  BY <1>1, RegisterAllSteps
<1>3. \A i \in 0 .. n : f[i] = IF i = 0 THEN r ELSE Register(f[i - 1], ls[i])
  BY <1>2 DEF RegisterSteps
<1> DEFINE T == {k \in Nat : k <= n => Account(f[k], U \cup First(k), S)}
<1>4. 0 \in T
  <2>1. f[0] = r /\ First(0) = {}
    BY <1>1, <1>3
  <2>2. QED
    BY <2>1
<1>5. ASSUME NEW k \in Nat, k \in T
      PROVE  k + 1 \in T
  <2>1. SUFFICES ASSUME k + 1 <= n PROVE Account(f[k + 1], U \cup First(k + 1), S)
    OBVIOUS
  <2>2. PICK m : m = k + 1
    OBVIOUS
  <2>3. m \in 1 .. n /\ m - 1 = k /\ k <= n /\ m \in 0 .. n /\ m # 0
    BY <1>1, <2>1, <2>2
  <2>4. Account(f[k], U \cup First(k), S)
    BY <1>5, <2>3
  <2>5. f[m] = Register(f[k], ls[m])
    BY <1>3, <2>3
  <2>6. ls[m] \in Logger /\ (ls[m] \notin U \cup First(k) \/ ls[m] \in S)
    <3>1. ls[m] \notin First(k)
      <4>1. \A i \in 1 .. k : i \in 1 .. n /\ i # m
        BY <1>1, <2>2, <2>3
      <4>2. QED
        BY <1>1, <2>3, <4>1
    <3>2. QED
      BY <1>1, <2>3, <3>1 DEF Named
  <2>7. First(m) = First(k) \cup {ls[m]}
    BY <2>2, <2>3
  <2>8. U \cup First(k) \in SUBSET Logger
    BY <1>1, <2>3
  <2> HIDE DEF First
  <2>9. Account(Register(f[k], ls[m]), (U \cup First(k)) \cup {ls[m]}, S)
    BY <2>4, <2>6, <2>8, Registering
  <2>10. (U \cup First(k)) \cup {ls[m]} = U \cup First(m)
    BY <2>7
  <2>11. QED
    BY <2>2, <2>5, <2>9, <2>10
<1> HIDE DEF T
<1>6. n \in T
  BY <1>1, <1>4, <1>5, NatSets
<1>7. Account(f[n], U \cup First(n), S)
  BY <1>1, <1>6 DEF T
<1>8. QED
  BY <1>2, <1>7 DEF Named

(* Several loggers that are in use are taken out. *)
LEMMA UnregisteringAll ==
  ASSUME NEW r, NEW U \in SUBSET Logger, NEW S, NEW ls, Unrepeated(ls), Account(r, U, S),
         Named(ls) \subseteq U
  PROVE  Account(UnregisterAll(r, ls), U \ Named(ls), S)
<1> DEFINE n == Len(ls)
           First(k) == {ls[i] : i \in 1 .. k}
<1>1. /\ ls \in Seq(Logger) /\ n \in Nat /\ \A i \in 1 .. n : ls[i] \in Logger
      /\ \A i, j \in 1 .. n : ls[i] = ls[j] => i = j
  BY DEF Unrepeated
<1>2. PICK f : UnregisterSteps(f, r, ls, n) /\ UnregisterAll(r, ls) = f[n]
  BY <1>1, UnregisterAllSteps
<1>3. \A i \in 0 .. n : f[i] = IF i = 0 THEN r ELSE Unregister(f[i - 1], ls[i])
  BY <1>2 DEF UnregisterSteps
<1> DEFINE T == {k \in Nat : k <= n => Account(f[k], U \ First(k), S)}
<1>4. 0 \in T
  <2>1. f[0] = r /\ First(0) = {}
    BY <1>1, <1>3
  <2>2. QED
    BY <2>1
<1>5. ASSUME NEW k \in Nat, k \in T
      PROVE  k + 1 \in T
  <2>1. SUFFICES ASSUME k + 1 <= n PROVE Account(f[k + 1], U \ First(k + 1), S)
    OBVIOUS
  <2>2. PICK m : m = k + 1
    OBVIOUS
  <2>3. m \in 1 .. n /\ m - 1 = k /\ k <= n /\ m \in 0 .. n /\ m # 0
    BY <1>1, <2>1, <2>2
  <2>4. Account(f[k], U \ First(k), S)
    BY <1>5, <2>3
  <2>5. f[m] = Unregister(f[k], ls[m])
    BY <1>3, <2>3
  <2>6. ls[m] \in U \ First(k)
    <3>1. \A i \in 1 .. k : i \in 1 .. n /\ i # m
      BY <1>1, <2>2, <2>3
    <3>2. ls[m] \notin First(k)
      BY <1>1, <2>3, <3>1
    <3>3. QED
      BY <2>3, <3>2 DEF Named
  <2>7. First(m) = First(k) \cup {ls[m]}
    BY <2>2, <2>3
  <2> HIDE DEF First
  <2>8. U \ First(k) \in SUBSET Logger
    OBVIOUS
  <2>9. Account(Unregister(f[k], ls[m]), (U \ First(k)) \ {ls[m]}, S)
    BY <2>4, <2>6, <2>8, Unregistering
  <2>10. (U \ First(k)) \ {ls[m]} = U \ First(m)
    BY <2>7
  <2>11. QED
    BY <2>2, <2>5, <2>9, <2>10
<1> HIDE DEF T
<1>6. n \in T
  BY <1>1, <1>4, <1>5, NatSets
<1>7. Account(f[n], U \ First(n), S)
  BY <1>1, <1>6 DEF T
<1>8. QED
  BY <1>2, <1>7 DEF Named

-----------------------------------------------------------------------------
(* Where the two calls are.                                                *)

InitAt == Len(InitSteps) + 1 - Len(todo)
TermAt == Len(TermSteps) + 1 - Len(todo)

LEMMA InitMoment ==
  ASSUME LifeInv, todo # <<>>, NEW do \in InitDoings, NEW what, Head(todo) = Step(do, what)
  PROVE  /\ phase = "init" /\ InitAt \in 1 .. Len(InitSteps) /\ Starting(InitAt)
         /\ InitSteps[InitAt] = Step(do, what) /\ PlacedInit(InitAt, do, what)
         /\ do = "init" => InitAt = InitPlace(what)
         /\ platform' = platform /\ todo' = Tail(todo) => InitAt' = InitAt + 1
<1>1. platform \in {"linux", "windows", "msystem"}
  BY DEF LifeInv, Types
<1>2. PICK k \in 1 .. Len(InitSteps) :
        /\ Starting(k) /\ InitSteps[k] = Step(do, what) /\ PlacedInit(k, do, what)
  BY InitTurn
<1>3. phase = "init"
  BY InitTurn
<1>4. InitSteps \in Seq(AnyStep) /\ Len(InitSteps) \in Nat
  BY <1>1, InitPlaces
<1>5. todo = From(InitSteps, k)
  BY <1>2 DEF Starting
<1>6. Len(todo) = Len(InitSteps) - k + 1 /\ todo \in Seq(AnyStep) /\ Len(todo) \in Nat
  <2>1. Len(todo) = Len(InitSteps) - k + 1 /\ todo \in Seq(AnyStep)
    BY <1>4, <1>5, FromPlaces, ZenonT(60)
  <2>2. QED
    BY <2>1
<1>7. InitAt = k
  BY <1>4, <1>6 DEF InitAt
<1>8. ASSUME do = "init" PROVE k = InitPlace(what)
  <2>1. /\ k \notin {1, CreatePlace, CreatePlace + Len(Signals) + 1, Len(InitSteps)}
        /\ k - CreatePlace \notin 1 .. Len(Signals)
    BY <1>2, <1>8 DEF PlacedInit
  <2>2. \E c \in OtherComponent : InitSteps[k] = Step("init", c) /\ k = InitPlace(c)
    BY <1>1, <2>1, InitPlaces, ZenonT(60)
  <2>3. PICK c \in OtherComponent : InitSteps[k] = Step("init", c) /\ k = InitPlace(c)
    BY <2>2
  <2>4. Step(do, what) = Step("init", c)
    BY <1>2, <2>3
  <2>5. c = what
    BY <2>4, StepParts
  <2>6. QED
    BY <2>3, <2>5
<1>9. ASSUME platform' = platform, todo' = Tail(todo)
      PROVE  InitAt' = InitAt + 1
  <2>1. InitSteps' = InitSteps
    BY <1>9, PlansStay
  <2>2. Len(todo') = Len(todo) - 1
    BY <1>6, <1>9
  <2>3. QED
    BY <1>4, <1>6, <2>1, <2>2 DEF InitAt
<1>10. QED
  BY <1>2, <1>3, <1>7, <1>8, <1>9

LEMMA TermMoment ==
  ASSUME LifeInv, todo # <<>>, NEW do \in TermDoings, NEW what, Head(todo) = Step(do, what)
  PROVE  /\ phase = "term" /\ TermAt \in 1 .. Len(TermSteps) /\ Ending(TermAt)
         /\ TermSteps[TermAt] = Step(do, what) /\ PlacedTerm(TermAt, do, what)
         /\ do = "clear" => TermAt = IF what \in OtherComponent THEN TermPlace(what) ELSE ClearPlace
         /\ do = "destroy" => what \in OtherComponent /\ TermAt = TermPlace(what) + 1
         /\ platform' = platform /\ todo' = Tail(todo) => TermAt' = TermAt + 1
<1>1. platform \in {"linux", "windows", "msystem"}
  BY DEF LifeInv, Types
<1>2. PICK k \in 1 .. Len(TermSteps) :
        /\ Ending(k) /\ TermSteps[k] = Step(do, what) /\ PlacedTerm(k, do, what)
  BY TermTurn
<1>3. phase = "term"
  BY TermTurn
<1>4. TermSteps \in Seq(AnyStep) /\ Len(TermSteps) \in Nat
  BY <1>1, TermPlaces
<1>5. todo = From(TermSteps, k)
  BY <1>2 DEF Ending
<1>6. Len(todo) = Len(TermSteps) - k + 1 /\ todo \in Seq(AnyStep) /\ Len(todo) \in Nat
  <2>1. Len(todo) = Len(TermSteps) - k + 1 /\ todo \in Seq(AnyStep)
    BY <1>4, <1>5, FromPlaces, ZenonT(60)
  <2>2. QED
    BY <2>1
<1>7. TermAt = k
  BY <1>4, <1>6 DEF TermAt
<1>8. ASSUME do \in {"clear", "destroy"}, k # ClearPlace
      PROVE  \E c \in OtherComponent :
               \/ k = TermPlace(c) /\ TermSteps[k] = Step("clear", c)
               \/ k = TermPlace(c) + 1 /\ TermSteps[k] = Step("destroy", c)
  <2>1. /\ k \notin {ClearPlace, ClearPlace + Len(Signals) + 1, Len(TermSteps)}
        /\ k - ClearPlace \notin 1 .. Len(Signals)
    BY <1>2, <1>8 DEF PlacedTerm
  <2>2. QED
    BY <1>1, <2>1, TermPlaces, ZenonT(60)
<1>9. ASSUME k = ClearPlace PROVE do = "clear" /\ what = "exceptions"
  BY <1>1, <1>2, <1>9, TermPlaces, StepParts
<1>10. ASSUME do = "clear"
       PROVE  k = IF what \in OtherComponent THEN TermPlace(what) ELSE ClearPlace
  <2>1. CASE k = ClearPlace
    BY <1>9, <2>1 DEF OtherComponent
  <2>2. CASE k # ClearPlace
    <3>1. PICK c \in OtherComponent :
               \/ k = TermPlace(c) /\ TermSteps[k] = Step("clear", c)
               \/ k = TermPlace(c) + 1 /\ TermSteps[k] = Step("destroy", c)
      BY <1>8, <1>10, <2>2
    <3>2. TermSteps[k] # Step("destroy", c)
      BY <1>2, <1>10, StepParts
    <3>3. k = TermPlace(c) /\ c = what
      BY <1>2, <3>1, <3>2, StepParts
    <3>4. QED
      BY <3>3
  <2>3. QED
    BY <2>1, <2>2
<1>11. ASSUME do = "destroy"
       PROVE  what \in OtherComponent /\ k = TermPlace(what) + 1
  <2>1. k # ClearPlace
    BY <1>9, <1>11
  <2>2. PICK c \in OtherComponent :
             \/ k = TermPlace(c) /\ TermSteps[k] = Step("clear", c)
             \/ k = TermPlace(c) + 1 /\ TermSteps[k] = Step("destroy", c)
    BY <1>8, <1>11, <2>1
  <2>3. TermSteps[k] # Step("clear", c)
    BY <1>2, <1>11, StepParts
  <2>4. k = TermPlace(c) + 1 /\ c = what
    BY <1>2, <2>2, <2>3, StepParts
  <2>5. QED
    BY <2>4
<1>12. ASSUME platform' = platform, todo' = Tail(todo)
       PROVE  TermAt' = TermAt + 1
  <2>1. TermSteps' = TermSteps
    BY <1>12, PlansStay
  <2>2. Len(todo') = Len(todo) - 1
    BY <1>6, <1>12
  <2>3. QED
    BY <1>4, <1>6, <2>1, <2>2 DEF TermAt
<1>13. QED
  BY <1>2, <1>3, <1>7, <1>10, <1>11, <1>12

(* The two places of a component lie apart from those of the others, from
   those of the exception handler, and from the ends. *)
LEMMA PlacesApart ==
  ASSUME LifeInv, NEW c \in OtherComponent
  PROVE  /\ InitPlace(c) \in Nat /\ InitPlace(c) > 1
         /\ TermPlace(c) \in Nat /\ TermPlace(c) > 0 /\ TermPlace(c) + 1 < Len(TermSteps)
         /\ TermPlace(c) + 1 < ClearPlace \/ TermPlace(c) > ClearPlace + Len(Signals) + 1
         /\ \A d \in OtherComponent \ {c} :
              /\ InitPlace(d) # InitPlace(c)
              /\ TermPlace(d) + 1 < TermPlace(c) \/ TermPlace(d) > TermPlace(c) + 1
<1>1. platform \in {"linux", "windows", "msystem"}
  BY DEF LifeInv, Types
<1>2. /\ Len(Signals) \in Nat
      /\ platform # "linux" => Len(Signals) = 1
      /\ Len(TermSteps) = Len(Signals) + 15
      /\ ClearPlace = IF platform = "linux" THEN 13 ELSE 7
  BY <1>1, SignalsSequence, TermPlaces, PlacesByRank
<1>3. /\ Rank("modules") = 1 /\ Rank("symbols") = 2 /\ Rank("threads") = 3
      /\ Rank("stacks") = 4 /\ Rank("images") = 5 /\ Rank("lifesigns") = 6
  BY DEF Rank
<1>4. OtherComponent = {"modules", "symbols", "threads", "stacks", "images", "lifesigns"}
  BY DEF OtherComponent, Component
<1>5. \A d \in OtherComponent : Rank(d) \in 1 .. 6
  BY <1>3, <1>4
<1>6. \A d \in OtherComponent : d # c => Rank(d) # Rank(c)
  BY <1>3, <1>4
<1>7. \A d \in OtherComponent : d \in {"modules", "symbols", "threads"} <=> Rank(d) <= 3
  BY <1>3, <1>4
<1>8. \A d \in OtherComponent : d \in {"modules", "symbols"} <=> Rank(d) <= 2
  BY <1>3, <1>4
<1>9. PICK n : n = Len(Signals)
  OBVIOUS
<1>10. n \in Nat
  BY <1>2, <1>9
<1>11. /\ InitPlace(c) \in Nat /\ InitPlace(c) > 1
       /\ \A d \in OtherComponent \ {c} : InitPlace(d) # InitPlace(c)
  <2>1. ASSUME NEW d \in OtherComponent
        PROVE  InitPlace(d) = IF platform # "linux" /\ Rank(d) <= 2
                                THEN 1 + Rank(d) ELSE n + 3 + Rank(d)
    BY <1>8, <1>9 DEF InitPlace
  <2>2. PICK p : p = Rank(c)
    OBVIOUS
  <2>3. p \in 1 .. 6
    BY <1>5, <2>2
  <2>4. InitPlace(c) = IF platform # "linux" /\ p <= 2 THEN 1 + p ELSE n + 3 + p
    BY <2>1, <2>2
  <2>5. InitPlace(c) \in Nat /\ InitPlace(c) > 1
    BY ONLY <1>10, <2>3, <2>4
  <2>6. ASSUME NEW d \in OtherComponent \ {c}
        PROVE  InitPlace(d) # InitPlace(c)
    <3>1. PICK q : q = Rank(d)
      OBVIOUS
    <3>2. q \in 1 .. 6 /\ q # p
      BY <1>5, <1>6, <2>2, <3>1
    <3>3. InitPlace(d) = IF platform # "linux" /\ q <= 2 THEN 1 + q ELSE n + 3 + q
      BY <2>1, <3>1
    <3>4. QED
      BY ONLY <1>10, <2>3, <2>4, <3>2, <3>3
  <2>7. QED
    BY <2>5, <2>6
<1>12. ASSUME NEW d \in OtherComponent
       PROVE  TermPlace(d) = IF platform # "linux" /\ Rank(d) <= 3
                               THEN n + 15 - 2 * Rank(d) ELSE 13 - 2 * Rank(d)
  BY <1>7, <1>9 DEF TermPlace
<1>13. platform # "linux" => n = 1
  BY ONLY <1>2, <1>9, Zenon
<1>14. Len(TermSteps) = n + 15
  BY ONLY <1>2, <1>9, Zenon
<1>15. ClearPlace = IF platform = "linux" THEN 13 ELSE 7
  BY <1>2
<1>16. /\ TermPlace(c) \in Nat /\ TermPlace(c) > 0 /\ TermPlace(c) + 1 < Len(TermSteps)
       /\ TermPlace(c) + 1 < ClearPlace \/ TermPlace(c) > ClearPlace + Len(Signals) + 1
  <2>1. PICK p : p = Rank(c)
    OBVIOUS
  <2>2. p \in 1 .. 6
    BY <1>5, <2>1
  <2>3. TermPlace(c) = IF platform # "linux" /\ p <= 3 THEN n + 15 - 2 * p ELSE 13 - 2 * p
    BY <1>12, <2>1
  <2>4. PICK t : t = n + 15
    OBVIOUS
  <2>5. /\ TermPlace(c) \in Nat /\ TermPlace(c) > 0 /\ TermPlace(c) + 1 < t
        /\ TermPlace(c) + 1 < ClearPlace \/ TermPlace(c) > ClearPlace + n + 1
    <3>1. CASE platform = "linux"
      BY ONLY <1>10, <1>15, <2>2, <2>3, <2>4, <3>1
    <3>2. CASE platform # "linux"
      BY ONLY <1>10, <1>13, <1>15, <2>2, <2>3, <2>4, <3>2
    <3>3. QED
      BY <3>1, <3>2
  <2>6. QED
    BY ONLY <1>9, <1>14, <2>4, <2>5
<1>17. ASSUME NEW d \in OtherComponent \ {c}
       PROVE  TermPlace(d) + 1 < TermPlace(c) \/ TermPlace(d) > TermPlace(c) + 1
  <2>1. PICK p, q : p = Rank(c) /\ q = Rank(d)
    OBVIOUS
  <2>2. p \in 1 .. 6 /\ q \in 1 .. 6 /\ q # p
    BY <1>5, <1>6, <2>1
  <2>3. TermPlace(c) = IF platform # "linux" /\ p <= 3 THEN n + 15 - 2 * p ELSE 13 - 2 * p
    BY <1>12, <2>1
  <2>4. TermPlace(d) = IF platform # "linux" /\ q <= 3 THEN n + 15 - 2 * q ELSE 13 - 2 * q
    BY <1>12, <2>1
  <2>5. CASE platform = "linux"
    BY ONLY <2>2, <2>3, <2>4, <2>5
  <2>6. CASE platform # "linux"
    BY ONLY <1>10, <1>13, <2>2, <2>3, <2>4, <2>6
  <2>7. QED
    BY <2>5, <2>6
<1>18. QED
  BY <1>11, <1>16, <1>17

(* The library cannot be initialised, or terminated, any more. *)
Wrecked ==
  \/ phase = "stuck"
  \/ phase = "broken" /\ logKey
  \/ phase = "init" /\ logKey /\ InitAt = 1

(* A component has its instance and its pointer just between the steps that
   give them and those that take them. *)
Outside == \A c \in OtherComponent : c \notin instances
Placed ==
  /\ \A c \in OtherComponent : c \in installed => c \in instances
  /\ phase = "init" /\ ~ Wrecked =>
       \A c \in OtherComponent : c \in instances => InitPlace(c) < InitAt
  /\ phase = "term" => \A c \in OtherComponent :
       /\ c \in installed <=> TermAt <= TermPlace(c)
       /\ c \in instances <=> TermAt <= TermPlace(c) + 1
  /\ phase = "down" => Outside
  /\ phase = "broken" /\ ~ logKey => Outside /\ keyFailed

(* The platform stays, and with it the places. *)
LEMMA PlaceStays ==
  ASSUME platform' = platform, NEW c
  PROVE  InitPlace(c)' = InitPlace(c) /\ TermPlace(c)' = TermPlace(c)
BY PlansStay DEF InitPlace, TermPlace

(* Going on with initDbgUtil without touching these components. *)
LEMMA PlacedOn ==
  ASSUME LifeInv, Placed, phase = "init", phase' = "init", InitAt > 1,
         platform' = platform, InitAt' \in Int, InitAt' >= InitAt, InitAt \in Nat,
         \A c \in OtherComponent : /\ c \in instances' <=> c \in instances
                                   /\ c \in installed' <=> c \in installed
  PROVE  Placed'
<1>1. ~ Wrecked
  BY DEF Wrecked
<1>2. \A c \in OtherComponent : c \in instances => InitPlace(c) < InitAt
  BY <1>1 DEF Placed
<1>3. \A c \in OtherComponent : c \in instances' => InitPlace(c)' < InitAt'
  <2>1. SUFFICES ASSUME NEW c \in OtherComponent, c \in instances'
                 PROVE  InitPlace(c)' < InitAt'
    OBVIOUS
  <2>2. InitPlace(c) < InitAt /\ InitPlace(c) \in Nat /\ InitPlace(c)' = InitPlace(c)
    BY <1>2, <2>1, PlacesApart, PlaceStays
  <2>3. QED
    BY <2>2
<1>4. \A c \in OtherComponent : c \in installed' => c \in instances'
  BY DEF Placed
<1>5. QED
  BY <1>3, <1>4 DEF Placed

LEMMA InitDbgUtilPlaced ==
  ASSUME LifeInv, Placed, InitDbgUtil
  PROVE  Placed'
<1>1. /\ phase \in {"down", "broken"} /\ phase' = "init" /\ todo' = InitSteps
      /\ UNCHANGED <<platform, logKey, instances, installed, keyFailed>>
  BY DEF InitDbgUtil, dispatchVars, flagVars, handlerVars
<1>2. InitAt' = 1
  <2>1. InitSteps' = InitSteps /\ Len(InitSteps) \in Nat
    BY <1>1, PlansStay, InitPlaces DEF LifeInv, Types
  <2>2. QED
    BY <1>1, <2>1 DEF InitAt
<1>3. ~ Wrecked' => Outside
  BY <1>1, <1>2 DEF Wrecked, Placed
<1>4. QED
  BY <1>1, <1>3 DEF Placed, Outside

LEMMA CreateKeyPlaced ==
  ASSUME LifeInv, Placed, CreateKey
  PROVE  Placed'
<1>1. /\ todo # <<>> /\ Head(todo) = Step("createKey", "log")
      /\ \/ ~ logKey /\ logKey' = TRUE /\ todo' = Tail(todo) /\ phase' = phase
         \/ phase' = "broken" /\ keyFailed' = TRUE /\ logKey' = logKey
      /\ UNCHANGED <<platform, instances, installed>>
  BY DEF CreateKey, Fail, dispatchVars, flagVars, handlerVars
<1>2. phase = "init" /\ InitAt = 1
  BY <1>1, InitMoment DEF InitDoings, PlacedInit
<1>3. ASSUME ~ logKey PROVE Outside
  <2>1. ~ Wrecked
    BY <1>2, <1>3 DEF Wrecked
  <2>2. ASSUME NEW c \in OtherComponent, c \in instances PROVE FALSE
    <3>1. InitPlace(c) < 1
      BY <1>2, <2>1, <2>2 DEF Placed
    <3>2. InitPlace(c) \in Nat /\ InitPlace(c) > 1
      BY PlacesApart
    <3>3. QED
      BY <3>1, <3>2
  <2>3. QED
    BY <2>2 DEF Outside
<1>4. CASE ~ logKey /\ logKey' = TRUE /\ todo' = Tail(todo) /\ phase' = phase
  BY <1>1, <1>2, <1>3, <1>4 DEF Placed, Outside
<1>5. CASE phase' = "broken" /\ keyFailed' = TRUE /\ logKey' = logKey
  BY <1>1, <1>3, <1>5 DEF Placed, Outside
<1>6. QED
  BY <1>1, <1>4, <1>5

LEMMA InitComponentPlaced ==
  ASSUME LifeInv, Placed, InitComponent
  PROVE  Placed'
<1>1. PICK c \in OtherComponent : InitEffect(c)
  BY InitComponentParts
<1>2. /\ todo # <<>> /\ Head(todo) = Step("init", c) /\ "init" \in InitDoings
      /\ UNCHANGED <<platform, logKey>>
  BY <1>1 DEF InitEffect, InitDoings
<1>3. /\ phase = "init" /\ InitAt = InitPlace(c) /\ Starting(InitAt)
      /\ todo' = Tail(todo) => InitAt' = InitAt + 1
  BY <1>2, InitMoment
<1>4. InitAt \in Nat /\ InitAt > 1
  BY <1>3, PlacesApart
<1>5. logKey
  <2>1. 1 \in 1 .. InitAt - 1
    BY <1>4
  <2>2. Done(InitSteps[1])
    BY <1>3, <2>1 DEF Starting
  <2>3. InitSteps[1] = Step("createKey", "log") /\ Step("createKey", "log").do = "createKey"
    BY InitPlaces DEF Step, LifeInv, Types
  <2>4. QED
    BY <2>2, <2>3 DEF Done
<1>6. CASE /\ todo' = Tail(todo) /\ phase' = phase
           /\ instances' = instances \cup {c} /\ installed' = installed \cup {c}
  <2>1. ~ Wrecked
    BY <1>3, <1>4 DEF Wrecked
  <2>2. ASSUME NEW d \in OtherComponent, d \in instances'
        PROVE  InitPlace(d)' < InitAt'
    <3>1. d = c \/ InitPlace(d) < InitAt
      BY <1>3, <1>6, <2>1, <2>2 DEF Placed
    <3>2. InitPlace(d) \in Nat /\ InitPlace(d)' = InitPlace(d) /\ InitAt' = InitAt + 1
      BY <1>2, <1>3, <1>6, PlacesApart, PlaceStays
    <3>3. QED
      BY <1>3, <1>4, <3>1, <3>2
  <2>3. \A d \in OtherComponent : d \in installed' => d \in instances'
    BY <1>6 DEF Placed
  <2>4. QED
    BY <1>3, <1>6, <2>2, <2>3 DEF Placed
<1>7. CASE /\ todo' = <<>> /\ phase' = "broken"
           /\ instances' \in {instances, instances \cup {c}} /\ installed' = installed
  BY <1>2, <1>5, <1>7 DEF Placed
<1>8. QED
  BY <1>1, <1>6, <1>7 DEF InitEffect

LEMMA HandlerPlaced ==
  ASSUME LifeInv, Placed, CreateHandler \/ Publish
  PROVE  Placed'
<1>1. /\ todo # <<>> /\ todo' = Tail(todo)
      /\ Head(todo) \in {Step("createHandler", "exceptions"), Step("publish", "exceptions")}
      /\ instances' \in {instances, instances \cup {"exceptions"}}
      /\ installed' \in {installed, installed \cup {"exceptions"}}
      /\ UNCHANGED <<platform, phase>>
  BY DEF CreateHandler, Publish, Doing, dispatchVars, flagVars, handlerVars
<1>2. phase = "init" /\ InitAt \in Nat /\ InitAt > 1 /\ InitAt' = InitAt + 1
  <2>1. ASSUME NEW do \in {"createHandler", "publish"}, Head(todo) = Step(do, "exceptions")
        PROVE  phase = "init" /\ InitAt \in Nat /\ InitAt > 1 /\ InitAt' = InitAt + 1
    <3>1. do \in InitDoings
      BY <2>1 DEF InitDoings
    <3>2. /\ phase = "init" /\ InitAt \in 1 .. Len(InitSteps) /\ InitAt' = InitAt + 1
          /\ PlacedInit(InitAt, do, "exceptions")
      BY <1>1, <2>1, <3>1, InitMoment
    <3>3. CreatePlace \in Nat /\ CreatePlace > 1 /\ Len(Signals) \in Nat
      BY InitNumbers
    <3>4. QED
      BY <2>1, <3>2, <3>3 DEF PlacedInit
  <2>2. QED
    BY <1>1, <2>1
<1>3. QED
  BY <1>1, <1>2, PlacedOn DEF OtherComponent

LEMMA RegisterHandlerPlaced ==
  ASSUME LifeInv, Placed, NEW s \in SignalSet, RegisterHandler(s)
  PROVE  Placed'
<1>1. /\ todo # <<>> /\ Head(todo) = Step("register", s)
      /\ todo' = Tail(todo) \/ todo' = AfterRegister
      /\ UNCHANGED <<platform, phase, instances, installed>>
  BY DEF RegisterHandler, RegisterSignalHandler, RegisterFilter, Registered, NotRegistered,
         At, dispatchVars, flagVars
<1>2. PICK k \in 1 .. Len(InitSteps) : k = InitAt
  BY <1>1, InitMoment DEF InitDoings
<1>3. /\ phase = "init" /\ Starting(k) /\ PlacedInit(k, "register", s)
      /\ todo' = Tail(todo) => InitAt' = k + 1
  BY <1>1, <1>2, InitMoment DEF InitDoings
<1>4. PICK n, m : n = Len(Signals) /\ m = CreatePlace + n + 1
  OBVIOUS
<1>5. /\ n \in Nat /\ CreatePlace \in Nat /\ CreatePlace > 1 /\ Len(InitSteps) \in Nat
      /\ m < Len(InitSteps) /\ k - CreatePlace \in 1 .. n /\ k \in Nat /\ k > 1
  <2>1. /\ n \in Nat /\ CreatePlace \in Nat /\ CreatePlace > 1 /\ Len(InitSteps) \in Nat
        /\ m < Len(InitSteps)
    BY <1>4, InitPlaces DEF LifeInv, Types
  <2>2. k - CreatePlace \in 1 .. n
    BY <1>3, <1>4 DEF PlacedInit
  <2>3. QED
    BY <2>1, <2>2
<1>6. AfterRegister = From(InitSteps, m)
  <2>1. ASSUME NEW i \in k .. m - 1
        PROVE  InitSteps[i].do = "register"
    <3>1. i - CreatePlace \in 1 .. n /\ CreatePlace + (i - CreatePlace) = i
      BY <1>4, <1>5
    <3>2. InitSteps[CreatePlace + (i - CreatePlace)] = Step("register", Signals[i - CreatePlace])
      BY <1>4, <3>1, InitPlaces DEF LifeInv, Types
    <3>3. QED
      BY <3>1, <3>2 DEF Step
  <2>2. InitSteps[m].do # "register"
    BY <1>4, InitPlaces DEF Step, LifeInv, Types
  <2>3. InitSteps \in Seq(AnyStep) /\ todo = From(InitSteps, k)
    BY <1>3, InitPlaces DEF Starting, LifeInv, Types
  <2>4. m \in k + 1 .. Len(InitSteps)
    BY <1>4, <1>5
  <2>5. QED
    BY <2>1, <2>2, <2>3, <2>4, PassedOver DEF AfterRegister
<1>7. ASSUME todo' = From(InitSteps, m)
      PROVE  InitAt' = m
  <2>1. InitSteps' = InitSteps /\ InitSteps \in Seq(AnyStep) /\ m \in 1 .. Len(InitSteps)
    BY <1>1, <1>4, <1>5, PlansStay, InitPlaces DEF LifeInv, Types
  <2>2. Len(From(InitSteps, m)) = Len(InitSteps) - m + 1
    BY <2>1, FromPlaces, ZenonT(60)
  <2>3. QED
    BY <1>5, <1>7, <2>1, <2>2 DEF InitAt
<1>8. InitAt' \in Int /\ InitAt' >= InitAt /\ InitAt \in Nat /\ InitAt > 1
  BY <1>1, <1>2, <1>3, <1>4, <1>5, <1>6, <1>7
<1>9. QED
  BY <1>1, <1>3, <1>8, PlacedOn

LEMMA FinishPlaced ==
  ASSUME LifeInv, LifeInv', Placed, Finish
  PROVE  Placed'
<1>1. phase' = "up"
  BY DEF Finish
<1>2. installed' = Component /\ instances' = Component
  BY <1>1 DEF LifeInv, PhaseInv, Complete
<1>3. QED
  BY <1>1, <1>2 DEF Placed, OtherComponent

LEMMA TermDbgUtilPlaced ==
  ASSUME LifeInv, Placed, TermDbgUtil
  PROVE  Placed'
<1>1. /\ phase = "up" /\ phase' = "term" /\ todo' = TermSteps
      /\ UNCHANGED <<platform, instances, installed>>
  BY DEF TermDbgUtil, dispatchVars, flagVars, handlerVars
<1>2. TermAt' = 1
  <2>1. TermSteps' = TermSteps /\ Len(TermSteps) \in Nat
    BY <1>1, PlansStay, TermPlaces DEF LifeInv, Types
  <2>2. QED
    BY <1>1, <2>1 DEF TermAt
<1>3. \A c \in OtherComponent : c \in installed /\ c \in instances
  BY <1>1 DEF LifeInv, PhaseInv, Complete, OtherComponent
<1>4. \A c \in OtherComponent : 1 <= TermPlace(c)' /\ 1 <= TermPlace(c)' + 1
  <2>1. SUFFICES ASSUME NEW c \in OtherComponent
                 PROVE  1 <= TermPlace(c)' /\ 1 <= TermPlace(c)' + 1
    OBVIOUS
  <2>2. TermPlace(c)' = TermPlace(c) /\ TermPlace(c) \in Nat /\ TermPlace(c) > 0
    BY <1>1, PlaceStays, PlacesApart
  <2>3. QED
    BY <2>2
<1>5. QED
  BY <1>1, <1>2, <1>3, <1>4 DEF Placed

(* Going on with termDbgUtil from the places of the exception handler. *)
LEMMA PlacedPastHandler ==
  ASSUME LifeInv, Placed, phase = "term", phase' = "term", platform' = platform,
         TermAt \in ClearPlace .. ClearPlace + Len(Signals) + 1,
         TermAt' \in TermAt .. ClearPlace + Len(Signals) + 2,
         \A c \in OtherComponent : /\ c \in instances' <=> c \in instances
                                   /\ c \in installed' <=> c \in installed
  PROVE  Placed'
<1>1. ClearPlace \in Nat /\ Len(Signals) \in Nat
  BY TermNumbers
<1>2. ASSUME NEW c \in OtherComponent
      PROVE  /\ c \in installed' <=> TermAt' <= TermPlace(c)'
             /\ c \in instances' <=> TermAt' <= TermPlace(c)' + 1
  <2>1. /\ TermPlace(c)' = TermPlace(c) /\ TermPlace(c) \in Nat
        /\ TermPlace(c) + 1 < ClearPlace \/ TermPlace(c) > ClearPlace + Len(Signals) + 1
    BY PlaceStays, PlacesApart
  <2>2. /\ c \in installed <=> TermAt <= TermPlace(c)
        /\ c \in instances <=> TermAt <= TermPlace(c) + 1
    BY DEF Placed
  <2>3. PICK p, i, j, n : p = TermPlace(c) /\ i = TermAt /\ j = TermAt' /\ n = Len(Signals)
    OBVIOUS
  <2>4. /\ i \in ClearPlace .. ClearPlace + n + 1 /\ j \in i .. ClearPlace + n + 2 /\ p \in Nat
        /\ n \in Nat
        /\ p + 1 < ClearPlace \/ p > ClearPlace + n + 1
    BY <1>1, <2>1, <2>3
  <2>5. (i <= p <=> j <= p) /\ (i <= p + 1 <=> j <= p + 1)
    BY <1>1, <2>4
  <2>6. QED
    BY <2>1, <2>2, <2>3, <2>5
<1>3. \A c \in OtherComponent : c \in installed' => c \in instances'
  BY DEF Placed
<1>4. QED
  BY <1>2, <1>3 DEF Placed

(* Going on with termDbgUtil from one of the two places of a component. *)
LEMMA PlacedPast ==
  ASSUME LifeInv, Placed, phase = "term", phase' = "term", platform' = platform,
         NEW c \in OtherComponent,
         \/ /\ TermAt = TermPlace(c)
            /\ installed' = installed \ {c} /\ instances' = instances
         \/ /\ TermAt = TermPlace(c) + 1
            /\ installed' = installed /\ instances' = instances \ {c},
         TermAt' = TermAt + 1
  PROVE  Placed'
<1>1. /\ TermPlace(c)' = TermPlace(c) /\ TermPlace(c) \in Nat
      /\ c \in installed <=> TermAt <= TermPlace(c)
      /\ c \in instances <=> TermAt <= TermPlace(c) + 1
  BY PlaceStays, PlacesApart DEF Placed
<1>2. ASSUME NEW d \in OtherComponent
      PROVE  /\ d \in installed' <=> TermAt' <= TermPlace(d)'
             /\ d \in instances' <=> TermAt' <= TermPlace(d)' + 1
  <2>1. CASE d = c
    BY <1>1, <2>1
  <2>2. CASE d # c
    <3>1. /\ TermPlace(d)' = TermPlace(d) /\ TermPlace(d) \in Nat
          /\ d \in installed <=> TermAt <= TermPlace(d)
          /\ d \in instances <=> TermAt <= TermPlace(d) + 1
      BY PlaceStays, PlacesApart DEF Placed
    <3>2. TermPlace(d) + 1 < TermPlace(c) \/ TermPlace(d) > TermPlace(c) + 1
      BY <2>2, PlacesApart
    <3>3. /\ TermAt <= TermPlace(d) <=> TermAt + 1 <= TermPlace(d)
          /\ TermAt <= TermPlace(d) + 1 <=> TermAt + 1 <= TermPlace(d) + 1
      BY <1>1, <3>1, <3>2
    <3>4. (d \in installed' <=> d \in installed) /\ (d \in instances' <=> d \in instances)
      BY <2>2
    <3>5. QED
      BY <3>1, <3>3, <3>4
  <2>3. QED
    BY <2>1, <2>2
<1>3. \A d \in OtherComponent : d \in installed' => d \in instances'
  <2>1. SUFFICES ASSUME NEW d \in OtherComponent, d \in installed' PROVE d \in instances'
    OBVIOUS
  <2>2. TermAt' <= TermPlace(d)' /\ TermPlace(d)' = TermPlace(d) /\ TermPlace(d) \in Nat
    BY <1>2, <2>1, PlaceStays, PlacesApart
  <2>3. TermAt' \in Int
    BY <1>1
  <2>4. TermAt' <= TermPlace(d)' + 1
    BY <2>2, <2>3
  <2>5. QED
    BY <1>2, <2>4
<1>4. QED
  BY <1>2, <1>3 DEF Placed

LEMMA ClearPointerPlaced ==
  ASSUME LifeInv, Placed, NEW c \in Component, ClearPointer(c)
  PROVE  Placed'
<1>1. /\ todo # <<>> /\ Head(todo) = Step("clear", c) /\ todo' = Tail(todo)
      /\ installed' = installed \ {c} /\ "clear" \in TermDoings
      /\ UNCHANGED <<platform, phase, instances>>
  BY DEF ClearPointer, Doing, dispatchVars, TermDoings
<1>2. /\ phase = "term" /\ TermAt' = TermAt + 1
      /\ TermAt = IF c \in OtherComponent THEN TermPlace(c) ELSE ClearPlace
  BY <1>1, TermMoment
<1>3. CASE c \in OtherComponent
  BY <1>1, <1>2, <1>3, PlacedPast
<1>4. CASE c \notin OtherComponent
  <2>1. c = "exceptions" /\ TermAt = ClearPlace
    BY <1>2, <1>4 DEF OtherComponent
  <2>2. ClearPlace \in Nat /\ Len(Signals) \in Nat
    BY TermNumbers
  <2>3. /\ TermAt \in ClearPlace .. ClearPlace + Len(Signals) + 1
        /\ TermAt' \in TermAt .. ClearPlace + Len(Signals) + 2
    BY <1>2, <2>1, <2>2
  <2>4. QED
    BY <1>1, <1>2, <2>1, <2>3, PlacedPastHandler DEF OtherComponent
<1>5. QED
  BY <1>3, <1>4

LEMMA TermComponentPlaced ==
  ASSUME LifeInv, Placed, TermComponent
  PROVE  Placed'
<1>1. PICK c \in OtherComponent : TermEffect(c)
  BY TermComponentParts
<1>2. /\ todo # <<>> /\ Head(todo) = Step("destroy", c) /\ "destroy" \in TermDoings
      /\ platform' = platform /\ installed' = installed
  BY <1>1 DEF TermEffect, TermDoings
<1>3. /\ phase = "term" /\ TermAt = TermPlace(c) + 1
      /\ todo' = Tail(todo) => TermAt' = TermAt + 1
  BY <1>2, TermMoment
<1>4. CASE todo' = Tail(todo) /\ phase' = phase /\ instances' = instances \ {c}
  BY <1>2, <1>3, <1>4, PlacedPast
<1>5. CASE todo' = <<>> /\ phase' = "stuck" /\ instances' = instances
  BY <1>2, <1>5 DEF Placed
<1>6. QED
  BY <1>1, <1>4, <1>5 DEF TermEffect

LEMMA DestroyHandlerPlaced ==
  ASSUME LifeInv, Placed, DestroyHandler
  PROVE  Placed'
<1>1. /\ todo # <<>> /\ Head(todo) = Step("destroyHandler", "exceptions") /\ todo' = Tail(todo)
      /\ instances' = instances \ {"exceptions"} /\ "destroyHandler" \in TermDoings
      /\ UNCHANGED <<platform, phase, installed>>
  BY DEF DestroyHandler, Doing, dispatchVars, TermDoings
<1>2. /\ phase = "term" /\ TermAt' = TermAt + 1
      /\ TermAt = ClearPlace + Len(Signals) + 1
  BY <1>1, TermMoment DEF PlacedTerm
<1>3. ClearPlace \in Nat /\ Len(Signals) \in Nat
  BY TermNumbers
<1>4. /\ TermAt \in ClearPlace .. ClearPlace + Len(Signals) + 1
      /\ TermAt' \in TermAt .. ClearPlace + Len(Signals) + 2
  BY <1>2, <1>3
<1>5. QED
  BY <1>1, <1>2, <1>4, PlacedPastHandler DEF OtherComponent

LEMMA RestoreHandlerPlaced ==
  ASSUME LifeInv, Placed, NEW s \in SignalSet, RestoreHandler(s)
  PROVE  Placed'
<1>1. /\ todo # <<>> /\ Head(todo) = Step("restore", s) /\ "restore" \in TermDoings
      /\ todo' = Tail(todo) \/ todo' = AfterRestore
      /\ UNCHANGED <<platform, phase, instances, installed>>
  BY DEF RestoreHandler, RestoreSignalHandler, RestoreFilter, Restored,
         At, dispatchVars, flagVars, TermDoings
<1>2. PICK k \in 1 .. Len(TermSteps) : k = TermAt
  BY <1>1, TermMoment
<1>3. /\ phase = "term" /\ Ending(k) /\ PlacedTerm(k, "restore", s)
      /\ todo' = Tail(todo) => TermAt' = k + 1
  BY <1>1, <1>2, TermMoment
<1>4. PICK n, m : n = Len(Signals) /\ m = ClearPlace + n + 1
  OBVIOUS
<1>5. /\ n \in Nat /\ ClearPlace \in Nat /\ Len(TermSteps) \in Nat
      /\ m < Len(TermSteps) /\ k - ClearPlace \in 1 .. n /\ k \in Nat
  <2>1. /\ n \in Nat /\ ClearPlace \in Nat /\ Len(TermSteps) \in Nat
        /\ m < Len(TermSteps)
    BY <1>4, TermPlaces DEF LifeInv, Types
  <2>2. k - ClearPlace \in 1 .. n
    BY <1>3, <1>4 DEF PlacedTerm
  <2>3. QED
    BY <2>1, <2>2
<1>6. AfterRestore = From(TermSteps, m)
  <2>1. ASSUME NEW i \in k .. m - 1
        PROVE  TermSteps[i].do = "restore"
    <3>1. i - ClearPlace \in 1 .. n /\ ClearPlace + (i - ClearPlace) = i
      BY <1>4, <1>5
    <3>2. TermSteps[ClearPlace + (i - ClearPlace)] = Step("restore", Signals[i - ClearPlace])
      BY <1>4, <3>1, TermPlaces DEF LifeInv, Types
    <3>3. QED
      BY <3>1, <3>2 DEF Step
  <2>2. TermSteps[m].do # "restore"
    BY <1>4, TermPlaces DEF Step, LifeInv, Types
  <2>3. TermSteps \in Seq(AnyStep) /\ todo = From(TermSteps, k)
    BY <1>3, TermPlaces DEF Ending, LifeInv, Types
  <2>4. m \in k + 1 .. Len(TermSteps)
    BY <1>4, <1>5
  <2>5. QED
    BY <2>1, <2>2, <2>3, <2>4, PassedOver DEF AfterRestore
<1>7. ASSUME todo' = From(TermSteps, m)
      PROVE  TermAt' = m
  <2>1. TermSteps' = TermSteps /\ TermSteps \in Seq(AnyStep) /\ m \in 1 .. Len(TermSteps)
    BY <1>1, <1>4, <1>5, PlansStay, TermPlaces DEF LifeInv, Types
  <2>2. Len(From(TermSteps, m)) = Len(TermSteps) - m + 1
    BY <2>1, FromPlaces, ZenonT(60)
  <2>3. QED
    BY <1>5, <1>7, <2>1, <2>2 DEF TermAt
<1>8. /\ TermAt \in ClearPlace .. ClearPlace + n + 1
      /\ TermAt' \in TermAt .. ClearPlace + n + 2
  BY <1>1, <1>2, <1>3, <1>4, <1>5, <1>6, <1>7
<1>9. QED
  BY <1>1, <1>3, <1>4, <1>8, PlacedPastHandler

LEMMA DestroyKeyPlaced ==
  ASSUME LifeInv, Placed, DestroyKey
  PROVE  Placed' /\ Outside /\ Outside'
<1>1. /\ todo # <<>> /\ Head(todo) = Step("destroyKey", "log") /\ "destroyKey" \in TermDoings
      /\ phase' = "down" /\ UNCHANGED <<instances, installed>>
  BY DEF DestroyKey, Doing, TermDoings
<1>2. phase = "term" /\ TermAt = Len(TermSteps)
  BY <1>1, TermMoment DEF PlacedTerm
<1>3. ASSUME NEW c \in OtherComponent
      PROVE  c \notin instances /\ c \notin installed
  <2>1. /\ TermPlace(c) \in Nat /\ TermPlace(c) + 1 < Len(TermSteps)
        /\ Len(TermSteps) \in Nat
    BY PlacesApart, TermPlaces DEF LifeInv, Types
  <2>2. /\ c \in installed <=> TermAt <= TermPlace(c)
        /\ c \in instances <=> TermAt <= TermPlace(c) + 1
    BY <1>2 DEF Placed
  <2>3. QED
    BY <1>2, <2>1, <2>2
<1>4. QED
  BY <1>1, <1>3 DEF Placed, Outside

LEMMA LibraryStepPlaced ==
  ASSUME LifeInv, LifeInv', Placed, LibraryStep
  PROVE  Placed'
<1>1. CASE InitDbgUtil \/ CreateKey \/ CreateHandler \/ Publish \/ Finish
  BY <1>1, InitDbgUtilPlaced, CreateKeyPlaced, HandlerPlaced, FinishPlaced
<1>2. CASE TermDbgUtil \/ DestroyHandler \/ DestroyKey
  BY <1>2, TermDbgUtilPlaced, DestroyHandlerPlaced, DestroyKeyPlaced
<1>3. CASE InitComponent \/ TermComponent
  BY <1>3, InitComponentPlaced, TermComponentPlaced
<1>4. CASE \E c \in Component : ClearPointer(c)
  BY <1>4, ClearPointerPlaced
<1>5. CASE \E s \in SignalSet : RegisterHandler(s) \/ RestoreHandler(s)
  BY <1>5, RegisterHandlerPlaced, RestoreHandlerPlaced
<1>6. QED
  BY <1>1, <1>2, <1>3, <1>4, <1>5 DEF LibraryStep

-----------------------------------------------------------------------------
(* The loggers that are in use, and those of which entries may be left.    *)

HeldBy(l) ==
  \/ l = "tls" /\ phase # "down"
  \/ l \in Named(LibraryLoggers) /\ phase = "up"
  \/ l \in {"platform_exceptions", "os_exceptions"} /\ "exceptions" \in instances
  \/ l = "modules" /\ "modules" \in instances
  \/ l = "symbols" /\ "symbols" \in instances
  \/ l = "platform_threads" /\ "threads" \in instances
  \/ l = "os_threads" /\ "threads" \in installed
  \/ l = "stacks" /\ "stacks" \in instances /\ platform # "linux"
  \/ l = "images" /\ "images" \in instances
  \/ l \in {"shm", "os_lifesigns", "platform_lifesigns"} /\ "lifesigns" \in instances
Held == {l \in Logger : HeldBy(l)}
Left ==
  {l \in Logger :
     Wrecked \/ (l = "images" /\ platform = "linux") \/ (l = "tls" /\ keyFailed)}
RegistryInv == Account(registry, Held, Left)

LEMMA LoggerNames ==
  /\ "tls" \in Logger /\ "platform_exceptions" \in Logger /\ "os_exceptions" \in Logger
  /\ "modules" \in Logger /\ "symbols" \in Logger /\ "platform_threads" \in Logger
  /\ "os_threads" \in Logger /\ "stacks" \in Logger /\ "images" \in Logger
  /\ "shm" \in Logger /\ "os_lifesigns" \in Logger /\ "platform_lifesigns" \in Logger
  /\ "paths" \in Logger /\ "files" \in Logger /\ "directories" \in Logger
  /\ "lines" \in Logger /\ "dwarf" \in Logger /\ "readers" \in Logger /\ "os" \in Logger
BY LoggersAssumption

LEMMA FewLoggers ==
  /\ Unrepeated(<<>>) /\ Named(<<>>) = {}
  /\ \A a \in Logger : Unrepeated(<<a>>) /\ Named(<<a>>) = {a}
  /\ \A a, b \in Logger : a # b => Unrepeated(<<a, b>>) /\ Named(<<a, b>>) = {a, b}
  /\ \A a, b, c \in Logger :
       a # b /\ b # c /\ a # c => Unrepeated(<<a, b, c>>) /\ Named(<<a, b, c>>) = {a, b, c}
<1>1. Unrepeated(<<>>) /\ Named(<<>>) = {}
  BY DEF Unrepeated, Named
<1>2. ASSUME NEW a \in Logger
      PROVE  Unrepeated(<<a>>) /\ Named(<<a>>) = {a}
  BY DEF Unrepeated, Named
<1>3. ASSUME NEW a \in Logger, NEW b \in Logger, a # b
      PROVE  Unrepeated(<<a, b>>) /\ Named(<<a, b>>) = {a, b}
  <2>1. PICK s : s = <<a, b>>
    OBVIOUS
  <2>2. s \in Seq(Logger) /\ Len(s) = 2 /\ s[1] = a /\ s[2] = b
    BY <2>1
  <2>3. QED
    BY <1>3, <2>1, <2>2 DEF Unrepeated, Named
<1>4. ASSUME NEW a \in Logger, NEW b \in Logger, NEW c \in Logger, a # b, b # c, a # c
      PROVE  Unrepeated(<<a, b, c>>) /\ Named(<<a, b, c>>) = {a, b, c}
  <2>1. PICK s : s = <<a, b, c>>
    OBVIOUS
  <2>2. s \in Seq(Logger) /\ Len(s) = 3 /\ s[1] = a /\ s[2] = b /\ s[3] = c
    BY <2>1
  <2>3. QED
    BY <1>4, <2>1, <2>2 DEF Unrepeated, Named
<1>5. QED
  BY <1>1, <1>2, <1>3, <1>4

LEMMA LibraryNamed ==
  /\ Unrepeated(LibraryLoggers)
  /\ Named(LibraryLoggers)
       = {"paths", "files", "directories", "lines", "dwarf", "readers", "os"}
<1>1. PICK s : s = LibraryLoggers
  OBVIOUS
<1>2. /\ s \in Seq(Logger) /\ Len(s) = 7
      /\ s[1] = "paths" /\ s[2] = "files" /\ s[3] = "directories" /\ s[4] = "lines"
      /\ s[5] = "dwarf" /\ s[6] = "readers" /\ s[7] = "os"
  BY <1>1, LoggerNames DEF LibraryLoggers
<1>3. QED
  BY <1>1, <1>2 DEF Unrepeated, Named

(* The loggers of each component, which it also has in the other order. *)
LEMMA ComponentNamed ==
  ASSUME NEW c \in Component
  PROVE  /\ Unrepeated(LoggersOf(c))
         /\ c = "exceptions" => Named(LoggersOf(c)) = {"platform_exceptions", "os_exceptions"}
         /\ c = "modules" => Named(LoggersOf(c)) = {"modules"}
         /\ c = "symbols" => Named(LoggersOf(c)) = {"symbols"}
         /\ c = "threads" => Named(LoggersOf(c)) = {"platform_threads", "os_threads"}
         /\ c = "stacks" => Named(LoggersOf(c)) = IF platform = "linux" THEN {} ELSE {"stacks"}
         /\ c = "images" => Named(LoggersOf(c)) = {"images"}
         /\ c = "lifesigns" =>
              Named(LoggersOf(c)) = {"shm", "os_lifesigns", "platform_lifesigns"}
<1>1. CASE c = "exceptions"
  <2>1. LoggersOf(c) = <<"platform_exceptions", "os_exceptions">>
    BY <1>1 DEF LoggersOf
  <2>2. QED
    BY <1>1, <2>1, FewLoggers, LoggerNames
<1>2. CASE c = "modules"
  <2>1. LoggersOf(c) = <<"modules">>
    BY <1>2 DEF LoggersOf
  <2>2. QED
    BY <1>2, <2>1, FewLoggers, LoggerNames
<1>3. CASE c = "symbols"
  <2>1. LoggersOf(c) = <<"symbols">>
    BY <1>3 DEF LoggersOf
  <2>2. QED
    BY <1>3, <2>1, FewLoggers, LoggerNames
<1>4. CASE c = "threads"
  <2>1. LoggersOf(c) = <<"platform_threads", "os_threads">>
    BY <1>4 DEF LoggersOf
  <2>2. QED
    BY <1>4, <2>1, FewLoggers, LoggerNames
<1>5. CASE c = "stacks"
  <2>1. LoggersOf(c) = IF platform = "linux" THEN <<>> ELSE <<"stacks">>
    BY <1>5 DEF LoggersOf
  <2>2. QED
    BY <1>5, <2>1, FewLoggers, LoggerNames
<1>6. CASE c = "images"
  <2>1. LoggersOf(c) = <<"images">>
    BY <1>6 DEF LoggersOf
  <2>2. QED
    BY <1>6, <2>1, FewLoggers, LoggerNames
<1>7. CASE c = "lifesigns"
  <2>1. LoggersOf(c) = <<"shm", "os_lifesigns", "platform_lifesigns">>
    BY <1>7 DEF LoggersOf
  <2>2. QED
    BY <1>7, <2>1, FewLoggers, LoggerNames
<1>8. QED
  BY <1>1, <1>2, <1>3, <1>4, <1>5, <1>6, <1>7 DEF Component

LEMMA BackwardNamed ==
  ASSUME NEW ls, Unrepeated(ls)
  PROVE  Unrepeated(Backward(ls)) /\ Named(Backward(ls)) = Named(ls)
<1>1. PICK n : n = Len(ls)
  OBVIOUS
<1>2. /\ ls \in Seq(Logger) /\ n \in Nat /\ \A i \in 1 .. n : ls[i] \in Logger
      /\ \A i, j \in 1 .. n : ls[i] = ls[j] => i = j
      /\ DOMAIN ls = 1 .. n
  BY <1>1 DEF Unrepeated
<1>3. \A i \in 1 .. n : n + 1 - i \in 1 .. n
  BY <1>2
<1>4. PICK b : b = Backward(ls)
  OBVIOUS
<1>5. b = [i \in 1 .. n |-> ls[n + 1 - i]]
  BY <1>1, <1>2, <1>4 DEF Backward
<1>6. /\ b \in Seq(Logger) /\ Len(b) = n
      /\ \A i \in 1 .. n : b[i] = ls[n + 1 - i]
  BY <1>2, <1>3, <1>5
<1>7. ASSUME NEW i \in 1 .. n, NEW j \in 1 .. n, b[i] = b[j]
      PROVE  i = j
  <2>1. n + 1 - i = n + 1 - j
    BY <1>2, <1>3, <1>6, <1>7
  <2>2. QED
    BY <1>2, <2>1
<1>8. ASSUME NEW i \in 1 .. n
      PROVE  ls[i] \in Named(b) /\ b[i] \in Named(ls)
  <2>1. PICK j : j = n + 1 - i
    OBVIOUS
  <2>2. j \in 1 .. n /\ n + 1 - j = i
    BY <1>2, <2>1
  <2>3. b[j] = ls[i] /\ b[i] = ls[j]
    BY <1>6, <2>1, <2>2
  <2>4. QED
    BY <1>1, <1>6, <2>2, <2>3 DEF Named
<1>9. Named(b) = Named(ls)
  BY <1>1, <1>6, <1>8 DEF Named
<1>10. QED
  BY <1>4, <1>6, <1>7, <1>9 DEF Unrepeated

LEMMA LeftGrows ==
  ASSUME platform' = platform, Wrecked => Wrecked', keyFailed => keyFailed'
  PROVE  Left \subseteq Left'
BY DEF Left

LEMMA InitDbgUtilRegistry ==
  ASSUME LifeInv, Placed, RegistryInv, InitDbgUtil
  PROVE  RegistryInv'
<1>1. /\ phase \in {"down", "broken"} /\ phase' = "init" /\ todo' = InitSteps
      /\ registry' = Register(registry, "tls")
      /\ UNCHANGED <<platform, logKey, instances, installed, keyFailed>>
  BY DEF InitDbgUtil, dispatchVars, flagVars, handlerVars
<1>2. InitAt' = 1
  <2>1. InitSteps' = InitSteps /\ Len(InitSteps) \in Nat
    BY <1>1, PlansStay, InitPlaces DEF LifeInv, Types
  <2>2. QED
    BY <1>1, <2>1 DEF InitAt
<1>3. Left \subseteq Left'
  BY <1>1, <1>2, LeftGrows DEF Wrecked
<1>4. "tls" \notin Held \/ "tls" \in Left
  <2>1. CASE phase = "broken"
    BY <2>1, LoggerNames DEF Placed, Left, Wrecked
  <2>2. CASE phase = "down"
    BY <2>2, LibraryNamed DEF Held, HeldBy
  <2>3. QED
    BY <1>1, <2>1, <2>2
<1>5. Held' = Held \cup {"tls"}
  BY <1>1, LoggerNames DEF Held, HeldBy
<1>6. Account(registry', Held \cup {"tls"}, Left)
  <2>1. Held \in SUBSET Logger
    BY DEF Held
  <2>2. QED
    BY <1>1, <1>4, <2>1, LoggerNames, Registering DEF RegistryInv
<1>7. QED
  BY <1>3, <1>5, <1>6, AccountWidens DEF RegistryInv

LEMMA CreateKeyRegistry ==
  ASSUME LifeInv, Placed, RegistryInv, CreateKey
  PROVE  RegistryInv'
<1>1. /\ todo # <<>> /\ Head(todo) = Step("createKey", "log")
      /\ \/ ~ logKey /\ logKey' = TRUE /\ phase' = phase /\ keyFailed' = keyFailed
         \/ phase' = "broken" /\ keyFailed' = TRUE /\ logKey' = logKey
      /\ UNCHANGED <<platform, registry, instances, installed>>
  BY DEF CreateKey, Fail, dispatchVars, flagVars, handlerVars
<1>2. phase = "init"
  BY <1>1, InitMoment DEF InitDoings
<1>3. Left \subseteq Left'
  BY <1>1, <1>2, LeftGrows DEF Wrecked
<1>4. Held' = Held
  BY <1>1, <1>2 DEF Held, HeldBy
<1>5. QED
  BY <1>1, <1>3, <1>4, AccountWidens DEF RegistryInv

(* What the init function of a component does to the loggers. *)
InitLoggers(c) ==
  /\ todo # <<>> /\ Head(todo) = Step("init", c)
  /\ \/ Comes(c)
     \/ c \in {"modules", "symbols", "threads"} /\ (NotCreated(c) \/ NotInitialized(c))
     \/ NothingDone
  /\ UNCHANGED <<platform, logKey, keyFailed>>

LEMMA InitLoggersParts ==
  ASSUME InitComponent
  PROVE  \E c \in OtherComponent : InitLoggers(c)
<1>1. UNCHANGED <<platform, logKey, keyFailed>>
  BY DEF InitComponent, dispatchVars
<1> DEFINE Outcome(c) ==
             /\ At("init", c)
             /\ \/ Comes(c)
                \/ c \in {"modules", "symbols", "threads"} /\ (NotCreated(c) \/ NotInitialized(c))
                \/ NothingDone
<1>2. ASSUME NEW c \in OtherComponent, Outcome(c)
      PROVE  InitLoggers(c)
  BY <1>1, <1>2 DEF InitLoggers, At
<1>3. /\ "modules" \in OtherComponent /\ "symbols" \in OtherComponent
      /\ "threads" \in OtherComponent /\ "stacks" \in OtherComponent
      /\ "images" \in OtherComponent /\ "lifesigns" \in OtherComponent
  BY DEF OtherComponent, Component
<1>4. \/ Outcome("modules") \/ Outcome("symbols") \/ Outcome("threads")
      \/ Outcome("stacks") \/ Outcome("images") \/ Outcome("lifesigns")
  BY DEF InitComponent, InitOn,
     InitLinuxModuleManager, CreateLinuxModuleManager, InitLinuxSymbolEngine,
     InitLinuxThreadManager, InitializeLinuxThreadManager, InitLinuxStackTrace,
     InitElfReader, InitLinuxLifeSignManager, InitWin32ModuleManager, InitProcessHandle,
     InitWin32SymbolEngine, InitializeWin32SymbolEngine, InitWin32ThreadManager,
     InitWin32StackTrace, InitWin32PEReader, InitWin32LifeSignManager, InitWin32Shm
<1>5. QED
  BY <1>2, <1>3, <1>4

LEMMA InitComponentRegistry ==
  ASSUME LifeInv, Placed, RegistryInv, InitComponent
  PROVE  RegistryInv'
<1>1. PICK c \in OtherComponent : InitLoggers(c)
  BY InitLoggersParts
<1>2. /\ todo # <<>> /\ Head(todo) = Step("init", c) /\ "init" \in InitDoings
      /\ UNCHANGED <<platform, logKey, keyFailed>>
  BY <1>1 DEF InitLoggers, InitDoings
<1>3. /\ phase = "init" /\ InitAt = InitPlace(c) /\ Starting(InitAt)
      /\ todo' = Tail(todo) => InitAt' = InitAt + 1
  BY <1>2, InitMoment
<1>4. InitAt \in Nat /\ InitAt > 1 /\ ~ Wrecked
  BY <1>3, PlacesApart DEF Wrecked
<1>5. logKey
  <2>1. 1 \in 1 .. InitAt - 1
    BY <1>4
  <2>2. Done(InitSteps[1])
    BY <1>3, <2>1 DEF Starting
  <2>3. InitSteps[1] = Step("createKey", "log") /\ Step("createKey", "log").do = "createKey"
    BY InitPlaces DEF Step, LifeInv, Types
  <2>4. QED
    BY <2>2, <2>3 DEF Done
<1>6. c \notin instances /\ c \notin installed
  <2>1. c \in instances => InitPlace(c) < InitAt
    BY <1>3, <1>4 DEF Placed
  <2>2. c \notin instances
    BY <1>3, <1>4, <2>1
  <2>3. QED
    BY <2>2 DEF Placed
<1>7. /\ c \in Component /\ Held \in SUBSET Logger /\ Unrepeated(LoggersOf(c))
      /\ c \in {"modules", "symbols", "threads", "stacks", "images", "lifesigns"}
  BY ComponentNamed DEF OtherComponent, Component, Held
<1>8. CASE Comes(c)
  <2>1. /\ phase' = "init" /\ registry' = RegisterAll(registry, LoggersOf(c))
        /\ instances' = instances \cup {c} /\ installed' = installed \cup {c}
        /\ ~ Wrecked'
    BY <1>3, <1>4, <1>8 DEF Comes, Wrecked
  <2>2. Left' = Left
    BY <1>2, <1>4, <2>1 DEF Left
  <2>3. \A l \in Named(LoggersOf(c)) : l \notin Held
    BY <1>3, <1>6, <1>7, ComponentNamed, LibraryNamed DEF Held, HeldBy
  <2>4. Held' = Held \cup Named(LoggersOf(c))
    BY <1>2, <1>3, <1>6, <1>7, <2>1, ComponentNamed, LibraryNamed, LoggerNames DEF Held, HeldBy
  <2>5. Account(registry', Held \cup Named(LoggersOf(c)), Left)
    BY <1>7, <2>1, <2>3, RegisteringAll DEF RegistryInv
  <2>6. QED
    BY <2>2, <2>4, <2>5 DEF RegistryInv
<1>9. ASSUME phase' = "broken" PROVE Left' = Logger /\ Account(registry, Held, Logger)
  <2>1. Wrecked'
    BY <1>2, <1>5, <1>9 DEF Wrecked
  <2>2. Left' = Logger
    BY <2>1 DEF Left
  <2>3. QED
    BY <2>2, AccountWidens DEF RegistryInv, Left
<1>10. CASE /\ c \in {"modules", "symbols", "threads"}
            /\ NotCreated(c) \/ NotInitialized(c)
  <2>1. /\ phase' = "broken" /\ registry' = Register(registry, LoggersOf(c)[1])
        /\ instances' \in {instances, instances \cup {c}} /\ installed' = installed
    BY <1>10 DEF NotCreated, NotInitialized, Fail
  <2>2. PICK l : l = LoggersOf(c)[1]
    OBVIOUS
  <2>3. l = IF c = "threads" THEN "platform_threads" ELSE c
    BY <1>10, <2>2 DEF LoggersOf
  <2>4. l \in Logger
    BY <1>10, <2>3, LoggerNames
  <2>5. Account(registry', Held \cup {l}, Logger)
    BY <1>7, <1>9, <2>1, <2>2, <2>4, Registering
  <2>6. Held' \subseteq Held \cup {l}
    BY <1>2, <1>3, <1>10, <2>1, <2>3 DEF Held, HeldBy
  <2>7. (Held \cup {l}) \ Held' \subseteq Logger
    BY <1>7, <2>4
  <2>8. QED
    BY <1>9, <2>1, <2>5, <2>6, <2>7, AccountNarrows DEF RegistryInv
<1>11. CASE NothingDone
  <2>1. phase' = "broken" /\ UNCHANGED <<registry, instances, installed>>
    BY <1>11 DEF NothingDone, Fail
  <2>2. Held' = Held
    BY <1>2, <1>3, <2>1 DEF Held, HeldBy
  <2>3. QED
    BY <1>9, <2>1, <2>2 DEF RegistryInv
<1>12. QED
  BY <1>1, <1>8, <1>10, <1>11 DEF InitLoggers

LEMMA CreateHandlerRegistry ==
  ASSUME LifeInv, Placed, RegistryInv, CreateHandler
  PROVE  RegistryInv'
<1>1. /\ todo # <<>> /\ todo' = Tail(todo) /\ Head(todo) = Step("createHandler", "exceptions")
      /\ registry' = RegisterAll(registry, LoggersOf("exceptions"))
      /\ instances' = instances \cup {"exceptions"}
      /\ UNCHANGED <<platform, phase, logKey, installed, keyFailed>>
  BY DEF CreateHandler, Doing, dispatchVars, flagVars
<1>2. /\ phase = "init" /\ InitAt = CreatePlace /\ InitAt' = InitAt + 1 /\ Starting(InitAt)
  BY <1>1, InitMoment DEF InitDoings, PlacedInit
<1>3. CreatePlace \in Nat /\ CreatePlace > 1
  BY InitNumbers
<1>4. ~ Wrecked /\ ~ Wrecked'
  BY <1>1, <1>2, <1>3 DEF Wrecked
<1>5. "exceptions" \notin instances
  BY <1>2, <1>3 DEF Starting, HandlerExists
<1>6. /\ Held \in SUBSET Logger /\ Unrepeated(LoggersOf("exceptions"))
      /\ Named(LoggersOf("exceptions")) = {"platform_exceptions", "os_exceptions"}
  BY ComponentNamed DEF Component, Held
<1>7. \A l \in Named(LoggersOf("exceptions")) : l \notin Held
  BY <1>5, <1>6, LibraryNamed DEF Held, HeldBy
<1>8. Held' = Held \cup Named(LoggersOf("exceptions"))
  BY <1>1, <1>6, LoggerNames DEF Held, HeldBy
<1>9. Left' = Left
  BY <1>1, <1>4 DEF Left
<1>10. Account(registry', Held \cup Named(LoggersOf("exceptions")), Left)
  BY <1>1, <1>6, <1>7, RegisteringAll DEF RegistryInv
<1>11. QED
  BY <1>8, <1>9, <1>10 DEF RegistryInv

(* Installing the handlers, and giving them back, concerns no logger. *)
LEMMA OthersRegistry ==
  ASSUME LifeInv, Placed, RegistryInv,
         Publish \/ \E s \in SignalSet : RegisterHandler(s) \/ RestoreHandler(s)
  PROVE  RegistryInv'
<1>1. /\ UNCHANGED <<platform, phase, registry, logKey, instances, keyFailed>>
      /\ installed' \in {installed, installed \cup {"exceptions"}}
  BY DEF Publish, Doing, RegisterHandler, RestoreHandler, dispatchVars, flagVars
<1>2. ~ Wrecked
  <2>1. CASE Publish
    <3>1. todo # <<>> /\ Head(todo) = Step("publish", "exceptions")
      BY <2>1 DEF Publish, Doing
    <3>2. phase = "init" /\ InitAt = CreatePlace + Len(Signals) + 1
      BY <3>1, InitMoment DEF InitDoings, PlacedInit
    <3>3. QED
      BY <3>2, InitNumbers DEF Wrecked
  <2>2. CASE \E s \in SignalSet : RegisterHandler(s)
    <3>1. PICK s \in SignalSet : todo # <<>> /\ Head(todo) = Step("register", s)
      BY <2>2 DEF RegisterHandler, At
    <3>2. phase = "init" /\ InitAt \in 1 .. Len(InitSteps) /\ InitAt - CreatePlace \in 1 .. Len(Signals)
      BY <3>1, InitMoment DEF InitDoings, PlacedInit
    <3>3. InitAt # 1
      BY <3>2, InitNumbers
    <3>4. QED
      BY <3>2, <3>3 DEF Wrecked
  <2>3. CASE \E s \in SignalSet : RestoreHandler(s)
    <3>1. PICK s \in SignalSet : todo # <<>> /\ Head(todo) = Step("restore", s)
      BY <2>3 DEF RestoreHandler, At
    <3>2. phase = "term"
      BY <3>1, TermMoment DEF TermDoings
    <3>3. QED
      BY <3>2 DEF Wrecked
  <2>4. QED
    BY <2>1, <2>2, <2>3
<1>3. Held' = Held
  BY <1>1 DEF Held, HeldBy
<1>4. Left \subseteq Left'
  BY <1>1, <1>2, LeftGrows
<1>5. QED
  BY <1>1, <1>3, <1>4, AccountWidens DEF RegistryInv

LEMMA FinishRegistry ==
  ASSUME LifeInv, Placed, RegistryInv, Finish
  PROVE  RegistryInv'
<1>1. /\ todo # <<>> /\ Head(todo) = Step("finish", "library")
      /\ phase' = "up" /\ registry' = RegisterAll(registry, LibraryLoggers)
      /\ UNCHANGED <<platform, logKey, instances, installed, keyFailed>>
  BY DEF Finish, Doing, dispatchVars, flagVars
<1>2. phase = "init" /\ InitAt = Len(InitSteps)
  BY <1>1, InitMoment DEF InitDoings, PlacedInit
<1>3. ~ Wrecked /\ ~ Wrecked'
  BY <1>1, <1>2, InitNumbers DEF Wrecked
<1>4. Held \in SUBSET Logger /\ \A l \in Named(LibraryLoggers) : l \notin Held
  BY <1>2, LibraryNamed DEF Held, HeldBy
<1>5. Held' = Held \cup Named(LibraryLoggers)
  BY <1>1, <1>2, LibraryNamed, LoggerNames DEF Held, HeldBy
<1>6. Left' = Left
  BY <1>1, <1>3 DEF Left
<1>7. Account(registry', Held \cup Named(LibraryLoggers), Left)
  BY <1>1, <1>4, LibraryNamed, RegisteringAll DEF RegistryInv
<1>8. QED
  BY <1>5, <1>6, <1>7 DEF RegistryInv

LEMMA TermDbgUtilRegistry ==
  ASSUME LifeInv, Placed, RegistryInv, TermDbgUtil
  PROVE  RegistryInv'
<1>1. /\ phase = "up" /\ phase' = "term"
      /\ registry' = UnregisterAll(registry, LibraryLoggers)
      /\ UNCHANGED <<platform, logKey, instances, installed, keyFailed>>
  BY DEF TermDbgUtil, dispatchVars, flagVars
<1>2. ~ Wrecked /\ ~ Wrecked'
  BY <1>1 DEF Wrecked
<1>3. Held \in SUBSET Logger /\ Named(LibraryLoggers) \subseteq Held
  BY <1>1, LibraryNamed, LoggerNames DEF Held, HeldBy
<1>4. Held' = Held \ Named(LibraryLoggers)
  BY <1>1, LibraryNamed DEF Held, HeldBy
<1>5. Left' = Left
  BY <1>1, <1>2 DEF Left
<1>6. Account(registry', Held \ Named(LibraryLoggers), Left)
  BY <1>1, <1>3, LibraryNamed, UnregisteringAll DEF RegistryInv
<1>7. QED
  BY <1>4, <1>5, <1>6 DEF RegistryInv

LEMMA ClearPointerRegistry ==
  ASSUME LifeInv, Placed, RegistryInv, NEW c \in Component, ClearPointer(c)
  PROVE  RegistryInv'
<1>1. /\ todo # <<>> /\ Head(todo) = Step("clear", c) /\ "clear" \in TermDoings
      /\ installed' = installed \ {c}
      /\ registry' = IF c = "threads" THEN Unregister(registry, "os_threads") ELSE registry
      /\ UNCHANGED <<platform, phase, logKey, instances, keyFailed>>
  BY DEF ClearPointer, Doing, dispatchVars, flagVars, TermDoings
<1>2. /\ phase = "term"
      /\ TermAt = IF c \in OtherComponent THEN TermPlace(c) ELSE ClearPlace
  BY <1>1, TermMoment
<1>3. ~ Wrecked /\ ~ Wrecked'
  BY <1>1, <1>2 DEF Wrecked
<1>4. Left' = Left /\ Held \in SUBSET Logger
  BY <1>1, <1>3 DEF Left, Held
<1>5. CASE c = "threads"
  <2>1. c \in OtherComponent
    BY <1>5 DEF OtherComponent, Component
  <2>2. TermAt <= TermPlace(c)
    BY <1>2, <2>1, PlacesApart
  <2>3. c \in installed
    BY <1>2, <2>1, <2>2 DEF Placed
  <2>4. "os_threads" \in Held
    BY <1>5, <2>3, LoggerNames DEF Held, HeldBy
  <2>5. Held' = Held \ {"os_threads"}
    BY <1>1, <1>2, <1>5, LibraryNamed DEF Held, HeldBy
  <2>6. Account(registry', Held \ {"os_threads"}, Left)
    BY <1>1, <1>4, <1>5, <2>4, Unregistering DEF RegistryInv
  <2>7. QED
    BY <1>4, <2>5, <2>6 DEF RegistryInv
<1>6. CASE c # "threads"
  <2>1. Held' = Held
    BY <1>1, <1>6 DEF Held, HeldBy
  <2>2. QED
    BY <1>1, <1>4, <1>6, <2>1 DEF RegistryInv
<1>7. QED
  BY <1>5, <1>6

(* The loggers that the term function of a component unregisters; the ELF
   reader's is not among them. *)
TermLoggers(c) ==
  CASE c = "threads" -> <<"platform_threads">>
    [] c = "images" /\ platform = "linux" -> <<>>
    [] c = "lifesigns" -> Backward(LoggersOf(c))
    [] OTHER -> LoggersOf(c)
TermsLoggers(c) ==
  /\ todo # <<>> /\ Head(todo) = Step("destroy", c)
  /\ Goes(c, TermLoggers(c)) \/ CannotGo
  /\ UNCHANGED <<platform, logKey, installed, keyFailed>>

LEMMA TermsLoggersParts ==
  ASSUME TermComponent
  PROVE  \E c \in OtherComponent : TermsLoggers(c)
<1>1. UNCHANGED <<platform, logKey, installed, keyFailed>>
  BY DEF TermComponent, dispatchVars
<1> DEFINE Outcome(c) == At("destroy", c) /\ (Goes(c, TermLoggers(c)) \/ CannotGo)
<1>2. ASSUME NEW c \in OtherComponent, Outcome(c)
      PROVE  TermsLoggers(c)
  BY <1>1, <1>2 DEF TermsLoggers, At
<1>3. /\ "modules" \in OtherComponent /\ "symbols" \in OtherComponent
      /\ "threads" \in OtherComponent /\ "stacks" \in OtherComponent
      /\ "images" \in OtherComponent /\ "lifesigns" \in OtherComponent
  BY DEF OtherComponent, Component
<1>4. /\ TermLoggers("modules") = <<"modules">> /\ TermLoggers("symbols") = <<"symbols">>
      /\ TermLoggers("threads") = <<"platform_threads">>
      /\ TermLoggers("stacks") = IF platform = "linux" THEN <<>> ELSE <<"stacks">>
      /\ TermLoggers("images") = IF platform = "linux" THEN <<>> ELSE <<"images">>
      /\ TermLoggers("lifesigns") = Backward(LoggersOf("lifesigns"))
  BY DEF TermLoggers, LoggersOf
<1>5. \/ Outcome("modules") \/ Outcome("symbols") \/ Outcome("threads")
      \/ Outcome("stacks") \/ Outcome("images") \/ Outcome("lifesigns")
  <2> HIDE DEF TermLoggers
  <2>1. QED
    BY <1>4 DEF TermComponent, TermOn, TermLinuxModuleManager, TermLinuxSymbolEngine,
     TermLinuxThreadManager, TermLinuxStackTrace, TermElfReader, TermLinuxLifeSignManager,
     TermWin32ModuleManager, TermWin32SymbolEngine, TermWin32ThreadManager,
     TermWin32StackTrace, TermWin32PEReader, TermWin32LifeSignManager
<1>6. QED
  BY <1>2, <1>3, <1>5

LEMMA TermLoggersNamed ==
  ASSUME NEW c \in OtherComponent
  PROVE  /\ Unrepeated(TermLoggers(c))
         /\ Named(TermLoggers(c)) =
              CASE c = "threads" -> {"platform_threads"}
                [] c = "images" /\ platform = "linux" -> {}
                [] OTHER -> Named(LoggersOf(c))
<1>1. Unrepeated(LoggersOf(c))
  BY ComponentNamed DEF OtherComponent
<1>2. CASE c = "threads"
  <2>1. TermLoggers(c) = <<"platform_threads">>
    BY <1>2 DEF TermLoggers
  <2>2. QED
    BY <1>2, <2>1, FewLoggers, LoggerNames
<1>3. CASE c = "images" /\ platform = "linux"
  <2>1. TermLoggers(c) = <<>>
    BY <1>3 DEF TermLoggers
  <2>2. QED
    BY <1>3, <2>1, FewLoggers
<1>4. CASE c = "lifesigns"
  <2>1. TermLoggers(c) = Backward(LoggersOf(c))
    BY <1>4 DEF TermLoggers
  <2>2. QED
    BY <1>1, <1>4, <2>1, BackwardNamed
<1>5. CASE c # "threads" /\ c # "lifesigns" /\ ~ (c = "images" /\ platform = "linux")
  <2>1. TermLoggers(c) = LoggersOf(c)
    BY <1>5 DEF TermLoggers
  <2>2. QED
    BY <1>1, <1>5, <2>1
<1>6. QED
  BY <1>2, <1>3, <1>4, <1>5

LEMMA TermComponentRegistry ==
  ASSUME LifeInv, Placed, RegistryInv, TermComponent
  PROVE  RegistryInv'
<1>1. PICK c \in OtherComponent : TermsLoggers(c)
  BY TermsLoggersParts
<1>2. /\ todo # <<>> /\ Head(todo) = Step("destroy", c) /\ "destroy" \in TermDoings
      /\ UNCHANGED <<platform, logKey, installed, keyFailed>>
  BY <1>1 DEF TermsLoggers, TermDoings
<1>3. phase = "term" /\ TermAt = TermPlace(c) + 1
  BY <1>2, TermMoment
<1>4. c \in instances /\ c \notin installed
  <2>1. /\ c \in installed <=> TermAt <= TermPlace(c)
        /\ c \in instances <=> TermAt <= TermPlace(c) + 1
    BY <1>3 DEF Placed
  <2>2. QED
    BY <1>3, <2>1, PlacesApart
<1>5. /\ Held \in SUBSET Logger /\ ~ Wrecked /\ c \in Component
      /\ c \in {"modules", "symbols", "threads", "stacks", "images", "lifesigns"}
  BY <1>3 DEF Held, Wrecked, OtherComponent, Component
<1>6. CASE Goes(c, TermLoggers(c))
  <2>1. /\ phase' = "term" /\ instances' = instances \ {c} /\ ~ Wrecked'
        /\ registry' = UnregisterAll(registry, TermLoggers(c))
    BY <1>3, <1>6 DEF Goes, Wrecked
  <2>2. Left' = Left
    BY <1>2, <1>5, <2>1 DEF Left
  <2>3. PICK N : N = Named(TermLoggers(c))
    OBVIOUS
  <2>4. /\ c = "modules" => N = {"modules"}
        /\ c = "symbols" => N = {"symbols"}
        /\ c = "threads" => N = {"platform_threads"}
        /\ c = "stacks" => N = IF platform = "linux" THEN {} ELSE {"stacks"}
        /\ c = "images" => N = IF platform = "linux" THEN {} ELSE {"images"}
        /\ c = "lifesigns" => N = {"shm", "os_lifesigns", "platform_lifesigns"}
    BY <1>5, <2>3, TermLoggersNamed, ComponentNamed
  <2>5. N \subseteq Held
    BY <1>4, <1>5, <2>4, LoggerNames DEF Held, HeldBy
  <2>6. Account(registry', Held \ N, Left)
    BY <1>5, <2>1, <2>3, <2>5, TermLoggersNamed, UnregisteringAll DEF RegistryInv
  <2>7. Held' \subseteq Held \ N
    BY <1>2, <1>3, <1>4, <1>5, <2>1, <2>4, LibraryNamed DEF Held, HeldBy
  <2>8. (Held \ N) \ Held' \subseteq Left
    <3>1. SUFFICES ASSUME NEW l \in Held, l \notin N, l \notin Held' PROVE l \in Left
      OBVIOUS
    <3>2. l \in Logger /\ HeldBy(l) /\ ~ HeldBy(l)'
      BY <3>1 DEF Held
    <3>3. c = "images" /\ platform = "linux" /\ l = "images"
      BY <1>2, <1>3, <1>4, <1>5, <2>1, <2>4, <3>1, <3>2 DEF HeldBy
    <3>4. QED
      BY <3>2, <3>3 DEF Left
  <2>9. QED
    BY <2>2, <2>6, <2>7, <2>8, AccountNarrows DEF RegistryInv
<1>7. CASE CannotGo
  <2>1. phase' = "stuck" /\ UNCHANGED <<instances, registry>>
    BY <1>7 DEF CannotGo
  <2>2. Held' = Held
    BY <1>2, <1>3, <2>1 DEF Held, HeldBy
  <2>3. Left \subseteq Left'
    BY <1>2, <1>5, LeftGrows
  <2>4. QED
    BY <2>1, <2>2, <2>3, AccountWidens DEF RegistryInv
<1>8. QED
  BY <1>1, <1>6, <1>7 DEF TermsLoggers

LEMMA DestroyHandlerRegistry ==
  ASSUME LifeInv, Placed, RegistryInv, DestroyHandler
  PROVE  RegistryInv'
<1>1. /\ todo # <<>> /\ Head(todo) = Step("destroyHandler", "exceptions")
      /\ instances' = instances \ {"exceptions"} /\ "destroyHandler" \in TermDoings
      /\ registry' = UnregisterAll(registry, Backward(LoggersOf("exceptions")))
      /\ UNCHANGED <<platform, phase, logKey, installed, keyFailed>>
  BY DEF DestroyHandler, Doing, dispatchVars, flagVars, TermDoings
<1>2. /\ phase = "term" /\ Ending(TermAt) /\ TermAt \in 1 .. Len(TermSteps)
      /\ TermAt = ClearPlace + Len(Signals) + 1
  BY <1>1, TermMoment DEF PlacedTerm
<1>3. ~ Wrecked /\ ~ Wrecked'
  BY <1>1, <1>2 DEF Wrecked
<1>4. "exceptions" \in instances
  BY <1>2, TermNumbers DEF Ending, HandlerExists
<1>5. PICK ls : ls = Backward(LoggersOf("exceptions"))
  OBVIOUS
<1>6. Unrepeated(ls) /\ Named(ls) = {"platform_exceptions", "os_exceptions"}
  BY <1>5, BackwardNamed, ComponentNamed DEF Component
<1>7. Held \in SUBSET Logger /\ Named(ls) \subseteq Held
  BY <1>4, <1>6, LoggerNames DEF Held, HeldBy
<1>8. Held' = Held \ Named(ls)
  BY <1>1, <1>2, <1>6, LibraryNamed DEF Held, HeldBy
<1>9. Left' = Left
  BY <1>1, <1>3 DEF Left
<1>10. Account(registry', Held \ Named(ls), Left)
  BY <1>1, <1>5, <1>6, <1>7, UnregisteringAll DEF RegistryInv
<1>11. QED
  BY <1>8, <1>9, <1>10 DEF RegistryInv

LEMMA DestroyKeyRegistry ==
  ASSUME LifeInv, Placed, RegistryInv, DestroyKey
  PROVE  RegistryInv'
<1>1. /\ todo # <<>> /\ Head(todo) = Step("destroyKey", "log")
      /\ phase' = "down" /\ registry' = Unregister(registry, "tls")
      /\ UNCHANGED <<platform, instances, installed, keyFailed>>
  BY DEF DestroyKey, Doing, dispatchVars, flagVars
<1>2. phase = "term"
  BY <1>1, TermMoment DEF TermDoings
<1>3. ~ Wrecked /\ ~ Wrecked'
  BY <1>1, <1>2 DEF Wrecked
<1>4. Held \in SUBSET Logger /\ "tls" \in Held
  BY <1>2, LoggerNames DEF Held, HeldBy
<1>5. Held' = Held \ {"tls"}
  BY <1>1, <1>2, LibraryNamed DEF Held, HeldBy
<1>6. Left' = Left
  BY <1>1, <1>3 DEF Left
<1>7. Account(registry', Held \ {"tls"}, Left)
  BY <1>1, <1>4, Unregistering DEF RegistryInv
<1>8. QED
  BY <1>5, <1>6, <1>7 DEF RegistryInv

LEMMA LibraryStepRegistry ==
  ASSUME LifeInv, Placed, RegistryInv, LibraryStep
  PROVE  RegistryInv'
<1>1. CASE InitDbgUtil \/ CreateKey \/ CreateHandler \/ Publish \/ Finish
  BY <1>1, InitDbgUtilRegistry, CreateKeyRegistry, CreateHandlerRegistry, OthersRegistry,
     FinishRegistry
<1>2. CASE TermDbgUtil \/ DestroyHandler \/ DestroyKey
  BY <1>2, TermDbgUtilRegistry, DestroyHandlerRegistry, DestroyKeyRegistry
<1>3. CASE InitComponent \/ TermComponent
  BY <1>3, InitComponentRegistry, TermComponentRegistry
<1>4. CASE \E c \in Component : ClearPointer(c)
  BY <1>4, ClearPointerRegistry
<1>5. CASE \E s \in SignalSet : RegisterHandler(s) \/ RestoreHandler(s)
  BY <1>5, OthersRegistry
<1>6. QED
  BY <1>1, <1>2, <1>3, <1>4, <1>5 DEF LibraryStep

(* Exceptions, and the handlers that run, leave all this alone. *)
LEMMA RegistryStays ==
  ASSUME LifeInv, Placed, RegistryInv, UNCHANGED <<platform, lifeVars>>
  PROVE  Placed' /\ RegistryInv'
<1>1. UNCHANGED <<platform, phase, todo, registry, logKey, instances, installed, keyFailed>>
  BY DEF lifeVars
<1>2. InitAt' = InitAt /\ TermAt' = TermAt
  BY <1>1, PlansStay DEF InitAt, TermAt
<1>3. Wrecked' = Wrecked
  BY <1>1, <1>2 DEF Wrecked
<1>4. Placed'
  <2>1. \A c \in OtherComponent : InitPlace(c)' = InitPlace(c) /\ TermPlace(c)' = TermPlace(c)
    BY <1>1, PlaceStays
  <2>2. QED
    BY <1>1, <1>2, <1>3, <2>1 DEF Placed, Outside
<1>5. Held' = Held /\ Left' = Left
  BY <1>1, <1>3 DEF Held, HeldBy, Left
<1>6. QED
  BY <1>1, <1>4, <1>5 DEF RegistryInv

LEMMA InitRegistryInv == Init => Placed /\ RegistryInv
<1>1. SUFFICES ASSUME Init PROVE Placed /\ RegistryInv
  OBVIOUS
<1>2. Placed
  BY <1>1 DEF Init, Placed, Outside
<1>3. Held = {}
  BY <1>1, LibraryNamed DEF Init, Held, HeldBy
<1>4. registry \in Registry
  BY <1>1 DEF Init, EmptyRegistry, Registry
<1>5. Len(registry.table) = 0
  BY <1>1 DEF Init, EmptyRegistry
<1>6. QED
  BY <1>2, <1>3, <1>4, <1>5 DEF RegistryInv, Account, Own, Entries

LEMMA NextRegistryInv ==
  ASSUME LifeInv, LifeInv', Placed, RegistryInv, [Next]_vars
  PROVE  Placed' /\ RegistryInv'
<1>1. CASE LibraryStep
  BY <1>1, LibraryStepPlaced, LibraryStepRegistry
<1>2. CASE HandlingStep
  BY <1>2, HandlingParts, RegistryStays DEF HandlingStep
<1>3. CASE UNCHANGED vars
  BY <1>3, RegistryStays DEF vars, dispatchVars
<1>4. QED
  BY <1>1, <1>2, <1>3, NextCases

LEMMA InUseHeld ==
  ASSUME LifeInv, Placed
  PROVE  InUse \subseteq Held
<1>1. SUFFICES ASSUME NEW l \in InUse PROVE l \in Held
  OBVIOUS
<1>2. l \in Logger
  BY DEF InUse
<1>3. CASE l = "tls" /\ phase # "down"
  BY <1>2, <1>3 DEF Held, HeldBy
<1>4. CASE phase = "up" /\ \E i \in DOMAIN LibraryLoggers : l = LibraryLoggers[i]
  <2>1. LibraryLoggers \in Seq(Logger)
    BY LibraryNamed DEF Unrepeated
  <2>2. l \in Named(LibraryLoggers)
    BY <1>4, <2>1 DEF Named
  <2>3. QED
    BY <1>2, <1>4, <2>2 DEF Held, HeldBy
<1>5. CASE \E c \in instances : \E i \in DOMAIN LoggersOf(c) :
             l = LoggersOf(c)[i] /\ (i = 1 \/ c \in installed \cup {"exceptions"})
  <2>1. PICK c \in instances : \E i \in DOMAIN LoggersOf(c) :
             l = LoggersOf(c)[i] /\ (i = 1 \/ c \in installed \cup {"exceptions"})
    BY <1>5
  <2>2. PICK i \in DOMAIN LoggersOf(c) :
             l = LoggersOf(c)[i] /\ (i = 1 \/ c \in installed \cup {"exceptions"})
    BY <2>1
  <2>3. c \in Component
    BY DEF LifeInv, Types
  <2>4. l \in Named(LoggersOf(c))
    BY <2>2, <2>3, ComponentNamed DEF Unrepeated, Named
  <2>5. ASSUME c = "threads", c \notin installed PROVE l = "platform_threads"
    <3>1. i = 1
      BY <2>2, <2>5
    <3>2. LoggersOf(c)[1] = "platform_threads"
      BY <2>5 DEF LoggersOf
    <3>3. QED
      BY <2>2, <3>1, <3>2
  <2>6. HeldBy(l)
    BY <2>1, <2>3, <2>4, <2>5, ComponentNamed DEF HeldBy, Component
  <2>7. QED
    BY <1>2, <2>6 DEF Held
<1>6. QED
  BY <1>3, <1>4, <1>5 DEF InUse

(* A logger that is in use is at its own place in the table, or has no
   identifier because the table was full when it was registered, so that no
   two share an identifier, whatever failed before and however often the table
   was filled, cleared in part and trimmed; and what termDbgUtil leaves in the
   table is the ELF reader's logger on Linux and, if creating the key once
   failed, the TLS logger (registerLogger, unregisterLogger and their calls). *)
THEOREM LoggersKept == Spec => []LoggersAccounted
<1>1. Init => LifeInv /\ Placed /\ RegistryInv
  BY InitLifeInv, InitRegistryInv
<1>2. LifeInv /\ Placed /\ RegistryInv /\ [Next]_vars => (LifeInv /\ Placed /\ RegistryInv)'
  BY NextLifeInv, NextRegistryInv
<1>3. LifeInv /\ Placed /\ RegistryInv => LoggersAccounted
  <2>1. SUFFICES ASSUME LifeInv, Placed, RegistryInv PROVE LoggersAccounted
    OBVIOUS
  <2>2. ASSUME NEW l \in InUse PROVE registry.id[l] = NoId \/ Live(l)
    <3>1. l \in Held
      BY <2>1, InUseHeld
    <3>2. QED
      BY <2>1, <3>1 DEF RegistryInv, Account, Own, InPlace, Live
  <2>3. ASSUME phase = "down", NEW i \in DOMAIN registry.table
        PROVE  \/ registry.table[i] = NoLogger
               \/ registry.table[i] = "images" /\ platform = "linux"
               \/ registry.table[i] = "tls" /\ keyFailed
    <3>1. Held = {}
      <4>1. "exceptions" \notin instances
        BY <2>1, <2>3 DEF LifeInv, PhaseInv, HandlerExists
      <4>2. \A c \in OtherComponent : c \notin instances /\ c \notin installed
        BY <2>1, <2>3 DEF Placed, Outside
      <4>3. QED
        BY <2>3, <4>1, <4>2, LibraryNamed DEF Held, HeldBy, OtherComponent, Component
    <3>2. ~ Wrecked
      BY <2>3 DEF Wrecked
    <3>3. i \in 1 .. Len(registry.table)
      BY <2>1, <2>3 DEF RegistryInv, Account, Registry
    <3>4. registry.table[i] = NoLogger \/ registry.table[i] \in Left
      BY <2>1, <3>1, <3>3 DEF RegistryInv, Account, Entries
    <3>5. QED
      BY <3>2, <3>4 DEF Left
  <2>4. QED
    BY <2>2, <2>3 DEF LoggersAccounted
<1>4. QED
  BY <1>1, <1>2, <1>3, PTL DEF Spec

================================================================================
