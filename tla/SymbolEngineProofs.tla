-------------------------- MODULE SymbolEngineProofs --------------------------
(***************************************************************************)
(* Theorems about module SymbolEngine, for any threads, any modules, and   *)
(* any number of calls, and about module DebugInfo, which reads what the   *)
(* engine needs, for any debug information that is written soundly.        *)
(***************************************************************************)
EXTENDS SymbolEngine, DebugInfo, FiniteSetTheorems, WellFoundedInduction, SequenceTheorems,
        TLAPS

-----------------------------------------------------------------------------
(* Modules and their addresses.                                            *)

LEMMA BaseInSpan ==
  ASSUME NEW m \in Module
  PROVE  Base(m) \in Span[m] /\ Base(m) \in Nat \ {0}
<1>1. Span[m] \subseteq Nat \ {0} /\ Span[m] # {}
  BY SpanAssumption
<1> DEFINE Less == {ss \in Nat \X Nat : ss[1] < ss[2]}
<1>2. IsWellFoundedOn(Less, Nat)
  BY NatLessThanWellFounded DEF OpToRel
<1> HIDE DEF Less
<1>3. PICK a \in Span[m] : \A b \in Span[m] : ~ (<<b, a>> \in Less)
  BY <1>1, <1>2, WFMin
<1>4. \A b \in Span[m] : ~ (b < a)
  BY <1>1, <1>3 DEF Less
<1>5. \A b \in Span[m] : a <= b
  BY <1>1, <1>4
<1>6. Base(m) \in Span[m]
  BY <1>3, <1>5 DEF Base
<1>7. QED
  BY <1>1, <1>6

(* What the library can know of a module: one that is or was loaded, or none. *)
KnownInfo == {i \in Info : i.module \in loaded \cup past \/ i = NoInfo}

LEMMA KnownInfos ==
  /\ NoInfo \in KnownInfo /\ NoInfo.module = NoModule /\ NoInfo.sized = FALSE
  /\ \A m \in Module : /\ Sized(m) \in Info /\ Sized(m).module = m /\ Sized(m).sized = TRUE
                       /\ Unsized(m) \in Info /\ Unsized(m).module = m
                       /\ m # NoModule
BY NoModuleAssumption DEF KnownInfo, Info, NoInfo, Sized, Unsized

-----------------------------------------------------------------------------
(* The module manager.  As long as nothing has been unloaded, the answer to a
   question for an address is of the module at that address: whether it was
   found in the set, read from the list, told by the loader, or taken from the
   entry that somebody else inserted at the same place. *)
Places == {"idle", "lookup", "search", "search again", "main", "maps", "clear", "add",
           "found", "dladdr", "insert", "set main", "done", "failed"}

Fits(t) ==
  goal[t].kind = "address" /\ info[t].module # NoModule /\ past = {} =>
    goal[t].of \in Span[info[t].module]

CacheInv ==
  /\ loaded \subseteq Module /\ past \subseteq Module /\ Main \in loaded
  /\ readers \subseteq Thread
  /\ \A m, n \in loaded : m # n => Span[m] \cap Span[n] = {}
  /\ moduleSet \subseteq KnownInfo /\ mainModule \subseteq KnownInfo
  /\ mpc \in [Thread -> Places] /\ goal \in [Thread -> Goal]
  /\ info \in [Thread -> KnownInfo]
  /\ maps \in [Thread -> SUBSET (loaded \cup past)]
  /\ \A t \in Thread :
       /\ mpc[t] \in {"search", "search again"} => goal[t].kind = "name"
       /\ mpc[t] = "main" => goal[t].kind = "main"
       /\ Fits(t)

(* What a step of the module manager in one thread leaves alone. *)
Manages(t) ==
  /\ mpc[t] # "idle"
  /\ UNCHANGED <<loaded, past, readers, goal>>
  /\ \A u \in Thread \ {t} : mpc'[u] = mpc[u] /\ info'[u] = info[u]
  /\ moduleSet \subseteq moduleSet' \/ readers = {}

LEMMA Goals ==
  ASSUME NEW g \in Goal
  PROVE  /\ g.kind \in {"address", "name", "main", "list"}
         /\ g.kind = "address" => FirstStep(g) = "lookup"
         /\ g.kind = "name" => FirstStep(g) = "search"
         /\ g.kind = "main" => FirstStep(g) = "main"
         /\ g.kind = "list" => FirstStep(g) = "maps"
<1>1. g.kind \in {"address", "name", "main", "list"}
  BY DEF Goal, ByAddress, ByName, TheMain, TheList
<1>2. QED
  BY <1>1 DEF FirstStep

LEMMA InsertedKnown ==
  ASSUME NEW S \in SUBSET KnownInfo, NEW i \in KnownInfo
  PROVE  Inserted(S, i) \subseteq KnownInfo /\ S \subseteq Inserted(S, i)
BY DEF Inserted

(* Two known infos at one address are of the same module. *)
LEMMA SamePlace ==
  ASSUME CacheInv, past = {}, NEW i \in KnownInfo, NEW j \in KnownInfo,
         LoadAddress(i) = LoadAddress(j), i.module # NoModule
  PROVE  j.module = i.module
<1>1. i.module \in loaded
  BY DEF KnownInfo, NoInfo, Unsized
<1>2. Base(i.module) \in Span[i.module] /\ Base(i.module) # 0
  BY <1>1, BaseInSpan DEF CacheInv
<1>3. LoadAddress(i) = Base(i.module) /\ j.module # NoModule
  BY <1>2 DEF LoadAddress
<1>4. j.module \in loaded
  BY <1>3 DEF KnownInfo, NoInfo, Unsized
<1>5. Base(j.module) \in Span[j.module] /\ LoadAddress(j) = Base(j.module)
  BY <1>3, <1>4, BaseInSpan DEF LoadAddress, CacheInv
<1>6. QED
  BY <1>1, <1>2, <1>3, <1>4, <1>5 DEF CacheInv

(* A thread gets an answer, and goes to a place that no kind of goal is tied to. *)
LEMMA GetsInfo ==
  ASSUME CacheInv, NEW t \in Thread, NEW i \in KnownInfo,
         NEW place \in Places \ {"search", "search again", "main"},
         goal[t].kind = "address" /\ i.module # NoModule /\ past = {} =>
           goal[t].of \in Span[i.module],
         info' = [info EXCEPT ![t] = i], mpc' = [mpc EXCEPT ![t] = place],
         moduleSet' \subseteq KnownInfo, mainModule' \subseteq KnownInfo,
         maps' \in [Thread -> SUBSET (loaded \cup past)],
         UNCHANGED <<loaded, past, readers, goal>>
  PROVE  CacheInv'
<1>1. KnownInfo' = KnownInfo
  BY DEF KnownInfo
<1>2. /\ \A u \in Thread \ {t} : info'[u] = info[u] /\ mpc'[u] = mpc[u]
      /\ info'[t] = i /\ mpc'[t] = place
  BY DEF CacheInv
<1>3. info' \in [Thread -> KnownInfo] /\ mpc' \in [Thread -> Places]
  BY DEF CacheInv
<1>4. ASSUME NEW u \in Thread
      PROVE  Fits(u)'
  <2>1. Fits(u) /\ goal' = goal /\ past' = past
    BY DEF CacheInv
  <2>2. QED
    BY <1>2, <2>1 DEF Fits
<1>5. \A u \in Thread : /\ mpc'[u] \in {"search", "search again"} => goal'[u].kind = "name"
                        /\ mpc'[u] = "main" => goal'[u].kind = "main"
  BY <1>2 DEF CacheInv
<1>6. QED
  BY <1>1, <1>3, <1>4, <1>5 DEF CacheInv

LEMMA CacheStep ==
  ASSUME CacheInv, NEW t \in Thread, ManagerStep(t)
  PROVE  CacheInv' /\ Manages(t)
<1>0. /\ info[t] \in KnownInfo /\ info = [info EXCEPT ![t] = info[t]] /\ Fits(t)
      /\ goal[t] \in Goal /\ maps[t] \subseteq loaded \cup past
  BY DEF CacheInv
<1>1. CASE LookupCached(t)
  <2>1. PICK i \in FoundIn(moduleSet, goal[t].of) :
          IF i # NoInfo
            THEN /\ info' = [info EXCEPT ![t] = i]
                 /\ mpc' = [mpc EXCEPT ![t] = "done"]
            ELSE /\ mpc' = [mpc EXCEPT ![t] = "maps"]
                 /\ UNCHANGED info
    BY <1>1 DEF LookupCached
  <2>2. mpc[t] = "lookup" /\ UNCHANGED <<loaded, past, readers, goal, moduleSet, mainModule, maps>>
    BY <1>1 DEF LookupCached, processVars, cacheVars
  <2>3. CASE i # NoInfo
    <3>1. i \in moduleSet /\ goal[t].of \in Span[i.module]
      BY <2>1, <2>3 DEF FoundIn, Contains
    <3>2. /\ i \in KnownInfo /\ "done" \in Places \ {"search", "search again", "main"}
          /\ moduleSet' \subseteq KnownInfo /\ mainModule' \subseteq KnownInfo
          /\ maps' \in [Thread -> SUBSET (loaded \cup past)]
      BY <2>2, <3>1 DEF CacheInv, Places
    <3>3. info' = [info EXCEPT ![t] = i] /\ mpc' = [mpc EXCEPT ![t] = "done"]
      BY <2>1, <2>3
    <3>4. CacheInv'
      BY <2>2, <3>1, <3>2, <3>3, GetsInfo
    <3>5. QED
      BY <2>2, <3>3, <3>4 DEF CacheInv, Manages
  <2>4. CASE i = NoInfo
    <3>1. info' = [info EXCEPT ![t] = info[t]] /\ mpc' = [mpc EXCEPT ![t] = "maps"]
      BY <2>1, <2>4, <1>0
    <3>2. CacheInv'
      BY <1>0, <2>2, <3>1, GetsInfo DEF CacheInv, Places, Fits
    <3>3. QED
      BY <2>2, <3>1, <3>2 DEF CacheInv, Manages
  <2>5. QED
    BY <2>3, <2>4
<1>2. CASE SearchByName(t)
  <2>1. /\ mpc[t] \in {"search", "search again"} /\ goal[t].kind = "name"
        /\ UNCHANGED <<loaded, past, readers, goal, moduleSet, mainModule, maps>>
    BY <1>2 DEF SearchByName, processVars, cacheVars, CacheInv
  <2>2. PICK i \in KnownInfo, place \in {"done", "maps", "failed"} :
          info' = [info EXCEPT ![t] = i] /\ mpc' = [mpc EXCEPT ![t] = place]
    <3> DEFINE hits == {i \in moduleSet : i.module = goal[t].of}
    <3>1. CASE hits # {}
      BY <1>2, <3>1 DEF SearchByName, CacheInv
    <3>2. CASE hits = {}
      BY <1>0, <1>2, <3>2 DEF SearchByName
    <3>3. QED
      BY <3>1, <3>2
  <2>3. CacheInv'
    BY <2>1, <2>2, GetsInfo DEF CacheInv, Places
  <2>4. QED
    BY <2>1, <2>2, <2>3 DEF CacheInv, Manages
<1>3. CASE LookupMain(t)
  <2>1. /\ mpc[t] = "main" /\ goal[t].kind = "main"
        /\ UNCHANGED <<loaded, past, readers, goal, moduleSet, mainModule, maps>>
    BY <1>3 DEF LookupMain, processVars, cacheVars, CacheInv
  <2>2. PICK i \in KnownInfo, place \in {"done", "maps"} :
          info' = [info EXCEPT ![t] = i] /\ mpc' = [mpc EXCEPT ![t] = place]
    <3>1. CASE mainModule # {}
      BY <1>3, <3>1 DEF LookupMain, CacheInv
    <3>2. CASE mainModule = {}
      BY <1>0, <1>3, <3>2 DEF LookupMain
    <3>3. QED
      BY <3>1, <3>2
  <2>3. CacheInv'
    BY <2>1, <2>2, GetsInfo DEF CacheInv, Places
  <2>4. QED
    BY <2>1, <2>2, <2>3 DEF CacheInv, Manages
<1>4. CASE ReadMaps(t)
  <2>1. /\ mpc[t] = "maps"
        /\ UNCHANGED <<loaded, past, readers, goal, info, moduleSet, mainModule>>
    BY <1>4 DEF ReadMaps, processVars, cacheVars
  <2>2. PICK place \in {"failed", "clear"} : mpc' = [mpc EXCEPT ![t] = place]
    BY <1>4 DEF ReadMaps
  <2>3. maps' \in [Thread -> SUBSET (loaded \cup past)]
    <3>1. CASE UNCHANGED maps
      BY <3>1 DEF CacheInv
    <3>2. CASE \E S \in SUBSET (loaded \ {Main}) : maps' = [maps EXCEPT ![t] = S \cup {Main}]
      <4>1. Main \in loaded \cup past
        BY DEF CacheInv
      <4>2. PICK S \in SUBSET (loaded \ {Main}) : maps' = [maps EXCEPT ![t] = S \cup {Main}]
        BY <3>2
      <4>3. S \cup {Main} \in SUBSET (loaded \cup past)
        BY <4>1
      <4> DEFINE R == S \cup {Main}
      <4>4. R \in SUBSET (loaded \cup past) /\ maps' = [maps EXCEPT ![t] = R]
        BY <4>2, <4>3
      <4> HIDE DEF R
      <4>5. QED
        BY <4>4 DEF CacheInv
    <3>3. QED
      BY <1>4, <3>1, <3>2 DEF ReadMaps
  <2>4. CacheInv'
    BY <1>0, <2>1, <2>2, <2>3, GetsInfo DEF CacheInv, Places, Fits
  <2>5. QED
    BY <2>1, <2>2, <2>4 DEF CacheInv, Manages
<1>5. CASE ClearModuleSet(t)
  <2>1. /\ mpc[t] = "clear" /\ readers = {} /\ moduleSet' = {}
        /\ mpc' = [mpc EXCEPT ![t] = "add"]
        /\ UNCHANGED <<loaded, past, readers, goal, info, maps, mainModule>>
    BY <1>5 DEF ClearModuleSet, NobodyReads, processVars
  <2>2. CacheInv'
    BY <1>0, <2>1, GetsInfo DEF CacheInv, Places, Fits
  <2>3. QED
    BY <2>1, <2>2 DEF CacheInv, Manages
<1>6. CASE AddModule(t)
  <2>1. PICK m \in maps[t] :
          /\ moduleSet' = Inserted(moduleSet, Sized(m))
          /\ maps' = [maps EXCEPT ![t] = @ \ {m}]
          /\ info' = IF Asked(t, m) THEN [info EXCEPT ![t] = Sized(m)] ELSE info
          /\ mpc' = IF m = Main /\ ArgvIsPath THEN [mpc EXCEPT ![t] = "found"] ELSE mpc
    BY <1>6 DEF AddModule
  <2>2. /\ mpc[t] = "add" /\ readers = {} /\ UNCHANGED <<loaded, past, readers, mainModule, goal>>
    BY <1>6 DEF AddModule, NobodyReads, processVars
  <2>3. Sized(m) \in KnownInfo /\ m \in Module /\ Sized(m).module = m
    <3>1. m \in loaded \cup past /\ m \in Module
      BY <1>0 DEF CacheInv
    <3>2. Sized(m) \in Info /\ Sized(m).module = m
      BY <3>1, KnownInfos
    <3>3. QED
      BY <3>1, <3>2 DEF KnownInfo
  <2>4. moduleSet' \subseteq KnownInfo /\ mainModule' \subseteq KnownInfo
    BY <2>1, <2>2, <2>3, InsertedKnown DEF CacheInv
  <2>5. maps' \in [Thread -> SUBSET (loaded \cup past)]
    BY <2>1 DEF CacheInv
  <2>6. PICK p \in {"add", "found"} : mpc' = [mpc EXCEPT ![t] = p]
    BY <2>1, <2>2 DEF CacheInv
  <2>7. PICK i \in KnownInfo :
          /\ info' = [info EXCEPT ![t] = i]
          /\ goal[t].kind = "address" /\ i.module # NoModule /\ past = {} =>
               goal[t].of \in Span[i.module]
    <3>1. CASE Asked(t, m)
      BY <2>1, <2>3, <3>1 DEF Asked
    <3>2. CASE ~ Asked(t, m)
      BY <1>0, <2>1, <3>2 DEF Fits
    <3>3. QED
      BY <3>1, <3>2
  <2>8. p \in Places \ {"search", "search again", "main"}
    BY DEF Places
  <2>9. CacheInv'
    BY <2>2, <2>4, <2>5, <2>6, <2>7, <2>8, GetsInfo
  <2>10. \A u \in Thread \ {t} : info'[u] = info[u] /\ mpc'[u] = mpc[u]
    BY <2>6, <2>7 DEF CacheInv
  <2>11. QED
    BY <2>2, <2>9, <2>10 DEF Manages
<1>12. CASE SetFoundMain(t)
  <2>1. /\ mpc[t] = "found" /\ readers = {} /\ mainModule' = MainSet(Sized(Main))
        /\ mpc' = [mpc EXCEPT ![t] = "add"]
        /\ UNCHANGED <<loaded, past, readers, goal, info, maps, moduleSet>>
    BY <1>12 DEF SetFoundMain, NobodyReads, processVars
  <2>2. Sized(Main) \in KnownInfo
    BY <1>0, KnownInfos DEF CacheInv, KnownInfo
  <2>3. mainModule' \subseteq KnownInfo
    BY <1>0, <2>1, <2>2 DEF CacheInv, MainSet
  <2>4. CacheInv'
    BY <1>0, <2>1, <2>3, GetsInfo DEF CacheInv, Places, Fits
  <2>5. QED
    BY <2>1, <2>4 DEF CacheInv, Manages
<1>7. CASE Refreshed(t)
  <2>1. /\ mpc[t] = "add"
        /\ UNCHANGED <<loaded, past, readers, goal, info, maps, moduleSet, mainModule>>
    BY <1>7 DEF Refreshed, processVars, cacheVars
  <2>2. PICK place \in {"dladdr", "insert", "search again", "set main", "done"} :
          /\ mpc' = [mpc EXCEPT ![t] = place]
          /\ place = "search again" => goal[t].kind = "name"
    <3>1. goal[t].kind \in {"address", "name", "main", "list"}
      BY <1>0, Goals
    <3>2. QED
      BY <1>7, <3>1 DEF Refreshed
  <2>3. /\ \A u \in Thread \ {t} : mpc'[u] = mpc[u]
        /\ mpc'[t] = place /\ mpc' \in [Thread -> Places] /\ KnownInfo' = KnownInfo
    BY <2>1, <2>2 DEF CacheInv, Places, KnownInfo
  <2>4. \A u \in Thread : Fits(u)'
    BY <2>1 DEF CacheInv, Fits
  <2>5. ASSUME NEW u \in Thread
        PROVE  /\ mpc'[u] \in {"search", "search again"} => goal'[u].kind = "name"
               /\ mpc'[u] = "main" => goal'[u].kind = "main"
    BY <2>1, <2>2, <2>3 DEF CacheInv
  <2>6. CacheInv'
    BY <2>1, <2>3, <2>4, <2>5 DEF CacheInv
  <2>7. QED
    BY <2>1, <2>3, <2>6 DEF Manages
<1>8. CASE AskLoader(t)
  <2>1. PICK i \in {NoInfo} \cup {Unsized(m) : m \in {n \in loaded : goal[t].of \in Span[n]}} :
          info' = [info EXCEPT ![t] = i]
    BY <1>8 DEF AskLoader
  <2>2. /\ mpc[t] = "dladdr" /\ mpc' = [mpc EXCEPT ![t] = "insert"]
        /\ UNCHANGED <<loaded, past, readers, goal, maps, moduleSet, mainModule>>
    BY <1>8 DEF AskLoader, processVars, cacheVars
  <2>3. i \in KnownInfo /\ (i.module # NoModule => goal[t].of \in Span[i.module])
    <3>1. CASE i = NoInfo
      BY <3>1, KnownInfos
    <3>2. CASE i # NoInfo
      <4>1. PICK m \in loaded : i = Unsized(m) /\ goal[t].of \in Span[m]
        BY <2>1, <3>2
      <4>2. m \in Module
        BY DEF CacheInv
      <4>3. Unsized(m) \in Info /\ Unsized(m).module = m
        BY <4>2, KnownInfos
      <4>4. QED
        BY <4>1, <4>3 DEF KnownInfo
    <3>3. QED
      BY <3>1, <3>2
  <2>4. CacheInv'
    BY <2>1, <2>2, <2>3, GetsInfo DEF CacheInv, Places
  <2>5. QED
    BY <2>1, <2>2, <2>4 DEF CacheInv, Manages
<1>9. CASE InsertFound(t)
  <2>1. /\ mpc[t] = "insert" /\ readers = {}
        /\ moduleSet' = Inserted(moduleSet, info[t])
        /\ mpc' = [mpc EXCEPT ![t] = "done"]
        /\ UNCHANGED <<loaded, past, readers, goal, maps, mainModule>>
    BY <1>9 DEF InsertFound, NobodyReads, processVars
  <2>2. PICK i \in At(moduleSet', LoadAddress(info[t])) : info' = [info EXCEPT ![t] = i]
    BY <1>9 DEF InsertFound
  <2>3. moduleSet' \subseteq KnownInfo
    BY <1>0, <2>1, InsertedKnown DEF CacheInv
  <2>4. i \in KnownInfo /\ LoadAddress(i) = LoadAddress(info[t])
    BY <2>2, <2>3 DEF At
  <2>5. goal[t].kind = "address" /\ i.module # NoModule /\ past = {} =>
          goal[t].of \in Span[i.module]
    BY <1>0, <2>4, SamePlace DEF Fits
  <2>6. CacheInv'
    BY <2>1, <2>2, <2>3, <2>4, <2>5, GetsInfo DEF CacheInv, Places
  <2>7. QED
    BY <2>1, <2>2, <2>6 DEF CacheInv, Manages
<1>10. CASE CacheMain(t)
  <2>1. /\ mpc[t] = "set main" /\ mainModule' = MainSet(info[t])
        /\ mpc' = [mpc EXCEPT ![t] = "done"]
        /\ UNCHANGED <<loaded, past, readers, goal, info, maps, moduleSet>>
    BY <1>10 DEF CacheMain, processVars
  <2>2. mainModule' \subseteq KnownInfo
    BY <1>0, <2>1 DEF CacheInv, MainSet
  <2>3. CacheInv'
    BY <1>0, <2>1, <2>2, GetsInfo DEF CacheInv, Places, Fits
  <2>4. QED
    BY <2>1, <2>3 DEF CacheInv, Manages
<1>11. QED
  BY <1>1, <1>2, <1>3, <1>4, <1>5, <1>6, <1>7, <1>8, <1>9, <1>10, <1>12 DEF ManagerStep

-----------------------------------------------------------------------------
(* The symbol engine.                                                      *)
Steps == {"idle", "module", "enter", "prepare", "wait", "collect", "visit", "traverse", "client"}

EngineTypes ==
  /\ entries \in Seq([info : Info, ready : BOOLEAN])
  /\ \A e \in Ids : entries[e].info \in KnownInfo
  /\ epc \in [Thread -> Steps] /\ entry \in [Thread -> Nat] /\ todo \in [Thread -> SUBSET Info]

(* What holds of a thread at each step of its call. *)
Where(t) ==
  /\ epc[t] = "idle" => info[t] = NoInfo
  /\ epc[t] \in {"idle", "module", "visit", "client"} => t \notin readers
  /\ epc[t] = "traverse" => t \in readers
  /\ epc[t] \in {"idle", "enter", "prepare", "wait", "collect", "traverse"} => mpc[t] = "idle"
  /\ epc[t] = "module" => goal[t].kind = "address"
  /\ epc[t] = "enter" /\ t \notin readers =>
       goal[t].kind = "address" /\ info[t].module # NoModule
  /\ t \in readers => goal[t].kind = "list"
  /\ epc[t] \in {"prepare", "wait", "collect"} => entry[t] \in Ids
  /\ epc[t] = "prepare" => ~ entries[entry[t]].ready
  /\ epc[t] = "collect" => entries[entry[t]].ready

(* The entry that a lookup uses is of the module at the address. *)
Uses(t) ==
  epc[t] \in {"prepare", "wait", "collect"} /\ t \notin readers =>
    /\ entries[entry[t]].info.module \in loaded \cup past
    /\ past = {} => goal[t].of \in Span[entries[entry[t]].info.module]

Stable(t) ==
  t \in readers => /\ todo[t] \subseteq moduleSet
                   /\ epc[t] = "enter" => info[t] \in moduleSet

(* An entry that is not ready has one thread that prepares it. *)
Preparing(t, e) == epc[t] = "prepare" /\ entry[t] = e
Preparers ==
  /\ \A e \in Ids : ~ entries[e].ready => \E t \in Thread : Preparing(t, e)
  /\ \A t, u \in Thread : epc[t] = "prepare" /\ epc[u] = "prepare" /\ entry[t] = entry[u] => t = u

Distinct ==
  past = {} /\ (\A e \in Ids : entries[e].info.sized) =>
    \A d, e \in Ids : entries[d].info = entries[e].info => d = e

ThreadInv(t) == Where(t) /\ Uses(t) /\ Stable(t)

EngineInv == EngineTypes /\ (\A t \in Thread : ThreadInv(t)) /\ Preparers /\ Distinct

IndInv == CacheInv /\ EngineInv

LEMMA InitInv == Init => IndInv
<1> SUFFICES ASSUME Init PROVE IndInv
  OBVIOUS
<1>1. TheList \in Goal /\ TheList.kind = "list"
  BY DEF TheList, Goal
<1>2. CacheInv
  BY <1>1, KnownInfos, MainAssumption DEF Init, CacheInit, CacheInv, Places, Fits
<1>3. EngineTypes
  BY DEF Init, EngineTypes, Steps, Ids
<1>4. \A t \in Thread : ThreadInv(t)
  BY DEF Init, CacheInit, ThreadInv, Where, Uses, Stable
<1>5. Preparers /\ Distinct
  BY DEF Init, Preparers, Distinct, Ids
<1>6. QED
  BY <1>2, <1>3, <1>4, <1>5 DEF IndInv, EngineInv

(* A module comes or goes. *)
LEMMA ProcessStep ==
  ASSUME IndInv, NEW m \in Module, Load(m) \/ Unload(m), UNCHANGED engineVars
  PROVE  IndInv'
<1> USE DEF IndInv
<1>1. /\ UNCHANGED <<moduleSet, mainModule, readers, mpc, goal, info, maps>>
      /\ UNCHANGED <<entries, epc, entry, todo>>
  BY DEF Load, Unload, cacheVars, callVars, engineVars
<1>2. /\ loaded' \subseteq Module /\ past' \subseteq Module /\ Main \in loaded'
      /\ loaded \cup past \subseteq loaded' \cup past' /\ past \subseteq past'
  BY DEF Load, Unload, CacheInv
<1>3. KnownInfo \subseteq KnownInfo'
  BY <1>2 DEF KnownInfo
<1>4. \A n, k \in loaded' : n # k => Span[n] \cap Span[k] = {}
  BY DEF Load, Unload, CacheInv
<1>5. maps' \in [Thread -> SUBSET (loaded' \cup past')]
  BY <1>1, <1>2 DEF CacheInv
<1>6. CacheInv'
  BY <1>1, <1>2, <1>3, <1>4, <1>5 DEF CacheInv, Fits
<1>7. EngineTypes'
  BY <1>1, <1>3 DEF EngineInv, EngineTypes, Ids
<1>8. \A t \in Thread : ThreadInv(t)'
  BY <1>1, <1>2 DEF EngineInv, ThreadInv, Where, Uses, Stable, Ids
<1>9. Preparers' /\ Distinct'
  BY <1>1, <1>2 DEF EngineInv, Preparers, Preparing, Distinct, Ids
<1>10. QED
  BY <1>6, <1>7, <1>8, <1>9 DEF EngineInv

(* A thread is inside the module manager. *)
LEMMA InManager ==
  ASSUME IndInv, NEW t \in Thread, ManagerStep(t), UNCHANGED engineVars
  PROVE  IndInv'
<1> USE DEF IndInv
<1>1. CacheInv' /\ Manages(t)
  BY CacheStep
<1>2. UNCHANGED <<entries, epc, entry, todo>>
  BY DEF engineVars
<1>3. /\ mpc[t] # "idle" /\ UNCHANGED <<loaded, past, readers, goal>>
      /\ \A u \in Thread \ {t} : mpc'[u] = mpc[u] /\ info'[u] = info[u]
      /\ moduleSet \subseteq moduleSet' \/ readers = {}
  BY <1>1 DEF Manages
<1>4. EngineTypes'
  BY <1>2, <1>3 DEF EngineInv, EngineTypes, Ids, KnownInfo
<1>5. ThreadInv(t)'
  <2>1. epc[t] \in {"module", "visit", "client"} /\ t \notin readers
    BY <1>3 DEF EngineInv, ThreadInv, Where, EngineTypes, Steps
  <2>2. QED
    BY <2>1, <1>2, <1>3 DEF EngineInv, ThreadInv, Where, Uses, Stable
<1>6. ASSUME NEW u \in Thread \ {t}
      PROVE  ThreadInv(u)'
  BY <1>2, <1>3 DEF EngineInv, ThreadInv, Where, Uses, Stable, Ids
<1>7. Preparers' /\ Distinct'
  BY <1>2, <1>3 DEF EngineInv, Preparers, Preparing, Distinct, Ids
<1>8. QED
  BY <1>1, <1>4, <1>5, <1>6, <1>7 DEF EngineInv

(* A step of the engine in one thread that leaves the entries alone. *)
Turns(t) ==
  /\ epc[t] # "prepare" /\ epc'[t] \in Steps \ {"prepare"}
  /\ epc' = [epc EXCEPT ![t] = epc'[t]]
  /\ entry'[t] \in Nat /\ entry' = [entry EXCEPT ![t] = entry'[t]]
  /\ todo'[t] \in SUBSET Info /\ todo' = [todo EXCEPT ![t] = todo'[t]]
  /\ info'[t] \in KnownInfo /\ info' = [info EXCEPT ![t] = info'[t]]
  /\ goal'[t] \in Goal /\ goal' = [goal EXCEPT ![t] = goal'[t]]
  /\ mpc'[t] \in Places /\ mpc' = [mpc EXCEPT ![t] = mpc'[t]]
  /\ mpc'[t] \in {"search", "search again"} => goal'[t].kind = "name"
  /\ mpc'[t] = "main" => goal'[t].kind = "main"
  /\ goal'[t].kind = "address" /\ info'[t].module # NoModule /\ past = {} =>
       goal'[t].of \in Span[info'[t].module]
  /\ readers' \subseteq Thread /\ \A u \in Thread \ {t} : u \in readers' <=> u \in readers
  /\ UNCHANGED <<loaded, past, moduleSet, mainModule, maps, entries>>

(* What it changes has its type, and the other threads keep what they have. *)
LEMMA Turned ==
  ASSUME IndInv, NEW t \in Thread, Turns(t)
  PROVE  /\ epc' \in [Thread -> Steps] /\ entry' \in [Thread -> Nat]
         /\ todo' \in [Thread -> SUBSET Info] /\ info' \in [Thread -> KnownInfo]
         /\ goal' \in [Thread -> Goal] /\ mpc' \in [Thread -> Places]
         /\ \A u \in Thread \ {t} :
              /\ epc'[u] = epc[u] /\ entry'[u] = entry[u] /\ todo'[u] = todo[u]
              /\ info'[u] = info[u] /\ goal'[u] = goal[u] /\ mpc'[u] = mpc[u]
<1>1. /\ epc' \in [Thread -> Steps]
      /\ \A u \in Thread \ {t} : epc'[u] = epc[u]
  <2>1. epc' = [epc EXCEPT ![t] = epc'[t]] /\ epc'[t] \in Steps
    BY DEF Turns
  <2>2. epc \in [Thread -> Steps]
    BY DEF IndInv, EngineInv, EngineTypes
  <2>3. QED
    BY <2>1, <2>2
<1>2. /\ entry' \in [Thread -> Nat]
      /\ \A u \in Thread \ {t} : entry'[u] = entry[u]
  <2>1. entry' = [entry EXCEPT ![t] = entry'[t]] /\ entry'[t] \in Nat
    BY DEF Turns
  <2>2. entry \in [Thread -> Nat]
    BY DEF IndInv, EngineInv, EngineTypes
  <2>3. QED
    BY <2>1, <2>2
<1>3. /\ todo' \in [Thread -> SUBSET Info]
      /\ \A u \in Thread \ {t} : todo'[u] = todo[u]
  <2>1. todo' = [todo EXCEPT ![t] = todo'[t]] /\ todo'[t] \in SUBSET Info
    BY DEF Turns
  <2>2. todo \in [Thread -> SUBSET Info]
    BY DEF IndInv, EngineInv, EngineTypes
  <2>3. QED
    BY <2>1, <2>2
<1>4. /\ info' \in [Thread -> KnownInfo]
      /\ \A u \in Thread \ {t} : info'[u] = info[u]
  <2>1. info' = [info EXCEPT ![t] = info'[t]] /\ info'[t] \in KnownInfo
    BY DEF Turns
  <2>2. info \in [Thread -> KnownInfo]
    BY DEF IndInv, CacheInv
  <2>3. QED
    BY <2>1, <2>2
<1>5. /\ goal' \in [Thread -> Goal]
      /\ \A u \in Thread \ {t} : goal'[u] = goal[u]
  <2>1. goal' = [goal EXCEPT ![t] = goal'[t]] /\ goal'[t] \in Goal
    BY DEF Turns
  <2>2. goal \in [Thread -> Goal]
    BY DEF IndInv, CacheInv
  <2>3. QED
    BY <2>1, <2>2
<1>6. /\ mpc' \in [Thread -> Places]
      /\ \A u \in Thread \ {t} : mpc'[u] = mpc[u]
  <2>1. mpc' = [mpc EXCEPT ![t] = mpc'[t]] /\ mpc'[t] \in Places
    BY DEF Turns
  <2>2. mpc \in [Thread -> Places]
    BY DEF IndInv, CacheInv
  <2>3. QED
    BY <2>1, <2>2
<1>7. QED
  BY <1>1, <1>2, <1>3, <1>4, <1>5, <1>6

(* What a thread has that a step does not touch. *)
LEMMA Kept ==
  ASSUME IndInv, NEW t \in Thread
  PROVE  /\ info[t] \in KnownInfo /\ goal[t] \in Goal /\ mpc[t] \in Places
         /\ entry[t] \in Nat /\ todo[t] \in SUBSET Info /\ epc[t] \in Steps
         /\ Fits(t) /\ Where(t) /\ Uses(t) /\ Stable(t) /\ readers \subseteq Thread
         /\ epc = [epc EXCEPT ![t] = epc[t]] /\ entry = [entry EXCEPT ![t] = entry[t]]
         /\ todo = [todo EXCEPT ![t] = todo[t]] /\ info = [info EXCEPT ![t] = info[t]]
         /\ goal = [goal EXCEPT ![t] = goal[t]] /\ mpc = [mpc EXCEPT ![t] = mpc[t]]
         /\ t \in DOMAIN epc /\ t \in DOMAIN entry /\ t \in DOMAIN todo
         /\ t \in DOMAIN info /\ t \in DOMAIN goal /\ t \in DOMAIN mpc
BY DEF IndInv, EngineInv, EngineTypes, CacheInv, ThreadInv

LEMMA CacheTurn ==
  ASSUME IndInv, NEW t \in Thread, Turns(t)
  PROVE  CacheInv'
<1>1. /\ UNCHANGED <<loaded, past, moduleSet, mainModule, maps>> /\ readers' \subseteq Thread
      /\ mpc'[t] \in {"search", "search again"} => goal'[t].kind = "name"
      /\ mpc'[t] = "main" => goal'[t].kind = "main"
  BY DEF Turns
<1>2. KnownInfo' = KnownInfo
  BY <1>1 DEF KnownInfo
<1>3. \A u \in Thread : Fits(u)'
  <2>1. Fits(t)'
    BY <1>1 DEF Turns, Fits
  <2>2. ASSUME NEW u \in Thread \ {t}
        PROVE  Fits(u)'
    <3>1. Fits(u)
      BY Kept
    <3>2. info'[u] = info[u] /\ goal'[u] = goal[u]
      BY Turned
    <3>3. QED
      BY <1>1, <3>1, <3>2 DEF Fits
  <2>3. QED
    BY <2>1, <2>2
<1>4. ASSUME NEW u \in Thread
      PROVE  /\ mpc'[u] \in {"search", "search again"} => goal'[u].kind = "name"
             /\ mpc'[u] = "main" => goal'[u].kind = "main"
  <2>1. CASE u = t
    BY <1>1, <2>1
  <2>2. CASE u # t
    <3>1. mpc'[u] = mpc[u] /\ goal'[u] = goal[u]
      BY <2>2, Turned
    <3>2. /\ mpc[u] \in {"search", "search again"} => goal[u].kind = "name"
          /\ mpc[u] = "main" => goal[u].kind = "main"
      BY DEF IndInv, CacheInv
    <3>3. QED
      BY <3>1, <3>2
  <2>3. QED
    BY <2>1, <2>2
<1>5. QED
  BY <1>1, <1>2, <1>3, <1>4, Turned DEF IndInv, CacheInv

LEMMA Turn ==
  ASSUME IndInv, NEW t \in Thread, Turns(t), ThreadInv(t)'
  PROVE  IndInv'
<1> USE DEF IndInv
<1>1. /\ UNCHANGED <<loaded, past, moduleSet, entries>>
      /\ epc[t] # "prepare" /\ epc'[t] # "prepare"
  BY DEF Turns
<1>2. \A u \in Thread \ {t} : u \in readers' <=> u \in readers
  BY DEF Turns
<1>3. EngineTypes'
  BY <1>1, Turned DEF EngineInv, EngineTypes, Ids, KnownInfo
<1>4. ASSUME NEW u \in Thread \ {t}
      PROVE  ThreadInv(u)'
  <2>1. /\ epc'[u] = epc[u] /\ entry'[u] = entry[u] /\ todo'[u] = todo[u] /\ mpc'[u] = mpc[u]
        /\ goal'[u] = goal[u] /\ info'[u] = info[u] /\ (u \in readers' <=> u \in readers)
    BY <1>2, Turned
  <2>2. Where(u) /\ Uses(u) /\ Stable(u)
    BY Kept
  <2>3. Where(u)'
    BY <1>1, <2>1, <2>2 DEF Where, Ids
  <2>4. Uses(u)' /\ Stable(u)'
    BY <1>1, <2>1, <2>2 DEF Uses, Stable
  <2>5. QED
    BY <2>3, <2>4 DEF ThreadInv
<1>5. Preparers'
  <2>1. \A u \in Thread \ {t} : epc'[u] = epc[u] /\ entry'[u] = entry[u]
    BY Turned
  <2>2. Preparers
    BY DEF EngineInv
  <2>3. QED
    BY <1>1, <2>1, <2>2 DEF Preparers, Preparing, Ids
<1>6. Distinct'
  BY <1>1 DEF EngineInv, Distinct, Ids
<1>7. QED
  BY <1>3, <1>4, <1>5, <1>6, CacheTurn DEF EngineInv

LEMMA ListGoal == TheList \in Goal /\ TheList.kind = "list" /\ "idle" \in Places
BY DEF TheList, Goal, Places

LEMMA StartLookupInv ==
  ASSUME IndInv, NEW t \in Thread, NEW a \in Address, StartLookup(t, a)
  PROVE  IndInv'
<1> DEFINE g == ByAddress(a)
<1>1. g \in Goal /\ g.kind = "address" /\ g.of = a
  BY DEF Goal, ByAddress
<1>2. /\ epc[t] = "idle" /\ UNCHANGED <<entries, todo>>
      /\ t \notin readers /\ info[t] = NoInfo /\ mpc[t] = "idle"
  BY Kept DEF StartLookup, Call, Where
<1>3. PICK e \in FoundEntries(a) :
        IF e # 0
          THEN /\ entry' = [entry EXCEPT ![t] = e]
               /\ Goes(t, "wait")
               /\ goal' = [goal EXCEPT ![t] = g]
               /\ UNCHANGED <<processVars, cacheVars, mpc, info, maps>>
          ELSE /\ Ask(t, g)
               /\ Goes(t, "module")
               /\ UNCHANGED entry
  BY DEF StartLookup
<1>4. UNCHANGED <<loaded, past, moduleSet, mainModule, readers, maps>>
  BY <1>3 DEF Ask, processVars, cacheVars
<1> HIDE DEF g
<1>5. todo' = [todo EXCEPT ![t] = todo[t]]
  BY <1>2, Kept
<1>6. CASE e # 0
  <2>1. /\ entry' = [entry EXCEPT ![t] = e] /\ epc' = [epc EXCEPT ![t] = "wait"]
        /\ goal' = [goal EXCEPT ![t] = g] /\ UNCHANGED <<mpc, info>>
    BY <1>3, <1>6 DEF Goes
  <2>2. info' = [info EXCEPT ![t] = info[t]] /\ mpc' = [mpc EXCEPT ![t] = mpc[t]]
    BY <2>1, Kept
  <2>3. e \in Ids /\ e \in Nat /\ Contains(entries[e].info, a)
    BY <1>3, <1>6 DEF FoundEntries, Ids
  <2>4. a \in Span[entries[e].info.module] /\ entries[e].info.module \in loaded \cup past
    <3>1. entries[e].info \in KnownInfo /\ entries[e].info.sized
      BY <2>3 DEF IndInv, EngineInv, EngineTypes, Contains
    <3>2. QED
      BY <2>3, <3>1, KnownInfos DEF KnownInfo, Contains
  <2>5. /\ epc'[t] = "wait" /\ entry'[t] = e /\ todo'[t] = todo[t]
        /\ info'[t] = NoInfo /\ goal'[t] = g /\ mpc'[t] = "idle"
    BY <1>2, <1>5, <2>1, <2>2, Kept
  <2>inv. ThreadInv(t)'
    BY <1>1, <1>2, <1>4, <2>3, <2>4, <2>5 DEF ThreadInv, Where, Uses, Stable, Ids
  <2>turns. Turns(t)
    BY <1>1, <1>2, <1>4, <1>5, <2>1, <2>2, <2>3, <2>5, Kept, KnownInfos DEF Turns, Steps
  <2>6. QED
    BY <2>inv, <2>turns, Turn
<1>7. CASE e = 0
  <2>1. /\ epc' = [epc EXCEPT ![t] = "module"] /\ UNCHANGED entry
        /\ mpc' = [mpc EXCEPT ![t] = "lookup"]
        /\ goal' = [goal EXCEPT ![t] = g] /\ info' = [info EXCEPT ![t] = NoInfo]
    BY <1>1, <1>3, <1>7, Goals DEF Goes, Ask
  <2>2. entry' = [entry EXCEPT ![t] = entry[t]]
    BY <2>1, Kept
  <2>3. /\ epc'[t] = "module" /\ entry'[t] = entry[t] /\ todo'[t] = todo[t]
        /\ info'[t] = NoInfo /\ goal'[t] = g /\ mpc'[t] = "lookup"
    BY <1>5, <2>1, <2>2, Kept
  <2>inv. ThreadInv(t)'
    BY <1>1, <1>2, <1>4, <2>3 DEF ThreadInv, Where, Uses, Stable
  <2>turns. Turns(t)
    BY <1>1, <1>2, <1>4, <1>5, <2>1, <2>2, <2>3, Kept, KnownInfos DEF Turns, Steps, Places
  <2>4. QED
    BY <2>inv, <2>turns, Turn
<1>8. QED
  BY <1>6, <1>7

LEMMA ModuleAnsweredInv ==
  ASSUME IndInv, NEW t \in Thread, ModuleAnswered(t)
  PROVE  IndInv'
<1>1. /\ epc[t] = "module" /\ mpc' = [mpc EXCEPT ![t] = "idle"]
      /\ UNCHANGED <<loaded, past, moduleSet, mainModule, readers, maps, entries, entry, todo>>
  BY DEF ModuleAnswered, Answered, processVars, cacheVars
<1>2. t \notin readers /\ goal[t].kind = "address"
  BY <1>1, Kept DEF Where
<1>3. entry' = [entry EXCEPT ![t] = entry[t]] /\ todo' = [todo EXCEPT ![t] = todo[t]]
  BY <1>1, Kept
<1>4. CASE mpc[t] = "done" /\ ModuleKnown(info[t])
  <2>1. epc' = [epc EXCEPT ![t] = "enter"] /\ UNCHANGED <<goal, info>>
    BY <1>4 DEF ModuleAnswered, Goes
  <2>2. goal' = [goal EXCEPT ![t] = goal[t]] /\ info' = [info EXCEPT ![t] = info[t]]
    BY <2>1, Kept
  <2>3. /\ epc'[t] = "enter" /\ entry'[t] = entry[t] /\ todo'[t] = todo[t]
        /\ info'[t] = info[t] /\ goal'[t] = goal[t] /\ mpc'[t] = "idle"
    BY <1>1, <1>3, <2>1, <2>2, Kept
  <2>inv. ThreadInv(t)'
    BY <1>1, <1>2, <1>4, <2>3 DEF ThreadInv, Where, Uses, Stable, ModuleKnown
  <2>4. goal[t].kind = "address" /\ info[t].module # NoModule /\ past = {} =>
          goal[t].of \in Span[info[t].module]
    BY Kept DEF Fits
  <2>turns. Turns(t)
    BY <1>1, <1>3, <2>1, <2>2, <2>3, <2>4, Kept, ListGoal DEF Turns, Steps
  <2>5. QED
    BY <2>inv, <2>turns, Turn
<1>5. CASE ~ (mpc[t] = "done" /\ ModuleKnown(info[t]))
  <2>1. /\ epc' = [epc EXCEPT ![t] = "idle"]
        /\ goal' = [goal EXCEPT ![t] = TheList] /\ info' = [info EXCEPT ![t] = NoInfo]
    BY <1>5 DEF ModuleAnswered, Goes, Forgets
  <2>2. /\ epc'[t] = "idle" /\ entry'[t] = entry[t] /\ todo'[t] = todo[t]
        /\ info'[t] = NoInfo /\ goal'[t] = TheList /\ mpc'[t] = "idle"
    BY <1>1, <1>3, <2>1, Kept
  <2>inv. ThreadInv(t)'
    BY <1>1, <1>2, <2>2 DEF ThreadInv, Where, Uses, Stable
  <2>turns. Turns(t)
    BY <1>1, <1>3, <2>1, <2>2, Kept, ListGoal, KnownInfos DEF Turns, Steps
  <2>3. QED
    BY <2>inv, <2>turns, Turn
<1>6. QED
  BY <1>4, <1>5

LEMMA WaitReadyInv ==
  ASSUME IndInv, NEW t \in Thread, WaitReady(t)
  PROVE  IndInv'
<1>1. /\ epc[t] = "wait" /\ entries[entry[t]].ready /\ epc' = [epc EXCEPT ![t] = "collect"]
      /\ UNCHANGED <<loaded, past, moduleSet, mainModule, readers, maps, entries, entry, todo>>
      /\ UNCHANGED <<info, goal, mpc>>
  BY DEF WaitReady, Goes, cacheModuleVars, processVars, cacheVars, callVars
<1>2. /\ entry' = [entry EXCEPT ![t] = entry[t]] /\ todo' = [todo EXCEPT ![t] = todo[t]]
      /\ info' = [info EXCEPT ![t] = info[t]] /\ goal' = [goal EXCEPT ![t] = goal[t]]
      /\ mpc' = [mpc EXCEPT ![t] = mpc[t]]
  BY <1>1, Kept
<1>3. Where(t) /\ Uses(t) /\ Stable(t) /\ mpc[t] = "idle"
  BY <1>1, Kept DEF Where
<1>4. /\ epc'[t] = "collect" /\ entry'[t] = entry[t] /\ todo'[t] = todo[t]
      /\ info'[t] = info[t] /\ goal'[t] = goal[t] /\ mpc'[t] = mpc[t]
  BY <1>1, <1>2, <1>3, Kept
<1>inv. ThreadInv(t)'
  BY <1>1, <1>3, <1>4 DEF ThreadInv, Where, Uses, Stable, Ids
<1>5. goal[t].kind = "address" /\ info[t].module # NoModule /\ past = {} =>
        goal[t].of \in Span[info[t].module]
  BY Kept DEF Fits
<1>turns. Turns(t)
  BY <1>1, <1>2, <1>3, <1>4, <1>5, Kept DEF Turns, Steps
<1>6. QED
  BY <1>inv, <1>turns, Turn

LEMMA CollectSymbolInfoInv ==
  ASSUME IndInv, NEW t \in Thread, CollectSymbolInfo(t)
  PROVE  IndInv'
<1>1. /\ epc[t] = "collect" /\ t \notin readers /\ epc' = [epc EXCEPT ![t] = "idle"]
      /\ entry' = [entry EXCEPT ![t] = 0]
      /\ goal' = [goal EXCEPT ![t] = TheList] /\ info' = [info EXCEPT ![t] = NoInfo]
      /\ UNCHANGED <<loaded, past, moduleSet, mainModule, readers, maps, entries, todo, mpc>>
  BY DEF CollectSymbolInfo, Goes, Forgets, processVars, cacheVars
<1>2. todo' = [todo EXCEPT ![t] = todo[t]] /\ mpc' = [mpc EXCEPT ![t] = mpc[t]]
  BY <1>1, Kept
<1>3. mpc[t] = "idle"
  BY <1>1, Kept DEF Where
<1>4. /\ epc'[t] = "idle" /\ entry'[t] = 0 /\ todo'[t] = todo[t]
      /\ info'[t] = NoInfo /\ goal'[t] = TheList /\ mpc'[t] = mpc[t]
  BY <1>1, <1>2, <1>3, Kept
<1>inv. ThreadInv(t)'
  BY <1>1, <1>3, <1>4 DEF ThreadInv, Where, Uses, Stable
<1>turns. Turns(t)
  BY <1>1, <1>2, <1>3, <1>4, Kept, ListGoal, KnownInfos DEF Turns, Steps
<1>5. QED
  BY <1>inv, <1>turns, Turn

LEMMA StartVisitInv ==
  ASSUME IndInv, NEW t \in Thread, StartVisit(t)
  PROVE  IndInv'
<1>1. /\ epc[t] = "idle" /\ epc' = [epc EXCEPT ![t] = "visit"]
      /\ mpc' = [mpc EXCEPT ![t] = FirstStep(TheList)]
      /\ goal' = [goal EXCEPT ![t] = TheList] /\ info' = [info EXCEPT ![t] = NoInfo]
      /\ UNCHANGED <<loaded, past, moduleSet, mainModule, readers, maps, entries, entry, todo>>
  BY DEF StartVisit, Call, Ask, Goes, processVars, cacheVars
<1>2. todo' = [todo EXCEPT ![t] = todo[t]] /\ entry' = [entry EXCEPT ![t] = entry[t]]
  BY <1>1, Kept
<1>3. FirstStep(TheList) = "maps" /\ "maps" \in Places /\ t \notin readers
  BY <1>1, Kept, ListGoal, Goals DEF Where, Places
<1>4. /\ epc'[t] = "visit" /\ entry'[t] = entry[t] /\ todo'[t] = todo[t]
      /\ info'[t] = NoInfo /\ goal'[t] = TheList /\ mpc'[t] = "maps"
  BY <1>1, <1>2, <1>3, Kept
<1>inv. ThreadInv(t)'
  BY <1>1, <1>3, <1>4 DEF ThreadInv, Where, Uses, Stable
<1>turns. Turns(t)
  BY <1>1, <1>2, <1>3, <1>4, Kept, ListGoal, KnownInfos DEF Turns, Steps
<1>5. QED
  BY <1>inv, <1>turns, Turn

LEMMA BeginTraversalInv ==
  ASSUME IndInv, NEW t \in Thread, BeginTraversal(t)
  PROVE  IndInv'
<1>1. /\ epc[t] = "visit" /\ mpc' = [mpc EXCEPT ![t] = "idle"]
      /\ goal' = [goal EXCEPT ![t] = TheList] /\ info' = [info EXCEPT ![t] = NoInfo]
      /\ UNCHANGED <<loaded, past, moduleSet, mainModule, maps, entries, entry>>
  BY DEF BeginTraversal, Answered, Forgets, processVars
<1>2. entry' = [entry EXCEPT ![t] = entry[t]] /\ t \notin readers
  BY <1>1, Kept DEF Where
<1>3. CASE mpc[t] = "done"
  <2>1. /\ epc' = [epc EXCEPT ![t] = "traverse"] /\ readers' = readers \cup {t}
        /\ todo' = [todo EXCEPT ![t] = moduleSet]
    BY <1>3 DEF BeginTraversal, Goes
  <2>2. moduleSet \in SUBSET Info
    BY DEF IndInv, CacheInv, KnownInfo
  <2>3. readers' \subseteq Thread /\ (\A u \in Thread \ {t} : u \in readers' <=> u \in readers)
    BY <2>1, Kept
  <2>4. /\ epc'[t] = "traverse" /\ entry'[t] = entry[t] /\ todo'[t] = moduleSet
        /\ info'[t] = NoInfo /\ goal'[t] = TheList /\ mpc'[t] = "idle"
    BY <1>1, <1>2, <2>1, <2>2, <2>3, Kept
  <2>inv. ThreadInv(t)'
    BY <1>1, <2>1, ListGoal, <2>4 DEF ThreadInv, Where, Uses, Stable
  <2>turns. Turns(t)
    BY <1>1, <1>2, <2>1, <2>2, <2>3, <2>4, Kept, ListGoal, KnownInfos DEF Turns, Steps
  <2>5. QED
    BY <2>inv, <2>turns, Turn
<1>4. CASE mpc[t] # "done"
  <2>1. epc' = [epc EXCEPT ![t] = "idle"] /\ UNCHANGED <<readers, todo>>
    BY <1>4 DEF BeginTraversal, Goes
  <2>2. todo' = [todo EXCEPT ![t] = todo[t]]
    BY <2>1, Kept
  <2>3. /\ epc'[t] = "idle" /\ entry'[t] = entry[t] /\ todo'[t] = todo[t]
        /\ info'[t] = NoInfo /\ goal'[t] = TheList /\ mpc'[t] = "idle"
    BY <1>1, <1>2, <2>1, <2>2, Kept
  <2>inv. ThreadInv(t)'
    BY <1>1, <1>2, <2>1, <2>3 DEF ThreadInv, Where, Uses, Stable
  <2>turns. Turns(t)
    BY <1>1, <1>2, <2>1, <2>2, <2>3, Kept, ListGoal, KnownInfos DEF Turns, Steps
  <2>4. QED
    BY <2>inv, <2>turns, Turn
<1>5. QED
  BY <1>3, <1>4

LEMMA VisitModuleInv ==
  ASSUME IndInv, NEW t \in Thread, VisitModule(t)
  PROVE  IndInv'
<1>1. PICK i \in todo[t], then \in {"enter", "traverse"} :
        /\ todo' = [todo EXCEPT ![t] = @ \ {i}]
        /\ info' = [info EXCEPT ![t] = i] /\ epc' = [epc EXCEPT ![t] = then]
  BY DEF VisitModule, Goes
<1>2. /\ epc[t] = "traverse"
      /\ UNCHANGED <<loaded, past, moduleSet, mainModule, readers, maps, entries, entry, mpc, goal>>
  BY DEF VisitModule, processVars, cacheVars
<1>3. /\ entry' = [entry EXCEPT ![t] = entry[t]] /\ goal' = [goal EXCEPT ![t] = goal[t]]
      /\ mpc' = [mpc EXCEPT ![t] = mpc[t]]
  BY <1>2, Kept
<1>4. t \in readers /\ mpc[t] = "idle" /\ goal[t].kind = "list" /\ todo[t] \subseteq moduleSet
  BY <1>2, Kept DEF Where, Stable
<1>5. i \in moduleSet /\ i \in KnownInfo
  BY <1>4 DEF IndInv, CacheInv
<1> DEFINE S == todo[t] \ {i}
<1>6. S \in SUBSET Info /\ S \subseteq moduleSet /\ todo' = [todo EXCEPT ![t] = S]
  BY <1>1, <1>4, Kept
<1> HIDE DEF S
<1>7. /\ epc'[t] = then /\ entry'[t] = entry[t] /\ todo'[t] = S
      /\ info'[t] = i /\ goal'[t] = goal[t] /\ mpc'[t] = mpc[t]
  BY <1>1, <1>2, <1>3, <1>4, <1>5, <1>6, Kept
<1>inv. ThreadInv(t)'
  BY <1>1, <1>2, <1>4, <1>5, <1>6, <1>7 DEF ThreadInv, Where, Uses, Stable
<1>8. then \in Steps \ {"prepare"} /\ mpc[t] \in Places /\ readers' \subseteq Thread
  BY <1>1, <1>2, Kept DEF Steps
<1>turns. Turns(t)
  BY <1>1, <1>2, <1>3, <1>4, <1>5, <1>6, <1>7, <1>8, Kept DEF Turns, Steps
<1>9. QED
  BY <1>inv, <1>turns, Turn

LEMMA VisitSymbolsOfInv ==
  ASSUME IndInv, NEW t \in Thread, VisitSymbolsOf(t)
  PROVE  IndInv'
<1>1. PICK rest \in {todo[t], {}} : todo' = [todo EXCEPT ![t] = rest]
  BY DEF VisitSymbolsOf
<1>2. /\ epc[t] = "collect" /\ t \in readers /\ epc' = [epc EXCEPT ![t] = "traverse"]
      /\ entry' = [entry EXCEPT ![t] = 0]
      /\ UNCHANGED <<loaded, past, moduleSet, mainModule, readers, maps, entries>>
      /\ UNCHANGED <<info, goal, mpc>>
  BY DEF VisitSymbolsOf, Goes, cacheModuleVars, processVars, cacheVars, callVars
<1>3. /\ info' = [info EXCEPT ![t] = info[t]] /\ goal' = [goal EXCEPT ![t] = goal[t]]
      /\ mpc' = [mpc EXCEPT ![t] = mpc[t]]
  BY <1>2, Kept
<1>4. mpc[t] = "idle" /\ goal[t].kind = "list" /\ todo[t] \subseteq moduleSet
  BY <1>2, Kept DEF Where, Stable
<1>5. rest \in SUBSET Info /\ rest \subseteq moduleSet
  BY <1>1, <1>4, Kept
<1>6. /\ epc'[t] = "traverse" /\ entry'[t] = 0 /\ todo'[t] = rest
      /\ info'[t] = info[t] /\ goal'[t] = goal[t] /\ mpc'[t] = mpc[t]
  BY <1>1, <1>2, <1>3, <1>4, <1>5, Kept
<1>inv. ThreadInv(t)'
  BY <1>2, <1>4, <1>5, <1>6 DEF ThreadInv, Where, Uses, Stable
<1>7. readers' \subseteq Thread
  BY <1>2, Kept
<1>turns. Turns(t)
  BY <1>1, <1>2, <1>3, <1>4, <1>5, <1>6, <1>7, Kept DEF Turns, Steps
<1>8. QED
  BY <1>inv, <1>turns, Turn

LEMMA EndTraversalInv ==
  ASSUME IndInv, NEW t \in Thread, EndTraversal(t)
  PROVE  IndInv'
<1>1. /\ epc[t] = "traverse" /\ epc' = [epc EXCEPT ![t] = "idle"]
      /\ readers' = readers \ {t}
      /\ goal' = [goal EXCEPT ![t] = TheList] /\ info' = [info EXCEPT ![t] = NoInfo]
      /\ UNCHANGED <<loaded, past, moduleSet, mainModule, maps, entries, entry, todo, mpc>>
  BY DEF EndTraversal, Goes, Forgets, processVars
<1>2. /\ todo' = [todo EXCEPT ![t] = todo[t]] /\ entry' = [entry EXCEPT ![t] = entry[t]]
      /\ mpc' = [mpc EXCEPT ![t] = mpc[t]]
  BY <1>1, Kept
<1>3. mpc[t] = "idle" /\ t \notin readers'
  BY <1>1, Kept DEF Where
<1>4. /\ epc'[t] = "idle" /\ entry'[t] = entry[t] /\ todo'[t] = todo[t]
      /\ info'[t] = NoInfo /\ goal'[t] = TheList /\ mpc'[t] = mpc[t]
  BY <1>1, <1>2, <1>3, Kept
<1>inv. ThreadInv(t)'
  BY <1>1, <1>3, <1>4 DEF ThreadInv, Where, Uses, Stable
<1>5. readers' \subseteq Thread /\ (\A u \in Thread \ {t} : u \in readers' <=> u \in readers)
  BY <1>1, Kept
<1>turns. Turns(t)
  BY <1>1, <1>2, <1>3, <1>4, <1>5, Kept, ListGoal, KnownInfos DEF Turns, Steps
<1>6. QED
  BY <1>inv, <1>turns, Turn

LEMMA AskDirectlyInv ==
  ASSUME IndInv, NEW t \in Thread, NEW g \in DirectGoals, AskDirectly(t, g)
  PROVE  IndInv'
<1>1. /\ epc[t] = "idle" /\ epc' = [epc EXCEPT ![t] = "client"]
      /\ mpc' = [mpc EXCEPT ![t] = FirstStep(g)]
      /\ goal' = [goal EXCEPT ![t] = g] /\ info' = [info EXCEPT ![t] = NoInfo]
      /\ UNCHANGED <<loaded, past, moduleSet, mainModule, readers, maps, entries, entry, todo>>
  BY DEF AskDirectly, Call, Ask, Goes, processVars, cacheVars
<1>2. todo' = [todo EXCEPT ![t] = todo[t]] /\ entry' = [entry EXCEPT ![t] = entry[t]]
  BY <1>1, Kept
<1>3. g \in Goal /\ t \notin readers
  BY <1>1, Kept, DirectGoalsAssumption DEF Where
<1>4. /\ FirstStep(g) \in Places
      /\ FirstStep(g) \in {"search", "search again"} => g.kind = "name"
      /\ FirstStep(g) = "main" => g.kind = "main"
  BY <1>3, Goals DEF Places
<1>5. /\ epc'[t] = "client" /\ entry'[t] = entry[t] /\ todo'[t] = todo[t]
      /\ info'[t] = NoInfo /\ goal'[t] = g /\ mpc'[t] = FirstStep(g)
  BY <1>1, <1>2, <1>3, <1>4, Kept
<1>inv. ThreadInv(t)'
  BY <1>1, <1>3, <1>5 DEF ThreadInv, Where, Uses, Stable
<1>turns. Turns(t)
  BY <1>1, <1>2, <1>3, <1>4, <1>5, Kept, KnownInfos DEF Turns, Steps
<1>6. QED
  BY <1>inv, <1>turns, Turn

LEMMA AnsweredDirectlyInv ==
  ASSUME IndInv, NEW t \in Thread, AnsweredDirectly(t)
  PROVE  IndInv'
<1>1. /\ epc[t] = "client" /\ epc' = [epc EXCEPT ![t] = "idle"]
      /\ mpc' = [mpc EXCEPT ![t] = "idle"]
      /\ goal' = [goal EXCEPT ![t] = TheList] /\ info' = [info EXCEPT ![t] = NoInfo]
      /\ UNCHANGED <<loaded, past, moduleSet, mainModule, readers, maps, entries, entry, todo>>
  BY DEF AnsweredDirectly, Answered, Goes, Forgets, processVars, cacheVars
<1>2. todo' = [todo EXCEPT ![t] = todo[t]] /\ entry' = [entry EXCEPT ![t] = entry[t]]
  BY <1>1, Kept
<1>3. t \notin readers
  BY <1>1, Kept DEF Where
<1>4. /\ epc'[t] = "idle" /\ entry'[t] = entry[t] /\ todo'[t] = todo[t]
      /\ info'[t] = NoInfo /\ goal'[t] = TheList /\ mpc'[t] = "idle"
  BY <1>1, <1>2, <1>3, Kept
<1>inv. ThreadInv(t)'
  BY <1>1, <1>3, <1>4 DEF ThreadInv, Where, Uses, Stable
<1>turns. Turns(t)
  BY <1>1, <1>2, <1>3, <1>4, Kept, ListGoal, KnownInfos DEF Turns, Steps
<1>5. QED
  BY <1>inv, <1>turns, Turn

(* A module is entered a second time only if a search has gone astray, which
   takes a module that was unloaded or one whose size is not known. *)
LEMMA NotEntered ==
  ASSUME IndInv, NEW t \in Thread, epc[t] = "enter", 0 \in FoundEntries(SearchKey(t)),
         past = {}, info[t].sized, \A e \in Ids : entries[e].info.sized
  PROVE  \A e \in Ids : entries[e].info # info[t]
<1> USE DEF IndInv
<1> DEFINE a == SearchKey(t)
           known == {entries[e].info : e \in Ids}
<1>1. /\ info[t] \in KnownInfo /\ Fits(t) /\ Where(t)
      /\ \A e \in Ids : entries[e].info \in KnownInfo
  BY Kept DEF EngineInv, EngineTypes
<1>2. info[t].module \in loaded /\ info[t].module \in Module /\ info[t].module # NoModule
  BY <1>1, KnownInfos DEF KnownInfo, CacheInv
<1>3. a \in Span[info[t].module]
  <2>1. CASE t \in readers
    BY <1>2, <2>1, BaseInSpan DEF SearchKey, LoadAddress
  <2>2. CASE t \notin readers
    BY <1>1, <1>2, <2>2 DEF SearchKey, Where, Fits
  <2>3. QED
    BY <2>1, <2>2
<1>4. Apart(known)
  <2>1. \A i \in known : i \in Info /\ i.sized /\ i.module \in loaded
    BY <1>1, KnownInfos DEF KnownInfo
  <2>2. \A i, j \in known : i # j => i.module # j.module
    BY <2>1 DEF Info
  <2>3. QED
    BY <2>1, <2>2 DEF Apart, Extent, CacheInv
<1>5. Cardinality(known) = Len(entries)
  <2>1. Len(entries) \in Nat /\ Ids = 1 .. Len(entries)
    BY DEF EngineInv, EngineTypes, Ids
  <2> DEFINE f == [e \in 1 .. Len(entries) |-> entries[e].info]
  <2>2. \A d, e \in Ids : entries[d].info = entries[e].info => d = e
    BY DEF EngineInv, Distinct
  <2>3. f \in Bijection(1 .. Len(entries), known)
    BY <2>1, <2>2 DEF Bijection, Injection, Surjection, IsInjective
  <2>4. ExistsBijection(1 .. Len(entries), known)
    BY <2>3 DEF ExistsBijection
  <2> HIDE DEF known, f
  <2>5. QED
    BY <2>1, <2>4, FS_CountingElements
<1>6. ASSUME NEW e \in Ids, entries[e].info = info[t]
      PROVE  FALSE
  <2>1. Contains(entries[e].info, a)
    BY <1>3, <1>6 DEF Contains
  <2>2. FoundEntries(a) \subseteq Ids
    BY <1>4, <1>5, <2>1 DEF FoundEntries
  <2>3. QED
    BY <2>2 DEF Ids
<1>7. QED
  BY <1>6

LEMMA EnterSymbolModuleInv ==
  ASSUME IndInv, NEW t \in Thread, EnterSymbolModule(t)
  PROVE  IndInv'
<1> USE DEF IndInv
<1>1. PICK e \in FoundEntries(SearchKey(t)) :
        IF e # 0
          THEN /\ entry' = [entry EXCEPT ![t] = e]
               /\ Goes(t, WhenFound)
               /\ UNCHANGED entries
          ELSE /\ entries' = Append(entries, [info |-> info[t], ready |-> FALSE])
               /\ entry' = [entry EXCEPT ![t] = Len(entries) + 1]
               /\ Goes(t, "prepare")
  BY DEF EnterSymbolModule, EntriesAgain
<1>2. /\ epc[t] = "enter"
      /\ UNCHANGED <<loaded, past, moduleSet, mainModule, readers, maps, todo>>
      /\ UNCHANGED <<info, goal, mpc>>
  BY DEF EnterSymbolModule, cacheModuleVars, processVars, cacheVars, callVars
<1>3. /\ todo' = [todo EXCEPT ![t] = todo[t]] /\ info' = [info EXCEPT ![t] = info[t]]
      /\ goal' = [goal EXCEPT ![t] = goal[t]] /\ mpc' = [mpc EXCEPT ![t] = mpc[t]]
  BY <1>2, Kept
<1>4. Where(t) /\ Stable(t) /\ Fits(t) /\ mpc[t] = "idle" /\ info[t] \in KnownInfo
  BY <1>2, Kept DEF Where
<1>5. t \notin readers => SearchKey(t) = goal[t].of
  BY DEF SearchKey
<1>6. CASE e # 0
  <2>1. entry' = [entry EXCEPT ![t] = e] /\ epc' = [epc EXCEPT ![t] = "wait"] /\ UNCHANGED entries
    BY <1>1, <1>6 DEF Goes, WhenFound
  <2>2. e \in Ids /\ e \in Nat /\ Contains(entries[e].info, SearchKey(t))
    BY <1>1, <1>6 DEF FoundEntries, Ids
  <2>3. /\ SearchKey(t) \in Span[entries[e].info.module]
        /\ entries[e].info.module \in loaded \cup past
    <3>1. entries[e].info \in KnownInfo /\ entries[e].info.sized
      BY <2>2 DEF EngineInv, EngineTypes, Contains
    <3>2. QED
      BY <2>2, <3>1, KnownInfos DEF KnownInfo, Contains
  <2>4. /\ epc'[t] = "wait" /\ entry'[t] = e /\ todo'[t] = todo[t]
        /\ info'[t] = info[t] /\ goal'[t] = goal[t] /\ mpc'[t] = mpc[t]
    BY <1>3, <2>1, Kept
  <2>inv. ThreadInv(t)'
    BY <1>2, <1>4, <1>5, <2>1, <2>2, <2>3, <2>4 DEF ThreadInv, Where, Uses, Stable, Ids
  <2>turns. Turns(t)
    BY <1>2, <1>3, <1>4, <2>1, <2>2, <2>4, Kept DEF Turns, Steps, Fits
  <2>5. QED
    BY <2>inv, <2>turns, Turn
<1>7. CASE e = 0
  <2> DEFINE new == [info |-> info[t], ready |-> FALSE]
             n == Len(entries) + 1
  <2>1. /\ entries' = Append(entries, new)
        /\ entry' = [entry EXCEPT ![t] = n] /\ epc' = [epc EXCEPT ![t] = "prepare"]
    BY <1>1, <1>7 DEF Goes
  <2>2. /\ entries \in Seq([info : Info, ready : BOOLEAN]) /\ Len(entries) \in Nat
        /\ new \in [info : Info, ready : BOOLEAN]
    BY <1>4 DEF EngineInv, EngineTypes, KnownInfo
  <2>3. /\ new.info = info[t] /\ new.ready = FALSE
        /\ n \in Nat /\ n \notin Ids /\ Ids' = Ids \cup {n} /\ entries'[n] = new
        /\ entries' \in Seq([info : Info, ready : BOOLEAN])
        /\ \A d \in Ids : entries'[d] = entries[d]
    BY <2>1, <2>2 DEF Ids
  <2> HIDE DEF new, n
  <2>4. CacheInv'
    BY <1>2 DEF CacheInv, KnownInfo, Fits
  <2>5. /\ epc' \in [Thread -> Steps] /\ entry' \in [Thread -> Nat]
        /\ epc'[t] = "prepare" /\ entry'[t] = n
        /\ \A u \in Thread \ {t} : epc'[u] = epc[u] /\ entry'[u] = entry[u]
    BY <2>1, <2>3 DEF EngineInv, EngineTypes, Steps
  <2>6. EngineTypes'
    BY <1>2, <1>4, <2>3, <2>5 DEF EngineInv, EngineTypes, KnownInfo
  <2>7. ThreadInv(t)'
    <3>1. Where(t)'
      BY <1>2, <1>4, <2>3, <2>5 DEF Where
    <3>2. Uses(t)'
      <4>1. t \notin readers => info[t].module \in loaded \cup past
        BY <1>2, <1>4, KnownInfos DEF Where, KnownInfo
      <4>2. t \notin readers /\ past = {} => goal[t].of \in Span[info[t].module]
        BY <1>2, <1>4 DEF Where, Fits
      <4>3. QED
        BY <1>2, <2>3, <2>5, <4>1, <4>2 DEF Uses
    <3>3. Stable(t)'
      BY <1>2, <1>4, <2>5 DEF Stable
    <3>4. QED
      BY <3>1, <3>2, <3>3 DEF ThreadInv
  <2>8. ASSUME NEW u \in Thread \ {t}
        PROVE  ThreadInv(u)'
    <3>1. Where(u) /\ Uses(u) /\ Stable(u)
      BY Kept
    <3>2. Where(u)' /\ Uses(u)'
      BY <1>2, <2>3, <2>5, <3>1 DEF Where, Uses
    <3>3. Stable(u)'
      BY <1>2, <2>5, <3>1 DEF Stable
    <3>4. QED
      BY <3>2, <3>3 DEF ThreadInv
  <2>9. Preparers'
    <3>1. \A u \in Thread : epc[u] = "prepare" => entry[u] \in Ids
      BY Kept DEF Where
    <3>2. \A d \in Ids' : ~ entries'[d].ready =>
            \E u \in Thread : epc'[u] = "prepare" /\ entry'[u] = d
      <4>1. ASSUME NEW d \in Ids, ~ entries'[d].ready
            PROVE  \E u \in Thread : epc'[u] = "prepare" /\ entry'[u] = d
        <5>1. PICK u \in Thread : Preparing(u, d)
          BY <2>3, <4>1 DEF EngineInv, Preparers
        <5>2. u # t
          BY <1>2, <5>1 DEF Preparing
        <5>3. QED
          BY <2>5, <5>1, <5>2 DEF Preparing
      <4>2. epc'[t] = "prepare" /\ entry'[t] = n
        BY <2>5
      <4>3. QED
        BY <2>3, <4>1, <4>2
    <3>3. \A u, v \in Thread : epc'[u] = "prepare" /\ epc'[v] = "prepare" /\ entry'[u] = entry'[v]
                                 => u = v
      BY <2>3, <2>5, <3>1 DEF EngineInv, Preparers
    <3>4. QED
      BY <3>2, <3>3 DEF Preparers, Preparing
  <2>10. Distinct'
    <3> SUFFICES ASSUME past' = {}, \A d \in Ids' : entries'[d].info.sized
                 PROVE  \A d, k \in Ids' : entries'[d].info = entries'[k].info => d = k
      BY DEF Distinct
    <3>1. past = {} /\ info[t].sized /\ (\A d \in Ids : entries[d].info.sized)
      BY <1>2, <2>3
    <3>2. \A d \in Ids : entries[d].info # info[t]
      BY <1>1, <1>2, <1>7, <3>1, NotEntered
    <3>3. \A d, k \in Ids : entries[d].info = entries[k].info => d = k
      BY <3>1 DEF EngineInv, Distinct
    <3>4. QED
      BY <2>3, <3>2, <3>3
  <2>11. QED
    BY <2>4, <2>6, <2>7, <2>8, <2>9, <2>10 DEF EngineInv
<1>8. QED
  BY <1>6, <1>7

LEMMA PrepareModuleInv ==
  ASSUME IndInv, NEW t \in Thread, PrepareModule(t)
  PROVE  IndInv'
<1> USE DEF IndInv
<1> DEFINE n == entry[t]
<1>1. /\ epc[t] = "prepare" /\ entries' = [entries EXCEPT ![n].ready = TRUE]
      /\ epc' = [epc EXCEPT ![t] = "collect"]
      /\ UNCHANGED <<loaded, past, moduleSet, mainModule, readers, maps, entry, todo>>
      /\ UNCHANGED <<info, goal, mpc>>
  BY DEF PrepareModule, ReadyAfter, Goes, cacheModuleVars, processVars, cacheVars, callVars
<1>2. Where(t) /\ Uses(t) /\ Stable(t) /\ n \in Ids
  BY <1>1, Kept DEF Where
<1> HIDE DEF n
<1>3. entries \in Seq([info : Info, ready : BOOLEAN])
  BY DEF EngineInv, EngineTypes
<1>4. /\ Ids' = Ids /\ entries' \in Seq([info : Info, ready : BOOLEAN])
      /\ \A d \in Ids : /\ entries'[d].info = entries[d].info
                        /\ entries'[d].ready = (d = n \/ entries[d].ready)
  <2>0. Len(entries) \in Nat /\ Ids = 1 .. Len(entries)
    BY <1>3 DEF Ids
  <2>1. /\ entries[n] \in [info : Info, ready : BOOLEAN]
        /\ \A d \in Ids : entries[d] \in [info : Info, ready : BOOLEAN]
    <3> DEFINE E == [info : Info, ready : BOOLEAN]
    <3>1. entries \in Seq(E)
      BY <1>3
    <3> HIDE DEF E
    <3>2. \A d \in Ids : entries[d] \in E
      BY <2>0, <3>1
    <3>3. QED
      BY <1>2, <3>2 DEF E
  <2> DEFINE R == [entries[n] EXCEPT !.ready = TRUE]
  <2>2. /\ R \in [info : Info, ready : BOOLEAN]
        /\ R.info = entries[n].info /\ R.ready = TRUE
    BY <2>1
  <2>3. entries' = [entries EXCEPT ![n] = R]
    BY <1>1
  <2> HIDE DEF R
  <2>4. Ids' = Ids /\ entries' \in Seq([info : Info, ready : BOOLEAN])
    BY <1>2, <1>3, <2>2, <2>3 DEF Ids
  <2>5. \A d \in Ids : entries'[d] = IF d = n THEN R ELSE entries[d]
    BY <1>2, <1>3, <2>3 DEF Ids
  <2>6. QED
    BY <2>1, <2>2, <2>4, <2>5
<1>5. CacheInv'
  BY <1>1 DEF CacheInv, KnownInfo, Fits
<1>6. /\ epc' \in [Thread -> Steps] /\ epc'[t] = "collect"
      /\ \A u \in Thread \ {t} : epc'[u] = epc[u]
  BY <1>1 DEF EngineInv, EngineTypes, Steps
<1>7. EngineTypes'
  BY <1>1, <1>4, <1>6 DEF EngineInv, EngineTypes, KnownInfo
<1>8. \A u \in Thread \ {t} : epc[u] = "prepare" => entry[u] # n
  BY <1>1 DEF EngineInv, Preparers, n
<1>9. ThreadInv(t)'
  <2>1. Where(t)'
    BY <1>1, <1>2, <1>4, <1>6 DEF Where, n
  <2>2. Uses(t)'
    BY <1>1, <1>2, <1>4, <1>6 DEF Uses, n
  <2>3. Stable(t)'
    BY <1>1, <1>2, <1>6 DEF Stable
  <2>4. QED
    BY <2>1, <2>2, <2>3 DEF ThreadInv
<1>10. ASSUME NEW u \in Thread \ {t}
       PROVE  ThreadInv(u)'
  <2>1. Where(u) /\ Uses(u) /\ Stable(u)
    BY Kept
  <2>2. Where(u)'
    BY <1>1, <1>4, <1>6, <1>8, <2>1 DEF Where
  <2>3. Uses(u)'
    <3>1. CASE epc[u] \in {"prepare", "wait", "collect"}
      <4>1. entry[u] \in Ids
        BY <2>1, <3>1 DEF Where
      <4>2. QED
        BY <1>1, <1>4, <1>6, <2>1, <4>1 DEF Uses
    <3>2. CASE epc[u] \notin {"prepare", "wait", "collect"}
      BY <1>6, <3>2 DEF Uses
    <3>3. QED
      BY <3>1, <3>2
  <2>4. Stable(u)'
    BY <1>1, <1>6, <2>1 DEF Stable
  <2>5. QED
    BY <2>2, <2>3, <2>4 DEF ThreadInv
<1>11. Preparers'
  <2>1. ASSUME NEW d \in Ids, ~ entries'[d].ready
        PROVE  \E u \in Thread : Preparing(u, d)'
    <3>1. d # n /\ ~ entries[d].ready
      BY <1>4, <2>1
    <3>2. PICK u \in Thread : Preparing(u, d)
      BY <3>1 DEF EngineInv, Preparers
    <3>3. u # t
      BY <3>1, <3>2 DEF Preparing, n
    <3>4. QED
      BY <1>1, <1>6, <3>2, <3>3 DEF Preparing
  <2>2. \A u, v \in Thread : epc'[u] = "prepare" /\ epc'[v] = "prepare" /\ entry'[u] = entry'[v]
                               => u = v
    BY <1>1, <1>6 DEF EngineInv, Preparers
  <2>3. QED
    BY <1>4, <2>1, <2>2 DEF Preparers
<1>12. Distinct'
  BY <1>1, <1>4 DEF EngineInv, Distinct
<1>13. QED
  BY <1>5, <1>7, <1>9, <1>10, <1>11, <1>12 DEF EngineInv

LEMMA NextInv == IndInv /\ [Next]_vars => IndInv'
<1> SUFFICES ASSUME IndInv, [Next]_vars PROVE IndInv'
  OBVIOUS
<1>1. CASE UNCHANGED vars
  <2>1. /\ UNCHANGED <<loaded, past, moduleSet, mainModule, readers, mpc, goal, info, maps>>
        /\ UNCHANGED <<entries, epc, entry, todo>>
    BY <1>1 DEF vars, cacheModuleVars, processVars, cacheVars, callVars, engineVars
  <2>2. CacheInv'
    BY <2>1 DEF IndInv, CacheInv, KnownInfo, Fits
  <2>3. EngineTypes' /\ Preparers' /\ Distinct'
    BY <2>1 DEF IndInv, EngineInv, EngineTypes, Preparers, Preparing, Distinct, Ids, KnownInfo
  <2>4. \A t \in Thread : ThreadInv(t)'
    BY <2>1 DEF IndInv, EngineInv, ThreadInv, Where, Uses, Stable, Ids
  <2>5. QED
    BY <2>2, <2>3, <2>4 DEF IndInv, EngineInv
<1>2. ASSUME NEW m \in Module, (Load(m) \/ Unload(m)) /\ UNCHANGED engineVars
      PROVE  IndInv'
  BY <1>2, ProcessStep
<1>3. ASSUME NEW t \in Thread, NEW a \in Address, StartLookup(t, a)
      PROVE  IndInv'
  BY <1>3, StartLookupInv
<1>4. ASSUME NEW t \in Thread, StartVisit(t)
      PROVE  IndInv'
  BY <1>4, StartVisitInv
<1>5. ASSUME NEW t \in Thread, NEW g \in DirectGoals, AskDirectly(t, g)
      PROVE  IndInv'
  BY <1>5, AskDirectlyInv
<1>6. ASSUME NEW t \in Thread, ManagerStep(t) /\ UNCHANGED engineVars
      PROVE  IndInv'
  BY <1>6, InManager
<1>7. ASSUME NEW t \in Thread, EngineStep(t)
      PROVE  IndInv'
  BY <1>7, ModuleAnsweredInv, EnterSymbolModuleInv, PrepareModuleInv, WaitReadyInv,
     CollectSymbolInfoInv, BeginTraversalInv, VisitModuleInv, VisitSymbolsOfInv,
     EndTraversalInv, AnsweredDirectlyInv DEF EngineStep
<1>8. QED
  BY <1>1, <1>2, <1>3, <1>4, <1>5, <1>6, <1>7 DEF Next, ThreadStep

LEMMA Always == Spec => []IndInv
BY InitInv, NextInv, PTL DEF Spec

-----------------------------------------------------------------------------
(* Nobody reads the data of a module before it is ready; every entry that is
   not ready has exactly one thread that prepares it; and as long as no module
   was unloaded and all sizes are known, no module is entered twice, whichever
   threads ask for it at once (getSymbolModule, setReady, waitReady). *)
THEOREM PreparedBeforeUseAlways == Spec => []PreparedBeforeUse
<1>1. IndInv => PreparedBeforeUse
  <2> SUFFICES ASSUME IndInv PROVE PreparedBeforeUse
    OBVIOUS
  <2>1. \A t \in Thread : epc[t] = "collect" => entry[t] \in Ids /\ entries[entry[t]].ready
    BY Kept DEF Where
  <2>2. ASSUME NEW e \in Ids, ~ entries[e].ready
        PROVE  Cardinality({t \in Thread : epc[t] = "prepare" /\ entry[t] = e}) = 1
    <3> DEFINE S == {t \in Thread : epc[t] = "prepare" /\ entry[t] = e}
    <3>1. PICK u \in Thread : Preparing(u, e)
      BY <2>2 DEF IndInv, EngineInv, Preparers
    <3>2. S = {u}
      BY <3>1 DEF IndInv, EngineInv, Preparers, Preparing
    <3> HIDE DEF S
    <3>3. Cardinality(S) = 1
      BY <3>2, FS_Singleton
    <3>4. QED
      BY <3>3 DEF S
  <2>3. Distinct
    BY DEF IndInv, EngineInv
  <2>4. QED
    BY <2>1, <2>2, <2>3 DEF PreparedBeforeUse, Distinct
<1>2. QED
  BY <1>1, Always, PTL

(* A lookup uses the data of a module, never those of an empty OsModuleInfo;
   and, as long as none was unloaded, of the one at its address, although both
   the module manager and getSymbolModule let go of their locks and take the
   entry of whoever was first. *)
THEOREM AnswersFitAlways == Spec => []AnswersFit
<1>1. IndInv => AnswersFit
  BY Kept DEF AnswersFit, Uses
<1>2. QED
  BY <1>1, Always, PTL

(* No refresh by another thread takes from the set what a traversal has before
   it or looks at (forEachModule against refreshOsModuleList). *)
THEOREM TraversalStableAlways == Spec => []TraversalStable
<1>1. IndInv => TraversalStable
  <2> SUFFICES ASSUME IndInv PROVE TraversalStable
    OBVIOUS
  <2>1. \A t \in Thread : Stable(t)
    BY Kept
  <2>2. readers \subseteq Thread
    BY DEF IndInv, CacheInv
  <2>3. QED
    BY <2>1, <2>2 DEF Stable, TraversalStable
<1>2. QED
  BY <1>1, Always, PTL

-----------------------------------------------------------------------------
(* Types.  What is left to show beyond IndInv: no two infos of the module set
   have one load address, the main module is kept as a whole or not at all,
   threads stay among the entries, and calls are counted. *)
OnePerAddress(S) == \A i, j \in S : LoadAddress(i) = LoadAddress(j) => i = j
MainInfo == {NoInfo, Sized(Main)}
OneMain(S) == S = {} \/ \E i \in MainInfo : S = {i}

(* A thread at the place p of the module manager, asked g, with the answer i. *)
Agree(p, g, i) ==
  /\ p \in {"lookup", "dladdr", "insert"} => g.kind = "address"
  /\ p \in {"search", "search again"} => g.kind = "name"
  /\ p = "main" \/ p = "set main" => g.kind = "main"
  /\ g.kind = "main" => i \in MainInfo
Kinds(t) == Agree(mpc[t], goal[t], info[t])

RestInv ==
  /\ OnePerAddress(moduleSet) /\ OneMain(mainModule)
  /\ \A t \in Thread : Kinds(t) /\ entry[t] \in Ids \cup {0}
  /\ calls \in [Thread -> 0 .. MaxCalls]

LEMMA InsertedOnce ==
  ASSUME NEW S, OnePerAddress(S), NEW i
  PROVE  OnePerAddress(Inserted(S, i))
BY DEF OnePerAddress, Inserted, At

(* Places that no kind of goal is tied to. *)
Anywhere == {"idle", "maps", "clear", "add", "found", "done", "failed"}

LEMMA AgreeAnywhere ==
  ASSUME NEW p \in Anywhere, NEW g, NEW i, g.kind = "main" => i \in MainInfo
  PROVE  Agree(p, g, i)
BY DEF Agree, Anywhere

LEMMA Agreed ==
  ASSUME NEW p, NEW g, NEW i, Agree(p, g, i)
  PROVE  /\ p \in {"lookup", "dladdr", "insert"} => g.kind = "address"
         /\ p = "main" => g.kind = "main"
         /\ g.kind = "main" => i \in MainInfo
BY DEF Agree

(* One thread goes on; the others are where they were. *)
LEMMA KindsStep ==
  ASSUME IndInv, RestInv, NEW t \in Thread, NEW p, NEW g, NEW i, Agree(p, g, i),
         mpc' = [mpc EXCEPT ![t] = p], goal' = [goal EXCEPT ![t] = g],
         info' = [info EXCEPT ![t] = i]
  PROVE  \A u \in Thread : Kinds(u)'
<1>1. /\ mpc \in [Thread -> Places] /\ goal \in [Thread -> Goal] /\ info \in [Thread -> KnownInfo]
  BY DEF IndInv, CacheInv
<1>2. ASSUME NEW u \in Thread PROVE Agree(mpc'[u], goal'[u], info'[u])
  <2>1. CASE u = t
    BY <1>1, <2>1
  <2>2. CASE u # t
    <3>1. mpc'[u] = mpc[u] /\ goal'[u] = goal[u] /\ info'[u] = info[u]
      BY <1>1, <2>2
    <3>2. QED
      BY <3>1 DEF Kinds, RestInv
  <2>3. QED
    BY <2>1, <2>2
<1>3. \A u \in Thread : Kinds(u)' <=> Agree(mpc'[u], goal'[u], info'[u])
  BY DEF Kinds, Agree, MainInfo
<1>4. QED
  BY <1>2, <1>3

LEMMA InCall ==
  ASSUME IndInv, RestInv, NEW t \in Thread
  PROVE  /\ goal = [goal EXCEPT ![t] = goal[t]] /\ info = [info EXCEPT ![t] = info[t]]
         /\ mpc = [mpc EXCEPT ![t] = mpc[t]]
         /\ goal[t] \in Goal /\ info[t] \in KnownInfo /\ mpc[t] \in Places
         /\ Agree(mpc[t], goal[t], info[t])
BY DEF IndInv, CacheInv, RestInv, Kinds

LEMMA ManagerKinds ==
  ASSUME IndInv, RestInv, NEW t \in Thread, ManagerStep(t)
  PROVE  \A u \in Thread : Kinds(u)'
<1>1. /\ goal = [goal EXCEPT ![t] = goal[t]] /\ info = [info EXCEPT ![t] = info[t]]
      /\ mpc = [mpc EXCEPT ![t] = mpc[t]]
      /\ goal[t] \in Goal /\ info[t] \in KnownInfo /\ mpc[t] \in Places
      /\ Agree(mpc[t], goal[t], info[t])
  BY InCall
<1>2. goal[t].kind = "main" => info[t] \in MainInfo
  BY <1>1, Agreed
<1>3. CASE LookupCached(t)
  <2>1. PICK i \in FoundIn(moduleSet, goal[t].of) :
          /\ mpc[t] = "lookup" /\ goal' = goal
          /\ \/ mpc' = [mpc EXCEPT ![t] = "done"] /\ info' = [info EXCEPT ![t] = i]
             \/ mpc' = [mpc EXCEPT ![t] = "maps"] /\ info' = info
    BY <1>3 DEF LookupCached
  <2>2. goal[t].kind # "main"
    BY <1>1, <2>1, Agreed
  <2>3. Agree("done", goal[t], i) /\ Agree("maps", goal[t], info[t])
    BY <2>2, AgreeAnywhere DEF Anywhere
  <2>4. QED
    BY <1>1, <2>1, <2>3, KindsStep
<1>4. CASE SearchByName(t)
  <2>1. goal[t].kind = "name"
    BY <1>1, <1>4 DEF SearchByName, Agree
  <2>2. /\ goal' = goal
        /\ \/ mpc' = [mpc EXCEPT ![t] = "done"] /\ \E i : info' = [info EXCEPT ![t] = i]
           \/ mpc' = [mpc EXCEPT ![t] = "maps"] /\ info' = info
           \/ mpc' = [mpc EXCEPT ![t] = "failed"] /\ info' = info
    <3>1. goal' = goal
      BY <1>4 DEF SearchByName
    <3>2. CASE {i \in moduleSet : i.module = goal[t].of} # {}
      BY <1>4, <3>2 DEF SearchByName
    <3>3. CASE {i \in moduleSet : i.module = goal[t].of} = {}
      <4>1. PICK then \in {"maps", "failed"} : mpc' = [mpc EXCEPT ![t] = then] /\ info' = info
        BY <1>4, <3>3 DEF SearchByName
      <4>2. QED
        BY <3>1, <4>1
    <3>4. QED
      BY <3>1, <3>2, <3>3
  <2>3. \A i : Agree("done", goal[t], i) /\ Agree("maps", goal[t], i) /\ Agree("failed", goal[t], i)
    BY <2>1, AgreeAnywhere DEF Anywhere
  <2>4. QED
    BY <1>1, <2>2, <2>3, KindsStep
<1>5. CASE LookupMain(t)
  <2>1. \A i \in mainModule : i \in MainInfo
    BY DEF RestInv, OneMain
  <2>2. /\ goal' = goal
        /\ \/ /\ mpc' = [mpc EXCEPT ![t] = "done"]
              /\ \E i \in mainModule : info' = [info EXCEPT ![t] = i]
           \/ mpc' = [mpc EXCEPT ![t] = "maps"] /\ info' = info
    BY <1>5 DEF LookupMain
  <2>3. /\ \A i \in mainModule : Agree("done", goal[t], i)
        /\ Agree("maps", goal[t], info[t])
    BY <1>2, <2>1, AgreeAnywhere DEF Anywhere
  <2>4. QED
    BY <1>1, <2>2, <2>3, KindsStep
<1>6. CASE ReadMaps(t) \/ ClearModuleSet(t) \/ SetFoundMain(t) \/ CacheMain(t)
  <2>1. PICK p \in {"failed", "clear", "add", "done"} :
          mpc' = [mpc EXCEPT ![t] = p] /\ UNCHANGED <<goal, info>>
    BY <1>6 DEF ReadMaps, ClearModuleSet, SetFoundMain, CacheMain
  <2>2. Agree(p, goal[t], info[t])
    BY <1>2, <2>1, AgreeAnywhere DEF Anywhere
  <2>3. QED
    BY <1>1, <2>1, <2>2, KindsStep
<1>7. CASE AddModule(t)
  <2>1. PICK m \in maps[t] :
          /\ mpc[t] = "add" /\ UNCHANGED goal
          /\ info' = IF Asked(t, m) THEN [info EXCEPT ![t] = Sized(m)] ELSE info
          /\ mpc' = IF m = Main /\ ArgvIsPath THEN [mpc EXCEPT ![t] = "found"] ELSE mpc
    BY <1>7 DEF AddModule
  <2>2. PICK p \in {"add", "found"} : mpc' = [mpc EXCEPT ![t] = p]
    BY <1>1, <2>1
  <2>3. CASE Asked(t, m)
    <3>1. goal[t].kind = "main" => Sized(m) \in MainInfo
      BY <2>3 DEF Asked, MainInfo
    <3>2. Agree(p, goal[t], Sized(m))
      BY <3>1, AgreeAnywhere DEF Anywhere
    <3>3. QED
      BY <1>1, <2>1, <2>2, <2>3, <3>2, KindsStep
  <2>4. CASE ~ Asked(t, m)
    <3>1. Agree(p, goal[t], info[t])
      BY <1>2, AgreeAnywhere DEF Anywhere
    <3>2. goal' = [goal EXCEPT ![t] = goal[t]] /\ info' = [info EXCEPT ![t] = info[t]]
      BY <1>1, <2>1, <2>4
    <3>3. QED
      BY <2>2, <3>1, <3>2, KindsStep
  <2>5. QED
    BY <2>3, <2>4
<1>8. CASE Refreshed(t)
  <2>1. PICK p :
          /\ mpc' = [mpc EXCEPT ![t] = p] /\ UNCHANGED <<goal, info>>
          /\ p = CASE goal[t].kind = "address" -> IF info[t] = NoInfo THEN "dladdr" ELSE "insert"
                   [] goal[t].kind = "name" -> "search again"
                   [] goal[t].kind = "main" -> "set main"
                   [] goal[t].kind = "list" -> "done"
    BY <1>8 DEF Refreshed
  <2>2. goal[t].kind \in {"address", "name", "main", "list"}
    BY <1>1, Goals
  <2>3. Agree(p, goal[t], info[t])
    <3>1. CASE goal[t].kind = "address"
      <4>1. p \in {"dladdr", "insert"}
        BY <2>1, <3>1
      <4>2. QED
        BY <3>1, <4>1 DEF Agree
    <3>2. CASE goal[t].kind = "name"
      <4>1. p = "search again"
        BY <2>1, <3>2
      <4>2. QED
        BY <3>2, <4>1 DEF Agree
    <3>3. CASE goal[t].kind = "main"
      <4>1. p = "set main"
        BY <2>1, <3>3
      <4>2. QED
        BY <1>2, <3>3, <4>1 DEF Agree
    <3>4. CASE goal[t].kind = "list"
      <4>1. p = "done"
        BY <2>1, <3>4
      <4>2. QED
        BY <3>4, <4>1 DEF Agree
    <3>5. QED
      BY <2>2, <3>1, <3>2, <3>3, <3>4
  <2>4. mpc' = [mpc EXCEPT ![t] = p] /\ UNCHANGED <<goal, info>>
    BY <2>1
  <2>5. QED
    BY <1>1, <2>3, <2>4, KindsStep
<1>9. CASE AskLoader(t)
  <2>1. PICK i :
          /\ mpc[t] = "dladdr" /\ mpc' = [mpc EXCEPT ![t] = "insert"]
          /\ info' = [info EXCEPT ![t] = i] /\ goal' = goal
    BY <1>9 DEF AskLoader
  <2>2. goal[t].kind = "address"
    BY <1>1, <2>1, Agreed
  <2>3. Agree("insert", goal[t], i)
    BY <2>2 DEF Agree
  <2>4. QED
    BY <1>1, <2>1, <2>3, KindsStep
<1>10. CASE InsertFound(t)
  <2>1. PICK i :
          /\ mpc[t] = "insert" /\ mpc' = [mpc EXCEPT ![t] = "done"]
          /\ info' = [info EXCEPT ![t] = i] /\ goal' = goal
    BY <1>10 DEF InsertFound
  <2>2. goal[t].kind = "address"
    BY <1>1, <2>1, Agreed
  <2>3. Agree("done", goal[t], i)
    BY <2>2 DEF Agree
  <2>4. QED
    BY <1>1, <2>1, <2>3, KindsStep
<1>11. QED
  BY <1>3, <1>4, <1>5, <1>6, <1>7, <1>8, <1>9, <1>10 DEF ManagerStep

LEMMA ManagerSets ==
  ASSUME IndInv, RestInv, NEW t \in Thread, ManagerStep(t)
  PROVE  OnePerAddress(moduleSet') /\ OneMain(mainModule')
<1>1. OnePerAddress(moduleSet) /\ OneMain(mainModule)
  BY DEF RestInv
<1>2. \A i \in MainInfo : OneMain(MainSet(i))
  BY <1>1 DEF OneMain, MainSet
<1>3. CASE LookupCached(t) \/ SearchByName(t) \/ LookupMain(t) \/ ReadMaps(t) \/ Refreshed(t)
             \/ AskLoader(t)
  <2>1. UNCHANGED <<moduleSet, mainModule>>
    BY <1>3 DEF LookupCached, SearchByName, LookupMain, ReadMaps, Refreshed, AskLoader, cacheVars
  <2>2. QED
    BY <1>1, <2>1
<1>4. CASE ClearModuleSet(t)
  BY <1>1, <1>4 DEF ClearModuleSet, OnePerAddress
<1>5. CASE AddModule(t)
  <2>1. PICK m \in maps[t] : moduleSet' = Inserted(moduleSet, Sized(m)) /\ mainModule' = mainModule
    BY <1>5 DEF AddModule
  <2>2. QED
    BY <1>1, <2>1, InsertedOnce
<1>9. CASE SetFoundMain(t)
  <2>1. mainModule' = MainSet(Sized(Main)) /\ moduleSet' = moduleSet
    BY <1>9 DEF SetFoundMain
  <2>2. Sized(Main) \in MainInfo
    BY DEF MainInfo
  <2>3. QED
    BY <1>1, <1>2, <2>1, <2>2
<1>6. CASE InsertFound(t)
  BY <1>1, <1>6, InsertedOnce DEF InsertFound
<1>7. CASE CacheMain(t)
  <2>1. mpc[t] = "set main" /\ mainModule' = MainSet(info[t]) /\ moduleSet' = moduleSet
    BY <1>7 DEF CacheMain
  <2>2. info[t] \in MainInfo
    BY <2>1, InCall DEF Agree
  <2>3. QED
    BY <1>1, <1>2, <2>1, <2>2
<1>8. QED
  BY <1>3, <1>4, <1>5, <1>6, <1>7, <1>9 DEF ManagerStep

LEMMA ManagerRest ==
  ASSUME IndInv, RestInv, NEW t \in Thread, ManagerStep(t), UNCHANGED engineVars
  PROVE  RestInv'
<1>1. UNCHANGED <<entries, entry, calls>>
  BY DEF engineVars
<1>2. OnePerAddress(moduleSet)' /\ OneMain(mainModule)'
  BY ManagerSets DEF OnePerAddress, OneMain, MainInfo
<1>3. QED
  BY <1>1, <1>2, ManagerKinds DEF RestInv, Ids

(* In a call of the engine the sets stay as they are.  Its thread is idle in
   the module manager afterwards, or has just asked it. *)
LEMMA EngineRest ==
  ASSUME IndInv, RestInv, NEW t \in Thread, NEW p, NEW g, NEW i, NEW n, NEW e \in Nat,
         mpc' = [mpc EXCEPT ![t] = p], goal' = [goal EXCEPT ![t] = g],
         info' = [info EXCEPT ![t] = i], entry' = [entry EXCEPT ![t] = n],
         Agree(p, g, i), Len(entries') = e, Len(entries) <= e, n \in 0 .. e,
         calls' \in [Thread -> 0 .. MaxCalls], UNCHANGED <<moduleSet, mainModule>>
  PROVE  RestInv'
<1>1. \A u \in Thread : Kinds(u)'
  BY KindsStep
<1>2. entry \in [Thread -> Nat] /\ Len(entries) \in Nat
  BY DEF IndInv, EngineInv, EngineTypes
<1>3. Ids \cup {0} \subseteq 0 .. e /\ (Ids \cup {0})' = 0 .. e
  BY <1>2 DEF Ids
<1>4. \A u \in Thread : entry'[u] \in (Ids \cup {0})'
  BY <1>2, <1>3 DEF RestInv
<1>5. OnePerAddress(moduleSet)' /\ OneMain(mainModule)'
  BY DEF RestInv, OnePerAddress, OneMain, MainInfo
<1>6. QED
  BY <1>1, <1>4, <1>5 DEF RestInv

(* The calls of the engine. *)
LEMMA CallsGrow ==
  ASSUME RestInv, NEW t \in Thread, Call(t)
  PROVE  calls' \in [Thread -> 0 .. MaxCalls]
<1>1. calls \in [Thread -> 0 .. MaxCalls] /\ MaxCalls \in Nat
  BY MaxCallsAssumption DEF RestInv
<1>2. QED
  BY <1>1 DEF Call

LEMMA EntryBefore ==
  ASSUME IndInv, RestInv, NEW t \in Thread
  PROVE  /\ entry = [entry EXCEPT ![t] = entry[t]] /\ Len(entries) \in Nat
         /\ entry[t] \in 0 .. Len(entries) /\ 0 \in 0 .. Len(entries)
         /\ calls \in [Thread -> 0 .. MaxCalls]
<1>1. entry \in [Thread -> Nat] /\ Len(entries) \in Nat
  BY DEF IndInv, EngineInv, EngineTypes
<1>2. entry[t] \in Ids \cup {0}
  BY DEF RestInv
<1>3. QED
  BY <1>1, <1>2 DEF Ids, RestInv

LEMMA AsksAgree ==
  ASSUME NEW g \in Goal
  PROVE  Agree(FirstStep(g), g, NoInfo)
<1>1. g.kind \in {"address", "name", "main", "list"}
  BY Goals
<1>2. NoInfo \in MainInfo
  BY DEF MainInfo
<1>3. CASE g.kind = "address"
  BY <1>2, <1>3 DEF Agree, FirstStep
<1>4. CASE g.kind = "name"
  BY <1>2, <1>4 DEF Agree, FirstStep
<1>5. CASE g.kind = "main"
  BY <1>2, <1>5 DEF Agree, FirstStep
<1>6. CASE g.kind = "list"
  BY <1>2, <1>6 DEF Agree, FirstStep
<1>7. QED
  BY <1>1, <1>3, <1>4, <1>5, <1>6

LEMMA Settles ==
  ASSUME IndInv, RestInv, NEW t \in Thread, NEW p, NEW g, NEW i, NEW n \in 0 .. Len(entries),
         mpc' = [mpc EXCEPT ![t] = p], goal' = [goal EXCEPT ![t] = g],
         info' = [info EXCEPT ![t] = i], entry' = [entry EXCEPT ![t] = n],
         Agree(p, g, i), Len(entries') = Len(entries),
         calls' \in [Thread -> 0 .. MaxCalls], UNCHANGED <<moduleSet, mainModule>>
  PROVE  RestInv'
<1>1. Len(entries) \in Nat /\ Len(entries) <= Len(entries)
  BY EntryBefore
<1>2. QED
  BY <1>1, EngineRest

(* A thread that was idle in the module manager, or had its answer, and keeps
   what it asked for and got. *)
LEMMA IdleAgrees ==
  ASSUME IndInv, RestInv, NEW t \in Thread
  PROVE  Agree("idle", goal[t], info[t])
BY InCall, Agreed, AgreeAnywhere DEF Anywhere

LEMMA NothingAgrees ==
  /\ \A p \in Anywhere : Agree(p, TheList, NoInfo)
  /\ TheList.kind # "main"
<1>1. TheList.kind # "main"
  BY DEF TheList
<1>2. QED
  BY <1>1, AgreeAnywhere

LEMMA StartLookupRest ==
  ASSUME IndInv, RestInv, NEW t \in Thread, NEW a \in Address, StartLookup(t, a)
  PROVE  RestInv'
<1>1. calls' \in [Thread -> 0 .. MaxCalls]
  BY CallsGrow DEF StartLookup
<1>2. UNCHANGED <<entries, moduleSet, mainModule>>
  BY DEF StartLookup, Ask, cacheVars
<1>3. ByAddress(a) \in Goal /\ ByAddress(a).kind = "address"
  BY DEF Goal, ByAddress
<1>4. mpc[t] = "idle" /\ info[t] = NoInfo
  BY Kept DEF StartLookup, Call, Where
<1>5. PICK e \in FoundEntries(a) :
        IF e # 0
          THEN /\ entry' = [entry EXCEPT ![t] = e]
               /\ goal' = [goal EXCEPT ![t] = ByAddress(a)]
               /\ UNCHANGED <<mpc, info>>
          ELSE Ask(t, ByAddress(a)) /\ UNCHANGED entry
  BY DEF StartLookup
<1>6. CASE e # 0
  <2>1. e \in 0 .. Len(entries)
    BY <1>5, <1>6, EntryBefore DEF FoundEntries, Ids
  <2>2. /\ mpc' = [mpc EXCEPT ![t] = "idle"] /\ goal' = [goal EXCEPT ![t] = ByAddress(a)]
        /\ info' = [info EXCEPT ![t] = NoInfo] /\ entry' = [entry EXCEPT ![t] = e]
    BY <1>4, <1>5, <1>6, InCall
  <2>3. Agree("idle", ByAddress(a), NoInfo)
    BY <1>3, AgreeAnywhere DEF Anywhere
  <2>4. QED
    BY <1>1, <1>2, <2>1, <2>2, <2>3, Settles
<1>7. CASE e = 0
  <2>1. /\ mpc' = [mpc EXCEPT ![t] = FirstStep(ByAddress(a))]
        /\ goal' = [goal EXCEPT ![t] = ByAddress(a)] /\ info' = [info EXCEPT ![t] = NoInfo]
        /\ entry' = [entry EXCEPT ![t] = entry[t]]
    BY <1>5, <1>7, EntryBefore DEF Ask
  <2>2. Agree(FirstStep(ByAddress(a)), ByAddress(a), NoInfo) /\ entry[t] \in 0 .. Len(entries)
    BY <1>3, AsksAgree, EntryBefore
  <2>3. QED
    BY <1>1, <1>2, <2>1, <2>2, Settles
<1>8. QED
  BY <1>6, <1>7

LEMMA AsksRest ==
  ASSUME IndInv, RestInv, NEW t \in Thread, NEW g \in Goal, Call(t), Ask(t, g),
         UNCHANGED <<entries, entry>>
  PROVE  RestInv'
<1>1. calls' \in [Thread -> 0 .. MaxCalls]
  BY CallsGrow
<1>2. /\ mpc' = [mpc EXCEPT ![t] = FirstStep(g)] /\ goal' = [goal EXCEPT ![t] = g]
      /\ info' = [info EXCEPT ![t] = NoInfo] /\ entry' = [entry EXCEPT ![t] = entry[t]]
      /\ UNCHANGED <<moduleSet, mainModule>>
  BY EntryBefore DEF Ask, cacheVars
<1>3. Agree(FirstStep(g), g, NoInfo) /\ entry[t] \in 0 .. Len(entries)
  BY AsksAgree, EntryBefore
<1>4. QED
  BY <1>1, <1>2, <1>3, Settles

(* Calls that forget what they asked for, or keep it. *)
LEMMA AnswersRest ==
  ASSUME IndInv, RestInv, NEW t \in Thread,
         mpc' = [mpc EXCEPT ![t] = "idle"],
         Forgets(t) \/ UNCHANGED <<goal, info>>,
         UNCHANGED <<entries, entry, calls, moduleSet, mainModule>>
  PROVE  RestInv'
<1>1. PICK g, i : /\ goal' = [goal EXCEPT ![t] = g] /\ info' = [info EXCEPT ![t] = i]
                  /\ Agree("idle", g, i)
  <2>1. CASE Forgets(t)
    BY <2>1, NothingAgrees DEF Forgets, Anywhere
  <2>2. CASE UNCHANGED <<goal, info>>
    BY <2>2, InCall, IdleAgrees
  <2>3. QED
    BY <2>1, <2>2
<1>2. entry' = [entry EXCEPT ![t] = entry[t]] /\ entry[t] \in 0 .. Len(entries)
      /\ calls' \in [Thread -> 0 .. MaxCalls]
  BY EntryBefore
<1>3. QED
  BY <1>1, <1>2, Settles

(* Steps of a thread that is idle in the module manager, and keeps its goal;
   it may look at another module, as a traversal does. *)
LEMMA MovesRest ==
  ASSUME IndInv, RestInv, NEW t \in Thread, NEW i, NEW n \in 0 .. Len(entries),
         info' = [info EXCEPT ![t] = i], goal[t].kind = "main" => i \in MainInfo,
         entry' = [entry EXCEPT ![t] = n], Len(entries') = Len(entries), mpc[t] = "idle",
         UNCHANGED <<mpc, goal, calls, moduleSet, mainModule>>
  PROVE  RestInv'
<1>1. mpc' = [mpc EXCEPT ![t] = "idle"] /\ goal' = [goal EXCEPT ![t] = goal[t]]
  BY InCall
<1>2. Agree("idle", goal[t], i) /\ calls' \in [Thread -> 0 .. MaxCalls]
  BY AgreeAnywhere, EntryBefore DEF Anywhere
<1>3. QED
  BY <1>1, <1>2, Settles

LEMMA EnterRest ==
  ASSUME IndInv, RestInv, NEW t \in Thread, EnterSymbolModule(t)
  PROVE  RestInv'
<1>1. /\ epc[t] = "enter" /\ UNCHANGED <<mpc, goal, info, calls, moduleSet, mainModule>>
  BY DEF EnterSymbolModule, cacheModuleVars, cacheVars, callVars
<1>2. PICK e \in FoundEntries(SearchKey(t)) :
        IF e # 0 THEN entry' = [entry EXCEPT ![t] = e] /\ UNCHANGED entries
        ELSE /\ entries' = Append(entries, [info |-> info[t], ready |-> FALSE])
             /\ entry' = [entry EXCEPT ![t] = Len(entries) + 1]
  BY DEF EnterSymbolModule, EntriesAgain
<1>3. mpc[t] = "idle" /\ info' = [info EXCEPT ![t] = info[t]]
  BY <1>1, Kept DEF Where
<1>4. goal[t].kind = "main" => info[t] \in MainInfo
  BY InCall, Agreed
<1>5. CASE e # 0
  <2>1. e \in 0 .. Len(entries) /\ Len(entries') = Len(entries)
    BY <1>2, <1>5, EntryBefore DEF FoundEntries, Ids
  <2>2. QED
    BY <1>1, <1>2, <1>3, <1>4, <1>5, <2>1, MovesRest
<1>6. CASE e = 0
  <2>1. PICK n \in Nat : n = Len(entries)
    BY EntryBefore
  <2>2. Len(entries') = n + 1
    <3>1. entries \in Seq([info : Info, ready : BOOLEAN])
      BY DEF IndInv, EngineInv, EngineTypes
    <3>2. entries' = Append(entries, [info |-> info[t], ready |-> FALSE])
      BY <1>2, <1>6
    <3> DEFINE E == [info : Info, ready : BOOLEAN]
               r == [info |-> info[t], ready |-> FALSE]
    <3>3. r \in E
      <4>1. info[t] \in Info
        BY InCall DEF KnownInfo
      <4>2. QED
        BY <4>1
    <3>4. entries \in Seq(E) /\ entries' = Append(entries, r)
      BY <3>1, <3>2
    <3> HIDE DEF E, r
    <3>5. QED
      BY <2>1, <3>3, <3>4
  <2>3. n <= n + 1 /\ n + 1 \in 0 .. n + 1 /\ n + 1 \in Nat
    BY <2>1
  <2>4. /\ mpc' = [mpc EXCEPT ![t] = "idle"] /\ goal' = [goal EXCEPT ![t] = goal[t]]
        /\ entry' = [entry EXCEPT ![t] = n + 1] /\ calls' \in [Thread -> 0 .. MaxCalls]
    BY <1>1, <1>2, <1>3, <1>6, <2>1, InCall, EntryBefore
  <2>5. Agree("idle", goal[t], info[t])
    BY IdleAgrees
  <2>6. UNCHANGED <<moduleSet, mainModule>>
    BY <1>1
  <2>7. QED
    BY <1>3, <2>1, <2>2, <2>3, <2>4, <2>5, <2>6, EngineRest
<1>7. QED
  BY <1>5, <1>6

LEMMA EngineStepRest ==
  ASSUME IndInv, RestInv, NEW t \in Thread, EngineStep(t)
  PROVE  RestInv'
<1>1. CASE ModuleAnswered(t) \/ AnsweredDirectly(t) \/ BeginTraversal(t)
  <2>1. /\ mpc' = [mpc EXCEPT ![t] = "idle"]
        /\ Forgets(t) \/ UNCHANGED <<goal, info>>
        /\ UNCHANGED <<entries, entry, calls, moduleSet, mainModule>>
    BY <1>1 DEF ModuleAnswered, AnsweredDirectly, BeginTraversal, Answered, cacheVars
  <2>2. QED
    BY <2>1, AnswersRest
<1>2. CASE EnterSymbolModule(t)
  BY <1>2, EnterRest
<1>3. CASE PrepareModule(t) \/ WaitReady(t)
  <2>1. /\ epc[t] \in {"prepare", "wait"}
        /\ UNCHANGED <<entry, mpc, goal, info, calls, moduleSet, mainModule>>
    BY <1>3 DEF PrepareModule, WaitReady, cacheModuleVars, cacheVars, callVars
  <2>2. Len(entries') = Len(entries)
    <3>1. CASE WaitReady(t)
      BY <3>1 DEF WaitReady
    <3>2. CASE PrepareModule(t)
      <4>1. PICK r : entries' = [entries EXCEPT ![entry[t]].ready = r]
        BY <3>2 DEF PrepareModule
      <4>2. entries \in Seq([info : Info, ready : BOOLEAN])
        BY DEF IndInv, EngineInv, EngineTypes
      <4>3. QED
        BY <4>1, <4>2
    <3>3. QED
      BY <1>3, <3>1, <3>2
  <2>3. /\ entry' = [entry EXCEPT ![t] = entry[t]] /\ info' = [info EXCEPT ![t] = info[t]]
        /\ entry[t] \in 0 .. Len(entries)
    BY <2>1, EntryBefore, InCall
  <2>4. mpc[t] = "idle"
    BY <2>1, Kept DEF Where
  <2>5. goal[t].kind = "main" => info[t] \in MainInfo
    BY InCall, Agreed
  <2>6. QED
    BY <2>1, <2>2, <2>3, <2>4, <2>5, MovesRest
<1>4. CASE CollectSymbolInfo(t) \/ EndTraversal(t)
  <2>1. /\ epc[t] \in {"collect", "traverse"} /\ Forgets(t)
        /\ UNCHANGED <<mpc, entries, calls, moduleSet, mainModule>>
        /\ entry' = [entry EXCEPT ![t] = 0] \/ UNCHANGED entry
    BY <1>4 DEF CollectSymbolInfo, EndTraversal, cacheVars
  <2>2. mpc[t] = "idle"
    BY <2>1, Kept DEF Where
  <2>3. PICK n \in 0 .. Len(entries) : entry' = [entry EXCEPT ![t] = n]
    BY <2>1, EntryBefore
  <2>4. /\ mpc' = [mpc EXCEPT ![t] = "idle"] /\ calls' \in [Thread -> 0 .. MaxCalls]
        /\ goal' = [goal EXCEPT ![t] = TheList] /\ info' = [info EXCEPT ![t] = NoInfo]
        /\ Agree("idle", TheList, NoInfo)
    BY <2>1, <2>2, InCall, EntryBefore, NothingAgrees DEF Forgets, Anywhere
  <2>5. Len(entries') = Len(entries) /\ UNCHANGED <<moduleSet, mainModule>>
    BY <2>1
  <2>6. QED
    BY <2>3, <2>4, <2>5, Settles
<1>5. CASE VisitModule(t)
  <2>1. PICK i \in todo[t] :
          /\ epc[t] = "traverse" /\ info' = [info EXCEPT ![t] = i]
          /\ UNCHANGED <<mpc, goal, entries, entry, calls, moduleSet, mainModule>>
    BY <1>5 DEF VisitModule, cacheVars
  <2>2. mpc[t] = "idle" /\ goal[t].kind = "list"
    BY <2>1, Kept DEF Where
  <2>3. entry' = [entry EXCEPT ![t] = entry[t]] /\ entry[t] \in 0 .. Len(entries)
    BY <2>1, EntryBefore
  <2>4. QED
    BY <2>1, <2>2, <2>3, MovesRest
<1>6. CASE VisitSymbolsOf(t)
  <2>1. /\ epc[t] = "collect" /\ entry' = [entry EXCEPT ![t] = 0]
        /\ UNCHANGED <<mpc, goal, info, entries, calls, moduleSet, mainModule>>
    BY <1>6 DEF VisitSymbolsOf, cacheModuleVars, cacheVars, callVars
  <2>2. mpc[t] = "idle"
    BY <2>1, Kept DEF Where
  <2>3. /\ info' = [info EXCEPT ![t] = info[t]] /\ 0 \in 0 .. Len(entries)
        /\ goal[t].kind = "main" => info[t] \in MainInfo
    BY <2>1, InCall, Agreed, EntryBefore
  <2>4. QED
    BY <2>1, <2>2, <2>3, MovesRest
<1>7. QED
  BY <1>1, <1>2, <1>3, <1>4, <1>5, <1>6 DEF EngineStep

LEMMA RestStays ==
  ASSUME IndInv, RestInv,
         UNCHANGED <<moduleSet, mainModule, mpc, goal, info, entries, entry, calls>>
  PROVE  RestInv'
BY DEF RestInv, OnePerAddress, OneMain, Kinds, Agree, MainInfo, Ids

LEMMA InitRest == Init => RestInv
<1> SUFFICES ASSUME Init PROVE RestInv
  OBVIOUS
<1>1. OnePerAddress(moduleSet) /\ OneMain(mainModule)
  BY DEF Init, CacheInit, OnePerAddress, OneMain
<1>2. \A t \in Thread : mpc[t] = "idle" /\ goal[t] = TheList /\ info[t] = NoInfo /\ entry[t] = 0
  BY DEF Init, CacheInit
<1>3. \A t \in Thread : Kinds(t)
  BY <1>2, NothingAgrees DEF Kinds, Anywhere
<1>4. calls \in [Thread -> 0 .. MaxCalls]
  BY MaxCallsAssumption DEF Init
<1>5. QED
  BY <1>1, <1>2, <1>3, <1>4 DEF RestInv

LEMMA NextRest == IndInv /\ RestInv /\ [Next]_vars => RestInv'
<1> SUFFICES ASSUME IndInv, RestInv, [Next]_vars PROVE RestInv'
  OBVIOUS
<1>1. CASE UNCHANGED vars
  <2>1. UNCHANGED <<moduleSet, mainModule, mpc, goal, info, entries, entry, calls>>
    BY <1>1 DEF vars, cacheModuleVars, cacheVars, callVars, engineVars
  <2>2. QED
    BY <2>1, RestStays
<1>2. ASSUME NEW m \in Module, (Load(m) \/ Unload(m)) /\ UNCHANGED engineVars
      PROVE  RestInv'
  <2>1. UNCHANGED <<moduleSet, mainModule, mpc, goal, info, entries, entry, calls>>
    BY <1>2 DEF Load, Unload, cacheVars, callVars, engineVars
  <2>2. QED
    BY <2>1, RestStays
<1>3. ASSUME NEW t \in Thread, NEW a \in Address, StartLookup(t, a)
      PROVE  RestInv'
  BY <1>3, StartLookupRest
<1>4. ASSUME NEW t \in Thread, StartVisit(t)
      PROVE  RestInv'
  BY <1>4, ListGoal, AsksRest DEF StartVisit
<1>5. ASSUME NEW t \in Thread, NEW g \in DirectGoals, AskDirectly(t, g)
      PROVE  RestInv'
  BY <1>5, DirectGoalsAssumption, AsksRest DEF AskDirectly
<1>6. ASSUME NEW t \in Thread, ManagerStep(t) /\ UNCHANGED engineVars
      PROVE  RestInv'
  BY <1>6, ManagerRest
<1>7. ASSUME NEW t \in Thread, EngineStep(t)
      PROVE  RestInv'
  BY <1>7, EngineStepRest
<1>8. QED
  BY <1>1, <1>2, <1>3, <1>4, <1>5, <1>6, <1>7 DEF Next, ThreadStep

(* Every variable of the module manager and of the symbol engine is of its
   type: no two infos of the module set have one load address, however many
   threads refresh it at once, the main module that is cached is that of the
   process or an empty one, and no thread uses an entry that is not there
   (addModule, setMainModule, getSymbolModule). *)
THEOREM EngineTypeCorrect == Spec => []TypeOK
<1>1. IndInv /\ RestInv => TypeOK
  <2> SUFFICES ASSUME IndInv, RestInv PROVE TypeOK
    OBVIOUS
  <2>1. mainModule \in SUBSET {NoInfo, Sized(Main)} /\ Cardinality(mainModule) <= 1
    <3>1. CASE mainModule = {}
      BY <3>1, FS_EmptySet
    <3>2. CASE \E i \in MainInfo : mainModule = {i}
      BY <3>2, FS_Singleton DEF MainInfo
    <3>3. QED
      BY <3>1, <3>2 DEF RestInv, OneMain
  <2>2. \A i, j \in moduleSet : LoadAddress(i) = LoadAddress(j) => i = j
    BY DEF RestInv, OnePerAddress
  <2>3. maps \in [Thread -> SUBSET Module]
    BY DEF IndInv, CacheInv
  <2>4. moduleSet \subseteq Info /\ info \in [Thread -> Info]
    BY DEF IndInv, CacheInv, KnownInfo
  <2>5. CacheTypeOK
    BY <2>1, <2>2, <2>3, <2>4 DEF CacheTypeOK, IndInv, CacheInv, Places
  <2>6. /\ entries \in Seq([info : Info, ready : BOOLEAN])
        /\ epc \in [Thread -> Steps] /\ todo \in [Thread -> SUBSET Info]
        /\ \A t \in Thread : entry[t] \in Ids \cup {0}
        /\ calls \in [Thread -> 0 .. MaxCalls]
    BY DEF IndInv, EngineInv, EngineTypes, RestInv
  <2>7. QED
    BY <2>5, <2>6 DEF TypeOK, Steps
<1>2. QED
  BY <1>1, InitRest, NextRest, InitInv, NextInv, PTL DEF Spec

-----------------------------------------------------------------------------
(* The debug information.  Every range in the tree is that of a record which
   has been taken, with the unit of the set it is in, and a record which has
   been taken left its range in the tree, or found one there that begins at
   the same address.  All are taken until one is past the end of its set, and
   then the open fails. *)
Entry(i) == [from |-> Aranges[i].from, size |-> Aranges[i].size, unit |-> UnitOf(i)]

Closed == {"ready", "unit", "attributes", "program", "matrix", "lost"}
Walks == {"new", "sets", "ranges", "failed", "astray"} \cup Closed

(* The set that is being read, at k. *)
Heads(k, i) ==
  /\ k \in 1 .. i /\ Aranges[k].kind = "set"
  /\ \A j \in k + 1 .. i : Aranges[j].kind = "range"

RangesInv ==
  /\ dwarf \in Infos /\ pc \in Walks
  /\ at \in Nat \ {0} /\ at <= Len(Aranges) + 1 /\ limit \in Nat
  /\ \A q \in ranges : \E i \in Taken : q = Entry(i)
  /\ \A i \in Taken : \E q \in ranges : q.from = Aranges[i].from
  /\ pc \in {"new", "sets", "ranges"} => \A i \in RangeRecords : i < at => i <= limit
  /\ pc = "ranges" => \E k \in 1 .. at - 1 : Heads(k, at - 1) /\ unit = Aranges[k].offset
  /\ valid => at = Len(Aranges) + 1 /\ \A i \in RangeRecords : i <= limit

(* The attributes of a unit are read one after the other, and the cells of
   those that have one with them, so that what has been read of each is always
   as far. *)
InUnit == {"unit", "attributes", "program", "matrix", "lost"}
Current == dwarf.info[unit]
Followed == Current.addressSize = 8 /\ ~ByIndex(Current)

ReadUpTo(n, as, cs, named) ==
  /\ attrs = SubSeq(as, n + 1, Len(as))
  /\ cells = SubSeq(cs, CellOf(as, n + 1), Len(cs))
  /\ stmt = IF \E k \in 1 .. n : as[k].name = "stmt_list" THEN named ELSE 0

Progress ==
  LET as == Declaration(Current).attrs IN
  \E n \in 0 .. Len(as) : ReadUpTo(n, as, Current.cells, NamedProgram(Current))

ProgramInv ==
  /\ pc \in InUnit \cup {"ranges"} => unit \in DOMAIN dwarf.info
  /\ \A q \in ranges : q.unit \in DOMAIN dwarf.info
  /\ pc \in Walks \ {"attributes", "program", "matrix", "lost"} => stmt = 0
  /\ pc = "attributes" => Declaration(Current).code = Current.code
  /\ pc = "attributes" /\ Followed => Progress
  /\ pc \in {"program", "matrix", "lost"} /\ Followed =>
       header # NoLines /\ stmt = NamedProgram(Current)

LEMMA SameRecords ==
  ASSUME dwarf' = dwarf
  PROVE  /\ Aranges' = Aranges /\ RangeRecords' = RangeRecords
         /\ \A i : UnitOf(i)' = UnitOf(i)
         /\ \A i : Entry(i)' = Entry(i)
         /\ \A k, i : Heads(k, i)' <=> Heads(k, i)
<1>1. Aranges' = Aranges
  BY DEF Aranges
<1>2. RangeRecords' = RangeRecords
  BY <1>1 DEF RangeRecords
<1>3. \A i : UnitOf(i)' = UnitOf(i)
  BY <1>1 DEF UnitOf
<1>4. \A i : Entry(i)' = Entry(i)
  BY <1>1, <1>3 DEF Entry
<1>5. \A k, i : Heads(k, i)' <=> Heads(k, i)
  BY <1>1 DEF Heads
<1>6. QED
  BY <1>1, <1>2, <1>3, <1>4, <1>5

(* A module's records, as they are assumed to be. *)
LEMMA Records ==
  ASSUME dwarf \in Infos
  PROVE  /\ Len(Aranges) \in Nat /\ DOMAIN Aranges = 1 .. Len(Aranges)
         /\ RangeRecords \subseteq 1 .. Len(Aranges)
         /\ \A i \in RangeRecords : Aranges[i].from \in Nat /\ Aranges[i].size \in Nat
         /\ \A i \in 1 .. Len(Aranges) :
              Aranges[i].kind = "set" =>
                Aranges[i].offset \in DOMAIN dwarf.info /\ Aranges[i].count \in Nat
<1>1. ArangesSound(Aranges, dwarf.info)
  BY InfosAssumption DEF Aranges
<1>2. PICK T : Aranges \in Seq(T)
  BY <1>1 DEF ArangesSound
<1>3. Len(Aranges) \in Nat /\ DOMAIN Aranges = 1 .. Len(Aranges)
  BY <1>2
<1>4. QED
  BY <1>1, <1>3 DEF ArangesSound, RangeRecords

(* The unit of a range is that of the set which is being read. *)
LEMMA UnitOfHead ==
  ASSUME NEW i \in Nat, NEW k \in Nat, Heads(k, i)
  PROVE  UnitOf(i) = Aranges[k].offset
<1> DEFINE P(c) == Aranges[c].kind = "set" /\ \A j \in c + 1 .. i : Aranges[j].kind = "range"
<1>1. k \in 1 .. i /\ P(k)
  BY DEF Heads
<1>2. PICK c : c = CHOOSE l \in 1 .. i : P(l)
  OBVIOUS
<1>3. c \in 1 .. i /\ P(c)
  BY <1>1, <1>2
<1>4. ~ (c < k) /\ ~ (k < c)
  BY <1>1, <1>3
<1>5. c = k
  BY <1>1, <1>3, <1>4
<1>6. QED
  BY <1>2, <1>5 DEF UnitOf

LEMMA RangesInit ==
  ASSUME DwarfInit
  PROVE  RangesInv
<1>1. /\ dwarf \in Infos /\ pc = "new" /\ at = 1 /\ ranges = {} /\ limit = 0 /\ valid = FALSE
  BY DEF DwarfInit
<1>2. /\ Len(Aranges) \in Nat /\ RangeRecords \subseteq 1 .. Len(Aranges)
  BY <1>1, Records
<1>3. \A i \in RangeRecords : ~ (i < 1)
  BY <1>2
<1>4. Taken = {}
  BY <1>1, <1>3 DEF Taken
<1>5. QED
  BY <1>1, <1>2, <1>3, <1>4 DEF RangesInv, Walks, Closed

(* A set begins past all the records that were taken, and so does its limit. *)
LEMMA SetRead ==
  ASSUME RangesInv, ReadSet
  PROVE  RangesInv'
<1>1. /\ pc = "sets" /\ at <= Len(Aranges) /\ Aranges[at].kind = "set" /\ at' = at + 1
      /\ \/ pc' = "failed" /\ limit' = limit
         \/ pc' = "ranges" /\ limit' = at + Aranges[at].count
      /\ unit' = Aranges[at].offset /\ dwarf' = dwarf /\ ranges' = ranges /\ valid' = valid
  BY DEF ReadSet, Stop
<1>2. dwarf \in Infos /\ at \in Nat \ {0} /\ limit \in Nat
  BY DEF RangesInv
<1>3. /\ Len(Aranges) \in Nat /\ RangeRecords \subseteq 1 .. Len(Aranges)
      /\ at \in 1 .. Len(Aranges) /\ at \notin RangeRecords /\ Aranges[at].count \in Nat
  <2>1. Len(Aranges) \in Nat /\ RangeRecords \subseteq 1 .. Len(Aranges)
    BY <1>2, Records
  <2>2. at \in 1 .. Len(Aranges)
    BY <1>1, <1>2, <2>1
  <2>3. at \notin RangeRecords
    BY <1>1 DEF RangeRecords
  <2>4. QED
    BY <1>1, <1>2, <2>1, <2>2, <2>3, Records
<1>4. \A i \in RangeRecords : i < at => i <= limit
  BY <1>1 DEF RangesInv
<1>5. \A i \in RangeRecords : i < at + 1 => i < at /\ i <= limit'
  BY <1>1, <1>2, <1>3, <1>4
<1>6. Taken' = Taken
  <2>1. \A i \in RangeRecords : i < at + 1 /\ i <= limit' <=> i < at /\ i <= limit
    BY <1>2, <1>3, <1>4, <1>5
  <2>2. Taken' = {i \in RangeRecords : i < at + 1 /\ i <= limit'}
    BY <1>1, SameRecords DEF Taken
  <2>3. QED
    BY <2>1, <2>2 DEF Taken
<1>7. PICK n : n = at
  OBVIOUS
<1>8. Heads(n, n) /\ Aranges[n].offset = unit'
  BY <1>1, <1>2, <1>7 DEF Heads
<1>9. Heads(n, n)' /\ unit' = Aranges'[n].offset
  BY <1>1, <1>8, SameRecords
<1>10. \A q \in ranges' : \E i \in Taken' : q = Entry(i)'
  BY <1>1, <1>6, SameRecords DEF RangesInv
<1>11. \A i \in Taken' : \E q \in ranges' : q.from = Aranges'[i].from
  BY <1>1, <1>6, SameRecords DEF RangesInv
<1>12. at' \in Nat \ {0} /\ at' <= Len(Aranges') + 1 /\ limit' \in Nat
  BY <1>1, <1>2, <1>3, SameRecords
<1>13. \E k \in 1 .. at' - 1 : Heads(k, at - 1)' /\ unit' = Aranges'[k].offset
  <2>1. at' - 1 = n /\ n \in 1 .. at' - 1
    BY <1>1, <1>2, <1>7
  <2>2. QED
    BY <1>9, <2>1
<1>14. \A i \in RangeRecords' : i < at' => i <= limit'
  BY <1>1, <1>5, SameRecords
<1>15. ~valid'
  <2>1. valid => at = Len(Aranges) + 1
    BY DEF RangesInv
  <2>2. QED
    BY <1>1, <1>2, <1>3, <2>1
<1>16. QED
  BY <1>1, <1>2, <1>10, <1>11, <1>12, <1>13, <1>14, <1>15 DEF RangesInv, Walks, Closed

(* A record of a range is taken unless it is past the limit of its set. *)
LEMMA RangeRead ==
  ASSUME RangesInv, ReadRange
  PROVE  RangesInv'
<1>1. PICK n, r, e :
        /\ n = at /\ r = Aranges[at] /\ e = [from |-> r.from, size |-> r.size, unit |-> unit]
  OBVIOUS
<1>2. /\ pc = "ranges" /\ n <= Len(Aranges) /\ r.kind = "range" /\ at' = n + 1
      /\ dwarf' = dwarf /\ unit' = unit /\ limit' = limit /\ valid' = valid
      /\ \/ pc' = "failed" /\ ranges' = ranges /\ (n > limit \/ r.from = 0)
         \/ pc' = "sets" /\ ranges' = ranges /\ r.from = 0 /\ n = limit
         \/ /\ pc' = "ranges" /\ n <= limit
            /\ ranges' = IF r.from = 0 THEN ranges ELSE Added(e)
  BY <1>1 DEF ReadRange, Stop, unitVars
<1>3. dwarf \in Infos /\ n \in Nat \ {0} /\ limit \in Nat
  BY <1>1 DEF RangesInv
<1>4. Len(Aranges) \in Nat /\ DOMAIN Aranges = 1 .. Len(Aranges)
  BY <1>3, Records
<1> DEFINE New == r.from # 0 /\ n <= limit
<1>5. n > limit => ~ (n <= limit)
  BY <1>3
<1>6. Taken' = IF New THEN Taken \cup {n} ELSE Taken
  <2>1. n \in RangeRecords <=> r.from # 0
    BY <1>1, <1>2, <1>3, <1>4 DEF RangeRecords
  <2>2. RangeRecords \subseteq Nat
    BY <1>4 DEF RangeRecords
  <2>3. \A i \in Nat : i < n + 1 <=> i < n \/ i = n
    BY <1>3
  <2>4. QED
    BY <1>1, <1>2, <2>1, <2>2, <2>3, SameRecords DEF Taken
<1>7. /\ pc' = "ranges" /\ New => ranges' = Added(e)
      /\ New => pc' = "ranges"
      /\ ~New => ranges' = ranges
  BY <1>2, <1>5
<1>8. PICK k \in 1 .. n - 1 : Heads(k, n - 1) /\ unit = Aranges[k].offset
  BY <1>1, <1>2 DEF RangesInv
<1>9. k \in Nat /\ k \in 1 .. n /\ Heads(k, n)
  <2>1. \A j \in k + 1 .. n : j \in k + 1 .. n - 1 \/ j = n
    BY <1>3
  <2>2. \A j \in k + 1 .. n : Aranges[j].kind = "range"
    BY <1>1, <1>2, <1>8, <2>1 DEF Heads
  <2>3. k \in 1 .. n
    BY <1>3
  <2>4. QED
    BY <1>8, <2>2, <2>3 DEF Heads
<1>10. e = Entry(n)
  BY <1>1, <1>3, <1>8, <1>9, UnitOfHead DEF Entry
<1>11. \A q \in ranges' : \E i \in Taken' : q = Entry(i)'
  <2>1. \A q \in ranges' : q \in ranges \/ (q = e /\ New)
    BY <1>7 DEF Added
  <2>2. QED
    BY <1>2, <1>6, <1>10, <2>1, SameRecords DEF RangesInv
<1>12. \A i \in Taken' : \E q \in ranges' : q.from = Aranges'[i].from
  <2>1. ranges \subseteq ranges'
    BY <1>7 DEF Added
  <2>2. New => \E q \in ranges' : q.from = r.from
    BY <1>1, <1>7 DEF Added
  <2>3. QED
    BY <1>1, <1>2, <1>6, <2>1, <2>2, SameRecords DEF RangesInv
<1>13. at' \in Nat \ {0} /\ at' <= Len(Aranges') + 1 /\ limit' \in Nat
  BY <1>2, <1>3, <1>4, SameRecords
<1>14. pc' \in {"sets", "ranges"} => \A i \in RangeRecords' : i < at' => i <= limit'
  <2>1. \A i \in RangeRecords : i < n => i <= limit
    BY <1>1, <1>2 DEF RangesInv
  <2>2. RangeRecords \subseteq Nat
    BY <1>4 DEF RangeRecords
  <2>3. pc' \in {"sets", "ranges"} => n <= limit
    BY <1>2, <1>3
  <2>4. \A i \in Nat : i < n + 1 => i < n \/ i = n
    BY <1>3
  <2>5. QED
    BY <1>2, <2>1, <2>2, <2>3, <2>4, SameRecords
<1>15. \E l \in 1 .. at' - 1 : Heads(l, at - 1)' /\ unit' = Aranges'[l].offset
  <2>1. at' - 1 = n /\ k \in 1 .. at' - 1
    BY <1>2, <1>3, <1>9
  <2>2. Heads(k, n)' /\ unit' = Aranges'[k].offset
    BY <1>2, <1>8, <1>9, SameRecords
  <2>3. QED
    BY <2>1, <2>2
<1>16. ~valid'
  <2>1. valid => at = Len(Aranges) + 1
    BY DEF RangesInv
  <2>2. QED
    BY <1>1, <1>2, <1>3, <1>4, <2>1
<1>17. QED
  BY <1>2, <1>3, <1>11, <1>12, <1>13, <1>14, <1>15, <1>16 DEF RangesInv, Walks, Closed

(* Nothing that happens afterwards, or goes wrong, changes the tree.  The
   module counts as open when no set is being read and no record is left. *)
LEMMA RangesStay ==
  ASSUME RangesInv, UNCHANGED <<dwarf, at, limit, ranges>>, pc' \in Walks,
         pc' = "ranges" => pc = "ranges" /\ unit' = unit,
         pc' \in {"new", "sets", "ranges"} => pc \in {"new", "sets", "ranges"},
         valid' = valid \/ (pc = "sets" /\ at > Len(Aranges))
  PROVE  RangesInv'
<1>1. Taken' = Taken
  BY SameRecords DEF Taken
<1>2. dwarf \in Infos /\ at \in Nat \ {0} /\ at <= Len(Aranges) + 1 /\ limit \in Nat
  BY DEF RangesInv
<1>3. Len(Aranges) \in Nat /\ RangeRecords \subseteq 1 .. Len(Aranges)
  BY <1>2, Records
<1>4. \A q \in ranges' : \E i \in Taken' : q = Entry(i)'
  BY <1>1, SameRecords DEF RangesInv
<1>5. \A i \in Taken' : \E q \in ranges' : q.from = Aranges'[i].from
  BY <1>1, SameRecords DEF RangesInv
<1>6. pc' = "ranges" => \E k \in 1 .. at' - 1 : Heads(k, at - 1)' /\ unit' = Aranges'[k].offset
  <2>1. PICK n : n = at
    OBVIOUS
  <2>2. SUFFICES ASSUME pc' = "ranges"
                 PROVE  \E k \in 1 .. at' - 1 : Heads(k, at - 1)' /\ unit' = Aranges'[k].offset
    OBVIOUS
  <2>3. PICK k \in 1 .. n - 1 : Heads(k, n - 1) /\ unit = Aranges[k].offset
    BY <2>1, <2>2 DEF RangesInv
  <2>4. Heads(k, n - 1)' /\ unit' = Aranges'[k].offset
    BY <2>2, <2>3, SameRecords
  <2>5. at' = n
    BY <2>1
  <2>6. QED
    BY <2>4, <2>5
<1>7. pc' \in {"new", "sets", "ranges"} => \A i \in RangeRecords' : i < at' => i <= limit'
  BY SameRecords DEF RangesInv
<1>8. valid' => at' = Len(Aranges') + 1 /\ \A i \in RangeRecords' : i <= limit'
  <2>1. valid => at = Len(Aranges) + 1 /\ \A i \in RangeRecords : i <= limit
    BY DEF RangesInv
  <2>2. ASSUME pc = "sets", at > Len(Aranges)
        PROVE  at = Len(Aranges) + 1 /\ \A i \in RangeRecords : i <= limit
    <3>1. \A i \in RangeRecords : i < at => i <= limit
      BY <2>2 DEF RangesInv
    <3>2. QED
      BY <1>2, <1>3, <2>2, <3>1
  <2>3. QED
    BY <2>1, <2>2, SameRecords
<1>9. at' \in Nat \ {0} /\ at' <= Len(Aranges') + 1 /\ limit' \in Nat
  BY <1>2, SameRecords
<1>10. QED
  BY <1>2, <1>4, <1>5, <1>6, <1>7, <1>8, <1>9 DEF RangesInv

LEMMA RangesStep ==
  ASSUME RangesInv, [DwarfNext]_dwarfVars
  PROVE  RangesInv'
<1>1. pc \in Walks
  BY DEF RangesInv
<1>2. CASE Open
  BY <1>1, <1>2, RangesStay DEF Open, Walks, Closed
<1>3. CASE ReadSet
  BY <1>3, SetRead
<1>4. CASE ReadRange
  BY <1>4, RangeRead
<1>5. CASE EndOfRanges
  BY <1>1, <1>5, RangesStay DEF EndOfRanges, Stop, Walks, Closed
<1>6. CASE AstrayInRanges
  BY <1>1, <1>6, RangesStay DEF AstrayInRanges, Walks, Closed
<1>7. CASE \E a \in Addresses : Search(a)
  <2>1. /\ UNCHANGED <<dwarf, at, limit, ranges, valid>> /\ pc \in {"ready", "failed"}
        /\ pc' = "unit" \/ pc' = pc
    BY <1>7 DEF Search
  <2>2. QED
    BY <2>1, RangesStay DEF Walks, Closed
<1>8. CASE ReadUnit
  <2>1. /\ UNCHANGED <<dwarf, at, limit, ranges, valid>> /\ pc = "unit"
        /\ pc' = "ready" \/ pc' = "attributes"
    BY <1>8 DEF ReadUnit, Fail, Return
  <2>2. QED
    BY <2>1, RangesStay DEF Walks, Closed
<1>9. CASE ReadAttribute
  <2>1. /\ UNCHANGED <<dwarf, at, limit, ranges, valid>> /\ pc = "attributes"
        /\ pc' = "ready" \/ pc' = "attributes" \/ pc' = "lost"
    BY <1>9 DEF ReadAttribute, Fail, Return, Lose
  <2>2. QED
    BY <2>1, RangesStay DEF Walks, Closed
<1>10. CASE OpenLines
  <2>1. /\ UNCHANGED <<dwarf, at, limit, ranges, valid>> /\ pc = "attributes"
        /\ pc' = "ready" \/ pc' = "program" \/ pc' = "lost"
    BY <1>10 DEF OpenLines, Fail, Return, Lose
  <2>2. QED
    BY <2>1, RangesStay DEF Walks, Closed
<1>11. CASE Execute
  <2>1. /\ UNCHANGED <<dwarf, at, limit, ranges, valid>> /\ pc = "program"
        /\ pc' = "ready" \/ pc' = "program" \/ pc' = "matrix"
    BY <1>11 DEF Execute, Fail, Return
  <2>2. QED
    BY <2>1, RangesStay DEF Walks, Closed
<1>12. CASE SearchLines
  <2>1. /\ UNCHANGED <<dwarf, at, limit, ranges, valid>> /\ pc = "matrix"
        /\ pc' = "ready" \/ pc' = "lost"
    BY <1>12 DEF SearchLines, Fail, Return, Lose
  <2>2. QED
    BY <2>1, RangesStay DEF Walks, Closed
<1>13. CASE UNCHANGED dwarfVars
  BY <1>1, <1>13, RangesStay DEF dwarfVars, unitVars
<1>14. QED
  BY <1>2, <1>3, <1>4, <1>5, <1>6, <1>7, <1>8, <1>9, <1>10, <1>11, <1>12, <1>13 DEF DwarfNext

LEMMA UnitFound ==
  ASSUME RangesInv
  PROVE  UnitRight
<1> SUFFICES ASSUME RangesApart, NEW a \in Addresses
             PROVE  {r.unit : r \in Found(a)}
                      = {UnitOf(i) : i \in {j \in Searched : Spans(Aranges[j], a)}}
  BY DEF UnitRight
<1>1. dwarf \in Infos /\ a \in Nat /\ at \in Nat
  BY InfosAssumption DEF RangesInv
<1>2. /\ Len(Aranges) \in Nat /\ RangeRecords \subseteq 1 .. Len(Aranges)
      /\ \A i \in RangeRecords : Aranges[i].from \in Nat /\ Aranges[i].size \in Nat
  BY <1>1, Records
<1>3. Searched = Taken /\ Searched \subseteq RangeRecords
  <2>1. valid => \A i \in RangeRecords : i < at /\ i <= limit
    <3>1. valid => at = Len(Aranges) + 1 /\ \A i \in RangeRecords : i <= limit
      BY DEF RangesInv
    <3>2. QED
      BY <1>1, <1>2, <3>1
  <2>2. QED
    BY <2>1 DEF Searched, Taken
<1>4. \A q \in ranges : \E i \in Searched : q = Entry(i)
  BY <1>3 DEF RangesInv
<1>5. \A i \in Searched : Entry(i) \in ranges
  <2>1. SUFFICES ASSUME NEW i \in Searched PROVE Entry(i) \in ranges
    OBVIOUS
  <2>2. PICK q \in ranges : q.from = Aranges[i].from
    BY <1>3 DEF RangesInv
  <2>3. PICK j \in Searched : q = Entry(j)
    BY <1>4
  <2>4. Aranges[j].from = Aranges[i].from
    BY <2>2, <2>3 DEF Entry
  <2>5. i = j
    BY <1>3, <2>4 DEF RangesApart
  <2>6. QED
    BY <2>2, <2>3, <2>5
<1>6. \A r \in ranges : r \in Found(a) <=> Spans(r, a)
  <2>1. SUFFICES ASSUME NEW r \in ranges, Spans(r, a) PROVE r \in LowerBounds(a)
    BY DEF Found, LowerBounds
  <2>2. PICK i \in Searched : r = Entry(i)
    BY <1>4
  <2>3. /\ r.from \in Nat /\ r.size \in Nat
        /\ r.from = Aranges[i].from /\ r.size = Aranges[i].size
    BY <1>2, <1>3, <2>2 DEF Entry
  <2>4. ~ EndsBefore(r, a)
    BY <1>1, <2>1, <2>3 DEF Spans, EndsBefore
  <2>5. ASSUME NEW q \in Previous(r)
        PROVE  EndsBefore(q, a)
    <3>1. q \in ranges /\ q.from < r.from
      BY DEF Previous
    <3>2. PICK j \in Searched : q = Entry(j)
      BY <1>4, <3>1
    <3>3. /\ q.from \in Nat /\ q.size \in Nat
          /\ q.from = Aranges[j].from /\ q.size = Aranges[j].size
      BY <1>2, <1>3, <3>2 DEF Entry
    <3>4. i # j
      BY <2>3, <3>1, <3>3
    <3>5. q.from + q.size <= r.from \/ r.from + r.size <= q.from
      BY <1>3, <2>3, <3>3, <3>4 DEF RangesApart
    <3>6. QED
      BY <1>1, <2>1, <2>3, <3>1, <3>3, <3>5 DEF Spans, EndsBefore
  <2>6. QED
    BY <2>4, <2>5 DEF LowerBounds
<1>7. \A i \in Searched : /\ Spans(Entry(i), a) <=> Spans(Aranges[i], a)
                              /\ Entry(i).unit = UnitOf(i)
  BY DEF Spans, Entry
<1>8. \A r \in Found(a) : r \in ranges
  BY DEF Found, LowerBounds
<1>9. ASSUME NEW u
      PROVE  (\E r \in Found(a) : u = r.unit)
               <=> \E i \in {j \in Searched : Spans(Aranges[j], a)} : u = UnitOf(i)
  <2>1. ASSUME NEW r \in Found(a)
        PROVE  \E i \in {j \in Searched : Spans(Aranges[j], a)} : r.unit = UnitOf(i)
    <3>1. PICK i \in Searched : r = Entry(i)
      BY <1>4, <1>8
    <3>2. Spans(Aranges[i], a) /\ r.unit = UnitOf(i)
      BY <1>6, <1>7, <1>8, <3>1
    <3>3. QED
      BY <3>2
  <2>2. ASSUME NEW i \in Searched, Spans(Aranges[i], a)
        PROVE  \E r \in Found(a) : r.unit = UnitOf(i)
    <3>1. PICK r : r = Entry(i)
      OBVIOUS
    <3>2. r \in ranges
      BY <1>5, <2>2, <3>1
    <3>3. Spans(r, a) /\ r.unit = UnitOf(i)
      BY <2>2, <3>1 DEF Spans, Entry
    <3>4. QED
      BY <1>6, <3>2, <3>3
  <2>3. QED
    BY <2>1, <2>2
<1>10. QED
  BY <1>9

(* An address is found in the unit which has it in one of its ranges, and in
   no other, when the ranges of the module neither overlap nor begin together:
   whatever the order of the records, whatever their number, with ranges of
   no size among them; if the open failed, of those ranges that were read by
   then, in which addresses are searched as well (DwarfUtil::buildRangeCuMap,
   searchSymbol, LinuxSymbolModule::open). *)
THEOREM UnitKept == DwarfSpec => []UnitRight
<1>1. RangesInv /\ [DwarfNext]_dwarfVars => RangesInv'
  BY RangesStep
<1>2. DwarfInit => RangesInv
  BY RangesInit
<1>3. RangesInv => UnitRight
  BY UnitFound
<1>4. QED
  BY <1>1, <1>2, <1>3, PTL DEF DwarfSpec

-----------------------------------------------------------------------------
(* What is left of a sequence, as its elements are taken one by one.       *)
LEMMA Length ==
  ASSUME NEW T, NEW s \in Seq(T)
  PROVE  Len(s) \in Nat /\ DOMAIN s = 1 .. Len(s) /\ 0 \in 0 .. Len(s)
OBVIOUS

LEMMA Rest ==
  ASSUME NEW T, NEW s \in Seq(T), NEW n \in Nat \ {0}, n <= Len(s)
  PROVE  /\ SubSeq(s, n, Len(s)) # <<>>
         /\ Head(SubSeq(s, n, Len(s))) = s[n]
         /\ Tail(SubSeq(s, n, Len(s))) = SubSeq(s, n + 1, Len(s))
<1>1. PICK m \in Nat : m = Len(s)
  OBVIOUS
<1>2. PICK t : t = SubSeq(s, n, m)
  OBVIOUS
<1>3. /\ t \in Seq(T) /\ Len(t) = m - n + 1
      /\ \A i \in 1 .. m - n + 1 : t[i] = s[n + i - 1]
  BY <1>1, <1>2, SubSeqProperties
<1>4. PICK r : r = SubSeq(s, n + 1, m)
  OBVIOUS
<1>5. /\ r \in Seq(T) /\ Len(r) = m - n
      /\ \A i \in 1 .. m - n : r[i] = s[n + i]
  BY <1>1, <1>4, SubSeqProperties
<1>6. Len(t) \in Nat /\ Len(t) > 0 /\ t # <<>>
  BY <1>1, <1>3
<1>7. Head(t) = s[n]
  BY <1>1, <1>3, <1>6
<1>8. Tail(t) \in Seq(T) /\ Len(Tail(t)) = m - n /\ \A i \in 1 .. m - n : Tail(t)[i] = t[i + 1]
  <2>1. t \in Seq(T) /\ t # <<>>
    BY <1>3, <1>6
  <2>2. PICK l \in Nat : l = Len(t) /\ l = m - n + 1
    BY <1>3, <1>6
  <2>3. /\ Tail(t) \in Seq(T) /\ Len(Tail(t)) = l - 1
        /\ \A i \in 1 .. Len(Tail(t)) : Tail(t)[i] = t[i + 1]
    BY ONLY <2>1, <2>2, HeadTailProperties
  <2>4. QED
    BY <1>1, <2>2, <2>3
<1>9. \A i \in 1 .. m - n : Tail(t)[i] = r[i]
  BY <1>1, <1>3, <1>5, <1>8
<1>10. Tail(t) = r
  BY <1>1, <1>5, <1>8, <1>9, SeqEqual
<1>11. QED
  BY <1>1, <1>2, <1>4, <1>6, <1>7, <1>10

LEMMA Whole ==
  ASSUME NEW T, NEW s \in Seq(T)
  PROVE  SubSeq(s, 1, Len(s)) = s
<1>1. PICK m \in Nat : m = Len(s)
  OBVIOUS
<1>2. PICK t : t = SubSeq(s, 1, m)
  OBVIOUS
<1>3. t \in Seq(T) /\ Len(t) = m /\ \A i \in 1 .. m : t[i] = s[i]
  BY <1>1, <1>2, SubSeqProperties
<1>4. t = s
  BY <1>1, <1>3, SeqEqual
<1>5. QED
  BY <1>1, <1>2, <1>4

LEMMA NothingLeft ==
  ASSUME NEW T, NEW s \in Seq(T), NEW n \in 0 .. Len(s)
  PROVE  SubSeq(s, n + 1, Len(s)) = <<>> <=> n = Len(s)
<1>1. PICK m \in Nat : m = Len(s)
  OBVIOUS
<1>2. CASE n < m
  <2>1. n + 1 \in Nat \ {0} /\ n + 1 <= Len(s)
    BY <1>1, <1>2
  <2>2. QED
    BY <1>1, <1>2, <2>1, Rest
<1>3. CASE n = m
  BY <1>1, <1>3
<1>4. QED
  BY <1>1, <1>2, <1>3

(* The place of an attribute's cell is one on after each attribute that has
   a cell. *)
LEMMA CellPlaces ==
  ASSUME NEW as, NEW n \in Nat \ {0}
  PROVE  /\ CellOf(as, 1) = 1 /\ CellOf(as, n) \in Nat \ {0}
         /\ CellOf(as, n + 1) = IF HasCell(as[n]) THEN CellOf(as, n) + 1 ELSE CellOf(as, n)
<1> DEFINE Before(k) == {j \in 1 .. k - 1 : HasCell(as[j])}
<1>1. IsFiniteSet(Before(n)) /\ Cardinality(Before(n)) \in Nat
  <2>1. IsFiniteSet(1 .. n - 1)
    BY FS_Interval
  <2>2. Before(n) \subseteq 1 .. n - 1
    OBVIOUS
  <2>3. QED
    BY <2>1, <2>2, FS_Subset, FS_CardinalityType
<1>2. n \notin Before(n)
  <2>1. ~ (n \in 1 .. n - 1)
    OBVIOUS
  <2>2. QED
    BY <2>1
<1>3. Before(n + 1) = IF HasCell(as[n]) THEN Before(n) \cup {n} ELSE Before(n)
  <2>1. \A j : j \in 1 .. n <=> (j \in 1 .. n - 1 \/ j = n)
    OBVIOUS
  <2>2. (n + 1) - 1 = n
    OBVIOUS
  <2>3. Before(n + 1) = {j \in 1 .. n : HasCell(as[j])}
    BY <2>2
  <2>4. QED
    BY <2>1, <2>3
<1>4. Before(1) = {}
  OBVIOUS
<1>5. Cardinality(Before(1)) = 0
  BY <1>4, FS_EmptySet
<1>6. Cardinality(Before(n + 1))
        = IF HasCell(as[n]) THEN Cardinality(Before(n)) + 1 ELSE Cardinality(Before(n))
  BY <1>1, <1>2, <1>3, FS_AddElement
<1> HIDE DEF Before
<1>7. \A k : CellOf(as, k) = 1 + Cardinality(Before(k))
  BY DEF CellOf, Before
<1>8. PICK c \in Nat : c = Cardinality(Before(n))
  BY <1>1
<1>9. CellOf(as, n) = 1 + c /\ CellOf(as, 1) = 1
  <2>1. PICK z \in Nat : z = Cardinality(Before(1)) /\ z = 0
    BY <1>5
  <2>2. CellOf(as, 1) = 1
    <3>1. CellOf(as, 1) = 1 + z
      BY <1>7, <2>1
    <3>2. 1 + z = 1
      BY <2>1
    <3>3. QED
      BY <3>1, <3>2
  <2>3. CellOf(as, n) = 1 + c
    BY <1>7, <1>8
  <2>4. QED
    BY <2>2, <2>3
<1>10. CellOf(as, n + 1) = IF HasCell(as[n]) THEN 1 + (c + 1) ELSE 1 + c
  BY <1>6, <1>7, <1>8
<1>11. 1 + c \in Nat \ {0} /\ 1 + (c + 1) = (1 + c) + 1
  OBVIOUS
<1>12. QED
  BY <1>9, <1>10, <1>11

(* An attribute is read with the width it was written with, or the search
   ends; nothing is read for one that has no cell. *)
LEMMA Widths ==
  ASSUME NEW attr, NEW cell, HasCell(attr), Encoded(attr, cell),
         ~ (attr.name = "low_pc" /\ attr.form = "addrx")
  PROVE  WidthOf(attr.name, attr.form, 8) \in {"unsupported", cell.width}
<1>1. CASE attr.name \in {"stmt_list", "addr_base"}
  BY <1>1 DEF Encoded, FormWidth, WidthOf, OffsetForms, DataWidth
<1>2. CASE attr.name = "low_pc"
  BY <1>2 DEF Encoded, FormWidth, WidthOf, AddressWidth, OffsetForms
<1>3. CASE attr.name = "high_pc"
  BY <1>3 DEF HasCell, Encoded, FormWidth, WidthOf, HighWidth, OffsetForms, DataWidth
<1>4. CASE attr.name = "ranges"
  BY <1>4 DEF Encoded, FormWidth, WidthOf, OffsetForms
<1>5. CASE attr.name = "name"
  BY <1>5 DEF Encoded, FormWidth, WidthOf, OffsetForms
<1>6. CASE attr.name \notin {"stmt_list", "addr_base", "low_pc", "high_pc", "ranges", "name"}
  BY <1>6 DEF Encoded, FormWidth, WidthOf, AddressWidth, OffsetForms, DataWidth
<1>7. QED
  BY <1>1, <1>2, <1>3, <1>4, <1>5, <1>6

LEMMA NoWidth ==
  ASSUME NEW attr, ~ HasCell(attr), attr.name \notin {"stmt_list", "addr_base", "low_pc"}
  PROVE  WidthOf(attr.name, attr.form, 8) \in {"none", "unsupported"}
BY DEF HasCell, WidthOf, HighWidth, OffsetForms, DataWidth

LEMMA AlwaysWidth ==
  ASSUME NEW attr, HasCell(attr)
  PROVE  WidthOf(attr.name, attr.form, 8) # "none"
BY DEF HasCell, WidthOf, HighWidth, AddressWidth, OffsetForms, DataWidth

LEMMA SameUnit ==
  ASSUME UNCHANGED <<dwarf, unit>>
  PROVE  /\ Current' = Current
         /\ Declaration(Current)' = Declaration(Current)
         /\ NamedProgram(Current)' = NamedProgram(Current)
         /\ Followed' = Followed
<1>1. Current' = Current
  BY DEF Current
<1>2. \A u : Declaration(u)' = Declaration(u)
  BY DEF Declaration
<1>3. \A u : NamedProgram(u)' = NamedProgram(u)
  BY <1>2 DEF NamedProgram
<1>4. \A u : ByIndex(u)' = ByIndex(u)
  BY <1>2 DEF ByIndex
<1>5. QED
  BY <1>1, <1>2, <1>3, <1>4 DEF Followed

LEMMA UnitIsSound ==
  ASSUME dwarf \in Infos, unit \in DOMAIN dwarf.info, Current.addressSize = 8,
         Declaration(Current).code = Current.code
  PROVE  UnitSound(Current, Declaration(Current).attrs, dwarf.lines)
BY InfosAssumption DEF Current, Declaration

(* The program that a unit names is that of its attribute stmt_list. *)
LEMMA Named ==
  ASSUME NEW u, NEW k \in DOMAIN Declaration(u).attrs,
         UnitSound(u, Declaration(u).attrs, dwarf.lines),
         Declaration(u).attrs[k].name = "stmt_list"
  PROVE  NamedProgram(u) = u.cells[CellOf(Declaration(u).attrs, k)].value
<1>1. PICK as : as = Declaration(u).attrs
  OBVIOUS
<1>2. PICK ks : ks = {j \in DOMAIN as : as[j].name = "stmt_list"}
  OBVIOUS
<1>3. ks = {k}
  BY <1>1, <1>2 DEF UnitSound
<1>4. PICK c : c = CHOOSE j \in ks : TRUE
  OBVIOUS
<1>5. c = k
  BY <1>3, <1>4
<1>6. NamedProgram(u) = IF ks = {} THEN 0 ELSE u.cells[CellOf(as, c)].value
  BY <1>1, <1>2, <1>4 DEF NamedProgram, ProgramNamed
<1>7. QED
  BY <1>1, <1>3, <1>5, <1>6

LEMMA Unnamed ==
  ASSUME NEW u, \A k \in DOMAIN Declaration(u).attrs : Declaration(u).attrs[k].name # "stmt_list"
  PROVE  NamedProgram(u) = 0
BY DEF NamedProgram, ProgramNamed

(* Wherever the unit is read to the end, the program it names is there. *)
LEMMA NamedIsThere ==
  ASSUME dwarf \in Infos, NEW u, UnitSound(u, Declaration(u).attrs, dwarf.lines)
  PROVE  NamedProgram(u) \in DOMAIN dwarf.lines
<1>1. CASE \E k \in DOMAIN Declaration(u).attrs : Declaration(u).attrs[k].name = "stmt_list"
  BY <1>1, Named DEF UnitSound
<1>2. CASE ~ \E k \in DOMAIN Declaration(u).attrs : Declaration(u).attrs[k].name = "stmt_list"
  BY <1>2, Unnamed, InfosAssumption
<1>3. QED
  BY <1>1, <1>2

LEMMA AttributesBegin ==
  ASSUME NEW T, NEW as \in Seq(T), NEW R, NEW cs \in Seq(R), NEW named,
         attrs' = as, cells' = cs, stmt' = 0
  PROVE  ReadUpTo(0, as, cs, named)'
<1>1. SubSeq(as, 1, Len(as)) = as /\ SubSeq(cs, 1, Len(cs)) = cs
  BY Whole
<1>2. 0 + 1 = 1 /\ 1 \in Nat \ {0}
  OBVIOUS
<1>3. CellOf(as, 1) = 1
  BY <1>2, CellPlaces
<1>4. ~ \E k \in 1 .. 0 : as[k].name = "stmt_list"
  OBVIOUS
<1>5. QED
  BY <1>1, <1>2, <1>3, <1>4 DEF ReadUpTo

LEMMA Onward ==
  ASSUME NEW T, NEW s \in Seq(T), NEW n \in 0 .. Len(s), n < Len(s)
  PROVE  n + 1 \in Nat \ {0} /\ n + 1 <= Len(s) /\ n + 1 \in 0 .. Len(s) /\ n + 1 \in DOMAIN s
<1>1. PICK l \in Nat : l = Len(s) /\ DOMAIN s = 1 .. l
  OBVIOUS
<1>2. n \in Nat /\ n < l
  BY <1>1
<1>3. n + 1 \in Nat \ {0} /\ n + 1 <= l /\ n + 1 \in 0 .. l /\ n + 1 \in 1 .. l
  BY ONLY <1>1, <1>2
<1>4. QED
  BY <1>1, <1>3

(* An attribute that has no cell, and one that has. *)
LEMMA WithoutCell ==
  ASSUME NEW T, NEW as \in Seq(T), NEW cs, NEW named, NEW n \in 0 .. Len(as), n < Len(as),
         ReadUpTo(n, as, cs, named), ~ HasCell(as[n + 1]), as[n + 1].name # "stmt_list",
         attrs' = Tail(attrs), cells' = cells, stmt' = stmt
  PROVE  n + 1 \in 0 .. Len(as) /\ ReadUpTo(n + 1, as, cs, named)'
<1>1. PICK m \in Nat : m = n + 1
  OBVIOUS
<1>2. m \in Nat \ {0} /\ m <= Len(as) /\ m \in 0 .. Len(as)
  BY <1>1, Onward
<1>3. attrs' = SubSeq(as, m + 1, Len(as))
  BY <1>1, <1>2, Rest DEF ReadUpTo
<1>4. CellOf(as, m + 1) = CellOf(as, m)
  BY <1>1, <1>2, CellPlaces
<1>5. (\E k \in 1 .. m : as[k].name = "stmt_list") <=> (\E k \in 1 .. n : as[k].name = "stmt_list")
  <2>1. n \in Nat
    OBVIOUS
  <2>2. \A k : k \in 1 .. m <=> (k \in 1 .. n \/ k = m)
    BY ONLY <1>1, <2>1
  <2>3. QED
    BY <1>1, <2>2
<1>6. QED
  BY <1>1, <1>2, <1>3, <1>4, <1>5 DEF ReadUpTo

LEMMA WithCell ==
  ASSUME NEW T, NEW as \in Seq(T), NEW R, NEW cs \in Seq(R), NEW named,
         NEW n \in 0 .. Len(as), n < Len(as),
         ReadUpTo(n, as, cs, named), HasCell(as[n + 1]), CellOf(as, n + 1) \in DOMAIN cs,
         \A k \in DOMAIN as : as[k].name = "stmt_list" => named = cs[CellOf(as, k)].value,
         attrs' = Tail(attrs), cells' = Tail(cells),
         stmt' = IF as[n + 1].name = "stmt_list" THEN Head(cells).value ELSE stmt
  PROVE  n + 1 \in 0 .. Len(as) /\ ReadUpTo(n + 1, as, cs, named)'
<1>1. PICK m \in Nat : m = n + 1
  OBVIOUS
<1>2. m \in Nat \ {0} /\ m <= Len(as) /\ m \in 0 .. Len(as) /\ m \in DOMAIN as
  BY <1>1, Onward
<1>3. attrs' = SubSeq(as, m + 1, Len(as))
  BY <1>1, <1>2, Rest DEF ReadUpTo
<1>4. PICK c \in Nat \ {0} : c = CellOf(as, m)
  BY <1>2, CellPlaces
<1>5. c <= Len(cs) /\ CellOf(as, m + 1) = c + 1
  <2>1. HasCell(as[m]) /\ c \in DOMAIN cs
    BY <1>1, <1>4
  <2>2. CellOf(as, m + 1) = c + 1
    BY <1>2, <1>4, <2>1, CellPlaces
  <2>3. PICK l \in Nat : l = Len(cs) /\ DOMAIN cs = 1 .. l
    OBVIOUS
  <2>4. c <= l
    BY <2>1, <2>3
  <2>5. QED
    BY <2>2, <2>3, <2>4
<1>6. cells = SubSeq(cs, c, Len(cs))
  BY <1>1, <1>4 DEF ReadUpTo
<1>7. Head(cells) = cs[c] /\ cells' = SubSeq(cs, c + 1, Len(cs))
  BY <1>5, <1>6, Rest
<1>8. as[m].name = "stmt_list" => stmt' = named
  BY <1>1, <1>2, <1>4, <1>7
<1>9. as[m].name # "stmt_list" => stmt' = stmt
  BY <1>1
<1>10. (\E k \in 1 .. m : as[k].name = "stmt_list")
         <=> as[m].name = "stmt_list" \/ (\E k \in 1 .. n : as[k].name = "stmt_list")
  <2>1. n \in Nat
    OBVIOUS
  <2>2. \A k : k \in 1 .. m <=> (k \in 1 .. n \/ k = m)
    BY ONLY <1>1, <2>1
  <2>3. QED
    BY <2>2
<1>11. stmt' = IF \E k \in 1 .. m : as[k].name = "stmt_list" THEN named ELSE 0
  BY <1>8, <1>9, <1>10 DEF ReadUpTo
<1>12. QED
  BY <1>1, <1>2, <1>3, <1>5, <1>7, <1>11 DEF ReadUpTo

-----------------------------------------------------------------------------
(* The reader of a unit.  Each lemma is about one action.                  *)
Settled == {"new", "sets", "ranges", "failed", "astray", "ready", "unit"}

LEMMA ProgramInit ==
  ASSUME DwarfInit
  PROVE  ProgramInv
BY DEF DwarfInit, ProgramInv, Walks, Closed, InUnit

(* Outside of units, and where a search ends. *)
LEMMA ProgramSettled ==
  ASSUME ProgramInv, pc' \in Settled, stmt' = 0, dwarf' = dwarf,
         \A q \in ranges' : q.unit \in DOMAIN dwarf.info,
         pc' \in {"unit", "ranges"} => unit' \in DOMAIN dwarf.info
  PROVE  ProgramInv'
BY DEF ProgramInv, Settled, Walks, Closed, InUnit

LEMMA Returned ==
  ASSUME ProgramInv, pc' = "ready", stmt' = 0, UNCHANGED <<dwarf, ranges>>
  PROVE  ProgramInv'
BY ProgramSettled DEF ProgramInv, Settled

LEMMA ProgramRanges ==
  ASSUME RangesInv, ProgramInv,
         \/ Open \/ ReadSet \/ ReadRange \/ EndOfRanges \/ AstrayInRanges
  PROVE  ProgramInv'
<1>1. dwarf \in Infos /\ at \in Nat \ {0}
  BY DEF RangesInv
<1>2. Len(Aranges) \in Nat
  BY <1>1, Records
<1>3. pc \in {"new", "sets", "ranges"} => stmt = 0
  BY DEF ProgramInv, Walks
<1>4. CASE Open
  BY <1>3, <1>4, ProgramSettled DEF Open, unitVars, Settled, ProgramInv
<1>5. CASE ReadSet
  <2>1. /\ pc = "sets" /\ pc' \in {"failed", "ranges"} /\ stmt' = stmt
        /\ unit' = Aranges[at].offset /\ UNCHANGED <<dwarf, ranges>>
        /\ at <= Len(Aranges) /\ Aranges[at].kind = "set"
    BY <1>5 DEF ReadSet, Stop
  <2>2. at \in 1 .. Len(Aranges)
    BY <1>1, <1>2, <2>1
  <2>3. unit' \in DOMAIN dwarf.info
    BY <1>1, <2>1, <2>2, Records
  <2>4. QED
    BY <1>3, <2>1, <2>3, ProgramSettled DEF Settled, ProgramInv
<1>6. CASE ReadRange
  <2>1. /\ pc = "ranges" /\ pc' \in {"failed", "sets", "ranges"} /\ UNCHANGED <<dwarf, unit, stmt>>
        /\ \/ ranges' = ranges
           \/ ranges' = Added([from |-> Aranges[at].from, size |-> Aranges[at].size, unit |-> unit])
    BY <1>6 DEF ReadRange, Stop, unitVars
  <2>2. unit \in DOMAIN dwarf.info
    BY <2>1 DEF ProgramInv
  <2>3. \A q \in ranges' : q \in ranges \/ q.unit = unit
    BY <2>1 DEF Added
  <2>4. QED
    BY <1>3, <2>1, <2>2, <2>3, ProgramSettled DEF Settled, ProgramInv
<1>7. CASE EndOfRanges
  BY <1>3, <1>7, ProgramSettled DEF EndOfRanges, Stop, unitVars, Settled, ProgramInv
<1>8. CASE AstrayInRanges
  BY <1>3, <1>8, ProgramSettled DEF AstrayInRanges, unitVars, Settled, ProgramInv
<1>9. QED
  BY <1>4, <1>5, <1>6, <1>7, <1>8

LEMMA ProgramSearch ==
  ASSUME ProgramInv, NEW a \in Addresses, Search(a)
  PROVE  ProgramInv'
<1>1. /\ pc \in {"ready", "failed"} /\ UNCHANGED <<dwarf, ranges, stmt>>
      /\ \/ pc' = "unit" /\ \E r \in ranges : unit' = r.unit
         \/ pc' = pc /\ unit' = unit
  BY DEF Search, Found, LowerBounds
<1>2. stmt = 0
  BY <1>1 DEF ProgramInv, Walks, Closed
<1>3. QED
  BY <1>1, <1>2, ProgramSettled DEF Settled, ProgramInv

(* What is known of a unit whose addresses take eight bytes, while its
   attributes are read. *)
LEMMA Followable ==
  ASSUME RangesInv, ProgramInv, pc = "attributes", Followed
  PROVE  UnitSound(Current, Declaration(Current).attrs, dwarf.lines)
BY UnitIsSound DEF RangesInv, ProgramInv, InUnit, Followed

LEMMA FlawlessUnit ==
  ASSUME NEW u, UnitFlaw(u) = "none"
  PROVE  Declaration(u).code = u.code
BY DEF UnitFlaw

LEMMA ProgramUnit ==
  ASSUME RangesInv, ProgramInv, ReadUnit
  PROVE  ProgramInv'
<1>1. pc = "unit" /\ stmt = 0 /\ unit \in DOMAIN dwarf.info /\ dwarf \in Infos
  BY DEF ReadUnit, ProgramInv, RangesInv, Walks, Closed, InUnit
<1>2. \/ pc' = "ready" /\ stmt' = 0 /\ UNCHANGED <<dwarf, ranges>>
      \/ /\ UnitFlaw(Current) = "none" /\ pc' = "attributes"
         /\ attrs' = Declaration(Current).attrs /\ cells' = Current.cells
         /\ UNCHANGED <<dwarf, ranges, unit, stmt>>
  BY DEF ReadUnit, Fail, Return, Current
<1>3. CASE pc' = "ready" /\ stmt' = 0 /\ UNCHANGED <<dwarf, ranges>>
  BY <1>3, Returned
<1>4. CASE /\ UnitFlaw(Current) = "none" /\ pc' = "attributes"
           /\ attrs' = Declaration(Current).attrs /\ cells' = Current.cells
           /\ UNCHANGED <<dwarf, ranges, unit, stmt>>
  <2>1. Declaration(Current).code = Current.code
    BY <1>4, FlawlessUnit
  <2>2. Followed => Progress'
    <3>1. SUFFICES ASSUME Followed PROVE Progress'
      OBVIOUS
    <3>2. UnitSound(Current, Declaration(Current).attrs, dwarf.lines)
      BY <1>1, <2>1, <3>1, UnitIsSound DEF Followed
    <3>3. PICK as, cs, named :
            as = Declaration(Current).attrs /\ cs = Current.cells /\ named = NamedProgram(Current)
      OBVIOUS
    <3>4. PICK T, R : as \in Seq(T) /\ cs \in Seq(R)
      BY <3>2, <3>3 DEF UnitSound
    <3>5. ReadUpTo(0, as, cs, named)'
      BY <1>1, <1>4, <3>3, <3>4, AttributesBegin
    <3>6. 0 \in 0 .. Len(as)
      BY <3>4, Length
    <3>7. QED
      BY <1>4, <3>3, <3>5, <3>6, SameUnit DEF Progress
  <2>3. QED
    BY <1>1, <1>4, <2>1, <2>2, SameUnit DEF ProgramInv, Walks, Closed, InUnit
<1>5. QED
  BY <1>2, <1>3, <1>4

(* What an action that takes an attribute does. *)
LEMMA AttributeTaken ==
  ASSUME ReadAttribute, pc' # "ready", NEW attr, attr = Head(attrs),
         NEW width, width = WidthOf(attr.name, attr.form, dwarf.info[unit].addressSize)
  PROVE  /\ width # "unsupported" /\ UNCHANGED <<dwarf, ranges, unit>>
         /\ \/ /\ width = "none" /\ pc' = pc
               /\ attrs' = Tail(attrs) /\ cells' = cells /\ stmt' = stmt
            \/ width # "none" /\ (cells = <<>> \/ Head(cells).width # width)
            \/ /\ width # "none" /\ pc' = pc
               /\ attrs' = Tail(attrs) /\ cells' = Tail(cells)
               /\ stmt' = IF attr.name = "stmt_list" THEN Head(cells).value ELSE stmt
<1>1. \A why : ~ Fail(why)
  BY DEF Fail, Return
<1>2. LET w == WidthOf(Head(attrs).name, Head(attrs).form, dwarf.info[unit].addressSize) IN
      \/ /\ w = "none" /\ attrs' = Tail(attrs)
         /\ UNCHANGED <<dwarf, pc, outcome, at, limit, ranges, valid, target, unit, cells, stmt, answer,
                       lineVars>>
      \/ /\ w \notin {"none", "unsupported"}
         /\ cells = <<>> \/ Head(cells).width # w
         /\ Lose
      \/ /\ w \notin {"none", "unsupported"} /\ Head(cells).width = w
         /\ attrs' = Tail(attrs) /\ cells' = Tail(cells)
         /\ stmt' = IF Head(attrs).name = "stmt_list" THEN Head(cells).value ELSE stmt
         /\ UNCHANGED <<dwarf, pc, outcome, at, limit, ranges, valid, target, unit, answer, lineVars>>
  <2>1. CASE WidthOf(Head(attrs).name, Head(attrs).form, dwarf.info[unit].addressSize) = "none"
    BY <1>1, <2>1 DEF ReadAttribute
  <2>2. CASE WidthOf(Head(attrs).name, Head(attrs).form, dwarf.info[unit].addressSize) = "unsupported"
    BY <1>1, <2>2 DEF ReadAttribute
  <2>3. CASE WidthOf(Head(attrs).name, Head(attrs).form, dwarf.info[unit].addressSize)
               \notin {"none", "unsupported"}
    BY <1>1, <2>3 DEF ReadAttribute
  <2>4. QED
    BY <2>1, <2>2, <2>3
<1>3. QED
  BY <1>2 DEF Lose, unitVars

(* In a unit that is followed, an attribute and the cell that belongs to it
   are read together, or the search ends: the reader is not lost. *)
LEMMA AttributeRead ==
  ASSUME RangesInv, ProgramInv, Followed, ReadAttribute, pc' # "ready"
  PROVE  pc' = "attributes" /\ UNCHANGED <<dwarf, ranges, unit>> /\ Progress'
<1>1. PICK as, cs, named :
        as = Declaration(Current).attrs /\ cs = Current.cells /\ named = NamedProgram(Current)
  OBVIOUS
<1>2. pc = "attributes" /\ UnitSound(Current, as, dwarf.lines)
  BY <1>1, Followable DEF ReadAttribute
<1>3. PICK T, R : as \in Seq(T) /\ cs \in Seq(R)
  BY <1>1, <1>2 DEF UnitSound
<1>4. PICK n \in 0 .. Len(as) : ReadUpTo(n, as, cs, named)
  BY <1>1, <1>2 DEF ProgramInv, Progress
<1>5. n < Len(as)
  <2>1. SubSeq(as, n + 1, Len(as)) # <<>>
    BY <1>4 DEF ReadUpTo, ReadAttribute
  <2>2. n # Len(as)
    BY <1>3, <2>1, NothingLeft
  <2>3. PICK l \in Nat : l = Len(as)
    BY <1>3, Length
  <2>4. n \in 0 .. l /\ n # l
    BY <2>2, <2>3
  <2>5. n < l
    BY ONLY <2>4
  <2>6. QED
    BY <2>3, <2>5
<1>6. PICK m : m = n + 1
  OBVIOUS
<1>7. m \in Nat \ {0} /\ m <= Len(as) /\ m \in 0 .. Len(as) /\ m \in DOMAIN as
  BY <1>3, <1>5, <1>6, Onward
<1>8. PICK attr : attr = as[m]
  OBVIOUS
<1>9. Head(attrs) = attr
  BY <1>3, <1>4, <1>6, <1>7, <1>8, Rest DEF ReadUpTo
<1>10. ~ (attr.name = "low_pc" /\ attr.form = "addrx")
  BY <1>1, <1>7, <1>8 DEF Followed, ByIndex
<1>11. PICK width : width = WidthOf(attr.name, attr.form, 8)
  OBVIOUS
<1>12. /\ width # "unsupported" /\ UNCHANGED <<dwarf, ranges, unit>>
       /\ \/ /\ width = "none" /\ pc' = "attributes"
             /\ attrs' = Tail(attrs) /\ cells' = cells /\ stmt' = stmt
          \/ width # "none" /\ (cells = <<>> \/ Head(cells).width # width)
          \/ /\ width # "none" /\ pc' = "attributes"
             /\ attrs' = Tail(attrs) /\ cells' = Tail(cells)
             /\ stmt' = IF attr.name = "stmt_list" THEN Head(cells).value ELSE stmt
  BY <1>2, <1>9, <1>11, AttributeTaken DEF Followed, Current
<1>13. CASE ~ HasCell(attr)
  <2>1. attr.name \notin {"stmt_list", "addr_base", "low_pc"}
    BY <1>2, <1>7, <1>8, <1>13 DEF UnitSound
  <2>2. width = "none"
    BY <1>11, <1>12, <1>13, <2>1, NoWidth
  <2>3. m \in 0 .. Len(as) /\ ReadUpTo(m, as, cs, named)'
    BY <1>3, <1>4, <1>5, <1>6, <1>8, <1>12, <1>13, <2>1, <2>2, WithoutCell
  <2>4. QED
    BY <1>1, <1>12, <2>2, <2>3, SameUnit DEF Progress
<1>14. CASE HasCell(attr)
  <2>1. CellOf(as, m) \in DOMAIN cs /\ Encoded(attr, cs[CellOf(as, m)])
    BY <1>1, <1>2, <1>7, <1>8, <1>14 DEF UnitSound
  <2>2. PICK c \in Nat \ {0} : c = CellOf(as, m)
    BY <1>7, CellPlaces
  <2>3. c <= Len(cs)
    <3>1. PICK l \in Nat : l = Len(cs) /\ DOMAIN cs = 1 .. l
      BY <1>3, Length
    <3>2. c \in 1 .. l
      BY <2>1, <2>2, <3>1
    <3>3. QED
      BY <3>1, <3>2
  <2>4. cells # <<>> /\ Head(cells) = cs[c]
    BY <1>3, <1>4, <1>6, <2>2, <2>3, Rest DEF ReadUpTo
  <2>5. width = Head(cells).width /\ width # "none"
    BY <1>10, <1>11, <1>12, <1>14, <2>1, <2>2, <2>4, Widths, AlwaysWidth
  <2>6. \A k \in DOMAIN as : as[k].name = "stmt_list" => named = cs[CellOf(as, k)].value
    BY <1>1, <1>2, Named
  <2>7. m \in 0 .. Len(as) /\ ReadUpTo(m, as, cs, named)'
    BY <1>3, <1>4, <1>5, <1>6, <1>8, <1>12, <1>14, <2>1, <2>4, <2>5, <2>6, WithCell
  <2>8. QED
    BY <1>1, <1>12, <2>4, <2>5, <2>7, SameUnit DEF Progress
<1>15. QED
  BY <1>13, <1>14

LEMMA ProgramAttribute ==
  ASSUME RangesInv, ProgramInv, ReadAttribute
  PROVE  ProgramInv'
<1>1. /\ pc = "attributes" /\ UNCHANGED <<dwarf, ranges, unit>>
      /\ \/ pc' = "ready" /\ stmt' = 0
         \/ pc' = "attributes"
         \/ pc' = "lost"
  BY DEF ReadAttribute, Fail, Return, Lose, unitVars
<1>2. CASE pc' = "ready" /\ stmt' = 0
  BY <1>1, <1>2, Returned
<1>3. CASE pc' \in {"attributes", "lost"}
  <2>1. Followed => pc' = "attributes" /\ Progress'
    BY <1>3, AttributeRead
  <2>2. QED
    BY <1>1, <1>3, <2>1, SameUnit DEF ProgramInv, Walks, Closed, InUnit
<1>4. QED
  BY <1>1, <1>2, <1>3

(* The attributes have been read: the program that the unit names is opened. *)
LEMMA ProgramLines ==
  ASSUME RangesInv, ProgramInv, OpenLines
  PROVE  ProgramInv'
<1>1. /\ pc = "attributes" /\ attrs = <<>> /\ UNCHANGED <<dwarf, ranges, unit>>
      /\ \/ pc' = "ready" /\ stmt' = 0
         \/ pc' = "lost" /\ stmt \notin DOMAIN dwarf.lines /\ stmt' = stmt
         \/ /\ pc' = "program" /\ stmt' = stmt
            /\ stmt \in DOMAIN dwarf.lines /\ ReadLines(dwarf.lines[stmt])
  BY DEF OpenLines, Fail, Return, Lose, unitVars
<1>2. CASE pc' = "ready" /\ stmt' = 0
  BY <1>1, <1>2, Returned
<1>3. CASE pc' \in {"lost", "program"} /\ stmt' = stmt
  <2>1. Followed => stmt = NamedProgram(Current) /\ stmt \in DOMAIN dwarf.lines
    <3>1. SUFFICES ASSUME Followed
                   PROVE  stmt = NamedProgram(Current) /\ stmt \in DOMAIN dwarf.lines
      OBVIOUS
    <3>2. PICK as : as = Declaration(Current).attrs
      OBVIOUS
    <3>3. UnitSound(Current, as, dwarf.lines)
      BY <1>1, <3>1, <3>2, Followable
    <3>4. PICK T : as \in Seq(T)
      BY <3>3 DEF UnitSound
    <3>5. PICK n \in 0 .. Len(as) : ReadUpTo(n, as, Current.cells, NamedProgram(Current))
      BY <1>1, <3>1, <3>2 DEF ProgramInv, Progress
    <3>6. n = Len(as)
      BY <1>1, <3>4, <3>5, NothingLeft DEF ReadUpTo
    <3>7. DOMAIN as = 1 .. n
      BY <3>4, <3>6, Length
    <3>8. stmt = NamedProgram(Current)
      BY <3>2, <3>5, <3>7, Unnamed DEF ReadUpTo
    <3>9. QED
      BY <3>2, <3>3, <3>8, NamedIsThere DEF RangesInv
  <2>2. pc' = "program" => header' # NoLines
    <3>1. SUFFICES ASSUME pc' = "program" PROVE header' # NoLines
      OBVIOUS
    <3>2. PICK h : h = dwarf.lines[stmt]
      OBVIOUS
    <3>3. "dirs" \in DOMAIN h
      BY <1>1, <3>1, <3>2, InfosAssumption DEF RangesInv, LinesSound
    <3>4. header' = [h EXCEPT !.dirs = Dirs(h.dirs), !.files = Files(h.files)]
      BY <1>1, <3>1, <3>2 DEF ReadLines
    <3>5. DOMAIN header' = DOMAIN h
      BY <3>4
    <3>6. "dirs" \notin DOMAIN NoLines
      BY DEF NoLines
    <3>7. QED
      BY <3>3, <3>5, <3>6
  <2>3. pc' = "lost" => ~ Followed
    BY <1>1, <2>1
  <2>4. QED
    BY <1>1, <1>3, <2>1, <2>2, <2>3, SameUnit DEF ProgramInv, Walks, Closed, InUnit
<1>4. QED
  BY <1>1, <1>2, <1>3

(* The program is run, and its matrix searched. *)
LEMMA ProgramRun ==
  ASSUME ProgramInv, Execute \/ SearchLines
  PROVE  ProgramInv'
<1>1. /\ pc \in {"program", "matrix"} /\ UNCHANGED <<dwarf, ranges, unit>>
      /\ \/ pc' = "ready" /\ stmt' = 0
         \/ pc' \in {"program", "matrix", "lost"} /\ UNCHANGED <<stmt, header>>
  BY DEF Execute, ExecuteOne, SearchLines, Fail, Return, Lose, unitVars, lineVars
<1>2. CASE pc' = "ready" /\ stmt' = 0
  BY <1>1, <1>2, Returned
<1>3. CASE pc' \in {"program", "matrix", "lost"} /\ UNCHANGED <<stmt, header>>
  BY <1>1, <1>3, SameUnit DEF ProgramInv, Walks, Closed, InUnit
<1>4. QED
  BY <1>1, <1>2, <1>3

LEMMA ProgramStay ==
  ASSUME ProgramInv, UNCHANGED dwarfVars
  PROVE  ProgramInv'
<1>1. UNCHANGED <<dwarf, pc, ranges, unit, attrs, cells, stmt, header>>
  BY DEF dwarfVars, unitVars, lineVars
<1>2. Progress' <=> Progress
  BY <1>1, SameUnit DEF Progress, ReadUpTo
<1>3. QED
  BY <1>1, <1>2, SameUnit DEF ProgramInv

LEMMA ProgramStep ==
  ASSUME RangesInv, ProgramInv, [DwarfNext]_dwarfVars
  PROVE  ProgramInv'
BY ProgramRanges, ProgramSearch, ProgramUnit, ProgramAttribute, ProgramLines, ProgramRun, ProgramStay
   DEF DwarfNext

LEMMA ProgramFound ==
  ASSUME ProgramInv
  PROVE  ProgramOfUnit
BY DEF ProgramInv, ProgramOfUnit, Followed, Current

(* The line program that is run for a unit is the one it names, whatever its
   attributes and in whatever order, and the reader is not lost before it is
   opened, if addresses take eight bytes and are written as addresses
   (DwarfUtil::readCUData, searchLineProg). *)
THEOREM ProgramKept == DwarfSpec => []ProgramOfUnit
<1>1. RangesInv /\ ProgramInv /\ [DwarfNext]_dwarfVars => RangesInv' /\ ProgramInv'
  BY RangesStep, ProgramStep
<1>2. DwarfInit => RangesInv /\ ProgramInv
  BY RangesInit, ProgramInit
<1>3. ProgramInv => ProgramOfUnit
  BY ProgramFound
<1>4. QED
  BY <1>1, <1>2, <1>3, PTL DEF DwarfSpec
-----------------------------------------------------------------------------
(* The line number program.  What it says of a row is a sum over the
   instructions of the row's sequence. *)
LEMMA Least ==
  ASSUME NEW S, S \subseteq Nat, S # {}
  PROVE  \E n \in S : \A m \in S : n <= m
<1> DEFINE Less == {ss \in Nat \X Nat : ss[1] < ss[2]}
<1>1. IsWellFoundedOn(Less, Nat)
  BY NatLessThanWellFounded DEF OpToRel
<1> HIDE DEF Less
<1>2. PICK n \in S : \A m \in S : ~ (<<m, n>> \in Less)
  BY <1>1, WFMin
<1>3. \A m \in S : ~ (m < n)
  BY <1>2 DEF Less
<1>4. QED
  BY <1>2, <1>3

(* The function g has the sums of steps after from. *)
Adding(steps, from, to, g) ==
  \A k \in from .. to : g[k] = IF k = from THEN 0 ELSE g[k - 1] + steps[k]

LEMMA AddingExists ==
  ASSUME NEW steps, NEW from \in Nat
  PROVE  \A n \in Nat : \E g : Adding(steps, from, from + n, g)
<1> DEFINE S == {n \in Nat : ~ \E g : Adding(steps, from, from + n, g)}
<1>1. SUFFICES ASSUME S # {} PROVE FALSE
  OBVIOUS
<1>2. PICK n \in S : \A m \in S : n <= m
  BY <1>1, Least
<1>3. n \in Nat /\ ~ \E g : Adding(steps, from, from + n, g)
  BY <1>2
<1>4. CASE n = 0
  <2>1. Adding(steps, from, from + n, [k \in {from} |-> 0])
    BY <1>4 DEF Adding
  <2>2. QED
    BY <1>3, <2>1
<1>5. CASE n # 0
  <2>1. n - 1 \in Nat /\ n - 1 \notin S
    BY <1>2, <1>3, <1>5
  <2>2. PICK g : Adding(steps, from, from + (n - 1), g)
    BY <2>1
  <2>3. PICK to \in Nat : to = from + n
    BY <1>3
  <2> DEFINE h == [k \in from .. to |-> IF k = to THEN g[to - 1] + steps[to] ELSE g[k]]
  <2>4. \A k \in from .. to : k # to => h[k] = IF k = from THEN 0 ELSE g[k - 1] + steps[k]
    BY <1>3, <2>2, <2>3 DEF Adding
  <2>5. Adding(steps, from, to, h)
    <3>1. SUFFICES ASSUME NEW k \in from .. to
                   PROVE  h[k] = IF k = from THEN 0 ELSE h[k - 1] + steps[k]
      BY DEF Adding
    <3>2. k # from => k - 1 \in from .. to /\ k - 1 # to /\ h[k - 1] = g[k - 1]
      BY <2>3
    <3>3. CASE k = to
      BY <1>3, <1>5, <2>3, <3>2, <3>3
    <3>4. CASE k # to
      BY <2>4, <3>2, <3>4
    <3>5. QED
      BY <3>3, <3>4
  <2>6. QED
    BY <1>3, <2>3, <2>5
<1>6. QED
  BY <1>4, <1>5

LEMMA AddingUnique ==
  ASSUME NEW steps, NEW from \in Nat, NEW to \in Nat, NEW g, NEW h,
         Adding(steps, from, to, g), Adding(steps, from, to, h)
  PROVE  \A k \in from .. to : g[k] = h[k]
<1> DEFINE S == {k \in from .. to : g[k] # h[k]}
<1>1. SUFFICES ASSUME S # {} PROVE FALSE
  OBVIOUS
<1>2. S \subseteq Nat
  OBVIOUS
<1>3. PICK k \in S : \A m \in S : k <= m
  BY <1>1, <1>2, Least
<1>4. k # from
  BY <1>3 DEF Adding
<1>5. k - 1 \in from .. to /\ k - 1 \notin S
  BY <1>3, <1>4
<1>6. g[k - 1] = h[k - 1]
  BY <1>5
<1>7. QED
  BY <1>3, <1>4, <1>6 DEF Adding

LEMMA SumIs ==
  ASSUME NEW steps, NEW from \in Nat, NEW to \in Nat, from <= to
  PROVE  \E g : Adding(steps, from, to, g) /\ Sum(steps, from, to) = g[to]
<1> DEFINE Body(g) == [k \in from .. to |-> IF k = from THEN 0 ELSE g[k - 1] + steps[k]]
<1>1. PICK f : Adding(steps, from, to, f)
  <2>1. to - from \in Nat /\ from + (to - from) = to
    OBVIOUS
  <2>2. QED
    BY <2>1, AddingExists
<1> DEFINE h == [k \in from .. to |-> f[k]]
<1>2. h = Body(h)
  <2>1. \A k \in from .. to : h[k] = IF k = from THEN 0 ELSE h[k - 1] + steps[k]
    BY <1>1 DEF Adding
  <2>2. QED
    BY <2>1
<1> HIDE DEF h
<1> DEFINE g == CHOOSE sum : sum = [k \in from .. to |-> IF k = from THEN 0 ELSE sum[k - 1] + steps[k]]
<1>3. g = Body(g)
  BY <1>2
<1>4. Sum(steps, from, to) = g[to]
  BY DEF Sum
<1> HIDE DEF g
<1>5. \A k \in from .. to : g[k] = Body(g)[k]
  BY <1>3
<1>6. Adding(steps, from, to, g)
  BY <1>5 DEF Adding
<1>7. QED
  BY <1>4, <1>6

LEMMA NoSum ==
  ASSUME NEW steps, NEW from \in Nat
  PROVE  Sum(steps, from, from) = 0
<1>1. PICK g : Adding(steps, from, from, g) /\ Sum(steps, from, from) = g[from]
  BY SumIs
<1>2. QED
  BY <1>1 DEF Adding

LEMMA SumOn ==
  ASSUME NEW steps, NEW from \in Nat, NEW to \in Nat, from < to
  PROVE  Sum(steps, from, to) = Sum(steps, from, to - 1) + steps[to]
<1>1. to - 1 \in Nat /\ from <= to - 1
  OBVIOUS
<1>2. PICK g : Adding(steps, from, to, g) /\ Sum(steps, from, to) = g[to]
  BY SumIs
<1>3. PICK h : Adding(steps, from, to - 1, h) /\ Sum(steps, from, to - 1) = h[to - 1]
  BY <1>1, SumIs
<1>4. Adding(steps, from, to - 1, g)
  BY <1>2 DEF Adding
<1>5. g[to - 1] = h[to - 1]
  BY <1>1, <1>3, <1>4, AddingUnique
<1>6. g[to] = g[to - 1] + steps[to]
  BY <1>2 DEF Adding
<1>7. QED
  BY <1>2, <1>3, <1>5, <1>6

LEMMA SumType ==
  ASSUME NEW steps, NEW from \in Nat, NEW to \in Nat, from <= to,
         \A k \in from + 1 .. to : steps[k] \in Int
  PROVE  Sum(steps, from, to) \in Int
<1>1. PICK g : Adding(steps, from, to, g) /\ Sum(steps, from, to) = g[to]
  BY SumIs
<1> DEFINE S == {k \in from .. to : g[k] \notin Int}
<1>2. SUFFICES ASSUME S # {} PROVE FALSE
  BY <1>1
<1>3. S \subseteq Nat
  OBVIOUS
<1>4. PICK k \in S : \A m \in S : k <= m
  BY <1>2, <1>3, Least
<1>5. k # from
  BY <1>1, <1>4 DEF Adding
<1>6. k - 1 \in from .. to /\ k - 1 \notin S /\ k \in from + 1 .. to
  BY <1>4, <1>5
<1>7. g[k - 1] \in Int /\ steps[k] \in Int
  BY <1>6
<1>8. g[k] = g[k - 1] + steps[k]
  BY <1>1, <1>4, <1>5 DEF Adding
<1>9. QED
  BY <1>4, <1>7, <1>8


LEMMA Greatest ==
  ASSUME NEW from \in Nat, NEW to \in Nat, NEW S, S \subseteq from .. to, S # {}
  PROVE  Seqs!Max(S) \in S /\ \A m \in S : m <= Seqs!Max(S)
<1> DEFINE D == {to - m : m \in S}
<1>1. D \subseteq Nat /\ D # {}
  <2>1. \A m \in S : to - m \in Nat
    OBVIOUS
  <2>2. QED
    BY <2>1
<1>2. PICK d \in D : \A e \in D : d <= e
  BY <1>1, Least
<1>3. PICK n \in S : d = to - n
  BY <1>2
<1>4. \A m \in S : to - n <= to - m
  BY <1>2, <1>3
<1> HIDE DEF D
<1>5. \A m \in S : n >= m
  BY <1>3, <1>4
<1>6. \E x \in S : \A y \in S : x >= y
  BY <1>3, <1>5
<1>7. Seqs!Max(S) \in S /\ \A y \in S : Seqs!Max(S) >= y
  BY <1>6 DEF Seqs!Max
<1>8. QED
  BY <1>7

LEMMA LastIn ==
  ASSUME NEW op, NEW k \in Nat, NEW from \in Nat, from <= k
  PROVE  LastOf(op, k, from) \in from .. k
<1> DEFINE S == {from} \cup {j \in from + 1 .. k : Program[j].op = op}
<1>1. S \subseteq from .. k /\ S # {}
  OBVIOUS
<1>2. Seqs!Max(S) \in S
  BY <1>1, Greatest
<1>3. LastOf(op, k, from) = Seqs!Max(S)
  BY DEF LastOf
<1>4. QED
  BY <1>1, <1>2, <1>3

LEMMA LastAtStart ==
  ASSUME NEW op, NEW from \in Nat
  PROVE  LastOf(op, from, from) = from
BY LastIn

LEMMA LastOn ==
  ASSUME NEW op, NEW k \in Nat, NEW from \in Nat, from < k
  PROVE  LastOf(op, k, from) = IF Program[k].op = op THEN k ELSE LastOf(op, k - 1, from)
<1> DEFINE S == {from} \cup {j \in from + 1 .. k : Program[j].op = op}
           T == {from} \cup {j \in from + 1 .. k - 1 : Program[j].op = op}
<1>1. LastOf(op, k, from) = Seqs!Max(S) /\ LastOf(op, k - 1, from) = Seqs!Max(T)
  BY DEF LastOf
<1>2. CASE Program[k].op = op
  <2>1. S \subseteq from .. k /\ k \in S
    BY <1>2
  <2>2. Seqs!Max(S) \in S /\ \A m \in S : m <= Seqs!Max(S)
    BY <2>1, Greatest
  <2>3. Seqs!Max(S) = k
    BY <2>1, <2>2
  <2>4. QED
    BY <1>1, <1>2, <2>3
<1>3. CASE Program[k].op # op
  <2>1. S = T
    BY <1>3
  <2>2. QED
    BY <1>1, <1>3, <2>1
<1>4. QED
  BY <1>2, <1>3

LEMMA SequenceIn ==
  ASSUME NEW k \in Nat \ {0}
  PROVE  SequenceOf(k) \in 0 .. k - 1
BY LastIn DEF SequenceOf

LEMMA SequenceOn ==
  ASSUME NEW k \in Nat \ {0}
  PROVE  SequenceOf(k + 1) = IF Program[k].op = "end_sequence" THEN k ELSE SequenceOf(k)
BY LastOn DEF SequenceOf

(* The registers in the sequence that begins after the instruction s, when the
   one at k has been executed. *)
AddressIn(s, k) ==
  LET set == LastOf("set_address", k, s)
  IN  Sum(PcSteps, set, k) + (IF set = s THEN 0 ELSE Program[set].n)
LineIn(s, k) == 1 + Sum(LineSteps, s, k)
FileIn(s, k) ==
  LET set == LastOf("set_file", k, s)
  IN  IF set = s THEN 1 ELSE Program[set].n

LEMMA RegistersAt ==
  ASSUME NEW k
  PROVE  /\ AddressAt(k) = AddressIn(SequenceOf(k), k)
         /\ LineAt(k) = LineIn(SequenceOf(k), k)
         /\ FileAt(k) = 1 + FileIn(SequenceOf(k), k)
BY DEF AddressAt, LineAt, FileAt, AddressIn, LineIn, FileIn

LEMMA RegistersStart ==
  ASSUME NEW s \in Nat
  PROVE  AddressIn(s, s) = 0 /\ LineIn(s, s) = 1 /\ FileIn(s, s) = 1
BY LastAtStart, NoSum DEF AddressIn, LineIn, FileIn

(* What an instruction says of the registers. *)
LEMMA StepTypes ==
  ASSUME LinesSound(header), NEW k \in DOMAIN Program
  PROVE  /\ PcSteps[k] = PcStep(Program[k]) /\ PcSteps[k] \in Int
         /\ LineSteps[k] = LineStepOf(Program[k]) /\ LineSteps[k] \in Int
<1>1. PICK i : i = Program[k]
  OBVIOUS
<1>2. InstructionSound(i) /\ header.lineBase \in Int /\ header.lineRange \in Nat \ {0} /\ header.opBase \in Nat
  BY <1>1 DEF LinesSound, Program
<1>3. PcStep(i) \in Int
  BY <1>2 DEF InstructionSound, PcStep, NumberOps
<1>4. i.op = "advance_line" => Meaning(i.groups) \in Int
  <2>1. SUFFICES ASSUME i.op = "advance_line" PROVE Meaning(i.groups) \in Int
    OBVIOUS
  <2>2. PICK u, l : u = Unsigned(i.groups) /\ l = Len(i.groups)
    OBVIOUS
  <2>3. u \in Nat /\ 2 ^ (GroupBits * l) \in Int
    BY <1>2, <2>1, <2>2, WidthAssumption DEF InstructionSound
  <2>4. QED
    BY <2>2, <2>3 DEF Meaning
<1>5. LineStepOf(i) \in Int
  BY <1>2, <1>4 DEF InstructionSound, LineStepOf
<1>6. QED
  BY <1>1, <1>3, <1>5 DEF PcSteps, LineSteps

LEMMA LastNumber ==
  ASSUME LinesSound(header), NEW s \in Nat, NEW k \in Nat, s <= k, k <= Len(Program),
         NEW op \in NumberOps, NEW last, last = LastOf(op, k, s)
  PROVE  last \in s .. k /\ (last # s => Program[last].n \in Int)
<1> DEFINE S == {s} \cup {j \in s + 1 .. k : Program[j].op = op}
<1>1. S \subseteq s .. k /\ S # {}
  OBVIOUS
<1>2. last \in S
  BY <1>1, Greatest DEF LastOf
<1>3. \A j \in s + 1 .. k : j \in DOMAIN Program
  BY DEF LinesSound, Program
<1>4. \A j \in s + 1 .. k : Program[j].op = op => Program[j].n \in Int
  BY <1>3 DEF LinesSound, Program, InstructionSound
<1>5. QED
  BY <1>1, <1>2, <1>4

LEMMA RegisterTypes ==
  ASSUME LinesSound(header), NEW s \in Nat, NEW k \in Nat, s <= k, k <= Len(Program)
  PROVE  AddressIn(s, k) \in Int /\ LineIn(s, k) \in Int /\ FileIn(s, k) \in Int
<1>1. \A j \in 1 .. k : j \in DOMAIN Program
  BY DEF LinesSound, Program
<1>2. \A j \in s + 1 .. k : PcSteps[j] \in Int /\ LineSteps[j] \in Int
  BY <1>1, StepTypes
<1>3. PICK a : a = LastOf("set_address", k, s)
  OBVIOUS
<1>4. PICK f : f = LastOf("set_file", k, s)
  OBVIOUS
<1>5. a \in s .. k /\ (a # s => Program[a].n \in Int)
  BY <1>3, LastNumber DEF NumberOps
<1>6. f \in s .. k /\ (f # s => Program[f].n \in Int)
  BY <1>4, LastNumber DEF NumberOps
<1>7. Sum(PcSteps, a, k) \in Int
  BY <1>2, <1>5, SumType
<1>8. Sum(LineSteps, s, k) \in Int
  BY <1>2, SumType
<1>9. QED
  BY <1>3, <1>4, <1>5, <1>6, <1>7, <1>8 DEF AddressIn, LineIn, FileIn

LEMMA RegistersOn ==
  ASSUME LinesSound(header), NEW s \in Nat, NEW k \in Nat, s < k, k <= Len(Program)
  PROVE  /\ AddressIn(s, k) = IF Program[k].op = "set_address" THEN Program[k].n
                              ELSE AddressIn(s, k - 1) + PcStep(Program[k])
         /\ LineIn(s, k) = LineIn(s, k - 1) + LineStepOf(Program[k])
         /\ FileIn(s, k) = IF Program[k].op = "set_file" THEN Program[k].n ELSE FileIn(s, k - 1)
<1>1. k - 1 \in Nat /\ s <= k - 1 /\ k - 1 <= Len(Program) /\ k \in DOMAIN Program /\ Len(Program) \in Nat
  BY DEF LinesSound, Program
<1>2. /\ PcSteps[k] = PcStep(Program[k]) /\ PcSteps[k] \in Int
      /\ LineSteps[k] = LineStepOf(Program[k]) /\ LineSteps[k] \in Int
  BY <1>1, StepTypes
<1>3. LineIn(s, k) = LineIn(s, k - 1) + LineStepOf(Program[k])
  <2>1. \A j \in s + 1 .. k - 1 : j \in DOMAIN Program
    BY <1>1 DEF LinesSound, Program
  <2>2. Sum(LineSteps, s, k - 1) \in Int
    BY <1>1, <2>1, StepTypes, SumType
  <2>3. Sum(LineSteps, s, k) = Sum(LineSteps, s, k - 1) + LineSteps[k]
    BY SumOn
  <2>4. QED
    BY <1>2, <2>2, <2>3 DEF LineIn
<1>4. FileIn(s, k) = IF Program[k].op = "set_file" THEN Program[k].n ELSE FileIn(s, k - 1)
  <2>1. PICK f : f = LastOf("set_file", k - 1, s)
    OBVIOUS
  <2>2. f \in s .. k - 1
    BY <1>1, <2>1, LastIn
  <2>3. LastOf("set_file", k, s) = IF Program[k].op = "set_file" THEN k ELSE f
    BY <2>1, LastOn
  <2>4. QED
    BY <2>1, <2>2, <2>3 DEF FileIn
<1>5. AddressIn(s, k) = IF Program[k].op = "set_address" THEN Program[k].n
                        ELSE AddressIn(s, k - 1) + PcStep(Program[k])
  <2>1. CASE Program[k].op = "set_address"
    <3>1. LastOf("set_address", k, s) = k
      BY <2>1, LastOn
    <3>2. Program[k].n \in Int
      BY <1>1, <2>1 DEF LinesSound, Program, InstructionSound, NumberOps
    <3>3. AddressIn(s, k) = 0 + Program[k].n
      BY <3>1, NoSum DEF AddressIn
    <3>4. QED
      BY <2>1, <3>2, <3>3
  <2>2. CASE Program[k].op # "set_address"
    <3>1. PICK a : a = LastOf("set_address", k - 1, s)
      OBVIOUS
    <3>2. a \in s .. k - 1 /\ LastOf("set_address", k, s) = a
      BY <1>1, <2>2, <3>1, LastIn, LastOn
    <3>3. Sum(PcSteps, a, k) = Sum(PcSteps, a, k - 1) + PcSteps[k]
      BY <3>2, SumOn
    <3>4. \A j \in a + 1 .. k - 1 : j \in DOMAIN Program
      BY <1>1, <3>2 DEF LinesSound, Program
    <3>5. Sum(PcSteps, a, k - 1) \in Int
      BY <1>1, <3>2, <3>4, StepTypes, SumType
    <3>6. PICK rest : rest = IF a = s THEN 0 ELSE Program[a].n
      OBVIOUS
    <3>7. AddressIn(s, k - 1) = Sum(PcSteps, a, k - 1) + rest
      BY <3>1, <3>6 DEF AddressIn
    <3>8. AddressIn(s, k) = (Sum(PcSteps, a, k - 1) + PcSteps[k]) + rest
      BY <3>2, <3>3, <3>6 DEF AddressIn
    <3>9. rest \in Int
      <4>1. "set_address" \in NumberOps
        BY DEF NumberOps
      <4>2. a # s => Program[a].n \in Int
        BY <1>1, <3>1, <4>1, LastNumber
      <4>3. QED
        BY <3>6, <4>2
    <3>10. QED
      BY <1>2, <2>2, <3>5, <3>7, <3>8, <3>9
  <2>3. QED
    BY <2>1, <2>2
<1>6. QED
  BY <1>3, <1>4, <1>5


Registers(a, f, l, c) ==
  [address |-> a, opIndex |-> 0, file |-> f, line |-> l, column |-> c]

LEMMA RegistersRead ==
  ASSUME NEW a, NEW f, NEW l, NEW c, NEW m, m = Registers(a, f, l, c)
  PROVE  m.address = a /\ m.opIndex = 0 /\ m.file = f /\ m.line = l /\ m.column = c
BY DEF Registers

(* The machine, after the instruction at k of the sequence that begins after s. *)
Machine(s, k, c) == Registers(AddressIn(s, k), FileIn(s, k), LineIn(s, k), c)

LEMMA MachineStarts ==
  ASSUME NEW s \in Nat
  PROVE  Start = Machine(s, s, 0)
BY RegistersStart DEF Start, Machine, Registers

LEMMA SignedIsMeant ==
  ASSUME NEW i, InstructionSound(i), i.op = "advance_line",
         ~ Negative(i.groups) \/ GroupBits * Len(i.groups) < IntBits
  PROVE  Signed(i.groups) = Meaning(i.groups)
<1>1. PICK u, shift, m : u = Unsigned(i.groups) /\ shift = GroupBits * Len(i.groups) /\ m = 2 ^ shift
  OBVIOUS
<1>2. u \in 0 .. m - 1 /\ m \in Int /\ shift \in Nat
  BY <1>1, WidthAssumption DEF InstructionSound
<1>3. u % m = u
  BY <1>2
<1>4. CASE Negative(i.groups)
  <2>1. shift < IntBits /\ shift < LongBits
    BY <1>1, <1>2, <1>4, WidthAssumption
  <2>2. Signed(i.groups) = (u % m) - m
    BY <1>1, <1>4, <2>1 DEF Signed
  <2>3. QED
    BY <1>1, <1>3, <1>4, <2>2 DEF Meaning
<1>5. CASE ~ Negative(i.groups)
  <2>1. Signed(i.groups) = u
    BY <1>1, <1>5 DEF Signed
  <2>2. Meaning(i.groups) = u - 0
    BY <1>1, <1>5 DEF Meaning
  <2>3. QED
    BY <1>2, <2>1, <2>2
<1>6. QED
  BY <1>4, <1>5

(* What the registers are before an instruction of an ordinary program, and
   what they have to be after it. *)
LEMMA Around ==
  ASSUME LinesSound(header), Ordinary, NEW k \in 1 .. Len(Program), NEW i, i = Program[k],
         NEW s, s = SequenceOf(k)
  PROVE  /\ s \in Nat /\ s <= k - 1 /\ InstructionSound(i)
         /\ AddressIn(s, k - 1) \in Int /\ LineIn(s, k - 1) \in Int /\ FileIn(s, k - 1) \in Int
         /\ PcStep(i) \in Int /\ LineStepOf(i) \in Int
         /\ AddressIn(s, k) = IF i.op = "set_address" THEN i.n ELSE AddressIn(s, k - 1) + PcStep(i)
         /\ LineIn(s, k) = LineIn(s, k - 1) + LineStepOf(i)
         /\ FileIn(s, k) = IF i.op = "set_file" THEN i.n ELSE FileIn(s, k - 1)
         /\ Wrapped(AddressIn(s, k), LongBits) = AddressIn(s, k)
         /\ Wrapped(LineIn(s, k), IntBits) = LineIn(s, k)
<1>1. k \in Nat \ {0} /\ k <= Len(Program) /\ k \in DOMAIN Program /\ Len(Program) \in Nat
  BY DEF LinesSound, Program
<1>2. s \in Nat /\ s <= k - 1 /\ s < k /\ k - 1 \in Nat /\ k - 1 <= Len(Program)
  BY <1>1, SequenceIn
<1>3. AddressIn(s, k - 1) \in Int /\ LineIn(s, k - 1) \in Int /\ FileIn(s, k - 1) \in Int
  BY <1>2, RegisterTypes
<1>4. PcStep(i) \in Int /\ LineStepOf(i) \in Int
  BY <1>1, StepTypes
<1>5. InstructionSound(i)
  BY <1>1 DEF LinesSound, Program
<1>6. /\ Wrapped(AddressIn(s, k), LongBits) = AddressIn(s, k)
      /\ Wrapped(LineIn(s, k), IntBits) = LineIn(s, k)
  BY <1>1, RegistersAt DEF Ordinary
<1>7. QED
  BY <1>1, <1>2, <1>3, <1>4, <1>5, <1>6, RegistersOn

LEMMA AdvancedIs ==
  ASSUME header.minInst = 1, header.maxOps = 1, NEW n \in Int,
         NEW a \in Int, NEW f, NEW l, NEW c, NEW m, m = Registers(a, f, l, c)
  PROVE  Advanced(m, n) = Registers(Wrapped(a + n, LongBits), f, l, c)
<1> m.address = a /\ m.opIndex = 0
  BY RegistersRead
<1>1. (header.minInst * (m.opIndex + n)) \div header.maxOps = n
  OBVIOUS
<1>2. (m.opIndex + n) % header.maxOps = 0
  OBVIOUS
<1>3. Advanced(m, n) = [m EXCEPT !.address = Wrapped(a + n, LongBits), !.opIndex = 0]
  BY <1>1, <1>2 DEF Advanced
<1>4. m = Registers(a, f, l, c)
  OBVIOUS
<1>5. ASSUME NEW v PROVE [m EXCEPT !.address = v, !.opIndex = 0] = Registers(v, f, l, c)
  <2>1. [m EXCEPT !.address = v] = Registers(v, f, l, c)
    BY <1>4 DEF Registers
  <2>2. [Registers(v, f, l, c) EXCEPT !.opIndex = 0] = Registers(v, f, l, c)
    BY DEF Registers
  <2>3. QED
    BY ONLY <2>1, <2>2
<1>6. QED
  BY <1>3, <1>5

(* Each instruction does to the registers what it says. *)
LEMMA SpecialExecuted ==
  ASSUME LinesSound(header), Ordinary, NEW k \in 1 .. Len(Program), NEW i, i = Program[k],
         NEW s, s = SequenceOf(k), NEW c, NEW m, m = Machine(s, k - 1, c), i.op = "special"
  PROVE  [ByCode(m, i.code) EXCEPT !.line = Wrapped(@ + LineStep(i.code), IntBits)]
           = Machine(s, k, c)
<1>1. PICK a, l, f, n, d : /\ a = AddressIn(s, k - 1) /\ l = LineIn(s, k - 1) /\ f = FileIn(s, k - 1)
                           /\ n = PcStep(i) /\ d = LineStepOf(i)
  OBVIOUS
<1>2. /\ a \in Int /\ l \in Int /\ n \in Int /\ d \in Int
      /\ AddressIn(s, k) = a + n /\ LineIn(s, k) = l + d /\ FileIn(s, k) = f
      /\ Wrapped(a + n, LongBits) = a + n /\ Wrapped(l + d, IntBits) = l + d
  BY <1>1, Around
<1>3. m = Registers(a, f, l, c)
  BY <1>1 DEF Machine
<1>4. n = Adjusted(i.code) \div header.lineRange /\ d = LineStep(i.code)
  BY <1>1 DEF PcStep, LineStepOf, Adjusted, LineStep
<1>5. PICK b : b = ByCode(m, i.code)
  OBVIOUS
<1>6. b = Registers(a + n, f, l, c)
  BY <1>2, <1>3, <1>4, <1>5, AdvancedIs DEF ByCode, Ordinary
<1>7. b.line = l /\ [b EXCEPT !.line = l + d] = Registers(a + n, f, l + d, c)
  BY <1>6, RegistersRead DEF Registers
<1>8. Wrapped(b.line + LineStep(i.code), IntBits) = l + d
  BY <1>2, <1>4, <1>7
<1>9. QED
  BY <1>2, <1>5, <1>7, <1>8 DEF Machine

LEMMA CopyExecuted ==
  ASSUME LinesSound(header), Ordinary, NEW k \in 1 .. Len(Program), NEW i, i = Program[k],
         NEW s, s = SequenceOf(k), NEW c, i.op \in Silent \cup {"copy", "end_sequence", "set_column"}
  PROVE  Machine(s, k - 1, c) = Machine(s, k, c)
<1>1. PcStep(i) = 0 /\ LineStepOf(i) = 0 /\ i.op # "set_address" /\ i.op # "set_file"
  BY DEF PcStep, LineStepOf, Silent
<1>2. AddressIn(s, k) = AddressIn(s, k - 1) + 0 /\ LineIn(s, k) = LineIn(s, k - 1) + 0
  BY <1>1, Around
<1>3. FileIn(s, k) = FileIn(s, k - 1)
  BY <1>1, Around
<1>4. AddressIn(s, k - 1) \in Int /\ LineIn(s, k - 1) \in Int
  BY Around
<1>5. QED
  BY <1>2, <1>3, <1>4 DEF Machine

LEMMA OtherExecuted ==
  ASSUME LinesSound(header), Ordinary, NEW k \in 1 .. Len(Program), NEW i, i = Program[k],
         NEW s, s = SequenceOf(k), NEW c \in Nat, machine = Machine(s, k - 1, c),
         i.op \notin {"copy", "end_sequence", "special", "unknown"}
  PROVE  \E e \in Nat : Executed(i) = Machine(s, k, e)
<1>1. PICK a, l, f, n, d : /\ a = AddressIn(s, k - 1) /\ l = LineIn(s, k - 1) /\ f = FileIn(s, k - 1)
                           /\ n = PcStep(i) /\ d = LineStepOf(i)
  OBVIOUS
<1>2. /\ a \in Int /\ l \in Int /\ n \in Int /\ d \in Int /\ InstructionSound(i)
      /\ AddressIn(s, k) = IF i.op = "set_address" THEN i.n ELSE a + n
      /\ LineIn(s, k) = l + d
      /\ FileIn(s, k) = IF i.op = "set_file" THEN i.n ELSE f
      /\ Wrapped(AddressIn(s, k), LongBits) = AddressIn(s, k)
      /\ Wrapped(l + d, IntBits) = l + d
  BY <1>1, Around
<1>3. machine = Registers(a, f, l, c)
  BY <1>1 DEF Machine
<1>4. \A e : Machine(s, k, e) = Registers(AddressIn(s, k), FileIn(s, k), l + d, e)
  BY <1>2 DEF Machine
<1>5. CASE i.op \in Silent
  <2>1. Machine(s, k - 1, c) = Machine(s, k, c)
    BY <1>5, CopyExecuted
  <2>2. Executed(i) = machine
    BY <1>5 DEF Executed, Silent
  <2>3. QED
    BY <2>1, <2>2
<1>6. CASE i.op = "advance_pc"
  <2>1. n = i.n /\ d = 0
    BY <1>1, <1>6 DEF PcStep, LineStepOf
  <2>2. Wrapped(a + n, LongBits) = a + n /\ AddressIn(s, k) = a + n /\ FileIn(s, k) = f
    BY <1>2, <1>6
  <2>3. Executed(i) = Registers(a + n, f, l, c)
    BY <1>2, <1>3, <1>6, <2>1, <2>2, AdvancedIs DEF Executed, Silent, Ordinary
  <2>4. Executed(i) = Machine(s, k, c)
    BY <1>2, <1>4, <2>1, <2>2, <2>3
  <2>5. QED
    BY <2>4
<1>7. CASE i.op = "const_add_pc"
  <2>1. n = Adjusted(255) \div header.lineRange /\ d = 0
    BY <1>1, <1>7 DEF PcStep, LineStepOf, Adjusted
  <2>2. Wrapped(a + n, LongBits) = a + n /\ AddressIn(s, k) = a + n /\ FileIn(s, k) = f
    BY <1>2, <1>7
  <2>3. Executed(i) = Registers(a + n, f, l, c)
    BY <1>2, <1>3, <1>7, <2>1, <2>2, AdvancedIs DEF Executed, Silent, ByCode, Ordinary
  <2>4. Executed(i) = Machine(s, k, c)
    BY <1>2, <1>4, <2>1, <2>2, <2>3
  <2>5. QED
    BY <2>4
<1>8. CASE i.op = "fixed_advance_pc"
  <2>1. n = i.n /\ d = 0
    BY <1>1, <1>8 DEF PcStep, LineStepOf
  <2>2. Wrapped(a + n, LongBits) = a + n /\ AddressIn(s, k) = a + n /\ FileIn(s, k) = f
    BY <1>2, <1>8
  <2>3. machine.address = a
    BY <1>3, RegistersRead
  <2>4. Executed(i) = [machine EXCEPT !.address = a + n, !.opIndex = 0]
    BY <1>8, <2>1, <2>2, <2>3 DEF Executed, Silent
  <2>5. Executed(i) = Registers(a + n, f, l, c)
    <3>1. ASSUME NEW v PROVE [machine EXCEPT !.address = v, !.opIndex = 0] = Registers(v, f, l, c)
      <4>1. [machine EXCEPT !.address = v] = Registers(v, f, l, c)
        BY <1>3 DEF Registers
      <4>2. [Registers(v, f, l, c) EXCEPT !.opIndex = 0] = Registers(v, f, l, c)
        BY DEF Registers
      <4>3. QED
        BY ONLY <4>1, <4>2
    <3>2. QED
      BY <2>4, <3>1
  <2>6. Machine(s, k, c) = Registers(a + n, f, l, c)
    BY <1>2, <1>4, <2>1, <2>2
  <2>7. QED
    BY <2>5, <2>6
<1>9. CASE i.op = "set_address"
  <2>1. d = 0
    BY <1>1, <1>9 DEF LineStepOf
  <2>2. Executed(i) = [machine EXCEPT !.address = i.n, !.opIndex = 0]
    BY <1>9 DEF Executed, Silent
  <2>3. Executed(i) = Registers(i.n, f, l, c)
    <3>1. ASSUME NEW v PROVE [machine EXCEPT !.address = v, !.opIndex = 0] = Registers(v, f, l, c)
      <4>1. [machine EXCEPT !.address = v] = Registers(v, f, l, c)
        BY <1>3 DEF Registers
      <4>2. [Registers(v, f, l, c) EXCEPT !.opIndex = 0] = Registers(v, f, l, c)
        BY DEF Registers
      <4>3. QED
        BY ONLY <4>1, <4>2
    <3>2. QED
      BY <2>2, <3>1
  <2>4. Machine(s, k, c) = Registers(i.n, f, l, c)
    BY <1>2, <1>4, <1>9, <2>1
  <2>5. QED
    BY <2>3, <2>4
<1>10. CASE i.op = "set_file"
  <2>1. n = 0 /\ d = 0
    BY <1>1, <1>10 DEF PcStep, LineStepOf
  <2>2. Executed(i) = [machine EXCEPT !.file = i.n]
    BY <1>10 DEF Executed, Silent
  <2>3. Executed(i) = Machine(s, k, c)
    BY <1>2, <1>3, <1>4, <1>10, <2>1, <2>2 DEF Registers
  <2>4. QED
    BY <2>3
<1>11. CASE i.op = "set_column"
  <2>1. n = 0 /\ d = 0 /\ i.n \in Nat
    BY <1>1, <1>2, <1>11 DEF PcStep, LineStepOf, InstructionSound, NumberOps
  <2>2. Executed(i) = [machine EXCEPT !.column = i.n]
    BY <1>11 DEF Executed, Silent
  <2>3. Executed(i) = Registers(a, f, l, i.n)
    <3>1. ASSUME NEW v PROVE [machine EXCEPT !.column = v] = Registers(a, f, l, v)
      BY <1>3 DEF Registers
    <3>2. QED
      BY <2>2, <3>1
  <2>4. Machine(s, k, i.n) = Registers(a, f, l, i.n)
    BY <1>2, <1>4, <1>11, <2>1
  <2>5. QED
    BY <2>1, <2>3, <2>4
<1>12. CASE i.op = "advance_line"
  <2>1. k \in DOMAIN Program
    BY DEF LinesSound, Program
  <2>2. Signed(i.groups) = Meaning(i.groups)
    BY <1>2, <1>12, <2>1, SignedIsMeant DEF Ordinary
  <2>3. n = 0 /\ d = Signed(i.groups)
    BY <1>1, <1>12, <2>2 DEF PcStep, LineStepOf
  <2>4. Executed(i) = [machine EXCEPT !.line = Wrapped(l + d, IntBits)]
    BY <1>3, <1>12, <2>3, RegistersRead DEF Executed, Silent
  <2>5. Executed(i) = Registers(a, f, l + d, c)
    <3>1. ASSUME NEW v PROVE [machine EXCEPT !.line = v] = Registers(a, f, v, c)
      BY <1>3 DEF Registers
    <3>2. QED
      BY <1>2, <2>4, <3>1
  <2>6. Machine(s, k, c) = Registers(a, f, l + d, c)
    BY <1>2, <1>4, <1>12, <2>3
  <2>7. QED
    BY <2>5, <2>6
<1>13. QED
  BY <1>2, <1>5, <1>6, <1>7, <1>8, <1>9, <1>10, <1>11, <1>12 DEF InstructionSound, NumberOps, Silent


(* The matrix has a row for each of the instructions before n that adds one,
   and no others. *)
Rows == [address : Int, file : Int, line : Int, column : Nat]
IsRow(r, k) ==
  r.address = AddressAt(k) /\ r.line = LineAt(k) /\ r.file = FileIn(SequenceOf(k), k)
Collected(rows, n) ==
  /\ \A m \in DOMAIN rows : \E k \in Adds : k < n /\ IsRow(rows[m], k)
  /\ \A k \in Adds : k < n => \E m \in DOMAIN rows : IsRow(rows[m], k)
Ascending(rows) == \A i, j \in DOMAIN rows : i < j => rows[i].address <= rows[j].address

LinesInv ==
  pc \in {"program", "matrix"} =>
    /\ LinesSound(header)
    /\ Ordinary =>
         /\ next \in 1 .. Len(Program) + 1
         /\ matrix \in Seq(Rows) /\ Collected(matrix, next)
         /\ pc = "program" => \E c \in Nat : machine = Machine(SequenceOf(next), next - 1, c)
         /\ pc = "matrix" => next = Len(Program) + 1 /\ Ascending(matrix)

(* What is said of the program depends on the program alone. *)
LEMMA SameSteps ==
  ASSUME UNCHANGED header
  PROVE  Program' = Program /\ Adds' = Adds /\ PcSteps' = PcSteps /\ LineSteps' = LineSteps
<1>1. Program' = Program
  BY DEF Program
<1>2. Adds' = Adds
  BY <1>1 DEF Adds
<1>3. \A i : PcStep(i)' = PcStep(i)
  BY DEF PcStep
<1>4. \A i : LineStepOf(i)' = LineStepOf(i)
  BY DEF LineStepOf
<1>5. PcSteps' = PcSteps
  BY <1>1, <1>3 DEF PcSteps
<1>6. LineSteps' = LineSteps
  BY <1>1, <1>4 DEF LineSteps
<1>7. QED
  BY <1>1, <1>2, <1>5, <1>6

LEMMA SameLast ==
  ASSUME UNCHANGED header
  PROVE  \A op, k, s : LastOf(op, k, s)' = LastOf(op, k, s)
<1>1. SUFFICES ASSUME NEW op, NEW k, NEW s PROVE LastOf(op, k, s)' = LastOf(op, k, s)
  OBVIOUS
<1>2. {s} \cup {j \in s + 1 .. k : Program'[j].op = op} = {s} \cup {j \in s + 1 .. k : Program[j].op = op}
  BY SameSteps
<1>3. QED
  BY <1>2 DEF LastOf

LEMMA SameRegisters ==
  ASSUME UNCHANGED header
  PROVE  /\ \A k : SequenceOf(k)' = SequenceOf(k)
         /\ \A s, k : AddressIn(s, k)' = AddressIn(s, k)
         /\ \A s, k : LineIn(s, k)' = LineIn(s, k)
         /\ \A s, k : FileIn(s, k)' = FileIn(s, k)
<1>1. \A k : SequenceOf(k)' = SequenceOf(k)
  BY SameLast DEF SequenceOf
<1>2. \A s, k : AddressIn(s, k)' = AddressIn(s, k)
  BY SameSteps, SameLast DEF AddressIn
<1>3. \A s, k : LineIn(s, k)' = LineIn(s, k)
  BY SameSteps DEF LineIn
<1>4. \A s, k : FileIn(s, k)' = FileIn(s, k)
  BY SameSteps, SameLast DEF FileIn
<1>5. QED
  BY <1>1, <1>2, <1>3, <1>4

LEMMA SameProgram ==
  ASSUME UNCHANGED header
  PROVE  /\ Ordinary' <=> Ordinary
         /\ LinesSound(header)' <=> LinesSound(header)
         /\ \A rows, n : Collected(rows, n)' <=> Collected(rows, n)
         /\ \A s, k, c : Machine(s, k, c)' = Machine(s, k, c)
<1>1. \A k : AddressAt(k)' = AddressAt(k)
  BY SameSteps, SameLast, SameRegisters DEF AddressAt
<1>2. \A k : LineAt(k)' = LineAt(k)
  BY SameSteps, SameRegisters DEF LineAt
<1>3. Ordinary' <=> Ordinary
  BY <1>1, <1>2, SameSteps DEF Ordinary
<1>4. \A r, k : IsRow(r, k)' <=> IsRow(r, k)
  BY <1>1, <1>2, SameRegisters DEF IsRow
<1>5. \A rows, n : Collected(rows, n)' <=> Collected(rows, n)
  BY <1>4, SameSteps DEF Collected
<1>6. \A s, k, c : Machine(s, k, c)' = Machine(s, k, c)
  BY SameRegisters DEF Machine
<1>7. QED
  BY <1>3, <1>5, <1>6

LEMMA RowAppended ==
  ASSUME LinesSound(header), NEW k \in Adds, NEW c \in Nat, NEW s, s = SequenceOf(k),
         NEW rows \in Seq(Rows), Collected(rows, k), NEW row,
         row = [address |-> AddressIn(s, k), file |-> FileIn(s, k), line |-> LineIn(s, k), column |-> c]
  PROVE  Append(rows, row) \in Seq(Rows) /\ Collected(Append(rows, row), k + 1)
<1>1. k \in 1 .. Len(Program) /\ Len(Program) \in Nat /\ Adds \subseteq Nat
  BY DEF Adds, LinesSound, Program
<1>2. s \in Nat /\ s <= k
  BY <1>1, SequenceIn
<1>3. row \in Rows
  BY <1>1, <1>2, RegisterTypes DEF Rows
<1>4. IsRow(row, k)
  BY RegistersAt DEF IsRow
<1>5. PICK n \in Nat : n = Len(rows) /\ DOMAIN rows = 1 .. n
  OBVIOUS
<1>6. PICK more : more = Append(rows, row)
  OBVIOUS
<1>7. /\ more \in Seq(Rows) /\ DOMAIN more = 1 .. n + 1 /\ more[n + 1] = row
      /\ \A m \in 1 .. n : more[m] = rows[m]
  BY <1>3, <1>5, <1>6
<1>8. ASSUME NEW m \in 1 .. n + 1
      PROVE  \E j \in Adds : j < k + 1 /\ IsRow(more[m], j)
  <2>1. CASE m = n + 1
    BY <1>1, <1>4, <1>7, <2>1
  <2>2. CASE m # n + 1
    <3>1. m \in 1 .. n
      BY <2>2
    <3>2. PICK j \in Adds : j < k /\ IsRow(rows[m], j)
      BY <1>5, <3>1 DEF Collected
    <3>3. j < k + 1
      BY <1>1, <3>2
    <3>4. QED
      BY <1>7, <3>1, <3>2, <3>3
  <2>3. QED
    BY <2>1, <2>2
<1>9. ASSUME NEW j \in Adds, j < k + 1
      PROVE  \E m \in 1 .. n + 1 : IsRow(more[m], j)
  <2>1. CASE j = k
    <3>1. n + 1 \in 1 .. n + 1
      OBVIOUS
    <3>2. QED
      BY <1>4, <1>7, <2>1, <3>1
  <2>2. CASE j # k
    <3>1. j < k
      BY <1>1, <1>9, <2>2
    <3>2. PICK m \in 1 .. n : IsRow(rows[m], j)
      BY <1>5, <3>1 DEF Collected
    <3>3. m \in 1 .. n + 1
      OBVIOUS
    <3>4. QED
      BY <1>7, <3>2, <3>3
  <2>3. QED
    BY <2>1, <2>2
<1>10. Collected(more, k + 1)
  BY <1>7, <1>8, <1>9 DEF Collected
<1>11. QED
  BY <1>6, <1>7, <1>10

LEMMA RowNotAppended ==
  ASSUME LinesSound(header), NEW k \in 1 .. Len(Program), k \notin Adds,
         NEW rows, Collected(rows, k)
  PROVE  Collected(rows, k + 1)
<1>1. Adds \subseteq Nat /\ k \in Nat
  BY DEF Adds, LinesSound, Program
<1>2. \A j \in Adds : j < k + 1 <=> j < k
  BY <1>1
<1>3. QED
  BY <1>2 DEF Collected


(* One instruction is executed. *)
LEMMA OneExecuted ==
  ASSUME LinesSound(header), Ordinary, next \in 1 .. Len(Program), matrix \in Seq(Rows),
         Collected(matrix, next), ExecuteOne,
         NEW s, s = SequenceOf(next), NEW c \in Nat, machine = Machine(s, next - 1, c)
  PROVE  /\ matrix' \in Seq(Rows) /\ Collected(matrix', next + 1)
         /\ \E e \in Nat : machine' = Machine(SequenceOf(next + 1), next, e)
<1>1. PICK k, i : k = next /\ i = Program[k]
  OBVIOUS
<1>2. k \in 1 .. Len(Program) /\ k \in DOMAIN Program /\ k \in Nat \ {0} /\ Len(Program) \in Nat
  BY <1>1 DEF LinesSound, Program
<1>3. s \in Nat /\ s <= k
  BY <1>1, <1>2, SequenceIn
<1>4. i.op # "end_sequence" => SequenceOf(k + 1) = s
  BY <1>1, <1>2, SequenceOn
<1>5. ~ Stops(i)
  BY <1>1 DEF ExecuteOne, Program
<1>6. CASE i.op = "copy"
  <2>1. matrix' = Append(matrix, Row) /\ machine' = machine
    BY <1>1, <1>6 DEF ExecuteOne, Program
  <2>2. machine = Machine(s, k, c) /\ k \in Adds
    BY <1>1, <1>2, <1>6, CopyExecuted DEF Adds
  <2>3. Row = [address |-> AddressIn(s, k), file |-> FileIn(s, k), line |-> LineIn(s, k), column |-> c]
    BY <2>2, RegistersRead DEF Row, Machine
  <2>4. matrix' \in Seq(Rows) /\ Collected(matrix', k + 1)
    BY <1>1, <2>1, <2>2, <2>3, RowAppended
  <2>5. QED
    BY <1>1, <1>4, <1>6, <2>1, <2>2, <2>4
<1>7. CASE i.op = "end_sequence"
  <2>1. matrix' = Append(matrix, Row) /\ machine' = Start
    BY <1>1, <1>7 DEF ExecuteOne, Program
  <2>2. machine = Machine(s, k, c) /\ k \in Adds
    BY <1>1, <1>2, <1>7, CopyExecuted DEF Adds
  <2>3. Row = [address |-> AddressIn(s, k), file |-> FileIn(s, k), line |-> LineIn(s, k), column |-> c]
    BY <2>2, RegistersRead DEF Row, Machine
  <2>4. matrix' \in Seq(Rows) /\ Collected(matrix', k + 1)
    BY <1>1, <2>1, <2>2, <2>3, RowAppended
  <2>5. SequenceOf(k + 1) = k
    BY <1>1, <1>2, <1>7, SequenceOn
  <2>6. machine' = Machine(SequenceOf(k + 1), k, 0)
    BY <1>2, <2>1, <2>5, MachineStarts
  <2>7. QED
    BY <1>1, <2>4, <2>6
<1>8. CASE i.op = "special"
  <2>1. /\ machine' = [ByCode(machine, i.code) EXCEPT !.line = Wrapped(@ + LineStep(i.code), IntBits)]
        /\ matrix' = Append(matrix, Row')
    BY <1>1, <1>8 DEF ExecuteOne, Program
  <2>2. machine' = Machine(s, k, c)
    BY <1>1, <1>2, <1>8, <2>1, SpecialExecuted
  <2>3. PICK m : m = Machine(s, k, c)
    OBVIOUS
  <2>4. machine' = m
    BY <2>2, <2>3
  <2>5. Row' = [address |-> m.address, file |-> m.file, line |-> m.line, column |-> m.column]
    BY <2>4 DEF Row
  <2>6. m.address = AddressIn(s, k) /\ m.file = FileIn(s, k) /\ m.line = LineIn(s, k) /\ m.column = c
    BY <2>3, RegistersRead DEF Machine
  <2>7. PICK row : row = Row'
    OBVIOUS
  <2>8. row = [address |-> AddressIn(s, k), file |-> FileIn(s, k), line |-> LineIn(s, k), column |-> c]
    BY <2>5, <2>6, <2>7
  <2>9. k \in Adds
    BY <1>1, <1>2, <1>8 DEF Adds
  <2>10. Append(matrix, row) \in Seq(Rows) /\ Collected(Append(matrix, row), k + 1)
    BY <1>1, <2>8, <2>9, RowAppended
  <2>11. matrix' = Append(matrix, row)
    BY <2>1, <2>7
  <2>12. machine' = Machine(SequenceOf(k + 1), k, c)
    BY <1>4, <1>8, <2>2
  <2>13. QED
    BY <1>1, <2>10, <2>11, <2>12
<1>9. CASE i.op \notin {"copy", "end_sequence", "special"}
  <2>1. machine' = Executed(i) /\ matrix' = matrix
    BY <1>1, <1>9 DEF ExecuteOne, Program
  <2>2. i.op # "unknown"
    BY <1>5 DEF Stops
  <2>3. PICK e \in Nat : Executed(i) = Machine(s, k, e)
    BY <1>1, <1>2, <1>9, <2>2, OtherExecuted
  <2>4. k \notin Adds
    BY <1>1, <1>9 DEF Adds
  <2>5. Collected(matrix, k + 1)
    BY <1>1, <1>2, <2>4, RowNotAppended
  <2>6. machine' = Machine(SequenceOf(k + 1), k, e)
    BY <1>4, <1>9, <2>1, <2>3
  <2>7. QED
    BY <1>1, <2>1, <2>5, <2>6
<1>10. QED
  BY <1>6, <1>7, <1>8, <1>9

(* The matrix is sorted: each row has a place of its own, and the rows are the
   same. *)
LEMMA RowsTyped ==
  ASSUME NEW rows \in Seq(Rows), NEW l \in Nat, DOMAIN rows = 1 .. l
  PROVE  \A i \in 1 .. l : rows[i] \in Rows /\ rows[i].address \in Int
<1>1. SUFFICES ASSUME NEW i \in 1 .. l PROVE rows[i] \in Rows /\ rows[i].address \in Int
  OBVIOUS
<1>2. rows[i] \in Rows
  OBVIOUS
<1>3. QED
  BY <1>2 DEF Rows

LEMMA PlacesInOrder ==
  ASSUME NEW rows \in Seq(Rows), NEW l \in Nat, DOMAIN rows = 1 .. l
  PROVE  /\ \A i \in 1 .. l : Place(rows, i) \in 1 .. l
         /\ \A i, j \in 1 .. l : Precedes(rows, i, j) => Place(rows, i) < Place(rows, j)
<1> DEFINE Below(i) == {j \in 1 .. l : Precedes(rows, j, i)}
<1>1. \A i \in 1 .. l : rows[i].address \in Int
  BY RowsTyped
<1>2. IsFiniteSet(1 .. l) /\ Cardinality(1 .. l) = l
  BY FS_Interval
<1>3. \A i : IsFiniteSet(Below(i)) /\ Cardinality(Below(i)) \in Nat
  BY <1>2, FS_Subset, FS_CardinalityType
<1>4. \A i : Place(rows, i) = 1 + Cardinality(Below(i))
  BY DEF Place
<1>5. ASSUME NEW i \in 1 .. l, NEW j \in 1 .. l, Precedes(rows, i, j)
      PROVE  Place(rows, i) < Place(rows, j)
  <2>1. Below(i) \subseteq Below(j)
    BY <1>1, <1>5 DEF Precedes
  <2>2. i \in Below(j) /\ i \notin Below(i)
    BY <1>1, <1>5 DEF Precedes
  <2>3. Below(i) # Below(j)
    BY <2>2
  <2>4. Cardinality(Below(i)) <= Cardinality(Below(j)) /\ Cardinality(Below(i)) # Cardinality(Below(j))
    <3>1. PICK S, T : S = Below(i) /\ T = Below(j)
      OBVIOUS
    <3>2. IsFiniteSet(T) /\ S \subseteq T /\ S # T
      BY <1>3, <2>1, <2>3, <3>1
    <3> HIDE DEF Below
    <3>3. Cardinality(S) <= Cardinality(T) /\ Cardinality(S) # Cardinality(T)
      BY ONLY <3>2, FS_Subset
    <3>4. QED
      BY <3>1, <3>3
  <2>5. PICK b \in Nat, c \in Nat : b = Cardinality(Below(i)) /\ c = Cardinality(Below(j))
    BY <1>3
  <2>6. Place(rows, i) = 1 + b /\ Place(rows, j) = 1 + c
    BY <1>4, <2>5
  <2>7. b < c
    BY <2>4, <2>5
  <2>8. QED
    BY <2>6, <2>7
<1>6. ASSUME NEW i \in 1 .. l
      PROVE  Place(rows, i) \in 1 .. l
  <2>1. Below(i) \subseteq 1 .. l
    OBVIOUS
  <2>2. i \notin Below(i)
    BY <1>1 DEF Precedes
  <2>3. Below(i) # 1 .. l
    BY <2>2
  <2>4. Cardinality(Below(i)) <= l /\ Cardinality(Below(i)) # l
    <3>1. PICK S, T : S = Below(i) /\ T = 1 .. l
      OBVIOUS
    <3>2. IsFiniteSet(T) /\ Cardinality(T) = l /\ S \subseteq T /\ S # T
      BY <1>2, <2>1, <2>3, <3>1
    <3> HIDE DEF Below
    <3>3. Cardinality(S) <= Cardinality(T) /\ Cardinality(S) # Cardinality(T)
      BY ONLY <3>2, FS_Subset
    <3>4. QED
      BY <3>1, <3>2, <3>3
  <2>5. PICK b \in Nat : b = Cardinality(Below(i))
    BY <1>3
  <2>6. Place(rows, i) = 1 + b
    BY <1>4, <2>5
  <2>7. b < l
    BY <2>4, <2>5
  <2>8. QED
    BY <2>6, <2>7
<1>7. QED
  BY <1>5, <1>6

LEMMA PlacesTaken ==
  ASSUME NEW rows \in Seq(Rows), NEW l \in Nat, DOMAIN rows = 1 .. l
  PROVE  \A k \in 1 .. l : \E i \in 1 .. l : Place(rows, i) = k
<1> DEFINE f == [i \in 1 .. l |-> Place(rows, i)]
<1>1. \A i \in 1 .. l : rows[i].address \in Int
  BY RowsTyped
<1>2. \A i, j \in 1 .. l : i # j => Precedes(rows, i, j) \/ Precedes(rows, j, i)
  BY <1>1 DEF Precedes
<1>3. \A i, j \in 1 .. l : i # j => Place(rows, i) # Place(rows, j)
  BY <1>2, PlacesInOrder
<1>4. f \in [1 .. l -> 1 .. l] /\ \A i, j \in 1 .. l : f[i] = f[j] => i = j
  BY <1>3, PlacesInOrder
<1> HIDE DEF f
<1>5. f \in Injection(1 .. l, 1 .. l)
  BY <1>4 DEF Injection, IsInjective
<1>6. IsFiniteSet(1 .. l)
  BY FS_Interval
<1>7. f \in Surjection(1 .. l, 1 .. l)
  BY <1>5, <1>6, FS_Injection
<1>8. \A k \in 1 .. l : \E i \in 1 .. l : f[i] = k
  BY <1>7 DEF Surjection
<1>9. QED
  BY <1>8 DEF f

LEMMA Sorting ==
  ASSUME NEW rows \in Seq(Rows), NEW n, Collected(rows, n), NEW more, more = InOrder(rows)
  PROVE  more \in Seq(Rows) /\ Ascending(more) /\ Collected(more, n)
<1>1. PICK l \in Nat : DOMAIN rows = 1 .. l
  OBVIOUS
<1> DEFINE p == [k \in 1 .. l |-> CHOOSE i \in 1 .. l : Place(rows, i) = k]
<1>2. more = [k \in 1 .. l |-> rows[p[k]]]
  BY <1>1 DEF InOrder
<1>3. \A k \in 1 .. l : p[k] \in 1 .. l /\ Place(rows, p[k]) = k
  BY <1>1, PlacesTaken
<1> HIDE DEF p
<1>4. \A k \in 1 .. l : rows[k] \in Rows /\ rows[k].address \in Int
  BY <1>1, RowsTyped
<1>5. more \in [1 .. l -> Rows]
  BY <1>2, <1>3, <1>4
<1>6. more \in Seq(Rows) /\ DOMAIN more = 1 .. l
  BY <1>5
<1>7. Ascending(more)
  <2>1. SUFFICES ASSUME NEW i \in 1 .. l, NEW j \in 1 .. l, i < j
                 PROVE  more[i].address <= more[j].address
    BY <1>6 DEF Ascending
  <2>2. p[i] \in 1 .. l /\ p[j] \in 1 .. l /\ ~ (Place(rows, p[j]) < Place(rows, p[i]))
    BY <1>3, <2>1
  <2>3. ~ Precedes(rows, p[j], p[i])
    BY <1>1, <2>2, PlacesInOrder
  <2>4. ~ (rows[p[j]].address < rows[p[i]].address)
    BY <2>3 DEF Precedes
  <2>5. rows[p[i]].address \in Int /\ rows[p[j]].address \in Int
    BY <1>4, <2>2
  <2>6. rows[p[i]].address <= rows[p[j]].address
    BY <2>4, <2>5
  <2>7. QED
    BY <1>2, <2>6
<1>8. Collected(more, n)
  <2>1. ASSUME NEW m \in 1 .. l
        PROVE  \E k \in Adds : k < n /\ IsRow(more[m], k)
    <3>1. p[m] \in 1 .. l /\ more[m] = rows[p[m]]
      BY <1>2, <1>3
    <3>2. QED
      BY <1>1, <3>1 DEF Collected
  <2>2. ASSUME NEW k \in Adds, k < n
        PROVE  \E m \in 1 .. l : IsRow(more[m], k)
    <3>1. PICK w \in 1 .. l : IsRow(rows[w], k)
      BY <1>1, <2>2 DEF Collected
    <3>2. PICK v \in 1 .. l : v = Place(rows, w)
      BY <1>1, PlacesInOrder
    <3>3. p[v] = w
      <4>1. p[v] \in 1 .. l /\ Place(rows, p[v]) = Place(rows, w)
        BY <1>3, <3>2
      <4>2. \A i, j \in 1 .. l : i # j => Precedes(rows, i, j) \/ Precedes(rows, j, i)
        BY <1>4 DEF Precedes
      <4>3. QED
        BY <1>1, <4>1, <4>2, PlacesInOrder
    <3>4. more[v] = rows[w]
      BY <1>2, <3>3
    <3>5. QED
      BY <3>1, <3>4
  <2>3. QED
    BY <1>6, <2>1, <2>2 DEF Collected
<1>9. QED
  BY <1>6, <1>7, <1>8


(* So it is in the next state, whatever program has been read. *)
LEMMA MachineStartsNext == (Start = Machine(0, 0, 0))'
<1>1. ASSUME NEW op PROVE LastOf(op, 0, 0)' = 0
  <2> DEFINE S == {0} \cup {j \in 0 + 1 .. 0 : Program'[j].op = op}
  <2>1. S \subseteq 0 .. 0 /\ S # {}
    OBVIOUS
  <2>2. Seqs!Max(S) \in S
    BY <2>1, Greatest
  <2>3. LastOf(op, 0, 0)' = Seqs!Max(S)
    BY DEF LastOf
  <2>4. QED
    BY <2>1, <2>2, <2>3
<1>2. \A steps : Sum(steps, 0, 0) = 0
  BY NoSum
<1>3. AddressIn(0, 0)' = 0
  BY <1>1, <1>2 DEF AddressIn
<1>4. LineIn(0, 0)' = 1
  BY <1>2 DEF LineIn
<1>5. FileIn(0, 0)' = 1
  BY <1>1 DEF FileIn
<1>6. QED
  BY <1>3, <1>4, <1>5 DEF Start, Machine, Registers

(* The program of a module is opened and run. *)
LEMMA LinesOpened ==
  ASSUME dwarf \in Infos, OpenLines, pc' = "program"
  PROVE  LinesInv'
<1>1. stmt \in DOMAIN dwarf.lines /\ ReadLines(dwarf.lines[stmt])
  BY DEF OpenLines, Lose, Fail, Return
<1>2. PICK h : h = dwarf.lines[stmt]
  OBVIOUS
<1>3. LinesSound(h)
  BY <1>1, <1>2, InfosAssumption
<1>4. /\ header' = [h EXCEPT !.dirs = Dirs(h.dirs), !.files = Files(h.files)]
      /\ next' = 1 /\ machine' = Start /\ matrix' = <<>>
  BY <1>1, <1>2 DEF ReadLines
<1>5. PICK g : g = header'
  OBVIOUS
<1>6. /\ DOMAIN g = DOMAIN h /\ g.program = h.program
      /\ g.minInst = h.minInst /\ g.maxOps = h.maxOps /\ g.lineBase = h.lineBase
      /\ g.lineRange = h.lineRange /\ g.opBase = h.opBase
  BY <1>3, <1>4, <1>5 DEF LinesSound
<1>7. LinesSound(g)
  BY <1>3, <1>6 DEF LinesSound
<1>8. Len(g.program) \in Nat
  BY <1>7 DEF LinesSound
<1>9. 1 \in 1 .. Len(g.program) + 1
  BY <1>8
<1>10. \A k \in Adds' : ~ (k < 1)
  BY <1>5, <1>7 DEF Adds, Program, LinesSound
<1>11. PICK none : none = matrix'
  OBVIOUS
<1>12. none \in Seq(Rows) /\ DOMAIN none = {}
  BY <1>4, <1>11
<1>13. Collected(none, 1)'
  BY <1>10, <1>12 DEF Collected
<1>14. (SequenceOf(1) = 0)'
  BY LastAtStart DEF SequenceOf, LastOf
<1>15. (Start = Machine(0, 0, 0))'
  BY MachineStartsNext
<1>16. QED
  BY <1>4, <1>5, <1>7, <1>9, <1>11, <1>12, <1>13, <1>14, <1>15 DEF LinesInv, Program

LEMMA LinesExecuted ==
  ASSUME LinesInv, Execute, pc' # "ready"
  PROVE  LinesInv'
<1>1. pc = "program" /\ LinesSound(header)
  BY DEF Execute, LinesInv
<1>2. UNCHANGED header
  BY DEF Execute, ExecuteOne, Fail, Return
<1>3. LinesSound(header)'
  BY <1>1, <1>2, SameProgram
<1>4. SUFFICES ASSUME Ordinary
               PROVE  /\ next' \in 1 .. Len(Program) + 1
                      /\ matrix' \in Seq(Rows) /\ Collected(matrix', next')
                      /\ pc' = "program" =>
                           \E c \in Nat : machine' = Machine(SequenceOf(next'), next' - 1, c)
                      /\ pc' = "matrix" => next' = Len(Program) + 1 /\ Ascending(matrix')
  <2>1. SUFFICES ASSUME Ordinary'
                 PROVE  /\ next' \in 1 .. Len(Program') + 1
                        /\ matrix' \in Seq(Rows) /\ Collected(matrix, next)'
                        /\ pc' = "program" =>
                             \E c \in Nat : machine' = Machine(SequenceOf(next), next - 1, c)'
                        /\ pc' = "matrix" => next' = Len(Program') + 1 /\ Ascending(matrix')
    BY <1>3 DEF LinesInv, Ascending, Rows
  <2>2. Program' = Program /\ Ordinary
    BY <1>2, <2>1, SameSteps, SameProgram
  <2>3. Collected(matrix, next)' <=> Collected(matrix', next')
    BY <1>2, SameProgram
  <2>4. \A c : Machine(SequenceOf(next), next - 1, c)' = Machine(SequenceOf(next'), next' - 1, c)
    BY <1>2, SameProgram, SameRegisters
  <2>5. QED
    BY <1>4, <2>2, <2>3, <2>4
<1>5. /\ next \in 1 .. Len(Program) + 1 /\ matrix \in Seq(Rows) /\ Collected(matrix, next)
      /\ \E c \in Nat : machine = Machine(SequenceOf(next), next - 1, c)
  BY <1>1, <1>4 DEF LinesInv
<1>6. Len(Program) \in Nat
  BY <1>1 DEF LinesSound, Program
<1>7. CASE ExecuteOne /\ pc' = pc
  <2>1. ~ AtEnd /\ next' = next + 1
    BY <1>7 DEF ExecuteOne
  <2>2. next \in 1 .. Len(Program)
    BY <1>5, <1>6, <2>1 DEF AtEnd, Program
  <2>3. PICK c \in Nat : machine = Machine(SequenceOf(next), next - 1, c)
    BY <1>5
  <2>4. /\ matrix' \in Seq(Rows) /\ Collected(matrix', next + 1)
        /\ \E e \in Nat : machine' = Machine(SequenceOf(next + 1), next, e)
    BY <1>1, <1>4, <1>5, <1>7, <2>2, <2>3, OneExecuted
  <2>5. next' \in 1 .. Len(Program) + 1 /\ next' - 1 = next
    BY <1>6, <2>1, <2>2
  <2>6. QED
    BY <1>1, <1>7, <2>1, <2>4, <2>5
<1>8. CASE AtEnd /\ matrix' = InOrder(matrix) /\ pc' = "matrix" /\ next' = next
  <2>1. next = Len(Program) + 1
    BY <1>5, <1>6, <1>8 DEF AtEnd, Program
  <2>2. matrix' \in Seq(Rows) /\ Ascending(matrix') /\ Collected(matrix', next)
    BY <1>5, <1>8, Sorting
  <2>3. QED
    BY <1>5, <1>8, <2>1, <2>2
<1>9. QED
  BY <1>1, <1>7, <1>8 DEF Execute, Fail, Return

(* What is found in a matrix that is sorted and complete. *)
LEMMA RowFound ==
  ASSUME LinesSound(header), matrix \in Seq(Rows), Ascending(matrix),
         Collected(matrix, Len(Program) + 1), NEW a \in Nat, Claimed(a), NEW k, k = RowAt(a)
  PROVE  k \in DOMAIN matrix /\ k # 0 /\ \E j \in Applying(a) : IsRow(matrix[k], j)
<1>1. PICK l \in Nat : DOMAIN matrix = 1 .. l
  OBVIOUS
<1>2. \A m \in 1 .. l : matrix[m].address \in Int
  BY <1>1, RowsTyped
<1>3. Len(Program) \in Nat /\ Adds \subseteq 1 .. Len(Program)
  BY DEF Adds, LinesSound, Program
<1>4. \A j \in Adds : AddressAt(j) \in Int
  <2>1. SUFFICES ASSUME NEW j \in Adds PROVE AddressAt(j) \in Int
    OBVIOUS
  <2>2. j \in Nat \ {0} /\ j <= Len(Program)
    BY <1>3
  <2>3. SequenceOf(j) \in Nat /\ SequenceOf(j) <= j
    BY <2>2, SequenceIn
  <2>4. QED
    BY <2>2, <2>3, RegistersAt, RegisterTypes
<1>5. \A j \in Adds : \E m \in 1 .. l : matrix[m].address = AddressAt(j)
  <2>1. SUFFICES ASSUME NEW j \in Adds
                 PROVE  \E m \in 1 .. l : matrix[m].address = AddressAt(j)
    OBVIOUS
  <2>2. j < Len(Program) + 1
    BY <1>3
  <2>3. PICK m \in DOMAIN matrix : IsRow(matrix[m], j)
    BY <2>2 DEF Collected
  <2>4. QED
    BY <1>1, <2>3 DEF IsRow
<1>6. \A m \in 1 .. l : \E j \in Adds : IsRow(matrix[m], j) /\ AddressAt(j) = matrix[m].address
  BY <1>1 DEF Collected, IsRow
<1> DEFINE Above == {m \in 1 .. l : matrix[m].address >= a}
           f == CHOOSE m \in Above : \A j \in Above : m <= j
<1>7. Above # {} /\ Above \subseteq Nat
  BY <1>5 DEF Claimed
<1>8. f \in Above /\ \A j \in Above : f <= j
  BY <1>7, Least
<1>9. k = IF matrix[f].address = a THEN f ELSE f - 1
  BY <1>1, <1>7 DEF RowAt
<1> HIDE DEF f
<1>10. f \in 1 .. l /\ matrix[f].address >= a
  BY <1>8
<1>11. \A i, j \in 1 .. l : i < j => matrix[i].address <= matrix[j].address
  BY <1>1 DEF Ascending
<1>12. CASE matrix[f].address = a
  <2>1. PICK j \in Adds : IsRow(matrix[f], j) /\ AddressAt(j) = a
    BY <1>6, <1>10, <1>12
  <2>2. j \in Applying(a)
    BY <2>1 DEF Applying
  <2>3. QED
    BY <1>1, <1>9, <1>10, <1>12, <2>1, <2>2
<1>13. CASE matrix[f].address # a
  <2>1. matrix[f].address > a
    BY <1>2, <1>10, <1>13
  <2>2. \A m \in 1 .. l : matrix[m].address <= a => m <= f - 1
    BY <1>2, <1>10, <1>11, <2>1
  <2>3. PICK q \in Adds : AddressAt(q) <= a
    BY DEF Claimed, Applying
  <2>4. f - 1 \in 1 .. l
    BY <1>5, <1>10, <2>2, <2>3
  <2>5. f - 1 \notin Above
    BY <1>8, <1>10
  <2>6. matrix[f - 1].address < a
    BY <1>2, <2>4, <2>5
  <2>7. PICK j \in Adds : IsRow(matrix[f - 1], j) /\ AddressAt(j) = matrix[f - 1].address
    BY <1>6, <2>4
  <2>8. ASSUME NEW i \in Adds, AddressAt(i) <= a
        PROVE  AddressAt(i) <= AddressAt(j)
    <3>1. PICK m \in 1 .. l : matrix[m].address = AddressAt(i)
      BY <1>5
    <3>2. m <= f - 1
      BY <2>2, <2>8, <3>1
    <3>3. matrix[m].address <= matrix[f - 1].address
      BY <1>2, <1>10, <1>11, <2>4, <3>2
    <3>4. QED
      BY <2>7, <3>1, <3>3
  <2>9. j \in Applying(a)
    BY <1>2, <2>4, <2>6, <2>7, <2>8 DEF Applying
  <2>10. k = f - 1
    BY <1>9, <1>13
  <2>11. QED
    BY <1>1, <2>4, <2>7, <2>9, <2>10
<1>14. QED
  BY <1>12, <1>13

LEMMA LinesFound ==
  ASSUME LinesInv
  PROVE  LineRight
<1>1. SUFFICES ASSUME pc = "matrix", Ordinary, OneFile, NEW a \in Addresses, Claimed(a),
                      NEW k, k = RowAt(a)
               PROVE  /\ k # 0
                      /\ Answer(Preferred(k)).line \in {LineAt(j) : j \in Applying(a)}
                      /\ Answer(Preferred(k)).file = header.files[1].name
                      /\ Answer(Preferred(k)).dir = header.dirs[header.files[1].dir + 1]
  BY DEF LineRight
<1>2. /\ LinesSound(header) /\ matrix \in Seq(Rows) /\ Ascending(matrix)
      /\ Collected(matrix, Len(Program) + 1)
  BY <1>1 DEF LinesInv
<1>3. a \in Nat
  BY <1>1, InfosAssumption
<1>4. k \in DOMAIN matrix /\ k # 0 /\ \E j \in Applying(a) : IsRow(matrix[k], j)
  BY <1>1, <1>2, <1>3, RowFound
<1>5. PICK j \in Applying(a) : IsRow(matrix[k], j)
  BY <1>4
<1>6. j \in Adds
  BY DEF Applying
<1>7. j \in Nat \ {0} /\ j <= Len(Program)
  BY <1>2, <1>6 DEF Adds, LinesSound, Program
<1>8. SequenceOf(j) \in Nat /\ SequenceOf(j) <= j
  BY <1>7, SequenceIn
<1>9. FileIn(SequenceOf(j), j) \in Int /\ FileAt(j) = 1 + FileIn(SequenceOf(j), j)
  BY <1>2, <1>7, <1>8, RegistersAt, RegisterTypes
<1>10. matrix[k].file + 1 = FileAt(j) /\ matrix[k].line = LineAt(j)
  BY <1>5, <1>9 DEF IsRow
<1>11. FileOf(k) = header.files[1]
  BY <1>1, <1>6, <1>10 DEF FileOf, OneFile
<1>12. Preferred(k) = k
  BY <1>11 DEF Preferred, InMainFile
<1>13. Answer(k).line = LineAt(j) /\ Answer(k).file = header.files[1].name
       /\ Answer(k).dir = header.dirs[header.files[1].dir + 1]
  BY <1>10, <1>11 DEF Answer
<1>14. QED
  BY <1>4, <1>12, <1>13



(* No other action leads to where a line program is run or searched. *)
LEMMA LinesElsewhere ==
  ASSUME \/ Open \/ ReadSet \/ ReadRange \/ EndOfRanges \/ AstrayInRanges
         \/ (\E a \in Addresses : Search(a)) \/ ReadUnit \/ ReadAttribute
  PROVE  pc' \notin {"program", "matrix"}
<1>1. CASE Open
  BY <1>1 DEF Open
<1>2. CASE ReadSet
  BY <1>2 DEF ReadSet, Stop
<1>3. CASE ReadRange
  BY <1>3 DEF ReadRange, Stop
<1>4. CASE EndOfRanges
  BY <1>4 DEF EndOfRanges, Stop
<1>5. CASE AstrayInRanges
  BY <1>5 DEF AstrayInRanges
<1>6. CASE \E a \in Addresses : Search(a)
  <2>1. PICK a \in Addresses : Search(a)
    BY <1>6
  <2>2. pc \in {"ready", "failed"} /\ (pc' = "unit" \/ pc' = pc)
    BY <2>1 DEF Search
  <2>3. QED
    BY <2>2
<1>7. CASE ReadUnit
  <2>1. pc' = "ready" \/ pc' = "attributes"
    BY <1>7 DEF ReadUnit, Fail, Return
  <2>2. QED
    BY <2>1
<1>8. CASE ReadAttribute
  <2>1. pc' = "ready" \/ pc' = "attributes" \/ pc' = "lost"
    BY <1>8 DEF ReadAttribute, Fail, Return, Lose
  <2>2. QED
    BY <2>1
<1>9. QED
  BY <1>1, <1>2, <1>3, <1>4, <1>5, <1>6, <1>7, <1>8

LEMMA LinesInit ==
  ASSUME DwarfInit
  PROVE  LinesInv
BY DEF DwarfInit, LinesInv

LEMMA LinesStay ==
  ASSUME LinesInv, UNCHANGED dwarfVars
  PROVE  LinesInv'
<1>1. UNCHANGED <<pc, header, next, machine, matrix>>
  BY DEF dwarfVars, lineVars
<1>2. Program' = Program /\ (\A k : SequenceOf(k)' = SequenceOf(k))
  BY <1>1, SameSteps, SameRegisters
<1>3. \A s, k, c : Machine(s, k, c)' = Machine(s, k, c)
  BY <1>1, SameProgram
<1>4. \A rows, n : Collected(rows, n)' <=> Collected(rows, n)
  BY <1>1, SameProgram
<1>5. (Ordinary' <=> Ordinary) /\ (LinesSound(header)' <=> LinesSound(header))
  BY <1>1, SameProgram
<1>6. SUFFICES ASSUME pc \in {"program", "matrix"}
               PROVE  LinesInv'
  BY <1>1 DEF LinesInv
<1>7. LinesSound(header)
  BY <1>6 DEF LinesInv
<1>8. CASE ~ Ordinary
  BY <1>5, <1>7, <1>8 DEF LinesInv
<1>9. CASE Ordinary
  <2>1. /\ next \in 1 .. Len(Program) + 1
        /\ matrix \in Seq(Rows) /\ Collected(matrix, next)
        /\ pc = "program" => \E c \in Nat : machine = Machine(SequenceOf(next), next - 1, c)
        /\ pc = "matrix" => next = Len(Program) + 1 /\ Ascending(matrix)
    BY <1>6, <1>9 DEF LinesInv
  <2>2. Collected(matrix, next)'
    BY <1>1, <1>4, <2>1
  <2>3. \A c : Machine(SequenceOf(next), next - 1, c)' = Machine(SequenceOf(next), next - 1, c)
    BY <1>1, <1>2, <1>3
  <2>4. (pc = "program" => \E c \in Nat : machine = Machine(SequenceOf(next), next - 1, c))'
    BY <1>1, <2>1, <2>3
  <2>5. (next \in 1 .. Len(Program) + 1 /\ matrix \in Seq(Rows))'
    BY <1>1, <1>2, <2>1 DEF Rows
  <2>6. (pc = "matrix" => next = Len(Program) + 1 /\ Ascending(matrix))'
    BY <1>1, <1>2, <2>1 DEF Ascending
  <2>7. QED
    BY <1>5, <1>7, <2>2, <2>4, <2>5, <2>6 DEF LinesInv
<1>10. QED
  BY <1>8, <1>9

LEMMA LinesStep ==
  ASSUME RangesInv, LinesInv, [DwarfNext]_dwarfVars
  PROVE  LinesInv'
<1>1. CASE pc' \notin {"program", "matrix"}
  BY <1>1 DEF LinesInv
<1>2. CASE pc' \in {"program", "matrix"} /\ DwarfNext
  <2>1. OpenLines \/ Execute \/ SearchLines
    BY <1>2, LinesElsewhere DEF DwarfNext
  <2>2. CASE OpenLines
    <3>1. dwarf \in Infos
      BY DEF RangesInv
    <3>2. pc' \in {"program", "ready", "lost"}
      BY <2>2 DEF OpenLines, Fail, Return, Lose
    <3>3. QED
      BY <1>2, <2>2, <3>1, <3>2, LinesOpened
  <2>3. CASE Execute
    BY <1>2, <2>3, LinesExecuted
  <2>4. CASE SearchLines
    <3>1. pc' \in {"ready", "lost"}
      BY <2>4 DEF SearchLines, Fail, Return, Lose
    <3>2. QED
      BY <1>2, <3>1
  <2>5. QED
    BY <2>1, <2>2, <2>3, <2>4
<1>3. CASE UNCHANGED dwarfVars
  BY <1>3, LinesStay
<1>4. QED
  BY <1>1, <1>2, <1>3

(* The line and the file that are found for an address are those of a row at
   the greatest address that is not above it, in a program whose sequences come
   in any order, whatever instructions it is made of: the registers that the
   instructions leave are the ones that the program adds up to, and sorting the
   rows neither loses nor repeats one (DwarfLineUtil::execLineProgram,
   advancePC, searchLineMatrix). *)
THEOREM LinesKept == DwarfSpec => []LineRight
<1>1. RangesInv /\ LinesInv /\ [DwarfNext]_dwarfVars => RangesInv' /\ LinesInv'
  BY RangesStep, LinesStep
<1>2. DwarfInit => RangesInv /\ LinesInv
  BY RangesInit, LinesInit
<1>3. LinesInv => LineRight
  BY LinesFound
<1>4. QED
  BY <1>1, <1>2, <1>3, PTL DEF DwarfSpec
=============================================================================
