----------------------------- MODULE ModuleCache -----------------------------
(***************************************************************************)
(* The module manager (OsModuleManager, LinuxModuleManager).               *)
(*                                                                         *)
(* The modules a process has loaded are kept in a set behind a shared      *)
(* mutex.  A question the set cannot answer reads /proc/self/maps, clears  *)
(* the set and fills it again, module by module, each under the lock but   *)
(* not all under one; several threads may do so at once, while modules are *)
(* loaded and unloaded.                                                    *)
(*                                                                         *)
(* One step is one critical section, or one system call outside the lock.  *)
(* Every call of a thread is described by goal[t], and ends with mpc[t] at *)
(* "done" or "failed" and the answer in info[t].  A thread that traverses  *)
(* the set (forEachModule) is in readers for as long as it holds the lock. *)
(***************************************************************************)
EXTENDS Integers, FiniteSets

CONSTANTS
  Thread,    (* threads of the process                                   *)
  Module,    (* modules, each at one place, perhaps that of another one *)
  Main,      (* the executable                                           *)
  NoModule,  (* the module of an empty OsModuleInfo                      *)
  Span,      (* the addresses from the start to the end of each module   *)
  ArgvIsPath (* argv[0] is the path that /proc/self/maps shows           *)

ASSUME MainAssumption == Main \in Module
ASSUME NoModuleAssumption == NoModule \notin Module
ASSUME SpanAssumption == Span \in [Module -> (SUBSET (Nat \ {0})) \ {{}}]
ASSUME ArgvIsPathAssumption == ArgvIsPath \in BOOLEAN

Address == UNION {Span[m] : m \in Module}
Base(m) == CHOOSE a \in Span[m] : \A b \in Span[m] : a <= b

(* An OsModuleInfo: its module, and whether m_size is known or zero. *)
Info == [module : Module \cup {NoModule}, sized : BOOLEAN]
Sized(m) == [module |-> m, sized |-> TRUE]
Unsized(m) == [module |-> m, sized |-> FALSE]
NoInfo == Unsized(NoModule)
LoadAddress(i) == IF i.module = NoModule THEN 0 ELSE Base(i.module)

(* What a caller asks for. *)
ByAddress(a) == [kind |-> "address", of |-> a]
ByName(m) == [kind |-> "name", of |-> m]
TheMain == [kind |-> "main", of |-> Main]
TheList == [kind |-> "list", of |-> Main]
Goal == {ByAddress(a) : a \in Address} \cup {ByName(m) : m \in Module} \cup {TheMain, TheList}

VARIABLES
  loaded,     (* the modules in the address space now                    *)
  past,       (* those that have been unloaded                           *)
  moduleSet,  (* m_moduleSet                                             *)
  mainModule, (* {m_mainModule}, {} while m_mainModuleValid is false      *)
  readers,    (* threads that hold m_lock while they traverse            *)
  mpc,        (* where each thread is in a call of the module manager    *)
  goal,       (* what it asks for                                        *)
  info,       (* the OsModuleInfo it gets                                *)
  maps        (* modules it has read and not yet added                   *)

processVars == <<loaded, past>>
cacheVars == <<moduleSet, mainModule, readers>>
callVars == <<mpc, goal, info, maps>>
cacheModuleVars == <<processVars, cacheVars, callVars>>

CacheInit ==
  /\ loaded = {Main}
  /\ past = {}
  /\ moduleSet = {}
  /\ mainModule = {}
  /\ readers = {}
  /\ mpc = [t \in Thread |-> "idle"]
  /\ goal = [t \in Thread |-> TheList]
  /\ info = [t \in Thread |-> NoInfo]
  /\ maps = [t \in Thread |-> {}]

-----------------------------------------------------------------------------
(* The process.                                                            *)

Load(m) ==
  /\ m \notin loaded \cup past
  /\ \A n \in loaded : Span[m] \cap Span[n] = {}
  /\ loaded' = loaded \cup {m}
  /\ UNCHANGED <<past, cacheVars, callVars>>

Unload(m) ==
  /\ m \in loaded \ {Main}
  /\ loaded' = loaded \ {m}
  /\ past' = past \cup {m}
  /\ UNCHANGED <<cacheVars, callVars>>

-----------------------------------------------------------------------------
(* Searching.                                                              *)

Contains(i, a) == i.sized /\ a \in Span[i.module]

(* The infos of S do not overlap. *)
Extent(i) == IF i.sized THEN Span[i.module] ELSE {LoadAddress(i)}
Apart(S) == \A i, j \in S : i # j => Extent(i) \cap Extent(j) = {}

(* What a binary search for the address a in the sorted infos S may find: the
   one that contains it; when infos overlap, as they do when one of them is of
   a module that is gone or the size of one is not known, the search may go
   astray. *)
FoundIn(S, a) ==
  LET hits == {i \in S : Contains(i, a)} IN
  IF hits = {} THEN {NoInfo} ELSE IF Apart(S) THEN hits ELSE hits \cup {NoInfo}

(* std::set::insert: an entry at the same load address stays. *)
At(S, a) == {j \in S : LoadAddress(j) = a}
Inserted(S, i) == IF At(S, LoadAddress(i)) # {} THEN S ELSE S \cup {i}

-----------------------------------------------------------------------------
(* The calls.                                                              *)

FirstStep(g) ==
  CASE g.kind = "address" -> "lookup"
    [] g.kind = "name" -> "search"
    [] g.kind = "main" -> "main"
    [] g.kind = "list" -> "maps"

(* getModuleByAddress, getModuleByName, getMainModule or refreshModuleList is
   called, with an empty OsModuleInfo for the answer. *)
Ask(t, g) ==
  /\ mpc[t] = "idle"
  /\ mpc' = [mpc EXCEPT ![t] = FirstStep(g)]
  /\ goal' = [goal EXCEPT ![t] = g]
  /\ info' = [info EXCEPT ![t] = NoInfo]
  /\ UNCHANGED <<processVars, cacheVars, maps>>

(* The caller takes the answer, and is finished with it. *)
Forgets(t) ==
  /\ goal' = [goal EXCEPT ![t] = TheList]
  /\ info' = [info EXCEPT ![t] = NoInfo]

Answered(t) ==
  /\ mpc[t] \in {"done", "failed"}
  /\ mpc' = [mpc EXCEPT ![t] = "idle"]
  /\ UNCHANGED maps

(* getModuleByAddress looks into the set. *)
LookupCached(t) ==
  /\ mpc[t] = "lookup"
  /\ \E i \in FoundIn(moduleSet, goal[t].of) :
       IF i # NoInfo
         THEN /\ info' = [info EXCEPT ![t] = i]
              /\ mpc' = [mpc EXCEPT ![t] = "done"]
         ELSE /\ mpc' = [mpc EXCEPT ![t] = "maps"]
              /\ UNCHANGED info
  /\ UNCHANGED <<processVars, cacheVars, goal, maps>>

(* getModuleByName searches the set; not finding the module, it refreshes the
   list and searches once more, or gives up when it was not told to. *)
SearchByName(t) ==
  /\ mpc[t] \in {"search", "search again"}
  /\ LET hits == {i \in moduleSet : i.module = goal[t].of} IN
     IF hits # {}
       THEN /\ \E i \in hits : info' = [info EXCEPT ![t] = i]
            /\ mpc' = [mpc EXCEPT ![t] = "done"]
       ELSE /\ \E next \in IF mpc[t] = "search" THEN {"maps", "failed"} ELSE {"failed"} :
                 mpc' = [mpc EXCEPT ![t] = next]
            /\ UNCHANGED info
  /\ UNCHANGED <<processVars, cacheVars, goal, maps>>

(* getMainModule looks at m_mainModule. *)
LookupMain(t) ==
  /\ mpc[t] = "main"
  /\ IF mainModule # {}
       THEN /\ \E i \in mainModule : info' = [info EXCEPT ![t] = i]
            /\ mpc' = [mpc EXCEPT ![t] = "done"]
       ELSE /\ mpc' = [mpc EXCEPT ![t] = "maps"]
            /\ UNCHANGED info
  /\ UNCHANGED <<processVars, cacheVars, goal, maps>>

(* /proc/self/maps is read, which may fail, and may miss some modules. *)
ReadMaps(t) ==
  /\ mpc[t] = "maps"
  /\ \/ /\ mpc' = [mpc EXCEPT ![t] = "failed"]
        /\ UNCHANGED maps
     \/ /\ mpc' = [mpc EXCEPT ![t] = "clear"]
        /\ \E S \in SUBSET (loaded \ {Main}) : maps' = [maps EXCEPT ![t] = S \cup {Main}]
  /\ UNCHANGED <<processVars, cacheVars, goal, info>>

(* A fault: the set is cleared without the lock. *)
NobodyMinds == TRUE

(* m_lock can be had for writing. *)
NobodyReads == readers = {}

ClearModuleSet(t) ==
  /\ mpc[t] = "clear"
  /\ NobodyReads
  /\ moduleSet' = {}
  /\ mpc' = [mpc EXCEPT ![t] = "add"]
  /\ UNCHANGED <<processVars, mainModule, readers, goal, info, maps>>

(* m is the module the thread asks for: the one that contains the address, or
   the one whose path is that of the process. *)
Asked(t, m) ==
  \/ goal[t].kind = "address" /\ goal[t].of \in Span[m]
  \/ goal[t].kind = "main" /\ m = Main /\ ArgvIsPath

(* setMainModule: the first one wins. *)
MainSet(i) == IF mainModule = {} THEN {i} ELSE mainModule

(* One module is added, and is the answer when it is the one asked for; the
   main module is found on the way. *)
AddModule(t) ==
  /\ mpc[t] = "add"
  /\ NobodyReads
  /\ \E m \in maps[t] :
       /\ moduleSet' = Inserted(moduleSet, Sized(m))
       /\ maps' = [maps EXCEPT ![t] = @ \ {m}]
       /\ info' = IF Asked(t, m) THEN [info EXCEPT ![t] = Sized(m)] ELSE info
       /\ mpc' = IF m = Main /\ ArgvIsPath THEN [mpc EXCEPT ![t] = "found"] ELSE mpc
  /\ UNCHANGED <<processVars, mainModule, readers, goal>>

(* The main module found is remembered, under the lock once more. *)
SetFoundMain(t) ==
  /\ mpc[t] = "found"
  /\ NobodyReads
  /\ mainModule' = MainSet(Sized(Main))
  /\ mpc' = [mpc EXCEPT ![t] = "add"]
  /\ UNCHANGED <<processVars, moduleSet, readers, goal, info, maps>>

(* The end of refreshOsModuleList, and what the caller does next. *)
Refreshed(t) ==
  /\ mpc[t] = "add"
  /\ maps[t] = {}
  /\ mpc' = [mpc EXCEPT ![t] =
       CASE goal[t].kind = "address" -> IF info[t] = NoInfo THEN "dladdr" ELSE "insert"
         [] goal[t].kind = "name" -> "search again"
         [] goal[t].kind = "main" -> "set main"
         [] goal[t].kind = "list" -> "done"]
  /\ UNCHANGED <<processVars, cacheVars, goal, info, maps>>

(* dladdr knows the module at an address, not its size. *)
AskLoader(t) ==
  /\ mpc[t] = "dladdr"
  /\ \E i \in {NoInfo} \cup {Unsized(m) : m \in {n \in loaded : goal[t].of \in Span[n]}} :
       info' = [info EXCEPT ![t] = i]
  /\ mpc' = [mpc EXCEPT ![t] = "insert"]
  /\ UNCHANGED <<processVars, cacheVars, goal, maps>>

(* getModuleByAddress adds what it found, an empty info too, or takes the
   details of the entry that is there already. *)
InsertFound(t) ==
  /\ mpc[t] = "insert"
  /\ NobodyReads
  /\ moduleSet' = Inserted(moduleSet, info[t])
  /\ \E i \in At(moduleSet', LoadAddress(info[t])) : info' = [info EXCEPT ![t] = i]
  /\ mpc' = [mpc EXCEPT ![t] = "done"]
  /\ UNCHANGED <<processVars, mainModule, readers, goal, maps>>

(* getMainModule caches what it got, an empty info too. *)
CacheMain(t) ==
  /\ mpc[t] = "set main"
  /\ NobodyReads
  /\ mainModule' = MainSet(info[t])
  /\ mpc' = [mpc EXCEPT ![t] = "done"]
  /\ UNCHANGED <<processVars, moduleSet, readers, goal, info, maps>>

ManagerStep(t) ==
  \/ LookupCached(t)
  \/ SearchByName(t)
  \/ LookupMain(t)
  \/ ReadMaps(t)
  \/ ClearModuleSet(t)
  \/ AddModule(t)
  \/ SetFoundMain(t)
  \/ Refreshed(t)
  \/ AskLoader(t)
  \/ InsertFound(t)
  \/ CacheMain(t)

-----------------------------------------------------------------------------
(* Types of the state; there is one entry per load address. *)
CacheTypeOK ==
  /\ loaded \subseteq Module /\ past \subseteq Module
  /\ moduleSet \subseteq Info
  /\ \A i, j \in moduleSet : LoadAddress(i) = LoadAddress(j) => i = j
  /\ mainModule \in SUBSET {NoInfo, Sized(Main)} /\ Cardinality(mainModule) <= 1
  /\ readers \subseteq Thread
  /\ mpc \in [Thread -> {"idle", "lookup", "search", "search again", "main", "maps",
                         "clear", "add", "found", "dladdr", "insert", "set main", "done",
                         "failed"}]
  /\ goal \in [Thread -> Goal]
  /\ info \in [Thread -> Info]
  /\ maps \in [Thread -> SUBSET Module]

=============================================================================
