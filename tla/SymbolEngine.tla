----------------------------- MODULE SymbolEngine -----------------------------
(***************************************************************************)
(* The symbol engine (LinuxSymbolEngine), on top of the module manager.    *)
(*                                                                         *)
(* Symbols are looked up in per-module data that is expensive to prepare.  *)
(* The first thread that needs a module enters it, not yet ready, in the   *)
(* set of symbol modules under the engine's lock, and prepares it outside  *)
(* the lock; the others find the entry and wait until it is ready.         *)
(* visitSymbols does the same for every module of the module manager,      *)
(* whose lock it holds all the while.                                      *)
(***************************************************************************)
EXTENDS ModuleCache, Sequences

CONSTANTS
  MaxCalls,    (* bound: calls per thread                                *)
  DirectGoals  (* what the application asks the module manager itself    *)

ASSUME MaxCallsAssumption == MaxCalls \in Nat
ASSUME DirectGoalsAssumption == DirectGoals \subseteq Goal

VARIABLES
  entries, (* m_symbolModuleSet, in the order of insertion               *)
  epc,     (* where each thread is in a call of the symbol engine        *)
  entry,   (* the entry it uses, zero for none                           *)
  todo,    (* modules its traversal has still to visit                   *)
  calls    (* how often it has called                                    *)

engineVars == <<entries, epc, entry, todo, calls>>
vars == <<cacheModuleVars, engineVars>>

Init ==
  /\ CacheInit
  /\ entries = <<>>
  /\ epc = [t \in Thread |-> "idle"]
  /\ entry = [t \in Thread |-> 0]
  /\ todo = [t \in Thread |-> {}]
  /\ calls = [t \in Thread |-> 0]

Ids == 1 .. Len(entries)

(* findSymbolModule: the entries a search for the address a may find. *)
FoundEntries(a) ==
  LET hits == {e \in Ids : Contains(entries[e].info, a)}
      known == {entries[e].info : e \in Ids}
  IN
  IF hits = {} THEN {0}
  ELSE IF Apart(known) /\ Cardinality(known) = Len(entries) THEN hits
  ELSE hits \cup {0}

Call(t) ==
  /\ epc[t] = "idle"
  /\ calls[t] < MaxCalls
  /\ calls' = [calls EXCEPT ![t] = @ + 1]

Goes(t, place) == epc' = [epc EXCEPT ![t] = place]

-----------------------------------------------------------------------------
(* getSymbolInfo.                                                          *)

(* The call, and the search under the shared lock: an entry that is there is
   waited for, otherwise the module manager is asked. *)
StartLookup(t, a) ==
  /\ Call(t)
  /\ \E e \in FoundEntries(a) :
       IF e # 0
         THEN /\ entry' = [entry EXCEPT ![t] = e]
              /\ Goes(t, "wait")
              /\ goal' = [goal EXCEPT ![t] = ByAddress(a)]
              /\ UNCHANGED <<processVars, cacheVars, mpc, info, maps>>
         ELSE /\ Ask(t, ByAddress(a))
              /\ Goes(t, "module")
              /\ UNCHANGED entry
  /\ UNCHANGED <<entries, todo>>

(* A fault: an empty OsModuleInfo is not noticed. *)
AnyInfo(i) == TRUE

ModuleKnown(i) == i.module # NoModule

(* The module manager has answered; without a module the lookup ends. *)
ModuleAnswered(t) ==
  /\ epc[t] = "module"
  /\ Answered(t)
  /\ IF mpc[t] = "done" /\ ModuleKnown(info[t])
       THEN /\ Goes(t, "enter")
            /\ UNCHANGED <<goal, info>>
       ELSE /\ Goes(t, "idle")
            /\ Forgets(t)
  /\ UNCHANGED <<processVars, cacheVars, entries, entry, todo, calls>>

(* A fault: no second search under the write lock. *)
NoEntries(a) == {0}

EntriesAgain(a) == FoundEntries(a)

(* The address getSymbolModule searches for. *)
SearchKey(t) == IF t \in readers THEN LoadAddress(info[t]) ELSE goal[t].of


WhenFound == "wait"

(* The critical section of getSymbolModule. *)
EnterSymbolModule(t) ==
  /\ epc[t] = "enter"
  /\ \E e \in EntriesAgain(SearchKey(t)) :
       IF e # 0
         THEN /\ entry' = [entry EXCEPT ![t] = e]
              /\ Goes(t, WhenFound)
              /\ UNCHANGED entries
         ELSE /\ entries' = Append(entries, [info |-> info[t], ready |-> FALSE])
              /\ entry' = [entry EXCEPT ![t] = Len(entries) + 1]
              /\ Goes(t, "prepare")
  /\ UNCHANGED <<cacheModuleVars, todo, calls>>

(* A fault: an image that cannot be opened ends the preparation. *)
ReadyIfOpened(opened) == opened

ReadyAfter(opened) == TRUE

(* prepareModuleData, whether or not the image can be opened, and setReady. *)
PrepareModule(t) ==
  /\ epc[t] = "prepare"
  /\ \E opened \in BOOLEAN :
       entries' = [entries EXCEPT ![entry[t]].ready = ReadyAfter(opened)]
  /\ Goes(t, "collect")
  /\ UNCHANGED <<cacheModuleVars, entry, todo, calls>>

WaitReady(t) ==
  /\ epc[t] = "wait"
  /\ entries[entry[t]].ready
  /\ Goes(t, "collect")
  /\ UNCHANGED <<cacheModuleVars, entries, entry, todo, calls>>

(* collectSymbolInfo for a lookup, which then returns. *)
CollectSymbolInfo(t) ==
  /\ epc[t] = "collect"
  /\ t \notin readers
  /\ entry' = [entry EXCEPT ![t] = 0]
  /\ Goes(t, "idle")
  /\ Forgets(t)
  /\ UNCHANGED <<processVars, cacheVars, mpc, maps, entries, todo, calls>>

-----------------------------------------------------------------------------
(* visitSymbols.                                                           *)

StartVisit(t) ==
  /\ Call(t)
  /\ Ask(t, TheList)
  /\ Goes(t, "visit")
  /\ UNCHANGED <<entries, entry, todo>>

(* The list is refreshed; the traversal starts with the shared lock of the
   module manager. *)
BeginTraversal(t) ==
  /\ epc[t] = "visit"
  /\ Answered(t)
  /\ Forgets(t)
  /\ IF mpc[t] = "done"
       THEN /\ readers' = readers \cup {t}
            /\ todo' = [todo EXCEPT ![t] = moduleSet]
            /\ Goes(t, "traverse")
       ELSE /\ Goes(t, "idle")
            /\ UNCHANGED <<readers, todo>>
  /\ UNCHANGED <<processVars, moduleSet, mainModule, entries, entry, calls>>

(* The next module; its path may not match the pattern. *)
VisitModule(t) ==
  /\ epc[t] = "traverse"
  /\ \E i \in todo[t] :
       /\ todo' = [todo EXCEPT ![t] = @ \ {i}]
       /\ info' = [info EXCEPT ![t] = i]
       /\ \E next \in {"enter", "traverse"} : Goes(t, next)
  /\ UNCHANGED <<processVars, cacheVars, mpc, goal, maps, entries, entry, calls>>

(* The symbols of a module go to the visitor, which may end the traversal. *)
VisitSymbolsOf(t) ==
  /\ epc[t] = "collect"
  /\ t \in readers
  /\ \E rest \in {todo[t], {}} : todo' = [todo EXCEPT ![t] = rest]
  /\ entry' = [entry EXCEPT ![t] = 0]
  /\ Goes(t, "traverse")
  /\ UNCHANGED <<cacheModuleVars, entries, calls>>

EndTraversal(t) ==
  /\ epc[t] = "traverse"
  /\ todo[t] = {}
  /\ readers' = readers \ {t}
  /\ Goes(t, "idle")
  /\ Forgets(t)
  /\ UNCHANGED <<processVars, moduleSet, mainModule, mpc, maps, entries, entry,
                 todo, calls>>

-----------------------------------------------------------------------------
(* Calls of the module manager by the application itself.                  *)

AskDirectly(t, g) ==
  /\ Call(t)
  /\ Ask(t, g)
  /\ Goes(t, "client")
  /\ UNCHANGED <<entries, entry, todo>>

AnsweredDirectly(t) ==
  /\ epc[t] = "client"
  /\ Answered(t)
  /\ Forgets(t)
  /\ Goes(t, "idle")
  /\ UNCHANGED <<processVars, cacheVars, entries, entry, todo, calls>>

-----------------------------------------------------------------------------
EngineStep(t) ==
  \/ ModuleAnswered(t)
  \/ EnterSymbolModule(t)
  \/ PrepareModule(t)
  \/ WaitReady(t)
  \/ CollectSymbolInfo(t)
  \/ BeginTraversal(t)
  \/ VisitModule(t)
  \/ VisitSymbolsOf(t)
  \/ EndTraversal(t)
  \/ AnsweredDirectly(t)

ThreadStep(t) ==
  \/ EngineStep(t)
  \/ ManagerStep(t) /\ UNCHANGED engineVars

Next ==
  \/ \E m \in Module : (Load(m) \/ Unload(m)) /\ UNCHANGED engineVars
  \/ \E t \in Thread :
       \/ \E a \in Address : StartLookup(t, a)
       \/ StartVisit(t)
       \/ \E g \in DirectGoals : AskDirectly(t, g)
       \/ ThreadStep(t)

(* The scheduler runs every thread that is inside a call. *)
Spec == Init /\ [][Next]_vars /\ \A t \in Thread : WF_vars(ThreadStep(t))

-----------------------------------------------------------------------------
(* Types of the state. *)
TypeOK ==
  /\ CacheTypeOK
  /\ entries \in Seq([info : Info, ready : BOOLEAN])
  /\ epc \in [Thread -> {"idle", "module", "enter", "prepare", "wait", "collect", "visit",
                         "traverse", "client"}]
  /\ \A t \in Thread : entry[t] \in Ids \cup {0}
  /\ todo \in [Thread -> SUBSET Info]
  /\ calls \in [Thread -> 0 .. MaxCalls]

(* Nobody reads the data of a module before it is ready, and every entry that
   is not ready has exactly one thread that prepares it (getSymbolModule against
   setReady and waitReady of other threads).  As long as no module has been
   unloaded and the size of all is known, a module is entered only once, however
   many threads ask for it at once. *)
PreparedBeforeUse ==
  /\ \A t \in Thread :
       epc[t] = "collect" => entry[t] \in Ids /\ entries[entry[t]].ready
  /\ \A e \in Ids :
       ~entries[e].ready =>
         Cardinality({t \in Thread : epc[t] = "prepare" /\ entry[t] = e}) = 1
  /\ past = {} /\ (\A e \in Ids : entries[e].info.sized) =>
       \A d, e \in Ids : entries[d].info = entries[e].info => d = e

(* A lookup uses the data of a module, never those of an empty OsModuleInfo;
   and, as long as none has been unloaded, of the one at the address it was
   asked for (getModuleByAddress and getSymbolModule, both of which search,
   let go of the lock, and use the entry of whoever was first). *)
AnswersFit ==
  \A t \in Thread :
    epc[t] = "collect" /\ t \notin readers =>
      LET m == entries[entry[t]].info.module IN
      /\ m \in loaded \cup past
      /\ past = {} => goal[t].of \in Span[m]

(* What a traversal has before it, and what it looks at, is in the set still:
   a refresh by another thread does not take it away (forEachModule hands out
   references into m_moduleSet). *)
TraversalStable ==
  \A t \in readers :
    /\ todo[t] \subseteq moduleSet
    /\ epc[t] = "enter" => info[t] \in moduleSet

(* Every call comes to an end: nobody waits for ever for a module to become
   ready, nor for the lock of a traversal that itself waits for a module. *)
CallsEnd == \A t \in Thread : epc[t] # "idle" ~> epc[t] = "idle"

(* A lookup of an address at which a module is loaded does not start from the
   data of another one that is gone ("some modules may be loaded/unloaded
   manually so we clear the module set"). *)
UsesLoadedModule ==
  [][\A t \in Thread :
       epc[t] = "idle" /\ epc'[t] = "wait" /\ (\E m \in loaded : goal'[t].of \in Span[m]) =>
         entries[entry'[t]].info.module \in loaded]_vars

=============================================================================
