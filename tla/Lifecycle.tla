------------------------------ MODULE Lifecycle ------------------------------
(***************************************************************************)
(* Initialising and terminating the library (dbgutil.cpp), with what each  *)
(* component's init and term function does, the registry of loggers, the   *)
(* handlers of fatal exceptions, and exceptions raised at any moment.      *)
(*                                                                         *)
(* initDbgUtil and termDbgUtil are called by one thread.  Each init or     *)
(* term function of a component is one step, except that of the exception  *)
(* handler, whose steps can be told apart by an exception: the handler of  *)
(* each signal is installed by a step of its own, between creating the     *)
(* instance and publishing it in a global pointer.  A term function clears *)
(* the pointer in one step and destroys the instance in a later one.       *)
(*                                                                         *)
(* Linux and Windows with MSVC are modelled, the latter with and without   *)
(* the MSYSTEM environment variable, which the code consults.  There the   *)
(* one "signal" is the filter of unhandled exceptions.                     *)
(***************************************************************************)
EXTENDS ExceptionDispatch, LoggerRegistry

CONSTANTS
  LinuxSignals, (* the signals, in the order they are registered           *)
  FlagSets,     (* sets of flags that initDbgUtil may be called with       *)
  MaxCycles     (* bound: calls of initDbgUtil                             *)

(* The table of signals names each of them once. *)
ASSUME SignalsAssumption ==
  /\ LinuxSignals \in Seq(STRING)
  /\ \A i, j \in DOMAIN LinuxSignals : LinuxSignals[i] = LinuxSignals[j] => i = j
ASSUME CyclesAssumption == MaxCycles \in Nat
(* The library's loggers. *)
ASSUME LoggersAssumption ==
  {"tls", "platform_exceptions", "os_exceptions", "modules", "symbols",
   "platform_threads", "os_threads", "stacks", "images", "shm", "os_lifesigns",
   "platform_lifesigns", "paths", "files", "directories", "lines", "dwarf",
   "readers", "os"} \subseteq Logger

VARIABLES
  phase,     (* "down", "init", "up", "term"; "broken" after a failed      *)
             (* initialisation, "stuck" after a failed termination         *)
  todo,      (* the steps that the call under way still has to make        *)
  cycles,    (* calls of initDbgUtil                                       *)
  registry,  (* sLoggers and the loggers' identifiers                      *)
  logKey,    (* the key of the thread-local log records exists             *)
  instances, (* components whose instance exists                           *)
  installed, (* components whose global pointer is set                     *)
  catching,  (* the flag DBGUTIL_CATCH_EXCEPTIONS                          *)
  dumping,   (* the flag DBGUTIL_EXCEPTION_DUMP_CORE                       *)
  hooking,   (* the flag DBGUTIL_SET_TERMINATE_HANDLER                     *)
  listener,  (* the exception handler has its listener                     *)
  disposition,   (* of each signal: "app", "ours" or "default"             *)
  previous,      (* m_prevHandlerMap, sPrevFilter; "none" where not saved  *)
  terminator,    (* std::get_terminate(): "app" or "ours"                  *)
  prevTerminator,(* m_prevTerminateHandler                                 *)
  unrestored,    (* history: restoring a handler failed                    *)
  keyFailed      (* history: creating the key failed                       *)

handlerVars == <<disposition, previous, terminator, prevTerminator, unrestored>>
flagVars == <<catching, dumping, hooking>>
lifeVars == <<phase, todo, cycles, registry, logKey, instances, installed,
              flagVars, listener, handlerVars, keyFailed>>
vars == <<dispatchVars, lifeVars>>

Component == {"exceptions", "modules", "symbols", "threads", "stacks", "images", "lifesigns"}

Signals == IF platform = "linux" THEN LinuxSignals ELSE <<"filter">>
SignalSet == {LinuxSignals[i] : i \in DOMAIN LinuxSignals} \cup {"filter"}
SignalsNow == {Signals[i] : i \in DOMAIN Signals}

(* The loggers each component registers, in order. *)
LoggersOf(c) ==
  CASE c = "exceptions" -> <<"platform_exceptions", "os_exceptions">>
    [] c = "modules" -> <<"modules">>
    [] c = "symbols" -> <<"symbols">>
    [] c = "threads" -> <<"platform_threads", "os_threads">>
    [] c = "stacks" -> IF platform = "linux" THEN <<>> ELSE <<"stacks">>
    [] c = "images" -> <<"images">>
    [] c = "lifesigns" -> <<"shm", "os_lifesigns", "platform_lifesigns">>
Backward(ls) == [i \in DOMAIN ls |-> ls[Len(ls) + 1 - i]]
LibraryLoggers == <<"paths", "files", "directories", "lines", "dwarf", "readers", "os">>

-----------------------------------------------------------------------------
(* The steps of initDbgUtil and termDbgUtil, as pairs of what is done and to
   which component. *)
Step(do, what) == [do |-> do, what |-> what]
Signalled(do) == [i \in 1 .. Len(Signals) |-> Step(do, Signals[i])]

InitExceptions ==
  <<Step("createHandler", "exceptions")>> \o Signalled("register")
    \o <<Step("publish", "exceptions")>>
Inits(order) == [i \in DOMAIN order |-> Step("init", order[i])]

(* A fault: handlers are restored in the opposite order. *)
BackwardTermExceptions ==
  <<Step("clear", "exceptions")>>
    \o [i \in 1 .. Len(Signals) |-> Step("restore", Signals[Len(Signals) + 1 - i])]
    \o <<Step("destroyHandler", "exceptions")>>
(* A fault: handlers stay. *)
HandlersLeft ==
  <<Step("clear", "exceptions"), Step("destroyHandler", "exceptions")>>
TermExceptions ==
  <<Step("clear", "exceptions")>> \o Signalled("restore")
    \o <<Step("destroyHandler", "exceptions")>>
Terms(order) ==
  [i \in 1 .. 2 * Len(order) |->
     Step(IF i % 2 = 1 THEN "clear" ELSE "destroy", order[(i + 1) \div 2])]

(* The components before the exception handler and those after it.  On
   Windows it is not terminated in the turn that going backwards gives it. *)
InitBefore == IF platform = "linux" THEN <<>> ELSE <<"modules", "symbols">>
InitAfter ==
  IF platform = "linux"
    THEN <<"modules", "symbols", "threads", "stacks", "images", "lifesigns">>
    ELSE <<"threads", "stacks", "images", "lifesigns">>
TermBefore ==
  IF platform = "linux"
    THEN <<"lifesigns", "images", "stacks", "threads", "symbols", "modules">>
    ELSE <<"lifesigns", "images", "stacks">>
TermAfter == IF platform = "linux" THEN <<>> ELSE <<"threads", "symbols", "modules">>

InitSteps ==
  <<Step("createKey", "log")>> \o Inits(InitBefore) \o InitExceptions \o Inits(InitAfter)
    \o <<Step("finish", "library")>>
TermSteps ==
  Terms(TermBefore) \o TermExceptions \o Terms(TermAfter) \o <<Step("destroyKey", "log")>>

-----------------------------------------------------------------------------
TypeOK ==
  /\ phase \in {"down", "init", "up", "term", "broken", "stuck"}
  /\ cycles \in 0 .. MaxCycles
  /\ Len(registry.table) <= MaxLoggers + 1
  /\ \A i \in DOMAIN registry.table : registry.table[i] \in Logger \cup {NoLogger}
  /\ instances \subseteq Component /\ installed \subseteq instances
  /\ disposition \in [SignalSet -> {"app", "ours", "default"}]
  /\ previous \in [SignalSet -> {"none", "app", "ours"}]
  /\ process \in {"alive", "ended", "overrun", "noHandler", "noWalker"}

Init ==
  /\ platform \in {"linux", "windows", "msystem"}
  /\ DispatchInit
  /\ phase = "down" /\ todo = <<>> /\ cycles = 0
  /\ registry = EmptyRegistry /\ logKey = FALSE
  /\ instances = {} /\ installed = {}
  /\ \E flags \in FlagSets :
       catching = ("catch" \in flags) /\ dumping = ("dump" \in flags)
         /\ hooking = ("hook" \in flags)
  /\ listener = FALSE
  /\ disposition = [s \in SignalSet |-> "app"]
  /\ previous = [s \in SignalSet |-> "none"]
  /\ terminator = "app" /\ prevTerminator = "app"
  /\ unrestored = FALSE /\ keyFailed = FALSE

(* initDbgUtil, up to the creation of the key: the TLS logger is registered
   even if it is already.  A call after a failed one starts in the state that
   one left. *)
InitDbgUtil ==
  /\ process = "alive" /\ phase \in {"down", "broken"} /\ cycles < MaxCycles
  /\ phase' = "init" /\ todo' = InitSteps
  /\ cycles' = cycles + 1
  /\ registry' = Register(registry, "tls")
  /\ UNCHANGED <<dispatchVars, logKey, instances, installed, flagVars, listener,
                 handlerVars, keyFailed>>

Doing(do, what) ==
  /\ process = "alive" /\ todo # <<>> /\ Head(todo) = Step(do, what)
  /\ todo' = Tail(todo)
(* A step fails: the rest is not done, and nothing is undone. *)
(* A fault: the step is passed over. *)
PassOver == UNCHANGED phase /\ todo' = Tail(todo)
Fail == phase' = "broken" /\ todo' = <<>>
(* What is left when the steps of one kind that come next are passed over. *)
After(do) ==
  LET first == CHOOSE k \in DOMAIN todo :
                 todo[k].do # do /\ \A i \in 1 .. k - 1 : todo[i].do = do
  IN  SubSeq(todo, first, Len(todo))

(* finishInitLog: fails when the key exists, which it does after a failed
   initialisation, and for lack of keys. *)
CreateKey ==
  /\ process = "alive" /\ todo # <<>> /\ Head(todo) = Step("createKey", "log")
  /\ \/ /\ ~ logKey
        /\ logKey' = TRUE /\ todo' = Tail(todo)
        /\ UNCHANGED <<phase, keyFailed>>
     \/ Fail /\ keyFailed' = TRUE /\ UNCHANGED logKey
  /\ UNCHANGED <<dispatchVars, cycles, registry, instances, installed, flagVars,
                 listener, handlerVars>>

(* initLinuxX, initWin32X: the loggers, the instance, its initialisation,
   the global pointer.  After a failure the first logger stays registered,
   and the instance exists if it is its initialisation that failed; only the
   life-sign manager on Windows fails before it has done anything. *)
At(do, s) == process = "alive" /\ todo # <<>> /\ Head(todo) = Step(do, s)
InitOn(p, c) == (platform = "linux") = (p = "linux") /\ At("init", c)
Comes(c) ==
  /\ todo' = Tail(todo)
  /\ registry' = RegisterAll(registry, LoggersOf(c))
  /\ instances' = instances \cup {c} /\ installed' = installed \cup {c}
  /\ UNCHANGED phase
NothingDone == Fail /\ UNCHANGED <<registry, instances, installed>>
NotCreated(c) ==
  /\ Fail
  /\ registry' = Register(registry, LoggersOf(c)[1])
  /\ UNCHANGED <<instances, installed>>
NotInitialized(c) ==
  /\ Fail
  /\ registry' = Register(registry, LoggersOf(c)[1])
  /\ instances' = instances \cup {c}
  /\ UNCHANGED installed

(* Finding its own load address, installing the signal, the handle of the
   process, the DbgHelp library, the directory for temporary files. *)
CreateLinuxModuleManager == Comes("modules") \/ NotCreated("modules")
InitializeLinuxThreadManager == Comes("threads") \/ NotInitialized("threads")
InitProcessHandle == Comes("modules") \/ NotInitialized("modules")
InitializeWin32SymbolEngine == Comes("symbols") \/ NotInitialized("symbols")
InitWin32Shm == Comes("lifesigns") \/ NothingDone

InitLinuxModuleManager == InitOn("linux", "modules") /\ CreateLinuxModuleManager
InitLinuxSymbolEngine == InitOn("linux", "symbols") /\ Comes("symbols")
InitLinuxThreadManager == InitOn("linux", "threads") /\ InitializeLinuxThreadManager
InitLinuxStackTrace == InitOn("linux", "stacks") /\ Comes("stacks")
InitElfReader == InitOn("linux", "images") /\ Comes("images")
InitLinuxLifeSignManager == InitOn("linux", "lifesigns") /\ Comes("lifesigns")
InitWin32ModuleManager == InitOn("windows", "modules") /\ InitProcessHandle
InitWin32SymbolEngine == InitOn("windows", "symbols") /\ InitializeWin32SymbolEngine
InitWin32ThreadManager == InitOn("windows", "threads") /\ Comes("threads")
InitWin32StackTrace == InitOn("windows", "stacks") /\ Comes("stacks")
InitWin32PEReader == InitOn("windows", "images") /\ Comes("images")
InitWin32LifeSignManager == InitOn("windows", "lifesigns") /\ InitWin32Shm

InitComponent ==
  /\ \/ InitLinuxModuleManager \/ InitLinuxSymbolEngine \/ InitLinuxThreadManager
     \/ InitLinuxStackTrace \/ InitElfReader \/ InitLinuxLifeSignManager
     \/ InitWin32ModuleManager \/ InitWin32SymbolEngine \/ InitWin32ThreadManager
     \/ InitWin32StackTrace \/ InitWin32PEReader \/ InitWin32LifeSignManager
  /\ UNCHANGED <<dispatchVars, cycles, logKey, flagVars, listener, handlerVars, keyFailed>>

(* The exception handler: createInstance and initialize, which replaces the
   terminate handler first, if asked to. *)
CreateHandler ==
  /\ Doing("createHandler", "exceptions")
  /\ registry' = RegisterAll(registry, LoggersOf("exceptions"))
  /\ instances' = instances \cup {"exceptions"}
  /\ listener' = FALSE
  /\ IF hooking THEN prevTerminator' = terminator /\ terminator' = "ours"
     ELSE UNCHANGED <<prevTerminator, terminator>>
  /\ previous' = [s \in SignalSet |-> IF platform = "linux" THEN "none" ELSE previous[s]]
  /\ UNCHANGED <<dispatchVars, phase, cycles, logKey, installed, flagVars, disposition,
                 unrestored, keyFailed>>

(* initializeEx, one signal: saves the handler that was there.  The first
   failure ends the registration, and is ignored. *)
Registers == catching /\ platform # "msystem"
AfterRegister == After("register")
Registered(s) ==
  /\ Registers
  /\ disposition' = [disposition EXCEPT ![s] = "ours"]
  /\ previous' = [previous EXCEPT ![s] = disposition[s]]
  /\ todo' = Tail(todo)
NotRegistered == todo' = AfterRegister /\ UNCHANGED <<disposition, previous>>

RegisterSignalHandler(s) == platform = "linux" /\ (Registered(s) \/ NotRegistered)
RegisterFilter(s) == platform # "linux" /\ (Registered(s) \/ (~ Registers /\ NotRegistered))
RegisterHandler(s) ==
  /\ At("register", s)
  /\ RegisterSignalHandler(s) \/ RegisterFilter(s)
  /\ UNCHANGED <<dispatchVars, phase, cycles, registry, logKey, instances, installed,
                 flagVars, listener, terminator, prevTerminator, unrestored, keyFailed>>

Publish ==
  /\ Doing("publish", "exceptions")
  /\ installed' = installed \cup {"exceptions"}
  /\ UNCHANGED <<dispatchVars, phase, cycles, registry, logKey, instances, flagVars,
                 listener, handlerVars, keyFailed>>

(* The end of initDbgUtil. *)
Finish ==
  /\ Doing("finish", "library")
  /\ phase' = "up"
  /\ listener' = TRUE
  /\ registry' = RegisterAll(registry, LibraryLoggers)
  /\ UNCHANGED <<dispatchVars, cycles, logKey, instances, installed, flagVars,
                 handlerVars, keyFailed>>

-----------------------------------------------------------------------------
TermDbgUtil ==
  /\ process = "alive" /\ phase = "up"
  /\ phase' = "term" /\ todo' = TermSteps
  /\ registry' = UnregisterAll(registry, LibraryLoggers)
  /\ UNCHANGED <<dispatchVars, cycles, logKey, instances, installed, flagVars, listener,
                 handlerVars, keyFailed>>

(* setX(nullptr); that of the thread manager unregisters a logger as well. *)
ClearPointer(c) ==
  /\ Doing("clear", c)
  /\ installed' = installed \ {c}
  /\ registry' = IF c = "threads" THEN Unregister(registry, "os_threads") ELSE registry
  /\ UNCHANGED <<dispatchVars, phase, cycles, logKey, instances, flagVars, listener,
                 handlerVars, keyFailed>>

(* termLinuxX, termWin32X: terminate, destroyInstance, and the loggers.  When
   terminate fails, termDbgUtil returns with the rest undone and the library
   still marked as initialised. *)
TermOn(p, c) == (platform = "linux") = (p = "linux") /\ At("destroy", c)
Goes(c, loggers) ==
  /\ todo' = Tail(todo)
  /\ instances' = instances \ {c}
  /\ registry' = UnregisterAll(registry, loggers)
  /\ UNCHANGED phase
CannotGo == phase' = "stuck" /\ todo' = <<>> /\ UNCHANGED <<instances, registry>>

TermLinuxModuleManager == TermOn("linux", "modules") /\ Goes("modules", <<"modules">>)
TermLinuxSymbolEngine == TermOn("linux", "symbols") /\ Goes("symbols", <<"symbols">>)
TermLinuxThreadManager ==
  TermOn("linux", "threads") /\ (Goes("threads", <<"platform_threads">>) \/ CannotGo)
TermLinuxStackTrace == TermOn("linux", "stacks") /\ Goes("stacks", <<>>)
TermElfReader == TermOn("linux", "images") /\ Goes("images", <<>>)
TermLinuxLifeSignManager ==
  TermOn("linux", "lifesigns") /\ Goes("lifesigns", Backward(LoggersOf("lifesigns")))
TermWin32ModuleManager == TermOn("windows", "modules") /\ Goes("modules", <<"modules">>)
TermWin32SymbolEngine ==
  TermOn("windows", "symbols") /\ (Goes("symbols", <<"symbols">>) \/ CannotGo)
TermWin32ThreadManager ==
  TermOn("windows", "threads") /\ Goes("threads", <<"platform_threads">>)
TermWin32StackTrace == TermOn("windows", "stacks") /\ Goes("stacks", <<"stacks">>)
TermWin32PEReader == TermOn("windows", "images") /\ Goes("images", <<"images">>)
TermWin32LifeSignManager ==
  TermOn("windows", "lifesigns") /\ Goes("lifesigns", Backward(LoggersOf("lifesigns")))

TermComponent ==
  /\ \/ TermLinuxModuleManager \/ TermLinuxSymbolEngine \/ TermLinuxThreadManager
     \/ TermLinuxStackTrace \/ TermElfReader \/ TermLinuxLifeSignManager
     \/ TermWin32ModuleManager \/ TermWin32SymbolEngine \/ TermWin32ThreadManager
     \/ TermWin32StackTrace \/ TermWin32PEReader \/ TermWin32LifeSignManager
  /\ UNCHANGED <<dispatchVars, cycles, logKey, installed, flagVars, listener,
                 handlerVars, keyFailed>>

(* terminateEx, one signal: the first without a saved handler ends it, and so
   does the first that cannot be restored. *)
AfterRestore == After("restore")
Restored(s) ==
  /\ disposition' = [disposition EXCEPT ![s] =
                       IF previous[s] = "none" THEN "default" ELSE previous[s]]
  /\ todo' = Tail(todo)
  /\ UNCHANGED unrestored
RestoreSignalHandler(s) ==
  /\ platform = "linux"
  /\ \/ /\ previous[s] # "none"
        /\ previous' = [previous EXCEPT ![s] = "none"]
        /\ \/ Restored(s)
           \/ todo' = AfterRestore /\ unrestored' = TRUE /\ UNCHANGED disposition
     \/ /\ previous[s] = "none"
        /\ todo' = AfterRestore
        /\ UNCHANGED <<disposition, previous, unrestored>>

(* On Windows the filter is restored only under MSYSTEM, where it was never
   replaced, so that the saved one is null. *)
RestoreFilter(s) ==
  /\ platform # "linux"
  /\ IF platform = "msystem" /\ catching THEN Restored(s)
     ELSE todo' = AfterRestore /\ UNCHANGED <<disposition, unrestored>>
  /\ UNCHANGED previous
RestoreHandler(s) ==
  /\ At("restore", s)
  /\ RestoreSignalHandler(s) \/ RestoreFilter(s)
  /\ UNCHANGED <<dispatchVars, phase, cycles, registry, logKey, instances, installed,
                 flagVars, listener, terminator, prevTerminator, keyFailed>>

DestroyHandler ==
  /\ Doing("destroyHandler", "exceptions")
  /\ terminator' = IF hooking THEN prevTerminator ELSE terminator
  /\ instances' = instances \ {"exceptions"}
  /\ listener' = FALSE
  /\ registry' = UnregisterAll(registry, Backward(LoggersOf("exceptions")))
  /\ UNCHANGED <<dispatchVars, phase, cycles, logKey, installed, flagVars, disposition,
                 previous, prevTerminator, unrestored, keyFailed>>

(* beginTermLog, termTls and termLog. *)
DestroyKey ==
  /\ Doing("destroyKey", "log")
  /\ logKey' = FALSE
  /\ phase' = "down"
  /\ registry' = Unregister(registry, "tls")
  /\ UNCHANGED <<dispatchVars, cycles, instances, installed, flagVars, listener,
                 handlerVars, keyFailed>>

-----------------------------------------------------------------------------
(* A fatal exception is raised in a thread while the library's handler is
   installed, or std::terminate is called.  The handler starts by asking for
   the global pointer. *)
RaiseSignal(t, s) ==
  /\ s \in SignalsNow /\ disposition[s] = "ours"
  /\ IF "exceptions" \in installed
       THEN Enter(t, "signal")
       ELSE /\ process = "alive" /\ at[t] = "out" /\ faults < MaxFaults
            /\ process' = "noHandler"
            /\ UNCHANGED <<platform, at, textVars, historyVars>>
  /\ UNCHANGED lifeVars
CallTerminate(t) ==
  /\ terminator = "ours"
  /\ IF "exceptions" \in installed
       THEN Enter(t, "terminate")
       ELSE /\ process = "alive" /\ at[t] = "out" /\ faults < MaxFaults
            /\ process' = "noHandler"
            /\ UNCHANGED <<platform, at, textVars, historyVars>>
  /\ UNCHANGED lifeVars

(* The handler walks the stack with the provider of stack traces, which asks
   the symbol engine about each frame, which asks the module manager. *)
Walkers == {"stacks", "symbols", "modules"}
WalkStack(t) ==
  /\ process = "alive" /\ at[t] \in {"stack", "terminate"}
  /\ IF Walkers \subseteq installed
       THEN \/ PrintStackBegin(t, "stack", "frames")
            \/ PrintStackBegin(t, "terminate", "terminateFrames")
       ELSE process' = "noWalker" /\ UNCHANGED <<platform, at, textVars, historyVars>>
  /\ UNCHANGED lifeVars
PrintFrames(t) ==
  /\ process = "alive"
  /\ \/ PrintStackEntries(t, "frames", "listen")
     \/ PrintStackEntries(t, "terminateFrames", "listenTerminate")
  /\ UNCHANGED lifeVars

(* On Windows the exception then ends the process, on Linux only with the
   flag, and std::terminate always. *)
Listen(t) ==
  /\ process = "alive"
  /\ Dispatch(t, listener, at[t] = "listenTerminate" \/ platform # "linux" \/ dumping)
  /\ UNCHANGED lifeVars

Handle(t) ==
  \/ process = "alive" /\ PrintSignal(t) /\ UNCHANGED lifeVars
  \/ process = "alive" /\ PrintAddress(t) /\ UNCHANGED lifeVars
  \/ process = "alive" /\ PrintExtended(t) /\ UNCHANGED lifeVars
  \/ WalkStack(t)
  \/ PrintFrames(t)
  \/ Listen(t)

Next ==
  \/ InitDbgUtil \/ CreateKey \/ CreateHandler \/ Publish \/ Finish
  \/ TermDbgUtil \/ DestroyHandler \/ DestroyKey
  \/ InitComponent \/ TermComponent
  \/ \E c \in Component : ClearPointer(c)
  \/ \E s \in SignalSet : RegisterHandler(s) \/ RestoreHandler(s)
  \/ \E t \in Thread, s \in SignalSet : RaiseSignal(t, s)
  \/ \E t \in Thread : CallTerminate(t) \/ Handle(t)

Spec == Init /\ [][Next]_vars

-----------------------------------------------------------------------------
(* While the library is up, every component has its instance and its global
   pointer, whatever failed in earlier attempts. *)
UpMeansComplete ==
  phase = "up" => installed = Component /\ instances = Component /\ logKey

(* After termination the application's handlers are in place again, on Linux
   even if only some of the library's could be installed, unless restoring
   one failed.  (On Windows the filter is not restored.) *)
HandlersRestored ==
  phase = "down" /\ cycles > 0 /\ ~ unrestored =>
    /\ terminator = "app"
    /\ platform = "linux" => \A s \in SignalsNow : disposition[s] = "app"

(* An exception finds the handler, and all that the handler needs, while the
   library is up; and once the library was terminated on Linux with every
   handler restored, none is left to be called.  Only while it starts, stops,
   or after either failed does a handler run into a null pointer, or
   when the library is terminated under a handler that is running. *)
CrashesOnlyAtTheEdges ==
  /\ process \in {"noHandler", "noWalker"} => phase # "up"
  /\ process = "noHandler" /\ phase = "down" => unrestored \/ platform = "windows"

(* A logger that is in use is at its own place in the table, so that no two
   share an identifier, however often the table was filled, cleared in part
   and trimmed: the loggers of each component that has its instance, that of
   thread-local storage until the end, and the library's while it is up.  A
   full table gives no identifier.  And termination leaves no entry, except
   that of the ELF reader on Linux, one for each cycle, and that of the TLS
   logger when creating the key had failed. *)
Live(l) == registry.id[l] \in 0 .. Len(registry.table) - 1
             /\ registry.table[registry.id[l] + 1] = l
InUse ==
  {l \in Logger :
     \/ l = "tls" /\ phase # "down"
     \/ phase = "up" /\ \E i \in DOMAIN LibraryLoggers : l = LibraryLoggers[i]
     \/ \E c \in instances : \E i \in DOMAIN LoggersOf(c) :
          l = LoggersOf(c)[i] /\ (i = 1 \/ c \in installed \cup {"exceptions"})}
LoggersAccounted ==
  /\ \A l \in InUse : registry.id[l] = NoId \/ Live(l)
  /\ phase = "down" => \A i \in DOMAIN registry.table :
       \/ registry.table[i] = NoLogger
       \/ registry.table[i] = "images" /\ platform = "linux"
       \/ registry.table[i] = "tls" /\ keyFailed
=============================================================================
