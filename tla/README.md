# A TLA+ specification of dbgutil

dbgutil is a C++ library for debugging and post-mortem analysis: it walks
stacks, resolves symbols from ELF, PE and DWARF data, catches fatal exceptions,
executes requests on other threads, and keeps "life signs" of an application in
a shared memory segment that an inspector reads after a crash.  This directory
holds TLA+ models of the library, TLC configurations that check them on small
instances, and proofs, checked by TLAPS, of the theorems that matter most.

Paths below are relative to `src/`, the root of the repository (so
`src/life_sign_manager.cpp` is the file of that name in the repository's own
`src` directory).  `PROJECT.json` maps every definition to the lines it models,
names for each property the mutation of the model that breaks it, and lists the
hazards that the properties are about.

## 1. The system

| Component | State | Operations | What is hard, and what must hold |
|---|---|---|---|
| **Life-sign manager: slots** `src/life_sign_manager.cpp` | `m_vacantSlots` under `m_lock`; `sThreadSlotId` (thread-local); a thread-local-storage key with a destructor; the header of each slot in the segment | create and close the segment; the first report of a thread obtains a slot, its exit gives it back | threads start, report and exit in any order; thread-local state outlives the segment.  No slot is shared or lost; what is written under a thread's name is the thread's |
| **Life-sign manager: context area** (same file) | `m_writePos` (atomic) and the bytes after it | `writeContextRecord` (no lock: reserve, store the length, copy, or back off), `readContextRecord` | writers race for the last bytes; a crash between any two stores; an inspector in step with the writers.  Acknowledged records stay; the space is neither oversubscribed nor lost; the inspector's loop ends |
| **Life-sign manager: rings** (same file) | per slot: head, tail, record count and a cyclic buffer | `writeLifeSignRecord` with eviction and wrap-around, `readLifeSignRecord` | off-by-one at the ends, alignment, wrap-around; a crash between the two moves of the tail.  The inspector finds the last records, whole; threads stay in their areas |
| **Shared memory, listing of segments** `linux_shm.cpp`, `win32_shm.cpp`, `*_life_sign_manager.cpp`, `dir_scanner.cpp` | descriptor or handles, mapped address, size; two pointers into the segment; the directory | create, open, close, delete, list | any of several system calls fails; the other process opens a segment that is still being made, or deletes one in use; processes crash.  Nothing stays held, pointers lead where they should, nobody reads a segment that has no size yet, a list is complete |
| **Thread manager** `os_thread_manager.cpp`, `linux_thread_manager.cpp` | a `SignalRequest` per call, on the caller's stack or heap; the signal queues of the kernel | `execThreadRequest`, `submitThreadRequest`, `wait` (polling or notified), the signal handler | handlers interrupt waits; a request outlives its wait; locks in handlers.  Each request is executed once, its answer reaches the caller, no handler touches a dead request, waits end |
| **Module manager** `os_module_manager.cpp`, `linux_module_manager.cpp` | `m_moduleSet`, `m_mainModule` under a shared mutex | find by address, by name, the main module; refresh from `/proc/self/maps`; traverse | several refreshes interleave module by module while modules come and go; references handed out to visitors |
| **Symbol engine** `linux_symbol_engine.cpp` | `m_symbolModuleSet`, sorted, under a shared mutex; per entry `m_isReady` with its own mutex and condition variable | `getSymbolInfo`, `visitSymbols` | many threads need a module at once: prepared once, not used before it is ready, nobody waits for ever |
| **Exception handler** `os_exception_handler.cpp`, `linux_exception_handler.cpp`, `win32_exception_handler.cpp` | previous signal actions or filter, previous terminate handler, text buffers (thread-local) and their lengths (global), the listener | register, unregister, dispatch of a signal, an exception or `std::terminate` | concurrent and repeated exceptions; registration that stops half way; exceptions before the rest of the library is up.  Reports are whole, handlers are restored |
| **Logging** `dbgutil_log_imp.cpp`, `log_buffer.cpp` | table of loggers; a thread-local chain of log records with growing buffers, freed by a destructor | register, unregister, log a message | identifiers are reused; records nest; buffers fill up; the key comes and goes with the library.  Messages are delivered whole, memory is freed, identifiers are accounted for |
| **Lifecycle** `dbgutil.cpp` and each component's init and term functions | which instances exist, which global pointers are set, the log key, the flags | `initDbgUtil`, `termDbgUtil` | a step fails half way and the call is made again; exceptions strike between the steps.  What is up is complete |
| **Thread-local storage** `dbgutil_tls.cpp` | keys and destructors | create, set, get, destroy | destructors run in an order nobody chose |
| **Buffered reader** `buffered_file_reader.cpp` | file offset, buffer, offset in the buffer | open, read, seek, close | reads and seeks across refills, short reads, failures.  The reader is where a plain file would be |
| **Image readers** `os_image_reader.cpp`, `elf_reader.cpp`, `win32_pe_reader.cpp` | header, sections, symbols | open, `getSection(s)`, `searchSymbol` | broken images; auxiliary records that count as symbols; symbols in any order.  Sections are whole, an address leads to its function |
| **DWARF decoding** `dwarf_util.cpp`, `dwarf_line_util.cpp`, `dwarf_common.cpp` | ranges of the units; registers of the line program and its matrix | open, search an address, decode numbers | sign extension, wrap-around, sequences out of order, broken units.  An address leads to its unit, the unit to its own line program, that to the line |
| **Stack traces** `*_stack_trace.cpp` | none of its own | walk, format; stacks of other threads through the thread manager | the walk is done by libunwind and DbgHelp |
| **Path parsing** `path_parser.cpp` | none | split, normalise | trailing and double separators |
| **Utilities** `os_util.cpp` and others | none | wrappers | none |

How they interact.  `writeLifeSignRecord` and `writeContextRecord` share the
segment, each its own area.  The thread-slot key of the life-sign manager is
one of thread-local storage, whose destructor calls back into the manager when
a thread exits; the log records use another one.  Stack traces of other threads
are taken by the thread manager, which runs the walk inside a signal handler of
the target.  The symbol engine asks the module manager for modules, opens each
module with an image reader on top of the buffered reader, and hands its
sections to the DWARF code; `visitSymbols` runs as a visitor under the module
manager's shared lock.  The exception handler calls the stack trace code, the
logger and the application's listener from a signal handler.  Everything is
brought up and taken down, in order, by the lifecycle, and every component
registers its loggers when it comes up.

## 2. The modules

```
SlotPool (abstract)       RemoteExec (abstract)
   ^ implements              ^ implements
LifeSignSlots             ThreadRequest          ContextArea    LifeSignRing
   ^ MCLifeSignSlots         ^ MCThreadRequest      ^ MCContextArea
                             ^ ThreadRequestProofs                 ^ LifeSignRingProofs
LifeSignSlots, ContextArea <- LifeSignManagerProofs

SharedSegments            ModuleCache
   ^ MCSharedSegments        ^ SymbolEngine <- MCSymbolEngine
   ^ SharedSegmentsProofs    ^ SymbolEngineProofs

ExceptionDispatch  LoggerRegistry        LogBuffer
        ^------ Lifecycle ------^           ^ LogRecords <- MCLogRecords
                  ^ MCLifecycle             ^ LogRecordsProofs
                  ^ LifecycleProofs

BufferedFile <- ImageReader <- ElfImage, PEImage <- ImageFiles <- MCImageFiles
                                                       ^ ImageFilesProofs
LineProgram <- DebugInfo <- MCDebugInfo
                  ^ SymbolEngineProofs
```

(`<-` and `^` without a word read "is extended by".)

One step of a module is one critical section, one atomic access, or one system
call, whichever the code lets other threads or processes see; the sequential
modules take a system call or an instruction per step.  Definitions introduced
by `(* A fault: ... *)` are plausible mistakes in the definition that follows
them; they are not part of the specification and stand there because
each property is checked to fail when the fault takes the definition's place.

**LifeSignSlots** is the life of slots: `CreateSegment`, `CloseSegment`,
`Start` of a thread, its reports (`ReportInNewSlot`, `ReportInOwnSlot`,
`ReportRefused`), `Exit`, the key's destructor (`ReleaseSlot`) and whatever
thread-local destructors run after it (`Vanish`, and late reports when
`LateReports` is set).  `vacantSlots` is `m_vacantSlots`, `slotId[t]` is
`sThreadSlotId`, `tls[t]` the value of the key, and `threadId`, `state` and
`endTime` the fields of the slot headers.  A header access after the segment was
unmapped is the state `fault`.  The refinement `ImplementsPool` maps it to
**SlotPool**, a map from slots to owners in which a slot changes hands only by
being given back.  The code has two addresses for the header of a slot: a
multiple of the bytes a thread gets (`share`, where `obtainThreadSlot` and
`releaseThreadSlot` store) and a multiple of these rounded up to four
(`ThreadAreaSize`, where everybody else reads and writes).  A slot is `InPlace`
when the two are the same; otherwise the store leaves the slot's own header as it
was and every header it may hit is `torn`.

**ContextArea** is `writeContextRecord`: `Reserve` (first `fetch_add`),
`StoreLength`, `CopyPayload`, or `BackOff` (second `fetch_add`), and
`readContextRecord` in two steps, `ReadLimit` and `ReadRecord`, of an inspector
that runs along or after a `Crash`.  Space is counted in words of four bytes.
A payload word read as a length is any number of `StrayNumber`.

**LifeSignRing** is `writeLifeSignRecord` in the layout the code has: the ring
begins behind the slot's header but has the length of the slot.  `BeginWrite`,
`EvictHead`, `StoreLength`, `CopyPayload` or `CopyPayloadInParts`, `Publish` are
the statements that a crash can separate; `Retake` is the change of owner.
`readLifeSignRecord` by a post-mortem inspector is the function `ReadUpTo` of
the state.  A model state in which bytes outside the slot were touched is
`spoiled`, and the model stops there; taking a slot that is not `InPlace`, whose
positions `obtainThreadSlot` resets in bytes of something else, is one.

**SharedSegments** has processes that create segments and inspectors that list
and open them, on either system.  An `OsShm` object is the record `shm[p]`; the
manager's two pointers are `pointer[p]`.  `CreateShm`, `Truncate` or
`CreateMapping`, `MapLinuxShm` or `MapWin32Shm` and `StoreOffset` are
`createLifeSignShmSegment`; `OpenLinuxShm` or `OpenWin32Shm` (for reading, for
writing, with the fallback to the backing file), mapping and `ReadOffset` are
`openLifeSignShmSegment`; `CloseSegment`, `DeleteShm`, `DestroyManager` the
calls of those names; `StartListing`, `ScanEntry`, `SizeEntry`, `EndListing` the
scan of the directory, which is not atomic.  `CloseShm(o)` is the set of results
of `closeShm`: it stops at the first system call that fails, except that on Windows
the result of closing the backing file is ignored and the handle forgotten
(`FileLost`).  `FailWin32Open` is an open on Windows that gets the file and no
mapping.  What is held when an object is deleted, or forgotten, goes to
`leaked[p]`.  A listed entry remembers the segment it was made of, so that one can
tell whether the name has come to stand for another.  `Crash` frees all of it and leaves the
files.

**ThreadRequest** has the sender (`SubmitRequest`, `BeginWait`, `Poll` or `Lock`,
`Test`, `WakeSpuriously`, then `LoadResult` and `FreeRequest`) and the target
(`Deliver`, `RunExecutor`, `StoreResult`, `StoreFlag` or `NotifyOwner`), which runs
on top of whatever the target was doing.  `pending[t]` is the queue of signals
in the kernel, whose values are pointers to requests; `live` says whether the
memory is still the request's.  Threads of `Mortal` may exit and `Terminate`
removes the signal handler.  It implements **RemoteExec**: a request is asked,
performed once, and answered with what was performed.

**ModuleCache** is the module manager: `LookupCached`, `SearchByName`,
`LookupMain`, then `ReadMaps` (outside the lock), `ClearModuleSet`, `AddModule`
once per module and `SetFoundMain` when it was the executable, `AskLoader` (dladdr),
`InsertFound`, `CacheMain`, while the
process does `Load` and `Unload`.  An `OsModuleInfo` is a module with or without
its size.  Binary search in a set whose members overlap may miss, which
`FoundIn` says.  **SymbolEngine** extends it with `getSymbolInfo` (`StartLookup`,
`ModuleAnswered`, `EnterSymbolModule`, `PrepareModule` or `WaitReady`,
`CollectSymbolInfo`) and `visitSymbols` (`BeginTraversal`, `VisitModule`, ...,
`EndTraversal`), for as long as which the thread is in `readers` and so holds
off every writer of the module set.

**Lifecycle** is `initDbgUtil` and `termDbgUtil` on Linux, on Windows and on
Windows with `MSYSTEM` set.  `todo` is what is left of the call, a sequence of
steps made from the order in `dbgutil.cpp`: creating the log key, each
component (`InitComponent`, by `InitLinuxModuleManager` and the like, which say
in what state a failure leaves it), the exception handler signal by signal
(`CreateHandler`, `RegisterHandler`, `Publish`), and for termination `ClearPointer`,
`TermComponent`, `RestoreHandler`, `DestroyHandler`, `DestroyKey`.  `Fail` is the
early return: what came up stays up, and the next call starts from there.  It
extends **LoggerRegistry**, the vector of loggers whose indexes are their
identifiers (`Register`, `Unregister` with `Trimmed`, which drops cleared entries
at its end), and **ExceptionDispatch**, what a thread does inside the handler:
`PrintSignal`, the lines of information and of the call stack printed into
`sExceptBuf` and `sCallStackBuf` at the global lengths, and `Dispatch` to the
listener.  `process` says what becomes of the process when a handler meets a
missing instance.

**LogRecords** is `logMsg`: `LogMsg` (get the head, push a record if the top one
is in use, format), `HandlerReturns` (finish, pop), with the application's
handler in between, in which further messages may be logged; `FinishInitLog`
and `TermLog` for the key; `Exit`, `FreeLogData`, `LogAfterFree`, `Gone` for the
end of a thread and its destructors; `LogWithoutKey` for the recursion described
in section 5.  **LogBuffer** has `EnsureLength`, `Resize` by doubling, `AppendV`
and `ResetBuffer`; a text is the sequence of the messages it is made of.

**BufferedFile** is the buffered reader.  Its users hand it a script of
operations, `Read(n)`, `Seek(n)`, `Skip(n)`; `ReadFromBuffer`, `RefillBehind`,
`RefillNext`, `ReadFromFile`, `SeekInBuffer`, `SeekInFile` do them, a system call
per step, each of which may fail, and a read may return less than asked for.  A
file that could not be opened (`NotOpened`) counts as open, and one that could not
be closed stays open with its buffer.
**ImageReader** is `OsImageReader`: sections that are read when asked for
(`CallSections`, `Materialize`, `HandOver`, `EndSections`) and the search of
symbols (`SearchSymbol`).  **ElfImage** and **PEImage** are how an image is read,
a step per request to the buffered reader (`AskFor ... next`).  A cell of a file is
a header, a string or a symbol as a whole, and one that is taken for what it is
not has the fields `As` gives it.  **ImageFiles** composes them: a build reads
one format.

**LineProgram** decodes a line table header (`ReadLines`), executes the program
instruction by instruction (`ExecuteOne`) and searches the matrix (`RowAt`,
`Preferred`, `Answer`), with numbers that wrap at `IntBits` and `LongBits`.
**DebugInfo** extends it with `DwarfUtil`: `Open`, `ReadSet`, `ReadRange`,
`EndOfRanges` for `.debug_aranges`; `Search`, `ReadUnit`, `ReadAttribute`, `OpenLines`,
`Execute`, `SearchLines` for an address.  The symbol engine searches whether or not
reading the ranges succeeded (`valid`, which is `m_dwarfUtilValid`, is not asked):
after a failure `Search` finds what was read by then.  A value is kept with the width it was
written with, and a reader that takes another width is `astray`, and not
followed further: what it would go on to read is arbitrary.

## 3. What is checked

Runs that pass:

| Run | Instance | What it shows |
|---|---|---|
| `life_sign_slots` | 4 threads, 2 slots of 48 or 50 bytes with 40 of header, one segment | slots are accounted for one by one (`SlotsAccounted`), in slots that are in place records stand under the name of their writer (`RecordsAttributed`) and the details shown are true (`DetailsAccurate`), and the whole implements the pool (`ImplementsPool`) |
| `context_area` | 3 writers, area of 5 words, records of 1 and 2 words, stray lengths 0 to 6 | the write position never drifts (`SpaceAccounted`), grants never exceed the area (`NeverOversubscribed`), until two writers back off at once no two records touch (`TiledUntilRace`, `KeptUntilRace`), the inspector reads whole records in order (`ReadsInOrder`) and finishes after a crash (`ReaderFinishes`) |
| `life_sign_ring` | 2 slots of 28 bytes, from shares of 27 or 28, with 8 of header, records of 3 and 4 bytes, 2 owners | while the records of a thread fit and its slot is in place, the inspector finds exactly them (`ReadsWhatWasWritten`), and no byte outside the slot is touched (`SpoiledOnlyPastRoom`) |
| `thread_request` | 3 threads, 3 requests, one thread waits for notification, one may exit | a handler never touches a finished request (`NoStalePointer`), no request runs twice (`DeliveredOnce`), removing the handler is safe once all futures are released (`QuietAfterTerminate`), waits on threads that live end (`WaitEnds`), `ImplementsRemoteExec` |
| `symbol_engine` | 2 threads with a call each, 3 modules of which two compete for one place | a module is prepared once, by one thread, and used only then (`PreparedBeforeUse`), lookups use the module at their address (`AnswersFit`), a traversal's references stay good (`TraversalStable`), every call ends (`CallsEnd`) |
| `lifecycle` | 3 platforms, 2 threads, 2 of the 5 signals, 4 sets of flags, init and term twice, 2 exceptions, a table of 22 loggers | reports of an exception are whole (`ReportsWhole`), what is up is complete whatever failed before (`UpMeansComplete`), the application's handlers come back (`HandlersRestored`), exceptions are fatal to the handler itself only while the library comes or goes (`CrashesOnlyAtTheEdges`), each registered logger is at the place its identifier says (`LoggersAccounted`) |
| `log_records` | 1 thread, messages that fit, fit after growing, fit exactly not, and not at all; nested three deep; the key created and destroyed | the handler reads each message whole, however many are logged meanwhile (`DeliversIntact`), the chain does not grow with the number of messages (`ChainBounded`), memory is freed (`FreedWhenGone`) |
| `shared_segments` | 1 owner, 1 inspector, 2 names, 2 segments, 2 failing calls, 1 crash | the pointers into a segment lead to its areas (`PointersRight`), nothing is held without an object (`NothingHeld`), who reads a header finds a file that has its size, except on Linux when the name was created anew (`SizedWhenRead`), a list has what was there all the time (`ListsWhatStays`) |
| `image_files` | some twenty ELF and fifteen PE images, sound and broken; a buffer of 3 cells; 2 failing calls; 2 calls for sections | the reader is where a plain file would be (`BufferMirrorsFile`), sections are whole (`SectionsIntact`), an address leads to the function that contains it and no other (`SymbolsRight`) |
| `debug_info` | debug information of 2 units, addresses 0 to 9, sound and broken | an address leads to the unit that covers it, of those read so far after a failed open (`UnitRight`), the unit to its own program (`ProgramOfUnit`), the program to the row at or before the address with the sums of its advances (`LineRight`) |

Runs that end in a counterexample, each a disagreement of the code with its
documentation or comments (the quotes are in `PROJECT.json`):

| Run | Violated | What happens |
|---|---|---|
| `notify_deadlock` | `NoHandlerDeadlock` | two threads that wait for each other in notify mode are each interrupted by the other's handler while they hold the lock it needs |
| `stale_module` | `UsesLoadedModule` | symbol data of an unloaded module are used for the module loaded in its place |

Seven more configurations end in a counterexample in the same way and are kept
for who wants to see it (`tlc -config X.cfg M`); the findings name them:

| Configuration, module | Violated | What happens |
|---|---|---|
| `LifeSignSlotsReopen`, `MCLifeSignSlots` | `SoleWriter` | after closing and creating the segment again, a thread uses its old slot, which another one was given |
| `LifeSignSlotsLate`, `MCLifeSignSlots` | `SoleWriter` | a thread reports from a thread-local destructor, after its slot was given back and taken by another one |
| `LifeSignSlotsShares`, `MCLifeSignSlots` | `HeadersOwn` | with a share of 50 bytes the store for one slot hits the header of another |
| `LifeSignRingShares`, `LifeSignRing` | `StaysInSlot` | with a share of 27 bytes the positions that are reset are bytes outside the slot |
| `ContextAreaOverwrite`, `MCContextArea` | `AcknowledgedKept` | two writers back off; between the two a third is granted space that an acknowledged record occupies |
| `ContextAreaEndless`, `MCContextArea` | `ReaderFinishes` | a length just below 2^32 passes the bounds check by wrapping around, and the inspector never gets to the end |
| `LifeSignRingOverlap`, `LifeSignRing` | `StaysInSlot` | the end of a ring is the header of the next slot |
| `LifeSignRingWrap`, `LifeSignRing` | `NewestReadable` | records that fill a ring exactly make it look empty |

Where a property would fail because of a defect of the code, it names the case
as its exception (`ReportsWhole` and the global length of the call stack,
`SectionsIntact` and a failed read, `HandlersRestored` and Windows, `PointersRight`
and a half-done close, `RecordsAttributed` and slots that are not in place), so that it says what the code does guarantee.  Section 5
lists these defects.

**Bounds.**  Every counter that would grow for ever has one: `MaxCreates`
(segments), `MaxCalls` (calls per thread in ContextArea and SymbolEngine, calls
for sections in ImageFiles), `MaxWrites` and `MaxTakes` (records and owners per
slot), `MaxRequests` (in the process), `MaxCycles` (calls of `initDbgUtil`),
`MaxFaults` (failing calls, or exceptions raised in Lifecycle), `MaxCrashes`,
`MaxSegments`, `MaxNest`, `MaxLogged` and `MaxTerms` (of LogRecords).  They are chosen
so that the rare case occurs: four threads on two slots meet refusal, reuse and
every order of exit; three writers on five words meet full, nearly full and
simultaneous back-off; 28 bytes hold two records and no third one; a share of 50 bytes puts the store for
the second slot two bytes before its header, one of 27 a byte before, and 48 and 28
put it in place (shares below the size of a header, which the code does not refuse,
are not modelled); three requests
among three threads allow crosswise and circular waits with one request queued
behind another; with two threads on one new module each is at times the preparer
and the waiter, and the second refresh runs into the first.  In `lifecycle` the
second cycle starts from every state that a failure of the first one leaves, two
exceptions overlap or follow each other, and the table of loggers is full in the
second cycle.  In `shared_segments` two failures are the most that matter in one
call, a failed mapping followed by a failed clean-up, and two segments let a name be
deleted and created again while the first is open.  In `image_files` three cells
make every record of a symbol table straddle a refill at some length of the
short reads.  In `debug_info` LEB groups of 2 bits instead of 7, 6 bits instead
of 32 and 12 instead of 64 keep the shifts, sign extension and wrap-around, at numbers
small enough to enumerate.  One call of each of two threads in `symbol_engine` is little, but its
safety properties are proved for any number of both; only that calls end rests on the run.  In `thread_request` executors return one value, as nothing
depends on it except being different from the initial one.  In `log_records`
threads share nothing but the key, whose other users are the terminations.

**Fairness.**  `LifeSignSlots`, `LifeSignRing`, `Lifecycle`, `LogRecords`,
`SharedSegments`, `ImageFiles` and `DebugInfo` state none: what is checked of them is safety.
`ContextArea` asks that the inspector's loop goes on and nothing of the writers.
`ThreadRequest` asks that a thread that waits is scheduled, that a queued signal is delivered
and its handler runs (weak), and that a handler blocked on a mutex which is
released again and again gets it (strong); it does not ask that anybody makes
a request.  `SymbolEngine` asks that a thread inside a call runs; a writer of the
module set waits only for a traversal, which ends, so weak fairness is enough.
None asks anything of crashes, exits, loads or unloads.

**Deadlock checking** is off where the application may stop calling; it is on in
`shared_segments`, where a process can always be asked for a list.

## 4. What is proved

* **LifeSignManagerProofs** on LifeSignSlots, for any threads and number of slots, assuming
  `OneLifetime` (the segment is created at most once, no thread reports from a
  destructor that runs after its slot was given back; `LifeSignSlotsReopen` shows
  that the first assumption is needed, `LifeSignSlotsLate` the second): `SlotsTypeCorrect`,
  `SlotsNeverShared`, `RecordsAlwaysAttributed`.  The shares may be any; where
  the last one and `DetailsAlwaysAccurate` speak of a slot it is one in place, and
  the first fact they rest on is that a store for a slot in place hits no other
  header in place.  The inductive invariant `IndInv` adds to these
  that nothing exists before the segment, that the key of a thread is registered
  with its own slot (or the exit could not give it back), that the header of a
  held slot names its holder, and that a slot is always somewhere.
  `SlotsImplementPool` is the refinement of SlotPool under the same assumption; it
  needs one more invariant, `OwnersRemember`: a slot that is not vacant belongs to
  a thread that remembers it, so a thread that asks for a slot owns none.
  `DetailsAlwaysAccurate`, about what `readThreadLifeSignDetails` returns, needs
  `CountersTrue`: while the segment is open the counter of a slot's uses is odd exactly
  while the slot is taken, and zero until somebody took it.
* **LifeSignManagerProofs** on ContextArea, for any writers, records and sizes:
  `ContextTypeCorrect`, `SpaceNeverDrifts`, `GrantsFitTheArea` by the invariant
  `SpaceInv`, which counts the space of all reservations as the cardinality of a
  set of units; `WritersKeepApart` by `TileInv`: as long as back-offs do not
  coincide, the only reservation to be given back is the last one, so that
  giving it back leaves no gap.
  `AcknowledgedStay` adds `KeptInv`: the length of a record is in place before its
  payload is copied, and as the words of two reservations are disjoint
  (`WordsDisjoint`), nobody else stores into those of an acknowledged one.
  `InspectorReadsInOrder` needs `ReadInv`: as long as no reservation was rejected, the
  inspector always stands at the end of a reservation (`AtBoundary`), and what it has
  found are the reservations before it, in order (`InOrder`).
* **LifeSignRingProofs**, for any slots, sizes, record lengths and number of
  records: `NothingOutside` and `InspectorReadsAll`, with the types of the rings
  (`TypesAlways`), both about runs in which every slot that was taken is in place.  As
  long as the records of a slot's owner fit into the slot, they
  lie in its ring one behind the other from the first word, the one being written
  behind them (`Layout`), so the head never moves and nothing wraps around;
  `WrapsToWords` says that a tail stays on a word when it does.  The calls of the
  inspector are a recursive function.  `CallsAreAnswers` gives its only solution,
  one call for each record and one that fails behind the last (`Answer`); that it
  is the only one is an induction, which `NatSets` takes from the well-foundedness
  of the natural numbers, with a set in place of an operator.  The proof
  needs a slot header of at least eight bytes (`SizesAssumption`; the code's has
  forty, `inc/life_sign_manager.h:303`): with one of four a record that ends at the
  header makes `Contiguous` false, and the copy in parts runs out of the segment.
* **ThreadRequestProofs**, for any threads, any mix of waiting modes, any results
  and number of requests, without further assumptions: `RequestTypeCorrect`,
  `NeverStale`, `DeliveredAtMostOnce`, and `RequestsImplementRemoteExec`, the
  safety part of the refinement of RemoteExec.  The invariant `IndInv` follows each
  pointer from the queue of a thread to its handler: it leads to a live request
  sent to that thread, whose sender still waits and whose flag is not set
  (`PointersGood`), no pointer is there twice (`PlacesDiffer`), a request is
  not executed before its handler runs (`NotYetRun`), the handler knows what the
  executor returned (`HandlerKnows`), and the flag comes after the result
  (`FlagLast`).  The first two say why the request may live on the sender's stack:
  a wait returns only after the flag, and the flag is the last thing a handler
  touches.  That it is the last is where the order of the two stores enters.
  `QuietOnceTerminated` adds to `IndInv` that nobody is inside a request once the
  handler was removed (`Ended`): a pointer on its way has a sender who waits.
* **SharedSegmentsProofs**, for any processes, names and segments and any number
  of failing calls and crashes, on either system: all four properties of the run.
  The lemma `Closing` says what `closeShm` leaves, and `Steps` what creating, opening
  and mapping have in common on both systems.  `IndTypes` adds to the types what
  an object is at each point of a call.  `PointersLead` needs that a segment whose
  creation returned has its whole header, and that who reads the header of another
  has opened it early (`PointerInv`); `NothingLeaks` that only a failed `mmap`
  makes `closeShm` fail without a further failure, and that a handle is forgotten only
  when closing it fails; `ReadsSized` that an entry of a list with a size was made when
  the file had one, that on Windows there is a mapping only of a file that has its size,
  and that on Linux a mapping of no bytes is refused (`SizedInv`); `ListsKeep` that what was there when a scan began is
  yet to be scanned, waits for its size, or is in the list (`ListInv`).
* **SymbolEngineProofs**, for any threads, modules and number of calls, loads and
  unloads: `PreparedBeforeUseAlways`, `AnswersFitAlways`, `TraversalStableAlways`.
  `CacheInv` is about the module manager: what it knows is or was a module of the
  process, and as long as nothing was unloaded the answer to an address is of the
  module there (`Fits`), whether it came from the set, the list, the loader, or
  the entry somebody else had inserted at the same place; for the last the lemma
  `SamePlace` says that two known infos at one address are of one module.
  `EngineInv` says what a thread is about at each step (`Where`), that the entry a
  lookup uses is of the module at its address (`Uses`), that each entry that is not
  ready has one thread preparing it (`Preparers`), and that entries differ
  (`Distinct`).  `NotEntered` carries the last over a step: as the known modules do
  not overlap, the second search, under the write lock, finds one that is there.
  `Stable` holds because a refresh needs the lock that a traversal shares.
  `EngineTypeCorrect` needs `RestInv` besides: that the set of modules has one of
  each address (`OnePerAddress`), that the main module is kept as a whole or not at all
  (`OneMain`), and what the manager is asked at each point of a call (`Agree`).
* **SymbolEngineProofs** on DebugInfo, for any debug information and any addresses:
  `UnitKept`, `ProgramKept` and `LinesKept`.  `RangesInv` says that each range in the tree is that of
  a record which was read, with the unit of its set, that each such record left its
  range there or found one with the same start, and that the unit at hand is that of
  the last set before (`Heads`, which `UnitOfHead` shows to be the only one).  When
  reading has ended the tree is therefore the set of all ranges, and as they
  lie apart, one that spans an address is the lower bound that `searchSymbol` finds.
  While it goes on, and when it failed, the tree is the set of those read so far.
  `ProgramInv` says that attributes and cells are read in step: what is left of both
  begins at the same attribute (`Progress`, with `CellPlaces` for how many cells the
  attributes before have), so that each value is taken with the width it was written
  with (`Widths`) and the value of `stmt_list` is the one the unit has.
  `InfosAssumption` says what a producer writes: values in the widths of their forms,
  no attribute `stmt_list` twice, references to units and line programs that are there.
  `LinesKept` rests on `LinesInv`: while a program is run the registers are those
  that it adds up to so far in the sequence at hand (`Machine`), and the matrix has a row
  for each instruction before that adds one, and no others (`Collected`).  The lemmas
  `SpecialExecuted`, `CopyExecuted` and `OtherExecuted` show for each instruction that it
  leaves the registers so; `SignedIsMeant` that a number is decoded as its bits mean, as
  long as it is not negative or takes fewer bits than an int.  A sum is a recursive function:
  `SumIs` shows that it has one solution, with the least number at which two would differ
  in the place of an induction.  `Sorting` shows that sorting neither loses nor repeats a row: rows
  have different places (`PlacesInOrder`), so that each place is taken (`PlacesTaken`).
  `RowFound` is then about `RowAt` on a sorted matrix.  `LinesSound`, a part of
  `InfosAssumption`, says that operands are numbers, and that those of LEB128 are below
  the power that their bytes allow.
* **ImageFilesProofs**, for ELF and PE files of any contents, any size of the buffer,
  any number of failing reads and any lengths of short ones: `MirrorKept`,
  `SectionsKept`, `SearchKept`, `FoundKept`, `ElfSymbolsRight` and `PESymbolsRight`.
  `ReaderInv` is about the buffered reader alone: the buffer holds the cells of the file
  that end where the file is (`Mirrored`), as long as no read failed;
  and after one that did, no script goes on that moves relative to the place
  (`NoneLost`), which is why the readers, who return at the first error, never read at a
  place they do not know.  `ImageInv` adds what each reader is about: how many cells its
  script has to bring (`Fetching`) and for contents which ones (`Copying`), that the
  headers which are kept were read as a whole (`HeadersRead`), that a format's steps
  stay with its files (`Formats`), and that a section which has been read holds what
  the file has there or was copied when the buffer was left over (`Contents`).
  `FilesAssumption` says that numbers in a file are natural ones, nothing of what they are.
  `SearchKept` and `FoundKept` are about `searchSymbol`.  The search halves an interval, as a
  recursive function of its two ends (`LowerBound`); the `Halving` lemmas show that it has one
  solution, again with a least number (`LeastNumber`), and `LowerBoundFinds` that it
  finds the place where a sequence is parted in two (`Parted`).  `SymbolsInv` says what the
  table is then like: in order, each symbol of an ELF image one that the file has
  (`InFile`), each of a PE image of a section that there is (`Origins`, which also says that the
  numbers of sections and the lengths of functions are natural); in `SideBySide`, unlike
  in `Apart`, a symbol may be there twice.
  `ElfSymbolsRight` is the half of `SymbolsRight` about ELF: what is looked up is what the
  file's symbol tables have.  `TableInv` says that what is read as symbols is the
  contents of a section of that type, that nothing of the table was left out, and that a
  spoiled table comes from a failed read.  The theorem supposes that none failed (the
  reader goes on to the symbols after a failed read of the section headers) and that
  the table came whole (`TableWhole`), which in the run every ELF image has that is
  ready without failures.  `AddressesAssumption` says that addresses are natural numbers.
  `PESymbolsRight` is the other half, for every image whose table is as compilers write it
  (`TableSound`: the symbols are where the header says and none is among the auxiliary
  records of another, a function has at most one length and that comes before it, no two
  functions begin together, each is in the section it names and no other) and was read to
  its end.  `PETableInv` says what the loop over the table has at each turn: there is
  an offset (`Track`) where the file will be when its script is done (`Stage`), with turns
  enough left to come to the last symbol (`Pace`: the loop reads a record past the table
  for each auxiliary record that it counts as a symbol), and up to which the functions
  (`FunctionsRead`) and the lengths (`LengthsRead`) of the table have been taken and
  nothing else; and in the end a symbol for every function and no other, each from its
  beginning to where its length, the next one or its section says (`Complete`).  TLC
  confirms `PETableInv` on the run, in which every PE image that `SymbolsRight` speaks
  of satisfies `TableSound`.  No read needs to succeed: what ends early is not `finished`.

* **LogRecordsProofs**, for any threads and messages, sizes of buffers, depth of
  nesting and number of terminations: `MessagesDeliveredIntact`,
  `ChainStaysBounded`, `RecordsFreedWhenGone`.  `Nested` follows each delivery to its
  record: the records of the deliveries under way are the chain from its head on,
  each with the whole message, so that an inner message gets a record of its own.
  `HeadKept` says that the head record was freed, will be, or lost its key, and
  `GoneQuietly` what is left of a thread that is gone.  Which size a buffer is enlarged to does not matter
  to them, and is left as `DoubledSize` chooses it: that a doubling
  exists rests on exponents, which the provers do not know.
* **LifecycleProofs**, for any threads, any table of signals that names each once,
  any flags and number of calls, failures and exceptions.  `StepsAccounted` is the
  invariant `LifeInv`: in every state `todo` is the rest of `InitSteps` or
  `TermSteps` from some place on, and which instances, pointers and handlers there are
  follows from that place (`PhaseInv`; `Starting` and `Ending` for the handlers).  The
  lemmas on `PlacedInit` and `PlacedTerm` say which step stands at which place, on
  each system.  From it follow `CompleteWhenUp`, `HandlersGivenBack` (with
  `SavedFirst`: the signals whose handlers were saved come first in the table, so that
  termination, which stops at the first one that was not, reaches them all) and
  `CrashesConfined`.  `AloneReportsWhole` rests on `DispatchInv`, which
  follows the text a thread prints line by line (`InfoRight`, `StackRight`) as long as
  it was alone, and assumes `BuffersSuffice`: the buffers hold the lines of one
  exception.  `LoggersKept` needs `RegistryInv`: every logger in use has no identifier or
  its own place in the table (`Own`), and every entry is empty, its owner's, or one left
  behind (`Entries`).  Who is in use (`Held`) follows from the instances and the phase, which
  `Placed` ties to the step the call has come to; and only those may be left behind
  that `Left` names: the logger of the ELF reader, that of thread-local storage after a
  key could not be made, and all of them once the library can be neither initialised
  nor terminated any more (`Wrecked`).

Every theorem is `Spec => []Inv` or a refinement `Spec => Abstract`; temporal
reasoning is only the final step.  Assumptions on constants are the `ASSUME`s of
the modules, which TLC evaluates in the runs.

Only model-checked: liveness (`ReaderFinishes`, `WaitEnds`, `CallsEnd`), and with it
the fairness of the refinements, which TLAPS cannot prove; and of `SymbolsRight` the
images outside the hypotheses of its two theorems, for ELF those whose opening went on
after a failed read.  What a fold computes is not proved anywhere: where a
theorem needed one, the model has a recursive function or counts instead (`Sum`,
`LowerBound`, `Place`), and the least-number argument above.  The decoding of a
LEB128 number (`Unsigned`, a fold) is therefore an assumption on its range only.

Some of the proofs found the models wrong in a corner which the runs had not met.

* An ELF image with no section or one was read on as if it had more; the loops of
  `elf_reader.cpp` find nothing there, and so does `AtHand` now, which the run meets
  with one more broken header.
* A cell whose width is no width at all could be read for an attribute whose
  form `readCUData` refuses; `ReadAttribute` now reads a cell only where the code does.
* `LineRight` claimed its lines for programs whose registers wrap around, where the
  row has another address or line than the program adds up to; and it took a file
  of the same name in another directory for the main file, and expected the first
  directory for it.  `Ordinary` and `OneFile` now exclude the two, and the file and
  directory that are expected are those of the unit's first file.

## 5. What is not modelled

* Slots that are not in place are modelled only so far as to say what they hit: what
  their threads write and an inspector reads of them afterwards is not followed, and no
  property claims anything of them.
* Windows: delivery of requests by `QueueUserAPC2`, the listing of its modules
  and threads, lookups in DbgHelp, and the DLL callbacks that emulate
  thread-local destructors.  The lifecycle, shared memory and exceptions of
  Windows are modelled.
* The bytes at the very end of the context area, which the code counts without
  the eight bytes of its header (listed as a hazard).
* Weak memory: stores of a thread are seen in program order, as on x86; only the
  header of a segment is seen in any order.
* A live inspector of a ring; visitors that call back into the library.
* Memory allocation failures, except where a component handles them.
* `path_parser.cpp`, which works on one string and keeps no state; `syncShm`,
  which changes nothing that is modelled; `startLog`, `appendLog` and `finishLog`,
  which nothing calls but `logMsg`'s own parts; the fixed input stream beyond its
  limit; the fields of a segment's name.
* Stack walking, formatting, tables of names: input and output only.

Remarks on code that the models show or touch.

*Life cycle and exceptions.*  A failed `initDbgUtil` leaves the log key, so that
trying again always returns `DBGUTIL_ERR_INVALID_STATE`; a failed `termDbgUtil` leaves the
library marked as initialised with pointers already cleared.  The exception
handler is installed before its global pointer and the stack walker exist, and
the pointer is cleared before the handlers are restored.  On Windows `terminateEx`
restores the filter when `MSYSTEM` is set, which is when it was not installed.  The
length of the call stack text is never reset, so that only the first exception of
the process has one; on Windows the length of the information is added to, where
it should be set.

*Logging.*  A buffer keeps its full mark when it is reset (`log_buffer.h:70` says
it returns to its original state).  Without the key, a thread without a record
logs the failure to store it, which needs a record, without end.  Destructors that
log after the record's own destructor use freed memory.  `elf_reader` never
unregisters its logger, and the limit of loggers is off by one.

*Life signs.*  `obtainThreadSlot` and `releaseThreadSlot` (`life_sign_manager.cpp:615-617`,
`632-634`) find the header of a slot with the share of a thread as it is, everything
else with the share rounded up to four bytes.  For any other share than a multiple of
four they store owner, positions, counter and times across another slot's header or
the end of its ring; the slot itself shows no owner, never counts as running, and
keeps the positions of its last owner.  `RecordsAttributed`, `DetailsAccurate`,
`ReadsWhatWasWritten` and `SpoiledOnlyPastRoom`, and their theorems `RecordsAlwaysAttributed`, `DetailsAlwaysAccurate`, `NothingOutside` and
`InspectorReadsAll`, are restricted to slots for which the two are the same.

*Shared memory.*  On Windows `closeShm` ignores that the backing file could not be closed
(`win32_shm.cpp:216`) and forgets the handle.  A failed `mmap` leaves `MAP_FAILED` in `m_shmPtr`, so that
`closeShm` fails and the descriptor is lost; a close that fails after unmapping
leaves the manager's pointers dangling; an inspector that opens a segment before
its header is filled keeps pointers to its start for good; a failed creation leaves
file and name; one file that vanishes fails the whole list; the MSVC scan never
calls `FindClose`; `life_sign_manager.cpp:172` tests `DBGTUIL_WINDOWS`, a
misspelt name; a segment for zero threads divides by zero.

*Image files.*  After a failed read the buffer no longer matches the offset.  A file that
could not be opened counts as open (`os_util.cpp:242`, -1 where `isOpen` asks for 0).  The
count of symbols left in a PE image wraps below zero when auxiliary records run past
its end (`win32_pe_reader.cpp:351`), and the loop goes on until a read fails.
An image that is empty stays open.  Asking again for a section that could not be read
returns `DBGUTIL_ERR_INTERNAL_ERROR`.  The symbol loop of PE reads a record past the
table for each auxiliary record it reads, its result is ignored, functions of
the last section are refused (`win32_pe_reader.cpp:321`), and `m_symInfoMap` is not filled.
An ELF image without a file symbol indexes an empty vector.

*DWARF.*  `searchSymbol` is called whether or not the ranges could be read
(`linux_symbol_engine.cpp:90`; `m_dwarfUtilValid` is set and never asked), so after a
failure addresses of the ranges read by then are found and the others are not; `UnitRight`
says exactly that.  `dwarfReadInitialLength` tests the wrong variable for the mark of 64-bit
DWARF.  `DW_AT_high_pc` is not read when addresses are not eight bytes wide, and what
follows it is misread; `DW_FORM_addrx` and `DW_FORM_rnglistx` are taken for what they
point to.  The bounds of range lists are read and not used; of two ranges with one
start the second is dropped.  `dwarf_line_util.cpp:93` tests `itr` where it moves
`itr2`; at an address where one sequence ends and another begins the end may be found.

*Others.*  `forEachModule` (`inc/os_module_manager.h:121-130`) declares a second `rc`
inside its loop, so a visitor's error is never "returned to the caller", as its
comment says; a lookup whose module is unknown returns `DBGUTIL_ERR_OK` with an
empty symbol (`src/linux_symbol_engine.cpp:230-233`); `getMainModule` keeps an empty
info for good when argv[0] is not the path that `/proc/self/maps` shows
(`src/os_module_manager.cpp:72-79`, action `CacheMain`); the lambda form of
`submitThreadRequest` (`inc/os_thread_manager.h:258`) leaves the executor on the
stack of a function that returns before it has run; `parsePath`
(`path_parser.cpp:163-180`) does not end for a trailing separator;
`readEntireFileToBuf` loses its descriptor.

## 6. What is left

1. The Windows thread manager: `QueueUserAPC2` delivers between instructions of the
   target like a signal, but only some of its failures are the same.
2. A composition of LifeSignSlots with LifeSignRing, a slot's owner being the
   one that writes its ring, and a live inspector of both.
3. `path_parser.cpp` as functions on bounded sequences of characters, against a
   reference definition.
