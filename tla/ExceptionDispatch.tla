-------------------------- MODULE ExceptionDispatch --------------------------
(***************************************************************************)
(* What a thread does in the library's handler of fatal exceptions         *)
(* (OsExceptionHandler, LinuxExceptionHandler, Win32ExceptionHandler).     *)
(*                                                                         *)
(* The handler prints the exception's information and then its call stack  *)
(* into two thread-local buffers, but the lengths of both are global, so   *)
(* that threads which fault at the same time print into gaps; the length   *)
(* of the call stack is never set back.  A buffer is a sequence of cells,  *)
(* one for each part printed, and Gap stands for the null that ends the    *)
(* text.  Which handler is installed, and whether what it needs exists, is *)
(* the subject of Lifecycle.                                               *)
(***************************************************************************)
EXTENDS Integers, Sequences, FiniteSets

CONSTANTS
  Thread,
  InfoCells,  (* parts that fit into sExceptBuf                            *)
  StackCells, (* parts that fit into sCallStackBuf                         *)
  MaxFaults   (* bound: exceptions raised                                  *)

ASSUME DispatchAssumption ==
  InfoCells \in Nat /\ StackCells \in Nat /\ MaxFaults \in Nat

VARIABLES
  platform, (* "linux", "windows", or "msystem": Windows under MSYSTEM     *)
  at,       (* where each thread is in the handler                         *)
  infoLen,  (* sExceptBufLen                                               *)
  infoBuf,  (* sExceptBuf of each thread                                   *)
  stackLen, (* sCallStackBufLen                                            *)
  stackBuf, (* sCallStackBuf of each thread                                *)
  process,  (* "alive", or how the process ended                           *)
  faults,   (* history: exceptions raised so far                           *)
  mixed,    (* history: threads that were not alone in the handler         *)
  later,    (* history: threads whose exception is not the first one       *)
  reports   (* history: what the listener was told, see Report             *)

textVars == <<infoLen, infoBuf, stackLen, stackBuf>>
historyVars == <<faults, mixed, later, reports>>
dispatchVars == <<platform, at, textVars, process, historyVars>>

Gap == "gap"
Empty(cells) == [i \in 1 .. cells |-> Gap]
InfoParts == <<"signal", "address", "extended">>
StackParts == <<"thread", "frames">>

(* snprintf of a part at the offset len: past the end of the buffer nothing
   is written, and beyond that the remaining size wraps around. *)
Overrun(buf, len) == len > Len(buf)
Printed(buf, len, part) ==
  [i \in DOMAIN buf |-> IF i = len + 1 THEN part
                        ELSE IF i = len + 2 THEN Gap ELSE buf[i]]

(* What a reader of the buffer sees: the cells before the first null. *)
Text(buf) ==
  LET shown == {n \in 0 .. Len(buf) : \A i \in 1 .. n : buf[i] # Gap}
  IN  SubSeq(buf, 1, CHOOSE n \in shown : \A k \in shown : k <= n)

(* A report to the listener: whether the information and the call stack it
   was given are complete, whether the thread was alone in the handler from
   beginning to end, and whether its exception was the first. *)
Report(t) ==
  [info |-> at[t] = "listenTerminate" \/ Text(infoBuf[t]) = InfoParts,
   stack |-> Text(stackBuf[t]) = StackParts,
   alone |-> t \notin mixed, first |-> t \notin later]

DispatchInit ==
  /\ at = [t \in Thread |-> "out"]
  /\ infoLen = 0 /\ stackLen = 0
  /\ infoBuf = [t \in Thread |-> Empty(InfoCells)]
  /\ stackBuf = [t \in Thread |-> Empty(StackCells)]
  /\ process = "alive"
  /\ faults = 0 /\ mixed = {} /\ later = {} /\ reports = {}

Go(t, from, to) == at[t] = from /\ at' = [at EXCEPT ![t] = to]
Inside == {t \in Thread : at[t] # "out"}

(* A thread enters the handler. *)
Enter(t, first) ==
  /\ process = "alive" /\ faults < MaxFaults
  /\ Go(t, "out", first)
  /\ faults' = faults + 1
  /\ mixed' = IF Inside = {} THEN mixed \ {t} ELSE mixed \cup Inside \cup {t}
  /\ later' = IF faults = 0 THEN later ELSE later \cup {t}
  /\ UNCHANGED <<platform, textVars, process, reports>>

(* signalHandler, unhandledExceptionFilter: the first part of the
   information.  On Linux its length is assigned, on Windows added. *)
(* A fault: on Linux as well the length is added to. *)
AddedLength == infoLen + 1
LengthAfterFirst == IF platform = "linux" THEN 1 ELSE infoLen + 1
PrintSignal(t) ==
  /\ Go(t, "signal", "address")
  /\ infoBuf' = [infoBuf EXCEPT ![t] = Printed(@, 0, InfoParts[1])]
  /\ infoLen' = LengthAfterFirst
  /\ UNCHANGED <<platform, stackLen, stackBuf, process, historyVars>>

(* The other parts, printed where the global length says. *)
PrintInfo(t, i, next) ==
  /\ Go(t, InfoParts[i], next)
  /\ infoBuf' = [infoBuf EXCEPT ![t] = Printed(@, infoLen, InfoParts[i])]
  /\ infoLen' = infoLen + 1
  /\ process' = IF Overrun(infoBuf[t], infoLen) THEN "overrun" ELSE "alive"
  /\ UNCHANGED <<platform, stackLen, stackBuf, historyVars>>
PrintAddress(t) == PrintInfo(t, 2, "extended")
PrintExtended(t) == PrintInfo(t, 3, "stack")

(* prepareCallStack: onBeginStackTrace empties the buffer and prints the
   first line at the global length, onStackEntry the frames after it. *)
PrintStackBegin(t, from, next) ==
  /\ Go(t, from, next)
  /\ stackBuf' = [stackBuf EXCEPT ![t] =
                    Printed([@ EXCEPT ![1] = Gap], stackLen, StackParts[1])]
  /\ stackLen' = stackLen + 1
  /\ process' = IF Overrun(stackBuf[t], stackLen) THEN "overrun" ELSE "alive"
  /\ UNCHANGED <<platform, infoLen, infoBuf, historyVars>>
PrintStackEntries(t, from, next) ==
  /\ Go(t, from, next)
  /\ stackBuf' = [stackBuf EXCEPT ![t] = Printed(@, stackLen, StackParts[2])]
  /\ stackLen' = stackLen + 1
  /\ process' = IF Overrun(stackBuf[t], stackLen) THEN "overrun" ELSE "alive"
  /\ UNCHANGED <<platform, infoLen, infoBuf, historyVars>>

(* The listener is told; then the handler returns to the thread, unless the
   exception ends the process. *)
Dispatch(t, hasListener, ends) ==
  /\ at[t] \in {"listen", "listenTerminate"}
  /\ at' = [at EXCEPT ![t] = "out"]
  /\ reports' = IF hasListener THEN reports \cup {Report(t)} ELSE reports
  /\ process' = IF ends THEN "ended" ELSE "alive"
  /\ UNCHANGED <<platform, textVars, faults, mixed, later>>

-----------------------------------------------------------------------------
(* What the listener is given of an exception whose thread was alone in the
   handler is whole: on Linux the information, whatever was handled before;
   the call stack for the first exception of the process, as the length of
   its text, a global of all threads, is never reset. *)
ReportsWhole ==
  \A r \in reports : r.alone => /\ platform = "linux" => r.info
                                /\ r.first => r.stack
=============================================================================
