--------------------------- MODULE LoggerRegistry ---------------------------
(***************************************************************************)
(* The table of loggers (sLoggers) and the identifiers it hands out.       *)
(*                                                                         *)
(* A registry is a record: table is the vector of loggers, with NoLogger   *)
(* for an entry that was cleared, and id the identifier that each logger   *)
(* remembers, which unregistering leaves as it was.  Identifiers count     *)
(* from zero; NoId is DBGUTIL_INVALID_LOGGER_ID.                           *)
(***************************************************************************)
EXTENDS Integers, Sequences

CONSTANTS
  Logger, NoLogger,
  MaxLoggers (* MAX_LOGGERS                                                *)

ASSUME RegistryAssumption == NoLogger \notin Logger /\ MaxLoggers \in Nat

NoId == -1

(* Loggers are static, and so their identifiers are zero at first. *)
EmptyRegistry == [table |-> <<>>, id |-> [l \in Logger |-> 0]]

(* registerLogger: the limit is checked with > so that the table can hold
   one more than it names. *)
Register(r, l) ==
  IF Len(r.table) > MaxLoggers
    THEN [r EXCEPT !.id[l] = NoId]
    ELSE [table |-> Append(r.table, l), id |-> [r.id EXCEPT ![l] = Len(r.table)]]

(* unregisterLogger: clears the entry and removes the cleared entries at the
   end of the table. *)
(* A fault: the last entry that is in use is removed as well. *)
TrimmedTooFar(table) ==
  LET used == {i \in DOMAIN table : table[i] # NoLogger}
  IN  IF used = {} THEN <<>>
      ELSE SubSeq(table, 1, (CHOOSE i \in used : \A j \in used : j <= i) - 1)
Trimmed(table) ==
  LET used == {i \in DOMAIN table : table[i] # NoLogger}
  IN  IF used = {} THEN <<>>
      ELSE SubSeq(table, 1, CHOOSE i \in used : \A j \in used : j <= i)
Unregister(r, l) ==
  IF r.id[l] \in 0 .. Len(r.table) - 1
    THEN [r EXCEPT !.table = Trimmed([@ EXCEPT ![r.id[l] + 1] = NoLogger])]
    ELSE r

(* Several loggers, in the order of a sequence. *)
RegisterAll(r, ls) ==
  LET f[i \in 0 .. Len(ls)] == IF i = 0 THEN r ELSE Register(f[i - 1], ls[i])
  IN  f[Len(ls)]
UnregisterAll(r, ls) ==
  LET f[i \in 0 .. Len(ls)] == IF i = 0 THEN r ELSE Unregister(f[i - 1], ls[i])
  IN  f[Len(ls)]
=============================================================================
