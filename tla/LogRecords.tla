----------------------------- MODULE LogRecords -----------------------------
(***************************************************************************)
(* The log records of the threads (dbgutil_log_imp.cpp).                   *)
(*                                                                         *)
(* Every thread formats its messages in a chain of records: sLogDataHead   *)
(* is allocated by the first message and stored in thread-local storage so *)
(* that a destructor frees it, and a message logged while the top record,  *)
(* sLogData, is in use gets a record of its own on top.  A record is in    *)
(* use while its buffer's offset is not zero.  The application's log       *)
(* handler reads the text in place, and may call into the library, which   *)
(* logs again: such messages nest.                                         *)
(*                                                                         *)
(* Only logMsg is modelled: startLog, appendLog and finishLog have no      *)
(* caller.  Whether a message passes canLog is a choice of the model: one  *)
(* that does not is not logged.                                            *)
(***************************************************************************)
EXTENDS LogBuffer

CONSTANTS
  Thread, Message,
  Length,    (* [Message -> Nat]: the length of each message as formatted  *)
  MaxNest,   (* bound: how deep messages nest                              *)
  MaxLogged, (* bound: messages per thread                                 *)
  MaxTerms   (* bound: how often the library is terminated                 *)

ASSUME LogAssumption ==
  /\ Length \in [Message -> Nat \ {0}]
  /\ MaxNest \in Nat \ {0} /\ MaxLogged \in Nat /\ MaxTerms \in Nat
  /\ Leftover \notin Message

VARIABLES
  key,      (* sLogDataKey: 0 when invalid, else which key it is           *)
  terms,    (* keys destroyed so far                                       *)
  records,  (* the chain of each thread, sLogDataHead first, sLogData last *)
  tls,      (* the key under which the thread's head record is stored, or 0*)
  freed,    (* the threads whose head record was freed                     *)
  calls,    (* the messages whose delivery is under way: [msg, record]     *)
  state,    (* a thread runs, exits, is gone; or "recursing", "stale"      *)
  logged,   (* history: number of messages of each thread                  *)
  lost      (* history: the messages of each thread that were not delivered*)

vars == <<key, terms, records, tls, freed, calls, state, logged, lost>>

States == {"running", "exiting", "gone", "recursing", "stale"}

TypeOK ==
  /\ key \in 0 .. MaxTerms + 1 /\ terms \in 0 .. MaxTerms
  /\ \A t \in Thread : \A i \in DOMAIN records[t] :
       /\ records[t][i].size \in SizesUpTo(MaxSize)
       /\ records[t][i].offset \in 0 .. MaxSize
  /\ tls \in [Thread -> 0 .. MaxTerms + 1] /\ freed \subseteq Thread
  /\ \A t \in Thread : \A i \in DOMAIN calls[t] :
       calls[t][i].msg \in Message /\ calls[t][i].record \in DOMAIN records[t]
  /\ state \in [Thread -> States]
  /\ logged \in [Thread -> 0 .. MaxLogged]

Init ==
  /\ key = 0 /\ terms = 0
  /\ records = [t \in Thread |-> <<>>]
  /\ tls = [t \in Thread |-> 0] /\ freed = {}
  /\ calls = [t \in Thread |-> <<>>]
  /\ state = [t \in Thread |-> "running"]
  /\ logged = [t \in Thread |-> 0]
  /\ lost = [t \in Thread |-> <<>>]

InUse(b) == b.offset > 0
Top(t) == Len(records[t])

-----------------------------------------------------------------------------
(* finishInitLog: creates the key, or fails for lack of keys. *)
FinishInitLog ==
  /\ key = 0
  /\ key' = terms + 1
  /\ UNCHANGED <<terms, records, tls, freed, calls, state, logged, lost>>

(* beginTermLog and termLog: destroys the key.  The records stay, and no
   destructor will run for them. *)
TermLog ==
  /\ key # 0 /\ terms < MaxTerms
  /\ key' = 0
  /\ terms' = terms + 1
  /\ UNCHANGED <<records, tls, freed, calls, state, logged, lost>>

(* getLogData: the first message of a thread allocates the head record and
   stores it under the key. *)
(* A fault: the record is not stored in thread-local storage. *)
UnstoredHead(t) == [chain |-> IF records[t] = <<>> THEN <<NewBuffer>> ELSE records[t],
                    stored |-> 0]
WithHead(t) == IF records[t] = <<>>
                 THEN [chain |-> <<NewBuffer>>, stored |-> key]
                 ELSE [chain |-> records[t], stored |-> tls[t]]

(* pushLogData, if the top record is in use. *)
(* A fault: messages are always formatted in the record at the top. *)
NeverPushed(chain) == chain
Pushed(chain) == IF InUse(chain[Len(chain)]) THEN Append(chain, NewBuffer) ELSE chain

(* popLogData: the head stays. *)
(* A fault: pushed records are not removed. *)
NotPopped(chain) == chain
Popped(chain) == IF Len(chain) > 1 THEN SubSeq(chain, 1, Len(chain) - 1) ELSE chain

CanLog(t) ==
  /\ state[t] \in {"running", "exiting"}
  /\ logged[t] < MaxLogged /\ Len(calls[t]) < MaxNest

(* logMsg up to the call of the handler: the message is formatted in a
   record that is not in use.  When formatting fails nothing is in use, so
   finishLogData complains, and neither resets nor removes the record. *)
LogMsg(t, m) ==
  /\ CanLog(t)
  /\ key # 0 \/ records[t] # <<>>
  /\ t \notin freed
  /\ LET head == WithHead(t)
         chain == Pushed(head.chain)
         top == Len(chain)
         buffer == AppendV(ResetBuffer(chain[top]), m, Length[m])
     IN  /\ records' = [records EXCEPT ![t] = [chain EXCEPT ![top] = buffer]]
         /\ tls' = [tls EXCEPT ![t] = head.stored]
         /\ IF InUse(buffer)
              THEN /\ calls' = [calls EXCEPT ![t] = Append(@, [msg |-> m, record |-> top])]
                   /\ UNCHANGED lost
              ELSE /\ lost' = [lost EXCEPT ![t] = Append(@, m)]
                   /\ UNCHANGED calls
  /\ logged' = [logged EXCEPT ![t] = @ + 1]
  /\ UNCHANGED <<key, terms, freed, state>>

(* The handler returns: finishLogData resets the record it delivered and
   removes the record at the top. *)
HandlerReturns(t) ==
  /\ calls[t] # <<>>
  /\ LET r == calls[t][Len(calls[t])].record
         reset == [records[t] EXCEPT ![r] = ResetBuffer(@)]
     IN  records' = [records EXCEPT ![t] = Popped(reset)]
  /\ calls' = [calls EXCEPT ![t] = SubSeq(@, 1, Len(@) - 1)]
  /\ UNCHANGED <<key, terms, tls, freed, state, logged, lost>>

(* A thread without a record logs while there is no key: setTls fails, and
   reports that by logging, which starts over without end. *)
LogWithoutKey(t) ==
  /\ CanLog(t)
  /\ key = 0 /\ records[t] = <<>>
  /\ state' = [state EXCEPT ![t] = "recursing"]
  /\ UNCHANGED <<key, terms, records, tls, freed, calls, logged, lost>>

(* A thread exits: the destructors of its thread-local storage run, that of
   the log records (FreeLogData) and those of others, which may log.  POSIX
   leaves their order open. *)
Exit(t) ==
  /\ state[t] = "running" /\ calls[t] = <<>>
  /\ state' = [state EXCEPT ![t] = "exiting"]
  /\ UNCHANGED <<key, terms, records, tls, freed, calls, logged, lost>>

Stored(t) == key # 0 /\ tls[t] = key

(* freeLogData frees the head record only, and leaves sLogData as it was. *)
FreeLogData(t) ==
  /\ state[t] = "exiting" /\ calls[t] = <<>> /\ Stored(t)
  /\ tls' = [tls EXCEPT ![t] = 0]
  /\ freed' = freed \cup {t}
  /\ UNCHANGED <<key, terms, records, calls, state, logged, lost>>

(* Another destructor logs after that, into memory that was freed. *)
LogAfterFree(t) ==
  /\ CanLog(t)
  /\ t \in freed
  /\ state' = [state EXCEPT ![t] = "stale"]
  /\ UNCHANGED <<key, terms, records, tls, freed, calls, logged, lost>>

Gone(t) ==
  /\ state[t] = "exiting" /\ calls[t] = <<>> /\ ~ Stored(t)
  /\ state' = [state EXCEPT ![t] = "gone"]
  /\ UNCHANGED <<key, terms, records, tls, freed, calls, logged, lost>>

Next ==
  \/ FinishInitLog
  \/ TermLog
  \/ \E t \in Thread, m \in Message : LogMsg(t, m)
  \/ \E t \in Thread :
       \/ HandlerReturns(t) \/ LogWithoutKey(t)
       \/ Exit(t) \/ FreeLogData(t) \/ LogAfterFree(t) \/ Gone(t)

Spec == Init /\ [][Next]_vars

-----------------------------------------------------------------------------
(* While the handler reads a message, its record holds that message, whole
   and nothing else, with room for the terminating null, no matter what is
   logged meanwhile: nested messages are formatted elsewhere, and the record
   is neither reused nor removed under the handler. *)
DeliversIntact ==
  \A t \in Thread : \A i \in DOMAIN calls[t] :
    LET b == records[t][calls[t][i].record]
    IN  b.text = <<calls[t][i].msg>> /\ b.offset < b.size

(* The chain of a thread does not grow with the number of messages: beyond
   the head it has one record for each delivery under way, and at most one
   more for each message that was lost, whose record nothing removes. *)
ChainBounded ==
  \A t \in Thread : Top(t) <= 1 + Len(calls[t]) + Len(lost[t])

(* A thread that is gone has had its record freed, unless the library was
   terminated after the thread's first message; the rest of its chain, which
   nothing frees, exists only if it lost messages. *)
FreedWhenGone ==
  \A t \in Thread : state[t] = "gone" =>
    /\ records[t] # <<>> => t \in freed \/ tls[t] \in 1 .. terms
    /\ Top(t) > 1 => lost[t] # <<>>
=============================================================================
