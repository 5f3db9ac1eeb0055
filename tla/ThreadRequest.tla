---------------------------- MODULE ThreadRequest ----------------------------
(***************************************************************************)
(* Executing a request on another thread (OsThreadManager, Linux).         *)
(*                                                                         *)
(* A thread sends the address of a SignalRequest to the target thread as   *)
(* the value of a real-time signal.  The target runs the executor in its   *)
(* signal handler, on top of whatever it was doing, its own waits included *)
(* (the same signal stays blocked meanwhile), and notifies the sender.     *)
(* The sender polls a flag, or sleeps on a condition variable under the    *)
(* lock of the request; then the memory of the request is reused.          *)
(*                                                                         *)
(* execThreadRequest is SubmitRequest, BeginWait and the steps of wait();  *)
(* submitThreadRequest is SubmitRequest alone, and the caller waits on the *)
(* future and releases it when it likes.  Stores of one thread are seen in *)
(* the order it makes them, as on the x86 processors the library is built  *)
(* for.                                                                    *)
(***************************************************************************)
EXTENDS Integers, Sequences

CONSTANTS
  Thread,      (* threads of the process                                 *)
  NotifyUser,  (* those that wait in TWM_NOTIFY mode, the others poll    *)
  Mortal,      (* those that may exit                                    *)
  Result,      (* what executors may return                              *)
  NoResult,    (* initial answers                                        *)
  MaxRequests  (* bound: requests made in the process                    *)

ASSUME NotifyUserAssumption == NotifyUser \subseteq Thread
ASSUME MortalAssumption == Mortal \subseteq Thread
ASSUME NoResultAssumption == NoResult \notin Result
ASSUME MaxRequestsAssumption == MaxRequests \in Nat

(* The initial value of variables that point nowhere *)
NoPointer == [owner |-> NoResult, number |-> 0]

(* What a signal carries: a pointer to the request of a thread.  The number
   tells requests apart that live at the same place one after the other. *)
Pointer == [owner : Thread, number : 1 .. MaxRequests]

VARIABLES
  (* of each thread, as a sender *)
  pc,      (* where it is in the calls of the thread manager             *)
  target,  (* the thread its request was sent to                         *)
  number,  (* the number of its last request                             *)
  live,    (* whether the memory of that request is still its own        *)
  result,  (* m_result; NoResult stands for the DBGUTIL_ERR_OK it starts
              with, so that it differs from what an executor returns     *)
  flag,    (* m_flag                                                     *)
  answer,  (* what the last completed wait returned                      *)
  ran,     (* history: what the executor of the request returned         *)
  (* of each thread, as a target *)
  alive,   (* the thread has not exited                                  *)
  pending, (* signals queued for it, oldest first                        *)
  handler, (* where it is in the signal handler                          *)
  serving, (* the pointer its handler was given                          *)
  got,     (* what the executor returned in its handler                  *)
  (* of the process *)
  requests,  (* how many have been made                                  *)
  installed  (* the handler of SIG_EXEC_REQUEST                          *)

requestVars == <<result, flag>>
senderVars == <<pc, target, number, requests, live, answer>>
targetVars == <<pending, handler, serving, got>>
processVars == <<alive, installed>>
countVars == <<number, requests>>
vars == <<senderVars, requestVars, ran, targetVars, processVars>>

Init ==
  /\ pc = [t \in Thread |-> "idle"]
  /\ target = [t \in Thread |-> t]
  /\ number = [t \in Thread |-> 0]
  /\ requests = 0
  /\ live = [t \in Thread |-> FALSE]
  /\ result = [t \in Thread |-> NoResult]
  /\ flag = [t \in Thread |-> FALSE]
  /\ answer = [t \in Thread |-> NoResult]
  /\ ran = [t \in Thread |-> NoResult]
  /\ alive = [t \in Thread |-> TRUE]
  /\ pending = [t \in Thread |-> <<>>]
  /\ handler = [t \in Thread |-> "none"]
  /\ serving = [t \in Thread |-> NoPointer]
  /\ got = [t \in Thread |-> NoResult]
  /\ installed = TRUE

(* The main program of t can take a step: t exists and is not in its handler. *)
Runs(t) == alive[t] /\ handler[t] = "none"

-----------------------------------------------------------------------------
(* The sender.                                                             *)

(* The SignalRequest of a call that t makes on u.                          *)
NewRequest(t, u) ==
  /\ Runs(t)
  /\ installed
  /\ pc[t] = "idle"
  /\ requests < MaxRequests
  /\ requests' = requests + 1
  /\ number' = [number EXCEPT ![t] = @ + 1]
  /\ target' = [target EXCEPT ![t] = u]

(* execThreadRequest on the calling thread itself: no request is made. *)
ExecOnSelf(t) ==
  /\ NewRequest(t, t)
  /\ pc' = [pc EXCEPT ![t] = "answered"]
  /\ \E r \in Result : answer' = [answer EXCEPT ![t] = r]
  /\ UNCHANGED <<live, requestVars, ran, targetVars, processVars>>

(* submitThreadRequest on the calling thread itself. *)
SubmitToSelf(t) ==
  /\ NewRequest(t, t)
  /\ pc' = [pc EXCEPT ![t] = "submitted"]
  /\ live' = [live EXCEPT ![t] = TRUE]
  /\ \E r \in Result : /\ result' = [result EXCEPT ![t] = r]
                       /\ ran' = [ran EXCEPT ![t] = r]
  /\ flag' = [flag EXCEPT ![t] = TRUE]
  /\ UNCHANGED <<answer, targetVars, processVars>>

(* A fault: the system call is made again after it has succeeded. *)
SignalsSentAgain(p) == <<p, p>>

(* What rt_tgsigqueueinfo adds to the queue of the target. *)
SignalsSent(p) == <<p>>

(* submitThreadSignalRequest queues the signal, for a thread that exists.  When
   the system call fails the error is returned and nothing here changes: a
   request on the stack is gone, one on the heap is never freed. *)
SubmitRequest(t, u) ==
  /\ t # u
  /\ alive[u]
  /\ NewRequest(t, u)
  /\ pc' = [pc EXCEPT ![t] = "submitted"]
  /\ live' = [live EXCEPT ![t] = TRUE]
  /\ pending' = [pending EXCEPT ![u] =
                   @ \o SignalsSent([owner |-> t, number |-> number[t] + 1])]
  /\ UNCHANGED <<answer, requestVars, ran, handler, serving, got, processVars>>

(* wait() is called; in notify mode it starts by taking m_lock.            *)
BeginWait(t) ==
  /\ Runs(t)
  /\ pc[t] = "submitted"
  /\ pc' = [pc EXCEPT ![t] = IF t \in NotifyUser THEN "lock" ELSE "poll"]
  /\ UNCHANGED <<target, countVars, live, answer, requestVars, ran, targetVars,
                 processVars>>

(* A fault: the loop does not look at the flag. *)
PollOnce(t) ==
  /\ Runs(t)
  /\ pc[t] = "poll"
  /\ pc' = [pc EXCEPT ![t] = "load"]
  /\ UNCHANGED <<target, countVars, live, answer, requestVars, ran, targetVars,
                 processVars>>

(* The polling loop sees the flag.                                         *)
Poll(t) ==
  /\ Runs(t)
  /\ pc[t] = "poll"
  /\ flag[t]
  /\ pc' = [pc EXCEPT ![t] = "load"]
  /\ UNCHANGED <<target, countVars, live, answer, requestVars, ran, targetVars,
                 processVars>>

(* The notify wait.  m_lock is held exactly while pc is "test": its other
   holder, the handler, takes and releases it in a single step. *)
Lock(t) ==
  /\ Runs(t)
  /\ pc[t] = "lock"
  /\ pc' = [pc EXCEPT ![t] = "test"]
  /\ UNCHANGED <<target, countVars, live, answer, requestVars, ran, targetVars,
                 processVars>>

(* The predicate is tested, and m_lock given up by going on or by sleeping. *)
Test(t) ==
  /\ Runs(t)
  /\ pc[t] = "test"
  /\ pc' = [pc EXCEPT ![t] = IF flag[t] THEN "load" ELSE "sleep"]
  /\ UNCHANGED <<target, countVars, live, answer, requestVars, ran, targetVars,
                 processVars>>

(* A wake-up without a notification. *)
WakeSpuriously(t) ==
  /\ Runs(t)
  /\ pc[t] = "sleep"
  /\ pc' = [pc EXCEPT ![t] = "lock"]
  /\ UNCHANGED <<target, countVars, live, answer, requestVars, ran, targetVars,
                 processVars>>

(* m_result is loaded and wait() returns. *)
LoadResult(t) ==
  /\ Runs(t)
  /\ pc[t] = "load"
  /\ answer' = [answer EXCEPT ![t] = result[t]]
  /\ pc' = [pc EXCEPT ![t] = "answered"]
  /\ UNCHANGED <<target, countVars, live, requestVars, ran, targetVars,
                 processVars>>

(* The request goes out of scope, or the future is released; the values of
   the variables about it, which nothing reads any more, are cleared. *)
FreeRequest(t) ==
  /\ Runs(t)
  /\ pc[t] = "answered"
  /\ live' = [live EXCEPT ![t] = FALSE]
  /\ pc' = [pc EXCEPT ![t] = "idle"]
  /\ target' = [target EXCEPT ![t] = t]
  /\ result' = [result EXCEPT ![t] = NoResult]
  /\ flag' = [flag EXCEPT ![t] = FALSE]
  /\ answer' = [answer EXCEPT ![t] = NoResult]
  /\ ran' = [ran EXCEPT ![t] = NoResult]
  /\ UNCHANGED <<countVars, targetVars, processVars>>

(* A thread exits when it has no request of its own; signals still queued for
   it are lost. *)
Exit(t) ==
  /\ t \in Mortal
  /\ Runs(t)
  /\ pc[t] = "idle"
  /\ alive' = [alive EXCEPT ![t] = FALSE]
  /\ pending' = [pending EXCEPT ![t] = <<>>]
  /\ UNCHANGED <<senderVars, requestVars, ran, handler, serving, got,
                 installed>>

-----------------------------------------------------------------------------
(* The target.                                                             *)

(* The kernel runs the handler on top of t, whatever t is doing. *)
Deliver(t) ==
  /\ Runs(t)
  /\ installed
  /\ pending[t] # <<>>
  /\ serving' = [serving EXCEPT ![t] = Head(pending[t])]
  /\ pending' = [pending EXCEPT ![t] = Tail(@)]
  /\ handler' = [handler EXCEPT ![t] = "exec"]
  /\ UNCHANGED <<senderVars, requestVars, ran, got, processVars>>

Owner(t) == serving[t].owner


(* What notify() stores in m_result. *)
StoredResult(t) == got[t]

(* A fault: the flag is stored before the result. *)
FlagFirst == "flag"

(* The first store of notify() when the sender polls. *)
FirstStore == "result"

(* signalHandler of t goes on at place, or returns. *)
HandlerGoesTo(t, place) ==
  /\ handler' = [handler EXCEPT ![t] = place]
  /\ serving' = [serving EXCEPT ![t] = IF place = "none" THEN NoPointer ELSE @]

(* SignalRequest::exec: the executor runs. *)
RunExecutor(t) ==
  /\ handler[t] = "exec"
  /\ \E r \in Result : /\ got' = [got EXCEPT ![t] = r]
                       /\ ran' = [ran EXCEPT ![Owner(t)] = r]
  /\ HandlerGoesTo(t, IF Owner(t) \in NotifyUser THEN "notify" ELSE FirstStore)
  /\ UNCHANGED <<senderVars, requestVars, pending, processVars>>

(* The two stores of notify() when the sender polls. *)
StoreResult(t) ==
  /\ handler[t] = "result"
  /\ result' = [result EXCEPT ![Owner(t)] = StoredResult(t)]
  /\ HandlerGoesTo(t, IF FirstStore = "result" THEN "flag" ELSE "none")
  /\ UNCHANGED <<senderVars, flag, ran, pending, got, processVars>>

StoreFlag(t) ==
  /\ handler[t] = "flag"
  /\ flag' = [flag EXCEPT ![Owner(t)] = TRUE]
  /\ got' = [got EXCEPT ![t] = NoResult]
  /\ HandlerGoesTo(t, IF FirstStore = "result" THEN "none" ELSE "result")
  /\ UNCHANGED <<senderVars, result, ran, pending, processVars>>

(* A fault: the waiter is not notified. *)
AfterSilence(o) == pc[o]

(* notify_one: a waiter that sleeps goes on to take the lock again. *)
AfterNotification(o) == IF pc[o] = "sleep" THEN "lock" ELSE pc[o]

(* notify() under m_lock, which the owner's own wait may hold. *)
NotifyOwner(t) ==
  LET o == Owner(t) IN
  /\ handler[t] = "notify"
  /\ pc[o] # "test"
  /\ result' = [result EXCEPT ![o] = StoredResult(t)]
  /\ flag' = [flag EXCEPT ![o] = TRUE]
  /\ pc' = [pc EXCEPT ![o] = AfterNotification(o)]
  /\ got' = [got EXCEPT ![t] = NoResult]
  /\ HandlerGoesTo(t, "none")
  /\ UNCHANGED <<target, countVars, live, answer, ran, pending, processVars>>

-----------------------------------------------------------------------------
(* The process.                                                            *)

(* The application has waited on and released every future, as it must. *)
AllReleased == \A t \in Thread : pc[t] = "idle"

(* termLinuxThreadManager: the handler is removed. *)
Terminate ==
  /\ installed
  /\ AllReleased
  /\ installed' = FALSE
  /\ UNCHANGED <<senderVars, requestVars, ran, targetVars, alive>>

-----------------------------------------------------------------------------
WaitStep(t) == Poll(t) \/ Lock(t) \/ Test(t) \/ LoadResult(t) \/ FreeRequest(t)

HandlerStep(t) ==
  \/ Deliver(t)
  \/ RunExecutor(t)
  \/ StoreResult(t)
  \/ StoreFlag(t)

Next ==
  \/ \E t \in Thread :
       \/ ExecOnSelf(t)
       \/ SubmitToSelf(t)
       \/ \E u \in Thread : SubmitRequest(t, u)
       \/ BeginWait(t)
       \/ WaitStep(t)
       \/ WakeSpuriously(t)
       \/ HandlerStep(t)
       \/ NotifyOwner(t)
       \/ Exit(t)
  \/ Terminate

(* The scheduler runs every thread and the kernel delivers what is queued; a
   handler blocked on a mutex that is released again and again gets it. *)
Fairness ==
  \A t \in Thread : /\ WF_vars(WaitStep(t))
                    /\ WF_vars(HandlerStep(t))
                    /\ SF_vars(NotifyOwner(t))

Spec == Init /\ [][Next]_vars /\ Fairness

-----------------------------------------------------------------------------
(* Types of the state. *)
TypeOK ==
  /\ pc \in [Thread -> {"idle", "submitted", "poll", "lock", "test", "sleep",
                        "load", "answered"}]
  /\ target \in [Thread -> Thread]
  /\ number \in [Thread -> 0 .. MaxRequests]
  /\ requests \in 0 .. MaxRequests
  /\ live \in [Thread -> BOOLEAN]
  /\ result \in [Thread -> Result \cup {NoResult}]
  /\ flag \in [Thread -> BOOLEAN]
  /\ answer \in [Thread -> Result \cup {NoResult}]
  /\ ran \in [Thread -> Result \cup {NoResult}]
  /\ alive \in [Thread -> BOOLEAN]
  /\ pending \in [Thread -> Seq(Pointer)]
  /\ handler \in [Thread -> {"none", "exec", "result", "flag", "notify"}]
  /\ serving \in [Thread -> Pointer \cup {NoPointer}]
  /\ got \in [Thread -> Result \cup {NoResult}]
  /\ installed \in BOOLEAN

(* The pointers of t that are still going to be used: the one its handler was
   given, and those in its queue. *)
InUse(t) ==
  (IF handler[t] = "none" THEN <<>> ELSE <<serving[t]>>) \o pending[t]

(* A handler never touches the memory of a request whose wait has returned:
   everything a signal still points to is a live request, sent to that very
   thread (SignalRequest on the stack of execThreadRequest against the stores
   of notify()). *)
NoStalePointer ==
  \A t \in Thread : \A i \in 1 .. Len(InUse(t)) :
    LET p == InUse(t)[i] IN
    /\ live[p.owner]
    /\ number[p.owner] = p.number
    /\ target[p.owner] = t

(* At most one signal points to a request, so no request is executed twice. *)
DeliveredOnce ==
  \A t, u \in Thread : \A i \in 1 .. Len(InUse(t)), j \in 1 .. Len(InUse(u)) :
    InUse(t)[i] = InUse(u)[j] => t = u /\ i = j

(* Once the handler is removed no signal is under way, whose default action
   would end the process, and none is being handled: waiting on all futures is
   enough before the library is terminated. *)
QuietAfterTerminate == ~installed => \A t \in Thread : InUse(t) = <<>>

(* A wait on a thread that lives comes to an end, as long as at most one thread
   uses the notify mode (the polling threads take no lock in a handler). *)
Waiting(t) == pc[t] \in {"poll", "lock", "test", "sleep"}
WaitEnds ==
  \A t \in Thread :
    Waiting(t) /\ target[t] \notin Mortal ~> ~Waiting(t)

(* What a wait returns is what exactly one execution on the target returned,
   after the request was made (RemoteExec). *)
Status(t) ==
  IF pc[t] = "idle" THEN "none"
  ELSE IF pc[t] = "answered" THEN "answered"
  ELSE IF ran[t] = NoResult THEN "asked"
  ELSE "performed"

Remote == INSTANCE RemoteExec WITH
  status <- [t \in Thread |-> Status(t)],
  outcome <- ran,
  answer <- answer

ImplementsRemoteExec == Remote!Spec

(* t's handler waits for the lock that u's wait holds. *)
BlockedOn(t, u) == handler[t] = "notify" /\ Owner(t) = u /\ pc[u] = "test"

(* No threads wait in their handlers for locks that they hold themselves under
   those handlers: "no locks, no condition variables". *)
NoHandlerDeadlock ==
  ~\E S \in SUBSET Thread :
     S # {} /\ \A t \in S : \E u \in S : BlockedOn(t, u)

=============================================================================
