----------------------------- MODULE RemoteExec -----------------------------
(***************************************************************************)
(* What the thread manager promises about requests, with no mention of     *)
(* signals, waits or memory: a thread that asks another one to execute     *)
(* something gets, once, the result of exactly one execution that took     *)
(* place after it asked.                                                   *)
(***************************************************************************)

CONSTANTS
  Thread,
  Result,   (* what an execution may return                              *)
  NoResult  (* before the first answer                                   *)

VARIABLES
  status,  (* of the request of each thread                              *)
  outcome, (* what its execution returned                                *)
  answer   (* what the thread was last told                              *)

vars == <<status, outcome, answer>>

Init ==
  /\ status = [t \in Thread |-> "none"]
  /\ outcome = [t \in Thread |-> NoResult]
  /\ answer = [t \in Thread |-> NoResult]

Ask(t) ==
  /\ status[t] = "none"
  /\ status' = [status EXCEPT ![t] = "asked"]
  /\ UNCHANGED <<outcome, answer>>

(* The execution; a thread that asks itself executes at once. *)
Perform(t, r) ==
  /\ status[t] \in {"none", "asked"}
  /\ status' = [status EXCEPT ![t] = "performed"]
  /\ outcome' = [outcome EXCEPT ![t] = r]
  /\ UNCHANGED answer

Answer(t) ==
  /\ status[t] = "performed"
  /\ status' = [status EXCEPT ![t] = "answered"]
  /\ answer' = [answer EXCEPT ![t] = outcome[t]]
  /\ UNCHANGED outcome

(* A thread that asks itself and waits is told the result at once. *)
AnswerOwn(t, r) ==
  /\ status[t] = "none"
  /\ status' = [status EXCEPT ![t] = "answered"]
  /\ answer' = [answer EXCEPT ![t] = r]
  /\ UNCHANGED outcome

(* The caller goes on; the next request is a new one. *)
Forget(t) ==
  /\ status[t] = "answered"
  /\ status' = [status EXCEPT ![t] = "none"]
  /\ outcome' = [outcome EXCEPT ![t] = NoResult]
  /\ answer' = [answer EXCEPT ![t] = NoResult]

Next ==
  \E t \in Thread :
    \/ Ask(t)
    \/ Answer(t)
    \/ Forget(t)
    \/ \E r \in Result : Perform(t, r) \/ AnswerOwn(t, r)

Spec == Init /\ [][Next]_vars

=============================================================================
