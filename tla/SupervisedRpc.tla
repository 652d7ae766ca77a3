----------------------------- MODULE SupervisedRpc -----------------------------
(***************************************************************************)
(* One instance of createBoundedSupervisedRpcV1: the finite budget of one  *)
(* phase.  A request retains what it sends, reaches the transport, retains *)
(* what came back and returns it; an abort (its timeout, or the caller's   *)
(* signal) races this work and does not end it.  A step runs from one      *)
(* await to the next.  Clocks are not modelled: a timer may fire, and a    *)
(* check of the elapsed time may fail, at any moment.                      *)
(***************************************************************************)
EXTENDS Integers, FiniteSets

CONSTANTS
  Requests,   \* requests the phase may make
  TotalCalls  \* budget.total_calls

ASSUME RpcLimits == TotalCalls \in Nat \ {0} /\ IsFiniteSet(Requests)

VARIABLES
  fresh,     \* the deadline has not passed and assert_dispatch would return
  rpc,       \* calls and closed of the instance
  request,   \* each request: where its work is, what its caller was told
  \* what happened, read by no action:
  recorded,  \* <<request, stage>> of every record that retain acknowledged
  late       \* effects that started after the caller was told it failed

rpcVars == <<fresh, rpc, request, recorded, late>>

NewRequest == [work |-> "none", told |-> "none", aborted |-> FALSE]

RpcInit ==
  /\ fresh = TRUE
  /\ rpc = [calls |-> 0, closed |-> FALSE]
  /\ request = [q \in Requests |-> NewRequest]
  /\ recorded = {}
  /\ late = {}

(* request(): admission, before anything is awaited. *)
Begin(q) ==
  /\ request[q].work = "none"
  /\ ~rpc.closed /\ rpc.calls < TotalCalls /\ fresh
  /\ rpc' = [rpc EXCEPT !.calls = @ + 1]
  /\ request' = [request EXCEPT ![q] = [work |-> "request", told |-> "waiting", aborted |-> FALSE]]
  /\ UNCHANGED <<fresh, recorded, late>>

InTime(q) == fresh /\ ~request[q].aborted

(* The work ends in an exception: if the caller still waits it is told so, *)
(* and the catch clause closes the instance.                               *)
WorkStops(q) ==
  /\ request' = [request EXCEPT ![q].work = "stopped",
                                ![q].aborted = TRUE,
                                ![q].told = IF @ = "waiting" THEN "unavailable" ELSE @]
  /\ rpc' = IF request[q].told = "waiting" THEN [rpc EXCEPT !.closed = TRUE] ELSE rpc
  /\ UNCHANGED late

WorkGoes(q, work) ==
  /\ request' = [request EXCEPT ![q].work = work]
  /\ late' = IF request[q].told = "waiting" THEN late ELSE late \cup {<<q, work>>}
  /\ UNCHANGED rpc

Answered(q) ==
  /\ request' = [request EXCEPT ![q].work = "done",
                                ![q].told = IF @ = "waiting" THEN "response" ELSE @]
  /\ UNCHANGED <<rpc, late>>

(* Mutant: the checks are made before the record is retained, not after.   *)
DispatchUnchecked(q) ==
  /\ request[q].work = "request"
  /\ recorded' = recorded \cup {<<q, "request">>}
  /\ WorkGoes(q, "transport")
  /\ UNCHANGED fresh

(* REQUEST_DURABLE_BEFORE_EFFECT is retained, the window is checked and    *)
(* the transport is called, with no await between.                         *)
RequestRetained(q) ==
  /\ request[q].work = "request"
  /\ recorded' = recorded \cup {<<q, "request">>}
  /\ (InTime(q) /\ WorkGoes(q, "transport")) \/ WorkStops(q)
  /\ UNCHANGED fresh

(* The transport answers, and the response begins to be retained. *)
Responds(q) ==
  /\ request[q].work = "transport"
  /\ (InTime(q) /\ WorkGoes(q, "response")) \/ WorkStops(q)
  /\ UNCHANGED <<fresh, recorded>>

(* RESPONSE_DURABLE; the raw bytes are returned if nobody gave up. *)
ResponseRetained(q) ==
  /\ request[q].work = "response"
  /\ recorded' = recorded \cup {<<q, "response">>}
  /\ (InTime(q) /\ Answered(q)) \/ WorkStops(q)
  /\ UNCHANGED fresh

(* The transport or retain throws. *)
WorkFails(q) ==
  /\ request[q].work \in {"request", "transport", "response"}
  /\ WorkStops(q)
  /\ UNCHANGED <<fresh, recorded>>

(* abort(): the timer or the caller's signal. *)
Abort(q) ==
  /\ request[q].told = "waiting"
  /\ request' = [request EXCEPT ![q].told = "unavailable", ![q].aborted = TRUE]
  /\ rpc' = [rpc EXCEPT !.closed = TRUE]
  /\ UNCHANGED <<fresh, recorded, late>>

Expire == fresh /\ fresh' = FALSE /\ UNCHANGED <<rpc, request, recorded, late>>

RpcNext ==
  \/ \E q \in Requests :
       \/ Begin(q) \/ RequestRetained(q) \/ Responds(q) \/ ResponseRetained(q)
       \/ WorkFails(q) \/ Abort(q)
  \/ Expire

RpcSpec == RpcInit /\ [][RpcNext]_rpcVars

-----------------------------------------------------------------------------
(* Properties *)

(* Once a caller was told that its request is unavailable, the work that   *)
(* lost the race starts nothing new: it neither reaches the provider nor   *)
(* begins to retain a response; only what was under way completes.         *)
NothingStartsAfterGivingUp == late = {}

(* A response that a caller acts on is in the journal with its request,    *)
(* and no phase sends more than its budget, also when requests overlap.    *)
AnswersAreRetained ==
  /\ \A q \in Requests : request[q].told = "response" =>
       {<<q, "request">>, <<q, "response">>} \subseteq recorded
  /\ Cardinality({q \in Requests : <<q, "request">> \in recorded}) <= TotalCalls
=============================================================================
