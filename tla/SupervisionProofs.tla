--------------------------- MODULE SupervisionProofs ---------------------------
(***************************************************************************)
(* What holds of the resources a supervised phase works with.              *)
(*                                                                         *)
(* First the supervised RPC of SupervisedRpc.tla: for every set of         *)
(* requests and every budget, work that lost the race against an abort     *)
(* starts nothing, and an answer a caller acts on is recorded within the   *)
(* budget; the invariant says which of the three places of a request (its  *)
(* work, its caller, its records) may be ahead of the others.              *)
(*                                                                         *)
(* Then the schedule of BoundedRebroadcast.tla, for every number of polls  *)
(* and every budget of the capture: a send the schedule gave up stays      *)
(* unsent, and a terminal classification is true of the chain.  The        *)
(* transport's work outlives the scheduler's wait, so the invariant says,  *)
(* of every call, what its work may still do: a call that is alive and not *)
(* retired is the one being awaited.                                       *)
(*                                                                         *)
(* Then the journal of SupervisedJournal.tla, for any number of processes, *)
(* records and failures: its types, that a phase is granted once, that who *)
(* verifies the journal finds every acknowledged record, and that its      *)
(* durable head implements AppendLog.                                      *)
(***************************************************************************)
EXTENDS BoundedRebroadcast, SupervisedJournal, FiniteSetTheorems, TLAPS

Works == {"none", "request", "transport", "response", "done", "stopped"}
Tolds == {"none", "waiting", "response", "unavailable"}
RequestRecord == [work : Works, told : Tolds, aborted : BOOLEAN]

RpcTypeOK ==
  /\ fresh \in BOOLEAN
  /\ rpc \in [calls : Nat, closed : BOOLEAN]
  /\ request \in [Requests -> RequestRecord]

(* Work that was not aborted still has its caller. *)
CallerWaits ==
  \A q \in Requests :
    request[q].work \in {"request", "transport", "response"} /\ ~request[q].aborted =>
      request[q].told = "waiting"

(* The records are ahead of the work, the work is ahead of the caller.     *)
RecordsFirst ==
  \A q \in Requests :
    /\ request[q].work \in {"transport", "response", "done"} => <<q, "request">> \in recorded
    /\ request[q].work = "done" => <<q, "response">> \in recorded
    /\ request[q].told = "response" => request[q].work = "done"
    /\ request[q].told = "waiting" => request[q].work \notin {"none", "done", "stopped"}

Begun == {q \in Requests : request[q].work # "none"}
Sent == {q \in Requests : <<q, "request">> \in recorded}

WithinBudget ==
  /\ Sent \subseteq Begun
  /\ Cardinality(Begun) = rpc.calls /\ rpc.calls <= TotalCalls

RpcInv == RpcTypeOK /\ CallerWaits /\ RecordsFirst /\ WithinBudget /\ NothingStartsAfterGivingUp

(***************************************************************************)
(* What the invariant gives.                                               *)
(***************************************************************************)

LEMMA InvAnswers == RpcInv => AnswersAreRetained
<1> SUFFICES ASSUME RpcInv PROVE AnswersAreRetained
  OBVIOUS
<1>1. ASSUME NEW q \in Requests, request[q].told = "response"
      PROVE  {<<q, "request">>, <<q, "response">>} \subseteq recorded
  BY <1>1 DEF RpcInv, RecordsFirst
<1>2. IsFiniteSet(Begun)
  BY RpcLimits, FS_Subset DEF Begun
<1>3. Cardinality(Sent) <= Cardinality(Begun) /\ Cardinality(Sent) \in Nat /\ Cardinality(Begun) \in Nat
  BY <1>2, FS_Subset, FS_CardinalityType DEF RpcInv, WithinBudget
<1>4. Cardinality(Sent) <= TotalCalls
  BY <1>3, RpcLimits DEF RpcInv, WithinBudget
<1> QED
  BY <1>1, <1>4 DEF AnswersAreRetained, Sent

(* The invariant holds before the first request.                           *)
LEMMA InitInv == RpcInit => RpcInv
<1> SUFFICES ASSUME RpcInit PROVE RpcInv
  OBVIOUS
<1>1. RpcTypeOK /\ CallerWaits /\ RecordsFirst /\ NothingStartsAfterGivingUp
  BY DEF RpcInit, NewRequest, RpcTypeOK, RequestRecord, Works, Tolds, CallerWaits, RecordsFirst,
         NothingStartsAfterGivingUp
<1>2. Begun = {} /\ Sent = {}
  BY DEF RpcInit, NewRequest, Begun, Sent
<1>3. WithinBudget
  BY <1>2, FS_EmptySet, RpcLimits DEF WithinBudget, RpcInit
<1> QED
  BY <1>1, <1>3 DEF RpcInv

(***************************************************************************)
(* The steps.  Only Begin counts a call; every other step keeps Begun.     *)
(***************************************************************************)

LEMMA BeginInv ==
  ASSUME RpcInv, NEW q \in Requests, Begin(q)
  PROVE  RpcInv'
<1> USE DEF RpcInv
<1>1. RpcTypeOK'
  BY DEF RpcTypeOK, RequestRecord, Works, Tolds, Begin
<1>2. CallerWaits' /\ RecordsFirst' /\ NothingStartsAfterGivingUp'
  BY DEF RpcTypeOK, RequestRecord, Works, Tolds, CallerWaits, RecordsFirst, WithinBudget, Begun, Sent,
         NothingStartsAfterGivingUp, Begin
<1>3. Begun' = Begun \cup {q} /\ q \notin Begun
  BY DEF RpcTypeOK, RequestRecord, Works, Begun, Begin
<1>4. Sent' \subseteq Begun'
  BY <1>3 DEF WithinBudget, Sent, Begin
<1>5. IsFiniteSet(Begun)
  BY RpcLimits, FS_Subset DEF Begun
<1>6. Cardinality(Begun') = Cardinality(Begun) + 1
  BY <1>3, <1>5, FS_AddElement
<1>7. rpc'.calls = rpc.calls + 1 /\ rpc.calls < TotalCalls /\ rpc.calls \in Nat
  BY DEF RpcTypeOK, Begin
<1>8. WithinBudget'
  BY <1>4, <1>6, <1>7, RpcLimits DEF WithinBudget
<1> QED
  BY <1>1, <1>2, <1>8

(* A step that keeps the requests begun and counted stays within budget.   *)
LEMMA BudgetKept ==
  ASSUME RpcInv, Begun' = Begun, Sent' \subseteq Begun, rpc'.calls = rpc.calls
  PROVE  WithinBudget'
BY DEF RpcInv, WithinBudget

(* Work that stops retains at most what it had reached.                    *)
LEMMA WorkStopsInv ==
  ASSUME RpcInv, NEW q \in Requests, WorkStops(q), fresh' = fresh,
         request[q].work \in {"request", "transport", "response"},
         recorded \subseteq recorded',
         recorded' \subseteq recorded \cup {<<q, "request">>, <<q, "response">>}
  PROVE  RpcInv'
<1> USE DEF RpcInv
<1>1. RpcTypeOK'
  <2>1. rpc' \in [calls : Nat, closed : BOOLEAN]
    BY DEF RpcTypeOK, WorkStops
  <2>2. ASSUME NEW p \in Requests PROVE request'[p] \in RequestRecord
    <3>1. CASE p # q
      BY <3>1 DEF RpcTypeOK, WorkStops
    <3>2. CASE p = q
      <4>1. request[q].told \in Tolds
        BY DEF RpcTypeOK, RequestRecord
      <4>2. request'[q] = [work |-> "stopped", aborted |-> TRUE,
              told |-> IF request[q].told = "waiting" THEN "unavailable" ELSE request[q].told]
        BY DEF RpcTypeOK, RequestRecord, WorkStops
      <4> QED
        BY <3>2, <4>1, <4>2 DEF RequestRecord, Works, Tolds
    <3> QED
      BY <3>1, <3>2
  <2>3. request' = [p \in Requests |-> request'[p]]
    BY DEF RpcTypeOK, WorkStops
  <2> QED
    BY <2>1, <2>2, <2>3 DEF RpcTypeOK
<1>2. CallerWaits' /\ RecordsFirst' /\ NothingStartsAfterGivingUp'
  BY DEF RpcTypeOK, RequestRecord, Works, Tolds, CallerWaits, RecordsFirst, NothingStartsAfterGivingUp,
         WorkStops
<1>3. Begun' = Begun /\ rpc'.calls = rpc.calls /\ q \in Begun
  BY DEF RpcTypeOK, RequestRecord, Works, Begun, WorkStops
<1>4. Sent' \subseteq Begun
  BY <1>3 DEF WithinBudget, Sent
<1> QED
  BY <1>1, <1>2, <1>3, <1>4, BudgetKept

(* Work that goes on in time has retained its request.                     *)
LEMMA WorkGoesInv ==
  ASSUME RpcInv, NEW q \in Requests, InTime(q), fresh' = fresh,
         NEW work \in {"transport", "response"}, WorkGoes(q, work),
         request[q].work \in {"request", "transport"},
         recorded \subseteq recorded',
         recorded' \subseteq recorded \cup {<<q, "request">>},
         <<q, "request">> \in recorded'
  PROVE  RpcInv'
<1> USE DEF RpcInv
<1>1. request[q].told = "waiting"
  BY DEF CallerWaits, InTime
<1>2. RpcTypeOK'
  BY DEF RpcTypeOK, RequestRecord, Works, Tolds, WorkGoes
<1>3. CallerWaits' /\ RecordsFirst'
  BY <1>1 DEF RpcTypeOK, RequestRecord, Works, Tolds, CallerWaits, RecordsFirst, WorkGoes
<1>4. NothingStartsAfterGivingUp'
  BY <1>1 DEF NothingStartsAfterGivingUp, WorkGoes
<1>5. Begun' = Begun /\ rpc'.calls = rpc.calls /\ q \in Begun
  BY DEF RpcTypeOK, RequestRecord, Works, Begun, WorkGoes
<1>6. Sent' \subseteq Begun
  BY <1>5 DEF WithinBudget, Sent
<1> QED
  BY <1>2, <1>3, <1>4, <1>5, <1>6, BudgetKept

(* An answer is retained in the step that gives it.                        *)
LEMMA AnsweredInv ==
  ASSUME RpcInv, NEW q \in Requests, Answered(q), fresh' = fresh,
         request[q].work = "response", recorded' = recorded \cup {<<q, "response">>}
  PROVE  RpcInv'
<1> USE DEF RpcInv
<1>1. RpcTypeOK'
  BY DEF RpcTypeOK, RequestRecord, Works, Tolds, Answered
<1>2. CallerWaits' /\ RecordsFirst' /\ NothingStartsAfterGivingUp'
  BY DEF RpcTypeOK, RequestRecord, Works, Tolds, CallerWaits, RecordsFirst, NothingStartsAfterGivingUp,
         Answered
<1>3. Begun' = Begun /\ rpc'.calls = rpc.calls
  BY DEF RpcTypeOK, RequestRecord, Works, Begun, Answered
<1>4. Sent' \subseteq Begun
  BY DEF WithinBudget, Sent
<1> QED
  BY <1>1, <1>2, <1>3, <1>4, BudgetKept

(* An abort ends the waiting, never the retention.                         *)
LEMMA AbortInv ==
  ASSUME RpcInv, NEW q \in Requests, Abort(q)
  PROVE  RpcInv'
<1> USE DEF RpcInv
<1>1. RpcTypeOK'
  BY DEF RpcTypeOK, RequestRecord, Works, Tolds, Abort
<1>2. CallerWaits' /\ RecordsFirst' /\ NothingStartsAfterGivingUp'
  BY DEF RpcTypeOK, RequestRecord, Works, Tolds, CallerWaits, RecordsFirst, NothingStartsAfterGivingUp,
         Abort
<1>3. Begun' = Begun /\ rpc'.calls = rpc.calls
  BY DEF RpcTypeOK, RequestRecord, Works, Begun, Abort
<1>4. Sent' \subseteq Begun
  BY DEF WithinBudget, Sent, Abort
<1> QED
  BY <1>1, <1>2, <1>3, <1>4, BudgetKept

(* A step elsewhere keeps the invariant.                                   *)
LEMMA FrameInv ==
  ASSUME RpcInv, fresh' \in BOOLEAN, UNCHANGED <<rpc, request, recorded, late>>
  PROVE  RpcInv'
BY DEF RpcInv, RpcTypeOK, CallerWaits, RecordsFirst, WithinBudget, Begun, Sent,
       NothingStartsAfterGivingUp

(* Every step keeps the invariant.                                         *)
LEMMA NextInv == RpcInv /\ [RpcNext]_rpcVars => RpcInv'
<1> SUFFICES ASSUME RpcInv, [RpcNext]_rpcVars PROVE RpcInv'
  OBVIOUS
<1> USE DEF RpcInv
<1>1. ASSUME NEW q \in Requests, Begin(q) PROVE RpcInv'
  BY <1>1, BeginInv
<1>2. ASSUME NEW q \in Requests, RequestRetained(q) PROVE RpcInv'
  <2>1. CASE InTime(q) /\ WorkGoes(q, "transport")
    BY <1>2, <2>1, WorkGoesInv DEF RequestRetained
  <2>2. CASE WorkStops(q)
    BY <1>2, <2>2, WorkStopsInv DEF RequestRetained
  <2> QED
    BY <1>2, <2>1, <2>2 DEF RequestRetained
<1>3. ASSUME NEW q \in Requests, Responds(q) PROVE RpcInv'
  <2>1. CASE InTime(q) /\ WorkGoes(q, "response")
    BY <1>3, <2>1, WorkGoesInv DEF Responds, RecordsFirst
  <2>2. CASE WorkStops(q)
    BY <1>3, <2>2, WorkStopsInv DEF Responds
  <2> QED
    BY <1>3, <2>1, <2>2 DEF Responds
<1>4. ASSUME NEW q \in Requests, ResponseRetained(q) PROVE RpcInv'
  <2>1. CASE InTime(q) /\ Answered(q)
    BY <1>4, <2>1, AnsweredInv DEF ResponseRetained
  <2>2. CASE WorkStops(q)
    BY <1>4, <2>2, WorkStopsInv DEF ResponseRetained
  <2> QED
    BY <1>4, <2>1, <2>2 DEF ResponseRetained
<1>5. ASSUME NEW q \in Requests, WorkFails(q) PROVE RpcInv'
  BY <1>5, WorkStopsInv DEF WorkFails
<1>6. ASSUME NEW q \in Requests, Abort(q) PROVE RpcInv'
  BY <1>6, AbortInv
<1>7. CASE Expire
  BY <1>7, FrameInv DEF Expire
<1>8. CASE UNCHANGED rpcVars
  BY <1>8, FrameInv DEF rpcVars, RpcTypeOK
<1> QED
  BY <1>1, <1>2, <1>3, <1>4, <1>5, <1>6, <1>7, <1>8 DEF RpcNext

(***************************************************************************)
(* The theorems.                                                           *)
(***************************************************************************)

(* Work whose caller was told that the request is unavailable reaches      *)
(* neither the provider nor the journal: for any number of overlapping     *)
(* requests of an instance (supervised-rpc-v1.mjs, request).               *)
THEOREM GivenUpWorkStartsNothing == RpcSpec => []NothingStartsAfterGivingUp
<1>1. RpcInv => NothingStartsAfterGivingUp
  BY DEF RpcInv
<1> QED
  BY <1>1, InitInv, NextInv, PTL DEF RpcSpec

(* A response that a caller acts on is retained with its request, and no   *)
(* more requests than the budget are ever retained: whatever the races.    *)
THEOREM AnsweredIsRetained == RpcSpec => []AnswersAreRetained
BY InitInv, NextInv, InvAnswers, PTL DEF RpcSpec

-----------------------------------------------------------------------------
(* The schedule over the supervised RPC. *)

Kinds == {"send", "status", "height", "transaction"}
Alive == {"reads", "counted", "flight"}
Call == [kind : Kinds, attempt : 0 .. 3, work : Alive \cup {"accepted", "stopped"}]
Sending == [attempt : 0 .. 3, caller : {"waiting", "gone"}]
Verdicts == Classifications \cup {None}
Attempting == {"send", "sleep", "status", "height"}
Resolving == {"poll", "pollHeight", "transaction", "finish", "end"}
Schedule ==
  [pc : Attempting \cup Resolving \cup {"wait"}, attempt : 1 .. 3, window : {"early", "open", "past"},
   poll : Nat, status : {None, "NULL", "PENDING", "FINALIZED", "ERROR"}, id : Nat, verdict : Verdicts]
ChainStates == {"absent", "included", "included with error", "finalized", "failed"}

SubmissionTypeOK ==
  /\ sched \in Schedule
  /\ calls \in Seq(Call)
  /\ closed \in BOOLEAN /\ expired \in BOOLEAN
  /\ chain \in ChainStates
  /\ result \in Verdicts \cup {"UNRESOLVED"}
  /\ sends \in Seq(Sending)

(* Only the awaited call can still be counted or reach the provider.       *)
OnlyAwaitedLives ==
  /\ Waiting => sched.id \in DOMAIN calls
  /\ ~closed => \A id \in DOMAIN calls :
       calls[id].work \in Alive /\ id \notin retired => Waiting /\ id = sched.id

(* Gates carry the attempt in progress; a transaction is never a gate.     *)
GatesAreCurrent ==
  /\ \A id \in DOMAIN calls :
       /\ calls[id].kind = "send" => calls[id].attempt > 0
       /\ calls[id].kind = "transaction" => calls[id].attempt = 0
  /\ Waiting /\ Active.attempt > 0 => Active.attempt = sched.attempt

PastSend ==
  \/ sched.pc \in Resolving
  \/ Waiting /\ Active.attempt = 0
  \/ Waiting /\ Active.kind = "send" /\ Active.work \notin {"reads", "counted"}

(* What was sent belongs to an attempt the schedule is past.               *)
SentBefore ==
  \A k \in DOMAIN sends :
    /\ sends[k].attempt <= sched.attempt
    /\ sends[k].attempt = sched.attempt => PastSend

CountedIsTimed ==
  \A id \in DOMAIN calls :
    /\ calls[id].work \in {"counted", "flight"} =>
         id \in timing \/ (Waiting /\ id = sched.id) \/ result = "UNRESOLVED"
    /\ calls[id].work = "accepted" => id \in timing

TrueOf(c) ==
  /\ c = "FINALIZED_SUCCESS" => chain = "finalized"
  /\ c = "FINALIZED_FAILURE" => chain = "failed"
  /\ c = "EXPIRED_ABSENT" => chain = "absent" /\ expired

AsksTransaction == sched.pc = "transaction" \/ (Waiting /\ Active.kind = "transaction")

(* Absence is concluded from a height that passed and a look after it.     *)
VerdictsAreTrue ==
  /\ sched.pc = "finish" => TrueOf(sched.verdict) /\ sched.verdict # None
  /\ TrueOf(result)
  /\ expired => chain \in {"absent", "finalized", "failed"}
  /\ AsksTransaction /\ sched.status = "NULL" => expired

Ended == IF closed THEN sched.pc = "end" /\ result # None ELSE sched.pc # "end" /\ result = None

SubmissionInv ==
  /\ SubmissionTypeOK /\ OnlyAwaitedLives /\ GatesAreCurrent /\ SentBefore
  /\ GivenUpSendsStayUnsent /\ CountedIsTimed /\ VerdictsAreTrue /\ Ended

(* The invariant holds before the first attempt.                           *)
LEMMA SubmissionInit == ScheduleInit => SubmissionInv
<1> SUFFICES ASSUME ScheduleInit PROVE SubmissionInv
  OBVIOUS
<1>1. SubmissionTypeOK
  <2>1. sched \in Schedule
    BY DEF ScheduleInit, Schedule, Attempting, Verdicts, None
  <2>2. << >> \in Seq(Call) /\ << >> \in Seq(Sending)
    OBVIOUS
  <2> QED
    BY <2>1, <2>2 DEF ScheduleInit, SubmissionTypeOK, Verdicts, ChainStates
<1>2. calls = << >> /\ sends = << >> /\ sched.pc = "send" /\ ~closed /\ ~expired /\ result = None
  BY DEF ScheduleInit
<1> QED
  BY <1>1, <1>2 DEF SubmissionInv, OnlyAwaitedLives, GatesAreCurrent, SentBefore, Waiting, None,
     GivenUpSendsStayUnsent, CountedIsTimed, VerdictsAreTrue, TrueOf, AsksTransaction, Ended

(* The invariant is what the terminal classification needs.                *)
LEMMA InvTerminal == SubmissionInv => TerminalIsTrue
BY DEF SubmissionInv, SubmissionTypeOK, CountedIsTimed, VerdictsAreTrue, TrueOf, Ended, Waiting,
       TerminalIsTrue, Classifications, None

(***************************************************************************)
(* The chain moves under an unmoved schedule.                              *)
(***************************************************************************)

LEMMA ChainMoves ==
  ASSUME SubmissionInv, UNCHANGED <<scheduleVars, sends>>,
         (expired \in BOOLEAN)', (chain \in ChainStates)',
         (expired => chain \in {"absent", "finalized", "failed"})',
         expired => expired',
         chain \in {"finalized", "failed"} \/ expired => chain' = chain
  PROVE  SubmissionInv'
<1>1. (SubmissionTypeOK /\ OnlyAwaitedLives /\ GatesAreCurrent /\ SentBefore /\ GivenUpSendsStayUnsent
        /\ CountedIsTimed /\ Ended)'
  BY DEF SubmissionInv, SubmissionTypeOK, OnlyAwaitedLives, GatesAreCurrent, SentBefore, PastSend,
         GivenUpSendsStayUnsent, CountedIsTimed, Ended, scheduleVars, Waiting, Active
<1>2. VerdictsAreTrue'
  BY DEF SubmissionInv, SubmissionTypeOK, VerdictsAreTrue, TrueOf, AsksTransaction, scheduleVars,
         Waiting, Active
<1> QED
  BY <1>1, <1>2 DEF SubmissionInv

(***************************************************************************)
(* What the steps of the schedule make of it.                              *)
(***************************************************************************)

(* The schedule that goes on keeps its attempt.                            *)
LEMMA Goes ==
  ASSUME sched \in Schedule, NEW pc \in Attempting \cup Resolving
  PROVE  GoTo(pc) \in Schedule /\ GoTo(pc).pc = pc /\ GoTo(pc).attempt = sched.attempt
BY DEF Schedule, GoTo

(* The schedule that learns a status keeps its attempt.                    *)
LEMMA Learns ==
  ASSUME sched \in Schedule, NEW pc \in Resolving,
         NEW status \in {"NULL", "PENDING", "FINALIZED", "ERROR"}
  PROVE  /\ Learn(status, pc) \in Schedule /\ Learn(status, pc).pc = pc
         /\ Learn(status, pc).attempt = sched.attempt /\ Learn(status, pc).status = status
BY DEF Schedule, Learn

(* The schedule that finishes has its verdict.                             *)
LEMMA Finishes ==
  ASSUME sched \in Schedule, NEW c \in Classifications
  PROVE  /\ Finish(c) \in Schedule /\ Finish(c).pc = "finish" /\ Finish(c).attempt = sched.attempt
         /\ Finish(c).verdict = c /\ c # None
BY DEF Schedule, Finish, Resolving, Verdicts, Classifications, None

(* A new poll belongs to the same attempt.                                 *)
LEMMA PollsAgain ==
  ASSUME sched \in Schedule
  PROVE  NewPoll \in Schedule /\ NewPoll.pc = "poll" /\ NewPoll.attempt = sched.attempt
<1>1. sched.poll + 1 \in Nat /\ "poll" \in Resolving
  BY DEF Schedule, Resolving
<1> QED
  BY <1>1 DEF Schedule, NewPoll

(* After the polls comes the next attempt, if there is one.                *)
LEMMA AttemptsAgain ==
  ASSUME sched \in Schedule
  PROVE  /\ NextAttempt \in Schedule
         /\ \/ NextAttempt.pc = "poll" /\ NextAttempt.attempt = sched.attempt
            \/ NextAttempt.pc = "sleep" /\ NextAttempt.attempt = sched.attempt + 1
<1>1. CASE sched.attempt = 3
  BY <1>1, Goes DEF NextAttempt, MaxAttempts, Resolve, Resolving
<1>2. CASE sched.attempt # 3
  <2>1. sched.attempt + 1 \in 1 .. 3 /\ "sleep" \in Attempting
    BY <1>2 DEF Schedule, Attempting
  <2>2. NewAttempt \in Schedule /\ NewAttempt.pc = "sleep" /\ NewAttempt.attempt = sched.attempt + 1
    BY <2>1 DEF Schedule, NewAttempt
  <2>3. NextAttempt = NewAttempt
    BY <1>2 DEF NextAttempt, MaxAttempts
  <2> QED
    BY <2>2, <2>3
<1> QED
  BY <1>1, <1>2

(***************************************************************************)
(* The schedule moves between two waits.                                   *)
(***************************************************************************)

(* A move of the schedule that asks nobody keeps the invariant.            *)
LEMMA MovesInv ==
  ASSUME SubmissionInv, ~closed, NEW s \in Schedule, Moves(s),
         s.attempt = sched.attempt, s.id = sched.id,
         s.pc = sched.pc \/ (~Waiting /\ s.pc \in {"status", "poll", "finish"}),
         s.pc \in Attempting \cup {"wait"} => sched.pc \in Attempting \cup {"wait"},
         s.pc = "finish" /\ s.pc # sched.pc => s.verdict = "AMBIGUOUS",
         s.pc = sched.pc => s.verdict = sched.verdict,
         s.status = sched.status
  PROVE  SubmissionInv'
<1> USE DEF SubmissionInv
<1>1. SubmissionTypeOK' /\ Ended'
  BY DEF SubmissionTypeOK, Ended, Moves, Waiting
<1>2. OnlyAwaitedLives' /\ GatesAreCurrent' /\ CountedIsTimed'
  BY DEF OnlyAwaitedLives, GatesAreCurrent, CountedIsTimed, Moves, Waiting, Active
<1>3. SentBefore' /\ GivenUpSendsStayUnsent'
  BY DEF SubmissionTypeOK, Schedule, Attempting, Resolving, SentBefore, PastSend,
         GivenUpSendsStayUnsent, Moves, Waiting, Active
<1>4. VerdictsAreTrue'
  BY DEF VerdictsAreTrue, TrueOf, AsksTransaction, Moves, Waiting, Active, None
<1> QED
  BY <1>1, <1>2, <1>3, <1>4

(* A send belongs to one of the attempts.                                  *)
LEMMA SentTyped ==
  ASSUME SubmissionInv, NEW k \in DOMAIN sends
  PROVE  sends[k].attempt \in 0 .. 3 /\ sched.attempt \in 1 .. 3
<1>1. sched.attempt \in 1 .. 3
  BY DEF SubmissionInv, SubmissionTypeOK, Schedule
<1>2. sends \in Seq(Sending)
  BY DEF SubmissionInv, SubmissionTypeOK
<1>3. sends[k] \in Sending
  BY <1>2
<1> QED
  BY <1>1, <1>3 DEF Sending

(* A question that is asked keeps the invariant.                           *)
LEMMA AskInv ==
  ASSUME SubmissionInv, ~closed, ~Waiting, NEW kind \in Kinds, NEW attempt,
         calls' = Append(calls, [kind |-> kind, attempt |-> attempt, work |-> "reads"]),
         sched' = [sched EXCEPT !.pc = "wait", !.id = Len(calls) + 1],
         UNCHANGED <<retired, timing, closed, result, chain, expired, sends>>,
         \/ attempt = sched.attempt /\ sched.pc \in Attempting /\ kind # "transaction"
         \/ attempt = 0 /\ kind # "send" /\ (kind = "transaction" => sched.pc = "transaction")
  PROVE  SubmissionInv'
<1> USE DEF SubmissionInv
<1> DEFINE c == [kind |-> kind, attempt |-> attempt, work |-> "reads"]
<1>1. c \in Call
  BY DEF Call, Alive, SubmissionTypeOK, Schedule
<1>2. /\ c.kind = kind /\ c.attempt = attempt /\ c.work = "reads"
      /\ calls' = Append(calls, c)
  OBVIOUS
<1>3. calls \in Seq(Call) /\ sched \in Schedule
  BY DEF SubmissionTypeOK
<1> HIDE DEF c
<1>4. /\ Len(calls) \in Nat
      /\ \A id : id \in DOMAIN calls => id \in DOMAIN calls' /\ calls'[id] = calls[id] /\ id # Len(calls) + 1
      /\ \A id : id \in DOMAIN calls' => id \in DOMAIN calls \/ id = Len(calls) + 1
      /\ Len(calls) + 1 \in DOMAIN calls' /\ calls'[Len(calls) + 1] = c
      /\ calls' \in Seq(Call)
  BY <1>1, <1>2, <1>3
<1>5. /\ sched'.pc = "wait" /\ sched'.id = Len(calls) + 1
      /\ sched'.attempt = sched.attempt /\ sched'.status = sched.status
      /\ sched' \in Schedule
  <2>1. Len(calls) + 1 \in Nat
    BY <1>4
  <2> QED
    BY <1>3, <2>1 DEF Schedule
<1>6. Active' = c /\ Waiting'
  BY <1>4, <1>5 DEF Active, Waiting
<1>7. SubmissionTypeOK' /\ Ended'
  BY <1>4, <1>5 DEF SubmissionTypeOK, Ended
<1>8. OnlyAwaitedLives' /\ CountedIsTimed'
  BY <1>2, <1>4, <1>5, <1>6 DEF OnlyAwaitedLives, CountedIsTimed
<1>9. GatesAreCurrent'
  <2>1. sched.attempt > 0
    BY <1>3 DEF Schedule
  <2> QED
    BY <1>2, <1>4, <1>5, <1>6, <2>1 DEF GatesAreCurrent
<1>10. SentBefore' /\ GivenUpSendsStayUnsent'
  <2>1. CASE sched.pc \in Attempting
    <3>1. ~PastSend
      <4>1. sched.pc \notin Resolving
        BY <2>1 DEF Attempting, Resolving
      <4> QED
        BY <4>1 DEF PastSend
    <3>2. \A k \in DOMAIN sends : sends[k].attempt < sched.attempt
      <4> TAKE k \in DOMAIN sends
      <4>1. sends[k].attempt \in 0 .. 3 /\ sched.attempt \in 1 .. 3
        BY SentTyped
      <4>2. sends[k].attempt <= sched.attempt /\ sends[k].attempt # sched.attempt
        BY <3>1 DEF SentBefore
      <4> QED
        BY <4>1, <4>2
    <3> QED
      BY <3>2, <1>3, <1>5 DEF SentBefore, GivenUpSendsStayUnsent, SubmissionTypeOK, Schedule
  <2>2. CASE attempt = 0
    BY <2>2, <1>2, <1>5, <1>6 DEF SentBefore, PastSend, GivenUpSendsStayUnsent
  <2> QED
    BY <2>1, <2>2
<1>11. VerdictsAreTrue'
  BY <1>2, <1>5, <1>6 DEF VerdictsAreTrue, TrueOf, AsksTransaction
<1> QED
  BY <1>7, <1>8, <1>9, <1>10, <1>11

(* The end of the schedule keeps the invariant.                            *)
LEMMA EndInv ==
  ASSUME SubmissionInv, Complete \/ Unresolved
  PROVE  SubmissionInv'
<1> USE DEF SubmissionInv
<1>1. /\ ~closed /\ closed' = TRUE /\ sched' = GoTo("end")
      /\ UNCHANGED <<calls, retired, timing, chain, expired, sends>>
      /\ result' = "UNRESOLVED" \/ (sched.pc = "finish" /\ result' = sched.verdict)
  BY DEF Complete, Unresolved
<1>2. sched'.pc = "end" /\ sched'.attempt = sched.attempt /\ sched' \in Schedule
  BY <1>1, Goes DEF SubmissionTypeOK, Resolving
<1>3. SubmissionTypeOK'
  BY <1>1, <1>2 DEF SubmissionTypeOK, Schedule
<1>4. OnlyAwaitedLives' /\ GatesAreCurrent'
  BY <1>1, <1>2 DEF OnlyAwaitedLives, GatesAreCurrent, Waiting
<1>5. SentBefore' /\ GivenUpSendsStayUnsent'
  BY <1>1, <1>2 DEF SentBefore, GivenUpSendsStayUnsent, PastSend, Resolving
<1>6. CountedIsTimed'
  BY <1>1, <1>2 DEF CountedIsTimed, Waiting, Ended, None
<1>7. VerdictsAreTrue'
  BY <1>1, <1>2 DEF VerdictsAreTrue, TrueOf, AsksTransaction, Waiting
<1>8. result' # None
  BY <1>1 DEF VerdictsAreTrue, None, Ended
<1> QED
  BY <1>1, <1>2, <1>3, <1>4, <1>5, <1>6, <1>7, <1>8 DEF Ended

(***************************************************************************)
(* The transport's work on a call.                                         *)
(***************************************************************************)

(* The work of one call changes nothing of the others.                     *)
LEMMA CallWorkKeeps ==
  ASSUME calls \in Seq(Call), NEW id \in DOMAIN calls,
         NEW work \in Alive \cup {"accepted", "stopped"}, CallWork(id, work)
  PROVE  /\ calls' \in Seq(Call) /\ DOMAIN calls' = DOMAIN calls
         /\ calls'[id].work = work
         /\ \A i \in DOMAIN calls :
              /\ calls'[i].kind = calls[i].kind /\ calls'[i].attempt = calls[i].attempt
              /\ i # id => calls'[i] = calls[i]
<1>1. calls[id] \in Call
  OBVIOUS
<1>2. [calls[id] EXCEPT !.work = work] \in Call
  BY <1>1 DEF Call
<1>3. calls' = [calls EXCEPT ![id] = [calls[id] EXCEPT !.work = work]]
  BY DEF CallWork
<1>4. calls' \in Seq(Call) /\ DOMAIN calls' = DOMAIN calls
  BY <1>2, <1>3
<1>5. calls'[id] = [calls[id] EXCEPT !.work = work] /\ \A i \in DOMAIN calls : i # id => calls'[i] = calls[i]
  BY <1>3
<1>6. /\ calls'[id].work = work /\ calls'[id].kind = calls[id].kind
      /\ calls'[id].attempt = calls[id].attempt
  BY <1>1, <1>5 DEF Call
<1> QED
  BY <1>4, <1>5, <1>6

(* Work of a call goes on under an unmoved schedule.                       *)
LEMMA WorkInv ==
  ASSUME SubmissionInv, NEW id \in DOMAIN calls, NEW work \in Alive \cup {"stopped"}, CallWork(id, work),
         UNCHANGED <<sched, retired, closed, result, chain, expired, sends>>,
         timing \subseteq timing',
         work \in {"counted", "flight"} => calls[id].work \in Alive /\ ~closed /\ id \notin retired,
         Active.work \notin {"reads", "counted"} /\ id = sched.id => work \notin {"reads", "counted"},
         work = "reads" => calls[id].work = "reads"
  PROVE  SubmissionInv'
<1> USE DEF SubmissionInv
<1>1. calls \in Seq(Call)
  BY DEF SubmissionTypeOK
<1>2. /\ calls' \in Seq(Call) /\ DOMAIN calls' = DOMAIN calls
      /\ calls'[id].work = work
      /\ \A i \in DOMAIN calls :
           /\ calls'[i].kind = calls[i].kind /\ calls'[i].attempt = calls[i].attempt
           /\ i # id => calls'[i] = calls[i]
  BY <1>1, CallWorkKeeps
<1>3. SubmissionTypeOK' /\ Ended' /\ GivenUpSendsStayUnsent'
  BY <1>2 DEF SubmissionTypeOK, Ended, GivenUpSendsStayUnsent
<1>4. OnlyAwaitedLives'
  BY <1>2 DEF OnlyAwaitedLives, Waiting, Alive
<1>5. GatesAreCurrent'
  BY <1>2 DEF GatesAreCurrent, OnlyAwaitedLives, Waiting, Active
<1>6. CountedIsTimed'
  <2>1. ASSUME NEW i \in DOMAIN calls, i # id
        PROVE  /\ calls'[i].work \in {"counted", "flight"} =>
                    i \in timing' \/ (Waiting' /\ i = sched'.id) \/ result' = "UNRESOLVED"
               /\ calls'[i].work = "accepted" => i \in timing'
    BY <1>2, <2>1 DEF CountedIsTimed, Waiting
  <2>2. work \in {"counted", "flight"} => Waiting' /\ id = sched'.id
    BY DEF OnlyAwaitedLives, Waiting
  <2>3. work # "accepted"
    BY DEF Alive
  <2> QED
    BY <1>2, <2>1, <2>2, <2>3 DEF CountedIsTimed
<1>7. PastSend => PastSend'
  BY <1>2 DEF PastSend, OnlyAwaitedLives, Waiting, Active
<1>8. SentBefore'
  BY <1>7 DEF SentBefore
<1>9. VerdictsAreTrue'
  BY <1>2 DEF VerdictsAreTrue, TrueOf, AsksTransaction, OnlyAwaitedLives, Waiting, Active
<1> QED
  BY <1>3, <1>4, <1>5, <1>6, <1>8, <1>9

(* The effect: what it sends is the awaited send of the current attempt.   *)
LEMMA InvokeInv ==
  ASSUME SubmissionInv, NEW id \in DOMAIN calls, Invoke(id)
  PROVE  SubmissionInv'
<1> USE DEF SubmissionInv
<1>1. /\ CallWork(id, "flight") /\ calls[id].work = "counted" /\ ~closed /\ id \notin retired
      /\ UNCHANGED <<sched, retired, timing, closed, result, chain, expired>>
  BY DEF Invoke, Dispatches
<1>2. Waiting /\ id = sched.id
  BY <1>1 DEF OnlyAwaitedLives, Alive
<1>3. CASE calls[id].kind # "send"
  <2>1. sends' = sends
    BY <1>3 DEF Invoke, Dispatches
  <2> QED
    BY <1>1, <2>1, WorkInv DEF Alive
<1>4. CASE calls[id].kind = "send"
  <2> DEFINE new == [attempt |-> calls[id].attempt, caller |-> "waiting"]
  <2>1. sends' = Append(sends, new)
    BY <1>2, <1>4 DEF Invoke, Dispatches
  <2>2. calls \in Seq(Call) /\ sched \in Schedule /\ sends \in Seq(Sending)
    BY DEF SubmissionTypeOK
  <2>3. calls[id].attempt = sched.attempt /\ sched.attempt \in 1 .. 3
    BY <1>2, <1>4, <2>2 DEF GatesAreCurrent, Active, Schedule
  <2>4. new \in Sending /\ new.attempt = sched.attempt /\ new.caller = "waiting"
    BY <2>3 DEF Sending
  <2> HIDE DEF new
  <2>5. /\ Len(sends) \in Nat /\ sends' \in Seq(Sending)
        /\ DOMAIN sends' = 1 .. (Len(sends) + 1) /\ DOMAIN sends = 1 .. Len(sends)
        /\ sends'[Len(sends) + 1] = new
        /\ \A k \in DOMAIN sends : sends'[k] = sends[k]
    BY <2>1, <2>2, <2>4
  <2>6. ~PastSend
    BY <1>1, <1>2, <1>4, <2>3 DEF PastSend, Waiting, Active, Resolving
  <2>7. \A k \in DOMAIN sends : sends[k].attempt < sched.attempt
    <3> TAKE k \in DOMAIN sends
    <3>1. sends[k].attempt \in 0 .. 3 /\ sched.attempt \in 1 .. 3
      BY SentTyped
    <3> QED
      BY <2>6, <3>1 DEF SentBefore
  <2>8. /\ calls' \in Seq(Call) /\ DOMAIN calls' = DOMAIN calls
        /\ calls'[id].work = "flight"
        /\ \A i \in DOMAIN calls :
             /\ calls'[i].kind = calls[i].kind /\ calls'[i].attempt = calls[i].attempt
             /\ i # id => calls'[i] = calls[i]
    BY <1>1, <2>2, CallWorkKeeps DEF Alive
  <2>9. SubmissionTypeOK' /\ Ended'
    BY <1>1, <2>5, <2>8 DEF SubmissionTypeOK, Ended
  <2>10. OnlyAwaitedLives' /\ GatesAreCurrent' /\ CountedIsTimed'
    BY <1>1, <1>2, <2>8 DEF OnlyAwaitedLives, GatesAreCurrent, CountedIsTimed, Waiting, Active
  <2>11. PastSend'
    BY <1>1, <1>2, <1>4, <2>8 DEF PastSend, Waiting, Active
  <2>12. SentBefore'
    <3>1. ASSUME NEW k \in DOMAIN sends' PROVE sends'[k].attempt <= sched.attempt
      <4>1. CASE k \in DOMAIN sends
        BY <2>3, <2>5, <2>7, <4>1 DEF SentBefore
      <4>2. CASE k = Len(sends) + 1
        BY <2>3, <2>4, <2>5, <4>2
      <4> QED
        BY <2>5, <4>1, <4>2
    <3> QED
      BY <1>1, <2>11, <3>1 DEF SentBefore
  <2>13. GivenUpSendsStayUnsent'
    <3>1. \A k \in DOMAIN sends' : sends'[k].caller = "waiting"
      BY <2>4, <2>5 DEF GivenUpSendsStayUnsent
    <3>2. ASSUME NEW j \in DOMAIN sends', NEW k \in DOMAIN sends', j < k
          PROVE  sends'[j].attempt < sends'[k].attempt
      <4>1. j \in DOMAIN sends /\ (k \in DOMAIN sends \/ k = Len(sends) + 1)
        BY <2>5, <3>2
      <4>2. CASE k \in DOMAIN sends
        BY <2>5, <3>2, <4>1, <4>2 DEF GivenUpSendsStayUnsent
      <4>3. CASE k = Len(sends) + 1
        BY <2>4, <2>5, <2>7, <4>1, <4>3
      <4> QED
        BY <4>1, <4>2, <4>3
    <3> QED
      BY <3>1, <3>2 DEF GivenUpSendsStayUnsent
  <2>14. VerdictsAreTrue'
    BY <1>1, <1>2, <2>8 DEF VerdictsAreTrue, TrueOf, AsksTransaction, Waiting, Active
  <2> QED
    BY <2>9, <2>10, <2>12, <2>13, <2>14
<1> QED
  BY <1>3, <1>4

(***************************************************************************)
(* What the schedule makes of an answer, or of no answer.                  *)
(***************************************************************************)

(* What the schedule makes of an answer is sound, in every position.       *)
LEMMA AfterIsSound ==
  ASSUME SubmissionInv, Waiting, NEW answer \in Answers(Active.kind) \cup {"nobody"}
  PROVE  LET s == After(answer)
         IN  /\ s \in Schedule /\ s.pc \in Attempting \cup (Resolving \ {"end"})
             /\ s.attempt = sched.attempt \/ s.attempt = sched.attempt + 1
             /\ s.attempt = sched.attempt /\ s.pc \in Attempting =>
                  Active.attempt > 0 /\ Active.kind # "send"
             /\ s.pc = "finish" => TrueOf(s.verdict) /\ s.verdict # None
             /\ s.pc = "transaction" /\ s.status = "NULL" => expired
<1> USE DEF SubmissionInv
<1> DEFINE s == After(answer)
<1>1. sched \in Schedule /\ calls \in Seq(Call) /\ chain \in ChainStates /\ sched.id \in DOMAIN calls
  BY DEF SubmissionTypeOK, OnlyAwaitedLives
<1>2. Active \in Call
  BY <1>1 DEF Active
<1>a. sched.attempt # sched.attempt + 1
  BY <1>1 DEF Schedule
<1>3. CASE Active.attempt > 0
  <2>1. s = AfterGate(answer) /\ Active.kind # "transaction"
    BY <1>1, <1>3 DEF After, GatesAreCurrent, Active
  <2>2. Resolve \in Schedule /\ Resolve.pc = "poll" /\ Resolve.attempt = sched.attempt
    BY <1>1, Goes DEF Resolve, Resolving
  <2>3. CASE Active.kind = "send"
    <3>1. s = Resolve \/ s = NextAttempt
      BY <2>1, <2>3 DEF AfterGate
    <3> HIDE DEF s
    <3>2. /\ s \in Schedule
          /\ \/ s.pc = "poll" /\ s.attempt = sched.attempt
             \/ s.pc = "sleep" /\ s.attempt = sched.attempt + 1
      BY <1>1, <2>2, <3>1, AttemptsAgain
    <3>3. s.pc # "finish" /\ s.pc # "transaction" /\ s.pc \in Attempting \cup (Resolving \ {"end"})
          /\ (s.pc \in Attempting => s.pc = "sleep")
      BY <3>2 DEF Attempting, Resolving
    <3>4. (s.attempt = sched.attempt \/ s.attempt = sched.attempt + 1)
          /\ ~(s.attempt = sched.attempt /\ s.pc \in Attempting)
      BY <1>a, <3>2, <3>3
    <3> QED
      BY <3>2, <3>3, <3>4 DEF s
  <2>4. CASE Active.kind # "send"
    <3>1. s \in {Resolve, GoTo("height"), GoTo("send")}
      BY <2>1, <2>4 DEF AfterGate
    <3> HIDE DEF s
    <3>2. s \in Schedule /\ s.pc \in {"poll", "height", "send"} /\ s.attempt = sched.attempt
      BY <1>1, <2>2, <3>1, Goes DEF Attempting
    <3>3. s.pc # "finish" /\ s.pc # "transaction" /\ s.pc \in Attempting \cup (Resolving \ {"end"})
      BY <3>2 DEF Attempting, Resolving
    <3> QED
      BY <1>3, <2>4, <3>2, <3>3 DEF s
  <2> QED
    BY <2>3, <2>4
<1>4. CASE ~(Active.attempt > 0)
  <2>1. s = AfterPoll(answer) /\ Active.kind # "send"
    BY <1>1, <1>4 DEF After, GatesAreCurrent, Active
  <2>2. SUFFICES /\ s \in Schedule /\ s.pc \in Resolving \ {"end"} /\ s.attempt = sched.attempt
                 /\ s.pc = "finish" => TrueOf(s.verdict) /\ s.verdict # None
                 /\ s.pc = "transaction" /\ s.status = "NULL" => expired
    <3>1. \A p \in Resolving : p \notin Attempting
      BY DEF Attempting, Resolving
    <3> HIDE DEF s
    <3> QED
      BY <2>2, <3>1 DEF s
  <2>3. CASE s = Finish("AMBIGUOUS")
    <3>1. "AMBIGUOUS" \in Classifications /\ TrueOf("AMBIGUOUS")
      BY DEF Classifications, TrueOf
    <3> HIDE DEF s
    <3>2. s \in Schedule /\ s.pc = "finish" /\ s.attempt = sched.attempt /\ s.verdict = "AMBIGUOUS"
          /\ s.verdict # None
      BY <1>1, <2>3, <3>1, Finishes
    <3>3. "finish" \in Resolving \ {"end"} /\ "finish" # "transaction"
      BY DEF Resolving
    <3> QED
      BY <3>1, <3>2, <3>3
  <2>4. CASE Active.kind = "status" /\ answer \in {"FINALIZED", "ERROR"}
    <3>1. s = Learn(answer, "transaction")
      BY <2>1, <2>4 DEF AfterPoll, AfterStatus
    <3> HIDE DEF s
    <3>2. s \in Schedule /\ s.pc = "transaction" /\ s.attempt = sched.attempt /\ s.status = answer
      BY <1>1, <2>4, <3>1, Learns DEF Resolving
    <3> QED
      BY <2>4, <3>2 DEF Resolving
  <2>5. CASE Active.kind = "status" /\ answer \in {"NULL", "PENDING"}
    <3>1. s = Learn(answer, "pollHeight")
      BY <2>1, <2>5 DEF AfterPoll, AfterStatus
    <3> HIDE DEF s
    <3>2. s \in Schedule /\ s.pc = "pollHeight" /\ s.attempt = sched.attempt
      BY <1>1, <2>5, <3>1, Learns DEF Resolving
    <3> QED
      BY <3>2 DEF Resolving
  <2>6. CASE Active.kind = "height" /\ answer \in {"LIVE", "EXPIRED"}
    <3>1. \/ s = GoTo("transaction") /\ answer = "EXPIRED"
          \/ s = NewPoll
      BY <2>1, <2>6 DEF AfterPoll, AfterHeight
    <3>2. answer = "EXPIRED" => expired
      BY <2>6 DEF Answers
    <3> HIDE DEF s
    <3>3. /\ s \in Schedule /\ s.attempt = sched.attempt
          /\ (s.pc = "transaction" /\ expired) \/ s.pc = "poll"
      BY <1>1, <3>1, <3>2, Goes, PollsAgain DEF Resolving
    <3> QED
      BY <3>3 DEF Resolving
  <2>7. CASE Active.kind = "transaction"
    <3>1. PICK c \in Classifications : s = Finish(c) /\ TrueOf(c)
      <4>1. answer = "SUCCEEDED" => chain = "finalized"
        BY <2>7 DEF Answers
      <4>2. answer = "FAILED" => chain = "failed"
        BY <2>7 DEF Answers
      <4>3. answer = "NULL" => chain \notin {"finalized", "failed"}
        BY <2>7 DEF Answers
      <4>4. sched.status = "NULL" => expired /\ (answer = "NULL" => chain = "absent")
        BY <2>7, <4>3 DEF VerdictsAreTrue, AsksTransaction
      <4>5. CASE sched.status = "NULL"
        BY <2>1, <2>7, <4>4, <4>5 DEF AfterPoll, AfterTransaction, TrueOf, Classifications
      <4>6. CASE sched.status # "NULL"
        BY <2>1, <2>7, <4>1, <4>2, <4>6 DEF AfterPoll, AfterTransaction, TrueOf, Classifications
      <4> QED
        BY <4>5, <4>6
    <3> HIDE DEF s
    <3>2. s \in Schedule /\ s.pc = "finish" /\ s.attempt = sched.attempt /\ s.verdict = c /\ c # None
      BY <1>1, <3>1, Finishes
    <3> QED
      BY <3>1, <3>2 DEF Resolving
  <2>8. Active.kind \in {"status", "height"} =>
          \/ s = Finish("AMBIGUOUS")
          \/ Active.kind = "status" /\ answer \in {"FINALIZED", "ERROR", "NULL", "PENDING"}
          \/ Active.kind = "height" /\ answer \in {"LIVE", "EXPIRED"}
    <3>1. CASE Active.kind = "status" /\ answer \notin {"FINALIZED", "ERROR", "NULL", "PENDING"}
      BY <2>1, <3>1 DEF AfterPoll, AfterStatus
    <3>2. CASE Active.kind = "height" /\ answer \notin {"LIVE", "EXPIRED"}
      BY <2>1, <3>2 DEF AfterPoll, AfterHeight
    <3> QED
      BY <3>1, <3>2
  <2>9. Active.kind \in {"status", "height", "transaction"}
    BY <1>2, <2>1 DEF Call, Kinds
  <2> HIDE DEF s
  <2> QED
    BY <2>3, <2>4, <2>5, <2>6, <2>7, <2>8, <2>9
<1> QED
  BY <1>3, <1>4

(* The awaited call is answered, or given up: the schedule goes on.        *)
LEMMA AnswerInv ==
  ASSUME SubmissionInv, Waiting, ~closed, NEW answer \in Answers(Active.kind) \cup {"nobody"},
         sched' = After(answer), UNCHANGED <<closed, result, chain, expired, sends>>,
         \/ calls' = calls /\ sched.id \in retired'
            /\ (Active.work \in {"counted", "flight"} => sched.id \in timing')
         \/ CallWork(sched.id, "stopped")
         \/ CallWork(sched.id, "accepted") /\ sched.id \in timing',
         retired \subseteq retired', timing \subseteq timing'
  PROVE  SubmissionInv'
<1> USE DEF SubmissionInv
<1>1. calls \in Seq(Call) /\ sched.id \in DOMAIN calls /\ result = None
  BY DEF SubmissionTypeOK, OnlyAwaitedLives, Ended
<1>2. /\ calls' \in Seq(Call) /\ DOMAIN calls' = DOMAIN calls
      /\ \A i \in DOMAIN calls :
           /\ calls'[i].kind = calls[i].kind /\ calls'[i].attempt = calls[i].attempt
           /\ i # sched.id => calls'[i] = calls[i]
      /\ \/ calls'[sched.id].work \in {"stopped", "accepted"}
         \/ calls'[sched.id] = calls[sched.id] /\ sched.id \in retired'
      /\ calls'[sched.id].work = "accepted" => Active.work = "accepted" \/ sched.id \in timing'
      /\ calls'[sched.id].work \in {"counted", "flight"} => sched.id \in timing'
  BY <1>1, CallWorkKeeps DEF Active
<1>3. /\ sched' \in Schedule /\ sched'.pc \in Attempting \cup (Resolving \ {"end"})
      /\ sched'.attempt = sched.attempt \/ sched'.attempt = sched.attempt + 1
      /\ sched'.attempt = sched.attempt /\ sched'.pc \in Attempting =>
           Active.attempt > 0 /\ Active.kind # "send"
      /\ sched'.pc = "finish" => TrueOf(sched'.verdict) /\ sched'.verdict # None
      /\ sched'.pc = "transaction" /\ sched'.status = "NULL" => expired
  BY AfterIsSound
<1>4. sched'.pc # "wait" /\ sched'.pc # "end"
  BY <1>3 DEF Attempting, Resolving
<1>5. SubmissionTypeOK' /\ Ended'
  BY <1>1, <1>2, <1>3, <1>4 DEF SubmissionTypeOK, Ended
<1>6. OnlyAwaitedLives'
  BY <1>1, <1>2, <1>4 DEF OnlyAwaitedLives, Waiting, Alive
<1>7. GatesAreCurrent'
  BY <1>1, <1>2, <1>4 DEF GatesAreCurrent, Waiting
<1>8. CountedIsTimed'
  <2>1. ASSUME NEW i \in DOMAIN calls
        PROVE  /\ calls'[i].work \in {"counted", "flight"} => i \in timing'
               /\ calls'[i].work = "accepted" => i \in timing'
    <3>1. CASE i = sched.id
      BY <1>1, <1>2, <3>1 DEF CountedIsTimed, Active
    <3>2. CASE i # sched.id
      BY <1>1, <1>2, <3>2 DEF CountedIsTimed, Waiting, None
    <3> QED
      BY <3>1, <3>2
  <2> QED
    BY <1>2, <2>1 DEF CountedIsTimed
<1>9. GivenUpSendsStayUnsent'
  BY DEF GivenUpSendsStayUnsent
<1>10. SentBefore'
  <2>1. ASSUME NEW k \in DOMAIN sends
        PROVE  sends[k].attempt <= sched'.attempt /\ (sends[k].attempt = sched'.attempt => PastSend')
    <3>1. /\ sends[k].attempt \in 0 .. 3 /\ sched.attempt \in 1 .. 3
          /\ sends[k].attempt <= sched.attempt
      BY SentTyped DEF SentBefore
    <3>2. CASE sched'.attempt = sched.attempt + 1
      BY <3>1, <3>2
    <3>3. CASE sched'.attempt = sched.attempt /\ sched'.pc \in Resolving
      BY <3>1, <3>3 DEF PastSend
    <3>4. CASE sched'.attempt = sched.attempt /\ sched'.pc \in Attempting
      <4>1. Active.attempt > 0 /\ Active.kind # "send"
        BY <1>3, <3>4
      <4>2. sched.pc \notin Resolving
        BY DEF Waiting, Resolving
      <4>3. Active.attempt # 0
        BY <4>1
      <4>4. ~PastSend
        BY <4>1, <4>2, <4>3 DEF PastSend
      <4>5. sends[k].attempt # sched.attempt
        BY <4>4 DEF SentBefore
      <4> QED
        BY <3>1, <3>4, <4>5
    <3> QED
      BY <1>3, <3>2, <3>3, <3>4
  <2> QED
    BY <2>1 DEF SentBefore
<1>11. VerdictsAreTrue'
  BY <1>3, <1>4 DEF VerdictsAreTrue, TrueOf, AsksTransaction, Waiting
<1> QED
  BY <1>5, <1>6, <1>7, <1>8, <1>9, <1>10, <1>11

(***************************************************************************)
(* Every step.                                                             *)
(***************************************************************************)

(* The steps of the schedule keep the invariant.                           *)
LEMMA ScheduleMoves ==
  ASSUME SubmissionInv, WindowMoves \/ Send \/ Sleep \/ Gate \/ ResolutionEnds \/ ResolutionAsks
  PROVE  SubmissionInv'
<1>1. sched \in Schedule
  BY DEF SubmissionInv, SubmissionTypeOK
<1>2. ASSUME NEW kind \in Kinds, ~closed, ~Waiting, Ask(kind, TRUE), kind # "transaction",
             sched.pc \in Attempting
      PROVE  SubmissionInv'
  BY <1>2, AskInv DEF Ask
<1>3. ASSUME NEW kind \in Kinds, ~closed, ~Waiting, Ask(kind, FALSE), kind # "send",
             kind = "transaction" => sched.pc = "transaction"
      PROVE  SubmissionInv'
  BY <1>3, AskInv DEF Ask
<1>4. ASSUME NEW pc \in {"poll", "status"}, ~closed, Moves(GoTo(pc)), sched.pc \in Attempting
      PROVE  SubmissionInv'
  <2>1. /\ GoTo(pc) \in Schedule /\ GoTo(pc).pc = pc /\ GoTo(pc).attempt = sched.attempt
        /\ GoTo(pc).id = sched.id /\ GoTo(pc).status = sched.status /\ GoTo(pc).verdict = sched.verdict
    BY <1>1, <1>4 DEF GoTo, Schedule, Attempting, Resolving
  <2>2. ~Waiting
    BY <1>4 DEF Waiting, Attempting
  <2> HIDE DEF GoTo
  <2> QED
    BY <1>4, <2>1, <2>2, MovesInv
<1>5. CASE WindowMoves
  <2> DEFINE s == [sched EXCEPT !.window = IF @ = "early" THEN "open" ELSE "past"]
  <2>1. ~closed /\ Moves(s)
    BY <1>5 DEF WindowMoves
  <2>2. /\ s \in Schedule /\ s.pc = sched.pc /\ s.attempt = sched.attempt
        /\ s.id = sched.id /\ s.status = sched.status /\ s.verdict = sched.verdict
    BY <1>1 DEF Schedule
  <2> HIDE DEF s
  <2> QED
    BY <2>1, <2>2, MovesInv
<1>6. CASE Send
  BY <1>2, <1>4, <1>6 DEF Send, Resolve, Kinds, Attempting, Waiting
<1>7. CASE Sleep
  BY <1>4, <1>7 DEF Sleep, Resolve, Attempting
<1>8. CASE Gate
  BY <1>2, <1>4, <1>8 DEF Gate, Resolve, Kinds, Attempting, Waiting
<1>9. CASE ResolutionEnds
  <2>1. ~closed /\ Moves(Finish("AMBIGUOUS")) /\ sched.pc \in {"poll", "pollHeight", "transaction"}
    BY <1>9 DEF ResolutionEnds
  <2>2. /\ Finish("AMBIGUOUS") \in Schedule /\ Finish("AMBIGUOUS").pc = "finish"
        /\ Finish("AMBIGUOUS").attempt = sched.attempt /\ Finish("AMBIGUOUS").verdict = "AMBIGUOUS"
    BY <1>1, Finishes DEF Classifications
  <2>3. Finish("AMBIGUOUS").id = sched.id /\ Finish("AMBIGUOUS").status = sched.status
    BY <1>1 DEF Finish, Schedule
  <2>4. ~Waiting /\ "finish" # sched.pc /\ "finish" \notin Attempting \cup {"wait"}
    BY <2>1 DEF Waiting, Attempting
  <2> QED
    BY <2>1, <2>2, <2>3, <2>4, MovesInv
<1>10. CASE ResolutionAsks
  BY <1>3, <1>10 DEF ResolutionAsks, Kinds, Waiting
<1> QED
  BY <1>5, <1>6, <1>7, <1>8, <1>9, <1>10

(* The work of a call keeps the invariant.                                 *)
LEMMA TransportInv ==
  ASSUME SubmissionInv, NEW id \in DOMAIN calls, Transport(id)
  PROVE  SubmissionInv'
<1>1. CASE Count(id)
  BY <1>1, WorkInv DEF Count, Alive, Active
<1>2. CASE Invoke(id)
  BY <1>2, InvokeInv
<1>3. CASE Accept(id)
  <2>1. PICK answer \in Answers(calls[id].kind) : sched' = After(answer)
    BY <1>3 DEF Accept
  <2>2. answer \in Answers(Active.kind) \cup {"nobody"}
    BY <1>3, <2>1 DEF Accept, Active
  <2> QED
    BY <1>3, <2>1, <2>2, AnswerInv DEF Accept
<1>4. CASE TransportFails(id)
  <2>1. CASE Waiting /\ sched.id = id /\ ~closed
    <3>1. /\ sched' = After("nobody") /\ CallWork(sched.id, "stopped")
          /\ retired' = retired \cup {id} /\ timing \subseteq timing'
          /\ UNCHANGED <<closed, result, chain, expired, sends>>
      BY <1>4, <2>1 DEF TransportFails
    <3> QED
      BY <2>1, <3>1, AnswerInv
  <2>2. CASE ~(Waiting /\ sched.id = id /\ ~closed)
    <3>1. /\ CallWork(id, "stopped") /\ timing \subseteq timing'
          /\ UNCHANGED <<sched, retired, closed, result, chain, expired, sends>>
      BY <1>4, <2>2 DEF TransportFails
    <3> QED
      BY <3>1, WorkInv
  <2> QED
    BY <2>1, <2>2
<1> QED
  BY <1>1, <1>2, <1>3, <1>4 DEF Transport

(* The steps of the chain keep the invariant.                              *)
LEMMA ChainSteps ==
  ASSUME SubmissionInv, CaptureSource \/ Land \/ Settle \/ PassHeight \/ UNCHANGED allVars
  PROVE  SubmissionInv'
<1>1. expired \in BOOLEAN /\ chain \in ChainStates /\ (expired => chain \in {"absent", "finalized", "failed"})
  BY DEF SubmissionInv, SubmissionTypeOK, VerdictsAreTrue
<1>2. CASE CaptureSource \/ UNCHANGED allVars
  BY <1>1, <1>2, ChainMoves DEF CaptureSource, allVars
<1>3. CASE Land
  BY <1>1, <1>3, ChainMoves DEF Land, ChainStates
<1>4. CASE Settle
  BY <1>1, <1>4, ChainMoves DEF Settle, ChainStates
<1>5. CASE PassHeight
  BY <1>1, <1>5, ChainMoves DEF PassHeight, ChainStates
<1> QED
  BY <1>2, <1>3, <1>4, <1>5

(* Every step keeps the invariant.                                         *)
LEMMA SubmissionStep == SubmissionInv /\ [SubmissionNext]_allVars => SubmissionInv'
<1> SUFFICES ASSUME SubmissionInv, [SubmissionNext]_allVars PROVE SubmissionInv'
  OBVIOUS
<1>1. CASE SchedulerTimeout
  BY <1>1, AnswerInv DEF SchedulerTimeout, GiveUp
<1>2. CASE Complete \/ Unresolved
  BY <1>2, EndInv
<1>3. CASE WindowMoves \/ Send \/ Sleep \/ Gate \/ ResolutionEnds \/ ResolutionAsks
  BY <1>3, ScheduleMoves
<1>4. CASE \E id \in DOMAIN calls : Transport(id)
  BY <1>4, TransportInv
<1>5. CASE CaptureSource \/ Land \/ Settle \/ PassHeight \/ UNCHANGED allVars
  BY <1>5, ChainSteps
<1> QED
  BY <1>1, <1>2, <1>3, <1>4, <1>5 DEF SubmissionNext, Scheduler

(* A step of the submission is a step of its supervised RPC or leaves it.  *)
LEMMA SubmissionStepsRpc == [SubmissionNext]_allVars => [RpcNext]_rpcVars
BY DEF SubmissionNext, Scheduler, WindowMoves, Send, Sleep, Gate, ResolutionEnds, ResolutionAsks,
       SchedulerTimeout, Complete, Unresolved, Transport, Count, Invoke, Dispatches, Accept,
       TransportFails, CaptureSource, Land, Settle, PassHeight, Ask, Moves, allVars, rpcVars

(***************************************************************************)
(* The theorems.                                                           *)
(***************************************************************************)

(* The retained bytes reach the provider at most once for each attempt, in *)
(* the order of the attempts, and never after the schedule gave the send   *)
(* up: the timers of bounded-rebroadcast-v1.mjs (boundStartedCall) and of  *)
(* wiggles-submission-v1.mjs (boundedTransport) may fire in any order.     *)
THEOREM GivenUpSendsAreNeverSent == SubmissionSpec => []GivenUpSendsStayUnsent
<1>1. SubmissionInv => GivenUpSendsStayUnsent
  BY DEF SubmissionInv
<1> QED
  BY <1>1, SubmissionInit, SubmissionStep, PTL DEF SubmissionSpec

(* A finalized success, a finalized failure and an expired absence are     *)
(* true of the chain for good, and come with complete timing evidence      *)
(* (resolveExactSignatureTerminal, finalizeResolution).                    *)
THEOREM TerminalsAreTrue == SubmissionSpec => []TerminalIsTrue
BY SubmissionInit, SubmissionStep, InvTerminal, PTL DEF SubmissionSpec

(* In the capture that follows a finalized success, too, work whose caller *)
(* gave up starts nothing.                                                 *)
THEOREM CaptureStartsNothingLate == SubmissionSpec => []NothingStartsAfterGivingUp
<1>1. ScheduleInit => RpcInv
  BY InitInv DEF ScheduleInit
<1>2. RpcInv /\ [SubmissionNext]_allVars => RpcInv'
  BY NextInv, SubmissionStepsRpc
<1>3. RpcInv => NothingStartsAfterGivingUp
  BY DEF RpcInv
<1> QED
  BY <1>1, <1>2, <1>3, PTL DEF SubmissionSpec

-----------------------------------------------------------------------------
(* The journal *)

(* Between the creation of the marker and the return of claimPhase. *)
PastMark == Steps \ {"mark"}
Claims(r, p) == process[r].pc \in PastMark /\ process[r].record = p

(* The record of a call in progress, and the room there is for it.         *)
WellFormed(call) ==
  /\ call.pc \in Steps => call.record \in Records
  /\ call.pc \in {"mark", "markSync", "retain"} => call.record \in Phases
  /\ call.pc \in {"record", "recordSync"} => Len(call.records) < MaxRecords

CallsWellFormed == \A r \in Runtimes : WellFormed(process[r])

(* A claim in progress owns its marker, which is on the disk from its sync *)
(* on, and nobody was granted the phase before.                            *)
ClaimOwnsMarker ==
  \A r \in Runtimes, p \in Phases : Claims(r, p) =>
    /\ p \in markers
    /\ process[r].pc # "markSync" => p \in durable.markers
    /\ granted[p] = 0
    /\ \A q \in Runtimes : Claims(q, p) => q = r

GrantedIsMarked ==
  /\ durable.markers \subseteq markers
  /\ \A p \in Phases : granted[p] > 0 => p \in durable.markers

IInv == TypeOK /\ CallsWellFormed /\ ClaimOwnsMarker /\ GrantedIsMarked /\ GrantedOnce

-----------------------------------------------------------------------------
(* The types *)

(* Chains are cut and lengthened within their bound.                       *)
LEMMA ChainFacts ==
  /\ <<>> \in Chains
  /\ \A c \in Chains : Len(c) \in 0..MaxRecords
  /\ \A c \in Chains, n \in Nat : n <= Len(c) => SubSeq(c, 1, n) \in Chains
  /\ \A c \in Chains, e \in Records : Len(c) < MaxRecords => Append(c, e) \in Chains
BY Bounds DEF Chains

(* A synced directory has the types of the files.                          *)
LEMMA DirectoryFacts ==
  ASSUME files \in Chains, head \in Chains, next \in Chains \cup {NoFile}, markers \subseteq Phases
  PROVE  Directory \in [files : 0..MaxRecords, head : Chains, next : Chains \cup {NoFile},
                        markers : SUBSET Phases]
BY ChainFacts DEF Directory

Processes == [Runtimes -> [pc : Steps \cup {"down", "idle"}, records : Chains,
                          record : Records \cup {NoFile}]]

(* A process that only goes on keeps its copy and its record.              *)
LEMMA GotoFacts ==
  ASSUME TypeOK, NEW r \in Runtimes, NEW pc \in Steps \cup {"down", "idle"}, Goto(r, pc)
  PROVE  /\ process' \in Processes
         /\ process'[r].pc = pc
         /\ process'[r].records = process[r].records
         /\ process'[r].record = process[r].record
         /\ \A q \in Runtimes \ {r} : process'[q] = process[q]
BY DEF Goto, TypeOK, Processes

(* What must hold of the files a step leaves for the types to be kept.     *)
Disk(f, h, n, m) ==
  f \in Chains /\ h \in Chains /\ n \in Chains \cup {NoFile} /\ m \subseteq Phases

(* A step of one process keeps the types if what it writes has them.       *)
LEMMA TypesKept ==
  ASSUME TypeOK, CallsWellFormed, NEW r \in Runtimes, process' \in Processes,
         WellFormed(process'[r]), \A q \in Runtimes \ {r} : process'[q] = process[q],
         Disk(files', head', next', markers'), durable' = durable \/ durable' = Directory,
         failures' \in Nat, retained' \subseteq Chains, granted' \in [Phases -> Nat]
  PROVE  TypeOK' /\ CallsWellFormed'
<1>1. TypeOK'
  BY DirectoryFacts DEF TypeOK, Disk, Processes
<1>2. CallsWellFormed'
  BY DEF CallsWellFormed
<1> QED
  BY <1>1, <1>2

(* The files have their types.                                             *)
LEMMA TypesNow == TypeOK => Disk(files, head, next, markers)
BY DEF TypeOK, Disk

(* The beginnings of the calls.                                            *)
LEMMA BeginsKeepTypes ==
  ASSUME TypeOK, CallsWellFormed, NEW r \in Runtimes,
         Open(r) \/ RetainEntry(r) \/ ClaimPhase(r) \/ RetainPhase(r) \/ Crash(r) \/ Fails(r)
  PROVE  TypeOK' /\ CallsWellFormed'
<1>1. {"mark", "record"} \subseteq Steps /\ {"down", "idle"} \cap Steps = {}
  BY DEF Steps
<1>2. /\ Down.pc = "down" /\ Down.records = <<>> /\ Down.record = NoFile
      /\ Down \in [pc : Steps \cup {"down", "idle"}, records : Chains, record : Records \cup {NoFile}]
  BY ChainFacts DEF Down
<1>3. failures' \in Nat /\ Disk(files', head', next', markers') /\ durable' = durable
      /\ retained' \subseteq Chains /\ granted' \in [Phases -> Nat]
  BY TypesNow DEF TypeOK, Open, RetainEntry, ClaimPhase, RetainPhase, Crash, Fails, disk, books
<1>4. CASE Open(r)
  <2>1. process' \in Processes /\ process'[r].pc = "idle"
        /\ \A q \in Runtimes \ {r} : process'[q] = process[q]
    BY <1>2, <1>4 DEF Open, TypeOK, Processes
  <2> QED
    BY <1>1, <1>3, <2>1, TypesKept DEF WellFormed
<1>5. CASE RetainEntry(r)
  <2>1. PICK e \in Entries : process' = [process EXCEPT ![r].pc = "record", ![r].record = e]
    BY <1>5 DEF RetainEntry
  <2>2. process' \in Processes /\ process'[r].pc = "record" /\ process'[r].record = e
        /\ process'[r].records = process[r].records
        /\ \A q \in Runtimes \ {r} : process'[q] = process[q]
    BY <1>1, <2>1 DEF TypeOK, Processes, Records
  <2>3. Len(process[r].records) < MaxRecords
    BY <1>5 DEF RetainEntry, CanRetain
  <2> QED
    BY <1>3, <2>2, <2>3, TypesKept DEF WellFormed, Records
<1>6. CASE ClaimPhase(r)
  <2>1. PICK p \in Phases : process' = [process EXCEPT ![r].pc = "mark", ![r].record = p]
    BY <1>6 DEF ClaimPhase
  <2>2. process' \in Processes /\ process'[r].pc = "mark" /\ process'[r].record = p
        /\ \A q \in Runtimes \ {r} : process'[q] = process[q]
    BY <1>1, <2>1 DEF TypeOK, Processes, Records
  <2> QED
    BY <1>3, <2>2, TypesKept DEF WellFormed, Records
<1>7. CASE RetainPhase(r)
  <2>1. process' \in Processes /\ process'[r].pc = "record"
        /\ process'[r].record = process[r].record /\ process'[r].records = process[r].records
        /\ \A q \in Runtimes \ {r} : process'[q] = process[q]
    BY <1>1, <1>7, GotoFacts DEF RetainPhase
  <2>2. process[r].record \in Records /\ Len(process[r].records) < MaxRecords
    BY <1>7 DEF RetainPhase, CanRetain, CallsWellFormed, WellFormed, At, Records
  <2> QED
    BY <1>3, <2>1, <2>2, TypesKept DEF WellFormed
<1>8. CASE Crash(r)
  <2>1. process' \in Processes /\ process'[r].pc = "down"
        /\ \A q \in Runtimes \ {r} : process'[q] = process[q]
    BY <1>2, <1>8 DEF Crash, TypeOK, Processes
  <2> QED
    BY <1>1, <1>3, <2>1, TypesKept DEF WellFormed
<1>9. CASE Fails(r)
  <2>1. process' \in Processes /\ process'[r].pc = "idle"
        /\ \A q \in Runtimes \ {r} : process'[q] = process[q]
    BY <1>9, GotoFacts DEF Fails
  <2> QED
    BY <1>1, <1>3, <2>1, TypesKept DEF WellFormed
<1> QED
  BY <1>4, <1>5, <1>6, <1>7, <1>8, <1>9

(* The system calls that create, sync and rename the files.                *)
LEMMA WritesKeepTypes ==
  ASSUME TypeOK, CallsWellFormed, NEW r \in Runtimes,
         \/ CreateMarker(r) \/ SyncMarker(r) \/ CreateRecord(r) \/ CreateNext(r)
         \/ SyncNext(r) \/ RenameHead(r)
  PROVE  TypeOK' /\ CallsWellFormed'
<1>1. {"markSync", "retain", "recordSync", "nextSync", "rename", "headSync"} \subseteq Steps
      /\ {"mark", "markSync", "record", "next", "nextSync", "rename"} \subseteq Steps
  BY DEF Steps
<1>2. PICK pc \in Steps :
        /\ Goto(r, pc)
        /\ process[r].pc \in Steps
        /\ pc \in {"mark", "markSync", "retain"} => process[r].pc \in {"mark", "markSync"}
        /\ pc # "record"
        /\ pc = "recordSync" => CreateRecord(r)
  <2>1. CASE CreateMarker(r)
    BY <1>1, <2>1 DEF CreateMarker, At
  <2>2. CASE SyncMarker(r)
    BY <1>1, <2>2 DEF SyncMarker, At
  <2>3. CASE CreateRecord(r)
    BY <1>1, <2>3 DEF CreateRecord, At
  <2>4. CASE CreateNext(r)
    BY <1>1, <2>4 DEF CreateNext, At
  <2>5. CASE SyncNext(r)
    BY <1>1, <2>5 DEF SyncNext, At
  <2>6. CASE RenameHead(r)
    BY <1>1, <2>6 DEF RenameHead, At
  <2> QED
    BY <2>1, <2>2, <2>3, <2>4, <2>5, <2>6
<1>3. /\ process' \in Processes /\ process'[r].pc = pc
      /\ process'[r].records = process[r].records /\ process'[r].record = process[r].record
      /\ \A q \in Runtimes \ {r} : process'[q] = process[q]
  BY <1>2, GotoFacts
<1>4. WellFormed(process[r])
  BY DEF CallsWellFormed
<1>5. WellFormed(process'[r])
  BY <1>2, <1>3, <1>4 DEF WellFormed, CreateRecord, At
<1>6. Disk(files', head', next', markers')
  <2>1. CASE CreateMarker(r)
    BY <1>4, <2>1, TypesNow DEF CreateMarker, WellFormed, At, Disk
  <2>2. CASE CreateRecord(r)
    <3>1. process[r].record \in Records /\ Len(files) < MaxRecords
      BY <1>1, <1>4, <2>2 DEF CreateRecord, WellFormed, At
    <3> QED
      BY <2>2, <3>1, ChainFacts, TypesNow DEF CreateRecord, Disk
  <2>3. CASE CreateNext(r)
    BY <2>3, TypesNow DEF CreateNext, Disk, TypeOK
  <2>4. CASE RenameHead(r)
    BY <2>4, TypesNow DEF RenameHead, Disk
  <2>5. CASE SyncMarker(r) \/ SyncNext(r)
    BY <2>5, TypesNow DEF SyncMarker, SyncNext
  <2> QED
    BY <2>1, <2>2, <2>3, <2>4, <2>5
<1>7. /\ durable' = durable \/ durable' = Directory
      /\ failures' \in Nat /\ retained' \subseteq Chains /\ granted' \in [Phases -> Nat]
  BY DEF TypeOK, CreateMarker, SyncMarker, CreateRecord, CreateNext, SyncNext, RenameHead,
     SyncDirectory, books
<1> QED
  BY <1>3, <1>5, <1>6, <1>7, TypesKept

(* The copy of the process grows by the record it wrote.                   *)
LEMMA SyncRecordKeepsTypes ==
  ASSUME TypeOK, CallsWellFormed, NEW r \in Runtimes, SyncRecord(r)
  PROVE  TypeOK' /\ CallsWellFormed'
<1> DEFINE longer == Append(process[r].records, process[r].record)
<1>1. "next" \in Steps /\ "recordSync" \in Steps
  BY DEF Steps
<1>2. process[r].record \in Records /\ longer \in Chains
  BY <1>1, ChainFacts DEF SyncRecord, CallsWellFormed, WellFormed, At, TypeOK
<1>3. process' = [process EXCEPT ![r].pc = "next", ![r].records = longer]
  BY DEF SyncRecord
<1> HIDE DEF longer
<1>4. process' \in Processes /\ process'[r].pc = "next" /\ process'[r].record = process[r].record
      /\ \A q \in Runtimes \ {r} : process'[q] = process[q]
  BY <1>1, <1>2, <1>3 DEF TypeOK, Processes
<1>5. /\ Disk(files', head', next', markers') /\ durable' = Directory
      /\ failures' \in Nat /\ retained' \subseteq Chains /\ granted' \in [Phases -> Nat]
  BY TypesNow DEF SyncRecord, SyncDirectory, TypeOK, books
<1>6. WellFormed(process'[r])
  BY <1>2, <1>4 DEF WellFormed
<1> QED
  BY <1>4, <1>5, <1>6, TypesKept

(* The return of retain.                                                   *)
LEMMA SyncHeadKeepsTypes ==
  ASSUME TypeOK, CallsWellFormed, NEW r \in Runtimes, SyncHead(r)
  PROVE  TypeOK' /\ CallsWellFormed'
<1>1. "idle" \notin Steps
  BY DEF Steps
<1>2. process' \in Processes /\ process'[r].pc = "idle"
      /\ \A q \in Runtimes \ {r} : process'[q] = process[q]
  BY GotoFacts DEF SyncHead, Returns
<1>3. retained' \subseteq Chains
  BY DEF SyncHead, Returns, TypeOK
<1>4. granted' \in [Phases -> Nat]
  BY DEF SyncHead, Returns, TypeOK
<1>5. Disk(files', head', next', markers') /\ durable' = Directory /\ failures' \in Nat
  BY TypesNow DEF SyncHead, Returns, SyncDirectory, TypeOK
<1> QED
  BY <1>1, <1>2, <1>3, <1>4, <1>5, TypesKept DEF WellFormed

(* What a power loss leaves is shorter.                                    *)
LEMMA PowerLossKeepsTypes ==
  ASSUME TypeOK, CallsWellFormed, PowerLoss
  PROVE  TypeOK' /\ CallsWellFormed'
<1>1. Down.pc = "down"
      /\ Down \in [pc : Steps \cup {"down", "idle"}, records : Chains, record : Records \cup {NoFile}]
  BY ChainFacts DEF Down
<1>2. files' \in Chains
  BY ChainFacts DEF PowerLoss, TypeOK
<1>3. Disk(files', head', next', markers')
  BY <1>2 DEF PowerLoss, TypeOK, Disk
<1>4. durable' \in [files : 0..MaxRecords, head : Chains, next : Chains \cup {NoFile},
                   markers : SUBSET Phases]
  BY <1>3, ChainFacts DEF PowerLoss, Directory, Disk
<1>5. failures' \in Nat /\ process' \in Processes /\ \A r \in Runtimes : process'[r].pc = "down"
  BY <1>1 DEF PowerLoss, TypeOK, Processes
<1>6. TypeOK'
  BY <1>3, <1>4, <1>5 DEF PowerLoss, TypeOK, Disk, Processes
<1>7. CallsWellFormed'
  BY <1>5 DEF CallsWellFormed, WellFormed, Steps
<1> QED
  BY <1>6, <1>7

(* Every step keeps the types.                                             *)
LEMMA StepKeepsTypes ==
  ASSUME TypeOK, CallsWellFormed, [Next]_vars
  PROVE  TypeOK' /\ CallsWellFormed'
<1>1. CASE Next
  BY <1>1, BeginsKeepTypes, WritesKeepTypes, SyncRecordKeepsTypes, SyncHeadKeepsTypes,
     PowerLossKeepsTypes DEF Next
<1>2. CASE UNCHANGED vars
  BY <1>2 DEF vars, TypeOK, CallsWellFormed, WellFormed
<1> QED
  BY <1>1, <1>2

-----------------------------------------------------------------------------
(* The claims *)

(* A step that grants nothing and takes no marker away keeps the claims,   *)
(* if those of the process that makes it are older than the step.          *)
LEMMA ClaimsKept ==
  ASSUME IInv, NEW r \in Runtimes, \A q \in Runtimes \ {r} : process'[q] = process[q],
         markers \subseteq markers', durable.markers \subseteq durable'.markers,
         durable'.markers \subseteq markers', granted' = granted,
         \A p \in Phases : Claims(r, p)' =>
           Claims(r, p) /\ (process'[r].pc # "markSync" => p \in durable'.markers)
  PROVE  ClaimOwnsMarker' /\ GrantedIsMarked' /\ GrantedOnce'
<1>1. GrantedIsMarked' /\ GrantedOnce'
  BY DEF IInv, GrantedIsMarked, GrantedOnce
<1>2. \A q \in Runtimes, p \in Phases : Claims(q, p)' => Claims(q, p)
  BY DEF Claims
<1>3. ASSUME NEW q \in Runtimes, NEW p \in Phases, Claims(q, p)'
      PROVE  /\ p \in markers'
             /\ process'[q].pc # "markSync" => p \in durable'.markers
             /\ granted'[p] = 0
             /\ \A v \in Runtimes : Claims(v, p)' => v = q
  <2>1. /\ p \in markers /\ granted[p] = 0
        /\ process[q].pc # "markSync" => p \in durable.markers
        /\ \A v \in Runtimes : Claims(v, p) => v = q
    BY <1>2, <1>3 DEF IInv, ClaimOwnsMarker
  <2>2. \A v \in Runtimes : Claims(v, p)' => v = q
    BY <1>2, <2>1
  <2>3. process'[q].pc # "markSync" => p \in durable'.markers
    BY <1>3, <2>1
  <2> QED
    BY <2>1, <2>2, <2>3
<1>4. ClaimOwnsMarker'
  BY <1>3 DEF ClaimOwnsMarker, Claims
<1> QED
  BY <1>1, <1>4

(* Steps after which the process claims nothing, or what it claimed before *)
(* and is on the disk.                                                     *)
LEMMA QuietStepsKeepClaims ==
  ASSUME IInv, NEW r \in Runtimes,
         \/ Open(r) \/ RetainEntry(r) \/ ClaimPhase(r) \/ RetainPhase(r) \/ Crash(r) \/ Fails(r)
         \/ CreateRecord(r) \/ CreateNext(r) \/ RenameHead(r)
  PROVE  ClaimOwnsMarker' /\ GrantedIsMarked' /\ GrantedOnce'
<1>1. TypeOK /\ durable.markers \subseteq markers
  BY DEF IInv, GrantedIsMarked
<1>2. markers' = markers /\ durable' = durable /\ granted' = granted
  BY DEF Open, RetainEntry, ClaimPhase, RetainPhase, Crash, Fails, CreateRecord, CreateNext,
     RenameHead, disk, books
<1>3. \A q \in Runtimes \ {r} : process'[q] = process[q]
  BY <1>1 DEF Open, RetainEntry, ClaimPhase, RetainPhase, Crash, Fails, CreateRecord, CreateNext,
     RenameHead, Goto, TypeOK
<1>4. CASE Open(r) \/ Crash(r) \/ Fails(r) \/ ClaimPhase(r)
  <2>1. process \in Processes
    BY <1>1 DEF TypeOK, Processes
  <2>2. Open(r) => process'[r].pc = "idle"
    BY <2>1 DEF Open, Down, Processes
  <2>3. Crash(r) => process'[r].pc = "down"
    BY <2>1 DEF Crash, Down, Processes
  <2>4. Fails(r) => process'[r].pc = "idle"
    BY <2>1 DEF Fails, Goto, Processes
  <2>5. ClaimPhase(r) => process'[r].pc = "mark"
    BY <2>1 DEF ClaimPhase, Processes
  <2>6. process'[r].pc \in {"idle", "down", "mark"}
    BY <1>4, <2>2, <2>3, <2>4, <2>5
  <2> QED
    BY <1>1, <1>2, <1>3, <2>6, ClaimsKept DEF Claims, PastMark, Steps
<1>5. CASE RetainEntry(r)
  <2>1. process'[r].record \in Entries
    BY <1>1, <1>5 DEF RetainEntry, TypeOK
  <2> QED
    BY <1>1, <1>2, <1>3, <2>1, RecordsDistinct, ClaimsKept DEF Claims
<1>6. CASE RetainPhase(r) \/ CreateRecord(r) \/ CreateNext(r) \/ RenameHead(r)
  <2>1. process'[r].record = process[r].record /\ process[r].pc \in PastMark \ {"markSync"}
    BY <1>1, <1>6 DEF RetainPhase, CreateRecord, CreateNext, RenameHead, Goto, TypeOK, At,
       PastMark, Steps
  <2>2. \A p \in Phases : Claims(r, p) => p \in durable.markers
    BY <2>1 DEF IInv, ClaimOwnsMarker
  <2>3. \A p \in Phases : Claims(r, p)' => Claims(r, p)
    BY <2>1 DEF Claims
  <2> QED
    BY <1>1, <1>2, <1>3, <2>2, <2>3, ClaimsKept
<1> QED
  BY <1>4, <1>5, <1>6

(* Syncing the directory puts every marker on the disk.                    *)
LEMMA SyncsKeepClaims ==
  ASSUME IInv, NEW r \in Runtimes, SyncMarker(r) \/ SyncRecord(r) \/ SyncNext(r)
  PROVE  ClaimOwnsMarker' /\ GrantedIsMarked' /\ GrantedOnce'
<1>1. TypeOK /\ durable.markers \subseteq markers
  BY DEF IInv, GrantedIsMarked
<1>2. markers' = markers /\ durable'.markers = markers /\ granted' = granted
  BY DEF SyncMarker, SyncRecord, SyncNext, SyncDirectory, Directory, books
<1>3. \A q \in Runtimes \ {r} : process'[q] = process[q]
  BY <1>1 DEF SyncMarker, SyncRecord, SyncNext, Goto, TypeOK
<1>4. process'[r].record = process[r].record /\ process[r].pc \in PastMark
  BY <1>1 DEF SyncMarker, SyncRecord, SyncNext, Goto, TypeOK, At, PastMark, Steps
<1>5. \A p \in Phases : Claims(r, p)' => Claims(r, p) /\ p \in markers
  BY <1>4 DEF Claims, IInv, ClaimOwnsMarker
<1> QED
  BY <1>1, <1>2, <1>3, <1>5, ClaimsKept

(* A marker that did not exist was never granted, and nobody else claims   *)
(* the phase.                                                              *)
LEMMA CreateMarkerKeepsClaims ==
  ASSUME IInv, NEW r \in Runtimes, CreateMarker(r)
  PROVE  ClaimOwnsMarker' /\ GrantedIsMarked' /\ GrantedOnce'
<1> DEFINE mine == process[r].record
<1>1. TypeOK /\ mine \in Phases /\ mine \notin markers
  BY DEF IInv, CreateMarker, CallsWellFormed, WellFormed, At
<1>2. /\ process'[r].pc = "markSync" /\ process'[r].record = mine
      /\ \A q \in Runtimes \ {r} : process'[q] = process[q]
  BY <1>1 DEF CreateMarker, Goto, TypeOK
<1>3. markers' = markers \cup {mine} /\ durable' = durable /\ granted' = granted
  BY DEF CreateMarker, books
<1>4. GrantedIsMarked' /\ GrantedOnce'
  BY <1>3 DEF IInv, GrantedIsMarked, GrantedOnce
<1>5. granted[mine] = 0 /\ \A q \in Runtimes : ~Claims(q, mine)
  BY <1>1 DEF IInv, GrantedIsMarked, ClaimOwnsMarker, TypeOK
<1>6. \A q \in Runtimes \ {r}, p \in Phases : Claims(q, p)' => Claims(q, p) /\ p # mine
  BY <1>2, <1>5 DEF Claims
<1>7. \A p \in Phases : Claims(r, p)' => p = mine
  BY <1>2 DEF Claims
<1>8. ASSUME NEW q \in Runtimes \ {r}, NEW p \in Phases, Claims(q, p)'
      PROVE  /\ p \in markers'
             /\ process'[q].pc # "markSync" => p \in durable'.markers
             /\ granted'[p] = 0
             /\ \A v \in Runtimes : Claims(v, p)' => v = q
  <2>1. Claims(q, p) /\ p # mine
    BY <1>6, <1>8
  <2>2. /\ p \in markers /\ granted[p] = 0
        /\ process[q].pc # "markSync" => p \in durable.markers
        /\ \A v \in Runtimes : Claims(v, p) => v = q
    BY <2>1 DEF IInv, ClaimOwnsMarker
  <2> QED
    BY <1>2, <1>3, <1>6, <1>7, <2>1, <2>2
<1>9. ASSUME NEW p \in Phases, Claims(r, p)'
      PROVE  /\ p \in markers'
             /\ process'[r].pc # "markSync" => p \in durable'.markers
             /\ granted'[p] = 0
             /\ \A v \in Runtimes : Claims(v, p)' => v = r
  BY <1>2, <1>3, <1>5, <1>6, <1>7, <1>9
<1>10. ClaimOwnsMarker'
  BY <1>8, <1>9 DEF ClaimOwnsMarker, Claims
<1> QED
  BY <1>4, <1>10

(* The grant ends the only claim of its phase.                             *)
LEMMA SyncHeadKeepsClaims ==
  ASSUME IInv, NEW r \in Runtimes, SyncHead(r)
  PROVE  ClaimOwnsMarker' /\ GrantedIsMarked' /\ GrantedOnce'
<1> DEFINE mine == process[r].record
<1>1. TypeOK /\ At(r, "headSync") /\ durable.markers \subseteq markers
  BY DEF IInv, SyncHead, GrantedIsMarked
<1>2. process'[r].pc = "idle" /\ \A q \in Runtimes \ {r} : process'[q] = process[q]
  BY <1>1 DEF SyncHead, Returns, Goto, TypeOK
<1>3. markers' = markers /\ durable'.markers = markers
  BY DEF SyncHead, Returns, SyncDirectory, Directory
<1>4. \A p \in Phases : granted'[p] = granted[p] + IF p = mine THEN 1 ELSE 0
  BY DEF SyncHead, Returns
<1>5. \A p \in Phases : granted[p] \in Nat
  BY <1>1 DEF TypeOK
<1>6. \A p \in Phases : p # mine => granted'[p] = granted[p]
  BY <1>4, <1>5
<1>7. mine \in Phases => Claims(r, mine)
  BY <1>1 DEF Claims, At, PastMark, Steps
<1>8. mine \in Phases => /\ granted[mine] = 0 /\ granted'[mine] = 1 /\ mine \in markers
                        /\ \A q \in Runtimes : Claims(q, mine) => q = r
  BY <1>4, <1>7 DEF IInv, ClaimOwnsMarker
<1>9. GrantedOnce'
  BY <1>6, <1>8 DEF IInv, GrantedOnce
<1>10. GrantedIsMarked'
  BY <1>1, <1>3, <1>6, <1>8 DEF IInv, GrantedIsMarked
<1>11. \A q \in Runtimes, p \in Phases : Claims(q, p)' => Claims(q, p) /\ q # r /\ p # mine
  BY <1>2, <1>8 DEF Claims, PastMark, Steps
<1>12. ASSUME NEW q \in Runtimes, NEW p \in Phases, Claims(q, p)'
       PROVE  /\ p \in markers'
              /\ process'[q].pc # "markSync" => p \in durable'.markers
              /\ granted'[p] = 0
              /\ \A v \in Runtimes : Claims(v, p)' => v = q
  <2>1. Claims(q, p) /\ p # mine
    BY <1>11, <1>12
  <2>2. /\ p \in markers /\ granted[p] = 0
        /\ \A v \in Runtimes : Claims(v, p) => v = q
    BY <2>1 DEF IInv, ClaimOwnsMarker
  <2> QED
    BY <1>3, <1>6, <1>11, <2>1, <2>2
<1>13. ClaimOwnsMarker'
  BY <1>12 DEF ClaimOwnsMarker, Claims
<1> QED
  BY <1>9, <1>10, <1>13

(* A power loss ends every claim and keeps every marker that was granted.  *)
LEMMA PowerLossKeepsClaims ==
  ASSUME IInv, PowerLoss
  PROVE  ClaimOwnsMarker' /\ GrantedIsMarked' /\ GrantedOnce'
<1>1. \A r \in Runtimes, p \in Phases : ~Claims(r, p)'
  BY DEF PowerLoss, Down, Claims, PastMark, Steps
<1>2. durable.markers \subseteq markers' /\ durable'.markers = markers' /\ granted' = granted
  BY DEF PowerLoss, Directory, IInv, GrantedIsMarked
<1>3. GrantedIsMarked' /\ GrantedOnce'
  BY <1>2 DEF IInv, GrantedIsMarked, GrantedOnce
<1>4. ClaimOwnsMarker'
  BY <1>1 DEF ClaimOwnsMarker, Claims
<1> QED
  BY <1>3, <1>4

(* Every step keeps the invariant of the claims.                           *)
LEMMA StepKeeps ==
  ASSUME IInv, [Next]_vars
  PROVE  IInv'
<1>1. TypeOK' /\ CallsWellFormed'
  BY StepKeepsTypes DEF IInv
<1>2. CASE Next
  BY <1>1, <1>2, QuietStepsKeepClaims, SyncsKeepClaims, CreateMarkerKeepsClaims,
     SyncHeadKeepsClaims, PowerLossKeepsClaims DEF Next, IInv
<1>3. CASE UNCHANGED vars
  BY <1>1, <1>3 DEF vars, IInv, ClaimOwnsMarker, GrantedIsMarked, GrantedOnce, Claims
<1> QED
  BY <1>2, <1>3

(* It holds at the start.                                                  *)
LEMMA InitKeeps == Init => IInv
<1> SUFFICES ASSUME Init PROVE IInv
  OBVIOUS
<1>1. TypeOK
  BY ChainFacts, DirectoryFacts DEF Init, TypeOK, Down
<1>2. \A r \in Runtimes : process[r].pc = "down"
  BY DEF Init, Down
<1>3. CallsWellFormed /\ ClaimOwnsMarker
  BY <1>2 DEF CallsWellFormed, WellFormed, ClaimOwnsMarker, Claims, PastMark, Steps
<1>4. GrantedIsMarked /\ GrantedOnce
  BY DEF Init, Directory, GrantedIsMarked, GrantedOnce
<1> QED
  BY <1>1, <1>3, <1>4 DEF IInv

(* Every variable keeps its type, and the journal its bound.               *)
THEOREM JournalTypeCorrect == Spec => []TypeOK
<1>1. IInv /\ [Next]_vars => IInv'
  BY StepKeeps
<1>2. IInv => TypeOK
  BY DEF IInv
<1> QED
  BY InitKeeps, <1>1, <1>2, PTL DEF Spec

(* The calls of a phase are granted once, whatever processes open the      *)
(* journal, whatever fails and however often the machine stops.            *)
THEOREM PhasesAreGrantedOnce == Spec => []GrantedOnce
<1>1. IInv /\ [Next]_vars => IInv'
  BY StepKeeps
<1>2. IInv => GrantedOnce
  BY DEF IInv
<1> QED
  BY InitKeeps, <1>1, <1>2, PTL DEF Spec

-----------------------------------------------------------------------------
(* The chains *)

(* The records of c are the first records of f. *)
Begins(c, f) == Len(c) <= Len(f) /\ \A i \in 1..Len(c) : c[i] = f[i]

(* A chain somebody knows is on the disk, where no power loss takes it.    *)
Among(c, f, n) == Begins(c, f) /\ Len(c) <= n
OnDisk(c) == Among(c, files, durable.files)

ChainsOnDisk ==
  /\ durable.files <= Len(files)
  /\ OnDisk(head) /\ OnDisk(durable.head)
  /\ next # NoFile => OnDisk(next)
  /\ durable.next # NoFile => OnDisk(durable.next)
  /\ \A r \in Runtimes : OnDisk(process[r].records)
  /\ \A known \in retained : OnDisk(known)

RecordIsLast ==
  \A r \in Runtimes : At(r, "recordSync") =>
    Begins(Append(process[r].records, process[r].record), files)

(* A power loss takes the head back by one record at most. *)
HeadAhead == Len(durable.head) <= Len(head) /\ Len(head) <= Len(durable.head) + 1

(* From the creation of a record file to the renaming of the head one      *)
(* process writes: it alone knows the record that the head does not name.  *)
Writing == {"recordSync", "next", "nextSync", "rename"}
Writes(r) == process[r].pc \in Writing
OneWriter == \A r, q \in Runtimes : Writes(r) /\ Writes(q) => q = r

InPlace(call) ==
  /\ call.pc \in {"record", "headSync"} => Len(call.records) <= Len(head)
  /\ call.pc \in Writing => Len(files) = Len(head) + 1
  /\ call.pc = "recordSync" => Len(call.records) = Len(head)
  /\ call.pc \in Writing \ {"recordSync"} =>
       Len(call.records) = Len(head) + 1 /\ Len(durable.head) = Len(head)
  /\ call.pc \in {"nextSync", "rename"} /\ next # NoFile => next = call.records

WritersInPlace == OneWriter /\ \A r \in Runtimes : InPlace(process[r])

ChainInv == IInv /\ ChainsOnDisk /\ RecordIsLast /\ HeadAhead /\ WritersInPlace

(* Chains that begin the same files are the same up to the shorter one.    *)
LEMMA BeginsFacts ==
  ASSUME NEW c \in Chains, NEW f \in Chains
  PROVE  /\ Begins(c, c)
         /\ Begins(c, f) => IsPrefix(c, f)
         /\ Begins(c, f) /\ Len(f) <= Len(c) => c = f
         /\ \A d \in Chains : Begins(c, f) /\ Begins(f, d) => Begins(c, d)
         /\ \A d \in Chains : Begins(c, d) /\ Begins(f, d) /\ Len(c) <= Len(f) => Begins(c, f)
         /\ \A e \in Records : Begins(c, f) => Begins(c, Append(f, e))
         /\ \A n \in Nat : Begins(c, f) /\ Len(c) <= n /\ n <= Len(f) => Begins(c, SubSeq(f, 1, n))
<1>1. /\ c \in Seq(Records) /\ f \in Seq(Records) /\ Chains \subseteq Seq(Records)
      /\ Len(c) \in Nat /\ Len(f) \in Nat
  BY DEF Chains
<1>2. Begins(c, c)
  BY <1>1 DEF Begins
<1>3. Begins(c, f) => IsPrefix(c, f)
  <2> SUFFICES ASSUME Begins(c, f) PROVE IsPrefix(c, f)
    OBVIOUS
  <2>1. Len(c) <= Len(f) /\ \A i \in 1..Len(c) : c[i] = f[i]
    BY DEF Begins
  <2>2. SubSeq(c, 1, Len(c)) = SubSeq(f, 1, Len(c))
    BY <1>1, <2>1
  <2> QED
    BY <2>1, <2>2 DEF IsPrefix
<1>4. Begins(c, f) /\ Len(f) <= Len(c) => c = f
  BY <1>1 DEF Begins
<1>5. \A d \in Chains : Begins(c, f) /\ Begins(f, d) => Begins(c, d)
  BY <1>1 DEF Begins
<1>6. \A d \in Chains : Begins(c, d) /\ Begins(f, d) /\ Len(c) <= Len(f) => Begins(c, f)
  BY <1>1 DEF Begins
<1>7. \A e \in Records : Begins(c, f) => Begins(c, Append(f, e))
  BY <1>1 DEF Begins
<1>8. \A n \in Nat : Begins(c, f) /\ Len(c) <= n /\ n <= Len(f) => Begins(c, SubSeq(f, 1, n))
  BY <1>1 DEF Begins
<1> QED
  BY <1>2, <1>3, <1>4, <1>5, <1>6, <1>7, <1>8

(* The chains that the journal and its processes hold are chains.           *)
LEMMA KnownTypes ==
  ASSUME IInv
  PROVE  /\ files \in Chains /\ head \in Chains /\ next \in Chains \cup {NoFile}
         /\ durable.files \in Nat /\ durable.head \in Chains /\ durable.next \in Chains \cup {NoFile}
         /\ \A r \in Runtimes : process[r].records \in Chains
         /\ retained \subseteq Chains
         /\ \A r \in Runtimes : At(r, "recordSync") =>
              Append(process[r].records, process[r].record) \in Chains
<1>1. \A r \in Runtimes : At(r, "recordSync") => Append(process[r].records, process[r].record) \in Chains
  <2> SUFFICES ASSUME NEW r \in Runtimes, At(r, "recordSync")
               PROVE  Append(process[r].records, process[r].record) \in Chains
    OBVIOUS
  <2>1. process[r].record \in Records /\ Len(process[r].records) < MaxRecords
    BY DEF IInv, CallsWellFormed, WellFormed, At, Steps
  <2> QED
    BY <2>1, ChainFacts DEF IInv, TypeOK
<1> QED
  BY <1>1 DEF IInv, TypeOK

(* What is on the disk stays there while the files only grow.              *)
LEMMA StaysOnDisk ==
  ASSUME IInv, IInv', Begins(files, files'), durable.files <= durable'.files,
         NEW c \in Chains, OnDisk(c)
  PROVE  Among(c, files', durable'.files)
<1>1. files \in Chains /\ files' \in Chains /\ durable.files \in Nat /\ durable'.files \in Nat
      /\ Len(c) \in Nat
  BY KnownTypes, ChainFacts DEF IInv, TypeOK
<1>2. Begins(c, files')
  BY <1>1, BeginsFacts DEF OnDisk, Among
<1> QED
  BY <1>1, <1>2 DEF OnDisk, Among

(* A step of a process that writes down only chains that are on the disk.  *)
LEMMA ChainsStay ==
  ASSUME IInv, IInv', ChainsOnDisk, NEW r \in Runtimes,
         \A q \in Runtimes \ {r} : process'[q] = process[q],
         Begins(files, files'), durable.files <= durable'.files, durable'.files <= Len(files'),
         head' = head \/ (head' = next /\ next # NoFile),
         next' \in {next, NoFile, process[r].records},
         durable'.head \in {durable.head, head}, durable'.next \in {durable.next, next},
         process'[r].records = process[r].records \/ Among(process'[r].records, files', durable'.files),
         retained' \subseteq retained \cup {process[r].records}
  PROVE  ChainsOnDisk'
<1>1. \A c \in Chains : OnDisk(c) => Among(c, files', durable'.files)
  BY StaysOnDisk
<1>2. /\ head \in Chains /\ next \in Chains \cup {NoFile}
      /\ durable.head \in Chains /\ durable.next \in Chains \cup {NoFile}
      /\ \A q \in Runtimes : process[q].records \in Chains
      /\ retained \subseteq Chains
  BY KnownTypes
<1>3. /\ Among(head', files', durable'.files)
      /\ Among(process'[r].records, files', durable'.files)
      /\ next' # NoFile => Among(next', files', durable'.files)
  BY <1>1, <1>2 DEF ChainsOnDisk
<1>4. /\ Among(durable'.head, files', durable'.files)
      /\ durable'.next # NoFile => Among(durable'.next, files', durable'.files)
  BY <1>1, <1>2 DEF ChainsOnDisk
<1>5. \A q \in Runtimes : Among(process'[q].records, files', durable'.files)
  BY <1>1, <1>2, <1>3 DEF ChainsOnDisk
<1>6. \A known \in retained' : Among(known, files', durable'.files)
  BY <1>1, <1>2 DEF ChainsOnDisk
<1> QED
  BY <1>3, <1>4, <1>5, <1>6 DEF ChainsOnDisk, OnDisk

(* The lengths of those chains.                                            *)
LEMMA Lengths ==
  ASSUME ChainInv
  PROVE  /\ Len(files) \in Nat /\ Len(head) \in Nat /\ Len(durable.head) \in Nat
         /\ durable.files \in Nat /\ durable.files <= Len(files)
         /\ Len(head) <= Len(files)
         /\ \A r \in Runtimes : Len(process[r].records) \in Nat
<1>1. \A c \in Chains : Len(c) \in Nat
  BY ChainFacts, Bounds
<1>2. IInv /\ durable.files <= Len(files) /\ Len(head) <= Len(files)
  BY DEF ChainInv, ChainsOnDisk, OnDisk, Among, Begins
<1> QED
  BY <1>1, <1>2, KnownTypes

(* A step that touches neither the records nor the head, after which the   *)
(* process does not write.                                                 *)
LEMMA QuietStep ==
  ASSUME ChainInv, IInv', NEW r \in Runtimes,
         UNCHANGED <<files, head, next, durable, retained>>,
         \A q \in Runtimes \ {r} : process'[q] = process[q],
         process'[r].pc \notin Writing,
         process'[r].pc \in {"record", "headSync"} => Len(process'[r].records) <= Len(head),
         process'[r].records = process[r].records \/ OnDisk(process'[r].records)
  PROVE  ChainInv'
<1>1. ChainsOnDisk'
  <2>1. Begins(files, files') /\ durable.files <= durable'.files /\ durable'.files <= Len(files')
    BY KnownTypes, BeginsFacts DEF ChainInv, ChainsOnDisk
  <2>2. process'[r].records = process[r].records \/ Among(process'[r].records, files', durable'.files)
    BY DEF OnDisk
  <2> QED
    BY <2>1, <2>2, ChainsStay DEF ChainInv
<1>2. RecordIsLast'
  BY DEF ChainInv, RecordIsLast, At, Writing
<1>3. HeadAhead'
  BY DEF ChainInv, HeadAhead
<1>4. OneWriter'
  BY DEF ChainInv, WritersInPlace, OneWriter, Writes
<1>5. \A q \in Runtimes : InPlace(process[q])'
  BY DEF ChainInv, WritersInPlace, InPlace, Writing
<1> QED
  BY <1>1, <1>2, <1>3, <1>4, <1>5 DEF ChainInv, WritersInPlace

(* The calls begin, end and claim.                                         *)
LEMMA CallsKeepChains ==
  ASSUME ChainInv, IInv', NEW r \in Runtimes,
         \/ Open(r) \/ RetainEntry(r) \/ ClaimPhase(r) \/ RetainPhase(r) \/ Crash(r) \/ Fails(r)
         \/ CreateMarker(r)
  PROVE  ChainInv'
<1>1. UNCHANGED <<files, head, next, durable, retained>>
  BY DEF Open, RetainEntry, ClaimPhase, RetainPhase, Crash, Fails, CreateMarker, disk, books
<1>2. process \in Processes
  BY DEF ChainInv, IInv, TypeOK, Processes
<1>3. \A q \in Runtimes \ {r} : process'[q] = process[q]
  BY <1>2 DEF Open, RetainEntry, ClaimPhase, RetainPhase, Crash, Fails, CreateMarker, Goto, Processes
<1>4. head \in Chains /\ files \in Chains /\ Len(head) \in Nat
  BY KnownTypes, ChainFacts DEF ChainInv
<1>5. CASE Open(r)
  <2>1. process'[r].pc = "idle" /\ process'[r].records = files /\ head = files
    BY <1>2, <1>5 DEF Open, Down, Processes, Verified
  <2>2. OnDisk(files)
    BY <2>1 DEF ChainInv, ChainsOnDisk
  <2> QED
    BY <1>1, <1>3, <2>1, <2>2, QuietStep DEF Writing
<1>6. CASE RetainEntry(r) \/ RetainPhase(r)
  <2>1. process'[r].pc = "record" /\ process'[r].records = process[r].records /\ head = process[r].records
    BY <1>2, <1>6 DEF RetainEntry, RetainPhase, CanRetain, Goto, Processes
  <2> QED
    BY <1>1, <1>3, <1>4, <2>1, QuietStep DEF Writing
<1>7. CASE ClaimPhase(r) \/ Fails(r) \/ CreateMarker(r)
  <2>1. process'[r].pc \in {"mark", "idle", "markSync"} /\ process'[r].records = process[r].records
    BY <1>2, <1>7 DEF ClaimPhase, Fails, CreateMarker, Goto, Processes
  <2> QED
    BY <1>1, <1>3, <2>1, QuietStep DEF Writing
<1>8. CASE Crash(r)
  <2>1. process'[r].pc = "down" /\ process'[r].records = <<>>
    BY <1>2, <1>8 DEF Crash, Down, Processes
  <2>2. OnDisk(<<>>)
    BY <1>4, KnownTypes DEF ChainInv, OnDisk, Among, Begins
  <2> QED
    BY <1>1, <1>3, <2>1, <2>2, QuietStep DEF Writing
<1> QED
  BY <1>5, <1>6, <1>7, <1>8

(* Syncing the directory makes everything that is on the disk durable.     *)
LEMMA SyncStep ==
  ASSUME ChainInv, IInv', NEW r \in Runtimes,
         UNCHANGED <<files, head, next>>, durable' = Directory,
         \A q \in Runtimes \ {r} : process'[q] = process[q],
         retained' \subseteq retained \cup {process[r].records},
         process'[r].pc # "recordSync",
         Writes(r)' => Writes(r),
         InPlace(process[r])',
         process'[r].records = process[r].records \/ Begins(process'[r].records, files)
  PROVE  ChainInv'
<1>0. /\ files \in Chains /\ durable.files \in Nat /\ durable.files <= Len(files)
      /\ Len(files) \in Nat /\ Len(head) \in Nat
  BY KnownTypes, Lengths DEF ChainInv
<1>1. durable'.files = Len(files) /\ durable'.head = head /\ durable'.next = next
  BY DEF Directory
<1>2. ChainsOnDisk'
  <2>1. Begins(files, files') /\ durable.files <= durable'.files /\ durable'.files <= Len(files')
    BY <1>0, <1>1, BeginsFacts
  <2>2. process'[r].records = process[r].records \/ Among(process'[r].records, files', durable'.files)
    BY <1>1 DEF Among, Begins
  <2> QED
    BY <1>1, <2>1, <2>2, ChainsStay DEF ChainInv
<1>3. RecordIsLast'
  BY DEF ChainInv, RecordIsLast, At
<1>4. HeadAhead'
  BY <1>0, <1>1 DEF HeadAhead
<1>5. OneWriter'
  BY DEF ChainInv, WritersInPlace, OneWriter, Writes
<1>6. \A q \in Runtimes : InPlace(process[q])'
  BY <1>1 DEF ChainInv, WritersInPlace, InPlace
<1> QED
  BY <1>2, <1>3, <1>4, <1>5, <1>6 DEF ChainInv, WritersInPlace

(* The four system calls that sync the directory.                          *)
LEMMA SyncsKeepChains ==
  ASSUME ChainInv, IInv', NEW r \in Runtimes,
         SyncMarker(r) \/ SyncRecord(r) \/ SyncNext(r) \/ SyncHead(r)
  PROVE  ChainInv'
<1>0. process \in Processes
  BY DEF ChainInv, IInv, TypeOK, Processes
<1>1. /\ UNCHANGED <<files, head, next>> /\ durable' = Directory
      /\ retained' \subseteq retained \cup {process[r].records}
  BY DEF SyncMarker, SyncRecord, SyncNext, SyncHead, SyncDirectory, Returns, books
<1>2. \A q \in Runtimes \ {r} : process'[q] = process[q]
  BY <1>0 DEF SyncMarker, SyncRecord, SyncNext, SyncHead, Returns, Goto, Processes
<1>3. durable'.head = head
  BY <1>1 DEF Directory
<1>4. InPlace(process[r])
  BY DEF ChainInv, WritersInPlace
<1>5. CASE SyncMarker(r) \/ SyncHead(r)
  <2>1. process'[r].pc \in {"retain", "idle"} /\ process'[r].records = process[r].records
    BY <1>0, <1>5 DEF SyncMarker, SyncHead, Returns, Goto, Processes
  <2>2. InPlace(process[r])' /\ ~Writes(r)'
    BY <2>1 DEF InPlace, Writing, Writes
  <2> QED
    BY <1>1, <1>2, <2>1, <2>2, SyncStep
<1>6. CASE SyncNext(r)
  <2>1. process[r].pc = "nextSync" /\ process'[r].pc = "rename" /\ process'[r].records = process[r].records
    BY <1>0, <1>6 DEF SyncNext, Goto, Processes, At
  <2>2. InPlace(process[r])' /\ Writes(r)
    BY <1>1, <1>3, <1>4, <2>1 DEF InPlace, Writing, Writes
  <2> QED
    BY <1>1, <1>2, <2>1, <2>2, SyncStep
<1>7. CASE SyncRecord(r)
  <2> DEFINE longer == Append(process[r].records, process[r].record)
  <2>1. process[r].pc = "recordSync" /\ process'[r].pc = "next" /\ process'[r].records = longer
    BY <1>0, <1>7 DEF SyncRecord, Processes, At
  <2>2. Begins(longer, files)
    BY <2>1 DEF ChainInv, RecordIsLast, At
  <2>3. process[r].records \in Seq(Records)
    BY <1>0 DEF Processes, Chains
  <2>4. Len(longer) = Len(process[r].records) + 1
    BY <2>3
  <2> HIDE DEF longer
  <2>5. /\ Len(files) = Len(head) + 1 /\ Len(process[r].records) = Len(head)
    BY <1>4, <2>1 DEF InPlace, Writing
  <2>6. InPlace(process[r])' /\ Writes(r)
    BY <1>1, <1>3, <2>1, <2>4, <2>5 DEF InPlace, Writing, Writes
  <2> QED
    BY <1>1, <1>2, <2>1, <2>2, <2>6, SyncStep
<1> QED
  BY <1>5, <1>6, <1>7

(* A record file is created by a process that knows all the others: nobody *)
(* else is writing.                                                        *)
LEMMA CreateRecordKeepsChains ==
  ASSUME ChainInv, IInv', NEW r \in Runtimes, CreateRecord(r)
  PROVE  ChainInv'
<1> DEFINE new == process[r].record
<1>0. process \in Processes
  BY DEF ChainInv, IInv, TypeOK, Processes
<1>1. /\ process[r].pc = "record" /\ process'[r].pc = "recordSync"
      /\ process'[r].records = process[r].records /\ process'[r].record = new
      /\ \A q \in Runtimes \ {r} : process'[q] = process[q]
      /\ files' = Append(files, new) /\ Len(files) = Len(process[r].records)
      /\ UNCHANGED <<head, next, durable, retained>>
  BY <1>0 DEF CreateRecord, Goto, Processes, At, books
<1>2. /\ new \in Records /\ files \in Chains /\ files' \in Chains /\ process[r].records \in Chains
      /\ Len(files) \in Nat
  <2>1. new \in Records
    BY <1>1 DEF ChainInv, IInv, CallsWellFormed, WellFormed, Steps
  <2>2. files' \in Chains
    BY DEF IInv, TypeOK
  <2> QED
    BY <2>1, <2>2, KnownTypes, Lengths DEF ChainInv
<1> HIDE DEF new
<1>3. Len(files') = Len(files) + 1 /\ Begins(files, files')
  <2>1. files \in Seq(Records)
    BY <1>2 DEF Chains
  <2>2. Len(files') = Len(files) + 1
    BY <1>1, <2>1
  <2> QED
    BY <1>1, <1>2, <2>2, BeginsFacts
<1>4. files = process[r].records
  <2>1. Begins(process[r].records, files)
    BY DEF ChainInv, ChainsOnDisk, OnDisk, Among
  <2> QED
    BY <1>1, <1>2, <2>1, BeginsFacts
<1>5. Len(files) = Len(head)
  BY <1>1, Lengths DEF ChainInv, WritersInPlace, InPlace
<1>6. \A q \in Runtimes : ~Writes(q)
  BY <1>5, Lengths DEF ChainInv, WritersInPlace, InPlace, Writes
<1>7. ChainsOnDisk'
  BY <1>1, <1>2, <1>3, ChainsStay, Lengths DEF ChainInv
<1>8. RecordIsLast'
  <2>1. Begins(Append(process[r].records, new), files')
    BY <1>1, <1>2, <1>4, BeginsFacts
  <2>2. \A q \in Runtimes \ {r} : ~At(q, "recordSync")'
    BY <1>1, <1>6 DEF Writes, Writing, At
  <2> QED
    BY <1>1, <2>1, <2>2 DEF RecordIsLast
<1>9. HeadAhead'
  BY <1>1 DEF ChainInv, HeadAhead
<1>10. OneWriter'
  BY <1>1, <1>6 DEF OneWriter, Writes
<1>11. \A q \in Runtimes : InPlace(process[q])'
  <2>1. InPlace(process[r])'
    BY <1>1, <1>3, <1>5 DEF InPlace, Writing
  <2>2. ASSUME NEW q \in Runtimes \ {r} PROVE InPlace(process[q])'
    BY <1>1, <1>6 DEF ChainInv, WritersInPlace, InPlace, Writes, Writing
  <2> QED
    BY <2>1, <2>2
<1> QED
  BY <1>7, <1>8, <1>9, <1>10, <1>11 DEF ChainInv, WritersInPlace

(* The file that will be the head holds the copy of its writer.            *)
LEMMA CreateNextKeepsChains ==
  ASSUME ChainInv, IInv', NEW r \in Runtimes, CreateNext(r)
  PROVE  ChainInv'
<1>0. process \in Processes
  BY DEF ChainInv, IInv, TypeOK, Processes
<1>1. /\ process[r].pc = "next" /\ process'[r].pc = "nextSync"
      /\ process'[r].records = process[r].records
      /\ \A q \in Runtimes \ {r} : process'[q] = process[q]
      /\ next' = process[r].records
      /\ UNCHANGED <<files, head, durable, retained>>
  BY <1>0 DEF CreateNext, Goto, Processes, At, books
<1>2. Begins(files, files')
  BY <1>1, KnownTypes, BeginsFacts DEF ChainInv
<1>3. ChainsOnDisk'
  BY <1>1, <1>2, ChainsStay, Lengths DEF ChainInv
<1>4. RecordIsLast' /\ HeadAhead'
  BY <1>1 DEF ChainInv, RecordIsLast, HeadAhead, At
<1>5. OneWriter'
  BY <1>1 DEF ChainInv, WritersInPlace, OneWriter, Writes, Writing
<1>6. \A q \in Runtimes : InPlace(process[q])'
  <2>1. InPlace(process[r])'
    BY <1>1 DEF ChainInv, WritersInPlace, InPlace, Writing
  <2>2. ASSUME NEW q \in Runtimes \ {r} PROVE InPlace(process[q])'
    <3>1. ~Writes(q) /\ InPlace(process[q])
      BY <1>1 DEF ChainInv, WritersInPlace, OneWriter, Writes, Writing
    <3> QED
      BY <1>1, <3>1 DEF InPlace, Writes, Writing
  <2> QED
    BY <2>1, <2>2
<1> QED
  BY <1>3, <1>4, <1>5, <1>6 DEF ChainInv, WritersInPlace

(* The head names one record more, the one its writer made durable.        *)
LEMMA RenameHeadKeepsChains ==
  ASSUME ChainInv, IInv', NEW r \in Runtimes, RenameHead(r)
  PROVE  ChainInv'
<1>0. process \in Processes
  BY DEF ChainInv, IInv, TypeOK, Processes
<1>1. /\ process[r].pc = "rename" /\ process'[r].pc = "headSync"
      /\ process'[r].records = process[r].records
      /\ \A q \in Runtimes \ {r} : process'[q] = process[q]
      /\ next # NoFile /\ head' = next /\ next' = NoFile
      /\ UNCHANGED <<files, durable, retained>>
  BY <1>0 DEF RenameHead, Goto, Processes, At, books
<1>2. /\ next = process[r].records /\ Len(process[r].records) = Len(head) + 1
      /\ Len(durable.head) = Len(head)
  BY <1>1 DEF ChainInv, WritersInPlace, InPlace, Writing
<1>3. Begins(files, files')
  BY <1>1, KnownTypes, BeginsFacts DEF ChainInv
<1>4. ChainsOnDisk'
  BY <1>1, <1>3, ChainsStay, Lengths DEF ChainInv
<1>5. RecordIsLast'
  BY <1>1 DEF ChainInv, RecordIsLast, At
<1>6. Len(head') = Len(head) + 1
  BY <1>1, <1>2
<1>7. HeadAhead'
  BY <1>1, <1>2, <1>6, Lengths DEF HeadAhead
<1>8. \A q \in Runtimes : ~Writes(q)'
  BY <1>1 DEF ChainInv, WritersInPlace, OneWriter, Writes, Writing
<1>9. \A q \in Runtimes : InPlace(process[q])'
  <2>1. InPlace(process[r])'
    BY <1>1, <1>2, <1>6, Lengths DEF InPlace, Writing
  <2>2. ASSUME NEW q \in Runtimes \ {r} PROVE InPlace(process[q])'
    <3>1. InPlace(process[q]) /\ process[q].pc \notin Writing
      BY <1>1, <1>8 DEF ChainInv, WritersInPlace, Writes
    <3>2. process[q].pc \in {"record", "headSync"} => Len(process[q].records) <= Len(head')
      BY <1>6, <3>1, Lengths DEF InPlace
    <3> QED
      BY <1>1, <3>1, <3>2 DEF InPlace, Writing
  <2> QED
    BY <2>1, <2>2
<1>10. OneWriter'
  BY <1>8 DEF OneWriter
<1> QED
  BY <1>4, <1>5, <1>7, <1>9, <1>10 DEF ChainInv, WritersInPlace

(* A power loss takes only files that nobody knows as complete.            *)
LEMMA PowerLossKeepsChains ==
  ASSUME ChainInv, IInv', PowerLoss
  PROVE  ChainInv'
<1>0. /\ files \in Chains /\ files' \in Chains /\ head' \in Chains /\ durable.files \in Nat
      /\ Len(files) \in Nat /\ durable.files <= Len(files)
      /\ Len(head) \in Nat /\ Len(durable.head) \in Nat
  BY KnownTypes, Lengths DEF ChainInv, IInv, TypeOK
<1>1. PICK n \in durable.files .. Len(files) : files' = SubSeq(files, 1, n)
  BY DEF PowerLoss
<1>2. n \in Nat /\ durable.files <= n /\ n <= Len(files) /\ Len(files') = n
  <2>1. files \in Seq(Records)
    BY <1>0 DEF Chains
  <2> QED
    BY <1>0, <1>1, <2>1
<1>3. /\ \A r \in Runtimes : process'[r].pc = "down" /\ process'[r].records = <<>>
      /\ head' \in {head, durable.head} /\ next' \in {next, durable.next}
      /\ durable' = Directory' /\ retained' = retained
  BY DEF PowerLoss, Down
<1>4. durable'.files = n /\ durable'.head = head' /\ durable'.next = next'
  BY <1>2, <1>3 DEF Directory
<1>5. \A c \in Chains : OnDisk(c) => Among(c, files', durable'.files)
  <2> SUFFICES ASSUME NEW c \in Chains, OnDisk(c) PROVE Among(c, files', n)
    BY <1>4
  <2>1. Begins(c, files) /\ Len(c) <= durable.files /\ Len(c) \in Nat
    BY ChainFacts, Bounds DEF OnDisk, Among
  <2>2. Len(c) <= n
    BY <1>0, <1>2, <2>1
  <2>3. Begins(c, files')
    BY <1>0, <1>1, <1>2, <2>1, <2>2, BeginsFacts
  <2> QED
    BY <2>2, <2>3 DEF Among
<1>6. ChainsOnDisk'
  <2>1. /\ head \in Chains /\ next \in Chains \cup {NoFile} /\ durable.head \in Chains
        /\ durable.next \in Chains \cup {NoFile} /\ retained \subseteq Chains
    BY KnownTypes DEF ChainInv
  <2>2. Among(head', files', durable'.files)
        /\ (next' # NoFile => Among(next', files', durable'.files))
    BY <1>3, <1>5, <2>1 DEF ChainInv, ChainsOnDisk
  <2>3. \A known \in retained' : Among(known, files', durable'.files)
    BY <1>3, <1>5, <2>1 DEF ChainInv, ChainsOnDisk
  <2>4. \A r \in Runtimes : Among(process'[r].records, files', durable'.files)
    BY <1>2, <1>3, <1>4 DEF Among, Begins
  <2> QED
    BY <1>2, <1>4, <2>2, <2>3, <2>4 DEF ChainsOnDisk, OnDisk
<1>7. RecordIsLast' /\ OneWriter' /\ \A r \in Runtimes : InPlace(process[r])'
  BY <1>3 DEF RecordIsLast, At, OneWriter, Writes, Writing, InPlace
<1>8. HeadAhead'
  <2>1. Len(head') \in Nat
    BY <1>0, <1>3
  <2> QED
    BY <1>4, <2>1 DEF HeadAhead
<1> QED
  BY <1>6, <1>7, <1>8 DEF ChainInv, WritersInPlace

(* Every step keeps the invariant.                                         *)
LEMMA StepKeepsChains ==
  ASSUME ChainInv, [Next]_vars
  PROVE  ChainInv'
<1>1. IInv'
  BY StepKeeps DEF ChainInv
<1>2. CASE Next
  BY <1>1, <1>2, CallsKeepChains, SyncsKeepChains, CreateRecordKeepsChains, CreateNextKeepsChains,
     RenameHeadKeepsChains, PowerLossKeepsChains DEF Next
<1>3. CASE UNCHANGED vars
  BY <1>1, <1>3 DEF vars, ChainInv, ChainsOnDisk, OnDisk, RecordIsLast, HeadAhead, WritersInPlace,
     OneWriter, Writes, InPlace, At
<1> QED
  BY <1>2, <1>3

(* The empty journal has it.                                               *)
LEMMA InitOnDisk == Init => ChainInv
<1> SUFFICES ASSUME Init PROVE ChainInv
  OBVIOUS
<1>1. IInv
  BY InitKeeps
<1>2. /\ files = <<>> /\ head = <<>> /\ next = NoFile /\ retained = {}
      /\ durable.files = 0 /\ durable.head = <<>> /\ durable.next = NoFile
      /\ \A r \in Runtimes : process[r].pc = "down" /\ process[r].records = <<>>
  BY DEF Init, Directory, Down
<1>3. OnDisk(<<>>)
  BY <1>2 DEF OnDisk, Among, Begins
<1>4. ChainsOnDisk
  BY <1>2, <1>3 DEF ChainsOnDisk
<1>5. RecordIsLast /\ WritersInPlace
  BY <1>2 DEF RecordIsLast, At, WritersInPlace, OneWriter, Writes, Writing, InPlace
<1>6. HeadAhead
  BY <1>2 DEF HeadAhead
<1> QED
  BY <1>1, <1>4, <1>5, <1>6 DEF ChainInv

(* Whoever verifies the journal finds every record that was acknowledged.  *)
THEOREM VerifiedRecordsComplete == Spec => []VerifiedIsComplete
<1>1. ChainInv => VerifiedIsComplete
  <2> SUFFICES ASSUME ChainInv, NEW records, Verified(records), NEW known \in retained
               PROVE  IsPrefix(known, records)
    BY DEF VerifiedIsComplete
  <2>1. records = files /\ files \in Chains /\ known \in Chains /\ Begins(known, files)
    BY KnownTypes DEF ChainInv, ChainsOnDisk, OnDisk, Among, Verified
  <2> QED
    BY <2>1, BeginsFacts
<1>2. ChainInv /\ [Next]_vars => ChainInv'
  BY StepKeepsChains
<1> QED
  BY InitOnDisk, <1>1, <1>2, PTL DEF Spec

-----------------------------------------------------------------------------
(* The log of the durable heads *)

(* A chain of one record more than its beginning.                          *)
LEMMA OneMore ==
  ASSUME NEW c \in Chains, NEW d \in Chains, Begins(c, d), Len(d) <= Len(c) + 1
  PROVE  d = c \/ \E e \in Records : d = Append(c, e)
<1>1. c \in Seq(Records) /\ d \in Seq(Records) /\ Len(c) \in Nat /\ Len(d) \in Nat
  BY DEF Chains
<1>2. CASE Len(d) <= Len(c)
  BY <1>2, BeginsFacts
<1>3. CASE Len(d) = Len(c) + 1
  <2>1. d[Len(d)] \in Records
    BY <1>1, <1>3
  <2>2. d = Append(c, d[Len(d)])
    BY <1>1, <1>3, <2>1 DEF Begins
  <2> QED
    BY <2>1, <2>2
<1> QED
  BY <1>1, <1>2, <1>3 DEF Begins

(* A beginning is the records up to its length.                            *)
LEMMA BeginningIs ==
  ASSUME NEW c \in Chains, NEW d \in Chains, Begins(c, d)
  PROVE  Len(c) \in 0..Len(d) /\ c = SubSeq(d, 1, Len(c))
<1>1. c \in Seq(Records) /\ d \in Seq(Records) /\ Len(c) \in Nat /\ Len(d) \in Nat
  BY DEF Chains
<1> QED
  BY <1>1 DEF Begins

(* The log grows when the directory is synced or a power loss keeps the    *)
(* head, by the record whose head was not durable.                         *)
LEMMA LogGrows ==
  ASSUME ChainInv, [Next]_vars
  PROVE  durable'.head = durable.head \/ \E e \in Records : durable'.head = Append(durable.head, e)
<1>1. head \in Chains /\ durable.head \in Chains /\ files \in Chains
  BY KnownTypes DEF ChainInv
<1>2. Begins(durable.head, head)
  BY <1>1, BeginsFacts DEF ChainInv, ChainsOnDisk, OnDisk, Among, HeadAhead
<1>3. head = durable.head \/ \E e \in Records : head = Append(durable.head, e)
  BY <1>1, <1>2, OneMore DEF ChainInv, HeadAhead
<1>4. durable'.head \in {durable.head, head}
  <2>1. CASE PowerLoss
    BY <2>1 DEF PowerLoss, Directory
  <2>2. ASSUME NEW r \in Runtimes, SyncMarker(r) \/ SyncRecord(r) \/ SyncNext(r) \/ SyncHead(r)
        PROVE  durable'.head = head
    BY <2>2 DEF SyncMarker, SyncRecord, SyncNext, SyncHead, SyncDirectory, Directory
  <2>3. ASSUME NEW r \in Runtimes,
               \/ Open(r) \/ RetainEntry(r) \/ ClaimPhase(r) \/ RetainPhase(r) \/ Crash(r) \/ Fails(r)
               \/ CreateMarker(r) \/ CreateRecord(r) \/ CreateNext(r) \/ RenameHead(r)
        PROVE  durable' = durable
    BY <2>3 DEF Open, RetainEntry, ClaimPhase, RetainPhase, Crash, Fails, CreateMarker, CreateRecord,
       CreateNext, RenameHead, disk, books
  <2>4. CASE UNCHANGED vars
    BY <2>4 DEF vars
  <2> QED
    BY <2>1, <2>2, <2>3, <2>4 DEF Next
<1> QED
  BY <1>3, <1>4

(* A digest that retain returns names a log the durable head has had.      *)
LEMMA PromisesKept ==
  ASSUME ChainInv, [Next]_vars
  PROVE  \/ retained' = retained
         \/ \E n \in 0..Len(durable'.head) : retained' = retained \cup {SubSeq(durable'.head, 1, n)}
<1>1. ASSUME NEW r \in Runtimes, SyncHead(r)
      PROVE  \E n \in 0..Len(durable'.head) : retained' = retained \cup {SubSeq(durable'.head, 1, n)}
  <2> DEFINE mine == process[r].records
  <2>1. durable'.head = head /\ retained' = retained \cup {mine} /\ process[r].pc = "headSync"
    BY <1>1 DEF SyncHead, SyncDirectory, Directory, Returns, At
  <2>2. mine \in Chains /\ head \in Chains /\ files \in Chains
    BY KnownTypes DEF ChainInv
  <2>3. Begins(mine, files) /\ Begins(head, files) /\ Len(mine) <= Len(head)
    BY <2>1 DEF ChainInv, ChainsOnDisk, OnDisk, Among, WritersInPlace, InPlace
  <2> HIDE DEF mine
  <2>4. Begins(mine, head)
    BY <2>2, <2>3, BeginsFacts
  <2> QED
    BY <2>1, <2>2, <2>4, BeginningIs
<1>2. ASSUME NEW r \in Runtimes,
             \/ Open(r) \/ RetainEntry(r) \/ ClaimPhase(r) \/ RetainPhase(r) \/ Crash(r) \/ Fails(r)
             \/ CreateMarker(r) \/ CreateRecord(r) \/ CreateNext(r) \/ RenameHead(r)
             \/ SyncMarker(r) \/ SyncRecord(r) \/ SyncNext(r)
      PROVE  retained' = retained
  BY <1>2 DEF Open, RetainEntry, ClaimPhase, RetainPhase, Crash, Fails, CreateMarker, CreateRecord,
     CreateNext, RenameHead, SyncMarker, SyncRecord, SyncNext, disk, books
<1>3. CASE PowerLoss \/ UNCHANGED vars
  BY <1>3 DEF PowerLoss, vars
<1> QED
  BY <1>1, <1>2, <1>3 DEF Next

(* The journal is a log that only grows and keeps what it acknowledged:    *)
(* the durable head implements AppendLog.                                  *)
THEOREM JournalImplementsLog == Spec => ImplementsAppendLog
<1>1. Init => Log!LogInit
  BY DEF Init, Directory, Log!LogInit
<1>2. ChainInv /\ [Next]_vars => [Log!LogNext]_(Log!logVars)
  BY LogGrows, PromisesKept DEF Log!LogNext, Log!Extends, Log!Promises, Log!logVars
<1>3. ChainInv /\ [Next]_vars => ChainInv'
  BY StepKeepsChains
<1> QED
  BY <1>1, <1>2, <1>3, InitOnDisk, PTL DEF Spec, ImplementsAppendLog, Log!LogSpec
===============================================================================
