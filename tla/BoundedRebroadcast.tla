-------------------------- MODULE BoundedRebroadcast --------------------------
(***************************************************************************)
(* The submission of one retained leg: the pinned scheduler                *)
(* runBoundedRebroadcast and resolveExactSignatureTerminal, over           *)
(* boundedTransport of wiggles-submission-v1.mjs, and then the capture of  *)
(* the economic source through a SupervisedRpc instance.  The scheduler    *)
(* makes one request at a time and gives it up when its own timer fires;   *)
(* the transport's work for it goes on.  Timers and checks of elapsed time *)
(* go either way, except that the window of an attempt opens, then closes. *)
(*                                                                         *)
(* The chain and the provider are external: a send may land once while the *)
(* blockhash lives, a status may lag, a finalized answer does not.         *)
(***************************************************************************)
EXTENDS SupervisedRpc, Sequences

CONSTANT MaxPolls  \* POLICY.maxResolutionPolls

ASSUME ScheduleLimits == MaxPolls \in Nat \ {0}

VARIABLES
  sched,     \* the scheduler: its next await, attempt, the window, the poll
  calls,     \* the requests it made: the transport's work on each
  retired,   \* ids of requests retained without a body
  timing,    \* ids whose timing record is written
  closed,    \* the overall timer fired or the schedule ended
  result,    \* the classification the submission returned
  \* the outside:
  chain,     \* the transaction on the chain
  expired,   \* the finalized height passed last_valid_block_height
  \* what happened, read by no action:
  sends      \* [attempt, caller] of each send that reached the provider

scheduleVars == <<sched, calls, retired, timing, closed, result>>
allVars == <<rpcVars, scheduleVars, chain, expired, sends>>

None == "none"
MaxAttempts == 3  \* POLICY.maxClientSendAttempts

ScheduleInit ==
  /\ RpcInit
  /\ sched = [pc |-> "send", attempt |-> 1, window |-> "open", poll |-> 0, status |-> None, id |-> 0,
              verdict |-> None]
  /\ calls = << >>
  /\ retired = {} /\ timing = {}
  /\ closed = FALSE
  /\ result = None
  /\ chain = "absent" /\ expired = FALSE
  /\ sends = << >>

(* The schedule after its step: where it awaits next, and what it learnt.  *)
GoTo(pc) == [sched EXCEPT !.pc = pc]
Resolve == GoTo("poll")
NewAttempt == [sched EXCEPT !.pc = "sleep", !.attempt = @ + 1, !.window = "early"]
Learn(status, pc) == [sched EXCEPT !.pc = pc, !.status = status]
NewPoll == [sched EXCEPT !.pc = "poll", !.poll = @ + 1]
Finish(classification) == [sched EXCEPT !.pc = "finish", !.verdict = classification]

(* prepareRequest and the persisted summary, then dispatch: the work of    *)
(* boundedTransport starts with its reads of the authority.  A gate is a   *)
(* request made for an attempt, before the resolution.                     *)
Ask(kind, gate) ==
  /\ calls' = Append(calls, [kind |-> kind, attempt |-> IF gate THEN sched.attempt ELSE 0,
                             work |-> "reads"])
  /\ sched' = [sched EXCEPT !.pc = "wait", !.id = Len(calls) + 1]
  /\ UNCHANGED <<rpcVars, retired, timing, closed, result, chain, expired, sends>>

Moves(s) == sched' = s /\ UNCHANGED <<rpcVars, calls, retired, timing, closed, result, chain, expired, sends>>

WindowMoves ==
  /\ sched.attempt > 1 /\ sched.window # "past" /\ ~closed
  /\ Moves([sched EXCEPT !.window = IF @ = "early" THEN "open" ELSE "past"])

(* sendOrdinal: a rebroadcast whose window has closed is prepared but not  *)
(* dispatched, and ends the schedule.                                      *)
Send ==
  /\ sched.pc = "send" /\ ~closed
  /\ IF sched.window = "past" THEN Moves(Resolve) ELSE Ask("send", TRUE)

(* The wait for an attempt's window, and the three ends of an attempt that *)
(* finds its window closed.                                                *)
Sleep ==
  /\ sched.pc = "sleep" /\ ~closed
  /\ sched.window # "early"
  /\ Moves(IF sched.window = "past" THEN Resolve ELSE GoTo("status"))

Gate ==
  /\ sched.pc \in {"status", "height"} /\ ~closed
  /\ IF sched.window = "past" THEN Moves(Resolve) ELSE Ask(sched.pc, TRUE)

(* resolveExactSignatureTerminal: a poll asks for the status, then, unless *)
(* the transaction was seen, for the height; each first looks at the time  *)
(* that remains.                                                           *)
ResolutionEnds ==
  /\ sched.pc \in {"poll", "pollHeight", "transaction"} /\ ~closed
  /\ sched.pc = "poll" => sched.poll > 0
  /\ Moves(Finish("AMBIGUOUS"))

ResolutionAsks ==
  /\ ~closed
  /\ \/ sched.pc = "poll" /\ sched.poll < MaxPolls /\ Ask("status", FALSE)
     \/ sched.pc = "pollHeight" /\ Ask("height", FALSE)
     \/ sched.pc = "transaction" /\ Ask("transaction", FALSE)

Active == calls[sched.id]
Waiting == sched.pc = "wait"

NextAttempt == IF sched.attempt = MaxAttempts THEN Resolve ELSE NewAttempt

(* What the schedule does with an answer; "nobody" is no body at all.      *)
AfterGate(answer) ==
  CASE Active.kind = "send"   -> IF answer = "ACK_MATCH" THEN NextAttempt ELSE Resolve
    [] Active.kind = "status" -> IF answer = "NULL" THEN GoTo("height") ELSE Resolve
    [] OTHER                  -> IF answer = "LIVE" THEN GoTo("send") ELSE Resolve

(* What a poll does with one: its status, its height, its transaction.     *)
AfterStatus(answer) ==
  IF answer \in {"FINALIZED", "ERROR"} THEN Learn(answer, "transaction")
  ELSE IF answer \in {"NULL", "PENDING"} THEN Learn(answer, "pollHeight")
  ELSE Finish("AMBIGUOUS")

(* Mutant: an expired height alone proves that the transaction is absent.  *)
AbsentByHeight(answer) ==
  IF answer \notin {"LIVE", "EXPIRED"} THEN Finish("AMBIGUOUS")
  ELSE IF sched.status = "NULL" /\ answer = "EXPIRED" THEN Finish("EXPIRED_ABSENT")
  ELSE NewPoll

AfterHeight(answer) ==
  IF answer \notin {"LIVE", "EXPIRED"} THEN Finish("AMBIGUOUS")
  ELSE IF sched.status = "NULL" /\ answer = "EXPIRED" THEN GoTo("transaction")
  ELSE NewPoll

AfterTransaction(answer) ==
  Finish(CASE sched.status = "NULL" -> IF answer = "NULL" THEN "EXPIRED_ABSENT" ELSE "AMBIGUOUS"
           [] sched.status # "NULL" /\ answer = "SUCCEEDED" -> "FINALIZED_SUCCESS"
           [] sched.status # "NULL" /\ answer = "FAILED" -> "FINALIZED_FAILURE"
           [] OTHER -> "AMBIGUOUS")

AfterPoll(answer) ==
  CASE Active.kind = "status" -> AfterStatus(answer)
    [] Active.kind = "height" -> AfterHeight(answer)
    [] OTHER                  -> AfterTransaction(answer)

After(answer) == IF Active.attempt > 0 THEN AfterGate(answer) ELSE AfterPoll(answer)

-----------------------------------------------------------------------------
(* boundedTransport *)

CallWork(id, work) == calls' = [calls EXCEPT ![id].work = work]

(* The answer without a body: its retention record retires the request and *)
(* closes its timing, if the transport has begun to count it.              *)
GiveUp(answer) ==
  /\ retired' = retired \cup {sched.id}
  /\ timing' = IF Active.work \in {"counted", "flight"} THEN timing \cup {sched.id} ELSE timing
  /\ sched' = After(answer)

(* boundStartedCall: the scheduler's timer.                                *)
SchedulerTimeout ==
  /\ Waiting /\ ~closed
  /\ GiveUp("nobody")
  /\ UNCHANGED <<rpcVars, calls, closed, result, chain, expired, sends>>

(* The reads of the episode and the wire are done; the call is counted and *)
(* recorded.  `revoked` stands for a revocation that was read.             *)
Count(id) ==
  /\ calls[id].work = "reads" /\ ~closed
  /\ id \notin retired
  /\ CallWork(id, "counted")
  /\ UNCHANGED <<rpcVars, sched, retired, timing, closed, result, chain, expired, sends>>

(* Every other exit of the transport: a failed read, a retired request, a  *)
(* revocation, a limit or deadline, its own timer, a late response.        *)
TransportFails(id) ==
  /\ calls[id].work \in {"reads", "counted", "flight"}
  /\ CallWork(id, "stopped")
  /\ timing' = IF calls[id].work # "reads" /\ ~closed THEN timing \cup {id} ELSE timing
  /\ IF Waiting /\ sched.id = id /\ ~closed
     THEN retired' = retired \cup {id} /\ sched' = After("nobody")
     ELSE UNCHANGED <<retired, sched>>
  /\ UNCHANGED <<rpcVars, closed, result, chain, expired, sends>>

InWindow(c) == c.kind = "send" /\ c.attempt > 1 => sched.window = "open"

Dispatches(id) ==
  /\ CallWork(id, "flight")
  /\ sends' = IF calls[id].kind = "send"
              THEN Append(sends, [attempt |-> calls[id].attempt,
                                  caller |-> IF Waiting /\ id = sched.id THEN "waiting" ELSE "gone"])
              ELSE sends
  /\ UNCHANGED <<rpcVars, sched, retired, timing, closed, result, chain, expired>>

(* Mutant: a counted call is dispatched even if its request was retired.   *)
InvokeRetired(id) ==
  /\ calls[id].work = "counted" /\ ~closed
  /\ InWindow(calls[id])
  /\ Dispatches(id)

(* invoke: no await between its checks and the effect.                     *)
Invoke(id) ==
  /\ calls[id].work = "counted" /\ ~closed
  /\ id \notin retired
  /\ InWindow(calls[id])
  /\ Dispatches(id)

Answers(kind) ==
  CASE kind = "send"   -> {"ACK_MATCH", "rejected"}
    [] kind = "status" -> {"NULL"} \cup
                          (CASE chain = "absent" -> {}
                             [] chain = "included" -> {"PENDING"}
                             [] chain = "finalized" -> {"FINALIZED"}
                             [] OTHER -> {"ERROR"})
    [] kind = "height" -> {IF expired THEN "EXPIRED" ELSE "LIVE"}
    [] OTHER           -> {CASE chain = "finalized" -> "SUCCEEDED" [] chain = "failed" -> "FAILED"
                             [] OTHER -> "NULL"}

(* A response in time and its ACCEPTED timing record. *)
Accept(id) ==
  /\ calls[id].work = "flight" /\ ~closed
  /\ Waiting /\ sched.id = id
  /\ CallWork(id, "accepted")
  /\ timing' = timing \cup {id}
  /\ \E answer \in Answers(calls[id].kind) : sched' = After(answer)
  /\ UNCHANGED <<rpcVars, retired, closed, result, chain, expired, sends>>

-----------------------------------------------------------------------------
Classifications == {"FINALIZED_SUCCESS", "FINALIZED_FAILURE", "EXPIRED_ABSENT", "AMBIGUOUS"}

(* The evidence is closed, completion.json persisted, the result returned. *)
Complete ==
  /\ sched.pc = "finish" /\ ~closed
  /\ result' = sched.verdict
  /\ closed' = TRUE
  /\ sched' = GoTo("end")
  /\ UNCHANGED <<rpcVars, calls, retired, timing, chain, expired, sends>>

(* The overall deadline, or a failed write: an unresolved outcome.         *)
Unresolved ==
  /\ ~closed
  /\ closed' = TRUE
  /\ result' = "UNRESOLVED"
  /\ sched' = GoTo("end")
  /\ UNCHANGED <<rpcVars, calls, retired, timing, chain, expired, sends>>

(* finalize: only a finalized success has its economic source captured.    *)
CaptureSource ==
  /\ result = "FINALIZED_SUCCESS"
  /\ RpcNext
  /\ UNCHANGED <<scheduleVars, chain, expired, sends>>

-----------------------------------------------------------------------------
(* The chain: one inclusion, with or without an error, while the blockhash *)
(* lives; a fork may drop it.                                              *)
Land ==
  /\ chain = "absent" /\ ~expired /\ sends # << >>
  /\ chain' \in {"included", "included with error"}
  /\ UNCHANGED <<rpcVars, scheduleVars, expired, sends>>

Settle ==
  /\ chain \in {"included", "included with error"}
  /\ chain' \in {IF chain = "included" THEN "finalized" ELSE "failed", "absent"}
  /\ UNCHANGED <<rpcVars, scheduleVars, expired, sends>>

(* The finalized height passes the last valid one: what was included in    *)
(* between is finalized with it, or gone.                                  *)
PassHeight ==
  /\ ~expired /\ chain \in {"absent", "finalized", "failed"}
  /\ expired' = TRUE
  /\ UNCHANGED <<rpcVars, scheduleVars, chain, sends>>

Scheduler ==
  \/ WindowMoves \/ Send \/ Sleep \/ Gate \/ ResolutionEnds \/ ResolutionAsks
  \/ SchedulerTimeout \/ Complete \/ Unresolved

Transport(id) == Count(id) \/ Invoke(id) \/ Accept(id) \/ TransportFails(id)

SubmissionNext ==
  \/ Scheduler
  \/ (\E id \in DOMAIN calls : Transport(id))
  \/ CaptureSource
  \/ Land \/ Settle \/ PassHeight

SubmissionSpec == ScheduleInit /\ [][SubmissionNext]_allVars

-----------------------------------------------------------------------------
(* Properties *)

(* The same bytes reach the provider at most once for each attempt, in the *)
(* order of the attempts, and never for an attempt the schedule gave up:   *)
(* whatever the two timers and the reads of the authority do.              *)
GivenUpSendsStayUnsent ==
  /\ \A k \in DOMAIN sends : sends[k].caller = "waiting"
  /\ \A j, k \in DOMAIN sends : j < k => sends[j].attempt < sends[k].attempt

(* A terminal classification is true of the chain, and stays true: the     *)
(* disposal or a new acquisition may rest on it.  And it has a timing      *)
(* record for every call it counted: otherwise its evidence would not      *)
(* validate and the leg, although on the chain, could never be finalized.  *)
TerminalIsTrue ==
  /\ result = "FINALIZED_SUCCESS" => chain = "finalized"
  /\ result = "FINALIZED_FAILURE" => chain = "failed"
  /\ result = "EXPIRED_ABSENT" => chain = "absent" /\ expired
  /\ result \in Classifications =>
       \A id \in DOMAIN calls : calls[id].work \in {"counted", "flight", "accepted"} => id \in timing

=============================================================================
