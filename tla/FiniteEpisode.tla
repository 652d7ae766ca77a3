---------------------------- MODULE FiniteEpisode ----------------------------
(***************************************************************************)
(* The finite supervisor that drives one episode: runFiniteEpisodeV1 of    *)
(* supervisor.mjs.  Four activities share one process and interleave at    *)
(* every await: the main routine, the human task, the poll that sends the  *)
(* context, and the timer of the episode.  What the runtime's calls do to  *)
(* the authority are the steps of BoundedEpisode, which DecisionAuthority  *)
(* implements; a call of the runtime may fail before, between and after    *)
(* them.                                                                   *)
(*                                                                         *)
(* Of the journal it keeps the phases that are claimed, once and for ever, *)
(* and the evidence the exporter asks for.  The exchange is closed when    *)
(* the episode expires, so no capture from the chain completes after that. *)
(***************************************************************************)
EXTENDS BoundedEpisode

CONSTANT MaxRuns      \* bound on the runs of the worker, for model checking

ASSUME RunsAssumption == MaxRuns \in Nat \ {0}

VARIABLES
  claimed,      \* durable: the phases claimed in the journal, with their leg
  retained,     \* durable: the evidence kept in the journal
  main,         \* the main routine
  human,        \* the human task
  context,      \* who is in sendContext: contextBusy
  polling,      \* the interval timer of the context is armed
  stopped, expired,
  closing,      \* humanWait is aborted
  package,      \* the state in the published package: exportIdentity
  result,       \* the frame written to the result channel
  told,         \* what the human was told, in all runs
  issued,       \* challenges registered for each leg, in all runs
  runs

journal   == <<claimed, retained>>
signals   == <<stopped, expired, closing>>
outcome   == <<package, result>>
history   == <<told, issued, runs>>
finiteVars == <<episodeVars, journal, main, human, context, polling, signals, outcome, history>>

Unset == <<>>
Revocation == <<"revocation", 0>>

CallPcs  == {"issue", "registering", "deciding", "submitting", "finalizing", "sourcing", "settling"}
ExportPcs == {"capture", "outcome", "publish"}
MainPcs  == {"greet", "top", "challenge", "reading", "answer", "context", "drain",
             "awaitHuman", "awaitContext", "result", "done"} \cup CallPcs \cup ExportPcs
HumanPcs == {"reading", "revoking", "retaining", "acking", "nacking", "done"}

ordinal == main.ordinal
At(pc) == main.pc = pc
Goto(pc) == main' = [main EXCEPT !.pc = pc]

(* Every break and every exception leads to finally, which stops at once.  *)
Leave == Goto("drain") /\ stopped' = TRUE
Unless(condition, pc) == IF condition THEN Leave ELSE Goto(pc) /\ UNCHANGED stopped

Started == [pc |-> "greet", ordinal |-> 1, started |-> FALSE, closed |-> FALSE]

FiniteInit ==
  /\ EpisodeInit
  /\ claimed = {} /\ retained = {}
  /\ main = Started /\ human = "reading" /\ context = "free" /\ polling = TRUE
  /\ stopped = FALSE /\ expired = FALSE /\ closing = FALSE
  /\ package = Unset /\ result = Unset
  /\ told = {} /\ issued = [l \in EpisodeLegs |-> 0] /\ runs = 1

-----------------------------------------------------------------------------
(* sendContext: one at a time, none once the human input is closed; an     *)
(* error in it stops the episode.                                          *)
AfterContext ==
  IF At("greet") THEN Goto("top") /\ UNCHANGED stopped
  ELSE \/ stopped /\ Leave
       \/ ~stopped /\ ordinal = 1 /\ main' = [main EXCEPT !.pc = "top", !.ordinal = 2] /\ UNCHANGED stopped
       \/ ~stopped /\ ordinal = 2 /\ main' = [main EXCEPT !.pc = "drain", !.closed = TRUE]
          /\ stopped' = TRUE

BeginContext ==
  /\ At("greet") \/ At("context")
  /\ context = "free" /\ ~closing
  /\ context' = "main"
  /\ UNCHANGED <<episodeVars, journal, main, human, polling, signals, outcome, history>>

SkipContext ==
  /\ At("greet") \/ At("context")
  /\ context = "poll" \/ (context = "free" /\ closing)
  /\ AfterContext
  /\ UNCHANGED <<episodeVars, journal, human, context, polling, expired, closing, outcome, history>>

EndContext ==
  /\ context = "main"
  /\ context' = "free"
  /\ AfterContext
  /\ UNCHANGED <<episodeVars, journal, human, polling, expired, closing, outcome, history>>

FailContext ==
  /\ context = "main"
  /\ context' = "free"
  /\ IF At("greet") THEN Goto("top") /\ stopped' = TRUE ELSE Leave
  /\ UNCHANGED <<episodeVars, journal, human, polling, expired, closing, outcome, history>>

Poll ==
  /\ polling /\ context = "free" /\ ~closing
  /\ context' = "poll"
  /\ UNCHANGED <<episodeVars, journal, main, human, polling, signals, outcome, history>>

EndPoll ==
  /\ context = "poll"
  /\ context' = "free"
  /\ stopped' \in {stopped, TRUE}
  /\ UNCHANGED <<episodeVars, journal, main, human, polling, expired, closing, outcome, history>>

-----------------------------------------------------------------------------
(* issueReadinessChallengeV1: the capture of the leg is claimed, once and  *)
(* for ever; the evidence is kept and the challenge registered only if the *)
(* state still admits a decision for the leg.                              *)
Admits == ~revoked /\ leg[ordinal] = "idle" /\ (ordinal = 2 => leg[1] = "settled")

(* Mutant: the marker of a claimed phase is not exclusive. *)
BeginIssueAgain ==
  /\ At("top") /\ ~stopped
  /\ claimed' = claimed \cup {<<"capture", ordinal>>}
  /\ Goto("issue")
  /\ UNCHANGED <<episodeVars, retained, human, context, polling, signals, outcome, history>>

BeginIssue ==
  /\ At("top") /\ ~stopped
  /\ <<"capture", ordinal>> \notin claimed
  /\ claimed' = claimed \cup {<<"capture", ordinal>>}
  /\ Goto("issue")
  /\ UNCHANGED <<episodeVars, retained, human, context, polling, signals, outcome, history>>

KeepReadiness ==
  /\ At("issue") /\ ~expired
  /\ retained' = retained \cup {<<"readiness", ordinal>>}
  /\ Goto("registering")
  /\ UNCHANGED <<episodeVars, claimed, human, context, polling, signals, outcome, history>>

EndIssue ==
  /\ At("registering") /\ Admits
  /\ issued' = [issued EXCEPT ![ordinal] = @ + 1]
  /\ main' = [main EXCEPT !.started = TRUE, !.pc = IF stopped THEN "drain" ELSE "challenge"]
  /\ UNCHANGED <<episodeVars, journal, human, context, polling, signals, outcome, told, runs>>

(* A frame is written in a second or fails; the decision of the agent is   *)
(* awaited for a bounded time, and not after a stop.                       *)
WriteChallenge ==
  /\ At("challenge")
  /\ Goto("reading")
  /\ UNCHANGED <<episodeVars, journal, human, context, polling, signals, outcome, history>>

ReadDecision ==
  /\ At("reading") /\ ~stopped
  /\ Goto("deciding")
  /\ UNCHANGED <<episodeVars, journal, human, context, polling, signals, outcome, history>>

(* submitDecisionBytesV1 at work, and its answer. *)
Decide ==
  /\ At("deciding")
  /\ Reserve(ordinal) \/ StartSigning(ordinal) \/ KeepSigned(ordinal)
  /\ UNCHANGED <<journal, main, human, context, polling, signals, outcome, history>>

EndDecision ==
  /\ At("deciding") /\ leg[ordinal] \in {"refused", "signed"}
  /\ Goto("answer")
  /\ UNCHANGED <<episodeVars, journal, human, context, polling, signals, outcome, history>>

(* Mutant: a stop that came while the answer was written is not seen. *)
AnswerAnyway ==
  /\ At("answer")
  /\ Unless(leg[ordinal] = "refused", "submitting")
  /\ UNCHANGED <<episodeVars, journal, human, context, polling, expired, closing, outcome, history>>

Answer ==
  /\ At("answer")
  /\ Unless(stopped \/ leg[ordinal] = "refused", "submitting")
  /\ UNCHANGED <<episodeVars, journal, human, context, polling, expired, closing, outcome, history>>

(* submitRetainedIntentV1: only a finalized success goes on. *)
Submit ==
  /\ At("submitting") /\ Release(ordinal)
  /\ UNCHANGED <<journal, main, human, context, polling, signals, outcome, history>>

EndSubmit ==
  /\ At("submitting")
  /\ \/ leg[ordinal] = "released" /\ Goto("finalizing") /\ UNCHANGED stopped
     \/ Leave
  /\ UNCHANGED <<episodeVars, journal, human, context, polling, expired, closing, outcome, history>>

(* finalizeRetainedIntentV1: the source of the leg is claimed, captured    *)
(* and kept, then the leg is closed.                                       *)
ClaimSource(from, to) ==
  /\ At(from)
  /\ <<"source", ordinal>> \notin claimed
  /\ claimed' = claimed \cup {<<"source", ordinal>>}
  /\ Goto(to)
  /\ UNCHANGED <<episodeVars, retained, human, context, polling, signals, outcome, history>>

KeepSource(from, to) ==
  /\ At(from) /\ ~expired
  /\ retained' = retained \cup {<<"source", ordinal>>}
  /\ Goto(to)
  /\ UNCHANGED <<episodeVars, claimed, human, context, polling, signals, outcome, history>>

Settle ==
  /\ At("settling") /\ SettleLeg(ordinal)
  /\ UNCHANGED <<journal, main, human, context, polling, signals, outcome, history>>

EndFinalize ==
  /\ At("settling") /\ leg[ordinal] = "settled"
  /\ Goto("context")
  /\ UNCHANGED <<episodeVars, journal, human, context, polling, signals, outcome, history>>

(* A call, a read or a write of the main routine throws, or the loop is    *)
(* left at its top because the episode was stopped.                        *)
Fail ==
  /\ main.pc \in CallPcs \cup {"top", "challenge", "reading", "answer"}
  /\ Leave
  /\ UNCHANGED <<episodeVars, journal, human, context, polling, expired, closing, outcome, history>>

-----------------------------------------------------------------------------
(* finally: one turn of the event loop for an envelope already delivered,  *)
(* then the human input is closed, the human task and the poll end, and    *)
(* the package is published.                                               *)
CloseHuman ==
  /\ At("drain")
  /\ closing' = TRUE
  /\ Goto("awaitHuman")
  /\ UNCHANGED <<episodeVars, journal, human, context, polling, stopped, expired, outcome, history>>

AwaitHuman ==
  /\ At("awaitHuman") /\ human = "done"
  /\ polling' = FALSE
  /\ Goto("awaitContext")
  /\ UNCHANGED <<episodeVars, journal, human, context, signals, outcome, history>>

AwaitContext ==
  /\ At("awaitContext") /\ context # "poll"
  /\ Goto(IF main.started /\ ~expired THEN "capture" ELSE "result")
  /\ UNCHANGED <<episodeVars, journal, human, context, polling, signals, outcome, history>>

(* captureRetainedOutcomeSourceV1: a source kept by the finalization is    *)
(* used; otherwise the leg must have been captured, and its source phase   *)
(* not yet be claimed.                                                     *)
UseSource ==
  /\ At("capture") /\ <<"source", ordinal>> \in retained
  /\ Goto("publish")
  /\ UNCHANGED <<episodeVars, journal, human, context, polling, signals, outcome, history>>

CaptureOutcome ==
  /\ <<"source", ordinal>> \notin retained
  /\ <<"readiness", ordinal>> \in retained
  /\ ClaimSource("capture", "outcome")

(* publish: the exporter wants the evidence of a recorded revocation.      *)
Publish ==
  /\ At("publish") /\ <<"source", ordinal>> \in retained
  /\ revoked <=> Revocation \in retained
  /\ package' = <<leg, revoked>>
  /\ Goto("result")
  /\ UNCHANGED <<episodeVars, journal, human, context, polling, signals, result, history>>

FailExport ==
  /\ main.pc \in ExportPcs
  /\ Goto("result")
  /\ UNCHANGED <<episodeVars, journal, human, context, polling, signals, outcome, history>>

WriteResult ==
  /\ At("result")
  /\ result' = <<IF ~expired /\ main.closed THEN "EPISODE_CLOSED" ELSE "STOPPED",
                 IF package = Unset THEN "INCOMPLETE_PRESERVE_PRIVATE_ROOT" ELSE "DURABLE_PACKAGE">>
  /\ Goto("done")
  /\ UNCHANGED <<episodeVars, journal, human, context, polling, signals, package, history>>

LoseResult ==
  /\ At("result")
  /\ Goto("done")
  /\ UNCHANGED <<episodeVars, journal, human, context, polling, signals, outcome, history>>

-----------------------------------------------------------------------------
(* The human task *)
HumanGoto(pc) == human' = pc /\ UNCHANGED <<claimed, main, context, polling, expired, closing, outcome, issued, runs>>

(* An error of the human task stops the episode; nothing is answered when  *)
(* the human input was closed.                                             *)
NotAcknowledging ==
  IF closing THEN HumanGoto("done") /\ UNCHANGED stopped
             ELSE HumanGoto("nacking") /\ stopped' = TRUE

ReadEnvelope ==
  /\ human = "reading" /\ ~closing
  /\ HumanGoto("revoking")
  /\ UNCHANGED <<episodeVars, retained, stopped, told>>

(* Mutant: a read that is under way does not notice that it is aborted. *)
LoseOpenEnvelope ==
  /\ human = "reading" /\ ~closing
  /\ NotAcknowledging
  /\ UNCHANGED <<episodeVars, retained, told>>

LoseEnvelope ==
  /\ human = "reading"
  /\ NotAcknowledging
  /\ UNCHANGED <<episodeVars, retained, told>>

(* revokeAuthenticatedBytesV1: committed, or found committed, then kept. *)
Revoke ==
  /\ human = "revoking"
  /\ RevokeEpisode \/ (revoked /\ UNCHANGED episodeVars)
  /\ HumanGoto("retaining")
  /\ UNCHANGED <<retained, stopped, told>>

KeepRevocation ==
  /\ human = "retaining"
  /\ retained' = retained \cup {Revocation}
  /\ stopped' = TRUE
  /\ HumanGoto("acking")
  /\ UNCHANGED <<episodeVars, told>>

(* Mutant: the result of a revocation is not examined. *)
AcknowledgeAnyway ==
  /\ human \in {"revoking", "retaining"}
  /\ HumanGoto("acking") /\ stopped' = TRUE
  /\ UNCHANGED <<episodeVars, retained, told>>

FailRevocation ==
  /\ human \in {"revoking", "retaining"}
  /\ NotAcknowledging
  /\ UNCHANGED <<episodeVars, retained, told>>

Acknowledge ==
  /\ human = "acking"
  /\ told' = told \cup {"REVOCATION_DURABLE"}
  /\ HumanGoto("done")
  /\ UNCHANGED <<episodeVars, retained, stopped>>

(* The frame may have been read although its write failed. *)
FailAcknowledge ==
  /\ human = "acking"
  /\ told' \in {told, told \cup {"REVOCATION_DURABLE"}}
  /\ NotAcknowledging
  /\ UNCHANGED <<episodeVars, retained>>

NotAcknowledge ==
  /\ human = "nacking"
  /\ told' \in {told, told \cup {"NOT_ACKNOWLEDGED"}}
  /\ HumanGoto("done")
  /\ UNCHANGED <<episodeVars, retained, stopped>>

-----------------------------------------------------------------------------
(* The timer of the episode, cleared before the result is written. *)
Expire ==
  /\ main.pc \notin {"result", "done"} /\ ~expired
  /\ expired' = TRUE /\ stopped' = TRUE /\ closing' = TRUE
  /\ UNCHANGED <<episodeVars, journal, main, human, context, polling, outcome, history>>

(* The worker ends, at any point, and is started again. *)
Restart ==
  /\ runs < MaxRuns
  /\ runs' = runs + 1
  /\ main' = Started /\ human' = "reading" /\ context' = "free" /\ polling' = TRUE
  /\ stopped' = FALSE /\ expired' = FALSE /\ closing' = FALSE
  /\ package' = Unset /\ result' = Unset
  /\ UNCHANGED <<episodeVars, journal, told, issued>>

MainStep ==
  \/ BeginContext \/ SkipContext \/ EndContext \/ FailContext
  \/ BeginIssue \/ KeepReadiness \/ EndIssue \/ WriteChallenge \/ ReadDecision
  \/ Decide \/ EndDecision \/ Answer \/ Submit \/ EndSubmit
  \/ ClaimSource("finalizing", "sourcing") \/ KeepSource("sourcing", "settling")
  \/ Settle \/ EndFinalize \/ Fail
  \/ CloseHuman \/ AwaitHuman \/ AwaitContext
  \/ UseSource \/ CaptureOutcome \/ KeepSource("outcome", "publish")
  \/ Publish \/ FailExport \/ WriteResult \/ LoseResult

HumanStep ==
  \/ ReadEnvelope \/ LoseEnvelope \/ Revoke \/ KeepRevocation \/ FailRevocation
  \/ Acknowledge \/ FailAcknowledge \/ NotAcknowledge

FiniteNext == MainStep \/ HumanStep \/ Poll \/ EndPoll \/ Expire \/ Restart

FiniteSpec == FiniteInit /\ [][FiniteNext]_finiteVars

(* Calls settle, writes and the read of a decision have a time limit, and  *)
(* sendContext ends.  The human owes the supervisor nothing: only when the *)
(* input is closed does the read of the envelope have to end.              *)
FiniteFairSpec ==
  /\ FiniteSpec
  /\ WF_finiteVars(MainStep)
  /\ WF_finiteVars(HumanStep /\ (closing \/ human # "reading"))
  /\ WF_finiteVars(EndPoll)

-----------------------------------------------------------------------------
(* The state has the shape the code gives it. *)
FiniteTypeOK ==
  /\ leg \in [EpisodeLegs -> Phases] /\ revoked \in BOOLEAN
  /\ claimed \subseteq {"capture", "source"} \X EpisodeLegs
  /\ retained \subseteq ({"readiness", "source"} \X EpisodeLegs) \cup {Revocation}
  /\ main \in [pc : MainPcs, ordinal : EpisodeLegs, started : BOOLEAN, closed : BOOLEAN]
  /\ human \in HumanPcs /\ context \in {"free", "main", "poll"}
  /\ polling \in BOOLEAN /\ stopped \in BOOLEAN /\ expired \in BOOLEAN /\ closing \in BOOLEAN
  /\ told \subseteq {"REVOCATION_DURABLE", "NOT_ACKNOWLEDGED"}
  /\ issued \in [EpisodeLegs -> Nat] /\ runs \in Nat

(* A human who is told that the revocation is durable has it recorded in   *)
(* the authority and kept in the journal, also after a restart.            *)
AcknowledgedIsDurable ==
  "REVOCATION_DURABLE" \in told => revoked /\ Revocation \in retained

(* The published package shows the state in which this run leaves the      *)
(* episode: nothing happens to it afterwards, whatever the human, the poll *)
(* and the timer do.                                                       *)
PackageIsFinal == package # Unset => package = <<leg, revoked>>

(* Nothing is signed, sent or closed unasked after a stop: the call that   *)
(* is under way may go on, a released leg may be closed, and no new        *)
(* challenge, decision or submission begins, in the run that was stopped.  *)
NothingStartsAfterStop ==
  [][stopped /\ stopped' /\ main' # main =>
       main'.pc \notin {"issue", "deciding", "submitting"}]_finiteVars

(* A leg is offered to the agent at most once, however often the worker is *)
(* started again.                                                          *)
OneChallenge == \A l \in EpisodeLegs : issued[l] <= 1

(* The supervisor reports a closed episode only when both legs are settled. *)
ClosedMeansSettled ==
  result # Unset /\ result[1] = "EPISODE_CLOSED" => \A l \in EpisodeLegs : leg[l] = "settled"

(* What the supervisor says to the human, puts in the package for the      *)
(* custodian and reports at its end is so, and stays so.                   *)
ReportsAreTrue == AcknowledgedIsDurable /\ PackageIsFinal /\ ClosedMeansSettled

(* The last run of the worker ends, whether or not the human, the agent or *)
(* the chain ever answers.                                                 *)
EpisodeEnds == <>[](At("done"))
=============================================================================
