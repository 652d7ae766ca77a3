---------------------------- MODULE TrustedRuntime ----------------------------
(***************************************************************************)
(* The trusted runtime processes that drive one decision authority:        *)
(* wiggles-trusted-runtime-v1.mjs with the authenticated control plane,    *)
(* the executor core, the signing composition and the submission it        *)
(* composes.  A runtime is one process; its state is lost when it crashes. *)
(* Each runtime serves one call of the agent, supervisor or trusted        *)
(* interface at a time and, concurrently, one revocation.  A step runs     *)
(* from one await to the next: whatever it read before may be stale when   *)
(* it commits.                                                             *)
(*                                                                         *)
(* Simplifications: a call may fail at any await (Abandon), which stands   *)
(* for every transport, freshness, budget and I/O failure; the rebroadcast *)
(* schedule and its evidence journal are reduced to its sends and to the   *)
(* terminal evidence it leaves.                                            *)
(***************************************************************************)
EXTENDS AuthorityReopen

CONSTANTS
  Runtimes,      \* processes that may open the authority
  MaxSends,      \* POLICY.maxClientSendAttempts of the rebroadcast
  MaxCrashes     \* bound on crashes, for model checking

ASSUME Limits == MaxSends \in Nat \ {0} /\ MaxCrashes \in Nat

VARIABLES
  up,            \* which runtimes have the authority open
  call,          \* the call each runtime is serving
  revoking,      \* the revocation each runtime is serving
  wires,         \* durable signed wire file of each leg, created exclusively
  terminal,      \* durable finalized-success evidence of each leg
  crashes,
  \* what happened in the world, read by no action:
  signatures,    \* how often the wallet key signed each leg
  sent,          \* how often the bytes of each leg were handed to the transport
  sentRevoked,   \* sends that began after a revocation was recorded
  acknowledged,  \* the signed intents returned to the agent, by leg
  told           \* results returned to the human

process == <<up, call, revoking>>
world   == <<signatures, sent, sentRevoked, acknowledged, told>>
runtimeVars == <<vars, process, world, wires, terminal, crashes>>

(* leg, the state the call read, the admission, plan and wire it holds,    *)
(* the sends it made, and the leg whose decision this runtime completed    *)
NoCall == [pc |-> "idle", leg |-> 0, seen |-> None, admission |-> None, plan |-> None,
           wire |-> None, sends |-> 0, decided |-> 0]
NoRevocation == [pc |-> "idle", seen |-> None, id |-> None]

At(r, pc) == up[r] /\ call[r].pc = pc
Becomes(r, changed) == call' = [call EXCEPT ![r] = changed]
Goto(r, pc) == Becomes(r, [call[r] EXCEPT !.pc = pc])
Done(r) == Becomes(r, [NoCall EXCEPT !.decided = call[r].decided])

RuntimeInit ==
  /\ Init
  /\ up = [r \in Runtimes |-> TRUE]
  /\ call = [r \in Runtimes |-> NoCall]
  /\ revoking = [r \in Runtimes |-> NoRevocation]
  /\ wires = [i \in Legs |-> None]
  /\ terminal = [i \in Legs |-> FALSE]
  /\ crashes = 0
  /\ signatures = [i \in Legs |-> 0]
  /\ sent = [i \in Legs |-> 0]
  /\ sentRevoked = [i \in Legs |-> 0]
  /\ acknowledged = [i \in Legs |-> None]
  /\ told = {}

-----------------------------------------------------------------------------
(* issueReadinessChallengeV1: the state is read, a capture of the chain is *)
(* awaited, and the challenge is registered for the state that was read.   *)
BeginIssue(r) ==
  /\ At(r, "idle")
  /\ state.name \in {"AUTHORIZED_DORMANT", "ACQUISITION_EVIDENCE_CLOSED"}
  /\ Becomes(r, [call[r] EXCEPT !.pc = "register", !.seen = state])
  /\ UNCHANGED <<vars, up, revoking, world, wires, terminal, crashes>>

EndIssue(r) ==
  /\ At(r, "register")
  /\ state = call[r].seen
  /\ Register
  /\ Done(r)
  /\ UNCHANGED <<up, revoking, world, wires, terminal, crashes>>

-----------------------------------------------------------------------------
(* submitDecisionBytesV1: executeAuthenticatedDecisionBytesV1 reads the    *)
(* state and the challenge, then executeAgentDecisionV1 runs to the end.   *)
BeginDecision(r) ==
  /\ At(r, "idle")
  /\ \E d \in Decisions, row \in challenges :
       /\ row.predecessor = state
       /\ Becomes(r, [call[r] EXCEPT !.pc = "consume", !.seen = state,
                                     !.leg = state.next, !.admission = Consumption(d, row.id)])
  /\ UNCHANGED <<vars, up, revoking, world, wires, terminal, crashes>>

(* Mutant: the executor prepares a leg for a decision the agent refused. *)
ConsumeAndPrepare(r) ==
  LET a == call[r].admission IN
  /\ At(r, "consume")
  /\ \E refused \in BOOLEAN :
       ConsumeEpisodeOrdinal(
         Reservation(call[r].leg, call[r].seen, a.decision, a.challenge, refused))
  /\ Goto(r, "prepare")
  /\ UNCHANGED <<up, revoking, world, wires, terminal, crashes>>

(* Only CONSUMED continues; a refused decision is consumed and returned. *)
ConsumeDecision(r) ==
  LET a == call[r].admission IN
  /\ At(r, "consume")
  /\ \E refused \in BOOLEAN :
       /\ ConsumeEpisodeOrdinal(
            Reservation(call[r].leg, call[r].seen, a.decision, a.challenge, refused))
       /\ IF refused THEN Done(r) ELSE Goto(r, "prepare")
  /\ UNCHANGED <<up, revoking, world, wires, terminal, crashes>>

PreparePlan(r) ==
  /\ At(r, "prepare")
  /\ \E p \in Plans :
       /\ RecordPrepared(call[r].leg, call[r].admission, p)
       /\ Becomes(r, [call[r] EXCEPT !.pc = "loadKey", !.plan = p])
  /\ UNCHANGED <<up, revoking, world, wires, terminal, crashes>>

StartKeyLoad(r) ==
  /\ At(r, "loadKey")
  /\ RecordKeyLoadStarted(call[r].leg, call[r].admission, call[r].plan)
  /\ Goto(r, "inspect")
  /\ UNCHANGED <<up, revoking, world, wires, terminal, crashes>>

(* The checkpoint is inspected twice: by signAdmittedTransactionV1, and by *)
(* signExactMessageV1 once the key is in memory.                           *)
InspectCheckpoint(r) ==
  /\ At(r, "inspect") \/ At(r, "reinspect")
  /\ ~Revoked
  /\ ordinals[call[r].leg].stage = "KEY_LOAD_STARTED_AMBIGUOUS"
  /\ ordinals[call[r].leg].admission = call[r].admission
  /\ Goto(r, IF call[r].pc = "inspect" THEN "reinspect" ELSE "sign")
  /\ UNCHANGED <<vars, up, revoking, world, wires, terminal, crashes>>

(* The signature; a signed intent binds its leg, so it is not another's. *)
SignMessage(r) ==
  /\ At(r, "sign")
  /\ \E w \in Intents :
       /\ \A i \in Legs : wires[i] # w
       /\ Becomes(r, [call[r] EXCEPT !.pc = "retain", !.wire = w])
  /\ signatures' = [signatures EXCEPT ![call[r].leg] = @ + 1]
  /\ UNCHANGED <<vars, up, revoking, sent, sentRevoked, acknowledged, told,
                 wires, terminal, crashes>>

(* Mutant: a signature whose retention failed is made again. *)
RetainOrSignAgain(r) ==
  /\ At(r, "retain")
  /\ \/ /\ wires[call[r].leg] = None
        /\ wires' = [wires EXCEPT ![call[r].leg] = call[r].wire]
        /\ Goto(r, "durable")
     \/ UNCHANGED wires /\ Goto(r, "sign")
  /\ UNCHANGED <<vars, up, revoking, world, terminal, crashes>>

(* retainExactSignedWireV1 creates the one wire file of the leg. *)
RetainWire(r) ==
  /\ At(r, "retain")
  /\ wires[call[r].leg] = None
  /\ wires' = [wires EXCEPT ![call[r].leg] = call[r].wire]
  /\ Goto(r, "durable")
  /\ UNCHANGED <<vars, up, revoking, world, terminal, crashes>>

(* recordSignedIntentDurableV1; after a revocation the bytes are retained  *)
(* and the call fails.                                                     *)
MakeIntentDurable(r) ==
  /\ At(r, "durable")
  /\ wires[call[r].leg] = call[r].wire
  /\ RecordSignedIntentDurable(call[r].leg, call[r].admission, call[r].plan, call[r].wire)
  /\ IF Revoked THEN Done(r) ELSE Goto(r, "reload")
  /\ UNCHANGED <<up, revoking, world, wires, terminal, crashes>>

ReloadState(r) ==
  /\ At(r, "reload")
  /\ Becomes(r, [call[r] EXCEPT !.pc = "persist", !.seen = state])
  /\ UNCHANGED <<vars, up, revoking, world, wires, terminal, crashes>>

(* persistSignedSuccessor, and the result returned to the agent *)
PersistSignedSuccessor(r) ==
  /\ At(r, "persist")
  /\ RecordSignedEpisodeState(call[r].leg, call[r].seen, call[r].wire)
  /\ Becomes(r, [NoCall EXCEPT !.decided = call[r].leg])
  /\ acknowledged' = [acknowledged EXCEPT ![call[r].leg] = call[r].wire]
  /\ UNCHANGED <<up, revoking, signatures, sent, sentRevoked, told, wires, terminal, crashes>>

-----------------------------------------------------------------------------
(* submitRetainedIntentV1(i).  inputFor accepts the row whatever the state *)
(* of the episode is; a row already past SIGNED_INTENT_DURABLE is answered *)
(* from the retained evidence and never sent again.                        *)
BeginSubmission(r, i) ==
  /\ At(r, "idle")
  /\ SubmitAfterDecision => call[r].decided = i
  /\ ordinals[i].stage = "SIGNED_INTENT_DURABLE"
  /\ Becomes(r, [call[r] EXCEPT !.pc = "elect", !.leg = i, !.wire = ordinals[i].intent])
  /\ UNCHANGED <<vars, up, revoking, world, wires, terminal, crashes>>

ElectOwner(r) ==
  /\ At(r, "elect")
  /\ RecordSubmissionPossible(call[r].leg, call[r].wire)
  /\ Goto(r, "schedule")
  /\ UNCHANGED <<up, revoking, world, wires, terminal, crashes>>

(* Mutant: the check before a send looks only at the budget. *)
CheckBudgetOnly(r) ==
  /\ At(r, "schedule")
  /\ call[r].sends < MaxSends
  /\ Becomes(r, [call[r] EXCEPT !.pc = "dispatch", !.sends = @ + 1])
  /\ UNCHANGED <<vars, up, revoking, world, wires, terminal, crashes>>

(* boundedTransport: the revocation and the send budget are checked, then  *)
(* the effect is awaited.                                                  *)
CheckSend(r) ==
  /\ At(r, "schedule")
  /\ ~Revoked
  /\ call[r].sends < MaxSends
  /\ Becomes(r, [call[r] EXCEPT !.pc = "dispatch", !.sends = @ + 1])
  /\ UNCHANGED <<vars, up, revoking, world, wires, terminal, crashes>>

Dispatch(r) ==
  /\ At(r, "dispatch")
  /\ sent' = [sent EXCEPT ![call[r].leg] = @ + 1]
  /\ sentRevoked' = [sentRevoked EXCEPT ![call[r].leg] = IF Revoked THEN @ + 1 ELSE @]
  /\ Goto(r, "schedule")
  /\ UNCHANGED <<vars, up, revoking, signatures, acknowledged, told, wires, terminal, crashes>>

(* The schedule resolves to FINALIZED_SUCCESS and closes its evidence. *)
ResolveSubmission(r) ==
  /\ At(r, "schedule")
  /\ call[r].sends > 0
  /\ terminal' = [terminal EXCEPT ![call[r].leg] = TRUE]
  /\ Done(r)
  /\ UNCHANGED <<vars, up, revoking, world, wires, crashes>>

-----------------------------------------------------------------------------
(* finalizeRetainedIntentV1(i): closeTrustedTerminalSourceV1 awaits the    *)
(* economic source between reading the state and closing the leg.          *)
BeginFinalization(r, i) ==
  /\ At(r, "idle")
  /\ ordinals[i].stage \in Retained \ {"FINALIZED"}
  /\ terminal[i]
  /\ Becomes(r, [call[r] EXCEPT !.pc = "close", !.leg = i, !.wire = ordinals[i].intent])
  /\ UNCHANGED <<vars, up, revoking, world, wires, terminal, crashes>>

CloseLeg(r) ==
  /\ At(r, "close")
  /\ \E e \in Evidence : IF call[r].leg = 1 THEN CloseAcquisition(call[r].wire, e)
                                            ELSE RecordFinalized(call[r].wire, e)
  /\ Done(r)
  /\ UNCHANGED <<up, revoking, world, wires, terminal, crashes>>

-----------------------------------------------------------------------------
(* revokeAuthenticatedBytesV1: the state is read and validated against the *)
(* signed revocation, then the revocation is committed for that state.     *)
BeginRevocation(r, v) ==
  /\ up[r]
  /\ revoking[r].pc = "idle"
  /\ ~Revoked
  /\ CanRevoke(state)
  /\ revoking' = [revoking EXCEPT ![r] = [pc |-> "commit", seen |-> state, id |-> v]]
  /\ UNCHANGED <<vars, up, call, world, wires, terminal, crashes>>

CommitRevocation(r) ==
  LET request == RevocationOf(revoking[r].id, revoking[r].seen)
      outcome == RevokeOutcome(request)
  IN /\ up[r]
     /\ revoking[r].pc = "commit"
     /\ IF outcome \in RevocationResults
        THEN /\ RevokeAuthorization(request)
             /\ told' = told \cup {[result |-> outcome, before |-> revoking[r].seen.name]}
        ELSE UNCHANGED <<vars, told>>
     /\ revoking' = [revoking EXCEPT ![r] = NoRevocation]
     /\ UNCHANGED <<up, call, signatures, sent, sentRevoked, acknowledged,
                    wires, terminal, crashes>>

-----------------------------------------------------------------------------
(* A call fails at an await; a prepared plan, the loaded key and a held    *)
(* signature are gone with it.                                             *)
Abandon(r) ==
  /\ up[r]
  /\ call[r].pc # "idle"
  /\ Done(r)
  /\ UNCHANGED <<vars, up, revoking, world, wires, terminal, crashes>>

Crash(r) ==
  /\ up[r]
  /\ crashes < MaxCrashes
  /\ crashes' = crashes + 1
  /\ up' = [up EXCEPT ![r] = FALSE]
  /\ call' = [call EXCEPT ![r] = NoCall]
  /\ revoking' = [revoking EXCEPT ![r] = NoRevocation]
  /\ UNCHANGED <<vars, world, wires, terminal>>

(* createCrashDurableDecisionAuthorityV1 *)
Open(r) ==
  /\ ~up[r]
  /\ ReopenAdmits
  /\ up' = [up EXCEPT ![r] = TRUE]
  /\ UNCHANGED <<vars, call, revoking, world, wires, terminal, crashes>>

RuntimeStep(r) ==
  \/ BeginIssue(r) \/ EndIssue(r)
  \/ BeginDecision(r) \/ ConsumeDecision(r) \/ PreparePlan(r) \/ StartKeyLoad(r)
  \/ InspectCheckpoint(r) \/ SignMessage(r) \/ RetainWire(r) \/ MakeIntentDurable(r)
  \/ ReloadState(r) \/ PersistSignedSuccessor(r)
  \/ (\E i \in Legs : BeginSubmission(r, i) \/ BeginFinalization(r, i))
  \/ ElectOwner(r) \/ CheckSend(r) \/ Dispatch(r) \/ ResolveSubmission(r) \/ CloseLeg(r)
  \/ (\E v \in Revocations : BeginRevocation(r, v)) \/ CommitRevocation(r)
  \/ Abandon(r) \/ Crash(r) \/ Open(r)

RuntimeNext == \E r \in Runtimes : RuntimeStep(r)

RuntimeSpec == RuntimeInit /\ [][RuntimeNext]_runtimeVars

-----------------------------------------------------------------------------
(* Properties *)

(* No leg is ever signed twice, whichever processes crash, restart or race *)
(* for it: a lost signature is not replaced by a second one.               *)
SignedAtMostOnce == \A i \in Legs : signatures[i] <= 1

(* Bytes reach the transport only after SUBMISSION_POSSIBLE is durable, so *)
(* a restart never mistakes sent bytes for unsent ones; the budget of      *)
(* sends holds over all processes and restarts together; and after a       *)
(* revocation at most the one send whose check had already passed happens. *)
SendsAreBounded ==
  \A i \in Legs : /\ sent[i] > 0 => ordinals[i].stage \in {"SUBMISSION_POSSIBLE", "FINALIZED"}
                  /\ sent[i] <= MaxSends
                  /\ sentRevoked[i] <= 1

(* A human who was told REVOKED before a leg was signed can rely on it: no *)
(* signature of that leg exists anywhere, and none will.  An agent that    *)
(* was answered with a signed intent finds the episode tracking exactly    *)
(* that intent until the leg is settled.                                   *)
AnswersCanBeReliedOn ==
  /\ \A t \in told : t.result = "REVOKED" =>
       /\ t.before = "ACQUISITION_ADMITTED" => signatures[1] = 0
       /\ t.before \in {"AUTHORIZED_DORMANT"} => signatures = [i \in Legs |-> 0]
       /\ t.before \in {"ACQUISITION_EVIDENCE_CLOSED", "DISPOSAL_ADMITTED"} => signatures[2] = 0
  /\ \A i \in Legs : acknowledged[i] # None =>
       /\ ordinals[i].intent = acknowledged[i]
       /\ ordinals[i].stage # "FINALIZED" => state.possible /\ state.intent = acknowledged[i]

(* The processes reach the authority only through its operations, and in   *)
(* the order its callers' contract requires.                               *)
AuthorityAsSpecified == Spec
=============================================================================
