-------------------------- MODULE DecisionAuthority --------------------------
(***************************************************************************)
(* The crash-durable decision authority of one bounded-agent episode:      *)
(* sqlite-decision-authority-v1.mjs.  Its variables are the tables of the  *)
(* database; every operation is one BEGIN IMMEDIATE transaction, so it is  *)
(* one action, and a crash between two operations loses nothing.           *)
(*                                                                         *)
(* An operation that returns a refusal or throws rolls back and changes    *)
(* nothing: it is a stuttering step.  The operations are offered to any    *)
(* caller in any order; what the callers of the repository add to that is  *)
(* in the last section and the constant SubmitAfterDecision.                *)
(***************************************************************************)
EXTENDS EpisodeStates, FiniteSets

CONSTANTS
  Decisions,            \* identities of authenticated agent decisions
  Challenges,           \* identities of readiness challenges
  Plans,                \* digests of prepared transactions
  Intents,              \* digests of signed intents, with their wire bytes
  Evidence,             \* digests of finalized economic evidence
  Revocations,          \* digests of authenticated human revocations
  SubmitAfterDecision   \* TRUE: a leg is submitted only after its decision
                        \* returned, as the finite supervisor does

ASSUME NoneIsNoValue ==
  None \notin Decisions \cup Challenges \cup Plans \cup Intents \cup Evidence \cup Revocations

ASSUME CallerDiscipline == SubmitAfterDecision \in BOOLEAN

VARIABLES
  state,         \* episode_states: the one current typed state
  challenges,    \* readiness_challenges
  ordinals,      \* ordinals: the row of each leg; stage "NONE" when absent
  revocations    \* revocations: at most one row

vars == <<state, challenges, ordinals, revocations>>

Legs == {1, 2}         \* ordinal 1 is the acquisition, ordinal 2 the disposal

Signable == {"RESERVED", "PREPARED", "KEY_LOAD_STARTED_AMBIGUOUS", "SIGNED_INTENT_DURABLE"}
Retained == {"SIGNED_INTENT_DURABLE", "SUBMISSION_POSSIBLE", "FINALIZED"}
Stages   == {"NONE", "SUBMISSION_POSSIBLE", "FINALIZED"} \cup Signable

NoRow == [stage |-> "NONE", predecessor |-> None, successor |-> None, admission |-> None,
          plan |-> None, intent |-> None, evidence |-> None]

Inserted == {i \in Legs : ordinals[i].stage # "NONE"}
Revoked  == revocations # {}

AcquisitionNames ==
  {"ACQUISITION_ADMITTED", "ACQUISITION_EVIDENCE_CLOSED", "ACQUISITION_SUBMISSION_RESOLVING"}
DisposalNames ==
  {"DISPOSAL_ADMITTED", "DISPOSAL_EVIDENCE_CLOSED", "DISPOSAL_SUBMISSION_RESOLVING"}

-----------------------------------------------------------------------------
(* provisionCrashDurableDecisionAuthorityV1 *)
Init ==
  /\ state = AuthorizedDormant
  /\ challenges = {}
  /\ ordinals = [i \in Legs |-> NoRow]
  /\ revocations = {}

(* registerReadinessChallengeV1.  The identity of a challenge is the hash  *)
(* of its content, which binds the state it was issued for.                *)
RegisterReadinessChallenge(c) ==
  /\ state.name \in {"AUTHORIZED_DORMANT", "ACQUISITION_EVIDENCE_CLOSED"}
  /\ \A row \in challenges : row.id # c
  /\ challenges' = challenges \cup {[id |-> c, predecessor |-> state]}
  /\ UNCHANGED <<state, ordinals, revocations>>

-----------------------------------------------------------------------------
(* consumeEpisodeOrdinalV1(r): the checks, in the order the code makes     *)
(* them, and the insertion of the row with the new current state.          *)

Reservation(i, p, d, c, refused) ==
  [ordinal |-> i, predecessor |-> p, admission |-> Consumption(d, c),
   successor |-> DecisionSuccessor(p, d, c, refused)]

ExactReplay(i, r) ==
  /\ i = r.ordinal
  /\ ordinals[i].predecessor = r.predecessor
  /\ ordinals[i].successor = r.successor
  /\ ordinals[i].admission = r.admission

SharesIdentity(i, r) ==
  /\ i \in Inserted
  /\ \/ ordinals[i].admission.decision = r.admission.decision
     \/ ordinals[i].admission.challenge = r.admission.challenge

ConsumeOutcome(r) ==
  LET replayed == {i \in Legs : (i \in Inserted /\ i = r.ordinal) \/ SharesIdentity(i, r)}
      required == IF r.ordinal = 1 THEN "AUTHORIZED_DORMANT" ELSE "ACQUISITION_EVIDENCE_CLOSED"
      typed    == IF r.ordinal = 1 THEN {"ACQUISITION_ADMITTED", "AGENT_REFUSED_ACQUISITION"}
                                   ELSE {"DISPOSAL_ADMITTED", "AGENT_REFUSED_DISPOSAL"}
  IN IF replayed # {}
       THEN IF \E i \in replayed : ExactReplay(i, r) THEN "ALREADY_CONSUMED" ELSE "CONFLICT"
     ELSE IF state # r.predecessor \/ state.name # required THEN "STATE_MISMATCH"
     ELSE IF r.successor.name \notin typed \/ ~ValidState(r.successor) THEN "INVALID"
     ELSE IF [id |-> r.admission.challenge, predecessor |-> state] \notin challenges
       THEN "CHALLENGE_NOT_ISSUED"
     ELSE IF Revoked THEN "REVOKED"
     ELSE IF r.ordinal = 2 /\ ~(/\ ordinals[1].stage = "FINALIZED"
                                /\ ordinals[1].evidence = state.acquisition)
       THEN "STATE_MISMATCH"
     ELSE "CONSUMED"

ConsumeEpisodeOrdinal(r) ==
  /\ ConsumeOutcome(r) = "CONSUMED"
  /\ ordinals' = [ordinals EXCEPT ![r.ordinal] =
       [NoRow EXCEPT !.stage = "RESERVED", !.predecessor = r.predecessor,
                     !.successor = r.successor, !.admission = r.admission]]
  /\ state' = r.successor
  /\ UNCHANGED <<challenges, revocations>>

-----------------------------------------------------------------------------
(* The execution checkpoints of an ordinal.  a is the admission and p the  *)
(* prepared transaction the caller names.                                  *)

(* Mutant: a prepared leg may be prepared again, with another plan. *)
PreparedAgain(i, a, p) ==
  /\ ordinals[i].stage \in {"RESERVED", "PREPARED"}
  /\ ordinals[i].admission = a
  /\ ordinals' = [ordinals EXCEPT ![i].stage = "PREPARED", ![i].plan = p]
  /\ UNCHANGED <<state, challenges, revocations>>

(* recordPreparedV1 *)
RecordPrepared(i, a, p) ==
  /\ ordinals[i].stage = "RESERVED"
  /\ ordinals[i].admission = a
  /\ ordinals' = [ordinals EXCEPT ![i].stage = "PREPARED", ![i].plan = p]
  /\ UNCHANGED <<state, challenges, revocations>>

(* recordKeyLoadStartedV1: the last operation a revocation can prevent     *)
(* before a signature may exist.                                           *)
RecordKeyLoadStarted(i, a, p) ==
  /\ ~Revoked
  /\ ordinals[i].stage = "PREPARED"
  /\ ordinals[i].admission = a
  /\ ordinals[i].plan = p
  /\ ordinals' = [ordinals EXCEPT ![i].stage = "KEY_LOAD_STARTED_AMBIGUOUS"]
  /\ UNCHANGED <<state, challenges, revocations>>

(* recordSignedIntentDurableV1: the bytes are kept even when a revocation  *)
(* came after the key was loaded; the state then becomes the revoked one.  *)
RecordSignedIntentDurable(i, a, p, w) ==
  /\ ordinals[i].stage = "KEY_LOAD_STARTED_AMBIGUOUS"
  /\ ordinals[i].admission = a
  /\ ordinals[i].plan = p
  /\ Revoked => CanRecordSignedIntent(state)
  /\ ordinals' = [ordinals EXCEPT ![i].stage = "SIGNED_INTENT_DURABLE", ![i].intent = w]
  /\ state' = IF Revoked THEN RevokedSuccessor(SignedSuccessor(state, w)) ELSE state
  /\ UNCHANGED <<challenges, revocations>>

(* recordSignedEpisodeStateV1: the separate transaction that moves the     *)
(* current state to *_SUBMISSION_RESOLVING; p is the state the caller read *)
RecordSignedEpisodeState(i, p, w) ==
  /\ state = p
  /\ ordinals[i].stage = "SIGNED_INTENT_DURABLE"
  /\ ordinals[i].intent = w
  /\ CanRecordSignedIntent(state)
  /\ state' = SignedSuccessor(state, w)
  /\ UNCHANGED <<challenges, ordinals, revocations>>

(* Mutant: signed bytes become submittable after a revocation. *)
SubmissionUnderRevocation(i, w) ==
  /\ ordinals[i].stage = "SIGNED_INTENT_DURABLE"
  /\ ordinals[i].intent = w
  /\ ordinals' = [ordinals EXCEPT ![i].stage = "SUBMISSION_POSSIBLE"]
  /\ UNCHANGED <<state, challenges, revocations>>

(* recordSubmissionPossibleV1: the only election of a submission owner.    *)
(* It reads the row and the revocation, not the episode state.             *)
RecordSubmissionPossible(i, w) ==
  /\ ~Revoked
  /\ ordinals[i].stage = "SIGNED_INTENT_DURABLE"
  /\ ordinals[i].intent = w
  /\ ordinals' = [ordinals EXCEPT ![i].stage = "SUBMISSION_POSSIBLE"]
  /\ UNCHANGED <<state, challenges, revocations>>

Settle(i, w, e) ==
  /\ ordinals[i].stage = "SUBMISSION_POSSIBLE"
  /\ ordinals[i].intent = w
  /\ CanCloseLeg(state, i)
  /\ ordinals' = [ordinals EXCEPT ![i].stage = "FINALIZED", ![i].evidence = e]
  /\ state' = ClosedSuccessor(state, i, e)
  /\ UNCHANGED <<challenges, revocations>>

(* closeAcquisitionFromFinalizedEvidenceV1 *)
CloseAcquisition(w, e) ==
  /\ state.name \in {"ACQUISITION_SUBMISSION_RESOLVING", "RESOLUTION_REQUIRED_AFTER_REVOCATION"}
  /\ Settle(1, w, e)

(* recordFinalizedV1, for the disposal only *)
RecordFinalized(w, e) == Settle(2, w, e)

-----------------------------------------------------------------------------
(* revokeAuthorizationV1(r), its checks in the order of the code *)

RevocationOf(v, p) == [id |-> v, predecessor |-> p, successor |-> RevokedSuccessor(p)]

ExpectedRows(s) == IF s.name = "AUTHORIZED_DORMANT" THEN {}
                   ELSE IF s.name \in AcquisitionNames THEN {1} ELSE {1, 2}

ActiveStage(s) == IF s.name \in AcquisitionNames THEN ordinals[1].stage
                  ELSE IF s.name \in DisposalNames THEN ordinals[2].stage ELSE "NONE"

StageAgrees(s) ==
  /\ s.name \in Admitted => ActiveStage(s) \in Signable
  /\ s.name = "ACQUISITION_EVIDENCE_CLOSED" => ActiveStage(s) = "FINALIZED"
  /\ s.name \in Resolving => ActiveStage(s) \in
       {"KEY_LOAD_STARTED_AMBIGUOUS", "SIGNED_INTENT_DURABLE", "SUBMISSION_POSSIBLE"}

(* Mutant: an ambiguous key load is answered like an unsigned leg. *)
RevokeOutcomeUnambiguous(r) ==
  IF Revoked THEN IF r \in revocations THEN "ALREADY_REVOKED" ELSE "CONFLICT"
  ELSE IF state # r.predecessor THEN "STATE_MISMATCH"
  ELSE IF ~CanRevoke(state) \/ r.successor # RevokedSuccessor(state) THEN "INVALID"
  ELSE IF Inserted # ExpectedRows(state) \/ ~StageAgrees(state) THEN "STATE_MISMATCH"
  ELSE IF ActiveStage(state) = "SIGNED_INTENT_DURABLE" THEN "REVOKED_SIGNED_BYTES_DURABLE"
  ELSE "REVOKED"

RevokeOutcome(r) ==
  IF Revoked THEN IF r \in revocations THEN "ALREADY_REVOKED" ELSE "CONFLICT"
  ELSE IF state # r.predecessor THEN "STATE_MISMATCH"
  ELSE IF ~CanRevoke(state) \/ r.successor # RevokedSuccessor(state) THEN "INVALID"
  ELSE IF Inserted # ExpectedRows(state) \/ ~StageAgrees(state) THEN "STATE_MISMATCH"
  ELSE IF ActiveStage(state) = "KEY_LOAD_STARTED_AMBIGUOUS"
    THEN "REVOCATION_RECORDED_SIGNING_AMBIGUOUS"
  ELSE IF ActiveStage(state) = "SIGNED_INTENT_DURABLE" THEN "REVOKED_SIGNED_BYTES_DURABLE"
  ELSE "REVOKED"

RevocationResults ==
  {"REVOCATION_RECORDED_SIGNING_AMBIGUOUS", "REVOKED_SIGNED_BYTES_DURABLE", "REVOKED"}

ActiveIntent(s) == IF s.name \in AcquisitionNames THEN ordinals[1].intent ELSE ordinals[2].intent

(* Mutants: an ambiguous key load, or durable signed bytes, are revoked as *)
(* if the leg had not been signed.                                         *)
RevokedDespiteKeyLoad(s) ==
  IF ActiveStage(s) = "SIGNED_INTENT_DURABLE"
  THEN RevokedSuccessor(IF s.name \in Resolving THEN s ELSE SignedSuccessor(s, ActiveIntent(s)))
  ELSE RevokedSuccessor(s)

RevokedDespiteBytes(s) ==
  IF ActiveStage(s) = "KEY_LOAD_STARTED_AMBIGUOUS" THEN s ELSE RevokedSuccessor(s)

(* The state a recorded revocation leaves: unchanged while a signature may *)
(* or may not exist, resolving when signed bytes are durable.              *)
StateAfterRevocation(s) ==
  CASE ActiveStage(s) = "KEY_LOAD_STARTED_AMBIGUOUS" -> s
    [] ActiveStage(s) = "SIGNED_INTENT_DURABLE" ->
         RevokedSuccessor(IF s.name \in Resolving THEN s ELSE SignedSuccessor(s, ActiveIntent(s)))
    [] OTHER -> RevokedSuccessor(s)

RevokeAuthorization(r) ==
  /\ RevokeOutcome(r) \in RevocationResults
  /\ revocations' = {r}
  /\ state' = StateAfterRevocation(state)
  /\ UNCHANGED <<challenges, ordinals>>

-----------------------------------------------------------------------------
(* What the callers in the repository add.  executeAgentDecisionV1 returns *)
(* a refusal before it prepares anything; an identity a caller names for   *)
(* another row, or a state it read too long ago, only makes the operation  *)
(* fail.                                                                   *)

Consume == \E i \in Legs, d \in Decisions, c \in Challenges, refused \in BOOLEAN :
             ConsumeEpisodeOrdinal(Reservation(i, state, d, c, refused))

Prepare == \E i \in Legs, d \in Decisions, c \in Challenges, p \in Plans :
             /\ ordinals[i].stage # "NONE" => ordinals[i].successor.name \notin Refused
             /\ RecordPrepared(i, Consumption(d, c), p)

LoadKey == \E i \in Legs, d \in Decisions, c \in Challenges, p \in Plans :
             RecordKeyLoadStarted(i, Consumption(d, c), p)

Sign == \E i \in Legs, d \in Decisions, c \in Challenges, p \in Plans, w \in Intents :
          RecordSignedIntentDurable(i, Consumption(d, c), p, w)

PersistSigned == \E i \in Legs, w \in Intents : RecordSignedEpisodeState(i, state, w)

Submit == \E i \in Legs, w \in Intents :
            /\ SubmitAfterDecision => state.name \in Resolving
            /\ RecordSubmissionPossible(i, w)

Finalize == \E w \in Intents, e \in Evidence : CloseAcquisition(w, e) \/ RecordFinalized(w, e)

Revoke == \E v \in Revocations :
            CanRevoke(state) /\ RevokeAuthorization(RevocationOf(v, state))

Register == \E c \in Challenges : RegisterReadinessChallenge(c)

Next == Register \/ Consume \/ Prepare \/ LoadKey \/ Sign \/ PersistSigned
          \/ Submit \/ Finalize \/ Revoke

Spec == Init /\ [][Next]_vars

-----------------------------------------------------------------------------
(* Properties *)

Rank(stage) ==
  CASE stage = "NONE" -> 0 [] stage = "RESERVED" -> 1 [] stage = "PREPARED" -> 2
    [] stage = "KEY_LOAD_STARTED_AMBIGUOUS" -> 3 [] stage = "SIGNED_INTENT_DURABLE" -> 4
    [] stage = "SUBMISSION_POSSIBLE" -> 5 [] stage = "FINALIZED" -> 6

Nullable(S) == S \cup {None}
Consumptions == [decision : Decisions, challenge : Challenges]
States == [name : StateNames, next : 0..2, possible : BOOLEAN, revoked : BOOLEAN,
           consumed : Seq(Consumptions), intent : Nullable(Intents),
           acquisition : Nullable(Evidence), disposal : Nullable(Evidence)]
Rows == [stage : Stages, predecessor : Nullable(States), successor : Nullable(States),
         admission : Nullable(Consumptions), plan : Nullable(Plans),
         intent : Nullable(Intents), evidence : Nullable(Evidence)]

(* Every table holds values of its columns' types. *)
TypeOK ==
  /\ state \in States
  /\ challenges \subseteq [id : Challenges, predecessor : States]
  /\ ordinals \in [Legs -> Rows]
  /\ revocations \subseteq [id : Revocations, predecessor : States, successor : States]

(* A disposal is reserved only on top of a settled acquisition, and the    *)
(* evidence it starts from stays the evidence that settled the acquisition *)
(* in the row and in the current state (chain-derived quantity).           *)
DisposalRestsOnSettledAcquisition ==
  2 \in Inserted =>
    /\ ordinals[1].stage = "FINALIZED"
    /\ ordinals[1].evidence # None
    /\ ordinals[2].predecessor.acquisition = ordinals[1].evidence
    /\ state.acquisition = ordinals[1].evidence

(* The state always says what the revocation did: it is revoked as soon as *)
(* a revocation is recorded, unless the key of the active leg was loading  *)
(* at that moment and no signed bytes are durable yet.                     *)
RevocationReflected ==
  /\ state.revoked => Revoked
  /\ Revoked /\ ~state.revoked => ActiveStage(state) = "KEY_LOAD_STARTED_AMBIGUOUS"

(* A state that tells the human the authorization was revoked before a leg *)
(* was signed is true: no signed bytes of that leg exist or will exist.    *)
RevokedBeforeSigningIsUnsigned ==
  /\ state.name = "REVOKED_BEFORE_FIRST_ADMISSION" => Inserted = {}
  /\ state.name = "REVOKED_BEFORE_ACQUISITION_SIGNING" =>
       ordinals[1].stage \in {"RESERVED", "PREPARED"}
  /\ state.name = "REVOKED_BEFORE_DISPOSAL_SIGNING" =>
       ordinals[2].stage \in {"RESERVED", "PREPARED"}

(* The state claims a possible submission exactly of the signed intent of  *)
(* the last inserted leg, and a row that may still be submitted or settled *)
(* is never left behind by a state that says nothing is possible, but for  *)
(* the moment between the two transactions that record a signature.        *)
LastLeg == IF 2 \in Inserted THEN 2 ELSE 1
PossibleSubmissionTracked ==
  /\ state.possible => /\ ordinals[LastLeg].stage \in {"SIGNED_INTENT_DURABLE", "SUBMISSION_POSSIBLE"}
                       /\ ordinals[LastLeg].intent = state.intent
  /\ \A i \in Legs : ordinals[i].stage \in {"SIGNED_INTENT_DURABLE", "SUBMISSION_POSSIBLE"} =>
                        state.possible \/ state.name \in Admitted

(* Once a revocation is recorded no decision is consumed, no key load      *)
(* starts and no signed bytes become submittable, whoever calls what.      *)
RevocationIsFinal ==
  [][Revoked =>
       /\ revocations' = revocations
       /\ Inserted' = Inserted
       /\ \A i \in Legs : ordinals[i].stage # ordinals'[i].stage =>
            ordinals'[i].stage \notin {"KEY_LOAD_STARTED_AMBIGUOUS", "SUBMISSION_POSSIBLE"}]_vars

(* The row of a leg only moves forward, and what it retained (admission,   *)
(* plan, signed intent, evidence, typed predecessor and successor) is      *)
(* never replaced: a recovery always finds the bytes that were signed.     *)
RetainedForever ==
  [][\A i \in Inserted :
       /\ Rank(ordinals[i].stage) <= Rank(ordinals'[i].stage)
       /\ Rank(ordinals'[i].stage) <= Rank(ordinals[i].stage) + 1
       /\ \A f \in {"predecessor", "successor", "admission", "plan", "intent", "evidence"} :
            ordinals[i][f] # None => ordinals'[i][f] = ordinals[i][f]]_vars

(* A refused decision ends the episode: nothing is ever signed after it.   *)
RefusalIsFinal ==
  [][state.name \in Refused => UNCHANGED <<state, ordinals, revocations>>]_vars

-----------------------------------------------------------------------------
(* The authority implements the promise of BoundedEpisode. *)

PhaseOf(row) ==
  CASE row.stage = "NONE" -> "idle"
    [] row.stage \in {"RESERVED", "PREPARED"} ->
         IF row.successor.name \in Refused THEN "refused" ELSE "reserved"
    [] row.stage = "KEY_LOAD_STARTED_AMBIGUOUS" -> "signing"
    [] row.stage = "SIGNED_INTENT_DURABLE" -> "signed"
    [] row.stage = "SUBMISSION_POSSIBLE" -> "released"
    [] row.stage = "FINALIZED" -> "settled"

Phase == [i \in Legs |-> PhaseOf(ordinals[i])]

Episode == INSTANCE BoundedEpisode WITH leg <- Phase, revoked <- Revoked

(* Every operation of the authority is a step the episode's promise allows *)
(* or changes nothing the promise speaks of.                               *)
ImplementsBoundedEpisode == Episode!EpisodeSpec

-----------------------------------------------------------------------------
(* The inductive invariant the proofs rest on: which stages the two rows   *)
(* can have under each named state, and what ties the rows, the revocation *)
(* and the state together.                                                 *)

StagePair(first, second) == ordinals[1].stage \in first /\ ordinals[2].stage \in second

AdmittedStages ==
  IF SubmitAfterDecision THEN Signable ELSE Signable \cup {"SUBMISSION_POSSIBLE"}

StageTable ==
  LET none == {"NONE"}
      unsigned == {"RESERVED", "PREPARED"}
      pending == {"SIGNED_INTENT_DURABLE", "SUBMISSION_POSSIBLE"}
      settled == {"FINALIZED"}
      Is(names) == state.name \in names
  IN /\ Is({"AUTHORIZED_DORMANT", "REVOKED_BEFORE_FIRST_ADMISSION"}) => StagePair(none, none)
     /\ Is({"AGENT_REFUSED_ACQUISITION"}) => StagePair({"RESERVED"}, none)
     /\ Is({"REVOKED_BEFORE_ACQUISITION_SIGNING"}) => StagePair(unsigned, none)
     /\ Is({"ACQUISITION_ADMITTED"}) => StagePair(AdmittedStages, none)
     /\ Is({"ACQUISITION_SUBMISSION_RESOLVING"}) => StagePair(pending, none)
     /\ Is({"ACQUISITION_EVIDENCE_CLOSED", "REVOKED_AFTER_ACQUISITION"}) => StagePair(settled, none)
     /\ Is({"AGENT_REFUSED_DISPOSAL"}) => StagePair(settled, {"RESERVED"})
     /\ Is({"REVOKED_BEFORE_DISPOSAL_SIGNING"}) => StagePair(settled, unsigned)
     /\ Is({"DISPOSAL_ADMITTED"}) => StagePair(settled, AdmittedStages)
     /\ Is({"DISPOSAL_SUBMISSION_RESOLVING"}) => StagePair(settled, pending)
     /\ Is({"DISPOSAL_EVIDENCE_CLOSED", "REVOKED_AFTER_DISPOSAL"}) => StagePair(settled, settled)
     /\ Is({"RESOLUTION_REQUIRED_AFTER_REVOCATION"}) =>
          StagePair(pending, none) \/ StagePair(settled, pending)

StateFlags ==
  /\ state.possible <=> state.name \in Resolving \cup {"RESOLUTION_REQUIRED_AFTER_REVOCATION"}
  /\ state.revoked <=> state.name \in RevokedNames
  /\ state.possible => state.intent = ordinals[LastLeg].intent

EvidenceChain ==
  /\ HasAcquisition(state) <=> ordinals[1].stage = "FINALIZED"
  /\ HasAcquisition(state) => ordinals[1].evidence = state.acquisition
  /\ 2 \in Inserted => ordinals[2].predecessor.acquisition = state.acquisition

RefusalRecorded ==
  /\ \A i \in Inserted : ordinals[i].successor.name \in Refused => state.name \in Refused
  /\ state.name \in Refused => ordinals[LastLeg].successor.name \in Refused

IInv == TypeOK /\ StageTable /\ StateFlags /\ EvidenceChain /\ RefusalRecorded /\ RevocationReflected
=============================================================================
