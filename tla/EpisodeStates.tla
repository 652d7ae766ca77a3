---------------------------- MODULE EpisodeStates ----------------------------
(***************************************************************************)
(* The typed episode states of a bounded-agent episode and the pure        *)
(* transitions between them: episode-state-machine-v1.mjs.                 *)
(*                                                                         *)
(* A state is an immutable, content-addressed record.  Its state_digest is *)
(* a hash of every other field, so two states have the same digest exactly *)
(* when they are the same record: the models compare records where the     *)
(* code compares digests.  The identities that never change within one     *)
(* episode (episode, mandate and authorization digests) are left out.      *)
(***************************************************************************)
EXTENDS Naturals, Sequences

CONSTANT None          \* the null of a nullable field

NoOrdinal == 0         \* next_ordinal = null

Admitted   == {"ACQUISITION_ADMITTED", "DISPOSAL_ADMITTED"}
Resolving  == {"ACQUISITION_SUBMISSION_RESOLVING", "DISPOSAL_SUBMISSION_RESOLVING"}
Refused    == {"AGENT_REFUSED_ACQUISITION", "AGENT_REFUSED_DISPOSAL"}
RevokedNames ==
  {"REVOKED_BEFORE_FIRST_ADMISSION", "REVOKED_BEFORE_ACQUISITION_SIGNING",
   "REVOKED_BEFORE_DISPOSAL_SIGNING", "REVOKED_AFTER_ACQUISITION",
   "REVOKED_AFTER_DISPOSAL", "RESOLUTION_REQUIRED_AFTER_REVOCATION"}

StateNames ==
  {"AUTHORIZED_DORMANT", "ACQUISITION_EVIDENCE_CLOSED", "DISPOSAL_EVIDENCE_CLOSED"}
    \cup Admitted \cup Resolving \cup Refused \cup RevokedNames

(* One consumed decision and the readiness challenge it answered. *)
Consumption(d, c) == [decision |-> d, challenge |-> c]

-----------------------------------------------------------------------------
(* createAuthorizedEpisodeStateV1: the state an episode is provisioned in. *)
AuthorizedDormant ==
  [name |-> "AUTHORIZED_DORMANT", next |-> 1, possible |-> FALSE, revoked |-> FALSE,
   consumed |-> <<>>, intent |-> None, acquisition |-> None, disposal |-> None]

HasAcquisition(s) == s.acquisition # None

-----------------------------------------------------------------------------
(* validateBoundedAgentEpisodeStateV1 *)

RequiresAcquisition ==
  {"ACQUISITION_EVIDENCE_CLOSED", "DISPOSAL_ADMITTED", "DISPOSAL_SUBMISSION_RESOLVING",
   "DISPOSAL_EVIDENCE_CLOSED", "AGENT_REFUSED_DISPOSAL", "REVOKED_AFTER_ACQUISITION",
   "REVOKED_AFTER_DISPOSAL", "REVOKED_BEFORE_DISPOSAL_SIGNING"}

(* next_ordinal, consumed decisions and presence of a signed intent *)
Shape == [
  AUTHORIZED_DORMANT                 |-> <<1, 0, FALSE>>,
  ACQUISITION_ADMITTED               |-> <<1, 1, FALSE>>,
  ACQUISITION_SUBMISSION_RESOLVING   |-> <<1, 1, TRUE>>,
  ACQUISITION_EVIDENCE_CLOSED        |-> <<2, 1, FALSE>>,
  DISPOSAL_ADMITTED                  |-> <<2, 2, FALSE>>,
  DISPOSAL_SUBMISSION_RESOLVING      |-> <<2, 2, TRUE>>,
  DISPOSAL_EVIDENCE_CLOSED           |-> <<NoOrdinal, 2, FALSE>>,
  AGENT_REFUSED_ACQUISITION          |-> <<NoOrdinal, 1, FALSE>>,
  AGENT_REFUSED_DISPOSAL             |-> <<NoOrdinal, 2, FALSE>>,
  REVOKED_BEFORE_FIRST_ADMISSION     |-> <<NoOrdinal, 0, FALSE>>,
  REVOKED_BEFORE_ACQUISITION_SIGNING |-> <<NoOrdinal, 1, FALSE>>,
  REVOKED_BEFORE_DISPOSAL_SIGNING    |-> <<NoOrdinal, 2, FALSE>>,
  REVOKED_AFTER_ACQUISITION          |-> <<NoOrdinal, 1, FALSE>>,
  REVOKED_AFTER_DISPOSAL             |-> <<NoOrdinal, 2, FALSE>>]

ShapeOf(s) == IF s.name = "RESOLUTION_REQUIRED_AFTER_REVOCATION"
              THEN IF HasAcquisition(s) THEN <<2, 2, TRUE>> ELSE <<1, 1, TRUE>>
              ELSE Shape[s.name]

ValidState(s) ==
  /\ s.name \in StateNames
  /\ \A i, j \in DOMAIN s.consumed : i # j =>
        /\ s.consumed[i].decision # s.consumed[j].decision
        /\ s.consumed[i].challenge # s.consumed[j].challenge
  /\ s.name \in RequiresAcquisition => HasAcquisition(s)
  /\ HasAcquisition(s) =>
        s.name \in RequiresAcquisition \cup {"RESOLUTION_REQUIRED_AFTER_REVOCATION"}
  /\ (s.name \in {"DISPOSAL_EVIDENCE_CLOSED", "REVOKED_AFTER_DISPOSAL"}) <=> (s.disposal # None)
  /\ s.possible <=> (s.name \in Resolving \cup {"RESOLUTION_REQUIRED_AFTER_REVOCATION"})
  /\ s.revoked <=> (s.name \in RevokedNames)
  /\ <<s.next, Len(s.consumed), s.intent # None>> = ShapeOf(s)

-----------------------------------------------------------------------------
(* admitAgentDecisionStateV1: a validated decision is consumed whether the *)
(* executor admits it or the agent refuses to act.                         *)
DecisionSuccessor(s, d, c, refused) ==
  LET first == s.name = "AUTHORIZED_DORMANT"
      consuming == [s EXCEPT !.consumed = Append(@, Consumption(d, c))]
  IN IF refused
     THEN [consuming EXCEPT !.next = NoOrdinal,
             !.name = IF first THEN "AGENT_REFUSED_ACQUISITION" ELSE "AGENT_REFUSED_DISPOSAL"]
     ELSE [consuming EXCEPT
             !.name = IF first THEN "ACQUISITION_ADMITTED" ELSE "DISPOSAL_ADMITTED"]

(* recordSignedIntentV1 *)
CanRecordSignedIntent(s) == s.name \in Admitted
SignedSuccessor(s, w) ==
  [s EXCEPT !.possible = TRUE, !.intent = w,
            !.name = IF s.name = "ACQUISITION_ADMITTED"
                     THEN "ACQUISITION_SUBMISSION_RESOLVING"
                     ELSE "DISPOSAL_SUBMISSION_RESOLVING"]

(* closeFinalizedLegV1, for the acquisition (leg 1) and the disposal (leg 2) *)
CanCloseLeg(s, leg) ==
  \/ leg = 1 /\ s.name = "ACQUISITION_SUBMISSION_RESOLVING"
  \/ leg = 2 /\ s.name = "DISPOSAL_SUBMISSION_RESOLVING"
  \/ s.name = "RESOLUTION_REQUIRED_AFTER_REVOCATION" /\ (leg = 2 <=> HasAcquisition(s))

(* Mutant: the evidence of the disposal replaces that of the acquisition. *)
ClosedOverAcquisition(s, leg, e) ==
  LET closing == [s EXCEPT !.possible = FALSE, !.intent = None, !.acquisition = e]
      ended(name) == [closing EXCEPT !.name = name, !.next = NoOrdinal, !.disposal = e]
  IN IF leg = 2 THEN ended(IF s.revoked THEN "REVOKED_AFTER_DISPOSAL" ELSE "DISPOSAL_EVIDENCE_CLOSED")
     ELSE IF s.revoked THEN [closing EXCEPT !.next = NoOrdinal, !.name = "REVOKED_AFTER_ACQUISITION"]
     ELSE [closing EXCEPT !.next = 2, !.name = "ACQUISITION_EVIDENCE_CLOSED"]

ClosedSuccessor(s, leg, e) ==
  LET closing == [s EXCEPT !.possible = FALSE, !.intent = None]
  IN IF leg = 1
     THEN [closing EXCEPT !.acquisition = e,
             !.next = IF s.revoked THEN NoOrdinal ELSE 2,
             !.name = IF s.revoked THEN "REVOKED_AFTER_ACQUISITION"
                                   ELSE "ACQUISITION_EVIDENCE_CLOSED"]
     ELSE [closing EXCEPT !.disposal = e, !.next = NoOrdinal,
             !.name = IF s.revoked THEN "REVOKED_AFTER_DISPOSAL"
                                   ELSE "DISPOSAL_EVIDENCE_CLOSED"]

(* applyHumanRevocationV1 *)
RevocationTarget == [
  AUTHORIZED_DORMANT          |-> "REVOKED_BEFORE_FIRST_ADMISSION",
  ACQUISITION_ADMITTED        |-> "REVOKED_BEFORE_ACQUISITION_SIGNING",
  DISPOSAL_ADMITTED           |-> "REVOKED_BEFORE_DISPOSAL_SIGNING",
  ACQUISITION_EVIDENCE_CLOSED |-> "REVOKED_AFTER_ACQUISITION"]

CanRevoke(s) == ~s.revoked /\ (s.possible \/ s.name \in DOMAIN RevocationTarget)

RevokedSuccessor(s) ==
  IF s.possible
  THEN [s EXCEPT !.revoked = TRUE, !.name = "RESOLUTION_REQUIRED_AFTER_REVOCATION"]
  ELSE [s EXCEPT !.revoked = TRUE, !.next = NoOrdinal, !.name = RevocationTarget[s.name]]
=============================================================================
