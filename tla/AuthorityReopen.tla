--------------------------- MODULE AuthorityReopen ---------------------------
(***************************************************************************)
(* openCrashDurableDecisionAuthorityV1: the verification of the whole      *)
(* database when a process opens it.  A database it rejects cannot be      *)
(* opened by any later process: the episode is stuck for good, whatever    *)
(* the agent, the human or the chain still have to say about it.           *)
(***************************************************************************)
EXTENDS DecisionAuthority

LastRow == IF 2 \in Inserted THEN ordinals[2] ELSE ordinals[1]

(* the cross-product of states, ordinals, challenges and revocations *)
RowsMatchState ==
  /\ Inserted = DOMAIN state.consumed
  /\ \A i \in Inserted :
       /\ ordinals[i].admission = state.consumed[i]
       /\ [id |-> ordinals[i].admission.challenge, predecessor |-> ordinals[i].predecessor]
            \in challenges
  /\ state.revoked => Revoked

(* assertOrdinalStageShape *)
RowShape(row) ==
  /\ row.plan # None <=> row.stage # "RESERVED"
  /\ row.intent # None <=> row.stage \in Retained
  /\ row.evidence # None <=> row.stage = "FINALIZED"

RowsShaped == \A i \in Inserted : RowShape(ordinals[i])

(* assertOrdinalSuccessors: each row's predecessor and successor, rebuilt  *)
(* from the current state and the consumed identities                      *)
ClosedAcquisition ==
  [state EXCEPT !.name = "ACQUISITION_EVIDENCE_CLOSED", !.next = 2, !.possible = FALSE,
     !.revoked = FALSE, !.consumed = <<ordinals[1].admission>>, !.intent = None, !.disposal = None]

BindsSuccessor(row, predecessor, refused) ==
  /\ row.predecessor = predecessor
  /\ row.successor = DecisionSuccessor(predecessor, row.admission.decision,
                                       row.admission.challenge, refused)

SuccessorsMatch ==
  /\ 1 \in Inserted =>
       BindsSuccessor(ordinals[1], AuthorizedDormant, state.name = "AGENT_REFUSED_ACQUISITION")
  /\ 2 \in Inserted =>
       /\ ValidState(ClosedAcquisition)
       /\ BindsSuccessor(ordinals[2], ClosedAcquisition, state.name = "AGENT_REFUSED_DISPOSAL")

(* assertStateOrdinalStages *)
Unsigned == {"RESERVED", "PREPARED"}
Pending  == {"SIGNED_INTENT_DURABLE", "SUBMISSION_POSSIBLE"}
AllowedStages == [
  AUTHORIZED_DORMANT                   |-> {<<>>},
  ACQUISITION_ADMITTED                 |-> {<<a>> : a \in Signable},
  ACQUISITION_SUBMISSION_RESOLVING     |-> {<<a>> : a \in Pending},
  ACQUISITION_EVIDENCE_CLOSED          |-> {<<"FINALIZED">>},
  AGENT_REFUSED_ACQUISITION            |-> {<<"RESERVED">>},
  DISPOSAL_ADMITTED                    |-> {<<"FINALIZED", b>> : b \in Signable},
  DISPOSAL_SUBMISSION_RESOLVING        |-> {<<"FINALIZED", b>> : b \in Pending},
  DISPOSAL_EVIDENCE_CLOSED             |-> {<<"FINALIZED", "FINALIZED">>},
  AGENT_REFUSED_DISPOSAL               |-> {<<"FINALIZED", "RESERVED">>},
  REVOKED_BEFORE_FIRST_ADMISSION       |-> {<<>>},
  REVOKED_BEFORE_ACQUISITION_SIGNING   |-> {<<a>> : a \in Unsigned},
  REVOKED_BEFORE_DISPOSAL_SIGNING      |-> {<<"FINALIZED", b>> : b \in Unsigned},
  REVOKED_AFTER_ACQUISITION            |-> {<<"FINALIZED">>},
  REVOKED_AFTER_DISPOSAL               |-> {<<"FINALIZED", "FINALIZED">>},
  RESOLUTION_REQUIRED_AFTER_REVOCATION |->
    {<<a>> : a \in Pending} \cup {<<"FINALIZED", b>> : b \in Pending}]

StagesMatch ==
  /\ [i \in Inserted |-> ordinals[i].stage] \in AllowedStages[state.name]
  /\ state.possible => state.intent = LastRow.intent

(* assertRevocationBindsState: the revoked state is rebuilt from the       *)
(* revocation's predecessor, the retained intent and the retained evidence *)
RevocableBefore == [
  REVOKED_BEFORE_FIRST_ADMISSION       |-> {"AUTHORIZED_DORMANT"},
  REVOKED_BEFORE_ACQUISITION_SIGNING   |-> {"ACQUISITION_ADMITTED"},
  REVOKED_BEFORE_DISPOSAL_SIGNING      |-> {"DISPOSAL_ADMITTED"},
  REVOKED_AFTER_ACQUISITION            |->
    {"ACQUISITION_ADMITTED", "ACQUISITION_EVIDENCE_CLOSED", "ACQUISITION_SUBMISSION_RESOLVING"},
  REVOKED_AFTER_DISPOSAL               |-> {"DISPOSAL_ADMITTED", "DISPOSAL_SUBMISSION_RESOLVING"},
  RESOLUTION_REQUIRED_AFTER_REVOCATION |-> Admitted \cup Resolving]

PredecessorNamed(name) ==
  [state EXCEPT !.name = name, !.revoked = FALSE, !.disposal = None,
     !.next = IF name \in {"AUTHORIZED_DORMANT", "ACQUISITION_ADMITTED",
                           "ACQUISITION_SUBMISSION_RESOLVING"} THEN 1 ELSE 2,
     !.possible = name \in Resolving,
     !.intent = IF name \in Resolving THEN LastRow.intent ELSE None,
     !.acquisition = IF name \in {"ACQUISITION_ADMITTED", "ACQUISITION_SUBMISSION_RESOLVING"}
                     THEN None ELSE @]

RevocationBinds(v) ==
  LET before    == PredecessorNamed(v.predecessor.name)
      revoked   == RevokedSuccessor(before)
      resolving == RevokedSuccessor(IF before.possible THEN before
                                    ELSE SignedSuccessor(before, LastRow.intent))
      expected  == CASE state.name = "RESOLUTION_REQUIRED_AFTER_REVOCATION" -> resolving
                     [] state.name = "REVOKED_AFTER_ACQUISITION" /\ revoked.name # state.name ->
                          ClosedSuccessor(resolving, 1, state.acquisition)
                     [] state.name = "REVOKED_AFTER_DISPOSAL" ->
                          ClosedSuccessor(resolving, 2, state.disposal)
                     [] OTHER -> revoked
  IN /\ v.predecessor.name \in RevocableBefore[state.name]
     /\ ValidState(before)
     /\ v.predecessor = before
     /\ v.successor = revoked
     /\ state = expected

(* A recorded revocation the state does not show must be of this very      *)
(* state, with the key of the active leg loading.                          *)
RevocationPending(v) ==
  /\ v.predecessor = state
  /\ LastRow.stage = "KEY_LOAD_STARTED_AMBIGUOUS"
  /\ v.successor = RevokedSuccessor(state)

ReopenAdmits ==
  /\ ValidState(state)
  /\ RowsMatchState
  /\ RowsShaped
  /\ SuccessorsMatch
  /\ StagesMatch
  /\ \A v \in revocations : IF state.revoked THEN RevocationBinds(v) ELSE RevocationPending(v)

-----------------------------------------------------------------------------
(* Whatever was committed before a crash, the next process can open the    *)
(* authority: an episode with bytes that may be on chain stays reachable   *)
(* for resolution, settlement and revocation.  The one exception is a leg  *)
(* whose submission was recorded before the decision that it waits for     *)
(* (wiggles-submission-v1.mjs 97-101 admits the intent of any leg): until  *)
(* the decision resolves or a revocation takes over, no table allows it.   *)
SubmittedEarly ==
  /\ state.name \in Admitted
  /\ \E i \in Inserted : ordinals[i].stage = "SUBMISSION_POSSIBLE"

RestartReopens == SubmittedEarly \/ ReopenAdmits
=============================================================================
