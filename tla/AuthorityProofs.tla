--------------------------- MODULE AuthorityProofs ---------------------------
(***************************************************************************)
(* What holds of the decision authority for every set of decisions,        *)
(* challenges, plans, intents, evidence and revocations, and of any number *)
(* of trusted runtimes over it, however often they crash, restart and race.*)
(*                                                                         *)
(* Part one is the authority: the pure successors of EpisodeStates, type   *)
(* correctness, the inductive invariant IInv with one lemma per operation  *)
(* and what follows from it; what no step can ever do, from IInv and the   *)
(* shape of the rows; that the authority implements the bounded episode    *)
(* the human authorized; and that a process can always open the authority  *)
(* again, from ReopenInv.                                                  *)
(*                                                                         *)
(* Part two is the runtimes: that they are only callers the authority      *)
(* allows, that no leg is signed twice, that the sends are bounded, and    *)
(* that what was answered stays true.  RuntimeInv says of every call what  *)
(* its position entitles it to: a call between the consumption of its      *)
(* decision and its durable signature owns the row of its leg and knows    *)
(* its stage, and a call that was elected owns the sends.  Nobody else     *)
(* owns them.                                                              *)
(***************************************************************************)
EXTENDS TrustedRuntime, SequenceTheorems, TLAPS

(* The two values next_ordinal is reset to are ordinals or null. *)
LEMMA NextOrdinals == NoOrdinal \in 0..2 /\ 2 \in 0..2
BY DEF NoOrdinal

(* A revoked state keeps everything but its name and its next ordinal. *)
LEMMA RevokedSuccessorFacts ==
  ASSUME NEW s \in States, s.possible \/ s.name \in DOMAIN RevocationTarget,
         NEW t, t = RevokedSuccessor(s)
  PROVE  /\ t \in States
         /\ t.revoked
         /\ t.possible = s.possible
         /\ t.acquisition = s.acquisition
         /\ t.disposal = s.disposal
         /\ t.intent = s.intent
         /\ t.consumed = s.consumed
         /\ s.possible => t.name = "RESOLUTION_REQUIRED_AFTER_REVOCATION"
         /\ ~s.possible => t.name = RevocationTarget[s.name]
<1>1. CASE s.possible
  BY <1>1 DEF RevokedSuccessor, States, StateNames, RevokedNames, Nullable
<1>2. CASE ~s.possible
  <2>1. RevocationTarget[s.name] \in RevokedNames
    BY <1>2 DEF RevocationTarget, RevokedNames
  <2> QED
    BY <1>2, <2>1, NextOrdinals DEF RevokedSuccessor, States, StateNames
<1> QED
  BY <1>1, <1>2 DEF States

(* Recording a signed intent makes a submission possible. *)
LEMMA SignedSuccessorFacts ==
  ASSUME NEW s \in States, NEW w \in Nullable(Intents),
         NEW t, t = SignedSuccessor(s, w)
  PROVE  /\ t \in States
         /\ t.possible
         /\ t.revoked = s.revoked
         /\ t.acquisition = s.acquisition
         /\ t.disposal = s.disposal
         /\ t.intent = w
         /\ t.consumed = s.consumed
         /\ s.name = "ACQUISITION_ADMITTED" => t.name = "ACQUISITION_SUBMISSION_RESOLVING"
         /\ s.name # "ACQUISITION_ADMITTED" => t.name = "DISPOSAL_SUBMISSION_RESOLVING"
BY DEF SignedSuccessor, States, StateNames, Resolving, Nullable

(* A closed leg holds its evidence, and its name says whether it was revoked. *)
LEMMA ClosedSuccessorFacts ==
  ASSUME NEW s \in States, NEW i \in Legs, NEW e \in Evidence,
         NEW t, t = ClosedSuccessor(s, i, e)
  PROVE  /\ t \in States
         /\ ~t.possible
         /\ t.revoked = s.revoked
         /\ t.consumed = s.consumed
         /\ t.intent = None
         /\ i = 1 => t.acquisition = e /\ t.disposal = s.disposal
         /\ i = 2 => t.acquisition = s.acquisition /\ t.disposal = e
         /\ i = 1 /\ s.revoked => t.name = "REVOKED_AFTER_ACQUISITION"
         /\ i = 1 /\ ~s.revoked => t.name = "ACQUISITION_EVIDENCE_CLOSED"
         /\ i = 2 /\ s.revoked => t.name = "REVOKED_AFTER_DISPOSAL"
         /\ i = 2 /\ ~s.revoked => t.name = "DISPOSAL_EVIDENCE_CLOSED"
<1> DEFINE closing == [s EXCEPT !.possible = FALSE, !.intent = None]
<1>1. closing \in States /\ ~closing.possible /\ closing.intent = None
      /\ closing.revoked = s.revoked /\ closing.consumed = s.consumed
      /\ closing.acquisition = s.acquisition /\ closing.disposal = s.disposal
  BY DEF States, Nullable
<1>2. /\ "REVOKED_AFTER_ACQUISITION" \in StateNames /\ "ACQUISITION_EVIDENCE_CLOSED" \in StateNames
      /\ "REVOKED_AFTER_DISPOSAL" \in StateNames /\ "DISPOSAL_EVIDENCE_CLOSED" \in StateNames
  BY DEF StateNames, RevokedNames
<1>3. CASE i = 1 /\ s.revoked
  <2>1. t = [closing EXCEPT !.acquisition = e, !.next = NoOrdinal, !.name = "REVOKED_AFTER_ACQUISITION"]
    BY <1>3 DEF ClosedSuccessor
  <2> HIDE DEF closing
  <2>2. /\ t \in States /\ t.name = "REVOKED_AFTER_ACQUISITION"
        /\ t.possible = closing.possible /\ t.revoked = closing.revoked
        /\ t.consumed = closing.consumed /\ t.intent = closing.intent
        /\ t.acquisition = e /\ t.disposal = closing.disposal
    BY <1>1, <1>2, <2>1, NextOrdinals DEF States, Nullable
  <2>3. ~t.possible /\ t.revoked = s.revoked /\ t.consumed = s.consumed /\ t.intent = None
    BY <1>1, <2>2
  <2>4. /\ i = 1 => t.acquisition = e /\ t.disposal = s.disposal
        /\ i = 2 => t.acquisition = s.acquisition /\ t.disposal = e
    BY <1>1, <1>3, <2>2
  <2>5. i = 1 /\ ~s.revoked => t.name = "ACQUISITION_EVIDENCE_CLOSED"
    BY <1>3
  <2>6. i = 2 /\ s.revoked => t.name = "REVOKED_AFTER_DISPOSAL"
    BY <1>3
  <2>7. i = 2 /\ ~s.revoked => t.name = "DISPOSAL_EVIDENCE_CLOSED"
    BY <1>3
  <2> QED
    BY <2>2, <2>3, <2>4, <2>5, <2>6, <2>7
<1>4. CASE i = 1 /\ ~s.revoked
  <2>1. t = [closing EXCEPT !.acquisition = e, !.next = 2, !.name = "ACQUISITION_EVIDENCE_CLOSED"]
    BY <1>4 DEF ClosedSuccessor
  <2> HIDE DEF closing
  <2>2. /\ t \in States /\ t.name = "ACQUISITION_EVIDENCE_CLOSED"
        /\ t.possible = closing.possible /\ t.revoked = closing.revoked
        /\ t.consumed = closing.consumed /\ t.intent = closing.intent
        /\ t.acquisition = e /\ t.disposal = closing.disposal
    BY <1>1, <1>2, <2>1, NextOrdinals DEF States, Nullable
  <2> QED
    BY <1>1, <1>4, <2>2
<1>5. CASE i = 2 /\ s.revoked
  <2>1. t = [closing EXCEPT !.disposal = e, !.next = NoOrdinal, !.name = "REVOKED_AFTER_DISPOSAL"]
    BY <1>5 DEF ClosedSuccessor
  <2> HIDE DEF closing
  <2>2. /\ t \in States /\ t.name = "REVOKED_AFTER_DISPOSAL"
        /\ t.possible = closing.possible /\ t.revoked = closing.revoked
        /\ t.consumed = closing.consumed /\ t.intent = closing.intent
        /\ t.disposal = e /\ t.acquisition = closing.acquisition
    BY <1>1, <1>2, <2>1, NextOrdinals DEF States, Nullable
  <2>3. ~t.possible /\ t.revoked = s.revoked /\ t.consumed = s.consumed /\ t.intent = None
    BY <1>1, <2>2
  <2>4. /\ i = 1 => t.acquisition = e /\ t.disposal = s.disposal
        /\ i = 2 => t.acquisition = s.acquisition /\ t.disposal = e
    BY <1>1, <1>5, <2>2
  <2>5. i = 1 /\ s.revoked => t.name = "REVOKED_AFTER_ACQUISITION"
    BY <1>5
  <2>6. i = 1 /\ ~s.revoked => t.name = "ACQUISITION_EVIDENCE_CLOSED"
    BY <1>5
  <2>7. i = 2 /\ ~s.revoked => t.name = "DISPOSAL_EVIDENCE_CLOSED"
    BY <1>5
  <2> QED
    BY <2>2, <2>3, <2>4, <2>5, <2>6, <2>7
<1>6. CASE i = 2 /\ ~s.revoked
  <2>1. t = [closing EXCEPT !.disposal = e, !.next = NoOrdinal, !.name = "DISPOSAL_EVIDENCE_CLOSED"]
    BY <1>6 DEF ClosedSuccessor
  <2> HIDE DEF closing
  <2>2. /\ t \in States /\ t.name = "DISPOSAL_EVIDENCE_CLOSED"
        /\ t.possible = closing.possible /\ t.revoked = closing.revoked
        /\ t.consumed = closing.consumed /\ t.intent = closing.intent
        /\ t.disposal = e /\ t.acquisition = closing.acquisition
    BY <1>1, <1>2, <2>1, NextOrdinals DEF States, Nullable
  <2> QED
    BY <1>1, <1>6, <2>2
<1> QED
  BY <1>3, <1>4, <1>5, <1>6 DEF Legs

(* A consumed decision names the leg it admits or refuses. *)
LEMMA DecisionSuccessorFacts ==
  ASSUME NEW s \in States, NEW d \in Decisions, NEW c \in Challenges, NEW refused \in BOOLEAN,
         NEW t, t = DecisionSuccessor(s, d, c, refused)
  PROVE  /\ t \in States
         /\ t.possible = s.possible
         /\ t.revoked = s.revoked
         /\ t.consumed = Append(s.consumed, Consumption(d, c))
         /\ t.intent = s.intent
         /\ t.acquisition = s.acquisition
         /\ t.disposal = s.disposal
         /\ refused <=> t.name \in Refused
         /\ t.name = IF s.name = "AUTHORIZED_DORMANT"
                        THEN IF refused THEN "AGENT_REFUSED_ACQUISITION" ELSE "ACQUISITION_ADMITTED"
                        ELSE IF refused THEN "AGENT_REFUSED_DISPOSAL" ELSE "DISPOSAL_ADMITTED"
<1> DEFINE consuming == [s EXCEPT !.consumed = Append(@, Consumption(d, c))]
<1>0. Append(s.consumed, Consumption(d, c)) \in Seq(Consumptions)
  BY DEF States, Consumption, Consumptions
<1>1. /\ consuming \in States
      /\ consuming.consumed = Append(s.consumed, Consumption(d, c))
      /\ consuming.possible = s.possible /\ consuming.revoked = s.revoked
      /\ consuming.intent = s.intent
      /\ consuming.acquisition = s.acquisition /\ consuming.disposal = s.disposal
  BY <1>0 DEF States
<1>2. CASE refused
  <2> DEFINE n == IF s.name = "AUTHORIZED_DORMANT" THEN "AGENT_REFUSED_ACQUISITION"
                                                  ELSE "AGENT_REFUSED_DISPOSAL"
  <2>1. t = [consuming EXCEPT !.next = NoOrdinal, !.name = n]
    BY <1>2 DEF DecisionSuccessor
  <2>2. n \in Refused /\ n \in StateNames
    BY DEF Refused, StateNames
  <2> HIDE DEF consuming, n
  <2>3. t \in States /\ t.name = n /\ t.consumed = consuming.consumed
        /\ t.possible = consuming.possible /\ t.revoked = consuming.revoked
        /\ t.intent = consuming.intent
        /\ t.acquisition = consuming.acquisition /\ t.disposal = consuming.disposal
    BY <1>1, <2>1, <2>2, NextOrdinals DEF States
  <2> QED
    BY <1>1, <1>2, <2>2, <2>3 DEF n
<1>3. CASE ~refused
  <2> DEFINE n == IF s.name = "AUTHORIZED_DORMANT" THEN "ACQUISITION_ADMITTED"
                                                  ELSE "DISPOSAL_ADMITTED"
  <2>1. t = [consuming EXCEPT !.name = n]
    BY <1>3 DEF DecisionSuccessor
  <2>2. n \notin Refused /\ n \in StateNames
    BY DEF Refused, Admitted, StateNames
  <2> HIDE DEF consuming, n
  <2>3. t \in States /\ t.name = n /\ t.consumed = consuming.consumed
        /\ t.possible = consuming.possible /\ t.revoked = consuming.revoked
        /\ t.intent = consuming.intent
        /\ t.acquisition = consuming.acquisition /\ t.disposal = consuming.disposal
    BY <1>1, <2>1, <2>2 DEF States
  <2> QED
    BY <1>1, <1>3, <2>2, <2>3 DEF n
<1> QED
  BY <1>2, <1>3

-----------------------------------------------------------------------------
(* Type correctness *)

(* An operation that changes the row of one leg leaves the other alone. *)
LEMMA RowsTyped ==
  ASSUME TypeOK, NEW i \in Legs, NEW row \in Rows, ordinals' = [ordinals EXCEPT ![i] = row]
  PROVE  /\ ordinals' \in [Legs -> Rows]
         /\ ordinals'[i] = row
         /\ \A j \in Legs : j # i => ordinals'[j] = ordinals[j]
BY DEF TypeOK

(* The first state is well typed. *)
LEMMA DormantTyped == AuthorizedDormant \in States
BY DEF AuthorizedDormant, States, StateNames, Nullable

(* An empty row is well typed. *)
LEMMA NoRowTyped == NoRow \in Rows
BY DEF NoRow, Rows, Stages, Nullable

(* What consuming a decision changes, and from which rows and states. *)
LEMMA ConsumeEffect ==
  ASSUME TypeOK, NEW i \in Legs, NEW d \in Decisions, NEW c \in Challenges,
         NEW refused \in BOOLEAN,
         ConsumeEpisodeOrdinal(Reservation(i, state, d, c, refused))
  PROVE  /\ TypeOK'
         /\ i \notin Inserted
         /\ ~Revoked
         /\ state.name = IF i = 1 THEN "AUTHORIZED_DORMANT" ELSE "ACQUISITION_EVIDENCE_CLOSED"
         /\ i = 2 => ordinals[1].stage = "FINALIZED"
         /\ state' = DecisionSuccessor(state, d, c, refused)
         /\ ordinals'[i].stage = "RESERVED"
         /\ ordinals'[i].predecessor = state
         /\ ordinals'[i].successor = state'
         /\ ordinals'[i].plan = None /\ ordinals'[i].intent = None /\ ordinals'[i].evidence = None
         /\ \A j \in Legs : j # i => ordinals'[j] = ordinals[j]
         /\ UNCHANGED <<challenges, revocations>>
<1> DEFINE r == Reservation(i, state, d, c, refused)
           t == DecisionSuccessor(state, d, c, refused)
           row == [NoRow EXCEPT !.stage = "RESERVED", !.predecessor = state,
                                !.successor = t, !.admission = Consumption(d, c)]
<1>1. r.ordinal = i /\ r.predecessor = state /\ r.admission = Consumption(d, c) /\ r.successor = t
  BY DEF Reservation
<1>2. /\ ConsumeOutcome(r) = "CONSUMED" /\ ordinals' = [ordinals EXCEPT ![i] = row] /\ state' = t
      /\ UNCHANGED <<challenges, revocations>>
  BY <1>1 DEF ConsumeEpisodeOrdinal
<1> HIDE DEF r, t, row
<1>3. /\ i \notin Inserted
      /\ ~Revoked
      /\ state.name = IF i = 1 THEN "AUTHORIZED_DORMANT" ELSE "ACQUISITION_EVIDENCE_CLOSED"
      /\ i = 2 => ordinals[1].stage = "FINALIZED"
  BY <1>1, <1>2 DEF ConsumeOutcome
<1>4. t \in States
  BY DecisionSuccessorFacts DEF TypeOK, t
<1>5. Consumption(d, c) \in Consumptions
  BY DEF Consumption, Consumptions
<1>6. /\ row \in Rows /\ row.stage = "RESERVED" /\ row.predecessor = state /\ row.successor = t
      /\ row.plan = None /\ row.intent = None /\ row.evidence = None
  BY <1>4, <1>5, NoRowTyped DEF row, NoRow, Rows, Stages, Signable, Nullable, TypeOK
<1>7. /\ ordinals' \in [Legs -> Rows] /\ ordinals'[i] = row
      /\ \A j \in Legs : j # i => ordinals'[j] = ordinals[j]
  BY <1>2, <1>6, RowsTyped
<1>8. TypeOK'
  BY <1>2, <1>4, <1>7 DEF TypeOK
<1> QED
  BY <1>2, <1>3, <1>6, <1>7, <1>8 DEF t

(* What preparing the transaction of a leg changes. *)
LEMMA PrepareEffect ==
  ASSUME TypeOK, NEW i \in Legs, NEW a, NEW p \in Plans, RecordPrepared(i, a, p)
  PROVE  /\ TypeOK'
         /\ ordinals[i].stage = "RESERVED"
         /\ ordinals'[i].stage = "PREPARED"
         /\ ordinals'[i].plan = p
         /\ ordinals'[i].predecessor = ordinals[i].predecessor
         /\ ordinals'[i].successor = ordinals[i].successor
         /\ ordinals'[i].admission = ordinals[i].admission
         /\ ordinals'[i].intent = ordinals[i].intent
         /\ ordinals'[i].evidence = ordinals[i].evidence
         /\ \A j \in Legs : j # i => ordinals'[j] = ordinals[j]
         /\ UNCHANGED <<state, challenges, revocations>>
<1> DEFINE row == [ordinals[i] EXCEPT !.stage = "PREPARED", !.plan = p]
<1>1. /\ ordinals' = [ordinals EXCEPT ![i] = row]
      /\ ordinals[i].stage = "RESERVED"
      /\ UNCHANGED <<state, challenges, revocations>>
  BY DEF RecordPrepared, TypeOK
<1>2. /\ row \in Rows /\ row.stage = "PREPARED" /\ row.plan = p
      /\ row.predecessor = ordinals[i].predecessor /\ row.successor = ordinals[i].successor /\ row.admission = ordinals[i].admission /\ row.intent = ordinals[i].intent /\ row.evidence = ordinals[i].evidence
  BY DEF TypeOK, Rows, Stages, Signable, Nullable
<1> HIDE DEF row
<1>3. /\ ordinals' \in [Legs -> Rows] /\ ordinals'[i] = row
      /\ \A j \in Legs : j # i => ordinals'[j] = ordinals[j]
  BY <1>1, <1>2, RowsTyped
<1>4. TypeOK'
  BY <1>1, <1>3 DEF TypeOK
<1> QED
  BY <1>1, <1>2, <1>3, <1>4

(* What starting the key load of a leg changes; no revocation is recorded. *)
LEMMA LoadKeyEffect ==
  ASSUME TypeOK, NEW i \in Legs, NEW a, NEW p, RecordKeyLoadStarted(i, a, p)
  PROVE  /\ TypeOK'
         /\ ~Revoked
         /\ ordinals[i].stage = "PREPARED"
         /\ ordinals'[i].stage = "KEY_LOAD_STARTED_AMBIGUOUS"
         /\ ordinals'[i].predecessor = ordinals[i].predecessor
         /\ ordinals'[i].successor = ordinals[i].successor
         /\ ordinals'[i].admission = ordinals[i].admission
         /\ ordinals'[i].plan = ordinals[i].plan
         /\ ordinals'[i].intent = ordinals[i].intent
         /\ ordinals'[i].evidence = ordinals[i].evidence
         /\ \A j \in Legs : j # i => ordinals'[j] = ordinals[j]
         /\ UNCHANGED <<state, challenges, revocations>>
<1> DEFINE row == [ordinals[i] EXCEPT !.stage = "KEY_LOAD_STARTED_AMBIGUOUS"]
<1>1. /\ ordinals' = [ordinals EXCEPT ![i] = row]
      /\ ~Revoked
      /\ ordinals[i].stage = "PREPARED"
      /\ UNCHANGED <<state, challenges, revocations>>
  BY DEF RecordKeyLoadStarted, TypeOK
<1>2. /\ row \in Rows /\ row.stage = "KEY_LOAD_STARTED_AMBIGUOUS"
      /\ row.predecessor = ordinals[i].predecessor /\ row.successor = ordinals[i].successor /\ row.admission = ordinals[i].admission /\ row.plan = ordinals[i].plan /\ row.intent = ordinals[i].intent /\ row.evidence = ordinals[i].evidence
  BY DEF TypeOK, Rows, Stages, Signable, Nullable
<1> HIDE DEF row
<1>3. /\ ordinals' \in [Legs -> Rows] /\ ordinals'[i] = row
      /\ \A j \in Legs : j # i => ordinals'[j] = ordinals[j]
  BY <1>1, <1>2, RowsTyped
<1>4. TypeOK'
  BY <1>1, <1>3 DEF TypeOK
<1> QED
  BY <1>1, <1>2, <1>3, <1>4

(* What electing the submission owner changes; no revocation is recorded. *)
LEMMA SubmitEffect ==
  ASSUME TypeOK, NEW i \in Legs, NEW w, RecordSubmissionPossible(i, w)
  PROVE  /\ TypeOK'
         /\ ~Revoked
         /\ ordinals[i].stage = "SIGNED_INTENT_DURABLE"
         /\ ordinals'[i].stage = "SUBMISSION_POSSIBLE"
         /\ ordinals'[i].predecessor = ordinals[i].predecessor
         /\ ordinals'[i].successor = ordinals[i].successor
         /\ ordinals'[i].admission = ordinals[i].admission
         /\ ordinals'[i].plan = ordinals[i].plan
         /\ ordinals'[i].intent = ordinals[i].intent
         /\ ordinals'[i].evidence = ordinals[i].evidence
         /\ \A j \in Legs : j # i => ordinals'[j] = ordinals[j]
         /\ UNCHANGED <<state, challenges, revocations>>
<1> DEFINE row == [ordinals[i] EXCEPT !.stage = "SUBMISSION_POSSIBLE"]
<1>1. /\ ordinals' = [ordinals EXCEPT ![i] = row]
      /\ ~Revoked
      /\ ordinals[i].stage = "SIGNED_INTENT_DURABLE"
      /\ UNCHANGED <<state, challenges, revocations>>
  BY DEF RecordSubmissionPossible, TypeOK
<1>2. /\ row \in Rows /\ row.stage = "SUBMISSION_POSSIBLE"
      /\ row.predecessor = ordinals[i].predecessor /\ row.successor = ordinals[i].successor /\ row.admission = ordinals[i].admission /\ row.plan = ordinals[i].plan /\ row.intent = ordinals[i].intent /\ row.evidence = ordinals[i].evidence
  BY DEF TypeOK, Rows, Stages, Signable, Nullable
<1> HIDE DEF row
<1>3. /\ ordinals' \in [Legs -> Rows] /\ ordinals'[i] = row
      /\ \A j \in Legs : j # i => ordinals'[j] = ordinals[j]
  BY <1>1, <1>2, RowsTyped
<1>4. TypeOK'
  BY <1>1, <1>3 DEF TypeOK
<1> QED
  BY <1>1, <1>2, <1>3, <1>4

(* What making the signed bytes of a leg durable changes: the state only   *)
(* when a revocation came first.                                           *)
LEMMA SignEffect ==
  ASSUME TypeOK, NEW i \in Legs, NEW a, NEW p, NEW w \in Intents,
         RecordSignedIntentDurable(i, a, p, w)
  PROVE  /\ TypeOK'
         /\ ordinals[i].stage = "KEY_LOAD_STARTED_AMBIGUOUS"
         /\ ordinals'[i].stage = "SIGNED_INTENT_DURABLE"
         /\ ordinals'[i].intent = w
         /\ ordinals'[i].predecessor = ordinals[i].predecessor
         /\ ordinals'[i].successor = ordinals[i].successor
         /\ ordinals'[i].admission = ordinals[i].admission
         /\ ordinals'[i].plan = ordinals[i].plan
         /\ ordinals'[i].evidence = ordinals[i].evidence
         /\ \A j \in Legs : j # i => ordinals'[j] = ordinals[j]
         /\ UNCHANGED <<challenges, revocations>>
         /\ ~Revoked => state' = state
         /\ Revoked => /\ state.name \in Admitted
                       /\ state'.name = "RESOLUTION_REQUIRED_AFTER_REVOCATION"
                       /\ state'.possible /\ state'.revoked
                       /\ state'.intent = w
                       /\ state'.acquisition = state.acquisition
<1> DEFINE row == [ordinals[i] EXCEPT !.stage = "SIGNED_INTENT_DURABLE", !.intent = w]
           t == SignedSuccessor(state, w)
           u == RevokedSuccessor(t)
<1>1. /\ ordinals' = [ordinals EXCEPT ![i] = row]
      /\ ordinals[i].stage = "KEY_LOAD_STARTED_AMBIGUOUS"
      /\ Revoked => state.name \in Admitted
      /\ state' = IF Revoked THEN u ELSE state
      /\ UNCHANGED <<challenges, revocations>>
  BY DEF RecordSignedIntentDurable, CanRecordSignedIntent, TypeOK
<1>2. /\ row \in Rows /\ row.stage = "SIGNED_INTENT_DURABLE" /\ row.intent = w
      /\ row.predecessor = ordinals[i].predecessor /\ row.successor = ordinals[i].successor
      /\ row.admission = ordinals[i].admission /\ row.plan = ordinals[i].plan
      /\ row.evidence = ordinals[i].evidence
  BY DEF TypeOK, Rows, Stages, Signable, Nullable
<1>3. t \in States /\ t.possible /\ t.intent = w /\ t.acquisition = state.acquisition
  BY SignedSuccessorFacts DEF TypeOK, Nullable
<1> HIDE DEF row, t
<1>4. /\ u \in States /\ u.revoked /\ u.possible /\ u.intent = w
      /\ u.acquisition = state.acquisition
      /\ u.name = "RESOLUTION_REQUIRED_AFTER_REVOCATION"
  BY <1>3, RevokedSuccessorFacts
<1> HIDE DEF u
<1>5. /\ ordinals' \in [Legs -> Rows] /\ ordinals'[i] = row
      /\ \A j \in Legs : j # i => ordinals'[j] = ordinals[j]
  BY <1>1, <1>2, RowsTyped
<1>6. TypeOK'
  BY <1>1, <1>4, <1>5 DEF TypeOK
<1> QED
  BY <1>1, <1>2, <1>4, <1>5, <1>6

(* What recording the signed episode state changes. *)
LEMMA PersistEffect ==
  ASSUME TypeOK, NEW i \in Legs, NEW w \in Intents, RecordSignedEpisodeState(i, state, w)
  PROVE  /\ TypeOK'
         /\ ordinals[i].stage = "SIGNED_INTENT_DURABLE"
         /\ ordinals[i].intent = w
         /\ state.name \in Admitted
         /\ state'.possible
         /\ state'.revoked = state.revoked
         /\ state'.intent = w
         /\ state'.acquisition = state.acquisition
         /\ state'.name = IF state.name = "ACQUISITION_ADMITTED"
                           THEN "ACQUISITION_SUBMISSION_RESOLVING"
                           ELSE "DISPOSAL_SUBMISSION_RESOLVING"
         /\ UNCHANGED <<challenges, ordinals, revocations>>
<1>1. /\ state' = SignedSuccessor(state, w) /\ state.name \in Admitted
      /\ ordinals[i].stage = "SIGNED_INTENT_DURABLE" /\ ordinals[i].intent = w
      /\ UNCHANGED <<challenges, ordinals, revocations>>
  BY DEF RecordSignedEpisodeState, CanRecordSignedIntent
<1>2. /\ state' \in States /\ state'.possible /\ state'.revoked = state.revoked
      /\ state'.intent = w /\ state'.acquisition = state.acquisition
      /\ state'.name = IF state.name = "ACQUISITION_ADMITTED"
                           THEN "ACQUISITION_SUBMISSION_RESOLVING"
                           ELSE "DISPOSAL_SUBMISSION_RESOLVING"
  BY <1>1, SignedSuccessorFacts DEF TypeOK, Nullable
<1>3. TypeOK'
  BY <1>1, <1>2 DEF TypeOK
<1> QED
  BY <1>1, <1>2, <1>3

(* What settling a leg changes. *)
LEMMA SettleEffect ==
  ASSUME TypeOK, NEW i \in Legs, NEW w, NEW e \in Evidence, Settle(i, w, e)
  PROVE  /\ TypeOK'
         /\ CanCloseLeg(state, i)
         /\ ordinals[i].stage = "SUBMISSION_POSSIBLE"
         /\ ordinals'[i].stage = "FINALIZED"
         /\ ordinals'[i].evidence = e
         /\ ordinals'[i].predecessor = ordinals[i].predecessor
         /\ ordinals'[i].successor = ordinals[i].successor
         /\ ordinals'[i].admission = ordinals[i].admission
         /\ ordinals'[i].plan = ordinals[i].plan
         /\ ordinals'[i].intent = ordinals[i].intent
         /\ \A j \in Legs : j # i => ordinals'[j] = ordinals[j]
         /\ UNCHANGED <<challenges, revocations>>
         /\ ~state'.possible
         /\ state'.revoked = state.revoked
         /\ i = 1 => state'.acquisition = e
         /\ i = 2 => state'.acquisition = state.acquisition
         /\ i = 1 /\ state.revoked => state'.name = "REVOKED_AFTER_ACQUISITION"
         /\ i = 1 /\ ~state.revoked => state'.name = "ACQUISITION_EVIDENCE_CLOSED"
         /\ i = 2 /\ state.revoked => state'.name = "REVOKED_AFTER_DISPOSAL"
         /\ i = 2 /\ ~state.revoked => state'.name = "DISPOSAL_EVIDENCE_CLOSED"
<1> DEFINE row == [ordinals[i] EXCEPT !.stage = "FINALIZED", !.evidence = e]
           t == ClosedSuccessor(state, i, e)
<1>1. /\ ordinals' = [ordinals EXCEPT ![i] = row]
      /\ ordinals[i].stage = "SUBMISSION_POSSIBLE"
      /\ CanCloseLeg(state, i)
      /\ state' = t
      /\ UNCHANGED <<challenges, revocations>>
  BY DEF Settle, TypeOK
<1>2. /\ row \in Rows /\ row.stage = "FINALIZED" /\ row.evidence = e
      /\ row.predecessor = ordinals[i].predecessor /\ row.successor = ordinals[i].successor
      /\ row.admission = ordinals[i].admission /\ row.plan = ordinals[i].plan
      /\ row.intent = ordinals[i].intent
  BY DEF TypeOK, Rows, Stages, Signable, Nullable
<1> HIDE DEF row, t
<1>3. state \in States
  BY DEF TypeOK
<1>4. /\ t \in States /\ ~t.possible /\ t.revoked = state.revoked
      /\ i = 1 => t.acquisition = e
      /\ i = 2 => t.acquisition = state.acquisition
      /\ i = 1 /\ state.revoked => t.name = "REVOKED_AFTER_ACQUISITION"
      /\ i = 1 /\ ~state.revoked => t.name = "ACQUISITION_EVIDENCE_CLOSED"
      /\ i = 2 /\ state.revoked => t.name = "REVOKED_AFTER_DISPOSAL"
      /\ i = 2 /\ ~state.revoked => t.name = "DISPOSAL_EVIDENCE_CLOSED"
  BY <1>3, ClosedSuccessorFacts DEF t
<1>5. /\ ordinals' \in [Legs -> Rows] /\ ordinals'[i] = row
      /\ \A j \in Legs : j # i => ordinals'[j] = ordinals[j]
  BY <1>1, <1>2, RowsTyped
<1>6. TypeOK'
  BY <1>1, <1>4, <1>5 DEF TypeOK
<1> QED
  BY <1>1, <1>2, <1>4, <1>5, <1>6

(* What a revocation changes: nothing but the record while the key of the  *)
(* active leg is loading, a resolving state when its bytes are durable,    *)
(* and otherwise the revoked state.                                        *)
LEMMA RevokeEffect ==
  ASSUME TypeOK, NEW v \in Revocations, CanRevoke(state),
         RevokeAuthorization(RevocationOf(v, state))
  PROVE  /\ TypeOK'
         /\ ~Revoked
         /\ Revoked'
         /\ Inserted = ExpectedRows(state)
         /\ StageAgrees(state)
         /\ UNCHANGED <<challenges, ordinals>>
         /\ ActiveStage(state) = "KEY_LOAD_STARTED_AMBIGUOUS" => state' = state
         /\ ActiveStage(state) # "KEY_LOAD_STARTED_AMBIGUOUS" =>
              /\ state'.revoked
              /\ state'.acquisition = state.acquisition
              /\ state.possible => /\ state'.possible
                                   /\ state'.name = "RESOLUTION_REQUIRED_AFTER_REVOCATION"
         /\ ActiveStage(state) = "SIGNED_INTENT_DURABLE" /\ state.name \notin Resolving =>
              /\ state'.possible
              /\ state'.name = "RESOLUTION_REQUIRED_AFTER_REVOCATION"
              /\ state'.intent = ActiveIntent(state)
         /\ (\/ ActiveStage(state) \notin {"KEY_LOAD_STARTED_AMBIGUOUS", "SIGNED_INTENT_DURABLE"}
             \/ /\ ActiveStage(state) = "SIGNED_INTENT_DURABLE"
                /\ state.name \in Resolving) =>
              /\ state'.possible = state.possible
              /\ state'.intent = state.intent
              /\ ~state.possible => state'.name = RevocationTarget[state.name]
<1> DEFINE q == RevokedSuccessor(state)
           r == RevocationOf(v, state)
           t == SignedSuccessor(state, ActiveIntent(state))
           u == RevokedSuccessor(t)
<1>1. /\ q \in States /\ q.revoked /\ q.possible = state.possible
      /\ q.acquisition = state.acquisition /\ q.intent = state.intent
      /\ state.possible => q.name = "RESOLUTION_REQUIRED_AFTER_REVOCATION"
      /\ ~state.possible => q.name = RevocationTarget[state.name]
  BY RevokedSuccessorFacts DEF TypeOK, CanRevoke
<1>2. r \in [id : Revocations, predecessor : States, successor : States]
  BY <1>1 DEF RevocationOf, TypeOK
<1>3. ActiveIntent(state) \in Nullable(Intents)
  BY DEF ActiveIntent, TypeOK, Rows, Legs
<1>4. t \in States /\ t.possible /\ t.intent = ActiveIntent(state) /\ t.acquisition = state.acquisition
  BY <1>3, SignedSuccessorFacts DEF TypeOK
<1> HIDE DEF t
<1>5. /\ u \in States /\ u.revoked /\ u.possible /\ u.intent = ActiveIntent(state)
      /\ u.acquisition = state.acquisition
      /\ u.name = "RESOLUTION_REQUIRED_AFTER_REVOCATION"
  BY <1>4, RevokedSuccessorFacts
<1> HIDE DEF u, q, r
<1>6. /\ ActiveStage(state) = "KEY_LOAD_STARTED_AMBIGUOUS" => state' = state
      /\ ActiveStage(state) = "SIGNED_INTENT_DURABLE" /\ state.name \notin Resolving => state' = u
      /\ (\/ ActiveStage(state) \notin {"KEY_LOAD_STARTED_AMBIGUOUS", "SIGNED_INTENT_DURABLE"}
          \/ /\ ActiveStage(state) = "SIGNED_INTENT_DURABLE"
             /\ state.name \in Resolving) => state' = q
      /\ revocations' = {r} /\ UNCHANGED <<challenges, ordinals>>
  <2>1. /\ state' = StateAfterRevocation(state) /\ revocations' = {r}
        /\ UNCHANGED <<challenges, ordinals>>
    BY DEF RevokeAuthorization, r
  <2>2. CASE ActiveStage(state) = "KEY_LOAD_STARTED_AMBIGUOUS"
    BY <2>1, <2>2 DEF StateAfterRevocation
  <2>3. CASE ActiveStage(state) = "SIGNED_INTENT_DURABLE"
    BY <2>1, <2>3 DEF StateAfterRevocation, q, t, u
  <2>4. CASE ActiveStage(state) \notin {"KEY_LOAD_STARTED_AMBIGUOUS", "SIGNED_INTENT_DURABLE"}
    BY <2>1, <2>4 DEF StateAfterRevocation, q
  <2> QED
    BY <2>2, <2>3, <2>4
<1>7. ~Revoked /\ Inserted = ExpectedRows(state) /\ StageAgrees(state)
  <2>1. RevokeOutcome(r) \in RevocationResults
    BY DEF RevokeAuthorization, r
  <2> QED
    BY <2>1 DEF RevokeOutcome, RevocationResults
<1>8. Revoked'
  BY <1>6 DEF Revoked
<1>9. CASE ActiveStage(state) = "KEY_LOAD_STARTED_AMBIGUOUS"
  <2>1. state' = state /\ state' \in States
    BY <1>6, <1>9 DEF TypeOK
  <2>2. TypeOK'
    BY <1>2, <1>6, <2>1 DEF TypeOK
  <2> QED
    BY <1>6, <1>7, <1>8, <1>9, <2>1, <2>2
<1>10. CASE ActiveStage(state) = "SIGNED_INTENT_DURABLE" /\ state.name \notin Resolving
  <2>1. state' = u
    BY <1>6, <1>10
  <2>2. TypeOK'
    BY <1>2, <1>5, <1>6, <2>1 DEF TypeOK
  <2> QED
    BY <1>5, <1>6, <1>7, <1>8, <1>10, <2>1, <2>2
<1>11. CASE \/ ActiveStage(state) \notin {"KEY_LOAD_STARTED_AMBIGUOUS", "SIGNED_INTENT_DURABLE"}
            \/ ActiveStage(state) = "SIGNED_INTENT_DURABLE" /\ state.name \in Resolving
  <2>1. state' = q
    BY <1>6, <1>11
  <2>2. TypeOK'
    BY <1>1, <1>2, <1>6, <2>1 DEF TypeOK
  <2> QED
    BY <1>1, <1>6, <1>7, <1>8, <1>11, <2>1, <2>2
<1> QED
  BY <1>9, <1>10, <1>11

(* Every operation keeps the tables well typed. *)
LEMMA TypeStep == TypeOK /\ [Next]_vars => TypeOK'
<1> SUFFICES ASSUME TypeOK, [Next]_vars PROVE TypeOK'
  OBVIOUS
<1>1. CASE Register
  BY <1>1 DEF Register, RegisterReadinessChallenge, TypeOK
<1>2. CASE Consume
  BY <1>2, ConsumeEffect DEF Consume
<1>3. CASE Prepare
  <2> PICK i \in Legs, d \in Decisions, c \in Challenges, p \in Plans :
         RecordPrepared(i, Consumption(d, c), p)
    BY <1>3 DEF Prepare
  <2> QED
    BY PrepareEffect
<1>4. CASE LoadKey
  <2> PICK i \in Legs, d \in Decisions, c \in Challenges, p \in Plans :
         RecordKeyLoadStarted(i, Consumption(d, c), p)
    BY <1>4 DEF LoadKey
  <2> QED
    BY LoadKeyEffect
<1>5. CASE Sign
  <2> PICK i \in Legs, d \in Decisions, c \in Challenges, p \in Plans, w \in Intents :
         RecordSignedIntentDurable(i, Consumption(d, c), p, w)
    BY <1>5 DEF Sign
  <2> QED
    BY SignEffect
<1>6. CASE PersistSigned
  BY <1>6, PersistEffect DEF PersistSigned
<1>7. CASE Submit
  BY <1>7, SubmitEffect DEF Submit
<1>8. CASE Finalize
  BY <1>8, SettleEffect DEF Finalize, CloseAcquisition, RecordFinalized, Legs
<1>9. CASE Revoke
  BY <1>9, RevokeEffect DEF Revoke
<1>10. CASE UNCHANGED vars
  BY <1>10 DEF vars, TypeOK
<1> QED
  BY <1>1, <1>2, <1>3, <1>4, <1>5, <1>6, <1>7, <1>8, <1>9, <1>10 DEF Next

(* In every reachable state the four tables hold values of their types,    *)
(* whatever the identities are and in whatever order operations arrive.    *)
THEOREM TypeCorrect == Spec => []TypeOK
<1>1. Init => TypeOK
  BY DormantTyped, NoRowTyped DEF Init, TypeOK
<1> QED
  BY <1>1, TypeStep, PTL DEF Spec

-----------------------------------------------------------------------------
(* The inductive invariant, one lemma per operation *)

(* The invariant holds of a freshly provisioned episode. *)
LEMMA InitInvariant == Init => IInv
<1> SUFFICES ASSUME Init PROVE IInv
  OBVIOUS
<1>1. TypeOK
  BY DormantTyped, NoRowTyped DEF Init, TypeOK
<1>2. /\ state.name = "AUTHORIZED_DORMANT" /\ ~state.possible /\ ~state.revoked
      /\ state.acquisition = None /\ ~Revoked /\ Inserted = {}
      /\ \A i \in Legs : ordinals[i].stage = "NONE"
  BY DEF Init, AuthorizedDormant, NoRow, Revoked, Inserted
<1>3. StageTable
  BY <1>2 DEF StageTable, StagePair, Legs
<1>4. StateFlags /\ RefusalRecorded /\ RevocationReflected
  BY <1>2 DEF StateFlags, RefusalRecorded, RevocationReflected, Resolving, RevokedNames, Refused
<1>5. EvidenceChain
  BY <1>2 DEF EvidenceChain, HasAcquisition, Legs
<1> QED
  BY <1>1, <1>3, <1>4, <1>5 DEF IInv

(* A consumed decision keeps the invariant. *)
LEMMA ConsumeInvariant ==
  ASSUME IInv, NEW i \in Legs, NEW d \in Decisions, NEW c \in Challenges,
         NEW refused \in BOOLEAN,
         ConsumeEpisodeOrdinal(Reservation(i, state, d, c, refused))
  PROVE  IInv'
<1>1. TypeOK
  BY DEF IInv
<1>2. /\ TypeOK'
      /\ i \notin Inserted
      /\ ~Revoked
      /\ state.name = IF i = 1 THEN "AUTHORIZED_DORMANT" ELSE "ACQUISITION_EVIDENCE_CLOSED"
      /\ state' = DecisionSuccessor(state, d, c, refused)
      /\ ordinals'[i].stage = "RESERVED"
      /\ ordinals'[i].predecessor = state
      /\ ordinals'[i].successor = state'
      /\ \A j \in Legs : j # i => ordinals'[j] = ordinals[j]
      /\ UNCHANGED <<challenges, revocations>>
  BY <1>1, ConsumeEffect
<1>3. /\ state'.possible = state.possible /\ state'.revoked = state.revoked
      /\ state'.acquisition = state.acquisition
      /\ state'.name \in Refused <=> refused
      /\ i = 1 => state'.name = IF refused THEN "AGENT_REFUSED_ACQUISITION" ELSE "ACQUISITION_ADMITTED"
      /\ i = 2 => state'.name = IF refused THEN "AGENT_REFUSED_DISPOSAL" ELSE "DISPOSAL_ADMITTED"
  BY <1>1, <1>2, DecisionSuccessorFacts DEF TypeOK
<1>4. /\ i = 1 => ordinals[1].stage = "NONE" /\ ordinals[2].stage = "NONE"
      /\ i = 2 => ordinals[1].stage = "FINALIZED" /\ ordinals[2].stage = "NONE"
      /\ ~state.possible /\ ~state.revoked
  BY <1>2 DEF IInv, StageTable, StagePair, StateFlags, Resolving, RevokedNames
<1>5. StageTable'
  BY <1>2, <1>3, <1>4 DEF StageTable, StagePair, AdmittedStages, Signable, Legs
<1>6. StateFlags'
  BY <1>2, <1>3, <1>4 DEF StateFlags, Resolving, RevokedNames, Legs
<1>7. EvidenceChain'
  BY <1>2, <1>3, <1>4 DEF IInv, EvidenceChain, HasAcquisition, Inserted, Legs
<1>8. RefusalRecorded'
  BY <1>2, <1>3, <1>4 DEF IInv, RefusalRecorded, Inserted, LastLeg, Legs, Refused
<1>9. RevocationReflected'
  BY <1>2, <1>3, <1>4 DEF RevocationReflected, Revoked
<1> QED
  BY <1>2, <1>5, <1>6, <1>7, <1>8, <1>9 DEF IInv

(* Preparing the transaction of an admitted leg keeps the invariant. *)
LEMMA PrepareInvariant ==
  ASSUME IInv, NEW i \in Legs, NEW a, NEW p \in Plans, RecordPrepared(i, a, p),
         ordinals[i].successor.name \notin Refused
  PROVE  IInv'
<1>1. TypeOK
  BY DEF IInv
<1>2. /\ TypeOK'
      /\ ordinals[i].stage = "RESERVED" /\ ordinals'[i].stage = "PREPARED"
      /\ ordinals'[i].predecessor = ordinals[i].predecessor
      /\ ordinals'[i].successor = ordinals[i].successor
      /\ ordinals'[i].intent = ordinals[i].intent
      /\ ordinals'[i].evidence = ordinals[i].evidence
      /\ \A j \in Legs : j # i => ordinals'[j] = ordinals[j]
      /\ UNCHANGED <<state, challenges, revocations>>
  BY <1>1, PrepareEffect
<1>3. state.name \notin Refused
  BY <1>2 DEF IInv, RefusalRecorded, StageTable, StagePair, LastLeg, Inserted, Refused, Legs
<1>4. Inserted' = Inserted /\ LastLeg' = LastLeg
  BY <1>2 DEF Inserted, LastLeg
<1>5. StageTable'
  BY <1>2, <1>3 DEF IInv, StageTable, StagePair, AdmittedStages, Signable, Legs, Refused
<1>6. StateFlags'
  BY <1>2, <1>4 DEF IInv, StateFlags, LastLeg, Legs
<1>7. EvidenceChain'
  BY <1>2, <1>4 DEF IInv, EvidenceChain, HasAcquisition, Legs
<1>8. RefusalRecorded'
  BY <1>2, <1>3, <1>4 DEF IInv, RefusalRecorded, Inserted
<1>9. RevocationReflected'
  BY <1>2 DEF IInv, RevocationReflected, Revoked, ActiveStage, Legs
<1> QED
  BY <1>2, <1>5, <1>6, <1>7, <1>8, <1>9 DEF IInv

(* A key load starts only while the authorization stands. *)
LEMMA LoadKeyInvariant ==
  ASSUME IInv, NEW i \in Legs, NEW a, NEW p, RecordKeyLoadStarted(i, a, p)
  PROVE  IInv'
<1>1. TypeOK
  BY DEF IInv
<1>2. /\ TypeOK'
      /\ ~Revoked
      /\ ordinals[i].stage = "PREPARED" /\ ordinals'[i].stage = "KEY_LOAD_STARTED_AMBIGUOUS"
      /\ ordinals'[i].predecessor = ordinals[i].predecessor
      /\ ordinals'[i].successor = ordinals[i].successor
      /\ ordinals'[i].intent = ordinals[i].intent
      /\ ordinals'[i].evidence = ordinals[i].evidence
      /\ \A j \in Legs : j # i => ordinals'[j] = ordinals[j]
      /\ UNCHANGED <<state, challenges, revocations>>
  BY <1>1, LoadKeyEffect
<1>3. ~state.revoked
  BY <1>2 DEF IInv, RevocationReflected
<1>4. Inserted' = Inserted /\ LastLeg' = LastLeg
  BY <1>2 DEF Inserted, LastLeg
<1>5. StageTable'
  BY <1>2, <1>3 DEF IInv, StageTable, StagePair, StateFlags, AdmittedStages, Signable, Legs, RevokedNames
<1>6. StateFlags'
  BY <1>2, <1>4 DEF IInv, StateFlags, LastLeg, Legs
<1>7. EvidenceChain'
  BY <1>2, <1>4 DEF IInv, EvidenceChain, HasAcquisition, Legs
<1>8. RefusalRecorded'
  BY <1>2, <1>4 DEF IInv, RefusalRecorded, Inserted, LastLeg, Legs
<1>9. RevocationReflected'
  BY <1>2, <1>3 DEF RevocationReflected, Revoked
<1> QED
  BY <1>2, <1>5, <1>6, <1>7, <1>8, <1>9 DEF IInv

(* Durable signed bytes show in the state at once when it was revoked. *)
LEMMA SignInvariant ==
  ASSUME IInv, NEW i \in Legs, NEW a, NEW p, NEW w \in Intents,
         RecordSignedIntentDurable(i, a, p, w)
  PROVE  IInv'
<1>1. TypeOK
  BY DEF IInv
<1>2. /\ TypeOK'
      /\ ordinals[i].stage = "KEY_LOAD_STARTED_AMBIGUOUS"
      /\ ordinals'[i].stage = "SIGNED_INTENT_DURABLE"
      /\ ordinals'[i].intent = w
      /\ ordinals'[i].predecessor = ordinals[i].predecessor
      /\ ordinals'[i].successor = ordinals[i].successor
      /\ ordinals'[i].evidence = ordinals[i].evidence
      /\ \A j \in Legs : j # i => ordinals'[j] = ordinals[j]
      /\ UNCHANGED <<challenges, revocations>>
      /\ ~Revoked => state' = state
      /\ Revoked => /\ state'.name = "RESOLUTION_REQUIRED_AFTER_REVOCATION"
                    /\ state'.possible /\ state'.revoked /\ state'.intent = w
                    /\ state'.acquisition = state.acquisition
  BY <1>1, SignEffect
<1>3. /\ i = 1 => /\ state.name = "ACQUISITION_ADMITTED"
                  /\ ordinals[2].stage = "NONE"
      /\ i = 2 => /\ state.name = "DISPOSAL_ADMITTED"
                  /\ ordinals[1].stage = "FINALIZED"
  BY <1>2 DEF IInv, TypeOK, States, StateNames, Admitted, Resolving, Refused, RevokedNames,
              StageTable, StagePair, Legs
<1>4. Inserted' = Inserted /\ LastLeg' = LastLeg /\ LastLeg = i
  BY <1>2, <1>3 DEF Inserted, LastLeg, Legs
<1>5. CASE Revoked
  <2>1. StageTable'
    BY <1>2, <1>3, <1>5 DEF StageTable, StagePair, Legs
  <2>2. StateFlags'
    BY <1>2, <1>4, <1>5 DEF StateFlags, RevokedNames
  <2>3. EvidenceChain'
    BY <1>2, <1>4, <1>5 DEF IInv, EvidenceChain, HasAcquisition, Legs
  <2>4. RefusalRecorded'
    BY <1>2, <1>3, <1>4, <1>5 DEF IInv, RefusalRecorded, Inserted, Refused, Legs
  <2>5. RevocationReflected'
    BY <1>2, <1>5 DEF RevocationReflected, Revoked
  <2> QED
    BY <1>2, <2>1, <2>2, <2>3, <2>4, <2>5 DEF IInv
<1>6. CASE ~Revoked
  <2>1. StageTable'
    BY <1>2, <1>3, <1>6 DEF IInv, StageTable, StagePair, AdmittedStages, Signable, Legs
  <2>2. StateFlags'
    BY <1>2, <1>3, <1>6 DEF IInv, StateFlags, Resolving, Legs
  <2>3. EvidenceChain'
    BY <1>2, <1>4, <1>6 DEF IInv, EvidenceChain, HasAcquisition, Legs
  <2>4. RefusalRecorded'
    BY <1>2, <1>3, <1>4, <1>6 DEF IInv, RefusalRecorded, Inserted, Refused, Legs
  <2>5. RevocationReflected'
    BY <1>2, <1>6 DEF IInv, RevocationReflected, Revoked
  <2> QED
    BY <1>2, <2>1, <2>2, <2>3, <2>4, <2>5 DEF IInv
<1> QED
  BY <1>5, <1>6

(* The signed episode state is recorded only of an unrevoked leg. *)
LEMMA PersistInvariant ==
  ASSUME IInv, NEW i \in Legs, NEW w \in Intents, RecordSignedEpisodeState(i, state, w)
  PROVE  IInv'
<1>1. TypeOK
  BY DEF IInv
<1>2. /\ TypeOK'
      /\ ordinals[i].stage = "SIGNED_INTENT_DURABLE" /\ ordinals[i].intent = w
      /\ state.name \in Admitted
      /\ state'.possible /\ state'.revoked = state.revoked
      /\ state'.intent = w /\ state'.acquisition = state.acquisition
      /\ state'.name = IF state.name = "ACQUISITION_ADMITTED"
                        THEN "ACQUISITION_SUBMISSION_RESOLVING"
                        ELSE "DISPOSAL_SUBMISSION_RESOLVING"
      /\ UNCHANGED <<challenges, ordinals, revocations>>
  BY <1>1, PersistEffect
<1>3. /\ ~state.revoked
      /\ i = 1 => /\ state.name = "ACQUISITION_ADMITTED"
                  /\ ordinals[2].stage = "NONE"
      /\ i = 2 => /\ state.name = "DISPOSAL_ADMITTED"
                  /\ ordinals[1].stage = "FINALIZED"
  BY <1>2 DEF IInv, Admitted, RevokedNames, StateFlags, StageTable, StagePair, Legs
<1>4. LastLeg' = LastLeg /\ LastLeg = i /\ Inserted' = Inserted
  BY <1>2, <1>3 DEF Inserted, LastLeg, Legs
<1>5. ~Revoked
  BY <1>2, <1>3 DEF IInv, RevocationReflected, ActiveStage, AcquisitionNames, DisposalNames, Legs
<1>6. StageTable'
  BY <1>2, <1>3 DEF StageTable, StagePair, Legs
<1>7. StateFlags'
  BY <1>2, <1>3, <1>4 DEF StateFlags, Resolving, RevokedNames, Legs
<1>8. EvidenceChain'
  BY <1>2, <1>4 DEF IInv, EvidenceChain, HasAcquisition
<1>9. RefusalRecorded'
  BY <1>2, <1>3, <1>4 DEF IInv, RefusalRecorded, Refused, Legs
<1>10. RevocationReflected'
  BY <1>2, <1>3, <1>5 DEF RevocationReflected, Revoked
<1> QED
  BY <1>2, <1>6, <1>7, <1>8, <1>9, <1>10 DEF IInv

(* A submission owner is elected only while the authorization stands, and  *)
(* before the signed state is recorded only if the caller may do so.       *)
LEMMA SubmitInvariant ==
  ASSUME IInv, NEW i \in Legs, NEW w, RecordSubmissionPossible(i, w),
         SubmitAfterDecision => state.name \in Resolving
  PROVE  IInv'
<1>1. TypeOK
  BY DEF IInv
<1>2. /\ TypeOK'
      /\ ~Revoked
      /\ ordinals[i].stage = "SIGNED_INTENT_DURABLE" /\ ordinals'[i].stage = "SUBMISSION_POSSIBLE"
      /\ ordinals'[i].predecessor = ordinals[i].predecessor
      /\ ordinals'[i].successor = ordinals[i].successor
      /\ ordinals'[i].intent = ordinals[i].intent
      /\ ordinals'[i].evidence = ordinals[i].evidence
      /\ \A j \in Legs : j # i => ordinals'[j] = ordinals[j]
      /\ UNCHANGED <<state, challenges, revocations>>
  BY <1>1, SubmitEffect
<1>3. ~state.revoked
  BY <1>2 DEF IInv, RevocationReflected
<1>4. Inserted' = Inserted /\ LastLeg' = LastLeg
  BY <1>2 DEF Inserted, LastLeg
<1>5. StageTable'
  BY <1>2, <1>3 DEF IInv, StageTable, StagePair, AdmittedStages, Signable, Resolving, Legs
<1>6. StateFlags'
  BY <1>2, <1>4 DEF IInv, StateFlags, LastLeg, Legs
<1>7. EvidenceChain'
  BY <1>2, <1>4 DEF IInv, EvidenceChain, HasAcquisition, Legs
<1>8. RefusalRecorded'
  BY <1>2, <1>4 DEF IInv, RefusalRecorded, Inserted, LastLeg, Legs
<1>9. RevocationReflected'
  BY <1>2, <1>3 DEF RevocationReflected, Revoked
<1> QED
  BY <1>2, <1>5, <1>6, <1>7, <1>8, <1>9 DEF IInv

(* A settled leg hands its evidence to the state. *)
LEMMA SettleInvariant ==
  ASSUME IInv, NEW i \in Legs, NEW w, NEW e \in Evidence, Settle(i, w, e)
  PROVE  IInv'
<1>1. TypeOK
  BY DEF IInv
<1>2. /\ TypeOK'
      /\ CanCloseLeg(state, i)
      /\ ordinals[i].stage = "SUBMISSION_POSSIBLE" /\ ordinals'[i].stage = "FINALIZED"
      /\ ordinals'[i].evidence = e
      /\ ordinals'[i].predecessor = ordinals[i].predecessor
      /\ ordinals'[i].successor = ordinals[i].successor
      /\ \A j \in Legs : j # i => ordinals'[j] = ordinals[j]
      /\ UNCHANGED <<challenges, revocations>>
  BY <1>1, SettleEffect
<1>3. /\ ~state'.possible /\ state'.revoked = state.revoked
      /\ i = 1 => state'.acquisition = e
      /\ i = 2 => state'.acquisition = state.acquisition
      /\ i = 1 /\ state.revoked => state'.name = "REVOKED_AFTER_ACQUISITION"
      /\ i = 1 /\ ~state.revoked => state'.name = "ACQUISITION_EVIDENCE_CLOSED"
      /\ i = 2 /\ state.revoked => state'.name = "REVOKED_AFTER_DISPOSAL"
      /\ i = 2 /\ ~state.revoked => state'.name = "DISPOSAL_EVIDENCE_CLOSED"
  BY <1>1, SettleEffect
<1>4. /\ e # None
      /\ state.revoked \in BOOLEAN
  BY <1>1, NoneIsNoValue DEF TypeOK, States
<1>5. /\ i = 1 => ordinals[2].stage = "NONE"
      /\ i = 2 => ordinals[1].stage = "FINALIZED"
      /\ state.name \notin Refused
  BY <1>2 DEF IInv, CanCloseLeg, StageTable, StagePair, Refused, Legs
<1>6. Inserted' = Inserted /\ LastLeg' = LastLeg
  BY <1>2 DEF Inserted, LastLeg
<1>7. StageTable'
  BY <1>2, <1>3, <1>4, <1>5 DEF StageTable, StagePair, Legs
<1>8. StateFlags'
  BY <1>3, <1>4 DEF StateFlags, Resolving, RevokedNames, Legs
<1>9. EvidenceChain'
  BY <1>2, <1>3, <1>4, <1>5, <1>6 DEF IInv, EvidenceChain, HasAcquisition, Inserted, Legs
<1>10. RefusalRecorded'
  BY <1>2, <1>3, <1>4, <1>5, <1>6 DEF IInv, RefusalRecorded, Inserted, Refused, Legs
<1>11. RevocationReflected'
  <2>1. Revoked => state.revoked
    BY <1>2 DEF IInv, RevocationReflected, ActiveStage, CanCloseLeg, StateFlags, StageTable,
                StagePair, AcquisitionNames, DisposalNames, RevokedNames, Legs
  <2>2. state.revoked => Revoked
    BY DEF IInv, RevocationReflected
  <2> QED
    BY <1>2, <1>3, <2>1, <2>2 DEF RevocationReflected, Revoked
<1> QED
  BY <1>2, <1>7, <1>8, <1>9, <1>10, <1>11 DEF IInv

(* A revocation leaves a state that agrees with the stage it found: one    *)
(* case for each answer the human can be given.                            *)
LEMMA RevokeInvariant ==
  ASSUME IInv, NEW v \in Revocations, CanRevoke(state),
         RevokeAuthorization(RevocationOf(v, state))
  PROVE  IInv'
<1>1. TypeOK
  BY DEF IInv
<1>2. /\ TypeOK' /\ ~Revoked /\ Revoked' /\ StageAgrees(state)
      /\ UNCHANGED <<challenges, ordinals>>
  BY <1>1, RevokeEffect
<1>3. Inserted' = Inserted /\ LastLeg' = LastLeg
  BY <1>2 DEF Inserted, LastLeg
<1>4. /\ ~state.revoked
      /\ state.possible => state.name \in Resolving
      /\ ~state.possible => state.name \in {"AUTHORIZED_DORMANT", "ACQUISITION_ADMITTED",
                                "DISPOSAL_ADMITTED", "ACQUISITION_EVIDENCE_CLOSED"}
  BY DEF IInv, CanRevoke, RevocationTarget, StateFlags, Resolving, RevokedNames
<1>5. state.name \notin Refused
  BY <1>4 DEF Refused, Resolving
<1>6. CASE ActiveStage(state) = "KEY_LOAD_STARTED_AMBIGUOUS"
  <2>1. state' = state
    BY <1>1, <1>6, RevokeEffect
  <2>2. StageTable' /\ StateFlags' /\ EvidenceChain' /\ RefusalRecorded'
    BY <1>2, <1>3, <2>1 DEF IInv, StageTable, StagePair, StateFlags, EvidenceChain, RefusalRecorded
  <2>3. RevocationReflected'
    BY <1>2, <1>6, <2>1 DEF RevocationReflected, ActiveStage
  <2> QED
    BY <1>2, <2>2, <2>3 DEF IInv
<1>7. CASE ActiveStage(state) # "KEY_LOAD_STARTED_AMBIGUOUS"
  <2>1. state'.revoked /\ state'.acquisition = state.acquisition
    BY <1>1, <1>7, RevokeEffect
  <2>2. RevocationReflected'
    BY <1>2, <2>1 DEF RevocationReflected
  <2>3. EvidenceChain'
    BY <1>2, <1>3, <2>1 DEF IInv, EvidenceChain, HasAcquisition
  <2>4. CASE state.possible
    <3>1. /\ state'.possible /\ state'.name = "RESOLUTION_REQUIRED_AFTER_REVOCATION"
          /\ state'.intent = state.intent
      BY <1>1, <1>4, <1>7, <2>4, RevokeEffect
    <3>2. StageTable' /\ StateFlags' /\ RefusalRecorded'
      BY <1>2, <1>3, <1>4, <1>5, <2>1, <2>4, <3>1
      DEF IInv, StageTable, StagePair, StateFlags, RefusalRecorded, Resolving, RevokedNames, Refused
    <3> QED
      BY <1>2, <2>2, <2>3, <3>2 DEF IInv
  <2>5. CASE ~state.possible /\ ActiveStage(state) = "SIGNED_INTENT_DURABLE"
    <3>1. /\ state.name \notin Resolving /\ state.name \in Admitted
      BY <1>4, <2>5 DEF IInv, StageTable, StagePair, ActiveStage, AcquisitionNames,
                        DisposalNames, Resolving, Admitted
    <3>2. /\ state'.possible /\ state'.name = "RESOLUTION_REQUIRED_AFTER_REVOCATION"
          /\ state'.intent = ActiveIntent(state)
      BY <1>1, <2>5, <3>1, RevokeEffect
    <3>3. \/ /\ StagePair({"SIGNED_INTENT_DURABLE"}, {"NONE"}) /\ LastLeg = 1
             /\ ActiveIntent(state) = ordinals[1].intent
          \/ /\ StagePair({"FINALIZED"}, {"SIGNED_INTENT_DURABLE"}) /\ LastLeg = 2
             /\ ActiveIntent(state) = ordinals[2].intent
      BY <2>5, <3>1 DEF IInv, StageTable, StagePair, ActiveStage, ActiveIntent, AcquisitionNames,
                        DisposalNames, Admitted, LastLeg, Inserted, Legs
    <3>4. StageTable'
      BY <1>2, <3>2, <3>3 DEF StageTable, StagePair
    <3>5. StateFlags'
      BY <1>2, <1>3, <2>1, <3>2, <3>3 DEF StateFlags, RevokedNames
    <3>6. RefusalRecorded'
      BY <1>2, <1>3, <1>5, <3>2 DEF IInv, RefusalRecorded, Refused
    <3> QED
      BY <1>2, <2>2, <2>3, <3>4, <3>5, <3>6 DEF IInv
  <2>6. CASE ~state.possible /\ ActiveStage(state) # "SIGNED_INTENT_DURABLE"
    <3>1. ~state'.possible /\ state'.name = RevocationTarget[state.name]
      <4>1. state'.possible = state.possible /\ (~state.possible => state'.name = RevocationTarget[state.name])
        BY <1>1, <1>7, <2>6, RevokeEffect
      <4> QED
        BY <2>6, <4>1
    <3>2. /\ state.name = "AUTHORIZED_DORMANT" => state'.name = "REVOKED_BEFORE_FIRST_ADMISSION"
          /\ state.name = "ACQUISITION_ADMITTED" => state'.name = "REVOKED_BEFORE_ACQUISITION_SIGNING"
          /\ state.name = "DISPOSAL_ADMITTED" => state'.name = "REVOKED_BEFORE_DISPOSAL_SIGNING"
          /\ state.name = "ACQUISITION_EVIDENCE_CLOSED" => state'.name = "REVOKED_AFTER_ACQUISITION"
      BY <3>1 DEF RevocationTarget
    <3>3. /\ state.name = "ACQUISITION_ADMITTED" => ordinals[1].stage \in {"RESERVED", "PREPARED"}
          /\ state.name = "DISPOSAL_ADMITTED" => ordinals[2].stage \in {"RESERVED", "PREPARED"}
      BY <1>2, <1>7, <2>6 DEF StageAgrees, ActiveStage, AcquisitionNames, DisposalNames,
                              Admitted, Signable
    <3>4. StageTable'
      BY <1>2, <1>4, <2>6, <3>2, <3>3 DEF IInv, StageTable, StagePair
    <3>5. StateFlags'
      BY <1>4, <2>1, <2>6, <3>1, <3>2 DEF StateFlags, Resolving, RevokedNames
    <3>6. RefusalRecorded'
      BY <1>2, <1>3, <1>4, <1>5, <2>6, <3>2 DEF IInv, RefusalRecorded, Refused
    <3> QED
      BY <1>2, <2>2, <2>3, <3>4, <3>5, <3>6 DEF IInv
  <2> QED
    BY <2>4, <2>5, <2>6
<1> QED
  BY <1>6, <1>7

(* Every operation keeps the invariant. *)
LEMMA InvariantStep == IInv /\ [Next]_vars => IInv'
<1> SUFFICES ASSUME IInv, [Next]_vars PROVE IInv'
  OBVIOUS
<1>1. CASE Register
  <2>1. TypeOK'
    BY TypeStep DEF IInv
  <2>2. UNCHANGED <<state, ordinals, revocations>>
    BY <1>1 DEF Register, RegisterReadinessChallenge
  <2> QED
    BY <2>1, <2>2 DEF IInv, StageTable, StagePair, StateFlags, EvidenceChain, RefusalRecorded,
       RevocationReflected, Inserted, LastLeg, ActiveStage, Revoked
<1>2. CASE Consume
  BY <1>2, ConsumeInvariant DEF Consume
<1>3. CASE Prepare
  <2> PICK i \in Legs, d \in Decisions, c \in Challenges, p \in Plans :
         /\ ordinals[i].stage # "NONE" => ordinals[i].successor.name \notin Refused
         /\ RecordPrepared(i, Consumption(d, c), p)
    BY <1>3 DEF Prepare
  <2>1. ordinals[i].successor.name \notin Refused
    BY DEF RecordPrepared
  <2> QED
    BY <2>1, PrepareInvariant
<1>4. CASE LoadKey
  <2> PICK i \in Legs, d \in Decisions, c \in Challenges, p \in Plans :
         RecordKeyLoadStarted(i, Consumption(d, c), p)
    BY <1>4 DEF LoadKey
  <2> QED
    BY LoadKeyInvariant
<1>5. CASE Sign
  <2> PICK i \in Legs, d \in Decisions, c \in Challenges, p \in Plans, w \in Intents :
         RecordSignedIntentDurable(i, Consumption(d, c), p, w)
    BY <1>5 DEF Sign
  <2> QED
    BY SignInvariant
<1>6. CASE PersistSigned
  BY <1>6, PersistInvariant DEF PersistSigned
<1>7. CASE Submit
  BY <1>7, SubmitInvariant DEF Submit
<1>8. CASE Finalize
  BY <1>8, SettleInvariant DEF Finalize, CloseAcquisition, RecordFinalized, Legs
<1>9. CASE Revoke
  BY <1>9, RevokeInvariant DEF Revoke
<1>10. CASE UNCHANGED vars
  <2>1. TypeOK'
    BY TypeStep DEF IInv
  <2> QED
    BY <1>10, <2>1 DEF vars, IInv, StageTable, StagePair, StateFlags, EvidenceChain,
       RefusalRecorded, RevocationReflected, Inserted, LastLeg, ActiveStage, Revoked
<1> QED
  BY <1>1, <1>2, <1>3, <1>4, <1>5, <1>6, <1>7, <1>8, <1>9, <1>10 DEF Next

(* The stages of the two rows, the flags and evidence of the current state *)
(* and the revocation agree in every reachable state, whichever operations *)
(* ran and wherever a process crashed between them.                        *)
THEOREM Invariant == Spec => []IInv
BY InitInvariant, InvariantStep, PTL DEF Spec

-----------------------------------------------------------------------------
(* What the invariant says of the code *)

(* The disposal leg only ever starts from, and keeps, the evidence that    *)
(* settled the acquisition.                                                *)
THEOREM DisposalRests == Spec => []DisposalRestsOnSettledAcquisition
<1>1. IInv => DisposalRestsOnSettledAcquisition
  <2> SUFFICES ASSUME IInv, 2 \in Inserted
               PROVE  /\ ordinals[1].stage = "FINALIZED"
                      /\ ordinals[1].evidence # None
                      /\ ordinals[2].predecessor.acquisition = ordinals[1].evidence
                      /\ state.acquisition = ordinals[1].evidence
    BY DEF DisposalRestsOnSettledAcquisition
  <2>1. ordinals[1].stage = "FINALIZED"
    BY DEF IInv, TypeOK, States, StateNames, Admitted, Resolving, Refused, RevokedNames,
           StageTable, StagePair, Inserted
  <2> QED
    BY <2>1 DEF IInv, EvidenceChain, HasAcquisition
<1> QED
  BY <1>1, Invariant, PTL

(* The state shows a recorded revocation unless a key load is in flight. *)
THEOREM RevocationShown == Spec => []RevocationReflected
<1>1. IInv => RevocationReflected
  BY DEF IInv
<1> QED
  BY <1>1, Invariant, PTL

(* "Revoked before signing" is never said of a leg with signed bytes. *)
THEOREM RevokedBeforeSigningHolds == Spec => []RevokedBeforeSigningIsUnsigned
<1>1. IInv => RevokedBeforeSigningIsUnsigned
  BY DEF IInv, StageTable, StagePair, RevokedBeforeSigningIsUnsigned, Inserted, Legs
<1> QED
  BY <1>1, Invariant, PTL

(* The state claims a possible submission of exactly the retained bytes. *)
THEOREM SubmissionTracked == Spec => []PossibleSubmissionTracked
<1>1. IInv => PossibleSubmissionTracked
  <2> SUFFICES ASSUME IInv PROVE PossibleSubmissionTracked
    OBVIOUS
  <2>1. ASSUME state.possible
        PROVE  /\ ordinals[LastLeg].stage \in {"SIGNED_INTENT_DURABLE", "SUBMISSION_POSSIBLE"}
               /\ ordinals[LastLeg].intent = state.intent
    BY <2>1 DEF IInv, StateFlags, StageTable, StagePair, LastLeg, Inserted, Resolving, Legs
  <2>2. ASSUME NEW i \in Legs,
               ordinals[i].stage \in {"SIGNED_INTENT_DURABLE", "SUBMISSION_POSSIBLE"}
        PROVE  state.possible \/ state.name \in Admitted
    BY <2>2 DEF IInv, TypeOK, States, StateNames, Admitted, Resolving, Refused, RevokedNames,
                StateFlags, StageTable, StagePair, Legs
  <2> QED
    BY <2>1, <2>2 DEF PossibleSubmissionTracked
<1> QED
  BY <1>1, Invariant, PTL

-----------------------------------------------------------------------------
(* The steps: what they leave alone, what they refine, what they leave to   *)
(* be opened again.                                                         *)

(* A step is one of these, with the identities it was called with. *)
LEMMA StepCases ==
  ASSUME [Next]_vars
  PROVE  \/ UNCHANGED <<state, ordinals, revocations>>
         \/ \E i \in Legs, d \in Decisions, c \in Challenges, refused \in BOOLEAN :
              ConsumeEpisodeOrdinal(Reservation(i, state, d, c, refused))
         \/ \E i \in Legs, a \in Consumptions, p \in Plans :
              /\ RecordPrepared(i, a, p)
              /\ ordinals[i].successor.name \notin Refused
         \/ \E i \in Legs, a \in Consumptions, p \in Plans : RecordKeyLoadStarted(i, a, p)
         \/ \E i \in Legs, a \in Consumptions, p \in Plans, w \in Intents :
              RecordSignedIntentDurable(i, a, p, w)
         \/ \E i \in Legs, w \in Intents : RecordSignedEpisodeState(i, state, w)
         \/ \E i \in Legs, w \in Intents : RecordSubmissionPossible(i, w)
         \/ \E i \in Legs, w \in Intents, e \in Evidence : Settle(i, w, e)
         \/ \E v \in Revocations :
              CanRevoke(state) /\ RevokeAuthorization(RevocationOf(v, state))
<1>0. \A d \in Decisions, c \in Challenges : Consumption(d, c) \in Consumptions
  BY DEF Consumption, Consumptions
<1>1. CASE Register
  BY <1>1 DEF Register, RegisterReadinessChallenge
<1>2. CASE Consume
  BY <1>2 DEF Consume
<1>3. CASE Prepare
  BY <1>0, <1>3 DEF Prepare, RecordPrepared
<1>4. CASE LoadKey
  BY <1>0, <1>4 DEF LoadKey
<1>5. CASE Sign
  BY <1>0, <1>5 DEF Sign
<1>6. CASE PersistSigned
  BY <1>6 DEF PersistSigned
<1>7. CASE Submit
  BY <1>7 DEF Submit
<1>8. CASE Finalize
  BY <1>8 DEF Finalize, CloseAcquisition, RecordFinalized, Legs
<1>9. CASE Revoke
  BY <1>9 DEF Revoke
<1>10. CASE UNCHANGED vars
  BY <1>10 DEF vars
<1> QED
  BY <1>1, <1>2, <1>3, <1>4, <1>5, <1>6, <1>7, <1>8, <1>9, <1>10 DEF Next

(* After a revocation only signing, settling and preparing move a row. *)
LEMMA RevokedStep ==
  ASSUME IInv, [Next]_vars, Revoked
  PROVE  /\ revocations' = revocations
         /\ Inserted' = Inserted
         /\ \A i \in Legs : ordinals[i].stage # ordinals'[i].stage =>
              ordinals'[i].stage \notin {"KEY_LOAD_STARTED_AMBIGUOUS", "SUBMISSION_POSSIBLE"}
<1> DEFINE Goal == /\ revocations' = revocations
                   /\ Inserted' = Inserted
                   /\ \A i \in Legs : ordinals[i].stage # ordinals'[i].stage =>
                        ordinals'[i].stage \notin {"KEY_LOAD_STARTED_AMBIGUOUS", "SUBMISSION_POSSIBLE"}
<1>0. TypeOK
  BY DEF IInv
<1>1. CASE UNCHANGED <<state, ordinals, revocations>>
  BY <1>1 DEF Inserted
<1>2. ASSUME NEW i \in Legs, NEW a, NEW p \in Plans, RecordPrepared(i, a, p) PROVE Goal
  BY <1>0, <1>2, PrepareEffect DEF Inserted
<1>3. ASSUME NEW i \in Legs, NEW a, NEW p, NEW w \in Intents, RecordSignedIntentDurable(i, a, p, w)
      PROVE  Goal
  BY <1>0, <1>3, SignEffect DEF Inserted
<1>4. ASSUME NEW i \in Legs, NEW w \in Intents, RecordSignedEpisodeState(i, state, w) PROVE Goal
  BY <1>4 DEF RecordSignedEpisodeState, Inserted
<1>5. ASSUME NEW i \in Legs, NEW w, NEW e \in Evidence, Settle(i, w, e) PROVE Goal
  BY <1>0, <1>5, SettleEffect DEF Inserted
<1>6. /\ \A i \in Legs, d \in Decisions, c \in Challenges, refused \in BOOLEAN :
           ~ConsumeEpisodeOrdinal(Reservation(i, state, d, c, refused))
      /\ \A v \in Revocations :
           ~(CanRevoke(state) /\ RevokeAuthorization(RevocationOf(v, state)))
  BY <1>0, ConsumeEffect, RevokeEffect
<1>7. /\ \A i \in Legs, a \in Consumptions, p \in Plans : ~RecordKeyLoadStarted(i, a, p)
      /\ \A i \in Legs, w \in Intents : ~RecordSubmissionPossible(i, w)
  BY DEF RecordKeyLoadStarted, RecordSubmissionPossible
<1> QED
  BY <1>1, <1>2, <1>3, <1>4, <1>5, <1>6, <1>7, StepCases

(* Once the human has revoked, no caller can consume a decision, start a   *)
(* key load or elect a submission owner, in any process, ever after.       *)
THEOREM RevocationFinal == Spec => RevocationIsFinal
<1>1. IInv /\ [Next]_vars =>
        [Revoked =>
           /\ revocations' = revocations
           /\ Inserted' = Inserted
           /\ \A i \in Legs : ordinals[i].stage # ordinals'[i].stage =>
                ordinals'[i].stage \notin {"KEY_LOAD_STARTED_AMBIGUOUS", "SUBMISSION_POSSIBLE"}]_vars
  BY RevokedStep
<1> QED
  BY <1>1, Invariant, PTL DEF Spec, RevocationIsFinal

(* No operation finds a row it could move once a decision was refused. *)
LEMMA RefusedStep ==
  ASSUME IInv, [Next]_vars, state.name \in Refused
  PROVE  UNCHANGED <<state, ordinals, revocations>>
<1>0. TypeOK /\ \A i \in Legs : ordinals[i].stage \in {"NONE", "RESERVED", "FINALIZED"}
  BY DEF IInv, StageTable, StagePair, Refused, Legs
<1>1. /\ ~CanRevoke(state)
      /\ state.name \notin {"AUTHORIZED_DORMANT", "ACQUISITION_EVIDENCE_CLOSED"}
  BY DEF IInv, StateFlags, CanRevoke, Refused, Resolving, RevocationTarget
<1>2. \A i \in Legs, a \in Consumptions, p \in Plans :
        RecordPrepared(i, a, p) => ordinals[i].successor.name \in Refused
  BY DEF IInv, RefusalRecorded, RecordPrepared, StageTable, StagePair, LastLeg, Inserted, Refused, Legs
<1>3. \A i \in Legs, d \in Decisions, c \in Challenges, refused \in BOOLEAN :
        ~ConsumeEpisodeOrdinal(Reservation(i, state, d, c, refused))
  BY <1>0, <1>1, ConsumeEffect
<1>4. /\ \A i \in Legs, a \in Consumptions, p \in Plans : ~RecordKeyLoadStarted(i, a, p)
      /\ \A i \in Legs, a \in Consumptions, p \in Plans, w \in Intents :
           ~RecordSignedIntentDurable(i, a, p, w)
      /\ \A i \in Legs, w \in Intents : ~RecordSubmissionPossible(i, w)
      /\ \A i \in Legs, w \in Intents, e \in Evidence : ~Settle(i, w, e)
      /\ \A i \in Legs, w \in Intents : ~RecordSignedEpisodeState(i, state, w)
  BY <1>0 DEF RecordKeyLoadStarted, RecordSignedIntentDurable, RecordSignedEpisodeState,
              RecordSubmissionPossible, Settle
<1> QED
  BY <1>1, <1>2, <1>3, <1>4, StepCases

(* A decision the agent refused ends the episode for good. *)
THEOREM RefusalFinal == Spec => RefusalIsFinal
<1>1. IInv /\ [Next]_vars =>
        [state.name \in Refused => UNCHANGED <<state, ordinals, revocations>>]_vars
  BY RefusedStep
<1> QED
  BY <1>1, Invariant, PTL DEF Spec, RefusalIsFinal

-----------------------------------------------------------------------------
(* Rows *)

Columns == {"predecessor", "successor", "admission", "plan", "intent", "evidence"}

Keeps(i) ==
  /\ Rank(ordinals[i].stage) <= Rank(ordinals'[i].stage)
  /\ Rank(ordinals'[i].stage) <= Rank(ordinals[i].stage) + 1
  /\ \A f \in Columns : ordinals[i][f] # None => ordinals'[i][f] = ordinals[i][f]

(* The stages are ranked in the order a leg runs through them. *)
LEMMA Ranks ==
  /\ Rank("NONE") = 0 /\ Rank("RESERVED") = 1 /\ Rank("PREPARED") = 2
  /\ Rank("KEY_LOAD_STARTED_AMBIGUOUS") = 3 /\ Rank("SIGNED_INTENT_DURABLE") = 4
  /\ Rank("SUBMISSION_POSSIBLE") = 5 /\ Rank("FINALIZED") = 6
BY DEF Rank

(* An unchanged row keeps everything. *)
LEMMA UnchangedKeeps ==
  ASSUME TypeOK, NEW i \in Legs, ordinals'[i] = ordinals[i]
  PROVE  Keeps(i)
<1>1. Rank(ordinals[i].stage) \in Nat
  BY Ranks DEF TypeOK, Rows, Stages, Signable
<1> QED
  BY <1>1 DEF Keeps

(* Every step keeps what a row retained, and leaves its shape intact. *)
LEMMA RowStep ==
  ASSUME TypeOK, RowsShaped, [Next]_vars, NEW i \in Inserted
  PROVE  i \in Inserted' /\ Keeps(i) /\ RowShape(ordinals'[i])
<1> DEFINE Goal == i \in Inserted' /\ Keeps(i) /\ RowShape(ordinals'[i])
<1>0. i \in Legs /\ RowShape(ordinals[i])
  BY DEF Inserted, RowsShaped
<1>1. ASSUME ordinals'[i] = ordinals[i] PROVE Goal
  BY <1>0, <1>1, UnchangedKeeps DEF Inserted
<1>2. ASSUME NEW j \in Legs, NEW a, NEW p \in Plans, RecordPrepared(j, a, p) PROVE Goal
  <2>1. CASE j = i
    <3>1. /\ ordinals[i].stage = "RESERVED" /\ ordinals'[i].stage = "PREPARED"
          /\ ordinals'[i].plan = p
          /\ ordinals'[i].predecessor = ordinals[i].predecessor
          /\ ordinals'[i].successor = ordinals[i].successor
          /\ ordinals'[i].admission = ordinals[i].admission
          /\ ordinals'[i].intent = ordinals[i].intent
          /\ ordinals'[i].evidence = ordinals[i].evidence
      BY <1>2, <2>1, PrepareEffect
    <3>2. p # None
      BY NoneIsNoValue
    <3>3. Keeps(i)
      BY <1>0, <3>1, Ranks DEF Keeps, Columns, RowShape
    <3> QED
      BY <1>0, <3>1, <3>2, <3>3 DEF RowShape, Inserted, Retained
  <2> QED
    BY <1>0, <1>1, <1>2, <2>1, PrepareEffect
<1>3. ASSUME NEW j \in Legs, NEW a, NEW p, RecordKeyLoadStarted(j, a, p) PROVE Goal
  <2>1. CASE j = i
    <3>1. /\ ordinals[i].stage = "PREPARED" /\ ordinals'[i].stage = "KEY_LOAD_STARTED_AMBIGUOUS"
          /\ \A f \in Columns : ordinals'[i][f] = ordinals[i][f]
      BY <1>3, <2>1, LoadKeyEffect DEF Columns
    <3>2. Keeps(i)
      BY <3>1, Ranks DEF Keeps
    <3> QED
      BY <1>0, <3>1, <3>2 DEF RowShape, Inserted, Retained, Columns
  <2> QED
    BY <1>0, <1>1, <1>3, <2>1, LoadKeyEffect
<1>4. ASSUME NEW j \in Legs, NEW a, NEW p, NEW w \in Intents, RecordSignedIntentDurable(j, a, p, w)
      PROVE  Goal
  <2>1. CASE j = i
    <3>1. /\ ordinals[i].stage = "KEY_LOAD_STARTED_AMBIGUOUS"
          /\ ordinals'[i].stage = "SIGNED_INTENT_DURABLE"
          /\ ordinals'[i].intent = w
          /\ ordinals'[i].predecessor = ordinals[i].predecessor
          /\ ordinals'[i].successor = ordinals[i].successor
          /\ ordinals'[i].admission = ordinals[i].admission
          /\ ordinals'[i].plan = ordinals[i].plan
          /\ ordinals'[i].evidence = ordinals[i].evidence
      BY <1>4, <2>1, SignEffect
    <3>2. w # None
      BY NoneIsNoValue
    <3>3. Keeps(i)
      BY <1>0, <3>1, Ranks DEF Keeps, Columns, RowShape, Retained
    <3> QED
      BY <1>0, <3>1, <3>2, <3>3 DEF RowShape, Inserted, Retained
  <2> QED
    BY <1>0, <1>1, <1>4, <2>1, SignEffect
<1>5. ASSUME NEW j \in Legs, NEW w, RecordSubmissionPossible(j, w) PROVE Goal
  <2>1. CASE j = i
    <3>1. /\ ordinals[i].stage = "SIGNED_INTENT_DURABLE" /\ ordinals'[i].stage = "SUBMISSION_POSSIBLE"
          /\ \A f \in Columns : ordinals'[i][f] = ordinals[i][f]
      BY <1>5, <2>1, SubmitEffect DEF Columns
    <3>2. Keeps(i)
      BY <3>1, Ranks DEF Keeps
    <3> QED
      BY <1>0, <3>1, <3>2 DEF RowShape, Inserted, Retained, Columns
  <2> QED
    BY <1>0, <1>1, <1>5, <2>1, SubmitEffect
<1>6. ASSUME NEW j \in Legs, NEW w, NEW e \in Evidence, Settle(j, w, e) PROVE Goal
  <2>1. CASE j = i
    <3>1. /\ ordinals[i].stage = "SUBMISSION_POSSIBLE" /\ ordinals'[i].stage = "FINALIZED"
          /\ ordinals'[i].evidence = e
          /\ ordinals'[i].predecessor = ordinals[i].predecessor
          /\ ordinals'[i].successor = ordinals[i].successor
          /\ ordinals'[i].admission = ordinals[i].admission
          /\ ordinals'[i].plan = ordinals[i].plan
          /\ ordinals'[i].intent = ordinals[i].intent
      BY <1>6, <2>1, SettleEffect
    <3>2. e # None
      BY NoneIsNoValue
    <3>3. Keeps(i)
      BY <1>0, <3>1, Ranks DEF Keeps, Columns, RowShape
    <3> QED
      BY <1>0, <3>1, <3>2, <3>3 DEF RowShape, Inserted, Retained
  <2> QED
    BY <1>0, <1>1, <1>6, <2>1, SettleEffect
<1>7. ASSUME NEW j \in Legs, NEW d \in Decisions, NEW c \in Challenges, NEW refused \in BOOLEAN,
             ConsumeEpisodeOrdinal(Reservation(j, state, d, c, refused))
      PROVE  Goal
  <2>1. j # i /\ \A k \in Legs : k # j => ordinals'[k] = ordinals[k]
    BY <1>7, ConsumeEffect
  <2> QED
    BY <1>0, <1>1, <2>1
<1>8. ASSUME NEW j \in Legs, NEW w \in Intents, RecordSignedEpisodeState(j, state, w) PROVE Goal
  BY <1>1, <1>8 DEF RecordSignedEpisodeState
<1>9. ASSUME NEW v \in Revocations, RevokeAuthorization(RevocationOf(v, state)) PROVE Goal
  BY <1>1, <1>9 DEF RevokeAuthorization
<1>10. CASE UNCHANGED <<state, ordinals, revocations>>
  BY <1>1, <1>10
<1>11. CASE \E j \in Legs, a \in Consumptions, p \in Plans :
              RecordPrepared(j, a, p) /\ ordinals[j].successor.name \notin Refused
  BY <1>2, <1>11
<1>12. CASE \E j \in Legs, a \in Consumptions, p \in Plans : RecordKeyLoadStarted(j, a, p)
  BY <1>3, <1>12
<1>13. CASE \E j \in Legs, a \in Consumptions, p \in Plans, w \in Intents :
              RecordSignedIntentDurable(j, a, p, w)
  BY <1>4, <1>13
<1>14. CASE \E j \in Legs, w \in Intents : RecordSubmissionPossible(j, w)
  BY <1>5, <1>14
<1>15. CASE \E j \in Legs, w \in Intents, e \in Evidence : Settle(j, w, e)
  BY <1>6, <1>15
<1>16. CASE \E j \in Legs, d \in Decisions, c \in Challenges, refused \in BOOLEAN :
              ConsumeEpisodeOrdinal(Reservation(j, state, d, c, refused))
  BY <1>7, <1>16
<1> QED
  BY <1>8, <1>9, <1>10, <1>11, <1>12, <1>13, <1>14, <1>15, <1>16, StepCases

(* A row that is inserted has retained nothing yet but its admission. *)
LEMMA InsertedStep ==
  ASSUME TypeOK, [Next]_vars, NEW i \in Inserted', i \notin Inserted
  PROVE  RowShape(ordinals'[i])
<1>0. i \in Legs /\ ordinals[i].stage = "NONE" /\ ordinals'[i].stage # "NONE"
  BY DEF Inserted
<1>1. ASSUME NEW j \in Legs, NEW d \in Decisions, NEW c \in Challenges, NEW refused \in BOOLEAN,
             ConsumeEpisodeOrdinal(Reservation(j, state, d, c, refused))
      PROVE  RowShape(ordinals'[i])
  <2>1. j = i
    BY <1>0, <1>1, ConsumeEffect
  <2>2. /\ ordinals'[i].stage = "RESERVED" /\ ordinals'[i].plan = None
        /\ ordinals'[i].intent = None /\ ordinals'[i].evidence = None
    BY <1>1, <2>1, ConsumeEffect
  <2> QED
    BY <2>2 DEF RowShape, Retained
<1>2. /\ \A j \in Legs, a \in Consumptions, p \in Plans : ~RecordKeyLoadStarted(j, a, p)
      /\ \A j \in Legs, a \in Consumptions, p \in Plans, w \in Intents :
           ~RecordSignedIntentDurable(j, a, p, w)
      /\ \A j \in Legs, w \in Intents : ~RecordSubmissionPossible(j, w)
      /\ \A j \in Legs, w \in Intents, e \in Evidence : ~Settle(j, w, e)
      /\ \A j \in Legs, a \in Consumptions, p \in Plans : ~RecordPrepared(j, a, p)
  BY <1>0, PrepareEffect, LoadKeyEffect, SignEffect, SubmitEffect, SettleEffect
<1>3. /\ \A j \in Legs, w \in Intents : ~RecordSignedEpisodeState(j, state, w)
      /\ \A v \in Revocations : ~RevokeAuthorization(RevocationOf(v, state))
      /\ ~UNCHANGED <<state, ordinals, revocations>>
  BY <1>0 DEF RecordSignedEpisodeState, RevokeAuthorization
<1>4. \E j \in Legs, d \in Decisions, c \in Challenges, refused \in BOOLEAN :
        ConsumeEpisodeOrdinal(Reservation(j, state, d, c, refused))
  BY <1>2, <1>3, StepCases
<1> QED
  BY <1>1, <1>4

(* The rows of every reachable database have the shape its opening         *)
(* requires: a plan, signed intent or evidence exactly from its stage on.  *)
THEOREM RowsAlwaysShaped == Spec => []RowsShaped
<1>1. Init => RowsShaped
  BY DEF Init, RowsShaped, Inserted, NoRow
<1>2. TypeOK /\ RowsShaped /\ [Next]_vars => RowsShaped'
  BY RowStep, InsertedStep DEF RowsShaped
<1> QED
  BY <1>1, <1>2, TypeCorrect, PTL DEF Spec

(* A leg only moves forward, one stage at a time, and a recovery always    *)
(* finds the admission, plan, signed bytes and evidence that were stored.  *)
THEOREM Retention == Spec => RetainedForever
<1>1. TypeOK /\ RowsShaped /\ [Next]_vars => [\A i \in Inserted : Keeps(i)]_vars
  BY RowStep
<1> QED
  BY <1>1, TypeCorrect, RowsAlwaysShaped, PTL DEF Spec, RetainedForever, Keeps, Columns

-----------------------------------------------------------------------------
(* The bounded episode the human authorized *)

(* The phase of a leg is a function of its stage and, before its key load, *)
(* of whether its decision was refused.                                    *)
LEMMA PhaseFacts ==
  ASSUME NEW row
  PROVE  /\ row.stage = "NONE" => PhaseOf(row) = "idle"
         /\ row.stage \in {"RESERVED", "PREPARED"} /\ row.successor.name \in Refused
              => PhaseOf(row) = "refused"
         /\ row.stage \in {"RESERVED", "PREPARED"} /\ row.successor.name \notin Refused
              => PhaseOf(row) = "reserved"
         /\ row.stage = "KEY_LOAD_STARTED_AMBIGUOUS" => PhaseOf(row) = "signing"
         /\ row.stage = "SIGNED_INTENT_DURABLE" => PhaseOf(row) = "signed"
         /\ row.stage = "SUBMISSION_POSSIBLE" => PhaseOf(row) = "released"
         /\ row.stage = "FINALIZED" => PhaseOf(row) = "settled"
BY DEF PhaseOf

(* Advancing one row moves the phase of its leg alone. *)
LEMMA PhaseMoves ==
  ASSUME TypeOK, TypeOK', NEW i \in Legs, NEW from, NEW to,
         PhaseOf(ordinals[i]) = from, PhaseOf(ordinals'[i]) = to,
         \A j \in Legs : j # i => ordinals'[j] = ordinals[j],
         UNCHANGED revocations
  PROVE  Episode!Move(i, from, to)
<1>1. Phase[i] = from
  BY DEF Phase
<1>2. Phase' = [Phase EXCEPT ![i] = to]
  BY DEF Phase
<1>3. UNCHANGED Revoked
  BY DEF Revoked
<1> QED
  BY <1>1, <1>2, <1>3 DEF Episode!Move

(* A step that changes neither rows nor revocations moves no phase. *)
LEMMA PhaseRests ==
  ASSUME UNCHANGED <<ordinals, revocations>>
  PROVE  UNCHANGED Episode!episodeVars
BY DEF Phase, Revoked, Episode!episodeVars

(* Every operation is a step of the episode's promise or changes no phase. *)
LEMMA EpisodeStep ==
  ASSUME IInv, TypeOK', [Next]_vars
  PROVE  [Episode!EpisodeNext]_(Episode!episodeVars)
<1>0. TypeOK
  BY DEF IInv
<1>1. CASE Register
  <2>1. UNCHANGED <<ordinals, revocations>>
    BY <1>1 DEF Register, RegisterReadinessChallenge
  <2> QED
    BY <2>1, PhaseRests
<1>2. CASE Consume
  <2> PICK i \in Legs, d \in Decisions, c \in Challenges, refused \in BOOLEAN :
         ConsumeEpisodeOrdinal(Reservation(i, state, d, c, refused))
    BY <1>2 DEF Consume
  <2>1. /\ i \notin Inserted /\ ~Revoked
        /\ i = 2 => ordinals[1].stage = "FINALIZED"
        /\ ordinals'[i].stage = "RESERVED"
        /\ \A j \in Legs : j # i => ordinals'[j] = ordinals[j]
        /\ UNCHANGED revocations
    BY <1>0, ConsumeEffect
  <2>2. PhaseOf(ordinals[i]) = "idle"
    BY <2>1, PhaseFacts DEF Inserted
  <2>3. i = 2 => Phase[1] = "settled"
    BY <2>1, PhaseFacts DEF Phase, Legs
  <2>4. CASE ordinals'[i].successor.name \in Refused
    <3>1. Episode!Move(i, "idle", "refused")
      BY <1>0, <2>1, <2>2, <2>4, PhaseFacts, PhaseMoves
    <3> QED
      BY <2>1, <2>3, <3>1 DEF Episode!Reserve, Episode!EpisodeNext, Episode!EpisodeLegs, Legs
  <2>5. CASE ordinals'[i].successor.name \notin Refused
    <3>1. Episode!Move(i, "idle", "reserved")
      BY <1>0, <2>1, <2>2, <2>5, PhaseFacts, PhaseMoves
    <3> QED
      BY <2>1, <2>3, <3>1 DEF Episode!Reserve, Episode!EpisodeNext, Episode!EpisodeLegs, Legs
  <2> QED
    BY <2>4, <2>5
<1>3. CASE Prepare
  <2> PICK i \in Legs, d \in Decisions, c \in Challenges, p \in Plans :
         RecordPrepared(i, Consumption(d, c), p)
    BY <1>3 DEF Prepare
  <2>1. /\ ordinals[i].stage = "RESERVED" /\ ordinals'[i].stage = "PREPARED"
        /\ ordinals'[i].successor = ordinals[i].successor
        /\ \A j \in Legs : j # i => ordinals'[j] = ordinals[j]
        /\ UNCHANGED revocations
    BY <1>0, PrepareEffect
  <2>2. PhaseOf(ordinals'[i]) = PhaseOf(ordinals[i])
    BY <2>1, PhaseFacts
  <2>3. UNCHANGED Phase /\ UNCHANGED Revoked
    BY <2>1, <2>2 DEF Phase, Revoked
  <2> QED
    BY <2>3 DEF Episode!episodeVars
<1>4. CASE LoadKey
  <2> PICK i \in Legs, d \in Decisions, c \in Challenges, p \in Plans :
         RecordKeyLoadStarted(i, Consumption(d, c), p)
    BY <1>4 DEF LoadKey
  <2>1. /\ ~Revoked
        /\ ordinals[i].stage = "PREPARED" /\ ordinals'[i].stage = "KEY_LOAD_STARTED_AMBIGUOUS"
        /\ \A j \in Legs : j # i => ordinals'[j] = ordinals[j]
        /\ UNCHANGED revocations
    BY <1>0, LoadKeyEffect
  <2>2. ordinals[i].successor.name \notin Refused
    BY <2>1 DEF IInv, RefusalRecorded, StageTable, StagePair, Inserted, Refused, Legs
  <2>3. Episode!Move(i, "reserved", "signing")
    BY <1>0, <2>1, <2>2, PhaseFacts, PhaseMoves
  <2> QED
    BY <2>1, <2>3 DEF Episode!StartSigning, Episode!EpisodeNext, Episode!EpisodeLegs, Legs
<1>5. CASE Sign
  <2> PICK i \in Legs, d \in Decisions, c \in Challenges, p \in Plans, w \in Intents :
         RecordSignedIntentDurable(i, Consumption(d, c), p, w)
    BY <1>5 DEF Sign
  <2>1. /\ ordinals[i].stage = "KEY_LOAD_STARTED_AMBIGUOUS"
        /\ ordinals'[i].stage = "SIGNED_INTENT_DURABLE"
        /\ \A j \in Legs : j # i => ordinals'[j] = ordinals[j]
        /\ UNCHANGED revocations
    BY <1>0, SignEffect
  <2>2. Episode!Move(i, "signing", "signed")
    BY <1>0, <2>1, PhaseFacts, PhaseMoves
  <2> QED
    BY <2>2 DEF Episode!KeepSigned, Episode!EpisodeNext, Episode!EpisodeLegs, Legs
<1>6. CASE PersistSigned
  <2>1. UNCHANGED <<ordinals, revocations>>
    BY <1>6 DEF PersistSigned, RecordSignedEpisodeState
  <2> QED
    BY <2>1, PhaseRests
<1>7. CASE Submit
  <2> PICK i \in Legs, w \in Intents : RecordSubmissionPossible(i, w)
    BY <1>7 DEF Submit
  <2>1. /\ ~Revoked
        /\ ordinals[i].stage = "SIGNED_INTENT_DURABLE" /\ ordinals'[i].stage = "SUBMISSION_POSSIBLE"
        /\ \A j \in Legs : j # i => ordinals'[j] = ordinals[j]
        /\ UNCHANGED revocations
    BY <1>0, SubmitEffect
  <2>2. Episode!Move(i, "signed", "released")
    BY <1>0, <2>1, PhaseFacts, PhaseMoves
  <2> QED
    BY <2>1, <2>2 DEF Episode!Release, Episode!EpisodeNext, Episode!EpisodeLegs, Legs
<1>8. CASE Finalize
  <2> PICK i \in Legs, w \in Intents, e \in Evidence : Settle(i, w, e)
    BY <1>8 DEF Finalize, CloseAcquisition, RecordFinalized, Legs
  <2>1. /\ ordinals[i].stage = "SUBMISSION_POSSIBLE" /\ ordinals'[i].stage = "FINALIZED"
        /\ \A j \in Legs : j # i => ordinals'[j] = ordinals[j]
        /\ UNCHANGED revocations
    BY <1>0, SettleEffect
  <2>2. Episode!Move(i, "released", "settled")
    BY <1>0, <2>1, PhaseFacts, PhaseMoves
  <2> QED
    BY <2>2 DEF Episode!SettleLeg, Episode!EpisodeNext, Episode!EpisodeLegs, Legs
<1>9. CASE Revoke
  <2> PICK v \in Revocations : CanRevoke(state) /\ RevokeAuthorization(RevocationOf(v, state))
    BY <1>9 DEF Revoke
  <2>1. ~Revoked /\ Revoked' /\ UNCHANGED ordinals
    BY <1>0, RevokeEffect
  <2>2. state.name \notin Refused /\ ordinals[2].stage # "FINALIZED"
    BY DEF IInv, CanRevoke, StateFlags, StageTable, StagePair, AdmittedStages, Signable,
           RevocationTarget, Resolving, RevokedNames, Refused
  <2>3. \A i \in Legs : PhaseOf(ordinals[i]) # "refused"
    <3> SUFFICES ASSUME NEW i \in Legs PROVE PhaseOf(ordinals[i]) # "refused"
      OBVIOUS
    <3>1. ordinals[i].stage = "NONE" \/ ordinals[i].successor.name \notin Refused
      BY <2>2 DEF IInv, RefusalRecorded, Inserted
    <3>2. ordinals[i].stage \in Stages
      BY <1>0 DEF TypeOK, Rows
    <3> QED
      BY <3>1, <3>2, PhaseFacts DEF Stages, Signable
  <2>4. PhaseOf(ordinals[2]) # "settled"
    <3>1. ordinals[2].stage \in Stages
      BY <1>0 DEF TypeOK, Rows, Legs
    <3> QED
      BY <2>2, <3>1, PhaseFacts DEF Stages, Signable
  <2>5. UNCHANGED Phase
    BY <2>1 DEF Phase
  <2>6. Revoked' = TRUE
    BY <2>1
  <2>7. /\ \A i \in Episode!EpisodeLegs : Phase[i] # "refused"
        /\ Phase[2] # "settled"
    BY <2>3, <2>4 DEF Phase, Legs, Episode!EpisodeLegs
  <2> QED
    BY <2>1, <2>5, <2>6, <2>7 DEF Episode!RevokeEpisode, Episode!EpisodeNext
<1>10. CASE UNCHANGED vars
  BY <1>10, PhaseRests DEF vars
<1> QED
  BY <1>1, <1>2, <1>3, <1>4, <1>5, <1>6, <1>7, <1>8, <1>9, <1>10 DEF Next

(* The decision authority implements the bounded episode: at most two legs *)
(* each signed at most once, the disposal after the settled acquisition,   *)
(* and nothing new started once the human's revocation is recorded.        *)
THEOREM Refinement == Spec => ImplementsBoundedEpisode
<1>1. Init => Episode!EpisodeInit
  <2> SUFFICES ASSUME Init PROVE Episode!EpisodeInit
    OBVIOUS
  <2>1. ~Revoked /\ \A i \in Legs : ordinals[i].stage = "NONE"
    BY DEF Init, Revoked, NoRow
  <2>2. Phase = [i \in Episode!EpisodeLegs |-> "idle"]
    BY <2>1, PhaseFacts DEF Phase, Legs, Episode!EpisodeLegs
  <2>3. Revoked = FALSE
    BY <2>1
  <2> QED
    BY <2>2, <2>3 DEF Episode!EpisodeInit
<1>2. IInv /\ [Next]_vars => [Episode!EpisodeNext]_(Episode!episodeVars)
  BY TypeStep, EpisodeStep DEF IInv
<1> QED
  BY <1>1, <1>2, Invariant, PTL DEF Spec, ImplementsBoundedEpisode, Episode!EpisodeSpec

-----------------------------------------------------------------------------
(* Opening the authority again: the checks of the whole database, and what *)
(* keeps them true of every database that was committed.                   *)

(* What a validated state's name says of its other fields. *)
ShapeByName(s) ==
  LET Is(name, next, consumed) == s.name = name => s.next = next /\ Len(s.consumed) = consumed
  IN /\ Is("AUTHORIZED_DORMANT", 1, 0)
     /\ Is("ACQUISITION_ADMITTED", 1, 1)
     /\ Is("ACQUISITION_SUBMISSION_RESOLVING", 1, 1)
     /\ Is("ACQUISITION_EVIDENCE_CLOSED", 2, 1)
     /\ Is("DISPOSAL_ADMITTED", 2, 2)
     /\ Is("DISPOSAL_SUBMISSION_RESOLVING", 2, 2)
     /\ Is("DISPOSAL_EVIDENCE_CLOSED", NoOrdinal, 2)
     /\ Is("AGENT_REFUSED_ACQUISITION", NoOrdinal, 1)
     /\ Is("AGENT_REFUSED_DISPOSAL", NoOrdinal, 2)
     /\ Is("REVOKED_BEFORE_FIRST_ADMISSION", NoOrdinal, 0)
     /\ Is("REVOKED_BEFORE_ACQUISITION_SIGNING", NoOrdinal, 1)
     /\ Is("REVOKED_BEFORE_DISPOSAL_SIGNING", NoOrdinal, 2)
     /\ Is("REVOKED_AFTER_ACQUISITION", NoOrdinal, 1)
     /\ Is("REVOKED_AFTER_DISPOSAL", NoOrdinal, 2)
     /\ s.name = "RESOLUTION_REQUIRED_AFTER_REVOCATION" =>
          IF HasAcquisition(s) THEN s.next = 2 /\ Len(s.consumed) = 2
                               ELSE s.next = 1 /\ Len(s.consumed) = 1

FlagsByName(s) ==
  /\ s.name \in RequiresAcquisition => HasAcquisition(s)
  /\ HasAcquisition(s) =>
        s.name \in RequiresAcquisition \cup {"RESOLUTION_REQUIRED_AFTER_REVOCATION"}
  /\ (s.name \in {"DISPOSAL_EVIDENCE_CLOSED", "REVOKED_AFTER_DISPOSAL"}) <=> (s.disposal # None)
  /\ s.possible <=> (s.name \in Resolving \cup {"RESOLUTION_REQUIRED_AFTER_REVOCATION"})
  /\ s.revoked <=> (s.name \in RevokedNames)
  /\ s.intent # None <=> (s.name \in Resolving \cup {"RESOLUTION_REQUIRED_AFTER_REVOCATION"})

NoIdentityTwice(s) ==
  \A i, j \in DOMAIN s.consumed : i # j =>
     /\ s.consumed[i].decision # s.consumed[j].decision
     /\ s.consumed[i].challenge # s.consumed[j].challenge

(* The rows of the table of shapes. *)
LEMMA ShapeRows ==
  /\ Shape["AUTHORIZED_DORMANT"] = <<1, 0, FALSE>>
  /\ Shape["ACQUISITION_ADMITTED"] = <<1, 1, FALSE>>
  /\ Shape["ACQUISITION_SUBMISSION_RESOLVING"] = <<1, 1, TRUE>>
  /\ Shape["ACQUISITION_EVIDENCE_CLOSED"] = <<2, 1, FALSE>>
  /\ Shape["DISPOSAL_ADMITTED"] = <<2, 2, FALSE>>
  /\ Shape["DISPOSAL_SUBMISSION_RESOLVING"] = <<2, 2, TRUE>>
  /\ Shape["DISPOSAL_EVIDENCE_CLOSED"] = <<NoOrdinal, 2, FALSE>>
  /\ Shape["AGENT_REFUSED_ACQUISITION"] = <<NoOrdinal, 1, FALSE>>
  /\ Shape["AGENT_REFUSED_DISPOSAL"] = <<NoOrdinal, 2, FALSE>>
  /\ Shape["REVOKED_BEFORE_FIRST_ADMISSION"] = <<NoOrdinal, 0, FALSE>>
  /\ Shape["REVOKED_BEFORE_ACQUISITION_SIGNING"] = <<NoOrdinal, 1, FALSE>>
  /\ Shape["REVOKED_BEFORE_DISPOSAL_SIGNING"] = <<NoOrdinal, 2, FALSE>>
  /\ Shape["REVOKED_AFTER_ACQUISITION"] = <<NoOrdinal, 1, FALSE>>
  /\ Shape["REVOKED_AFTER_DISPOSAL"] = <<NoOrdinal, 2, FALSE>>
BY Zenon DEF Shape

(* Validation is the shape and the flags of the state's name. *)
LEMMA ValidByName ==
  ASSUME NEW s \in States
  PROVE  ValidState(s) <=> NoIdentityTwice(s) /\ FlagsByName(s) /\ ShapeByName(s)
<1>0. s.name \in StateNames
  BY DEF States
<1>1. ASSUME ValidState(s) PROVE FlagsByName(s) /\ ShapeByName(s)
  <2>1. <<s.next, Len(s.consumed), s.intent # None>> = ShapeOf(s)
    BY <1>1 DEF ValidState
  <2>2. /\ ShapeByName(s)
        /\ s.intent # None <=> (s.name \in Resolving \cup {"RESOLUTION_REQUIRED_AFTER_REVOCATION"})
    <3>0. ASSUME NEW n, NEW k, NEW b, ShapeOf(s) = <<n, k, b>>
          PROVE  s.next = n /\ Len(s.consumed) = k /\ (s.intent # None) = b
      BY <2>1, <3>0
    <3>1. /\ \A n, k : ShapeOf(s) = <<n, k, TRUE>> => s.next = n /\ Len(s.consumed) = k /\ s.intent # None
          /\ \A n, k : ShapeOf(s) = <<n, k, FALSE>> => s.next = n /\ Len(s.consumed) = k /\ s.intent = None
      BY <3>0
    <3>2. s.name # "RESOLUTION_REQUIRED_AFTER_REVOCATION" => ShapeOf(s) = Shape[s.name]
      BY DEF ShapeOf
    <3>3. s.name = "RESOLUTION_REQUIRED_AFTER_REVOCATION" =>
            ShapeOf(s) = IF HasAcquisition(s) THEN <<2, 2, TRUE>> ELSE <<1, 1, TRUE>>
      BY DEF ShapeOf
    <3>4. ASSUME s.name # "RESOLUTION_REQUIRED_AFTER_REVOCATION"
          PROVE  /\ ShapeByName(s)
                 /\ s.intent # None <=> s.name \in Resolving
      <4> DEFINE row == Shape[s.name]
      <4>1. \A n, k : (row = <<n, k, TRUE>> => s.next = n /\ Len(s.consumed) = k /\ s.intent # None)
                 /\ (row = <<n, k, FALSE>> => s.next = n /\ Len(s.consumed) = k /\ s.intent = None)
        BY <3>1, <3>2, <3>4
      <4>2. /\ s.name = "AUTHORIZED_DORMANT" => row = <<1, 0, FALSE>>
            /\ s.name = "ACQUISITION_ADMITTED" => row = <<1, 1, FALSE>>
            /\ s.name = "ACQUISITION_SUBMISSION_RESOLVING" => row = <<1, 1, TRUE>>
            /\ s.name = "ACQUISITION_EVIDENCE_CLOSED" => row = <<2, 1, FALSE>>
            /\ s.name = "DISPOSAL_ADMITTED" => row = <<2, 2, FALSE>>
            /\ s.name = "DISPOSAL_SUBMISSION_RESOLVING" => row = <<2, 2, TRUE>>
            /\ s.name = "DISPOSAL_EVIDENCE_CLOSED" => row = <<NoOrdinal, 2, FALSE>>
            /\ s.name = "AGENT_REFUSED_ACQUISITION" => row = <<NoOrdinal, 1, FALSE>>
            /\ s.name = "AGENT_REFUSED_DISPOSAL" => row = <<NoOrdinal, 2, FALSE>>
            /\ s.name = "REVOKED_BEFORE_FIRST_ADMISSION" => row = <<NoOrdinal, 0, FALSE>>
            /\ s.name = "REVOKED_BEFORE_ACQUISITION_SIGNING" => row = <<NoOrdinal, 1, FALSE>>
            /\ s.name = "REVOKED_BEFORE_DISPOSAL_SIGNING" => row = <<NoOrdinal, 2, FALSE>>
            /\ s.name = "REVOKED_AFTER_ACQUISITION" => row = <<NoOrdinal, 1, FALSE>>
            /\ s.name = "REVOKED_AFTER_DISPOSAL" => row = <<NoOrdinal, 2, FALSE>>
        BY Zenon, ShapeRows
      <4> HIDE DEF row
      <4> QED
        BY <1>0, <3>4, <4>1, <4>2 DEF ShapeByName, StateNames, Admitted, Resolving, Refused, RevokedNames
    <3>5. ASSUME s.name = "RESOLUTION_REQUIRED_AFTER_REVOCATION"
          PROVE  ShapeByName(s) /\ s.intent # None
      <4>1. HasAcquisition(s) => s.next = 2 /\ Len(s.consumed) = 2 /\ s.intent # None
        BY <3>1, <3>3, <3>5
      <4>2. ~HasAcquisition(s) => s.next = 1 /\ Len(s.consumed) = 1 /\ s.intent # None
        BY <3>1, <3>3, <3>5
      <4> QED
        BY <3>5, <4>1, <4>2 DEF ShapeByName
    <3> QED
      BY <3>4, <3>5 DEF Resolving
  <2> QED
    BY <1>1, <2>2 DEF ValidState, FlagsByName
<1>2. ASSUME NoIdentityTwice(s), FlagsByName(s), ShapeByName(s) PROVE ValidState(s)
  <2>1. <<s.next, Len(s.consumed), s.intent # None>> = ShapeOf(s)
    BY <1>0, <1>2, ShapeRows DEF ShapeOf, ShapeByName, FlagsByName, StateNames, Admitted, Resolving, Refused, RevokedNames
  <2> QED
    BY <1>0, <1>2, <2>1 DEF ValidState, FlagsByName, NoIdentityTwice
<1> QED
  BY <1>1, <1>2 DEF ValidState, NoIdentityTwice

(* A new row is of a valid state and of a challenge issued for the state   *)
(* before it.                                                              *)
LEMMA ConsumeRequires ==
  ASSUME TypeOK, NEW i \in Legs, NEW d \in Decisions, NEW c \in Challenges,
         NEW refused \in BOOLEAN,
         ConsumeEpisodeOrdinal(Reservation(i, state, d, c, refused))
  PROVE  /\ ordinals'[i].admission = Consumption(d, c)
         /\ ValidState(state')
         /\ [id |-> c, predecessor |-> state] \in challenges
<1> DEFINE r == Reservation(i, state, d, c, refused)
<1>1. /\ r.ordinal = i /\ r.admission = Consumption(d, c)
      /\ r.successor = DecisionSuccessor(state, d, c, refused) /\ Consumption(d, c).challenge = c
  BY DEF Reservation, Consumption
<1>2. /\ ConsumeOutcome(r) = "CONSUMED"
      /\ ordinals' = [ordinals EXCEPT ![r.ordinal] =
           [NoRow EXCEPT !.stage = "RESERVED", !.predecessor = r.predecessor,
                         !.successor = r.successor, !.admission = r.admission]]
      /\ state' = r.successor
  BY DEF ConsumeEpisodeOrdinal
<1> HIDE DEF r
<1>3. ValidState(r.successor) /\ [id |-> r.admission.challenge, predecessor |-> state] \in challenges
  BY <1>2 DEF ConsumeOutcome
<1>4. ordinals'[i].admission = Consumption(d, c)
  BY <1>1, <1>2 DEF TypeOK, NoRow
<1>5. ValidState(state')
  <2>1. ValidState(DecisionSuccessor(state, d, c, refused))
    BY <1>1, <1>3
  <2> QED
    BY <1>1, <1>2, <2>1
<1> QED
  BY <1>1, <1>3, <1>4, <1>5

(* A leg signed in a valid state leaves a valid state. *)
LEMMA SignedValid ==
  ASSUME NEW s \in States, ValidState(s), s.name \in Admitted, NEW w \in Intents,
         NEW t, t = SignedSuccessor(s, w)
  PROVE  ValidState(t)
<1>0. t.next = s.next
  BY DEF SignedSuccessor, States
<1>1. NoIdentityTwice(s) /\ FlagsByName(s) /\ ShapeByName(s) /\ w # None
  BY ValidByName, NoneIsNoValue
<1>2. /\ t \in States
      /\ t.possible /\ t.revoked = s.revoked /\ t.acquisition = s.acquisition
      /\ t.disposal = s.disposal /\ t.intent = w /\ t.consumed = s.consumed
      /\ t.name = IF s.name = "ACQUISITION_ADMITTED" THEN "ACQUISITION_SUBMISSION_RESOLVING"
                                                     ELSE "DISPOSAL_SUBMISSION_RESOLVING"
  BY SignedSuccessorFacts DEF Nullable
<1>3. NoIdentityTwice(t)
  BY <1>1, <1>2 DEF NoIdentityTwice
<1>4. FlagsByName(t)
  BY <1>1, <1>2 DEF FlagsByName, Admitted, Resolving, RevokedNames, RequiresAcquisition, HasAcquisition
<1>5. ShapeByName(t)
  BY <1>0, <1>1, <1>2 DEF ShapeByName, Admitted
<1> QED
  BY <1>2, <1>3, <1>4, <1>5, ValidByName

(* A revocation of a valid state leaves a valid state. *)
LEMMA RevokedValid ==
  ASSUME NEW s \in States, ValidState(s), CanRevoke(s), NEW t, t = RevokedSuccessor(s)
  PROVE  ValidState(t)
<1>0. t.next = IF s.possible THEN s.next ELSE NoOrdinal
  BY DEF RevokedSuccessor, States
<1>1. NoIdentityTwice(s) /\ FlagsByName(s) /\ ShapeByName(s)
  BY ValidByName
<1>2. /\ t \in States
      /\ t.possible = s.possible /\ t.revoked /\ t.acquisition = s.acquisition
      /\ t.disposal = s.disposal /\ t.intent = s.intent /\ t.consumed = s.consumed
      /\ s.possible => t.name = "RESOLUTION_REQUIRED_AFTER_REVOCATION"
      /\ ~s.possible => t.name = RevocationTarget[s.name]
  BY RevokedSuccessorFacts DEF CanRevoke
<1>3. \/ s.possible /\ s.name \in Resolving
      \/ ~s.possible /\ s.name = "AUTHORIZED_DORMANT" /\ t.name = "REVOKED_BEFORE_FIRST_ADMISSION"
      \/ ~s.possible /\ s.name = "ACQUISITION_ADMITTED" /\ t.name = "REVOKED_BEFORE_ACQUISITION_SIGNING"
      \/ ~s.possible /\ s.name = "DISPOSAL_ADMITTED" /\ t.name = "REVOKED_BEFORE_DISPOSAL_SIGNING"
      \/ ~s.possible /\ s.name = "ACQUISITION_EVIDENCE_CLOSED" /\ t.name = "REVOKED_AFTER_ACQUISITION"
  BY <1>1, <1>2 DEF FlagsByName, CanRevoke, RevocationTarget, RevokedNames
<1>4. NoIdentityTwice(t)
  BY <1>1, <1>2 DEF NoIdentityTwice
<1>5. FlagsByName(t)
  BY <1>1, <1>2, <1>3 DEF FlagsByName, Resolving, RevokedNames, RequiresAcquisition, HasAcquisition
<1>6. ShapeByName(t)
  BY <1>0, <1>1, <1>2, <1>3 DEF ShapeByName, FlagsByName, Resolving, RequiresAcquisition, HasAcquisition
<1> QED
  BY <1>2, <1>4, <1>5, <1>6, ValidByName

(* A leg settled in a valid state leaves a valid state. *)
LEMMA ClosedValid ==
  ASSUME NEW s \in States, ValidState(s), NEW i \in Legs, CanCloseLeg(s, i), NEW e \in Evidence,
         NEW t, t = ClosedSuccessor(s, i, e)
  PROVE  ValidState(t)
<1>0. /\ i = 1 => t.next = IF s.revoked THEN NoOrdinal ELSE 2
      /\ i # 1 => t.next = NoOrdinal
  BY DEF ClosedSuccessor, States
<1>1. NoIdentityTwice(s) /\ FlagsByName(s) /\ ShapeByName(s) /\ e # None
  BY ValidByName, NoneIsNoValue
<1>2. /\ t \in States
      /\ ~t.possible /\ t.revoked = s.revoked /\ t.consumed = s.consumed /\ t.intent = None
      /\ i = 1 => t.acquisition = e /\ t.disposal = s.disposal
      /\ i = 2 => t.acquisition = s.acquisition /\ t.disposal = e
      /\ i = 1 /\ s.revoked => t.name = "REVOKED_AFTER_ACQUISITION"
      /\ i = 1 /\ ~s.revoked => t.name = "ACQUISITION_EVIDENCE_CLOSED"
      /\ i = 2 /\ s.revoked => t.name = "REVOKED_AFTER_DISPOSAL"
      /\ i = 2 /\ ~s.revoked => t.name = "DISPOSAL_EVIDENCE_CLOSED"
  BY ClosedSuccessorFacts
<1>3. NoIdentityTwice(t)
  BY <1>1, <1>2 DEF NoIdentityTwice
<1>4. s.revoked \in BOOLEAN /\ i \in {1, 2}
  BY DEF States, Legs
<1>5. FlagsByName(t)
  BY <1>1, <1>2, <1>4 DEF FlagsByName, CanCloseLeg, Resolving, RevokedNames, RequiresAcquisition, HasAcquisition
<1>6. ShapeByName(t)
  BY <1>0, <1>1, <1>2, <1>4 DEF ShapeByName, FlagsByName, CanCloseLeg, RequiresAcquisition, HasAcquisition
<1> QED
  BY <1>2, <1>3, <1>5, <1>6, ValidByName

(* Two states with the same fields are the same state. *)
LEMMA SameState ==
  ASSUME NEW s \in States, NEW t \in States, s.name = t.name, s.next = t.next,
         s.possible = t.possible, s.revoked = t.revoked, s.consumed = t.consumed,
         s.intent = t.intent, s.acquisition = t.acquisition, s.disposal = t.disposal
  PROVE  s = t
BY DEF States

(* The resolving state a revocation leaves, or would leave, behind a leg   *)
(* with signed bytes w.                                                    *)
ResolvingAfter(p, w) == RevokedSuccessor(IF p.possible THEN p ELSE SignedSuccessor(p, w))

(* How a revocation in state p led to state s: at once, when the bytes w   *)
(* were signed, or when they were settled as well.                         *)
Explains(p, s, w) ==
  /\ p.name \in Resolving => p.intent = w
  /\ \/ s = RevokedSuccessor(p)
     \/ /\ p.name \in Admitted \cup Resolving
        /\ p.name \in Admitted => w \in Intents
        /\ \/ s = ResolvingAfter(p, w)
           \/ \E i \in Legs, e \in Evidence :
                /\ CanCloseLeg(ResolvingAfter(p, w), i)
                /\ s = ClosedSuccessor(ResolvingAfter(p, w), i, e)

RevocationExplains(v) ==
  /\ ValidState(v.predecessor)
  /\ CanRevoke(v.predecessor)
  /\ v.successor = RevokedSuccessor(v.predecessor)
  /\ Explains(v.predecessor, state, LastRow.intent)

RevocationsExplain ==
  \A v \in revocations : IF state.revoked THEN RevocationExplains(v) ELSE RevocationPending(v)

ReopenInv ==
  /\ IInv /\ RowsShaped
  /\ ValidState(state)
  /\ RowsMatchState
  /\ SuccessorsMatch
  /\ RevocationsExplain

(* The state the second row must have been consumed in, field by field. *)
LEMMA ClosedAcquisitionFacts ==
  ASSUME TypeOK, NEW t, t = ClosedAcquisition, 1 \in Inserted, ordinals[1].admission \in Consumptions
  PROVE  /\ t \in States /\ t.name = "ACQUISITION_EVIDENCE_CLOSED" /\ t.next = 2
         /\ ~t.possible /\ ~t.revoked /\ t.consumed = <<ordinals[1].admission>>
         /\ t.intent = None /\ t.disposal = None /\ t.acquisition = state.acquisition
<1>1. /\ "ACQUISITION_EVIDENCE_CLOSED" \in StateNames
      /\ <<ordinals[1].admission>> \in Seq(Consumptions)
  BY DEF StateNames
<1> QED
  BY <1>1, NextOrdinals DEF ClosedAcquisition, TypeOK, States, Nullable

(* A step that keeps the consumed identities, the rows that name them and  *)
(* the settled acquisition keeps what a reopening rebuilds from them.      *)
LEMMA IdentitiesKept ==
  ASSUME TypeOK, RowsMatchState, SuccessorsMatch,
         state'.consumed = state.consumed,
         2 \in Inserted => state'.acquisition = state.acquisition,
         \A n \in Refused : state'.name = n <=> state.name = n,
         state'.revoked => Revoked', challenges \subseteq challenges', TypeOK',
         Inserted' = Inserted,
         \A i \in Inserted : /\ ordinals'[i].admission = ordinals[i].admission
                             /\ ordinals'[i].predecessor = ordinals[i].predecessor
                             /\ ordinals'[i].successor = ordinals[i].successor
  PROVE  RowsMatchState' /\ SuccessorsMatch'
<1>1. RowsMatchState'
  BY DEF RowsMatchState
<1>2. 2 \in Inserted => ClosedAcquisition' = ClosedAcquisition
  <2> SUFFICES ASSUME 2 \in Inserted PROVE ClosedAcquisition' = ClosedAcquisition
    OBVIOUS
  <2>1. 1 \in Inserted /\ ordinals'[1].admission = ordinals[1].admission
    BY DEF RowsMatchState, TypeOK, States
  <2> QED
    BY <2>1 DEF ClosedAcquisition, TypeOK, States
<1>3. /\ "AGENT_REFUSED_ACQUISITION" \in Refused
      /\ "AGENT_REFUSED_DISPOSAL" \in Refused
  BY DEF Refused
<1>4. 1 \in Inserted =>
         BindsSuccessor(ordinals[1], AuthorizedDormant, state.name = "AGENT_REFUSED_ACQUISITION")'
  BY <1>3 DEF SuccessorsMatch, BindsSuccessor
<1>5. 2 \in Inserted =>
         BindsSuccessor(ordinals[2], ClosedAcquisition, state.name = "AGENT_REFUSED_DISPOSAL")'
  BY <1>2, <1>3 DEF SuccessorsMatch, BindsSuccessor
<1>6. 2 \in Inserted => ValidState(ClosedAcquisition)'
  BY <1>2 DEF SuccessorsMatch
<1> QED
  BY <1>1, <1>4, <1>5, <1>6 DEF SuccessorsMatch

PredecessorFrom(s, name, w) ==
  [s EXCEPT !.name = name, !.revoked = FALSE, !.disposal = None,
     !.next = IF name \in {"AUTHORIZED_DORMANT", "ACQUISITION_ADMITTED",
                           "ACQUISITION_SUBMISSION_RESOLVING"} THEN 1 ELSE 2,
     !.possible = name \in Resolving,
     !.intent = IF name \in Resolving THEN w ELSE None,
     !.acquisition = IF name \in {"ACQUISITION_ADMITTED", "ACQUISITION_SUBMISSION_RESOLVING"}
                     THEN None ELSE @]

(* The predecessor of a revocation is rebuilt from what follows it. *)
LEMMA PredecessorRebuilt ==
  ASSUME NEW p \in States, ValidState(p), CanRevoke(p), NEW s \in States,
         s.consumed = p.consumed,
         p.name \notin {"ACQUISITION_ADMITTED", "ACQUISITION_SUBMISSION_RESOLVING"} =>
           s.acquisition = p.acquisition,
         NEW w, p.name \in Resolving => p.intent = w
  PROVE  p = PredecessorFrom(s, p.name, w)
<1>1. FlagsByName(p) /\ ShapeByName(p)
  BY ValidByName
<1>2. /\ ~p.revoked
      /\ p.name \in {"AUTHORIZED_DORMANT", "ACQUISITION_EVIDENCE_CLOSED"} \cup Admitted \cup Resolving
  BY <1>1 DEF CanRevoke, RevocationTarget, FlagsByName, Admitted, RevokedNames
<1>3. /\ p.next = IF p.name \in {"AUTHORIZED_DORMANT", "ACQUISITION_ADMITTED",
                                 "ACQUISITION_SUBMISSION_RESOLVING"} THEN 1 ELSE 2
      /\ p.possible = (p.name \in Resolving)
      /\ p.revoked = FALSE /\ p.disposal = None
      /\ p.name \notin Resolving => p.intent = None
      /\ p.name \in {"ACQUISITION_ADMITTED", "ACQUISITION_SUBMISSION_RESOLVING"} => p.acquisition = None
  BY <1>1, <1>2 DEF FlagsByName, ShapeByName, Admitted, Resolving, RevokedNames, RequiresAcquisition,
                    HasAcquisition, States
<1> QED
  BY <1>3 DEF States, PredecessorFrom

(* A step that keeps the state, the identities and the retained intents    *)
(* keeps what a reopening checks: while a revocation waits for a signature *)
(* the row it waits for must rest.                                         *)
LEMMA RowMoveReopens ==
  ASSUME ReopenInv, TypeOK', UNCHANGED <<state, revocations>>, challenges \subseteq challenges',
         Inserted' = Inserted,
         \A i \in Legs : /\ ordinals'[i].admission = ordinals[i].admission
                         /\ ordinals'[i].predecessor = ordinals[i].predecessor
                         /\ ordinals'[i].successor = ordinals[i].successor
                         /\ ordinals'[i].intent = ordinals[i].intent,
         Revoked /\ ~state.revoked => LastRow'.stage = LastRow.stage
  PROVE  ValidState(state)' /\ RowsMatchState' /\ SuccessorsMatch' /\ RevocationsExplain'
<1>0. TypeOK
  BY DEF ReopenInv, IInv
<1>1. RowsMatchState' /\ SuccessorsMatch'
  BY <1>0, IdentitiesKept DEF ReopenInv, RowsMatchState, Revoked, Inserted
<1>2. LastRow'.intent = LastRow.intent
  BY DEF LastRow, Legs
<1>3. ASSUME NEW v \in revocations, state.revoked, RevocationExplains(v) PROVE RevocationExplains(v)'
  BY <1>2, <1>3 DEF RevocationExplains
<1>4. ASSUME NEW v \in revocations, ~state.revoked, RevocationPending(v) PROVE RevocationPending(v)'
  BY <1>4 DEF RevocationPending, Revoked
<1> QED
  BY <1>1, <1>3, <1>4 DEF ReopenInv, RevocationsExplain

(* A second identity after the first one. *)
LEMMA SecondAppended ==
  ASSUME NEW C, NEW x \in C, NEW y \in C
  PROVE  Append(<<x>>, y) = <<x, y>>
<1>1. <<x>> \in Seq(C) /\ Len(<<x>>) = 1 /\ <<x>>[1] = x
  OBVIOUS
<1>2. ASSUME NEW s \in Seq(C), Len(s) = 1, s[1] = x PROVE Append(s, y) = <<x, y>>
  <2> DEFINE t == Append(s, y)
  <2>1. /\ t \in Seq(C) /\ Len(t) = Len(s) + 1
        /\ \A i \in 1..Len(s) : t[i] = s[i]
        /\ t[Len(s) + 1] = y
    BY AppendProperties
  <2> HIDE DEF t
  <2>2. t \in Seq(C) /\ Len(t) = 2 /\ t[1] = x /\ t[2] = y
    BY <1>2, <2>1
  <2>3. t = <<x, y>>
    BY <2>2
  <2> QED
    BY <2>3 DEF t
<1> QED
  BY <1>1, <1>2

(* Consuming a decision writes the row that its successor rebuilds. *)
LEMMA ConsumeReopens ==
  ASSUME ReopenInv, NEW i \in Legs, NEW d \in Decisions, NEW c \in Challenges,
         NEW refused \in BOOLEAN,
         ConsumeEpisodeOrdinal(Reservation(i, state, d, c, refused))
  PROVE  ValidState(state)' /\ RowsMatchState' /\ SuccessorsMatch' /\ RevocationsExplain'
<1>0. TypeOK /\ state \in States
  BY DEF ReopenInv, IInv, TypeOK
<1>1. /\ TypeOK'
      /\ i \notin Inserted /\ ~Revoked
      /\ state.name = IF i = 1 THEN "AUTHORIZED_DORMANT" ELSE "ACQUISITION_EVIDENCE_CLOSED"
      /\ state' = DecisionSuccessor(state, d, c, refused)
      /\ ordinals'[i].stage = "RESERVED"
      /\ ordinals'[i].predecessor = state
      /\ ordinals'[i].successor = state'
      /\ \A j \in Legs : j # i => ordinals'[j] = ordinals[j]
      /\ UNCHANGED <<challenges, revocations>>
  BY <1>0, ConsumeEffect
<1>2. /\ ordinals'[i].admission = Consumption(d, c)
      /\ ValidState(state')
      /\ [id |-> c, predecessor |-> state] \in challenges
  BY <1>0, ConsumeRequires
<1>3. /\ state'.revoked = state.revoked
      /\ state'.consumed = Append(state.consumed, Consumption(d, c))
      /\ state'.acquisition = state.acquisition
      /\ state'.name = IF state.name = "AUTHORIZED_DORMANT"
                        THEN IF refused THEN "AGENT_REFUSED_ACQUISITION" ELSE "ACQUISITION_ADMITTED"
                        ELSE IF refused THEN "AGENT_REFUSED_DISPOSAL" ELSE "DISPOSAL_ADMITTED"
  BY <1>0, <1>1, DecisionSuccessorFacts
<1>4. /\ Consumption(d, c) \in Consumptions
      /\ Consumption(d, c).decision = d /\ Consumption(d, c).challenge = c
      /\ ~state.revoked
      /\ FlagsByName(state) /\ ShapeByName(state)
  BY <1>0, <1>1, ValidByName DEF ReopenInv, Consumption, Consumptions, RowsMatchState
<1>5. RevocationsExplain'
  BY <1>1 DEF RevocationsExplain, Revoked
<1>6. CASE i = 1
  <2>1. state = AuthorizedDormant
    BY <1>0, <1>1, <1>4, <1>6, DormantTyped, SameState
    DEF FlagsByName, ShapeByName, AuthorizedDormant, States, RequiresAcquisition, HasAcquisition, Resolving, RevokedNames
  <2>2. Inserted = {} /\ Inserted' = {1}
    BY <1>1, <1>6 DEF ReopenInv, IInv, StageTable, StagePair, Inserted, Legs
  <2>3. state'.consumed = <<Consumption(d, c)>>
    BY <1>3, <2>1 DEF AuthorizedDormant
  <2>4. RowsMatchState'
    BY <1>1, <1>2, <1>3, <1>4, <1>6, <2>2, <2>3 DEF RowsMatchState
  <2>5. SuccessorsMatch'
    BY <1>1, <1>2, <1>3, <1>4, <1>6, <2>1, <2>2 DEF SuccessorsMatch, BindsSuccessor
  <2> QED
    BY <1>2, <1>5, <2>4, <2>5
<1>7. CASE i = 2
  <2>1. Inserted = {1} /\ Inserted' = {1, 2}
    BY <1>1, <1>7 DEF ReopenInv, IInv, StageTable, StagePair, Inserted, Legs
  <2>2. Len(state.consumed) = 1 /\ state.consumed \in Seq(Consumptions) /\ state.consumed[1] = ordinals[1].admission
    BY <1>0, <1>1, <1>4, <1>7, <2>1 DEF ShapeByName, ReopenInv, RowsMatchState, States
  <2>3. /\ state.consumed = <<ordinals[1].admission>>
        /\ state'.consumed = <<ordinals[1].admission, Consumption(d, c)>>
        /\ ordinals'[1].admission = ordinals[1].admission
        /\ ordinals[1].admission \in Consumptions
    <3>1. state.consumed = <<ordinals[1].admission>> /\ ordinals[1].admission \in Consumptions
      BY <2>2
    <3>2. state'.consumed = <<ordinals[1].admission, Consumption(d, c)>>
      BY <1>3, <1>4, <3>1, SecondAppended
    <3> QED
      BY <1>1, <1>7, <3>1, <3>2 DEF Legs
  <2>4. RowsMatchState'
    BY <1>1, <1>2, <1>3, <1>4, <1>7, <2>1, <2>3 DEF RowsMatchState, ReopenInv, Legs
  <2>5. ClosedAcquisition' = state
    <3>1. /\ ClosedAcquisition' \in States /\ ClosedAcquisition'.name = "ACQUISITION_EVIDENCE_CLOSED"
          /\ ClosedAcquisition'.next = 2
          /\ ~ClosedAcquisition'.possible /\ ~ClosedAcquisition'.revoked
          /\ ClosedAcquisition'.consumed = <<ordinals[1].admission>>
          /\ ClosedAcquisition'.intent = None /\ ClosedAcquisition'.disposal = None
          /\ ClosedAcquisition'.acquisition = state.acquisition
      <4>1. /\ "ACQUISITION_EVIDENCE_CLOSED" \in StateNames /\ None \in Nullable(Intents)
            /\ None \in Nullable(Evidence)
            /\ <<ordinals'[1].admission>> \in Seq(Consumptions)
        BY <2>3 DEF StateNames, Nullable
      <4>2. state' \in States
        BY <1>1 DEF TypeOK
      <4> QED
        BY <1>3, <2>3, <4>1, <4>2, NextOrdinals DEF ClosedAcquisition, States
    <3> QED
      BY <1>0, <1>1, <1>4, <1>7, <2>3, <3>1, SameState
      DEF FlagsByName, ShapeByName, States, Resolving, RevokedNames
  <2>6. SuccessorsMatch'
    BY <1>1, <1>2, <1>3, <1>4, <1>7, <2>1, <2>5 DEF SuccessorsMatch, BindsSuccessor, ReopenInv, Legs
  <2> QED
    BY <1>2, <1>5, <2>4, <2>6
<1> QED
  BY <1>6, <1>7 DEF Legs

(* What the state after a revocation keeps of the state it was made in. *)
LEMMA ResolvingAfterFacts ==
  ASSUME NEW p \in States, ValidState(p), CanRevoke(p), NEW w,
         p.name \in Admitted \cup Resolving, p.name \in Admitted => w \in Intents,
         NEW t, t = ResolvingAfter(p, w)
  PROVE  /\ t \in States /\ ValidState(t)
         /\ t.revoked /\ t.possible /\ t.name = "RESOLUTION_REQUIRED_AFTER_REVOCATION"
         /\ t.consumed = p.consumed /\ t.acquisition = p.acquisition /\ t.disposal = p.disposal
         /\ p.possible <=> p.name \in Resolving
<1>1. FlagsByName(p)
  BY ValidByName
<1>2. p.possible <=> p.name \in Resolving
  BY <1>1 DEF FlagsByName, CanRevoke, RevokedNames, Admitted, Resolving
<1>3. CASE p.possible
  <2>1. t = RevokedSuccessor(p)
    BY <1>3 DEF ResolvingAfter
  <2>2. ValidState(t)
    BY <2>1, RevokedValid
  <2> QED
    BY <1>2, <1>3, <2>1, <2>2, RevokedSuccessorFacts
<1>4. CASE ~p.possible
  <2> DEFINE q == SignedSuccessor(p, w)
  <2>1. t = RevokedSuccessor(q)
    BY <1>4 DEF ResolvingAfter
  <2>2. p.name \in Admitted /\ w \in Intents /\ w \in Nullable(Intents)
    BY <1>2, <1>4 DEF Nullable
  <2>3. q \in States /\ q.possible /\ q.revoked = p.revoked /\ q.acquisition = p.acquisition
        /\ q.disposal = p.disposal /\ q.consumed = p.consumed
    BY <2>2, SignedSuccessorFacts
  <2>4. ValidState(q)
    BY <2>2, SignedValid
  <2> HIDE DEF q
  <2>5. CanRevoke(q)
    BY <2>3 DEF CanRevoke
  <2>6. ValidState(t)
    BY <2>1, <2>3, <2>4, <2>5, RevokedValid
  <2>7. /\ t \in States /\ t.revoked /\ t.possible = q.possible
        /\ t.name = "RESOLUTION_REQUIRED_AFTER_REVOCATION"
        /\ t.consumed = q.consumed /\ t.acquisition = q.acquisition /\ t.disposal = q.disposal
    BY <2>1, <2>3, RevokedSuccessorFacts
  <2> QED
    BY <1>2, <2>3, <2>6, <2>7
<1> QED
  BY <1>3, <1>4

(* The names a revocable state can have. *)
LEMMA RevocableNames ==
  ASSUME NEW p \in States, ValidState(p), CanRevoke(p)
  PROVE  /\ p.name \in {"AUTHORIZED_DORMANT", "ACQUISITION_EVIDENCE_CLOSED"} \cup Admitted \cup Resolving
         /\ p.possible <=> p.name \in Resolving
         /\ ~p.possible => p.name \in DOMAIN RevocationTarget
         /\ HasAcquisition(p) <=> p.name \notin {"AUTHORIZED_DORMANT", "ACQUISITION_ADMITTED",
                                                "ACQUISITION_SUBMISSION_RESOLVING"}
<1>1. FlagsByName(p)
  BY ValidByName
<1> QED
  BY <1>1 DEF FlagsByName, CanRevoke, RevocationTarget, Admitted, Resolving, RevokedNames, RequiresAcquisition

(* A state that a recorded revocation explains is the one that             *)
(* assertRevocationBindsState rebuilds from it.                            *)
LEMMA ExplainedBinds ==
  ASSUME TypeOK, NEW v \in revocations, RevocationExplains(v)
  PROVE  RevocationBinds(v)
<1> DEFINE p == v.predecessor
           w == LastRow.intent
           Expected(b) ==
             CASE state.name = "RESOLUTION_REQUIRED_AFTER_REVOCATION" -> ResolvingAfter(b, w)
               [] state.name = "REVOKED_AFTER_ACQUISITION" /\ RevokedSuccessor(b).name # state.name ->
                    ClosedSuccessor(ResolvingAfter(b, w), 1, state.acquisition)
               [] state.name = "REVOKED_AFTER_DISPOSAL" ->
                    ClosedSuccessor(ResolvingAfter(b, w), 2, state.disposal)
               [] OTHER -> RevokedSuccessor(b)
           Rebuilt == /\ p.name \in RevocableBefore[state.name]
                      /\ state.consumed = p.consumed
                      /\ p.name \notin {"ACQUISITION_ADMITTED", "ACQUISITION_SUBMISSION_RESOLVING"} =>
                           state.acquisition = p.acquisition
                      /\ state = Expected(p)
<1>0. /\ p \in States /\ ValidState(p) /\ CanRevoke(p) /\ v.successor = RevokedSuccessor(p)
      /\ Explains(p, state, w) /\ state \in States
  BY DEF RevocationExplains, TypeOK
<1>1. ASSUME Rebuilt PROVE RevocationBinds(v)
  <2>1. p = PredecessorNamed(p.name)
    <3>1. /\ p.name \in Resolving => p.intent = w
          /\ state.consumed = p.consumed
          /\ p.name \notin {"ACQUISITION_ADMITTED", "ACQUISITION_SUBMISSION_RESOLVING"} =>
               state.acquisition = p.acquisition
      BY <1>0, <1>1 DEF Explains
    <3> HIDE DEF p, w
    <3>2. p = PredecessorFrom(state, p.name, w)
      BY <1>0, <3>1, PredecessorRebuilt
    <3> QED
      BY <3>2 DEF PredecessorNamed, PredecessorFrom, w
  <2> QED
    BY <1>0, <1>1, <2>1 DEF RevocationBinds, ResolvingAfter
<1> HIDE DEF p, w
<1>2. /\ p.name \in {"AUTHORIZED_DORMANT", "ACQUISITION_EVIDENCE_CLOSED"} \cup Admitted \cup Resolving
      /\ p.possible <=> p.name \in Resolving
      /\ ~p.possible => p.name \in DOMAIN RevocationTarget
      /\ HasAcquisition(p) <=> p.name \notin {"AUTHORIZED_DORMANT", "ACQUISITION_ADMITTED",
                                             "ACQUISITION_SUBMISSION_RESOLVING"}
  BY <1>0, RevocableNames
<1>3. CASE state = RevokedSuccessor(p)
  <2>1. /\ state.consumed = p.consumed /\ state.acquisition = p.acquisition
        /\ p.possible => state.name = "RESOLUTION_REQUIRED_AFTER_REVOCATION"
        /\ ~p.possible => state.name = RevocationTarget[p.name]
    BY <1>0, <1>2, <1>3, RevokedSuccessorFacts
  <2>2. CASE p.possible
    <3>1. state = ResolvingAfter(p, w)
      BY <1>3, <2>2 DEF ResolvingAfter
    <3>2. p.name \in RevocableBefore[state.name]
      BY <1>2, <2>1, <2>2 DEF RevocableBefore
    <3> QED
      BY <1>1, <2>1, <2>2, <3>1, <3>2
  <2>3. CASE ~p.possible
    <3>1. /\ p.name \in RevocableBefore[state.name]
          /\ state.name \notin {"RESOLUTION_REQUIRED_AFTER_REVOCATION", "REVOKED_AFTER_DISPOSAL"}
      BY <1>2, <2>1, <2>3 DEF RevocationTarget, RevocableBefore, Admitted, Resolving
    <3>2. state = Expected(p)
      BY <1>3, <3>1
    <3> QED
      BY <1>1, <2>1, <3>1, <3>2
  <2> QED
    BY <2>2, <2>3
<1>4. CASE state # RevokedSuccessor(p)
  <2> DEFINE r == ResolvingAfter(p, w)
  <2>1. /\ p.name \in Admitted \cup Resolving
        /\ p.name \in Admitted => w \in Intents
        /\ \/ state = r
           \/ \E i \in Legs, e \in Evidence : CanCloseLeg(r, i) /\ state = ClosedSuccessor(r, i, e)
    BY <1>0, <1>4 DEF Explains
  <2>2. /\ r \in States /\ r.revoked /\ r.name = "RESOLUTION_REQUIRED_AFTER_REVOCATION"
        /\ r.consumed = p.consumed /\ r.acquisition = p.acquisition
    <3> HIDE DEF r
    <3> QED
      BY <1>0, <2>1, ResolvingAfterFacts DEF r
  <2>3. CASE state = r
    <3>1. p.name \in RevocableBefore[state.name]
      BY <2>1, <2>2, <2>3 DEF RevocableBefore
    <3>2. state = Expected(p)
      BY <2>2, <2>3
    <3> HIDE DEF r, Expected
    <3> QED
      BY <1>1, <2>2, <2>3, <3>1, <3>2
  <2>4. ASSUME NEW i \in Legs, NEW e \in Evidence, CanCloseLeg(r, i), state = ClosedSuccessor(r, i, e)
        PROVE  RevocationBinds(v)
    <3> HIDE DEF r
    <3>1. /\ state.consumed = r.consumed
          /\ i = 1 => state.acquisition = e /\ state.name = "REVOKED_AFTER_ACQUISITION"
          /\ i = 2 => state.acquisition = r.acquisition /\ state.disposal = e
                      /\ state.name = "REVOKED_AFTER_DISPOSAL"
      BY <2>2, <2>4, ClosedSuccessorFacts
    <3>2. i = 2 <=> HasAcquisition(p)
      BY <2>2, <2>4 DEF CanCloseLeg, HasAcquisition, Legs
    <3>3. /\ p.possible => RevokedSuccessor(p).name = "RESOLUTION_REQUIRED_AFTER_REVOCATION"
          /\ ~p.possible => RevokedSuccessor(p).name = RevocationTarget[p.name]
      BY <1>0, <1>2, RevokedSuccessorFacts
    <3>4. RevokedSuccessor(p).name # "REVOKED_AFTER_ACQUISITION"
      BY <1>2, <2>1, <3>3 DEF RevocationTarget, Admitted, Resolving
    <3>5. /\ p.name \in RevocableBefore[state.name]
          /\ p.name \notin {"ACQUISITION_ADMITTED", "ACQUISITION_SUBMISSION_RESOLVING"} =>
               state.acquisition = p.acquisition
      BY <1>2, <2>1, <2>2, <3>1, <3>2 DEF RevocableBefore, Admitted, Resolving, Legs
    <3>6. state = Expected(p)
      BY <2>4, <3>1, <3>4 DEF r, Legs
    <3> HIDE DEF Expected
    <3> QED
      BY <1>1, <2>2, <3>1, <3>5, <3>6
  <2> QED
    BY <2>1, <2>3, <2>4
<1> QED
  BY <1>3, <1>4

(* Signing under a revocation leaves the state that the revocation and the *)
(* signed bytes explain.                                                   *)
LEMMA SignReopens ==
  ASSUME ReopenInv, NEW i \in Legs, NEW a, NEW p, NEW w \in Intents,
         RecordSignedIntentDurable(i, a, p, w)
  PROVE  ValidState(state)' /\ RowsMatchState' /\ SuccessorsMatch' /\ RevocationsExplain'
<1>0. TypeOK /\ state \in States
  BY DEF ReopenInv, IInv, TypeOK
<1>1. /\ TypeOK'
      /\ ordinals[i].stage = "KEY_LOAD_STARTED_AMBIGUOUS"
      /\ ordinals'[i].stage = "SIGNED_INTENT_DURABLE"
      /\ ordinals'[i].intent = w
      /\ ordinals'[i].predecessor = ordinals[i].predecessor
      /\ ordinals'[i].successor = ordinals[i].successor
      /\ ordinals'[i].admission = ordinals[i].admission
      /\ \A j \in Legs : j # i => ordinals'[j] = ordinals[j]
      /\ UNCHANGED <<challenges, revocations>>
      /\ ~Revoked => state' = state
  BY <1>0, SignEffect
<1>2. /\ i = 1 => state.name = "ACQUISITION_ADMITTED" /\ ordinals[2].stage = "NONE"
      /\ i = 2 => state.name = "DISPOSAL_ADMITTED" /\ ordinals[1].stage = "FINALIZED"
  BY <1>1 DEF ReopenInv, IInv, TypeOK, States, StateNames, Admitted, Resolving, Refused, RevokedNames,
              StageTable, StagePair, Legs
<1>3. Inserted' = Inserted /\ LastRow' = ordinals'[i]
  BY <1>1, <1>2 DEF Inserted, LastRow, Legs
<1>4. CASE ~Revoked
  <2>1. RowsMatchState' /\ SuccessorsMatch'
    BY <1>0, <1>1, <1>3, <1>4, IdentitiesKept DEF ReopenInv, RowsMatchState, Revoked, Inserted
  <2> QED
    BY <1>1, <1>4, <2>1 DEF ReopenInv, RevocationsExplain, Revoked
<1>5. CASE Revoked
  <2> DEFINE q == SignedSuccessor(state, w)
  <2>1. state.name \in Admitted /\ state' = RevokedSuccessor(q)
    BY <1>5 DEF RecordSignedIntentDurable, CanRecordSignedIntent
  <2>2. q \in States /\ q.possible /\ q.revoked = state.revoked /\ q.acquisition = state.acquisition
        /\ q.consumed = state.consumed
    BY <1>0, SignedSuccessorFacts DEF Nullable
  <2>3. ValidState(q)
    BY <1>0, <2>1, SignedValid DEF ReopenInv
  <2>4. ~state.revoked /\ ~state.possible
    BY <1>0, <2>1, ValidByName DEF ReopenInv, FlagsByName, Admitted, RevokedNames, Resolving
  <2> HIDE DEF q
  <2>5. ValidState(state')
    BY <2>1, <2>2, <2>3, <2>4, RevokedValid DEF CanRevoke
  <2>6. /\ state'.consumed = q.consumed /\ state'.acquisition = q.acquisition
        /\ state'.revoked /\ state'.name = "RESOLUTION_REQUIRED_AFTER_REVOCATION"
    BY <2>1, <2>2, RevokedSuccessorFacts
  <2>7. \A n \in Refused : state'.name = n <=> state.name = n
    BY <2>1, <2>6 DEF Refused, Admitted
  <2>8. RowsMatchState' /\ SuccessorsMatch'
    <3>1. /\ state'.consumed = state.consumed
          /\ 2 \in Inserted => state'.acquisition = state.acquisition
          /\ state'.revoked => Revoked'
      BY <1>1, <1>5, <2>2, <2>6 DEF Revoked
    <3>2. \A j \in Inserted : /\ ordinals'[j].admission = ordinals[j].admission
                              /\ ordinals'[j].predecessor = ordinals[j].predecessor
                              /\ ordinals'[j].successor = ordinals[j].successor
      BY <1>1 DEF Inserted
    <3> QED
      BY <1>0, <1>1, <1>3, <2>7, <3>1, <3>2, IdentitiesKept DEF ReopenInv
  <2>9. ASSUME NEW v \in revocations PROVE RevocationExplains(v)'
    <3>1. RevocationPending(v)
      BY <2>4 DEF ReopenInv, RevocationsExplain
    <3>2. CanRevoke(state)
      BY <1>0, <2>1, <2>4 DEF CanRevoke, RevocationTarget, Admitted
    <3>3. state' = ResolvingAfter(state, w)
      BY <2>1, <2>4 DEF ResolvingAfter, q
    <3>4. LastRow'.intent = w
      BY <1>1, <1>3
    <3>5. state.name \notin Resolving
      BY <2>1 DEF Admitted, Resolving
    <3>6. Explains(state, state', w)
      BY <2>1, <3>3, <3>5 DEF Explains
    <3> QED
      BY <3>1, <3>2, <3>4, <3>6 DEF RevocationExplains, RevocationPending, ReopenInv
  <2> QED
    BY <1>1, <2>5, <2>6, <2>8, <2>9 DEF RevocationsExplain
<1> QED
  BY <1>4, <1>5

(* Recording the signed state changes neither rows nor identities. *)
LEMMA PersistReopens ==
  ASSUME ReopenInv, NEW i \in Legs, NEW w \in Intents, RecordSignedEpisodeState(i, state, w)
  PROVE  ValidState(state)' /\ RowsMatchState' /\ SuccessorsMatch' /\ RevocationsExplain'
<1>0. TypeOK /\ state \in States
  BY DEF ReopenInv, IInv, TypeOK
<1>1. /\ TypeOK' /\ ordinals[i].stage = "SIGNED_INTENT_DURABLE"
      /\ state'.revoked = state.revoked /\ state'.acquisition = state.acquisition
      /\ state'.name \in Resolving
      /\ UNCHANGED <<challenges, ordinals, revocations>>
  BY <1>0, PersistEffect DEF Resolving
<1>2. state.name \in Admitted /\ state' = SignedSuccessor(state, w)
  BY DEF RecordSignedEpisodeState, CanRecordSignedIntent
<1>3. /\ ~state.revoked
      /\ i = 1 => /\ state.name = "ACQUISITION_ADMITTED"
                  /\ ordinals[2].stage = "NONE"
      /\ i = 2 => /\ state.name = "DISPOSAL_ADMITTED"
                  /\ ordinals[1].stage = "FINALIZED"
  BY <1>1, <1>2 DEF ReopenInv, IInv, Admitted, RevokedNames, StateFlags, StageTable, StagePair, Legs
<1>4. ~Revoked
  BY <1>1, <1>3 DEF ReopenInv, IInv, RevocationReflected, ActiveStage, AcquisitionNames, DisposalNames, Legs
<1>5. ValidState(state')
  BY <1>0, <1>2, SignedValid DEF ReopenInv
<1>6. state'.consumed = state.consumed
  BY <1>0, <1>2, SignedSuccessorFacts DEF Nullable
<1>7. \A n \in Refused : state'.name = n <=> state.name = n
  BY <1>1, <1>2 DEF Refused, Admitted, Resolving
<1>8. RowsMatchState' /\ SuccessorsMatch'
  BY <1>0, <1>1, <1>3, <1>6, <1>7, IdentitiesKept DEF ReopenInv, Inserted
<1> QED
  BY <1>1, <1>4, <1>5, <1>8 DEF RevocationsExplain, Revoked

(* Settling under a revocation leaves the state that the revocation, the   *)
(* signed bytes and the evidence explain.                                  *)
LEMMA SettleReopens ==
  ASSUME ReopenInv, NEW i \in Legs, NEW w, NEW e \in Evidence, Settle(i, w, e)
  PROVE  ValidState(state)' /\ RowsMatchState' /\ SuccessorsMatch' /\ RevocationsExplain'
<1>0. TypeOK /\ state \in States
  BY DEF ReopenInv, IInv, TypeOK
<1>1. /\ TypeOK' /\ CanCloseLeg(state, i)
      /\ ordinals[i].stage = "SUBMISSION_POSSIBLE"
      /\ ordinals'[i].stage = "FINALIZED"
      /\ ordinals'[i].predecessor = ordinals[i].predecessor
      /\ ordinals'[i].successor = ordinals[i].successor
      /\ ordinals'[i].admission = ordinals[i].admission
      /\ ordinals'[i].intent = ordinals[i].intent
      /\ \A j \in Legs : j # i => ordinals'[j] = ordinals[j]
      /\ UNCHANGED <<challenges, revocations>>
  BY <1>0, SettleEffect
<1>2. state' = ClosedSuccessor(state, i, e)
  BY DEF Settle
<1>3. ValidState(state')
  BY <1>0, <1>1, <1>2, ClosedValid DEF ReopenInv
<1>4. /\ state'.revoked = state.revoked /\ state'.consumed = state.consumed
      /\ i = 2 => state'.acquisition = state.acquisition
      /\ state'.name \in {"REVOKED_AFTER_ACQUISITION", "ACQUISITION_EVIDENCE_CLOSED",
                          "REVOKED_AFTER_DISPOSAL", "DISPOSAL_EVIDENCE_CLOSED"}
  BY <1>0, <1>2, ClosedSuccessorFacts DEF Legs, States
<1>5. /\ Inserted' = Inserted /\ LastRow'.intent = LastRow.intent
      /\ 2 \in Inserted => i = 2
  BY <1>1 DEF ReopenInv, IInv, CanCloseLeg, StageTable, StagePair, Inserted, LastRow, Legs
<1>6. \A n \in Refused : state'.name = n <=> state.name = n
  BY <1>1, <1>4 DEF Refused, CanCloseLeg
<1>7. RowsMatchState' /\ SuccessorsMatch'
  <2>1. \A j \in Inserted : /\ ordinals'[j].admission = ordinals[j].admission
                            /\ ordinals'[j].predecessor = ordinals[j].predecessor
                            /\ ordinals'[j].successor = ordinals[j].successor
    BY <1>1 DEF Inserted
  <2>2. state'.revoked => Revoked'
    BY <1>1, <1>4 DEF ReopenInv, RowsMatchState, Revoked
  <2> QED
    BY <1>0, <1>1, <1>4, <1>5, <1>6, <2>1, <2>2, IdentitiesKept DEF ReopenInv
<1>8. ASSUME NEW v \in revocations', state'.revoked PROVE RevocationExplains(v)'
  <2> DEFINE p == v.predecessor
             b == LastRow.intent
  <2>1. state.revoked /\ v \in revocations /\ RevocationExplains(v)
    BY <1>1, <1>4, <1>8 DEF ReopenInv, RevocationsExplain
  <2>2. state.name = "RESOLUTION_REQUIRED_AFTER_REVOCATION"
    BY <1>0, <1>1, <2>1, ValidByName DEF ReopenInv, FlagsByName, CanCloseLeg, RevokedNames
  <2>3. /\ p \in States /\ ValidState(p) /\ CanRevoke(p) /\ Explains(p, state, b)
    BY <1>0, <2>1 DEF RevocationExplains, TypeOK
  <2> HIDE DEF p, b
  <2>4. /\ p.possible <=> p.name \in Resolving
        /\ ~p.possible => p.name \in DOMAIN RevocationTarget
    BY <2>3, RevocableNames
  <2>5. state = RevokedSuccessor(p) => p.possible
    <3>1. state = RevokedSuccessor(p) /\ ~p.possible => state.name = RevocationTarget[p.name]
      BY <2>3, <2>4, RevokedSuccessorFacts
    <3> QED
      BY <2>2, <2>4, <3>1 DEF RevocationTarget
  <2>6. /\ p.name \in Admitted \cup Resolving
        /\ p.name \in Admitted => b \in Intents
        /\ state = ResolvingAfter(p, b)
    <3>1. CASE state = RevokedSuccessor(p)
      BY <2>4, <2>5, <3>1 DEF ResolvingAfter, Admitted, Resolving
    <3>2. CASE state # RevokedSuccessor(p)
      <4>1. /\ p.name \in Admitted \cup Resolving
            /\ p.name \in Admitted => b \in Intents
            /\ \/ state = ResolvingAfter(p, b)
               \/ \E j \in Legs, f \in Evidence : state = ClosedSuccessor(ResolvingAfter(p, b), j, f)
        BY <2>3, <3>2 DEF Explains
      <4>2. ResolvingAfter(p, b) \in States /\ ResolvingAfter(p, b).revoked
        BY <2>3, <4>1, ResolvingAfterFacts
      <4>3. ASSUME NEW j \in Legs, NEW f \in Evidence, state = ClosedSuccessor(ResolvingAfter(p, b), j, f)
            PROVE  FALSE
        <5>1. /\ j = 1 => state.name = "REVOKED_AFTER_ACQUISITION"
              /\ j = 2 => state.name = "REVOKED_AFTER_DISPOSAL"
          BY <4>2, <4>3, ClosedSuccessorFacts
        <5> QED
          BY <2>2, <5>1 DEF Legs
      <4> QED
        BY <4>1, <4>3
    <3> QED
      BY <3>1, <3>2
  <2>7. Explains(p, state', b)
    BY <1>1, <1>2, <2>3, <2>6 DEF Explains
  <2> QED
    BY <1>5, <2>1, <2>7 DEF RevocationExplains, p, b
<1>9. ASSUME NEW v \in revocations', ~state'.revoked PROVE FALSE
  <2>1. ~state.revoked /\ RevocationPending(v)
    BY <1>1, <1>4, <1>9 DEF ReopenInv, RevocationsExplain
  <2>2. LastRow = ordinals[i]
    BY <1>1, <1>5 DEF ReopenInv, IInv, StageTable, StagePair, CanCloseLeg, LastRow, Inserted, Legs
  <2> QED
    BY <1>1, <2>1, <2>2 DEF RevocationPending
<1> QED
  BY <1>3, <1>7, <1>8, <1>9 DEF RevocationsExplain

(* A revocation leaves the state it explains, or waits for the signature.  *)
LEMMA RevokeReopens ==
  ASSUME ReopenInv, NEW u \in Revocations, CanRevoke(state),
         RevokeAuthorization(RevocationOf(u, state))
  PROVE  ValidState(state)' /\ RowsMatchState' /\ SuccessorsMatch' /\ RevocationsExplain'
<1>0. TypeOK /\ state \in States /\ ValidState(state)
  BY DEF ReopenInv, IInv, TypeOK
<1>1. /\ TypeOK' /\ ~Revoked /\ Revoked' /\ StageAgrees(state) /\ Inserted = ExpectedRows(state)
      /\ UNCHANGED <<challenges, ordinals>>
      /\ ActiveStage(state) = "KEY_LOAD_STARTED_AMBIGUOUS" => state' = state
  BY <1>0, RevokeEffect
<1>2. /\ state' = StateAfterRevocation(state)
      /\ revocations' = {RevocationOf(u, state)}
  BY DEF RevokeAuthorization
<1>3. /\ Inserted' = Inserted /\ LastRow' = LastRow
  BY <1>1 DEF Inserted, LastRow
<1>4. ~state.revoked /\ FlagsByName(state)
  BY <1>0, ValidByName DEF CanRevoke
<1>5. /\ state.name \in {"AUTHORIZED_DORMANT", "ACQUISITION_EVIDENCE_CLOSED"} \cup Admitted \cup Resolving
      /\ state.possible <=> state.name \in Resolving
      /\ ~state.possible => state.name \in DOMAIN RevocationTarget
  BY <1>0, RevocableNames
<1>6. state.name \in Admitted \cup Resolving =>
        /\ LastRow.stage = ActiveStage(state)
        /\ LastRow.intent = ActiveIntent(state)
        /\ state.name \in Resolving => state.intent = LastRow.intent
  BY <1>1, <1>5 DEF ReopenInv, IInv, StateFlags, ExpectedRows, Admitted, Resolving, LastRow, LastLeg, ActiveStage,
     ActiveIntent, AcquisitionNames, DisposalNames
<1>7. \A v \in revocations' : v.predecessor = state /\ v.successor = RevokedSuccessor(state)
  BY <1>2 DEF RevocationOf
<1>8. CASE ActiveStage(state) = "KEY_LOAD_STARTED_AMBIGUOUS"
  <2>1. RowsMatchState' /\ SuccessorsMatch'
    BY <1>0, <1>1, <1>3, <1>4, <1>8, IdentitiesKept DEF ReopenInv, Inserted
  <2>2. LastRow.stage = "KEY_LOAD_STARTED_AMBIGUOUS"
    BY <1>6, <1>8 DEF ActiveStage, AcquisitionNames, DisposalNames, ReopenInv, IInv, StageTable, StagePair, Admitted, Resolving
  <2>3. ASSUME NEW v \in revocations' PROVE RevocationPending(v)'
    BY <1>1, <1>3, <1>7, <1>8, <2>2 DEF RevocationPending
  <2> QED
    BY <1>0, <1>1, <1>4, <1>8, <2>1, <2>3 DEF RevocationsExplain
<1>9. ASSUME state'.revoked, ValidState(state'), state'.consumed = state.consumed,
             state'.acquisition = state.acquisition, Explains(state, state', LastRow.intent)
      PROVE  RowsMatchState' /\ SuccessorsMatch' /\ RevocationsExplain'
  <2>1. \A n \in Refused : state'.name = n <=> state.name = n
    <3>1. state' \in States /\ FlagsByName(state')
      BY <1>1, <1>9, ValidByName DEF TypeOK
    <3> QED
      BY <1>5, <1>9, <3>1 DEF FlagsByName, RevokedNames, Refused, Admitted, Resolving
  <2>2. RowsMatchState' /\ SuccessorsMatch'
    BY <1>0, <1>1, <1>3, <1>9, <2>1, IdentitiesKept DEF ReopenInv, Inserted
  <2>3. ASSUME NEW v \in revocations' PROVE RevocationExplains(v)'
    BY <1>0, <1>3, <1>7, <1>9 DEF RevocationExplains
  <2> QED
    BY <1>9, <2>2, <2>3 DEF RevocationsExplain
<1>10. CASE ActiveStage(state) = "SIGNED_INTENT_DURABLE" /\ state.name \notin Resolving
  <2> DEFINE w == LastRow.intent
             q == SignedSuccessor(state, w)
  <2>1. state.name \in Admitted
    BY <1>5, <1>10 DEF ActiveStage, AcquisitionNames, DisposalNames, ReopenInv, IInv, StageTable, StagePair
  <2>2. w \in Intents
    <3>1. \E i \in Inserted : LastRow = ordinals[i] /\ ordinals[i].stage = "SIGNED_INTENT_DURABLE"
      BY <1>6, <1>10, <2>1, <1>1 DEF LastRow, ExpectedRows, Admitted, AcquisitionNames
    <3> QED
      BY <1>0, <3>1 DEF ReopenInv, RowsShaped, RowShape, Retained, TypeOK, Rows, Nullable, Inserted
  <2>3. state' = RevokedSuccessor(q)
    BY <1>2, <1>6, <1>10, <2>1 DEF StateAfterRevocation
  <2>4. q \in States /\ q.possible /\ q.revoked = state.revoked /\ q.acquisition = state.acquisition
        /\ q.consumed = state.consumed
    BY <1>0, <2>2, SignedSuccessorFacts DEF Nullable
  <2>5. ValidState(q)
    BY <1>0, <2>1, <2>2, SignedValid
  <2>6. Explains(state, state', w)
    BY <1>5, <1>10, <2>1, <2>2, <2>3 DEF Explains, ResolvingAfter
  <2> HIDE DEF q, w
  <2>7. ValidState(state')
    BY <1>4, <2>3, <2>4, <2>5, RevokedValid DEF CanRevoke
  <2>8. state'.revoked /\ state'.consumed = q.consumed /\ state'.acquisition = q.acquisition
    BY <2>3, <2>4, RevokedSuccessorFacts
  <2> QED
    BY <1>9, <2>4, <2>6, <2>7, <2>8 DEF w
<1>11. CASE \/ ActiveStage(state) \notin {"KEY_LOAD_STARTED_AMBIGUOUS", "SIGNED_INTENT_DURABLE"}
            \/ ActiveStage(state) = "SIGNED_INTENT_DURABLE" /\ state.name \in Resolving
  <2>1. state' = RevokedSuccessor(state)
    BY <1>2, <1>11 DEF StateAfterRevocation
  <2>2. state'.revoked /\ state'.consumed = state.consumed /\ state'.acquisition = state.acquisition
    BY <1>0, <1>5, <2>1, RevokedSuccessorFacts
  <2>3. ValidState(state')
    BY <1>0, <2>1, RevokedValid
  <2>4. Explains(state, state', LastRow.intent)
    BY <1>6, <2>1 DEF Explains
  <2> QED
    BY <1>9, <2>2, <2>3, <2>4
<1> QED
  BY <1>0, <1>8, <1>9, <1>10, <1>11

(* A provisioned database can be opened. *)
LEMMA InitReopens == Init => ReopenInv
<1> SUFFICES ASSUME Init PROVE ReopenInv
  OBVIOUS
<1>1. IInv /\ Inserted = {} /\ state = AuthorizedDormant /\ revocations = {}
  BY InitInvariant DEF Init, Inserted, NoRow
<1>2. ValidState(state)
  <2>1. NoIdentityTwice(state) /\ FlagsByName(state) /\ ShapeByName(state)
    BY <1>1 DEF AuthorizedDormant, NoIdentityTwice, FlagsByName, ShapeByName, RequiresAcquisition,
                HasAcquisition, Resolving, RevokedNames
  <2> QED
    BY <1>1, <2>1, DormantTyped, ValidByName
<1>3. RowsMatchState
  BY <1>1 DEF RowsMatchState, AuthorizedDormant
<1> QED
  BY <1>1, <1>2, <1>3 DEF ReopenInv, RowsShaped, SuccessorsMatch, RevocationsExplain

(* Every step leaves a database that can be opened. *)
LEMMA ReopenStep == ReopenInv /\ [Next]_vars => ReopenInv'
<1> SUFFICES ASSUME ReopenInv, [Next]_vars PROVE ReopenInv'
  OBVIOUS
<1> DEFINE Goal == ValidState(state)' /\ RowsMatchState' /\ SuccessorsMatch' /\ RevocationsExplain'
<1>0. IInv /\ TypeOK /\ RowsShaped
  BY DEF ReopenInv, IInv
<1>1. IInv' /\ RowsShaped' /\ TypeOK'
  BY <1>0, InvariantStep, RowStep, InsertedStep DEF RowsShaped, IInv
<1>2. challenges \subseteq challenges'
  BY DEF Next, vars, Register, RegisterReadinessChallenge, Consume, ConsumeEpisodeOrdinal, Prepare,
         RecordPrepared, LoadKey, RecordKeyLoadStarted, Sign, RecordSignedIntentDurable, PersistSigned,
         RecordSignedEpisodeState, Submit, RecordSubmissionPossible, Finalize, CloseAcquisition,
         RecordFinalized, Settle, Revoke, RevokeAuthorization
<1>3. ASSUME UNCHANGED <<state, ordinals, revocations>> PROVE Goal
  BY <1>1, <1>2, <1>3, RowMoveReopens DEF Inserted, LastRow
<1>4. ASSUME NEW i \in Legs, NEW a, NEW p \in Plans, RecordPrepared(i, a, p) PROVE Goal
  <2>1. /\ ordinals[i].stage = "RESERVED" /\ ordinals'[i].stage = "PREPARED"
        /\ ordinals'[i].predecessor = ordinals[i].predecessor
        /\ ordinals'[i].successor = ordinals[i].successor
        /\ ordinals'[i].admission = ordinals[i].admission
        /\ ordinals'[i].intent = ordinals[i].intent
        /\ \A j \in Legs : j # i => ordinals'[j] = ordinals[j]
        /\ UNCHANGED <<state, challenges, revocations>>
    BY <1>0, <1>4, PrepareEffect
  <2>2. ~(Revoked /\ ~state.revoked)
    BY <1>0, <2>1 DEF IInv, RevocationReflected, ActiveStage, AcquisitionNames, DisposalNames,
                      StageTable, StagePair, Legs
  <2>3. Inserted' = Inserted
    BY <2>1 DEF Inserted
  <2> QED
    BY <1>1, <1>2, <2>1, <2>2, <2>3, RowMoveReopens
<1>5. ASSUME NEW i \in Legs, NEW a, NEW p, RecordKeyLoadStarted(i, a, p) PROVE Goal
  <2>1. /\ ~Revoked /\ ordinals[i].stage = "PREPARED" /\ ordinals'[i].stage = "KEY_LOAD_STARTED_AMBIGUOUS"
        /\ ordinals'[i].predecessor = ordinals[i].predecessor
        /\ ordinals'[i].successor = ordinals[i].successor
        /\ ordinals'[i].admission = ordinals[i].admission
        /\ ordinals'[i].intent = ordinals[i].intent
        /\ \A j \in Legs : j # i => ordinals'[j] = ordinals[j]
        /\ UNCHANGED <<state, challenges, revocations>>
    BY <1>0, <1>5, LoadKeyEffect
  <2>2. Inserted' = Inserted
    BY <2>1 DEF Inserted
  <2> QED
    BY <1>1, <1>2, <2>1, <2>2, RowMoveReopens
<1>6. ASSUME NEW i \in Legs, NEW w, RecordSubmissionPossible(i, w) PROVE Goal
  <2>1. /\ ~Revoked /\ ordinals[i].stage = "SIGNED_INTENT_DURABLE" /\ ordinals'[i].stage = "SUBMISSION_POSSIBLE"
        /\ ordinals'[i].predecessor = ordinals[i].predecessor
        /\ ordinals'[i].successor = ordinals[i].successor
        /\ ordinals'[i].admission = ordinals[i].admission
        /\ ordinals'[i].intent = ordinals[i].intent
        /\ \A j \in Legs : j # i => ordinals'[j] = ordinals[j]
        /\ UNCHANGED <<state, challenges, revocations>>
    BY <1>0, <1>6, SubmitEffect
  <2>2. Inserted' = Inserted
    BY <2>1 DEF Inserted
  <2> QED
    BY <1>1, <1>2, <2>1, <2>2, RowMoveReopens
<1>7. ASSUME NEW i \in Legs, NEW d \in Decisions, NEW c \in Challenges, NEW refused \in BOOLEAN,
             ConsumeEpisodeOrdinal(Reservation(i, state, d, c, refused))
      PROVE  Goal
  BY <1>7, ConsumeReopens
<1>8. ASSUME NEW i \in Legs, NEW a, NEW p, NEW w \in Intents, RecordSignedIntentDurable(i, a, p, w)
      PROVE  Goal
  BY <1>8, SignReopens
<1>9. ASSUME NEW i \in Legs, NEW w \in Intents, RecordSignedEpisodeState(i, state, w) PROVE Goal
  BY <1>9, PersistReopens
<1>10. ASSUME NEW i \in Legs, NEW w, NEW e \in Evidence, Settle(i, w, e) PROVE Goal
  BY <1>10, SettleReopens
<1>11. ASSUME NEW v \in Revocations, CanRevoke(state), RevokeAuthorization(RevocationOf(v, state))
      PROVE  Goal
  BY <1>11, RevokeReopens
<1>12. Goal
  BY <1>3, <1>4, <1>5, <1>6, <1>7, <1>8, <1>9, <1>10, <1>11, StepCases
<1> QED
  BY <1>1, <1>12 DEF ReopenInv

(* The stages of the rows are those the table of stages allows, but for a  *)
(* submission that was recorded before its decision.                       *)
LEMMA StagesAllowed ==
  ASSUME IInv, ~SubmittedEarly
  PROVE  StagesMatch
<1> DEFINE stages == [i \in Inserted |-> ordinals[i].stage]
           a == ordinals[1].stage
           b == ordinals[2].stage
<1>1. /\ a = "NONE" /\ b = "NONE" => stages = <<>>
      /\ a # "NONE" /\ b = "NONE" => stages = <<a>>
      /\ a # "NONE" /\ b # "NONE" => stages = <<a, b>>
  <2>1. CASE a = "NONE" /\ b = "NONE"
    <3>1. Inserted = {}
      BY <2>1 DEF Inserted, Legs
    <3> QED
      BY <2>1, <3>1
  <2>2. CASE a # "NONE" /\ b = "NONE"
    <3>1. Inserted = {1}
      BY <2>2 DEF Inserted, Legs
    <3> QED
      BY <2>2, <3>1
  <2>3. CASE a # "NONE" /\ b # "NONE"
    <3>1. Inserted = {1, 2}
      BY <2>3 DEF Inserted, Legs
    <3> QED
      BY <2>3, <3>1
  <2> QED
    BY <2>1, <2>2, <2>3
<1>2. state.possible => state.intent = LastRow.intent
  BY DEF IInv, StateFlags, LastLeg, LastRow
<1>3. /\ state.name = "ACQUISITION_ADMITTED" => a # "SUBMISSION_POSSIBLE"
      /\ state.name = "DISPOSAL_ADMITTED" => b # "SUBMISSION_POSSIBLE"
  BY DEF SubmittedEarly, Admitted, Inserted, Legs
<1>4. state.name \in StateNames
  BY DEF IInv, TypeOK, States
<1> HIDE DEF stages
<1>5. stages \in AllowedStages[state.name]
  BY <1>1, <1>3, <1>4 DEF IInv, StageTable, StagePair, AllowedStages, Pending, Unsigned, Signable,
     AdmittedStages, StateNames, Admitted, Resolving, Refused, RevokedNames
<1> QED
  BY <1>2, <1>5 DEF StagesMatch, stages

(* Whatever was committed before a crash, the next process can open the    *)
(* authority; the exception is a submission recorded before its decision.  *)
THEOREM Reopening == Spec => []RestartReopens
<1>1. ReopenInv => RestartReopens
  <2> SUFFICES ASSUME ReopenInv, ~SubmittedEarly PROVE ReopenAdmits
    BY DEF RestartReopens
  <2>1. StagesMatch
    BY StagesAllowed DEF ReopenInv
  <2>2. \A v \in revocations : IF state.revoked THEN RevocationBinds(v) ELSE RevocationPending(v)
    BY ExplainedBinds DEF ReopenInv, RevocationsExplain, IInv
  <2> QED
    BY <2>1, <2>2 DEF ReopenInv, ReopenAdmits
<1> QED
  BY <1>1, InitReopens, ReopenStep, PTL DEF Spec

-----------------------------------------------------------------------------
(* Part two: the runtimes. *)

Positions ==
  {"idle", "register", "consume", "prepare", "loadKey", "inspect", "reinspect", "sign", "retain",
   "durable", "reload", "persist", "elect", "schedule", "dispatch", "close"}

Calls == [pc : Positions, leg : 0..2, seen : Nullable(States), admission : Nullable(Consumptions),
          plan : Nullable(Plans), wire : Nullable(Intents), sends : Nat, decided : 0..2]

RevocationCalls ==
  [pc : {"idle", "commit"}, seen : Nullable(States), id : Nullable(Revocations)]

RuntimeTypeOK ==
  /\ up \in [Runtimes -> BOOLEAN]
  /\ call \in [Runtimes -> Calls]
  /\ revoking \in [Runtimes -> RevocationCalls]
  /\ wires \in [Legs -> Nullable(Intents)]
  /\ signatures \in [Legs -> Nat]
  /\ sent \in [Legs -> Nat]
  /\ sentRevoked \in [Legs -> Nat]
  /\ acknowledged \in [Legs -> Nullable(Intents)]

(* From its consumption to its durable signature a call is the only one    *)
(* that moves the row of its leg.                                          *)
Signing == {"inspect", "reinspect", "sign", "retain", "durable"}
Owning  == {"prepare", "loadKey"} \cup Signing
Sending == {"schedule", "dispatch"}

StageOwned(pc) == IF pc = "prepare" THEN "RESERVED"
                  ELSE IF pc = "loadKey" THEN "PREPARED" ELSE "KEY_LOAD_STARTED_AMBIGUOUS"

OwnsRow(c) ==
  /\ c.leg \in Legs
  /\ c.admission \in Consumptions
  /\ ordinals[c.leg].admission = c.admission
  /\ ordinals[c.leg].successor.name \notin Refused
  /\ ordinals[c.leg].stage = StageOwned(c.pc)
  /\ signatures[c.leg] = IF c.pc \in {"retain", "durable"} THEN 1 ELSE 0
  /\ c.pc # "prepare" => c.plan \in Plans

OwnsSends(c) ==
  /\ c.leg \in Legs
  /\ ordinals[c.leg].stage \in {"SUBMISSION_POSSIBLE", "FINALIZED"}
  /\ c.sends <= MaxSends
  /\ c.pc = "schedule" => sent[c.leg] = c.sends
  /\ c.pc = "dispatch" => sent[c.leg] + 1 = c.sends /\ sentRevoked[c.leg] = 0

(* What a call holds at its position. *)
Holds(c) ==
  /\ c.pc = "consume" => c.admission \in Consumptions /\ c.seen \in States /\ c.leg = c.seen.next
  /\ c.pc \in Owning => OwnsRow(c)
  /\ c.pc \in Sending => OwnsSends(c)
  /\ c.pc \in {"reload", "persist", "elect", "close"} => c.leg \in Legs
  /\ c.pc \in {"retain", "durable", "reload", "persist", "elect", "close"} => c.wire \in Intents
  /\ c.pc = "elect" /\ SubmitAfterDecision => c.decided = c.leg
  /\ c.pc \notin Sending => c.sends = 0
  /\ c.decided # 0 => acknowledged[c.decided] # None

CallsHold == \A r \in Runtimes : Holds(call[r])

(* No two calls own the row, or the sends, of one leg. *)
OneOwner ==
  \A r, q \in Runtimes : r # q /\ call[r].leg = call[q].leg =>
     /\ ~(call[r].pc \in Owning /\ call[q].pc \in Owning)
     /\ ~(call[r].pc \in Sending /\ call[q].pc \in Sending)

(* A signature needs a started key load, a send needs an elected owner. *)
Early == {"NONE", "RESERVED", "PREPARED"}
Counted(i) ==
  /\ signatures[i] <= 1
  /\ ordinals[i].stage \in Early => signatures[i] = 0
  /\ sent[i] <= MaxSends
  /\ sentRevoked[i] <= 1
  /\ ordinals[i].stage \notin {"SUBMISSION_POSSIBLE", "FINALIZED"} => sent[i] = 0
  /\ ~Revoked => sentRevoked[i] = 0

(* The intent the agent was answered with is the one the row retains, and  *)
(* the episode tracks it until the leg is settled.                         *)
Acknowledged(i) ==
  acknowledged[i] # None =>
    /\ ordinals[i].stage \in Retained
    /\ ordinals[i].intent = acknowledged[i]
    /\ ordinals[i].stage # "FINALIZED" => state.possible /\ state.intent = acknowledged[i]

(* A human was told REVOKED only of legs whose key load will never start. *)
ToldTrue ==
  \A t \in told : t.result = "REVOKED" =>
    /\ Revoked
    /\ t.before \in {"AUTHORIZED_DORMANT", "ACQUISITION_ADMITTED"} => ordinals[1].stage \in Early
    /\ t.before \in {"AUTHORIZED_DORMANT", "ACQUISITION_EVIDENCE_CLOSED", "DISPOSAL_ADMITTED"} =>
         ordinals[2].stage \in Early

RevocationHeld == \A r \in Runtimes : revoking[r].pc = "commit" => revoking[r].id \in Revocations

RuntimeInv ==
  /\ ReopenInv
  /\ RuntimeTypeOK
  /\ CallsHold
  /\ OneOwner
  /\ \A i \in Legs : Counted(i) /\ Acknowledged(i)
  /\ ToldTrue
  /\ RevocationHeld

-----------------------------------------------------------------------------
(* Steps of one call *)

(* A call that ended, and a runtime that restarted, hold nothing. *)
LEMMA EndedCall ==
  ASSUME NEW n \in 0..2
  PROVE  /\ NoCall \in Calls /\ NoCall.pc = "idle" /\ NoCall.decided = 0
         /\ [NoCall EXCEPT !.decided = n] \in Calls
         /\ [NoCall EXCEPT !.decided = n].pc = "idle"
         /\ [NoCall EXCEPT !.decided = n].decided = n
BY DEF NoCall, Calls, Positions, Nullable

(* A step of one runtime changes its own call alone. *)
LEMMA BecomesFacts ==
  ASSUME RuntimeTypeOK, NEW r \in Runtimes, NEW c \in Calls, Becomes(r, c)
  PROVE  /\ call' \in [Runtimes -> Calls]
         /\ call'[r] = c
         /\ \A q \in Runtimes : q # r => call'[q] = call[q]
BY DEF RuntimeTypeOK, Becomes

RowKept(i) ==
  /\ ordinals'[i].stage = ordinals[i].stage
  /\ ordinals'[i].admission = ordinals[i].admission
  /\ ordinals'[i].successor = ordinals[i].successor
  /\ signatures'[i] = signatures[i]

SendsKept(i) ==
  /\ ordinals'[i].stage \in {"SUBMISSION_POSSIBLE", "FINALIZED"}
  /\ sent'[i] = sent[i]
  /\ sentRevoked'[i] = sentRevoked[i]

AnswersKept == \A i \in Legs : acknowledged[i] # None => acknowledged'[i] # None

(* A call keeps what it holds when nobody touches what it owns. *)
LEMMA Undisturbed ==
  ASSUME NEW q \in Runtimes, call[q] \in Calls, Holds(call[q]), call'[q] = call[q],
         call[q].pc \in Owning => RowKept(call[q].leg),
         call[q].pc \in Sending => SendsKept(call[q].leg),
         AnswersKept
  PROVE  Holds(call[q])'
<1>1. call[q].pc \in Owning => OwnsRow(call[q])'
  BY DEF Holds, OwnsRow, RowKept
<1>2. call[q].pc \in Sending => OwnsSends(call[q])'
  BY DEF Holds, OwnsSends, SendsKept
<1>3. call[q].decided # 0 => acknowledged'[call[q].decided] # None
  BY DEF Holds, AnswersKept, Calls, Legs
<1> QED
  BY <1>1, <1>2, <1>3 DEF Holds

(* What a step of runtime r owes the calls: its own call holds what it     *)
(* claims, it takes over nothing another call owns, and it leaves what the *)
(* others own alone.                                                       *)
LEMMA CallStep ==
  ASSUME call \in [Runtimes -> Calls], CallsHold, OneOwner, NEW r \in Runtimes,
         \A q \in Runtimes : q # r => call'[q] = call[q],
         Holds(call[r])',
         AnswersKept,
         \A q \in Runtimes : q # r =>
           /\ call[q].pc \in Owning => RowKept(call[q].leg)
           /\ call[q].pc \in Sending => SendsKept(call[q].leg)
           /\ call'[r].pc \in Owning /\ call[q].pc \in Owning => call[q].leg # call'[r].leg
           /\ call'[r].pc \in Sending /\ call[q].pc \in Sending => call[q].leg # call'[r].leg
  PROVE  CallsHold' /\ OneOwner'
<1>1. CallsHold'
  <2> SUFFICES ASSUME NEW q \in Runtimes PROVE Holds(call[q])'
    BY DEF CallsHold
  <2>1. CASE q = r
    BY <2>1
  <2>2. CASE q # r
    BY <2>2, Undisturbed DEF CallsHold
  <2> QED
    BY <2>1, <2>2
<1>2. OneOwner'
  BY DEF OneOwner
<1> QED
  BY <1>1, <1>2
-----------------------------------------------------------------------------
(* The runtimes are callers the authority allows *)

(* An admission is a decision with the challenge it answered. *)
LEMMA AdmissionsAre ==
  ASSUME NEW a \in Consumptions
  PROVE  \E d \in Decisions, c \in Challenges : a = Consumption(d, c)
BY DEF Consumptions, Consumption

(* A decision is consumed for the leg the state it read calls for. *)
LEMMA ConsumesNextLeg ==
  ASSUME ReopenInv, NEW i, NEW p, NEW d \in Decisions, NEW c \in Challenges, NEW refused \in BOOLEAN,
         i = p.next, ConsumeEpisodeOrdinal(Reservation(i, p, d, c, refused))
  PROVE  p = state /\ i \in Legs
<1> DEFINE q == Reservation(i, p, d, c, refused)
<1>1. q.ordinal = i /\ q.predecessor = p
  BY DEF Reservation
<1>2. ConsumeOutcome(q) = "CONSUMED"
  BY DEF ConsumeEpisodeOrdinal
<1> HIDE DEF q
<1>3. state = p /\ state.name = IF i = 1 THEN "AUTHORIZED_DORMANT" ELSE "ACQUISITION_EVIDENCE_CLOSED"
  BY <1>1, <1>2 DEF ConsumeOutcome
<1>4. ShapeByName(state)
  BY ValidByName DEF ReopenInv, IInv, TypeOK
<1> QED
  BY <1>3, <1>4 DEF ShapeByName, Legs

(* Every step of a runtime is an operation the authority offers, called    *)
(* the way its callers' contract requires, or leaves its tables alone.     *)
LEMMA RuntimeRefines ==
  ASSUME RuntimeInv, NEW r \in Runtimes, RuntimeStep(r)
  PROVE  [Next]_vars
<1>0. /\ ReopenInv /\ IInv /\ TypeOK
      /\ call[r] \in Calls /\ Holds(call[r])
      /\ RevocationHeld
  BY DEF RuntimeInv, ReopenInv, IInv, RuntimeTypeOK, CallsHold
<1>1. CASE EndIssue(r)
  BY <1>1 DEF EndIssue, Next
<1>2. CASE ConsumeDecision(r)
  <2>1. PICK refused \in BOOLEAN :
          ConsumeEpisodeOrdinal(Reservation(call[r].leg, call[r].seen, call[r].admission.decision,
                                            call[r].admission.challenge, refused))
    BY <1>2 DEF ConsumeDecision
  <2>2. /\ call[r].admission.decision \in Decisions /\ call[r].admission.challenge \in Challenges
        /\ call[r].leg = call[r].seen.next
    BY <1>0, <1>2 DEF ConsumeDecision, At, Holds, Consumptions
  <2>3. call[r].seen = state /\ call[r].leg \in Legs
    BY <1>0, <2>1, <2>2, ConsumesNextLeg
  <2> QED
    BY <2>1, <2>2, <2>3 DEF Next, Consume
<1>3. CASE PreparePlan(r)
  <2>1. PICK p \in Plans : RecordPrepared(call[r].leg, call[r].admission, p)
    BY <1>3 DEF PreparePlan
  <2>2. OwnsRow(call[r])
    BY <1>0, <1>3 DEF PreparePlan, At, Holds, Owning
  <2> QED
    BY <2>1, <2>2, AdmissionsAre DEF Next, Prepare, OwnsRow
<1>4. CASE StartKeyLoad(r)
  <2>1. OwnsRow(call[r]) /\ call[r].plan \in Plans
    BY <1>0, <1>4 DEF StartKeyLoad, At, Holds, Owning, OwnsRow
  <2> QED
    BY <1>4, <2>1, AdmissionsAre DEF Next, LoadKey, StartKeyLoad, OwnsRow
<1>5. CASE MakeIntentDurable(r)
  <2>1. OwnsRow(call[r]) /\ call[r].plan \in Plans /\ call[r].wire \in Intents
    BY <1>0, <1>5 DEF MakeIntentDurable, At, Holds, Owning, Signing, OwnsRow
  <2> QED
    BY <1>5, <2>1, AdmissionsAre DEF Next, Sign, MakeIntentDurable, OwnsRow
<1>6. CASE PersistSignedSuccessor(r)
  <2>1. call[r].leg \in Legs /\ call[r].wire \in Intents
    BY <1>0, <1>6 DEF PersistSignedSuccessor, At, Holds
  <2>2. call[r].seen = state
    BY <1>6 DEF PersistSignedSuccessor, RecordSignedEpisodeState
  <2> QED
    BY <1>6, <2>1, <2>2 DEF Next, PersistSigned, PersistSignedSuccessor
<1>7. CASE ElectOwner(r)
  <2>1. /\ call[r].leg \in Legs /\ call[r].wire \in Intents
        /\ SubmitAfterDecision => call[r].decided = call[r].leg
        /\ call[r].decided # 0 => acknowledged[call[r].decided] # None
        /\ RecordSubmissionPossible(call[r].leg, call[r].wire)
    BY <1>0, <1>7 DEF ElectOwner, At, Holds
  <2>2. SubmitAfterDecision => state.name \in Resolving
    <3>1. Acknowledged(call[r].leg)
      BY <2>1 DEF RuntimeInv
    <3>2. ~Revoked /\ ordinals[call[r].leg].stage = "SIGNED_INTENT_DURABLE"
      BY <2>1 DEF RecordSubmissionPossible
    <3>3. SubmitAfterDecision => state.possible
      BY <2>1, <3>1, <3>2 DEF Acknowledged, Legs
    <3>4. ~state.revoked
      BY <1>0, <3>2 DEF IInv, RevocationReflected
    <3> QED
      BY <1>0, <3>3, <3>4 DEF IInv, StateFlags, RevokedNames
  <2> QED
    BY <2>1, <2>2 DEF Next, Submit
<1>8. CASE CloseLeg(r)
  <2>1. call[r].leg \in Legs /\ call[r].wire \in Intents
    BY <1>0, <1>8 DEF CloseLeg, At, Holds
  <2> QED
    BY <1>8, <2>1 DEF Next, Finalize, CloseLeg
<1>9. CASE CommitRevocation(r)
  <2> DEFINE request == RevocationOf(revoking[r].id, revoking[r].seen)
  <2>1. CASE RevokeOutcome(request) \in RevocationResults
    <3>1. revoking[r].id \in Revocations /\ RevokeAuthorization(request)
      BY <1>0, <1>9, <2>1 DEF CommitRevocation, RevocationHeld
    <3>2. request.predecessor = revoking[r].seen
      BY DEF RevocationOf
    <3> HIDE DEF request
    <3>3. revoking[r].seen = state /\ CanRevoke(state)
      BY <2>1, <3>2 DEF RevokeOutcome, RevocationResults
    <3> QED
      BY <3>1, <3>3 DEF Next, Revoke, request
  <2>2. CASE RevokeOutcome(request) \notin RevocationResults
    BY <1>9, <2>2 DEF CommitRevocation
  <2> QED
    BY <2>1, <2>2
<1>10. CASE UNCHANGED vars
  BY <1>10
<1>11. ASSUME \/ BeginIssue(r) \/ BeginDecision(r) \/ InspectCheckpoint(r) \/ SignMessage(r)
              \/ RetainWire(r) \/ ReloadState(r) \/ CheckSend(r) \/ Dispatch(r)
              \/ ResolveSubmission(r) \/ Abandon(r) \/ Crash(r) \/ Open(r)
              \/ \E i \in Legs : BeginSubmission(r, i) \/ BeginFinalization(r, i)
              \/ \E v \in Revocations : BeginRevocation(r, v)
       PROVE  UNCHANGED vars
  BY <1>11 DEF BeginIssue, BeginDecision, InspectCheckpoint, SignMessage, RetainWire, ReloadState,
               CheckSend, Dispatch, ResolveSubmission, Abandon, Crash, Open, BeginSubmission,
               BeginFinalization, BeginRevocation
<1> QED
  BY <1>1, <1>2, <1>3, <1>4, <1>5, <1>6, <1>7, <1>8, <1>9, <1>10, <1>11 DEF RuntimeStep

-----------------------------------------------------------------------------
(* What the others may rely on *)

(* The submission an answered intent waits for is tracked until that leg is *)
(* settled, whatever the operations do.                                     *)
LEMMA TrackedUntilSettled ==
  ASSUME ReopenInv, [Next]_vars, NEW i \in Legs, ordinals[i].stage \in Retained,
         ordinals'[i].stage # "FINALIZED", ordinals[i].stage # "FINALIZED", state.possible
  PROVE  state'.possible /\ state'.intent = state.intent
<1>0. IInv /\ TypeOK /\ state \in States /\ FlagsByName(state)
  BY ValidByName DEF ReopenInv, IInv, TypeOK
<1>1. /\ state.name \in Resolving \cup {"RESOLUTION_REQUIRED_AFTER_REVOCATION"}
      /\ \A j \in Legs : ordinals[j].stage \in {"SIGNED_INTENT_DURABLE", "SUBMISSION_POSSIBLE"} => j = i
      /\ \A j \in Legs : ordinals[j].stage # "KEY_LOAD_STARTED_AMBIGUOUS"
  BY <1>0 DEF IInv, StageTable, StagePair, StateFlags, Resolving, Legs, Retained
<1>2. ASSUME state' = state PROVE state'.possible /\ state'.intent = state.intent
  BY <1>2
<1>3. \A j \in Legs, d \in Decisions, c \in Challenges, refused \in BOOLEAN :
        ~ConsumeEpisodeOrdinal(Reservation(j, state, d, c, refused))
  BY <1>0, <1>1, ConsumeEffect DEF Resolving
<1>4. \A j \in Legs, a \in Consumptions, p \in Plans, w \in Intents :
        ~RecordSignedIntentDurable(j, a, p, w)
  BY <1>1 DEF RecordSignedIntentDurable
<1>5. \A j \in Legs, w \in Intents : ~RecordSignedEpisodeState(j, state, w)
  BY <1>1 DEF RecordSignedEpisodeState, CanRecordSignedIntent, Admitted, Resolving
<1>6. \A j \in Legs, w \in Intents, e \in Evidence : ~Settle(j, w, e)
  BY <1>0, <1>1, SettleEffect
<1>7. /\ \A j \in Legs, a \in Consumptions, p \in Plans : RecordPrepared(j, a, p) => state' = state
      /\ \A j \in Legs, a \in Consumptions, p \in Plans : RecordKeyLoadStarted(j, a, p) => state' = state
      /\ \A j \in Legs, w \in Intents : RecordSubmissionPossible(j, w) => state' = state
  BY DEF RecordPrepared, RecordKeyLoadStarted, RecordSubmissionPossible
<1>8. ASSUME NEW v \in Revocations, CanRevoke(state), RevokeAuthorization(RevocationOf(v, state))
      PROVE  state'.possible /\ state'.intent = state.intent
  <2>1. state.name \in Resolving
    BY <1>0, <1>1, <1>8 DEF CanRevoke, FlagsByName, RevokedNames
  <2>2. ActiveStage(state) # "KEY_LOAD_STARTED_AMBIGUOUS"
    BY <1>1 DEF ActiveStage, Legs
  <2>3. state'.possible = state.possible /\ state'.intent = state.intent
    BY <1>0, <1>8, <2>1, <2>2, RevokeEffect
  <2> QED
    BY <2>3
<1> QED
  BY <1>2, <1>3, <1>4, <1>5, <1>6, <1>7, <1>8, StepCases

(* How far a row can move in one step: a signature needs a key load that   *)
(* was started before, a send an owner elected before, and a revocation    *)
(* keeps an early leg early.                                               *)
LEMMA RowMoves ==
  ASSUME ReopenInv, [Next]_vars, NEW i \in Legs
  PROVE  /\ ordinals'[i].stage \in Early => ordinals[i].stage \in Early
         /\ ordinals[i].stage \in {"SUBMISSION_POSSIBLE", "FINALIZED"} =>
              ordinals'[i].stage \in {"SUBMISSION_POSSIBLE", "FINALIZED"}
         /\ Revoked => Revoked' /\ (ordinals[i].stage \in Early => ordinals'[i].stage \in Early)
         /\ ordinals[i].stage \in Retained =>
              ordinals'[i].stage \in Retained /\ ordinals'[i].intent = ordinals[i].intent
<1>0. IInv /\ TypeOK /\ TypeOK' /\ RowsShaped
  BY TypeStep DEF ReopenInv, IInv
<1>1. /\ Revoked => Revoked'
      /\ Revoked => (i \in Inserted' <=> i \in Inserted)
      /\ Revoked => (ordinals[i].stage # ordinals'[i].stage =>
                       ordinals'[i].stage \notin {"KEY_LOAD_STARTED_AMBIGUOUS", "SUBMISSION_POSSIBLE"})
  BY <1>0, RevokedStep DEF Revoked
<1>2. ordinals[i].stage \in Stages /\ ordinals'[i].stage \in Stages
  BY <1>0 DEF TypeOK, Rows
<1>3. CASE i \notin Inserted
  <2>1. ordinals[i].stage = "NONE"
    BY <1>3 DEF Inserted
  <2>2. Revoked => ordinals'[i].stage = "NONE"
    BY <1>1, <1>3 DEF Inserted
  <2> QED
    BY <1>1, <2>1, <2>2 DEF Early, Retained
<1>4. CASE i \in Inserted
  <2>1. /\ Rank(ordinals[i].stage) <= Rank(ordinals'[i].stage)
        /\ Rank(ordinals'[i].stage) <= Rank(ordinals[i].stage) + 1
        /\ ordinals[i].intent # None => ordinals'[i].intent = ordinals[i].intent
    <3>1. Keeps(i)
      BY <1>0, <1>4, RowStep
    <3>2. "intent" \in Columns
      BY DEF Columns
    <3> QED
      BY <3>1, <3>2 DEF Keeps
  <2>2. ordinals[i].stage \in Retained => ordinals[i].intent # None
    BY <1>0, <1>4 DEF RowsShaped, RowShape
  <2> QED
    BY <1>1, <1>2, <2>1, <2>2, Ranks DEF Stages, Signable, Early, Retained
<1> QED
  BY <1>3, <1>4

(* An operation that signs, sends and answers nothing keeps every count,   *)
(* every answer to the agent and every answer to the human true.           *)
LEMMA AnswersStep ==
  ASSUME RuntimeInv, [Next]_vars, UNCHANGED <<signatures, sent, sentRevoked>>
  PROVE  /\ \A i \in Legs : Counted(i)'
         /\ \A i \in Legs : acknowledged'[i] = acknowledged[i] => Acknowledged(i)'
         /\ told' = told => ToldTrue'
<1>0. ReopenInv /\ \A i \in Legs : Counted(i) /\ Acknowledged(i)
  BY DEF RuntimeInv
<1>1. ASSUME NEW i \in Legs PROVE Counted(i)'
  BY <1>0, RowMoves DEF Counted
<1>2. ASSUME NEW i \in Legs, acknowledged'[i] = acknowledged[i] PROVE Acknowledged(i)'
  <2> SUFFICES ASSUME acknowledged[i] # None
               PROVE  /\ ordinals'[i].stage \in Retained
                      /\ ordinals'[i].intent = acknowledged[i]
                      /\ ordinals'[i].stage # "FINALIZED" => state'.possible /\ state'.intent = acknowledged[i]
    BY <1>2 DEF Acknowledged
  <2>1. /\ ordinals[i].stage \in Retained /\ ordinals[i].intent = acknowledged[i]
        /\ ordinals[i].stage # "FINALIZED" => state.possible /\ state.intent = acknowledged[i]
    BY <1>0 DEF Acknowledged
  <2>2. /\ ordinals'[i].stage \in Retained /\ ordinals'[i].intent = ordinals[i].intent
        /\ ordinals[i].stage \in {"SUBMISSION_POSSIBLE", "FINALIZED"} =>
             ordinals'[i].stage \in {"SUBMISSION_POSSIBLE", "FINALIZED"}
    BY <1>0, <2>1, RowMoves
  <2>3. ordinals[i].stage = "FINALIZED" => ordinals'[i].stage = "FINALIZED"
    <3>1. TypeOK /\ RowsShaped /\ TypeOK'
      BY <1>0, TypeStep DEF ReopenInv, IInv
    <3>2. ordinals[i].stage = "FINALIZED" => Rank(ordinals'[i].stage) >= 6
      BY <3>1, RowStep, Ranks DEF Keeps, Inserted, TypeOK, Rows, Stages, Signable
    <3> QED
      BY <2>2, <3>2, Ranks
  <2> QED
    BY <1>0, <2>1, <2>2, <2>3, TrackedUntilSettled
<1>3. ASSUME told' = told PROVE ToldTrue'
  BY <1>0, <1>3, RowMoves DEF RuntimeInv, ToldTrue, Legs
<1> QED
  BY <1>1, <1>2, <1>3
-----------------------------------------------------------------------------
(* Steps that only move a call *)

(* What the invariant says of the call a runtime serves. *)
LEMMA OwnCall ==
  ASSUME RuntimeInv, NEW r \in Runtimes
  PROVE  call[r] \in Calls /\ Holds(call[r])
BY DEF RuntimeInv, RuntimeTypeOK, CallsHold

(* A step that moves nothing but a call, which takes over no row and no    *)
(* sends, keeps the invariant.                                             *)
LEMMA LocalStep ==
  ASSUME RuntimeInv, NEW r \in Runtimes,
         UNCHANGED <<vars, signatures, sent, sentRevoked, acknowledged, told>>,
         RuntimeTypeOK', RevocationHeld', Holds(call[r])',
         \A q \in Runtimes : q # r => call'[q] = call[q],
         call'[r].pc \in Owning => call[r].pc \in Owning /\ call'[r].leg = call[r].leg,
         call'[r].pc \in Sending => call[r].pc \in Sending /\ call'[r].leg = call[r].leg
  PROVE  RuntimeInv'
<1>1. ReopenInv'
  BY ReopenStep DEF RuntimeInv
<1>2. \A i \in Legs : Counted(i)' /\ Acknowledged(i)'
  BY AnswersStep
<1>3. ToldTrue'
  BY AnswersStep
<1>4. call \in [Runtimes -> Calls] /\ CallsHold /\ OneOwner
  BY DEF RuntimeInv, RuntimeTypeOK
<1>5. CallsHold' /\ OneOwner'
  <2>1. AnswersKept
    BY DEF AnswersKept
  <2>2. ASSUME NEW q \in Runtimes, q # r
        PROVE  /\ call[q].pc \in Owning => RowKept(call[q].leg)
               /\ call[q].pc \in Sending => SendsKept(call[q].leg)
               /\ call'[r].pc \in Owning /\ call[q].pc \in Owning => call[q].leg # call'[r].leg
               /\ call'[r].pc \in Sending /\ call[q].pc \in Sending => call[q].leg # call'[r].leg
    <3>1. Holds(call[q])
      BY <1>4 DEF CallsHold
    <3>2. UNCHANGED ordinals
      BY DEF vars
    <3> QED
      BY <1>4, <2>2, <3>1, <3>2 DEF OneOwner, Holds, OwnsSends, RowKept, SendsKept
  <2> QED
    BY <1>4, <2>1, <2>2, CallStep
<1> QED
  BY <1>1, <1>2, <1>3, <1>5 DEF RuntimeInv

(* The same for a step that puts the call at c. *)
LEMMA LocalCall ==
  ASSUME RuntimeInv, NEW r \in Runtimes, NEW c \in Calls, Becomes(r, c), Holds(c),
         c.pc \in Owning => call[r].pc \in Owning /\ c.leg = call[r].leg,
         c.pc \in Sending => call[r].pc \in Sending /\ c.leg = call[r].leg,
         UNCHANGED <<vars, up, revoking, signatures, sent, sentRevoked, acknowledged, told>>,
         wires' \in [Legs -> Nullable(Intents)]
  PROVE  RuntimeInv'
<1>1. RuntimeTypeOK
  BY DEF RuntimeInv
<1>2. call' \in [Runtimes -> Calls] /\ call'[r] = c /\ \A q \in Runtimes : q # r => call'[q] = call[q]
  BY <1>1, BecomesFacts
<1>3. RuntimeTypeOK'
  BY <1>1, <1>2 DEF RuntimeTypeOK
<1>4. Holds(call[r])'
  BY <1>2 DEF Holds, OwnsRow, OwnsSends, vars
<1>5. RevocationHeld'
  BY DEF RuntimeInv, RevocationHeld
<1> QED
  BY <1>2, <1>3, <1>4, <1>5, LocalStep

(* A call that ends holds nothing but the leg it decided. *)
LEMMA DoneStep ==
  ASSUME RuntimeInv, NEW r \in Runtimes, Done(r),
         UNCHANGED <<vars, up, revoking, signatures, sent, sentRevoked, acknowledged, told, wires>>
  PROVE  RuntimeInv'
<1> DEFINE c == [NoCall EXCEPT !.decided = call[r].decided]
<1>1. call[r] \in Calls /\ Holds(call[r])
  BY OwnCall
<1>2. c \in Calls /\ c.pc = "idle" /\ c.decided = call[r].decided /\ c.sends = 0
  <2>1. call[r].decided \in 0..2
    BY <1>1 DEF Calls
  <2> QED
    BY <2>1, EndedCall DEF NoCall
<1>3. Becomes(r, c) /\ wires' \in [Legs -> Nullable(Intents)]
  BY DEF Done, RuntimeInv, RuntimeTypeOK
<1> HIDE DEF c
<1>4. Holds(c)
  BY <1>1, <1>2 DEF Holds, Owning, Signing, Sending
<1> QED
  BY <1>2, <1>3, <1>4, LocalCall DEF Owning, Signing, Sending

(* The steps of a call between two effects. *)
LEMMA LocalSteps ==
  ASSUME RuntimeInv, NEW r \in Runtimes,
         \/ BeginIssue(r) \/ BeginDecision(r) \/ InspectCheckpoint(r) \/ RetainWire(r)
         \/ ReloadState(r) \/ CheckSend(r)
         \/ \E i \in Legs : BeginSubmission(r, i) \/ BeginFinalization(r, i)
  PROVE  RuntimeInv'
<1>0. /\ call[r] \in Calls /\ Holds(call[r])
      /\ ReopenInv /\ TypeOK /\ RowsShaped /\ state \in States
      /\ wires \in [Legs -> Nullable(Intents)]
      /\ \A i \in Legs : Counted(i)
      /\ sent \in [Legs -> Nat]
      /\ MaxSends \in Nat
  BY OwnCall, Limits DEF RuntimeInv, ReopenInv, IInv, TypeOK, RuntimeTypeOK
<1>1. CASE BeginIssue(r)
  <2> DEFINE c == [call[r] EXCEPT !.pc = "register", !.seen = state]
  <2>1. c \in Calls /\ c.pc = "register" /\ c.sends = call[r].sends /\ c.decided = call[r].decided
    BY <1>0 DEF Calls, Positions, Nullable
  <2>2. Becomes(r, c) /\ call[r].pc = "idle"
        /\ UNCHANGED <<vars, up, revoking, signatures, sent, sentRevoked, acknowledged, told, wires>>
    BY <1>1 DEF BeginIssue, At, world
  <2> HIDE DEF c
  <2>3. Holds(c)
    BY <1>0, <2>1, <2>2 DEF Holds, Owning, Signing, Sending
  <2> QED
    BY <1>0, <2>1, <2>2, <2>3, LocalCall DEF Owning, Signing, Sending
<1>2. CASE BeginDecision(r)
  <2>1. PICK d \in Decisions, row \in challenges :
          Becomes(r, [call[r] EXCEPT !.pc = "consume", !.seen = state,
                                     !.leg = state.next, !.admission = Consumption(d, row.id)])
    BY <1>2 DEF BeginDecision
  <2> DEFINE c == [call[r] EXCEPT !.pc = "consume", !.seen = state,
                                  !.leg = state.next, !.admission = Consumption(d, row.id)]
  <2>2. Consumption(d, row.id) \in Consumptions /\ state.next \in 0..2
    BY <1>0 DEF TypeOK, Consumption, Consumptions, States
  <2>3. c \in Calls /\ c.pc = "consume" /\ c.sends = call[r].sends /\ c.decided = call[r].decided
        /\ c.seen = state /\ c.leg = state.next /\ c.admission \in Consumptions
    BY <1>0, <2>2 DEF Calls, Positions, Nullable
  <2>4. Becomes(r, c) /\ call[r].pc = "idle"
        /\ UNCHANGED <<vars, up, revoking, signatures, sent, sentRevoked, acknowledged, told, wires>>
    BY <1>2, <2>1 DEF BeginDecision, At, world
  <2> HIDE DEF c
  <2>5. Holds(c)
    BY <1>0, <2>3, <2>4 DEF Holds, Owning, Signing, Sending
  <2> QED
    BY <1>0, <2>3, <2>4, <2>5, LocalCall DEF Owning, Signing, Sending
<1>3. CASE InspectCheckpoint(r)
  <2> DEFINE next == IF call[r].pc = "inspect" THEN "reinspect" ELSE "sign"
             c == [call[r] EXCEPT !.pc = next]
  <2>1. next \in {"reinspect", "sign"}
    OBVIOUS
  <2>2. Becomes(r, c) /\ call[r].pc \in {"inspect", "reinspect"}
        /\ UNCHANGED <<vars, up, revoking, signatures, sent, sentRevoked, acknowledged, told, wires>>
    BY <1>3 DEF InspectCheckpoint, Goto, At, world
  <2> HIDE DEF next
  <2>3. c \in Calls /\ c.pc = next /\ c.sends = call[r].sends /\ c.decided = call[r].decided
        /\ c.leg = call[r].leg /\ c.admission = call[r].admission /\ c.plan = call[r].plan
    BY <1>0, <2>1 DEF Calls, Positions
  <2> HIDE DEF c
  <2>4. Holds(c)
    BY <1>0, <2>1, <2>2, <2>3 DEF Holds, Owning, Signing, Sending, OwnsRow, StageOwned
  <2> QED
    BY <1>0, <2>1, <2>2, <2>3, <2>4, LocalCall DEF Owning, Signing, Sending
<1>4. CASE RetainWire(r)
  <2> DEFINE c == [call[r] EXCEPT !.pc = "durable"]
  <2>1. c \in Calls /\ c.pc = "durable" /\ c.sends = call[r].sends /\ c.decided = call[r].decided
        /\ c.leg = call[r].leg /\ c.admission = call[r].admission /\ c.plan = call[r].plan
        /\ c.wire = call[r].wire
    BY <1>0 DEF Calls, Positions
  <2>2. Becomes(r, c) /\ call[r].pc = "retain"
        /\ UNCHANGED <<vars, up, revoking, signatures, sent, sentRevoked, acknowledged, told>>
        /\ wires' = [wires EXCEPT ![call[r].leg] = call[r].wire]
    BY <1>4 DEF RetainWire, Goto, At, world
  <2>3. wires' \in [Legs -> Nullable(Intents)]
    BY <1>0, <2>2 DEF Calls
  <2> HIDE DEF c
  <2>4. Holds(c)
    BY <1>0, <2>1, <2>2 DEF Holds, Owning, Signing, Sending, OwnsRow, StageOwned
  <2> QED
    BY <1>0, <2>1, <2>2, <2>3, <2>4, LocalCall DEF Owning, Signing, Sending
<1>5. CASE ReloadState(r)
  <2> DEFINE c == [call[r] EXCEPT !.pc = "persist", !.seen = state]
  <2>1. c \in Calls /\ c.pc = "persist" /\ c.sends = call[r].sends /\ c.decided = call[r].decided
        /\ c.leg = call[r].leg /\ c.wire = call[r].wire
    BY <1>0 DEF Calls, Positions, Nullable
  <2>2. Becomes(r, c) /\ call[r].pc = "reload"
        /\ UNCHANGED <<vars, up, revoking, signatures, sent, sentRevoked, acknowledged, told, wires>>
    BY <1>5 DEF ReloadState, At, world
  <2> HIDE DEF c
  <2>3. Holds(c)
    BY <1>0, <2>1, <2>2 DEF Holds, Owning, Signing, Sending
  <2> QED
    BY <1>0, <2>1, <2>2, <2>3, LocalCall DEF Owning, Signing, Sending
<1>6. CASE CheckSend(r)
  <2> DEFINE c == [call[r] EXCEPT !.pc = "dispatch", !.sends = @ + 1]
  <2>1. c \in Calls /\ c.pc = "dispatch" /\ c.sends = call[r].sends + 1 /\ c.decided = call[r].decided
        /\ c.leg = call[r].leg
    <3>1. call[r].sends \in Nat /\ call[r].sends + 1 \in Nat
      BY <1>0 DEF Calls
    <3>2. "dispatch" \in Positions
      BY DEF Positions
    <3> QED
      BY <1>0, <3>1, <3>2 DEF Calls
  <2>2. Becomes(r, c) /\ call[r].pc = "schedule" /\ ~Revoked /\ call[r].sends < MaxSends
        /\ UNCHANGED <<vars, up, revoking, signatures, sent, sentRevoked, acknowledged, told, wires>>
    BY <1>6 DEF CheckSend, At, world
  <2> HIDE DEF c
  <2>3. OwnsSends(call[r]) /\ call[r].sends \in Nat
    BY <1>0, <2>2 DEF Holds, Sending, Calls
  <2>4. OwnsSends(c)
    BY <1>0, <2>1, <2>2, <2>3 DEF OwnsSends, Counted
  <2>5. Holds(c)
    BY <1>0, <2>1, <2>2, <2>4 DEF Holds, Owning, Signing, Sending
  <2> QED
    BY <1>0, <2>1, <2>2, <2>5, LocalCall DEF Owning, Signing, Sending
<1>7. ASSUME NEW i \in Legs, BeginSubmission(r, i) PROVE RuntimeInv'
  <2> DEFINE c == [call[r] EXCEPT !.pc = "elect", !.leg = i, !.wire = ordinals[i].intent]
  <2>1. ordinals[i].intent \in Intents
    BY <1>0, <1>7 DEF BeginSubmission, RowsShaped, RowShape, Retained, Inserted, TypeOK, Rows, Nullable
  <2>2. c \in Calls /\ c.pc = "elect" /\ c.sends = call[r].sends /\ c.decided = call[r].decided
        /\ c.leg = i /\ c.wire \in Intents
    <3>1. "elect" \in Positions /\ i \in 0..2 /\ ordinals[i].intent \in Nullable(Intents)
      BY <2>1 DEF Positions, Legs, Nullable
    <3> QED
      BY <1>0, <2>1, <3>1 DEF Calls
  <2>3. Becomes(r, c) /\ call[r].pc = "idle" /\ (SubmitAfterDecision => call[r].decided = i)
        /\ UNCHANGED <<vars, up, revoking, signatures, sent, sentRevoked, acknowledged, told, wires>>
    BY <1>7 DEF BeginSubmission, At, world
  <2> HIDE DEF c
  <2>4. Holds(c)
    BY <1>0, <2>2, <2>3 DEF Holds, Owning, Signing, Sending
  <2> QED
    BY <1>0, <2>2, <2>3, <2>4, LocalCall DEF Owning, Signing, Sending
<1>8. ASSUME NEW i \in Legs, BeginFinalization(r, i) PROVE RuntimeInv'
  <2> DEFINE c == [call[r] EXCEPT !.pc = "close", !.leg = i, !.wire = ordinals[i].intent]
  <2>1. ordinals[i].intent \in Intents
    BY <1>0, <1>8 DEF BeginFinalization, RowsShaped, RowShape, Retained, Inserted, TypeOK, Rows, Nullable
  <2>2. c \in Calls /\ c.pc = "close" /\ c.sends = call[r].sends /\ c.decided = call[r].decided
        /\ c.leg = i /\ c.wire \in Intents
    <3>1. "close" \in Positions /\ i \in 0..2 /\ ordinals[i].intent \in Nullable(Intents)
      BY <2>1 DEF Positions, Legs, Nullable
    <3> QED
      BY <1>0, <2>1, <3>1 DEF Calls
  <2>3. Becomes(r, c) /\ call[r].pc = "idle"
        /\ UNCHANGED <<vars, up, revoking, signatures, sent, sentRevoked, acknowledged, told, wires>>
    BY <1>8 DEF BeginFinalization, At, world
  <2> HIDE DEF c
  <2>4. Holds(c)
    BY <1>0, <2>2, <2>3 DEF Holds, Owning, Signing, Sending
  <2> QED
    BY <1>0, <2>2, <2>3, <2>4, LocalCall DEF Owning, Signing, Sending
<1> QED
  BY <1>1, <1>2, <1>3, <1>4, <1>5, <1>6, <1>7, <1>8
(* A process that ends a call, dies, restarts or takes a revocation on. *)
LEMMA ProcessSteps ==
  ASSUME RuntimeInv, NEW r \in Runtimes,
         \/ ResolveSubmission(r) \/ Abandon(r) \/ Crash(r) \/ Open(r)
         \/ \E v \in Revocations : BeginRevocation(r, v)
  PROVE  RuntimeInv'
<1>0. /\ call \in [Runtimes -> Calls] /\ Holds(call[r])
      /\ RuntimeTypeOK /\ RevocationHeld /\ state \in States
  BY OwnCall DEF RuntimeInv, RuntimeTypeOK, ReopenInv, IInv, TypeOK
<1>1. CASE ResolveSubmission(r)
  BY <1>1, DoneStep DEF ResolveSubmission, world
<1>2. CASE Abandon(r)
  BY <1>2, DoneStep DEF Abandon, world
<1>3. CASE Crash(r)
  <2>1. /\ call' = [call EXCEPT ![r] = NoCall] /\ up' = [up EXCEPT ![r] = FALSE]
        /\ revoking' = [revoking EXCEPT ![r] = NoRevocation]
        /\ UNCHANGED <<vars, signatures, sent, sentRevoked, acknowledged, told, wires>>
    BY <1>3 DEF Crash, world
  <2>2. NoCall \in Calls /\ NoCall.pc = "idle" /\ NoCall.decided = 0 /\ NoCall.sends = 0
    BY EndedCall DEF NoCall
  <2>3. NoRevocation \in RevocationCalls /\ NoRevocation.pc = "idle"
    BY DEF NoRevocation, RevocationCalls, Nullable
  <2>4. call' \in [Runtimes -> Calls] /\ call'[r] = NoCall
        /\ \A q \in Runtimes : q # r => call'[q] = call[q]
    BY <1>0, <2>1, <2>2
  <2>5. RuntimeTypeOK'
    BY <1>0, <2>1, <2>3, <2>4 DEF RuntimeTypeOK
  <2>6. RevocationHeld'
    BY <1>0, <2>1, <2>3 DEF RevocationHeld, RuntimeTypeOK
  <2>7. Holds(call[r])'
    BY <2>2, <2>4 DEF Holds, Owning, Signing, Sending
  <2> QED
    BY <2>1, <2>2, <2>4, <2>5, <2>6, <2>7, LocalStep DEF Owning, Signing, Sending
<1>4. CASE Open(r)
  <2>1. /\ up' = [up EXCEPT ![r] = TRUE]
        /\ UNCHANGED <<vars, call, revoking, signatures, sent, sentRevoked, acknowledged, told, wires>>
    BY <1>4 DEF Open, world
  <2>2. RuntimeTypeOK' /\ RevocationHeld'
    BY <1>0, <2>1 DEF RuntimeTypeOK, RevocationHeld
  <2>3. Holds(call[r])'
    BY <1>0, <2>1 DEF Holds, OwnsRow, OwnsSends, vars
  <2> QED
    BY <2>1, <2>2, <2>3, LocalStep
<1>5. ASSUME NEW v \in Revocations, BeginRevocation(r, v) PROVE RuntimeInv'
  <2>1. /\ revoking' = [revoking EXCEPT ![r] = [pc |-> "commit", seen |-> state, id |-> v]]
        /\ UNCHANGED <<vars, up, call, signatures, sent, sentRevoked, acknowledged, told, wires>>
    BY <1>5 DEF BeginRevocation, world
  <2>2. [pc |-> "commit", seen |-> state, id |-> v] \in RevocationCalls
    BY <1>0 DEF RevocationCalls, Nullable
  <2>3. RuntimeTypeOK' /\ RevocationHeld'
    BY <1>0, <2>1, <2>2 DEF RuntimeTypeOK, RevocationHeld
  <2>4. Holds(call[r])'
    BY <1>0, <2>1 DEF Holds, OwnsRow, OwnsSends, vars
  <2> QED
    BY <2>1, <2>3, <2>4, LocalStep
<1> QED
  BY <1>1, <1>2, <1>3, <1>4, <1>5

-----------------------------------------------------------------------------
(* Steps that sign and send *)

(* The key signs only a leg whose key load the call itself started, and    *)
(* which nobody has signed.                                                *)
LEMMA SignStep ==
  ASSUME RuntimeInv, NEW r \in Runtimes, SignMessage(r)
  PROVE  RuntimeInv'
<1> DEFINE i == call[r].leg
<1>0. /\ call[r] \in Calls /\ Holds(call[r]) /\ call[r].pc = "sign"
      /\ RuntimeTypeOK /\ ReopenInv /\ call \in [Runtimes -> Calls] /\ CallsHold /\ OneOwner
  BY OwnCall DEF RuntimeInv, RuntimeTypeOK, SignMessage, At
<1>1. PICK w \in Intents : Becomes(r, [call[r] EXCEPT !.pc = "retain", !.wire = w])
  BY DEF SignMessage
<1> DEFINE c == [call[r] EXCEPT !.pc = "retain", !.wire = w]
<1>2. OwnsRow(call[r])
  BY <1>0 DEF Holds, Owning, Signing
<1>3. /\ c \in Calls /\ c.pc = "retain" /\ c.sends = call[r].sends /\ c.decided = call[r].decided
      /\ c.leg = i /\ c.admission = call[r].admission /\ c.plan = call[r].plan /\ c.wire = w
  BY <1>0 DEF Calls, Positions, Nullable
<1>4. /\ signatures' = [signatures EXCEPT ![i] = @ + 1]
      /\ Becomes(r, c)
      /\ UNCHANGED <<vars, up, revoking, sent, sentRevoked, acknowledged, told, wires>>
  BY <1>1 DEF SignMessage
<1>5. i \in Legs /\ signatures[i] = 0 /\ ordinals[i].stage = "KEY_LOAD_STARTED_AMBIGUOUS"
  BY <1>0, <1>2 DEF OwnsRow, StageOwned
<1> HIDE DEF c, i
<1>6. /\ signatures' \in [Legs -> Nat] /\ signatures'[i] = 1
      /\ \A j \in Legs : j # i => signatures'[j] = signatures[j]
  BY <1>0, <1>4, <1>5 DEF RuntimeTypeOK
<1>7. call' \in [Runtimes -> Calls] /\ call'[r] = c /\ \A q \in Runtimes : q # r => call'[q] = call[q]
  BY <1>0, <1>3, <1>4, BecomesFacts
<1>8. UNCHANGED <<state, challenges, ordinals, revocations>>
  BY <1>4 DEF vars
<1>9. RuntimeTypeOK' /\ ReopenInv' /\ RevocationHeld'
  BY <1>0, <1>4, <1>6, <1>7, ReopenStep DEF RuntimeTypeOK, RuntimeInv, RevocationHeld
<1>10. \A j \in Legs : Counted(j)' /\ Acknowledged(j)'
  BY <1>4, <1>5, <1>6, <1>8 DEF RuntimeInv, Counted, Acknowledged, Early, Revoked
<1>11. ToldTrue'
  BY <1>4, <1>8 DEF RuntimeInv, ToldTrue, Revoked
<1>12. Holds(call[r])'
  <2>1. OwnsRow(call[r])'
    BY <1>0, <1>2, <1>3, <1>6, <1>7, <1>8 DEF OwnsRow, StageOwned, i
  <2> QED
    BY <1>0, <1>3, <1>4, <1>7, <2>1 DEF Holds, Owning, Signing, Sending
<1>13. CallsHold' /\ OneOwner'
  <2>1. AnswersKept
    BY <1>4 DEF AnswersKept
  <2>2. ASSUME NEW q \in Runtimes, q # r
        PROVE  /\ call[q].pc \in Owning => RowKept(call[q].leg)
               /\ call[q].pc \in Sending => SendsKept(call[q].leg)
               /\ call'[r].pc \in Owning /\ call[q].pc \in Owning => call[q].leg # call'[r].leg
               /\ call'[r].pc \in Sending /\ call[q].pc \in Sending => call[q].leg # call'[r].leg
    <3>1. Holds(call[q])
      BY <1>0 DEF CallsHold
    <3>2. call[q].pc \in Owning => call[q].leg # i /\ call[q].leg \in Legs
      BY <1>0, <2>2, <3>1 DEF OneOwner, i, Holds, OwnsRow, Owning, Signing
    <3>3. c.pc \notin Sending
      BY <1>3 DEF Sending
    <3> QED
      BY <1>3, <1>4, <1>6, <1>7, <1>8, <3>1, <3>2, <3>3 DEF Holds, OwnsSends, RowKept, SendsKept, i
  <2> QED
    BY <1>0, <1>7, <1>12, <2>1, <2>2, CallStep
<1> QED
  BY <1>9, <1>10, <1>11, <1>13 DEF RuntimeInv

(* Bytes are handed over within the budget, and at most once after a       *)
(* revocation: the check of the next send sees it.                         *)
LEMMA DispatchStep ==
  ASSUME RuntimeInv, NEW r \in Runtimes, Dispatch(r)
  PROVE  RuntimeInv'
<1> DEFINE i == call[r].leg
           c == [call[r] EXCEPT !.pc = "schedule"]
<1>0. /\ call[r] \in Calls /\ Holds(call[r]) /\ call[r].pc = "dispatch"
      /\ RuntimeTypeOK /\ ReopenInv /\ call \in [Runtimes -> Calls] /\ CallsHold /\ OneOwner
      /\ MaxSends \in Nat
  BY OwnCall, Limits DEF RuntimeInv, RuntimeTypeOK, Dispatch, At
<1>1. OwnsSends(call[r])
  BY <1>0 DEF Holds, Sending
<1>2. /\ c \in Calls /\ c.pc = "schedule" /\ c.sends = call[r].sends /\ c.decided = call[r].decided
      /\ c.leg = i
  BY <1>0 DEF Calls, Positions
<1>3. /\ sent' = [sent EXCEPT ![i] = @ + 1]
      /\ sentRevoked' = [sentRevoked EXCEPT ![i] = IF Revoked THEN @ + 1 ELSE @]
      /\ Becomes(r, c)
      /\ UNCHANGED <<vars, up, revoking, signatures, acknowledged, told, wires>>
  BY DEF Dispatch, Goto
<1>4. /\ i \in Legs /\ ordinals[i].stage \in {"SUBMISSION_POSSIBLE", "FINALIZED"}
      /\ c.sends <= MaxSends /\ sent[i] + 1 = c.sends /\ sentRevoked[i] = 0
  BY <1>0, <1>1, <1>2 DEF OwnsSends
<1> HIDE DEF c, i
<1>5. /\ sent' \in [Legs -> Nat] /\ sent'[i] = sent[i] + 1
      /\ sentRevoked' \in [Legs -> Nat] /\ sentRevoked'[i] = IF Revoked THEN 1 ELSE 0
      /\ \A j \in Legs : j # i => sent'[j] = sent[j] /\ sentRevoked'[j] = sentRevoked[j]
  BY <1>0, <1>3, <1>4 DEF RuntimeTypeOK
<1>6. call' \in [Runtimes -> Calls] /\ call'[r] = c /\ \A q \in Runtimes : q # r => call'[q] = call[q]
  BY <1>0, <1>2, <1>3, BecomesFacts
<1>7. UNCHANGED <<state, challenges, ordinals, revocations>>
  BY <1>3 DEF vars
<1>8. RuntimeTypeOK' /\ ReopenInv' /\ RevocationHeld'
  BY <1>0, <1>3, <1>5, <1>6, ReopenStep DEF RuntimeTypeOK, RuntimeInv, RevocationHeld
<1>9. \A j \in Legs : Counted(j)'
  <2> SUFFICES ASSUME NEW j \in Legs PROVE Counted(j)'
    OBVIOUS
  <2>1. Counted(j)
    BY DEF RuntimeInv
  <2>2. CASE j = i
    BY <1>3, <1>4, <1>5, <1>7, <2>1, <2>2 DEF Counted, Revoked
  <2>3. CASE j # i
    BY <1>3, <1>5, <1>7, <2>1, <2>3 DEF Counted, Revoked
  <2> QED
    BY <2>2, <2>3
<1>10. ToldTrue' /\ \A j \in Legs : Acknowledged(j)'
  BY <1>3, <1>7 DEF RuntimeInv, ToldTrue, Revoked, Acknowledged
<1>11. Holds(call[r])'
  <2>1. OwnsSends(call[r])'
    BY <1>2, <1>4, <1>5, <1>6, <1>7 DEF OwnsSends
  <2> QED
    BY <1>0, <1>2, <1>3, <1>6, <2>1 DEF Holds, Owning, Signing, Sending
<1>12. CallsHold' /\ OneOwner'
  <2>1. AnswersKept
    BY <1>3 DEF AnswersKept
  <2>2. ASSUME NEW q \in Runtimes, q # r
        PROVE  /\ call[q].pc \in Owning => RowKept(call[q].leg)
               /\ call[q].pc \in Sending => SendsKept(call[q].leg)
               /\ call'[r].pc \in Owning /\ call[q].pc \in Owning => call[q].leg # call'[r].leg
               /\ call'[r].pc \in Sending /\ call[q].pc \in Sending => call[q].leg # call'[r].leg
    <3>1. Holds(call[q])
      BY <1>0 DEF CallsHold
    <3>2. call[q].pc \in Sending => call[q].leg # i /\ call[q].leg \in Legs
      BY <1>0, <2>2, <3>1 DEF OneOwner, i, Holds, OwnsSends, Sending
    <3>3. c.pc \notin Owning
      BY <1>2 DEF Owning, Signing
    <3> QED
      BY <1>2, <1>3, <1>5, <1>6, <1>7, <3>1, <3>2, <3>3 DEF Holds, OwnsSends, RowKept, SendsKept, i
  <2> QED
    BY <1>0, <1>6, <1>11, <2>1, <2>2, CallStep
<1> QED
  BY <1>8, <1>9, <1>10, <1>12 DEF RuntimeInv
-----------------------------------------------------------------------------
(* Operations of the authority *)

(* An operation of the authority on row i, made by a call that owns the    *)
(* row, or by one that finds it with no owner, and that leaves the call    *)
(* with what its new position claims.                                      *)
LEMMA OperationStep ==
  ASSUME RuntimeInv, NEW r \in Runtimes, [Next]_vars, NEW i \in Legs, NEW c \in Calls,
         Becomes(r, c), Holds(call[r])',
         UNCHANGED <<up, revoking, signatures, sent, sentRevoked, told, wires>>,
         acknowledged' \in [Legs -> Nullable(Intents)], AnswersKept,
         \A j \in Legs : Acknowledged(j)',
         \A j \in Legs : j # i => ordinals'[j] = ordinals[j],
         \/ call[r].pc \in Owning /\ call[r].leg = i
         \/ ordinals[i].stage \notin {"RESERVED", "PREPARED", "KEY_LOAD_STARTED_AMBIGUOUS"}
         \/ ordinals'[i] = ordinals[i],
         c.pc \in Owning => \/ call[r].pc \in Owning /\ call[r].leg = c.leg
                            \/ ordinals[c.leg].stage = "NONE",
         c.pc \in Sending => ordinals[c.leg].stage \notin {"SUBMISSION_POSSIBLE", "FINALIZED"}
  PROVE  RuntimeInv'
<1>0. RuntimeTypeOK /\ ReopenInv /\ call \in [Runtimes -> Calls] /\ CallsHold /\ OneOwner
  BY DEF RuntimeInv, RuntimeTypeOK
<1>1. call' \in [Runtimes -> Calls] /\ call'[r] = c /\ \A q \in Runtimes : q # r => call'[q] = call[q]
  BY <1>0, BecomesFacts
<1>2. RuntimeTypeOK' /\ ReopenInv' /\ RevocationHeld'
  BY <1>0, <1>1, ReopenStep DEF RuntimeTypeOK, RuntimeInv, RevocationHeld
<1>3. ToldTrue' /\ \A j \in Legs : Counted(j)'
  BY AnswersStep
<1>4. ASSUME NEW q \in Runtimes, q # r
      PROVE  /\ call[q].pc \in Owning => RowKept(call[q].leg)
             /\ call[q].pc \in Sending => SendsKept(call[q].leg)
             /\ call'[r].pc \in Owning /\ call[q].pc \in Owning => call[q].leg # call'[r].leg
             /\ call'[r].pc \in Sending /\ call[q].pc \in Sending => call[q].leg # call'[r].leg
  <2>1. Holds(call[q])
    BY <1>0 DEF CallsHold
  <2>2. ASSUME call[q].pc \in Owning
        PROVE  /\ RowKept(call[q].leg)
               /\ call'[r].pc \in Owning => call[q].leg # call'[r].leg
    <3>1. /\ call[q].leg \in Legs
          /\ ordinals[call[q].leg].stage \in {"RESERVED", "PREPARED", "KEY_LOAD_STARTED_AMBIGUOUS"}
      BY <2>1, <2>2 DEF Holds, OwnsRow, StageOwned
    <3>2. call[r].pc \in Owning => call[q].leg # call[r].leg
      BY <1>0, <1>4, <2>2 DEF OneOwner
    <3>3. ordinals'[call[q].leg] = ordinals[call[q].leg]
      BY <3>1, <3>2
    <3> QED
      BY <1>1, <3>1, <3>2, <3>3 DEF RowKept
  <2>3. ASSUME call[q].pc \in Sending
        PROVE  /\ SendsKept(call[q].leg)
               /\ call'[r].pc \in Sending => call[q].leg # call'[r].leg
    <3>1. call[q].leg \in Legs /\ ordinals[call[q].leg].stage \in {"SUBMISSION_POSSIBLE", "FINALIZED"}
      BY <2>1, <2>3 DEF Holds, OwnsSends
    <3>2. ordinals'[call[q].leg].stage \in {"SUBMISSION_POSSIBLE", "FINALIZED"}
      BY <1>0, <3>1, RowMoves
    <3> QED
      BY <1>1, <3>1, <3>2 DEF SendsKept
  <2> QED
    BY <2>2, <2>3
<1>5. CallsHold' /\ OneOwner'
  BY <1>0, <1>1, <1>4, CallStep
<1> QED
  BY <1>2, <1>3, <1>5 DEF RuntimeInv

(* An operation that answers the agent nothing keeps the earlier answers. *)
LEMMA UnansweredStep ==
  ASSUME RuntimeInv, [Next]_vars, UNCHANGED <<signatures, sent, sentRevoked, acknowledged>>
  PROVE  /\ acknowledged' \in [Legs -> Nullable(Intents)]
         /\ AnswersKept
         /\ \A j \in Legs : Acknowledged(j)'
<1>1. \A j \in Legs : Acknowledged(j)'
  BY AnswersStep
<1> QED
  BY <1>1 DEF AnswersKept, RuntimeInv, RuntimeTypeOK

(* The call that ends with what it decided. *)
LEMMA DoneCall ==
  ASSUME RuntimeInv, NEW r \in Runtimes, Done(r), acknowledged' = acknowledged
  PROVE  \E c \in Calls : Becomes(r, c) /\ c.pc = "idle" /\ Holds(call[r])'
<1> DEFINE c == [NoCall EXCEPT !.decided = call[r].decided]
<1>1. call[r] \in Calls /\ Holds(call[r]) /\ RuntimeTypeOK
  BY OwnCall DEF RuntimeInv
<1>2. c \in Calls /\ c.pc = "idle" /\ c.decided = call[r].decided /\ c.sends = 0
  <2>1. call[r].decided \in 0..2
    BY <1>1 DEF Calls
  <2> QED
    BY <2>1, EndedCall DEF NoCall
<1>3. Becomes(r, c)
  BY DEF Done
<1> HIDE DEF c
<1>4. call'[r] = c
  BY <1>1, <1>2, <1>3, BecomesFacts
<1>5. Holds(call[r])'
  BY <1>1, <1>2, <1>4 DEF Holds, Owning, Signing, Sending
<1> QED
  BY <1>2, <1>3, <1>5

(* A decision that was consumed makes its call the owner of the new row,   *)
(* unless it is a refusal.                                                 *)
LEMMA ConsumeStep ==
  ASSUME RuntimeInv, NEW r \in Runtimes, ConsumeDecision(r)
  PROVE  RuntimeInv'
<1> DEFINE i == call[r].leg
           d == call[r].admission.decision
           h == call[r].admission.challenge
           c == [call[r] EXCEPT !.pc = "prepare"]
<1>0. /\ call[r] \in Calls /\ Holds(call[r]) /\ call[r].pc = "consume" /\ ReopenInv /\ TypeOK
      /\ RuntimeTypeOK
      /\ [Next]_vars
  <2>1. [Next]_vars
    BY RuntimeRefines DEF RuntimeStep
  <2> QED
    BY <2>1, OwnCall DEF RuntimeInv, ConsumeDecision, At, ReopenInv, IInv
<1>1. PICK refused \in BOOLEAN :
        /\ ConsumeEpisodeOrdinal(Reservation(i, call[r].seen, d, h, refused))
        /\ IF refused THEN Done(r) ELSE Goto(r, "prepare")
  BY DEF ConsumeDecision
<1>2. d \in Decisions /\ h \in Challenges /\ i = call[r].seen.next /\ call[r].admission \in Consumptions
      /\ call[r].admission = Consumption(d, h)
  BY <1>0 DEF Holds, Consumptions, Consumption
<1>3. UNCHANGED <<up, revoking, signatures, sent, sentRevoked, acknowledged, told, wires>>
  BY DEF ConsumeDecision, world
<1>4. call[r].seen = state /\ i \in Legs
  BY <1>0, <1>1, <1>2, ConsumesNextLeg
<1>5. ConsumeEpisodeOrdinal(Reservation(i, state, d, h, refused))
  BY <1>1, <1>4
<1>6. c \in Calls /\ c.pc = "prepare" /\ c.sends = call[r].sends /\ c.decided = call[r].decided
      /\ c.leg = i /\ c.admission = call[r].admission
  BY <1>0 DEF Calls, Positions
<1> HIDE DEF i, d, h, c
<1>7. /\ i \notin Inserted
      /\ state' = DecisionSuccessor(state, d, h, refused)
      /\ ordinals'[i].stage = "RESERVED"
      /\ ordinals'[i].successor = state'
      /\ \A j \in Legs : j # i => ordinals'[j] = ordinals[j]
  BY <1>0, <1>2, <1>4, <1>5, ConsumeEffect
<1>8. ordinals'[i].admission = Consumption(d, h)
  BY <1>0, <1>2, <1>4, <1>5, ConsumeRequires
<1>9. ordinals[i].stage = "NONE"
  BY <1>4, <1>7 DEF Inserted
<1>10. /\ acknowledged' \in [Legs -> Nullable(Intents)] /\ AnswersKept
       /\ \A j \in Legs : Acknowledged(j)'
  BY <1>0, <1>3, UnansweredStep
<1>11. CASE refused
  <2>1. PICK e \in Calls : Becomes(r, e) /\ e.pc = "idle" /\ Holds(call[r])'
    BY <1>1, <1>3, <1>11, DoneCall
  <2>2. e.pc \notin Owning /\ e.pc \notin Sending
    BY <2>1 DEF Owning, Signing, Sending
  <2> QED
    BY <1>0, <1>3, <1>4, <1>7, <1>9, <1>10, <2>1, <2>2, OperationStep
<1>12. CASE ~refused
  <2>1. Becomes(r, c)
    BY <1>1, <1>12 DEF Goto, c
  <2>2. call'[r] = c
    BY <1>0, <1>6, <2>1, BecomesFacts
  <2>3. state'.name \notin Refused
    BY <1>0, <1>2, <1>7, <1>12, DecisionSuccessorFacts DEF TypeOK
  <2>4. signatures[i] = 0
    BY <1>4, <1>9 DEF RuntimeInv, Counted, Early
  <2>5. OwnsRow(call[r])'
    BY <1>2, <1>3, <1>4, <1>6, <1>7, <1>8, <2>2, <2>3, <2>4 DEF OwnsRow, StageOwned
  <2>6. Holds(call[r])'
    BY <1>0, <1>3, <1>6, <2>2, <2>5 DEF Holds, Owning, Signing, Sending
  <2>7. c.pc \notin Sending
    BY <1>6 DEF Sending
  <2> QED
    BY <1>0, <1>3, <1>4, <1>6, <1>7, <1>9, <1>10, <2>1, <2>6, <2>7, OperationStep
<1> QED
  BY <1>11, <1>12

(* A challenge is registered without touching any row. *)
LEMMA IssueStep ==
  ASSUME RuntimeInv, NEW r \in Runtimes, EndIssue(r)
  PROVE  RuntimeInv'
<1>1. /\ [Next]_vars /\ Done(r) /\ ordinals' = ordinals
      /\ UNCHANGED <<up, revoking, signatures, sent, sentRevoked, acknowledged, told, wires>>
  <2>1. [Next]_vars
    BY RuntimeRefines DEF RuntimeStep
  <2> QED
    BY <2>1 DEF EndIssue, Register, RegisterReadinessChallenge, world
<1>2. /\ acknowledged' \in [Legs -> Nullable(Intents)] /\ AnswersKept
      /\ \A j \in Legs : Acknowledged(j)'
  BY <1>1, UnansweredStep
<1>3. PICK e \in Calls : Becomes(r, e) /\ e.pc = "idle" /\ Holds(call[r])'
  BY <1>1, DoneCall
<1>4. e.pc \notin Owning /\ e.pc \notin Sending /\ 1 \in Legs
  BY <1>3 DEF Owning, Signing, Sending, Legs
<1> QED
  BY <1>1, <1>2, <1>3, <1>4, OperationStep

(* The call that owns a row moves it to the next checkpoint and goes on. *)
LEMMA CheckpointStep ==
  ASSUME RuntimeInv, NEW r \in Runtimes, [Next]_vars, NEW c \in Calls, Becomes(r, c),
         call[r].pc \in Owning, c.pc \in {"loadKey", "inspect"},
         c.leg = call[r].leg, c.admission = call[r].admission, c.plan \in Plans,
         c.sends = call[r].sends, c.decided = call[r].decided, signatures[c.leg] = 0,
         UNCHANGED <<up, revoking, signatures, sent, sentRevoked, acknowledged, told, wires>>,
         \A j \in Legs : j # c.leg => ordinals'[j] = ordinals[j],
         ordinals'[c.leg].stage = StageOwned(c.pc),
         ordinals'[c.leg].admission = ordinals[c.leg].admission,
         ordinals'[c.leg].successor = ordinals[c.leg].successor
  PROVE  RuntimeInv'
<1>0. call[r] \in Calls /\ Holds(call[r]) /\ OwnsRow(call[r]) /\ RuntimeTypeOK
  BY OwnCall DEF Holds, RuntimeInv
<1>1. call'[r] = c
  BY <1>0, BecomesFacts
<1>2. /\ acknowledged' \in [Legs -> Nullable(Intents)] /\ AnswersKept
      /\ \A j \in Legs : Acknowledged(j)'
  BY UnansweredStep
<1>3. OwnsRow(call[r])'
  BY <1>0, <1>1 DEF OwnsRow
<1>4. call[r].pc \notin Sending /\ c.pc \notin Sending /\ c.leg \in Legs
  BY <1>0 DEF Owning, Signing, Sending, OwnsRow
<1>5. Holds(call[r])'
  BY <1>0, <1>1, <1>3, <1>4 DEF Holds, Owning, Signing, Sending
<1> QED
  BY <1>2, <1>4, <1>5, OperationStep

(* A plan is recorded, and the key load of the recorded plan is started. *)
LEMMA CheckpointSteps ==
  ASSUME RuntimeInv, NEW r \in Runtimes, PreparePlan(r) \/ StartKeyLoad(r)
  PROVE  RuntimeInv'
<1> DEFINE i == call[r].leg
<1>0. /\ call[r] \in Calls /\ Holds(call[r]) /\ TypeOK /\ [Next]_vars
      /\ call[r].pc \in {"prepare", "loadKey"} /\ call[r].pc \in Owning
      /\ UNCHANGED <<up, revoking, signatures, sent, sentRevoked, acknowledged, told, wires>>
  <2>1. [Next]_vars
    BY RuntimeRefines DEF RuntimeStep
  <2> QED
    BY <2>1, OwnCall DEF RuntimeInv, ReopenInv, IInv, PreparePlan, StartKeyLoad, At, world, Owning
<1>1. OwnsRow(call[r])
  BY <1>0 DEF Holds
<1>2. i \in Legs /\ signatures[i] = 0 /\ ordinals \in [Legs -> Rows]
  BY <1>0, <1>1 DEF OwnsRow, TypeOK
<1>3. CASE PreparePlan(r)
  <2>1. PICK p \in Plans : /\ RecordPrepared(i, call[r].admission, p)
                           /\ Becomes(r, [call[r] EXCEPT !.pc = "loadKey", !.plan = p])
    BY <1>3 DEF PreparePlan
  <2> DEFINE c == [call[r] EXCEPT !.pc = "loadKey", !.plan = p]
  <2>2. /\ c \in Calls /\ c.pc = "loadKey" /\ c.plan = p /\ c.leg = i
        /\ c.admission = call[r].admission /\ c.sends = call[r].sends /\ c.decided = call[r].decided
    BY <1>0 DEF Calls, Positions, Nullable
  <2>3. /\ ordinals'[i].stage = "PREPARED"
        /\ ordinals'[i].admission = ordinals[i].admission
        /\ ordinals'[i].successor = ordinals[i].successor
        /\ \A j \in Legs : j # i => ordinals'[j] = ordinals[j]
    BY <1>2, <2>1 DEF RecordPrepared, Rows
  <2>4. StageOwned(c.pc) = "PREPARED"
    BY <2>2 DEF StageOwned
  <2>5. Becomes(r, c)
    BY <2>1
  <2> HIDE DEF c, i
  <2> QED
    BY <1>0, <1>2, <2>2, <2>3, <2>4, <2>5, CheckpointStep DEF i
<1>4. CASE StartKeyLoad(r)
  <2> DEFINE c == [call[r] EXCEPT !.pc = "inspect"]
  <2>1. RecordKeyLoadStarted(i, call[r].admission, call[r].plan) /\ Becomes(r, c) /\ call[r].pc = "loadKey"
    BY <1>4 DEF StartKeyLoad, Goto, At
  <2>2. /\ c \in Calls /\ c.pc = "inspect" /\ c.plan = call[r].plan /\ c.leg = i
        /\ c.admission = call[r].admission /\ c.sends = call[r].sends /\ c.decided = call[r].decided
    BY <1>0 DEF Calls, Positions
  <2>3. /\ ordinals'[i].stage = "KEY_LOAD_STARTED_AMBIGUOUS"
        /\ ordinals'[i].admission = ordinals[i].admission
        /\ ordinals'[i].successor = ordinals[i].successor
        /\ \A j \in Legs : j # i => ordinals'[j] = ordinals[j]
    BY <1>2, <2>1 DEF RecordKeyLoadStarted, Rows
  <2>4. StageOwned(c.pc) = "KEY_LOAD_STARTED_AMBIGUOUS" /\ call[r].plan \in Plans
    BY <1>1, <2>1, <2>2 DEF StageOwned, OwnsRow
  <2> HIDE DEF c, i
  <2> QED
    BY <1>0, <1>2, <2>1, <2>2, <2>3, <2>4, CheckpointStep DEF i
<1> QED
  BY <1>3, <1>4

(* The signed bytes are made durable in the row, and the call gives it up. *)
LEMMA DurableStep ==
  ASSUME RuntimeInv, NEW r \in Runtimes, MakeIntentDurable(r)
  PROVE  RuntimeInv'
<1> DEFINE i == call[r].leg
           c == [call[r] EXCEPT !.pc = "reload"]
<1>0. /\ call[r] \in Calls /\ Holds(call[r]) /\ TypeOK /\ RuntimeTypeOK /\ [Next]_vars
      /\ call[r].pc = "durable" /\ call[r].pc \in Owning
      /\ RecordSignedIntentDurable(i, call[r].admission, call[r].plan, call[r].wire)
      /\ IF Revoked THEN Done(r) ELSE Goto(r, "reload")
      /\ UNCHANGED <<up, revoking, signatures, sent, sentRevoked, acknowledged, told, wires>>
  <2>1. [Next]_vars
    BY RuntimeRefines DEF RuntimeStep
  <2> QED
    BY <2>1, OwnCall DEF RuntimeInv, ReopenInv, IInv, MakeIntentDurable, At, world, Owning, Signing
<1>1. i \in Legs
  BY <1>0 DEF Holds, OwnsRow
<1>2. \A j \in Legs : j # i => ordinals'[j] = ordinals[j]
  BY <1>0, <1>1 DEF RecordSignedIntentDurable, TypeOK
<1>3. /\ acknowledged' \in [Legs -> Nullable(Intents)] /\ AnswersKept
      /\ \A j \in Legs : Acknowledged(j)'
  BY <1>0, UnansweredStep
<1>4. CASE Revoked
  <2>1. PICK e \in Calls : Becomes(r, e) /\ e.pc = "idle" /\ Holds(call[r])'
    BY <1>0, <1>4, DoneCall
  <2>2. e.pc \notin Owning /\ e.pc \notin Sending
    BY <2>1 DEF Owning, Signing, Sending
  <2> QED
    BY <1>0, <1>1, <1>2, <1>3, <2>1, <2>2, OperationStep
<1>5. CASE ~Revoked
  <2>1. Becomes(r, c)
    BY <1>0, <1>5 DEF Goto
  <2>2. /\ c \in Calls /\ c.pc = "reload" /\ c.leg = i /\ c.wire = call[r].wire
        /\ c.sends = call[r].sends /\ c.decided = call[r].decided
    BY <1>0 DEF Calls, Positions
  <2> HIDE DEF c, i
  <2>3. call'[r] = c
    BY <1>0, <2>1, <2>2, BecomesFacts
  <2>4. Holds(call[r])'
    BY <1>0, <1>1, <2>2, <2>3 DEF Holds, Owning, Signing, Sending
  <2>5. c.pc \notin Owning /\ c.pc \notin Sending /\ call[r].leg = i
    BY <2>2 DEF Owning, Signing, Sending, i
  <2> QED
    BY <1>0, <1>1, <1>2, <1>3, <2>1, <2>2, <2>4, <2>5, OperationStep
<1> QED
  BY <1>4, <1>5

(* The call that is elected owns all sends of the leg: nothing was sent    *)
(* while the row was only signed.                                          *)
LEMMA ElectStep ==
  ASSUME RuntimeInv, NEW r \in Runtimes, ElectOwner(r)
  PROVE  RuntimeInv'
<1> DEFINE i == call[r].leg
           c == [call[r] EXCEPT !.pc = "schedule"]
<1>0. /\ call[r] \in Calls /\ Holds(call[r]) /\ TypeOK /\ RuntimeTypeOK /\ [Next]_vars
      /\ call[r].pc = "elect"
      /\ RecordSubmissionPossible(i, call[r].wire)
      /\ Becomes(r, c)
      /\ UNCHANGED <<up, revoking, signatures, sent, sentRevoked, acknowledged, told, wires>>
      /\ \A j \in Legs : Counted(j)
      /\ MaxSends \in Nat
  <2>1. [Next]_vars
    BY RuntimeRefines DEF RuntimeStep
  <2> QED
    BY <2>1, OwnCall, Limits DEF RuntimeInv, ReopenInv, IInv, ElectOwner, At, world, Goto
<1>1. i \in Legs /\ call[r].sends = 0
  BY <1>0 DEF Holds, Sending
<1>2. /\ \A j \in Legs : j # i => ordinals'[j] = ordinals[j]
      /\ ordinals[i].stage = "SIGNED_INTENT_DURABLE"
      /\ ordinals'[i].stage = "SUBMISSION_POSSIBLE"
  BY <1>0, <1>1 DEF RecordSubmissionPossible, TypeOK, Rows
<1>3. sent[i] = 0
  BY <1>0, <1>1, <1>2 DEF Counted
<1>4. /\ acknowledged' \in [Legs -> Nullable(Intents)] /\ AnswersKept
      /\ \A j \in Legs : Acknowledged(j)'
  BY <1>0, UnansweredStep
<1>5. /\ c \in Calls /\ c.pc = "schedule" /\ c.leg = i
      /\ c.sends = 0 /\ c.decided = call[r].decided
  BY <1>0, <1>1 DEF Calls, Positions
<1> HIDE DEF c, i
<1>6. call'[r] = c
  BY <1>0, <1>5, BecomesFacts
<1>7. OwnsSends(call[r])'
  BY <1>0, <1>1, <1>2, <1>3, <1>5, <1>6 DEF OwnsSends
<1>8. Holds(call[r])'
  BY <1>0, <1>5, <1>6, <1>7 DEF Holds, Owning, Signing, Sending
<1>9. c.pc \notin Owning
  BY <1>5 DEF Owning, Signing
<1> QED
  BY <1>0, <1>1, <1>2, <1>4, <1>5, <1>8, <1>9, OperationStep

(* A leg is settled with its finalized evidence. *)
LEMMA SettleStep ==
  ASSUME RuntimeInv, NEW r \in Runtimes, CloseLeg(r)
  PROVE  RuntimeInv'
<1> DEFINE i == call[r].leg
<1>0. /\ call[r] \in Calls /\ Holds(call[r]) /\ TypeOK /\ [Next]_vars
      /\ call[r].pc = "close" /\ Done(r)
      /\ UNCHANGED <<up, revoking, signatures, sent, sentRevoked, acknowledged, told, wires>>
  <2>1. [Next]_vars
    BY RuntimeRefines DEF RuntimeStep
  <2> QED
    BY <2>1, OwnCall DEF RuntimeInv, ReopenInv, IInv, CloseLeg, At, world
<1>1. i \in Legs
  BY <1>0 DEF Holds
<1>2. PICK e \in Evidence : Settle(i, call[r].wire, e)
  BY <1>1 DEF CloseLeg, CloseAcquisition, RecordFinalized, Legs
<1>3. \A j \in Legs : j # i => ordinals'[j] = ordinals[j]
  BY <1>0, <1>1, <1>2, SettleEffect
<1>4. ordinals[i].stage = "SUBMISSION_POSSIBLE"
  BY <1>2 DEF Settle
<1>5. /\ acknowledged' \in [Legs -> Nullable(Intents)] /\ AnswersKept
      /\ \A j \in Legs : Acknowledged(j)'
  BY <1>0, UnansweredStep
<1>6. PICK d \in Calls : Becomes(r, d) /\ d.pc = "idle" /\ Holds(call[r])'
  BY <1>0, DoneCall
<1>7. d.pc \notin Owning /\ d.pc \notin Sending
  BY <1>6 DEF Owning, Signing, Sending
<1> HIDE DEF i
<1> QED
  BY <1>0, <1>1, <1>3, <1>4, <1>5, <1>6, <1>7, OperationStep

(* The agent is answered with the intent the episode now tracks. *)
LEMMA PersistStep ==
  ASSUME RuntimeInv, NEW r \in Runtimes, PersistSignedSuccessor(r)
  PROVE  RuntimeInv'
<1> DEFINE i == call[r].leg
           w == call[r].wire
           c == [NoCall EXCEPT !.decided = i]
<1>0. /\ call[r] \in Calls /\ Holds(call[r]) /\ TypeOK /\ RuntimeTypeOK /\ [Next]_vars
      /\ call[r].pc = "persist"
      /\ RecordSignedEpisodeState(i, state, w)
      /\ Becomes(r, c)
      /\ acknowledged' = [acknowledged EXCEPT ![i] = w]
      /\ UNCHANGED <<up, revoking, signatures, sent, sentRevoked, told, wires>>
  <2>1. [Next]_vars
    BY RuntimeRefines DEF RuntimeStep
  <2>2. RecordSignedEpisodeState(i, state, w)
    BY DEF PersistSignedSuccessor, RecordSignedEpisodeState
  <2> QED
    BY <2>1, <2>2, OwnCall DEF RuntimeInv, ReopenInv, IInv, PersistSignedSuccessor, At
<1>1. i \in Legs /\ w \in Intents /\ w # None
  BY <1>0, NoneIsNoValue DEF Holds
<1>2. /\ ordinals' = ordinals /\ ordinals[i].stage = "SIGNED_INTENT_DURABLE" /\ ordinals[i].intent = w
      /\ state'.possible /\ state'.intent = w
  BY <1>0, <1>1, PersistEffect
<1>3. c \in Calls /\ c.pc = "idle" /\ c.decided = i /\ c.sends = 0
  <2>1. i \in 0..2
    BY <1>1 DEF Legs
  <2> QED
    BY <2>1, EndedCall DEF NoCall
<1> HIDE DEF c, i, w
<1>4. /\ acknowledged' \in [Legs -> Nullable(Intents)] /\ acknowledged'[i] = w
      /\ \A j \in Legs : j # i => acknowledged'[j] = acknowledged[j]
  BY <1>0, <1>1 DEF RuntimeTypeOK, Nullable
<1>5. AnswersKept
  BY <1>1, <1>4 DEF AnswersKept
<1>6. ASSUME NEW j \in Legs PROVE Acknowledged(j)'
  <2>1. CASE j = i
    BY <1>2, <1>4, <2>1 DEF Acknowledged, Retained
  <2>2. CASE j # i
    BY <1>0, <1>4, <2>2, AnswersStep
  <2> QED
    BY <2>1, <2>2
<1>7. call'[r] = c
  BY <1>0, <1>3, BecomesFacts
<1>8. Holds(call[r])'
  BY <1>1, <1>3, <1>4, <1>7 DEF Holds, Owning, Signing, Sending
<1>9. c.pc \notin Owning /\ c.pc \notin Sending
  BY <1>3 DEF Owning, Signing, Sending
<1> QED
  BY <1>0, <1>1, <1>2, <1>3, <1>4, <1>5, <1>6, <1>8, <1>9, OperationStep

(* A revocation that is answered REVOKED finds no key load started in the  *)
(* legs the human was told of.                                             *)
LEMMA RevokedOutcome ==
  ASSUME ReopenInv, NEW q, RevokeOutcome(q) = "REVOKED"
  PROVE  /\ state.name \in {"AUTHORIZED_DORMANT", "ACQUISITION_ADMITTED"} => ordinals[1].stage \in Early
         /\ state.name \in {"AUTHORIZED_DORMANT", "ACQUISITION_EVIDENCE_CLOSED", "DISPOSAL_ADMITTED"} =>
              ordinals[2].stage \in Early
<1>1. /\ Inserted = ExpectedRows(state) /\ StageAgrees(state)
      /\ ActiveStage(state) \notin {"KEY_LOAD_STARTED_AMBIGUOUS", "SIGNED_INTENT_DURABLE"}
  BY DEF RevokeOutcome
<1>2. state.name = "AUTHORIZED_DORMANT" => ordinals[1].stage = "NONE" /\ ordinals[2].stage = "NONE"
  BY <1>1 DEF ExpectedRows, Inserted, Legs
<1>3. state.name = "ACQUISITION_EVIDENCE_CLOSED" => ordinals[2].stage = "NONE"
  BY <1>1 DEF ExpectedRows, Inserted, Legs, AcquisitionNames
<1>4. state.name = "ACQUISITION_ADMITTED" => ordinals[1].stage \in Early
  BY <1>1 DEF StageAgrees, ActiveStage, AcquisitionNames, Admitted, Signable, Early
<1>5. state.name = "DISPOSAL_ADMITTED" => ordinals[2].stage \in Early
  BY <1>1 DEF StageAgrees, ActiveStage, AcquisitionNames, DisposalNames, Admitted, Signable, Early
<1> QED
  BY <1>2, <1>3, <1>4, <1>5 DEF Early

(* The revocation a runtime serves is committed, and the human answered. *)
LEMMA RevocationStep ==
  ASSUME RuntimeInv, NEW r \in Runtimes, CommitRevocation(r)
  PROVE  RuntimeInv'
<1> DEFINE request == RevocationOf(revoking[r].id, revoking[r].seen)
           outcome == RevokeOutcome(request)
           answer  == [result |-> outcome, before |-> revoking[r].seen.name]
<1>0. /\ RuntimeTypeOK /\ ReopenInv /\ RevocationHeld /\ ToldTrue /\ [Next]_vars
      /\ call[r] \in Calls /\ Holds(call[r])
      /\ UNCHANGED <<up, call, signatures, sent, sentRevoked, acknowledged, wires>>
      /\ revoking' = [revoking EXCEPT ![r] = NoRevocation]
  <2>1. [Next]_vars
    BY RuntimeRefines DEF RuntimeStep
  <2> QED
    BY <2>1, OwnCall DEF RuntimeInv, CommitRevocation
<1>1. RuntimeTypeOK' /\ RevocationHeld'
  <2>1. NoRevocation \in RevocationCalls /\ NoRevocation.pc = "idle"
    BY DEF NoRevocation, RevocationCalls, Nullable
  <2>2. revoking' \in [Runtimes -> RevocationCalls]
    BY <1>0, <2>1 DEF RuntimeTypeOK
  <2>3. \A q \in Runtimes : revoking'[q].pc = "commit" => revoking'[q] = revoking[q]
    BY <1>0, <2>1 DEF RuntimeTypeOK
  <2> QED
    BY <1>0, <2>2, <2>3 DEF RuntimeTypeOK, RevocationHeld
<1>2. CASE outcome \notin RevocationResults
  <2>1. UNCHANGED <<vars, told>>
    BY <1>2 DEF CommitRevocation
  <2>2. Holds(call[r])'
    BY <1>0, <2>1 DEF Holds, OwnsRow, OwnsSends, vars
  <2> QED
    BY <1>0, <1>1, <2>1, <2>2, LocalStep
<1>3. CASE outcome \in RevocationResults
  <2>1. RevokeAuthorization(request) /\ told' = told \cup {answer}
    BY <1>3 DEF CommitRevocation
  <2>2. revoking[r].seen = state
    <3>1. request.predecessor = revoking[r].seen
      BY DEF RevocationOf
    <3> HIDE DEF request
    <3> QED
      BY <1>3, <3>1 DEF RevokeOutcome, RevocationResults
  <2>3. Revoked' /\ UNCHANGED ordinals
    BY <2>1 DEF RevokeAuthorization, Revoked
  <2>4. ToldTrue'
    <3> SUFFICES ASSUME NEW t \in told', t.result = "REVOKED"
                 PROVE  /\ t.before \in {"AUTHORIZED_DORMANT", "ACQUISITION_ADMITTED"} =>
                              ordinals[1].stage \in Early
                        /\ t.before \in {"AUTHORIZED_DORMANT", "ACQUISITION_EVIDENCE_CLOSED",
                                         "DISPOSAL_ADMITTED"} => ordinals[2].stage \in Early
      BY <2>3 DEF ToldTrue
    <3>1. CASE t \in told
      BY <1>0, <3>1 DEF ToldTrue
    <3>2. CASE t = answer
      <4>1. t.result = outcome /\ t.before = state.name
        BY <2>2, <3>2
      <4> HIDE DEF outcome, request, answer
      <4>2. RevokeOutcome(request) = "REVOKED"
        BY <4>1 DEF outcome
      <4> QED
        BY <1>0, <4>1, <4>2, RevokedOutcome
    <3> QED
      BY <2>1, <3>1, <3>2
  <2>5. ReopenInv'
    BY <1>0, ReopenStep
  <2>6. \A i \in Legs : Counted(i)' /\ Acknowledged(i)'
    BY <1>0, AnswersStep
  <2>7. CallsHold' /\ OneOwner'
    <3>1. CallsHold'
      BY <1>0, <2>3 DEF RuntimeInv, CallsHold, Holds, OwnsRow, OwnsSends
    <3> QED
      BY <1>0, <3>1 DEF RuntimeInv, OneOwner
  <2> QED
    BY <1>1, <2>4, <2>5, <2>6, <2>7 DEF RuntimeInv
<1> QED
  BY <1>2, <1>3

-----------------------------------------------------------------------------
(* The theorems *)

(* The runtimes start with nothing held, signed, sent or answered. *)
LEMMA RuntimeInitInv == RuntimeInit => RuntimeInv
<1> SUFFICES ASSUME RuntimeInit PROVE RuntimeInv
  OBVIOUS
<1>1. /\ ReopenInv /\ MaxSends \in Nat
      /\ NoCall \in Calls /\ NoCall.pc = "idle" /\ NoCall.decided = 0 /\ NoCall.sends = 0
      /\ \A i \in Legs : ordinals[i].stage = "NONE"
  <2>1. 0 \in 0..2
    OBVIOUS
  <2> QED
    BY <2>1, InitReopens, EndedCall, Limits DEF RuntimeInit, Init, NoRow, NoCall
<1>2. NoRevocation \in RevocationCalls /\ NoRevocation.pc = "idle"
  BY DEF NoRevocation, RevocationCalls, Nullable
<1>3. RuntimeTypeOK /\ RevocationHeld
  BY <1>1, <1>2 DEF RuntimeInit, RuntimeTypeOK, RevocationHeld, Nullable
<1>4. CallsHold /\ OneOwner
  BY <1>1 DEF RuntimeInit, CallsHold, OneOwner, Holds, Owning, Signing, Sending
<1>5. \A i \in Legs : Counted(i) /\ Acknowledged(i)
  BY <1>1 DEF RuntimeInit, Counted, Acknowledged, Early
<1>6. ToldTrue
  BY DEF RuntimeInit, ToldTrue
<1> QED
  BY <1>1, <1>3, <1>4, <1>5, <1>6 DEF RuntimeInv

(* Whatever a runtime does, every call keeps what its position entitles it *)
(* to and every answer stays true.                                         *)
LEMMA RuntimeInvStep == RuntimeInv /\ [RuntimeNext]_runtimeVars => RuntimeInv'
<1> SUFFICES ASSUME RuntimeInv, [RuntimeNext]_runtimeVars PROVE RuntimeInv'
  OBVIOUS
<1>1. ASSUME NEW r \in Runtimes, RuntimeStep(r) PROVE RuntimeInv'
  BY <1>1, LocalSteps, ProcessSteps, SignStep, DispatchStep, ConsumeStep, IssueStep, CheckpointSteps,
     DurableStep, ElectStep, SettleStep, PersistStep, RevocationStep DEF RuntimeStep
<1>2. CASE UNCHANGED runtimeVars
  <2>1. /\ UNCHANGED <<vars, up, call, revoking, signatures, sent, sentRevoked, acknowledged, told, wires>>
        /\ UNCHANGED ordinals /\ [Next]_vars
    BY <1>2 DEF runtimeVars, process, world, vars
  <2>2. ReopenInv'
    BY <2>1, ReopenStep DEF RuntimeInv
  <2>3. ToldTrue' /\ \A i \in Legs : Counted(i)' /\ Acknowledged(i)'
    BY <2>1, AnswersStep
  <2>4. RuntimeTypeOK' /\ RevocationHeld'
    BY <2>1 DEF RuntimeInv, RuntimeTypeOK, RevocationHeld
  <2>5. CallsHold' /\ OneOwner'
    BY <2>1 DEF RuntimeInv, CallsHold, OneOwner, Holds, OwnsRow, OwnsSends
  <2> QED
    BY <2>2, <2>3, <2>4, <2>5 DEF RuntimeInv
<1> QED
  BY <1>1, <1>2 DEF RuntimeNext

(* The inductive invariant holds of every behaviour of the runtimes. *)
THEOREM RuntimeInvariance == RuntimeSpec => []RuntimeInv
BY RuntimeInitInv, RuntimeInvStep, PTL DEF RuntimeSpec

(* However many runtimes crash, restart and race, they reach the authority *)
(* only through its operations, in the order its callers' contract asks.   *)
THEOREM RuntimesAreCallers == RuntimeSpec => AuthorityAsSpecified
<1>1. RuntimeInit => Init
  BY DEF RuntimeInit
<1>2. RuntimeInv /\ [RuntimeNext]_runtimeVars => [Next]_vars
  BY RuntimeRefines DEF RuntimeNext, runtimeVars
<1> QED
  BY <1>1, <1>2, RuntimeInvariance, PTL DEF RuntimeSpec, AuthorityAsSpecified, Spec

(* No leg is signed twice, whichever processes crash, restart or race for  *)
(* it.                                                                     *)
THEOREM SigningOnce == RuntimeSpec => []SignedAtMostOnce
<1>1. RuntimeInv => SignedAtMostOnce
  BY DEF RuntimeInv, Counted, SignedAtMostOnce
<1> QED
  BY <1>1, RuntimeInvariance, PTL

(* Nothing is sent before the row says it may be, the budget of sends is   *)
(* kept over all processes, and a revocation lets at most one send slip.   *)
THEOREM BoundedSends == RuntimeSpec => []SendsAreBounded
<1>1. RuntimeInv => SendsAreBounded
  BY DEF RuntimeInv, Counted, SendsAreBounded, RuntimeTypeOK
<1> QED
  BY <1>1, RuntimeInvariance, PTL

(* What the human and the agent were answered stays true.                  *)
THEOREM ReliableAnswers == RuntimeSpec => []AnswersCanBeReliedOn
<1>1. RuntimeInv => AnswersCanBeReliedOn
  <2> SUFFICES ASSUME RuntimeInv PROVE AnswersCanBeReliedOn
    OBVIOUS
  <2>1. /\ ToldTrue /\ \A i \in Legs : Counted(i) /\ Acknowledged(i)
        /\ signatures \in [Legs -> Nat] /\ Legs = {1, 2}
    BY DEF RuntimeInv, RuntimeTypeOK, Legs
  <2>2. \A i \in Legs : ordinals[i].stage \in Early => signatures[i] = 0
    BY <2>1 DEF Counted
  <2>3. ASSUME NEW t \in told, t.result = "REVOKED"
        PROVE  /\ t.before = "ACQUISITION_ADMITTED" => signatures[1] = 0
               /\ t.before \in {"AUTHORIZED_DORMANT"} => signatures = [i \in Legs |-> 0]
               /\ t.before \in {"ACQUISITION_EVIDENCE_CLOSED", "DISPOSAL_ADMITTED"} => signatures[2] = 0
    <3>1. /\ t.before \in {"AUTHORIZED_DORMANT", "ACQUISITION_ADMITTED"} => ordinals[1].stage \in Early
          /\ t.before \in {"AUTHORIZED_DORMANT", "ACQUISITION_EVIDENCE_CLOSED", "DISPOSAL_ADMITTED"} =>
               ordinals[2].stage \in Early
      BY <2>1, <2>3 DEF ToldTrue
    <3> QED
      BY <2>1, <2>2, <3>1
  <2>4. \A i \in Legs : acknowledged[i] # None =>
          /\ ordinals[i].intent = acknowledged[i]
          /\ ordinals[i].stage # "FINALIZED" => state.possible /\ state.intent = acknowledged[i]
    BY <2>1 DEF Acknowledged
  <2> QED
    BY <2>3, <2>4 DEF AnswersCanBeReliedOn
<1> QED
  BY <1>1, RuntimeInvariance, PTL

(* Whatever the runtimes committed before a crash, the next one can open   *)
(* the authority again.                                                    *)
THEOREM RuntimesReopen == RuntimeSpec => []RestartReopens
<1>1. RuntimeSpec => Spec
  BY RuntimesAreCallers DEF AuthorityAsSpecified
<1> QED
  BY <1>1, Reopening, PTL
=============================================================================
