-------------------------- MODULE DurabilityProofs --------------------------
(***************************************************************************)
(* What the finite supervisor promises, for any number of restarts, and    *)
(* what holds of the package store for every set of writers and packages   *)
(* and whatever faults happen: in both an answer that something is durable *)
(* must stay true.  The two share no state.                                *)
(***************************************************************************)
EXTENDS FiniteEpisode, PackageStore, TLAPS

(***************************************************************************)
(* The finite supervisor.  Its properties are not inductive by themselves: *)
(* the invariant adds what the position of the main routine and of the     *)
(* human task says about the legs, the journal and each other.             *)
(***************************************************************************)

(* The human task acknowledges what is recorded and kept. *)
HumanTells ==
  /\ human \in {"retaining", "acking"} => revoked
  /\ human = "acking" => Revocation \in retained

(* From the wait for the poll on, the human task is over. *)
AfterHuman == {"awaitContext", "result", "done"} \cup ExportPcs
HumanIsOver == main.pc \in AfterHuman => human = "done"

(* A package exists only when the main routine has left the export. *)
PublishedLast == package # Unset => main.pc \in {"result", "done"}

(* sendContext of the main routine belongs to one of its two calls. *)
ContextOfMain == context = "main" => main.pc \in {"greet", "context"}

(* A challenge needs its capture phase, which is claimed once. *)
IssueNeedsClaim ==
  /\ \A l \in EpisodeLegs : <<"capture", l>> \notin claimed => issued[l] = 0
  /\ main.pc \in {"issue", "registering"} => <<"capture", ordinal>> \in claimed /\ issued[ordinal] = 0

(* The second leg and the report of a closed episode follow settled legs. *)
LegsInOrder ==
  /\ At("context") => leg[ordinal] = "settled"
  /\ ordinal = 2 => leg[1] = "settled"
  /\ main.closed => \A l \in EpisodeLegs : leg[l] = "settled"

FiniteInv ==
  /\ FiniteTypeOK /\ AcknowledgedIsDurable /\ PackageIsFinal /\ OneChallenge
  /\ ClosedMeansSettled /\ HumanTells /\ HumanIsOver /\ PublishedLast /\ ContextOfMain
  /\ IssueNeedsClaim /\ LegsInOrder

-----------------------------------------------------------------------------
(* Moving a leg on keeps its type, and leaves the legs that have settled. *)
LEMMA Moves ==
  ASSUME leg \in [EpisodeLegs -> Phases], NEW l \in EpisodeLegs, NEW from, NEW to \in Phases,
         from # "settled", Move(l, from, to)
  PROVE  leg' \in [EpisodeLegs -> Phases] /\ \A k \in EpisodeLegs : leg[k] = "settled" => leg'[k] = "settled"
  BY DEF Move

(* A leg moves from phase to phase, and a settled leg stays settled.       *)
LEMMA EpisodeSteps ==
  ASSUME leg \in [EpisodeLegs -> Phases], NEW l \in EpisodeLegs,
         \/ Reserve(l) \/ StartSigning(l) \/ KeepSigned(l) \/ Release(l) \/ SettleLeg(l)
  PROVE  leg' \in [EpisodeLegs -> Phases] /\ \A k \in EpisodeLegs : leg[k] = "settled" => leg'[k] = "settled"
<1>1. PICK from, to : /\ from \in {"idle", "reserved", "signing", "signed", "released"}
                      /\ to \in Phases /\ Move(l, from, to)
  BY DEF Reserve, StartSigning, KeepSigned, Release, SettleLeg, Phases
<1> QED BY <1>1, Moves

(* The steps of the main routine, of the poll and of the timer leave the   *)
(* human task alone, and forget neither a revocation nor evidence.         *)
LEMMA HumanUntouched ==
  ASSUME MainStep \/ Poll \/ EndPoll \/ Expire
  PROVE  UNCHANGED <<human, told, revoked>> /\ retained \subseteq retained'
<1>1. CASE BeginContext \/ SkipContext \/ EndContext \/ FailContext \/ Poll \/ EndPoll \/ Expire
  BY <1>1 DEF BeginContext, SkipContext, EndContext, FailContext, Poll, EndPoll, Expire,
     episodeVars, journal, history
<1>2. CASE BeginIssue \/ EndIssue \/ KeepReadiness \/ WriteChallenge \/ ReadDecision
  BY <1>2 DEF BeginIssue, EndIssue, KeepReadiness, WriteChallenge, ReadDecision,
     episodeVars, journal, history
<1>3. CASE Decide \/ Submit \/ Settle
  BY <1>3 DEF Decide, Submit, Settle, Reserve, StartSigning, KeepSigned, Release, SettleLeg, Move,
     journal, history
<1>4. CASE EndDecision \/ Answer \/ EndSubmit \/ EndFinalize \/ Fail
  BY <1>4 DEF EndDecision, Answer, EndSubmit, EndFinalize, Fail, episodeVars, journal, history
<1>5. CASE \/ ClaimSource("finalizing", "sourcing") \/ CaptureOutcome
           \/ KeepSource("sourcing", "settling") \/ KeepSource("outcome", "publish")
  BY <1>5 DEF ClaimSource, CaptureOutcome, KeepSource, episodeVars, history
<1>6. CASE \/ CloseHuman \/ AwaitHuman \/ AwaitContext \/ UseSource \/ Publish
           \/ FailExport \/ WriteResult \/ LoseResult
  BY <1>6 DEF CloseHuman, AwaitHuman, AwaitContext, UseSource, Publish, FailExport, WriteResult,
     LoseResult, episodeVars, journal, history
<1> QED BY <1>1, <1>2, <1>3, <1>4, <1>5, <1>6 DEF MainStep

(* The steps of the human task leave the main routine alone, and move no leg. *)
LEMMA MainUntouched ==
  ASSUME HumanStep
  PROVE  UNCHANGED <<leg, claimed, main, context, polling, expired, closing, package, result, issued, runs>>
  BY DEF HumanStep, ReadEnvelope, LoseEnvelope, Revoke, KeepRevocation, FailRevocation, Acknowledge,
     FailAcknowledge, NotAcknowledge, NotAcknowledging, HumanGoto, RevokeEpisode, episodeVars, outcome

-----------------------------------------------------------------------------
(* Types *)
LEMMA InitTypes == FiniteInit => FiniteTypeOK
<1> SUFFICES ASSUME FiniteInit PROVE FiniteTypeOK OBVIOUS
<1>1. leg \in [EpisodeLegs -> Phases] /\ revoked \in BOOLEAN
  BY DEF FiniteInit, EpisodeInit, Phases
<1>2. main \in [pc : MainPcs, ordinal : EpisodeLegs, started : BOOLEAN, closed : BOOLEAN]
  BY DEF FiniteInit, Started, MainPcs, EpisodeLegs
<1>3. issued \in [EpisodeLegs -> Nat]
  BY DEF FiniteInit
<1> QED BY <1>1, <1>2, <1>3 DEF FiniteInit, FiniteTypeOK, HumanPcs

MainType == [pc : MainPcs, ordinal : EpisodeLegs, started : BOOLEAN, closed : BOOLEAN]

(* A jump of the main call keeps its shape.                                *)
LEMMA GotoTypes ==
  ASSUME main \in MainType, NEW pc \in MainPcs, Goto(pc)
  PROVE  main' \in MainType
  BY DEF MainType, Goto

(* So does the end of a context, whatever it decides.                      *)
LEMMA AfterContextTypes ==
  ASSUME main \in MainType, stopped \in BOOLEAN, AfterContext
  PROVE  main' \in MainType /\ stopped' \in BOOLEAN
<1>1. CASE At("greet") BY <1>1, GotoTypes DEF AfterContext, MainPcs, At
<1>2. CASE ~At("greet") /\ stopped BY <1>2, GotoTypes DEF AfterContext, MainPcs, Leave
<1>3. CASE ~At("greet") /\ ~stopped /\ ordinal = 1
  BY <1>3 DEF AfterContext, MainPcs, MainType, EpisodeLegs
<1>4. CASE ~At("greet") /\ ~stopped /\ ordinal = 2
  BY <1>4 DEF AfterContext, MainPcs, MainType, EpisodeLegs
<1> QED BY <1>1, <1>2, <1>3, <1>4 DEF AfterContext, MainType, EpisodeLegs, ordinal

(* Every step keeps the types.                                             *)
LEMMA TypesKept ==
  ASSUME FiniteTypeOK, FiniteNext
  PROVE  FiniteTypeOK'
<1>0. main \in MainType /\ leg \in [EpisodeLegs -> Phases] /\ ordinal \in EpisodeLegs
  BY DEF FiniteTypeOK, MainType, ordinal
<1>e. /\ {<<"capture", ordinal>>, <<"source", ordinal>>} \subseteq {"capture", "source"} \X EpisodeLegs
      /\ {<<"readiness", ordinal>>, <<"source", ordinal>>} \subseteq {"readiness", "source"} \X EpisodeLegs
  BY <1>0
<1>1. CASE BeginContext \/ SkipContext \/ EndContext \/ FailContext
  BY <1>0, <1>1, AfterContextTypes, GotoTypes
     DEF BeginContext, SkipContext, EndContext, FailContext, FiniteTypeOK, MainType, MainPcs, Leave,
         episodeVars, journal, signals, outcome, history
<1>2. CASE Poll \/ EndPoll \/ Expire
  BY <1>2 DEF Poll, EndPoll, Expire, FiniteTypeOK, episodeVars, journal, signals, outcome, history
<1>3. CASE BeginIssue \/ KeepReadiness \/ WriteChallenge \/ ReadDecision
  BY <1>0, <1>e, <1>3, GotoTypes
     DEF BeginIssue, KeepReadiness, WriteChallenge, ReadDecision, FiniteTypeOK, MainType, MainPcs, CallPcs,
         Leave, episodeVars, journal, signals, outcome, history
<1>4. CASE EndIssue
  <2>1. main' \in MainType
    BY <1>0, <1>4 DEF EndIssue, MainType, MainPcs
  <2>2. issued' \in [EpisodeLegs -> Nat]
    BY <1>0, <1>4 DEF EndIssue, FiniteTypeOK
  <2> QED
    BY <1>0, <1>e, <1>4, <2>1, <2>2 DEF EndIssue, FiniteTypeOK, MainType, episodeVars, journal, signals, outcome
<1>5. CASE Decide \/ Submit \/ Settle
  <2>1. leg' \in [EpisodeLegs -> Phases]
    BY <1>0, <1>5, EpisodeSteps DEF Decide, Submit, Settle
  <2>2. revoked' = revoked
    BY <1>5 DEF Decide, Submit, Settle, Reserve, StartSigning, KeepSigned, Release, SettleLeg, Move
  <2> QED
    BY <1>5, <2>1, <2>2 DEF Decide, Submit, Settle, FiniteTypeOK, journal, signals, outcome, history
<1>6. CASE EndDecision \/ Answer \/ EndSubmit \/ EndFinalize \/ Fail
  <2>0. stopped \in BOOLEAN BY DEF FiniteTypeOK
  <2>1. CASE EndDecision \/ EndFinalize
    <3>1. main' \in MainType
      BY <1>0, <2>1, GotoTypes DEF EndDecision, EndFinalize, MainPcs, CallPcs
    <3> QED
      BY <2>1, <3>1
         DEF EndDecision, EndFinalize, FiniteTypeOK, MainType, episodeVars, journal, signals, outcome, history
  <2>2. CASE Answer
    <3>1. main' \in MainType /\ stopped' \in BOOLEAN
      BY <1>0, <2>0, <2>2, GotoTypes DEF Answer, Unless, Leave, MainPcs, CallPcs
    <3> QED
      BY <2>2, <3>1 DEF Answer, FiniteTypeOK, MainType, episodeVars, journal, outcome, history
  <2>3. CASE EndSubmit
    <3>1. main' \in MainType /\ stopped' \in BOOLEAN
      BY <1>0, <2>0, <2>3, GotoTypes DEF EndSubmit, Leave, MainPcs, CallPcs
    <3> QED
      BY <2>3, <3>1 DEF EndSubmit, FiniteTypeOK, MainType, episodeVars, journal, outcome, history
  <2>4. CASE Fail
    <3>1. main' \in MainType /\ stopped' \in BOOLEAN
      BY <1>0, <2>4, GotoTypes DEF Fail, Leave, MainPcs
    <3> QED
      BY <2>4, <3>1 DEF Fail, FiniteTypeOK, MainType, episodeVars, journal, outcome, history
  <2> QED BY <1>6, <2>1, <2>2, <2>3, <2>4
<1>7. CASE \/ ClaimSource("finalizing", "sourcing") \/ CaptureOutcome
           \/ KeepSource("sourcing", "settling") \/ KeepSource("outcome", "publish")
  BY <1>0, <1>e, <1>7, GotoTypes
     DEF ClaimSource, CaptureOutcome, KeepSource, FiniteTypeOK, MainType, MainPcs, CallPcs, ExportPcs,
         episodeVars, signals, outcome, history
<1>8. CASE CloseHuman \/ AwaitHuman \/ AwaitContext \/ UseSource
  BY <1>0, <1>8, GotoTypes
     DEF CloseHuman, AwaitHuman, AwaitContext, UseSource, FiniteTypeOK, MainType, MainPcs, ExportPcs,
         episodeVars, journal, signals, outcome, history
<1>9. CASE Publish \/ FailExport \/ WriteResult \/ LoseResult
  BY <1>0, <1>9, GotoTypes
     DEF Publish, FailExport, WriteResult, LoseResult, FiniteTypeOK, MainType, MainPcs,
         episodeVars, journal, signals, outcome, history
<1>10. CASE HumanStep
  BY <1>10 DEF HumanStep, ReadEnvelope, LoseEnvelope, Revoke, KeepRevocation, FailRevocation, Acknowledge,
     FailAcknowledge, NotAcknowledge, NotAcknowledging, HumanGoto, RevokeEpisode, FiniteTypeOK, HumanPcs,
     episodeVars, outcome
<1>11. CASE Restart
  <2>1. main' \in MainType
    BY <1>11 DEF Restart, Started, MainType, MainPcs, EpisodeLegs
  <2>2. human' \in HumanPcs /\ runs' \in Nat
    BY <1>11 DEF Restart, FiniteTypeOK, HumanPcs
  <2> QED
    BY <1>11, <2>1, <2>2 DEF Restart, FiniteTypeOK, MainType, episodeVars, journal
<1> QED
  BY <1>1, <1>2, <1>3, <1>4, <1>5, <1>6, <1>7, <1>8, <1>9, <1>10, <1>11 DEF FiniteNext, MainStep

-----------------------------------------------------------------------------
(* The human is told the truth. *)
HumanInv == AcknowledgedIsDurable /\ HumanTells

(* Every step keeps what the human was told in step with the journal.      *)
LEMMA HumanInvKept ==
  ASSUME FiniteTypeOK, HumanInv, FiniteNext
  PROVE  HumanInv'
<1>1. CASE MainStep \/ Poll \/ EndPoll \/ Expire
  BY <1>1, HumanUntouched DEF HumanInv, AcknowledgedIsDurable, HumanTells
<1>2. CASE ReadEnvelope \/ LoseEnvelope \/ FailRevocation \/ NotAcknowledge
  BY <1>2 DEF ReadEnvelope, LoseEnvelope, FailRevocation, NotAcknowledge, NotAcknowledging, HumanGoto,
     HumanInv, AcknowledgedIsDurable, HumanTells, episodeVars
<1>3. CASE Revoke
  BY <1>3 DEF Revoke, RevokeEpisode, HumanGoto, HumanInv, AcknowledgedIsDurable, HumanTells, episodeVars
<1>4. CASE KeepRevocation
  BY <1>4 DEF KeepRevocation, HumanGoto, HumanInv, AcknowledgedIsDurable, HumanTells, episodeVars
<1>5. CASE Acknowledge \/ FailAcknowledge
  BY <1>5 DEF Acknowledge, FailAcknowledge, NotAcknowledging, HumanGoto, HumanInv, AcknowledgedIsDurable,
     HumanTells, episodeVars
<1>6. CASE Restart
  BY <1>6 DEF Restart, HumanInv, AcknowledgedIsDurable, HumanTells, episodeVars, journal
<1> QED
  BY <1>1, <1>2, <1>3, <1>4, <1>5, <1>6 DEF FiniteNext, HumanStep

-----------------------------------------------------------------------------
(* The package is the last thing that happens: once the human task is over *)
(* it stays over, and the main routine that waited for it moves no leg.    *)
PackageInv == PackageIsFinal /\ HumanIsOver /\ PublishedLast /\ ContextOfMain

(* A step that ends elsewhere than behind the wait, with no package. *)
LEMMA BeforePackage ==
  ASSUME PackageInv, UNCHANGED package, main.pc \notin {"result", "done"},
         main'.pc \notin AfterHuman,
         context' = "main" => main'.pc \in {"greet", "context"}
  PROVE  PackageInv'
  BY DEF PackageInv, PackageIsFinal, HumanIsOver, PublishedLast, ContextOfMain

(* Every step keeps the package last and final.                            *)
LEMMA PackageInvKept ==
  ASSUME FiniteTypeOK, PackageInv, FiniteNext
  PROVE  PackageInv'
<1>0. main \in MainType
  BY DEF FiniteTypeOK, MainType
<1>1. CASE BeginContext \/ SkipContext \/ EndContext \/ FailContext
  <2>1. /\ UNCHANGED package /\ main.pc \in {"greet", "context"}
        /\ main'.pc \in {"greet", "context", "top", "drain"}
        /\ context' = "main" => main'.pc \in {"greet", "context"}
    BY <1>0, <1>1
       DEF BeginContext, SkipContext, EndContext, FailContext, AfterContext, Leave, Goto, At, MainType,
           PackageInv, ContextOfMain, outcome
  <2> QED BY <2>1, BeforePackage DEF AfterHuman, ExportPcs
<1>2. CASE Poll \/ EndPoll \/ Expire
  BY <1>2 DEF Poll, EndPoll, Expire, PackageInv, PackageIsFinal, HumanIsOver, PublishedLast, ContextOfMain,
     episodeVars, outcome
<1>3. CASE BeginIssue \/ EndIssue \/ KeepReadiness \/ WriteChallenge \/ ReadDecision
  <2>1. /\ UNCHANGED <<package, context>> /\ main.pc \in {"top", "issue", "registering", "challenge", "reading"}
        /\ main'.pc \in {"issue", "registering", "challenge", "reading", "deciding", "drain"}
    BY <1>0, <1>3 DEF BeginIssue, EndIssue, KeepReadiness, WriteChallenge, ReadDecision, Leave, Goto, At,
       MainType, outcome
  <2> QED BY <2>1, BeforePackage DEF AfterHuman, ExportPcs, PackageInv, ContextOfMain
<1>4. CASE Decide \/ Submit \/ Settle
  <2>1. UNCHANGED <<package, context, main>> /\ main.pc \in CallPcs
    BY <1>4 DEF Decide, Submit, Settle, At, CallPcs, outcome
  <2> QED BY <2>1, BeforePackage DEF AfterHuman, ExportPcs, CallPcs, PackageInv, ContextOfMain
<1>5. CASE EndDecision \/ Answer \/ EndSubmit \/ EndFinalize \/ Fail
  <2>1. /\ UNCHANGED <<package, context>>
        /\ main.pc \in CallPcs \cup {"top", "challenge", "reading", "answer"}
        /\ main'.pc \in {"answer", "submitting", "finalizing", "context", "drain"}
    BY <1>0, <1>5 DEF EndDecision, Answer, EndSubmit, EndFinalize, Fail, Unless, Leave, Goto, At, CallPcs,
       MainType, outcome
  <2> QED BY <2>1, BeforePackage DEF AfterHuman, ExportPcs, CallPcs, PackageInv, ContextOfMain
<1>6. CASE \/ ClaimSource("finalizing", "sourcing") \/ KeepSource("sourcing", "settling")
           \/ CloseHuman
  <2>1. /\ UNCHANGED <<package, context>> /\ main.pc \in {"finalizing", "sourcing", "drain"}
        /\ main'.pc \in {"sourcing", "settling", "awaitHuman"}
    BY <1>0, <1>6 DEF ClaimSource, KeepSource, CloseHuman, Goto, At, MainType, outcome
  <2> QED BY <2>1, BeforePackage DEF AfterHuman, ExportPcs, PackageInv, ContextOfMain
<1>7. CASE AwaitHuman \/ AwaitContext \/ UseSource \/ CaptureOutcome \/ KeepSource("outcome", "publish")
  <2>1. /\ UNCHANGED <<package, context, leg, revoked>> /\ human' = "done"
        /\ main.pc \in {"awaitHuman", "awaitContext", "capture", "outcome"}
        /\ main'.pc \notin {"greet", "context"}
    BY <1>0, <1>7 DEF AwaitHuman, AwaitContext, UseSource, CaptureOutcome, ClaimSource, KeepSource, Goto, At,
       MainType, PackageInv, HumanIsOver, AfterHuman, ExportPcs, episodeVars, outcome
  <2> QED BY <2>1 DEF PackageInv, PackageIsFinal, HumanIsOver, PublishedLast, ContextOfMain
<1>8. CASE Publish \/ FailExport \/ WriteResult \/ LoseResult
  <2>1. /\ UNCHANGED <<context, leg, revoked>> /\ human' = "done"
        /\ main.pc \notin {"greet", "context"} /\ main'.pc \in {"result", "done"}
        /\ package' \in {package, <<leg, revoked>>}
    BY <1>0, <1>8 DEF Publish, FailExport, WriteResult, LoseResult, Goto, At, MainType, PackageInv, HumanIsOver,
       AfterHuman, ExportPcs, episodeVars, outcome
  <2> QED BY <2>1 DEF PackageInv, PackageIsFinal, HumanIsOver, PublishedLast, ContextOfMain
<1>9. CASE HumanStep
  <2>1. human # "done"
    BY <1>9 DEF HumanStep, ReadEnvelope, LoseEnvelope, Revoke, KeepRevocation, FailRevocation, Acknowledge,
       FailAcknowledge, NotAcknowledge
  <2>2. main.pc \notin AfterHuman
    BY <2>1 DEF PackageInv, HumanIsOver
  <2> QED BY <1>9, <2>2, MainUntouched, BeforePackage DEF AfterHuman, PackageInv, ContextOfMain
<1>10. CASE Restart
  BY <1>10 DEF Restart, Started, PackageInv, PackageIsFinal, HumanIsOver, PublishedLast, ContextOfMain,
     AfterHuman, ExportPcs
<1> QED
  BY <1>1, <1>2, <1>3, <1>4, <1>5, <1>6, <1>7, <1>8, <1>9, <1>10 DEF FiniteNext, MainStep

-----------------------------------------------------------------------------
(* One challenge for each leg: its capture phase is never claimed twice. *)
ChallengeInv == OneChallenge /\ IssueNeedsClaim

(* Every step keeps one challenge, issued under a claim.                   *)
LEMMA ChallengeInvKept ==
  ASSUME FiniteTypeOK, ChallengeInv, FiniteNext
  PROVE  ChallengeInv'
<1>0. main \in MainType /\ ordinal \in EpisodeLegs /\ issued \in [EpisodeLegs -> Nat]
  BY DEF FiniteTypeOK, MainType, ordinal
<1>a. ASSUME claimed \subseteq claimed', UNCHANGED issued, main'.pc \notin {"issue", "registering"}
      PROVE  ChallengeInv'
  BY <1>a DEF ChallengeInv, OneChallenge, IssueNeedsClaim, At
<1>b. ASSUME UNCHANGED <<claimed, issued, main>>
      PROVE  ChallengeInv'
  BY <1>b DEF ChallengeInv, OneChallenge, IssueNeedsClaim, At, ordinal
<1>1. CASE BeginContext \/ Poll \/ EndPoll \/ Expire \/ Decide \/ Submit \/ Settle
  BY <1>1, <1>b DEF BeginContext, Poll, EndPoll, Expire, Decide, Submit, Settle, journal, history
<1>2. CASE SkipContext \/ EndContext \/ FailContext
  BY <1>0, <1>2, <1>a DEF SkipContext, EndContext, FailContext, AfterContext, Leave, Goto, MainType,
     journal, history
<1>3. CASE BeginIssue
  <2>1. <<"capture", ordinal>> \notin claimed /\ issued[ordinal] = 0
    BY <1>0, <1>3 DEF BeginIssue, ChallengeInv, IssueNeedsClaim
  <2>2. UNCHANGED issued /\ claimed' = claimed \cup {<<"capture", ordinal>>} /\ ordinal' = ordinal
    BY <1>0, <1>3 DEF BeginIssue, Goto, MainType, ordinal, history
  <2> QED BY <2>1, <2>2 DEF ChallengeInv, OneChallenge, IssueNeedsClaim
<1>4. CASE EndIssue
  <2>1. issued[ordinal] = 0 /\ <<"capture", ordinal>> \in claimed /\ UNCHANGED claimed
    BY <1>4 DEF EndIssue, ChallengeInv, IssueNeedsClaim, At, journal
  <2>2. issued' = [issued EXCEPT ![ordinal] = 1] /\ main'.pc \notin {"issue", "registering"}
    BY <1>0, <1>4, <2>1 DEF EndIssue, MainType
  <2> QED BY <1>0, <2>1, <2>2 DEF ChallengeInv, OneChallenge, IssueNeedsClaim, At
<1>5. CASE WriteChallenge \/ ReadDecision \/ EndDecision \/ Answer \/ EndSubmit \/ EndFinalize \/ Fail
  BY <1>0, <1>5, <1>a DEF WriteChallenge, ReadDecision, EndDecision, Answer, EndSubmit, EndFinalize,
     Fail, Unless, Leave, Goto, MainType, journal, history
<1>6. CASE \/ ClaimSource("finalizing", "sourcing") \/ CaptureOutcome
           \/ KeepSource("sourcing", "settling") \/ KeepSource("outcome", "publish")
  BY <1>0, <1>6, <1>a DEF ClaimSource, CaptureOutcome, KeepSource, Goto, MainType, history
<1>7. CASE \/ CloseHuman \/ AwaitHuman \/ AwaitContext \/ UseSource \/ Publish
           \/ FailExport \/ WriteResult \/ LoseResult
  BY <1>0, <1>7, <1>a DEF CloseHuman, AwaitHuman, AwaitContext, UseSource, Publish, FailExport, WriteResult,
     LoseResult, Goto, MainType, journal, history
<1>8. CASE HumanStep
  BY <1>8, <1>b, MainUntouched
<1>10. CASE KeepReadiness
  BY <1>0, <1>10 DEF KeepReadiness, Goto, At, MainType, ordinal, ChallengeInv, OneChallenge, IssueNeedsClaim, history
<1>9. CASE Restart
  BY <1>9, <1>a DEF Restart, Started, journal
<1> QED
  BY <1>1, <1>2, <1>3, <1>4, <1>5, <1>6, <1>7, <1>8, <1>9, <1>10 DEF FiniteNext, MainStep

-----------------------------------------------------------------------------
(* The legs settle in order, and a closed episode has two settled legs. *)
ClosedInv == LegsInOrder /\ ClosedMeansSettled

(* Every step keeps the legs in order, and settled once closed.            *)
LEMMA ClosedInvKept ==
  ASSUME FiniteTypeOK, PackageInv, ClosedInv, FiniteNext
  PROVE  ClosedInv'
<1>0. main \in MainType /\ ordinal \in EpisodeLegs /\ leg \in [EpisodeLegs -> Phases]
  BY DEF FiniteTypeOK, MainType, ordinal
<1> DEFINE Stays == \A l \in EpisodeLegs : leg[l] = "settled" => leg'[l] = "settled"
<1>a. ASSUME Stays, UNCHANGED result, main'.ordinal = main.ordinal, main'.closed = main.closed,
             main'.pc = "context" => leg'[ordinal] = "settled"
      PROVE  ClosedInv'
  BY <1>a DEF ClosedInv, LegsInOrder, ClosedMeansSettled, At, ordinal, EpisodeLegs
<1>1. CASE BeginContext \/ Poll \/ EndPoll \/ Expire
  BY <1>1, <1>a DEF BeginContext, Poll, EndPoll, Expire, ClosedInv, LegsInOrder, At, episodeVars, outcome
<1>2. CASE SkipContext \/ EndContext \/ FailContext
  <2>1. UNCHANGED <<leg, result>> /\ main.pc \in {"greet", "context"}
    BY <1>2 DEF SkipContext, EndContext, FailContext, PackageInv, ContextOfMain, At, episodeVars, outcome
  <2>2. CASE main'.ordinal = main.ordinal /\ main'.closed = main.closed
    <3>1. main'.pc # "context"
      BY <1>0, <1>2 DEF SkipContext, EndContext, FailContext, AfterContext, Leave, Goto, MainType
    <3> QED BY <2>1, <2>2, <3>1, <1>a
  <2>3. CASE At("context") /\ ordinal = 1 /\ main' = [main EXCEPT !.pc = "top", !.ordinal = 2]
    BY <1>0, <2>1, <2>3 DEF ClosedInv, LegsInOrder, ClosedMeansSettled, At, ordinal, MainType, EpisodeLegs
  <2>4. CASE At("context") /\ ordinal = 2 /\ main' = [main EXCEPT !.pc = "drain", !.closed = TRUE]
    BY <1>0, <2>1, <2>4 DEF ClosedInv, LegsInOrder, ClosedMeansSettled, At, ordinal, MainType, EpisodeLegs
  <2> QED
    BY <1>0, <1>2, <2>1, <2>2, <2>3, <2>4 DEF SkipContext, EndContext, FailContext, AfterContext, Leave, Goto,
       At, MainType
<1>3. CASE Decide \/ Submit \/ Settle
  <2>1. Stays
    BY <1>0, <1>3, EpisodeSteps DEF Decide, Submit, Settle
  <2>2. UNCHANGED <<result, main>> /\ main.pc # "context"
    BY <1>3 DEF Decide, Submit, Settle, At, outcome
  <2> QED BY <2>1, <2>2, <1>a
<1>4. CASE EndFinalize
  <2>1. UNCHANGED <<leg, result>> /\ leg[ordinal] = "settled"
    BY <1>4 DEF EndFinalize, episodeVars, outcome
  <2>2. main'.ordinal = main.ordinal /\ main'.closed = main.closed
    BY <1>0, <1>4 DEF EndFinalize, Goto, MainType
  <2> QED BY <2>1, <2>2, <1>a
<1>5. CASE \/ BeginIssue \/ EndIssue \/ KeepReadiness \/ WriteChallenge \/ ReadDecision
           \/ EndDecision \/ Answer \/ EndSubmit \/ Fail
  <2>1. UNCHANGED <<leg, result>> /\ main'.pc # "context"
        /\ main'.ordinal = main.ordinal /\ main'.closed = main.closed
    BY <1>0, <1>5 DEF BeginIssue, EndIssue, KeepReadiness, WriteChallenge, ReadDecision, EndDecision, Answer,
       EndSubmit, Fail, Unless, Leave, Goto, MainType, episodeVars, outcome
  <2> QED BY <2>1, <1>a
<1>6. CASE \/ ClaimSource("finalizing", "sourcing") \/ CaptureOutcome
           \/ KeepSource("sourcing", "settling") \/ KeepSource("outcome", "publish")
           \/ CloseHuman \/ AwaitHuman \/ AwaitContext \/ UseSource
  <2>1. UNCHANGED <<leg, result>> /\ main'.pc # "context"
        /\ main'.ordinal = main.ordinal /\ main'.closed = main.closed
    BY <1>0, <1>6 DEF ClaimSource, CaptureOutcome, KeepSource, CloseHuman, AwaitHuman, AwaitContext, UseSource,
       Goto, MainType, episodeVars, outcome
  <2> QED BY <2>1, <1>a
<1>7. CASE Publish \/ FailExport \/ LoseResult
  <2>1. UNCHANGED <<leg, result>> /\ main'.pc # "context"
        /\ main'.ordinal = main.ordinal /\ main'.closed = main.closed
    BY <1>0, <1>7 DEF Publish, FailExport, LoseResult, Goto, MainType, episodeVars, outcome
  <2> QED BY <2>1, <1>a
<1>8. CASE WriteResult
  <2>1. /\ UNCHANGED leg /\ main'.pc = "done"
        /\ main'.ordinal = main.ordinal /\ main'.closed = main.closed
        /\ result'[1] = "EPISODE_CLOSED" => main.closed
    BY <1>0, <1>8 DEF WriteResult, Goto, MainType, episodeVars
  <2> QED BY <2>1 DEF ClosedInv, LegsInOrder, ClosedMeansSettled, At, ordinal
<1>9. CASE HumanStep
  BY <1>9, <1>a, MainUntouched DEF ClosedInv, LegsInOrder, At
<1>10. CASE Restart
  BY <1>10 DEF Restart, Started, ClosedInv, LegsInOrder, ClosedMeansSettled, At, ordinal, Unset, episodeVars
<1> QED
  BY <1>1, <1>2, <1>3, <1>4, <1>5, <1>6, <1>7, <1>8, <1>9, <1>10 DEF FiniteNext, MainStep

-----------------------------------------------------------------------------
(* The invariant holds before the episode is started.                      *)
LEMMA InitFiniteInv == FiniteInit => FiniteInv
<1> SUFFICES ASSUME FiniteInit PROVE FiniteInv OBVIOUS
<1>1. FiniteTypeOK BY InitTypes
<1>2. HumanInv /\ PackageInv
  BY DEF FiniteInit, Started, HumanInv, AcknowledgedIsDurable, HumanTells, PackageInv, PackageIsFinal,
     HumanIsOver, PublishedLast, ContextOfMain, AfterHuman, ExportPcs
<1>3. ChallengeInv
  BY DEF FiniteInit, Started, ChallengeInv, OneChallenge, IssueNeedsClaim, At
<1>4. ClosedInv
  BY DEF FiniteInit, Started, ClosedInv, LegsInOrder, ClosedMeansSettled, At, ordinal
<1> QED
  BY <1>1, <1>2, <1>3, <1>4 DEF FiniteInv, HumanInv, PackageInv, ChallengeInv, ClosedInv

(* Every step keeps the invariant.                                         *)
LEMMA FiniteInvKept == FiniteInv /\ [FiniteNext]_finiteVars => FiniteInv'
<1> SUFFICES ASSUME FiniteInv, [FiniteNext]_finiteVars PROVE FiniteInv' OBVIOUS
<1>0. FiniteTypeOK /\ HumanInv /\ PackageInv /\ ChallengeInv /\ ClosedInv
  BY DEF FiniteInv, HumanInv, PackageInv, ChallengeInv, ClosedInv
<1>1. CASE FiniteNext
  <2>1. FiniteTypeOK' /\ HumanInv' /\ PackageInv' /\ ChallengeInv' /\ ClosedInv'
    BY <1>0, <1>1, TypesKept, HumanInvKept, PackageInvKept, ChallengeInvKept, ClosedInvKept
  <2> QED BY <2>1 DEF FiniteInv, HumanInv, PackageInv, ChallengeInv, ClosedInv
<1>2. CASE UNCHANGED finiteVars
  BY <1>2 DEF finiteVars, episodeVars, journal, signals, outcome, history, FiniteInv, FiniteTypeOK,
     AcknowledgedIsDurable, PackageIsFinal, OneChallenge, ClosedMeansSettled, HumanTells, HumanIsOver,
     PublishedLast, ContextOfMain, IssueNeedsClaim, LegsInOrder, At, ordinal
<1> QED BY <1>1, <1>2

(* Every reachable state of the supervisor satisfies the invariant. *)
THEOREM FiniteInvariant == FiniteSpec => []FiniteInv
  BY InitFiniteInv, FiniteInvKept, PTL DEF FiniteSpec

(* A human who was told that the revocation is durable has it in the       *)
(* authority and in the journal, whatever restarts follow; the package     *)
(* shows the state the run leaves behind, as the export waits for the      *)
(* human task; a closed episode is reported only with both legs settled.   *)
THEOREM ToldTheTruth == FiniteSpec => []ReportsAreTrue
<1>1. FiniteInv => ReportsAreTrue BY DEF FiniteInv, ReportsAreTrue
<1> QED BY <1>1, FiniteInvariant, PTL

(* The agent is offered each leg at most once over all runs of the worker. *)
THEOREM OneChallengeForEachLeg == FiniteSpec => []OneChallenge
<1>1. FiniteInv => OneChallenge BY DEF FiniteInv
<1> QED BY <1>1, FiniteInvariant, PTL

(* The steps of the main routine after a stop: a call under way ends, and   *)
(* the next one is not begun.                                              *)
LEMMA StoppedGoesOn ==
  ASSUME FiniteTypeOK, stopped, MainStep
  PROVE  main' = main \/ main'.pc \notin {"issue", "deciding", "submitting"}
<1>0. main \in MainType
  BY DEF FiniteTypeOK, MainType
<1>1. CASE BeginContext \/ SkipContext \/ EndContext \/ FailContext
  BY <1>0, <1>1 DEF BeginContext, SkipContext, EndContext, FailContext, AfterContext, Leave, Goto, MainType
<1>2. CASE BeginIssue \/ ReadDecision
  BY <1>2 DEF BeginIssue, ReadDecision
<1>3. CASE EndIssue \/ KeepReadiness \/ WriteChallenge
  BY <1>0, <1>3 DEF EndIssue, KeepReadiness, WriteChallenge, Goto, MainType
<1>4. CASE Decide \/ Submit \/ Settle
  BY <1>4 DEF Decide, Submit, Settle
<1>5. CASE EndDecision \/ Answer \/ EndSubmit \/ EndFinalize \/ Fail
  BY <1>0, <1>5 DEF EndDecision, Answer, EndSubmit, EndFinalize, Fail, Unless, Leave, Goto, MainType
<1>6. CASE \/ ClaimSource("finalizing", "sourcing") \/ CaptureOutcome
           \/ KeepSource("sourcing", "settling") \/ KeepSource("outcome", "publish")
  BY <1>0, <1>6 DEF ClaimSource, CaptureOutcome, KeepSource, Goto, MainType
<1>7. CASE \/ CloseHuman \/ AwaitHuman \/ AwaitContext \/ UseSource \/ Publish
           \/ FailExport \/ WriteResult \/ LoseResult
  BY <1>0, <1>7 DEF CloseHuman, AwaitHuman, AwaitContext, UseSource, Publish, FailExport, WriteResult,
     LoseResult, Goto, MainType
<1> QED
  BY <1>1, <1>2, <1>3, <1>4, <1>5, <1>6, <1>7 DEF MainStep

(* In the run that was stopped no challenge, decision or submission begins. *)
THEOREM StopIsObeyed == FiniteSpec => NothingStartsAfterStop
<1>1. FiniteTypeOK /\ [FiniteNext]_finiteVars =>
        [stopped /\ stopped' /\ main' # main =>
           main'.pc \notin {"issue", "deciding", "submitting"}]_finiteVars
  <2> SUFFICES ASSUME FiniteTypeOK, FiniteNext, stopped, stopped', main' # main
               PROVE  main'.pc \notin {"issue", "deciding", "submitting"}
    OBVIOUS
  <2>1. CASE MainStep
    BY <2>1, StoppedGoesOn
  <2>2. CASE HumanStep
    BY <2>2, MainUntouched
  <2>3. CASE Poll \/ EndPoll \/ Expire
    BY <2>3 DEF Poll, EndPoll, Expire
  <2>4. CASE Restart
    BY <2>4 DEF Restart
  <2> QED
    BY <2>1, <2>2, <2>3, <2>4 DEF FiniteNext
<1>2. FiniteInv => FiniteTypeOK
  BY DEF FiniteInv
<1> QED
  BY <1>1, <1>2, FiniteInvariant, PTL DEF FiniteSpec, NothingStartsAfterStop

(***************************************************************************)
(* The package store: its types, that an acknowledged package is durable,  *)
(* that a published one is never replaced, and that the durable entry is a *)
(* write-once register.  None of it needs the lock.                        *)
(***************************************************************************)

(* What a step does to the call of one writer. *)
LEMMA BecomesFacts ==
  ASSUME TypeOK, NEW w \in Writers, NEW c \in Calls, Becomes(w, c),
         c.pc # "idle" => c.digest \in Digests
  PROVE  /\ writer' \in [Writers -> Calls]
         /\ \A v \in Writers : writer'[v].pc # "idle" => writer'[v].digest \in Digests
         /\ writer'[w] = c
         /\ \A v \in Writers \ {w} : writer'[v] = writer[v]
BY DEF Becomes, TypeOK, Stands

(* A jump changes the place of one writer only.                            *)
LEMMA GotoFacts ==
  ASSUME TypeOK, NEW w \in Writers, NEW pc \in Locations \ {"idle"}, Continues(w, pc),
         ~Stands(w, "idle")
  PROVE  /\ writer' \in [Writers -> Calls]
         /\ \A v \in Writers : writer'[v].pc # "idle" => writer'[v].digest \in Digests
         /\ writer'[w] = [writer[w] EXCEPT !.pc = pc]
         /\ \A v \in Writers \ {w} : writer'[v] = writer[v]
<1>1. writer[w] \in Calls /\ writer[w].digest \in Digests
  BY DEF TypeOK, Stands
<1>2. [writer[w] EXCEPT !.pc = pc] \in Calls /\ [writer[w] EXCEPT !.pc = pc].digest \in Digests
  BY <1>1 DEF Calls
<1> QED
  BY <1>2, BecomesFacts DEF Continues

(* The end of a call changes the place and outcome of one writer only.     *)
LEMMA EndsFacts ==
  ASSUME TypeOK, NEW w \in Writers, NEW pc \in Locations \ {"idle"}, NEW o \in Outcomes,
         Ends(w, o, pc), ~Stands(w, "idle")
  PROVE  /\ writer' \in [Writers -> Calls]
         /\ \A v \in Writers : writer'[v].pc # "idle" => writer'[v].digest \in Digests
         /\ writer'[w] = [writer[w] EXCEPT !.outcome = o, !.pc = pc]
         /\ \A v \in Writers \ {w} : writer'[v] = writer[v]
<1>1. writer[w] \in Calls /\ writer[w].digest \in Digests
  BY DEF TypeOK, Stands
<1> DEFINE c == [writer[w] EXCEPT !.outcome = o, !.pc = pc]
<1>2. c \in Calls /\ c.digest \in Digests
  BY <1>1 DEF Calls
<1> QED
  BY <1>2, BecomesFacts DEF Ends

(* A writer that is idle has no outcome yet.                               *)
LEMMA IdleFacts == Idle \in Calls /\ Idle.pc = "idle" /\ Idle.outcome = "none"
BY DEF Idle, Calls, Locations, Outcomes

-----------------------------------------------------------------------------
(* The inductive invariant *)

(* What is durable is also visible: only a power loss takes a package      *)
(* away, and it takes away what was never synced.                          *)
DurableIsVisible == durable.package # None => committed = durable.package

(* Where a writer relies on its package being visible, and being durable. *)
Relies(c) ==
  \/ c.pc \in {"clean", "sync", "confirm"}
  \/ c.pc \in {"release", "releaseSync"} /\ c.outcome \in Answers
Assured(c) == c.pc = "return" /\ c.outcome \in Answers

WritersAreRight ==
  \A w \in Writers : /\ Relies(writer[w]) => committed = writer[w].digest
                     /\ Assured(writer[w]) => durable.package = writer[w].digest

IInv == TypeOK /\ DurableIsVisible /\ WritersAreRight /\ AcknowledgedPackageIsDurable
-----------------------------------------------------------------------------
(* A step of one writer keeps the invariant when it neither takes away nor *)
(* replaces a package, and what that writer itself then relies on is true. *)
LEMMA OneWriterMoves ==
  ASSUME IInv, TypeOK', NEW w \in Writers,
         \A v \in Writers \ {w} : writer'[v] = writer[v],
         committed # None => committed' = committed,
         durable.package # None => durable'.package = durable.package,
         durable'.package # None => committed' = durable'.package,
         Relies(writer'[w]) => committed' = writer'[w].digest,
         Assured(writer'[w]) => durable'.package = writer'[w].digest,
         \A d \in acknowledged' : d \in acknowledged \/ durable'.package = d
  PROVE  IInv'
<1>1. DurableIsVisible'
  BY DEF DurableIsVisible
<1>2. ASSUME NEW v \in Writers \ {w}
      PROVE  /\ Relies(writer[v]) => committed' = writer[v].digest
             /\ Assured(writer[v]) => durable'.package = writer[v].digest
  <2>1. Relies(writer[v]) \/ Assured(writer[v]) => writer[v].digest \in Digests
    BY DEF IInv, TypeOK, Stands, Relies, Assured
  <2> QED
    BY <2>1, NoneIsNoDigest DEF IInv, WritersAreRight
<1>3. WritersAreRight'
  BY <1>2 DEF WritersAreRight
<1>4. acknowledged \subseteq Digests
  BY DEF IInv, TypeOK
<1>5. AcknowledgedPackageIsDurable'
  BY <1>4, NoneIsNoDigest DEF IInv, AcknowledgedPackageIsDurable
<1> QED
  BY <1>1, <1>3, <1>5 DEF IInv

(* A step that leaves the package alone: the writer only moves on.         *)
LEMMA OnlyMoves ==
  ASSUME IInv, TypeOK', NEW w \in Writers,
         \A v \in Writers \ {w} : writer'[v] = writer[v],
         UNCHANGED <<committed, durable, acknowledged>>,
         Relies(writer'[w]) => committed = writer'[w].digest,
         Assured(writer'[w]) => durable.package = writer'[w].digest
  PROVE  IInv'
BY OneWriterMoves DEF IInv, DurableIsVisible

(* Where a writer relies on nothing it may go on whatever the package is. *)
LEMMA FreeMoves ==
  ASSUME IInv, NEW w \in Writers, NEW pc \in {"inspect", "unlock", "rename", "reconcile"},
         ~Stands(w, "idle"), Continues(w, pc), UNCHANGED <<committed, durable, stage, books>>,
         lock' \in Writers \cup {None}
  PROVE  IInv'
<1>1. TypeOK /\ pc \in Locations \ {"idle"}
  BY DEF IInv, Locations, InLock
<1>2. /\ writer' \in [Writers -> Calls]
      /\ \A v \in Writers : writer'[v].pc # "idle" => writer'[v].digest \in Digests
      /\ writer'[w] = [writer[w] EXCEPT !.pc = pc]
      /\ \A v \in Writers \ {w} : writer'[v] = writer[v]
  BY <1>1, GotoFacts
<1>3. TypeOK'
  BY <1>1, <1>2 DEF TypeOK, Stands, books
<1>4. writer'[w].pc = pc
  BY <1>1, <1>2 DEF TypeOK, Calls
<1> QED
  BY <1>2, <1>3, <1>4, OnlyMoves DEF Relies, Assured, books

(* An answer that is no success may be given at any time.                  *)
LEMMA Failures ==
  ASSUME IInv, NEW w \in Writers, NEW pc \in {"release", "return"},
         NEW o \in Outcomes \ Answers, ~Stands(w, "idle"), Ends(w, o, pc),
         UNCHANGED <<committed, durable, books>>,
         stage' \in [Writers -> BOOLEAN], lock' \in Writers \cup {None}
  PROVE  IInv'
<1>1. TypeOK /\ pc \in Locations \ {"idle"}
  BY DEF IInv, Locations, InLock
<1>2. /\ writer' \in [Writers -> Calls]
      /\ \A v \in Writers : writer'[v].pc # "idle" => writer'[v].digest \in Digests
      /\ writer'[w] = [writer[w] EXCEPT !.outcome = o, !.pc = pc]
      /\ \A v \in Writers \ {w} : writer'[v] = writer[v]
  BY <1>1, EndsFacts
<1>3. TypeOK'
  BY <1>1, <1>2 DEF TypeOK, Stands, books
<1>4. writer'[w].pc = pc /\ writer'[w].outcome = o
  BY <1>1, <1>2 DEF TypeOK, Calls
<1> QED
  BY <1>2, <1>3, <1>4, OnlyMoves DEF Relies, Assured, books

(* The package is there when success is answered.                          *)
LEMMA Successes ==
  ASSUME IInv, NEW w \in Writers, NEW o \in Answers, ~Stands(w, "idle"), Ends(w, o, "release"),
         committed = writer[w].digest, UNCHANGED <<committed, durable, lock, books>>,
         stage' \in [Writers -> BOOLEAN]
  PROVE  IInv'
<1>1. TypeOK /\ "release" \in Locations \ {"idle"} /\ o \in Outcomes
  BY DEF IInv, Locations, InLock, Outcomes
<1>2. /\ writer' \in [Writers -> Calls]
      /\ \A v \in Writers : writer'[v].pc # "idle" => writer'[v].digest \in Digests
      /\ writer'[w] = [writer[w] EXCEPT !.outcome = o, !.pc = "release"]
      /\ \A v \in Writers \ {w} : writer'[v] = writer[v]
  BY <1>1, EndsFacts
<1>3. TypeOK'
  BY <1>1, <1>2 DEF TypeOK, Stands, books
<1>4. writer'[w].pc = "release" /\ writer'[w].digest = writer[w].digest
  BY <1>1, <1>2 DEF TypeOK, Calls
<1> QED
  BY <1>2, <1>3, <1>4, OnlyMoves DEF Relies, Assured, books

-----------------------------------------------------------------------------
(* Every operation keeps the invariant. *)

LEMMA InitKeeps == Init => IInv
<1> SUFFICES ASSUME Init PROVE IInv
  OBVIOUS
<1>1. TypeOK
  BY IdleFacts DEF Init, TypeOK, Stands
<1>2. \A w \in Writers : ~Relies(writer[w]) /\ ~Assured(writer[w])
  BY IdleFacts DEF Init, Relies, Assured
<1> QED
  BY <1>1, <1>2 DEF Init, IInv, DurableIsVisible, WritersAreRight, AcknowledgedPackageIsDurable

(* Staging: the files and their confirmation.                              *)
LEMMA StageKeeps ==
  ASSUME IInv, NEW w \in Writers, Stage(w)
  PROVE  IInv'
<1>1. TypeOK
  BY DEF IInv
<1>2. PICK d \in Digests : Becomes(w, [Idle EXCEPT !.pc = "lock", !.digest = d])
  BY DEF Stage
<1> DEFINE c == [Idle EXCEPT !.pc = "lock", !.digest = d]
<1>3. c \in Calls /\ c.digest \in Digests /\ c.pc = "lock"
  BY DEF Idle, Calls, Locations, Outcomes
<1>4. /\ writer' \in [Writers -> Calls]
      /\ \A v \in Writers : writer'[v].pc # "idle" => writer'[v].digest \in Digests
      /\ writer'[w] = c
      /\ \A v \in Writers \ {w} : writer'[v] = writer[v]
  BY <1>1, <1>2, <1>3, BecomesFacts
<1>5. calls' \in [Writers -> Nat] /\ stage' \in [Writers -> BOOLEAN]
  BY <1>1 DEF Stage, TypeOK
<1>6. TypeOK'
  BY <1>1, <1>4, <1>5 DEF Stage, TypeOK, Stands, disk
<1> HIDE DEF c
<1> QED
  BY <1>3, <1>4, <1>6, OnlyMoves DEF Stage, Relies, Assured, disk
(* The lock of the destination: taken, found, refused, cleared.            *)
LEMMA LockKeeps ==
  ASSUME IInv, NEW w \in Writers,
         AcquireLock(w) \/ LockRemains(w) \/ LockFails(w) \/ ClearLock(w)
  PROVE  IInv'
<1>1. TypeOK
  BY DEF IInv
<1>2. "package_store_locked" \in Outcomes \ Answers
  BY DEF Outcomes, Answers
<1>3. CASE AcquireLock(w)
  BY <1>1, <1>3, FreeMoves DEF AcquireLock, TypeOK, Stands
<1>4. CASE LockRemains(w)
  BY <1>1, <1>2, <1>4, Failures DEF LockRemains, TypeOK, Stands, disk
<1>5. CASE LockFails(w)
  BY <1>1, <1>5, FreeMoves DEF LockFails, TypeOK, Stands, disk
<1>6. CASE ClearLock(w)
  BY <1>1, <1>2, <1>6, Failures DEF ClearLock, TypeOK, Stands
<1> QED
  BY <1>3, <1>4, <1>5, <1>6

(* Whatever step may report an error.                                      *)
LEMMA ErrorsKeep ==
  ASSUME IInv, NEW w \in Writers, StepFails(w) \/ ReleaseFails(w)
  PROVE  IInv'
<1>1. TypeOK /\ ~Stands(w, "idle")
  BY DEF IInv, StepFails, ReleaseFails, Stands
<1>2. {"failed", "package_store_locked", "commit_unknown"} \subseteq Outcomes \ Answers
  BY DEF Outcomes, Answers
<1>3. CASE StepFails(w)
  BY <1>1, <1>2, <1>3, Failures DEF StepFails, TypeOK, disk
<1>4. CASE ReleaseFails(w)
  <2>1. PICK e \in ReleaseErrors(w) : Ends(w, e, "return")
    BY <1>4 DEF ReleaseFails
  <2>2. e \in Outcomes \ Answers
    BY <1>2 DEF ReleaseErrors
  <2> QED
    BY <1>1, <1>4, <2>1, <2>2, Failures DEF ReleaseFails, TypeOK, disk
<1> QED
  BY <1>3, <1>4

(* The look at what the destination holds.                                 *)
LEMMA InspectKeeps ==
  ASSUME IInv, NEW w \in Writers, InspectDestination(w)
  PROVE  IInv'
<1>1. TypeOK /\ ~Stands(w, "idle")
  BY DEF IInv, InspectDestination, Stands
<1>2. CASE committed = None /\ Continues(w, "rename")
  BY <1>1, <1>2, FreeMoves DEF InspectDestination, TypeOK, disk
<1>3. CASE committed = writer[w].digest /\ Continues(w, "clean")
  <2>1. "clean" \in Locations \ {"idle"}
    BY DEF Locations, InLock
  <2>2. /\ writer' \in [Writers -> Calls]
        /\ \A v \in Writers : writer'[v].pc # "idle" => writer'[v].digest \in Digests
        /\ writer'[w] = [writer[w] EXCEPT !.pc = "clean"]
        /\ \A v \in Writers \ {w} : writer'[v] = writer[v]
    BY <1>1, <1>3, <2>1, GotoFacts
  <2>3. TypeOK'
    BY <1>1, <2>2 DEF InspectDestination, TypeOK, Stands, disk, books
  <2>4. writer'[w].pc = "clean" /\ writer'[w].digest = writer[w].digest
    BY <1>1, <2>2 DEF TypeOK, Calls
  <2> QED
    BY <1>3, <2>2, <2>3, <2>4, OnlyMoves
    DEF InspectDestination, Relies, Assured, disk, books
<1>4. CASE Ends(w, "package_store_conflict", "release")
  <2>1. "package_store_conflict" \in Outcomes \ Answers
    BY DEF Outcomes, Answers
  <2> QED
    BY <1>1, <1>4, <2>1, Failures DEF InspectDestination, TypeOK, disk
<1> QED
  BY <1>2, <1>3, <1>4 DEF InspectDestination

(* The removal of the stage.                                               *)
LEMMA CleanKeeps ==
  ASSUME IInv, NEW w \in Writers, CleanStage(w)
  PROVE  IInv'
<1>1. TypeOK /\ ~Stands(w, "idle") /\ "unchanged" \in Answers
  BY DEF IInv, CleanStage, Stands, Answers
<1>2. committed = writer[w].digest
  BY DEF CleanStage, Stands, IInv, WritersAreRight, Relies
<1> QED
  BY <1>1, <1>2, Successes DEF CleanStage, TypeOK, disk

(* The rename publishes only where nothing is, so nobody else relied on    *)
(* what was there before.                                                  *)
LEMMA RenameKeeps ==
  ASSUME IInv, NEW w \in Writers, Rename(w) \/ RenameUnanswered(w)
  PROVE  IInv'
<1>1. TypeOK /\ writer[w] \in Calls /\ writer[w].digest \in Digests
  BY DEF IInv, TypeOK, Rename, RenameUnanswered, Stands
<1>2. PICK c : /\ Becomes(w, c)
               /\ c \in Calls
               /\ c.digest = writer[w].digest
               /\ c.pc \in {"sync", "reconcile"}
  <2>1. CASE Rename(w)
    <3> WITNESS [writer[w] EXCEPT !.pc = "sync", !.renamed = TRUE, !.published = TRUE]
    <3> QED
      BY <1>1, <2>1 DEF Rename, Calls, Locations, InLock
  <2>2. CASE RenameUnanswered(w)
    <3> WITNESS [writer[w] EXCEPT !.pc = "reconcile", !.published = TRUE]
    <3> QED
      BY <1>1, <2>2 DEF RenameUnanswered, Calls, Locations, InLock
  <2> QED
    BY <2>1, <2>2
<1>3. /\ writer' \in [Writers -> Calls]
      /\ \A v \in Writers : writer'[v].pc # "idle" => writer'[v].digest \in Digests
      /\ writer'[w] = c
      /\ \A v \in Writers \ {w} : writer'[v] = writer[v]
  BY <1>1, <1>2, BecomesFacts
<1>4. /\ committed = None /\ committed' = writer[w].digest
      /\ UNCHANGED <<lock, durable, books>>
      /\ stage' = [stage EXCEPT ![w] = FALSE]
  BY DEF Rename, RenameUnanswered
<1>5. TypeOK'
  BY <1>1, <1>3, <1>4 DEF TypeOK, Stands, books
<1>6. durable.package = None
  BY <1>4, NoneIsNoDigest DEF IInv, DurableIsVisible, TypeOK
<1> QED
  BY <1>2, <1>3, <1>4, <1>5, <1>6, OneWriterMoves DEF Relies, Assured, books

(* The rename that was refused, and what is made of it.                    *)
LEMMA ReconcileKeeps ==
  ASSUME IInv, NEW w \in Writers, RenameRefused(w) \/ Reconcile(w)
  PROVE  IInv'
<1>1. TypeOK /\ ~Stands(w, "idle")
  BY DEF IInv, RenameRefused, Reconcile, Stands
<1>2. CASE RenameRefused(w)
  BY <1>1, <1>2, FreeMoves DEF RenameRefused, TypeOK, disk
<1>3. CASE Reconcile(w)
  <2>1. "unchanged" \in Answers
    BY DEF Answers
  <2>2. {"failed", "package_store_conflict"} \subseteq Outcomes \ Answers
    BY DEF Outcomes, Answers
  <2>3. stage' \in [Writers -> BOOLEAN]
    BY <1>1, <1>3 DEF Reconcile, TypeOK
  <2>4. CASE committed = writer[w].digest /\ Ends(w, "unchanged", "release")
    BY <1>1, <1>3, <2>1, <2>3, <2>4, Successes DEF Reconcile, disk
  <2>5. CASE Ends(w, "failed", "release") \/ Ends(w, "package_store_conflict", "release")
    BY <1>1, <1>3, <2>2, <2>3, <2>5, Failures DEF Reconcile, TypeOK, disk
  <2> QED
    BY <1>3, <2>4, <2>5 DEF Reconcile
<1> QED
  BY <1>2, <1>3
(* Syncing the root makes durable what is visible; where a package was     *)
(* durable already it is the same one.                                     *)
LEMMA SyncsKeep ==
  ASSUME IInv, NEW w \in Writers, NEW pc \in {"confirm", "return"},
         \/ Stands(w, "sync") /\ pc = "confirm"
         \/ Stands(w, "releaseSync") /\ pc = "return",
         durable' = [package |-> committed, lock |-> lock], Continues(w, pc),
         UNCHANGED <<committed, lock, stage, books>>
  PROVE  IInv'
<1>1. TypeOK /\ pc \in Locations \ {"idle"} /\ ~Stands(w, "idle") /\ writer[w] \in Calls
  BY DEF IInv, TypeOK, Locations, InLock, Stands
<1>2. /\ writer' \in [Writers -> Calls]
      /\ \A v \in Writers : writer'[v].pc # "idle" => writer'[v].digest \in Digests
      /\ writer'[w] = [writer[w] EXCEPT !.pc = pc]
      /\ \A v \in Writers \ {w} : writer'[v] = writer[v]
  BY <1>1, GotoFacts
<1>3. TypeOK'
  BY <1>1, <1>2 DEF TypeOK, Stands, books
<1>4. /\ writer'[w].pc = pc /\ writer'[w].digest = writer[w].digest
      /\ writer'[w].outcome = writer[w].outcome
  BY <1>1, <1>2 DEF Calls
<1>5. Stands(w, "sync") \/ writer[w].outcome \in Answers => committed = writer[w].digest
  BY DEF IInv, WritersAreRight, Relies, Stands
<1>6. durable'.package = committed
  OBVIOUS
<1>7. durable.package # None => durable'.package = durable.package
  BY <1>6 DEF IInv, DurableIsVisible
<1> QED
  BY <1>2, <1>3, <1>4, <1>5, <1>6, <1>7, OneWriterMoves DEF Relies, Assured, books, Stands

(* The confirmation of the parent directory.                               *)
LEMMA ConfirmKeeps ==
  ASSUME IInv, NEW w \in Writers, Confirm(w)
  PROVE  IInv'
<1>1. TypeOK /\ ~Stands(w, "idle") /\ "committed" \in Answers
  BY DEF IInv, Confirm, Stands, Answers
<1> QED
  BY <1>1, Successes DEF Confirm, TypeOK, disk, books

(* The release of the lock.                                                *)
LEMMA ReleaseKeeps ==
  ASSUME IInv, NEW w \in Writers, ReleaseLock(w)
  PROVE  IInv'
<1>1. TypeOK /\ "releaseSync" \in Locations \ {"idle"} /\ ~Stands(w, "idle")
      /\ writer[w] \in Calls
  BY DEF IInv, TypeOK, ReleaseLock, Locations, InLock, Stands
<1>2. /\ writer' \in [Writers -> Calls]
      /\ \A v \in Writers : writer'[v].pc # "idle" => writer'[v].digest \in Digests
      /\ writer'[w] = [writer[w] EXCEPT !.pc = "releaseSync"]
      /\ \A v \in Writers \ {w} : writer'[v] = writer[v]
  BY <1>1, GotoFacts DEF ReleaseLock
<1>3. TypeOK'
  BY <1>1, <1>2 DEF ReleaseLock, TypeOK, Stands, books
<1>4. /\ writer'[w].pc = "releaseSync" /\ writer'[w].digest = writer[w].digest
      /\ writer'[w].outcome = writer[w].outcome
  BY <1>1, <1>2 DEF Calls
<1>5. writer[w].outcome \in Answers => committed = writer[w].digest
  BY DEF ReleaseLock, IInv, WritersAreRight, Relies, Stands
<1> QED
  BY <1>2, <1>3, <1>4, <1>5, OnlyMoves DEF ReleaseLock, Relies, Assured, books

(* The answer is passed on, and a success with it is acknowledged.         *)
LEMMA ReturnKeeps ==
  ASSUME IInv, NEW w \in Writers, Return(w)
  PROVE  IInv'
<1>1. TypeOK /\ ~Stands(w, "idle") /\ writer[w] \in Calls /\ writer[w].digest \in Digests
  BY DEF IInv, TypeOK, Return, Stands
<1>2. PICK c : /\ Becomes(w, c)
               /\ c \in Calls
               /\ c.pc # "idle" => c.digest \in Digests
               /\ c.pc \in {"idle", "reinspect"}
  <2>1. CASE Continues(w, "reinspect")
    <3> WITNESS [writer[w] EXCEPT !.pc = "reinspect"]
    <3> QED
      BY <1>1, <2>1 DEF Continues, Calls, Locations
  <2>2. CASE Becomes(w, Idle)
    BY <2>2, IdleFacts
  <2> QED
    BY <2>1, <2>2 DEF Return
<1>3. /\ writer' \in [Writers -> Calls]
      /\ \A v \in Writers : writer'[v].pc # "idle" => writer'[v].digest \in Digests
      /\ writer'[w] = c
      /\ \A v \in Writers \ {w} : writer'[v] = writer[v]
  BY <1>1, <1>2, BecomesFacts
<1>4. stage' \in [Writers -> BOOLEAN] /\ acknowledged' \subseteq Digests /\ reported' \subseteq Digests
  BY <1>1 DEF Return, TypeOK
<1>5. TypeOK'
  BY <1>1, <1>3, <1>4 DEF Return, TypeOK, Stands, disk
<1>6. writer[w].outcome \in Answers => durable.package = writer[w].digest
  BY DEF Return, Stands, IInv, WritersAreRight, Assured
<1>7. \A d \in acknowledged' : d \in acknowledged \/ durable'.package = d
  BY <1>6 DEF Return, disk
<1> QED
  BY <1>2, <1>3, <1>5, <1>7, OneWriterMoves
  DEF Return, Relies, Assured, disk, IInv, DurableIsVisible

(* A writer that is done, or dead, relies on nothing.                      *)
LEMMA BackToIdle ==
  ASSUME IInv, NEW w \in Writers, Becomes(w, Idle), UNCHANGED <<disk, acknowledged>>,
         stage' \in [Writers -> BOOLEAN], calls' = calls, failures' \in Nat,
         reported' \subseteq Digests
  PROVE  IInv'
<1>1. TypeOK
  BY DEF IInv
<1>2. /\ writer' \in [Writers -> Calls]
      /\ \A v \in Writers : writer'[v].pc # "idle" => writer'[v].digest \in Digests
      /\ writer'[w] = Idle
      /\ \A v \in Writers \ {w} : writer'[v] = writer[v]
  BY <1>1, IdleFacts, BecomesFacts
<1>3. TypeOK'
  BY <1>1, <1>2 DEF TypeOK, Stands, disk
<1> QED
  BY <1>2, <1>3, IdleFacts, OnlyMoves DEF Relies, Assured, disk

(* The second look at the destination, and the death of a writer.          *)
LEMMA EndsKeep ==
  ASSUME IInv, NEW w \in Writers, Reinspect(w) \/ Crash(w)
  PROVE  IInv'
<1>1. TypeOK
  BY DEF IInv
<1>2. CASE Reinspect(w)
  <2>1. reported' \subseteq Digests
    BY <1>1, <1>2 DEF Reinspect, TypeOK, Stands
  <2> QED
    BY <1>1, <1>2, <2>1, BackToIdle DEF Reinspect, TypeOK
<1>3. CASE Crash(w)
  <2>1. failures' \in Nat
    BY <1>1, <1>3 DEF Crash, TypeOK
  <2> QED
    BY <1>1, <1>3, <2>1, BackToIdle DEF Crash, TypeOK
<1> QED
  BY <1>2, <1>3

(* A power loss keeps what was confirmed.                                  *)
LEMMA PowerLossKeeps ==
  ASSUME IInv, PowerLoss
  PROVE  IInv'
<1>1. TypeOK
  BY DEF IInv
<1>2. /\ committed' \in Digests \cup {None} /\ lock' \in Writers \cup {None}
      /\ durable'.package = committed'
  BY <1>1 DEF PowerLoss, TypeOK
<1>3. TypeOK'
  <2>1. failures' \in Nat
    BY <1>1 DEF PowerLoss, TypeOK
  <2> QED
    BY <1>1, <1>2, <2>1, IdleFacts DEF PowerLoss, TypeOK, Stands
<1>4. durable.package # None => durable'.package = durable.package
  BY <1>2 DEF PowerLoss, IInv, DurableIsVisible
<1>5. \A w \in Writers : ~Relies(writer'[w]) /\ ~Assured(writer'[w])
  BY IdleFacts DEF PowerLoss, Relies, Assured
<1>6. AcknowledgedPackageIsDurable'
  BY <1>1, <1>4, NoneIsNoDigest DEF PowerLoss, IInv, TypeOK, AcknowledgedPackageIsDurable
<1> QED
  BY <1>2, <1>3, <1>5, <1>6 DEF IInv, DurableIsVisible, WritersAreRight

(* A step in which nothing happens.                                        *)
LEMMA StutterKeeps ==
  ASSUME IInv, UNCHANGED vars
  PROVE  IInv'
BY DEF IInv, vars, disk, books, TypeOK, Stands, DurableIsVisible, WritersAreRight,
       AcknowledgedPackageIsDurable, Relies, Assured

(* Every step keeps the invariant.                                         *)
LEMMA StepKeeps ==
  ASSUME IInv, [Next]_vars
  PROVE  IInv'
<1>1. ASSUME NEW w \in Writers, WriterStep(w)
      PROVE  IInv'
  <2>1. CASE SyncRoot(w) \/ SyncRelease(w)
    BY <2>1, SyncsKeep DEF SyncRoot, SyncRelease
  <2> QED
    BY <1>1, <2>1, LockKeeps, ErrorsKeep, InspectKeeps, CleanKeeps, RenameKeeps,
       ReconcileKeeps, ConfirmKeeps, ReleaseKeeps, ReturnKeeps, EndsKeep
    DEF WriterStep, Proceed
<1> QED
  BY <1>1, StageKeeps, EndsKeep, PowerLossKeeps, StutterKeeps DEF Next
-----------------------------------------------------------------------------
(* What follows from the invariant *)

(* Every variable keeps its type.                                          *)
THEOREM StoreTypeCorrect == Spec => []TypeOK
<1>1. IInv /\ [Next]_vars => IInv'
  BY StepKeeps
<1>2. IInv => TypeOK
  BY DEF IInv
<1> QED
  BY InitKeeps, <1>1, <1>2, PTL DEF Spec

(* Whoever was answered committed or unchanged finds the package on the    *)
(* disk after every later crash and power loss.                            *)
THEOREM AcknowledgedPackagesAreDurable == Spec => []AcknowledgedPackageIsDurable
<1>1. IInv /\ [Next]_vars => IInv'
  BY StepKeeps
<1>2. IInv => AcknowledgedPackageIsDurable
  BY DEF IInv
<1> QED
  BY InitKeeps, <1>1, <1>2, PTL DEF Spec

(* What a step does to the package, on the disk and in sight.              *)
LEMMA PackageMoves ==
  ASSUME IInv, Next
  PROVE  /\ \/ committed' = committed
            \/ committed = None
            \/ committed' = durable.package
         /\ durable'.package \in {durable.package, committed}
<1>1. ASSUME NEW w \in Writers, Stage(w) \/ Crash(w)
      PROVE  UNCHANGED <<committed, durable>>
  BY <1>1 DEF Stage, Crash, disk
<1>2. ASSUME NEW w \in Writers, WriterStep(w)
      PROVE  /\ committed' = committed \/ committed = None
             /\ durable'.package \in {durable.package, committed}
  BY <1>2 DEF WriterStep, Proceed, AcquireLock, LockRemains, LockFails, ClearLock,
     InspectDestination, CleanStage, Rename, RenameUnanswered, RenameRefused, Reconcile,
     SyncRoot, Confirm, StepFails, ReleaseLock, ReleaseFails, SyncRelease, Return,
     Reinspect, disk
<1>3. CASE PowerLoss
  BY <1>3 DEF PowerLoss
<1> QED
  BY <1>1, <1>2, <1>3 DEF Next

(* A published package is never replaced, a durable one never lost.        *)
THEOREM PackagesAreNeverReplaced == Spec => NeverReplaced
<1> DEFINE Kept == /\ durable.package # None => durable'.package = durable.package
                   /\ committed # None => committed' \in {committed, None}
<1>1. ASSUME IInv, Next PROVE Kept
  <2>1. durable.package \in {None, committed}
    BY <1>1 DEF IInv, DurableIsVisible
  <2>2. durable.package # None => durable'.package = durable.package
    BY <1>1, <2>1, PackageMoves
  <2>3. committed # None => committed' \in {committed, None}
    BY <1>1, <2>1, PackageMoves
  <2> QED
    BY <2>2, <2>3
<1>2. IInv /\ [Next]_vars => [Kept]_vars
  BY <1>1
<1>3. IInv /\ [Next]_vars => IInv'
  BY StepKeeps
<1> QED
  BY InitKeeps, <1>2, <1>3, PTL DEF Spec, NeverReplaced

(* The durable entry of a receipt is a write-once register whose answers   *)
(* are final.                                                              *)
THEOREM StoreImplementsWriteOnce == Spec => ImplementsWriteOnce
<1>1. Init => Store!RegisterInit
  BY DEF Init, Store!RegisterInit
<1>2. ASSUME IInv, Next
      PROVE  Store!RegisterNext \/ UNCHANGED Store!registerVars
  <2>1. TypeOK /\ durable.package \in {None, committed}
    BY <1>2 DEF IInv, DurableIsVisible
  <2>2. durable'.package # durable.package
          => /\ durable.package = None
             /\ durable'.package \in Digests
    BY <1>2, <2>1, PackageMoves DEF TypeOK
  <2>3. ASSUME acknowledged' # acknowledged
        PROVE  /\ UNCHANGED durable
               /\ \E d \in Digests : /\ durable.package = d
                                    /\ acknowledged' = acknowledged \cup {d}
    <3>1. PICK w \in Writers : Return(w)
      BY <1>2, <2>3 DEF Next, WriterStep, Proceed, AcquireLock, LockRemains, LockFails, ClearLock,
         InspectDestination, CleanStage, Rename, RenameUnanswered, RenameRefused, Reconcile,
         SyncRoot, Confirm, StepFails, ReleaseLock, ReleaseFails, SyncRelease,
         Reinspect, Stage, Crash, PowerLoss, disk, books
    <3>2. writer[w].outcome \in Answers
          /\ acknowledged' = acknowledged \cup {writer[w].digest}
      BY <2>3, <3>1 DEF Return
    <3>3. writer[w].digest \in Digests /\ durable.package = writer[w].digest
      BY <1>2, <2>1, <3>1, <3>2 DEF IInv, WritersAreRight, Assured, Return, TypeOK, Stands
    <3> QED
      BY <3>1, <3>2, <3>3 DEF Return, disk
  <2> QED
    BY <2>2, <2>3
    DEF Store!RegisterNext, Store!Publish, Store!ConfirmPublished, Store!registerVars
<1>3. UNCHANGED vars => UNCHANGED Store!registerVars
  BY DEF vars, disk, books, Store!registerVars
<1>4. IInv /\ [Next]_vars => [Store!RegisterNext]_Store!registerVars
  BY <1>2, <1>3
<1>5. IInv /\ [Next]_vars => IInv'
  BY StepKeeps
<1> QED
  BY InitKeeps, <1>1, <1>4, <1>5, PTL DEF Spec, ImplementsWriteOnce, Store!RegisterSpec
=============================================================================
