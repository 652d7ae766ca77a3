---------------------------- MODULE BoundedEpisode ----------------------------
(***************************************************************************)
(* What a bounded-agent episode promises the human who authorized it,      *)
(* without saying how: at most two legs, each signed at most once, the     *)
(* second only after the first has settled, and a revocation that stops    *)
(* everything that has not started.                                        *)
(***************************************************************************)
EXTENDS Naturals

VARIABLES
  leg,       \* the phase of each leg
  revoked    \* whether the human's revocation is recorded

episodeVars == <<leg, revoked>>

EpisodeLegs == {1, 2}
Phases == {"idle", "refused", "reserved", "signing", "signed", "released", "settled"}

EpisodeInit == leg = [i \in EpisodeLegs |-> "idle"] /\ revoked = FALSE

Move(i, from, to) == leg[i] = from /\ leg' = [leg EXCEPT ![i] = to] /\ UNCHANGED revoked

Reserve(i) ==
  /\ ~revoked
  /\ i = 2 => leg[1] = "settled"
  /\ Move(i, "idle", "reserved") \/ Move(i, "idle", "refused")

StartSigning(i) == ~revoked /\ Move(i, "reserved", "signing")

(* A key load that began before the revocation may still end in a signature. *)
KeepSigned(i) == Move(i, "signing", "signed")

Release(i) == ~revoked /\ Move(i, "signed", "released")

SettleLeg(i) == Move(i, "released", "settled")

(* There is nothing left to revoke once a decision was refused or the      *)
(* disposal has settled.                                                   *)
RevokeEpisode ==
  /\ ~revoked
  /\ \A i \in EpisodeLegs : leg[i] # "refused"
  /\ leg[2] # "settled"
  /\ revoked' = TRUE
  /\ UNCHANGED leg

EpisodeNext ==
  \/ RevokeEpisode
  \/ \E i \in EpisodeLegs :
       Reserve(i) \/ StartSigning(i) \/ KeepSigned(i) \/ Release(i) \/ SettleLeg(i)

EpisodeSpec == EpisodeInit /\ [][EpisodeNext]_episodeVars
=============================================================================
