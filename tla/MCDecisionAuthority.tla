------------------------- MODULE MCDecisionAuthority -------------------------
(* The instance of the decision authority that TLC checks: the values of   *)
(* its constants are in MCDecisionAuthority.cfg and MCReopen.cfg.          *)
EXTENDS AuthorityReopen
=============================================================================
