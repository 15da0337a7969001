------------------------------ MODULE MCKills ------------------------------
(* The instance that TLC checks: two builds or one update; see Kills.cfg.  *)
EXTENDS Kills
=============================================================================
