-------------------------- MODULE MCBenchCampaign --------------------------
(* Two warm-ups, two measured attempts and one reset; rows are cut where nothing, a legacy
   row of 13 columns or one of 17 columns is left. *)
EXTENDS BenchCampaign
=============================================================================
