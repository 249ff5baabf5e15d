----------------------------- MODULE UpgradeMC -----------------------------
(***************************************************************************)
(* One upgrade task for TLC; whether the new version can start on this     *)
(* host is chosen in the initial state.                                    *)
(***************************************************************************)
EXTENDS Upgrade

OneTarget == [t \in Tasks |-> "new"]

AllVersions == {"old", "new"}

=============================================================================
