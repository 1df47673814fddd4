-------------------------------- MODULE MCMigrate --------------------------------
(* Instances of Migrate for TLC. *)
EXTENDS Migrate

CONSTANTS r1, r2
MCRunners == {r1, r2}
ThreeVersions == 1 .. 3
TwoVersions == 1 .. 2
MCNoTx == {2}
MCHasDown == {2, 3}
MCSteps == {1, 3}
OneStep == {1}
UpDown == {"up", "down"}
UpOnly == {"up"}
(* Two processes with a pool each, or two goroutines sharing one.            *)
OwnPool == [r \in MCRunners |-> r]
SharedPool == [r \in MCRunners |-> "db"]
=============================================================================
