-------------------------- MODULE MCDriverShutdown --------------------------
(* Instances of DriverShutdown in which each target has its own volume.    *)
EXTENDS DriverShutdown

OwnVolume == [t \in Targets |-> t]
=============================================================================
