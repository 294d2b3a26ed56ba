------------------------ MODULE MCDashboardSystem ------------------------
(* Instantiation of DashboardSystem for TLC.                               *)
EXTENDS DashboardSystem

MCIds == {"m1", "m2"}
MCVals == {"a", "b"}
MCStats == {"zeros"}
=============================================================================
