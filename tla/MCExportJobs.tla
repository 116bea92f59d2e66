---------------------------- MODULE MCExportJobs ----------------------------
(* Small instances of ExportJobs for TLC. *)
EXTENDS ExportJobs

TwoJobs == {1, 2}
ThreeJobs == {1, 2, 3}
NoJobs == {}
ThirdJob == {3}
OnePart == [j \in Jobs |-> 1]
TwoParts == [j \in Jobs |-> 2]
=============================================================================
