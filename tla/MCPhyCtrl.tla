------------------------------- MODULE MCPhyCtrl -------------------------------
(* Model values for PhyCtrl: the parameters users give.                    *)
EXTENDS PhyCtrl

\* Of one channel or all, with and without force, once or repeatedly.
AllScans == ScanParams
AllReceptions == RxParams
================================================================================
