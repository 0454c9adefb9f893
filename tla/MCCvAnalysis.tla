---------------------------- MODULE MCCvAnalysis ----------------------------
(* The instance of CvAnalysis for TLC.  Its runs check liveness, so they   *)
(* use no symmetry.                                                        *)
EXTENDS CvAnalysis
=============================================================================
