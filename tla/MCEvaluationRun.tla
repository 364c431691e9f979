-------------------------- MODULE MCEvaluationRun --------------------------
(* Instances of EvaluationRun for TLC: one sample's user overrides the     *)
(* intent, the others' users do not.                                       *)
EXTENDS EvaluationRun

CONSTANTS s1, s2, s3

TwoSamples == {s1, s2}
ThreeSamples == {s1, s2, s3}
Overriding == {s1}
=============================================================================
