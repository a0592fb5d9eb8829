---------------------------- MODULE MCEvaluation ----------------------------
\* Evaluation for TLC: two launches on a head and two workers, and benchmarks of
\* two questions by two threads (MCEvaluation.cfg).
EXTENDS Evaluation
=============================================================================
