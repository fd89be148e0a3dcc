-------------------------- MODULE MCApplicabilityRule --------------------------
(* The rules of ApplicabilityGrammar, evaluated and recorded, for TLC. *)
EXTENDS ApplicabilityGrammar

VARIABLES rule, changeset, result, row

Rule == INSTANCE ApplicabilityRule

Spec == Rule!Spec

\* A result of the evaluation is a row the schema accepts: a rule that is saved
\* can always be recorded.
EvidenceIsAccepted == Rule!EvidenceIsAccepted

\* Content that cannot be looked at never decides.  The code does not keep it.
UnknownsDecideNothing == Rule!UnknownsDecideNothing
=============================================================================
