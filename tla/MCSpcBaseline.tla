---------------------------- MODULE MCSpcBaseline ----------------------------
(* Forms of the database and symmetry for SpcBaseline. *)
EXTENDS SpcBaseline, TLC

\* New, of the first release, and of the last release before the baselines.
MCOldForms == {{}, {"triage_events"}, EventObjects}

MCSymmetry == Permutations(Sids)
=============================================================================
