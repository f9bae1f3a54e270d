----------------------------- MODULE MCLaunchers -----------------------------
(* The timetable and the limits of production, in hours, with two things that  *)
(* go wrong.                                                                   *)
EXTENDS Launchers
=============================================================================
