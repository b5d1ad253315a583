---------------------------- MODULE MCSupervisor ----------------------------
(***************************************************************************)
(* Small instances of Supervisor for TLC.                                  *)
(***************************************************************************)
EXTENDS Supervisor, TLC

CONSTANTS entry, svc, p1, p2, p3

JustEntry   == {entry}
EntryAndSvc == {entry, svc}
TwoPids     == {p1, p2}
ThreePids   == {p1, p2, p3}

AllPolicies == {"always", "on-failure", "no"}
OnFailure   == {"on-failure"}
OnlyAlways  == {"always"}

PidSymmetry == Permutations(Pids)
=============================================================================
