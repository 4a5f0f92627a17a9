------------------------------- MODULE MCMark -------------------------------
(* Two sessions of one user, and the session of another user's schedule: it is neither seen by them nor *)
(* sees them. *)
EXTENDS VVMark

CONSTANTS u1, u2, job

AllSessions == {u1, u2, job}
SameUser == {<<u1, u2>>, <<u2, u1>>}
=============================================================================
