---------------------------- MODULE MCSyncModObj ----------------------------
(* Instances of SyncModObj for TLC.                                         *)
EXTENDS SyncModObj, TLC

CONSTANTS p1, p2, o1, o2, o3, s1

=============================================================================
