----------------------------- MODULE MCAllocator -----------------------------
(* Values for the constants of Allocator: ten units a period, a resync after *)
(* nine to eleven of them.                                                   *)
EXTENDS Allocator

JitteredPeriods == 9..11
CreateDeleteFail == {[k \in {"create", "delete", "fault"} |-> 1]}
=============================================================================
