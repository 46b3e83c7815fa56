------------------------- MODULE MCRedemptionLease -------------------------
(* Small instances of RedemptionLease.                                       *)
EXTENDS RedemptionLease

(* Everything works, or everything may fail. *)
NoneOrAll == {{}, {"open", "flock", "start"}}
=============================================================================
