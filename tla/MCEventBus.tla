----------------------------- MODULE MCEventBus -----------------------------
(* EventBus on a small instance.  The streams are interchangeable, but       *)
(* Delivered and Released are temporal properties, which TLC may not check   *)
(* under a symmetry.                                                         *)
EXTENDS EventBus

MCStreams == {"s1", "s2"}
=============================================================================
