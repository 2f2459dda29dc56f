---------------------------- MODULE MCDohResolve ----------------------------
(* Small instance of DohResolve. *)
EXTENDS DohResolve

MCTimeouts == {-1, 3, 9}
=============================================================================
