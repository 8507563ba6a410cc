---------------------------- MODULE MCNetSource ----------------------------
(***************************************************************************)
(* Short packets for NetSource: bytes have three values, so that lengths   *)
(* from 9 on need all three bytes of one.                                  *)
(***************************************************************************)
EXTENDS NetSource

MCBodies == {[marker |-> "ok",  left |-> 2], [marker |-> "ok",  left |-> 9],
             [marker |-> "err", left |-> 3],
             [marker |-> "eof", left |-> 0], [marker |-> "eof", left |-> 4]}
=============================================================================
