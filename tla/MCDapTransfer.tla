---------------------------- MODULE MCDapTransfer ----------------------------
(* Commands of up to three requests, one retry and one match retry.         *)
EXTENDS DapTransfer

=============================================================================
