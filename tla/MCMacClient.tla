------------------------------ MODULE MCMacClient ------------------------------
(* Small instances of the MAC client for TLC.                              *)
EXTENDS MacClient, TLC

CONSTANTS ft1, ft2

================================================================================
