----------------------------- MODULE MCStateDir -----------------------------
(* Instances of StateDir for TLC.                                          *)
EXTENDS StateDir

CONSTANTS m1, m2

AllStores == <<"contacts", "channels", "messages">>
=============================================================================
