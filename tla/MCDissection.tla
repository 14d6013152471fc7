---------------------------- MODULE MCDissection ----------------------------
(* Model values for Dissection.  A TCP frame with a server name of 1 byte  *)
(* and nothing else has 113 bytes, its nested structures 54, 50, 10, 6 and *)
(* 4; with an empty extension in front 4 more.  The other numbers are for  *)
(* empty and short fields, and for what does not fit.                      *)
EXTENDS Dissection

MCNumber == {0, 1, 2, 4, 5, 6, 7, 10, 14, 34, 50, 54, 58, 113, 117}

=============================================================================
