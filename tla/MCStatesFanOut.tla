---------------------------- MODULE MCStatesFanOut --------------------------
(* Small instances of SimStatesFanOut.                                       *)
EXTENDS SimStatesFanOut

OneAtATimeOrMore == 1 .. Count
=============================================================================
