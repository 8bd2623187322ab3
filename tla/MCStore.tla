------------------------------ MODULE MCStore ------------------------------
(* Model checking of Store; the .cfg files choose the program.             *)
EXTENDS Store
=============================================================================
