----------------------------- MODULE MCDatabase ------------------------------
(***************************************************************************)
(* ManagedDatabase alone, for the run whose property the code violates.    *)
(***************************************************************************)
EXTENDS ManagedDatabase

Engine(e, v) == [engine |-> e, version |-> v]
Databases == {Engine("postgresql", "16"), Engine("postgresql", "17"), Engine("mariadb", "11")}
==============================================================================
