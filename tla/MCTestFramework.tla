-------------------------- MODULE MCTestFramework --------------------------
(***************************************************************************)
(* Two tests: the second one's crash must not be taken for the first's.    *)
(***************************************************************************)
EXTENDS TestFramework

MCRegistered == <<"wide", "deep">>
MCFilters == {{}, {"deep"}, {"wide", "deep"}}
=============================================================================
