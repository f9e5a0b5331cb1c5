---------------------------- MODULE MCPackageBuild ----------------------------
(***************************************************************************)
(* Model values for PackageBuild. Requests are interchangeable.            *)
(***************************************************************************)
EXTENDS PackageBuild

Symmetric == Permutations(Requests)
===============================================================================
