--------------------------- MODULE MCJsonListStore ----------------------------
(***************************************************************************)
(* Model values for JsonListStore.  Commands are interchangeable, and so   *)
(* are inodes; keys are not, two of them differ only in case.              *)
(***************************************************************************)
EXTENDS JsonListStore, TLC

Symmetric == Permutations(Editors) \cup Permutations(Inodes)
===============================================================================
