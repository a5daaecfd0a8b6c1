------------------------------ MODULE MCServices ------------------------------
(***************************************************************************)
(* Services with small values: two users, jobs, twins ... that TLC may     *)
(* exchange, and the functions and tuples that a configuration file cannot *)
(* write.                                                                  *)
(***************************************************************************)
EXTENDS Services, TLC

MCKinds == {"marker", "other"} \X BOOLEAN

MCBelow == [d \in {"d"} |-> {"s"}]
MCTree == [s \in {"s"} |-> {"SKILL.md", "f"}]
MCMarker == [s \in {"s"} |-> "SKILL.md"]

MCCapabilities == {{"managed_copy"}, {"directory_junction", "managed_copy"}, {"symbolic_link"}}

Symmetry == Permutations(Users) \union Permutations(Jobs)

=============================================================================
