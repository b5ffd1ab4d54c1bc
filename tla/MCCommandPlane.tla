--------------------------- MODULE MCCommandPlane ---------------------------
(* Commands for TLC: one that is fresh at once, and the same key with another body, which *)
(* is fresh only after it.                                                                *)
EXTENDS CommandPlane

MCCommands == {[key |-> "k", revision |-> 0], [key |-> "k", revision |-> 1], [key |-> "l", revision |-> 1]}

(* Session identifiers are interchangeable; no temporal property is checked. *)
MCSymmetry == Permutations(Sessions)

=============================================================================
