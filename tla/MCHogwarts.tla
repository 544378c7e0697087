----------------------------- MODULE MCHogwarts -----------------------------
(* Small instances of Hogwarts: four elves, batches of three. *)
EXTENDS Hogwarts

MCTotals == -1..7

=============================================================================
