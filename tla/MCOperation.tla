----------------------------- MODULE MCOperation -----------------------------
(* Poll configurations for Operation, in the proportions of PollConfig's       *)
(* quick, default and slow: a first interval, a cap some doublings away and a  *)
(* deadline several caps away, not all of them multiples of one another.       *)
EXTENDS Operation

Small == { [initial |-> 1, max |-> 8, deadline |-> 20],
           [initial |-> 1, max |-> 3, deadline |-> 7],
           [initial |-> 2, max |-> 5, deadline |-> 11] }

=============================================================================
