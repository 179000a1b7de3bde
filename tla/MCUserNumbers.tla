--------------------------- MODULE MCUserNumbers ---------------------------
(* A small instance of UserNumbers for TLC, without symmetry: CallsReturn is *)
(* a liveness property.                                                      *)
EXTENDS UserNumbers

\* Two days of one flag.
MCKey == {[flag |-> 1, day |-> <<2, 6, 0, 2, 0, 3>>],
          [flag |-> 1, day |-> <<2, 6, 0, 2, 0, 4>>]}

\* The bytes that belong to the secret in New, and others that rotate.
MCSecret ==
  {[seed |-> <<127, 255, 138, 55, 75, 53, 35, 246, 103>>, rot |-> 150],
   [seed |-> <<0, 255, 8, 6, 240, 9, 1, 30, 2>>, rot |-> 255]}

MCRandom == {<<9, 0, 7>>, <<9, 5, 7>>}
=============================================================================
