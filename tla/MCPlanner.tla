------------------------------ MODULE MCPlanner ------------------------------
(* Planner on every set of up to three detections of two entity types, and on *)
(* some that no leaf can hold.                                                *)
EXTENDS Planner, TLC

CONSTANTS x, y

MCEntities == {x, y}

MCMatches == {m \in [entity : MCEntities, start : 0..TextLength, end : 0..TextLength] :
                  m.start < m.end}

MCInvalid == {[entity |-> x, start |-> 1, end |-> 1],
              [entity |-> x, start |-> 0, end |-> TextLength + 1],
              [entity |-> x, start |-> -1, end |-> 1]}

MCInputs == {{}} \union {{a, b, c} : a, b, c \in MCMatches} \union {{m} : m \in MCInvalid}

MCSymmetry == Permutations(MCEntities)

=============================================================================
