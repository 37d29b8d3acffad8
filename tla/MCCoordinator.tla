--------------------------- MODULE MCCoordinator ---------------------------
(* Instances of Coordinator for TLC.  Workers are interchangeable; peers    *)
(* are not, they differ in what they have and answer.                       *)
EXTENDS Coordinator, TLC

CONSTANTS w1, w2, w3, pA, pB

Symmetry == Permutations(Workers)

(* The peers' pieces and answers of the runs.                               *)
HasAll == [p \in Peers |-> Pieces]
LacksLast == [p \in Peers |-> IF p = pB THEN Pieces \ {PieceCount - 1} ELSE Pieces]
AnswersBroken == [p \in Peers |-> {"good", "broken"}]
OneLiar == [p \in Peers |-> IF p = pB THEN {"good", "corrupt"} ELSE {"good", "broken"}]
OnlyLies == [p \in Peers |-> {"corrupt"}]
Refusing == [p \in Peers |-> IF p = pB THEN {"transient", "permanent", "other"} ELSE {"good"}]
OnlyBroken == [p \in Peers |-> {"broken"}]
Refuses == [p \in Peers |-> {"transient", "permanent"}]
=============================================================================
