---------------------------- MODULE MCFastWords ----------------------------
(* An instance of FastWords with two words, of one and of two letters, the *)
(* longest wait longer than the time of either, and texts one letter       *)
(* longer than the longest word.                                           *)
EXTENDS FastWords

CONSTANT MaxWords

OneAndTwo == [w \in Words |-> w]
TwoAndThree == [w \in Words |-> w + 1]

(* A few words in each game, and scores of one game or two.                *)
Bounded ==
  /\ game.total_words <= MaxWords
  /\ game.best_score <= 60
=============================================================================
