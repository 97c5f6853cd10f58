----------------------------- MODULE FastWords -----------------------------
(***************************************************************************)
(* FastWords, the typing game: prog/FastWords/src/game.cpp and words.h.    *)
(*                                                                         *)
(* run waits for an SDL event, handles it, and then updates the clock: no  *)
(* time is charged while no event comes, and what has passed by then is    *)
(* charged after the event, to the word that is there afterwards.          *)
(*                                                                         *)
(* A typed text is its length and the length of what is right in it, up to *)
(* the first wrong letter.  Left out: sound, drawing, feedback.            *)
(***************************************************************************)
EXTENDS Integers, Sequences, FiniteSets

CONSTANTS
  WORD_COUNT,   (* 100.                                                      *)
  Length,       (* Letters of each word.                                     *)
  Seconds,      (* Its time_sec, at least 4 and at most 10.                  *)
  MAX_INPUT,    (* 60.                                                       *)
  MaxWait       (* The longest wait for an event (a bound).                  *)

Words == 1..WORD_COUNT
Orders == {p \in [Words -> Words] : \A i, j \in Words : p[i] = p[j] => i = j}

ASSUME FastWordsAssumption ==
  /\ WORD_COUNT \in Nat \ {0}
  /\ Length \in [Words -> Nat \ {0}]
  /\ Seconds \in [Words -> Nat \ {0}]
  /\ MAX_INPUT \in Nat /\ MaxWait \in Nat

VARIABLES
  game,         (* The members of FastWords and of its WordPicker.           *)
  elapsed,      (* Time since last_tick.                                     *)
  quitting,     (* SDL_QUIT is on the queue.                                 *)
  open          (* The window is there.                                      *)

gameVars == <<game, elapsed, quitting, open>>

(***************************************************************************)
(* Words                                                                   *)
(***************************************************************************)
Word(g) == g.order[g.pos]

Shown(g) ==
  [g EXCEPT !.time_left = Seconds[Word(g)], !.len = 0, !.good = 0,
            !.round = @ + 1, !.total_words = @ + 1]

(* next_word: the words in their order, shuffled when all have been shown. *)
NextWord(g) ==
  IF g.pos < WORD_COUNT THEN {Shown([g EXCEPT !.pos = @ + 1])}
  ELSE {Shown([g EXCEPT !.order = p, !.pos = 1]) : p \in Orders}

(***************************************************************************)
(* Answers and time                                                        *)
(***************************************************************************)
Scored(g) ==
  [g EXCEPT !.score = @ + g.time_left * 10 + Length[Word(g)] * 5,
            !.streak = @ + 1, !.words_correct = @ + 1]

Lost(g) ==
  [g EXCEPT !.lives = @ - 1, !.streak = 0, !.words_wrong = @ + 1]

(* The best score is that of a game that ended by itself.                  *)
Over(g) ==
  [g EXCEPT !.game_over = TRUE,
            !.best_score = IF g.score > @ THEN g.score ELSE @]

AfterAnswer(g) == IF g.lives <= 0 THEN {Over(g)} ELSE NextWord(g)

Right(g) == g.len = g.good /\ g.len = Length[Word(g)]

(* The word's time does not matter here, only in update.                   *)
Submitted(g) ==
  IF g.len = 0 THEN {g}
  ELSE AfterAnswer(IF Right(g) THEN Scored(g) ELSE Lost(g))

(* Faulty variant: the count of words goes on from the game before.        *)
RestartedHalf(g) ==
  NextWord([g EXCEPT !.game_over = FALSE, !.lives = 3, !.score = 0, !.streak = 0,
                     !.round = 0, !.words_correct = 0, !.words_wrong = 0])

Restarted(g) ==
  NextWord([g EXCEPT !.game_over = FALSE, !.lives = 3, !.score = 0, !.streak = 0,
                     !.round = 0, !.words_correct = 0, !.words_wrong = 0,
                     !.total_words = 0])

(* Faulty variant: a word is lost only after its time.                     *)
UpdatedLate(g, dt) ==
  IF g.game_over THEN {g}
  ELSE LET h == [g EXCEPT !.time_left = @ - dt]
       IN  IF h.time_left < 0 THEN AfterAnswer(Lost(h)) ELSE {h}

(* update; last_tick is set again, or will be at the next game's start.    *)
Updated(g, dt) ==
  IF g.game_over THEN {g}
  ELSE LET h == [g EXCEPT !.time_left = @ - dt]
       IN  IF h.time_left <= 0 THEN AfterAnswer(Lost(h)) ELSE {h}

(***************************************************************************)
(* The loop                                                                *)
(***************************************************************************)
GameInit ==
  /\ game \in NextWord([score |-> 0, lives |-> 3, streak |-> 0, best_score |-> 0,
                        round |-> 0, game_over |-> FALSE, words_correct |-> 0,
                        words_wrong |-> 0, total_words |-> 0, time_left |-> 0,
                        len |-> 0, good |-> 0, order |-> [i \in Words |-> i], pos |-> 0])
  /\ elapsed = 0 /\ quitting = FALSE /\ open = TRUE

Wait ==
  /\ open /\ elapsed < MaxWait
  /\ elapsed' = elapsed + 1
  /\ UNCHANGED <<game, quitting, open>>

(* handle_event made one of gs of the game; update follows.  A new game    *)
(* starts with a fresh last_tick.                                          *)
Handled(gs) ==
  /\ open /\ UNCHANGED open
  /\ \E g \in gs : game' \in Updated(g, IF game.game_over THEN 0 ELSE elapsed)
  /\ elapsed' = 0

(* Letters past the sixtieth are not taken.                                *)
TypeLetter ==
  /\ Handled(IF game.game_over \/ game.len >= MAX_INPUT THEN {game}
             ELSE LET typed == [game EXCEPT !.len = @ + 1]
                  IN  {typed} \cup
                        (IF game.len = game.good /\ game.good < Length[Word(game)]
                         THEN {[typed EXCEPT !.good = @ + 1]} ELSE {}))
  /\ UNCHANGED quitting

Backspace ==
  /\ Handled(IF game.game_over \/ game.len = 0 THEN {game}
             ELSE {[game EXCEPT !.len = @ - 1,
                                !.good = IF @ = game.len THEN @ - 1 ELSE @]})
  /\ UNCHANGED quitting

Return ==
  /\ Handled(IF game.game_over THEN Restarted(game) ELSE Submitted(game))
  /\ UNCHANGED quitting

(* The keypad's Enter answers, but starts no game; Space starts one.       *)
KeypadEnter ==
  /\ Handled(IF game.game_over THEN {game} ELSE Submitted(game))
  /\ UNCHANGED quitting

Space ==
  /\ Handled(IF game.game_over THEN Restarted(game) ELSE {game})
  /\ UNCHANGED quitting

(* Escape pushes SDL_QUIT behind what is on the queue, but not when the    *)
(* game is over.                                                           *)
EscapeKey ==
  /\ Handled({game})
  /\ quitting' = (quitting \/ ~game.game_over)

(* Another key, a release, a motion of the mouse.                          *)
OtherEvent == Handled({game}) /\ UNCHANGED quitting

(* SDL_QUIT, pushed or from the window's border.                           *)
Quit ==
  /\ open /\ open' = FALSE
  /\ UNCHANGED <<game, elapsed, quitting>>

GameNext == \/ TypeLetter \/ Backspace \/ Return \/ KeypadEnter \/ Space
        \/ EscapeKey \/ OtherEvent \/ Quit \/ Wait

GameSpec == GameInit /\ [][GameNext]_gameVars

(***************************************************************************)
(* Properties                                                              *)
(***************************************************************************)

(* What the last page shows adds up, in this game and the next: every word *)
(* shown was answered right, lost, or is there; every loss cost one life,  *)
(* whether Return or the clock caused it or both at the same event; and    *)
(* the game is over exactly when no life is left.                          *)
Tally ==
  /\ game.lives + game.words_wrong = 3
  /\ game.game_over <=> game.lives = 0
  /\ game.round = game.total_words
  /\ game.total_words = game.words_correct + game.words_wrong
                        + (IF game.game_over THEN 0 ELSE 1)
  /\ game.streak <= game.words_correct

(* A word that waits for an answer has time left, and no more than it was  *)
(* shown with, so that no bonus is negative; what is typed fits.           *)
WordAlive ==
  /\ ~game.game_over => game.time_left \in 1..Seconds[Word(game)]
  /\ game.good <= game.len /\ game.len <= MAX_INPUT
  /\ game.good <= Length[Word(game)]
=============================================================================
