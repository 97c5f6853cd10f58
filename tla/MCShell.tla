------------------------------ MODULE MCShell ------------------------------
(* Instances of Shell on the 1024x768 display compositor_init falls back   *)
(* to.  The configurations choose the pointer positions from the layout of *)
(* shell_init: the title bars of Terminal, System Info and Handbook lie at *)
(* y = 76..100, 106..130 and 136..160, x = 150 is on the maximize button   *)
(* of the first and the close button of the second, x = 400 on the bars;   *)
(* y = 41 is the title bar of a maximized window, x = 45 its maximize      *)
(* button, <<400, 420>> the COPY button, <<40, 480>> the sixth icon,       *)
(* <<520, 740>> the dock's VSCodium, <<520, 480>> the Guide's Next button. *)
EXTENDS Shell

(* Relative motion from the dock's VSCodium to the column of the icons.    *)
Left240 == {-240}
=============================================================================
