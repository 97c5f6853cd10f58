----------------------------- MODULE MCDesktop -----------------------------
(* The framebuffer desktop on a 1024x768 display.  The windows' title bars *)
(* lie as in MCShell: x = 150 is on the maximize button of Terminal and    *)
(* the close button of System Info, x = 165 on the bars, x = 45 in the     *)
(* column of the icons and on the maximize button of a window at the left  *)
(* edge; y = 87 is the title bar of Terminal, y = 420 the COPY button and  *)
(* an icon, and a motion by 500 up from either leaves the display.         *)
EXTENDS Desktop, FiniteSets

Up500 == {-250}

(* Bound: the desktop departs from its first state in at most this many    *)
(* ways at once.                                                           *)
CONSTANT MaxDepartures

One(b) == IF b THEN 1 ELSE 0
Away(w) == One(w.hidden \/ w.maximized \/ w.drag \/ w.ws # 0
                 \/ w.x % 40 # 20 \/ w.y % 30 # 10)
FirstOrder == <<"Terminal", "SysInfo", "Handbook", "Guide">>
FirstOrders == {FirstOrder, Append(FirstOrder, "VSCodium")}
Departures ==
  FoldSeq(LAMBDA w, n : Away(w) + n, 0, wins)
    + One(TitlesOf(wins) \notin FirstOrders) + One(selecting)
    + One(selected_text # "none") + One(super_pressed) + One(~running)
    + One(vscodium_installed) + One(current_ws # 0) + One(guide_page # 0)
    + term_len + installing
Bounded == Departures <= MaxDepartures
=============================================================================
