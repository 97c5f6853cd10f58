--------------------------- MODULE DesktopProofs ---------------------------
(***************************************************************************)
(* Theorems about Desktop.  It makes its windows with Shell's operators,   *)
(* so the lemmas of ShellProofs about those serve here.  They are about    *)
(* single windows and do not mention the positions absolute events report, *)
(* which for Shell lie on the display and for Desktop anywhere.            *)
(***************************************************************************)
EXTENDS Desktop, WellFoundedInduction, TLAPS

P == INSTANCE ShellProofs WITH AbsX <- {}, AbsY <- {}

(* What those lemmas assume of the constants.                              *)
LEMMA Display ==
  P!DisplayAssumption /\ P!InputAssumption /\ P!CountAssumption
BY DesktopAssumption DEF P!DisplayAssumption, P!InputAssumption, P!CountAssumption

(* Min and Max, which Desktop takes of a set of indices, are in the set.   *)
LEMMA Smallest ==
  ASSUME NEW T, T \subseteq Nat, T # {}
  PROVE  \E x \in T : \A y \in T : x <= y
<1>1. PICK x \in T : \A y \in T : ~(<<y, x>> \in OpToRel(<, Nat))
  BY NatLessThanWellFounded, WFMin
<1>2. ASSUME NEW y \in T PROVE x <= y
  <2>1. x \in Nat /\ y \in Nat /\ ~(y < x)
    BY <1>1 DEF OpToRel
  <2>2. QED
    BY ONLY <2>1
<1>3. QED
  BY <1>1, <1>2

LEMMA Largest ==
  ASSUME NEW n \in Nat, NEW T, T \subseteq 1..n, T # {}
  PROVE  \E x \in T : \A y \in T : x >= y
<1> DEFINE U == {n - y : y \in T}
<1>1. U \subseteq Nat /\ U # {}
  <2>1. \A y \in T : y \in 1..n /\ n - y \in Nat
    OBVIOUS
  <2>2. QED
    BY <2>1
<1> HIDE DEF U
<1>2. PICK u \in U : \A v \in U : u <= v
  BY <1>1, Smallest
<1>3. PICK x \in T : u = n - x
  BY <1>2 DEF U
<1>4. \A y \in T : n - x <= n - y
  BY <1>2, <1>3 DEF U
<1>5. QED
  BY <1>4

(* What the memmove of a raise leaves at each place.                       *)
LEMMA Raised ==
  ASSUME NEW T, NEW s \in Seq(T), NEW j \in DOMAIN s, NEW x \in T
  PROVE  LET r == Append(RemoveAt(s, j), x) IN
         /\ r \in Seq(T)
         /\ DOMAIN r = DOMAIN s
         /\ \A i \in DOMAIN s : r[i] = IF i < j THEN s[i] ELSE IF i < Len(s) THEN s[i + 1] ELSE x
<1> DEFINE a == SubSeq(s, 1, j - 1)
           b == SubSeq(s, j + 1, Len(s))
<1>1. j \in 1..Len(s) /\ Len(s) \in Nat
  OBVIOUS
<1>2. /\ a \in Seq(T) /\ Len(a) = j - 1
      /\ \A i \in 1..(j - 1) : a[i] = s[i]
  BY <1>1
<1>3. /\ b \in Seq(T) /\ Len(b) = Len(s) - j
      /\ \A i \in 1..(Len(s) - j) : b[i] = s[j + i]
  BY <1>1
<1> HIDE DEF a, b
<1>4. /\ a \o b \in Seq(T) /\ Len(a \o b) = Len(s) - 1
      /\ \A i \in 1..(Len(s) - 1) : (a \o b)[i] = IF i < j THEN s[i] ELSE s[i + 1]
  <2>1. a \o b \in Seq(T) /\ Len(a \o b) = Len(s) - 1
    BY <1>1, <1>2, <1>3
  <2>2. ASSUME NEW i \in 1..(Len(s) - 1)
        PROVE  (a \o b)[i] = IF i < j THEN s[i] ELSE s[i + 1]
    <3>1. CASE i < j
      BY <1>1, <1>2, <1>3, <3>1
    <3>2. CASE ~(i < j)
      <4>1. (a \o b)[i] = b[i - (j - 1)]
        BY <1>1, <1>2, <1>3, <3>2
      <4>2. i - (j - 1) \in 1..(Len(s) - j) /\ j + (i - (j - 1)) = i + 1
        BY <1>1, <3>2
      <4>3. QED
        BY <1>3, <3>2, <4>1, <4>2
    <3>3. QED
      BY <3>1, <3>2
  <2>3. QED
    BY <2>1, <2>2
<1>5. RemoveAt(s, j) = a \o b
  BY DEF RemoveAt, a, b
<1> DEFINE c == a \o b
<1>6. /\ c \in Seq(T) /\ Len(c) = Len(s) - 1
      /\ \A i \in 1..(Len(s) - 1) : c[i] = IF i < j THEN s[i] ELSE s[i + 1]
  BY <1>4
<1> HIDE DEF c
<1>7. /\ Append(c, x) \in Seq(T) /\ DOMAIN Append(c, x) = DOMAIN s
      /\ \A i \in DOMAIN s : Append(c, x)[i] = IF i < j THEN s[i] ELSE IF i < Len(s) THEN s[i + 1] ELSE x
  BY <1>1, <1>6
<1>8. RemoveAt(s, j) = c
  BY <1>5 DEF c
<1>9. QED
  BY <1>7, <1>8

(* The operators of Desktop that are Shell's.                              *)
LEMMA SameWindows ==
  /\ \A t, n, ws : NewWin(t, n, ws) = P!NewWin(t, n, ws)
  /\ \A w : /\ S!Reopened(w) = P!Reopened(w) /\ S!Dropped(w) = P!Dropped(w)
            /\ Grabbed(w) = P!Grabbed(w) /\ ToggleMaximize(w) = P!ToggleMaximize(w)
            /\ Dragged(w) = P!Dragged(w, mx, my) /\ Shown(w) = P!Shown(w)
            /\ OnHide(w) = P!OnHide(w)
<1>1. /\ S!PANEL_H = P!PANEL_H /\ S!TITLE_H = P!TITLE_H
      /\ \A t : S!Width(t) = P!Width(t) /\ S!Height(t) = P!Height(t)
      /\ \A v, b : S!AtMost(v, b) = P!AtMost(v, b) /\ S!AtLeast(v, b) = P!AtLeast(v, b)
  BY DEF S!PANEL_H, P!PANEL_H, S!TITLE_H, P!TITLE_H, S!Width, P!Width,
         S!Height, P!Height, S!AtMost, P!AtMost, S!AtLeast, P!AtLeast
<1>2. \A t, n, ws : NewWin(t, n, ws) = P!NewWin(t, n, ws)
  BY <1>1, Zenon DEF NewWin, S!NewWin, P!NewWin
<1>3. \A w : /\ S!Reopened(w) = P!Reopened(w) /\ S!Dropped(w) = P!Dropped(w)
             /\ Grabbed(w) = P!Grabbed(w) 
  BY <1>1, Zenon DEF S!Reopened, P!Reopened, S!Dropped, P!Dropped, Grabbed, S!Grabbed, P!Grabbed
<1>4. \A w : Dragged(w) = P!Dragged(w, mx, my) 
  BY <1>1, Zenon DEF Dragged, S!Dragged, P!Dragged
<1>5. \A w : ToggleMaximize(w) = P!ToggleMaximize(w)
  BY <1>1, Zenon DEF ToggleMaximize, S!ToggleMaximize, P!ToggleMaximize,
     S!Maximized, P!Maximized, S!Restored, P!Restored
<1>6. \A w : Shown(w) = P!Shown(w) /\ OnHide(w) = P!OnHide(w)
  BY <1>1, Zenon DEF Shown, S!Shown, P!Shown, OnHide, S!OnHide, P!OnHide,
    S!OnButton, P!OnButton, S!In, P!In
<1>7. QED
  BY <1>2, <1>3, <1>4, <1>5, <1>6

(* The windows and the focus, as the tests of a click hand them on.        *)
Desks == [wins : Seq(P!GoodWin), aw : Int]

(* The windows of a desk after a launcher's test: one is shown, or made.   *)
Launched(d, e, t) ==
  /\ e \in Desks /\ e.aw \in DOMAIN e.wins
  /\ e.wins[e.aw].title = t /\ P!Shown(e.wins[e.aw])
  /\ \/ /\ DOMAIN e.wins = DOMAIN d.wins
        /\ \A i \in DOMAIN d.wins : /\ e.wins[i].title = d.wins[i].title
                                    /\ e.wins[i].drag = d.wins[i].drag
                                    /\ i # e.aw => e.wins[i] = d.wins[i]
     \/ /\ \A i \in DOMAIN d.wins : d.wins[i].title # t
        /\ e.wins = Append(d.wins, P!NewWin(t, Len(d.wins) + 1, current_ws))
        /\ e.aw = Len(d.wins) + 1

(* StillGood, for a pointer that may be off the display.                   *)
LEMMA WinKept ==
  ASSUME NEW w \in P!GoodWin, mx \in Int, my \in Int, current_ws \in 0..(WORKSPACES - 1)
  PROVE  /\ P!Reopened(w) \in P!GoodWin /\ P!Reopened(w).title = w.title
         /\ P!Reopened(w).hidden = FALSE /\ P!Reopened(w).ws = current_ws
         /\ P!Reopened(w).drag = w.drag
         /\ P!Hidden(w) \in P!GoodWin
         /\ P!Dropped(w) \in P!GoodWin
         /\ P!Grabbed(w) \in P!GoodWin
<1>1. w \in P!WinType
  BY DEF P!GoodWin
<1>3. P!Reopened(w) \in P!WinType /\ P!SameRects(P!Reopened(w), w)
  BY <1>1 DEF P!Reopened, P!WinType, P!SameRects
<1>4. P!Hidden(w) \in P!WinType /\ P!SameRects(P!Hidden(w), w)
  BY <1>1 DEF P!Hidden, P!WinType, P!SameRects
<1>5. P!SameRects(P!Dropped(w), w)
  BY <1>1 DEF P!Dropped, P!WinType, P!SameRects
<1>6. P!SameRects(P!Grabbed(w), w)
  BY <1>1 DEF P!Grabbed, P!WinType, P!SameRects
<1>7. QED
  BY <1>1, <1>3, <1>4, <1>5, <1>6, Display, P!DroppedType, P!GrabbedType, P!SameRectsGood, P!TitleKept, P!DragKept, P!KeepsView

(* A launcher always finds room: at most VSCodium is ever added.           *)
LEMMA OpenWinDesk ==
  ASSUME mx \in Int, my \in Int, current_ws \in 0..(WORKSPACES - 1),
         NEW d \in Desks, NEW t \in P!Titles,
         (\A i \in DOMAIN d.wins : d.wins[i].title # t) => Len(d.wins) < MAX_WIN
  PROVE  Launched(d, OpenWin(d, t), t)
<1> DEFINE same == {i \in DOMAIN d.wins : d.wins[i].title = t}
           e == OpenWin(d, t)
<1>1. d.wins \in Seq(P!GoodWin) /\ Len(d.wins) \in Nat /\ DOMAIN d.wins = 1..Len(d.wins)
  BY DEF Desks
<1>2. CASE same # {}
  <2> DEFINE i == Min(same)
  <2>1. i \in same
    <3>1. same \subseteq Nat
      BY <1>1
    <3>2. \E x \in same : \A y \in same : x <= y
      BY <1>2, <3>1, Smallest
    <3>3. QED
      BY <3>2, Zenon DEF Min
  <2>2. i \in DOMAIN d.wins /\ d.wins[i].title = t /\ d.wins[i] \in P!GoodWin
    <3> HIDE DEF i
    <3>1. i \in DOMAIN d.wins /\ d.wins[i].title = t
      BY <2>1
    <3>2. QED
      BY <3>1, <1>1
  <2> DEFINE g == P!Reopened(d.wins[i])
  <2>3. g \in P!GoodWin /\ g.title = t /\ g.hidden = FALSE /\ g.ws = current_ws
        /\ g.drag = d.wins[i].drag
    BY <2>2, WinKept
  <2>4. e = [wins |-> [d.wins EXCEPT ![i] = g], aw |-> i]
    BY <1>2, SameWindows, Zenon DEF OpenWin
  <2> HIDE DEF g, i, same, e
  <2>5. e.wins = [d.wins EXCEPT ![i] = g] /\ e.aw = i
    BY <2>4
  <2>6. [d.wins EXCEPT ![i] = g] \in Seq(P!GoodWin) /\ DOMAIN [d.wins EXCEPT ![i] = g] = DOMAIN d.wins
    BY <1>1, <2>2, <2>3, Display, P!UpdateOne
  <2>7. e \in Desks
    BY <2>2, <2>4, <2>6, <1>1 DEF Desks
  <2>8. e.wins[i] = g /\ \A k \in DOMAIN d.wins : k # i => e.wins[k] = d.wins[k]
    BY <2>2, <2>5
  <2>9. QED
    BY <2>2, <2>3, <2>5, <2>6, <2>7, <2>8 DEF Launched, P!Shown, e
<1>3. CASE same = {}
  <2> DEFINE n == Len(d.wins) + 1
             g == P!NewWin(t, n, current_ws)
  <2>1. \A k \in DOMAIN d.wins : d.wins[k].title # t
    BY <1>3
  <2>2. e = [wins |-> Append(d.wins, g), aw |-> n]
    BY <1>3, <2>1, SameWindows, Zenon DEF OpenWin
  <2>3. n \in Nat /\ n \in Int
    BY <1>1
  <2>4. g \in P!GoodWin
    BY <2>3, Display, P!NewWinGood
  <2>5. g.title = t /\ g.hidden = FALSE /\ g.ws = current_ws
    BY DEF P!NewWin
  <2> HIDE DEF g, e
  <2>6. Append(d.wins, g) \in Seq(P!GoodWin) /\ DOMAIN Append(d.wins, g) = 1..n
        /\ Append(d.wins, g)[n] = g
    BY <1>1, <2>4
  <2>7. e \in Desks /\ e.aw = n /\ e.wins = Append(d.wins, g)
    BY <2>2, <2>3, <2>6 DEF Desks
  <2>8. QED
    BY <1>1, <2>1, <2>5, <2>6, <2>7 DEF Launched, P!Shown, e, g
<1>4. QED
  BY <1>2, <1>3

(* What a click does to a desk it finds a title bar on.                    *)
Framed(d, e) ==
  \/ e.wins = d.wins /\ e.aw = d.aw
  \/ \E j \in DOMAIN d.wins :
       /\ e.aw = d.aw
       /\ \/ P!OnHide(d.wins[j]) /\ e.wins = [d.wins EXCEPT ![j] = P!Hidden(d.wins[j])]
          \/ e.wins = [d.wins EXCEPT ![j] = P!ToggleMaximize(d.wins[j])]
  \/ \E j \in DOMAIN d.wins :
       /\ P!Shown(d.wins[j]) /\ OnTitle(d.wins[j])
       /\ e.wins = Append(RemoveAt(d.wins, j), P!Grabbed(d.wins[j]))
       /\ e.aw = Len(d.wins)

LEMMA FrameDesk ==
  ASSUME NEW d \in Desks
  PROVE  Framed(d, AfterFrame(d))
<1> DEFINE hit == {j \in DOMAIN d.wins : Shown(d.wins[j]) /\ OnFrame(d.wins[j])}
           j == Max(hit)
           e == AfterFrame(d)
<1>1. d.wins \in Seq(P!GoodWin) /\ Len(d.wins) \in Nat /\ DOMAIN d.wins = 1..Len(d.wins)
  BY DEF Desks
<1>2. CASE hit = {}
  <2>1. e = d
    BY <1>2, Zenon DEF AfterFrame
  <2>2. QED
    BY <2>1 DEF Framed
<1>3. CASE hit # {}
  <2>1. j \in hit
    <3>1. hit \subseteq 1..Len(d.wins)
      BY <1>1
    <3>2. \E x \in hit : \A y \in hit : x >= y
      BY <1>1, <1>3, <3>1, Largest
    <3>3. QED
      BY <3>2, Zenon DEF Max
  <2>2. /\ j \in DOMAIN d.wins 
        /\ P!Shown(d.wins[j]) /\ OnFrame(d.wins[j])
    <3> HIDE DEF j
    <3>1. QED
      BY <2>1, SameWindows
  <2>3. CASE OnHide(d.wins[j])
    <3>1. e = [d EXCEPT !.wins[j].hidden = TRUE]
      BY <1>3, <2>3, Zenon DEF AfterFrame
    <3> HIDE DEF j, e
    <3>2. e.aw = d.aw /\ e.wins = [d.wins EXCEPT ![j] = P!Hidden(d.wins[j])]
      BY <3>1 DEF P!Hidden, Desks
    <3>3. P!OnHide(d.wins[j])
      BY <2>3, SameWindows
    <3>4. QED
      BY <2>2, <3>2, <3>3 DEF Framed, e
  <2>4. CASE ~OnHide(d.wins[j]) /\ OnMaximize(d.wins[j])
    <3>1. e = [d EXCEPT !.wins[j] = ToggleMaximize(d.wins[j])]
      BY <1>3, <2>4, Zenon DEF AfterFrame
    <3> HIDE DEF j, e
    <3>2. e.aw = d.aw /\ e.wins = [d.wins EXCEPT ![j] = P!ToggleMaximize(d.wins[j])]
      BY <3>1, SameWindows DEF Desks
    <3>4. QED
      BY <2>2, <3>2 DEF Framed, e
  <2>5. CASE ~OnHide(d.wins[j]) /\ ~OnMaximize(d.wins[j])
    <3>0. e = Raise(d, j)
      BY <1>3, <2>5, Zenon DEF AfterFrame
    <3>1. /\ e.wins = Append(RemoveAt(d.wins, j), P!Grabbed(d.wins[j]))
          /\ e.aw = Len(d.wins)
      <4> HIDE DEF j, e
      <4>1. QED
        BY <3>0, SameWindows DEF Raise
    <3>2. OnTitle(d.wins[j])
      BY <2>2, <2>5, Zenon DEF OnFrame
    <3> HIDE DEF j, e
    <3>4. QED
      BY <2>2, <3>1, <3>2 DEF Framed, e
  <2>6. QED
    BY <2>3, <2>4, <2>5
<1>4. QED
  BY <1>2, <1>3

(* The four windows made at the start stay, and only VSCodium is added.     *)
Four == {"Terminal", "SysInfo", "Handbook", "Guide"}
Stacked(s) ==
  /\ \A t \in Four : \E i \in DOMAIN s : s[i].title = t
  /\ (\A i \in DOMAIN s : s[i].title # "VSCodium") => Len(s) = 4

(* The inductive invariant: of the types only what the properties need,    *)
(* with the windows' placement and their titles.                           *)
DeskInv ==
  /\ wins \in Seq(P!GoodWin) /\ aw \in DOMAIN wins
  /\ current_ws \in 0..(WORKSPACES - 1)
  /\ mx \in Int /\ my \in Int
  /\ Stacked(wins)

LEMMA LaunchDesk ==
  ASSUME DeskInv
  PROVE  \/ AfterLaunch(Desk) = Desk
         \/ \E t \in IconHits \cup DockHits : Launched(Desk, AfterLaunch(Desk), t)
<1> DEFINE hits == (IconHits \cup DockHits) \cap Openable
           t == CHOOSE t \in hits : TRUE
           d == Desk
<1>1. CASE hits = {}
  BY <1>1, Zenon DEF AfterLaunch
<1>2. CASE hits # {}
  <2>1. t \in hits
    BY <1>2, Zenon
  <2>2. AfterLaunch(d) = OpenWin(d, t)
    BY <1>2, Zenon DEF AfterLaunch
  <2> HIDE DEF t, d
  <2>3. t \in Four \cup {"VSCodium"} /\ t \in IconHits \cup DockHits
    BY <2>1 DEF Openable, Four
  <2>4. t \in P!Titles
    BY <2>3 DEF P!Titles, Four
  <2>5. d \in Desks /\ d.wins = wins
    BY DEF d, Desk, Desks, DeskInv
  <2>6. (\A i \in DOMAIN d.wins : d.wins[i].title # t) => Len(d.wins) < MAX_WIN
    BY <2>3, <2>5 DEF DeskInv, Stacked, MAX_WIN
  <2>7. Launched(d, OpenWin(d, t), t)
    BY <2>4, <2>5, <2>6, OpenWinDesk DEF DeskInv
  <2>8. QED
    BY <2>2, <2>3, <2>7 DEF d
<1>3. QED
  BY <1>1, <1>2

After == [wins |-> wins', aw |-> aw']

(* Two arrays with the same windows in the same places.                    *)
Alike(s, r) ==
  /\ DOMAIN r = DOMAIN s
  /\ \A i \in DOMAIN s : r[i].title = s[i].title

(* What a step does to the windows and the focus.                          *)
Step ==
  \/ wins' = wins /\ pc = "poll" /\ aw' \in DOMAIN wins
  \/ /\ aw' = aw /\ wins' \in Seq(P!GoodWin) /\ Alike(wins, wins')
     /\ \A i \in DOMAIN wins : wins'[i].drag => wins[i].drag
  \/ Launched(Desk, After, "VSCodium")
  \/ /\ pc = "click" /\ mclick
     /\ \E e : /\ \/ e = Desk
                  \/ \E t \in IconHits \cup DockHits : Launched(Desk, e, t)
               /\ Framed(e, After)

(* What each action does to the windows and the focus is such a step.      *)
LEMMA PointerKept ==
  ASSUME mx \in Int, my \in Int, MouseEvent \/ EndPoll
  PROVE  mx' \in Int /\ my' \in Int
<1>1. CASE MouseEvent
  <2>1. AbsX \subseteq Int /\ AbsY \subseteq Int /\ RelX \subseteq Int /\ RelY \subseteq Int
    BY DesktopAssumption
  <2>2. QED
    BY <1>1, <2>1 DEF MouseEvent
<1>2. CASE EndPoll
  BY <1>2, Display DEF EndPoll, S!AtMost, S!AtLeast, PANEL_H
<1>3. QED
  BY <1>1, <1>2

LEMMA StillStep ==
  ASSUME DeskInv, UNCHANGED <<wins, aw>>
  PROVE  Step
<1>1. wins' \in Seq(P!GoodWin) /\ Alike(wins, wins') /\ aw' = aw
      /\ \A i \in DOMAIN wins : wins'[i].drag => wins[i].drag
  BY DEF DeskInv, Alike
<1>2. QED
  BY <1>1, Zenon DEF Step

LEMMA EachStep ==
  ASSUME DeskInv, aw' = aw, NEW f, wins' = [i \in DOMAIN wins |-> f[i]],
         \A i \in DOMAIN wins :
           f[i] \in P!GoodWin /\ f[i].title = wins[i].title
           /\ (f[i].drag => wins[i].drag)
  PROVE  Step
<1>1. wins \in Seq(P!GoodWin)
  BY DEF DeskInv
<1>2. wins' = [i \in DOMAIN wins |-> wins'[i]]
      /\ DOMAIN wins' = DOMAIN wins
      /\ \A i \in DOMAIN wins : wins'[i] = f[i]
  OBVIOUS
<1>3. wins' \in Seq(P!GoodWin)
  BY <1>1, <1>2, Display, P!UpdateAll
<1>4. /\ Alike(wins, wins')
      /\ \A i \in DOMAIN wins : wins'[i].drag => wins[i].drag
  BY <1>2 DEF Alike
<1>5. QED
  BY <1>3, <1>4, Zenon DEF Step

LEMMA DropStep ==
  ASSUME DeskInv, aw' = aw, DropAll
  PROVE  Step
<1> DEFINE f == [i \in DOMAIN wins |-> P!Dropped(wins[i])]
<1>1. wins' = [i \in DOMAIN wins |-> f[i]]
  BY SameWindows DEF DropAll
<1>2. ASSUME NEW i \in DOMAIN wins
      PROVE  f[i] \in P!GoodWin /\ f[i].title = wins[i].title /\ f[i].drag = FALSE
  <2>1. wins[i] \in P!GoodWin /\ wins[i] \in P!WinType
    BY Display, P!OneGood DEF DeskInv
  <2>2. f[i] = P!Dropped(wins[i])
    OBVIOUS
  <2>3. QED
    BY <2>1, <2>2, WinKept, Display, P!TitleKept, P!DragKept DEF DeskInv
<1> HIDE DEF f
<1>3. QED
  BY <1>1, <1>2, EachStep

LEMMA FrameStep ==
  ASSUME DeskInv, Frame
  PROVE  Step
<1> DEFINE f == [i \in DOMAIN wins |-> IF wins[i].drag THEN P!Dragged(wins[i], mx, my) ELSE wins[i]]
<1>1. wins' = [i \in DOMAIN wins |-> f[i]] /\ aw' = aw
  BY SameWindows DEF Frame
<1>2. ASSUME NEW i \in DOMAIN wins
      PROVE  f[i] \in P!GoodWin /\ f[i].title = wins[i].title /\ (f[i].drag => wins[i].drag)
  <2>1. wins[i] \in P!GoodWin /\ wins[i] \in P!WinType
    BY Display, P!OneGood DEF DeskInv
  <2>2. f[i] \in {wins[i], P!Dragged(wins[i], mx, my)}
    OBVIOUS
  <2>3. QED
    BY <2>1, <2>2, Display, P!DraggedGood, P!TitleKept, P!DragKept DEF DeskInv
<1> HIDE DEF f
<1>3. QED
  BY <1>1, <1>2, EachStep

LEMMA HideStep ==
  ASSUME DeskInv, NEW k, KeyHide(k)
  PROVE  Step
<1> DEFINE f == [i \in DOMAIN wins |-> IF i = aw THEN P!Hidden(wins[i]) ELSE wins[i]]
<1>1. aw \in DOMAIN wins /\ wins \in Seq(P!GoodWin)
  BY DEF DeskInv
<1>2. wins' = [i \in DOMAIN wins |-> f[i]] /\ aw' = aw
  BY <1>1 DEF KeyHide, P!Hidden
<1>3. ASSUME NEW i \in DOMAIN wins
      PROVE  f[i] \in P!GoodWin /\ f[i].title = wins[i].title /\ (f[i].drag => wins[i].drag)
  <2>1. wins[i] \in P!GoodWin /\ wins[i] \in P!WinType
    BY Display, P!OneGood DEF DeskInv
  <2>2. f[i] \in {wins[i], P!Hidden(wins[i])}
    OBVIOUS
  <2>3. QED
    BY <2>1, <2>2, WinKept, Display, P!TitleKept, P!DragKept DEF DeskInv
<1> HIDE DEF f
<1>4. QED
  BY <1>2, <1>3, EachStep

LEMMA TabStep ==
  ASSUME DeskInv, NEW k, KeyTab(k), pc = "poll"
  PROVE  Step
<1>1. DOMAIN wins = 1..Len(wins) /\ Len(wins) \in Nat /\ aw \in 1..Len(wins)
  BY DEF DeskInv
<1>2. \A i \in 1..Len(wins) : S!Following(i) \in 1..Len(wins)
  BY <1>1 DEF S!Following
<1>3. wins' = wins /\ aw' \in DOMAIN wins
  BY <1>1, <1>2 DEF KeyTab, S!KeyTab
<1>4. QED
  BY <1>3, Zenon DEF Step

LEMMA EnterStep ==
  ASSUME DeskInv, NEW k, KeyEnter(k)
  PROVE  Step
<1>1. CASE UNCHANGED <<wins, aw>>
  BY <1>1, StillStep
<1>2. CASE /\ wins' = OpenWin(Desk, "VSCodium").wins
           /\ aw' = OpenWin(Desk, "VSCodium").aw
  <2> DEFINE d == Desk
             e == OpenWin(d, "VSCodium")
  <2>1. d \in Desks /\ d.wins = wins
    BY DEF Desk, Desks, DeskInv
  <2> HIDE DEF d, e
  <2>2. (\A i \in DOMAIN d.wins : d.wins[i].title # "VSCodium") => Len(d.wins) < MAX_WIN
    <3>1. (\A i \in DOMAIN wins : wins[i].title # "VSCodium") => Len(wins) = 4
      BY DEF DeskInv, Stacked
    <3>2. MAX_WIN = 16 /\ 4 < 16
      BY DEF MAX_WIN
    <3>3. QED
      BY <2>1, <3>1, <3>2, Zenon
  <2>3. Launched(d, e, "VSCodium")
    BY <2>1, <2>2, OpenWinDesk DEF DeskInv, P!Titles, e
  <2>4. wins' = e.wins /\ aw' = e.aw
    BY <1>2 DEF d, e
  <2>5. e \in Desks
    BY <2>3 DEF Launched
  <2>6. After = e
    BY <2>4, <2>5 DEF After, Desks
  <2>7. QED
    BY <2>3, <2>6, Zenon DEF Step, d
<1>3. QED
  BY <1>1, <1>2, Zenon DEF KeyEnter

LEMMA ClickStep ==
  ASSUME DeskInv, pc = "click", mclick, Click
  PROVE  Step
<1> DEFINE d == Desk
           e == AfterLaunch(d)
           f == AfterFrame(e)
<1>1. wins' = f.wins /\ aw' = f.aw
  BY Zenon DEF Click
<1>2. d \in Desks
  BY DEF Desk, Desks, DeskInv
<1>3. e = d \/ \E t \in IconHits \cup DockHits : Launched(d, e, t)
  BY LaunchDesk, Zenon
<1> HIDE DEF d, e
<1>4. e \in Desks
  BY <1>2, <1>3 DEF Launched
<1>5. Framed(e, f)
  BY <1>4, FrameDesk
<1>6. Framed(e, After)
  BY <1>1, <1>5, Zenon DEF Framed, After
<1>7. QED
  BY <1>3, <1>6, Zenon DEF Step, d

(* The array with its j-th window moved to the end.                        *)
Lifted(s, r, j) ==
  /\ DOMAIN r = DOMAIN s
  /\ \A i \in DOMAIN s :
       r[i].title = s[IF i < j THEN i ELSE IF i < Len(s) THEN i + 1 ELSE j].title

(* What a click on the buttons of a title bar makes of a window.           *)
Touched(w, v) ==
  \/ v = w
  \/ v = P!ToggleMaximize(w)
  \/ P!OnHide(w) /\ v = P!Hidden(w)

LEMMA FramedKeeps ==
  ASSUME mx \in Int, my \in Int, current_ws \in 0..(WORKSPACES - 1),
         NEW d \in Desks, d.aw \in DOMAIN d.wins, NEW e, Framed(d, e)
  PROVE  /\ e.wins \in Seq(P!GoodWin) /\ e.aw \in DOMAIN e.wins
         /\ \/ /\ Alike(d.wins, e.wins) /\ e.aw = d.aw
               /\ Touched(d.wins[d.aw], e.wins[d.aw])
            \/ \E j \in DOMAIN d.wins :
                 /\ P!Shown(d.wins[j]) /\ OnTitle(d.wins[j])
                 /\ Lifted(d.wins, e.wins, j)
                 /\ e.wins[e.aw] = P!Grabbed(d.wins[j])
<1>1. d.wins \in Seq(P!GoodWin) /\ Len(d.wins) \in Nat /\ DOMAIN d.wins = 1..Len(d.wins)
  BY DEF Desks
<1>2. CASE e.wins = d.wins /\ e.aw = d.aw
  BY <1>1, <1>2 DEF Alike, Touched
<1>3. ASSUME NEW j \in DOMAIN d.wins, e.aw = d.aw,
             NEW g, Touched(d.wins[j], g),
             e.wins = [d.wins EXCEPT ![j] = g]
      PROVE  /\ e.wins \in Seq(P!GoodWin) /\ e.aw \in DOMAIN e.wins /\ Alike(d.wins, e.wins)
             /\ Touched(d.wins[d.aw], e.wins[d.aw])
  <2>1. d.wins[j] \in P!GoodWin
    BY <1>1
  <2>2. d.wins[j] \in P!WinType
    BY <2>1 DEF P!GoodWin
  <2>3. g \in P!GoodWin /\ g.title = d.wins[j].title
    BY <1>3, <2>1, <2>2, WinKept, Display, P!ToggleGood, P!TitleKept DEF Touched
  <2>4. e.wins \in Seq(P!GoodWin) /\ DOMAIN e.wins = DOMAIN d.wins
    BY <1>1, <1>3, <2>3, Display, P!UpdateOne
  <2>5. \A i \in DOMAIN d.wins : e.wins[i].title = d.wins[i].title
    BY <1>1, <1>3, <2>3
  <2>6. Touched(d.wins[d.aw], e.wins[d.aw])
    <3>1. e.wins[d.aw] = d.wins[d.aw] \/ (d.aw = j /\ e.wins[d.aw] = g)
      BY <1>1, <1>3
    <3>2. QED
      BY <1>3, <3>1, Zenon DEF Touched
  <2>7. QED
    BY <1>3, <2>4, <2>5, <2>6 DEF Alike
<1>4. ASSUME NEW j \in DOMAIN d.wins, P!Shown(d.wins[j]), OnTitle(d.wins[j]),
             e.wins = Append(RemoveAt(d.wins, j), P!Grabbed(d.wins[j])),
             e.aw = Len(d.wins)
      PROVE  /\ e.wins \in Seq(P!GoodWin) /\ e.aw \in DOMAIN e.wins
             /\ Lifted(d.wins, e.wins, j) /\ e.wins[e.aw] = P!Grabbed(d.wins[j])
  <2> DEFINE g == P!Grabbed(d.wins[j])
  <2>1. d.wins[j] \in P!GoodWin
    BY <1>1
  <2>2. d.wins[j] \in P!WinType
    BY <2>1 DEF P!GoodWin
  <2>3. g \in P!GoodWin /\ g.title = d.wins[j].title
    BY <2>1, <2>2, WinKept, Display, P!TitleKept
  <2> HIDE DEF g
  <2>4. e.wins = Append(RemoveAt(d.wins, j), g)
    BY <1>4 DEF g
  <2>5. /\ e.wins \in Seq(P!GoodWin) /\ DOMAIN e.wins = DOMAIN d.wins
        /\ \A i \in DOMAIN d.wins :
             e.wins[i] = IF i < j THEN d.wins[i]
                         ELSE IF i < Len(d.wins) THEN d.wins[i + 1] ELSE g
    <3> DEFINE s == d.wins
               r == Append(RemoveAt(s, j), g)
    <3>1. s \in Seq(P!GoodWin) /\ j \in DOMAIN s
      BY <1>1
    <3> HIDE DEF s
    <3>2. /\ r \in Seq(P!GoodWin) /\ DOMAIN r = DOMAIN s
          /\ \A i \in DOMAIN s : r[i] = IF i < j THEN s[i]
                                        ELSE IF i < Len(s) THEN s[i + 1] ELSE g
      BY <2>3, <3>1, Raised
    <3> HIDE DEF r
    <3>3. e.wins = r /\ s = d.wins
      BY <2>4 DEF r, s
    <3>4. QED
      BY <3>2, <3>3
  <2>6. Lifted(d.wins, e.wins, j)
    <3>1. ASSUME NEW i \in DOMAIN d.wins
          PROVE  e.wins[i].title = d.wins[IF i < j THEN i
                   ELSE IF i < Len(d.wins) THEN i + 1 ELSE j].title
      <4>1. CASE i < j
        BY <2>5, <4>1
      <4>2. CASE ~(i < j) /\ i < Len(d.wins)
        BY <2>5, <4>2
      <4>3. CASE ~(i < j) /\ ~(i < Len(d.wins))
        BY <2>3, <2>5, <4>3
      <4>4. QED
        BY <4>1, <4>2, <4>3
    <3>2. QED
      BY <2>5, <3>1 DEF Lifted
  <2>7. Len(d.wins) \in DOMAIN d.wins /\ ~(Len(d.wins) < j)
    BY <1>1
  <2>8. e.wins[e.aw] = g
    BY <1>4, <2>5, <2>7
  <2>9. QED
    BY <1>4, <2>5, <2>6, <2>7, <2>8 DEF g
<1>5. CASE \E j \in DOMAIN d.wins :
             /\ e.aw = d.aw
             /\ \/ P!OnHide(d.wins[j]) /\ e.wins = [d.wins EXCEPT ![j] = P!Hidden(d.wins[j])]
                \/ e.wins = [d.wins EXCEPT ![j] = P!ToggleMaximize(d.wins[j])]
  <2>1. /\ e.wins \in Seq(P!GoodWin) /\ e.aw \in DOMAIN e.wins /\ Alike(d.wins, e.wins)
        /\ Touched(d.wins[d.aw], e.wins[d.aw])
    <3>1. PICK j \in DOMAIN d.wins :
            \E g : Touched(d.wins[j], g) /\ e.wins = [d.wins EXCEPT ![j] = g]
      BY <1>5, Zenon DEF Touched
    <3>2. QED
      BY <1>3, <1>5, <3>1
  <2>2. e.aw = d.aw
    BY <1>5
  <2>3. QED
    BY <2>1, <2>2, Zenon
<1>6. CASE \E j \in DOMAIN d.wins :
             /\ P!Shown(d.wins[j]) /\ OnTitle(d.wins[j])
             /\ e.wins = Append(RemoveAt(d.wins, j), P!Grabbed(d.wins[j]))
             /\ e.aw = Len(d.wins)
  <2>1. PICK j \in DOMAIN d.wins :
             /\ P!Shown(d.wins[j]) /\ OnTitle(d.wins[j])
             /\ e.wins = Append(RemoveAt(d.wins, j), P!Grabbed(d.wins[j]))
             /\ e.aw = Len(d.wins)
    BY <1>6
  <2>2. /\ e.wins \in Seq(P!GoodWin) /\ e.aw \in DOMAIN e.wins
        /\ Lifted(d.wins, e.wins, j) /\ e.wins[e.aw] = P!Grabbed(d.wins[j])
    BY <2>1, <1>4
  <2>3. QED
    BY <2>1, <2>2, Zenon
<1>7. QED
  BY <1>2, <1>5, <1>6, Zenon DEF Framed

(* A raise loses no title, and what keeps the titles keeps Stacked.        *)
LEMMA LiftedFinds ==
  ASSUME NEW s \in Seq(P!GoodWin), NEW j \in DOMAIN s, NEW r, Lifted(s, r, j), NEW i \in DOMAIN s
  PROVE  \E k \in DOMAIN r : r[k].title = s[i].title
<1>1. Len(s) \in Nat /\ DOMAIN s = 1..Len(s) /\ DOMAIN r = DOMAIN s
  BY DEF Lifted
<1>2. CASE i < j
  BY <1>1, <1>2 DEF Lifted
<1>3. CASE i = j
  <2>1. Len(s) \in DOMAIN s /\ ~(Len(s) < j) /\ ~(Len(s) < Len(s))
    BY <1>1
  <2>2. r[Len(s)].title = s[j].title
    BY <2>1 DEF Lifted
  <2>3. QED
    BY <1>1, <1>3, <2>1, <2>2
<1>4. CASE i > j
  <2>1. i - 1 \in DOMAIN s /\ ~(i - 1 < j) /\ i - 1 < Len(s) /\ (i - 1) + 1 = i
    BY <1>1, <1>4
  <2>2. r[i - 1].title = s[i].title
    BY <2>1 DEF Lifted
  <2>3. QED
    BY <1>1, <2>1, <2>2
<1>5. QED
  BY <1>1, <1>2, <1>3, <1>4

LEMMA StackedKept ==
  ASSUME NEW s \in Seq(P!GoodWin), Stacked(s), NEW r \in Seq(P!GoodWin), DOMAIN r = DOMAIN s,
         \A i \in DOMAIN s : \E k \in DOMAIN r : r[k].title = s[i].title
  PROVE  Stacked(r)
<1>1. Len(r) = Len(s)
  OBVIOUS
<1>2. ASSUME NEW t \in Four PROVE \E k \in DOMAIN r : r[k].title = t
  <2>1. PICK i \in DOMAIN s : s[i].title = t
    BY DEF Stacked
  <2>2. PICK k \in DOMAIN r : r[k].title = s[i].title
    OBVIOUS
  <2>3. QED
    BY <2>1, <2>2
<1>3. (\A i \in DOMAIN r : r[i].title # "VSCodium") => Len(s) = 4
  BY Zenon DEF Stacked
<1>4. QED
  BY <1>1, <1>2, <1>3, Zenon DEF Stacked

LEMMA Appended ==
  ASSUME NEW T, NEW s \in Seq(T), NEW x \in T
  PROVE  /\ DOMAIN Append(s, x) = 1..(Len(s) + 1)
         /\ Append(s, x)[Len(s) + 1] = x
         /\ \A i \in DOMAIN s : i \in DOMAIN Append(s, x) /\ Append(s, x)[i] = s[i]
OBVIOUS

(* A launch keeps Stacked; the window it may add is the fifth, VSCodium's. *)
LEMMA LaunchedKeeps ==
  ASSUME current_ws \in 0..(WORKSPACES - 1),
         NEW d \in Desks, Stacked(d.wins), NEW e, NEW t, Launched(d, e, t)
  PROVE  /\ Stacked(e.wins)
         /\ \/ Alike(d.wins, e.wins)
            \/ /\ \A i \in DOMAIN d.wins : d.wins[i].title # "VSCodium"
               /\ Len(d.wins) = 4
               /\ t = "VSCodium"
               /\ e.wins = Append(d.wins, P!NewWin("VSCodium", 5, current_ws))
<1>1. d.wins \in Seq(P!GoodWin) /\ e.wins \in Seq(P!GoodWin)
  BY DEF Desks, Launched
<1>2. CASE Alike(d.wins, e.wins)
  BY <1>1, <1>2, StackedKept DEF Alike
<1>3. CASE ~Alike(d.wins, e.wins)
  <2>1. /\ \A i \in DOMAIN d.wins : d.wins[i].title # t
        /\ e.wins = Append(d.wins, P!NewWin(t, Len(d.wins) + 1, current_ws))
    BY <1>3, Zenon DEF Launched, Alike
  <2>2. t \in P!Titles
    <3>1. e.aw \in DOMAIN e.wins /\ e.wins[e.aw].title = t
      BY DEF Launched
    <3>2. e.wins[e.aw] \in P!GoodWin
      BY <1>1, <3>1
    <3>3. QED
      BY <3>1, <3>2 DEF P!GoodWin, P!WinType
  <2>3. t \notin Four
    BY <2>1, Zenon DEF Stacked
  <2>4. t = "VSCodium"
    BY <2>2, <2>3 DEF P!Titles, Four
  <2>5. Len(d.wins) = 4
    BY <2>1, <2>4, Zenon DEF Stacked
  <2>6. e.wins = Append(d.wins, P!NewWin("VSCodium", 5, current_ws))
    <3>1. 4 + 1 = 5
      OBVIOUS
    <3>2. QED
      BY <2>1, <2>4, <2>5, <3>1, Zenon
  <2>7. Stacked(e.wins)
    <3> DEFINE n == P!NewWin("VSCodium", 5, current_ws)
    <3>1. n.title = "VSCodium" /\ n \in P!GoodWin
      BY Display, P!NewWinGood DEF P!NewWin, P!Titles
    <3> HIDE DEF n
    <3>2. e.wins = Append(d.wins, n)
      BY <2>6 DEF n
    <3>3. /\ 1..5 = DOMAIN e.wins /\ e.wins[5] = n
          /\ \A i \in DOMAIN d.wins : i \in DOMAIN e.wins /\ e.wins[i] = d.wins[i]
      <4>1. 4 + 1 = 5
        OBVIOUS
      <4>2. /\ DOMAIN Append(d.wins, n) = 1..(Len(d.wins) + 1)
            /\ Append(d.wins, n)[Len(d.wins) + 1] = n
            /\ \A i \in DOMAIN d.wins : i \in DOMAIN Append(d.wins, n)
                                        /\ Append(d.wins, n)[i] = d.wins[i]
        BY <1>1, <3>1, Appended
      <4>3. QED
        BY <2>5, <3>2, <4>1, <4>2, Zenon
    <3>4. \A u \in Four : \E i \in DOMAIN e.wins : e.wins[i].title = u
      BY <3>3, Zenon DEF Stacked
    <3>5. QED
      BY <3>1, <3>3, <3>4 DEF Stacked
  <2>8. QED
    BY <2>1, <2>4, <2>5, <2>6, <2>7
<1>4. QED
  BY <1>2, <1>3

(* Every step is one of these and keeps the invariant.                     *)
LEMMA StepKeeps ==
  ASSUME DeskInv, Step
  PROVE  wins' \in Seq(P!GoodWin) /\ aw' \in DOMAIN wins' /\ Stacked(wins')
<1> USE DEF DeskInv
<1> DEFINE d == Desk
<1>0. d \in Desks /\ d.wins = wins /\ d.aw = aw /\ Stacked(d.wins)
  BY DEF Desk, Desks
<1>1. CASE wins' = wins /\ aw' \in DOMAIN wins
  BY <1>1
<1>2. CASE aw' = aw /\ wins' \in Seq(P!GoodWin) /\ Alike(wins, wins')
  BY <1>2, StackedKept DEF Alike
<1>3. CASE Launched(d, After, "VSCodium")
  <2>1. After.wins = wins' /\ After.aw = aw'
    BY DEF After
  <2> HIDE DEF d
  <2>2. Stacked(After.wins)
    BY <1>0, <1>3, LaunchedKeeps
  <2>3. After.wins \in Seq(P!GoodWin) /\ After.aw \in DOMAIN After.wins
    BY <1>3 DEF Launched, Desks
  <2>4. QED
    BY <2>1, <2>2, <2>3
<1>4. CASE \E e : /\ \/ e = d
                     \/ \E t \in IconHits \cup DockHits : Launched(d, e, t)
                  /\ Framed(e, After)
  <2>1. PICK e : /\ \/ e = d
                    \/ \E t \in IconHits \cup DockHits : Launched(d, e, t)
                 /\ Framed(e, After)
    BY <1>4
  <2>2. After.wins = wins' /\ After.aw = aw'
    BY DEF After
  <2> HIDE DEF d
  <2>3. e \in Desks /\ e.aw \in DOMAIN e.wins /\ Stacked(e.wins)
    BY <1>0, <2>1, LaunchedKeeps DEF Launched
  <2>4. /\ After.wins \in Seq(P!GoodWin) /\ After.aw \in DOMAIN After.wins
        /\ \/ Alike(e.wins, After.wins)
           \/ \E j \in DOMAIN e.wins : Lifted(e.wins, After.wins, j)
    BY <2>1, <2>3, FramedKeeps
  <2>5. e.wins \in Seq(P!GoodWin)
    BY <2>3 DEF Desks
  <2>6. Stacked(After.wins)
    <3>1. CASE Alike(e.wins, After.wins)
      BY <2>3, <2>4, <2>5, <3>1, StackedKept DEF Alike
    <3>2. CASE \E j \in DOMAIN e.wins : Lifted(e.wins, After.wins, j)
      <4>1. PICK j \in DOMAIN e.wins : Lifted(e.wins, After.wins, j)
        BY <3>2
      <4>2. \A i \in DOMAIN e.wins : \E k \in DOMAIN After.wins : After.wins[k].title = e.wins[i].title
        BY <2>5, <4>1, LiftedFinds
      <4>3. DOMAIN After.wins = DOMAIN e.wins
        BY <4>1 DEF Lifted
      <4>4. QED
        BY <2>3, <2>4, <2>5, <4>2, <4>3, StackedKept
    <3>3. QED
      BY <2>4, <3>1, <3>2
  <2>7. QED
    BY <2>2, <2>4, <2>6
<1>5. QED
  BY <1>1, <1>2, <1>3, <1>4, Zenon DEF Step

LEMMA KeyDownStep ==
  ASSUME DeskInv, KeyDown
  PROVE  Step /\ current_ws' \in 0..(WORKSPACES - 1) /\ UNCHANGED <<mx, my>>
<1>1. PICK k : \/ KeyEscape(k) \/ KeyWorkspace(k) \/ KeyHide(k) \/ KeyTab(k)
               \/ KeyEnter(k) \/ KeyType(k)
  BY Zenon DEF KeyDown
<1>2. pc = "poll" /\ UNCHANGED <<mx, my>>
  BY DEF KeyDown, pointer
<1>3. current_ws \in 0..(WORKSPACES - 1)
  BY DEF DeskInv
<1>4. CASE KeyEscape(k)
  <2>1. UNCHANGED <<wins, aw>> /\ current_ws' = current_ws
    BY <1>4 DEF KeyEscape, desktop
  <2>2. QED
    BY <1>2, <1>3, <2>1, StillStep
<1>5. CASE KeyWorkspace(k)
  <2>1. current_ws' \in 0..(WORKSPACES - 1)
    <3>1. current_ws \in Nat
      BY <1>3, Display
    <3>2. CASE WorkspaceKey(k) /\ current_ws' = k - 2
      BY <3>2, Display DEF WorkspaceKey
    <3>3. CASE current_ws' = (current_ws - 1 + WORKSPACES) % WORKSPACES
      BY <3>1, <3>3, Display, P!Remainder
    <3>4. CASE current_ws' = (current_ws + 1 + WORKSPACES) % WORKSPACES
      BY <3>1, <3>4, Display, P!Remainder
    <3>5. QED
      BY <1>5, <3>2, <3>3, <3>4, Zenon DEF KeyWorkspace
  <2>2. UNCHANGED <<wins, aw>>
    BY <1>5 DEF KeyWorkspace
  <2>3. QED
    BY <1>2, <2>1, <2>2, StillStep
<1>6. CASE KeyHide(k)
  BY <1>2, <1>3, <1>6, HideStep DEF KeyHide
<1>7. CASE KeyTab(k)
  BY <1>2, <1>3, <1>7, TabStep DEF KeyTab, S!KeyTab
<1>8. CASE KeyEnter(k)
  BY <1>2, <1>3, <1>8, EnterStep DEF KeyEnter
<1>9. CASE KeyType(k)
  <2>1. UNCHANGED <<wins, aw>> /\ current_ws' = current_ws
    BY <1>9 DEF KeyType, desktop
  <2>2. QED
    BY <1>2, <1>3, <2>1, StillStep
<1>10. QED
  BY <1>1, <1>4, <1>5, <1>6, <1>7, <1>8, <1>9

LEMMA NextStep ==
  ASSUME DeskInv, [Next]_vars
  PROVE  Step /\ DeskInv'
<1> DEFINE Rest == /\ current_ws' \in 0..(WORKSPACES - 1)
                   /\ mx' \in Int /\ my' \in Int
<1> USE DEF desktop, pointer
<1>0. current_ws \in 0..(WORKSPACES - 1) /\ mx \in Int /\ my \in Int
  BY DEF DeskInv
<1>1. CASE MouseEvent \/ EndPoll
  <2>1. UNCHANGED <<wins, aw, current_ws>>
    BY <1>1 DEF MouseEvent, EndPoll
  <2>2. QED
    BY <1>0, <1>1, <2>1, StillStep, PointerKept DEF DeskInv
<1>2. CASE ButtonDown \/ SuperKey \/ Installed \/ UNCHANGED vars
  <2>1. UNCHANGED <<wins, aw, current_ws, mx, my>>
    BY <1>2 DEF ButtonDown, SuperKey, Installed, vars
  <2>2. QED
    BY <1>0, <2>1, StillStep DEF DeskInv
<1>3. CASE Step /\ Rest
  BY <1>3, StepKeeps DEF DeskInv
<1>4. CASE ButtonUp
  <2>1. DropAll /\ aw' = aw /\ Rest
    BY <1>0, <1>4 DEF ButtonUp
  <2>2. QED
    BY <2>1, <1>3, DropStep
<1>5. CASE KeyDown
  BY <1>0, <1>3, <1>5, KeyDownStep
<1>6. CASE Frame
  <2>1. Rest
    BY <1>0, <1>6 DEF Frame
  <2>2. QED
    BY <2>1, <1>3, <1>6, FrameStep
<1>7. CASE Dispatch
  <2>1. Rest
    BY <1>0, <1>7 DEF Dispatch, Click, ClickDialog
  <2>2. CASE mclick /\ Click
    BY <1>3, <1>7, <2>1, <2>2, ClickStep DEF Dispatch
  <2>3. CASE UNCHANGED <<wins, aw>>
    BY <1>3, <2>1, <2>3, StillStep
  <2>4. QED
    BY <1>7, <2>2, <2>3 DEF Dispatch, ClickDialog
<1>8. QED
  BY <1>1, <1>2, <1>4, <1>5, <1>6, <1>7 DEF Next, Input, Loop

LEMMA DeskInit ==
  ASSUME Init PROVE DeskInv
<1>1. \A t \in P!Titles, n \in 1..4 : NewWin(t, n, 0) \in P!GoodWin
  BY P!NewWinGood, Display, SameWindows
<1>2. wins \in Seq(P!GoodWin) /\ DOMAIN wins = 1..4 /\ Len(wins) = 4
  BY <1>1 DEF Init, P!Titles
<1>3. /\ wins[1].title = "Terminal" /\ wins[2].title = "SysInfo"
      /\ wins[3].title = "Handbook" /\ wins[4].title = "Guide"
  BY SameWindows DEF Init, P!NewWin
<1>4. Stacked(wins)
  BY <1>2, <1>3 DEF Stacked, Four
<1>5. current_ws \in 0..(WORKSPACES - 1) /\ mx \in Int /\ my \in Int /\ aw \in DOMAIN wins
  BY <1>2, Display DEF Init
<1>6. QED
  BY <1>2, <1>4, <1>5 DEF DeskInv

LEMMA AlwaysDesk == Spec => []DeskInv
<1>1. DeskInv /\ [Next]_vars => DeskInv'
  BY NextStep
<1>2. QED
  BY DeskInit, <1>1, PTL DEF Spec

(* Only a click that is pending starts a drag.                             *)
NoneDragged(s) == \A i \in DOMAIN s : ~s[i].drag

(* A launch drags nothing.                                                 *)
LEMMA LaunchedDrag ==
  ASSUME NEW d \in Desks, Stacked(d.wins), NoneDragged(d.wins), NEW e, NEW t, Launched(d, e, t),
         current_ws \in 0..(WORKSPACES - 1)
  PROVE  NoneDragged(e.wins)
<1>1. CASE /\ DOMAIN e.wins = DOMAIN d.wins
           /\ \A i \in DOMAIN d.wins : e.wins[i].drag = d.wins[i].drag
  BY <1>1 DEF NoneDragged
<1>2. CASE e.wins = Append(d.wins, P!NewWin("VSCodium", 5, current_ws)) /\ Len(d.wins) = 4
  <2> DEFINE n == P!NewWin("VSCodium", 5, current_ws)
             s == d.wins
  <2>1. n.drag = FALSE /\ n \in P!GoodWin
    BY Display, P!NewWinGood DEF P!NewWin, P!Titles
  <2>2. s \in Seq(P!GoodWin) /\ NoneDragged(s) /\ Len(s) = 4
    BY <1>2 DEF Desks
  <2> HIDE DEF n, s
  <2>3. NoneDragged(Append(s, n))
    BY <2>1, <2>2, Appended DEF NoneDragged
  <2>4. QED
    BY <1>2, <2>3 DEF n, s
<1>3. QED
  <2>1. \/ Alike(d.wins, e.wins)
        \/ e.wins = Append(d.wins, P!NewWin("VSCodium", 5, current_ws)) /\ Len(d.wins) = 4
    BY LaunchedKeeps
  <2>2. CASE Alike(d.wins, e.wins)
    <3>1. d.wins \in Seq(P!GoodWin) /\ Len(d.wins) \in Nat
      BY DEF Desks
    <3>2. Len(d.wins) + 1 \notin DOMAIN d.wins
      BY <3>1
    <3>3. e.aw \in DOMAIN d.wins
      BY <2>2 DEF Launched, Alike
    <3>4. QED
      BY <1>1, <3>2, <3>3, Zenon DEF Launched
  <2>3. QED
    BY <1>2, <2>1, <2>2

LEMMA DeskDrags ==
  ASSUME DeskInv, Step, ~mclick, NoneDragged(wins)
  PROVE  NoneDragged(wins')
<1>1. CASE wins' = wins
  BY <1>1
<1>2. CASE Alike(wins, wins') /\ \A i \in DOMAIN wins : wins'[i].drag => wins[i].drag
  BY <1>2 DEF Alike, NoneDragged
<1>3. CASE Launched(Desk, After, "VSCodium")
  <2> DEFINE d == Desk
  <2>1. d \in Desks /\ d.wins = wins /\ Stacked(d.wins) /\ current_ws \in 0..(WORKSPACES - 1)
    BY DEF Desk, Desks, DeskInv
  <2> HIDE DEF d
  <2>2. NoneDragged(After.wins)
    BY <1>3, <2>1, LaunchedDrag DEF d
  <2>3. QED
    BY <2>2 DEF After
<1>4. QED
  BY <1>1, <1>2, <1>3, Zenon DEF Step

(* However presses, moves and releases fall into batches, no window is     *)
(* dragged, no selection grows and no click waits without the button down: *)
(* main's release branch ends all three, and only a click or a press       *)
(* starts them.                                                            *)
THEOREM Gestures == Spec => []GestureHasButton
<1> DEFINE I == /\ mclick \in BOOLEAN /\ mouse_pressed \in BOOLEAN /\ selecting \in BOOLEAN
                /\ mclick \/ selecting \/ ~NoneDragged(wins) => mouse_pressed
<1>1. Init => I
  <2>1. \A t, n, ws : NewWin(t, n, ws).drag = FALSE
    BY SameWindows DEF P!NewWin
  <2>2. Init => NoneDragged(wins)
    BY <2>1 DEF Init, NoneDragged
  <2>3. QED
    BY <2>2 DEF Init
<1>2. DeskInv /\ I /\ [Next]_vars => I'
  <2> SUFFICES ASSUME DeskInv, I, [Next]_vars PROVE I'
    OBVIOUS
  <2>1. CASE ButtonDown
    <3>1. mclick' = TRUE /\ mouse_pressed' = TRUE /\ selecting' \in BOOLEAN
      BY <2>1, Zenon DEF ButtonDown
    <3>2. QED
      BY <3>1
  <2>2. CASE ButtonUp
    <3>1. mclick' = FALSE /\ mouse_pressed' = FALSE /\ selecting' = FALSE
      BY <2>2 DEF ButtonUp, EndSelection
    <3>2. NoneDragged(wins')
      <4>1. wins' = [i \in DOMAIN wins |-> P!Dropped(wins[i])]
        BY <2>2, SameWindows DEF ButtonUp, DropAll
      <4>2. \A i \in DOMAIN wins : wins[i] \in P!WinType
        BY Display, P!OneGood DEF DeskInv
      <4>3. QED
        BY <4>1, <4>2, Display, P!DragKept DEF NoneDragged
    <3>3. QED
      BY <3>1, <3>2
  <2>3. CASE /\ mouse_pressed' = mouse_pressed /\ selecting' = selecting
             /\ mclick' = mclick \/ mclick' = FALSE
    <3>1. CASE mouse_pressed
      BY <2>3, <3>1
    <3>2. CASE ~mouse_pressed
      <4>1. ~mclick /\ ~selecting /\ NoneDragged(wins)
        BY <3>2
      <4>2. NoneDragged(wins')
        BY <4>1, NextStep, DeskDrags
      <4>3. mclick = FALSE /\ selecting = FALSE /\ mouse_pressed = FALSE
        BY <3>2, <4>1
      <4>4. mclick' = FALSE /\ selecting' = FALSE /\ mouse_pressed' = FALSE
        BY <2>3, <4>3, Zenon
      <4>5. QED
        BY <4>2, <4>4
    <3>3. QED
      BY <3>1, <3>2
  <2>4. CASE Dispatch
    <3>1. mouse_pressed' = mouse_pressed /\ mclick' = FALSE /\ selecting' = selecting
      BY <2>4, Zenon DEF Dispatch, Click, ClickDialog, selection
    <3>2. QED
      BY <2>3, <3>1
  <2>5. CASE MouseEvent \/ EndPoll
    BY <2>3, <2>5 DEF MouseEvent, EndPoll, selection
  <2>6. CASE KeyDown \/ SuperKey \/ Frame \/ Installed \/ UNCHANGED vars
    BY <2>3, <2>6 DEF KeyDown, SuperKey, Frame, Installed, vars, selection, pointer
  <2>7. QED
    BY <2>1, <2>2, <2>4, <2>5, <2>6 DEF Next, Input, Loop
<1>3. DeskInv /\ I => GestureHasButton
  BY DEF NoneDragged, GestureHasButton
<1>4. QED
  BY <1>1, <1>2, <1>3, AlwaysDesk, PTL DEF Spec

(* A title bar lies above the dock, and its window covers it.              *)
LEMMA TitleBar ==
  ASSUME mx \in Int, my \in Int, NEW w \in P!GoodWin, OnTitle(w)
  PROVE  w.y \in Int /\ my <= w.y /\ my <= FbH - 42 /\ Covers(w)
<1>1. w \in P!WinType /\ P!Placed(w) /\ P!Sized(w)
  BY DEF P!GoodWin
<1> DEFINE x == w.x  y == w.y  a == w.w  h == w.h
<1>2. /\ x \in Int /\ y \in Int /\ a \in Int /\ h \in Int
      /\ w.title \in P!Titles
  BY <1>1 DEF P!WinType
<1>3. ~w.maximized
  BY DEF OnTitle
<1>4. h = P!Height(w.title) /\ y + h <= FbH - 42
  BY <1>1, <1>3 DEF P!Placed, P!Sized, P!RectOnScreen
<1>5. h \in 1..340
  BY <1>2, <1>4, Display, P!SizeBounds
<1>6. x <= mx /\ mx <= x + a /\ y - 24 <= my /\ my <= y - 24 + 24
  BY DEF OnTitle, S!OnTitle, S!In, S!TITLE_H
<1> HIDE DEF x, y, a, h
<1>7. my <= y
  BY ONLY <1>2, <1>6, my \in Int
<1>8. my <= FbH - 42
  <2>1. FbH \in Int
    BY Display
  <2>2. QED
    BY ONLY <1>2, <1>4, <1>5, <1>7, <2>1, my \in Int
<1>9. my <= y - 24 + (h + 24)
  BY ONLY <1>2, <1>5, <1>7, my \in Int
<1>10. Covers(w)
  BY <1>6, <1>9 DEF Covers, S!In, x, y, a, h
<1>11. QED
  BY <1>2, <1>7, <1>8, <1>10 DEF y

(* No title bar lies where the launchers of VSCodium are: its icon, which  *)
(* no shown window covers, and the dock, below every window; and the       *)
(* window just made is far above both.                                     *)
LEMMA NothingRaised ==
  ASSUME DeskInv, NEW e, e \in Desks, Len(wins) = 4,
         e.wins = Append(wins, P!NewWin("VSCodium", 5, current_ws)),
         "VSCodium" \in IconHits \cup DockHits,
         NEW j \in DOMAIN e.wins, P!Shown(e.wins[j]), OnTitle(e.wins[j])
  PROVE  FALSE
<1> DEFINE n == P!NewWin("VSCodium", 5, current_ws)
           w == e.wins[j]
<1>1. wins \in Seq(P!GoodWin) /\ mx \in Int /\ my \in Int /\ e.wins \in Seq(P!GoodWin)
  BY DEF DeskInv, Desks
<1>2. w \in P!GoodWin
  <2> DEFINE s == e.wins
  <2>1. s \in Seq(P!GoodWin) /\ j \in DOMAIN s
    BY <1>1
  <2> HIDE DEF s
  <2>2. s[j] \in P!GoodWin
    BY <2>1
  <2>3. QED
    BY <2>2 DEF s
<1>3. w.y \in Int /\ my <= w.y /\ my <= FbH - 42 /\ Covers(w)
  BY <1>1, <1>2, TitleBar
<1>5. CASE "VSCodium" \in DockHits
  <2>1. my >= FbH - 40
    BY <1>5 DEF DockHits, OnDock
  <2>2. QED
    <3>1. FbH \in Int
      BY Display
    <3>2. QED
      BY ONLY <1>1, <1>3, <2>1, <3>1
<1>6. CASE "VSCodium" \in IconHits
  <2>1. /\ \A i \in DOMAIN wins : ~(P!Shown(wins[i]) /\ Covers(wins[i]))
        /\ my >= 450
    <3>1. IconHits # {}
      BY <1>6
    <3>2. ~(\E i \in DOMAIN wins : Shown(wins[i]) /\ Covers(wins[i]))
      BY <3>1, Zenon DEF IconHits
    <3>3. "VSCodium" \in {Icons[i] : i \in {k \in DOMAIN Icons :
          S!In(mx, 20, 48) /\ S!In(my, 60 + 78 * (k - 1), 48)}}
      BY <1>6, Zenon DEF IconHits
    <3>4. PICK k \in DOMAIN Icons : "VSCodium" = Icons[k] /\ S!In(my, 60 + 78 * (k - 1), 48)
      BY <3>3
    <3>5. k = 6
      BY <3>4 DEF Icons
    <3>6. my >= 450
      BY <3>4, <3>5 DEF S!In
    <3>7. QED
      BY <3>2, <3>6, SameWindows
  <2>2. CASE j \in DOMAIN wins
    <3>1. w = wins[j]
      BY <1>1, <2>2, Display, P!NewWinGood, Appended DEF DeskInv, P!Titles
    <3>2. QED
      BY <1>3, <2>1, <2>2, <3>1
  <2>3. CASE j \notin DOMAIN wins
    <3>1. n \in P!GoodWin
      BY Display, P!NewWinGood DEF DeskInv, P!Titles
    <3>2. w = n
      <4> HIDE DEF n
      <4>1. DOMAIN wins = 1..4 /\ DOMAIN e.wins = 1..5 /\ Append(wins, n)[4 + 1] = n
        BY <1>1, <3>1, Appended DEF n
      <4>2. j = 5 /\ 4 + 1 = 5
        BY <2>3, <4>1
      <4>3. QED
        BY <4>1, <4>2 DEF n
    <3>3. n.y <= 220
      <4> DEFINE q == FbH - P!PANEL_H - P!Height("VSCodium") - 100
      <4>1. n.y = P!PANEL_H + 40 + ((5 * 30) % q)
        BY DEF P!NewWin
      <4>2. q \in Nat /\ q > 0
        BY Display DEF P!PANEL_H, P!Height
      <4>3. (5 * 30) % q <= 150 /\ (5 * 30) % q \in Int
        <5> HIDE DEF q
        <5>1. \A m \in Nat : m > 0 => 150 % m <= 150 /\ 150 % m \in Int
          OBVIOUS
        <5>2. 5 * 30 = 150
          OBVIOUS
        <5>3. QED
          BY <4>2, <5>1, <5>2
      <4>4. QED
        <5> HIDE DEF q, n
        <5>1. QED
          BY <4>1, <4>3 DEF P!PANEL_H
    <3>4. QED
      <4> HIDE DEF w, n
      <4>1. w.y <= 220
        BY <3>2, <3>3
      <4>2. QED
        BY ONLY <1>1, <1>3, <2>1, <4>1
  <2>4. QED
    BY <2>2, <2>3
<1>7. QED
  BY <1>5, <1>6

(* What StackKept says of a step.                                          *)
StackStep ==
  LET s == TitlesOf(wins)
      r == TitlesOf(wins')
  IN \/ r = s
     \/ \E j \in DOMAIN s : r = Append(RemoveAt(s, j), s[j])
     \/ r = Append(s, "VSCodium") /\ "VSCodium" \notin ToSet(s)

LEMMA TitleSeq ==
  ASSUME NEW s \in Seq(P!GoodWin)
  PROVE  /\ TitlesOf(s) \in Seq(P!Titles) /\ DOMAIN TitlesOf(s) = DOMAIN s
         /\ Len(TitlesOf(s)) = Len(s)
         /\ \A i \in DOMAIN s : TitlesOf(s)[i] = s[i].title
<1> DEFINE q == TitlesOf(s)
<1>1. Len(s) \in Nat /\ DOMAIN s = 1..Len(s)
  OBVIOUS
<1>2. q = [i \in 1..Len(s) |-> s[i].title]
  BY <1>1 DEF TitlesOf
<1>3. \A i \in 1..Len(s) : s[i].title \in P!Titles
  BY <1>1 DEF P!GoodWin, P!WinType
<1> HIDE DEF q
<1>4. q \in Seq(P!Titles) /\ Len(q) = Len(s) /\ DOMAIN q = DOMAIN s
      /\ \A i \in DOMAIN s : q[i] = s[i].title
  BY <1>1, <1>2, <1>3
<1>5. QED
  BY <1>4 DEF q

(* Equal lengths and equal places make equal sequences.                    *)
LEMMA SameSeq ==
  ASSUME NEW T, NEW p \in Seq(T), NEW q \in Seq(T), DOMAIN p = DOMAIN q,
         \A i \in DOMAIN p : p[i] = q[i]
  PROVE  p = q
<1>1. Len(p) = Len(q) /\ Len(p) \in Nat
  OBVIOUS
<1>2. p \in [1..Len(p) -> T] /\ q \in [1..Len(p) -> T]
  BY <1>1
<1>3. QED
  BY <1>2

LEMMA AlikeStack ==
  ASSUME wins \in Seq(P!GoodWin), wins' \in Seq(P!GoodWin), Alike(wins, wins')
  PROVE  StackStep
<1>1. TitlesOf(wins') = TitlesOf(wins)
  <2> DEFINE p == TitlesOf(wins)
             q == TitlesOf(wins')
  <2>1. /\ p \in Seq(P!Titles) /\ DOMAIN p = DOMAIN wins
        /\ q \in Seq(P!Titles) /\ DOMAIN q = DOMAIN wins'
        /\ \A i \in DOMAIN wins : p[i] = wins[i].title
        /\ \A i \in DOMAIN wins' : q[i] = wins'[i].title
    BY TitleSeq
  <2> HIDE DEF p, q
  <2>2. DOMAIN p = DOMAIN q /\ \A i \in DOMAIN p : p[i] = q[i]
    BY <2>1 DEF Alike
  <2>3. p = q
    BY <2>1, <2>2, SameSeq
  <2>4. QED
    BY <2>3 DEF p, q
<1>2. QED
  BY <1>1, Zenon DEF StackStep

LEMMA LiftedStack ==
  ASSUME wins \in Seq(P!GoodWin), wins' \in Seq(P!GoodWin), NEW j \in DOMAIN wins, Lifted(wins, wins', j)
  PROVE  StackStep
<1> DEFINE p == TitlesOf(wins)
           q == TitlesOf(wins')
<1>1. /\ p \in Seq(P!Titles) /\ DOMAIN p = DOMAIN wins /\ Len(p) = Len(wins)
      /\ q \in Seq(P!Titles) /\ DOMAIN q = DOMAIN wins'
      /\ \A i \in DOMAIN wins : p[i] = wins[i].title
      /\ \A i \in DOMAIN wins' : q[i] = wins'[i].title
  BY TitleSeq
<1>2. Len(wins) \in Nat /\ DOMAIN wins = 1..Len(wins)
  OBVIOUS
<1> HIDE DEF p, q
<1> DEFINE t == p[j]
           r == Append(RemoveAt(p, j), t)
<1>3. p \in Seq(P!Titles) /\ j \in DOMAIN p /\ t \in P!Titles
  BY <1>1
<1> HIDE DEF t
<1>4. /\ r \in Seq(P!Titles) /\ DOMAIN r = DOMAIN p
      /\ \A i \in DOMAIN p : r[i] = IF i < j THEN p[i] ELSE IF i < Len(p) THEN p[i + 1] ELSE t
  BY ONLY <1>3, Raised
<1> HIDE DEF r
<1>5. DOMAIN q = DOMAIN r
  BY <1>1, <1>4 DEF Lifted
<1>6. ASSUME NEW i \in DOMAIN q PROVE q[i] = r[i]
  <2>1. i \in DOMAIN wins /\ i \in DOMAIN p /\ i \in DOMAIN wins'
    BY <1>1, <1>4, <1>5 DEF Lifted
  <2>2. CASE i < j
    BY <1>1, <1>4, <2>1, <2>2 DEF Lifted
  <2>3. CASE ~(i < j) /\ i < Len(wins)
    <3>1. i + 1 \in DOMAIN wins
      BY <1>2, <2>1, <2>3
    <3>2. QED
      BY <1>1, <1>4, <2>1, <2>3, <3>1 DEF Lifted
  <2>4. CASE ~(i < j) /\ ~(i < Len(wins))
    BY <1>1, <1>4, <2>1, <2>4 DEF Lifted, t
  <2>5. QED
    BY <2>2, <2>3, <2>4
<1>7. q = r
  BY <1>1, <1>4, <1>5, <1>6, SameSeq
<1>8. QED
  BY <1>3, <1>7, Zenon DEF StackStep, p, q, r, t

LEMMA AddedStack ==
  ASSUME wins \in Seq(P!GoodWin), wins' \in Seq(P!GoodWin), NEW r \in Seq(P!GoodWin),
         current_ws \in 0..(WORKSPACES - 1),
         \A i \in DOMAIN wins : wins[i].title # "VSCodium",
         r = Append(wins, P!NewWin("VSCodium", 5, current_ws)), Alike(r, wins')
  PROVE  StackStep
<1> DEFINE n == P!NewWin("VSCodium", 5, current_ws)
           p == TitlesOf(wins)
           q == TitlesOf(wins')
<1>1. /\ p \in Seq(P!Titles) /\ DOMAIN p = DOMAIN wins /\ Len(p) = Len(wins)
      /\ q \in Seq(P!Titles) /\ DOMAIN q = DOMAIN wins'
      /\ \A i \in DOMAIN wins : p[i] = wins[i].title
      /\ \A i \in DOMAIN wins' : q[i] = wins'[i].title
  BY TitleSeq
<1>2. Len(wins) \in Nat /\ DOMAIN wins = 1..Len(wins)
  OBVIOUS
<1>3. n \in P!GoodWin /\ n.title = "VSCodium"
  BY Display, P!NewWinGood DEF P!NewWin, P!Titles
<1> HIDE DEF p, q, n
<1> DEFINE a == Append(p, "VSCodium")
<1>4. /\ a \in Seq(P!Titles) /\ DOMAIN a = 1..(Len(wins) + 1) /\ a[Len(wins) + 1] = "VSCodium"
      /\ \A i \in DOMAIN wins : a[i] = p[i]
  <2>1. "VSCodium" \in P!Titles
    BY DEF P!Titles
  <2>2. QED
    BY <1>1, <2>1, Appended
<1>5. /\ DOMAIN r = 1..(Len(wins) + 1) /\ r[Len(wins) + 1] = n
      /\ \A i \in DOMAIN wins : r[i] = wins[i]
  BY <1>3, Appended DEF n
<1> HIDE DEF a
<1>6. DOMAIN q = DOMAIN a
  BY <1>1, <1>4, <1>5 DEF Alike
<1>7. ASSUME NEW i \in DOMAIN q PROVE q[i] = a[i]
  <2>1. i \in DOMAIN r /\ i \in DOMAIN wins' /\ q[i] = r[i].title
    BY <1>1, <1>4, <1>5, <1>6 DEF Alike
  <2>2. CASE i \in DOMAIN wins
    BY <1>1, <1>4, <1>5, <2>1, <2>2
  <2>3. CASE i \notin DOMAIN wins
    <3>1. i = Len(wins) + 1
      BY <1>2, <1>5, <2>1, <2>3
    <3>2. QED
      BY <1>3, <1>4, <1>5, <2>1, <3>1
  <2>4. QED
    BY <2>2, <2>3
<1>8. q = a
  BY <1>1, <1>4, <1>6, <1>7, SameSeq
<1>9. "VSCodium" \notin ToSet(p)
  BY <1>1 DEF ToSet
<1>10. QED
  BY <1>8, <1>9, Zenon DEF StackStep, p, q, a

(* A launch that adds nothing before a raise does not show.                *)
LEMMA AlikeTrans ==
  ASSUME NEW s, NEW r, NEW q, Alike(s, r)
  PROVE  /\ Alike(r, q) => Alike(s, q)
         /\ \A j \in DOMAIN s : Len(r) = Len(s) /\ s \in Seq(P!GoodWin) /\ Lifted(r, q, j) => Lifted(s, q, j)
<1>1. Alike(r, q) => Alike(s, q)
  BY DEF Alike
<1>2. ASSUME NEW j \in DOMAIN s, Len(r) = Len(s), s \in Seq(P!GoodWin), Lifted(r, q, j)
      PROVE  Lifted(s, q, j)
  <2>1. DOMAIN s = 1..Len(s) /\ Len(s) \in Nat /\ DOMAIN q = DOMAIN s /\ DOMAIN r = DOMAIN s
    BY <1>2 DEF Alike, Lifted
  <2>2. ASSUME NEW i \in DOMAIN s
        PROVE  q[i].title = s[IF i < j THEN i ELSE IF i < Len(s) THEN i + 1 ELSE j].title
    <3> DEFINE k == IF i < j THEN i ELSE IF i < Len(s) THEN i + 1 ELSE j
    <3>1. k \in DOMAIN s
      BY <2>1
    <3>2. q[i].title = r[k].title
      BY <1>2, <2>1 DEF Lifted
    <3> HIDE DEF k
    <3>3. q[i].title = s[k].title
      BY <3>1, <3>2 DEF Alike
    <3>4. QED
      BY <3>3 DEF k
  <2>3. QED
    BY <2>1, <2>2 DEF Lifted
<1>3. QED
  BY <1>1, <1>2

LEMMA StepStack ==
  ASSUME DeskInv, Step
  PROVE  StackStep
<1> DEFINE d == Desk
<1>0. d \in Desks /\ d.wins = wins /\ d.aw = aw /\ Stacked(d.wins)
      /\ current_ws \in 0..(WORKSPACES - 1) /\ mx \in Int /\ my \in Int
      /\ d.aw \in DOMAIN d.wins /\ wins \in Seq(P!GoodWin)
  BY DEF Desk, Desks, DeskInv
<1>w. wins' \in Seq(P!GoodWin)
  BY StepKeeps
<1>1. CASE Alike(wins, wins')
  BY <1>0, <1>w, <1>1, AlikeStack
<1>2. CASE wins' = wins
  BY <1>1, <1>2 DEF Alike
<1>3. CASE Launched(d, After, "VSCodium")
  <2> HIDE DEF d
  <2>1. \/ Alike(d.wins, After.wins)
        \/ /\ \A i \in DOMAIN d.wins : d.wins[i].title # "VSCodium"
           /\ After.wins = Append(d.wins, P!NewWin("VSCodium", 5, current_ws))
    BY <1>0, <1>3, LaunchedKeeps
  <2>2. \/ Alike(wins, wins')
        \/ /\ \A i \in DOMAIN wins : wins[i].title # "VSCodium"
           /\ wins' = Append(wins, P!NewWin("VSCodium", 5, current_ws))
    BY <1>0, <2>1 DEF After
  <2>3. Alike(wins', wins')
    BY DEF Alike
  <2>4. QED
    BY <1>0, <1>1, <1>w, <2>2, <2>3, AddedStack
<1>4. CASE /\ pc = "click" /\ mclick
           /\ \E e : /\ \/ e = d
                        \/ \E t \in IconHits \cup DockHits : Launched(d, e, t)
                     /\ Framed(e, After)
  <2>1. PICK e : /\ \/ e = d
                    \/ \E t \in IconHits \cup DockHits : Launched(d, e, t)
                 /\ Framed(e, After)
    BY <1>4
  <2> HIDE DEF d
  <2>2. e \in Desks /\ e.aw \in DOMAIN e.wins /\ e.wins \in Seq(P!GoodWin)
    BY <1>0, <2>1 DEF Launched, Desks
  <2>3. \/ Alike(wins, e.wins)
        \/ /\ \A i \in DOMAIN wins : wins[i].title # "VSCodium"
           /\ Len(wins) = 4
           /\ "VSCodium" \in IconHits \cup DockHits
           /\ e.wins = Append(wins, P!NewWin("VSCodium", 5, current_ws))
    <3>1. CASE e = d
      BY <1>0, <3>1 DEF Alike
    <3>2. CASE \E t \in IconHits \cup DockHits : Launched(d, e, t)
      <4>1. PICK t \in IconHits \cup DockHits : Launched(d, e, t)
        BY <3>2
      <4>2. \/ Alike(d.wins, e.wins)
            \/ /\ \A i \in DOMAIN d.wins : d.wins[i].title # "VSCodium"
               /\ Len(d.wins) = 4
               /\ t = "VSCodium"
               /\ e.wins = Append(d.wins, P!NewWin("VSCodium", 5, current_ws))
        BY <1>0, <4>1, LaunchedKeeps
      <4>3. QED
        BY <1>0, <4>1, <4>2
    <3>3. QED
      BY <2>1, <3>1, <3>2
  <2>4. \/ Alike(e.wins, wins')
        \/ \E j \in DOMAIN e.wins :
             /\ P!Shown(e.wins[j]) /\ OnTitle(e.wins[j])
             /\ Lifted(e.wins, wins', j)
    BY <1>0, <2>1, <2>2, FramedKeeps DEF After
  <2>5. CASE Alike(wins, e.wins)
    <3>1. DOMAIN e.wins = DOMAIN wins /\ Len(e.wins) = Len(wins)
      <4> DEFINE s == e.wins
      <4>1. s \in Seq(P!GoodWin) /\ DOMAIN s = DOMAIN wins
        BY <2>2, <2>5 DEF Alike
      <4> HIDE DEF s
      <4>2. Len(s) = Len(wins)
        BY <1>0, <4>1
      <4>3. QED
        BY <4>1, <4>2 DEF s
    <3>2. Alike(wins, wins') \/ \E j \in DOMAIN wins : Lifted(wins, wins', j)
      BY <1>0, <2>4, <2>5, <3>1, AlikeTrans
    <3>3. QED
      BY <1>0, <1>1, <1>w, <3>2, LiftedStack
  <2>6. CASE /\ \A i \in DOMAIN wins : wins[i].title # "VSCodium"
             /\ Len(wins) = 4
             /\ "VSCodium" \in IconHits \cup DockHits
             /\ e.wins = Append(wins, P!NewWin("VSCodium", 5, current_ws))
    <3>1. \A j \in DOMAIN e.wins : ~(P!Shown(e.wins[j]) /\ OnTitle(e.wins[j]))
      BY <2>2, <2>6, NothingRaised
    <3>2. Alike(e.wins, wins')
      BY <2>4, <3>1
    <3>3. QED
      BY <1>0, <1>w, <2>2, <2>6, <3>2, AddedStack
  <2>7. QED
    BY <2>3, <2>5, <2>6
<1>5. QED
  BY <1>1, <1>2, <1>3, <1>4, Zenon DEF Step

(* No click, key or motion loses, doubles or reorders a window: raising is *)
(* a move to the end, and a click that adds VSCodium's window raises none  *)
(* (the memmove in main's title bar branch, the launchers).                *)
THEOREM Stacks == Spec => StackKept
<1>1. DeskInv /\ [Next]_vars => [StackStep]_vars
  BY NextStep, StepStack
<1>2. Spec => [][StackStep]_vars
  BY <1>1, AlwaysDesk, PTL DEF Spec
<1>3. QED
  BY <1>2, PTL DEF StackKept, StackStep

(* What FocusFollows says of a step.                                       *)
FocusStep ==
  wins'[aw'].title # wins[aw].title =>
    \/ wins' = wins /\ pc = "poll"
    \/ ~wins'[aw'].hidden /\ wins'[aw'].ws = current_ws
    \/ pc = "click" /\ OnHide(wins'[aw'])

LEMMA StepFocus ==
  ASSUME DeskInv, Step
  PROVE  FocusStep
<1> DEFINE d == Desk
           Seen(w) == w.hidden = FALSE /\ w.ws = current_ws
<1>0. d \in Desks /\ d.wins = wins /\ d.aw = aw /\ Stacked(d.wins)
      /\ current_ws \in 0..(WORKSPACES - 1) /\ mx \in Int /\ my \in Int
      /\ d.aw \in DOMAIN d.wins /\ wins \in Seq(P!GoodWin) /\ aw \in DOMAIN wins
  BY DEF Desk, Desks, DeskInv
<1>1. CASE aw' = aw /\ Alike(wins, wins')
  BY <1>0, <1>1 DEF Alike, FocusStep
<1>2. CASE wins' = wins /\ pc = "poll"
  BY <1>2 DEF FocusStep
<1>3. CASE Launched(d, After, "VSCodium")
  BY <1>3, Zenon DEF Launched, After, P!Shown, FocusStep
<1>4. CASE /\ pc = "click" /\ mclick
           /\ \E e : /\ \/ e = d
                        \/ \E t \in IconHits \cup DockHits : Launched(d, e, t)
                     /\ Framed(e, After)
  <2>1. PICK e : /\ \/ e = d
                    \/ \E t \in IconHits \cup DockHits : Launched(d, e, t)
                 /\ Framed(e, After)
    BY <1>4
  <2> HIDE DEF d
  <2>2. e \in Desks /\ e.aw \in DOMAIN e.wins /\ e.wins \in Seq(P!GoodWin)
    BY <1>0, <2>1 DEF Launched, Desks
  <2>3. (e.wins = wins /\ e.aw = aw) \/ P!Shown(e.wins[e.aw])
    BY <1>0, <2>1 DEF Launched
  <2>4. \/ /\ Alike(e.wins, wins') /\ aw' = e.aw
           /\ Touched(e.wins[e.aw], wins'[aw'])
        \/ \E j \in DOMAIN e.wins :
             P!Shown(e.wins[j]) /\ wins'[aw'] = P!Grabbed(e.wins[j])
    BY <1>0, <2>1, <2>2, FramedKeeps DEF After
  <2>5. CASE \E j \in DOMAIN e.wins :
               P!Shown(e.wins[j]) /\ wins'[aw'] = P!Grabbed(e.wins[j])
    <3>1. PICK j \in DOMAIN e.wins :
               P!Shown(e.wins[j]) /\ wins'[aw'] = P!Grabbed(e.wins[j])
      BY <2>5
    <3>2. e.wins[j] \in P!WinType
      BY <2>2 DEF P!GoodWin
    <3>3. QED
      BY <3>1, <3>2, Display, P!KeepsView DEF P!Shown, FocusStep
  <2>6. CASE Alike(e.wins, wins') /\ aw' = e.aw /\ e.wins = wins /\ e.aw = aw
    BY <1>1, <2>6
  <2>7. CASE P!Shown(e.wins[e.aw]) /\ Touched(e.wins[e.aw], wins'[aw'])
    <3>1. \A w \in P!WinType : P!Shown(w) /\ Touched(w, wins'[aw']) =>
             \/ ~wins'[aw'].hidden /\ wins'[aw'].ws = current_ws
             \/ OnHide(wins'[aw'])
      <4>1. \A w \in P!WinType : /\ P!ToggleMaximize(w).hidden = w.hidden
                               /\ P!ToggleMaximize(w).ws = w.ws
        BY DEF P!WinType, P!ToggleMaximize, P!Maximized, P!Restored
      <4>2. \A w \in P!WinType : P!OnHide(w) => OnHide(P!Hidden(w))
        BY SameWindows DEF P!WinType, P!Hidden, P!OnHide, P!OnButton
      <4>3. QED
        BY <4>1, <4>2, Zenon DEF Touched, P!Shown
    <3>2. e.wins[e.aw] \in P!WinType
      BY <2>2 DEF P!GoodWin
    <3>3. QED
      BY <1>4, <2>7, <3>1, <3>2, Zenon DEF FocusStep
  <2>8. QED
    BY <2>3, <2>4, <2>5, <2>6, <2>7
<1>5. QED
  BY <1>1, <1>2, <1>3, <1>4, Zenon DEF Step

(* The index aw follows the focused window through every raise and launch  *)
(* (main's click branches), on a display of any size.                      *)
THEOREM FocusStays == Spec => FocusFollows
<1>1. DeskInv /\ [Next]_vars => [FocusStep]_vars
  BY NextStep, StepFocus
<1>2. Spec => [][FocusStep]_vars
  BY <1>1, AlwaysDesk, PTL DEF Spec
<1>3. QED
  BY <1>2, PTL DEF FocusFollows, FocusStep
=============================================================================
