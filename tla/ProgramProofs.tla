---------------------------- MODULE ProgramProofs ----------------------------
(***************************************************************************)
(* Theorems about the programs that come with the system: Editor, Paint    *)
(* and FastWords.                                                          *)
(***************************************************************************)
EXTENDS Editor, Paint, FastWords, SequenceTheorems, WellFoundedInduction, TLAPS

(***************************************************************************)
(* Editor: the mark of unsaved changes of AmnesiaIDE tells the truth,      *)
(* whatever the paths, the texts and the number of windows.                *)
(*                                                                         *)
(* CleanMatchesDisk is inductive as it stands.  A handler that takes the   *)
(* mark away knows the file from the disk the step leaves (Opened, Saved); *)
(* every other one that changes the disk watches the editor's file         *)
(* (Watched).                                                              *)
(***************************************************************************)

(* open_file shows what the file holds, or leaves the editor alone.        *)
LEMMA Opened ==
  ASSUME CleanMatchesDisk, NEW s, OpenFile(s)
  PROVE  CleanMatchesDisk'
PROOF
<1>1. CASE Entry(disk', Abs(s)) \in Texts
  <2>1. Abs(s) \in DOMAIN disk'
    BY <1>1, EditorAssumption DEF Entry
  <2>2. file_path' = s /\ text' = disk'[Abs(s)]
    BY <1>1 DEF OpenFile
  <2> QED
    BY <2>1, <2>2 DEF CleanMatchesDisk, Entry
<1>2. CASE Entry(disk', Abs(s)) \notin Texts
  <2>1. UNCHANGED editor /\ Watch
    BY <1>2 DEF OpenFile
  <2> QED
    BY <2>1 DEF CleanMatchesDisk, Watch, editor
<1> QED
  BY <1>1, <1>2

(* A step that watches the editor's file and leaves the editor alone.      *)
LEMMA Watched ==
  ASSUME CleanMatchesDisk, Watch, UNCHANGED editor
  PROVE  CleanMatchesDisk'
PROOF
  BY DEF CleanMatchesDisk, Watch, editor

(* A step that changes neither the disk nor the editor.                    *)
LEMMA Untouched ==
  ASSUME CleanMatchesDisk, UNCHANGED <<disk, editor, touched>>
  PROVE  CleanMatchesDisk'
PROOF
  BY DEF CleanMatchesDisk, editor

(* What was written is what a file holds.                                  *)
LEMMA PutHolds ==
  ASSUME NEW d, NEW p, NEW c
  PROVE  Entry(Put(d, p, c), p) = c
PROOF
  BY DEF Entry, Put

(* save_file takes the mark away only with the text on the disk.           *)
LEMMA Saved ==
  ASSUME CleanMatchesDisk, NEW s, SaveFile(s)
  PROVE  CleanMatchesDisk'
PROOF
<1>1. PICK w \in Written(disk, Abs(s), text) :
        /\ disk' = w.disk
        /\ IF w.ok
           THEN file_path' = s /\ dirty' = FALSE /\ UNCHANGED text /\ touched' = FALSE
           ELSE UNCHANGED editor /\ Watch
  BY DEF SaveFile
<1>2. CASE w.ok
  <2>1. w.disk = Put(disk, Abs(s), text)
    BY <1>2 DEF Written
  <2>2. Entry(disk', Abs(s)) = text
    BY <1>1, <2>1, PutHolds
  <2> QED
    BY <1>1, <1>2, <2>2 DEF CleanMatchesDisk
<1>3. CASE ~w.ok
  BY <1>1, <1>3, Watched
<1> QED
  BY <1>2, <1>3

(* new_file opens what it created, or does nothing.                        *)
LEMMA Created ==
  ASSUME CleanMatchesDisk, NEW s, NewFile(s)
  PROVE  CleanMatchesDisk'
PROOF
<1>1. OpenFile(InWorkspace(s)) \/ UNCHANGED <<disk, editor, touched>>
  BY DEF NewFile
<1> QED
  BY <1>1, Opened, Untouched

(* Deleting the file of the editor leaves the text without a file.         *)
LEMMA Deleted ==
  ASSUME CleanMatchesDisk, MenuDelete
  PROVE  CleanMatchesDisk'
PROOF
<1>1. file_path' = None \/ (Watch /\ UNCHANGED editor)
  BY DEF MenuDelete
<1> QED
  BY <1>1, Watched DEF CleanMatchesDisk

(* Renaming the file of the editor opens it under its new name.            *)
LEMMA Renamed ==
  ASSUME CleanMatchesDisk, Rename
  PROVE  CleanMatchesDisk'
PROOF
<1>1. PICK n \in NewNames :
        \/ OpenFile(Front(rename_target) \o <<n>>)
        \/ Watch /\ UNCHANGED editor
        \/ UNCHANGED <<disk, editor, touched>>
  BY DEF Rename
<1> QED
  BY <1>1, Opened, Watched, Untouched

(* Every step of the editor and of other programs keeps CleanMatchesDisk.  *)
LEMMA CleanStep ==
  ASSUME CleanMatchesDisk, [Next]_vars
  PROVE  CleanMatchesDisk'
PROOF
<1>1. CASE Edit
  BY <1>1 DEF Edit, CleanMatchesDisk
<1>2. CASE Save
  BY <1>2, Saved, Untouched DEF Save
<1>3. CASE CompileRun
  BY <1>3, Saved, Untouched DEF CompileRun
<1>4. CASE ConfirmFile
  <2>1. PICK s \in Typed : OpenFile(s) \/ SaveFile(s) \/ NewFile(s)
    BY <1>4 DEF ConfirmFile
  <2> QED
    BY <2>1, Opened, Saved, Created
<1>5. CASE ConfirmWorkspace
  BY <1>5, Watched DEF ConfirmWorkspace
<1>6. CASE ClickFile
  <2>1. PICK e \in ws.files : OpenFile(e.path)
    BY <1>6 DEF ClickFile
  <2> QED
    BY <2>1, Opened
<1>7. CASE MenuOpen
  BY <1>7, Opened DEF MenuOpen
<1>8. CASE MenuDelete
  BY <1>8, Deleted
<1>9. CASE Rename
  BY <1>9, Renamed
<1>10. CASE CreateProject
  BY <1>10, Watched DEF CreateProject
<1>11. CASE OtherProgram
  BY <1>11, Watched DEF OtherProgram
<1>12. CASE ShowDialog \/ Cancel \/ Escape \/ CloseWorkspace \/ Reopen
              \/ RefreshFiles \/ ShowMenu \/ MenuRename \/ UNCHANGED vars
  <2>1. UNCHANGED <<disk, editor, touched>>
    BY <1>12 DEF ShowDialog, Cancel, Escape, CloseWorkspace, Reopen, RefreshFiles,
                 ShowMenu, MenuRename, vars
  <2> QED
    BY <2>1, Untouched
<1> QED
  BY <1>1, <1>2, <1>3, <1>4, <1>5, <1>6, <1>7, <1>8, <1>9, <1>10, <1>11, <1>12 DEF Next

(* Without its mark of unsaved changes the text is what its file holds,    *)
(* after every sequence of clicks and keys and every failure of the disk.  *)
THEOREM CleanIsSaved == Spec => []CleanMatchesDisk
PROOF
<1>1. Init => CleanMatchesDisk
  BY DEF Init, CleanMatchesDisk, None
<1>2. CleanMatchesDisk /\ [Next]_vars => CleanMatchesDisk'
  BY CleanStep
<1> QED
  BY <1>1, <1>2, PTL DEF Spec

(***************************************************************************)
(* Editor: paths.  What Abs computes is shown by the least place at which  *)
(* it could be wrong.                                                      *)
(***************************************************************************)
LEMMA Smallest ==
  ASSUME NEW T, T \subseteq Nat, T # {}
  PROVE  \E x \in T : \A y \in T : x <= y
<1>1. PICK x \in T : \A y \in T : ~(<<y, x>> \in OpToRel(<, Nat))
  BY NatLessThanWellFounded, WFMin
<1>2. ASSUME NEW y \in T PROVE x <= y
  <2>1. x \in Nat /\ y \in Nat /\ ~(y < x)
    BY <1>1 DEF OpToRel
  <2>2. QED
    BY ONLY <2>1
<1>3. QED
  BY <1>1, <1>2

(* A recursive function on 0..n, given by its first value and by each      *)
(* value from the one before.                                              *)
Longer(p, x) == IF x = ROOT THEN p ELSE Append(p, x)
Kept(k, s, n) ==
  k = [i \in 0..n |-> IF i = 0 THEN <<ROOT>> ELSE Longer(k[i - 1], s[i])]

LEMMA KeptExists ==
  ASSUME NEW s, NEW n \in Nat
  PROVE  \E k : Kept(k, s, n)
<1> DEFINE Bad == {m \in Nat : ~\E k : Kept(k, s, m)}
<1>1. SUFFICES ASSUME Bad # {} PROVE FALSE
  OBVIOUS
<1>2. PICK m \in Bad : \A j \in Bad : m <= j
  BY <1>1, Smallest
<1>3. CASE m = 0
  <2>1. Kept([i \in 0..0 |-> <<ROOT>>], s, 0)
    BY DEF Kept
  <2>2. QED
    BY <1>2, <1>3, <2>1
<1>4. CASE m # 0
  <2>1. m \in Nat /\ m - 1 \in Nat /\ m - 1 \notin Bad
    BY <1>2, <1>4
  <2>2. PICK f : Kept(f, s, m - 1)
    BY <2>1
  <2> DEFINE g == [i \in 0..m |-> IF i = 0 THEN <<ROOT>> ELSE Longer(f[i - 1], s[i])]
  <2> HIDE DEF Bad
  <2>3. \A i \in 0..m - 1 : g[i] = f[i]
    BY <2>1, <2>2 DEF Kept
  <2>4. \A i \in 0..m : i # 0 => i - 1 \in 0..m - 1
    BY <2>1
  <2>5. Kept(g, s, m)
    BY <2>3, <2>4 DEF Kept
  <2>6. QED
    BY <1>2, <2>5 DEF Bad
<1>5. QED
  BY <1>3, <1>4

LEMMA ResolvedKept ==
  ASSUME NEW s \in Paths
  PROVE  \E k : Kept(k, s, Len(s)) /\ Resolved(s) = k[Len(s)]
<1> DEFINE k == CHOOSE k : Kept(k, s, Len(s))
<1>1. Kept(k, s, Len(s))
  BY KeptExists DEF Paths
<1>2. Resolved(s) = k[Len(s)]
  BY DEF Resolved, Kept, Longer
<1>3. QED
  BY <1>1, <1>2

LEMMA ResolvedNone == Resolved(<<>>) = <<ROOT>>
<1>1. <<>> \in Paths /\ Len(<<>>) = 0
  BY DEF Paths
<1>2. QED
  BY <1>1, ResolvedKept DEF Kept

LEMMA ResolvedAppend ==
  ASSUME NEW s \in Paths, NEW x \in Names \cup {ROOT}
  PROVE  Resolved(Append(s, x)) = Longer(Resolved(s), x)
<1> DEFINE t == Append(s, x)
           n == Len(s)
<1>1. n \in Nat /\ t \in Paths /\ Len(t) = n + 1 /\ t[n + 1] = x
      /\ \A i \in 1..n : t[i] = s[i]
  BY AppendProperties DEF Paths
<1>2. PICK f : Kept(f, s, n) /\ Resolved(s) = f[n]
  BY ResolvedKept
<1>3. PICK g : Kept(g, t, n + 1) /\ Resolved(t) = g[n + 1]
  BY <1>1, ResolvedKept
<1> HIDE DEF t, n
<1>4. /\ f[0] = g[0]
      /\ \A i \in 1..n : f[i - 1] = g[i - 1] => f[i] = g[i]
  <2>1. f[0] = <<ROOT>> /\ \A i \in 1..n : f[i] = Longer(f[i - 1], s[i])
    BY <1>1, <1>2 DEF Kept
  <2>2. g[0] = <<ROOT>> /\ \A i \in 1..n : g[i] = Longer(g[i - 1], t[i])
    BY <1>1, <1>3 DEF Kept
  <2>3. QED
    BY <1>1, <2>1, <2>2
<1>5. \A i \in 0..n : f[i] = g[i]
  <2> DEFINE Bad == {i \in 0..n : f[i] # g[i]}
  <2>1. SUFFICES ASSUME Bad # {} PROVE FALSE
    OBVIOUS
  <2>2. PICK m \in Bad : \A j \in Bad : m <= j
    <3>1. Bad \subseteq Nat
      BY <1>1
    <3> HIDE DEF Bad
    <3>2. QED
      BY <2>1, <3>1, Smallest
  <2>3. m \in 1..n
    BY <1>1, <1>4, <2>2
  <2>4. m - 1 \in 0..n /\ m - 1 \notin Bad
    BY <1>1, <2>2, <2>3
  <2>5. QED
    BY <1>4, <2>2, <2>3, <2>4
<1>6. g[n + 1] = Longer(g[n], x)
  <2>1. n + 1 \in 0..n + 1 /\ n + 1 # 0 /\ (n + 1) - 1 = n
    BY <1>1
  <2>2. QED
    BY <1>1, <1>3, <2>1 DEF Kept
<1>7. QED
  BY <1>1, <1>2, <1>3, <1>5, <1>6 DEF t

(* Induction on sequences, of a set of them.                               *)
LEMMA AllSequences ==
  ASSUME NEW S, NEW T, <<>> \in T, \A s \in Seq(S), x \in S : s \in T => Append(s, x) \in T
  PROVE  Seq(S) \subseteq T
<1> DEFINE Bad == {Len(s) : s \in Seq(S) \ T}
<1>1. SUFFICES ASSUME Bad # {} PROVE FALSE
  OBVIOUS
<1>2. Bad \subseteq Nat
  OBVIOUS
<1>3. PICK m \in Bad : \A j \in Bad : m <= j
  <2> HIDE DEF Bad
  <2>1. QED
    BY <1>1, <1>2, Smallest
<1>4. PICK s \in Seq(S) \ T : m = Len(s)
  BY <1>3
<1>5. PICK q \in Seq(S), x \in S : s = Append(q, x)
  BY <1>4, SequenceEmptyOrAppend
<1>6. m = Len(q) + 1 /\ Len(q) \in Nat
  BY <1>4, <1>5, AppendProperties
<1>7. Len(q) \notin Bad
  BY <1>3, <1>6
<1>8. q \in T
  BY <1>7
<1>9. QED
  BY <1>4, <1>5, <1>8

RootPaths == {p \in Paths : IsResolved(p)}

LEMMA LongerGood ==
  ASSUME NEW p \in RootPaths, NEW x \in Names \cup {ROOT}
  PROVE  Longer(p, x) \in RootPaths
<1>1. CASE x = ROOT
  BY <1>1 DEF Longer
<1>2. CASE x # ROOT
  <2> DEFINE q == Append(p, x)
  <2>1. p \in Paths /\ p # <<>> /\ p[1] = ROOT /\ \A i \in 2..Len(p) : p[i] \in Names
    BY DEF RootPaths, IsResolved, IsAbsolute
  <2>2. Len(p) \in Nat \ {0}
    BY <2>1, EmptySeq DEF Paths
  <2>3. /\ q \in Paths /\ q # <<>> /\ Len(q) = Len(p) + 1 /\ q[Len(p) + 1] = x
        /\ \A i \in 1..Len(p) : q[i] = p[i]
    BY <2>1, AppendProperties DEF Paths
  <2> HIDE DEF q
  <2>4. \A i \in 2..Len(q) : (i \in 2..Len(p) /\ i \in 1..Len(p)) \/ i = Len(p) + 1
    BY <2>2, <2>3
  <2>5. \A i \in 2..Len(q) : q[i] \in Names
    BY <1>2, <2>1, <2>3, <2>4
  <2>6. q[1] = ROOT
    BY <2>1, <2>2, <2>3
  <2>7. q \in RootPaths
    BY <2>3, <2>5, <2>6 DEF RootPaths, IsResolved, IsAbsolute
  <2>8. QED
    BY <1>2, <2>7 DEF Longer, q
<1>3. QED
  BY <1>1, <1>2

LEMMA ResolvedGood ==
  ASSUME NEW s \in Paths
  PROVE  Resolved(s) \in RootPaths
<1> DEFINE T == {p \in Paths : Resolved(p) \in RootPaths}
<1>1. <<>> \in T
  <2>1. <<ROOT>> \in Paths /\ IsResolved(<<ROOT>>) /\ <<>> \in Paths
    BY DEF Paths, IsResolved, IsAbsolute
  <2>2. QED
    BY <2>1, ResolvedNone DEF RootPaths
<1>2. \A p \in Seq(Names \cup {ROOT}), x \in Names \cup {ROOT} : p \in T => Append(p, x) \in T
  BY ResolvedAppend, LongerGood, AppendProperties DEF Paths
<1> HIDE DEF T
<1>3. Paths \subseteq T
  BY <1>1, <1>2, AllSequences DEF Paths
<1>4. QED
  BY <1>3 DEF T

LEMMA NamesArePaths == Seq(Names) \subseteq Paths
<1>1. Names \subseteq Names \cup {ROOT}
  OBVIOUS
<1>2. QED
  BY <1>1 DEF Paths

LEMMA ResolvedBelow ==
  ASSUME NEW s \in Paths, NEW r \in Seq(Names)
  PROVE  Resolved(s \o r) = Resolved(s) \o r
<1> DEFINE T == {q \in Seq(Names) : Resolved(s \o q) = Resolved(s) \o q}
<1>1. Resolved(s) \in Paths
  BY ResolvedGood DEF RootPaths
<1>2. <<>> \in T
  BY <1>1, ConcatEmptySeq DEF Paths
<1>3. ASSUME NEW q \in Seq(Names), NEW x \in Names, Resolved(s \o q) = Resolved(s) \o q
      PROVE  Resolved(s \o Append(q, x)) = Resolved(s) \o Append(q, x)
  <2>1. q \in Paths /\ <<x>> \in Paths /\ s \o q \in Paths /\ x # ROOT
        /\ Append(q, x) = q \o <<x>>
    BY NamesArePaths, AppendIsConcat, ConcatProperties, EditorAssumption DEF Paths
  <2>2. \A p \in Paths : p \o Append(q, x) = Append(p \o q, x)
    <3> SUFFICES ASSUME NEW p \in Paths PROVE p \o Append(q, x) = Append(p \o q, x)
      OBVIOUS
    <3>1. p \o q \in Paths
      BY <2>1, ConcatProperties DEF Paths
    <3>2. p \o (q \o <<x>>) = (p \o q) \o <<x>>
      BY <2>1, ConcatAssociative DEF Paths
    <3>3. Append(p \o q, x) = (p \o q) \o <<x>>
      BY <3>1, AppendIsConcat DEF Paths
    <3>4. QED
      BY <2>1, <3>2, <3>3
  <2>3. Resolved(Append(s \o q, x)) = Append(Resolved(s \o q), x)
    BY <2>1, ResolvedAppend DEF Longer
  <2>4. QED
    BY <1>1, <1>3, <2>2, <2>3
<1>4. \A q \in Seq(Names), x \in Names : q \in T => Append(q, x) \in T
  BY <1>3, AppendProperties
<1> HIDE DEF T
<1>5. Seq(Names) \subseteq T
  BY <1>2, <1>4, AllSequences
<1>6. QED
  BY <1>5 DEF T

(* What Abs makes of a path is one from the root, and names below the path *)
(* stay names below it.                                                    *)
LEMMA AbsGood ==
  ASSUME NEW s \in Paths
  PROVE  Abs(s) \in RootPaths /\ \A r \in Seq(Names) : s \o r \in Paths /\ Abs(s \o r) = Abs(s) \o r
<1>1. Cwd \in Paths
  BY EditorAssumption
<1>2. \A p \in Paths, q \in Paths : p \o q \in Paths
  BY ConcatProperties DEF Paths
<1>3. Abs(s) \in RootPaths
  BY <1>1, <1>2, ResolvedGood DEF Abs
<1>4. ASSUME NEW r \in Seq(Names) PROVE Abs(s \o r) = Abs(s) \o r
  <2>1. r \in Paths /\ s \o r \in Paths /\ Cwd \o s \in Paths
    BY <1>1, <1>2, NamesArePaths
  <2>2. CASE r = <<>>
    <3>1. s \o r = s /\ Abs(s) \o r = Abs(s)
      BY <1>3, <2>2, ConcatEmptySeq DEF Paths, RootPaths
    <3>2. QED
      BY <3>1
  <2>3. CASE r # <<>>
    <3>1. IsAbsolute(s \o r) = IsAbsolute(s)
      <4>1. CASE s = <<>>
        <5>1. s \o r = r /\ r[1] \in Names
          BY <2>1, <2>3, <4>1, EmptySeq, ConcatEmptySeq DEF Paths
        <5>2. QED
          BY <4>1, <5>1, EditorAssumption DEF IsAbsolute
      <4>2. CASE s # <<>>
        <5>1. Len(s) \in Nat \ {0} /\ Len(r) \in Nat
          BY <2>1, <4>2, EmptySeq DEF Paths
        <5>2. (s \o r)[1] = s[1] /\ Len(s \o r) # 0
          BY <2>1, <5>1, ConcatProperties DEF Paths
        <5>3. s \o r # <<>>
          BY <5>2, EmptySeq
        <5>4. QED
          BY <4>2, <5>2, <5>3 DEF IsAbsolute
      <4>3. QED
        BY <4>1, <4>2
    <3>2. (Cwd \o s) \o r = Cwd \o (s \o r)
      BY <1>1, <2>1, ConcatAssociative DEF Paths
    <3>3. QED
      BY <2>1, <3>1, <3>2, ResolvedBelow DEF Abs
  <2>4. QED
    BY <2>2, <2>3
<1>5. QED
  BY <1>2, <1>3, <1>4, NamesArePaths

(***************************************************************************)
(* Disks.  Each path of one is from the root; what a step that scans       *)
(* nothing does to it keeps every entry, and each directory one.           *)
(***************************************************************************)
Rooted(d) == DOMAIN d \subseteq RootPaths
Keeps(d, e) == \A p \in DOMAIN d : p \in DOMAIN e /\ IsDir(e, p) = IsDir(d, p)
Entries == [path : Paths \ {<<>>}, is_dir : BOOLEAN]
Listed(d, F) ==
  \A e \in F : Abs(e.path) \in DOMAIN d /\ e.is_dir = IsDir(d, Abs(e.path))

LEMMA RootPathParts ==
  ASSUME NEW p \in RootPaths
  PROVE  /\ p \in Paths /\ Len(p) \in Nat \ {0} /\ p[1] = ROOT
         /\ \A i \in 2..Len(p) : p[i] \in Names
<1>1. p \in Paths /\ p # <<>> /\ p[1] = ROOT /\ \A i \in 2..Len(p) : p[i] \in Names
  BY DEF RootPaths, IsResolved, IsAbsolute
<1>2. QED
  BY <1>1, EmptySeq DEF Paths

(* Below a path from the root are names only.                              *)
LEMMA TailGood ==
  ASSUME NEW q \in RootPaths, NEW n \in Nat \ {0}
  PROVE  /\ SubSeq(q, n + 1, Len(q)) \in Seq(Names)
         /\ Len(SubSeq(q, n + 1, Len(q))) = IF n + 1 <= Len(q) THEN Len(q) - n ELSE 0
         /\ \A i \in 1..Len(q) - n : SubSeq(q, n + 1, Len(q))[i] = q[n + i]
<1>1. Len(q) \in Nat /\ \A i \in n + 1..Len(q) : q[i] \in Names
  BY RootPathParts
<1>2. /\ SubSeq(q, n + 1, Len(q)) \in Seq(Names)
      /\ Len(SubSeq(q, n + 1, Len(q))) = IF n + 1 <= Len(q) THEN Len(q) - (n + 1) + 1 ELSE 0
      /\ \A i \in 1..Len(q) - (n + 1) + 1 : SubSeq(q, n + 1, Len(q))[i] = q[(n + 1) + i - 1]
  BY <1>1, SubSeqProperties
<1>3. QED
  BY <1>1, <1>2

LEMMA ExtendedGood ==
  ASSUME NEW p \in RootPaths, NEW r \in Seq(Names)
  PROVE  p \o r \in RootPaths
<1>1. /\ p \in Seq(Names \cup {ROOT}) /\ r \in Seq(Names \cup {ROOT})
      /\ Len(p) \in Nat \ {0} /\ Len(r) \in Nat /\ p[1] = ROOT
      /\ \A i \in 2..Len(p) : p[i] \in Names
      /\ \A i \in 1..Len(r) : r[i] \in Names
  BY RootPathParts, NamesArePaths, ElementOfSeq DEF Paths
<1>2. /\ p \o r \in Seq(Names \cup {ROOT}) /\ Len(p \o r) = Len(p) + Len(r)
      /\ \A i \in 1..Len(p) + Len(r) : (p \o r)[i] = IF i <= Len(p) THEN p[i] ELSE r[i - Len(p)]
  BY <1>1, ConcatProperties
<1>3. (p \o r)[1] = ROOT /\ p \o r # <<>>
  BY <1>1, <1>2, EmptySeq
<1>4. ASSUME NEW i \in 2..Len(p \o r) PROVE (p \o r)[i] \in Names
  <2>1. CASE i <= Len(p)
    BY <1>1, <1>2, <2>1
  <2>2. CASE ~(i <= Len(p))
    <3>1. i - Len(p) \in 1..Len(r)
      BY <1>1, <1>2, <2>2
    <3>2. QED
      BY <1>1, <1>2, <2>2, <3>1
  <2>3. QED
    BY <2>1, <2>2
<1>5. QED
  BY <1>2, <1>3, <1>4 DEF RootPaths, IsResolved, IsAbsolute, Paths

(* A scan lists what there is.                                             *)
LEMMA ScanTrue ==
  ASSUME NEW d, Rooted(d), NEW s \in Paths
  PROVE  Scan(d, s) \subseteq Entries /\ Listed(d, Scan(d, s))
<1> DEFINE top == Abs(s)
<1>1. ASSUME NEW e \in Scan(d, s)
      PROVE  e \in Entries /\ Abs(e.path) \in DOMAIN d /\ e.is_dir = IsDir(d, Abs(e.path))
  <2>1. PICK q \in DOMAIN d :
          /\ IsStrictPrefix(top, q)
          /\ e = [path |-> s \o SubSeq(q, Len(top) + 1, Len(q)), is_dir |-> IsDir(d, q)]
    BY <1>1, Zenon DEF Scan
  <2> DEFINE r == SubSeq(q, Len(top) + 1, Len(q))
             n == Len(top)
  <2>2. q \in RootPaths /\ top \in RootPaths
    BY AbsGood DEF Rooted
  <2>3. /\ q \in Seq(Names \cup {ROOT}) /\ top \in Seq(Names \cup {ROOT})
        /\ Len(q) \in Nat /\ n \in Nat \ {0}
    BY <2>2, RootPathParts DEF Paths
  <2>4. n <= Len(q) /\ SubSeq(top, 1, n) = SubSeq(q, 1, n) /\ top # q
    BY <2>1 DEF IsStrictPrefix, IsPrefix
  <2>5. top = SubSeq(q, 1, n) /\ q = SubSeq(q, 1, Len(q))
    BY <2>3, <2>4, SubSeqFull
  <2>6. n # Len(q)
    BY <2>4, <2>5
  <2>7. /\ r \in Seq(Names) /\ Len(r) = Len(q) - n
    BY <2>2, <2>3, <2>4, <2>6, TailGood
  <2>8. top \o r = q
    <3>1. 1 \in 1..Len(q) + 1 /\ n \in 1 - 1..Len(q) /\ Len(q) \in n..Len(q)
      BY <2>3, <2>4
    <3>2. SubSeq(q, 1, n) \o SubSeq(q, n + 1, Len(q)) = SubSeq(q, 1, Len(q))
      BY <2>3, <3>1, ConcatAdjacentSubSeq
    <3>3. QED
      BY <2>5, <3>2
  <2> HIDE DEF r, top, n
  <2>9. s \o r \in Paths /\ Abs(s \o r) = q
    BY <2>7, <2>8, AbsGood DEF top
  <2>10. s \o r # <<>>
    <3>1. Len(r) # 0
      BY <2>3, <2>6, <2>7
    <3>2. r # <<>> /\ r \in Seq(Names \cup {ROOT}) /\ s \in Seq(Names \cup {ROOT})
      BY <2>7, <3>1, EmptySeq, NamesArePaths DEF Paths
    <3>3. QED
      BY <3>2, ConcatEqualIffEmpty
  <2>11. e = [path |-> s \o r, is_dir |-> IsDir(d, q)]
    BY <2>1 DEF r, top
  <2>12. IsDir(d, q) \in BOOLEAN
    BY DEF IsDir
  <2>13. e \in Entries /\ e.path = s \o r /\ e.is_dir = IsDir(d, q)
    BY <2>9, <2>10, <2>11, <2>12 DEF Entries
  <2>14. QED
    BY <2>9, <2>13
<1>2. QED
  BY <1>1 DEF Listed

LEMMA PutGood ==
  ASSUME NEW d, NEW p, NEW c
  PROVE  /\ Rooted(d) /\ p \in RootPaths => Rooted(Put(d, p, c))
         /\ ~IsDir(d, p) /\ c # Dir => Keeps(d, Put(d, p, c))
BY DEF Put, Rooted, Keeps, IsDir, Entry

LEMMA WithoutGood ==
  ASSUME NEW d, NEW gone, Rooted(d)
  PROVE  Rooted(Without(d, gone))
BY DEF Without, Rooted

LEMMA PrefixGood ==
  ASSUME NEW p \in RootPaths, NEW q \in Prefixes(p), q # <<>>
  PROVE  q \in RootPaths
<1>1. PICK l \in 0..Len(p) : q = SubSeq(p, 1, l)
  BY DEF Prefixes
<1>2. /\ p \in Seq(Names \cup {ROOT}) /\ Len(p) \in Nat \ {0} /\ p[1] = ROOT
      /\ \A i \in 2..Len(p) : p[i] \in Names
  BY RootPathParts DEF Paths
<1>3. l # 0
  BY <1>1, SubSeqEmpty
<1>4. l \in 1..Len(p) /\ \A i \in 1..l : i \in 1..Len(p) /\ p[i] \in Names \cup {ROOT}
  BY <1>1, <1>2, <1>3, ElementOfSeq
<1>5. /\ q \in Seq(Names \cup {ROOT}) /\ Len(q) = l
      /\ \A i \in 1..l : q[i] = p[i]
  BY <1>1, <1>4, SubSeqProperties
<1>6. QED
  BY <1>2, <1>4, <1>5 DEF RootPaths, IsResolved, IsAbsolute, Paths

LEMMA MadeGood ==
  ASSUME NEW d, NEW p \in RootPaths
  PROVE  Rooted(d) => Rooted(MadeDirs(d, p)) /\ Keeps(d, MadeDirs(d, p))
<1>1. CASE \E q \in Prefixes(p) : IsFile(d, q)
  BY <1>1 DEF MadeDirs, Keeps
<1>2. CASE ~\E q \in Prefixes(p) : IsFile(d, q)
  <2> DEFINE more == Prefixes(p) \ {<<>>}
  <2>1. MadeDirs(d, p) = [q \in DOMAIN d \cup more |-> IF q \in DOMAIN d THEN d[q] ELSE Dir]
    BY <1>2 DEF MadeDirs
  <2>2. more \subseteq RootPaths
    BY PrefixGood
  <2> HIDE DEF more
  <2>3. QED
    BY <2>1, <2>2 DEF Rooted, Keeps, IsDir, Entry
<1>3. QED
  BY <1>1, <1>2

LEMMA MovedGood ==
  ASSUME NEW d, NEW p \in RootPaths, NEW q \in RootPaths, Rooted(d)
  PROVE  Rooted(Moved(d, p, q))
<1> DEFINE new == {q \o SubSeq(x, Len(p) + 1, Len(x)) : x \in Tree(d, p)}
<1>1. DOMAIN Moved(d, p, q) = (DOMAIN d \ Tree(d, p)) \cup new
  BY DEF Moved
<1>2. ASSUME NEW x \in Tree(d, p) PROVE q \o SubSeq(x, Len(p) + 1, Len(x)) \in RootPaths
  <2>1. x \in RootPaths /\ Len(p) \in Nat \ {0}
    BY RootPathParts DEF Tree, Rooted
  <2>2. QED
    BY <2>1, TailGood, ExtendedGood
<1>3. QED
  BY <1>1, <1>2 DEF Rooted

(***************************************************************************)
(* The tree and the texts of the editor                                    *)
(***************************************************************************)
EditorTypes ==
  /\ Rooted(disk) /\ text \in Texts
  /\ ws \in [path : Paths, files : SUBSET Entries]
  /\ file_path \in Paths /\ ctx_file \in Paths /\ rename_target \in Paths

FilesInv == EditorTypes /\ TreeEntriesExist

(* The part of FilesInv that is about the tree.                            *)
TreeGood(d, w, stale) ==
  /\ w \in [path : Paths, files : SUBSET Entries]
  /\ ~stale => Listed(d, w.files)

(* The parts that are about the editor and the windows.                    *)
TextGood == text \in Texts /\ file_path \in Paths
WindowsGood == ctx_file \in Paths /\ rename_target \in Paths

LEMMA Parts ==
  FilesInv <=> Rooted(disk) /\ TreeGood(disk, ws, behind) /\ TextGood /\ WindowsGood
BY DEF FilesInv, EditorTypes, TreeEntriesExist, TreeGood, Listed, TextGood, WindowsGood

LEMMA NonePath == None \in Paths
BY EmptySeq DEF None, Paths

LEMMA RefreshGood ==
  ASSUME FilesInv, Rooted(disk'), Refresh
  PROVE  TreeGood(disk', ws', behind')
<1>1. ws \in [path : Paths, files : SUBSET Entries] /\ behind' = FALSE
  BY DEF FilesInv, EditorTypes, Refresh
<1>2. CASE ws = NoWs
  BY <1>1, <1>2 DEF Refresh, Refreshed, TreeGood, Listed, NoWs
<1>3. CASE ws # NoWs
  <2>1. ws' = [ws EXCEPT !.files = Scan(disk', ws.path)]
    BY <1>3 DEF Refresh, Refreshed
  <2>2. /\ Scan(disk', ws.path) \subseteq Entries
        /\ Listed(disk', Scan(disk', ws.path))
    BY <1>1, ScanTrue
  <2>3. QED
    BY <1>1, <2>1, <2>2 DEF TreeGood
<1>4. QED
  BY <1>2, <1>3

(* Without a scan the tree stays true of a disk that keeps its entries.    *)
LEMMA KeptTree ==
  ASSUME NEW d, NEW e, NEW w, NEW stale, TreeGood(d, w, stale), Keeps(d, e)
  PROVE  TreeGood(e, w, stale)
BY DEF TreeGood, Listed, Keeps

LEMMA OpenWorkspaceGood ==
  ASSUME FilesInv, NEW s \in Paths, Rooted(disk'), Keeps(disk, disk'), OpenWorkspace(s)
  PROVE  TreeGood(disk', ws', behind')
<1>1. CASE IsDir(disk', Abs(s))
  <2>1. ws' = [path |-> s, files |-> Scan(disk', s)] /\ behind' = FALSE
    BY <1>1 DEF OpenWorkspace
  <2>2. Scan(disk', s) \subseteq Entries /\ Listed(disk', Scan(disk', s))
    BY ScanTrue
  <2>3. QED
    BY <2>1, <2>2 DEF TreeGood
<1>2. CASE ~IsDir(disk', Abs(s))
  BY <1>2, Parts, KeptTree DEF OpenWorkspace
<1>3. QED
  BY <1>1, <1>2

LEMMA OpenFileGood ==
  ASSUME FilesInv, NEW s \in Paths, OpenFile(s)
  PROVE  TextGood'
<1>1. CASE Entry(disk', Abs(s)) \in Texts
  <2>1. text' = Entry(disk', Abs(s)) /\ file_path' = s
    BY <1>1, EditorAssumption DEF OpenFile, Entry
  <2>2. QED
    BY <1>1, <2>1 DEF TextGood
<1>2. CASE Entry(disk', Abs(s)) \notin Texts
  BY <1>2 DEF OpenFile, TextGood, editor, FilesInv, EditorTypes
<1>3. QED
  BY <1>1, <1>2

(* A write keeps every entry, whatever became of it.                       *)
LEMMA WrittenGood ==
  ASSUME NEW d, Rooted(d), NEW p \in RootPaths, NEW c \in Texts, NEW w \in Written(d, p, c)
  PROVE  Rooted(w.disk) /\ Keeps(d, w.disk)
<1>1. c # Dir /\ Empty # Dir
  BY EditorAssumption
<1>2. CASE w.disk = d
  BY <1>2 DEF Keeps
<1>3. CASE ~IsDir(d, p) /\ (w.disk = Put(d, p, c) \/ w.disk = Put(d, p, Empty))
  BY <1>1, <1>3, PutGood
<1>4. QED
  BY <1>2, <1>3 DEF Written, CanWrite

LEMMA SaveFileGood ==
  ASSUME FilesInv, NEW s \in Paths, SaveFile(s)
  PROVE  Rooted(disk') /\ TreeGood(disk', ws', behind') /\ TextGood'
<1>1. Abs(s) \in RootPaths /\ text \in Texts /\ Rooted(disk) /\ TextGood
      /\ TreeGood(disk, ws, behind)
  BY AbsGood, Parts DEF TextGood
<1>2. PICK w \in Written(disk, Abs(s), text) :
        /\ disk' = w.disk
        /\ \/ file_path' = s /\ text' = text /\ (Refresh \/ UNCHANGED <<ws, behind>>)
           \/ UNCHANGED <<editor, ws, behind>>
  BY DEF SaveFile
<1>3. Rooted(disk') /\ Keeps(disk, disk')
  BY <1>1, <1>2, WrittenGood
<1>4. TreeGood(disk', ws', behind')
  BY <1>1, <1>2, <1>3, RefreshGood, KeptTree
<1>5. TextGood'
  BY <1>1, <1>2 DEF TextGood, editor
<1>6. QED
  BY <1>3, <1>4, <1>5

LEMMA InWorkspaceGood ==
  ASSUME FilesInv, NEW s \in Paths \ {<<>>}
  PROVE  InWorkspace(s) \in Paths \ {<<>>}
BY ConcatProperties, ConcatEqualIffEmpty DEF InWorkspace, FilesInv, EditorTypes, Paths

LEMMA NewFileGood ==
  ASSUME FilesInv, NEW s \in Paths \ {<<>>}, NewFile(s)
  PROVE  Rooted(disk') /\ TreeGood(disk', ws', behind') /\ TextGood'
<1>1. Rooted(disk) /\ TextGood /\ TreeGood(disk, ws, behind)
  BY Parts
<1>2. CASE UNCHANGED <<disk, editor, ws, touched, behind>>
  BY <1>1, <1>2 DEF editor, TextGood
<1>3. CASE ~UNCHANGED <<disk, editor, ws, touched, behind>>
  <2> DEFINE p == InWorkspace(s)
  <2>1. p \in Paths /\ Abs(p) \in RootPaths /\ Empty \in Texts
    BY InWorkspaceGood, AbsGood, EditorAssumption
  <2>2. PICK w \in Written(disk, Abs(p), Empty) : disk' = w.disk
    BY <1>3 DEF NewFile
  <2>3. Rooted(disk')
    BY <1>1, <2>1, <2>2, WrittenGood
  <2>4. Refresh /\ OpenFile(p)
    BY <1>3 DEF NewFile
  <2>5. QED
    BY <2>1, <2>3, <2>4, RefreshGood, OpenFileGood
<1>4. QED
  BY <1>2, <1>3

(***************************************************************************)
(* The steps                                                               *)
(***************************************************************************)
LEMMA Together ==
  ASSUME Rooted(disk'), TreeGood(disk', ws', behind'), TextGood', WindowsGood'
  PROVE  FilesInv'
BY DEF FilesInv, EditorTypes, TreeEntriesExist, TreeGood, Listed, TextGood, WindowsGood

LEMMA KeepsTrans ==
  ASSUME NEW d, NEW e, NEW f, Keeps(d, e), Keeps(e, f) PROVE Keeps(d, f)
BY DEF Keeps

(* New Project writes files only where no directory is.                    *)
LEMMA ProjectGood ==
  ASSUME FilesInv, CreateProject PROVE FilesInv'
<1>1. PICK n \in Projects, langs \in (SUBSET Sources) \ {{}} :
        /\ \E made \in {disk, MadeDirs(disk, Abs(Home \o <<n>>)),
                        MadeDirs(disk, Abs(Home \o <<n>>) \o <<Src>>)} :
           \E opened \in SUBSET {p \in Planned(Abs(Home \o <<n>>), langs) : CanWrite(made, p)} :
           \E done \in SUBSET opened :
             disk' = [p \in DOMAIN made \cup opened |->
                        IF p \in done THEN Hello ELSE IF p \in opened THEN Empty ELSE made[p]]
        /\ OpenWorkspace(Home \o <<n>>)
        /\ UNCHANGED <<editor, ctx_file, rename_target>>
  BY Zenon DEF CreateProject
<1> DEFINE dir == Home \o <<n>>
           top == Abs(dir)
<1>2. PICK made \in {disk, MadeDirs(disk, top), MadeDirs(disk, top \o <<Src>>)} :
           \E opened \in SUBSET {p \in Planned(top, langs) : CanWrite(made, p)} :
           \E done \in SUBSET opened :
             disk' = [p \in DOMAIN made \cup opened |->
                        IF p \in done THEN Hello ELSE IF p \in opened THEN Empty ELSE made[p]]
  BY <1>1, Zenon
<1>3. PICK opened \in SUBSET {p \in Planned(top, langs) : CanWrite(made, p)} :
           \E done \in SUBSET opened :
             disk' = [p \in DOMAIN made \cup opened |->
                        IF p \in done THEN Hello ELSE IF p \in opened THEN Empty ELSE made[p]]
  BY <1>2, Zenon
<1>4. /\ Home \in Paths /\ n \in Names /\ langs \subseteq Names /\ {Src, Howto} \subseteq Names
  BY EditorAssumption
<1>5. dir \in Paths /\ top \in RootPaths /\ top \o <<Src>> \in RootPaths
  <2>1. <<n>> \in Seq(Names) /\ <<Src>> \in Seq(Names)
    BY <1>4
  <2>2. dir \in Paths
    BY <1>4, <2>1, AbsGood
  <2> HIDE DEF dir
  <2>3. top \in RootPaths
    BY <2>2, AbsGood
  <2> HIDE DEF top
  <2>4. QED
    BY <2>1, <2>2, <2>3, ExtendedGood
<1> HIDE DEF dir, top
<1>6. Planned(top, langs) \subseteq RootPaths
  <2>1. \A l \in langs : <<Src, l>> \in Seq(Names)
    BY <1>4
  <2>2. <<Howto>> \in Seq(Names)
    BY <1>4
  <2>3. QED
    BY <1>5, <2>1, <2>2, ExtendedGood DEF Planned
<1>7. Rooted(disk) /\ TreeGood(disk, ws, behind) /\ TextGood /\ WindowsGood
  BY Parts
<1>8. Rooted(made) /\ Keeps(disk, made)
  <2>1. Keeps(disk, disk)
    BY DEF Keeps
  <2>2. QED
    BY <1>5, <1>7, <2>1, MadeGood
<1>9. Rooted(disk') /\ Keeps(made, disk')
  <2>1. Hello # Dir /\ Empty # Dir
    BY EditorAssumption
  <2>2. opened \subseteq RootPaths /\ \A p \in opened : ~IsDir(made, p)
    BY <1>6 DEF CanWrite
  <2>3. PICK done \in SUBSET opened :
             disk' = [p \in DOMAIN made \cup opened |->
                        IF p \in done THEN Hello ELSE IF p \in opened THEN Empty ELSE made[p]]
    BY <1>3, Zenon
  <2>4. DOMAIN disk' = DOMAIN made \cup opened
    BY <2>3
  <2>5. \A p \in DOMAIN made : p \notin opened => disk'[p] = made[p]
    BY <2>3
  <2>6. \A p \in opened : disk'[p] \in {Hello, Empty}
    BY <2>3
  <2>7. QED
    BY <1>8, <2>1, <2>2, <2>4, <2>5, <2>6 DEF Rooted, Keeps, IsDir, Entry
<1>10. TreeGood(disk', ws', behind')
  <2>1. Keeps(disk, disk')
    BY <1>8, <1>9, KeepsTrans
  <2>2. OpenWorkspace(dir)
    BY <1>1 DEF dir
  <2>3. QED
    BY <1>5, <1>9, <2>1, <2>2, OpenWorkspaceGood
<1>11. TextGood' /\ WindowsGood'
  BY <1>1, <1>7 DEF TextGood, WindowsGood, editor
<1>12. QED
  BY <1>9, <1>10, <1>11, Together

LEMMA ConfirmWorkspaceGood ==
  ASSUME FilesInv, ConfirmWorkspace PROVE FilesInv'
<1>1. PICK s \in TypedDirs :
        /\ disk' \in {disk, MadeDirs(disk, Abs(s))}
        /\ OpenWorkspace(s)
        /\ UNCHANGED <<editor, ctx_file, rename_target>>
  BY DEF ConfirmWorkspace
<1>2. Rooted(disk) /\ TextGood /\ WindowsGood /\ s \in Paths /\ Abs(s) \in RootPaths
  BY Parts, AbsGood, EditorAssumption
<1>3. Rooted(disk') /\ Keeps(disk, disk')
  BY <1>1, <1>2, MadeGood DEF Keeps
<1>4. TreeGood(disk', ws', behind')
  BY <1>1, <1>2, <1>3, OpenWorkspaceGood
<1>5. TextGood' /\ WindowsGood'
  BY <1>1, <1>2 DEF TextGood, WindowsGood, editor
<1>6. QED
  BY <1>3, <1>4, <1>5, Together

LEMMA ConfirmFileGood ==
  ASSUME FilesInv, ConfirmFile PROVE FilesInv'
<1>1. PICK s \in Typed :
        /\ \/ UNCHANGED <<disk, ws, behind>> /\ OpenFile(s)
           \/ SaveFile(s) \/ NewFile(s)
        /\ UNCHANGED <<ctx_file, rename_target>>
  BY DEF ConfirmFile
<1>2. Rooted(disk) /\ TreeGood(disk, ws, behind) /\ WindowsGood /\ s \in Paths \ {<<>>}
  BY Parts, EditorAssumption
<1>3. Rooted(disk') /\ TreeGood(disk', ws', behind') /\ TextGood'
  BY <1>1, <1>2, OpenFileGood, SaveFileGood, NewFileGood
<1>4. WindowsGood'
  BY <1>1, <1>2 DEF WindowsGood
<1>5. QED
  BY <1>3, <1>4, Together

LEMMA MenuDeleteGood ==
  ASSUME FilesInv, MenuDelete PROVE FilesInv'
<1>1. PICK r \in Removed(disk, Abs(ctx_file)) :
        /\ disk' = r.disk
        /\ \/ Refresh
           \/ behind' = (behind \/ disk' # disk) /\ UNCHANGED ws
        /\ \/ file_path' = None /\ text' = Empty
           \/ UNCHANGED editor
  BY DEF MenuDelete
<1>2. Rooted(disk) /\ TreeGood(disk, ws, behind) /\ TextGood /\ WindowsGood
  BY Parts
<1>3. Rooted(disk')
  <2>1. \E gone : disk' = Without(disk, gone)
    BY <1>1 DEF Removed
  <2>2. QED
    BY <1>2, <2>1, WithoutGood
<1>4. TreeGood(disk', ws', behind')
  BY <1>1, <1>2, <1>3, RefreshGood DEF TreeGood
<1>5. TextGood' /\ WindowsGood'
  BY <1>1, <1>2, NonePath, EditorAssumption DEF TextGood, WindowsGood, editor, MenuDelete
<1>6. QED
  BY <1>3, <1>4, <1>5, Together

LEMMA RenamedPath ==
  ASSUME FilesInv, NEW n \in Names, rename_target # None
  PROVE  Front(rename_target) \o <<n>> \in Paths \ {<<>>}
<1>1. /\ rename_target \in Seq(Names \cup {ROOT}) /\ Len(rename_target) \in Nat \ {0}
      /\ <<n>> \in Seq(Names \cup {ROOT}) /\ <<n>> # <<>>
  BY EmptySeq DEF FilesInv, EditorTypes, Paths, None
<1>2. \A i \in 1..Len(rename_target) - 1 : rename_target[i] \in Names \cup {ROOT}
  BY <1>1, ElementOfSeq
<1>3. Front(rename_target) \in Seq(Names \cup {ROOT})
  BY <1>1, <1>2, SubSeqProperties DEF Front
<1>4. QED
  BY <1>1, <1>3, ConcatProperties, ConcatEqualIffEmpty DEF Paths

LEMMA RenameGood ==
  ASSUME FilesInv, Rename PROVE FilesInv'
<1>1. PICK n \in NewNames :
        /\ rename_target # None /\ rename_target' = None /\ UNCHANGED ctx_file
        /\ \/ /\ disk' = Moved(disk, Abs(rename_target), Abs(Front(rename_target) \o <<n>>))
              /\ Refresh
              /\ OpenFile(Front(rename_target) \o <<n>>) \/ UNCHANGED editor
           \/ UNCHANGED <<disk, ws, editor, touched, behind>>
  BY DEF Rename
<1>2. Rooted(disk) /\ TreeGood(disk, ws, behind) /\ TextGood /\ WindowsGood
  BY Parts
<1>3. WindowsGood'
  BY <1>1, <1>2, NonePath DEF WindowsGood
<1> DEFINE p == Front(rename_target) \o <<n>>
<1>4. p \in Paths /\ Abs(p) \in RootPaths /\ Abs(rename_target) \in RootPaths
  BY <1>1, <1>2, RenamedPath, AbsGood, EditorAssumption DEF WindowsGood
<1>5. CASE UNCHANGED <<disk, ws, editor, touched, behind>>
  BY <1>2, <1>3, <1>5, Together DEF TextGood, editor
<1>6. CASE /\ disk' = Moved(disk, Abs(rename_target), Abs(p))
           /\ Refresh
           /\ OpenFile(p) \/ UNCHANGED editor
  <2>1. Rooted(disk')
    BY <1>2, <1>4, <1>6, MovedGood
  <2>2. TreeGood(disk', ws', behind')
    BY <1>6, <2>1, RefreshGood
  <2>3. TextGood'
    BY <1>2, <1>4, <1>6, OpenFileGood DEF TextGood, editor
  <2>4. QED
    BY <1>3, <2>1, <2>2, <2>3, Together
<1>7. QED
  BY <1>1, <1>5, <1>6

(* An entry of the tree has a path.                                        *)
LEMMA EntryPath ==
  ASSUME FilesInv, NEW e \in ws.files PROVE e.path \in Paths \ {<<>>}
BY DEF FilesInv, EditorTypes, Entries

LEMMA FilesStep ==
  ASSUME FilesInv, [Next]_vars PROVE FilesInv'
<1> USE Parts
<1>1. CASE Edit
  <2>1. text' \in Texts /\ UNCHANGED <<disk, ws, behind, file_path, ctx_file, rename_target>>
    BY <1>1 DEF Edit, windows
  <2>2. QED
    BY <2>1, Together DEF TextGood, WindowsGood
<1>2. CASE Save \/ CompileRun
  <2>1. /\ SaveFile(file_path) \/ UNCHANGED <<disk, editor, ws, behind>>
        /\ UNCHANGED <<ctx_file, rename_target>>
    BY <1>2 DEF Save, CompileRun, windows
  <2>2. Rooted(disk') /\ TreeGood(disk', ws', behind') /\ TextGood'
    BY <2>1, SaveFileGood DEF TextGood, editor
  <2>3. QED
    BY <2>1, <2>2, Together DEF WindowsGood
<1>3. CASE ConfirmFile \/ ConfirmWorkspace \/ MenuDelete \/ Rename \/ CreateProject
  BY <1>3, ConfirmFileGood, ConfirmWorkspaceGood, MenuDeleteGood, RenameGood, ProjectGood
<1>4. CASE Reopen \/ RefreshFiles
  <2>1. UNCHANGED <<disk, editor, windows>> /\ (Refresh \/ OpenWorkspace(ws.path))
    BY <1>4 DEF Reopen, RefreshFiles
  <2>2. Rooted(disk') /\ TextGood' /\ WindowsGood'
    BY <2>1 DEF TextGood, WindowsGood, editor, windows
  <2>3. ws.path \in Paths /\ Keeps(disk, disk')
    BY <2>1 DEF FilesInv, EditorTypes, Keeps
  <2>4. TreeGood(disk', ws', behind')
    BY <2>1, <2>2, <2>3, RefreshGood, OpenWorkspaceGood
  <2>5. QED
    BY <2>2, <2>4, Together
<1>5. CASE ClickFile \/ MenuOpen
  <2>1. PICK p \in Paths : OpenFile(p)
    BY <1>5, EntryPath DEF ClickFile, MenuOpen, WindowsGood
  <2>2. TextGood'
    BY <2>1, OpenFileGood
  <2>3. /\ UNCHANGED <<disk, ws, behind, rename_target>> /\ ctx_file' \in {ctx_file, None}
    BY <1>5 DEF ClickFile, MenuOpen, windows
  <2>4. QED
    BY <2>2, <2>3, NonePath, Together DEF WindowsGood
<1>6. CASE ShowMenu \/ MenuRename \/ Cancel \/ Escape
  <2>1. UNCHANGED <<disk, ws, behind, editor>>
    BY <1>6 DEF ShowMenu, MenuRename, Cancel, Escape
  <2>2. WindowsGood'
    BY <1>6, EntryPath, NonePath DEF ShowMenu, MenuRename, Cancel, Escape, WindowsGood
  <2>3. QED
    BY <2>1, <2>2, Together DEF TextGood, editor
<1>7. CASE OtherProgram
  <2>1. PICK p \in Foreign : \/ disk' = Without(disk, {p})
                             \/ \E c : disk' = Put(disk, p, c)
    BY <1>7 DEF OtherProgram
  <2>2. p \in RootPaths
    BY EditorAssumption DEF RootPaths
  <2>3. Rooted(disk')
    BY <2>1, <2>2, PutGood, WithoutGood
  <2>4. UNCHANGED <<ws, editor, windows>> /\ behind' = TRUE
    BY <1>7 DEF OtherProgram
  <2>5. QED
    BY <2>3, <2>4, Together DEF TreeGood, TextGood, WindowsGood, editor, windows
<1>8. CASE ShowDialog \/ CloseWorkspace \/ UNCHANGED vars
  <2>1. UNCHANGED <<disk, ws, behind, editor, ctx_file, rename_target>>
    BY <1>8 DEF ShowDialog, CloseWorkspace, vars, windows
  <2>2. QED
    BY <2>1, Together DEF TextGood, WindowsGood, editor
<1>9. QED
  BY <1>1, <1>2, <1>3, <1>4, <1>5, <1>6, <1>7, <1>8 DEF Next

LEMMA FilesInit == Init => FilesInv
<1> SUFFICES ASSUME Init PROVE FilesInv
  OBVIOUS
<1>1. Rooted(disk)
  BY EditorAssumption DEF Init, Rooted, RootPaths
<1>2. None \in Paths /\ <<>> \in Paths /\ Empty \in Texts
  BY NonePath, EditorAssumption DEF None
<1>3. QED
  BY <1>1, <1>2 DEF Init, FilesInv, EditorTypes, TreeEntriesExist, NoWs

LEMMA FilesInductive == Spec => []FilesInv
BY FilesInit, FilesStep, PTL DEF Spec

(* The tree of the workspace lists nothing that the editor itself removed  *)
(* or renamed away, for every disk and every sequence of clicks and keys.  *)
THEOREM TreeIsThere == Spec => []TreeEntriesExist
BY FilesInductive, PTL DEF FilesInv

(***************************************************************************)
(* What is not on the disk is marked.                                      *)
(***************************************************************************)
Marked ==
  (dirty \/ text' # text) /\ ~dirty' =>
    \/ file_path' # None /\ Entry(disk', Abs(file_path')) = text'
    \/ file_path' = None /\ Abs(file_path) \notin DOMAIN disk'

LEMMA OpenFileMarks ==
  ASSUME NEW s, s # None, OpenFile(s) PROVE Marked
<1>1. CASE Entry(disk', Abs(s)) \in Texts
  BY <1>1, EditorAssumption DEF OpenFile, Marked, Entry
<1>2. CASE Entry(disk', Abs(s)) \notin Texts
  BY <1>2 DEF OpenFile, Marked, editor
<1>3. QED
  BY <1>1, <1>2

LEMMA SaveFileMarks ==
  ASSUME NEW s, s # None, SaveFile(s) PROVE Marked
<1>1. PICK w \in Written(disk, Abs(s), text) :
        /\ disk' = w.disk
        /\ IF w.ok THEN file_path' = s /\ text' = text ELSE UNCHANGED editor
  BY DEF SaveFile
<1>2. CASE w.ok
  <2>1. w.disk = Put(disk, Abs(s), text)
    BY <1>2 DEF Written
  <2>2. QED
    BY <1>1, <1>2, <2>1, PutHolds DEF Marked
<1>3. CASE ~w.ok
  BY <1>1, <1>3 DEF Marked, editor
<1>4. QED
  BY <1>2, <1>3

LEMMA DeleteMarks ==
  ASSUME FilesInv, MenuDelete PROVE Marked
<1>1. PICK r \in Removed(disk, Abs(ctx_file)) :
        /\ disk' = r.disk
        /\ \/ r.ok /\ file_path = ctx_file /\ file_path' = None /\ UNCHANGED dirty
           \/ UNCHANGED editor
  BY DEF MenuDelete
<1>2. CASE r.ok /\ file_path = ctx_file /\ file_path' = None
  <2>1. disk' = Without(disk, Tree(disk, Abs(file_path)))
    BY <1>1, <1>2 DEF Removed
  <2>2. Len(Abs(file_path)) \in Nat
    BY AbsGood, RootPathParts DEF FilesInv, EditorTypes
  <2>3. Abs(file_path) \in DOMAIN disk => Abs(file_path) \in Tree(disk, Abs(file_path))
    BY <2>2 DEF Tree, IsPrefix
  <2>4. Abs(file_path) \notin DOMAIN disk'
    BY <2>1, <2>3 DEF Without
  <2>5. QED
    BY <1>2, <2>4 DEF Marked
<1>3. CASE UNCHANGED editor
  BY <1>3 DEF Marked, editor
<1>4. QED
  BY <1>1, <1>2, <1>3

LEMMA MarkedStep ==
  ASSUME FilesInv, [Next]_vars PROVE Marked
<1>1. CASE Edit
  BY <1>1 DEF Edit, Marked
<1>2. CASE Save \/ CompileRun
  <2>1. (file_path # None /\ SaveFile(file_path)) \/ UNCHANGED editor
    BY <1>2 DEF Save, CompileRun
  <2>2. QED
    BY <2>1, SaveFileMarks DEF Marked, editor
<1>3. CASE ConfirmFile
  <2>1. PICK s \in Typed : OpenFile(s) \/ SaveFile(s) \/ NewFile(s)
    BY <1>3 DEF ConfirmFile
  <2>2. s # None /\ InWorkspace(s) # None
    BY InWorkspaceGood, EditorAssumption DEF None
  <2>3. NewFile(s) => OpenFile(InWorkspace(s)) \/ UNCHANGED editor
    BY DEF NewFile
  <2>4. QED
    BY <2>1, <2>2, <2>3, OpenFileMarks, SaveFileMarks DEF Marked, editor
<1>4. CASE ClickFile \/ MenuOpen
  <2>1. PICK p : p # None /\ OpenFile(p)
    BY <1>4, EntryPath DEF ClickFile, MenuOpen, None
  <2>2. QED
    BY <2>1, OpenFileMarks
<1>5. CASE MenuDelete
  BY <1>5, DeleteMarks
<1>6. CASE Rename
  <2>1. PICK n \in NewNames :
          /\ rename_target # None
          /\ OpenFile(Front(rename_target) \o <<n>>) \/ UNCHANGED editor
    BY <1>6 DEF Rename
  <2>2. Front(rename_target) \o <<n>> # None
    BY <2>1, RenamedPath, EditorAssumption DEF None
  <2>3. QED
    BY <2>1, <2>2, OpenFileMarks DEF Marked, editor
<1>7. CASE \/ ShowDialog \/ ConfirmWorkspace \/ Cancel \/ Escape \/ CloseWorkspace
           \/ Reopen \/ RefreshFiles \/ ShowMenu \/ MenuRename \/ CreateProject
           \/ OtherProgram \/ UNCHANGED vars
  <2>1. UNCHANGED editor
    BY <1>7 DEF ShowDialog, ConfirmWorkspace, Cancel, Escape, CloseWorkspace, Reopen,
                RefreshFiles, ShowMenu, MenuRename, CreateProject, OtherProgram, vars
  <2>2. QED
    BY <2>1 DEF Marked, editor
<1>8. QED
  BY <1>1, <1>2, <1>3, <1>4, <1>5, <1>6, <1>7 DEF Next

(* What is typed stays marked as unsaved until it is on the disk, whatever *)
(* fails and in whatever order windows are opened and answered.            *)
THEOREM UnsavedStaysMarked == Spec => UnsavedIsMarked
BY FilesInductive, MarkedStep, PTL DEF Spec, UnsavedIsMarked, Marked

(***************************************************************************)
(* Paint, for any canvas, any tools and any length of the undo stack: what *)
(* a drag leaves, unless it paints on the picture it should restore.       *)
(***************************************************************************)

Marks == [tool : Tools \cup Freehand \cup {"FILL", "zeros", "noise", "shared"},
          from : Places, to : Places]
Pictures == Seq(Marks)
Canvases == [picture : Pictures, undo : Seq(Pictures), surf : Int]

TypeOK ==
  /\ tool \in Tools /\ drawing \in BOOLEAN /\ calm \in BOOLEAN
  /\ at \in Places /\ start \in Places /\ mouse \in Places
  /\ canvas \in Canvases /\ base \in Pictures

HistoryInv == TypeOK /\ BaseOnTop

(* What painting leaves as it is: where the display lies, how many         *)
(* pictures are saved and, unless the display lies there, the newest one.  *)
SameTop(c, d) ==
  /\ d.surf = c.surf /\ Len(d.undo) = Len(c.undo)
  /\ c.undo # << >> /\ Apart(c) => d.undo # << >> /\ Last(d.undo) = Last(c.undo)

(***************************************************************************)
(* Pictures and marks                                                      *)
(***************************************************************************)
LEMMA SomePictures ==
  /\ White \in Pictures /\ Blank \in Pictures /\ Noise \in Pictures
  /\ \A t \in Tools \cup {"FILL"} : Stroke(t) \in Marks
  /\ \A t \in Tools, p, q \in Places : Mark(t, p, q) \in Marks
<1>1. "panel" \in Places
  BY DEF Places
<1>2. \A t \in Tools, p, q \in Places : Mark(t, p, q) \in Marks
  BY DEF Mark, Marks
<1>3. \A t \in Tools \cup {"FILL"} : Stroke(t) \in Marks
  BY <1>1 DEF Stroke, Mark, Marks
<1>4. \A t \in {"zeros", "noise"} : Mark(t, "panel", "panel") \in Marks
  BY <1>1 DEF Mark, Marks
<1>5. White \in Pictures
  BY DEF White, Pictures
<1>6. Blank \in Pictures /\ Noise \in Pictures
  BY <1>4 DEF Blank, Noise, Pictures
<1>7. QED
  BY <1>2, <1>3, <1>5, <1>6

LEMMA AppendMark ==
  ASSUME NEW p \in Pictures, NEW m \in Marks PROVE Append(p, m) \in Pictures
BY AppendProperties DEF Pictures

(***************************************************************************)
(* The canvas                                                              *)
(***************************************************************************)

(* Painting changes saved pictures only through shared memory.             *)
LEMMA PaintedGood ==
  ASSUME NEW c \in Canvases, NEW p \in Pictures
  PROVE  /\ Painted(c, p) \in Canvases
         /\ Painted(c, p).picture = p /\ SameTop(c, Painted(c, p))
<1> DEFINE u == IF c.surf \in DOMAIN c.undo THEN [c.undo EXCEPT ![c.surf] = p]
                                            ELSE c.undo
<1>1. Painted(c, p) = [c EXCEPT !.picture = p, !.undo = u]
  BY DEF Painted, Canvases
<1>2. c.undo \in Seq(Pictures) /\ c.surf \in Int
  BY DEF Canvases
<1>3. /\ u \in Seq(Pictures) /\ Len(u) = Len(c.undo)
      /\ \A i \in 1..Len(c.undo) : i # c.surf => u[i] = c.undo[i]
  <2>1. CASE c.surf \in DOMAIN c.undo
    BY <1>2, <2>1, ExceptSeq, LenProperties
  <2>2. CASE c.surf \notin DOMAIN c.undo
    BY <1>2, <2>2
  <2>3. QED
    BY <2>1, <2>2
<1>4. ASSUME c.undo # << >>, Apart(c) PROVE u # << >> /\ Last(u) = Last(c.undo)
  <2>1. Len(c.undo) \in Nat \ {0}
    BY <1>2, <1>4, EmptySeq
  <2>2. Len(c.undo) # c.surf /\ Len(c.undo) \in 1..Len(c.undo)
    BY <1>2, <1>4, <2>1 DEF Apart, Own, Freed
  <2> HIDE DEF u
  <2>3. u # << >>
    BY <1>3, <2>1, EmptySeq
  <2>4. QED
    BY <1>3, <2>2, <2>3 DEF Last
<1> HIDE DEF u
<1>5. /\ Painted(c, p) \in Canvases /\ Painted(c, p).picture = p
      /\ Painted(c, p).surf = c.surf /\ Painted(c, p).undo = u
  BY <1>1, <1>3 DEF Canvases
<1>6. QED
  BY <1>3, <1>4, <1>5 DEF SameTop

(* The saved picture is on top.                                            *)
LEMMA PushGood ==
  ASSUME NEW c \in Canvases, NEW p \in Pictures, NEW s \in Int
  PROVE  /\ Push(c, p, s) \in Canvases /\ Push(c, p, s).picture = p
         /\ Push(c, p, s).undo # << >> /\ Last(Push(c, p, s).undo) = p
<1> DEFINE more == Append(c.undo, p)
           n == Len(c.undo)
<1>1. c.undo \in Seq(Pictures) /\ n \in Nat
  BY DEF Canvases
<1>2. more \in Seq(Pictures) /\ Len(more) = n + 1 /\ more[n + 1] = p /\ more # << >>
  BY <1>1, AppendProperties
<1>3. /\ Tail(more) \in Seq(Pictures) /\ Len(Tail(more)) = n
      /\ \A i \in 1..n : Tail(more)[i] = more[i + 1]
  BY <1>1, <1>2, HeadTailProperties
<1>4. CASE n < MAX_UNDO
  <2>1. Push(c, p, s) = [picture |-> p, undo |-> more, surf |-> s]
    BY <1>4 DEF Push
  <2>2. Last(more) = p
    BY <1>2 DEF Last
  <2> HIDE DEF more
  <2>3. QED
    BY <1>2, <2>1, <2>2 DEF Canvases
<1>5. CASE ~(n < MAX_UNDO)
  <2> DEFINE r == CASE s = 1 -> Freed [] s > 1 -> s - 1 [] OTHER -> s
  <2>1. Push(c, p, s) = [picture |-> p, undo |-> Tail(more), surf |-> r]
    BY <1>5 DEF Push
  <2>2. n >= 1
    BY <1>1, <1>5, PaintAssumption
  <2>3. Tail(more)[n] = p
    BY <1>1, <1>2, <1>3, <2>2
  <2>4. Last(Tail(more)) = p /\ Tail(more) # << >>
    BY <1>3, <2>2, <2>3 DEF Last
  <2>5. r \in Int
    BY DEF Freed
  <2> HIDE DEF more, r
  <2>6. QED
    BY <1>3, <2>1, <2>4, <2>5 DEF Canvases
<1>6. QED
  BY <1>4, <1>5

(* save_undo leaves the picture it saved on top, or none at all.           *)
LEMMA SavesGood ==
  ASSUME NEW c \in Canvases, NEW d \in Saves(c)
  PROVE  /\ d \in Canvases
         /\ Apart(d) => d.undo # << >> /\ Last(d.undo) = d.picture
<1>1. /\ c.picture \in Pictures /\ c.surf \in Int /\ Len(c.undo) + 1 \in Int
      /\ Blank \in Pictures /\ Freed \in Int
  BY SomePictures DEF Canvases, Freed
<1>2. CASE \/ d = Push(c, c.picture, c.surf)
           \/ d = Push(c, Blank, Freed)
           \/ d = Push(c, c.picture, Len(c.undo) + 1)
  BY <1>1, <1>2, PushGood
<1>3. CASE d = [c EXCEPT !.surf = Gone]
  <2>1. d \in Canvases /\ d.surf = Gone /\ Len(d.undo) \in Nat
    BY <1>3 DEF Canvases, Gone
  <2>2. ~Apart(d)
    BY <2>1 DEF Apart, Gone, Own, Freed
  <2>3. QED
    BY <2>1, <2>2
<1>4. QED
  BY <1>2, <1>3 DEF Saves

LEMMA UndoesGood ==
  ASSUME NEW c \in Canvases, NEW d \in Undoes(c) PROVE d \in Canvases
<1>1. CASE c.undo = << >>
  BY <1>1 DEF Undoes
<1>2. CASE c.undo # << >>
  <2>1. c.undo \in Seq(Pictures) /\ Len(c.undo) \in Nat \ {0}
    BY <1>2, EmptySeq DEF Canvases
  <2>2. Last(c.undo) \in Pictures
    BY <2>1, ElementOfSeq DEF Last
  <2>3. Front(c.undo) \in Seq(Pictures)
    BY <2>1, SubSeqProperties DEF Front
  <2>4. QED
    BY <1>2, <2>2, <2>3 DEF Undoes, Canvases, Freed, Gone
<1>3. QED
  BY <1>1, <1>2

LEMMA RestoredGood ==
  ASSUME NEW c \in Canvases
  PROVE  /\ Restored(c) \in Canvases /\ SameTop(c, Restored(c))
         /\ c.undo # << >> => Restored(c).picture = Last(c.undo)
<1>1. CASE c.undo = << >>
  BY <1>1 DEF Restored, SameTop
<1>2. CASE c.undo # << >>
  <2>1. c.undo \in Seq(Pictures) /\ Len(c.undo) \in Nat \ {0}
    BY <1>2, EmptySeq DEF Canvases
  <2>2. Last(c.undo) \in Pictures
    BY <2>1, ElementOfSeq DEF Last
  <2>3. QED
    BY <1>2, <2>2, PaintedGood DEF Restored
<1>3. QED
  BY <1>1, <1>2

LEMMA FinishedGood ==
  ASSUME TypeOK
  PROVE  Finished(canvas) \in Canvases
<1>1. canvas \in Canvases /\ Restored(canvas) \in Canvases
  BY RestoredGood DEF TypeOK
<1>2. CASE tool \in Shapes
  <2>1. Append(Restored(canvas).picture, Mark(tool, start, mouse)) \in Pictures
    BY <1>1, SomePictures, AppendMark DEF TypeOK, Canvases
  <2>2. QED
    BY <1>1, <1>2, <2>1, PaintedGood DEF Finished
<1>3. CASE tool \notin Shapes
  BY <1>1, <1>3 DEF Finished
<1>4. QED
  BY <1>2, <1>3

LEMMA DraggedGood ==
  ASSUME TypeOK, NEW p \in Places
  PROVE  Dragged(canvas, p) \in Canvases /\ SameTop(canvas, Dragged(canvas, p))
<1>1. canvas \in Canvases /\ Restored(canvas) \in Canvases
  BY RestoredGood DEF TypeOK
<1>2. Append(canvas.picture, Stroke(tool)) \in Pictures
  BY <1>1, SomePictures, AppendMark DEF TypeOK, Canvases
<1>3. Append(Restored(canvas).picture, Mark(tool, start, p)) \in Pictures
  BY <1>1, SomePictures, AppendMark DEF TypeOK, Canvases
<1>4. \/ Dragged(canvas, p) = Painted(canvas, Append(canvas.picture, Stroke(tool)))
      \/ Dragged(canvas, p) =
           Painted(canvas, Append(Restored(canvas).picture, Mark(tool, start, p)))
      \/ Dragged(canvas, p) = Restored(canvas)
  BY DEF Dragged, Freehand, Shapes
<1>5. QED
  BY <1>1, <1>2, <1>3, <1>4, PaintedGood, RestoredGood

(***************************************************************************)
(* The steps                                                               *)
(***************************************************************************)

(* A step that leaves the picture and the drag alone.                      *)
LEMMA SameDrag ==
  ASSUME HistoryInv, canvas' = canvas, base' = base, calm' = calm, drawing' = drawing,
         tool' \in Tools, at' \in Places, start' \in Places, mouse' \in Places
  PROVE  HistoryInv'
BY DEF HistoryInv, TypeOK, BaseOnTop

(* Painting keeps what the drag began with.                                *)
LEMMA KeepsBase ==
  ASSUME HistoryInv, canvas' \in Canvases, SameTop(canvas, canvas'),
         base' = base, calm' = calm, drawing' = drawing
  PROVE  BaseOnTop'
<1> SUFFICES ASSUME drawing, calm, Apart(canvas)'
             PROVE  canvas'.undo # << >> /\ Last(canvas'.undo) = base
  BY DEF BaseOnTop, HistoryInv
<1>1. Apart(canvas)
  BY DEF Apart, SameTop
<1>2. QED
  BY <1>1 DEF HistoryInv, BaseOnTop, SameTop

(* A step after which the drag is no longer undisturbed.                   *)
LEMMA DisturbedGood ==
  ASSUME HistoryInv, Disturbed, canvas' \in Canvases, drawing' \in BOOLEAN,
         tool' \in Tools, at' \in Places, start' \in Places, mouse' \in Places
  PROVE  HistoryInv'
BY SomePictures DEF HistoryInv, TypeOK, BaseOnTop, Disturbed

LEMMA CommandGood ==
  ASSUME HistoryInv, at' \in Places,
         ChooseTool \/ OpenDialog \/ NewCanvas \/ Undo \/ NoCommand
  PROVE  HistoryInv'
<1>1. canvas \in Canvases /\ tool \in Tools /\ start \in Places /\ mouse \in Places
      /\ drawing \in BOOLEAN
  BY DEF HistoryInv, TypeOK
<1>2. CASE ChooseTool \/ OpenDialog \/ NoCommand
  BY <1>1, <1>2, SameDrag DEF ChooseTool, OpenDialog, NoCommand, ghosts, toolstate
<1>3. CASE NewCanvas
  <2>1. PICK c \in Saves(canvas) : canvas' = Painted(c, White)
    BY <1>3 DEF NewCanvas
  <2>2. canvas' \in Canvases
    BY <1>1, <2>1, SavesGood, PaintedGood, SomePictures
  <2>3. QED
    BY <1>1, <1>3, <2>2, DisturbedGood DEF NewCanvas, toolstate
<1>4. CASE Undo
  <2>1. canvas' \in Canvases
    BY <1>1, <1>4, UndoesGood DEF Undo
  <2>2. QED
    BY <1>1, <1>4, <2>1, DisturbedGood DEF Undo, toolstate
<1>5. QED
  BY <1>2, <1>3, <1>4

LEMMA CanvasDownGood ==
  ASSUME HistoryInv, at' = at, at \in Points, (tool = "FILL" /\ Fill) \/ StartDrag
  PROVE  HistoryInv'
<1>1. canvas \in Canvases /\ tool \in Tools /\ start \in Places /\ mouse \in Places
      /\ drawing \in BOOLEAN /\ at \in Places
  BY DEF HistoryInv, TypeOK
<1>2. CASE tool = "FILL" /\ Fill
  <2>1. PICK c \in Saves(canvas) :
          canvas' \in {c, Painted(c, Append(c.picture, Stroke("FILL")))}
    BY <1>2 DEF Fill
  <2>2. c \in Canvases
    BY <1>1, SavesGood
  <2>3. Append(c.picture, Stroke("FILL")) \in Pictures
    BY <2>2, SomePictures, AppendMark DEF Canvases
  <2>4. canvas' \in Canvases
    BY <2>1, <2>2, <2>3, PaintedGood
  <2>5. QED
    BY <1>1, <1>2, <2>4, DisturbedGood DEF Fill, toolstate
<1>3. CASE StartDrag
  <2>1. PICK c \in Saves(canvas) :
          /\ canvas' = c /\ drawing' = TRUE /\ start' = at /\ base' = c.picture
          /\ calm' = TRUE /\ tool' = tool /\ mouse' = mouse
    BY <1>3 DEF StartDrag
  <2>2. c \in Canvases /\ (Apart(c) => c.undo # << >> /\ Last(c.undo) = c.picture)
    BY <1>1, SavesGood
  <2>3. QED
    BY <1>1, <2>1, <2>2 DEF HistoryInv, TypeOK, BaseOnTop, Canvases
<1>4. QED
  BY <1>2, <1>3

LEMMA MouseDownGood ==
  ASSUME HistoryInv, NEW b \in Buttons, MouseDown(b) PROVE HistoryInv'
<1>1. at' = at /\ at \in Places
  BY DEF MouseDown, HistoryInv, TypeOK
<1>2. CASE PickerDown \/ AboutDown
  BY <1>1, <1>2, SameDrag
     DEF PickerDown, AboutDown, toolstate, ghosts, HistoryInv, TypeOK
<1>3. CASE overlay = "none" /\ (IF at = "panel" THEN PanelDown ELSE CanvasDown(b))
  BY <1>1, <1>3, CommandGood, CanvasDownGood DEF PanelDown, CanvasDown
<1>4. QED
  BY <1>2, <1>3 DEF MouseDown

LEMMA MouseUpGood ==
  ASSUME HistoryInv, NEW b \in Buttons, MouseUp(b) PROVE HistoryInv'
<1>1. UNCHANGED <<at, tool, start, mouse>> /\ TypeOK
  BY DEF MouseUp, HistoryInv
<1>2. CASE overlay = "none" /\ drawing
  <2>1. drawing' = FALSE /\ canvas' = Finished(canvas) /\ Disturbed
    BY <1>2 DEF MouseUp
  <2>2. QED
    BY <1>1, <2>1, FinishedGood, DisturbedGood DEF TypeOK
<1>3. CASE ~(overlay = "none" /\ drawing)
  BY <1>1, <1>3, SameDrag DEF MouseUp, TypeOK
<1>4. QED
  BY <1>2, <1>3

LEMMA MouseMoveGood ==
  ASSUME HistoryInv, NEW p \in Places, MouseMove(p) PROVE HistoryInv'
<1>1. /\ at' = p /\ UNCHANGED <<tool, drawing, start, base, calm>> /\ TypeOK
  BY DEF MouseMove, ghosts, HistoryInv
<1>2. CASE overlay = "none" /\ drawing
  <2>1. mouse' = p /\ canvas' = Dragged(canvas, p)
    BY <1>2 DEF MouseMove
  <2>2. canvas' \in Canvases /\ SameTop(canvas, canvas')
    BY <1>1, <2>1, DraggedGood
  <2>3. QED
    BY <1>1, <2>1, <2>2, KeepsBase DEF HistoryInv, TypeOK
<1>3. CASE ~(overlay = "none" /\ drawing)
  <2>1. canvas' = canvas /\ mouse' \in Places
    BY <1>1, <1>3 DEF MouseMove, TypeOK
  <2>2. QED
    BY <1>1, <2>1, SameDrag DEF TypeOK
<1>4. QED
  BY <1>2, <1>3

LEMMA ScribbleGood == ASSUME HistoryInv, Scribble PROVE HistoryInv'
<1>1. canvas \in Canvases /\ canvas.surf = Freed /\ canvas' = Painted(canvas, Noise)
  BY DEF Scribble, HistoryInv, TypeOK
<1>2. canvas' \in Canvases /\ SameTop(canvas, canvas')
  BY <1>1, PaintedGood, SomePictures
<1>3. UNCHANGED <<tool, drawing, calm, at, start, mouse, base>>
  BY DEF Scribble, pointer, toolstate, ghosts
<1>4. QED
  BY <1>2, <1>3, KeepsBase DEF HistoryInv, TypeOK

LEMMA PaintInitGood == PaintInit => HistoryInv
<1> SUFFICES ASSUME PaintInit PROVE HistoryInv
  OBVIOUS
<1>1. White \in Pictures /\ << >> \in Seq(Pictures) /\ Own \in Int
  BY SomePictures DEF Own
<1>2. QED
  BY <1>1, PaintAssumption DEF PaintInit, HistoryInv, TypeOK, BaseOnTop, Canvases, Places

LEMMA PaintStepGood == HistoryInv /\ [PaintNext]_paintVars => HistoryInv'
<1> SUFFICES ASSUME HistoryInv, [PaintNext]_paintVars PROVE HistoryInv'
  OBVIOUS
<1>1. ASSUME NEW b \in Buttons, MouseDown(b) \/ MouseUp(b) PROVE HistoryInv'
  BY <1>1, MouseDownGood, MouseUpGood
<1>2. ASSUME NEW p \in Places, MouseMove(p) PROVE HistoryInv'
  BY <1>2, MouseMoveGood
<1>3. CASE KeyDown
  <2>1. at' \in Places /\ (Undo \/ NewCanvas)
    BY <1>3 DEF KeyDown, pointer, HistoryInv, TypeOK
  <2>2. QED
    BY <2>1, CommandGood
<1>4. CASE Scribble
  BY <1>4, ScribbleGood
<1>5. CASE UNCHANGED paintVars
  BY <1>5, SameDrag DEF paintVars, pointer, toolstate, ghosts, HistoryInv, TypeOK
<1>6. QED
  BY <1>1, <1>2, <1>3, <1>4, <1>5 DEF PaintNext

LEMMA PaintInductive == PaintSpec => []HistoryInv
BY PaintInitGood, PaintStepGood, PTL DEF PaintSpec

(* While a drag goes on undisturbed, what each motion restores is the      *)
(* picture the drag began with, unless the display lies in that memory.    *)
THEOREM PreviewsRestoreTheBase == PaintSpec => []BaseOnTop
BY PaintInductive, PTL DEF HistoryInv

LEMMA OneShape ==
  ASSUME HistoryInv, [PaintNext]_paintVars, drawing, ~drawing', calm, Apart(canvas),
         tool \in Shapes
  PROVE  canvas'.picture = Append(base, Mark(tool, start, mouse))
<1>1. PICK b \in Buttons : MouseUp(b)
  BY DEF PaintNext, paintVars, toolstate, MouseDown, PickerDown, AboutDown, PanelDown,
         CanvasDown, ChooseTool, OpenDialog, NewCanvas, Undo, NoCommand, Fill,
         StartDrag, MouseMove, KeyDown, Scribble
<1>2. canvas' = Finished(canvas)
  BY <1>1 DEF MouseUp
<1>3. canvas \in Canvases /\ canvas.undo # << >> /\ Last(canvas.undo) = base
  BY DEF HistoryInv, TypeOK, BaseOnTop
<1>4. Restored(canvas) \in Canvases /\ Restored(canvas).picture = base
  BY <1>3, RestoredGood
<1>5. Append(base, Mark(tool, start, mouse)) \in Pictures
  BY SomePictures, AppendMark DEF HistoryInv, TypeOK
<1>6. QED
  BY <1>2, <1>3, <1>4, <1>5, PaintedGood DEF Finished

(* Whatever tools and previews an undisturbed drag went through, one that  *)
(* ends as a shape leaves that shape on the picture it began with.         *)
THEOREM DragsLeaveOneShape == PaintSpec => DragLeavesOneShape
BY PaintInductive, OneShape, PTL DEF PaintSpec, DragLeavesOneShape

(***************************************************************************)
(* What is undone is what was saved, in Faithful's strengthening of        *)
(* UndoIsHistory: if the display lies in a saved picture, the history      *)
(* knows it as shared, so that painting on the display spoils no picture   *)
(* of which the history holds a copy.                                      *)
(***************************************************************************)
Windowed(u, hs) ==
  /\ Len(u) <= MAX_UNDO /\ Len(u) <= Len(hs)
  /\ \A k \in 1..Len(u) : hs[Len(hs) - Len(u) + k] \in {Shared, u[k]}

SharedKnown(u, hs, s) ==
  s > 0 => s <= Len(u) /\ hs[Len(hs) - Len(u) + s] = Shared

Faithful(c, hs) ==
  hs \in Seq(Pictures) /\ Windowed(c.undo, hs) /\ SharedKnown(c.undo, hs, c.surf)

SavedAs(c) == IF c.surf = Len(c.undo) THEN Shared ELSE c.picture

LEMMA SharedIsPicture == Shared \in Pictures
<1>1. Mark("shared", "panel", "panel") \in Marks
  BY DEF Mark, Marks, Places
<1>2. QED
  BY <1>1 DEF Shared, Pictures

(* Painting alters at most the saved picture known as shared.              *)
LEMMA PaintedFaithful ==
  ASSUME NEW c \in Canvases, NEW p \in Pictures, NEW hs, Faithful(c, hs)
  PROVE  Faithful(Painted(c, p), hs)
<1> DEFINE u == c.undo
           v == [u EXCEPT ![c.surf] = p]
<1>1. u \in Seq(Pictures) /\ c.surf \in Int /\ Len(u) \in Nat /\ DOMAIN u = 1..Len(u)
  BY DEF Canvases
<1>2. hs \in Seq(Pictures) /\ Len(hs) \in Nat
  BY DEF Faithful
<1>3. CASE c.surf \in DOMAIN u
  <2>1. Painted(c, p).undo = v /\ Painted(c, p).surf = c.surf
    BY <1>3 DEF Painted, Canvases
  <2>2. Len(v) = Len(u) /\ \A k \in 1..Len(u) : v[k] = IF k = c.surf THEN p ELSE u[k]
    BY <1>1, <1>3, ExceptSeq
  <2> HIDE DEF v
  <2>3. Windowed(u, hs) /\ SharedKnown(u, hs, c.surf) /\ c.surf > 0
    BY <1>1, <1>3 DEF Faithful
  <2>4. \A k \in 1..Len(u) : hs[Len(hs) - Len(u) + k] \in {Shared, v[k]}
    BY <2>2, <2>3 DEF Windowed, SharedKnown
  <2>5. Windowed(v, hs) /\ SharedKnown(v, hs, c.surf)
    BY <2>2, <2>3, <2>4 DEF Windowed, SharedKnown
  <2>6. QED
    BY <1>2, <2>1, <2>5 DEF Faithful
<1>4. CASE c.surf \notin DOMAIN u
  <2>1. Painted(c, p).undo = u /\ Painted(c, p).surf = c.surf
    BY <1>4 DEF Painted, Canvases
  <2>2. QED
    BY <2>1 DEF Faithful
<1>5. QED
  BY <1>3, <1>4

(* The stack and the history grow by the same picture at the same end, and *)
(* a picture pushed out of the stack leaves the window.                    *)
LEMMA PushFaithful ==
  ASSUME NEW c \in Canvases, NEW p \in Pictures, NEW s \in Int, NEW hs, NEW q \in {Shared, p},
         hs \in Seq(Pictures), Windowed(c.undo, hs),
         s > 0 => \/ SharedKnown(c.undo, hs, s)
                  \/ s = Len(c.undo) + 1 /\ q = Shared
  PROVE  Faithful(Push(c, p, s), Append(hs, q))
<1> DEFINE u == c.undo
           n == Len(u)
           h == Len(hs)
           more == Append(u, p)
           gs == Append(hs, q)
<1>1. u \in Seq(Pictures) /\ n \in Nat /\ h \in Nat /\ q \in Pictures
  BY SharedIsPicture DEF Canvases
<1>2. /\ more \in Seq(Pictures) /\ Len(more) = n + 1 /\ more[n + 1] = p /\ more # << >>
      /\ \A k \in 1..n : more[k] = u[k]
  BY <1>1, AppendProperties
<1>3. /\ gs \in Seq(Pictures) /\ Len(gs) = h + 1 /\ gs[h + 1] = q
      /\ \A k \in 1..h : gs[k] = hs[k]
  BY <1>1, AppendProperties
<1>4. n <= MAX_UNDO /\ n <= h /\ \A k \in 1..n : hs[h - n + k] \in {Shared, u[k]}
  BY DEF Windowed
<1>5. MAX_UNDO \in Nat \ {0}
  BY PaintAssumption
<1>6. \A k \in 1..n + 1 : gs[h - n + k] \in {Shared, more[k]}
  <2> SUFFICES ASSUME NEW k \in 1..n + 1 PROVE gs[h - n + k] \in {Shared, more[k]}
    OBVIOUS
  <2> HIDE DEF gs, more
  <2>1. CASE k = n + 1
    BY <1>1, <1>2, <1>3, <2>1
  <2>2. CASE k # n + 1
    <3>1. k \in 1..n /\ h - n + k \in 1..h
      BY <1>1, <1>4, <2>2
    <3>2. QED
      BY <1>2, <1>3, <1>4, <3>1
  <2>3. QED
    BY <2>1, <2>2
<1>7. s > 0 => s <= n + 1 /\ gs[h - n + s] = Shared
  <2>1. CASE s > 0 /\ SharedKnown(u, hs, s)
    <3>1. s <= n /\ hs[h - n + s] = Shared
      BY <2>1 DEF SharedKnown
    <3>2. n <= h
      BY <1>4
    <3> HIDE DEF gs, n, h
    <3>3. h - n + s \in 1..h /\ s <= n + 1
      BY <1>1, <2>1, <3>1, <3>2
    <3>4. QED
      BY <1>3, <3>1, <3>3
  <2>2. CASE s > 0 /\ s = n + 1 /\ q = Shared
    BY <1>1, <1>3, <2>2
  <2>3. QED
    BY <2>1, <2>2
<1>8. CASE n < MAX_UNDO
  <2>1. Push(c, p, s) = [picture |-> p, undo |-> more, surf |-> s]
    BY <1>8 DEF Push
  <2> HIDE DEF more, gs
  <2>2. /\ Len(more) <= MAX_UNDO /\ Len(more) <= Len(gs) /\ Len(more) = n + 1
        /\ Len(gs) - Len(more) = h - n
    <3>1. n <= h /\ Len(more) = n + 1 /\ Len(gs) = h + 1
      BY <1>2, <1>3, <1>4
    <3> HIDE DEF n, h
    <3>2. QED
      BY <1>1, <1>5, <1>8, <3>1
  <2> HIDE DEF n, h
  <2>3. Windowed(more, gs)
    BY <1>6, <2>2 DEF Windowed
  <2>4. SharedKnown(more, gs, s)
    BY <1>7, <2>2 DEF SharedKnown
  <2>5. QED
    BY <1>3, <2>1, <2>3, <2>4 DEF Faithful, gs
<1>9. CASE ~(n < MAX_UNDO)
  <2> DEFINE r == CASE s = 1 -> Freed [] s > 1 -> s - 1 [] OTHER -> s
             less == Tail(more)
  <2>1. Push(c, p, s) = [picture |-> p, undo |-> less, surf |-> r]
    BY <1>9 DEF Push
  <2>2. Len(less) = n /\ \A k \in 1..n : less[k] = more[k + 1]
    BY <1>1, <1>2, HeadTailProperties
  <2>3. r \in Int /\ (r > 0 => s = r + 1)
    BY DEF Freed
  <2> HIDE DEF more, gs, less, r
  <2>4. \A k \in 1..n : gs[h + 1 - n + k] \in {Shared, less[k]}
    <3> SUFFICES ASSUME NEW k \in 1..n PROVE gs[h + 1 - n + k] \in {Shared, less[k]}
      OBVIOUS
    <3>1. k + 1 \in 1..n + 1 /\ h + 1 - n + k = h - n + (k + 1)
      BY <1>1
    <3>2. QED
      BY <1>6, <2>2, <3>1
  <2>5. r > 0 => r <= n /\ gs[h + 1 - n + r] = Shared
    <3> SUFFICES ASSUME r > 0 PROVE r <= n /\ gs[h + 1 - n + r] = Shared
      OBVIOUS
    <3> HIDE DEF n, h
    <3>1. s = r + 1 /\ h + 1 - n + r = h - n + s
      BY <1>1, <2>3
    <3>2. s > 0 /\ (s <= n + 1 => r <= n)
      BY <1>1, <2>3, <3>1
    <3>3. QED
      BY <1>7, <3>1, <3>2
  <2>6. /\ Len(less) <= MAX_UNDO /\ Len(less) <= Len(gs) /\ Len(less) = n
        /\ Len(gs) - Len(less) = h + 1 - n
    <3>1. n <= MAX_UNDO /\ n <= h /\ Len(less) = n /\ Len(gs) = h + 1
      BY <1>3, <1>4, <2>2
    <3> HIDE DEF n, h
    <3>2. QED
      BY <1>1, <3>1
  <2> HIDE DEF n, h
  <2>7. Windowed(less, gs)
    BY <2>4, <2>6 DEF Windowed
  <2>8. SharedKnown(less, gs, r)
    BY <2>5, <2>6 DEF SharedKnown
  <2>9. QED
    BY <1>3, <2>1, <2>7, <2>8 DEF Faithful, gs
<1>10. QED
  BY <1>8, <1>9

(* Whatever memory the copies of save_undo get.                            *)
LEMMA SavesFaithful ==
  ASSUME NEW c \in Canvases, c.surf # Gone, NEW d \in Saves(c), NEW hs, Faithful(c, hs)
  PROVE  Faithful(d, IF d.surf = Gone THEN hs ELSE Append(hs, SavedAs(d)))
<1> DEFINE n == Len(c.undo)
<1>1. c.picture \in Pictures /\ c.surf \in Int /\ n \in Nat /\ Blank \in Pictures
  BY SomePictures DEF Canvases
<1>2. hs \in Seq(Pictures) /\ Windowed(c.undo, hs) /\ SharedKnown(c.undo, hs, c.surf)
  BY DEF Faithful
<1>3. ASSUME NEW p \in Pictures, NEW s \in Int, d = Push(c, p, s), s # Gone,
             s > 0 => SharedKnown(c.undo, hs, s) \/ s = n + 1
      PROVE  Faithful(d, IF d.surf = Gone THEN hs ELSE Append(hs, SavedAs(d)))
  <2>1. /\ d.picture = p /\ d.surf # Gone
        /\ d.surf = Len(d.undo) <=> s = n + 1
    <3>1. Len(Append(c.undo, p)) = n + 1 /\ Len(Tail(Append(c.undo, p))) = n
      BY AppendProperties, HeadTailProperties DEF Canvases
    <3>2. s > 0 => s <= n \/ s = n + 1
      BY <1>3 DEF SharedKnown
    <3>3. n < MAX_UNDO \/ n > 0
      BY <1>1, PaintAssumption
    <3>4. QED
      BY <1>1, <1>3, <3>1, <3>2, <3>3, PaintAssumption DEF Push, Freed, Gone
  <2>2. SavedAs(d) = IF s = n + 1 THEN Shared ELSE p
    BY <2>1 DEF SavedAs
  <2>3. Faithful(d, Append(hs, SavedAs(d)))
    BY <1>2, <1>3, <2>2, PushFaithful
  <2>4. QED
    BY <2>1, <2>3
<1>4. CASE d = Push(c, c.picture, c.surf)
  BY <1>1, <1>2, <1>3, <1>4
<1>5. CASE d = Push(c, Blank, Freed)
  BY <1>1, <1>3, <1>5 DEF Freed, Gone
<1>6. CASE d = Push(c, c.picture, n + 1)
  BY <1>1, <1>3, <1>6 DEF Gone
<1>7. CASE d = [c EXCEPT !.surf = Gone]
  <2>1. d.surf = Gone /\ d.undo = c.undo
    BY <1>7 DEF Canvases
  <2>2. QED
    BY <1>2, <2>1 DEF Faithful, SharedKnown, Gone
<1>8. QED
  BY <1>4, <1>5, <1>6, <1>7 DEF Saves

(* undo takes the newest picture from both.                                *)
LEMMA UndoesFaithful ==
  ASSUME NEW c \in Canvases, NEW d \in Undoes(c), NEW hs, Faithful(c, hs)
  PROVE  Faithful(d, IF c.undo = << >> THEN hs ELSE Front(hs))
<1>1. CASE c.undo = << >>
  BY <1>1 DEF Undoes
<1>2. CASE c.undo # << >>
  <2> DEFINE u == c.undo
             n == Len(u)
             h == Len(hs)
             v == Front(u)
             gs == Front(hs)
  <2>1. u \in Seq(Pictures) /\ n \in Nat \ {0} /\ hs \in Seq(Pictures) /\ h \in Nat
    BY <1>2, EmptySeq DEF Canvases, Faithful
  <2>2. n <= MAX_UNDO /\ n <= h /\ \A k \in 1..n : hs[h - n + k] \in {Shared, u[k]}
    BY DEF Faithful, Windowed
  <2>3. Len(v) = n - 1 /\ \A k \in 1..n - 1 : v[k] = u[k]
    BY <2>1, SubSeqProperties DEF Front
  <2>4. gs \in Seq(Pictures) /\ Len(gs) = h - 1 /\ \A k \in 1..h - 1 : gs[k] = hs[k]
    <3>1. h \in Nat \ {0}
      BY <2>1, <2>2
    <3>2. gs = SubSeq(hs, 1, h - 1) /\ \A k \in 1..h - 1 : hs[k] \in Pictures
      BY <2>1, <3>1, ElementOfSeq DEF Front
    <3> HIDE DEF gs, h
    <3>3. /\ gs \in Seq(Pictures) /\ Len(gs) = h - 1
          /\ \A k \in 1..h - 1 : gs[k] = hs[1 + k - 1]
      BY <3>1, <3>2, SubSeqProperties
    <3>4. QED
      BY <3>1, <3>3
  <2>5. d.undo = v /\ ~(d.surf > 0)
    BY <1>2 DEF Undoes, Freed, Gone
  <2> HIDE DEF v, gs
  <2>6. \A k \in 1..n - 1 : gs[(h - 1) - (n - 1) + k] \in {Shared, v[k]}
    <3> SUFFICES ASSUME NEW k \in 1..n - 1
                 PROVE  gs[(h - 1) - (n - 1) + k] \in {Shared, v[k]}
      OBVIOUS
    <3>1. (h - 1) - (n - 1) + k = h - n + k /\ h - n + k \in 1..h - 1 /\ k \in 1..n
      BY <2>1, <2>2
    <3>2. QED
      BY <2>2, <2>3, <2>4, <3>1
  <2>7. n - 1 <= MAX_UNDO /\ n - 1 <= h - 1
    BY <2>1, <2>2, PaintAssumption
  <2>8. Windowed(v, gs)
    BY <2>3, <2>4, <2>6, <2>7 DEF Windowed
  <2>9. QED
    BY <1>2, <2>4, <2>5, <2>8 DEF Faithful, SharedKnown, gs
<1>3. QED
  BY <1>1, <1>2

(* The paintings of a motion and of a release.                             *)
LEMMA DragFaithful ==
  ASSUME TypeOK, Faithful(canvas, history), NEW p \in Places
  PROVE  Faithful(Dragged(canvas, p), history) /\ Faithful(Finished(canvas), history)
<1>1. canvas \in Canvases /\ Restored(canvas) \in Canvases
  BY RestoredGood DEF TypeOK
<1>2. Faithful(Restored(canvas), history)
  <2>1. CASE canvas.undo = << >>
    BY <2>1 DEF Restored
  <2>2. CASE canvas.undo # << >>
    <3>1. Last(canvas.undo) \in Pictures
      BY <1>1, <2>2, EmptySeq, ElementOfSeq DEF Last, Canvases
    <3>2. QED
      BY <1>1, <2>2, <3>1, PaintedFaithful DEF Restored
  <2>3. QED
    BY <2>1, <2>2
<1>3. /\ Append(canvas.picture, Stroke(tool)) \in Pictures
      /\ Append(Restored(canvas).picture, Mark(tool, start, p)) \in Pictures
      /\ Append(Restored(canvas).picture, Mark(tool, start, mouse)) \in Pictures
  BY <1>1, SomePictures, AppendMark DEF TypeOK, Canvases
<1>4. \/ Dragged(canvas, p) = Painted(canvas, Append(canvas.picture, Stroke(tool)))
      \/ Dragged(canvas, p) =
           Painted(canvas, Append(Restored(canvas).picture, Mark(tool, start, p)))
      \/ Dragged(canvas, p) = Restored(canvas)
  BY DEF Dragged, Freehand, Shapes
<1>5. \/ Finished(canvas) =
           Painted(canvas, Append(Restored(canvas).picture, Mark(tool, start, mouse)))
      \/ Finished(canvas) = Restored(canvas)
  BY DEF Finished
<1>6. QED
  BY <1>1, <1>2, <1>3, <1>4, <1>5, PaintedFaithful

(* save_undo, and what is painted after it.                                *)
LEMMA SavedFaithful ==
  ASSUME TypeOK, Faithful(canvas, history), canvas.surf # Gone,
         NEW c \in Saves(canvas), save_undo(c), NEW p \in Pictures,
         canvas' \in {c, Painted(c, p)}
  PROVE  Faithful(canvas', history')
<1>1. canvas \in Canvases /\ c \in Canvases
  BY SavesGood DEF TypeOK
<1>2. history' = IF c.surf = Gone THEN history ELSE Append(history, SavedAs(c))
  BY DEF save_undo, SavedAs
<1>3. Faithful(c, history')
  BY <1>1, <1>2, SavesFaithful
<1>4. QED
  BY <1>1, <1>3, PaintedFaithful

(* What the panel and the keyboard command.                                *)
LEMMA CommandFaithful ==
  ASSUME TypeOK, Faithful(canvas, history), canvas.surf # Gone, NewCanvas \/ Undo
  PROVE  Faithful(canvas', history')
<1>1. CASE NewCanvas
  BY <1>1, SavedFaithful, SomePictures DEF NewCanvas
<1>2. CASE Undo
  BY <1>2, UndoesFaithful DEF Undo, TypeOK
<1>3. QED
  BY <1>1, <1>2

LEMMA PressFaithful ==
  ASSUME TypeOK, Faithful(canvas, history), canvas.surf # Gone, NEW b \in Buttons, MouseDown(b)
  PROVE  Faithful(canvas', history')
<1>1. CASE PickerDown \/ AboutDown \/ ChooseTool \/ OpenDialog \/ NoCommand
  BY <1>1 DEF PickerDown, AboutDown, ChooseTool, OpenDialog, NoCommand, ghosts
<1>2. CASE NewCanvas \/ Undo
  BY <1>2, CommandFaithful
<1>3. CASE Fill
  <2>1. PICK c \in Saves(canvas) :
          /\ save_undo(c)
          /\ canvas' \in {c, Painted(c, Append(c.picture, Stroke("FILL")))}
    BY <1>3 DEF Fill
  <2>2. c.picture \in Pictures
    BY SavesGood DEF TypeOK, Canvases
  <2>3. Append(c.picture, Stroke("FILL")) \in Pictures
    BY <2>2, SomePictures, AppendMark
  <2>4. QED
    BY <2>1, <2>3, SavedFaithful
<1>4. CASE StartDrag
  BY <1>4, SavedFaithful, SomePictures DEF StartDrag
<1>5. QED
  BY <1>1, <1>2, <1>3, <1>4 DEF MouseDown, PanelDown, CanvasDown

LEMMA FaithfulStep ==
  HistoryInv /\ Faithful(canvas, history) /\ [PaintNext]_paintVars
    => Faithful(canvas, history)'
<1> SUFFICES ASSUME TypeOK, Faithful(canvas, history), [PaintNext]_paintVars
             PROVE  Faithful(canvas', history')
  BY DEF HistoryInv
<1>1. ASSUME NEW b \in Buttons, canvas.surf # Gone, MouseDown(b)
      PROVE  Faithful(canvas', history')
  BY <1>1, PressFaithful
<1>2. ASSUME NEW b \in Buttons, MouseUp(b) PROVE Faithful(canvas', history')
  <2>1. history' = history /\ canvas' \in {canvas, Finished(canvas)}
    BY <1>2 DEF MouseUp
  <2>2. at \in Places
    BY DEF TypeOK
  <2>3. QED
    BY <2>1, <2>2, DragFaithful
<1>3. ASSUME NEW p \in Places, MouseMove(p) PROVE Faithful(canvas', history')
  <2>1. history' = history /\ canvas' \in {canvas, Dragged(canvas, p)}
    BY <1>3 DEF MouseMove, ghosts
  <2>2. QED
    BY <2>1, DragFaithful
<1>4. CASE canvas.surf # Gone /\ KeyDown
  BY <1>4, CommandFaithful DEF KeyDown
<1>5. CASE Scribble
  BY <1>5, PaintedFaithful, SomePictures DEF Scribble, ghosts, TypeOK
<1>6. CASE UNCHANGED paintVars
  BY <1>6 DEF paintVars, ghosts
<1>7. QED
  BY <1>1, <1>2, <1>3, <1>4, <1>5, <1>6 DEF PaintNext

LEMMA FaithfulInit == PaintInit => Faithful(canvas, history)
<1>1. << >> \in Seq(Pictures) /\ Len(<< >>) = 0
  BY EmptySeq
<1>2. QED
  BY <1>1, PaintAssumption DEF PaintInit, Faithful, Windowed, SharedKnown, Own

(* Whatever is painted, saved and undone, and whatever becomes of the      *)
(* memory that undo frees, the undo stack has the newest pictures saved    *)
(* and not undone, as they were saved, but those shared with the display.  *)
THEOREM UndoesWhatWasSaved == PaintSpec => []UndoIsHistory
<1>1. PaintSpec => [](HistoryInv /\ Faithful(canvas, history))
  BY PaintInitGood, PaintStepGood, FaithfulInit, FaithfulStep, PTL DEF PaintSpec
<1>2. Faithful(canvas, history) => UndoIsHistory
  BY DEF Faithful, Windowed, UndoIsHistory
<1>3. QED
  BY <1>1, <1>2, PTL

(***************************************************************************)
(* FastWords, for any list of words, any times for them, any length of     *)
(* text and any wait between two events.                                   *)
(*                                                                         *)
(* A word goes through four kinds of game: Playing while it may be         *)
(* answered, Answered when it is right or lost and counted, Ready when     *)
(* there is a life for the next one, and Good between two steps.  Each     *)
(* operator of FastWords takes one kind to another.                        *)
(***************************************************************************)

Fields == {"score", "lives", "streak", "best_score", "round", "game_over",
           "words_correct", "words_wrong", "total_words", "time_left",
           "len", "good", "order", "pos"}

IsGame(g) == DOMAIN g = Fields /\ g = [f \in Fields |-> g[f]]

(* The counts agree, but for the word that is there.                       *)
Counted(g) ==
  /\ IsGame(g)
  /\ g.lives \in Nat /\ g.words_wrong \in Nat /\ g.words_correct \in Nat
  /\ g.streak \in Nat /\ g.round \in Nat /\ g.total_words \in Nat
  /\ g.game_over \in BOOLEAN
  /\ g.order \in [Words -> Words]
  /\ g.lives + g.words_wrong = 3
  /\ g.round = g.total_words
  /\ g.streak <= g.words_correct

(* What is typed fits.                                                     *)
Fits(g) ==
  /\ g.pos \in Words /\ g.time_left \in Int
  /\ g.len \in Nat /\ g.good \in Nat
  /\ g.good <= g.len /\ g.len <= MAX_INPUT /\ g.good <= Length[Word(g)]

Settled(g) == g.total_words = g.words_correct + g.words_wrong
Pending(g) == g.total_words = g.words_correct + g.words_wrong + 1

Ready(g) ==
  /\ Counted(g) /\ Settled(g)
  /\ ~g.game_over /\ g.lives # 0
  /\ g.pos \in 0..WORD_COUNT
Playing(g) == Counted(g) /\ Fits(g) /\ Pending(g) /\ ~g.game_over /\ g.lives # 0
Answered(g) == Counted(g) /\ Fits(g) /\ Settled(g) /\ ~g.game_over
Good(g) ==
  /\ Counted(g) /\ Fits(g)
  /\ \/ g.game_over /\ g.lives = 0 /\ Settled(g)
     \/ Playing(g) /\ g.time_left \in 1..Seconds[Word(g)]

GameInv == Good(game) /\ elapsed \in Nat

LEMMA SomeWord == WORD_COUNT \in Nat /\ 1 \in Words /\ Words \subseteq 0..WORD_COUNT
<1>1. WORD_COUNT \in Nat /\ WORD_COUNT >= 1
  BY FastWordsAssumption
<1>2. QED
  BY <1>1 DEF Words

LEMMA WordIsWord ==
  ASSUME NEW g, g.order \in [Words -> Words], g.pos \in Words
  PROVE  /\ Word(g) \in Words
         /\ Seconds[Word(g)] \in Nat \ {0} /\ Length[Word(g)] \in Nat \ {0}
BY FastWordsAssumption DEF Word

(* A word is shown with its whole time and an empty text.                  *)
LEMMA ShownGood ==
  ASSUME NEW g, Counted(g), Settled(g), ~g.game_over, g.lives # 0, g.pos \in Words
  PROVE  Good(Shown(g))
<1> DEFINE h == Shown(g)
<1>1. /\ IsGame(h)
      /\ h.time_left = Seconds[Word(g)] /\ h.len = 0 /\ h.good = 0
      /\ h.round = g.round + 1 /\ h.total_words = g.total_words + 1
      /\ h.lives = g.lives /\ h.words_wrong = g.words_wrong
      /\ h.words_correct = g.words_correct /\ h.streak = g.streak
      /\ h.game_over = g.game_over /\ h.order = g.order /\ h.pos = g.pos
  BY DEF Counted, Shown, IsGame, Fields
<1> HIDE DEF h
<1>2. Word(h) = Word(g)
  BY <1>1 DEF Word
<1>3. Seconds[Word(g)] \in Nat \ {0} /\ Length[Word(g)] \in Nat \ {0}
  BY WordIsWord DEF Counted
<1>4. Counted(h) /\ Pending(h)
  BY <1>1 DEF Counted, Settled, Pending
<1>5. Fits(h)
  BY <1>1, <1>2, <1>3, FastWordsAssumption DEF Fits
<1>6. h.time_left \in 1..Seconds[Word(h)]
  BY <1>1, <1>2, <1>3
<1>7. QED
  BY <1>1, <1>4, <1>5, <1>6 DEF Good, Playing, h

(* The next word, in the order there is or in a new one.                   *)
LEMMA NextWordGood ==
  ASSUME NEW g, Ready(g), NEW h \in NextWord(g)
  PROVE  Good(h)
<1>1. CASE g.pos < WORD_COUNT
  <2> DEFINE n == [g EXCEPT !.pos = @ + 1]
  <2>1. h = Shown(n)
    BY <1>1 DEF NextWord
  <2>2. /\ IsGame(n) /\ n.pos = g.pos + 1
        /\ n.round = g.round /\ n.total_words = g.total_words
        /\ n.lives = g.lives /\ n.words_wrong = g.words_wrong
        /\ n.words_correct = g.words_correct /\ n.streak = g.streak
        /\ n.game_over = g.game_over /\ n.order = g.order
    BY DEF Ready, Counted, IsGame, Fields
  <2> HIDE DEF n
  <2>3. n.pos \in Words
    BY <1>1, <2>2, FastWordsAssumption DEF Ready, Words
  <2>4. Counted(n) /\ Settled(n) /\ ~n.game_over /\ n.lives # 0
    BY <2>2 DEF Ready, Counted, Settled
  <2>5. QED
    BY <2>1, <2>3, <2>4, ShownGood
<1>2. CASE ~(g.pos < WORD_COUNT)
  <2>1. PICK p \in Orders : h = Shown([g EXCEPT !.order = p, !.pos = 1])
    BY <1>2 DEF NextWord
  <2> DEFINE n == [g EXCEPT !.order = p, !.pos = 1]
  <2>2. /\ IsGame(n) /\ n.pos = 1 /\ n.order = p
        /\ n.round = g.round /\ n.total_words = g.total_words
        /\ n.lives = g.lives /\ n.words_wrong = g.words_wrong
        /\ n.words_correct = g.words_correct /\ n.streak = g.streak
        /\ n.game_over = g.game_over
    BY DEF Ready, Counted, IsGame, Fields
  <2>3. h = Shown(n)
    BY <2>1
  <2> HIDE DEF n
  <2>4. n.pos \in Words /\ p \in [Words -> Words]
    BY <2>2, SomeWord DEF Orders
  <2>5. Counted(n) /\ Settled(n) /\ ~n.game_over /\ n.lives # 0
    BY <2>2, <2>4 DEF Ready, Counted, Settled
  <2>6. QED
    BY <2>3, <2>4, <2>5, ShownGood
<1>3. QED
  BY <1>1, <1>2

(* An answered word is followed by the next, or by the end of the game.    *)
LEMMA AfterAnswerGood ==
  ASSUME NEW g, Answered(g), NEW h \in AfterAnswer(g)
  PROVE  Good(h)
<1>1. CASE g.lives <= 0
  <2>1. h = Over(g) /\ g.lives = 0
    BY <1>1 DEF AfterAnswer, Answered, Counted
  <2>2. /\ IsGame(h) /\ h.game_over = TRUE
        /\ h.round = g.round /\ h.total_words = g.total_words
        /\ h.lives = g.lives /\ h.words_wrong = g.words_wrong
        /\ h.words_correct = g.words_correct /\ h.streak = g.streak
        /\ h.order = g.order /\ h.pos = g.pos /\ h.time_left = g.time_left
        /\ h.len = g.len /\ h.good = g.good
    BY <2>1 DEF Over, Answered, Counted, IsGame, Fields
  <2>3. Counted(h) /\ Settled(h)
    BY <2>2 DEF Answered, Counted, Settled
  <2>4. Fits(h)
    BY <2>2 DEF Answered, Fits, Word
  <2>5. QED
    BY <2>1, <2>2, <2>3, <2>4 DEF Good
<1>2. CASE ~(g.lives <= 0)
  <2>1. Ready(g)
    BY <1>2 DEF Answered, Ready, Counted, Fits, Words
  <2>2. QED
    BY <1>2, <2>1, NextWordGood DEF AfterAnswer
<1>3. QED
  BY <1>1, <1>2

LEMMA LostAnswered ==
  ASSUME NEW g, Playing(g)
  PROVE  Answered(Lost(g))
<1> DEFINE h == Lost(g)
<1>1. /\ IsGame(h) /\ h.game_over = g.game_over
      /\ h.round = g.round /\ h.total_words = g.total_words
      /\ h.lives = g.lives - 1 /\ h.words_wrong = g.words_wrong + 1
      /\ h.words_correct = g.words_correct /\ h.streak = 0
      /\ h.order = g.order /\ h.pos = g.pos /\ h.time_left = g.time_left
      /\ h.len = g.len /\ h.good = g.good
  BY DEF Lost, Playing, Counted, IsGame, Fields
<1> HIDE DEF h
<1>2. Counted(h) /\ Settled(h) /\ ~h.game_over
  BY <1>1 DEF Playing, Counted, Settled, Pending
<1>3. Fits(h)
  BY <1>1 DEF Playing, Fits, Word
<1>4. QED
  BY <1>2, <1>3 DEF Answered, h

LEMMA ScoredAnswered ==
  ASSUME NEW g, Playing(g)
  PROVE  Answered(Scored(g))
<1> DEFINE h == Scored(g)
<1>1. /\ IsGame(h) /\ h.game_over = g.game_over
      /\ h.round = g.round /\ h.total_words = g.total_words
      /\ h.lives = g.lives /\ h.words_wrong = g.words_wrong
      /\ h.words_correct = g.words_correct + 1 /\ h.streak = g.streak + 1
      /\ h.order = g.order /\ h.pos = g.pos /\ h.time_left = g.time_left
      /\ h.len = g.len /\ h.good = g.good
  BY DEF Scored, Playing, Counted, IsGame, Fields
<1> HIDE DEF h
<1>2. Counted(h) /\ Settled(h) /\ ~h.game_over
  BY <1>1 DEF Playing, Counted, Settled, Pending
<1>3. Fits(h)
  BY <1>1 DEF Playing, Fits, Word
<1>4. QED
  BY <1>2, <1>3 DEF Answered, h

LEMMA SubmittedGood ==
  ASSUME NEW g, Good(g), ~g.game_over, NEW h \in Submitted(g)
  PROVE  Good(h)
<1>1. Playing(g)
  BY DEF Good
<1>2. CASE g.len = 0
  BY <1>2 DEF Submitted
<1>3. CASE g.len # 0 /\ Right(g)
  BY <1>1, <1>3, ScoredAnswered, AfterAnswerGood DEF Submitted
<1>4. CASE g.len # 0 /\ ~Right(g)
  BY <1>1, <1>4, LostAnswered, AfterAnswerGood DEF Submitted
<1>5. QED
  BY <1>2, <1>3, <1>4

(* A new game starts its counts anew, in the order the old one left.       *)
LEMMA RestartedGood ==
  ASSUME NEW g, Good(g), NEW h \in Restarted(g)
  PROVE  Good(h)
<1> DEFINE n == [g EXCEPT !.game_over = FALSE, !.lives = 3, !.score = 0,
                          !.streak = 0, !.round = 0, !.words_correct = 0,
                          !.words_wrong = 0, !.total_words = 0]
<1>1. /\ IsGame(n) /\ n.game_over = FALSE /\ n.lives = 3 /\ n.streak = 0
      /\ n.round = 0 /\ n.words_correct = 0 /\ n.words_wrong = 0
      /\ n.total_words = 0 /\ n.order = g.order /\ n.pos = g.pos
  BY DEF Good, Counted, IsGame, Fields
<1>2. h \in NextWord(n)
  BY DEF Restarted
<1> HIDE DEF n
<1>3. n.pos \in 0..WORD_COUNT
  BY <1>1, SomeWord DEF Good, Fits
<1>4. Counted(n)
  <2>1. n.order \in [Words -> Words]
    BY <1>1 DEF Good, Counted
  <2>2. /\ n.lives \in Nat /\ n.words_wrong \in Nat /\ n.words_correct \in Nat
        /\ n.streak \in Nat /\ n.round \in Nat /\ n.total_words \in Nat
    <3>1. 0 \in Nat /\ 3 \in Nat
      OBVIOUS
    <3>2. QED
      BY <1>1, <3>1, Zenon
  <2>3. n.game_over \in BOOLEAN /\ n.round = n.total_words
    BY <1>1, Zenon
  <2>4. n.lives + n.words_wrong = 3
    <3>1. 3 + 0 = 3
      OBVIOUS
    <3>2. QED
      BY <1>1, <3>1
  <2>5. n.streak <= n.words_correct
    <3>1. 0 <= 0
      OBVIOUS
    <3>2. QED
      BY <1>1, <3>1
  <2>6. QED
    BY <1>1, <2>1, <2>2, <2>4, <2>5, <2>3 DEF Counted
<1>5. Ready(n)
  BY <1>1, <1>3, <1>4 DEF Ready, Settled
<1>6. QED
  BY <1>2, <1>5, NextWordGood

LEMMA UpdatedGood ==
  ASSUME NEW g, Good(g), NEW dt \in Nat, NEW h \in Updated(g, dt)
  PROVE  Good(h)
<1>1. CASE g.game_over
  BY <1>1 DEF Updated
<1>2. CASE ~g.game_over
  <2> DEFINE n == [g EXCEPT !.time_left = @ - dt]
  <2>1. h \in (IF n.time_left <= 0 THEN AfterAnswer(Lost(n)) ELSE {n})
    BY <1>2 DEF Updated
  <2>2. /\ IsGame(n) /\ n.time_left = g.time_left - dt
        /\ n.game_over = g.game_over
        /\ n.round = g.round /\ n.total_words = g.total_words
        /\ n.lives = g.lives /\ n.words_wrong = g.words_wrong
        /\ n.words_correct = g.words_correct /\ n.streak = g.streak
        /\ n.order = g.order /\ n.pos = g.pos
        /\ n.len = g.len /\ n.good = g.good
    BY DEF Good, Counted, IsGame, Fields
  <2> HIDE DEF n
  <2>3. Playing(g) /\ g.time_left \in 1..Seconds[Word(g)] /\ Word(n) = Word(g)
    BY <1>2, <2>2 DEF Good, Word
  <2>4. Counted(n) /\ Pending(n) /\ ~n.game_over /\ n.lives # 0
    BY <2>2, <2>3 DEF Playing, Counted, Pending
  <2>5. Fits(n)
    BY <2>2, <2>3 DEF Playing, Fits
  <2>6. Playing(n)
    BY <2>4, <2>5 DEF Playing
  <2>7. CASE n.time_left <= 0
    BY <2>1, <2>6, <2>7, LostAnswered, AfterAnswerGood
  <2>8. CASE ~(n.time_left <= 0)
    <3>1. Seconds[Word(g)] \in Nat
      BY <2>3, WordIsWord DEF Playing, Counted, Fits
    <3>2. n.time_left \in 1..Seconds[Word(n)]
      BY <2>2, <2>3, <2>8, <3>1
    <3>3. Good(n)
      BY <2>4, <2>5, <2>6, <3>2 DEF Good
    <3>4. h = n
      BY <2>1, <2>8
    <3>5. QED
      BY <3>3, <3>4
  <2>9. QED
    BY <2>7, <2>8
<1>3. QED
  BY <1>1, <1>2

(***************************************************************************)
(* The steps                                                               *)
(***************************************************************************)

(* Whatever the handler makes of a good game, update makes a good one.     *)
LEMMA HandledGood ==
  ASSUME GameInv, NEW gs, \A g \in gs : Good(g), Handled(gs)
  PROVE  GameInv'
<1>1. PICK g \in gs : game' \in Updated(g, IF game.game_over THEN 0 ELSE elapsed)
  BY DEF Handled
<1>2. (IF game.game_over THEN 0 ELSE elapsed) \in Nat
  BY DEF GameInv
<1>3. Good(game')
  BY <1>1, <1>2, UpdatedGood
<1>4. elapsed' \in Nat
  BY DEF Handled
<1>5. QED
  BY <1>3, <1>4 DEF GameInv, Good, Playing, Counted, Fits, Settled, Pending, IsGame, Word

(* What is typed, right or not, fits.                                      *)
LEMMA TypedGood ==
  ASSUME NEW g, Good(g), ~g.game_over, NEW l \in Nat, NEW r \in Nat,
         r <= l, l <= MAX_INPUT, r <= Length[Word(g)],
         NEW h, h = [g EXCEPT !.len = l, !.good = r]
  PROVE  Good(h)
<1>1. /\ IsGame(h) /\ h.len = l /\ h.good = r
      /\ h.game_over = g.game_over /\ h.time_left = g.time_left
      /\ h.round = g.round /\ h.total_words = g.total_words
      /\ h.lives = g.lives /\ h.words_wrong = g.words_wrong
      /\ h.words_correct = g.words_correct /\ h.streak = g.streak
      /\ h.order = g.order /\ h.pos = g.pos
  BY DEF Good, Counted, IsGame, Fields
<1>2. Word(h) = Word(g)
  BY <1>1 DEF Word
<1>3. Counted(h) /\ Pending(h) /\ ~h.game_over /\ h.lives # 0
  BY <1>1 DEF Good, Playing, Counted, Pending
<1>4. Fits(h)
  BY <1>1, <1>2 DEF Good, Fits
<1>5. h.time_left \in 1..Seconds[Word(h)]
  BY <1>1, <1>2 DEF Good
<1>6. QED
  BY <1>3, <1>4, <1>5 DEF Good, Playing

LEMMA TypeLetterGood == ASSUME GameInv, TypeLetter PROVE GameInv'
<1> DEFINE typed == [game EXCEPT !.len = @ + 1]
           right == [typed EXCEPT !.good = @ + 1]
           gs == IF game.game_over \/ game.len >= MAX_INPUT THEN {game}
                 ELSE {typed} \cup
                        (IF game.len = game.good /\ game.good < Length[Word(game)]
                         THEN {right} ELSE {})
<1>1. Handled(gs)
  BY DEF TypeLetter
<1>2. Good(game)
  BY DEF GameInv
<1>3. ASSUME NEW g \in gs PROVE Good(g)
  <2>1. CASE g = game
    BY <1>2, <2>1
  <2>2. CASE g = typed /\ ~game.game_over /\ ~(game.len >= MAX_INPUT)
    <3> DEFINE l == game.len + 1
               r == game.good
    <3>1. g = [game EXCEPT !.len = l, !.good = r]
      BY <1>2, <2>2 DEF Good, Counted, IsGame, Fields
    <3>2. l \in Nat /\ r \in Nat /\ r <= l /\ l <= MAX_INPUT /\ r <= Length[Word(game)]
      BY <1>2, <2>2, FastWordsAssumption DEF Good, Fits
    <3> HIDE DEF l, r
    <3>3. QED
      BY <1>2, <2>2, <3>1, <3>2, TypedGood
  <2>3. CASE /\ g = right /\ ~game.game_over /\ ~(game.len >= MAX_INPUT)
             /\ game.len = game.good /\ game.good < Length[Word(game)]
    <3> DEFINE l == game.len + 1
               r == game.good + 1
    <3>1. g = [game EXCEPT !.len = l, !.good = r]
      BY <1>2, <2>3 DEF Good, Counted, IsGame, Fields
    <3>2. Length[Word(game)] \in Nat
      BY <1>2, WordIsWord DEF Good, Counted, Fits
    <3>3. l \in Nat /\ r \in Nat /\ r <= l /\ l <= MAX_INPUT /\ r <= Length[Word(game)]
      BY <1>2, <2>3, <3>2, FastWordsAssumption DEF Good, Fits
    <3> HIDE DEF l, r
    <3>4. QED
      BY <1>2, <2>3, <3>1, <3>3, TypedGood
  <2>4. QED
    BY <2>1, <2>2, <2>3
<1> HIDE DEF gs
<1>4. QED
  BY <1>1, <1>3, HandledGood

LEMMA BackspaceGood == ASSUME GameInv, Backspace PROVE GameInv'
<1> DEFINE shorter == [game EXCEPT !.len = @ - 1,
                                   !.good = IF @ = game.len THEN @ - 1 ELSE @]
           gs == IF game.game_over \/ game.len = 0 THEN {game} ELSE {shorter}
<1>1. Handled(gs)
  BY DEF Backspace
<1>2. Good(game)
  BY DEF GameInv
<1>3. ASSUME NEW g \in gs PROVE Good(g)
  <2>1. CASE g = game
    BY <1>2, <2>1
  <2>2. CASE g = shorter /\ ~game.game_over /\ game.len # 0
    <3> DEFINE r == IF game.good = game.len THEN game.good - 1 ELSE game.good
    <3>1. g = [game EXCEPT !.len = game.len - 1, !.good = r]
      BY <1>2, <2>2 DEF Good, Counted, IsGame, Fields
    <3>2. Length[Word(game)] \in Nat
      BY <1>2, WordIsWord DEF Good, Counted, Fits
    <3>3. /\ game.len - 1 \in Nat /\ r \in Nat /\ r <= game.len - 1
          /\ game.len - 1 <= MAX_INPUT /\ r <= Length[Word(game)]
      BY <1>2, <2>2, <3>2, FastWordsAssumption DEF Good, Fits
    <3> HIDE DEF r
    <3>4. QED
      BY <1>2, <2>2, <3>1, <3>3, TypedGood
  <2>3. QED
    BY <2>1, <2>2
<1> HIDE DEF gs
<1>4. QED
  BY <1>1, <1>3, HandledGood

LEMMA GameInitGood == GameInit => GameInv
<1> SUFFICES ASSUME GameInit PROVE GameInv
  OBVIOUS
<1> DEFINE n == [score |-> 0, lives |-> 3, streak |-> 0, best_score |-> 0,
                 round |-> 0, game_over |-> FALSE, words_correct |-> 0,
                 words_wrong |-> 0, total_words |-> 0, time_left |-> 0,
                 len |-> 0, good |-> 0, order |-> [i \in Words |-> i], pos |-> 0]
<1>1. game \in NextWord(n) /\ elapsed = 0
  BY DEF GameInit
<1>2. IsGame(n)
  BY DEF IsGame, Fields
<1>3. /\ n.round = 0 /\ n.total_words = 0 /\ n.lives = 3 /\ n.words_wrong = 0
      /\ n.words_correct = 0 /\ n.streak = 0 /\ n.game_over = FALSE
      /\ n.order = [i \in Words |-> i] /\ n.pos = 0
  OBVIOUS
<1> HIDE DEF n
<1>4. n.order \in [Words -> Words]
  BY <1>3
<1>5. n.pos \in 0..WORD_COUNT
  BY <1>3, SomeWord
<1>6. Counted(n)
  <2>1. /\ n.lives \in Nat /\ n.words_wrong \in Nat /\ n.words_correct \in Nat
        /\ n.streak \in Nat /\ n.round \in Nat /\ n.total_words \in Nat
    <3>1. 0 \in Nat /\ 3 \in Nat
      OBVIOUS
    <3>2. QED
      BY <1>3, <3>1, Zenon
  <2>2. n.game_over \in BOOLEAN /\ n.round = n.total_words
    BY <1>3, Zenon
  <2>3. n.lives + n.words_wrong = 3
    <3>1. 3 + 0 = 3
      OBVIOUS
    <3>2. QED
      BY <1>3, <3>1
  <2>4. n.streak <= n.words_correct
    <3>1. 0 <= 0
      OBVIOUS
    <3>2. QED
      BY <1>3, <3>1
  <2>5. QED
    BY <1>2, <1>4, <2>1, <2>3, <2>4, <2>2 DEF Counted
<1>7. Ready(n)
  BY <1>3, <1>5, <1>6 DEF Ready, Settled
<1>8. QED
  BY <1>1, <1>7, NextWordGood DEF GameInv

LEMMA GameStepGood == GameInv /\ [GameNext]_gameVars => GameInv'
<1> SUFFICES ASSUME GameInv, [GameNext]_gameVars PROVE GameInv'
  OBVIOUS
<1>1. Good(game) /\ elapsed \in Nat
  BY DEF GameInv
<1>2. CASE TypeLetter
  BY <1>2, TypeLetterGood
<1>3. CASE Backspace
  BY <1>3, BackspaceGood
<1>4. CASE Return \/ KeypadEnter \/ Space
  <2>1. ASSUME NEW g \in IF game.game_over THEN Restarted(game) ELSE Submitted(game)
        PROVE  Good(g)
    BY <1>1, RestartedGood, SubmittedGood
  <2>2. ASSUME NEW g \in IF game.game_over THEN {game} ELSE Submitted(game)
        PROVE  Good(g)
    BY <1>1, SubmittedGood
  <2>3. ASSUME NEW g \in IF game.game_over THEN Restarted(game) ELSE {game}
        PROVE  Good(g)
    BY <1>1, RestartedGood
  <2>4. CASE Return
    BY <2>1, <2>4, HandledGood DEF Return
  <2>5. CASE KeypadEnter
    BY <2>2, <2>5, HandledGood DEF KeypadEnter
  <2>6. CASE Space
    BY <2>3, <2>6, HandledGood DEF Space
  <2>7. QED
    BY <1>4, <2>4, <2>5, <2>6
<1>5. CASE EscapeKey \/ OtherEvent
  <2>1. \A g \in {game} : Good(g)
    BY <1>1
  <2>2. Handled({game})
    BY <1>5 DEF EscapeKey, OtherEvent
  <2>3. QED
    BY <2>1, <2>2, HandledGood
<1>6. CASE Quit \/ UNCHANGED gameVars
  <2>1. game' = game /\ elapsed' = elapsed
    BY <1>6 DEF Quit, gameVars
  <2>2. Good(game')
    BY <1>1, <2>1
  <2>3. QED
    BY <1>1, <2>1, <2>2 DEF GameInv
<1>7. CASE Wait
  <2>1. game' = game /\ elapsed' = elapsed + 1
    BY <1>7 DEF Wait
  <2>2. Good(game')
    BY <1>1, <2>1
  <2>3. QED
    BY <1>1, <2>1, <2>2 DEF GameInv
<1>8. QED
  BY <1>2, <1>3, <1>4, <1>5, <1>6, <1>7 DEF GameNext

LEMMA GameInductive == GameSpec => []GameInv
BY GameInitGood, GameStepGood, PTL DEF GameSpec

(* The figures of the last page add up, after any number of games, words   *)
(* and events, however late each answer came.                              *)
THEOREM Tallied == GameSpec => []Tally
<1>1. GameInv => Tally
  BY DEF GameInv, Good, Playing, Counted, Settled, Pending, Tally
<1>2. QED
  BY <1>1, GameInductive, PTL

(* A word that waits for an answer has some of its time left, so that no   *)
(* answer is scored with a negative bonus, and what is typed fits.         *)
THEOREM Alive == GameSpec => []WordAlive
<1>1. GameInv => WordAlive
  BY DEF GameInv, Good, Playing, Fits, WordAlive
<1>2. QED
  BY <1>1, GameInductive, PTL
==============================================================================
