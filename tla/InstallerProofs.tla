-------------------------- MODULE InstallerProofs --------------------------
(***************************************************************************)
(* Theorems about Installer for any disks and any number of runs.          *)
(***************************************************************************)
EXTENDS Installer, SequenceTheorems, TLAPS

(***************************************************************************)
(* No disk is wiped without consent                                        *)
(***************************************************************************)
Wiping == {"mklabel", "mkpart1", "mkpart2", "vfat", "ext4"}

Agreed == /\ ~simulation /\ drive \in Disks
          /\ confirm = drive /\ (drive = boot_disk => yes)

(* What the questions have established at each step that relies on it: the *)
(* answers stand until the last partition is formatted.                    *)
Consent ==
  /\ part \in [Disks -> {"old", "none", "raw", "vfat", "ext4"} \X
                        {"old", "none", "raw", "vfat", "ext4"}]
  /\ pc = "safety" => ~simulation /\ drive \in Disks
  /\ pc = "desktop" => simulation \/ Agreed
  /\ pc \in Wiping => Agreed

LEMMA ConsentAsk == Consent /\ Ask => Consent' /\ UNCHANGED part
<1> SUFFICES ASSUME Consent, Ask PROVE Consent' /\ UNCHANGED part
  OBVIOUS
<1> USE DEF Consent, Agreed, Wiping, At, Goes, Abort, storage
<1>1. CASE DetectBootDisk
  BY <1>1 DEF DetectBootDisk
<1>2. CASE SetupWifi
  BY <1>2 DEF SetupWifi, answers
<1>3. CASE ConnectWifi
  BY <1>3 DEF ConnectWifi, answers
<1>4. CASE Ethernet
  BY <1>4 DEF Ethernet, answers
<1>5. CASE Account
  BY <1>5 DEF Account, answers
<1>6. CASE SelectDrive
  BY <1>6 DEF SelectDrive
<1>7. CASE CheckDriveSafety
  BY <1>7 DEF CheckDriveSafety
<1>8. CASE SelectDesktop
  BY <1>8 DEF SelectDesktop, answers
<1>9. QED
  BY <1>1, <1>2, <1>3, <1>4, <1>5, <1>6, <1>7, <1>8 DEF Ask

LEMMA ConsentPartition ==
  Consent /\ PartitionDrive =>
    /\ Consent' /\ Agreed
    /\ \A d \in Disks \ {drive} : part'[d] = part[d]
<1> SUFFICES ASSUME Consent, PartitionDrive
             PROVE  /\ Consent' /\ Agreed
                    /\ \A d \in Disks \ {drive} : part'[d] = part[d]
  OBVIOUS
<1>0. Agreed
  BY DEF Consent, PartitionDrive, Mklabel, MkpartEfi, MkpartRoot, MkfsEfi,
         MkfsRoot, At, Goes, Abort, Wiping
<1>1. UNCHANGED answers /\ pc' \notin {"safety", "desktop"}
  BY DEF PartitionDrive, Mklabel, MkpartEfi, MkpartRoot, MkfsEfi, MkfsRoot, At, Goes, Abort
<1>2. \/ UNCHANGED part
      \/ \E x, y \in {"none", "raw", "vfat", "ext4", "old"} : Partitioned(<<x, y>>)
  <2>1. part[drive] = <<part[drive][1], part[drive][2]>>
        /\ part[drive][2] \in {"none", "raw", "vfat", "ext4", "old"}
    BY <1>0 DEF Agreed, Consent
  <2>2. QED
    BY <2>1 DEF PartitionDrive, Mklabel, MkpartEfi, MkpartRoot, MkfsEfi, MkfsRoot,
                storage
<1>3. /\ part' \in [Disks -> {"old", "none", "raw", "vfat", "ext4"} \X
                             {"old", "none", "raw", "vfat", "ext4"}]
      /\ \A d \in Disks \ {drive} : part'[d] = part[d]
  BY <1>2 DEF Consent, Partitioned
<1>4. QED
  BY <1>0, <1>1, <1>3 DEF Consent, Agreed, answers

(* After the formatting nothing touches a partition table.                 *)
LEMMA ConsentInstall ==
  Consent /\ (InstallBase \/ InstallDe \/ InstallBootloader)
    => Consent' /\ UNCHANGED part
<1> SUFFICES ASSUME Consent, InstallBase \/ InstallDe \/ InstallBootloader
             PROVE  Consent' /\ UNCHANGED part
  OBVIOUS
<1>1. UNCHANGED <<answers, part>> /\ pc' \notin Wiping \cup {"safety", "desktop"}
  <2> USE DEF At, Goes, Abort, Wiping, storage
  <2>1. CASE DownloadStage3
    BY <2>1 DEF DownloadStage3, CStage3, CSum, CVerify, CExtract, CPortage,
                Wget, WgetSum, Verify, Extract
  <2>2. CASE InstallBase /\ ~DownloadStage3
    BY <2>2 DEF InstallBase, MountRoot, Ping, BindMounts, Configure, Unbind,
                CopyHost, CopyPrograms, UnmountBase
  <2>3. CASE InstallDe \/ InstallBootloader
    BY <2>3 DEF InstallDe, InstallBootloader, BootMountRoot, BootMountEfi,
                InstallGrub, BootUnmountEfi, BootUnmountRoot
  <2>4. QED
    BY <2>1, <2>2, <2>3
<1>2. QED
  BY <1>1 DEF Consent, Agreed, answers

LEMMA ConsentOutside ==
  Consent /\ (Interrupt \/ StartAgain \/ LinkChanges \/ UNCHANGED vars)
    => Consent' /\ UNCHANGED part
  BY DEF Consent, Agreed, Wiping, Interrupt, StartAgain, LinkChanges, vars,
         answers, storage

(* A disk is partitioned only in a run whose user typed its path and, for  *)
(* the disk detect_boot_disk named, YES.                                   *)
THEOREM Consented == Spec => WipeNeedsConsent
<1>1. Init => Consent
  BY DEF Init, Consent, Agreed, Wiping
<1>2. Consent /\ [Next]_vars => Consent'
  BY ConsentAsk, ConsentPartition, ConsentInstall, ConsentOutside DEF Next, Step
<1>3. Consent /\ [Next]_vars =>
        [\A d \in Disks : part'[d] # part[d] =>
           ~simulation /\ drive = d /\ confirm = d /\ (boot_disk = d => yes)]_vars
  BY ConsentAsk, ConsentPartition, ConsentInstall, ConsentOutside
     DEF Next, Step, Agreed
<1>4. QED
  BY <1>1, <1>2, <1>3, PTL DEF Spec, WipeNeedsConsent

(***************************************************************************)
(* Nothing unverified is unpacked                                          *)
(***************************************************************************)

(* What a run may put on a disk, or into the live system.                  *)
Things == {"good", "bad", "portage", "base", "apps", "desktop", "kernel"}

(* The verdict of verify_sha256 still holds when tar starts.               *)
Clean ==
  /\ fs \in [Disks \cup {Live} -> SUBSET Things]
  /\ OnlyVerifiedUnpacked
  /\ pc \in {"c_extract", "extract"} => stage3 = "good"

LEMMA PutClean ==
  ASSUME Clean, NEW S \in SUBSET Things, "bad" \notin S, Put(S)
  PROVE  /\ fs' \in [Disks \cup {Live} -> SUBSET Things]
         /\ OnlyVerifiedUnpacked'
<1> DEFINE D == Disks \cup {Live}
<1>1. fs' = [fs EXCEPT ![Target] = @ \cup S] /\ fs \in [D -> SUBSET Things]
  BY DEF Put, Clean
<1>2. fs' \in [D -> SUBSET Things]
  BY <1>1
<1>3. \A d \in D : "bad" \notin fs[d]
  BY <1>1 DEF Clean, OnlyVerifiedUnpacked
<1>4. \A d \in D : "bad" \notin fs'[d]
  BY <1>1, <1>3
<1>5. QED
  BY <1>2, <1>4 DEF OnlyVerifiedUnpacked

LEMMA CleanDownload == Clean /\ DownloadStage3 => Clean'
<1> SUFFICES ASSUME Clean, DownloadStage3 PROVE Clean'
  OBVIOUS
<1>1. CASE CStage3 \/ CSum \/ Wget \/ WgetSum
  BY <1>1 DEF CStage3, CSum, Wget, WgetSum, At, Goes, Abort, storage, Clean,
              OnlyVerifiedUnpacked
<1>2. CASE CVerify \/ Verify
  BY <1>2 DEF CVerify, Verify, verify_sha256, At, Goes, Abort, storage, Clean,
              OnlyVerifiedUnpacked
<1>3. CASE CExtract \/ Extract
  <2>1. stage3 = "good"
    BY <1>3 DEF CExtract, Extract, At, Goes, Abort, Clean
  <2>2. Put({"good"}) /\ pc' \notin {"c_extract", "extract"}
    BY <1>3, <2>1 DEF CExtract, Extract, At, Goes, Abort
  <2>3. QED
    BY <2>2, PutClean DEF Clean, Things
<1>4. CASE CPortage
  <2>1. pc' \notin {"c_extract", "extract"}
    BY <1>4 DEF CPortage, At, Goes
  <2>2. CASE Put({"portage"})
    BY <2>1, <2>2, PutClean DEF Clean, Things
  <2>3. CASE UNCHANGED fs
    BY <2>1, <2>3 DEF Clean, OnlyVerifiedUnpacked
  <2>4. QED
    BY <1>4, <2>2, <2>3 DEF CPortage
<1>5. QED
  BY <1>1, <1>2, <1>3, <1>4 DEF DownloadStage3

LEMMA CleanInstall ==
  Clean /\ (InstallBase \/ InstallDe \/ InstallBootloader) => Clean'
<1> SUFFICES ASSUME Clean, InstallBase \/ InstallDe \/ InstallBootloader
             PROVE  Clean'
  OBVIOUS
<1> USE DEF At, Goes, Abort
<1>1. CASE DownloadStage3
  BY <1>1, CleanDownload
<1>2. CASE Configure \/ CopyHost
  <2>1. Put({"base"}) /\ pc' \notin {"c_extract", "extract"}
    BY <1>2 DEF Configure, CopyHost
  <2>2. QED
    BY <2>1, PutClean DEF Clean, Things
<1>3. CASE CopyPrograms
  <2>1. pc' \notin {"c_extract", "extract"} /\ (Put({"apps"}) \/ UNCHANGED fs)
    BY <1>3 DEF CopyPrograms
  <2>2. CASE Put({"apps"})
    BY <2>1, <2>2, PutClean DEF Clean, Things
  <2>3. QED
    BY <2>1, <2>2 DEF Clean, OnlyVerifiedUnpacked
<1>4. CASE InstallDe
  <2>1. Put({"desktop"}) /\ pc' \notin {"c_extract", "extract"}
    BY <1>4 DEF InstallDe
  <2>2. QED
    BY <2>1, PutClean DEF Clean, Things
<1>5. CASE InstallGrub
  <2>1. pc' \notin {"c_extract", "extract"} /\ (Put({"kernel"}) \/ UNCHANGED fs)
    BY <1>5 DEF InstallGrub
  <2>2. CASE Put({"kernel"})
    BY <2>1, <2>2, PutClean DEF Clean, Things
  <2>3. QED
    BY <2>1, <2>2 DEF Clean, OnlyVerifiedUnpacked
<1>6. CASE \/ MountRoot \/ Ping \/ BindMounts \/ Unbind \/ UnmountBase
           \/ BootMountRoot \/ BootMountEfi \/ BootUnmountEfi \/ BootUnmountRoot
  <2>1. UNCHANGED fs /\ pc' \notin {"c_extract", "extract"}
    BY <1>6 DEF MountRoot, Ping, BindMounts, Unbind, UnmountBase, BootMountRoot,
                BootMountEfi, BootUnmountEfi, BootUnmountRoot, storage
  <2>2. QED
    BY <2>1 DEF Clean, OnlyVerifiedUnpacked
<1>7. QED
  BY <1>1, <1>2, <1>3, <1>4, <1>5, <1>6 DEF InstallBase, InstallBootloader

LEMMA CleanOthers ==
  Clean /\ (Ask \/ PartitionDrive \/ Interrupt \/ StartAgain \/ LinkChanges
            \/ UNCHANGED vars) => Clean'
<1> SUFFICES ASSUME Clean, \/ Ask \/ PartitionDrive \/ Interrupt \/ StartAgain
                           \/ LinkChanges \/ UNCHANGED vars
             PROVE  Clean'
  OBVIOUS
<1>1. CASE Ask
  <2>1. UNCHANGED fs /\ pc' \notin {"c_extract", "extract"}
    BY <1>1 DEF Ask, DetectBootDisk, SetupWifi, ConnectWifi, Ethernet, Account,
                SelectDrive, CheckDriveSafety, SelectDesktop, At, Goes, Abort, storage
  <2>2. QED
    BY <2>1 DEF Clean, OnlyVerifiedUnpacked
<1>2. CASE PartitionDrive
  <2>1. pc' \notin {"c_extract", "extract"}
    BY <1>2 DEF PartitionDrive, Mklabel, MkpartEfi, MkpartRoot, MkfsEfi, MkfsRoot,
                At, Goes, Abort
  <2>2. UNCHANGED fs \/ fs' = [fs EXCEPT ![drive] = {}]
    BY <1>2 DEF PartitionDrive, Mklabel, MkpartEfi, MkpartRoot, MkfsEfi, MkfsRoot,
                storage
  <2>3. QED
    BY <2>1, <2>2 DEF Clean, OnlyVerifiedUnpacked
<1>3. CASE Interrupt \/ StartAgain \/ LinkChanges \/ UNCHANGED vars
  BY <1>3 DEF Interrupt, StartAgain, LinkChanges, vars, storage, archive, Clean,
              OnlyVerifiedUnpacked
<1>4. QED
  BY <1>1, <1>2, <1>3

(* Neither the C downloader nor the wget path that follows its failure     *)
(* ever unpacks an archive that differs from its checksum.                 *)
THEOREM OnlyVerified == Spec => []OnlyVerifiedUnpacked
<1>1. Init => Clean
  BY DEF Init, Clean, OnlyVerifiedUnpacked, Things
<1>2. Clean /\ [Next]_vars => Clean'
  BY CleanInstall, CleanOthers DEF Next, Step
<1>3. Clean => OnlyVerifiedUnpacked
  BY DEF Clean
<1>4. QED
  BY <1>1, <1>2, <1>3, PTL DEF Spec

(***************************************************************************)
(* The disk the user selected, and what is mounted                         *)
(***************************************************************************)
Places == [disk : Disks \cup {Live}, sub : SUBSET (Binds \cup Disks)]
Mounts == Seq(Places)
Formatted(d) == part[d] = <<"vfat", "ext4">>
Known == drive \in Disks /\ Formatted(drive)

(* None of the first n mounts is, or has inside, one of the drive's.       *)
Free(n) == \A i \in 1..n : mnt[i].disk # drive /\ drive \notin mnt[i].sub

(* Whatever earlier runs left: things are on formatted disks only, and     *)
(* nothing else is mounted; the live system's directory is under all.      *)
Sound ==
  /\ mnt \in Mounts /\ mnt # << >> /\ mnt[1].disk = Live
  /\ fs \in [Disks \cup {Live} -> SUBSET Things]
  /\ efi \in [Disks -> SUBSET {"kernel", "grub"}]
  /\ BothPartitions
  /\ \A i \in DOMAIN mnt : mnt[i].disk \in Disks => Formatted(mnt[i].disk)

Formatting == {"mkpart1", "mkpart2", "vfat", "ext4"}
Bound == {"bind", "configure", "unbind"}
Bare == {"ping", "c_stage3", "c_sum", "c_verify", "c_extract", "c_portage", "wget",
         "wget_sum", "verify", "extract", "copy", "apps", "umount"}
Booting == {"de", "boot_root", "boot_efi"}

(* What a step p of this run may rely on; less once an umount has failed.  *)
Where(p) ==
  /\ p \in Formatting =>
       fs[drive] = {} /\ efi[drive] = {} /\ Free(Len(mnt))
  /\ p = "mount" => Known /\ Free(Len(mnt))
  /\ p \in Bound => Known /\ Target = drive /\ Free(Len(mnt) - 1)
                      /\ Last(mnt).sub \subseteq Binds
  /\ p \in Bare => /\ Known /\ Target = drive /\ Free(Len(mnt) - 1)
                   /\ Last(mnt).sub \subseteq Binds
                   /\ ~refused => Last(mnt).sub = {}
  /\ p \in Booting =>
       /\ Known /\ Free(Len(mnt) - 1) /\ drive \notin Last(mnt).sub
       /\ Target = drive /\ ~refused => Last(mnt).sub = {}
  /\ p \in {"grub", "boot_umount"} =>
       /\ Known /\ Free(Len(mnt) - 1)
       /\ Target = drive /\ ~refused => Last(mnt).sub \subseteq {drive}
  /\ p = "root_umount" =>
       /\ Known /\ Free(Len(mnt) - 1)
       /\ ~refused => /\ drive \notin Last(mnt).sub
                      /\ Target = drive => Last(mnt).sub = {}
  /\ p = "done" /\ ~simulation /\ ~refused => Free(Len(mnt))

Placed == Sound /\ Where(pc)

LEMMA LastMount ==
  ASSUME mnt \in Mounts, mnt # << >>
  PROVE  /\ Len(mnt) \in Nat \ {0} /\ Last(mnt) = mnt[Len(mnt)]
         /\ Last(mnt) \in Places
         /\ \A i \in 1..Len(mnt) :
              mnt[i] \in Places
<1>1. Len(mnt) \in Nat \ {0}
  BY EmptySeq DEF Mounts
<1>2. \A i \in 1..Len(mnt) : mnt[i] \in Places
  BY ElementOfSeq DEF Mounts
<1>3. Len(mnt) \in 1..Len(mnt)
  BY <1>1
<1>4. QED
  BY <1>1, <1>2, <1>3 DEF Last

(* mount, something mounted or unmounted inside the latest, and umount.    *)
LEMMA MountedMounts ==
  ASSUME mnt \in Mounts, mnt # << >>, NEW d \in Disks, Mounted(d)
  PROVE  /\ mnt' \in Mounts /\ mnt' # << >>
         /\ Len(mnt') = Len(mnt) + 1 /\ Last(mnt') = [disk |-> d, sub |-> {}]
         /\ \A i \in 1..Len(mnt) : mnt'[i] = mnt[i]
<1>1. [disk |-> d, sub |-> {}] \in Places
  BY DEF Places
<1>2. mnt \in Seq(Places)
  BY DEF Mounts
<1>3. mnt' = Append(mnt, [disk |-> d, sub |-> {}])
  BY DEF Mounted
<1>4. /\ mnt' \in Seq(Places) /\ Len(mnt') = Len(mnt) + 1
      /\ \A i \in 1..Len(mnt) : mnt'[i] = mnt[i]
      /\ mnt'[Len(mnt) + 1] = [disk |-> d, sub |-> {}]
  BY <1>1, <1>2, <1>3, AppendProperties
<1>5. mnt' # << >>
  BY <1>1, <1>2, <1>3, AppendProperties
<1>6. QED
  BY <1>4, <1>5 DEF Mounts, Last

LEMMA InsideMounts ==
  ASSUME mnt \in Mounts, mnt # << >>, NEW s \in SUBSET (Binds \cup Disks), Inside(s)
  PROVE  /\ mnt' \in Mounts /\ mnt' # << >>
         /\ Len(mnt') = Len(mnt) /\ Last(mnt') = [disk |-> Target, sub |-> s]
         /\ \A i \in 1..(Len(mnt) - 1) : mnt'[i] = mnt[i]
<1> DEFINE n == Len(mnt)
           m == [disk |-> Target, sub |-> s]
<1>1. n \in Nat \ {0} /\ mnt[n] \in Places /\ Target = mnt[n].disk /\ mnt \in Seq(Places)
  BY LastMount DEF Target, Mounts
<1>2. m \in Places /\ [mnt[n] EXCEPT !.sub = s] = m
  BY <1>1 DEF Places
<1>3. mnt' = [mnt EXCEPT ![n] = [mnt[n] EXCEPT !.sub = s]]
  BY DEF Inside
<1>4. mnt' = [mnt EXCEPT ![n] = m]
  BY <1>2, <1>3
<1>5. n \in 1..Len(mnt)
  BY <1>1
<1> HIDE DEF m
<1>6. mnt' \in Seq(Places) /\ Len(mnt') = Len(mnt)
  BY <1>1, <1>2, <1>4, <1>5, ExceptSeq
<1>7. mnt'[n] = m /\ \A i \in 1..(n - 1) : mnt'[i] = mnt[i]
  BY <1>1, <1>4, <1>5
<1>8. mnt' # << >>
  BY <1>1, <1>6, EmptySeq
<1>9. QED
  BY <1>6, <1>7, <1>8 DEF Mounts, Last, m

LEMMA UnmountMounts ==
  ASSUME mnt \in Mounts, mnt # << >>, mnt[1].disk = Live, Unmount
  PROVE  \/ UNCHANGED mnt /\ (Target = Live \/ Last(mnt).sub # {})
         \/ /\ mnt' \in Mounts /\ mnt' # << >> /\ Len(mnt') = Len(mnt) - 1
            /\ \A i \in 1..(Len(mnt) - 1) : mnt'[i] = mnt[i]
            /\ 1 <= Len(mnt) - 1
<1>1. CASE ~(Target # Live /\ Last(mnt).sub = {})
  BY <1>1 DEF Unmount
<1>2. CASE Target # Live /\ Last(mnt).sub = {}
  <2> DEFINE n == Len(mnt)
  <2>1. n \in Nat \ {0} /\ Last(mnt) = mnt[n] /\ mnt \in Seq(Places)
    BY LastMount DEF Mounts
  <2>2. n # 1
    BY <1>2, <2>1 DEF Target
  <2>3. mnt' = SubSeq(mnt, 1, n - 1)
    BY <1>2 DEF Unmount, Front
  <2>4. /\ mnt' \in Seq(Places) /\ Len(mnt') = n - 1
        /\ \A i \in 1..(n - 1) : mnt'[i] = mnt[i]
    <3>1. \A i \in 1..(n - 1) : mnt[i] \in Places
      BY <2>1, LastMount
    <3>2. /\ SubSeq(mnt, 1, n - 1) \in Seq(Places)
          /\ Len(SubSeq(mnt, 1, n - 1)) = IF 1 <= n - 1 THEN (n - 1) - 1 + 1 ELSE 0
          /\ \A i \in 1..((n - 1) - 1 + 1) : SubSeq(mnt, 1, n - 1)[i] = mnt[1 + i - 1]
      BY <2>1, <3>1, SubSeqProperties
    <3>3. /\ 1 <= n - 1 /\ (n - 1) - 1 + 1 = n - 1
          /\ \A i \in 1..(n - 1) : 1 + i - 1 = i
      <4>1. n \in Nat \ {0} /\ n # 1
        BY <2>1, <2>2
      <4> HIDE DEF n
      <4>2. QED
        BY <4>1
    <3>4. QED
      BY <2>3, <3>2, <3>3
  <2>5. mnt' # << >>
    BY <2>1, <2>2, <2>4, EmptySeq
  <2>6. QED
    BY <2>1, <2>2, <2>4, <2>5 DEF Mounts
<1>3. QED
  BY <1>1, <1>2

(***************************************************************************)
(* What a step leaves sound                                                *)
(***************************************************************************)
LEMMA SoundSame ==
  ASSUME Sound, UNCHANGED <<part, fs, efi, mnt>> PROVE Sound'
BY DEF Sound, BothPartitions, Formatted

(* Partitions of a disk that is empty and not mounted.                     *)
LEMMA SoundPartition ==
  ASSUME Sound, drive \in Disks, Free(Len(mnt)), UNCHANGED mnt,
         \A d \in Disks \ {drive} : part'[d] = part[d],
         \/ fs' = [fs EXCEPT ![drive] = {}] /\ efi' = [efi EXCEPT ![drive] = {}]
         \/ fs[drive] = {} /\ efi[drive] = {} /\ UNCHANGED <<fs, efi>>
  PROVE  Sound' /\ fs'[drive] = {} /\ efi'[drive] = {}
<1>1. /\ fs' \in [Disks \cup {Live} -> SUBSET Things]
      /\ efi' \in [Disks -> SUBSET {"kernel", "grub"}]
      /\ fs'[drive] = {} /\ efi'[drive] = {}
      /\ \A d \in Disks \ {drive} : fs'[d] = fs[d] /\ efi'[d] = efi[d]
  BY DEF Sound
<1>2. BothPartitions'
  BY <1>1 DEF Sound, BothPartitions
<1>3. DOMAIN mnt = 1..Len(mnt)
  BY LenProperties DEF Sound, Mounts
<1>4. \A i \in DOMAIN mnt : mnt[i].disk \in Disks => Formatted(mnt[i].disk)'
  BY <1>3 DEF Sound, Free, Formatted
<1>5. QED
  BY <1>1, <1>2, <1>4 DEF Sound

(* Files written to what is mounted.                                       *)
LEMMA SoundPut ==
  ASSUME Sound, NEW S \in SUBSET Things, Put(S), UNCHANGED <<part, efi, mnt>>
  PROVE  Sound'
<1>1. Target = mnt[Len(mnt)].disk /\ Target \in Disks \cup {Live}
      /\ Len(mnt) \in DOMAIN mnt
  BY LastMount, LenProperties DEF Sound, Mounts, Target, Places
<1>2. Target \in Disks => Formatted(Target)
  BY <1>1 DEF Sound
<1>3. fs' = [fs EXCEPT ![Target] = fs[Target] \cup S]
  BY DEF Put
<1>4. /\ fs' \in [Disks \cup {Live} -> SUBSET Things]
      /\ \A d \in Disks : d # Target => fs'[d] = fs[d]
  BY <1>1, <1>3 DEF Sound
<1>5. BothPartitions'
  BY <1>2, <1>4 DEF Sound, BothPartitions, Formatted
<1>6. QED
  BY <1>4, <1>5 DEF Sound, Formatted

LEMMA SoundMounted ==
  ASSUME Sound, Known, Mounted(drive), UNCHANGED <<part, fs, efi>>
  PROVE  Sound'
<1>1. /\ mnt' \in Mounts /\ mnt' # << >>
      /\ Len(mnt') = Len(mnt) + 1 /\ Last(mnt') = [disk |-> drive, sub |-> {}]
      /\ \A i \in 1..Len(mnt) : mnt'[i] = mnt[i]
  BY MountedMounts DEF Sound, Known
<1>2. /\ Len(mnt) \in Nat \ {0} /\ DOMAIN mnt = 1..Len(mnt)
      /\ DOMAIN mnt' = 1..Len(mnt')
  BY <1>1, LastMount, LenProperties DEF Sound, Mounts
<1>3. mnt'[1].disk = Live
  BY <1>1, <1>2 DEF Sound
<1>4. ASSUME NEW i \in DOMAIN mnt', mnt'[i].disk \in Disks
      PROVE  Formatted(mnt'[i].disk)
  <2>1. CASE i \in 1..Len(mnt)
    BY <1>1, <1>2, <1>4, <2>1 DEF Sound
  <2>2. CASE i = Len(mnt')
    BY <1>1, <2>2 DEF Last, Known
  <2>3. QED
    BY <1>1, <1>2, <2>1, <2>2
<1>5. QED
  BY <1>1, <1>3, <1>4 DEF Sound, BothPartitions, Formatted

LEMMA SoundInside ==
  ASSUME Sound, NEW s \in SUBSET (Binds \cup Disks), Inside(s),
         UNCHANGED <<part, fs, efi>>
  PROVE  Sound'
<1>1. /\ mnt' \in Mounts /\ mnt' # << >>
      /\ Len(mnt') = Len(mnt) /\ Last(mnt') = [disk |-> Target, sub |-> s]
      /\ \A i \in 1..(Len(mnt) - 1) : mnt'[i] = mnt[i]
  BY InsideMounts DEF Sound
<1>2. /\ Len(mnt) \in Nat \ {0} /\ DOMAIN mnt = 1..Len(mnt)
      /\ DOMAIN mnt' = 1..Len(mnt')
  BY <1>1, LastMount, LenProperties DEF Sound, Mounts
<1>3. \A i \in 1..Len(mnt) : mnt'[i].disk = mnt[i].disk
  <2>1. mnt'[Len(mnt)].disk = mnt[Len(mnt)].disk
    BY <1>1, LastMount DEF Last, Target, Sound
  <2>2. QED
    BY <1>1, <1>2, <2>1
<1>4. BothPartitions' /\ mnt'[1].disk = Live
  BY <1>2, <1>3 DEF Sound, BothPartitions
<1>5. \A i \in DOMAIN mnt' : mnt'[i].disk \in Disks => Formatted(mnt'[i].disk)
  BY <1>1, <1>2, <1>3 DEF Sound
<1>6. QED
  BY <1>1, <1>4, <1>5 DEF Sound, Formatted

LEMMA SoundUnmounted ==
  ASSUME Sound, Unmount, UNCHANGED <<part, fs, efi>>
  PROVE  Sound'
<1>1. CASE UNCHANGED mnt
  BY <1>1, SoundSame
<1>2. CASE /\ mnt' \in Mounts /\ mnt' # << >> /\ Len(mnt') = Len(mnt) - 1
           /\ \A i \in 1..(Len(mnt) - 1) : mnt'[i] = mnt[i]
           /\ 1 <= Len(mnt) - 1
  <2>1. /\ Len(mnt) \in Nat \ {0} /\ DOMAIN mnt = 1..Len(mnt)
        /\ DOMAIN mnt' = 1..(Len(mnt) - 1)
    BY <1>2, LastMount, LenProperties DEF Sound, Mounts
  <2>2. mnt'[1].disk = Live
    BY <1>2, <2>1 DEF Sound
  <2>3. \A i \in DOMAIN mnt' : mnt'[i] = mnt[i] /\ i \in DOMAIN mnt
    BY <1>2, <2>1
  <2>4. QED
    BY <1>2, <2>2, <2>3 DEF Sound, BothPartitions, Formatted
<1>3. QED
  BY <1>1, <1>2, UnmountMounts DEF Sound

(***************************************************************************)
(* The steps of a run                                                      *)
(***************************************************************************)

(* A step that leaves the disks alone and relies on nothing new.           *)
LEMMA PlacedQuiet ==
  ASSUME Placed, UNCHANGED <<storage, mnt>>,
         pc' \notin {"mount", "root_umount", "grub", "boot_umount"} \cup Formatting
                     \cup Bound \cup Bare \cup Booting,
         pc' = "done" => simulation'
  PROVE  Placed'
BY SoundSame DEF Placed, Where, storage

LEMMA PlacedAsk == ASSUME Placed, Ask PROVE Placed' /\ UNCHANGED fs
<1>1. /\ UNCHANGED <<storage, mnt>>
      /\ pc' \in {"network", "wifi", "ethernet", "account", "drive", "safety",
                  "desktop", "mklabel", "done", "ended"}
      /\ pc' = "done" => simulation'
  BY DEF Ask, DetectBootDisk, SetupWifi, ConnectWifi, Ethernet, Account, SelectDrive,
         CheckDriveSafety, SelectDesktop, At, Goes, Abort, answers
<1>2. QED
  BY <1>1, PlacedQuiet DEF Formatting, Bound, Bare, Booting, storage

LEMMA PlacedPartition ==
  ASSUME Placed, Consent, PartitionDrive
  PROVE  Placed' /\ (UNCHANGED fs \/ fs' = [fs EXCEPT ![drive] = {}])
<1>1. drive \in Disks /\ \A d \in Disks \ {drive} : part'[d] = part[d]
  BY ConsentPartition DEF Agreed
<1>2. UNCHANGED mnt /\ drive' = drive
  BY DEF PartitionDrive, Mklabel, MkpartEfi, MkpartRoot, MkfsEfi, MkfsRoot, answers
<1>3. DOMAIN mnt = 1..Len(mnt)
  BY LenProperties DEF Placed, Sound, Mounts
<1>4. CASE pc' = "ended" /\ UNCHANGED <<part, fs, efi>>
  BY <1>2, <1>4, SoundSame DEF Placed, Where, Formatting, Bound, Bare, Booting
<1>5. CASE /\ pc' \in Formatting \cup {"mount"}
           /\ \/ /\ ~InUse(drive)
                 /\ fs' = [fs EXCEPT ![drive] = {}] /\ efi' = [efi EXCEPT ![drive] = {}]
              \/ pc \in Formatting /\ UNCHANGED <<fs, efi>>
           /\ pc' = "mount" => Partitioned(<<"vfat", "ext4">>)
  <2>1. Free(Len(mnt))
    BY <1>3, <1>5 DEF InUse, Free, Placed, Where
  <2>2. Sound' /\ fs'[drive] = {} /\ efi'[drive] = {}
    BY <1>1, <1>2, <1>5, <2>1, SoundPartition DEF Placed, Where
  <2>3. pc' = "mount" => Formatted(drive)'
    BY <1>1, <1>2, <1>5 DEF Partitioned, Formatted, Consent
  <2>4. Free(Len(mnt))'
    BY <1>2, <2>1 DEF Free
  <2>5. Where(pc)'
    BY <1>1, <1>2, <1>5, <2>2, <2>3, <2>4 DEF Where, Known, Formatting, Bound, Bare, Booting
  <2>6. QED
    BY <1>5, <2>2, <2>5 DEF Placed
<1>6. QED
  BY <1>4, <1>5 DEF PartitionDrive, Mklabel, MkpartEfi, MkpartRoot, MkfsEfi, MkfsRoot,
                    At, Goes, Abort, storage, Formatting

(* The steps of install_base between mount and umount.                     *)
LEMMA PlacedBare ==
  ASSUME Placed, pc \in Bare, UNCHANGED <<answers, part, efi, mnt, refused>>,
         UNCHANGED fs \/ \E S \in SUBSET Things : Put(S),
         pc' \in Bare \cup {"bind", "ended"}
  PROVE  Placed' /\ Target = drive
<1>1. Sound'
  BY SoundSame, SoundPut DEF Placed
<1>2. drive' = drive /\ Target' = Target /\ Last(mnt)' = Last(mnt)
  BY DEF answers, Target, Last
<1>3. /\ Known /\ Target = drive /\ Free(Len(mnt) - 1)
      /\ Last(mnt).sub \subseteq Binds /\ (~refused => Last(mnt).sub = {})
  BY DEF Placed, Where
<1>4. Known' /\ Free(Len(mnt) - 1)'
  BY <1>2, <1>3 DEF Known, Formatted, Free
<1>5. Where(pc)'
  BY <1>2, <1>3, <1>4 DEF Where, Formatting, Bound, Bare, Booting
<1>6. QED
  BY <1>1, <1>3, <1>5 DEF Placed

LEMMA PlacedDownload ==
  ASSUME Placed, Clean, DownloadStage3
  PROVE  Placed' /\ (UNCHANGED fs \/ (Target = drive /\ \E S \in SUBSET Things : Put(S)))
<1>1. /\ pc \in Bare /\ UNCHANGED <<answers, part, efi, mnt, refused>>
      /\ pc' \in Bare \cup {"bind", "ended"}
  BY DEF DownloadStage3, CStage3, CSum, CVerify, CExtract, CPortage, Wget, WgetSum,
         Verify, Extract, At, Goes, Abort, storage, Bare
<1>2. CASE CExtract \/ Extract
  <2>1. stage3 = "good" /\ Put({stage3})
    BY <1>2 DEF CExtract, Extract, At, Goes, Abort, Clean
  <2>2. \E S \in SUBSET Things : Put(S)
    BY <2>1 DEF Things
  <2>3. QED
    BY <1>1, <2>2, PlacedBare
<1>3. CASE ~(CExtract \/ Extract)
  <2>1. UNCHANGED fs \/ Put({"portage"})
    BY <1>3 DEF DownloadStage3, CStage3, CSum, CVerify, CPortage, Wget, WgetSum,
                Verify, storage
  <2>2. UNCHANGED fs \/ \E S \in SUBSET Things : Put(S)
    BY <2>1 DEF Things
  <2>3. QED
    BY <1>1, <2>2, PlacedBare
<1>4. QED
  BY <1>2, <1>3

LEMMA PlacedMount == ASSUME Placed, MountRoot PROVE Placed' /\ UNCHANGED fs
<1>1. UNCHANGED <<part, fs, efi>> /\ drive' = drive
  BY DEF MountRoot, storage, answers
<1>2. CASE Abort("mount") /\ UNCHANGED mnt
  BY <1>1, <1>2, SoundSame DEF Abort, At, Goes, Placed, Where, Formatting, Bound, Bare, Booting
<1>3. CASE At("mount", "ping") /\ Mounted(drive)
  <2>1. Known /\ Free(Len(mnt)) /\ pc' = "ping"
    BY <1>3 DEF At, Goes, Placed, Where
  <2>2. Sound'
    BY <1>1, <1>3, <2>1, SoundMounted DEF Placed
  <2>3. /\ Len(mnt) \in Nat /\ Len(mnt') = Len(mnt) + 1
        /\ Last(mnt') = [disk |-> drive, sub |-> {}]
        /\ \A i \in 1..Len(mnt) : mnt'[i] = mnt[i]
    BY <1>3, <2>1, MountedMounts, LastMount DEF Placed, Sound, Known
  <2>4. Free(Len(mnt) - 1)'
    BY <1>1, <2>1, <2>3 DEF Free
  <2>5. Target' = drive /\ Last(mnt)'.sub = {} /\ Known'
    BY <1>1, <2>1, <2>3 DEF Target, Known, Formatted
  <2>6. Where(pc)'
    BY <1>1, <2>1, <2>4, <2>5 DEF Where, Formatting, Bound, Bare, Booting
  <2>7. QED
    BY <1>1, <2>2, <2>6 DEF Placed
<1>4. QED
  BY <1>2, <1>3 DEF MountRoot

LEMMA PlacedBind ==
  ASSUME Placed, BindMounts \/ Unbind PROVE Placed' /\ UNCHANGED fs
<1>1. UNCHANGED <<part, fs, efi>> /\ drive' = drive /\ pc \in Bound
  BY DEF BindMounts, Unbind, storage, answers, At, Goes, Bound
<1>2. /\ Known /\ Target = drive /\ Free(Len(mnt) - 1)
      /\ Last(mnt).sub \subseteq Binds
  BY <1>1 DEF Placed, Where
<1>3. PICK s \in SUBSET Binds :
        /\ Inside(s)
        /\ \/ pc' = "configure"
           \/ pc' = "apps" /\ (~refused' => s = {})
  BY <1>2 DEF BindMounts, Unbind, At, Goes
<1>4. Sound'
  BY <1>1, <1>3, SoundInside DEF Placed
<1>5. /\ Len(mnt) \in Nat /\ Len(mnt') = Len(mnt)
      /\ Last(mnt') = [disk |-> Target, sub |-> s]
      /\ \A i \in 1..(Len(mnt) - 1) : mnt'[i] = mnt[i]
  BY <1>3, InsideMounts, LastMount DEF Placed, Sound
<1>6. /\ Free(Len(mnt) - 1)' /\ Known'
      /\ Target' = drive' /\ Last(mnt)'.sub = s
  BY <1>1, <1>2, <1>5 DEF Free, Known, Formatted, Target
<1>7. Where(pc)'
  BY <1>3, <1>6 DEF Where, Formatting, Bound, Bare, Booting
<1>8. QED
  BY <1>1, <1>4, <1>7 DEF Placed

LEMMA PlacedWritten ==
  ASSUME Placed, Ping \/ Configure \/ CopyHost \/ CopyPrograms
  PROVE  /\ Placed'
         /\ UNCHANGED fs \/ (Target = drive /\ \E S \in SUBSET Things : Put(S))
<1>1. UNCHANGED <<answers, part, efi, mnt, refused>>
  BY DEF Ping, Configure, CopyHost, CopyPrograms, storage, At, Goes
<1>2. UNCHANGED fs \/ \E S \in SUBSET Things : Put(S)
  BY DEF Ping, Configure, CopyHost, CopyPrograms, storage, Things
<1>3. CASE Configure
  <2>1. pc = "configure" /\ pc' = "unbind"
    BY <1>3 DEF Configure, At, Goes
  <2>2. Sound'
    BY <1>1, <1>2, SoundSame, SoundPut DEF Placed
  <2>3. drive' = drive /\ Target' = Target /\ Last(mnt)' = Last(mnt)
    BY <1>1 DEF answers, Target, Last
  <2>4. /\ Known /\ Target = drive /\ Free(Len(mnt) - 1)
        /\ Last(mnt).sub \subseteq Binds
    BY <2>1 DEF Placed, Where, Bound
  <2>5. Known' /\ Free(Len(mnt) - 1)'
    BY <1>1, <2>3, <2>4 DEF Known, Formatted, Free
  <2>6. Where(pc)'
    BY <2>1, <2>3, <2>4, <2>5 DEF Where, Formatting, Bound, Bare, Booting
  <2>7. QED
    BY <1>2, <2>2, <2>4, <2>6 DEF Placed
<1>4. CASE Ping \/ CopyHost \/ CopyPrograms
  <2>1. pc \in Bare /\ pc' \in Bare
    BY <1>4 DEF Ping, CopyHost, CopyPrograms, At, Goes, Bare
  <2>2. QED
    BY <1>1, <1>2, <2>1, PlacedBare
<1>5. QED
  BY <1>3, <1>4

(* With nothing of the drive in the latest mount either, it is free.       *)
LEMMA FreeAll ==
  ASSUME mnt \in Mounts, mnt # << >>, Free(Len(mnt) - 1), Target # drive,
         drive \notin Last(mnt).sub
  PROVE  Free(Len(mnt))
<1>1. Len(mnt) \in Nat \ {0} /\ Last(mnt) = mnt[Len(mnt)]
  BY LastMount
<1>2. ASSUME NEW i \in 1..Len(mnt) PROVE mnt[i].disk # drive /\ drive \notin mnt[i].sub
  <2>1. i \in 1..(Len(mnt) - 1) \/ i = Len(mnt)
    BY <1>1
  <2>2. QED
    BY <1>1, <2>1 DEF Free, Target
<1>3. QED
  BY <1>2 DEF Free

(* umount /mnt/gentoo, when it is tried first and when it is tried last.   *)
LEMMA PlacedUnmountBase ==
  ASSUME Placed, UnmountBase PROVE Placed' /\ UNCHANGED fs
<1>1. /\ UNCHANGED <<part, fs, efi, refused>> /\ drive' = drive
      /\ pc = "umount" /\ pc' = "de" /\ (Unmount \/ UNCHANGED mnt)
  BY DEF UnmountBase, At, Goes, storage, answers
<1>2. Sound'
  BY <1>1, SoundUnmounted, SoundSame DEF Placed
<1>3. /\ Known /\ Target = drive /\ Free(Len(mnt) - 1)
      /\ Last(mnt).sub \subseteq Binds /\ (~refused => Last(mnt).sub = {})
  BY <1>1 DEF Placed, Where, Bare
<1>4. CASE UNCHANGED mnt
  <2>1. drive \notin Last(mnt).sub
    BY <1>3, InstallerAssumption DEF Known
  <2>2. QED
    BY <1>1, <1>2, <1>3, <1>4, <2>1
       DEF Placed, Where, Known, Formatted, Free, Target, Last, Formatting, Bound, Bare,
           Booting
<1>5. CASE /\ mnt' \in Mounts /\ mnt' # << >> /\ Len(mnt') = Len(mnt) - 1
           /\ \A i \in 1..(Len(mnt) - 1) : mnt'[i] = mnt[i]
  <2>1. Free(Len(mnt))' /\ Known'
    BY <1>1, <1>3, <1>5 DEF Free, Known, Formatted
  <2>2. /\ Free(Len(mnt) - 1)'
        /\ drive' \notin Last(mnt)'.sub /\ Target' # drive'
    <3>1. /\ Len(mnt') \in Nat \ {0} /\ Last(mnt') = mnt'[Len(mnt')]
      <4>1. mnt' \in Seq(Places) /\ mnt' # << >>
        BY <1>5 DEF Mounts
      <4>2. QED
        BY <4>1, EmptySeq DEF Last
    <3>2. Len(mnt') \in 1..Len(mnt') /\ 1..(Len(mnt') - 1) \subseteq 1..Len(mnt')
      BY <3>1
    <3>3. QED
      BY <2>1, <3>1, <3>2 DEF Free, Target
  <2>3. Where(pc)'
    BY <1>1, <2>1, <2>2 DEF Where, Formatting, Bound, Bare, Booting
  <2>4. QED
    BY <1>1, <1>2, <2>3 DEF Placed
<1>6. QED
  BY <1>1, <1>4, <1>5, UnmountMounts DEF Placed, Sound

LEMMA PlacedUnmountRoot ==
  ASSUME Placed, BootUnmountRoot PROVE Placed' /\ UNCHANGED fs
<1>1. /\ UNCHANGED <<part, fs, efi>> /\ drive' = drive
      /\ pc = "root_umount" /\ pc' = "done"
      /\ \/ Unmount /\ UNCHANGED refused
         \/ refused' = TRUE /\ UNCHANGED mnt
  BY DEF BootUnmountRoot, Goes, storage, answers
<1>2. Sound'
  BY <1>1, SoundUnmounted, SoundSame DEF Placed
<1>3. /\ Known /\ Free(Len(mnt) - 1)
      /\ ~refused => /\ drive \notin Last(mnt).sub
                     /\ Target = drive => Last(mnt).sub = {}
  BY <1>1 DEF Placed, Where
<1>4. ASSUME ~refused' PROVE Free(Len(mnt))'
  <2>1. Unmount /\ ~refused
    BY <1>1, <1>4
  <2>2. CASE UNCHANGED mnt /\ (Target = Live \/ Last(mnt).sub # {})
    <3>1. Target # drive
      BY <1>3, <2>1, <2>2, InstallerAssumption DEF Known
    <3>2. Free(Len(mnt))
      BY <1>3, <2>1, <3>1, FreeAll DEF Placed, Sound
    <3>3. QED
      BY <1>1, <2>2, <3>2 DEF Free
  <2>3. CASE /\ Len(mnt') = Len(mnt) - 1
             /\ \A i \in 1..(Len(mnt) - 1) : mnt'[i] = mnt[i]
    BY <1>1, <1>3, <2>3 DEF Free
  <2>4. QED
    BY <2>1, <2>2, <2>3, UnmountMounts DEF Placed, Sound
<1>5. Where(pc)'
  BY <1>1, <1>4 DEF Where, Formatting, Bound, Bare, Booting
<1>6. QED
  BY <1>1, <1>2, <1>5 DEF Placed

LEMMA PlacedDe ==
  ASSUME Placed, InstallDe PROVE Placed' /\ Put({"desktop"})
<1>1. /\ Put({"desktop"}) /\ UNCHANGED <<part, efi, mnt, refused>> /\ drive' = drive
      /\ pc = "de" /\ pc' = "boot_root"
  BY DEF InstallDe, At, Goes, answers
<1>2. Sound'
  BY <1>1, SoundPut DEF Placed, Things
<1>3. Where(pc)'
  BY <1>1 DEF Placed, Where, Known, Formatted, Free, Target, Last, Formatting, Bound,
              Bare, Booting
<1>4. QED
  BY <1>1, <1>2, <1>3 DEF Placed

LEMMA PlacedBootMount == ASSUME Placed, BootMountRoot PROVE Placed' /\ UNCHANGED fs
<1>1. /\ UNCHANGED <<part, fs, efi, refused>> /\ drive' = drive /\ pc' = "boot_efi"
      /\ Known /\ Free(Len(mnt) - 1) /\ drive \notin Last(mnt).sub
      /\ Target = drive /\ ~refused => Last(mnt).sub = {}
  BY DEF BootMountRoot, At, Goes, storage, answers, Placed, Where, Booting
<1>2. Sound' /\ Known'
  BY <1>1, SoundMounted, SoundSame DEF BootMountRoot, Placed, Known, Formatted
<1>3. /\ Free(Len(mnt) - 1)' /\ drive' \notin Last(mnt)'.sub
      /\ Target' = drive' /\ ~refused' => Last(mnt)'.sub = {}
  <2>1. CASE Mounted(drive)
    <3>1. /\ Len(mnt) \in Nat /\ Len(mnt') = Len(mnt) + 1
          /\ Last(mnt') = [disk |-> drive, sub |-> {}]
          /\ \A i \in 1..Len(mnt) : mnt'[i] = mnt[i]
      BY <1>1, <2>1, MountedMounts, LastMount DEF Placed, Sound, Known
    <3>2. Free(Len(mnt))
      BY <1>1, <2>1, FreeAll DEF Mounted, Placed, Sound
    <3>3. QED
      BY <1>1, <3>1, <3>2 DEF Free
  <2>2. CASE UNCHANGED mnt
    BY <1>1, <2>2 DEF Free, Target, Last
  <2>3. QED
    BY <2>1, <2>2 DEF BootMountRoot
<1>4. Where(pc)'
  BY <1>1, <1>2, <1>3 DEF Where, Formatting, Bound, Bare, Booting
<1>5. QED
  BY <1>1, <1>2, <1>4 DEF Placed

LEMMA PlacedBootEfi == ASSUME Placed, BootMountEfi PROVE Placed' /\ UNCHANGED fs
<1>1. /\ UNCHANGED <<part, fs, efi, refused>> /\ drive' = drive /\ pc' = "grub"
      /\ Known /\ Free(Len(mnt) - 1)
      /\ Target = drive /\ ~refused => Last(mnt).sub = {}
  BY DEF BootMountEfi, At, Goes, storage, answers, Placed, Where, Booting
<1>2. Len(mnt) \in Nat \ {0} /\ Last(mnt) \in Places /\ Target = Last(mnt).disk
  BY LastMount DEF Placed, Sound, Target, Places
<1>3. CASE UNCHANGED mnt
  <2>1. Sound'
    BY <1>1, <1>3, SoundSame DEF Placed
  <2>2. Where(pc)'
    BY <1>1, <1>3 DEF Where, Known, Formatted, Free, Target, Last, Formatting, Bound,
                      Bare, Booting
  <2>3. QED
    BY <1>1, <2>1, <2>2 DEF Placed
<1>4. CASE Inside(Last(mnt).sub \cup {drive})
  <2>1. PICK s \in SUBSET (Binds \cup Disks) : s = Last(mnt).sub \cup {drive}
    BY <1>1, <1>2 DEF Known, Places
  <2>2. Sound'
    BY <1>1, <1>4, <2>1, SoundInside DEF Placed
  <2>3. /\ Len(mnt') = Len(mnt) /\ Last(mnt') = [disk |-> Target, sub |-> s]
        /\ \A i \in 1..(Len(mnt) - 1) : mnt'[i] = mnt[i]
    BY <1>4, <2>1, InsideMounts DEF Placed, Sound
  <2>4. /\ Known' /\ Free(Len(mnt) - 1)'
        /\ Target' = drive' /\ ~refused' => Last(mnt)'.sub \subseteq {drive'}
    BY <1>1, <1>2, <2>1, <2>3 DEF Known, Formatted, Free, Target
  <2>5. Where(pc)'
    BY <1>1, <2>4 DEF Where, Formatting, Bound, Bare, Booting
  <2>6. QED
    BY <1>1, <2>2, <2>5 DEF Placed
<1>5. QED
  BY <1>3, <1>4 DEF BootMountEfi

LEMMA PlacedUnmountEfi ==
  ASSUME Placed, BootUnmountEfi PROVE Placed' /\ UNCHANGED fs
<1>1. /\ UNCHANGED <<part, fs, efi>> /\ drive' = drive /\ pc' = "root_umount"
      /\ Known /\ Free(Len(mnt) - 1)
      /\ Target = drive /\ ~refused => Last(mnt).sub \subseteq {drive}
  BY DEF BootUnmountEfi, Goes, storage, answers, Placed, Where
<1>2. Len(mnt) \in Nat \ {0} /\ Last(mnt) \in Places /\ Target = Last(mnt).disk
  BY LastMount DEF Placed, Sound, Target, Places
<1>3. CASE refused' = TRUE /\ UNCHANGED mnt
  <2>1. Sound'
    BY <1>1, <1>3, SoundSame DEF Placed
  <2>2. Where(pc)'
    BY <1>1, <1>3 DEF Where, Known, Formatted, Free, Formatting, Bound, Bare, Booting
  <2>3. QED
    BY <1>1, <2>1, <2>2 DEF Placed
<1>4. ASSUME NEW d \in Disks, drive \in Last(mnt).sub => d = drive,
             Inside(Last(mnt).sub \ {d}), UNCHANGED refused
      PROVE  Placed' /\ UNCHANGED fs
  <2>1. PICK s \in SUBSET (Binds \cup Disks) : s = Last(mnt).sub \ {d}
    BY <1>2 DEF Places
  <2>2. Sound'
    BY <1>1, <1>4, <2>1, SoundInside DEF Placed
  <2>3. /\ Len(mnt') = Len(mnt) /\ Last(mnt') = [disk |-> Target, sub |-> s]
        /\ \A i \in 1..(Len(mnt) - 1) : mnt'[i] = mnt[i]
    BY <1>4, <2>1, InsideMounts DEF Placed, Sound
  <2>4. drive \notin s /\ (Target = drive /\ ~refused => s = {})
    BY <1>1, <1>4, <2>1
  <2>5. /\ Known' /\ Free(Len(mnt) - 1)' /\ drive' \notin Last(mnt)'.sub
        /\ Target' = drive' /\ ~refused' => Last(mnt)'.sub = {}
    BY <1>1, <1>2, <1>4, <2>3, <2>4 DEF Known, Formatted, Free, Target
  <2>6. Where(pc)'
    BY <1>1, <2>5 DEF Where, Formatting, Bound, Bare, Booting
  <2>7. QED
    BY <1>1, <2>2, <2>6 DEF Placed
<1>5. QED
  BY <1>3, <1>4 DEF BootUnmountEfi

LEMMA PlacedGrub ==
  ASSUME Placed, InstallGrub PROVE Placed' /\ (UNCHANGED fs \/ Put({"kernel"}))
<1>1. /\ UNCHANGED <<part, mnt, refused>> /\ drive' = drive /\ pc' = "boot_umount"
      /\ Known /\ Free(Len(mnt) - 1)
      /\ Target = drive /\ ~refused => Last(mnt).sub \subseteq {drive}
  BY DEF InstallGrub, At, Goes, answers, Placed, Where
<1>2. CASE UNCHANGED efi /\ Put({"kernel"})
  BY <1>1, <1>2, SoundPut DEF Placed, Things, Where, Known, Formatted, Free, Target,
                              Last, Formatting, Bound, Bare, Booting
<1>3. CASE efi' = [efi EXCEPT ![drive] = {"kernel", "grub"}] /\ UNCHANGED fs
  <2>1. Sound'
    BY <1>1, <1>3 DEF Placed, Sound, BothPartitions, Known, Formatted
  <2>2. Where(pc)'
    BY <1>1, <1>3 DEF Where, Known, Formatted, Free, Target, Last, Formatting, Bound,
                      Bare, Booting
  <2>3. QED
    BY <1>3, <2>1, <2>2 DEF Placed
<1>4. QED
  BY <1>2, <1>3 DEF InstallGrub

LEMMA PlacedOutside ==
  ASSUME Placed, Interrupt \/ StartAgain \/ LinkChanges \/ UNCHANGED vars
  PROVE  Placed' /\ UNCHANGED fs
<1>1. CASE Interrupt \/ StartAgain
  BY <1>1, PlacedQuiet DEF Interrupt, StartAgain, storage, Formatting, Bound, Bare, Booting
<1>2. CASE LinkChanges \/ UNCHANGED vars
  <2>1. UNCHANGED <<pc, answers, part, fs, efi, mnt, refused>>
    BY <1>2 DEF LinkChanges, vars, storage
  <2>2. Where(pc)'
    BY <2>1 DEF Placed, Where, answers, Known, Formatted, Free, Target, Last
  <2>3. QED
    BY <2>1, <2>2, SoundSame DEF Placed
<1>3. QED
  BY <1>1, <1>2

IInv == Consent /\ Clean /\ Placed

LEMMA InitGood == Init => IInv
<1> SUFFICES ASSUME Init PROVE IInv
  OBVIOUS
<1>1. Consent
  BY DEF Init, Consent, Agreed, Wiping
<1>2. Clean
  BY DEF Init, Clean, OnlyVerifiedUnpacked, Things
<1>3. [disk |-> Live, sub |-> {}] \in Places
  BY DEF Places
<1>4. mnt \in Mounts /\ mnt # << >> /\ mnt[1].disk = Live /\ Len(mnt) = 1
  BY <1>3 DEF Init, Mounts
<1>5. DOMAIN mnt = 1..1
  BY <1>4, LenProperties DEF Mounts
<1>6. \A i \in DOMAIN mnt : mnt[i].disk \notin Disks
  BY <1>4, <1>5, InstallerAssumption
<1>7. Sound
  BY <1>4, <1>6, InstallerAssumption DEF Init, Sound, BothPartitions, Things
<1>8. Where(pc)
  BY DEF Init, Where, Formatting, Bound, Bare, Booting
<1>9. QED
  BY <1>1, <1>2, <1>7, <1>8 DEF IInv, Placed

(* What a step writes: to the drive, or the desktop or the kernel.         *)
Written ==
  \/ UNCHANGED fs
  \/ fs' = [fs EXCEPT ![drive] = {}]
  \/ Target = drive /\ \E S \in SUBSET Things : Put(S)
  \/ Put({"desktop"}) \/ Put({"kernel"})

LEMMA StepGood == IInv /\ [Next]_vars => IInv' /\ Written
<1> SUFFICES ASSUME IInv, [Next]_vars PROVE IInv' /\ Written
  OBVIOUS
<1>1. Consent'
  BY ConsentAsk, ConsentPartition, ConsentInstall, ConsentOutside DEF IInv, Next, Step
<1>2. Clean'
  BY CleanInstall, CleanOthers DEF IInv, Next, Step
<1> USE DEF Written
<1>3. CASE Ask
  BY <1>3, PlacedAsk, <1>1, <1>2 DEF IInv
<1>4. CASE PartitionDrive
  BY <1>4, PlacedPartition, <1>1, <1>2 DEF IInv
<1>5. CASE InstallBase
  BY <1>5, <1>1, <1>2, PlacedMount, PlacedWritten, PlacedDownload, PlacedBind,
     PlacedUnmountBase DEF IInv, InstallBase
<1>6. CASE InstallDe
  BY <1>6, PlacedDe, <1>1, <1>2 DEF IInv
<1>7. CASE InstallBootloader
  BY <1>7, <1>1, <1>2, PlacedBootMount, PlacedBootEfi, PlacedGrub, PlacedUnmountEfi,
     PlacedUnmountRoot
     DEF IInv, InstallBootloader
<1>8. CASE Interrupt \/ StartAgain \/ LinkChanges \/ UNCHANGED vars
  BY <1>8, PlacedOutside, <1>1, <1>2 DEF IInv
<1>9. QED
  BY <1>3, <1>4, <1>5, <1>6, <1>7, <1>8 DEF Next, Step

LEMMA Inductive == Spec => []IInv
BY InitGood, StepGood, PTL DEF Spec

(* Files are on formatted disks only: a mount that outlived its run, a     *)
(* mkpart that failed unnoticed and a disk partitioned again included.     *)
THEOREM OnFormatted == Spec => []BothPartitions
<1>1. IInv => BothPartitions
  BY DEF IInv, Placed, Sound
<1>2. QED
  BY <1>1, Inductive, PTL

(* A run that completes has unmounted all it mounted of its disk, although *)
(* any command may have failed on the way, the first umount of the root    *)
(* too, and umount refuses what has others mounted inside: unless one of   *)
(* the umounts that nothing repeats failed, whose status is not looked at. *)
THEOREM Released == Spec => []TargetReleased
<1>1. IInv => TargetReleased
  <2> SUFFICES ASSUME IInv, pc = "done", ~simulation, ~refused
                 PROVE  ~InUse(drive)
    BY DEF TargetReleased
  <2>1. Free(Len(mnt)) /\ DOMAIN mnt = 1..Len(mnt)
    BY LenProperties DEF IInv, Placed, Where, Sound, Mounts
  <2>2. QED
    BY <2>1 DEF Free, InUse
<1>2. QED
  BY <1>1, Inductive, PTL

(* The base system is written to the disk the user selected in this run.   *)
THEOREM OnTarget == Spec => BaseOnTarget
<1>1. IInv /\ [Next]_vars =>
        [\A d \in DOMAIN fs :
           (fs'[d] \ fs[d]) \cap {"good", "bad", "portage", "base", "apps"} # {}
             => d = drive]_vars
  <2> SUFFICES ASSUME IInv, [Next]_vars, NEW d \in DOMAIN fs, d # drive
               PROVE  (fs'[d] \ fs[d]) \cap {"good", "bad", "portage", "base", "apps"}
                        = {}
    OBVIOUS
  <2>1. Written /\ fs \in [Disks \cup {Live} -> SUBSET Things]
    BY StepGood DEF IInv, Placed, Sound
  <2>2. CASE UNCHANGED fs \/ fs' = [fs EXCEPT ![drive] = {}]
    BY <2>1, <2>2
  <2>3. CASE Target = drive /\ \E S \in SUBSET Things : Put(S)
    <3>1. PICK S \in SUBSET Things : fs' = [fs EXCEPT ![drive] = fs[drive] \cup S]
      BY <2>3 DEF Put
    <3>2. QED
      BY <2>1, <3>1
  <2>4. ASSUME NEW k \in {"desktop", "kernel"}, Put({k})
        PROVE  fs'[d] \subseteq fs[d] \cup {k}
    BY <2>1, <2>4 DEF Put
  <2>5. CASE Put({"desktop"}) \/ Put({"kernel"})
    BY <2>4, <2>5
  <2>6. QED
    BY <2>1, <2>2, <2>3, <2>5 DEF Written
<1>2. QED
  BY <1>1, Inductive, PTL DEF Spec, BaseOnTarget
=============================================================================
