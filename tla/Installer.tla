----------------------------- MODULE Installer -----------------------------
(***************************************************************************)
(* The installer of src/lib/synth3x-installer, and the downloader of       *)
(* src/installer/downloader.c it runs: one pass from the boot banner to    *)
(* SYSTEM INSTALL COMPLETE, over disks that keep what earlier passes did.  *)
(*                                                                         *)
(* Every external command is one step that may fail; Ctrl+C may end the    *)
(* installer between two steps, and the user may start it again.  What is  *)
(* written goes to whatever is mounted at /mnt/gentoo.  parted refuses a   *)
(* disk in use, umount a file system with others mounted in it, mount the  *)
(* one that is mounted there already.                                      *)
(***************************************************************************)
EXTENDS Integers, Sequences, SequencesExt

CONSTANTS
  Disks,    (* The disks scan_drives finds, unless it finds none.            *)
  NoDisk,
  Live,     (* The directory /mnt/gentoo of the live system.                 *)
  MaxRuns   (* Bound: how often the user starts the installer.               *)

Binds == {"binds"}  \* Those of /proc, /sys and /dev that are mounted.

ASSUME InstallerAssumption ==
  /\ Live \notin Disks /\ NoDisk \notin Disks /\ Binds \cap Disks = {}
  /\ MaxRuns \in Nat \ {0}

WIFI_TRIES == 3
ETHERNET_TRIES == 5

VARIABLES
  pc,       (* The next step; "done" or "ended" between two runs.            *)
  runs,
  online,   (* Whether a ping is answered.                                   *)
  tries,    (* Connections tried.                                            *)
  boot_disk,    (* What detect_boot_disk returned.                           *)
  simulation,
  drive,    (* The disk the user selected,                                   *)
  yes,      (* whether YES was typed for the boot disk,                      *)
  confirm,  (* and the path typed last.                                      *)
  part,     (* The two partitions of each disk.                              *)
  fs,       (* What the root partition of each disk, or Live, holds.         *)
  efi,      (* What its EFI partition holds.                                 *)
  mnt,      (* What is mounted at /mnt/gentoo, the latest last: sub is what  *)
            (* is mounted inside, an EFI partition by its disk.              *)
  refused,  (* Whether an umount of this run that is not tried again failed, *)
            (* with nothing mounted inside what it should have released.     *)
  stage3,   (* stage3.tar.xz: "none", "good", "bad".                         *)
  sum       (* Its .sha256.                                                  *)

network == <<online, tries>>
answers == <<boot_disk, simulation, drive, yes, confirm>>
storage == <<part, fs, efi>>
archive == <<stage3, sum>>
vars == <<pc, runs, network, answers, storage, mnt, refused, archive>>

Init ==
  /\ pc = "detect" /\ runs = 1
  /\ online \in BOOLEAN /\ tries = 0
  /\ boot_disk = NoDisk /\ simulation = FALSE
  /\ drive = NoDisk /\ yes = FALSE /\ confirm = NoDisk
  /\ part = [d \in Disks |-> <<"old", "old">>]
  /\ fs = [d \in Disks \cup {Live} |-> {}]
  /\ efi = [d \in Disks |-> {}]
  /\ mnt = <<[disk |-> Live, sub |-> {}]>> /\ refused = FALSE
  /\ stage3 = "none" /\ sum = "none"

(* A step that releases nothing, and one that may.                         *)
Goes(from, to) == pc = from /\ pc' = to /\ UNCHANGED runs
At(from, to) == Goes(from, to) /\ UNCHANGED refused
Abort(from) == At(from, "ended")

(***************************************************************************)
(* Questions                                                               *)
(***************************************************************************)
DetectBootDisk ==
  /\ At("detect", "network")
  /\ boot_disk' \in Disks \cup {NoDisk}
  /\ UNCHANGED <<network, simulation, drive, yes, confirm, storage, mnt, archive>>

(* setup_wifi: with an adapter there is no way on but a connection.        *)
SetupWifi ==
  /\ At("network", "wifi") \/ At("network", "ethernet")
  /\ tries' = 0
  /\ UNCHANGED <<online, answers, storage, mnt, archive>>

(* Each try stops the DHCP client that may have run.                       *)
ConnectWifi ==
  /\ online' \in BOOLEAN
  /\ IF online' THEN At("wifi", "account") /\ tries' = 0
                ELSE At("wifi", "wifi") /\ tries' = (tries + 1) % WIFI_TRIES
  /\ UNCHANGED <<answers, storage, mnt, archive>>

(* Faulty variant: every try is the first.                                 *)
EthernetForEver ==
  /\ At("ethernet", "ethernet")
  /\ online' \in BOOLEAN
  /\ tries' = 1
  /\ UNCHANGED <<answers, storage, mnt, archive>>

(* An address is enough, answered pings or not.                            *)
Ethernet ==
  /\ IF tries = ETHERNET_TRIES
     THEN At("ethernet", "account") /\ tries' = 0 /\ UNCHANGED online
     ELSE /\ online' \in BOOLEAN
          /\ \/ At("ethernet", "ethernet") /\ tries' = tries + 1
             \/ At("ethernet", "account") /\ tries' = 0
  /\ UNCHANGED <<answers, storage, mnt, archive>>

(* Ends if the two passwords differ.                                       *)
Account ==
  /\ At("account", "drive") \/ Abort("account")
  /\ UNCHANGED <<network, answers, storage, mnt, archive>>

SelectDrive ==
  /\ \/ /\ At("drive", "safety")
        /\ simulation' = FALSE
        /\ drive' \in Disks
     \/ /\ At("drive", "desktop")
        /\ simulation' = TRUE
        /\ UNCHANGED drive
     \/ /\ Abort("drive")
        /\ UNCHANGED <<simulation, drive>>
  /\ UNCHANGED <<network, boot_disk, yes, confirm, storage, mnt, archive>>

(* Faulty variant: the answer about the boot disk is not looked at.        *)
CheckPathOnly ==
  /\ yes' \in BOOLEAN /\ confirm' \in Disks
  /\ IF confirm' = drive THEN At("safety", "desktop") ELSE Abort("safety")
  /\ UNCHANGED <<network, boot_disk, simulation, drive, storage, mnt, archive>>

(* check_drive_safety.  Its test of the mounted file systems looks for the *)
(* disk's name and a blank, which no line about a partition has: only a    *)
(* disk mounted whole, which the model does not have, would be asked about.*)
CheckDriveSafety ==
  /\ yes' \in BOOLEAN /\ confirm' \in Disks
  /\ IF (drive = boot_disk => yes') /\ confirm' = drive
     THEN At("safety", "desktop")
     ELSE Abort("safety")
  /\ UNCHANGED <<network, boot_disk, simulation, drive, storage, mnt, archive>>

(* The desktop and the programs; ends if there is no such desktop.         *)
SelectDesktop ==
  /\ \/ ~simulation /\ At("desktop", "mklabel")
     \/ simulation /\ At("desktop", "done")      \* nothing but messages
     \/ Abort("desktop")
  /\ UNCHANGED <<network, answers, storage, mnt, archive>>

(***************************************************************************)
(* partition_drive                                                         *)
(***************************************************************************)
InUse(d) == \E i \in DOMAIN mnt : mnt[i].disk = d \/ d \in mnt[i].sub

(* mkfs empties what it formats.                                           *)
Partitioned(parts) == part' = [part EXCEPT ![drive] = parts]

Mklabel ==
  /\ \/ /\ At("mklabel", "mkpart1")
        /\ ~InUse(drive)
        /\ Partitioned(<<"none", "none">>)
        /\ fs' = [fs EXCEPT ![drive] = {}] /\ efi' = [efi EXCEPT ![drive] = {}]
     \/ Abort("mklabel") /\ UNCHANGED storage
  /\ UNCHANGED <<network, answers, mnt, archive>>

(* Any exit status will do.                                                *)
MkpartEfi ==
  /\ At("mkpart1", "mkpart2")
  /\ Partitioned(<<"raw", "none">>) \/ UNCHANGED part
  /\ UNCHANGED <<network, answers, fs, efi, mnt, archive>>

(* The partition gets the first free number.                               *)
MkpartRoot ==
  /\ \/ /\ At("mkpart2", "vfat")
        /\ Partitioned(IF part[drive][1] = "none" THEN <<"raw", "none">>
                                                  ELSE <<"raw", "raw">>)
     \/ Abort("mkpart2") /\ UNCHANGED part
  /\ UNCHANGED <<network, answers, fs, efi, mnt, archive>>

MkfsEfi ==
  /\ \/ /\ At("vfat", "ext4")
        /\ Partitioned(<<"vfat", part[drive][2]>>)
     \/ Abort("vfat") /\ UNCHANGED part
  /\ UNCHANGED <<network, answers, fs, efi, mnt, archive>>

(* Faulty variant: goes on when mkfs.ext4 has failed.                      *)
MkfsRootUnchecked ==
  /\ At("ext4", "mount")
  /\ Partitioned(<<"vfat", IF part[drive][2] = "raw" THEN "ext4" ELSE "none">>)
  /\ stage3' = "none" /\ sum' = "none"
  /\ UNCHANGED <<network, answers, fs, efi, mnt>>

MkfsRoot ==
  /\ \/ /\ At("ext4", "mount")
        /\ part[drive][2] = "raw"
        /\ Partitioned(<<"vfat", "ext4">>)
        /\ stage3' = "none" /\ sum' = "none"
     \/ Abort("ext4") /\ UNCHANGED <<part, archive>>
  /\ UNCHANGED <<network, answers, fs, efi, mnt>>

(***************************************************************************)
(* install_base                                                            *)
(***************************************************************************)
Target == Last(mnt).disk
Put(things) == fs' = [fs EXCEPT ![Target] = @ \cup things]
Mounted(disk) ==
  Target # disk /\ mnt' = Append(mnt, [disk |-> disk, sub |-> {}])
Inside(sub) == mnt' = [mnt EXCEPT ![Len(mnt)].sub = sub]

(* umount /mnt/gentoo, unless it fails.                                    *)
Unmount == IF Target # Live /\ Last(mnt).sub = {} THEN mnt' = Front(mnt)
                                                  ELSE UNCHANGED mnt

(* Faulty variant: goes on when mount has failed.                          *)
MountRootUnchecked ==
  /\ At("mount", "ping")
  /\ Mounted(drive) \/ UNCHANGED mnt
  /\ UNCHANGED <<network, answers, storage, archive>>

MountRoot ==
  /\ \/ At("mount", "ping") /\ Mounted(drive)
     \/ Abort("mount") /\ UNCHANGED mnt
  /\ UNCHANGED <<network, answers, storage, archive>>

Ping ==
  /\ IF online THEN At("ping", "c_stage3") \/ At("ping", "wget")
               ELSE At("ping", "copy")       \* or no /usr/bin/synth3x-downloader
  /\ UNCHANGED <<network, answers, storage, mnt, archive>>

(* A download that succeeds may still be wrong; one that fails may leave a *)
(* part.                                                                   *)
Fetched(file) == online /\ file' \in {"good", "bad"}
NotFetched(file) == file' \in {file, "bad"}
verify_sha256 == stage3 = "good" /\ sum = "good"

(* installer_download_stage3.                                              *)
CStage3 ==
  /\ \/ At("c_stage3", "c_sum") /\ Fetched(stage3)
     \/ At("c_stage3", "wget") /\ NotFetched(stage3)
  /\ UNCHANGED <<network, answers, storage, mnt, sum>>

CSum ==
  /\ \/ At("c_sum", "c_verify") /\ Fetched(sum) /\ UNCHANGED stage3
     \/ At("c_sum", "wget") /\ NotFetched(sum) /\ stage3' = "none"
  /\ UNCHANGED <<network, answers, storage, mnt>>

(* Faulty variant: an archive that cannot be verified is unpacked.         *)
CVerifyWarns ==
  /\ At("c_verify", "c_extract") /\ sum' = "none" /\ UNCHANGED stage3
  /\ UNCHANGED <<network, answers, storage, mnt>>

CVerify ==
  /\ IF verify_sha256
     THEN At("c_verify", "c_extract") /\ sum' = "none" /\ UNCHANGED stage3
     ELSE At("c_verify", "wget") /\ sum' = "none" /\ stage3' = "none"
  /\ UNCHANGED <<network, answers, storage, mnt>>

(* tar may fail halfway.                                                   *)
CExtract ==
  /\ Put({stage3})
  /\ \/ At("c_extract", "c_portage") /\ stage3' = "none"
     \/ At("c_extract", "wget") /\ UNCHANGED stage3
  /\ UNCHANGED <<network, answers, part, efi, mnt, sum>>

(* The second entry has no checksum.                                       *)
CPortage ==
  /\ \/ At("c_portage", "bind") /\ online /\ Put({"portage"})
     \/ At("c_portage", "wget") /\ (Put({"portage"}) \/ UNCHANGED fs)
  /\ UNCHANGED <<network, answers, part, efi, mnt, archive>>

(* download_stage3, when the downloader failed.                            *)
Wget ==
  /\ \/ At("wget", "wget_sum") /\ Fetched(stage3)
     \/ Abort("wget") /\ NotFetched(stage3)
  /\ UNCHANGED <<network, answers, storage, mnt, sum>>

WgetSum ==
  /\ \/ At("wget_sum", "verify") /\ Fetched(sum) /\ UNCHANGED stage3
     \/ Abort("wget_sum") /\ NotFetched(sum) /\ stage3' = "none"
  /\ UNCHANGED <<network, answers, storage, mnt>>

Verify ==
  /\ sum' = "none"
  /\ IF verify_sha256 THEN At("verify", "extract") /\ UNCHANGED stage3
                      ELSE Abort("verify") /\ stage3' = "none"
  /\ UNCHANGED <<network, answers, storage, mnt>>

Extract ==
  /\ Put({stage3})
  /\ \/ At("extract", "bind") /\ stage3' = "none"
     \/ Abort("extract") /\ UNCHANGED stage3
  /\ UNCHANGED <<network, answers, part, efi, mnt, sum>>

(* mount --bind, whatever comes of it.                                     *)
BindMounts ==
  /\ At("bind", "configure")
  /\ \E S \in SUBSET Binds : Inside(Last(mnt).sub \cup S)
  /\ UNCHANGED <<network, answers, storage, archive>>

(* make.conf, fstab, hostname, timezone, locale, users, sudo, autologin.   *)
Configure ==
  /\ At("configure", "unbind")
  /\ Put({"base"})
  /\ UNCHANGED <<network, answers, part, efi, mnt, archive>>

(* Faulty variant: /dev is not released, if it is mounted.                 *)
UnbindTwo ==
  /\ At("unbind", "apps")
  /\ \E stay \in SUBSET Binds : Inside(Last(mnt).sub \ (Binds \ stay))
  /\ UNCHANGED <<network, answers, storage, archive>>

(* umount -l of each, whatever comes of it.                                *)
Unbind ==
  /\ Goes("unbind", "apps")
  /\ \E stay \in SUBSET (Last(mnt).sub \cap Binds) :
       /\ Inside((Last(mnt).sub \ Binds) \cup stay)
       /\ refused' = (refused \/ stay # {})
  /\ UNCHANGED <<network, answers, storage, archive>>

(* Offline: the live system itself.                                        *)
CopyHost ==
  /\ At("copy", "apps")
  /\ Put({"base"})
  /\ UNCHANGED <<network, answers, part, efi, mnt, archive>>

(* A program that cannot be copied is left out.                            *)
CopyPrograms ==
  /\ At("apps", "umount")
  /\ Put({"apps"}) \/ UNCHANGED fs
  /\ UNCHANGED <<network, answers, part, efi, mnt, archive>>

(* What stays mounted here, install_bootloader tries again.                *)
UnmountBase ==
  /\ At("umount", "de")
  /\ Unmount \/ UNCHANGED mnt
  /\ UNCHANGED <<network, answers, storage, archive>>

(***************************************************************************)
(* install_de and install_bootloader                                       *)
(***************************************************************************)
InstallDe ==
  /\ At("de", "boot_root")
  /\ Put({"desktop"})
  /\ UNCHANGED <<network, answers, part, efi, mnt, archive>>

BootMountRoot ==
  /\ At("boot_root", "boot_efi")
  /\ Mounted(drive) \/ UNCHANGED mnt
  /\ UNCHANGED <<network, answers, storage, archive>>

BootMountEfi ==
  /\ At("boot_efi", "grub")
  /\ Inside(Last(mnt).sub \cup {drive}) \/ UNCHANGED mnt
  /\ UNCHANGED <<network, answers, storage, archive>>

(* The kernel and GRUB, on the EFI partition mounted last or, without one, *)
(* in the directory /boot.                                                 *)
InstallGrub ==
  /\ At("grub", "boot_umount")
  /\ IF drive \in Last(mnt).sub
     THEN efi' = [efi EXCEPT ![drive] = {"kernel", "grub"}] /\ UNCHANGED fs
     ELSE UNCHANGED efi /\ Put({"kernel"})
  /\ UNCHANGED <<network, answers, part, mnt, archive>>

(* The EFI partition mounted last, which is the drive's if it is there; or *)
(* one that an earlier run left, or none.                                  *)
BootUnmountEfi ==
  /\ Goes("boot_umount", "root_umount")
  /\ \/ \E d \in Disks : /\ drive \in Last(mnt).sub => d = drive
                         /\ Inside(Last(mnt).sub \ {d})
                         /\ UNCHANGED refused
     \/ refused' = TRUE /\ UNCHANGED mnt
  /\ UNCHANGED <<network, answers, storage, archive>>

BootUnmountRoot ==
  /\ Goes("root_umount", "done")
  /\ \/ Unmount /\ UNCHANGED refused
     \/ refused' = TRUE /\ UNCHANGED mnt
  /\ UNCHANGED <<network, answers, storage, archive>>

(***************************************************************************)
(* The user and the network                                                *)
(***************************************************************************)
Over == pc \in {"done", "ended"}

Interrupt ==
  /\ ~Over
  /\ pc' = "ended"
  /\ UNCHANGED <<runs, network, answers, storage, mnt, refused, archive>>

StartAgain ==
  /\ Over /\ runs < MaxRuns
  /\ runs' = runs + 1
  /\ pc' = "detect"
  /\ boot_disk' = NoDisk /\ simulation' = FALSE
  /\ drive' = NoDisk /\ yes' = FALSE /\ confirm' = NoDisk
  /\ tries' = 0 /\ refused' = FALSE
  /\ UNCHANGED <<online, storage, mnt, archive>>

LinkChanges ==
  /\ pc \in {"drive", "ping", "c_stage3", "wget"}   \* Bound: where it matters.
  /\ online' = ~online
  /\ UNCHANGED <<pc, runs, tries, answers, storage, mnt, refused, archive>>

Ask == DetectBootDisk \/ SetupWifi \/ ConnectWifi \/ Ethernet \/ Account
         \/ SelectDrive \/ CheckDriveSafety \/ SelectDesktop
PartitionDrive == Mklabel \/ MkpartEfi \/ MkpartRoot \/ MkfsEfi \/ MkfsRoot
DownloadStage3 == CStage3 \/ CSum \/ CVerify \/ CExtract \/ CPortage
                    \/ Wget \/ WgetSum \/ Verify \/ Extract
InstallBase == MountRoot \/ Ping \/ DownloadStage3 \/ BindMounts \/ Configure
                 \/ Unbind \/ CopyHost \/ CopyPrograms \/ UnmountBase
InstallBootloader == BootMountRoot \/ BootMountEfi \/ InstallGrub
                       \/ BootUnmountEfi \/ BootUnmountRoot
Step == Ask \/ PartitionDrive \/ InstallBase \/ InstallDe \/ InstallBootloader

Next == Step \/ Interrupt \/ StartAgain \/ LinkChanges

(* Commands end and the user answers.                                      *)
Spec == Init /\ [][Next]_vars /\ WF_vars(Step)

(***************************************************************************)
(* Properties                                                              *)
(***************************************************************************)
(* "Boot disk detection prevents accidental self-installation": a disk is  *)
(* partitioned anew only in a run in which the user typed its path and, if *)
(* it is the disk detect_boot_disk named, YES.                             *)
WipeNeedsConsent ==
  [][\A d \in Disks : part'[d] # part[d] =>
       ~simulation /\ drive = d /\ confirm = d /\ (boot_disk = d => yes)]_vars

(* Nothing is installed on a disk without both partitions, formatted, not  *)
(* even when the EFI partition's mkpart failed unnoticed and the root      *)
(* partition took its number.                                              *)
BothPartitions ==
  \A d \in Disks : fs[d] \cup efi[d] # {} => part[d] = <<"vfat", "ext4">>

(* Whichever program downloads, and whatever earlier tries left behind, an *)
(* archive that differs from its checksum is never unpacked.               *)
OnlyVerifiedUnpacked == \A d \in DOMAIN fs : "bad" \notin fs[d]

(* The base system goes to the disk the user selected: never to the live   *)
(* system, nor to the disk an interrupted run left mounted.                *)
BaseOnTarget ==
  [][\A d \in DOMAIN fs :
       (fs'[d] \ fs[d]) \cap {"good", "bad", "portage", "base", "apps"} # {}
         => d = drive]_vars

(* A run that completes leaves none of its disk's partitions mounted,      *)
(* whatever failed on the way and whatever an earlier run left mounted,    *)
(* unless the umount of a bind mount or one of the last two failed: their  *)
(* status is not looked at.  The first umount of the root may fail.        *)
TargetReleased == pc = "done" /\ ~simulation /\ ~refused => ~InUse(drive)

(* The installer ends, unless it has a WiFi adapter and never connects.    *)
Finishes == <>[]Over \/ []<>(pc = "wifi")
=============================================================================
