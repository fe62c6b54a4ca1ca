----------------------------- MODULE GptSwitch -----------------------------
(* Fail-safe update of the boot chain (recovery/gpt-utils/gpt-utils.cpp):   *)
(* prepare_boot_update rewrites the secondary partition table and spoils    *)
(* the signature of one table at a time, so that the boot loader uses the   *)
(* copy of the images that is not being written.  The power may fail        *)
(* between any two writes.  One image per LUN stands for the partitions of  *)
(* PTN_SWAP_LIST that have a backup; image 0 is XBL, which on UFS is        *)
(* switched by the boot LUN attribute instead.                              *)
EXTENDS Naturals, Sequences

CONSTANTS
    Devices,      \* kinds of storage: {"emmc", "ufs"} or one of them
    NumLuns,      \* LUNs that hold critical images (UFS; eMMC has one disk)
    MaxCrashes,   \* power failures
    IoFails       \* a read, write or ioctl may fail

ASSUME GptAssumption ==
    /\ Devices \subseteq {"emmc", "ufs"} /\ Devices # {}
    /\ NumLuns \in Nat \ {0} /\ MaxCrashes \in Nat /\ IoFails \in BOOLEAN

VARIABLES
    device,    \* gpt_utils_is_ufs_device
    view,      \* [lun -> tables] as read() sees them, page cache included
    media,     \* [lun -> tables] as they are on the storage
    cache,     \* writes not on the storage yet, oldest first
    bootLun,   \* UFS attribute bBootLunEn: the copy of XBL that boots
    img,       \* [image -> [copy -> "old", "partial" or "new"]]
    pc, stage, lun, rc, is_error,   \* prepare_boot_update, prepare_partitions
    ioErr,     \* a call of this stage failed in the device
    next,      \* the updater's next stage; 4: finished, 0: gave up
    left,      \* images the updater has still to write
    crashes

disks == <<view, media, cache, bootLun>>
call  == <<pc, stage, lun, rc, is_error, ioErr>>
upd   == <<next, left>>
vars  == <<device, disks, img, call, upd, crashes>>

-----------------------------------------------------------------------------
UPDATE_MAIN == 1
UPDATE_BACKUP == 2
UPDATE_FINALIZE == 3

Luns   == 1 .. NumLuns
Copies == {"main", "bak"}
Used   == IF device = "ufs" THEN Luns ELSE {1}
Images == Used \cup (IF device = "ufs" THEN {0} ELSE {})

(* A partition entry array: which copy of each image comes first, and so    *)
(* boots; "torn" when the power failed within its write.                    *)
Orders == {"main", "bak", "torn"}
Headers == [sig : BOOLEAN, crc : BOOLEAN, entries : Orders]
Tables == [prim : Headers, parr : Orders, sec : Headers, sarr : Orders]

Good == [sig |-> TRUE, crc |-> TRUE, entries |-> "main"]
Pristine == [prim |-> Good, parr |-> "main", sec |-> Good, sarr |-> "main"]

(* gpt_get_state: a wrong CRC outweighs a wrong signature.                  *)
gpt_get_state(h) ==
    IF ~h.crc THEN "BAD_CRC" ELSE IF ~h.sig THEN "BAD_SIGNATURE" ELSE "OK"

(* gpt_set_state: the header as read, signature set or spoilt, CRC redone.  *)
gpt_set_state(h, ok) == [h EXCEPT !.sig = ok, !.crc = TRUE]

(* The stage the tables are in; 0 when they are beyond use.                 *)
InternalStage(t) ==
    LET p == gpt_get_state(t.prim)
        s == gpt_get_state(t.sec)
    IN  CASE "BAD_CRC" \in {p, s} \/ {p, s} = {"BAD_SIGNATURE"} -> 0
          [] p = "OK" /\ s = "OK" -> UPDATE_MAIN
          [] p = "BAD_SIGNATURE"  -> UPDATE_BACKUP
          [] OTHER                -> UPDATE_FINALIZE

-----------------------------------------------------------------------------
(* Nothing has been updated; the secondary header may be damaged.           *)
Init ==
    /\ device \in Devices
    /\ \E c \in BOOLEAN :
           view = [l \in Luns |-> IF l = 1 THEN [Pristine EXCEPT !.sec.crc = c]
                                           ELSE Pristine]
    /\ media = view /\ cache = <<>> /\ bootLun = "main"
    /\ img = [i \in 0 .. NumLuns |-> [c \in Copies |-> "old"]]
    /\ pc = "idle" /\ stage = UPDATE_MAIN /\ lun = 1
    /\ rc = FALSE /\ is_error = FALSE /\ ioErr = FALSE
    /\ next = UPDATE_MAIN /\ left = {} /\ crashes = 0

(* blk_rw: a write goes to the page cache.                                  *)
Write(part, val) ==
    /\ view' = [view EXCEPT ![lun] = [@ EXCEPT ![part] = val]]
    /\ cache' = Append(cache, [lun |-> lun, part |-> part, val |-> val])
    /\ UNCHANGED <<media, bootLun>>

Goto(p) == pc' = p /\ UNCHANGED <<stage, lun, rc, is_error, ioErr>>
Leave(failed) ==
    /\ pc' = "exit" /\ rc' = failed
    /\ UNCHANGED <<stage, lun, is_error, ioErr>>
LeaveIo ==
    /\ IoFails /\ pc' = "exit" /\ rc' = TRUE /\ ioErr' = TRUE
    /\ UNCHANGED <<disks, stage, lun, is_error>>
Elsewhere == UNCHANGED <<device, img, upd, crashes>>

(* prepare_boot_update(stage): on UFS every LUN of the list in turn.        *)
Call ==
    /\ pc = "idle" /\ next \in 1 .. 3 /\ left = {}
    /\ pc' = "state" /\ stage' = next /\ lun' = 1
    /\ rc' = FALSE /\ is_error' = FALSE /\ ioErr' = FALSE
    /\ UNCHANGED <<device, disks, img, upd, crashes>>

(* prepare_partitions: the stage the tables are in decides.                 *)
CheckState ==
    /\ pc = "state"
    /\ Elsewhere
    /\ \/ LET i == InternalStage(view[lun]) IN
          /\ IF stage = i
             THEN Goto(IF device = "ufs" /\ stage # UPDATE_FINALIZE
                       THEN "xbl" ELSE IF stage = UPDATE_BACKUP
                                       THEN "mark" ELSE "header")
             ELSE Leave(i = 0 \/ stage # i - 1)
          /\ UNCHANGED disks
       \/ LeaveIo

(* gpt_utils_set_xbl_boot_partition: the attribute changes at once.         *)
SetXblBootPartition ==
    /\ pc = "xbl"
    /\ Elsewhere
    /\ \/ /\ bootLun' = IF stage = UPDATE_MAIN THEN "bak" ELSE "main"
          /\ Goto(IF stage = UPDATE_MAIN THEN "header" ELSE "mark")
          /\ UNCHANGED <<view, media, cache>>
       \/ LeaveIo

(* gpt2_set_boot_chain: the entries come from the primary table, whose CRC  *)
(* must fit; the new header is written before the array.                    *)
NewOrderSlip == "bak"     \* UPDATE_FINALIZE leaves the swap in place

NewOrder == IF stage = UPDATE_MAIN THEN "bak" ELSE "main"

WriteHeader ==
    /\ pc = "header"
    /\ Elsewhere
    /\ LET t == view[lun] IN
       \/ /\ t.prim.entries # t.parr
          /\ Leave(TRUE) /\ UNCHANGED disks
       \/ /\ t.prim.entries = t.parr
          /\ Write("sec", [t.sec EXCEPT !.crc = TRUE, !.entries = NewOrder])
          /\ Goto("array")
       \/ LeaveIo

WriteArray ==
    /\ pc = "array"
    /\ Elsewhere
    /\ \/ Write("sarr", NewOrder) /\ Goto("mark")
       \/ LeaveIo

(* The signature that ends the stage; UPDATE_BACKUP restores the primary    *)
(* one first.                                                               *)
MarkSlip ==     \* UPDATE_BACKUP spoils the secondary table first
    /\ pc = "mark"
    /\ Elsewhere
    /\ \/ IF stage = UPDATE_BACKUP
          THEN Write("sec", gpt_set_state(view[lun].sec, FALSE)) /\ Goto("mark2")
          ELSE IF stage = UPDATE_MAIN
          THEN Write("prim", gpt_set_state(view[lun].prim, FALSE)) /\ Leave(FALSE)
          ELSE Write("sec", gpt_set_state(view[lun].sec, TRUE)) /\ Leave(FALSE)
       \/ LeaveIo

Mark ==
    /\ pc = "mark"
    /\ Elsewhere
    /\ \/ /\ stage = UPDATE_MAIN
          /\ Write("prim", gpt_set_state(view[lun].prim, FALSE)) /\ Leave(FALSE)
       \/ /\ stage = UPDATE_BACKUP
          /\ Write("prim", gpt_set_state(view[lun].prim, TRUE)) /\ Goto("mark2")
       \/ /\ stage = UPDATE_FINALIZE
          /\ Write("sec", gpt_set_state(view[lun].sec, TRUE)) /\ Leave(FALSE)
       \/ LeaveIo

SpoilSecondary ==
    /\ pc = "mark2"
    /\ Elsewhere
    /\ \/ Write("sec", gpt_set_state(view[lun].sec, FALSE)) /\ Leave(FALSE)
       \/ LeaveIo

MoreLunsSlip == lun \in Used     \* one LUN too many
MoreLuns == lun + 1 \in Used
AfterLunSlip == lun     \* the loop does not advance
AfterLun == lun + 1
FailedSlip == rc     \* the result of the last LUN is returned
Failed == is_error \/ rc

(* EXIT: fsync waits for the writes; the other LUNs are prepared even when  *)
(* this one failed.                                                         *)
NextLun ==
    /\ pc = "exit" /\ cache = <<>> /\ MoreLuns
    /\ lun' = AfterLun /\ pc' = "state" /\ rc' = FALSE
    /\ is_error' = Failed
    /\ UNCHANGED <<device, disks, img, upd, crashes, stage, ioErr>>

(* The updater (not in this repository) writes the images of a stage that   *)
(* was granted, passes over a stage that was refused, since an earlier run  *)
(* may have been through it, and gives up when the device fails.            *)
Return ==
    /\ pc = "exit" /\ cache = <<>> /\ ~MoreLuns
    /\ is_error' = Failed
    /\ pc' = "idle"
    /\ next' = IF ioErr THEN 0 ELSE stage + 1
    /\ left' = IF is_error' \/ stage = UPDATE_FINALIZE THEN {} ELSE Images
    /\ UNCHANGED <<device, disks, img, crashes, stage, lun, rc, ioErr>>

-----------------------------------------------------------------------------
(* The updater writes the main copies in stage 1, the backups in stage 2.   *)
Writing == IF stage = UPDATE_MAIN THEN "main" ELSE "bak"

WriteImage(i) ==
    /\ pc = "idle" /\ i \in left
    /\ \/ /\ img[i][Writing] # "partial"
          /\ img' = [img EXCEPT ![i][Writing] = "partial"]
          /\ UNCHANGED left
       \/ /\ img[i][Writing] = "partial"
          /\ img' = [img EXCEPT ![i][Writing] = "new"]
          /\ left' = left \ {i}
    /\ UNCHANGED <<device, disks, call, next, crashes>>

(* The kernel writes the page cache back, oldest first.                     *)
WriteBack ==
    /\ cache # <<>>
    /\ LET w == Head(cache) IN
       media' = [media EXCEPT ![w.lun] = [@ EXCEPT ![w.part] = w.val]]
    /\ cache' = Tail(cache)
    /\ UNCHANGED <<device, view, bootLun, img, call, upd, crashes>>

(* Power failure: what is in the page cache is lost, an array that was just *)
(* being written may be half there.  The updater starts over after boot.    *)
Crash ==
    /\ crashes < MaxCrashes /\ next # 4
    /\ crashes' = crashes + 1
    /\ LET w == Head(cache)
           Half == [media EXCEPT ![w.lun] = [@ EXCEPT ![w.part] = "torn"]]
       IN  media' \in {media} \cup (IF cache # <<>> /\ w.part = "sarr"
                                    THEN {Half} ELSE {})
    /\ view' = media' /\ cache' = <<>>
    /\ pc' = "idle" /\ stage' = UPDATE_MAIN /\ lun' = 1
    /\ rc' = FALSE /\ is_error' = FALSE /\ ioErr' = FALSE
    /\ next' = UPDATE_MAIN /\ left' = {}
    /\ UNCHANGED <<device, bootLun, img>>

Step ==
    \/ Call \/ CheckState \/ SetXblBootPartition \/ WriteHeader \/ WriteArray
    \/ Mark \/ SpoilSecondary \/ NextLun \/ Return
    \/ \E i \in 0 .. NumLuns : WriteImage(i)

Next == Step \/ WriteBack \/ Crash

Spec == Init /\ [][Next]_vars

(* The updater and the kernel go on; nothing makes the power fail.          *)
FairSpec == Spec /\ WF_vars(Step) /\ WF_vars(WriteBack)

-----------------------------------------------------------------------------
(* The boot loader uses the primary table if its signature and both CRCs    *)
(* are right, otherwise the secondary one.                                  *)
Usable(h, arr) == h.sig /\ h.crc /\ h.entries = arr
BootOrder(t) == IF Usable(t.prim, t.parr) THEN t.parr
                ELSE IF Usable(t.sec, t.sarr) THEN t.sarr ELSE "none"

Bootable(l) == LET o == BootOrder(media[l]) IN
    o \in Copies /\ img[l][o] # "partial"

TypeOK ==
    /\ device \in Devices
    /\ view \in [Luns -> Tables] /\ media \in [Luns -> Tables]
    /\ cache \in Seq([lun : Luns, part : {"prim", "sec"}, val : Headers]
                       \cup [lun : Luns, part : {"sarr"}, val : Orders])
    /\ bootLun \in Copies
    /\ img \in [0 .. NumLuns -> [Copies -> {"old", "partial", "new"}]]
    /\ pc \in {"idle", "state", "xbl", "header", "array", "mark", "mark2", "exit"}
    /\ stage \in 1 .. 3 /\ lun \in Luns
    /\ {rc, is_error, ioErr} \subseteq BOOLEAN
    /\ next \in 0 .. 4 /\ left \subseteq 0 .. NumLuns
    /\ crashes \in 0 .. MaxCrashes

(* Whenever the power fails, every LUN boots a complete copy of its images. *)
BootsIntact == \A l \in Used : Bootable(l)

(* prepare_partitions switches the boot LUN "so that backup boot LUN is     *)
(* used" while the main XBL is written: XBL always boots a complete copy.   *)
XblIntact == device = "ufs" => img[0][bootLun] # "partial"

(* The images that are being written are those that do not boot: each table *)
(* the loader may fall back on points away from them.                       *)
WritesBesideBoot ==
    \A l \in Used \cap left :
        \A t \in {media[l], view[l]} : BootOrder(t) # Writing

(* When the updater has been through its stages without the device failing, *)
(* every copy is new, both tables are in order and point to the main copy,  *)
(* whatever stages were interrupted and repeated before.                    *)
FinishedClean ==
    (next = 4 /\ \A l \in Used : gpt_get_state(media[l].sec) # "BAD_CRC") =>
        /\ bootLun = "main"
        /\ \A l \in Used : media[l] = Pristine
        /\ \A i \in Images : img[i] = [c \in Copies |-> "new"]

(* The stages come to an end after the last power failure, unless the       *)
(* device fails.                                                            *)
UpdateEnds == <>[](next \in {0, 4})
=============================================================================
