--------------------------- MODULE GptSwitchProofs ---------------------------
(***************************************************************************)
(* The fail-safe update for any number of LUNs and of power failures: the  *)
(* inductive invariant of GptSwitch and the theorems that follow from it.  *)
(***************************************************************************)
EXTENDS GptSwitch, TLAPS

Spoilt == [sig |-> FALSE, crc |-> TRUE, entries |-> "main"]
Swapped == [sig |-> TRUE, crc |-> TRUE, entries |-> "bak"]
Retired == [sig |-> FALSE, crc |-> TRUE, entries |-> "bak"]

(* The tables the update produces: the primary one only ever changes its     *)
(* signature, and it is spoilt only while the secondary one is complete.     *)
Legal(t) ==
    /\ t.parr = "main"
    /\ \/ t.prim = Good
       \/ t.prim = Spoilt /\ t.sec = Swapped /\ t.sarr = "bak"

(* The writes of a stage to LUN l, and the table after the first k of them.  *)
Entry(l, part, val) == [lun |-> l, part |-> part, val |-> val]
After(t, w) == [t EXCEPT ![w.part] = w.val]

Plan(s, l) ==
    IF s = UPDATE_MAIN
      THEN <<Entry(l, "sec", Swapped), Entry(l, "sarr", "bak"),
             Entry(l, "prim", Spoilt)>>
      ELSE IF s = UPDATE_BACKUP
      THEN <<Entry(l, "prim", Good),
             Entry(l, "sec", Retired)>>
      ELSE <<Entry(l, "sec", Spoilt),
             Entry(l, "sarr", "main"), Entry(l, "sec", Good)>>

Steps(s) == IF s = UPDATE_BACKUP THEN 2 ELSE 3

Done(t, s, k) ==
    /\ Legal(t)
    /\ s = UPDATE_MAIN =>
         /\ k = 0 => InternalStage(t) = UPDATE_MAIN
         /\ k \in {1, 2} => t.prim = Good /\ t.sec = Swapped
         /\ k = 2 => t.sarr = "bak"
         /\ k = 3 => InternalStage(t) = UPDATE_BACKUP
    /\ s = UPDATE_BACKUP =>
         /\ k = 0 => InternalStage(t) = UPDATE_BACKUP
         /\ k = 1 => t.prim = Good /\ t.sec = Swapped
         /\ k = 2 => InternalStage(t) = UPDATE_FINALIZE
    /\ s = UPDATE_FINALIZE =>
         /\ k = 0 => InternalStage(t) = UPDATE_FINALIZE
         /\ k \in {1, 2} => t.prim = Good /\ t.sec = Spoilt
         /\ k = 2 => t.sarr = "main"
         /\ k = 3 => t = Pristine

(* k writes of the stage were issued to this LUN; those that the kernel has  *)
(* not written back are in the page cache, in order.                         *)
Progress(k) ==
    /\ Len(cache) <= k
    /\ Done(view[lun], stage, k)
    /\ Done(media[lun], stage, k - Len(cache))
    /\ \A i \in 1 .. Len(cache) : cache[i] = Plan(stage, lun)[k - Len(cache) + i]

(* The stage of a LUN as the device shows it and as the next reader sees it. *)
M(l) == InternalStage(media[l])
V(l) == InternalStage(view[l])

(* Where prepare_partitions is decides how many writes it has issued.        *)
InCall ==
    /\ pc \in {"idle", "state"} => cache = <<>>
    /\ pc = "xbl" => stage # UPDATE_FINALIZE /\ Progress(0)
    /\ pc = "header" => stage # UPDATE_BACKUP /\ Progress(0)
    /\ pc = "array" => stage # UPDATE_BACKUP /\ Progress(1)
    /\ pc = "mark" => Progress(Steps(stage) - IF stage = UPDATE_BACKUP THEN 2 ELSE 1)
    /\ pc = "mark2" => stage = UPDATE_BACKUP /\ Progress(1)
    /\ pc = "exit" =>
         \/ cache = <<>> /\ (~rc => stage # UPDATE_FINALIZE /\ M(lun) = stage + 1)
         \/ \E k \in 0 .. Steps(stage) : Progress(k) /\ (~rc => k = Steps(stage))

TableInv ==
    /\ \A l \in Luns : Legal(media[l]) /\ Legal(view[l]) /\ (M(l) = 0 <=> V(l) = 0)
    /\ \A l \in Luns : (l # lun \/ cache = <<>>) => M(l) = V(l)
    /\ lun \in Used
    /\ InCall

(* How far a LUN has come when the updater calls for stage s, in a run       *)
(* without a device error.                                                   *)
Reached(s, t) ==
    /\ s = UPDATE_BACKUP => InternalStage(t) # UPDATE_MAIN
    /\ s = UPDATE_FINALIZE => InternalStage(t) \in {0, UPDATE_FINALIZE}
    /\ s = 4 => InternalStage(t) = 0 \/ t = Pristine

LunReached(s, l) == Reached(s, media[l]) /\ Reached(s, view[l])

BetweenCalls == \A l \in Used : LunReached(next, l)

OtherLuns ==
    \A l \in Used : /\ l < lun => LunReached(stage + 1, l)
                    /\ l > lun => LunReached(stage, l)

ThisLun ==
    /\ pc = "state" => LunReached(stage, lun)
    /\ pc = "exit" => \/ cache = <<>> /\ LunReached(stage + 1, lun)
                      \/ Progress(Steps(stage))

Journey ==
    /\ pc = "idle" => BetweenCalls
    /\ pc # "idle" => next = stage
    /\ pc # "idle" /\ ~ioErr => OtherLuns /\ ThisLun

(* A LUN whose secondary header is damaged refuses every stage.              *)
Broken == \E l \in Used : M(l) = 0

LunsAt(s) == \A l \in Used : M(l) = s /\ V(l) = s

Calling(s) == pc # "idle" /\ stage = s
Error == is_error \/ (pc = "exit" /\ rc)

(* What a copy of image i is when its stage s is over. *)
Written(s, c) == \A i \in Images : img[i][c] = "new" \/ (i \in left /\ stage = s)

(* An error without a device error: some LUN is past this stage. *)
ErrorInv ==
    /\ pc # "idle" /\ ioErr => Error
    /\ pc # "idle" /\ ~is_error /\ stage # UPDATE_FINALIZE =>
         \A l \in Used : l < lun => M(l) = stage + 1 /\ V(l) = stage + 1
    /\ pc # "idle" /\ Error /\ ~ioErr /\ ~Broken =>
         stage = UPDATE_MAIN /\ Written(0, "main")
    /\ left # {} =>
         /\ pc = "idle" /\ stage \in {UPDATE_MAIN, UPDATE_BACKUP}
         /\ next = stage + 1 /\ LunsAt(stage + 1)

ImageInv ==
    /\ Broken => left = {} /\ \A i \in Images, c \in Copies : img[i][c] = "old"
    /\ ~Broken =>
         /\ (\E l \in Used : UPDATE_FINALIZE \in {M(l), V(l)}) => Written(0, "main")
         /\ (Calling(2) \/ Calling(3)) => Written(0, "main")
         /\ pc = "idle" /\ next >= 2 => Written(UPDATE_MAIN, "main")
         /\ Calling(3) => Written(0, "bak")
         /\ pc = "idle" /\ next >= 3 => Written(UPDATE_BACKUP, "bak")
         /\ (\E i \in Images : img[i]["main"] = "partial") => LunsAt(UPDATE_BACKUP)
         /\ (\E i \in Images : img[i]["bak"] = "partial") => LunsAt(UPDATE_FINALIZE)

(* The boot LUN is the backup one only before some table is restored.        *)
BootLunInv ==
    /\ device # "ufs" => bootLun = "main" /\ pc # "xbl"
    /\ ~Broken =>
         /\ bootLun = "bak" => \E l \in Used : M(l) # UPDATE_FINALIZE
         /\ stage = UPDATE_BACKUP /\ (pc \in {"mark", "mark2"} \/ cache # <<>>) =>
              bootLun = "main"
         /\ Calling(3) \/ (pc = "idle" /\ next >= 3) => bootLun = "main"

GInv == TypeOK /\ TableInv /\ Journey /\ ErrorInv /\ ImageInv /\ BootLunInv

-----------------------------------------------------------------------------
(* Lemmas about partition tables.                                           *)

(* The stage of a legal table, read off its headers. *)
LEMMA LegalStage ==
  ASSUME NEW t \in Tables, Legal(t)
  PROVE  /\ InternalStage(t) \in 0 .. 3
         /\ InternalStage(t) = 0 <=> ~t.sec.crc
         /\ InternalStage(t) = 1 <=> t.prim = Good /\ t.sec.crc /\ t.sec.sig
         /\ InternalStage(t) = 2 <=> t.prim = Spoilt
         /\ InternalStage(t) = 3 <=> t.prim = Good /\ t.sec.crc /\ ~t.sec.sig
<1> DEFINE p == gpt_get_state(t.prim)
           s == gpt_get_state(t.sec)
<1>1. t.sec.crc \in BOOLEAN /\ t.sec.sig \in BOOLEAN
  BY DEF Tables, Headers
<1>2. Good # Spoilt /\ (t.prim = Good \/ t.prim = Spoilt)
  BY DEF Good, Spoilt, Legal
<1>3. /\ t.prim = Good => p = "OK"
      /\ t.prim = Spoilt => p = "BAD_SIGNATURE" /\ s = "OK" /\ t.sec.crc /\ t.sec.sig
  BY DEF Legal, gpt_get_state, Good, Spoilt, Swapped
<1>4. /\ ~t.sec.crc => s = "BAD_CRC"
      /\ t.sec.crc /\ ~t.sec.sig => s = "BAD_SIGNATURE"
      /\ t.sec.crc /\ t.sec.sig => s = "OK"
  BY <1>1 DEF gpt_get_state
<1>5. InternalStage(t) =
        CASE "BAD_CRC" \in {p, s} \/ {p, s} = {"BAD_SIGNATURE"} -> 0
          [] p = "OK" /\ s = "OK" -> 1
          [] p = "BAD_SIGNATURE"  -> 2
          [] OTHER                -> 3
  BY DEF InternalStage, UPDATE_MAIN, UPDATE_BACKUP, UPDATE_FINALIZE
<1> HIDE DEF p, s
<1>6. /\ p = "OK" /\ s = "BAD_CRC" => InternalStage(t) = 0
      /\ p = "OK" /\ s = "OK" => InternalStage(t) = 1
      /\ p = "OK" /\ s = "BAD_SIGNATURE" => InternalStage(t) = 3
      /\ p = "BAD_SIGNATURE" /\ s = "OK" => InternalStage(t) = 2
  BY <1>5
<1> QED
  BY <1>1, <1>2, <1>3, <1>4, <1>6

(* The stage of a table in the middle of an update. *)
LEMMA DoneStage ==
  ASSUME NEW t \in Tables, NEW s \in 1 .. 3, NEW k \in 0 .. Steps(s), Done(t, s, k)
  PROVE  /\ Legal(t) /\ t.sec.crc /\ InternalStage(t) \in 1 .. 3
         /\ s = 1 => InternalStage(t) = IF k = 3 THEN 2 ELSE 1
         /\ s = 2 => InternalStage(t) = IF k = 0 THEN 2 ELSE IF k = 1 THEN 1 ELSE 3
         /\ s = 3 => InternalStage(t) = IF k = 3 THEN 1 ELSE 3
         /\ s = 3 /\ k = 3 => t = Pristine
<1> USE DEF UPDATE_MAIN, UPDATE_BACKUP, UPDATE_FINALIZE, Steps
<1>1. Legal(t)
  BY DEF Done
<1>2. Good # Spoilt /\ Swapped.sig /\ Swapped.crc /\ Good.crc /\ Good.sig
      /\ Pristine.prim = Good /\ Pristine.sec = Good
      /\ Spoilt.crc /\ ~Spoilt.sig
  BY DEF Good, Spoilt, Swapped, Pristine
<1>3. CASE s = 1
  BY <1>1, <1>2, <1>3, LegalStage DEF Done
<1>4. CASE s = 2
  BY <1>1, <1>2, <1>4, LegalStage DEF Done
<1>5. CASE s = 3 /\ k # 3
  BY <1>1, <1>2, <1>5, LegalStage DEF Done
<1>6. CASE s = 3 /\ k = 3
  <2>1. t = Pristine
    BY <1>6 DEF Done
  <2>2. t.prim = Good /\ t.sec.crc /\ t.sec.sig
    BY <1>2, <2>1
  <2> QED
    BY <1>1, <1>6, <2>1, <2>2, LegalStage
<1> QED
  BY <1>3, <1>4, <1>5, <1>6

(* What a write does to a table. *)
LEMMA WriteFacts ==
  ASSUME NEW t \in Tables, NEW l \in Luns
  PROVE  /\ \A v \in Headers :
              /\ After(t, Entry(l, "sec", v)) \in Tables
              /\ After(t, Entry(l, "sec", v)) = [t EXCEPT !.sec = v]
              /\ After(t, Entry(l, "prim", v)) \in Tables
              /\ After(t, Entry(l, "prim", v)) = [t EXCEPT !.prim = v]
         /\ \A v \in Orders :
              /\ After(t, Entry(l, "sarr", v)) \in Tables
              /\ After(t, Entry(l, "sarr", v)) = [t EXCEPT !.sarr = v]
         /\ {Good, Spoilt, Swapped, Retired} \subseteq Headers
         /\ {"main", "bak", "torn"} \subseteq Orders
<1>1. Good \in Headers /\ Spoilt \in Headers /\ Swapped \in Headers /\ Retired \in Headers
  BY DEF Good, Spoilt, Swapped, Retired, Headers, Orders
<1>2. \A p, v : Entry(l, p, v).part = p /\ Entry(l, p, v).val = v
  BY DEF Entry
<1>3. \A v \in Headers : [t EXCEPT !.sec = v] \in Tables /\ [t EXCEPT !.prim = v] \in Tables
  BY DEF Tables
<1>4. \A v \in Orders : [t EXCEPT !.sarr = v] \in Tables
  BY DEF Tables
<1>5. ASSUME NEW w
      PROVE  /\ w.part = "sec" => After(t, w) = [t EXCEPT !.sec = w.val]
             /\ w.part = "prim" => After(t, w) = [t EXCEPT !.prim = w.val]
             /\ w.part = "sarr" => After(t, w) = [t EXCEPT !.sarr = w.val]
  BY DEF After
<1>6. \A v \in Headers : /\ After(t, Entry(l, "sec", v)) = [t EXCEPT !.sec = v]
                         /\ After(t, Entry(l, "prim", v)) = [t EXCEPT !.prim = v]
  BY <1>2, <1>5
<1>7. \A v \in Orders : After(t, Entry(l, "sarr", v)) = [t EXCEPT !.sarr = v]
  BY <1>2, <1>5
<1> QED
  BY <1>1, <1>3, <1>4, <1>6, <1>7 DEF Orders

(* The next write of the plan brings the table one step on. *)
LEMMA DoneNext ==
  ASSUME NEW t \in Tables, NEW s \in 1 .. 3, NEW l \in Luns,
         NEW k \in 0 .. Steps(s), k < Steps(s), Done(t, s, k)
  PROVE  After(t, Plan(s, l)[k + 1]) \in Tables /\ Done(After(t, Plan(s, l)[k + 1]), s, k + 1)
<1> USE DEF UPDATE_MAIN, UPDATE_BACKUP, UPDATE_FINALIZE, Steps
<1> DEFINE w == Plan(s, l)[k + 1]
           u == After(t, w)
<1>1. t.parr = "main" /\ Legal(t) /\ Good # Spoilt
  BY DEF Done, Legal, Good, Spoilt
<1>2. SUFFICES u \in Tables /\ Done(u, s, k + 1)
  OBVIOUS
<1>3. CASE s = 1 /\ k = 0
  <2>1. w = Entry(l, "sec", Swapped) /\ u = [t EXCEPT !.sec = Swapped] /\ u \in Tables
    BY <1>3, WriteFacts DEF Plan
  <2>2. t.prim = Good
    BY <1>1, <1>3, LegalStage DEF Done
  <2> QED
    BY <1>1, <1>3, <2>1, <2>2 DEF Done, Legal, Tables
<1>4. CASE s = 1 /\ k = 1
  <2>1. w = Entry(l, "sarr", "bak") /\ u = [t EXCEPT !.sarr = "bak"] /\ u \in Tables
    BY <1>4, WriteFacts DEF Plan
  <2> QED
    BY <1>1, <1>4, <2>1 DEF Done, Legal, Tables
<1>5. CASE s = 1 /\ k = 2
  <2>1. w = Entry(l, "prim", Spoilt) /\ u = [t EXCEPT !.prim = Spoilt] /\ u \in Tables
    BY <1>5, WriteFacts DEF Plan
  <2>2. Legal(u) /\ u.prim = Spoilt
    BY <1>1, <1>5, <2>1 DEF Done, Legal, Tables
  <2> QED
    BY <1>1, <1>5, <2>1, <2>2, LegalStage DEF Done
<1>6. CASE s = 2 /\ k = 0
  <2>1. w = Entry(l, "prim", Good) /\ u = [t EXCEPT !.prim = Good] /\ u \in Tables
    BY <1>6, WriteFacts DEF Plan
  <2>2. t.prim = Spoilt /\ t.sec = Swapped
    BY <1>1, <1>6, LegalStage DEF Done, Legal
  <2> QED
    BY <1>1, <1>6, <2>1, <2>2 DEF Done, Legal, Tables
<1>7. CASE s = 2 /\ k = 1
  <2>1. w = Entry(l, "sec", Retired) /\ u = [t EXCEPT !.sec = Retired] /\ u \in Tables
    BY <1>7, WriteFacts DEF Plan
  <2>2. Legal(u) /\ u.prim = Good /\ u.sec.crc /\ ~u.sec.sig
    BY <1>1, <1>7, <2>1 DEF Done, Legal, Tables, Retired
  <2> QED
    BY <1>7, <2>1, <2>2, LegalStage DEF Done
<1>8. CASE s = 3 /\ k = 0
  <2>1. w = Entry(l, "sec", Spoilt) /\ u = [t EXCEPT !.sec = Spoilt] /\ u \in Tables
    BY <1>8, WriteFacts DEF Plan
  <2>2. t.prim = Good
    BY <1>1, <1>8, LegalStage DEF Done
  <2> QED
    BY <1>1, <1>8, <2>1, <2>2 DEF Done, Legal, Tables
<1>9. CASE s = 3 /\ k = 1
  <2>1. w = Entry(l, "sarr", "main") /\ u = [t EXCEPT !.sarr = "main"] /\ u \in Tables
    BY <1>9, WriteFacts DEF Plan
  <2> QED
    BY <1>1, <1>9, <2>1 DEF Done, Legal, Tables
<1>10. CASE s = 3 /\ k = 2
  <2>1. w = Entry(l, "sec", Good) /\ u = [t EXCEPT !.sec = Good] /\ u \in Tables
    BY <1>10, WriteFacts DEF Plan
  <2>2. u.prim = Good /\ u.sec = Good /\ u.parr = "main" /\ u.sarr = "main"
    BY <1>1, <1>10, <2>1 DEF Done, Tables
  <2>3. u = Pristine
    BY <2>1, <2>2 DEF Tables, Pristine
  <2> QED
    BY <1>10, <2>1, <2>2, <2>3 DEF Done, Legal
<1> QED
  BY <1>3, <1>4, <1>5, <1>6, <1>7, <1>8, <1>9, <1>10

(* The boot loader takes the backup copies exactly in the second stage. *)
LEMMA BootOrderOf ==
  ASSUME NEW t \in Tables, Legal(t)
  PROVE  BootOrder(t) = IF InternalStage(t) = UPDATE_BACKUP THEN "bak" ELSE "main"
<1>1. CASE t.prim = Good
  <2>1. Usable(t.prim, t.parr)
    BY <1>1 DEF Usable, Legal, Good
  <2>2. InternalStage(t) # 2
    BY <1>1, LegalStage DEF Good, Spoilt
  <2> QED
    BY <2>1, <2>2 DEF BootOrder, Legal, UPDATE_BACKUP
<1>2. CASE t.prim = Spoilt
  <2>1. ~Usable(t.prim, t.parr) /\ Usable(t.sec, t.sarr) /\ t.sarr = "bak"
    BY <1>2 DEF Usable, Legal, Good, Spoilt, Swapped
  <2>2. InternalStage(t) = 2
    BY <1>2, LegalStage
  <2> QED
    BY <2>1, <2>2 DEF BootOrder, UPDATE_BACKUP
<1> QED
  BY <1>1, <1>2 DEF Legal

-----------------------------------------------------------------------------
(* Type correctness.                                                        *)

CacheEntries == [lun : Luns, part : {"prim", "sec"}, val : Headers]
                  \cup [lun : Luns, part : {"sarr"}, val : Orders]

(* A header with its signature set or spoilt is a header.                    *)
LEMMA HeaderFacts ==
  ASSUME NEW h \in Headers
  PROVE  /\ gpt_set_state(h, TRUE) \in Headers /\ gpt_set_state(h, FALSE) \in Headers
         /\ [h EXCEPT !.crc = TRUE, !.entries = NewOrder] \in Headers
<1>1. NewOrder \in Orders
  BY DEF NewOrder, Orders
<1> QED
  BY <1>1 DEF gpt_set_state, Headers

(* A write to a table of the current LUN keeps view and cache typed.         *)
LEMMA WriteTyped ==
  ASSUME TypeOK, NEW part, NEW val, Write(part, val),
         \/ part \in {"prim", "sec"} /\ val \in Headers
         \/ part = "sarr" /\ val \in Orders
  PROVE  /\ view' \in [Luns -> Tables] /\ cache' \in Seq(CacheEntries)
         /\ UNCHANGED <<media, bootLun>>
         /\ view'[lun] = After(view[lun], Entry(lun, part, val))
         /\ \A l \in Luns : l # lun => view'[l] = view[l]
         /\ cache' = Append(cache, Entry(lun, part, val))
<1>1. lun \in Luns /\ view \in [Luns -> Tables] /\ cache \in Seq(CacheEntries)
  BY DEF TypeOK, CacheEntries
<1>2. Entry(lun, part, val) \in CacheEntries
  BY <1>1 DEF Entry, CacheEntries
<1>3. After(view[lun], Entry(lun, part, val)) \in Tables
  BY <1>1, WriteFacts
<1>4. /\ Entry(lun, part, val).part = part /\ Entry(lun, part, val).val = val
  BY DEF Entry
<1>5. view' = [view EXCEPT ![lun] = After(view[lun], Entry(lun, part, val))]
  BY <1>4 DEF Write, After
<1>6. cache' = Append(cache, Entry(lun, part, val))
  BY DEF Write, Entry
<1>7. view' \in [Luns -> Tables] /\ view'[lun] = After(view[lun], Entry(lun, part, val))
  BY <1>1, <1>3, <1>5
<1>8. \A l \in Luns : l # lun => view'[l] = view[l]
  BY <1>1, <1>5
<1>9. cache' \in Seq(CacheEntries)
  BY <1>1, <1>2, <1>6
<1> QED
  BY <1>6, <1>7, <1>8, <1>9 DEF Write

(* What the kernel writes back next. *)
LEMMA HeadTyped ==
  ASSUME TypeOK, cache # <<>>
  PROVE  /\ Head(cache) \in CacheEntries /\ Tail(cache) \in Seq(CacheEntries)
         /\ After(media[Head(cache).lun], Head(cache)) \in Tables
         /\ Head(cache).part = "sarr" =>
              [media[Head(cache).lun] EXCEPT ![Head(cache).part] = "torn"] \in Tables
<1>1. cache \in Seq(CacheEntries) /\ media \in [Luns -> Tables]
  BY DEF TypeOK, CacheEntries
<1>2. Head(cache) \in CacheEntries /\ Tail(cache) \in Seq(CacheEntries)
  BY <1>1
<1> DEFINE w == Head(cache)
<1>3. w.lun \in Luns /\ media[w.lun] \in Tables
  BY <1>1, <1>2 DEF CacheEntries
<1>4. w = Entry(w.lun, w.part, w.val)
  BY <1>2 DEF CacheEntries, Entry
<1>5. \/ w.part \in {"prim", "sec"} /\ w.val \in Headers
      \/ w.part = "sarr" /\ w.val \in Orders
  BY <1>2 DEF CacheEntries
<1> HIDE DEF w
<1>6. After(media[w.lun], Entry(w.lun, w.part, w.val)) \in Tables
  BY <1>3, <1>5, WriteFacts
<1>7. w.part = "sarr" => [media[w.lun] EXCEPT ![w.part] = "torn"] \in Tables
  BY <1>3 DEF Tables, Orders
<1>8. After(media[w.lun], w) \in Tables
  BY <1>4, <1>6, Zenon
<1> QED
  BY <1>2, <1>7, <1>8 DEF w

(* The initial state is typed. *)
THEOREM GptTypeInit == Init => TypeOK
<1> SUFFICES ASSUME Init PROVE TypeOK
  OBVIOUS
<1>1. Pristine \in Tables
  <2>1. Good \in Headers
    BY DEF Good, Headers, Orders
  <2> QED
    BY <2>1 DEF Pristine, Tables, Orders
<1>2. \A c \in BOOLEAN : [Pristine EXCEPT !.sec.crc = c] \in Tables
  BY <1>1 DEF Tables, Headers
<1>3. view \in [Luns -> Tables]
  BY <1>1, <1>2 DEF Init
<1>4. 1 \in Luns /\ crashes \in 0 .. MaxCrashes /\ lun = 1 /\ stage = 1 /\ next = 1
  BY GptAssumption DEF Luns, Init, UPDATE_MAIN
<1>5. media = view /\ cache = <<>> /\ bootLun \in Copies /\ device \in Devices
  BY DEF Init, Copies
<1>6. img \in [0 .. NumLuns -> [Copies -> {"old", "partial", "new"}]]
  BY DEF Init
<1>7. /\ pc = "idle" /\ left \subseteq 0 .. NumLuns
      /\ rc \in BOOLEAN /\ is_error \in BOOLEAN /\ ioErr \in BOOLEAN
  BY DEF Init
<1> QED
  BY <1>3, <1>4, <1>5, <1>6, <1>7 DEF TypeOK

(* The variables of the disks keep their types. *)
LEMMA DisksStep ==
  ASSUME TypeOK, [Next]_vars
  PROVE  /\ view' \in [Luns -> Tables] /\ media' \in [Luns -> Tables]
         /\ cache' \in Seq(CacheEntries) /\ bootLun' \in Copies
<1>1. /\ view \in [Luns -> Tables] /\ media \in [Luns -> Tables]
      /\ cache \in Seq(CacheEntries) /\ bootLun \in Copies /\ lun \in Luns
  BY DEF TypeOK, CacheEntries
<1>2. CASE UNCHANGED disks
  BY <1>1, <1>2 DEF disks
<1>3. ASSUME NEW part, NEW val, Write(part, val),
             \/ part \in {"prim", "sec"} /\ val \in Headers
             \/ part = "sarr" /\ val \in Orders
      PROVE  /\ view' \in [Luns -> Tables] /\ media' \in [Luns -> Tables]
             /\ cache' \in Seq(CacheEntries) /\ bootLun' \in Copies
  BY <1>1, <1>3, WriteTyped
<1>4. view[lun].sec \in Headers /\ view[lun].prim \in Headers /\ NewOrder \in Orders
  BY <1>1 DEF Tables, NewOrder, Orders
<1>5. CASE WriteHeader
  BY <1>2, <1>3, <1>4, <1>5, HeaderFacts DEF WriteHeader, LeaveIo
<1>6. CASE WriteArray
  BY <1>2, <1>3, <1>4, <1>6 DEF WriteArray, LeaveIo
<1>7. CASE Mark \/ SpoilSecondary
  BY <1>2, <1>3, <1>4, <1>7, HeaderFacts DEF Mark, SpoilSecondary, LeaveIo
<1>8. CASE SetXblBootPartition
  BY <1>1, <1>2, <1>8 DEF SetXblBootPartition, LeaveIo, Copies
<1>9. CASE WriteBack
  <2>1. media' = [media EXCEPT ![Head(cache).lun] = After(media[Head(cache).lun], Head(cache))]
    BY <1>9 DEF WriteBack, After
  <2> QED
    BY <1>1, <1>9, <2>1, HeadTyped DEF WriteBack
<1>10. CASE Crash
  <2>1. media' = media \/
        /\ cache # <<>> /\ Head(cache).part = "sarr"
        /\ media' = [media EXCEPT ![Head(cache).lun] =
                       [media[Head(cache).lun] EXCEPT ![Head(cache).part] = "torn"]]
    BY <1>10 DEF Crash
  <2>2. media' \in [Luns -> Tables]
    BY <1>1, <2>1, HeadTyped
  <2> QED
    BY <1>1, <1>10, <2>2 DEF Crash
<1>11. CASE Call \/ CheckState \/ NextLun \/ Return \/ (\E i \in 0 .. NumLuns : WriteImage(i))
  BY <1>2, <1>11 DEF Call, CheckState, NextLun, Return, WriteImage, LeaveIo
<1>12. CASE UNCHANGED vars
  BY <1>2, <1>12 DEF vars
<1> QED
  BY <1>5, <1>6, <1>7, <1>8, <1>9, <1>10, <1>11, <1>12 DEF Next, Step

(* Every action keeps the types of the variables. *)
THEOREM GptTypeStep == TypeOK /\ [Next]_vars => TypeOK'
<1> SUFFICES ASSUME TypeOK, [Next]_vars PROVE TypeOK'
  OBVIOUS
<1> USE DEF UPDATE_MAIN, UPDATE_BACKUP, UPDATE_FINALIZE
<1>1. /\ view' \in [Luns -> Tables] /\ media' \in [Luns -> Tables]
      /\ cache' \in Seq(CacheEntries) /\ bootLun' \in Copies
  BY DisksStep
<1>2. /\ pc' \in {"idle", "state", "xbl", "header", "array", "mark", "mark2", "exit"}
      /\ stage' \in 1 .. 3 /\ lun' \in Luns /\ device' \in Devices
      /\ rc' \in BOOLEAN /\ is_error' \in BOOLEAN /\ ioErr' \in BOOLEAN
      /\ next' \in 0 .. 4 /\ left' \subseteq 0 .. NumLuns /\ crashes' \in 0 .. MaxCrashes
  <2> USE GptAssumption DEF TypeOK, Luns
  <2>1. CASE UNCHANGED vars
    BY <2>1 DEF vars, call, upd
  <2>2. CASE Call
    <3>1. 1 \in Luns
      OBVIOUS
    <3> QED
      BY <2>2, <3>1 DEF Call, upd
  <2>3. CASE CheckState \/ SetXblBootPartition
    BY <2>3 DEF CheckState, SetXblBootPartition, Goto, Leave, LeaveIo, Elsewhere, upd
  <2>4. CASE WriteHeader \/ WriteArray \/ Mark \/ SpoilSecondary
    BY <2>4 DEF WriteHeader, WriteArray, Mark, SpoilSecondary, Goto, Leave, LeaveIo, Elsewhere, upd
  <2>5. CASE NextLun
    <3>1. lun' \in Luns
      BY <2>5 DEF NextLun, MoreLuns, AfterLun, Used
    <3> QED
      BY <2>5, <3>1 DEF NextLun, Failed, upd
  <2>6. CASE Return
    BY <2>6 DEF Return, Failed, Images, Used
  <2>7. CASE WriteBack \/ \E i \in 0 .. NumLuns : WriteImage(i)
    BY <2>7 DEF WriteBack, WriteImage, call, upd
  <2>8. CASE Crash
    <3>1. 1 \in Luns /\ crashes + 1 \in 0 .. MaxCrashes
      BY <2>8 DEF Crash
    <3>2. /\ pc' = "idle" /\ stage' = 1 /\ lun' = 1 /\ next' = 1 /\ left' = {}
          /\ crashes' = crashes + 1 /\ device' = device
      BY <2>8 DEF Crash
    <3>3. rc' \in BOOLEAN /\ is_error' \in BOOLEAN /\ ioErr' \in BOOLEAN
      BY <2>8 DEF Crash
    <3> QED
      BY <3>1, <3>2, <3>3
  <2> QED
    BY <2>1, <2>2, <2>3, <2>4, <2>5, <2>6, <2>7, <2>8 DEF Next, Step
<1>3. img' \in [0 .. NumLuns -> [Copies -> {"old", "partial", "new"}]]
  <2>1. img' = img \/ \E i \in 0 .. NumLuns, v \in {"partial", "new"} :
                          img' = [img EXCEPT ![i][Writing] = v]
    BY DEF Next, Step, Call, CheckState, SetXblBootPartition, WriteHeader, WriteArray, Mark,
       SpoilSecondary, NextLun, Return, WriteImage, WriteBack, Crash, Elsewhere, vars
  <2>2. Writing \in Copies
    BY DEF Writing, Copies
  <2> QED
    BY <2>1, <2>2 DEF TypeOK
<1> QED
  BY <1>1, <1>2, <1>3 DEF TypeOK, CacheEntries

(* Every reachable state is well typed, after every power failure too. *)
THEOREM GptTypeCorrect == Spec => []TypeOK
BY GptTypeInit, GptTypeStep, PTL DEF Spec

-----------------------------------------------------------------------------
(* The tables and the writes that are on their way.                         *)

(* The stages of the LUNs are numbers. *)
LEMMA StageTypes ==
  ASSUME TypeOK, TableInv
  PROVE  /\ stage \in 1 .. 3 /\ lun \in Luns /\ lun \in Used
         /\ \A l \in Luns : /\ M(l) \in 0 .. 3 /\ V(l) \in 0 .. 3
                           /\ media[l] \in Tables /\ view[l] \in Tables
         /\ Used \subseteq Luns
<1>1. stage \in 1 .. 3 /\ lun \in Luns /\ lun \in Used
  BY DEF TypeOK, TableInv
<1>2. \A l \in Luns : media[l] \in Tables /\ view[l] \in Tables
  BY DEF TypeOK
<1>3. \A l \in Luns : M(l) \in 0 .. 3 /\ V(l) \in 0 .. 3
  BY <1>2, LegalStage DEF TableInv, M, V
<1>4. Used \subseteq Luns
  BY GptAssumption DEF Used, Luns
<1> QED
  BY <1>1, <1>2, <1>3, <1>4

(* What k writes mean for the LUN on the device and as the next reader sees  *)
(* it.                                                                       *)
LEMMA ProgressStage ==
  ASSUME TypeOK, TableInv, NEW k \in 0 .. Steps(stage), Progress(k)
  PROVE  /\ Len(cache) \in 0 .. k
         /\ M(lun) \in 1 .. 3 /\ V(lun) \in 1 .. 3
         /\ stage = 1 => /\ V(lun) = IF k = 3 THEN 2 ELSE 1
                         /\ M(lun) = IF k - Len(cache) = 3 THEN 2 ELSE 1
         /\ stage = 2 => /\ V(lun) = IF k = 0 THEN 2 ELSE IF k = 1 THEN 1 ELSE 3
                         /\ M(lun) = IF k - Len(cache) = 0 THEN 2
                                     ELSE IF k - Len(cache) = 1 THEN 1 ELSE 3
         /\ stage = 3 => /\ V(lun) = IF k = 3 THEN 1 ELSE 3
                         /\ M(lun) = IF k - Len(cache) = 3 THEN 1 ELSE 3
                         /\ k = 3 => view[lun] = Pristine
                         /\ k - Len(cache) = 3 => media[lun] = Pristine
<1>1. cache \in Seq(CacheEntries)
  BY DEF TypeOK, CacheEntries
<1>2. Len(cache) \in 0 .. k /\ k - Len(cache) \in 0 .. Steps(stage)
  BY <1>1 DEF Progress, Steps
<1>3. stage \in 1 .. 3 /\ media[lun] \in Tables /\ view[lun] \in Tables
  BY StageTypes
<1>4. Done(view[lun], stage, k) /\ Done(media[lun], stage, k - Len(cache))
  BY DEF Progress
<1> QED
  BY <1>2, <1>3, <1>4, DoneStage DEF M, V

(* Writes are pending only within the plan of the current stage. *)
LEMMA Pending ==
  ASSUME TypeOK, TableInv, cache # <<>>
  PROVE  /\ pc \notin {"idle", "state"}
         /\ \E k \in 0 .. Steps(stage) : Progress(k)
         /\ pc # "exit" => pc \in {"array", "mark", "mark2"}
<1> USE DEF TableInv, InCall
<1>1. stage \in 1 .. 3 /\ cache \in Seq(CacheEntries) /\ Len(cache) # 0
  BY DEF TypeOK, CacheEntries
<1>2. ~Progress(0)
  BY <1>1 DEF Progress
<1>3. CASE pc = "array"
  BY <1>1, <1>3 DEF Steps, UPDATE_BACKUP
<1>4. CASE pc = "mark"
  BY <1>1, <1>4 DEF Steps, UPDATE_BACKUP
<1>5. CASE pc = "mark2"
  BY <1>1, <1>5 DEF Steps, UPDATE_BACKUP
<1>6. CASE pc = "exit"
  BY <1>6
<1> QED
  BY <1>2, <1>3, <1>4, <1>5, <1>6 DEF TypeOK

(* One more write of the plan. *)
LEMMA Issue ==
  ASSUME TypeOK, TableInv, NEW k \in 0 .. Steps(stage), k < Steps(stage), Progress(k),
         NEW part, NEW val, Write(part, val),
         \/ part \in {"prim", "sec"} /\ val \in Headers
         \/ part = "sarr" /\ val \in Orders,
         Entry(lun, part, val) = Plan(stage, lun)[k + 1],
         UNCHANGED <<stage, lun>>
  PROVE  /\ Progress(k + 1)' /\ cache' # <<>>
         /\ \A l \in Luns : l # lun => view'[l] = view[l]
         /\ UNCHANGED <<media, bootLun>>
<1>1. /\ view'[lun] = After(view[lun], Plan(stage, lun)[k + 1])
      /\ cache' = Append(cache, Plan(stage, lun)[k + 1])
      /\ \A l \in Luns : l # lun => view'[l] = view[l]
      /\ UNCHANGED <<media, bootLun>>
  BY WriteTyped
<1>2. view[lun] \in Tables /\ stage \in 1 .. 3 /\ lun \in Luns
  BY StageTypes
<1>3. Done(view'[lun], stage, k + 1)
  BY <1>1, <1>2, DoneNext DEF Progress
<1>4. cache \in Seq(CacheEntries) /\ Len(cache) \in 0 .. k
  BY ProgressStage DEF TypeOK, CacheEntries
<1> DEFINE w == Plan(stage, lun)[k + 1]
<1> HIDE DEF w
<1>5. cache' = Append(cache, w)
  BY <1>1 DEF w
<1>6. /\ Len(cache') = Len(cache) + 1 /\ cache' # <<>>
      /\ \A i \in 1 .. Len(cache) : cache'[i] = cache[i]
      /\ cache'[Len(cache) + 1] = w
  BY <1>4, <1>5
<1>7. k + 1 - Len(cache') = k - Len(cache)
  BY <1>4, <1>6
<1>8. Done(media'[lun], stage, k + 1 - Len(cache'))
  BY <1>1, <1>7 DEF Progress
<1>9. ASSUME NEW i \in 1 .. Len(cache')
      PROVE  cache'[i] = Plan(stage, lun)[k + 1 - Len(cache') + i]
  <2>1. CASE i \in 1 .. Len(cache)
    BY <1>6, <1>7, <2>1 DEF Progress
  <2>2. CASE i = Len(cache) + 1
    <3>1. k + 1 - Len(cache') + i = k + 1
      BY <1>4, <1>6, <2>2
    <3>2. cache'[i] = cache'[Len(cache) + 1]
      BY <2>2
    <3> QED
      BY <1>6, <3>1, <3>2 DEF w
  <2> QED
    BY <1>4, <1>6, <2>1, <2>2
<1>10. Len(cache') <= k + 1
  BY <1>4, <1>6
<1> QED
  BY <1>1, <1>3, <1>6, <1>8, <1>9, <1>10 DEF Progress

(* The device catches up by the oldest write. *)
LEMMA CatchUp ==
  ASSUME TypeOK, TableInv, NEW k \in 0 .. Steps(stage), Progress(k), cache # <<>>, WriteBack
  PROVE  /\ Progress(k)' /\ Len(cache') = Len(cache) - 1
         /\ \A l \in Luns : l # lun => media'[l] = media[l]
         /\ UNCHANGED <<view, bootLun, stage, lun>>
<1>1. stage \in 1 .. 3 /\ media[lun] \in Tables /\ lun \in Luns /\ cache \in Seq(CacheEntries)
      /\ media \in [Luns -> Tables]
  BY StageTypes DEF TypeOK, CacheEntries
<1> DEFINE j == k - Len(cache)
           w == Plan(stage, lun)[j + 1]
<1>2. Len(cache) \in 1 .. k /\ j \in 0 .. Steps(stage) /\ j < Steps(stage)
  BY <1>1, ProgressStage DEF Steps
<1>3. Head(cache) = w
  <2>1. Head(cache) = cache[1] /\ 1 \in 1 .. Len(cache)
    BY <1>1, <1>2
  <2>2. cache[1] = Plan(stage, lun)[k - Len(cache) + 1]
    BY <2>1 DEF Progress
  <2> QED
    BY <2>1, <2>2
<1>4. w.lun = lun
  BY <1>1, <1>2 DEF Plan, Steps, Entry, UPDATE_MAIN, UPDATE_BACKUP
<1>5. Done(After(media[lun], w), stage, j + 1)
  BY <1>1, <1>2, DoneNext DEF Progress
<1>6. media' = [media EXCEPT ![lun] = After(media[lun], w)]
  BY <1>3, <1>4 DEF WriteBack, After
<1>7. /\ cache' = Tail(cache) /\ UNCHANGED <<view, bootLun, stage, lun>>
  BY DEF WriteBack, call
<1>8. /\ Len(cache') = Len(cache) - 1
      /\ \A i \in 1 .. Len(cache') : cache'[i] = cache[i + 1]
  BY <1>1, <1>2, <1>7
<1>9. k - Len(cache') = j + 1 /\ Len(cache') <= k
  BY <1>2, <1>8
<1>10. media'[lun] = After(media[lun], w) /\ \A l \in Luns : l # lun => media'[l] = media[l]
  BY <1>1, <1>6
<1>11. ASSUME NEW i \in 1 .. Len(cache')
       PROVE  cache'[i] = Plan(stage, lun)[k - Len(cache') + i]
  <2>1. i + 1 \in 1 .. Len(cache) /\ k - Len(cache) + (i + 1) = k - Len(cache') + i
    BY <1>2, <1>8
  <2> QED
    BY <1>8, <2>1 DEF Progress
<1>12. Done(media'[lun], stage, k - Len(cache'))
  BY <1>5, <1>9, <1>10
<1> HIDE DEF j, w
<1> QED
  BY <1>7, <1>8, <1>9, <1>10, <1>11, <1>12 DEF Progress

(* A power failure within the write of an array changes no LUN's stage: the  *)
(* array being written is not one the loader depends on.                     *)
LEMMA CrashTables ==
  ASSUME TypeOK, TableInv, Crash
  PROVE  /\ view' = media' /\ cache' = <<>> /\ lun' = 1
         /\ \A l \in Luns : Legal(media'[l]) /\ M(l)' = M(l) /\ V(l)' = M(l)
<1> DEFINE w == Head(cache)
           torn == [media[w.lun] EXCEPT ![w.part] = "torn"]
<1>1. /\ view' = media' /\ cache' = <<>> /\ lun' = 1
      /\ \/ media' = media
         \/ cache # <<>> /\ w.part = "sarr" /\ media' = [media EXCEPT ![w.lun] = torn]
  BY DEF Crash
<1>2. CASE media' = media
  BY <1>1, <1>2 DEF TableInv, M, V
<1>3. CASE cache # <<>> /\ w.part = "sarr" /\ media' = [media EXCEPT ![w.lun] = torn]
  <2>1. PICK k \in 0 .. Steps(stage) : Progress(k)
    BY <1>3, Pending
  <2> DEFINE j == k - Len(cache)
  <2>2. stage \in 1 .. 3 /\ media[lun] \in Tables /\ lun \in Luns /\ cache \in Seq(CacheEntries)
        /\ media \in [Luns -> Tables]
    BY StageTypes DEF TypeOK, CacheEntries
  <2>3. Len(cache) \in 1 .. k /\ j \in 0 .. Steps(stage) /\ j < Steps(stage)
    BY <1>3, <2>1, <2>2, ProgressStage DEF Steps
  <2>4. w = Plan(stage, lun)[j + 1]
    <3>1. w = cache[1]
      BY <1>3, <2>2
    <3> QED
      BY <2>1, <2>3, <3>1 DEF Progress
  <2>5. w.lun = lun /\ stage # 2 /\ j = 1
    BY <1>3, <2>2, <2>3, <2>4
    DEF Plan, Steps, Entry, UPDATE_MAIN, UPDATE_BACKUP, UPDATE_FINALIZE
  <2>6. media[lun].prim = Good /\ Legal(media[lun])
    BY <2>1, <2>2, <2>5 DEF Progress, Done, UPDATE_MAIN, UPDATE_FINALIZE
  <2>7. torn = [media[lun] EXCEPT !.sarr = "torn"]
    BY <1>3, <2>5
  <2>8. /\ torn \in Tables /\ torn.prim = media[lun].prim /\ torn.sec = media[lun].sec
        /\ torn.parr = media[lun].parr
    BY <2>2, <2>7 DEF Tables, Orders
  <2>9. Legal(torn)
    BY <2>6, <2>8 DEF Legal
  <2>10. InternalStage(torn) = InternalStage(media[lun])
    BY <2>8 DEF InternalStage
  <2>11. media'[lun] = torn /\ \A l \in Luns : l # lun => media'[l] = media[l]
    BY <1>3, <2>2, <2>5
  <2> QED
    BY <1>1, <2>9, <2>10, <2>11 DEF M, V, TableInv
<1> QED
  BY <1>1, <1>2, <1>3

-----------------------------------------------------------------------------
(* The actions of prepare_partitions that write.                            *)

(* A header is its three fields. *)
LEMMA SameHeader ==
  ASSUME NEW g \in Headers, NEW h \in Headers,
         g.sig <=> h.sig, g.crc <=> h.crc, g.entries = h.entries
  PROVE  g = h
BY DEF Headers

(* The headers the code composes are those of the plan. *)
LEMMA SetFacts ==
  /\ gpt_set_state(Good, FALSE) = Spoilt /\ gpt_set_state(Spoilt, TRUE) = Good
  /\ gpt_set_state(Swapped, FALSE) = Retired
  /\ {Good, Spoilt, Swapped, Retired} \subseteq Headers
<1>1. Good \in Headers /\ Spoilt \in Headers /\ Swapped \in Headers /\ Retired \in Headers
  BY DEF Good, Spoilt, Swapped, Retired, Headers, Orders
<1> DEFINE Off(h) == [h EXCEPT !.sig = FALSE, !.crc = TRUE]
           On(h) == [h EXCEPT !.sig = TRUE, !.crc = TRUE]
<1>2. ASSUME NEW h \in Headers
      PROVE  /\ Off(h) \in Headers /\ On(h) \in Headers
             /\ ~Off(h).sig /\ On(h).sig /\ Off(h).crc /\ On(h).crc
             /\ Off(h).entries = h.entries /\ On(h).entries = h.entries
  BY DEF Headers
<1>3. /\ Good.sig /\ Good.crc /\ Good.entries = "main"
      /\ ~Spoilt.sig /\ Spoilt.crc /\ Spoilt.entries = "main"
      /\ Swapped.entries = "bak" /\ ~Retired.sig /\ Retired.crc /\ Retired.entries = "bak"
  BY DEF Good, Spoilt, Swapped, Retired
<1> HIDE DEF Off, On
<1>4. Off(Good) = Spoilt /\ On(Spoilt) = Good /\ Off(Swapped) = Retired
  BY <1>1, <1>2, <1>3, SameHeader
<1> QED
  BY <1>1, <1>4 DEF gpt_set_state, Off, On

(* A write that succeeds is the next one of the plan. *)
LEMMA WritesPlan ==
  ASSUME TypeOK, TableInv, WriteHeader \/ WriteArray \/ Mark \/ SpoilSecondary,
         ~(pc' = "exit" /\ rc')
  PROVE  \E k \in 0 .. Steps(stage) :
           /\ k < Steps(stage) /\ Progress(k) /\ Progress(k + 1)' /\ cache' # <<>>
           /\ \A l \in Luns : l # lun => view'[l] = view[l]
           /\ UNCHANGED <<media, bootLun, stage, lun, is_error, ioErr>>
           /\ pc \notin {"idle", "state", "exit"}
           /\ stage = 2 /\ pc' \in {"mark", "mark2"} => pc = "mark"
           /\ pc' \in {"array", "mark", "mark2", "exit"}
           /\ pc' = "array" => stage # 2 /\ k = 0
           /\ pc' = "mark" => stage # 2 /\ k = 1
           /\ pc' = "mark2" => stage = 2 /\ k = 0
           /\ pc' = "exit" => k + 1 = Steps(stage)
<1> USE DEF UPDATE_MAIN, UPDATE_BACKUP, UPDATE_FINALIZE
<1>1. stage \in 1 .. 3 /\ lun \in Luns /\ view[lun] \in Tables /\ Good # Spoilt
  BY StageTypes DEF Good, Spoilt
<1>0. ~LeaveIo
  BY DEF LeaveIo
<1>2. CASE WriteHeader
  <2>1. stage \in {1, 3} /\ Progress(0) /\ pc = "header"
    BY <1>1, <1>2 DEF WriteHeader, TableInv, InCall
  <2>2. Done(view[lun], stage, 0) /\ Legal(view[lun])
    BY <2>1 DEF Progress, Done
  <2>3. /\ view[lun].prim = Good /\ view[lun].parr = "main" /\ view[lun].sec \in Headers
        /\ view[lun].sec.sig <=> stage = 1
    BY <1>1, <2>1, <2>2, LegalStage DEF Done, Legal, Tables, Headers
  <2> DEFINE v == [view[lun].sec EXCEPT !.crc = TRUE, !.entries = NewOrder]
  <2>4. v = IF stage = 1 THEN Swapped ELSE Spoilt
    <3>1. /\ v \in Headers /\ v.crc /\ v.entries = NewOrder
          /\ v.sig <=> stage = 1
      BY <2>3 DEF Headers, NewOrder, Orders
    <3>2. /\ Swapped.sig /\ Swapped.crc /\ Swapped.entries = "bak"
          /\ ~Spoilt.sig /\ Spoilt.crc /\ Spoilt.entries = "main"
      BY DEF Swapped, Spoilt
    <3> QED
      BY <2>1, <3>1, <3>2, SetFacts, SameHeader DEF NewOrder
  <2>5. Write("sec", v) /\ Goto("array")
    BY <1>2, <2>3 DEF WriteHeader, Leave, LeaveIo, Good
  <2>6. v \in Headers /\ Entry(lun, "sec", v) = Plan(stage, lun)[0 + 1]
    BY <1>1, <2>1, <2>4, SetFacts DEF Plan
  <2> HIDE DEF v
  <2>7. UNCHANGED <<stage, lun, is_error, ioErr>> /\ pc' = "array" /\ 0 \in 0 .. Steps(stage)
        /\ 0 < Steps(stage)
    BY <1>1, <2>5 DEF Goto, Steps
  <2>8. Progress(0 + 1)' /\ cache' # <<>> /\ UNCHANGED <<media, bootLun>>
        /\ \A l \in Luns : l # lun => view'[l] = view[l]
    BY <2>1, <2>5, <2>6, <2>7, Issue
  <2> QED
    BY <2>1, <2>7, <2>8
<1>3. CASE WriteArray
  <2>1. stage \in {1, 3} /\ Progress(1) /\ pc = "array"
    BY <1>1, <1>3 DEF WriteArray, TableInv, InCall
  <2>2. Write("sarr", NewOrder) /\ Goto("mark")
    BY <1>3 DEF WriteArray, LeaveIo
  <2>3. NewOrder \in Orders /\ Entry(lun, "sarr", NewOrder) = Plan(stage, lun)[1 + 1]
    BY <2>1 DEF Plan, NewOrder, Orders
  <2>4. UNCHANGED <<stage, lun, is_error, ioErr>> /\ pc' = "mark" /\ 1 \in 0 .. Steps(stage)
        /\ 1 < Steps(stage)
    BY <1>1, <2>2 DEF Goto, Steps
  <2>5. Progress(1 + 1)' /\ cache' # <<>> /\ UNCHANGED <<media, bootLun>>
        /\ \A l \in Luns : l # lun => view'[l] = view[l]
    BY <2>1, <2>2, <2>3, <2>4, Issue
  <2> QED
    BY <2>1, <2>4, <2>5
<1>4. CASE Mark /\ stage \in {1, 3}
  <2> DEFINE part == IF stage = 1 THEN "prim" ELSE "sec"
             v == IF stage = 1 THEN Spoilt ELSE Good
  <2>1. Progress(2) /\ pc = "mark" /\ Steps(stage) = 3
    BY <1>4 DEF Mark, TableInv, InCall, Steps
  <2>2. /\ stage = 1 => view[lun].prim = Good
        /\ stage = 3 => view[lun].sec = Spoilt
    BY <2>1 DEF Progress, Done
  <2>3. Write(part, v) /\ Leave(FALSE)
    <3>1. CASE stage = 1
      <4>1. Write("prim", gpt_set_state(view[lun].prim, FALSE)) /\ Leave(FALSE)
        <5>1. stage # 2 /\ stage # 3
          BY <3>1
        <5> QED
          BY <1>0, <1>4, <5>1, Zenon DEF Mark
      <4> QED
        BY <2>2, <3>1, <4>1, SetFacts
    <3>2. CASE stage = 3
      <4>1. Write("sec", gpt_set_state(view[lun].sec, TRUE)) /\ Leave(FALSE)
        <5>1. stage # 1 /\ stage # 2
          BY <3>2
        <5> QED
          BY <1>0, <1>4, <5>1, Zenon DEF Mark
      <4>2. part = "sec" /\ v = Good /\ view[lun].sec = Spoilt
        BY <2>2, <3>2
      <4>3. v = gpt_set_state(view[lun].sec, TRUE)
        BY <4>2, SetFacts, Zenon
      <4> QED
        BY <4>1, <4>2, <4>3, Zenon
    <3> QED
      BY <1>4, <3>1, <3>2
  <2>4. part \in {"prim", "sec"} /\ v \in Headers /\ Entry(lun, part, v) = Plan(stage, lun)[2 + 1]
    BY <1>4, SetFacts DEF Plan
  <2> HIDE DEF part, v
  <2>5. UNCHANGED <<stage, lun, is_error, ioErr>> /\ pc' = "exit" /\ 2 \in 0 .. Steps(stage)
        /\ 2 < Steps(stage)
    BY <2>1, <2>3 DEF Leave
  <2>6. Progress(2 + 1)' /\ cache' # <<>> /\ UNCHANGED <<media, bootLun>>
        /\ \A l \in Luns : l # lun => view'[l] = view[l]
    BY <2>1, <2>3, <2>4, <2>5, Issue
  <2> QED
    BY <2>1, <2>5, <2>6
<1>5. CASE Mark /\ stage = 2
  <2>1. Progress(0) /\ pc = "mark" /\ Steps(stage) = 2
    BY <1>5 DEF Mark, TableInv, InCall, Steps
  <2>2. view[lun].prim = Spoilt
    BY <1>1, <1>5, <2>1, LegalStage DEF Progress, Done
  <2>3. Write("prim", Good) /\ Goto("mark2")
    <3>1. Write("prim", gpt_set_state(view[lun].prim, TRUE)) /\ Goto("mark2")
      <4>1. stage # 1 /\ stage # 3
        BY <1>5
      <4> QED
        BY <1>0, <1>5, <4>1, Zenon DEF Mark
    <3> QED
      BY <2>2, <3>1, SetFacts
  <2>4. Good \in Headers /\ Entry(lun, "prim", Good) = Plan(stage, lun)[0 + 1]
    BY <1>1, <1>5, WriteFacts DEF Plan
  <2>5. UNCHANGED <<stage, lun, is_error, ioErr>> /\ pc' = "mark2" /\ 0 \in 0 .. Steps(stage)
        /\ 0 < Steps(stage)
    BY <2>1, <2>3 DEF Goto
  <2>6. Progress(0 + 1)' /\ cache' # <<>> /\ UNCHANGED <<media, bootLun>>
        /\ \A l \in Luns : l # lun => view'[l] = view[l]
    BY <2>1, <2>3, <2>4, <2>5, Issue
  <2> QED
    BY <1>5, <2>1, <2>5, <2>6
<1>6. CASE SpoilSecondary
  <2>1. Progress(1) /\ pc = "mark2" /\ stage = 2 /\ Steps(stage) = 2
    BY <1>6 DEF SpoilSecondary, TableInv, InCall, Steps
  <2>2. view[lun].sec = Swapped
    BY <2>1 DEF Progress, Done
  <2>3. Write("sec", Retired) /\ Leave(FALSE)
    <3>1. Write("sec", gpt_set_state(view[lun].sec, FALSE)) /\ Leave(FALSE)
      BY <1>6 DEF SpoilSecondary, LeaveIo
    <3> QED
      BY <2>2, <3>1, SetFacts
  <2>4. Retired \in Headers /\ Entry(lun, "sec", Retired) = Plan(stage, lun)[1 + 1]
    BY <1>1, <2>1, WriteFacts DEF Plan
  <2>5. UNCHANGED <<stage, lun, is_error, ioErr>> /\ pc' = "exit" /\ 1 \in 0 .. Steps(stage)
        /\ 1 < Steps(stage)
    BY <2>1, <2>3 DEF Leave
  <2>6. Progress(1 + 1)' /\ cache' # <<>> /\ UNCHANGED <<media, bootLun>>
        /\ \A l \in Luns : l # lun => view'[l] = view[l]
    BY <2>1, <2>3, <2>4, <2>5, Issue
  <2> QED
    BY <2>1, <2>5, <2>6
<1> QED
  BY <1>1, <1>2, <1>3, <1>4, <1>5, <1>6

-----------------------------------------------------------------------------
(* The invariant, action by action.                                         *)

Rest == TableInv /\ Journey /\ ErrorInv /\ ImageInv /\ BootLunInv

(* A write of the plan moves the LUN the next reader sees. *)
LEMMA WriteStep ==
  ASSUME GInv, WriteHeader \/ WriteArray \/ Mark \/ SpoilSecondary, ~(pc' = "exit" /\ rc')
  PROVE  Rest'
<1> USE DEF UPDATE_MAIN, UPDATE_BACKUP, UPDATE_FINALIZE
<1>1. TypeOK /\ TableInv
  BY DEF GInv
<1>2. UNCHANGED <<device, img, next, left, crashes>>
  BY DEF WriteHeader, WriteArray, Mark, SpoilSecondary, Elsewhere, upd
<1>3. PICK k \in 0 .. Steps(stage) :
           /\ k < Steps(stage) /\ Progress(k) /\ Progress(k + 1)' /\ cache' # <<>>
           /\ \A l \in Luns : l # lun => view'[l] = view[l]
           /\ UNCHANGED <<media, bootLun, stage, lun, is_error, ioErr>>
           /\ pc \notin {"idle", "state", "exit"}
           /\ stage = 2 /\ pc' \in {"mark", "mark2"} => pc = "mark"
           /\ pc' \in {"array", "mark", "mark2", "exit"}
           /\ pc' = "array" => stage # 2 /\ k = 0
           /\ pc' = "mark" => stage # 2 /\ k = 1
           /\ pc' = "mark2" => stage = 2 /\ k = 0
           /\ pc' = "exit" => k + 1 = Steps(stage)
  BY <1>1, WritesPlan
<1>4. /\ stage \in 1 .. 3 /\ lun \in Used /\ Used \subseteq Luns /\ Used' = Used /\ Images' = Images
      /\ k + 1 \in 0 .. Steps(stage)
  BY <1>1, <1>2, <1>3, StageTypes DEF Used, Images, Steps
<1>5. view'[lun] \in Tables /\ Done(view'[lun], stage, k + 1)
  BY <1>1, <1>3, <1>4, GptTypeStep DEF Progress, TypeOK, Next, Step
<1>6. /\ V(lun)' \in 1 .. 3 /\ Legal(view'[lun])
      /\ stage = 1 => V(lun)' # 3
  BY <1>4, <1>5, <1>3, DoneStage DEF V
<1>7. /\ V(lun) \in 1 .. 3 /\ M(lun) \in 1 .. 3
      /\ stage = 1 => V(lun) = 1
      /\ stage = 2 => V(lun) # 3
  BY <1>1, <1>3, <1>4, ProgressStage DEF Steps
<1>8. \A l \in Luns : M(l)' = M(l) /\ (l # lun => V(l)' = V(l))
  BY <1>3 DEF M, V
<1>9. TableInv'
  <2>1. InCall'
    BY <1>3, <1>4 DEF InCall, Steps
  <2>2. \A l \in Luns : Legal(media'[l]) /\ Legal(view'[l]) /\ (M(l)' = 0 <=> V(l)' = 0)
    BY <1>1, <1>3, <1>6, <1>7, <1>8 DEF TableInv
  <2>3. \A l \in Luns : l # lun' \/ cache' = <<>> => M(l)' = V(l)'
    BY <1>1, <1>3, <1>8 DEF TableInv
  <2> QED
    BY <1>3, <1>4, <2>1, <2>2, <2>3 DEF TableInv
<1>10. Journey'
  <2>1. next' = stage' /\ pc' # "idle" /\ pc' # "state" /\ ioErr' = ioErr
    BY <1>2, <1>3 DEF GInv, Journey
  <2>2. ASSUME ~ioErr PROVE OtherLuns'
    <3>1. OtherLuns
      BY <1>3, <2>2 DEF GInv, Journey
    <3>2. \A l \in Used : l < lun \/ l > lun => l # lun
      BY <1>4, GptAssumption DEF Luns
    <3>3. \A l \in Used : l # lun => media'[l] = media[l] /\ view'[l] = view[l]
      BY <1>3, <1>4
    <3> QED
      BY <1>3, <1>4, <3>1, <3>2, <3>3 DEF OtherLuns, LunReached
  <2>3. ThisLun'
    BY <1>3, <2>1 DEF ThisLun
  <2> QED
    BY <2>1, <2>2, <2>3 DEF Journey
<1>11. Broken' <=> Broken
  BY <1>4, <1>8 DEF Broken
<1>12. ErrorInv'
  <2>1. left' = {}
    BY <1>2, <1>3 DEF GInv, ErrorInv
  <2>2. Error' <=> Error
    BY <1>3 DEF Error
  <2>3. \A l \in Used : l < lun => M(l)' = M(l) /\ V(l)' = V(l)
    BY <1>4, <1>8, GptAssumption DEF Luns
  <2> QED
    BY <1>2, <1>3, <1>4, <1>11, <2>1, <2>2, <2>3 DEF GInv, ErrorInv, Written
<1>13. ImageInv'
  <2>1. Broken' => left' = {} /\ \A i \in Images', c \in Copies : img'[i][c] = "old"
    BY <1>2, <1>4, <1>11 DEF GInv, ImageInv
  <2> SUFFICES ASSUME ~Broken PROVE ImageInv'
    BY <1>11, <2>1 DEF ImageInv
  <2>2. \A s, c : Written(s, c)' <=> Written(s, c)
    <3>1. UNCHANGED <<img, left, stage>> /\ Images' = Images
      BY <1>2, <1>3, <1>4
    <3> QED
      BY <3>1 DEF Written
  <2>3. (\E l \in Used' : 3 \in {M(l)', V(l)'}) => Written(0, "main")
    BY <1>3, <1>4, <1>6, <1>8 DEF GInv, ImageInv, Calling
  <2>4. stage \in {2, 3} => \A i \in Images : img[i]["main"] = "new"
    BY <1>3 DEF GInv, ImageInv, Calling, Written
  <2>5. stage = 3 => \A i \in Images : img[i]["bak"] = "new"
    BY <1>3 DEF GInv, ImageInv, Calling, Written
  <2>6. ~\E i \in Images : img[i]["main"] = "partial"
    BY <1>4, <1>7, <2>4 DEF GInv, ImageInv, LunsAt
  <2>7. ~\E i \in Images : img[i]["bak"] = "partial"
    BY <1>4, <1>7, <2>5 DEF GInv, ImageInv, LunsAt
  <2> QED
    BY <1>2, <1>3, <1>4, <2>1, <2>2, <2>3, <2>6, <2>7 DEF GInv, ImageInv, Calling
<1>14. BootLunInv'
  <2>1. \A l \in Used : M(l)' = M(l)
    BY <1>4, <1>8
  <2>2. ~Broken /\ stage = 2 => bootLun = "main"
    BY <1>3 DEF GInv, BootLunInv, WriteHeader, WriteArray, Mark, SpoilSecondary, TableInv, InCall
  <2> QED
    BY <1>2, <1>3, <1>4, <1>11, <2>1, <2>2 DEF GInv, BootLunInv, Calling
<1> QED
  BY <1>9, <1>10, <1>12, <1>13, <1>14 DEF Rest

(* A call that the device fails ends the LUN with an error. *)
LEMMA FailStep ==
  ASSUME GInv, LeaveIo, Elsewhere, pc \notin {"idle", "exit"}
  PROVE  Rest'
<1>1. /\ UNCHANGED <<view, media, cache, bootLun, stage, lun, is_error, device, img, next, left>>
      /\ pc' = "exit" /\ rc' /\ ioErr'
  BY DEF LeaveIo, Elsewhere, disks, upd
<1>2. /\ \A l : M(l)' = M(l) /\ V(l)' = V(l)
      /\ Used' = Used /\ Images' = Images /\ (Broken' <=> Broken)
      /\ \A k : Progress(k)' <=> Progress(k)
  BY <1>1 DEF M, V, Used, Images, Broken, Progress
<1>3. TableInv'
  <2>1. InCall'
    <3>1. cache = <<>> \/ \E k \in 0 .. Steps(stage) : Progress(k)
      BY Pending DEF GInv
    <3> QED
      BY <1>1, <1>2, <3>1 DEF InCall
  <2> QED
    BY <1>1, <1>2, <2>1 DEF GInv, TableInv
<1>4. Journey'
  BY <1>1 DEF GInv, Journey
<1>5. ErrorInv'
  BY <1>1, <1>2 DEF GInv, ErrorInv, Error
<1>6. ImageInv'
  BY <1>1, <1>2 DEF GInv, ImageInv, Calling, Written, LunsAt
<1>7. BootLunInv'
  BY <1>1, <1>2 DEF GInv, BootLunInv, Calling
<1> QED
  BY <1>3, <1>4, <1>5, <1>6, <1>7 DEF Rest

(* The tables decide whether the stage is granted. *)
LEMMA CheckStep ==
  ASSUME GInv, CheckState, ~LeaveIo
  PROVE  Rest'
<1> USE DEF UPDATE_MAIN, UPDATE_BACKUP, UPDATE_FINALIZE
<1>1. TypeOK /\ TableInv /\ pc = "state" /\ cache = <<>> /\ cache' = <<>>
  BY DEF GInv, CheckState, TableInv, InCall, disks, LeaveIo
<1>2. UNCHANGED <<view, media, cache, bootLun, stage, lun, is_error, ioErr, device, img, next, left>>
  BY DEF CheckState, Elsewhere, disks, upd, Goto, Leave
<1>3. \/ /\ stage = V(lun)
         /\ pc' = IF device = "ufs" /\ stage # 3 THEN "xbl"
                  ELSE IF stage = 2 THEN "mark" ELSE "header"
      \/ stage # V(lun) /\ pc' = "exit" /\ (rc' <=> V(lun) = 0 \/ stage # V(lun) - 1)
  BY DEF CheckState, V, Goto, Leave
<1>4. /\ \A l : M(l)' = M(l) /\ V(l)' = V(l)
      /\ Used' = Used /\ Images' = Images /\ (Broken' <=> Broken)
      /\ \A k : Progress(k)' <=> Progress(k)
      /\ \A s, l : LunReached(s, l)' <=> LunReached(s, l)
      /\ \A s, c : Written(s, c)' <=> Written(s, c)
  BY <1>2 DEF M, V, Used, Images, Broken, Progress, LunReached, Written
<1>5. stage \in 1 .. 3 /\ lun \in Luns /\ lun \in Used /\ M(lun) = V(lun) /\ V(lun) \in 0 .. 3
  BY <1>1, StageTypes DEF TableInv
<1>6. pc' \in {"xbl", "header", "mark", "exit"}
  BY <1>3
<1>7. TableInv'
  <2>1. InCall'
    <3>1. CASE stage = V(lun)
      <4>1. Progress(0)
        BY <1>1, <1>5, <3>1 DEF Progress, Done, M, V, TableInv
      <4> QED
        BY <1>2, <1>3, <1>4, <1>5, <3>1, <4>1 DEF InCall, Steps
    <3>2. CASE stage # V(lun)
      <4>1. ~rc' => V(lun) = stage + 1 /\ stage # 3
        BY <1>3, <1>5, <3>2
      <4> QED
        BY <1>1, <1>2, <1>3, <1>4, <1>5, <3>2, <4>1 DEF InCall
    <3> QED
      BY <3>1, <3>2
  <2> QED
    BY <1>1, <1>2, <1>4, <2>1 DEF TableInv
<1>8. ~ioErr => LunReached(stage, lun)
  BY <1>1 DEF GInv, Journey, ThisLun
<1>9. Journey'
  <2>1. ASSUME ~ioErr PROVE OtherLuns' /\ ThisLun'
    <3>1. OtherLuns'
      BY <1>1, <1>2, <1>4, <2>1 DEF GInv, Journey, OtherLuns
    <3>2. pc' = "exit" => LunReached(stage + 1, lun)
      <4>1. pc' = "exit" => stage # V(lun)
        BY <1>3
      <4> QED
        BY <1>5, <1>8, <2>1, <4>1 DEF LunReached, Reached, M, V
    <3> QED
      BY <1>1, <1>2, <1>4, <1>6, <3>1, <3>2 DEF ThisLun
  <2> QED
    BY <1>1, <1>2, <1>6, <2>1 DEF GInv, Journey
<1>10. left = {} /\ (Error <=> is_error)
  BY <1>1 DEF GInv, ErrorInv, Error
<1>11. ErrorInv'
  <2>1. ASSUME Error', ~ioErr, ~Broken PROVE stage = 1 /\ Written(0, "main")
    <3>1. CASE Error
      BY <1>1, <2>1, <3>1 DEF GInv, ErrorInv
    <3>2. CASE ~Error
      <4>1. stage # V(lun) /\ (V(lun) = 0 \/ stage # V(lun) - 1)
        BY <1>2, <1>3, <1>10, <2>1, <3>2 DEF Error
      <4>2. V(lun) # 0
        BY <1>5, <2>1 DEF Broken
      <4>3. stage = 1 /\ V(lun) = 3
        BY <1>5, <1>8, <2>1, <4>1, <4>2 DEF LunReached, Reached, V
      <4> QED
        BY <1>5, <2>1, <4>3 DEF GInv, ImageInv
    <3> QED
      BY <3>1, <3>2
  <2>2. Error => Error'
    BY <1>2, <1>10 DEF Error
  <2> QED
    BY <1>1, <1>2, <1>4, <1>10, <2>1, <2>2 DEF GInv, ErrorInv
<1>12. ImageInv'
  BY <1>1, <1>2, <1>4, <1>6 DEF GInv, ImageInv, Calling, LunsAt
<1>13. BootLunInv'
  <2>1. pc' = "xbl" => device = "ufs"
    BY <1>3
  <2>2. stage = 2 /\ pc' = "mark" => bootLun = "main"
    BY <1>3 DEF GInv, BootLunInv
  <2> QED
    BY <1>1, <1>2, <1>4, <1>6, <2>1, <2>2 DEF GInv, BootLunInv, Calling
<1> QED
  BY <1>7, <1>9, <1>11, <1>12, <1>13 DEF Rest

(* The boot LUN changes before the tables do. *)
LEMMA XblStep ==
  ASSUME GInv, SetXblBootPartition, ~LeaveIo
  PROVE  Rest'
<1> USE DEF UPDATE_MAIN, UPDATE_BACKUP, UPDATE_FINALIZE
<1>1. TypeOK /\ TableInv /\ pc = "xbl" /\ stage # 3 /\ Progress(0) /\ device = "ufs"
  BY DEF GInv, SetXblBootPartition, TableInv, InCall, BootLunInv
<1>2. /\ UNCHANGED <<view, media, cache, stage, lun, is_error, ioErr, rc, device, img, next, left>>
      /\ bootLun' = IF stage = 1 THEN "bak" ELSE "main"
      /\ pc' = IF stage = 1 THEN "header" ELSE "mark"
  BY DEF SetXblBootPartition, Elsewhere, upd, Goto
<1>3. /\ \A l : M(l)' = M(l) /\ V(l)' = V(l)
      /\ Used' = Used /\ Images' = Images /\ (Broken' <=> Broken)
      /\ \A k : Progress(k)' <=> Progress(k)
      /\ \A s, l : LunReached(s, l)' <=> LunReached(s, l)
      /\ \A s, c : Written(s, c)' <=> Written(s, c)
  BY <1>2 DEF M, V, Used, Images, Broken, Progress, LunReached, Written
<1>4. stage \in {1, 2} /\ lun \in Used /\ 0 \in 0 .. Steps(stage)
  BY <1>1, StageTypes DEF Steps
<1>5. stage = 1 => M(lun) = 1
  BY <1>1, <1>4, ProgressStage
<1>6. TableInv'
  <2>1. InCall'
    BY <1>1, <1>2, <1>3, <1>4 DEF InCall, Steps
  <2> QED
    BY <1>1, <1>2, <1>3, <2>1 DEF TableInv
<1>7. Journey'
  <2>1. ~ioErr => OtherLuns'
    BY <1>1, <1>2, <1>3 DEF GInv, Journey, OtherLuns
  <2>2. ThisLun'
    BY <1>2 DEF ThisLun
  <2> QED
    BY <1>1, <1>2, <2>1, <2>2 DEF GInv, Journey
<1>8. ErrorInv'
  BY <1>1, <1>2, <1>3 DEF GInv, ErrorInv, Error
<1>9. ImageInv'
  BY <1>1, <1>2, <1>3 DEF GInv, ImageInv, Calling, LunsAt
<1>10. BootLunInv'
  BY <1>1, <1>2, <1>3, <1>4, <1>5 DEF BootLunInv, Calling
<1> QED
  BY <1>6, <1>7, <1>8, <1>9, <1>10 DEF Rest

(* With no image left to write, a copy that is over is new. *)
LEMMA NothingLeft ==
  ASSUME left = {}, NEW s, NEW c
  PROVE  Written(s, c) <=> \A i \in Images : img[i][c] = "new"
BY DEF Written

(* The updater's call starts with the first LUN. *)
LEMMA CallStep ==
  ASSUME GInv, Call
  PROVE  Rest'
<1> USE DEF UPDATE_MAIN, UPDATE_BACKUP, UPDATE_FINALIZE
<1>1. TypeOK /\ TableInv /\ pc = "idle" /\ cache = <<>> /\ left = {} /\ next \in 1 .. 3
  BY DEF GInv, Call, TableInv, InCall
<1>2. /\ UNCHANGED <<view, media, cache, bootLun, device, img, next, left>>
      /\ pc' = "state" /\ stage' = next /\ lun' = 1 /\ ~rc' /\ ~is_error' /\ ~ioErr'
  BY DEF Call, disks, upd
<1>3. /\ \A l : M(l)' = M(l) /\ V(l)' = V(l)
      /\ Used' = Used /\ Images' = Images /\ (Broken' <=> Broken)
      /\ \A s, l : LunReached(s, l)' <=> LunReached(s, l)
      /\ \A s, c : Written(s, c)' <=> \A i \in Images : img[i][c] = "new"
  BY <1>1, <1>2 DEF M, V, Used, Images, Broken, LunReached, Written
<1>4. \A s, c : Written(s, c) <=> \A i \in Images : img[i][c] = "new"
  BY <1>1, NothingLeft
<1>5. 1 \in Used /\ Used \subseteq Luns /\ \A l \in Used : ~(l < 1)
  BY <1>1, StageTypes, GptAssumption DEF Used, Luns
<1>6. TableInv'
  <2>1. InCall'
    BY <1>1, <1>2 DEF InCall
  <2> QED
    BY <1>1, <1>2, <1>3, <1>5, <2>1 DEF TableInv
<1>7. Journey'
  <2>1. BetweenCalls
    BY <1>1 DEF GInv, Journey
  <2>2. OtherLuns' /\ ThisLun'
    BY <1>2, <1>3, <1>5, <2>1 DEF BetweenCalls, OtherLuns, ThisLun
  <2> QED
    BY <1>2, <2>2 DEF Journey
<1>8. ErrorInv'
  BY <1>1, <1>2, <1>3, <1>5 DEF ErrorInv, Error
<1>9. ImageInv'
  <2>1. Broken => \A i \in Images, c \in Copies : img[i][c] = "old"
    BY DEF GInv, ImageInv
  <2>2. ASSUME ~Broken
        PROVE  /\ (\E l \in Used : 3 \in {M(l), V(l)}) => Written(0, "main")'
               /\ next \in {2, 3} => Written(0, "main")'
               /\ next = 3 => Written(0, "bak")'
               /\ (\E i \in Images : img[i]["main"] = "partial") => LunsAt(2)'
               /\ (\E i \in Images : img[i]["bak"] = "partial") => LunsAt(3)'
    BY <1>1, <1>3, <1>4, <2>2 DEF GInv, ImageInv, LunsAt
  <2> QED
    BY <1>1, <1>2, <1>3, <2>1, <2>2 DEF ImageInv, Calling
<1>10. BootLunInv'
  BY <1>1, <1>2, <1>3 DEF GInv, BootLunInv, Calling
<1> QED
  BY <1>6, <1>7, <1>8, <1>9, <1>10 DEF Rest

(* What is known of a LUN whose writes are on the storage when it is left. *)
LEMMA LunEnds ==
  ASSUME GInv, pc = "exit", cache = <<>>
  PROVE  /\ ~ioErr => LunReached(stage + 1, lun)
         /\ ~rc /\ stage # UPDATE_FINALIZE => M(lun) = stage + 1 /\ V(lun) = stage + 1
<1> USE DEF UPDATE_MAIN, UPDATE_BACKUP, UPDATE_FINALIZE
<1>1. /\ TypeOK /\ TableInv /\ stage \in 1 .. 3 /\ lun \in Luns /\ M(lun) = V(lun)
      /\ Steps(stage) \in 0 .. Steps(stage)
  BY StageTypes DEF GInv, TableInv, Steps
<1>2. ASSUME Progress(Steps(stage))
      PROVE  /\ stage = 1 => M(lun) = 2
             /\ stage = 2 => M(lun) = 3
             /\ stage = 3 => view[lun] = Pristine /\ media[lun] = Pristine
  <2>1. Len(cache) = 0
    OBVIOUS
  <2> QED
    BY <1>1, <1>2, <2>1, ProgressStage DEF Steps
<1>3. ASSUME ~ioErr PROVE LunReached(stage + 1, lun)
  <2>1. CASE Progress(Steps(stage))
    BY <1>1, <1>2, <2>1 DEF LunReached, Reached, M, V
  <2>2. CASE ~Progress(Steps(stage))
    BY <1>3, <2>2 DEF GInv, Journey, ThisLun
  <2> QED
    BY <2>1, <2>2
<1>4. ASSUME ~rc, stage # 3 PROVE M(lun) = stage + 1
  <2>1. M(lun) = stage + 1 \/ Progress(Steps(stage))
    BY <1>4 DEF GInv, TableInv, InCall
  <2> QED
    BY <1>1, <1>2, <1>4, <2>1
<1> QED
  BY <1>1, <1>3, <1>4

(* The next LUN is prepared whatever became of this one. *)
LEMMA NextStep ==
  ASSUME GInv, NextLun
  PROVE  Rest'
<1> USE DEF UPDATE_MAIN, UPDATE_BACKUP, UPDATE_FINALIZE
<1>1. TypeOK /\ TableInv /\ pc = "exit" /\ cache = <<>> /\ left = {}
  BY DEF GInv, NextLun, ErrorInv
<1>2. /\ UNCHANGED <<view, media, cache, bootLun, device, img, next, left, stage, ioErr>>
      /\ pc' = "state" /\ lun' = lun + 1 /\ lun + 1 \in Used /\ ~rc'
      /\ is_error' <=> Error
  BY <1>1 DEF NextLun, disks, upd, AfterLun, MoreLuns, Failed, Error
<1>3. /\ \A l : M(l)' = M(l) /\ V(l)' = V(l)
      /\ Used' = Used /\ Images' = Images /\ (Broken' <=> Broken)
      /\ \A s, l : LunReached(s, l)' <=> LunReached(s, l)
      /\ \A s, c : Written(s, c)' <=> Written(s, c)
  BY <1>2 DEF M, V, Used, Images, Broken, LunReached, Written
<1>4. /\ lun \in Used /\ lun + 1 > lun
      /\ \A l \in Used : l < lun + 1 => l < lun \/ l = lun
      /\ \A l \in Used : l > lun + 1 => l > lun
  BY <1>1, StageTypes DEF Luns
<1>5. TableInv'
  <2>1. InCall'
    BY <1>1, <1>2 DEF InCall
  <2> QED
    BY <1>1, <1>2, <1>3, <2>1 DEF TableInv
<1>6. Journey'
  <2>1. ASSUME ~ioErr PROVE OtherLuns' /\ ThisLun'
    <3>1. LunReached(stage + 1, lun) /\ OtherLuns
      BY <1>1, <2>1, LunEnds DEF GInv, Journey
    <3>2. lun + 1 > lun
      BY <1>4
    <3> QED
      BY <1>2, <1>3, <1>4, <3>1, <3>2 DEF OtherLuns, ThisLun
  <2>2. next' = stage'
    BY <1>1, <1>2 DEF GInv, Journey
  <2> QED
    BY <1>2, <2>1, <2>2 DEF Journey
<1>7. Error' <=> Error
  BY <1>2 DEF Error
<1>8. ErrorInv'
  <2>1. ASSUME ~is_error', stage # 3, NEW l \in Used, l < lun'
        PROVE  M(l) = stage + 1 /\ V(l) = stage + 1
    <3>1. ~is_error /\ ~rc
      BY <1>1, <1>2, <2>1 DEF Error
    <3>2. CASE l = lun
      BY <1>1, <2>1, <3>1, <3>2, LunEnds
    <3>3. CASE l < lun
      BY <1>1, <2>1, <3>1, <3>3 DEF GInv, ErrorInv
    <3> QED
      BY <1>2, <1>4, <2>1, <3>2, <3>3
  <2>2. /\ ioErr => Error
        /\ Error /\ ~ioErr /\ ~Broken => stage = 1 /\ Written(0, "main")
    BY <1>1 DEF GInv, ErrorInv
  <2> QED
    BY <1>1, <1>2, <1>3, <1>7, <2>1, <2>2 DEF ErrorInv
<1>9. ImageInv'
  BY <1>1, <1>2, <1>3 DEF GInv, ImageInv, Calling, LunsAt
<1>10. BootLunInv'
  BY <1>1, <1>2, <1>3 DEF GInv, BootLunInv, Calling
<1> QED
  BY <1>5, <1>6, <1>8, <1>9, <1>10 DEF Rest

(* The updater learns of the result when every LUN was prepared. *)
LEMMA ReturnStep ==
  ASSUME GInv, Return
  PROVE  Rest'
<1> USE DEF UPDATE_MAIN, UPDATE_BACKUP, UPDATE_FINALIZE
<1>1. TypeOK /\ TableInv /\ pc = "exit" /\ cache = <<>> /\ left = {} /\ stage \in 1 .. 3
  BY DEF GInv, Return, ErrorInv, TypeOK
<1>2. /\ UNCHANGED <<view, media, cache, bootLun, device, img, stage, lun, ioErr>>
      /\ pc' = "idle" /\ (is_error' <=> Error)
      /\ next' = IF ioErr THEN 0 ELSE stage + 1
      /\ left' = IF Error \/ stage = 3 THEN {} ELSE Images
      /\ lun + 1 \notin Used
  BY <1>1 DEF Return, disks, MoreLuns, Failed, Error
<1>3. /\ \A l : M(l)' = M(l) /\ V(l)' = V(l)
      /\ Used' = Used /\ Images' = Images /\ (Broken' <=> Broken)
      /\ \A s, l : LunReached(s, l)' <=> LunReached(s, l)
  BY <1>2 DEF M, V, Used, Images, Broken, LunReached
<1>4. lun \in Used /\ \A l \in Used : l < lun \/ l = lun
  BY <1>1, <1>2, StageTypes, GptAssumption DEF Used, Luns
<1>5. TableInv'
  <2>1. InCall'
    BY <1>1, <1>2 DEF InCall
  <2> QED
    BY <1>1, <1>2, <1>3, <2>1 DEF TableInv
<1>6. ~ioErr => \A l \in Used : LunReached(stage + 1, l)
  BY <1>1, <1>4, LunEnds DEF GInv, Journey, OtherLuns
<1>7. Journey'
  <2>1. BetweenCalls'
    BY <1>1, <1>2, <1>3, <1>6 DEF BetweenCalls, LunReached, Reached
  <2> QED
    BY <1>2, <2>1 DEF Journey
<1>8. left' # {} => ~Error /\ ~ioErr /\ stage \in {1, 2} /\ LunsAt(stage + 1)
  <2>1. ASSUME ~Error, stage # 3, NEW l \in Used
        PROVE  M(l) = stage + 1 /\ V(l) = stage + 1
    <3>1. CASE l = lun
      BY <1>1, <2>1, <3>1, LunEnds DEF Error
    <3>2. CASE l < lun
      BY <1>1, <2>1, <3>2 DEF GInv, ErrorInv, Error
    <3> QED
      BY <1>4, <3>1, <3>2
  <2>2. ioErr => Error
    BY <1>1 DEF GInv, ErrorInv
  <2> QED
    BY <1>1, <1>2, <2>1, <2>2 DEF LunsAt
<1>9. ErrorInv'
  BY <1>2, <1>3, <1>8 DEF ErrorInv, LunsAt
<1>10. ImageInv'
  <2>1. \A s, c : Written(s, c) <=> \A i \in Images : img[i][c] = "new"
    BY <1>1, NothingLeft
  <2>2. ASSUME Broken
        PROVE  left' = {} /\ \A i \in Images, c \in Copies : img[i][c] = "old"
    BY <1>1, <1>8, <2>2 DEF GInv, ImageInv, Broken, LunsAt
  <2>3. ASSUME NEW s, NEW c, Written(0, c) PROVE Written(s, c)'
    BY <1>2, <1>3, <2>1, <2>3 DEF Written
  <2>4. ASSUME ~Broken, ~ioErr PROVE Written(1, "main")'
    <3>1. CASE stage = 1 /\ left' = Images
      BY <1>2, <1>3, <3>1 DEF Written
    <3>2. CASE stage = 1 /\ left' # Images
      <4>1. Error
        BY <1>2, <3>2
      <4> QED
        BY <1>1, <2>3, <2>4, <4>1 DEF GInv, ErrorInv
    <3>3. CASE stage # 1
      BY <1>1, <2>3, <2>4, <3>3 DEF GInv, ImageInv, Calling
    <3> QED
      BY <3>1, <3>2, <3>3
  <2>5. ASSUME ~Broken, ~ioErr, stage # 1 PROVE Written(2, "bak")'
    <3>1. CASE stage = 2
      <4>1. ~Error
        BY <1>1, <2>5, <3>1 DEF GInv, ErrorInv
      <4> QED
        BY <1>2, <1>3, <3>1, <4>1 DEF Written
    <3>2. CASE stage = 3
      BY <1>1, <2>3, <2>5, <3>2 DEF GInv, ImageInv, Calling
    <3> QED
      BY <1>1, <2>5, <3>1, <3>2
  <2>6. ASSUME ~Broken
        PROVE  /\ (\E l \in Used : 3 \in {M(l), V(l)}) => Written(0, "main")
               /\ (\E i \in Images : img[i]["main"] = "partial") => LunsAt(2)
               /\ (\E i \in Images : img[i]["bak"] = "partial") => LunsAt(3)
    BY <2>6 DEF GInv, ImageInv
  <2>7. ~ioErr \/ next' = 0
    BY <1>2
  <2>8. next' >= 3 => stage # 1
    BY <1>1, <1>2
  <2>9. \A s : LunsAt(s)' <=> LunsAt(s)
    BY <1>3 DEF LunsAt
  <2> QED
    BY <1>2, <1>3, <2>2, <2>3, <2>4, <2>5, <2>6, <2>7, <2>8, <2>9 DEF ImageInv, Calling
<1>11. BootLunInv'
  <2>1. ASSUME ~Broken, ~ioErr, stage # 1 PROVE bootLun = "main"
    <3>1. CASE stage = 2
      <4>1. \A l \in Used : M(l) = 3
        BY <1>6, <2>1, <3>1 DEF LunReached, Reached, Broken, M
      <4> QED
        BY <1>1, <2>1, <4>1 DEF GInv, BootLunInv, TypeOK, Copies
    <3>2. CASE stage = 3
      BY <1>1, <2>1, <3>2 DEF GInv, BootLunInv, Calling
    <3> QED
      BY <1>1, <2>1, <3>1, <3>2
  <2>2. next' >= 3 => stage # 1 /\ ~ioErr
    BY <1>1, <1>2
  <2> QED
    BY <1>1, <1>2, <1>3, <2>1, <2>2 DEF GInv, BootLunInv, Calling
<1> QED
  BY <1>5, <1>7, <1>9, <1>10, <1>11 DEF Rest

-----------------------------------------------------------------------------
(* The images, the kernel and the power.                                    *)

(* The updater writes the copies that do not boot. *)
LEMMA ImageStep ==
  ASSUME GInv, NEW i \in 0 .. NumLuns, WriteImage(i)
  PROVE  Rest'
<1> USE DEF UPDATE_MAIN, UPDATE_BACKUP, UPDATE_FINALIZE
<1>1. /\ TypeOK /\ TableInv /\ pc = "idle" /\ i \in left
      /\ stage \in {1, 2} /\ next = stage + 1 /\ LunsAt(stage + 1) /\ ~Broken
  BY DEF GInv, WriteImage, ErrorInv, ImageInv
<1>2. UNCHANGED <<view, media, cache, bootLun, device, pc, stage, lun, rc, is_error, ioErr, next>>
  BY DEF WriteImage, disks, call
<1>3. /\ \A l : M(l)' = M(l) /\ V(l)' = V(l)
      /\ Used' = Used /\ Images' = Images /\ ~Broken'
      /\ \A s, l : LunReached(s, l)' <=> LunReached(s, l)
      /\ \A s : LunsAt(s)' <=> LunsAt(s)
      /\ \A k : Progress(k)' <=> Progress(k)
  BY <1>1, <1>2 DEF M, V, Used, Images, Broken, LunReached, LunsAt, Progress
<1> DEFINE c == Writing
<1>4. /\ stage = 1 => c = "main"
      /\ stage = 2 => c = "bak"
      /\ left' \subseteq left
      /\ \A j \in Images, d \in Copies : d # c => img'[j][d] = img[j][d]
      /\ \A j \in Images : j # i => img'[j] = img[j] /\ (j \in left => j \in left')
      /\ i \in left' \/ img'[i][c] = "new"
  <2>1. /\ stage = 1 => c = "main"
        /\ stage = 2 => c = "bak"
    BY DEF Writing
  <2>2. img \in [0 .. NumLuns -> [Copies -> {"old", "partial", "new"}]] /\ Images \subseteq 0 .. NumLuns
    BY <1>1, StageTypes, GptAssumption DEF TypeOK, Images, Luns
  <2>3. c \in Copies
    BY <1>1, <2>1 DEF Copies
  <2>4. \/ img' = [img EXCEPT ![i][c] = "partial"] /\ left' = left
        \/ img' = [img EXCEPT ![i][c] = "new"] /\ left' = left \ {i}
    BY DEF WriteImage
  <2> HIDE DEF c
  <2> QED
    <3>1. \A j \in 0 .. NumLuns, d \in Copies : d # c => img'[j][d] = img[j][d]
      BY <2>2, <2>3, <2>4, ZenonT(60)
    <3>2. \A j \in 0 .. NumLuns : j # i => img'[j] = img[j]
      BY <2>2, <2>3, <2>4
    <3>3. i \in left' \/ img'[i][c] = "new"
      BY <1>1, <2>2, <2>3, <2>4, ZenonT(60)
    <3>4. left' \subseteq left /\ \A j : j # i /\ j \in left => j \in left'
      BY <2>4
    <3> QED
      BY <2>1, <2>2, <3>1, <3>2, <3>3, <3>4
<1> HIDE DEF c
<1>5. TableInv'
  <2>1. InCall'
    BY <1>1, <1>2 DEF InCall, TableInv
  <2> QED
    BY <1>1, <1>2, <1>3, <2>1 DEF TableInv
<1>6. Journey'
  BY <1>1, <1>2, <1>3 DEF GInv, Journey, BetweenCalls
<1>7. ErrorInv'
  BY <1>1, <1>2, <1>3 DEF ErrorInv
<1>8. ImageInv'
  <2>1. /\ (\E l \in Used : 3 \in {M(l), V(l)}) => Written(0, "main")
        /\ Written(1, "main")
        /\ next >= 3 => Written(2, "bak")
        /\ (\E j \in Images : img[j]["main"] = "partial") => LunsAt(2)
        /\ (\E j \in Images : img[j]["bak"] = "partial") => LunsAt(3)
    BY <1>1 DEF GInv, ImageInv
  <2>2. CASE stage = 1
    <3>1. c = "main" /\ \A j \in Images : img'[j]["bak"] = img[j]["bak"]
      BY <1>4, <2>2 DEF Copies
    <3>2. ~\E l \in Used : 3 \in {M(l), V(l)}
      BY <1>1, <2>2 DEF LunsAt
    <3>3. Written(1, "main")'
      BY <1>2, <1>3, <1>4, <2>1, <2>2, <3>1 DEF Written
    <3> QED
      BY <1>1, <1>2, <1>3, <2>1, <2>2, <3>1, <3>2, <3>3 DEF ImageInv, Calling
  <2>3. CASE stage = 2
    <3>1. c = "bak" /\ \A j \in Images : img'[j]["main"] = img[j]["main"]
      BY <1>4, <2>3 DEF Copies
    <3>2. Written(2, "bak")'
      BY <1>1, <1>2, <1>3, <1>4, <2>1, <2>3, <3>1 DEF Written
    <3>3. Written(0, "main")' /\ Written(1, "main")'
      BY <1>2, <1>3, <2>1, <2>3, <3>1 DEF Written
    <3> QED
      BY <1>1, <1>2, <1>3, <2>1, <2>3, <3>1, <3>2, <3>3 DEF ImageInv, Calling
  <2> QED
    BY <1>1, <2>2, <2>3
<1>9. BootLunInv'
  BY <1>1, <1>2, <1>3 DEF GInv, BootLunInv, Calling
<1> QED
  BY <1>5, <1>6, <1>7, <1>8, <1>9 DEF Rest

(* The device catches up with the plan of the current stage. *)
LEMMA BackStep ==
  ASSUME GInv, WriteBack
  PROVE  Rest'
<1> USE DEF UPDATE_MAIN, UPDATE_BACKUP, UPDATE_FINALIZE
<1>1. TypeOK /\ TableInv /\ cache # <<>> /\ stage \in 1 .. 3 /\ lun \in Luns /\ lun \in Used
      /\ Used \subseteq Luns
  BY StageTypes DEF GInv, WriteBack
<1>2. UNCHANGED <<view, bootLun, device, img, pc, stage, lun, rc, is_error, ioErr, next, left>>
  BY DEF WriteBack, call, upd
<1>3. PICK k \in 0 .. Steps(stage) : Progress(k)
  BY <1>1, Pending
<1>4. /\ pc \notin {"idle", "state"}
      /\ pc # "exit" => pc \in {"array", "mark", "mark2"}
  BY <1>1, Pending
<1>5. \A j \in 0 .. Steps(stage) : Progress(j) => Progress(j)'
  BY <1>1, CatchUp
<1>6. \A l \in Luns : l # lun => media'[l] = media[l]
  BY <1>1, <1>3, CatchUp
<1>7. TypeOK'
  BY <1>1, GptTypeStep DEF Next
<1>8. /\ Done(view'[lun], stage, k) /\ Done(media'[lun], stage, k - Len(cache'))
      /\ k - Len(cache') \in 0 .. Steps(stage) /\ Len(cache) \in 1 .. k
      /\ Len(cache') = Len(cache) - 1
      /\ media'[lun] \in Tables /\ view'[lun] \in Tables
  <2>1. Progress(k)' /\ Len(cache') = Len(cache) - 1
    BY <1>1, <1>3, CatchUp
  <2>2. cache' \in Seq(CacheEntries) /\ cache \in Seq(CacheEntries)
    BY <1>1, <1>7 DEF TypeOK, CacheEntries
  <2>3. media'[lun] \in Tables /\ view'[lun] \in Tables
    BY <1>1, <1>7 DEF TypeOK
  <2>4. Len(cache) \in 1 .. k
    BY <1>1, <1>3, <2>2, ProgressStage
  <2> QED
    BY <1>1, <1>2, <2>1, <2>3, <2>4 DEF Progress, Steps
<1>9. /\ Legal(media'[lun]) /\ Legal(view'[lun])
      /\ M(lun)' \in 1 .. 3 /\ V(lun)' \in 1 .. 3 /\ V(lun)' = V(lun)
      /\ cache' = <<>> => M(lun)' = V(lun)'
      /\ stage = 1 => M(lun)' # 3
  <2>1. cache' = <<>> => k - Len(cache') = k
    <3>1. cache' = <<>> => Len(cache') = 0
      OBVIOUS
    <3>2. k \in Nat
      BY <1>1 DEF Steps
    <3> QED
      BY <3>1, <3>2
  <2> QED
    BY <1>1, <1>2, <1>8, <2>1, DoneStage DEF M, V
<1>10. /\ M(lun) \in 1 .. 3 /\ V(lun) \in 1 .. 3
       /\ stage = 1 => M(lun) = 1
       /\ stage = 2 => M(lun) \in {1, 2}
  BY <1>1, <1>3, <1>8, ProgressStage DEF Steps
<1>11. \A l \in Luns : /\ V(l)' = V(l)
                       /\ l # lun => M(l)' = M(l)
  BY <1>2, <1>6 DEF M, V
<1>12. /\ Used' = Used /\ Images' = Images /\ (Broken' <=> Broken)
       /\ \A s, c : Written(s, c)' <=> Written(s, c)
  <2>1. Used' = Used /\ Images' = Images
    BY <1>2 DEF Used, Images
  <2>2. Broken' <=> Broken
    BY <1>1, <1>2, <1>9, <1>10, <1>11, <2>1 DEF Broken
  <2> QED
    BY <1>2, <2>1, <2>2 DEF Written
<1>13. TableInv'
  <2>1. InCall'
    <3>1. CASE pc = "exit"
      <4>1. \E j \in 0 .. Steps(stage) : Progress(j)' /\ (~rc => j = Steps(stage))
        BY <1>1, <1>5, <3>1 DEF TableInv, InCall
      <4> QED
        BY <1>2, <3>1, <4>1 DEF InCall
    <3>2. CASE pc \in {"array", "mark", "mark2"}
      <4>1. \A j \in 0 .. 2 : j <= Steps(stage) => j \in 0 .. Steps(stage)
        BY <1>1 DEF Steps
      <4> QED
        BY <1>1, <1>2, <1>5, <3>2, <4>1 DEF TableInv, InCall, Steps
    <3> QED
      BY <1>4, <3>1, <3>2
  <2>2. \A l \in Luns : Legal(media'[l]) /\ Legal(view'[l]) /\ (M(l)' = 0 <=> V(l)' = 0)
    BY <1>1, <1>2, <1>6, <1>9, <1>11 DEF TableInv
  <2>3. \A l \in Luns : l # lun' \/ cache' = <<>> => M(l)' = V(l)'
    BY <1>1, <1>2, <1>9, <1>11 DEF TableInv
  <2> QED
    BY <1>1, <1>2, <1>12, <2>1, <2>2, <2>3 DEF TableInv
<1>14. Journey'
  <2>1. ASSUME ~ioErr PROVE OtherLuns' /\ ThisLun'
    <3>1. OtherLuns /\ ThisLun
      BY <1>4, <2>1 DEF GInv, Journey
    <3>2. \A l \in Used : l < lun \/ l > lun => l # lun
      BY <1>1, GptAssumption DEF Luns
    <3>3. \A l \in Used : l # lun => media'[l] = media[l] /\ view'[l] = view[l]
      BY <1>1, <1>2, <1>6
    <3>4. OtherLuns'
      BY <1>2, <1>12, <3>1, <3>2, <3>3 DEF OtherLuns, LunReached
    <3>5. Steps(stage) \in 0 .. Steps(stage)
      BY DEF Steps
    <3>6. ThisLun'
      BY <1>1, <1>2, <1>4, <1>5, <3>1, <3>5 DEF ThisLun
    <3> QED
      BY <3>4, <3>6
  <2> QED
    BY <1>2, <1>4, <2>1 DEF GInv, Journey
<1>15. left = {}
  BY <1>4 DEF GInv, ErrorInv
<1>16. ErrorInv'
  <2>1. \A l \in Used : l < lun => M(l)' = M(l) /\ V(l)' = V(l)
    BY <1>1, <1>11, GptAssumption DEF Luns
  <2> QED
    BY <1>2, <1>4, <1>12, <1>15, <2>1 DEF GInv, ErrorInv, Error
<1>17. ImageInv'
  <2>1. Broken => \A i \in Images, c \in Copies : img[i][c] = "old"
    BY DEF GInv, ImageInv
  <2>2. ASSUME ~Broken
        PROVE  /\ stage # 1 => Written(0, "main")
               /\ stage = 3 => Written(0, "bak")
    BY <1>1, <1>4, <2>2 DEF GInv, ImageInv, Calling
  <2>3. ASSUME ~Broken, NEW l \in Used, 3 \in {M(l)', V(l)'}
        PROVE  Written(0, "main")
    <3>1. CASE stage # 1
      BY <2>2, <2>3, <3>1
    <3>2. CASE stage = 1
      <4>1. 3 \in {M(l), V(l)}
        BY <1>1, <1>2, <1>9, <1>11, <2>3, <3>2
      <4> QED
        BY <2>3, <4>1 DEF GInv, ImageInv
    <3> QED
      BY <3>1, <3>2
  <2>4. ASSUME ~Broken, NEW i \in Images
        PROVE  img[i]["main"] # "partial" /\ img[i]["bak"] # "partial"
    <3>1. /\ stage # 1 => img[i]["main"] = "new"
          /\ stage = 3 => img[i]["bak"] = "new"
      BY <1>15, <2>2, <2>4 DEF Written
    <3>2. /\ img[i]["main"] = "partial" => M(lun) = 2
          /\ img[i]["bak"] = "partial" => M(lun) = 3
      BY <1>1, <2>4 DEF GInv, ImageInv, LunsAt
    <3> QED
      BY <1>1, <1>10, <3>1, <3>2
  <2> QED
    BY <1>2, <1>4, <1>12, <1>15, <2>1, <2>2, <2>3, <2>4 DEF ImageInv, Calling
<1>18. BootLunInv'
  <2>1. ASSUME ~Broken, bootLun = "bak" PROVE \E l \in Used : M(l)' # 3
    <3>1. stage = 1
      BY <1>1, <1>4, <2>1 DEF GInv, BootLunInv, Calling
    <3> QED
      BY <1>1, <1>2, <1>9, <3>1
  <2>2. stage = 2 /\ ~Broken => bootLun = "main"
    BY <1>1 DEF GInv, BootLunInv
  <2> QED
    BY <1>2, <1>4, <1>12, <2>1, <2>2 DEF GInv, BootLunInv, Calling
<1> QED
  BY <1>13, <1>14, <1>16, <1>17, <1>18 DEF Rest

(* After a power failure the updater starts over on what the device holds. *)
LEMMA CrashStep ==
  ASSUME GInv, Crash
  PROVE  Rest'
<1> USE DEF UPDATE_MAIN, UPDATE_BACKUP, UPDATE_FINALIZE
<1>1. TypeOK /\ TableInv
  BY DEF GInv
<1>2. /\ view' = media' /\ cache' = <<>> /\ pc' = "idle" /\ stage' = 1 /\ lun' = 1
      /\ next' = 1 /\ left' = {} /\ UNCHANGED <<device, bootLun, img>>
  BY DEF Crash
<1>3. \A l \in Luns : Legal(media'[l]) /\ M(l)' = M(l) /\ V(l)' = M(l)
  BY <1>1, CrashTables
<1>4. 1 \in Used /\ Used \subseteq Luns /\ Used' = Used /\ Images' = Images
  BY <1>1, <1>2, StageTypes, GptAssumption DEF Used, Luns, Images
<1>5. Broken' <=> Broken
  BY <1>3, <1>4 DEF Broken
<1>6. TableInv'
  <2>1. InCall'
    BY <1>2 DEF InCall
  <2> QED
    BY <1>2, <1>3, <1>4, <2>1 DEF TableInv
<1>7. Journey'
  <2>1. BetweenCalls'
    BY <1>2 DEF BetweenCalls, LunReached, Reached
  <2> QED
    BY <1>2, <2>1 DEF Journey
<1>8. ErrorInv'
  BY <1>2 DEF ErrorInv
<1>9. ImageInv'
  <2>1. Written(0, "main") => Written(0, "main")'
    <3>1. stage # 0
      BY <1>1 DEF TypeOK
    <3> QED
      BY <1>2, <1>4, <3>1 DEF Written
  <2>2. \A s : LunsAt(s) => LunsAt(s)'
    BY <1>3, <1>4 DEF LunsAt
  <2>3. (\E l \in Used : 3 \in {M(l)', V(l)'}) => \E l \in Used : 3 \in {M(l), V(l)}
    BY <1>3, <1>4
  <2> QED
    BY <1>2, <1>4, <1>5, <2>1, <2>2, <2>3 DEF GInv, ImageInv, Calling
<1>10. BootLunInv'
  <2>1. \A l \in Used : M(l)' = M(l)
    BY <1>3, <1>4
  <2> QED
    BY <1>2, <1>4, <1>5, <2>1 DEF GInv, BootLunInv, Calling
<1> QED
  BY <1>6, <1>7, <1>8, <1>9, <1>10 DEF Rest

-----------------------------------------------------------------------------
(* The invariant and what follows from it.                                  *)

LEMMA GptInit == Init => GInv
<1> SUFFICES ASSUME Init PROVE GInv
  OBVIOUS
<1> USE DEF UPDATE_MAIN, UPDATE_BACKUP, UPDATE_FINALIZE
<1>1. TypeOK
  BY GptTypeInit
<1>2. /\ cache = <<>> /\ pc = "idle" /\ stage = 1 /\ lun = 1 /\ next = 1 /\ left = {}
      /\ bootLun = "main" /\ media = view
  BY DEF Init
<1>3. 1 \in Used /\ Used \subseteq Luns /\ Images \subseteq 0 .. NumLuns
  BY GptAssumption DEF Used, Luns, Images
<1>4. \A l \in Luns : media[l] \in Tables /\ media[l].prim = Good /\ media[l].parr = "main"
                      /\ media[l].sec.sig
  <2>1. PICK c \in BOOLEAN :
          view = [l \in Luns |-> IF l = 1 THEN [Pristine EXCEPT !.sec.crc = c] ELSE Pristine]
    BY DEF Init
  <2>2. Good \in Headers /\ Good.sig
    BY DEF Good, Headers, Orders
  <2>3. \A t \in {Pristine, [Pristine EXCEPT !.sec.crc = c]} :
          t.prim = Good /\ t.parr = "main" /\ t.sec.sig
    <3>1. /\ Pristine \in Tables /\ Pristine.prim = Good /\ Pristine.parr = "main"
          /\ Pristine.sec = Good
      BY <2>2 DEF Pristine, Tables, Orders
    <3>2. [Pristine EXCEPT !.sec.crc = c] = [Pristine EXCEPT !.sec = [Good EXCEPT !.crc = c]]
      BY <3>1
    <3>3. [Good EXCEPT !.crc = c].sig
      BY <2>2 DEF Headers
    <3> QED
      BY <2>2, <3>1, <3>2, <3>3 DEF Tables
  <2> QED
    BY <1>1, <1>2, <2>1, <2>3 DEF TypeOK
<1>5. \A l \in Luns : /\ Legal(media[l]) /\ Legal(view[l])
                      /\ M(l) = V(l) /\ M(l) \in {0, 1}
  <2> SUFFICES ASSUME NEW l \in Luns
               PROVE  Legal(media[l]) /\ M(l) \in {0, 1}
    BY <1>2 DEF M, V
  <2>1. Legal(media[l])
    BY <1>4 DEF Legal
  <2>2. InternalStage(media[l]) \in {0, 1}
    BY <1>4, <2>1, LegalStage
  <2> QED
    BY <2>1, <2>2 DEF M
<1>6. \A i \in Images, c \in Copies : img[i][c] = "old"
  BY <1>3 DEF Init
<1>7. TableInv
  BY <1>2, <1>3, <1>5 DEF TableInv, InCall
<1>8. Journey
  BY <1>2 DEF Journey, BetweenCalls, LunReached, Reached
<1>9. ErrorInv
  BY <1>2 DEF ErrorInv
<1>10. ImageInv
  <2>1. "main" \in Copies /\ "bak" \in Copies
    BY DEF Copies
  <2>2. ~\E l \in Used : 3 \in {M(l), V(l)}
    BY <1>3, <1>5
  <2> QED
    BY <1>2, <1>6, <2>1, <2>2 DEF ImageInv, Calling
<1>11. BootLunInv
  BY <1>2 DEF BootLunInv, Calling
<1> QED
  BY <1>1, <1>7, <1>8, <1>9, <1>10, <1>11 DEF GInv

(* Every action keeps the invariant. *)
LEMMA GptStep == GInv /\ [Next]_vars => GInv'
<1> SUFFICES ASSUME GInv, [Next]_vars PROVE Rest'
  BY GptTypeStep DEF GInv, Rest
<1>1. CASE LeaveIo /\ pc \notin {"idle", "exit"} /\ Elsewhere
  BY <1>1, FailStep
<1>2. CASE Call
  BY <1>2, CallStep
<1>3. CASE CheckState
  BY <1>1, <1>3, CheckStep DEF CheckState
<1>4. CASE SetXblBootPartition
  BY <1>1, <1>4, XblStep DEF SetXblBootPartition
<1>5. CASE WriteHeader \/ WriteArray \/ Mark \/ SpoilSecondary
  <2>1. CASE ~(pc' = "exit" /\ rc')
    BY <1>5, <2>1, WriteStep
  <2>2. CASE pc' = "exit" /\ rc' /\ ~LeaveIo
    <3>1. pc = "header" /\ view[lun].prim.entries # view[lun].parr
      BY <1>5, <2>2 DEF WriteHeader, WriteArray, Mark, SpoilSecondary, Goto, Leave
    <3>2. Legal(view[lun]) /\ Progress(0) /\ stage \in {1, 3} /\ view[lun] \in Tables
      BY <3>1, StageTypes DEF GInv, TableInv, InCall, UPDATE_BACKUP
    <3>3. view[lun].prim = Good
      BY <3>2, LegalStage DEF Progress, Done, UPDATE_MAIN, UPDATE_FINALIZE, UPDATE_BACKUP
    <3> QED
      BY <3>1, <3>2, <3>3 DEF Legal, Good
  <2> QED
    BY <1>1, <1>5, <2>1, <2>2 DEF WriteHeader, WriteArray, Mark, SpoilSecondary
<1>6. CASE NextLun
  BY <1>6, NextStep
<1>7. CASE Return
  BY <1>7, ReturnStep
<1>8. ASSUME NEW i \in 0 .. NumLuns, WriteImage(i) PROVE Rest'
  BY <1>8, ImageStep
<1>9. CASE WriteBack
  BY <1>9, BackStep
<1>10. CASE Crash
  BY <1>10, CrashStep
<1>11. CASE UNCHANGED vars
  <2>1. /\ UNCHANGED <<device, view, media, cache, bootLun, img, pc, stage, lun, rc, is_error,
                       ioErr, next, left>>
    BY <1>11 DEF vars, disks, call, upd
  <2>2. TableInv'
    BY <2>1 DEF GInv, TableInv, InCall, Progress, M, V, Used
  <2>3. Journey'
    BY <2>1 DEF GInv, Journey, BetweenCalls, OtherLuns, ThisLun, Progress, LunReached, Used
  <2>4. ErrorInv' /\ ImageInv' /\ BootLunInv'
    BY <2>1 DEF GInv, ErrorInv, ImageInv, BootLunInv, Error, Calling, Written, LunsAt, Broken,
       M, V, Used, Images
  <2> QED
    BY <2>2, <2>3, <2>4 DEF Rest
<1> QED
  BY <1>2, <1>3, <1>4, <1>5, <1>6, <1>7, <1>8, <1>9, <1>10, <1>11 DEF Next, Step

(* The tables, the updater and the images agree after every step, whichever  *)
(* of the steps the power fails at.                                          *)
THEOREM GptInvariance == Spec => []GInv
BY GptInit, GptStep, PTL DEF Spec

(* The writes of a LUN and the images the loader depends on. *)
LEMMA IntactOf == GInv => BootsIntact
<1> SUFFICES ASSUME GInv, NEW l \in Used
             PROVE  BootOrder(media[l]) \in Copies /\ img[l][BootOrder(media[l])] # "partial"
  BY DEF BootsIntact, Bootable
<1>1. l \in Luns /\ l \in Images /\ media[l] \in Tables /\ Legal(media[l])
  BY StageTypes DEF GInv, TableInv, Images
<1>2. BootOrder(media[l]) = IF M(l) = 2 THEN "bak" ELSE "main"
  BY <1>1, BootOrderOf DEF M, UPDATE_BACKUP
<1>3. img[l]["main"] = "partial" => M(l) = 2
  BY <1>1 DEF GInv, ImageInv, LunsAt, Copies, UPDATE_BACKUP
<1>4. img[l]["bak"] = "partial" => M(l) = 3
  BY <1>1 DEF GInv, ImageInv, LunsAt, Copies, UPDATE_FINALIZE
<1> QED
  BY <1>2, <1>3, <1>4 DEF Copies

(* Whenever the power fails, on any number of LUNs, each of them boots a     *)
(* complete copy of its images.                                              *)
THEOREM BootsIntactThm == Spec => []BootsIntact
BY GptInvariance, IntactOf, PTL

LEMMA BesideOf == GInv => WritesBesideBoot
<1> SUFFICES ASSUME GInv, NEW l \in Used \cap left, NEW t \in {media[l], view[l]}
             PROVE  BootOrder(t) # Writing
  BY DEF WritesBesideBoot
<1>1. l \in Luns /\ t \in Tables /\ Legal(t)
  BY StageTypes DEF GInv, TableInv
<1>2. stage \in {1, 2} /\ InternalStage(t) = stage + 1
  BY DEF GInv, ErrorInv, LunsAt, M, V, UPDATE_MAIN, UPDATE_BACKUP
<1> QED
  BY <1>1, <1>2, BootOrderOf DEF Writing, UPDATE_MAIN, UPDATE_BACKUP

(* While the updater writes an image, neither the table on the device nor    *)
(* the one that will replace it lets the loader take that copy.              *)
THEOREM WritesBesideBootThm == Spec => []WritesBesideBoot
BY GptInvariance, BesideOf, PTL

LEMMA CleanOf == GInv => FinishedClean
<1> SUFFICES ASSUME GInv, next = 4, \A l \in Used : gpt_get_state(media[l].sec) # "BAD_CRC"
             PROVE  /\ bootLun = "main"
                    /\ \A l \in Used : media[l] = Pristine
                    /\ \A i \in Images : img[i] = [c \in Copies |-> "new"]
  BY DEF FinishedClean
<1> USE DEF UPDATE_MAIN, UPDATE_BACKUP, UPDATE_FINALIZE
<1>1. TypeOK /\ TableInv /\ stage \in 1 .. 3 /\ Used \subseteq Luns
  BY StageTypes DEF GInv
<1>2. pc = "idle" /\ left = {}
  <2>1. pc = "idle"
    BY <1>1 DEF GInv, Journey
  <2> QED
    BY <1>1, <2>1 DEF GInv, ErrorInv
<1>3. ~Broken
  <2> SUFFICES ASSUME NEW l \in Used PROVE M(l) # 0
    BY DEF Broken
  <2>1. media[l] \in Tables /\ Legal(media[l])
    BY <1>1, StageTypes DEF TableInv
  <2>2. media[l].sec.crc
    BY DEF gpt_get_state
  <2> QED
    BY <2>1, <2>2, LegalStage DEF M
<1>4. \A l \in Used : media[l] = Pristine
  BY <1>2, <1>3 DEF GInv, Journey, BetweenCalls, LunReached, Reached, Broken, M
<1>5. bootLun = "main"
  BY <1>2, <1>3 DEF GInv, BootLunInv
<1>6. \A i \in Images : img[i]["main"] = "new" /\ img[i]["bak"] = "new"
  BY <1>2, <1>3, NothingLeft DEF GInv, ImageInv
<1>7. \A i \in Images : img[i] = [c \in Copies |-> "new"]
  <2>1. Images \subseteq 0 .. NumLuns
    BY <1>1, GptAssumption DEF Images, Luns
  <2> QED
    BY <1>1, <1>6, <2>1 DEF TypeOK, Copies
<1> QED
  BY <1>4, <1>5, <1>7

(* An update that went through its stages without a device error leaves      *)
(* every table pristine and every copy new, whatever was repeated before.    *)
THEOREM FinishedCleanThm == Spec => []FinishedClean
BY GptInvariance, CleanOf, PTL
=============================================================================
