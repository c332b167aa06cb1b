----------------------------- MODULE ApPsProofs -----------------------------
(***************************************************************************)
(* Theorems about power save in access-point mode, for any number of       *)
(* stations, frames and buffers.  On one CPU and on several the TIM bits   *)
(* that are lit reach the air and the queues and counters keep their       *)
(* types.  On one CPU nothing is left behind for a station that counts as  *)
(* awake, what is parked is announced, and the frames keep their order.    *)
(***************************************************************************)
EXTENDS ApPs, FiniteSetTheorems, SequenceTheorems, TLAPS

Cmds == {"beacon", "bmc", "hiq"}

Has(q, c) == \E i \in DOMAIN q : q[i] = c
BeaconQueued == Has(cmds, "beacon")

(* The types that the command queue depends on.                            *)
QueueTypes ==
  /\ cmds \in Seq(Cmds) /\ tim_bitmap \subseteq Stas \cup {Bmc}
  /\ bmc_pending \in Nat /\ bmc_q \in Nat

(* The element of the BSS description has every lit bit, also when ap_free_*)
(* sta rewrites it without a beacon; what has not been sent yet is queued. *)
TimInv ==
  \A s \in Stas \cap tim_bitmap : s \in bcnTim /\ (s \in airTim \/ BeaconQueued)

-----------------------------------------------------------------------------
(* Sequences of commands.                                                  *)

LEMMA Concat ==
  ASSUME NEW s \in Seq(Cmds), NEW t \in Seq(Cmds)
  PROVE  /\ s \o t \in Seq(Cmds)
         /\ \A c : Has(s, c) \/ Has(t, c) => Has(s \o t, c)
<1>1. /\ s \o t \in Seq(Cmds) /\ Len(s \o t) = Len(s) + Len(t) /\ Len(s) \in Nat /\ Len(t) \in Nat
      /\ DOMAIN s = 1..Len(s) /\ DOMAIN t = 1..Len(t) /\ DOMAIN (s \o t) = 1..(Len(s) + Len(t))
  OBVIOUS
<1>2. ASSUME NEW i \in DOMAIN s PROVE i \in DOMAIN (s \o t) /\ (s \o t)[i] = s[i]
  BY <1>1
<1>3. ASSUME NEW i \in DOMAIN t
      PROVE  Len(s) + i \in DOMAIN (s \o t) /\ (s \o t)[Len(s) + i] = t[i]
  BY <1>1
<1> QED
  BY <1>1, <1>2, <1>3, Zenon DEF Has

LEMMA Front ==
  ASSUME NEW s \in Seq(Cmds), s # <<>>
  PROVE  /\ Head(s) \in Cmds /\ Tail(s) \in Seq(Cmds)
         /\ \A c : c # Head(s) /\ Has(s, c) => Has(Tail(s), c)
<1>1. /\ Head(s) \in Cmds /\ Head(s) = s[1] /\ Tail(s) \in Seq(Cmds) /\ Len(s) \in Nat \ {0}
      /\ Len(Tail(s)) = Len(s) - 1 /\ DOMAIN s = 1..Len(s) /\ DOMAIN Tail(s) = 1..(Len(s) - 1)
      /\ \A i \in 1..(Len(s) - 1) : Tail(s)[i] = s[i + 1]
  OBVIOUS
<1>2. ASSUME NEW c, c # Head(s), NEW i \in DOMAIN s, s[i] = c
      PROVE  \E j \in DOMAIN Tail(s) : Tail(s)[j] = c
  <2>1. i # 1
    BY <1>1, <1>2
  <2>2. i - 1 \in 1..(Len(s) - 1) /\ (i - 1) + 1 = i
    BY <1>1, <2>1
  <2>3. Tail(s)[i - 1] = c
    BY <1>1, <1>2, <2>2
  <2> QED
    BY <1>1, <2>2, <2>3
<1> QED
  BY <1>1, <1>2, Zenon DEF Has

LEMMA Repeated ==
  ASSUME NEW n \in Int, NEW c \in Cmds
  PROVE  [i \in 1..n |-> c] \in Seq(Cmds)
<1>1. CASE n \in Nat
  BY <1>1
<1>2. CASE n \notin Nat
  <2>1. 1..n = 1..0
    BY <1>2
  <2>2. [i \in 1..0 |-> c] \in Seq(Cmds)
    OBVIOUS
  <2> QED
    BY <2>1, <2>2, Zenon
<1> QED
  BY <1>1, <1>2

LEMMA BmcCmdsType ==
  ASSUME NEW n \in Nat
  PROVE  BmcCmds(n) \in Seq(Cmds)
<1>1. CASE Bmc \in tim_bitmap
  BY <1>1, Repeated DEF BmcCmds, Cmds
<1>2. CASE Bmc \notin tim_bitmap
  <2>1. n - 1 \in Int
    OBVIOUS
  <2> QED
    BY <1>2, <2>1, Repeated DEF BmcCmds, Cmds
<1> QED
  BY <1>1, <1>2

(* _update_beacon rewrites the element and queues the beacon, or is not    *)
(* called because no bit was lit.                                          *)
LEMMA Updated ==
  ASSUME QueueTypes, TimInv, NEW more \in Seq(Cmds), airTim' = airTim,
         \/ /\ bcnTim' = tim_bitmap'
            /\ cmds' = cmds \o <<"beacon">> \o more
         \/ /\ Stas \cap tim_bitmap' \subseteq tim_bitmap /\ bcnTim' = bcnTim
            /\ cmds' = cmds \o <<>> \o more
  PROVE  cmds' \in Seq(Cmds) /\ TimInv'
<1>0. cmds \in Seq(Cmds)
  BY DEF QueueTypes
<1>1. CASE bcnTim' = tim_bitmap' /\ cmds' = cmds \o <<"beacon">> \o more
  <2>1. <<"beacon">> \in Seq(Cmds) /\ Has(<<"beacon">>, "beacon")
    BY DEF Cmds, Has
  <2>2. PICK a : a = cmds \o <<"beacon">>
    OBVIOUS
  <2>3. a \in Seq(Cmds) /\ Has(a, "beacon")
    BY <1>0, <2>1, <2>2, Concat
  <2>4. PICK b : b = a \o more
    OBVIOUS
  <2>5. b \in Seq(Cmds) /\ Has(b, "beacon")
    BY <2>3, <2>4, Concat
  <2>6. cmds' = b
    BY <1>1, <2>2, <2>4, Zenon
  <2>7. cmds' \in Seq(Cmds) /\ BeaconQueued'
    BY <2>5, <2>6, Zenon DEF BeaconQueued
  <2> QED
    BY <1>1, <2>7 DEF TimInv
<1>2. CASE /\ Stas \cap tim_bitmap' \subseteq tim_bitmap /\ bcnTim' = bcnTim
           /\ cmds' = cmds \o <<>> \o more
  <2>1. cmds \o <<>> = cmds
    BY <1>0
  <2>2. PICK b : b = cmds \o more
    OBVIOUS
  <2>3. b \in Seq(Cmds) /\ (BeaconQueued => Has(b, "beacon"))
    BY <1>0, <2>2, Concat DEF BeaconQueued
  <2>4. cmds' = b
    BY <1>2, <2>1, <2>2, Zenon
  <2>5. cmds' \in Seq(Cmds) /\ (BeaconQueued => BeaconQueued')
    BY <2>3, <2>4, Zenon DEF BeaconQueued
  <2> QED
    BY <1>2, <2>5 DEF TimInv
<1> QED
  BY <1>1, <1>2

(* The same with a condition, as the actions call it.                      *)
LEMMA UpdatedIf ==
  ASSUME QueueTypes, TimInv, NEW more \in Seq(Cmds), airTim' = airTim, NEW u \in BOOLEAN,
         bcnTim' = IF u THEN tim_bitmap' ELSE bcnTim,
         cmds' = cmds \o (IF u THEN <<"beacon">> ELSE <<>>) \o more,
         ~u => Stas \cap tim_bitmap' \subseteq tim_bitmap
  PROVE  cmds' \in Seq(Cmds) /\ TimInv'
<1>1. CASE u
  BY <1>1, Updated
<1>2. CASE ~u
  BY <1>2, Updated
<1> QED
  BY <1>1, <1>2

LEMMA EmptyMore == <<>> \in Seq(Cmds)
OBVIOUS

(* Steps that neither light a bit nor touch the element or the beacon.     *)
LEMMA Quiet ==
  ASSUME TimInv, Stas \cap tim_bitmap' \subseteq tim_bitmap,
         bcnTim' = bcnTim, airTim' = airTim, BeaconQueued => BeaconQueued'
  PROVE  TimInv'
BY DEF TimInv

-----------------------------------------------------------------------------
(* The transmit entry.                                                     *)

LEMMA XmitStep ==
  ASSUME QueueTypes, TimInv, NEW s \in Stas, NEW a \in ACs, rtw_xmit(s, a)
  PROVE  QueueTypes' /\ TimInv'
<1>0. airTim' = airTim /\ bmc_pending' = bmc_pending /\ bmc_q' = bmc_q
  BY DEF rtw_xmit, bmcVars
<1>1. CASE Parks(s)
  <2>1. PICK u \in BOOLEAN : u <=> (tim_bitmap' # tim_bitmap)
    OBVIOUS
  <2>2. /\ tim_bitmap' = tim_bitmap \cup {x \in {s} : Announced(s, a)}
        /\ bcnTim' = IF u THEN tim_bitmap' ELSE bcnTim
        /\ cmds' = cmds \o (IF u THEN <<"beacon">> ELSE <<>>) \o <<>>
    BY <1>1, <2>1 DEF rtw_xmit, _update_beacon
  <2>3. cmds' \in Seq(Cmds) /\ TimInv'
    BY <1>0, <2>1, <2>2, EmptyMore, UpdatedIf
  <2> QED
    BY <1>0, <2>2, <2>3 DEF QueueTypes
<1>2. CASE ~Parks(s)
  <2>1. tim_bitmap' = tim_bitmap /\ bcnTim' = bcnTim /\ cmds' = cmds
    BY <1>2 DEF rtw_xmit
  <2> QED
    BY <1>0, <2>1 DEF QueueTypes, TimInv, BeaconQueued
<1> QED
  BY <1>1, <1>2

LEMMA XmitBmcStep ==
  ASSUME QueueTypes, TimInv, rtw_xmit_bmc
  PROVE  QueueTypes' /\ TimInv'
<1>0. airTim' = airTim
  BY DEF rtw_xmit_bmc
<1>1. CASE sta_dz_bitmap # {}
  <2>1. PICK u \in BOOLEAN : u <=> (Bmc \notin tim_bitmap)
    OBVIOUS
  <2>2. /\ tim_bitmap' = tim_bitmap \cup {Bmc} /\ bmc_q' = bmc_q + 1
        /\ bmc_pending' = bmc_pending
        /\ bcnTim' = IF u THEN tim_bitmap' ELSE bcnTim
        /\ cmds' = cmds \o (IF u THEN <<"beacon">> ELSE <<>>) \o BmcCmds(1)
    BY <1>1, <2>1 DEF rtw_xmit_bmc, _update_beacon
  <2>3. BmcCmds(1) \in Seq(Cmds)
    BY BmcCmdsType
  <2>4. ~u => Stas \cap tim_bitmap' \subseteq tim_bitmap
    BY <2>1, <2>2
  <2>5. cmds' \in Seq(Cmds) /\ TimInv'
    BY <1>0, <2>1, <2>2, <2>3, <2>4, UpdatedIf
  <2> QED
    BY <1>0, <2>2, <2>5 DEF QueueTypes
<1>2. CASE ~(sta_dz_bitmap # {})
  <2>1. /\ tim_bitmap' = tim_bitmap /\ bcnTim' = bcnTim /\ cmds' = cmds
        /\ bmc_pending' = bmc_pending + 1 /\ bmc_q' = bmc_q
    BY <1>2 DEF rtw_xmit_bmc
  <2> QED
    BY <1>0, <2>1 DEF QueueTypes, TimInv, BeaconQueued
<1> QED
  BY <1>1, <1>2

LEMMA MgntXmitStep ==
  ASSUME QueueTypes, TimInv, NEW s \in Stas, rtw_hal_mgnt_xmit(s)
  PROVE  QueueTypes' /\ TimInv'
<1>1. PICK u \in BOOLEAN : u <=> (s \notin tim_bitmap)
  OBVIOUS
<1>2. /\ tim_bitmap' = tim_bitmap \cup {s} /\ airTim' = airTim
      /\ bmc_pending' = bmc_pending /\ bmc_q' = bmc_q
      /\ bcnTim' = IF u THEN tim_bitmap' ELSE bcnTim
      /\ cmds' = cmds \o (IF u THEN <<"beacon">> ELSE <<>>) \o <<>>
  BY <1>1 DEF rtw_hal_mgnt_xmit, _update_beacon, bmcVars
<1>3. ~u => Stas \cap tim_bitmap' \subseteq tim_bitmap
  BY <1>1, <1>2
<1>4. cmds' \in Seq(Cmds) /\ TimInv'
  BY <1>1, <1>2, <1>3, EmptyMore, UpdatedIf
<1> QED
  BY <1>2, <1>4 DEF QueueTypes

-----------------------------------------------------------------------------
(* Falling asleep and waking up.                                           *)

LEMMA StopStep ==
  ASSUME QueueTypes, TimInv, NEW s \in Stas, stop_sta_xmit(s), airTim' = airTim
  PROVE  QueueTypes' /\ TimInv'
<1>1. PICK u \in BOOLEAN : u <=> (tim_bitmap' # tim_bitmap)
  OBVIOUS
<1>2. PICK new : new = tim_bitmap' \ tim_bitmap
  OBVIOUS
<1>3. PICK beacons : beacons = [i \in 1..(Cardinality(new) - 1) |-> "beacon"]
  OBVIOUS
<1>4. PICK more : more = beacons \o BmcCmds(bmc_pending)
  OBVIOUS
<1>5. PICK lit, group \in BOOLEAN :
         tim_bitmap' = tim_bitmap \cup {x \in {s} : lit} \cup {x \in {Bmc} : group}
  <2>1. PICK lit : lit <=> \/ mgmt_pending[s] > 0
                           \/ \E i \in DOMAIN sta_pending[s] : Announced(s, ac(sta_pending[s][i]))
    OBVIOUS
  <2>2. tim_bitmap' = tim_bitmap \cup {x \in {s} : lit} \cup {x \in {Bmc} : bmc_pending > 0}
    BY <2>1 DEF stop_sta_xmit
  <2> QED
    BY <2>2
<1>6. /\ bmc_q' = bmc_q + bmc_pending /\ bmc_pending' = 0
      /\ bcnTim' = IF u THEN tim_bitmap' ELSE bcnTim
      /\ cmds' = cmds \o (IF u THEN <<"beacon">> ELSE <<>>) \o more
  BY <1>1, <1>2, <1>3, <1>4 DEF stop_sta_xmit, _update_beacon
<1>7. Cardinality(new) - 1 \in Int
  <2>1. new \subseteq {s, Bmc}
    BY <1>2, <1>5
  <2>2. IsFiniteSet({s, Bmc})
    <3>1. IsFiniteSet({s}) /\ {s, Bmc} = {s} \cup {Bmc}
      BY FS_Singleton
    <3> QED
      BY <3>1, FS_AddElement
  <2>3. Cardinality(new) \in Nat
    BY <2>1, <2>2, FS_Subset, FS_CardinalityType
  <2> QED
    BY <2>3
<1>8. more \in Seq(Cmds)
  <2>1. beacons \in Seq(Cmds)
    BY <1>3, <1>7, Repeated DEF Cmds
  <2>2. BmcCmds(bmc_pending) \in Seq(Cmds)
    BY BmcCmdsType DEF QueueTypes
  <2> QED
    BY <1>4, <2>1, <2>2, Concat
<1>9. ~u => Stas \cap tim_bitmap' \subseteq tim_bitmap
  BY <1>1
<1>10. cmds' \in Seq(Cmds) /\ TimInv'
  BY <1>1, <1>6, <1>8, <1>9, UpdatedIf
<1>11. tim_bitmap' \subseteq Stas \cup {Bmc}
  BY <1>5 DEF QueueTypes
<1> QED
  BY <1>6, <1>10, <1>11 DEF QueueTypes

LEMMA WakeupStep ==
  ASSUME QueueTypes, TimInv, NEW s \in Stas, NEW type, wakeup_sta_to_xmit(s, type),
         airTim' = airTim
  PROVE  QueueTypes' /\ TimInv'
<1>1. PICK u \in BOOLEAN : u <=> (tim_bitmap' # tim_bitmap)
  OBVIOUS
<1>2. /\ tim_bitmap' \subseteq tim_bitmap
      /\ bcnTim' = IF u THEN tim_bitmap' ELSE bcnTim
      /\ cmds' = cmds \o (IF u THEN <<"beacon">> ELSE <<>>) \o <<>>
  BY <1>1 DEF wakeup_sta_to_xmit, _update_beacon
<1>3. \/ bmc_pending' = bmc_pending + bmc_q /\ bmc_q' = 0
      \/ bmc_pending' = bmc_pending /\ bmc_q' = bmc_q
  BY DEF wakeup_sta_to_xmit, bmcVars
<1>4. cmds' \in Seq(Cmds) /\ TimInv'
  BY <1>1, <1>2, EmptyMore, UpdatedIf
<1> QED
  BY <1>2, <1>3, <1>4 DEF QueueTypes

LEMMA DeliveryStep ==
  ASSUME QueueTypes, TimInv, NEW s \in Stas, xmit_delivery_enabled_frames(s)
  PROVE  QueueTypes' /\ TimInv'
<1>1. PICK u \in BOOLEAN :
        /\ tim_bitmap' = tim_bitmap \ {x \in {s} : u}
        /\ bcnTim' = IF u THEN tim_bitmap' ELSE bcnTim
        /\ cmds' = cmds \o (IF u THEN <<"beacon">> ELSE <<>>) \o <<>>
  <2>1. PICK u \in BOOLEAN :
          u <=> /\ \E i \in 1..Len(Enabled(sleep_q[s], s)) : (sleepq_ac_len[s] - i) % LenMod = 0
                /\ ~has_legacy_ac(s)
    OBVIOUS
  <2> QED
    BY <2>1 DEF xmit_delivery_enabled_frames, _update_beacon
<1>2. airTim' = airTim /\ bmc_pending' = bmc_pending /\ bmc_q' = bmc_q
  BY DEF xmit_delivery_enabled_frames, bmcVars
<1>3. cmds' \in Seq(Cmds) /\ TimInv'
  BY <1>1, <1>2, EmptyMore, UpdatedIf
<1> QED
  BY <1>1, <1>2, <1>3 DEF QueueTypes

LEMMA PsPollEndStep ==
  ASSUME QueueTypes, TimInv, PsPollEnd
  PROVE  QueueTypes' /\ TimInv'
<1>0. PICK s : s = rx.sta
  OBVIOUS
<1>1. PICK u \in BOOLEAN :
        /\ tim_bitmap' = tim_bitmap \ {x \in {s} : u}
        /\ bcnTim' = IF u THEN tim_bitmap' ELSE bcnTim
        /\ cmds' = cmds \o (IF u THEN <<"beacon">> ELSE <<>>) \o <<>>
  <2>1. PICK u \in BOOLEAN :
          u <=> \/ rx.null /\ rx.sta \in tim_bitmap
                \/ sleepq_len[rx.sta] = 0 /\ mgmt_sleepq_len[rx.sta] = 0
    OBVIOUS
  <2>2. /\ tim_bitmap' = tim_bitmap \ {x \in {s} : u}
        /\ bcnTim' = IF u THEN tim_bitmap' ELSE bcnTim
        /\ cmds' = cmds \o (IF u THEN <<"beacon">> ELSE <<>>) \o <<>>
    BY <1>0, <2>1 DEF PsPollEnd, _update_beacon
  <2> QED
    BY <2>2
<1>2. airTim' = airTim /\ bmc_pending' = bmc_pending /\ bmc_q' = bmc_q
  BY DEF PsPollEnd, bmcVars
<1>3. cmds' \in Seq(Cmds) /\ TimInv'
  BY <1>1, <1>2, EmptyMore, UpdatedIf
<1> QED
  BY <1>1, <1>2, <1>3 DEF QueueTypes

LEMMA AliveStep ==
  ASSUME QueueTypes, TimInv, NEW s \in Stas, alive_check(s)
  PROVE  QueueTypes' /\ TimInv'
<1>1. /\ tim_bitmap' = tim_bitmap \cup {s} /\ airTim' = airTim
      /\ bmc_pending' = bmc_pending /\ bmc_q' = bmc_q
      /\ bcnTim' = tim_bitmap'
      /\ cmds' = cmds \o <<"beacon">> \o <<>>
  BY DEF alive_check, _update_beacon, bmcVars
<1>2. cmds' \in Seq(Cmds) /\ TimInv'
  BY <1>1, EmptyMore, Updated
<1> QED
  BY <1>1, <1>2 DEF QueueTypes

-----------------------------------------------------------------------------
(* The command thread.                                                     *)

LEMMA BmcHdlStep ==
  ASSUME QueueTypes, TimInv, chk_bmc_sleepq_hdl
  PROVE  QueueTypes' /\ TimInv'
<1>1. /\ cmds # <<>> /\ cmds' = Tail(cmds) /\ cmds \in Seq(Cmds)
      /\ airTim' = IF Head(cmds) = "beacon" THEN bcnTim ELSE airTim
      /\ tim_bitmap' = tim_bitmap /\ bcnTim' = bcnTim
      /\ bmc_pending' = bmc_pending /\ bmc_q' = bmc_q
  BY DEF chk_bmc_sleepq_hdl, bmcVars, QueueTypes
<1>2. /\ cmds' \in Seq(Cmds)
      /\ "beacon" # Head(cmds) /\ BeaconQueued => BeaconQueued'
  <2>1. PICK q : q = cmds
    OBVIOUS
  <2>2. /\ Tail(q) \in Seq(Cmds)
        /\ "beacon" # Head(q) /\ Has(q, "beacon") => Has(Tail(q), "beacon")
    BY <1>1, <2>1, Front
  <2>3. cmds' = Tail(q)
    BY <1>1, <2>1
  <2> QED
    BY <2>1, <2>2, <2>3, Zenon DEF BeaconQueued
<1>3. TimInv'
  <2>1. CASE Head(cmds) = "beacon"
    BY <1>1, <2>1 DEF TimInv
  <2>2. CASE Head(cmds) # "beacon"
    BY <1>1, <1>2, <2>2 DEF TimInv
  <2> QED
    BY <2>1, <2>2
<1> QED
  BY <1>1, <1>2, <1>3 DEF QueueTypes

LEMMA BmcReleaseStep ==
  ASSUME QueueTypes, TimInv, chk_bmc_sleepq_release
  PROVE  QueueTypes' /\ TimInv'
<1>1. /\ cmds' = Append(cmds, "hiq") /\ cmds \in Seq(Cmds) /\ airTim' = airTim
      /\ tim_bitmap' = tim_bitmap /\ bcnTim' = bcnTim
      /\ bmc_pending' = bmc_pending + bmc_q /\ bmc_q' = 0
  BY DEF chk_bmc_sleepq_release, QueueTypes
<1>2. PICK q : q = cmds
  OBVIOUS
<1>3. Append(q, "hiq") = q \o <<"hiq">> /\ <<"hiq">> \in Seq(Cmds)
  BY <1>1, <1>2 DEF Cmds
<1>4. /\ Append(q, "hiq") \in Seq(Cmds)
      /\ Has(q, "beacon") => Has(Append(q, "hiq"), "beacon")
  BY <1>1, <1>2, <1>3, Concat
<1>5. cmds' \in Seq(Cmds) /\ (BeaconQueued => BeaconQueued')
  BY <1>1, <1>2, <1>4, Zenon DEF BeaconQueued
<1>6. TimInv'
  BY <1>1, <1>5, Quiet
<1> QED
  BY <1>1, <1>5, <1>6 DEF QueueTypes

LEMMA HiqHdlStep ==
  ASSUME QueueTypes, TimInv, rtw_chk_hi_queue_hdl
  PROVE  QueueTypes' /\ TimInv'
<1>1. /\ cmds # <<>> /\ Head(cmds) = "hiq" /\ cmds \in Seq(Cmds) /\ airTim' = airTim
      /\ cmds' = Append(Tail(cmds), "hiq") \/ cmds' = Tail(cmds)
      /\ tim_bitmap' = tim_bitmap /\ bcnTim' = bcnTim
      /\ bmc_pending' = bmc_pending /\ bmc_q' = bmc_q
  BY DEF rtw_chk_hi_queue_hdl, bmcVars, QueueTypes
<1>2. PICK q : q = cmds
  OBVIOUS
<1>3. PICK r : r = Tail(q)
  OBVIOUS
<1>4. r \in Seq(Cmds) /\ (Has(q, "beacon") => Has(r, "beacon"))
  BY <1>1, <1>2, <1>3, Front
<1>5. Append(r, "hiq") = r \o <<"hiq">> /\ <<"hiq">> \in Seq(Cmds)
  BY <1>4 DEF Cmds
<1>6. /\ Append(r, "hiq") \in Seq(Cmds)
      /\ Has(r, "beacon") => Has(Append(r, "hiq"), "beacon")
  BY <1>4, <1>5, Concat
<1>7. cmds' = Append(r, "hiq") \/ cmds' = r
  BY <1>1, <1>2, <1>3, Zenon
<1>8. cmds' \in Seq(Cmds) /\ (BeaconQueued => BeaconQueued')
  BY <1>2, <1>4, <1>6, <1>7, Zenon DEF BeaconQueued
<1>9. TimInv'
  BY <1>1, <1>8, Quiet
<1> QED
  BY <1>1, <1>8, <1>9 DEF QueueTypes

LEMMA HiqClearStep ==
  ASSUME QueueTypes, TimInv, rtw_chk_hi_queue_clear
  PROVE  QueueTypes' /\ TimInv'
<1>1. PICK u \in BOOLEAN : u <=> (Bmc \in tim_bitmap)
  OBVIOUS
<1>2. /\ tim_bitmap' = tim_bitmap \ {Bmc} /\ airTim' = airTim
      /\ bmc_pending' = bmc_pending /\ bmc_q' = bmc_q
      /\ bcnTim' = IF u THEN tim_bitmap' ELSE bcnTim
      /\ cmds' = cmds \o (IF u THEN <<"beacon">> ELSE <<>>) \o <<>>
  BY <1>1 DEF rtw_chk_hi_queue_clear, _update_beacon, bmcVars
<1>3. cmds' \in Seq(Cmds) /\ TimInv'
  BY <1>1, <1>2, EmptyMore, UpdatedIf
<1> QED
  BY <1>2, <1>3 DEF QueueTypes

-----------------------------------------------------------------------------
(* Steps that leave the queue of commands alone.                           *)

LEMMA LeaveStep ==
  ASSUME QueueTypes, TimInv, NEW s \in Stas, ap_free_sta(s) \/ rtw_free_stainfo(s)
  PROVE  QueueTypes' /\ TimInv'
<1>1. /\ tim_bitmap' \subseteq tim_bitmap /\ cmds' = cmds /\ airTim' = airTim
      /\ bcnTim' = tim_bitmap' \/ bcnTim' = bcnTim
      /\ bmc_pending' = bmc_pending /\ bmc_q' = bmc_q
  BY DEF ap_free_sta, rtw_free_stainfo, bmcVars
<1> QED
  BY <1>1 DEF QueueTypes, TimInv, BeaconQueued

LEMMA CompleteStep ==
  ASSUME QueueTypes, TimInv, rtl8188fu_xmitframe_complete
  PROVE  QueueTypes' /\ TimInv'
<1>1. /\ tim_bitmap' = tim_bitmap /\ cmds' = cmds /\ airTim' = airTim /\ bcnTim' = bcnTim
      /\ bmc_q' = bmc_q
  BY DEF rtl8188fu_xmitframe_complete, timVars
<1>2. bmc_pending' = bmc_pending \/ (bmc_pending > 0 /\ bmc_pending' = bmc_pending - 1)
  BY DEF rtl8188fu_xmitframe_complete
<1>3. bmc_pending' \in Nat
  BY <1>2 DEF QueueTypes
<1> QED
  BY <1>1, <1>3 DEF QueueTypes, TimInv, BeaconQueued

(* What the command queue, the TIM and the group counters do not feel.     *)
Untouched == UNCHANGED <<tim_bitmap, cmds, airTim, bcnTim, bmc_pending, bmc_q>>

LEMMA UntouchedStep ==
  ASSUME QueueTypes, TimInv, Untouched
  PROVE  QueueTypes' /\ TimInv'
BY DEF QueueTypes, TimInv, BeaconQueued, Untouched

LEMMA StationStep ==
  ASSUME QueueTypes, TimInv, NEW s \in Stas, Station(s)
  PROVE  QueueTypes' /\ TimInv'
<1>1. CASE process_pwrbit_data(s)
  <2>1. airTim' = airTim /\ (wakeup_sta_to_xmit(s, "all") \/ stop_sta_xmit(s))
    BY <1>1 DEF process_pwrbit_data
  <2> QED
    BY <2>1, WakeupStep, StopStep
<1>2. CASE flush_sleep_q(s) \/ ap_free_sta_flush(s)
  <2>1. airTim' = airTim /\ \E type : wakeup_sta_to_xmit(s, type)
    BY <1>2 DEF flush_sleep_q, ap_free_sta_flush
  <2> QED
    BY <2>1, WakeupStep
<1>3. CASE PsPoll(s)
  BY <1>3, UntouchedStep DEF PsPoll, timVars, bmcVars, Untouched
<1>4. CASE rtw_alloc_stainfo(s) \/ OnAssocReq(s)
  BY <1>4, UntouchedStep DEF rtw_alloc_stainfo, OnAssocReq, timVars, bmcVars, Untouched
<1> QED
  BY <1>1, <1>2, <1>3, <1>4, DeliveryStep, AliveStep, MgntXmitStep, LeaveStep DEF Station

LEMMA NextStep ==
  ASSUME QueueTypes, TimInv, [Next]_vars
  PROVE  QueueTypes' /\ TimInv'
<1>1. CASE HiqDrains
  BY <1>1, UntouchedStep DEF HiqDrains, timVars, bmcVars, Untouched
<1>2. CASE UNCHANGED vars
  BY <1>2, UntouchedStep DEF vars, timVars, bmcVars, Untouched
<1>3. CASE CmdThread
  BY <1>3, BmcHdlStep, BmcReleaseStep, HiqHdlStep, HiqClearStep DEF CmdThread
<1> QED
  BY <1>1, <1>2, <1>3, StationStep, XmitStep, XmitBmcStep, PsPollEndStep, CompleteStep DEF Next

(* Every TIM bit that the driver lights for a dozing station reaches the   *)
(* air: the transmitted beacon has it, or a beacon command is still queued *)
(* and the element it will send has it.  Whatever stations poll, wake, are *)
(* flushed or leave in between (_update_beacon, tx_beacon_hdl), for any    *)
(* number of them, on one CPU and on several.                              *)
THEOREM LitBitsReachAir == Spec => []TimReachesAir
<1>1. Init => QueueTypes /\ TimInv
  BY EmptyMore DEF Init, QueueTypes, TimInv
<1>2. QueueTypes /\ TimInv /\ [Next]_vars => QueueTypes' /\ TimInv'
  BY NextStep
<1>3. TimInv => TimReachesAir
  BY DEF TimInv, TimReachesAir, BeaconQueued, Has
<1> QED
  BY <1>1, <1>2, <1>3, PTL DEF Spec
-----------------------------------------------------------------------------
(* What the filter of a queue returns.  No induction over the queue: the   *)
(* rank of a position among the ones kept is an injection into 1..n, and   *)
(* so it meets every number.                                               *)

Rank(I, i) == Cardinality({j \in I : j <= i})

LEMMA RankRange ==
  ASSUME NEW n \in Nat, NEW I \in SUBSET (1..n), NEW i \in I
  PROVE  /\ IsFiniteSet(I) /\ Cardinality(I) \in Nat
         /\ Rank(I, i) \in 1..Cardinality(I)
<1>1. IsFiniteSet(1..n)
  BY FS_Interval
<1>2. IsFiniteSet(I) /\ Cardinality(I) \in Nat
  BY <1>1, FS_Subset, FS_CardinalityType
<1>3. PICK J : J = {j \in I : j <= i}
  OBVIOUS
<1>4. J \in SUBSET I /\ i \in J
  BY <1>3
<1>5. IsFiniteSet(J) /\ Cardinality(J) <= Cardinality(I) /\ Cardinality(J) \in Nat
  BY <1>2, <1>4, FS_Subset, FS_CardinalityType
<1>6. Cardinality(J) # 0
  BY <1>4, <1>5, FS_EmptySet
<1>7. Rank(I, i) = Cardinality(J)
  BY <1>3 DEF Rank
<1> QED
  BY <1>2, <1>5, <1>6, <1>7

LEMMA RankMonotone ==
  ASSUME NEW n \in Nat, NEW I \in SUBSET (1..n), NEW i \in I, NEW k \in I, i < k
  PROVE  Rank(I, i) < Rank(I, k)
<1>1. IsFiniteSet(I)
  BY RankRange
<1>2. PICK J : J = {j \in I : j <= i}
  OBVIOUS
<1>3. PICK K : K = {j \in I : j <= k}
  OBVIOUS
<1>4. J \in SUBSET K /\ k \in K /\ k \notin J /\ K \in SUBSET I
  <2>1. \A j \in I : j \in Int
    OBVIOUS
  <2>2. \A j \in I : j <= i => j <= k
    BY <2>1
  <2>3. ~(k <= i) /\ k <= k
    BY <2>1
  <2> QED
    BY <1>2, <1>3, <2>2, <2>3
<1>5. IsFiniteSet(K)
  BY <1>1, <1>4, FS_Subset
<1>6. Cardinality(J) <= Cardinality(K) /\ Cardinality(K) # Cardinality(J)
      /\ Cardinality(J) \in Nat /\ Cardinality(K) \in Nat
  BY <1>4, <1>5, FS_Subset, FS_CardinalityType
<1>7. Rank(I, i) = Cardinality(J) /\ Rank(I, k) = Cardinality(K)
  BY <1>2, <1>3 DEF Rank
<1> QED
  BY <1>6, <1>7

LEMMA RankOnto ==
  ASSUME NEW n \in Nat, NEW I \in SUBSET (1..n), NEW k \in 1..Cardinality(I)
  PROVE  \E i \in I : Rank(I, i) = k
<1>1. PICK c : c = Cardinality(I)
  OBVIOUS
<1>2. PICK r : r = [i \in I |-> Rank(I, i)]
  OBVIOUS
<1>3. IsFiniteSet(I) /\ c \in Nat
  <2>1. IsFiniteSet(1..n)
    BY FS_Interval
  <2> QED
    BY <1>1, <2>1, FS_Subset, FS_CardinalityType
<1>4. r \in [I -> 1..c]
  BY <1>1, <1>2, RankRange
<1>5. ASSUME NEW i \in I, NEW j \in I, r[i] = r[j] PROVE i = j
  <2>1. i \in Int /\ j \in Int
    OBVIOUS
  <2>2. Rank(I, i) = Rank(I, j) /\ Rank(I, i) \in Int
    BY <1>1, <1>2, <1>4, <1>5
  <2>3. ~(i < j)
    <3>1. i < j => Rank(I, i) < Rank(I, j)
      BY RankMonotone
    <3> QED
      BY <2>2, <3>1
  <2>4. ~(j < i)
    <3>1. j < i => Rank(I, j) < Rank(I, i)
      BY RankMonotone
    <3> QED
      BY <2>2, <3>1
  <2> QED
    BY <2>1, <2>3, <2>4
<1>6. r \in Injection(I, 1..c)
  BY <1>4, <1>5 DEF Injection, IsInjective
<1>7. IsFiniteSet(1..c) /\ Cardinality(1..c) = c
  BY <1>3, FS_Interval
<1>8. r \in Surjection(I, 1..c)
  BY <1>1, <1>6, <1>7, FS_Injection
<1>9. PICK i \in I : r[i] = k
  BY <1>1, <1>8 DEF Surjection
<1> QED
  BY <1>2, <1>9

LEMMA PlaceShape ==
  ASSUME NEW n \in Nat, NEW I \in SUBSET (1..n)
  PROVE  /\ Cardinality(I) \in Nat
         /\ \A k \in 1..Cardinality(I) : Place(I, k) \in I
         /\ \A k, l \in 1..Cardinality(I) : k < l => Place(I, k) < Place(I, l)
         /\ \A i \in I : \E k \in 1..Cardinality(I) : Place(I, k) = i
<1>1. Cardinality(I) \in Nat
  <2>1. IsFiniteSet(1..n)
    BY FS_Interval
  <2> QED
    BY <2>1, FS_Subset, FS_CardinalityType
<1>2. ASSUME NEW k \in 1..Cardinality(I)
      PROVE  Place(I, k) \in I /\ Rank(I, Place(I, k)) = k
  <2>1. \E i \in I : Cardinality({j \in I : j <= i}) = k
    BY RankOnto DEF Rank
  <2> QED
    BY <2>1, Zenon DEF Place, Rank
<1>3. ASSUME NEW k \in 1..Cardinality(I), NEW l \in 1..Cardinality(I), k < l
      PROVE  Place(I, k) < Place(I, l)
  <2>1. PICK a \in I : a = Place(I, k)
    BY <1>2
  <2>2. PICK b \in I : b = Place(I, l)
    BY <1>2
  <2>3. Rank(I, a) = k /\ Rank(I, b) = l
    BY <1>2, <2>1, <2>2
  <2>4. k \in Int /\ l \in Int /\ a # b /\ ~(b < a)
    BY <1>1, <1>3, <2>3, RankMonotone
  <2>5. a < b
    BY <2>4
  <2> QED
    BY <2>1, <2>2, <2>5
<1>4. ASSUME NEW i \in I PROVE \E k \in 1..Cardinality(I) : Place(I, k) = i
  <2>1. PICK k \in 1..Cardinality(I) : k = Rank(I, i)
    BY RankRange
  <2>2. PICK a \in I : a = Place(I, k)
    BY <1>2
  <2>3. Rank(I, a) = Rank(I, i) /\ Rank(I, i) \in Int
    BY <1>1, <1>2, <2>1, <2>2
  <2>4. ~(a < i) /\ ~(i < a)
    <3>1. (a < i => Rank(I, a) < Rank(I, i)) /\ (i < a => Rank(I, i) < Rank(I, a))
      BY RankMonotone
    <3> QED
      BY <2>3, <3>1
  <2>5. a = i
    BY <2>4
  <2> QED
    BY <2>2, <2>5
<1> QED
  BY <1>1, <1>2, <1>3, <1>4

(* The filter keeps a subsequence: positions in increasing order, all the  *)
(* ones that hold an element of the set and no other.                      *)
Kept(r, q, S) ==
  \E m \in [1..Len(r) -> 1..Len(q)] :
    /\ \A k \in 1..Len(r) : r[k] = q[m[k]] /\ q[m[k]] \in S
    /\ \A k, l \in 1..Len(r) : k < l => m[k] < m[l]
    /\ \A i \in 1..Len(q) : q[i] \in S => \E k \in 1..Len(r) : m[k] = i

LEMMA FilterShape ==
  ASSUME NEW T, NEW q \in Seq(T), NEW S
  PROVE  /\ Filter(q, S) \in Seq(T)
         /\ Len(Filter(q, S)) = Cardinality(Places(q, S))
         /\ Kept(Filter(q, S), q, S)
<1>1. PICK n \in Nat : n = Len(q)
  OBVIOUS
<1>2. PICK I : I = Places(q, S)
  OBVIOUS
<1>3. I \in SUBSET (1..n) /\ (\A i \in 1..n : i \in I <=> q[i] \in S)
  BY <1>1, <1>2 DEF Places
<1>4. PICK c : c = Cardinality(I)
  OBVIOUS
<1>5. PICK m : m = [k \in 1..c |-> Place(I, k)]
  OBVIOUS
<1>6. /\ c \in Nat
      /\ \A k \in 1..c : Place(I, k) \in I
      /\ \A k, l \in 1..c : k < l => Place(I, k) < Place(I, l)
      /\ \A i \in I : \E k \in 1..c : Place(I, k) = i
  BY <1>3, <1>4, PlaceShape
<1>7. PICK r : r = Filter(q, S)
  OBVIOUS
<1>8. r = [k \in 1..c |-> q[Place(I, k)]]
  BY <1>2, <1>4, <1>7 DEF Filter
<1>9. ASSUME NEW k \in 1..c PROVE r[k] \in T
  <2>1. Place(I, k) \in 1..Len(q)
    BY <1>1, <1>3, <1>6
  <2> QED
    BY <1>8, <2>1
<1>10. r \in Seq(T) /\ Len(r) = c
  BY <1>6, <1>8, <1>9
<1>11. m \in [1..c -> 1..n] /\ \A k \in 1..c : m[k] = Place(I, k)
  BY <1>3, <1>5, <1>6
<1>12. \A k \in 1..c : r[k] = q[m[k]] /\ q[m[k]] \in S
  BY <1>3, <1>6, <1>8, <1>11
<1>13. \A k, l \in 1..c : k < l => m[k] < m[l]
  BY <1>6, <1>11
<1>14. \A i \in 1..n : q[i] \in S => \E k \in 1..c : m[k] = i
  BY <1>3, <1>6, <1>11, Zenon
<1>15. Kept(r, q, S)
  <2>1. m \in [1..Len(r) -> 1..Len(q)]
    BY <1>1, <1>10, <1>11
  <2> QED
    BY <1>1, <1>10, <1>12, <1>13, <1>14, <2>1, Zenon DEF Kept
<1> QED
  BY <1>2, <1>4, <1>7, <1>10, <1>15

LEMMA FilterRange ==
  ASSUME NEW T, NEW q \in Seq(T), NEW S
  PROVE  Range(Filter(q, S)) = Range(q) \cap S
<1>1. PICK r : r = Filter(q, S)
  OBVIOUS
<1>2. r \in Seq(T)
  BY <1>1, FilterShape
<1>3. PICK m \in [1..Len(r) -> 1..Len(q)] :
              /\ \A k \in 1..Len(r) : r[k] = q[m[k]] /\ q[m[k]] \in S
              /\ \A i \in 1..Len(q) : q[i] \in S => \E k \in 1..Len(r) : m[k] = i
  <2>1. Kept(r, q, S)
    BY <1>1, FilterShape
  <2> QED
    BY <2>1, Zenon DEF Kept
<1>4. DOMAIN r = 1..Len(r) /\ DOMAIN q = 1..Len(q)
  BY <1>2
<1>5. ASSUME NEW f \in Range(r) PROVE f \in Range(q) \cap S
  <2>1. PICK k \in 1..Len(r) : r[k] = f
    BY <1>4 DEF Range
  <2>2. m[k] \in 1..Len(q)
    OBVIOUS
  <2> QED
    BY <1>3, <1>4, <2>1, <2>2, Zenon DEF Range
<1>6. ASSUME NEW f \in Range(q), f \in S PROVE f \in Range(r)
  <2>1. PICK i \in 1..Len(q) : q[i] = f
    BY <1>4 DEF Range
  <2>2. PICK k \in 1..Len(r) : m[k] = i
    BY <1>3, <1>6, <2>1
  <2> QED
    BY <1>3, <1>4, <2>1, <2>2, Zenon DEF Range
<1> QED
  BY <1>1, <1>5, <1>6, Zenon

LEMMA FilterInjective ==
  ASSUME NEW T, NEW q \in Seq(T), NEW S, IsInjective(q)
  PROVE  IsInjective(Filter(q, S))
<1>1. PICK r : r = Filter(q, S)
  OBVIOUS
<1>2. r \in Seq(T)
  BY <1>1, FilterShape
<1>3. PICK m \in [1..Len(r) -> 1..Len(q)] :
              /\ \A k \in 1..Len(r) : r[k] = q[m[k]] /\ q[m[k]] \in S
              /\ \A k, l \in 1..Len(r) : k < l => m[k] < m[l]
  <2>1. Kept(r, q, S)
    BY <1>1, FilterShape
  <2> QED
    BY <2>1, Zenon DEF Kept
<1>4. DOMAIN r = 1..Len(r) /\ DOMAIN q = 1..Len(q) /\ Len(r) \in Nat /\ Len(q) \in Nat
  BY <1>2
<1>5. ASSUME NEW k \in 1..Len(r), NEW l \in 1..Len(r), r[k] = r[l] PROVE k = l
  <2>1. PICK a \in 1..Len(q) : a = m[k]
    OBVIOUS
  <2>2. PICK b \in 1..Len(q) : b = m[l]
    OBVIOUS
  <2>3. q[a] = q[b]
    BY <1>3, <1>5, <2>1, <2>2
  <2>4. a = b
    BY <1>4, <2>3, Zenon DEF IsInjective
  <2>5. ~(a < b) /\ ~(b < a)
    BY <1>4, <2>4
  <2>6. ~(k < l) /\ ~(l < k)
    BY <1>3, <2>1, <2>2, <2>5
  <2> QED
    BY <1>4, <2>6
<1> QED
  BY <1>1, <1>4, <1>5, Zenon DEF IsInjective

(* The order of what is kept is that of the queue.                         *)
LEMMA FilterBefore ==
  ASSUME NEW T, NEW q \in Seq(T), NEW S, NEW f \in S, NEW g \in S, Before(q, f, g)
  PROVE  Before(Filter(q, S), f, g)
<1>1. PICK r : r = Filter(q, S)
  OBVIOUS
<1>2. r \in Seq(T)
  BY <1>1, FilterShape
<1>3. PICK m \in [1..Len(r) -> 1..Len(q)] :
              /\ \A k \in 1..Len(r) : r[k] = q[m[k]]
              /\ \A k, l \in 1..Len(r) : k < l => m[k] < m[l]
              /\ \A i \in 1..Len(q) : q[i] \in S => \E k \in 1..Len(r) : m[k] = i
  <2>1. Kept(r, q, S)
    BY <1>1, FilterShape
  <2> QED
    BY <2>1, Zenon DEF Kept
<1>4. DOMAIN r = 1..Len(r) /\ DOMAIN q = 1..Len(q) /\ Len(r) \in Nat /\ Len(q) \in Nat
  BY <1>2
<1>5. PICK i \in 1..Len(q), j \in 1..Len(q) : i < j /\ q[i] = f /\ q[j] = g
  BY <1>4, Zenon DEF Before
<1>6. PICK k \in 1..Len(r) : m[k] = i
  BY <1>3, <1>5
<1>7. PICK l \in 1..Len(r) : m[l] = j
  BY <1>3, <1>5
<1>8. ~(l < k) /\ l # k
  BY <1>3, <1>4, <1>5, <1>6, <1>7
<1>9. k < l
  BY <1>4, <1>8
<1>10. r[k] = f /\ r[l] = g
  BY <1>3, <1>5, <1>6, <1>7
<1> QED
  BY <1>1, <1>4, <1>9, <1>10, Zenon DEF Before

(* What a filter keeps and what it drops are together the whole queue.     *)
LEMMA FilterSplit ==
  ASSUME NEW T, NEW q \in Seq(T), NEW S, NEW R, S \cap R = {}, T \subseteq S \cup R
  PROVE  Len(Filter(q, S)) + Len(Filter(q, R)) = Len(q)
<1>1. PICK n \in Nat : n = Len(q)
  OBVIOUS
<1>2. PICK I : I = Places(q, S)
  OBVIOUS
<1>3. PICK J : J = Places(q, R)
  OBVIOUS
<1>4. I \cup J = 1..n /\ I \cap J = {}
  BY <1>1, <1>2, <1>3 DEF Places
<1>5. IsFiniteSet(1..n) /\ Cardinality(1..n) = n
  BY FS_Interval
<1>6. I \in SUBSET (1..n) /\ J \in SUBSET (1..n)
  BY <1>4
<1>7. IsFiniteSet(I) /\ IsFiniteSet(J) /\ Cardinality(I) \in Nat /\ Cardinality(J) \in Nat
  BY <1>5, <1>6, FS_Subset, FS_CardinalityType
<1>8. Cardinality(I \cup J) = Cardinality(I) + Cardinality(J) - Cardinality(I \cap J)
  BY <1>7, FS_Union
<1>9. Cardinality(I \cap J) = 0
  BY <1>4, FS_EmptySet
<1>10. Cardinality(I) + Cardinality(J) = n
  <2>1. n = Cardinality(I) + Cardinality(J) - 0
    BY <1>4, <1>5, <1>8, <1>9
  <2> QED
    BY <1>7, <2>1
<1> QED
  BY <1>1, <1>2, <1>3, <1>10, FilterShape

-----------------------------------------------------------------------------
(* Queues: their elements, without repetition, and their order.            *)

LEMMA EmptyQueue ==
  ASSUME NEW T, NEW q \in Seq(T)
  PROVE  Range(q) = {} <=> q = <<>>
<1>1. DOMAIN q = 1..Len(q) /\ Len(q) \in Nat
  OBVIOUS
<1>2. ASSUME q # <<>> PROVE Range(q) # {}
  <2>1. 1 \in DOMAIN q
    BY <1>1, <1>2
  <2> QED
    BY <2>1, Zenon DEF Range
<1>3. ASSUME q = <<>> PROVE Range(q) = {}
  <2>1. DOMAIN q = {}
    BY <1>1, <1>3
  <2> QED
    BY <2>1, Zenon DEF Range
<1> QED
  BY <1>2, <1>3

LEMMA ConcatPlaces ==
  ASSUME NEW T, NEW p \in Seq(T), NEW r \in Seq(T)
  PROVE  /\ p \o r \in Seq(T) /\ Len(p) \in Nat /\ Len(r) \in Nat
         /\ DOMAIN p = 1..Len(p) /\ DOMAIN r = 1..Len(r)
         /\ DOMAIN (p \o r) = 1..(Len(p) + Len(r))
         /\ \A i \in 1..Len(p) : i \in DOMAIN (p \o r) /\ (p \o r)[i] = p[i]
         /\ \A i \in 1..Len(r) : Len(p) + i \in DOMAIN (p \o r) /\ (p \o r)[Len(p) + i] = r[i]
         /\ \A i \in DOMAIN (p \o r) :
              i \in 1..Len(p) \/ (i > Len(p) /\ \E j \in 1..Len(r) : i = Len(p) + j)
<1>1. /\ p \o r \in Seq(T) /\ Len(p \o r) = Len(p) + Len(r) /\ Len(p) \in Nat /\ Len(r) \in Nat
      /\ DOMAIN p = 1..Len(p) /\ DOMAIN r = 1..Len(r) /\ DOMAIN (p \o r) = 1..(Len(p) + Len(r))
  OBVIOUS
<1>2. ASSUME NEW i \in 1..Len(p) PROVE i \in DOMAIN (p \o r) /\ (p \o r)[i] = p[i]
  BY <1>1
<1>3. ASSUME NEW i \in 1..Len(r)
      PROVE  Len(p) + i \in DOMAIN (p \o r) /\ (p \o r)[Len(p) + i] = r[i]
  BY <1>1
<1>4. ASSUME NEW i \in 1..(Len(p) + Len(r)), i \notin 1..Len(p)
      PROVE  i > Len(p) /\ i - Len(p) \in 1..Len(r) /\ i = Len(p) + (i - Len(p))
  BY <1>1, <1>4
<1> QED
  BY <1>1, <1>2, <1>3, <1>4, Zenon

LEMMA ConcatInjective ==
  ASSUME NEW T, NEW p \in Seq(T), NEW r \in Seq(T)
  PROVE  IsInjective(p \o r) <=>
           IsInjective(p) /\ IsInjective(r) /\ Range(p) \cap Range(r) = {}
<1>1. PICK q : q = p \o r
  OBVIOUS
<1>2. PICK a \in Nat : a = Len(p)
  OBVIOUS
<1>3. PICK b \in Nat : b = Len(r)
  OBVIOUS
<1>4. /\ DOMAIN p = 1..a /\ DOMAIN r = 1..b
      /\ \A i \in 1..a : i \in DOMAIN q /\ q[i] = p[i]
      /\ \A i \in 1..b : a + i \in DOMAIN q /\ q[a + i] = r[i]
      /\ \A i \in DOMAIN q : i \in 1..a \/ (i > a /\ \E j \in 1..b : i = a + j)
  BY <1>1, <1>2, <1>3, ConcatPlaces
<1>5. ASSUME IsInjective(q)
      PROVE  IsInjective(p) /\ IsInjective(r) /\ Range(p) \cap Range(r) = {}
  <2>1. ASSUME NEW i \in 1..a, NEW j \in 1..a, p[i] = p[j] PROVE i = j
    BY <1>4, <1>5, <2>1, Zenon DEF IsInjective
  <2>2. ASSUME NEW i \in 1..b, NEW j \in 1..b, r[i] = r[j] PROVE i = j
    <3>1. a + i = a + j
      BY <1>4, <1>5, <2>2, Zenon DEF IsInjective
    <3> QED
      BY <3>1
  <2>3. ASSUME NEW i \in 1..a, NEW j \in 1..b PROVE p[i] # r[j]
    <3>1. p[i] = r[j] => i = a + j
      BY <1>4, <1>5, Zenon DEF IsInjective
    <3>2. i # a + j
      OBVIOUS
    <3> QED
      BY <3>1, <3>2
  <2>4. ASSUME NEW x \in Range(p), x \in Range(r) PROVE FALSE
    <3>1. PICK i \in 1..a : x = p[i]
      BY <1>4, Zenon DEF Range
    <3>2. PICK j \in 1..b : x = r[j]
      BY <1>4, <2>4, Zenon DEF Range
    <3> QED
      BY <2>3, <3>1, <3>2
  <2>5. Range(p) \cap Range(r) = {}
    BY <2>4
  <2>6. IsInjective(p) /\ IsInjective(r)
    BY <1>4, <2>1, <2>2, Zenon DEF IsInjective
  <2> QED
    BY <2>5, <2>6
<1>6. ASSUME IsInjective(p), IsInjective(r), Range(p) \cap Range(r) = {}
      PROVE  IsInjective(q)
  <2>1. \A i, j \in 1..a : p[i] = p[j] => i = j
    BY <1>4, <1>6, Zenon DEF IsInjective
  <2>2. \A i, j \in 1..b : r[i] = r[j] => i = j
    BY <1>4, <1>6, Zenon DEF IsInjective
  <2>3. \A i \in 1..a, j \in 1..b : p[i] # r[j]
    BY <1>4, <1>6, Zenon DEF Range
  <2>4. ASSUME NEW i \in DOMAIN q, NEW j \in DOMAIN q, q[i] = q[j] PROVE i = j
    <3>1. CASE i \in 1..a /\ j \in 1..a
      BY <1>4, <2>1, <2>4, <3>1
    <3>2. CASE i \in 1..a /\ j \notin 1..a
      BY <1>4, <2>3, <2>4, <3>2
    <3>3. CASE i \notin 1..a /\ j \in 1..a
      <4>1. PICK k \in 1..b : i = a + k
        BY <1>4, <3>3
      <4>2. q[i] = r[k] /\ q[j] = p[j]
        BY <1>4, <3>3, <4>1
      <4> QED
        BY <2>3, <2>4, <3>3, <4>2
    <3>4. CASE i \notin 1..a /\ j \notin 1..a
      <4>1. PICK k \in 1..b : i = a + k
        BY <1>4, <3>4
      <4>2. PICK l \in 1..b : j = a + l
        BY <1>4, <3>4
      <4>3. q[i] = r[k] /\ q[j] = r[l]
        BY <1>4, <4>1, <4>2
      <4>4. k = l
        BY <2>2, <2>4, <4>3
      <4> QED
        BY <4>1, <4>2, <4>4
    <3> QED
      BY <3>1, <3>2, <3>3, <3>4
  <2> QED
    BY <2>4, Zenon DEF IsInjective
<1> QED
  BY <1>1, <1>5, <1>6

(* An element at the end of a queue.                                       *)
LEMMA OneElement ==
  ASSUME NEW T, NEW f \in T
  PROVE  /\ <<f>> \in Seq(T) /\ Range(<<f>>) = {f} /\ IsInjective(<<f>>)
         /\ \A q \in Seq(T) : Append(q, f) = q \o <<f>>
<1>1. <<f>> \in Seq(T) /\ DOMAIN <<f>> = {1} /\ <<f>>[1] = f
  OBVIOUS
<1>2. Range(<<f>>) = {f} /\ IsInjective(<<f>>)
  BY <1>1, Zenon DEF Range, IsInjective
<1> QED
  BY <1>1, <1>2, AppendIsConcat

(* Frames of a category are in the order of the history A.                 *)
Sorted(q, A) ==
  \A i, j \in DOMAIN q : i < j /\ ac(q[i]) = ac(q[j]) => Before(A, q[i], q[j])
Precede(p, r, A) ==
  \A f \in Range(p), g \in Range(r) : ac(f) = ac(g) => Before(A, f, g)

LEMMA ConcatSorted ==
  ASSUME NEW T, NEW p \in Seq(T), NEW r \in Seq(T), NEW A
  PROVE  Sorted(p \o r, A) <=> Sorted(p, A) /\ Sorted(r, A) /\ Precede(p, r, A)
<1>1. PICK q : q = p \o r
  OBVIOUS
<1>2. PICK a \in Nat : a = Len(p)
  OBVIOUS
<1>3. PICK b \in Nat : b = Len(r)
  OBVIOUS
<1>4. /\ DOMAIN p = 1..a /\ DOMAIN r = 1..b
      /\ \A i \in 1..a : i \in DOMAIN q /\ q[i] = p[i]
      /\ \A i \in 1..b : a + i \in DOMAIN q /\ q[a + i] = r[i]
      /\ \A i \in DOMAIN q : i \in 1..a \/ (i > a /\ \E j \in 1..b : i = a + j)
  BY <1>1, <1>2, <1>3, ConcatPlaces
<1>5. ASSUME Sorted(q, A)
      PROVE  Sorted(p, A) /\ Sorted(r, A) /\ Precede(p, r, A)
  <2>1. ASSUME NEW i \in 1..a, NEW j \in 1..a, i < j, ac(p[i]) = ac(p[j])
        PROVE  Before(A, p[i], p[j])
    BY <1>4, <1>5, <2>1, Zenon DEF Sorted
  <2>2. ASSUME NEW i \in 1..b, NEW j \in 1..b, i < j, ac(r[i]) = ac(r[j])
        PROVE  Before(A, r[i], r[j])
    <3>1. a + i < a + j
      BY <2>2
    <3> QED
      BY <1>4, <1>5, <2>2, <3>1, Zenon DEF Sorted
  <2>3. ASSUME NEW i \in 1..a, NEW j \in 1..b, ac(p[i]) = ac(r[j])
        PROVE  Before(A, p[i], r[j])
    <3>1. i < a + j
      OBVIOUS
    <3> QED
      BY <1>4, <1>5, <2>3, <3>1, Zenon DEF Sorted
  <2>4. ASSUME NEW f \in Range(p), NEW g \in Range(r), ac(f) = ac(g)
        PROVE  Before(A, f, g)
    <3>1. PICK i \in 1..a : f = p[i]
      BY <1>4, Zenon DEF Range
    <3>2. PICK j \in 1..b : g = r[j]
      BY <1>4, Zenon DEF Range
    <3> QED
      BY <2>3, <2>4, <3>1, <3>2
  <2>5. Precede(p, r, A)
    BY <2>4, Zenon DEF Precede
  <2> QED
    BY <1>4, <2>1, <2>2, <2>5, Zenon DEF Sorted
<1>6. ASSUME Sorted(p, A), Sorted(r, A), Precede(p, r, A)
      PROVE  Sorted(q, A)
  <2>1. \A i, j \in 1..a : i < j /\ ac(p[i]) = ac(p[j]) => Before(A, p[i], p[j])
    BY <1>4, <1>6, Zenon DEF Sorted
  <2>2. \A i, j \in 1..b : i < j /\ ac(r[i]) = ac(r[j]) => Before(A, r[i], r[j])
    BY <1>4, <1>6, Zenon DEF Sorted
  <2>3. \A i \in 1..a, j \in 1..b : ac(p[i]) = ac(r[j]) => Before(A, p[i], r[j])
    BY <1>4, <1>6, Zenon DEF Precede, Range
  <2>4. ASSUME NEW i \in DOMAIN q, NEW j \in DOMAIN q, i < j, ac(q[i]) = ac(q[j])
        PROVE  Before(A, q[i], q[j])
    <3>1. CASE i \in 1..a /\ j \in 1..a
      <4>1. q[i] = p[i] /\ q[j] = p[j]
        BY <1>4, <3>1
      <4> QED
        BY <2>1, <2>4, <3>1, <4>1, Zenon
    <3>2. CASE i \in 1..a /\ j \notin 1..a
      <4>1. PICK l \in 1..b : j = a + l
        BY <1>4, <3>2
      <4>2. q[i] = p[i] /\ q[j] = r[l]
        BY <1>4, <3>2, <4>1
      <4> QED
        BY <2>3, <2>4, <3>2, <4>2, Zenon
    <3>3. CASE i \notin 1..a
      <4>1. PICK k \in 1..b : i = a + k
        BY <1>4, <3>3
      <4>2. j \notin 1..a
        BY <2>4, <4>1
      <4>3. PICK l \in 1..b : j = a + l
        BY <1>4, <4>2
      <4>4. k < l
        BY <2>4, <4>1, <4>3
      <4>5. q[i] = r[k] /\ q[j] = r[l]
        BY <1>4, <4>1, <4>3
      <4> QED
        BY <2>2, <2>4, <4>4, <4>5, Zenon
    <3> QED
      BY <3>1, <3>2, <3>3
  <2> QED
    BY <2>4, Zenon DEF Sorted
<1> QED
  BY <1>1, <1>5, <1>6

LEMMA FilterSorted ==
  ASSUME NEW T, NEW q \in Seq(T), NEW S, NEW A, Sorted(q, A)
  PROVE  Sorted(Filter(q, S), A)
<1>1. PICK r : r = Filter(q, S)
  OBVIOUS
<1>2. r \in Seq(T)
  BY <1>1, FilterShape
<1>3. PICK m \in [1..Len(r) -> 1..Len(q)] :
              /\ \A k \in 1..Len(r) : r[k] = q[m[k]]
              /\ \A k, l \in 1..Len(r) : k < l => m[k] < m[l]
  <2>1. Kept(r, q, S)
    BY <1>1, FilterShape
  <2> QED
    BY <2>1, Zenon DEF Kept
<1>4. DOMAIN r = 1..Len(r) /\ DOMAIN q = 1..Len(q)
  BY <1>2
<1>5. ASSUME NEW k \in 1..Len(r), NEW l \in 1..Len(r), k < l, ac(r[k]) = ac(r[l])
      PROVE  Before(A, r[k], r[l])
  <2>1. PICK i \in 1..Len(q) : i = m[k]
    OBVIOUS
  <2>2. PICK j \in 1..Len(q) : j = m[l]
    OBVIOUS
  <2>3. i < j /\ r[k] = q[i] /\ r[l] = q[j]
    BY <1>3, <1>5, <2>1, <2>2
  <2> QED
    BY <1>4, <1>5, <2>3, Zenon DEF Sorted
<1>6. Sorted(r, A)
  BY <1>4, <1>5, Zenon DEF Sorted
<1> QED
  BY <1>1, <1>6

LEMMA NothingSorted ==
  ASSUME NEW A
  PROVE  Sorted(<<>>, A)
BY DEF Sorted

(* Removing frames from the history and adding one at its end.             *)
LEMMA HistoryFilter ==
  ASSUME NEW T, NEW A \in Seq(T), NEW S, NEW p \in Seq(T), NEW r \in Seq(T),
         Range(p) \subseteq S, Range(r) \subseteq S
  PROVE  /\ Sorted(p, A) => Sorted(p, Filter(A, S))
         /\ Precede(p, r, A) => Precede(p, r, Filter(A, S))
<1>1. \A f, g \in S : Before(A, f, g) => Before(Filter(A, S), f, g)
  BY FilterBefore
<1>2. \A i \in DOMAIN p : p[i] \in S
  BY DEF Range
<1> QED
  BY <1>1, <1>2, Zenon DEF Sorted, Precede

LEMMA HistoryAppend ==
  ASSUME NEW T, NEW A \in Seq(T), NEW f \in T, NEW p, NEW r
  PROVE  /\ Sorted(p, A) => Sorted(p, Append(A, f))
         /\ Precede(p, r, A) => Precede(p, r, Append(A, f))
         /\ \A g \in Range(A) : Before(Append(A, f), g, f)
         /\ Append(A, f) \in Seq(T)
         /\ Range(Append(A, f)) = Range(A) \cup {f}
<1>1. PICK n \in Nat : n = Len(A)
  OBVIOUS
<1>2. PICK B : B = Append(A, f)
  OBVIOUS
<1>3. /\ B \in Seq(T) /\ DOMAIN A = 1..n /\ DOMAIN B = 1..(n + 1)
      /\ \A i \in 1..n : B[i] = A[i] /\ i \in 1..(n + 1) /\ i < n + 1
      /\ B[n + 1] = f /\ n + 1 \in 1..(n + 1)
  BY <1>1, <1>2
<1>4. \A g, h : Before(A, g, h) => Before(B, g, h)
  BY <1>3, Zenon DEF Before
<1>5. \A g \in Range(A) : Before(B, g, f)
  BY <1>3, Zenon DEF Before, Range
<1>6. Range(B) = Range(A) \cup {f}
  <2>1. \A i \in 1..(n + 1) : i \in 1..n \/ i = n + 1
    OBVIOUS
  <2> QED
    BY <1>3, <2>1, Zenon DEF Range
<1> QED
  BY <1>2, <1>3, <1>4, <1>5, <1>6, Zenon DEF Sorted, Precede

(* The frames of a history have numbers of their own, so a queue of them   *)
(* is no longer than the pool.                                             *)
Numbered(A) == \A i, j \in DOMAIN A : A[i][1] = A[j][1] => i = j

LEMMA NumberedFrames ==
  ASSUME NEW A \in Seq(Frames), Numbered(A), NEW f \in Range(A), NEW g \in Range(A),
         f[1] = g[1]
  PROVE  f = g
BY Zenon DEF Numbered, Range

LEMMA QueueBound ==
  ASSUME NEW A \in Seq(Frames), Numbered(A), NEW q \in Seq(Frames), IsInjective(q),
         Range(q) \subseteq Range(A)
  PROVE  Len(q) \in 0..NFrame
<1>1. PICK n \in Nat : n = Len(q)
  OBVIOUS
<1>2. DOMAIN q = 1..n
  BY <1>1
<1>3. PICK h : h = [i \in 1..n |-> q[i][1]]
  OBVIOUS
<1>4. \A i \in 1..n : q[i] \in Frames /\ q[i] \in Range(A)
  <2>1. \A i \in 1..n : q[i] \in Frames
    BY <1>1
  <2>2. \A i \in 1..n : q[i] \in Range(q)
    BY <1>2, Zenon DEF Range
  <2> QED
    BY <2>1, <2>2
<1>5. \A i \in 1..n : q[i][1] \in 1..NFrame
  BY <1>4 DEF Frames
<1>6. h \in [1..n -> 1..NFrame]
  BY <1>3, <1>5
<1>7. ASSUME NEW i \in 1..n, NEW j \in 1..n, h[i] = h[j] PROVE i = j
  <2>1. q[i][1] = q[j][1]
    BY <1>3, <1>7
  <2>2. q[i] = q[j]
    BY <1>4, <2>1, NumberedFrames
  <2> QED
    BY <1>2, <2>2, Zenon DEF IsInjective
<1>8. h \in Injection(1..n, 1..NFrame)
  BY <1>6, <1>7 DEF Injection, IsInjective
<1>9. IsFiniteSet(1..NFrame) /\ Cardinality(1..NFrame) = NFrame /\ Cardinality(1..n) = n
      /\ NFrame \in Nat
  BY ApAssumption, FS_Interval
<1>10. n <= NFrame
  BY <1>8, <1>9, FS_Injection
<1> QED
  BY <1>1, <1>9, <1>10

LEMMA RangeSize ==
  ASSUME NEW T, NEW q \in Seq(T), IsInjective(q)
  PROVE  Cardinality(Range(q)) = Len(q)
<1>1. PICK n \in Nat : n = Len(q)
  OBVIOUS
<1>2. DOMAIN q = 1..n
  BY <1>1
<1>3. \A x \in Range(q) : \E i \in 1..n : q[i] = x
  BY <1>2, Zenon DEF Range
<1>4. q \in [1..n -> Range(q)]
  BY <1>2 DEF Range
<1>5. q \in Injection(1..n, Range(q)) /\ q \in Surjection(1..n, Range(q))
  BY <1>3, <1>4 DEF Injection, Surjection
<1>6. IsFiniteSet(1..n) /\ Cardinality(1..n) = n
  BY FS_Interval
<1>7. Cardinality(Range(q)) = Cardinality(1..n)
  BY <1>5, <1>6, FS_Surjection
<1> QED
  BY <1>1, <1>6, <1>7

-----------------------------------------------------------------------------
(* The buffers of management frames.  Each belongs to a station, released  *)
(* or parked, to the pool, or is lost when rtw_free_stainfo drops a        *)
(* released frame; the counters count what somebody owns, so none exceeds  *)
(* NExt.  The sum over the stations is never formed.                       *)

Owners == (Stas \cup {Bmc}) \X {"pend", "park", "free", "lost"}
Owned(own, o) == {b \in 1..NExt : own[b] = o}
Count(own, o) == Cardinality(Owned(own, o))

Accounts(own, pend, park, free) ==
  /\ own \in [1..NExt -> Owners]
  /\ \A s \in Stas : Count(own, <<s, "pend">>) = pend[s] /\ Count(own, <<s, "park">>) = park[s]
  /\ Count(own, <<Bmc, "free">>) = free

BufInv ==
  /\ mgmt_pending \in [Stas -> Nat] /\ mgmt_sleep_q \in [Stas -> Nat]
  /\ \E own : Accounts(own, mgmt_pending, mgmt_sleep_q, free_xmit_extbuf_cnt)

LEMMA Bufs == NExt \in Nat /\ Bmc \notin Stas
BY ApAssumption

LEMMA CountType ==
  ASSUME NEW own, NEW o
  PROVE  IsFiniteSet(Owned(own, o)) /\ Count(own, o) \in 0..NExt
<1>1. IsFiniteSet(1..NExt) /\ Cardinality(1..NExt) = NExt
  BY Bufs, FS_Interval
<1>2. Owned(own, o) \in SUBSET (1..NExt)
  BY DEF Owned
<1>3. IsFiniteSet(Owned(own, o)) /\ Cardinality(Owned(own, o)) <= Cardinality(1..NExt)
  BY <1>1, <1>2, FS_Subset
<1>4. Cardinality(Owned(own, o)) \in Nat
  BY <1>3, FS_CardinalityType
<1> QED
  BY <1>1, <1>3, <1>4, Bufs DEF Count

LEMMA Moved ==
  ASSUME NEW own \in [1..NExt -> Owners], NEW x \in Owners, NEW y \in Owners, x # y,
         NEW B \in SUBSET Owned(own, x)
  PROVE  \E new \in [1..NExt -> Owners] :
           /\ Count(new, x) = Count(own, x) - Cardinality(B)
           /\ Count(new, y) = Count(own, y) + Cardinality(B)
           /\ \A z : z # x /\ z # y => Count(new, z) = Count(own, z)
<1>1. PICK new : new = [b \in 1..NExt |-> IF b \in B THEN y ELSE own[b]]
  OBVIOUS
<1>2. new \in [1..NExt -> Owners]
  BY <1>1
<1>3. Owned(new, x) = Owned(own, x) \ B
  BY <1>1 DEF Owned
<1>4. Owned(new, y) = Owned(own, y) \cup B /\ Owned(own, y) \cap B = {}
  BY <1>1 DEF Owned
<1>5. ASSUME NEW z, z # x, z # y PROVE Owned(new, z) = Owned(own, z)
  BY <1>1, <1>5 DEF Owned
<1>6. IsFiniteSet(Owned(own, x)) /\ IsFiniteSet(Owned(own, y)) /\ IsFiniteSet(B)
  BY CountType, FS_Subset
<1>7. Cardinality(B) \in Nat /\ Cardinality(Owned(own, y)) \in Nat
  BY <1>6, FS_CardinalityType
<1>8. Owned(own, x) \cap B = B
  OBVIOUS
<1>9. Cardinality(Owned(own, x) \ B) = Cardinality(Owned(own, x)) - Cardinality(B)
  BY <1>6, <1>8, FS_Difference
<1>10. Cardinality(Owned(own, y) \cup B) =
         Cardinality(Owned(own, y)) + Cardinality(B) - Cardinality(Owned(own, y) \cap B)
  BY <1>6, FS_Union
<1>11. Cardinality(Owned(own, y) \cap B) = 0
  BY <1>4, FS_EmptySet
<1>12. Cardinality(Owned(own, y) \cup B) = Cardinality(Owned(own, y)) + Cardinality(B)
  <2>1. Cardinality(Owned(own, y) \cup B) = Cardinality(Owned(own, y)) + Cardinality(B) - 0
    BY <1>10, <1>11
  <2> QED
    BY <1>7, <2>1
<1>13. /\ Count(new, x) = Count(own, x) - Cardinality(B)
       /\ Count(new, y) = Count(own, y) + Cardinality(B)
  BY <1>3, <1>4, <1>9, <1>12 DEF Count
<1>14. \A z : z # x /\ z # y => Count(new, z) = Count(own, z)
  BY <1>5, Zenon DEF Count
<1> QED
  BY <1>2, <1>13, <1>14

LEMMA MovedOne ==
  ASSUME NEW own \in [1..NExt -> Owners], NEW x \in Owners, NEW y \in Owners, x # y,
         Count(own, x) > 0
  PROVE  \E new \in [1..NExt -> Owners] :
           /\ Count(new, x) = Count(own, x) - 1 /\ Count(new, y) = Count(own, y) + 1
           /\ \A z : z # x /\ z # y => Count(new, z) = Count(own, z)
<1>1. Owned(own, x) # {}
  <2>1. Count(own, x) \in Nat
    BY CountType, Bufs
  <2> QED
    BY <2>1, FS_EmptySet DEF Count
<1>2. PICK b : b \in Owned(own, x)
  BY <1>1
<1>3. {b} \in SUBSET Owned(own, x) /\ Cardinality({b}) = 1
  BY <1>2, FS_Singleton
<1> QED
  BY <1>3, Moved

LEMMA MovedAll ==
  ASSUME NEW own \in [1..NExt -> Owners], NEW x \in Owners, NEW y \in Owners, x # y
  PROVE  \E new \in [1..NExt -> Owners] :
           /\ Count(new, x) = 0 /\ Count(new, y) = Count(own, y) + Count(own, x)
           /\ \A z : z # x /\ z # y => Count(new, z) = Count(own, z)
<1>1. Owned(own, x) \in SUBSET Owned(own, x) /\ Cardinality(Owned(own, x)) = Count(own, x)
  BY DEF Count
<1>2. PICK new \in [1..NExt -> Owners] :
           /\ Count(new, x) = Count(own, x) - Count(own, x)
           /\ Count(new, y) = Count(own, y) + Count(own, x)
           /\ \A z : z # x /\ z # y => Count(new, z) = Count(own, z)
  BY <1>1, Moved
<1>3. Count(own, x) - Count(own, x) = 0
  BY CountType, Bufs
<1> QED
  BY <1>2, <1>3

(* Whose a buffer is, and that these are different accounts.               *)
LEMMA OwnerFacts ==
  /\ <<Bmc, "free">> \in Owners
  /\ <<Bmc, "lost">> \in Owners
  /\ \A s \in Stas : <<s, "pend">> \in Owners /\ <<s, "park">> \in Owners
  /\ \A s, t : <<s, "pend">> # <<t, "park">>
  /\ \A s, t : <<s, "pend">> # <<t, "free">> /\ <<s, "park">> # <<t, "free">>
  /\ \A s, t : <<s, "pend">> # <<t, "lost">> /\ <<s, "park">> # <<t, "lost">>
  /\ \A s, t : <<s, "free">> # <<t, "lost">>
  /\ \A s, t, a : <<s, a>> = <<t, a>> => s = t
BY DEF Owners

(* One frame, or all, between the released and the parked of a station.    *)
LEMMA ParkOne ==
  ASSUME NEW pend \in [Stas -> Nat], NEW park \in [Stas -> Nat], NEW free, NEW s \in Stas,
         NEW own, Accounts(own, pend, park, free), free > 0
  PROVE  \E new : Accounts(new, pend, [park EXCEPT ![s] = @ + 1], free - 1)
<1>0. own \in [1..NExt -> Owners] /\ Count(own, <<Bmc, "free">>) > 0
  BY DEF Accounts
<1>1. PICK new \in [1..NExt -> Owners] :
        /\ Count(new, <<Bmc, "free">>) = Count(own, <<Bmc, "free">>) - 1
        /\ Count(new, <<s, "park">>) = Count(own, <<s, "park">>) + 1
        /\ \A z : z # <<Bmc, "free">> /\ z # <<s, "park">> => Count(new, z) = Count(own, z)
  <2>1. <<Bmc, "free">> \in Owners /\ <<s, "park">> \in Owners /\ <<Bmc, "free">> # <<s, "park">>
    BY OwnerFacts
  <2> QED
    BY <1>0, <2>1, MovedOne
<1>2. ASSUME NEW t \in Stas
      PROVE  /\ Count(new, <<t, "pend">>) = pend[t]
             /\ Count(new, <<t, "park">>) = [park EXCEPT ![s] = @ + 1][t]
  <2>1. Count(new, <<t, "pend">>) = Count(own, <<t, "pend">>)
    BY <1>1, OwnerFacts
  <2>2. t # s => Count(new, <<t, "park">>) = Count(own, <<t, "park">>)
    BY <1>1, OwnerFacts
  <2> QED
    BY <1>1, <2>1, <2>2 DEF Accounts
<1> QED
  BY <1>1, <1>2 DEF Accounts

LEMMA ReleaseOne ==
  ASSUME NEW pend \in [Stas -> Nat], NEW park \in [Stas -> Nat], NEW free, NEW s \in Stas,
         NEW own, Accounts(own, pend, park, free), park[s] > 0
  PROVE  \E new : Accounts(new, [pend EXCEPT ![s] = @ + 1], [park EXCEPT ![s] = @ - 1], free)
<1>0. own \in [1..NExt -> Owners] /\ Count(own, <<s, "park">>) > 0
  BY DEF Accounts
<1>1. PICK new \in [1..NExt -> Owners] :
        /\ Count(new, <<s, "park">>) = Count(own, <<s, "park">>) - 1
        /\ Count(new, <<s, "pend">>) = Count(own, <<s, "pend">>) + 1
        /\ \A z : z # <<s, "park">> /\ z # <<s, "pend">> => Count(new, z) = Count(own, z)
  <2>1. <<s, "park">> \in Owners /\ <<s, "pend">> \in Owners /\ <<s, "park">> # <<s, "pend">>
    BY OwnerFacts
  <2> QED
    BY <1>0, <2>1, MovedOne
<1>2. ASSUME NEW t \in Stas
      PROVE  /\ Count(new, <<t, "pend">>) = [pend EXCEPT ![s] = @ + 1][t]
             /\ Count(new, <<t, "park">>) = [park EXCEPT ![s] = @ - 1][t]
  <2>1. t # s => Count(new, <<t, "pend">>) = Count(own, <<t, "pend">>)
    BY <1>1, OwnerFacts
  <2>2. t # s => Count(new, <<t, "park">>) = Count(own, <<t, "park">>)
    BY <1>1, OwnerFacts
  <2> QED
    BY <1>1, <2>1, <2>2 DEF Accounts
<1>3. Count(new, <<Bmc, "free">>) = Count(own, <<Bmc, "free">>)
  BY <1>1, OwnerFacts
<1> QED
  BY <1>1, <1>2, <1>3 DEF Accounts

LEMMA ParkAll ==
  ASSUME NEW pend \in [Stas -> Nat], NEW park \in [Stas -> Nat], NEW free, NEW s \in Stas,
         NEW own, Accounts(own, pend, park, free)
  PROVE  \E new : Accounts(new, [pend EXCEPT ![s] = 0], [park EXCEPT ![s] = @ + pend[s]], free)
<1>0. own \in [1..NExt -> Owners]
  BY DEF Accounts
<1>1. PICK new \in [1..NExt -> Owners] :
        /\ Count(new, <<s, "pend">>) = 0
        /\ Count(new, <<s, "park">>) = Count(own, <<s, "park">>) + Count(own, <<s, "pend">>)
        /\ \A z : z # <<s, "pend">> /\ z # <<s, "park">> => Count(new, z) = Count(own, z)
  <2>1. <<s, "pend">> \in Owners /\ <<s, "park">> \in Owners /\ <<s, "pend">> # <<s, "park">>
    BY OwnerFacts
  <2> QED
    BY <1>0, <2>1, MovedAll
<1>2. ASSUME NEW t \in Stas
      PROVE  /\ Count(new, <<t, "pend">>) = [pend EXCEPT ![s] = 0][t]
             /\ Count(new, <<t, "park">>) = [park EXCEPT ![s] = @ + pend[s]][t]
  <2>1. t # s => Count(new, <<t, "pend">>) = Count(own, <<t, "pend">>)
    BY <1>1, OwnerFacts
  <2>2. t # s => Count(new, <<t, "park">>) = Count(own, <<t, "park">>)
    BY <1>1, OwnerFacts
  <2> QED
    BY <1>1, <2>1, <2>2 DEF Accounts
<1>3. Count(new, <<Bmc, "free">>) = Count(own, <<Bmc, "free">>)
  BY <1>1, OwnerFacts
<1> QED
  BY <1>1, <1>2, <1>3 DEF Accounts

LEMMA ReleaseAll ==
  ASSUME NEW pend \in [Stas -> Nat], NEW park \in [Stas -> Nat], NEW free, NEW s \in Stas,
         NEW own, Accounts(own, pend, park, free)
  PROVE  \E new : Accounts(new, [pend EXCEPT ![s] = @ + park[s]], [park EXCEPT ![s] = 0], free)
<1>0. own \in [1..NExt -> Owners]
  BY DEF Accounts
<1>1. PICK new \in [1..NExt -> Owners] :
        /\ Count(new, <<s, "park">>) = 0
        /\ Count(new, <<s, "pend">>) = Count(own, <<s, "pend">>) + Count(own, <<s, "park">>)
        /\ \A z : z # <<s, "park">> /\ z # <<s, "pend">> => Count(new, z) = Count(own, z)
  <2>1. <<s, "park">> \in Owners /\ <<s, "pend">> \in Owners /\ <<s, "park">> # <<s, "pend">>
    BY OwnerFacts
  <2> QED
    BY <1>0, <2>1, MovedAll
<1>2. ASSUME NEW t \in Stas
      PROVE  /\ Count(new, <<t, "pend">>) = [pend EXCEPT ![s] = @ + park[s]][t]
             /\ Count(new, <<t, "park">>) = [park EXCEPT ![s] = 0][t]
  <2>1. t # s => Count(new, <<t, "pend">>) = Count(own, <<t, "pend">>)
    BY <1>1, OwnerFacts
  <2>2. t # s => Count(new, <<t, "park">>) = Count(own, <<t, "park">>)
    BY <1>1, OwnerFacts
  <2> QED
    BY <1>1, <2>1, <2>2 DEF Accounts
<1>3. Count(new, <<Bmc, "free">>) = Count(own, <<Bmc, "free">>)
  BY <1>1, OwnerFacts
<1> QED
  BY <1>1, <1>2, <1>3 DEF Accounts

(* A frame is sent: its buffer returns to the pool.                        *)
LEMMA SendOne ==
  ASSUME NEW pend \in [Stas -> Nat], NEW park \in [Stas -> Nat], NEW free, NEW s \in Stas,
         NEW own, Accounts(own, pend, park, free), pend[s] > 0
  PROVE  \E new : Accounts(new, [pend EXCEPT ![s] = @ - 1], park, free + 1)
<1>0. own \in [1..NExt -> Owners] /\ Count(own, <<s, "pend">>) > 0
  BY DEF Accounts
<1>1. PICK new \in [1..NExt -> Owners] :
        /\ Count(new, <<s, "pend">>) = Count(own, <<s, "pend">>) - 1
        /\ Count(new, <<Bmc, "free">>) = Count(own, <<Bmc, "free">>) + 1
        /\ \A z : z # <<s, "pend">> /\ z # <<Bmc, "free">> => Count(new, z) = Count(own, z)
  <2>1. <<s, "pend">> \in Owners /\ <<Bmc, "free">> \in Owners /\ <<s, "pend">> # <<Bmc, "free">>
    BY OwnerFacts
  <2> QED
    BY <1>0, <2>1, MovedOne
<1>2. ASSUME NEW t \in Stas
      PROVE  /\ Count(new, <<t, "pend">>) = [pend EXCEPT ![s] = @ - 1][t]
             /\ Count(new, <<t, "park">>) = park[t]
  <2>1. t # s => Count(new, <<t, "pend">>) = Count(own, <<t, "pend">>)
    BY <1>1, OwnerFacts
  <2>2. Count(new, <<t, "park">>) = Count(own, <<t, "park">>)
    BY <1>1, OwnerFacts
  <2> QED
    BY <1>1, <2>1, <2>2 DEF Accounts
<1> QED
  BY <1>1, <1>2 DEF Accounts

(* A station leaves: parked buffers return, released ones are lost.        *)
LEMMA DropAll ==
  ASSUME NEW pend \in [Stas -> Nat], NEW park \in [Stas -> Nat], NEW free, NEW s \in Stas,
         NEW own, Accounts(own, pend, park, free)
  PROVE  \E new : Accounts(new, [pend EXCEPT ![s] = 0], [park EXCEPT ![s] = 0], free + park[s])
<1>0. own \in [1..NExt -> Owners]
  BY DEF Accounts
<1>1. PICK mid \in [1..NExt -> Owners] :
        /\ Count(mid, <<s, "park">>) = 0
        /\ Count(mid, <<Bmc, "free">>) = Count(own, <<Bmc, "free">>) + Count(own, <<s, "park">>)
        /\ \A z : z # <<s, "park">> /\ z # <<Bmc, "free">> => Count(mid, z) = Count(own, z)
  <2>1. <<s, "park">> \in Owners /\ <<Bmc, "free">> \in Owners /\ <<s, "park">> # <<Bmc, "free">>
    BY OwnerFacts
  <2> QED
    BY <1>0, <2>1, MovedAll
<1>2. PICK new \in [1..NExt -> Owners] :
        /\ Count(new, <<s, "pend">>) = 0
        /\ \A z : z # <<s, "pend">> /\ z # <<Bmc, "lost">> => Count(new, z) = Count(mid, z)
  <2>1. <<s, "pend">> \in Owners /\ <<Bmc, "lost">> \in Owners /\ <<s, "pend">> # <<Bmc, "lost">>
    BY OwnerFacts
  <2> QED
    BY <2>1, MovedAll
<1>3. ASSUME NEW t \in Stas
      PROVE  /\ Count(new, <<t, "pend">>) = [pend EXCEPT ![s] = 0][t]
             /\ Count(new, <<t, "park">>) = [park EXCEPT ![s] = 0][t]
  <2>1. t # s => Count(new, <<t, "pend">>) = Count(own, <<t, "pend">>)
    BY <1>1, <1>2, OwnerFacts
  <2>2. t # s => Count(new, <<t, "park">>) = Count(own, <<t, "park">>)
    BY <1>1, <1>2, OwnerFacts
  <2>3. Count(new, <<s, "park">>) = 0
    BY <1>1, <1>2, OwnerFacts
  <2> QED
    BY <1>2, <2>1, <2>2, <2>3 DEF Accounts
<1>4. Count(new, <<Bmc, "free">>) = Count(own, <<Bmc, "free">>) + Count(own, <<s, "park">>)
  BY <1>1, <1>2, OwnerFacts
<1> QED
  BY <1>2, <1>3, <1>4 DEF Accounts

-----------------------------------------------------------------------------
(* The data frames.  A frame in use is in one queue of one station, once.  *)

Queued(s) == sta_pending[s] \o sleep_q[s]

DataTypes ==
  /\ age \in Seq(Frames)
  /\ sta_pending \in [Stas -> Seq(Frames)] /\ sleep_q \in [Stas -> Seq(Frames)]

DataInv ==
  /\ DataTypes
  /\ Numbered(age)
  /\ \A s \in Stas : IsInjective(Queued(s)) /\ Range(Queued(s)) \subseteq Range(age)
  /\ \A s, t \in Stas : s # t => Range(Queued(s)) \cap Range(Queued(t)) = {}

LEMMA FilterNumbered ==
  ASSUME NEW A \in Seq(Frames), Numbered(A), NEW S
  PROVE  Numbered(Filter(A, S))
<1>1. PICK r : r = Filter(A, S)
  OBVIOUS
<1>2. r \in Seq(Frames)
  BY <1>1, FilterShape
<1>3. PICK m \in [1..Len(r) -> 1..Len(A)] :
              /\ \A k \in 1..Len(r) : r[k] = A[m[k]]
              /\ \A k, l \in 1..Len(r) : k < l => m[k] < m[l]
  <2>1. Kept(r, A, S)
    BY <1>1, FilterShape
  <2> QED
    BY <2>1, Zenon DEF Kept
<1>4. DOMAIN r = 1..Len(r) /\ DOMAIN A = 1..Len(A) /\ Len(r) \in Nat /\ Len(A) \in Nat
  BY <1>2
<1>5. ASSUME NEW k \in 1..Len(r), NEW l \in 1..Len(r), r[k][1] = r[l][1] PROVE k = l
  <2>1. PICK a \in 1..Len(A) : a = m[k]
    OBVIOUS
  <2>2. PICK b \in 1..Len(A) : b = m[l]
    OBVIOUS
  <2>3. A[a][1] = A[b][1]
    BY <1>3, <1>5, <2>1, <2>2
  <2>4. a = b
    BY <1>4, <2>3, Zenon DEF Numbered
  <2>5. ~(a < b) /\ ~(b < a)
    BY <1>4, <2>4
  <2>6. ~(k < l) /\ ~(l < k)
    BY <1>3, <2>1, <2>2, <2>5
  <2> QED
    BY <1>4, <2>6
<1> QED
  BY <1>1, <1>4, <1>5, Zenon DEF Numbered

(* The queues of a station, taken apart.                                   *)
LEMMA Parts ==
  ASSUME DataInv, NEW s \in Stas
  PROVE  /\ sta_pending[s] \in Seq(Frames) /\ sleep_q[s] \in Seq(Frames)
         /\ Range(Queued(s)) = Range(sta_pending[s]) \cup Range(sleep_q[s])
         /\ IsInjective(sta_pending[s]) /\ IsInjective(sleep_q[s])
         /\ Range(sta_pending[s]) \cap Range(sleep_q[s]) = {}
         /\ Range(Queued(s)) \subseteq Range(age)
<1>1. sta_pending[s] \in Seq(Frames) /\ sleep_q[s] \in Seq(Frames)
  BY DEF DataInv, DataTypes
<1>2. IsInjective(Queued(s)) /\ Range(Queued(s)) \subseteq Range(age)
  BY DEF DataInv
<1>3. PICK p \in Seq(Frames) : p = sta_pending[s]
  BY <1>1
<1>4. PICK q \in Seq(Frames) : q = sleep_q[s]
  BY <1>1
<1>5. Queued(s) = p \o q
  BY <1>3, <1>4 DEF Queued
<1>6. Range(p \o q) = Range(p) \cup Range(q)
  BY RangeConcatenation
<1>7. IsInjective(p) /\ IsInjective(q) /\ Range(p) \cap Range(q) = {}
  BY <1>2, <1>5, ConcatInjective
<1> QED
  BY <1>1, <1>2, <1>3, <1>4, <1>5, <1>6, <1>7

LEMMA Lengths ==
  ASSUME DataInv, NEW s \in Stas
  PROVE  /\ Len(sta_pending[s]) \in 0..NFrame /\ Len(sleep_q[s]) \in 0..NFrame
         /\ Len(sta_pending[s]) + Len(sleep_q[s]) \in 0..NFrame
<1>1. age \in Seq(Frames) /\ Numbered(age)
  BY DEF DataInv, DataTypes
<1>2. PICK p \in Seq(Frames) : p = sta_pending[s]
  BY DEF DataInv, DataTypes
<1>3. PICK q \in Seq(Frames) : q = sleep_q[s]
  BY DEF DataInv, DataTypes
<1>4. IsInjective(p \o q) /\ Range(p \o q) \subseteq Range(age)
  BY <1>2, <1>3 DEF DataInv, Queued
<1>5. p \o q \in Seq(Frames) /\ Len(p \o q) = Len(p) + Len(q) /\ Len(p) \in Nat /\ Len(q) \in Nat
  OBVIOUS
<1>6. Len(p \o q) \in 0..NFrame
  BY <1>1, <1>4, <1>5, QueueBound
<1>7. NFrame \in Nat
  BY ApAssumption
<1>8. Len(p) \in 0..NFrame /\ Len(q) \in 0..NFrame /\ Len(p) + Len(q) \in 0..NFrame
  BY <1>5, <1>6, <1>7
<1> QED
  BY <1>2, <1>3, <1>8

(* Frames of a station change their queue or their place.                  *)
LEMMA Requeued ==
  ASSUME DataInv, NEW s \in Stas, NEW p \in Seq(Frames), NEW q \in Seq(Frames),
         IsInjective(p \o q), Range(p \o q) \subseteq Range(Queued(s)), age' = age,
         sta_pending' = [sta_pending EXCEPT ![s] = p], sleep_q' = [sleep_q EXCEPT ![s] = q]
  PROVE  DataInv'
<1>1. DataTypes'
  BY DEF DataInv, DataTypes
<1>2. PICK Q : Q = [t \in Stas |-> Queued(t)]
  OBVIOUS
<1>3. PICK R : R = [t \in Stas |-> sta_pending'[t] \o sleep_q'[t]]
  OBVIOUS
<1>4. R[s] = p \o q /\ \A t \in Stas : t # s => R[t] = Q[t]
  <2>1. sta_pending'[s] = p /\ sleep_q'[s] = q
    BY DEF DataInv, DataTypes
  <2>2. \A t \in Stas : t # s => sta_pending'[t] = sta_pending[t] /\ sleep_q'[t] = sleep_q[t]
    BY DEF DataInv, DataTypes
  <2>3. R[s] = p \o q
    BY <1>3, <2>1
  <2>4. ASSUME NEW t \in Stas, t # s PROVE R[t] = Q[t]
    <3>1. R[t] = sta_pending'[t] \o sleep_q'[t] /\ Q[t] = sta_pending[t] \o sleep_q[t]
      BY <1>2, <1>3 DEF Queued
    <3> QED
      BY <2>2, <2>4, <3>1
  <2> QED
    BY <2>3, <2>4
<1>5. \A t \in Stas : IsInjective(Q[t]) /\ Range(Q[t]) \subseteq Range(age)
  BY <1>2 DEF DataInv
<1>6. \A t, u \in Stas : t # u => Range(Q[t]) \cap Range(Q[u]) = {}
  BY <1>2 DEF DataInv
<1>7. Range(R[s]) \subseteq Range(Q[s]) /\ IsInjective(R[s])
  BY <1>2, <1>4
<1>8. \A t \in Stas : IsInjective(R[t]) /\ Range(R[t]) \subseteq Range(age')
  BY <1>4, <1>5, <1>7
<1>9. \A t \in Stas : Range(R[t]) \subseteq Range(Q[t])
  BY <1>4, <1>7
<1>10. \A t, u \in Stas : t # u => Range(R[t]) \cap Range(R[u]) = {}
  BY <1>6, <1>9
<1>11. ASSUME NEW t \in Stas PROVE Queued(t)' = R[t]
  <2>1. R[t] = sta_pending'[t] \o sleep_q'[t]
    BY <1>3
  <2> QED
    BY <2>1, Zenon DEF Queued
<1>12. Numbered(age)'
  BY DEF DataInv
<1> QED
  BY <1>1, <1>8, <1>10, <1>11, <1>12 DEF DataInv

(* rtw_xmit: a frame that was not in use goes to the end of a queue.       *)
LEMMA Fresh ==
  ASSUME DataInv, NEW a \in ACs, NEW x \in Unused
  PROVE  /\ <<x, a>> \in Frames /\ <<x, a>> \notin Range(age)
         /\ Append(age, <<x, a>>) \in Seq(Frames) /\ Numbered(Append(age, <<x, a>>))
<1>1. age \in Seq(Frames) /\ Numbered(age)
  BY DEF DataInv, DataTypes
<1>2. x \in 1..NFrame /\ \A i \in DOMAIN age : age[i][1] # x
  BY DEF Unused
<1>3. PICK f : f = <<x, a>>
  OBVIOUS
<1>4. f \in Frames /\ f[1] = x
  BY <1>2, <1>3 DEF Frames
<1>5. f \notin Range(age)
  BY <1>2, <1>4, Zenon DEF Range
<1>6. PICK n \in Nat : n = Len(age)
  BY <1>1
<1>7. PICK B : B = Append(age, f)
  OBVIOUS
<1>8. /\ B \in Seq(Frames) /\ DOMAIN age = 1..n /\ DOMAIN B = 1..(n + 1)
      /\ \A i \in 1..n : B[i] = age[i]
      /\ B[n + 1] = f
  BY <1>1, <1>4, <1>6, <1>7
<1>9. ASSUME NEW i \in 1..(n + 1), NEW j \in 1..(n + 1), B[i][1] = B[j][1] PROVE i = j
  <2>1. (i \in 1..n \/ i = n + 1) /\ (j \in 1..n \/ j = n + 1)
    OBVIOUS
  <2>2. CASE i \in 1..n /\ j \in 1..n
    <3>1. age[i][1] = age[j][1]
      BY <1>8, <1>9, <2>2
    <3> QED
      BY <1>1, <1>8, <2>2, <3>1, Zenon DEF Numbered
  <2>3. CASE i \in 1..n /\ j = n + 1
    BY <1>2, <1>4, <1>8, <1>9, <2>3
  <2>4. CASE i = n + 1 /\ j \in 1..n
    BY <1>2, <1>4, <1>8, <1>9, <2>4
  <2> QED
    BY <2>1, <2>2, <2>3, <2>4
<1>10. Numbered(B)
  BY <1>8, <1>9, Zenon DEF Numbered
<1> QED
  BY <1>3, <1>4, <1>5, <1>7, <1>8, <1>10

LEMMA Enqueued ==
  ASSUME DataInv, NEW s \in Stas, NEW f \in Frames, f \notin Range(age),
         age' = Append(age, f), Numbered(Append(age, f)),
         \/ /\ sleep_q' = [sleep_q EXCEPT ![s] = Append(@, f)]
            /\ sta_pending' = sta_pending
         \/ /\ sta_pending' = [sta_pending EXCEPT ![s] = Append(@, f)]
            /\ sleep_q' = sleep_q
  PROVE  DataInv'
<1>0. age \in Seq(Frames)
  BY DEF DataInv, DataTypes
<1>1. PICK p \in Seq(Frames) : p = sta_pending[s]
  BY DEF DataInv, DataTypes
<1>2. PICK q \in Seq(Frames) : q = sleep_q[s]
  BY DEF DataInv, DataTypes
<1>3. /\ IsInjective(p) /\ IsInjective(q) /\ Range(p) \cap Range(q) = {}
      /\ Range(p) \subseteq Range(age) /\ Range(q) \subseteq Range(age)
  BY <1>1, <1>2, Parts
<1>4. ASSUME NEW r \in Seq(Frames), IsInjective(r), f \notin Range(r)
      PROVE  /\ Append(r, f) \in Seq(Frames) /\ IsInjective(Append(r, f))
             /\ Range(Append(r, f)) = Range(r) \cup {f}
  <2>1. PICK e \in Seq(Frames) :
          Range(e) = {f} /\ IsInjective(e) /\ Append(r, f) = r \o e
    BY OneElement
  <2>2. IsInjective(r \o e)
    BY <1>4, <2>1, ConcatInjective
  <2>3. Range(r \o e) = Range(r) \cup {f}
    BY <2>1, RangeConcatenation
  <2>4. r \o e \in Seq(Frames)
    OBVIOUS
  <2> QED
    BY <2>1, <2>2, <2>3, <2>4
<1>5. PICK pn \in Seq(Frames), qn \in Seq(Frames) :
        /\ sta_pending' = [sta_pending EXCEPT ![s] = pn] /\ sleep_q' = [sleep_q EXCEPT ![s] = qn]
        /\ IsInjective(pn) /\ IsInjective(qn) /\ Range(pn) \cap Range(qn) = {}
        /\ Range(pn) \cup Range(qn) = Range(p) \cup Range(q) \cup {f}
  <2>1. sta_pending = [sta_pending EXCEPT ![s] = p] /\ sleep_q = [sleep_q EXCEPT ![s] = q]
    BY <1>1, <1>2 DEF DataInv, DataTypes
  <2>2. CASE sleep_q' = [sleep_q EXCEPT ![s] = Append(@, f)] /\ sta_pending' = sta_pending
    <3>1. sleep_q' = [sleep_q EXCEPT ![s] = Append(q, f)]
      BY <1>2, <2>2
    <3>2. f \notin Range(q)
      BY <1>3
    <3>3. /\ Append(q, f) \in Seq(Frames) /\ IsInjective(Append(q, f))
          /\ Range(Append(q, f)) = Range(q) \cup {f}
      BY <1>3, <1>4, <3>2
    <3>4. /\ Range(p) \cap Range(Append(q, f)) = {}
          /\ Range(p) \cup Range(Append(q, f)) = Range(p) \cup Range(q) \cup {f}
      BY <1>3, <3>3
    <3> QED
      BY <1>3, <2>1, <2>2, <3>1, <3>3, <3>4
  <2>3. CASE sta_pending' = [sta_pending EXCEPT ![s] = Append(@, f)] /\ sleep_q' = sleep_q
    <3>1. sta_pending' = [sta_pending EXCEPT ![s] = Append(p, f)]
      BY <1>1, <2>3
    <3>2. f \notin Range(p)
      BY <1>3
    <3>3. /\ Append(p, f) \in Seq(Frames) /\ IsInjective(Append(p, f))
          /\ Range(Append(p, f)) = Range(p) \cup {f}
      BY <1>3, <1>4, <3>2
    <3>4. /\ Range(Append(p, f)) \cap Range(q) = {}
          /\ Range(Append(p, f)) \cup Range(q) = Range(p) \cup Range(q) \cup {f}
      BY <1>3, <3>3
    <3> QED
      BY <1>3, <2>1, <2>3, <3>1, <3>3, <3>4
  <2> QED
    BY <2>2, <2>3
<1>6. PICK R : R = [t \in Stas |-> sta_pending'[t] \o sleep_q'[t]]
  OBVIOUS
<1>7. PICK Q : Q = [t \in Stas |-> Queued(t)]
  OBVIOUS
<1>8. R[s] = pn \o qn /\ \A t \in Stas : t # s => R[t] = Q[t]
  <2>1. sta_pending'[s] = pn /\ sleep_q'[s] = qn
    BY <1>5 DEF DataInv, DataTypes
  <2>2. \A t \in Stas : t # s => sta_pending'[t] = sta_pending[t] /\ sleep_q'[t] = sleep_q[t]
    BY <1>5 DEF DataInv, DataTypes
  <2>3. R[s] = pn \o qn
    BY <1>6, <2>1
  <2>4. ASSUME NEW t \in Stas, t # s PROVE R[t] = Q[t]
    <3>1. R[t] = sta_pending'[t] \o sleep_q'[t] /\ Q[t] = sta_pending[t] \o sleep_q[t]
      BY <1>6, <1>7 DEF Queued
    <3> QED
      BY <2>2, <2>4, <3>1
  <2> QED
    BY <2>3, <2>4
<1>9. \A t \in Stas : IsInjective(Q[t]) /\ Range(Q[t]) \subseteq Range(age)
  BY <1>7 DEF DataInv
<1>10. \A t, u \in Stas : t # u => Range(Q[t]) \cap Range(Q[u]) = {}
  BY <1>7 DEF DataInv
<1>11. IsInjective(R[s]) /\ Range(R[s]) = Range(Q[s]) \cup {f}
  <2>1. Range(pn \o qn) = Range(pn) \cup Range(qn)
    BY RangeConcatenation
  <2>2. IsInjective(pn \o qn)
    BY <1>5, ConcatInjective
  <2>3. Q[s] = p \o q
    BY <1>1, <1>2, <1>7 DEF Queued
  <2>4. Range(p \o q) = Range(p) \cup Range(q)
    BY RangeConcatenation
  <2> QED
    BY <1>5, <1>8, <2>1, <2>2, <2>3, <2>4
<1>12. Range(age') = Range(age) \cup {f} /\ age' \in Seq(Frames)
  BY <1>0, HistoryAppend
<1>13. \A t \in Stas : IsInjective(R[t]) /\ Range(R[t]) \subseteq Range(age')
  BY <1>8, <1>9, <1>11, <1>12
<1>14. \A t \in Stas : t # s => Range(R[t]) = Range(Q[t]) /\ f \notin Range(R[t])
  BY <1>8, <1>9
<1>15. ASSUME NEW t \in Stas, NEW u \in Stas, t # u PROVE Range(R[t]) \cap Range(R[u]) = {}
  <2>1. Range(Q[t]) \cap Range(Q[u]) = {}
    BY <1>10, <1>15
  <2>2. CASE t = s
    BY <1>11, <1>14, <1>15, <2>1, <2>2
  <2>3. CASE u = s
    BY <1>11, <1>14, <1>15, <2>1, <2>3
  <2>4. CASE t # s /\ u # s
    BY <1>14, <2>1, <2>4
  <2> QED
    BY <2>2, <2>3, <2>4
<1>16. DataTypes'
  BY <1>5, <1>12 DEF DataInv, DataTypes
<1>17. ASSUME NEW t \in Stas PROVE Queued(t)' = R[t]
  <2>1. R[t] = sta_pending'[t] \o sleep_q'[t]
    BY <1>6
  <2> QED
    BY <2>1, Zenon DEF Queued
<1>18. Numbered(age)'
  OBVIOUS
<1> QED
  BY <1>13, <1>15, <1>16, <1>17, <1>18 DEF DataInv

(* Frames leave the queues of a station and the history.                   *)
LEMMA Dequeued ==
  ASSUME DataInv, NEW s \in Stas, NEW p \in Seq(Frames), NEW q \in Seq(Frames), NEW G,
         IsInjective(p \o q), G \subseteq Range(Queued(s)),
         Range(p \o q) \subseteq Range(Queued(s)) \ G,
         age' = Filter(age, Frames \ G),
         sta_pending' = [sta_pending EXCEPT ![s] = p], sleep_q' = [sleep_q EXCEPT ![s] = q]
  PROVE  DataInv'
<1>0. age \in Seq(Frames) /\ Numbered(age)
  BY DEF DataInv, DataTypes
<1>1. /\ Filter(age, Frames \ G) \in Seq(Frames) /\ Numbered(Filter(age, Frames \ G))
      /\ Range(Filter(age, Frames \ G)) = Range(age) \cap (Frames \ G)
  BY <1>0, FilterShape, FilterNumbered, FilterRange
<1>2. Range(age) \subseteq Frames
  BY <1>0, RangeOfSeq
<1>3. Range(age') = Range(age) \ G
  BY <1>1, <1>2
<1>4. DataTypes' /\ Numbered(age)'
  BY <1>1 DEF DataInv, DataTypes
<1>6. PICK R : R = [t \in Stas |-> sta_pending'[t] \o sleep_q'[t]]
  OBVIOUS
<1>7. PICK Q : Q = [t \in Stas |-> Queued(t)]
  OBVIOUS
<1>8. R[s] = p \o q /\ \A t \in Stas : t # s => R[t] = Q[t]
  <2>1. sta_pending'[s] = p /\ sleep_q'[s] = q
    BY DEF DataInv, DataTypes
  <2>2. \A t \in Stas : t # s => sta_pending'[t] = sta_pending[t] /\ sleep_q'[t] = sleep_q[t]
    BY DEF DataInv, DataTypes
  <2>3. R[s] = p \o q
    BY <1>6, <2>1
  <2>4. ASSUME NEW t \in Stas, t # s PROVE R[t] = Q[t]
    <3>1. R[t] = sta_pending'[t] \o sleep_q'[t] /\ Q[t] = sta_pending[t] \o sleep_q[t]
      BY <1>6, <1>7 DEF Queued
    <3> QED
      BY <2>2, <2>4, <3>1
  <2> QED
    BY <2>3, <2>4
<1>9. \A t \in Stas : IsInjective(Q[t]) /\ Range(Q[t]) \subseteq Range(age)
  BY <1>7 DEF DataInv
<1>10. \A t, u \in Stas : t # u => Range(Q[t]) \cap Range(Q[u]) = {}
  BY <1>7 DEF DataInv
<1>11. IsInjective(R[s]) /\ G \subseteq Range(Q[s]) /\ Range(R[s]) \subseteq Range(Q[s]) \ G
  BY <1>7, <1>8
<1>12. \A t \in Stas : t # s => Range(Q[t]) \cap G = {}
  BY <1>10, <1>11
<1>13. \A t \in Stas : IsInjective(R[t]) /\ Range(R[t]) \subseteq Range(age) \ G
  BY <1>8, <1>9, <1>11, <1>12
<1>14. \A t \in Stas : Range(R[t]) \subseteq Range(Q[t])
  BY <1>8, <1>11
<1>15. \A t, u \in Stas : t # u => Range(R[t]) \cap Range(R[u]) = {}
  BY <1>10, <1>14
<1>17. ASSUME NEW t \in Stas PROVE Queued(t)' = R[t]
  <2>1. R[t] = sta_pending'[t] \o sleep_q'[t]
    BY <1>6
  <2> QED
    BY <2>1, Zenon DEF Queued
<1> QED
  BY <1>3, <1>4, <1>13, <1>15, <1>17 DEF DataInv

-----------------------------------------------------------------------------
(* The order of the frames of a station.                                   *)

LEMMA Join ==
  ASSUME NEW T, NEW p \in Seq(T), NEW r \in Seq(T)
  PROVE  \E w \in Seq(T) : w = p \o r
<1>1. p \o r \in Seq(T)
  OBVIOUS
<1> QED
  BY <1>1, Zenon

LEMMA NoFrames == \E n \in Seq(Frames) : n = <<>>
<1>1. <<>> \in Seq(Frames)
  OBVIOUS
<1> QED
  BY <1>1, Zenon

OrdInv == \A s \in Stas : Sorted(Queued(s), age)

LEMMA RequeuedOrder ==
  ASSUME DataInv, OrdInv, NEW s \in Stas, NEW p \in Seq(Frames), NEW q \in Seq(Frames),
         Sorted(p \o q, age), age' = age,
         sta_pending' = [sta_pending EXCEPT ![s] = p], sleep_q' = [sleep_q EXCEPT ![s] = q]
  PROVE  OrdInv'
<1>1. sta_pending'[s] = p /\ sleep_q'[s] = q
  BY DEF DataInv, DataTypes
<1>2. \A t \in Stas : t # s => sta_pending'[t] = sta_pending[t] /\ sleep_q'[t] = sleep_q[t]
  BY DEF DataInv, DataTypes
<1>3. ASSUME NEW t \in Stas PROVE Sorted(sta_pending'[t] \o sleep_q'[t], age')
  <2>1. CASE t = s
    BY <1>1, <2>1
  <2>2. CASE t # s
    BY <1>2, <2>2 DEF OrdInv, Queued
  <2> QED
    BY <2>1, <2>2
<1> QED
  BY <1>3, Zenon DEF OrdInv, Queued

LEMMA EnqueuedOrder ==
  ASSUME DataInv, OrdInv, NEW s \in Stas, NEW f \in Frames, age' = Append(age, f),
         \/ /\ sleep_q' = [sleep_q EXCEPT ![s] = Append(@, f)]
            /\ sta_pending' = sta_pending
         \/ /\ sta_pending' = [sta_pending EXCEPT ![s] = Append(@, f)]
            /\ sleep_q' = sleep_q
            /\ sleep_q[s] = <<>>
  PROVE  OrdInv'
<1>0. age \in Seq(Frames)
  BY DEF DataInv, DataTypes
<1>1. PICK p \in Seq(Frames) : p = sta_pending[s]
  BY DEF DataInv, DataTypes
<1>2. PICK q \in Seq(Frames) : q = sleep_q[s]
  BY DEF DataInv, DataTypes
<1>3. PICK e \in Seq(Frames) :
        e = <<f>> /\ Range(e) = {f} /\ \A r \in Seq(Frames) : Append(r, f) = r \o e
  BY OneElement
<1>4. sta_pending'[s] \o sleep_q'[s] = (p \o q) \o e
  <2>1. CASE sleep_q' = [sleep_q EXCEPT ![s] = Append(@, f)] /\ sta_pending' = sta_pending
    <3>1. sta_pending'[s] = p /\ sleep_q'[s] = q \o e
      BY <1>1, <1>2, <1>3, <2>1 DEF DataInv, DataTypes
    <3>2. (p \o q) \o e = p \o (q \o e)
      BY ConcatAssociative
    <3> QED
      BY <3>1, <3>2
  <2>2. CASE /\ sta_pending' = [sta_pending EXCEPT ![s] = Append(@, f)]
             /\ sleep_q' = sleep_q /\ sleep_q[s] = <<>>
    <3>1. sta_pending'[s] = p \o e /\ sleep_q'[s] = <<>> /\ q = <<>>
      BY <1>1, <1>2, <1>3, <2>2 DEF DataInv, DataTypes
    <3>2. p \o e \in Seq(Frames)
      OBVIOUS
    <3>3. (p \o e) \o <<>> = p \o e /\ p \o <<>> = p
      BY <3>2, ConcatEmptySeq
    <3> QED
      BY <3>1, <3>3
  <2> QED
    BY <2>1, <2>2
<1>5. PICK w \in Seq(Frames) : w = p \o q
  BY Join
<1>6. Sorted(w, age) /\ Range(w) \subseteq Range(age)
  BY <1>1, <1>2, <1>5 DEF OrdInv, DataInv, Queued
<1>7. PICK A : A = Append(age, f)
  OBVIOUS
<1>8. Sorted(w, A) /\ \A g \in Range(age) : Before(A, g, f)
  BY <1>0, <1>6, <1>7, HistoryAppend
<1>9. Sorted(e, A)
  <2>1. DOMAIN e = {1}
    BY <1>3
  <2>2. ~(1 < 1)
    OBVIOUS
  <2> QED
    BY <2>1, <2>2, Zenon DEF Sorted
<1>10. Precede(w, e, A)
  BY <1>3, <1>6, <1>8 DEF Precede
<1>11. Sorted(w \o e, A)
  BY <1>8, <1>9, <1>10, ConcatSorted
<1>12. \A t \in Stas : t # s => sta_pending'[t] = sta_pending[t] /\ sleep_q'[t] = sleep_q[t]
  BY DEF DataInv, DataTypes
<1>13. ASSUME NEW t \in Stas PROVE Sorted(sta_pending'[t] \o sleep_q'[t], age')
  <2>1. CASE t = s
    BY <1>4, <1>5, <1>7, <1>11, <2>1
  <2>2. CASE t # s
    <3>1. PICK v : v = sta_pending[t] \o sleep_q[t]
      OBVIOUS
    <3>2. Sorted(v, age)
      BY <3>1 DEF OrdInv, Queued
    <3>3. Sorted(v, A)
      BY <1>0, <1>7, <3>2, HistoryAppend
    <3> QED
      BY <1>7, <1>12, <2>2, <3>1, <3>3
  <2> QED
    BY <2>1, <2>2
<1> QED
  BY <1>13, Zenon DEF OrdInv, Queued

LEMMA DequeuedOrder ==
  ASSUME DataInv, OrdInv, DataInv', NEW s \in Stas, NEW p \in Seq(Frames), NEW q \in Seq(Frames),
         NEW G, Sorted(p \o q, age), G \subseteq Range(Queued(s)), Range(p \o q) \cap G = {},
         age' = Filter(age, Frames \ G),
         sta_pending' = [sta_pending EXCEPT ![s] = p], sleep_q' = [sleep_q EXCEPT ![s] = q]
  PROVE  OrdInv'
<1>0. age \in Seq(Frames)
  BY DEF DataInv, DataTypes
<1>1. sta_pending'[s] = p /\ sleep_q'[s] = q
  BY DEF DataInv, DataTypes
<1>2. \A t \in Stas : t # s => sta_pending'[t] = sta_pending[t] /\ sleep_q'[t] = sleep_q[t]
  BY DEF DataInv, DataTypes
<1>3. ASSUME NEW w \in Seq(Frames), Sorted(w, age), Range(w) \cap G = {}
      PROVE  Sorted(w, age')
  <2>1. Range(w) \subseteq Frames
    BY RangeOfSeq
  <2>2. Range(w) \subseteq Frames \ G
    BY <1>3, <2>1
  <2> QED
    BY <1>0, <1>3, <2>2, HistoryFilter
<1>4. ASSUME NEW t \in Stas PROVE Sorted(sta_pending'[t] \o sleep_q'[t], age')
  <2>1. CASE t = s
    <3>1. PICK w \in Seq(Frames) : w = p \o q
      BY Join
    <3>2. Sorted(w, age')
      BY <1>3, <3>1
    <3> QED
      BY <1>1, <2>1, <3>1, <3>2
  <2>2. CASE t # s
    <3>1. sta_pending[t] \in Seq(Frames) /\ sleep_q[t] \in Seq(Frames)
      BY DEF DataInv, DataTypes
    <3>2. PICK w \in Seq(Frames) : w = sta_pending[t] \o sleep_q[t]
      BY <3>1, Join
    <3>3. Sorted(w, age) /\ Range(w) \cap Range(Queued(s)) = {}
      BY <2>2, <3>2 DEF OrdInv, DataInv, Queued
    <3>4. Range(w) \cap G = {}
      BY <3>3
    <3>5. Sorted(w, age')
      BY <1>3, <3>3, <3>4
    <3> QED
      BY <1>2, <2>2, <3>2, <3>5
  <2> QED
    BY <2>1, <2>2
<1> QED
  BY <1>4, Zenon DEF OrdInv, Queued

-----------------------------------------------------------------------------
(* What the operations do to the data frames.                              *)

Of(a) == {f \in Frames : ac(f) = a}
With(s) == {f \in Frames : ac(f) \in delivery[s]}
Without(s) == {f \in Frames : ac(f) \notin delivery[s]}

LEMMA Categories ==
  /\ Of("vo") \cap Of("be") = {} /\ Frames = Of("vo") \cup Of("be")
  /\ \A s : With(s) \cap Without(s) = {} /\ Frames = With(s) \cup Without(s)
<1>1. \A f \in Frames : ac(f) \in {"vo", "be"}
  BY DEF Frames, ac, ACs
<1> QED
  BY <1>1 DEF Of, With, Without

(* A queue cut in two by category.                                         *)
LEMMA Cut ==
  ASSUME NEW q \in Seq(Frames), NEW S, NEW R, S \cap R = {}, Frames = S \cup R
  PROVE  /\ Filter(q, S) \in Seq(Frames) /\ Filter(q, R) \in Seq(Frames)
         /\ Range(Filter(q, S)) \cup Range(Filter(q, R)) = Range(q)
         /\ Range(Filter(q, S)) \subseteq S /\ Range(Filter(q, R)) \subseteq R
         /\ Range(Filter(q, S)) \cap Range(Filter(q, R)) = {}
         /\ IsInjective(q) => IsInjective(Filter(q, S)) /\ IsInjective(Filter(q, R))
         /\ \A A : Sorted(q, A) => Sorted(Filter(q, S), A) /\ Sorted(Filter(q, R), A)
         /\ Len(Filter(q, S)) + Len(Filter(q, R)) = Len(q)
<1>1. Range(q) \subseteq Frames
  BY RangeOfSeq
<1>2. Range(Filter(q, S)) = Range(q) \cap S /\ Range(Filter(q, R)) = Range(q) \cap R
  BY FilterRange
<1>3. Filter(q, S) \in Seq(Frames) /\ Filter(q, R) \in Seq(Frames)
  BY FilterShape
<1>4. IsInjective(q) => IsInjective(Filter(q, S)) /\ IsInjective(Filter(q, R))
  BY FilterInjective
<1>5. \A A : Sorted(q, A) => Sorted(Filter(q, S), A) /\ Sorted(Filter(q, R), A)
  BY FilterSorted
<1>6. Len(Filter(q, S)) + Len(Filter(q, R)) = Len(q)
  BY FilterSplit
<1> QED
  BY <1>1, <1>2, <1>3, <1>4, <1>5, <1>6

(* stop_sta_xmit takes the released frames back.  They stay in order if    *)
(* nothing was parked.                                                     *)
LEMMA StopData ==
  ASSUME DataInv, NEW s \in Stas, stop_sta_xmit(s)
  PROVE  /\ DataInv'
         /\ OrdInv /\ sleep_q[s] = <<>> => OrdInv'
<1>1. PICK p \in Seq(Frames) : p = sta_pending[s]
  BY DEF DataInv, DataTypes
<1>2. PICK q \in Seq(Frames) : q = sleep_q[s]
  BY DEF DataInv, DataTypes
<1>3. PICK v : v = Filter(p, Of("vo"))
  OBVIOUS
<1>4. PICK b : b = Filter(p, Of("be"))
  OBVIOUS
<1>5. /\ v \in Seq(Frames) /\ b \in Seq(Frames)
      /\ Range(v) \cup Range(b) = Range(p) /\ Range(v) \cap Range(b) = {}
      /\ Range(v) \subseteq Of("vo") /\ Range(b) \subseteq Of("be")
      /\ IsInjective(p) => IsInjective(v) /\ IsInjective(b)
      /\ Sorted(p, age) => Sorted(v, age) /\ Sorted(b, age)
  BY <1>3, <1>4, Categories, Cut
<1>6. PICK u \in Seq(Frames) : u = q \o v
  BY <1>5, Join
<1>7. PICK w \in Seq(Frames) : w = u \o b
  BY <1>5, Join
<1>8. PICK n \in Seq(Frames) : n = <<>>
  BY NoFrames
<1>9. /\ age' = age /\ sta_pending' = [sta_pending EXCEPT ![s] = n]
      /\ sleep_q' = [sleep_q EXCEPT ![s] = w]
  <2>1. Retaken(s) = w
    BY <1>1, <1>2, <1>3, <1>4, <1>7, <1>6 DEF Retaken, FramesOf, Of
  <2> QED
    BY <1>8, <2>1 DEF stop_sta_xmit
<1>10. n \o w = w
  BY <1>8, ConcatEmptySeq
<1>11. /\ IsInjective(p) /\ IsInjective(q) /\ Range(p) \cap Range(q) = {}
       /\ Range(Queued(s)) = Range(p) \cup Range(q)
  BY <1>1, <1>2, Parts
<1>12. Range(u) = Range(q) \cup Range(v) /\ IsInjective(u)
  BY <1>5, <1>11, <1>6, RangeConcatenation, ConcatInjective
<1>13. Range(u) \cap Range(b) = {}
  BY <1>5, <1>11, <1>12
<1>14. Range(w) = Range(u) \cup Range(b) /\ IsInjective(w)
  BY <1>5, <1>7, <1>11, <1>12, <1>13, RangeConcatenation, ConcatInjective
<1>15. DataInv'
  BY <1>5, <1>9, <1>10, <1>11, <1>12, <1>14, Requeued
<1>16. ASSUME OrdInv, sleep_q[s] = <<>> PROVE OrdInv'
  <2>1. Sorted(p \o q, age)
    BY <1>1, <1>2, <1>16 DEF OrdInv, Queued
  <2>2. Sorted(p, age)
    BY <2>1, ConcatSorted
  <2>3. u = v
    BY <1>2, <1>5, <1>6, <1>16, ConcatEmptySeq
  <2>4. Precede(v, b, age)
    <3>1. \A f \in Of("vo"), g \in Of("be") : ac(f) # ac(g)
      BY DEF Of
    <3> QED
      BY <1>5, <3>1 DEF Precede
  <2>5. Sorted(v \o b, age)
    BY <1>5, <2>2, <2>4, ConcatSorted
  <2>6. Sorted(n \o w, age)
    BY <1>7, <1>10, <2>3, <2>5
  <2> QED
    BY <1>9, <1>16, <2>6, RequeuedOrder
<1> QED
  BY <1>15, <1>16

(* wakeup_sta_to_xmit moves the parked frames behind the released ones.    *)
LEMMA WakeData ==
  ASSUME DataInv, NEW s \in Stas, NEW type, wakeup_sta_to_xmit(s, type)
  PROVE  DataInv' /\ (OrdInv => OrdInv')
<1>1. PICK p \in Seq(Frames) : p = sta_pending[s]
  BY DEF DataInv, DataTypes
<1>2. PICK q \in Seq(Frames) : q = sleep_q[s]
  BY DEF DataInv, DataTypes
<1>3. CASE type = "all"
  <2>1. PICK n \in Seq(Frames) : n = <<>>
    BY NoFrames
  <2>2. PICK w \in Seq(Frames) : w = p \o q
    BY Join
  <2>3. /\ age' = age /\ sta_pending' = [sta_pending EXCEPT ![s] = w]
        /\ sleep_q' = [sleep_q EXCEPT ![s] = n]
    BY <1>1, <1>2, <1>3, <2>1, <2>2 DEF wakeup_sta_to_xmit, Released
  <2>4. w \o n = w
    BY <2>1, ConcatEmptySeq
  <2>5. w = Queued(s)
    BY <1>1, <1>2, <2>2 DEF Queued
  <2>6. IsInjective(w) /\ (OrdInv => Sorted(w, age))
    BY <2>5 DEF DataInv, OrdInv
  <2>7. DataInv'
    BY <2>3, <2>4, <2>5, <2>6, Requeued
  <2>8. OrdInv => OrdInv'
    BY <2>3, <2>4, <2>6, RequeuedOrder
  <2> QED
    BY <2>7, <2>8
<1>4. CASE type # "all"
  <2>1. age' = age /\ sta_pending' = sta_pending /\ sleep_q' = sleep_q
    BY <1>4 DEF wakeup_sta_to_xmit
  <2> QED
    BY <2>1 DEF DataInv, DataTypes, OrdInv, Queued
<1> QED
  BY <1>3, <1>4

(* A trigger frame releases the frames of the delivery-enabled categories. *)
LEMMA DeliveryData ==
  ASSUME DataInv, NEW s \in Stas, xmit_delivery_enabled_frames(s)
  PROVE  DataInv' /\ (OrdInv => OrdInv')
<1>1. PICK p \in Seq(Frames) : p = sta_pending[s]
  BY DEF DataInv, DataTypes
<1>2. PICK q \in Seq(Frames) : q = sleep_q[s]
  BY DEF DataInv, DataTypes
<1>3. PICK v : v = Filter(q, With(s))
  OBVIOUS
<1>4. PICK b : b = Filter(q, Without(s))
  OBVIOUS
<1>5. /\ v \in Seq(Frames) /\ b \in Seq(Frames)
      /\ Range(v) \cup Range(b) = Range(q) /\ Range(v) \cap Range(b) = {}
      /\ Range(v) \subseteq With(s) /\ Range(b) \subseteq Without(s)
      /\ IsInjective(q) => IsInjective(v) /\ IsInjective(b)
      /\ Sorted(q, age) => Sorted(v, age) /\ Sorted(b, age)
  BY <1>3, <1>4, Categories, Cut
<1>6. PICK w \in Seq(Frames) : w = p \o v
  BY <1>5, Join
<1>7. /\ age' = age /\ sta_pending' = [sta_pending EXCEPT ![s] = w]
      /\ sleep_q' = [sleep_q EXCEPT ![s] = b]
  <2>1. Enabled(sleep_q[s], s) = v /\ Rest(sleep_q[s], s) = b
    BY <1>2, <1>3, <1>4 DEF Enabled, Rest, With, Without
  <2>2. /\ sta_pending' = [sta_pending EXCEPT ![s] = sta_pending[s] \o Enabled(sleep_q[s], s)]
        /\ sleep_q' = [sleep_q EXCEPT ![s] = Rest(sleep_q[s], s)] /\ age' = age
    BY DEF xmit_delivery_enabled_frames
  <2> QED
    BY <1>1, <1>6, <2>1, <2>2
<1>8. /\ IsInjective(p) /\ IsInjective(q) /\ Range(p) \cap Range(q) = {}
      /\ Range(Queued(s)) = Range(p) \cup Range(q)
  BY <1>1, <1>2, Parts
<1>9. Range(w) = Range(p) \cup Range(v) /\ IsInjective(w)
  <2>1. Range(p) \cap Range(v) = {} /\ IsInjective(v)
    BY <1>5, <1>8
  <2> QED
    BY <1>5, <1>6, <1>8, <2>1, RangeConcatenation, ConcatInjective
<1>10. Range(w \o b) = Range(w) \cup Range(b) /\ IsInjective(w \o b)
  <2>1. Range(w) \cap Range(b) = {} /\ IsInjective(b)
    BY <1>5, <1>8, <1>9
  <2> QED
    BY <1>5, <1>9, <2>1, RangeConcatenation, ConcatInjective
<1>11. DataInv'
  BY <1>5, <1>7, <1>8, <1>9, <1>10, Requeued
<1>12. ASSUME OrdInv PROVE OrdInv'
  <2>1. Sorted(p \o q, age)
    BY <1>1, <1>2, <1>12 DEF OrdInv, Queued
  <2>2. Sorted(p, age) /\ Sorted(q, age) /\ Precede(p, q, age)
    BY <2>1, ConcatSorted
  <2>3. Sorted(w, age)
    <3>1. Precede(p, v, age) /\ Sorted(v, age)
      BY <1>5, <2>2 DEF Precede
    <3> QED
      BY <1>5, <1>6, <2>2, <3>1, ConcatSorted
  <2>4. Precede(w, b, age)
    <3>1. \A f \in With(s), g \in Without(s) : ac(f) # ac(g)
      BY DEF With, Without
    <3>2. \A f \in Range(w), g \in Range(b) : ac(f) = ac(g) => f \in Range(p) /\ g \in Range(q)
      BY <1>5, <1>9, <3>1
    <3> QED
      BY <2>2, <3>2 DEF Precede
  <2>5. Sorted(w \o b, age)
    BY <1>5, <2>2, <2>3, <2>4, ConcatSorted
  <2> QED
    BY <1>5, <1>7, <1>12, <2>5, RequeuedOrder
<1> QED
  BY <1>11, <1>12

(* A PS-Poll moves the head of the sleep queue behind the released frames. *)
LEMMA PsPollData ==
  ASSUME DataInv, NEW s \in Stas, PsPoll(s)
  PROVE  DataInv' /\ (OrdInv => OrdInv')
<1>1. PICK p \in Seq(Frames) : p = sta_pending[s]
  BY DEF DataInv, DataTypes
<1>2. PICK q \in Seq(Frames) : q = sleep_q[s]
  BY DEF DataInv, DataTypes
<1>3. PICK d \in {0, 1} : d = IF q # <<>> THEN 1 ELSE 0
  OBVIOUS
<1>4. d \in 0..Len(q) /\ Len(q) \in Nat
  BY <1>3
<1>5. PICK h : h = SubSeq(q, 1, d)
  OBVIOUS
<1>6. PICK r : r = SubSeq(q, d + 1, Len(q))
  OBVIOUS
<1>7. h \in Seq(Frames) /\ r \in Seq(Frames)
  BY <1>4, <1>5, <1>6
<1>8. h \o r = q
  <2>1. 1 \in 1..(Len(q) + 1) /\ d \in (1 - 1)..Len(q) /\ Len(q) \in d..Len(q)
    BY <1>4
  <2>2. SubSeq(q, 1, d) \o SubSeq(q, d + 1, Len(q)) = SubSeq(q, 1, Len(q))
    BY <2>1, ConcatAdjacentSubSeq
  <2>3. SubSeq(q, 1, Len(q)) = q
    BY SubSeqFull
  <2> QED
    BY <1>5, <1>6, <2>2, <2>3
<1>9. PICK w \in Seq(Frames) : w = p \o h
  BY <1>7, Join
<1>10. w \o r = p \o q
  <2>1. (p \o h) \o r = p \o (h \o r)
    BY <1>7, ConcatAssociative
  <2> QED
    BY <1>8, <1>9, <2>1
<1>11. /\ age' = age /\ sta_pending' = [sta_pending EXCEPT ![s] = w]
       /\ sleep_q' = [sleep_q EXCEPT ![s] = r]
  <2>1. /\ sta_pending' = [sta_pending EXCEPT ![s] = sta_pending[s] \o
                             SubSeq(sleep_q[s], 1, IF sleep_q[s] # <<>> THEN 1 ELSE 0)]
        /\ sleep_q' = [sleep_q EXCEPT ![s] =
                         SubSeq(sleep_q[s], (IF sleep_q[s] # <<>> THEN 1 ELSE 0) + 1, Len(sleep_q[s]))]
        /\ age' = age
    BY DEF PsPoll
  <2> QED
    BY <1>1, <1>2, <1>3, <1>5, <1>6, <1>9, <2>1
<1>12. p \o q = Queued(s)
  BY <1>1, <1>2 DEF Queued
<1>13. IsInjective(w \o r) /\ Range(w \o r) \subseteq Range(Queued(s))
  BY <1>10, <1>12 DEF DataInv
<1>14. DataInv'
  BY <1>7, <1>11, <1>13, Requeued
<1>15. ASSUME OrdInv PROVE OrdInv'
  <2>1. Sorted(w \o r, age)
    BY <1>10, <1>12, <1>15 DEF OrdInv
  <2> QED
    BY <1>7, <1>11, <1>15, <2>1, RequeuedOrder
<1> QED
  BY <1>14, <1>15

(* The bus takes the oldest frame of a category of a station.              *)
LEMMA FirstOf ==
  ASSUME NEW p \in Seq(Frames), p # <<>>,
         NEW a, a = IF FramesOf(p, "vo") # <<>> THEN "vo" ELSE "be"
  PROVE  Head(FramesOf(p, a)) \in Range(p)
<1>1. FramesOf(p, "vo") = Filter(p, Of("vo")) /\ FramesOf(p, "be") = Filter(p, Of("be"))
  BY DEF FramesOf, Of
<1>2. PICK v : v = Filter(p, Of("vo"))
  OBVIOUS
<1>3. PICK b : b = Filter(p, Of("be"))
  OBVIOUS
<1>4. /\ v \in Seq(Frames) /\ b \in Seq(Frames)
      /\ Range(v) \cup Range(b) = Range(p)
  BY <1>2, <1>3, Categories, Cut
<1>5. Range(p) # {} /\ (v # <<>> <=> Range(v) # {}) /\ (b # <<>> <=> Range(b) # {})
  BY <1>4, EmptyQueue
<1>6. ASSUME NEW x \in Seq(Frames), x # <<>>, Range(x) \subseteq Range(p)
      PROVE  Head(x) \in Range(p)
  <2>1. Head(x) = x[1] /\ 1 \in DOMAIN x
    BY <1>6
  <2>2. Head(x) \in Range(x)
    BY <2>1, Zenon DEF Range
  <2> QED
    BY <1>6, <2>2
<1>7. CASE v # <<>>
  <2>1. FramesOf(p, a) = v
    BY <1>1, <1>2, <1>7
  <2>2. Head(v) \in Range(p)
    BY <1>4, <1>6, <1>7
  <2> QED
    BY <2>1, <2>2
<1>8. CASE v = <<>>
  <2>1. FramesOf(p, a) = b
    BY <1>1, <1>2, <1>3, <1>8
  <2>2. b # <<>>
    BY <1>4, <1>5, <1>8
  <2>3. Head(b) \in Range(p)
    BY <1>4, <1>6, <2>2
  <2> QED
    BY <2>1, <2>3
<1> QED
  BY <1>7, <1>8

LEMMA SentData ==
  ASSUME DataInv, NEW s \in Stas, NEW f \in Range(sta_pending[s]), sleep_q' = sleep_q,
         sta_pending' = [sta_pending EXCEPT ![s] = Filter(@, Frames \ {f})],
         age' = Filter(age, Frames \ {f})
  PROVE  DataInv' /\ (OrdInv => OrdInv')
<1>1. PICK p \in Seq(Frames) : p = sta_pending[s]
  BY DEF DataInv, DataTypes
<1>2. PICK q \in Seq(Frames) : q = sleep_q[s]
  BY DEF DataInv, DataTypes
<1>3. PICK v : v = Filter(p, Frames \ {f})
  OBVIOUS
<1>4. /\ v \in Seq(Frames) /\ Range(v) = Range(p) \cap (Frames \ {f})
      /\ IsInjective(p) => IsInjective(v)
      /\ Sorted(p, age) => Sorted(v, age)
  BY <1>3, FilterShape, FilterRange, FilterInjective, FilterSorted
<1>5. /\ sta_pending' = [sta_pending EXCEPT ![s] = v]
      /\ sleep_q' = [sleep_q EXCEPT ![s] = q]
  BY <1>1, <1>2, <1>3 DEF DataInv, DataTypes
<1>6. /\ IsInjective(p) /\ IsInjective(q) /\ Range(p) \cap Range(q) = {}
      /\ Range(Queued(s)) = Range(p) \cup Range(q)
  BY <1>1, <1>2, Parts
<1>7. Range(v \o q) = Range(v) \cup Range(q)
  BY <1>4, RangeConcatenation
<1>8. IsInjective(v \o q)
  <2>1. Range(v) \cap Range(q) = {} /\ IsInjective(v)
    BY <1>4, <1>6
  <2> QED
    BY <1>4, <1>6, <2>1, ConcatInjective
<1>9. {f} \subseteq Range(Queued(s)) /\ Range(v \o q) \subseteq Range(Queued(s)) \ {f}
  BY <1>1, <1>4, <1>6, <1>7
<1>10. DataInv'
  BY <1>4, <1>5, <1>8, <1>9, Dequeued
<1>11. ASSUME OrdInv PROVE OrdInv'
  <2>1. Sorted(p \o q, age)
    BY <1>1, <1>2, <1>11 DEF OrdInv, Queued
  <2>2. Sorted(p, age) /\ Sorted(q, age) /\ Precede(p, q, age)
    BY <2>1, ConcatSorted
  <2>3. Precede(v, q, age)
    BY <1>4, <2>2 DEF Precede
  <2>4. Sorted(v \o q, age)
    BY <1>4, <2>2, <2>3, ConcatSorted
  <2>5. Range(v \o q) \cap {f} = {}
    BY <1>9
  <2> QED
    BY <1>4, <1>5, <1>9, <1>10, <1>11, <2>4, <2>5, DequeuedOrder
<1> QED
  BY <1>10, <1>11

(* Nothing happens to the data frames.                                     *)
LEMMA SameData ==
  ASSUME DataInv, age' = age, sta_pending' = sta_pending, sleep_q' = sleep_q
  PROVE  DataInv' /\ (OrdInv => OrdInv')
BY DEF DataInv, DataTypes, OrdInv, Queued

LEMMA CompleteData ==
  ASSUME DataInv, rtl8188fu_xmitframe_complete
  PROVE  DataInv' /\ (OrdInv => OrdInv')
<1>0. sleep_q' = sleep_q
  BY DEF rtl8188fu_xmitframe_complete
<1>1. CASE age' = age /\ sta_pending' = sta_pending
  BY <1>0, <1>1, SameData
<1>2. CASE \E s \in Stas :
             /\ sta_pending[s] # <<>>
             /\ LET a == IF FramesOf(sta_pending[s], "vo") # <<>> THEN "vo" ELSE "be"
                    f == Head(FramesOf(sta_pending[s], a))
                IN /\ sta_pending' = [sta_pending EXCEPT ![s] = Filter(@, Frames \ {f})]
                   /\ age' = Filter(age, Frames \ {f})
  <2>1. PICK s \in Stas :
             /\ sta_pending[s] # <<>>
             /\ LET a == IF FramesOf(sta_pending[s], "vo") # <<>> THEN "vo" ELSE "be"
                    f == Head(FramesOf(sta_pending[s], a))
                IN /\ sta_pending' = [sta_pending EXCEPT ![s] = Filter(@, Frames \ {f})]
                   /\ age' = Filter(age, Frames \ {f})
    BY <1>2
  <2>2. PICK a : a = IF FramesOf(sta_pending[s], "vo") # <<>> THEN "vo" ELSE "be"
    OBVIOUS
  <2>3. PICK f : f = Head(FramesOf(sta_pending[s], a))
    OBVIOUS
  <2>4. /\ sta_pending' = [sta_pending EXCEPT ![s] = Filter(@, Frames \ {f})]
        /\ age' = Filter(age, Frames \ {f})
    BY <2>1, <2>2, <2>3
  <2>5. sta_pending[s] \in Seq(Frames)
    BY DEF DataInv, DataTypes
  <2>6. f \in Range(sta_pending[s])
    BY <2>1, <2>2, <2>3, <2>5, FirstOf
  <2> QED
    BY <1>0, <2>4, <2>6, SentData
<1> QED
  BY <1>1, <1>2 DEF rtl8188fu_xmitframe_complete

(* rtw_free_stainfo drops the frames of a station.                         *)
LEMMA FreeData ==
  ASSUME DataInv, NEW s \in Stas, rtw_free_stainfo(s)
  PROVE  DataInv' /\ (OrdInv => OrdInv')
<1>1. PICK p \in Seq(Frames) : p = sta_pending[s]
  BY DEF DataInv, DataTypes
<1>2. PICK q \in Seq(Frames) : q = sleep_q[s]
  BY DEF DataInv, DataTypes
<1>3. PICK G : G = Range(p) \cup Range(q)
  OBVIOUS
<1>4. PICK n \in Seq(Frames) : n = <<>>
  BY NoFrames
<1>5. /\ sta_pending' = [sta_pending EXCEPT ![s] = n] /\ sleep_q' = [sleep_q EXCEPT ![s] = n]
      /\ age' = Filter(age, Frames \ G)
  BY <1>1, <1>2, <1>3, <1>4 DEF rtw_free_stainfo, Range
<1>6. Range(Queued(s)) = G
  BY <1>1, <1>2, <1>3, Parts
<1>7. n \o n = n
  BY <1>4, ConcatEmptySeq
<1>8. Range(n) = {} /\ IsInjective(n) /\ Sorted(n, age)
  <2>1. DOMAIN n = {}
    BY <1>4
  <2>2. IsInjective(n)
    BY <2>1, Zenon DEF IsInjective
  <2>3. Range(n) = {}
    BY <2>1, Zenon DEF Range
  <2>4. Sorted(n, age)
    BY <2>1, Zenon DEF Sorted
  <2> QED
    BY <2>2, <2>3, <2>4
<1>9. /\ IsInjective(n \o n) /\ G \subseteq Range(Queued(s))
      /\ Range(n \o n) \subseteq Range(Queued(s)) \ G
  BY <1>6, <1>7, <1>8
<1>10. DataInv'
  BY <1>5, <1>9, Dequeued
<1>11. ASSUME OrdInv PROVE OrdInv'
  <2>1. Sorted(n \o n, age) /\ Range(n \o n) \cap G = {}
    BY <1>7, <1>8
  <2> QED
    BY <1>5, <1>9, <1>10, <1>11, <2>1, DequeuedOrder
<1> QED
  BY <1>10, <1>11

(* rtw_xmit.  A frame that is not parked overtakes nothing if nothing is   *)
(* parked.                                                                 *)
LEMMA XmitData ==
  ASSUME DataInv, NEW s \in Stas, NEW a \in ACs, rtw_xmit(s, a)
  PROVE  /\ DataInv'
         /\ OrdInv /\ (~Parks(s) => sleep_q[s] = <<>>) => OrdInv'
<1>1. PICK x \in Unused : x = CHOOSE y \in Unused : TRUE
  BY DEF rtw_xmit
<1>2. PICK f : f = <<x, a>>
  OBVIOUS
<1>3. f \in Frames /\ f \notin Range(age) /\ Numbered(Append(age, f))
  BY <1>2, Fresh
<1>4. /\ age' = Append(age, f)
      /\ \/ /\ Parks(s) /\ sleep_q' = [sleep_q EXCEPT ![s] = Append(@, f)]
            /\ sta_pending' = sta_pending
         \/ /\ ~Parks(s) /\ sta_pending' = [sta_pending EXCEPT ![s] = Append(@, f)]
            /\ sleep_q' = sleep_q
  BY <1>1, <1>2 DEF rtw_xmit
<1>5. DataInv'
  BY <1>3, <1>4, Enqueued
<1>6. ASSUME OrdInv, ~Parks(s) => sleep_q[s] = <<>> PROVE OrdInv'
  BY <1>3, <1>4, <1>6, EnqueuedOrder
<1> QED
  BY <1>5, <1>6

-----------------------------------------------------------------------------
(* What the operations do to the management frames.                        *)

LEMMA SameBuf ==
  ASSUME BufInv, mgmt_pending' = mgmt_pending, mgmt_sleep_q' = mgmt_sleep_q,
         free_xmit_extbuf_cnt' = free_xmit_extbuf_cnt
  PROVE  BufInv'
BY DEF BufInv

LEMMA MgntXmitBuf ==
  ASSUME BufInv, NEW s \in Stas, rtw_hal_mgnt_xmit(s)
  PROVE  BufInv'
<1>1. PICK own : Accounts(own, mgmt_pending, mgmt_sleep_q, free_xmit_extbuf_cnt)
  BY DEF BufInv
<1>2. /\ free_xmit_extbuf_cnt > 0 /\ free_xmit_extbuf_cnt' = free_xmit_extbuf_cnt - 1
      /\ mgmt_pending' = mgmt_pending
      /\ mgmt_sleep_q' = [mgmt_sleep_q EXCEPT ![s] = @ + 1]
  BY DEF rtw_hal_mgnt_xmit
<1>3. mgmt_pending \in [Stas -> Nat] /\ mgmt_sleep_q \in [Stas -> Nat]
  BY DEF BufInv
<1>4. \E new : Accounts(new, mgmt_pending, [mgmt_sleep_q EXCEPT ![s] = @ + 1],
                        free_xmit_extbuf_cnt - 1)
  BY <1>1, <1>2, <1>3, ParkOne
<1>5. \E new : Accounts(new, mgmt_pending', mgmt_sleep_q', free_xmit_extbuf_cnt')
  BY <1>2, <1>4
<1>6. mgmt_pending' \in [Stas -> Nat] /\ mgmt_sleep_q' \in [Stas -> Nat]
  BY <1>2, <1>3
<1> QED
  BY <1>5, <1>6 DEF BufInv, Accounts

LEMMA StopBuf ==
  ASSUME BufInv, NEW s \in Stas, stop_sta_xmit(s)
  PROVE  BufInv'
<1>1. PICK own : Accounts(own, mgmt_pending, mgmt_sleep_q, free_xmit_extbuf_cnt)
  BY DEF BufInv
<1>2. /\ free_xmit_extbuf_cnt' = free_xmit_extbuf_cnt
      /\ mgmt_pending' = [mgmt_pending EXCEPT ![s] = 0]
      /\ mgmt_sleep_q' = [mgmt_sleep_q EXCEPT ![s] = @ + mgmt_pending[s]]
  BY DEF stop_sta_xmit
<1>3. mgmt_pending \in [Stas -> Nat] /\ mgmt_sleep_q \in [Stas -> Nat]
  BY DEF BufInv
<1>4. \E new : Accounts(new, [mgmt_pending EXCEPT ![s] = 0],
                        [mgmt_sleep_q EXCEPT ![s] = @ + mgmt_pending[s]], free_xmit_extbuf_cnt)
  BY <1>1, <1>3, ParkAll
<1>5. \E new : Accounts(new, mgmt_pending', mgmt_sleep_q', free_xmit_extbuf_cnt')
  BY <1>2, <1>4
<1>6. mgmt_pending' \in [Stas -> Nat] /\ mgmt_sleep_q' \in [Stas -> Nat]
  BY <1>2, <1>3
<1> QED
  BY <1>5, <1>6 DEF BufInv, Accounts

LEMMA WakeBuf ==
  ASSUME BufInv, NEW s \in Stas, NEW type, wakeup_sta_to_xmit(s, type)
  PROVE  BufInv'
<1>1. PICK own : Accounts(own, mgmt_pending, mgmt_sleep_q, free_xmit_extbuf_cnt)
  BY DEF BufInv
<1>2. /\ free_xmit_extbuf_cnt' = free_xmit_extbuf_cnt
      /\ mgmt_pending' = [mgmt_pending EXCEPT ![s] = @ + mgmt_sleep_q[s]]
      /\ mgmt_sleep_q' = [mgmt_sleep_q EXCEPT ![s] = 0]
  BY DEF wakeup_sta_to_xmit
<1>3. mgmt_pending \in [Stas -> Nat] /\ mgmt_sleep_q \in [Stas -> Nat]
  BY DEF BufInv
<1>4. \E new : Accounts(new, [mgmt_pending EXCEPT ![s] = @ + mgmt_sleep_q[s]],
                        [mgmt_sleep_q EXCEPT ![s] = 0], free_xmit_extbuf_cnt)
  BY <1>1, <1>3, ReleaseAll
<1>5. \E new : Accounts(new, mgmt_pending', mgmt_sleep_q', free_xmit_extbuf_cnt')
  BY <1>2, <1>4
<1>6. mgmt_pending' \in [Stas -> Nat] /\ mgmt_sleep_q' \in [Stas -> Nat]
  BY <1>2, <1>3
<1> QED
  BY <1>5, <1>6 DEF BufInv, Accounts

LEMMA PsPollBuf ==
  ASSUME BufInv, NEW s \in Stas, PsPoll(s)
  PROVE  BufInv'
<1>1. PICK own : Accounts(own, mgmt_pending, mgmt_sleep_q, free_xmit_extbuf_cnt)
  BY DEF BufInv
<1>2. mgmt_pending \in [Stas -> Nat] /\ mgmt_sleep_q \in [Stas -> Nat]
  BY DEF BufInv
<1>3. PICK m : m = IF mgmt_sleep_q[s] > 0 THEN 1 ELSE 0
  OBVIOUS
<1>4. /\ free_xmit_extbuf_cnt' = free_xmit_extbuf_cnt
      /\ mgmt_pending' = [mgmt_pending EXCEPT ![s] = @ + m]
      /\ mgmt_sleep_q' = [mgmt_sleep_q EXCEPT ![s] = @ - m]
  BY <1>3 DEF PsPoll
<1>5. CASE mgmt_sleep_q[s] > 0
  <2>1. m = 1
    BY <1>3, <1>5
  <2>2. \E new : Accounts(new, [mgmt_pending EXCEPT ![s] = @ + 1],
                          [mgmt_sleep_q EXCEPT ![s] = @ - 1], free_xmit_extbuf_cnt)
    BY <1>1, <1>2, <1>5, ReleaseOne
  <2>3. \E new : Accounts(new, mgmt_pending', mgmt_sleep_q', free_xmit_extbuf_cnt')
    BY <1>4, <2>1, <2>2
  <2>4. mgmt_pending' \in [Stas -> Nat] /\ mgmt_sleep_q' \in [Stas -> Nat]
    BY <1>2, <1>4, <1>5, <2>1
  <2> QED
    BY <2>3, <2>4 DEF BufInv, Accounts
<1>6. CASE ~(mgmt_sleep_q[s] > 0)
  <2>1. m = 0
    BY <1>3, <1>6
  <2>2. mgmt_pending' = mgmt_pending /\ mgmt_sleep_q' = mgmt_sleep_q
    BY <1>2, <1>4, <2>1
  <2> QED
    BY <1>4, <2>2, SameBuf
<1> QED
  BY <1>5, <1>6

LEMMA CompleteBuf ==
  ASSUME BufInv, rtl8188fu_xmitframe_complete
  PROVE  BufInv'
<1>0. mgmt_sleep_q' = mgmt_sleep_q
  BY DEF rtl8188fu_xmitframe_complete
<1>1. CASE mgmt_pending' = mgmt_pending /\ free_xmit_extbuf_cnt' = free_xmit_extbuf_cnt
  BY <1>0, <1>1, SameBuf
<1>2. CASE \E s \in Stas :
             /\ mgmt_pending[s] > 0
             /\ mgmt_pending' = [mgmt_pending EXCEPT ![s] = @ - 1]
             /\ free_xmit_extbuf_cnt' = free_xmit_extbuf_cnt + 1
  <2>1. PICK s \in Stas :
             /\ mgmt_pending[s] > 0
             /\ mgmt_pending' = [mgmt_pending EXCEPT ![s] = @ - 1]
             /\ free_xmit_extbuf_cnt' = free_xmit_extbuf_cnt + 1
    BY <1>2
  <2>2. PICK own : Accounts(own, mgmt_pending, mgmt_sleep_q, free_xmit_extbuf_cnt)
    BY DEF BufInv
  <2>3. mgmt_pending \in [Stas -> Nat] /\ mgmt_sleep_q \in [Stas -> Nat]
    BY DEF BufInv
  <2>4. \E new : Accounts(new, [mgmt_pending EXCEPT ![s] = @ - 1], mgmt_sleep_q,
                          free_xmit_extbuf_cnt + 1)
    BY <2>1, <2>2, <2>3, SendOne
  <2>5. \E new : Accounts(new, mgmt_pending', mgmt_sleep_q', free_xmit_extbuf_cnt')
    BY <1>0, <2>1, <2>4
  <2>6. mgmt_pending' \in [Stas -> Nat] /\ mgmt_sleep_q' \in [Stas -> Nat]
    BY <1>0, <2>1, <2>3
  <2> QED
    BY <2>5, <2>6 DEF BufInv, Accounts
<1> QED
  BY <1>1, <1>2 DEF rtl8188fu_xmitframe_complete

LEMMA FreeBuf ==
  ASSUME BufInv, NEW s \in Stas, rtw_free_stainfo(s)
  PROVE  BufInv'
<1>1. PICK own : Accounts(own, mgmt_pending, mgmt_sleep_q, free_xmit_extbuf_cnt)
  BY DEF BufInv
<1>2. /\ free_xmit_extbuf_cnt' = free_xmit_extbuf_cnt + mgmt_sleep_q[s]
      /\ mgmt_pending' = [mgmt_pending EXCEPT ![s] = 0]
      /\ mgmt_sleep_q' = [mgmt_sleep_q EXCEPT ![s] = 0]
  BY DEF rtw_free_stainfo, ExtBack
<1>3. mgmt_pending \in [Stas -> Nat] /\ mgmt_sleep_q \in [Stas -> Nat]
  BY DEF BufInv
<1>4. \E new : Accounts(new, [mgmt_pending EXCEPT ![s] = 0], [mgmt_sleep_q EXCEPT ![s] = 0],
                        free_xmit_extbuf_cnt + mgmt_sleep_q[s])
  BY <1>1, <1>3, DropAll
<1>5. \E new : Accounts(new, mgmt_pending', mgmt_sleep_q', free_xmit_extbuf_cnt')
  BY <1>2, <1>4
<1>6. mgmt_pending' \in [Stas -> Nat] /\ mgmt_sleep_q' \in [Stas -> Nat]
  BY <1>2, <1>3
<1> QED
  BY <1>5, <1>6 DEF BufInv, Accounts

LEMMA InitBuf ==
  ASSUME Init
  PROVE  BufInv
<1>1. PICK own : own = [b \in 1..NExt |-> <<Bmc, "free">>]
  OBVIOUS
<1>2. own \in [1..NExt -> Owners]
  BY <1>1, OwnerFacts
<1>3. Owned(own, <<Bmc, "free">>) = 1..NExt
  BY <1>1 DEF Owned
<1>4. Cardinality(1..NExt) = NExt
  BY Bufs, FS_Interval
<1>5. ASSUME NEW o, o # <<Bmc, "free">> PROVE Count(own, o) = 0
  <2>1. Owned(own, o) = {}
    BY <1>1, <1>5 DEF Owned
  <2> QED
    BY <2>1, FS_EmptySet DEF Count
<1>6. \A s \in Stas : Count(own, <<s, "pend">>) = 0 /\ Count(own, <<s, "park">>) = 0
  BY <1>5, OwnerFacts
<1>7. Accounts(own, mgmt_pending, mgmt_sleep_q, free_xmit_extbuf_cnt)
  BY <1>2, <1>3, <1>4, <1>6 DEF Accounts, Count, Init
<1>8. mgmt_pending \in [Stas -> Nat] /\ mgmt_sleep_q \in [Stas -> Nat]
  BY DEF Init
<1> QED
  BY <1>7, <1>8 DEF BufInv

(* No counter exceeds the pool.                                            *)
LEMMA BufTypes ==
  ASSUME BufInv
  PROVE  /\ mgmt_pending \in [Stas -> 0..NExt] /\ mgmt_sleep_q \in [Stas -> 0..NExt]
         /\ free_xmit_extbuf_cnt \in 0..NExt
<1>1. PICK own : Accounts(own, mgmt_pending, mgmt_sleep_q, free_xmit_extbuf_cnt)
  BY DEF BufInv
<1>2. \A o : Count(own, o) \in 0..NExt
  BY CountType
<1>3. \A s \in Stas : mgmt_pending[s] \in 0..NExt /\ mgmt_sleep_q[s] \in 0..NExt
  BY <1>1, <1>2 DEF Accounts
<1>4. free_xmit_extbuf_cnt \in 0..NExt
  BY <1>1, <1>2 DEF Accounts
<1> QED
  BY <1>3, <1>4 DEF BufInv

-----------------------------------------------------------------------------
(* The remaining types.                                                    *)

LenTypes ==
  /\ sleepq_len \in [Stas -> 0..LenMod - 1] /\ sleepq_ac_len \in [Stas -> 0..LenMod - 1]
  /\ mgmt_sleepq_len \in [Stas -> 0..LenMod - 1]

RestTypes ==
  /\ link \in [Stas -> {"none", "auth", "asoc", "flushed", "leaving"}]
  /\ delivery \in [Stas -> SUBSET ACs]
  /\ sleep \subseteq Stas /\ alive \subseteq Stas /\ sta_dz_bitmap \subseteq Stas \cup {Bmc}
  /\ bcnTim \subseteq Stas \cup {Bmc} /\ airTim \subseteq Stas \cup {Bmc}
  /\ cmdPc \in {"idle", "atim", "clear"}
  /\ rx = NoRx \/ (rx.sta \in Stas /\ rx \in [sta : Stas \cup {Bmc}, null : BOOLEAN])

LEMMA Wraps ==
  ASSUME NEW n \in Int
  PROVE  n % LenMod \in 0..LenMod - 1
<1>1. LenMod \in Nat /\ LenMod > 0
  BY ApAssumption
<1> QED
  BY <1>1

LEMMA WrapsBoth ==
  ASSUME NEW a \in Int, NEW b \in Int
  PROVE  (a + b) % LenMod \in 0..LenMod - 1 /\ (a - b) % LenMod \in 0..LenMod - 1
<1>1. a + b \in Int /\ a - b \in Int
  OBVIOUS
<1> QED
  BY <1>1, Wraps

LEMMA Exact ==
  ASSUME NEW n \in Int, 0 <= n, n < LenMod
  PROVE  n % LenMod = n
<1>1. LenMod \in Nat /\ LenMod > 0
  BY ApAssumption
<1> QED
  BY <1>1

LEMMA BeaconRest ==
  ASSUME RestTypes, QueueTypes', bcnTim' = tim_bitmap' \/ bcnTim' = bcnTim,
         airTim' = airTim \/ airTim' = bcnTim
  PROVE  bcnTim' \subseteq Stas \cup {Bmc} /\ airTim' \subseteq Stas \cup {Bmc}
BY DEF RestTypes, QueueTypes

LEMMA StopRest ==
  ASSUME RestTypes, QueueTypes', NEW s \in Stas, stop_sta_xmit(s),
         link' = link, airTim' = airTim, cmdPc' = cmdPc, rx' = rx
  PROVE  RestTypes'
<1>1. /\ sleep' = sleep \cup {s} /\ alive' = alive /\ delivery' = delivery
      /\ bcnTim' = tim_bitmap' \/ bcnTim' = bcnTim
  BY DEF stop_sta_xmit, _update_beacon
<1>2. sta_dz_bitmap' \subseteq sta_dz_bitmap \cup {s} \cup {Bmc}
  BY DEF stop_sta_xmit
<1> QED
  BY <1>1, <1>2, BeaconRest DEF RestTypes

LEMMA WakeRest ==
  ASSUME RestTypes, QueueTypes', NEW s \in Stas, NEW type, wakeup_sta_to_xmit(s, type),
         link' = link \/ link' = [link EXCEPT ![s] = "flushed"],
         airTim' = airTim, cmdPc' = cmdPc, rx' = rx
  PROVE  RestTypes'
<1>1. /\ sleep' \subseteq sleep /\ alive' \subseteq alive /\ delivery' = delivery
      /\ bcnTim' = tim_bitmap' \/ bcnTim' = bcnTim
  BY DEF wakeup_sta_to_xmit, _update_beacon
<1>2. sta_dz_bitmap' \subseteq sta_dz_bitmap
  BY DEF wakeup_sta_to_xmit
<1>3. link' \in [Stas -> {"none", "auth", "asoc", "flushed", "leaving"}]
  BY DEF RestTypes
<1> QED
  BY <1>1, <1>2, <1>3, BeaconRest DEF RestTypes

LEMMA PsPollRest ==
  ASSUME RestTypes, QueueTypes', NEW s \in Stas, PsPoll(s)
  PROVE  RestTypes'
<1>1. PICK n \in BOOLEAN : rx' = [sta |-> s, null |-> n]
  <2>1. PICK n \in BOOLEAN : n = (/\ (IF mgmt_sleep_q[s] > 0 THEN 1 ELSE 0) = 0
                                  /\ (IF sleep_q[s] # <<>> THEN 1 ELSE 0) = 0)
    OBVIOUS
  <2>2. rx' = [sta |-> s, null |-> n]
    BY <2>1, Zenon DEF PsPoll
  <2> QED
    BY <2>2
<1>2. /\ alive' = alive \ {s} /\ sleep' = sleep /\ link' = link /\ delivery' = delivery
      /\ bcnTim' = bcnTim /\ sta_dz_bitmap' = sta_dz_bitmap /\ airTim' = airTim /\ cmdPc' = cmdPc
  BY DEF PsPoll, timVars
<1>3. rx'.sta \in Stas /\ rx' \in [sta : Stas \cup {Bmc}, null : BOOLEAN]
  BY <1>1
<1> QED
  BY <1>2, <1>3 DEF RestTypes

LEMMA FreeRest ==
  ASSUME RestTypes, NEW s \in Stas, rtw_free_stainfo(s)
  PROVE  RestTypes'
<1>1. /\ link' = [link EXCEPT ![s] = "none"] /\ delivery' = [delivery EXCEPT ![s] = {}]
      /\ sleep' = sleep \ {s} /\ alive' = alive \ {s}
      /\ bcnTim' = bcnTim /\ airTim' = airTim /\ cmdPc' = cmdPc /\ rx' = rx
      /\ sta_dz_bitmap' \subseteq sta_dz_bitmap
  BY DEF rtw_free_stainfo
<1> QED
  BY <1>1 DEF RestTypes

LEMMA StationRest ==
  ASSUME RestTypes, QueueTypes', NEW s \in Stas, Station(s)
  PROVE  RestTypes'
<1>1. CASE process_pwrbit_data(s)
  <2>1. /\ link' = link /\ airTim' = airTim /\ cmdPc' = cmdPc /\ rx' = rx
        /\ wakeup_sta_to_xmit(s, "all") \/ stop_sta_xmit(s)
    BY <1>1 DEF process_pwrbit_data
  <2> QED
    BY <2>1, WakeRest, StopRest
<1>2. CASE flush_sleep_q(s)
  <2>1. /\ link' = link /\ airTim' = airTim /\ cmdPc' = cmdPc /\ rx' = rx
        /\ wakeup_sta_to_xmit(s, "all")
    BY <1>2 DEF flush_sleep_q
  <2> QED
    BY <2>1, WakeRest
<1>3. CASE ap_free_sta_flush(s)
  <2>1. /\ link' = [link EXCEPT ![s] = "flushed"] /\ airTim' = airTim /\ cmdPc' = cmdPc
        /\ rx' = rx /\ wakeup_sta_to_xmit(s, "mgmt")
    BY <1>3 DEF ap_free_sta_flush
  <2> QED
    BY <2>1, WakeRest
<1>4. CASE xmit_delivery_enabled_frames(s)
  <2>1. /\ link' = link /\ delivery' = delivery /\ sleep' = sleep /\ alive' = alive
        /\ sta_dz_bitmap' = sta_dz_bitmap /\ airTim' = airTim /\ cmdPc' = cmdPc /\ rx' = rx
        /\ bcnTim' = tim_bitmap' \/ bcnTim' = bcnTim
    BY <1>4 DEF xmit_delivery_enabled_frames, _update_beacon, staVars
  <2> QED
    BY <2>1, BeaconRest DEF RestTypes
<1>5. CASE alive_check(s)
  <2>1. /\ link' = link /\ delivery' = delivery /\ sleep' = sleep /\ alive' = alive \cup {s}
        /\ sta_dz_bitmap' = sta_dz_bitmap /\ airTim' = airTim /\ cmdPc' = cmdPc /\ rx' = rx
        /\ bcnTim' = tim_bitmap' \/ bcnTim' = bcnTim
    BY <1>5 DEF alive_check, _update_beacon
  <2> QED
    BY <2>1, BeaconRest DEF RestTypes
<1>6. CASE rtw_hal_mgnt_xmit(s)
  <2>1. /\ link' = link /\ delivery' = delivery /\ sleep' = sleep /\ alive' = alive
        /\ sta_dz_bitmap' = sta_dz_bitmap /\ airTim' = airTim /\ cmdPc' = cmdPc /\ rx' = rx
        /\ bcnTim' = tim_bitmap' \/ bcnTim' = bcnTim
    BY <1>6 DEF rtw_hal_mgnt_xmit, _update_beacon, staVars
  <2> QED
    BY <2>1, BeaconRest DEF RestTypes
<1>7. CASE rtw_alloc_stainfo(s)
  <2>1. /\ link' = [link EXCEPT ![s] = "auth"] /\ delivery' = delivery /\ sleep' = sleep
        /\ alive' = alive /\ bcnTim' = bcnTim
        /\ sta_dz_bitmap' = sta_dz_bitmap /\ airTim' = airTim /\ cmdPc' = cmdPc /\ rx' = rx
    BY <1>7 DEF rtw_alloc_stainfo, timVars
  <2> QED
    BY <2>1 DEF RestTypes
<1>8. CASE OnAssocReq(s)
  <2>1. PICK d \in Profiles : delivery' = [delivery EXCEPT ![s] = d]
    BY <1>8 DEF OnAssocReq
  <2>2. d \in SUBSET ACs
    BY ApAssumption
  <2>3. /\ link' = [link EXCEPT ![s] = "asoc"] /\ sleep' = sleep
        /\ alive' = alive /\ bcnTim' = bcnTim
        /\ sta_dz_bitmap' = sta_dz_bitmap /\ airTim' = airTim /\ cmdPc' = cmdPc /\ rx' = rx
    BY <1>8 DEF OnAssocReq, timVars
  <2> QED
    BY <2>1, <2>2, <2>3 DEF RestTypes
<1>9. CASE ap_free_sta(s)
  <2>1. /\ link' = [link EXCEPT ![s] = "leaving"] /\ delivery' = delivery /\ sleep' = sleep
        /\ alive' = alive
        /\ bcnTim' = tim_bitmap' \/ bcnTim' = bcnTim
        /\ sta_dz_bitmap' = sta_dz_bitmap /\ airTim' = airTim /\ cmdPc' = cmdPc /\ rx' = rx
    BY <1>9 DEF ap_free_sta
  <2>2. link' \in [Stas -> {"none", "auth", "asoc", "flushed", "leaving"}]
    BY <2>1 DEF RestTypes
  <2> QED
    BY <2>1, <2>2, BeaconRest DEF RestTypes
<1> QED
  BY <1>1, <1>2, <1>3, <1>4, <1>5, <1>6, <1>7, <1>8, <1>9, PsPollRest, FreeRest DEF Station

LEMMA OtherRest ==
  ASSUME RestTypes, QueueTypes',
         link' = link, delivery' = delivery, sleep' = sleep, alive' = alive,
         sta_dz_bitmap' \subseteq sta_dz_bitmap \cup {Bmc},
         bcnTim' = tim_bitmap' \/ bcnTim' = bcnTim, airTim' = airTim \/ airTim' = bcnTim,
         cmdPc' \in {cmdPc, "idle", "atim", "clear"}, rx' \in {rx, NoRx}
  PROVE  RestTypes'
BY BeaconRest DEF RestTypes

LEMMA NextRest ==
  ASSUME RestTypes, QueueTypes', [Next]_vars
  PROVE  RestTypes'
<1>1. CASE \E s \in Stas, a \in ACs : rtw_xmit(s, a)
  BY <1>1, OtherRest DEF rtw_xmit, staVars, _update_beacon
<1>2. CASE rtw_xmit_bmc
  BY <1>2, OtherRest DEF rtw_xmit_bmc, staVars, _update_beacon
<1>3. CASE PsPollEnd
  BY <1>3, OtherRest DEF PsPollEnd, staVars, _update_beacon
<1>4. CASE rtl8188fu_xmitframe_complete
  BY <1>4, OtherRest DEF rtl8188fu_xmitframe_complete, staVars, timVars
<1>5. CASE HiqDrains \/ UNCHANGED vars
  BY <1>5, OtherRest DEF HiqDrains, vars, staVars, timVars
<1>6. CASE chk_bmc_sleepq_hdl
  BY <1>6, OtherRest DEF chk_bmc_sleepq_hdl, staVars
<1>7. CASE chk_bmc_sleepq_release
  BY <1>7, OtherRest DEF chk_bmc_sleepq_release, staVars
<1>8. CASE rtw_chk_hi_queue_hdl
  BY <1>8, OtherRest DEF rtw_chk_hi_queue_hdl, staVars
<1>9. CASE rtw_chk_hi_queue_clear
  BY <1>9, OtherRest DEF rtw_chk_hi_queue_clear, staVars, _update_beacon
<1> QED
  BY <1>1, <1>2, <1>3, <1>4, <1>5, <1>6, <1>7, <1>8, <1>9, StationRest DEF Next, CmdThread

LEMMA NextHiq ==
  ASSUME hiq \in BOOLEAN, [Next]_vars
  PROVE  hiq' \in BOOLEAN
<1>1. ASSUME NEW s \in Stas, Station(s) PROVE hiq' = hiq
  BY <1>1, Zenon DEF Station, process_pwrbit_data, xmit_delivery_enabled_frames, PsPoll,
     alive_check, flush_sleep_q, rtw_hal_mgnt_xmit, rtw_alloc_stainfo, OnAssocReq,
     ap_free_sta_flush, ap_free_sta, rtw_free_stainfo
<1>2. ASSUME NEW s \in Stas, NEW a \in ACs, rtw_xmit(s, a) PROVE hiq' = hiq
  BY <1>2, Zenon DEF rtw_xmit
<1>3. ASSUME rtw_xmit_bmc \/ PsPollEnd PROVE hiq' = hiq
  BY <1>3, Zenon DEF rtw_xmit_bmc, PsPollEnd
<1>4. ASSUME rtl8188fu_xmitframe_complete PROVE hiq' = hiq \/ hiq' = TRUE
  <2>1. hiq' = hiq \/ hiq' \in {hiq, TRUE}
    BY <1>4, Zenon DEF rtl8188fu_xmitframe_complete
  <2> QED
    BY <2>1, Zenon
<1>5. ASSUME HiqDrains PROVE hiq' = FALSE
  BY <1>5, Zenon DEF HiqDrains
<1>6. ASSUME CmdThread PROVE hiq' = hiq
  BY <1>6, Zenon DEF CmdThread, chk_bmc_sleepq_hdl, chk_bmc_sleepq_release,
     rtw_chk_hi_queue_hdl, rtw_chk_hi_queue_clear
<1>7. ASSUME UNCHANGED vars PROVE hiq' = hiq
  BY <1>7, Zenon DEF vars
<1>8. hiq' = hiq \/ hiq' = TRUE \/ hiq' = FALSE
  BY <1>1, <1>2, <1>3, <1>4, <1>5, <1>6, <1>7, Zenon DEF Next
<1> QED
  BY <1>8, Zenon

LEMMA LenSet ==
  ASSUME LenTypes, NEW s \in Stas,
         NEW d \in 0..LenMod - 1, NEW e \in 0..LenMod - 1, NEW m \in 0..LenMod - 1,
         sleepq_len' = sleepq_len \/ sleepq_len' = [sleepq_len EXCEPT ![s] = d],
         sleepq_ac_len' = sleepq_ac_len \/ sleepq_ac_len' = [sleepq_ac_len EXCEPT ![s] = e],
         mgmt_sleepq_len' = mgmt_sleepq_len \/ mgmt_sleepq_len' = [mgmt_sleepq_len EXCEPT ![s] = m]
  PROVE  LenTypes'
BY DEF LenTypes

LEMMA LenSame ==
  ASSUME LenTypes, sleepq_len' = sleepq_len, sleepq_ac_len' = sleepq_ac_len,
         mgmt_sleepq_len' = mgmt_sleepq_len
  PROVE  LenTypes'
BY DEF LenTypes

LEMMA LenInts ==
  ASSUME LenTypes, DataInv, BufInv, NEW s \in Stas
  PROVE  /\ sleepq_len[s] \in Int /\ sleepq_ac_len[s] \in Int /\ mgmt_sleepq_len[s] \in Int
         /\ Len(sleep_q[s]) \in Int /\ Len(sta_pending[s]) \in Int
         /\ mgmt_pending[s] \in Int /\ mgmt_sleep_q[s] \in Int
         /\ Len(Enabled(sleep_q[s], s)) \in Int /\ Len(Enabled(sta_pending[s], s)) \in Int
         /\ Cardinality(Range(sta_pending[s])) = Len(sta_pending[s])
<1>1. sleepq_len[s] \in Int /\ sleepq_ac_len[s] \in Int /\ mgmt_sleepq_len[s] \in Int
  <2>1. LenMod \in Int
    BY ApAssumption
  <2>2. /\ sleepq_len[s] \in 0..LenMod - 1 /\ sleepq_ac_len[s] \in 0..LenMod - 1
        /\ mgmt_sleepq_len[s] \in 0..LenMod - 1
    BY DEF LenTypes
  <2> QED
    BY <2>1, <2>2
<1>2. sleep_q[s] \in Seq(Frames) /\ sta_pending[s] \in Seq(Frames) /\ IsInjective(sta_pending[s])
  BY Parts
<1>3. Len(sleep_q[s]) \in Int /\ Len(sta_pending[s]) \in Int
  BY <1>2
<1>4. mgmt_pending[s] \in Int /\ mgmt_sleep_q[s] \in Int
  BY DEF BufInv
<1>5. ASSUME NEW q \in Seq(Frames) PROVE Len(Enabled(q, s)) \in Int
  <2>1. Filter(q, With(s)) \in Seq(Frames)
    BY FilterShape
  <2>2. Len(Filter(q, With(s))) \in Int
    BY <2>1
  <2> QED
    BY <2>2 DEF Enabled, With
<1>6. Cardinality(Range(sta_pending[s])) = Len(sta_pending[s])
  BY <1>2, RangeSize
<1> QED
  BY <1>1, <1>2, <1>3, <1>4, <1>5, <1>6

LEMMA StopLen ==
  ASSUME LenTypes, DataInv, BufInv, NEW s \in Stas, stop_sta_xmit(s)
  PROVE  LenTypes'
<1>1. PICK d : d = (sleepq_len[s] + Len(sta_pending[s])) % LenMod
  OBVIOUS
<1>2. PICK e : e = (sleepq_ac_len[s] + Len(Enabled(sta_pending[s], s))) % LenMod
  OBVIOUS
<1>3. PICK m : m = (mgmt_sleepq_len[s] + mgmt_pending[s]) % LenMod
  OBVIOUS
<1>4. d \in 0..LenMod - 1 /\ e \in 0..LenMod - 1 /\ m \in 0..LenMod - 1
  <2>1. /\ sleepq_len[s] \in Int /\ sleepq_ac_len[s] \in Int /\ mgmt_sleepq_len[s] \in Int
        /\ Len(sta_pending[s]) \in Int /\ mgmt_pending[s] \in Int
        /\ Len(Enabled(sta_pending[s], s)) \in Int
    BY LenInts
  <2> QED
    BY <1>1, <1>2, <1>3, <2>1, WrapsBoth
<1>5. /\ sleepq_len' = [sleepq_len EXCEPT ![s] = d]
      /\ sleepq_ac_len' = [sleepq_ac_len EXCEPT ![s] = e]
      /\ mgmt_sleepq_len' = [mgmt_sleepq_len EXCEPT ![s] = m]
  <2>1. sleepq_len' = [sleepq_len EXCEPT ![s] = (@ + Cardinality(Range(sta_pending[s]))) % LenMod]
    BY DEF stop_sta_xmit, Range
  <2>2. sleepq_len' = [sleepq_len EXCEPT ![s] = d]
    BY <1>1, <2>1, LenInts
  <2> QED
    BY <1>2, <1>3, <2>2 DEF stop_sta_xmit
<1> QED
  BY <1>4, <1>5, LenSet

LEMMA WakeLen ==
  ASSUME LenTypes, DataInv, BufInv, NEW s \in Stas, NEW type, wakeup_sta_to_xmit(s, type)
  PROVE  LenTypes'
<1>1. PICK n : n = IF type = "all" THEN Len(sleep_q[s]) ELSE 0
  OBVIOUS
<1>2. n \in Int
  BY <1>1, LenInts
<1>3. PICK d : d = (sleepq_len[s] - n) % LenMod
  OBVIOUS
<1>4. PICK e : e = (sleepq_ac_len[s] - Len(Enabled(sleep_q[s], s))) % LenMod
  OBVIOUS
<1>5. PICK m : m = (mgmt_sleepq_len[s] - mgmt_sleep_q[s]) % LenMod
  OBVIOUS
<1>6. d \in 0..LenMod - 1 /\ e \in 0..LenMod - 1 /\ m \in 0..LenMod - 1
  <2>1. /\ sleepq_len[s] \in Int /\ sleepq_ac_len[s] \in Int /\ mgmt_sleepq_len[s] \in Int
        /\ mgmt_sleep_q[s] \in Int /\ Len(Enabled(sleep_q[s], s)) \in Int
    BY LenInts
  <2> QED
    BY <1>2, <1>3, <1>4, <1>5, <2>1, WrapsBoth
<1>7. mgmt_sleepq_len' = [mgmt_sleepq_len EXCEPT ![s] = m]
  BY <1>5 DEF wakeup_sta_to_xmit
<1>8. sleepq_ac_len' = sleepq_ac_len \/ sleepq_ac_len' = [sleepq_ac_len EXCEPT ![s] = e]
  BY <1>4 DEF wakeup_sta_to_xmit
<1>9. sleepq_len' = sleepq_len \/ sleepq_len' = [sleepq_len EXCEPT ![s] = d]
  BY <1>1, <1>3 DEF wakeup_sta_to_xmit, Left
<1> QED
  BY <1>6, <1>7, <1>8, <1>9, LenSet

LEMMA DeliveryLen ==
  ASSUME LenTypes, DataInv, BufInv, NEW s \in Stas, xmit_delivery_enabled_frames(s)
  PROVE  LenTypes'
<1>1. PICK d : d = (sleepq_len[s] - Len(Enabled(sleep_q[s], s))) % LenMod
  OBVIOUS
<1>2. PICK e : e = (sleepq_ac_len[s] - Len(Enabled(sleep_q[s], s))) % LenMod
  OBVIOUS
<1>3. d \in 0..LenMod - 1 /\ e \in 0..LenMod - 1
  <2>1. /\ sleepq_len[s] \in Int /\ sleepq_ac_len[s] \in Int
        /\ Len(Enabled(sleep_q[s], s)) \in Int
    BY LenInts
  <2> QED
    BY <1>1, <1>2, <2>1, WrapsBoth
<1>4. /\ sleepq_len' = [sleepq_len EXCEPT ![s] = d]
      /\ sleepq_ac_len' = [sleepq_ac_len EXCEPT ![s] = e]
      /\ mgmt_sleepq_len' = mgmt_sleepq_len
  BY <1>1, <1>2 DEF xmit_delivery_enabled_frames, mgmtVars
<1> QED
  BY <1>3, <1>4, LenSet

LEMMA PsPollLen ==
  ASSUME LenTypes, DataInv, BufInv, NEW s \in Stas, PsPoll(s)
  PROVE  LenTypes'
<1>1. PICK k \in {0, 1} : k = IF mgmt_sleep_q[s] > 0 THEN 1 ELSE 0
  OBVIOUS
<1>2. PICK n \in {0, 1} : n = IF sleep_q[s] # <<>> THEN 1 ELSE 0
  OBVIOUS
<1>3. PICK d : d = (sleepq_len[s] - n) % LenMod
  OBVIOUS
<1>4. PICK m : m = (mgmt_sleepq_len[s] - k) % LenMod
  OBVIOUS
<1>5. d \in 0..LenMod - 1 /\ m \in 0..LenMod - 1
  <2>1. sleepq_len[s] \in Int /\ mgmt_sleepq_len[s] \in Int
    BY LenInts
  <2> QED
    BY <1>3, <1>4, <2>1, WrapsBoth
<1>6. /\ sleepq_len' = [sleepq_len EXCEPT ![s] = d]
      /\ mgmt_sleepq_len' = [mgmt_sleepq_len EXCEPT ![s] = m]
      /\ sleepq_ac_len' = sleepq_ac_len
  BY <1>1, <1>2, <1>3, <1>4 DEF PsPoll
<1> QED
  BY <1>5, <1>6, LenSet

LEMMA PsPollEndLen ==
  ASSUME LenTypes, RestTypes, PsPollEnd
  PROVE  LenTypes'
<1>1. PICK s \in Stas : s = rx.sta
  BY DEF RestTypes, PsPollEnd
<1>2. 0 \in 0..LenMod - 1
  BY ApAssumption
<1>3. /\ sleepq_len' = sleepq_len \/ sleepq_len' = [sleepq_len EXCEPT ![s] = 0]
      /\ mgmt_sleepq_len' = mgmt_sleepq_len \/ mgmt_sleepq_len' = [mgmt_sleepq_len EXCEPT ![s] = 0]
      /\ sleepq_ac_len' = sleepq_ac_len
  BY <1>1 DEF PsPollEnd
<1> QED
  BY <1>2, <1>3, LenSet

LEMMA FreeLen ==
  ASSUME LenTypes, NEW s \in Stas, rtw_free_stainfo(s)
  PROVE  LenTypes'
<1>1. 0 \in 0..LenMod - 1
  BY ApAssumption
<1>2. /\ sleepq_len' = [sleepq_len EXCEPT ![s] = 0]
      /\ sleepq_ac_len' = [sleepq_ac_len EXCEPT ![s] = 0]
      /\ mgmt_sleepq_len' = [mgmt_sleepq_len EXCEPT ![s] = 0]
  BY DEF rtw_free_stainfo
<1> QED
  BY <1>1, <1>2, LenSet

LEMMA MgntXmitLen ==
  ASSUME LenTypes, DataInv, BufInv, NEW s \in Stas, rtw_hal_mgnt_xmit(s)
  PROVE  LenTypes'
<1>1. PICK m : m = (mgmt_sleepq_len[s] + 1) % LenMod
  OBVIOUS
<1>2. m \in 0..LenMod - 1
  <2>1. mgmt_sleepq_len[s] \in Int
    BY LenInts
  <2> QED
    BY <1>1, <2>1, WrapsBoth
<1>3. /\ sleepq_len' = sleepq_len /\ sleepq_ac_len' = sleepq_ac_len
      /\ mgmt_sleepq_len' = [mgmt_sleepq_len EXCEPT ![s] = m]
  BY <1>1 DEF rtw_hal_mgnt_xmit, dataVars
<1> QED
  BY <1>2, <1>3, LenSet

LEMMA XmitLen ==
  ASSUME LenTypes, DataInv, BufInv, NEW s \in Stas, NEW a \in ACs, rtw_xmit(s, a)
  PROVE  LenTypes'
<1>1. PICK d : d = (sleepq_len[s] + 1) % LenMod
  OBVIOUS
<1>2. PICK e : e = IF a \in delivery[s] THEN (sleepq_ac_len[s] + 1) % LenMod ELSE sleepq_ac_len[s]
  OBVIOUS
<1>3. d \in 0..LenMod - 1 /\ (sleepq_ac_len[s] + 1) % LenMod \in 0..LenMod - 1
  <2>1. sleepq_len[s] \in Int /\ sleepq_ac_len[s] \in Int
    BY LenInts
  <2> QED
    BY <1>1, <2>1, WrapsBoth
<1>4. e \in 0..LenMod - 1
  BY <1>2, <1>3 DEF LenTypes
<1>5. /\ sleepq_len' = sleepq_len \/ sleepq_len' = [sleepq_len EXCEPT ![s] = d]
      /\ sleepq_ac_len' = sleepq_ac_len \/ sleepq_ac_len' = [sleepq_ac_len EXCEPT ![s] = e]
      /\ mgmt_sleepq_len' = mgmt_sleepq_len
  BY <1>1, <1>2 DEF rtw_xmit, mgmtVars
<1> QED
  BY <1>3, <1>4, <1>5, LenSet

-----------------------------------------------------------------------------
(* Types, for every step.                                                  *)

AllTypes == QueueTypes /\ TimInv /\ DataInv /\ BufInv /\ LenTypes /\ RestTypes

LEMMA StationTypes ==
  ASSUME DataInv, BufInv, LenTypes, NEW s \in Stas, Station(s)
  PROVE  DataInv' /\ BufInv' /\ LenTypes'
<1>1. CASE process_pwrbit_data(s)
  <2>1. wakeup_sta_to_xmit(s, "all") \/ stop_sta_xmit(s)
    BY <1>1 DEF process_pwrbit_data
  <2> QED
    BY <2>1, WakeData, WakeBuf, WakeLen, StopData, StopBuf, StopLen
<1>2. CASE flush_sleep_q(s) \/ ap_free_sta_flush(s)
  <2>1. \E type : wakeup_sta_to_xmit(s, type)
    BY <1>2 DEF flush_sleep_q, ap_free_sta_flush
  <2> QED
    BY <2>1, WakeData, WakeBuf, WakeLen
<1>3. CASE xmit_delivery_enabled_frames(s)
  <2>1. BufInv'
    BY <1>3, SameBuf DEF xmit_delivery_enabled_frames, mgmtVars
  <2> QED
    BY <1>3, <2>1, DeliveryData, DeliveryLen
<1>4. CASE PsPoll(s)
  BY <1>4, PsPollData, PsPollBuf, PsPollLen
<1>5. CASE rtw_hal_mgnt_xmit(s)
  <2>1. DataInv'
    BY <1>5, SameData DEF rtw_hal_mgnt_xmit, dataVars
  <2> QED
    BY <1>5, <2>1, MgntXmitBuf, MgntXmitLen
<1>6. CASE rtw_free_stainfo(s)
  BY <1>6, FreeData, FreeBuf, FreeLen
<1>7. CASE alive_check(s) \/ rtw_alloc_stainfo(s) \/ OnAssocReq(s) \/ ap_free_sta(s)
  <2>1. UNCHANGED <<dataVars, mgmtVars>>
    BY <1>7 DEF alive_check, rtw_alloc_stainfo, OnAssocReq, ap_free_sta
  <2> QED
    BY <2>1, SameData, SameBuf, LenSame DEF dataVars, mgmtVars
<1> QED
  BY <1>1, <1>2, <1>3, <1>4, <1>5, <1>6, <1>7 DEF Station

LEMMA NextTypes ==
  ASSUME AllTypes, [Next]_vars
  PROVE  AllTypes'
<1>0. DataInv /\ BufInv /\ LenTypes /\ RestTypes
  BY DEF AllTypes
<1>1. QueueTypes' /\ TimInv'
  BY NextStep DEF AllTypes
<1>2. RestTypes'
  BY <1>0, <1>1, NextRest
<1>3. CASE \E s \in Stas, a \in ACs : rtw_xmit(s, a)
  <2>1. BufInv'
    BY <1>0, <1>3, SameBuf DEF rtw_xmit, mgmtVars
  <2> QED
    BY <1>0, <1>1, <1>2, <1>3, <2>1, XmitData, XmitLen DEF AllTypes
<1>4. CASE PsPollEnd
  <2>1. DataInv' /\ BufInv'
    BY <1>0, <1>4, SameData, SameBuf DEF PsPollEnd
  <2> QED
    BY <1>0, <1>1, <1>2, <1>4, <2>1, PsPollEndLen DEF AllTypes
<1>5. CASE rtl8188fu_xmitframe_complete
  <2>1. LenTypes'
    BY <1>0, <1>5, LenSame DEF rtl8188fu_xmitframe_complete
  <2> QED
    BY <1>0, <1>1, <1>2, <1>5, <2>1, CompleteData, CompleteBuf DEF AllTypes
<1>6. CASE rtw_xmit_bmc \/ HiqDrains \/ CmdThread \/ UNCHANGED vars
  <2>1. UNCHANGED <<dataVars, mgmtVars>>
    BY <1>6 DEF rtw_xmit_bmc, HiqDrains, CmdThread, chk_bmc_sleepq_hdl, chk_bmc_sleepq_release,
       rtw_chk_hi_queue_hdl, rtw_chk_hi_queue_clear, vars
  <2>2. DataInv' /\ BufInv' /\ LenTypes'
    BY <1>0, <2>1, SameData, SameBuf, LenSame DEF dataVars, mgmtVars
  <2> QED
    BY <1>1, <1>2, <2>2 DEF AllTypes
<1>7. CASE \E s \in Stas : Station(s)
  <2>1. DataInv' /\ BufInv' /\ LenTypes'
    BY <1>0, <1>7, StationTypes
  <2> QED
    BY <1>1, <1>2, <2>1 DEF AllTypes
<1> QED
  BY <1>3, <1>4, <1>5, <1>6, <1>7 DEF Next

LEMMA InitTypes ==
  ASSUME Init
  PROVE  AllTypes /\ OrdInv /\ hiq \in BOOLEAN
<1>1. QueueTypes /\ TimInv
  BY EmptyMore DEF Init, QueueTypes, TimInv
<1>2. BufInv
  BY InitBuf
<1>3. PICK n \in Seq(Frames) : n = <<>>
  BY NoFrames
<1>4. age = n /\ sta_pending = [s \in Stas |-> n] /\ sleep_q = [s \in Stas |-> n]
  BY <1>3 DEF Init
<1>5. n \o n = n /\ DOMAIN n = {}
  BY <1>3, ConcatEmptySeq
<1>6. Numbered(n) /\ IsInjective(n) /\ Range(n) = {} /\ Sorted(n, n)
  <2>1. Numbered(n) /\ IsInjective(n)
    BY <1>5, Zenon DEF Numbered, IsInjective
  <2>2. Range(n) = {}
    BY <1>5, Zenon DEF Range
  <2>3. Sorted(n, n)
    BY <1>5, Zenon DEF Sorted
  <2> QED
    BY <2>1, <2>2, <2>3
<1>7. \A s \in Stas : Queued(s) = n
  BY <1>4, <1>5 DEF Queued
<1>8. DataTypes
  BY <1>4 DEF DataTypes
<1>9. DataInv /\ OrdInv
  BY <1>4, <1>6, <1>7, <1>8 DEF DataInv, OrdInv
<1>10. LenTypes
  <2>1. 0 \in 0..LenMod - 1
    BY ApAssumption
  <2> QED
    BY <2>1 DEF Init, LenTypes
<1>11. RestTypes
  BY DEF Init, RestTypes
<1>12. hiq \in BOOLEAN
  <2>1. hiq = FALSE
    BY Zenon DEF Init
  <2> QED
    BY <2>1, Zenon
<1> QED
  BY <1>1, <1>2, <1>9, <1>10, <1>11, <1>12 DEF AllTypes

(* The counters and queues of power save keep their types, for any number  *)
(* of stations and frames, on one CPU and on several: no counter of        *)
(* management frames exceeds the pool NR_XMIT_EXTBUFF, although            *)
(* rtw_free_stainfo gives back the parked ones and not the released ones.  *)
THEOREM PowerSaveTypes == Spec => []TypeOK
<1>1. Init => AllTypes /\ hiq \in BOOLEAN
  BY InitTypes
<1>2. AllTypes /\ hiq \in BOOLEAN /\ [Next]_vars => AllTypes' /\ (hiq \in BOOLEAN)'
  <2>1. AllTypes /\ [Next]_vars => AllTypes'
    BY NextTypes
  <2>2. hiq \in BOOLEAN /\ [Next]_vars => hiq' \in BOOLEAN
    BY NextHiq
  <2> QED
    BY <2>1, <2>2, Zenon
<1>3. AllTypes /\ hiq \in BOOLEAN => TypeOK
  <2>1. SUFFICES ASSUME AllTypes, hiq \in BOOLEAN PROVE TypeOK
    OBVIOUS
  <2>2. rx \in [sta : Stas \cup {Bmc}, null : BOOLEAN]
    <3>1. NoRx \in [sta : Stas \cup {Bmc}, null : BOOLEAN]
      BY DEF NoRx
    <3> QED
      BY <2>1, <3>1 DEF AllTypes, RestTypes
  <2>3. /\ mgmt_pending \in [Stas -> 0..NExt] /\ mgmt_sleep_q \in [Stas -> 0..NExt]
        /\ free_xmit_extbuf_cnt \in 0..NExt
    BY <2>1, BufTypes DEF AllTypes
  <2>4. /\ cmds \in Seq({"beacon", "bmc", "hiq"}) /\ tim_bitmap \subseteq Stas \cup {Bmc}
        /\ bmc_pending \in Nat /\ bmc_q \in Nat
    BY <2>1 DEF AllTypes, QueueTypes, Cmds
  <2>5. /\ age \in Seq(Frames)
        /\ sta_pending \in [Stas -> Seq(Frames)] /\ sleep_q \in [Stas -> Seq(Frames)]
    BY <2>1 DEF AllTypes, DataInv, DataTypes
  <2> QED
    BY <2>1, <2>2, <2>3, <2>4, <2>5, Zenon DEF AllTypes, LenTypes, RestTypes, TypeOK
<1> QED
  BY <1>1, <1>2, <1>3, PTL DEF Spec

-----------------------------------------------------------------------------
(* One CPU: softirqs do not overlap.  The lengths are those of the lists,  *)
(* nothing is parked for a station that counts as awake or has just come,  *)
(* a dozing station has its bit of sta_dz_bitmap, and its TIM bit is lit   *)
(* while something waits for it.                                           *)

Empty(s) == sleep_q[s] = <<>> /\ mgmt_sleep_q[s] = 0

Waits(s) ==
  \/ \E f \in Range(sleep_q[s]) : Announced(s, ac(f))
  \/ has_legacy_ac(s) /\ mgmt_sleep_q[s] > 0

StaInv(s) ==
  /\ sleepq_len[s] = Len(sleep_q[s]) /\ mgmt_sleepq_len[s] = mgmt_sleep_q[s]
  /\ link[s] \in {"none", "auth"} => Empty(s)
  /\ Asoc(s) /\ s \notin sleep => Empty(s)
  /\ s \in sleep => s \in sta_dz_bitmap
  /\ Asoc(s) /\ Waits(s) => s \in tim_bitmap

(* The PS-Poll handler interrupted after the unlock: the error handler     *)
(* resets lengths that are zero already.                                   *)
RxInv == rx # NoRx /\ rx.null => Empty(rx.sta)

OneCpuInv == (\A s \in Stas : StaInv(s)) /\ RxInv

LEMMA Bounds ==
  /\ NFrame \in Nat /\ NFrame >= 1 /\ NExt \in Nat /\ NExt >= 1
  /\ LenMod \in Nat /\ LenMod > NFrame + NExt
  /\ Bmc \notin Stas
BY ApAssumption

LEMMA StaFacts ==
  ASSUME AllTypes, NEW s \in Stas, StaInv(s)
  PROVE  /\ sleep_q[s] \in Seq(Frames) /\ sta_pending[s] \in Seq(Frames)
         /\ Len(sleep_q[s]) \in 0..NFrame /\ Len(sta_pending[s]) \in 0..NFrame
         /\ mgmt_pending[s] \in 0..NExt /\ mgmt_sleep_q[s] \in 0..NExt
         /\ sleepq_len[s] = Len(sleep_q[s]) /\ mgmt_sleepq_len[s] = mgmt_sleep_q[s]
<1>0. DataInv /\ BufInv
  BY DEF AllTypes
<1>1. sleep_q[s] \in Seq(Frames) /\ sta_pending[s] \in Seq(Frames)
  BY <1>0, Parts
<1>2. Len(sleep_q[s]) \in 0..NFrame /\ Len(sta_pending[s]) \in 0..NFrame
  BY <1>0, Lengths
<1>3. mgmt_pending[s] \in 0..NExt /\ mgmt_sleep_q[s] \in 0..NExt
  BY <1>0, BufTypes
<1> QED
  BY <1>1, <1>2, <1>3 DEF StaInv

(* The variables of power save are functions on the stations.              *)
LEMMA StaFunctions ==
  ASSUME AllTypes
  PROVE  /\ sleep_q = [t \in Stas |-> sleep_q[t]]
         /\ sleepq_len = [t \in Stas |-> sleepq_len[t]]
         /\ mgmt_sleep_q = [t \in Stas |-> mgmt_sleep_q[t]]
         /\ mgmt_sleepq_len = [t \in Stas |-> mgmt_sleepq_len[t]]
         /\ link = [t \in Stas |-> link[t]] /\ delivery = [t \in Stas |-> delivery[t]]
<1>1. sleep_q = [t \in Stas |-> sleep_q[t]]
  BY DEF AllTypes, DataInv, DataTypes
<1>2. sleepq_len = [t \in Stas |-> sleepq_len[t]]
  BY DEF AllTypes, LenTypes
<1>3. mgmt_sleep_q = [t \in Stas |-> mgmt_sleep_q[t]]
  BY DEF AllTypes, BufInv
<1>4. mgmt_sleepq_len = [t \in Stas |-> mgmt_sleepq_len[t]]
  BY DEF AllTypes, LenTypes
<1>5. link = [t \in Stas |-> link[t]] /\ delivery = [t \in Stas |-> delivery[t]]
  BY DEF AllTypes, RestTypes
<1> QED
  BY <1>1, <1>2, <1>3, <1>4, <1>5

(* A station that a step does not concern.                                 *)
LEMMA Bystander ==
  ASSUME NEW t, StaInv(t),
         sleep_q'[t] = sleep_q[t], sleepq_len'[t] = sleepq_len[t],
         mgmt_sleep_q'[t] = mgmt_sleep_q[t], mgmt_sleepq_len'[t] = mgmt_sleepq_len[t],
         link'[t] = link[t], delivery'[t] = delivery[t],
         t \in sleep' <=> t \in sleep, t \in sta_dz_bitmap => t \in sta_dz_bitmap',
         t \in tim_bitmap => t \in tim_bitmap'
  PROVE  StaInv(t)'
<1>1. Empty(t)' <=> Empty(t)
  BY DEF Empty
<1>2. Waits(t)' <=> Waits(t)
  BY DEF Waits, Announced, has_legacy_ac
<1>3. Asoc(t)' <=> Asoc(t)
  BY DEF Asoc
<1> QED
  BY <1>1, <1>2, <1>3 DEF StaInv

(* rtw_xmit.                                                               *)
LEMMA XmitSta ==
  ASSUME AllTypes, OneCpuInv, NEW s \in Stas, NEW a \in ACs, rtw_xmit(s, a)
  PROVE  \A t \in Stas : StaInv(t)'
<1>0. StaInv(s) /\ \A t \in Stas : StaInv(t)
  BY DEF OneCpuInv
<1>1. /\ mgmt_sleep_q' = mgmt_sleep_q /\ mgmt_sleepq_len' = mgmt_sleepq_len /\ link' = link
      /\ delivery' = delivery /\ sleep' = sleep /\ sta_dz_bitmap' = sta_dz_bitmap
  BY DEF rtw_xmit, staVars, mgmtVars
<1>2. CASE ~Parks(s)
  <2>1. sleep_q' = sleep_q /\ sleepq_len' = sleepq_len /\ tim_bitmap' = tim_bitmap
    BY <1>2 DEF rtw_xmit
  <2> QED
    BY <1>0, <1>1, <2>1, Bystander
<1>3. CASE Parks(s)
  <2>1. PICK x \in Unused : x = CHOOSE y \in Unused : TRUE
    BY DEF rtw_xmit
  <2>2. PICK f : f = <<x, a>>
    OBVIOUS
  <2>3. f \in Frames /\ ac(f) = a
    <3>1. f \in Frames
      BY <2>2, Fresh DEF AllTypes
    <3> QED
      BY <2>2, <3>1 DEF ac
  <2>4. /\ sleep_q' = [sleep_q EXCEPT ![s] = Append(@, f)]
        /\ sleepq_len' = [sleepq_len EXCEPT ![s] = (@ + 1) % LenMod]
        /\ tim_bitmap' = tim_bitmap \cup {y \in {s} : Announced(s, a)}
    BY <1>3, <2>1, <2>2 DEF rtw_xmit
  <2>5. ASSUME NEW t \in Stas, t # s PROVE StaInv(t)'
    <3>1. sleep_q'[t] = sleep_q[t] /\ sleepq_len'[t] = sleepq_len[t]
      BY <2>4, <2>5, StaFunctions
    <3> QED
      BY <1>0, <1>1, <2>4, <3>1, Bystander
  <2>6. PICK q \in Seq(Frames) : q = sleep_q[s] /\ Len(q) \in 0..NFrame /\ sleepq_len[s] = Len(q)
    BY <1>0, StaFacts
  <2>7. sleep_q'[s] = Append(q, f) /\ sleepq_len'[s] = (Len(q) + 1) % LenMod
    BY <2>4, <2>6, StaFunctions
  <2>8. (Len(q) + 1) % LenMod = Len(q) + 1
    <3>1. Len(q) + 1 \in Int /\ 0 <= Len(q) + 1 /\ Len(q) + 1 < LenMod
      BY <2>6, Bounds
    <3> QED
      BY <3>1, Exact
  <2>9. Len(Append(q, f)) = Len(q) + 1 /\ Range(Append(q, f)) = Range(q) \cup {f}
    BY <2>3, HistoryAppend
  <2>10. s \in sleep /\ s \in sta_dz_bitmap
    BY <1>3 DEF Parks
  <2>11. link'[s] \in {"none", "auth"} => Empty(s)'
    <3>1. link[s] \notin {"none", "auth"}
      BY DEF rtw_xmit, Asoc
    <3> QED
      BY <1>1, <3>1
  <2>12. Asoc(s)' /\ Waits(s)' => s \in tim_bitmap'
    <3>1. Waits(s)' => Waits(s) \/ Announced(s, a)
      <4>1. Waits(s)' <=> \/ \E g \in Range(Append(q, f)) : Announced(s, ac(g))
                          \/ has_legacy_ac(s) /\ mgmt_sleep_q[s] > 0
        BY <1>1, <2>7 DEF Waits, Announced, has_legacy_ac
      <4>2. Waits(s) <=> \/ \E g \in Range(q) : Announced(s, ac(g))
                         \/ has_legacy_ac(s) /\ mgmt_sleep_q[s] > 0
        BY <2>6 DEF Waits
      <4> QED
        BY <2>3, <2>9, <4>1, <4>2
    <3>2. Asoc(s)' <=> Asoc(s)
      BY <1>1 DEF Asoc
    <3> QED
      BY <1>0, <2>4, <3>1, <3>2 DEF StaInv
  <2>13. StaInv(s)'
    BY <1>0, <1>1, <2>7, <2>8, <2>9, <2>10, <2>11, <2>12 DEF StaInv
  <2> QED
    BY <2>5, <2>13
<1> QED
  BY <1>2, <1>3

(* rtw_hal_mgnt_xmit.                                                      *)
LEMMA MgntXmitSta ==
  ASSUME AllTypes, OneCpuInv, NEW s \in Stas, rtw_hal_mgnt_xmit(s)
  PROVE  \A t \in Stas : StaInv(t)'
<1>0. StaInv(s) /\ \A t \in Stas : StaInv(t)
  BY DEF OneCpuInv
<1>1. /\ sleep_q' = sleep_q /\ sleepq_len' = sleepq_len /\ link' = link
      /\ delivery' = delivery /\ sleep' = sleep /\ sta_dz_bitmap' = sta_dz_bitmap
      /\ tim_bitmap' = tim_bitmap \cup {s}
      /\ mgmt_sleep_q' = [mgmt_sleep_q EXCEPT ![s] = @ + 1]
      /\ mgmt_sleepq_len' = [mgmt_sleepq_len EXCEPT ![s] = (@ + 1) % LenMod]
  BY DEF rtw_hal_mgnt_xmit, staVars, dataVars
<1>2. ASSUME NEW t \in Stas, t # s PROVE StaInv(t)'
  <2>1. mgmt_sleep_q'[t] = mgmt_sleep_q[t] /\ mgmt_sleepq_len'[t] = mgmt_sleepq_len[t]
    BY <1>1, <1>2, StaFunctions
  <2> QED
    BY <1>0, <1>1, <2>1, Bystander
<1>3. PICK n \in 0..NExt : n = mgmt_sleep_q[s] /\ mgmt_sleepq_len[s] = n
  BY <1>0, StaFacts
<1>4. (n + 1) % LenMod = n + 1
  <2>1. n + 1 \in Int /\ 0 <= n + 1 /\ n + 1 < LenMod
    BY Bounds
  <2> QED
    BY <2>1, Exact
<1>5. mgmt_sleep_q'[s] = n + 1 /\ mgmt_sleepq_len'[s] = (n + 1) % LenMod
  BY <1>1, <1>3, StaFunctions
<1>6. s \in sleep /\ s \in sta_dz_bitmap /\ link[s] \notin {"none", "auth"}
  BY DEF rtw_hal_mgnt_xmit, Parks, Asoc
<1>7. StaInv(s)'
  BY <1>0, <1>1, <1>4, <1>5, <1>6 DEF StaInv
<1> QED
  BY <1>2, <1>7

(* stop_sta_xmit of a station that was awake.                              *)
LEMMA StopSta ==
  ASSUME AllTypes, OneCpuInv, NEW s \in Stas, stop_sta_xmit(s), s \notin sleep, Asoc(s),
         link' = link
  PROVE  \A t \in Stas : StaInv(t)'
<1>0. StaInv(s) /\ \A t \in Stas : StaInv(t)
  BY DEF OneCpuInv
<1>1. Empty(s)
  BY <1>0 DEF StaInv
<1>2. PICK p \in Seq(Frames) : p = sta_pending[s] /\ Len(p) \in 0..NFrame
  BY <1>0, StaFacts
<1>3. PICK n \in 0..NExt : n = mgmt_pending[s]
  BY <1>0, StaFacts
<1>4. PICK lit \in BOOLEAN : lit <=> (n > 0 \/ \E f \in Range(p) : Announced(s, ac(f)))
  OBVIOUS
<1>5. PICK w : w = Retaken(s)
  OBVIOUS
<1>6. /\ sleep' = sleep \cup {s} /\ sta_dz_bitmap \cup {s} \subseteq sta_dz_bitmap'
      /\ delivery' = delivery
      /\ mgmt_sleep_q' = [mgmt_sleep_q EXCEPT ![s] = @ + n]
      /\ mgmt_sleepq_len' = [mgmt_sleepq_len EXCEPT ![s] = (@ + n) % LenMod]
      /\ sleep_q' = [sleep_q EXCEPT ![s] = w]
  BY <1>3, <1>5 DEF stop_sta_xmit
<1>7. sleepq_len' = [sleepq_len EXCEPT ![s] = (@ + Cardinality(Range(p))) % LenMod]
  BY <1>2 DEF stop_sta_xmit, Range
<1>8. tim_bitmap \subseteq tim_bitmap' /\ (lit => s \in tim_bitmap')
  <2>1. lit <=> (mgmt_pending[s] > 0 \/ \E f \in {sta_pending[s][i] : i \in DOMAIN sta_pending[s]} :
                                           Announced(s, ac(f)))
    BY <1>2, <1>3, <1>4 DEF Range
  <2>2. tim_bitmap' = tim_bitmap \cup {x \in {s} : lit} \cup {x \in {Bmc} : bmc_pending > 0}
    BY <2>1 DEF stop_sta_xmit
  <2> QED
    BY <2>2
<1>9. ASSUME NEW t \in Stas, t # s PROVE StaInv(t)'
  <2>1. /\ sleep_q'[t] = sleep_q[t] /\ sleepq_len'[t] = sleepq_len[t]
        /\ mgmt_sleep_q'[t] = mgmt_sleep_q[t] /\ mgmt_sleepq_len'[t] = mgmt_sleepq_len[t]
    BY <1>6, <1>7, <1>9, StaFunctions
  <2>2. t \in sleep' <=> t \in sleep
    BY <1>6, <1>9
  <2> QED
    BY <1>0, <1>6, <1>8, <2>1, <2>2, Bystander
<1>10. IsInjective(p) /\ Cardinality(Range(p)) = Len(p)
  BY <1>2, Parts, RangeSize DEF AllTypes
<1>11. w \in Seq(Frames) /\ Range(w) = Range(p) /\ Len(w) = Len(p)
  <2>1. PICK v : v = Filter(p, Of("vo"))
    OBVIOUS
  <2>2. PICK b : b = Filter(p, Of("be"))
    OBVIOUS
  <2>3. /\ v \in Seq(Frames) /\ b \in Seq(Frames)
        /\ Range(v) \cup Range(b) = Range(p) /\ Len(v) + Len(b) = Len(p)
    BY <2>1, <2>2, Categories, Cut
  <2>4. w = (<<>> \o v) \o b
    BY <1>1, <1>2, <1>5, <2>1, <2>2 DEF Retaken, FramesOf, Of, Empty
  <2>5. <<>> \o v = v
    BY <2>3, ConcatEmptySeq
  <2>6. w = v \o b
    BY <2>4, <2>5
  <2>7. Range(v \o b) = Range(v) \cup Range(b)
    BY <2>3, RangeConcatenation
  <2>8. v \o b \in Seq(Frames) /\ Len(v \o b) = Len(v) + Len(b)
    BY <2>3
  <2> QED
    BY <2>3, <2>6, <2>7, <2>8
<1>12. sleep_q'[s] = w /\ sleepq_len'[s] = Len(w)
  <2>1. sleepq_len[s] = 0
    BY <1>0, <1>1 DEF StaInv, Empty
  <2>2. sleepq_len'[s] = (0 + Len(p)) % LenMod
    BY <1>7, <1>10, <2>1, StaFunctions
  <2>3. (0 + Len(p)) % LenMod = Len(p)
    <3>1. Len(p) \in Int /\ 0 + Len(p) = Len(p) /\ 0 <= Len(p) /\ Len(p) < LenMod
      BY <1>2, Bounds
    <3> QED
      BY <3>1, Exact
  <2> QED
    BY <1>6, <1>11, <2>2, <2>3, StaFunctions
<1>13. mgmt_sleep_q'[s] = n /\ mgmt_sleepq_len'[s] = n
  <2>1. mgmt_sleep_q[s] = 0 /\ mgmt_sleepq_len[s] = 0
    BY <1>0, <1>1 DEF StaInv, Empty
  <2>2. mgmt_sleep_q'[s] = 0 + n /\ mgmt_sleepq_len'[s] = (0 + n) % LenMod
    BY <1>6, <2>1, StaFunctions
  <2>3. 0 + n = n /\ n \in Int /\ 0 <= n /\ n < LenMod
    BY Bounds
  <2> QED
    BY <2>2, <2>3, Exact
<1>14. Waits(s)' => s \in tim_bitmap'
  <2>1. Waits(s)' <=> \/ \E f \in Range(w) : Announced(s, ac(f))
                      \/ has_legacy_ac(s) /\ n > 0
    BY <1>6, <1>12, <1>13 DEF Waits, Announced, has_legacy_ac
  <2> QED
    BY <1>4, <1>8, <1>11, <2>1
<1>15. link'[s] \notin {"none", "auth"} /\ s \in sleep' /\ s \in sta_dz_bitmap'
  BY <1>6 DEF Asoc
<1>16. StaInv(s)'
  BY <1>12, <1>13, <1>14, <1>15 DEF StaInv
<1> QED
  BY <1>9, <1>16

(* A station for which nothing is parked.                                  *)
LEMMA Emptied ==
  ASSUME NEW t, sleep_q'[t] = <<>>, mgmt_sleep_q'[t] = 0, sleepq_len'[t] = 0,
         mgmt_sleepq_len'[t] = 0, t \in sleep' => t \in sta_dz_bitmap'
  PROVE  StaInv(t)'
<1>1. Empty(t)'
  BY DEF Empty
<1>2. ~Waits(t)'
  <2>1. Range(<<>>) = {}
    BY DEF Range
  <2>2. \A f \in Range(sleep_q'[t]) : FALSE
    BY <2>1
  <2> QED
    BY <2>2 DEF Waits
<1>3. sleepq_len'[t] = Len(sleep_q'[t])
  OBVIOUS
<1> QED
  BY <1>1, <1>2, <1>3 DEF StaInv

(* wakeup_sta_to_xmit: the lengths go down to those of the lists.          *)
LEMMA WakeLengths ==
  ASSUME AllTypes, NEW s \in Stas, StaInv(s)
  PROVE  /\ Left(sleepq_len[s], Len(sleep_q[s])) = 0
         /\ Left(sleepq_len[s], 0) = Len(sleep_q[s])
         /\ (mgmt_sleepq_len[s] - mgmt_sleep_q[s]) % LenMod = 0
<1>1. PICK l \in 0..NFrame : l = Len(sleep_q[s]) /\ sleepq_len[s] = l
  BY StaFacts
<1>2. PICK m \in 0..NExt : m = mgmt_sleep_q[s] /\ mgmt_sleepq_len[s] = m
  BY StaFacts
<1>3. l \in Int /\ 0 <= l /\ l < LenMod /\ 0 \in Int /\ 0 < LenMod
  BY Bounds
<1>4. l - l = 0 /\ m - m = 0 /\ l - 0 = l
  OBVIOUS
<1>5. l % LenMod = l /\ 0 % LenMod = 0
  BY <1>3, Exact
<1> QED
  BY <1>1, <1>2, <1>4, <1>5 DEF Left

(* wakeup_sta_to_xmit of all frames.                                       *)
LEMMA WakeSta ==
  ASSUME AllTypes, OneCpuInv, NEW s \in Stas, wakeup_sta_to_xmit(s, "all"), link' = link
  PROVE  \A t \in Stas : StaInv(t)'
<1>0. StaInv(s) /\ \A t \in Stas : StaInv(t)
  BY DEF OneCpuInv
<1>1. /\ Left(sleepq_len[s], Len(sleep_q[s])) = 0
      /\ (mgmt_sleepq_len[s] - mgmt_sleep_q[s]) % LenMod = 0
  BY <1>0, WakeLengths
<1>2. /\ mgmt_sleep_q' = [mgmt_sleep_q EXCEPT ![s] = 0]
      /\ mgmt_sleepq_len' = [mgmt_sleepq_len EXCEPT ![s] = 0]
      /\ sleep_q' = [sleep_q EXCEPT ![s] = <<>>]
      /\ sleepq_len' = [sleepq_len EXCEPT ![s] = 0]
      /\ delivery' = delivery
  BY <1>1 DEF wakeup_sta_to_xmit
<1>3. Drained(0, 0)
  BY DEF Drained
<1>4. PICK D : /\ D \subseteq {s, Bmc} /\ sleep' = sleep \ {s}
               /\ tim_bitmap' = tim_bitmap \ D /\ sta_dz_bitmap' = sta_dz_bitmap \ D
  <2>1. PICK D : D = {s} \cup {x \in {Bmc} : (sta_dz_bitmap \ {s}) \subseteq {Bmc}}
    OBVIOUS
  <2>2. {x \in {s} : Drained(0, 0)} = {s}
    BY <1>3
  <2>3. /\ sleep' = sleep \ {s} /\ tim_bitmap' = tim_bitmap \ D
        /\ sta_dz_bitmap' = sta_dz_bitmap \ D
    BY <1>1, <2>1, <2>2 DEF wakeup_sta_to_xmit
  <2> QED
    BY <2>1, <2>3
<1>5. ASSUME NEW t \in Stas, t # s PROVE StaInv(t)'
  <2>1. /\ sleep_q'[t] = sleep_q[t] /\ sleepq_len'[t] = sleepq_len[t]
        /\ mgmt_sleep_q'[t] = mgmt_sleep_q[t] /\ mgmt_sleepq_len'[t] = mgmt_sleepq_len[t]
    BY <1>2, <1>5, StaFunctions
  <2>2. /\ t \in sleep' <=> t \in sleep
        /\ t \in sta_dz_bitmap => t \in sta_dz_bitmap'
        /\ t \in tim_bitmap => t \in tim_bitmap'
    BY <1>4, <1>5, Bounds
  <2> QED
    BY <1>0, <1>2, <2>1, <2>2, Bystander
<1>6. StaInv(s)'
  <2>1. /\ sleep_q'[s] = <<>> /\ sleepq_len'[s] = 0
        /\ mgmt_sleep_q'[s] = 0 /\ mgmt_sleepq_len'[s] = 0
    BY <1>2, StaFunctions
  <2>2. s \notin sleep'
    BY <1>4
  <2> QED
    BY <2>1, <2>2, Emptied
<1> QED
  BY <1>5, <1>6

(* wakeup_sta_to_xmit of the management frames, by ap_free_sta.            *)
LEMMA FlushSta ==
  ASSUME AllTypes, OneCpuInv, NEW s \in Stas, ap_free_sta_flush(s)
  PROVE  \A t \in Stas : StaInv(t)'
<1>0. StaInv(s) /\ \A t \in Stas : StaInv(t)
  BY DEF OneCpuInv
<1>1. PICK l : l = Len(sleep_q[s])
  OBVIOUS
<1>2. Left(sleepq_len[s], 0) = l /\ (mgmt_sleepq_len[s] - mgmt_sleep_q[s]) % LenMod = 0
  BY <1>0, <1>1, WakeLengths
<1>3. /\ link' = [link EXCEPT ![s] = "flushed"] /\ link[s] = "asoc" /\ s \in sleep
      /\ wakeup_sta_to_xmit(s, "mgmt")
  BY DEF ap_free_sta_flush
<1>4. /\ mgmt_sleep_q' = [mgmt_sleep_q EXCEPT ![s] = 0]
      /\ mgmt_sleepq_len' = [mgmt_sleepq_len EXCEPT ![s] = 0]
      /\ sleep_q' = sleep_q /\ sleepq_len' = sleepq_len /\ delivery' = delivery
  BY <1>2, <1>3 DEF wakeup_sta_to_xmit
<1>5. PICK D : /\ D = {x \in {s} : l = 0} /\ sleep' = sleep \ D
               /\ tim_bitmap' = tim_bitmap \ D /\ sta_dz_bitmap' = sta_dz_bitmap \ D
  <2>1. PICK D : D = {x \in {s} : l = 0}
    OBVIOUS
  <2>2. {x \in {s} : Drained(l, 0)} = D
    BY <2>1 DEF Drained
  <2>3. /\ sleep' = sleep \ D /\ tim_bitmap' = tim_bitmap \ D
        /\ sta_dz_bitmap' = sta_dz_bitmap \ D
    BY <1>2, <1>3, <2>2 DEF wakeup_sta_to_xmit
  <2> QED
    BY <2>1, <2>3
<1>6. ASSUME NEW t \in Stas, t # s PROVE StaInv(t)'
  <2>1. /\ mgmt_sleep_q'[t] = mgmt_sleep_q[t] /\ mgmt_sleepq_len'[t] = mgmt_sleepq_len[t]
        /\ link'[t] = link[t]
    BY <1>3, <1>4, <1>6, StaFunctions
  <2>2. /\ t \in sleep' <=> t \in sleep
        /\ t \in sta_dz_bitmap => t \in sta_dz_bitmap'
        /\ t \in tim_bitmap => t \in tim_bitmap'
    BY <1>5, <1>6
  <2> QED
    BY <1>0, <1>4, <2>1, <2>2, Bystander
<1>7. mgmt_sleep_q'[s] = 0 /\ mgmt_sleepq_len'[s] = 0 /\ link'[s] = "flushed"
  BY <1>3, <1>4, StaFunctions
<1>8. sleep_q[s] \in Seq(Frames) /\ sleepq_len[s] = Len(sleep_q[s])
  BY <1>0, StaFacts
<1>9. CASE l = 0
  <2>1. sleep_q'[s] = <<>> /\ sleepq_len'[s] = 0
    <3>1. PICK q \in Seq(Frames) : q = sleep_q[s]
      BY <1>8
    <3>2. q = <<>>
      <4>1. Len(q) = 0
        BY <1>1, <1>9, <3>1
      <4> QED
        BY <4>1
    <3> QED
      BY <1>1, <1>4, <1>8, <1>9, <3>1, <3>2
  <2>2. s \notin sleep'
    BY <1>5, <1>9
  <2>3. StaInv(s)'
    BY <1>7, <2>1, <2>2, Emptied
  <2> QED
    BY <1>6, <2>3
<1>10. CASE l # 0
  <2>1. sleep' = sleep /\ tim_bitmap' = tim_bitmap /\ sta_dz_bitmap' = sta_dz_bitmap
    BY <1>5, <1>10
  <2>2. Waits(s)' => Waits(s)
    BY <1>4, <1>7 DEF Waits, Announced, has_legacy_ac
  <2>3. Asoc(s)
    BY <1>3 DEF Asoc
  <2>4. Waits(s)' => s \in tim_bitmap'
    BY <1>0, <2>1, <2>2, <2>3 DEF StaInv
  <2>5. s \in sleep' /\ s \in sta_dz_bitmap'
    BY <1>0, <1>3, <2>1 DEF StaInv
  <2>6. StaInv(s)'
    BY <1>4, <1>7, <1>8, <2>4, <2>5 DEF StaInv
  <2> QED
    BY <1>6, <2>6
<1> QED
  BY <1>9, <1>10

(* A trigger frame.                                                        *)
LEMMA DeliverySta ==
  ASSUME AllTypes, OneCpuInv, NEW s \in Stas, xmit_delivery_enabled_frames(s)
  PROVE  \A t \in Stas : StaInv(t)'
<1>0. StaInv(s) /\ \A t \in Stas : StaInv(t)
  BY DEF OneCpuInv
<1>1. PICK q \in Seq(Frames) : q = sleep_q[s] /\ Len(q) \in 0..NFrame /\ sleepq_len[s] = Len(q)
  BY <1>0, StaFacts
<1>2. PICK v : v = Filter(q, With(s))
  OBVIOUS
<1>3. PICK b : b = Filter(q, Without(s))
  OBVIOUS
<1>4. /\ v \in Seq(Frames) /\ b \in Seq(Frames) /\ Range(b) \subseteq Range(q)
      /\ Range(b) \subseteq Without(s) /\ Len(v) + Len(b) = Len(q)
  BY <1>2, <1>3, Categories, Cut
<1>5. Enabled(sleep_q[s], s) = v /\ Rest(sleep_q[s], s) = b
  BY <1>1, <1>2, <1>3 DEF Enabled, Rest, With, Without
<1>6. /\ sleep_q' = [sleep_q EXCEPT ![s] = b]
      /\ sleepq_len' = [sleepq_len EXCEPT ![s] = (@ - Len(v)) % LenMod]
      /\ mgmt_sleep_q' = mgmt_sleep_q /\ mgmt_sleepq_len' = mgmt_sleepq_len
      /\ link' = link /\ delivery' = delivery /\ sleep' = sleep
      /\ sta_dz_bitmap' = sta_dz_bitmap /\ Asoc(s) /\ s \in sleep
  BY <1>5 DEF xmit_delivery_enabled_frames, staVars, mgmtVars
<1>7. /\ tim_bitmap' = tim_bitmap \/ (tim_bitmap' = tim_bitmap \ {s} /\ ~has_legacy_ac(s))
      /\ tim_bitmap \ {s} \subseteq tim_bitmap'
  BY DEF xmit_delivery_enabled_frames
<1>8. ASSUME NEW t \in Stas, t # s PROVE StaInv(t)'
  <2>1. sleep_q'[t] = sleep_q[t] /\ sleepq_len'[t] = sleepq_len[t]
    BY <1>6, <1>8, StaFunctions
  <2>2. t \in tim_bitmap => t \in tim_bitmap'
    BY <1>7, <1>8
  <2> QED
    BY <1>0, <1>6, <2>1, <2>2, Bystander
<1>9. sleep_q'[s] = b /\ sleepq_len'[s] = Len(b)
  <2>1. sleep_q'[s] = b /\ sleepq_len'[s] = (Len(q) - Len(v)) % LenMod
    BY <1>1, <1>6, StaFunctions
  <2>2. Len(q) - Len(v) = Len(b) /\ Len(b) \in Int /\ 0 <= Len(b) /\ Len(b) < LenMod
    BY <1>1, <1>4, Bounds
  <2>3. Len(b) % LenMod = Len(b)
    BY <2>2, Exact
  <2> QED
    BY <2>1, <2>2, <2>3
<1>10. Waits(s)' => s \in tim_bitmap'
  <2>1. Waits(s)' <=> \/ \E f \in Range(b) : Announced(s, ac(f))
                      \/ has_legacy_ac(s) /\ mgmt_sleep_q[s] > 0
    BY <1>6, <1>9 DEF Waits, Announced, has_legacy_ac
  <2>2. CASE has_legacy_ac(s)
    <3>1. Waits(s)' => Waits(s)
      BY <1>1, <1>4, <2>1 DEF Waits
    <3>2. tim_bitmap' = tim_bitmap
      BY <1>7, <2>2
    <3> QED
      BY <1>0, <1>6, <3>1, <3>2 DEF StaInv
  <2>3. CASE ~has_legacy_ac(s)
    <3>1. \A f \in Frames : ac(f) \in ACs
      BY DEF Frames, ac
    <3>2. Without(s) = {}
      BY <2>3, <3>1 DEF Without, has_legacy_ac
    <3> QED
      BY <1>4, <2>1, <2>3, <3>2
  <2> QED
    BY <2>2, <2>3
<1>11. link'[s] \notin {"none", "auth"} /\ s \in sleep' /\ s \in sta_dz_bitmap'
  BY <1>0, <1>6 DEF Asoc, StaInv
<1>12. mgmt_sleepq_len'[s] = mgmt_sleep_q'[s]
  BY <1>0, <1>6 DEF StaInv
<1>13. StaInv(s)'
  BY <1>9, <1>10, <1>11, <1>12 DEF StaInv
<1> QED
  BY <1>8, <1>13

(* A PS-Poll, under the lock.                                              *)
LEMMA PsPollSta ==
  ASSUME AllTypes, OneCpuInv, NEW s \in Stas, PsPoll(s)
  PROVE  OneCpuInv'
<1>0. StaInv(s) /\ \A t \in Stas : StaInv(t)
  BY DEF OneCpuInv
<1>1. PICK q \in Seq(Frames) : q = sleep_q[s] /\ Len(q) \in 0..NFrame /\ sleepq_len[s] = Len(q)
  BY <1>0, StaFacts
<1>2. PICK n \in 0..NExt : n = mgmt_sleep_q[s] /\ mgmt_sleepq_len[s] = n
  BY <1>0, StaFacts
<1>3. PICK d \in {0, 1} : d = IF q # <<>> THEN 1 ELSE 0
  OBVIOUS
<1>4. PICK m \in {0, 1} : m = IF n > 0 THEN 1 ELSE 0
  OBVIOUS
<1>5. PICK r : r = SubSeq(q, d + 1, Len(q))
  OBVIOUS
<1>6. /\ mgmt_sleep_q' = [mgmt_sleep_q EXCEPT ![s] = @ - m]
      /\ mgmt_sleepq_len' = [mgmt_sleepq_len EXCEPT ![s] = (@ - m) % LenMod]
      /\ sleep_q' = [sleep_q EXCEPT ![s] = SubSeq(@, d + 1, Len(@))]
      /\ sleepq_len' = [sleepq_len EXCEPT ![s] = (@ - d) % LenMod]
  BY <1>1, <1>2, <1>3, <1>4 DEF PsPoll
<1>7. /\ link' = link /\ delivery' = delivery /\ sleep' = sleep
      /\ sta_dz_bitmap' = sta_dz_bitmap /\ tim_bitmap' = tim_bitmap
      /\ Asoc(s) /\ s \in sleep /\ s \in sta_dz_bitmap
  BY DEF PsPoll, timVars, Parks
<1>8. ASSUME NEW t \in Stas, t # s PROVE StaInv(t)'
  <2>1. /\ sleep_q'[t] = sleep_q[t] /\ sleepq_len'[t] = sleepq_len[t]
        /\ mgmt_sleep_q'[t] = mgmt_sleep_q[t] /\ mgmt_sleepq_len'[t] = mgmt_sleepq_len[t]
    BY <1>6, <1>8, StaFunctions
  <2> QED
    BY <1>0, <1>7, <2>1, Bystander
<1>9. d \in 0..Len(q) /\ Len(q) \in Nat /\ n - m \in 0..n
  BY <1>1, <1>3, <1>4
<1>10. /\ r \in Seq(Frames) /\ Len(r) = Len(q) - d
       /\ \A i \in 1..Len(r) : r[i] = q[i + d] /\ i + d \in 1..Len(q)
  BY <1>5, <1>9
<1>11. Range(r) \subseteq Range(q)
  <2>1. DOMAIN r = 1..Len(r) /\ DOMAIN q = 1..Len(q)
    BY <1>10
  <2> QED
    BY <1>10, <2>1, Zenon DEF Range
<1>12. sleep_q'[s] = r /\ sleepq_len'[s] = Len(r)
  <2>1. sleep_q'[s] = r /\ sleepq_len'[s] = (Len(q) - d) % LenMod
    BY <1>1, <1>5, <1>6, StaFunctions
  <2>2. Len(r) \in Int /\ 0 <= Len(r) /\ Len(r) < LenMod
    BY <1>1, <1>9, <1>10, Bounds
  <2>3. Len(r) % LenMod = Len(r)
    BY <2>2, Exact
  <2> QED
    BY <1>10, <2>1, <2>3
<1>13. mgmt_sleep_q'[s] = n - m /\ mgmt_sleepq_len'[s] = n - m
  <2>1. mgmt_sleep_q'[s] = n - m /\ mgmt_sleepq_len'[s] = (n - m) % LenMod
    BY <1>2, <1>6, StaFunctions
  <2>2. n - m \in Int /\ 0 <= n - m /\ n - m < LenMod
    BY <1>9, Bounds
  <2>3. (n - m) % LenMod = n - m
    BY <2>2, Exact
  <2> QED
    BY <2>1, <2>3
<1>14. Waits(s)' => s \in tim_bitmap'
  <2>1. Waits(s)' <=> \/ \E f \in Range(r) : Announced(s, ac(f))
                      \/ has_legacy_ac(s) /\ n - m > 0
    BY <1>7, <1>12, <1>13 DEF Waits, Announced, has_legacy_ac
  <2>2. n - m > 0 => n > 0
    BY <1>9
  <2>3. Waits(s)' => Waits(s)
    BY <1>1, <1>2, <1>11, <2>1, <2>2 DEF Waits
  <2> QED
    BY <1>0, <1>7, <2>3 DEF StaInv
<1>15. StaInv(s)'
  <2>1. link'[s] \notin {"none", "auth"}
    BY <1>7 DEF Asoc
  <2> QED
    BY <1>7, <1>12, <1>13, <1>14, <2>1 DEF StaInv
<1>16. RxInv'
  <2>1. rx' = [sta |-> s, null |-> m = 0 /\ d = 0]
    BY <1>1, <1>2, <1>3, <1>4 DEF PsPoll
  <2>2. ASSUME m = 0, d = 0 PROVE sleep_q'[s] = <<>> /\ mgmt_sleep_q'[s] = 0
    <3>1. q = <<>> /\ n = 0
      BY <1>3, <1>4, <2>2
    <3>2. Len(r) = 0 /\ n - m = 0
      BY <1>1, <1>10, <2>2, <3>1
    <3>3. r = <<>>
      BY <1>10, <3>2
    <3> QED
      BY <1>12, <1>13, <3>2, <3>3
  <2>3. rx'.sta = s /\ (rx'.null <=> m = 0 /\ d = 0)
    BY <2>1
  <2> QED
    BY <2>2, <2>3, Zenon DEF RxInv, Empty
<1>17. \A t \in Stas : StaInv(t)'
  BY <1>8, <1>15
<1> QED
  BY <1>16, <1>17 DEF OneCpuInv

(* A PS-Poll, after the unlock.                                            *)
LEMMA PsPollEndSta ==
  ASSUME AllTypes, OneCpuInv, PsPollEnd
  PROVE  OneCpuInv'
<1>0. \A t \in Stas : StaInv(t)
  BY DEF OneCpuInv
<1>1. PICK s \in Stas : s = rx.sta
  BY DEF AllTypes, RestTypes, PsPollEnd
<1>2. PICK error \in BOOLEAN : error <=> (rx.null /\ s \in tim_bitmap)
  OBVIOUS
<1>3. PICK empty \in BOOLEAN : empty <=> (error \/ (sleepq_len[s] = 0 /\ mgmt_sleepq_len[s] = 0))
  OBVIOUS
<1>4. error => Empty(s)
  BY <1>1, <1>2 DEF OneCpuInv, RxInv, PsPollEnd
<1>5. StaInv(s) /\ sleep_q[s] \in Seq(Frames)
  BY <1>0, StaFacts
<1>6. Empty(s) => sleepq_len[s] = 0 /\ mgmt_sleepq_len[s] = 0
  BY <1>5 DEF Empty, StaInv
<1>7. sleepq_len' = sleepq_len /\ mgmt_sleepq_len' = mgmt_sleepq_len
  <2>1. CASE ~error
    BY <1>1, <1>2, <2>1 DEF PsPollEnd
  <2>2. CASE error
    <3>1. /\ sleepq_len' = [sleepq_len EXCEPT ![s] = 0]
          /\ mgmt_sleepq_len' = [mgmt_sleepq_len EXCEPT ![s] = 0]
      BY <1>1, <1>2, <2>2 DEF PsPollEnd
    <3>2. sleepq_len[s] = 0 /\ mgmt_sleepq_len[s] = 0
      BY <1>4, <1>6, <2>2
    <3> QED
      BY <3>1, <3>2, StaFunctions
  <2> QED
    BY <2>1, <2>2
<1>8. tim_bitmap' = tim_bitmap \ {x \in {s} : empty}
  <2>1. empty <=> ((rx.null /\ s \in tim_bitmap) \/ (sleepq_len[s] = 0 /\ mgmt_sleepq_len[s] = 0))
    BY <1>2, <1>3
  <2> QED
    BY <1>1, <2>1, Zenon DEF PsPollEnd
<1>9. /\ sleep_q' = sleep_q /\ mgmt_sleep_q' = mgmt_sleep_q /\ link' = link
      /\ delivery' = delivery /\ sleep' = sleep /\ sta_dz_bitmap' = sta_dz_bitmap
  BY DEF PsPollEnd, staVars
<1>10. ASSUME NEW t \in Stas, t # s \/ ~empty PROVE StaInv(t)'
  <2>1. t \in tim_bitmap => t \in tim_bitmap'
    BY <1>8, <1>10
  <2> QED
    BY <1>0, <1>7, <1>9, <2>1, Bystander
<1>11. ASSUME empty PROVE StaInv(s)'
  <2>1. sleepq_len[s] = 0 /\ mgmt_sleepq_len[s] = 0
    BY <1>3, <1>4, <1>6, <1>11
  <2>2. sleep_q[s] = <<>> /\ mgmt_sleep_q[s] = 0
    <3>1. PICK q \in Seq(Frames) : q = sleep_q[s]
      BY <1>5
    <3>2. Len(q) = 0 /\ mgmt_sleep_q[s] = 0
      BY <1>5, <2>1, <3>1 DEF StaInv
    <3>3. q = <<>>
      BY <3>2
    <3> QED
      BY <3>1, <3>2, <3>3
  <2>3. s \in sleep' => s \in sta_dz_bitmap'
    BY <1>5, <1>9 DEF StaInv
  <2> QED
    BY <1>7, <1>9, <2>1, <2>2, <2>3, Emptied
<1>12. \A t \in Stas : StaInv(t)'
  BY <1>10, <1>11
<1>13. RxInv'
  BY DEF PsPollEnd, RxInv
<1> QED
  BY <1>12, <1>13 DEF OneCpuInv

(* A station comes: nothing is parked for it yet.                          *)
LEMMA ComesSta ==
  ASSUME AllTypes, OneCpuInv, NEW s \in Stas, rtw_alloc_stainfo(s) \/ OnAssocReq(s)
  PROVE  \A t \in Stas : StaInv(t)'
<1>0. StaInv(s) /\ \A t \in Stas : StaInv(t)
  BY DEF OneCpuInv
<1>1. /\ sleep_q' = sleep_q /\ sleepq_len' = sleepq_len /\ mgmt_sleep_q' = mgmt_sleep_q
      /\ mgmt_sleepq_len' = mgmt_sleepq_len /\ sleep' = sleep
      /\ sta_dz_bitmap' = sta_dz_bitmap /\ tim_bitmap' = tim_bitmap
  BY DEF rtw_alloc_stainfo, OnAssocReq, timVars, dataVars, mgmtVars
<1>2. \A t \in Stas : t # s => link'[t] = link[t] /\ delivery'[t] = delivery[t]
  BY StaFunctions DEF rtw_alloc_stainfo, OnAssocReq
<1>3. ASSUME NEW t \in Stas, t # s PROVE StaInv(t)'
  BY <1>0, <1>1, <1>2, <1>3, Bystander
<1>4. StaInv(s)'
  <2>1. Empty(s)
    BY <1>0 DEF rtw_alloc_stainfo, OnAssocReq, StaInv
  <2>2. /\ sleep_q[s] = <<>> /\ mgmt_sleep_q[s] = 0 /\ sleepq_len[s] = 0
        /\ mgmt_sleepq_len[s] = 0 /\ (s \in sleep => s \in sta_dz_bitmap)
    BY <1>0, <2>1 DEF Empty, StaInv
  <2> QED
    BY <1>1, <2>2, Emptied
<1> QED
  BY <1>3, <1>4

(* ap_free_sta: the station is not associated any more.                    *)
LEMMA LeavesSta ==
  ASSUME AllTypes, OneCpuInv, NEW s \in Stas, ap_free_sta(s)
  PROVE  \A t \in Stas : StaInv(t)'
<1>0. StaInv(s) /\ \A t \in Stas : StaInv(t)
  BY DEF OneCpuInv
<1>1. /\ sleep_q' = sleep_q /\ sleepq_len' = sleepq_len /\ mgmt_sleep_q' = mgmt_sleep_q
      /\ mgmt_sleepq_len' = mgmt_sleepq_len /\ sleep' = sleep /\ delivery' = delivery
      /\ sta_dz_bitmap' = sta_dz_bitmap /\ tim_bitmap' = tim_bitmap \ {s}
      /\ link' = [link EXCEPT ![s] = "leaving"]
  BY DEF ap_free_sta, dataVars, mgmtVars
<1>2. ASSUME NEW t \in Stas, t # s PROVE StaInv(t)'
  <2>1. link'[t] = link[t]
    BY <1>1, <1>2, StaFunctions
  <2>2. t \in tim_bitmap => t \in tim_bitmap'
    BY <1>1, <1>2
  <2> QED
    BY <1>0, <1>1, <2>1, <2>2, Bystander
<1>3. StaInv(s)'
  <2>1. link'[s] = "leaving"
    BY <1>1, StaFunctions
  <2> QED
    BY <1>0, <1>1, <2>1 DEF StaInv, Asoc
<1> QED
  BY <1>2, <1>3

(* rtw_free_stainfo.                                                       *)
LEMMA FreeSta ==
  ASSUME AllTypes, OneCpuInv, NEW s \in Stas, rtw_free_stainfo(s)
  PROVE  \A t \in Stas : StaInv(t)'
<1>0. \A t \in Stas : StaInv(t)
  BY DEF OneCpuInv
<1>1. /\ sleep_q' = [sleep_q EXCEPT ![s] = <<>>] /\ sleepq_len' = [sleepq_len EXCEPT ![s] = 0]
      /\ mgmt_sleep_q' = [mgmt_sleep_q EXCEPT ![s] = 0]
      /\ mgmt_sleepq_len' = [mgmt_sleepq_len EXCEPT ![s] = 0]
      /\ link' = [link EXCEPT ![s] = "none"] /\ delivery' = [delivery EXCEPT ![s] = {}]
      /\ sleep' = sleep \ {s}
  BY DEF rtw_free_stainfo
<1>2. \A t \in Stas : t # s => /\ t \in tim_bitmap => t \in tim_bitmap'
                               /\ t \in sta_dz_bitmap => t \in sta_dz_bitmap'
  BY Bounds DEF rtw_free_stainfo, ClearedBit
<1>3. ASSUME NEW t \in Stas, t # s PROVE StaInv(t)'
  <2>1. /\ sleep_q'[t] = sleep_q[t] /\ sleepq_len'[t] = sleepq_len[t]
        /\ mgmt_sleep_q'[t] = mgmt_sleep_q[t] /\ mgmt_sleepq_len'[t] = mgmt_sleepq_len[t]
        /\ link'[t] = link[t] /\ delivery'[t] = delivery[t]
    BY <1>1, <1>3, StaFunctions
  <2>2. t \in sleep' <=> t \in sleep
    BY <1>1, <1>3
  <2> QED
    BY <1>0, <1>2, <1>3, <2>1, <2>2, Bystander
<1>4. StaInv(s)'
  <2>1. /\ sleep_q'[s] = <<>> /\ sleepq_len'[s] = 0
        /\ mgmt_sleep_q'[s] = 0 /\ mgmt_sleepq_len'[s] = 0
    BY <1>1, StaFunctions
  <2>2. s \notin sleep'
    BY <1>1
  <2> QED
    BY <2>1, <2>2, Emptied
<1> QED
  BY <1>3, <1>4

(* The steps that touch no station's queues or states and clear no bit of  *)
(* a station.                                                              *)
LEMMA OtherSta ==
  ASSUME OneCpuInv,
         \/ rtw_xmit_bmc \/ rtl8188fu_xmitframe_complete \/ HiqDrains \/ CmdThread
         \/ (\E s \in Stas : alive_check(s)) \/ UNCHANGED vars
  PROVE  \A t \in Stas : StaInv(t)'
<1>1. /\ sleep_q' = sleep_q /\ sleepq_len' = sleepq_len /\ mgmt_sleep_q' = mgmt_sleep_q
      /\ mgmt_sleepq_len' = mgmt_sleepq_len /\ sleep' = sleep /\ delivery' = delivery
      /\ link' = link
  BY DEF rtw_xmit_bmc, rtl8188fu_xmitframe_complete, HiqDrains, CmdThread, alive_check, vars,
     chk_bmc_sleepq_hdl, chk_bmc_sleepq_release, rtw_chk_hi_queue_hdl, rtw_chk_hi_queue_clear,
     staVars, dataVars, mgmtVars
<1>2. /\ tim_bitmap \ {Bmc} \subseteq tim_bitmap'
      /\ sta_dz_bitmap \ {Bmc} \subseteq sta_dz_bitmap'
  BY DEF rtw_xmit_bmc, rtl8188fu_xmitframe_complete, HiqDrains, CmdThread, alive_check, vars,
     chk_bmc_sleepq_hdl, chk_bmc_sleepq_release, rtw_chk_hi_queue_hdl, rtw_chk_hi_queue_clear,
     timVars
<1>3. ASSUME NEW t \in Stas PROVE StaInv(t)'
  <2>1. /\ t \in tim_bitmap => t \in tim_bitmap'
        /\ t \in sta_dz_bitmap => t \in sta_dz_bitmap'
    BY <1>2, Bounds
  <2>2. StaInv(t)
    BY DEF OneCpuInv
  <2> QED
    BY <1>1, <2>1, <2>2, Bystander
<1> QED
  BY <1>3

(* Without another CPU a step begins with the PS-Poll handler done, unless *)
(* it is the handler's own or the chip's.                                  *)
LEMMA OneCpuRx ==
  ASSUME SMP = FALSE, RxInv, [Next]_vars
  PROVE  RxInv' \/ PsPollEnd \/ \E s \in Stas : PsPoll(s)
<1>1. CASE rx = NoRx /\ rx' = rx
  BY <1>1 DEF RxInv
<1>2. CASE HiqDrains \/ UNCHANGED vars
  <2>1. rx' = rx /\ sleep_q' = sleep_q /\ mgmt_sleep_q' = mgmt_sleep_q
    BY <1>2 DEF HiqDrains, vars, dataVars, mgmtVars
  <2> QED
    BY <2>1 DEF RxInv, Empty
<1>3. CASE (\E s \in Stas, a \in ACs : rtw_xmit(s, a)) \/ rtw_xmit_bmc
  BY <1>1, <1>3 DEF rtw_xmit, rtw_xmit_bmc, Input, Runs
<1>4. CASE rtl8188fu_xmitframe_complete \/ CmdThread
  BY <1>1, <1>4 DEF rtl8188fu_xmitframe_complete, Runs, CmdThread, chk_bmc_sleepq_hdl,
     chk_bmc_sleepq_release, rtw_chk_hi_queue_hdl, rtw_chk_hi_queue_clear
<1>5. CASE \E s \in Stas : Station(s) /\ ~PsPoll(s)
  <2>1. PICK s \in Stas : Station(s) /\ ~PsPoll(s)
    BY <1>5
  <2>2. rx = NoRx
    BY <2>1 DEF Station, process_pwrbit_data, xmit_delivery_enabled_frames, alive_check,
       flush_sleep_q, rtw_hal_mgnt_xmit, rtw_alloc_stainfo, OnAssocReq, ap_free_sta_flush,
       ap_free_sta, rtw_free_stainfo, Input, Runs
  <2>3. rx' = rx
    BY <2>1 DEF Station, process_pwrbit_data, xmit_delivery_enabled_frames, alive_check,
       flush_sleep_q, rtw_hal_mgnt_xmit, rtw_alloc_stainfo, OnAssocReq, ap_free_sta_flush,
       ap_free_sta, rtw_free_stainfo
  <2> QED
    BY <1>1, <2>2, <2>3
<1> QED
  BY <1>2, <1>3, <1>4, <1>5 DEF Next

LEMMA StationOneCpu ==
  ASSUME AllTypes, OneCpuInv, OrdInv, NEW s \in Stas, Station(s), ~PsPoll(s)
  PROVE  (\A t \in Stas : StaInv(t)') /\ OrdInv'
<1>0. DataInv /\ StaInv(s)
  BY DEF AllTypes, OneCpuInv
<1>1. CASE process_pwrbit_data(s)
  <2>1. link' = link /\ Asoc(s)
    BY <1>1 DEF process_pwrbit_data
  <2>2. CASE s \in sleep
    <3>1. wakeup_sta_to_xmit(s, "all")
      BY <1>1, <2>2 DEF process_pwrbit_data
    <3> QED
      BY <1>0, <2>1, <3>1, WakeSta, WakeData
  <2>3. CASE s \notin sleep
    <3>1. stop_sta_xmit(s)
      BY <1>1, <2>3 DEF process_pwrbit_data
    <3>2. sleep_q[s] = <<>>
      BY <1>0, <2>1, <2>3 DEF StaInv, Empty
    <3> QED
      BY <1>0, <2>1, <2>3, <3>1, <3>2, StopSta, StopData
  <2> QED
    BY <2>2, <2>3
<1>2. CASE flush_sleep_q(s)
  <2>1. link' = link /\ wakeup_sta_to_xmit(s, "all")
    BY <1>2 DEF flush_sleep_q
  <2> QED
    BY <1>0, <2>1, WakeSta, WakeData
<1>3. CASE ap_free_sta_flush(s)
  <2>1. wakeup_sta_to_xmit(s, "mgmt")
    BY <1>3 DEF ap_free_sta_flush
  <2> QED
    BY <1>0, <1>3, <2>1, FlushSta, WakeData
<1>4. CASE xmit_delivery_enabled_frames(s)
  BY <1>0, <1>4, DeliverySta, DeliveryData
<1>5. CASE rtw_hal_mgnt_xmit(s)
  <2>1. age' = age /\ sta_pending' = sta_pending /\ sleep_q' = sleep_q
    BY <1>5 DEF rtw_hal_mgnt_xmit, dataVars
  <2> QED
    BY <1>0, <1>5, <2>1, MgntXmitSta, SameData
<1>6. CASE rtw_free_stainfo(s)
  BY <1>0, <1>6, FreeSta, FreeData
<1>7. CASE alive_check(s) \/ rtw_alloc_stainfo(s) \/ OnAssocReq(s) \/ ap_free_sta(s)
  <2>1. age' = age /\ sta_pending' = sta_pending /\ sleep_q' = sleep_q
    BY <1>7 DEF alive_check, rtw_alloc_stainfo, OnAssocReq, ap_free_sta, dataVars
  <2>2. OrdInv'
    BY <1>0, <2>1, SameData
  <2> QED
    BY <1>7, <2>2, OtherSta, ComesSta, LeavesSta
<1> QED
  BY <1>1, <1>2, <1>3, <1>4, <1>5, <1>6, <1>7 DEF Station

LEMMA NextOneCpu ==
  ASSUME SMP = FALSE, AllTypes, OneCpuInv, OrdInv, [Next]_vars
  PROVE  OneCpuInv' /\ OrdInv'
<1>0. DataInv /\ RxInv /\ \A t \in Stas : StaInv(t)
  BY DEF AllTypes, OneCpuInv
<1>1. CASE \E s \in Stas : PsPoll(s)
  BY <1>0, <1>1, PsPollSta, PsPollData
<1>2. CASE PsPollEnd
  <2>1. age' = age /\ sta_pending' = sta_pending /\ sleep_q' = sleep_q
    BY <1>2 DEF PsPollEnd
  <2> QED
    BY <1>0, <1>2, <2>1, PsPollEndSta, SameData
<1>3. CASE RxInv'
  <2>1. CASE \E s \in Stas, a \in ACs : rtw_xmit(s, a)
    <3>1. PICK s \in Stas, a \in ACs : rtw_xmit(s, a)
      BY <2>1
    <3>2. ~Parks(s) => sleep_q[s] = <<>>
      <4>1. Asoc(s) /\ StaInv(s)
        BY <1>0, <3>1 DEF rtw_xmit
      <4> QED
        BY <4>1 DEF StaInv, Empty, Parks
    <3>3. OrdInv'
      BY <1>0, <3>1, <3>2, XmitData
    <3> QED
      BY <1>3, <3>1, <3>3, XmitSta DEF OneCpuInv
  <2>2. CASE \E s \in Stas : Station(s) /\ ~PsPoll(s)
    BY <1>3, <2>2, StationOneCpu DEF OneCpuInv
  <2>3. CASE rtl8188fu_xmitframe_complete
    <3>1. OrdInv'
      BY <1>0, <2>3, CompleteData
    <3> QED
      BY <1>3, <2>3, <3>1, OtherSta DEF OneCpuInv
  <2>4. CASE rtw_xmit_bmc \/ HiqDrains \/ CmdThread \/ UNCHANGED vars
    <3>1. age' = age /\ sta_pending' = sta_pending /\ sleep_q' = sleep_q
      BY <2>4 DEF rtw_xmit_bmc, HiqDrains, CmdThread, vars, dataVars, chk_bmc_sleepq_hdl,
         chk_bmc_sleepq_release, rtw_chk_hi_queue_hdl, rtw_chk_hi_queue_clear
    <3>2. OrdInv'
      BY <1>0, <3>1, SameData
    <3> QED
      BY <1>3, <2>4, <3>2, OtherSta DEF OneCpuInv
  <2> QED
    BY <1>1, <1>2, <2>1, <2>2, <2>3, <2>4 DEF Next
<1> QED
  BY <1>0, <1>1, <1>2, <1>3, OneCpuRx

LEMMA InitOneCpu ==
  ASSUME Init
  PROVE  OneCpuInv
<1>1. ASSUME NEW s \in Stas PROVE StaInv(s)
  <2>1. sleep_q[s] = <<>> /\ mgmt_sleep_q[s] = 0 /\ sleepq_len[s] = 0 /\ mgmt_sleepq_len[s] = 0
    BY DEF Init
  <2>2. s \notin sleep /\ link[s] = "none"
    BY DEF Init
  <2>3. Len(<<>>) = 0
    OBVIOUS
  <2> QED
    BY <2>1, <2>2, <2>3 DEF StaInv, Empty, Asoc
<1>2. RxInv
  BY DEF Init, RxInv
<1> QED
  BY <1>1, <1>2 DEF OneCpuInv

(* The three invariants in one.                                            *)
LEMMA OneCpuPowerSave ==
  ASSUME SMP = FALSE
  PROVE  Spec => [](AllTypes /\ OneCpuInv /\ OrdInv)
<1>1. Init => AllTypes /\ OneCpuInv /\ OrdInv
  BY InitTypes, InitOneCpu
<1>2. AllTypes /\ OneCpuInv /\ OrdInv /\ [Next]_vars => AllTypes' /\ OneCpuInv' /\ OrdInv'
  BY NextTypes, NextOneCpu
<1> QED
  BY <1>1, <1>2, PTL DEF Spec

(* On one CPU nothing stays parked for a station that counts as awake, and *)
(* the lengths that wakeup_sta_to_xmit and the PS-Poll handler decide by   *)
(* are those of the lists: the error handler of the PS-Poll only ever      *)
(* resets lengths that are zero.                                           *)
THEOREM NothingLeftBehind ==
  ASSUME SMP = FALSE
  PROVE  Spec => []AwakeHoldsNothing
<1>1. OneCpuInv => AwakeHoldsNothing
  BY DEF OneCpuInv, StaInv, Empty, AwakeHoldsNothing
<1>2. Spec => [](AllTypes /\ OneCpuInv /\ OrdInv)
  BY OneCpuPowerSave
<1> QED
  BY <1>1, <1>2, PTL

(* On one CPU the TIM bit of a station is lit while something is parked    *)
(* that it has to ask for, whatever PS-Polls, triggers, keep-alive checks, *)
(* flushes and removals come in between.                                   *)
THEOREM TimTellsTheTruth ==
  ASSUME SMP = FALSE
  PROVE  Spec => []ParkedIsAnnounced
<1>1. OneCpuInv => ParkedIsAnnounced
  <2>1. SUFFICES ASSUME OneCpuInv, NEW s \in Stas, Asoc(s),
                        \/ \E i \in DOMAIN sleep_q[s] : Announced(s, ac(sleep_q[s][i]))
                        \/ has_legacy_ac(s) /\ mgmt_sleep_q[s] > 0
                 PROVE  s \in tim_bitmap
    BY Zenon DEF ParkedIsAnnounced
  <2>2. Waits(s)
    BY <2>1, Zenon DEF Waits, Range
  <2> QED
    BY <2>1, <2>2 DEF OneCpuInv, StaInv
<1>2. Spec => [](AllTypes /\ OneCpuInv /\ OrdInv)
  BY OneCpuPowerSave
<1> QED
  BY <1>1, <1>2, PTL

(* On one CPU the frames of a category leave in the order in which they    *)
(* came from rtw_xmit, however often they are parked, released and taken   *)
(* back on the way.                                                        *)
THEOREM FramesKeepOrder ==
  ASSUME SMP = FALSE
  PROVE  Spec => []UnicastInOrder
<1>1. OrdInv => UnicastInOrder
  BY Zenon DEF OrdInv, Sorted, Queued, UnicastInOrder
<1>2. Spec => [](AllTypes /\ OneCpuInv /\ OrdInv)
  BY OneCpuPowerSave
<1> QED
  BY <1>1, <1>2, PTL
=============================================================================
