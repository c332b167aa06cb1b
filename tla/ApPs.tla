-------------------------------- MODULE ApPs --------------------------------
(***************************************************************************)
(* Power save in access-point mode: core/rtw_xmit.c, core/rtw_recv.c and   *)
(* core/rtw_ap.c.                                                          *)
(*                                                                         *)
(* Frames for a station that dozes are parked in its sleep_q (management   *)
(* frames in mgmt_sleep_q) and announced by its bit of the TIM that the    *)
(* beacon carries; group frames are parked in the sleep_q of the           *)
(* broadcast station, whose association id is 0, while anybody dozes.  A   *)
(* PS-Poll releases one frame of each queue, a U-APSD trigger the frames   *)
(* of the delivery-enabled categories, and waking up releases everything.  *)
(* The beacon is rebuilt by the command thread, which also releases the    *)
(* group frames.                                                           *)
(*                                                                         *)
(* The transmit entry and the receive path run in softirqs.  On one CPU    *)
(* they exclude each other and interrupt the command thread; with SMP the  *)
(* part of the PS-Poll handler behind pxmitpriv->lock overlaps with other  *)
(* contexts.  What happens to a released frame is the subject of TxData.   *)
(***************************************************************************)
EXTENDS Integers, Sequences, FiniteSets

CONSTANTS
  Stas,       \* stations
  Profiles,   \* U-APSD: the sets of categories a station may declare delivery-enabled
  NFrame,     \* NR_XMITFRAME: data frames
  NExt,       \* NR_XMIT_EXTBUFF: buffers of management frames
  MaxBmc,     \* bound: group frames under way
  MaxCmds,    \* bound: queued commands
  LenMod,     \* the counters are unsigned: they wrap here
  SMP         \* another CPU runs beside the receive path

ACs == {"vo", "be"}
Bmc == 0                       \* association id of the broadcast station
Frames == (1..NFrame) \X ACs   \* a frame and the category of what it carries
ac(f) == f[2]

ASSUME ApAssumption ==
  /\ Bmc \notin Stas /\ IsFiniteSet(Stas)
  /\ Profiles \subseteq SUBSET ACs /\ Profiles # {}
  /\ NFrame \in Nat \ {0} /\ NExt \in Nat \ {0} /\ MaxBmc \in Nat /\ MaxCmds \in Nat
  /\ LenMod \in Nat /\ LenMod > NFrame + NExt /\ SMP \in BOOLEAN

VARIABLES
  link,           \* per station: "none", "auth", "asoc", "flushed", "leaving"
  delivery,       \* per station: uapsd_vo ... uapsd_bk
  sleep, alive,   \* WIFI_SLEEP_STATE, WIFI_STA_ALIVE_CHK_STATE
  tim_bitmap, sta_dz_bitmap,
  bcnTim, airTim, \* the TIM element: in the BSS description, on the air
  age,            \* history: frames in use, in the order of rtw_xmit
  sta_pending,    \* frames on their way to the bus
  sleep_q, sleepq_len, sleepq_ac_len,
  mgmt_pending, mgmt_sleep_q, mgmt_sleepq_len,
  free_xmit_extbuf_cnt,
  bmc_pending, bmc_q, \* group frames: on their way, parked
  cmds, cmdPc,    \* the command thread
  hiq,            \* the chip's high queue holds group frames
  rx              \* station whose PS-Poll is half done, and what it found

staVars == <<link, delivery, sleep, alive>>
timVars == <<tim_bitmap, sta_dz_bitmap, bcnTim, cmds>>
dataVars == <<age, sta_pending, sleep_q, sleepq_len, sleepq_ac_len>>
mgmtVars == <<mgmt_pending, mgmt_sleep_q, mgmt_sleepq_len, free_xmit_extbuf_cnt>>
bmcVars == <<bmc_pending, bmc_q>>
vars == <<staVars, timVars, airTim, dataVars, mgmtVars, bmcVars, cmdPc, hiq, rx>>

has_legacy_ac(s) == delivery[s] # ACs
asoc_list == {s \in Stas : link[s] = "asoc"}
Asoc(s) == link[s] \in {"asoc", "flushed"}        \* WIFI_ASOC_STATE
Unused == (1..NFrame) \ {age[i][1] : i \in DOMAIN age}

(* The elements of a queue that belong to S, in its order: the k-th one is *)
(* at the position that has k - 1 of them before it.                       *)
Places(q, S) == {i \in 1..Len(q) : q[i] \in S}
Place(I, k) == CHOOSE i \in I : Cardinality({j \in I : j <= i}) = k
Filter(q, S) == [k \in 1..Cardinality(Places(q, S)) |-> q[Place(Places(q, S), k)]]

FramesOf(q, a) == Filter(q, {f \in Frames : ac(f) = a})
Enabled(q, s) == Filter(q, {f \in Frames : ac(f) \in delivery[s]})
Rest(q, s) == Filter(q, {f \in Frames : ac(f) \notin delivery[s]})

NoRx == [sta |-> Bmc, null |-> FALSE]
Runs == SMP \/ rx = NoRx
Input == Runs /\ Len(cmds) < MaxCmds

(* _update_beacon(_TIM_IE_, tx): the element is rewritten from tim_bitmap  *)
(* at once, the beacon is sent by a command.  more: commands that follow.  *)
_update_beacon_NoTx(update, more) ==
  /\ bcnTim' = IF update THEN tim_bitmap' ELSE bcnTim
  /\ cmds' = cmds \o more
_update_beacon(update, more) ==
  /\ bcnTim' = IF update THEN tim_bitmap' ELSE bcnTim
  /\ cmds' = cmds \o (IF update THEN <<"beacon">> ELSE <<>>) \o more

-----------------------------------------------------------------------------
(* Parking a frame.                                                        *)

(* Does a parked frame of category a light the station's TIM bit?          *)
Announced(s, a) == has_legacy_ac(s) <=> a \notin delivery[s]

Parks(s) == s \in sleep /\ s \in sta_dz_bitmap

(* rtw_xmit of a unicast frame up to xmitframe_enqueue_for_sleeping_sta.   *)
rtw_xmit(s, a) ==
  LET f == <<CHOOSE x \in Unused : TRUE, a>> IN
  /\ Input /\ Asoc(s) /\ Unused # {}
  /\ age' = Append(age, f)
  /\ IF Parks(s)
       THEN /\ sleep_q' = [sleep_q EXCEPT ![s] = Append(@, f)]
            /\ sleepq_len' = [sleepq_len EXCEPT ![s] = (@ + 1) % LenMod]
            /\ sleepq_ac_len' = [sleepq_ac_len EXCEPT ![s] =
                                   IF a \in delivery[s] THEN (@ + 1) % LenMod ELSE @]
            /\ tim_bitmap' = tim_bitmap \cup {x \in {s} : Announced(s, a)}
            /\ _update_beacon(tim_bitmap' # tim_bitmap, <<>>)
            /\ UNCHANGED sta_pending
       ELSE /\ sta_pending' = [sta_pending EXCEPT ![s] = Append(@, f)]
            /\ UNCHANGED <<sleep_q, sleepq_len, sleepq_ac_len, tim_bitmap, bcnTim, cmds>>
  /\ UNCHANGED <<staVars, sta_dz_bitmap, airTim, mgmtVars, bmcVars, cmdPc, hiq, rx>>

(* Group frames are parked while any bit of sta_dz_bitmap is set, their    *)
(* own one included.  Only the first rebuilds the beacon; the others ask   *)
(* the command thread to look at the queue.                                *)
BmcCmds(n) ==
  [i \in 1..(IF Bmc \in tim_bitmap THEN n ELSE n - 1) |-> "bmc"]

rtw_xmit_bmc ==
  /\ Input /\ bmc_pending + bmc_q < MaxBmc
  /\ IF sta_dz_bitmap # {}
       THEN /\ bmc_q' = bmc_q + 1
            /\ tim_bitmap' = tim_bitmap \cup {Bmc}
            /\ sta_dz_bitmap' = sta_dz_bitmap \cup {Bmc}
            /\ _update_beacon(Bmc \notin tim_bitmap, BmcCmds(1))
            /\ UNCHANGED bmc_pending
       ELSE /\ bmc_pending' = bmc_pending + 1
            /\ UNCHANGED <<bmc_q, tim_bitmap, sta_dz_bitmap, bcnTim, cmds>>
  /\ UNCHANGED <<staVars, airTim, dataVars, mgmtVars, cmdPc, hiq, rx>>

(* rtw_hal_mgnt_xmit of a frame for a dozing station.  One for a station   *)
(* that is awake goes straight to the bus and leaves no trace here.        *)
rtw_hal_mgnt_xmit(s) ==
  /\ Input /\ Asoc(s) /\ Parks(s) /\ free_xmit_extbuf_cnt > 0
  /\ free_xmit_extbuf_cnt' = free_xmit_extbuf_cnt - 1
  /\ mgmt_sleep_q' = [mgmt_sleep_q EXCEPT ![s] = @ + 1]
  /\ mgmt_sleepq_len' = [mgmt_sleepq_len EXCEPT ![s] = (@ + 1) % LenMod]
  /\ tim_bitmap' = tim_bitmap \cup {s}
  /\ _update_beacon(s \notin tim_bitmap, <<>>)
  /\ UNCHANGED <<staVars, sta_dz_bitmap, airTim, dataVars, mgmt_pending, bmcVars, cmdPc,
                 hiq, rx>>

-----------------------------------------------------------------------------
(* Falling asleep and waking up, from the power-management bit.            *)

(* stop_sta_xmit: whatever still waits for the bus is taken back, released *)
(* frames included, one category after the other.                          *)
Retaken(s) == sleep_q[s] \o FramesOf(sta_pending[s], "vo") \o FramesOf(sta_pending[s], "be")

stop_sta_xmit(s) ==
  LET back == {sta_pending[s][i] : i \in DOMAIN sta_pending[s]}
      lit == mgmt_pending[s] > 0 \/ \E f \in back : Announced(s, ac(f))
      group == bmc_pending > 0
  IN /\ sleep' = sleep \cup {s}
     /\ sta_dz_bitmap' = sta_dz_bitmap \cup {s} \cup {x \in {Bmc} : group}
     /\ mgmt_sleep_q' = [mgmt_sleep_q EXCEPT ![s] = @ + mgmt_pending[s]]
     /\ mgmt_sleepq_len' = [mgmt_sleepq_len EXCEPT ![s] = (@ + mgmt_pending[s]) % LenMod]
     /\ mgmt_pending' = [mgmt_pending EXCEPT ![s] = 0]
     /\ sleep_q' = [sleep_q EXCEPT ![s] = Retaken(s)]
     /\ sleepq_len' = [sleepq_len EXCEPT ![s] = (@ + Cardinality(back)) % LenMod]
     /\ sleepq_ac_len' = [sleepq_ac_len EXCEPT ![s] =
                            (@ + Len(Enabled(sta_pending[s], s))) % LenMod]
     /\ sta_pending' = [sta_pending EXCEPT ![s] = <<>>]
     /\ bmc_q' = bmc_q + bmc_pending /\ bmc_pending' = 0
     /\ tim_bitmap' = tim_bitmap \cup {x \in {s} : lit} \cup {x \in {Bmc} : group}
     /\ _update_beacon(tim_bitmap' # tim_bitmap,
                       [i \in 1..(Cardinality(tim_bitmap' \ tim_bitmap) - 1) |-> "beacon"]
                         \o BmcCmds(bmc_pending))
     /\ UNCHANGED <<age, free_xmit_extbuf_cnt, alive, delivery>>

Left(len, n) == (len - n) % LenMod
Released_AtHead(s) == sleep_q[s] \o sta_pending[s]
Released(s) == sta_pending[s] \o sleep_q[s]
Drained_NoData(len, mlen) == mlen = 0
Drained(len, mlen) == len = 0 /\ mlen = 0

(* wakeup_sta_to_xmit: the frames of the given type go to the bus; once    *)
(* nothing is left the station counts as awake, and once nobody dozes the  *)
(* group frames follow.                                                    *)
wakeup_sta_to_xmit(s, type) ==
  LET data == type = "all"
      n == IF data THEN Len(sleep_q[s]) ELSE 0
      len == Left(sleepq_len[s], n)
      mlen == (mgmt_sleepq_len[s] - mgmt_sleep_q[s]) % LenMod
      awake == {x \in {s} : Drained(len, mlen)}
      group == {x \in {Bmc} : data /\ (sta_dz_bitmap \ awake) \subseteq {Bmc}}
  IN /\ mgmt_pending' = [mgmt_pending EXCEPT ![s] = @ + mgmt_sleep_q[s]]
     /\ mgmt_sleep_q' = [mgmt_sleep_q EXCEPT ![s] = 0]
     /\ mgmt_sleepq_len' = [mgmt_sleepq_len EXCEPT ![s] = mlen]
     /\ IF data
          THEN /\ sta_pending' = [sta_pending EXCEPT ![s] = Released(s)]
               /\ sleepq_ac_len' = [sleepq_ac_len EXCEPT ![s] =
                                      (@ - Len(Enabled(sleep_q[s], s))) % LenMod]
               /\ sleep_q' = [sleep_q EXCEPT ![s] = <<>>]
               /\ sleepq_len' = [sleepq_len EXCEPT ![s] = len]
          ELSE UNCHANGED <<sta_pending, sleepq_ac_len, sleep_q, sleepq_len>>
     /\ sleep' = sleep \ awake /\ alive' = alive \ awake
     /\ IF Bmc \in group
          THEN bmc_pending' = bmc_pending + bmc_q /\ bmc_q' = 0
          ELSE UNCHANGED bmcVars
     /\ tim_bitmap' = tim_bitmap \ (awake \cup group)
     /\ sta_dz_bitmap' = sta_dz_bitmap \ (awake \cup group)
     /\ _update_beacon(tim_bitmap' # tim_bitmap, <<>>)
     /\ UNCHANGED <<age, free_xmit_extbuf_cnt, delivery>>

(* process_pwrbit_data of a data frame from s.                             *)
process_pwrbit_data(s) ==
  /\ Input /\ Asoc(s)
  /\ IF s \in sleep THEN wakeup_sta_to_xmit(s, "all") ELSE stop_sta_xmit(s)
  /\ UNCHANGED <<link, airTim, cmdPc, hiq, rx>>

(* process_wmmps_data: a trigger frame of a dozing station.  With          *)
(* sleepq_ac_len = 0 a QoS null frame is the answer.                       *)
xmit_delivery_enabled_frames(s) ==
  LET out == Enabled(sleep_q[s], s)
      done == \E i \in 1..Len(out) : (sleepq_ac_len[s] - i) % LenMod = 0
      clear == done /\ ~has_legacy_ac(s)
  IN /\ Input /\ Asoc(s) /\ s \in sleep
     /\ delivery[s] # {} /\ sleepq_ac_len[s] > 0
     /\ sta_pending' = [sta_pending EXCEPT ![s] = @ \o out]
     /\ sleep_q' = [sleep_q EXCEPT ![s] = Rest(@, s)]
     /\ sleepq_len' = [sleepq_len EXCEPT ![s] = (@ - Len(out)) % LenMod]
     /\ sleepq_ac_len' = [sleepq_ac_len EXCEPT ![s] = (@ - Len(out)) % LenMod]
     /\ tim_bitmap' = tim_bitmap \ {x \in {s} : clear}
     /\ _update_beacon(clear, <<>>)
     /\ UNCHANGED <<staVars, sta_dz_bitmap, airTim, age, mgmtVars, bmcVars, cmdPc, hiq, rx>>

-----------------------------------------------------------------------------
(* PS-Poll.                                                                *)

(* validate_recv_ctrl_frame under pxmitpriv->lock: the head of each queue. *)
(* A station whose best-effort category is delivery-enabled (the priority  *)
(* of a control frame is 0) is ignored.                                    *)
PsPoll(s) ==
  LET m == IF mgmt_sleep_q[s] > 0 THEN 1 ELSE 0
      d == IF sleep_q[s] # <<>> THEN 1 ELSE 0
      head == SubSeq(sleep_q[s], 1, d)
  IN /\ Input /\ rx = NoRx /\ Asoc(s) /\ "be" \notin delivery[s]
     /\ alive' = alive \ {s}
     /\ Parks(s)
     /\ mgmt_sleep_q' = [mgmt_sleep_q EXCEPT ![s] = @ - m]
     /\ mgmt_sleepq_len' = [mgmt_sleepq_len EXCEPT ![s] = (@ - m) % LenMod]
     /\ mgmt_pending' = [mgmt_pending EXCEPT ![s] = @ + m]
     /\ sleep_q' = [sleep_q EXCEPT ![s] = SubSeq(@, d + 1, Len(@))]
     /\ sleepq_len' = [sleepq_len EXCEPT ![s] = (@ - d) % LenMod]
     /\ sta_pending' = [sta_pending EXCEPT ![s] = @ \o head]
     /\ rx' = [sta |-> s, null |-> m = 0 /\ d = 0]
     /\ UNCHANGED <<link, delivery, sleep, timVars, airTim, age, sleepq_ac_len, free_xmit_extbuf_cnt,
                    bmcVars, cmdPc, hiq>>

(* ... and after the unlock: the error handler, which does not take the    *)
(* lock again, and the TIM bit.                                            *)
PsPollEnd_ClearAlways ==
  LET s == rx.sta IN
  /\ rx # NoRx /\ rx' = NoRx
  /\ tim_bitmap' = tim_bitmap \ {s}
  /\ _update_beacon(TRUE, <<>>)
  /\ UNCHANGED <<staVars, sta_dz_bitmap, airTim, age, sta_pending, sleep_q, sleepq_len,
                 sleepq_ac_len, mgmtVars, bmcVars, cmdPc, hiq>>
PsPollEnd ==
  LET s == rx.sta
      error == rx.null /\ s \in tim_bitmap
      empty == error \/ (sleepq_len[s] = 0 /\ mgmt_sleepq_len[s] = 0)
  IN /\ rx # NoRx /\ rx' = NoRx
     /\ sleepq_len' = IF error THEN [sleepq_len EXCEPT ![s] = 0] ELSE sleepq_len
     /\ mgmt_sleepq_len' = IF error THEN [mgmt_sleepq_len EXCEPT ![s] = 0] ELSE mgmt_sleepq_len
     /\ tim_bitmap' = tim_bitmap \ {x \in {s} : empty}
     /\ _update_beacon(empty, <<>>)
     /\ UNCHANGED <<staVars, sta_dz_bitmap, airTim, age, sta_pending, sleep_q, sleepq_ac_len,
                    mgmt_pending, mgmt_sleep_q, free_xmit_extbuf_cnt, bmcVars, cmdPc, hiq>>

-----------------------------------------------------------------------------
(* expire_timeout_chk, for one station of asoc_list.                       *)

(* A dozing station that has been silent is asked to show itself: its TIM  *)
(* bit is lit with nothing parked.                                         *)
alive_check(s) ==
  /\ Input /\ link[s] = "asoc" /\ s \in sleep \ alive
  /\ alive' = alive \cup {s}
  /\ tim_bitmap' = tim_bitmap \cup {s}
  /\ _update_beacon(TRUE, <<>>)
  /\ UNCHANGED <<link, delivery, sleep, sta_dz_bitmap, airTim, dataVars, mgmtVars, bmcVars, cmdPc,
                 hiq, rx>>

(* One station that holds most of a pool gives it back.                    *)
Hogs(len, pool, left) ==
  LET share == pool \div Cardinality(asoc_list) IN len >= share /\ left < share \div 2

flush_sleep_q(s) ==
  /\ Input /\ link[s] = "asoc"
  /\ \/ Hogs(mgmt_sleepq_len[s], NExt, free_xmit_extbuf_cnt)
     \/ Hogs(sleepq_len[s], NFrame, Cardinality(Unused))
  /\ wakeup_sta_to_xmit(s, "all")
  /\ UNCHANGED <<link, airTim, cmdPc, hiq, rx>>

-----------------------------------------------------------------------------
(* The bus.  Released management frames go first.                          *)
rtl8188fu_xmitframe_complete ==
  /\ Runs
  /\ \/ \E s \in Stas :
          /\ mgmt_pending[s] > 0
          /\ mgmt_pending' = [mgmt_pending EXCEPT ![s] = @ - 1]
          /\ free_xmit_extbuf_cnt' = free_xmit_extbuf_cnt + 1
          /\ UNCHANGED <<age, sta_pending, bmc_pending, hiq>>
     \/ /\ \A s \in Stas : mgmt_pending[s] = 0
        /\ \/ \E s \in Stas :
                /\ sta_pending[s] # <<>>
                /\ LET a == IF FramesOf(sta_pending[s], "vo") # <<>> THEN "vo" ELSE "be"
                       f == Head(FramesOf(sta_pending[s], a))
                   IN /\ sta_pending' = [sta_pending EXCEPT ![s] = Filter(@, Frames \ {f})]
                      /\ age' = Filter(age, Frames \ {f})
                /\ UNCHANGED <<bmc_pending, hiq>>
           \/ /\ bmc_pending > 0
              /\ bmc_pending' = bmc_pending - 1
              /\ hiq' \in {hiq, TRUE}
              /\ UNCHANGED <<age, sta_pending>>
        /\ UNCHANGED <<mgmt_pending, free_xmit_extbuf_cnt>>
  /\ UNCHANGED <<staVars, timVars, airTim, sleep_q, sleepq_len, sleepq_ac_len,
                 mgmt_sleep_q, mgmt_sleepq_len, bmc_q, cmdPc, rx>>

(* The chip sends the group frames after a DTIM beacon.                    *)
HiqDrains ==
  /\ hiq /\ hiq' = FALSE
  /\ UNCHANGED <<staVars, timVars, airTim, dataVars, mgmtVars, bmcVars, cmdPc, rx>>

-----------------------------------------------------------------------------
(* The command thread.                                                     *)

(* tx_beacon_hdl puts the beacon on the air and goes on like CMD_CHK_      *)
(* BMCSLEEPQ: chk_bmc_sleepq_hdl looks at the queue, ...                   *)
chk_bmc_sleepq_hdl ==
  /\ rx = NoRx /\ cmdPc = "idle" /\ cmds # <<>> /\ Head(cmds) \in {"beacon", "bmc"}
  /\ airTim' = IF Head(cmds) = "beacon" THEN bcnTim ELSE airTim
  /\ cmds' = Tail(cmds)
  /\ cmdPc' = IF Bmc \in tim_bitmap /\ bmc_q > 0 THEN "atim" ELSE "idle"
  /\ UNCHANGED <<staVars, tim_bitmap, sta_dz_bitmap, bcnTim, dataVars, mgmtVars, bmcVars, hiq, rx>>

(* ... sleeps for 10 ms and releases the group frames.                     *)
chk_bmc_sleepq_release ==
  /\ rx = NoRx /\ cmdPc = "atim"
  /\ bmc_pending' = bmc_pending + bmc_q /\ bmc_q' = 0
  /\ cmds' = Append(cmds, "hiq")
  /\ cmdPc' = "idle"
  /\ UNCHANGED <<staVars, tim_bitmap, sta_dz_bitmap, bcnTim, airTim, dataVars, mgmtVars, hiq, rx>>

(* rtw_chk_hi_queue_hdl: with the queue empty and the chip done, ...       *)
rtw_chk_hi_queue_hdl ==
  /\ rx = NoRx /\ cmdPc = "idle" /\ cmds # <<>> /\ Head(cmds) = "hiq"
  /\ cmds' = IF bmc_q = 0 /\ hiq THEN Append(Tail(cmds), "hiq") ELSE Tail(cmds)
  /\ cmdPc' = IF bmc_q = 0 /\ ~hiq THEN "clear" ELSE "idle"
  /\ UNCHANGED <<staVars, tim_bitmap, sta_dz_bitmap, bcnTim, airTim, dataVars, mgmtVars, bmcVars,
                 hiq, rx>>

(* ... the bits of the group frames are cleared, without a lock.           *)
rtw_chk_hi_queue_clear ==
  /\ rx = NoRx /\ cmdPc = "clear"
  /\ tim_bitmap' = tim_bitmap \ {Bmc}
  /\ sta_dz_bitmap' = sta_dz_bitmap \ {Bmc}
  /\ _update_beacon(Bmc \in tim_bitmap, <<>>)
  /\ cmdPc' = "idle"
  /\ UNCHANGED <<staVars, airTim, dataVars, mgmtVars, bmcVars, hiq, rx>>

-----------------------------------------------------------------------------
(* Stations come and go.                                                   *)

rtw_alloc_stainfo(s) ==
  /\ Input /\ link[s] = "none" /\ link' = [link EXCEPT ![s] = "auth"]
  /\ UNCHANGED <<delivery, sleep, alive, timVars, airTim, dataVars, mgmtVars, bmcVars, cmdPc, hiq, rx>>

(* OnAssocReq with the QoS information of the WMM element.                 *)
OnAssocReq(s) ==
  /\ Input /\ link[s] = "auth" /\ link' = [link EXCEPT ![s] = "asoc"]
  /\ \E d \in Profiles : delivery' = [delivery EXCEPT ![s] = d]
  /\ UNCHANGED <<sleep, alive, timVars, airTim, dataVars, mgmtVars, bmcVars, cmdPc, hiq, rx>>

(* ap_free_sta, active: parked management frames are sent on, ...          *)
ap_free_sta_flush(s) ==
  /\ Input /\ link[s] = "asoc" /\ s \in sleep
  /\ link' = [link EXCEPT ![s] = "flushed"]
  /\ wakeup_sta_to_xmit(s, "mgmt")
  /\ UNCHANGED <<airTim, cmdPc, hiq, rx>>

(* ... the station loses WIFI_ASOC_STATE and its TIM bit.                  *)
ap_free_sta(s) ==
  /\ rx = NoRx /\ Asoc(s) /\ link' = [link EXCEPT ![s] = "leaving"]
  /\ tim_bitmap' = tim_bitmap \ {s}
  /\ bcnTim' = IF s \in tim_bitmap THEN tim_bitmap' ELSE bcnTim
  /\ UNCHANGED <<delivery, sleep, alive, sta_dz_bitmap, cmds, airTim, dataVars, mgmtVars, bmcVars, cmdPc,
                 hiq, rx>>

(* rtw_free_stainfo drops what is left.  The frames of mgmt_sleep_q give   *)
(* their buffers back, those of mgmt_q.sta_pending do not.  The bits are   *)
(* cleared by association id, and a station that never associated has id 0.*)
ExtBack_Twice(s) == 2 * mgmt_sleep_q[s]
ExtBack(s) == mgmt_sleep_q[s]
ClearedBit(s) == IF link[s] = "auth" THEN Bmc ELSE s

rtw_free_stainfo(s) ==
  /\ rx = NoRx /\ link[s] \in {"auth", "leaving"} /\ link' = [link EXCEPT ![s] = "none"]
  /\ LET gone == {sta_pending[s][i] : i \in DOMAIN sta_pending[s]}
                   \cup {sleep_q[s][i] : i \in DOMAIN sleep_q[s]}
     IN age' = Filter(age, Frames \ gone)
  /\ sta_pending' = [sta_pending EXCEPT ![s] = <<>>]
  /\ sleep_q' = [sleep_q EXCEPT ![s] = <<>>]
  /\ sleepq_len' = [sleepq_len EXCEPT ![s] = 0]
  /\ sleepq_ac_len' = [sleepq_ac_len EXCEPT ![s] = 0]
  /\ free_xmit_extbuf_cnt' = free_xmit_extbuf_cnt + ExtBack(s)
  /\ mgmt_sleep_q' = [mgmt_sleep_q EXCEPT ![s] = 0]
  /\ mgmt_sleepq_len' = [mgmt_sleepq_len EXCEPT ![s] = 0]
  /\ mgmt_pending' = [mgmt_pending EXCEPT ![s] = 0]
  /\ sleep' = sleep \ {s} /\ alive' = alive \ {s}
  /\ delivery' = [delivery EXCEPT ![s] = {}]
  /\ tim_bitmap' = tim_bitmap \ {ClearedBit(s)}
  /\ sta_dz_bitmap' = sta_dz_bitmap \ {ClearedBit(s)}
  /\ UNCHANGED <<bcnTim, cmds, airTim, bmcVars, cmdPc, hiq, rx>>

-----------------------------------------------------------------------------
Init ==
  /\ link = [s \in Stas |-> "none"] /\ delivery = [s \in Stas |-> {}]
  /\ sleep = {} /\ alive = {}
  /\ tim_bitmap = {} /\ sta_dz_bitmap = {} /\ bcnTim = {} /\ airTim = {}
  /\ age = <<>>
  /\ sta_pending = [s \in Stas |-> <<>>] /\ sleep_q = [s \in Stas |-> <<>>]
  /\ sleepq_len = [s \in Stas |-> 0] /\ sleepq_ac_len = [s \in Stas |-> 0]
  /\ mgmt_pending = [s \in Stas |-> 0] /\ mgmt_sleep_q = [s \in Stas |-> 0]
  /\ mgmt_sleepq_len = [s \in Stas |-> 0] /\ free_xmit_extbuf_cnt = NExt
  /\ bmc_pending = 0 /\ bmc_q = 0
  /\ cmds = <<>> /\ cmdPc = "idle" /\ hiq = FALSE /\ rx = NoRx

CmdThread ==
  \/ chk_bmc_sleepq_hdl \/ chk_bmc_sleepq_release
  \/ rtw_chk_hi_queue_hdl \/ rtw_chk_hi_queue_clear

Station(s) ==
  \/ process_pwrbit_data(s) \/ xmit_delivery_enabled_frames(s) \/ PsPoll(s)
  \/ alive_check(s) \/ flush_sleep_q(s) \/ rtw_hal_mgnt_xmit(s)
  \/ rtw_alloc_stainfo(s) \/ OnAssocReq(s)
  \/ ap_free_sta_flush(s) \/ ap_free_sta(s) \/ rtw_free_stainfo(s)

Next ==
  \/ \E s \in Stas : Station(s) \/ \E a \in ACs : rtw_xmit(s, a)
  \/ rtw_xmit_bmc \/ PsPollEnd
  \/ rtl8188fu_xmitframe_complete \/ HiqDrains \/ CmdThread

Spec == Init /\ [][Next]_vars

-----------------------------------------------------------------------------
TypeOK ==
  /\ link \in [Stas -> {"none", "auth", "asoc", "flushed", "leaving"}]
  /\ delivery \in [Stas -> SUBSET ACs]
  /\ sleep \subseteq Stas /\ alive \subseteq Stas
  /\ tim_bitmap \subseteq Stas \cup {Bmc} /\ sta_dz_bitmap \subseteq Stas \cup {Bmc}
  /\ bcnTim \subseteq Stas \cup {Bmc} /\ airTim \subseteq Stas \cup {Bmc}
  /\ age \in Seq(Frames)
  /\ sta_pending \in [Stas -> Seq(Frames)] /\ sleep_q \in [Stas -> Seq(Frames)]
  /\ sleepq_len \in [Stas -> 0..LenMod - 1] /\ sleepq_ac_len \in [Stas -> 0..LenMod - 1]
  /\ mgmt_pending \in [Stas -> 0..NExt] /\ mgmt_sleep_q \in [Stas -> 0..NExt]
  /\ mgmt_sleepq_len \in [Stas -> 0..LenMod - 1] /\ free_xmit_extbuf_cnt \in 0..NExt
  /\ bmc_pending \in Nat /\ bmc_q \in Nat
  /\ cmds \in Seq({"beacon", "bmc", "hiq"}) /\ cmdPc \in {"idle", "atim", "clear"}
  /\ hiq \in BOOLEAN
  /\ rx \in [sta : Stas \cup {Bmc}, null : BOOLEAN]

(* Nothing is parked for a station that counts as awake: only waking up    *)
(* releases parked frames, and process_pwrbit_data wakes up a station only *)
(* if it counts as asleep, so such a frame would stay for ever.  The       *)
(* lengths that decide about it are those of the lists; the comment at the *)
(* error handler of the PS-Poll says of the state in which it resets them  *)
(* that both queues are empty.                                             *)
AwakeHoldsNothing ==
  \A s \in Stas :
    /\ sleepq_len[s] = Len(sleep_q[s]) /\ mgmt_sleepq_len[s] = mgmt_sleep_q[s]
    /\ Asoc(s) /\ s \notin sleep => sleep_q[s] = <<>> /\ mgmt_sleep_q[s] = 0

(* The TIM bit of a dozing station is lit while something is parked that   *)
(* it has to ask for: a frame of a category without delivery, or any data  *)
(* frame if all categories have it; a management frame, if it is a         *)
(* station that uses PS-Poll for some category.                            *)
ParkedIsAnnounced ==
  \A s \in Stas :
    \/ rx.sta = s \/ ~Asoc(s)
    \/ (\/ \E i \in DOMAIN sleep_q[s] : Announced(s, ac(sleep_q[s][i]))
        \/ has_legacy_ac(s) /\ mgmt_sleep_q[s] > 0) => s \in tim_bitmap

(* The frames of a category stay in order while they are parked, released, *)
(* taken back by stop_sta_xmit and released again: of two frames of a      *)
(* category the one that will be sent first came first from rtw_xmit,      *)
(* whether it waits for the bus or is parked.                              *)
Before(q, f, g) == \E i, j \in DOMAIN q : i < j /\ q[i] = f /\ q[j] = g

UnicastInOrder ==
  \A s \in Stas :
    LET q == sta_pending[s] \o sleep_q[s]
    IN \A i, j \in DOMAIN q : i < j /\ ac(q[i]) = ac(q[j]) => Before(age, q[i], q[j])

(* Parked group frames keep their bit of the TIM: chk_bmc_sleepq_hdl       *)
(* releases them only while it is set.                                     *)
GroupFramesAnnounced == bmc_q > 0 => Bmc \in tim_bitmap

(* The announcement reaches the air: while the TIM bit of a station is lit *)
(* the transmitted beacon has it, or a command that sends the beacon is    *)
(* queued and the element it will send has it.                             *)
TimReachesAir ==
  \A s \in Stas \cap tim_bitmap :
    s \in airTim \/ (s \in bcnTim /\ \E i \in DOMAIN cmds : cmds[i] = "beacon")
=============================================================================
