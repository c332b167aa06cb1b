-------------------------- MODULE RxReorderProofs --------------------------
(***************************************************************************)
(* Theorems about the receive window, for every size of the sequence       *)
(* space, every window and every number of frames.  The order theorems     *)
(* rest on lemmas about numbers modulo the space: the driver compares      *)
(* reduced numbers, the invariants speak of frames.                        *)
(***************************************************************************)
EXTENDS RxReorder, WellFoundedInduction, TLAPS

(* What the proofs use of the constants.                                   *)
LEMMA UnsetType == Unset \in Nat
BY DEF Unset

LEMMA Half ==
  /\ SN \in Nat /\ SN >= 2 /\ SN \div 2 \in Nat /\ SN = 2 * (SN \div 2)
  /\ WSize \in Nat /\ WSize >= 1 /\ MaxGap \in Nat /\ MaxGap >= 1
  /\ MaxGap + WSize < SN \div 2 /\ 2 * WSize <= SN \div 2
BY SeqSpaceAssumption, UnsetType

(* A number reduced to the sequence space is a sequence number.            *)
LEMMA ModRange ==
  ASSUME NEW a \in Int
  PROVE  a % SN \in 0..(SN - 1)
<1>1. SN \in Nat /\ SN >= 2
  BY Half, Zenon
<1> QED
  BY <1>1

LEMMA SeqNumRange ==
  ASSUME NEW n \in Nat
  PROVE  seq_num(n) \in 0..(SN - 1)
BY ModRange DEF seq_num

(* The window start computed by check_indicate_seq is a sequence number.   *)
LEMMA CheckRange ==
  ASSUME NEW start \in (0..(SN - 1)) \cup {Unset}, NEW s \in 0..(SN - 1)
  PROVE  check_indicate_seq(start, s) \in (0..(SN - 1)) \cup {Unset}
<1>1. ShiftTo(s) \in 0..(SN - 1)
  <2>1. SN \in Nat /\ WSize \in Nat /\ WSize >= 1 /\ WSize < SN
    BY Half
  <2> QED
    BY <2>1 DEF ShiftTo
<1>2. (start + 1) % SN \in 0..(SN - 1)
  BY ModRange, UnsetType
<1> QED
  BY <1>1, <1>2 DEF check_indicate_seq

(* The walk of enqueue_reorder_recvframe ends: there is a first frame that *)
(* is not smaller than the new one, or the end of the queue.               *)
LEMMA InsertPosExists ==
  ASSUME NEW q \in Seq(Nat), NEW n \in Nat
  PROVE  /\ InsertPos(q, n) \in 0..Len(q)
         /\ \A i \in 1..InsertPos(q, n) : SN_LESS(seq_num(q[i]), seq_num(n))
         /\ InsertPos(q, n) < Len(q) =>
              ~SN_LESS(seq_num(q[InsertPos(q, n) + 1]), seq_num(n))
<1> DEFINE Less(i) == SN_LESS(seq_num(q[i]), seq_num(n))
           T == {k \in 0..Len(q) : k < Len(q) => ~Less(k + 1)}
<1> HIDE DEF Less
<1>1. T \subseteq Nat /\ Len(q) \in T /\ Len(q) \in Nat
  OBVIOUS
<1>2. \E x \in T : \A y \in T : ~(<<y, x>> \in OpToRel(<, Nat))
  BY <1>1, NatLessThanWellFounded, WFMin
<1>3. PICK x \in T : \A y \in T : ~(y < x)
  BY <1>1, <1>2 DEF OpToRel
<1>4. \A i \in 1..x : Less(i)
  <2>1. SUFFICES ASSUME NEW i \in 1..x PROVE Less(i)
    OBVIOUS
  <2>2. x \in Nat /\ i \in Nat /\ i - 1 < x
    BY <1>1, <1>3
  <2>3. i - 1 \notin T
    BY <2>2, <1>3
  <2> QED
    BY <2>2, <2>3, <1>1
<1>5. \E k \in 0..Len(q) : /\ \A i \in 1..k : Less(i)
                           /\ k < Len(q) => ~Less(k + 1)
  BY <1>4
<1> QED
  BY <1>5 DEF InsertPos, Less

(* The queue after an insertion is again a queue of frames.                *)
LEMMA EnqueueType ==
  ASSUME NEW q \in Seq(Nat), NEW n \in Nat
  PROVE  enqueue_reorder_recvframe(q, n) \in Seq(Nat)
<1> DEFINE k == InsertPos(q, n)
<1>0. k \in 0..Len(q)
  BY InsertPosExists
<1> HIDE DEF k
<1>1. \A i \in 1..(Len(q) + 1) :
        (IF i <= k THEN q[i] ELSE IF i = k + 1 THEN n ELSE q[i - 1]) \in Nat
  BY <1>0
<1> QED
  BY <1>1 DEF enqueue_reorder_recvframe, k

-----------------------------------------------------------------------------
(* The parts of type correctness, each kept by every step.                 *)
LEMMA FlagsStep == FlagsOK /\ [Next]_vars => FlagsOK'
BY DEF FlagsOK, Next, Receive, Timer, Process, vars, drvVars, ctxVars,
       recv_func_posthandle, rtw_process_bar_frame, recv_direct,
       recv_indicatepkt_reorder, recv_indicatepkts_in_order, recv_reorder_done, recv_cancel_timer,
       reordering_ctrl_timer_fires, rtw_reordering_ctrl_timeout_handler,
       timeout_handler_done, issue_addba_rsp_wait_ack, add_ba_rsp_set_bit,
       add_ba_rsp_hdl, delba, rtw_joinbss_update_stainfo, rtw_free_stainfo,
       rtw_free_stainfo_cancel, rtw_free_stainfo_flush, rtw_alloc_stainfo,
       rtw_set_drv_stopped, rtw_clr_drv_stopped

LEMMA ControlStep == ControlOK /\ [Next]_vars => ControlOK'
BY DEF ControlOK, Next, Receive, Timer, Process, vars, drvVars, ctxVars,
       recv_func_posthandle, rtw_process_bar_frame, recv_direct,
       recv_indicatepkt_reorder, recv_indicatepkts_in_order, recv_reorder_done, recv_cancel_timer,
       reordering_ctrl_timer_fires, rtw_reordering_ctrl_timeout_handler,
       timeout_handler_done, issue_addba_rsp_wait_ack, add_ba_rsp_set_bit,
       add_ba_rsp_hdl, delba, rtw_joinbss_update_stainfo, rtw_free_stainfo,
       rtw_free_stainfo_cancel, rtw_free_stainfo_flush, rtw_alloc_stainfo,
       rtw_set_drv_stopped, rtw_clr_drv_stopped

LEMMA DataStep == DataOK /\ [Next]_vars => DataOK'
<1> SUFFICES ASSUME DataOK, [Next]_vars PROVE DataOK'
  OBVIOUS
<1>0. (indicate_seq + 1) % SN \in 0..(SN - 1)
  BY ModRange, UnsetType DEF DataOK
<1>1. ASSUME NEW n \in (hi - WSize + 1)..(hi + MaxGap), recv_func_posthandle(n)
      PROVE DataOK'
  <2>1. n \in Nat /\ seq_num(n) \in 0..(SN - 1)
    BY <1>1, SeqNumRange DEF recv_func_posthandle, MayArrive
  <2> QED
    BY <1>1, <2>1 DEF recv_func_posthandle, DataOK
<1>2. CASE recv_direct
  BY <1>0, <1>2 DEF recv_direct, Deliver, DataOK
<1>11. ASSUME NEW n \in (hi - 2 * WSize + 1)..(hi + MaxGap + 1), rtw_process_bar_frame(n)
       PROVE  DataOK'
  <2>1. n \in Nat /\ seq_num(n) \in 0..(SN - 1)
    BY <1>11, SeqNumRange DEF rtw_process_bar_frame, MayBeRequested
  <2> QED
    BY <1>11, <2>1 DEF rtw_process_bar_frame, ctxVars, DataOK
<1>3. CASE recv_indicatepkt_reorder
  <2> DEFINE s == seq_num(rxFrame)
             start == IF ackBit \/ indicate_seq = Unset THEN s ELSE indicate_seq
  <2>1. s \in 0..(SN - 1)
    BY SeqNumRange DEF DataOK
  <2>2. start \in (0..(SN - 1)) \cup {Unset}
    BY <2>1 DEF DataOK
  <2>3. check_indicate_seq(start, s) \in (0..(SN - 1)) \cup {Unset}
    BY <2>1, <2>2, CheckRange
  <2>4. enqueue_reorder_recvframe(pending, rxFrame) \in Seq(Nat)
    BY EnqueueType DEF DataOK
  <2>5. indicate_seq' \in {start, check_indicate_seq(start, s)}
    BY <1>3 DEF recv_indicatepkt_reorder
  <2>6. pending' \in {pending, enqueue_reorder_recvframe(pending, rxFrame)}
    BY <1>3 DEF recv_indicatepkt_reorder
  <2>7. last' \in {last, -1} /\ UNCHANGED <<tid_rxseq, rxFrame, hi, base>>
    BY <1>3 DEF recv_indicatepkt_reorder
  <2> HIDE DEF start, s
  <2> QED
    BY <2>2, <2>3, <2>4, <2>5, <2>6, <2>7 DEF DataOK
<1>4. CASE recv_indicatepkts_in_order
  <2>1. pending # <<>> /\ Head(pending) \in Nat /\ Tail(pending) \in Seq(Nat)
    BY <1>4 DEF recv_indicatepkts_in_order, HeadIsDue, DataOK
  <2> QED
    BY <1>0, <1>4, <2>1 DEF recv_indicatepkts_in_order, Deliver, ctxVars, DataOK
<1>5. CASE rtw_reordering_ctrl_timeout_handler
  <2>1. pending # <<>> => Head(pending) \in Nat
    BY DEF DataOK
  <2>2. pending # <<>> => seq_num(Head(pending)) \in 0..(SN - 1)
    BY <2>1, SeqNumRange
  <2> QED
    BY <1>5, <2>2 DEF rtw_reordering_ctrl_timeout_handler, DataOK
<1>6. CASE issue_addba_rsp_wait_ack
  BY <1>6 DEF issue_addba_rsp_wait_ack, drvVars, DataOK
<1>7. CASE rtw_joinbss_update_stainfo
  BY <1>7 DEF rtw_joinbss_update_stainfo, ctxVars, DataOK
<1>8. CASE rtw_free_stainfo_flush
  BY <1>8 DEF rtw_free_stainfo_flush, DataOK
<1>9. CASE rtw_alloc_stainfo
  BY <1>9 DEF rtw_alloc_stainfo, ctxVars, DataOK
<1>10. CASE \/ recv_reorder_done \/ recv_cancel_timer \/ reordering_ctrl_timer_fires
            \/ timeout_handler_done \/ add_ba_rsp_set_bit \/ add_ba_rsp_hdl
            \/ delba \/ rtw_free_stainfo \/ rtw_free_stainfo_cancel
            \/ rtw_set_drv_stopped \/ rtw_clr_drv_stopped \/ UNCHANGED vars
  <2>1. UNCHANGED <<indicate_seq, tid_rxseq, pending, rxFrame, hi, base, last>>
    BY <1>10 DEF recv_reorder_done, recv_cancel_timer, reordering_ctrl_timer_fires,
         timeout_handler_done, add_ba_rsp_set_bit, add_ba_rsp_hdl, delba,
         rtw_free_stainfo, rtw_free_stainfo_cancel, rtw_set_drv_stopped,
         rtw_clr_drv_stopped, vars, drvVars, ctxVars
  <2> QED
    BY <2>1 DEF DataOK
<1> QED
  BY <1>1, <1>2, <1>3, <1>4, <1>5, <1>6, <1>7, <1>8, <1>9, <1>10, <1>11
     DEF Next, Receive, Timer, Process

(* Type correctness: the window start stays a sequence number and the      *)
(* queue a queue of frames, whatever the contexts do to them.              *)
THEOREM TypeCorrect == Spec => []TypeOK
<1>1. Init => FlagsOK /\ ControlOK
  BY DEF Init, FlagsOK, ControlOK
<1>2. Init => DataOK
  <2>1. FirstSeq \in Nat
    BY SeqSpaceAssumption
  <2> QED
    BY <2>1 DEF Init, DataOK
<1>3. TypeOK /\ [Next]_vars => TypeOK'
  BY FlagsStep, ControlStep, DataStep DEF TypeOK
<1> QED
  BY <1>1, <1>2, <1>3, PTL DEF Spec, TypeOK

-----------------------------------------------------------------------------
(* A parked frame is never left without a timer, however the receive       *)
(* tasklet, the timeout handler and the removal of the station interleave. *)
THEOREM ParkedFramesHaveTimer == Spec => []PendingHasTimer
<1>1. Init => TimerInv
  BY DEF Init, TimerInv, PendingHasTimer
<1>2. TypeOK /\ TimerInv /\ [Next]_vars => TimerInv'
  <2> SUFFICES ASSUME TypeOK, TimerInv, [Next]_vars PROVE TimerInv'
    OBVIOUS
  <2>1. FlagsOK /\ ControlOK /\ FlagsOK' /\ ControlOK'
    BY FlagsStep, ControlStep DEF TypeOK
  <2> USE <2>1 DEF TimerInv, PendingHasTimer, FlagsOK, ControlOK
  <2>2. CASE Receive
    <3>1. ASSUME NEW n \in (hi - WSize + 1)..(hi + MaxGap), recv_func_posthandle(n)
          PROVE TimerInv'
      BY <3>1 DEF recv_func_posthandle, TaskletMayStart
    <3>2. CASE recv_direct
      BY <3>2 DEF recv_direct
    <3>6. ASSUME NEW n \in (hi - 2 * WSize + 1)..(hi + MaxGap + 1), rtw_process_bar_frame(n)
          PROVE TimerInv'
      BY <3>6 DEF rtw_process_bar_frame, ctxVars
    <3>3. CASE recv_indicatepkt_reorder
      BY <3>3 DEF recv_indicatepkt_reorder
    <3>4. CASE recv_reorder_done
      BY <3>4 DEF recv_reorder_done
    <3>5. CASE recv_cancel_timer
      BY <3>5 DEF recv_cancel_timer
    <3> QED
      BY <2>2, <3>1, <3>2, <3>3, <3>4, <3>5, <3>6 DEF Receive
  <2>3. CASE recv_indicatepkts_in_order
    BY <2>3 DEF recv_indicatepkts_in_order, HeadIsDue, ctxVars
  <2>4. CASE Timer
    <3>1. CASE reordering_ctrl_timer_fires
      BY <3>1 DEF reordering_ctrl_timer_fires, TimerMayStart
    <3>2. CASE rtw_reordering_ctrl_timeout_handler
      BY <3>2 DEF rtw_reordering_ctrl_timeout_handler
    <3>3. CASE timeout_handler_done
      BY <3>3 DEF timeout_handler_done
    <3> QED
      BY <2>4, <3>1, <3>2, <3>3 DEF Timer
  <2>5. CASE Process
    BY <2>5 DEF Process, issue_addba_rsp_wait_ack, add_ba_rsp_set_bit, add_ba_rsp_hdl,
         delba, rtw_joinbss_update_stainfo, rtw_free_stainfo,
         rtw_free_stainfo_cancel, rtw_free_stainfo_flush, rtw_alloc_stainfo,
         rtw_set_drv_stopped, rtw_clr_drv_stopped, drvVars, ctxVars
  <2>6. CASE UNCHANGED vars
    BY <2>6 DEF vars, drvVars, ctxVars
  <2> QED
    BY <2>2, <2>3, <2>4, <2>5, <2>6 DEF Next
<1>3. TimerInv => PendingHasTimer
  BY DEF TimerInv
<1> QED
  BY <1>1, <1>2, <1>3, TypeCorrect, PTL DEF Spec

(* On one CPU a station that rtw_free_stainfo has put on the free list has *)
(* no parked frame, no armed timer and no running handler.                 *)
THEOREM FreedStationIsQuiet ==
  ASSUME SMP = FALSE
  PROVE  Spec => []FreedIsQuiet
<1>1. Init => QuietInv
  BY DEF Init, QuietInv, FreedIsQuiet
<1>2. TypeOK /\ QuietInv /\ [Next]_vars => QuietInv'
  <2> SUFFICES ASSUME TypeOK, QuietInv, [Next]_vars PROVE QuietInv'
    OBVIOUS
  <2>1. FlagsOK /\ ControlOK /\ FlagsOK' /\ ControlOK'
    BY FlagsStep, ControlStep DEF TypeOK
  <2> USE <2>1, SMP = FALSE DEF QuietInv, FreedIsQuiet, FlagsOK, ControlOK
  <2>2. CASE Receive
    <3>1. UNCHANGED <<sta, cmdPc, tmrPc>> /\ sta = "hashed"
      BY <2>2 DEF Receive, recv_func_posthandle, rtw_process_bar_frame, ctxVars, recv_direct,
           recv_indicatepkt_reorder, recv_reorder_done, recv_cancel_timer
    <3> QED
      BY <2>2, <3>1 DEF Receive, recv_func_posthandle, rtw_process_bar_frame, ctxVars,
           TaskletMayStart, recv_direct, recv_indicatepkt_reorder, recv_reorder_done,
           recv_cancel_timer
  <2>6. CASE recv_indicatepkts_in_order
    BY <2>6 DEF recv_indicatepkts_in_order, HeadIsDue, ctxVars
  <2>3. CASE Timer
    BY <2>3 DEF Timer, reordering_ctrl_timer_fires, rtw_reordering_ctrl_timeout_handler,
         timeout_handler_done, TimerMayStart
  <2>4. CASE Process
    BY <2>4 DEF Process, ProcessMayRun, issue_addba_rsp_wait_ack, add_ba_rsp_set_bit,
         add_ba_rsp_hdl, delba, rtw_joinbss_update_stainfo, rtw_free_stainfo,
         rtw_free_stainfo_cancel, rtw_free_stainfo_flush, rtw_alloc_stainfo,
         rtw_set_drv_stopped, rtw_clr_drv_stopped, drvVars, ctxVars
  <2>5. CASE UNCHANGED vars
    BY <2>5 DEF vars, drvVars, ctxVars
  <2> QED
    BY <2>2, <2>3, <2>4, <2>5, <2>6 DEF Next
<1>3. QuietInv => FreedIsQuiet
  BY DEF QuietInv
<1> QED
  BY <1>1, <1>2, <1>3, TypeCorrect, PTL DEF Spec

-----------------------------------------------------------------------------
(* Arithmetic modulo the sequence space.                                   *)

LEMMA Division ==
  ASSUME NEW a \in Int
  PROVE  /\ a \div SN \in Int /\ a % SN \in Int /\ 0 <= a % SN /\ a % SN < SN
         /\ a = SN * (a \div SN) + (a % SN)
<1>1. SN \in Nat /\ SN >= 2
  BY Half, Zenon
<1> QED
  BY <1>1

(* 0xFFFF is not the number of a frame.                                    *)
LEMMA IsSet ==
  ASSUME NEW a \in Int
  PROVE  a % SN # Unset
<1>1. SN \in 2..Unset /\ Unset \in Int
  BY SeqSpaceAssumption, UnsetType
<1>2. PICK r \in Int : r = a % SN /\ r < SN
  BY Division
<1> QED
  BY <1>1, <1>2

LEMMA Multiple ==
  ASSUME NEW n \in Nat, NEW q \in Int
  PROVE  /\ q >= 1 => n * q >= n
         /\ q <= -1 => n * q <= -n
         /\ q = 0 => n * q = 0
OBVIOUS

LEMMA Distributes ==
  ASSUME NEW n \in Nat, NEW p \in Int, NEW q \in Int
  PROVE  n * p - n * q = n * (p - q)
OBVIOUS

(* Quotient and remainder are unique.                                      *)
LEMMA ModIs ==
  ASSUME NEW a \in Int, NEW q \in Int, NEW r \in Int, 0 <= r, r < SN, a = SN * q + r
  PROVE  a % SN = r
<1>1. PICK p \in Int : p = a \div SN
  BY Division
<1>2. PICK s \in Int : s = a % SN
  BY Division
<1>3. 0 <= s /\ s < SN /\ a = SN * p + s
  BY <1>1, <1>2, Division
<1>4. SN * p - SN * q = r - s /\ SN * p \in Int /\ SN * q \in Int
  BY <1>3, Half
<1>5. SN * (p - q) = r - s
  BY <1>4, Distributes, Half
<1>6. PICK d \in Int : d = p - q
  OBVIOUS
<1>7. SN * d = r - s
  BY <1>5, <1>6
<1>8. ~(d >= 1) /\ ~(d <= -1)
  BY <1>3, <1>7, Multiple, Half
<1>9. d = 0
  BY <1>8
<1>10. SN * d = 0
  BY <1>9, Multiple, Half
<1> QED
  BY <1>2, <1>3, <1>7, <1>10

(* The numbers of two frames are as far apart as the frames.               *)
LEMMA DiffMod ==
  ASSUME NEW a \in Int, NEW b \in Int
  PROVE  /\ 0 <= a - b /\ a - b < SN => ((a % SN) - (b % SN)) % SN = a - b
         /\ -SN <= a - b /\ a - b < 0 => ((a % SN) - (b % SN)) % SN = a - b + SN
<1>1. PICK p \in Int, s \in Int : p = a \div SN /\ s = a % SN
  BY Division
<1>2. PICK q \in Int, t \in Int : q = b \div SN /\ t = b % SN
  BY Division
<1>3. a = SN * p + s /\ b = SN * q + t
  BY <1>1, <1>2, Division
<1>4. SN * q - SN * p = SN * (q - p) /\ SN * q \in Int /\ SN * p \in Int
  BY Distributes, Half
<1>5. s - t = SN * (q - p) + (a - b)
  BY <1>3, <1>4
<1>6. SN * (q - p) - SN * 1 = SN * ((q - p) - 1) /\ SN * 1 = SN
  BY Distributes, Half
<1>7. s - t = SN * ((q - p) - 1) + (a - b + SN)
  <2>1. SN * (q - p) \in Int /\ SN \in Int
    BY Half
  <2> QED
    BY <1>5, <1>6, <2>1
<1>8. 0 <= a - b /\ a - b < SN => (s - t) % SN = a - b
  BY <1>5, ModIs
<1>9. -SN <= a - b /\ a - b < 0 => (s - t) % SN = a - b + SN
  <2>1. ASSUME -SN <= a - b, a - b < 0 PROVE 0 <= a - b + SN /\ a - b + SN < SN /\ a - b + SN \in Int
    BY <2>1, Half
  <2> QED
    BY <1>7, <2>1, ModIs
<1> QED
  BY <1>1, <1>2, <1>8, <1>9

(* The driver's comparison is one of ages for frames that are close.       *)
LEMMA LessIsOlder ==
  ASSUME NEW a \in Int, NEW b \in Int, a - b < SN \div 2, b - a <= SN \div 2
  PROVE  SN_LESS(a % SN, b % SN) <=> a < b
<1>1. PICK h \in Nat : h = SN \div 2
  BY Half
<1>2. SN = 2 * h /\ h >= 1 /\ a - b < h /\ b - a <= h
  BY <1>1, Half
<1>3. CASE a >= b
  <2>1. ((a % SN) - (b % SN)) % SN = a - b
    <3>1. 0 <= a - b /\ a - b < SN
      BY <1>1, <1>2, <1>3
    <3> QED
      BY <3>1, DiffMod
  <2> QED
    BY <1>1, <1>2, <1>3, <2>1 DEF SN_LESS
<1>4. CASE a < b
  <2>1. ((a % SN) - (b % SN)) % SN = a - b + SN
    <3>1. -SN <= a - b /\ a - b < 0
      BY <1>1, <1>2, <1>4
    <3> QED
      BY <3>1, DiffMod
  <2> QED
    BY <1>1, <1>2, <1>4, <2>1 DEF SN_LESS
<1> QED
  BY <1>3, <1>4

LEMMA SameNumber ==
  ASSUME NEW a \in Int, NEW b \in Int, a - b < SN, b - a < SN, a % SN = b % SN
  PROVE  a = b
<1>1. PICK s \in Int : s = a % SN /\ s = b % SN
  BY Division
<1>2. (s - s) % SN = 0
  BY ModIs, Half
<1>3. 0 <= a - b \/ (-SN <= a - b /\ a - b < 0)
  BY Half
<1> QED
  BY <1>1, <1>2, <1>3, DiffMod, Half

LEMMA AddMod ==
  ASSUME NEW a \in Int, NEW k \in Int
  PROVE  ((a % SN) + k) % SN = (a + k) % SN
<1>1. PICK p \in Int, s \in Int : p = a \div SN /\ s = a % SN /\ a = SN * p + s
  BY Division
<1>2. PICK c \in Int : c = a + k
  OBVIOUS
<1>3. PICK q \in Int, t \in Int : t = c % SN /\ c = SN * q + t /\ 0 <= t /\ t < SN
  BY Division
<1>4. SN * q - SN * p = SN * (q - p) /\ SN * q \in Int /\ SN * p \in Int
  BY Distributes, Half
<1>5. s + k = SN * (q - p) + t
  <2>1. PICK x \in Int, y \in Int : x = SN * q /\ y = SN * p
    BY <1>4
  <2>2. c = x + t /\ a = y + s /\ SN * (q - p) = x - y
    BY <1>1, <1>3, <1>4, <2>1
  <2>3. s + k = (x - y) + t
    BY <1>2, <2>2
  <2> QED
    BY <2>2, <2>3
<1>6. (s + k) % SN = t
  BY <1>3, <1>5, ModIs
<1> QED
  BY <1>1, <1>2, <1>3, <1>6

(* Another frame with the same number, one sequence space later.           *)
LEMMA OnceMore ==
  ASSUME NEW a \in Int
  PROVE  (a + SN) % SN = a % SN
<1>1. PICK p \in Int, s \in Int : s = a % SN /\ a = SN * p + s /\ 0 <= s /\ s < SN
  BY Division
<1>2. SN * (p + 1) - SN * p = SN * ((p + 1) - p) /\ SN * (p + 1) \in Int /\ SN * p \in Int
  BY Distributes, Half
<1>3. SN * ((p + 1) - p) = SN
  <2>1. (p + 1) - p = 1 /\ SN * 1 = SN
    BY Half
  <2> QED
    BY <2>1
<1>4. a + SN = SN * (p + 1) + s
  <2>1. PICK x \in Int, y \in Int : x = SN * (p + 1) /\ y = SN * p
    BY <1>2
  <2>2. a = y + s /\ x - y = SN /\ SN \in Int
    BY <1>1, <1>2, <1>3, <2>1, Half
  <2>3. a + SN = x + s
    BY <2>2
  <2> QED
    BY <2>1, <2>3
<1>5. a + SN \in Int
  BY Half
<1> QED
  BY <1>1, <1>4, <1>5, ModIs

LEMMA ShiftIsMod ==
  ASSUME NEW n \in Int
  PROVE  ShiftTo(n % SN) = (n + 1 - WSize) % SN
<1>1. PICK s \in Int : s = n % SN /\ 0 <= s /\ s < SN
  BY Division
<1>2. (n + (1 - WSize)) % SN = (s + (1 - WSize)) % SN
  <2>1. 1 - WSize \in Int
    BY Half
  <2>2. ((n % SN) + (1 - WSize)) % SN = (n + (1 - WSize)) % SN
    BY <2>1, AddMod
  <2> QED
    BY <1>1, <2>2
<1>3. n + (1 - WSize) = n + 1 - WSize /\ s + (1 - WSize) = s + 1 - WSize
  BY Half
<1>4. CASE s >= WSize - 1
  <2>1. s + 1 - WSize = SN * 0 + (s + 1 - WSize)
    BY Half
  <2>2. 0 <= s + 1 - WSize /\ s + 1 - WSize < SN /\ s + 1 - WSize \in Int
    BY <1>1, <1>4, Half
  <2>3. (s + 1 - WSize) % SN = s + 1 - WSize
    BY <2>1, <2>2, ModIs
  <2> QED
    BY <1>1, <1>2, <1>3, <1>4, <2>3 DEF ShiftTo
<1>5. CASE ~(s >= WSize - 1)
  <2>1. SN * (-1) = -SN
    BY Half
  <2>2. s + 1 - WSize = SN * (-1) + (s + 1 - WSize + SN)
    BY <2>1, Half
  <2>3. /\ 0 <= s + 1 - WSize + SN /\ s + 1 - WSize + SN < SN
        /\ s + 1 - WSize + SN \in Int /\ s + 1 - WSize \in Int
    BY <1>1, <1>5, Half
  <2>4. (s + 1 - WSize) % SN = s + 1 - WSize + SN
    BY <2>2, <2>3, ModIs
  <2>5. (SN - 1) - (WSize - (s + 1)) + 1 = s + 1 - WSize + SN
    BY Half
  <2> QED
    BY <1>1, <1>2, <1>3, <1>5, <2>4, <2>5 DEF ShiftTo
<1> QED
  BY <1>4, <1>5

-----------------------------------------------------------------------------
(* The queue of parked frames is sorted by age.                            *)

Sorted(q) == \A i, j \in 1..Len(q) : i < j => q[i] < q[j]

LEMMA InsertShape ==
  ASSUME NEW q \in Seq(Nat), NEW n \in Nat, NEW r, r = enqueue_reorder_recvframe(q, n),
         NEW k, k = InsertPos(q, n)
  PROVE  /\ r \in Seq(Nat) /\ Len(r) = Len(q) + 1 /\ Len(q) \in Nat /\ k \in 0..Len(q)
         /\ \A i \in 1..Len(r) :
              /\ i <= k => i \in 1..Len(q) /\ r[i] = q[i]
              /\ i = k + 1 => r[i] = n
              /\ i > k + 1 => i - 1 \in 1..Len(q) /\ r[i] = q[i - 1]
<1>1. r \in Seq(Nat) /\ k \in 0..Len(q)
  BY EnqueueType, InsertPosExists
<1>2. r = [i \in 1..(Len(q) + 1) |->
             IF i <= k THEN q[i] ELSE IF i = k + 1 THEN n ELSE q[i - 1]]
  BY DEF enqueue_reorder_recvframe
<1>3. DOMAIN r = 1..(Len(q) + 1) /\ Len(q) \in Nat
  BY <1>2
<1>4. Len(r) = Len(q) + 1
  BY <1>1, <1>3
<1> QED
  BY <1>1, <1>2, <1>3, <1>4

LEMMA InsertMembers ==
  ASSUME NEW q \in Seq(Nat), NEW n \in Nat, NEW r, r = enqueue_reorder_recvframe(q, n),
         NEW i \in 1..Len(r)
  PROVE  r[i] = n \/ \E j \in 1..Len(q) : r[i] = q[j]
<1>1. PICK k : k = InsertPos(q, n)
  OBVIOUS
<1>2. /\ Len(r) = Len(q) + 1 /\ Len(q) \in Nat /\ k \in 0..Len(q)
      /\ i <= k => i \in 1..Len(q) /\ r[i] = q[i]
      /\ i = k + 1 => r[i] = n
      /\ i > k + 1 => i - 1 \in 1..Len(q) /\ r[i] = q[i - 1]
  BY <1>1, InsertShape
<1>3. i <= k \/ i = k + 1 \/ i > k + 1
  BY <1>2
<1> QED
  BY <1>2, <1>3

(* enqueue_reorder_recvframe compares numbers; for frames less than half   *)
(* of the sequence space apart the queue stays sorted by age.              *)
LEMMA SortedInsert ==
  ASSUME NEW q \in Seq(Nat), NEW n \in Nat, Sorted(q), ~IsDuplicate(q, n),
         \A i \in 1..Len(q) : q[i] - n < SN \div 2 /\ n - q[i] < SN \div 2,
         NEW r, r = enqueue_reorder_recvframe(q, n)
  PROVE  /\ r \in Seq(Nat) /\ Sorted(r)
         /\ \A i \in 1..Len(r) : r[i] = n \/ \E j \in 1..Len(q) : r[i] = q[j]
<1>1. PICK k : k = InsertPos(q, n)
  OBVIOUS
<1>2. /\ r \in Seq(Nat) /\ Len(r) = Len(q) + 1 /\ Len(q) \in Nat /\ k \in 0..Len(q)
      /\ \A i \in 1..Len(r) :
           /\ i <= k => i \in 1..Len(q) /\ r[i] = q[i]
           /\ i = k + 1 => r[i] = n
           /\ i > k + 1 => i - 1 \in 1..Len(q) /\ r[i] = q[i - 1]
  BY <1>1, InsertShape
<1>3. /\ \A i \in 1..k : SN_LESS(seq_num(q[i]), seq_num(n))
      /\ k < Len(q) => ~SN_LESS(seq_num(q[k + 1]), seq_num(n))
      /\ k < Len(q) => seq_num(q[k + 1]) # seq_num(n)
  BY <1>1, InsertPosExists DEF IsDuplicate
<1>4. ASSUME NEW i \in 1..Len(q) PROVE SN_LESS(seq_num(q[i]), seq_num(n)) <=> q[i] < n
  <2>1. q[i] \in Int /\ n \in Int /\ q[i] - n < SN \div 2 /\ n - q[i] <= SN \div 2
    BY <1>4, Half
  <2> QED
    BY <2>1, LessIsOlder DEF seq_num
<1>5. \A i \in 1..k : i \in 1..Len(q) /\ q[i] < n
  <2>1. k \in 0..Len(q) /\ Len(q) \in Nat
    BY <1>2
  <2>2. \A i \in 1..k : i \in 1..Len(q)
    BY <2>1
  <2> QED
    BY <1>3, <1>4, <2>2
<1>6. k < Len(q) => k + 1 \in 1..Len(q) /\ n < q[k + 1]
  <2>1. ASSUME k < Len(q) PROVE k + 1 \in 1..Len(q) /\ n < q[k + 1]
    <3>0. k \in 0..Len(q) /\ Len(q) \in Nat
      BY <1>2
    <3>1. k + 1 \in 1..Len(q) /\ q[k + 1] \in Nat
      BY <2>1, <3>0
    <3>2. q[k + 1] # n /\ ~(q[k + 1] < n)
      BY <1>3, <1>4, <2>1, <3>1
    <3> QED
      BY <3>1, <3>2
  <2> QED
    BY <2>1
<1>7. \A i \in 1..Len(q) : i > k => n < q[i]
  <2> SUFFICES ASSUME NEW i \in 1..Len(q), i > k PROVE n < q[i]
    OBVIOUS
  <2>1. k < Len(q) /\ (i = k + 1 \/ k + 1 < i)
    BY <1>2
  <2>2. n < q[k + 1] /\ k + 1 \in 1..Len(q)
    BY <1>6, <2>1
  <2>3. k + 1 < i => q[k + 1] < q[i]
    BY <2>2 DEF Sorted
  <2>4. PICK a \in Nat, b \in Nat : a = q[k + 1] /\ b = q[i]
    BY <2>2
  <2>5. n < a /\ (a = b \/ a < b)
    BY <2>1, <2>2, <2>3, <2>4
  <2>6. n < b
    BY <2>5
  <2> QED
    BY <2>4, <2>6
<1>8. Sorted(r)
  <2> SUFFICES ASSUME NEW i \in 1..Len(r), NEW j \in 1..Len(r), i < j PROVE r[i] < r[j]
    BY DEF Sorted
  <2>0. i \in Int /\ j \in Int /\ k \in Int
    BY <1>2
  <2>1. CASE j <= k
    <3>1. i \in 1..Len(q) /\ j \in 1..Len(q) /\ r[i] = q[i] /\ r[j] = q[j]
      BY <1>2, <2>0, <2>1
    <3> QED
      BY <3>1 DEF Sorted
  <2>2. CASE j = k + 1
    <3>1. i \in 1..k /\ r[i] = q[i] /\ r[j] = n
      BY <1>2, <2>0, <2>2
    <3> QED
      BY <1>5, <3>1
  <2>3. CASE j > k + 1
    <3>1. j - 1 \in 1..Len(q) /\ r[j] = q[j - 1] /\ j - 1 > k
      BY <1>2, <2>0, <2>3
    <3>2. n < q[j - 1]
      BY <1>7, <3>1
    <3>3. CASE i <= k
      <4>1. i \in 1..Len(q) /\ r[i] = q[i] /\ i < j - 1
        BY <1>2, <2>0, <2>3, <3>3
      <4> QED
        BY <3>1, <4>1 DEF Sorted
    <3>4. CASE i = k + 1
      BY <1>2, <3>1, <3>2, <3>4
    <3>5. CASE i > k + 1
      <4>1. i - 1 \in 1..Len(q) /\ r[i] = q[i - 1] /\ i - 1 < j - 1
        BY <1>2, <2>0, <3>5
      <4> QED
        BY <3>1, <4>1 DEF Sorted
    <3> QED
      BY <2>0, <3>3, <3>4, <3>5
  <2> QED
    BY <2>0, <2>1, <2>2, <2>3
<1>9. ASSUME NEW i \in 1..Len(r) PROVE r[i] = n \/ \E j \in 1..Len(q) : r[i] = q[j]
  BY <1>9, InsertMembers
<1> QED
  BY <1>2, <1>8, <1>9

LEMMA TailShape ==
  ASSUME NEW q \in Seq(Nat), q # <<>>, NEW r, r = Tail(q)
  PROVE  /\ r \in Seq(Nat) /\ Len(q) \in Nat /\ Len(q) >= 1 /\ Len(r) = Len(q) - 1
         /\ Head(q) = q[1] /\ q[1] \in Nat
         /\ \A i \in 1..Len(r) : i + 1 \in 1..Len(q) /\ r[i] = q[i + 1] /\ q[i + 1] \in Nat
OBVIOUS

(* Sorted frames within a span of w are at most w.                         *)
LEMMA SortedSpan ==
  ASSUME NEW q \in Seq(Nat), Sorted(q), NEW i \in 1..Len(q)
  PROVE  q[i] >= q[1] + i - 1
<1> DEFINE T == {j \in 1..Len(q) : ~(q[j] >= q[1] + j - 1)}
<1>1. SUFFICES ASSUME T # {} PROVE FALSE
  OBVIOUS
<1>2. T \subseteq Nat
  OBVIOUS
<1>3. \E x \in T : \A y \in T : ~(<<y, x>> \in OpToRel(<, Nat))
  BY <1>1, <1>2, NatLessThanWellFounded, WFMin
<1>4. PICK x \in T : \A y \in T : ~(y < x)
  BY <1>2, <1>3 DEF OpToRel
<1>5. x \in 1..Len(q) /\ q[x] \in Nat /\ 1 \in 1..Len(q) /\ q[1] \in Nat
  OBVIOUS
<1>6. x # 1
  BY <1>5
<1>7. x - 1 \in 1..Len(q) /\ x - 1 < x /\ q[x - 1] \in Nat
  BY <1>5, <1>6
<1>8. x - 1 \notin T
  BY <1>4, <1>7
<1>9. q[x - 1] >= q[1] + (x - 1) - 1
  BY <1>7, <1>8
<1>10. q[x - 1] < q[x]
  BY <1>5, <1>7 DEF Sorted
<1>11. q[x] >= q[1] + x - 1
  <2>1. PICK a \in Nat, b \in Nat, c \in Nat : a = q[x] /\ b = q[x - 1] /\ c = q[1]
    BY <1>5, <1>7
  <2>2. b >= c + (x - 1) - 1 /\ b < a /\ x \in Nat
    BY <1>5, <1>9, <1>10, <2>1
  <2>3. a >= c + x - 1
    BY <2>2
  <2> QED
    BY <2>1, <2>3
<1> QED
  BY <1>11

(* The head of the queue is the oldest parked frame.                       *)
LEMMA HeadIsOldest ==
  ASSUME TypeOK, SortInv, NEW i \in 1..Len(pending)
  PROVE  /\ pending # <<>> /\ Head(pending) \in Nat /\ 1 \in 1..Len(pending)
         /\ Head(pending) = pending[1] /\ pending[i] \in Nat
         /\ Head(pending) <= pending[i] /\ (i # 1 => Head(pending) < pending[i])
<1>1. /\ pending # <<>> /\ Head(pending) \in Nat /\ 1 \in 1..Len(pending)
      /\ Head(pending) = pending[1] /\ pending[i] \in Nat /\ i \in Nat /\ (i = 1 \/ 1 < i)
  BY DEF TypeOK, DataOK
<1>2. 1 < i => pending[1] < pending[i]
  BY <1>1 DEF SortInv
<1> QED
  BY <1>1, <1>2

(* Steps that neither park a frame nor bring one.                          *)
LEMMA SortKept ==
  ASSUME SortInv, UNCHANGED <<hi, rxFrame>>, pending' \in {pending, <<>>},
         rxPc' \in {"lock", "direct"} => rxPc' = rxPc
  PROVE  SortInv'
<1>1. CASE pending' = pending
  BY <1>1 DEF SortInv
<1>2. CASE pending' = <<>>
  <2>1. Len(pending') = 0
    BY <1>2
  <2>2. \A i \in 1..Len(pending') : FALSE
    BY <2>1
  <2> QED
    BY <2>2 DEF SortInv
<1> QED
  BY <1>1, <1>2

LEMMA SortArrival ==
  ASSUME TypeOK, SortInv, NEW n, recv_func_posthandle(n)
  PROVE  SortInv'
<1>1. /\ n \in Nat /\ n > hi - WSize
      /\ pending # <<>> => n - Head(pending) < (SN \div 2) - 1
      /\ hi' = (IF n > hi THEN n ELSE hi) /\ rxFrame' = n /\ pending' = pending
  BY DEF recv_func_posthandle, MayArrive
<1>2. hi \in Int /\ pending \in Seq(Nat)
  BY DEF TypeOK, DataOK
<1>3. PICK h \in Nat : h = SN \div 2 /\ WSize < h - 1
  BY Half
<1>4. hi' \in Int /\ n <= hi' /\ hi <= hi' /\ hi' - n < WSize
  <2>1. PICK g \in Int : g = hi
    BY <1>2
  <2>2. CASE n > g
    BY <1>1, <2>1, <2>2, Half
  <2>3. CASE ~(n > g)
    BY <1>1, <2>1, <2>3, Half
  <2> QED
    BY <2>2, <2>3
<1>5. ASSUME NEW i \in 1..Len(pending)
      PROVE  pending[i] <= hi' /\ hi' - pending[i] < (SN \div 2) - 1
  <2>1. PICK p \in Nat : p = pending[i]
    BY <1>2
  <2>2. PICK f \in Nat : f = pending[1] /\ f = Head(pending) /\ pending # <<>>
    BY <1>2, <1>5
  <2>3. 1 \in 1..Len(pending) /\ (i = 1 \/ 1 < i)
    BY <1>2, <1>5
  <2>4. f <= p
    BY <1>5, <2>1, <2>2, <2>3 DEF SortInv
  <2>5. p <= hi /\ hi - p < h - 1
    BY <1>3, <1>5, <2>1 DEF SortInv
  <2>6. n - f < h - 1
    BY <1>1, <1>3, <2>2
  <2>7. hi' = n \/ hi' = hi
    BY <1>1
  <2>8. p <= hi' /\ hi' - p < h - 1
    BY <1>1, <1>2, <1>4, <2>4, <2>5, <2>6, <2>7
  <2> QED
    BY <1>3, <2>1, <2>8
<1> QED
  BY <1>1, <1>4, <1>5 DEF SortInv

(* A block ack request may tell of newer frames; the parked ones stay      *)
(* close enough to them.                                                   *)
LEMMA SortBar ==
  ASSUME TypeOK, SortInv, NEW n, rtw_process_bar_frame(n)
  PROVE  SortInv'
<1>1. /\ n \in Nat
      /\ pending # <<>> => n - Head(pending) < (SN \div 2) - 1
      /\ hi' = (IF n - 1 > hi THEN n - 1 ELSE hi) /\ pending' = pending
      /\ rxPc' \notin {"lock", "direct"}
  BY DEF rtw_process_bar_frame, MayBeRequested, TaskletMayStart, ctxVars
<1>2. hi \in Int /\ pending \in Seq(Nat)
  BY DEF TypeOK, DataOK
<1>3. PICK h \in Nat : h = SN \div 2
  BY Half
<1>4. hi' \in Int /\ hi <= hi' /\ (hi' = n - 1 \/ hi' = hi)
  BY <1>1, <1>2
<1>5. ASSUME NEW i \in 1..Len(pending)
      PROVE  pending[i] <= hi' /\ hi' - pending[i] < (SN \div 2) - 1
  <2>1. PICK p \in Nat, f \in Nat : p = pending[i] /\ f = Head(pending) /\ f <= p
    BY HeadIsOldest
  <2>2. p <= hi /\ hi - p < h - 1
    BY <1>3, <2>1 DEF SortInv
  <2>3. n - f < h - 1
    BY <1>1, <1>3, <2>1, HeadIsOldest
  <2>4. PICK g \in Int, k \in Int : g = hi' /\ k = hi
    BY <1>2, <1>4
  <2>5. k <= g /\ (g = n - 1 \/ g = k) /\ p <= k /\ k - p < h - 1
    BY <1>4, <2>2, <2>4
  <2>6. p <= g /\ g - p < h - 1
    BY <1>1, <2>1, <2>3, <2>5
  <2> QED
    BY <1>3, <2>1, <2>4, <2>6
<1> QED
  BY <1>1, <1>5 DEF SortInv

LEMMA SortInsertion ==
  ASSUME TypeOK, SortInv, recv_indicatepkt_reorder
  PROVE  SortInv'
<1>1. /\ rxPc = "lock" /\ UNCHANGED <<hi, rxFrame>> /\ rxPc' \in {"idle", "drain"}
      /\ \/ pending' = pending
         \/ ~IsDuplicate(pending, rxFrame) /\ pending' = enqueue_reorder_recvframe(pending, rxFrame)
  BY DEF recv_indicatepkt_reorder
<1>2. CASE pending' = pending
  BY <1>1, <1>2, SortKept
<1>3. CASE ~IsDuplicate(pending, rxFrame) /\ pending' = enqueue_reorder_recvframe(pending, rxFrame)
  <2>1. hi \in Int /\ pending \in Seq(Nat) /\ rxFrame \in Nat
    BY DEF TypeOK, DataOK
  <2>2. PICK h \in Nat : h = SN \div 2 /\ WSize < h - 1
    BY Half
  <2>3. rxFrame <= hi /\ hi - rxFrame < WSize
    BY <1>1 DEF SortInv
  <2>4. ASSUME NEW i \in 1..Len(pending)
        PROVE  /\ pending[i] \in Nat /\ pending[i] <= hi /\ hi - pending[i] < h - 1
    BY <2>1, <2>2, <2>4 DEF SortInv
  <2>5. ASSUME NEW i \in 1..Len(pending)
        PROVE  pending[i] - rxFrame < SN \div 2 /\ rxFrame - pending[i] < SN \div 2
    BY <2>1, <2>2, <2>3, <2>4, <2>5, Half
  <2>6. Sorted(pending)
    BY DEF Sorted, SortInv
  <2>7. PICK r : r = pending'
    OBVIOUS
  <2>8. /\ r \in Seq(Nat) /\ Sorted(r)
        /\ \A i \in 1..Len(r) : r[i] = rxFrame \/ \E j \in 1..Len(pending) : r[i] = pending[j]
    BY <1>3, <2>1, <2>5, <2>6, <2>7, SortedInsert
  <2>9. ASSUME NEW i \in 1..Len(r) PROVE r[i] <= hi /\ hi - r[i] < h - 1
    <3>1. CASE r[i] = rxFrame
      <4>1. rxFrame <= hi /\ hi - rxFrame < h - 1
        BY <2>1, <2>2, <2>3, Half
      <4> QED
        BY <3>1, <4>1
    <3>2. CASE \E j \in 1..Len(pending) : r[i] = pending[j]
      BY <2>4, <3>2
    <3> QED
      BY <2>8, <2>9, <3>1, <3>2
  <2> QED
    BY <1>1, <2>2, <2>7, <2>8, <2>9 DEF SortInv, Sorted
<1> QED
  BY <1>1, <1>2, <1>3

LEMMA SortDelivery ==
  ASSUME TypeOK, SortInv, recv_indicatepkts_in_order
  PROVE  SortInv'
<1>1. /\ pending # <<>> /\ pending' = Tail(pending) /\ UNCHANGED <<hi, rxFrame, rxPc>>
  BY DEF recv_indicatepkts_in_order, HeadIsDue, ctxVars
<1>2. pending \in Seq(Nat)
  BY DEF TypeOK, DataOK
<1>3. PICK r : r = pending'
  OBVIOUS
<1>4. /\ r \in Seq(Nat) /\ Len(r) \in Nat
      /\ \A i \in 1..Len(r) : i + 1 \in 1..Len(pending) /\ r[i] = pending[i + 1]
  BY <1>1, <1>2, <1>3, TailShape
<1>5. ASSUME NEW i \in 1..Len(r), NEW j \in 1..Len(r), i < j PROVE r[i] < r[j]
  <2>1. i + 1 < j + 1
    BY <1>4, <1>5
  <2> QED
    BY <1>4, <1>5, <2>1 DEF SortInv
<1>6. ASSUME NEW i \in 1..Len(r) PROVE r[i] <= hi /\ hi - r[i] < (SN \div 2) - 1
  BY <1>4, <1>6 DEF SortInv
<1> QED
  BY <1>1, <1>3, <1>5, <1>6 DEF SortInv

LEMMA SortStep == TypeOK /\ SortInv /\ [Next]_vars => SortInv'
<1> SUFFICES ASSUME TypeOK, SortInv, [Next]_vars PROVE SortInv'
  OBVIOUS
<1>1. ASSUME NEW n, recv_func_posthandle(n) PROVE SortInv'
  BY <1>1, SortArrival
<1>5. ASSUME NEW n, rtw_process_bar_frame(n) PROVE SortInv'
  BY <1>5, SortBar
<1>2. CASE recv_indicatepkt_reorder
  BY <1>2, SortInsertion
<1>3. CASE recv_indicatepkts_in_order
  BY <1>3, SortDelivery
<1>4. CASE \/ recv_direct \/ recv_reorder_done \/ recv_cancel_timer
           \/ Timer \/ Process \/ UNCHANGED vars
  <2>1. UNCHANGED <<hi, rxFrame>>
    BY <1>4 DEF recv_direct, recv_reorder_done, recv_cancel_timer, Timer, Process,
         reordering_ctrl_timer_fires, rtw_reordering_ctrl_timeout_handler, timeout_handler_done,
         issue_addba_rsp_wait_ack, add_ba_rsp_set_bit, add_ba_rsp_hdl, delba,
         rtw_joinbss_update_stainfo, rtw_free_stainfo, rtw_free_stainfo_cancel,
         rtw_free_stainfo_flush, rtw_alloc_stainfo, rtw_set_drv_stopped, rtw_clr_drv_stopped,
         vars, drvVars, ctxVars
  <2>2. pending' \in {pending, <<>>}
    BY <1>4 DEF recv_direct, recv_reorder_done, recv_cancel_timer, Timer, Process,
         reordering_ctrl_timer_fires, rtw_reordering_ctrl_timeout_handler, timeout_handler_done,
         issue_addba_rsp_wait_ack, add_ba_rsp_set_bit, add_ba_rsp_hdl, delba,
         rtw_joinbss_update_stainfo, rtw_free_stainfo, rtw_free_stainfo_cancel,
         rtw_free_stainfo_flush, rtw_alloc_stainfo, rtw_set_drv_stopped, rtw_clr_drv_stopped,
         vars, drvVars, ctxVars
  <2>3. rxPc' \in {rxPc, "idle", "cancel"}
    BY <1>4 DEF recv_direct, recv_reorder_done, recv_cancel_timer, Timer, Process,
         reordering_ctrl_timer_fires, rtw_reordering_ctrl_timeout_handler, timeout_handler_done,
         issue_addba_rsp_wait_ack, add_ba_rsp_set_bit, add_ba_rsp_hdl, delba,
         rtw_joinbss_update_stainfo, rtw_free_stainfo, rtw_free_stainfo_cancel,
         rtw_free_stainfo_flush, rtw_alloc_stainfo, rtw_set_drv_stopped, rtw_clr_drv_stopped,
         vars, drvVars, ctxVars
  <2> QED
    BY <2>1, <2>2, <2>3, SortKept
<1> QED
  BY <1>1, <1>2, <1>3, <1>4, <1>5 DEF Next, Receive

LEMMA OneContextStep ==
  ASSUME SMP = FALSE
  PROVE  TypeOK /\ OneContext /\ [Next]_vars => OneContext'
<1> SUFFICES ASSUME TypeOK, OneContext, [Next]_vars PROVE OneContext'
  OBVIOUS
<1>1. ControlOK
  BY DEF TypeOK
<1> USE <1>1 DEF OneContext, ControlOK
<1>2. CASE Receive
  BY <1>2 DEF Receive, recv_func_posthandle, rtw_process_bar_frame, ctxVars, TaskletMayStart,
       recv_direct, recv_indicatepkt_reorder, recv_reorder_done, recv_cancel_timer
<1>3. CASE recv_indicatepkts_in_order
  BY <1>3 DEF recv_indicatepkts_in_order, ctxVars
<1>4. CASE Timer
  BY <1>4 DEF Timer, TimerMayStart, reordering_ctrl_timer_fires,
       rtw_reordering_ctrl_timeout_handler, timeout_handler_done
<1>5. CASE Process
  BY <1>5 DEF Process, ProcessMayRun, issue_addba_rsp_wait_ack, add_ba_rsp_set_bit,
       add_ba_rsp_hdl, delba, rtw_joinbss_update_stainfo, rtw_free_stainfo,
       rtw_free_stainfo_cancel, rtw_free_stainfo_flush, rtw_alloc_stainfo,
       rtw_set_drv_stopped, rtw_clr_drv_stopped, drvVars, ctxVars
<1>6. CASE UNCHANGED vars
  BY <1>6 DEF vars, drvVars, ctxVars
<1> QED
  BY <1>2, <1>3, <1>4, <1>5, <1>6 DEF Next

-----------------------------------------------------------------------------
(* The window and the frames in it.                                        *)

(* The loop's test of the head, made on numbers: a head that the window    *)
(* start has reached is due, and while the window is in order no other is. *)
LEMMA DueIsReached ==
  ASSUME TypeOK, SortInv, NEW w \in Int, hi + 2 - SN <= w, w <= hi + 1, StartsAt(w),
         pending # <<>>
  PROVE  /\ Head(pending) <= w => HeadIsDue
         /\ ordered /\ HeadIsDue => Head(pending) <= w
         /\ indicate_seq = seq_num(Head(pending)) => Head(pending) = w
<1>1. PICK f \in Nat : f = Head(pending) /\ f = pending[1] /\ 1 \in 1..Len(pending)
  BY DEF TypeOK, DataOK
<1>2. PICK h \in Nat : h = SN \div 2 /\ WSize < h - 1
  BY Half
<1>3. hi \in Int /\ f <= hi /\ hi - f < h - 1 /\ (ordered => f - w < WSize)
  BY <1>1, <1>2 DEF TypeOK, DataOK, SortInv, StartsAt
<1>4. w - f < SN \div 2 /\ w - f < SN /\ f - w < SN
  BY <1>2, <1>3, Half
<1>5. HeadIsDue <=> ~SN_LESS(w % SN, f % SN)
  BY <1>1 DEF HeadIsDue, StartsAt, seq_num
<1>6. f <= w => HeadIsDue
  <2>1. f <= w => f - w <= SN \div 2
    BY <1>2
  <2>2. f <= w => ~SN_LESS(w % SN, f % SN)
    BY <1>4, <2>1, LessIsOlder
  <2> QED
    BY <1>5, <2>2
<1>7. ordered /\ HeadIsDue => f <= w
  <2>1. ordered => f - w <= SN \div 2
    BY <1>2, <1>3, Half
  <2>2. ordered => (SN_LESS(w % SN, f % SN) <=> w < f)
    BY <1>4, <2>1, LessIsOlder
  <2> QED
    BY <1>5, <2>2
<1>8. w % SN = f % SN => f = w
  BY <1>4, SameNumber
<1> QED
  BY <1>1, <1>6, <1>7, <1>8 DEF StartsAt, seq_num

(* When the loop ends, what is left is behind the start of the window, and *)
(* inside the window while it is in order.                                 *)
LEMMA LeftInWindow ==
  ASSUME TypeOK, SortInv, NEW w \in Int, hi + 2 - SN <= w, w <= hi + 1, StartsAt(w),
         ~HeadIsDue, NEW i \in 1..Len(pending)
  PROVE  pending[i] \in Nat /\ w < pending[i] /\ (ordered => pending[i] - w < WSize)
<1>1. /\ pending # <<>> /\ Head(pending) \in Nat /\ pending[i] \in Nat
      /\ Head(pending) <= pending[i]
  BY HeadIsOldest
<1>2. ~(Head(pending) <= w)
  BY <1>1, DueIsReached
<1>3. ordered => pending[i] - w < WSize
  BY DEF StartsAt
<1> QED
  BY <1>1, <1>2, <1>3

(* The frame at the window start, if there is a window.                    *)
LEMMA WindowStart ==
  ASSUME WindowInv, TypeOK, indicate_seq # Unset
  PROVE  \E w \in Int : hi + 2 - SN <= w /\ w <= hi + 1 /\ StartsAt(w)
<1>1. hi \in Int /\ SN \in Int
  BY Half DEF TypeOK, DataOK
<1>2. PICK w \in (hi + 2 - SN)..(hi + 1) : StartsAt(w)
  BY DEF WindowInv
<1> QED
  BY <1>1, <1>2

(* A step that touches neither the window nor what is in it.               *)
LEMMA WindowKept ==
  ASSUME WindowInv, UNCHANGED <<indicate_seq, hi, pending, last, ordered, lock, rxFrame>>,
         rxPc' = "direct" => rxPc = "direct"
  PROVE  WindowInv'
BY DEF WindowInv, StartsAt

(* Without a window: after a rejoin or in a new record.                    *)
LEMMA WindowReset ==
  ASSUME WindowInv, indicate_seq' = Unset, ~ordered', pending' \in {pending, <<>>},
         pending' = pending => UNCHANGED lock, lock' = "none", rxPc' # "direct"
  PROVE  WindowInv'
<1>1. CASE pending' = pending
  BY <1>1 DEF WindowInv
<1>2. CASE pending' = <<>>
  <2>1. \A i \in 1..Len(pending') : FALSE
    BY <1>2
  <2> QED
    BY <2>1 DEF WindowInv
<1> QED
  BY <1>1, <1>2

LEMMA WindowFlush ==
  ASSUME TypeOK, WindowInv, UNCHANGED <<indicate_seq, hi, last, ordered, lock, rxFrame, rxPc>>,
         pending' = <<>>
  PROVE  WindowInv'
<1>1. \A i \in 1..Len(pending') : FALSE
  OBVIOUS
<1> QED
  BY <1>1 DEF WindowInv, StartsAt

(* A frame arrives: with an agreement the newest frame moves on, without   *)
(* one the window is put at the frame.                                     *)
LEMMA WindowArrival ==
  ASSUME TypeOK, SortInv, SortInv', WindowInv, NEW n, recv_func_posthandle(n)
  PROVE  WindowInv'
<1>1. /\ n \in Nat /\ rxFrame' = n /\ UNCHANGED <<pending, lock>>
      /\ rxPc = "idle" /\ hi \in Int /\ n <= hi + MaxGap
      /\ hi' = (IF n > hi THEN n ELSE hi)
  BY DEF recv_func_posthandle, TaskletMayStart, MayArrive, TypeOK, DataOK
<1>2. PICK g \in Int : g = hi' /\ hi <= g /\ g <= hi + MaxGap
  BY <1>1, Half
<1>3. CASE enable
  <2>1. UNCHANGED <<indicate_seq, ordered, last>> /\ rxPc' = "lock"
    BY <1>3 DEF recv_func_posthandle
  <2>2. ASSUME indicate_seq # Unset
        PROVE  \E v \in (g + 2 - SN)..(g + 1) : StartsAt(v)'
    <3>1. PICK w \in Int : hi + 2 - SN <= w /\ w <= hi + 1 /\ StartsAt(w)
      BY <2>2, WindowStart
    <3>2. PICK m \in Int : m = SN
      BY Half
    <3>3. CASE g + 2 - SN <= w
      <4>1. w \in (g + 2 - SN)..(g + 1)
        BY <1>1, <1>2, <3>1, <3>2, <3>3
      <4>2. StartsAt(w)'
        BY <1>1, <2>1, <3>1 DEF StartsAt
      <4> QED
        BY <4>1, <4>2
    <3>4. CASE ~(g + 2 - SN <= w)
      <4>1. PICK v \in Int : v = w + SN
        BY <3>2
      <4>2. v \in (g + 2 - SN)..(g + 1) /\ w < v
        BY <1>1, <1>2, <3>1, <3>2, <3>4, <4>1, Half
      <4>3. indicate_seq' = v % SN
        BY <2>1, <3>1, <4>1, OnceMore DEF StartsAt
      <4>4. ASSUME NEW i \in 1..Len(pending), pending[i] - w < WSize
            PROVE  pending[i] - v < WSize
        <5>1. pending[i] \in Nat /\ WSize \in Nat
          BY Half DEF TypeOK, DataOK
        <5> QED
          BY <4>2, <4>4, <5>1
      <4>5. ordered => last < v /\ \A i \in 1..Len(pending) : pending[i] - v < WSize
        BY <3>1, <4>2, <4>4 DEF StartsAt, TypeOK, DataOK
      <4>6. \A i, j \in 1..Len(pending) :
              pending[j] - pending[i] >= WSize => pending[j] - v < WSize
        BY <3>1, <4>4 DEF StartsAt
      <4>7. StartsAt(v)'
        BY <1>1, <2>1, <4>3, <4>5, <4>6 DEF StartsAt
      <4> QED
        BY <4>2, <4>7
    <3> QED
      BY <3>3, <3>4
  <2> QED
    BY <1>1, <1>2, <2>1, <2>2 DEF WindowInv
<1>4. CASE ~enable
  <2>1. indicate_seq' = n % SN /\ ~ordered' /\ rxPc' = "direct"
    BY <1>4 DEF recv_func_posthandle, seq_num
  <2>2. n <= g /\ g - n < WSize
    BY <1>1, <1>2, <2>1 DEF SortInv
  <2>3. n \in (g + 2 - SN)..(g + 1)
    BY <1>1, <1>2, <2>2, Half
  <2>4. ASSUME NEW i \in 1..Len(pending) PROVE pending[i] - n < WSize
    <3>1. pending[i] \in Nat /\ pending[i] <= hi
      BY DEF SortInv, TypeOK, DataOK
    <3> QED
      BY <1>1, <1>2, <2>2, <3>1, Half
  <2>5. StartsAt(n)'
    BY <1>1, <2>1, <2>4 DEF StartsAt
  <2>6. indicate_seq' # Unset
    BY <1>1, <2>1, IsSet
  <2> QED
    BY <1>1, <1>2, <2>1, <2>3, <2>5, <2>6 DEF WindowInv, seq_num
<1> QED
  BY <1>3, <1>4

(* The end of the bypass moves the window behind the frame.                *)
LEMMA WindowBypass ==
  ASSUME TypeOK, SortInv, WindowInv, recv_direct
  PROVE  WindowInv'
<1>1. /\ rxPc = "direct" /\ rxPc' = "idle" /\ UNCHANGED <<pending, lock, hi, rxFrame, ordered>>
      /\ ~ordered /\ indicate_seq = rxFrame % SN
      /\ indicate_seq' = (indicate_seq + 1) % SN
  BY DEF recv_direct, WindowInv, seq_num
<1>2. PICK n \in Nat : n = rxFrame
  BY DEF TypeOK, DataOK
<1>3. PICK w \in Int : w = n + 1
  OBVIOUS
<1>4. indicate_seq' = w % SN
  BY <1>1, <1>2, <1>3, AddMod
<1>5. hi \in Int /\ n <= hi /\ hi - n < WSize
  BY <1>1, <1>2 DEF SortInv, TypeOK, DataOK
<1>6. w \in (hi + 2 - SN)..(hi + 1)
  BY <1>3, <1>5, Half
<1>7. ASSUME NEW i \in 1..Len(pending) PROVE pending[i] - w < WSize
  <2>1. pending[i] \in Nat /\ pending[i] <= hi
    BY DEF SortInv, TypeOK, DataOK
  <2> QED
    BY <1>3, <1>5, <2>1, Half
<1>8. StartsAt(w)'
  BY <1>1, <1>4, <1>7 DEF StartsAt
<1>9. indicate_seq' # Unset
  BY <1>4, IsSet
<1> QED
  BY <1>1, <1>6, <1>8, <1>9 DEF WindowInv

(* One turn of the loop.                                                   *)
LEMMA WindowDelivery ==
  ASSUME TypeOK, SortInv, OneContext, WindowInv, recv_indicatepkts_in_order
  PROVE  WindowInv'
<1>1. /\ pending # <<>> /\ HeadIsDue /\ pending' = Tail(pending)
      /\ UNCHANGED <<hi, rxFrame, rxPc, lock, ordered>>
      /\ indicate_seq' = (IF indicate_seq = seq_num(Head(pending))
                          THEN (indicate_seq + 1) % SN ELSE indicate_seq)
      /\ last' = (IF stopped \/ ~ordered THEN last ELSE Head(pending))
      /\ rxPc = "drain" \/ tmrPc = "drain"
  BY DEF recv_indicatepkts_in_order, HeadIsDue, ctxVars, Deliver
<1>2. lock # "none" /\ rxPc # "direct"
  BY <1>1 DEF OneContext
<1>3. indicate_seq # Unset
  BY <1>2 DEF WindowInv
<1>4. PICK w \in Int : hi + 2 - SN <= w /\ w <= hi + 1 /\ StartsAt(w)
  BY <1>3, WindowStart
<1>5. PICK f \in Nat : f = Head(pending)
  BY <1>1 DEF TypeOK, DataOK
<1>6. (ordered => f <= w) /\ (indicate_seq = f % SN => f = w)
  BY <1>1, <1>4, <1>5, DueIsReached DEF seq_num
<1>7. hi \in Int /\ f <= hi /\ last \in Int
  <2>1. 1 \in 1..Len(pending) /\ Head(pending) = pending[1]
    BY <1>1 DEF TypeOK, DataOK
  <2> QED
    BY <1>5, <2>1 DEF SortInv, TypeOK, DataOK
<1>8. PICK r : r = pending'
  OBVIOUS
<1>9. /\ r \in Seq(Nat)
      /\ \A i \in 1..Len(r) : i + 1 \in 1..Len(pending) /\ r[i] = pending[i + 1]
  BY <1>1, <1>8, TailShape DEF TypeOK, DataOK
<1>10. ASSUME NEW i \in 1..Len(r)
       PROVE  r[i] \in Nat /\ f < r[i] /\ (ordered => r[i] - w < WSize)
  <2>1. i + 1 \in 1..Len(pending) /\ r[i] = pending[i + 1] /\ i + 1 # 1
    BY <1>9
  <2>2. pending[i + 1] \in Nat /\ f < pending[i + 1]
    BY <1>5, <2>1, HeadIsOldest
  <2> QED
    BY <1>4, <2>1, <2>2 DEF StartsAt
<1>13. \A i, j \in 1..Len(r) : r[j] - r[i] >= WSize => r[j] - w < WSize
  BY <1>4, <1>9 DEF StartsAt
<1>11. CASE indicate_seq = seq_num(Head(pending))
  <2>1. f = w /\ indicate_seq = w % SN
    BY <1>4, <1>5, <1>6, <1>11 DEF StartsAt, seq_num
  <2>2. PICK v \in Int : v = w + 1
    OBVIOUS
  <2>3. indicate_seq' = v % SN
    BY <1>1, <1>11, <2>1, <2>2, AddMod
  <2>4. v \in (hi + 2 - SN)..(hi + 1)
    BY <1>4, <1>7, <2>1, <2>2, Half
  <2>5. ASSUME NEW i \in 1..Len(r), r[i] - w < WSize PROVE r[i] - v < WSize
    BY <1>10, <2>2, <2>5, Half
  <2>6. ordered => last' < v
    <3>1. ordered => last < w
      BY <1>4 DEF StartsAt
    <3> QED
      BY <1>1, <1>5, <1>7, <2>1, <2>2, <3>1
  <2>7. StartsAt(v)'
    BY <1>1, <1>8, <1>10, <1>13, <2>3, <2>5, <2>6 DEF StartsAt
  <2>8. indicate_seq' # Unset
    BY <2>3, IsSet
  <2>9. ASSUME ordered, NEW i \in 1..Len(r) PROVE last' < r[i]
    <3>1. last < pending[i + 1]
      BY <1>9, <2>9 DEF WindowInv
    <3> QED
      BY <1>1, <1>5, <1>9, <1>10, <3>1
  <2> QED
    BY <1>1, <1>2, <1>8, <2>4, <2>7, <2>8, <2>9 DEF WindowInv
<1>12. CASE indicate_seq # seq_num(Head(pending))
  <2>1. indicate_seq' = indicate_seq /\ indicate_seq = w % SN
    BY <1>1, <1>4, <1>12 DEF StartsAt
  <2>2. f # w
    BY <1>5, <1>12, <2>1 DEF seq_num
  <2>3. w \in (hi + 2 - SN)..(hi + 1)
    BY <1>4, <1>7, Half
  <2>4. ordered => last' < w
    <3>1. ordered => last < w
      BY <1>4 DEF StartsAt
    <3> QED
      BY <1>1, <1>5, <1>6, <2>2, <3>1
  <2>5. StartsAt(w)'
    BY <1>1, <1>8, <1>10, <1>13, <2>1, <2>4 DEF StartsAt
  <2>6. ASSUME ordered, NEW i \in 1..Len(r) PROVE last' < r[i]
    <3>1. last < pending[i + 1]
      BY <1>9, <2>6 DEF WindowInv
    <3> QED
      BY <1>1, <1>5, <1>9, <1>10, <3>1
  <2> QED
    BY <1>1, <1>2, <1>3, <1>8, <2>1, <2>3, <2>5, <2>6 DEF WindowInv
<1> QED
  BY <1>11, <1>12

(* Where check_indicate_seq leaves the window that started at frame w when *)
(* frame n is not older than it.                                           *)
LEMMA CheckMoves ==
  ASSUME NEW w \in Int, NEW n \in Nat, w <= n, n - w < SN \div 2
  PROVE  \E v \in Int : /\ check_indicate_seq(w % SN, n % SN) = v % SN
                        /\ w <= v /\ v <= n + 1 /\ n - v < WSize
<1>1. PICK h \in Nat : h = SN \div 2 /\ WSize < h - 1
  BY Half
<1>2. PICK z \in Nat : z = WSize /\ z >= 1
  BY Half
<1>3. CASE w = n
  <2>1. check_indicate_seq(w % SN, n % SN) = (w + 1) % SN
    BY <1>3, AddMod DEF check_indicate_seq
  <2>2. w <= w + 1 /\ w + 1 <= n + 1 /\ n - (w + 1) < WSize
    BY <1>2, <1>3
  <2> QED
    BY <2>1, <2>2
<1>4. CASE w # n
  <2>1. w < n /\ n % SN # w % SN
    <3>1. w - n < SN /\ n - w < SN
      BY Half
    <3> QED
      BY <1>4, <3>1, SameNumber
  <2>2. PICK e \in Int : e = w + WSize - 1 /\ e = w + (WSize - 1)
    BY <1>2
  <2>3. ((w % SN) + WSize - 1) % SN = e % SN
    <3>1. WSize - 1 \in Int /\ w % SN \in Int
      BY <1>2, Division
    <3>2. ((w % SN) + (WSize - 1)) % SN = e % SN
      BY <2>2, <3>1, AddMod
    <3>3. (w % SN) + (WSize - 1) = (w % SN) + WSize - 1
      BY <1>2, <3>1
    <3> QED
      BY <3>2, <3>3
  <2>4. SN_LESS(e % SN, n % SN) <=> e < n
    <3>1. e - n < SN \div 2 /\ n - e <= SN \div 2
      BY <1>1, <1>2, <2>1, <2>2
    <3> QED
      BY <3>1, LessIsOlder
  <2>5. CASE e < n
    <3>1. check_indicate_seq(w % SN, n % SN) = (n + 1 - WSize) % SN
      BY <2>1, <2>3, <2>4, <2>5, ShiftIsMod DEF check_indicate_seq
    <3>2. /\ n + 1 - WSize \in Int /\ w <= n + 1 - WSize
          /\ n + 1 - WSize <= n + 1 /\ n - (n + 1 - WSize) < WSize
      BY <1>2, <2>2, <2>5
    <3> QED
      BY <3>1, <3>2
  <2>6. CASE ~(e < n)
    <3>1. check_indicate_seq(w % SN, n % SN) = w % SN
      BY <2>1, <2>3, <2>4, <2>6 DEF check_indicate_seq
    <3>2. w <= w /\ w <= n + 1 /\ n - w < WSize
      BY <1>2, <2>1, <2>2, <2>6
    <3> QED
      BY <3>1, <3>2
  <2> QED
    BY <2>5, <2>6
<1> QED
  BY <1>3, <1>4

(* check_indicate_seq drops exactly the frames behind the window start.    *)
LEMMA OldIsBehind ==
  ASSUME NEW w \in Int, NEW n \in Nat, w - n <= WSize, n - w < SN, ~IsOld(w % SN, n % SN)
  PROVE  w <= n /\ n - w < SN \div 2
<1>1. PICK h \in Nat : h = SN \div 2 /\ WSize < h - 1
  BY Half
<1>2. SN = 2 * h
  BY <1>1, Half
<1>3. PICK d \in Int : d = ((n % SN) - (w % SN)) % SN /\ d < h
  BY <1>1, Division DEF IsOld, SN_LESS
<1>4. CASE w <= n
  <2>1. 0 <= n - w /\ n - w < SN
    BY <1>4
  <2>2. d = n - w
    BY <1>3, <2>1, DiffMod
  <2> QED
    BY <1>1, <1>3, <1>4, <2>2
<1>5. CASE ~(w <= n)
  <2>1. -SN <= n - w /\ n - w < 0
    BY <1>1, <1>2, <1>5, Half
  <2>2. d = n - w + SN
    BY <1>3, <2>1, DiffMod
  <2> QED
    BY <1>1, <1>2, <1>3, <1>5, <2>2, Half
<1> QED
  BY <1>4, <1>5

(* What recv_indicatepkt_reorder needs of the window start v it leaves.    *)
LEMMA WindowMoved ==
  ASSUME TypeOK, SortInv, SortInv', recv_indicatepkt_reorder,
         NEW v \in (hi + 2 - SN)..(hi + 1), indicate_seq' = v % SN,
         rxFrame - v < WSize,
         ordered' => \A i \in 1..Len(pending) : pending[i] - v < WSize,
         ordered' => last' < v /\ last' < rxFrame,
         ordered' => \A i \in 1..Len(pending) : last' < pending[i],
         \A i, j \in 1..Len(pending) : pending[j] - pending[i] < WSize
  PROVE  WindowInv'
<1>1. /\ lock = "none" /\ UNCHANGED hi /\ rxPc' # "direct"
      /\ pending \in Seq(Nat) /\ rxFrame \in Nat
  BY DEF recv_indicatepkt_reorder, TypeOK, DataOK
<1>2. indicate_seq' # Unset
  <2>1. v \in Int
    BY Half DEF TypeOK, DataOK
  <2>2. v % SN # Unset
    BY <2>1, IsSet
  <2> QED
    BY <2>2
<1>3. PICK r : r = pending'
  OBVIOUS
<1>4. \/ r = pending
      \/ r = enqueue_reorder_recvframe(pending, rxFrame) /\ lock' = "rx"
  BY <1>3 DEF recv_indicatepkt_reorder
<1>5. ASSUME NEW i \in 1..Len(r)
      PROVE  r[i] = rxFrame \/ \E j \in 1..Len(pending) : r[i] = pending[j]
  <2>1. CASE r = pending
    BY <1>5, <2>1
  <2>2. CASE r = enqueue_reorder_recvframe(pending, rxFrame)
    BY <1>1, <1>5, <2>2, InsertMembers
  <2> QED
    BY <1>4, <2>1, <2>2
<1>6. ordered' => \A i \in 1..Len(r) : r[i] - v < WSize
  BY <1>5
<1>10. ASSUME NEW i \in 1..Len(r), NEW j \in 1..Len(r), r[j] - r[i] >= WSize
       PROVE  r[j] - v < WSize
  <2>1. rxFrame <= hi /\ hi - rxFrame < WSize /\ hi \in Int
    BY DEF recv_indicatepkt_reorder, SortInv, TypeOK, DataOK
  <2>2. CASE r[j] = rxFrame
    BY <2>2
  <2>3. CASE r[j] # rxFrame
    <3>1. PICK b \in 1..Len(pending) : r[j] = pending[b]
      BY <1>5, <2>3
    <3>2. pending[b] \in Nat /\ pending[b] <= hi
      BY <1>1 DEF SortInv
    <3>3. r[i] # rxFrame
      <4>1. PICK p \in Nat, f \in Nat, g \in Int, z \in Nat :
              p = pending[b] /\ f = rxFrame /\ g = hi /\ z = WSize
        BY <1>1, <2>1, <3>2, Half
      <4>2. p <= g /\ g - f < z
        BY <2>1, <3>2, <4>1
      <4>3. ~(p - f >= z)
        BY <4>2
      <4> QED
        BY <1>10, <3>1, <4>1, <4>3
    <3>4. PICK a \in 1..Len(pending) : r[i] = pending[a]
      BY <1>5, <3>3
    <3>5. pending[a] \in Nat
      BY <1>1
    <3>6. pending[b] - pending[a] < WSize
      OBVIOUS
    <3> QED
      BY <1>10, <3>1, <3>2, <3>4, <3>5, <3>6, Half
  <2> QED
    BY <2>2, <2>3
<1>7. ordered' => last' < v /\ \A i \in 1..Len(r) : last' < r[i]
  BY <1>5
<1>8. lock' = "none" => \A i, j \in 1..Len(r) : r[j] - r[i] < WSize
  BY <1>1, <1>4
<1>9. StartsAt(v)'
  BY <1>3, <1>6, <1>7, <1>10 DEF StartsAt
<1> QED
  BY <1>1, <1>2, <1>3, <1>7, <1>8, <1>9 DEF WindowInv

LEMMA WindowInsertion ==
  ASSUME TypeOK, SortInv, SortInv', WindowInv, recv_indicatepkt_reorder
  PROVE  WindowInv'
<1>1. /\ rxPc = "lock" /\ lock = "none" /\ UNCHANGED hi
      /\ ordered' = (ordered \/ ackBit) /\ last' = IF ackBit THEN -1 ELSE last
      /\ ordered \in BOOLEAN /\ ackBit \in BOOLEAN /\ hi \in Int /\ last \in Int
      /\ \A i, j \in 1..Len(pending) : pending[j] - pending[i] < WSize
      /\ \A i \in 1..Len(pending) : pending[i] \in Nat /\ pending[i] <= hi
  BY DEF recv_indicatepkt_reorder, WindowInv, SortInv, TypeOK, DataOK, FlagsOK
<1>2. PICK n \in Nat : n = rxFrame /\ n <= hi /\ hi - n < WSize
  BY <1>1 DEF SortInv, TypeOK, DataOK
<1>3. PICK h \in Nat : h = SN \div 2 /\ WSize < h - 1
  BY Half
<1>4. CASE ackBit \/ indicate_seq = Unset
  <2>1. ~IsOld(n % SN, n % SN) => indicate_seq' = check_indicate_seq(n % SN, n % SN)
    BY <1>2, <1>4 DEF recv_indicatepkt_reorder, seq_num
  <2>2. ~IsOld(n % SN, n % SN)
    <3>1. n - n < SN \div 2 /\ n - n <= SN \div 2 /\ ~(n < n)
      BY <1>3, Half
    <3> QED
      BY <3>1, LessIsOlder DEF IsOld
  <2>3. check_indicate_seq(n % SN, n % SN) = (n + 1) % SN
    BY AddMod DEF check_indicate_seq
  <2>4. PICK v \in Int : v = n + 1
    OBVIOUS
  <2>5. indicate_seq' = v % SN
    BY <2>1, <2>2, <2>3, <2>4
  <2>6. v \in (hi + 2 - SN)..(hi + 1) /\ n - v < WSize
    BY <1>1, <1>2, <2>4, Half
  <2>7. ASSUME NEW i \in 1..Len(pending) PROVE pending[i] - v < WSize
    BY <1>1, <1>2, <2>4, <2>7, Half
  <2>8. ~ackBit => ~ordered
    BY <1>4 DEF WindowInv
  <2>9. ordered' => last' = -1
    BY <1>1, <2>8
  <2>10. ordered' => last' < v /\ last' < n
    BY <2>4, <2>9
  <2>11. ordered' => \A i \in 1..Len(pending) : last' < pending[i]
    BY <1>1, <2>9
  <2> QED
    BY <1>1, <1>2, <2>5, <2>6, <2>7, <2>10, <2>11, WindowMoved
<1>5. CASE ~ackBit /\ indicate_seq # Unset
  <2>1. PICK w \in Int : hi + 2 - SN <= w /\ w <= hi + 1 /\ StartsAt(w)
    BY <1>5, WindowStart
  <2>2. indicate_seq = w % SN /\ (ordered => last < w)
    BY <2>1 DEF StartsAt
  <2>3. UNCHANGED last /\ (ordered' => ordered)
    BY <1>1, <1>5
  <2>4. CASE IsOld(w % SN, n % SN)
    <3>1. UNCHANGED <<indicate_seq, pending, lock, rxFrame>> /\ rxPc' = "idle"
      BY <1>2, <1>5, <2>2, <2>4 DEF recv_indicatepkt_reorder, seq_num
    <3>2. UNCHANGED ordered
      BY <1>1, <1>5
    <3> QED
      BY <1>1, <2>3, <3>1, <3>2, WindowKept
  <2>5. CASE ~IsOld(w % SN, n % SN)
    <3>1. indicate_seq' = check_indicate_seq(w % SN, n % SN)
      BY <1>2, <1>5, <2>2, <2>5 DEF recv_indicatepkt_reorder, seq_num
    <3>2. w - n <= WSize /\ n - w < SN
      BY <1>1, <1>2, <2>1, Half
    <3>3. w <= n /\ n - w < SN \div 2
      BY <2>5, <3>2, OldIsBehind
    <3>4. PICK v \in Int : /\ check_indicate_seq(w % SN, n % SN) = v % SN
                           /\ w <= v /\ v <= n + 1 /\ n - v < WSize
      BY <3>3, CheckMoves
    <3>5. v \in (hi + 2 - SN)..(hi + 1)
      BY <1>1, <1>2, <2>1, <3>4, Half
    <3>6. ASSUME ordered', NEW i \in 1..Len(pending) PROVE pending[i] - v < WSize
      <4>1. pending[i] \in Nat /\ pending[i] - w < WSize
        BY <1>1, <2>1, <2>3, <3>6 DEF StartsAt
      <4>2. WSize \in Nat
        BY Half
      <4> QED
        BY <3>4, <4>1, <4>2
    <3>7. ordered' => last' < v /\ last' < n
      BY <1>1, <2>2, <2>3, <3>3, <3>4
    <3>8. ordered' => \A i \in 1..Len(pending) : last' < pending[i]
      BY <2>3 DEF WindowInv
    <3>9. indicate_seq' = v % SN
      BY <3>1, <3>4
    <3> QED
      BY <1>1, <1>2, <3>4, <3>5, <3>6, <3>7, <3>8, <3>9, WindowMoved
  <2> QED
    BY <2>4, <2>5
<1> QED
  BY <1>1, <1>4, <1>5

(* The timeout puts the window at the oldest parked frame; the others are  *)
(* less than a window newer.                                               *)
LEMMA WindowTimeout ==
  ASSUME TypeOK, SortInv, WindowInv, OneContext, rtw_reordering_ctrl_timeout_handler
  PROVE  WindowInv'
<1>1. lock = "none" /\ rxPc = "idle"
      /\ UNCHANGED <<pending, rxPc, rxFrame, hi, last, ordered>>
  BY DEF rtw_reordering_ctrl_timeout_handler, OneContext
<1>2. CASE pending = <<>>
  <2>1. UNCHANGED <<indicate_seq, lock>>
    BY <1>2 DEF rtw_reordering_ctrl_timeout_handler
  <2> QED
    BY <1>1, <2>1, WindowKept
<1>3. CASE pending # <<>>
  <2>1. PICK f \in Nat : f = Head(pending) /\ f = pending[1] /\ 1 \in 1..Len(pending)
    BY <1>3 DEF TypeOK, DataOK
  <2>2. indicate_seq' = f % SN /\ lock' = "timer"
    BY <1>3, <2>1 DEF rtw_reordering_ctrl_timeout_handler, seq_num
  <2>3. hi \in Int /\ f <= hi /\ hi - f < (SN \div 2) - 1
    BY <2>1 DEF SortInv, TypeOK, DataOK
  <2>4. f \in (hi + 2 - SN)..(hi + 1)
    BY <2>3, Half
  <2>5. \A i \in 1..Len(pending) : pending[i] - f < WSize
    BY <1>1, <2>1 DEF WindowInv
  <2>6. ordered => last < f
    BY <2>1 DEF WindowInv
  <2>7. StartsAt(f)'
    BY <1>1, <2>2, <2>5, <2>6 DEF StartsAt
  <2>8. indicate_seq' # Unset
    BY <2>2, IsSet
  <2> QED
    BY <1>1, <2>2, <2>4, <2>7, <2>8 DEF WindowInv
<1> QED
  BY <1>2, <1>3

(* A block ack request puts the window where it says; when that is not     *)
(* behind the start the window had, the order is kept.                     *)
LEMMA WindowBar ==
  ASSUME TypeOK, SortInv, WindowInv, OneContext, SMP = FALSE,
         NEW n, rtw_process_bar_frame(n)
  PROVE  WindowInv'
<1>1. /\ n \in Nat /\ n > hi - 2 * WSize /\ hi \in Int
      /\ hi' = (IF n - 1 > hi THEN n - 1 ELSE hi)
      /\ UNCHANGED <<pending, lock, rxPc>> /\ rxPc = "idle" /\ lock = "none"
      /\ last' = (IF ordered' THEN last ELSE -1)
      /\ indicate_seq' = n % SN
      /\ ordered' = (ordered /\ ~SN_LESS(n % SN, indicate_seq))
  BY DEF rtw_process_bar_frame, MayBeRequested, TaskletMayStart, OneContext, ctxVars, seq_num,
         TypeOK, ControlOK, DataOK
<1>2. PICK h \in Nat : h = SN \div 2 /\ SN = 2 * h /\ 2 * WSize <= h /\ h >= 2
  <2>1. PICK h \in Nat, z \in Nat, g \in Nat : h = SN \div 2 /\ z = WSize /\ g = MaxGap
    BY Half, Zenon
  <2>2. SN = 2 * h /\ 2 * z <= h
    BY <2>1, Half, Zenon
  <2>3. g + z < h /\ z >= 1 /\ g >= 1
    BY <2>1, Half, Zenon
  <2>4. h >= 2
    BY <2>3
  <2> QED
    BY <2>1, <2>2, <2>4, Zenon
<1>3. n \in (hi' + 2 - SN)..(hi' + 1)
  BY <1>1, <1>2, Half
<1>4. indicate_seq' # Unset
  BY <1>1, IsSet
<1>5. ordered' => ordered /\ ~SN_LESS(n % SN, indicate_seq)
  BY <1>1
<1>6. \A i, j \in 1..Len(pending) : pending[i] \in Nat /\ pending[j] - pending[i] < WSize
  BY <1>1 DEF WindowInv, TypeOK, DataOK
<1>7. ASSUME ordered'
      PROVE  last' < n /\ \A i \in 1..Len(pending) : pending[i] - n < WSize
  <2>1. ordered /\ indicate_seq # Unset
    BY <1>5, <1>7 DEF WindowInv
  <2>2. PICK w \in Int : hi + 2 - SN <= w /\ w <= hi + 1 /\ StartsAt(w)
    BY <2>1, WindowStart
  <2>3. ~SN_LESS(n % SN, w % SN)
    BY <1>5, <1>7, <2>2 DEF StartsAt
  <2>4. w <= n
    <3>1. SUFFICES ASSUME n < w PROVE FALSE
      BY <1>1
    <3>2. n - w < SN \div 2 /\ w - n <= SN \div 2
      BY <1>1, <1>2, <2>2, <3>1, Half
    <3> QED
      BY <1>1, <2>3, <3>1, <3>2, LessIsOlder
  <2>5. ASSUME NEW i \in 1..Len(pending) PROVE pending[i] - n < WSize
    <3>1. pending[i] \in Nat /\ pending[i] - w < WSize /\ WSize \in Nat
      BY <1>6, <2>1, <2>2, Half DEF StartsAt
    <3> QED
      BY <1>1, <2>4, <3>1
  <2>6. last' = last /\ last < w /\ last \in Int
    BY <1>1, <1>7, <2>1, <2>2 DEF StartsAt, TypeOK, DataOK
  <2> QED
    BY <1>1, <2>4, <2>5, <2>6
<1>8. \A i, j \in 1..Len(pending) :
        pending[j] - pending[i] >= WSize => pending[j] - n < WSize
  <2>1. ASSUME NEW i \in 1..Len(pending), NEW j \in 1..Len(pending)
        PROVE  ~(pending[j] - pending[i] >= WSize)
    BY <1>6, Half
  <2> QED
    BY <2>1
<1>9. StartsAt(n)'
  BY <1>1, <1>7, <1>8 DEF StartsAt
<1>10. ordered' => \A i \in 1..Len(pending) : last' < pending[i]
  BY <1>1, <1>5 DEF WindowInv
<1> QED
  BY <1>1, <1>3, <1>4, <1>6, <1>9, <1>10 DEF WindowInv

(* The lock is released at the end of the loop: what is left spans less    *)
(* than a window.                                                          *)
LEMMA WindowRelease ==
  ASSUME TypeOK, SortInv, WindowInv, lock # "none", ~HeadIsDue, lock' = "none",
         UNCHANGED <<indicate_seq, hi, pending, last, ordered, rxFrame>>, rxPc' # "direct"
  PROVE  WindowInv'
<1>1. indicate_seq # Unset
  BY DEF WindowInv
<1>2. PICK w \in Int : hi + 2 - SN <= w /\ w <= hi + 1 /\ StartsAt(w)
  BY <1>1, WindowStart
<1>3. ASSUME NEW i \in 1..Len(pending), NEW j \in 1..Len(pending)
      PROVE  pending[j] - pending[i] < WSize
  <2>1. pending[i] \in Nat /\ w < pending[i]
    BY <1>2, <1>3, LeftInWindow
  <2>2. pending[j] \in Nat /\ (pending[j] - pending[i] >= WSize => pending[j] - w < WSize)
    BY <1>2, <1>3, LeftInWindow DEF StartsAt
  <2>3. PICK a \in Nat, b \in Nat, z \in Nat : a = pending[i] /\ b = pending[j] /\ z = WSize
    BY <2>1, <2>2, Half
  <2>4. b - a < z
    BY <2>1, <2>2, <2>3
  <2> QED
    BY <2>3, <2>4
<1> QED
  BY <1>3 DEF WindowInv, StartsAt

LEMMA WindowStep ==
  ASSUME SMP = FALSE
  PROVE  TypeOK /\ SortInv /\ SortInv' /\ OneContext /\ WindowInv /\ [Next]_vars => WindowInv'
<1> SUFFICES ASSUME TypeOK, SortInv, SortInv', OneContext, WindowInv, [Next]_vars
             PROVE  WindowInv'
  OBVIOUS
<1>1. ASSUME NEW n, recv_func_posthandle(n) PROVE WindowInv'
  BY <1>1, WindowArrival
<1>12. ASSUME NEW n, rtw_process_bar_frame(n) PROVE WindowInv'
  BY <1>12, WindowBar
<1>2. CASE recv_direct
  BY <1>2, WindowBypass
<1>3. CASE recv_indicatepkt_reorder
  BY <1>3, WindowInsertion
<1>4. CASE recv_indicatepkts_in_order
  BY <1>4, WindowDelivery
<1>5. CASE recv_reorder_done
  <2>1. /\ lock # "none" /\ ~HeadIsDue /\ lock' = "none" /\ rxPc' # "direct"
        /\ UNCHANGED <<indicate_seq, hi, pending, last, ordered, rxFrame>>
    BY <1>5 DEF recv_reorder_done, OneContext
  <2> QED
    BY <2>1, WindowRelease
<1>6. CASE timeout_handler_done
  <2>1. /\ lock # "none" /\ ~HeadIsDue /\ lock' = "none" /\ rxPc' # "direct"
        /\ UNCHANGED <<indicate_seq, hi, pending, last, ordered, rxFrame>>
    BY <1>6 DEF timeout_handler_done, OneContext
  <2> QED
    BY <2>1, WindowRelease
<1>7. CASE rtw_reordering_ctrl_timeout_handler
  BY <1>7, WindowTimeout
<1>8. CASE rtw_joinbss_update_stainfo
  <2>1. /\ indicate_seq' = Unset /\ UNCHANGED <<pending, lock>> /\ lock = "none"
        /\ rxPc' # "direct"
    BY <1>8 DEF rtw_joinbss_update_stainfo, ProcessMayRun, OneContext, ctxVars, TypeOK, ControlOK
  <2>2. ~ordered'
    BY <1>8 DEF rtw_joinbss_update_stainfo
  <2> QED
    BY <2>1, <2>2, WindowReset
<1>9. CASE rtw_alloc_stainfo
  <2>1. /\ indicate_seq' = Unset /\ pending' = <<>> /\ lock' = "none" /\ lock = "none"
        /\ rxPc' # "direct"
    BY <1>9 DEF rtw_alloc_stainfo, ProcessMayRun, OneContext, ctxVars, TypeOK, ControlOK
  <2>2. ~ordered'
    BY <1>9 DEF rtw_alloc_stainfo
  <2> QED
    BY <2>1, <2>2, WindowReset
<1>10. CASE rtw_free_stainfo_flush
  <2>1. /\ UNCHANGED <<indicate_seq, hi, last, ordered, lock, rxFrame, rxPc>>
        /\ pending' = <<>>
    BY <1>10 DEF rtw_free_stainfo_flush
  <2> QED
    BY <2>1, WindowFlush
<1>11. CASE \/ recv_cancel_timer \/ reordering_ctrl_timer_fires
            \/ issue_addba_rsp_wait_ack \/ add_ba_rsp_set_bit \/ add_ba_rsp_hdl \/ delba
            \/ rtw_free_stainfo \/ rtw_free_stainfo_cancel
            \/ rtw_set_drv_stopped \/ rtw_clr_drv_stopped \/ UNCHANGED vars
  <2>1. /\ UNCHANGED <<indicate_seq, hi, pending, last, ordered, lock, rxFrame>>
        /\ rxPc' \in {rxPc, "idle"}
    BY <1>11 DEF recv_cancel_timer, reordering_ctrl_timer_fires,
         issue_addba_rsp_wait_ack, add_ba_rsp_set_bit, add_ba_rsp_hdl, delba,
         rtw_free_stainfo, rtw_free_stainfo_cancel, rtw_set_drv_stopped,
         rtw_clr_drv_stopped, vars, drvVars, ctxVars
  <2> QED
    BY <2>1, WindowKept
<1> QED
  BY <1>1, <1>2, <1>3, <1>4, <1>5, <1>6, <1>7, <1>8, <1>9, <1>10, <1>11, <1>12
     DEF Next, Receive, Timer, Process

(* The inductive invariant of the window on one CPU.                       *)
LEMMA WindowInvariant ==
  ASSUME SMP = FALSE
  PROVE  Spec => [](TypeOK /\ SortInv /\ OneContext /\ WindowInv)
<1>1. Init => SortInv /\ OneContext /\ WindowInv
  <2> SUFFICES ASSUME Init PROVE SortInv /\ OneContext /\ WindowInv
    OBVIOUS
  <2>1. \A i \in 1..Len(pending) : FALSE
    BY DEF Init
  <2>2. ~ordered
    BY DEF Init
  <2> QED
    BY <2>1, <2>2 DEF Init, SortInv, OneContext, WindowInv
<1>2. TypeOK /\ SortInv /\ OneContext /\ WindowInv /\ [Next]_vars
        => SortInv' /\ OneContext' /\ WindowInv'
  BY SortStep, OneContextStep, WindowStep
<1> QED
  BY <1>1, <1>2, TypeCorrect, PTL DEF Spec

(* Delivery order: on one CPU the network stack never gets a frame twice   *)
(* or after a newer one while every frame has gone through the window and  *)
(* no block ack request has moved it back, whatever is lost, repeated or   *)
(* late, wherever the sequence space wraps and however timeouts, other     *)
(* requests, new agreements and rejoins move the window; the queue that    *)
(* enqueue_reorder_recvframe builds stays sorted by age in any case.       *)
THEOREM FramesStayInOrder ==
  ASSUME SMP = FALSE
  PROVE  Spec => []InOrder
<1>1. TypeOK /\ SortInv /\ WindowInv => InOrder
  <2> SUFFICES ASSUME TypeOK, SortInv, WindowInv PROVE InOrder
    OBVIOUS
  <2>1. ASSUME ordered, HeadIsDue PROVE last < Head(pending)
    <3>1. 1 \in 1..Len(pending) /\ Head(pending) = pending[1]
      BY <2>1 DEF HeadIsDue, TypeOK, DataOK
    <3> QED
      BY <2>1, <3>1 DEF WindowInv
  <2> QED
    BY <2>1 DEF InOrder, SortInv
<1> QED
  BY <1>1, WindowInvariant, PTL

(* The window bounds the queue: on one CPU, under the same condition,      *)
(* whenever the loop of recv_indicatepkts_in_order ends every frame left   *)
(* is strictly inside the window, and none that could have been handed up  *)
(* stays behind; and whatever bypasses and block ack requests do to the    *)
(* window, no more than WSize frames of the receive pool stay parked.      *)
THEOREM WindowIsKept ==
  ASSUME SMP = FALSE
  PROVE  Spec => []WindowHolds
<1>1. TypeOK /\ SortInv /\ WindowInv => WindowHolds
  <2> SUFFICES ASSUME TypeOK, SortInv, WindowInv PROVE WindowHolds
    OBVIOUS
  <2>1. PICK z \in Nat : z = WSize /\ z >= 1 /\ z < SN
    BY Half
  <2>2. ASSUME ordered, lock # "none", ~HeadIsDue, NEW i \in 1..Len(pending)
        PROVE  (seq_num(pending[i]) - indicate_seq) % SN \in 1..(WSize - 1)
    <3>1. PICK w \in Int : hi + 2 - SN <= w /\ w <= hi + 1 /\ StartsAt(w)
      BY <2>2, WindowStart DEF WindowInv
    <3>2. PICK p \in Nat : p = pending[i] /\ w < p /\ p - w < WSize
      BY <2>2, <3>1, LeftInWindow
    <3>3. 0 <= p - w /\ p - w < SN
      BY <2>1, <3>2, Half
    <3>4. ((p % SN) - (w % SN)) % SN = p - w
      BY <3>3, DiffMod
    <3>5. p - w \in 1..(WSize - 1)
      BY <2>1, <3>2
    <3> QED
      BY <3>1, <3>2, <3>4, <3>5 DEF StartsAt, seq_num
  <2>3. ASSUME lock = "none" PROVE Len(pending) <= WSize
    <3>1. CASE pending = <<>>
      BY <2>1, <3>1
    <3>2. CASE pending # <<>>
      <4>1. PICK k \in Nat : k = Len(pending) /\ k \in 1..Len(pending) /\ 1 \in 1..Len(pending)
        BY <3>2 DEF TypeOK, DataOK
      <4>2. PICK f \in Nat, p \in Nat : f = pending[1] /\ p = pending[k]
        BY <4>1 DEF TypeOK, DataOK
      <4>3. p - f < WSize
        BY <2>3, <4>1, <4>2 DEF WindowInv
      <4>4. Sorted(pending) /\ pending \in Seq(Nat)
        BY DEF Sorted, SortInv, TypeOK, DataOK
      <4>5. p >= f + k - 1
        BY <4>1, <4>2, <4>4, SortedSpan
      <4> QED
        BY <2>1, <4>1, <4>3, <4>5
    <3> QED
      BY <3>1, <3>2
  <2> QED
    BY <2>2, <2>3 DEF WindowHolds
<1> QED
  BY <1>1, WindowInvariant, PTL
=============================================================================
