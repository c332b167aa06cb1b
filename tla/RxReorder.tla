------------------------------ MODULE RxReorder ------------------------------
(***************************************************************************)
(* The receive reordering window of one (station, TID) pair: one           *)
(* struct recv_reorder_ctrl of core/rtw_recv.c with everything that writes *)
(* it: data frames, block ack requests, agreements, rejoins, the timer and *)
(* the life of the station.                                                *)
(*                                                                         *)
(* Three contexts share the window:                                        *)
(*   - the receive tasklet, which brings one frame at a time to            *)
(*     recv_func_posthandle and recv_indicatepkt_reorder, or a block ack   *)
(*     request to rtw_process_bar_frame;                                   *)
(*   - the timer softirq, which runs rtw_reordering_ctrl_timeout_handler;  *)
(*   - process context (command thread, disconnect), which negotiates the  *)
(*     block ack agreement, rejoins, and frees or allocates the station.   *)
(*                                                                         *)
(* A frame is its logical number, the position of the frame in the peer's  *)
(* stream; the driver only sees seq_num(n), the number reduced to the      *)
(* sequence space.  The spinlock of pending_recvframe_queue is the         *)
(* variable lock, and the loop of recv_indicatepkts_in_order is one step   *)
(* per frame, taken by whoever holds the lock.                             *)
(***************************************************************************)
EXTENDS Integers, Sequences

CONSTANTS
  SN,        \* size of the sequence space: 4096
  WSize,     \* wsize_b, the window: 64
  MaxGap,    \* how far beyond the newest frame the next one may be
  FirstSeq,  \* logical number of the peer's first frame
  MaxSeq,    \* bound: frames with a higher logical number are not sent
  RxBar,     \* TRUE: the receive filter passes block ack requests, as
             \* init_hw_mlme_ext asks.  FALSE: it does not, as in AP mode,
             \* where hw_var_set_opmode writes 0x0400 to RXFLTMAP1.
  SMP        \* TRUE: the contexts run in parallel on several CPUs.
             \* FALSE: one CPU without preemption, where a softirq runs to
             \* its end before process context or another softirq goes on.

Unset == 256 * 256 - 1    \* 0xFFFF, no sequence number of the space

ASSUME SeqSpaceAssumption ==
  /\ SN \in 2..Unset /\ SN % 2 = 0
  /\ WSize \in Nat \ {0} /\ MaxGap \in Nat \ {0}
  /\ MaxGap + WSize < SN \div 2 /\ 2 * WSize <= SN \div 2
  /\ FirstSeq \in Nat /\ MaxSeq \in Nat
  /\ RxBar \in BOOLEAN /\ SMP \in BOOLEAN

VARIABLES
  enable,          \* a block ack agreement is in force
  indicate_seq,    \* start of the window, or Unset
  pending,         \* pending_recvframe_queue: frames waiting for a gap
  bReorderWaiting, \* the receive path believes that the timer is armed
  ackBit,          \* RTW_RECV_ACK_OR_TIMEOUT of rec_abba_rsp_ack
  armed,           \* reordering_ctrl_timer is in the kernel's timer wheel
  lock,            \* holder of the queue's spinlock
  tid_rxseq,       \* number of the last frame, kept by recv_decache
  rxPc, rxFrame,   \* the receive tasklet and the frame it carries
  tmrPc,           \* the timer handler
  cmdPc,           \* process context
  sta,             \* the station: "hashed", "unhashed" or "free"
  stopped,         \* RTW_CANNOT_RUN(padapter)
  \* The rest is history and environment; no branch of the driver reads it.
  hi,              \* newest frame the peer is known to have sent
  base,            \* first frame of the peer's current agreement
  ordered,         \* since the window was restarted no frame has bypassed it
                   \* and no block ack request has moved it back
  last             \* newest frame given to the network stack since then, or -1

drvVars == <<enable, indicate_seq, pending, bReorderWaiting, ackBit, armed, lock>>
ctxVars == <<rxPc, rxFrame, tmrPc, cmdPc>>
vars == <<drvVars, ctxVars, tid_rxseq, sta, stopped, hi, base, ordered, last>>

seq_num(n) == n % SN

SN_LESS(a, b) == (a - b) % SN >= SN \div 2

-----------------------------------------------------------------------------
(* Scheduling: on one CPU a softirq is not interrupted by the others.      *)

TaskletMayStart == rxPc = "idle" /\ (SMP \/ tmrPc = "idle")
TimerMayStart == tmrPc = "idle" /\ (SMP \/ rxPc = "idle")
ProcessMayRun == SMP \/ (rxPc = "idle" /\ tmrPc = "idle")

-----------------------------------------------------------------------------
(* The receive path.                                                       *)

(* What the peer and the air may bring next.  A peer never has more than   *)
(* WSize frames outstanding, so nothing older than that is still sent;     *)
(* frames in between may be lost, repeated or arrive in any order.  While  *)
(* frames are parked less than half of the sequence space goes by, because *)
(* they are parked for REORDER_WAIT_TIME (50 ms) at most.                  *)
MayArrive(n) ==
  /\ n \in Nat
  /\ n >= base /\ n > hi - WSize
  /\ n <= hi + MaxGap /\ n <= MaxSeq
  /\ pending # <<>> => n - Head(pending) < (SN \div 2) - 1

(* recv_decache lets a frame pass unless it repeats the number just before *)
(* it.                                                                     *)
recv_decache(s) == s # tid_rxseq

(* The frame's station is found in the hash table, and                     *)
(* recv_indicatepkt_reorder reads enable before it takes the lock.         *)
(* Without an agreement the frame bypasses the window, and                 *)
(* recv_set_iseq_before_mpdu_process moves the window, without the lock.   *)
recv_func_posthandle(n) ==
  /\ TaskletMayStart /\ sta = "hashed" /\ ~stopped
  /\ MayArrive(n) /\ recv_decache(seq_num(n))
  /\ tid_rxseq' = seq_num(n)
  /\ hi' = IF n > hi THEN n ELSE hi
  /\ rxFrame' = n
  /\ \/ /\ enable
        /\ rxPc' = "lock"
        /\ UNCHANGED <<indicate_seq, ordered, last>>
     \/ /\ ~enable
        /\ rxPc' = "direct"
        /\ indicate_seq' = seq_num(n)
        /\ ordered' = FALSE /\ last' = -1
  /\ UNCHANGED <<enable, pending, bReorderWaiting, ackBit, armed, lock, tmrPc,
                 cmdPc, sta, stopped, base>>

(* recv_process_mpdu hands a frame to the stack unless the driver is       *)
(* stopping.                                                               *)
Deliver(n) == last' = IF stopped \/ ~ordered THEN last ELSE n

(* The end of the bypass: deliver, recv_set_iseq_after_mpdu_process.       *)
recv_direct ==
  /\ rxPc = "direct" /\ rxPc' = "idle"
  /\ Deliver(rxFrame)
  /\ indicate_seq' = (indicate_seq + 1) % SN
  /\ UNCHANGED <<tid_rxseq, enable, pending, bReorderWaiting, ackBit, armed, lock, rxFrame,
                 tmrPc, cmdPc, sta, stopped, hi, base, ordered>>

(* Window start after check_indicate_seq has accepted sequence number s,   *)
(* given the start it found.                                               *)
ShiftTo_NoWrap(s) == s + 1 - WSize
ShiftTo(s) ==
  IF s >= WSize - 1 THEN s + 1 - WSize
                    ELSE (SN - 1) - (WSize - (s + 1)) + 1

(* check_indicate_seq drops a frame older than the window.                 *)
IsOld_Never(start, s) == FALSE
IsOld(start, s) == SN_LESS(s, start)

check_indicate_seq_NoShift(start, s) == IF s = start THEN (start + 1) % SN ELSE start
check_indicate_seq(start, s) ==
  LET wend == (start + WSize - 1) % SN IN
  IF s = start THEN (start + 1) % SN
  ELSE IF SN_LESS(wend, s) THEN ShiftTo(s)
  ELSE start

(* Position where enqueue_reorder_recvframe stops its walk: behind the     *)
(* longest prefix of smaller frames.                                       *)
InsertPos(q, n) ==
  CHOOSE k \in 0..Len(q) :
    /\ \A i \in 1..k : SN_LESS(seq_num(q[i]), seq_num(n))
    /\ k < Len(q) => ~SN_LESS(seq_num(q[k + 1]), seq_num(n))

enqueue_reorder_recvframe(q, n) ==
  LET k == InsertPos(q, n) IN
  [i \in 1..(Len(q) + 1) |->
     IF i <= k THEN q[i] ELSE IF i = k + 1 THEN n ELSE q[i - 1]]

IsDuplicate(q, n) ==
  LET k == InsertPos(q, n) IN k < Len(q) /\ seq_num(q[k + 1]) = seq_num(n)

(* recv_indicatepkt_reorder under the lock: the flag left by the command   *)
(* thread restarts the window, old and duplicate frames are dropped, any   *)
(* other frame is queued and the loop over the queue begins.               *)
recv_indicatepkt_reorder ==
  LET s == seq_num(rxFrame)
      start == IF ackBit \/ indicate_seq = Unset THEN s ELSE indicate_seq
  IN
  /\ rxPc = "lock" /\ lock = "none"
  /\ ackBit' = FALSE
  /\ ordered' = (ordered \/ ackBit)
  /\ last' = IF ackBit THEN -1 ELSE last
  /\ \/ /\ IsOld(start, s)
        /\ indicate_seq' = start
        /\ rxPc' = "idle"
        /\ UNCHANGED <<pending, lock>>
     \/ /\ ~IsOld(start, s)
        /\ indicate_seq' = check_indicate_seq(start, s)
        /\ IF IsDuplicate(pending, rxFrame)
           THEN rxPc' = "idle" /\ UNCHANGED <<pending, lock>>
           ELSE /\ pending' = enqueue_reorder_recvframe(pending, rxFrame)
                /\ rxPc' = "drain" /\ lock' = "rx"
  /\ UNCHANGED <<tid_rxseq, enable, bReorderWaiting, armed, rxFrame, tmrPc, cmdPc, sta,
                 stopped, hi, base>>

(* One turn of the loop of recv_indicatepkts_in_order: the head of the     *)
(* queue is not beyond the window start.                                   *)
HeadIsDue == pending # <<>> /\ ~SN_LESS(indicate_seq, seq_num(Head(pending)))

recv_indicatepkts_in_order ==
  /\ \/ rxPc = "drain"
     \/ tmrPc = "drain"
  /\ HeadIsDue
  /\ pending' = Tail(pending)
  /\ indicate_seq' = IF indicate_seq = seq_num(Head(pending))
                     THEN (indicate_seq + 1) % SN ELSE indicate_seq
  /\ Deliver(Head(pending))
  /\ UNCHANGED <<tid_rxseq, enable, bReorderWaiting, ackBit, armed, lock, ctxVars, sta,
                 stopped, hi, base, ordered>>

(* The loop has ended in the receive tasklet: arm the timer for what is    *)
(* left, or note that nothing is, and release the lock.                    *)
recv_reorder_done ==
  /\ rxPc = "drain" /\ ~HeadIsDue
  /\ lock' = "none"
  /\ \/ /\ pending # <<>>
        /\ bReorderWaiting' = TRUE
        /\ armed' = (armed \/ ~bReorderWaiting)
        /\ rxPc' = "idle"
     \/ /\ pending = <<>>
        /\ bReorderWaiting' = FALSE
        /\ rxPc' = "cancel"
        /\ UNCHANGED armed
  /\ UNCHANGED <<tid_rxseq, enable, indicate_seq, pending, ackBit, rxFrame, tmrPc, cmdPc,
                 sta, stopped, hi, base, ordered, last>>

(* _cancel_timer_ex after the lock is released: del_timer_sync waits for a *)
(* running handler.                                                        *)
recv_cancel_timer ==
  /\ rxPc = "cancel" /\ tmrPc = "idle"
  /\ armed' = FALSE
  /\ rxPc' = "idle"
  /\ UNCHANGED <<tid_rxseq, enable, indicate_seq, pending, bReorderWaiting, ackBit, lock,
                 rxFrame, tmrPc, cmdPc, sta, stopped, hi, base, ordered, last>>

(* The window starts that a block ack request may carry.  The peer's own   *)
(* start is at most one frame past the newest it has sent, when it gives   *)
(* up frames that never arrived; a request that is late, or repeated after *)
(* a lost answer, carries a start of up to a window before the peer's      *)
(* oldest outstanding frame.                                               *)
MayBeRequested(n) ==
  /\ n \in Nat
  /\ n > hi - 2 * WSize
  /\ n <= hi + MaxGap + 1 /\ n <= MaxSeq + 1
  /\ pending # <<>> => n - Head(pending) < (SN \div 2) - 1

(* A block ack request: the window starts where it says, whatever the      *)
(* agreement and the window are, and without the lock.  The parked frames  *)
(* wait for the next frame or for the timer.                               *)
rtw_process_bar_frame(n) ==
  /\ RxBar /\ TaskletMayStart /\ sta = "hashed" /\ ~stopped
  /\ MayBeRequested(n)
  /\ indicate_seq' = seq_num(n)
  /\ hi' = IF n - 1 > hi THEN n - 1 ELSE hi
  /\ ordered' = (ordered /\ ~SN_LESS(seq_num(n), indicate_seq))
  /\ last' = IF ordered' THEN last ELSE -1
  /\ UNCHANGED <<tid_rxseq, enable, pending, bReorderWaiting, ackBit, armed, lock,
                 ctxVars, sta, stopped, base>>

-----------------------------------------------------------------------------
(* The timer.                                                              *)

reordering_ctrl_timer_fires ==
  /\ armed /\ TimerMayStart
  /\ armed' = FALSE
  /\ tmrPc' = IF stopped THEN "idle" ELSE "lock"
  /\ UNCHANGED <<tid_rxseq, enable, indicate_seq, pending, bReorderWaiting, ackBit, lock,
                 rxPc, rxFrame, cmdPc, sta, stopped, hi, base, ordered, last>>

(* The forced indication: the window jumps to the oldest parked frame.     *)
(* With an empty queue recv_indicatepkts_in_order returns _TRUE, which the *)
(* handler takes for "frames are left": it arms the timer again.           *)
rtw_reordering_ctrl_timeout_handler_StillWaiting ==
  /\ tmrPc = "lock" /\ lock = "none"
  /\ bReorderWaiting' = bReorderWaiting
  /\ \/ /\ pending = <<>>
        /\ armed' = TRUE
        /\ tmrPc' = "idle"
        /\ UNCHANGED <<indicate_seq, lock>>
     \/ /\ pending # <<>>
        /\ indicate_seq' = seq_num(Head(pending))
        /\ tmrPc' = "drain" /\ lock' = "timer"
        /\ UNCHANGED armed
  /\ UNCHANGED <<tid_rxseq, enable, pending, ackBit, rxPc, rxFrame, cmdPc, sta, stopped,
                 hi, base, ordered, last>>
rtw_reordering_ctrl_timeout_handler ==
  /\ tmrPc = "lock" /\ lock = "none"
  /\ bReorderWaiting' = FALSE
  /\ \/ /\ pending = <<>>
        /\ armed' = TRUE
        /\ tmrPc' = "idle"
        /\ UNCHANGED <<indicate_seq, lock>>
     \/ /\ pending # <<>>
        /\ indicate_seq' = seq_num(Head(pending))
        /\ tmrPc' = "drain" /\ lock' = "timer"
        /\ UNCHANGED armed
  /\ UNCHANGED <<tid_rxseq, enable, pending, ackBit, rxPc, rxFrame, cmdPc, sta, stopped,
                 hi, base, ordered, last>>

(* The loop has ended in the timer handler, which arms the timer again for *)
(* what is left but leaves bReorderWaiting clear.                          *)
timeout_handler_done ==
  /\ tmrPc = "drain" /\ ~HeadIsDue
  /\ lock' = "none" /\ tmrPc' = "idle"
  /\ armed' = (armed \/ pending # <<>>)
  /\ UNCHANGED <<tid_rxseq, enable, indicate_seq, pending, bReorderWaiting, ackBit, rxPc,
                 rxFrame, cmdPc, sta, stopped, hi, base, ordered, last>>

-----------------------------------------------------------------------------
(* Process context.                                                        *)

(* add_ba_rsp_hdl first sends the answer and waits until it is acked; from *)
(* then on the peer's frames belong to the new agreement.                  *)
issue_addba_rsp_wait_ack ==
  /\ ProcessMayRun /\ cmdPc = "idle" /\ sta = "hashed"
  /\ cmdPc' \in {"accept", "reject"}
  /\ base' = hi + 1
  /\ UNCHANGED <<tid_rxseq, drvVars, rxPc, rxFrame, tmrPc, sta, stopped, hi, ordered, last>>

add_ba_rsp_set_bit ==
  /\ ProcessMayRun /\ cmdPc \in {"accept", "reject"}
  /\ ackBit' = TRUE
  /\ cmdPc' = IF cmdPc = "accept" THEN "enable" ELSE "disable"
  /\ UNCHANGED <<tid_rxseq, enable, indicate_seq, pending, bReorderWaiting, armed, lock,
                 rxPc, rxFrame, tmrPc, sta, stopped, hi, base, ordered, last>>

add_ba_rsp_hdl ==
  /\ ProcessMayRun /\ cmdPc \in {"enable", "disable"}
  /\ enable' = (cmdPc = "enable")
  /\ cmdPc' = "idle"
  /\ UNCHANGED <<tid_rxseq, indicate_seq, pending, bReorderWaiting, ackBit, armed, lock,
                 rxPc, rxFrame, tmrPc, sta, stopped, hi, base, ordered, last>>

(* A DELBA of the peer (OnAction_back, in the receive tasklet) or our own  *)
(* (_send_delba_sta_tid): the parked frames and the timer are left alone.  *)
delba ==
  /\ sta = "hashed" /\ enable
  /\ \/ TaskletMayStart
     \/ ProcessMayRun /\ cmdPc = "idle"
  /\ enable' = FALSE
  /\ UNCHANGED <<tid_rxseq, indicate_seq, pending, bReorderWaiting, ackBit, armed, lock,
                 ctxVars, sta, stopped, hi, base, ordered, last>>

(* rtw_joinbss_update_stainfo on a station that is still there.            *)
rtw_joinbss_update_stainfo ==
  /\ ProcessMayRun /\ cmdPc = "idle" /\ sta = "hashed"
  /\ enable' = FALSE /\ indicate_seq' = Unset /\ ackBit' = FALSE
  /\ ordered' = FALSE /\ last' = -1
  /\ UNCHANGED <<tid_rxseq, pending, bReorderWaiting, armed, lock, ctxVars, sta, stopped,
                 hi, base>>

(* rtw_free_stainfo: out of the hash table, ...                            *)
rtw_free_stainfo ==
  /\ ProcessMayRun /\ cmdPc = "idle" /\ sta = "hashed"
  /\ sta' = "unhashed" /\ cmdPc' = "free_cancel"
  /\ UNCHANGED <<tid_rxseq, drvVars, rxPc, rxFrame, tmrPc, stopped, hi, base, ordered, last>>

(* ... the flag cleared and the timer cancelled, ...                       *)
rtw_free_stainfo_cancel ==
  /\ ProcessMayRun /\ cmdPc = "free_cancel" /\ tmrPc = "idle"
  /\ ackBit' = FALSE /\ armed' = FALSE
  /\ cmdPc' = "free_flush"
  /\ UNCHANGED <<tid_rxseq, enable, indicate_seq, pending, bReorderWaiting, lock, rxPc,
                 rxFrame, tmrPc, sta, stopped, hi, base, ordered, last>>

(* ... the parked frames freed under the lock, the record put on the free  *)
(* list.                                                                   *)
rtw_free_stainfo_flush_Keep ==
  /\ ProcessMayRun /\ cmdPc = "free_flush" /\ lock = "none"
  /\ pending' = pending /\ sta' = "free"
  /\ cmdPc' = "idle"
  /\ UNCHANGED <<tid_rxseq, enable, indicate_seq, bReorderWaiting, ackBit, armed, lock,
                 rxPc, rxFrame, tmrPc, stopped, hi, base, ordered, last>>
rtw_free_stainfo_flush ==
  /\ ProcessMayRun /\ cmdPc = "free_flush" /\ lock = "none"
  /\ pending' = <<>> /\ sta' = "free"
  /\ cmdPc' = "idle"
  /\ UNCHANGED <<tid_rxseq, enable, indicate_seq, bReorderWaiting, ackBit, armed, lock,
                 rxPc, rxFrame, tmrPc, stopped, hi, base, ordered, last>>

(* rtw_alloc_stainfo wipes the record and starts with no agreement.        *)
rtw_alloc_stainfo ==
  /\ ProcessMayRun /\ cmdPc = "idle" /\ sta = "free" /\ ~stopped
  /\ sta' = "hashed" /\ tid_rxseq' = Unset
  /\ enable' = FALSE /\ indicate_seq' = Unset /\ pending' = <<>>
  /\ bReorderWaiting' = FALSE /\ ackBit' = FALSE /\ armed' = FALSE
  /\ lock' = "none"
  /\ ordered' = FALSE /\ last' = -1 /\ base' = hi + 1
  /\ UNCHANGED <<ctxVars, stopped, hi>>

(* The driver stops while it goes down or suspends, or in the middle of    *)
(* anything else when a USB transfer ends with a fatal status; it runs     *)
(* again once the stations are gone.                                       *)
rtw_set_drv_stopped ==
  /\ ~stopped /\ stopped' = TRUE
  /\ UNCHANGED <<tid_rxseq, drvVars, ctxVars, sta, hi, base, ordered, last>>

rtw_clr_drv_stopped ==
  /\ ProcessMayRun /\ stopped /\ sta = "free" /\ stopped' = FALSE
  /\ UNCHANGED <<tid_rxseq, drvVars, ctxVars, sta, hi, base, ordered, last>>

-----------------------------------------------------------------------------
Init ==
  /\ enable = FALSE /\ indicate_seq = Unset /\ pending = <<>>
  /\ bReorderWaiting = FALSE /\ ackBit = FALSE /\ armed = FALSE /\ lock = "none"
  /\ tid_rxseq = Unset /\ rxPc = "idle" /\ rxFrame = 0 /\ tmrPc = "idle" /\ cmdPc = "idle"
  /\ sta = "hashed" /\ stopped = FALSE
  /\ hi = FirstSeq - 1 /\ base = FirstSeq
  /\ ordered = FALSE /\ last = -1

Receive ==
  \/ \E n \in (hi - WSize + 1)..(hi + MaxGap) : recv_func_posthandle(n)
  \/ \E n \in (hi - 2 * WSize + 1)..(hi + MaxGap + 1) : rtw_process_bar_frame(n)
  \/ recv_direct
  \/ recv_indicatepkt_reorder
  \/ recv_reorder_done
  \/ recv_cancel_timer

Timer ==
  \/ reordering_ctrl_timer_fires
  \/ rtw_reordering_ctrl_timeout_handler
  \/ timeout_handler_done

Process ==
  \/ issue_addba_rsp_wait_ack \/ add_ba_rsp_set_bit \/ add_ba_rsp_hdl
  \/ delba \/ rtw_joinbss_update_stainfo
  \/ rtw_free_stainfo \/ rtw_free_stainfo_cancel \/ rtw_free_stainfo_flush
  \/ rtw_alloc_stainfo
  \/ rtw_set_drv_stopped \/ rtw_clr_drv_stopped

Next == Receive \/ recv_indicatepkts_in_order \/ Timer \/ Process

Spec == Init /\ [][Next]_vars

(* A peer sends a frame, and a request for it, a bounded number of times:  *)
(* requests that move the window back do not go on for ever.               *)
MovesBack ==
  \E n \in (hi - 2 * WSize + 1)..(hi + MaxGap + 1) :
    SN_LESS(seq_num(n), indicate_seq) /\ rtw_process_bar_frame(n)

LateRequestsEnd == <>[][~MovesBack]_vars

(* A softirq that has started goes on.                                     *)
SoftirqGoesOn ==
  \/ recv_direct \/ recv_indicatepkt_reorder \/ recv_indicatepkts_in_order
  \/ recv_reorder_done \/ recv_cancel_timer
  \/ rtw_reordering_ctrl_timeout_handler \/ timeout_handler_done

(* The kernel's scheduling: besides, TIMER_SOFTIRQ is served in every pass *)
(* of the softirq loop, so an armed timer is not passed over for ever      *)
(* however many frames arrive, and a process that has cancelled the timer  *)
(* of its station gets to the end.                                         *)
Fairness ==
  /\ WF_vars(SoftirqGoesOn)
  /\ SF_vars(reordering_ctrl_timer_fires)
  /\ WF_vars(rtw_free_stainfo_flush)

FairSpec == Spec /\ Fairness /\ LateRequestsEnd

-----------------------------------------------------------------------------
FlagsOK ==
  /\ enable \in BOOLEAN /\ bReorderWaiting \in BOOLEAN /\ ackBit \in BOOLEAN
  /\ armed \in BOOLEAN /\ stopped \in BOOLEAN /\ ordered \in BOOLEAN

ControlOK ==
  /\ lock \in {"none", "rx", "timer"}
  /\ rxPc \in {"idle", "direct", "lock", "drain", "cancel"}
  /\ tmrPc \in {"idle", "lock", "drain"}
  /\ cmdPc \in {"idle", "accept", "reject", "enable", "disable",
                 "free_cancel", "free_flush"}
  /\ sta \in {"hashed", "unhashed", "free"}

DataOK ==
  /\ indicate_seq \in (0..(SN - 1)) \cup {Unset}
  /\ tid_rxseq \in (0..(SN - 1)) \cup {Unset}
  /\ pending \in Seq(Nat) /\ rxFrame \in Nat
  /\ hi \in Int /\ base \in Int /\ last \in Int

(* Every variable stays in its set: the window start is a sequence number  *)
(* of the space or the 0xFFFF of a window not started yet.                 *)
TypeOK == FlagsOK /\ ControlOK /\ DataOK

(* While every frame has gone through the window since it was restarted    *)
(* (recv_indicatepkt_reorder) and no block ack request has moved it back,  *)
(* the loop of recv_indicatepkts_in_order only hands up frames newer than  *)
(* every frame handed up before: the network stack sees no frame twice and *)
(* none out of order, across losses, duplicates, the timeout's forced      *)
(* indications, block ack requests that move the window on and the wrap of *)
(* the sequence space.  In every case the queue it takes them from is      *)
(* sorted by age, without repetitions, although enqueue_reorder_recvframe  *)
(* compares numbers modulo the sequence space and frames of two agreements *)
(* may be mixed in it.                                                     *)
InOrder ==
  /\ \A i, j \in 1..Len(pending) : i < j => pending[i] < pending[j]
  /\ ordered /\ lock # "none" /\ HeadIsDue => last < Head(pending)

(* Under the same condition, whenever the loop of                          *)
(* recv_indicatepkts_in_order ends the frames left in the queue lie        *)
(* strictly inside the window that check_indicate_seq maintains: nothing   *)
(* that could have been indicated stays behind.  And wherever bypasses and *)
(* block ack requests have put the window, the queue never keeps more than *)
(* WSize frames of the receive pool.                                       *)
WindowHolds ==
  /\ ordered /\ lock # "none" /\ ~HeadIsDue =>
       \A i \in 1..Len(pending) :
         (seq_num(pending[i]) - indicate_seq) % SN \in 1..(WSize - 1)
  /\ lock = "none" => Len(pending) <= WSize

(* A frame parked for a station in the hash table never waits without a    *)
(* timer: bReorderWaiting keeps recv_indicatepkt_reorder from arming the   *)
(* timer only when the timer is armed, or its handler is at the lock.      *)
PendingHasTimer ==
  pending # <<>> /\ lock = "none" /\ sta = "hashed" /\ ~stopped =>
    armed \/ tmrPc = "lock"

(* What rtw_free_stainfo promises when it puts the record on the free      *)
(* list ("cancel reordering_ctrl_timer"): no frame is left in the queue,   *)
(* the timer is not armed and its handler is not running.                  *)
FreedIsQuiet ==
  sta = "free" => pending = <<>> /\ ~armed /\ tmrPc = "idle"

(* What the comment in recv_indicatepkt_reorder says of the parked frames: *)
(* frames with a number smaller than the window start are indicated, only  *)
(* the others are buffered.                                                *)
BufferedNotBelowWindow ==
  lock = "none" /\ rxPc = "idle" /\ indicate_seq # Unset =>
    \A i \in 1..Len(pending) : ~SN_LESS(seq_num(pending[i]), indicate_seq)

(* Every parked frame leaves the queue, by delivery or with its station,   *)
(* unless the driver stops: no gap holds a frame for ever, whatever other  *)
(* frames do with the timer meanwhile.                                     *)
ParkedFramesLeave ==
  \A n \in FirstSeq..MaxSeq :
    (\E i \in 1..Len(pending) : pending[i] = n)
      ~> (stopped \/ \A i \in 1..Len(pending) : pending[i] # n)

-----------------------------------------------------------------------------
(* Inductive strengthenings.                                               *)

(* PendingHasTimer holds because bReorderWaiting is only ever set with the *)
(* timer armed, and a context that is about to cancel the timer has left   *)
(* nothing parked.                                                         *)
TimerInv ==
  /\ lock = "rx" => rxPc = "drain"
  /\ lock = "timer" => tmrPc = "drain"
  /\ rxPc = "cancel" => ~bReorderWaiting /\ pending = <<>>
  /\ cmdPc \in {"free_cancel", "free_flush"} => sta = "unhashed"
  /\ sta = "hashed" /\ ~stopped /\ bReorderWaiting => armed \/ tmrPc = "lock"
  /\ PendingHasTimer

(* FreedIsQuiet holds on one CPU because process context can only unhash   *)
(* the station between two softirqs, after which no frame finds it.        *)
QuietInv ==
  /\ rxPc # "idle" => tmrPc = "idle" /\ sta = "hashed"
  /\ cmdPc \in {"free_cancel", "free_flush"} => sta = "unhashed"
  /\ cmdPc = "free_flush" => ~armed /\ tmrPc = "idle"
  /\ FreedIsQuiet

(* The first part of InOrder holds because the parked frames are close     *)
(* enough to each other and to the newest frame for a comparison modulo    *)
(* the sequence space to be one of ages.                                   *)
SortInv ==
  /\ \A i, j \in 1..Len(pending) : i < j => pending[i] < pending[j]
  /\ \A i \in 1..Len(pending) : pending[i] <= hi /\ hi - pending[i] < (SN \div 2) - 1
  /\ rxPc \in {"lock", "direct"} => rxFrame <= hi /\ hi - rxFrame < WSize

(* On one CPU a softirq that has the lock gives it back before another     *)
(* context sees the window.                                                *)
OneContext ==
  /\ rxPc # "idle" => tmrPc = "idle"
  /\ lock = "rx" <=> rxPc = "drain"
  /\ lock = "timer" <=> tmrPc = "drain"

(* w is the frame at the start of the window: of the frames with that      *)
(* number the newest one that can have been there.  Of two parked frames a *)
(* window or more apart the newer is one that the window has just moved    *)
(* for, and the older one is due.                                          *)
StartsAt(w) ==
  /\ indicate_seq = w % SN
  /\ \A i, j \in 1..Len(pending) :
       pending[j] - pending[i] >= WSize => pending[j] - w < WSize
  /\ ordered => last < w /\ \A i \in 1..Len(pending) : pending[i] - w < WSize

(* WindowHolds and the second part of InOrder hold because the parked      *)
(* frames do not reach beyond the window while it only moves on, wherever  *)
(* restarts and timeouts put it, and span less than a window whenever      *)
(* nobody is in the loop, so that a timeout may move it back to the oldest *)
(* one.                                                                    *)
WindowInv ==
  /\ indicate_seq # Unset => \E w \in (hi + 2 - SN)..(hi + 1) : StartsAt(w)
  /\ ordered => indicate_seq # Unset /\ \A i \in 1..Len(pending) : last < pending[i]
  /\ lock = "none" => \A i, j \in 1..Len(pending) : pending[j] - pending[i] < WSize
  /\ lock # "none" => indicate_seq # Unset
  /\ rxPc = "direct" => ~ordered /\ indicate_seq = seq_num(rxFrame)
=============================================================================
