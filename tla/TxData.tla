------------------------------- MODULE TxData -------------------------------
(***************************************************************************)
(* The data transmit path: core/rtw_xmit.c between the kernel's            *)
(* transmit queues (os_dep/linux/xmit_linux.c) and the USB bulk pipes      *)
(* (hal/rtl8188f/usb, os_dep/linux/usb_ops_linux.c).                       *)
(*                                                                         *)
(* Two pools meet here.  A packet needs a struct xmit_frame; when the free *)
(* list runs low the kernel's queue is stopped, and every frame that is    *)
(* given back wakes the queue it belonged to.  A transfer needs a struct   *)
(* xmit_buf; without one, or while the radio is off the channel, the frame *)
(* waits in the station's queue, and somebody has to start the transmit    *)
(* tasklet later.  Nothing polls: a missed wake-up is a stalled network.   *)
(*                                                                         *)
(* Contexts: one transmit entry per kernel queue (the kernel serialises    *)
(* the calls of a queue), the transmit tasklet, and a process that frees   *)
(* the station.  One associated station is modelled, and a kernel queue    *)
(* and the access category it is mapped to are the same thing.             *)
(***************************************************************************)
EXTENDS Integers, Sequences, FiniteSets

CONSTANTS
  Frames,     \* the xmit_frames of free_xmit_queue
  Queues,     \* the kernel queues in use, among those of hwxmits
  NBuf,       \* xmit_bufs of free_xmitbuf_queue: NR_XMITBUFF
  StopLevel,  \* rtw_os_need_stop_queue stops at this many free frames: 4
  SMP         \* FALSE: the contexts exclude each other (one CPU, and the
              \* transmit entry runs with softirqs disabled)

ASSUME TxAssumption ==
  /\ Queues \subseteq {"vo", "vi", "be", "bk"} /\ Queues # {}
  /\ IsFiniteSet(Frames)
  /\ NBuf \in Nat \ {0} /\ StopLevel \in Nat /\ SMP \in BOOLEAN

VARIABLES
  free_xmit_queue,  \* free frames, a FIFO list
  os_qid,           \* of each frame: the kernel queue it was allocated for
  netif_stopped,    \* kernel queues that are stopped
  sta_pending,      \* per queue: frames waiting in the station's queue
  free_xmitbuf_cnt, \* free buffers
  inflight,         \* buffers in a submitted URB
  hasBuf,           \* contexts that hold a buffer
  pc, hold,         \* per context: where it is, the frames in its hands
  lock,             \* holder of pxmitpriv->lock across several steps
  sched,            \* xmit_tasklet is scheduled
  blocked,          \* rtw_xmit_ac_blocked: scan, off-channel, channel switch
  linking,          \* DEV_STA_LG_NUM
  resched,          \* ends of such a phase whose event has not been handled
  assoc,            \* WIFI_ASOC_STATE of the station
  flushed,          \* pending_qcnt of rtw_free_stainfo: queues it found in use
  stopped,          \* RTW_CANNOT_TX(padapter)
  older             \* history: pairs of frames in use, the first allocated before the second

poolVars == <<free_xmit_queue, os_qid, netif_stopped, older>>
bufVars == <<free_xmitbuf_cnt, inflight, hasBuf>>
phaseVars == <<blocked, linking, resched>>
vars == <<poolVars, sta_pending, bufVars, pc, hold, lock, sched, phaseVars, assoc,
          flushed, stopped>>

Ctx == Queues \cup {"tasklet", "flush"}

MayStart(c) == pc[c] = "idle" /\ (SMP \/ \A d \in Ctx : pc[d] = "idle")
ProcessMayRun == SMP \/ \A d \in Ctx : pc[d] = "idle"

rtw_txframes_pending == \E q \in Queues : sta_pending[q] # <<>>

-----------------------------------------------------------------------------
(* Frames: allocation by the transmit entry of queue q.                    *)

InUse == Frames \ {free_xmit_queue[i] : i \in DOMAIN free_xmit_queue}

(* rtw_xmit of a linked interface.  A packet that finds the list empty is  *)
(* dropped, which changes nothing.                                         *)
rtw_alloc_xmitframe(q) ==
  /\ MayStart(q) /\ ~netif_stopped[q] /\ assoc
  /\ free_xmit_queue # <<>>
  /\ LET f == Head(free_xmit_queue) IN
       /\ os_qid' = [os_qid EXCEPT ![f] = q]
       /\ hold' = [hold EXCEPT ![q] = <<f>>]
       /\ older' = older \cup (InUse \X {f})
  /\ free_xmit_queue' = Tail(free_xmit_queue)
  /\ pc' = [pc EXCEPT ![q] = "check"]
  /\ UNCHANGED <<netif_stopped, sta_pending, bufVars, lock, sched, phaseVars, assoc, flushed,
                 stopped>>

(* rtw_os_check_stop_queue, after the list's lock was released: look, ...  *)
rtw_os_need_stop_queue == Len(free_xmit_queue) <= StopLevel

rtw_os_check_stop_queue(q) ==
  /\ pc[q] = "check"
  /\ pc' = [pc EXCEPT ![q] = IF rtw_os_need_stop_queue THEN "stop" ELSE "xmit"]
  /\ UNCHANGED <<poolVars, sta_pending, bufVars, hold, lock, sched, phaseVars, assoc, flushed,
                 stopped>>

(* ... and stop.                                                           *)
netif_stop_subqueue(q) ==
  /\ pc[q] = "stop"
  /\ netif_stopped' = [netif_stopped EXCEPT ![q] = TRUE]
  /\ pc' = [pc EXCEPT ![q] = "xmit"]
  /\ UNCHANGED <<free_xmit_queue, os_qid, older, sta_pending, bufVars, hold, lock, sched,
                 phaseVars, assoc, flushed,
                 stopped>>

(* update_attrib or rtw_br_client_tx rejects the packet.                   *)
rtw_xmit_fails(q) ==
  /\ pc[q] = "xmit"
  /\ pc' = [pc EXCEPT ![q] = "free"]
  /\ UNCHANGED <<poolVars, sta_pending, bufVars, hold, lock, sched, phaseVars, assoc, flushed,
                 stopped>>

(* pre_xmitframe, under pxmitpriv->lock: a frame goes straight to the bus  *)
(* only if none of its category waits, the channel is free for data and a  *)
(* buffer is left.  The queue of a station that has just gone takes        *)
(* nothing.                                                                *)
MustQueue_IgnorePending(q) == blocked \/ linking \/ free_xmitbuf_cnt = 0
MustQueue(q) ==
  \/ assoc /\ sta_pending[q] # <<>>
  \/ blocked \/ linking \/ free_xmitbuf_cnt = 0

pre_xmitframe(q) ==
  /\ pc[q] = "xmit" /\ lock = "none"
  /\ \/ /\ ~MustQueue(q)
        /\ free_xmitbuf_cnt' = free_xmitbuf_cnt - 1
        /\ hasBuf' = hasBuf \cup {q}
        /\ pc' = [pc EXCEPT ![q] = "write"]
        /\ UNCHANGED <<sta_pending, hold>>
     \/ /\ MustQueue(q) /\ assoc
        /\ sta_pending' = [sta_pending EXCEPT ![q] = Append(@, Head(hold[q]))]
        /\ hold' = [hold EXCEPT ![q] = <<>>]
        /\ pc' = [pc EXCEPT ![q] = "idle"]
        /\ UNCHANGED <<free_xmitbuf_cnt, hasBuf>>
     \/ /\ MustQueue(q) /\ ~assoc
        /\ pc' = [pc EXCEPT ![q] = "free"]
        /\ UNCHANGED <<sta_pending, hold, free_xmitbuf_cnt, hasBuf>>
  /\ UNCHANGED <<poolVars, inflight, lock, sched, phaseVars, assoc, flushed,
                 stopped>>

(* rtw_xmitframe_coalesce and usb_write_port.  The frame is done with in   *)
(* either case; the buffer is kept by a submitted URB and given back after *)
(* any failure.                                                            *)
BufBack_Leak == free_xmitbuf_cnt
BufBack_Twice == free_xmitbuf_cnt + 2
BufBack == free_xmitbuf_cnt + 1

usb_write_port(c) ==
  /\ pc[c] = "write"
  /\ hasBuf' = hasBuf \ {c}
  /\ \/ /\ ~stopped
        /\ inflight' = inflight + 1
        /\ UNCHANGED free_xmitbuf_cnt
     \/ /\ free_xmitbuf_cnt' = BufBack
        /\ UNCHANGED inflight
  /\ pc' = [pc EXCEPT ![c] = "free"]
  /\ UNCHANGED <<poolVars, sta_pending, hold, lock, sched, phaseVars, assoc, flushed,
                 stopped>>

(* rtw_free_xmitframe: back on the list, ...                               *)
rtw_free_xmitframe(c) ==
  /\ pc[c] = "free"
  /\ free_xmit_queue' = Append(free_xmit_queue, Head(hold[c]))
  /\ older' = {p \in older : Head(hold[c]) \notin {p[1], p[2]}}
  /\ pc' = [pc EXCEPT ![c] = "wake"]
  /\ UNCHANGED <<os_qid, netif_stopped, sta_pending, bufVars, hold, lock, sched,
                 phaseVars, assoc, flushed,
                 stopped>>

(* ... and then, without the list's lock, os_qid is read from the frame    *)
(* and that queue is woken.  The context goes on where it was: the tasklet *)
(* holds its first frame while it appends others to the buffer, and keeps  *)
(* an unused buffer for the next frame.                                    *)
AfterWake(c) ==
  IF c \in Queues THEN "idle"
  ELSE IF c = "flush" THEN "flush"
  ELSE IF Tail(hold[c]) # <<>> THEN "agg"
  ELSE IF c \in hasBuf THEN "deq" ELSE "loop"

rtw_os_check_wakup_queue(c) ==
  /\ pc[c] = "wake"
  /\ netif_stopped' = [netif_stopped EXCEPT ![os_qid[Head(hold[c])]] = FALSE]
  /\ hold' = [hold EXCEPT ![c] = Tail(@)]
  /\ pc' = [pc EXCEPT ![c] = AfterWake(c)]
  /\ UNCHANGED <<free_xmit_queue, os_qid, older, sta_pending, bufVars, lock, sched,
                 phaseVars, assoc, flushed,
                 stopped>>

-----------------------------------------------------------------------------
(* The tasklet.                                                            *)

xmit_tasklet_starts ==
  /\ sched /\ MayStart("tasklet")
  /\ sched' = FALSE
  /\ pc' = [pc EXCEPT !["tasklet"] = "loop"]
  /\ UNCHANGED <<poolVars, sta_pending, bufVars, hold, lock, phaseVars, assoc, flushed,
                 stopped>>

(* rtl8188fu_xmit_tasklet: one turn of its loop begins with a buffer.      *)
rtl8188fu_xmit_tasklet ==
  /\ pc["tasklet"] = "loop"
  /\ \/ /\ stopped \/ blocked \/ free_xmitbuf_cnt = 0
        /\ pc' = [pc EXCEPT !["tasklet"] = "idle"]
        /\ UNCHANGED <<free_xmitbuf_cnt, hasBuf>>
     \/ /\ ~stopped /\ ~blocked /\ free_xmitbuf_cnt > 0
        /\ free_xmitbuf_cnt' = free_xmitbuf_cnt - 1
        /\ hasBuf' = hasBuf \cup {"tasklet"}
        /\ pc' = [pc EXCEPT !["tasklet"] = "deq"]
  /\ UNCHANGED <<poolVars, sta_pending, inflight, hold, lock, sched, phaseVars, assoc,
                 stopped, flushed>>

(* rtw_dequeue_xframe serves the categories by priority.  A frame that     *)
(* cannot be coalesced is freed and the next one is taken; with none left  *)
(* the buffer goes back.                                                   *)
hwxmits == <<"vo", "vi", "be", "bk">>

HasPending(i) == hwxmits[i] \in Queues /\ sta_pending[hwxmits[i]] # <<>>

FirstQueue ==
  hwxmits[CHOOSE i \in DOMAIN hwxmits : HasPending(i) /\ \A j \in 1..i - 1 : ~HasPending(j)]

rtw_dequeue_xframe ==
  /\ pc["tasklet"] = "deq" /\ lock = "none"
  /\ \/ /\ ~rtw_txframes_pending
        /\ free_xmitbuf_cnt' = BufBack
        /\ hasBuf' = hasBuf \ {"tasklet"}
        /\ pc' = [pc EXCEPT !["tasklet"] = "idle"]
        /\ UNCHANGED <<sta_pending, hold>>
     \/ /\ rtw_txframes_pending
        /\ hold' = [hold EXCEPT !["tasklet"] = <<Head(sta_pending[FirstQueue])>>]
        /\ sta_pending' = [sta_pending EXCEPT ![FirstQueue] = Tail(@)]
        /\ \E r \in {"free", "agg"} : pc' = [pc EXCEPT !["tasklet"] = r]
        /\ UNCHANGED <<free_xmitbuf_cnt, hasBuf>>
  /\ UNCHANGED <<poolVars, inflight, lock, sched, phaseVars, assoc, flushed,
                 stopped>>

(* rtl8188fu_xmitframe_complete appends further frames of the same queue   *)
(* to the buffer, under pxmitpriv->lock, and frees each at once.           *)
aggregate ==
  LET q == os_qid[Head(hold["tasklet"])] IN
  /\ pc["tasklet"] = "agg" /\ lock \in {"none", "tasklet"}
  /\ \/ /\ sta_pending[q] # <<>>
        /\ hold' = [hold EXCEPT !["tasklet"] = <<Head(sta_pending[q])>> \o @]
        /\ sta_pending' = [sta_pending EXCEPT ![q] = Tail(@)]
        /\ lock' = "tasklet"
        /\ pc' = [pc EXCEPT !["tasklet"] = "free"]
     \/ /\ lock' = "none"
        /\ pc' = [pc EXCEPT !["tasklet"] = "write"]
        /\ UNCHANGED <<hold, sta_pending>>
  /\ UNCHANGED <<poolVars, bufVars, sched, phaseVars, assoc, flushed,
                 stopped>>

(* An URB ends, whatever its status: its buffer is free again and the      *)
(* tasklet is scheduled, even while the driver is stopping.                *)
CompleteSched_None == sched
CompleteSched == TRUE

usb_write_port_complete ==
  /\ inflight > 0
  /\ inflight' = inflight - 1
  /\ free_xmitbuf_cnt' = free_xmitbuf_cnt + 1
  /\ sched' = CompleteSched
  /\ UNCHANGED <<poolVars, hasBuf, sta_pending, pc, hold, lock, phaseVars, assoc, flushed,
                 stopped>>

-----------------------------------------------------------------------------
(* Phases without data, each ended by an event that the command thread     *)
(* turns into rtw_mi_os_xmit_schedule some time later.                     *)

(* sitesurvey leaves SCAN_DISABLE, rtw_leave_opch, a channel switch.  The  *)
(* end of the phase before has been handled: the command queue is a FIFO   *)
(* and rtw_back_opch schedules before it releases offch_mutex.             *)
rtw_leave_opch ==
  /\ ProcessMayRun /\ "scan" \notin resched
  /\ ~blocked /\ blocked' = TRUE
  /\ UNCHANGED <<poolVars, sta_pending, bufVars, pc, hold, lock, sched, linking, resched,
                 assoc, flushed,
                 stopped>>

rtw_back_opch_NoEvent ==
  /\ ProcessMayRun /\ blocked /\ blocked' = FALSE
  /\ resched' = resched
  /\ UNCHANGED <<poolVars, sta_pending, bufVars, pc, hold, lock, sched, linking, assoc,
                 stopped, flushed>>
rtw_back_opch ==
  /\ ProcessMayRun /\ blocked /\ blocked' = FALSE
  /\ resched' = resched \cup {"scan"}
  /\ UNCHANGED <<poolVars, sta_pending, bufVars, pc, hold, lock, sched, linking, assoc,
                 stopped, flushed>>

(* WIFI_UNDER_LINKING while frames of the station are still queued.        *)
rtw_joinbss_begins ==
  /\ ProcessMayRun /\ "join" \notin resched
  /\ ~linking /\ linking' = TRUE
  /\ UNCHANGED <<poolVars, sta_pending, bufVars, pc, hold, lock, sched, blocked, resched,
                 assoc, flushed,
                 stopped>>

rtw_joinbss_ends ==
  /\ ProcessMayRun /\ linking /\ linking' = FALSE
  /\ resched' = resched \cup {"join"}
  /\ UNCHANGED <<poolVars, sta_pending, bufVars, pc, hold, lock, sched, blocked, assoc,
                 stopped, flushed>>

(* rtw_os_xmit_schedule takes the lock before it looks at the queues.      *)
rtw_os_xmit_schedule ==
  /\ ProcessMayRun /\ lock = "none"
  /\ \E e \in resched : resched' = resched \ {e}
  /\ sched' = (sched \/ rtw_txframes_pending)
  /\ UNCHANGED <<poolVars, sta_pending, bufVars, pc, hold, lock, blocked, linking, assoc,
                 stopped, flushed>>

-----------------------------------------------------------------------------
(* rtw_free_stainfo: the station is marked gone, ...                       *)
rtw_free_stainfo ==
  /\ MayStart("flush") /\ assoc
  /\ assoc' = FALSE
  /\ pc' = [pc EXCEPT !["flush"] = "lock"]
  /\ UNCHANGED <<poolVars, sta_pending, bufVars, hold, lock, sched, phaseVars, flushed,
                 stopped>>

rtw_free_stainfo_lock ==
  /\ pc["flush"] = "lock" /\ lock = "none"
  /\ lock' = "flush"
  /\ flushed' = {q \in Queues : sta_pending[q] # <<>>}
  /\ pc' = [pc EXCEPT !["flush"] = "flush"]
  /\ UNCHANGED <<poolVars, sta_pending, bufVars, hold, sched, phaseVars, assoc, stopped>>

(* ... its queues are emptied under the lock, one frame after another, and *)
(* rtw_os_wake_queue_at_free_stainfo wakes those that had any.             *)
rtw_free_xmitframe_queue ==
  /\ pc["flush"] = "flush"
  /\ \/ \E q \in Queues :
          /\ sta_pending[q] # <<>>
          /\ hold' = [hold EXCEPT !["flush"] = <<Head(sta_pending[q])>>]
          /\ sta_pending' = [sta_pending EXCEPT ![q] = Tail(@)]
          /\ pc' = [pc EXCEPT !["flush"] = "free"]
          /\ UNCHANGED <<lock, flushed, netif_stopped>>
     \/ /\ ~rtw_txframes_pending
        /\ netif_stopped' = [q \in Queues |-> netif_stopped[q] /\ q \notin flushed]
        /\ flushed' = {} /\ lock' = "none"
        /\ pc' = [pc EXCEPT !["flush"] = "idle"]
        /\ UNCHANGED <<hold, sta_pending>>
  /\ UNCHANGED <<free_xmit_queue, os_qid, older, bufVars, sched, phaseVars, assoc, stopped>>

(* Associated again.                                                       *)
rtw_alloc_stainfo ==
  /\ MayStart("flush") /\ ~assoc /\ assoc' = TRUE
  /\ UNCHANGED <<poolVars, sta_pending, bufVars, pc, hold, lock, sched, phaseVars, flushed,
                 stopped>>

(* A fatal USB status, or the interface going down.                        *)
rtw_set_drv_stopped ==
  /\ ~stopped /\ stopped' = TRUE
  /\ UNCHANGED <<poolVars, sta_pending, bufVars, pc, hold, lock, sched, phaseVars, assoc, flushed>>

-----------------------------------------------------------------------------
Init ==
  /\ free_xmit_queue = CHOOSE s \in [1..Cardinality(Frames) -> Frames] :
                         \A i, j \in DOMAIN s : s[i] = s[j] => i = j
  /\ os_qid = [f \in Frames |-> CHOOSE q \in Queues : TRUE]
  /\ netif_stopped = [q \in Queues |-> FALSE] /\ older = {}
  /\ sta_pending = [q \in Queues |-> <<>>]
  /\ free_xmitbuf_cnt = NBuf /\ inflight = 0 /\ hasBuf = {}
  /\ pc = [c \in Ctx |-> "idle"] /\ hold = [c \in Ctx |-> <<>>]
  /\ lock = "none" /\ sched = FALSE
  /\ blocked = FALSE /\ linking = FALSE /\ resched = {}
  /\ assoc = TRUE /\ flushed = {} /\ stopped = FALSE

Entry(q) ==
  \/ rtw_os_check_stop_queue(q) \/ netif_stop_subqueue(q)
  \/ rtw_xmit_fails(q) \/ pre_xmitframe(q)

GiveBack(c) == usb_write_port(c) \/ rtw_free_xmitframe(c) \/ rtw_os_check_wakup_queue(c)

Tasklet == rtl8188fu_xmit_tasklet \/ rtw_dequeue_xframe \/ aggregate

Flush == rtw_free_stainfo_lock \/ rtw_free_xmitframe_queue

Phase ==
  \/ rtw_leave_opch \/ rtw_back_opch \/ rtw_joinbss_begins \/ rtw_joinbss_ends
  \/ rtw_os_xmit_schedule

Next ==
  \/ \E q \in Queues : rtw_alloc_xmitframe(q) \/ Entry(q)
  \/ \E c \in Ctx : GiveBack(c)
  \/ xmit_tasklet_starts \/ Tasklet \/ usb_write_port_complete
  \/ Phase
  \/ rtw_free_stainfo \/ Flush \/ rtw_alloc_stainfo \/ rtw_set_drv_stopped

Spec == Init /\ [][Next]_vars

(* A context that runs goes on and URBs end.  Scans and joins end and      *)
(* their events are handled; between two of them lies more time than the   *)
(* tasklet needs to start.                                                 *)
Fairness ==
  /\ \A q \in Queues : WF_vars(Entry(q))
  /\ \A c \in Ctx : WF_vars(GiveBack(c))
  /\ WF_vars(Tasklet) /\ WF_vars(Flush)
  /\ WF_vars(usb_write_port_complete)
  /\ SF_vars(rtw_back_opch) /\ SF_vars(rtw_joinbss_ends) /\ SF_vars(rtw_os_xmit_schedule)
  /\ SF_vars(xmit_tasklet_starts /\ ~blocked) /\ SF_vars(xmit_tasklet_starts)

FairSpec == Spec /\ Fairness

-----------------------------------------------------------------------------
TypeOK ==
  /\ free_xmit_queue \in Seq(Frames) /\ os_qid \in [Frames -> Queues]
  /\ netif_stopped \in [Queues -> BOOLEAN] /\ older \subseteq Frames \X Frames
  /\ sta_pending \in [Queues -> Seq(Frames)]
  /\ free_xmitbuf_cnt \in 0..NBuf /\ inflight \in 0..NBuf /\ hasBuf \subseteq Ctx
  /\ pc \in [Ctx -> {"idle", "check", "stop", "xmit", "write", "free", "wake",
                     "loop", "deq", "agg", "lock", "flush"}]
  /\ hold \in [Ctx -> Seq(Frames)] /\ lock \in {"none", "tasklet", "flush"}
  /\ sched \in BOOLEAN /\ blocked \in BOOLEAN /\ linking \in BOOLEAN
  /\ resched \subseteq {"scan", "join"} /\ assoc \in BOOLEAN
  /\ flushed \subseteq Queues /\ stopped \in BOOLEAN

(* No buffer is lost or given back twice, whichever of the failures of     *)
(* coalescing, submission and completion happen: all are free, in an URB   *)
(* or in the hands of one context.                                         *)
BuffersConserved ==
  free_xmitbuf_cnt + inflight + Cardinality(hasBuf) = NBuf

(* Frames of one queue reach the bus in the order in which the kernel      *)
(* handed them down: one that goes out directly never overtakes those that *)
(* wait (pre_xmitframe looks at sta_pending).                              *)
TxInOrder ==
  \A c \in Ctx : pc[c] = "write" =>
    \A f \in Frames : <<f, Head(hold[c])>> \in older => os_qid[f] # os_qid[Head(hold[c])]

Waits(f, q) == \E i \in DOMAIN sta_pending[q] : sta_pending[q][i] = f

(* The other categories never stop sending: those of higher priority are   *)
(* served first, and a frame of any category that finds a free buffer and  *)
(* nothing of its own category waiting takes the buffer.                   *)
Starved(q) == []<>(\E p \in Queues \ {q} : sta_pending[p] # <<>> \/ pc[p] = "write")

(* A frame that waits in the station's queue is not forgotten: it leaves   *)
(* the queue, unless the driver stops or the other categories starve it.   *)
QueuedFramesLeave ==
  \A q \in Queues, f \in Frames :
    Starved(q) \/ (Waits(f, q) ~> stopped \/ ~Waits(f, q))

(* The kernel's queue does not stay stopped, with the same exceptions.     *)
StoppedQueueWakes ==
  \A q \in Queues : Starved(q) \/ (netif_stopped[q] ~> stopped \/ ~netif_stopped[q])
=============================================================================
