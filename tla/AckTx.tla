-------------------------------- MODULE AckTx -------------------------------
(***************************************************************************)
(* Management frames whose sender waits for their fate: core/rtw_mlme_ext.c*)
(* dump_mgntframe_and_wait (the USB transfer has ended) and                *)
(* dump_mgntframe_and_wait_ack (the peer has acknowledged the frame), the  *)
(* pool of xmit_bufs for management frames in core/rtw_xmit.c, and the TX  *)
(* reports of the firmware.                                                *)
(*                                                                         *)
(* A waiter of the first kind leaves a pointer to a submit_ctx on its own  *)
(* stack in the buffer; the buffer outlives the wait when that times out.  *)
(* Waiters of the second kind share one submit_ctx, ack_tx_ops, under      *)
(* ack_tx_mutex; the report that completes it may come after its frame's   *)
(* wait is over.                                                           *)
(***************************************************************************)
EXTENDS Integers, Sequences, FiniteSets

CONSTANTS
  Waiters,     \* processes in dump_mgntframe_and_wait
  Ackers,      \* processes in dump_mgntframe_and_wait_ack
  Bufs,        \* buffers of free_xmit_extbuf_queue
  SeqMod,      \* seq_no wraps here (256); the reports under way are fewer
  LateReports  \* a wait may end before the report of its frame arrives

NoOne == "none"
Procs == Waiters \cup Ackers

ASSUME AckAssumption ==
  /\ Waiters \cap Ackers = {} /\ NoOne \notin Procs /\ IsFiniteSet(Bufs) /\ Bufs # {}
  /\ SeqMod \in Nat \ {0} /\ LateReports \in BOOLEAN

VARIABLES
  pc, buf,             \* per process
  ret,                 \* per process: what the last call returned
  done, status,        \* per waiter: the submit_ctx on its stack
  free_xmit_extbuf_queue,
  parked,              \* buffers of frames in the queues of dozing stations
  urb,                 \* buffers in a submitted URB
  sctx,                \* per buffer: whose submit_ctx it points to
  ack_tx, ack_tx_mutex, ackDone, ackStatus,  \* ackDone: completion of ack_tx_ops
  seq_no,              \* the static counter
  mySeq,               \* per acker: sequence number of its frame
  ackReq,              \* per buffer: the number of a frame with ack_report, or -1
  air,                 \* frames with ack_report that the chip is sending
  reports,             \* TX reports that the driver has not seen
  acked,               \* history, per acker: the peer acknowledged its frame
  stopped              \* RTW_CANNOT_RUN(padapter)

bufVars == <<free_xmit_extbuf_queue, parked, urb, sctx, ackReq>>
ackVars == <<ack_tx, ack_tx_mutex, ackDone, ackStatus>>
chipVars == <<air, reports, acked>>
vars == <<pc, buf, ret, done, status, bufVars, ackVars, seq_no, mySeq, chipVars, stopped>>

(* rtw_sctx_done_err for the submit_ctx a buffer points to, if any.        *)
rtw_sctx_done_err(b, st) ==
  /\ done' = IF sctx[b] = NoOne THEN done ELSE [done EXCEPT ![sctx[b]] = TRUE]
  /\ status' = IF sctx[b] = NoOne THEN status ELSE [status EXCEPT ![sctx[b]] = st]

-----------------------------------------------------------------------------
(* alloc_mgtxmitframe takes the first buffer; one that still carries a     *)
(* pointer tells its owner so.                                             *)
rtw_alloc_xmitbuf_ext(p) ==
  /\ pc[p] = "idle" /\ free_xmit_extbuf_queue # <<>>
  /\ LET b == Head(free_xmit_extbuf_queue) IN
       /\ buf' = [buf EXCEPT ![p] = b]
       /\ rtw_sctx_done_err(b, "BUF_ALLOC")
       /\ sctx' = [sctx EXCEPT ![b] = NoOne]
       /\ ackReq' = [ackReq EXCEPT ![b] = -1]
  /\ free_xmit_extbuf_queue' = Tail(free_xmit_extbuf_queue)
  /\ pc' = [pc EXCEPT ![p] = "dump"]
  /\ UNCHANGED <<ret, parked, urb, ackVars, seq_no, mySeq, chipVars, stopped>>

(* The entry of both functions: a stopped driver frees the frame.          *)
dump_stopped(p) ==
  /\ pc[p] = "dump" /\ stopped
  /\ free_xmit_extbuf_queue' = Append(free_xmit_extbuf_queue, buf[p])
  /\ ret' = [ret EXCEPT ![p] = "FAIL"]
  /\ pc' = [pc EXCEPT ![p] = "idle"]
  /\ UNCHANGED <<buf, done, status, parked, urb, sctx, ackReq, ackVars, seq_no, mySeq, chipVars,
                 stopped>>

dump_mgntframe_and_wait(p) ==
  /\ p \in Waiters /\ pc[p] = "dump" /\ ~stopped
  /\ done' = [done EXCEPT ![p] = FALSE]
  /\ status' = [status EXCEPT ![p] = "SUBMITTED"]
  /\ sctx' = [sctx EXCEPT ![buf[p]] = p]
  /\ pc' = [pc EXCEPT ![p] = "xmit"]
  /\ UNCHANGED <<buf, ret, free_xmit_extbuf_queue, parked, urb, ackReq, ackVars, seq_no, mySeq,
                 chipVars, stopped>>

(* The check for a stopped driver is before the mutex and not repeated.    *)
dump_mgntframe_and_wait_ack_timeout(p) ==
  /\ p \in Ackers /\ pc[p] = "dump" /\ ~stopped
  /\ pc' = [pc EXCEPT ![p] = "mutex"]
  /\ UNCHANGED <<buf, ret, done, status, bufVars, ackVars, seq_no, mySeq, chipVars, stopped>>

NextSeq_NoWrap(n) == n + 1
NextSeq(n) == (n + 1) % SeqMod

ack_tx_mutex_enter(p) ==
  /\ pc[p] = "mutex" /\ ack_tx_mutex = NoOne
  /\ seq_no \notin air \cup {r.seq : r \in reports} \cup {ackReq[b] : b \in Bufs}
  /\ ack_tx_mutex' = p /\ ack_tx' = TRUE
  /\ ackDone' = FALSE /\ ackStatus' = "SUBMITTED"
  /\ mySeq' = [mySeq EXCEPT ![p] = seq_no]
  /\ seq_no' = NextSeq(seq_no)
  /\ ackReq' = [ackReq EXCEPT ![buf[p]] = seq_no]
  /\ acked' = [acked EXCEPT ![p] = FALSE]
  /\ pc' = [pc EXCEPT ![p] = "xmit"]
  /\ UNCHANGED <<buf, ret, done, status, free_xmit_extbuf_queue, parked, urb, sctx, air, reports,
                 stopped>>

BufBack_Twice(b) == free_xmit_extbuf_queue \o <<b, b>>
BufBack(b) == Append(free_xmit_extbuf_queue, b)

(* rtw_dump_xframe and usb_write_port.  When the URB cannot be submitted,  *)
(* the pointer is completed and the buffer freed, and -ENODEV stops the    *)
(* driver.  The frame has one fragment, so rtw_dump_xframe reports success *)
(* all the same and the caller waits.                                      *)
usb_write_port(b) ==
  \/ /\ ~stopped
     /\ urb' = urb \cup {b}
     /\ UNCHANGED <<done, status, sctx, ackReq, free_xmit_extbuf_queue, stopped>>
  \/ /\ rtw_sctx_done_err(b, "WRITE_PORT_ERR")
     /\ sctx' = [sctx EXCEPT ![b] = NoOne]
     /\ ackReq' = [ackReq EXCEPT ![b] = -1]
     /\ free_xmit_extbuf_queue' = BufBack(b)
     /\ stopped' \in {stopped, TRUE}
     /\ UNCHANGED urb

(* rtw_hal_mgnt_xmit.  The frames that are waited for with a submit_ctx of *)
(* their own are beacons, which are never parked.                          *)
rtw_hal_mgnt_xmit(p) ==
  /\ pc[p] = "xmit" /\ pc' = [pc EXCEPT ![p] = "wait"]
  /\ \/ usb_write_port(buf[p]) /\ UNCHANGED parked
     \/ /\ p \in Ackers /\ parked' = parked \cup {buf[p]}
        /\ UNCHANGED <<done, status, free_xmit_extbuf_queue, urb, sctx, ackReq, stopped>>
  /\ UNCHANGED <<buf, ret, ackVars, seq_no, mySeq, chipVars>>

(* The station wakes up or polls, and the tasklet writes the frame.        *)
rtl8188fu_xmitframe_complete(b) ==
  /\ b \in parked /\ parked' = parked \ {b} /\ usb_write_port(b)
  /\ UNCHANGED <<pc, buf, ret, ackVars, seq_no, mySeq, chipVars>>

(* The station is freed with its frames.                                   *)
rtw_free_mgmt_xmitframe_queue(b) ==
  /\ b \in parked /\ parked' = parked \ {b}
  /\ free_xmit_extbuf_queue' = BufBack(b)
  /\ ackReq' = [ackReq EXCEPT ![b] = -1]
  /\ UNCHANGED <<pc, buf, ret, done, status, urb, sctx, ackVars, seq_no, mySeq, chipVars, stopped>>

(* The URB ends.  A frame that was transferred is sent by the chip; some   *)
(* errors stop the driver.                                                 *)
usb_write_port_complete(b) ==
  /\ b \in urb /\ urb' = urb \ {b}
  /\ \/ /\ rtw_sctx_done_err(b, "SUCCESS")
        /\ air' = air \cup ({ackReq[b]} \ {-1}) /\ UNCHANGED stopped
     \/ /\ rtw_sctx_done_err(b, "WRITE_PORT_ERR")
        /\ stopped' \in {stopped, TRUE} /\ UNCHANGED air
  /\ sctx' = [sctx EXCEPT ![b] = NoOne]
  /\ ackReq' = [ackReq EXCEPT ![b] = -1]
  /\ free_xmit_extbuf_queue' = BufBack(b)
  /\ UNCHANGED <<pc, buf, ret, parked, ackVars, seq_no, mySeq, reports, acked>>

-----------------------------------------------------------------------------
(* The chip: the peer acknowledges the frame or does not, and a report is  *)
(* queued, or lost.                                                        *)
FrameSent(n) ==
  /\ n \in air /\ air' = air \ {n}
  /\ \E ok \in BOOLEAN :
       /\ acked' = [p \in Ackers |-> acked[p] \/ (ok /\ mySeq[p] = n)]
       /\ reports' \in {reports, reports \cup {[seq |-> n, ok |-> ok]}}
  /\ UNCHANGED <<pc, buf, ret, done, status, bufVars, ackVars, seq_no, mySeq, stopped>>

(* CCX_FwC2HTxRpt_8188f and rtw_ack_tx_done.  The comparison of the        *)
(* report's sequence number with seq_no is commented out.                  *)
ReportStatus_Unchecked(ok) == "SUCCESS"
ReportStatus(ok) == IF ok THEN "SUCCESS" ELSE "CCX_PKT_FAIL"

CCX_FwC2HTxRpt_8188f ==
  /\ \E r \in reports :
       /\ reports' = reports \ {r}
       /\ ackDone' = (ackDone \/ ack_tx)
       /\ ackStatus' = IF ack_tx THEN ReportStatus(r.ok) ELSE ackStatus
  /\ UNCHANGED <<pc, buf, ret, done, status, bufVars, ack_tx, ack_tx_mutex, seq_no, mySeq, air,
                 acked, stopped>>

-----------------------------------------------------------------------------
(* rtw_sctx_wait: the completion, or the timeout.                          *)
Completed(p) == IF p \in Waiters THEN done[p] ELSE ackDone
Status(p) == IF p \in Waiters THEN status[p] ELSE ackStatus
Outstanding(p) ==
  /\ p \in Ackers /\ ~LateReports
  /\ mySeq[p] \in air \cup {r.seq : r \in reports} \cup {ackReq[b] : b \in Bufs}

rtw_sctx_wait_Forever(p) ==
  /\ pc[p] = "wait" /\ Completed(p)
  /\ ret' = [ret EXCEPT ![p] = IF Status(p) = "SUCCESS" THEN "SUCCESS" ELSE "FAIL"]
  /\ pc' = [pc EXCEPT ![p] = "leave"]
  /\ UNCHANGED <<buf, done, status, bufVars, ackVars, seq_no, mySeq, chipVars, stopped>>
rtw_sctx_wait(p) ==
  /\ pc[p] = "wait"
  /\ \/ /\ Completed(p)
        /\ ret' = [ret EXCEPT ![p] = IF Status(p) = "SUCCESS" THEN "SUCCESS" ELSE "FAIL"]
     \/ /\ ~Completed(p) /\ ~Outstanding(p)
        /\ ret' = [ret EXCEPT ![p] = "FAIL"]
  /\ pc' = [pc EXCEPT ![p] = "leave"]
  /\ UNCHANGED <<buf, done, status, bufVars, ackVars, seq_no, mySeq, chipVars, stopped>>

(* The waiter takes its pointer out of the buffer, whoever has the buffer  *)
(* by now; the acker gives the mutex up.                                   *)
leave_NoClear(p) ==
  /\ pc[p] = "leave"
  /\ IF p \in Waiters
       THEN UNCHANGED <<sctx, ack_tx, ack_tx_mutex>>
       ELSE ack_tx' = FALSE /\ ack_tx_mutex' = NoOne /\ UNCHANGED sctx
  /\ pc' = [pc EXCEPT ![p] = "idle"]
  /\ UNCHANGED <<buf, ret, done, status, free_xmit_extbuf_queue, parked, urb, ackReq, ackDone,
                 ackStatus, seq_no, mySeq, chipVars, stopped>>
leave(p) ==
  /\ pc[p] = "leave"
  /\ IF p \in Waiters
       THEN sctx' = [sctx EXCEPT ![buf[p]] = NoOne] /\ UNCHANGED <<ack_tx, ack_tx_mutex>>
       ELSE ack_tx' = FALSE /\ ack_tx_mutex' = NoOne /\ UNCHANGED sctx
  /\ pc' = [pc EXCEPT ![p] = "idle"]
  /\ UNCHANGED <<buf, ret, done, status, free_xmit_extbuf_queue, parked, urb, ackReq, ackDone,
                 ackStatus, seq_no, mySeq, chipVars, stopped>>

(* rtw_dev_unload, which may find the driver stopped by an USB error,      *)
(* completes ack_tx_ops.                                                   *)
rtw_dev_unload ==
  /\ stopped' = TRUE
  /\ ackDone' = (ackDone \/ ack_tx)
  /\ ackStatus' = IF ack_tx THEN "DRV_STOP" ELSE ackStatus
  /\ UNCHANGED <<pc, buf, ret, done, status, bufVars, ack_tx, ack_tx_mutex, seq_no, mySeq, chipVars>>

-----------------------------------------------------------------------------
Init ==
  /\ pc = [p \in Procs |-> "idle"] /\ ret = [p \in Procs |-> "FAIL"]
  /\ buf = [p \in Procs |-> CHOOSE b \in Bufs : TRUE]
  /\ done = [p \in Waiters |-> FALSE] /\ status = [p \in Waiters |-> "SUBMITTED"]
  /\ free_xmit_extbuf_queue \in {q \in [1..Cardinality(Bufs) -> Bufs] :
                                   \A i, j \in DOMAIN q : q[i] = q[j] => i = j}
  /\ parked = {} /\ urb = {} /\ sctx = [b \in Bufs |-> NoOne] /\ ackReq = [b \in Bufs |-> -1]
  /\ ack_tx = FALSE /\ ack_tx_mutex = NoOne /\ ackDone = FALSE /\ ackStatus = "SUBMITTED"
  /\ seq_no = 0 /\ mySeq = [p \in Ackers |-> -1]
  /\ air = {} /\ reports = {} /\ acked = [p \in Ackers |-> FALSE] /\ stopped = FALSE

Runs(p) ==
  \/ dump_stopped(p) \/ dump_mgntframe_and_wait(p) \/ dump_mgntframe_and_wait_ack_timeout(p)
  \/ rtw_hal_mgnt_xmit(p) \/ rtw_sctx_wait(p) \/ leave(p)

Next ==
  \/ \E p \in Procs : rtw_alloc_xmitbuf_ext(p) \/ ack_tx_mutex_enter(p) \/ Runs(p)
  \/ \E b \in Bufs : usb_write_port_complete(b) \/ rtl8188fu_xmitframe_complete(b)
                    \/ rtw_free_mgmt_xmitframe_queue(b)
  \/ \E n \in air : FrameSent(n)
  \/ CCX_FwC2HTxRpt_8188f \/ rtw_dev_unload

Spec == Init /\ [][Next]_vars

(* Processes run, timeouts expire, URBs end, the chip sends what it has,   *)
(* the driver sees the reports, dozing stations wake up and the mutex is   *)
(* handed on.                                                              *)
FairSpec ==
  /\ Spec
  /\ \A p \in Procs : WF_vars(Runs(p)) /\ SF_vars(ack_tx_mutex_enter(p))
  /\ \A b \in Bufs : WF_vars(usb_write_port_complete(b))
                     /\ WF_vars(rtl8188fu_xmitframe_complete(b))
  /\ WF_vars(\E n \in air : FrameSent(n)) /\ WF_vars(CCX_FwC2HTxRpt_8188f)

-----------------------------------------------------------------------------
TypeOK ==
  /\ pc \in [Procs -> {"idle", "dump", "mutex", "xmit", "wait", "leave"}]
  /\ buf \in [Procs -> Bufs] /\ ret \in [Procs -> {"SUCCESS", "FAIL"}]
  /\ done \in [Waiters -> BOOLEAN]
  /\ status \in [Waiters -> {"SUBMITTED", "SUCCESS", "WRITE_PORT_ERR", "BUF_ALLOC"}]
  /\ free_xmit_extbuf_queue \in Seq(Bufs) /\ urb \subseteq Bufs /\ parked \subseteq Bufs
  /\ sctx \in [Bufs -> Waiters \cup {NoOne}] /\ ackReq \in [Bufs -> -1..SeqMod - 1]
  /\ ack_tx \in BOOLEAN /\ ack_tx_mutex \in Ackers \cup {NoOne} /\ ackDone \in BOOLEAN
  /\ ackStatus \in {"SUBMITTED", "SUCCESS", "CCX_PKT_FAIL", "DRV_STOP"}
  /\ seq_no \in 0..SeqMod - 1 /\ mySeq \in [Ackers -> -1..SeqMod - 1]
  /\ air \subseteq 0..SeqMod - 1 /\ reports \subseteq [seq : 0..SeqMod - 1, ok : BOOLEAN]
  /\ acked \in [Ackers -> BOOLEAN] /\ stopped \in BOOLEAN

(* A pointer in a buffer points to the stack of a process that is still in *)
(* dump_mgntframe_and_wait with that buffer, however often the wait timed  *)
(* out with the transfer under way and the buffer went to somebody else.   *)
SctxIsLive ==
  \A b \in Bufs : sctx[b] # NoOne =>
    buf[sctx[b]] = b /\ pc[sctx[b]] \in {"xmit", "wait", "leave"}

(* A buffer is in one place: on the free list once, parked, in an URB, or  *)
(* with a process that has not handed it over.                             *)
BufsInOnePlace ==
  \A b \in Bufs :
    LET onList == {i \in DOMAIN free_xmit_extbuf_queue : free_xmit_extbuf_queue[i] = b}
        held == {p \in Procs : buf[p] = b /\ pc[p] \in {"dump", "mutex", "xmit"}}
    IN Cardinality(onList) + Cardinality(held) + Cardinality({b} \cap urb)
         + Cardinality({b} \cap parked) = 1

(* While the driver runs, an acker that returns success had its own frame  *)
(* acknowledged: the comment at _send_delba_sta_tid promises success only  *)
(* for an acknowledged frame.                                              *)
SuccessMeansAcked ==
  \A p \in Ackers : pc[p] = "leave" /\ ret[p] = "SUCCESS" /\ ~stopped => acked[p]

(* Every call returns: a frame that was never sent, a lost report or a     *)
(* stopped driver costs at most the timeout, and the mutex is passed on.   *)
CallsReturn == \A p \in Procs : pc[p] # "idle" ~> pc[p] = "idle"
=============================================================================
