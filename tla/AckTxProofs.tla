---------------------------- MODULE AckTxProofs ----------------------------
(***************************************************************************)
(* Theorems about the waits for management frames, for every number of     *)
(* processes, buffers and sequence numbers: no pointer to a stack outlives *)
(* its wait, the types, every buffer is in one place, and success means an *)
(* acknowledged frame as long as no report is late.                        *)
(***************************************************************************)
EXTENDS AckTx, FiniteSetTheorems, TLAPS

(* The part of type correctness that the pointers depend on.               *)
PtrOK ==
  /\ pc \in [Procs -> {"idle", "dump", "mutex", "xmit", "wait", "leave"}]
  /\ buf \in [Procs -> Bufs] /\ sctx \in [Bufs -> Waiters \cup {NoOne}]
  /\ free_xmit_extbuf_queue \in Seq(Bufs)
  /\ urb \subseteq Bufs /\ parked \subseteq Bufs

LEMMA PtrInit == Init => PtrOK /\ SctxIsLive
<1> SUFFICES ASSUME Init PROVE PtrOK /\ SctxIsLive
  OBVIOUS
<1>1. Cardinality(Bufs) \in Nat
  BY AckAssumption, FS_CardinalityType
<1>2. free_xmit_extbuf_queue \in Seq(Bufs)
  BY <1>1 DEF Init
<1>3. (CHOOSE b \in Bufs : TRUE) \in Bufs
  BY AckAssumption
<1> QED
  BY <1>2, <1>3 DEF Init, PtrOK, SctxIsLive

(* A write leaves every pointer as it is or takes it away.                 *)
LEMMA WriteKeepsPointers ==
  ASSUME PtrOK, NEW b \in Bufs, usb_write_port(b)
  PROVE  /\ sctx' \in {sctx, [sctx EXCEPT ![b] = NoOne]}
         /\ free_xmit_extbuf_queue' \in Seq(Bufs) /\ urb' \subseteq Bufs
<1>1. Append(free_xmit_extbuf_queue, b) \in Seq(Bufs) /\ urb \cup {b} \subseteq Bufs
  BY DEF PtrOK
<1>2. \/ UNCHANGED <<sctx, free_xmit_extbuf_queue>> /\ urb' = urb \cup {b}
      \/ /\ sctx' = [sctx EXCEPT ![b] = NoOne] /\ UNCHANGED urb
         /\ free_xmit_extbuf_queue' = Append(free_xmit_extbuf_queue, b)
  BY Zenon DEF usb_write_port, BufBack
<1> QED
  BY <1>1, <1>2 DEF PtrOK

LEMMA PtrStep == PtrOK /\ SctxIsLive /\ [Next]_vars => (PtrOK /\ SctxIsLive)'
<1> SUFFICES ASSUME PtrOK, SctxIsLive, [Next]_vars PROVE PtrOK' /\ SctxIsLive'
  OBVIOUS
<1> USE AckAssumption DEF PtrOK, SctxIsLive, Procs
<1>1. ASSUME NEW p \in Procs, rtw_alloc_xmitbuf_ext(p) PROVE PtrOK' /\ SctxIsLive'
  <2>1. Head(free_xmit_extbuf_queue) \in Bufs /\ Tail(free_xmit_extbuf_queue) \in Seq(Bufs)
    BY <1>1 DEF rtw_alloc_xmitbuf_ext
  <2> QED
    BY <1>1, <2>1 DEF rtw_alloc_xmitbuf_ext
<1>2. ASSUME NEW p \in Procs, dump_stopped(p) PROVE PtrOK' /\ SctxIsLive'
  BY <1>2 DEF dump_stopped
<1>3. ASSUME NEW p \in Procs, dump_mgntframe_and_wait(p) PROVE PtrOK' /\ SctxIsLive'
  BY <1>3 DEF dump_mgntframe_and_wait
<1>4. ASSUME NEW p \in Procs,
             dump_mgntframe_and_wait_ack_timeout(p) \/ ack_tx_mutex_enter(p)
      PROVE  PtrOK' /\ SctxIsLive'
  BY <1>4 DEF dump_mgntframe_and_wait_ack_timeout, ack_tx_mutex_enter, bufVars
<1>5. ASSUME NEW p \in Procs, rtw_hal_mgnt_xmit(p) PROVE PtrOK' /\ SctxIsLive'
  <2>1. /\ sctx' \in {sctx, [sctx EXCEPT ![buf[p]] = NoOne]}
        /\ free_xmit_extbuf_queue' \in Seq(Bufs) /\ urb' \subseteq Bufs
    BY <1>5, WriteKeepsPointers DEF rtw_hal_mgnt_xmit
  <2>2. /\ pc[p] = "xmit" /\ pc' = [pc EXCEPT ![p] = "wait"] /\ buf' = buf
        /\ parked' \subseteq Bufs
    BY <1>5 DEF rtw_hal_mgnt_xmit
  <2> QED
    BY <2>1, <2>2
<1>6. ASSUME NEW p \in Procs, rtw_sctx_wait(p) PROVE PtrOK' /\ SctxIsLive'
  BY <1>6 DEF rtw_sctx_wait, bufVars
<1>7. ASSUME NEW p \in Procs, leave(p) PROVE PtrOK' /\ SctxIsLive'
  BY <1>7 DEF leave
<1>8. ASSUME NEW b \in Bufs,
             usb_write_port_complete(b) \/ rtl8188fu_xmitframe_complete(b)
               \/ rtw_free_mgmt_xmitframe_queue(b)
      PROVE  PtrOK' /\ SctxIsLive'
  <2>1. CASE usb_write_port_complete(b)
    BY <2>1 DEF usb_write_port_complete, BufBack
  <2>2. CASE rtl8188fu_xmitframe_complete(b)
    <3>1. UNCHANGED <<pc, buf>> /\ parked' \subseteq Bufs
      BY <2>2 DEF rtl8188fu_xmitframe_complete
    <3>2. /\ sctx' \in {sctx, [sctx EXCEPT ![b] = NoOne]}
          /\ free_xmit_extbuf_queue' \in Seq(Bufs) /\ urb' \subseteq Bufs
      BY <2>2, WriteKeepsPointers DEF rtl8188fu_xmitframe_complete
    <3> QED
      BY <3>1, <3>2
  <2>3. CASE rtw_free_mgmt_xmitframe_queue(b)
    BY <2>3 DEF rtw_free_mgmt_xmitframe_queue, BufBack
  <2> QED
    BY <1>8, <2>1, <2>2, <2>3
<1>9. CASE \/ \E n \in air : FrameSent(n)
           \/ CCX_FwC2HTxRpt_8188f \/ rtw_dev_unload \/ UNCHANGED vars
  <2>1. UNCHANGED <<pc, buf, sctx, free_xmit_extbuf_queue, urb, parked>>
    BY <1>9 DEF FrameSent, CCX_FwC2HTxRpt_8188f, rtw_dev_unload, vars, bufVars
  <2> QED
    BY <2>1
<1> QED
  BY <1>1, <1>2, <1>3, <1>4, <1>5, <1>6, <1>7, <1>8, <1>9 DEF Next, Runs

(* A buffer never points to the stack of a process that has returned from  *)
(* dump_mgntframe_and_wait, however its wait ended.                        *)
THEOREM NoDanglingWait == Spec => []SctxIsLive
BY PtrInit, PtrStep, PTL DEF Spec

-----------------------------------------------------------------------------
(* Types.                                                                  *)

(* The rest of TypeOK; only ackers wait for the mutex.                     *)
AckTypes ==
  /\ \A p \in Procs : pc[p] = "mutex" => p \in Ackers
  /\ ret \in [Procs -> {"SUCCESS", "FAIL"}]
  /\ done \in [Waiters -> BOOLEAN]
  /\ status \in [Waiters -> {"SUBMITTED", "SUCCESS", "WRITE_PORT_ERR", "BUF_ALLOC"}]
  /\ ackReq \in [Bufs -> -1..SeqMod - 1]
  /\ ack_tx \in BOOLEAN /\ ack_tx_mutex \in Ackers \cup {NoOne} /\ ackDone \in BOOLEAN
  /\ ackStatus \in {"SUBMITTED", "SUCCESS", "CCX_PKT_FAIL", "DRV_STOP"}
  /\ seq_no \in 0..SeqMod - 1 /\ mySeq \in [Ackers -> -1..SeqMod - 1]
  /\ air \subseteq 0..SeqMod - 1 /\ reports \subseteq [seq : 0..SeqMod - 1, ok : BOOLEAN]
  /\ acked \in [Ackers -> BOOLEAN] /\ stopped \in BOOLEAN

TypeInv == PtrOK /\ SctxIsLive /\ AckTypes

(* Completing the submit_ctx of a buffer keeps the types.                  *)
LEMMA DoneTypes ==
  ASSUME PtrOK, AckTypes, NEW b \in Bufs, NEW st \in {"SUCCESS", "WRITE_PORT_ERR", "BUF_ALLOC"},
         rtw_sctx_done_err(b, st)
  PROVE  /\ done' \in [Waiters -> BOOLEAN]
         /\ status' \in [Waiters -> {"SUBMITTED", "SUCCESS", "WRITE_PORT_ERR", "BUF_ALLOC"}]
<1>1. CASE sctx[b] = NoOne
  BY <1>1 DEF rtw_sctx_done_err, AckTypes
<1>2. CASE sctx[b] # NoOne
  <2>1. sctx[b] \in Waiters
    BY <1>2 DEF PtrOK
  <2> QED
    BY <1>2, <2>1 DEF rtw_sctx_done_err, AckTypes
<1> QED
  BY <1>1, <1>2

LEMMA WriteTypes ==
  ASSUME PtrOK, AckTypes, NEW b \in Bufs, usb_write_port(b)
  PROVE  /\ done' \in [Waiters -> BOOLEAN]
         /\ status' \in [Waiters -> {"SUBMITTED", "SUCCESS", "WRITE_PORT_ERR", "BUF_ALLOC"}]
         /\ ackReq' \in [Bufs -> -1..SeqMod - 1] /\ stopped' \in BOOLEAN
<1>1. CASE UNCHANGED <<done, status, sctx, ackReq, free_xmit_extbuf_queue, stopped>>
  BY <1>1 DEF AckTypes
<1>2. CASE /\ rtw_sctx_done_err(b, "WRITE_PORT_ERR")
           /\ ackReq' = [ackReq EXCEPT ![b] = -1] /\ stopped' \in {stopped, TRUE}
  <2>1. ackReq' \in [Bufs -> -1..SeqMod - 1]
    BY <1>2, AckAssumption DEF AckTypes
  <2>2. stopped' \in BOOLEAN
    BY <1>2 DEF AckTypes
  <2> QED
    BY <1>2, <2>1, <2>2, DoneTypes
<1> QED
  BY <1>1, <1>2, Zenon DEF usb_write_port

LEMMA TypesInit == Init => AckTypes
<1> SUFFICES ASSUME Init PROVE AckTypes
  OBVIOUS
<1>1. 0 \in 0..SeqMod - 1 /\ -1 \in -1..SeqMod - 1
  BY AckAssumption
<1>2. /\ done \in [Waiters -> BOOLEAN] /\ acked \in [Ackers -> BOOLEAN]
      /\ ack_tx \in BOOLEAN /\ ackDone \in BOOLEAN /\ stopped \in BOOLEAN
  BY DEF Init
<1> QED
  BY <1>1, <1>2 DEF Init, AckTypes

LEMMA TypesStep == PtrOK /\ AckTypes /\ [Next]_vars => AckTypes'
<1> SUFFICES ASSUME PtrOK, AckTypes, [Next]_vars PROVE AckTypes'
  OBVIOUS
<1>0. SeqMod \in Nat /\ SeqMod > 0 /\ -1 \in -1..SeqMod - 1 /\ Waiters \cap Ackers = {}
  BY AckAssumption
<1>1. ASSUME NEW p \in Procs, rtw_alloc_xmitbuf_ext(p) PROVE AckTypes'
  <2>1. Head(free_xmit_extbuf_queue) \in Bufs
    BY <1>1 DEF rtw_alloc_xmitbuf_ext, PtrOK
  <2>2. rtw_sctx_done_err(Head(free_xmit_extbuf_queue), "BUF_ALLOC")
    BY <1>1 DEF rtw_alloc_xmitbuf_ext
  <2>3. ackReq' \in [Bufs -> -1..SeqMod - 1]
    BY <1>0, <1>1 DEF rtw_alloc_xmitbuf_ext, AckTypes
  <2>4. /\ pc' = [pc EXCEPT ![p] = "dump"]
        /\ UNCHANGED <<ret, ackVars, seq_no, mySeq, chipVars, stopped>>
    BY <1>1 DEF rtw_alloc_xmitbuf_ext
  <2> QED
    BY <2>1, <2>2, <2>3, <2>4, DoneTypes DEF AckTypes, PtrOK, ackVars, chipVars
<1>2. ASSUME NEW p \in Procs, dump_stopped(p) PROVE AckTypes'
  BY <1>2 DEF dump_stopped, AckTypes, PtrOK, ackVars, chipVars
<1>3. ASSUME NEW p \in Procs, dump_mgntframe_and_wait(p) PROVE AckTypes'
  BY <1>3 DEF dump_mgntframe_and_wait, AckTypes, PtrOK, ackVars, chipVars
<1>4. ASSUME NEW p \in Procs, dump_mgntframe_and_wait_ack_timeout(p) PROVE AckTypes'
  BY <1>4 DEF dump_mgntframe_and_wait_ack_timeout, AckTypes, PtrOK, bufVars, ackVars, chipVars
<1>5. ASSUME NEW p \in Procs, ack_tx_mutex_enter(p) PROVE AckTypes'
  <2>1. p \in Ackers
    BY <1>5 DEF ack_tx_mutex_enter, AckTypes
  <2>2. (seq_no + 1) % SeqMod \in 0..SeqMod - 1 /\ seq_no \in -1..SeqMod - 1
    BY <1>0 DEF AckTypes
  <2>3. acked' \in [Ackers -> BOOLEAN] /\ ack_tx' \in BOOLEAN /\ ackDone' \in BOOLEAN
    BY <1>5, <2>1 DEF ack_tx_mutex_enter, AckTypes
  <2> QED
    BY <1>5, <2>1, <2>2, <2>3 DEF ack_tx_mutex_enter, NextSeq, AckTypes, PtrOK
<1>6. ASSUME NEW p \in Procs, rtw_hal_mgnt_xmit(p) PROVE AckTypes'
  <2>1. /\ pc' = [pc EXCEPT ![p] = "wait"] /\ UNCHANGED <<buf, ret, ackVars, seq_no, mySeq, chipVars>>
        /\ \/ usb_write_port(buf[p])
           \/ UNCHANGED <<done, status, free_xmit_extbuf_queue, urb, sctx, ackReq, stopped>>
    BY <1>6 DEF rtw_hal_mgnt_xmit
  <2>2. /\ done' \in [Waiters -> BOOLEAN]
        /\ status' \in [Waiters -> {"SUBMITTED", "SUCCESS", "WRITE_PORT_ERR", "BUF_ALLOC"}]
        /\ ackReq' \in [Bufs -> -1..SeqMod - 1] /\ stopped' \in BOOLEAN
    <3>1. CASE usb_write_port(buf[p])
      BY <3>1, WriteTypes DEF PtrOK
    <3>2. CASE UNCHANGED <<done, status, free_xmit_extbuf_queue, urb, sctx, ackReq, stopped>>
      BY <3>2 DEF AckTypes
    <3> QED
      BY <2>1, <3>1, <3>2
  <2> QED
    BY <2>1, <2>2 DEF AckTypes, PtrOK, ackVars, chipVars
<1>7. ASSUME NEW p \in Procs, rtw_sctx_wait(p) PROVE AckTypes'
  BY <1>7 DEF rtw_sctx_wait, AckTypes, PtrOK, bufVars, ackVars, chipVars
<1>8. ASSUME NEW p \in Procs, leave(p) PROVE AckTypes'
  <2>1. ack_tx' \in BOOLEAN /\ ack_tx_mutex' \in Ackers \cup {NoOne}
    BY <1>8 DEF leave, AckTypes
  <2> QED
    BY <1>8, <2>1 DEF leave, AckTypes, PtrOK, chipVars
<1>9. ASSUME NEW b \in Bufs, usb_write_port_complete(b) PROVE AckTypes'
  <2>1. ackReq' \in [Bufs -> -1..SeqMod - 1]
    BY <1>0, <1>9 DEF usb_write_port_complete, AckTypes
  <2>2. /\ air' \subseteq 0..SeqMod - 1 /\ stopped' \in BOOLEAN
        /\ \E st \in {"SUCCESS", "WRITE_PORT_ERR", "BUF_ALLOC"} : rtw_sctx_done_err(b, st)
    <3>1. {ackReq[b]} \ {-1} \subseteq 0..SeqMod - 1
      BY <1>0 DEF AckTypes
    <3> QED
      BY <1>9, <3>1 DEF usb_write_port_complete, AckTypes
  <2> QED
    BY <1>9, <2>1, <2>2, DoneTypes DEF usb_write_port_complete, AckTypes, PtrOK, ackVars
<1>10. ASSUME NEW b \in Bufs, rtl8188fu_xmitframe_complete(b) PROVE AckTypes'
  BY <1>10, WriteTypes DEF rtl8188fu_xmitframe_complete, AckTypes, ackVars, chipVars
<1>11. ASSUME NEW b \in Bufs, rtw_free_mgmt_xmitframe_queue(b) PROVE AckTypes'
  BY <1>0, <1>11 DEF rtw_free_mgmt_xmitframe_queue, AckTypes, ackVars, chipVars
<1>12. ASSUME NEW n \in air, FrameSent(n) PROVE AckTypes'
  <2>1. PICK ok \in BOOLEAN :
          /\ acked' = [p \in Ackers |-> acked[p] \/ (ok /\ mySeq[p] = n)]
          /\ reports' \in {reports, reports \cup {[seq |-> n, ok |-> ok]}}
    BY <1>12 DEF FrameSent
  <2>2. acked' \in [Ackers -> BOOLEAN]
    BY <2>1
  <2>3. reports' \subseteq [seq : 0..SeqMod - 1, ok : BOOLEAN] /\ air' \subseteq 0..SeqMod - 1
    BY <1>12, <2>1 DEF FrameSent, AckTypes
  <2> QED
    BY <1>12, <2>2, <2>3 DEF FrameSent, AckTypes, bufVars, ackVars
<1>13. CASE CCX_FwC2HTxRpt_8188f
  <2>1. /\ reports' \subseteq reports /\ ackDone' \in BOOLEAN
        /\ ackStatus' \in {"SUBMITTED", "SUCCESS", "CCX_PKT_FAIL", "DRV_STOP"}
    BY <1>13 DEF CCX_FwC2HTxRpt_8188f, ReportStatus, AckTypes
  <2> QED
    BY <1>13, <2>1 DEF CCX_FwC2HTxRpt_8188f, AckTypes, bufVars
<1>14. CASE rtw_dev_unload
  <2>1. stopped' \in BOOLEAN /\ ackDone' \in BOOLEAN
    BY <1>14 DEF rtw_dev_unload, AckTypes
  <2> QED
    BY <1>14, <2>1 DEF rtw_dev_unload, AckTypes, bufVars, chipVars
<1>15. CASE UNCHANGED vars
  BY <1>15 DEF vars, AckTypes, bufVars, ackVars, chipVars
<1> QED
  BY <1>1, <1>2, <1>3, <1>4, <1>5, <1>6, <1>7, <1>8, <1>9, <1>10, <1>11, <1>12, <1>13, <1>14,
     <1>15 DEF Next, Runs

LEMMA TypesHold == Spec => []TypeInv
<1>1. Init => TypeInv
  BY PtrInit, TypesInit DEF TypeInv
<1>2. TypeInv /\ [Next]_vars => TypeInv'
  BY PtrStep, TypesStep DEF TypeInv
<1> QED
  BY <1>1, <1>2, PTL DEF Spec

(* Type correctness for every number of processes and buffers; sequence    *)
(* numbers stay below the wrap of seq_no.                                  *)
THEOREM AckTxTypes == Spec => []TypeOK
<1>1. TypeInv => TypeOK
  BY DEF TypeInv, PtrOK, AckTypes, TypeOK
<1> QED
  BY <1>1, TypesHold, PTL

-----------------------------------------------------------------------------
(* Success means acknowledged.                                             *)

(* A frame is under way for the process that has the mutex, and no report  *)
(* has completed its wait.                                                 *)
UnderWay == ack_tx_mutex # NoOne /\ pc[ack_tx_mutex] \in {"xmit", "wait"} /\ ~ackDone

(* At most one frame with ack_report exists, in a buffer, on the air or in *)
(* a report, and it is the frame of the process that has the mutex.  A     *)
(* report that says so, and a wait completed with success, mean that this  *)
(* frame was acknowledged.                                                 *)
AckInv ==
  /\ \A p \in Ackers : pc[p] \in {"xmit", "wait", "leave"} <=> ack_tx_mutex = p
  /\ ack_tx <=> ack_tx_mutex # NoOne
  /\ \A b \in Bufs : ackReq[b] # -1 =>
       /\ UnderWay /\ b = buf[ack_tx_mutex] /\ ackReq[b] = mySeq[ack_tx_mutex]
       /\ air = {} /\ reports = {}
  /\ \A n \in air : UnderWay /\ n = mySeq[ack_tx_mutex] /\ reports = {}
  /\ \A r \in reports : /\ UnderWay /\ r.seq = mySeq[ack_tx_mutex]
                        /\ (r.ok => acked[ack_tx_mutex]) /\ reports = {r}
  /\ ack_tx_mutex # NoOne /\ ackDone /\ ackStatus = "SUCCESS" => acked[ack_tx_mutex]

(* Stopping the driver completes a wait without a report.                  *)
RunInv == ~stopped => AckInv /\ SuccessMeansAcked

(* RunInv for a step that only takes requests for a report away.           *)
LEMMA RunKept ==
  ASSUME TypeInv, RunInv, ~stopped, UNCHANGED <<ackVars, mySeq, chipVars>>,
         \A p \in Ackers : /\ ret'[p] = ret[p]
                           /\ pc'[p] \in {"xmit", "wait"} <=> pc[p] \in {"xmit", "wait"}
                           /\ pc'[p] = "leave" <=> pc[p] = "leave"
                           /\ pc[p] \in {"xmit", "wait"} => buf'[p] = buf[p],
         \A b \in Bufs : ackReq'[b] # -1 => ackReq'[b] = ackReq[b]
  PROVE  AckInv' /\ SuccessMeansAcked'
<1>1. AckInv /\ SuccessMeansAcked
  BY DEF RunInv
<1>2. ack_tx_mutex # NoOne => ack_tx_mutex \in Ackers
  BY DEF TypeInv, AckTypes
<1>3. UnderWay => UnderWay' /\ buf'[ack_tx_mutex] = buf[ack_tx_mutex]
  BY <1>2 DEF UnderWay, ackVars
<1>4. SuccessMeansAcked'
  BY <1>1 DEF SuccessMeansAcked, chipVars
<1>5. AckInv'
  <2>1. \A p \in Ackers : pc'[p] \in {"xmit", "wait", "leave"} <=> ack_tx_mutex' = p
    BY <1>1 DEF AckInv, ackVars
  <2>2. ASSUME NEW b \in Bufs, ackReq'[b] # -1
        PROVE  /\ UnderWay' /\ b = buf'[ack_tx_mutex] /\ ackReq'[b] = mySeq[ack_tx_mutex]
               /\ air = {} /\ reports = {}
    <3>1. ackReq'[b] = ackReq[b] /\ ackReq[b] # -1
      BY <2>2
    <3>2. /\ UnderWay /\ b = buf[ack_tx_mutex] /\ ackReq[b] = mySeq[ack_tx_mutex]
          /\ air = {} /\ reports = {}
      BY <1>1, <3>1 DEF AckInv
    <3> QED
      BY <1>3, <3>1, <3>2
  <2> QED
    BY <1>1, <1>3, <2>1, <2>2 DEF AckInv, ackVars, chipVars
<1> QED
  BY <1>4, <1>5

(* Nothing is under way when nobody has the mutex, when its owner is about *)
(* to leave, or when a report has completed the wait.                      *)
LEMMA NothingUnderWay ==
  ASSUME AckInv, ~UnderWay
  PROVE  air = {} /\ reports = {} /\ \A b \in Bufs : ackReq[b] = -1
BY DEF AckInv

LEMMA RunWait ==
  ASSUME ~LateReports, TypeInv, RunInv, NEW p \in Ackers, rtw_sctx_wait(p), ~stopped
  PROVE  AckInv' /\ SuccessMeansAcked'
<1>1. AckInv /\ SuccessMeansAcked /\ ack_tx_mutex = p /\ p \notin Waiters /\ p # NoOne /\ p \in Procs
  <2>1. p \notin Waiters /\ p # NoOne /\ p \in Procs
    BY AckAssumption DEF Procs
  <2> QED
    BY <2>1 DEF RunInv, AckInv, rtw_sctx_wait
<1>2. /\ pc[p] = "wait" /\ pc' = [pc EXCEPT ![p] = "leave"]
      /\ UNCHANGED <<buf, bufVars, ackVars, mySeq, chipVars, stopped>>
  BY DEF rtw_sctx_wait
<1>3. air = {} /\ reports = {} /\ \A b \in Bufs : ackReq[b] = -1
  <2>1. CASE ackDone
    BY <1>1, <2>1, NothingUnderWay DEF UnderWay
  <2>2. CASE ~ackDone
    <3>1. mySeq[p] \notin air \cup {r.seq : r \in reports} \cup {ackReq[b] : b \in Bufs}
      BY <1>1, <2>2 DEF rtw_sctx_wait, Completed, Outstanding
    <3> QED
      BY <1>1, <3>1 DEF AckInv
  <2> QED
    BY <2>1, <2>2
<1>4. ret'[p] = "SUCCESS" => acked[p]
  <2>1. ret'[p] = "SUCCESS" => ackDone /\ ackStatus = "SUCCESS"
    BY <1>1 DEF rtw_sctx_wait, Completed, Status, TypeInv, AckTypes
  <2> QED
    BY <1>1, <2>1 DEF AckInv
<1>5. \A q \in Procs \ {p} : pc'[q] = pc[q] /\ ret'[q] = ret[q]
  BY DEF rtw_sctx_wait, TypeInv, PtrOK, AckTypes
<1>6. pc'[p] = "leave"
  BY <1>1, <1>2 DEF TypeInv, PtrOK
<1>7. SuccessMeansAcked'
  BY <1>1, <1>2, <1>4, <1>5 DEF SuccessMeansAcked, chipVars, Procs
<1>8. \A q \in Ackers : pc'[q] \in {"xmit", "wait", "leave"} <=> ack_tx_mutex' = q
  BY <1>1, <1>2, <1>5, <1>6 DEF AckInv, ackVars, Procs
<1>9. AckInv'
  BY <1>1, <1>2, <1>3, <1>8 DEF AckInv, ackVars, chipVars, bufVars
<1> QED
  BY <1>7, <1>9

LEMMA RunMutex ==
  ASSUME TypeInv, RunInv, NEW p \in Procs, ack_tx_mutex_enter(p), ~stopped
  PROVE  AckInv' /\ SuccessMeansAcked'
<1>1. AckInv /\ SuccessMeansAcked /\ p \in Ackers /\ ack_tx_mutex = NoOne /\ p # NoOne
  BY AckAssumption DEF RunInv, TypeInv, AckTypes, ack_tx_mutex_enter, Procs
<1>2. air = {} /\ reports = {} /\ \A b \in Bufs : ackReq[b] = -1
  BY <1>1, NothingUnderWay DEF UnderWay
<1>3. /\ ack_tx_mutex' = p /\ ack_tx' /\ ~ackDone' /\ ackStatus' = "SUBMITTED"
      /\ mySeq' = [mySeq EXCEPT ![p] = seq_no] /\ ackReq' = [ackReq EXCEPT ![buf[p]] = seq_no]
      /\ acked' = [acked EXCEPT ![p] = FALSE] /\ pc' = [pc EXCEPT ![p] = "xmit"]
      /\ UNCHANGED <<buf, ret, air, reports, stopped>>
  BY DEF ack_tx_mutex_enter
<1>4. pc'[p] = "xmit" /\ mySeq'[p] = seq_no /\ \A q \in Ackers \ {p} : pc'[q] = pc[q] /\ acked'[q] = acked[q]
  BY <1>1, <1>3 DEF TypeInv, PtrOK, AckTypes, Procs
<1>5. \A b \in Bufs : ackReq'[b] # -1 => b = buf[p] /\ ackReq'[b] = seq_no
  BY <1>2, <1>3 DEF TypeInv, PtrOK, AckTypes
<1>6. UnderWay'
  BY <1>1, <1>3, <1>4 DEF UnderWay
<1>7. \A q \in Ackers : pc'[q] \in {"xmit", "wait", "leave"} <=> ack_tx_mutex' = q
  BY <1>1, <1>3, <1>4, AckAssumption DEF AckInv, Procs
<1>8. AckInv'
  BY <1>1, <1>2, <1>3, <1>4, <1>5, <1>6, <1>7 DEF AckInv
<1>9. SuccessMeansAcked'
  BY <1>1, <1>3, <1>4 DEF SuccessMeansAcked
<1> QED
  BY <1>8, <1>9

LEMMA RunLeave ==
  ASSUME TypeInv, RunInv, NEW p \in Ackers, leave(p), ~stopped
  PROVE  AckInv' /\ SuccessMeansAcked'
<1>1. /\ AckInv /\ SuccessMeansAcked /\ ack_tx_mutex = p /\ p \in Procs /\ p \notin Waiters
      /\ \A q \in Ackers : q # NoOne
  BY AckAssumption DEF RunInv, AckInv, leave, Procs
<1>2. air = {} /\ reports = {} /\ \A b \in Bufs : ackReq[b] = -1
  BY <1>1, NothingUnderWay DEF UnderWay, leave
<1>3. /\ ~ack_tx' /\ ack_tx_mutex' = NoOne /\ pc' = [pc EXCEPT ![p] = "idle"]
      /\ UNCHANGED <<ret, ackReq, air, reports, acked, stopped>>
  BY <1>1 DEF leave, chipVars
<1>4. pc'[p] = "idle" /\ \A q \in Ackers \ {p} : pc'[q] = pc[q]
  BY <1>1, <1>3 DEF TypeInv, PtrOK, Procs
<1>5. \A q \in Ackers : pc'[q] \notin {"xmit", "wait", "leave"}
  BY <1>1, <1>4 DEF AckInv
<1> QED
  BY <1>1, <1>2, <1>3, <1>5 DEF AckInv, SuccessMeansAcked

(* The transfer of a frame has ended, and the chip sends it.               *)
LEMMA RunTransferred ==
  ASSUME TypeInv, RunInv, NEW b \in Bufs, usb_write_port_complete(b), ~stopped,
         air' = air \cup ({ackReq[b]} \ {-1})
  PROVE  AckInv' /\ SuccessMeansAcked'
<1>1. AckInv /\ SuccessMeansAcked
  BY DEF RunInv
<1>2. /\ ackReq' = [ackReq EXCEPT ![b] = -1]
      /\ UNCHANGED <<pc, buf, ret, ackVars, mySeq, reports, acked>>
  BY DEF usb_write_port_complete
<1>3. CASE ackReq[b] = -1
  <2>1. air' = air /\ \A c \in Bufs : ackReq'[c] = ackReq[c]
    BY <1>2, <1>3 DEF TypeInv, AckTypes
  <2> QED
    BY <1>2, <2>1, RunKept DEF chipVars
<1>4. CASE ackReq[b] # -1
  <2>1. /\ UnderWay /\ b = buf[ack_tx_mutex] /\ ackReq[b] = mySeq[ack_tx_mutex]
        /\ air = {} /\ reports = {}
    BY <1>1, <1>4 DEF AckInv
  <2>2. \A c \in Bufs : ackReq'[c] = -1
    BY <1>1, <1>2, <2>1 DEF AckInv, TypeInv, AckTypes
  <2>3. UnderWay' /\ \A n \in air' : n = mySeq[ack_tx_mutex]
    BY <1>2, <2>1 DEF UnderWay, ackVars
  <2> QED
    BY <1>1, <1>2, <2>1, <2>2, <2>3 DEF AckInv, SuccessMeansAcked, ackVars
<1> QED
  BY <1>3, <1>4

LEMMA RunSent ==
  ASSUME TypeInv, RunInv, NEW n \in air, FrameSent(n), ~stopped
  PROVE  AckInv' /\ SuccessMeansAcked'
<1>1. AckInv /\ SuccessMeansAcked
  BY DEF RunInv
<1>2. UnderWay /\ n = mySeq[ack_tx_mutex] /\ reports = {} /\ air = {n}
  BY <1>1 DEF AckInv
<1>3. \A b \in Bufs : ackReq[b] = -1
  BY <1>1, <1>2 DEF AckInv
<1>4. ack_tx_mutex \in Ackers
  BY <1>2 DEF UnderWay, TypeInv, AckTypes
<1>5. PICK ok \in BOOLEAN :
        /\ acked' = [p \in Ackers |-> acked[p] \/ (ok /\ mySeq[p] = n)]
        /\ reports' \in {reports, reports \cup {[seq |-> n, ok |-> ok]}}
  BY DEF FrameSent
<1>6. air' = {} /\ UNCHANGED <<pc, buf, ret, ackReq, ackVars, mySeq, stopped>>
  BY <1>2 DEF FrameSent, bufVars
<1>7. UnderWay' /\ (ok => acked'[ack_tx_mutex])
  BY <1>2, <1>4, <1>5, <1>6 DEF UnderWay, ackVars
<1>8. ASSUME NEW r \in reports'
      PROVE r.seq = mySeq[ack_tx_mutex] /\ (r.ok => acked'[ack_tx_mutex]) /\ reports' = {r}
  <2>1. r = [seq |-> n, ok |-> ok] /\ reports' = {r}
    BY <1>2, <1>5
  <2> QED
    BY <1>2, <1>7, <2>1
<1>9. \A p \in Ackers : acked[p] => acked'[p]
  BY <1>5
<1> QED
  BY <1>1, <1>3, <1>4, <1>6, <1>7, <1>8, <1>9 DEF AckInv, SuccessMeansAcked, ackVars

LEMMA RunReport ==
  ASSUME TypeInv, RunInv, CCX_FwC2HTxRpt_8188f, ~stopped
  PROVE  AckInv' /\ SuccessMeansAcked'
<1>1. AckInv /\ SuccessMeansAcked
  BY DEF RunInv
<1>2. PICK r \in reports :
        /\ reports' = reports \ {r}
        /\ ackDone' = (ackDone \/ ack_tx)
        /\ ackStatus' = IF ack_tx THEN ReportStatus(r.ok) ELSE ackStatus
  BY DEF CCX_FwC2HTxRpt_8188f
<1>3. UnderWay /\ (r.ok => acked[ack_tx_mutex]) /\ reports = {r} /\ ack_tx
  BY <1>1, <1>2 DEF AckInv, UnderWay
<1>4. air = {} /\ reports' = {} /\ \A b \in Bufs : ackReq[b] = -1
  BY <1>1, <1>2, <1>3 DEF AckInv
<1>5. ackStatus' = "SUCCESS" => acked[ack_tx_mutex]
  BY <1>2, <1>3 DEF ReportStatus
<1>6. UNCHANGED <<pc, buf, ret, ackReq, ack_tx, ack_tx_mutex, mySeq, air, acked, stopped>>
  BY DEF CCX_FwC2HTxRpt_8188f, bufVars
<1> QED
  BY <1>1, <1>4, <1>5, <1>6 DEF AckInv, SuccessMeansAcked

LEMMA RunStep ==
  ASSUME ~LateReports
  PROVE  TypeInv /\ RunInv /\ [Next]_vars => RunInv'
<1> SUFFICES ASSUME TypeInv, RunInv, [Next]_vars, ~stopped' PROVE AckInv' /\ SuccessMeansAcked'
  BY DEF RunInv
<1>0. /\ pc \in [Procs -> {"idle", "dump", "mutex", "xmit", "wait", "leave"}]
      /\ buf \in [Procs -> Bufs] /\ ackReq \in [Bufs -> -1..SeqMod - 1]
      /\ ret \in [Procs -> {"SUCCESS", "FAIL"}]
      /\ Ackers \subseteq Procs /\ Procs = Waiters \cup Ackers /\ Waiters \cap Ackers = {}
  BY AckAssumption DEF TypeInv, PtrOK, AckTypes, Procs
<1>1. ASSUME NEW p \in Procs, rtw_alloc_xmitbuf_ext(p) PROVE AckInv' /\ SuccessMeansAcked'
  <2>1. /\ pc[p] = "idle" /\ pc' = [pc EXCEPT ![p] = "dump"]
        /\ buf' = [buf EXCEPT ![p] = Head(free_xmit_extbuf_queue)]
        /\ ackReq' = [ackReq EXCEPT ![Head(free_xmit_extbuf_queue)] = -1]
        /\ UNCHANGED <<ret, ackVars, mySeq, chipVars, stopped>>
    BY <1>1 DEF rtw_alloc_xmitbuf_ext
  <2> QED
    BY <1>0, <2>1, RunKept
<1>2. ASSUME NEW p \in Procs, dump_stopped(p) PROVE AckInv' /\ SuccessMeansAcked'
  BY <1>2 DEF dump_stopped
<1>3. ASSUME NEW p \in Procs, dump_mgntframe_and_wait(p) PROVE AckInv' /\ SuccessMeansAcked'
  <2>1. /\ p \in Waiters /\ pc' = [pc EXCEPT ![p] = "xmit"] /\ ~stopped
        /\ UNCHANGED <<buf, ret, ackReq, ackVars, mySeq, chipVars>>
    BY <1>3 DEF dump_mgntframe_and_wait
  <2> QED
    BY <1>0, <2>1, RunKept
<1>4. ASSUME NEW p \in Procs, dump_mgntframe_and_wait_ack_timeout(p)
      PROVE  AckInv' /\ SuccessMeansAcked'
  <2>1. /\ pc[p] = "dump" /\ pc' = [pc EXCEPT ![p] = "mutex"] /\ ~stopped
        /\ UNCHANGED <<buf, ret, ackReq, ackVars, mySeq, chipVars>>
    BY <1>4 DEF dump_mgntframe_and_wait_ack_timeout, bufVars
  <2> QED
    BY <1>0, <2>1, RunKept
<1>5. ASSUME NEW p \in Procs, ack_tx_mutex_enter(p) PROVE AckInv' /\ SuccessMeansAcked'
  BY <1>5, RunMutex DEF ack_tx_mutex_enter
<1>6. ASSUME NEW b \in Bufs, usb_write_port(b)
      PROVE  ~stopped /\ \A c \in Bufs : ackReq'[c] # -1 => ackReq'[c] = ackReq[c]
  <2>1. /\ stopped' \in {stopped, TRUE}
        /\ ackReq' = ackReq \/ ackReq' = [ackReq EXCEPT ![b] = -1]
    BY <1>6 DEF usb_write_port
  <2>2. ~stopped
    BY <2>1 DEF TypeInv, AckTypes
  <2> QED
    BY <1>0, <2>1, <2>2
<1>7. ASSUME NEW p \in Procs, rtw_hal_mgnt_xmit(p) PROVE AckInv' /\ SuccessMeansAcked'
  <2>1. /\ pc[p] = "xmit" /\ pc' = [pc EXCEPT ![p] = "wait"]
        /\ usb_write_port(buf[p]) \/ UNCHANGED <<ackReq, stopped>>
        /\ UNCHANGED <<buf, ret, ackVars, mySeq, chipVars>>
    BY <1>7 DEF rtw_hal_mgnt_xmit
  <2>2. ~stopped /\ \A c \in Bufs : ackReq'[c] # -1 => ackReq'[c] = ackReq[c]
    BY <1>0, <1>6, <2>1
  <2> QED
    BY <1>0, <2>1, <2>2, RunKept
<1>8. ASSUME NEW p \in Procs, rtw_sctx_wait(p) PROVE AckInv' /\ SuccessMeansAcked'
  <2>1. CASE p \in Ackers
    BY <1>8, <2>1, RunWait DEF rtw_sctx_wait
  <2>2. CASE p \in Waiters
    <3>1. /\ pc' = [pc EXCEPT ![p] = "leave"] /\ \A q \in Ackers : ret'[q] = ret[q]
          /\ UNCHANGED <<buf, ackReq, ackVars, mySeq, chipVars, stopped>>
      BY <1>0, <1>8, <2>2 DEF rtw_sctx_wait, bufVars
    <3> QED
      BY <1>0, <2>2, <3>1, RunKept
  <2> QED
    BY <1>0, <2>1, <2>2
<1>9. ASSUME NEW p \in Procs, leave(p) PROVE AckInv' /\ SuccessMeansAcked'
  <2>1. CASE p \in Ackers
    BY <1>9, <2>1, RunLeave DEF leave
  <2>2. CASE p \in Waiters
    <3>1. /\ pc' = [pc EXCEPT ![p] = "idle"]
          /\ UNCHANGED <<buf, ret, ackReq, ackVars, mySeq, chipVars, stopped>>
      BY <1>9, <2>2 DEF leave, ackVars
    <3> QED
      BY <1>0, <2>2, <3>1, RunKept
  <2> QED
    BY <1>0, <2>1, <2>2
<1>10. ASSUME NEW b \in Bufs, usb_write_port_complete(b) PROVE AckInv' /\ SuccessMeansAcked'
  <2>1. /\ air' = air \cup ({ackReq[b]} \ {-1}) \/ air' = air
        /\ stopped' \in {stopped, TRUE}
        /\ ackReq' = [ackReq EXCEPT ![b] = -1]
        /\ UNCHANGED <<pc, buf, ret, ackVars, mySeq, reports, acked>>
    BY <1>10 DEF usb_write_port_complete
  <2>2. ~stopped
    BY <2>1 DEF TypeInv, AckTypes
  <2>3. CASE air' = air
    BY <1>0, <2>1, <2>2, <2>3, RunKept DEF chipVars
  <2> QED
    BY <1>10, <2>1, <2>2, <2>3, RunTransferred
<1>11. ASSUME NEW b \in Bufs, rtl8188fu_xmitframe_complete(b) PROVE AckInv' /\ SuccessMeansAcked'
  BY <1>6, <1>11, RunKept DEF rtl8188fu_xmitframe_complete
<1>12. ASSUME NEW b \in Bufs, rtw_free_mgmt_xmitframe_queue(b) PROVE AckInv' /\ SuccessMeansAcked'
  <2>1. /\ ackReq' = [ackReq EXCEPT ![b] = -1]
        /\ UNCHANGED <<pc, buf, ret, ackVars, mySeq, chipVars, stopped>>
    BY <1>12 DEF rtw_free_mgmt_xmitframe_queue
  <2> QED
    BY <1>0, <2>1, RunKept
<1>13. ASSUME NEW n \in air, FrameSent(n) PROVE AckInv' /\ SuccessMeansAcked'
  BY <1>13, RunSent DEF FrameSent
<1>14. CASE CCX_FwC2HTxRpt_8188f
  BY <1>14, RunReport DEF CCX_FwC2HTxRpt_8188f
<1>15. CASE rtw_dev_unload
  BY <1>15 DEF rtw_dev_unload
<1>16. CASE UNCHANGED vars
  BY <1>16, RunKept DEF vars, bufVars
<1> QED
  BY <1>1, <1>2, <1>3, <1>4, <1>5, <1>7, <1>8, <1>9, <1>10, <1>11, <1>12, <1>13, <1>14, <1>15,
     <1>16 DEF Next, Runs

(* As long as no report comes after the wait for its frame is over,        *)
(* dump_mgntframe_and_wait_ack returns success only for a frame that the   *)
(* peer acknowledged, for any number of senders: the submit_ctx they share *)
(* is completed by the report of the frame of the one that has the mutex.  *)
THEOREM SuccessIsOfOwnFrame ==
  ASSUME ~LateReports
  PROVE  Spec => []SuccessMeansAcked
<1>1. Init => RunInv
  BY AckAssumption DEF Init, RunInv, AckInv, SuccessMeansAcked, Procs
<1>2. RunInv => SuccessMeansAcked
  BY DEF RunInv, SuccessMeansAcked
<1>3. TypeInv /\ RunInv /\ [Next]_vars => RunInv'
  BY RunStep
<1> QED
  BY <1>1, <1>2, <1>3, TypesHold, PTL DEF Spec

-----------------------------------------------------------------------------
(* Every buffer is in one place.                                           *)

HasBuf(p) == pc[p] \in {"dump", "mutex", "xmit"}
OnList(b) == \E i \in 1..Len(free_xmit_extbuf_queue) : free_xmit_extbuf_queue[i] = b
Held(b) == \E p \in Procs : HasBuf(p) /\ buf[p] = b

ListOnce ==
  \A i, j \in 1..Len(free_xmit_extbuf_queue) :
    free_xmit_extbuf_queue[i] = free_xmit_extbuf_queue[j] => i = j
HeldOnce == \A p, q \in Procs : HasBuf(p) /\ HasBuf(q) /\ buf[p] = buf[q] => p = q

InOne(b) ==
  /\ OnList(b) \/ Held(b) \/ b \in urb \/ b \in parked
  /\ ~(OnList(b) /\ Held(b)) /\ ~(OnList(b) /\ b \in urb) /\ ~(OnList(b) /\ b \in parked)
  /\ ~(Held(b) /\ b \in urb) /\ ~(Held(b) /\ b \in parked) /\ ~(b \in urb /\ b \in parked)

(* BufsInOnePlace without the cardinalities.                               *)
PlaceInv == ListOnce /\ HeldOnce /\ \A b \in Bufs : InOne(b)

(* A buffer comes back to the free list ...                                *)
LEMMA ListGrows ==
  ASSUME PtrOK, ListOnce, NEW b \in Bufs, ~OnList(b),
         free_xmit_extbuf_queue' = Append(free_xmit_extbuf_queue, b)
  PROVE  ListOnce' /\ \A c \in Bufs : OnList(c)' <=> OnList(c) \/ c = b
<1> DEFINE q == free_xmit_extbuf_queue
<1>1. /\ Len(q) \in Nat /\ Len(q') = Len(q) + 1 /\ q'[Len(q) + 1] = b
      /\ \A i \in 1..Len(q) : q'[i] = q[i] /\ q[i] # b
  BY DEF PtrOK, OnList
<1>2. \A i \in 1..Len(q') : i \in 1..Len(q) \/ i = Len(q) + 1
  BY <1>1
<1>3. 1..Len(q) \subseteq 1..Len(q') /\ Len(q) + 1 \in 1..Len(q')
  BY <1>1
<1> HIDE DEF q
<1>4. \A i, j \in 1..Len(q') : q'[i] = q'[j] => i = j
  <2> TAKE i, j \in 1..Len(q')
  <2>1. CASE i \in 1..Len(q) /\ j \in 1..Len(q)
    BY <1>1, <2>1 DEF ListOnce, q
  <2>2. CASE i = Len(q) + 1 \/ j = Len(q) + 1
    BY <1>1, <1>2, <2>2
  <2> QED
    BY <1>2, <2>1, <2>2
<1>5. ASSUME NEW c \in Bufs
      PROVE  (\E i \in 1..Len(q') : q'[i] = c) <=> (\E i \in 1..Len(q) : q[i] = c) \/ c = b
  BY <1>1, <1>2, <1>3
<1> QED
  BY <1>4, <1>5 DEF ListOnce, OnList, q

(* ... and the first one is taken.                                         *)
LEMMA ListShrinks ==
  ASSUME PtrOK, ListOnce, free_xmit_extbuf_queue # <<>>,
         free_xmit_extbuf_queue' = Tail(free_xmit_extbuf_queue)
  PROVE  /\ Head(free_xmit_extbuf_queue) \in Bufs /\ OnList(Head(free_xmit_extbuf_queue))
         /\ ListOnce'
         /\ \A c \in Bufs : OnList(c)' <=> OnList(c) /\ c # Head(free_xmit_extbuf_queue)
<1> DEFINE q == free_xmit_extbuf_queue
<1>1. /\ Head(q) \in Bufs /\ Head(q) = q[1] /\ Len(q) \in Nat \ {0} /\ Len(q') = Len(q) - 1
      /\ \A i \in 1..Len(q') : q'[i] = q[i + 1] /\ i + 1 \in 1..Len(q)
  BY DEF PtrOK
<1>2. \A i \in 1..Len(q) : i = 1 \/ \E j \in 1..Len(q') : i = j + 1
  <2> TAKE i \in 1..Len(q)
  <2>1. i # 1 => i - 1 \in 1..(Len(q) - 1) /\ i = (i - 1) + 1
    BY <1>1
  <2> QED
    BY <1>1, <2>1
<1>3. 1 \in 1..Len(q) /\ \A i \in 1..Len(q') : i \in Nat /\ i + 1 # 1
  BY <1>1
<1> HIDE DEF q
<1>4. \A i, j \in 1..Len(q') : q'[i] = q'[j] => i = j
  <2> TAKE i, j \in 1..Len(q')
  <2>1. q'[i] = q'[j] => i + 1 = j + 1
    BY <1>1 DEF ListOnce, q
  <2>2. i \in Nat /\ j \in Nat
    BY <1>3
  <2> QED
    BY <2>1, <2>2
<1>5. ASSUME NEW c \in Bufs
      PROVE  (\E i \in 1..Len(q') : q'[i] = c) <=> (\E i \in 1..Len(q) : q[i] = c) /\ c # Head(q)
  <2>1. ASSUME NEW i \in 1..Len(q'), q'[i] = c PROVE (\E k \in 1..Len(q) : q[k] = c) /\ c # Head(q)
    <3>1. q[i + 1] = c /\ i + 1 \in 1..Len(q)
      BY <1>1, <2>1
    <3>2. c = q[1] => i + 1 = 1
      BY <1>3, <3>1 DEF ListOnce, q
    <3> QED
      BY <1>1, <1>3, <3>1, <3>2
  <2>2. ASSUME NEW i \in 1..Len(q), q[i] = c, c # Head(q) PROVE \E k \in 1..Len(q') : q'[k] = c
    BY <1>1, <1>2, <2>2
  <2> QED
    BY <2>1, <2>2
<1> QED
  BY <1>1, <1>3, <1>4, <1>5 DEF ListOnce, OnList, q

(* A process goes on with its buffer, or hands it over.                    *)
LEMMA HandedOver ==
  ASSUME PtrOK, HeldOnce, NEW p \in Procs, HasBuf(p), buf' = buf, NEW s,
         pc' = [pc EXCEPT ![p] = s]
  PROVE  /\ HeldOnce'
         /\ \A c \in Bufs : Held(c)' <=> Held(c) /\ (c # buf[p] \/ s \in {"dump", "mutex", "xmit"})
<1>1. \A q \in Procs : HasBuf(q)' <=> HasBuf(q) /\ (q # p \/ s \in {"dump", "mutex", "xmit"})
  BY DEF PtrOK, HasBuf
<1>2. HeldOnce'
  BY <1>1 DEF HeldOnce
<1>3. ASSUME NEW c \in Bufs, Held(c)' PROVE Held(c) /\ (c # buf[p] \/ s \in {"dump", "mutex", "xmit"})
  BY <1>1, <1>3 DEF Held, HeldOnce
<1>4. ASSUME NEW c \in Bufs, Held(c), c # buf[p] \/ s \in {"dump", "mutex", "xmit"} PROVE Held(c)'
  BY <1>1, <1>4 DEF Held
<1> QED
  BY <1>2, <1>3, <1>4

(* A process that has no buffer does something.                            *)
LEMMA HeldKept ==
  ASSUME PtrOK, HeldOnce, buf' = buf, \A q \in Procs : HasBuf(q)' <=> HasBuf(q)
  PROVE  HeldOnce' /\ \A c \in Bufs : Held(c)' <=> Held(c)
BY DEF HeldOnce, Held

LEMMA ListKept ==
  ASSUME ListOnce, UNCHANGED free_xmit_extbuf_queue
  PROVE  ListOnce' /\ \A c \in Bufs : OnList(c)' <=> OnList(c)
BY DEF ListOnce, OnList

(* A write moves a buffer that is nowhere else to an URB or to the list.   *)
LEMMA WriteMoves ==
  ASSUME PtrOK, ListOnce, NEW b \in Bufs, ~OnList(b), b \notin urb, usb_write_port(b)
  PROVE  /\ ListOnce'
         /\ \A c \in Bufs \ {b} : (OnList(c)' <=> OnList(c)) /\ (c \in urb' <=> c \in urb)
         /\ OnList(b)' <=> b \notin urb'
<1>1. \/ UNCHANGED free_xmit_extbuf_queue /\ urb' = urb \cup {b}
      \/ free_xmit_extbuf_queue' = Append(free_xmit_extbuf_queue, b) /\ UNCHANGED urb
  BY Zenon DEF usb_write_port, BufBack
<1>2. CASE UNCHANGED free_xmit_extbuf_queue /\ urb' = urb \cup {b}
  BY <1>2, ListKept
<1>3. CASE free_xmit_extbuf_queue' = Append(free_xmit_extbuf_queue, b) /\ UNCHANGED urb
  BY <1>3, ListGrows
<1> QED
  BY <1>1, <1>2, <1>3

LEMMA PlaceAlloc ==
  ASSUME PtrOK, PlaceInv, NEW p \in Procs, rtw_alloc_xmitbuf_ext(p)
  PROVE  PlaceInv'
<1> DEFINE b == Head(free_xmit_extbuf_queue)
<1>1. /\ pc[p] = "idle" /\ free_xmit_extbuf_queue # <<>> /\ buf' = [buf EXCEPT ![p] = b]
      /\ free_xmit_extbuf_queue' = Tail(free_xmit_extbuf_queue)
      /\ pc' = [pc EXCEPT ![p] = "dump"] /\ UNCHANGED <<urb, parked>>
  BY DEF rtw_alloc_xmitbuf_ext
<1>2. /\ b \in Bufs /\ OnList(b) /\ ListOnce'
      /\ \A c \in Bufs : OnList(c)' <=> OnList(c) /\ c # b
  BY <1>1, ListShrinks DEF PlaceInv
<1> HIDE DEF b
<1>3. ~Held(b) /\ b \notin urb /\ b \notin parked
  BY <1>2 DEF PlaceInv, InOne
<1>4. /\ HasBuf(p)' /\ buf'[p] = b /\ ~HasBuf(p)
      /\ \A q \in Procs \ {p} : (HasBuf(q)' <=> HasBuf(q)) /\ buf'[q] = buf[q]
  BY <1>1 DEF PtrOK, HasBuf
<1>5. HeldOnce'
  BY <1>3, <1>4 DEF PlaceInv, HeldOnce, Held
<1>6. ASSUME NEW c \in Bufs PROVE Held(c)' <=> Held(c) \/ c = b
  <2>1. Held(c)' => Held(c) \/ c = b
    BY <1>4 DEF Held
  <2>2. Held(c) => Held(c)'
    BY <1>4 DEF Held
  <2>3. c = b => Held(c)'
    BY <1>4 DEF Held
  <2> QED
    BY <2>1, <2>2, <2>3
<1> QED
  BY <1>1, <1>2, <1>3, <1>5, <1>6 DEF PlaceInv, InOne

LEMMA PlaceXmit ==
  ASSUME PtrOK, PlaceInv, NEW p \in Procs, rtw_hal_mgnt_xmit(p)
  PROVE  PlaceInv'
<1>1. /\ pc' = [pc EXCEPT ![p] = "wait"] /\ buf' = buf /\ HasBuf(p) /\ buf[p] \in Bufs
      /\ \/ usb_write_port(buf[p]) /\ UNCHANGED parked
         \/ parked' = parked \cup {buf[p]} /\ UNCHANGED <<free_xmit_extbuf_queue, urb>>
  BY DEF rtw_hal_mgnt_xmit, PtrOK, HasBuf
<1>2. HeldOnce' /\ \A c \in Bufs : Held(c)' <=> Held(c) /\ c # buf[p]
  <2>1. /\ HeldOnce'
        /\ \A c \in Bufs : Held(c)' <=>
                            Held(c) /\ (c # buf[p] \/ "wait" \in {"dump", "mutex", "xmit"})
    BY <1>1, HandedOver DEF PlaceInv
  <2> QED
    BY <2>1
<1>3. ~OnList(buf[p]) /\ buf[p] \notin urb /\ buf[p] \notin parked
  BY <1>1 DEF PlaceInv, InOne, Held
<1>4. CASE usb_write_port(buf[p]) /\ UNCHANGED parked
  <2>1. /\ ListOnce'
        /\ \A c \in Bufs \ {buf[p]} : (OnList(c)' <=> OnList(c)) /\ (c \in urb' <=> c \in urb)
        /\ OnList(buf[p])' <=> buf[p] \notin urb'
    <3>1. ASSUME NEW b \in Bufs, b = buf[p]
          PROVE  /\ ListOnce'
                 /\ \A c \in Bufs \ {b} : (OnList(c)' <=> OnList(c)) /\ (c \in urb' <=> c \in urb)
                 /\ OnList(b)' <=> b \notin urb'
      BY <1>3, <1>4, <3>1, WriteMoves DEF PlaceInv
    <3> QED
      BY <1>1, <3>1
  <2>2. \A c \in Bufs : InOne(c)'
    <3>1. ASSUME NEW c \in Bufs \ {buf[p]} PROVE InOne(c)'
      BY <1>2, <1>4, <2>1 DEF PlaceInv, InOne
    <3>2. ASSUME NEW c \in Bufs, c = buf[p] PROVE InOne(c)'
      BY <1>1, <1>2, <1>3, <1>4, <2>1, <3>2 DEF InOne
    <3> QED
      BY <3>1, <3>2
  <2> QED
    BY <1>2, <2>1, <2>2 DEF PlaceInv
<1>5. CASE parked' = parked \cup {buf[p]} /\ UNCHANGED <<free_xmit_extbuf_queue, urb>>
  <2>1. ListOnce' /\ \A c \in Bufs : OnList(c)' <=> OnList(c)
    BY <1>5, ListKept DEF PlaceInv
  <2> QED
    BY <1>1, <1>2, <1>3, <1>5, <2>1 DEF PlaceInv, InOne
<1> QED
  BY <1>1, <1>4, <1>5

(* A buffer that a completion or a station held comes back.                *)
LEMMA PlaceBack ==
  ASSUME PtrOK, PlaceInv, NEW b \in Bufs, b \in urb \/ b \in parked,
         urb' = urb \ {b}, parked' = parked \ {b}, UNCHANGED <<pc, buf>>,
         free_xmit_extbuf_queue' = Append(free_xmit_extbuf_queue, b)
  PROVE  PlaceInv'
<1>1. ~OnList(b) /\ ~Held(b)
  BY DEF PlaceInv, InOne
<1>2. ListOnce' /\ \A c \in Bufs : OnList(c)' <=> OnList(c) \/ c = b
  BY <1>1, ListGrows DEF PlaceInv
<1>3. HeldOnce' /\ \A c \in Bufs : Held(c)' <=> Held(c)
  BY HeldKept DEF PlaceInv, HasBuf
<1> QED
  BY <1>1, <1>2, <1>3 DEF PlaceInv, InOne

LEMMA PlaceStep == TypeInv /\ PlaceInv /\ [Next]_vars => PlaceInv'
<1> SUFFICES ASSUME TypeInv, PlaceInv, [Next]_vars PROVE PlaceInv'
  OBVIOUS
<1>0. PtrOK
  BY DEF TypeInv
<1>1. ASSUME HeldOnce', \A c \in Bufs : Held(c)' <=> Held(c),
             UNCHANGED <<free_xmit_extbuf_queue, urb, parked>>
      PROVE  PlaceInv'
  <2>1. ListOnce' /\ \A c \in Bufs : OnList(c)' <=> OnList(c)
    BY <1>1, ListKept DEF PlaceInv
  <2> QED
    BY <1>1, <2>1 DEF PlaceInv, InOne
<1>2. ASSUME NEW p \in Procs, rtw_alloc_xmitbuf_ext(p) PROVE PlaceInv'
  BY <1>0, <1>2, PlaceAlloc
<1>3. ASSUME NEW p \in Procs, dump_stopped(p) PROVE PlaceInv'
  <2>1. /\ pc' = [pc EXCEPT ![p] = "idle"] /\ buf' = buf /\ HasBuf(p) /\ buf[p] \in Bufs
        /\ free_xmit_extbuf_queue' = Append(free_xmit_extbuf_queue, buf[p])
        /\ UNCHANGED <<urb, parked>>
    BY <1>0, <1>3 DEF dump_stopped, PtrOK, HasBuf
  <2>2. HeldOnce' /\ \A c \in Bufs : Held(c)' <=> Held(c) /\ c # buf[p]
    <3>1. /\ HeldOnce'
          /\ \A c \in Bufs : Held(c)' <=>
                              Held(c) /\ (c # buf[p] \/ "idle" \in {"dump", "mutex", "xmit"})
      BY <1>0, <2>1, HandedOver DEF PlaceInv
    <3> QED
      BY <3>1
  <2>3. ~OnList(buf[p]) /\ buf[p] \notin urb /\ buf[p] \notin parked
    BY <2>1 DEF PlaceInv, InOne, Held
  <2>4. ListOnce' /\ \A c \in Bufs : OnList(c)' <=> OnList(c) \/ c = buf[p]
    BY <1>0, <2>1, <2>3, ListGrows DEF PlaceInv
  <2> QED
    BY <2>1, <2>2, <2>3, <2>4 DEF PlaceInv, InOne
<1>4. ASSUME NEW p \in Procs,
             \/ dump_mgntframe_and_wait(p) \/ dump_mgntframe_and_wait_ack_timeout(p)
             \/ ack_tx_mutex_enter(p)
      PROVE  PlaceInv'
  <2>1. /\ \E s \in {"dump", "mutex", "xmit"} : pc' = [pc EXCEPT ![p] = s]
        /\ buf' = buf /\ HasBuf(p) /\ UNCHANGED <<free_xmit_extbuf_queue, urb, parked>>
    BY <1>4 DEF dump_mgntframe_and_wait, dump_mgntframe_and_wait_ack_timeout, ack_tx_mutex_enter,
                bufVars, HasBuf
  <2>2. HeldOnce' /\ \A c \in Bufs : Held(c)' <=> Held(c)
    BY <1>0, <2>1, HandedOver DEF PlaceInv
  <2> QED
    BY <1>1, <2>1, <2>2
<1>5. ASSUME NEW p \in Procs, rtw_hal_mgnt_xmit(p) PROVE PlaceInv'
  BY <1>0, <1>5, PlaceXmit
<1>6. ASSUME NEW p \in Procs, rtw_sctx_wait(p) \/ leave(p) PROVE PlaceInv'
  <2>1. /\ \A q \in Procs : HasBuf(q)' <=> HasBuf(q)
        /\ buf' = buf /\ UNCHANGED <<free_xmit_extbuf_queue, urb, parked>>
    BY <1>0, <1>6 DEF rtw_sctx_wait, leave, bufVars, HasBuf, PtrOK
  <2> QED
    BY <1>0, <1>1, <2>1, HeldKept DEF PlaceInv
<1>7. ASSUME NEW b \in Bufs, usb_write_port_complete(b) PROVE PlaceInv'
  <2>1. b \in urb /\ parked \ {b} = parked
    BY <1>7 DEF usb_write_port_complete, PlaceInv, InOne
  <2> QED
    BY <1>0, <1>7, <2>1, PlaceBack DEF usb_write_port_complete, BufBack
<1>8. ASSUME NEW b \in Bufs, rtl8188fu_xmitframe_complete(b) PROVE PlaceInv'
  <2>1. b \in parked /\ parked' = parked \ {b} /\ usb_write_port(b) /\ UNCHANGED <<pc, buf>>
    BY <1>8 DEF rtl8188fu_xmitframe_complete
  <2>2. ~OnList(b) /\ ~Held(b) /\ b \notin urb
    BY <2>1 DEF PlaceInv, InOne
  <2>3. /\ ListOnce'
        /\ \A c \in Bufs \ {b} : (OnList(c)' <=> OnList(c)) /\ (c \in urb' <=> c \in urb)
        /\ OnList(b)' <=> b \notin urb'
    BY <1>0, <2>1, <2>2, WriteMoves DEF PlaceInv
  <2>4. HeldOnce' /\ \A c \in Bufs : Held(c)' <=> Held(c)
    BY <1>0, <2>1, HeldKept DEF PlaceInv, HasBuf
  <2> QED
    BY <2>1, <2>2, <2>3, <2>4 DEF PlaceInv, InOne
<1>9. ASSUME NEW b \in Bufs, rtw_free_mgmt_xmitframe_queue(b) PROVE PlaceInv'
  <2>1. b \in parked /\ urb \ {b} = urb
    BY <1>9 DEF rtw_free_mgmt_xmitframe_queue, PlaceInv, InOne
  <2> QED
    BY <1>0, <1>9, <2>1, PlaceBack DEF rtw_free_mgmt_xmitframe_queue, BufBack
<1>10. CASE \/ \E n \in air : FrameSent(n)
            \/ CCX_FwC2HTxRpt_8188f \/ rtw_dev_unload \/ UNCHANGED vars
  <2>1. UNCHANGED <<pc, buf, free_xmit_extbuf_queue, urb, parked>>
    BY <1>10 DEF FrameSent, CCX_FwC2HTxRpt_8188f, rtw_dev_unload, vars, bufVars
  <2> QED
    BY <1>0, <1>1, <2>1, HeldKept DEF PlaceInv, HasBuf
<1> QED
  BY <1>2, <1>3, <1>4, <1>5, <1>6, <1>7, <1>8, <1>9, <1>10 DEF Next, Runs

LEMMA PlaceInit == Init => PlaceInv
<1> SUFFICES ASSUME Init PROVE PlaceInv
  OBVIOUS
<1> DEFINE q == free_xmit_extbuf_queue
<1> DEFINE n == Cardinality(Bufs)
<1>1. n \in Nat
  BY AckAssumption, FS_CardinalityType
<1>2. q \in [1..n -> Bufs] /\ \A i, j \in 1..n : q[i] = q[j] => i = j
  BY DEF Init
<1>3. Len(q) = n
  BY <1>1, <1>2
<1>4. ListOnce
  BY <1>2, <1>3 DEF ListOnce
<1>5. \A b \in Bufs : OnList(b)
  <2>1. q \in Injection(1..n, Bufs)
    BY <1>2 DEF Injection, IsInjective
  <2>2. Cardinality(1..n) = n
    BY <1>1, FS_Interval
  <2>3. q \in Surjection(1..n, Bufs)
    BY <2>1, <2>2, AckAssumption, FS_Injection
  <2> QED
    BY <1>3, <2>3 DEF OnList, Surjection
<1> QED
  BY <1>4, <1>5 DEF Init, PlaceInv, InOne, HeldOnce, Held, HasBuf

(* A buffer for management frames is on the free list once, parked, in an  *)
(* URB or with one process that has not handed it over, through every      *)
(* failed write, timeout and freed station: none is lost, none is given    *)
(* out twice, for any number of buffers and processes.                     *)
THEOREM BufsAreKept == Spec => []BufsInOnePlace
<1>1. TypeInv /\ PlaceInv => BufsInOnePlace
  <2> SUFFICES ASSUME TypeInv, PlaceInv, NEW b \in Bufs
               PROVE  Cardinality({i \in DOMAIN free_xmit_extbuf_queue :
                                     free_xmit_extbuf_queue[i] = b})
                        + Cardinality({p \in Procs : HasBuf(p) /\ buf[p] = b})
                        + Cardinality({b} \cap urb) + Cardinality({b} \cap parked) = 1
    BY DEF BufsInOnePlace, HasBuf
  <2> DEFINE onList == {i \in DOMAIN free_xmit_extbuf_queue : free_xmit_extbuf_queue[i] = b}
  <2> DEFINE held == {p \in Procs : HasBuf(p) /\ buf[p] = b}
  <2>1. InOne(b) /\ ListOnce /\ HeldOnce /\ DOMAIN free_xmit_extbuf_queue = 1..Len(free_xmit_extbuf_queue)
    BY DEF PlaceInv, TypeInv, PtrOK
  <2>2. IF OnList(b) THEN \E x : onList = {x} ELSE onList = {}
    <3>1. ~OnList(b) => onList = {}
      BY <2>1 DEF OnList
    <3>2. ASSUME OnList(b) PROVE \E x : onList = {x}
      <4>1. PICK x \in 1..Len(free_xmit_extbuf_queue) : free_xmit_extbuf_queue[x] = b
        BY <3>2 DEF OnList
      <4>2. onList = {x}
        BY <2>1, <4>1 DEF ListOnce
      <4> QED
        BY <4>2
    <3> QED
      BY <3>1, <3>2
  <2>3. IF Held(b) THEN \E x : held = {x} ELSE held = {}
    <3>1. ~Held(b) => held = {}
      BY DEF Held
    <3>2. ASSUME Held(b) PROVE \E x : held = {x}
      <4>1. PICK x \in Procs : HasBuf(x) /\ buf[x] = b
        BY <3>2 DEF Held
      <4>2. held = {x}
        BY <2>1, <4>1 DEF HeldOnce
      <4> QED
        BY <4>2
    <3> QED
      BY <3>1, <3>2
  <2>4. /\ {b} \cap urb = IF b \in urb THEN {b} ELSE {}
        /\ {b} \cap parked = IF b \in parked THEN {b} ELSE {}
    OBVIOUS
  <2> HIDE DEF onList, held
  <2>5. /\ Cardinality(onList) = IF OnList(b) THEN 1 ELSE 0
        /\ Cardinality(held) = IF Held(b) THEN 1 ELSE 0
        /\ Cardinality({b} \cap urb) = IF b \in urb THEN 1 ELSE 0
        /\ Cardinality({b} \cap parked) = IF b \in parked THEN 1 ELSE 0
    BY <2>2, <2>3, <2>4, FS_EmptySet, FS_Singleton
  <2>6. Cardinality(onList) + Cardinality(held) + Cardinality({b} \cap urb)
          + Cardinality({b} \cap parked) = 1
    BY <2>1, <2>5 DEF InOne
  <2> QED
    BY <2>6 DEF onList, held
<1> QED
  BY <1>1, PlaceInit, PlaceStep, TypesHold, PTL DEF Spec
=============================================================================
