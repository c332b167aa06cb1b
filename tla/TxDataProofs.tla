---------------------------- MODULE TxDataProofs ----------------------------
(***************************************************************************)
(* Theorems about the data transmit path, for every number of frames and   *)
(* buffers and every set of kernel queues: types, no buffer is lost or     *)
(* given back twice with all contexts in parallel, and on one CPU frames   *)
(* of a queue reach the bus in order.                                      *)
(***************************************************************************)
EXTENDS TxData, FiniteSetTheorems, TLAPS

(* The types of everything but the counters of buffers.                    *)
FrameTypes ==
  /\ free_xmit_queue \in Seq(Frames) /\ os_qid \in [Frames -> Queues]
  /\ netif_stopped \in [Queues -> BOOLEAN] /\ older \subseteq Frames \X Frames
  /\ sta_pending \in [Queues -> Seq(Frames)]
  /\ pc \in [Ctx -> {"idle", "check", "stop", "xmit", "write", "free", "wake",
                     "loop", "deq", "agg", "lock", "flush"}]
  /\ hold \in [Ctx -> Seq(Frames)] /\ lock \in {"none", "tasklet", "flush"}
  /\ sched \in BOOLEAN /\ blocked \in BOOLEAN /\ linking \in BOOLEAN
  /\ resched \subseteq {"scan", "join"} /\ assoc \in BOOLEAN
  /\ flushed \subseteq Queues /\ stopped \in BOOLEAN

(* Where a context may be, how many frames it then has in its hands and    *)
(* whether it has a buffer.  Only the tasklet has two frames, the one it   *)
(* appended to the buffer and the first one, or keeps its buffer while it  *)
(* frees a frame.                                                          *)
CtxOK(c) ==
  /\ c \in Queues => pc[c] \in {"idle", "check", "stop", "xmit", "write", "free", "wake"}
  /\ c = "tasklet" => pc[c] \in {"idle", "loop", "deq", "agg", "write", "free", "wake"}
  /\ c = "flush" => pc[c] \in {"idle", "lock", "flush", "free", "wake"}
  /\ pc[c] \in {"idle", "loop", "deq", "lock", "flush"} => Len(hold[c]) = 0
  /\ pc[c] \in {"check", "stop", "xmit", "agg", "write"} => Len(hold[c]) = 1
  /\ pc[c] \in {"free", "wake"} =>
       Len(hold[c]) = 1 \/ (c = "tasklet" /\ c \in hasBuf /\ Len(hold[c]) = 2)
  /\ pc[c] \in {"deq", "agg", "write"} => c \in hasBuf
  /\ pc[c] # "write" /\ (c # "tasklet" \/ pc[c] \in {"idle", "loop"}) => c \notin hasBuf

HoldInv == \A c \in Ctx : CtxOK(c)

BufInv ==
  /\ free_xmitbuf_cnt \in Nat /\ inflight \in Nat /\ hasBuf \subseteq Ctx
  /\ BuffersConserved

TypeInv == FrameTypes /\ HoldInv /\ BufInv

-----------------------------------------------------------------------------
(* Contexts and sequences.                                                 *)

LEMMA Contexts ==
  /\ Queues \subseteq Ctx /\ "tasklet" \in Ctx /\ "flush" \in Ctx
  /\ "tasklet" \notin Queues /\ "flush" \notin Queues
BY TxAssumption DEF Ctx

LEMMA CtxFinite == IsFiniteSet(Ctx)
<1>1. IsFiniteSet({"vo", "vi", "be", "bk", "tasklet", "flush"})
  <2>1. \A S, x : IsFiniteSet(S) => IsFiniteSet(S \cup {x})
    BY FS_AddElement
  <2>2. IsFiniteSet({"vo"})
    BY FS_Singleton
  <2>3. IsFiniteSet({"vo"} \cup {"vi"})
    BY <2>1, <2>2
  <2>4. IsFiniteSet({"vo"} \cup {"vi"} \cup {"be"})
    BY <2>1, <2>3
  <2>5. IsFiniteSet({"vo"} \cup {"vi"} \cup {"be"} \cup {"bk"})
    BY <2>1, <2>4
  <2>6. IsFiniteSet({"vo"} \cup {"vi"} \cup {"be"} \cup {"bk"} \cup {"tasklet"})
    BY <2>1, <2>5
  <2>7. IsFiniteSet({"vo"} \cup {"vi"} \cup {"be"} \cup {"bk"} \cup {"tasklet"} \cup {"flush"})
    BY <2>1, <2>6
  <2>8. {"vo"} \cup {"vi"} \cup {"be"} \cup {"bk"} \cup {"tasklet"} \cup {"flush"} =
          {"vo", "vi", "be", "bk", "tasklet", "flush"}
    OBVIOUS
  <2> QED
    BY <2>7, <2>8, Zenon
<1>2. Ctx \subseteq {"vo", "vi", "be", "bk", "tasklet", "flush"}
  BY TxAssumption DEF Ctx
<1> QED
  BY <1>1, <1>2, FS_Subset

LEMMA HeadTail ==
  ASSUME NEW s \in Seq(Frames), s # <<>>
  PROVE  /\ Head(s) \in Frames /\ Head(s) = s[1] /\ Tail(s) \in Seq(Frames)
         /\ Len(s) \in Nat \ {0} /\ Len(Tail(s)) = Len(s) - 1
         /\ \A i \in 1..Len(Tail(s)) : Tail(s)[i] = s[i + 1] /\ i + 1 \in 1..Len(s)
OBVIOUS

LEMMA Nonempty == \A s \in Seq(Frames) : s # <<>> <=> Len(s) # 0
OBVIOUS

LEMMA Singleton ==
  ASSUME NEW f \in Frames
  PROVE  <<f>> \in Seq(Frames) /\ Len(<<f>>) = 1 /\ <<f>>[1] = f /\ <<f>> # <<>>
OBVIOUS

LEMMA Consed ==
  ASSUME NEW f \in Frames, NEW s \in Seq(Frames)
  PROVE  /\ <<f>> \o s \in Seq(Frames) /\ Len(<<f>> \o s) = Len(s) + 1 /\ (<<f>> \o s)[1] = f
         /\ \A i \in 1..Len(s) : (<<f>> \o s)[i + 1] = s[i]
OBVIOUS

LEMMA Appended ==
  ASSUME NEW s \in Seq(Frames), NEW f \in Frames
  PROVE  /\ Append(s, f) \in Seq(Frames) /\ Len(s) \in Nat /\ Len(Append(s, f)) = Len(s) + 1
         /\ \A i \in 1..Len(s) : Append(s, f)[i] = s[i]
         /\ Append(s, f)[Len(s) + 1] = f
OBVIOUS

(* rtw_dequeue_xframe finds a queue with a frame when there is one.        *)
LEMMA FirstIsPending ==
  ASSUME rtw_txframes_pending
  PROVE  FirstQueue \in Queues /\ sta_pending[FirstQueue] # <<>>
<1>1. DOMAIN hwxmits = 1..4 /\ hwxmits[1] = "vo" /\ hwxmits[2] = "vi" /\ hwxmits[3] = "be"
      /\ hwxmits[4] = "bk"
  BY DEF hwxmits
<1>2. HasPending(1) \/ HasPending(2) \/ HasPending(3) \/ HasPending(4)
  BY <1>1, TxAssumption DEF rtw_txframes_pending, HasPending
<1>3. \E i \in DOMAIN hwxmits : HasPending(i) /\ \A j \in 1..i - 1 : ~HasPending(j)
  <2>1. CASE HasPending(1)
    BY <1>1, <2>1
  <2>2. CASE ~HasPending(1) /\ HasPending(2)
    <3>1. \A j \in 1..2 - 1 : j = 1
      OBVIOUS
    <3> QED
      BY <1>1, <2>2, <3>1
  <2>3. CASE ~HasPending(1) /\ ~HasPending(2) /\ HasPending(3)
    <3>1. \A j \in 1..3 - 1 : j = 1 \/ j = 2
      OBVIOUS
    <3> QED
      BY <1>1, <2>3, <3>1
  <2>4. CASE ~HasPending(1) /\ ~HasPending(2) /\ ~HasPending(3)
    <3>1. \A j \in 1..4 - 1 : j = 1 \/ j = 2 \/ j = 3
      OBVIOUS
    <3> QED
      BY <1>1, <1>2, <2>4, <3>1
  <2> QED
    BY <2>1, <2>2, <2>3, <2>4
<1> DEFINE P(i) == HasPending(i) /\ \A j \in 1..i - 1 : ~HasPending(j)
<1>4. P(CHOOSE i \in DOMAIN hwxmits : P(i))
  BY <1>3
<1> QED
  BY <1>4 DEF FirstQueue, HasPending

-----------------------------------------------------------------------------
(* Initially.                                                              *)

(* free_xmit_queue holds every frame once.                                 *)
LEMMA InitList ==
  ASSUME Init
  PROVE  /\ free_xmit_queue \in Seq(Frames)
         /\ \A i, j \in 1..Len(free_xmit_queue) : free_xmit_queue[i] = free_xmit_queue[j] => i = j
         /\ InUse = {}
<1> DEFINE n == Cardinality(Frames)
<1> DEFINE P(s) == \A i, j \in DOMAIN s : s[i] = s[j] => i = j
<1>1. n \in Nat /\ ExistsBijection(1..n, Frames)
  BY TxAssumption, FS_CardinalityType
<1>2. PICK b \in Bijection(1..n, Frames) : TRUE
  BY <1>1 DEF ExistsBijection
<1>3. b \in [1..n -> Frames] /\ P(b)
  BY <1>2 DEF Bijection, Injection, IsInjective
<1>4. free_xmit_queue \in [1..n -> Frames] /\ P(free_xmit_queue)
  <2>1. free_xmit_queue = CHOOSE s \in [1..n -> Frames] : P(s)
    BY DEF Init
  <2> HIDE DEF P, n
  <2> QED
    BY <1>3, <2>1
<1>5. free_xmit_queue \in Seq(Frames) /\ Len(free_xmit_queue) = n /\ DOMAIN free_xmit_queue = 1..n
  BY <1>1, <1>4
<1>6. \A f \in Frames : \E i \in DOMAIN free_xmit_queue : free_xmit_queue[i] = f
  <2>1. free_xmit_queue \in Injection(1..n, Frames)
    BY <1>4 DEF Injection, IsInjective
  <2>2. Cardinality(1..n) = n
    BY <1>1, FS_Interval
  <2>3. free_xmit_queue \in Surjection(1..n, Frames)
    BY <2>1, <2>2, TxAssumption, FS_Injection
  <2> QED
    BY <1>5, <2>3 DEF Surjection
<1> QED
  BY <1>4, <1>5, <1>6 DEF InUse

LEMMA TypesInit == Init => TypeInv
<1> SUFFICES ASSUME Init PROVE TypeInv
  OBVIOUS
<1>1. FrameTypes
  <2>1. (CHOOSE q \in Queues : TRUE) \in Queues
    BY TxAssumption
  <2>2. netif_stopped \in [Queues -> BOOLEAN] /\ sched \in BOOLEAN /\ blocked \in BOOLEAN
        /\ linking \in BOOLEAN /\ assoc \in BOOLEAN /\ stopped \in BOOLEAN
    BY DEF Init
  <2>3. sta_pending \in [Queues -> Seq(Frames)] /\ hold \in [Ctx -> Seq(Frames)]
    BY DEF Init
  <2> QED
    BY <2>1, <2>2, <2>3, InitList DEF Init, FrameTypes
<1>2. HoldInv
  BY DEF Init, HoldInv, CtxOK
<1>3. BufInv
  BY TxAssumption, FS_EmptySet DEF Init, BufInv, BuffersConserved
<1> QED
  BY <1>1, <1>2, <1>3 DEF TypeInv

-----------------------------------------------------------------------------
(* What a context holds.                                                   *)

(* A context steps and leaves the others alone.                            *)
LEMMA OneSteps ==
  ASSUME HoldInv, NEW c \in Ctx, CtxOK(c)',
         \A d \in Ctx \ {c} : /\ pc'[d] = pc[d] /\ hold'[d] = hold[d]
                              /\ d \in hasBuf' <=> d \in hasBuf
  PROVE  HoldInv'
<1> SUFFICES ASSUME NEW d \in Ctx \ {c} PROVE CtxOK(d)'
  BY DEF HoldInv
<1>1. CtxOK(d) /\ pc'[d] = pc[d] /\ hold'[d] = hold[d] /\ (d \in hasBuf' <=> d \in hasBuf)
  BY DEF HoldInv
<1> QED
  BY <1>1 DEF CtxOK

LEMMA HoldEntry ==
  ASSUME FrameTypes, HoldInv, NEW q \in Queues, rtw_alloc_xmitframe(q) \/ Entry(q)
  PROVE  HoldInv'
<1>0. q \in Ctx /\ CtxOK(q) /\ q # "tasklet" /\ q # "flush"
  BY Contexts DEF HoldInv
<1> USE DEF FrameTypes
<1>1. CASE rtw_alloc_xmitframe(q)
  <2>1. /\ pc[q] = "idle" /\ pc' = [pc EXCEPT ![q] = "check"] /\ hasBuf' = hasBuf
        /\ hold' = [hold EXCEPT ![q] = <<Head(free_xmit_queue)>>]
    BY <1>1 DEF rtw_alloc_xmitframe, MayStart, bufVars
  <2>2. Len(<<Head(free_xmit_queue)>>) = 1
    OBVIOUS
  <2>3. CtxOK(q)'
    BY <1>0, <2>1, <2>2 DEF CtxOK
  <2> QED
    BY <1>0, <2>1, <2>3, OneSteps
<1>2. CASE rtw_os_check_stop_queue(q) \/ netif_stop_subqueue(q) \/ rtw_xmit_fails(q)
  <2>1. /\ pc[q] \in {"check", "stop", "xmit"} /\ UNCHANGED <<hold, hasBuf>>
        /\ \E s \in {"stop", "xmit", "free"} : pc' = [pc EXCEPT ![q] = s]
    BY <1>2 DEF rtw_os_check_stop_queue, netif_stop_subqueue, rtw_xmit_fails, bufVars
  <2>2. CtxOK(q)'
    BY <1>0, <2>1 DEF CtxOK
  <2> QED
    BY <1>0, <2>1, <2>2, OneSteps
<1>3. CASE pre_xmitframe(q)
  <2>1. pc[q] = "xmit"
    BY <1>3 DEF pre_xmitframe
  <2>2. CASE /\ hasBuf' = hasBuf \cup {q} /\ pc' = [pc EXCEPT ![q] = "write"] /\ hold' = hold
    <3>1. CtxOK(q)'
      BY <1>0, <2>1, <2>2 DEF CtxOK
    <3> QED
      BY <1>0, <2>2, <3>1, OneSteps
  <2>3. CASE /\ hold' = [hold EXCEPT ![q] = <<>>] /\ pc' = [pc EXCEPT ![q] = "idle"]
             /\ hasBuf' = hasBuf
    <3>1. CtxOK(q)'
      BY <1>0, <2>1, <2>3 DEF CtxOK
    <3> QED
      BY <1>0, <2>3, <3>1, OneSteps
  <2>4. CASE pc' = [pc EXCEPT ![q] = "free"] /\ UNCHANGED <<hold, hasBuf>>
    <3>1. CtxOK(q)'
      BY <1>0, <2>1, <2>4 DEF CtxOK
    <3> QED
      BY <1>0, <2>4, <3>1, OneSteps
  <2> QED
    BY <1>3, <2>2, <2>3, <2>4 DEF pre_xmitframe
<1> QED
  BY <1>1, <1>2, <1>3 DEF Entry

LEMMA HoldGiveBack ==
  ASSUME FrameTypes, HoldInv, NEW c \in Ctx, GiveBack(c)
  PROVE  HoldInv'
<1>0. CtxOK(c) /\ hold[c] \in Seq(Frames) /\ DOMAIN pc = Ctx /\ DOMAIN hold = Ctx
      /\ pc = [d \in Ctx |-> pc[d]] /\ hold = [d \in Ctx |-> hold[d]]
  BY DEF HoldInv, FrameTypes
<1>1. CASE usb_write_port(c)
  <2>1. /\ pc[c] = "write" /\ hasBuf' = hasBuf \ {c} /\ pc' = [pc EXCEPT ![c] = "free"]
        /\ hold' = hold
    BY <1>1 DEF usb_write_port
  <2>2. CtxOK(c)'
    BY <1>0, <2>1, Contexts DEF CtxOK
  <2> QED
    BY <1>0, <2>1, <2>2, OneSteps
<1>2. CASE rtw_free_xmitframe(c)
  <2>1. pc[c] = "free" /\ pc' = [pc EXCEPT ![c] = "wake"] /\ UNCHANGED <<hold, hasBuf>>
    BY <1>2 DEF rtw_free_xmitframe, bufVars
  <2>2. CtxOK(c)'
    BY <1>0, <2>1 DEF CtxOK
  <2> QED
    BY <1>0, <2>1, <2>2, OneSteps
<1>3. CASE rtw_os_check_wakup_queue(c)
  <2>1. /\ pc[c] = "wake" /\ pc' = [pc EXCEPT ![c] = AfterWake(c)] /\ hasBuf' = hasBuf
        /\ hold' = [hold EXCEPT ![c] = Tail(hold[c])]
    BY <1>3 DEF rtw_os_check_wakup_queue, bufVars
  <2>2. hold[c] # <<>>
    <3>1. pc[c] \in {"free", "wake"} => Len(hold[c]) = 1 \/ Len(hold[c]) = 2
      BY <1>0 DEF CtxOK
    <3>2. Len(hold[c]) = 1 \/ Len(hold[c]) = 2
      BY <2>1, <3>1
    <3>3. ASSUME hold[c] = <<>> PROVE Len(hold[c]) = 0
      BY <3>3
    <3>4. Len(hold[c]) # 0
      BY <3>2
    <3> QED
      BY <3>3, <3>4
  <2>3. /\ Len(Tail(hold[c])) = Len(hold[c]) - 1 /\ Tail(hold[c]) \in Seq(Frames)
        /\ Tail(hold[c]) # <<>> <=> Len(hold[c]) - 1 # 0
    BY <1>0, <2>2, HeadTail, Nonempty
  <2>4. pc'[c] = AfterWake(c) /\ hold'[c] = Tail(hold[c])
    BY <1>0, <2>1
  <2>5. CASE Len(hold[c]) = 1
    <3>1. Len(hold'[c]) = 0 /\ Tail(hold[c]) = <<>>
      BY <2>3, <2>4, <2>5
    <3>2. ASSUME c \in Queues PROVE CtxOK(c)'
      <4>1. AfterWake(c) = "idle"
        BY <3>2 DEF AfterWake
      <4> QED
        BY <1>0, <2>1, <2>4, <3>1, <3>2, <4>1, Contexts DEF CtxOK
    <3>3. ASSUME c = "flush" PROVE CtxOK(c)'
      <4>1. AfterWake(c) = "flush"
        BY <3>3, Contexts DEF AfterWake
      <4> QED
        BY <1>0, <2>1, <2>4, <3>1, <3>3, <4>1, Contexts DEF CtxOK
    <3>4. ASSUME c = "tasklet" PROVE CtxOK(c)'
      <4>1. AfterWake(c) = IF c \in hasBuf THEN "deq" ELSE "loop"
        BY <3>1, <3>4, Contexts DEF AfterWake
      <4> QED
        BY <1>0, <2>1, <2>4, <3>1, <3>4, <4>1, Contexts DEF CtxOK
    <3>5. CtxOK(c)'
      BY <3>2, <3>3, <3>4 DEF Ctx
    <3> QED
      BY <1>0, <2>1, <3>5, OneSteps
  <2>6. CASE c = "tasklet" /\ c \in hasBuf /\ Len(hold[c]) = 2
    <3>1. Len(hold'[c]) = 1 /\ Tail(hold[c]) # <<>>
      BY <2>3, <2>4, <2>6
    <3>2. CtxOK(c)'
      BY <1>0, <2>1, <2>4, <2>6, <3>1, Contexts DEF CtxOK, AfterWake
    <3> QED
      BY <1>0, <2>1, <3>2, OneSteps
  <2> QED
    BY <1>0, <2>1, <2>5, <2>6 DEF CtxOK
<1> QED
  BY <1>1, <1>2, <1>3 DEF GiveBack

LEMMA HoldTasklet ==
  ASSUME FrameTypes, HoldInv, xmit_tasklet_starts \/ Tasklet
  PROVE  HoldInv'
<1>0. CtxOK("tasklet") /\ "tasklet" \in Ctx /\ "tasklet" \notin Queues
  BY Contexts DEF HoldInv
<1> USE DEF FrameTypes
<1>1. CASE xmit_tasklet_starts
  <2>1. /\ pc["tasklet"] = "idle" /\ pc' = [pc EXCEPT !["tasklet"] = "loop"]
        /\ UNCHANGED <<hold, hasBuf>>
    BY <1>1 DEF xmit_tasklet_starts, MayStart, bufVars
  <2>2. ASSUME NEW c, c = "tasklet" PROVE CtxOK(c)'
    BY <1>0, <2>1, <2>2 DEF CtxOK
  <2> QED
    BY <1>0, <2>1, <2>2, OneSteps
<1>2. CASE rtl8188fu_xmit_tasklet
  <2>1. /\ pc["tasklet"] = "loop" /\ hold' = hold
        /\ \/ pc' = [pc EXCEPT !["tasklet"] = "idle"] /\ hasBuf' = hasBuf
           \/ pc' = [pc EXCEPT !["tasklet"] = "deq"] /\ hasBuf' = hasBuf \cup {"tasklet"}
    BY <1>2 DEF rtl8188fu_xmit_tasklet
  <2>2. ASSUME NEW c, c = "tasklet" PROVE CtxOK(c)'
    BY <1>0, <2>1, <2>2 DEF CtxOK
  <2> QED
    BY <1>0, <2>1, <2>2, OneSteps
<1>3. CASE rtw_dequeue_xframe
  <2>1. pc["tasklet"] = "deq"
    BY <1>3 DEF rtw_dequeue_xframe
  <2>2. CASE /\ hasBuf' = hasBuf \ {"tasklet"} /\ pc' = [pc EXCEPT !["tasklet"] = "idle"]
             /\ hold' = hold
    <3>1. ASSUME NEW c, c = "tasklet" PROVE CtxOK(c)'
      BY <1>0, <2>1, <2>2, <3>1 DEF CtxOK
    <3> QED
      BY <1>0, <2>2, <3>1, OneSteps
  <2>3. CASE /\ hold' = [hold EXCEPT !["tasklet"] = <<Head(sta_pending[FirstQueue])>>]
             /\ \E r \in {"free", "agg"} : pc' = [pc EXCEPT !["tasklet"] = r]
             /\ hasBuf' = hasBuf
    <3>1. Len(<<Head(sta_pending[FirstQueue])>>) = 1
      OBVIOUS
    <3>2. ASSUME NEW c, c = "tasklet" PROVE CtxOK(c)'
      BY <1>0, <2>1, <2>3, <3>1, <3>2 DEF CtxOK
    <3> QED
      BY <1>0, <2>3, <3>2, OneSteps
  <2> QED
    BY <1>3, <2>2, <2>3 DEF rtw_dequeue_xframe
<1>4. CASE aggregate
  <2>1. pc["tasklet"] = "agg" /\ hasBuf' = hasBuf /\ hold["tasklet"] \in Seq(Frames)
        /\ Len(hold["tasklet"]) = 1 /\ "tasklet" \in hasBuf
    BY <1>0, <1>4 DEF aggregate, bufVars, CtxOK
  <2>2. PICK q \in Queues : q = os_qid[Head(hold["tasklet"])]
    BY <2>1
  <2>3. CASE /\ sta_pending[q] # <<>> /\ pc' = [pc EXCEPT !["tasklet"] = "free"]
             /\ hold' = [hold EXCEPT !["tasklet"] = <<Head(sta_pending[q])>> \o hold["tasklet"]]
    <3>1. Len(<<Head(sta_pending[q])>> \o hold["tasklet"]) = 2
      <4>1. sta_pending[q] \in Seq(Frames)
        OBVIOUS
      <4>2. Head(sta_pending[q]) \in Frames
        BY <2>3, <4>1, HeadTail
      <4>3. Len(<<Head(sta_pending[q])>> \o hold["tasklet"]) = Len(hold["tasklet"]) + 1
        BY <2>1, <4>2, Consed
      <4> QED
        BY <2>1, <4>3
    <3>2. ASSUME NEW c, c = "tasklet" PROVE CtxOK(c)'
      BY <1>0, <2>1, <2>3, <3>1, <3>2 DEF CtxOK
    <3> QED
      BY <1>0, <2>1, <2>3, <3>2, OneSteps
  <2>4. CASE pc' = [pc EXCEPT !["tasklet"] = "write"] /\ hold' = hold
    <3>1. ASSUME NEW c, c = "tasklet" PROVE CtxOK(c)'
      BY <1>0, <2>1, <2>4, <3>1 DEF CtxOK
    <3> QED
      BY <1>0, <2>1, <2>4, <3>1, OneSteps
  <2> QED
    BY <1>4, <2>2, <2>3, <2>4 DEF aggregate
<1> QED
  BY <1>1, <1>2, <1>3, <1>4 DEF Tasklet

LEMMA HoldFlush ==
  ASSUME FrameTypes, HoldInv, rtw_free_stainfo \/ Flush
  PROVE  HoldInv'
<1>0. CtxOK("flush") /\ "flush" \in Ctx /\ "flush" \notin Queues
  BY Contexts DEF HoldInv
<1> USE DEF FrameTypes
<1>1. CASE rtw_free_stainfo \/ rtw_free_stainfo_lock
  <2>1. /\ pc["flush"] \in {"idle", "lock"} /\ UNCHANGED <<hold, hasBuf>>
        /\ \E s \in {"lock", "flush"} : pc' = [pc EXCEPT !["flush"] = s]
    BY <1>1 DEF rtw_free_stainfo, rtw_free_stainfo_lock, MayStart, bufVars
  <2>2. ASSUME NEW c, c = "flush" PROVE CtxOK(c)'
    BY <1>0, <2>1, <2>2 DEF CtxOK
  <2> QED
    BY <1>0, <2>1, <2>2, OneSteps
<1>2. CASE rtw_free_xmitframe_queue
  <2>1. pc["flush"] = "flush" /\ hasBuf' = hasBuf
    BY <1>2 DEF rtw_free_xmitframe_queue, bufVars
  <2>2. ASSUME NEW q \in Queues, hold' = [hold EXCEPT !["flush"] = <<Head(sta_pending[q])>>],
               pc' = [pc EXCEPT !["flush"] = "free"]
        PROVE  HoldInv'
    <3>1. Len(<<Head(sta_pending[q])>>) = 1
      OBVIOUS
    <3>2. ASSUME NEW c, c = "flush" PROVE CtxOK(c)'
      BY <1>0, <2>1, <2>2, <3>1, <3>2 DEF CtxOK
    <3> QED
      BY <1>0, <2>1, <2>2, <3>2, OneSteps
  <2>3. CASE hold' = hold /\ pc' = [pc EXCEPT !["flush"] = "idle"]
    <3>1. ASSUME NEW c, c = "flush" PROVE CtxOK(c)'
      BY <1>0, <2>1, <2>3, <3>1 DEF CtxOK
    <3> QED
      BY <1>0, <2>1, <2>3, <3>1, OneSteps
  <2> QED
    BY <1>2, <2>2, <2>3 DEF rtw_free_xmitframe_queue
<1> QED
  BY <1>1, <1>2 DEF Flush

LEMMA HoldStep == FrameTypes /\ HoldInv /\ [Next]_vars => HoldInv'
<1> SUFFICES ASSUME FrameTypes, HoldInv, [Next]_vars PROVE HoldInv'
  OBVIOUS
<1>1. CASE \/ usb_write_port_complete \/ Phase \/ rtw_alloc_stainfo \/ rtw_set_drv_stopped
           \/ UNCHANGED vars
  <2>1. UNCHANGED <<pc, hold, hasBuf>>
    BY <1>1 DEF usb_write_port_complete, Phase, rtw_leave_opch, rtw_back_opch, rtw_joinbss_begins,
                rtw_joinbss_ends, rtw_os_xmit_schedule, rtw_alloc_stainfo, rtw_set_drv_stopped,
                vars, bufVars
  <2> QED
    BY <2>1 DEF HoldInv, CtxOK
<1> QED
  BY <1>1, HoldEntry, HoldGiveBack, HoldTasklet, HoldFlush DEF Next

-----------------------------------------------------------------------------
(* Types.                                                                  *)

Pcs == {"idle", "check", "stop", "xmit", "write", "free", "wake",
        "loop", "deq", "agg", "lock", "flush"}

(* The parts of FrameTypes that the frames and the phases make up.         *)
ListTypes ==
  /\ free_xmit_queue \in Seq(Frames) /\ os_qid \in [Frames -> Queues]
  /\ netif_stopped \in [Queues -> BOOLEAN] /\ older \subseteq Frames \X Frames
  /\ sta_pending \in [Queues -> Seq(Frames)]
  /\ pc \in [Ctx -> Pcs] /\ hold \in [Ctx -> Seq(Frames)]

FlagTypes ==
  /\ lock \in {"none", "tasklet", "flush"}
  /\ sched \in BOOLEAN /\ blocked \in BOOLEAN /\ linking \in BOOLEAN
  /\ resched \subseteq {"scan", "join"} /\ assoc \in BOOLEAN
  /\ flushed \subseteq Queues /\ stopped \in BOOLEAN

LEMMA TypesAreTwo == FrameTypes <=> ListTypes /\ FlagTypes
BY DEF FrameTypes, ListTypes, FlagTypes, Pcs

(* A context that frees or writes a frame has one.                         *)
LEMMA HasFrame ==
  ASSUME ListTypes, HoldInv, NEW c \in Ctx,
         pc[c] \in {"check", "stop", "xmit", "agg", "write", "free", "wake"}
  PROVE  /\ hold[c] \in Seq(Frames) /\ hold[c] # <<>> /\ Len(hold[c]) \in Nat \ {0}
         /\ Head(hold[c]) \in Frames /\ Head(hold[c]) = hold[c][1]
<1>1. hold[c] \in Seq(Frames) /\ CtxOK(c)
  BY DEF ListTypes, HoldInv
<1>2. Len(hold[c]) = 1 \/ Len(hold[c]) = 2
  BY <1>1 DEF CtxOK
<1>3. Len(hold[c]) # 0
  BY <1>2
<1>4. hold[c] # <<>>
  BY <1>1, <1>3, Nonempty
<1> QED
  BY <1>1, <1>4, HeadTail

LEMMA ListStep ==
  ASSUME ListTypes, HoldInv, [Next]_vars
  PROVE  ListTypes'
<1>0. /\ free_xmit_queue \in Seq(Frames) /\ os_qid \in [Frames -> Queues]
      /\ netif_stopped \in [Queues -> BOOLEAN] /\ older \subseteq Frames \X Frames
      /\ sta_pending \in [Queues -> Seq(Frames)]
      /\ pc \in [Ctx -> Pcs] /\ hold \in [Ctx -> Seq(Frames)]
  BY DEF ListTypes
<1>1. ASSUME NEW q \in Queues, rtw_alloc_xmitframe(q) PROVE ListTypes'
  <2> DEFINE f == Head(free_xmit_queue)
  <2>1. /\ free_xmit_queue # <<>> /\ os_qid' = [os_qid EXCEPT ![f] = q]
        /\ hold' = [hold EXCEPT ![q] = <<f>>] /\ older' = older \cup (InUse \X {f})
        /\ free_xmit_queue' = Tail(free_xmit_queue) /\ pc' = [pc EXCEPT ![q] = "check"]
        /\ UNCHANGED <<netif_stopped, sta_pending>>
    BY <1>1 DEF rtw_alloc_xmitframe
  <2>2. f \in Frames /\ Tail(free_xmit_queue) \in Seq(Frames)
    BY <1>0, <2>1, HeadTail
  <2> HIDE DEF f
  <2>3. <<f>> \in Seq(Frames)
    BY <2>2, Singleton
  <2>4. InUse \X {f} \subseteq Frames \X Frames
    BY <2>2 DEF InUse
  <2> QED
    BY <1>0, <2>1, <2>2, <2>3, <2>4, Contexts DEF ListTypes, Pcs
<1>2. ASSUME NEW q \in Queues,
             rtw_os_check_stop_queue(q) \/ netif_stop_subqueue(q) \/ rtw_xmit_fails(q)
      PROVE  ListTypes'
  <2>1. /\ \E s \in Pcs : pc' = [pc EXCEPT ![q] = s]
        /\ netif_stopped' = netif_stopped \/ netif_stopped' = [netif_stopped EXCEPT ![q] = TRUE]
        /\ UNCHANGED <<free_xmit_queue, os_qid, older, sta_pending, hold>>
    BY <1>2 DEF rtw_os_check_stop_queue, netif_stop_subqueue, rtw_xmit_fails, poolVars, Pcs
  <2>2. netif_stopped' \in [Queues -> BOOLEAN]
    BY <1>0, <2>1
  <2> QED
    BY <1>0, <2>1, <2>2, Contexts DEF ListTypes
<1>3. ASSUME NEW q \in Queues, pre_xmitframe(q) PROVE ListTypes'
  <2>1. q \in Ctx /\ Head(hold[q]) \in Frames /\ sta_pending[q] \in Seq(Frames)
    BY <1>0, <1>3, Contexts, HasFrame DEF pre_xmitframe
  <2>2. Append(sta_pending[q], Head(hold[q])) \in Seq(Frames)
    BY <2>1, Appended
  <2>3. /\ \E s \in Pcs : pc' = [pc EXCEPT ![q] = s]
        /\ hold' = hold \/ hold' = [hold EXCEPT ![q] = <<>>]
        /\ \/ sta_pending' = sta_pending
           \/ sta_pending' = [sta_pending EXCEPT ![q] = Append(sta_pending[q], Head(hold[q]))]
        /\ UNCHANGED <<free_xmit_queue, os_qid, older, netif_stopped>>
    BY <1>3 DEF pre_xmitframe, poolVars, Pcs
  <2>4. <<>> \in Seq(Frames)
    OBVIOUS
  <2>5. hold' \in [Ctx -> Seq(Frames)]
    BY <1>0, <2>1, <2>3, <2>4
  <2>6. sta_pending' \in [Queues -> Seq(Frames)]
    BY <1>0, <2>2, <2>3
  <2>7. pc' \in [Ctx -> Pcs]
    BY <1>0, <2>1, <2>3
  <2> QED
    BY <1>0, <2>3, <2>5, <2>6, <2>7 DEF ListTypes
<1>4. ASSUME NEW c \in Ctx, usb_write_port(c) PROVE ListTypes'
  BY <1>0, <1>4 DEF usb_write_port, poolVars, ListTypes, Pcs
<1>5. ASSUME NEW c \in Ctx, rtw_free_xmitframe(c) PROVE ListTypes'
  <2>1. Head(hold[c]) \in Frames
    BY <1>5, HasFrame DEF rtw_free_xmitframe
  <2>2. /\ free_xmit_queue' = Append(free_xmit_queue, Head(hold[c])) /\ older' \subseteq older
        /\ pc' = [pc EXCEPT ![c] = "wake"]
        /\ UNCHANGED <<os_qid, netif_stopped, sta_pending, hold>>
    BY <1>5 DEF rtw_free_xmitframe
  <2>3. free_xmit_queue' \in Seq(Frames)
    BY <1>0, <2>1, <2>2, Appended
  <2> QED
    BY <1>0, <2>2, <2>3 DEF ListTypes, Pcs
<1>6. ASSUME NEW c \in Ctx, rtw_os_check_wakup_queue(c) PROVE ListTypes'
  <2>1. hold[c] \in Seq(Frames) /\ hold[c] # <<>>
    BY <1>6, HasFrame DEF rtw_os_check_wakup_queue
  <2>2. Tail(hold[c]) \in Seq(Frames) /\ Head(hold[c]) \in Frames
    BY <2>1, HeadTail
  <2>3. /\ netif_stopped' = [netif_stopped EXCEPT ![os_qid[Head(hold[c])]] = FALSE]
        /\ hold' = [hold EXCEPT ![c] = Tail(hold[c])] /\ pc' = [pc EXCEPT ![c] = AfterWake(c)]
        /\ UNCHANGED <<free_xmit_queue, os_qid, older, sta_pending>>
    BY <1>6 DEF rtw_os_check_wakup_queue
  <2>4. AfterWake(c) \in Pcs
    BY DEF AfterWake, Pcs
  <2>5. netif_stopped' \in [Queues -> BOOLEAN]
    BY <1>0, <2>3
  <2> QED
    BY <1>0, <2>2, <2>3, <2>4, <2>5 DEF ListTypes
<1>7. CASE \/ xmit_tasklet_starts \/ rtl8188fu_xmit_tasklet \/ rtw_free_stainfo
           \/ rtw_free_stainfo_lock
  <2>1. /\ \E s \in Pcs, c \in Ctx : pc' = [pc EXCEPT ![c] = s]
        /\ UNCHANGED <<free_xmit_queue, os_qid, older, netif_stopped, sta_pending, hold>>
    BY <1>7, Contexts DEF xmit_tasklet_starts, rtl8188fu_xmit_tasklet, rtw_free_stainfo,
                          rtw_free_stainfo_lock, poolVars, Pcs
  <2> QED
    BY <1>0, <2>1 DEF ListTypes
<1>8. ASSUME NEW q \in Queues, NEW c \in Ctx, NEW s \in Pcs, sta_pending[q] # <<>>,
             \/ hold' = [hold EXCEPT ![c] = <<Head(sta_pending[q])>>]
             \/ hold' = [hold EXCEPT ![c] = <<Head(sta_pending[q])>> \o hold[c]],
             sta_pending' = [sta_pending EXCEPT ![q] = Tail(sta_pending[q])],
             pc' = [pc EXCEPT ![c] = s],
             UNCHANGED <<free_xmit_queue, os_qid, older, netif_stopped>>
      PROVE  ListTypes'
  <2>1. sta_pending[q] \in Seq(Frames) /\ hold[c] \in Seq(Frames)
    BY <1>0
  <2>2. Head(sta_pending[q]) \in Frames /\ Tail(sta_pending[q]) \in Seq(Frames)
    BY <1>8, <2>1, HeadTail
  <2>3. /\ <<Head(sta_pending[q])>> \in Seq(Frames)
        /\ <<Head(sta_pending[q])>> \o hold[c] \in Seq(Frames)
    BY <2>1, <2>2, Singleton, Consed
  <2>4. hold' \in [Ctx -> Seq(Frames)]
    BY <1>0, <1>8, <2>3
  <2>5. sta_pending' \in [Queues -> Seq(Frames)]
    BY <1>0, <1>8, <2>2
  <2>6. pc' \in [Ctx -> Pcs]
    BY <1>0, <1>8
  <2> QED
    BY <1>0, <1>8, <2>4, <2>5, <2>6 DEF ListTypes
<1>9. CASE rtw_dequeue_xframe
  <2>1. CASE rtw_txframes_pending
    <3>1. FirstQueue \in Queues /\ sta_pending[FirstQueue] # <<>>
      BY <2>1, FirstIsPending
    <3>2. PICK s \in {"free", "agg"} : pc' = [pc EXCEPT !["tasklet"] = s]
      BY <1>9, <2>1 DEF rtw_dequeue_xframe
    <3>3. /\ hold' = [hold EXCEPT !["tasklet"] = <<Head(sta_pending[FirstQueue])>>]
          /\ sta_pending' = [sta_pending EXCEPT ![FirstQueue] = Tail(sta_pending[FirstQueue])]
          /\ UNCHANGED <<free_xmit_queue, os_qid, older, netif_stopped>>
      BY <1>9, <2>1 DEF rtw_dequeue_xframe, poolVars
    <3>4. s \in Pcs /\ "tasklet" \in Ctx
      BY Contexts DEF Pcs
    <3> QED
      BY <1>8, <3>1, <3>2, <3>3, <3>4
  <2>2. CASE ~rtw_txframes_pending
    <3>1. /\ pc' = [pc EXCEPT !["tasklet"] = "idle"]
          /\ UNCHANGED <<free_xmit_queue, os_qid, older, netif_stopped, sta_pending, hold>>
      BY <1>9, <2>2 DEF rtw_dequeue_xframe, poolVars
    <3> QED
      BY <1>0, <3>1 DEF ListTypes, Pcs
  <2> QED
    BY <2>1, <2>2
<1>10. CASE aggregate
  <2>1. Head(hold["tasklet"]) \in Frames
    BY <1>10, Contexts, HasFrame DEF aggregate
  <2>2. PICK q \in Queues : q = os_qid[Head(hold["tasklet"])]
    BY <1>0, <2>1
  <2>3. UNCHANGED <<free_xmit_queue, os_qid, older, netif_stopped>>
    BY <1>10 DEF aggregate, poolVars
  <2>4. CASE /\ sta_pending[q] # <<>> /\ pc' = [pc EXCEPT !["tasklet"] = "free"]
             /\ hold' = [hold EXCEPT !["tasklet"] = <<Head(sta_pending[q])>> \o hold["tasklet"]]
             /\ sta_pending' = [sta_pending EXCEPT ![q] = Tail(sta_pending[q])]
    <3>1. "free" \in Pcs /\ "tasklet" \in Ctx
      BY Contexts DEF Pcs
    <3> QED
      BY <1>8, <2>3, <2>4, <3>1
  <2>5. CASE pc' = [pc EXCEPT !["tasklet"] = "write"] /\ UNCHANGED <<hold, sta_pending>>
    BY <1>0, <2>3, <2>5 DEF ListTypes, Pcs
  <2> QED
    BY <1>10, <2>2, <2>4, <2>5 DEF aggregate
<1>11. CASE rtw_free_xmitframe_queue
  <2>1. UNCHANGED <<free_xmit_queue, os_qid, older>>
    BY <1>11 DEF rtw_free_xmitframe_queue
  <2>2. ASSUME NEW q \in Queues, sta_pending[q] # <<>>,
               hold' = [hold EXCEPT !["flush"] = <<Head(sta_pending[q])>>],
               sta_pending' = [sta_pending EXCEPT ![q] = Tail(sta_pending[q])],
               pc' = [pc EXCEPT !["flush"] = "free"], UNCHANGED netif_stopped
        PROVE  ListTypes'
    <3>1. "free" \in Pcs /\ "flush" \in Ctx
      BY Contexts DEF Pcs
    <3> QED
      BY <1>8, <2>1, <2>2, <3>1
  <2>3. CASE /\ netif_stopped' = [q \in Queues |-> netif_stopped[q] /\ q \notin flushed]
             /\ pc' = [pc EXCEPT !["flush"] = "idle"] /\ UNCHANGED <<hold, sta_pending>>
    <3>1. netif_stopped' \in [Queues -> BOOLEAN]
      BY <1>0, <2>3
    <3> QED
      BY <1>0, <2>1, <2>3, <3>1 DEF ListTypes, Pcs
  <2> QED
    BY <1>11, <2>2, <2>3 DEF rtw_free_xmitframe_queue
<1>12. CASE \/ usb_write_port_complete \/ Phase \/ rtw_alloc_stainfo \/ rtw_set_drv_stopped
            \/ UNCHANGED vars
  <2>1. UNCHANGED <<free_xmit_queue, os_qid, older, netif_stopped, sta_pending, pc, hold>>
    BY <1>12 DEF usb_write_port_complete, Phase, rtw_leave_opch, rtw_back_opch, rtw_joinbss_begins,
                 rtw_joinbss_ends, rtw_os_xmit_schedule, rtw_alloc_stainfo, rtw_set_drv_stopped,
                 vars, poolVars
  <2> QED
    BY <2>1 DEF ListTypes
<1> QED
  BY <1>1, <1>2, <1>3, <1>4, <1>5, <1>6, <1>7, <1>9, <1>10, <1>11, <1>12
  DEF Next, Entry, GiveBack, Tasklet, Flush

LEMMA FlagStep ==
  ASSUME FlagTypes, [Next]_vars
  PROVE  FlagTypes'
<1>1. ASSUME NEW q \in Queues, rtw_alloc_xmitframe(q) \/ Entry(q) PROVE FlagTypes'
  BY <1>1 DEF Entry, rtw_alloc_xmitframe, rtw_os_check_stop_queue, netif_stop_subqueue,
              rtw_xmit_fails, pre_xmitframe, phaseVars, FlagTypes
<1>2. ASSUME NEW c \in Ctx, GiveBack(c) PROVE FlagTypes'
  BY <1>2 DEF GiveBack, usb_write_port, rtw_free_xmitframe, rtw_os_check_wakup_queue, phaseVars,
              FlagTypes
<1>3. CASE xmit_tasklet_starts \/ usb_write_port_complete
  <2>1. /\ sched' \in BOOLEAN
        /\ UNCHANGED <<lock, blocked, linking, resched, assoc, flushed, stopped>>
    BY <1>3 DEF xmit_tasklet_starts, usb_write_port_complete, CompleteSched, phaseVars
  <2> QED
    BY <2>1 DEF FlagTypes
<1>4. CASE Tasklet
  <2>1. /\ lock' \in {lock, "none", "tasklet"}
        /\ UNCHANGED <<sched, blocked, linking, resched, assoc, flushed, stopped>>
    BY <1>4 DEF Tasklet, rtl8188fu_xmit_tasklet, rtw_dequeue_xframe, aggregate, phaseVars
  <2> QED
    BY <2>1 DEF FlagTypes
<1>5. CASE rtw_leave_opch \/ rtw_back_opch
  <2>1. /\ blocked' \in BOOLEAN /\ resched' \in {resched, resched \cup {"scan"}}
        /\ UNCHANGED <<lock, sched, linking, assoc, flushed, stopped>>
    BY <1>5 DEF rtw_leave_opch, rtw_back_opch
  <2> QED
    BY <2>1 DEF FlagTypes
<1>6. CASE rtw_joinbss_begins \/ rtw_joinbss_ends
  <2>1. /\ linking' \in BOOLEAN /\ resched' \in {resched, resched \cup {"join"}}
        /\ UNCHANGED <<lock, sched, blocked, assoc, flushed, stopped>>
    BY <1>6 DEF rtw_joinbss_begins, rtw_joinbss_ends
  <2> QED
    BY <2>1 DEF FlagTypes
<1>7. CASE rtw_os_xmit_schedule
  <2>1. sched' \in BOOLEAN
    BY <1>7 DEF rtw_os_xmit_schedule
  <2>2. /\ resched' \subseteq resched
        /\ UNCHANGED <<lock, blocked, linking, assoc, flushed, stopped>>
    BY <1>7 DEF rtw_os_xmit_schedule
  <2> QED
    BY <2>1, <2>2 DEF FlagTypes
<1>8. CASE rtw_free_stainfo \/ rtw_alloc_stainfo \/ rtw_set_drv_stopped
  <2>1. /\ assoc' \in BOOLEAN \/ UNCHANGED assoc
        /\ stopped' \in BOOLEAN \/ UNCHANGED stopped
        /\ UNCHANGED <<lock, sched, blocked, linking, resched, flushed>>
    BY <1>8 DEF rtw_free_stainfo, rtw_alloc_stainfo, rtw_set_drv_stopped, phaseVars
  <2> QED
    BY <2>1 DEF FlagTypes
<1>9. CASE Flush
  <2>1. /\ lock' \in {lock, "none", "flush"}
        /\ flushed' = flushed \/ flushed' \subseteq Queues
        /\ UNCHANGED <<sched, blocked, linking, resched, assoc, stopped>>
    BY <1>9 DEF Flush, rtw_free_stainfo_lock, rtw_free_xmitframe_queue, phaseVars
  <2> QED
    BY <2>1 DEF FlagTypes
<1>10. CASE UNCHANGED vars
  BY <1>10 DEF vars, phaseVars, FlagTypes
<1> QED
  BY <1>1, <1>2, <1>3, <1>4, <1>5, <1>6, <1>7, <1>8, <1>9, <1>10 DEF Next, Phase

-----------------------------------------------------------------------------
(* Buffers.                                                                *)

(* A context without a buffer takes a free one.                            *)
LEMMA TakeBuf ==
  ASSUME BufInv, NEW c \in Ctx, c \notin hasBuf, free_xmitbuf_cnt # 0,
         free_xmitbuf_cnt' = free_xmitbuf_cnt - 1, inflight' = inflight,
         hasBuf' = hasBuf \cup {c}
  PROVE  BufInv'
<1>1. IsFiniteSet(hasBuf) /\ Cardinality(hasBuf) \in Nat
  BY CtxFinite, FS_Subset, FS_CardinalityType DEF BufInv
<1>2. Cardinality(hasBuf \cup {c}) = Cardinality(hasBuf) + 1
  BY <1>1, FS_AddElement
<1> QED
  BY <1>1, <1>2, TxAssumption DEF BufInv, BuffersConserved

(* A context gives its buffer up, to the free list or to an URB.           *)
LEMMA GiveBuf ==
  ASSUME BufInv, NEW c \in Ctx, c \in hasBuf, hasBuf' = hasBuf \ {c},
         \/ free_xmitbuf_cnt' = free_xmitbuf_cnt + 1 /\ inflight' = inflight
         \/ free_xmitbuf_cnt' = free_xmitbuf_cnt /\ inflight' = inflight + 1
  PROVE  BufInv'
<1>1. IsFiniteSet(hasBuf) /\ Cardinality(hasBuf) \in Nat
  BY CtxFinite, FS_Subset, FS_CardinalityType DEF BufInv
<1>2. Cardinality(hasBuf \ {c}) = Cardinality(hasBuf) - 1
  BY <1>1, FS_RemoveElement
<1> QED
  BY <1>1, <1>2, TxAssumption DEF BufInv, BuffersConserved

LEMMA BufStep ==
  ASSUME HoldInv, BufInv, [Next]_vars
  PROVE  BufInv'
<1>1. ASSUME NEW q \in Queues, rtw_alloc_xmitframe(q) \/ Entry(q) PROVE BufInv'
  <2>1. CASE /\ pc[q] = "xmit" /\ ~MustQueue(q) /\ free_xmitbuf_cnt' = free_xmitbuf_cnt - 1
             /\ hasBuf' = hasBuf \cup {q} /\ UNCHANGED inflight
    <3>1. q \in Ctx /\ q # "tasklet" /\ CtxOK(q)
      BY Contexts DEF HoldInv
    <3>2. q \notin hasBuf
      BY <2>1, <3>1 DEF CtxOK
    <3>3. free_xmitbuf_cnt # 0
      BY <2>1 DEF MustQueue
    <3> QED
      BY <2>1, <3>1, <3>2, <3>3, TakeBuf
  <2>2. CASE UNCHANGED bufVars
    BY <2>2 DEF bufVars, BufInv, BuffersConserved
  <2> QED
    BY <1>1, <2>1, <2>2 DEF Entry, rtw_alloc_xmitframe, rtw_os_check_stop_queue,
       netif_stop_subqueue, rtw_xmit_fails, pre_xmitframe, bufVars
<1>2. ASSUME NEW c \in Ctx, usb_write_port(c) PROVE BufInv'
  <2>1. c \in hasBuf
    BY <1>2 DEF usb_write_port, HoldInv, CtxOK
  <2>2. /\ hasBuf' = hasBuf \ {c}
        /\ \/ free_xmitbuf_cnt' = free_xmitbuf_cnt + 1 /\ inflight' = inflight
           \/ free_xmitbuf_cnt' = free_xmitbuf_cnt /\ inflight' = inflight + 1
    BY <1>2 DEF usb_write_port, BufBack
  <2> QED
    BY <2>1, <2>2, GiveBuf
<1>3. CASE rtl8188fu_xmit_tasklet
  <2>1. CASE /\ pc["tasklet"] = "loop" /\ free_xmitbuf_cnt > 0
             /\ free_xmitbuf_cnt' = free_xmitbuf_cnt - 1
             /\ hasBuf' = hasBuf \cup {"tasklet"} /\ UNCHANGED inflight
    <3>1. "tasklet" \in Ctx /\ CtxOK("tasklet")
      BY Contexts DEF HoldInv
    <3>2. "tasklet" \notin hasBuf
      BY <2>1, <3>1 DEF CtxOK
    <3>3. free_xmitbuf_cnt # 0
      BY <2>1 DEF BufInv
    <3> QED
      BY <2>1, <3>1, <3>2, <3>3, TakeBuf
  <2>2. CASE UNCHANGED bufVars
    BY <2>2 DEF bufVars, BufInv, BuffersConserved
  <2> QED
    BY <1>3, <2>1, <2>2 DEF rtl8188fu_xmit_tasklet, bufVars
<1>4. CASE rtw_dequeue_xframe
  <2>1. CASE /\ pc["tasklet"] = "deq" /\ free_xmitbuf_cnt' = free_xmitbuf_cnt + 1
             /\ hasBuf' = hasBuf \ {"tasklet"} /\ UNCHANGED inflight
    <3>1. "tasklet" \in Ctx /\ CtxOK("tasklet")
      BY Contexts DEF HoldInv
    <3>2. "tasklet" \in hasBuf
      BY <2>1, <3>1 DEF CtxOK
    <3> QED
      BY <2>1, <3>1, <3>2, GiveBuf
  <2>2. CASE UNCHANGED bufVars
    BY <2>2 DEF bufVars, BufInv, BuffersConserved
  <2> QED
    BY <1>4, <2>1, <2>2 DEF rtw_dequeue_xframe, bufVars, BufBack
<1>5. CASE usb_write_port_complete
  <2>1. /\ inflight > 0 /\ inflight' = inflight - 1 /\ free_xmitbuf_cnt' = free_xmitbuf_cnt + 1
        /\ hasBuf' = hasBuf
    BY <1>5 DEF usb_write_port_complete
  <2>2. Cardinality(hasBuf) \in Nat
    BY CtxFinite, FS_Subset, FS_CardinalityType DEF BufInv
  <2> QED
    BY <2>1, <2>2, TxAssumption DEF BufInv, BuffersConserved
<1>6. ASSUME UNCHANGED bufVars PROVE BufInv'
  BY <1>6 DEF bufVars, BufInv, BuffersConserved
<1>7. ASSUME NEW c \in Ctx, rtw_free_xmitframe(c) \/ rtw_os_check_wakup_queue(c) PROVE BufInv'
  BY <1>6, <1>7 DEF rtw_free_xmitframe, rtw_os_check_wakup_queue
<1>8. CASE \/ xmit_tasklet_starts \/ aggregate \/ Phase \/ rtw_free_stainfo \/ Flush
           \/ rtw_alloc_stainfo \/ rtw_set_drv_stopped \/ UNCHANGED vars
  BY <1>6, <1>8 DEF xmit_tasklet_starts, aggregate, Phase, rtw_leave_opch, rtw_back_opch,
     rtw_joinbss_begins, rtw_joinbss_ends, rtw_os_xmit_schedule, rtw_free_stainfo, Flush,
     rtw_free_stainfo_lock, rtw_free_xmitframe_queue, rtw_alloc_stainfo, rtw_set_drv_stopped, vars
<1> QED
  BY <1>1, <1>2, <1>3, <1>4, <1>5, <1>7, <1>8 DEF Next, GiveBack, Tasklet

LEMMA TypeStep == TypeInv /\ [Next]_vars => TypeInv'
<1> SUFFICES ASSUME TypeInv, [Next]_vars PROVE TypeInv'
  OBVIOUS
<1>1. FrameTypes /\ ListTypes /\ FlagTypes /\ HoldInv /\ BufInv
  BY TypesAreTwo DEF TypeInv
<1>2. ListTypes' /\ FlagTypes' /\ HoldInv' /\ BufInv'
  BY <1>1, ListStep, FlagStep, HoldStep, BufStep
<1>3. FrameTypes'
  BY <1>2 DEF FrameTypes, ListTypes, FlagTypes, Pcs
<1> QED
  BY <1>2, <1>3 DEF TypeInv

LEMMA TypeInvHolds == Spec => []TypeInv
BY TypesInit, TypeStep, PTL DEF Spec

(* Every variable keeps its type; that the counters of buffers stay within *)
(* the pool follows from the next theorem.                                 *)
THEOREM TxDataTypes == Spec => []TypeOK
<1>1. TypeInv => TypeOK
  <2> SUFFICES ASSUME TypeInv PROVE TypeOK
    OBVIOUS
  <2>1. Cardinality(hasBuf) \in Nat
    BY CtxFinite, FS_Subset, FS_CardinalityType DEF TypeInv, BufInv
  <2>2. free_xmitbuf_cnt \in 0..NBuf /\ inflight \in 0..NBuf /\ hasBuf \subseteq Ctx
    BY <2>1, TxAssumption DEF TypeInv, BufInv, BuffersConserved
  <2>3. FrameTypes
    BY DEF TypeInv
  <2> QED
    BY <2>2, <2>3 DEF FrameTypes, TypeOK
<1> QED
  BY <1>1, TypeInvHolds, PTL

(* No buffer is lost or given back twice, whatever fails between           *)
(* rtw_alloc_xmitbuf and usb_write_port_complete and however the contexts  *)
(* interleave: free_xmitbuf_cnt, the URBs and the contexts share NBuf.     *)
THEOREM NoBufferLost == Spec => []BuffersConserved
<1>1. TypeInv => BuffersConserved
  BY DEF TypeInv, BufInv
<1> QED
  BY <1>1, TypeInvHolds, PTL

-----------------------------------------------------------------------------
(* The order of frames, when the contexts exclude each other.              *)

(* Frame f waits in the queue q of the station; context c has frame f in   *)
(* its hands, the one it has just freed excepted.                          *)
Parked(q, f) == \E k \in 1..Len(sta_pending[q]) : sta_pending[q][k] = f
InHands(h, p, f) == \E k \in 1..Len(h) : h[k] = f /\ (k = 1 => p # "wake")
Mine(c, f) == InHands(hold[c], pc[c], f)

Alone == \A c, d \in Ctx : pc[c] # "idle" /\ pc[d] # "idle" => c = d

ListOnce ==
  \A i, j \in 1..Len(free_xmit_queue) : free_xmit_queue[i] = free_xmit_queue[j] => i = j

(* Every frame in use waits in the queue of its category or is in the      *)
(* hands of a context, and not both.                                       *)
PlaceInv ==
  /\ \A q \in Queues, f \in Frames : Parked(q, f) => f \in InUse /\ os_qid[f] = q
  /\ \A f \in InUse : (\E q \in Queues : Parked(q, f)) \/ (\E c \in Ctx : Mine(c, f))
  /\ \A c \in Ctx, f \in Frames : Mine(c, f) => f \in InUse /\ \A q \in Queues : ~Parked(q, f)

TwoDiffer == \A c \in Ctx : Len(hold[c]) = 2 => hold[c][1] # hold[c][2]

(* The queues of a station that has gone are empty.                        *)
Gone ==
  ~assoc /\ pc["flush"] = "idle" => \A q \in Queues, f \in Frames : ~Parked(q, f)

OlderOK ==
  \A f, g \in Frames : <<f, g>> \in older => f \in InUse /\ g \in InUse /\ f # g

(* Frames wait in the order in which they were allocated.                  *)
Sorted ==
  \A q \in Queues : \A i, j \in 1..Len(sta_pending[q]) : i < j =>
    /\ sta_pending[q][i] # sta_pending[q][j]
    /\ <<sta_pending[q][j], sta_pending[q][i]>> \notin older

(* The frame of a transmit entry is the youngest of all until it is queued *)
(* or written, and then none waits before it; none of those that wait is   *)
(* older than the frame to which the tasklet appends them.                 *)
OwnOK(c) ==
  /\ c \in Queues /\ pc[c] \in {"check", "stop", "xmit"} =>
       os_qid[hold[c][1]] = c /\ \A g \in Frames : <<hold[c][1], g>> \notin older
  /\ c \in Queues /\ pc[c] = "write" =>
       os_qid[hold[c][1]] = c /\ \A g \in Frames : ~Parked(c, g)
  /\ c = "tasklet" /\ (pc[c] \in {"agg", "write"} \/ Len(hold[c]) = 2) =>
       \A f, g \in Frames :
         f = hold[c][Len(hold[c])] /\ Parked(os_qid[f], g) => <<g, f>> \notin older

OwnInv == \A c \in Ctx : OwnOK(c)

OrderInv ==
  Alone /\ ListOnce /\ PlaceInv /\ TwoDiffer /\ Gone /\ OlderOK /\ Sorted /\ OwnInv

LEMMA OrderInit == Init => OrderInv
<1> SUFFICES ASSUME Init PROVE OrderInv
  OBVIOUS
<1>1. ListOnce /\ InUse = {}
  BY InitList DEF ListOnce
<1>2. /\ \A q \in Queues : sta_pending[q] = <<>> /\ Len(sta_pending[q]) = 0
      /\ \A c \in Ctx : hold[c] = <<>> /\ Len(hold[c]) = 0 /\ pc[c] = "idle"
      /\ older = {} /\ assoc
  BY DEF Init
<1>3. (\A q \in Queues, f \in Frames : ~Parked(q, f)) /\ (\A c \in Ctx, f \in Frames : ~Mine(c, f))
  BY <1>2 DEF Parked, Mine, InHands
<1>4. Alone /\ TwoDiffer /\ Gone /\ OlderOK /\ Sorted
  BY <1>2 DEF Alone, TwoDiffer, Gone, OlderOK, Sorted
<1>5. PlaceInv
  BY <1>1, <1>3 DEF PlaceInv
<1>6. OwnInv
  BY <1>2 DEF OwnInv, OwnOK
<1> QED
  BY <1>1, <1>4, <1>5, <1>6 DEF OrderInv

(* The list of free frames.                                                *)
LEMMA ListTail ==
  ASSUME ListTypes, ListOnce, free_xmit_queue # <<>>, free_xmit_queue' = Tail(free_xmit_queue)
  PROVE  /\ Head(free_xmit_queue) \in Frames \ InUse
         /\ InUse' = InUse \cup {Head(free_xmit_queue)} /\ ListOnce'
<1> DEFINE s == free_xmit_queue
<1>1. s \in Seq(Frames) /\ s # <<>>
  BY DEF ListTypes
<1>2. /\ Head(s) \in Frames /\ Head(s) = s[1] /\ Tail(s) \in Seq(Frames)
      /\ Len(s) \in Nat \ {0} /\ Len(Tail(s)) = Len(s) - 1
      /\ \A i \in 1..Len(Tail(s)) : Tail(s)[i] = s[i + 1] /\ i + 1 \in 1..Len(s)
      /\ DOMAIN s = 1..Len(s) /\ DOMAIN Tail(s) = 1..(Len(s) - 1)
  BY <1>1, HeadTail
<1>3. \A i, j \in 1..Len(s) : s[i] = s[j] => i = j
  BY DEF ListOnce
<1>4. Head(s) \notin InUse
  BY <1>2 DEF InUse
<1>5. \A f \in Frames : f \in InUse' <=> f \in InUse \/ f = Head(s)
  <2> SUFFICES ASSUME NEW f \in Frames PROVE f \in InUse' <=> f \in InUse \/ f = Head(s)
    OBVIOUS
  <2>1. f \in InUse <=> \A i \in 1..Len(s) : s[i] # f
    BY <1>2 DEF InUse
  <2>2. f \in InUse' <=> \A i \in 1..(Len(s) - 1) : Tail(s)[i] # f
    BY <1>2 DEF InUse
  <2>3. f \in InUse' <=> \A i \in 1..(Len(s) - 1) : s[i + 1] # f
    BY <1>2, <2>2
  <2>4. ASSUME \A i \in 1..(Len(s) - 1) : s[i + 1] # f, f # s[1], NEW i \in 1..Len(s)
        PROVE  s[i] # f
    <3>1. i = 1 \/ (i - 1 \in 1..(Len(s) - 1) /\ (i - 1) + 1 = i)
      BY <1>2
    <3> QED
      BY <2>4, <3>1
  <2>5. ASSUME \A i \in 1..Len(s) : s[i] # f, NEW i \in 1..(Len(s) - 1) PROVE s[i + 1] # f
    <3>1. i + 1 \in 1..Len(s)
      BY <1>2
    <3> QED
      BY <2>5, <3>1
  <2>6. ASSUME f = s[1], NEW i \in 1..(Len(s) - 1) PROVE s[i + 1] # f
    <3>1. i + 1 \in 1..Len(s) /\ 1 \in 1..Len(s) /\ i + 1 # 1
      BY <1>2
    <3> QED
      BY <1>3, <2>6, <3>1
  <2> QED
    BY <1>2, <2>1, <2>3, <2>4, <2>5, <2>6
<1>6. InUse \subseteq Frames /\ InUse' \subseteq Frames
  BY DEF InUse
<1>7. ListOnce'
  <2> SUFFICES ASSUME NEW i \in 1..Len(Tail(s)), NEW j \in 1..Len(Tail(s)), Tail(s)[i] = Tail(s)[j]
               PROVE  i = j
    BY DEF ListOnce
  <2>1. s[i + 1] = s[j + 1] /\ i + 1 \in 1..Len(s) /\ j + 1 \in 1..Len(s)
    BY <1>2
  <2>2. i + 1 = j + 1 /\ i \in Int /\ j \in Int
    BY <1>2, <1>3, <2>1
  <2> QED
    BY <2>2
<1> QED
  BY <1>2, <1>4, <1>5, <1>6, <1>7

LEMMA ListAppend ==
  ASSUME ListTypes, ListOnce, NEW f \in InUse, free_xmit_queue' = Append(free_xmit_queue, f)
  PROVE  InUse' = InUse \ {f} /\ ListOnce'
<1> DEFINE s == free_xmit_queue
<1> DEFINE r == Append(free_xmit_queue, f)
<1>1. f \in Frames /\ s \in Seq(Frames)
  BY DEF InUse, ListTypes
<1>2. /\ r \in Seq(Frames) /\ Len(s) \in Nat /\ Len(r) = Len(s) + 1
      /\ (\A i \in 1..Len(s) : r[i] = s[i]) /\ r[Len(s) + 1] = f
      /\ DOMAIN s = 1..Len(s) /\ DOMAIN r = 1..(Len(s) + 1)
  BY <1>1, Appended
<1>3. \A i \in 1..Len(s) : s[i] # f
  BY <1>2 DEF InUse
<1>4. \A i \in 1..(Len(s) + 1) : i \in 1..Len(s) \/ i = Len(s) + 1
  BY <1>2
<1>5. free_xmit_queue' = r
  OBVIOUS
<1>6. InUse' = Frames \ {r[i] : i \in 1..(Len(s) + 1)}
  BY <1>2, <1>5 DEF InUse
<1>7. InUse = Frames \ {s[i] : i \in 1..Len(s)}
  BY <1>2 DEF InUse
<1>8. \A i \in 1..Len(s) : i \in 1..(Len(s) + 1)
  BY <1>2
<1>9. Len(s) + 1 \in 1..(Len(s) + 1)
  BY <1>2
<1>10. ListOnce'
  <2>1. \A i, j \in 1..Len(s) : s[i] = s[j] => i = j
    BY DEF ListOnce
  <2>2. \A i, j \in 1..(Len(s) + 1) : r[i] = r[j] => i = j
    BY <1>2, <1>3, <1>4, <2>1
  <2> QED
    BY <1>2, <1>5, <2>2 DEF ListOnce
<1> HIDE DEF r, s
<1> QED
  BY <1>2, <1>3, <1>4, <1>6, <1>7, <1>8, <1>9, <1>10

(* The queues of the station.                                              *)
LEMMA ParkHead ==
  ASSUME ListTypes, Sorted, NEW q \in Queues, sta_pending[q] # <<>>,
         sta_pending' = [sta_pending EXCEPT ![q] = Tail(sta_pending[q])]
  PROVE  /\ Head(sta_pending[q]) \in Frames /\ Parked(q, Head(sta_pending[q]))
         /\ \A r \in Queues, f \in Frames :
              Parked(r, f)' <=> Parked(r, f) /\ (r # q \/ f # Head(sta_pending[q]))
         /\ \A f \in Frames : Parked(q, f)' => <<f, Head(sta_pending[q])>> \notin older
         /\ older' \subseteq older => Sorted'
<1> DEFINE s == sta_pending[q]
<1>1. s \in Seq(Frames) /\ s # <<>> /\ DOMAIN sta_pending = Queues
  BY DEF ListTypes
<1>2. /\ Head(s) \in Frames /\ Head(s) = s[1] /\ Tail(s) \in Seq(Frames)
      /\ Len(s) \in Nat \ {0} /\ Len(Tail(s)) = Len(s) - 1
      /\ \A i \in 1..Len(Tail(s)) : Tail(s)[i] = s[i + 1] /\ i + 1 \in 1..Len(s)
  BY <1>1, HeadTail
<1>3. sta_pending'[q] = Tail(s) /\ \A r \in Queues : r # q => sta_pending'[r] = sta_pending[r]
  BY <1>1
<1>4. \A i, j \in 1..Len(s) : i < j => s[i] # s[j] /\ <<s[j], s[i]>> \notin older
  BY DEF Sorted
<1>5. 1 \in 1..Len(s) /\ Parked(q, Head(s))
  BY <1>2 DEF Parked
<1>6. \A k \in 1..Len(Tail(s)) : Tail(s)[k] # s[1] /\ <<Tail(s)[k], s[1]>> \notin older
  <2> SUFFICES ASSUME NEW k \in 1..Len(Tail(s))
               PROVE  Tail(s)[k] # s[1] /\ <<Tail(s)[k], s[1]>> \notin older
    OBVIOUS
  <2>1. Tail(s)[k] = s[k + 1] /\ k + 1 \in 1..Len(s) /\ 1 < k + 1
    BY <1>2
  <2> QED
    BY <1>4, <1>5, <2>1
<1>7. \A f \in Frames : (\E k \in 1..Len(Tail(s)) : Tail(s)[k] = f) <=> Parked(q, f) /\ f # Head(s)
  <2> SUFFICES ASSUME NEW f \in Frames
               PROVE  (\E k \in 1..Len(Tail(s)) : Tail(s)[k] = f) <=> Parked(q, f) /\ f # Head(s)
    OBVIOUS
  <2>1. ASSUME NEW k \in 1..Len(Tail(s)), Tail(s)[k] = f PROVE Parked(q, f) /\ f # Head(s)
    BY <1>2, <1>6, <2>1 DEF Parked
  <2>2. ASSUME NEW k \in 1..Len(s), s[k] = f, f # s[1] PROVE \E j \in 1..Len(Tail(s)) : Tail(s)[j] = f
    <3>1. k # 1
      BY <2>2
    <3>2. k - 1 \in 1..Len(Tail(s)) /\ (k - 1) + 1 = k
      BY <1>2, <3>1
    <3>3. Tail(s)[k - 1] = s[k]
      BY <1>2, <3>2
    <3> QED
      BY <2>2, <3>2, <3>3
  <2> QED
    BY <1>2, <2>1, <2>2 DEF Parked
<1>8. \A f \in Frames : Parked(q, f)' <=> \E k \in 1..Len(Tail(s)) : Tail(s)[k] = f
  BY <1>3 DEF Parked
<1>9. \A r \in Queues, f \in Frames : r # q => (Parked(r, f)' <=> Parked(r, f))
  BY <1>3 DEF Parked
<1>10. \A i, j \in 1..Len(Tail(s)) : i < j =>
         Tail(s)[i] # Tail(s)[j] /\ <<Tail(s)[j], Tail(s)[i]>> \notin older
  <2> SUFFICES ASSUME NEW i \in 1..Len(Tail(s)), NEW j \in 1..Len(Tail(s)), i < j
               PROVE  Tail(s)[i] # Tail(s)[j] /\ <<Tail(s)[j], Tail(s)[i]>> \notin older
    OBVIOUS
  <2>1. /\ Tail(s)[i] = s[i + 1] /\ i + 1 \in 1..Len(s)
        /\ Tail(s)[j] = s[j + 1] /\ j + 1 \in 1..Len(s)
    BY <1>2
  <2>2. i + 1 < j + 1
    OBVIOUS
  <2> QED
    BY <1>4, <2>1, <2>2
<1>11. ASSUME older' \subseteq older PROVE Sorted'
  <2> SUFFICES ASSUME NEW r \in Queues, NEW i \in 1..Len(sta_pending'[r]),
                      NEW j \in 1..Len(sta_pending'[r]), i < j
               PROVE  /\ sta_pending'[r][i] # sta_pending'[r][j]
                      /\ <<sta_pending'[r][j], sta_pending'[r][i]>> \notin older'
    BY DEF Sorted
  <2>1. CASE r = q
    <3>1. sta_pending'[r] = Tail(s)
      BY <1>3, <2>1
    <3>2. i \in 1..Len(Tail(s)) /\ j \in 1..Len(Tail(s))
      BY <3>1
    <3>3. Tail(s)[i] # Tail(s)[j] /\ <<Tail(s)[j], Tail(s)[i]>> \notin older
      BY <1>10, <3>2
    <3> HIDE DEF s
    <3> QED
      BY <1>11, <3>1, <3>3
  <2>2. CASE r # q
    BY <1>3, <1>11, <2>2 DEF Sorted
  <2> QED
    BY <2>1, <2>2
<1> HIDE DEF s
<1>12. \A r \in Queues, f \in Frames : Parked(r, f)' <=> Parked(r, f) /\ (r # q \/ f # Head(s))
  BY <1>7, <1>8, <1>9
<1>13. \A f \in Frames : Parked(q, f)' => <<f, Head(s)>> \notin older
  BY <1>2, <1>6, <1>8
<1> QED
  BY <1>2, <1>5, <1>11, <1>12, <1>13 DEF s

LEMMA ParkAppend ==
  ASSUME ListTypes, Sorted, NEW q \in Queues, NEW f \in Frames, older' = older,
         \A g \in Frames : Parked(q, g) => g # f /\ <<f, g>> \notin older,
         sta_pending' = [sta_pending EXCEPT ![q] = Append(sta_pending[q], f)]
  PROVE  /\ \A r \in Queues, g \in Frames : Parked(r, g)' <=> Parked(r, g) \/ (r = q /\ g = f)
         /\ Sorted'
<1> DEFINE s == sta_pending[q]
<1> DEFINE a == Append(sta_pending[q], f)
<1>1. s \in Seq(Frames) /\ DOMAIN sta_pending = Queues
  BY DEF ListTypes
<1>2. /\ a \in Seq(Frames) /\ Len(s) \in Nat /\ Len(a) = Len(s) + 1
      /\ (\A i \in 1..Len(s) : a[i] = s[i]) /\ a[Len(s) + 1] = f
  BY <1>1, Appended
<1>3. sta_pending'[q] = a /\ \A r \in Queues : r # q => sta_pending'[r] = sta_pending[r]
  BY <1>1
<1>4. \A i \in 1..Len(a) : i \in 1..Len(s) \/ i = Len(s) + 1
  BY <1>2
<1>5. \A i \in 1..Len(s) : i \in 1..Len(a) /\ i < Len(s) + 1 /\ s[i] \in Frames
  BY <1>1, <1>2
<1>6. Len(s) + 1 \in 1..Len(a)
  BY <1>2
<1>7. \A i \in 1..Len(s) : s[i] # f /\ <<f, s[i]>> \notin older
  BY <1>5 DEF Parked
<1>8. \A i, j \in 1..Len(s) : i < j => s[i] # s[j] /\ <<s[j], s[i]>> \notin older
  BY DEF Sorted
<1>9. \A g \in Frames : Parked(q, g)' <=> \E k \in 1..Len(a) : a[k] = g
  BY <1>3 DEF Parked
<1>10. \A g \in Frames : Parked(q, g) <=> \E k \in 1..Len(s) : s[k] = g
  BY DEF Parked
<1>11. \A r \in Queues, g \in Frames : r # q => (Parked(r, g)' <=> Parked(r, g))
  BY <1>3 DEF Parked
<1>12. ASSUME NEW i \in 1..Len(a), NEW j \in 1..Len(a), i < j
       PROVE  a[i] # a[j] /\ <<a[j], a[i]>> \notin older
  <2>1. i \in 1..Len(s)
    BY <1>2, <1>12
  <2>2. CASE j \in 1..Len(s)
    <3>1. a[i] = s[i] /\ a[j] = s[j]
      BY <1>2, <2>1, <2>2
    <3> QED
      BY <1>8, <1>12, <2>1, <2>2, <3>1
  <2>3. CASE j = Len(s) + 1
    <3>1. a[i] = s[i] /\ a[j] = f
      BY <1>2, <2>1, <2>3
    <3> QED
      BY <1>7, <2>1, <3>1
  <2> QED
    BY <1>4, <2>2, <2>3
<1> HIDE DEF s, a
<1>13. \A r \in Queues, g \in Frames : Parked(r, g)' <=> Parked(r, g) \/ (r = q /\ g = f)
  <2>1. \A g \in Frames : Parked(q, g)' <=> Parked(q, g) \/ g = f
    BY <1>2, <1>4, <1>5, <1>6, <1>9, <1>10
  <2> QED
    BY <1>11, <2>1
<1>14. Sorted'
  <2> SUFFICES ASSUME NEW r \in Queues, NEW i \in 1..Len(sta_pending'[r]),
                      NEW j \in 1..Len(sta_pending'[r]), i < j
               PROVE  /\ sta_pending'[r][i] # sta_pending'[r][j]
                      /\ <<sta_pending'[r][j], sta_pending'[r][i]>> \notin older'
    BY DEF Sorted
  <2>1. CASE r = q
    <3>1. sta_pending'[r] = a
      BY <1>3, <2>1
    <3>2. i \in 1..Len(a) /\ j \in 1..Len(a)
      BY <3>1
    <3>3. a[i] # a[j] /\ <<a[j], a[i]>> \notin older'
      BY <1>12, <3>2
    <3> QED
      BY <3>1, <3>3, Zenon
  <2>2. CASE r # q
    BY <1>3, <2>2 DEF Sorted
  <2> QED
    BY <2>1, <2>2
<1> QED
  BY <1>13, <1>14

(* The hands of a context.                                                 *)
LEMMA HandsEmpty ==
  ASSUME NEW h, Len(h) = 0, NEW p
  PROVE  \A g \in Frames : ~InHands(h, p, g)
BY DEF InHands

LEMMA HandsOne ==
  ASSUME NEW h \in Seq(Frames), Len(h) = 1, NEW p, p # "wake"
  PROVE  \A g \in Frames : InHands(h, p, g) <=> g = h[1]
<1>1. \A k : k \in 1..Len(h) <=> k = 1
  OBVIOUS
<1> QED
  BY <1>1 DEF InHands

LEMMA HandsSame ==
  ASSUME NEW h, NEW p, NEW r, p # "wake", r # "wake"
  PROVE  \A g \in Frames : InHands(h, p, g) <=> InHands(h, r, g)
BY DEF InHands

LEMMA HandsFree ==
  ASSUME NEW h \in Seq(Frames), NEW p, p # "wake", Len(h) = 1 \/ Len(h) = 2,
         Len(h) = 2 => h[1] # h[2]
  PROVE  /\ InHands(h, p, h[1])
         /\ \A g \in Frames : InHands(h, "wake", g) <=> InHands(h, p, g) /\ g # h[1]
<1>1. 1 \in 1..Len(h) /\ \A k \in 1..Len(h) : k = 1 \/ (k = 2 /\ Len(h) = 2)
  <2>1. \A n \in {1, 2} : 1 \in 1..n /\ \A k \in 1..n : k = 1 \/ (k = 2 /\ n = 2)
    OBVIOUS
  <2>2. Len(h) \in {1, 2}
    OBVIOUS
  <2> QED
    BY <2>1, <2>2
<1> QED
  BY <1>1 DEF InHands

LEMMA HandsTail ==
  ASSUME NEW h \in Seq(Frames), NEW p, p # "wake", h # <<>>
  PROVE  \A g \in Frames : InHands(Tail(h), p, g) <=> InHands(h, "wake", g)
<1>1. /\ Len(h) \in Nat \ {0} /\ Len(Tail(h)) = Len(h) - 1
      /\ \A i \in 1..Len(Tail(h)) : Tail(h)[i] = h[i + 1] /\ i + 1 \in 1..Len(h)
  BY HeadTail
<1> SUFFICES ASSUME NEW g \in Frames PROVE InHands(Tail(h), p, g) <=> InHands(h, "wake", g)
  OBVIOUS
<1>2. ASSUME NEW k \in 1..Len(Tail(h)), Tail(h)[k] = g PROVE InHands(h, "wake", g)
  <2>1. k + 1 \in 1..Len(h) /\ k + 1 # 1 /\ h[k + 1] = g
    BY <1>1, <1>2
  <2> QED
    BY <2>1 DEF InHands
<1>3. ASSUME NEW k \in 1..Len(h), h[k] = g, k # 1 PROVE InHands(Tail(h), p, g)
  <2>1. k - 1 \in 1..Len(Tail(h)) /\ (k - 1) + 1 = k
    BY <1>1, <1>3
  <2>2. Tail(h)[k - 1] = g
    BY <1>1, <1>3, <2>1
  <2> QED
    BY <2>1, <2>2 DEF InHands
<1> QED
  BY <1>2, <1>3 DEF InHands

LEMMA HandsMore ==
  ASSUME NEW h \in Seq(Frames), NEW f \in Frames, NEW p, p # "wake", NEW r, r # "wake"
  PROVE  \A g \in Frames : InHands(<<f>> \o h, r, g) <=> g = f \/ InHands(h, p, g)
<1> DEFINE a == <<f>> \o h
<1>1. /\ a \in Seq(Frames) /\ Len(a) = Len(h) + 1 /\ a[1] = f /\ Len(h) \in Nat
      /\ \A i \in 1..Len(h) : a[i + 1] = h[i]
  BY Consed
<1> HIDE DEF a
<1> SUFFICES ASSUME NEW g \in Frames PROVE InHands(a, r, g) <=> g = f \/ InHands(h, p, g)
  BY DEF a
<1>2. 1 \in 1..Len(a)
  BY <1>1
<1>3. ASSUME NEW k \in 1..Len(a), a[k] = g, k # 1 PROVE InHands(h, p, g)
  <2>1. k - 1 \in 1..Len(h) /\ (k - 1) + 1 = k
    BY <1>1, <1>3
  <2>2. h[k - 1] = g
    BY <1>1, <1>3, <2>1
  <2> QED
    BY <2>1, <2>2 DEF InHands
<1>4. ASSUME NEW k \in 1..Len(h), h[k] = g PROVE InHands(a, r, g)
  <2>1. k + 1 \in 1..Len(a) /\ a[k + 1] = g
    BY <1>1, <1>4
  <2> QED
    BY <2>1 DEF InHands
<1> QED
  BY <1>1, <1>2, <1>3, <1>4 DEF InHands

(* Context c steps: it was running, or all were idle and it starts.        *)
Actor(c) ==
  /\ pc[c] # "idle" \/ \A d \in Ctx : pc[d] = "idle"
  /\ \A d \in Ctx \ {c} : pc'[d] = pc[d] /\ hold'[d] = hold[d]

LEMMA ActorOwn ==
  ASSUME TypeInv, Alone, OwnInv, HoldInv', NEW c \in Ctx, Actor(c), OwnOK(c)'
  PROVE  /\ Alone' /\ OwnInv'
         /\ \A d \in Ctx \ {c}, f \in Frames : ~Mine(d, f) /\ ~Mine(d, f)'
<1>1. \A d \in Ctx \ {c} : pc[d] = "idle" /\ pc'[d] = "idle"
  BY DEF Alone, Actor
<1>2. \A d \in Ctx \ {c} : Len(hold[d]) = 0 /\ Len(hold'[d]) = 0
  <2>1. \A d \in Ctx : pc[d] = "idle" => Len(hold[d]) = 0
    BY DEF TypeInv, HoldInv, CtxOK
  <2> QED
    BY <1>1, <2>1 DEF Actor
<1>3. Alone'
  BY <1>1 DEF Alone
<1>4. ASSUME NEW d \in Ctx \ {c} PROVE OwnOK(d)'
  <2>1. pc'[d] = "idle" /\ Len(hold'[d]) = 0
    BY <1>1, <1>2
  <2>2. Len(hold'[d]) # 2
    BY <2>1
  <2> QED
    BY <2>1, <2>2 DEF OwnOK
<1>5. \A d \in Ctx \ {c}, f \in Frames : ~Mine(d, f) /\ ~Mine(d, f)'
  BY <1>2, HandsEmpty DEF Mine
<1> QED
  BY <1>3, <1>4, <1>5 DEF OwnInv

LEMMA TwoStep ==
  ASSUME TwoDiffer, NEW c \in Ctx, Actor(c), Len(hold'[c]) = 2 => hold'[c][1] # hold'[c][2]
  PROVE  TwoDiffer'
BY DEF TwoDiffer, Actor

(* A context goes on with the frames it has.                               *)
LEMMA OrderGoesOn ==
  ASSUME TypeInv, HoldInv', OrderInv, Gone', NEW c \in Ctx, Actor(c), OwnOK(c)',
         pc[c] # "wake", pc'[c] # "wake", hold'[c] = hold[c],
         UNCHANGED <<free_xmit_queue, os_qid, older, sta_pending>>
  PROVE  OrderInv'
<1>1. Alone /\ ListOnce /\ PlaceInv /\ TwoDiffer /\ OlderOK /\ Sorted /\ OwnInv
  BY DEF OrderInv
<1>2. Alone' /\ OwnInv' /\ \A d \in Ctx \ {c}, f \in Frames : ~Mine(d, f) /\ ~Mine(d, f)'
  BY <1>1, ActorOwn
<1>3. \A f \in Frames : Mine(c, f)' <=> Mine(c, f)
  BY HandsSame DEF Mine
<1>4. \A d \in Ctx, f \in Frames : Mine(d, f)' <=> Mine(d, f)
  BY <1>2, <1>3
<1>5. /\ \A q \in Queues, f \in Frames : Parked(q, f)' <=> Parked(q, f)
      /\ InUse' = InUse /\ ListOnce' /\ Sorted' /\ OlderOK'
  BY <1>1 DEF Parked, InUse, ListOnce, Sorted, OlderOK
<1>6. PlaceInv'
  <2>1. InUse \subseteq Frames
    BY DEF InUse
  <2> QED
    BY <1>1, <1>4, <1>5, <2>1 DEF PlaceInv
<1>7. TwoDiffer'
  BY <1>1, TwoStep DEF TwoDiffer
<1> QED
  BY <1>2, <1>5, <1>6, <1>7 DEF OrderInv

LEMMA OrderAlloc ==
  ASSUME TypeInv, HoldInv', OrderInv, Gone', NEW q \in Queues, Actor(q),
         rtw_alloc_xmitframe(q)
  PROVE  OrderInv'
<1>0. PICK f : f = Head(free_xmit_queue)
  OBVIOUS
<1>1. Alone /\ ListOnce /\ PlaceInv /\ TwoDiffer /\ OlderOK /\ Sorted /\ OwnInv
  BY DEF OrderInv
<1>2. /\ pc[q] = "idle" /\ free_xmit_queue # <<>> /\ os_qid' = [os_qid EXCEPT ![f] = q]
      /\ hold' = [hold EXCEPT ![q] = <<f>>] /\ older' = older \cup (InUse \X {f})
      /\ free_xmit_queue' = Tail(free_xmit_queue) /\ pc' = [pc EXCEPT ![q] = "check"]
      /\ UNCHANGED sta_pending
  BY <1>0 DEF rtw_alloc_xmitframe, MayStart
<1>3. q \in Ctx /\ q # "tasklet" /\ ListTypes /\ HoldInv /\ hold \in [Ctx -> Seq(Frames)]
      /\ pc \in [Ctx -> Pcs] /\ os_qid \in [Frames -> Queues]
  BY Contexts, TypesAreTwo DEF TypeInv, ListTypes
<1>4. f \in Frames \ InUse /\ InUse' = InUse \cup {f} /\ ListOnce'
  BY <1>0, <1>1, <1>2, <1>3, ListTail
<1>5. hold'[q] = <<f>> /\ pc'[q] = "check" /\ os_qid'[f] = q /\ <<f>>[1] = f /\ Len(<<f>>) = 1
      /\ <<f>> \in Seq(Frames) /\ \A g \in Frames : g # f => os_qid'[g] = os_qid[g]
  BY <1>2, <1>3, <1>4
<1>6. \A g \in Frames : <<f, g>> \notin older'
  BY <1>1, <1>2, <1>4 DEF OlderOK
<1>7. OwnOK(q)'
  BY <1>3, <1>5, <1>6 DEF OwnOK
<1>8. Alone' /\ OwnInv' /\ \A d \in Ctx \ {q}, g \in Frames : ~Mine(d, g) /\ ~Mine(d, g)'
  BY <1>1, <1>3, <1>7, ActorOwn
<1>9. \A g \in Frames : ~Mine(q, g) /\ (Mine(q, g)' <=> g = f)
  <2>1. Len(hold[q]) = 0
    BY <1>2, <1>3 DEF HoldInv, CtxOK
  <2>2. \A g \in Frames : ~Mine(q, g)
    BY <2>1, HandsEmpty DEF Mine
  <2>3. "check" # "wake"
    OBVIOUS
  <2>4. \A g \in Frames : InHands(<<f>>, "check", g) <=> g = f
    BY <1>5, <2>3, HandsOne
  <2>5. \A g \in Frames : Mine(q, g)' <=> g = f
    BY <1>5, <2>4 DEF Mine
  <2> QED
    BY <2>2, <2>5
<1>10. \A r \in Queues, g \in Frames : Parked(r, g)' <=> Parked(r, g)
  BY <1>2 DEF Parked
<1>11. InUse \subseteq Frames
  BY DEF InUse
<1>12. PlaceInv'
  <2>1. \A r \in Queues, g \in Frames : Parked(r, g)' => g \in InUse' /\ os_qid'[g] = r
    BY <1>1, <1>4, <1>5, <1>10 DEF PlaceInv
  <2>2. ASSUME NEW g \in InUse'
        PROVE  (\E r \in Queues : Parked(r, g)') \/ (\E c \in Ctx : Mine(c, g)')
    <3>1. CASE g = f
      BY <1>3, <1>4, <1>9, <3>1
    <3>2. CASE g \in InUse
      <4>1. \A c \in Ctx : ~Mine(c, g)
        BY <1>8, <1>9, <1>11, <3>2
      <4> QED
        BY <1>1, <1>10, <1>11, <3>2, <4>1 DEF PlaceInv
    <3> QED
      BY <1>4, <3>1, <3>2
  <2>3. \A c \in Ctx, g \in Frames : Mine(c, g)' => g = f
    BY <1>8, <1>9
  <2>4. \A r \in Queues : ~Parked(r, f)'
    BY <1>1, <1>4, <1>10 DEF PlaceInv
  <2> QED
    BY <1>4, <2>1, <2>2, <2>3, <2>4 DEF PlaceInv
<1>13. TwoDiffer'
  BY <1>1, <1>3, <1>5, TwoStep
<1>14. OlderOK'
  BY <1>1, <1>2, <1>4, <1>11 DEF OlderOK
<1>15. Sorted'
  <2> SUFFICES ASSUME NEW r \in Queues, NEW i \in 1..Len(sta_pending[r]),
                      NEW j \in 1..Len(sta_pending[r]), i < j
               PROVE  /\ sta_pending[r][i] # sta_pending[r][j]
                      /\ <<sta_pending[r][j], sta_pending[r][i]>> \notin older'
    BY <1>2 DEF Sorted
  <2>1. sta_pending[r] \in Seq(Frames)
    BY <1>3 DEF ListTypes
  <2>2. sta_pending[r][i] \in Frames /\ Parked(r, sta_pending[r][i])
    BY <2>1 DEF Parked
  <2>3. sta_pending[r][i] # f
    BY <1>1, <1>4, <2>2 DEF PlaceInv
  <2> QED
    BY <1>1, <1>2, <2>3 DEF Sorted
<1> QED
  BY <1>4, <1>8, <1>12, <1>13, <1>14, <1>15 DEF OrderInv

(* pre_xmitframe leaves the frame in the queue of the station.             *)
LEMMA OrderPark ==
  ASSUME TypeInv, HoldInv', OrderInv, Gone', NEW q \in Queues, Actor(q), pc[q] = "xmit",
         sta_pending' = [sta_pending EXCEPT ![q] = Append(sta_pending[q], Head(hold[q]))],
         hold' = [hold EXCEPT ![q] = <<>>], pc' = [pc EXCEPT ![q] = "idle"],
         UNCHANGED <<free_xmit_queue, os_qid, older>>
  PROVE  OrderInv'
<1>0. PICK f : f = hold[q][1]
  OBVIOUS
<1>1. Alone /\ ListOnce /\ PlaceInv /\ TwoDiffer /\ OlderOK /\ Sorted /\ OwnInv
  BY DEF OrderInv
<1>2. q \in Ctx /\ q # "tasklet" /\ ListTypes /\ HoldInv /\ hold \in [Ctx -> Seq(Frames)]
      /\ pc \in [Ctx -> Pcs]
  BY Contexts, TypesAreTwo DEF TypeInv, ListTypes
<1>3. Head(hold[q]) = f /\ f \in Frames /\ hold[q] \in Seq(Frames)
  BY <1>0, <1>2, HasFrame
<1>4. Len(hold[q]) = 1
  BY <1>2 DEF HoldInv, CtxOK
<1>5. "xmit" # "wake"
  OBVIOUS
<1>6. \A g \in Frames : Mine(q, g) <=> g = f
  BY <1>0, <1>3, <1>4, <1>5, HandsOne DEF Mine
<1>7. os_qid[f] = q /\ \A g \in Frames : <<f, g>> \notin older
  BY <1>0, <1>1, <1>2 DEF OwnInv, OwnOK
<1>8. \A g \in Frames : Parked(q, g) => g # f
  BY <1>1, <1>2, <1>3, <1>6 DEF PlaceInv
<1>9. hold'[q] = <<>> /\ pc'[q] = "idle" /\ Len(<<>>) = 0
  BY <1>2
<1>10. /\ \A r \in Queues, g \in Frames : Parked(r, g)' <=> Parked(r, g) \/ (r = q /\ g = f)
       /\ Sorted'
  <2>1. sta_pending' = [sta_pending EXCEPT ![q] = Append(sta_pending[q], f)] /\ older' = older
    BY <1>3
  <2>2. \A g \in Frames : Parked(q, g) => g # f /\ <<f, g>> \notin older
    BY <1>7, <1>8
  <2> QED
    BY <1>1, <1>2, <1>3, <2>1, <2>2, ParkAppend, Zenon
<1>11. OwnOK(q)'
  BY <1>2, <1>9 DEF OwnOK
<1>12. Alone' /\ OwnInv' /\ \A d \in Ctx \ {q}, g \in Frames : ~Mine(d, g) /\ ~Mine(d, g)'
  BY <1>1, <1>2, <1>11, ActorOwn
<1>13. \A g \in Frames : ~Mine(q, g)'
  BY <1>9, HandsEmpty DEF Mine
<1>14. \A d \in Ctx, g \in Frames : ~Mine(d, g)' /\ (Mine(d, g) => g = f)
  BY <1>6, <1>12, <1>13
<1>15. InUse' = InUse /\ InUse \subseteq Frames /\ ListOnce' /\ OlderOK'
  BY <1>1 DEF InUse, ListOnce, OlderOK
<1>16. f \in InUse
  BY <1>1, <1>2, <1>3, <1>6 DEF PlaceInv
<1>17. PlaceInv'
  BY <1>1, <1>3, <1>7, <1>10, <1>14, <1>15, <1>16 DEF PlaceInv
<1>18. TwoDiffer'
  BY <1>1, <1>2, <1>9, TwoStep
<1> QED
  BY <1>10, <1>12, <1>15, <1>17, <1>18 DEF OrderInv

(* The tasklet or the process that frees the station takes the first frame *)
(* of a queue.                                                             *)
LEMMA OrderTake ==
  ASSUME TypeInv, HoldInv', OrderInv, Gone', NEW c \in Ctx, NEW q \in Queues, Actor(c),
         pc[c] # "wake", pc'[c] # "wake", sta_pending[q] # <<>>,
         hold'[c] = <<Head(sta_pending[q])>> \o hold[c],
         sta_pending' = [sta_pending EXCEPT ![q] = Tail(sta_pending[q])],
         UNCHANGED <<free_xmit_queue, os_qid, older>>, OwnOK(c)'
  PROVE  OrderInv'
<1>0. PICK f : f = Head(sta_pending[q])
  OBVIOUS
<1>1. Alone /\ ListOnce /\ PlaceInv /\ TwoDiffer /\ OlderOK /\ Sorted /\ OwnInv
  BY DEF OrderInv
<1>2. ListTypes /\ HoldInv /\ hold[c] \in Seq(Frames)
  BY TypesAreTwo DEF TypeInv, ListTypes
<1>3. /\ f \in Frames /\ Parked(q, f)
      /\ \A r \in Queues, g \in Frames : Parked(r, g)' <=> Parked(r, g) /\ (r # q \/ g # f)
      /\ Sorted'
  <2>1. older' \subseteq older
    OBVIOUS
  <2> QED
    BY <1>0, <1>1, <1>2, <2>1, ParkHead
<1>4. Alone' /\ OwnInv' /\ \A d \in Ctx \ {c}, g \in Frames : ~Mine(d, g) /\ ~Mine(d, g)'
  BY <1>1, ActorOwn
<1>5. \A g \in Frames : Mine(c, g)' <=> g = f \/ Mine(c, g)
  <2>1. \A g \in Frames : InHands(<<f>> \o hold[c], pc'[c], g) <=> g = f \/ InHands(hold[c], pc[c], g)
    BY <1>2, <1>3, HandsMore
  <2> QED
    BY <1>0, <2>1 DEF Mine
<1>6. \A d \in Ctx, g \in Frames : Mine(d, g)' <=> Mine(d, g) \/ (d = c /\ g = f)
  BY <1>4, <1>5
<1>7. InUse' = InUse /\ InUse \subseteq Frames /\ ListOnce' /\ OlderOK' /\ os_qid' = os_qid
  BY <1>1 DEF InUse, ListOnce, OlderOK
<1>8. PlaceInv'
  <2>1. \A r \in Queues, g \in Frames : Parked(r, g)' => g \in InUse /\ os_qid[g] = r
    BY <1>1, <1>3 DEF PlaceInv
  <2>2. \A r \in Queues : ~Parked(r, f)'
    BY <1>1, <1>3 DEF PlaceInv
  <2>3. \A g \in InUse : (\E r \in Queues : Parked(r, g)') \/ (\E d \in Ctx : Mine(d, g)')
    <3> SUFFICES ASSUME NEW g \in InUse
                 PROVE  (\E r \in Queues : Parked(r, g)') \/ (\E d \in Ctx : Mine(d, g)')
      OBVIOUS
    <3>1. CASE g = f
      BY <1>3, <1>6, <3>1
    <3>2. CASE g # f
      BY <1>1, <1>3, <1>6, <1>7, <3>2 DEF PlaceInv
    <3> QED
      BY <3>1, <3>2
  <2>4. ASSUME NEW d \in Ctx, NEW g \in Frames, Mine(d, g)'
        PROVE  g \in InUse /\ \A r \in Queues : ~Parked(r, g)'
    <3>1. CASE g = f
      BY <1>1, <1>3, <2>2, <3>1 DEF PlaceInv
    <3>2. CASE Mine(d, g)
      BY <1>1, <1>3, <3>2 DEF PlaceInv
    <3> QED
      BY <1>6, <2>4, <3>1, <3>2
  <2> QED
    BY <1>7, <2>1, <2>3, <2>4 DEF PlaceInv
<1>9. TwoDiffer'
  <2>1. /\ Len(<<f>> \o hold[c]) = Len(hold[c]) + 1 /\ (<<f>> \o hold[c])[1] = f
        /\ \A i \in 1..Len(hold[c]) : (<<f>> \o hold[c])[i + 1] = hold[c][i]
        /\ Len(hold[c]) \in Nat
    BY <1>2, <1>3, Consed
  <2>2. hold'[c] = <<f>> \o hold[c]
    BY <1>0
  <2>3. ASSUME Len(hold'[c]) = 2 PROVE hold'[c][1] # hold'[c][2]
    <3>1. Len(hold[c]) = 1 /\ 1 \in 1..Len(hold[c]) /\ 1 + 1 = 2
      <4>1. Len(<<f>> \o hold[c]) = 2
        BY <2>2, <2>3, Zenon
      <4>2. Len(hold[c]) + 1 = 2
        BY <2>1, <4>1, Zenon
      <4>3. \A n \in Nat : n + 1 = 2 => n = 1 /\ 1 \in 1..n /\ 1 + 1 = 2
        OBVIOUS
      <4> QED
        BY <2>1, <4>2, <4>3, Zenon
    <3>2. hold'[c][1] = f /\ hold'[c][2] = hold[c][1]
      BY <2>1, <2>2, <3>1
    <3>3. hold[c][1] \in Frames
      BY <1>2, <3>1
    <3>4. Mine(c, hold[c][1])
      <4>1. "xmit" # "wake" /\ InHands(hold[c], "xmit", hold[c][1])
        BY <3>1 DEF InHands
      <4> QED
        BY <3>3, <4>1, HandsSame DEF Mine
    <3>5. ~Parked(q, hold[c][1])
      BY <1>1, <3>3, <3>4 DEF PlaceInv
    <3> QED
      BY <1>3, <3>2, <3>5
  <2> QED
    BY <1>1, <2>3, TwoStep
<1> QED
  BY <1>3, <1>4, <1>7, <1>8, <1>9 DEF OrderInv

LEMMA OrderFree ==
  ASSUME TypeInv, HoldInv', OrderInv, Gone', NEW c \in Ctx, Actor(c), rtw_free_xmitframe(c)
  PROVE  OrderInv'
<1>0. PICK f : f = Head(hold[c])
  OBVIOUS
<1>1. Alone /\ ListOnce /\ PlaceInv /\ TwoDiffer /\ OlderOK /\ Sorted /\ OwnInv
  BY DEF OrderInv
<1>2. /\ pc[c] = "free" /\ free_xmit_queue' = Append(free_xmit_queue, f)
      /\ older' = {p \in older : f \notin {p[1], p[2]}} /\ pc' = [pc EXCEPT ![c] = "wake"]
      /\ UNCHANGED <<os_qid, sta_pending, hold>>
  BY <1>0 DEF rtw_free_xmitframe
<1>3. ListTypes /\ HoldInv /\ pc \in [Ctx -> Pcs] /\ CtxOK(c)
  BY TypesAreTwo DEF TypeInv, ListTypes, HoldInv
<1>4. f \in Frames /\ f = hold[c][1] /\ hold[c] \in Seq(Frames)
  BY <1>0, <1>2, <1>3, HasFrame
<1>5. Len(hold[c]) = 1 \/ Len(hold[c]) = 2
  BY <1>2, <1>3 DEF CtxOK
<1>6. pc'[c] = "wake" /\ hold'[c] = hold[c] /\ "free" # "wake"
  BY <1>2, <1>3
<1>7. Mine(c, f) /\ \A g \in Frames : Mine(c, g)' <=> Mine(c, g) /\ g # f
  <2>1. Len(hold[c]) = 2 => hold[c][1] # hold[c][2]
    BY <1>1 DEF TwoDiffer
  <2>2. /\ InHands(hold[c], "free", hold[c][1])
        /\ \A g \in Frames :
             InHands(hold[c], "wake", g) <=> InHands(hold[c], "free", g) /\ g # hold[c][1]
    BY <1>4, <1>5, <1>6, <2>1, HandsFree
  <2> QED
    BY <1>2, <1>4, <1>6, <2>2 DEF Mine
<1>8. f \in InUse /\ \A q \in Queues : ~Parked(q, f)
  BY <1>1, <1>4, <1>7 DEF PlaceInv
<1>9. InUse' = InUse \ {f} /\ ListOnce'
  BY <1>1, <1>2, <1>3, <1>8, ListAppend
<1>10. \A g, h \in Frames : <<g, h>> \in older' <=> <<g, h>> \in older /\ g # f /\ h # f
  BY <1>2
<1>11. \A r \in Queues, g \in Frames : Parked(r, g)' <=> Parked(r, g)
  BY <1>2 DEF Parked
<1>12. OwnOK(c)'
  <2>1. CASE c = "tasklet" /\ Len(hold[c]) = 2
    <3>1. 2 \in 1..Len(hold[c]) /\ hold'[c][Len(hold'[c])] = hold[c][Len(hold[c])]
      BY <1>6, <2>1
    <3>2. \A h, g \in Frames : h = hold[c][Len(hold[c])] /\ Parked(os_qid[h], g) => <<g, h>> \notin older
      BY <1>1, <2>1 DEF OwnInv, OwnOK
    <3>3. \A h \in Frames : os_qid'[h] = os_qid[h] /\ os_qid[h] \in Queues
      BY <1>2, <1>3 DEF ListTypes
    <3>4. ASSUME NEW h \in Frames, NEW g \in Frames, h = hold'[c][Len(hold'[c])],
                 Parked(os_qid[h], g)'
          PROVE  <<g, h>> \notin older'
      <4>1. PICK r \in Queues : r = os_qid[h] /\ r = os_qid'[h]
        BY <3>3
      <4>2. Parked(r, g)
        BY <1>11, <3>4, <4>1
      <4> QED
        BY <1>10, <3>1, <3>2, <3>4, <4>1, <4>2
    <3>5. c \notin Queues
      BY <2>1, Contexts
    <3> QED
      BY <3>4, <3>5 DEF OwnOK
  <2>2. CASE ~(c = "tasklet" /\ Len(hold[c]) = 2)
    BY <1>6, <2>2 DEF OwnOK
  <2> QED
    BY <2>1, <2>2
<1>13. Alone' /\ OwnInv' /\ \A d \in Ctx \ {c}, g \in Frames : ~Mine(d, g) /\ ~Mine(d, g)'
  BY <1>1, <1>12, ActorOwn
<1>14. InUse \subseteq Frames
  BY DEF InUse
<1>15. PlaceInv'
  <2>1. \A r \in Queues, g \in Frames : Parked(r, g)' => g \in InUse' /\ os_qid'[g] = r
    BY <1>1, <1>2, <1>8, <1>9, <1>11 DEF PlaceInv
  <2>2. ASSUME NEW g \in InUse'
        PROVE  (\E r \in Queues : Parked(r, g)') \/ (\E d \in Ctx : Mine(d, g)')
    <3>1. g \in InUse /\ g # f /\ g \in Frames
      BY <1>9, <1>14
    <3> QED
      BY <1>1, <1>7, <1>11, <1>13, <3>1 DEF PlaceInv
  <2>3. ASSUME NEW d \in Ctx, NEW g \in Frames, Mine(d, g)'
        PROVE  g \in InUse' /\ \A r \in Queues : ~Parked(r, g)'
    BY <1>1, <1>7, <1>9, <1>11, <1>13, <2>3 DEF PlaceInv
  <2> QED
    BY <2>1, <2>2, <2>3 DEF PlaceInv
<1>16. TwoDiffer'
  BY <1>1, <1>2 DEF TwoDiffer
<1>17. OlderOK'
  BY <1>1, <1>9, <1>10 DEF OlderOK
<1>18. Sorted'
  BY <1>1, <1>2 DEF Sorted
<1> QED
  BY <1>9, <1>13, <1>15, <1>16, <1>17, <1>18 DEF OrderInv

LEMMA OrderWake ==
  ASSUME TypeInv, HoldInv', OrderInv, Gone', NEW c \in Ctx, Actor(c),
         rtw_os_check_wakup_queue(c)
  PROVE  OrderInv'
<1>1. Alone /\ ListOnce /\ PlaceInv /\ TwoDiffer /\ OlderOK /\ Sorted /\ OwnInv
  BY DEF OrderInv
<1>2. /\ pc[c] = "wake" /\ pc' = [pc EXCEPT ![c] = AfterWake(c)]
      /\ hold' = [hold EXCEPT ![c] = Tail(hold[c])]
      /\ UNCHANGED <<free_xmit_queue, os_qid, older, sta_pending>>
  BY DEF rtw_os_check_wakup_queue
<1>3. /\ ListTypes /\ HoldInv /\ pc \in [Ctx -> Pcs] /\ CtxOK(c)
      /\ hold \in [Ctx -> Seq(Frames)] /\ os_qid \in [Frames -> Queues]
  BY TypesAreTwo DEF TypeInv, ListTypes, HoldInv
<1>4. hold[c] \in Seq(Frames) /\ hold[c] # <<>>
  BY <1>2, <1>3, HasFrame
<1>5. /\ Tail(hold[c]) \in Seq(Frames) /\ Len(Tail(hold[c])) = Len(hold[c]) - 1
      /\ \A i \in 1..Len(Tail(hold[c])) : Tail(hold[c])[i] = hold[c][i + 1]
      /\ Len(hold[c]) \in Nat
  BY <1>4, HeadTail
<1>6. pc'[c] = AfterWake(c) /\ hold'[c] = Tail(hold[c]) /\ AfterWake(c) # "wake"
  BY <1>2, <1>3 DEF AfterWake
<1>7. \A g \in Frames : Mine(c, g)' <=> Mine(c, g)
  <2>1. \A g \in Frames : InHands(Tail(hold[c]), AfterWake(c), g) <=> InHands(hold[c], "wake", g)
    BY <1>4, <1>6, HandsTail
  <2> QED
    BY <1>2, <1>6, <2>1 DEF Mine
<1>8. /\ \A r \in Queues, g \in Frames : Parked(r, g)' <=> Parked(r, g)
      /\ InUse' = InUse /\ InUse \subseteq Frames /\ ListOnce' /\ Sorted' /\ OlderOK'
  BY <1>1, <1>2 DEF Parked, InUse, ListOnce, Sorted, OlderOK
<1>9. Len(hold[c]) = 1 \/ (c = "tasklet" /\ Len(hold[c]) = 2)
  BY <1>2, <1>3 DEF CtxOK
<1>10. Len(Tail(hold[c])) # 2 /\ (Len(hold[c]) = 1 => Tail(hold[c]) = <<>>)
  <2>1. \A n \in Nat : n = 1 \/ n = 2 => n - 1 # 2 /\ (n = 1 => n - 1 = 0)
    OBVIOUS
  <2>2. Len(Tail(hold[c])) # 2 /\ (Len(hold[c]) = 1 => Len(Tail(hold[c])) = 0)
    BY <1>5, <1>9, <2>1
  <2> QED
    BY <1>5, <2>2, Nonempty
<1>11. OwnOK(c)'
  <2>1. CASE c # "tasklet"
    <3>1. c \in Queues => AfterWake(c) = "idle"
      BY DEF AfterWake
    <3> QED
      BY <1>6, <2>1, <3>1 DEF OwnOK
  <2>2. CASE c = "tasklet" /\ Len(hold[c]) = 1
    <3>1. AfterWake(c) \in {"deq", "loop"} /\ c \notin Queues
      BY <1>10, <2>2, Contexts DEF AfterWake
    <3>2. pc'[c] \notin {"agg", "write"} /\ Len(hold'[c]) # 2
      BY <1>6, <1>10, <3>1
    <3> QED
      BY <3>1, <3>2 DEF OwnOK
  <2>3. CASE c = "tasklet" /\ Len(hold[c]) = 2
    <3>1. /\ \A n : n = 2 => n - 1 = 1 /\ 1 \in 1..(n - 1) /\ 1 + 1 = n
      OBVIOUS
    <3>2. Len(Tail(hold[c])) = 1 /\ 1 \in 1..Len(Tail(hold[c])) /\ 1 + 1 = Len(hold[c])
      BY <1>5, <2>3, <3>1, Zenon
    <3>3. hold'[c][Len(hold'[c])] = hold[c][Len(hold[c])]
      <4>1. Tail(hold[c])[1] = hold[c][1 + 1]
        BY <1>5, <3>2, Zenon
      <4>2. Tail(hold[c])[1] = hold[c][Len(hold[c])]
        BY <3>2, <4>1, Zenon
      <4> QED
        BY <1>6, <3>2, <4>2, Zenon
    <3>4. \A h, g \in Frames : h = hold[c][Len(hold[c])] /\ Parked(os_qid[h], g) => <<g, h>> \notin older
      BY <1>1, <2>3 DEF OwnInv, OwnOK
    <3>5. ASSUME NEW h \in Frames, NEW g \in Frames, h = hold'[c][Len(hold'[c])],
                 Parked(os_qid[h], g)'
          PROVE  <<g, h>> \notin older'
      <4>1. PICK r \in Queues : r = os_qid[h] /\ r = os_qid'[h]
        BY <1>2, <1>3
      <4>2. Parked(r, g)
        BY <1>8, <3>5, <4>1
      <4>3. h = hold[c][Len(hold[c])] /\ Parked(os_qid[h], g)
        BY <3>3, <3>5, <4>1, <4>2, Zenon
      <4> QED
        BY <1>2, <3>4, <4>3
    <3>6. c \notin Queues
      BY <2>3, Contexts
    <3> QED
      BY <3>5, <3>6 DEF OwnOK
  <2> QED
    BY <1>9, <2>1, <2>2, <2>3
<1>12. Actor(c) /\ Alone' /\ OwnInv' /\ \A d \in Ctx \ {c}, g \in Frames : ~Mine(d, g) /\ ~Mine(d, g)'
  BY <1>1, <1>11, ActorOwn
<1>13. PlaceInv'
  <2>1. \A d \in Ctx, g \in Frames : Mine(d, g)' <=> Mine(d, g)
    BY <1>7, <1>12
  <2> QED
    BY <1>1, <1>2, <1>8, <2>1 DEF PlaceInv
<1>14. TwoDiffer'
  BY <1>1, <1>6, <1>10, TwoStep
<1> QED
  BY <1>8, <1>12, <1>13, <1>14 DEF OrderInv

LEMMA GoneSame ==
  ASSUME Gone, assoc' = assoc, pc'["flush"] = "idle" => pc["flush"] = "idle",
         \A q \in Queues, f \in Frames : Parked(q, f)' => Parked(q, f)
  PROVE  Gone'
BY DEF Gone

(* Steps of a transmit entry.                                              *)
LEMMA OrderEntry ==
  ASSUME ~SMP, TypeInv, HoldInv', OrderInv, NEW q \in Queues,
         rtw_alloc_xmitframe(q) \/ Entry(q)
  PROVE  OrderInv'
<1>1. /\ q \in Ctx /\ q # "tasklet" /\ q # "flush" /\ "flush" \in Ctx /\ pc \in [Ctx -> Pcs]
      /\ ListTypes /\ hold \in [Ctx -> Seq(Frames)]
  BY Contexts, TypesAreTwo DEF TypeInv, ListTypes
<1>2. Gone /\ Alone /\ OwnOK(q) /\ CtxOK(q)
  BY <1>1 DEF OrderInv, OwnInv, TypeInv, HoldInv
<1>3. ASSUME UNCHANGED sta_pending PROVE \A r \in Queues, f \in Frames : Parked(r, f)' <=> Parked(r, f)
  BY <1>3 DEF Parked
<1>4. CASE rtw_alloc_xmitframe(q)
  <2>1. /\ \A d \in Ctx : pc[d] = "idle"
        /\ pc' = [pc EXCEPT ![q] = "check"] /\ UNCHANGED <<sta_pending, assoc>>
        /\ hold' = [hold EXCEPT ![q] = <<Head(free_xmit_queue)>>]
    BY <1>4 DEF rtw_alloc_xmitframe, MayStart
  <2>2. Actor(q)
    BY <1>1, <2>1 DEF Actor
  <2>3. Gone'
    <3>1. pc'["flush"] = pc["flush"]
      BY <1>1, <2>1
    <3> QED
      BY <1>2, <1>3, <2>1, <3>1, GoneSame
  <2> QED
    BY <1>4, <2>2, <2>3, OrderAlloc
<1>5. ASSUME NEW s, s # "wake", pc[q] # "idle", pc[q] # "wake", pc' = [pc EXCEPT ![q] = s],
             UNCHANGED <<hold, assoc, free_xmit_queue, os_qid, older, sta_pending>>,
             OwnOK(q)'
      PROVE  OrderInv'
  <2>1. pc'[q] = s /\ pc'["flush"] = pc["flush"] /\ Actor(q)
    BY <1>1, <1>5 DEF Actor
  <2>2. Gone'
    BY <1>2, <1>3, <1>5, <2>1, GoneSame
  <2> QED
    BY <1>1, <1>5, <2>1, <2>2, OrderGoesOn
<1>6. CASE rtw_os_check_stop_queue(q) \/ netif_stop_subqueue(q)
  <2>1. PICK s \in {"stop", "xmit"} : pc' = [pc EXCEPT ![q] = s]
    BY <1>6 DEF rtw_os_check_stop_queue, netif_stop_subqueue
  <2>2. /\ pc[q] \in {"check", "stop"}
        /\ UNCHANGED <<hold, assoc, free_xmit_queue, os_qid, older, sta_pending>>
    BY <1>6 DEF rtw_os_check_stop_queue, netif_stop_subqueue, poolVars
  <2>3. OwnOK(q)'
    <3>1. pc'[q] = s
      BY <1>1, <2>1
    <3> QED
      BY <1>1, <1>2, <2>2, <3>1 DEF OwnOK
  <2> QED
    BY <1>5, <2>1, <2>2, <2>3
<1>7. CASE /\ pc[q] = "xmit" /\ pc' = [pc EXCEPT ![q] = "free"]
           /\ UNCHANGED <<hold, assoc, free_xmit_queue, os_qid, older, sta_pending>>
  <2>1. OwnOK(q)'
    <3>1. pc'[q] = "free"
      BY <1>1, <1>7
    <3> QED
      BY <1>1, <3>1 DEF OwnOK
  <2> QED
    BY <1>5, <1>7, <2>1
<1>8. CASE /\ pc[q] = "xmit" /\ ~MustQueue(q) /\ pc' = [pc EXCEPT ![q] = "write"]
           /\ UNCHANGED <<hold, assoc, free_xmit_queue, os_qid, older, sta_pending>>
  <2>1. \A f \in Frames : ~Parked(q, f)
    <3>1. CASE assoc
      <4>1. sta_pending[q] = <<>>
        BY <1>8, <3>1 DEF MustQueue
      <4>2. Len(sta_pending[q]) = 0
        BY <4>1
      <4> QED
        BY <4>2 DEF Parked
    <3>2. CASE ~assoc
      <4>1. pc["flush"] = "idle"
        BY <1>1, <1>2, <1>8 DEF Alone
      <4> QED
        BY <1>2, <3>2, <4>1 DEF Gone
    <3> QED
      BY <3>1, <3>2
  <2>2. os_qid[hold[q][1]] = q
    BY <1>1, <1>2, <1>8 DEF OwnOK
  <2>3. OwnOK(q)'
    <3>1. pc'[q] = "write" /\ os_qid'[hold'[q][1]] = q
      BY <1>1, <1>8, <2>2
    <3>2. \A f \in Frames : ~Parked(q, f)'
      BY <1>3, <1>8, <2>1
    <3> QED
      BY <1>1, <3>1, <3>2 DEF OwnOK
  <2> QED
    BY <1>5, <1>8, <2>3
<1>9. CASE /\ pc[q] = "xmit" /\ assoc /\ assoc' = assoc
           /\ sta_pending' = [sta_pending EXCEPT ![q] = Append(sta_pending[q], Head(hold[q]))]
           /\ hold' = [hold EXCEPT ![q] = <<>>] /\ pc' = [pc EXCEPT ![q] = "idle"]
           /\ UNCHANGED <<free_xmit_queue, os_qid, older>>
  <2>1. Actor(q)
    BY <1>1, <1>9 DEF Actor
  <2>2. Gone'
    BY <1>9 DEF Gone
  <2> QED
    BY <1>9, <2>1, <2>2, OrderPark
<1>10. CASE rtw_xmit_fails(q)
  BY <1>7, <1>10 DEF rtw_xmit_fails, poolVars
<1>11. CASE pre_xmitframe(q)
  BY <1>7, <1>8, <1>9, <1>11 DEF pre_xmitframe, poolVars
<1> QED
  BY <1>4, <1>6, <1>10, <1>11 DEF Entry

(* A frame is written or given back.                                       *)
LEMMA OrderGiveBack ==
  ASSUME TypeInv, HoldInv', OrderInv, NEW c \in Ctx, GiveBack(c)
  PROVE  OrderInv'
<1>1. /\ pc \in [Ctx -> Pcs] /\ hold \in [Ctx -> Seq(Frames)] /\ CtxOK(c) /\ Gone
      /\ "flush" \in Ctx
  BY Contexts, TypesAreTwo DEF TypeInv, ListTypes, HoldInv, OrderInv
<1>2. ASSUME UNCHANGED sta_pending PROVE \A r \in Queues, f \in Frames : Parked(r, f)' <=> Parked(r, f)
  BY <1>2 DEF Parked
<1>3. CASE usb_write_port(c)
  <2>1. /\ pc[c] = "write" /\ pc' = [pc EXCEPT ![c] = "free"]
        /\ UNCHANGED <<hold, assoc, free_xmit_queue, os_qid, older, sta_pending>>
    BY <1>3 DEF usb_write_port, poolVars
  <2>2. Actor(c) /\ pc'[c] = "free" /\ (pc'["flush"] = "idle" => pc["flush"] = "idle")
    BY <1>1, <2>1 DEF Actor
  <2>3. Gone'
    BY <1>1, <1>2, <2>1, <2>2, GoneSame
  <2>4. Len(hold'[c]) = 1
    BY <1>1, <2>1 DEF CtxOK
  <2>5. Len(hold'[c]) # 2
    BY <2>4
  <2>6. OwnOK(c)'
    BY <2>2, <2>5 DEF OwnOK
  <2> QED
    BY <2>1, <2>2, <2>3, <2>6, OrderGoesOn
<1>4. CASE rtw_free_xmitframe(c)
  <2>1. /\ pc[c] = "free" /\ pc' = [pc EXCEPT ![c] = "wake"]
        /\ UNCHANGED <<hold, assoc, sta_pending>>
    BY <1>4 DEF rtw_free_xmitframe
  <2>2. Actor(c) /\ (pc'["flush"] = "idle" => pc["flush"] = "idle")
    BY <1>1, <2>1 DEF Actor
  <2>3. Gone'
    BY <1>1, <1>2, <2>1, <2>2, GoneSame
  <2> QED
    BY <1>4, <2>2, <2>3, OrderFree
<1>5. CASE rtw_os_check_wakup_queue(c)
  <2>1. /\ pc[c] = "wake" /\ pc' = [pc EXCEPT ![c] = AfterWake(c)]
        /\ hold' = [hold EXCEPT ![c] = Tail(hold[c])] /\ UNCHANGED <<assoc, sta_pending>>
    BY <1>5 DEF rtw_os_check_wakup_queue
  <2>2. Actor(c)
    BY <1>1, <2>1 DEF Actor
  <2>3. c = "flush" => AfterWake(c) = "flush"
    BY Contexts DEF AfterWake
  <2>4. pc'["flush"] = "idle" => pc["flush"] = "idle"
    BY <1>1, <2>1, <2>3
  <2>5. Gone'
    BY <1>1, <1>2, <2>1, <2>4, GoneSame
  <2> QED
    BY <1>5, <2>2, <2>5, OrderWake
<1> QED
  BY <1>3, <1>4, <1>5 DEF GiveBack

(* A context that holds nothing takes a frame: <<f>> \o hold[c] is <<f>>.  *)
LEMMA TakeFirst ==
  ASSUME NEW h \in Seq(Frames), Len(h) = 0, NEW f \in Frames
  PROVE  <<f>> \o h = <<f>>
<1>1. h = <<>>
  BY Nonempty
<1> QED
  BY <1>1

LEMMA OrderTasklet ==
  ASSUME ~SMP, TypeInv, HoldInv', OrderInv, xmit_tasklet_starts \/ Tasklet
  PROVE  OrderInv'
<1> DEFINE c == "tasklet"
<1>1. /\ pc \in [Ctx -> Pcs] /\ hold \in [Ctx -> Seq(Frames)] /\ CtxOK(c) /\ Gone /\ ListTypes
      /\ "flush" \in Ctx /\ c \in Ctx /\ c \notin Queues /\ OwnOK(c)
      /\ os_qid \in [Frames -> Queues] /\ HoldInv /\ Sorted /\ PlaceInv
  BY Contexts, TypesAreTwo DEF TypeInv, ListTypes, HoldInv, OrderInv, OwnInv
<1>2. ASSUME UNCHANGED sta_pending PROVE \A r \in Queues, f \in Frames : Parked(r, f)' <=> Parked(r, f)
  BY <1>2 DEF Parked
<1>3. ASSUME NEW s \in Pcs, s # "wake", pc[c] # "wake", pc' = [pc EXCEPT ![c] = s],
             pc[c] # "idle" \/ \A d \in Ctx : pc[d] = "idle",
             UNCHANGED <<hold, assoc, free_xmit_queue, os_qid, older, sta_pending>>,
             s = "write" => pc[c] = "agg", s \in {"write", "loop", "idle", "deq"},
             pc[c] \in {"idle", "loop", "deq", "agg"}
      PROVE  OrderInv'
  <2>1. Actor(c) /\ pc'[c] = s /\ pc'["flush"] = pc["flush"]
    BY <1>1, <1>3 DEF Actor
  <2>2. Gone'
    BY <1>1, <1>2, <1>3, <2>1, GoneSame
  <2>3. ASSUME NEW k, k = c PROVE OwnOK(k)'
    <3>1. CASE s = "write"
      <4>1. \A f, g \in Frames :
              f = hold[c][Len(hold[c])] /\ Parked(os_qid[f], g) => <<g, f>> \notin older
        BY <1>1, <1>3, <3>1 DEF OwnOK
      <4>2. ASSUME NEW f \in Frames, NEW g \in Frames, f = hold'[c][Len(hold'[c])],
                   Parked(os_qid[f], g)'
            PROVE  <<g, f>> \notin older'
        <5>1. PICK r \in Queues : r = os_qid[f] /\ r = os_qid'[f]
          BY <1>1, <1>3
        <5>2. Parked(r, g)
          BY <1>2, <1>3, <4>2, <5>1
        <5> QED
          BY <1>3, <4>1, <4>2, <5>1, <5>2
      <4> QED
        BY <1>1, <2>3, <4>2 DEF OwnOK
    <3>2. CASE s # "write"
      <4>1. pc[c] \in {"idle", "loop", "deq", "agg"} => Len(hold[c]) = 0 \/ Len(hold[c]) = 1
        BY <1>1 DEF CtxOK
      <4>2. Len(hold'[c]) = 0 \/ Len(hold'[c]) = 1
        BY <1>3, <4>1
      <4>3. Len(hold'[c]) # 2
        BY <4>2
      <4>4. s \notin {"agg", "write"}
        BY <1>3, <3>2
      <4> QED
        BY <1>1, <2>1, <2>3, <4>3, <4>4 DEF OwnOK
    <3> QED
      BY <3>1, <3>2
  <2> QED
    BY <1>1, <1>3, <2>1, <2>2, <2>3, OrderGoesOn
<1>4. CASE xmit_tasklet_starts
  <2>1. /\ pc[c] = "idle" /\ (\A d \in Ctx : pc[d] = "idle") /\ pc' = [pc EXCEPT ![c] = "loop"]
        /\ UNCHANGED <<hold, assoc, free_xmit_queue, os_qid, older, sta_pending>>
    BY <1>4 DEF xmit_tasklet_starts, MayStart, poolVars
  <2>2. "loop" \in Pcs
    BY DEF Pcs
  <2> QED
    BY <1>3, <2>1, <2>2
<1>5. CASE rtl8188fu_xmit_tasklet
  <2>1. PICK s \in {"idle", "deq"} : pc' = [pc EXCEPT ![c] = s]
    BY <1>5 DEF rtl8188fu_xmit_tasklet
  <2>2. pc[c] = "loop" /\ UNCHANGED <<hold, assoc, free_xmit_queue, os_qid, older, sta_pending>>
    BY <1>5 DEF rtl8188fu_xmit_tasklet, poolVars
  <2>3. s \in Pcs
    BY DEF Pcs
  <2> QED
    BY <1>3, <2>1, <2>2, <2>3
<1>6. CASE rtw_dequeue_xframe /\ ~rtw_txframes_pending
  <2>1. /\ pc[c] = "deq" /\ pc' = [pc EXCEPT ![c] = "idle"]
        /\ UNCHANGED <<hold, assoc, free_xmit_queue, os_qid, older, sta_pending>>
    BY <1>6 DEF rtw_dequeue_xframe, poolVars
  <2>2. "idle" \in Pcs
    BY DEF Pcs
  <2> QED
    BY <1>3, <2>1, <2>2
<1>7. CASE rtw_dequeue_xframe /\ rtw_txframes_pending
  <2>1. PICK q \in Queues : q = FirstQueue /\ sta_pending[q] # <<>>
    BY <1>7, FirstIsPending
  <2>2. PICK s \in {"free", "agg"} : pc' = [pc EXCEPT ![c] = s]
    BY <1>7 DEF rtw_dequeue_xframe
  <2>3. /\ hold' = [hold EXCEPT ![c] = <<Head(sta_pending[q])>>] /\ pc[c] = "deq"
        /\ sta_pending' = [sta_pending EXCEPT ![q] = Tail(sta_pending[q])]
        /\ UNCHANGED <<assoc, free_xmit_queue, os_qid, older>>
    BY <1>7, <2>1 DEF rtw_dequeue_xframe, poolVars
  <2>4. PICK f \in Frames : f = Head(sta_pending[q])
    BY <1>1, <2>1, <2>3, ParkHead
  <2>5. /\ Parked(q, f)
        /\ \A r \in Queues, g \in Frames : Parked(r, g)' => Parked(r, g)
        /\ \A g \in Frames : Parked(q, g)' => <<g, f>> \notin older
    BY <1>1, <2>1, <2>3, <2>4, ParkHead
  <2>6. os_qid[f] = q
    BY <1>1, <2>5 DEF PlaceInv
  <2>7. Len(hold[c]) = 0
    BY <1>1, <2>3 DEF CtxOK
  <2>8. hold'[c] = <<f>> \o hold[c] /\ hold'[c] = <<f>> /\ pc'[c] = s
    <3>1. hold'[c] = <<f>> /\ pc'[c] = s
      BY <1>1, <2>2, <2>3, <2>4
    <3>2. <<f>> \o hold[c] = <<f>>
      BY <1>1, <2>7, TakeFirst
    <3> QED
      BY <3>1, <3>2, Zenon
  <2>9. Actor(c) /\ pc'["flush"] = pc["flush"]
    BY <1>1, <2>2, <2>3 DEF Actor
  <2>10. Gone'
    BY <1>1, <2>3, <2>5, <2>9, GoneSame
  <2>11. ASSUME NEW k, k = c PROVE OwnOK(k)'
    <3>1. \A h \in Frames : h = hold'[c][Len(hold'[c])] => h = f
      <4>1. <<f>>[Len(<<f>>)] = f
        OBVIOUS
      <4> QED
        BY <2>8, <4>1, Zenon
    <3>2. ASSUME NEW h \in Frames, NEW g \in Frames, h = hold'[c][Len(hold'[c])],
                 Parked(os_qid[h], g)'
          PROVE  <<g, h>> \notin older'
      <4>1. h = f /\ os_qid'[h] = q
        BY <2>3, <2>6, <3>1, <3>2
      <4>2. Parked(q, g)'
        BY <3>2, <4>1 DEF Parked
      <4> QED
        BY <2>3, <2>5, <4>1, <4>2
    <3> QED
      BY <1>1, <2>11, <3>2 DEF OwnOK
  <2>12. hold'[c] = <<Head(sta_pending[q])>> \o hold[c] /\ pc[c] # "wake" /\ pc'[c] # "wake"
    BY <2>2, <2>3, <2>4, <2>8, Zenon
  <2> QED
    BY <1>1, <2>1, <2>3, <2>9, <2>10, <2>11, <2>12, OrderTake
<1>8. CASE aggregate
  <2>1. pc[c] = "agg" /\ UNCHANGED <<assoc, free_xmit_queue, os_qid, older>>
    BY <1>8 DEF aggregate, poolVars
  <2>2. hold[c] \in Seq(Frames) /\ Head(hold[c]) \in Frames /\ Head(hold[c]) = hold[c][1]
    BY <1>1, <2>1, HasFrame
  <2>3. Len(hold[c]) = 1
    BY <1>1, <2>1 DEF CtxOK
  <2>4. PICK q \in Queues : q = os_qid[Head(hold[c])]
    BY <1>1, <2>2
  <2>5. CASE /\ sta_pending[q] # <<>> /\ pc' = [pc EXCEPT ![c] = "free"]
             /\ hold' = [hold EXCEPT ![c] = <<Head(sta_pending[q])>> \o hold[c]]
             /\ sta_pending' = [sta_pending EXCEPT ![q] = Tail(sta_pending[q])]
    <3>1. Head(sta_pending[q]) \in Frames
          /\ \A r \in Queues, g \in Frames : Parked(r, g)' => Parked(r, g)
      BY <1>1, <2>5, ParkHead
    <3>2. PICK f \in Frames : f = Head(sta_pending[q])
      BY <3>1
    <3>3. /\ hold'[c] = <<f>> \o hold[c] /\ pc'[c] = "free" /\ pc'["flush"] = pc["flush"]
          /\ Actor(c)
      BY <1>1, <2>1, <2>5, <3>2 DEF Actor
    <3>4. Gone'
      BY <1>1, <2>1, <3>1, <3>3, GoneSame
    <3>5. /\ Len(<<f>> \o hold[c]) = Len(hold[c]) + 1
          /\ \A i \in 1..Len(hold[c]) : (<<f>> \o hold[c])[i + 1] = hold[c][i]
      BY <2>2, Consed
    <3>6. \A n : n = 1 => n \in 1..n
      OBVIOUS
    <3>7. hold'[c][Len(hold'[c])] = hold[c][Len(hold[c])]
      <4>1. (<<f>> \o hold[c])[Len(hold[c]) + 1] = hold[c][Len(hold[c])]
        BY <2>3, <3>5, <3>6, Zenon
      <4> QED
        BY <3>3, <3>5, <4>1, Zenon
    <3>8. \A h, g \in Frames : h = hold[c][Len(hold[c])] /\ Parked(os_qid[h], g) => <<g, h>> \notin older
      BY <1>1, <2>1 DEF OwnOK
    <3>9. ASSUME NEW h \in Frames, NEW g \in Frames, h = hold'[c][Len(hold'[c])],
                 Parked(os_qid[h], g)'
          PROVE  <<g, h>> \notin older'
      <4>1. PICK r \in Queues : r = os_qid[h] /\ r = os_qid'[h]
        BY <1>1, <2>1
      <4>2. Parked(r, g)
        <5>1. Parked(r, g)'
          BY <3>9, <4>1 DEF Parked
        <5> QED
          BY <3>1, <5>1
      <4>3. h = hold[c][Len(hold[c])] /\ Parked(os_qid[h], g)
        BY <3>7, <3>9, <4>1, <4>2, Zenon
      <4> QED
        BY <2>1, <3>8, <4>3
    <3>10. ASSUME NEW k, k = c PROVE OwnOK(k)'
      BY <1>1, <3>9, <3>10 DEF OwnOK
    <3>11. hold'[c] = <<Head(sta_pending[q])>> \o hold[c] /\ pc[c] # "wake" /\ pc'[c] # "wake"
      BY <2>1, <3>2, <3>3, Zenon
    <3> QED
      BY <1>1, <2>1, <2>5, <3>3, <3>4, <3>10, <3>11, OrderTake
  <2>6. CASE pc' = [pc EXCEPT ![c] = "write"] /\ UNCHANGED <<hold, sta_pending>>
    <3>1. "write" \in Pcs
      BY DEF Pcs
    <3> QED
      BY <1>3, <2>1, <2>6, <3>1
  <2> QED
    BY <1>8, <2>4, <2>5, <2>6 DEF aggregate
<1> QED
  BY <1>4, <1>5, <1>6, <1>7, <1>8 DEF Tasklet

LEMMA OrderFlush ==
  ASSUME ~SMP, TypeInv, HoldInv', OrderInv, rtw_free_stainfo \/ Flush
  PROVE  OrderInv'
<1> DEFINE c == "flush"
<1>1. /\ pc \in [Ctx -> Pcs] /\ hold \in [Ctx -> Seq(Frames)] /\ CtxOK(c) /\ Gone /\ ListTypes
      /\ c \in Ctx /\ c \notin Queues /\ Sorted
  BY Contexts, TypesAreTwo DEF TypeInv, ListTypes, HoldInv, OrderInv
<1>2. ASSUME NEW k, k = c PROVE OwnOK(k)'
  BY <1>1, <1>2 DEF OwnOK
<1>3. ASSUME NEW s \in Pcs, s # "wake", pc[c] # "wake", pc' = [pc EXCEPT ![c] = s],
             pc[c] # "idle" \/ \A d \in Ctx : pc[d] = "idle", Gone',
             UNCHANGED <<hold, free_xmit_queue, os_qid, older, sta_pending>>
      PROVE  OrderInv'
  <2>1. Actor(c) /\ pc'[c] = s
    BY <1>1, <1>3 DEF Actor
  <2> QED
    BY <1>1, <1>2, <1>3, <2>1, OrderGoesOn
<1>4. CASE rtw_free_stainfo
  <2>1. /\ pc[c] = "idle" /\ (\A d \in Ctx : pc[d] = "idle") /\ pc' = [pc EXCEPT ![c] = "lock"]
        /\ UNCHANGED <<hold, free_xmit_queue, os_qid, older, sta_pending>>
    BY <1>4 DEF rtw_free_stainfo, MayStart, poolVars
  <2>2. pc'["flush"] # "idle"
    BY <1>1, <2>1
  <2>3. Gone'
    BY <2>2 DEF Gone
  <2>4. "lock" \in Pcs
    BY DEF Pcs
  <2> QED
    BY <1>3, <2>1, <2>3, <2>4
<1>5. CASE rtw_free_stainfo_lock
  <2>1. /\ pc[c] = "lock" /\ pc' = [pc EXCEPT ![c] = "flush"]
        /\ UNCHANGED <<hold, free_xmit_queue, os_qid, older, sta_pending>>
    BY <1>5 DEF rtw_free_stainfo_lock, poolVars
  <2>2. pc'["flush"] # "idle"
    BY <1>1, <2>1
  <2>3. Gone'
    BY <2>2 DEF Gone
  <2>4. "flush" \in Pcs
    BY DEF Pcs
  <2> QED
    BY <1>3, <2>1, <2>3, <2>4
<1>6. CASE rtw_free_xmitframe_queue
  <2>1. pc[c] = "flush" /\ UNCHANGED <<free_xmit_queue, os_qid, older>>
    BY <1>6 DEF rtw_free_xmitframe_queue
  <2>2. ASSUME NEW q \in Queues, sta_pending[q] # <<>>,
               hold' = [hold EXCEPT ![c] = <<Head(sta_pending[q])>>],
               sta_pending' = [sta_pending EXCEPT ![q] = Tail(sta_pending[q])],
               pc' = [pc EXCEPT ![c] = "free"]
        PROVE  OrderInv'
    <3>1. PICK f \in Frames : f = Head(sta_pending[q])
      BY <1>1, <2>2, ParkHead
    <3>2. hold'[c] = <<f>> /\ pc'[c] = "free" /\ Actor(c)
      BY <1>1, <2>1, <2>2, <3>1 DEF Actor
    <3>3. Gone'
      BY <3>2 DEF Gone
    <3>4. Len(hold[c]) = 0
      BY <1>1, <2>1 DEF CtxOK
    <3>5. <<f>> \o hold[c] = <<f>>
      BY <1>1, <3>4, TakeFirst
    <3>6. hold'[c] = <<Head(sta_pending[q])>> \o hold[c] /\ pc[c] # "wake" /\ pc'[c] # "wake"
      BY <2>1, <3>1, <3>2, <3>5, Zenon
    <3> QED
      BY <1>1, <1>2, <2>1, <2>2, <3>2, <3>3, <3>6, OrderTake
  <2>3. CASE /\ ~rtw_txframes_pending /\ pc' = [pc EXCEPT ![c] = "idle"]
             /\ UNCHANGED <<hold, sta_pending>>
    <3>1. \A q \in Queues : sta_pending'[q] = <<>>
      BY <2>3 DEF rtw_txframes_pending
    <3>2. \A q \in Queues : Len(sta_pending'[q]) = 0
      BY <3>1
    <3>3. Gone'
      BY <3>2 DEF Gone, Parked
    <3>4. "idle" \in Pcs
      BY DEF Pcs
    <3> QED
      BY <1>3, <2>1, <2>3, <3>3, <3>4
  <2> QED
    BY <1>6, <2>2, <2>3 DEF rtw_free_xmitframe_queue
<1> QED
  BY <1>4, <1>5, <1>6 DEF Flush

LEMMA OrderStep ==
  ASSUME ~SMP, TypeInv, HoldInv', OrderInv, [Next]_vars
  PROVE  OrderInv'
<1>1. CASE usb_write_port_complete \/ Phase \/ rtw_set_drv_stopped \/ rtw_alloc_stainfo
           \/ UNCHANGED vars
  <2>1. /\ UNCHANGED <<free_xmit_queue, os_qid, older, sta_pending, pc, hold>>
        /\ assoc' = assoc \/ assoc' = TRUE
    BY <1>1 DEF usb_write_port_complete, Phase, rtw_leave_opch, rtw_back_opch, rtw_joinbss_begins,
                rtw_joinbss_ends, rtw_os_xmit_schedule, rtw_alloc_stainfo, rtw_set_drv_stopped,
                vars, poolVars
  <2>2. Alone' /\ ListOnce' /\ TwoDiffer' /\ OlderOK' /\ Sorted'
    <3>1. Alone' /\ ListOnce'
      BY <2>1 DEF OrderInv, Alone, ListOnce
    <3>2. TwoDiffer' /\ OlderOK'
      BY <2>1 DEF OrderInv, TwoDiffer, OlderOK, InUse
    <3>3. Sorted'
      BY <2>1 DEF OrderInv, Sorted
    <3> QED
      BY <3>1, <3>2, <3>3
  <2>3. PlaceInv'
    BY <2>1 DEF OrderInv, PlaceInv, Parked, Mine, InUse
  <2>4. OwnInv'
    BY <2>1 DEF OrderInv, OwnInv, OwnOK, Parked
  <2>5. Gone'
    BY <2>1 DEF OrderInv, Gone, Parked
  <2> QED
    BY <2>2, <2>3, <2>4, <2>5 DEF OrderInv
<1> QED
  BY <1>1, OrderEntry, OrderGiveBack, OrderTasklet, OrderFlush DEF Next

LEMMA OrderHolds == TypeInv /\ OrderInv => TxInOrder
<1> SUFFICES ASSUME TypeInv, OrderInv, NEW c \in Ctx, pc[c] = "write", NEW f \in Frames,
                    <<f, Head(hold[c])>> \in older, os_qid[f] = os_qid[Head(hold[c])]
             PROVE  FALSE
  BY DEF TxInOrder
<1>1. ListTypes /\ HoldInv /\ CtxOK(c) /\ PlaceInv /\ OlderOK /\ Alone /\ OwnOK(c)
  BY TypesAreTwo DEF TypeInv, HoldInv, OrderInv, OwnInv
<1>2. PICK h \in Frames : h = Head(hold[c]) /\ h = hold[c][1] /\ hold[c] \in Seq(Frames)
  BY <1>1, HasFrame
<1>3. Len(hold[c]) = 1
  BY <1>1 DEF CtxOK
<1>4. f \in InUse /\ f # h /\ os_qid[f] = os_qid[h] /\ <<f, h>> \in older
  BY <1>1, <1>2 DEF OlderOK
<1>5. ~Mine(c, f)
  <2>1. "write" # "wake"
    OBVIOUS
  <2> QED
    BY <1>2, <1>3, <1>4, <2>1, HandsOne DEF Mine
<1>6. ASSUME NEW d \in Ctx, d # c PROVE ~Mine(d, f)
  <2>1. pc[d] = "idle"
    BY <1>1, <1>6 DEF Alone
  <2>2. Len(hold[d]) = 0
    BY <1>1, <2>1 DEF HoldInv, CtxOK
  <2> QED
    BY <2>2, HandsEmpty DEF Mine
<1>7. PICK q \in Queues : Parked(q, f)
  BY <1>1, <1>4, <1>5, <1>6 DEF PlaceInv
<1>8. q = os_qid[h]
  BY <1>1, <1>4, <1>7 DEF PlaceInv
<1>9. CASE c \in Queues
  BY <1>1, <1>2, <1>7, <1>8, <1>9 DEF OwnOK
<1>10. CASE c = "tasklet"
  <2>1. h = hold[c][Len(hold[c])]
    BY <1>2, <1>3, Zenon
  <2> QED
    BY <1>1, <1>4, <1>7, <1>8, <1>10, <2>1 DEF OwnOK
<1>11. CASE c = "flush"
  BY <1>1, <1>11 DEF CtxOK
<1> QED
  BY <1>9, <1>10, <1>11 DEF Ctx

(* On one CPU, frames of a queue reach the bus in the order in which the   *)
(* kernel handed them down: pre_xmitframe never sends a frame before those *)
(* that wait, and the tasklet takes and aggregates them in order.          *)
THEOREM FramesGoInOrder ==
  ASSUME ~SMP
  PROVE  Spec => []TxInOrder
<1>1. TypeInv /\ OrderInv /\ [Next]_vars => TypeInv' /\ OrderInv'
  <2> SUFFICES ASSUME TypeInv, OrderInv, [Next]_vars PROVE TypeInv' /\ OrderInv'
    OBVIOUS
  <2>1. TypeInv' /\ HoldInv'
    BY TypeStep DEF TypeInv
  <2> QED
    BY <2>1, OrderStep
<1>2. Init => TypeInv /\ OrderInv
  BY TypesInit, OrderInit
<1> QED
  BY <1>1, <1>2, OrderHolds, PTL DEF Spec
=============================================================================
