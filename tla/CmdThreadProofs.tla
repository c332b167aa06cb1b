-------------------------- MODULE CmdThreadProofs --------------------------
(***************************************************************************)
(* Theorems about the command queue, for every number of objects and       *)
(* callers and with all contexts in parallel.                              *)
(***************************************************************************)
EXTENDS CmdThread, TLAPS

(* Who owns an object.  A caller owns the object it has not queued yet,    *)
(* and no two callers have the same.                                       *)
Building(p) == pc[p] \in {"filter", "enqueue"}

CallersOwn ==
  /\ \A p \in Callers : Building(p) =>
       /\ cmd[p] \in Cmds /\ obj[cmd[p]] = "alloc"
       /\ sctx[cmd[p]] = IF p \in Waiters THEN p ELSE NoCaller
       /\ status[p] = "submitted"
  /\ \A p, q \in Callers : Building(p) /\ Building(q) /\ cmd[p] = cmd[q] => p = q
  /\ \A p \in Callers : pc[p] \in {"wait", "detach"} => p \in Waiters

(* The queue and the thread own the others.                                *)
QueueOwns ==
  /\ \A i \in 1..Len(queue) : obj[queue[i]] = "queued"
  /\ \A i, j \in 1..Len(queue) : queue[i] = queue[j] => i = j

ThreadOwns ==
  /\ tPc \in {"exec", "post", "clear", "free"} => cur \in Cmds
  /\ cur \in Cmds => obj[cur] = "running"
  /\ mutex = "thread" <=> tPc = "clear"
  /\ tPc = "clear" => sctx[cur] # NoCaller /\ status[sctx[cur]] # "submitted"
  /\ tPc = "free" => sctx[cur] = NoCaller

(* The pointer of an object and the caller it points to agree, until the   *)
(* thread has written the status or the caller has taken the pointer away. *)
PointersAgree ==
  /\ \A c \in Cmds : sctx[c] # NoCaller =>
       /\ sctx[c] \in Waiters /\ pc[sctx[c]] # "idle" /\ cmd[sctx[c]] = c
       /\ obj[c] # "free"
       /\ status[sctx[c]] = "submitted" \/ (tPc = "clear" /\ cur = c)
  /\ \A p \in Waiters : pc[p] \in {"up", "wait", "detach"} /\ status[p] = "submitted" =>
       cmd[p] \in Cmds /\ sctx[cmd[p]] = p

OwnInv == CallersOwn /\ QueueOwns /\ ThreadOwns /\ PointersAgree

(* A command is queued while the thread sleeps, or does not run, only with *)
(* the semaphore up or about to be.                                        *)
SemaInv ==
  tPc \in {"none", "start", "wait_stop", "down"} /\ queue # <<>> =>
    sema > 0 \/ \E p \in Callers : pc[p] = "up"

(* cmdthd_running is set in the loop only.                                 *)
RunningInv ==
  /\ cmdthd_running => tPc \notin {"none", "start", "drain", "wait_stop"}
  /\ ifPc = "down" => tPc = "none"

-----------------------------------------------------------------------------
(* The parts of type correctness.                                          *)
FlagsOK ==
  /\ cmdthd_running \in BOOLEAN /\ hw_init_completed \in BOOLEAN /\ stopped \in BOOLEAN
  /\ done \in [Callers -> BOOLEAN]

ControlOK ==
  /\ ifPc \in {"up", "join", "down", "starting"} /\ mutex \in {"none", "thread"}
  /\ tPc \in {"none", "start", "down", "next", "exec", "post", "clear", "free",
              "exit", "drain", "wait_stop"}
  /\ res \in {"success", "error", "drop"}
  /\ pc \in [Callers -> {"idle", "filter", "enqueue", "up", "wait", "detach"}]

DataOK ==
  /\ queue \in Seq(Cmds) /\ sema \in 0..MaxSema
  /\ obj \in [Cmds -> {"free", "alloc", "queued", "running"}]
  /\ sctx \in [Cmds -> Callers \cup {NoCaller}]
  /\ status \in [Callers -> {"submitted", "success", "error", "drop"}]
  /\ cur \in Cmds \cup {NoCmd} /\ cmd \in [Callers -> Cmds \cup {NoCmd}]

LEMMA TypeParts == TypeOK <=> FlagsOK /\ ControlOK /\ DataOK
BY DEF TypeOK, FlagsOK, ControlOK, DataOK

LEMMA ControlInit == Init => FlagsOK /\ ControlOK
<1>1. Init => FlagsOK
  <2>1. [p \in Callers |-> FALSE] \in [Callers -> BOOLEAN]
    OBVIOUS
  <2> QED
    BY Zenon, <2>1 DEF Init, FlagsOK
<1>2. Init => ControlOK
  BY DEF Init, ControlOK
<1> QED
  BY <1>1, <1>2

LEMMA FlagsStep == FlagsOK /\ [Next]_vars => FlagsOK'
BY Zenon DEF FlagsOK, Next, Call, Wait, Thread, Interface, vars, threadVars, callerVars, ifVars,
       rtw_disassoc_cmd, rtw_enqueue_cmd, _rtw_enqueue_cmd, rtw_enqueue_cmd_up, rtw_sctx_wait,
       rtw_sctx_timeout, sctx_detach, thread_starts, _rtw_down_sema, thread_signalled,
       rtw_dequeue_cmd, cmd_hdl, rtw_sctx_done_err, sctx_clear, rtw_free_cmd_obj,
       thread_leaves_loop, RunningAtExit, thread_drops_cmd, thread_drained,
       rtw_thread_wait_stop, rtw_set_drv_stopped, rtw_stop_cmd_thread, rtw_dev_unload,
       _netdev_open, rtw_start_drv_threads

LEMMA ControlStep == ControlOK /\ [Next]_vars => ControlOK'
BY DEF ControlOK, Next, Call, Wait, Thread, Interface, vars, threadVars, callerVars, ifVars,
       rtw_disassoc_cmd, rtw_enqueue_cmd, _rtw_enqueue_cmd, rtw_enqueue_cmd_up, rtw_sctx_wait,
       rtw_sctx_timeout, sctx_detach, thread_starts, _rtw_down_sema, thread_signalled,
       rtw_dequeue_cmd, cmd_hdl, rtw_sctx_done_err, sctx_clear, rtw_free_cmd_obj,
       thread_leaves_loop, thread_drops_cmd, thread_drained,
       rtw_thread_wait_stop, rtw_set_drv_stopped, rtw_stop_cmd_thread, rtw_dev_unload,
       _netdev_open, rtw_start_drv_threads

LEMMA RunningAlways == Spec => [](FlagsOK /\ ControlOK /\ RunningInv)
<1>1. Init => RunningInv
  BY DEF Init, RunningInv
<1>2. FlagsOK /\ ControlOK /\ RunningInv /\ [Next]_vars => RunningInv'
  <2> SUFFICES ASSUME FlagsOK, ControlOK, RunningInv, [Next]_vars PROVE RunningInv'
    OBVIOUS
  <2> USE DEF RunningInv
  <2>1. ASSUME NEW p \in Callers, rtw_disassoc_cmd(p) \/ Call(p) \/ Wait(p) PROVE RunningInv'
    <3>1. UNCHANGED <<cmdthd_running, tPc, ifPc>>
      BY <2>1 DEF Call, Wait, rtw_disassoc_cmd, rtw_enqueue_cmd, _rtw_enqueue_cmd,
           rtw_enqueue_cmd_up, rtw_sctx_wait, rtw_sctx_timeout, sctx_detach, threadVars, ifVars
    <3> QED
      BY <3>1
  <2>2. CASE Thread \/ thread_signalled
    <3>1. ifPc' = ifPc /\ tPc # "none"
      BY <2>2 DEF Thread, thread_signalled, thread_starts, _rtw_down_sema, rtw_dequeue_cmd,
           cmd_hdl, rtw_sctx_done_err, sctx_clear, rtw_free_cmd_obj, thread_leaves_loop,
           thread_drops_cmd, thread_drained, rtw_thread_wait_stop, ifVars
    <3>2. cmdthd_running' => tPc' \notin {"none", "start", "drain", "wait_stop"}
      BY <2>2 DEF FlagsOK, Thread, thread_signalled, thread_starts, _rtw_down_sema,
           rtw_dequeue_cmd, cmd_hdl, rtw_sctx_done_err, sctx_clear, rtw_free_cmd_obj,
           thread_leaves_loop, RunningAtExit, thread_drops_cmd, thread_drained,
           rtw_thread_wait_stop
    <3> QED
      BY <3>1, <3>2
  <2>3. CASE Interface \/ UNCHANGED vars
    <3>1. /\ cmdthd_running' = cmdthd_running
          /\ \/ tPc' = tPc /\ (ifPc' = "down" => ifPc = "down" \/ tPc = "none")
             \/ tPc = "none" /\ tPc' = "start" /\ ifPc' = "starting"
      BY <2>3 DEF Interface, rtw_set_drv_stopped, rtw_stop_cmd_thread, rtw_dev_unload,
           _netdev_open, rtw_start_drv_threads, vars, threadVars, ifVars
    <3> QED
      BY <3>1
  <2> QED
    BY <2>1, <2>2, <2>3 DEF Next
<1>3. Init => FlagsOK /\ ControlOK
  BY ControlInit
<1> QED
  BY <1>1, <1>2, <1>3, FlagsStep, ControlStep, PTL DEF Spec

LEMMA DataStep == ControlOK /\ DataOK /\ OwnInv /\ [Next]_vars => DataOK'
<1> SUFFICES ASSUME ControlOK, DataOK, OwnInv, [Next]_vars PROVE DataOK'
  OBVIOUS
<1> USE DEF DataOK
<1>1. ASSUME NEW p \in Callers, rtw_disassoc_cmd(p) PROVE DataOK'
  BY <1>1, CmdAssumption DEF rtw_disassoc_cmd, threadVars
<1>2. ASSUME NEW p \in Callers, Call(p) PROVE DataOK'
  <2>1. CASE rtw_enqueue_cmd(p)
    BY <2>1 DEF rtw_enqueue_cmd, threadVars
  <2>2. CASE _rtw_enqueue_cmd(p)
    <3>1. cmd[p] \in Cmds
      BY <2>2 DEF _rtw_enqueue_cmd, OwnInv, CallersOwn, Building
    <3> QED
      BY <2>2, <3>1 DEF _rtw_enqueue_cmd, threadVars
  <2>3. CASE rtw_enqueue_cmd_up(p)
    BY <2>3, CmdAssumption DEF rtw_enqueue_cmd_up, EnqueueUp, Up, threadVars
  <2> QED
    BY <1>2, <2>1, <2>2, <2>3 DEF Call
<1>3. ASSUME NEW p \in Callers, Wait(p) PROVE DataOK'
  BY <1>3 DEF Wait, rtw_sctx_wait, rtw_sctx_timeout, sctx_detach, Detached, threadVars
<1>4. CASE Thread
  <2>1. CASE thread_starts \/ cmd_hdl \/ thread_leaves_loop \/ thread_drained
             \/ rtw_thread_wait_stop
    BY <2>1 DEF thread_starts, cmd_hdl, thread_leaves_loop, thread_drained,
         rtw_thread_wait_stop, callerVars
  <2>2. CASE _rtw_down_sema
    BY <2>2, CmdAssumption DEF _rtw_down_sema, callerVars
  <2>3. CASE rtw_dequeue_cmd \/ thread_drops_cmd
    <3>1. queue # <<>> => Head(queue) \in Cmds /\ Tail(queue) \in Seq(Cmds)
      OBVIOUS
    <3> QED
      BY <2>3, <3>1 DEF rtw_dequeue_cmd, thread_drops_cmd, Dequeue, callerVars
  <2>4. CASE rtw_sctx_done_err
    BY <2>4 DEF rtw_sctx_done_err, SctxStatus, ControlOK
  <2>5. CASE sctx_clear \/ rtw_free_cmd_obj
    BY <2>5 DEF sctx_clear, rtw_free_cmd_obj, callerVars
  <2> QED
    BY <1>4, <2>1, <2>2, <2>3, <2>4, <2>5 DEF Thread
<1>5. CASE Interface \/ thread_signalled \/ UNCHANGED vars
  BY <1>5, CmdAssumption DEF Interface, rtw_set_drv_stopped, rtw_stop_cmd_thread, StopUp, Up,
       rtw_dev_unload, _netdev_open, rtw_start_drv_threads, thread_signalled, vars,
       threadVars, callerVars
<1> QED
  BY <1>1, <1>2, <1>3, <1>4, <1>5 DEF Next

-----------------------------------------------------------------------------
(* Ownership is kept by every step.                                        *)
LEMMA OwnStep == TypeOK /\ RunningInv /\ OwnInv /\ [Next]_vars => OwnInv'
<1> SUFFICES ASSUME TypeOK, RunningInv, OwnInv, [Next]_vars PROVE OwnInv'
  OBVIOUS
<1>t. ControlOK /\ DataOK
  BY TypeParts
<1> USE <1>t, CmdAssumption
    DEF OwnInv, CallersOwn, Building, QueueOwns, ThreadOwns, PointersAgree, ControlOK, DataOK
<1>1. ASSUME NEW p \in Callers, rtw_disassoc_cmd(p) PROVE OwnInv'
  <2> PICK c \in Cmds : /\ obj[c] = "free"
                        /\ obj' = [obj EXCEPT ![c] = "alloc"]
                        /\ cmd' = [cmd EXCEPT ![p] = c]
                        /\ sctx' = [sctx EXCEPT ![c] = IF p \in Waiters THEN p ELSE NoCaller]
    BY <1>1 DEF rtw_disassoc_cmd
  <2>1. CallersOwn'
    BY <1>1 DEF rtw_disassoc_cmd, threadVars
  <2>2. QueueOwns' /\ ThreadOwns'
    BY <1>1 DEF rtw_disassoc_cmd, threadVars
  <2>3. PointersAgree'
    BY <1>1 DEF rtw_disassoc_cmd, threadVars
  <2> QED
    BY <2>1, <2>2, <2>3
<1>2. ASSUME NEW p \in Callers, rtw_enqueue_cmd(p) PROVE OwnInv'
  <2>1. CallersOwn'
    BY <1>2 DEF rtw_enqueue_cmd, threadVars
  <2>2. QueueOwns' /\ ThreadOwns'
    BY <1>2 DEF rtw_enqueue_cmd, threadVars
  <2>3. PointersAgree'
    BY <1>2 DEF rtw_enqueue_cmd, threadVars
  <2> QED
    BY <2>1, <2>2, <2>3
<1>3. ASSUME NEW p \in Callers, _rtw_enqueue_cmd(p) PROVE OwnInv'
  <2>1. CallersOwn' /\ ThreadOwns'
    BY <1>3 DEF _rtw_enqueue_cmd, threadVars
  <2>2. QueueOwns'
    BY <1>3 DEF _rtw_enqueue_cmd, threadVars
  <2>3. PointersAgree'
    BY <1>3 DEF _rtw_enqueue_cmd, threadVars
  <2> QED
    BY <2>1, <2>2, <2>3
<1>4. ASSUME NEW p \in Callers,
             rtw_enqueue_cmd_up(p) \/ rtw_sctx_wait(p) \/ rtw_sctx_timeout(p)
      PROVE OwnInv'
  <2>1. /\ UNCHANGED <<queue, obj, sctx, mutex, tPc, cur, cmd, status>>
        /\ pc' = [pc EXCEPT ![p] = pc'[p]]
        /\ pc[p] \in {"up", "wait"}
        /\ pc'[p] \in {"idle", "wait", "detach"} /\ (pc'[p] = "idle" <=> p \notin Waiters)
    BY <1>4 DEF rtw_enqueue_cmd_up, rtw_sctx_wait, rtw_sctx_timeout, threadVars
  <2>2. CallersOwn'
    BY <2>1
  <2>3. QueueOwns' /\ ThreadOwns'
    BY <2>1
  <2>4. PointersAgree'
    BY <2>1
  <2> QED
    BY <2>2, <2>3, <2>4
<1>5. ASSUME NEW p \in Callers, sctx_detach(p) PROVE OwnInv'
  <2>1. CallersOwn'
    BY <1>5 DEF sctx_detach, Detached, threadVars
  <2>2. QueueOwns' /\ ThreadOwns'
    BY <1>5 DEF sctx_detach, Detached, threadVars
  <2>3. PointersAgree'
    BY <1>5 DEF sctx_detach, Detached, threadVars
  <2> QED
    BY <2>1, <2>2, <2>3
<1>6. CASE thread_starts \/ _rtw_down_sema \/ thread_signalled \/ cmd_hdl
           \/ thread_leaves_loop \/ thread_drained \/ rtw_thread_wait_stop
  BY <1>6 DEF thread_starts, _rtw_down_sema, thread_signalled, cmd_hdl, thread_leaves_loop,
       thread_drained, rtw_thread_wait_stop, callerVars
<1>7. CASE rtw_dequeue_cmd \/ thread_drops_cmd
  <2>1. CASE UNCHANGED <<queue, obj, cur>>
    BY <1>7, <2>1 DEF rtw_dequeue_cmd, thread_drops_cmd, Dequeue, callerVars
  <2>2. CASE queue # <<>> /\ Dequeue
    <3>1. /\ Head(queue) \in Cmds /\ obj[Head(queue)] = "queued"
          /\ tPc' \in {"exec", "post"} /\ UNCHANGED <<sctx, mutex, pc, cmd, status>>
          /\ mutex # "thread"
      BY <1>7, <2>2 DEF rtw_dequeue_cmd, thread_drops_cmd, Dequeue, callerVars
    <3>2. QueueOwns'
      BY <2>2, <3>1 DEF Dequeue
    <3>3. CallersOwn' /\ ThreadOwns' /\ PointersAgree'
      BY <2>2, <3>1 DEF Dequeue
    <3> QED
      BY <3>2, <3>3
  <2> QED
    BY <1>7, <2>1, <2>2 DEF rtw_dequeue_cmd, thread_drops_cmd
<1>8. CASE rtw_sctx_done_err
  <2>1. CallersOwn' /\ QueueOwns'
    BY <1>8 DEF rtw_sctx_done_err, SctxStatus
  <2>2. ThreadOwns'
    BY <1>8 DEF rtw_sctx_done_err, SctxStatus
  <2>3. PointersAgree'
    BY <1>8 DEF rtw_sctx_done_err, SctxStatus
  <2> QED
    BY <2>1, <2>2, <2>3
<1>9. CASE sctx_clear
  BY <1>9 DEF sctx_clear, callerVars
<1>10. CASE rtw_free_cmd_obj
  BY <1>10 DEF rtw_free_cmd_obj, callerVars
<1>11. CASE Interface \/ UNCHANGED vars
  <2>1. UNCHANGED <<queue, obj, sctx, mutex, cur, pc, cmd, status>>
    BY <1>11 DEF Interface, rtw_set_drv_stopped, rtw_stop_cmd_thread, rtw_dev_unload,
         _netdev_open, rtw_start_drv_threads, vars, threadVars, callerVars
  <2>2. tPc' = tPc \/ (tPc = "none" /\ tPc' = "start")
    BY <1>11 DEF RunningInv, Interface, rtw_set_drv_stopped, rtw_stop_cmd_thread,
         rtw_dev_unload, _netdev_open, rtw_start_drv_threads, vars, threadVars
  <2>3. CallersOwn' /\ QueueOwns' /\ PointersAgree'
    BY <2>1, <2>2
  <2>4. ThreadOwns'
    BY <2>1, <2>2
  <2> QED
    BY <2>3, <2>4
<1> QED
  BY <1>1, <1>2, <1>3, <1>4, <1>5, <1>6, <1>7, <1>8, <1>9, <1>10, <1>11
     DEF Next, Call, Wait, Thread

(* The inductive invariant: every object has one owner, and pointers to    *)
(* stacks are valid.                                                       *)
THEOREM Ownership == Spec => [](TypeOK /\ OwnInv)
<1>1. Init => FlagsOK /\ ControlOK /\ DataOK
  <2>1. Init => DataOK
    BY CmdAssumption DEF Init, DataOK
  <2> QED
    BY <2>1, ControlInit
<1>2. Init => OwnInv
  BY CmdAssumption DEF Init, OwnInv, CallersOwn, Building, QueueOwns, ThreadOwns, PointersAgree
<1>3. RunningInv /\ TypeOK /\ OwnInv /\ [Next]_vars => (TypeOK /\ OwnInv)'
  <2> SUFFICES ASSUME RunningInv, TypeOK, OwnInv, [Next]_vars PROVE TypeOK' /\ OwnInv'
    OBVIOUS
  <2>1. FlagsOK' /\ ControlOK' /\ DataOK'
    BY TypeParts, FlagsStep, ControlStep, DataStep
  <2>2. TypeOK'
    BY <2>1 DEF TypeOK, FlagsOK, ControlOK, DataOK
  <2> QED
    BY <2>2, OwnStep
<1> QED
  BY <1>1, <1>2, <1>3, TypeParts, RunningAlways, PTL DEF Spec

(* Type correctness of the command queue.                                  *)
THEOREM CmdTypeCorrect == Spec => []TypeOK
BY Ownership, PTL

(* rtw_sctx_done_err never writes to the stack of a caller that has        *)
(* returned.                                                               *)
THEOREM NoDanglingSctx == Spec => []SctxIsLive
<1>1. TypeOK /\ OwnInv => SctxIsLive
  BY DEF TypeOK, OwnInv, PointersAgree, SctxIsLive
<1> QED
  BY <1>1, Ownership, PTL

(* A caller that gives up on a command never writes to an object that was  *)
(* freed or belongs to somebody else.                                      *)
THEOREM DetachIsAlwaysSafe == Spec => []DetachIsSafe
<1>1. TypeOK /\ OwnInv => DetachIsSafe
  BY CmdAssumption DEF TypeOK, OwnInv, CallersOwn, PointersAgree, DetachIsSafe
<1> QED
  BY <1>1, Ownership, PTL

-----------------------------------------------------------------------------
(* The thread never sleeps over a queued command whose caller has returned *)
(* from rtw_enqueue_cmd, across stops and starts of the thread.            *)
THEOREM WakeupsAreKept == Spec => []NoLostWakeup
<1>1. Init => SemaInv
  BY DEF Init, SemaInv
<1>2. TypeOK /\ RunningInv /\ SemaInv /\ [Next]_vars => SemaInv'
  <2> SUFFICES ASSUME TypeOK, RunningInv, SemaInv, [Next]_vars PROVE SemaInv'
    OBVIOUS
  <2>t. ControlOK /\ queue \in Seq(Cmds) /\ sema \in 0..MaxSema
    BY TypeParts DEF DataOK
  <2> USE <2>t, CmdAssumption DEF SemaInv, ControlOK
  <2>1. ASSUME NEW p \in Callers, _rtw_enqueue_cmd(p) PROVE SemaInv'
    <3>1. pc'[p] = "up"
      BY <2>1 DEF _rtw_enqueue_cmd
    <3> QED
      BY <3>1
  <2>2. ASSUME NEW p \in Callers, rtw_enqueue_cmd_up(p) PROVE SemaInv'
    <3>1. sema' > 0
      BY <2>2 DEF rtw_enqueue_cmd_up, EnqueueUp, Up
    <3> QED
      BY <3>1
  <2>3. ASSUME NEW p \in Callers,
               rtw_disassoc_cmd(p) \/ rtw_enqueue_cmd(p) \/ Wait(p)
        PROVE SemaInv'
    <3>1. UNCHANGED <<queue, sema, tPc>>
      BY <2>3 DEF rtw_disassoc_cmd, rtw_enqueue_cmd, Wait, rtw_sctx_wait, rtw_sctx_timeout,
           sctx_detach, threadVars
    <3>2. \A q \in Callers : pc[q] = "up" => pc'[q] = "up"
      BY <2>3 DEF rtw_disassoc_cmd, rtw_enqueue_cmd, Wait, rtw_sctx_wait, rtw_sctx_timeout,
           sctx_detach
    <3> QED
      BY <3>1, <3>2
  <2>4. CASE Thread \/ thread_signalled
    BY <2>4 DEF Thread, thread_signalled, thread_starts, _rtw_down_sema, rtw_dequeue_cmd,
         cmd_hdl, rtw_sctx_done_err, sctx_clear, rtw_free_cmd_obj, thread_leaves_loop,
         thread_drops_cmd, thread_drained, rtw_thread_wait_stop, callerVars
  <2>5. CASE Interface
    <3>1. UNCHANGED <<queue, pc>> /\ (tPc' = tPc \/ tPc = "none")
      BY <2>5 DEF RunningInv, Interface, rtw_set_drv_stopped, rtw_stop_cmd_thread,
           rtw_dev_unload, _netdev_open, rtw_start_drv_threads, threadVars, callerVars
    <3>2. sema > 0 => sema' > 0
      BY <2>5 DEF Interface, rtw_set_drv_stopped, rtw_stop_cmd_thread, StopUp, Up,
           rtw_dev_unload, _netdev_open, rtw_start_drv_threads
    <3> QED
      BY <3>1, <3>2
  <2>6. CASE UNCHANGED vars
    BY <2>6 DEF vars, threadVars, callerVars
  <2> QED
    BY <2>1, <2>2, <2>3, <2>4, <2>5, <2>6 DEF Next, Call
<1>3. SemaInv => NoLostWakeup
  BY DEF SemaInv, NoLostWakeup
<1> QED
  BY <1>1, <1>2, <1>3, CmdTypeCorrect, RunningAlways, PTL DEF Spec

(* rtw_dev_unload never finds cmdthd_running set once the thread is gone.  *)
THEOREM ThreadEndsStopped == Spec => []StoppedMeansNotRunning
<1>1. RunningInv => StoppedMeansNotRunning
  BY DEF RunningInv, StoppedMeansNotRunning
<1> QED
  BY <1>1, RunningAlways, PTL

-----------------------------------------------------------------------------
(* The refinement.  Most steps are not seen by the users of the queue.     *)
Hidden == UNCHANGED <<queue, pc, cmd, status>>

LEMMA HiddenStutters ==
  ASSUME Hidden,
         \/ tPc' = tPc /\ cur' = cur
         \/ tPc \notin {"exec", "post"} /\ tPc' \notin {"exec", "post"}
         \/ tPc = "exec" /\ tPc' = "post" /\ cur' = cur
  PROVE  UNCHANGED Service!vars
BY DEF Hidden, Service!vars, Answer

(* A caller moves between two places that look the same from outside.      *)
LEMMA CallerStutters ==
  ASSUME TypeOK, NEW p \in Callers, pc' = [pc EXCEPT ![p] = pc'[p]],
         UNCHANGED <<queue, tPc, cur>>,
         Answer(p) = "none", Answer(p)' = "none",
         \A q \in Callers \ {p} : cmd'[q] = cmd[q] /\ status'[q] = status[q]
  PROVE  UNCHANGED Service!vars
<1>1. \A q \in Callers : Answer(q)' = Answer(q)
  BY DEF Answer, TypeOK
<1>2. \A q \in Callers : Answer(q) # "none" => cmd'[q] = cmd[q]
  OBVIOUS
<1> QED
  BY <1>1, <1>2 DEF Service!vars

(* Every step of the command thread and of its callers is a step of the    *)
(* service or none.                                                        *)
LEMMA ServiceStep ==
  TypeOK /\ RunningInv /\ OwnInv /\ [Next]_vars => [Service!Next]_(Service!vars)
<1> SUFFICES ASSUME TypeOK, RunningInv, OwnInv, [Next]_vars
             PROVE  Service!Next \/ UNCHANGED Service!vars
  OBVIOUS
<1>t. ControlOK /\ DataOK
  BY TypeParts
<1> USE <1>t, CmdAssumption DEF ControlOK, DataOK
<1>1. ASSUME NEW p \in Callers, rtw_disassoc_cmd(p) PROVE UNCHANGED Service!vars
  <2>1. Answer(p) = "none" /\ Answer(p)' = "none"
    BY <1>1 DEF rtw_disassoc_cmd, Answer
  <2> QED
    BY <1>1, <2>1, CallerStutters DEF rtw_disassoc_cmd, threadVars
<1>2. ASSUME NEW p \in Callers, rtw_enqueue_cmd(p) PROVE UNCHANGED Service!vars
  <2>1. Answer(p) = "none" /\ Answer(p)' = "none"
    BY <1>2 DEF rtw_enqueue_cmd, Answer
  <2> QED
    BY <1>2, <2>1, CallerStutters DEF rtw_enqueue_cmd, threadVars
<1>3. ASSUME NEW p \in Callers, _rtw_enqueue_cmd(p) PROVE Service!Next
  <2>1. cmd[p] \in Cmds /\ obj[cmd[p]] = "alloc" /\ status[p] = "submitted"
    BY <1>3 DEF _rtw_enqueue_cmd, OwnInv, CallersOwn, Building
  <2>2. Answer(p) = "none" /\ Answer(p)' = IF p \in Waiters THEN "waiting" ELSE "none"
    BY <1>3, <2>1 DEF _rtw_enqueue_cmd, Answer
  <2>3. \A q \in Callers \ {p} : Answer(q)' = Answer(q)
    BY <1>3 DEF _rtw_enqueue_cmd, Answer
  <2>4. cmd[p] # (IF tPc \in {"exec", "post"} THEN cur ELSE NoCmd)
    BY <2>1 DEF OwnInv, ThreadOwns
  <2>5. \A i \in DOMAIN queue : queue[i] # cmd[p]
    BY <2>1 DEF OwnInv, QueueOwns
  <2>6. UNCHANGED <<tPc, cur, cmd>> /\ queue' = Append(queue, cmd[p])
    BY <1>3 DEF _rtw_enqueue_cmd, threadVars
  <2>7. [q \in Callers |-> Answer(q)]' =
          IF p \in Waiters THEN [[q \in Callers |-> Answer(q)] EXCEPT ![p] = "waiting"]
          ELSE [q \in Callers |-> Answer(q)]
    BY <2>2, <2>3
  <2>8. [q \in Callers |-> IF Answer(q) = "none" THEN NoCmd ELSE cmd[q]]' =
          IF p \in Waiters
          THEN [[q \in Callers |-> IF Answer(q) = "none" THEN NoCmd ELSE cmd[q]]
                  EXCEPT ![p] = cmd[p]]
          ELSE [q \in Callers |-> IF Answer(q) = "none" THEN NoCmd ELSE cmd[q]]
    BY <2>2, <2>3, <2>6
  <2>9. PICK c \in Cmds : c = cmd[p]
    BY <2>1
  <2>10. Service!Submit(p, c)
    BY <2>2, <2>4, <2>5, <2>6, <2>7, <2>8, <2>9 DEF Service!Submit
  <2> QED
    BY <2>10 DEF Service!Next
<1>4. ASSUME NEW p \in Callers, rtw_enqueue_cmd_up(p) \/ rtw_sctx_wait(p) \/ rtw_sctx_timeout(p)
      PROVE UNCHANGED Service!vars
  <2>1. \A q \in Callers : Answer(q)' = Answer(q)
    BY <1>4 DEF rtw_enqueue_cmd_up, rtw_sctx_wait, rtw_sctx_timeout, Answer
  <2> QED
    BY <1>4, <2>1 DEF rtw_enqueue_cmd_up, rtw_sctx_wait, rtw_sctx_timeout, threadVars, Service!vars
<1>5. ASSUME NEW p \in Callers, sctx_detach(p) PROVE Service!Next
  <2>1. p \in Waiters
    BY <1>5 DEF sctx_detach, OwnInv, CallersOwn
  <2>2. Answer(p) # "none" /\ Answer(p)' = "none"
    BY <1>5, <2>1 DEF sctx_detach, Answer
  <2>3. \A q \in Callers \ {p} : Answer(q)' = Answer(q)
    BY <1>5 DEF sctx_detach, Answer
  <2>4. Service!Return(p)
    BY <1>5, <2>2, <2>3 DEF sctx_detach, threadVars, Service!Return
  <2> QED
    BY <2>4 DEF Service!Next
<1>6. CASE Thread \/ thread_signalled
  <2>1. CASE thread_starts \/ _rtw_down_sema \/ thread_signalled \/ cmd_hdl \/ sctx_clear
             \/ rtw_free_cmd_obj \/ thread_leaves_loop \/ thread_drained
             \/ rtw_thread_wait_stop
    BY <2>1, HiddenStutters DEF thread_starts, _rtw_down_sema, thread_signalled, cmd_hdl,
         sctx_clear, rtw_free_cmd_obj, thread_leaves_loop, thread_drained, rtw_thread_wait_stop,
         callerVars, Hidden
  <2>2. CASE rtw_dequeue_cmd \/ thread_drops_cmd
    <3>1. CASE UNCHANGED <<queue, cur>>
      BY <2>2, <3>1, HiddenStutters DEF rtw_dequeue_cmd, thread_drops_cmd, callerVars, Hidden, Dequeue
    <3>2. CASE ~UNCHANGED <<queue, cur>>
      <4>1. /\ tPc \notin {"exec", "post"} /\ tPc' \in {"exec", "post"}
            /\ UNCHANGED <<pc, cmd, status>>
            /\ queue # <<>> /\ Dequeue
        BY <2>2, <3>2 DEF rtw_dequeue_cmd, thread_drops_cmd, callerVars
      <4>2. \A p \in Callers : Answer(p)' = Answer(p)
        BY <4>1 DEF Answer
      <4>3. Service!Start
        BY <4>1, <4>2 DEF Dequeue, Service!Start
      <4> QED
        BY <4>3 DEF Service!Next
    <3> QED
      BY <3>1, <3>2
  <2>3. CASE rtw_sctx_done_err
    <3>1. /\ tPc = "post" /\ tPc' \notin {"exec", "post"} /\ cur \in Cmds
          /\ UNCHANGED <<queue, pc, cmd, cur>>
      BY <2>3 DEF rtw_sctx_done_err, OwnInv, ThreadOwns
    <3>2. \A p \in Callers : Answer(p) = "waiting" /\ cmd[p] = cur <=>
            Answer(p) # "none" /\ sctx[cur] = p
      BY <3>1 DEF Answer, OwnInv, PointersAgree
    <3>3. ASSUME NEW p \in Callers
          PROVE  Answer(p)' = IF Answer(p) = "waiting" /\ cmd[p] = cur THEN res ELSE Answer(p)
      BY <2>3, <3>1, <3>2 DEF rtw_sctx_done_err, SctxStatus, Answer
    <3>4. Service!Finish(res)
      BY <3>1, <3>3 DEF Service!Finish
    <3> QED
      BY <3>4 DEF Service!Next, Service!Results
  <2> QED
    BY <1>6, <2>1, <2>2, <2>3 DEF Thread
<1>7. CASE Interface \/ UNCHANGED vars
  <2>1. Hidden /\ cur' = cur /\ (tPc' = tPc \/ (tPc = "none" /\ tPc' = "start"))
    BY <1>7 DEF RunningInv, Interface, rtw_set_drv_stopped, rtw_stop_cmd_thread, rtw_dev_unload,
         _netdev_open, rtw_start_drv_threads, vars, threadVars, callerVars, Hidden
  <2> QED
    BY <2>1, HiddenStutters
<1> QED
  BY <1>1, <1>2, <1>3, <1>4, <1>5, <1>6, <1>7 DEF Next, Call, Wait

(* The command queue implements the service its users rely on, for every   *)
(* number of callers and objects.                                          *)
THEOREM ServiceRefined == Spec => ServiceIsKept
<1>1. Init => Service!Init
  BY CmdAssumption DEF Init, Service!Init, Answer
<1> QED
  BY <1>1, ServiceStep, Ownership, RunningAlways, PTL DEF Spec, ServiceIsKept, Service!Spec
=============================================================================
