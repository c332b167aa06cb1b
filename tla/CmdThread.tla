------------------------------ MODULE CmdThread ------------------------------
(***************************************************************************)
(* The command queue of core/rtw_cmd.c.                                    *)
(*                                                                         *)
(* Any context may allocate a struct cmd_obj and hand it to                *)
(* rtw_enqueue_cmd; the command thread runs the handlers one at a time.    *)
(* A caller that passes RTW_CMDF_WAIT_ACK puts a struct submit_ctx on its  *)
(* own stack, stores its address in the object and sleeps until the thread *)
(* completes it or two seconds have gone by.  Both sides then have to      *)
(* agree on who still may touch the object and the stack frame.  The       *)
(* interface is brought up and down around all this: rtw_dev_unload stops  *)
(* the thread, which drops what is queued, and _netdev_open starts a new   *)
(* one.                                                                    *)
(***************************************************************************)
EXTENDS Integers, Sequences

CONSTANTS
  Cmds,      \* the command objects; a freed one may be allocated again
  Callers,   \* contexts that issue commands
  Waiters,   \* those of them that pass RTW_CMDF_WAIT_ACK
  NoIo,      \* commands that rtw_cmd_filter lets pass with the chip off
  NoCmd,     \* a model value: no object
  NoCaller,  \* a model value: a NULL sctx
  MaxSema,   \* bound on the count of cmd_queue_sema
  SMP        \* FALSE: rtw_enqueue_cmd, which never sleeps, is not interrupted

ASSUME CmdAssumption ==
  /\ Waiters \subseteq Callers /\ NoIo \subseteq Cmds
  /\ NoCmd \notin Cmds /\ NoCaller \notin Callers
  /\ MaxSema \in Nat \ {0} /\ SMP \in BOOLEAN

VARIABLES
  queue,              \* cmd_queue
  sema,               \* cmd_queue_sema
  cmdthd_running,
  hw_init_completed,
  stopped,            \* RTW_CANNOT_RUN(padapter)
  obj,                \* where each object is: "free", "alloc", "queued", "running"
  sctx,               \* obj->sctx: the caller whose stack it points to
  status, done,       \* submit_ctx of each caller: status and completion
  mutex,              \* holder of sctx_mutex
  tPc, cur, res,      \* the thread, the object it works on and its result
  pc, cmd,            \* the callers and the object each has issued
  ifPc                \* the context that brings the interface up and down

threadVars == <<tPc, cur, res>>
callerVars == <<pc, cmd, status, done>>
ifVars == <<hw_init_completed, stopped, ifPc>>
vars == <<queue, sema, cmdthd_running, obj, sctx, mutex, threadVars, callerVars, ifVars>>

(* The count of the semaphore, which matters only as zero or not.          *)
Up(s) == IF s < MaxSema THEN s + 1 ELSE s

(* On one CPU nothing else runs while a caller is inside rtw_enqueue_cmd.  *)
MayRun(self) == SMP \/ \A p \in Callers \ {self} : pc[p] \notin {"enqueue", "up"}

rtw_cmd_filter(c) == cmdthd_running /\ (hw_init_completed \/ c \in NoIo)

-----------------------------------------------------------------------------
(* The callers.                                                            *)

(* The head of rtw_disassoc_cmd, rtw_stop_ap_cmd and their like: allocate  *)
(* the object and prepare the submit_ctx.                                  *)
rtw_disassoc_cmd(p) ==
  /\ MayRun(p) /\ pc[p] = "idle"
  /\ \E c \in Cmds :
       /\ obj[c] = "free"
       /\ obj' = [obj EXCEPT ![c] = "alloc"]
       /\ cmd' = [cmd EXCEPT ![p] = c]
       /\ sctx' = [sctx EXCEPT ![c] = IF p \in Waiters THEN p ELSE NoCaller]
  /\ status' = [status EXCEPT ![p] = "submitted"]
  /\ done' = [done EXCEPT ![p] = FALSE]
  /\ pc' = [pc EXCEPT ![p] = "filter"]
  /\ UNCHANGED <<queue, sema, cmdthd_running, mutex, threadVars, ifVars>>

(* rtw_enqueue_cmd asks the filter first; a rejected object is freed, ...  *)
rtw_enqueue_cmd(p) ==
  /\ MayRun(p) /\ pc[p] = "filter"
  /\ \/ /\ rtw_cmd_filter(cmd[p])
        /\ pc' = [pc EXCEPT ![p] = "enqueue"]
        /\ UNCHANGED <<obj, sctx>>
     \/ /\ ~rtw_cmd_filter(cmd[p])
        /\ obj' = [obj EXCEPT ![cmd[p]] = "free"]
        /\ sctx' = [sctx EXCEPT ![cmd[p]] = NoCaller]
        /\ pc' = [pc EXCEPT ![p] = "idle"]
  /\ UNCHANGED <<queue, sema, cmdthd_running, mutex, threadVars, cmd, status,
                 done, ifVars>>

(* ... any other is put at the tail of the queue, ...                      *)
_rtw_enqueue_cmd(p) ==
  /\ MayRun(p) /\ pc[p] = "enqueue"
  /\ queue' = Append(queue, cmd[p])
  /\ obj' = [obj EXCEPT ![cmd[p]] = "queued"]
  /\ pc' = [pc EXCEPT ![p] = "up"]
  /\ UNCHANGED <<sema, cmdthd_running, sctx, mutex, threadVars, cmd, status,
                 done, ifVars>>

(* ... and the thread is woken.                                            *)
EnqueueUp(s) == Up(s)

rtw_enqueue_cmd_up(p) ==
  /\ MayRun(p) /\ pc[p] = "up"
  /\ sema' = EnqueueUp(sema)
  /\ pc' = [pc EXCEPT ![p] = IF p \in Waiters THEN "wait" ELSE "idle"]
  /\ UNCHANGED <<queue, cmdthd_running, obj, sctx, mutex, threadVars, cmd, status,
                 done, ifVars>>

(* rtw_sctx_wait returns when the completion is done or after its timeout. *)
rtw_sctx_wait(p) ==
  /\ MayRun(p) /\ pc[p] = "wait" /\ done[p]
  /\ pc' = [pc EXCEPT ![p] = "detach"]
  /\ UNCHANGED <<queue, sema, cmdthd_running, obj, sctx, mutex, threadVars, cmd,
                 status, done, ifVars>>

rtw_sctx_timeout(p) ==
  /\ MayRun(p) /\ pc[p] = "wait" /\ ~done[p]
  /\ pc' = [pc EXCEPT ![p] = "detach"]
  /\ UNCHANGED <<queue, sema, cmdthd_running, obj, sctx, mutex, threadVars, cmd,
                 status, done, ifVars>>

(* The caller looks at its status under the mutex; if the thread has not   *)
(* finished with the object, the object must forget the stack frame that   *)
(* is about to go away.                                                    *)
Detached_Keep(p) == sctx
Detached(p) == IF status[p] = "submitted" THEN [sctx EXCEPT ![cmd[p]] = NoCaller]
                                          ELSE sctx

sctx_detach(p) ==
  /\ MayRun(p) /\ pc[p] = "detach" /\ mutex = "none"
  /\ sctx' = Detached(p)
  /\ pc' = [pc EXCEPT ![p] = "idle"]
  /\ UNCHANGED <<queue, sema, cmdthd_running, obj, mutex, threadVars, cmd, status,
                 done, ifVars>>

-----------------------------------------------------------------------------
(* rtw_cmd_thread.                                                         *)

thread_starts ==
  /\ MayRun(NoCaller) /\ tPc = "start"
  /\ cmdthd_running' = TRUE
  /\ tPc' = "down"
  /\ UNCHANGED <<queue, sema, obj, sctx, mutex, cur, res, callerVars, ifVars>>

(* Sleep on the semaphore; go back to sleep if the queue is empty.         *)
_rtw_down_sema_NoWait ==
  /\ MayRun(NoCaller) /\ tPc = "down"
  /\ sema' = sema - 1
  /\ tPc' = IF stopped THEN "exit" ELSE IF queue = <<>> THEN "down" ELSE "next"
  /\ UNCHANGED <<queue, cmdthd_running, obj, sctx, mutex, cur, res, callerVars,
                 ifVars>>
_rtw_down_sema ==
  /\ MayRun(NoCaller) /\ tPc = "down" /\ sema > 0
  /\ sema' = sema - 1
  /\ tPc' = IF stopped THEN "exit" ELSE IF queue = <<>> THEN "down" ELSE "next"
  /\ UNCHANGED <<queue, cmdthd_running, obj, sctx, mutex, cur, res, callerVars,
                 ifVars>>

(* down_interruptible fails on the SIGTERM that thread_enter allows.       *)
thread_signalled ==
  /\ MayRun(NoCaller) /\ tPc = "down"
  /\ tPc' = "exit"
  /\ UNCHANGED <<queue, sema, cmdthd_running, obj, sctx, mutex, cur, res,
                 callerVars, ifVars>>

Dequeue_Newest == /\ queue' = SubSeq(queue, 1, Len(queue) - 1)
                  /\ cur' = queue[Len(queue)]
                  /\ obj' = [obj EXCEPT ![queue[Len(queue)]] = "running"]
Dequeue == /\ queue' = Tail(queue)
           /\ cur' = Head(queue)
           /\ obj' = [obj EXCEPT ![Head(queue)] = "running"]

(* The label _next: the thread takes commands until the queue is empty,    *)
(* without going back to the semaphore.                                    *)
rtw_dequeue_cmd ==
  /\ MayRun(NoCaller) /\ tPc = "next"
  /\ \/ /\ stopped
        /\ tPc' = "exit"
        /\ UNCHANGED <<queue, obj, cur, res>>
     \/ /\ ~stopped /\ queue = <<>>
        /\ tPc' = "down"
        /\ UNCHANGED <<queue, obj, cur, res>>
     \/ /\ ~stopped /\ queue # <<>>
        /\ Dequeue
        /\ res' = "error"
        /\ tPc' = IF rtw_cmd_filter(Head(queue)) THEN "exec" ELSE "post"
  /\ UNCHANGED <<sema, cmdthd_running, sctx, mutex, callerVars, ifVars>>

cmd_hdl ==
  /\ MayRun(NoCaller) /\ tPc = "exec"
  /\ res' \in {"success", "error"}
  /\ tPc' = "post"
  /\ UNCHANGED <<queue, sema, cmdthd_running, obj, sctx, mutex, cur, callerVars,
                 ifVars>>

(* post_process, for a command that was run and for one that is dropped:   *)
(* under the mutex write the status and complete the waiting caller, ...   *)
SctxStatus_Unset(p) == status
SctxStatus(p) == [status EXCEPT ![p] = res]

rtw_sctx_done_err ==
  /\ MayRun(NoCaller) /\ tPc = "post" /\ mutex = "none"
  /\ \/ /\ sctx[cur] # NoCaller
        /\ mutex' = "thread"
        /\ status' = SctxStatus(sctx[cur])
        /\ done' = [done EXCEPT ![sctx[cur]] = TRUE]
        /\ tPc' = "clear"
     \/ /\ sctx[cur] = NoCaller
        /\ tPc' = "free"
        /\ UNCHANGED <<mutex, status, done>>
  /\ UNCHANGED <<queue, sema, cmdthd_running, obj, sctx, cur, res, pc, cmd, ifVars>>

(* ... clear the pointer and release the mutex, ...                        *)
sctx_clear ==
  /\ MayRun(NoCaller) /\ tPc = "clear"
  /\ sctx' = [sctx EXCEPT ![cur] = NoCaller]
  /\ mutex' = "none"
  /\ tPc' = "free"
  /\ UNCHANGED <<queue, sema, cmdthd_running, obj, cur, res, callerVars, ifVars>>

(* ... and free the object.                                                *)
rtw_free_cmd_obj ==
  /\ MayRun(NoCaller) /\ tPc = "free"
  /\ obj' = [obj EXCEPT ![cur] = "free"]
  /\ cur' = NoCmd
  /\ tPc' = IF cmdthd_running THEN "next" ELSE "drain"
  /\ UNCHANGED <<queue, sema, cmdthd_running, sctx, mutex, res, callerVars, ifVars>>

(* Out of the loop: no more commands are let in, and the queue is emptied. *)
RunningAtExit == FALSE

thread_leaves_loop ==
  /\ MayRun(NoCaller) /\ tPc = "exit"
  /\ cmdthd_running' = RunningAtExit
  /\ tPc' = "drain"
  /\ UNCHANGED <<queue, sema, obj, sctx, mutex, cur, res, callerVars, ifVars>>

thread_drops_cmd ==
  /\ MayRun(NoCaller) /\ tPc = "drain" /\ queue # <<>>
  /\ Dequeue
  /\ res' = "drop"
  /\ tPc' = "post"
  /\ UNCHANGED <<sema, cmdthd_running, sctx, mutex, callerVars, ifVars>>

thread_drained ==
  /\ MayRun(NoCaller) /\ tPc = "drain" /\ queue = <<>>
  /\ tPc' = "wait_stop"
  /\ UNCHANGED <<queue, sema, cmdthd_running, obj, sctx, mutex, cur, res,
                 callerVars, ifVars>>

(* rtw_thread_wait_stop ends once kthread_stop has been called.            *)
rtw_thread_wait_stop ==
  /\ MayRun(NoCaller) /\ tPc = "wait_stop" /\ ifPc = "join"
  /\ tPc' = "none"
  /\ UNCHANGED <<queue, sema, cmdthd_running, obj, sctx, mutex, cur, res,
                 callerVars, ifVars>>

-----------------------------------------------------------------------------
(* The interface.                                                          *)

(* rtw_dev_unload stops the driver; so does a fatal USB error at any time. *)
rtw_set_drv_stopped ==
  /\ ~stopped /\ ifPc \in {"up", "starting"} /\ stopped' = TRUE
  /\ UNCHANGED <<queue, sema, cmdthd_running, obj, sctx, mutex, threadVars,
                 callerVars, hw_init_completed, ifPc>>

StopUp_None(s) == s
StopUp(s) == Up(s)

rtw_stop_cmd_thread ==
  /\ MayRun(NoCaller) /\ ifPc = "up" /\ stopped
  /\ sema' = StopUp(sema)
  /\ ifPc' = "join"
  /\ UNCHANGED <<queue, cmdthd_running, obj, sctx, mutex, threadVars, callerVars,
                 hw_init_completed, stopped>>

(* The rest of rtw_dev_unload, once the thread is gone.                    *)
rtw_dev_unload ==
  /\ MayRun(NoCaller) /\ ifPc = "join" /\ tPc = "none"
  /\ hw_init_completed' = FALSE
  /\ ifPc' = "down"
  /\ UNCHANGED <<queue, sema, cmdthd_running, obj, sctx, mutex, threadVars,
                 callerVars, stopped>>

(* _netdev_open: the chip is initialised, which may fail, and a thread is  *)
(* started.                                                                *)
_netdev_open ==
  /\ MayRun(NoCaller) /\ ifPc = "down"
  /\ stopped' = FALSE
  /\ \/ /\ hw_init_completed' = TRUE
        /\ tPc' = "start" /\ ifPc' = "starting"
     \/ UNCHANGED <<hw_init_completed, tPc, ifPc>>
  /\ UNCHANGED <<queue, sema, cmdthd_running, obj, sctx, mutex, cur, res, callerVars>>

(* rtw_start_drv_threads has seen start_cmdthread_sema.                    *)
rtw_start_drv_threads ==
  /\ MayRun(NoCaller) /\ ifPc = "starting" /\ tPc # "start"
  /\ ifPc' = "up"
  /\ UNCHANGED <<queue, sema, cmdthd_running, obj, sctx, mutex, threadVars,
                 callerVars, hw_init_completed, stopped>>

-----------------------------------------------------------------------------
Init ==
  /\ queue = <<>> /\ sema = 0 /\ cmdthd_running = FALSE
  /\ hw_init_completed = FALSE /\ stopped = TRUE /\ ifPc = "down"
  /\ obj = [c \in Cmds |-> "free"] /\ sctx = [c \in Cmds |-> NoCaller]
  /\ status = [p \in Callers |-> "submitted"] /\ done = [p \in Callers |-> FALSE]
  /\ mutex = "none"
  /\ tPc = "none" /\ cur = NoCmd /\ res = "error"
  /\ pc = [p \in Callers |-> "idle"] /\ cmd = [p \in Callers |-> NoCmd]

Call(p) == rtw_enqueue_cmd(p) \/ _rtw_enqueue_cmd(p) \/ rtw_enqueue_cmd_up(p)
Wait(p) == rtw_sctx_wait(p) \/ rtw_sctx_timeout(p) \/ sctx_detach(p)

Thread ==
  \/ thread_starts \/ _rtw_down_sema \/ rtw_dequeue_cmd \/ cmd_hdl
  \/ rtw_sctx_done_err \/ sctx_clear \/ rtw_free_cmd_obj
  \/ thread_leaves_loop \/ thread_drops_cmd \/ thread_drained \/ rtw_thread_wait_stop

Interface ==
  \/ rtw_set_drv_stopped \/ rtw_stop_cmd_thread \/ rtw_dev_unload
  \/ _netdev_open \/ rtw_start_drv_threads

Next ==
  \/ \E p \in Callers : rtw_disassoc_cmd(p) \/ Call(p) \/ Wait(p)
  \/ Thread \/ thread_signalled
  \/ Interface

Spec == Init /\ [][Next]_vars

(* The scheduler runs every context that can run, the handlers return, and *)
(* rtw_dev_unload goes on once it has begun.                               *)
Fairness ==
  /\ SF_vars(Thread)
  /\ \A p \in Callers : SF_vars(Call(p)) /\ SF_vars(Wait(p))
  /\ SF_vars(rtw_dev_unload)

FairSpec == Spec /\ Fairness

-----------------------------------------------------------------------------
TypeOK ==
  /\ queue \in Seq(Cmds) /\ sema \in 0..MaxSema
  /\ cmdthd_running \in BOOLEAN /\ hw_init_completed \in BOOLEAN
  /\ stopped \in BOOLEAN /\ ifPc \in {"up", "join", "down", "starting"}
  /\ obj \in [Cmds -> {"free", "alloc", "queued", "running"}]
  /\ sctx \in [Cmds -> Callers \cup {NoCaller}]
  /\ status \in [Callers -> {"submitted", "success", "error", "drop"}]
  /\ done \in [Callers -> BOOLEAN] /\ mutex \in {"none", "thread"}
  /\ tPc \in {"none", "start", "down", "next", "exec", "post", "clear", "free",
              "exit", "drain", "wait_stop"}
  /\ cur \in Cmds \cup {NoCmd} /\ res \in {"success", "error", "drop"}
  /\ pc \in [Callers -> {"idle", "filter", "enqueue", "up", "wait", "detach"}]
  /\ cmd \in [Callers -> Cmds \cup {NoCmd}]

(* An object never points to the stack frame of a caller that has          *)
(* returned: rtw_sctx_done_err only ever writes to a live submit_ctx,      *)
(* however late the command is run after its caller's timeout.             *)
SctxIsLive ==
  \A c \in Cmds :
    sctx[c] # NoCaller => pc[sctx[c]] # "idle" /\ cmd[sctx[c]] = c

(* A caller that finds its status still "submitted" under the mutex writes *)
(* to its own object, never to one the thread has freed or that another    *)
(* caller has allocated since.                                             *)
DetachIsSafe ==
  \A p \in Callers :
    pc[p] = "detach" /\ mutex = "none" /\ status[p] = "submitted" =>
      obj[cmd[p]] # "free" /\ sctx[cmd[p]] = p

(* No wake-up is lost: the thread never sleeps on cmd_queue_sema while a   *)
(* command is queued, except in the moment before the caller's up.         *)
NoLostWakeup ==
  tPc = "down" /\ queue # <<>> => sema > 0 \/ \E p \in Callers : pc[p] = "up"

(* rtw_dev_unload warns if cmdthd_running is still set once                *)
(* rtw_stop_drv_threads has returned; it never does.                       *)
StoppedMeansNotRunning ==
  ifPc = "down" => ~cmdthd_running

(* What a user of the queue sees of all this.                              *)
Answer(p) ==
  IF p \notin Waiters \/ pc[p] \notin {"up", "wait", "detach"} THEN "none"
  ELSE IF status[p] = "submitted" THEN "waiting" ELSE status[p]

Service == INSTANCE CmdService WITH
  running <- IF tPc \in {"exec", "post"} THEN cur ELSE NoCmd,
  issued <- [p \in Callers |-> IF Answer(p) = "none" THEN NoCmd ELSE cmd[p]],
  answer <- [p \in Callers |-> Answer(p)]

(* The command thread implements the service: commands are taken in order  *)
(* and one at a time, and a caller of RTW_CMDF_WAIT_ACK that is completed  *)
(* has the result of its own command, never of another one that was given  *)
(* the same object since.                                                  *)
ServiceIsKept == Service!Spec

(* Every queued command is run or dropped; in particular nothing is left   *)
(* behind when the thread stops, which is what cmdthd_running is cleared   *)
(* for ("to avoid enqueue cmd after free all cmd_obj").  And               *)
(* rtw_stop_cmd_thread returns: the thread is always woken by it and never *)
(* waits for a caller that waits for it.                                   *)
NoWaitForEver ==
  /\ Service!EveryCommandEnds
  /\ ifPc = "join" ~> ifPc = "down"
=============================================================================
