# A TLA+ model of the RTL8188FU driver

This project models the concurrent core of the Realtek RTL8188FU USB Wi-Fi
driver (v5.15.3, the Hikvision camera build in this repository): TLA+ modules
translated from the C source, TLC configurations that check them on small
instances, and TLAPS proofs for every value of the constants.
`PROJECT.json` maps each definition to the lines it models, lists the runs,
a mutant for every property, the hazards, the findings and the theorems.

The code is taken as this repository configures it: USB, access point and P2P
on, 802.11k/r/w, `CONFIG_XMIT_ACK`, `CONFIG_RTW_MGMT_QUEUE`, cfg80211 with
wext; concurrent interfaces, power saving, BT coexistence, TDLS, mesh, MCC,
MP, WAPI, VHT and 5 GHz off. Code under a switch that is off is not part of
any model.

## 1. The system

### Contexts

The driver has no single main loop. Its code runs in

* the **command thread** (`rtw_cmd_thread`): everything that sleeps or talks
  to the chip for long, one command at a time, and the events that the MLME
  sends to itself;
* **tasklets and timers** (softirq): the receive and the transmit tasklet, the
  reordering timer of each stream, the join, scan and link timers;
* **URB completions** (hard or soft interrupt, depending on the host driver);
* **processes**: cfg80211 and wext requests, `ndo_start_xmit`, open and close,
  the USB disconnect.

The module this repository reproduces was built for kernel 4.9.129 `mod_unload
ARMv7 p2v8`, without SMP and PREEMPT: processes and the command thread
interleave only where one sleeps or is interrupted, and a softirq is not
interrupted by another softirq. The source itself takes locks for the general
case. Modules in which it matters have a constant `SMP`: FALSE gives the
kernel the driver ships for, TRUE lets every context interleave with every
other. The ownership and wake-up theorems hold for both.

### Components

| component | state | operations | what makes it correct |
|---|---|---|---|
| Receive reordering (`rtw_recv.c`, `rtw_wlan_util.c`) | `recv_reorder_ctrl` of a TID: window start, parked frames, timer, `enable`; the duplicate cache | a frame arrives, the loop that indicates, a block ack request, the timeout, ADDBA/DELBA, join, free | frames go up in order and once; nothing stays parked; a freed station is quiet |
| Command queue (`rtw_cmd.c`) | queue, semaphore, `cmdthd_running`; objects with a pointer to the stack of a waiting caller | enqueue, dequeue, run, complete, time out, detach, stop, start | no write to a returned stack frame or freed object; no lost wake-up; every command ends |
| Data transmit (`rtw_xmit.c`, `rtl8188fu_xmit.c`, `xmit_linux.c`) | pools of frames and buffers, `sta_pending` per category, netif queues, URBs | entry, direct path, tasklet, completion, scan and join phases, flush | order per category, conservation of buffers, a stopped queue is woken |
| AP power save (`rtw_xmit.c`, `rtw_recv.c`, `rtw_ap.c`, `rtw_cmd.c`) | sleep queues, lengths, TIM and dozing bitmaps, beacon, hi queue | doze, wake, PS-Poll, trigger, park, release, beacon command, expiry, removal | what is parked is announced; nothing is parked for an awake station; order |
| Acknowledged management frames (`rtw_mlme_ext.c`, `usb_ops_linux.c`, `rtl8188f_hal_init.c`) | extension buffers with a pointer to a waiter, URBs, `ack_tx_ops`, reports | dump and wait, submit, complete, report, time out, unload | the pointer is live; success means acknowledged; calls return |
| MLME (`rtw_mlme.c`, `rtw_mlme_ext.c`, `rtw_ioctl_set.c`, `ioctl_cfg80211.c`) | `fw_state`, join and scan timers, retries, the scanned queue | scan, join, authenticate, associate, roam, disconnect, and their timeouts | a request gets one answer; flags do not outlive their operation |
| AP stations and the station table (`rtw_sta_mgt.c`, `rtw_ap.c`, `rtw_mlme_ext.c`) | slots, free pool, hash table, `auth_list`, `asoc_list`, association identifiers | authenticate, associate, age, keep alive, kick, flush, the event that frees | identifiers and stations match; no station is forgotten; a silent one leaves |
| Receive security and defragmentation | packet numbers, fragment queue | check, collect, time out | no replay, no mixed fragments |
| Remain on channel (`rtw_roch.c`, `ioctl_cfg80211.c`) | cookie, timer, channels of the request, the radio and the link | request, cancel, expire, send a frame off the channel, against joins | each request is ended by its own end; the radio returns to the link |
| Radio measurement (`rtw_rm_fsm.c`) | measurement objects, clocks, event queue | post, run, expire | an object is freed once and not used after |
| Register I/O (`rtw_io.c`) | continual error counter | read, write, retry | a device that is gone stops the driver |

Calls between them: processes and the MLME enqueue commands; command handlers
send management frames and wait for their acknowledgement (`AckTx`); scan and
join phases hold the data queues back and reschedule them (`TxData`); the
receive path wakes and polls stations (`ApPs`) and feeds the reordering
(`RxReorder`); removing a station touches all of its queues; stopping the
driver has to get everybody out of every wait. The complete list, with the
parts left out, is under "components" of `PROJECT.json`.

### What is hard here

Hazards are listed in `PROJECT.json` at their lines. They fall into these
groups: timeouts that race the answer they wait for with a pointer to a stack
frame in between (`CmdThread`, `AckTx`); a flag, a timer and a queue that must
agree although they change under different locks (`RxReorder`, `ApPs`, `Mlme`);
wake-ups that must not be lost (`CmdThread`, `TxData`); lists and queues that
name a station which may be gone or be another one when they are used (`ApSta`); order that must survive
frames taking different paths (`RxReorder`, `TxData`, `ApPs`); pools that must
come back to their size after every failure (`TxData`, `AckTx`, `ApPs`); and
the removal of a station or of the whole interface under everything else.

## 2. The modules

Definitions carry the names of the functions they model. A definition named
`X_Something` directly before `X` is a variant of `X` with a plausible bug
that the mutants of `PROJECT.json` put in its place.

### RxReorder

One TID of one peer. Frames are natural numbers, their age; the sequence number
on the air is the number modulo `SN` (4096 in the driver), so that "in order"
can be stated without the wrap that the code has to cope with. `MayArrive`
admits losses, duplicates, retransmissions and reordering within `MaxGap` of
the newest number, which is what a peer that respects the window may send.
`recv_decache` is the duplicate cache; `check_indicate_seq`,
`enqueue_reorder_recvframe` and one turn of `recv_indicatepkts_in_order` are
operators and an action of their own; `lock` is the lock of the pending queue,
held from the first to the last turn of that loop. The tasklet (`rxPc`), the
timer handler (`tmrPc`) and the process (`cmdPc`) are sequences of steps split
where the code drops a lock. `add_ba_rsp_hdl` with the acknowledgement of its
response, the DELBA of `OnAction_back`, `rtw_joinbss_update_stainfo`,
`rtw_free_stainfo`, `rtw_alloc_stainfo` and stopping the driver are the
process actions. `hi`, `base`, `last` and `ordered` are history variables.

A block ack request (`rtw_process_bar_frame`) stores the start it carries in
`indicate_seq`, without the lock, the `enable` flag or a comparison with the
window it finds. `init_hw_mlme_ext` lets these frames through the receive
filter (`HW_VAR_ENABLE_RX_BAR`); in AP mode `hw_var_set_opmode` sets the filter
to PS-Polls only. `RxBar` says which of the two it is. `MayBeRequested` admits
the starts a peer sends: up to one past the newest frame it may have sent, when
it gives up frames that never arrived, and back to a window before its oldest
outstanding frame, for requests that are late or repeated after a lost answer.

`ordered` says that since the window was last restarted every frame went
through it and no request moved it back. The order properties are claimed for
that time, because after a request that moves the window back they are false:
a repeated frame goes up again (section 4), and parked frames lie beyond the end
of the window until the timer takes them. What holds in any case is part of the
same properties: the parked frames are sorted, and there are at most `WSize` of
them.

### CmdThread

Command objects (reused after they are freed), callers with and without
`RTW_CMDF_WAIT_ACK`, the thread, and the context that opens and closes the
interface. `sctx[c]` is the pointer to the stack of a caller; `SctxIsLive` and
`DetachIsSafe` say that neither side follows a stale one. The count of
the semaphore saturates at `MaxSema`: the code tests it only for zero, and a
saturated count errs on the side of a wake-up missed.
`rtw_disassoc_cmd` stands for the many functions of `rtw_cmd.c` with the same
protocol of allocate, enqueue, wait and detach. The early return of `rtw_cmd_filter` for the
command that leaves inactive power save is left out: this build does not enter that state.

**CmdService** is what the users of the queue rely on, without semaphore, mutex,
stack frames and the life of the thread: a queue, the running command, and for
each waiting caller the command it issued and the answer it was given.
`CmdThread` implements it (`ServiceIsKept`) under the mapping at the end of that
module: a command is running from when the thread takes it until its caller has been told,
and the answer of a waiting caller is the status of its `submit_ctx` for as long as
it is on its stack. A result that reached another caller, through an object reused
meanwhile, would be a step that `CmdService` does not have.

### TxData

Frames, `NBuf` buffers and one kernel queue per category. The kernel's thread of
each queue runs `rtw_alloc_xmitframe`, the stop check and `pre_xmitframe`, which
writes directly or enqueues; the tasklet dequeues and coalesces; URB completions free
the buffer and schedule it again. `blocked` is `rtw_xmit_ac_blocked` (off-channel scanning),
`linking` a join under way, and `resched` the pending end events whose handler
calls `rtw_os_xmit_schedule`. `older` is a history variable: the pairs of frames in use of which
the first was given by the kernel before the second.
`StopLevel` stands for the four free frames at which the driver stops a queue.
A frame of the kernel is one frame of the driver: a broadcast that `rtw_xmit` sends as several unicasts,
and the frames it keeps in `rpkt_queue` while it roams, are left out.

### ApPs

An access point with associated, authenticated and leaving stations. Each
station has its pending and sleep queues of data, numbers of management frames
in theirs, the unsigned lengths the code keeps (wrapping at `LenMod`), and its bits in the two
bitmaps. `rx` is a PS-Poll in the middle of its handler, where the code drops the
lock. Group frames, the hi queue and `rtw_chk_hi_queue_hdl` with its
check and clear in two steps are there as well. `bcnTim` is the beacon in memory,
`airTim` the transmitted one, and `cmds` the commands that update it.
`Filter` picks the frames of some categories out of a queue in their order, by position, as the
loops over the lists do; `age` remembers in which order the frames came.
A station declares its delivery-enabled categories when it associates
(`Profiles`). Excluded: a re-association that declares others while frames are parked,
frames from a station between `ap_free_sta` and `rtw_free_stainfo`,
data from a station that is only authenticated, and failing command
allocations.

### ApSta

The slots of the station pool from the first authentication frame until they are
free again. `db` is a record of the table: the stations, the hash table, the free pool, the
two lists, `sta_aid` and the queue of events. The handlers of the receive tasklet
(`OnAuth`, `OnAssocReq`, `OnDeAuth`, `OnDisassoc`, the SA Query) are one
step each; `expire_timeout_chk` and `rtw_sta_flush`, which collect stations under a lock and
deal with them after its release, are a step per station; events may fail to be
allocated. Time is the tick of `rtw_dynamic_check_timer`. `db.lost` holds the stations that were
taken off their list and then not reported because the event could not be
allocated: the code has no second way to free them. `db.corrupt` is set
where a slot is given back twice or handed out while a list still holds it, and the model
stops there: nothing is known of a broken list. Left out: shared-key authentication,
what stations negotiate, the counters of `bss_cap_update`.

### RemainOnChannel

`roch_info`, the radio's channel and the channel of the link, the timer, the command
queue and one cfg80211 operation at a time (remain on channel, its cancellation, a
management frame) with its wait of ten seconds. A wait may end too early and a command may not be
queued; the history variable `trouble` records it, and the two properties of requests
are claimed without it. The thread's handlers are split where they leave
`roch_info` half changed (`ro_ch_wdev_cleared`, `mgmt_tx_exit`). Joins, the end of
the handshake and disconnects move the link underneath.

### AckTx

Processes in `dump_mgntframe_and_wait` (a `submit_ctx` on the stack, reachable
through the buffer) and in `dump_mgntframe_and_wait_ack` (the one `ack_tx_ops`,
under a mutex) share the extension buffers. Frames may be parked for a dozing
station; URBs are submitted, fail, complete or are cancelled; the chip sends
the frame, the peer acknowledges it or not, and a report is queued or lost.
Sequence numbers wrap at `SeqMod`. `LateReports` says whether a report may
arrive after its wait timed out.

### Mlme

A station that scans, connects, roams and is disconnected. `drv` is a record of
the fields of `mlme_priv`, `mlme_ext_priv` and `rtw_wdev_priv` that the four
actors share: a process in a cfg80211 operation (one at a time, under the
RTNL), the command thread with the queue in front of it, the four timers
(`assoc_timer`, `link_timer`, `scan_to_timer`, `survey_timer`), and the receive
tasklet. The functions that the code calls under `pmlmepriv->lock` are
operators on that record and keep their names; those whose outcome depends on
the scanned networks or the traffic give a set of records. A process is a step
at a time between its waits (200 ms for the scan, 300 ms for the join, both may
run out), and the callbacks for the end of a scan and for a lost station are
split where they release the lock. `leaving` is a history variable for
`DisconnectSticks`.
Excluded: SAE with external authentication (and its branch of the link timer), the
states of a scan that goes back to the operating channel in between (`SCAN_BACK_OP`), WPS, fast transition and active
roaming (`roam_flags` of this build do not have it), ad hoc mode, allocation
failures, the 2000 ms waits for a command running out (`CmdThread` has them),
removal of the driver, handlers that overlap on several CPUs. The join event
itself only programs the chip.
`DisconnectSticks` is claimed for a call during which no wait ran out and no
AP was lost: otherwise the code does join again. A lost AP's event sets
`to_roam` after `cfg80211_rtw_disconnect` set it to 0.

## 3. Runs

| run | instance | what it shows |
|---|---|---|
| `rx_window` | 4 frames crossing the wrap of a 16-number space, window 3, block ack requests, one CPU, fair | order and a sorted queue, window, timer and quiet-station invariants; every parked frame leaves |
| `rx_bypass` | 5 frames, without block ack requests | **violation**: after a DELBA parked frames lie below the window start, contrary to the comment |
| `cmd_queue` | 2 objects, a waiting and a non-waiting caller, one CPU, fair | stack pointers and objects are safe; the queue implements `CmdService`; commands end, stopping returns |
| `tx_order` | 2 frames, 2 categories, 1 buffer, one CPU, fair | order per category, buffers conserved; queued frames leave, stopped queues wake |
| `ap_sleep` | 1 station with one or all categories delivery-enabled, 2 frames, 1 extension buffer, a group frame | announced and on the air, nothing parked when awake, exact lengths, order |
| `ap_group` | 2 stations, one never associated | **violation**: removing it clears the TIM bit of parked group frames |
| `ap_sta` | 2 slots, 2 addresses, 2 identifiers, 1 association allowed, 4 frames, 1 cfg80211 call, fair | identifiers and stations match, no station is forgotten, a silent station leaves |
| `ack_waits` | 1 waiter, 1 acker, 2 buffers, no late report, fair | live pointers, buffers in one place, honest success, calls return |
| `ack_late` | 2 ackers, late reports | **violation**: the late report answers for the next frame |
| `mlme_join` | 2 tries of a roam, 1 repetition of a frame, scans of 1 channel, all four operations | joins, scans, scan requests and waiting joins have what ends them armed or queued; connected means associated; a disconnect sticks |
| `mlme_live` | 1 try of a roam, no repetition, connecting and scanning, fair | calls return, scan requests are answered, joins end, waiting joins are started or given up |
| `roch` | 2 requests, 2 other calls, 1 join, 2 channels, fair | the radio is back on the link, a timer ends its own request, requests end |

*Bounds.* The state that matters in these protocols is the disagreement of two
parties, so two parties and one object more than the pool holds show every
case: two objects let a freed one be allocated by the other caller while the
first still has its address; one buffer makes the second frame wait, and two
frames are the pool, so that it also stops its queue; two slots and two addresses let a slot
return as another station, and one association allowed makes the limit bite; two requests let the timer of the first meet the second; four frames and a window of three park, fill and
overflow it; sixteen sequence numbers are more than twice window plus gap, so
that the half-space comparison of `SN_LESS` is unambiguous as it is with 4096. The model values are in
no symmetry set, because most runs check liveness. Bounds are the constants
`MaxSeq` (frames of a stream), `MaxSema`, `MaxCmds` (`ApPs` takes no
input while so many commands are queued; a beacon command reads the bitmap when
it runs, so a longer queue repeats the same update), `MaxBmc`, `SeqMod`, `MaxFrames`, `MaxCalls`, `MaxCookie`, `MaxJoin` (what stations and users do), `MaxQueue` (`Mlme` starts no call while so many commands
wait and takes no frame while more do; timers and the thread itself are not bounded) and the sizes of the sets.
Two tries of a roam are the registry's default, and the least with which a
join that timed out is tried again; `mlme_live` has one, which lets the station roam but not try again.
`ap_sta` and `roch` may stop (`CHECK_DEADLOCK FALSE`): the inputs are bounded, and `ApSta` ends where a list is broken.

*Fairness.* Contexts that have started go on: the kernel does not abandon
softirqs or runnable threads. Strong fairness stands where the kernel serves a
context even though others keep disabling it for a moment: the reordering timer
(`TIMER_SOFTIRQ` is served in every pass), the command thread and processes of `CmdThread` and `AckTx`,
the mutex (queued in order), and in `TxData` the ends of scans and joins, which the
driver's own timers bound, and the start of the tasklet between them. In `Mlme`, `RemainOnChannel` and `ApSta` weak fairness of the timers, the thread and
the started calls is enough. URBs end because the driver submits
them to a bus that completes or cancels each of them. Nothing is assumed of the peer, of the
user or of the network stack, with two exceptions. In `ack_waits` a parked
frame is released some time (the station wakes up, or it expires and is
freed, and both give the buffer back). In `rx_window` block ack requests that move the
window back do not go on for ever (`LateRequestsEnd`), because a peer tries a frame and its
request a limited number of times: with a request and a retransmission of one old frame before
every timeout, each timeout would hand up that frame and never the newer ones behind it.
On several CPUs `QueuedFramesLeave` fails for the one CPU argument it rests on,
and only the safety properties of `TxData` are of interest.

## 4. Findings

* `ack_late`: the comparison of the report's sequence number is commented out
  in `CCX_FwC2HTxRpt_8188f`; a report that comes after its wait timed out is
  taken for the acknowledgement of the next frame, and a process reports as
  acknowledged what was not.
* `rx_bypass`: a DELBA leaves parked frames where they are, and later ones pass
  them.
* `ap_group`: `rtw_free_stainfo` clears the bits of `aid`, which is 0, the
  group bit, for a station that has not associated.

`rtw_process_bar_frame` takes the start of every block ack request as it is
(`core/rtw_wlan_util.c:3835`). This is in the model, and no comment or test says otherwise of it, so it is no
run of its own. If `ordered` stayed TRUE at such a request, TLC would find `InOrder` violated in 14 states, for example so: a frame goes up; an older one
arrives late and is dropped, but `recv_decache` now remembers its number; a request that asks for the
first frame again moves the window back to it; its retransmission passes `recv_decache` and
`check_indicate_seq` and goes up a second time.

Met on the way and not kept as runs, because they need several CPUs or because
the code says nothing they contradict: a frame parked by a tasklet that
still holds a station which is being freed (SMP); a command accepted before and queued
after the thread drained the queue (SMP); the error branch of the PS-Poll handler resetting a
length that has changed since (SMP); a rescan for a roam without candidate,
which `rtw_surveydone_event_callback` never starts, because it asks for
permission with `WIFI_UNDER_LINKING` set (`rtw_mlme.c:2061`); a connect during a
roam's join, which succeeds and does nothing (`rtw_ioctl_set.c:422`); a PS-Poll that takes a delivery-enabled frame and leaves
`sleepq_ac_len` as it was; released management frames of a station that is removed, which are freed
with the function for data frames and leave their extension buffers behind (`rtw_sta_mgt.c:752`); a
`connect_req` set after its join has ended, which nobody answers (`ioctl_cfg80211.c:4710`).

In the station table: `expire_timeout_chk` frees stations by slot
number after it released the lock, so a frame handled in between makes it free a slot twice or
free a station that has just associated (`rtw_ap.c:498`); `EVT_DEL_STA` carries an address, and if the station is
back before the thread gets to it, the new association is freed (`rtw_mlme.c:3452`); with
`rr_aid` set through proc the search for an identifier no longer enforces `max_num_sta`.

In remain on channel: `ro_ch_wdev` is cleared after `is_ro_ch`
(`rtw_roch.c:220`, `224`), so a request made in between loses it; a management frame sent while the link
goes away takes the radio back to the channel it remembered (`ioctl_cfg80211.c:8285`).

## 5. Proofs

All proofs are checked by TLAPS with Z3, Zenon and LS4.

**RxReorderProofs.** `TypeCorrect`, for every `SN`, window and gap that the
assumptions admit. `ParkedFramesHaveTimer` (SMP and not): `PendingHasTimer` is
not inductive, because a frame is parked long before the timer is armed. `TimerInv` adds who
holds the lock, that a context about to cancel the timer has left the queue
empty, and that `bReorderWaiting` implies an armed timer or a handler at the
lock. `FreedStationIsQuiet` (one CPU only, and false otherwise): `QuietInv` adds
that a station with a frame in the tasklet is still hashed, and that after the
cancelling step no timer is armed.
`FramesStayInOrder` and `WindowIsKept` (one CPU) rest on lemmas about numbers modulo `SN`
(`DiffMod`, `LessIsOlder`, `ShiftIsMod`): `SN_LESS` compares ages, and `ShiftTo` is a subtraction,
for frames less than half a space apart. `SortInv` says that they are: no parked frame is further
than that behind the newest one. `WindowInv` names the frame at the start of the window, of all with that
number the newest possible one, below which, while the window is in
order, lies everything handed up and within `WSize` of which lies everything parked. Bypassing
frames, timeouts and block ack requests move the window, also backwards, which is why it also says that
between two loops the parked frames span less than a window: a timeout or a new agreement then may
restart it anywhere among them. Within a loop of the tasklet the new frame may be further from the
oldest ones, but then the window has moved for it and they are due (the second part of `StartsAt`),
so that the span is back when the loop ends; it does not depend on `ordered`, and bounds the queue in any case.

**CmdThreadProofs.** `Ownership` is the inductive invariant behind `SctxIsLive`
and `DetachIsSafe`: every object is with exactly one of the free pool, one
caller before it enqueues, the queue (once) or the thread, and pointer and
caller agree as long as the caller waits. From it `CmdTypeCorrect`,
`NoDanglingSctx` and `DetachIsAlwaysSafe`. `WakeupsAreKept` needs `SemaInv`:
a queued command has either been counted, or its caller is about to raise the
semaphore, or the thread is on its way to look. `ThreadEndsStopped` needs
`RunningInv` on the order of the thread's last steps and the join. `ServiceRefined`
shows the refinement: `Ownership` says that the object the thread holds is in no queue and belongs to the caller that
issued it, `RunningInv` where in its loop the thread may hold one; every step then is `Submit`,
`Start`, `Finish`, `Return` or leaves the abstract variables alone (`HiddenStutters`, `CallerStutters`). All of these
hold with `SMP` TRUE or FALSE and any number of objects and callers.

**AckTxProofs.** `NoDanglingWait`: `SctxIsLive` with the type of the pointers
is inductive; the step that matters is that a process enters
`dump_mgntframe_and_wait` with a buffer it has just taken, and removes itself
from the same buffer last. `AckTxTypes` adds the rest of the types. `BufsAreKept`: `PlaceInv` is
`BufsInOnePlace` without cardinalities, on the list once, held by one process,
in an URB or parked, and the paths of a failed, killed or flushed write each move a buffer from
one place to another. `SuccessIsOfOwnFrame` holds without `LateReports` (with them `ack_late`
refutes it): `AckInv` says that there is one frame with a request for a report at most, in a buffer, on
the air or in a report, that it belongs to the process with the mutex, and that a wait
completed with success means that this one was acknowledged.

**TxDataProofs.** `TxDataTypes` and `NoBufferLost`, with all contexts in parallel: `CtxOK` says
at which step a context has how many frames in its hands and whether it has a buffer, so that every
error path gives back what it took and no more. `FramesGoInOrder` (one CPU): `OrderInv` says that one
context runs at a time, that a frame in use is either in the queue of its category or in the hands of a context,
that the queues are sorted by age, and that a frame about to be written without waiting
finds nothing of its category queued.

**RemainOnChannelProofs.** `RochTypes`, `RadioComesBack` and `TimerIsOfItsRequest`, for any
number of channels, requests, frames and joins. `RadioInv` makes `BackOnLink` inductive: the radio is elsewhere only during a request or
between the two halves of a frame, and the thread knows the link's channel while there is one. The
command of a timer does not name its request, so `OwnInv` has to say where such a command can stand:
alone, about the request that goes on, never before or behind a new request, and with the timer cancelled before a
cancellation is queued, as long as no wait ended early (`trouble`).

**MlmeProofs.** `MlmeTypes` and `JoinsAreWatched`, for every number of tries,
repetitions and channels and any length of the queue. `LinkingIsWatched` with the types is
inductive; the work is in following the flag and the timer through the
functions under the lock, each with a lemma: telling of a disconnect clears the flag,
starting a join sets the timer after it, a failed join clears the flag and sets the timer to 1 ms.
The one place where the flag is set first is the end of a scan without a
candidate, and there the proof needs that the rescan is denied.
`ScansAreWatched`, `ConnectionsAreReal` and `DisconnectsLast` share one inductive invariant, `Sound`,
because each needs the others' view of the queue. `ScanInv` is stronger than `ScanIsWatched`: the chain of commands of a scan alone keeps it
alive, the scan's timer is not needed. `QueueInv` says what stands behind what: a join
that replaces an association behind the disconnect, and each of the two commands of a
disconnecting process only while it waits for it. `ConnInv` adds that a connected station has no tries of a
roam left. `LeaveInv` follows an undisturbed disconnect: joins started before it are queued before its first command, events of the network it
leaves before its second, so that both have been dealt with when it returns.

**ApPsProofs.** For any number of stations, frames and buffers. `LitBitsReachAir`, on one CPU and on several: `TimReachesAir` is not
inductive, because a bit that is lit and on the air may leave the element in memory, and the
next beacon would drop it. `TimInv` says that the element always has every lit bit of a station, and
that what is not on the air has a beacon command queued.
`PowerSaveTypes`, on one CPU and on several. That the counters of management frames stay within the pool
is a fact about all stations together, which `BufInv` states without a sum: some
assignment of the buffers to "free", "parked for s" and "released to s" has as many of each kind as
the counters say. Buffers that `rtw_free_stainfo` loses belong to nobody.
`DataInv` does the same for the data frames: those queued for a station are different frames in use, and no two stations share one, so that
a queue is never longer than the pool and the lengths never wrap by themselves.
`NothingLeftBehind`, `TimTellsTheTruth` and `FramesKeepOrder` hold on one CPU. With `SMP` TRUE TLC refutes the three
invariants within a few thousand states: the PS-Poll handler resets lengths after the unlock, by what it saw before.
`OneCpuInv` is their inductive invariant. `StaInv` says that the lengths are those of the lists, that nothing is parked for a station that has just come or counts
as awake, that whoever is asleep has its bit of `sta_dz_bitmap`, so that `rtw_xmit` parks and never overtakes, and
that the TIM bit is lit while something waits that the station has to ask for. `RxInv` says that an interrupted PS-Poll
which found nothing still finds nothing when it goes on. `OrdInv` is the order of a station's
released and parked frames in the order of `rtw_xmit`, category by category; `stop_sta_xmit` keeps it because, by `StaInv`, nothing was parked when it
takes the released frames back. The lemmas on `Filter` (`FilterRange`, `FilterInjective`, `FilterSplit`, `FilterBefore`, `FilterSorted`)
and `ConcatSorted` carry the argument through triggers, PS-Polls, completions and removals.

**ApStaProofs.** `ApStaTypes`, `AidsAreKept` and `StationsAreKept`, for any number of slots,
addresses and identifiers and any limits. The inductive invariant `Inv` adds to them what
the functions rely on without saying so: an address is in the hash table once (otherwise freeing by address
frees another station's identifier), a slot of the free pool is there once and not in the
hash table as long as no list is broken, and without `rr_aid` only identifiers up to `max_num_sta` are
ever handed out, which is why counting up to the first free one is enough. Each function
that changes the table has a lemma (`FreeGood`, `AllocGood`, `AidAllocGood`,
`AssociatedGood`, ...) and each context one that puts them together.

Assumptions are those of the modules (`CmdAssumption` and its like): sets of
model values are disjoint, bounds are positive, the space is larger than twice
the window plus the gap and at least four windows. TLC evaluates them on every run.

**Only model-checked**: everything temporal beyond invariants and the refinement (liveness under
fairness is outside of TLAPS as installed). Every invariant of a passing run is stated by a theorem.
`InOrder`, `WindowHolds`, `FreedIsQuiet`, `TxInOrder`, `AwakeHoldsNothing`, `ParkedIsAnnounced` and `UnicastInOrder` are
proved for one CPU, as the driver is built here; `SuccessMeansAcked` without late reports.

## 6. Plan

1. `Rm`, the radio measurement state machine. Questions the module has to decide, from reading
   `rtw_rm_fsm.c`: `rm_alloc_clock` gives the last clock again when all are taken, so that
   two measurements share it and the check for NULL never fires; a channel load or noise request for
   a channel other than the current one gets neither a clock nor an event and never ends;
   `rm_handler` returns at the first event without an object and leaves the others queued; two requests with one
   identifier, of which the second gets no events; the requesting side, whose idle state goes on past
   `rm_state_goto(WAIT_MEAS)` to `DO_MEAS` or to a delay clock that `WAIT_MEAS` ignores; a cancel for a station that is freed, handled
   when the station is gone.
2. Receive: defragmentation and the order of its checks.
3. A stream that delivers a growing subsequence of what was sent, as an abstract specification
   that `RxReorder` implements.
4. `ApSta` composed with `ApPs`: one removal of a station that acts on both the table and the
   queues, which each module now takes for granted of the other.

## 7. What is not modelled

`phydm` and `halrf` (numerical calibration of a radio, a quarter of the source),
register sequences of the HAL, ciphers, efuse and regulatory tables, frame and
element formats, debug and proc interfaces, and the code that this
configuration does not compile (`CONFIG_POWER_SAVING=n` leaves only flags of the power
control). Shared-key WEP, SAE, WPS, fast transition and the P2P negotiation are handled in user space or exchange
elements without further state. The build scripts and the documents about the
reconstruction of the module have no run-time behaviour. These make up most of the
repository's lines; the share of lines mapped here is small for that reason, while
the code with concurrency of its own is what sections 1 and 6 list.

Some hazards of `PROJECT.json` have no property: the U-APSD counter that a PS-Poll leaves
alone, the TIM bit of management frames of an all-U-APSD station, the extension buffers of released
management frames when their station goes, a `connect_req` set after its answer, and the two
ways to a station freed twice or still on a list. Each has a note that says what the code does
and why nothing is stated about it.
