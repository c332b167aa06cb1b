--------------------------- MODULE RemainOnChannel ---------------------------
(***************************************************************************)
(* Off-channel work for user space: remain on channel, its cancellation    *)
(* and management frames (core/rtw_roch.c and the cfg80211 operations in   *)
(* os_dep/linux/ioctl_cfg80211.c), on a chip with one radio that also has  *)
(* a link to keep.                                                         *)
(*                                                                         *)
(* Three contexts share struct roch_info.  The cfg80211 operations, which  *)
(* the kernel runs one at a time, fill it without a lock, queue a command  *)
(* and wait for it, for ten seconds at most.  The command thread moves the *)
(* radio and ends a request.  The timer of a request queues the command    *)
(* that ends it.                                                           *)
(***************************************************************************)
EXTENDS Integers, Sequences

CONSTANTS
  Op,         \* the channel of the access point that is joined
  Others,     \* other channels
  MaxCookie,  \* bound: remain-on-channel requests
  MaxCalls,   \* bound: cancellations and management frames
  MaxJoin     \* bound: joins

Channels == {Op} \cup Others
None == 0      \* no channel, no cookie

ASSUME RochAssumption ==
  /\ None \notin Channels /\ Op \notin Others
  /\ MaxCookie \in Nat /\ MaxCalls \in Nat /\ MaxJoin \in Nat

VARIABLES
  is_ro_ch,             \* a request is going on
  ro_ch_wdev,           \* prochinfo->ro_ch_wdev is not NULL
  remain_on_ch_cookie, remain_on_ch_channel, restore_channel,
  ro_ch_cookie_gen,     \* the cookie given last
  timer,                \* remain_on_ch_timer: None, or the cookie it was armed for
  listen_channel,       \* wdinfo.listen_channel
  oper_ch,              \* the channel of the radio
  union_ch,             \* rtw_mi_get_union_chan: of the link, or of the last one
  offch,                \* offch_state is not OFFCHS_NONE: data is blocked
  link,                 \* "none", "linking", "handshake", "linked"
  cmds,                 \* commands queued for the command thread
  cpc, cur,             \* the command thread: inside a handler, its command
  upc, ucookie, uch,    \* the operation that user space called, its arguments
  acked,                \* the command the operation waits for has been handled
  calls, joins,           \* what the bounds count
  trouble               \* history: a wait ended too early or a command was not queued

reqVars == <<is_ro_ch, ro_ch_wdev, remain_on_ch_cookie, remain_on_ch_channel, restore_channel>>
radioVars == <<oper_ch, union_ch, offch, link>>
threadVars == <<cmds, cpc, cur>>
userVars == <<upc, ucookie, uch, acked>>
boundVars == <<ro_ch_cookie_gen, calls, joins>>
vars == <<reqVars, timer, listen_channel, radioVars, threadVars, userVars, boundVars, trouble>>

-----------------------------------------------------------------------------
(* Commands.  A command carries the cookie it was queued with, the channel *)
(* it is about, whether an operation waits for it, and, for the properties *)
(* only, the request whose timer queued it.                                *)
Cmd(type, cookie, ch, sync, of) ==
  [type |-> type, cookie |-> cookie, ch |-> ch, sync |-> sync, of |-> of]

NoCmd == Cmd("none", None, None, FALSE, None)

(* rtw_roch_wk_cmd and rtw_mgnt_tx_cmd: out of memory, or the command      *)
(* thread is gone, and nothing is queued.                                  *)
Enqueue(c) ==
  \/ cmds' = Append(cmds, c) /\ UNCHANGED trouble
  \/ trouble' = TRUE /\ UNCHANGED cmds

(* The handler is done: rtw_cmd_thread completes the submit context.       *)
Complete(c) ==
  /\ cpc' = "idle" /\ cur' = NoCmd
  /\ acked' = (acked \/ c.sync)

-----------------------------------------------------------------------------
(* User space.                                                             *)

(* An operation queued its command with RTW_CMDF_WAIT_ACK and goes on when *)
(* it was handled, or after ten seconds, having taken the submit context   *)
(* away from the command.  None of them looks at the result.               *)
Queued(c, next) ==
  /\ Enqueue(c)
  /\ upc' = IF cmds' = cmds THEN next.fail ELSE next.wait
  /\ acked' = FALSE

AfterWait == [rem_wait |-> "rem_flag", roch_wait |-> "idle", can_wait |-> "idle", tx_wait |-> "idle"]

rtw_sctx_wait_Keeps ==
  /\ upc \in DOMAIN AfterWait /\ upc' = AfterWait[upc]
  /\ UNCHANGED threadVars /\ trouble' = (trouble \/ ~acked)
  /\ acked' = FALSE
  /\ UNCHANGED <<reqVars, timer, listen_channel, radioVars, ucookie, uch, boundVars>>
rtw_sctx_wait ==
  /\ upc \in DOMAIN AfterWait /\ upc' = AfterWait[upc]
  /\ \/ acked /\ UNCHANGED <<threadVars, trouble>>
     \/ /\ ~acked /\ trouble' = TRUE
        /\ cmds' = [i \in DOMAIN cmds |-> [cmds[i] EXCEPT !.sync = FALSE]]
        /\ cur' = [cur EXCEPT !.sync = FALSE]
        /\ UNCHANGED cpc
  /\ acked' = FALSE
  /\ UNCHANGED <<reqVars, timer, listen_channel, radioVars, ucookie, uch, boundVars>>

(* cfg80211_rtw_remain_on_channel: a new cookie, a look at is_ro_ch, ...   *)
cfg80211_rtw_remain_on_channel(ch) ==
  /\ upc = "idle" /\ ro_ch_cookie_gen < MaxCookie
  /\ ro_ch_cookie_gen' = ro_ch_cookie_gen + 1
  /\ ucookie' = ro_ch_cookie_gen' /\ uch' = ch
  /\ upc' = IF is_ro_ch THEN "rem_timer" ELSE "rem_flag"
  /\ UNCHANGED <<reqVars, timer, listen_channel, radioVars, threadVars, acked, calls, joins, trouble>>

(* ... the request that is going on is ended first, ...                    *)
_cancel_timer_ex ==
  /\ upc \in {"rem_timer", "can_timer"}
  /\ timer' = None
  /\ upc' = IF upc = "rem_timer" THEN "rem_cancel" ELSE "can_cancel"
  /\ UNCHANGED <<reqVars, listen_channel, radioVars, threadVars, ucookie, uch, acked, boundVars, trouble>>

remain_cancels_roch_NoWait ==
  /\ upc = "rem_cancel"
  /\ Queued(Cmd("cancel", None, None, FALSE, None), [wait |-> "rem_flag", fail |-> "rem_flag"])
  /\ UNCHANGED <<reqVars, timer, listen_channel, radioVars, cpc, cur, ucookie, uch, boundVars>>
remain_cancels_roch ==
  /\ upc = "rem_cancel"
  /\ Queued(Cmd("cancel", None, None, TRUE, None), [wait |-> "rem_wait", fail |-> "rem_flag"])
  /\ UNCHANGED <<reqVars, timer, listen_channel, radioVars, cpc, cur, ucookie, uch, boundVars>>

(* ... then the new one is announced.  The first one makes its channel the *)
(* listen channel; a later one may, if probe response elements were set    *)
(* just before.                                                            *)
rtw_cfg80211_set_is_roch ==
  /\ upc = "rem_flag" /\ upc' = "rem_fill"
  /\ is_ro_ch' = TRUE
  /\ listen_channel' \in (IF listen_channel = None THEN {uch} ELSE {listen_channel, uch})
  /\ UNCHANGED <<ro_ch_wdev, remain_on_ch_cookie, remain_on_ch_channel, restore_channel, timer,
                 radioVars, threadVars, ucookie, uch, acked, boundVars, trouble>>

rtw_roch_cmd ==
  /\ upc = "rem_fill"
  /\ ro_ch_wdev' = TRUE /\ remain_on_ch_cookie' = ucookie /\ remain_on_ch_channel' = uch
  /\ restore_channel' = oper_ch
  /\ Queued(Cmd("roch", ucookie, uch, TRUE, None), [wait |-> "roch_wait", fail |-> "idle"])
  /\ ucookie' = None /\ uch' = None
  /\ UNCHANGED <<is_ro_ch, timer, listen_channel, radioVars, cpc, cur, boundVars>>

(* cfg80211_rtw_cancel_remain_on_channel, for any cookie given out before. *)
cfg80211_rtw_cancel_remain_on_channel(c) ==
  /\ upc = "idle" /\ is_ro_ch /\ calls < MaxCalls /\ calls' = calls + 1
  /\ ucookie' = c /\ upc' = "can_timer"
  /\ UNCHANGED <<reqVars, timer, listen_channel, radioVars, threadVars, uch, acked,
                 ro_ch_cookie_gen, joins, trouble>>

rtw_cancel_roch_cmd ==
  /\ upc = "can_cancel"
  /\ Queued(Cmd("cancel", ucookie, None, TRUE, None), [wait |-> "can_wait", fail |-> "idle"])
  /\ ucookie' = None
  /\ UNCHANGED <<reqVars, timer, listen_channel, radioVars, cpc, cur, uch, boundVars>>

(* cfg80211_rtw_mgmt_tx: one attempt.                                      *)
cfg80211_rtw_mgmt_tx(ch) ==
  /\ upc = "idle" /\ calls < MaxCalls /\ calls' = calls + 1
  /\ Queued(Cmd("tx", None, ch, TRUE, None), [wait |-> "tx_wait", fail |-> "idle"])
  /\ UNCHANGED <<reqVars, timer, listen_channel, radioVars, cpc, cur, ucookie, uch,
                 ro_ch_cookie_gen, joins>>

(* The timer of a request.                                                 *)
rtw_ro_ch_timer_process ==
  /\ timer # None /\ timer' = None
  /\ Enqueue(Cmd("cancel", None, None, FALSE, timer))
  /\ UNCHANGED <<reqVars, listen_channel, radioVars, cpc, cur, userVars, boundVars>>

-----------------------------------------------------------------------------
(* The command thread.                                                     *)

Takes(type) == cpc = "idle" /\ cmds # <<>> /\ Head(cmds).type = type

(* A link that is being set up keeps the radio.                            *)
rtw_roch_stay_in_cur_chan == link \in {"linking", "handshake"}

(* rtw_ro_ch_handler: to the channel, and the timer starts.  A request     *)
(* that is over already gets neither.                                      *)
Armed == is_ro_ch

rtw_ro_ch_handler ==
  /\ Takes("roch") /\ cmds' = Tail(cmds) /\ Complete(Head(cmds))
  /\ oper_ch' = IF ~is_ro_ch THEN oper_ch
                ELSE IF rtw_roch_stay_in_cur_chan THEN union_ch ELSE Head(cmds).ch
  /\ timer' = IF Armed THEN Head(cmds).cookie ELSE timer
  /\ UNCHANGED <<reqVars, listen_channel, union_ch, offch, link, upc, ucookie, uch, boundVars,
                 trouble>>

(* rtw_cancel_ro_ch_handler: back to the channel of the link, else to the  *)
(* listen channel, and data may flow; then the request is over.            *)
BackCh ==
  IF link # "none" THEN Op
  ELSE IF listen_channel # None THEN listen_channel ELSE restore_channel

(* The request the command ends.                                           *)
Ends_ByCookie(c) == is_ro_ch /\ c.cookie = remain_on_ch_cookie
Ends(c) == is_ro_ch

OffchAfter_Left == offch
OffchAfter == FALSE

rtw_cancel_ro_ch_handler ==
  /\ Takes("cancel") /\ cmds' = Tail(cmds)
  /\ \/ ~Ends(Head(cmds)) /\ Complete(Head(cmds)) /\ UNCHANGED <<is_ro_ch, oper_ch, offch>>
     \/ /\ Ends(Head(cmds)) /\ is_ro_ch' = FALSE
        /\ oper_ch' = BackCh /\ offch' = OffchAfter
        /\ cpc' = "wdev" /\ cur' = Head(cmds) /\ UNCHANGED acked
  /\ UNCHANGED <<ro_ch_wdev, remain_on_ch_cookie, remain_on_ch_channel, restore_channel, timer,
                 listen_channel, union_ch, link, upc, ucookie, uch, boundVars, trouble>>

(* Only now is the device forgotten, and only after that is user space     *)
(* told, with what roch_info then holds.                                   *)
ro_ch_wdev_cleared ==
  /\ cpc = "wdev" /\ ro_ch_wdev' = FALSE
  /\ Complete(cur) /\ UNCHANGED cmds
  /\ UNCHANGED <<is_ro_ch, remain_on_ch_cookie, remain_on_ch_channel, restore_channel, timer,
                 listen_channel, radioVars, upc, ucookie, uch, boundVars, trouble>>

(* _cfg80211_rtw_mgmt_tx: off the channel of the link if need be, ...      *)
Linked == link \in {"handshake", "linked"}

_cfg80211_rtw_mgmt_tx ==
  /\ Takes("tx") /\ cmds' = Tail(cmds)
  /\ cpc' = IF Linked /\ Head(cmds).ch # union_ch THEN "tx_left" ELSE "tx"
  /\ cur' = Head(cmds)
  /\ offch' = (offch \/ (Linked /\ Head(cmds).ch # union_ch))
  /\ oper_ch' = Head(cmds).ch
  /\ UNCHANGED <<reqVars, timer, listen_channel, union_ch, link, userVars, boundVars, trouble>>

(* ... and, when the frame is out, to the channel of the request that is   *)
(* going on, else back to the link.                                        *)
BackToRoch ==
  is_ro_ch /\ ~rtw_roch_stay_in_cur_chan /\ remain_on_ch_channel # union_ch

mgmt_tx_exit ==
  /\ cpc \in {"tx", "tx_left"}
  /\ Complete(cur) /\ UNCHANGED cmds
  /\ \/ /\ BackToRoch
        /\ oper_ch' = remain_on_ch_channel
        /\ UNCHANGED offch
     \/ /\ ~BackToRoch /\ cpc = "tx_left"
        /\ oper_ch' = union_ch /\ offch' = FALSE
     \/ ~BackToRoch /\ cpc = "tx" /\ UNCHANGED <<oper_ch, offch>>
  /\ UNCHANGED <<reqVars, timer, listen_channel, union_ch, link, upc, ucookie, uch, boundVars,
                 trouble>>

-----------------------------------------------------------------------------
(* The link, which the same thread sets up and ends.                       *)

join_cmd_hdl ==
  /\ cpc = "idle" /\ link = "none" /\ joins < MaxJoin /\ joins' = joins + 1
  /\ link' = "linking" /\ union_ch' = Op /\ oper_ch' = Op
  /\ UNCHANGED <<reqVars, timer, listen_channel, offch, threadVars, userVars, ro_ch_cookie_gen, calls,
                 trouble>>

rtw_join_done_chk_ch ==
  /\ cpc = "idle" /\ link = "linking"
  /\ link' \in {"handshake", "linked", "none"}
  /\ oper_ch' = IF link' = "none" THEN oper_ch ELSE Op
  /\ UNCHANGED <<reqVars, timer, listen_channel, union_ch, offch, threadVars, userVars, boundVars,
                 trouble>>

(* The keys are set.                                                       *)
handshake_done ==
  /\ link = "handshake" /\ link' = "linked"
  /\ UNCHANGED <<reqVars, timer, listen_channel, oper_ch, union_ch, offch, threadVars, userVars,
                 boundVars, trouble>>

mlmeext_disconnect ==
  /\ cpc = "idle" /\ Linked /\ link' = "none"
  /\ UNCHANGED <<reqVars, timer, listen_channel, oper_ch, union_ch, offch, threadVars, userVars,
                 boundVars, trouble>>

-----------------------------------------------------------------------------
Init ==
  /\ is_ro_ch = FALSE /\ ro_ch_wdev = FALSE /\ remain_on_ch_cookie = None
  /\ remain_on_ch_channel = None /\ restore_channel = None
  /\ timer = None /\ listen_channel = None
  /\ oper_ch \in Channels /\ union_ch = None /\ offch = FALSE /\ link = "none"
  /\ cmds = <<>> /\ cpc = "idle" /\ cur = NoCmd
  /\ upc = "idle" /\ ucookie = None /\ uch = None /\ acked = FALSE
  /\ ro_ch_cookie_gen = 0 /\ calls = 0 /\ joins = 0 /\ trouble = FALSE

Call ==
  \/ \E ch \in Channels : cfg80211_rtw_remain_on_channel(ch) \/ cfg80211_rtw_mgmt_tx(ch)
  \/ \E c \in 1..ro_ch_cookie_gen : cfg80211_rtw_cancel_remain_on_channel(c)

Operation ==
  \/ rtw_sctx_wait \/ _cancel_timer_ex \/ remain_cancels_roch
  \/ rtw_cfg80211_set_is_roch \/ rtw_roch_cmd \/ rtw_cancel_roch_cmd

Thread ==
  \/ rtw_ro_ch_handler \/ rtw_cancel_ro_ch_handler \/ ro_ch_wdev_cleared
  \/ _cfg80211_rtw_mgmt_tx \/ mgmt_tx_exit

Link == join_cmd_hdl \/ rtw_join_done_chk_ch \/ handshake_done \/ mlmeext_disconnect

Next == Call \/ Operation \/ rtw_ro_ch_timer_process \/ Thread \/ Link

Spec == Init /\ [][Next]_vars

(* An operation that was called goes on, the timer fires and the command   *)
(* thread runs.                                                            *)
FairSpec ==
  Spec /\ WF_vars(Operation) /\ WF_vars(rtw_ro_ch_timer_process) /\ WF_vars(Thread)

-----------------------------------------------------------------------------
Cmds == [type : {"none", "roch", "cancel", "tx"}, cookie : 0..MaxCookie,
         ch : Channels \cup {None}, sync : BOOLEAN, of : 0..MaxCookie]

TypeOK ==
  /\ is_ro_ch \in BOOLEAN /\ ro_ch_wdev \in BOOLEAN
  /\ remain_on_ch_cookie \in 0..MaxCookie /\ ro_ch_cookie_gen \in 0..MaxCookie
  /\ {oper_ch, remain_on_ch_channel, restore_channel, listen_channel, union_ch, uch} \subseteq
       Channels \cup {None}
  /\ offch \in BOOLEAN
  /\ link \in {"none", "linking", "handshake", "linked"}
  /\ timer \in 0..MaxCookie /\ cmds \in Seq(Cmds) /\ cur \in Cmds
  /\ cpc \in {"idle", "wdev", "tx", "tx_left"}
  /\ upc \in {"idle", "rem_timer", "rem_cancel", "rem_flag", "rem_fill", "can_timer", "can_cancel"}
             \cup DOMAIN AfterWait
  /\ ucookie \in 0..MaxCookie /\ acked \in BOOLEAN /\ (acked => upc \in DOMAIN AfterWait)
  /\ calls \in 0..MaxCalls /\ joins \in 0..MaxJoin /\ trouble \in BOOLEAN

(* When nothing is going on the radio is on the channel of the link and    *)
(* data is not blocked, however requests, frames and joins were mixed.     *)
BackOnLink ==
  cpc = "idle" /\ ~is_ro_ch => ~offch /\ (Linked => oper_ch = Op)

(* The timer of a request ends that request and no later one, although the *)
(* command it queues does not say which: an operation that starts another  *)
(* one first waits until everything queued before it was handled.          *)
TimerEndsItsOwn ==
  [][is_ro_ch /\ ~is_ro_ch' /\ ~trouble /\ Head(cmds).of # None
       => Head(cmds).of = remain_on_ch_cookie]_vars

(* Every request ends.                                                     *)
RochEnds == is_ro_ch ~> ~is_ro_ch \/ trouble

=============================================================================
