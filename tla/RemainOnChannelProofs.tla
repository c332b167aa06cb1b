------------------------ MODULE RemainOnChannelProofs ------------------------
(***************************************************************************)
(* Theorems about off-channel work, for every set of channels and every    *)
(* number of requests, frames and joins: the types, that the radio is back *)
(* on the link when nothing goes on, and that a timer ends its own request *)
(* only.                                                                   *)
(***************************************************************************)
EXTENDS RemainOnChannel, TLAPS

Waits == {"rem_wait", "roch_wait", "can_wait", "tx_wait"}

(* The radio may be elsewhere only during a request, and while a frame is  *)
(* sent that left the channel; the command thread knows the channel of the *)
(* link as long as there is one.                                           *)
RadioInv ==
  /\ link # "none" => union_ch = Op
  /\ cpc # "tx_left" /\ ~is_ro_ch => ~offch /\ (Linked => oper_ch = Op)

(* One command at most has an operation that waits for it, and none has    *)
(* when no operation waits or the one that does is about to go on.         *)
SyncInv ==
  /\ \A i, j \in 1..Len(cmds) : cmds[i].sync /\ cmds[j].sync => i = j
  /\ cur.sync => \A i \in 1..Len(cmds) : ~cmds[i].sync
  /\ acked \/ upc \notin Waits => ~cur.sync /\ \A i \in 1..Len(cmds) : ~cmds[i].sync
  /\ cpc = "idle" => ~cur.sync

(* Neither the timer nor a command of the timer can end a request.         *)
Quiet == timer = None /\ \A i \in 1..Len(cmds) : cmds[i].of = None

(* What a command may be while every wait ended in time: a command of the  *)
(* timer is alone and about the request that goes on; a cancellation of    *)
(* user space is the last command, with the timer cancelled; a new request *)
(* has neither timer nor command of the timer before or behind it.         *)
CmdOwn(i) ==
  /\ cmds[i].sync <=> cmds[i].of = None
  /\ cmds[i].of # None =>
       /\ timer = None /\ is_ro_ch /\ cmds[i].of = remain_on_ch_cookie
       /\ cmds[i].type = "cancel" /\ \A j \in 1..Len(cmds) : cmds[j].of # None => i = j
  /\ cmds[i].of = None /\ cmds[i].type = "cancel" => timer = None /\ i = Len(cmds)
  /\ cmds[i].type = "roch" =>
       cmds[i].cookie = remain_on_ch_cookie /\ Quiet /\ upc = "roch_wait"

OwnInv ==
  ~trouble =>
    /\ \A i \in 1..Len(cmds) : CmdOwn(i)
    /\ timer # None => is_ro_ch /\ timer = remain_on_ch_cookie
    /\ upc \in {"rem_flag", "rem_fill"} => Quiet
    /\ upc \in {"rem_cancel", "can_cancel"} => timer = None
    /\ upc \in {"rem_wait", "can_wait"} =>
         timer = None /\ (cmds # <<>> => cmds[Len(cmds)].of = None)

-----------------------------------------------------------------------------
(* Sequences of commands.                                                  *)

LEMMA WaitsAreThese ==
  /\ DOMAIN AfterWait = Waits
  /\ \A u \in Waits : AfterWait[u] = IF u = "rem_wait" THEN "rem_flag" ELSE "idle"
BY DEF AfterWait, Waits

LEMMA AppendCmd ==
  ASSUME NEW s \in Seq(Cmds), NEW c \in Cmds
  PROVE  /\ Append(s, c) \in Seq(Cmds) /\ Append(s, c) # s
         /\ Len(s) \in Nat /\ Len(Append(s, c)) = Len(s) + 1
         /\ \A i \in 1..Len(s) : Append(s, c)[i] = s[i]
         /\ Append(s, c)[Len(s) + 1] = c
<1>1. Len(Append(s, c)) = Len(s) + 1 /\ Len(s) \in Nat
  OBVIOUS
<1> QED
  BY <1>1

LEMMA TailCmd ==
  ASSUME NEW s \in Seq(Cmds), s # <<>>
  PROVE  /\ Tail(s) \in Seq(Cmds) /\ Head(s) \in Cmds /\ Head(s) = s[1]
         /\ Len(s) \in Nat \ {0} /\ Len(Tail(s)) = Len(s) - 1
         /\ \A i \in 1..Len(Tail(s)) : Tail(s)[i] = s[i + 1] /\ i + 1 \in 1..Len(s)
OBVIOUS

LEMMA NoCmdType == NoCmd \in Cmds /\ ~NoCmd.sync
<1>1. 0 \in 0..MaxCookie
  BY RochAssumption
<1> QED
  BY <1>1 DEF NoCmd, Cmd, Cmds, None

(* What queueing a command does.                                           *)
LEMMA QueuedDoes ==
  ASSUME TypeOK, NEW c \in Cmds, NEW n, Queued(c, n)
  PROVE  /\ acked' = FALSE
         /\ \/ cmds' = Append(cmds, c) /\ upc' = n.wait /\ UNCHANGED trouble
            \/ cmds' = cmds /\ upc' = n.fail /\ trouble' = TRUE
<1>1. Append(cmds, c) # cmds
  BY AppendCmd DEF TypeOK
<1> QED
  BY <1>1, Zenon DEF Queued, Enqueue

-----------------------------------------------------------------------------
(* Types.                                                                  *)

TypeInv == TypeOK /\ SyncInv

LEMMA TypeInit == Init => TypeInv
<1> SUFFICES ASSUME Init PROVE TypeInv
  OBVIOUS
<1>1. NoCmd \in Cmds /\ ~NoCmd.sync
  BY NoCmdType
<1>2. TypeOK
  <2>1. cmds \in Seq(Cmds) /\ cur \in Cmds
    BY <1>1 DEF Init
  <2>2. 0 \in 0..MaxCookie /\ 0 \in 0..MaxCalls /\ 0 \in 0..MaxJoin
    BY RochAssumption
  <2>3. {oper_ch, remain_on_ch_channel, restore_channel, listen_channel, union_ch, uch} \subseteq
          Channels \cup {None}
    BY DEF Init
  <2> QED
    BY <2>1, <2>2, <2>3 DEF Init, TypeOK, None
<1>3. SyncInv
  BY <1>1 DEF Init, SyncInv
<1> QED
  BY <1>2, <1>3 DEF TypeInv

(* An operation queues its command and waits for it.                       *)
LEMMA QueuedTypes ==
  ASSUME TypeInv, NEW c \in Cmds, NEW n, Queued(c, n), upc \notin Waits, n.wait \in Waits,
         cur' = cur, cpc' = cpc
  PROVE  SyncInv' /\ cmds' \in Seq(Cmds) /\ ~acked' /\ upc' \in {n.wait, n.fail}
         /\ trouble' \in BOOLEAN /\ acked' \in BOOLEAN
<1>0. TypeOK /\ SyncInv
  BY DEF TypeInv
<1>1. ~cur.sync /\ \A i \in 1..Len(cmds) : ~cmds[i].sync
  BY <1>0 DEF SyncInv
<1>2. CASE cmds' = Append(cmds, c) /\ upc' = n.wait /\ UNCHANGED trouble /\ acked' = FALSE
  <2>1. /\ cmds' \in Seq(Cmds) /\ Len(cmds) \in Nat /\ Len(cmds') = Len(cmds) + 1
        /\ \A i \in 1..Len(cmds) : cmds'[i] = cmds[i]
    BY <1>0, <1>2, AppendCmd DEF TypeOK
  <2>2. \A i \in 1..Len(cmds') : cmds'[i].sync => i = Len(cmds) + 1
    BY <1>1, <2>1
  <2>3. SyncInv'
    BY <1>1, <1>2, <2>1, <2>2 DEF SyncInv
  <2> QED
    BY <1>0, <1>2, <2>1, <2>3 DEF TypeOK
<1>3. CASE cmds' = cmds /\ upc' = n.fail /\ trouble' = TRUE /\ acked' = FALSE
  <2>1. SyncInv'
    BY <1>1, <1>3 DEF SyncInv
  <2> QED
    BY <1>0, <1>3, <2>1 DEF TypeOK
<1> QED
  BY <1>0, <1>2, <1>3, QueuedDoes

(* The command thread takes a command off the queue.                       *)
LEMMA TakenTypes ==
  ASSUME TypeInv, cmds # <<>>, cmds' = Tail(cmds), upc' = upc,
         \/ Complete(Head(cmds))
         \/ cur' = Head(cmds) /\ acked' = acked /\ cpc' # "idle" /\ cpc = "idle"
  PROVE  /\ SyncInv' /\ cmds' \in Seq(Cmds) /\ cur' \in Cmds /\ acked' \in BOOLEAN
         /\ acked' => upc \in Waits
<1> USE DEF TypeInv
<1>1. /\ cmds' \in Seq(Cmds) /\ Head(cmds) \in Cmds /\ Head(cmds) = cmds[1]
      /\ Len(cmds) \in Nat \ {0} /\ Len(cmds') = Len(cmds) - 1
      /\ \A i \in 1..Len(cmds') : cmds'[i] = cmds[i + 1] /\ i + 1 \in 1..Len(cmds)
  BY TailCmd DEF TypeOK
<1>2. \A i, j \in 1..Len(cmds') : cmds'[i].sync /\ cmds'[j].sync => i = j
  <2>1. \A i, j \in 1..Len(cmds') : cmds'[i].sync /\ cmds'[j].sync => i + 1 = j + 1
    BY <1>1 DEF SyncInv
  <2> QED
    BY <2>1
<1>3. Head(cmds).sync => \A i \in 1..Len(cmds') : ~cmds'[i].sync
  <2>1. \A i \in 1..Len(cmds') : Head(cmds).sync /\ cmds'[i].sync => i + 1 = 1
    BY <1>1 DEF SyncInv
  <2> QED
    BY <2>1
<1>4. Head(cmds).sync \/ cur.sync => upc \in Waits /\ ~acked
  BY <1>1 DEF SyncInv
<1>5. CASE Complete(Head(cmds))
  <2>1. cur' = NoCmd /\ acked' = (acked \/ Head(cmds).sync)
    BY <1>5 DEF Complete
  <2>2. acked => ~cur.sync /\ \A i \in 1..Len(cmds') : ~cmds'[i].sync
    BY <1>1 DEF SyncInv
  <2>3. upc \notin Waits => ~Head(cmds).sync /\ \A i \in 1..Len(cmds') : ~cmds'[i].sync
    BY <1>1 DEF SyncInv
  <2>4. SyncInv'
    BY <1>2, <1>3, <2>1, <2>2, <2>3, NoCmdType DEF SyncInv
  <2>5. acked \in BOOLEAN /\ (acked => upc \in Waits) /\ Head(cmds).sync \in BOOLEAN
    BY <1>1, WaitsAreThese DEF TypeOK, Cmds
  <2> QED
    BY <1>1, <1>4, <2>1, <2>4, <2>5, NoCmdType
<1>6. CASE cur' = Head(cmds) /\ acked' = acked /\ cpc' # "idle" /\ cpc = "idle"
  <2>1. acked \/ upc \notin Waits =>
          ~Head(cmds).sync /\ \A i \in 1..Len(cmds') : ~cmds'[i].sync
    BY <1>1 DEF SyncInv
  <2>2. SyncInv'
    BY <1>2, <1>3, <1>6, <2>1 DEF SyncInv
  <2> QED
    BY <1>1, <1>6, <2>2, WaitsAreThese DEF TypeOK
<1> QED
  BY <1>5, <1>6

(* The command thread is done with the command it was at.                  *)
LEMMA DoneTypes ==
  ASSUME TypeInv, Complete(cur), cmds' = cmds, upc' = upc
  PROVE  /\ SyncInv' /\ cmds' \in Seq(Cmds) /\ cur' \in Cmds /\ acked' \in BOOLEAN
         /\ acked' => upc \in Waits
<1> USE DEF TypeInv
<1>1. cur' = NoCmd /\ acked' = (acked \/ cur.sync)
  BY DEF Complete
<1>2. acked \in BOOLEAN /\ (acked => upc \in Waits) /\ cur.sync \in BOOLEAN /\ cmds' \in Seq(Cmds)
  BY WaitsAreThese DEF TypeOK, Cmds
<1>3. cur.sync => upc \in Waits
  BY DEF SyncInv
<1>4. SyncInv'
  BY <1>1, NoCmdType DEF SyncInv
<1> QED
  BY <1>1, <1>2, <1>3, <1>4, NoCmdType

(* The rest of the types.                                                  *)
LEMMA TypeFrom ==
  ASSUME TypeOK,
         is_ro_ch' \in BOOLEAN, ro_ch_wdev' \in BOOLEAN, remain_on_ch_cookie' \in 0..MaxCookie,
         ro_ch_cookie_gen' \in 0..MaxCookie, oper_ch' \in Channels \cup {None},
         remain_on_ch_channel' \in Channels \cup {None}, restore_channel' \in Channels \cup {None},
         listen_channel' \in Channels \cup {None}, union_ch' \in Channels \cup {None},
         uch' \in Channels \cup {None}, offch' \in BOOLEAN,
         link' \in {"none", "linking", "handshake", "linked"},
         timer' \in 0..MaxCookie, cmds' \in Seq(Cmds), cur' \in Cmds,
         cpc' \in {"idle", "wdev", "tx", "tx_left"},
         upc' \in {"idle", "rem_timer", "rem_cancel", "rem_flag", "rem_fill", "can_timer",
                   "can_cancel"} \cup Waits,
         ucookie' \in 0..MaxCookie, acked' \in BOOLEAN, acked' => upc' \in Waits,
         calls' \in 0..MaxCalls, joins' \in 0..MaxJoin, trouble' \in BOOLEAN
  PROVE  TypeOK'
BY WaitsAreThese DEF TypeOK

(* What TypeOK says, variable by variable.                                 *)
LEMMA TypeTo ==
  ASSUME TypeOK
  PROVE  /\ is_ro_ch \in BOOLEAN /\ ro_ch_wdev \in BOOLEAN /\ remain_on_ch_cookie \in 0..MaxCookie
         /\ ro_ch_cookie_gen \in 0..MaxCookie /\ oper_ch \in Channels \cup {None}
         /\ remain_on_ch_channel \in Channels \cup {None} /\ restore_channel \in Channels \cup {None}
         /\ listen_channel \in Channels \cup {None} /\ union_ch \in Channels \cup {None}
         /\ uch \in Channels \cup {None} /\ offch \in BOOLEAN
         /\ link \in {"none", "linking", "handshake", "linked"}
         /\ timer \in 0..MaxCookie /\ cmds \in Seq(Cmds) /\ cur \in Cmds
         /\ cpc \in {"idle", "wdev", "tx", "tx_left"}
         /\ upc \in {"idle", "rem_timer", "rem_cancel", "rem_flag", "rem_fill", "can_timer",
                     "can_cancel"} \cup Waits
         /\ ucookie \in 0..MaxCookie /\ acked \in BOOLEAN /\ (acked => upc \in Waits)
         /\ calls \in 0..MaxCalls /\ joins \in 0..MaxJoin /\ trouble \in BOOLEAN
         /\ 0 \in 0..MaxCookie /\ None \in 0..MaxCookie /\ None \in Channels \cup {None}
         /\ Op \in Channels
BY WaitsAreThese, RochAssumption DEF TypeOK, None, Channels

(* A wait that ran out takes the submit context away from its command.     *)
LEMMA Unsynced ==
  ASSUME NEW s \in Seq(Cmds)
  PROVE  LET t == [i \in DOMAIN s |-> [s[i] EXCEPT !.sync = FALSE]] IN
           /\ t \in Seq(Cmds) /\ Len(t) = Len(s)
           /\ \A i \in 1..Len(s) : ~t[i].sync
<1> DEFINE t == [i \in DOMAIN s |-> [s[i] EXCEPT !.sync = FALSE]]
<1>1. DOMAIN s = 1..Len(s) /\ Len(s) \in Nat
  OBVIOUS
<1>2. ASSUME NEW i \in 1..Len(s) PROVE t[i] \in Cmds /\ ~t[i].sync
  <2>1. s[i] \in Cmds
    OBVIOUS
  <2>2. [s[i] EXCEPT !.sync = FALSE] \in Cmds /\ ~[s[i] EXCEPT !.sync = FALSE].sync
    BY <2>1 DEF Cmds
  <2> QED
    BY <1>1, <2>2
<1>3. t \in [1..Len(s) -> Cmds]
  BY <1>1, <1>2
<1>4. t \in Seq(Cmds) /\ Len(t) = Len(s)
  BY <1>1, <1>3
<1> QED
  BY <1>2, <1>4

LEMMA WaitTypes ==
  ASSUME TypeInv, rtw_sctx_wait
  PROVE  TypeInv'
<1> USE DEF TypeInv
<1>1. /\ upc \in Waits /\ upc' = IF upc = "rem_wait" THEN "rem_flag" ELSE "idle"
      /\ acked' = FALSE /\ cpc' = cpc
      /\ UNCHANGED <<reqVars, timer, listen_channel, radioVars, ucookie, uch, boundVars>>
  BY WaitsAreThese DEF rtw_sctx_wait, threadVars
<1>4. acked' \in BOOLEAN /\ ~acked'
  BY <1>1
<1>2. CASE acked /\ UNCHANGED <<threadVars, trouble>>
  <2>1. SyncInv'
    BY <1>1, <1>2 DEF SyncInv, threadVars
  <2>2. TypeOK'
    BY <1>1, <1>4, <1>2, TypeTo, TypeFrom DEF reqVars, radioVars, boundVars, threadVars, Waits
  <2> QED
    BY <2>1, <2>2
<1>3. CASE /\ trouble' = TRUE
           /\ cmds' = [i \in DOMAIN cmds |-> [cmds[i] EXCEPT !.sync = FALSE]]
           /\ cur' = [cur EXCEPT !.sync = FALSE]
  <2>1. /\ cmds' \in Seq(Cmds) /\ Len(cmds') = Len(cmds)
        /\ \A i \in 1..Len(cmds) : ~cmds'[i].sync
    BY <1>3, Unsynced DEF TypeOK
  <2>2. cur' \in Cmds /\ ~cur'.sync
    BY <1>3 DEF TypeOK, Cmds
  <2>3. SyncInv'
    BY <2>1, <2>2 DEF SyncInv
  <2>5. trouble' \in BOOLEAN
    BY <1>3
  <2>4. TypeOK'
    BY <1>1, <1>4, <1>3, <2>1, <2>2, <2>5, TypeTo, TypeFrom DEF reqVars, radioVars, boundVars, Waits
  <2> QED
    BY <2>3, <2>4
<1> QED
  BY <1>2, <1>3 DEF rtw_sctx_wait

(* The timer queues a command that nobody waits for.                       *)
LEMMA TimerTypes ==
  ASSUME TypeInv, rtw_ro_ch_timer_process
  PROVE  TypeInv'
<1> USE DEF TypeInv
<1> DEFINE c == Cmd("cancel", None, None, FALSE, timer)
<1>1. c \in Cmds /\ c.sync = FALSE
  BY TypeTo DEF Cmd, Cmds
<1>2. /\ timer' = None
      /\ UNCHANGED <<reqVars, listen_channel, radioVars, cpc, cur, userVars, boundVars>>
      /\ \/ cmds' = Append(cmds, c) /\ UNCHANGED trouble
         \/ trouble' = TRUE /\ UNCHANGED cmds
  BY Zenon DEF rtw_ro_ch_timer_process, Enqueue
<1> HIDE DEF c
<1>3. CASE cmds' = Append(cmds, c) /\ UNCHANGED trouble
  <2>1. /\ cmds' \in Seq(Cmds) /\ Len(cmds) \in Nat /\ Len(cmds') = Len(cmds) + 1
        /\ \A i \in 1..Len(cmds) : cmds'[i] = cmds[i]
        /\ cmds'[Len(cmds) + 1] = c
    BY <1>1, <1>3, AppendCmd DEF TypeOK
  <2>2. \A i \in 1..Len(cmds') : cmds'[i].sync => i \in 1..Len(cmds) /\ cmds[i].sync
    BY <1>1, <2>1
  <2>3. SyncInv'
    BY <1>2, <2>2 DEF SyncInv, userVars
  <2>4. TypeOK'
    BY <1>2, <1>3, <2>1, TypeTo, TypeFrom DEF reqVars, radioVars, boundVars, userVars
  <2> QED
    BY <2>3, <2>4
<1>4. CASE trouble' = TRUE /\ UNCHANGED cmds
  <2>1. SyncInv'
    BY <1>2, <1>4 DEF SyncInv, userVars
  <2>2. TypeOK'
    BY <1>2, <1>4, TypeTo, TypeFrom DEF reqVars, radioVars, boundVars, userVars
  <2> QED
    BY <2>1, <2>2
<1> QED
  BY <1>2, <1>3, <1>4

(* The operations of user space.                                           *)
LEMMA CallTypes ==
  ASSUME TypeInv, Call
  PROVE  TypeInv'
<1> USE DEF TypeInv
<1>1. ASSUME NEW ch \in Channels, cfg80211_rtw_remain_on_channel(ch) PROVE TypeInv'
  <2>1. SyncInv'
    BY <1>1 DEF cfg80211_rtw_remain_on_channel, SyncInv, threadVars, Waits
  <2>2. ro_ch_cookie_gen + 1 \in 0..MaxCookie
    BY <1>1, RochAssumption DEF cfg80211_rtw_remain_on_channel, TypeOK
  <2>3. TypeOK'
    BY <1>1, <2>2, TypeTo, TypeFrom
    DEF cfg80211_rtw_remain_on_channel, reqVars, radioVars, threadVars, Waits
  <2> QED
    BY <2>1, <2>3
<1>2. ASSUME NEW ch \in Channels, cfg80211_rtw_mgmt_tx(ch) PROVE TypeInv'
  <2> DEFINE c == Cmd("tx", None, ch, TRUE, None)
             n == [wait |-> "tx_wait", fail |-> "idle"]
  <2>1. c \in Cmds
    BY TypeTo DEF Cmd, Cmds
  <2>2. Queued(c, n) /\ upc \notin Waits /\ n.wait \in Waits /\ cur' = cur /\ cpc' = cpc
    BY <1>2 DEF cfg80211_rtw_mgmt_tx, Waits
  <2> HIDE DEF c
  <2>3. /\ SyncInv' /\ cmds' \in Seq(Cmds) /\ ~acked' /\ upc' \in {n.wait, n.fail}
        /\ trouble' \in BOOLEAN /\ acked' \in BOOLEAN
    BY <2>1, <2>2, QueuedTypes
  <2>4. calls + 1 \in 0..MaxCalls
    BY <1>2, RochAssumption DEF cfg80211_rtw_mgmt_tx, TypeOK
  <2>5. TypeOK'
    BY <1>2, <2>3, <2>4, TypeTo, TypeFrom DEF cfg80211_rtw_mgmt_tx, reqVars, radioVars, Waits
  <2> QED
    BY <2>3, <2>5
<1>3. ASSUME NEW k \in 1..ro_ch_cookie_gen, cfg80211_rtw_cancel_remain_on_channel(k) PROVE TypeInv'
  <2>1. SyncInv'
    BY <1>3 DEF cfg80211_rtw_cancel_remain_on_channel, SyncInv, threadVars, Waits
  <2>2. calls + 1 \in 0..MaxCalls /\ k \in 0..MaxCookie
    BY <1>3, RochAssumption DEF cfg80211_rtw_cancel_remain_on_channel, TypeOK
  <2>3. TypeOK'
    BY <1>3, <2>2, TypeTo, TypeFrom
    DEF cfg80211_rtw_cancel_remain_on_channel, reqVars, radioVars, threadVars, Waits
  <2> QED
    BY <2>1, <2>3
<1> QED
  BY <1>1, <1>2, <1>3 DEF Call

LEMMA OperationTypes ==
  ASSUME TypeInv, Operation
  PROVE  TypeInv'
<1> USE DEF TypeInv
<1>1. CASE _cancel_timer_ex
  <2>1. SyncInv'
    BY <1>1 DEF _cancel_timer_ex, SyncInv, threadVars, Waits
  <2>2. TypeOK'
    BY <1>1, TypeTo, TypeFrom
    DEF _cancel_timer_ex, reqVars, radioVars, threadVars, boundVars, Waits
  <2> QED
    BY <2>1, <2>2
<1>2. CASE remain_cancels_roch
  <2> DEFINE c == Cmd("cancel", None, None, TRUE, None)
             n == [wait |-> "rem_wait", fail |-> "rem_flag"]
  <2>1. c \in Cmds
    BY TypeTo DEF Cmd, Cmds
  <2>2. Queued(c, n) /\ upc \notin Waits /\ n.wait \in Waits /\ cur' = cur /\ cpc' = cpc
    BY <1>2 DEF remain_cancels_roch, Waits
  <2> HIDE DEF c
  <2>3. /\ SyncInv' /\ cmds' \in Seq(Cmds) /\ ~acked' /\ upc' \in {n.wait, n.fail}
        /\ trouble' \in BOOLEAN /\ acked' \in BOOLEAN
    BY <2>1, <2>2, QueuedTypes
  <2>4. TypeOK'
    BY <1>2, <2>3, TypeTo, TypeFrom DEF remain_cancels_roch, reqVars, radioVars, boundVars, Waits
  <2> QED
    BY <2>3, <2>4
<1>3. CASE rtw_cfg80211_set_is_roch
  <2>1. SyncInv'
    BY <1>3 DEF rtw_cfg80211_set_is_roch, SyncInv, threadVars, Waits
  <2>2. is_ro_ch' \in BOOLEAN /\ listen_channel' \in Channels \cup {None}
    BY <1>3, TypeTo DEF rtw_cfg80211_set_is_roch
  <2>3. TypeOK'
    BY <1>3, <2>2, TypeTo, TypeFrom
    DEF rtw_cfg80211_set_is_roch, radioVars, threadVars, boundVars, Waits
  <2> QED
    BY <2>1, <2>3
<1>4. CASE rtw_roch_cmd
  <2> DEFINE c == Cmd("roch", ucookie, uch, TRUE, None)
             n == [wait |-> "roch_wait", fail |-> "idle"]
  <2>1. c \in Cmds
    BY TypeTo DEF Cmd, Cmds
  <2>2. Queued(c, n) /\ upc \notin Waits /\ n.wait \in Waits /\ cur' = cur /\ cpc' = cpc
    BY <1>4 DEF rtw_roch_cmd, Waits
  <2> HIDE DEF c
  <2>3. /\ SyncInv' /\ cmds' \in Seq(Cmds) /\ ~acked' /\ upc' \in {n.wait, n.fail}
        /\ trouble' \in BOOLEAN /\ acked' \in BOOLEAN
    BY <2>1, <2>2, QueuedTypes
  <2>5. ro_ch_wdev' \in BOOLEAN
    BY <1>4 DEF rtw_roch_cmd
  <2>4. TypeOK'
    BY <1>4, <2>3, <2>5, TypeTo, TypeFrom DEF rtw_roch_cmd, reqVars, radioVars, boundVars, Waits
  <2> QED
    BY <2>3, <2>4
<1>5. CASE rtw_cancel_roch_cmd
  <2> DEFINE c == Cmd("cancel", ucookie, None, TRUE, None)
             n == [wait |-> "can_wait", fail |-> "idle"]
  <2>1. c \in Cmds
    BY TypeTo DEF Cmd, Cmds
  <2>2. Queued(c, n) /\ upc \notin Waits /\ n.wait \in Waits /\ cur' = cur /\ cpc' = cpc
    BY <1>5 DEF rtw_cancel_roch_cmd, Waits
  <2> HIDE DEF c
  <2>3. /\ SyncInv' /\ cmds' \in Seq(Cmds) /\ ~acked' /\ upc' \in {n.wait, n.fail}
        /\ trouble' \in BOOLEAN /\ acked' \in BOOLEAN
    BY <2>1, <2>2, QueuedTypes
  <2>4. TypeOK'
    BY <1>5, <2>3, TypeTo, TypeFrom DEF rtw_cancel_roch_cmd, reqVars, radioVars, boundVars, Waits
  <2> QED
    BY <2>3, <2>4
<1> QED
  BY <1>1, <1>2, <1>3, <1>4, <1>5, WaitTypes DEF Operation

(* The command thread.                                                     *)
LEMMA ThreadTypes ==
  ASSUME TypeInv, Thread
  PROVE  TypeInv'
<1> USE DEF TypeInv
<1>1. CASE rtw_ro_ch_handler
  <2>1. cmds # <<>> /\ cmds' = Tail(cmds) /\ Complete(Head(cmds)) /\ upc' = upc /\ cpc' = "idle"
    BY <1>1 DEF rtw_ro_ch_handler, Takes, Complete
  <2>2. /\ SyncInv' /\ cmds' \in Seq(Cmds) /\ cur' \in Cmds /\ acked' \in BOOLEAN
        /\ acked' => upc \in Waits
    BY <2>1, TakenTypes
  <2>3. Head(cmds).ch \in Channels \cup {None} /\ Head(cmds).cookie \in 0..MaxCookie
    BY <2>1, TailCmd DEF TypeOK, Cmds
  <2>4. TypeOK'
    BY <1>1, <2>1, <2>2, <2>3, TypeTo, TypeFrom DEF rtw_ro_ch_handler, reqVars, boundVars
  <2> QED
    BY <2>2, <2>4
<1>2. CASE rtw_cancel_ro_ch_handler
  <2>1. /\ cmds # <<>> /\ cmds' = Tail(cmds) /\ upc' = upc /\ cpc' \in {"idle", "wdev"}
        /\ \/ Complete(Head(cmds))
           \/ cur' = Head(cmds) /\ acked' = acked /\ cpc' # "idle" /\ cpc = "idle"
    BY <1>2 DEF rtw_cancel_ro_ch_handler, Takes, Complete
  <2>2. /\ SyncInv' /\ cmds' \in Seq(Cmds) /\ cur' \in Cmds /\ acked' \in BOOLEAN
        /\ acked' => upc \in Waits
    BY <2>1, TakenTypes
  <2>3. /\ is_ro_ch' \in BOOLEAN /\ oper_ch' \in Channels \cup {None} /\ offch' \in BOOLEAN
    BY <1>2, TypeTo DEF rtw_cancel_ro_ch_handler, BackCh, OffchAfter
  <2>4. TypeOK'
    BY <1>2, <2>1, <2>2, <2>3, TypeTo, TypeFrom DEF rtw_cancel_ro_ch_handler, boundVars
  <2> QED
    BY <2>2, <2>4
<1>3. CASE ro_ch_wdev_cleared
  <2>1. Complete(cur) /\ cmds' = cmds /\ upc' = upc /\ cpc' = "idle"
    BY <1>3 DEF ro_ch_wdev_cleared, Complete
  <2>2. /\ SyncInv' /\ cmds' \in Seq(Cmds) /\ cur' \in Cmds /\ acked' \in BOOLEAN
        /\ acked' => upc \in Waits
    BY <2>1, DoneTypes
  <2>3. ro_ch_wdev' \in BOOLEAN
    BY <1>3 DEF ro_ch_wdev_cleared
  <2>4. TypeOK'
    BY <1>3, <2>1, <2>2, <2>3, TypeTo, TypeFrom DEF ro_ch_wdev_cleared, radioVars, boundVars
  <2> QED
    BY <2>2, <2>4
<1>4. CASE _cfg80211_rtw_mgmt_tx
  <2>1. /\ cmds # <<>> /\ cmds' = Tail(cmds) /\ upc' = upc /\ cpc' \in {"tx", "tx_left"}
        /\ cur' = Head(cmds) /\ acked' = acked /\ cpc' # "idle" /\ cpc = "idle"
    BY <1>4 DEF _cfg80211_rtw_mgmt_tx, Takes, userVars
  <2>2. /\ SyncInv' /\ cmds' \in Seq(Cmds) /\ cur' \in Cmds /\ acked' \in BOOLEAN
        /\ acked' => upc \in Waits
    BY <2>1, TakenTypes
  <2>3. /\ Head(cmds).ch \in Channels \cup {None} /\ offch' \in BOOLEAN
    BY <1>4, <2>1, TailCmd DEF TypeOK, Cmds, _cfg80211_rtw_mgmt_tx
  <2>4. TypeOK'
    BY <1>4, <2>1, <2>2, <2>3, TypeTo, TypeFrom
    DEF _cfg80211_rtw_mgmt_tx, reqVars, userVars, boundVars
  <2> QED
    BY <2>2, <2>4
<1>5. CASE mgmt_tx_exit
  <2>1. Complete(cur) /\ cmds' = cmds /\ upc' = upc /\ cpc' = "idle"
    BY <1>5 DEF mgmt_tx_exit, Complete
  <2>2. /\ SyncInv' /\ cmds' \in Seq(Cmds) /\ cur' \in Cmds /\ acked' \in BOOLEAN
        /\ acked' => upc \in Waits
    BY <2>1, DoneTypes
  <2>3. oper_ch' \in Channels \cup {None} /\ offch' \in BOOLEAN
    BY <1>5, TypeTo DEF mgmt_tx_exit
  <2>4. TypeOK'
    BY <1>5, <2>1, <2>2, <2>3, TypeTo, TypeFrom DEF mgmt_tx_exit, reqVars, boundVars
  <2> QED
    BY <2>2, <2>4
<1> QED
  BY <1>1, <1>2, <1>3, <1>4, <1>5 DEF Thread

LEMMA LinkTypes ==
  ASSUME TypeInv, Link
  PROVE  TypeInv'
<1> USE DEF TypeInv
<1>1. UNCHANGED <<reqVars, timer, listen_channel, offch, threadVars, userVars, ro_ch_cookie_gen,
                  calls, trouble>>
  BY DEF Link, join_cmd_hdl, rtw_join_done_chk_ch, handshake_done, mlmeext_disconnect, boundVars
<1>2. SyncInv'
  BY <1>1 DEF SyncInv, threadVars, userVars
<1>3. /\ link' \in {"none", "linking", "handshake", "linked"} /\ joins' \in 0..MaxJoin
      /\ oper_ch' \in Channels \cup {None} /\ union_ch' \in Channels \cup {None}
  <2>1. CASE join_cmd_hdl
    BY <2>1, TypeTo, RochAssumption DEF join_cmd_hdl
  <2>2. CASE rtw_join_done_chk_ch \/ handshake_done \/ mlmeext_disconnect
    BY <2>2, TypeTo DEF rtw_join_done_chk_ch, handshake_done, mlmeext_disconnect, boundVars
  <2> QED
    BY <2>1, <2>2 DEF Link
<1>4. TypeOK'
  BY <1>1, <1>3, TypeTo, TypeFrom DEF reqVars, threadVars, userVars
<1> QED
  BY <1>2, <1>4

LEMMA TypeStep == TypeInv /\ [Next]_vars => TypeInv'
<1> SUFFICES ASSUME TypeInv, [Next]_vars PROVE TypeInv'
  OBVIOUS
<1>1. CASE UNCHANGED vars
  <2>1. SyncInv'
    BY <1>1 DEF TypeInv, SyncInv, vars, threadVars, userVars
  <2>2. TypeOK'
    BY <1>1, TypeTo, TypeFrom
    DEF TypeInv, vars, reqVars, radioVars, threadVars, userVars, boundVars
  <2> QED
    BY <2>1, <2>2 DEF TypeInv
<1> QED
  BY <1>1, CallTypes, OperationTypes, TimerTypes, ThreadTypes, LinkTypes DEF Next

(* Every variable stays in its set: no cookie or channel that was not      *)
(* given out reaches roch_info, and a completion (rtw_cmd_thread) only     *)
(* ever reaches an operation that waits in rtw_sctx_wait.                  *)
THEOREM RochTypes == Spec => []TypeOK
<1>1. TypeInv => TypeOK
  BY DEF TypeInv
<1> QED
  BY <1>1, TypeInit, TypeStep, PTL DEF Spec

-----------------------------------------------------------------------------
(* Back on the channel of the link.                                        *)

LEMMA RadioStep == TypeOK /\ RadioInv /\ [Next]_vars => RadioInv'
<1> SUFFICES ASSUME TypeOK, RadioInv, [Next]_vars PROVE RadioInv'
  OBVIOUS
<1> USE DEF RadioInv, Linked
<1>1. CASE Call \/ Operation \/ rtw_ro_ch_timer_process \/ UNCHANGED vars
  <2>1. UNCHANGED <<radioVars, cpc>> /\ is_ro_ch' \in {is_ro_ch, TRUE}
    <3>1. CASE Call
      BY <3>1 DEF Call, cfg80211_rtw_remain_on_channel, cfg80211_rtw_mgmt_tx,
                  cfg80211_rtw_cancel_remain_on_channel, reqVars, threadVars
    <3>2. CASE rtw_sctx_wait
      BY <3>2 DEF rtw_sctx_wait, reqVars, threadVars
    <3>3. CASE _cancel_timer_ex \/ remain_cancels_roch \/ rtw_cancel_roch_cmd
      BY <3>3 DEF _cancel_timer_ex, remain_cancels_roch, rtw_cancel_roch_cmd, reqVars, threadVars
    <3>4. CASE rtw_cfg80211_set_is_roch \/ rtw_roch_cmd
      BY <3>4 DEF rtw_cfg80211_set_is_roch, rtw_roch_cmd, threadVars
    <3>5. CASE rtw_ro_ch_timer_process \/ UNCHANGED vars
      BY <3>5 DEF rtw_ro_ch_timer_process, vars, reqVars, threadVars
    <3> QED
      BY <1>1, <3>1, <3>2, <3>3, <3>4, <3>5 DEF Operation
  <2> QED
    BY <2>1 DEF radioVars
<1>2. CASE rtw_ro_ch_handler
  BY <1>2 DEF rtw_ro_ch_handler, Takes, Complete, reqVars
<1>3. CASE rtw_cancel_ro_ch_handler
  BY <1>3 DEF rtw_cancel_ro_ch_handler, Takes, Complete, BackCh, OffchAfter, Ends
<1>4. CASE ro_ch_wdev_cleared
  BY <1>4 DEF ro_ch_wdev_cleared, Complete, radioVars
<1>5. CASE _cfg80211_rtw_mgmt_tx
  <2>1. /\ UNCHANGED <<is_ro_ch, union_ch, link>> /\ cpc = "idle"
        /\ oper_ch' = Head(cmds).ch
        /\ offch' = (offch \/ (Linked /\ Head(cmds).ch # union_ch))
        /\ cpc' = IF Linked /\ Head(cmds).ch # union_ch THEN "tx_left" ELSE "tx"
    BY <1>5 DEF _cfg80211_rtw_mgmt_tx, Takes, reqVars
  <2>2. offch \in BOOLEAN
    BY TypeTo
  <2>3. CASE Linked /\ Head(cmds).ch # union_ch
    BY <2>1, <2>3
  <2>4. CASE ~(Linked /\ Head(cmds).ch # union_ch)
    BY <2>1, <2>2, <2>4
  <2> QED
    BY <2>3, <2>4
<1>6. CASE mgmt_tx_exit
  BY <1>6 DEF mgmt_tx_exit, Complete, BackToRoch, reqVars
<1>7. CASE Link
  BY <1>7 DEF Link, join_cmd_hdl, rtw_join_done_chk_ch, handshake_done, mlmeext_disconnect,
              reqVars, threadVars
<1> QED
  BY <1>1, <1>2, <1>3, <1>4, <1>5, <1>6, <1>7 DEF Next, Thread

(* When the command thread is idle and no request goes on, the radio is on *)
(* the channel of the link and data is not blocked, whichever frames,      *)
(* requests, cancellations and joins came before and in which order.       *)
THEOREM RadioComesBack == Spec => []BackOnLink
<1>1. Init => RadioInv
  BY DEF Init, RadioInv, Linked
<1>2. RadioInv => BackOnLink
  BY DEF RadioInv, BackOnLink
<1> QED
  BY <1>1, <1>2, RochTypes, RadioStep, PTL DEF Spec

-----------------------------------------------------------------------------
(* A timer ends its own request.                                           *)

(* OwnInv for a step that leaves the commands alone.                       *)
LEMMA OwnKept ==
  ASSUME OwnInv, UNCHANGED <<cmds, is_ro_ch, remain_on_ch_cookie, trouble>>,
         timer' \in {timer, None},
         upc = "roch_wait" => upc' = "roch_wait" \/ \A i \in 1..Len(cmds) : ~cmds[i].sync,
         ~trouble => /\ upc' \in {"rem_flag", "rem_fill"} => Quiet
                     /\ upc' \in {"rem_cancel", "can_cancel"} => timer' = None
                     /\ upc' \in {"rem_wait", "can_wait"} => upc' = upc
  PROVE  OwnInv'
<1> SUFFICES ASSUME ~trouble
             PROVE  /\ \A i \in 1..Len(cmds) : CmdOwn(i)'
                    /\ timer' # None => is_ro_ch /\ timer' = remain_on_ch_cookie
                    /\ upc' \in {"rem_flag", "rem_fill"} => Quiet'
                    /\ upc' \in {"rem_cancel", "can_cancel"} => timer' = None
                    /\ upc' \in {"rem_wait", "can_wait"} =>
                         timer' = None /\ (cmds # <<>> => cmds[Len(cmds)].of = None)
  BY DEF OwnInv
<1>1. Quiet => Quiet'
  BY DEF Quiet
<1>2. ASSUME NEW i \in 1..Len(cmds) PROVE CmdOwn(i)'
  <2>1. CmdOwn(i)
    BY DEF OwnInv
  <2>2. cmds[i].type = "roch" => cmds[i].sync /\ upc = "roch_wait"
    BY <2>1 DEF CmdOwn, Quiet
  <2> QED
    BY <1>1, <2>1, <2>2 DEF CmdOwn
<1> QED
  BY <1>1, <1>2 DEF OwnInv

(* Between two operations every command is one of the timer.               *)
LEMMA OnlyTimerCmds ==
  ASSUME SyncInv, OwnInv, ~trouble, acked \/ upc \notin Waits, NEW i \in 1..Len(cmds)
  PROVE  cmds[i].of # None /\ cmds[i].type = "cancel"
BY DEF SyncInv, OwnInv, CmdOwn

(* An operation queues a command.                                          *)
LEMMA OwnQueued ==
  ASSUME TypeInv, OwnInv, NEW c \in Cmds, NEW n, Queued(c, n), upc \notin Waits,
         c.sync, c.of = None, n.wait \in Waits, timer' = timer, is_ro_ch' = is_ro_ch,
         c.type \in {"cancel", "tx"} => remain_on_ch_cookie' = remain_on_ch_cookie,
         c.type = "cancel" => upc \in {"rem_cancel", "can_cancel"},
         c.type = "tx" => n.wait = "tx_wait",
         c.type = "roch" => /\ upc = "rem_fill" /\ n.wait = "roch_wait"
                            /\ c.cookie = remain_on_ch_cookie',
         c.type \in {"cancel", "tx", "roch"}
  PROVE  OwnInv'
<1> SUFFICES ASSUME ~trouble' PROVE OwnInv'
  BY DEF OwnInv
<1>0. TypeOK /\ SyncInv
  BY DEF TypeInv
<1>1. cmds' = Append(cmds, c) /\ upc' = n.wait /\ ~trouble
  BY <1>0, QueuedDoes
<1>2. /\ Len(cmds) \in Nat /\ Len(cmds') = Len(cmds) + 1
      /\ \A i \in 1..Len(cmds) : cmds'[i] = cmds[i]
      /\ cmds'[Len(cmds) + 1] = c
  BY <1>0, <1>1, AppendCmd DEF TypeOK
<1>3. \A i \in 1..Len(cmds) : cmds[i].of # None /\ cmds[i].type = "cancel" /\ CmdOwn(i)
  BY <1>0, <1>1, OnlyTimerCmds DEF OwnInv
<1>4. \A i \in 1..Len(cmds') : i \in 1..Len(cmds) \/ i = Len(cmds) + 1
  BY <1>2
<1>5. c.type = "roch" => cmds = <<>> /\ timer = None
  <2>1. c.type = "roch" => Quiet
    BY <1>1 DEF OwnInv
  <2>2. cmds # <<>> => 1 \in 1..Len(cmds)
    BY <1>0 DEF TypeOK
  <2> QED
    BY <1>3, <2>1, <2>2 DEF Quiet
<1>6. c.type = "cancel" => timer = None
  BY <1>1 DEF OwnInv
<1>7. ASSUME NEW i \in 1..Len(cmds) PROVE CmdOwn(i)'
  <2>1. c.type # "roch"
    BY <1>5
  <2>2. \A j \in 1..Len(cmds') : cmds'[j].of # None => j \in 1..Len(cmds) /\ cmds[j].of # None
    BY <1>2, <1>4
  <2>3. cmds'[i] = cmds[i] /\ CmdOwn(i) /\ cmds[i].of # None /\ cmds[i].type = "cancel"
    BY <1>2, <1>3
  <2> QED
    BY <2>1, <2>2, <2>3 DEF CmdOwn
<1>8. ASSUME NEW k, k = Len(cmds) + 1 PROVE CmdOwn(k)'
  <2>1. c.type = "roch" => Quiet'
    <3> SUFFICES ASSUME c.type = "roch" PROVE Quiet'
      OBVIOUS
    <3>1. Len(cmds) = 0
      BY <1>5
    <3>2. \A i \in 1..Len(cmds') : i = Len(cmds) + 1
      BY <1>2, <3>1
    <3> QED
      BY <1>2, <1>5, <3>2 DEF Quiet
  <2> QED
    BY <1>1, <1>2, <1>6, <1>8, <2>1 DEF CmdOwn
<1>9. ASSUME NEW i \in 1..Len(cmds') PROVE CmdOwn(i)'
  <2>1. CASE i \in 1..Len(cmds)
    BY <1>7, <2>1
  <2>2. CASE i = Len(cmds) + 1
    BY <1>8, <2>2
  <2> QED
    BY <1>4, <2>1, <2>2
<1>10. timer' # None => is_ro_ch' /\ timer' = remain_on_ch_cookie'
  BY <1>1, <1>5 DEF OwnInv
<1>11. upc' \in {"rem_wait", "can_wait"} =>
         timer' = None /\ (cmds' # <<>> => cmds'[Len(cmds')].of = None)
  BY <1>1, <1>2, <1>6
<1>12. upc' \in Waits
  BY <1>1
<1> QED
  BY <1>9, <1>10, <1>11, <1>12 DEF OwnInv, Waits

(* A wait ends: in time only when the command was handled, and with it     *)
(* everything queued before.                                               *)
LEMMA OwnWait ==
  ASSUME TypeInv, OwnInv, rtw_sctx_wait
  PROVE  OwnInv'
<1> SUFFICES ASSUME ~trouble' PROVE OwnInv'
  BY DEF OwnInv
<1>1. /\ upc \in Waits /\ upc' = IF upc = "rem_wait" THEN "rem_flag" ELSE "idle"
      /\ UNCHANGED <<cmds, is_ro_ch, remain_on_ch_cookie, trouble, timer>> /\ acked
  BY WaitsAreThese DEF rtw_sctx_wait, threadVars, reqVars
<1>2. \A i \in 1..Len(cmds) : cmds[i].of # None /\ ~cmds[i].sync
  BY <1>1, OnlyTimerCmds DEF TypeInv, SyncInv
<1>3. upc = "rem_wait" => Quiet
  <2>1. cmds # <<>> => Len(cmds) \in 1..Len(cmds)
    BY DEF TypeInv, TypeOK
  <2>2. upc = "rem_wait" => timer = None /\ (cmds # <<>> => cmds[Len(cmds)].of = None)
    BY <1>1 DEF OwnInv
  <2>3. upc = "rem_wait" => cmds = <<>>
    BY <1>2, <2>1, <2>2
  <2> QED
    BY <2>2, <2>3 DEF Quiet
<1> QED
  BY <1>1, <1>2, <1>3, OwnKept

LEMMA OwnTimer ==
  ASSUME TypeInv, OwnInv, rtw_ro_ch_timer_process
  PROVE  OwnInv'
<1> SUFFICES ASSUME ~trouble' PROVE OwnInv'
  BY DEF OwnInv
<1> DEFINE c == Cmd("cancel", None, None, FALSE, timer)
<1>0. TypeOK
  BY DEF TypeInv
<1>1. c \in Cmds /\ c.sync = FALSE /\ c.of = timer /\ c.type = "cancel"
  BY <1>0, TypeTo DEF Cmd, Cmds
<1>2. /\ timer # None /\ timer' = None /\ cmds' = Append(cmds, c)
      /\ UNCHANGED <<is_ro_ch, remain_on_ch_cookie, upc, trouble>>
  BY Zenon DEF rtw_ro_ch_timer_process, Enqueue, reqVars, userVars
<1> HIDE DEF c
<1>3. /\ Len(cmds) \in Nat /\ Len(cmds') = Len(cmds) + 1
      /\ \A i \in 1..Len(cmds) : cmds'[i] = cmds[i]
      /\ cmds'[Len(cmds) + 1] = c
  BY <1>0, <1>1, <1>2, AppendCmd DEF TypeOK
<1>4. \A i \in 1..Len(cmds') : i \in 1..Len(cmds) \/ i = Len(cmds) + 1
  BY <1>3
<1>5. /\ is_ro_ch /\ timer = remain_on_ch_cookie
      /\ upc \notin {"rem_flag", "rem_fill", "rem_cancel", "can_cancel", "rem_wait", "can_wait"}
  BY <1>2 DEF OwnInv, Quiet
<1>6. \A i \in 1..Len(cmds) : cmds[i].of = None /\ cmds[i].sync /\ cmds[i].type \notin {"cancel", "roch"}
  BY <1>2 DEF OwnInv, CmdOwn, Quiet
<1>7. ASSUME NEW i \in 1..Len(cmds') PROVE CmdOwn(i)'
  <2>1. CASE i \in 1..Len(cmds)
    BY <1>3, <1>6, <2>1 DEF CmdOwn
  <2>2. CASE i = Len(cmds) + 1
    <3>1. \A j \in 1..Len(cmds') : cmds'[j].of # None => j = i
      BY <1>3, <1>4, <1>6, <2>2
    <3> QED
      BY <1>1, <1>2, <1>3, <1>5, <2>2, <3>1 DEF CmdOwn
  <2> QED
    BY <1>4, <2>1, <2>2
<1> QED
  BY <1>2, <1>5, <1>7 DEF OwnInv

(* The command thread takes the first command.  If it is the timer's, no   *)
(* other is; if it cancels for user space, nothing is left; and a new      *)
(* request is alone.                                                       *)
LEMMA OwnTaken ==
  ASSUME TypeInv, OwnInv, cmds # <<>>, cmds' = Tail(cmds),
         UNCHANGED <<upc, trouble, remain_on_ch_cookie>>,
         is_ro_ch' = is_ro_ch \/ Head(cmds).type = "cancel",
         \/ timer' = timer
         \/ Head(cmds).type = "roch" /\ is_ro_ch /\ timer' = Head(cmds).cookie
  PROVE  OwnInv'
<1> SUFFICES ASSUME ~trouble PROVE OwnInv'
  BY DEF OwnInv
<1>0. TypeOK /\ SyncInv
  BY DEF TypeInv
<1>1. /\ Head(cmds) = cmds[1] /\ Len(cmds) \in Nat \ {0} /\ Len(cmds') = Len(cmds) - 1
      /\ \A i \in 1..Len(cmds') : cmds'[i] = cmds[i + 1] /\ i + 1 \in 1..Len(cmds)
  BY <1>0, TailCmd DEF TypeOK
<1>2. \A i \in 1..Len(cmds) : CmdOwn(i)
  BY DEF OwnInv
<1>3. 1 \in 1..Len(cmds) /\ CmdOwn(1)
  BY <1>1, <1>2
<1>4. CASE Head(cmds).type = "roch" \/ (Head(cmds).type = "cancel" /\ Head(cmds).of = None)
  <2>1. Len(cmds) = 1
    <3>1. CASE Head(cmds).type = "roch"
      <4>1. \A i \in 1..Len(cmds) : cmds[i].sync
        BY <1>1, <1>2, <1>3, <3>1 DEF CmdOwn, Quiet
      <4>2. Len(cmds) \in 1..Len(cmds)
        BY <1>1
      <4>3. Len(cmds) = 1
        BY <1>0, <1>3, <4>1, <4>2 DEF SyncInv
      <4> QED
        BY <4>3
    <3>2. CASE Head(cmds).type = "cancel" /\ Head(cmds).of = None
      BY <1>1, <1>3, <3>2 DEF CmdOwn
    <3> QED
      BY <1>4, <3>1, <3>2
  <2>2. 1..Len(cmds') = {} /\ cmds' = <<>>
    BY <1>0, <1>1, <2>1 DEF TypeOK
  <2>3. timer = None
    BY <1>1, <1>3, <1>4 DEF CmdOwn, Quiet
  <2>4. CASE timer' = timer
    BY <2>2, <2>3, <2>4 DEF OwnInv, Quiet
  <2>5. CASE Head(cmds).type = "roch" /\ is_ro_ch /\ timer' = Head(cmds).cookie
    <3>1. upc = "roch_wait" /\ Head(cmds).cookie = remain_on_ch_cookie
      BY <1>1, <1>3, <2>5 DEF CmdOwn
    <3>2. is_ro_ch'
      BY <2>5
    <3> QED
      BY <2>2, <2>5, <3>1, <3>2 DEF OwnInv
  <2> QED
    BY <2>4, <2>5
<1>5. CASE Head(cmds).type # "roch" /\ ~(Head(cmds).type = "cancel" /\ Head(cmds).of = None)
  <2>1. timer' = timer
    BY <1>5
  <2>2. CASE Head(cmds).of # None
    <3>1. timer = None /\ \A j \in 1..Len(cmds) : cmds[j].of # None => j = 1
      BY <1>1, <1>3, <2>2 DEF CmdOwn
    <3>2. \A i \in 1..Len(cmds') : cmds'[i].of = None
      <4>1. \A i \in 1..Len(cmds') : cmds'[i].of # None => i + 1 = 1
        BY <1>1, <3>1
      <4> QED
        BY <4>1
    <3>3. Quiet'
      BY <2>1, <3>1, <3>2 DEF Quiet
    <3>4. ASSUME NEW i \in 1..Len(cmds') PROVE CmdOwn(i)'
      <4>1. PICK k \in 1..Len(cmds) : k = i + 1 /\ cmds'[i] = cmds[k] /\ CmdOwn(k)
        BY <1>1, <1>2
      <4>2. cmds'[i].of = None /\ (k = Len(cmds) => i = Len(cmds'))
        <5>1. k = Len(cmds) => i = Len(cmds) - 1
          BY <4>1
        <5> QED
          BY <1>1, <3>2, <5>1
      <4>3. /\ cmds'[i].sync
            /\ cmds'[i].type = "cancel" => i = Len(cmds')
            /\ cmds'[i].type = "roch" => cmds'[i].cookie = remain_on_ch_cookie /\ upc = "roch_wait"
        BY <4>1, <4>2 DEF CmdOwn
      <4> QED
        BY <2>1, <3>1, <3>3, <4>2, <4>3 DEF CmdOwn
    <3>5. cmds' # <<>> => cmds'[Len(cmds')] = cmds[Len(cmds)]
      BY <1>0, <1>1 DEF TypeOK
    <3> QED
      BY <2>1, <3>1, <3>3, <3>4, <3>5 DEF OwnInv
  <2>3. CASE Head(cmds).of = None
    <3>1. is_ro_ch' = is_ro_ch
      BY <1>5, <2>3
    <3>2. Quiet => Quiet'
      BY <1>1, <2>1 DEF Quiet
    <3>3. ASSUME NEW i \in 1..Len(cmds') PROVE CmdOwn(i)'
      <4>1. PICK k \in 1..Len(cmds) : k = i + 1 /\ cmds'[i] = cmds[k] /\ CmdOwn(k)
        BY <1>1, <1>2
      <4>2. k = Len(cmds) => i = Len(cmds')
        <5>1. k = Len(cmds) => i = Len(cmds) - 1
          BY <4>1
        <5> QED
          BY <1>1, <5>1
      <4>3. cmds'[i].of # None => \A j \in 1..Len(cmds') : cmds'[j].of # None => i = j
        <5>1. cmds'[i].of # None => \A j \in 1..Len(cmds') : cmds'[j].of # None => i + 1 = j + 1
          BY <1>1, <4>1 DEF CmdOwn
        <5> QED
          BY <5>1
      <4>4. cmds'[i].sync <=> cmds'[i].of = None
        BY <4>1 DEF CmdOwn
      <4>5. cmds'[i].of # None => /\ timer' = None /\ is_ro_ch' /\ cmds'[i].of = remain_on_ch_cookie
                                  /\ cmds'[i].type = "cancel"
        BY <2>1, <3>1, <4>1 DEF CmdOwn
      <4>6. cmds'[i].of = None /\ cmds'[i].type = "cancel" => timer' = None /\ i = Len(cmds')
        BY <2>1, <4>1, <4>2 DEF CmdOwn
      <4>7. cmds'[i].type = "roch" =>
              cmds'[i].cookie = remain_on_ch_cookie /\ Quiet' /\ upc = "roch_wait"
        BY <3>2, <4>1 DEF CmdOwn
      <4> QED
        BY <4>3, <4>4, <4>5, <4>6, <4>7 DEF CmdOwn
    <3>4. cmds' # <<>> => cmds'[Len(cmds')] = cmds[Len(cmds)]
      BY <1>0, <1>1 DEF TypeOK
    <3> QED
      BY <2>1, <3>1, <3>2, <3>3, <3>4 DEF OwnInv
  <2> QED
    BY <2>2, <2>3
<1> QED
  BY <1>4, <1>5

LEMMA OwnCall ==
  ASSUME TypeInv, OwnInv, Call
  PROVE  OwnInv'
<1>1. ASSUME NEW ch \in Channels, cfg80211_rtw_remain_on_channel(ch) PROVE OwnInv'
  <2>1. /\ upc = "idle" /\ upc' = (IF is_ro_ch THEN "rem_timer" ELSE "rem_flag")
        /\ UNCHANGED <<cmds, is_ro_ch, remain_on_ch_cookie, trouble, timer>>
    BY <1>1 DEF cfg80211_rtw_remain_on_channel, threadVars, reqVars
  <2>2. ~trouble /\ ~is_ro_ch => Quiet
    BY DEF OwnInv, CmdOwn, Quiet
  <2> QED
    BY <2>1, <2>2, OwnKept
<1>2. ASSUME NEW ch \in Channels, cfg80211_rtw_mgmt_tx(ch) PROVE OwnInv'
  <2> DEFINE c == Cmd("tx", None, ch, TRUE, None)
  <2> DEFINE n == [wait |-> "tx_wait", fail |-> "idle"]
  <2>1. /\ upc = "idle" /\ Queued(c, n) /\ timer' = timer /\ is_ro_ch' = is_ro_ch
        /\ remain_on_ch_cookie' = remain_on_ch_cookie
    BY <1>2 DEF cfg80211_rtw_mgmt_tx, reqVars
  <2>2. c \in Cmds /\ c.sync /\ c.of = None /\ c.type = "tx" /\ n.wait = "tx_wait"
    BY RochAssumption DEF Cmd, Cmds, None
  <2> HIDE DEF c, n
  <2> QED
    BY <2>1, <2>2, OwnQueued DEF Waits
<1>3. ASSUME NEW k \in 1..ro_ch_cookie_gen, cfg80211_rtw_cancel_remain_on_channel(k) PROVE OwnInv'
  BY <1>3, OwnKept DEF cfg80211_rtw_cancel_remain_on_channel, threadVars, reqVars
<1> QED
  BY <1>1, <1>2, <1>3 DEF Call

LEMMA OwnOperation ==
  ASSUME TypeInv, OwnInv, Operation
  PROVE  OwnInv'
<1>1. CASE rtw_sctx_wait
  BY <1>1, OwnWait
<1>2. CASE _cancel_timer_ex
  BY <1>2, OwnKept DEF _cancel_timer_ex, threadVars, reqVars
<1>3. CASE remain_cancels_roch
  <2> DEFINE c == Cmd("cancel", None, None, TRUE, None)
  <2> DEFINE n == [wait |-> "rem_wait", fail |-> "rem_flag"]
  <2>1. /\ upc = "rem_cancel" /\ Queued(c, n) /\ timer' = timer /\ is_ro_ch' = is_ro_ch
        /\ remain_on_ch_cookie' = remain_on_ch_cookie
    BY <1>3 DEF remain_cancels_roch, reqVars
  <2>2. c \in Cmds /\ c.sync /\ c.of = None /\ c.type = "cancel" /\ n.wait = "rem_wait"
    BY RochAssumption DEF Cmd, Cmds, None
  <2> HIDE DEF c, n
  <2> QED
    BY <2>1, <2>2, OwnQueued DEF Waits
<1>4. CASE rtw_cfg80211_set_is_roch
  <2> SUFFICES ASSUME ~trouble' PROVE OwnInv'
    BY DEF OwnInv
  <2>1. /\ upc = "rem_flag" /\ upc' = "rem_fill"
        /\ UNCHANGED <<cmds, remain_on_ch_cookie, trouble, timer>>
    BY <1>4 DEF rtw_cfg80211_set_is_roch, threadVars
  <2>2. Quiet
    BY <2>1 DEF OwnInv
  <2>3. 1..Len(cmds) = {}
    BY <2>1, <2>2, OnlyTimerCmds DEF TypeInv, Quiet, Waits
  <2>4. Quiet' /\ timer' = None
    BY <2>1, <2>2 DEF Quiet
  <2> QED
    BY <2>1, <2>3, <2>4 DEF OwnInv
<1>5. CASE rtw_roch_cmd
  <2> DEFINE c == Cmd("roch", ucookie, uch, TRUE, None)
  <2> DEFINE n == [wait |-> "roch_wait", fail |-> "idle"]
  <2>1. /\ upc = "rem_fill" /\ Queued(c, n) /\ timer' = timer /\ is_ro_ch' = is_ro_ch
        /\ remain_on_ch_cookie' = ucookie
    BY <1>5 DEF rtw_roch_cmd
  <2>2. /\ c \in Cmds /\ c.sync /\ c.of = None /\ c.type = "roch" /\ c.cookie = ucookie
        /\ n.wait = "roch_wait"
    BY RochAssumption DEF Cmd, Cmds, None, TypeInv, TypeOK
  <2> HIDE DEF c, n
  <2> QED
    BY <2>1, <2>2, OwnQueued DEF Waits
<1>6. CASE rtw_cancel_roch_cmd
  <2> DEFINE c == Cmd("cancel", ucookie, None, TRUE, None)
  <2> DEFINE n == [wait |-> "can_wait", fail |-> "idle"]
  <2>1. /\ upc = "can_cancel" /\ Queued(c, n) /\ timer' = timer /\ is_ro_ch' = is_ro_ch
        /\ remain_on_ch_cookie' = remain_on_ch_cookie
    BY <1>6 DEF rtw_cancel_roch_cmd, reqVars
  <2>2. c \in Cmds /\ c.sync /\ c.of = None /\ c.type = "cancel" /\ n.wait = "can_wait"
    BY RochAssumption DEF Cmd, Cmds, None, TypeInv, TypeOK
  <2> HIDE DEF c, n
  <2> QED
    BY <2>1, <2>2, OwnQueued DEF Waits
<1> QED
  BY <1>1, <1>2, <1>3, <1>4, <1>5, <1>6 DEF Operation

LEMMA OwnThread ==
  ASSUME TypeInv, OwnInv, Thread
  PROVE  OwnInv'
<1>1. CASE rtw_ro_ch_handler
  BY <1>1, OwnTaken DEF rtw_ro_ch_handler, Takes, Armed, reqVars
<1>2. CASE rtw_cancel_ro_ch_handler
  BY <1>2, OwnTaken DEF rtw_cancel_ro_ch_handler, Takes
<1>3. CASE _cfg80211_rtw_mgmt_tx
  BY <1>3, OwnTaken DEF _cfg80211_rtw_mgmt_tx, Takes, reqVars, userVars
<1>4. CASE ro_ch_wdev_cleared
  BY <1>4, OwnKept DEF ro_ch_wdev_cleared, OwnInv
<1>5. CASE mgmt_tx_exit
  BY <1>5, OwnKept DEF mgmt_tx_exit, reqVars, OwnInv
<1> QED
  BY <1>1, <1>2, <1>3, <1>4, <1>5 DEF Thread

LEMMA OwnStep == TypeInv /\ OwnInv /\ [Next]_vars => OwnInv'
<1> SUFFICES ASSUME TypeInv, OwnInv, [Next]_vars PROVE OwnInv'
  OBVIOUS
<1>1. CASE Call
  BY <1>1, OwnCall
<1>2. CASE Operation
  BY <1>2, OwnOperation
<1>3. CASE rtw_ro_ch_timer_process
  BY <1>3, OwnTimer
<1>4. CASE Thread
  BY <1>4, OwnThread
<1>5. CASE Link \/ UNCHANGED vars
  <2>1. UNCHANGED <<cmds, is_ro_ch, remain_on_ch_cookie, trouble, timer, upc>>
    BY <1>5 DEF Link, join_cmd_hdl, rtw_join_done_chk_ch, handshake_done, mlmeext_disconnect,
                reqVars, threadVars, userVars, vars
  <2> QED
    BY <2>1, OwnKept DEF OwnInv
<1> QED
  BY <1>1, <1>2, <1>3, <1>4, <1>5 DEF Next

(* The request that a command of the timer ends is the one whose timer     *)
(* queued it, for every number of requests: rtw_cancel_ro_ch_handler ends  *)
(* what it finds, and what it finds is right only because an operation     *)
(* that starts another request waits for the queue first.                  *)
THEOREM TimerIsOfItsRequest == Spec => TimerEndsItsOwn
<1> DEFINE Own == is_ro_ch /\ ~is_ro_ch' /\ ~trouble /\ Head(cmds).of # None
                    => Head(cmds).of = remain_on_ch_cookie
<1>1. Init => OwnInv
  BY DEF Init, OwnInv, Quiet
<1>2. TypeInv /\ OwnInv /\ [Next]_vars => [Own]_vars
  <2> SUFFICES ASSUME TypeInv, OwnInv, [Next]_vars, is_ro_ch, ~is_ro_ch', ~trouble, Head(cmds).of # None
               PROVE  Head(cmds).of = remain_on_ch_cookie
    OBVIOUS
  <2>1. is_ro_ch' = is_ro_ch \/ is_ro_ch' \/ rtw_cancel_ro_ch_handler
    <3>1. CASE Call
      BY <3>1 DEF Call, cfg80211_rtw_remain_on_channel, cfg80211_rtw_mgmt_tx,
                  cfg80211_rtw_cancel_remain_on_channel, reqVars
    <3>2. CASE Operation
      BY <3>2 DEF Operation, rtw_sctx_wait, _cancel_timer_ex, remain_cancels_roch,
                  rtw_cfg80211_set_is_roch, rtw_roch_cmd, rtw_cancel_roch_cmd, reqVars
    <3>3. CASE Thread
      BY <3>3 DEF Thread, rtw_ro_ch_handler, _cfg80211_rtw_mgmt_tx, ro_ch_wdev_cleared,
                  mgmt_tx_exit, reqVars
    <3>4. CASE rtw_ro_ch_timer_process \/ Link \/ UNCHANGED vars
      BY <3>4 DEF rtw_ro_ch_timer_process, Link, join_cmd_hdl, rtw_join_done_chk_ch,
                  handshake_done, mlmeext_disconnect, reqVars, vars
    <3> QED
      BY <3>1, <3>2, <3>3, <3>4 DEF Next
  <2>2. cmds # <<>>
    BY <2>1 DEF rtw_cancel_ro_ch_handler, Takes
  <2>3. Head(cmds) = cmds[1] /\ 1 \in 1..Len(cmds)
    BY <2>2, TailCmd DEF TypeInv, TypeOK
  <2>4. CmdOwn(1)
    BY <2>3 DEF OwnInv
  <2> QED
    BY <2>3, <2>4 DEF CmdOwn
<1> QED
  BY <1>1, <1>2, TypeInit, TypeStep, OwnStep, PTL DEF Spec, TimerEndsItsOwn
=============================================================================
