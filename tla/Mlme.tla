-------------------------------- MODULE Mlme --------------------------------
(***************************************************************************)
(* Scanning, joining, roaming and disconnecting of a station:              *)
(* core/rtw_mlme.c, core/rtw_mlme_ext.c, core/rtw_ioctl_set.c and the      *)
(* cfg80211 operations of os_dep/linux/ioctl_cfg80211.c.                   *)
(*                                                                         *)
(* Four kinds of actors share the state: a process in a cfg80211 operation *)
(* (one at a time, cfg80211 holds the RTNL), the command thread, the       *)
(* timers and the receive tasklet. A timer handler or the tasklet runs to  *)
(* its end before another actor does; a command handler and a process do   *)
(* not, so what they do between two critical sections is a step.           *)
(*                                                                         *)
(* The functions that run inside one another's critical section are        *)
(* operators on the record drv: they give the new record, or the set of    *)
(* records when the outcome depends on what is not modelled (the scanned   *)
(* networks, traffic, the choice of a channel).                            *)
(***************************************************************************)
EXTENDS Integers, Sequences, FiniteSets

CONSTANTS
  MaxRoam,     \* registrypriv.max_roaming_times
  ReLimit,     \* REAUTH_LIMIT and REASSOC_LIMIT
  NumCh,       \* channels of a scan
  MaxQueue,    \* bound: no call starts while as many commands wait, no frame comes while more do
  Operations   \* the cfg80211 operations that the run calls

ASSUME MlmeAssumption ==
  /\ MaxRoam \in Nat /\ ReLimit \in Nat /\ NumCh \in Nat \ {0} /\ MaxQueue \in Nat \ {0}
  /\ Operations \subseteq {"connect", "disconnect", "scan", "abort_scan"}

VARIABLES
  drv,        \* mlme_priv, mlme_ext_priv, rtw_wdev_priv and the command queue
  pc, call,   \* where the process is, and in which operation
  thread,     \* where the command thread is in an event callback
  leaving     \* history: "call" in a disconnect, "disturbed" once a wait of it ran out or
              \* the AP was lost, "left" from its undisturbed return to the next call
              \* of it or of connect, "no" otherwise

vars == <<drv, pc, call, thread, leaving>>

Flags == {"SURVEY", "LINKING", "ASOC"}
ExtStates == {"NULL", "AUTH_NULL", "AUTH", "ASSOC", "ASSOC_SUCCESS"}
Linking == {"AUTH_NULL", "AUTH", "ASSOC"}
Commands == {"SURVEY", "JOIN", "DISCONNECT", "DISCONNECT_ACK", "FREE_ASSOC",
             "SURVEY_DONE", "STADEL", "STADEL_ROAM"}
Queued == {drv.cmd_queue[i] : i \in 1..Len(drv.cmd_queue)}

set_fwstate(s, f) == [s EXCEPT !.fw_state = @ \cup f]
clr_fwstate(s, f) == [s EXCEPT !.fw_state = @ \ f]
rtw_enqueue_cmd(s, c) == [s EXCEPT !.cmd_queue = Append(@, c)]

-----------------------------------------------------------------------------
(* Functions whose callers hold pmlmepriv->lock.                           *)

rtw_set_to_roam(s, n) == [s EXCEPT !.to_roam = n, !.to_join = @ /\ n # 0]

rtw_indicate_disconnect_KeepLinking(s) ==  \* mutant: the flag is not cleared
  [clr_fwstate(s, {"ASOC"}) EXCEPT !.connect_req = @ /\ s.to_roam > 0]

(* With retries left the upper layer is not told, nor is its request       *)
(* answered.                                                               *)
rtw_indicate_disconnect(s) ==
  [clr_fwstate(s, {"LINKING", "ASOC"}) EXCEPT !.connect_req = @ /\ s.to_roam > 0]

rtw_indicate_connect(s) ==
  [rtw_set_to_roam(set_fwstate(s, {"ASOC"}), 0) EXCEPT
     !.connect_req = @ /\ "ASOC" \in s.fw_state]

(* A scan may also be denied for reasons that are not modelled.            *)
rtw_sitesurvey_condition_check(s) == s.fw_state \cap {"LINKING", "SURVEY"} = {}

rtw_sitesurvey_cmd(s) ==
  [rtw_enqueue_cmd(set_fwstate(s, {"SURVEY"}), "SURVEY") EXCEPT !.scan_to_timer = TRUE]

(* A candidate was found. The command that frees the association's        *)
(* resources is left out: nothing modelled depends on them.                *)
rtw_select_and_join(s) ==
  LET left == IF "ASOC" \in s.fw_state
              THEN rtw_indicate_disconnect(rtw_enqueue_cmd(s, "DISCONNECT"))
              ELSE s
  IN rtw_enqueue_cmd(set_fwstate(left, {"LINKING"}), "JOIN")

JoinStarted(s) == [rtw_select_and_join(s) EXCEPT !.to_join = FALSE, !.assoc_timer = TRUE]

(* The outcomes of a rtw_do_join that returns _SUCCESS: a network to join  *)
(* was found, or it is looked for first.                                   *)
rtw_do_join(s) ==
  LET idle == clr_fwstate(s, {"LINKING"}) IN
    {JoinStarted(s)} \cup
    {[rtw_sitesurvey_cmd(t) EXCEPT !.to_join = TRUE] :
       t \in {u \in {idle} : rtw_sitesurvey_condition_check(u)}}

rtw_do_join_fail(s) == [clr_fwstate(s, {"LINKING"}) EXCEPT !.to_join = FALSE]

Attempts(s, tries) == UNION {rtw_do_join([s EXCEPT !.to_roam = n]) : n \in tries}

rtw_roaming(s) ==
  IF s.to_roam = 0 THEN {s}
  ELSE Attempts(s, 1..s.to_roam) \cup
       {rtw_indicate_disconnect([rtw_do_join_fail(s) EXCEPT !.to_roam = 0])}

(* What report_join_res does before it enqueues the event; the event's     *)
(* handler only programs the chip. A success that comes when no join is    *)
(* waited for, or for a network that left the scanned queue, is ignored.   *)
rtw_joinbss_event_prehandle(s, joined) ==
  IF ~joined THEN {[clr_fwstate(s, {"LINKING"}) EXCEPT !.assoc_timer = TRUE]}
  ELSE IF "LINKING" \notin s.fw_state THEN {s}
  ELSE {s, [rtw_indicate_connect([s EXCEPT !.fw_state = {}]) EXCEPT !.assoc_timer = FALSE]}

(* Every change of pmlmeinfo->state. start_clnt_auth resets reauth_count   *)
(* and reassoc_count, and each is used in its own state: count stands for  *)
(* both.                                                                   *)
set_state(s, new) == [s EXCEPT !.state = new, !.count = 0]

rtw_cfg80211_indicate_scan_done(s) == [s EXCEPT !.scan_request = FALSE]
rtw_mlmeext_disconnect(s) == [set_state(s, "NULL") EXCEPT !.link_timer = FALSE]

-----------------------------------------------------------------------------
(* Timers and received frames change drv alone.                            *)
Handler(outcomes) == drv' \in outcomes /\ UNCHANGED <<pc, call, thread, leaving>>

TriesLeft_NotCounted(s) == 1..s.to_roam  \* mutant: a try that failed is not counted
(* to_roam after the join that timed out and those that cannot be started. *)
TriesLeft(s) == 1..(s.to_roam - 1)

(* Timeout of a join, or its failure: assoc_timer is set to 1 ms for that. *)
rtw_join_timeout_handler ==
  LET s == [drv EXCEPT !.assoc_timer = FALSE]
      lost == IF s.to_roam > 1 THEN rtw_do_join_fail(s) ELSE s
  IN /\ drv.assoc_timer
     /\ Handler(Attempts(s, TriesLeft(s)) \cup
                {rtw_indicate_disconnect([lost EXCEPT !.to_roam = 0])})

rtw_scan_timeout_handler ==
  /\ drv.scan_to_timer
  /\ Handler({rtw_cfg80211_indicate_scan_done(
                [clr_fwstate(drv, {"SURVEY"}) EXCEPT !.scan_to_timer = FALSE])})

survey_timer_hdl ==
  LET s == [drv EXCEPT !.survey_timer = FALSE] IN
    /\ drv.survey_timer
    /\ Handler({IF s.scan_state = "DISABLE" THEN s ELSE rtw_enqueue_cmd(s, "SURVEY")})

LinkTimeout_OneMore(s) ==  \* mutant: the limit is compared before it counts
  CASE s.state \in {"AUTH", "ASSOC"} /\ ~s.join_abort ->
         IF s.count > ReLimit THEN rtw_joinbss_event_prehandle(set_state(s, "NULL"), FALSE)
         ELSE {[s EXCEPT !.count = @ + 1, !.link_timer = TRUE]}
    [] s.state = "AUTH_NULL" -> rtw_joinbss_event_prehandle(set_state(s, "NULL"), FALSE)
    [] OTHER -> {s}

(* Outcomes of link_timer_hdl: the join is aborted or given up, the frame  *)
(* is sent again, or nothing is being joined.                              *)
LinkTimeout(s) ==
  LET failed == rtw_joinbss_event_prehandle(set_state(s, "NULL"), FALSE) IN
    CASE s.join_abort /\ s.state # "NULL" -> failed
      [] ~s.join_abort /\ s.state = "AUTH_NULL" -> failed
      [] ~s.join_abort /\ s.state \in {"AUTH", "ASSOC"} ->
           IF s.count + 1 > ReLimit THEN failed
           ELSE {[s EXCEPT !.count = @ + 1, !.link_timer = TRUE]}
      [] OTHER -> {s}

link_timer_hdl ==
  drv.link_timer /\ Handler(LinkTimeout([drv EXCEPT !.link_timer = FALSE]))

Room == Len(drv.cmd_queue) <= MaxQueue

(* A beacon of the network being joined.                                   *)
OnBeacon ==
  /\ Room /\ drv.state = "AUTH_NULL"
  /\ Handler({IF drv.join_abort THEN [drv EXCEPT !.link_timer = TRUE]
              ELSE [set_state(drv, "AUTH") EXCEPT !.link_timer = TRUE]})

(* A refusal sets the timer to 1 ms; an acceptance starts the association. *)
OnAuthClient ==
  /\ Room /\ drv.state = "AUTH" /\ ~drv.join_abort
  /\ Handler({[drv EXCEPT !.link_timer = TRUE],
              [set_state(drv, "ASSOC") EXCEPT !.link_timer = TRUE]})

OnAssocRsp ==
  LET s == [drv EXCEPT !.link_timer = FALSE] IN
    /\ Room /\ drv.state = "ASSOC" /\ ~drv.join_abort
    /\ Handler(rtw_joinbss_event_prehandle(set_state(s, "NULL"), FALSE) \cup
               rtw_joinbss_event_prehandle(set_state(s, "ASSOC_SUCCESS"), TRUE))

receive_disconnect_NoEvent(s, event) ==  \* mutant: the association's end is not reported
  IF s.state = "ASSOC_SUCCESS" THEN {set_state(s, "NULL")}
  ELSE rtw_joinbss_event_prehandle(set_state(s, "NULL"), FALSE)

(* The network is lost: the station is deleted, or the join has failed.    *)
receive_disconnect(s, event) ==
  IF s.state = "ASSOC_SUCCESS" THEN {set_state(rtw_enqueue_cmd(s, event), "NULL")}
  ELSE rtw_joinbss_event_prehandle(set_state(s, "NULL"), FALSE)

OnDeAuth ==
  /\ Room /\ drv.state \in Linking \cup {"ASSOC_SUCCESS"}
  /\ Handler(receive_disconnect(drv, "STADEL"))

-----------------------------------------------------------------------------
(* The command thread.                                                     *)
Process(outcomes) ==
  drv' \in outcomes /\ UNCHANGED <<pc, call, leaving>>
Next_cmd == drv.cmd_queue # <<>> /\ thread = "idle"
Taken == [drv EXCEPT !.cmd_queue = Tail(@)]

(* The first command of a scan announces power save to the AP and comes    *)
(* again; after it there is one for every channel. An abort skips the      *)
(* channels that are left.                                                 *)
sitesurvey_cmd_hdl ==
  LET idx == IF drv.scan_state = "PROCESS" THEN drv.channel_idx + 1 ELSE 0 IN
    /\ Next_cmd /\ Head(drv.cmd_queue) = "SURVEY"
    /\ Process({IF drv.scan_state = "DISABLE" /\ drv.state = "ASSOC_SUCCESS"
                THEN [Taken EXCEPT !.scan_state = "PS_ANNC_WAIT", !.survey_timer = TRUE]
                ELSE IF drv.scan_abort \/ idx >= NumCh
                THEN rtw_enqueue_cmd([Taken EXCEPT !.scan_state = "DISABLE", !.channel_idx = 0],
                                     "SURVEY_DONE")
                ELSE [Taken EXCEPT !.scan_state = "PROCESS", !.channel_idx = idx,
                                   !.survey_timer = TRUE]})
    /\ UNCHANGED thread

(* The parameters are bad, the channel is not available, or the station    *)
(* waits for a beacon.                                                     *)
join_cmd_hdl ==
  LET left == IF drv.state = "ASSOC_SUCCESS"
              THEN [set_state(Taken, "NULL") EXCEPT !.link_timer = FALSE] ELSE Taken
  IN /\ Next_cmd /\ Head(drv.cmd_queue) = "JOIN"
     /\ Process(rtw_joinbss_event_prehandle(Taken, FALSE) \cup
                rtw_joinbss_event_prehandle(left, FALSE) \cup
                {[set_state(left, "AUTH_NULL") EXCEPT !.link_timer = TRUE, !.assoc_timer = TRUE]})
     /\ UNCHANGED thread

disconnect_hdl ==
  /\ Next_cmd /\ Head(drv.cmd_queue) \in {"DISCONNECT", "DISCONNECT_ACK"}
  /\ Process({rtw_mlmeext_disconnect(Taken)}) /\ UNCHANGED thread

free_assoc_resources_hdl ==
  /\ Next_cmd /\ Head(drv.cmd_queue) = "FREE_ASSOC"
  /\ Process({Taken}) /\ UNCHANGED thread

(* rtw_surveydone_event_callback, up to the release of the lock.           *)
surveydone_event ==
  /\ Next_cmd /\ Head(drv.cmd_queue) = "SURVEY_DONE"
  /\ Process({[clr_fwstate(Taken, {"SURVEY"}) EXCEPT !.scan_abort = FALSE]})
  /\ thread' = "surveydone_join"

(* No candidate: with retries left it looks again if it may.               *)
NoCandidate(s) ==
  IF s.to_roam > 1 /\ rtw_sitesurvey_condition_check(s)
  THEN {clr_fwstate([rtw_sitesurvey_cmd(s) EXCEPT !.to_roam = @ - 1, !.to_join = TRUE],
                    {"LINKING"})}
  ELSE {rtw_indicate_disconnect(IF s.to_roam = 0 THEN s ELSE rtw_set_to_roam(s, 0))}

(* Cancels the timer, takes the lock again and joins if a join waited.     *)
surveydone_join ==
  LET s == [drv EXCEPT !.scan_to_timer = FALSE]
      t == [set_fwstate(s, {"LINKING"}) EXCEPT !.to_join = FALSE]
  IN /\ thread = "surveydone_join"
     /\ Process(IF s.to_join THEN {JoinStarted(t)} \cup NoCandidate(t) ELSE {s})
     /\ thread' = "surveydone_indicate"

surveydone_indicate_Forgotten ==  \* mutant: cfg80211 is not told
  thread = "surveydone_indicate" /\ Process({drv}) /\ thread' = "idle"

surveydone_indicate ==
  /\ thread = "surveydone_indicate"
  /\ Process({rtw_cfg80211_indicate_scan_done(drv)})
  /\ thread' = "idle"

(* rtw_stadel_event_callback before it takes the lock.                     *)
stadel_event ==
  /\ Next_cmd /\ Head(drv.cmd_queue) \in {"STADEL", "STADEL_ROAM"}
  /\ Process({IF drv.state = "ASSOC_SUCCESS" THEN rtw_mlmeext_disconnect(Taken) ELSE Taken})
  /\ thread' = Head(drv.cmd_queue)

(* The history variable, in a step that may disturb a disconnect.          *)
Disturbing(b) == leaving' = IF b /\ leaving = "call" THEN "disturbed" ELSE leaving

StadelRoam(s, roam) ==
  CASE ~roam -> rtw_set_to_roam(s, 0)
    [] roam /\ s.to_roam > 0 -> [s EXCEPT !.to_roam = @ - 1]
    [] OTHER -> rtw_set_to_roam(s, MaxRoam)

rtw_stadel_event_callback ==
  /\ thread \in {"STADEL", "STADEL_ROAM"}
  /\ drv' \in rtw_roaming(rtw_indicate_disconnect(StadelRoam(drv, thread = "STADEL_ROAM")))
  /\ Disturbing(thread = "STADEL_ROAM")
  /\ thread' = "idle"
  /\ UNCHANGED <<pc, call>>

(* The periodic check of the command thread finds the AP silent.           *)
linked_status_chk ==
  /\ Room /\ thread = "idle" /\ drv.state = "ASSOC_SUCCESS"
  /\ Process(receive_disconnect(drv, "STADEL_ROAM")) /\ UNCHANGED thread

-----------------------------------------------------------------------------
(* The cfg80211 operations.                                                *)
May_call(op) == pc = "idle" /\ op \in Operations /\ Len(drv.cmd_queue) < MaxQueue
ScanAborting(s) == [s EXCEPT !.scan_abort = TRUE]
JoinAborting(s) == [s EXCEPT !.scan_abort = FALSE, !.join_abort = TRUE, !.link_timer = TRUE]

cfg80211_rtw_connect ==
  /\ May_call("connect")
  /\ drv' = ScanAborting(drv) /\ call' = "connect" /\ leaving' = "no"
  /\ pc' = IF drv.fw_state \cap {"ASOC", "LINKING"} # {} THEN "scan_wait" ELSE "connect_scan_wait"
  /\ UNCHANGED thread

cfg80211_rtw_disconnect_StillRoam ==  \* mutant: roaming is not given up
  /\ May_call("disconnect")
  /\ drv' = ScanAborting(drv) /\ call' = "disconnect" /\ pc' = "scan_wait"
  /\ leaving' = "call"
  /\ UNCHANGED thread

cfg80211_rtw_disconnect ==
  /\ May_call("disconnect")
  /\ drv' = ScanAborting(rtw_set_to_roam(drv, 0)) /\ call' = "disconnect" /\ pc' = "scan_wait"
  /\ leaving' = "call"
  /\ UNCHANGED thread

cfg80211_rtw_abort_scan ==
  /\ May_call("abort_scan")
  /\ drv' = ScanAborting(drv) /\ call' = "abort_scan" /\ pc' = "scan_wait"
  /\ UNCHANGED <<thread, leaving>>

(* _rtw_wait_scan_done: the scan ends, or the wait of 200 ms runs out and  *)
(* the request is answered while the scan goes on.                         *)
rtw_wait_scan_done ==
  LET late == "SURVEY" \in drv.fw_state
      s == IF late THEN rtw_cfg80211_indicate_scan_done(drv) ELSE drv
  IN /\ pc \in {"scan_wait", "connect_scan_wait"}
     /\ IF call = "abort_scan"
        THEN drv' = [s EXCEPT !.scan_abort = FALSE] /\ pc' = "idle" /\ call' = "none"
        ELSE /\ drv' = JoinAborting(s) /\ UNCHANGED call
             /\ pc' = IF pc = "scan_wait" THEN "join_wait" ELSE "connect_join_wait"
     /\ Disturbing(late)
     /\ UNCHANGED thread

(* _rtw_wait_join_done, at most 300 ms; _rtw_disconnect goes on with       *)
(* rtw_disassoc_cmd, cfg80211_rtw_connect with the new network.            *)
rtw_wait_join_done ==
  LET s == [drv EXCEPT !.join_abort = FALSE] IN
    /\ pc \in {"join_wait", "connect_join_wait"}
    /\ IF pc = "join_wait"
       THEN drv' = rtw_enqueue_cmd(s, "DISCONNECT_ACK") /\ pc' = "disassoc_wait"
       ELSE drv' = s /\ pc' = "connect_set"
    /\ Disturbing("LINKING" \in drv.fw_state \/ drv.connect_req)
    /\ UNCHANGED <<call, thread>>

(* The waits for the two commands: the thread gets to them within the      *)
(* 2000 ms allowed (CmdThread has the wait that runs out).                 *)
rtw_disassoc_cmd_wait ==
  /\ pc = "disassoc_wait" /\ "DISCONNECT_ACK" \notin Queued
  /\ drv' = rtw_enqueue_cmd(drv, "FREE_ASSOC") /\ pc' = "free_wait"
  /\ UNCHANGED <<call, thread, leaving>>

rtw_disconnect_end ==
  LET s == rtw_indicate_disconnect(drv) IN
    /\ pc = "free_wait" /\ "FREE_ASSOC" \notin Queued
    /\ IF call = "connect"
       THEN drv' = ScanAborting(s) /\ pc' = "connect_scan_wait" /\ UNCHANGED <<call, leaving>>
       ELSE /\ drv' = s /\ pc' = "idle" /\ call' = "none"
            /\ leaving' = IF leaving = "call" THEN "left" ELSE "no"
    /\ UNCHANGED thread

(* While a scan runs the join waits for its end; while another join runs   *)
(* the call succeeds and does nothing.                                     *)
rtw_set_802_11_connect ==
  /\ pc = "connect_set" /\ pc' = "connect_req"
  /\ drv' \in IF "SURVEY" \in drv.fw_state THEN {[drv EXCEPT !.to_join = TRUE]}
             ELSE IF "LINKING" \in drv.fw_state THEN {drv}
             ELSE rtw_do_join(drv)
  /\ UNCHANGED <<call, thread, leaving>>

rtw_set_802_11_connect_fail ==
  /\ pc = "connect_set" /\ drv.fw_state \cap {"SURVEY", "LINKING"} = {}
  /\ drv' = rtw_do_join_fail(drv) /\ pc' = "idle" /\ call' = "none"
  /\ UNCHANGED <<thread, leaving>>

(* The request is noted after the join was started.                        *)
connect_request ==
  /\ pc = "connect_req"
  /\ drv' = [drv EXCEPT !.connect_req = TRUE] /\ pc' = "idle" /\ call' = "none"
  /\ UNCHANGED <<thread, leaving>>

(* The conditions are checked without the lock; cfg80211 has one request   *)
(* at a time. A denied scan is answered at once.                           *)
cfg80211_rtw_scan ==
  /\ May_call("scan") /\ ~drv.scan_request
  /\ rtw_sitesurvey_condition_check(drv)
  /\ pc' = "scan_cmd" /\ call' = "scan"
  /\ UNCHANGED <<drv, thread, leaving>>

scan_request ==
  /\ pc = "scan_cmd"
  /\ drv' = [rtw_sitesurvey_cmd(drv) EXCEPT !.scan_request = TRUE]
  /\ pc' = "idle" /\ call' = "none"
  /\ UNCHANGED <<thread, leaving>>

-----------------------------------------------------------------------------

Init ==
  /\ drv = [fw_state |-> {}, to_join |-> FALSE, to_roam |-> 0, connect_req |-> FALSE,
            scan_request |-> FALSE, state |-> "NULL", count |-> 0, join_abort |-> FALSE,
            scan_abort |-> FALSE, assoc_timer |-> FALSE, link_timer |-> FALSE,
            scan_to_timer |-> FALSE, survey_timer |-> FALSE, scan_state |-> "DISABLE",
            channel_idx |-> 0, cmd_queue |-> <<>>]
  /\ pc = "idle" /\ call = "none" /\ thread = "idle" /\ leaving = "no"

Call == cfg80211_rtw_connect \/ cfg80211_rtw_disconnect \/ cfg80211_rtw_abort_scan \/ cfg80211_rtw_scan
InCall ==
  \/ rtw_wait_scan_done \/ rtw_wait_join_done \/ rtw_disassoc_cmd_wait \/ rtw_disconnect_end
  \/ rtw_set_802_11_connect \/ rtw_set_802_11_connect_fail \/ connect_request \/ scan_request
Timer ==
  \/ rtw_join_timeout_handler \/ rtw_scan_timeout_handler \/ survey_timer_hdl \/ link_timer_hdl
Receive == OnBeacon \/ OnAuthClient \/ OnAssocRsp \/ OnDeAuth
Thread ==
  \/ sitesurvey_cmd_hdl \/ join_cmd_hdl \/ disconnect_hdl \/ free_assoc_resources_hdl
  \/ surveydone_event \/ surveydone_join \/ surveydone_indicate
  \/ stadel_event \/ rtw_stadel_event_callback

Next == Call \/ InCall \/ Timer \/ Receive \/ Thread \/ linked_status_chk
Spec == Init /\ [][Next]_vars

(* A timer that is armed fires unless it is cancelled, the thread and a    *)
(* process go on when they can (their waits are bounded), and nothing is   *)
(* assumed of the AP or of further calls.                                  *)
FairSpec ==
  /\ Spec /\ WF_vars(Thread) /\ WF_vars(InCall)
  /\ WF_vars(rtw_join_timeout_handler) /\ WF_vars(rtw_scan_timeout_handler)
  /\ WF_vars(survey_timer_hdl) /\ WF_vars(link_timer_hdl)

-----------------------------------------------------------------------------
DrvType ==
  [fw_state : SUBSET Flags, to_join : BOOLEAN, to_roam : 0..MaxRoam,
   connect_req : BOOLEAN, scan_request : BOOLEAN, state : ExtStates,
   count : 0..ReLimit, join_abort : BOOLEAN, scan_abort : BOOLEAN,
   assoc_timer : BOOLEAN, link_timer : BOOLEAN, scan_to_timer : BOOLEAN,
   survey_timer : BOOLEAN, scan_state : {"DISABLE", "PS_ANNC_WAIT", "PROCESS"},
   channel_idx : 0..(NumCh - 1), cmd_queue : Seq(Commands)]

(* The types of the variables: no counter passes its limit, and the index  *)
(* of a scan stays within its channels.                                    *)
TypeOK ==
  /\ drv \in DrvType
  /\ pc \in {"idle", "scan_wait", "connect_scan_wait", "join_wait", "connect_join_wait",
             "disassoc_wait", "free_wait", "connect_set", "connect_req", "scan_cmd"}
  /\ call \in {"none", "connect", "disconnect", "scan", "abort_scan"}
  /\ thread \in {"idle", "surveydone_join", "surveydone_indicate", "STADEL", "STADEL_ROAM"}
  /\ leaving \in {"no", "call", "disturbed", "left"}

(* While WIFI_UNDER_LINKING is set assoc_timer is armed: whatever ends a   *)
(* join clears the flag, or the timer will.                                *)
LinkingIsWatched == "LINKING" \in drv.fw_state => drv.assoc_timer

ScanGoesOn ==
  \/ {"SURVEY", "SURVEY_DONE"} \cap Queued # {}
  \/ drv.survey_timer /\ drv.scan_state # "DISABLE"

(* Whatever waits for the end of a scan has something coming that ends it. *)
(* WIFI_UNDER_SURVEY will be cleared by the scan's timer, or by a command, *)
(* timer or event of the scan; a scan request of cfg80211 will be answered *)
(* by one of these or by the running callback; and a join that waits for   *)
(* the scan (to_join) is not forgotten, even after the timer gave up on    *)
(* the scan: the scan goes on and its callback will start the join.        *)
ScanIsWatched ==
  /\ "SURVEY" \in drv.fw_state => drv.scan_to_timer \/ ScanGoesOn
  /\ drv.scan_request =>
       drv.scan_to_timer \/ ScanGoesOn \/ thread \in {"surveydone_join", "surveydone_indicate"}
  /\ drv.to_join => ScanGoesOn \/ thread = "surveydone_join"

(* The station counts as connected (WIFI_ASOC_STATE, carrier on) only while*)
(* mlme_ext holds an association, or what will tell the upper layer of its *)
(* end is under way: the event, the disconnecting process, assoc_timer, or *)
(* a join that replaces it.                                                *)
ConnectedMeansAssociated ==
  "ASOC" \in drv.fw_state =>
    \/ drv.state = "ASSOC_SUCCESS"
    \/ {"STADEL", "STADEL_ROAM"} \cap (Queued \cup {thread}) # {}
    \/ pc \in {"disassoc_wait", "free_wait"}
    \/ drv.assoc_timer \/ "JOIN" \in Queued

(* After cfg80211_rtw_disconnect has returned, and until a new connect, the*)
(* station is not connected and joins nothing: no event, timer or scan that*)
(* was under way starts a join. Not claimed when a wait ran out or the AP  *)
(* was lost during the call, see the README.                               *)
DisconnectSticks ==
  leaving = "left" => drv.fw_state \cap {"ASOC", "LINKING"} = {}

(* Nothing that was asked for stays open for ever, whatever the AP does:   *)
(* calls return, scan requests are answered, joins end (the tries of a     *)
(* roam are counted by rtw_join_timeout_handler) and a join that waits for *)
(* a scan is started or given up.                                          *)
RequestsEnd ==
  /\ []<>(pc = "idle")
  /\ []<>(~drv.scan_request)
  /\ []<>(~drv.to_join)
  /\ []<>("LINKING" \notin drv.fw_state)
=============================================================================
