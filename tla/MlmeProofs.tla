----------------------------- MODULE MlmeProofs -----------------------------
(***************************************************************************)
(* Theorems about scanning, joining, roaming and disconnecting, for every  *)
(* number of tries, of repetitions and of channels, and for a command      *)
(* queue of any length. The lemmas follow the functions that run under     *)
(* pmlmepriv->lock, innermost first. The first part is the types and what  *)
(* each function does to WIFI_UNDER_LINKING and assoc_timer; the second    *)
(* adds the order of the command queue, for the properties of the scan, of *)
(* the association and of the disconnect.                                  *)
(***************************************************************************)
EXTENDS Mlme, TLAPS

Watched(s) == "LINKING" \in s.fw_state => s.assoc_timer
Good(s) == s \in DrvType /\ Watched(s)

(* A command is queued: flags, timer and tries stay as they are.           *)
LEMMA EnqueueKeeps ==
  ASSUME NEW s \in DrvType, NEW c \in Commands
  PROVE  /\ rtw_enqueue_cmd(s, c) \in DrvType
         /\ rtw_enqueue_cmd(s, c).fw_state = s.fw_state
         /\ rtw_enqueue_cmd(s, c).assoc_timer = s.assoc_timer
         /\ rtw_enqueue_cmd(s, c).to_roam = s.to_roam
<1>1. Append(s.cmd_queue, c) \in Seq(Commands)
  BY DEF DrvType
<1> QED
  BY <1>1 DEF rtw_enqueue_cmd, DrvType

(* Flags are set and cleared.                                              *)
LEMMA FlagsKeep ==
  ASSUME NEW s \in DrvType, NEW f \in SUBSET Flags
  PROVE  /\ set_fwstate(s, f) \in DrvType /\ clr_fwstate(s, f) \in DrvType
         /\ set_fwstate(s, f).fw_state = s.fw_state \cup f
         /\ clr_fwstate(s, f).fw_state = s.fw_state \ f
         /\ set_fwstate(s, f).assoc_timer = s.assoc_timer
         /\ clr_fwstate(s, f).assoc_timer = s.assoc_timer
         /\ clr_fwstate(s, f).to_roam = s.to_roam
BY DEF set_fwstate, clr_fwstate, DrvType

(* The tries of a roam are set.                                            *)
LEMMA RoamKeeps ==
  ASSUME NEW s \in DrvType, NEW n \in 0..MaxRoam
  PROVE  /\ rtw_set_to_roam(s, n) \in DrvType
         /\ rtw_set_to_roam(s, n).fw_state = s.fw_state
         /\ rtw_set_to_roam(s, n).assoc_timer = s.assoc_timer
BY DEF rtw_set_to_roam, DrvType

(* Telling the upper layer of a disconnect ends every join.                *)
LEMMA DisconnectEndsJoin ==
  ASSUME NEW s \in DrvType
  PROVE  /\ rtw_indicate_disconnect(s) \in DrvType
         /\ "LINKING" \notin rtw_indicate_disconnect(s).fw_state
<1>1. {"LINKING", "ASOC"} \in SUBSET Flags
  BY DEF Flags
<1> DEFINE t == clr_fwstate(s, {"LINKING", "ASOC"})
<1>2. t \in DrvType /\ t.fw_state = s.fw_state \ {"LINKING", "ASOC"}
  BY <1>1, FlagsKeep
<1> HIDE DEF t
<1>3. [t EXCEPT !.connect_req = @ /\ s.to_roam > 0] \in DrvType
  BY <1>2 DEF DrvType
<1>4. [t EXCEPT !.connect_req = @ /\ s.to_roam > 0].fw_state = t.fw_state
  BY <1>2 DEF DrvType
<1> QED
  BY <1>2, <1>3, <1>4 DEF rtw_indicate_disconnect, t

(* ... and so does telling it of a connection.                             *)
LEMMA ConnectKeeps ==
  ASSUME NEW s \in DrvType, "LINKING" \notin s.fw_state
  PROVE  /\ rtw_indicate_connect(s) \in DrvType
         /\ "LINKING" \notin rtw_indicate_connect(s).fw_state
<1> DEFINE t == rtw_set_to_roam(set_fwstate(s, {"ASOC"}), 0)
<1>1. {"ASOC"} \in SUBSET Flags /\ 0 \in 0..MaxRoam
  BY MlmeAssumption DEF Flags
<1>2. t \in DrvType /\ t.fw_state = s.fw_state \cup {"ASOC"}
  BY <1>1, FlagsKeep, RoamKeeps
<1> HIDE DEF t
<1>3. [t EXCEPT !.connect_req = @ /\ "ASOC" \in s.fw_state] \in DrvType
  BY <1>2 DEF DrvType
<1>4. [t EXCEPT !.connect_req = @ /\ "ASOC" \in s.fw_state].fw_state = t.fw_state
  BY <1>2 DEF DrvType
<1> QED
  BY <1>2, <1>3, <1>4 DEF rtw_indicate_connect, t

(* Starting a scan leaves the join alone.                                  *)
LEMMA SurveyKeeps ==
  ASSUME NEW s \in DrvType
  PROVE  /\ rtw_sitesurvey_cmd(s) \in DrvType
         /\ rtw_sitesurvey_cmd(s).fw_state = s.fw_state \cup {"SURVEY"}
         /\ rtw_sitesurvey_cmd(s).assoc_timer = s.assoc_timer
         /\ rtw_sitesurvey_cmd(s).to_roam = s.to_roam
<1> DEFINE t == rtw_enqueue_cmd(set_fwstate(s, {"SURVEY"}), "SURVEY")
<1>1. {"SURVEY"} \in SUBSET Flags /\ "SURVEY" \in Commands
  BY DEF Flags, Commands
<1>2. set_fwstate(s, {"SURVEY"}).to_roam = s.to_roam
  BY DEF set_fwstate, DrvType
<1>3. /\ t \in DrvType /\ t.fw_state = s.fw_state \cup {"SURVEY"}
      /\ t.assoc_timer = s.assoc_timer /\ t.to_roam = s.to_roam
  BY <1>1, <1>2, FlagsKeep, EnqueueKeeps
<1> HIDE DEF t
<1>4. [t EXCEPT !.scan_to_timer = TRUE] \in DrvType
  BY <1>3 DEF DrvType
<1>5. /\ [t EXCEPT !.scan_to_timer = TRUE].fw_state = t.fw_state
      /\ [t EXCEPT !.scan_to_timer = TRUE].assoc_timer = t.assoc_timer
      /\ [t EXCEPT !.scan_to_timer = TRUE].to_roam = t.to_roam
  BY <1>3 DEF DrvType
<1> QED
  BY <1>3, <1>4, <1>5 DEF rtw_sitesurvey_cmd, t

(* A join that is started has its timer.                                   *)
LEMMA StartedIsWatched ==
  ASSUME NEW s \in DrvType
  PROVE  Good(JoinStarted(s))
<1>1. {"LINKING"} \in SUBSET Flags /\ "DISCONNECT" \in Commands /\ "JOIN" \in Commands
  BY DEF Flags, Commands
<1>2. rtw_indicate_disconnect(rtw_enqueue_cmd(s, "DISCONNECT")) \in DrvType
  BY <1>1, EnqueueKeeps, DisconnectEndsJoin
<1>3. rtw_select_and_join(s) \in DrvType
  BY <1>1, <1>2, FlagsKeep, EnqueueKeeps DEF rtw_select_and_join
<1> DEFINE t == rtw_select_and_join(s)
<1>4. t \in DrvType
  BY <1>3
<1> HIDE DEF t
<1>5. [t EXCEPT !.to_join = FALSE, !.assoc_timer = TRUE] \in DrvType
  BY <1>4 DEF DrvType
<1>6. [t EXCEPT !.to_join = FALSE, !.assoc_timer = TRUE].assoc_timer
  BY <1>4 DEF DrvType
<1> QED
  BY <1>5, <1>6 DEF JoinStarted, Good, Watched, t

(* Every outcome of rtw_do_join: a watched join, or a scan first.          *)
LEMMA DoJoinIsWatched ==
  ASSUME NEW s \in DrvType, NEW r \in rtw_do_join(s)
  PROVE  Good(r)
<1> DEFINE t == clr_fwstate(s, {"LINKING"})
<1>1. {"LINKING"} \in SUBSET Flags
  BY DEF Flags
<1>2. t \in DrvType /\ "LINKING" \notin t.fw_state
  BY <1>1, FlagsKeep
<1> DEFINE v == rtw_sitesurvey_cmd(t)
<1>3. v \in DrvType /\ "LINKING" \notin v.fw_state
  BY <1>2, SurveyKeeps
<1>4. r = JoinStarted(s) \/ r = [v EXCEPT !.to_join = TRUE]
  BY DEF rtw_do_join
<1> HIDE DEF t, v
<1>5. [v EXCEPT !.to_join = TRUE] \in DrvType /\ [v EXCEPT !.to_join = TRUE].fw_state = v.fw_state
  BY <1>3 DEF DrvType
<1> QED
  BY <1>3, <1>4, <1>5, StartedIsWatched DEF Good, Watched

(* A rtw_do_join that fails leaves no join.                                *)
LEMMA DoJoinFailEnds ==
  ASSUME NEW s \in DrvType
  PROVE  /\ rtw_do_join_fail(s) \in DrvType
         /\ "LINKING" \notin rtw_do_join_fail(s).fw_state
<1> DEFINE t == clr_fwstate(s, {"LINKING"})
<1>1. {"LINKING"} \in SUBSET Flags
  BY DEF Flags
<1>2. t \in DrvType /\ "LINKING" \notin t.fw_state
  BY <1>1, FlagsKeep
<1> HIDE DEF t
<1>3. [t EXCEPT !.to_join = FALSE] \in DrvType /\ [t EXCEPT !.to_join = FALSE].fw_state = t.fw_state
  BY <1>2 DEF DrvType
<1> QED
  BY <1>2, <1>3 DEF rtw_do_join_fail, t

(* The tries of a roam, and giving up after the last one.                  *)
LEMMA AttemptsAreWatched ==
  ASSUME NEW s \in DrvType, NEW tries \in SUBSET (0..MaxRoam), NEW r \in Attempts(s, tries)
  PROVE  Good(r)
<1>1. PICK n \in tries : r \in rtw_do_join([s EXCEPT !.to_roam = n])
  BY DEF Attempts
<1>2. [s EXCEPT !.to_roam = n] \in DrvType
  BY DEF DrvType
<1> QED
  BY <1>1, <1>2, DoJoinIsWatched

LEMMA GivingUpEndsJoin ==
  ASSUME NEW s \in DrvType
  PROVE  Good(rtw_indicate_disconnect([s EXCEPT !.to_roam = 0]))
<1>1. [s EXCEPT !.to_roam = 0] \in DrvType
  BY MlmeAssumption DEF DrvType
<1> QED
  BY <1>1, DisconnectEndsJoin DEF Good, Watched

LEMMA RoamingIsWatched ==
  ASSUME NEW s, Good(s), NEW r \in rtw_roaming(s)
  PROVE  Good(r)
<1>1. s \in DrvType /\ 1..s.to_roam \in SUBSET (0..MaxRoam)
  BY MlmeAssumption DEF Good, DrvType
<1>2. Good(rtw_indicate_disconnect([rtw_do_join_fail(s) EXCEPT !.to_roam = 0]))
  BY <1>1, DoJoinFailEnds, GivingUpEndsJoin
<1>3. \/ r = s
      \/ r \in Attempts(s, 1..s.to_roam)
      \/ r = rtw_indicate_disconnect([rtw_do_join_fail(s) EXCEPT !.to_roam = 0])
  BY DEF rtw_roaming
<1> QED
  BY <1>1, <1>2, <1>3, AttemptsAreWatched

(* The result of a join: a failure clears the flag whatever the timer was, *)
(* a success that counts clears all flags.                                 *)
LEMMA FailureIsWatched ==
  ASSUME NEW s \in DrvType, NEW r \in rtw_joinbss_event_prehandle(s, FALSE)
  PROVE  Good(r)
<1> DEFINE t == clr_fwstate(s, {"LINKING"})
<1>1. {"LINKING"} \in SUBSET Flags
  BY DEF Flags
<1>2. t \in DrvType
  BY <1>1, FlagsKeep
<1> HIDE DEF t
<1>3. [t EXCEPT !.assoc_timer = TRUE] \in DrvType /\ [t EXCEPT !.assoc_timer = TRUE].assoc_timer
  BY <1>2 DEF DrvType
<1>4. r = [t EXCEPT !.assoc_timer = TRUE]
  BY DEF rtw_joinbss_event_prehandle, t
<1> QED
  BY <1>3, <1>4 DEF Good, Watched

LEMMA SuccessIsWatched ==
  ASSUME NEW s, Good(s), NEW r \in rtw_joinbss_event_prehandle(s, TRUE)
  PROVE  Good(r)
<1> DEFINE t == rtw_indicate_connect([s EXCEPT !.fw_state = {}])
<1>1. [s EXCEPT !.fw_state = {}] \in DrvType /\ [s EXCEPT !.fw_state = {}].fw_state = {}
  BY DEF DrvType, Good
<1>2. t \in DrvType /\ "LINKING" \notin t.fw_state
  BY <1>1, ConnectKeeps
<1>3. r = s \/ r = [t EXCEPT !.assoc_timer = FALSE]
  BY DEF rtw_joinbss_event_prehandle
<1> HIDE DEF t
<1>4. /\ [t EXCEPT !.assoc_timer = FALSE] \in DrvType
      /\ [t EXCEPT !.assoc_timer = FALSE].fw_state = t.fw_state
  BY <1>2 DEF DrvType
<1> QED
  BY <1>2, <1>3, <1>4 DEF Good, Watched

-----------------------------------------------------------------------------
(* Updates that touch neither the flags nor assoc_timer.                   *)
LEMMA StateKeeps ==
  ASSUME NEW s \in DrvType, NEW x \in ExtStates, NEW b \in BOOLEAN
  PROVE  /\ set_state(s, x) \in DrvType /\ set_state(s, x).fw_state = s.fw_state
         /\ set_state(s, x).assoc_timer = s.assoc_timer
         /\ [s EXCEPT !.link_timer = b] \in DrvType
         /\ [s EXCEPT !.link_timer = b].fw_state = s.fw_state
         /\ [s EXCEPT !.link_timer = b].assoc_timer = s.assoc_timer
<1>1. 0 \in 0..ReLimit
  BY MlmeAssumption
<1>2. [s EXCEPT !.state = x, !.count = 0] \in DrvType
  BY <1>1 DEF DrvType
<1>3. /\ [s EXCEPT !.state = x, !.count = 0].fw_state = s.fw_state
      /\ [s EXCEPT !.state = x, !.count = 0].assoc_timer = s.assoc_timer
  BY DEF DrvType
<1>4. [s EXCEPT !.link_timer = b] \in DrvType
  BY DEF DrvType
<1>5. /\ [s EXCEPT !.link_timer = b].fw_state = s.fw_state
      /\ [s EXCEPT !.link_timer = b].assoc_timer = s.assoc_timer
  BY DEF DrvType
<1> QED
  BY <1>2, <1>3, <1>4, <1>5 DEF set_state

LEMMA TakenKeeps ==
  ASSUME drv \in DrvType, drv.cmd_queue # <<>>
  PROVE  /\ Taken \in DrvType /\ Taken.fw_state = drv.fw_state
         /\ Taken.assoc_timer = drv.assoc_timer
<1>1. Tail(drv.cmd_queue) \in Seq(Commands)
  BY DEF DrvType
<1> QED
  BY <1>1 DEF Taken, DrvType

LEMMA MlmeextDisconnectKeeps ==
  ASSUME NEW s, Good(s)
  PROVE  Good(rtw_mlmeext_disconnect(s))
<1>1. "NULL" \in ExtStates
  BY DEF ExtStates
<1> QED
  BY <1>1, StateKeeps DEF rtw_mlmeext_disconnect, Good, Watched

LEMMA ScanDoneKeeps ==
  ASSUME NEW s, Good(s)
  PROVE  Good(rtw_cfg80211_indicate_scan_done(s))
BY DEF rtw_cfg80211_indicate_scan_done, Good, Watched, DrvType

LEMMA AbortKeeps ==
  ASSUME NEW s, Good(s)
  PROVE  Good(ScanAborting(s)) /\ Good(JoinAborting(s))
BY DEF ScanAborting, JoinAborting, Good, Watched, DrvType

LEMMA ReceiveDisconnectIsWatched ==
  ASSUME NEW s, Good(s), NEW event \in Commands, NEW r \in receive_disconnect(s, event)
  PROVE  Good(r)
<1>1. "NULL" \in ExtStates
  BY DEF ExtStates
<1>2. Good(set_state(rtw_enqueue_cmd(s, event), "NULL"))
  BY <1>1, EnqueueKeeps, StateKeeps DEF Good, Watched
<1>3. set_state(s, "NULL") \in DrvType
  BY <1>1, StateKeeps DEF Good
<1>4. \/ r = set_state(rtw_enqueue_cmd(s, event), "NULL")
      \/ r \in rtw_joinbss_event_prehandle(set_state(s, "NULL"), FALSE)
  BY DEF receive_disconnect
<1> QED
  BY <1>2, <1>3, <1>4, FailureIsWatched

LEMMA LinkTimeoutIsWatched ==
  ASSUME NEW s, Good(s), NEW r \in LinkTimeout(s)
  PROVE  Good(r)
<1>1. set_state(s, "NULL") \in DrvType
  BY StateKeeps DEF Good, ExtStates
<1>2. \/ r = s
      \/ r \in rtw_joinbss_event_prehandle(set_state(s, "NULL"), FALSE)
      \/ s.count + 1 <= ReLimit /\ r = [s EXCEPT !.count = @ + 1, !.link_timer = TRUE]
  <2>1. s.count + 1 > ReLimit \/ s.count + 1 <= ReLimit
    BY MlmeAssumption DEF Good, DrvType
  <2>2. CASE s.join_abort /\ s.state # "NULL"
    BY <2>2 DEF LinkTimeout
  <2>3. CASE ~s.join_abort /\ s.state = "AUTH_NULL"
    BY <2>3 DEF LinkTimeout
  <2>4. CASE ~s.join_abort /\ s.state \in {"AUTH", "ASSOC"}
    BY <2>1, <2>4 DEF LinkTimeout
  <2>5. CASE /\ ~(s.join_abort /\ s.state # "NULL")
             /\ ~(~s.join_abort /\ s.state = "AUTH_NULL")
             /\ ~(~s.join_abort /\ s.state \in {"AUTH", "ASSOC"})
    BY <2>5 DEF LinkTimeout
  <2> QED
    BY <2>2, <2>3, <2>4, <2>5
<1>3. ASSUME s.count + 1 <= ReLimit PROVE Good([s EXCEPT !.count = @ + 1, !.link_timer = TRUE])
  <2>1. s \in DrvType /\ s.count + 1 \in 0..ReLimit
    BY <1>3, MlmeAssumption DEF Good, DrvType
  <2>2. [s EXCEPT !.count = @ + 1, !.link_timer = TRUE] \in DrvType
    BY <2>1 DEF DrvType
  <2>3. /\ [s EXCEPT !.count = @ + 1, !.link_timer = TRUE].fw_state = s.fw_state
        /\ [s EXCEPT !.count = @ + 1, !.link_timer = TRUE].assoc_timer = s.assoc_timer
    BY <2>1 DEF DrvType
  <2> QED
    BY <2>2, <2>3 DEF Good, Watched
<1> QED
  BY <1>1, <1>2, <1>3, FailureIsWatched

-----------------------------------------------------------------------------
(* The timers.                                                             *)
LEMMA TimerStep ==
  ASSUME Good(drv), Timer
  PROVE  Good(drv') /\ UNCHANGED <<pc, call, thread, leaving>>
<1> DEFINE s == [drv EXCEPT !.assoc_timer = FALSE]
           lost == IF s.to_roam > 1 THEN rtw_do_join_fail(s) ELSE s
<1>1. CASE rtw_join_timeout_handler
  <2>5. drv.to_roam \in 0..MaxRoam /\ s.to_roam = drv.to_roam
    BY DEF Good, DrvType
  <2>6. s \in DrvType
    BY DEF Good, DrvType
  <2>1. s \in DrvType /\ 1..(s.to_roam - 1) \in SUBSET (0..MaxRoam)
    <3> HIDE DEF s
    <3> QED
      BY <2>5, <2>6, MlmeAssumption
  <2>2. lost \in DrvType
    BY <2>1, DoJoinFailEnds
  <2>3. \/ drv' \in Attempts(s, 1..(s.to_roam - 1))
        \/ drv' = rtw_indicate_disconnect([lost EXCEPT !.to_roam = 0])
    BY <1>1 DEF rtw_join_timeout_handler, TriesLeft, Handler
  <2>4. UNCHANGED <<pc, call, thread, leaving>>
    BY <1>1 DEF rtw_join_timeout_handler, TriesLeft, Handler
  <2> HIDE DEF s, lost
  <2> QED
    BY <2>1, <2>2, <2>3, <2>4, AttemptsAreWatched, GivingUpEndsJoin
<1>2. CASE rtw_scan_timeout_handler
  <2> DEFINE u == [clr_fwstate(drv, {"SURVEY"}) EXCEPT !.scan_to_timer = FALSE]
  <2>1. /\ clr_fwstate(drv, {"SURVEY"}) \in DrvType
        /\ clr_fwstate(drv, {"SURVEY"}).fw_state = drv.fw_state \ {"SURVEY"}
        /\ clr_fwstate(drv, {"SURVEY"}).assoc_timer = drv.assoc_timer
    BY FlagsKeep DEF Good, Flags
  <2>2. /\ u \in DrvType /\ u.fw_state = clr_fwstate(drv, {"SURVEY"}).fw_state
        /\ u.assoc_timer = clr_fwstate(drv, {"SURVEY"}).assoc_timer
    BY <2>1 DEF DrvType
  <2>3. drv' = rtw_cfg80211_indicate_scan_done(u) /\ UNCHANGED <<pc, call, thread, leaving>>
    BY <1>2 DEF rtw_scan_timeout_handler, Handler
  <2>4. Good(u)
    BY <2>1, <2>2 DEF Good, Watched
  <2> HIDE DEF u
  <2> QED
    BY <2>3, <2>4, ScanDoneKeeps
<1>3. CASE survey_timer_hdl
  <2> DEFINE u == [drv EXCEPT !.survey_timer = FALSE]
  <2>1. u \in DrvType /\ u.fw_state = drv.fw_state /\ u.assoc_timer = drv.assoc_timer
    BY DEF Good, DrvType
  <2>2. /\ drv' = u \/ drv' = rtw_enqueue_cmd(u, "SURVEY")
        /\ UNCHANGED <<pc, call, thread, leaving>>
    BY <1>3 DEF survey_timer_hdl, Handler
  <2>3. "SURVEY" \in Commands
    BY DEF Commands
  <2> HIDE DEF u
  <2> QED
    BY <2>1, <2>2, <2>3, EnqueueKeeps DEF Good, Watched
<1>4. CASE link_timer_hdl
  <2>1. Good([drv EXCEPT !.link_timer = FALSE])
    BY StateKeeps DEF Good, Watched, ExtStates
  <2> QED
    BY <1>4, <2>1, LinkTimeoutIsWatched DEF link_timer_hdl, Handler
<1> QED
  BY <1>1, <1>2, <1>3, <1>4 DEF Timer

(* The received frames.                                                    *)
LEMMA ReceiveStep ==
  ASSUME Good(drv), Receive
  PROVE  Good(drv') /\ UNCHANGED <<pc, call, thread, leaving>>
<1>1. ASSUME NEW x \in ExtStates
      PROVE  Good([drv EXCEPT !.link_timer = TRUE]) /\ Good([set_state(drv, x) EXCEPT !.link_timer = TRUE])
  <2>1. Good([drv EXCEPT !.link_timer = TRUE])
    BY <1>1, StateKeeps DEF Good, Watched
  <2>2. Good(set_state(drv, x))
    BY <1>1, StateKeeps DEF Good, Watched
  <2> DEFINE u == set_state(drv, x)
  <2>3. Good(u)
    BY <2>2
  <2> HIDE DEF u
  <2>4. Good([u EXCEPT !.link_timer = TRUE])
    BY <2>3, <1>1, StateKeeps DEF Good, Watched
  <2> QED
    BY <2>1, <2>4 DEF u
<1>2. {"NULL", "AUTH", "ASSOC", "ASSOC_SUCCESS"} \subseteq ExtStates
  BY DEF ExtStates
<1>3. CASE OnBeacon
  BY <1>1, <1>2, <1>3 DEF OnBeacon, Handler
<1>4. CASE OnAuthClient
  BY <1>1, <1>2, <1>4 DEF OnAuthClient, Handler
<1>5. CASE OnAssocRsp
  <2> DEFINE s == [drv EXCEPT !.link_timer = FALSE]
  <2>1. Good(s)
    BY <1>2, StateKeeps DEF Good, Watched
  <2>2. /\ \/ drv' \in rtw_joinbss_event_prehandle(set_state(s, "NULL"), FALSE)
           \/ drv' \in rtw_joinbss_event_prehandle(set_state(s, "ASSOC_SUCCESS"), TRUE)
        /\ UNCHANGED <<pc, call, thread, leaving>>
    BY <1>5 DEF OnAssocRsp, Handler
  <2> HIDE DEF s
  <2>3. Good(set_state(s, "ASSOC_SUCCESS")) /\ set_state(s, "NULL") \in DrvType
    BY <1>2, <2>1, StateKeeps DEF Good, Watched
  <2> QED
    BY <2>2, <2>3, FailureIsWatched, SuccessIsWatched
<1>6. CASE OnDeAuth
  BY <1>6, ReceiveDisconnectIsWatched DEF OnDeAuth, Handler, Commands
<1> QED
  BY <1>3, <1>4, <1>5, <1>6 DEF Receive

(* The command handlers.                                                   *)
LEMMA CommandStep ==
  ASSUME Good(drv), sitesurvey_cmd_hdl \/ join_cmd_hdl \/ disconnect_hdl \/ free_assoc_resources_hdl
  PROVE  Good(drv') /\ UNCHANGED <<pc, call, thread, leaving>>
<1>1. drv.cmd_queue # <<>>
  BY DEF sitesurvey_cmd_hdl, join_cmd_hdl, disconnect_hdl, free_assoc_resources_hdl, Next_cmd
<1>2. Good(Taken)
  BY <1>1, TakenKeeps DEF Good, Watched
<1>3. {"NULL", "AUTH_NULL"} \subseteq ExtStates
  BY DEF ExtStates
<1>4. CASE sitesurvey_cmd_hdl
  <2> DEFINE s == Taken
             idx == IF drv.scan_state = "PROCESS" THEN drv.channel_idx + 1 ELSE 0
             waits == [s EXCEPT !.scan_state = "PS_ANNC_WAIT", !.survey_timer = TRUE]
             done == [s EXCEPT !.scan_state = "DISABLE", !.channel_idx = 0]
             scans == [s EXCEPT !.scan_state = "PROCESS", !.channel_idx = idx, !.survey_timer = TRUE]
  <2>1. /\ \/ drv' = waits \/ drv' = rtw_enqueue_cmd(done, "SURVEY_DONE")
           \/ ~(idx >= NumCh) /\ drv' = scans
        /\ UNCHANGED <<pc, call, thread, leaving>>
    BY <1>4 DEF sitesurvey_cmd_hdl, Process
  <2>2. idx \in Nat
    BY DEF Good, DrvType
  <2>3. s \in DrvType /\ Watched(s)
    BY <1>2 DEF Good
  <2> HIDE DEF s, idx
  <2>4. Good(waits)
    BY <2>3 DEF Good, Watched, DrvType
  <2>5. Good(done)
    <3>1. 0 \in 0..(NumCh - 1)
      BY MlmeAssumption
    <3> QED
      BY <2>3, <3>1 DEF Good, Watched, DrvType
  <2>6. ASSUME ~(idx >= NumCh) PROVE Good(scans)
    <3>1. idx \in 0..(NumCh - 1)
      BY <2>2, <2>6, MlmeAssumption
    <3> QED
      BY <2>3, <3>1 DEF Good, Watched, DrvType
  <2>7. Good(rtw_enqueue_cmd(done, "SURVEY_DONE"))
    <3> HIDE DEF done
    <3> QED
      BY <2>5, EnqueueKeeps DEF Good, Watched, Commands
  <2> QED
    BY <2>1, <2>4, <2>6, <2>7
<1>5. CASE join_cmd_hdl
  <2> DEFINE left == IF drv.state = "ASSOC_SUCCESS"
                     THEN [set_state(Taken, "NULL") EXCEPT !.link_timer = FALSE] ELSE Taken
             joins == [set_state(left, "AUTH_NULL") EXCEPT !.link_timer = TRUE, !.assoc_timer = TRUE]
  <2>1. /\ \/ drv' \in rtw_joinbss_event_prehandle(Taken, FALSE)
           \/ drv' \in rtw_joinbss_event_prehandle(left, FALSE)
           \/ drv' = joins
        /\ UNCHANGED <<pc, call, thread, leaving>>
    BY <1>5 DEF join_cmd_hdl, Process
  <2>2. left \in DrvType
    BY <1>2, <1>3, StateKeeps DEF Good
  <2>3. set_state(left, "AUTH_NULL") \in DrvType
    BY <1>3, <2>2, StateKeeps
  <2>4. Good(joins)
    BY <2>3 DEF Good, Watched, DrvType
  <2> HIDE DEF left, joins
  <2> QED
    BY <1>2, <2>1, <2>2, <2>4, FailureIsWatched DEF Good
<1>6. CASE disconnect_hdl
  BY <1>2, <1>6, MlmeextDisconnectKeeps DEF disconnect_hdl, Process
<1>7. CASE free_assoc_resources_hdl
  BY <1>2, <1>7 DEF free_assoc_resources_hdl, Process
<1> QED
  BY <1>4, <1>5, <1>6, <1>7

(* The callbacks of the scan's end and of the lost station.                *)
LEMMA CallbackStep ==
  ASSUME Good(drv), \/ surveydone_event \/ surveydone_join \/ surveydone_indicate
                    \/ stadel_event \/ rtw_stadel_event_callback \/ linked_status_chk
  PROVE  /\ Good(drv') /\ UNCHANGED <<pc, call>>
         /\ thread' \in {thread, "idle", "surveydone_join", "surveydone_indicate", "STADEL", "STADEL_ROAM"}
         /\ leaving' \in {leaving, "disturbed"}
<1>1. CASE surveydone_event
  <2> DEFINE u == clr_fwstate(Taken, {"SURVEY"})
  <2>1. Good(Taken)
    BY <1>1, TakenKeeps DEF Good, Watched, surveydone_event, Next_cmd
  <2>2. Good(u)
    BY <2>1, FlagsKeep DEF Good, Watched, Flags
  <2>3. drv' = [u EXCEPT !.scan_abort = FALSE] /\ thread' = "surveydone_join" /\ UNCHANGED <<pc, call, leaving>>
    BY <1>1 DEF surveydone_event, Process
  <2> HIDE DEF u
  <2>4. Good([u EXCEPT !.scan_abort = FALSE])
    BY <2>2 DEF Good, Watched, DrvType
  <2> QED
    BY <2>3, <2>4
<1>2. CASE surveydone_join
  <2> DEFINE s == [drv EXCEPT !.scan_to_timer = FALSE]
             v == set_fwstate(s, {"LINKING"})
             w == [v EXCEPT !.to_join = FALSE]
  <2>1. Good(s)
    BY DEF Good, Watched, DrvType
  <2>2. /\ \/ drv' = s \/ drv' = JoinStarted(w) \/ drv' \in NoCandidate(w)
        /\ thread' = "surveydone_indicate" /\ UNCHANGED <<pc, call, leaving>>
    BY <1>2 DEF surveydone_join, Process
  <2> HIDE DEF s
  <2>3. v \in DrvType /\ "LINKING" \in v.fw_state
    BY <2>1, FlagsKeep DEF Good, Flags
  <2> HIDE DEF v
  <2>4. w \in DrvType /\ "LINKING" \in w.fw_state
    BY <2>3 DEF DrvType
  <2> HIDE DEF w
  <2>5. ASSUME NEW r \in NoCandidate(w) PROVE Good(r)
    <3>1. ~rtw_sitesurvey_condition_check(w)
      BY <2>4 DEF rtw_sitesurvey_condition_check
    <3>2. r = rtw_indicate_disconnect(IF w.to_roam = 0 THEN w ELSE rtw_set_to_roam(w, 0))
      BY <2>5, <3>1 DEF NoCandidate
    <3>3. 0 \in 0..MaxRoam
      BY MlmeAssumption
    <3> QED
      BY <2>4, <3>2, <3>3, RoamKeeps, DisconnectEndsJoin DEF Good, Watched
  <2> QED
    BY <2>1, <2>2, <2>4, <2>5, StartedIsWatched
<1>3. CASE surveydone_indicate
  BY <1>3, ScanDoneKeeps DEF surveydone_indicate, Process
<1>4. CASE stadel_event
  <2>1. Good(Taken)
    BY <1>4, TakenKeeps DEF Good, Watched, stadel_event, Next_cmd
  <2> QED
    BY <1>4, <2>1, MlmeextDisconnectKeeps DEF stadel_event, Process
<1>5. CASE rtw_stadel_event_callback
  <2> DEFINE u == StadelRoam(drv, thread = "STADEL_ROAM")
  <2>1. u \in DrvType
    <3>1. drv \in DrvType /\ 0 \in 0..MaxRoam /\ MaxRoam \in 0..MaxRoam
      BY MlmeAssumption DEF Good
    <3>2. ASSUME drv.to_roam > 0 PROVE [drv EXCEPT !.to_roam = @ - 1] \in DrvType
      <4>1. drv.to_roam - 1 \in 0..MaxRoam
        BY <3>1, <3>2, MlmeAssumption DEF DrvType
      <4> QED
        BY <3>1, <4>1 DEF DrvType
    <3>3. rtw_set_to_roam(drv, 0) \in DrvType /\ rtw_set_to_roam(drv, MaxRoam) \in DrvType
      BY <3>1, RoamKeeps
    <3>4. CASE thread # "STADEL_ROAM"
      BY <3>3, <3>4 DEF StadelRoam
    <3>5. CASE thread = "STADEL_ROAM" /\ drv.to_roam > 0
      BY <3>2, <3>5 DEF StadelRoam
    <3>6. CASE thread = "STADEL_ROAM" /\ ~(drv.to_roam > 0)
      BY <3>3, <3>6 DEF StadelRoam
    <3> QED
      BY <3>4, <3>5, <3>6
  <2>2. drv' \in rtw_roaming(rtw_indicate_disconnect(u)) /\ thread' = "idle" /\ UNCHANGED <<pc, call>>
    BY <1>5 DEF rtw_stadel_event_callback
  <2>3. leaving' \in {leaving, "disturbed"}
    BY <1>5 DEF rtw_stadel_event_callback, Disturbing
  <2> HIDE DEF u
  <2>4. Good(rtw_indicate_disconnect(u))
    BY <2>1, DisconnectEndsJoin DEF Good, Watched
  <2> QED
    BY <2>2, <2>3, <2>4, RoamingIsWatched
<1>6. CASE linked_status_chk
  BY <1>6, ReceiveDisconnectIsWatched DEF linked_status_chk, Process, Commands
<1> QED
  BY <1>1, <1>2, <1>3, <1>4, <1>5, <1>6

(* The cfg80211 operations.                                                *)
LEMMA CallStep ==
  ASSUME Good(drv), TypeOK, Call \/ InCall
  PROVE  Good(drv') /\ TypeOK'
<1> SUFFICES Good(drv') /\ (pc' \in {"idle", "scan_wait", "connect_scan_wait", "join_wait",
                 "connect_join_wait", "disassoc_wait", "free_wait", "connect_set", "connect_req",
                 "scan_cmd"} /\ call' \in {"none", "connect", "disconnect", "scan", "abort_scan"}
               /\ thread' = thread /\ leaving' \in {leaving, "no", "call", "disturbed", "left"})
  BY DEF TypeOK, Good
<1> USE DEF TypeOK
<1>1. CASE cfg80211_rtw_connect
  BY <1>1, AbortKeeps DEF cfg80211_rtw_connect
<1>2. CASE cfg80211_rtw_disconnect
  <2>1. Good(rtw_set_to_roam(drv, 0))
    BY RoamKeeps, MlmeAssumption DEF Good, Watched
  <2> QED
    BY <1>2, <2>1, AbortKeeps DEF cfg80211_rtw_disconnect
<1>3. CASE cfg80211_rtw_abort_scan
  BY <1>3, AbortKeeps DEF cfg80211_rtw_abort_scan
<1>4. CASE cfg80211_rtw_scan
  BY <1>4 DEF cfg80211_rtw_scan
<1>5. CASE rtw_wait_scan_done
  <2> DEFINE s == IF "SURVEY" \in drv.fw_state THEN rtw_cfg80211_indicate_scan_done(drv) ELSE drv
  <2>1. Good(s)
    BY ScanDoneKeeps
  <2>2. drv' = [s EXCEPT !.scan_abort = FALSE] \/ drv' = JoinAborting(s)
    BY <1>5 DEF rtw_wait_scan_done
  <2>3. pc' \in {"idle", "join_wait", "connect_join_wait"} /\ call' \in {call, "none"}
    BY <1>5 DEF rtw_wait_scan_done
  <2>4. thread' = thread /\ leaving' \in {leaving, "disturbed"}
    BY <1>5 DEF rtw_wait_scan_done, Disturbing
  <2> HIDE DEF s
  <2>5. Good([s EXCEPT !.scan_abort = FALSE])
    BY <2>1 DEF Good, Watched, DrvType
  <2> QED
    BY <2>1, <2>2, <2>3, <2>4, <2>5, AbortKeeps
<1>6. CASE rtw_wait_join_done
  <2> DEFINE s == [drv EXCEPT !.join_abort = FALSE]
  <2>1. Good(s)
    BY DEF Good, Watched, DrvType
  <2>2. drv' = s \/ drv' = rtw_enqueue_cmd(s, "DISCONNECT_ACK")
    BY <1>6 DEF rtw_wait_join_done
  <2>3. pc' \in {"disassoc_wait", "connect_set"} /\ call' = call /\ thread' = thread
    BY <1>6 DEF rtw_wait_join_done
  <2>4. leaving' \in {leaving, "disturbed"}
    BY <1>6 DEF rtw_wait_join_done, Disturbing
  <2> HIDE DEF s
  <2>5. Good(rtw_enqueue_cmd(s, "DISCONNECT_ACK"))
    BY <2>1, EnqueueKeeps DEF Good, Watched, Commands
  <2> QED
    BY <2>1, <2>2, <2>3, <2>4, <2>5
<1>7. CASE rtw_disassoc_cmd_wait
  <2>1. Good(rtw_enqueue_cmd(drv, "FREE_ASSOC"))
    BY EnqueueKeeps DEF Good, Watched, Commands
  <2> QED
    BY <1>7, <2>1 DEF rtw_disassoc_cmd_wait
<1>8. CASE rtw_disconnect_end
  <2>1. Good(rtw_indicate_disconnect(drv))
    BY DisconnectEndsJoin DEF Good, Watched
  <2>2. Good(drv')
    BY <1>8, <2>1, AbortKeeps DEF rtw_disconnect_end
  <2>3. /\ pc' \in {"idle", "connect_scan_wait"} /\ call' \in {call, "none"}
        /\ thread' = thread /\ leaving' \in {leaving, "left", "no"}
    BY <1>8 DEF rtw_disconnect_end
  <2> QED
    BY <2>2, <2>3
<1>9. CASE rtw_set_802_11_connect
  <2>1. Good([drv EXCEPT !.to_join = TRUE])
    BY DEF Good, Watched, DrvType
  <2>2. drv' = [drv EXCEPT !.to_join = TRUE] \/ drv' = drv \/ drv' \in rtw_do_join(drv)
    BY <1>9 DEF rtw_set_802_11_connect
  <2>3. pc' = "connect_req" /\ UNCHANGED <<call, thread, leaving>>
    BY <1>9 DEF rtw_set_802_11_connect
  <2> QED
    BY <2>1, <2>2, <2>3, DoJoinIsWatched DEF Good
<1>10. CASE rtw_set_802_11_connect_fail
  BY <1>10, DoJoinFailEnds DEF rtw_set_802_11_connect_fail, Good, Watched
<1>11. CASE connect_request
  <2>1. Good([drv EXCEPT !.connect_req = TRUE])
    BY DEF Good, Watched, DrvType
  <2> QED
    BY <1>11, <2>1 DEF connect_request
<1>12. CASE scan_request
  <2> DEFINE u == rtw_sitesurvey_cmd(drv)
  <2>1. Good(u)
    BY SurveyKeeps DEF Good, Watched
  <2>2. drv' = [u EXCEPT !.scan_request = TRUE]
    BY <1>12 DEF scan_request
  <2>3. pc' = "idle" /\ call' = "none" /\ UNCHANGED <<thread, leaving>>
    BY <1>12 DEF scan_request
  <2> HIDE DEF u
  <2>4. Good([u EXCEPT !.scan_request = TRUE])
    BY <2>1 DEF Good, Watched, DrvType
  <2> QED
    BY <2>2, <2>3, <2>4
<1> QED
  BY <1>1, <1>2, <1>3, <1>4, <1>5, <1>6, <1>7, <1>8, <1>9, <1>10, <1>11, <1>12 DEF Call, InCall

LEMMA MlmeInit == Init => TypeOK /\ Good(drv)
<1> SUFFICES ASSUME Init PROVE TypeOK /\ Good(drv)
  OBVIOUS
<1>1. 0 \in 0..MaxRoam /\ 0 \in 0..ReLimit /\ 0 \in 0..(NumCh - 1) /\ <<>> \in Seq(Commands)
  BY MlmeAssumption
<1>2. drv \in DrvType /\ drv.fw_state = {}
  BY <1>1 DEF Init, DrvType, ExtStates
<1> QED
  BY <1>2 DEF Init, TypeOK, Good, Watched

LEMMA MlmeStep == TypeOK /\ Good(drv) /\ [Next]_vars => (TypeOK /\ Good(drv))'
<1> SUFFICES ASSUME TypeOK, Good(drv), [Next]_vars PROVE TypeOK' /\ Good(drv')
  BY DEF Good, Watched
<1>1. CASE Call \/ InCall
  BY <1>1, CallStep
<1>2. CASE Timer
  BY <1>2, TimerStep DEF TypeOK, Good
<1>3. CASE Receive
  BY <1>3, ReceiveStep DEF TypeOK, Good
<1>4. CASE sitesurvey_cmd_hdl \/ join_cmd_hdl \/ disconnect_hdl \/ free_assoc_resources_hdl
  BY <1>4, CommandStep DEF TypeOK, Good
<1>5. CASE \/ surveydone_event \/ surveydone_join \/ surveydone_indicate
           \/ stadel_event \/ rtw_stadel_event_callback \/ linked_status_chk
  BY <1>5, CallbackStep DEF TypeOK, Good
<1>6. CASE UNCHANGED vars
  BY <1>6 DEF vars, TypeOK, Good, Watched
<1> QED
  BY <1>1, <1>2, <1>3, <1>4, <1>5, <1>6 DEF Next, Thread

(* The variables keep their types: no limit on tries, repetitions or       *)
(* channels is passed.                                                     *)
THEOREM MlmeTypes == Spec => []TypeOK
BY MlmeInit, MlmeStep, PTL DEF Spec

(* A join is always watched: whenever WIFI_UNDER_LINKING is set assoc_timer*)
(* is armed, whichever handlers, callbacks and calls ran before.           *)
THEOREM JoinsAreWatched == Spec => []LinkingIsWatched
<1>1. Good(drv) => LinkingIsWatched
  BY DEF Good, Watched, LinkingIsWatched
<1> QED
  BY <1>1, MlmeInit, MlmeStep, PTL DEF Spec

-----------------------------------------------------------------------------
(* The scan, the association and the disconnect need more than the flag    *)
(* and its timer: what is queued, and in which order.                      *)

InQ(q, c) == \E i \in DOMAIN q : q[i] = c
NoneBehind(q, a, b) == \A i, j \in DOMAIN q : i < j => ~(q[i] = a /\ q[j] = b)
Replaced(q) ==
  \A i \in DOMAIN q : q[i] = "DISCONNECT" => \E j \in DOMAIN q : i < j /\ q[j] = "JOIN"

(* A command, timer or event of a scan is under way.                       *)
Goes(s) ==
  \/ InQ(s.cmd_queue, "SURVEY") \/ InQ(s.cmd_queue, "SURVEY_DONE")
  \/ s.survey_timer /\ s.scan_state # "DISABLE"

(* WIFI_UNDER_SURVEY does not need the scan's timer: only the event that   *)
(* clears it ends the chain of the scan's commands.                        *)
ScanInv(s, th) ==
  /\ "SURVEY" \in s.fw_state => Goes(s)
  /\ s.scan_request => Goes(s) \/ th \in {"surveydone_join", "surveydone_indicate"}
  /\ s.to_join => Goes(s) \/ th = "surveydone_join"

(* The join that replaces an association is queued behind the disconnect,  *)
(* and a disconnecting process waits for each of its two commands.         *)
QueueInv(q, p) ==
  /\ Replaced(q)
  /\ InQ(q, "DISCONNECT_ACK") => p = "disassoc_wait"
  /\ InQ(q, "FREE_ASSOC") => p = "free_wait"

Excused(s, p, th) ==
  \/ s.state = "ASSOC_SUCCESS"
  \/ InQ(s.cmd_queue, "STADEL") \/ InQ(s.cmd_queue, "STADEL_ROAM")
  \/ th \in {"STADEL", "STADEL_ROAM"}
  \/ p \in {"disassoc_wait", "free_wait"}
  \/ s.assoc_timer \/ InQ(s.cmd_queue, "JOIN")

(* A connected station has no tries of a roam left.                        *)
ConnInv(s, p, th) == "ASOC" \in s.fw_state => s.to_roam = 0 /\ Excused(s, p, th)

(* How far a disconnect has got: the command thread has left the network,  *)
(* and has done all that was queued before it was done with it.            *)
Acked(s, p, l) ==
  \/ l = "left"
  \/ l = "call" /\ p = "free_wait"
  \/ l = "call" /\ p = "disassoc_wait" /\ ~InQ(s.cmd_queue, "DISCONNECT_ACK")
Freed(s, p, l) ==
  \/ l = "left"
  \/ l = "call" /\ p = "free_wait" /\ ~InQ(s.cmd_queue, "FREE_ASSOC")

(* An undisturbed disconnect starts no join, those started before it are   *)
(* queued before its command, and the events of the network that it leaves *)
(* before its second one.                                                  *)
LeaveInv(s, p, c, th, l) ==
  l \in {"call", "left"} =>
    /\ s.to_roam = 0 /\ ~s.to_join
    /\ l = "call" => /\ c = "disconnect"
                     /\ p \in {"scan_wait", "join_wait", "disassoc_wait", "free_wait"}
    /\ l = "left" => \/ p = "idle" /\ c = "none"
                     \/ p = "scan_wait" /\ c = "abort_scan"
                     \/ p = "scan_cmd" /\ c = "scan"
    /\ l = "left" \/ p \in {"disassoc_wait", "free_wait"} => "LINKING" \notin s.fw_state
    /\ p = "disassoc_wait" => NoneBehind(s.cmd_queue, "DISCONNECT_ACK", "JOIN")
    /\ Acked(s, p, l) => s.state = "NULL" /\ ~InQ(s.cmd_queue, "JOIN")
    /\ p = "free_wait" => NoneBehind(s.cmd_queue, "FREE_ASSOC", "STADEL_ROAM")
    /\ Freed(s, p, l) => ~InQ(s.cmd_queue, "STADEL_ROAM") /\ th # "STADEL_ROAM"
    /\ l = "left" => "ASOC" \notin s.fw_state

Sound(s, p, c, th, l) ==
  /\ ScanInv(s, th) /\ QueueInv(s.cmd_queue, p) /\ ConnInv(s, p, th) /\ LeaveInv(s, p, c, th, l)

-----------------------------------------------------------------------------
(* The queue grows by the commands of a set and loses its head.            *)

Longer(q, r, new) ==
  /\ \A x : InQ(r, x) <=> InQ(q, x) \/ x \in new
  /\ \A a, b : NoneBehind(q, a, b) /\ (b \notin new \/ (~InQ(q, a) /\ a \notin new))
                 => NoneBehind(r, a, b)
  /\ Replaced(q) => Replaced(r)

Shorter(q, r, head) ==
  /\ \A x : InQ(r, x) => InQ(q, x)
  /\ \A x : InQ(q, x) => InQ(r, x) \/ x = head
  /\ \A a, b : NoneBehind(q, a, b) => NoneBehind(r, a, b)
  /\ \A b : NoneBehind(q, head, b) => ~InQ(r, b)
  /\ Replaced(q) => Replaced(r) /\ (head = "DISCONNECT" => InQ(r, "JOIN"))

LEMMA AppendShape ==
  ASSUME NEW q \in Seq(Commands), NEW c \in Commands, NEW r, r = Append(q, c)
  PROVE  /\ r \in Seq(Commands) /\ Len(q) \in Nat /\ DOMAIN q = 1..Len(q)
         /\ DOMAIN r = 1..(Len(q) + 1)
         /\ \A i \in 1..Len(q) : i \in DOMAIN r /\ r[i] = q[i] /\ i < Len(q) + 1
         /\ Len(q) + 1 \in DOMAIN r /\ r[Len(q) + 1] = c
         /\ \A i \in DOMAIN r : i \in 1..Len(q) \/ i = Len(q) + 1
OBVIOUS

LEMMA AppendLonger ==
  ASSUME NEW q \in Seq(Commands), NEW c \in Commands, NEW r, r = Append(q, c),
         c # "DISCONNECT"
  PROVE  Longer(q, r, {c})
<1>1. PICK n : n = Len(q)
  OBVIOUS
<1>2. /\ n \in Nat /\ DOMAIN q = 1..n
      /\ \A i \in 1..n : i \in DOMAIN r /\ r[i] = q[i] /\ i < n + 1
      /\ n + 1 \in DOMAIN r /\ r[n + 1] = c
      /\ \A i \in DOMAIN r : i \in 1..n \/ i = n + 1
  BY <1>1, AppendShape
<1>3. \A x : InQ(r, x) <=> InQ(q, x) \/ x \in {c}
  BY <1>2, Zenon DEF InQ
<1>4. ASSUME NEW a, NEW b, NoneBehind(q, a, b), b \notin {c} \/ (~InQ(q, a) /\ a \notin {c}),
             NEW i \in DOMAIN r, NEW j \in DOMAIN r, i < j, r[i] = a, r[j] = b
      PROVE  FALSE
  <2>1. i \in 1..n /\ r[i] = q[i]
    BY <1>2, <1>4
  <2>2. CASE j = n + 1
    BY <1>2, <1>4, <2>1, <2>2 DEF InQ
  <2>3. CASE j \in 1..n
    BY <1>2, <1>4, <2>1, <2>3 DEF NoneBehind
  <2> QED
    BY <1>2, <2>2, <2>3
<1>5. ASSUME Replaced(q), NEW i \in DOMAIN r, r[i] = "DISCONNECT"
      PROVE  \E j \in DOMAIN r : i < j /\ r[j] = "JOIN"
  <2>1. i \in 1..n /\ q[i] = "DISCONNECT"
    BY <1>2, <1>5
  <2>2. PICK j \in DOMAIN q : i < j /\ q[j] = "JOIN"
    BY <1>2, <1>5, <2>1 DEF Replaced
  <2> QED
    BY <1>2, <2>2
<1> QED
  BY <1>3, <1>4, <1>5 DEF Longer, NoneBehind, Replaced

(* A join that replaces an association queues two commands.                *)
LEMMA ReplaceLonger ==
  ASSUME NEW q \in Seq(Commands), NEW m, m = Append(q, "DISCONNECT"), NEW r, r = Append(m, "JOIN")
  PROVE  Longer(q, r, {"DISCONNECT", "JOIN"})
<1>0. {"DISCONNECT", "JOIN"} \subseteq Commands
  BY DEF Commands
<1>1. PICK n : n = Len(q)
  OBVIOUS
<1>2. m \in Seq(Commands) /\ n \in Nat /\ DOMAIN q = 1..n
  BY <1>0, <1>1, AppendShape
<1>3. /\ \A i \in 1..n : m[i] = q[i]
      /\ DOMAIN m = 1..(n + 1) /\ m[n + 1] = "DISCONNECT"
  BY <1>0, <1>1, AppendShape
<1>4. Len(m) = n + 1
  BY <1>1
<1>5. /\ \A i \in 1..(n + 1) : i \in DOMAIN r /\ r[i] = m[i]
      /\ (n + 1) + 1 \in DOMAIN r /\ r[(n + 1) + 1] = "JOIN"
      /\ \A i \in DOMAIN r : i \in 1..(n + 1) \/ i = (n + 1) + 1
  BY <1>0, <1>2, <1>4, AppendShape
<1>6. /\ \A i \in 1..n : i \in DOMAIN r /\ r[i] = q[i] /\ i < n + 1 /\ i < n + 2
      /\ n + 1 \in DOMAIN r /\ r[n + 1] = "DISCONNECT" /\ n + 1 < n + 2
      /\ n + 2 \in DOMAIN r /\ r[n + 2] = "JOIN"
      /\ \A i \in DOMAIN r : i \in 1..n \/ i = n + 1 \/ i = n + 2
  BY <1>2, <1>3, <1>5
<1>7. \A x : InQ(r, x) <=> InQ(q, x) \/ x \in {"DISCONNECT", "JOIN"}
  <2> TAKE x
  <2>1. ASSUME NEW i \in DOMAIN r, r[i] = x PROVE InQ(q, x) \/ x \in {"DISCONNECT", "JOIN"}
    BY <1>2, <1>6, <2>1 DEF InQ
  <2>2. ASSUME NEW i \in DOMAIN q, q[i] = x PROVE InQ(r, x)
    BY <1>2, <1>6, <2>2, Zenon DEF InQ
  <2>3. InQ(r, "DISCONNECT") /\ InQ(r, "JOIN")
    BY <1>6, Zenon DEF InQ
  <2> QED
    BY <2>1, <2>2, <2>3 DEF InQ
<1>8. ASSUME NEW a, NEW b, NoneBehind(q, a, b),
             b \notin {"DISCONNECT", "JOIN"} \/ (~InQ(q, a) /\ a \notin {"DISCONNECT", "JOIN"}),
             NEW i \in DOMAIN r, NEW j \in DOMAIN r, i < j, r[i] = a, r[j] = b
      PROVE  FALSE
  <2>1. CASE b \notin {"DISCONNECT", "JOIN"}
    <3>1. j \in 1..n
      BY <1>6, <1>8, <2>1
    <3>2. i \in 1..n
      BY <1>2, <1>6, <1>8, <3>1
    <3> QED
      BY <1>2, <1>6, <1>8, <3>1, <3>2 DEF NoneBehind
  <2>2. CASE ~InQ(q, a) /\ a \notin {"DISCONNECT", "JOIN"}
    <3>1. InQ(r, a)
      BY <1>8 DEF InQ
    <3> QED
      BY <1>7, <2>2, <3>1
  <2> QED
    BY <1>8, <2>1, <2>2
<1>9. \A i \in DOMAIN r : r[i] = "DISCONNECT" => \E j \in DOMAIN r : i < j /\ r[j] = "JOIN"
  BY <1>6
<1>10. ASSUME NEW a, NEW b, NoneBehind(q, a, b),
              b \notin {"DISCONNECT", "JOIN"} \/ (~InQ(q, a) /\ a \notin {"DISCONNECT", "JOIN"})
       PROVE  NoneBehind(r, a, b)
  <2> SUFFICES ASSUME NEW i \in DOMAIN r, NEW j \in DOMAIN r, i < j, r[i] = a, r[j] = b
               PROVE  FALSE
    BY DEF NoneBehind
  <2> QED
    BY <1>8, <1>10
<1>11. Replaced(r)
  BY <1>9 DEF Replaced
<1> QED
  BY <1>7, <1>10, <1>11, Zenon DEF Longer

LEMMA TailShorter ==
  ASSUME NEW q \in Seq(Commands), q # <<>>
  PROVE  Shorter(q, Tail(q), Head(q))
<1>1. PICK n : n = Len(q)
  OBVIOUS
<1>2. PICK r : r = Tail(q)
  OBVIOUS
<1>3. PICK h : h = Head(q)
  OBVIOUS
<1>4. /\ n \in Nat \ {0} /\ DOMAIN q = 1..n /\ h = q[1]
      /\ DOMAIN r = 1..(n - 1) /\ \A i \in 1..(n - 1) : r[i] = q[i + 1]
  BY <1>1, <1>2, <1>3
<1>5. /\ \A i \in DOMAIN r : i + 1 \in DOMAIN q /\ q[i + 1] = r[i] /\ 1 < i + 1
      /\ \A i \in DOMAIN q : i # 1 => i - 1 \in DOMAIN r /\ r[i - 1] = q[i]
      /\ 1 \in DOMAIN q
      /\ \A i, j \in DOMAIN r : i < j => i + 1 < j + 1
      /\ \A i, j \in DOMAIN q : i < j => j # 1 /\ i + 1 <= j /\ (i # 1 => i - 1 < j - 1)
  BY <1>4
<1>6. \A x : InQ(r, x) => InQ(q, x)
  BY <1>5, Zenon DEF InQ
<1>7. \A x : InQ(q, x) => InQ(r, x) \/ x = h
  BY <1>4, <1>5 DEF InQ
<1>8. \A a, b : NoneBehind(q, a, b) => NoneBehind(r, a, b)
  <2> SUFFICES ASSUME NEW a, NEW b, NoneBehind(q, a, b), NEW i \in DOMAIN r, NEW j \in DOMAIN r,
                      i < j, r[i] = a, r[j] = b
               PROVE  FALSE
    BY DEF NoneBehind
  <2>1. /\ i + 1 \in DOMAIN q /\ j + 1 \in DOMAIN q /\ i + 1 < j + 1
        /\ q[i + 1] = a /\ q[j + 1] = b
    BY <1>5
  <2> QED
    BY <2>1, Zenon DEF NoneBehind
<1>9. \A b : NoneBehind(q, h, b) => ~InQ(r, b)
  BY <1>4, <1>5, Zenon DEF NoneBehind, InQ
<1>10. ASSUME Replaced(q) PROVE Replaced(r)
  <2> SUFFICES ASSUME NEW i \in DOMAIN r, r[i] = "DISCONNECT"
               PROVE  \E j \in DOMAIN r : i < j /\ r[j] = "JOIN"
    BY DEF Replaced
  <2>1. PICK j \in DOMAIN q : i + 1 < j /\ q[j] = "JOIN"
    BY <1>5, <1>10, Zenon DEF Replaced
  <2>2. j # 1 /\ i < j - 1
    BY <1>4, <2>1
  <2> QED
    BY <1>5, <2>1, <2>2
<1>11. ASSUME Replaced(q), h = "DISCONNECT" PROVE InQ(r, "JOIN")
  <2>1. PICK j \in DOMAIN q : 1 < j /\ q[j] = "JOIN"
    BY <1>4, <1>5, <1>11, Zenon DEF Replaced
  <2>2. j # 1
    BY <2>1, <1>4
  <2> QED
    BY <1>5, <2>1, <2>2 DEF InQ
<1> QED
  BY <1>2, <1>3, <1>6, <1>7, <1>8, <1>9, <1>10, <1>11 DEF Shorter

-----------------------------------------------------------------------------
(* What each function leaves alone and what it does to the rest.           *)

ScanSame(s, r) ==
  /\ r.scan_request = s.scan_request /\ r.survey_timer = s.survey_timer
  /\ r.scan_state = s.scan_state
RoamSame(s, r) == r.to_join = s.to_join /\ r.to_roam = s.to_roam
LinkSame(s, r) == r.state = s.state /\ r.assoc_timer = s.assoc_timer
Same(s, r) == ScanSame(s, r) /\ RoamSame(s, r) /\ LinkSame(s, r)

LEMMA EnqueueFields ==
  ASSUME NEW s \in DrvType, NEW c \in Commands, NEW r, r = rtw_enqueue_cmd(s, c)
  PROVE  /\ r \in DrvType /\ Same(s, r) /\ r.fw_state = s.fw_state
         /\ r.cmd_queue = Append(s.cmd_queue, c)
<1>1. r \in DrvType
  BY EnqueueKeeps
<1>2. r = [s EXCEPT !.cmd_queue = Append(s.cmd_queue, c)]
  BY DEF rtw_enqueue_cmd
<1> QED
  BY <1>1, <1>2 DEF DrvType, Same, ScanSame, RoamSame, LinkSame

LEMMA FlagFields ==
  ASSUME NEW s \in DrvType, NEW f \in SUBSET Flags, NEW r
  PROVE  /\ r = set_fwstate(s, f) =>
              /\ r \in DrvType /\ Same(s, r) /\ r.fw_state = s.fw_state \cup f
              /\ r.cmd_queue = s.cmd_queue
         /\ r = clr_fwstate(s, f) =>
              /\ r \in DrvType /\ Same(s, r) /\ r.fw_state = s.fw_state \ f
              /\ r.cmd_queue = s.cmd_queue
BY FlagsKeep DEF set_fwstate, clr_fwstate, DrvType, Same, ScanSame, RoamSame, LinkSame

LEMMA RoamFields ==
  ASSUME NEW s \in DrvType, NEW n \in 0..MaxRoam, NEW r
  PROVE  /\ r = rtw_set_to_roam(s, n) =>
              /\ r \in DrvType /\ ScanSame(s, r) /\ LinkSame(s, r) /\ r.fw_state = s.fw_state
              /\ r.cmd_queue = s.cmd_queue /\ r.to_roam = n
              /\ r.to_join => s.to_join
              /\ n = 0 => ~r.to_join
         /\ r = [s EXCEPT !.to_roam = n] =>
              /\ r \in DrvType /\ ScanSame(s, r) /\ LinkSame(s, r) /\ r.fw_state = s.fw_state
              /\ r.cmd_queue = s.cmd_queue /\ r.to_roam = n /\ r.to_join = s.to_join
BY DEF rtw_set_to_roam, DrvType, ScanSame, LinkSame

LEMMA DisconnectFields ==
  ASSUME NEW s \in DrvType, NEW r, r = rtw_indicate_disconnect(s)
  PROVE  /\ r \in DrvType /\ Same(s, r) /\ r.fw_state = s.fw_state \ {"LINKING", "ASOC"}
         /\ r.cmd_queue = s.cmd_queue
<1>1. PICK t : t = clr_fwstate(s, {"LINKING", "ASOC"})
  OBVIOUS
<1>2. /\ t \in DrvType /\ Same(s, t) /\ t.fw_state = s.fw_state \ {"LINKING", "ASOC"}
      /\ t.cmd_queue = s.cmd_queue
  BY <1>1, FlagFields DEF Flags
<1>3. r = [t EXCEPT !.connect_req = @ /\ s.to_roam > 0]
  BY <1>1 DEF rtw_indicate_disconnect
<1> QED
  BY <1>2, <1>3 DEF DrvType, Same, ScanSame, RoamSame, LinkSame

LEMMA ConnectFields ==
  ASSUME NEW s \in DrvType, NEW r, r = rtw_indicate_connect(s)
  PROVE  /\ r \in DrvType /\ ScanSame(s, r) /\ LinkSame(s, r)
         /\ r.to_roam = 0 /\ ~r.to_join /\ r.fw_state = s.fw_state \cup {"ASOC"}
         /\ r.cmd_queue = s.cmd_queue
<1>1. PICK t : t = set_fwstate(s, {"ASOC"})
  OBVIOUS
<1>2. /\ t \in DrvType /\ Same(s, t) /\ t.fw_state = s.fw_state \cup {"ASOC"}
      /\ t.cmd_queue = s.cmd_queue
  BY <1>1, FlagFields DEF Flags
<1>3. PICK u : u = rtw_set_to_roam(t, 0)
  OBVIOUS
<1>4. /\ u \in DrvType /\ ScanSame(t, u) /\ LinkSame(t, u) /\ u.to_roam = 0 /\ ~u.to_join
      /\ u.fw_state = t.fw_state /\ u.cmd_queue = t.cmd_queue
  BY <1>2, <1>3, RoamFields, MlmeAssumption
<1>5. r = [u EXCEPT !.connect_req = @ /\ "ASOC" \in s.fw_state]
  BY <1>1, <1>3 DEF rtw_indicate_connect
<1>6. /\ r \in DrvType /\ ScanSame(u, r) /\ LinkSame(u, r)
      /\ r.to_roam = u.to_roam /\ r.to_join = u.to_join /\ r.fw_state = u.fw_state
      /\ r.cmd_queue = u.cmd_queue
  BY <1>4, <1>5 DEF DrvType, ScanSame, LinkSame
<1> QED
  BY <1>2, <1>4, <1>6 DEF Same, ScanSame, LinkSame

LEMMA SurveyFields ==
  ASSUME NEW s \in DrvType, NEW r, r = rtw_sitesurvey_cmd(s)
  PROVE  /\ r \in DrvType /\ Same(s, r) /\ r.fw_state = s.fw_state \cup {"SURVEY"}
         /\ Longer(s.cmd_queue, r.cmd_queue, {"SURVEY"})
<1>1. PICK t : t = set_fwstate(s, {"SURVEY"})
  OBVIOUS
<1>2. /\ t \in DrvType /\ Same(s, t) /\ t.fw_state = s.fw_state \cup {"SURVEY"}
      /\ t.cmd_queue = s.cmd_queue
  BY <1>1, FlagFields DEF Flags
<1>3. PICK u : u = rtw_enqueue_cmd(t, "SURVEY")
  OBVIOUS
<1>4. /\ u \in DrvType /\ Same(t, u) /\ u.fw_state = t.fw_state
      /\ u.cmd_queue = Append(t.cmd_queue, "SURVEY")
  BY <1>2, <1>3, EnqueueFields DEF Commands
<1>5. r = [u EXCEPT !.scan_to_timer = TRUE]
  BY <1>1, <1>3 DEF rtw_sitesurvey_cmd
<1>6. r \in DrvType /\ Same(u, r) /\ r.fw_state = u.fw_state /\ r.cmd_queue = u.cmd_queue
  BY <1>4, <1>5 DEF DrvType, Same, ScanSame, RoamSame, LinkSame
<1>7. Longer(s.cmd_queue, r.cmd_queue, {"SURVEY"})
  <2>1. s.cmd_queue \in Seq(Commands) /\ "SURVEY" \in Commands
    BY DEF DrvType, Commands
  <2> QED
    BY <1>2, <1>4, <1>6, <2>1, AppendLonger
<1> QED
  BY <1>2, <1>4, <1>6, <1>7 DEF Same, ScanSame, RoamSame, LinkSame

(* A join is started, or a scan that looks for its network.                *)
Starts(s, r) ==
  /\ r \in DrvType /\ ScanSame(s, r) /\ r.state = s.state /\ r.to_roam = s.to_roam
  /\ r.assoc_timer /\ ~r.to_join
  /\ r.fw_state = (s.fw_state \ {"ASOC"}) \cup {"LINKING"}
  /\ \/ Longer(s.cmd_queue, r.cmd_queue, {"JOIN"})
     \/ Longer(s.cmd_queue, r.cmd_queue, {"DISCONNECT", "JOIN"})
Looks(s, r) ==
  /\ r \in DrvType /\ ScanSame(s, r) /\ LinkSame(s, r) /\ r.to_roam = s.to_roam
  /\ r.fw_state = (s.fw_state \ {"LINKING"}) \cup {"SURVEY"}
  /\ Longer(s.cmd_queue, r.cmd_queue, {"SURVEY"})

LEMMA StartedFields ==
  ASSUME NEW s \in DrvType
  PROVE  Starts(s, JoinStarted(s))
<1>0. {"LINKING"} \in SUBSET Flags /\ "DISCONNECT" \in Commands /\ "JOIN" \in Commands
      /\ "JOIN" # "DISCONNECT" /\ s.cmd_queue \in Seq(Commands)
  BY DEF Flags, Commands, DrvType
<1>1. PICK left : left = IF "ASOC" \in s.fw_state
                         THEN rtw_indicate_disconnect(rtw_enqueue_cmd(s, "DISCONNECT")) ELSE s
  OBVIOUS
<1>2. PICK t : t = set_fwstate(left, {"LINKING"})
  OBVIOUS
<1>3. PICK u : u = rtw_enqueue_cmd(t, "JOIN")
  OBVIOUS
<1>4. PICK r : r = [u EXCEPT !.to_join = FALSE, !.assoc_timer = TRUE]
  OBVIOUS
<1>5. JoinStarted(s) = r
  BY <1>1, <1>2, <1>3, <1>4 DEF JoinStarted, rtw_select_and_join
<1>6. /\ left \in DrvType /\ Same(s, left)
      /\ \/ /\ left.fw_state = s.fw_state \ {"LINKING", "ASOC"}
            /\ left.cmd_queue = Append(s.cmd_queue, "DISCONNECT")
         \/ /\ left.fw_state = s.fw_state /\ "ASOC" \notin s.fw_state
            /\ left.cmd_queue = s.cmd_queue
  <2>1. CASE "ASOC" \in s.fw_state
    <3>1. PICK v : v = rtw_enqueue_cmd(s, "DISCONNECT")
      OBVIOUS
    <3>2. /\ v \in DrvType /\ Same(s, v) /\ v.fw_state = s.fw_state
          /\ v.cmd_queue = Append(s.cmd_queue, "DISCONNECT")
      BY <1>0, <3>1, EnqueueFields
    <3>3. left = rtw_indicate_disconnect(v)
      BY <1>1, <2>1, <3>1
    <3>4. /\ left \in DrvType /\ Same(v, left) /\ left.fw_state = v.fw_state \ {"LINKING", "ASOC"}
          /\ left.cmd_queue = v.cmd_queue
      BY <3>2, <3>3, DisconnectFields
    <3> QED
      BY <3>2, <3>4 DEF Same, ScanSame, RoamSame, LinkSame
  <2>2. CASE "ASOC" \notin s.fw_state
    BY <1>1, <2>2 DEF Same, ScanSame, RoamSame, LinkSame
  <2> QED
    BY <2>1, <2>2
<1>7. /\ t \in DrvType /\ Same(left, t) /\ t.fw_state = left.fw_state \cup {"LINKING"}
      /\ t.cmd_queue = left.cmd_queue
  BY <1>0, <1>2, <1>6, FlagFields
<1>8. /\ u \in DrvType /\ Same(t, u) /\ u.fw_state = t.fw_state
      /\ u.cmd_queue = Append(t.cmd_queue, "JOIN")
  BY <1>0, <1>3, <1>7, EnqueueFields
<1>9. /\ r \in DrvType /\ ScanSame(u, r) /\ r.state = u.state /\ r.to_roam = u.to_roam
      /\ r.assoc_timer /\ ~r.to_join /\ r.fw_state = u.fw_state /\ r.cmd_queue = u.cmd_queue
  BY <1>4, <1>8 DEF DrvType, ScanSame
<1>10. r.fw_state = (s.fw_state \ {"ASOC"}) \cup {"LINKING"}
  BY <1>6, <1>7, <1>8, <1>9
<1>11. \/ Longer(s.cmd_queue, r.cmd_queue, {"JOIN"})
       \/ Longer(s.cmd_queue, r.cmd_queue, {"DISCONNECT", "JOIN"})
  <2>1. r.cmd_queue = Append(left.cmd_queue, "JOIN")
    BY <1>7, <1>8, <1>9
  <2>2. CASE left.cmd_queue = s.cmd_queue
    BY <1>0, <2>1, <2>2, AppendLonger
  <2>3. CASE left.cmd_queue = Append(s.cmd_queue, "DISCONNECT")
    BY <1>0, <2>1, <2>3, ReplaceLonger
  <2> QED
    BY <1>6, <2>2, <2>3
<1>12. ScanSame(s, r) /\ r.state = s.state /\ r.to_roam = s.to_roam
  BY <1>6, <1>7, <1>8, <1>9 DEF Same, ScanSame, RoamSame, LinkSame
<1> QED
  BY <1>5, <1>9, <1>10, <1>11, <1>12 DEF Starts

LEMMA DoJoinFields ==
  ASSUME NEW s \in DrvType, NEW r \in rtw_do_join(s)
  PROVE  Starts(s, r) \/ Looks(s, r)
<1>1. PICK t : t = clr_fwstate(s, {"LINKING"})
  OBVIOUS
<1>2. PICK v : v = rtw_sitesurvey_cmd(t)
  OBVIOUS
<1>3. r = JoinStarted(s) \/ r = [v EXCEPT !.to_join = TRUE]
  BY <1>1, <1>2 DEF rtw_do_join
<1>4. /\ t \in DrvType /\ Same(s, t) /\ t.fw_state = s.fw_state \ {"LINKING"}
      /\ t.cmd_queue = s.cmd_queue
  BY <1>1, FlagFields DEF Flags
<1>5. /\ v \in DrvType /\ Same(t, v) /\ v.fw_state = t.fw_state \cup {"SURVEY"}
      /\ Longer(t.cmd_queue, v.cmd_queue, {"SURVEY"})
  BY <1>2, <1>4, SurveyFields
<1>6. ASSUME r = [v EXCEPT !.to_join = TRUE] PROVE Looks(s, r)
  <2>1. /\ r \in DrvType /\ ScanSame(v, r) /\ LinkSame(v, r) /\ r.to_roam = v.to_roam
        /\ r.fw_state = v.fw_state /\ r.cmd_queue = v.cmd_queue
    BY <1>5, <1>6 DEF DrvType, ScanSame, LinkSame
  <2>2. Longer(s.cmd_queue, r.cmd_queue, {"SURVEY"})
    BY <1>4, <1>5, <2>1
  <2> QED
    BY <1>4, <1>5, <2>1, <2>2 DEF Looks, Same, ScanSame, RoamSame, LinkSame
<1> QED
  BY <1>3, <1>6, StartedFields

LEMMA FailFields ==
  ASSUME NEW s \in DrvType, NEW r, r = rtw_do_join_fail(s)
  PROVE  /\ r \in DrvType /\ ScanSame(s, r) /\ LinkSame(s, r) /\ r.to_roam = s.to_roam
         /\ ~r.to_join /\ r.fw_state = s.fw_state \ {"LINKING"} /\ r.cmd_queue = s.cmd_queue
<1>1. PICK t : t = clr_fwstate(s, {"LINKING"})
  OBVIOUS
<1>2. /\ t \in DrvType /\ Same(s, t) /\ t.fw_state = s.fw_state \ {"LINKING"}
      /\ t.cmd_queue = s.cmd_queue
  BY <1>1, FlagFields DEF Flags
<1>3. r = [t EXCEPT !.to_join = FALSE]
  BY <1>1 DEF rtw_do_join_fail
<1>4. /\ r \in DrvType /\ ScanSame(t, r) /\ LinkSame(t, r) /\ r.to_roam = t.to_roam
      /\ ~r.to_join /\ r.fw_state = t.fw_state /\ r.cmd_queue = t.cmd_queue
  BY <1>2, <1>3 DEF DrvType, ScanSame, LinkSame
<1> QED
  BY <1>2, <1>4 DEF Same, ScanSame, RoamSame, LinkSame

LEMMA FailureFields ==
  ASSUME NEW s \in DrvType, NEW r \in rtw_joinbss_event_prehandle(s, FALSE)
  PROVE  /\ r \in DrvType /\ ScanSame(s, r) /\ RoamSame(s, r) /\ r.state = s.state
         /\ r.assoc_timer /\ r.fw_state = s.fw_state \ {"LINKING"} /\ r.cmd_queue = s.cmd_queue
<1>1. PICK t : t = clr_fwstate(s, {"LINKING"})
  OBVIOUS
<1>2. /\ t \in DrvType /\ Same(s, t) /\ t.fw_state = s.fw_state \ {"LINKING"}
      /\ t.cmd_queue = s.cmd_queue
  BY <1>1, FlagFields DEF Flags
<1>3. r = [t EXCEPT !.assoc_timer = TRUE]
  BY <1>1 DEF rtw_joinbss_event_prehandle
<1>4. /\ r \in DrvType /\ ScanSame(t, r) /\ RoamSame(t, r) /\ r.state = t.state
      /\ r.assoc_timer /\ r.fw_state = t.fw_state /\ r.cmd_queue = t.cmd_queue
  BY <1>2, <1>3 DEF DrvType, ScanSame, RoamSame
<1> QED
  BY <1>2, <1>4 DEF Same, ScanSame, RoamSame, LinkSame

LEMMA SuccessFields ==
  ASSUME NEW s \in DrvType, NEW r \in rtw_joinbss_event_prehandle(s, TRUE)
  PROVE  \/ r = s
         \/ /\ "LINKING" \in s.fw_state /\ r \in DrvType /\ ScanSame(s, r) /\ r.state = s.state
            /\ r.to_roam = 0 /\ ~r.to_join /\ r.fw_state = {"ASOC"} /\ r.cmd_queue = s.cmd_queue
<1>1. PICK t : t = [s EXCEPT !.fw_state = {}]
  OBVIOUS
<1>2. t \in DrvType /\ Same(s, t) /\ t.fw_state = {} /\ t.cmd_queue = s.cmd_queue
  BY <1>1 DEF DrvType, Same, ScanSame, RoamSame, LinkSame
<1>3. PICK u : u = rtw_indicate_connect(t)
  OBVIOUS
<1>4. /\ u \in DrvType /\ ScanSame(t, u) /\ LinkSame(t, u)
      /\ u.to_roam = 0 /\ ~u.to_join /\ u.fw_state = t.fw_state \cup {"ASOC"}
      /\ u.cmd_queue = t.cmd_queue
  BY <1>2, <1>3, ConnectFields
<1>5. r = s \/ ("LINKING" \in s.fw_state /\ r = [u EXCEPT !.assoc_timer = FALSE])
  BY <1>1, <1>3 DEF rtw_joinbss_event_prehandle
<1>6. ASSUME r = [u EXCEPT !.assoc_timer = FALSE]
      PROVE  /\ r \in DrvType /\ ScanSame(u, r) /\ r.state = u.state /\ r.to_roam = u.to_roam
             /\ r.to_join = u.to_join /\ r.fw_state = u.fw_state /\ r.cmd_queue = u.cmd_queue
  BY <1>4, <1>6 DEF DrvType, ScanSame
<1> QED
  BY <1>2, <1>4, <1>5, <1>6 DEF Same, ScanSame, RoamSame, LinkSame

LEMMA StateFields ==
  ASSUME NEW s \in DrvType, NEW x \in ExtStates, NEW r, r = set_state(s, x)
  PROVE  /\ r \in DrvType /\ ScanSame(s, r) /\ RoamSame(s, r) /\ r.state = x
         /\ r.assoc_timer = s.assoc_timer
         /\ r.fw_state = s.fw_state /\ r.cmd_queue = s.cmd_queue
<1>1. r \in DrvType
  BY StateKeeps
<1>2. r = [s EXCEPT !.state = x, !.count = 0]
  BY DEF set_state
<1> QED
  BY <1>1, <1>2 DEF DrvType, ScanSame, RoamSame

LEMMA TimerFields ==
  ASSUME NEW s \in DrvType, NEW r,
         r = [s EXCEPT !.link_timer = TRUE] \/ r = [s EXCEPT !.link_timer = FALSE]
  PROVE  r \in DrvType /\ Same(s, r) /\ r.fw_state = s.fw_state /\ r.cmd_queue = s.cmd_queue
BY DEF DrvType, Same, ScanSame, RoamSame, LinkSame

LEMMA TakenFields ==
  ASSUME drv \in DrvType, drv.cmd_queue # <<>>
  PROVE  /\ Taken \in DrvType /\ Same(drv, Taken) /\ Taken.fw_state = drv.fw_state
         /\ Shorter(drv.cmd_queue, Taken.cmd_queue, Head(drv.cmd_queue))
<1>1. PICK t : t = Taken
  OBVIOUS
<1>2. t \in DrvType /\ t = [drv EXCEPT !.cmd_queue = Tail(drv.cmd_queue)]
  BY <1>1, TakenKeeps DEF Taken
<1>3. Same(drv, t) /\ t.fw_state = drv.fw_state /\ t.cmd_queue = Tail(drv.cmd_queue)
  BY <1>2 DEF DrvType, Same, ScanSame, RoamSame, LinkSame
<1>4. drv.cmd_queue \in Seq(Commands)
  BY DEF DrvType
<1> QED
  BY <1>1, <1>2, <1>3, <1>4, TailShorter

-----------------------------------------------------------------------------
(* Steps that take away more than they add keep all of it.                 *)

Calmer(s, r) ==
  /\ r.fw_state \subseteq s.fw_state
  /\ r.survey_timer = s.survey_timer /\ r.scan_state = s.scan_state
  /\ r.scan_request => s.scan_request
  /\ r.to_join => s.to_join
  /\ r.to_roam \in {s.to_roam, 0}
  /\ r.cmd_queue = s.cmd_queue
  /\ \/ "ASOC" \notin r.fw_state /\ r.state = s.state
     \/ (s.assoc_timer => r.assoc_timer) /\ r.state = s.state
     \/ (s.assoc_timer => r.assoc_timer) /\ s.state \in Linking
     \/ r.assoc_timer /\ r.state = "NULL"

LEMMA CalmerSound ==
  ASSUME NEW s, NEW r, NEW p, NEW c, NEW th, NEW l, Sound(s, p, c, th, l), Calmer(s, r)
  PROVE  Sound(r, p, c, th, l)
<1>1. ScanInv(r, th)
  BY DEF Sound, Calmer, ScanInv, Goes
<1>2. QueueInv(r.cmd_queue, p)
  BY DEF Sound, Calmer
<1>3. ConnInv(r, p, th)
  <2>1. ASSUME "ASOC" \in r.fw_state PROVE r.to_roam = 0 /\ Excused(r, p, th)
    <3>1. "ASOC" \in s.fw_state /\ r.to_roam = 0 /\ r.cmd_queue = s.cmd_queue
      BY <2>1 DEF Sound, Calmer, ConnInv
    <3>2. Excused(s, p, th)
      BY <3>1 DEF Sound, ConnInv
    <3> QED
      BY <2>1, <3>1, <3>2 DEF Calmer, Excused, Linking
  <2> QED
    BY <2>1 DEF ConnInv
<1>4. LeaveInv(r, p, c, th, l)
  <2>1. /\ LeaveInv(s, p, c, th, l) /\ r.cmd_queue = s.cmd_queue
        /\ Acked(r, p, l) <=> Acked(s, p, l)
        /\ Freed(r, p, l) <=> Freed(s, p, l)
    BY DEF Sound, Calmer, Acked, Freed
  <2>2. ASSUME s.state = "NULL" PROVE r.state = "NULL"
    BY <2>2 DEF Calmer, Linking
  <2>3. r.fw_state \subseteq s.fw_state /\ (r.to_join => s.to_join) /\ r.to_roam \in {s.to_roam, 0}
    BY DEF Calmer
  <2> QED
    BY <2>1, <2>2, <2>3 DEF LeaveInv
<1> QED
  BY <1>1, <1>2, <1>3, <1>4 DEF Sound

LEMMA DisturbedSound ==
  ASSUME NEW s, NEW p, NEW c, NEW th, NEW l, Sound(s, p, c, th, l), NEW l2 \in {l, "disturbed"}
  PROVE  Sound(s, p, c, th, l2)
BY DEF Sound, LeaveInv

(* The process moves on, outside of the waits of a disconnect.             *)
LEMMA MovesSound ==
  ASSUME NEW s, NEW p, NEW c, NEW th, NEW l, Sound(s, p, c, th, l),
         p \notin {"disassoc_wait", "free_wait"},
         NEW p2, NEW c2, NEW l2, p2 \notin {"disassoc_wait", "free_wait"}, l2 \notin {"call", "left"}
  PROVE  Sound(s, p2, c2, th, l2)
BY DEF Sound, QueueInv, ConnInv, Excused, LeaveInv

(* A join, or the scan before it, starts while nobody disconnects.         *)
LEMMA JoiningSound ==
  ASSUME NEW s, NEW r, NEW p, NEW c, NEW th, NEW l, l \notin {"call", "left"},
         ScanInv(s, th), QueueInv(s.cmd_queue, p), ConnInv(s, p, th), Starts(s, r) \/ Looks(s, r)
  PROVE  Sound(r, p, c, th, l)
<1>1. CASE Starts(s, r)
  <2>1. PICK new : /\ Longer(s.cmd_queue, r.cmd_queue, new)
                   /\ new \in {{"JOIN"}, {"DISCONNECT", "JOIN"}}
    BY <1>1 DEF Starts
  <2>2. \A x : InQ(s.cmd_queue, x) => InQ(r.cmd_queue, x)
    BY <2>1 DEF Longer
  <2>3. ScanInv(r, th)
    BY <1>1, <2>2 DEF Starts, ScanInv, Goes, ScanSame
  <2>4. QueueInv(r.cmd_queue, p)
    BY <2>1 DEF QueueInv, Longer
  <2>5. ConnInv(r, p, th)
    BY <1>1 DEF Starts, ConnInv
  <2> QED
    BY <2>3, <2>4, <2>5 DEF Sound, LeaveInv
<1>2. CASE Looks(s, r)
  <2>1. /\ \A x : InQ(s.cmd_queue, x) => InQ(r.cmd_queue, x)
        /\ InQ(r.cmd_queue, "SURVEY")
    BY <1>2 DEF Looks, Longer
  <2>2. ScanInv(r, th)
    BY <2>1 DEF ScanInv, Goes
  <2>3. QueueInv(r.cmd_queue, p)
    BY <1>2 DEF Looks, QueueInv, Longer
  <2>4. ConnInv(r, p, th)
    BY <1>2, <2>1 DEF Looks, ConnInv, Excused, LinkSame
  <2> QED
    BY <2>2, <2>3, <2>4 DEF Sound, LeaveInv
<1> QED
  BY <1>1, <1>2

(* The command thread takes a command: what is lost depends on which.      *)
LEMMA TakeSound ==
  ASSUME NEW s, NEW t, NEW p, NEW c, NEW l, NEW h, Sound(s, p, c, "idle", l), Same(s, t),
         t.fw_state = s.fw_state, Shorter(s.cmd_queue, t.cmd_queue, h)
  PROVE  /\ QueueInv(t.cmd_queue, p)
         /\ h \notin {"SURVEY", "SURVEY_DONE"} => ScanInv(t, "idle")
         /\ h \notin {"STADEL", "STADEL_ROAM", "JOIN"} => ConnInv(t, p, "idle")
         /\ h # "DISCONNECT_ACK" => LeaveInv(t, p, c, "idle", l)
<1>1. /\ \A x : InQ(t.cmd_queue, x) => InQ(s.cmd_queue, x)
      /\ \A x : InQ(s.cmd_queue, x) => InQ(t.cmd_queue, x) \/ x = h
      /\ \A a, b : NoneBehind(s.cmd_queue, a, b) => NoneBehind(t.cmd_queue, a, b)
      /\ \A b : NoneBehind(s.cmd_queue, h, b) => ~InQ(t.cmd_queue, b)
      /\ Replaced(s.cmd_queue) => Replaced(t.cmd_queue)
  BY DEF Shorter
<1>2. QueueInv(t.cmd_queue, p)
  BY <1>1 DEF Sound, QueueInv
<1>3. ASSUME h \notin {"SURVEY", "SURVEY_DONE"} PROVE ScanInv(t, "idle")
  <2>1. ScanInv(s, "idle") /\ (Goes(s) => Goes(t))
    BY <1>1, <1>3 DEF Sound, Goes, Same, ScanSame
  <2> QED
    BY <2>1 DEF ScanInv, Same, ScanSame, RoamSame
<1>4. ASSUME h \notin {"STADEL", "STADEL_ROAM", "JOIN"} PROVE ConnInv(t, p, "idle")
  <2>1. ConnInv(s, p, "idle") /\ (Excused(s, p, "idle") => Excused(t, p, "idle"))
    BY <1>1, <1>4 DEF Sound, Excused, Same, LinkSame
  <2> QED
    BY <2>1 DEF ConnInv, Same, RoamSame
<1>5. ASSUME h # "DISCONNECT_ACK" PROVE LeaveInv(t, p, c, "idle", l)
  <2>1. LeaveInv(s, p, c, "idle", l) /\ (Acked(t, p, l) => Acked(s, p, l))
    BY <1>1, <1>5 DEF Sound, Acked
  <2>2. t.to_roam = s.to_roam /\ t.to_join = s.to_join /\ t.state = s.state
    BY DEF Same, RoamSame, LinkSame
  <2>3. ASSUME l \in {"call", "left"}, Freed(t, p, l) PROVE ~InQ(t.cmd_queue, "STADEL_ROAM")
    <3>1. CASE Freed(s, p, l)
      BY <1>1, <2>1, <2>3, <3>1 DEF LeaveInv
    <3>2. CASE ~Freed(s, p, l)
      <4>1. l = "call" /\ p = "free_wait" /\ h = "FREE_ASSOC"
        BY <1>1, <2>3, <3>2 DEF Freed
      <4> QED
        BY <1>1, <2>1, <4>1 DEF LeaveInv
    <3> QED
      BY <3>1, <3>2
  <2> QED
    BY <1>1, <2>1, <2>2, <2>3 DEF LeaveInv
<1> QED
  BY <1>2, <1>3, <1>4, <1>5

-----------------------------------------------------------------------------
(* The timers.                                                             *)

LEMMA SoundGoes ==
  ASSUME NEW s, NEW r, NEW p, NEW c, NEW th, NEW l, Sound(s, p, c, th, l),
         RoamSame(s, r), LinkSame(s, r), r.scan_request = s.scan_request,
         r.fw_state = s.fw_state, Goes(s) => Goes(r),
         \/ r.cmd_queue = s.cmd_queue
         \/ Longer(s.cmd_queue, r.cmd_queue, {"SURVEY"})
  PROVE  Sound(r, p, c, th, l)
<1>1. /\ \A x : InQ(r.cmd_queue, x) <=> InQ(s.cmd_queue, x) \/ (x = "SURVEY" /\ InQ(r.cmd_queue, x))
      /\ \A a, b : NoneBehind(s.cmd_queue, a, b) /\ b # "SURVEY" => NoneBehind(r.cmd_queue, a, b)
      /\ Replaced(s.cmd_queue) => Replaced(r.cmd_queue)
  BY DEF Longer
<1>2. ScanInv(r, th)
  BY DEF Sound, ScanInv, RoamSame
<1>3. QueueInv(r.cmd_queue, p)
  BY <1>1 DEF Sound, QueueInv
<1>4. ConnInv(r, p, th)
  BY <1>1 DEF Sound, ConnInv, Excused, RoamSame, LinkSame
<1>5. LeaveInv(r, p, c, th, l)
  <2>1. /\ LeaveInv(s, p, c, th, l)
        /\ Acked(r, p, l) <=> Acked(s, p, l)
        /\ Freed(r, p, l) <=> Freed(s, p, l)
    BY <1>1 DEF Sound, Acked, Freed
  <2> QED
    BY <1>1, <2>1 DEF LeaveInv, RoamSame, LinkSame
<1> QED
  BY <1>2, <1>3, <1>4, <1>5 DEF Sound

LEMMA LinkTimeoutCalms ==
  ASSUME NEW s \in DrvType, NEW r \in LinkTimeout(s)
  PROVE  Calmer(s, r)
<1>1. PICK t : t = set_state(s, "NULL")
  OBVIOUS
<1>2. "NULL" \in ExtStates
  BY DEF ExtStates
<1>3. /\ t \in DrvType /\ ScanSame(s, t) /\ RoamSame(s, t) /\ t.state = "NULL"
      /\ t.fw_state = s.fw_state /\ t.cmd_queue = s.cmd_queue
  BY <1>1, <1>2, StateFields
<1>4. \/ r = s
      \/ r \in rtw_joinbss_event_prehandle(t, FALSE)
      \/ r = [s EXCEPT !.count = @ + 1, !.link_timer = TRUE]
  <2>1. CASE s.join_abort /\ s.state # "NULL"
    BY <1>1, <2>1 DEF LinkTimeout
  <2>2. CASE ~s.join_abort /\ s.state = "AUTH_NULL"
    BY <1>1, <2>2 DEF LinkTimeout
  <2>3. CASE ~s.join_abort /\ s.state \in {"AUTH", "ASSOC"}
    BY <1>1, <2>3 DEF LinkTimeout
  <2>4. CASE /\ ~(s.join_abort /\ s.state # "NULL")
             /\ ~(~s.join_abort /\ s.state = "AUTH_NULL")
             /\ ~(~s.join_abort /\ s.state \in {"AUTH", "ASSOC"})
    BY <2>4 DEF LinkTimeout
  <2> QED
    BY <2>1, <2>2, <2>3, <2>4
<1>5. CASE r = s
  BY <1>5 DEF Calmer
<1>6. CASE r \in rtw_joinbss_event_prehandle(t, FALSE)
  <2>1. /\ ScanSame(t, r) /\ RoamSame(t, r) /\ r.state = t.state
        /\ r.assoc_timer /\ r.fw_state = t.fw_state \ {"LINKING"} /\ r.cmd_queue = t.cmd_queue
    BY <1>3, <1>6, FailureFields
  <2> QED
    BY <1>3, <2>1 DEF Calmer, ScanSame, RoamSame
<1>7. CASE r = [s EXCEPT !.count = @ + 1, !.link_timer = TRUE]
  <2>1. Same(s, r) /\ r.fw_state = s.fw_state /\ r.cmd_queue = s.cmd_queue
    BY <1>7 DEF DrvType, Same, ScanSame, RoamSame, LinkSame
  <2> QED
    BY <2>1 DEF Calmer, Same, ScanSame, RoamSame, LinkSame
<1> QED
  BY <1>4, <1>5, <1>6, <1>7

LEMMA SoundJoinTimeout ==
  ASSUME TypeOK, Sound(drv, pc, call, thread, leaving), rtw_join_timeout_handler
  PROVE  Sound(drv', pc', call', thread', leaving')
<1>1. PICK s : s = [drv EXCEPT !.assoc_timer = FALSE]
  OBVIOUS
<1>2. PICK lost : lost = IF s.to_roam > 1 THEN rtw_do_join_fail(s) ELSE s
  OBVIOUS
<1>3. PICK u : u = [lost EXCEPT !.to_roam = 0]
  OBVIOUS
<1>4. /\ \/ drv' \in Attempts(s, 1..(s.to_roam - 1))
         \/ drv' = rtw_indicate_disconnect(u)
      /\ UNCHANGED <<pc, call, thread, leaving>>
  BY <1>1, <1>2, <1>3 DEF rtw_join_timeout_handler, TriesLeft, Handler
<1>5. /\ s \in DrvType /\ ScanSame(drv, s) /\ RoamSame(drv, s) /\ s.state = drv.state
      /\ s.fw_state = drv.fw_state /\ s.cmd_queue = drv.cmd_queue
  BY <1>1 DEF TypeOK, DrvType, ScanSame, RoamSame
<1>6. ASSUME NEW n \in 1..(s.to_roam - 1), drv' \in rtw_do_join([s EXCEPT !.to_roam = n])
      PROVE  Sound(drv', pc, call, thread, leaving)
  <2>1. PICK v : v = [s EXCEPT !.to_roam = n]
    OBVIOUS
  <2>2. n \in 0..MaxRoam /\ s.to_roam # 0
    <3>1. s.to_roam \in 0..MaxRoam
      BY <1>5 DEF DrvType
    <3> QED
      BY <1>6, <3>1, MlmeAssumption
  <2>3. /\ v \in DrvType /\ ScanSame(s, v) /\ LinkSame(s, v) /\ v.fw_state = s.fw_state
        /\ v.cmd_queue = s.cmd_queue /\ v.to_join = s.to_join
    BY <1>5, <2>1, <2>2, RoamFields
  <2>4. leaving \notin {"call", "left"} /\ "ASOC" \notin v.fw_state
    BY <1>5, <2>2, <2>3 DEF Sound, LeaveInv, ConnInv, RoamSame
  <2>5. ScanInv(v, thread)
    BY <1>5, <2>3 DEF Sound, ScanInv, Goes, ScanSame, RoamSame
  <2>6. QueueInv(v.cmd_queue, pc) /\ ConnInv(v, pc, thread)
    BY <1>5, <2>3, <2>4 DEF Sound, ConnInv
  <2>7. Starts(v, drv') \/ Looks(v, drv')
    BY <1>6, <2>1, <2>3, DoJoinFields
  <2> QED
    BY <2>4, <2>5, <2>6, <2>7, JoiningSound
<1>7. ASSUME drv' = rtw_indicate_disconnect(u)
      PROVE  Sound(drv', pc, call, thread, leaving)
  <2>1. /\ lost \in DrvType /\ ScanSame(s, lost) /\ lost.state = s.state
        /\ lost.to_join => s.to_join
        /\ lost.fw_state \subseteq s.fw_state /\ lost.cmd_queue = s.cmd_queue
    <3>1. CASE lost = s
      BY <1>5, <3>1 DEF ScanSame
    <3>2. CASE lost = rtw_do_join_fail(s)
      BY <1>5, <3>2, FailFields DEF LinkSame
    <3> QED
      BY <1>2, <3>1, <3>2
  <2>2. /\ u \in DrvType /\ ScanSame(lost, u) /\ LinkSame(lost, u) /\ u.fw_state = lost.fw_state
        /\ u.cmd_queue = lost.cmd_queue /\ u.to_roam = 0 /\ u.to_join = lost.to_join
    BY <1>3, <2>1, RoamFields, MlmeAssumption
  <2>3. PICK r : r = drv'
    OBVIOUS
  <2>4. /\ Same(u, r) /\ r.fw_state = u.fw_state \ {"LINKING", "ASOC"} /\ r.cmd_queue = u.cmd_queue
    BY <1>7, <2>2, <2>3, DisconnectFields
  <2>5. Calmer(drv, r)
    BY <1>5, <2>1, <2>2, <2>4 DEF Calmer, Same, ScanSame, RoamSame, LinkSame
  <2> QED
    BY <2>3, <2>5, CalmerSound
<1>8. ASSUME drv' \in Attempts(s, 1..(s.to_roam - 1))
      PROVE  Sound(drv', pc, call, thread, leaving)
  <2>1. PICK n \in 1..(s.to_roam - 1) : drv' \in rtw_do_join([s EXCEPT !.to_roam = n])
    BY <1>8 DEF Attempts
  <2> QED
    BY <1>6, <2>1
<1> QED
  BY <1>4, <1>7, <1>8

LEMMA SoundTimer ==
  ASSUME TypeOK, Sound(drv, pc, call, thread, leaving), Timer
  PROVE  Sound(drv', pc', call', thread', leaving')
<1>0. drv \in DrvType
  BY DEF TypeOK
<1>1. CASE rtw_join_timeout_handler
  BY <1>1, SoundJoinTimeout
<1>2. CASE rtw_scan_timeout_handler
  <2>1. PICK t : t = clr_fwstate(drv, {"SURVEY"})
    OBVIOUS
  <2>2. PICK u : u = [t EXCEPT !.scan_to_timer = FALSE]
    OBVIOUS
  <2>3. drv' = [u EXCEPT !.scan_request = FALSE] /\ UNCHANGED <<pc, call, thread, leaving>>
    BY <1>2, <2>1, <2>2 DEF rtw_scan_timeout_handler, Handler, rtw_cfg80211_indicate_scan_done
  <2>4. /\ t \in DrvType /\ Same(drv, t) /\ t.fw_state = drv.fw_state \ {"SURVEY"}
        /\ t.cmd_queue = drv.cmd_queue
    BY <1>0, <2>1, FlagFields DEF Flags
  <2>5. u \in DrvType /\ Same(t, u) /\ u.fw_state = t.fw_state /\ u.cmd_queue = t.cmd_queue
    BY <2>2, <2>4 DEF DrvType, Same, ScanSame, RoamSame, LinkSame
  <2>6. PICK r : r = drv'
    OBVIOUS
  <2>7. /\ ~r.scan_request /\ r.survey_timer = u.survey_timer /\ r.scan_state = u.scan_state
        /\ RoamSame(u, r) /\ LinkSame(u, r) /\ r.fw_state = u.fw_state /\ r.cmd_queue = u.cmd_queue
    BY <2>3, <2>5, <2>6 DEF DrvType, RoamSame, LinkSame
  <2>8. Calmer(drv, r)
    BY <2>4, <2>5, <2>7 DEF Calmer, Same, ScanSame, RoamSame, LinkSame
  <2> QED
    BY <2>3, <2>6, <2>8, CalmerSound
<1>3. CASE survey_timer_hdl
  <2>1. PICK u : u = [drv EXCEPT !.survey_timer = FALSE]
    OBVIOUS
  <2>2. PICK r : r = drv'
    OBVIOUS
  <2>3. /\ \/ u.scan_state = "DISABLE" /\ r = u
           \/ r = rtw_enqueue_cmd(u, "SURVEY")
        /\ UNCHANGED <<pc, call, thread, leaving>>
    BY <1>3, <2>1, <2>2 DEF survey_timer_hdl, Handler
  <2>4. /\ u \in DrvType /\ RoamSame(drv, u) /\ LinkSame(drv, u)
        /\ u.scan_request = drv.scan_request /\ u.scan_state = drv.scan_state
        /\ u.fw_state = drv.fw_state /\ u.cmd_queue = drv.cmd_queue
    BY <1>0, <2>1 DEF DrvType, RoamSame, LinkSame
  <2>5. ASSUME u.scan_state = "DISABLE", r = u PROVE Sound(r, pc, call, thread, leaving)
    <3>1. Goes(drv) => Goes(r)
      BY <2>4, <2>5 DEF Goes
    <3> QED
      BY <2>4, <2>5, <3>1, SoundGoes
  <2>6. ASSUME r = rtw_enqueue_cmd(u, "SURVEY") PROVE Sound(r, pc, call, thread, leaving)
    <3>1. Same(u, r) /\ r.fw_state = u.fw_state /\ r.cmd_queue = Append(u.cmd_queue, "SURVEY")
      BY <2>4, <2>6, EnqueueFields DEF Commands
    <3>2. drv.cmd_queue \in Seq(Commands) /\ "SURVEY" \in Commands
      BY <1>0 DEF DrvType, Commands
    <3>3. Longer(drv.cmd_queue, r.cmd_queue, {"SURVEY"})
      BY <2>4, <3>1, <3>2, AppendLonger
    <3>4. Goes(r)
      BY <3>3 DEF Longer, Goes
    <3>5. /\ RoamSame(drv, r) /\ LinkSame(drv, r) /\ r.scan_request = drv.scan_request
          /\ r.fw_state = drv.fw_state
      BY <2>4, <3>1 DEF Same, ScanSame, RoamSame, LinkSame
    <3> QED
      BY <3>3, <3>4, <3>5, SoundGoes
  <2> QED
    BY <2>2, <2>3, <2>5, <2>6
<1>4. CASE link_timer_hdl
  <2>1. PICK s : s = [drv EXCEPT !.link_timer = FALSE]
    OBVIOUS
  <2>2. drv' \in LinkTimeout(s) /\ UNCHANGED <<pc, call, thread, leaving>>
    BY <1>4, <2>1 DEF link_timer_hdl, Handler
  <2>3. s \in DrvType /\ Same(drv, s) /\ s.fw_state = drv.fw_state /\ s.cmd_queue = drv.cmd_queue
    BY <1>0, <2>1, TimerFields
  <2>4. Calmer(drv, s)
    BY <2>3 DEF Calmer, Same, ScanSame, RoamSame, LinkSame
  <2>5. Sound(s, pc, call, thread, leaving)
    BY <2>4, CalmerSound
  <2> QED
    BY <2>2, <2>3, <2>5, LinkTimeoutCalms, CalmerSound
<1> QED
  BY <1>1, <1>2, <1>3, <1>4 DEF Timer

-----------------------------------------------------------------------------
(* The received frames.                                                    *)

LEMMA SoundLost ==
  ASSUME NEW s \in DrvType, NEW p, NEW c, NEW th, NEW l, Sound(s, p, c, th, l),
         NEW event \in {"STADEL", "STADEL_ROAM"}, NEW r \in receive_disconnect(s, event)
  PROVE  Sound(r, p, c, th, l)
<1>0. "NULL" \in ExtStates /\ event \in Commands /\ event # "DISCONNECT"
      /\ s.cmd_queue \in Seq(Commands)
  BY DEF ExtStates, Commands, DrvType
<1>1. CASE s.state = "ASSOC_SUCCESS"
  <2>1. PICK t : t = rtw_enqueue_cmd(s, event)
    OBVIOUS
  <2>2. r = set_state(t, "NULL")
    BY <1>1, <2>1 DEF receive_disconnect
  <2>3. /\ t \in DrvType /\ Same(s, t) /\ t.fw_state = s.fw_state
        /\ t.cmd_queue = Append(s.cmd_queue, event)
    BY <1>0, <2>1, EnqueueFields
  <2>4. /\ ScanSame(t, r) /\ RoamSame(t, r) /\ r.state = "NULL" /\ r.assoc_timer = t.assoc_timer
        /\ r.fw_state = t.fw_state /\ r.cmd_queue = t.cmd_queue
    BY <1>0, <2>2, <2>3, StateFields
  <2>5. Longer(s.cmd_queue, r.cmd_queue, {event})
    BY <1>0, <2>3, <2>4, AppendLonger
  <2>6. /\ ScanSame(s, r) /\ RoamSame(s, r) /\ r.fw_state = s.fw_state
    BY <2>3, <2>4 DEF Same, ScanSame, RoamSame
  <2>7. \A x : InQ(r.cmd_queue, x) <=> InQ(s.cmd_queue, x) \/ x = event
    BY <2>5 DEF Longer
  <2>8. ScanInv(r, th)
    BY <2>6, <2>7 DEF Sound, ScanInv, Goes, ScanSame, RoamSame
  <2>9. QueueInv(r.cmd_queue, p)
    BY <2>5, <2>7 DEF Sound, QueueInv, Longer
  <2>10. ConnInv(r, p, th)
    BY <2>6, <2>7 DEF Sound, ConnInv, Excused, RoamSame
  <2>11. LeaveInv(r, p, c, th, l)
    <3>1. LeaveInv(s, p, c, th, l) /\ (Acked(r, p, l) => Acked(s, p, l))
      BY <2>7 DEF Sound, Acked
    <3>2. ASSUME l \in {"call", "left"} PROVE ~Acked(s, p, l) /\ ~Acked(r, p, l)
      BY <1>1, <3>1, <3>2 DEF LeaveInv
    <3>3. ASSUME l \in {"call", "left"} PROVE l = "call" /\ p # "free_wait" /\ ~Freed(r, p, l)
      BY <3>2, <3>3 DEF Acked, Freed
    <3>4. NoneBehind(s.cmd_queue, "DISCONNECT_ACK", "JOIN")
            => NoneBehind(r.cmd_queue, "DISCONNECT_ACK", "JOIN")
      BY <2>5 DEF Longer
    <3> QED
      BY <2>6, <3>1, <3>2, <3>3, <3>4 DEF LeaveInv, RoamSame
  <2> QED
    BY <2>8, <2>9, <2>10, <2>11 DEF Sound
<1>2. CASE s.state # "ASSOC_SUCCESS"
  <2>1. PICK t : t = set_state(s, "NULL")
    OBVIOUS
  <2>2. r \in rtw_joinbss_event_prehandle(t, FALSE)
    BY <1>2, <2>1 DEF receive_disconnect
  <2>3. /\ t \in DrvType /\ ScanSame(s, t) /\ RoamSame(s, t) /\ t.state = "NULL"
        /\ t.fw_state = s.fw_state /\ t.cmd_queue = s.cmd_queue
    BY <1>0, <2>1, StateFields
  <2>4. /\ ScanSame(t, r) /\ RoamSame(t, r) /\ r.state = t.state
        /\ r.assoc_timer /\ r.fw_state = t.fw_state \ {"LINKING"} /\ r.cmd_queue = t.cmd_queue
    BY <2>2, <2>3, FailureFields
  <2>5. Calmer(s, r)
    BY <2>3, <2>4 DEF Calmer, ScanSame, RoamSame
  <2> QED
    BY <2>5, CalmerSound
<1> QED
  BY <1>1, <1>2

LEMMA SoundReceive ==
  ASSUME TypeOK, Sound(drv, pc, call, thread, leaving), Receive
  PROVE  Sound(drv', pc', call', thread', leaving')
<1>0. drv \in DrvType
  BY DEF TypeOK
<1>1. "NULL" \in ExtStates
  BY DEF ExtStates
<1>2. "AUTH" \in ExtStates
  BY DEF ExtStates
<1>3. "ASSOC" \in ExtStates
  BY DEF ExtStates
<1>4. "ASSOC_SUCCESS" \in ExtStates
  BY DEF ExtStates
<1>5. ASSUME drv.state \in Linking, NEW r, NEW x \in ExtStates,
             \/ r = [drv EXCEPT !.link_timer = TRUE]
             \/ r = [set_state(drv, x) EXCEPT !.link_timer = TRUE]
      PROVE  Sound(r, pc, call, thread, leaving)
  <2>1. CASE r = [drv EXCEPT !.link_timer = TRUE]
    <3>1. Same(drv, r) /\ r.fw_state = drv.fw_state /\ r.cmd_queue = drv.cmd_queue
      BY <1>0, <2>1, TimerFields
    <3>2. Calmer(drv, r)
      BY <3>1 DEF Calmer, Same, ScanSame, RoamSame, LinkSame
    <3> QED
      BY <3>2, CalmerSound
  <2>2. CASE r = [set_state(drv, x) EXCEPT !.link_timer = TRUE]
    <3>1. PICK t : t = set_state(drv, x)
      OBVIOUS
    <3>2. /\ t \in DrvType /\ ScanSame(drv, t) /\ RoamSame(drv, t)
          /\ t.assoc_timer = drv.assoc_timer
          /\ t.fw_state = drv.fw_state /\ t.cmd_queue = drv.cmd_queue
      BY <1>0, <3>1, StateFields
    <3>3. r = [t EXCEPT !.link_timer = TRUE]
      BY <2>2, <3>1
    <3>4. Same(t, r) /\ r.fw_state = t.fw_state /\ r.cmd_queue = t.cmd_queue
      BY <3>2, <3>3, TimerFields
    <3>5. Calmer(drv, r)
      BY <1>5, <3>2, <3>4 DEF Calmer, Same, ScanSame, RoamSame, LinkSame
    <3> QED
      BY <3>5, CalmerSound
  <2> QED
    BY <1>5, <2>1, <2>2
<1>6. CASE OnBeacon
  <2>1. drv.state \in Linking /\ UNCHANGED <<pc, call, thread, leaving>>
    BY <1>6 DEF OnBeacon, Handler, Linking
  <2>2. \/ drv' = [drv EXCEPT !.link_timer = TRUE]
        \/ drv' = [set_state(drv, "AUTH") EXCEPT !.link_timer = TRUE]
    BY <1>6 DEF OnBeacon, Handler
  <2> QED
    BY <1>0, <1>5, <1>2, <2>1, <2>2
<1>7. CASE OnAuthClient
  <2>1. drv.state \in Linking /\ UNCHANGED <<pc, call, thread, leaving>>
    BY <1>7 DEF OnAuthClient, Handler, Linking
  <2>2. \/ drv' = [drv EXCEPT !.link_timer = TRUE]
        \/ drv' = [set_state(drv, "ASSOC") EXCEPT !.link_timer = TRUE]
    BY <1>7 DEF OnAuthClient, Handler
  <2> QED
    BY <1>0, <1>5, <1>3, <2>1, <2>2
<1>8. CASE OnAssocRsp
  <2>1. PICK s : s = [drv EXCEPT !.link_timer = FALSE]
    OBVIOUS
  <2>2. PICK t : t = set_state(s, "NULL")
    OBVIOUS
  <2>3. PICK u : u = set_state(s, "ASSOC_SUCCESS")
    OBVIOUS
  <2>4. PICK r : r = drv'
    OBVIOUS
  <2>5. /\ r \in rtw_joinbss_event_prehandle(t, FALSE) \/ r \in rtw_joinbss_event_prehandle(u, TRUE)
        /\ drv.state = "ASSOC" /\ UNCHANGED <<pc, call, thread, leaving>>
    BY <1>8, <2>1, <2>2, <2>3, <2>4 DEF OnAssocRsp, Handler
  <2>6. s \in DrvType /\ Same(drv, s) /\ s.fw_state = drv.fw_state /\ s.cmd_queue = drv.cmd_queue
    BY <1>0, <2>1, TimerFields
  <2>7. ASSUME r \in rtw_joinbss_event_prehandle(t, FALSE)
        PROVE  Sound(r, pc, call, thread, leaving)
    <3>1. /\ t \in DrvType /\ ScanSame(s, t) /\ RoamSame(s, t) /\ t.state = "NULL"
          /\ t.fw_state = s.fw_state /\ t.cmd_queue = s.cmd_queue
      BY <1>1, <2>2, <2>6, StateFields
    <3>2. /\ ScanSame(t, r) /\ RoamSame(t, r) /\ r.state = t.state
          /\ r.assoc_timer /\ r.fw_state = t.fw_state \ {"LINKING"} /\ r.cmd_queue = t.cmd_queue
      BY <2>7, <3>1, FailureFields
    <3>3. Calmer(drv, r)
      BY <2>6, <3>1, <3>2 DEF Calmer, Same, ScanSame, RoamSame
    <3> QED
      BY <3>3, CalmerSound
  <2>8. ASSUME r \in rtw_joinbss_event_prehandle(u, TRUE)
        PROVE  Sound(r, pc, call, thread, leaving)
    <3>1. /\ u \in DrvType /\ ScanSame(s, u) /\ RoamSame(s, u) /\ u.state = "ASSOC_SUCCESS"
          /\ u.assoc_timer = s.assoc_timer /\ u.fw_state = s.fw_state /\ u.cmd_queue = s.cmd_queue
      BY <1>4, <2>3, <2>6, StateFields
    <3>2. Calmer(drv, u)
      BY <2>5, <2>6, <3>1 DEF Calmer, Same, ScanSame, RoamSame, LinkSame, Linking
    <3>3. Sound(u, pc, call, thread, leaving)
      BY <3>2, CalmerSound
    <3>4. CASE r = u
      BY <3>3, <3>4
    <3>5. CASE /\ "LINKING" \in u.fw_state /\ ScanSame(u, r) /\ r.state = u.state
               /\ r.to_roam = 0 /\ ~r.to_join /\ r.fw_state = {"ASOC"} /\ r.cmd_queue = u.cmd_queue
      <4>1. ScanInv(r, thread)
        BY <3>3, <3>5 DEF Sound, ScanInv, Goes, ScanSame
      <4>2. QueueInv(r.cmd_queue, pc)
        BY <3>3, <3>5 DEF Sound
      <4>3. ConnInv(r, pc, thread)
        BY <3>1, <3>5 DEF ConnInv, Excused
      <4>4. LeaveInv(r, pc, call, thread, leaving)
        <5>1. /\ LeaveInv(u, pc, call, thread, leaving)
              /\ Acked(r, pc, leaving) <=> Acked(u, pc, leaving)
              /\ Freed(r, pc, leaving) <=> Freed(u, pc, leaving)
          BY <3>3, <3>5 DEF Sound, Acked, Freed
        <5> QED
          BY <3>5, <5>1 DEF LeaveInv
      <4> QED
        BY <4>1, <4>2, <4>3, <4>4 DEF Sound
    <3> QED
      BY <2>8, <3>1, <3>4, <3>5, SuccessFields
  <2> QED
    BY <2>4, <2>5, <2>7, <2>8
<1>9. CASE OnDeAuth
  <2>1. drv' \in receive_disconnect(drv, "STADEL") /\ UNCHANGED <<pc, call, thread, leaving>>
    BY <1>9 DEF OnDeAuth, Handler
  <2> QED
    BY <1>0, <2>1, SoundLost
<1> QED
  BY <1>6, <1>7, <1>8, <1>9 DEF Receive

-----------------------------------------------------------------------------
(* The command thread.                                                     *)

LEMMA SoundSurvey ==
  ASSUME TypeOK, Sound(drv, pc, call, thread, leaving), sitesurvey_cmd_hdl
  PROVE  Sound(drv', pc', call', thread', leaving')
<1>0. drv \in DrvType
  BY DEF TypeOK
<1>1. /\ thread = "idle" /\ drv.cmd_queue # <<>> /\ Head(drv.cmd_queue) = "SURVEY"
      /\ UNCHANGED <<pc, call, thread, leaving>>
  BY DEF sitesurvey_cmd_hdl, Next_cmd, Process
<1>2. PICK t : t = Taken
  OBVIOUS
<1>3. /\ t \in DrvType /\ Same(drv, t) /\ t.fw_state = drv.fw_state
      /\ Shorter(drv.cmd_queue, t.cmd_queue, "SURVEY")
  BY <1>0, <1>1, <1>2, TakenFields
<1>4. Sound(drv, pc, call, "idle", leaving)
  BY <1>1
<1>5. /\ QueueInv(t.cmd_queue, pc) /\ ConnInv(t, pc, "idle")
      /\ LeaveInv(t, pc, call, "idle", leaving)
  BY <1>3, <1>4, TakeSound
<1>6. PICK idx : idx = IF drv.scan_state = "PROCESS" THEN drv.channel_idx + 1 ELSE 0
  OBVIOUS
<1>7. PICK r : r = drv'
  OBVIOUS
<1>8. PICK done : done = [t EXCEPT !.scan_state = "DISABLE", !.channel_idx = 0]
  OBVIOUS
<1>9. \/ r = [t EXCEPT !.scan_state = "PS_ANNC_WAIT", !.survey_timer = TRUE]
      \/ r = rtw_enqueue_cmd(done, "SURVEY_DONE")
      \/ r = [t EXCEPT !.scan_state = "PROCESS", !.channel_idx = idx, !.survey_timer = TRUE]
  BY <1>2, <1>6, <1>7, <1>8 DEF sitesurvey_cmd_hdl, Process
<1>10. ASSUME RoamSame(t, r), LinkSame(t, r), r.scan_request = t.scan_request,
              r.fw_state = t.fw_state, Goes(r),
              \/ r.cmd_queue = t.cmd_queue
              \/ Longer(t.cmd_queue, r.cmd_queue, {"SURVEY_DONE"})
       PROVE  Sound(r, pc, call, "idle", leaving)
  <2>1. /\ \A x : InQ(t.cmd_queue, x) => InQ(r.cmd_queue, x)
        /\ \A x : InQ(r.cmd_queue, x) => InQ(t.cmd_queue, x) \/ x = "SURVEY_DONE"
        /\ \A a, b : NoneBehind(t.cmd_queue, a, b) /\ b # "SURVEY_DONE" => NoneBehind(r.cmd_queue, a, b)
        /\ Replaced(t.cmd_queue) => Replaced(r.cmd_queue)
    BY <1>10 DEF Longer
  <2>2. ScanInv(r, "idle")
    BY <1>10 DEF ScanInv
  <2>3. QueueInv(r.cmd_queue, pc)
    BY <1>5, <2>1 DEF QueueInv
  <2>4. ConnInv(r, pc, "idle")
    BY <1>5, <1>10, <2>1 DEF ConnInv, Excused, RoamSame, LinkSame
  <2>5. LeaveInv(r, pc, call, "idle", leaving)
    <3>1. /\ Acked(r, pc, leaving) => Acked(t, pc, leaving)
          /\ Freed(r, pc, leaving) => Freed(t, pc, leaving)
      BY <2>1 DEF Acked, Freed
    <3> QED
      BY <1>5, <1>10, <2>1, <3>1 DEF LeaveInv, RoamSame, LinkSame
  <2> QED
    BY <2>2, <2>3, <2>4, <2>5 DEF Sound
<1>11. CASE \/ r = [t EXCEPT !.scan_state = "PS_ANNC_WAIT", !.survey_timer = TRUE]
            \/ r = [t EXCEPT !.scan_state = "PROCESS", !.channel_idx = idx, !.survey_timer = TRUE]
  <2>1. /\ RoamSame(t, r) /\ LinkSame(t, r) /\ r.scan_request = t.scan_request
        /\ r.fw_state = t.fw_state /\ r.cmd_queue = t.cmd_queue
        /\ r.survey_timer /\ r.scan_state # "DISABLE"
    BY <1>3, <1>11 DEF DrvType, RoamSame, LinkSame
  <2>2. Goes(r)
    BY <2>1 DEF Goes
  <2> QED
    BY <1>1, <1>7, <1>10, <2>1, <2>2
<1>12. CASE r = rtw_enqueue_cmd(done, "SURVEY_DONE")
  <2>1. /\ RoamSame(t, done) /\ LinkSame(t, done) /\ done.scan_request = t.scan_request
        /\ done.fw_state = t.fw_state /\ done.cmd_queue = t.cmd_queue /\ done \in DrvType
    <3>1. 0 \in 0..(NumCh - 1)
      BY MlmeAssumption
    <3> QED
      BY <1>3, <1>8, <3>1 DEF DrvType, RoamSame, LinkSame
  <2>2. /\ Same(done, r) /\ r.fw_state = done.fw_state
        /\ r.cmd_queue = Append(done.cmd_queue, "SURVEY_DONE")
    BY <1>12, <2>1, EnqueueFields DEF Commands
  <2>3. t.cmd_queue \in Seq(Commands) /\ "SURVEY_DONE" \in Commands
    BY <1>3 DEF DrvType, Commands
  <2>4. Longer(t.cmd_queue, r.cmd_queue, {"SURVEY_DONE"})
    BY <2>1, <2>2, <2>3, AppendLonger
  <2>5. Goes(r)
    BY <2>4 DEF Goes, Longer
  <2>6. /\ RoamSame(t, r) /\ LinkSame(t, r) /\ r.scan_request = t.scan_request
        /\ r.fw_state = t.fw_state
    BY <2>1, <2>2 DEF Same, ScanSame, RoamSame, LinkSame
  <2> QED
    BY <1>1, <1>7, <1>10, <2>4, <2>5, <2>6
<1> QED
  BY <1>9, <1>11, <1>12

LEMMA SoundJoin ==
  ASSUME TypeOK, Sound(drv, pc, call, thread, leaving), join_cmd_hdl
  PROVE  Sound(drv', pc', call', thread', leaving')
<1>0. drv \in DrvType
  BY DEF TypeOK
<1>1. /\ thread = "idle" /\ drv.cmd_queue # <<>> /\ Head(drv.cmd_queue) = "JOIN"
      /\ UNCHANGED <<pc, call, thread, leaving>>
  BY DEF join_cmd_hdl, Next_cmd, Process
<1>2. PICK t : t = Taken
  OBVIOUS
<1>3. /\ t \in DrvType /\ Same(drv, t) /\ t.fw_state = drv.fw_state
      /\ Shorter(drv.cmd_queue, t.cmd_queue, "JOIN")
  BY <1>0, <1>1, <1>2, TakenFields
<1>4. Sound(drv, pc, call, "idle", leaving)
  BY <1>1
<1>5. /\ ScanInv(t, "idle") /\ QueueInv(t.cmd_queue, pc)
      /\ LeaveInv(t, pc, call, "idle", leaving)
  BY <1>3, <1>4, TakeSound
<1>6. PICK n : n = set_state(t, "NULL")
  OBVIOUS
<1>7. PICK left : left = IF drv.state = "ASSOC_SUCCESS"
                         THEN [n EXCEPT !.link_timer = FALSE] ELSE t
  OBVIOUS
<1>8. PICK a : a = set_state(left, "AUTH_NULL")
  OBVIOUS
<1>9. PICK r : r = drv'
  OBVIOUS
<1>10. \/ r \in rtw_joinbss_event_prehandle(t, FALSE)
       \/ r \in rtw_joinbss_event_prehandle(left, FALSE)
       \/ r = [a EXCEPT !.link_timer = TRUE, !.assoc_timer = TRUE]
  BY <1>2, <1>6, <1>7, <1>8, <1>9 DEF join_cmd_hdl, Process
<1>11. /\ left \in DrvType /\ ScanSame(t, left) /\ RoamSame(t, left)
       /\ left.fw_state = t.fw_state /\ left.cmd_queue = t.cmd_queue
  <2>1. "NULL" \in ExtStates
    BY DEF ExtStates
  <2>2. /\ n \in DrvType /\ ScanSame(t, n) /\ RoamSame(t, n)
        /\ n.fw_state = t.fw_state /\ n.cmd_queue = t.cmd_queue
    BY <1>3, <1>6, <2>1, StateFields
  <2>3. CASE left = [n EXCEPT !.link_timer = FALSE]
    BY <2>2, <2>3, TimerFields DEF Same, ScanSame, RoamSame
  <2>4. CASE left = t
    BY <1>3, <2>4 DEF ScanSame, RoamSame
  <2> QED
    BY <1>7, <2>3, <2>4
<1>12. /\ ScanSame(t, r) /\ RoamSame(t, r) /\ r.assoc_timer
       /\ r.fw_state \subseteq t.fw_state /\ r.cmd_queue = t.cmd_queue
  <2>1. CASE r \in rtw_joinbss_event_prehandle(t, FALSE)
    <3>1. /\ ScanSame(t, r) /\ RoamSame(t, r) /\ r.assoc_timer
          /\ r.fw_state = t.fw_state \ {"LINKING"} /\ r.cmd_queue = t.cmd_queue
      BY <1>3, <2>1, FailureFields
    <3> QED
      BY <3>1
  <2>2. CASE r \in rtw_joinbss_event_prehandle(left, FALSE)
    <3>1. /\ ScanSame(left, r) /\ RoamSame(left, r) /\ r.assoc_timer
          /\ r.fw_state = left.fw_state \ {"LINKING"} /\ r.cmd_queue = left.cmd_queue
      BY <1>11, <2>2, FailureFields
    <3> QED
      BY <1>11, <3>1 DEF ScanSame, RoamSame
  <2>3. CASE r = [a EXCEPT !.link_timer = TRUE, !.assoc_timer = TRUE]
    <3>1. "AUTH_NULL" \in ExtStates
      BY DEF ExtStates
    <3>2. /\ a \in DrvType /\ ScanSame(left, a) /\ RoamSame(left, a)
          /\ a.fw_state = left.fw_state /\ a.cmd_queue = left.cmd_queue
      BY <1>8, <1>11, <3>1, StateFields
    <3>3. /\ ScanSame(a, r) /\ RoamSame(a, r) /\ r.assoc_timer
          /\ r.fw_state = a.fw_state /\ r.cmd_queue = a.cmd_queue
      BY <2>3, <3>2 DEF DrvType, ScanSame, RoamSame
    <3> QED
      BY <1>11, <3>2, <3>3 DEF ScanSame, RoamSame
  <2> QED
    BY <1>10, <2>1, <2>2, <2>3
<1>13. ScanInv(r, "idle")
  BY <1>5, <1>12 DEF ScanInv, Goes, ScanSame, RoamSame
<1>14. QueueInv(r.cmd_queue, pc)
  BY <1>5, <1>12
<1>15. ConnInv(r, pc, "idle")
  <2>1. ASSUME "ASOC" \in r.fw_state PROVE r.to_roam = 0
    BY <1>3, <1>4, <1>12, <2>1 DEF Sound, ConnInv, Same, RoamSame
  <2> QED
    BY <1>12, <2>1 DEF ConnInv, Excused
<1>16. LeaveInv(r, pc, call, "idle", leaving)
  <2>1. /\ Acked(r, pc, leaving) => Acked(t, pc, leaving)
        /\ Freed(r, pc, leaving) => Freed(t, pc, leaving)
    BY <1>12 DEF Acked, Freed
  <2>2. ASSUME leaving \in {"call", "left"} PROVE ~Acked(t, pc, leaving)
    <3>1. InQ(drv.cmd_queue, "JOIN")
      <4>1. drv.cmd_queue \in Seq(Commands)
        BY <1>0 DEF DrvType
      <4>2. 1 \in DOMAIN drv.cmd_queue /\ drv.cmd_queue[1] = "JOIN"
        BY <1>1, <4>1
      <4> QED
        BY <4>2 DEF InQ
    <3>2. ~Acked(drv, pc, leaving)
      BY <1>4, <2>2, <3>1 DEF Sound, LeaveInv
    <3>3. InQ(drv.cmd_queue, "DISCONNECT_ACK") => InQ(t.cmd_queue, "DISCONNECT_ACK")
      BY <1>3 DEF Shorter
    <3> QED
      BY <3>2, <3>3 DEF Acked
  <2>3. ASSUME leaving \in {"call", "left"} PROVE ~Freed(t, pc, leaving)
    BY <2>2, <2>3 DEF Acked, Freed
  <2> QED
    BY <1>5, <1>12, <2>1, <2>2, <2>3 DEF LeaveInv, RoamSame
<1> QED
  BY <1>1, <1>9, <1>13, <1>14, <1>15, <1>16 DEF Sound

LEMMA SoundDisconnect ==
  ASSUME TypeOK, Sound(drv, pc, call, thread, leaving), disconnect_hdl
  PROVE  Sound(drv', pc', call', thread', leaving')
<1>0. drv \in DrvType
  BY DEF TypeOK
<1>1. /\ thread = "idle" /\ drv.cmd_queue # <<>>
      /\ Head(drv.cmd_queue) \in {"DISCONNECT", "DISCONNECT_ACK"}
      /\ drv' = rtw_mlmeext_disconnect(Taken) /\ UNCHANGED <<pc, call, thread, leaving>>
  BY DEF disconnect_hdl, Next_cmd, Process
<1>2. PICK t : t = Taken
  OBVIOUS
<1>3. PICK h : h = Head(drv.cmd_queue)
  OBVIOUS
<1>4. /\ t \in DrvType /\ Same(drv, t) /\ t.fw_state = drv.fw_state
      /\ Shorter(drv.cmd_queue, t.cmd_queue, h)
  BY <1>0, <1>1, <1>2, <1>3, TakenFields
<1>5. Sound(drv, pc, call, "idle", leaving)
  BY <1>1
<1>6. /\ ScanInv(t, "idle") /\ QueueInv(t.cmd_queue, pc) /\ ConnInv(t, pc, "idle")
      /\ h = "DISCONNECT" => LeaveInv(t, pc, call, "idle", leaving)
  BY <1>1, <1>3, <1>4, <1>5, TakeSound
<1>7. PICK n : n = set_state(t, "NULL")
  OBVIOUS
<1>8. PICK r : r = drv'
  OBVIOUS
<1>9. r = [n EXCEPT !.link_timer = FALSE]
  BY <1>1, <1>2, <1>7, <1>8 DEF rtw_mlmeext_disconnect
<1>10. /\ ScanSame(t, r) /\ RoamSame(t, r) /\ r.state = "NULL" /\ r.assoc_timer = t.assoc_timer
       /\ r.fw_state = t.fw_state /\ r.cmd_queue = t.cmd_queue
  <2>1. "NULL" \in ExtStates
    BY DEF ExtStates
  <2>2. /\ n \in DrvType /\ ScanSame(t, n) /\ RoamSame(t, n) /\ n.state = "NULL"
        /\ n.assoc_timer = t.assoc_timer
        /\ n.fw_state = t.fw_state /\ n.cmd_queue = t.cmd_queue
    BY <1>4, <1>7, <2>1, StateFields
  <2>3. Same(n, r) /\ r.fw_state = n.fw_state /\ r.cmd_queue = n.cmd_queue
    BY <1>9, <2>2, TimerFields
  <2> QED
    BY <2>2, <2>3 DEF Same, ScanSame, RoamSame, LinkSame
<1>11. ScanInv(r, "idle")
  BY <1>6, <1>10 DEF ScanInv, Goes, ScanSame, RoamSame
<1>12. QueueInv(r.cmd_queue, pc)
  BY <1>6, <1>10
<1>13. h = "DISCONNECT_ACK" => pc = "disassoc_wait"
  <2>1. drv.cmd_queue \in Seq(Commands)
    BY <1>0 DEF DrvType
  <2>2. 1 \in DOMAIN drv.cmd_queue /\ drv.cmd_queue[1] = h
    BY <1>1, <1>3, <2>1
  <2>3. InQ(drv.cmd_queue, h)
    BY <2>2 DEF InQ
  <2> QED
    BY <1>5, <2>3 DEF Sound, QueueInv
<1>14. h = "DISCONNECT" => InQ(r.cmd_queue, "JOIN")
  BY <1>4, <1>5, <1>10 DEF Shorter, Sound, QueueInv
<1>15. ConnInv(r, pc, "idle")
  BY <1>1, <1>3, <1>6, <1>10, <1>13, <1>14 DEF ConnInv, Excused, RoamSame
<1>16. LeaveInv(r, pc, call, "idle", leaving)
  <2>1. CASE h = "DISCONNECT"
    <3>1. /\ Acked(r, pc, leaving) <=> Acked(t, pc, leaving)
          /\ Freed(r, pc, leaving) <=> Freed(t, pc, leaving)
      BY <1>10 DEF Acked, Freed
    <3> QED
      BY <1>6, <1>10, <2>1, <3>1 DEF LeaveInv, RoamSame
  <2>2. CASE h = "DISCONNECT_ACK"
    <3>1. pc = "disassoc_wait" /\ LeaveInv(drv, pc, call, "idle", leaving)
      BY <1>5, <1>13, <2>2 DEF Sound
    <3>2. ASSUME leaving \in {"call", "left"}
          PROVE  /\ leaving = "call" /\ ~Freed(r, pc, leaving) /\ call = "disconnect"
                 /\ "LINKING" \notin r.fw_state /\ r.to_roam = 0 /\ ~r.to_join
      BY <1>4, <1>10, <3>1, <3>2 DEF LeaveInv, Freed, Same, RoamSame
    <3>3. ASSUME leaving \in {"call", "left"}
          PROVE  ~InQ(r.cmd_queue, "JOIN") /\ NoneBehind(r.cmd_queue, "DISCONNECT_ACK", "JOIN")
      BY <1>4, <1>10, <2>2, <3>1, <3>3 DEF LeaveInv, Shorter
    <3> QED
      BY <1>10, <3>1, <3>2, <3>3 DEF LeaveInv
  <2> QED
    BY <1>1, <1>3, <2>1, <2>2
<1> QED
  BY <1>1, <1>8, <1>11, <1>12, <1>15, <1>16 DEF Sound

LEMMA SoundFree ==
  ASSUME TypeOK, Sound(drv, pc, call, thread, leaving), free_assoc_resources_hdl
  PROVE  Sound(drv', pc', call', thread', leaving')
<1>0. drv \in DrvType
  BY DEF TypeOK
<1>1. /\ thread = "idle" /\ drv.cmd_queue # <<>> /\ Head(drv.cmd_queue) = "FREE_ASSOC"
      /\ drv' = Taken /\ UNCHANGED <<pc, call, thread, leaving>>
  BY DEF free_assoc_resources_hdl, Next_cmd, Process
<1>2. PICK t : t = Taken
  OBVIOUS
<1>3. /\ Same(drv, t) /\ t.fw_state = drv.fw_state
      /\ Shorter(drv.cmd_queue, t.cmd_queue, "FREE_ASSOC")
  BY <1>0, <1>1, <1>2, TakenFields
<1>4. Sound(drv, pc, call, "idle", leaving)
  BY <1>1
<1>5. Sound(t, pc, call, "idle", leaving)
  BY <1>3, <1>4, TakeSound DEF Sound
<1> QED
  BY <1>1, <1>2, <1>5

-----------------------------------------------------------------------------
(* The callbacks of the scan's end and of the lost station.                *)

LEMMA ThreadMoves ==
  ASSUME NEW s, NEW p, NEW c, NEW th, NEW l, NEW th2, th2 # "STADEL_ROAM"
  PROVE  /\ LeaveInv(s, p, c, th, l) => LeaveInv(s, p, c, th2, l)
         /\ ConnInv(s, p, th) /\ (th \notin {"STADEL", "STADEL_ROAM"} \/ "ASOC" \notin s.fw_state)
              => ConnInv(s, p, th2)
<1>1. LeaveInv(s, p, c, th, l) => LeaveInv(s, p, c, th2, l)
  BY DEF LeaveInv
<1>2. ASSUME ConnInv(s, p, th), th \notin {"STADEL", "STADEL_ROAM"} \/ "ASOC" \notin s.fw_state
      PROVE  ConnInv(s, p, th2)
  BY <1>2 DEF ConnInv, Excused
<1> QED
  BY <1>1, <1>2

LEMMA RoamingSound ==
  ASSUME NEW s \in DrvType, NEW p, NEW c, NEW th, NEW l, Sound(s, p, c, th, l),
         l \notin {"call", "left"}, "ASOC" \notin s.fw_state, NEW r \in rtw_roaming(s)
  PROVE  Sound(r, p, c, th, l)
<1>1. PICK f : f = rtw_do_join_fail(s)
  OBVIOUS
<1>2. PICK z : z = [f EXCEPT !.to_roam = 0]
  OBVIOUS
<1>3. r = s \/ r \in Attempts(s, 1..s.to_roam) \/ r = rtw_indicate_disconnect(z)
  BY <1>1, <1>2 DEF rtw_roaming
<1>4. CASE r = s
  BY <1>4
<1>5. CASE r \in Attempts(s, 1..s.to_roam)
  <2>1. PICK n \in 1..s.to_roam : r \in rtw_do_join([s EXCEPT !.to_roam = n])
    BY <1>5 DEF Attempts
  <2>2. PICK v : v = [s EXCEPT !.to_roam = n]
    OBVIOUS
  <2>3. n \in 0..MaxRoam
    <3>1. s.to_roam \in 0..MaxRoam
      BY DEF DrvType
    <3> QED
      BY <3>1, MlmeAssumption
  <2>4. /\ v \in DrvType /\ ScanSame(s, v) /\ v.fw_state = s.fw_state
        /\ v.cmd_queue = s.cmd_queue /\ v.to_join = s.to_join
    BY <2>2, <2>3, RoamFields
  <2>5. ScanInv(v, th)
    BY <2>4 DEF Sound, ScanInv, Goes, ScanSame
  <2>6. QueueInv(v.cmd_queue, p) /\ ConnInv(v, p, th)
    BY <2>4 DEF Sound, ConnInv
  <2>7. Starts(v, r) \/ Looks(v, r)
    BY <2>1, <2>2, <2>4, DoJoinFields
  <2> QED
    BY <2>5, <2>6, <2>7, JoiningSound
<1>6. CASE r = rtw_indicate_disconnect(z)
  <2>1. /\ f \in DrvType /\ ScanSame(s, f) /\ LinkSame(s, f) /\ ~f.to_join
        /\ f.fw_state = s.fw_state \ {"LINKING"} /\ f.cmd_queue = s.cmd_queue
    BY <1>1, FailFields
  <2>2. /\ z \in DrvType /\ ScanSame(f, z) /\ LinkSame(f, z) /\ z.fw_state = f.fw_state
        /\ z.cmd_queue = f.cmd_queue /\ z.to_roam = 0 /\ z.to_join = f.to_join
    BY <1>2, <2>1, RoamFields, MlmeAssumption
  <2>3. Same(z, r) /\ r.fw_state = z.fw_state \ {"LINKING", "ASOC"} /\ r.cmd_queue = z.cmd_queue
    BY <1>6, <2>2, DisconnectFields
  <2>4. Calmer(s, r)
    BY <2>1, <2>2, <2>3 DEF Calmer, Same, ScanSame, RoamSame, LinkSame
  <2> QED
    BY <2>4, CalmerSound
<1> QED
  BY <1>3, <1>4, <1>5, <1>6

LEMMA SoundSurveyDone ==
  ASSUME TypeOK, Sound(drv, pc, call, thread, leaving), surveydone_event
  PROVE  Sound(drv', pc', call', thread', leaving')
<1>0. drv \in DrvType
  BY DEF TypeOK
<1>1. /\ thread = "idle" /\ drv.cmd_queue # <<>> /\ Head(drv.cmd_queue) = "SURVEY_DONE"
      /\ thread' = "surveydone_join" /\ UNCHANGED <<pc, call, leaving>>
  BY DEF surveydone_event, Next_cmd, Process
<1>2. PICK t : t = Taken
  OBVIOUS
<1>3. PICK u : u = clr_fwstate(t, {"SURVEY"})
  OBVIOUS
<1>4. PICK r : r = drv'
  OBVIOUS
<1>5. r = [u EXCEPT !.scan_abort = FALSE]
  BY <1>2, <1>3, <1>4 DEF surveydone_event, Process
<1>6. /\ t \in DrvType /\ Same(drv, t) /\ t.fw_state = drv.fw_state
      /\ Shorter(drv.cmd_queue, t.cmd_queue, "SURVEY_DONE")
  BY <1>0, <1>1, <1>2, TakenFields
<1>7. Sound(drv, pc, call, "idle", leaving)
  BY <1>1
<1>8. /\ QueueInv(t.cmd_queue, pc) /\ ConnInv(t, pc, "idle")
      /\ LeaveInv(t, pc, call, "idle", leaving)
  BY <1>6, <1>7, TakeSound
<1>9. /\ u \in DrvType /\ Same(t, u) /\ u.fw_state = t.fw_state \ {"SURVEY"}
      /\ u.cmd_queue = t.cmd_queue
  BY <1>3, <1>6, FlagFields DEF Flags
<1>10. Same(u, r) /\ r.fw_state = u.fw_state /\ r.cmd_queue = u.cmd_queue
  BY <1>5, <1>9 DEF DrvType, Same, ScanSame, RoamSame, LinkSame
<1>11. Same(t, r) /\ r.fw_state = t.fw_state \ {"SURVEY"} /\ r.cmd_queue = t.cmd_queue
  BY <1>9, <1>10 DEF Same, ScanSame, RoamSame, LinkSame
<1>12. ScanInv(r, "surveydone_join")
  BY <1>11 DEF ScanInv
<1>13. ConnInv(r, pc, "surveydone_join")
  BY <1>8, <1>11 DEF ConnInv, Excused, Same, RoamSame, LinkSame
<1>14. LeaveInv(r, pc, call, "surveydone_join", leaving)
  <2>1. /\ Acked(r, pc, leaving) <=> Acked(t, pc, leaving)
        /\ Freed(r, pc, leaving) <=> Freed(t, pc, leaving)
    BY <1>11 DEF Acked, Freed
  <2>2. LeaveInv(r, pc, call, "idle", leaving)
    BY <1>8, <1>11, <2>1 DEF LeaveInv, Same, RoamSame, LinkSame
  <2> QED
    BY <2>2, ThreadMoves
<1>15. QueueInv(r.cmd_queue, pc)
  BY <1>8, <1>11
<1> QED
  BY <1>1, <1>4, <1>12, <1>13, <1>14, <1>15 DEF Sound

LEMMA SoundSurveyJoin ==
  ASSUME TypeOK, Sound(drv, pc, call, thread, leaving), surveydone_join
  PROVE  Sound(drv', pc', call', thread', leaving')
<1>0. drv \in DrvType
  BY DEF TypeOK
<1>1. thread = "surveydone_join" /\ thread' = "surveydone_indicate" /\ UNCHANGED <<pc, call, leaving>>
  BY DEF surveydone_join, Process
<1>2. PICK s : s = [drv EXCEPT !.scan_to_timer = FALSE]
  OBVIOUS
<1>3. PICK v : v = set_fwstate(s, {"LINKING"})
  OBVIOUS
<1>4. PICK w : w = [v EXCEPT !.to_join = FALSE]
  OBVIOUS
<1>5. PICK r : r = drv'
  OBVIOUS
<1>6. \/ ~s.to_join /\ r = s
      \/ s.to_join /\ (r = JoinStarted(w) \/ r \in NoCandidate(w))
  BY <1>2, <1>3, <1>4, <1>5 DEF surveydone_join, Process
<1>7. s \in DrvType /\ Same(drv, s) /\ s.fw_state = drv.fw_state /\ s.cmd_queue = drv.cmd_queue
  BY <1>0, <1>2 DEF DrvType, Same, ScanSame, RoamSame, LinkSame
<1>8. Sound(s, pc, call, "surveydone_join", leaving)
  <2>1. Calmer(drv, s)
    BY <1>7 DEF Calmer, Same, ScanSame, RoamSame, LinkSame
  <2> QED
    BY <1>1, <2>1, CalmerSound
<1>9. ASSUME ~s.to_join PROVE Sound(s, pc, call, "surveydone_indicate", leaving)
  <2>1. ScanInv(s, "surveydone_indicate")
    BY <1>8, <1>9 DEF Sound, ScanInv
  <2>2. ConnInv(s, pc, "surveydone_indicate") /\ LeaveInv(s, pc, call, "surveydone_indicate", leaving)
    BY <1>8, ThreadMoves DEF Sound
  <2> QED
    BY <1>8, <2>1, <2>2 DEF Sound
<1>10. ASSUME s.to_join, r = JoinStarted(w) \/ r \in NoCandidate(w)
       PROVE  Sound(r, pc, call, "surveydone_indicate", leaving)
  <2>1. leaving \notin {"call", "left"}
    BY <1>8, <1>10 DEF Sound, LeaveInv
  <2>2. /\ v \in DrvType /\ Same(s, v) /\ v.fw_state = s.fw_state \cup {"LINKING"}
        /\ v.cmd_queue = s.cmd_queue
    BY <1>3, <1>7, FlagFields DEF Flags
  <2>3. /\ w \in DrvType /\ ScanSame(v, w) /\ LinkSame(v, w) /\ ~w.to_join
        /\ w.to_roam = v.to_roam /\ w.fw_state = v.fw_state /\ w.cmd_queue = v.cmd_queue
    BY <1>4, <2>2 DEF DrvType, ScanSame, LinkSame
  <2>4. ScanInv(w, "surveydone_indicate")
    BY <1>8, <2>2, <2>3 DEF Sound, ScanInv, Goes, Same, ScanSame
  <2>5. QueueInv(w.cmd_queue, pc)
    BY <1>8, <2>2, <2>3 DEF Sound
  <2>6. ConnInv(w, pc, "surveydone_indicate")
    BY <1>8, <2>2, <2>3 DEF Sound, ConnInv, Excused, Same, RoamSame, LinkSame
  <2>7. CASE r = JoinStarted(w)
    <3>1. Starts(w, r)
      BY <2>3, <2>7, StartedFields
    <3> QED
      BY <2>1, <2>4, <2>5, <2>6, <3>1, JoiningSound
  <2>8. CASE r \in NoCandidate(w)
    <3>1. ~rtw_sitesurvey_condition_check(w)
      BY <2>2, <2>3 DEF rtw_sitesurvey_condition_check
    <3>2. PICK x : x = IF w.to_roam = 0 THEN w ELSE rtw_set_to_roam(w, 0)
      OBVIOUS
    <3>3. r = rtw_indicate_disconnect(x)
      BY <2>8, <3>1, <3>2 DEF NoCandidate
    <3>4. /\ x \in DrvType /\ ScanSame(w, x) /\ LinkSame(w, x) /\ x.fw_state = w.fw_state
          /\ x.cmd_queue = w.cmd_queue /\ x.to_roam = 0 /\ (x.to_join => w.to_join)
      <4>1. CASE w.to_roam = 0
        BY <2>3, <3>2, <4>1 DEF ScanSame, LinkSame
      <4>2. CASE w.to_roam # 0
        BY <2>3, <3>2, <4>2, RoamFields, MlmeAssumption
      <4> QED
        BY <4>1, <4>2
    <3>5. Same(x, r) /\ r.fw_state = x.fw_state \ {"LINKING", "ASOC"} /\ r.cmd_queue = x.cmd_queue
      BY <3>3, <3>4, DisconnectFields
    <3>6. Calmer(w, r)
      BY <3>4, <3>5 DEF Calmer, Same, ScanSame, RoamSame, LinkSame
    <3>7. Sound(w, pc, call, "surveydone_indicate", leaving)
      BY <2>1, <2>4, <2>5, <2>6 DEF Sound, LeaveInv
    <3> QED
      BY <3>6, <3>7, CalmerSound
  <2> QED
    BY <1>10, <2>7, <2>8
<1> QED
  BY <1>1, <1>5, <1>6, <1>9, <1>10

LEMMA SoundSurveyIndicate ==
  ASSUME TypeOK, Sound(drv, pc, call, thread, leaving), surveydone_indicate
  PROVE  Sound(drv', pc', call', thread', leaving')
<1>0. drv \in DrvType
  BY DEF TypeOK
<1>1. PICK r : r = drv'
  OBVIOUS
<1>2. /\ thread = "surveydone_indicate" /\ thread' = "idle" /\ UNCHANGED <<pc, call, leaving>>
      /\ r = [drv EXCEPT !.scan_request = FALSE]
  BY <1>1 DEF surveydone_indicate, Process, rtw_cfg80211_indicate_scan_done
<1>3. /\ ~r.scan_request /\ r.survey_timer = drv.survey_timer /\ r.scan_state = drv.scan_state
      /\ RoamSame(drv, r) /\ LinkSame(drv, r)
      /\ r.fw_state = drv.fw_state /\ r.cmd_queue = drv.cmd_queue
  BY <1>0, <1>2 DEF DrvType, RoamSame, LinkSame
<1>4. Calmer(drv, r)
  BY <1>3 DEF Calmer, RoamSame, LinkSame
<1>5. Sound(r, pc, call, "surveydone_indicate", leaving)
  BY <1>2, <1>4, CalmerSound
<1>6. ScanInv(r, "idle")
  BY <1>3, <1>5 DEF Sound, ScanInv
<1>7. ConnInv(r, pc, "idle") /\ LeaveInv(r, pc, call, "idle", leaving)
  BY <1>5, ThreadMoves DEF Sound
<1> QED
  BY <1>1, <1>2, <1>5, <1>6, <1>7 DEF Sound

LEMMA SoundStadel ==
  ASSUME TypeOK, Sound(drv, pc, call, thread, leaving), stadel_event
  PROVE  Sound(drv', pc', call', thread', leaving')
<1>0. drv \in DrvType
  BY DEF TypeOK
<1>1. PICK h : h = Head(drv.cmd_queue)
  OBVIOUS
<1>2. /\ thread = "idle" /\ drv.cmd_queue # <<>> /\ h \in {"STADEL", "STADEL_ROAM"}
      /\ thread' = h /\ UNCHANGED <<pc, call, leaving>>
  BY <1>1 DEF stadel_event, Next_cmd, Process
<1>3. PICK t : t = Taken
  OBVIOUS
<1>4. PICK n : n = set_state(t, "NULL")
  OBVIOUS
<1>5. PICK r : r = drv'
  OBVIOUS
<1>6. r = [n EXCEPT !.link_timer = FALSE] \/ r = t
  BY <1>3, <1>4, <1>5 DEF stadel_event, Process, rtw_mlmeext_disconnect
<1>7. /\ t \in DrvType /\ Same(drv, t) /\ t.fw_state = drv.fw_state
      /\ Shorter(drv.cmd_queue, t.cmd_queue, h)
  BY <1>0, <1>1, <1>2, <1>3, TakenFields
<1>8. Sound(drv, pc, call, "idle", leaving)
  BY <1>2
<1>9. /\ ScanInv(t, "idle") /\ QueueInv(t.cmd_queue, pc)
      /\ LeaveInv(t, pc, call, "idle", leaving)
  BY <1>2, <1>7, <1>8, TakeSound
<1>10. /\ ScanSame(t, r) /\ RoamSame(t, r) /\ r.state \in {t.state, "NULL"}
       /\ r.fw_state = t.fw_state /\ r.cmd_queue = t.cmd_queue
  <2>1. CASE r = t
    BY <2>1 DEF ScanSame, RoamSame
  <2>2. CASE r = [n EXCEPT !.link_timer = FALSE]
    <3>1. "NULL" \in ExtStates
      BY DEF ExtStates
    <3>2. /\ n \in DrvType /\ ScanSame(t, n) /\ RoamSame(t, n) /\ n.state = "NULL"
          /\ n.fw_state = t.fw_state /\ n.cmd_queue = t.cmd_queue
      BY <1>4, <1>7, <3>1, StateFields
    <3>3. Same(n, r) /\ r.fw_state = n.fw_state /\ r.cmd_queue = n.cmd_queue
      BY <2>2, <3>2, TimerFields
    <3> QED
      BY <3>2, <3>3 DEF Same, ScanSame, RoamSame, LinkSame
  <2> QED
    BY <1>6, <2>1, <2>2
<1>11. ScanInv(r, h)
  BY <1>9, <1>10 DEF ScanInv, Goes, ScanSame, RoamSame
<1>12. QueueInv(r.cmd_queue, pc)
  BY <1>9, <1>10
<1>13. ConnInv(r, pc, h)
  <2>1. ASSUME "ASOC" \in r.fw_state PROVE r.to_roam = 0
    BY <1>7, <1>8, <1>10, <2>1 DEF Sound, ConnInv, Same, RoamSame
  <2> QED
    BY <1>2, <2>1 DEF ConnInv, Excused
<1>14. LeaveInv(r, pc, call, h, leaving)
  <2>1. /\ Acked(r, pc, leaving) <=> Acked(t, pc, leaving)
        /\ Freed(r, pc, leaving) <=> Freed(t, pc, leaving)
    BY <1>10 DEF Acked, Freed
  <2>2. LeaveInv(r, pc, call, "idle", leaving)
    BY <1>9, <1>10, <2>1 DEF LeaveInv, RoamSame
  <2>3. ASSUME h = "STADEL_ROAM", leaving \in {"call", "left"} PROVE ~Freed(r, pc, leaving)
    <3>1. InQ(drv.cmd_queue, "STADEL_ROAM")
      <4>1. drv.cmd_queue \in Seq(Commands)
        BY <1>0 DEF DrvType
      <4>2. 1 \in DOMAIN drv.cmd_queue /\ drv.cmd_queue[1] = "STADEL_ROAM"
        BY <1>1, <1>2, <2>3, <4>1
      <4> QED
        BY <4>2 DEF InQ
    <3>2. ~Freed(drv, pc, leaving)
      BY <1>8, <2>3, <3>1 DEF Sound, LeaveInv
    <3>3. InQ(drv.cmd_queue, "FREE_ASSOC") => InQ(t.cmd_queue, "FREE_ASSOC")
      BY <1>2, <1>7 DEF Shorter
    <3> QED
      BY <2>1, <3>2, <3>3 DEF Freed
  <2> QED
    BY <1>2, <2>2, <2>3 DEF LeaveInv
<1> QED
  BY <1>2, <1>5, <1>11, <1>12, <1>13, <1>14 DEF Sound

LEMMA SoundStadelCallback ==
  ASSUME TypeOK, Sound(drv, pc, call, thread, leaving), rtw_stadel_event_callback
  PROVE  Sound(drv', pc', call', thread', leaving')
<1>0. drv \in DrvType
  BY DEF TypeOK
<1>1. PICK u : u = StadelRoam(drv, thread = "STADEL_ROAM")
  OBVIOUS
<1>2. PICK v : v = rtw_indicate_disconnect(u)
  OBVIOUS
<1>3. PICK r : r = drv'
  OBVIOUS
<1>4. /\ thread \in {"STADEL", "STADEL_ROAM"} /\ r \in rtw_roaming(v) /\ thread' = "idle"
      /\ leaving' = IF thread = "STADEL_ROAM" /\ leaving = "call" THEN "disturbed" ELSE leaving
      /\ UNCHANGED <<pc, call>>
  BY <1>1, <1>2, <1>3 DEF rtw_stadel_event_callback, Disturbing
<1>5. /\ u \in DrvType /\ ScanSame(drv, u) /\ LinkSame(drv, u) /\ u.fw_state = drv.fw_state
      /\ u.cmd_queue = drv.cmd_queue /\ (u.to_join => drv.to_join)
      /\ thread = "STADEL" => u.to_roam = 0
  <2>1. 0 \in 0..MaxRoam /\ MaxRoam \in 0..MaxRoam /\ drv.to_roam \in 0..MaxRoam
    BY <1>0, MlmeAssumption DEF DrvType
  <2>2. CASE thread = "STADEL"
    <3>1. u = rtw_set_to_roam(drv, 0)
      BY <1>1, <2>2 DEF StadelRoam
    <3> QED
      BY <1>0, <2>1, <3>1, RoamFields
  <2>3. CASE thread = "STADEL_ROAM" /\ drv.to_roam > 0
    <3>1. u = [drv EXCEPT !.to_roam = drv.to_roam - 1]
      BY <1>1, <2>3 DEF StadelRoam
    <3>2. drv.to_roam - 1 \in 0..MaxRoam
      BY <2>1, <2>3, MlmeAssumption
    <3> QED
      BY <1>0, <2>3, <3>1, <3>2, RoamFields
  <2>4. CASE thread = "STADEL_ROAM" /\ ~(drv.to_roam > 0)
    <3>1. u = rtw_set_to_roam(drv, MaxRoam)
      BY <1>1, <2>4 DEF StadelRoam
    <3> QED
      BY <1>0, <2>1, <2>4, <3>1, RoamFields
  <2> QED
    BY <1>4, <2>2, <2>3, <2>4
<1>6. /\ v \in DrvType /\ Same(u, v) /\ v.fw_state = u.fw_state \ {"LINKING", "ASOC"}
      /\ v.cmd_queue = u.cmd_queue
  BY <1>2, <1>5, DisconnectFields
<1>7. /\ ScanSame(drv, v) /\ LinkSame(drv, v) /\ v.fw_state = drv.fw_state \ {"LINKING", "ASOC"}
      /\ v.cmd_queue = drv.cmd_queue /\ (v.to_join => drv.to_join) /\ v.to_roam = u.to_roam
  BY <1>5, <1>6 DEF Same, ScanSame, RoamSame, LinkSame
<1>8. ScanInv(v, "idle")
  BY <1>4, <1>7 DEF Sound, ScanInv, Goes, ScanSame
<1>9. QueueInv(v.cmd_queue, pc) /\ ConnInv(v, pc, "idle")
  BY <1>7 DEF Sound, ConnInv
<1>10. CASE thread = "STADEL"
  <2>1. Calmer(drv, v)
    BY <1>5, <1>7, <1>10 DEF Calmer, ScanSame, LinkSame
  <2>2. LeaveInv(v, pc, call, "STADEL", leaving)
    BY <1>10, <2>1, CalmerSound DEF Sound
  <2>3. LeaveInv(v, pc, call, "idle", leaving)
    BY <2>2, ThreadMoves
  <2>4. rtw_roaming(v) = {v}
    BY <1>5, <1>7, <1>10 DEF rtw_roaming
  <2>5. r = v /\ leaving' = leaving
    BY <1>4, <1>10, <2>4
  <2> QED
    BY <1>3, <1>4, <1>8, <1>9, <2>3, <2>5 DEF Sound
<1>11. CASE thread = "STADEL_ROAM"
  <2>1. leaving # "left"
    BY <1>11 DEF Sound, LeaveInv, Freed
  <2>2. leaving' \notin {"call", "left"}
    BY <1>4, <1>11, <2>1
  <2>3. PICK l : l = leaving'
    OBVIOUS
  <2>4. Sound(v, pc, call, "idle", l)
    BY <1>8, <1>9, <2>2, <2>3 DEF Sound, LeaveInv
  <2>5. "ASOC" \notin v.fw_state
    BY <1>7
  <2>6. Sound(r, pc, call, "idle", l)
    BY <1>4, <1>6, <2>2, <2>3, <2>4, <2>5, RoamingSound
  <2> QED
    BY <1>3, <1>4, <2>3, <2>6
<1> QED
  BY <1>4, <1>10, <1>11

-----------------------------------------------------------------------------
(* The cfg80211 operations.                                                *)

(* Flags of the process that no part of the invariant mentions.            *)
Alike(s, r) ==
  r \in DrvType /\ Same(s, r) /\ r.fw_state = s.fw_state /\ r.cmd_queue = s.cmd_queue

LEMMA QuietFields ==
  ASSUME NEW s \in DrvType, NEW r,
         \/ r = ScanAborting(s) \/ r = JoinAborting(s)
         \/ r = [s EXCEPT !.scan_abort = FALSE] \/ r = [s EXCEPT !.join_abort = FALSE]
         \/ r = [s EXCEPT !.connect_req = TRUE]
  PROVE  Alike(s, r)
BY DEF ScanAborting, JoinAborting, DrvType, Alike, Same, ScanSame, RoamSame, LinkSame

LEMMA AlikeSound ==
  ASSUME NEW s, NEW r, NEW p, NEW c, NEW th, NEW l, Sound(s, p, c, th, l), Alike(s, r)
  PROVE  Sound(r, p, c, th, l)
<1>1. Calmer(s, r)
  BY DEF Alike, Calmer, Same, ScanSame, RoamSame, LinkSame
<1> QED
  BY <1>1, CalmerSound

LEMMA QueuedInQ ==
  ASSUME drv \in DrvType, NEW c
  PROVE  c \in Queued <=> InQ(drv.cmd_queue, c)
<1>1. drv.cmd_queue \in Seq(Commands)
  BY DEF DrvType
<1>2. DOMAIN drv.cmd_queue = 1..Len(drv.cmd_queue)
  BY <1>1
<1> QED
  BY <1>2, Zenon DEF Queued, InQ

(* The process moves on, in an operation that has left a disconnect alone. *)
LEMMA GoesOnSound ==
  ASSUME NEW s, NEW p, NEW c, NEW th, NEW l, Sound(s, p, c, th, l),
         p \notin {"disassoc_wait", "free_wait"},
         NEW p2, NEW c2, p2 \notin {"disassoc_wait", "free_wait"},
         l = "call" => c2 = "disconnect" /\ p2 \in {"scan_wait", "join_wait"},
         l = "left" => \/ p2 = "idle" /\ c2 = "none"
                       \/ p2 = "scan_wait" /\ c2 = "abort_scan"
                       \/ p2 = "scan_cmd" /\ c2 = "scan"
  PROVE  Sound(s, p2, c2, th, l)
<1>1. ScanInv(s, th) /\ QueueInv(s.cmd_queue, p2) /\ ConnInv(s, p2, th)
  BY DEF Sound, QueueInv, ConnInv, Excused
<1>2. ASSUME l = "call" PROVE LeaveInv(s, p2, c2, th, l)
  BY <1>2 DEF Sound, LeaveInv, Acked, Freed
<1>3. ASSUME l = "left" PROVE LeaveInv(s, p2, c2, th, l)
  BY <1>3 DEF Sound, LeaveInv, Acked, Freed
<1>4. ASSUME l \notin {"call", "left"} PROVE LeaveInv(s, p2, c2, th, l)
  BY <1>4 DEF LeaveInv
<1> QED
  BY <1>1, <1>2, <1>3, <1>4 DEF Sound

LEMMA SoundCall ==
  ASSUME TypeOK, Sound(drv, pc, call, thread, leaving), Call
  PROVE  Sound(drv', pc', call', thread', leaving')
<1>0. drv \in DrvType
  BY DEF TypeOK
<1>1. PICK r : r = drv'
  OBVIOUS
<1>2. pc = "idle" /\ thread' = thread
  BY DEF Call, cfg80211_rtw_connect, cfg80211_rtw_disconnect, cfg80211_rtw_abort_scan,
         cfg80211_rtw_scan, May_call
<1>3. leaving # "call"
  BY <1>2 DEF Sound, LeaveInv
<1>4. CASE cfg80211_rtw_connect
  <2>1. r = ScanAborting(drv) /\ leaving' = "no" /\ pc' \in {"scan_wait", "connect_scan_wait"}
    BY <1>1, <1>4 DEF cfg80211_rtw_connect
  <2>2. Sound(r, pc, call, thread, leaving)
    BY <1>0, <2>1, QuietFields, AlikeSound
  <2>3. Sound(r, pc', call', thread, leaving')
    BY <1>2, <2>1, <2>2, MovesSound
  <2> QED
    BY <1>1, <1>2, <2>3
<1>5. CASE cfg80211_rtw_disconnect
  <2>1. PICK t : t = rtw_set_to_roam(drv, 0)
    OBVIOUS
  <2>2. r = ScanAborting(t) /\ call' = "disconnect" /\ pc' = "scan_wait" /\ leaving' = "call"
    BY <1>1, <1>5, <2>1 DEF cfg80211_rtw_disconnect
  <2>3. /\ t \in DrvType /\ ScanSame(drv, t) /\ LinkSame(drv, t) /\ t.fw_state = drv.fw_state
        /\ t.cmd_queue = drv.cmd_queue /\ t.to_roam = 0 /\ ~t.to_join
    BY <1>0, <2>1, RoamFields, MlmeAssumption
  <2>4. Calmer(drv, t)
    BY <2>3 DEF Calmer, ScanSame, LinkSame
  <2>5. Alike(t, r)
    BY <2>2, <2>3, QuietFields
  <2>6. Sound(r, pc, call, thread, leaving)
    BY <2>4, <2>5, CalmerSound, AlikeSound
  <2>7. ScanInv(r, thread) /\ QueueInv(r.cmd_queue, "scan_wait") /\ ConnInv(r, "scan_wait", thread)
    BY <1>2, <2>6 DEF Sound, QueueInv, ConnInv, Excused
  <2>8. LeaveInv(r, "scan_wait", "disconnect", thread, "call")
    BY <2>3, <2>5 DEF Alike, Same, RoamSame, LeaveInv, Acked, Freed
  <2> QED
    BY <1>1, <1>2, <2>2, <2>7, <2>8 DEF Sound
<1>6. CASE cfg80211_rtw_abort_scan
  <2>1. r = ScanAborting(drv) /\ leaving' = leaving /\ pc' = "scan_wait" /\ call' = "abort_scan"
    BY <1>1, <1>6 DEF cfg80211_rtw_abort_scan
  <2>2. Sound(r, pc, call, thread, leaving)
    BY <1>0, <2>1, QuietFields, AlikeSound
  <2>3. Sound(r, "scan_wait", "abort_scan", thread, leaving)
    BY <1>2, <1>3, <2>2, GoesOnSound
  <2> QED
    BY <1>1, <1>2, <2>1, <2>3
<1>7. CASE cfg80211_rtw_scan
  <2>1. drv' = drv /\ leaving' = leaving /\ pc' = "scan_cmd" /\ call' = "scan"
    BY <1>7 DEF cfg80211_rtw_scan
  <2>2. Sound(drv, "scan_cmd", "scan", thread, leaving)
    BY <1>2, <1>3, GoesOnSound
  <2> QED
    BY <1>2, <2>1, <2>2
<1> QED
  BY <1>4, <1>5, <1>6, <1>7 DEF Call

LEMMA SoundWaitScan ==
  ASSUME TypeOK, Sound(drv, pc, call, thread, leaving), rtw_wait_scan_done
  PROVE  Sound(drv', pc', call', thread', leaving')
<1>0. drv \in DrvType
  BY DEF TypeOK
<1>1. PICK s : s = IF "SURVEY" \in drv.fw_state THEN rtw_cfg80211_indicate_scan_done(drv) ELSE drv
  OBVIOUS
<1>2. PICK r : r = drv'
  OBVIOUS
<1>3. /\ pc \in {"scan_wait", "connect_scan_wait"} /\ thread' = thread
      /\ leaving' \in {leaving, "disturbed"}
  BY DEF rtw_wait_scan_done, Disturbing
<1>4. \/ /\ call = "abort_scan" /\ r = [s EXCEPT !.scan_abort = FALSE]
         /\ pc' = "idle" /\ call' = "none"
      \/ /\ call # "abort_scan" /\ r = JoinAborting(s) /\ call' = call
         /\ pc' = IF pc = "scan_wait" THEN "join_wait" ELSE "connect_join_wait"
  BY <1>1, <1>2 DEF rtw_wait_scan_done
<1>5. s \in DrvType /\ Calmer(drv, s)
  <2>1. CASE s = drv
    BY <1>0, <2>1 DEF Calmer
  <2>2. CASE s = [drv EXCEPT !.scan_request = FALSE]
    <3>1. /\ s \in DrvType
          /\ ~s.scan_request /\ s.survey_timer = drv.survey_timer /\ s.scan_state = drv.scan_state
          /\ RoamSame(drv, s) /\ LinkSame(drv, s)
          /\ s.fw_state = drv.fw_state /\ s.cmd_queue = drv.cmd_queue
      BY <1>0, <2>2 DEF DrvType, RoamSame, LinkSame
    <3> QED
      BY <3>1 DEF Calmer, RoamSame, LinkSame
  <2> QED
    BY <1>1, <2>1, <2>2 DEF rtw_cfg80211_indicate_scan_done
<1>6. Alike(s, r)
  BY <1>4, <1>5, QuietFields
<1>7. Sound(r, pc, call, thread, leaving)
  BY <1>5, <1>6, CalmerSound, AlikeSound
<1>8. PICK p2 : p2 = pc'
  OBVIOUS
<1>9. PICK c2 : c2 = call'
  OBVIOUS
<1>10. PICK l2 : l2 = leaving'
  OBVIOUS
<1>11. /\ pc \notin {"disassoc_wait", "free_wait"} /\ p2 \notin {"disassoc_wait", "free_wait"}
  BY <1>3, <1>4, <1>8
<1>12. /\ leaving = "call" => c2 = "disconnect" /\ p2 \in {"scan_wait", "join_wait"}
       /\ leaving = "left" => p2 = "idle" /\ c2 = "none"
  <2>1. LeaveInv(r, pc, call, thread, leaving)
    BY <1>7 DEF Sound
  <2>2. leaving = "call" => call = "disconnect" /\ pc = "scan_wait"
    BY <1>3, <2>1 DEF LeaveInv
  <2>3. leaving = "left" => call = "abort_scan"
    BY <1>3, <2>1 DEF LeaveInv
  <2> QED
    BY <1>4, <1>8, <1>9, <2>2, <2>3
<1>13. Sound(r, p2, c2, thread, leaving)
  BY <1>7, <1>11, <1>12, GoesOnSound
<1>14. Sound(r, p2, c2, thread, l2)
  BY <1>3, <1>10, <1>13, DisturbedSound
<1> QED
  BY <1>2, <1>3, <1>8, <1>9, <1>10, <1>14

LEMMA SoundWaitJoin ==
  ASSUME TypeOK, Sound(drv, pc, call, thread, leaving), rtw_wait_join_done
  PROVE  Sound(drv', pc', call', thread', leaving')
<1>0. drv \in DrvType
  BY DEF TypeOK
<1>1. PICK s : s = [drv EXCEPT !.join_abort = FALSE]
  OBVIOUS
<1>2. PICK r : r = drv'
  OBVIOUS
<1>3. /\ UNCHANGED <<call, thread>> /\ leaving' \in {leaving, "disturbed"}
      /\ "LINKING" \in drv.fw_state => leaving' # "call"
  BY DEF rtw_wait_join_done, Disturbing
<1>4. \/ pc = "join_wait" /\ r = rtw_enqueue_cmd(s, "DISCONNECT_ACK") /\ pc' = "disassoc_wait"
      \/ pc = "connect_join_wait" /\ r = s /\ pc' = "connect_set"
  BY <1>1, <1>2 DEF rtw_wait_join_done
<1>5. Alike(drv, s)
  BY <1>0, <1>1, QuietFields
<1>6. Sound(s, pc, call, thread, leaving)
  BY <1>5, AlikeSound
<1>7. PICK l2 : l2 = leaving'
  OBVIOUS
<1>8. CASE pc = "connect_join_wait" /\ r = s /\ pc' = "connect_set"
  <2>1. leaving \notin {"call", "left"}
    BY <1>6, <1>8 DEF Sound, LeaveInv
  <2>2. l2 \notin {"call", "left"}
    BY <1>3, <1>7, <2>1
  <2>3. Sound(r, "connect_set", call, thread, l2)
    BY <1>6, <1>8, <2>2, MovesSound
  <2> QED
    BY <1>2, <1>3, <1>7, <1>8, <2>3
<1>9. CASE pc = "join_wait" /\ r = rtw_enqueue_cmd(s, "DISCONNECT_ACK") /\ pc' = "disassoc_wait"
  <2>1. "DISCONNECT_ACK" \in Commands
    BY DEF Commands
  <2>2. s \in DrvType /\ s.cmd_queue \in Seq(Commands)
    BY <1>5 DEF Alike, DrvType
  <2>3. Same(s, r) /\ r.fw_state = s.fw_state /\ r.cmd_queue = Append(s.cmd_queue, "DISCONNECT_ACK")
    BY <1>9, <2>1, <2>2, EnqueueFields
  <2>4. Longer(s.cmd_queue, r.cmd_queue, {"DISCONNECT_ACK"})
    BY <2>1, <2>2, <2>3, AppendLonger
  <2>5. \A x : InQ(r.cmd_queue, x) <=> InQ(s.cmd_queue, x) \/ x = "DISCONNECT_ACK"
    BY <2>4 DEF Longer
  <2>6. ~InQ(s.cmd_queue, "DISCONNECT_ACK") /\ ~InQ(s.cmd_queue, "FREE_ASSOC")
    BY <1>6, <1>9 DEF Sound, QueueInv
  <2>7. ScanInv(r, thread)
    BY <1>6, <2>3, <2>5 DEF Sound, ScanInv, Goes, Same, ScanSame, RoamSame
  <2>8. QueueInv(r.cmd_queue, "disassoc_wait")
    <3>1. Replaced(r.cmd_queue)
      BY <1>6, <2>4 DEF Sound, QueueInv, Longer
    <3> QED
      BY <2>5, <2>6, <3>1 DEF QueueInv
  <2>9. ConnInv(r, "disassoc_wait", thread)
    BY <1>6, <2>3 DEF Sound, ConnInv, Excused, Same, RoamSame
  <2>10. LeaveInv(r, "disassoc_wait", call, thread, l2)
    <3> SUFFICES ASSUME l2 \in {"call", "left"} PROVE LeaveInv(r, "disassoc_wait", call, thread, l2)
      BY DEF LeaveInv
    <3>1. l2 = leaving /\ leaving = "call"
      BY <1>3, <1>6, <1>7, <1>9 DEF Sound, LeaveInv
    <3>2. "LINKING" \notin r.fw_state
      BY <1>3, <1>5, <1>7, <2>3, <3>1 DEF Alike
    <3>3. call = "disconnect" /\ r.to_roam = 0 /\ ~r.to_join
      BY <1>6, <2>3, <3>1 DEF Sound, LeaveInv, Same, RoamSame
    <3>4. NoneBehind(s.cmd_queue, "DISCONNECT_ACK", "JOIN")
      BY <2>6 DEF NoneBehind, InQ
    <3>5. NoneBehind(r.cmd_queue, "DISCONNECT_ACK", "JOIN")
      BY <2>4, <3>4 DEF Longer
    <3>6. ~Acked(r, "disassoc_wait", "call") /\ ~Freed(r, "disassoc_wait", "call")
      BY <2>5 DEF Acked, Freed
    <3> QED
      BY <3>1, <3>2, <3>3, <3>5, <3>6 DEF LeaveInv
  <2> QED
    BY <1>2, <1>3, <1>7, <1>9, <2>7, <2>8, <2>9, <2>10 DEF Sound
<1> QED
  BY <1>4, <1>8, <1>9

LEMMA SoundDisassoc ==
  ASSUME TypeOK, Sound(drv, pc, call, thread, leaving), rtw_disassoc_cmd_wait
  PROVE  Sound(drv', pc', call', thread', leaving')
<1>0. drv \in DrvType /\ drv.cmd_queue \in Seq(Commands)
  BY DEF TypeOK, DrvType
<1>1. "FREE_ASSOC" \in Commands
  BY DEF Commands
<1>2. PICK r : r = drv'
  OBVIOUS
<1>3. /\ pc = "disassoc_wait" /\ "DISCONNECT_ACK" \notin Queued
      /\ r = rtw_enqueue_cmd(drv, "FREE_ASSOC")
      /\ pc' = "free_wait" /\ UNCHANGED <<call, thread, leaving>>
  BY <1>2 DEF rtw_disassoc_cmd_wait
<1>4. Same(drv, r) /\ r.fw_state = drv.fw_state /\ r.cmd_queue = Append(drv.cmd_queue, "FREE_ASSOC")
  BY <1>0, <1>1, <1>3, EnqueueFields
<1>5. Longer(drv.cmd_queue, r.cmd_queue, {"FREE_ASSOC"})
  BY <1>0, <1>1, <1>4, AppendLonger
<1>6. \A x : InQ(r.cmd_queue, x) <=> InQ(drv.cmd_queue, x) \/ x = "FREE_ASSOC"
  BY <1>5 DEF Longer
<1>7. ~InQ(drv.cmd_queue, "DISCONNECT_ACK")
  BY <1>0, <1>3, QueuedInQ
<1>8. ~InQ(drv.cmd_queue, "FREE_ASSOC")
  BY <1>3 DEF Sound, QueueInv
<1>9. ScanInv(r, thread)
  BY <1>4, <1>6 DEF Sound, ScanInv, Goes, Same, ScanSame, RoamSame
<1>10. QueueInv(r.cmd_queue, "free_wait")
  <2>1. Replaced(r.cmd_queue)
    BY <1>5 DEF Sound, QueueInv, Longer
  <2> QED
    BY <1>6, <1>7, <2>1 DEF QueueInv
<1>11. ConnInv(r, "free_wait", thread)
  BY <1>4 DEF Sound, ConnInv, Excused, Same, RoamSame
<1>12. LeaveInv(r, "free_wait", call, thread, leaving)
  <2> SUFFICES ASSUME leaving \in {"call", "left"} PROVE LeaveInv(r, "free_wait", call, thread, leaving)
    BY DEF LeaveInv
  <2>1. leaving = "call"
    BY <1>3 DEF Sound, LeaveInv
  <2>2. Acked(drv, pc, leaving)
    BY <1>3, <1>7, <2>1 DEF Acked
  <2>3. /\ drv.state = "NULL" /\ ~InQ(drv.cmd_queue, "JOIN") /\ "LINKING" \notin drv.fw_state
        /\ call = "disconnect" /\ drv.to_roam = 0 /\ ~drv.to_join
    BY <1>3, <2>1, <2>2 DEF Sound, LeaveInv
  <2>4. NoneBehind(drv.cmd_queue, "FREE_ASSOC", "STADEL_ROAM")
    BY <1>8 DEF NoneBehind, InQ
  <2>5. NoneBehind(r.cmd_queue, "FREE_ASSOC", "STADEL_ROAM")
    BY <1>5, <2>4 DEF Longer
  <2>6. ~Freed(r, "free_wait", "call") /\ ~InQ(r.cmd_queue, "JOIN")
    BY <1>6, <2>3 DEF Freed
  <2>7. r.state = "NULL" /\ "LINKING" \notin r.fw_state /\ r.to_roam = 0 /\ ~r.to_join
    BY <1>4, <2>3 DEF Same, RoamSame, LinkSame
  <2> QED
    BY <2>1, <2>3, <2>5, <2>6, <2>7 DEF LeaveInv
<1> QED
  BY <1>2, <1>3, <1>9, <1>10, <1>11, <1>12 DEF Sound

LEMMA SoundLeft ==
  ASSUME TypeOK, Sound(drv, pc, call, thread, leaving), rtw_disconnect_end
  PROVE  Sound(drv', pc', call', thread', leaving')
<1>0. drv \in DrvType
  BY DEF TypeOK
<1>1. PICK s : s = rtw_indicate_disconnect(drv)
  OBVIOUS
<1>2. PICK r : r = drv'
  OBVIOUS
<1>3. /\ pc = "free_wait" /\ "FREE_ASSOC" \notin Queued /\ thread' = thread
      /\ \/ /\ call = "connect" /\ r = ScanAborting(s) /\ pc' = "connect_scan_wait"
            /\ UNCHANGED <<call, leaving>>
         \/ /\ call # "connect" /\ r = s /\ pc' = "idle" /\ call' = "none"
            /\ leaving' = IF leaving = "call" THEN "left" ELSE "no"
  BY <1>1, <1>2 DEF rtw_disconnect_end
<1>4. /\ s \in DrvType /\ Same(drv, s) /\ s.fw_state = drv.fw_state \ {"LINKING", "ASOC"}
      /\ s.cmd_queue = drv.cmd_queue
  BY <1>0, <1>1, DisconnectFields
<1>5. Calmer(drv, s)
  BY <1>4 DEF Calmer, Same, ScanSame, RoamSame, LinkSame
<1>6. Sound(s, pc, call, thread, leaving)
  BY <1>5, CalmerSound
<1>7. ~InQ(s.cmd_queue, "FREE_ASSOC") /\ ~InQ(s.cmd_queue, "DISCONNECT_ACK")
  <2>1. ~InQ(drv.cmd_queue, "FREE_ASSOC")
    BY <1>0, <1>3, QueuedInQ
  <2> QED
    BY <1>3, <1>4, <1>6, <2>1 DEF Sound, QueueInv
<1>8. /\ ScanInv(s, thread) /\ \A p : QueueInv(s.cmd_queue, p) /\ ConnInv(s, p, thread)
  BY <1>4, <1>6, <1>7 DEF Sound, QueueInv, ConnInv
<1>9. CASE call = "connect"
  <2>1. r = ScanAborting(s) /\ pc' = "connect_scan_wait" /\ UNCHANGED <<call, leaving>>
    BY <1>3, <1>9
  <2>2. leaving \notin {"call", "left"}
    BY <1>3, <1>9 DEF Sound, LeaveInv
  <2>3. Sound(s, "connect_scan_wait", call, thread, leaving)
    BY <1>8, <2>2 DEF Sound, LeaveInv
  <2>4. Sound(r, "connect_scan_wait", call, thread, leaving)
    BY <1>4, <2>1, <2>3, QuietFields, AlikeSound
  <2> QED
    BY <1>2, <1>3, <2>1, <2>4
<1>10. CASE call # "connect"
  <2>1. /\ r = s /\ pc' = "idle" /\ call' = "none"
        /\ leaving' = IF leaving = "call" THEN "left" ELSE "no"
    BY <1>3, <1>10
  <2>2. CASE leaving # "call"
    <3>1. Sound(s, "idle", "none", thread, "no")
      BY <1>8 DEF Sound, LeaveInv
    <3> QED
      BY <1>2, <1>3, <2>1, <2>2, <3>1
  <2>3. CASE leaving = "call"
    <3>1. Acked(s, pc, leaving) /\ Freed(s, pc, leaving)
      BY <1>3, <1>7, <2>3 DEF Acked, Freed
    <3>2. /\ s.state = "NULL" /\ ~InQ(s.cmd_queue, "JOIN") /\ s.to_roam = 0 /\ ~s.to_join
          /\ ~InQ(s.cmd_queue, "STADEL_ROAM") /\ thread # "STADEL_ROAM"
      BY <1>6, <2>3, <3>1 DEF Sound, LeaveInv
    <3>3. "LINKING" \notin s.fw_state /\ "ASOC" \notin s.fw_state
      BY <1>4
    <3>4. LeaveInv(s, "idle", "none", thread, "left")
      BY <3>2, <3>3 DEF LeaveInv
    <3> QED
      BY <1>2, <1>3, <1>8, <2>1, <2>3, <3>4 DEF Sound
  <2> QED
    BY <2>2, <2>3
<1> QED
  BY <1>9, <1>10

LEMMA SoundConnectSet ==
  ASSUME TypeOK, Sound(drv, pc, call, thread, leaving),
         rtw_set_802_11_connect \/ rtw_set_802_11_connect_fail
  PROVE  Sound(drv', pc', call', thread', leaving')
<1>0. drv \in DrvType
  BY DEF TypeOK
<1>1. PICK r : r = drv'
  OBVIOUS
<1>2. pc = "connect_set" /\ pc' \in {"connect_req", "idle"} /\ UNCHANGED <<thread, leaving>>
  BY DEF rtw_set_802_11_connect, rtw_set_802_11_connect_fail
<1>3. leaving \notin {"call", "left"}
  BY <1>2 DEF Sound, LeaveInv
<1>4. ASSUME Sound(r, pc, call, thread, leaving) PROVE Sound(drv', pc', call', thread', leaving')
  <2>1. Sound(r, pc', call', thread, leaving)
    BY <1>2, <1>3, <1>4, MovesSound
  <2> QED
    BY <1>1, <1>2, <2>1
<1>5. CASE rtw_set_802_11_connect
  <2>1. \/ "SURVEY" \in drv.fw_state /\ r = [drv EXCEPT !.to_join = TRUE]
        \/ r = drv
        \/ r \in rtw_do_join(drv)
    BY <1>1, <1>5 DEF rtw_set_802_11_connect
  <2>2. ASSUME "SURVEY" \in drv.fw_state, r = [drv EXCEPT !.to_join = TRUE]
        PROVE  Sound(r, pc, call, thread, leaving)
    <3>1. /\ ScanSame(drv, r) /\ LinkSame(drv, r) /\ r.to_roam = drv.to_roam
          /\ r.fw_state = drv.fw_state /\ r.cmd_queue = drv.cmd_queue
      BY <1>0, <2>2 DEF DrvType, ScanSame, LinkSame
    <3>2. Goes(r)
      <4>1. Goes(drv)
        BY <2>2 DEF Sound, ScanInv
      <4> QED
        BY <3>1, <4>1 DEF Goes, ScanSame
    <3>3. ScanInv(r, thread)
      BY <3>2 DEF ScanInv
    <3>4. QueueInv(r.cmd_queue, pc) /\ ConnInv(r, pc, thread)
      BY <3>1 DEF Sound, ConnInv, Excused, LinkSame
    <3> QED
      BY <1>3, <3>3, <3>4 DEF Sound, LeaveInv
  <2>3. ASSUME r \in rtw_do_join(drv) PROVE Sound(r, pc, call, thread, leaving)
    <3>1. Starts(drv, r) \/ Looks(drv, r)
      BY <1>0, <2>3, DoJoinFields
    <3>2. ScanInv(drv, thread) /\ QueueInv(drv.cmd_queue, pc) /\ ConnInv(drv, pc, thread)
      BY DEF Sound
    <3> QED
      BY <1>3, <3>1, <3>2, JoiningSound
  <2> QED
    BY <1>4, <2>1, <2>2, <2>3
<1>6. CASE rtw_set_802_11_connect_fail
  <2>1. r = rtw_do_join_fail(drv)
    BY <1>1, <1>6 DEF rtw_set_802_11_connect_fail
  <2>2. /\ ScanSame(drv, r) /\ LinkSame(drv, r) /\ r.to_roam = drv.to_roam
        /\ ~r.to_join /\ r.fw_state = drv.fw_state \ {"LINKING"} /\ r.cmd_queue = drv.cmd_queue
    BY <1>0, <2>1, FailFields
  <2>3. Calmer(drv, r)
    BY <2>2 DEF Calmer, ScanSame, LinkSame
  <2> QED
    BY <1>4, <2>3, CalmerSound
<1> QED
  BY <1>5, <1>6

LEMMA SoundConnectRequest ==
  ASSUME TypeOK, Sound(drv, pc, call, thread, leaving), connect_request
  PROVE  Sound(drv', pc', call', thread', leaving')
<1>0. drv \in DrvType
  BY DEF TypeOK
<1>1. PICK r : r = drv'
  OBVIOUS
<1>2. /\ pc = "connect_req" /\ r = [drv EXCEPT !.connect_req = TRUE]
      /\ pc' = "idle" /\ call' = "none" /\ UNCHANGED <<thread, leaving>>
  BY <1>1 DEF connect_request
<1>3. leaving \notin {"call", "left"}
  BY <1>2 DEF Sound, LeaveInv
<1>4. Sound(r, pc, call, thread, leaving)
  BY <1>0, <1>2, QuietFields, AlikeSound
<1>5. Sound(r, "idle", "none", thread, leaving)
  BY <1>2, <1>3, <1>4, MovesSound
<1> QED
  BY <1>1, <1>2, <1>5

LEMMA SoundScanRequest ==
  ASSUME TypeOK, Sound(drv, pc, call, thread, leaving), scan_request
  PROVE  Sound(drv', pc', call', thread', leaving')
<1>0. drv \in DrvType
  BY DEF TypeOK
<1>1. PICK u : u = rtw_sitesurvey_cmd(drv)
  OBVIOUS
<1>2. PICK r : r = drv'
  OBVIOUS
<1>3. /\ pc = "scan_cmd" /\ r = [u EXCEPT !.scan_request = TRUE]
      /\ pc' = "idle" /\ call' = "none" /\ UNCHANGED <<thread, leaving>>
  BY <1>1, <1>2 DEF scan_request
<1>4. /\ u \in DrvType /\ Same(drv, u) /\ u.fw_state = drv.fw_state \cup {"SURVEY"}
      /\ Longer(drv.cmd_queue, u.cmd_queue, {"SURVEY"})
  BY <1>0, <1>1, SurveyFields
<1>5. RoamSame(u, r) /\ LinkSame(u, r) /\ r.fw_state = u.fw_state /\ r.cmd_queue = u.cmd_queue
  BY <1>3, <1>4 DEF DrvType, RoamSame, LinkSame
<1>6. /\ RoamSame(drv, r) /\ LinkSame(drv, r) /\ r.fw_state = drv.fw_state \cup {"SURVEY"}
      /\ Longer(drv.cmd_queue, r.cmd_queue, {"SURVEY"})
  BY <1>4, <1>5 DEF Same, RoamSame, LinkSame
<1>7. \A x : InQ(r.cmd_queue, x) <=> InQ(drv.cmd_queue, x) \/ x = "SURVEY"
  BY <1>6 DEF Longer
<1>8. ScanInv(r, thread)
  BY <1>7 DEF ScanInv, Goes
<1>9. QueueInv(r.cmd_queue, pc)
  BY <1>6, <1>7 DEF Sound, QueueInv, Longer
<1>10. ConnInv(r, pc, thread)
  BY <1>6, <1>7 DEF Sound, ConnInv, Excused, RoamSame, LinkSame
<1>11. leaving # "call"
  BY <1>3 DEF Sound, LeaveInv
<1>12. LeaveInv(r, pc, call, thread, leaving)
  <2>1. /\ LeaveInv(drv, pc, call, thread, leaving)
        /\ Acked(r, pc, leaving) <=> Acked(drv, pc, leaving)
        /\ Freed(r, pc, leaving) <=> Freed(drv, pc, leaving)
    BY <1>7 DEF Sound, Acked, Freed
  <2> QED
    BY <1>3, <1>6, <1>7, <2>1 DEF LeaveInv, RoamSame, LinkSame
<1>13. Sound(r, pc, call, thread, leaving)
  BY <1>8, <1>9, <1>10, <1>12 DEF Sound
<1>14. Sound(r, "idle", "none", thread, leaving)
  BY <1>3, <1>11, <1>13, GoesOnSound
<1> QED
  BY <1>2, <1>3, <1>14

-----------------------------------------------------------------------------

LEMMA SoundInit == Init => Sound(drv, pc, call, thread, leaving)
<1> SUFFICES ASSUME Init PROVE Sound(drv, pc, call, thread, leaving)
  OBVIOUS
<1>1. /\ drv.fw_state = {} /\ ~drv.to_join /\ ~drv.scan_request
      /\ drv.cmd_queue = <<>> /\ pc = "idle" /\ leaving = "no"
  BY DEF Init
<1>2. \A x : ~InQ(drv.cmd_queue, x)
  BY <1>1 DEF InQ
<1>3. Replaced(drv.cmd_queue)
  BY <1>1 DEF Replaced
<1> QED
  BY <1>1, <1>2, <1>3 DEF Sound, ScanInv, QueueInv, ConnInv, LeaveInv

LEMMA SoundStep ==
  TypeOK /\ Sound(drv, pc, call, thread, leaving) /\ [Next]_vars
    => Sound(drv, pc, call, thread, leaving)'
<1> SUFFICES ASSUME TypeOK, Sound(drv, pc, call, thread, leaving), [Next]_vars
             PROVE  Sound(drv', pc', call', thread', leaving')
  BY DEF Sound, ScanInv, QueueInv, ConnInv, LeaveInv, Goes, Excused, Acked, Freed,
         InQ, NoneBehind, Replaced
<1>1. CASE Call
  BY <1>1, SoundCall
<1>2. CASE InCall
  BY <1>2, SoundWaitScan, SoundWaitJoin, SoundDisassoc, SoundLeft, SoundConnectSet,
     SoundConnectRequest, SoundScanRequest DEF InCall
<1>3. CASE Timer
  BY <1>3, SoundTimer
<1>4. CASE Receive
  BY <1>4, SoundReceive
<1>5. CASE Thread
  BY <1>5, SoundSurvey, SoundJoin, SoundDisconnect, SoundFree, SoundSurveyDone,
     SoundSurveyJoin, SoundSurveyIndicate, SoundStadel, SoundStadelCallback DEF Thread
<1>6. CASE linked_status_chk
  <2>1. /\ drv \in DrvType /\ drv' \in receive_disconnect(drv, "STADEL_ROAM")
        /\ UNCHANGED <<pc, call, thread, leaving>>
    BY <1>6 DEF linked_status_chk, Process, TypeOK
  <2> QED
    BY <2>1, SoundLost
<1>7. CASE UNCHANGED vars
  BY <1>7 DEF vars
<1> QED
  BY <1>1, <1>2, <1>3, <1>4, <1>5, <1>6, <1>7 DEF Next

(* Whatever waits for the end of a scan is remembered: WIFI_UNDER_SURVEY,  *)
(* a scan request of cfg80211 and a join that waits for the scan each have *)
(* a command, a timer or a callback of the scan under way that ends the    *)
(* wait, whichever aborts, timeouts and disconnects come in between.       *)
THEOREM ScansAreWatched == Spec => []ScanIsWatched
<1>1. TypeOK /\ Sound(drv, pc, call, thread, leaving) => ScanIsWatched
  <2> SUFFICES ASSUME TypeOK, Sound(drv, pc, call, thread, leaving) PROVE ScanIsWatched
    OBVIOUS
  <2>1. /\ "SURVEY" \in Queued <=> InQ(drv.cmd_queue, "SURVEY")
        /\ "SURVEY_DONE" \in Queued <=> InQ(drv.cmd_queue, "SURVEY_DONE")
    BY QueuedInQ DEF TypeOK
  <2>2. Goes(drv) => ScanGoesOn
    BY <2>1 DEF Goes, ScanGoesOn
  <2> QED
    BY <2>2 DEF Sound, ScanInv, ScanIsWatched
<1> QED
  BY <1>1, MlmeInit, MlmeStep, SoundInit, SoundStep, PTL DEF Spec

(* The station counts as connected only while mlme_ext holds an            *)
(* association, or what reports its end is under way: whichever deauth,    *)
(* timeout or join came between the two levels of the driver.              *)
THEOREM ConnectionsAreReal == Spec => []ConnectedMeansAssociated
<1>1. TypeOK /\ Sound(drv, pc, call, thread, leaving) => ConnectedMeansAssociated
  <2> SUFFICES ASSUME TypeOK, Sound(drv, pc, call, thread, leaving), "ASOC" \in drv.fw_state
               PROVE  ConnectedMeansAssociated
    BY DEF ConnectedMeansAssociated
  <2>1. /\ "STADEL" \in Queued <=> InQ(drv.cmd_queue, "STADEL")
        /\ "STADEL_ROAM" \in Queued <=> InQ(drv.cmd_queue, "STADEL_ROAM")
        /\ "JOIN" \in Queued <=> InQ(drv.cmd_queue, "JOIN")
    BY QueuedInQ DEF TypeOK
  <2>2. Excused(drv, pc, thread)
    BY DEF Sound, ConnInv
  <2> QED
    BY <2>1, <2>2 DEF Excused, ConnectedMeansAssociated
<1> QED
  BY <1>1, MlmeInit, MlmeStep, SoundInit, SoundStep, PTL DEF Spec

(* A disconnect lasts: from the undisturbed return of                      *)
(* cfg80211_rtw_disconnect to the next connect the station neither is      *)
(* connected nor joins, whatever scans, events and timers it left behind.  *)
THEOREM DisconnectsLast == Spec => []DisconnectSticks
<1>1. Sound(drv, pc, call, thread, leaving) => DisconnectSticks
  BY DEF Sound, LeaveInv, DisconnectSticks
<1> QED
  BY <1>1, MlmeInit, MlmeStep, SoundInit, SoundStep, PTL DEF Spec
=============================================================================
