------------------------------- MODULE ApSta -------------------------------
(***************************************************************************)
(* The life of a station of the access point, from its first authentica-   *)
(* tion frame until its slot of the station pool is free again:            *)
(* core/rtw_sta_mgt.c (pool, hash table, association identifiers),         *)
(* OnAuth, OnAssocReq, OnDeAuth, OnDisassoc and the SA Query of            *)
(* core/rtw_mlme_ext.c, the keep-alive check and ap_free_sta of            *)
(* core/rtw_ap.c, and the two operations of cfg80211 that remove stations. *)
(*                                                                         *)
(* Three contexts share the table: the receive tasklet (the On... hand-    *)
(* lers), a cfg80211 caller, and the command thread, which handles the     *)
(* events the other two leave in its queue and runs the periodic check.    *)
(* No lock covers more than one list, and two of the walks remember slots  *)
(* by number and use them after the lock is released.  A step is what a    *)
(* context does between two points where another can run on the same CPU: *)
(* a whole handler of the tasklet, and in the other two what lies between  *)
(* the ends of their critical sections.                                    *)
(*                                                                         *)
(* The access point uses RSN (or no security): the shared-key exchange of  *)
(* WEP is left out.  What a station negotiates, the frames answered to it, *)
(* the counters of bss_cap_update and the reports to cfg80211 do not       *)
(* influence the table and are left out; its queues are in ApPs.           *)
(*                                                                         *)
(* A slot that is given back while it is on asoc_list stays there, and     *)
(* when it is handed out again, or given back a second time, a list is     *)
(* broken: nothing is known about what follows and the model stops         *)
(* (db.corrupt).                                                           *)
(***************************************************************************)
EXTENDS Integers, Sequences, FiniteSets

CONSTANTS
  NumSta,       \* slots of the station pool (NUM_STA)
  Macs,         \* the addresses of the stations
  MaxAid,       \* max_aid
  MaxNumSta,    \* max_num_sta
  RrAid,        \* rr_aid: identifiers are handed out round robin
  AuthTo,       \* auth_to, assoc_to and expire_to: checks until a station
  AssocTo,      \*   that authenticates, associates, or is silent is dropped
  ExpireTo,
  KeepAlive,    \* null data frames a silent station may leave unanswered (3)
  MaxFrames,    \* bound: frames and signs of life that come from stations
  MaxCalls      \* bound: calls of cfg80211

None == 0   \* NULL, and no address

ASSUME ConstantsAreUsable ==
  /\ {NumSta, MaxAid, MaxNumSta} \subseteq Nat \ {0} /\ RrAid \in BOOLEAN
  /\ {AuthTo, AssocTo, ExpireTo, KeepAlive} \subseteq Nat \ {0}
  /\ {MaxFrames, MaxCalls} \subseteq Nat

VARIABLES
  db,       \* the station table and the command queue, see TypeOK
  cpc,      \* where the command thread is
  chk,      \* flush_list or chk_alive_list of expire_timeout_chk
  del,      \* del_asoc_list of expire_timeout_chk
  flush,    \* flush_list of rtw_sta_flush
  frames,   \* frames and signs of life so far
  calls     \* calls of cfg80211 so far

vars == <<db, cpc, chk, del, flush, frames, calls>>
thread == <<cpc, chk, del>>

Slots == 1..NumSta
Aids == 1..MaxAid

-----------------------------------------------------------------------------
(* The station table.                                                      *)

Found(d, m) == {s \in d.hash : d.sta[s].mac = m}

NoSta(m) == [mac |-> m, state |-> {}, auth_seq |-> 0, aid |-> 0, expire_to |-> 0,
             keep_alive_trycnt |-> 0, mfp |-> FALSE, bpairwise_key_installed |-> FALSE,
             dot11w_expire_timer |-> FALSE]

(* The first free slot; OnAuth then marks it not authenticated.            *)
rtw_alloc_stainfo(d, m) ==
  LET s == Head(d.free) IN
    [d EXCEPT !.free = Tail(@), !.hash = @ \cup {s}, !.lost = @ \ {s},
              !.sta[s] = [NoSta(m) EXCEPT !.state = {"AUTH_NULL"}],
              !.corrupt = @ \/ s \in d.asoc_list]

Gone(t) == [t EXCEPT !.state = @ \ {"ASOC"}, !.expire_to = 0, !.aid = 0,
                     !.dot11w_expire_timer = FALSE]

rtw_free_stainfo_KeepAid(d, s) ==  \* mutant: the identifier is not given back
  [d EXCEPT !.hash = @ \ {s}, !.auth_list = @ \ {s}, !.free = Append(@, s),
            !.sta[s] = Gone(@), !.corrupt = @ \/ s \notin d.hash]

(* Everything is given back, but the slot stays on asoc_list.              *)
rtw_free_stainfo(d, s) ==
  [d EXCEPT !.hash = @ \ {s}, !.auth_list = @ \ {s}, !.free = Append(@, s),
            !.sta_aid = [a \in Aids |-> IF a = d.sta[s].aid /\ d.sta_aid[a] = s THEN None
                                        ELSE d.sta_aid[a]],
            !.sta[s] = Gone(@), !.corrupt = @ \/ s \notin d.hash]

(* The search of rtw_aid_alloc: the first free identifier from started_aid *)
(* on, unless max_num_sta used ones come first.  0: none.                  *)
SearchAid(d, i) == ((i + d.started_aid - 1) % MaxAid) + 1

FirstFree(d) ==
  {i \in 0..(MaxAid - 1) :
     /\ d.sta_aid[SearchAid(d, i)] = None
     /\ \A j \in 0..(i - 1) : d.sta_aid[SearchAid(d, j)] # None}

NewAid(d) ==
  IF \E i \in FirstFree(d) : i < MaxNumSta
  THEN SearchAid(d, CHOOSE i \in FirstFree(d) : i < MaxNumSta) ELSE 0

rtw_aid_alloc(d, s) ==
  LET aid == NewAid(d) IN
    IF aid = 0 THEN d
    ELSE [d EXCEPT !.sta[s].aid = aid, !.sta_aid[aid] = s,
                   !.started_aid = IF RrAid THEN (aid % MaxAid) + 1 ELSE @]

-----------------------------------------------------------------------------
(* Removal.                                                                *)

rtw_stadel_event_callback(d, m) ==
  IF Found(d, m) = {} THEN d ELSE rtw_free_stainfo(d, CHOOSE s \in Found(d, m) : TRUE)

(* With enqueue the command thread is to do it; without memory nobody is.  *)
report_del_sta_event(d, s, enqueue) ==
  {IF enqueue THEN [d EXCEPT !.events = Append(@, [type |-> "DEL", mac |-> d.sta[s].mac])]
   ELSE rtw_stadel_event_callback(d, d.sta[s].mac),
   [d EXCEPT !.lost = @ \cup {s}]}

ap_free_sta(d, s, enqueue) ==
  report_del_sta_event([d EXCEPT !.sta[s].state = @ \ {"ASOC"}], s, enqueue)

(* A station on asoc_list is taken off it and removed.                     *)
RemoveAssociated(s) == ap_free_sta([db EXCEPT !.asoc_list = @ \ {s}], s, TRUE)

-----------------------------------------------------------------------------
(* The receive tasklet.                                                    *)

FromStation(n) == frames + n <= MaxFrames /\ frames' = frames + n

(* A station with management frame protection and a key keeps its place:   *)
(* whoever authenticates or associates in its name may not be it.          *)
Protected(t) == t.mfp /\ t.bpairwise_key_installed

IntoAuthList_NewOnly(d, s) ==  \* mutant: only a station that was not known is put there
  IF Protected(d.sta[s]) THEN d
  ELSE [d EXCEPT !.asoc_list = @ \ {s},
                 !.auth_list = IF d.sta[s].state = {"AUTH_NULL"} THEN @ \cup {s} ELSE @]

IntoAuthList(d, s) ==
  IF Protected(d.sta[s]) THEN d
  ELSE [d EXCEPT !.asoc_list = @ \ {s}, !.auth_list = @ \cup {s}]

AuthTimer_Later(d, s) ==  \* mutant: the time starts when authentication succeeded
  IF "AUTH_SUCCESS" \in d.sta[s].state THEN [d EXCEPT !.sta[s].expire_to = AuthTo] ELSE d

AuthTimer(d, s) ==
  IF d.sta[s].auth_seq = 0 THEN [d EXCEPT !.sta[s].expire_to = AuthTo] ELSE d

OpenAuth(t) ==
  LET state == IF Protected(t) THEN t.state
               ELSE (t.state \ {"AUTH_NULL"}) \cup {"AUTH_SUCCESS"} IN
    [t EXCEPT !.state = state,
              !.expire_to = IF Protected(t) THEN @ ELSE AssocTo,
              !.auth_seq = IF state \cap {"AUTH_SUCCESS", "ASSOC_SUCCESS"} # {} THEN 0 ELSE 2]

(* A known station or a new one; an SAE frame goes to cfg80211, an open    *)
(* one succeeds, one out of sequence costs the station its place.          *)
Authenticated(d, s, alg, seq) ==
  CASE alg = "sae" -> d
    [] alg = "open" /\ seq = 1 /\ d.sta[s].auth_seq = 0 -> [d EXCEPT !.sta[s] = OpenAuth(@)]
    [] OTHER -> rtw_free_stainfo(d, s)

OnAuth(m, alg, seq) ==
  LET d == IF Found(db, m) # {} THEN db ELSE rtw_alloc_stainfo(db, m) IN
    /\ FromStation(1)
    /\ Found(db, m) # {} \/ db.free # <<>>
    /\ \E s \in Found(d, m) :
         db' = Authenticated(AuthTimer(IntoAuthList(d, s), s), s, alg, seq)
    /\ UNCHANGED <<thread, flush, calls>>

(* The part of OnAssocReq that is done before the request is looked at.    *)
AssocState(t, mfp) ==
  [t EXCEPT !.state = (@ \ {IF "AUTH_SUCCESS" \in @ THEN "AUTH_SUCCESS" ELSE "ASSOC_SUCCESS"})
                         \cup {"ASSOC_STATE"},
            !.mfp = @ \/ mfp]

(* ... and what is done when it is good and the station has an identifier: *)
(* an unprotected station joins the associated ones, a protected one is    *)
(* asked whether it sent this (SA Query).                                  *)
Associated(d, s) ==
  LET t == [d.sta[s] EXCEPT !.state = (@ \ {"ASSOC_STATE"}) \cup {"ASSOC_SUCCESS"}]
      u == [t EXCEPT !.state = @ \cup {"ASOC"},
                     !.expire_to = IF s \in d.asoc_list THEN @ ELSE ExpireTo] IN
    IF Protected(t) THEN [d EXCEPT !.sta[s] = [t EXCEPT !.dot11w_expire_timer = TRUE]]
    ELSE [d EXCEPT !.auth_list = @ \ {s}, !.asoc_list = @ \cup {s}, !.sta[s] = u]

WithAid(d, s) == IF d.sta[s].aid > 0 THEN d ELSE rtw_aid_alloc(d, s)

(* A refused request leaves the station where it was.                      *)
OnAssocReq(m, good, mfp) ==
  /\ FromStation(1)
  /\ \E s \in Found(db, m) :
       LET d == [db EXCEPT !.sta[s] = AssocState(@, mfp)] IN
         /\ db.sta[s].state \cap {"AUTH_SUCCESS", "ASSOC_SUCCESS"} # {}
         /\ db' = IF ~good THEN d
                  ELSE IF WithAid(d, s).sta[s].aid = 0 THEN d
                  ELSE Associated(WithAid(d, s), s)
  /\ UNCHANGED <<thread, flush, calls>>

OnDeAuth(m) ==
  /\ FromStation(1)
  /\ \E s \in Found(db, m) \cap db.asoc_list : db' \in RemoveAssociated(s)
  /\ UNCHANGED <<thread, flush, calls>>

OnDisassoc(m) == OnDeAuth(m)

(* The answer to an SA Query.                                              *)
OnAction_sa_query(m) ==
  /\ FromStation(1)
  /\ \E s \in Found(db, m) :
       /\ db.sta[s].dot11w_expire_timer
       /\ db' = [db EXCEPT !.sta[s].dot11w_expire_timer = FALSE]
  /\ UNCHANGED <<thread, flush, calls>>

-----------------------------------------------------------------------------
(* Timers.                                                                 *)

(* An SA Query without answer.  Without memory the event is lost; the      *)
(* station then stays.                                                     *)
sa_query_timer_hdl(s) ==
  /\ db.sta[s].dot11w_expire_timer
  /\ \E d \in {db, [db EXCEPT !.events = Append(@, [type |-> "TIMEOUT", mac |-> db.sta[s].mac])]} :
       db' = [d EXCEPT !.sta[s].dot11w_expire_timer = FALSE]
  /\ UNCHANGED <<thread, flush, frames, calls>>

(* The periodic check is a command; one at a time is enough here.          *)
rtw_dynamic_check_timer ==
  /\ ~ \E i \in DOMAIN db.events : db.events[i].type = "CHK"
  /\ db' = [db EXCEPT !.events = Append(@, [type |-> "CHK", mac |-> None])]
  /\ UNCHANGED <<thread, flush, frames, calls>>

-----------------------------------------------------------------------------
(* cfg80211.                                                               *)

Called == calls < MaxCalls /\ calls' = calls + 1

(* The pairwise key of a station, at the end of the handshake.             *)
rtw_cfg80211_ap_set_encryption(m) ==
  /\ Called
  /\ \E s \in Found(db, m) : db' = [db EXCEPT !.sta[s].bpairwise_key_installed = TRUE]
  /\ UNCHANGED <<thread, flush, frames>>

(* SAE is done in user space.                                              *)
rtw_cfg80211_external_auth_status(m) ==
  /\ Called
  /\ \E s \in Found(db, m) :
       db' = [db EXCEPT !.sta[s].state = (@ \ {"AUTH_NULL"}) \cup {"AUTH_SUCCESS"},
                        !.sta[s].expire_to = AssocTo]
  /\ UNCHANGED <<thread, flush, frames>>

cfg80211_rtw_del_station(m) ==
  /\ Called
  /\ \E s \in db.asoc_list : db.sta[s].mac = m /\ db' \in RemoveAssociated(s)
  /\ UNCHANGED <<thread, flush, frames>>

(* Without an address all: they are taken off the list under its lock ...  *)
rtw_sta_flush ==
  /\ Called /\ flush = {} /\ db.asoc_list # {}
  /\ flush' = db.asoc_list /\ db' = [db EXCEPT !.asoc_list = {}]
  /\ UNCHANGED <<thread, frames>>

(* ... and removed by slot number afterwards.                              *)
rtw_sta_flush_free(s) ==
  /\ s \in flush /\ flush' = flush \ {s}
  /\ db' \in ap_free_sta(db, s, TRUE)
  /\ UNCHANGED <<thread, frames, calls>>

-----------------------------------------------------------------------------
(* The command thread.                                                     *)

Taken == [db EXCEPT !.events = Tail(@)]
Takes(type) == cpc = "idle" /\ db.events # <<>> /\ Head(db.events).type = type

stadel_event ==
  /\ Takes("DEL")
  /\ db' = rtw_stadel_event_callback(Taken, Head(db.events).mac)
  /\ UNCHANGED <<thread, flush, frames, calls>>

rtw_sta_timeout_event_callback ==
  /\ Takes("TIMEOUT")
  /\ LET on == Found(db, Head(db.events).mac) \cap db.asoc_list IN
       IF on = {} THEN db' = Taken
       ELSE \E s \in on : db' \in ap_free_sta([Taken EXCEPT !.asoc_list = @ \ {s}], s, TRUE)
  /\ UNCHANGED <<thread, flush, frames, calls>>

(* expire_timeout_chk: under auth_list_lock the waiting stations age and   *)
(* those whose time is over are remembered ...                             *)
Waited(d, s) ==
  IF s \in d.auth_list /\ d.sta[s].expire_to > 0 THEN [d.sta[s] EXCEPT !.expire_to = @ - 1]
  ELSE d.sta[s]

expire_auth_list ==
  /\ Takes("CHK")
  /\ db' = [Taken EXCEPT !.sta = [s \in Slots |-> Waited(db, s)]]
  /\ chk' = {s \in db.auth_list : db.sta[s].expire_to = 1} /\ cpc' = "flush"
  /\ UNCHANGED <<del, flush, frames, calls>>

(* ... and freed by slot number without the lock.                          *)
expire_flush(s) ==
  /\ cpc = "flush" /\ s \in chk /\ chk' = chk \ {s}
  /\ db' = rtw_free_stainfo(db, s)
  /\ UNCHANGED <<cpc, del, flush, frames, calls>>

Aged_Below(t, alive) ==  \* mutant: a counter at 0 is not started again
  IF alive THEN [t EXCEPT !.expire_to = ExpireTo, !.keep_alive_trycnt = 0]
  ELSE [t EXCEPT !.expire_to = @ - 1]

Aged(t, alive) ==
  IF alive \/ t.expire_to = 0 THEN [t EXCEPT !.expire_to = ExpireTo, !.keep_alive_trycnt = 0]
  ELSE [t EXCEPT !.expire_to = @ - 1]

(* Under asoc_list_lock the associated ones age; alive sent something      *)
(* since the last check.                                                   *)
expire_asoc_list(alive) ==
  /\ cpc = "flush" /\ chk = {} /\ FromStation(Cardinality(alive))
  /\ db' = [db EXCEPT !.sta = [s \in Slots |->
              IF s \in db.asoc_list THEN Aged(db.sta[s], s \in alive) ELSE db.sta[s]]]
  /\ chk' = {s \in db.asoc_list : Aged(db.sta[s], s \in alive).expire_to = 0}
  /\ cpc' = "check"
  /\ UNCHANGED <<del, flush, calls>>

(* The check loop asks each of them and waits for the acknowledgement: one *)
(* that does not answer KeepAlive times is taken off asoc_list ...         *)
issue_aka_chk_frame(s, answers) ==
  /\ cpc = "check" /\ s \in chk /\ chk' = chk \ {s}
  /\ IF "ASOC" \notin db.sta[s].state
     THEN ~answers /\ UNCHANGED <<db, del, frames>>
     ELSE IF answers
     THEN /\ FromStation(1) /\ UNCHANGED del
          /\ db' = [db EXCEPT !.sta[s].expire_to = ExpireTo, !.sta[s].keep_alive_trycnt = 0]
     ELSE /\ UNCHANGED frames
          /\ IF db.sta[s].keep_alive_trycnt < KeepAlive
             THEN /\ db' = [db EXCEPT !.sta[s].expire_to = 1, !.sta[s].keep_alive_trycnt = @ + 1]
                  /\ UNCHANGED del
             ELSE /\ db' = [db EXCEPT !.sta[s].keep_alive_trycnt = 0, !.asoc_list = @ \ {s}]
                  /\ del' = del \cup {s}
  /\ UNCHANGED <<cpc, flush, calls>>

(* ... and the delete loop removes it at once.                             *)
expire_delete(s) ==
  /\ cpc = "check" /\ chk = {} /\ s \in del /\ del' = del \ {s}
  /\ db' \in ap_free_sta(db, s, FALSE)
  /\ UNCHANGED <<cpc, chk, flush, frames, calls>>

expire_done ==
  /\ cpc = "check" /\ chk = {} /\ del = {} /\ cpc' = "idle"
  /\ UNCHANGED <<db, chk, del, flush, frames, calls>>

-----------------------------------------------------------------------------
Init ==
  /\ db = [sta |-> [s \in Slots |-> NoSta(None)], hash |-> {}, free |-> [s \in Slots |-> s],
           auth_list |-> {}, asoc_list |-> {}, sta_aid |-> [a \in Aids |-> None],
           started_aid |-> 1, events |-> <<>>, lost |-> {}, corrupt |-> FALSE]
  /\ cpc = "idle" /\ chk = {} /\ del = {} /\ flush = {} /\ frames = 0 /\ calls = 0

Tasklet ==
  \E m \in Macs :
    \/ \E alg \in {"open", "sae"}, seq \in {1, 2} : OnAuth(m, alg, seq)
    \/ \E good, mfp \in BOOLEAN : OnAssocReq(m, good, mfp)
    \/ OnDeAuth(m)
    \/ OnDisassoc(m)
    \/ OnAction_sa_query(m)

Timers ==
  \/ \E s \in Slots : sa_query_timer_hdl(s)
  \/ rtw_dynamic_check_timer

Cfg80211 ==
  \/ \E m \in Macs : \/ rtw_cfg80211_ap_set_encryption(m)
                     \/ rtw_cfg80211_external_auth_status(m)
                     \/ cfg80211_rtw_del_station(m)
  \/ rtw_sta_flush
  \/ \E s \in Slots : rtw_sta_flush_free(s)

CmdThread ==
  \/ stadel_event
  \/ rtw_sta_timeout_event_callback
  \/ expire_auth_list
  \/ \E s \in Slots : expire_flush(s) \/ expire_delete(s)
  \/ \E alive \in SUBSET db.asoc_list : expire_asoc_list(alive)
  \/ \E s \in Slots, answers \in BOOLEAN : issue_aka_chk_frame(s, answers)
  \/ expire_done

Next == ~db.corrupt /\ (Tasklet \/ Timers \/ Cfg80211 \/ CmdThread)

Spec == Init /\ [][Next]_vars

(* The thread runs while it has work, the timers fire, and a call of       *)
(* cfg80211 that was begun goes on.  Stations owe nothing.                 *)
Fairness ==
  /\ WF_vars(~db.corrupt /\ CmdThread)
  /\ WF_vars(~db.corrupt /\ rtw_dynamic_check_timer)
  /\ WF_vars(~db.corrupt /\ \E s \in Slots : rtw_sta_flush_free(s))

FairSpec == Spec /\ Fairness

-----------------------------------------------------------------------------
States == {"AUTH_NULL", "AUTH_SUCCESS", "ASSOC_STATE", "ASSOC_SUCCESS", "ASOC"}

Sta == [mac : Macs \cup {None}, state : SUBSET States, auth_seq : {0, 2}, aid : 0..MaxAid,
        expire_to : Nat, keep_alive_trycnt : 0..KeepAlive, mfp : BOOLEAN,
        bpairwise_key_installed : BOOLEAN, dot11w_expire_timer : BOOLEAN]

Event == [type : {"DEL", "TIMEOUT", "CHK"}, mac : Macs \cup {None}]

Db == [sta : [Slots -> Sta], hash : SUBSET Slots, free : Seq(Slots),
       auth_list : SUBSET Slots, asoc_list : SUBSET Slots,
       sta_aid : [Aids -> Slots \cup {None}], started_aid : Aids,
       events : Seq(Event), lost : SUBSET Slots, corrupt : BOOLEAN]

(* Every variable stays in its set: in particular no counter of a station  *)
(* passes its end.                                                         *)
TypeOK ==
  /\ db \in Db /\ cpc \in {"idle", "flush", "check"}
  /\ chk \subseteq Slots /\ del \subseteq Slots /\ flush \subseteq Slots
  /\ frames \in 0..MaxFrames /\ calls \in 0..MaxCalls

(* An identifier belongs to one station of the hash table and no station   *)
(* that is gone holds one, although stations are freed from three contexts *)
(* and a slot may be given back in the middle of another one's work; and   *)
(* unless they are handed out round robin no more than max_num_sta are     *)
(* held, whatever the order in which they come back.                       *)
AidsMatch ==
  /\ \A s \in db.hash : db.sta[s].aid # 0 => db.sta_aid[db.sta[s].aid] = s
  /\ \A a \in Aids : db.sta_aid[a] # None =>
       db.sta_aid[a] \in db.hash /\ db.sta[db.sta_aid[a]].aid = a
  /\ \A s \in db.hash \cap db.asoc_list : db.sta[s].aid # 0
  /\ ~RrAid => Cardinality({a \in Aids : db.sta_aid[a] # None}) <= MaxNumSta

(* A station of the hash table always has something coming that removes    *)
(* it: it is on one of the lists the check ages, in the hands of a loop    *)
(* that took it off one, or named by a queued event.  Otherwise its slot,  *)
(* identifier and hardware entry would never be given back.                *)
NoStationForgotten ==
  \A s \in db.hash :
    \/ s \in db.auth_list \cup db.asoc_list \cup del \cup flush
    \/ \E i \in DOMAIN db.events : db.events[i] = [type |-> "DEL", mac |-> db.sta[s].mac]
    \/ s \in db.lost

(* A station that falls silent is removed, wherever in its life it is.     *)
StationsLeave ==
  \A s \in Slots : s \in db.hash ~> s \notin db.hash \/ s \in db.lost \/ db.corrupt
=============================================================================
