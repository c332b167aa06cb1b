---------------------------- MODULE ApStaProofs ----------------------------
(***************************************************************************)
(* Theorems about the stations of an access point, for every size of the   *)
(* pool, every number of identifiers and every limit: the types, that      *)
(* identifiers and stations match, and that no station is forgotten. The   *)
(* lemmas follow the functions that change the table, innermost first.     *)
(* What makes the two invariants inductive is what the functions rely on   *)
(* without saying so: an address is in the hash table once, and a slot of  *)
(* the free queue is there once and not in the hash table - as long as no  *)
(* list is broken.                                                         *)
(***************************************************************************)
EXTENDS ApSta, FiniteSetTheorems, TLAPS

Aid(d) ==
  /\ \A s \in d.hash : d.sta[s].aid # 0 => d.sta_aid[d.sta[s].aid] = s
  /\ \A a \in Aids : d.sta_aid[a] # None =>
       d.sta_aid[a] \in d.hash /\ d.sta[d.sta_aid[a]].aid = a
  /\ \A s \in d.hash \cap d.asoc_list : d.sta[s].aid # 0
  /\ ~RrAid => d.started_aid = 1 /\ \A a \in Aids : d.sta_aid[a] # None => a <= MaxNumSta

Unique(d) == \A s, t \in d.hash : d.sta[s].mac = d.sta[t].mac => s = t

Pool(d) ==
  ~d.corrupt =>
    /\ \A i \in 1..Len(d.free) : d.free[i] \notin d.hash
    /\ \A i, j \in 1..Len(d.free) : d.free[i] = d.free[j] => i = j

Table(d) == d \in Db /\ Aid(d) /\ Unique(d) /\ Pool(d)

DelQueued(d, m) == \E i \in DOMAIN d.events : d.events[i] = [type |-> "DEL", mac |-> m]

(* s is on a list, held by a loop (held), named by an event or lost.       *)
Watched(d, held, s) ==
  \/ s \in d.auth_list \cup d.asoc_list \cup held
  \/ DelQueued(d, d.sta[s].mac)
  \/ s \in d.lost

Good(d, held) == Table(d) /\ \A s \in d.hash : Watched(d, held, s)

Inv == TypeOK /\ Good(db, del \cup flush)

-----------------------------------------------------------------------------
(* What changes neither addresses nor identifiers keeps the table.         *)
LEMMA TableKept ==
  ASSUME NEW d \in Db, NEW e \in Db, Table(d),
         e.hash = d.hash, e.free = d.free, e.sta_aid = d.sta_aid,
         e.started_aid = d.started_aid, e.corrupt = d.corrupt,
         \A s \in d.hash : e.sta[s].mac = d.sta[s].mac /\ e.sta[s].aid = d.sta[s].aid,
         \A s \in d.hash \cap e.asoc_list : s \in d.asoc_list \/ d.sta[s].aid # 0
  PROVE  Table(e)
<1>1. Aid(e)
  <2>1. \A s \in d.hash : d.sta[s].aid # 0 => d.sta_aid[d.sta[s].aid] = s
    BY DEF Table, Aid
  <2>2. \A a \in Aids : d.sta_aid[a] # None =>
           d.sta_aid[a] \in d.hash /\ d.sta[d.sta_aid[a]].aid = a
    BY DEF Table, Aid
  <2>3. \A s \in e.hash \cap e.asoc_list : e.sta[s].aid # 0
    BY DEF Table, Aid
  <2>4. ~RrAid => d.started_aid = 1 /\ \A a \in Aids : d.sta_aid[a] # None => a <= MaxNumSta
    BY DEF Table, Aid
  <2> QED
    BY <2>1, <2>2, <2>3, <2>4 DEF Aid
<1>2. Unique(e)
  BY DEF Table, Unique
<1>3. Pool(e)
  BY DEF Table, Pool
<1> QED
  BY <1>1, <1>2, <1>3 DEF Table

(* One field of the record of a station is changed.                        *)
LEMMA StaKept ==
  ASSUME NEW d \in Db, NEW s \in Slots, NEW t \in Sta, Table(d),
         t.mac = d.sta[s].mac, t.aid = d.sta[s].aid
  PROVE  Table([d EXCEPT !.sta[s] = t])
<1> DEFINE e == [d EXCEPT !.sta[s] = t]
<1>1. e \in Db
  BY DEF Db
<1>2. /\ e.hash = d.hash /\ e.free = d.free /\ e.sta_aid = d.sta_aid
      /\ e.started_aid = d.started_aid /\ e.corrupt = d.corrupt /\ e.asoc_list = d.asoc_list
  BY DEF Db
<1>3. \A x \in d.hash : e.sta[x].mac = d.sta[x].mac /\ e.sta[x].aid = d.sta[x].aid
  BY DEF Db
<1> HIDE DEF e
<1>4. Table(e)
  BY <1>1, <1>2, <1>3, TableKept
<1> QED
  BY <1>4 DEF e

-----------------------------------------------------------------------------
(* What rtw_free_stainfo does, field by field.                             *)
LEMMA FreeFields ==
  ASSUME NEW d \in Db, NEW s \in Slots
  PROVE  LET e == rtw_free_stainfo(d, s) IN
           /\ e \in Db
           /\ e.hash = d.hash \ {s} /\ e.auth_list = d.auth_list \ {s}
           /\ e.asoc_list = d.asoc_list /\ e.free = Append(d.free, s)
           /\ e.started_aid = d.started_aid /\ e.events = d.events /\ e.lost = d.lost
           /\ e.corrupt = (d.corrupt \/ s \notin d.hash)
           /\ \A a \in Aids : e.sta_aid[a] =
                IF a = d.sta[s].aid /\ d.sta_aid[a] = s THEN None ELSE d.sta_aid[a]
           /\ \A x \in Slots \ {s} : e.sta[x] = d.sta[x]
<1> DEFINE aids == [a \in Aids |-> IF a = d.sta[s].aid /\ d.sta_aid[a] = s THEN None
                                   ELSE d.sta_aid[a]]
           e == [d EXCEPT !.hash = @ \ {s}, !.auth_list = @ \ {s}, !.free = Append(@, s),
                          !.sta_aid = aids, !.sta[s] = Gone(@), !.corrupt = @ \/ s \notin d.hash]
<1>1. Gone(d.sta[s]) \in Sta
  <2>1. d.sta[s] \in Sta
    BY DEF Db
  <2>2. 0 \in 0..MaxAid
    BY ConstantsAreUsable DEF ConstantsAreUsable
  <2> QED
    BY <2>1, <2>2 DEF Sta, Gone
<1>2. aids \in [Aids -> Slots \cup {None}]
  BY DEF Db
<1>3. Append(d.free, s) \in Seq(Slots)
  BY DEF Db
<1>4. rtw_free_stainfo(d, s) = e
  BY DEF rtw_free_stainfo
<1> HIDE DEF aids
<1>5. /\ e \in Db
      /\ e.hash = d.hash \ {s} /\ e.auth_list = d.auth_list \ {s}
      /\ e.asoc_list = d.asoc_list /\ e.free = Append(d.free, s)
      /\ e.started_aid = d.started_aid /\ e.events = d.events /\ e.lost = d.lost
      /\ e.corrupt = (d.corrupt \/ s \notin d.hash)
      /\ e.sta_aid = aids /\ \A x \in Slots \ {s} : e.sta[x] = d.sta[x]
  BY <1>1, <1>2, <1>3 DEF Db
<1> HIDE DEF e
<1> QED
  BY <1>4, <1>5 DEF aids

(* ... so it keeps the table, and whoever was watched is still watched.    *)
LEMMA FreeTable ==
  ASSUME NEW d \in Db, NEW s \in Slots, Table(d)
  PROVE  Table(rtw_free_stainfo(d, s))
<1> DEFINE e == rtw_free_stainfo(d, s)
<1>1. /\ e \in Db
      /\ e.hash = d.hash \ {s} /\ e.asoc_list = d.asoc_list /\ e.free = Append(d.free, s)
      /\ e.started_aid = d.started_aid
      /\ e.corrupt = (d.corrupt \/ s \notin d.hash)
      /\ \A a \in Aids : e.sta_aid[a] =
           IF a = d.sta[s].aid /\ d.sta_aid[a] = s THEN None ELSE d.sta_aid[a]
      /\ \A x \in Slots \ {s} : e.sta[x] = d.sta[x]
  BY FreeFields
<1> HIDE DEF e
<1>2. d.hash \subseteq Slots /\ \A x \in d.hash : d.sta[x].aid \in {0} \cup Aids
  BY ConstantsAreUsable DEF Db, Sta, Aids, ConstantsAreUsable
<1>3. \A x \in e.hash : e.sta[x] = d.sta[x] /\ x # s /\ x \in d.hash
  BY <1>1, <1>2
<1>4. Aid(e)
  <2>1. \A x \in e.hash : e.sta[x].aid # 0 => e.sta_aid[e.sta[x].aid] = x
    BY <1>1, <1>2, <1>3 DEF Table, Aid
  <2>2. ASSUME NEW a \in Aids, e.sta_aid[a] # None
        PROVE  e.sta_aid[a] \in e.hash /\ e.sta[e.sta_aid[a]].aid = a
    <3>1. e.sta_aid[a] = d.sta_aid[a] /\ ~(a = d.sta[s].aid /\ d.sta_aid[a] = s)
      BY <1>1, <2>2
    <3>2. d.sta_aid[a] \in d.hash /\ d.sta[d.sta_aid[a]].aid = a
      BY <2>2, <3>1 DEF Table, Aid
    <3>3. d.sta_aid[a] # s
      BY <3>1, <3>2
    <3> QED
      BY <1>1, <1>2, <3>1, <3>2, <3>3
  <2>3. \A x \in e.hash \cap e.asoc_list : e.sta[x].aid # 0
    BY <1>1, <1>3 DEF Table, Aid
  <2>4. ~RrAid => e.started_aid = 1 /\ \A a \in Aids : e.sta_aid[a] # None => a <= MaxNumSta
    BY <1>1 DEF Table, Aid
  <2> QED
    BY <2>1, <2>2, <2>3, <2>4 DEF Aid
<1>5. Unique(e)
  BY <1>3 DEF Table, Unique
<1>6. Pool(e)
  <2>1. SUFFICES ASSUME ~e.corrupt
                 PROVE  /\ \A i \in 1..Len(e.free) : e.free[i] \notin e.hash
                        /\ \A i, j \in 1..Len(e.free) : e.free[i] = e.free[j] => i = j
    BY DEF Pool
  <2>2. ~d.corrupt /\ s \in d.hash
    BY <1>1, <2>1
  <2>3. /\ \A i \in 1..Len(d.free) : d.free[i] \notin d.hash
        /\ \A i, j \in 1..Len(d.free) : d.free[i] = d.free[j] => i = j
    BY <2>2 DEF Table, Pool
  <2>4. /\ d.free \in Seq(Slots) /\ Len(d.free) \in Nat /\ Len(e.free) = Len(d.free) + 1
        /\ e.free[Len(d.free) + 1] = s
        /\ \A i \in 1..Len(d.free) : e.free[i] = d.free[i]
    BY <1>1 DEF Db
  <2>5. \A i \in 1..Len(e.free) : i \in 1..Len(d.free) \/ i = Len(d.free) + 1
    BY <2>4
  <2>6. \A i \in 1..Len(e.free) : e.free[i] \notin e.hash
    BY <1>1, <2>3, <2>4, <2>5
  <2>7. \A i \in 1..Len(d.free) : e.free[i] # s
    BY <2>2, <2>3, <2>4
  <2> QED
    BY <2>3, <2>4, <2>5, <2>6, <2>7
<1>7. Table(e)
  BY <1>1, <1>4, <1>5, <1>6 DEF Table
<1> QED
  BY <1>7 DEF e

LEMMA FreeWatched ==
  ASSUME NEW d \in Db, NEW s \in Slots, NEW held, NEW x \in d.hash, x # s,
         Watched(d, held, x)
  PROVE  Watched(rtw_free_stainfo(d, s), held, x)
<1> DEFINE e == rtw_free_stainfo(d, s)
<1>1. /\ e.auth_list = d.auth_list \ {s} /\ e.asoc_list = d.asoc_list
      /\ e.events = d.events /\ e.lost = d.lost /\ e.sta[x] = d.sta[x]
  BY FreeFields DEF Db
<1> HIDE DEF e
<1>2. Watched(e, held, x)
  BY <1>1 DEF Watched, DelQueued
<1> QED
  BY <1>2 DEF e

LEMMA FreeGood ==
  ASSUME NEW d \in Db, NEW s \in Slots, NEW held, Good(d, held)
  PROVE  Good(rtw_free_stainfo(d, s), held)
<1>1. rtw_free_stainfo(d, s).hash = d.hash \ {s}
  BY FreeFields
<1> QED
  BY <1>1, FreeTable, FreeWatched DEF Good

-----------------------------------------------------------------------------
(* A step that leaves the hash table alone.                                *)
LEMMA GoodKept ==
  ASSUME NEW d, NEW e \in Db, NEW held, NEW keeps, Good(d, held),
         e.hash = d.hash, e.free = d.free, e.sta_aid = d.sta_aid,
         e.started_aid = d.started_aid, e.corrupt = d.corrupt,
         \A s \in d.hash : e.sta[s].mac = d.sta[s].mac /\ e.sta[s].aid = d.sta[s].aid,
         \A s \in d.hash \cap e.asoc_list : s \in d.asoc_list \/ d.sta[s].aid # 0,
         \A s \in d.hash : Watched(d, held, s) => Watched(e, keeps, s)
  PROVE  Good(e, keeps)
<1>1. d \in Db
  BY DEF Good, Table
<1>2. Table(e)
  BY <1>1, TableKept DEF Good
<1> QED
  BY <1>2 DEF Good

LEMMA StaGood ==
  ASSUME NEW d, NEW s \in Slots, NEW t \in Sta, NEW held, Good(d, held),
         t.mac = d.sta[s].mac, t.aid = d.sta[s].aid
  PROVE  Good([d EXCEPT !.sta[s] = t], held)
<1> DEFINE e == [d EXCEPT !.sta[s] = t]
<1>0. d \in Db
  BY DEF Good, Table
<1>1. e \in Db
  BY <1>0 DEF Db
<1>2. /\ e.hash = d.hash /\ e.free = d.free /\ e.sta_aid = d.sta_aid
      /\ e.started_aid = d.started_aid /\ e.corrupt = d.corrupt
      /\ e.asoc_list = d.asoc_list /\ e.auth_list = d.auth_list
      /\ e.events = d.events /\ e.lost = d.lost
  BY <1>0 DEF Db
<1>3. \A x \in Slots : e.sta[x].mac = d.sta[x].mac /\ e.sta[x].aid = d.sta[x].aid
  BY <1>0 DEF Db
<1>4. d.hash \subseteq Slots
  BY <1>0 DEF Db
<1> HIDE DEF e
<1>5. \A x \in d.hash : Watched(d, held, x) => Watched(e, held, x)
  BY <1>2, <1>3, <1>4 DEF Watched, DelQueued
<1>6. Good(e, held)
  BY <1>1, <1>2, <1>3, <1>4, <1>5, GoodKept
<1> QED
  BY <1>6 DEF e

-----------------------------------------------------------------------------
(* OnAuth.                                                                 *)
LEMMA AuthListGood ==
  ASSUME NEW d, NEW held, Good(d, held), NEW s \in d.hash
  PROVE  Good(IntoAuthList(d, s), held) /\ IntoAuthList(d, s).hash = d.hash
<1> DEFINE e == [d EXCEPT !.asoc_list = @ \ {s}, !.auth_list = @ \cup {s}]
<1>0. d \in Db
  BY DEF Good, Table
<1>1. e \in Db
  BY <1>0 DEF Db
<1>2. /\ e.hash = d.hash /\ e.free = d.free /\ e.sta_aid = d.sta_aid /\ e.sta = d.sta
      /\ e.started_aid = d.started_aid /\ e.corrupt = d.corrupt
      /\ e.asoc_list = d.asoc_list \ {s} /\ e.auth_list = d.auth_list \cup {s}
      /\ e.events = d.events /\ e.lost = d.lost
  BY <1>0 DEF Db
<1>3. IntoAuthList(d, s) = d \/ IntoAuthList(d, s) = e
  BY DEF IntoAuthList
<1> HIDE DEF e
<1>4. \A x \in d.hash : Watched(d, held, x) => Watched(e, held, x)
  BY <1>2 DEF Watched, DelQueued
<1>5. Good(e, held)
  BY <1>1, <1>2, <1>4, GoodKept
<1> QED
  BY <1>2, <1>3, <1>5

(* A station that was not known: whatever list its slot was left on, it is *)
(* on auth_list afterwards, and only there.                                *)
LEMMA AllocGood ==
  ASSUME NEW d, NEW held, Good(d, held), ~d.corrupt, NEW m \in Macs,
         Found(d, m) = {}, d.free # <<>>, NEW s \in Found(rtw_alloc_stainfo(d, m), m)
  PROVE  LET e == IntoAuthList(rtw_alloc_stainfo(d, m), s) IN Good(e, held) /\ s \in e.hash
<1> DEFINE h == Head(d.free)
           t == [NoSta(m) EXCEPT !.state = {"AUTH_NULL"}]
           a == rtw_alloc_stainfo(d, m)
           e == IntoAuthList(a, s)
<1>0. d \in Db /\ Table(d)
  BY DEF Good, Table
<1>1. h \in Slots /\ Len(d.free) \in Nat \ {0} /\ h = d.free[1] /\ 1 \in 1..Len(d.free)
  BY <1>0 DEF Db
<1>2. h \notin d.hash
  BY <1>0, <1>1 DEF Table, Pool
<1>3. t \in Sta /\ t.mac = m /\ t.aid = 0 /\ ~Protected(t)
  <2>1. 0 \in 0..MaxAid /\ 0 \in 0..KeepAlive
    BY ConstantsAreUsable DEF ConstantsAreUsable
  <2> QED
    BY <2>1 DEF NoSta, Sta, States, Protected
<1>4. Tail(d.free) \in Seq(Slots)
  BY <1>0, <1>1 DEF Db
<1> HIDE DEF t
<1>5. /\ a \in Db
      /\ a.hash = d.hash \cup {h} /\ a.free = Tail(d.free) /\ a.sta_aid = d.sta_aid
      /\ a.sta = [d.sta EXCEPT ![h] = t] /\ a.started_aid = d.started_aid
      /\ a.asoc_list = d.asoc_list /\ a.auth_list = d.auth_list
      /\ a.events = d.events /\ a.lost = d.lost \ {h}
  BY <1>0, <1>1, <1>3, <1>4 DEF rtw_alloc_stainfo, Db, t
<1> HIDE DEF a
<1>6. /\ d.hash \subseteq Slots /\ a.sta[h] = t
      /\ \A x \in d.hash : a.sta[x] = d.sta[x] /\ x # h
  BY <1>0, <1>1, <1>2, <1>5 DEF Db
<1>7. s = h
  <2>1. s \in a.hash /\ a.sta[s].mac = m
    BY DEF Found, a
  <2> QED
    BY <2>1, <1>5, <1>6 DEF Found
<1>8. e = [a EXCEPT !.asoc_list = @ \ {h}, !.auth_list = @ \cup {h}]
  BY <1>3, <1>6, <1>7 DEF IntoAuthList
<1>9. /\ e \in Db /\ e.hash = d.hash \cup {h} /\ e.free = Tail(d.free)
      /\ e.sta_aid = d.sta_aid /\ e.sta = a.sta /\ e.started_aid = d.started_aid
      /\ e.asoc_list = d.asoc_list \ {h} /\ e.auth_list = d.auth_list \cup {h}
      /\ e.events = d.events /\ e.lost = d.lost \ {h}
  BY <1>1, <1>5, <1>8 DEF Db
<1> HIDE DEF e, h
<1>10. Aid(e)
  BY <1>0, <1>3, <1>6, <1>9 DEF Table, Aid
<1>11. Unique(e)
  <2>1. \A x \in d.hash : d.sta[x].mac # m
    BY DEF Found
  <2> QED
    BY <2>1, <1>0, <1>3, <1>6, <1>9 DEF Table, Unique
<1>12. Pool(e)
  <2>1. /\ \A i \in 1..Len(d.free) : d.free[i] \notin d.hash
        /\ \A i, j \in 1..Len(d.free) : d.free[i] = d.free[j] => i = j
    BY <1>0 DEF Table, Pool
  <2>2. d.free \in Seq(Slots)
    BY <1>0 DEF Db
  <2>3. /\ Len(e.free) = Len(d.free) - 1
        /\ \A i \in 1..Len(e.free) : e.free[i] = d.free[i + 1]
    BY <1>1, <1>9, <2>2
  <2>4. \A i \in 1..Len(e.free) : i + 1 \in 1..Len(d.free) /\ i + 1 # 1
    BY <1>1, <2>3
  <2>5. \A i \in 1..Len(e.free) : e.free[i] \notin e.hash
    BY <1>1, <1>9, <2>1, <2>3, <2>4
  <2>6. \A i, j \in 1..Len(e.free) : e.free[i] = e.free[j] => i = j
    <3>1. SUFFICES ASSUME NEW i \in 1..Len(e.free), NEW j \in 1..Len(e.free),
                          e.free[i] = e.free[j]
                   PROVE  i = j
      OBVIOUS
    <3>2. i + 1 = j + 1
      BY <2>1, <2>3, <2>4, <3>1
    <3> QED
      BY <3>2, <1>1, <2>3
  <2> QED
    BY <2>5, <2>6 DEF Pool
<1>13. \A x \in e.hash : Watched(e, held, x)
  BY <1>6, <1>9 DEF Good, Watched, DelQueued
<1> QED
  BY <1>7, <1>9, <1>10, <1>11, <1>12, <1>13 DEF Good, Table, e, a

LEMMA AuthTimerGood ==
  ASSUME NEW d, NEW held, Good(d, held), NEW s \in d.hash
  PROVE  Good(AuthTimer(d, s), held) /\ AuthTimer(d, s).hash = d.hash
<1> DEFINE t == [d.sta[s] EXCEPT !.expire_to = AuthTo]
<1>0. d \in Db /\ s \in Slots /\ d.sta[s] \in Sta
  BY DEF Good, Table, Db
<1>1. t \in Sta /\ t.mac = d.sta[s].mac /\ t.aid = d.sta[s].aid
  BY <1>0, ConstantsAreUsable DEF Sta, ConstantsAreUsable
<1>2. AuthTimer(d, s) = d \/ AuthTimer(d, s) = [d EXCEPT !.sta[s] = t]
  BY DEF AuthTimer
<1> HIDE DEF t
<1>3. [d EXCEPT !.sta[s] = t].hash = d.hash
  BY <1>0 DEF Db
<1>4. Good([d EXCEPT !.sta[s] = t], held)
  BY <1>0, <1>1, StaGood
<1> QED
  BY <1>2, <1>3, <1>4

LEMMA AuthenticatedGood ==
  ASSUME NEW d, NEW held, Good(d, held), NEW s \in d.hash, NEW alg, NEW seq
  PROVE  Good(Authenticated(d, s, alg, seq), held)
<1>0. d \in Db /\ s \in Slots /\ d.sta[s] \in Sta
  BY DEF Good, Table, Db
<1>1. /\ OpenAuth(d.sta[s]) \in Sta /\ OpenAuth(d.sta[s]).mac = d.sta[s].mac
      /\ OpenAuth(d.sta[s]).aid = d.sta[s].aid
  BY <1>0, ConstantsAreUsable DEF OpenAuth, Sta, States, ConstantsAreUsable
<1>2. Good([d EXCEPT !.sta[s] = OpenAuth(@)], held)
  BY <1>0, <1>1, StaGood
<1>3. Good(rtw_free_stainfo(d, s), held)
  BY <1>0, FreeGood
<1> QED
  BY <1>2, <1>3 DEF Authenticated

-----------------------------------------------------------------------------
(* OnAssocReq.  The search returns an identifier that is free; the limit   *)
(* holds because it starts at 1 each time.                                 *)
LEMMA AidFound ==
  ASSUME NEW d \in Db, NewAid(d) # 0
  PROVE  /\ NewAid(d) \in Aids /\ d.sta_aid[NewAid(d)] = None
         /\ d.started_aid = 1 => NewAid(d) <= MaxNumSta
<1>1. PICK i \in FirstFree(d) : i < MaxNumSta /\ NewAid(d) = SearchAid(d, i)
  BY DEF NewAid
<1>2. i \in 0..(MaxAid - 1) /\ d.sta_aid[SearchAid(d, i)] = None
  BY DEF FirstFree
<1>3. MaxAid \in Nat \ {0} /\ MaxNumSta \in Nat /\ d.started_aid \in 1..MaxAid
  BY ConstantsAreUsable DEF ConstantsAreUsable, Db, Aids
<1>4. SearchAid(d, i) \in Aids
  BY <1>2, <1>3 DEF SearchAid, Aids
<1>5. ASSUME d.started_aid = 1
      PROVE  SearchAid(d, i) = i + 1
  <2>1. i % MaxAid = i
    BY <1>2, <1>3
  <2>2. i + d.started_aid - 1 = i
    BY <1>2, <1>5
  <2> QED
    BY <2>1, <2>2 DEF SearchAid
<1>6. d.started_aid = 1 => NewAid(d) <= MaxNumSta
  BY <1>1, <1>2, <1>3, <1>5
<1> QED
  BY <1>1, <1>2, <1>4, <1>6

LEMMA AidAllocGood ==
  ASSUME NEW d, NEW held, Good(d, held), NEW s \in d.hash, d.sta[s].aid = 0
  PROVE  LET e == rtw_aid_alloc(d, s) IN Good(e, held) /\ e.hash = d.hash
<1>0. d \in Db /\ s \in Slots /\ d.sta[s] \in Sta /\ Table(d) /\ d.hash \subseteq Slots
  BY DEF Good, Table, Db
<1>1. CASE NewAid(d) = 0
  BY <1>1 DEF rtw_aid_alloc
<1>2. CASE NewAid(d) # 0
  <2> DEFINE a == NewAid(d)
             t == [d.sta[s] EXCEPT !.aid = a]
             n == IF RrAid THEN (a % MaxAid) + 1 ELSE d.started_aid
             e == [d EXCEPT !.sta[s] = t, !.sta_aid[a] = s, !.started_aid = n]
  <2>1. a \in Aids /\ d.sta_aid[a] = None /\ (d.started_aid = 1 => a <= MaxNumSta)
    BY <1>0, <1>2, AidFound
  <2>2. rtw_aid_alloc(d, s) = e
    BY <1>2 DEF rtw_aid_alloc
  <2> HIDE DEF a
  <2>3. t \in Sta /\ t.mac = d.sta[s].mac /\ t.aid = a
    BY <1>0, <2>1 DEF Sta, Aids
  <2>4. n \in Aids /\ (~RrAid => n = d.started_aid)
    <3>1. MaxAid \in Nat \ {0} /\ a \in 1..MaxAid /\ d.started_aid \in 1..MaxAid
      BY <1>0, <2>1, ConstantsAreUsable DEF ConstantsAreUsable, Db, Aids
    <3>2. a % MaxAid \in 0..(MaxAid - 1)
      BY <3>1
    <3> QED
      BY <3>1, <3>2 DEF Aids
  <2> HIDE DEF t, n
  <2>5. /\ e \in Db /\ e.hash = d.hash /\ e.free = d.free /\ e.corrupt = d.corrupt
        /\ e.sta = [d.sta EXCEPT ![s] = t] /\ e.sta_aid = [d.sta_aid EXCEPT ![a] = s]
        /\ e.started_aid = n /\ e.auth_list = d.auth_list /\ e.asoc_list = d.asoc_list
        /\ e.events = d.events /\ e.lost = d.lost
    BY <1>0, <2>1, <2>3, <2>4 DEF Db
  <2> HIDE DEF e
  <2>6. /\ e.sta[s] = t /\ \A x \in d.hash \ {s} : e.sta[x] = d.sta[x]
        /\ e.sta_aid[a] = s /\ \A b \in Aids \ {a} : e.sta_aid[b] = d.sta_aid[b]
    BY <1>0, <2>1, <2>5 DEF Db
  <2>7. \A x \in d.hash : d.sta[x].aid \in {0} \cup Aids
    BY <1>0, ConstantsAreUsable DEF Db, Sta, Aids, ConstantsAreUsable
  <2>8. \A x \in d.hash : d.sta[x].aid # 0 => d.sta[x].aid # a
    BY <1>0, <2>1 DEF Table, Aid, None, Slots
  <2>9. Aid(e)
    <3>1. \A x \in e.hash : e.sta[x].aid # 0 => e.sta_aid[e.sta[x].aid] = x
      BY <1>0, <2>3, <2>5, <2>6, <2>7, <2>8 DEF Table, Aid
    <3>2. \A b \in Aids : e.sta_aid[b] # None =>
             e.sta_aid[b] \in e.hash /\ e.sta[e.sta_aid[b]].aid = b
      <4>1. SUFFICES ASSUME NEW b \in Aids, e.sta_aid[b] # None
                     PROVE  e.sta_aid[b] \in e.hash /\ e.sta[e.sta_aid[b]].aid = b
        OBVIOUS
      <4>2. CASE b = a
        BY <4>2, <2>3, <2>5, <2>6
      <4>3. CASE b # a
        <5>1. d.sta_aid[b] \in d.hash /\ d.sta[d.sta_aid[b]].aid = b /\ b # 0
          BY <4>1, <4>3, <1>0, <2>6 DEF Table, Aid, Aids
        <5>2. d.sta_aid[b] # s
          BY <5>1
        <5> QED
          BY <5>1, <5>2, <4>3, <2>5, <2>6
      <4> QED
        BY <4>2, <4>3
    <3>3. \A x \in e.hash \cap e.asoc_list : e.sta[x].aid # 0
      BY <1>0, <2>1, <2>3, <2>5, <2>6 DEF Table, Aid, Aids
    <3>4. ~RrAid => e.started_aid = 1 /\ \A b \in Aids : e.sta_aid[b] # None => b <= MaxNumSta
      BY <1>0, <2>1, <2>4, <2>5, <2>6 DEF Table, Aid
    <3> QED
      BY <3>1, <3>2, <3>3, <3>4 DEF Aid
  <2>10. Unique(e)
    BY <1>0, <2>3, <2>5, <2>6 DEF Table, Unique
  <2>11. Pool(e)
    BY <1>0, <2>5 DEF Table, Pool
  <2>12. \A x \in d.hash : Watched(d, held, x) => Watched(e, held, x)
    BY <2>3, <2>5, <2>6 DEF Watched, DelQueued
  <2> QED
    BY <2>2, <2>5, <2>9, <2>10, <2>11, <2>12 DEF Good, Table
<1> QED
  BY <1>1, <1>2

LEMMA WithAidGood ==
  ASSUME NEW d, NEW held, Good(d, held), NEW s \in d.hash
  PROVE  Good(WithAid(d, s), held) /\ WithAid(d, s).hash = d.hash
<1>1. d.sta[s].aid \in Nat
  BY DEF Good, Table, Db, Sta
<1>2. CASE d.sta[s].aid > 0
  BY <1>2 DEF WithAid
<1>3. CASE d.sta[s].aid = 0
  <2>1. Good(rtw_aid_alloc(d, s), held) /\ rtw_aid_alloc(d, s).hash = d.hash
    BY <1>3, AidAllocGood
  <2>2. WithAid(d, s) = rtw_aid_alloc(d, s)
    BY <1>3 DEF WithAid
  <2> QED
    BY <2>1, <2>2
<1> QED
  BY <1>1, <1>2, <1>3

LEMMA AssocStateGood ==
  ASSUME NEW d, NEW held, Good(d, held), NEW s \in d.hash, NEW mfp \in BOOLEAN
  PROVE  LET e == [d EXCEPT !.sta[s] = AssocState(@, mfp)] IN Good(e, held) /\ e.hash = d.hash
<1> DEFINE t == AssocState(d.sta[s], mfp)
<1>0. d \in Db /\ s \in Slots /\ d.sta[s] \in Sta
  BY DEF Good, Table, Db
<1>1. t \in Sta /\ t.mac = d.sta[s].mac /\ t.aid = d.sta[s].aid
  BY <1>0 DEF AssocState, Sta, States
<1> HIDE DEF t
<1>2. Good([d EXCEPT !.sta[s] = t], held)
  BY <1>0, <1>1, StaGood
<1>3. [d EXCEPT !.sta[s] = t].hash = d.hash
  BY <1>0 DEF Db
<1> QED
  BY <1>2, <1>3 DEF t

(* Joining asoc_list takes an identifier.                                  *)
LEMMA AssociatedGood ==
  ASSUME NEW d, NEW held, Good(d, held), NEW s \in d.hash, d.sta[s].aid # 0
  PROVE  Good(Associated(d, s), held)
<1> DEFINE t == [d.sta[s] EXCEPT !.state = (@ \ {"ASSOC_STATE"}) \cup {"ASSOC_SUCCESS"}]
           u == [t EXCEPT !.state = @ \cup {"ASOC"},
                          !.expire_to = IF s \in d.asoc_list THEN @ ELSE ExpireTo]
           v == [t EXCEPT !.dot11w_expire_timer = TRUE]
           e == [d EXCEPT !.auth_list = @ \ {s}, !.asoc_list = @ \cup {s}, !.sta[s] = u]
<1>0. d \in Db /\ s \in Slots /\ d.sta[s] \in Sta
  BY DEF Good, Table, Db
<1>1. t \in Sta /\ t.mac = d.sta[s].mac /\ t.aid = d.sta[s].aid
  BY <1>0 DEF Sta, States
<1>2. Associated(d, s) = e \/ Associated(d, s) = [d EXCEPT !.sta[s] = v]
  BY DEF Associated
<1> HIDE DEF t
<1>3. u \in Sta /\ u.mac = t.mac /\ u.aid = t.aid
  BY <1>1, ConstantsAreUsable DEF Sta, States, ConstantsAreUsable
<1>4. v \in Sta /\ v.mac = t.mac /\ v.aid = t.aid
  BY <1>1 DEF Sta
<1> HIDE DEF u, v
<1>5. Good([d EXCEPT !.sta[s] = v], held)
  BY <1>0, <1>1, <1>4, StaGood
<1>6. /\ e \in Db /\ e.hash = d.hash /\ e.free = d.free /\ e.corrupt = d.corrupt
      /\ e.sta = [d.sta EXCEPT ![s] = u] /\ e.sta_aid = d.sta_aid
      /\ e.started_aid = d.started_aid /\ e.auth_list = d.auth_list \ {s}
      /\ e.asoc_list = d.asoc_list \cup {s} /\ e.events = d.events /\ e.lost = d.lost
  BY <1>0, <1>3 DEF Db
<1> HIDE DEF e
<1>7. \A x \in d.hash : e.sta[x].mac = d.sta[x].mac /\ e.sta[x].aid = d.sta[x].aid
  BY <1>0, <1>1, <1>3, <1>6 DEF Db
<1>8. \A x \in d.hash : Watched(d, held, x) => Watched(e, held, x)
  BY <1>6, <1>7 DEF Watched, DelQueued
<1>9. Good(e, held)
  BY <1>6, <1>7, <1>8, GoodKept
<1> QED
  BY <1>2, <1>5, <1>9

-----------------------------------------------------------------------------
(* Removal.  The event names a station by its address, and the address is  *)
(* in the table once: nobody loses the watch of another one.               *)
LEMMA DelGood ==
  ASSUME NEW d, NEW held, Table(d), NEW m,
         \A x \in d.hash : d.sta[x].mac # m => Watched(d, held, x)
  PROVE  Good(rtw_stadel_event_callback(d, m), held)
<1>0. d \in Db /\ d.hash \subseteq Slots
  BY DEF Table, Db
<1>1. CASE Found(d, m) = {}
  BY <1>1 DEF rtw_stadel_event_callback, Found, Good
<1>2. CASE Found(d, m) # {}
  <2>1. PICK s \in Found(d, m) : rtw_stadel_event_callback(d, m) = rtw_free_stainfo(d, s)
    BY <1>2 DEF rtw_stadel_event_callback
  <2>2. s \in d.hash /\ s \in Slots /\ d.sta[s].mac = m
    BY <1>0 DEF Found
  <2>3. \A x \in d.hash : x # s => d.sta[x].mac # m
    BY <2>2 DEF Table, Unique
  <2>4. Table(rtw_free_stainfo(d, s)) /\ rtw_free_stainfo(d, s).hash = d.hash \ {s}
    BY <1>0, <2>2, FreeTable, FreeFields
  <2>5. \A x \in d.hash \ {s} : Watched(rtw_free_stainfo(d, s), held, x)
    BY <1>0, <2>2, <2>3, FreeWatched
  <2> QED
    BY <2>1, <2>4, <2>5 DEF Good
<1> QED
  BY <1>1, <1>2

LEMMA ReportGood ==
  ASSUME NEW d, NEW held, Table(d), NEW s \in Slots, NEW enqueue \in BOOLEAN,
         \A x \in d.hash : x = s \/ Watched(d, held, x),
         NEW e \in report_del_sta_event(d, s, enqueue)
  PROVE  Good(e, held)
<1> DEFINE ev == [type |-> "DEL", mac |-> d.sta[s].mac]
           q == [d EXCEPT !.events = Append(@, ev)]
           l == [d EXCEPT !.lost = @ \cup {s}]
<1>0. d \in Db /\ d.events \in Seq(Event) /\ d.sta[s] \in Sta /\ d.hash \subseteq Slots
  BY DEF Table, Db
<1>1. \/ e = q
      \/ e = rtw_stadel_event_callback(d, d.sta[s].mac)
      \/ e = l
  BY DEF report_del_sta_event
<1>2. CASE e = q
  <2>1. ev \in Event
    BY <1>0 DEF Sta, Event
  <2>2. Append(d.events, ev) \in Seq(Event)
    BY <1>0, <2>1
  <2>3. /\ e \in Db /\ e.hash = d.hash /\ e.free = d.free /\ e.corrupt = d.corrupt
        /\ e.sta = d.sta /\ e.sta_aid = d.sta_aid
        /\ e.started_aid = d.started_aid /\ e.auth_list = d.auth_list
        /\ e.asoc_list = d.asoc_list /\ e.events = Append(d.events, ev) /\ e.lost = d.lost
    BY <1>0, <1>2, <2>2 DEF Db
  <2>4. /\ \A i \in DOMAIN d.events : i \in DOMAIN e.events /\ e.events[i] = d.events[i]
        /\ Len(d.events) + 1 \in DOMAIN e.events /\ e.events[Len(d.events) + 1] = ev
    BY <1>0, <2>1, <2>3
  <2>5. \A x \in d.hash : Watched(e, held, x)
    <3>1. DelQueued(e, d.sta[s].mac)
      BY <2>4 DEF DelQueued
    <3>2. \A x \in d.hash : Watched(d, held, x) => Watched(e, held, x)
      BY <2>3, <2>4 DEF Watched, DelQueued
    <3> QED
      BY <2>3, <3>1, <3>2 DEF Watched
  <2>6. Table(e)
    BY <1>0, <2>3, TableKept
  <2> QED
    BY <2>3, <2>5, <2>6 DEF Good
<1>3. CASE e = rtw_stadel_event_callback(d, d.sta[s].mac)
  BY <1>3, DelGood
<1>4. CASE e = l
  <2>1. /\ e \in Db /\ e.hash = d.hash /\ e.free = d.free /\ e.corrupt = d.corrupt
        /\ e.sta = d.sta /\ e.sta_aid = d.sta_aid
        /\ e.started_aid = d.started_aid /\ e.auth_list = d.auth_list
        /\ e.asoc_list = d.asoc_list /\ e.events = d.events /\ e.lost = d.lost \cup {s}
    BY <1>0, <1>4 DEF Db
  <2>2. \A x \in d.hash : Watched(e, held, x)
    BY <2>1 DEF Watched, DelQueued
  <2>3. Table(e)
    BY <1>0, <2>1, TableKept
  <2> QED
    BY <2>1, <2>2, <2>3 DEF Good
<1> QED
  BY <1>1, <1>2, <1>3, <1>4

(* The station that is removed may have lost its watch already.            *)
LEMMA ApFreeGood ==
  ASSUME NEW d, NEW held, Table(d), NEW s \in Slots, NEW enqueue \in BOOLEAN,
         \A x \in d.hash : x = s \/ Watched(d, held, x),
         NEW e \in ap_free_sta(d, s, enqueue)
  PROVE  Good(e, held)
<1> DEFINE t == [d.sta[s] EXCEPT !.state = @ \ {"ASOC"}]
           f == [d EXCEPT !.sta[s] = t]
<1>0. d \in Db /\ d.sta[s] \in Sta /\ d.hash \subseteq Slots
  BY DEF Table, Db
<1>1. t \in Sta /\ t.mac = d.sta[s].mac /\ t.aid = d.sta[s].aid
  BY <1>0 DEF Sta
<1>2. e \in report_del_sta_event(f, s, enqueue)
  BY DEF ap_free_sta
<1> HIDE DEF t
<1>3. Table(f)
  BY <1>0, <1>1, StaKept
<1>4. /\ f.hash = d.hash /\ f.auth_list = d.auth_list /\ f.asoc_list = d.asoc_list
      /\ f.events = d.events /\ f.lost = d.lost
      /\ \A x \in Slots : f.sta[x].mac = d.sta[x].mac
  BY <1>0, <1>1 DEF Db
<1> HIDE DEF f
<1>5. \A x \in f.hash : x = s \/ Watched(f, held, x)
  BY <1>0, <1>4 DEF Watched, DelQueued
<1> QED
  BY <1>2, <1>3, <1>5, ReportGood

LEMMA RemoveGood ==
  ASSUME NEW d, NEW held, Good(d, held), NEW s \in Slots,
         NEW e \in ap_free_sta([d EXCEPT !.asoc_list = @ \ {s}], s, TRUE)
  PROVE  Good(e, held)
<1> DEFINE f == [d EXCEPT !.asoc_list = @ \ {s}]
<1>0. d \in Db
  BY DEF Good, Table
<1>1. /\ f \in Db /\ f.hash = d.hash /\ f.free = d.free /\ f.corrupt = d.corrupt
      /\ f.sta = d.sta /\ f.sta_aid = d.sta_aid
      /\ f.started_aid = d.started_aid /\ f.auth_list = d.auth_list
      /\ f.asoc_list = d.asoc_list \ {s} /\ f.events = d.events /\ f.lost = d.lost
  BY <1>0 DEF Db
<1> HIDE DEF f
<1>2. Table(f)
  BY <1>0, <1>1, TableKept DEF Good
<1>3. \A x \in f.hash : x = s \/ Watched(f, held, x)
  BY <1>1 DEF Good, Watched, DelQueued
<1>4. e \in ap_free_sta(f, s, TRUE)
  BY DEF f
<1> QED
  BY <1>2, <1>3, <1>4, ApFreeGood

-----------------------------------------------------------------------------
(* The actions.                                                            *)
LEMMA InitGood == Init => Inv
<1> SUFFICES ASSUME Init PROVE Inv
  OBVIOUS
<1>0. 0 \in 0..MaxAid /\ 0 \in 0..KeepAlive /\ 1 \in Aids /\ NumSta \in Nat
      /\ MaxFrames \in Nat /\ MaxCalls \in Nat
  BY ConstantsAreUsable DEF ConstantsAreUsable, Aids
<1>1. NoSta(None) \in Sta /\ NoSta(None).aid = 0
  BY <1>0 DEF NoSta, Sta
<1>2. [s \in Slots |-> s] \in Seq(Slots) /\ Len([s \in Slots |-> s]) = NumSta
  BY <1>0 DEF Slots
<1>3. /\ db \in Db /\ db.hash = {} /\ db.free = [s \in Slots |-> s]
      /\ db.sta_aid = [a \in Aids |-> None] /\ db.started_aid = 1
  BY <1>0, <1>1, <1>2 DEF Init, Db
<1>4. Aid(db) /\ Unique(db)
  BY <1>3 DEF Aid, Unique
<1>5. Pool(db)
  BY <1>2, <1>3 DEF Pool, Slots
<1>6. Good(db, del \cup flush)
  BY <1>3, <1>4, <1>5 DEF Good, Table
<1>7. TypeOK
  BY <1>0, <1>3 DEF Init, TypeOK
<1> QED
  BY <1>6, <1>7 DEF Inv

(* The timer of an SA Query is stopped.                                    *)
LEMMA TimerOffGood ==
  ASSUME NEW d, NEW held, Good(d, held), NEW s \in Slots
  PROVE  Good([d EXCEPT !.sta[s].dot11w_expire_timer = FALSE], held)
<1> DEFINE t == [d.sta[s] EXCEPT !.dot11w_expire_timer = FALSE]
<1>1. d.sta[s] \in Sta
  BY DEF Good, Table, Db
<1>2. t \in Sta /\ t.mac = d.sta[s].mac /\ t.aid = d.sta[s].aid
  BY <1>1 DEF Sta
<1> HIDE DEF t
<1>3. Good([d EXCEPT !.sta[s] = t], held)
  BY <1>2, StaGood
<1> QED
  BY <1>3 DEF t

(* What a receive handler leaves alone.                                    *)
LEMMA TaskletInv ==
  ASSUME Inv, FromStation(1), UNCHANGED <<thread, flush, calls>>, Good(db', del \cup flush)
  PROVE  Inv'
<1>1. db' \in Db
  BY DEF Good, Table
<1>2. frames' \in 0..MaxFrames
  BY ConstantsAreUsable DEF Inv, TypeOK, FromStation, ConstantsAreUsable
<1>3. TypeOK'
  BY <1>1, <1>2 DEF Inv, TypeOK, thread
<1> QED
  BY <1>3 DEF Inv, thread

LEMMA TaskletStep ==
  ASSUME Inv, ~db.corrupt, Tasklet
  PROVE  Inv'
<1> DEFINE held == del \cup flush
<1>0. Good(db, held) /\ db \in Db /\ db.hash \subseteq Slots
  BY DEF Inv, Good, Table, Db
<1>1. PICK m \in Macs :
        \/ \E alg \in {"open", "sae"}, seq \in {1, 2} : OnAuth(m, alg, seq)
        \/ \E good, mfp \in BOOLEAN : OnAssocReq(m, good, mfp)
        \/ OnDeAuth(m)
        \/ OnDisassoc(m)
        \/ OnAction_sa_query(m)
  BY DEF Tasklet
<1>2. ASSUME NEW alg, NEW seq, OnAuth(m, alg, seq)
      PROVE  Inv'
  <2> DEFINE d == IF Found(db, m) # {} THEN db ELSE rtw_alloc_stainfo(db, m)
  <2>1. PICK s \in Found(d, m) :
          db' = Authenticated(AuthTimer(IntoAuthList(d, s), s), s, alg, seq)
    BY <1>2 DEF OnAuth
  <2>2. FromStation(1) /\ UNCHANGED <<thread, flush, calls>>
        /\ (Found(db, m) # {} \/ db.free # <<>>)
    BY <1>2 DEF OnAuth
  <2>3. Good(IntoAuthList(d, s), held) /\ s \in IntoAuthList(d, s).hash
    <3>1. CASE Found(db, m) # {}
      <4>1. d = db /\ s \in db.hash
        BY <3>1 DEF Found
      <4> HIDE DEF d
      <4> QED
        BY <4>1, <1>0, AuthListGood
    <3>2. CASE Found(db, m) = {}
      <4>1. d = rtw_alloc_stainfo(db, m)
        BY <3>2
      <4> HIDE DEF d
      <4> QED
        BY <4>1, <1>0, <2>2, <3>2, AllocGood
    <3> QED
      BY <3>1, <3>2
  <2> DEFINE e == IntoAuthList(d, s)
  <2> HIDE DEF e
  <2>4. Good(AuthTimer(e, s), held) /\ s \in AuthTimer(e, s).hash
    BY <2>3, AuthTimerGood DEF e
  <2> DEFINE f == AuthTimer(e, s)
  <2> HIDE DEF f
  <2>5. Good(Authenticated(f, s, alg, seq), held)
    BY <2>4, AuthenticatedGood DEF f
  <2> QED
    BY <2>1, <2>2, <2>5, TaskletInv DEF e, f
<1>3. ASSUME NEW good \in BOOLEAN, NEW mfp \in BOOLEAN, OnAssocReq(m, good, mfp)
      PROVE  Inv'
  <2>1. PICK s \in Found(db, m) :
          LET d == [db EXCEPT !.sta[s] = AssocState(@, mfp)] IN
            db' = IF ~good THEN d
                  ELSE IF WithAid(d, s).sta[s].aid = 0 THEN d
                  ELSE Associated(WithAid(d, s), s)
    BY <1>3 DEF OnAssocReq
  <2>2. FromStation(1) /\ UNCHANGED <<thread, flush, calls>>
    BY <1>3 DEF OnAssocReq
  <2> DEFINE d == [db EXCEPT !.sta[s] = AssocState(@, mfp)]
  <2>3. s \in db.hash
    BY DEF Found
  <2>4. Good(d, held) /\ d.hash = db.hash
    BY <1>0, <2>3, AssocStateGood
  <2>5. \/ db' = d
        \/ WithAid(d, s).sta[s].aid # 0 /\ db' = Associated(WithAid(d, s), s)
    BY <2>1
  <2> HIDE DEF d
  <2>6. Good(WithAid(d, s), held) /\ WithAid(d, s).hash = d.hash
    BY <2>3, <2>4, WithAidGood
  <2> DEFINE w == WithAid(d, s)
  <2> HIDE DEF w
  <2>7. w.sta[s].aid # 0 => Good(Associated(w, s), held)
    BY <2>3, <2>4, <2>6, AssociatedGood DEF w
  <2>8. Good(db', held)
    BY <2>4, <2>5, <2>7 DEF w
  <2> QED
    BY <2>2, <2>8, TaskletInv
<1>4. CASE OnDeAuth(m) \/ OnDisassoc(m)
  <2>1. PICK s \in Found(db, m) \cap db.asoc_list : db' \in RemoveAssociated(s)
    BY <1>4 DEF OnDeAuth, OnDisassoc
  <2>2. FromStation(1) /\ UNCHANGED <<thread, flush, calls>>
    BY <1>4 DEF OnDeAuth, OnDisassoc
  <2>3. s \in Slots
    BY <1>0 DEF Found
  <2>4. Good(db', held)
    BY <1>0, <2>1, <2>3, RemoveGood DEF RemoveAssociated
  <2> QED
    BY <2>2, <2>4, TaskletInv
<1>5. CASE OnAction_sa_query(m)
  <2>1. PICK s \in Found(db, m) : db' = [db EXCEPT !.sta[s].dot11w_expire_timer = FALSE]
    BY <1>5 DEF OnAction_sa_query
  <2>2. FromStation(1) /\ UNCHANGED <<thread, flush, calls>>
    BY <1>5 DEF OnAction_sa_query
  <2>3. Good(db', held)
    BY <1>0, <2>1, TimerOffGood DEF Found
  <2> QED
    BY <2>2, <2>3, TaskletInv
<1> QED
  BY <1>1, <1>2, <1>3, <1>4, <1>5

(* An event is queued.                                                     *)
LEMMA EventGood ==
  ASSUME NEW d, NEW held, Good(d, held), NEW ev \in Event
  PROVE  Good([d EXCEPT !.events = Append(@, ev)], held)
<1> DEFINE e == [d EXCEPT !.events = Append(@, ev)]
<1>0. d \in Db /\ d.events \in Seq(Event)
  BY DEF Good, Table, Db
<1>1. Append(d.events, ev) \in Seq(Event)
  BY <1>0
<1>2. /\ e \in Db /\ e.hash = d.hash /\ e.free = d.free /\ e.corrupt = d.corrupt
      /\ e.sta = d.sta /\ e.sta_aid = d.sta_aid
      /\ e.started_aid = d.started_aid /\ e.auth_list = d.auth_list
      /\ e.asoc_list = d.asoc_list /\ e.events = Append(d.events, ev) /\ e.lost = d.lost
  BY <1>0, <1>1 DEF Db
<1> HIDE DEF e
<1>3. \A i \in DOMAIN d.events : i \in DOMAIN e.events /\ e.events[i] = d.events[i]
  BY <1>0, <1>2
<1>4. \A x \in d.hash : Watched(d, held, x) => Watched(e, held, x)
  BY <1>2, <1>3 DEF Watched, DelQueued
<1>5. Good(e, held)
  BY <1>2, <1>4, GoodKept
<1> QED
  BY <1>5 DEF e

(* The head of the queue is taken: only the station it names loses a watch. *)
LEMMA TakenWatched ==
  ASSUME Inv, db.events # <<>>, NEW held, Good(db, held)
  PROVE  /\ Table(Taken) /\ Taken.hash = db.hash /\ Taken.sta = db.sta
         /\ Head(db.events) \in Event
         /\ \A x \in db.hash :
              \/ Head(db.events).type = "DEL" /\ Head(db.events).mac = db.sta[x].mac
              \/ Watched(Taken, held, x)
<1> DEFINE e == Taken
<1>0. db \in Db /\ db.events \in Seq(Event)
  BY DEF Inv, TypeOK, Db
<1>1. /\ Tail(db.events) \in Seq(Event) /\ Head(db.events) = db.events[1]
      /\ Head(db.events) \in Event
      /\ \A i \in DOMAIN db.events :
           i = 1 \/ (i - 1 \in DOMAIN Tail(db.events) /\ Tail(db.events)[i - 1] = db.events[i])
  BY <1>0
<1>2. /\ e \in Db /\ e.hash = db.hash /\ e.free = db.free /\ e.corrupt = db.corrupt
      /\ e.sta = db.sta /\ e.sta_aid = db.sta_aid
      /\ e.started_aid = db.started_aid /\ e.auth_list = db.auth_list
      /\ e.asoc_list = db.asoc_list /\ e.events = Tail(db.events) /\ e.lost = db.lost
  BY <1>0, <1>1 DEF Taken, Db
<1> HIDE DEF e
<1>3. Table(e)
  BY <1>0, <1>2, TableKept DEF Good
<1>4. ASSUME NEW x \in db.hash
      PROVE  \/ Head(db.events).type = "DEL" /\ Head(db.events).mac = db.sta[x].mac
             \/ Watched(e, held, x)
  <2>1. CASE DelQueued(db, db.sta[x].mac)
    <3>1. PICK i \in DOMAIN db.events : db.events[i] = [type |-> "DEL", mac |-> db.sta[x].mac]
      BY <2>1 DEF DelQueued
    <3>2. CASE i = 1
      BY <3>1, <3>2, <1>1
    <3>3. CASE i # 1
      <4>1. DelQueued(e, e.sta[x].mac)
        BY <3>1, <3>3, <1>1, <1>2 DEF DelQueued
      <4> QED
        BY <4>1 DEF Watched
    <3> QED
      BY <3>2, <3>3
  <2>2. CASE ~DelQueued(db, db.sta[x].mac)
    <3>1. Watched(db, held, x)
      BY DEF Good
    <3> QED
      BY <3>1, <2>2, <1>2 DEF Watched
  <2> QED
    BY <2>1, <2>2
<1> QED
  BY <1>1, <1>2, <1>3, <1>4 DEF e

LEMMA TakenGood ==
  ASSUME Inv, db.events # <<>>, Head(db.events).type # "DEL", NEW held, Good(db, held)
  PROVE  Good(Taken, held) /\ Taken.sta = db.sta
<1>1. /\ Table(Taken) /\ Taken.hash = db.hash /\ Taken.sta = db.sta
      /\ \A x \in db.hash : Watched(Taken, held, x)
  BY TakenWatched
<1> QED
  BY <1>1 DEF Good

(* The stations age.                                                       *)
LEMMA AgeGood ==
  ASSUME NEW d, NEW held, Good(d, held), NEW f \in [Slots -> Sta],
         \A x \in Slots : f[x].mac = d.sta[x].mac /\ f[x].aid = d.sta[x].aid
  PROVE  Good([d EXCEPT !.sta = f], held)
<1> DEFINE e == [d EXCEPT !.sta = f]
<1>0. d \in Db /\ d.hash \subseteq Slots
  BY DEF Good, Table, Db
<1>1. /\ e \in Db /\ e.hash = d.hash /\ e.free = d.free /\ e.corrupt = d.corrupt
      /\ e.sta = f /\ e.sta_aid = d.sta_aid
      /\ e.started_aid = d.started_aid /\ e.auth_list = d.auth_list
      /\ e.asoc_list = d.asoc_list /\ e.events = d.events /\ e.lost = d.lost
  BY <1>0 DEF Db
<1> HIDE DEF e
<1>2. \A x \in d.hash : Watched(d, held, x) => Watched(e, held, x)
  BY <1>0, <1>1 DEF Watched, DelQueued
<1>3. Good(e, held)
  BY <1>0, <1>1, <1>2, GoodKept
<1> QED
  BY <1>3 DEF e

(* Actions that leave the counters and the loops of the others alone.      *)
LEMMA TimerInv ==
  ASSUME Inv, UNCHANGED <<thread, flush, frames, calls>>, Good(db', del \cup flush)
  PROVE  Inv'
<1>1. db' \in Db
  BY DEF Good, Table
<1>2. TypeOK'
  BY <1>1 DEF Inv, TypeOK, thread
<1> QED
  BY <1>2 DEF Inv, thread

LEMMA TimersStep ==
  ASSUME Inv, Timers
  PROVE  Inv'
<1> DEFINE held == del \cup flush
<1>0. Good(db, held) /\ db \in Db
  BY DEF Inv, Good, Table
<1>1. ASSUME NEW s \in Slots, sa_query_timer_hdl(s)
      PROVE  Inv'
  <2> DEFINE ev == [type |-> "TIMEOUT", mac |-> db.sta[s].mac]
  <2>1. PICK d \in {db, [db EXCEPT !.events = Append(@, ev)]} :
          db' = [d EXCEPT !.sta[s].dot11w_expire_timer = FALSE]
    BY <1>1 DEF sa_query_timer_hdl
  <2>2. ev \in Event
    BY <1>0 DEF Db, Sta, Event
  <2> HIDE DEF ev
  <2>3. Good(d, held)
    BY <1>0, <2>2, EventGood
  <2>4. Good(db', held)
    BY <2>1, <2>3, TimerOffGood
  <2> QED
    BY <1>1, <2>4, TimerInv DEF sa_query_timer_hdl
<1>2. CASE rtw_dynamic_check_timer
  <2>1. [type |-> "CHK", mac |-> None] \in Event
    BY DEF Event
  <2>2. Good(db', held)
    BY <1>0, <1>2, <2>1, EventGood DEF rtw_dynamic_check_timer
  <2> QED
    BY <1>2, <2>2, TimerInv DEF rtw_dynamic_check_timer
<1> QED
  BY <1>1, <1>2 DEF Timers

LEMMA CalledInv ==
  ASSUME Inv, Called, UNCHANGED <<thread, flush, frames>>, Good(db', del \cup flush)
  PROVE  Inv'
<1>1. db' \in Db
  BY DEF Good, Table
<1>2. calls' \in 0..MaxCalls
  BY ConstantsAreUsable DEF Inv, TypeOK, Called, ConstantsAreUsable
<1>3. TypeOK'
  BY <1>1, <1>2 DEF Inv, TypeOK, thread
<1> QED
  BY <1>3 DEF Inv, thread

LEMMA Cfg80211Step ==
  ASSUME Inv, Cfg80211
  PROVE  Inv'
<1> DEFINE held == del \cup flush
<1>0. /\ Good(db, held) /\ Table(db) /\ db \in Db /\ db.hash \subseteq Slots
      /\ db.asoc_list \subseteq Slots
  BY DEF Inv, Good, Table, Db
<1>1. ASSUME NEW m \in Macs, rtw_cfg80211_ap_set_encryption(m)
      PROVE  Inv'
  <2>1. PICK s \in Found(db, m) : db' = [db EXCEPT !.sta[s].bpairwise_key_installed = TRUE]
    BY <1>1 DEF rtw_cfg80211_ap_set_encryption
  <2> DEFINE t == [db.sta[s] EXCEPT !.bpairwise_key_installed = TRUE]
  <2>2. s \in Slots /\ db.sta[s] \in Sta
    BY <1>0 DEF Found, Db
  <2>3. t \in Sta /\ t.mac = db.sta[s].mac /\ t.aid = db.sta[s].aid
    BY <2>2 DEF Sta
  <2>4. db' = [db EXCEPT !.sta[s] = t]
    BY <2>1
  <2> HIDE DEF t
  <2>5. Good(db', held)
    BY <1>0, <2>2, <2>3, <2>4, StaGood
  <2> QED
    BY <1>1, <2>5, CalledInv DEF rtw_cfg80211_ap_set_encryption
<1>2. ASSUME NEW m \in Macs, rtw_cfg80211_external_auth_status(m)
      PROVE  Inv'
  <2>1. PICK s \in Found(db, m) :
          db' = [db EXCEPT !.sta[s].state = (@ \ {"AUTH_NULL"}) \cup {"AUTH_SUCCESS"},
                           !.sta[s].expire_to = AssocTo]
    BY <1>2 DEF rtw_cfg80211_external_auth_status
  <2> DEFINE t == [db.sta[s] EXCEPT !.state = (@ \ {"AUTH_NULL"}) \cup {"AUTH_SUCCESS"},
                                    !.expire_to = AssocTo]
  <2>2. s \in Slots /\ db.sta[s] \in Sta
    BY <1>0 DEF Found, Db
  <2>3. t \in Sta /\ t.mac = db.sta[s].mac /\ t.aid = db.sta[s].aid
    BY <2>2, ConstantsAreUsable DEF Sta, States, ConstantsAreUsable
  <2>4. db' = [db EXCEPT !.sta[s] = t]
    BY <1>0, <2>1, <2>2 DEF Db
  <2> HIDE DEF t
  <2>5. Good(db', held)
    BY <1>0, <2>2, <2>3, <2>4, StaGood
  <2> QED
    BY <1>2, <2>5, CalledInv DEF rtw_cfg80211_external_auth_status
<1>3. ASSUME NEW m \in Macs, cfg80211_rtw_del_station(m)
      PROVE  Inv'
  <2>1. PICK s \in db.asoc_list : db' \in RemoveAssociated(s)
    BY <1>3 DEF cfg80211_rtw_del_station
  <2>2. Good(db', held)
    BY <1>0, <2>1, RemoveGood DEF RemoveAssociated
  <2> QED
    BY <1>3, <2>2, CalledInv DEF cfg80211_rtw_del_station
<1>4. CASE rtw_sta_flush
  <2>1. /\ Called /\ flush = {} /\ flush' = db.asoc_list
        /\ db' = [db EXCEPT !.asoc_list = {}]
        /\ UNCHANGED <<cpc, chk, del, frames>>
    BY <1>4 DEF rtw_sta_flush, thread
  <2> DEFINE e == [db EXCEPT !.asoc_list = {}]
  <2>2. /\ e \in Db /\ e.hash = db.hash /\ e.free = db.free /\ e.corrupt = db.corrupt
        /\ e.sta = db.sta /\ e.sta_aid = db.sta_aid
        /\ e.started_aid = db.started_aid /\ e.auth_list = db.auth_list
        /\ e.asoc_list = {} /\ e.events = db.events /\ e.lost = db.lost
    BY <1>0 DEF Db
  <2> HIDE DEF e
  <2>3. \A x \in db.hash : Watched(db, held, x) => Watched(e, del \cup db.asoc_list, x)
    BY <2>1, <2>2 DEF Watched, DelQueued
  <2>4. Good(e, del \cup db.asoc_list)
    BY <1>0, <2>2, <2>3, GoodKept
  <2>5. calls' \in 0..MaxCalls
    BY <2>1, ConstantsAreUsable DEF Inv, TypeOK, Called, ConstantsAreUsable
  <2>6. TypeOK'
    BY <1>0, <2>1, <2>2, <2>5 DEF Inv, TypeOK, e
  <2> QED
    BY <2>1, <2>4, <2>6 DEF Inv, e
<1>5. ASSUME NEW s \in Slots, rtw_sta_flush_free(s)
      PROVE  Inv'
  <2>1. /\ flush' = flush \ {s} /\ db' \in ap_free_sta(db, s, TRUE)
        /\ UNCHANGED <<cpc, chk, del, frames, calls>>
    BY <1>5 DEF rtw_sta_flush_free, thread
  <2>2. \A x \in db.hash : x = s \/ Watched(db, del \cup flush', x)
    BY <1>0, <2>1 DEF Good, Watched
  <2>3. Good(db', del \cup flush')
    BY <1>0, <2>1, <2>2, ApFreeGood
  <2>4. TypeOK'
    BY <2>1, <2>3 DEF Inv, TypeOK, Good, Table
  <2> QED
    BY <2>1, <2>3, <2>4 DEF Inv
<1> QED
  BY <1>1, <1>2, <1>3, <1>4, <1>5 DEF Cfg80211

LEMMA AgedSta ==
  ASSUME NEW t \in Sta, NEW alive \in BOOLEAN
  PROVE  Aged(t, alive) \in Sta /\ Aged(t, alive).mac = t.mac /\ Aged(t, alive).aid = t.aid
<1>1. 0 \in 0..KeepAlive /\ ExpireTo \in Nat
  BY ConstantsAreUsable DEF ConstantsAreUsable
<1>2. t.expire_to \in Nat
  BY DEF Sta
<1>3. CASE alive \/ t.expire_to = 0
  BY <1>1, <1>3 DEF Aged, Sta
<1>4. CASE ~(alive \/ t.expire_to = 0)
  <2>1. t.expire_to - 1 \in Nat
    BY <1>2, <1>4
  <2> QED
    BY <1>4, <2>1 DEF Aged, Sta
<1> QED
  BY <1>3, <1>4

LEMMA CmdThreadStep ==
  ASSUME Inv, CmdThread
  PROVE  Inv'
<1> DEFINE held == del \cup flush
<1>0. /\ Good(db, held) /\ Table(db) /\ db \in Db /\ db.hash \subseteq Slots
      /\ db.asoc_list \subseteq Slots /\ db.auth_list \subseteq Slots
      /\ db.sta \in [Slots -> Sta]
  BY DEF Inv, Good, Table, Db
<1>1. CASE stadel_event
  <2>1. /\ db.events # <<>> /\ Head(db.events).type = "DEL"
        /\ db' = rtw_stadel_event_callback(Taken, Head(db.events).mac)
        /\ UNCHANGED <<thread, flush, frames, calls>>
    BY <1>1 DEF stadel_event, Takes
  <2> DEFINE m == Head(db.events).mac
  <2>2. /\ Table(Taken) /\ Taken.hash = db.hash /\ Taken.sta = db.sta
        /\ \A x \in db.hash :
             \/ Head(db.events).type = "DEL" /\ Head(db.events).mac = db.sta[x].mac
             \/ Watched(Taken, held, x)
    BY <1>0, <2>1, TakenWatched
  <2>3. \A x \in Taken.hash : Taken.sta[x].mac # m => Watched(Taken, held, x)
    BY <2>2
  <2> HIDE DEF m
  <2>4. Good(rtw_stadel_event_callback(Taken, m), held)
    BY <2>2, <2>3, DelGood
  <2> QED
    BY <2>1, <2>4, TimerInv DEF m
<1>2. CASE rtw_sta_timeout_event_callback
  <2> DEFINE on == Found(db, Head(db.events).mac) \cap db.asoc_list
  <2>1. /\ db.events # <<>> /\ Head(db.events).type = "TIMEOUT"
        /\ UNCHANGED <<thread, flush, frames, calls>>
        /\ \/ db' = Taken
           \/ \E s \in on : db' \in ap_free_sta([Taken EXCEPT !.asoc_list = @ \ {s}], s, TRUE)
    BY <1>2 DEF rtw_sta_timeout_event_callback, Takes
  <2>2. on \subseteq Slots
    BY <1>0
  <2> HIDE DEF on
  <2>3. Good(Taken, held)
    BY <1>0, <2>1, TakenGood
  <2>4. Good(db', held)
    BY <2>1, <2>2, <2>3, RemoveGood
  <2> QED
    BY <2>1, <2>4, TimerInv
<1>3. CASE expire_auth_list
  <2> DEFINE f == [s \in Slots |-> Waited(db, s)]
  <2>1. /\ db.events # <<>> /\ Head(db.events).type = "CHK"
        /\ db' = [Taken EXCEPT !.sta = f]
        /\ chk' = {s \in db.auth_list : db.sta[s].expire_to = 1} /\ cpc' = "flush"
        /\ UNCHANGED <<del, flush, frames, calls>>
    BY <1>3 DEF expire_auth_list, Takes
  <2>2. Good(Taken, held) /\ Taken.sta = db.sta
    BY <1>0, <2>1, TakenGood
  <2>3. ASSUME NEW x \in Slots
        PROVE  Waited(db, x) \in Sta /\ Waited(db, x).mac = db.sta[x].mac
               /\ Waited(db, x).aid = db.sta[x].aid
    <3>1. db.sta[x] \in Sta /\ db.sta[x].expire_to \in Nat
      BY <1>0 DEF Sta
    <3>2. db.sta[x].expire_to > 0 => db.sta[x].expire_to - 1 \in Nat
      BY <3>1
    <3> QED
      BY <3>1, <3>2 DEF Waited, Sta
  <2>4. f \in [Slots -> Sta] /\ \A x \in Slots : f[x] = Waited(db, x)
    BY <2>3
  <2> HIDE DEF f
  <2>5. Good(db', held)
    BY <2>1, <2>2, <2>3, <2>4, AgeGood
  <2>6. TypeOK'
    BY <1>0, <2>1, <2>5 DEF Inv, TypeOK, Good, Table
  <2> QED
    BY <2>1, <2>5, <2>6 DEF Inv
<1>4. ASSUME NEW s \in Slots, expire_flush(s)
      PROVE  Inv'
  <2>1. /\ chk' = chk \ {s} /\ db' = rtw_free_stainfo(db, s)
        /\ UNCHANGED <<cpc, del, flush, frames, calls>>
    BY <1>4 DEF expire_flush
  <2>2. Good(db', held)
    BY <1>0, <2>1, FreeGood
  <2>3. TypeOK'
    BY <2>1, <2>2 DEF Inv, TypeOK, Good, Table
  <2> QED
    BY <2>1, <2>2, <2>3 DEF Inv
<1>5. ASSUME NEW s \in Slots, expire_delete(s)
      PROVE  Inv'
  <2>1. /\ del' = del \ {s} /\ db' \in ap_free_sta(db, s, FALSE)
        /\ UNCHANGED <<cpc, chk, flush, frames, calls>>
    BY <1>5 DEF expire_delete
  <2>2. \A x \in db.hash : x = s \/ Watched(db, del' \cup flush, x)
    BY <1>0, <2>1 DEF Good, Watched
  <2>3. Good(db', del' \cup flush)
    BY <1>0, <2>1, <2>2, ApFreeGood
  <2>4. TypeOK'
    BY <2>1, <2>3 DEF Inv, TypeOK, Good, Table
  <2> QED
    BY <2>1, <2>3, <2>4 DEF Inv
<1>6. ASSUME NEW alive \in SUBSET db.asoc_list, expire_asoc_list(alive)
      PROVE  Inv'
  <2> DEFINE f == [s \in Slots |-> IF s \in db.asoc_list THEN Aged(db.sta[s], s \in alive)
                                   ELSE db.sta[s]]
  <2>1. /\ FromStation(Cardinality(alive)) /\ db' = [db EXCEPT !.sta = f]
        /\ chk' \subseteq db.asoc_list /\ cpc' = "check"
        /\ UNCHANGED <<del, flush, calls>>
    BY <1>6 DEF expire_asoc_list
  <2>2. ASSUME NEW x \in Slots
        PROVE  f[x] \in Sta /\ f[x].mac = db.sta[x].mac /\ f[x].aid = db.sta[x].aid
    <3>1. db.sta[x] \in Sta
      BY <1>0
    <3>2. \/ f[x] = Aged(db.sta[x], TRUE) \/ f[x] = Aged(db.sta[x], FALSE)
          \/ f[x] = db.sta[x]
      BY DEF Aged
    <3> HIDE DEF f
    <3> QED
      BY <3>1, <3>2, AgedSta
  <2>3. f \in [Slots -> Sta]
    BY <2>2
  <2> HIDE DEF f
  <2>4. Good(db', held)
    BY <1>0, <2>1, <2>2, <2>3, AgeGood
  <2>5. Cardinality(alive) \in Nat
    <3>1. IsFiniteSet(Slots)
      BY ConstantsAreUsable, FS_Interval DEF ConstantsAreUsable, Slots
    <3>2. IsFiniteSet(alive)
      BY <1>0, <3>1, FS_Subset
    <3> QED
      BY <3>2, FS_CardinalityType
  <2>6. frames' \in 0..MaxFrames
    BY <2>1, <2>5, ConstantsAreUsable DEF Inv, TypeOK, FromStation, ConstantsAreUsable
  <2>7. TypeOK'
    BY <1>0, <2>1, <2>4, <2>6 DEF Inv, TypeOK, Good, Table
  <2> QED
    BY <2>1, <2>4, <2>7 DEF Inv
<1>7. ASSUME NEW s \in Slots, NEW answers \in BOOLEAN, issue_aka_chk_frame(s, answers)
      PROVE  Inv'
  <2>0. db.sta[s] \in Sta /\ chk' = chk \ {s} /\ UNCHANGED <<cpc, flush, calls>>
    BY <1>0, <1>7 DEF issue_aka_chk_frame
  <2>1. CASE UNCHANGED <<db, del, frames>>
    BY <2>0, <2>1 DEF Inv, TypeOK
  <2>2. CASE /\ FromStation(1) /\ UNCHANGED del
             /\ db' = [db EXCEPT !.sta[s].expire_to = ExpireTo, !.sta[s].keep_alive_trycnt = 0]
    <3> DEFINE t == [db.sta[s] EXCEPT !.expire_to = ExpireTo, !.keep_alive_trycnt = 0]
    <3>0. 0 \in 0..KeepAlive /\ ExpireTo \in Nat
      BY ConstantsAreUsable DEF ConstantsAreUsable
    <3>1. t \in Sta /\ t.mac = db.sta[s].mac /\ t.aid = db.sta[s].aid
      BY <2>0, <3>0 DEF Sta
    <3>2. db' = [db EXCEPT !.sta[s] = t]
      BY <1>0, <2>2 DEF Db
    <3> HIDE DEF t
    <3>3. Good(db', held)
      BY <1>0, <3>1, <3>2, StaGood
    <3>4. frames' \in 0..MaxFrames
      BY <2>2, ConstantsAreUsable DEF Inv, TypeOK, FromStation, ConstantsAreUsable
    <3>5. TypeOK'
      BY <2>0, <2>2, <3>3, <3>4 DEF Inv, TypeOK, Good, Table
    <3> QED
      BY <2>0, <2>2, <3>3, <3>5 DEF Inv
  <2>3. CASE /\ UNCHANGED <<frames, del>> /\ db.sta[s].keep_alive_trycnt < KeepAlive
             /\ db' = [db EXCEPT !.sta[s].expire_to = 1, !.sta[s].keep_alive_trycnt = @ + 1]
    <3> DEFINE t == [db.sta[s] EXCEPT !.expire_to = 1, !.keep_alive_trycnt = @ + 1]
    <3>1. db.sta[s].keep_alive_trycnt + 1 \in 0..KeepAlive
      BY <2>0, <2>3, ConstantsAreUsable DEF Sta, ConstantsAreUsable
    <3>2. t \in Sta /\ t.mac = db.sta[s].mac /\ t.aid = db.sta[s].aid
      BY <2>0, <3>1 DEF Sta
    <3>3. db' = [db EXCEPT !.sta[s] = t]
      BY <1>0, <2>3 DEF Db
    <3> HIDE DEF t
    <3>4. Good(db', held)
      BY <1>0, <3>2, <3>3, StaGood
    <3>5. TypeOK'
      BY <2>0, <2>3, <3>4 DEF Inv, TypeOK, Good, Table
    <3> QED
      BY <2>0, <2>3, <3>4, <3>5 DEF Inv
  <2>4. CASE /\ UNCHANGED frames /\ del' = del \cup {s}
             /\ db' = [db EXCEPT !.sta[s].keep_alive_trycnt = 0, !.asoc_list = @ \ {s}]
    <3> DEFINE t == [db.sta[s] EXCEPT !.keep_alive_trycnt = 0]
               d == [db EXCEPT !.asoc_list = @ \ {s}]
    <3>1. 0 \in 0..KeepAlive
      BY ConstantsAreUsable DEF ConstantsAreUsable
    <3>2. t \in Sta /\ t.mac = db.sta[s].mac /\ t.aid = db.sta[s].aid
      BY <2>0, <3>1 DEF Sta
    <3>3. db' = [d EXCEPT !.sta[s] = t]
      BY <1>0, <2>4 DEF Db
    <3>4. /\ d \in Db /\ d.hash = db.hash /\ d.free = db.free /\ d.corrupt = db.corrupt
          /\ d.sta = db.sta /\ d.sta_aid = db.sta_aid
          /\ d.started_aid = db.started_aid /\ d.auth_list = db.auth_list
          /\ d.asoc_list = db.asoc_list \ {s} /\ d.events = db.events /\ d.lost = db.lost
      BY <1>0 DEF Db
    <3> HIDE DEF t, d
    <3>5. \A x \in db.hash : Watched(db, held, x) => Watched(d, del' \cup flush, x)
      BY <2>4, <3>4 DEF Watched, DelQueued
    <3>6. Good(d, del' \cup flush)
      BY <1>0, <3>4, <3>5, GoodKept
    <3>7. Good(db', del' \cup flush)
      BY <3>2, <3>3, <3>4, <3>6, StaGood
    <3>8. TypeOK'
      BY <2>0, <2>4, <3>7 DEF Inv, TypeOK, Good, Table
    <3> QED
      BY <2>0, <2>4, <3>7, <3>8 DEF Inv
  <2> QED
    BY <1>7, <2>1, <2>2, <2>3, <2>4 DEF issue_aka_chk_frame
<1>8. CASE expire_done
  BY <1>8 DEF expire_done, Inv, TypeOK
<1> QED
  BY <1>1, <1>2, <1>3, <1>4, <1>5, <1>6, <1>7, <1>8 DEF CmdThread

-----------------------------------------------------------------------------
LEMMA Invariant == Spec => []Inv
<1>1. Init => Inv
  BY InitGood
<1>2. Inv /\ [Next]_vars => Inv'
  <2>1. CASE UNCHANGED vars
    BY <2>1 DEF vars, Inv, TypeOK
  <2>2. CASE Next
    BY <2>2, TaskletStep, TimersStep, Cfg80211Step, CmdThreadStep DEF Next
  <2> QED
    BY <2>1, <2>2
<1> QED
  BY <1>1, <1>2, PTL DEF Spec

(* Every variable stays in its set, whatever the sizes and the limits.     *)
THEOREM ApStaTypes == Spec => []TypeOK
<1>1. Inv => TypeOK
  BY DEF Inv
<1> QED
  BY <1>1, Invariant, PTL

(* Identifiers and stations match: each belongs to one station that is in  *)
(* the hash table, and at most max_num_sta are held unless rtw_aid_alloc   *)
(* searches round robin.                                                   *)
THEOREM AidsAreKept == Spec => []AidsMatch
<1>1. Inv => AidsMatch
  <2> SUFFICES ASSUME Inv PROVE AidsMatch
    OBVIOUS
  <2>0. Aid(db)
    BY DEF Inv, Good, Table
  <2>1. ASSUME ~RrAid
        PROVE  Cardinality({a \in Aids : db.sta_aid[a] # None}) <= MaxNumSta
    <3> DEFINE used == {a \in Aids : db.sta_aid[a] # None}
    <3>1. MaxNumSta \in Nat /\ MaxAid \in Nat
      BY ConstantsAreUsable DEF ConstantsAreUsable
    <3>2. used \subseteq 1..MaxNumSta
      BY <2>0, <2>1, <3>1 DEF Aid, Aids
    <3> HIDE DEF used
    <3>3. IsFiniteSet(1..MaxNumSta) /\ Cardinality(1..MaxNumSta) = MaxNumSta
      BY <3>1, FS_Interval
    <3>4. Cardinality(used) <= Cardinality(1..MaxNumSta)
      BY <3>2, <3>3, FS_Subset
    <3> QED
      BY <3>3, <3>4 DEF used
  <2> QED
    BY <2>0, <2>1 DEF AidsMatch, Aid
<1> QED
  BY <1>1, Invariant, PTL

(* No station of the hash table is forgotten: a list, a loop or an event   *)
(* that removes it always names it, unless the event could not be queued.  *)
THEOREM StationsAreKept == Spec => []NoStationForgotten
<1>1. Inv => NoStationForgotten
  BY DEF Inv, Good, Watched, DelQueued, NoStationForgotten
<1> QED
  BY <1>1, Invariant, PTL
=============================================================================
