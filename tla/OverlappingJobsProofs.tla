----------------------- MODULE OverlappingJobsProofs ------------------------
(***************************************************************************)
(* Theorems about jobs of several workers at once: for any number of       *)
(* workers, jobs, sites, types and devices, every set of snapshots and of  *)
(* options, and every order in which jobs visit what they list.            *)
(***************************************************************************)
EXTENDS OverlappingJobs, TLAPS

-----------------------------------------------------------------------------
(* Types                                                                   *)

Row  == DeviceRow \cup OtherRow
Elem == {e \in [action: {"create", "update", "delete"}, name: Devices \cup {None}, site: Sites,
                data: Data \cup {None}, attrs: SUBSET {"data", "flagged"}] :
           e.name = None <=> e.data = None}
Keys == {r.key : r \in Row}
Job  == [pc: {"idle", "load", "sync", "role", "device"}, listed: SUBSET Sites, todo: SUBSET Elem,
         here: Sites \cup {None}, at: Elem \cup {None}, saves: Seq(Row), wrote: SUBSET Row,
         tagged: SUBSET Keys]

(* The elements a job has left, the device it is creating among them.      *)
Creating(j) == j.pc \in {"role", "device"}
Pending(j)  == j.todo \cup (IF Creating(j) THEN {j.at} ELSE {})
JobOK(j) == /\ j \in Job
            /\ j.pc = "idle" => j = Idle
            /\ j.pc = "load" => j = [Idle EXCEPT !.pc = "load"]
            /\ Creating(j) => /\ j.at \in Elem /\ j.at \notin j.todo
                              /\ j.at.action = "create" /\ j.at.name \in Devices

TypeInv == /\ rows \subseteq Row /\ tagged \subseteq Keys /\ next_id \in Int /\ next_id > 0
           /\ overlap \in BOOLEAN /\ beside \subseteq Devices
           /\ jobs \in [Workers -> Job] /\ \A w \in Workers : JobOK(jobs[w])

LEMMA RowsAre ==
  /\ \A r \in DeviceRow : r.name \in Devices /\ r.name # None /\ r.site \in Sites /\ r.data \in Data
                          /\ r.key \in {"device"} \X Int /\ r.key[1] = "device"
                          /\ r.key = <<"device", r.key[2]>>
  /\ \A r \in OtherRow : r.name = None /\ r.key[1] # "device" /\ r.data = None
                         /\ (r.site = None \/ r.site \in Sites)
                         /\ (r.key[1] = "site" => r.site \in Sites)
  /\ \A r \in Row : r.key \in Keys /\ (r.name # None => r \in DeviceRow)
                    /\ (r.name = None => r \in OtherRow)
  /\ \A s \in Sites, f \in BOOLEAN : SiteRow(s, f) \in OtherRow
  /\ \A t \in Types : Plain("type", t) \in OtherRow /\ Plain("maker", MakerOf[t]) \in OtherRow
  /\ Plain("role", None) \in OtherRow
  /\ Idle \in Job
<1>1. \A r \in DeviceRow : r.name \in Devices /\ r.name # None /\ r.site \in Sites /\ r.data \in Data
                          /\ r.key \in {"device"} \X Int /\ r.key[1] = "device"
                          /\ r.key = <<"device", r.key[2]>>
  BY NamesAssumption DEF DeviceRow
<1>2. ASSUME NEW r \in OtherRow
      PROVE  r.name = None /\ r.key[1] # "device" /\ r.data = None
             /\ (r.site = None \/ r.site \in Sites) /\ (r.key[1] = "site" => r.site \in Sites)
  <2>1. ASSUME NEW kind, NEW x PROVE LET p == Plain(kind, x) IN
          p.name = None /\ p.key[1] = kind /\ p.data = None /\ p.site = None
    BY DEF Plain
  <2>2. CASE \E s \in Sites, f \in BOOLEAN : r = SiteRow(s, f)
    <3>1. PICK s \in Sites, f \in BOOLEAN : r = [Plain("site", s) EXCEPT !.site = s, !.flagged = f]
      BY <2>2 DEF SiteRow
    <3>2. r.name = None /\ r.key = <<"site", s>> /\ r.data = None /\ r.site = s
      BY <3>1 DEF Plain
    <3> QED BY <3>2
  <2>3. CASE ~ \E s \in Sites, f \in BOOLEAN : r = SiteRow(s, f)
    <3>1. PICK kind, x : kind \in {"type", "role", "maker"} /\ r = Plain(kind, x)
      BY <2>3 DEF OtherRow
    <3> QED BY <2>1, <3>1
  <2> QED BY <2>2, <2>3
<1>3. \A r \in Row : r.key \in Keys /\ (r.name # None => r \in DeviceRow)
                    /\ (r.name = None => r \in OtherRow)
  BY <1>1, <1>2 DEF Row, Keys
<1>4. Idle \in Job
  BY DEF Idle, Job
<1> QED BY <1>1, <1>2, <1>3, <1>4 DEF OtherRow

-----------------------------------------------------------------------------
(* Steps                                                                   *)

Becomes(w, j) == /\ j \in Job /\ JobOK(j) /\ jobs' = [jobs EXCEPT ![w] = j] /\ jobs'[w] = j
                 /\ UNCHANGED <<rows, tagged, overlap, beside>> /\ Running(w)

(* A step that finds what it saves next: other rows than devices, while    *)
(* elements move on but none is done that creates a device,                *)
PlainStep(w) ==
  \E j \in Job :
    /\ Becomes(w, j) /\ j.pc # "load" /\ j.wrote = jobs[w].wrote /\ SavesOf(j) \subseteq OtherRow
    /\ Pending(j) \subseteq Pending(jobs[w]) /\ next_id' = next_id

(* or a row of a device, for the element e, which is done with it.         *)
Found(w, e, r) ==
  /\ r \in DeviceRow /\ r.name = e.name
  /\ \/ /\ e.action = "create" /\ next_id' = next_id /\ r \in Named(w, e.name)
     \/ /\ e.action = "create" /\ next_id' = next_id + 1 /\ r.key = <<"device", next_id>>
     \/ /\ e.action # "create" /\ next_id' = next_id /\ Single(Named(w, e.name))
        /\ \E d \in Named(w, e.name) : d.key = r.key
DeviceStep(w) ==
  \E j \in Job, e \in Pending(jobs[w]), r \in DeviceRow :
    /\ Becomes(w, j) /\ j.pc # "load" /\ j.wrote = jobs[w].wrote /\ SavesOf(j) \subseteq {r}
    /\ Pending(j) \subseteq Pending(jobs[w]) \ {e} /\ Found(w, e, r)

SavesRow(w) ==
  \E j \in Job, r \in SavesOf(jobs[w]) :
    /\ Becomes(w, j) /\ SavesOf(j) \subseteq SavesOf(jobs[w]) /\ r \in Row
    /\ j.wrote = {v \in jobs[w].wrote : v.key # r.key} \cup {r}
    /\ \A u \in Workers \ {w} : r.key \notin Locks(u)
    /\ Pending(j) = Pending(jobs[w]) /\ next_id' = next_id

Cleared(w) == Becomes(w, Idle) /\ next_id' = next_id

LEMMA JobIs ==
  ASSUME TypeInv, NEW w \in Workers
  PROVE  /\ jobs[w] \in Job /\ JobOK(jobs[w]) /\ jobs[w].todo \subseteq Elem
         /\ jobs[w].wrote \subseteq Row /\ jobs[w].saves \in Seq(Row) /\ Current(w) \subseteq jobs[w].todo
         /\ Seen(w) \subseteq Row /\ SavesOf(jobs[w]) \subseteq Row
         /\ jobs[w].tagged \subseteq Keys
<1>1. jobs[w] \in Job /\ JobOK(jobs[w]) /\ jobs[w].saves \in Seq(Row)
  BY DEF TypeInv, Job
<1>2. SavesOf(jobs[w]) \subseteq Row
  BY <1>1 DEF SavesOf
<1> QED BY <1>1, <1>2 DEF TypeInv, Job, Current, Seen

LEMMA SeqsAre ==
  ASSUME NEW r \in Row, NEW q \in Row
  PROVE  /\ <<>> \in Seq(Row) /\ <<r>> \in Seq(Row) /\ <<q, r>> \in Seq(Row)
         /\ \A j : j.saves = <<>> => SavesOf(j) = {}
         /\ \A j : j.saves = <<r>> => SavesOf(j) = {r}
         /\ \A j : j.saves = <<q, r>> => SavesOf(j) = {q, r}
<1>1. ASSUME NEW j, j.saves = <<q, r>> PROVE SavesOf(j) = {q, r}
  <2>1. 1..Len(j.saves) = {1, 2} /\ j.saves[1] = q /\ j.saves[2] = r
    BY <1>1
  <2> QED BY <2>1 DEF SavesOf
<1>2. ASSUME NEW j, j.saves = <<r>> PROVE SavesOf(j) = {r}
  <2>1. 1..Len(j.saves) = {1} /\ j.saves[1] = r
    BY <1>2
  <2> QED BY <2>1 DEF SavesOf
<1>3. ASSUME NEW j, j.saves = <<>> PROVE SavesOf(j) = {}
  BY <1>3 DEF SavesOf
<1> QED BY <1>1, <1>2, <1>3

LEMMA JobBecomes ==
  ASSUME TypeInv, NEW w \in Workers, NEW j \in Job, JobOK(j), Goes(w, j), Running(w)
  PROVE  Becomes(w, j)
BY DEF TypeInv, Goes, Becomes

LEMMA SaveRowIs ==
  ASSUME TypeInv, NEW w \in Workers, SaveRow(w)
  PROVE  SavesRow(w)
<1> DEFINE r == Head(jobs[w].saves)
           j == [jobs[w] EXCEPT !.saves = Tail(@), !.tagged = @ \cup {r.key},
                                !.wrote = {v \in @ : v.key # r.key} \cup {r}]
<1>1. jobs[w] \in Job /\ JobOK(jobs[w]) /\ jobs[w].saves \in Seq(Row) /\ jobs[w].saves # <<>>
  BY JobIs DEF SaveRow
<1>2. r \in Row /\ r \in SavesOf(jobs[w]) /\ Tail(jobs[w].saves) \in Seq(Row) /\ r.key \in Keys
      /\ \A i \in 1..Len(Tail(jobs[w].saves)) :
           Tail(jobs[w].saves)[i] = jobs[w].saves[i + 1] /\ i + 1 \in 1..Len(jobs[w].saves)
  <2>1. r = jobs[w].saves[1] /\ 1 \in 1..Len(jobs[w].saves)
    BY <1>1
  <2> QED BY <1>1, <2>1 DEF SavesOf, Keys
<1>3. j \in Job
  BY <1>1, <1>2 DEF Job
<1>4. j.pc = jobs[w].pc /\ j.at = jobs[w].at /\ j.todo = jobs[w].todo
      /\ j.wrote = {v \in jobs[w].wrote : v.key # r.key} \cup {r} /\ j.saves = Tail(jobs[w].saves)
  BY <1>1 DEF Job
<1>5. jobs[w].pc \notin {"idle", "load"}
  BY <1>1 DEF JobOK, Idle
<1>6. JobOK(j) /\ Pending(j) = Pending(jobs[w])
  BY <1>1, <1>3, <1>4, <1>5 DEF JobOK, Pending, Creating
<1>7. SavesOf(j) \subseteq SavesOf(jobs[w])
  BY <1>2, <1>4 DEF SavesOf
<1>8. Goes(w, j) /\ Running(w) /\ next_id' = next_id
  BY <1>5 DEF SaveRow, Running
<1>9. \A u \in Workers \ {w} : r.key \notin Locks(u)
  BY <1>1 DEF SaveRow, WaitsFor
<1> HIDE DEF r, j
<1>10. Becomes(w, j)
  BY <1>3, <1>6, <1>8, JobBecomes
<1> QED BY <1>2, <1>3, <1>4, <1>6, <1>7, <1>8, <1>9, <1>10 DEF SavesRow

(* A handler that has begun with the element e of a job that syncs.        *)
LEMMA BegunIs ==
  ASSUME TypeInv, NEW w \in Workers, Ready(w, "sync"), NEW e \in Current(w), NEW q \in Seq(Row)
  PROVE  LET j == Saving(Begun(jobs[w], e), q)
         IN  /\ j \in Job /\ JobOK(j) /\ j.pc = "sync" /\ j.wrote = jobs[w].wrote /\ j.saves = q
             /\ j.todo = jobs[w].todo \ {e} /\ Pending(j) = Pending(jobs[w]) \ {e}
             /\ e \in Pending(jobs[w]) /\ e \in Elem /\ Running(w)
<1> DEFINE j == Saving(Begun(jobs[w], e), q)
<1>1. jobs[w] \in Job /\ jobs[w].pc = "sync" /\ e \in jobs[w].todo /\ e \in Elem /\ e.site \in Sites
  BY JobIs DEF Ready, Elem
<1>2. j \in Job /\ j.pc = "sync" /\ j.wrote = jobs[w].wrote /\ j.saves = q
      /\ j.todo = jobs[w].todo \ {e}
  BY <1>1 DEF Saving, Begun, Job
<1> HIDE DEF j
<1>3. JobOK(j) /\ Pending(j) = Pending(jobs[w]) \ {e} /\ e \in Pending(jobs[w]) /\ Running(w)
  BY <1>1, <1>2 DEF JobOK, Creating, Pending, Running
<1> QED BY <1>1, <1>2, <1>3 DEF j

LEMMA SitesArePlain ==
  ASSUME TypeInv, NEW w \in Workers, SaveSite(w) \/ DeleteSite(w)
  PROVE  PlainStep(w)
<1>0. PICK e \in Current(w) :
        \E q \in {<<>>, <<SiteRow(e.site, FALSE)>>, <<SiteRow(e.site, TRUE)>>} :
          Goes(w, Saving(Begun(jobs[w], e), q))
  BY DEF SaveSite, DeleteSite
<1>1. PICK q \in {<<>>, <<SiteRow(e.site, FALSE)>>, <<SiteRow(e.site, TRUE)>>} :
        Goes(w, Saving(Begun(jobs[w], e), q))
  BY <1>0
<1>2. Ready(w, "sync") /\ next_id' = next_id
  BY DEF SaveSite, DeleteSite
<1>3. e \in Elem /\ e.site \in Sites
  BY JobIs DEF Elem
<1>4. SiteRow(e.site, FALSE) \in OtherRow /\ SiteRow(e.site, TRUE) \in OtherRow
  BY <1>3, RowsAre
<1>5. q \in Seq(Row) /\ \A j : j.saves = q => SavesOf(j) \subseteq OtherRow
  <2> DEFINE a == SiteRow(e.site, FALSE)
             b == SiteRow(e.site, TRUE)
  <2>1. a \in OtherRow /\ a \in Row /\ b \in OtherRow /\ b \in Row /\ q \in {<<>>, <<a>>, <<b>>}
    BY <1>1, <1>4 DEF Row
  <2> HIDE DEF a, b
  <2>2. CASE q = <<>>
    BY <2>1, <2>2, SeqsAre
  <2>3. CASE q = <<a>>
    BY <2>1, <2>3, SeqsAre
  <2>4. CASE q = <<b>>
    BY <2>1, <2>4, SeqsAre
  <2> QED BY <2>1, <2>2, <2>3, <2>4
<1> DEFINE j == Saving(Begun(jobs[w], e), q)
<1>6. /\ j \in Job /\ JobOK(j) /\ j.pc = "sync" /\ j.wrote = jobs[w].wrote /\ j.saves = q
      /\ Pending(j) = Pending(jobs[w]) \ {e} /\ Running(w)
  BY <1>2, <1>5, BegunIs
<1>7. Goes(w, j)
  BY <1>1
<1> HIDE DEF j
<1>8. Becomes(w, j)
  BY <1>6, <1>7, JobBecomes
<1> QED BY <1>2, <1>5, <1>6, <1>8 DEF PlainStep

LEMMA FindTypeIsPlain ==
  ASSUME TypeInv, NEW w \in Workers, FindType(w)
  PROVE  PlainStep(w)
<1>1. PICK e \in Current(w) :
        LET type  == Plain("type", TypeOf[e.name])
            maker == Plain("maker", MakerOf[TypeOf[e.name]])
        IN  /\ ~ IsSite(e) /\ e.action = "create"
            /\ Goes(w, [Saving(Begun(jobs[w], e), IF Exists(w, type) THEN <<>> ELSE <<maker, type>>)
                          EXCEPT !.pc = "role", !.at = e])
  BY DEF FindType
<1> DEFINE type  == Plain("type", TypeOf[e.name])
           maker == Plain("maker", MakerOf[TypeOf[e.name]])
           q     == IF Exists(w, type) THEN <<>> ELSE <<maker, type>>
           i     == Saving(Begun(jobs[w], e), q)
           j     == [i EXCEPT !.pc = "role", !.at = e]
<1>2. Ready(w, "sync") /\ next_id' = next_id /\ ~ IsSite(e) /\ e.action = "create" /\ Goes(w, j)
  BY <1>1 DEF FindType
<1>3. e \in Elem /\ e.name \in Devices /\ TypeOf[e.name] \in Types
  BY <1>2, JobIs DEF Elem, IsSite, Types
<1>4. type \in OtherRow /\ maker \in OtherRow
  BY <1>3, RowsAre
<1>5. q \in Seq(Row) /\ \A k : k.saves = q => SavesOf(k) \subseteq OtherRow
  <2>1. type \in Row /\ maker \in Row
    BY <1>4 DEF Row
  <2> HIDE DEF type, maker
  <2> QED BY <1>4, <2>1, SeqsAre
<1> HIDE DEF q
<1>6. /\ i \in Job /\ i.wrote = jobs[w].wrote /\ i.saves = q /\ i.todo = jobs[w].todo \ {e}
      /\ Pending(i) = Pending(jobs[w]) \ {e} /\ e \in Pending(jobs[w]) /\ Running(w) /\ i.pc = "sync"
  BY <1>2, <1>5, BegunIs
<1> HIDE DEF i
<1>7. /\ j \in Job /\ j.pc = "role" /\ j.at = e /\ j.todo = i.todo /\ j.wrote = i.wrote
      /\ j.saves = i.saves
  BY <1>3, <1>6 DEF Job
<1> HIDE DEF j
<1>8. JobOK(j) /\ Pending(j) \subseteq Pending(jobs[w])
  BY <1>2, <1>3, <1>6, <1>7 DEF JobOK, Creating, Pending
<1>9. Becomes(w, j)
  BY <1>2, <1>6, <1>7, <1>8, JobBecomes
<1> QED BY <1>2, <1>5, <1>6, <1>7, <1>8, <1>9 DEF PlainStep

LEMMA FindRoleIsPlain ==
  ASSUME TypeInv, NEW w \in Workers, FindRole(w)
  PROVE  PlainStep(w)
<1> DEFINE role == Plain("role", None)
           q    == IF Exists(w, role) THEN <<>> ELSE <<role>>
           j    == [Saving(jobs[w], q) EXCEPT !.pc = "device"]
<1>1. jobs[w].pc = "role" /\ next_id' = next_id /\ Goes(w, j) /\ Running(w)
  BY DEF FindRole, Ready, Running
<1>2. jobs[w] \in Job /\ JobOK(jobs[w])
  BY JobIs
<1>3. q \in Seq(Row) /\ \A k : k.saves = q => SavesOf(k) \subseteq OtherRow
  <2>1. role \in OtherRow /\ role \in Row
    BY RowsAre DEF Row
  <2> HIDE DEF role
  <2> QED BY <2>1, SeqsAre
<1> HIDE DEF q
<1>4. /\ j \in Job /\ j.pc = "device" /\ j.at = jobs[w].at /\ j.todo = jobs[w].todo
      /\ j.wrote = jobs[w].wrote /\ j.saves = q
  BY <1>2, <1>3 DEF Saving, Job
<1> HIDE DEF j
<1>5. JobOK(j) /\ Pending(j) = Pending(jobs[w])
  BY <1>1, <1>2, <1>4 DEF JobOK, Creating, Pending
<1>6. Becomes(w, j)
  BY <1>1, <1>4, <1>5, JobBecomes
<1> QED BY <1>1, <1>3, <1>4, <1>5, <1>6 DEF PlainStep

LEMMA NamedIs ==
  ASSUME TypeInv, NEW w \in Workers, NEW n, n # None, NEW d \in Named(w, n)
  PROVE  d \in DeviceRow /\ d.name = n /\ d \in Seen(w)
BY JobIs, RowsAre DEF Named

LEMMA DeviceIs ==
  ASSUME NEW id, NEW n, NEW s, NEW x
  PROVE  Device(id, n, s, x) = [key |-> <<"device", id>>, name |-> n, site |-> s, data |-> x,
                                flagged |-> FALSE]
<1> DEFINE p == Plain("device", id)
<1>1. p = [key |-> <<"device", id>>, name |-> None, site |-> None, data |-> None, flagged |-> FALSE]
  BY DEF Plain
<1>2. Device(id, n, s, x) = [p EXCEPT !.name = n, !.site = s, !.data = x]
  BY DEF Device
<1> HIDE DEF p
<1> QED BY <1>1, <1>2

LEMMA FindDeviceIs ==
  ASSUME TypeInv, NEW w \in Workers, FindDevice(w)
  PROVE  DeviceStep(w)
<1> DEFINE e     == jobs[w].at
           found == Matching(w, e)
           new   == Device(next_id, e.name, e.site, e.data)
           To(d, q) == [Saving(jobs[w], q) EXCEPT !.pc = "sync", !.at = None,
                                                  !.tagged = @ \cup {d.key}]
<1>0. PICK d \in found \cup (IF found = {} THEN {new} ELSE {}) :
        \E q \in {<<>>, <<d>>} : Goes(w, To(d, q))
  BY DEF FindDevice
<1>1. PICK q \in {<<>>, <<d>>} : Goes(w, To(d, q))
  BY <1>0
<1>2. /\ jobs[w] \in Job /\ JobOK(jobs[w]) /\ jobs[w].pc = "device" /\ Running(w)
      /\ e \in Elem /\ e \notin jobs[w].todo /\ e.action = "create" /\ e.name \in Devices
      /\ e.name # None /\ e.site \in Sites /\ e.data \in Data
  <2>1. jobs[w].pc = "device" /\ Running(w)
    BY DEF FindDevice, Ready, Running
  <2> QED BY <2>1, JobIs, NamesAssumption DEF JobOK, Creating, Elem
<1>3. \A c \in found : c \in DeviceRow /\ c.name = e.name /\ c \in Named(w, e.name)
  BY <1>2, NamedIs DEF Matching
<1>4. new \in DeviceRow /\ new.name = e.name /\ new.key = <<"device", next_id>>
  <2>1. <<"device", next_id>> \in {"device"} \X Int
    BY DEF TypeInv
  <2>2. new = [key |-> <<"device", next_id>>, name |-> e.name, site |-> e.site, data |-> e.data,
               flagged |-> FALSE]
    BY DeviceIs
  <2> QED BY <1>2, <2>1, <2>2 DEF DeviceRow
<1>5. Found(w, e, d)
  <2>1. CASE found = {}
    BY <1>2, <1>4, <2>1 DEF Found, FindDevice
  <2>2. CASE found # {}
    BY <1>2, <1>3, <2>2 DEF Found, FindDevice
  <2> QED BY <2>1, <2>2
<1>6. d \in DeviceRow /\ d \in Row /\ d.key \in Keys
  BY <1>5 DEF Found, Row, Keys
<1> HIDE DEF found, new
<1>7. q \in Seq(Row) /\ \A k : k.saves = q => SavesOf(k) \subseteq {d}
  BY <1>6, SeqsAre
<1> DEFINE j == To(d, q)
<1>8. /\ j \in Job /\ j.pc = "sync" /\ j.todo = jobs[w].todo /\ j.wrote = jobs[w].wrote
      /\ j.saves = q
  BY <1>2, <1>6, <1>7 DEF Saving, Job
<1>9. Goes(w, j)
  BY <1>1
<1> HIDE DEF j
<1>10. JobOK(j) /\ Pending(j) = Pending(jobs[w]) \ {e} /\ e \in Pending(jobs[w])
  BY <1>2, <1>8 DEF JobOK, Creating, Pending
<1>11. Becomes(w, j)
  BY <1>2, <1>8, <1>9, <1>10, JobBecomes
<1> QED BY <1>5, <1>6, <1>7, <1>8, <1>10, <1>11 DEF DeviceStep

LEMMA DevicesAreFound ==
  ASSUME TypeInv, NEW w \in Workers, NEW e \in Current(w), NEW d \in Get(w, e), NEW r,
         NEW q \in {<<>>, <<r>>}, ~ IsSite(e), e.action # "create",
         r \in DeviceRow, r.name = d.name, r.key = d.key,
         Ready(w, "sync"), next_id' = next_id, Goes(w, Saving(Begun(jobs[w], e), q))
  PROVE  DeviceStep(w)
<1>1. d \in Named(w, e.name) /\ Single(Named(w, e.name)) /\ e.name # None
  BY DEF Get, IsSite
<1>2. Found(w, e, r)
  BY <1>1, NamedIs DEF Found
<1>3. q \in Seq(Row) /\ \A k : k.saves = q => SavesOf(k) \subseteq {r}
  BY SeqsAre DEF Row
<1> DEFINE j == Saving(Begun(jobs[w], e), q)
<1>4. /\ j \in Job /\ JobOK(j) /\ j.pc = "sync" /\ j.wrote = jobs[w].wrote /\ j.saves = q
      /\ Pending(j) = Pending(jobs[w]) \ {e} /\ e \in Pending(jobs[w]) /\ Running(w)
  BY <1>3, BegunIs
<1> HIDE DEF j
<1>5. Becomes(w, j)
  BY <1>4, JobBecomes DEF j
<1> QED BY <1>2, <1>3, <1>4, <1>5 DEF DeviceStep

LEMMA UpdateIs ==
  ASSUME TypeInv, NEW w \in Workers, UpdateDevice(w)
  PROVE  DeviceStep(w)
<1>1. PICK e \in Current(w) : \E d \in Get(w, e) :
        /\ ~ IsSite(e) /\ e.action = "update"
        /\ Goes(w, Saving(Begun(jobs[w], e),
             <<[d EXCEPT !.data    = IF "data" \in e.attrs THEN e.data ELSE @,
                         !.flagged = IF "flagged" \in e.attrs THEN FALSE ELSE @]>>))
  BY DEF UpdateDevice
<1>2. PICK d \in Get(w, e) :
        Goes(w, Saving(Begun(jobs[w], e),
             <<[d EXCEPT !.data    = IF "data" \in e.attrs THEN e.data ELSE @,
                         !.flagged = IF "flagged" \in e.attrs THEN FALSE ELSE @]>>))
  BY <1>1
<1> DEFINE r == [d EXCEPT !.data    = IF "data" \in e.attrs THEN e.data ELSE @,
                          !.flagged = IF "flagged" \in e.attrs THEN FALSE ELSE @]
<1>3. Ready(w, "sync") /\ next_id' = next_id
  BY DEF UpdateDevice
<1>4. e \in Elem /\ e.data \in Data /\ e.name # None
  BY <1>1, JobIs, NamesAssumption DEF Elem, IsSite
<1>5. d \in DeviceRow
  BY <1>4, NamedIs DEF Get
<1>6. r \in DeviceRow /\ r.name = d.name /\ r.key = d.key
  BY <1>4, <1>5 DEF DeviceRow
<1>7. Goes(w, Saving(Begun(jobs[w], e), <<r>>))
  BY <1>2
<1> HIDE DEF r
<1> QED BY <1>1, <1>3, <1>6, <1>7, DevicesAreFound

LEMMA DeleteIs ==
  ASSUME TypeInv, NEW w \in Workers, DeleteDevice(w)
  PROVE  DeviceStep(w)
<1>1. PICK e \in Current(w) : \E d \in Get(w, e) :
        /\ ~ IsSite(e) /\ e.action = "delete"
        /\ Goes(w, Saving(Begun(jobs[w], e),
                          IF d.flagged THEN <<>> ELSE <<[d EXCEPT !.flagged = TRUE]>>))
  BY DEF DeleteDevice
<1>2. PICK d \in Get(w, e) :
        Goes(w, Saving(Begun(jobs[w], e),
                       IF d.flagged THEN <<>> ELSE <<[d EXCEPT !.flagged = TRUE]>>))
  BY <1>1
<1> DEFINE r == [d EXCEPT !.flagged = TRUE]
           q == IF d.flagged THEN <<>> ELSE <<r>>
<1>3. Ready(w, "sync") /\ next_id' = next_id
  BY DEF DeleteDevice
<1>4. d \in DeviceRow
  BY <1>1, NamedIs DEF Get, IsSite
<1>5. r \in DeviceRow /\ r.name = d.name /\ r.key = d.key
  BY <1>4 DEF DeviceRow
<1>6. Goes(w, Saving(Begun(jobs[w], e), q)) /\ q \in {<<>>, <<r>>}
  BY <1>2
<1> HIDE DEF r, q
<1> QED BY <1>1, <1>3, <1>5, <1>6, DevicesAreFound

(* Every step is one of these.                                             *)
LEMMA WorkerSteps ==
  ASSUME TypeInv, [Next]_vars
  PROVE  \/ UNCHANGED <<rows, tagged, next_id, jobs, overlap, beside>>
         \/ \E w \in Workers : \/ StartJob(w) \/ Load(w) \/ SavesRow(w) \/ PlainStep(w)
                               \/ DeviceStep(w) \/ Cleared(w) \/ Commit(w)
<1>1. CASE UNCHANGED vars
  BY <1>1 DEF vars
<1>2. ASSUME NEW w \in Workers, MultipleObjectsReturned(w) \/ Deadlock(w) \/ Abort(w)
      PROVE  Cleared(w)
  <2>1. Goes(w, Idle) /\ Running(w) /\ next_id' = next_id
    BY <1>2 DEF MultipleObjectsReturned, Deadlock, Abort
  <2>2. Idle \in Job /\ JobOK(Idle)
    BY RowsAre DEF JobOK, Idle, Creating
  <2> QED BY <2>1, <2>2, JobBecomes DEF Cleared
<1>3. ASSUME NEW w \in Workers, Works(w)
      PROVE  \/ StartJob(w) \/ Load(w) \/ SavesRow(w) \/ PlainStep(w)
             \/ DeviceStep(w) \/ Cleared(w) \/ Commit(w)
  BY <1>2, <1>3, SaveRowIs, SitesArePlain, FindTypeIsPlain, FindRoleIsPlain, FindDeviceIs,
     UpdateIs, DeleteIs DEF Works
<1>4. CASE Next
  BY <1>2, <1>3, <1>4 DEF Next
<1> QED BY <1>1, <1>4

-----------------------------------------------------------------------------
(* The invariant                                                           *)

Loading == [Idle EXCEPT !.pc = "load"]

LEMMA StartIs ==
  ASSUME TypeInv, NEW w \in Workers, StartJob(w)
  PROVE  /\ jobs[w] = Idle /\ jobs' = [jobs EXCEPT ![w] = Loading] /\ jobs'[w] = Loading
         /\ JobOK(Loading) /\ Loading \in Job
<1>1. jobs[w] = Idle
  BY JobIs DEF StartJob, Running, JobOK
<1>2. JobOK(Loading) /\ Loading \in Job
  BY RowsAre DEF Loading, JobOK, Idle, Job, Creating
<1> QED BY <1>1, <1>2 DEF StartJob, Loading, TypeInv

LEMMA LoadIs ==
  ASSUME TypeInv, NEW w \in Workers, Load(w)
  PROVE  \E S \in Snapshots, o \in Options : \E L \in Loads(w, o), j \in Job :
           /\ JobOK(j) /\ jobs' = [jobs EXCEPT ![w] = j] /\ jobs'[w] = j
           /\ j.wrote = {} /\ j.saves = <<>> /\ Pending(j) = DiffFrom(S, L)
           /\ beside' = beside \cup Misplaced(w, S, o) /\ jobs[w] = Loading
           /\ jobs[w].wrote = {}
<1>1. PICK S \in Snapshots, o \in Options : \E L \in Loads(w, o) :
        /\ jobs' = [jobs EXCEPT ![w].pc = "sync", ![w].todo = DiffFrom(S, L),
                                ![w].listed = {x.site : x \in {x \in S : IsSite(x)}}]
        /\ beside' = beside \cup Misplaced(w, S, o)
  BY DEF Load
<1>2. PICK L \in Loads(w, o) :
        /\ jobs' = [jobs EXCEPT ![w].pc = "sync", ![w].todo = DiffFrom(S, L),
                                ![w].listed = {x.site : x \in {x \in S : IsSite(x)}}]
        /\ beside' = beside \cup Misplaced(w, S, o)
  BY <1>1
<1>3. jobs[w] = Loading /\ jobs[w] \in Job
  BY JobIs DEF Load, JobOK, Loading
<1>4. \A x \in S : x \in Item /\ x.site \in Sites
  BY SnapshotsAssumption DEF Item
<1>5. DiffFrom(S, L) \subseteq Elem
  <2>1. \A x \in S : Element(x, "create", {}) \in Elem
    BY <1>4 DEF Element, Elem, Item
  <2>2. ASSUME NEW y \in L PROVE Element(y, "delete", {}) \in Elem
    <3>1. y \in Row /\ y.site \in {r.site : r \in {r \in Seen(w) : r.key[1] = "site"}}
      BY JobIs DEF Loads, InScope
    <3>2. \A r \in Seen(w) : r.key[1] = "site" => r.site \in Sites
      BY JobIs, RowsAre DEF Row
    <3>3. y.site \in Sites /\ y.name \in Devices \cup {None} /\ y.data \in Data \cup {None}
          /\ (y.name = None <=> y.data = None)
      BY <3>1, <3>2, RowsAre, NamesAssumption
    <3> QED BY <3>3 DEF Element, Elem
  <2>3. ASSUME NEW x \in S, NEW y \in L PROVE Element(x, "update", Changed(x, y)) \in Elem
    BY <1>4 DEF Element, Elem, Item, Changed
  <2> QED BY <2>1, <2>2, <2>3 DEF DiffFrom
<1> DEFINE H == {x.site : x \in {x \in S : IsSite(x)}}
           E == DiffFrom(S, L)
           j == [Loading EXCEPT !.pc = "sync", !.todo = E, !.listed = H]
<1>6. H \subseteq Sites /\ E \subseteq Elem
  BY <1>4, <1>5
<1> HIDE DEF H, E
<1>7. j \in Job /\ j.pc = "sync" /\ j.todo = E /\ j.wrote = {} /\ j.saves = <<>>
      /\ Loading.wrote = {}
  BY <1>3, <1>6 DEF Loading, Idle, Job
<1>8. jobs' = [jobs EXCEPT ![w] = j] /\ jobs'[w] = j
  <2>1. jobs' = [jobs EXCEPT ![w].pc = "sync", ![w].todo = E, ![w].listed = H]
    BY <1>2 DEF E, H
  <2> QED BY <1>3, <2>1 DEF TypeInv
<1> HIDE DEF j
<1>9. JobOK(j) /\ Pending(j) = DiffFrom(S, L)
  BY <1>7 DEF JobOK, Creating, Pending, E
<1> QED BY <1>2, <1>3, <1>7, <1>8, <1>9

LEMMA CommitIs ==
  ASSUME TypeInv, NEW w \in Workers, Commit(w)
  PROVE  jobs' = [jobs EXCEPT ![w] = Idle] /\ jobs'[w] = Idle /\ JobOK(Idle) /\ Idle \in Job
         /\ rows' = Seen(w) /\ next_id' = next_id /\ jobs[w].pc = "sync" /\ jobs[w].todo = {}
         /\ jobs[w].saves = <<>> /\ SavesOf(jobs[w]) = {}
BY RowsAre DEF Commit, Ready, TypeInv, JobOK, Idle, Creating, SavesOf

LEMMA TypesKept == ASSUME TypeInv, [Next]_vars PROVE TypeInv'
<1>1. CASE UNCHANGED <<rows, tagged, next_id, jobs, overlap, beside>>
  BY <1>1 DEF TypeInv
<1>2. ASSUME NEW w \in Workers, NEW j \in Job, JobOK(j), jobs' = [jobs EXCEPT ![w] = j]
      PROVE  jobs' \in [Workers -> Job] /\ \A u \in Workers : JobOK(jobs'[u])
  BY <1>2 DEF TypeInv
<1>3. ASSUME NEW w \in Workers, StartJob(w) PROVE TypeInv'
  BY <1>2, <1>3, StartIs DEF TypeInv, StartJob
<1>4. ASSUME NEW w \in Workers, Load(w) PROVE TypeInv'
  <2>1. jobs' \in [Workers -> Job] /\ (\A u \in Workers : JobOK(jobs'[u])) /\ beside' \subseteq Devices
    BY <1>2, <1>4, LoadIs DEF TypeInv, Misplaced
  <2> QED BY <1>4, <2>1 DEF TypeInv, Load
<1>5. ASSUME NEW w \in Workers, SavesRow(w) \/ PlainStep(w) \/ DeviceStep(w) \/ Cleared(w)
      PROVE  TypeInv'
  <2>1. PICK j \in Job : Becomes(w, j)
    BY <1>5, RowsAre DEF SavesRow, PlainStep, DeviceStep, Cleared
  <2>2. next_id' \in {next_id, next_id + 1}
    BY <1>5 DEF SavesRow, PlainStep, DeviceStep, Cleared, Found
  <2> QED BY <1>2, <2>1, <2>2 DEF Becomes, TypeInv
<1>6. ASSUME NEW w \in Workers, Commit(w) PROVE TypeInv'
  <2>1. rows' \subseteq Row /\ tagged' \subseteq Keys
    BY <1>6, JobIs DEF Commit, Tagged, TypeInv
  <2> QED BY <1>2, <1>6, <2>1, CommitIs DEF Commit, TypeInv
<1> QED BY <1>1, <1>3, <1>4, <1>5, <1>6, WorkerSteps

(* Every version of a row there is, committed or not. No key stands for    *)
(* two names, or for two rows of one table; no two jobs hold one lock; and *)
(* a device that is not committed is known to the job that made it alone.  *)
All         == rows \cup UNION {Versions(w) : w \in Workers}
Committed(key) == \E r \in rows : r.key = key

UniqueKeys == /\ \A r, s \in rows : r.key = s.key => r = s
              /\ \A w \in Workers : \A r, s \in jobs[w].wrote : r.key = s.key => r = s
OldKeys    == \A d \in All \cap DeviceRow : d.key[2] < next_id
NamesKept  == \A c, d \in All : c.key = d.key => c.name = d.name
Exclusive  == \A w, u \in Workers : w # u => Locks(w) \cap Locks(u) = {}
Owned      == \A w, u \in Workers : \A v \in Versions(w) \cap DeviceRow, x \in Versions(u) :
                w # u /\ x.key = v.key => Committed(v.key)
Inv == TypeInv /\ UniqueKeys /\ OldKeys /\ NamesKept /\ Exclusive /\ Owned

(* A step that commits nothing keeps the invariant if what the job then    *)
(* has is what it had, a row that is no device, a device that it sees, or  *)
(* a new one; and if what it writes no other job has locked.               *)
Keeps(w) ==
  /\ rows' = rows /\ \A u \in Workers \ {w} : jobs'[u] = jobs[u]
  /\ next_id' \in {next_id, next_id + 1}
  /\ \A v \in Versions(w)' :
       \/ v \in Versions(w) \/ v \in OtherRow
       \/ /\ v \in DeviceRow
          /\ \/ \E d \in Seen(w) : d.key = v.key /\ d.name = v.name
             \/ v.key = <<"device", next_id>> /\ next_id' = next_id + 1
  /\ \A u, v \in Versions(w)' : u.key = <<"device", next_id>> /\ v.key = u.key => u.name = v.name
  /\ \A r, s \in jobs'[w].wrote : r.key = s.key => r = s
  /\ \A r \in jobs'[w].wrote : r \in jobs[w].wrote
                               \/ \A u \in Workers \ {w} : r.key \notin Locks(u)

LEMMA VersionsAre ==
  ASSUME TypeInv
  PROVE  /\ \A w \in Workers : Versions(w) \subseteq Row /\ Seen(w) \subseteq rows \cup Versions(w)
         /\ All \subseteq Row /\ \A w \in Workers : Versions(w) \subseteq All /\ Seen(w) \subseteq All
BY JobIs DEF Versions, All, Seen, TypeInv

LEMMA KeepersKeep ==
  ASSUME Inv, TypeInv', NEW w \in Workers, Keeps(w)
  PROVE  Inv'
<1> DEFINE new == <<"device", next_id>>
           Old(v) == \E d \in Seen(w) : d.key = v.key /\ d.name = v.name
<1>1. TypeInv /\ next_id \in Int
  BY DEF Inv, TypeInv
<1>2. /\ \A u \in Workers \ {w} : Versions(u)' = Versions(u) /\ Locks(u)' = Locks(u)
      /\ \A key : Committed(key)' = Committed(key)
  BY DEF Keeps, Versions, SavesOf, Locks, Committed
<1>3. ASSUME NEW v \in All PROVE v.key # new
  <2>1. CASE v \in DeviceRow
    BY <1>1, <2>1, RowsAre DEF Inv, OldKeys
  <2>2. CASE v \in OtherRow
    BY <2>2, RowsAre
  <2> QED BY <1>1, <2>1, <2>2, VersionsAre DEF Row
<1>4. ASSUME NEW v \in All' PROVE \/ v \in All \/ v \in OtherRow \/ (v \in DeviceRow /\ Old(v))
                                  \/ (v \in DeviceRow /\ v.key = new /\ next_id' = next_id + 1
                                      /\ v \in Versions(w)')
  <2>1. CASE v \in rows'
    BY <2>1 DEF Keeps, All
  <2>2. CASE \E u \in Workers \ {w} : v \in Versions(u)'
    BY <1>2, <2>2 DEF All
  <2>3. CASE v \in Versions(w)'
    BY <2>3 DEF Keeps, All
  <2> QED BY <2>1, <2>2, <2>3 DEF All
<1>5. UniqueKeys'
  <2>1. \A u \in Workers : \A r, s \in jobs'[u].wrote : r.key = s.key => r = s
    BY DEF Inv, UniqueKeys, Keeps
  <2> QED BY <2>1 DEF Inv, UniqueKeys, Keeps
<1>6. OldKeys'
  <2>1. ASSUME NEW d \in All', d \in DeviceRow PROVE d.key[2] < next_id'
    <3>1. next_id' >= next_id /\ d \notin OtherRow
      BY <1>1, <2>1, RowsAre DEF Keeps
    <3>2. d.key = new /\ next_id' = next_id + 1 => d.key[2] < next_id'
      BY <1>1
    <3>3. \A c \in All : c.key = d.key => d.key[2] < next_id
      <4>1. ASSUME NEW c \in All, c.key = d.key PROVE c \in DeviceRow
        BY <1>1, <2>1, <4>1, VersionsAre, RowsAre DEF Row
      <4> QED BY <4>1 DEF Inv, OldKeys
    <3>4. d.key[2] \in Int
      BY <2>1, RowsAre
    <3> QED BY <1>1, <1>4, <3>1, <3>2, <3>3, <3>4, VersionsAre DEF Keeps
  <2> QED BY <2>1 DEF OldKeys
<1>7. NamesKept'
  <2>1. ASSUME NEW v \in All'
        PROVE  \/ v.name = None /\ v.key[1] # "device"
               \/ \E d \in All : d.key = v.key /\ d.name = v.name
               \/ v \in Versions(w)' /\ v.key = new /\ v \in DeviceRow /\ next_id' = next_id + 1
    BY <1>1, <1>4, RowsAre, VersionsAre
  <2>2. ASSUME NEW c \in All', NEW d \in All', c.key = d.key, c.name = None, c.key[1] # "device"
        PROVE  d.name = None
    BY <1>1, <2>1, <2>2, RowsAre, VersionsAre DEF Row
  <2>3. ASSUME NEW c \in All', NEW d \in All', c.key = d.key,
               \E e \in All : e.key = c.key /\ e.name = c.name,
               \E e \in All : e.key = d.key /\ e.name = d.name
        PROVE  c.name = d.name
    BY <2>3 DEF Inv, NamesKept
  <2>4. ASSUME NEW c \in All', NEW d \in All', c.key = d.key, c.key = new,
               c \in Versions(w)', d \in Versions(w)'
        PROVE  c.name = d.name
    BY <2>4 DEF Keeps
  <2>5. ASSUME NEW c \in All', NEW d \in All', c.key = d.key PROVE c.name = d.name
    BY <1>3, <2>1, <2>2, <2>3, <2>4, <2>5
  <2> QED BY <2>5 DEF NamesKept
<1>8. Exclusive'
  <2>1. ASSUME NEW u \in Workers \ {w} PROVE Locks(w)' \cap Locks(u)' = {}
    BY <1>2 DEF Inv, Exclusive, Keeps, Locks
  <2>2. \A u, x \in Workers \ {w} : u # x => Locks(u)' \cap Locks(x)' = {}
    BY <1>2 DEF Inv, Exclusive
  <2> QED BY <2>1, <2>2 DEF Exclusive
<1>9. Owned'
  <2>1. ASSUME NEW v \in Versions(w)', v \in DeviceRow, NEW u \in Workers \ {w},
               NEW x \in Versions(u), x.key = v.key
        PROVE  Committed(v.key)
    <3>1. v \notin OtherRow /\ v.key # new
      BY <1>1, <1>3, <2>1, RowsAre, VersionsAre
    <3>2. CASE v \in Versions(w)
      BY <2>1, <3>2 DEF Inv, Owned
    <3>3. CASE v \notin Versions(w)
      <4>1. PICK d \in Seen(w) : d.key = v.key
        BY <3>1, <3>3 DEF Keeps
      <4>2. CASE d \in rows
        BY <4>1, <4>2 DEF Committed
      <4>3. CASE d \in Versions(w)
        <5>1. d \in DeviceRow
          BY <1>1, <2>1, <4>1, <4>3, RowsAre, VersionsAre DEF Row
        <5> QED BY <2>1, <4>1, <4>3, <5>1 DEF Inv, Owned
      <4> QED BY <1>1, <4>2, <4>3, VersionsAre
    <3> QED BY <3>2, <3>3
  <2>2. ASSUME NEW v \in Versions(w)', NEW u \in Workers \ {w}, NEW x \in Versions(u),
               x \in DeviceRow, x.key = v.key
        PROVE  v \in DeviceRow
    <3>1. v \in All'
      BY DEF All
    <3> QED BY <1>1, <1>4, <2>2, <3>1, RowsAre, VersionsAre DEF Row
  <2>3. ASSUME NEW u \in Workers, NEW y \in Workers, u # y, NEW v \in Versions(u)',
               v \in DeviceRow, NEW x \in Versions(y)', x.key = v.key
        PROVE  Committed(v.key)
    <3>1. CASE u = w
      BY <1>2, <2>1, <2>3, <3>1
    <3>2. CASE y = w
      BY <1>2, <2>1, <2>2, <2>3, <3>2
    <3>3. CASE u # w /\ y # w
      BY <1>2, <2>3, <3>3 DEF Inv, Owned
    <3> QED BY <3>1, <3>2, <3>3
  <2> QED BY <1>2, <2>3 DEF Owned
<1> QED BY <1>5, <1>6, <1>7, <1>8, <1>9 DEF Inv

LEMMA HandlersKeep ==
  ASSUME Inv, NEW w \in Workers,
         SavesRow(w) \/ PlainStep(w) \/ DeviceStep(w) \/ Cleared(w) \/ StartJob(w) \/ Load(w)
  PROVE  Keeps(w)
<1>1. TypeInv /\ next_id \in Int /\ jobs \in [Workers -> Job]
      /\ \A r, s \in jobs[w].wrote : r.key = s.key => r = s
  BY DEF Inv, TypeInv, UniqueKeys
<1>2. \A u \in Workers \ {w} : \A r \in jobs[w].wrote : r.key \notin Locks(u)
  BY DEF Inv, Exclusive, Locks
<1>3. \A v \in Versions(w) : v.key # <<"device", next_id>>
  <2>1. ASSUME NEW v \in Versions(w) PROVE v.key # <<"device", next_id>>
    <3>1. CASE v \in DeviceRow
      <4>1. v.key[2] < next_id
        BY <1>1, <3>1, VersionsAre DEF Inv, OldKeys
      <4> QED BY <1>1, <4>1
    <3>2. CASE v \in OtherRow
      BY <3>2, RowsAre
    <3> QED BY <1>1, <3>1, <3>2, VersionsAre DEF Row
  <2> QED BY <2>1
<1>4. \A r \in OtherRow : r.key # <<"device", next_id>>
  BY RowsAre
<1>5. CASE SavesRow(w)
  <2>1. PICK j \in Job, r \in SavesOf(jobs[w]) :
          /\ Becomes(w, j) /\ SavesOf(j) \subseteq SavesOf(jobs[w]) /\ r \in Row
          /\ j.wrote = {v \in jobs[w].wrote : v.key # r.key} \cup {r}
          /\ \A u \in Workers \ {w} : r.key \notin Locks(u)
          /\ next_id' = next_id
    BY <1>5 DEF SavesRow
  <2>2. Versions(w)' \subseteq Versions(w) /\ jobs'[w].wrote = j.wrote
    BY <2>1 DEF Becomes, Versions, SavesOf
  <2> QED BY <1>1, <1>2, <1>3, <2>1, <2>2 DEF Keeps, Becomes
<1>6. CASE PlainStep(w) \/ Cleared(w)
  <2>1. PICK j \in Job : /\ Becomes(w, j) /\ j.wrote \subseteq jobs[w].wrote
                         /\ SavesOf(j) \subseteq OtherRow /\ next_id' = next_id
    <3>1. Idle \in Job /\ Idle.wrote = {} /\ SavesOf(Idle) = {}
      BY RowsAre DEF Idle, SavesOf
    <3> QED BY <1>6, <3>1 DEF PlainStep, Cleared
  <2>2. Versions(w)' \subseteq Versions(w) \cup OtherRow /\ jobs'[w].wrote = j.wrote
    BY <2>1 DEF Becomes, Versions, SavesOf
  <2> QED BY <1>1, <1>2, <1>3, <1>4, <2>1, <2>2 DEF Keeps, Becomes
<1>7. CASE DeviceStep(w)
  <2>1. PICK j \in Job, e \in Pending(jobs[w]), r \in DeviceRow :
          /\ Becomes(w, j) /\ j.wrote = jobs[w].wrote /\ SavesOf(j) \subseteq {r} /\ Found(w, e, r)
    BY <1>7 DEF DeviceStep
  <2>2. Versions(w)' \subseteq Versions(w) \cup {r} /\ jobs'[w].wrote = jobs[w].wrote
    BY <2>1 DEF Becomes, Versions, SavesOf
  <2>3. \/ next_id' = next_id /\ \E d \in Seen(w) : d.key = r.key /\ d.name = r.name
        \/ next_id' = next_id + 1 /\ r.key = <<"device", next_id>>
    BY <2>1 DEF Found, Named
  <2> QED BY <1>1, <1>2, <1>3, <2>1, <2>2, <2>3 DEF Keeps, Becomes
<1>8. CASE StartJob(w) \/ Load(w)
  <2>1. jobs'[w].wrote = {} /\ SavesOf(jobs'[w]) = {} /\ \A u \in Workers \ {w} : jobs'[u] = jobs[u]
    BY <1>1, <1>8, StartIs, LoadIs DEF Loading, Idle, SavesOf
  <2>2. Versions(w)' = {} /\ rows' = rows /\ next_id' = next_id
    BY <1>8, <2>1 DEF Versions, SavesOf, StartJob, Load
  <2> QED BY <2>1, <2>2 DEF Keeps
<1> QED BY <1>5, <1>6, <1>7, <1>8

(* A commit: what the job has seen is committed.                           *)
LEMMA CommitKeeps ==
  ASSUME Inv, TypeInv', NEW w \in Workers, Commit(w)
  PROVE  Inv'
<1>1. /\ TypeInv /\ jobs' = [jobs EXCEPT ![w] = Idle] /\ rows' = Seen(w) /\ next_id' = next_id
      /\ jobs'[w] = Idle /\ \A u \in Workers \ {w} : jobs'[u] = jobs[u]
  BY CommitIs DEF Inv, TypeInv
<1>2. /\ Versions(w)' = {} /\ Locks(w)' = {}
      /\ \A u \in Workers \ {w} : Versions(u)' = Versions(u) /\ Locks(u)' = Locks(u)
  BY <1>1 DEF Versions, SavesOf, Locks, Idle
<1>3. All' \subseteq All
  BY <1>1, <1>2, VersionsAre DEF All
<1>4. UniqueKeys'
  <2>1. \A r, s \in Seen(w) : r.key = s.key => r = s
    BY DEF Inv, UniqueKeys, Seen
  <2>2. \A u \in Workers : \A r, s \in jobs'[u].wrote : r.key = s.key => r = s
    BY <1>1 DEF Inv, UniqueKeys, Idle
  <2> QED BY <1>1, <2>1, <2>2 DEF UniqueKeys
<1>5. OldKeys' /\ NamesKept'
  BY <1>1, <1>3 DEF Inv, OldKeys, NamesKept
<1>6. Exclusive'
  BY <1>2 DEF Inv, Exclusive
<1>7. Owned'
  <2>1. \A key : Committed(key) => Committed(key)'
    BY <1>1 DEF Committed, Seen
  <2> QED BY <1>2, <2>1 DEF Inv, Owned
<1> QED BY <1>4, <1>5, <1>6, <1>7 DEF Inv

LEMMA InvKept == ASSUME Inv, [Next]_vars PROVE Inv'
<1>1. TypeInv'
  BY TypesKept DEF Inv
<1>2. CASE UNCHANGED <<rows, tagged, next_id, jobs, overlap, beside>>
  <2>1. /\ \A w \in Workers : Versions(w)' = Versions(w) /\ Locks(w)' = Locks(w)
        /\ \A key : Committed(key)' = Committed(key)
    BY <1>2 DEF Versions, SavesOf, Locks, Committed
  <2>2. All' = All
    BY <1>2, <2>1 DEF All
  <2>3. UniqueKeys' /\ OldKeys' /\ NamesKept'
    BY <1>2, <2>2 DEF Inv, UniqueKeys, OldKeys, NamesKept
  <2>4. Exclusive' /\ Owned'
    BY <2>1 DEF Inv, Exclusive, Owned
  <2> QED BY <1>1, <2>3, <2>4 DEF Inv
<1>3. CASE \E w \in Workers : \/ SavesRow(w) \/ PlainStep(w) \/ DeviceStep(w) \/ Cleared(w)
                              \/ StartJob(w) \/ Load(w)
  BY <1>1, <1>3, HandlersKeep, KeepersKeep
<1>4. CASE \E w \in Workers : Commit(w)
  BY <1>1, <1>4, CommitKeeps
<1> QED BY <1>2, <1>3, <1>4, WorkerSteps DEF Inv

LEMMA InvInit == Init => Inv
<1> SUFFICES ASSUME Init PROVE Inv
  OBVIOUS
<1>1. rows \in InitialRows /\ tagged = {} /\ next_id = 1 /\ overlap = FALSE /\ beside = {}
      /\ jobs = [w \in Workers |-> Idle]
  BY DEF Init
<1>2. /\ rows \subseteq Row /\ \A d \in rows \cap DeviceRow : d.key[2] <= 0
      /\ \A r, s \in rows : r.key = s.key => r = s
  BY <1>1, RowsAssumption DEF Row
<1>3. Idle \in Job /\ JobOK(Idle) /\ Idle.wrote = {} /\ SavesOf(Idle) = {}
  BY RowsAre DEF JobOK, Idle, Creating, SavesOf
<1>4. TypeInv
  <2>1. jobs \in [Workers -> Job] /\ \A w \in Workers : JobOK(jobs[w])
    BY <1>1, <1>3
  <2>2. next_id \in Int /\ next_id > 0
    BY <1>1
  <2>3. tagged \subseteq Keys /\ beside \subseteq Devices /\ overlap \in BOOLEAN
    BY <1>1
  <2> QED BY <1>2, <2>1, <2>2, <2>3 DEF TypeInv
<1>5. \A w \in Workers : Versions(w) = {} /\ Locks(w) = {} /\ jobs[w].wrote = {}
  BY <1>1, <1>3 DEF Versions, Locks
<1>6. All = rows
  BY <1>5 DEF All
<1>7. OldKeys
  <2>1. ASSUME NEW d \in rows \cap DeviceRow PROVE d.key[2] < next_id
    BY <1>1, <1>2, RowsAre
  <2> QED BY <1>6, <2>1 DEF OldKeys
<1> QED BY <1>2, <1>4, <1>5, <1>6, <1>7 DEF Inv, UniqueKeys, NamesKept, Exclusive, Owned

(* Locks have one holder, rows one key, and devices one name for ever.     *)
THEOREM OverlapInvariant == Spec => []Inv
BY InvInit, InvKept, PTL DEF Spec

-----------------------------------------------------------------------------
(* One job at a time                                                       *)

(* For a device that was never listed beside another one of its name: one  *)
(* row of its name there is and the job sees, a job that is to create it   *)
(* sees none, and one that is about to save it saves the row it sees.      *)
OneNamed(R, n) == \A d, e \in R : d.name = n /\ e.name = n => d = e
ToCreate(w, n) == {e \in Pending(jobs[w]) : e.action = "create" /\ e.name = n}
Alone(w, n) ==
  /\ OneNamed(Seen(w), n) /\ Single(ToCreate(w, n))
  /\ \A e \in ToCreate(w, n) : /\ Named(w, n) = {}
                               /\ \A r \in SavesOf(jobs[w]) : r.name # n
  /\ \A r \in SavesOf(jobs[w]), s \in SavesOf(jobs[w]) \cup Seen(w) :
       r.name = n /\ s.name = n => r.key = s.key
Solo == /\ \A w, u \in Workers : Running(w) /\ Running(u) => w = u
        /\ \A n \in Devices \ beside : OneNamed(rows, n) /\ \A w \in Workers : Alone(w, n)
SoloInv == overlap \/ Solo

LEMMA OthersIdle ==
  ASSUME Inv, Solo, NEW w \in Workers, NEW u \in Workers \ {w}, Running(w)
  PROVE  jobs[u] = Idle
BY JobIs DEF Inv, Solo, Running, JobOK

(* A job that has nothing to do and nothing written sees what there is.    *)
LEMMA EmptyAlone ==
  ASSUME NEW w \in Workers, NEW n, OneNamed(rows, n)',
         jobs'[w].todo = {}, ~ Creating(jobs'[w]), jobs'[w].wrote = {}, jobs'[w].saves = <<>>
  PROVE  Alone(w, n)'
<1>1. Pending(jobs[w])' = {} /\ SavesOf(jobs[w])' = {} /\ Seen(w)' = rows'
  BY DEF Pending, SavesOf, Seen
<1> QED BY <1>1 DEF Alone, ToCreate, OneNamed, Single

LEMMA LoadAlone ==
  ASSUME TypeInv, NEW w \in Workers, NEW S \in Snapshots, NEW o \in Options, NEW L \in Loads(w, o),
         NEW n \in Devices, n \notin Misplaced(w, S, o)
  PROVE  \A e, f \in DiffFrom(S, L) :
           /\ e.action = "create" /\ e.name = n => Named(w, n) = {}
           /\ e.action = "create" /\ f.action = "create" /\ e.name = n /\ f.name = n => e = f
<1>1. n # None
  BY NamesAssumption
<1>2. \A e \in DiffFrom(S, L) :
        e.action = "create" => \E x \in S : e = Element(x, "create", {}) /\ \A y \in L : ~ SamePlace(x, y)
  BY DEF DiffFrom, Element
<1>3. ASSUME NEW e \in DiffFrom(S, L), e.action = "create", e.name = n PROVE Named(w, n) = {}
  <2>1. PICK x \in S : x.name = n /\ \A y \in L : ~ SamePlace(x, y)
    BY <1>2, <1>3 DEF Element
  <2>2. SUFFICES ASSUME NEW d \in Named(w, n) PROVE FALSE
    OBVIOUS
  <2>3. \A c \in Named(w, n) : c.site = x.site /\ c \in InScope(w, o)
    BY <2>1 DEF Misplaced
  <2>4. PICK q \in L : q.name = n /\ q \in InScope(w, o)
    BY <2>2, <2>3 DEF Loads, Named
  <2>5. q \in Named(w, n)
    BY <2>4 DEF InScope, Named
  <2> QED BY <2>1, <2>3, <2>4, <2>5 DEF SamePlace
<1>4. ASSUME NEW e \in DiffFrom(S, L), NEW f \in DiffFrom(S, L), e.action = "create",
             f.action = "create", e.name = n, f.name = n
      PROVE  e = f
  <2>1. PICK x \in S : e = Element(x, "create", {}) /\ x.name = n
    BY <1>2, <1>4 DEF Element
  <2>2. PICK y \in S : f = Element(y, "create", {}) /\ y.name = n
    BY <1>2, <1>4 DEF Element
  <2>3. x = y
    BY <1>1, <2>1, <2>2, SnapshotsAssumption
  <2> QED BY <2>1, <2>2, <2>3
<1> QED BY <1>3, <1>4

(* What a step does to the rows a job sees.                                *)
LEMMA SeenAfter ==
  ASSUME TypeInv, NEW w \in Workers, rows' = rows
  PROVE  /\ jobs'[w].wrote = jobs[w].wrote => Seen(w)' = Seen(w) /\ \A n : Named(w, n)' = Named(w, n)
         /\ \A r : jobs'[w].wrote = {v \in jobs[w].wrote : v.key # r.key} \cup {r} =>
                     Seen(w)' = {v \in Seen(w) : v.key # r.key} \cup {r}
<1>1. jobs'[w].wrote = jobs[w].wrote => Seen(w)' = Seen(w) /\ \A n : Named(w, n)' = Named(w, n)
  BY DEF Seen, Named
<1>2. ASSUME NEW r, jobs'[w].wrote = {v \in jobs[w].wrote : v.key # r.key} \cup {r}
      PROVE  Seen(w)' = {v \in Seen(w) : v.key # r.key} \cup {r}
  BY <1>2 DEF Seen
<1> QED BY <1>1, <1>2

LEMMA SavesRowAlone ==
  ASSUME Inv, NEW w \in Workers, NEW n \in Devices, Alone(w, n), SavesRow(w)
  PROVE  Alone(w, n)'
<1>1. PICK j \in Job, r \in SavesOf(jobs[w]) :
        /\ Becomes(w, j) /\ SavesOf(j) \subseteq SavesOf(jobs[w])
        /\ j.wrote = {v \in jobs[w].wrote : v.key # r.key} \cup {r}
        /\ Pending(j) = Pending(jobs[w])
  BY DEF SavesRow
<1>2. /\ Seen(w)' = {v \in Seen(w) : v.key # r.key} \cup {r}
      /\ SavesOf(jobs[w])' \subseteq SavesOf(jobs[w]) /\ ToCreate(w, n)' = ToCreate(w, n)
  <2>1. jobs'[w] = j /\ rows' = rows
    BY <1>1 DEF Becomes
  <2>2. SavesOf(jobs[w])' = SavesOf(j) /\ Pending(jobs[w])' = Pending(j)
    BY <2>1 DEF SavesOf, Pending, Creating
  <2>3. Seen(w)' = {v \in Seen(w) : v.key # r.key} \cup {r}
    BY <1>1, <2>1, SeenAfter DEF Inv
  <2> QED BY <1>1, <2>2, <2>3 DEF ToCreate
<1>3. OneNamed(Seen(w), n)' /\ \A s \in Seen(w)' : s.name = n => \E v \in Seen(w) \cup {r} : v = s
  BY <1>1, <1>2 DEF Alone, OneNamed
<1>4. \A e \in ToCreate(w, n)' : /\ Named(w, n)' = {}
                                /\ \A s \in SavesOf(jobs[w])' : s.name # n
  BY <1>1, <1>2 DEF Alone, Named
<1>5. \A s \in SavesOf(jobs[w])', v \in SavesOf(jobs[w])' \cup Seen(w)' :
        s.name = n /\ v.name = n => s.key = v.key
  BY <1>1, <1>2 DEF Alone
<1> QED BY <1>2, <1>3, <1>4, <1>5 DEF Alone

LEMMA PlainAlone ==
  ASSUME Inv, NEW w \in Workers, NEW n \in Devices, Alone(w, n), PlainStep(w)
  PROVE  Alone(w, n)'
<1>1. PICK j \in Job :
        /\ Becomes(w, j) /\ j.wrote = jobs[w].wrote /\ SavesOf(j) \subseteq OtherRow
        /\ Pending(j) \subseteq Pending(jobs[w])
  BY DEF PlainStep
<1>2. /\ Seen(w)' = Seen(w) /\ Named(w, n)' = Named(w, n)
      /\ SavesOf(jobs[w])' \subseteq OtherRow /\ ToCreate(w, n)' \subseteq ToCreate(w, n)
  BY <1>1, SeenAfter DEF Inv, Becomes, SavesOf, ToCreate, Pending, Creating
<1>3. \A r \in OtherRow : r.name # n
  BY RowsAre, NamesAssumption
<1> QED BY <1>2, <1>3 DEF Alone, Single, OneNamed

LEMMA DeviceAlone ==
  ASSUME Inv, NEW w \in Workers, NEW n \in Devices, Alone(w, n), DeviceStep(w)
  PROVE  Alone(w, n)'
<1>1. PICK j \in Job, e \in Pending(jobs[w]), r \in DeviceRow :
        /\ Becomes(w, j) /\ j.wrote = jobs[w].wrote /\ SavesOf(j) \subseteq {r}
        /\ Pending(j) \subseteq Pending(jobs[w]) \ {e} /\ Found(w, e, r)
  BY DEF DeviceStep
<1>2. /\ Seen(w)' = Seen(w) /\ Named(w, n)' = Named(w, n)
      /\ SavesOf(jobs[w])' \subseteq {r} /\ ToCreate(w, n)' \subseteq ToCreate(w, n) \ {e}
  BY <1>1, SeenAfter DEF Inv, Becomes, SavesOf, ToCreate, Pending, Creating
<1>3. CASE e.name # n
  BY <1>1, <1>2, <1>3 DEF Alone, Single, OneNamed, Found
<1>4. CASE e.name = n /\ e.action = "create"
  <2>1. e \in ToCreate(w, n) /\ Named(w, n) = {} /\ ToCreate(w, n)' = {}
    BY <1>1, <1>2, <1>4 DEF ToCreate, Alone, Single
  <2> QED BY <1>2, <2>1 DEF Alone, Single, OneNamed, Named
<1>5. CASE e.name = n /\ e.action # "create"
  <2>1. \E d \in Named(w, n) : d.key = r.key
    BY <1>1, <1>5 DEF Found
  <2>2. ToCreate(w, n) = {} /\ \A d \in Named(w, n) : d.key = r.key
    BY <2>1 DEF Alone, OneNamed, Named
  <2> QED BY <1>2, <2>2 DEF Alone, Single, OneNamed, Named
<1> QED BY <1>3, <1>4, <1>5

(* What a job sees and has to do is its own, as long as nothing commits.   *)
LEMMA OthersAlone ==
  ASSUME NEW u \in Workers, NEW n \in Devices, Alone(u, n), rows' = rows, jobs'[u] = jobs[u]
  PROVE  Alone(u, n)'
<1>1. Seen(u)' = Seen(u) /\ SavesOf(jobs[u])' = SavesOf(jobs[u])
  BY DEF Seen, SavesOf
<1>2. Named(u, n)' = Named(u, n)
  BY <1>1 DEF Named
<1>3. Pending(jobs[u])' = Pending(jobs[u])
  BY DEF Pending, Creating
<1>4. ToCreate(u, n)' = ToCreate(u, n)
  BY <1>3 DEF ToCreate
<1> QED BY <1>1, <1>2, <1>4 DEF Alone, Single, OneNamed

LEMMA SoloKept ==
  ASSUME Inv, Inv', SoloInv, [Next]_vars
  PROVE  SoloInv'
<1>1. TypeInv /\ jobs \in [Workers -> Job]
  BY DEF Inv, TypeInv
<1>2. CASE overlap
  <2>1. overlap' = overlap \/ overlap'
    BY <1>1, <1>2, WorkerSteps DEF StartJob, Load, SavesRow, PlainStep, DeviceStep, Cleared, Becomes,
                                   Commit
  <2> QED BY <1>2, <2>1 DEF SoloInv
<1>3. CASE Solo /\ ~ overlap
  <2>1. CASE UNCHANGED <<rows, tagged, next_id, jobs, overlap, beside>>
    <3>1. \A n \in Devices \ beside : \A u \in Workers : Alone(u, n)'
      BY <1>3, <2>1, OthersAlone DEF Solo
    <3> QED BY <1>3, <2>1, <3>1 DEF SoloInv, Solo, OneNamed, Running
  <2>2. ASSUME NEW w \in Workers, Running(w), rows' = rows, beside' = beside,
               \A u \in Workers \ {w} : jobs'[u] = jobs[u],
               \A n \in Devices \ beside : Alone(w, n)'
        PROVE  Solo'
    <3>1. \A u \in Workers \ {w} : ~ Running(u)'
      BY <1>3, <2>2 DEF Solo, Running
    <3>2. \A n \in Devices \ beside : \A u \in Workers \ {w} : Alone(u, n)'
      BY <1>3, <2>2, OthersAlone DEF Solo
    <3> QED BY <1>3, <2>2, <3>1, <3>2 DEF Solo, OneNamed
  <2>3. ASSUME NEW w \in Workers, SavesRow(w) \/ PlainStep(w) \/ DeviceStep(w) PROVE Solo'
    <3>1. \A n \in Devices \ beside : Alone(w, n)'
      BY <1>3, <2>3, SavesRowAlone, PlainAlone, DeviceAlone DEF Solo
    <3>2. PICK j \in Job : Becomes(w, j)
      BY <2>3 DEF SavesRow, PlainStep, DeviceStep
    <3> QED BY <1>1, <2>2, <3>1, <3>2 DEF Becomes
  <2>4. ASSUME NEW w \in Workers, Cleared(w) PROVE Solo'
    <3>1. /\ jobs'[w] = Idle /\ rows' = rows /\ beside' = beside /\ Running(w)
          /\ \A u \in Workers \ {w} : jobs'[u] = jobs[u]
      BY <1>1, <2>4 DEF Cleared, Becomes
    <3>2. \A n \in Devices \ beside : Alone(w, n)'
      BY <1>3, <3>1, EmptyAlone DEF Solo, OneNamed, Idle, Creating
    <3> QED BY <2>2, <3>1, <3>2
  <2>5. ASSUME NEW w \in Workers, StartJob(w) PROVE SoloInv'
    <3>1. CASE \E u \in Workers \ {w} : Running(u)
      BY <2>5, <3>1 DEF StartJob, SoloInv
    <3>2. CASE \A u \in Workers \ {w} : ~ Running(u)
      <4>1. jobs'[w] = Loading /\ rows' = rows /\ beside' = beside
            /\ \A u \in Workers \ {w} : jobs'[u] = jobs[u]
        BY <1>1, <2>5, StartIs DEF StartJob
      <4>2. \A n \in Devices \ beside : Alone(w, n)'
        BY <1>3, <4>1, EmptyAlone DEF Solo, OneNamed, Loading, Idle, Creating
      <4>3. \A n \in Devices \ beside : \A u \in Workers \ {w} : Alone(u, n)'
        BY <1>3, <4>1, OthersAlone DEF Solo
      <4>4. \A u \in Workers \ {w} : ~ Running(u)'
        BY <3>2, <4>1 DEF Running
      <4> QED BY <1>3, <4>1, <4>2, <4>3, <4>4 DEF Solo, SoloInv, OneNamed
    <3> QED BY <3>1, <3>2
  <2>6. ASSUME NEW w \in Workers, Load(w) PROVE Solo'
    <3>1. PICK S \in Snapshots, o \in Options : \E L \in Loads(w, o), j \in Job :
            /\ jobs' = [jobs EXCEPT ![w] = j] /\ jobs'[w] = j
            /\ j.wrote = {} /\ j.saves = <<>> /\ Pending(j) = DiffFrom(S, L)
            /\ beside' = beside \cup Misplaced(w, S, o) /\ jobs[w].wrote = {}
      BY <1>1, <2>6, LoadIs
    <3>2. PICK L \in Loads(w, o), j \in Job :
            /\ jobs' = [jobs EXCEPT ![w] = j] /\ jobs'[w] = j
            /\ j.wrote = {} /\ j.saves = <<>> /\ Pending(j) = DiffFrom(S, L)
            /\ beside' = beside \cup Misplaced(w, S, o) /\ jobs[w].wrote = {}
      BY <3>1
    <3>3. rows' = rows /\ Running(w) /\ \A u \in Workers \ {w} : jobs'[u] = jobs[u]
      BY <1>1, <2>6, <3>2 DEF Load, Running
    <3>4. SavesOf(jobs[w])' = {} /\ Pending(jobs[w])' = DiffFrom(S, L) /\ Seen(w)' = Seen(w)
      BY <3>2, <3>3 DEF SavesOf, Pending, Creating, Seen
    <3>5. ASSUME NEW n \in Devices \ beside' PROVE Alone(w, n)'
      <4>1. Alone(w, n) /\ n \notin Misplaced(w, S, o)
        BY <1>3, <3>2, <3>5 DEF Solo
      <4>2. \A e, f \in DiffFrom(S, L) :
              /\ e.action = "create" /\ e.name = n => Named(w, n) = {}
              /\ e.action = "create" /\ f.action = "create" /\ e.name = n /\ f.name = n => e = f
        BY <1>1, <4>1, LoadAlone
      <4> QED BY <3>4, <4>1, <4>2 DEF Alone, ToCreate, Named, OneNamed, Single
    <3>6. \A u \in Workers \ {w} : ~ Running(u)'
      BY <1>3, <3>3 DEF Solo, Running
    <3>7. \A n \in Devices \ beside' : \A u \in Workers \ {w} : Alone(u, n)'
      BY <1>3, <3>2, <3>3, OthersAlone DEF Solo
    <3> QED BY <1>3, <3>2, <3>3, <3>5, <3>6, <3>7 DEF Solo, OneNamed
  <2>7. ASSUME NEW w \in Workers, Commit(w) PROVE Solo'
    <3>1. /\ jobs'[w] = Idle /\ rows' = Seen(w) /\ beside' = beside /\ jobs[w].pc = "sync"
          /\ \A u \in Workers \ {w} : jobs'[u] = jobs[u]
      BY <1>1, <2>7, CommitIs DEF Commit
    <3>2. \A u \in Workers : jobs'[u] = Idle
      BY <1>3, <3>1, OthersIdle DEF Running
    <3>3. \A n \in Devices \ beside : OneNamed(rows, n)'
      BY <1>3, <3>1 DEF Solo, Alone, OneNamed
    <3>4. \A n \in Devices \ beside : \A u \in Workers : Alone(u, n)'
      BY <3>2, <3>3, EmptyAlone DEF Idle, Creating
    <3> QED BY <3>1, <3>2, <3>3, <3>4 DEF Solo, Running, Idle
  <2> QED BY <1>1, <2>1, <2>3, <2>4, <2>5, <2>6, <2>7, WorkerSteps DEF SoloInv
<1> QED BY <1>2, <1>3 DEF SoloInv

LEMMA SoloInit == Init => SoloInv
<1> SUFFICES ASSUME Init PROVE Solo
  BY DEF SoloInv
<1>1. jobs = [w \in Workers |-> Idle]
  BY DEF Init
<1>2. \A n \in Devices : OneNamed(rows, n)
  BY RowsAssumption, NamesAssumption DEF Init, OneNamed
<1>3. \A w \in Workers : Pending(jobs[w]) = {} /\ SavesOf(jobs[w]) = {} /\ Seen(w) = rows
  BY <1>1 DEF Pending, Creating, SavesOf, Seen, Idle
<1>4. \A n \in Devices : \A w \in Workers : Alone(w, n)
  BY <1>2, <1>3 DEF Alone, ToCreate, OneNamed, Single
<1> QED BY <1>1, <1>2, <1>4 DEF Solo, Running, Idle

(* Two devices of one name need two jobs at a time, or a job that lists    *)
(* the device where it did not find the one there was.                     *)
THEOREM TwinsNeedOverlapHolds == Spec => []TwinsNeedOverlap
<1>1. Inv /\ Inv' /\ SoloInv /\ [Next]_vars => SoloInv'
  BY SoloKept
<1>2. SoloInv => TwinsNeedOverlap
  BY DEF SoloInv, Solo, OneNamed, TwinsNeedOverlap, Twins
<1> QED BY <1>1, <1>2, SoloInit, OverlapInvariant, PTL DEF Spec
-----------------------------------------------------------------------------
Quiet == \A w \in Workers : ~ Running(w)
(* One of several devices of one name, of which no job has another version.*)
Stay(n, d) == TwinsAlone(n) /\ d \in rows /\ d.name = n

LEMMA TwinsSeen ==
  ASSUME NEW n \in Devices, NEW w \in Workers, Twins(n), LeftAlone(w, n)
  PROVE  (\A r \in rows : r.name = n => r \in Seen(w)) /\ ~ Single(Named(w, n))
<1>1. ASSUME NEW r \in rows, r.name = n PROVE r \in Seen(w)
  <2>1. CASE \A v \in jobs[w].wrote : v.key # r.key
    BY <2>1 DEF Seen
  <2>2. CASE \E v \in jobs[w].wrote : v.key = r.key
    BY <1>1, <2>2 DEF LeftAlone, Versions, Seen
  <2> QED BY <2>1, <2>2
<1> QED BY <1>1 DEF Twins, Single, Named

(* A step that commits nothing.                                            *)
LEMMA StayIf ==
  ASSUME NEW n \in Devices, NEW d, Stay(n, d), NEW w \in Workers,
         rows' = rows, \A u \in Workers \ {w} : jobs'[u] = jobs[u],
         \A v \in Versions(w)', r \in rows : r.name = n /\ v.key = r.key => v = r
  PROVE  Stay(n, d)'
<1>1. \A u \in Workers \ {w} : Versions(u)' = Versions(u)
  BY DEF Versions, SavesOf
<1> QED BY <1>1 DEF Stay, TwinsAlone, LeftAlone, Twins

LEMMA DeviceStays ==
  ASSUME Inv, NEW n \in Devices, NEW w \in Workers, Twins(n), LeftAlone(w, n), DeviceStep(w)
  PROVE  \A v \in Versions(w)', r \in rows : r.name = n /\ v.key = r.key => v = r
<1>1. PICK j \in Job, e \in Pending(jobs[w]), d \in DeviceRow :
        /\ Becomes(w, j) /\ j.wrote = jobs[w].wrote /\ SavesOf(j) \subseteq {d} /\ Found(w, e, d)
  BY DEF DeviceStep
<1>2. Versions(w)' \subseteq Versions(w) \cup {d}
  BY <1>1 DEF Becomes, Versions, SavesOf
<1>3. ASSUME NEW r \in rows, r.name = n, d.key = r.key PROVE d = r
  <2>1. r \in Seen(w) /\ ~ Single(Named(w, n)) /\ r \in DeviceRow /\ r \in All
    BY <1>3, TwinsSeen, RowsAre, NamesAssumption DEF Inv, TypeInv, All
  <2>2. \A c \in Seen(w) : c.key = r.key => c = r
    BY <2>1 DEF Inv, UniqueKeys, Seen
  <2>3. d.key # <<"device", next_id>>
    <3>1. r.key[2] < next_id /\ r.key[2] \in Int /\ next_id \in Int
      BY <2>1, RowsAre DEF Inv, OldKeys, TypeInv
    <3> QED BY <1>3, <3>1
  <2>4. CASE e.action = "create"
    BY <1>1, <1>3, <2>2, <2>3, <2>4 DEF Found, Named
  <2>5. CASE e.action # "create"
    <3>1. PICK c \in Named(w, e.name) : c.key = d.key /\ Single(Named(w, e.name))
      BY <1>1, <2>5 DEF Found
    <3>2. c = r /\ c.name = e.name
      BY <1>3, <2>2, <3>1 DEF Named
    <3> QED BY <1>3, <2>1, <3>1, <3>2
  <2> QED BY <2>4, <2>5
<1> QED BY <1>2, <1>3 DEF LeftAlone

LEMMA CommitStays ==
  ASSUME Inv, NEW n \in Devices, NEW d, Stay(n, d),
         NEW w \in Workers, Commit(w)
  PROVE  Stay(n, d)'
<1>1. /\ TypeInv /\ jobs'[w] = Idle /\ rows' = Seen(w)
      /\ \A u \in Workers \ {w} : jobs'[u] = jobs[u]
  BY CommitIs DEF Inv, TypeInv
<1>2. Versions(w)' = {} /\ \A u \in Workers \ {w} : Versions(u)' = Versions(u)
  BY <1>1 DEF Versions, SavesOf, Idle
<1>3. Twins(n)' /\ d \in rows'
  BY <1>1, TwinsSeen DEF Stay, TwinsAlone, Twins
<1>4. ASSUME NEW u \in Workers \ {w}, NEW v \in Versions(u), NEW r \in Seen(w), r.name = n,
             v.key = r.key
      PROVE  v = r
  <2>1. CASE r \in rows
    BY <1>4, <2>1 DEF Stay, TwinsAlone, LeftAlone
  <2>2. CASE r \notin rows
    <3>1. r \in Versions(w) /\ r \in DeviceRow /\ r \in All
      BY <1>1, <1>4, <2>2, VersionsAre, RowsAre, NamesAssumption DEF Seen, Versions, Row
    <3>2. PICK q \in rows : q.key = r.key
      BY <1>4, <3>1 DEF Inv, Owned, Committed
    <3>3. q \in All /\ q.name = n
      BY <1>4, <3>1, <3>2 DEF Inv, NamesKept, All
    <3> QED BY <2>2, <3>1, <3>2, <3>3 DEF Stay, TwinsAlone, LeftAlone
  <2> QED BY <2>1, <2>2
<1> QED BY <1>1, <1>2, <1>3, <1>4 DEF Stay, TwinsAlone, LeftAlone

LEMMA StayKept ==
  ASSUME Inv, NEW n \in Devices, NEW d, Stay(n, d), [Next]_vars
  PROVE  Stay(n, d)'
<1>1. TypeInv /\ jobs \in [Workers -> Job]
  BY DEF Inv, TypeInv
<1>2. CASE UNCHANGED <<rows, tagged, next_id, jobs, overlap, beside>>
  <2>1. \A w \in Workers : Versions(w)' = Versions(w)
    BY <1>2 DEF Versions, SavesOf
  <2> QED BY <1>2, <2>1 DEF Stay, TwinsAlone, LeftAlone, Twins
<1>3. ASSUME NEW w \in Workers,
             SavesRow(w) \/ PlainStep(w) \/ Cleared(w) \/ StartJob(w) \/ Load(w)
      PROVE  Stay(n, d)'
  <2>1. rows' = rows /\ \A u \in Workers \ {w} : jobs'[u] = jobs[u]
    BY <1>3, HandlersKeep DEF Keeps
  <2>2. Versions(w)' \subseteq Versions(w) \cup OtherRow
    <3>1. CASE SavesRow(w)
      <4>1. PICK j \in Job, r \in SavesOf(jobs[w]) :
              /\ Becomes(w, j) /\ SavesOf(j) \subseteq SavesOf(jobs[w])
              /\ j.wrote \subseteq jobs[w].wrote \cup {r}
        BY <3>1 DEF SavesRow
      <4>2. jobs'[w] = j
        BY <4>1 DEF Becomes
      <4> QED BY <4>1, <4>2 DEF Versions
    <3>2. CASE PlainStep(w)
      BY <3>2 DEF PlainStep, Becomes, Versions, SavesOf
    <3>3. CASE Cleared(w)
      BY <3>3 DEF Cleared, Becomes, Versions, SavesOf, Idle
    <3>4. CASE StartJob(w) \/ Load(w)
      <4>1. jobs'[w].wrote = {} /\ jobs'[w].saves = <<>>
        BY <1>1, <3>4, StartIs, LoadIs DEF Loading, Idle
      <4> QED BY <4>1 DEF Versions, SavesOf
    <3> QED BY <1>3, <3>1, <3>2, <3>3, <3>4
  <2>3. ASSUME NEW v \in OtherRow, NEW r \in rows, r.name = n PROVE v.key # r.key
    <3>1. r \in DeviceRow
      BY <1>1, <2>3, RowsAre, NamesAssumption DEF TypeInv
    <3> QED BY <3>1, RowsAre
  <2>4. \A v \in Versions(w)', r \in rows : r.name = n /\ v.key = r.key => v = r
    BY <2>2, <2>3 DEF Stay, TwinsAlone, LeftAlone
  <2> QED BY <2>1, <2>4, StayIf
<1>4. ASSUME NEW w \in Workers, DeviceStep(w) PROVE Stay(n, d)'
  <2>1. rows' = rows /\ \A u \in Workers \ {w} : jobs'[u] = jobs[u]
    BY <1>4, HandlersKeep DEF Keeps
  <2>2. \A v \in Versions(w)', r \in rows : r.name = n /\ v.key = r.key => v = r
    BY <1>4, DeviceStays DEF Stay, TwinsAlone
  <2> QED BY <2>1, <2>2, StayIf
<1>5. ASSUME NEW w \in Workers, Commit(w) PROVE Stay(n, d)'
  BY <1>5, CommitStays
<1> QED BY <1>1, <1>2, <1>3, <1>4, <1>5, WorkerSteps

(* Where two devices of one name are and no job has another version of     *)
(* them, no step makes one: get and get_or_create raise.                   *)
THEOREM TwinsStayHolds == Spec => TwinsStay
<1>1. Inv /\ [Next]_vars => [\A n \in Devices : TwinsAlone(n) =>
                               /\ TwinsAlone(n)'
                               /\ \A r \in rows : r.name = n => r \in rows']_vars
  <2> SUFFICES ASSUME Inv, [Next]_vars, NEW n \in Devices, TwinsAlone(n)
               PROVE  TwinsAlone(n)' /\ \A r \in rows : r.name = n => r \in rows'
    OBVIOUS
  <2>1. ASSUME NEW r \in rows, r.name = n PROVE TwinsAlone(n)' /\ r \in rows'
    <3>1. Stay(n, r)
      BY <2>1 DEF Stay
    <3>2. Stay(n, r)'
      BY <3>1, StayKept
    <3> QED BY <3>2 DEF Stay
  <2>2. \E r \in rows : r.name = n
    BY DEF TwinsAlone, Twins
  <2> QED BY <2>1, <2>2
<1> QED BY <1>1, OverlapInvariant, PTL DEF Spec, TwinsStay

(* Two devices of one name that are committed while no job runs are the    *)
(* same for ever after, in every attribute: Device.create, update and      *)
(* delete write them no more.                                              *)
THEOREM TwinsForEver ==
  ASSUME NEW n \in Devices, NEW d
  PROVE  Spec => [](Quiet /\ Twins(n) /\ d \in rows /\ d.name = n => [](Twins(n) /\ d \in rows))
<1>1. Inv /\ Quiet /\ Twins(n) /\ d \in rows /\ d.name = n => Stay(n, d)
  <2>1. Inv /\ Quiet => \A w \in Workers : jobs[w] = Idle
    BY JobIs DEF Inv, Quiet, Running, JobOK
  <2>2. \A w \in Workers : jobs[w] = Idle => Versions(w) = {}
    BY DEF Versions, SavesOf, Idle
  <2> QED BY <2>1, <2>2 DEF Stay, TwinsAlone, LeftAlone
<1>2. Inv /\ Stay(n, d) /\ [Next]_vars => Stay(n, d)'
  BY StayKept
<1>3. Stay(n, d) => Twins(n) /\ d \in rows
  BY DEF Stay, TwinsAlone
<1> QED BY <1>1, <1>2, <1>3, OverlapInvariant, PTL DEF Spec
=============================================================================
