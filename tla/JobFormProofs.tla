--------------------------- MODULE JobFormProofs ----------------------------
(***************************************************************************)
(* Theorems about the form and the snapshot a job reads, for every set of  *)
(* snapshots and listings and every number of jobs and of changes.         *)
(***************************************************************************)
EXTENDS JobForm, WellFoundedInduction, TLAPS

-----------------------------------------------------------------------------
(* The snapshots a client lists                                            *)

LEMMA MinIsMember ==
  ASSUME NEW S \in SUBSET Nat, S # {}
  PROVE  Min(S) \in S
<1> DEFINE R == {ss \in Nat \X Nat : ss[1] < ss[2]}
<1>1. R = OpToRel(<, Nat)
  BY DEF OpToRel
<1>2. IsWellFoundedOn(R, Nat)
  BY <1>1, NatLessThanWellFounded
<1>3. \E x \in S : \A y \in S : ~(<<y, x>> \in R)
  <2> HIDE DEF R
  <2> QED BY <1>2, WFMin
<1>4. PICK x \in S : \A y \in S : ~(<<y, x>> \in R)
  BY <1>3
<1>5. ASSUME NEW y \in S
      PROVE  x <= y
  <2>1. x \in Nat /\ y \in Nat
    OBVIOUS
  <2>2. ~(y < x)
    BY <2>1, <1>4
  <2> QED BY <2>1, <2>2
<1> QED BY <1>5 DEF Min

LEMMA ListingIsListing ==
  ASSUME NEW list \in Listings
  PROVE  /\ list \in Seq(Snapshots) /\ list # <<>> /\ Len(list) \in Nat
         /\ DOMAIN list = 1..Len(list) /\ ToSet(list) \subseteq Snapshots
         /\ list # None /\ 1 \in DOMAIN list
BY ListingsAssumption DEF ToSet

(* An id stands for itself, a reference for a snapshot that is listed.     *)
LEMMA LoadedSnapshotsOf ==
  ASSUME NEW list \in Listings
  PROVE  LET stands == LoadedSnapshots(list)
         IN  /\ ToSet(list) \cup {"$last"} \subseteq DOMAIN stands
             /\ DOMAIN stands \subseteq ToSet(list) \cup SnapshotRefs
             /\ \A s \in ToSet(list) : stands[s] = s
             /\ stands["$last"] = Head(list)
             /\ \A k \in DOMAIN stands : stands[k] \in ToSet(list)
<1> DEFINE locked == {i \in DOMAIN list : list[i] \in Locked}
           known  == ToSet(list) \cup {"$last"}
                       \cup (IF Len(list) > 1 THEN {"$prev"} ELSE {})
                       \cup (IF locked = {} THEN {} ELSE {"$lastLocked"})
           stands == LoadedSnapshots(list)
<1>1. stands = [k \in known |-> CASE k = "$last"       -> list[1]
                                  [] k = "$prev"       -> list[2]
                                  [] k = "$lastLocked" -> list[Min(locked)]
                                  [] OTHER             -> k]
  BY DEF LoadedSnapshots
<1>2. DOMAIN stands = known /\ known \subseteq ToSet(list) \cup SnapshotRefs
  BY <1>1 DEF SnapshotRefs
<1>3. ToSet(list) \cap SnapshotRefs = {}
  BY ListingIsListing, ListingsAssumption
<1>4. \A s \in ToSet(list) : stands[s] = s
  BY <1>1, <1>3 DEF SnapshotRefs
<1>5. stands["$last"] = list[1] /\ list[1] \in ToSet(list)
  BY <1>1, ListingIsListing DEF ToSet
<1>6. "$prev" \in known => stands["$prev"] \in ToSet(list)
  <2> SUFFICES ASSUME "$prev" \in known PROVE stands["$prev"] \in ToSet(list)
    OBVIOUS
  <2>1. Len(list) > 1
    BY <1>3 DEF SnapshotRefs
  <2>2. 2 \in DOMAIN list
    BY <2>1, ListingIsListing
  <2>3. stands["$prev"] = list[2]
    BY <1>1
  <2> QED BY <2>2, <2>3 DEF ToSet
<1>7. "$lastLocked" \in known => stands["$lastLocked"] \in ToSet(list)
  <2> SUFFICES ASSUME "$lastLocked" \in known PROVE stands["$lastLocked"] \in ToSet(list)
    OBVIOUS
  <2>1. locked # {}
    BY <1>3 DEF SnapshotRefs
  <2>2. locked \in SUBSET Nat
    BY ListingIsListing
  <2>3. Min(locked) \in DOMAIN list
    BY <2>1, <2>2, MinIsMember
  <2>4. stands["$lastLocked"] = list[Min(locked)]
    BY <1>1
  <2> QED BY <2>3, <2>4 DEF ToSet
<1>8. \A k \in DOMAIN stands : stands[k] \in ToSet(list)
  BY <1>2, <1>4, <1>5, <1>6, <1>7 DEF SnapshotRefs
<1>9. Head(list) = list[1]
  BY ListingIsListing
<1> QED BY <1>2, <1>4, <1>5, <1>8, <1>9

(* The menu has every snapshot of the listing and nothing else, and only   *)
(* references can stand for the same one.                                  *)
LEMMA MenuOf ==
  ASSUME NEW list \in Listings
  PROVE  LET menu == GetFormattedSnapshots(list)
         IN  /\ Range(menu) = ToSet(list)
             /\ \A k, l \in DOMAIN menu : menu[k] = menu[l] /\ k # l => {k, l} \subseteq SnapshotRefs
<1> DEFINE stands == LoadedSnapshots(list)
           named  == {stands[r] : r \in DOMAIN stands \cap SnapshotRefs}
           menu   == GetFormattedSnapshots(list)
<1>1. menu = [k \in DOMAIN stands \ named |-> stands[k]]
  BY ListingIsListing DEF GetFormattedSnapshots
<1>2. ToSet(list) \cap SnapshotRefs = {}
  BY ListingIsListing, ListingsAssumption
<1>3. /\ ToSet(list) \subseteq DOMAIN stands /\ DOMAIN stands \subseteq ToSet(list) \cup SnapshotRefs
      /\ \A s \in ToSet(list) : stands[s] = s
      /\ \A k \in DOMAIN stands : stands[k] \in ToSet(list)
  BY LoadedSnapshotsOf
<1> HIDE DEF stands, menu
<1>4. Range(menu) \subseteq ToSet(list)
  BY <1>1, <1>3 DEF Range
<1>5. ASSUME NEW s \in ToSet(list)
      PROVE  s \in Range(menu)
  <2>1. CASE s \in named
    <3>1. PICK r \in DOMAIN stands \cap SnapshotRefs : stands[r] = s
      BY <2>1
    <3>2. r \notin named
      BY <1>2, <1>3
    <3> QED BY <3>1, <3>2, <1>1 DEF Range
  <2>2. CASE s \notin named
    BY <2>2, <1>1, <1>3 DEF Range
  <2> QED BY <2>1, <2>2
<1>6. ASSUME NEW k \in DOMAIN menu, NEW l \in DOMAIN menu, menu[k] = menu[l], k # l
      PROVE  k \in SnapshotRefs
  <2> SUFFICES ASSUME k \in ToSet(list) PROVE FALSE
    BY <1>1, <1>3
  <2>1. stands[l] = k /\ k \notin named
    BY <1>1, <1>3, <1>6
  <2>2. l \in SnapshotRefs
    BY <2>1, <1>1, <1>3, <1>6
  <2> QED BY <2>1, <2>2, <1>1
<1>7. \A k, l \in DOMAIN menu : menu[k] = menu[l] /\ k # l => {k, l} \subseteq SnapshotRefs
  BY <1>6
<1> QED BY <1>4, <1>5, <1>7 DEF menu

LEMMA MenuChoices ==
  ASSUME NEW list \in Listings \cup {None}
  PROVE  Range(GetFormattedSnapshots(list)) \subseteq Snapshots
<1>1. CASE list = None
  BY <1>1 DEF GetFormattedSnapshots, Range
<1>2. CASE list \in Listings
  BY <1>2, MenuOf, ListingIsListing
<1> QED BY <1>1, <1>2

(* The client selects what was chosen, and the last for want of a choice.  *)
LEMMA SelectedIsChosen ==
  ASSUME NEW list \in Listings, NEW choice \in Snapshots \cup {None}, Selectable(list, choice)
  PROVE  /\ Selected(list, choice) = IF choice # None THEN choice ELSE Head(list)
         /\ Selected(list, choice) \in Snapshots
<1>1. CASE choice = None
  BY <1>1, LoadedSnapshotsOf, ListingIsListing DEF Selected
<1>2. CASE choice \in Snapshots
  <2>1. choice # None /\ choice \notin SnapshotRefs
    BY <1>2, ListingsAssumption
  <2>2. choice \in ToSet(list)
    BY <2>1, LoadedSnapshotsOf DEF Selectable
  <2> QED BY <1>2, <2>1, <2>2, LoadedSnapshotsOf DEF Selected
<1> QED BY <1>1, <1>2

-----------------------------------------------------------------------------
(* The invariant                                                           *)

Job == [choice: Snapshots \cup {None}, client: Listings \cup {None}, snapshot: Snapshots \cup {None},
        status: Final \cup {"queued", "started", "syncing"}]

ClientsOK == link \in Links /\ loaded \in Listings /\ clients \in [Processes -> Listings \cup {None}]
FormOK    == form # None => form = GetFormattedSnapshots(clients["web"])

(* A job that syncs has a client and reads what was chosen.                *)
JobOK(j)  == /\ j \in Job
             /\ j.status \in {"syncing", "synced"} =>
                  /\ j.client \in Listings
                  /\ j.snapshot = IF j.choice # None THEN j.choice ELSE Head(j.client)
JobsOK    == jobs \in Seq(Job) /\ \A j \in DOMAIN jobs : JobOK(jobs[j])
FormInv   == ClientsOK /\ FormOK /\ JobsOK

LEMMA ClientOfIsClient ==
  ASSUME ClientsOK, NEW p \in Processes
  PROVE  /\ Refreshed(p) \in [Processes -> Listings \cup {None}]
         /\ Refreshed(p)[p] \in Listings \cup {None} /\ ClientOf(p) = Refreshed(p)[p]
BY DEF ClientsOK, Refreshed, ClientOf, InitIpfClient

(* A job that is changed as a handler changes it stays in order.           *)
LEMMA JobChanged ==
  ASSUME JobsOK, NEW j \in DOMAIN jobs, NEW new, JobOK(new), jobs' = [jobs EXCEPT ![j] = new]
  PROVE  JobsOK'
<1>1. jobs \in Seq(Job) /\ new \in Job
  BY DEF JobsOK, JobOK
<1>2. jobs' \in Seq(Job) /\ DOMAIN jobs' = DOMAIN jobs
  BY <1>1
<1>3. \A k \in DOMAIN jobs : jobs'[k] = new \/ jobs'[k] = jobs[k]
  BY <1>1
<1> QED BY <1>2, <1>3 DEF JobsOK, JobOK

(* So do the jobs when one is submitted.                                   *)
LEMMA JobAdded ==
  ASSUME JobsOK, NEW new, JobOK(new), jobs' = Append(jobs, new)
  PROVE  JobsOK'
<1>1. jobs \in Seq(Job) /\ new \in Job /\ \A k \in DOMAIN jobs : JobOK(jobs[k])
  BY DEF JobsOK, JobOK
<1> DEFINE n == Len(jobs)
<1>2. n \in Nat /\ DOMAIN jobs = 1..n
  BY <1>1
<1>3. jobs' \in Seq(Job) /\ DOMAIN jobs' = 1..(n + 1) /\ jobs'[n + 1] = new
  BY <1>1
<1>4. \A k \in 1..n : jobs'[k] = jobs[k]
  BY <1>1
<1> HIDE DEF n
<1>5. ASSUME NEW k \in DOMAIN jobs'
      PROVE  JobOK(jobs'[k])
  <2>1. k = n + 1 \/ k \in 1..n
    BY <1>2, <1>3
  <2>2. CASE k = n + 1
    BY <2>2, <1>3
  <2>3. CASE k \in 1..n
    <3>1. jobs'[k] = jobs[k] /\ JobOK(jobs[k])
      BY <2>3, <1>1, <1>2, <1>4
    <3> QED BY <3>1
  <2> QED BY <2>1, <2>2, <2>3
<1>6. \A k \in DOMAIN jobs' : JobOK(jobs'[k])
  BY <1>5
<1> QED BY <1>3, <1>6 DEF JobsOK, JobOK

LEMMA JobEnded ==
  ASSUME JobsOK, NEW j \in DOMAIN jobs, NEW status \in Final, End(j, status),
         status = "synced" => jobs[j].status = "syncing"
  PROVE  JobsOK'
<1> DEFINE new == [jobs[j] EXCEPT !.status = status]
<1>1. JobOK(jobs[j]) /\ jobs' = [jobs EXCEPT ![j] = new]
  BY DEF JobsOK, End
<1>2. JobOK(new)
  BY <1>1 DEF JobOK, Job, Final
<1> HIDE DEF new
<1> QED BY <1>1, <1>2, JobChanged

-----------------------------------------------------------------------------
(* The steps                                                               *)

LEMMA OpenFormKeeps == FormInv /\ OpenForm => FormInv'
<1> SUFFICES ASSUME FormInv, OpenForm PROVE FormInv'
  OBVIOUS
<1>1. "web" \in Processes
  BY DEF Processes
<1> QED BY <1>1, ClientOfIsClient DEF OpenForm, FormInv, ClientsOK, FormOK, JobsOK, JobOK

LEMMA SubmitKeeps ==
  ASSUME FormInv, form # None, NEW choice \in Range(form) \cup {None}, Submit(choice)
  PROVE  FormInv'
<1>0. "web" \in Processes
  BY DEF Processes
<1>1. CASE GetVarsRaises("web")
  BY <1>1 DEF Submit, FormInv, ClientsOK, FormOK, JobsOK, JobOK
<1>2. CASE ~GetVarsRaises("web")
  <2> DEFINE menu == GetFormattedSnapshots(ClientOf("web"))
  <2>1. clients' = Refreshed("web") /\ loaded' = loaded /\ link' = link
    BY <1>2 DEF Submit
  <2>2. ClientsOK'
    BY <2>1, <1>0, ClientOfIsClient DEF FormInv, ClientsOK
  <2>3. CASE choice \in Range(menu) \cup {None}
    <3>1. form' = None /\ jobs' = Append(jobs, Queued(choice))
      BY <1>2, <2>3 DEF Submit
    <3>2. ClientOf("web") \in Listings \cup {None}
      BY <1>0, ClientOfIsClient DEF FormInv
    <3>3. choice \in Snapshots \cup {None}
      BY <2>3, <3>2, MenuChoices
    <3>4. JobOK(Queued(choice)) /\ Queued(choice) \in Job
      BY <3>3 DEF JobOK, Queued, Job, Final
    <3>5. JobsOK
      BY DEF FormInv
    <3>6. JobsOK'
      BY <3>1, <3>4, <3>5, JobAdded
    <3> QED BY <2>2, <3>1, <3>6 DEF FormInv, FormOK
  <2>4. CASE choice \notin Range(menu) \cup {None}
    <3>1. form' = menu /\ jobs' = jobs
      BY <1>2, <2>4 DEF Submit
    <3>2. FormOK'
      BY <3>1, <2>1, <1>0, ClientOfIsClient DEF FormOK, FormInv
    <3> QED BY <2>2, <3>1, <3>2 DEF FormInv, JobsOK, JobOK
  <2> QED BY <2>3, <2>4
<1> QED BY <1>1, <1>2

LEMMA DeserializeKeeps ==
  ASSUME FormInv, NEW j \in DOMAIN jobs, Deserialize(j)
  PROVE  FormInv'
<1>0. "worker" \in Processes /\ "worker" # "web" /\ form' = form /\ loaded' = loaded /\ link' = link
  BY DEF Processes, Deserialize
<1>1. CASE GetVarsRaises("worker")
  <2>1. End(j, "error") /\ clients' = clients
    BY <1>1 DEF Deserialize
  <2>2. JobsOK'
    BY <2>1, JobEnded DEF FormInv, Final
  <2> QED BY <1>0, <2>1, <2>2 DEF FormInv, ClientsOK, FormOK
<1>2. CASE ~GetVarsRaises("worker")
  <2> DEFINE client == Refreshed("worker")["worker"]
             new    == [jobs[j] EXCEPT !.status = "started", !.client = client]
  <2>1. clients' = Refreshed("worker") /\ client \in Listings \cup {None}
    BY <1>0, <1>2, ClientOfIsClient DEF Deserialize, FormInv
  <2>2. jobs \in Seq(Job) /\ JobOK(jobs[j])
    BY DEF FormInv, JobsOK
  <2>3. jobs' = [jobs EXCEPT ![j] = new]
    BY <1>2, <2>1, <2>2 DEF Deserialize
  <2>4. JobOK(new)
    BY <2>1, <2>2 DEF JobOK, Job
  <2> HIDE DEF new
  <2>5. JobsOK'
    BY <2>3, <2>4, JobChanged DEF FormInv
  <2>6. clients'["web"] = clients["web"]
    BY <1>0, <2>1 DEF Refreshed, FormInv, ClientsOK, Processes
  <2> QED BY <1>0, <2>1, <2>5, <2>6, ClientOfIsClient DEF FormInv, ClientsOK, FormOK
<1> QED BY <1>1, <1>2

LEMMA ConnectAgainKeeps ==
  ASSUME FormInv, NEW j \in DOMAIN jobs, ConnectAgain(j)
  PROVE  FormInv'
<1>1. jobs \in Seq(Job) /\ JobOK(jobs[j]) /\ loaded \in Listings /\ link \in Links
  BY DEF FormInv, JobsOK, ClientsOK
<1>2. UNCHANGED <<link, loaded, clients, form>> /\ jobs[j].status = "started"
  BY DEF ConnectAgain
<1>3. JobsOK'
  <2>1. CASE link = "up"
    <3> DEFINE new == [jobs[j] EXCEPT !.client = loaded]
    <3>1. jobs' = [jobs EXCEPT ![j] = new]
      BY <2>1 DEF ConnectAgain
    <3>2. JobOK(new)
      BY <1>1, <1>2 DEF JobOK, Job
    <3> HIDE DEF new
    <3> QED BY <3>1, <3>2, JobChanged DEF FormInv
  <2>2. CASE link = "refused"
    <3>1. End(j, "not_ready")
      BY <2>2 DEF ConnectAgain
    <3> QED BY <3>1, JobEnded DEF FormInv, Final
  <2>3. CASE link = "failing"
    <3>1. End(j, "error")
      BY <2>3 DEF ConnectAgain
    <3> QED BY <3>1, JobEnded DEF FormInv, Final
  <2> QED BY <1>1, <2>1, <2>2, <2>3 DEF Links
<1> QED BY <1>2, <1>3 DEF FormInv, ClientsOK, FormOK

LEMMA SelectSnapshotKeeps ==
  ASSUME FormInv, NEW j \in DOMAIN jobs, SelectSnapshot(j)
  PROVE  FormInv'
<1> DEFINE list   == jobs[j].client
           choice == jobs[j].choice
<1>1. jobs \in Seq(Job) /\ JobOK(jobs[j])
  BY DEF FormInv, JobsOK
<1>2. list \in Listings /\ choice \in Snapshots \cup {None}
  BY <1>1 DEF SelectSnapshot, JobOK, Job
<1>3. UNCHANGED <<link, loaded, clients, form>>
  BY DEF SelectSnapshot
<1>4. CASE Selectable(list, choice)
  <2> DEFINE new == [jobs[j] EXCEPT !.status = "syncing", !.snapshot = Selected(list, choice)]
  <2>1. jobs' = [jobs EXCEPT ![j] = new]
    BY <1>1, <1>4 DEF SelectSnapshot
  <2>2. JobOK(new)
    BY <1>1, <1>2, <1>4, SelectedIsChosen DEF JobOK, Job
  <2> HIDE DEF new
  <2>3. JobsOK'
    BY <2>1, <2>2, JobChanged DEF FormInv
  <2> QED BY <1>3, <2>3 DEF FormInv, ClientsOK, FormOK
<1>5. CASE ~Selectable(list, choice)
  <2>1. JobsOK'
    BY <1>5, JobEnded DEF SelectSnapshot, FormInv, Final
  <2> QED BY <1>3, <2>1 DEF FormInv, ClientsOK, FormOK
<1> QED BY <1>4, <1>5

LEMMA SyncKeeps ==
  ASSUME FormInv, NEW j \in DOMAIN jobs, Sync(j)
  PROVE  FormInv'
<1>1. JobsOK'
  BY JobEnded DEF Sync, FormInv, Final
<1> QED BY <1>1 DEF Sync, FormInv, ClientsOK, FormOK

LEMMA ChangeKeeps == FormInv /\ Change => FormInv'
BY DEF Change, FormInv, ClientsOK, FormOK, JobsOK, JobOK

-----------------------------------------------------------------------------
(* The theorems                                                            *)

LEMMA FormInvInit == Init => FormInv
<1> SUFFICES ASSUME Init PROVE FormInv
  OBVIOUS
<1>1. jobs \in Seq(Job) /\ DOMAIN jobs = {}
  BY DEF Init
<1> QED BY <1>1 DEF Init, FormInv, ClientsOK, FormOK, JobsOK, Processes

LEMMA FormInvKept == FormInv /\ [Next]_vars => FormInv'
<1> SUFFICES ASSUME FormInv, [Next]_vars PROVE FormInv'
  OBVIOUS
<1>1. CASE WorkerStep
  BY <1>1, DeserializeKeeps, ConnectAgainKeeps, SelectSnapshotKeeps, SyncKeeps DEF WorkerStep
<1>2. CASE UserStep
  BY <1>2, OpenFormKeeps, SubmitKeeps DEF UserStep
<1>3. CASE Change
  BY <1>3, ChangeKeeps
<1>4. CASE UNCHANGED vars
  BY <1>4 DEF vars, FormInv, ClientsOK, FormOK, JobsOK, JobOK
<1> QED BY <1>1, <1>2, <1>3, <1>4 DEF Next

(* The invariant holds of every run: a job that syncs has a client, and    *)
(* the menu on the screen is the one of the web process's client.          *)
THEOREM ClientsServe == Spec => []FormInv
BY FormInvInit, FormInvKept, PTL DEF Spec

(* A sync reads the snapshot that was chosen, or for want of a choice the  *)
(* newest one of its client, whatever IP Fabric did while the form was     *)
(* open and the job waited.                                                *)
THEOREM ChoicesAreSynced == Spec => []SyncsChosenSnapshot
<1>1. FormInv => SyncsChosenSnapshot
  BY DEF FormInv, JobsOK, JobOK, SyncsChosenSnapshot
<1> QED BY <1>1, ClientsServe, PTL

(* A form offers every snapshot its client lists and nothing else; only    *)
(* references can offer one twice.                                         *)
THEOREM MenuIsOffered == Spec => []FormOffersLoaded
<1>1. FormInv => FormOffersLoaded
  <2> SUFFICES ASSUME FormInv, form # None, clients["web"] # None
               PROVE  FormOffersLoaded
    BY DEF FormOffersLoaded
  <2>1. clients["web"] \in Listings /\ form = GetFormattedSnapshots(clients["web"])
    BY DEF FormInv, ClientsOK, FormOK, Processes
  <2> QED BY <2>1, MenuOf DEF FormOffersLoaded
<1> QED BY <1>1, ClientsServe, PTL
=============================================================================
