------------------------------ MODULE JobForm -------------------------------
(***************************************************************************)
(* From the job's form to the snapshot the sync reads: _get_vars and the   *)
(* start of sync_data of IpFabricDataSource (jobs.py).                     *)
(*                                                                         *)
(* The client is an attribute of the class, so every process keeps one     *)
(* from its first call of _get_vars on: the web process that shows and     *)
(* validates the form, and the worker that calls _get_vars once more to    *)
(* read the arguments of a job. Meanwhile IP Fabric goes down and comes    *)
(* back and its snapshots are loaded and unloaded.                         *)
(*                                                                         *)
(* What follows in sync_data is SSoTSync's; here a sync ends either way.   *)
(***************************************************************************)
EXTENDS IPFabricClient

CONSTANTS
  MaxJobs,    \* jobs that are submitted
  MaxChanges  \* changes at IP Fabric, of the connection or of the snapshots

ASSUME BoundsAssumption == MaxJobs \in Nat /\ MaxChanges \in Nat

Processes == {"web", "worker"}

VARIABLES
  link,     \* how IP Fabric answers
  loaded,   \* its loaded snapshots
  changes,  \* counts the changes of the two
  clients,  \* per process: the listing of the cached client, or None
  form,     \* the menu the user sees, or None: no form, or an error page
  jobs      \* the jobs, in the order they were submitted
vars == <<link, loaded, changes, clients, form, jobs>>

(* A job: the snapshot chosen, how far it is and the snapshot it reads.    *)
(* not_ready is the failure that sync_data logs, error an exception that   *)
(* run_job records.                                                        *)
Final == {"not_ready", "error", "synced"}
Queued(choice) == [choice |-> choice, status |-> "queued", client |-> None, snapshot |-> None]

Init ==
  /\ link \in Links /\ loaded \in Listings /\ changes = 0
  /\ clients = [p \in Processes |-> None] /\ form = None /\ jobs = <<>>

-----------------------------------------------------------------------------
(* _get_vars in process p: connect, or update the client that is there.    *)
GetVarsRaises(p) == link = "failing" \/ (link = "refused" /\ clients[p] # None)
Refreshed(p)     == [clients EXCEPT ![p] = InitIpfClient(link, loaded)]
ClientOf(p)      == Refreshed(p)[p]

OpenForm ==
  /\ Len(jobs) < MaxJobs
  /\ IF GetVarsRaises("web") THEN form' = None /\ UNCHANGED clients
     ELSE form' = GetFormattedSnapshots(ClientOf("web")) /\ clients' = Refreshed("web")
  /\ UNCHANGED <<link, loaded, changes, jobs>>

(* The form is made anew to validate what is posted: a choice that is gone *)
(* brings the form back.                                                   *)
Submit(choice) ==
  /\ Len(jobs) < MaxJobs
  /\ IF GetVarsRaises("web") THEN form' = None /\ UNCHANGED <<clients, jobs>>
     ELSE /\ clients' = Refreshed("web")
          /\ LET menu == GetFormattedSnapshots(ClientOf("web"))
             IN  IF choice \in Range(menu) \cup {None}
                 THEN form' = None /\ jobs' = Append(jobs, Queued(choice))
                 ELSE form' = menu /\ UNCHANGED jobs
  /\ UNCHANGED <<link, loaded, changes>>

-----------------------------------------------------------------------------
(* The worker: run_job reads the arguments, then calls sync_data.          *)

IsNext(j) == \A i \in 1..(j - 1) : jobs[i].status \in Final
End(j, status) == jobs' = [jobs EXCEPT ![j].status = status]

(* Mutant: what _get_vars raises is nobody's to record.                    *)
DeserializeUnguarded(j) ==
  /\ jobs[j].status = "queued" /\ IsNext(j) /\ ~GetVarsRaises("worker")
  /\ clients' = Refreshed("worker")
  /\ jobs' = [jobs EXCEPT ![j].status = "started", ![j].client = clients'["worker"]]
  /\ UNCHANGED <<link, loaded, changes, form>>

Deserialize(j) ==
  /\ jobs[j].status = "queued" /\ IsNext(j)
  /\ IF GetVarsRaises("worker") THEN End(j, "error") /\ UNCHANGED clients
     ELSE /\ clients' = Refreshed("worker")
          /\ jobs' = [jobs EXCEPT ![j].status = "started", ![j].client = clients'["worker"]]
  /\ UNCHANGED <<link, loaded, changes, form>>

(* Mutant: a snapshot that is gone is replaced by the last one.            *)
SelectOrLast(j) ==
  /\ jobs[j].status = "started" /\ jobs[j].client # None
  /\ LET list == jobs[j].client
     IN  jobs' = [jobs EXCEPT ![j].status = "syncing", ![j].snapshot =
           IF Selectable(list, jobs[j].choice) THEN Selected(list, jobs[j].choice)
           ELSE Selected(list, None)]
  /\ UNCHANGED <<link, loaded, changes, clients, form>>

(* sync_data: without a client, try once more. The new one is the job's    *)
(* alone: the class keeps none.                                            *)
ConnectAgain(j) ==
  /\ jobs[j].status = "started" /\ jobs[j].client = None
  /\ CASE link = "up"      -> jobs' = [jobs EXCEPT ![j].client = loaded]
       [] link = "refused" -> End(j, "not_ready")
       [] link = "failing" -> End(j, "error")
  /\ UNCHANGED <<link, loaded, changes, clients, form>>

SelectSnapshot(j) ==
  /\ jobs[j].status = "started" /\ jobs[j].client # None
  /\ LET list == jobs[j].client
     IN  IF Selectable(list, jobs[j].choice)
         THEN jobs' = [jobs EXCEPT ![j].status = "syncing",
                                   ![j].snapshot = Selected(list, jobs[j].choice)]
         ELSE End(j, "error")
  /\ UNCHANGED <<link, loaded, changes, clients, form>>

Sync(j) ==
  /\ jobs[j].status = "syncing"
  /\ \E status \in {"error", "synced"} : End(j, status)
  /\ UNCHANGED <<link, loaded, changes, clients, form>>

-----------------------------------------------------------------------------
(* IP Fabric and the way to it.                                            *)
Change ==
  /\ changes < MaxChanges /\ changes' = changes + 1
  /\ \/ link' \in Links \ {link} /\ UNCHANGED loaded
     \/ loaded' \in Listings \ {loaded} /\ UNCHANGED link
  /\ UNCHANGED <<clients, form, jobs>>

WorkerStep == \E j \in DOMAIN jobs :
                Deserialize(j) \/ ConnectAgain(j) \/ SelectSnapshot(j) \/ Sync(j)
UserStep == \/ OpenForm
            \/ form # None /\ \E choice \in Range(form) \cup {None} : Submit(choice)
Next == WorkerStep \/ UserStep \/ Change

(* The worker takes every job it is sent; users need not do anything.      *)
Spec == Init /\ [][Next]_vars /\ WF_vars(WorkerStep)

-----------------------------------------------------------------------------
(* Properties                                                              *)

(* The form offers every snapshot its client lists and nothing else, and a *)
(* snapshot that goes by a reference not by its id as well.                *)
FormOffersLoaded ==
  form # None /\ clients["web"] # None =>
    /\ Range(form) = ToSet(clients["web"])
    /\ \A k, l \in DOMAIN form : form[k] = form[l] /\ k # l => {k, l} \subseteq SnapshotRefs

(* However IP Fabric changes while a form is open, a job waits and a       *)
(* process keeps its client: a sync reads the snapshot that was chosen, or *)
(* for want of a choice one that was the last when the job began, or it    *)
(* does not take place.                                                    *)
SyncsChosenSnapshot ==
  \A j \in DOMAIN jobs : jobs[j].status \in {"syncing", "synced"} =>
    IF jobs[j].choice # None THEN jobs[j].snapshot = jobs[j].choice
    ELSE jobs[j].snapshot = Head(jobs[j].client)

(* Every job that is submitted comes to an end, whatever is raised on the  *)
(* way.                                                                    *)
JobsEnd == \A j \in 1..MaxJobs :
             (j \in DOMAIN jobs) ~> (j \in DOMAIN jobs /\ jobs[j].status \in Final)
=============================================================================
