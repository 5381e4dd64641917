--------------------------- MODULE IPFabricClient ---------------------------
(***************************************************************************)
(* What jobs.py makes of the IP Fabric client: the connection that may be  *)
(* refused, the snapshots the client lists and the menu that is made of    *)
(* them. A listing is the sequence of the ids of the loaded snapshots,     *)
(* newest first.                                                           *)
(***************************************************************************)
EXTENDS Integers, Sequences, SequencesExt

CONSTANTS
  None,       \* Python's None, and the blank choice of a form
  Snapshots,  \* ids of snapshots
  Locked,     \* those that are locked
  Listings    \* the listings that may be met

(* References by which a snapshot is known besides its id.                 *)
SnapshotRefs == {"$last", "$prev", "$lastLocked"}

ASSUME ListingsAssumption ==
  /\ ({None} \cup SnapshotRefs) \cap Snapshots = {} /\ None \notin Listings
  /\ \A list \in Listings : list # <<>> /\ list \in Seq(Snapshots) /\ IsInjective(list)

(* up: calls are answered. refused: httpx.ConnectError or RuntimeError.    *)
(* failing: any other exception: a timeout, an HTTP error.                 *)
Links == {"up", "refused", "failing"}

(* client.loaded_snapshots: every id, and the references that stand for    *)
(* one.                                                                    *)
LoadedSnapshots(list) ==
  LET locked == {i \in DOMAIN list : list[i] \in Locked}
      known  == ToSet(list) \cup {"$last"}
                  \cup (IF Len(list) > 1 THEN {"$prev"} ELSE {})
                  \cup (IF locked = {} THEN {} ELSE {"$lastLocked"})
  IN  [k \in known |-> CASE k = "$last"       -> list[1]
                         [] k = "$prev"       -> list[2]
                         [] k = "$lastLocked" -> list[Min(locked)]
                         [] OTHER             -> k]

(* Mutant: the ids that references stand for stay on the menu.             *)
FormatTwice(list) == IF list = None THEN <<>> ELSE LoadedSnapshots(list)

(* get_formatted_snapshots: a snapshot a reference stands for is not       *)
(* listed under its id once more. Without a client there is nothing.       *)
GetFormattedSnapshots(list) ==
  IF list = None THEN <<>>
  ELSE LET loaded == LoadedSnapshots(list)
           named  == {loaded[r] : r \in DOMAIN loaded \cap SnapshotRefs}
       IN  [k \in DOMAIN loaded \ named |-> loaded[k]]

(* _init_ipf_client, when it does not raise.                               *)
InitIpfClient(link, list) == IF link = "up" THEN list ELSE None

(* The setter of client.snapshot_id, given what it does not refuse: blank  *)
(* is the last snapshot.                                                   *)
Selectable(list, choice) == choice = None \/ choice \in DOMAIN LoadedSnapshots(list)
Selected(list, choice)   == LoadedSnapshots(list)[IF choice = None THEN "$last" ELSE choice]
=============================================================================
