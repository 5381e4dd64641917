-------------------------------- MODULE Tags --------------------------------
(***************************************************************************)
(* What a sync writes on every kind of row: the two tags and the status    *)
(* (tag_object in utilities/nbutils.py, DiffSyncExtras.safe_delete in      *)
(* diffsync/diffsync_models.py). A row is a record with the fields         *)
(*   ssot: tagged ssot-synced-from-ipfabric                                *)
(*   safe: tagged ssot-safe-delete                                         *)
(* and, but for interfaces, status.                                        *)
(***************************************************************************)
CONSTANT None  \* Python's None

(* "Retired" is the safe-delete status of the row's kind: Decommissioning, *)
(* Offline and Deprecated unless PLUGINS_CONFIG says otherwise.            *)
Statuses == {"Active", "Retired"}

(* tag_object: the ssot tag. Its date stamp is kept where a property is    *)
(* about it (variable stamped of SSoTSync).                                *)
TagObject(r) == [r EXCEPT !.ssot = TRUE]

(* safe_delete in safe mode: status and tag. Only when one of them changed *)
(* is the row tagged as synced, stamped and saved.                         *)
IsFlagged(r) == r.status = "Retired" /\ r.safe
SafeDeleted(r) == IF IsFlagged(r) THEN r
                  ELSE [TagObject(r) EXCEPT !.status = "Retired", !.safe = TRUE]
=============================================================================
