------------------------------ MODULE Nautobot ------------------------------
(***************************************************************************)
(* The Nautobot side of the plugin: the rows of the Site, Device and VLAN  *)
(* tables that a sync reads and writes, and the helpers through which the  *)
(* DiffSync models write them (utilities/nbutils.py).                      *)
(*                                                                         *)
(* The three tables are one set of rows that a field "kind" tells apart.   *)
(* A name is its rank in the alphabetical order, in which DiffSync visits  *)
(* a diff and Nautobot lists its sites.                                    *)
(***************************************************************************)
EXTENDS Tags, Integers

CONSTANTS
  Sites,      \* names of sites
  Devices,    \* host names of devices
  Vlans,      \* names of VLANs
  SiteIds,    \* identifiers IP Fabric gives to sites
  Models,     \* device models; a model belongs to one vendor
  Vendor,     \* Vendor[m] is the vendor of model m
  Vids        \* VLAN numbers

ASSUME NamesAssumption == Sites \subseteq Nat /\ Devices \subseteq Nat /\ Vlans \subseteq Nat
ASSUME VidsAssumption  == Vids \subseteq Nat

Kinds  == {"location", "device", "vlan"}
Names  == Sites \cup Devices \cup Vlans

(* What a row holds besides its name and its parent: the ipfabric-site-id  *)
(* custom field of a site, the device type of a device, the vid of a VLAN. *)
Data   == SiteIds \cup Models \cup Vids \cup {None}

(* A site stands in itself.                                                *)
Located(x) == x.kind = "location" => x.name = x.site

(* The primary key of a row. It is never reused: born says what created    *)
(* the row (0 or less before the first run, a run, or an edit by a user).  *)
PkType == [kind: Kinds, name: Names, site: Sites, born: Int]
ASSUME NoneAssumption == None \notin PkType

(* ssot: tagged ssot-synced-from-ipfabric; safe: tagged ssot-safe-delete.  *)
Row == {r \in [kind: Kinds, name: Names, site: Sites, born: Int, data: Data,
               status: Statuses, ssot: BOOLEAN, safe: BOOLEAN] : Located(r)}

(* vid is a column of VLANs only, and it is never empty.                   *)
Numbered(R) == \A r \in R : r.kind = "vlan" => r.data \in Vids

Pk(r)    == [kind |-> r.kind, name |-> r.name, site |-> r.site, born |-> r.born]
Pks(R)   == {Pk(r) : r \in R}
Key(x)   == <<x.kind, x.name, x.site>>
Keys(X)  == {Key(x) : x \in X}

Named(R, k, n) == {r \in R : r.kind = k /\ r.name = n}
SiteExists(R, s) == Named(R, "location", s) # {}

(* Foreign keys of devices and VLANs to their site: ON DELETE PROTECT.     *)
Protected(R, r) == r.kind = "location" /\ \E c \in R : c.kind # "location" /\ c.site = r.name

(* What Device.validate_unique of Nautobot refuses: two devices of one     *)
(* name in one site. No database constraint enforces it.                   *)
Clashes(R, r) == \E q \in R : /\ q.kind = "device" /\ q.name = r.name
                              /\ q.site = r.site /\ Pk(q) # Pk(r)

NewRow(k, n, s, d, b) == [kind |-> k, name |-> n, site |-> s, born |-> b, data |-> d,
                          status |-> "Active", ssot |-> FALSE, safe |-> FALSE]

(* create_site: get or create by name, always Active, id only if given.    *)
CreateSite(R, s, id, b) ==
  LET activate(r) == [TagObject(r) EXCEPT !.status = "Active",
                                          !.data = IF id = None THEN @ ELSE id]
      new == IF SiteExists(R, s) THEN {} ELSE {NewRow("location", s, s, None, b)}
  IN  (R \ Named(R, "location", s))
        \cup {activate(r) : r \in Named(R, "location", s) \cup new}

(* The lookup of get_or_create for a device or a VLAN: every field the     *)
(* caller passes must agree, the Active status included.                   *)
Matching(R, k, n, s, d) ==
  {r \in R : r.kind = k /\ r.name = n /\ r.site = s /\ r.data = d /\ r.status = "Active"}
=============================================================================
