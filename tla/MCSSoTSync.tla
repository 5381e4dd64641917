----------------------------- MODULE MCSSoTSync -----------------------------
(***************************************************************************)
(* SSoTSync on small instances: two sites, two host names, one VLAN name,  *)
(* device models of two vendors, two VLAN numbers.                         *)
(***************************************************************************)
EXTENDS SSoTSync

CONSTANTS id1, id2, m1, m2, m3

MCSiteIds == {id1, id2}
MCModels  == {m1, m2, m3}
MCVendor  == [m \in MCModels |-> IF m = m3 THEN "Juniper" ELSE "Cisco"]

-----------------------------------------------------------------------------
(* Snapshots                                                               *)

Loc(s, id)   == [kind |-> "location", name |-> s, site |-> s, data |-> id]
Dev(d, s, m) == [kind |-> "device", name |-> d, site |-> s, data |-> m]
Vln(s, vid)  == [kind |-> "vlan", name |-> 1, site |-> s, data |-> vid]

BothSites == {Loc(1, id1), Loc(2, id1)}
Full      == BothSites \cup {Dev(1, 1, m1), Vln(1, 10)}
Moved     == BothSites \cup {Dev(1, 2, m1), Vln(1, 10)}
SiteGone  == {Loc(1, id2), Vln(1, 10)}
NewType   == BothSites \cup {Dev(1, 1, m3), Vln(1, 11)}
NewModel  == BothSites \cup {Dev(1, 1, m2)}
Grown     == BothSites \cup {Dev(1, 1, m1), Dev(2, 1, m1), Vln(1, 10), Vln(2, 10)}
Shrunk    == BothSites \cup {Dev(2, 1, m1)}
Apart     == BothSites \cup {Dev(1, 1, m1), Dev(2, 2, m1)}
Paired    == Apart \cup {Vln(1, 10)}
Retyped   == BothSites \cup {Dev(2, 2, m2)}

MCSnapshots   == {{}, Full, Moved, SiteGone, NewType, NewModel, Grown, Shrunk,
                   Paired}
FewSnapshots  == {Full, Moved, SiteGone}
PairSnapshots == {Paired, Retyped}

-----------------------------------------------------------------------------
(* Databases                                                               *)

Stored0(S, ssot) == {[NewRow(x.kind, x.name, x.site, x.data, 0) EXCEPT !.ssot = ssot] : x \in S}

Synced0   == Stored0(Full, TRUE)
ByHand    == Stored0(NewType, FALSE)
Retired0  == {SafeDeleted(r) : r \in Synced0}
MovedRows == Stored0(Moved, TRUE)
Twins     == Stored0(Full \cup {Dev(1, 2, m2)}, TRUE)
VlanTwins == Synced0 \cup {[NewRow("vlan", 1, 1, 11, -1) EXCEPT !.ssot = TRUE]}
NoSiteTag == Stored0(BothSites, FALSE) \cup Stored0({Dev(1, 1, m1)}, TRUE)
                \cup {SafeDeleted(r) : r \in Stored0({Vln(2, 10)}, FALSE)}

MCInitialRows  == {{}, Synced0, ByHand, Retired0, MovedRows, Twins, NoSiteTag,
                   VlanTwins, Stored0(Apart, TRUE)}
OnlySynced     == {Synced0}
OnlyApart     == {Stored0(Apart, TRUE)}
OnlyMoved     == {MovedRows}

-----------------------------------------------------------------------------
(* Options                                                                 *)

Opt(safe, tagged, filter) ==
  [safe |-> safe, tagged_only |-> tagged, site_filter |-> filter, dry_run |-> FALSE]

AllOptions   == Option
WholeJobs    == {Opt(safe, FALSE, None) : safe \in BOOLEAN}
SafeWholeJob == {Opt(TRUE, FALSE, None)}
SomeJobs     == WholeJobs \cup {Opt(TRUE, TRUE, None), Opt(FALSE, FALSE, 1)}
                  \cup {[Opt(FALSE, FALSE, None) EXCEPT !.dry_run = TRUE]}
=============================================================================
