-------------------------- MODULE MCInterfaceSync --------------------------
(***************************************************************************)
(* InterfaceSync on two host names, two names of interfaces besides        *)
(* pseudo_mgmt, three hosts of version 4 and one of version 6.             *)
(***************************************************************************)
EXTENDS InterfaceSync

MCFamily == [h \in Hosts |-> IF h = 6 THEN 6 ELSE 4]

-----------------------------------------------------------------------------
(* Snapshots: the login address of each device, and rows of interfaces.    *)

On(d, i, text, ip) == [hostname |-> d, intName |-> i, dscr |-> text, mtu |-> None, primaryIp |-> ip]
Jumbo(row)   == [row EXCEPT !.mtu = 9000]
One(l)       == [n \in {1} |-> l]
Two(l, m)    == [n \in {1, 2} |-> IF n = 1 THEN l ELSE m]
Snap(l, t)   == [login |-> l, table |-> t]

Plain    == Snap(One(1), <<On(1, 1, "up", 1), On(1, 2, None, None)>>)
Renumber == Snap(One(2), <<On(1, 1, "up", 2), On(1, 2, "", 1)>>)
Swapped  == Snap(One(1), <<On(1, 1, "up", 2), Jumbo(On(1, 2, "up", 1))>>)
Natted   == Snap(One(3), <<On(1, 1, "", 1)>>)
Six      == Snap(One(6), <<On(1, 1, "up", 1), On(1, 2, None, 6)>>)
Pair     == Snap(Two(1, 2), <<On(1, 1, "up", 1), On(2, 1, "up", 2)>>)
Anycast  == Snap(One(1), <<On(1, 1, "up", 1), On(1, 2, "up", 1)>>)
Gone     == Snap(<<>>, <<>>)

MCSnapshots == {Plain, Swapped, Natted, Six, Pair, Anycast, Gone}

-----------------------------------------------------------------------------
(* Databases                                                               *)

Dev(id, n, status, ssot, p4, p6) ==
  [id |-> id, name |-> n, status |-> status, ssot |-> ssot, safe |-> status = "Retired",
   primary_ip4 |-> p4, primary_ip6 |-> p6]
Ifc(id, d, n, text, ssot) ==
  [id |-> id, device |-> d, name |-> n, text |-> text, mtu |-> 1500, ssot |-> ssot, safe |-> FALSE]
Adr(id, h, i, ssot) ==
  [id |-> id, host |-> h, iface |-> i, status |-> "Active", ssot |-> ssot, safe |-> FALSE]
Db(D, I, A) == [devices |-> D, interfaces |-> I, addresses |-> A]

Empty    == Db({}, {}, {})
Synced0  == Db({Dev(1, 1, "Active", TRUE, 4, None)}, {Ifc(2, 1, 1, "up", TRUE), Ifc(3, 1, 2, "", TRUE)},
               {Adr(4, 1, 2, TRUE)})
Untagged == Db({Dev(1, 1, "Active", FALSE, 4, None)}, {Ifc(2, 1, 1, "old", FALSE)},
               {Adr(4, 1, 2, FALSE)})
Dual     == Db({Dev(1, 1, "Active", TRUE, 4, 5)}, {Ifc(2, 1, 1, "up", TRUE)},
               {Adr(4, 1, 2, TRUE), Adr(5, 6, 2, FALSE)})
Retired0 == Db({Dev(1, 1, "Retired", TRUE, None, None), Dev(6, 2, "Active", TRUE, 5, None)},
               {Ifc(2, 1, 1, "up", TRUE), Ifc(3, 6, 1, "up", TRUE)},
               {Adr(4, 1, 2, TRUE), Adr(5, 2, 3, TRUE)})
Twins    == Db({Dev(1, 1, "Active", FALSE, 4, None), Dev(6, 1, "Retired", TRUE, 5, None)},
               {Ifc(2, 1, 1, "up", TRUE), Ifc(3, 6, 1, "up", TRUE)},
               {Adr(4, 1, 2, TRUE), Adr(5, 2, 3, TRUE)})
Crowded  == Db({Dev(1, 1, "Active", TRUE, 4, None)},
               {Ifc(2, 1, 1, "up", TRUE), Ifc(3, 1, 2, "up", TRUE)},
               {Adr(4, 1, 2, TRUE), Adr(5, 2, 2, TRUE), Adr(6, 1, 3, TRUE)})

MCInitialDbs == {Empty, Synced0, Untagged, Dual, Retired0, Twins, Crowded}
OnlySynced   == {Synced0}

(* Every two of the three options in every combination.                    *)
HalfOptions  == {o \in Option : o.safe = (o.tagged_only # o.ALLOW_DUPLICATE_IPS)}
SafeOptions  == {o \in Option : o.safe /\ o.ALLOW_DUPLICATE_IPS}
=============================================================================
