--------------------------- MODULE MCIPFabricLoad ---------------------------
(***************************************************************************)
(* IPFabricLoad on tables of up to two rows over two sites, two host names *)
(* and numbers on both sides of the limits.                                *)
(***************************************************************************)
EXTENDS IPFabricLoad

CONSTANTS id1, id2, m1, m2, mtu, dscr

MCSiteIds      == {id1, id2}
MCModels       == {m1, m2}
MCVendor       == [m \in MCModels |-> "Cisco"]
MCDefaultModel == [v \in {"Cisco"} |-> m2]
MCVids         == {1, 2, 4093, 4094}
MCFallbackName(site, vid) == 1 + site

UpTo2(Rows) == {<<>>} \cup {<<r>> : r \in Rows} \cup {<<r, q>> : r, q \in Rows}

SiteRow(s, id) == [siteName |-> s, id |-> id]
VlanRow(s, n, v) == [siteName |-> s, vlanName |-> n, vlanId |-> v]
DeviceRow(d, s, m, sn, ip) ==
  [hostname |-> d, siteName |-> s, model |-> m, vendor |-> "Cisco", sn |-> sn, loginIp |-> ip]
InterfaceRow(d, i, ip) ==
  [hostname |-> d, intName |-> i, dscr |-> dscr, mtu |-> None, primaryIp |-> ip]

SiteTables == {<<SiteRow(2, id1)>>, <<SiteRow(1, id1), SiteRow(2, id1)>>,
               <<SiteRow(2, id1), SiteRow(1, id1)>>,
               <<SiteRow(2, id2), SiteRow(2, id1), SiteRow(1, id1)>>}
VlanRows   == {VlanRow(1, 1, 4094), VlanRow(1, 1, 4095), VlanRow(1, 1, 0), VlanRow(1, 1, None),
               VlanRow(1, None, 1), VlanRow(1, 2, 2), VlanRow(2, 1, 4093), VlanRow(1, 9, 2)}
DeviceRows == {DeviceRow(1, 1, m1, 49, 11), DeviceRow(1, 2, None, 50, 12),
               DeviceRow(2, 1, m1, 51, 11), DeviceRow(2, 2, m1, 0, None)}
InterfaceRows == {InterfaceRow(1, 1, 11), InterfaceRow(1, 1, 12), InterfaceRow(1, 2, None),
                  InterfaceRow(2, 1, 11)}

TablesOf(V, D, I) == [sites: SiteTables, vlans: UpTo2(V), devices: UpTo2(D), interfaces: UpTo2(I)]
(* VLANs and devices do not meet but in the store: one table at a time.    *)
MCTables     == TablesOf(VlanRows, {DeviceRow(1, 1, m1, 49, 11)}, {})
                  \cup TablesOf({VlanRow(1, 1, 4094)}, DeviceRows, InterfaceRows)
=============================================================================
