------------------------- MODULE IPFabricInterfaces -------------------------
(***************************************************************************)
(* What IPFabricDiffSync makes of the interface table of a snapshot, for   *)
(* one device: load_device_interfaces and pseudo_management_interface of   *)
(* diffsync/adapter_ipfabric.py.                                           *)
(*                                                                         *)
(* A table is a sequence of rows, in the order IP Fabric returns them.     *)
(* dscr stands for what IP Fabric may leave empty, mtu for what the        *)
(* adapter gives a default (the MAC address likewise). enabled, type,      *)
(* status and subnet mask are the same for every interface and left out.   *)
(***************************************************************************)
EXTENDS Tags, Naturals, Sequences

CONSTANTS
  PseudoName,   \* "pseudo_mgmt", by its rank among the names of interfaces
  PseudoText,   \* "pseudo interface for NAT IP address"
  DefaultMtu    \* DEFAULT_INTERFACE_MTU

RowsOf(hostname, table) == {i \in DOMAIN table : table[i].hostname = hostname}

(* Mutant: any address will do.                                            *)
PseudoUnlessAddressed(hostname, rows, login) ==
  IF \E row \in rows : row.primaryIp # None THEN {}
  ELSE {[hostname |-> hostname, intName |-> PseudoName, dscr |-> PseudoText,
         mtu |-> None, primaryIp |-> login]}

(* An interface that carries the login address when no row does.           *)
PseudoManagementInterface(hostname, rows, login) ==
  IF \E row \in rows : row.primaryIp = login THEN {}
  ELSE {[hostname |-> hostname, intName |-> PseudoName, dscr |-> PseudoText,
         mtu |-> None, primaryIp |-> login]}

ToInterface(row, login) ==
  [device |-> row.hostname, name |-> row.intName, text |-> row.dscr,
   mtu |-> IF row.mtu = None THEN DefaultMtu ELSE row.mtu, ip |-> row.primaryIp,
   primary |-> row.primaryIp # None /\ row.primaryIp = login]

(* The first row of a name makes the model, the others are duplicates; the *)
(* pseudo interface comes last.                                            *)
LoadDeviceInterfaces(hostname, table, login) ==
  LET rows   == RowsOf(hostname, table)
      first  == {i \in rows : \A j \in rows : table[j].intName = table[i].intName => i <= j}
      pseudo == {row \in PseudoManagementInterface(hostname, {table[i] : i \in rows}, login) :
                   \A i \in rows : table[i].intName # row.intName}
  IN  {ToInterface(row, login) : row \in {table[i] : i \in first} \cup pseudo}
=============================================================================
