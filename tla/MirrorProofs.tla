---------------------------- MODULE MirrorProofs ----------------------------
(***************************************************************************)
(* What a job without filters that gets to its end has made of Nautobot:   *)
(* the theorems about UnsafeRunMirrors (safe delete mode off: it holds     *)
(* what IP Fabric holds) and RunSettles (on or off: nothing is left to do  *)
(* that a job can do) of SSoTSync.                                         *)
(***************************************************************************)
EXTENDS SSoTSyncProofs

-----------------------------------------------------------------------------
(* The invariant of UnsafeRunMirrors                                       *)

Whole == /\ Running /\ ~ job.safe /\ ~ job.dry_run /\ Unfiltered
         /\ aux_leftover = {} /\ OneRowPer(Uid, base)

(* What IP Fabric has comes, what it has not goes.                         *)
Comes(x) == \/ Key(x) \in Keys(db)
            \/ \E e \in diff : e.action = "create" /\ Key(e) = Key(x)
Goes(r)  == \/ Key(r) \in Keys(src) \/ Pk(r) \in objects_to_delete
            \/ \E e \in diff : e.action = "delete" /\ Key(e) = Key(r)

(* The kinds of rows that sync_complete has still to go through.           *)
Left == [vlan |-> Kinds, device |-> {"device", "location"}, location |-> {"location"},
         done |-> {}]
Ending == pc \in {"vlan", "device", "location"} \/ (pc = "done" /\ diff = {})

MirrorInv ==
  Whole =>
    /\ pc = "diff" => \A l \in base : Key(l) \in Keys(dst)
    /\ pc = "sync" => (\A x \in src : Comes(x)) /\ (\A r \in db : Goes(r))
    /\ Ending => /\ Keys(src) \subseteq Keys(db)
                 /\ \A r \in db : \/ Key(r) \in Keys(src)
                                  \/ Pk(r) \in objects_to_delete /\ r.kind \in Left[pc]

-----------------------------------------------------------------------------
(* What a handler does for the element it syncs                            *)

Did(e) ==
  /\ e.action = "create" => Key(e) \in Keys(db')
  /\ e.action = "delete" /\ ~ job.safe /\ OneRowPer(Key, db) =>
       \A r \in db' : Key(r) = Key(e) => Pk(r) \in objects_to_delete'
  /\ objects_to_delete \subseteq objects_to_delete'

LEMMA CreateLocationDoes ==
  ASSUME NEW e, Before(e), e.action = "create", e.kind = "location", CreateLocation(e)
  PROVE  Did(e)
<1>1. db' = CreateSite(db, e.name, e.data, run) /\ UNCHANGED objects_to_delete
  BY DEF CreateLocation
<1>2. e.name \in Sites /\ e.site = e.name /\ e.data \in Data /\ run \in Int /\ db \subseteq Row
  BY ElementIs DEF Before
<1>3. SiteExists(db', e.name) /\ db' \subseteq Row
  BY <1>1, <1>2, CreateSiteKeeps
<1>4. PICK n \in db' : n.kind = "location" /\ n.name = e.name
  BY <1>3 DEF SiteExists, Named
<1>5. Key(n) = Key(e)
  BY <1>2, <1>3, <1>4 DEF Key, Row, Located
<1> QED BY <1>1, <1>4, <1>5 DEF Did, Keys

LEMMA DidBySave ==
  ASSUME NEW e, Before(e), e.action = "create", NEW R, R \subseteq Row,
         NEW r, r = NewRow(e.kind, e.name, e.site, e.data, run)
                \/ r \in Matching(R, e.kind, e.name, e.site, e.data),
         Save(R, r, TagObject(r)), UNCHANGED objects_to_delete
  PROVE  Did(e)
<1>1. e \in Element /\ run \in Int
  BY ElementIs DEF Before
<1>2. r \in Row /\ Key(r) = Key(e)
  <2>1. CASE r = NewRow(e.kind, e.name, e.site, e.data, run)
    BY <1>1, <2>1, NewRowIsRow DEF Key, NewRow
  <2>2. CASE r \in Matching(R, e.kind, e.name, e.site, e.data)
    BY <2>2 DEF Matching, Key
  <2> QED BY <2>1, <2>2
<1>3. Key(TagObject(r)) = Key(e) /\ TagObject(r) \in db'
  BY <1>2, TagObjectKeeps, KeyOfPk DEF Save
<1> QED BY <1>3 DEF Did, Keys

LEMMA CreateDeviceDoes ==
  ASSUME NEW e, Before(e), e.action = "create", e.kind = "device", CreateDevice(e)
  PROVE  Raise \/ Did(e)
<1> DEFINE R     == IF SiteExists(db, e.site) THEN db ELSE CreateSite(db, e.site, None, run)
           found == Matching(R, "device", e.name, e.site, e.data)
           new   == NewRow("device", e.name, e.site, e.data, run)
<1> SUFFICES ASSUME Single(found) PROVE Did(e)
  BY DEF CreateDevice
<1>1. e.site \in Sites /\ None \in Data /\ run \in Int /\ db \subseteq Row
  BY ElementIs DEF Before, Data
<1>2. R \subseteq Row
  BY <1>1, CreateSiteKeeps
<1>3. PICK r \in (IF found = {} THEN {new} ELSE found) :
        Save(R, r, TagObject(r)) /\ UNCHANGED objects_to_delete
  BY DEF CreateDevice
<1>4. r = NewRow(e.kind, e.name, e.site, e.data, run)
      \/ r \in Matching(R, e.kind, e.name, e.site, e.data)
  BY <1>3
<1> HIDE DEF R
<1> QED BY <1>2, <1>3, <1>4, DidBySave

LEMMA CreateVlanDoes ==
  ASSUME NEW e, Before(e), e.action = "create", e.kind = "vlan", CreateVlan(e)
  PROVE  Raise \/ Did(e)
<1> DEFINE found == Matching(db, "vlan", e.name, e.site, e.data)
           new   == NewRow("vlan", e.name, e.site, e.data, run)
<1> SUFFICES ASSUME ~ Raise PROVE Did(e)
  OBVIOUS
<1>1. PICK r \in (IF found = {} THEN {new} ELSE found) :
        Save(db, r, TagObject(r)) /\ UNCHANGED objects_to_delete
  BY DEF CreateVlan
<1>2. r = NewRow(e.kind, e.name, e.site, e.data, run)
      \/ r \in Matching(db, e.kind, e.name, e.site, e.data)
  BY <1>1
<1>3. PICK R : R = db
  OBVIOUS
<1>4. R \subseteq Row
  BY <1>3, ElementIs DEF Before
<1> QED BY <1>1, <1>2, <1>3, <1>4, DidBySave

LEMMA CreateDoes ==
  ASSUME NEW e, Before(e), e.action = "create", Create(e)
  PROVE  Raise \/ ObjectNotCreated \/ Did(e)
<1>0. e.kind \in Kinds
  BY ElementIs DEF Before
<1>1. CASE Stored(dst, e)
  BY <1>1 DEF Create
<1>2. CASE ~ Stored(dst, e) /\ e.kind = "location"
  BY <1>2, CreateLocationDoes DEF Create
<1>3. CASE ~ Stored(dst, e) /\ e.kind = "device"
  BY <1>3, CreateDeviceDoes DEF Create
<1>4. CASE ~ Stored(dst, e) /\ e.kind = "vlan"
  BY <1>4, CreateVlanDoes DEF Create
<1> QED BY <1>0, <1>1, <1>2, <1>3, <1>4 DEF Kinds

LEMMA UpdateDoes ==
  ASSUME NEW e, Before(e), e.action = "update", Update(e)
  PROVE  Raise \/ Did(e)
<1>0. e.kind \in Kinds
  BY ElementIs DEF Before
<1>1. Raise \/ UNCHANGED objects_to_delete
  <2>1. CASE e.kind = "location"
    BY <2>1 DEF Update, UpdateLocation, UpdateRow
  <2>2. CASE e.kind = "device"
    BY <2>2 DEF Update, UpdateDevice, UpdateRow, Skip
  <2>3. CASE e.kind = "vlan"
    BY <2>3 DEF Update, UpdateVlan, UpdateRow
  <2> QED BY <1>0, <2>1, <2>2, <2>3 DEF Kinds
<1> QED BY <1>1 DEF Did

(* The row of a VLAN to delete is the one its model was loaded from.       *)
LEMMA VlanIs ==
  ASSUME NEW e, Before(e), e.kind = "vlan", NEW m \in dst, Uid(m) = Uid(e), NEW w \in db,
         Pk(w) = m.pk
  PROVE  Key(w) = Key(e)
<1>1. m.pk # None
  BY ElementIs, PkIsPk, NoneAssumption DEF Before
<1>2. PICK l \in base : m.pk = Pk(l) /\ Key(m) = Key(l)
  BY <1>1 DEF Before, RowsInv, StoreFine, LoadedModel
<1>3. Key(m) = Key(e)
  BY UidIs DEF Key
<1> QED BY <1>2, <1>3, KeyOfPk

(* With safe delete mode off the one row an element to delete stands for   *)
(* is queued.                                                              *)
LEMMA DeleteDoes ==
  ASSUME NEW e, Before(e), SafeInv, e.action = "delete", Delete(e)
  PROVE  Raise \/ Did(e)
<1>0. e.kind \in Kinds /\ Fine(db) /\ safe_delete_mode = job.safe
  BY ElementIs DEF Before, BeforeCore, SafeInv
<1>1. ASSUME NEW w \in db, SafeDelete(e, w),
             OneRowPer(Key, db) => \A r \in db : Key(r) = Key(e) => r = w
      PROVE  Did(e)
  BY <1>0, <1>1 DEF SafeDelete, Did
<1>2. CASE e.kind = "location"
  <2>1. \A r, w \in Named(db, "location", e.name) : r = w
    BY <1>0, KeyOfSite DEF Named, Fine
  <2>2. \A r \in db : Key(r) = Key(e) => r \in Named(db, "location", e.name)
    BY <1>2, KindIs DEF Named
  <2>3. Raise \/ \E w \in Named(db, "location", e.name) : SafeDelete(e, w)
    BY <1>2 DEF Delete, DeleteLocation
  <2> QED BY <1>1, <2>1, <2>2, <2>3 DEF Named
<1>3. CASE e.kind = "device"
  <2>1. \A r \in db : Key(r) = Key(e) => r \in Named(db, "device", e.name)
    BY <1>3, KindIs DEF Named
  <2>2. \/ Named(db, "device", e.name) = {} /\ Skip(e)
        \/ Raise
        \/ /\ Single(Named(db, "device", e.name))
           /\ \E w \in Named(db, "device", e.name) : SafeDelete(e, w)
    BY <1>3 DEF Delete, DeleteDevice
  <2>3. CASE Named(db, "device", e.name) = {} /\ Skip(e)
    BY <2>1, <2>3 DEF Skip, Did
  <2>4. CASE /\ Single(Named(db, "device", e.name))
             /\ \E w \in Named(db, "device", e.name) : SafeDelete(e, w)
    <3>1. PICK w \in Named(db, "device", e.name) : SafeDelete(e, w)
      BY <2>4
    <3>2. w \in db /\ \A r \in db : Key(r) = Key(e) => r = w
      BY <2>1, <2>4 DEF Named, Single
    <3> QED BY <1>1, <3>1, <3>2
  <2> QED BY <2>2, <2>3, <2>4
<1>4. CASE e.kind = "vlan"
  <2>1. Raise \/ \E m \in dst, w \in db : Uid(m) = Uid(e) /\ Pk(w) = m.pk /\ SafeDelete(e, w)
    BY <1>4 DEF Delete, DeleteVlan
  <2>2. ASSUME NEW m \in dst, NEW w \in db, Uid(m) = Uid(e), Pk(w) = m.pk, SafeDelete(e, w)
        PROVE  Did(e)
    <3>1. Key(w) = Key(e)
      BY <1>4, <2>2, VlanIs
    <3>2. OneRowPer(Key, db) => \A r \in db : Key(r) = Key(e) => r = w
      BY <3>1 DEF OneRowPer
    <3> QED BY <1>1, <2>2, <3>2
  <2> QED BY <2>1, <2>2
<1> QED BY <1>0, <1>2, <1>3, <1>4 DEF Kinds

LEMMA ElementDoes ==
  ASSUME TypeOK, SafeInv, RowsInv, SyncElement
  PROVE  Raise \/ ObjectNotCreated \/ (Wrote /\ \E e \in diff : Reached(e) /\ Did(e))
<1>1. PICK e \in diff : \/ e.action = "create" /\ Create(e)
                        \/ e.action = "update" /\ Update(e)
                        \/ e.action = "delete" /\ Delete(e)
  BY DEF SyncElement
<1>2. Before(e)
  BY <1>1 DEF Before, BeforeCore, RowsInv, SyncElement
<1>3. Raise \/ ObjectNotCreated \/ Reached(e)
  BY <1>1, <1>2, CreateReaches, UpdateOrDeleteReaches DEF Before
<1>4. Raise \/ ObjectNotCreated \/ Did(e)
  BY <1>1, <1>2, CreateDoes, UpdateDoes, DeleteDoes
<1>5. Wrote \/ Raise \/ ObjectNotCreated
  BY SyncElementHandles DEF Handled
<1> QED BY <1>1, <1>3, <1>4, <1>5

-----------------------------------------------------------------------------
(* The invariant holds                                                     *)

LEMMA InitMirror == Init => MirrorInv
BY DEF Init, MirrorInv, Whole, Running

(* Before the diff, and between jobs, it says nothing.                     *)
LEMMA MirrorLater ==
  ASSUME pc' \in {"idle", "source", "target"}
  PROVE  MirrorInv'
BY DEF MirrorInv, Whole, Running, Ending

(* A job without a filter loads every row, where unique ids are.           *)
LEMMA LoadsWhole ==
  ASSUME NEW D \in SUBSET Row, HasSites(D), Numbered(D), OneRowPer(Uid, D),
         NEW L \in Loads(D, FALSE, None)
  PROVE  L = D
<1>1. L \subseteq D
  BY LoadsAreRows
<1>2. ASSUME NEW r \in D PROVE r \in L
  <2>1. PICK q \in L : Uid(q) = Uid(r)
    BY LoadsAll
  <2> QED BY <1>1, <2>1 DEF OneRowPer
<1> QED BY <1>1, <1>2

LEMMA LoadTargetLoads ==
  ASSUME TypeOK, ReferentialIntegrity, RowsInv, LoadTarget, Unfiltered, OneRowPer(Uid, base),
         NEW l \in base
  PROVE  ToModel(l) \in dst'
<1>1. db = base
  BY DEF LoadTarget, RowsInv, CoreInv, NotYet
<1>2. PICK L \in Loads(db, job.tagged_only, job.site_filter) : dst' = {ToModel(r) : r \in L}
  BY DEF LoadTarget
<1>3. job.tagged_only = FALSE /\ job.site_filter = None
  BY DEF Unfiltered, TypeOK, Option, LoadTarget
<1> PICK D : D = db
  OBVIOUS
<1>4. /\ D \in SUBSET Row /\ HasSites(D) /\ Numbered(D) /\ OneRowPer(Uid, D)
      /\ L \in Loads(D, FALSE, None)
  BY <1>1, <1>2, <1>3 DEF TypeOK, ReferentialIntegrity, RowsInv, CoreInv, RowsFine, Fine, OneRowPer
<1>5. L = D
  BY <1>4, LoadsWhole
<1> QED BY <1>1, <1>2, <1>5

LEMMA LoadTargetMirrors ==
  ASSUME TypeOK, ReferentialIntegrity, RowsInv, LoadTarget
  PROVE  MirrorInv'
<1>1. pc = "target" /\ pc' = "diff" /\ UNCHANGED <<db, base, job>> /\ db = base
  BY DEF LoadTarget, tables, RowsInv, CoreInv, NotYet
<1> SUFFICES ASSUME Unfiltered, OneRowPer(Uid, base), NEW l \in base PROVE Key(l) \in Keys(dst')
  BY <1>1 DEF MirrorInv, Whole, Unfiltered, Ending, OneRowPer
<1>2. ToModel(l) \in dst' /\ Key(ToModel(l)) = Key(l)
  BY LoadTargetLoads DEF ToModel, Key
<1> QED BY <1>2 DEF Keys

(* What the source has is there, or is an element that creates it.         *)
LEMMA DiffComes ==
  ASSUME RowsInv, CalculateDiff, NEW x \in src
  PROVE  Comes(x)'
<1>1. pc = "diff" /\ diff' = DiffFrom(src, dst) /\ UNCHANGED <<db, base, src, dst>> /\ db = base
  BY DEF CalculateDiff, tables, RowsInv, CoreInv, NotYet
<1>2. CASE Key(x) \in Keys(dst)
  <2>1. PICK m \in dst : Key(m) = Key(x)
    BY <1>2 DEF Keys
  <2>2. PICK l \in base : Key(m) = Key(l)
    BY <1>1 DEF RowsInv, StoreFine, LoadedModel
  <2>3. Key(x) \in Keys(db')
    BY <1>1, <2>1, <2>2 DEF Keys
  <2> QED BY <2>3 DEF Comes
<1>3. CASE Key(x) \notin Keys(dst)
  <2>1. ToElement(x, "create", {}) \in diff'
    BY <1>1, <1>3 DEF DiffFrom
  <2> QED BY <2>1 DEF Comes, ToElement, Key
<1> QED BY <1>2, <1>3

LEMMA CalculateDiffMirrors ==
  ASSUME TypeOK, RowsInv, MirrorInv, CalculateDiff
  PROVE  MirrorInv'
<1>1. /\ pc = "diff" /\ diff' = DiffFrom(src, dst)
      /\ pc' = IF job.dry_run \/ diff' = {} THEN "done" ELSE "sync"
      /\ UNCHANGED <<db, base, objects_to_delete, aux_leftover, src, dst, job>> /\ db = base
  BY DEF CalculateDiff, tables, process, RowsInv, CoreInv, NotYet
<1>2. CASE ~ Whole
  BY <1>1, <1>2 DEF MirrorInv, Whole, Running, Unfiltered, OneRowPer
<1>3. CASE Whole
  <2>1. ~ job.dry_run /\ \A l \in base : Key(l) \in Keys(dst)
    BY <1>1, <1>3 DEF MirrorInv, Whole
  <2>2. \A x \in src : Comes(x)'
    BY DiffComes
  <2>3. ASSUME NEW r \in db PROVE Goes(r)'
    <3>1. PICK m \in dst : Key(m) = Key(r)
      BY <1>1, <2>1 DEF Keys
    <3>2. CASE Key(m) \notin Keys(src)
      <4>1. ToElement(m, "delete", {}) \in diff'
        BY <1>1, <3>2 DEF DiffFrom
      <4>2. /\ ToElement(m, "delete", {}).action = "delete"
            /\ Key(ToElement(m, "delete", {})) = Key(r)
        BY <3>1 DEF ToElement, Key
      <4> QED BY <4>1, <4>2 DEF Goes
    <3> QED BY <1>1, <3>1, <3>2 DEF Goes
  <2>4. CASE diff' # {}
    <3>1. pc' = "sync"
      BY <1>1, <2>1, <2>4
    <3> QED BY <1>1, <2>2, <2>3, <3>1 DEF MirrorInv, Ending
  <2>5. CASE diff' = {}
    <3>1. pc' = "done"
      BY <1>1, <2>5
    <3>2. \A x \in src : Key(x) \in Keys(db')
      BY <2>2, <2>5 DEF Comes
    <3>3. Keys(src)' \subseteq Keys(db)'
      BY <1>1, <3>2 DEF Keys
    <3>4. \A r \in db' : Key(r) \in Keys(src')
      <4>1. ASSUME NEW r \in db PROVE Key(r) \in Keys(src)
        <5>1. PICK m \in dst : Key(m) = Key(r)
          BY <1>1, <2>1 DEF Keys
        <5>2. Key(m) \notin Keys(src) => ToElement(m, "delete", {}) \in diff'
          BY <1>1 DEF DiffFrom
        <5> QED BY <2>5, <5>1, <5>2
      <4> QED BY <1>1, <4>1
    <3> QED BY <3>1, <3>3, <3>4 DEF MirrorInv, Ending
  <2> QED BY <2>4, <2>5
<1> QED BY <1>2, <1>3

LEMMA ElementComes ==
  ASSUME Wrote, NEW e \in diff, Reached(e), Did(e), NEW x \in src, Comes(x)
  PROVE  Comes(x)'
<1>1. diff' = diff \ {e} /\ Pks(db) \subseteq Pks(db')
  BY DEF Wrote, Reached, Kept
<1>2. Keys(db) \subseteq Keys(db')
  <2> SUFFICES ASSUME NEW r \in db PROVE Key(r) \in Keys(db')
    BY DEF Keys
  <2>1. PICK q \in db' : Pk(q) = Pk(r)
    BY <1>1 DEF Pks
  <2> QED BY <2>1, KeyOfPk DEF Keys
<1>3. CASE Key(x) \in Keys(db)
  BY <1>2, <1>3 DEF Comes
<1>4. CASE \E f \in diff : f.action = "create" /\ Key(f) = Key(x)
  <2>1. PICK f \in diff : f.action = "create" /\ Key(f) = Key(x)
    BY <1>4
  <2>2. CASE f = e
    BY <2>1, <2>2 DEF Did, Comes
  <2>3. CASE f # e
    BY <1>1, <2>1, <2>3 DEF Comes
  <2> QED BY <2>2, <2>3
<1> QED BY <1>3, <1>4 DEF Comes

LEMMA ElementMirrors ==
  ASSUME TypeOK, RowsInv, MirrorInv, pc = "sync", Wrote, NEW e \in diff, Reached(e), Did(e)
  PROVE  MirrorInv'
<1>1. /\ UNCHANGED <<base, run, src, job, aux_leftover>> /\ pc' = "sync" /\ diff' = diff \ {e}
      /\ Pks(db) \subseteq Pks(db')
  BY DEF Wrote, Reached, Kept
<1> SUFFICES ASSUME Whole PROVE (\A x \in src : Comes(x)') /\ (\A r \in db' : Goes(r)')
  BY <1>1 DEF MirrorInv, Whole, Running, Unfiltered, OneRowPer, Ending
<1>2. /\ \A x \in src : Comes(x)
      /\ \A r \in db : Goes(r)
  BY DEF MirrorInv
<1>4. \A x \in src : Comes(x)'
  BY <1>2, ElementComes
<1>5. OneRowPer(Key, db)
  <2>1. OneRowPer(Key, base)
    BY UidIs DEF Whole, OneRowPer
  <2> QED BY <2>1 DEF RowsInv, UnfilteredRunAddsNoDuplicate, Whole
<1>6. ASSUME NEW r \in db' PROVE Goes(r)'
  <2>1. CASE Pk(r) \in Pks(db)
    <3>1. PICK q \in db : Pk(q) = Pk(r) /\ Key(q) = Key(r)
      BY <2>1, KeyOfPk DEF Pks
    <3>2. CASE Key(q) \in Keys(src)
      BY <1>1, <3>1, <3>2 DEF Goes
    <3>3. CASE Pk(q) \in objects_to_delete
      BY <3>1, <3>3 DEF Goes, Did
    <3>4. CASE \E f \in diff : f.action = "delete" /\ Key(f) = Key(q)
      <4>1. PICK f \in diff : f.action = "delete" /\ Key(f) = Key(q)
        BY <3>4
      <4>2. CASE f = e
        BY <1>5, <3>1, <4>1, <4>2 DEF Did, Goes, Whole
      <4>3. CASE f # e
        BY <1>1, <3>1, <4>1, <4>3 DEF Goes
      <4> QED BY <4>2, <4>3
    <3> QED BY <1>2, <3>2, <3>3, <3>4 DEF Goes
  <2>2. CASE Pk(r) \notin Pks(db)
    <3>1. \/ r.kind = "location" /\ r.name = e.site
          \/ Key(r) = Key(e)
      BY <2>2 DEF Reached, Kept
    <3>2. Key(e) \in Keys(src)
      BY <2>2, ElementsOfSource DEF Reached, Kept
    <3>3. CASE Key(r) = Key(e)
      BY <1>1, <3>2, <3>3 DEF Goes
    <3>4. CASE r.kind = "location" /\ r.name = e.site
      <4>1. PICK x \in src : Key(x) = Key(e)
        BY <3>2 DEF Keys
      <4>2. <<"location", e.site, e.site>> \in Keys(src)
        BY <4>1, KindIs DEF RowsInv, CoreInv, IsSnapshot
      <4>3. r \in Row
        BY DEF Wrote
      <4>4. Key(r) = <<"location", e.site, e.site>>
        BY <3>4, <4>3 DEF Key, Row, Located
      <4> QED BY <1>1, <4>2, <4>4 DEF Goes
    <3> QED BY <3>1, <3>3, <3>4
  <2> QED BY <2>1, <2>2
<1> QED BY <1>4, <1>6

LEMMA SyncEndsMirrors ==
  ASSUME TypeOK, MirrorInv, pc = "sync",
         (ObjectNotCreated /\ diff # {}) \/ SyncComplete
  PROVE  MirrorInv'
<1>1. /\ UNCHANGED <<db, base, objects_to_delete, aux_leftover, src, dst, diff, job>>
      /\ (pc' = "done" /\ diff # {}) \/ (pc' = "vlan" /\ diff = {})
  BY DEF ObjectNotCreated, SyncComplete, tables, process, locals
<1>2. CASE pc' = "done" /\ diff # {}
  BY <1>1, <1>2 DEF MirrorInv, Ending
<1>3. CASE pc' = "vlan" /\ diff = {}
  <2> SUFFICES ASSUME Whole
               PROVE  /\ Keys(src) \subseteq Keys(db)
                      /\ \A r \in db : \/ Key(r) \in Keys(src)
                                       \/ Pk(r) \in objects_to_delete /\ r.kind \in Kinds
    BY <1>1, <1>3 DEF MirrorInv, Whole, Running, Unfiltered, OneRowPer, Ending, Left
  <2>1. (\A x \in src : Comes(x)) /\ (\A r \in db : Goes(r))
    BY DEF MirrorInv
  <2>2. Keys(src) \subseteq Keys(db)
    BY <1>3, <2>1 DEF Comes, Keys
  <2>3. \A r \in db : r.kind \in Kinds
    BY DEF TypeOK, Row
  <2> QED BY <1>3, <2>1, <2>2, <2>3 DEF Goes
<1> QED BY <1>1, <1>2, <1>3

(* Of the kind whose turn it is nothing stays that is queued: VLANs and    *)
(* devices are protected by nothing, and what stands in a site then is     *)
(* what IP Fabric lists there, so that it lists the site.                  *)
LEMMA DeleteGroupMirrors ==
  ASSUME TypeOK, SafeInv, RowsInv, MirrorInv, DeleteGroup
  PROVE  MirrorInv'
<1>1. /\ pc \in {"vlan", "device", "location"} /\ pc' = Cleanup[pc]
      /\ pc' \in {"device", "location", "done"}
      /\ UNCHANGED <<base, safe_delete_mode, aux_leftover, src, dst, diff, job>>
      /\ objects_to_delete' = {p \in objects_to_delete : p.kind # pc}
  BY DEF DeleteGroup, Cleanup, locals
<1> SUFFICES ASSUME Whole
             PROVE  /\ Keys(src) \subseteq Keys(db')
                    /\ \A r \in db' : \/ Key(r) \in Keys(src)
                                      \/ Pk(r) \in objects_to_delete' /\ r.kind \in Left[pc']
  BY <1>1 DEF MirrorInv, Whole, Running, Unfiltered, OneRowPer
<1>2. db' = db \ {r \in db : r.kind = pc /\ Pk(r) \in objects_to_delete /\ ~ Protected(db, r)}
  BY <1>1 DEF DeleteGroup, SafeInv, Whole
<1>3. /\ Keys(src) \subseteq Keys(db)
      /\ \A r \in db : \/ Key(r) \in Keys(src)
                       \/ Pk(r) \in objects_to_delete /\ r.kind \in Left[pc]
  BY <1>1 DEF MirrorInv, Ending
<1>4. ASSUME NEW r \in db, Pk(r) \in objects_to_delete
      PROVE  Key(r) \notin Keys(src)
  <2>1. PICK l \in base : Pk(l) = Pk(r) /\ Due(l)
    BY <1>4 DEF RowsInv, QueueFine, Whole
  <2> QED BY <2>1, KeyOfPk DEF Due
<1>5. Keys(src) \subseteq Keys(db')
  <2> SUFFICES ASSUME NEW x \in src PROVE Key(x) \in Keys(db')
    BY DEF Keys
  <2>1. PICK r \in db : Key(r) = Key(x)
    BY <1>3 DEF Keys
  <2>2. Key(r) \in Keys(src)
    BY <2>1 DEF Keys
  <2>3. r \in db'
    BY <1>2, <1>4, <2>2
  <2> QED BY <2>1, <2>3 DEF Keys
<1>6. ASSUME NEW r \in db, r.kind = pc, Pk(r) \in objects_to_delete
      PROVE  ~ Protected(db, r)
  <2> SUFFICES ASSUME r.kind = "location", NEW c \in db, c.kind # "location", c.site = r.name
               PROVE  FALSE
    BY DEF Protected
  <2>1. Left[pc] = {"location"}
    BY <1>6 DEF Left
  <2>2. Key(c) \in Keys(src)
    BY <1>3, <2>1
  <2>3. PICK x \in src : Key(x) = Key(c)
    BY <2>2 DEF Keys
  <2>4. <<"location", c.site, c.site>> \in Keys(src)
    BY <2>3, KindIs DEF RowsInv, CoreInv, IsSnapshot
  <2>5. Key(r) = <<"location", c.site, c.site>>
    BY DEF TypeOK, Row, Located, Key
  <2> QED BY <1>4, <1>6, <2>4, <2>5
<1>7. ASSUME NEW r \in db', Key(r) \notin Keys(src)
      PROVE  Pk(r) \in objects_to_delete' /\ r.kind \in Left[pc']
  <2>1. r \in db /\ Pk(r) \in objects_to_delete /\ r.kind \in Left[pc]
    BY <1>2, <1>3, <1>7
  <2>2. r.kind # pc
    BY <1>2, <1>6, <2>1
  <2>3. Pk(r).kind = r.kind
    BY DEF Pk
  <2>4. r.kind \in Left[Cleanup[pc]]
    BY <1>1, <2>1, <2>2 DEF Left, Cleanup, Kinds
  <2> QED BY <1>1, <2>1, <2>2, <2>3, <2>4
<1> QED BY <1>5, <1>7

(* As long as no user has edited since the job began.                      *)
Mirrored == Alone => MirrorInv

LEMMA NextMirrored ==
  TypeOK /\ SafeInv /\ ReferentialIntegrity /\ Inv /\ Inv' /\ Mirrored /\ [Next]_vars => Mirrored'
<1> SUFFICES ASSUME TypeOK, SafeInv, ReferentialIntegrity, Inv, Inv', Mirrored, [Next]_vars, Alone'
             PROVE  MirrorInv'
  BY DEF Mirrored
<1>1. CASE StartJob \/ LoadSource \/ Ends
  <2>1. pc' \in {"idle", "source", "target"}
    BY <1>1 DEF Ends, StartJob, ClientNotReady, LoadSource, Raise, FinishJob, WorkerRestart, Forget
  <2> QED BY <2>1, MirrorLater
<1>2. CASE UserDeletes \/ UserEdits \/ UserAdds
  <2>1. edits' = edits + 1 /\ aux_edits' = aux_edits /\ aux_edits \leq edits
    BY <1>2 DEF UserDeletes, UserEdits, UserAdds, locals, Inv, CoreInv, RowsFine
  <2>2. edits' # aux_edits'
    BY <2>1 DEF TypeOK
  <2> QED BY <2>2 DEF Alone
<1>3. ASSUME Running, UNCHANGED <<edits, aux_edits>> PROVE RowsInv /\ MirrorInv
  BY <1>3 DEF Alone, Inv, Mirrored
<1>4. CASE LoadTarget
  <2>1. Running /\ UNCHANGED <<edits, aux_edits>>
    BY <1>4 DEF LoadTarget, Running
  <2> QED BY <1>3, <1>4, <2>1, LoadTargetMirrors
<1>5. CASE CalculateDiff
  <2>1. Running /\ UNCHANGED <<edits, aux_edits>>
    BY <1>5 DEF CalculateDiff, Running
  <2> QED BY <1>3, <1>5, <2>1, CalculateDiffMirrors
<1>6. CASE SyncElement
  <2>1. pc = "sync" /\ diff # {} /\ (ObjectNotCreated \/ Wrote \/ Raise)
    BY <1>6, SyncElementHandles DEF SyncElement, Handled
  <2>2. CASE ~ Raise
    <3>1. Running /\ UNCHANGED <<edits, aux_edits>>
      BY <2>1, <2>2 DEF Running, ObjectNotCreated, Wrote, locals
    <3>2. RowsInv /\ MirrorInv
      BY <1>3, <3>1
    <3>3. ObjectNotCreated \/ (Wrote /\ \E e \in diff : Reached(e) /\ Did(e))
      BY <1>6, <2>2, <3>2, ElementDoes
    <3> QED BY <2>1, <3>2, <3>3, SyncEndsMirrors, ElementMirrors
  <2> QED BY <1>1, <2>2 DEF Ends
<1>7. CASE SyncComplete
  <2>1. pc = "sync" /\ Running /\ UNCHANGED <<edits, aux_edits>>
    BY <1>7 DEF SyncComplete, Running, locals
  <2> QED BY <1>3, <1>7, <2>1, SyncEndsMirrors
<1>8. CASE DeleteGroup
  <2>1. Running /\ UNCHANGED <<edits, aux_edits>>
    BY <1>8 DEF DeleteGroup, Running, Cleanup, locals
  <2> QED BY <1>3, <1>8, <2>1, DeleteGroupMirrors
<1>9. CASE UNCHANGED vars
  <2>1. UNCHANGED <<db, base, objects_to_delete, aux_leftover, src, dst, diff, job, pc, edits, aux_edits>>
    BY <1>9 DEF vars, tables, process, locals
  <2>2. MirrorInv
    BY <2>1 DEF Alone, Running, Mirrored
  <2> QED BY <2>1, <2>2 DEF MirrorInv, Whole, Running, Unfiltered, OneRowPer, Ending, Comes, Goes
<1> QED
  BY <1>1, <1>2, <1>4, <1>5, <1>6, <1>7, <1>8, <1>9 DEF Next, JobStep, SourceFails, Ends

(* With no edit since it began, and nothing left in the queue, a job with  *)
(* safe delete mode and all filters off that got to its end has made       *)
(* Nautobot hold the sites, devices and VLANs of IP Fabric and no others,  *)
(* where no two rows had one unique id when it began: the handlers and     *)
(* sync_complete together undo the whole of the diff.                      *)
THEOREM UnsafeRunsMirror == Spec => []UnsafeRunMirrors
<1>1. Init => Mirrored
  BY InitMirror DEF Mirrored
<1>2. Spec => [](TypeOK /\ SafeInv /\ ReferentialIntegrity)
  BY InitTypeOK, NextTypeOK, InitSafeInv, NextSafeInv, ReferenceInit, ReferenceNext, PTL DEF Spec
<1>3. Mirrored => UnsafeRunMirrors
  <2> SUFFICES ASSUME MirrorInv, Alone, Completed, ~ job.safe, Unfiltered, aux_leftover = {},
                      OneRowPer(Uid, base)
               PROVE  Keys(db) = Keys(src)
    BY DEF Mirrored, UnsafeRunMirrors
  <2>1. Whole /\ Ending /\ Left[pc] = {}
    BY DEF Completed, Whole, Running, Ending, Left
  <2>2. Keys(src) \subseteq Keys(db) /\ \A r \in db : Key(r) \in Keys(src)
    BY <2>1 DEF MirrorInv
  <2> QED BY <2>2 DEF Keys
<1> QED BY <1>1, <1>2, <1>3, RowsInvariant, NextMirrored, PTL DEF Spec

-----------------------------------------------------------------------------
(* The invariant of RunSettles                                             *)

Calm == /\ Running /\ ~ job.dry_run /\ Unfiltered
        /\ aux_leftover = {} /\ OneRowPer(Uid, base)

(* A row is as its model of the source, or an update is still to come. An  *)
(* element that creates or updates has the data of the source.             *)
Agrees(x, r)    == r.status = "Active" /\ (r.kind = "location" => r.data = x.data)
Awaits(r, attr) == \E e \in diff : e.action = "update" /\ Key(e) = Key(r) /\ attr \in e.attrs
WillAgree(x, r) == /\ r.status = "Active" \/ Awaits(r, "status")
                   /\ r.kind = "location" => r.data = x.data \/ Awaits(r, "site_id")
Faithful(e)     == e.action # "delete" => \E x \in src : Key(x) = Key(e) /\ x.data = e.data

(* What the source does not list is flagged, or is going to be.            *)
Retires(r) == Key(r) \in Keys(src) \/ IsFlagged(r)
WillRetire(r) == Retires(r) \/ \E e \in diff : e.action = "delete" /\ Key(e) = Key(r)

SettleInv ==
  Calm =>
    /\ pc = "diff" => \A l \in base : ToModel(l) \in dst
    /\ pc = "sync" => /\ \A e \in diff : Faithful(e)
                      /\ \A x \in src : Comes(x)
                      /\ \A x \in src, r \in db : Key(r) = Key(x) => WillAgree(x, r)
                      /\ job.safe => \A r \in db : WillRetire(r)
    /\ Ending => /\ \A x \in src, r \in db : Key(r) = Key(x) => Agrees(x, r)
                 /\ job.safe => Keys(src) \subseteq Keys(db) /\ \A r \in db : Retires(r)
Settled == Alone => SettleInv

(* What a handler leaves at the place of its element.                      *)
Outcome(e, n) ==
  /\ Key(n) = Key(e)
  /\ e.action = "create" => n.status = "Active" /\ (n.kind = "location" => n.data = e.data)
  /\ e.action = "update" => \E w \in db : Key(w) = Key(e) /\ n = Updated(w, e)
  /\ e.action = "delete" /\ job.safe => IsFlagged(n)
Effect(e) == /\ \A r \in db' : r \in db \/ Key(r) = Key(e)
             /\ (\A r \in db' : Key(r) # Key(e)) \/ \E n \in db' : Outcome(e, n)

LEMMA CreateLocationEffect ==
  ASSUME NEW e, Before(e), e.action = "create", e.kind = "location", e.data # None,
         CreateLocation(e)
  PROVE  Effect(e)
<1> DEFINE activate(r) == [TagObject(r) EXCEPT !.status = "Active",
                                               !.data = IF e.data = None THEN @ ELSE e.data]
           sites == Named(db, "location", e.name)
           new   == NewRow("location", e.name, e.name, None, run)
           old   == sites \cup (IF SiteExists(db, e.name) THEN {} ELSE {new})
<1>1. db' = (db \ sites) \cup {activate(r) : r \in old}
  BY DEF CreateLocation, CreateSite
<1>2. e.name \in Sites /\ e.site = e.name /\ run \in Int /\ db \subseteq Row /\ e.data \in Data
  BY ElementIs DEF Before
<1>3. ASSUME NEW r \in old PROVE r \in Row /\ Key(r) = Key(e) /\ r.kind = "location"
  <2>1. CASE r \in sites
    BY <1>2, <2>1 DEF Named, Row, Located, Key
  <2>2. CASE r = new
    BY <1>2, <2>2 DEF NewRow, Row, Located, Key, Kinds, Names, Data, Statuses
  <2> QED BY <2>1, <2>2
<1>4. ASSUME NEW r \in old
      PROVE  /\ Key(activate(r)) = Key(e)
             /\ activate(r).status = "Active" /\ activate(r).data = e.data
  BY <1>3 DEF Row, TagObject, Key
<1>5. \E r : r \in old
  BY DEF SiteExists
<1> HIDE DEF activate, old
<1> QED BY <1>1, <1>4, <1>5 DEF Effect, Outcome

(* A device or a VLAN that is created or found is active.                  *)
LEMMA EffectBySave ==
  ASSUME NEW e, Before(e), e.action = "create", e.kind # "location",
         NEW r, r = NewRow(e.kind, e.name, e.site, e.data, run)
                \/ r \in Matching(db, e.kind, e.name, e.site, e.data),
         Save(db, r, TagObject(r))
  PROVE  Effect(e)
<1>1. e \in Element /\ run \in Int /\ db \subseteq Row
  BY ElementIs DEF Before
<1>2. r \in Row /\ Key(r) = Key(e) /\ r.status = "Active"
  <2>1. CASE r = NewRow(e.kind, e.name, e.site, e.data, run)
    BY <1>1, <2>1, NewRowIsRow DEF Key, NewRow
  <2>2. CASE r \in Matching(db, e.kind, e.name, e.site, e.data)
    BY <1>1, <2>2 DEF Matching, Key
  <2> QED BY <2>1, <2>2
<1>3. Key(TagObject(r)) = Key(e) /\ TagObject(r).status = "Active"
  BY <1>2 DEF Row, TagObject, Key
<1>4. TagObject(r).kind # "location"
  BY <1>3, KindIs
<1>5. db' = (db \ {r}) \cup {TagObject(r)}
  BY DEF Save
<1> QED BY <1>3, <1>4, <1>5 DEF Effect, Outcome

LEMMA CreateEffect ==
  ASSUME NEW e, Before(e), e.action = "create", e.kind = "location" => e.data # None,
         SiteExists(db, e.site), Create(e)
  PROVE  Raise \/ ObjectNotCreated \/ Effect(e)
<1>0. e.kind \in Kinds
  BY ElementIs DEF Before
<1>1. CASE Stored(dst, e)
  BY <1>1 DEF Create
<1>2. CASE ~ Stored(dst, e) /\ e.kind = "location"
  BY <1>2, CreateLocationEffect DEF Create
<1>3. CASE ~ Stored(dst, e) /\ e.kind = "device"
  <2>1. CreateDevice(e)
    BY <1>3 DEF Create
  <2>2. Raise \/ \E r \in (IF Matching(db, "device", e.name, e.site, e.data) = {}
                          THEN {NewRow("device", e.name, e.site, e.data, run)}
                          ELSE Matching(db, "device", e.name, e.site, e.data)) :
                  Save(db, r, TagObject(r))
    BY <2>1 DEF CreateDevice
  <2> QED BY <1>3, <2>2, EffectBySave
<1>4. CASE ~ Stored(dst, e) /\ e.kind = "vlan"
  <2>1. CreateVlan(e)
    BY <1>4 DEF Create
  <2>2. Raise \/ \E r \in (IF Matching(db, "vlan", e.name, e.site, e.data) = {}
                          THEN {NewRow("vlan", e.name, e.site, e.data, run)}
                          ELSE Matching(db, "vlan", e.name, e.site, e.data)) :
                  Save(db, r, TagObject(r))
    BY <2>1 DEF CreateVlan
  <2> QED BY <1>4, <2>2, EffectBySave
<1> QED BY <1>0, <1>1, <1>2, <1>3, <1>4 DEF Kinds

(* The one device of a name, if there is one only, is the element's.       *)
LEMMA DeviceIs ==
  ASSUME NEW e, Before(e), e.kind = "device", e.action # "create",
         Single(Named(db, "device", e.name)), NEW w \in Named(db, "device", e.name)
  PROVE  w \in db /\ Key(w) = Key(e)
<1>1. PICK l \in base : Key(l) = Key(e)
  <2>1. e.action \in {"update", "delete"}
    BY ElementIs DEF Before, Element, Actions
  <2> QED BY <2>1 DEF Before, BeforeCore, RowsInv, DiffFine, Keys
<1>2. PICK q \in db : Pk(q) = Pk(l)
  BY DEF Before, BeforeCore, RowsInv, NewRows, Pks
<1>3. Key(q) = Key(e)
  BY <1>1, <1>2, KeyOfPk
<1>4. q = w
  BY <1>3 DEF Single, Named, Key
<1> QED BY <1>2, <1>3, <1>4

LEMMA UpdateEffect ==
  ASSUME NEW e, Before(e), e.action = "update", Update(e)
  PROVE  Raise \/ Effect(e)
<1>0. e.kind \in Kinds /\ e \in Element
  BY ElementIs DEF Before
<1>1. ASSUME NEW w \in db, Key(w) = Key(e), UpdateRow(e, w) PROVE Effect(e)
  <2>1. w \in Row
    BY ElementIs DEF Before
  <2>2. Key(Updated(w, e)) = Key(e)
    BY <1>0, <1>1, <2>1, UpdatedKeeps, KeyOfPk
  <2>3. db' = (db \ {w}) \cup {Updated(w, e)}
    BY <1>1 DEF UpdateRow, Save
  <2> QED BY <1>1, <2>2, <2>3 DEF Effect, Outcome
<1>2. CASE e.kind = "location"
  <2>1. \A w \in Named(db, "location", e.name) : w \in db /\ Key(w) = Key(e)
    BY <1>2, ElementIs DEF Before, Named, Row, Located, Key
  <2>2. Raise \/ \E w \in Named(db, "location", e.name) : UpdateRow(e, w)
    BY <1>2 DEF Update, UpdateLocation
  <2> QED BY <1>1, <2>1, <2>2
<1>3. CASE e.kind = "device"
  <2>1. \/ Raise \/ (Skip(e) /\ Named(db, "device", e.name) = {})
        \/ /\ Single(Named(db, "device", e.name))
           /\ \E w \in Named(db, "device", e.name) : UpdateRow(e, w)
    BY <1>3 DEF Update, UpdateDevice
  <2>2. CASE Skip(e) /\ Named(db, "device", e.name) = {}
    <3>1. \A r \in db : Key(r) # Key(e)
      BY <1>3, <2>2, KindIs DEF Named
    <3> QED BY <2>2, <3>1 DEF Skip, Effect
  <2> QED BY <1>1, <1>3, <2>1, <2>2, DeviceIs
<1>4. CASE e.kind = "vlan"
  <2>1. Raise \/ \E w \in Named(db, "vlan", e.name) : w.site = e.site /\ UpdateRow(e, w)
    BY <1>4 DEF Update, UpdateVlan
  <2>2. \A w \in Named(db, "vlan", e.name) : w.site = e.site => w \in db /\ Key(w) = Key(e)
    BY <1>4 DEF Named, Key
  <2> QED BY <1>1, <2>1, <2>2
<1> QED BY <1>0, <1>2, <1>3, <1>4 DEF Kinds

LEMMA DeleteEffect ==
  ASSUME NEW e, Before(e), SafeInv, e.action = "delete", Delete(e)
  PROVE  Raise \/ Effect(e)
<1>0. e.kind \in Kinds /\ safe_delete_mode = job.safe
  BY ElementIs DEF Before, BeforeCore, SafeInv
<1>1. ASSUME NEW w \in db, Key(w) = Key(e), SafeDelete(e, w) PROVE Effect(e)
  <2>1. w \in Row
    BY ElementIs DEF Before
  <2>2. Key(SafeDeleted(w)) = Key(e) /\ IsFlagged(SafeDeleted(w))
    BY <1>1, <2>1 DEF SafeDeleted, IsFlagged, TagObject, Row, Key
  <2>3. CASE job.safe
    <3>1. db' = (db \ {w}) \cup {SafeDeleted(w)}
      BY <1>0, <1>1, <2>3 DEF SafeDelete, Save
    <3> QED BY <2>2, <3>1 DEF Effect, Outcome
  <2>4. CASE ~ job.safe
    <3>1. db' = db
      BY <1>0, <1>1, <2>4 DEF SafeDelete
    <3> QED BY <1>1, <2>4, <3>1 DEF Effect, Outcome
  <2> QED BY <2>3, <2>4
<1>2. CASE e.kind = "location"
  <2>1. \A w \in Named(db, "location", e.name) : w \in db /\ Key(w) = Key(e)
    BY <1>2, ElementIs DEF Before, Named, Row, Located, Key
  <2>2. Raise \/ \E w \in Named(db, "location", e.name) : SafeDelete(e, w)
    BY <1>2 DEF Delete, DeleteLocation
  <2> QED BY <1>1, <2>1, <2>2
<1>3. CASE e.kind = "device"
  <2>1. \/ Raise \/ (Skip(e) /\ Named(db, "device", e.name) = {})
        \/ /\ Single(Named(db, "device", e.name))
           /\ \E w \in Named(db, "device", e.name) : SafeDelete(e, w)
    BY <1>3 DEF Delete, DeleteDevice
  <2>2. CASE Skip(e) /\ Named(db, "device", e.name) = {}
    <3>1. \A r \in db : Key(r) # Key(e)
      BY <1>3, <2>2, KindIs DEF Named
    <3> QED BY <2>2, <3>1 DEF Skip, Effect
  <2> QED BY <1>1, <1>3, <2>1, <2>2, DeviceIs
<1>4. CASE e.kind = "vlan"
  <2>1. Raise \/ \E m \in dst, w \in db : Uid(m) = Uid(e) /\ Pk(w) = m.pk /\ SafeDelete(e, w)
    BY <1>4 DEF Delete, DeleteVlan
  <2> QED BY <1>1, <1>4, <2>1, VlanIs
<1> QED BY <1>0, <1>2, <1>3, <1>4 DEF Kinds

(* The site of what is created is there: the source lists it, and an       *)
(* element that creates it would be the turn of the sync.                  *)
LEMMA SiteIsThere ==
  ASSUME NEW e, Before(e), SettleInv, Calm, MayBeNext(e, diff, here, src), e.action = "create",
         e.kind # "location"
  PROVE  SiteExists(db, e.site)
<1>1. PICK x \in src : e = ToElement(x, "create", {})
  BY DEF Before, BeforeCore, CoreInv, Planned
<1>2. Key(x) = Key(e)
  BY <1>1 DEF ToElement, Key
<1>3. <<"location", e.site, e.site>> \in Keys(src)
  BY <1>2, KindIs DEF Before, BeforeCore, CoreInv, IsSnapshot
<1>4. PICK y \in src : Key(y) = <<"location", e.site, e.site>>
  BY <1>3 DEF Keys
<1>5. y.kind = "location" /\ y.name = e.site /\ y.site = e.site
  BY <1>4 DEF Key
<1>6. CASE Key(y) \in Keys(db)
  <2>1. PICK r \in db : Key(r) = Key(y)
    BY <1>6 DEF Keys
  <2>2. r.kind = "location" /\ r.name = e.site
    BY <1>5, <2>1, KindIs
  <2> QED BY <2>2 DEF SiteExists, Named
<1>7. CASE \E f \in diff : f.action = "create" /\ Key(f) = Key(y)
  <2>1. PICK f \in diff : Key(f) = Key(y)
    BY <1>7
  <2>2. f.kind = "location" /\ f.site = e.site
    BY <1>5, <2>1, KindIs
  <2>3. ~ Precedes(f, e)
    BY <2>2 DEF MayBeNext
  <2>4. e.site \in Nat /\ e.kind \in Kinds
    BY ElementIs, NamesAssumption DEF Before
  <2>5. KindRank(f.kind) = 0 /\ KindRank(e.kind) \in {1, 2}
    BY <2>2, <2>4 DEF KindRank, Kinds
  <2> QED BY <2>2, <2>3, <2>4, <2>5 DEF Precedes
<1>8. Comes(y)
  BY DEF SettleInv, Before, BeforeCore
<1> QED BY <1>6, <1>7, <1>8 DEF Comes

LEMMA ElementEffect ==
  ASSUME TypeOK, SafeInv, RowsInv, SettleInv, Calm, SyncElement
  PROVE  \/ Raise \/ ObjectNotCreated
         \/ Wrote /\ \E e \in diff : Reached(e) /\ Did(e) /\ Effect(e)
<1>1. PICK e \in diff : /\ MayBeNext(e, diff, here, src)
                        /\ \/ e.action = "create" /\ Create(e)
                           \/ e.action = "update" /\ Update(e)
                           \/ e.action = "delete" /\ Delete(e)
  BY DEF SyncElement
<1>2. Before(e)
  BY <1>1 DEF Before, BeforeCore, RowsInv, SyncElement
<1>3. Raise \/ ObjectNotCreated \/ Reached(e)
  BY <1>1, <1>2, CreateReaches, UpdateOrDeleteReaches DEF Before
<1>4. Raise \/ ObjectNotCreated \/ Did(e)
  BY <1>1, <1>2, CreateDoes, UpdateDoes, DeleteDoes
<1>5. Wrote \/ Raise \/ ObjectNotCreated
  BY SyncElementHandles DEF Handled
<1>6. ASSUME e.action = "create"
      PROVE  SiteExists(db, e.site) \/ e.kind = "location"
  BY <1>1, <1>2, <1>6, SiteIsThere
<1>7. CASE e.action = "create" /\ e.kind = "location"
  <2>1. PICK x \in src : e = ToElement(x, "create", {})
    BY <1>2, <1>7 DEF Before, BeforeCore, CoreInv, Planned
  <2>2. e.data # None
    BY <1>7, <2>1 DEF RowsInv, CoreInv, IsSnapshot, ToElement
  <2>3. Stored(dst, e) \/ CreateLocation(e)
    BY <1>1, <1>7 DEF Create
  <2>4. ObjectNotCreated \/ Effect(e)
    BY <1>1, <1>2, <1>7, <2>2, <2>3, CreateLocationEffect DEF Create
  <2> QED BY <1>3, <1>4, <1>5, <2>4
<1>8. CASE ~ (e.action = "create" /\ e.kind = "location")
  <2>1. Raise \/ ObjectNotCreated \/ Effect(e)
    BY <1>1, <1>2, <1>6, <1>8, CreateEffect, UpdateEffect, DeleteEffect
  <2> QED BY <1>3, <1>4, <1>5, <2>1
<1> QED BY <1>7, <1>8

-----------------------------------------------------------------------------
(* It holds                                                                *)

LEMMA CalculateDiffSettles ==
  ASSUME TypeOK, RowsInv, SettleInv, CalculateDiff
  PROVE  SettleInv'
<1>1. /\ pc = "diff" /\ diff' = DiffFrom(src, dst)
      /\ pc' = IF job.dry_run \/ diff' = {} THEN "done" ELSE "sync"
      /\ UNCHANGED <<db, base, objects_to_delete, aux_leftover, src, dst, job>> /\ db = base
  BY DEF CalculateDiff, tables, process, RowsInv, CoreInv, NotYet
<1>2. CASE ~ Calm
  BY <1>1, <1>2 DEF SettleInv, Calm, Running, Unfiltered, OneRowPer
<1>3. CASE Calm
  <2>1. ~ job.dry_run /\ \A l \in base : ToModel(l) \in dst
    BY <1>1, <1>3 DEF SettleInv, Calm
  <2>2. \A l : Key(ToModel(l)) = Key(l) /\ ToModel(l).kind = l.kind
               /\ ToModel(l).data = l.data /\ ToModel(l).status = l.status
    BY DEF ToModel, Key
  <2>3. ASSUME NEW e \in diff' PROVE Faithful(e)'
    <3>1. CASE e \in {ToElement(x, "create", {}) : x \in {x \in src : Key(x) \notin Keys(dst)}}
      <4>1. PICK x \in src : e = ToElement(x, "create", {})
        BY <3>1
      <4>2. Key(x) = Key(e) /\ x.data = e.data
        BY <4>1 DEF ToElement, Key
      <4>3. \E z \in src : Key(z) = Key(e) /\ z.data = e.data
        BY <4>2
      <4> QED BY <1>1, <4>3 DEF Faithful
    <3>2. CASE e \in {ToElement(y, "delete", {}) : y \in {y \in dst : Key(y) \notin Keys(src)}}
      BY <3>2 DEF ToElement, Faithful
    <3>3. CASE \E p \in src \X dst : e = ToElement(p[1], "update", Changed(p[1], p[2]))
      <4>1. PICK p \in src \X dst : e = ToElement(p[1], "update", Changed(p[1], p[2]))
        BY <3>3
      <4>2. p[1] \in src /\ Key(p[1]) = Key(e) /\ p[1].data = e.data
        BY <4>1 DEF ToElement, Key
      <4>3. \E x \in src : Key(x) = Key(e) /\ x.data = e.data
        BY <4>2
      <4> QED BY <1>1, <4>3 DEF Faithful
    <3> QED BY <1>1, <3>1, <3>2, <3>3 DEF DiffFrom
  <2>4. \A x \in src : Comes(x)'
    BY DiffComes
  <2>5. ASSUME NEW x \in src, NEW r \in db, Key(r) = Key(x) PROVE WillAgree(x, r)'
    <3> DEFINE a == Changed(x, ToModel(r))
               e == ToElement(x, "update", a)
    <3>1. ToModel(r) \in dst /\ Key(x) = Key(ToModel(r))
      BY <1>1, <2>1, <2>2, <2>5
    <3>2. a # {} => e \in diff'
      <4>1. <<x, ToModel(r)>> \in src \X dst /\ e.attrs = a
        BY <3>1 DEF ToElement
      <4>2. e = ToElement(<<x, ToModel(r)>>[1], "update", Changed(<<x, ToModel(r)>>[1], <<x, ToModel(r)>>[2]))
        OBVIOUS
      <4> QED BY <1>1, <3>1, <4>1, <4>2 DEF DiffFrom
    <3>3. e.action = "update" /\ Key(e) = Key(r) /\ e.attrs = a
      BY <2>5 DEF ToElement, Key
    <3>4. x.kind = r.kind
      BY <2>5, KindIs
    <3>5. r.status # "Active" => "status" \in a
      BY <2>2 DEF Changed
    <3>6. r.kind = "location" /\ r.data # x.data => "site_id" \in a
      BY <2>2, <3>4 DEF Changed
    <3> HIDE DEF a, e
    <3> QED BY <3>2, <3>3, <3>5, <3>6 DEF WillAgree, Awaits
  <2>6. ASSUME NEW r \in db PROVE WillRetire(r)'
    <3>1. CASE Key(r) \in Keys(src)
      BY <1>1, <3>1 DEF WillRetire, Retires
    <3>2. CASE Key(r) \notin Keys(src)
      <4>1. ToElement(ToModel(r), "delete", {}) \in diff'
        BY <1>1, <2>1, <2>2, <3>2 DEF DiffFrom
      <4>2. /\ ToElement(ToModel(r), "delete", {}).action = "delete"
            /\ Key(ToElement(ToModel(r), "delete", {})) = Key(r)
        BY DEF ToElement, ToModel, Key
      <4> QED BY <4>1, <4>2 DEF WillRetire
    <3> QED BY <3>1, <3>2
  <2>7. CASE diff' # {}
    <3>1. pc' = "sync"
      BY <1>1, <2>1, <2>7
    <3> QED BY <1>1, <2>3, <2>4, <2>5, <2>6, <3>1 DEF SettleInv, Ending
  <2>8. CASE diff' = {}
    <3>1. pc' = "done"
      BY <1>1, <2>8
    <3>2. \A x \in src, r \in db : Key(r) = Key(x) => Agrees(x, r)
      BY <2>5, <2>8 DEF WillAgree, Awaits, Agrees
    <3>3. \A r \in db : Retires(r)
      BY <1>1, <2>6, <2>8 DEF WillRetire, Retires
    <3>4. Keys(src) \subseteq Keys(db)
      BY <1>1, <2>4, <2>8 DEF Comes, Keys
    <3> QED BY <1>1, <3>1, <3>2, <3>3, <3>4 DEF SettleInv, Agrees, Retires
  <2> QED BY <2>7, <2>8
<1> QED BY <1>2, <1>3

(* An update leaves a row as the source has it, or for another update.     *)
LEMMA UpdateAgrees ==
  ASSUME NEW e, NEW x, NEW w \in Row, WillAgree(x, w), Key(w) = Key(e), e.action = "update",
         e.data = x.data, e.kind = "location" => x.data # None, diff' = diff \ {e}
  PROVE  WillAgree(x, Updated(w, e))'
<1> DEFINE n == Updated(w, e)
<1>1. Pk(n) = Pk(w) /\ n.kind = w.kind
  BY DEF Updated, TagObject, Row, Pk
<1>2. Key(n) = Key(w) /\ w.kind = e.kind
  BY <1>1, KeyOfPk, KindIs
<1>3. n.status = "Active" \/ ("status" \notin e.attrs /\ n.status = w.status)
  BY DEF Updated, TagObject, Row
<1>4. n.kind = "location" => n.data = x.data \/ ("site_id" \notin e.attrs /\ n.data = w.data)
  BY <1>1, <1>2 DEF Updated, TagObject, Row
<1>5. ASSUME NEW a, a \notin e.attrs, Awaits(w, a)
      PROVE  \E f \in diff' : f.action = "update" /\ Key(f) = Key(n) /\ a \in f.attrs
  BY <1>2, <1>5 DEF Awaits
<1> HIDE DEF n
<1>6. n.status = "Active" \/ \E f \in diff' : f.action = "update" /\ Key(f) = Key(n) /\ "status" \in f.attrs
  BY <1>3, <1>5 DEF WillAgree
<1>7. n.kind = "location" => n.data = x.data \/ \E f \in diff' : f.action = "update" /\ Key(f) = Key(n) /\ "site_id" \in f.attrs
  BY <1>1, <1>4, <1>5 DEF WillAgree
<1> QED BY <1>6, <1>7 DEF WillAgree, Awaits, n

LEMMA ElementSettles ==
  ASSUME TypeOK, RowsInv, RowsInv', SettleInv, pc = "sync", Wrote,
         NEW e \in diff, Reached(e), Did(e), Effect(e)
  PROVE  SettleInv'
<1>1. /\ UNCHANGED <<base, src, job, aux_leftover>> /\ pc' = "sync" /\ diff' = diff \ {e}
      /\ diff' \subseteq diff
  BY DEF Wrote, Reached, Kept
<1> SUFFICES ASSUME Calm
             PROVE  /\ \A f \in diff' : Faithful(f)'
                    /\ \A x \in src : Comes(x)'
                    /\ \A x \in src, r \in db' : Key(r) = Key(x) => WillAgree(x, r)'
                    /\ job.safe => \A r \in db' : WillRetire(r)'
  BY <1>1 DEF SettleInv, Calm, Running, Unfiltered, OneRowPer, Ending
<1>2. /\ \A f \in diff : Faithful(f)
      /\ \A x \in src : Comes(x)
      /\ \A x \in src, r \in db : Key(r) = Key(x) => WillAgree(x, r)
      /\ job.safe => \A r \in db : WillRetire(r)
  BY DEF SettleInv
<1>3. \A f \in diff' : Faithful(f)'
  BY <1>1, <1>2 DEF Faithful
<1>4. \A x \in src : Comes(x)'
  BY <1>2, ElementComes
<1>5. ASSUME NEW q \in db', NEW r \in db', Key(q) = Key(r) PROVE q = r
  <2>1. OneRowPer(Key, base)'
    BY <1>1, UidIs DEF Calm, OneRowPer
  <2>2. Unfiltered' /\ Alone'
    BY <1>1 DEF Calm, Unfiltered, RowsInv
  <2>3. OneRowPer(Key, db)'
    BY <2>1, <2>2 DEF RowsInv, UnfilteredRunAddsNoDuplicate
  <2> QED BY <1>5, <2>3 DEF OneRowPer
<1>6. ASSUME NEW r \in db', Key(r) = Key(e) PROVE Outcome(e, r)
  <2>1. PICK n \in db' : Outcome(e, n)
    BY <1>6 DEF Effect
  <2>2. n = r
    BY <1>5, <1>6, <2>1 DEF Outcome
  <2> QED BY <2>1, <2>2
<1>7. ASSUME NEW r \in db', Key(r) # Key(e) PROVE r \in db
  BY <1>7 DEF Effect
<1>8. ASSUME NEW f \in diff, Key(f) # Key(e) PROVE f \in diff'
  BY <1>1, <1>8
<1>9. e.action \in {"create", "update", "delete"}
  BY DEF TypeOK, Element, Actions
<1>10. ASSUME e.action # "delete" PROVE Key(e) \in Keys(src)
  BY <1>2, <1>10 DEF Faithful, Keys
<1>11. ASSUME e.action = "delete" PROVE Key(e) \notin Keys(src)
  BY <1>11, KeyOfPk DEF RowsInv, DiffFine, Due
<1>12. ASSUME NEW x \in src, NEW r \in db', Key(r) = Key(x) PROVE WillAgree(x, r)'
  <2>1. CASE Key(r) # Key(e)
    <3>1. WillAgree(x, r)
      BY <1>2, <1>7, <1>12, <2>1
    <3>2. ASSUME NEW a, Awaits(r, a) PROVE Awaits(r, a)'
      BY <1>8, <2>1, <3>2 DEF Awaits
    <3> QED BY <3>1, <3>2 DEF WillAgree
  <2>2. CASE Key(r) = Key(e)
    <3>1. Outcome(e, r) /\ e.action # "delete"
      BY <1>6, <1>11, <1>12, <2>2 DEF Keys
    <3>2. e.data = x.data
      <4>1. PICK y \in src : Key(y) = Key(e) /\ y.data = e.data
        BY <1>2, <3>1 DEF Faithful
      <4>2. y = x
        <5>1. Key(y) = Key(x)
          BY <1>12, <2>2, <4>1
        <5>2. Uid(y) = Uid(x)
          BY <5>1, UidIs
        <5> QED BY <5>2 DEF RowsInv, CoreInv, IsSnapshot
      <4> QED BY <4>1, <4>2
    <3>3. CASE e.action = "create"
      BY <3>1, <3>2, <3>3 DEF Outcome, WillAgree
    <3>4. CASE e.action = "update"
      <4>1. PICK w \in db : Key(w) = Key(e) /\ r = Updated(w, e)
        BY <3>1, <3>4 DEF Outcome
      <4>2. w \in Row /\ WillAgree(x, w)
        BY <1>2, <1>12, <2>2, <4>1 DEF TypeOK
      <4>3. e.kind = "location" => x.data # None
        BY <1>12, <2>2, KindIs DEF RowsInv, CoreInv, IsSnapshot
      <4>4. WillAgree(x, Updated(w, e))'
        BY <1>1, <3>2, <3>4, <4>1, <4>2, <4>3, UpdateAgrees
      <4> QED BY <4>1, <4>4 DEF WillAgree, Awaits
    <3> QED BY <1>9, <3>1, <3>3, <3>4
  <2> QED BY <2>1, <2>2
<1>13. ASSUME job.safe, NEW r \in db' PROVE WillRetire(r)'
  <2>1. CASE Key(r) # Key(e)
    <3>1. WillRetire(r)
      BY <1>2, <1>7, <1>13, <2>1
    <3> QED BY <1>1, <1>8, <2>1, <3>1 DEF WillRetire, Retires
  <2>2. CASE Key(r) = Key(e)
    BY <1>1, <1>6, <1>9, <1>10, <1>13, <2>2 DEF Outcome, WillRetire, Retires
  <2> QED BY <2>1, <2>2
<1> QED BY <1>3, <1>4, <1>12, <1>13

LEMMA SyncEndsSettles ==
  ASSUME TypeOK, SettleInv, pc = "sync",
         (ObjectNotCreated /\ diff # {}) \/ SyncComplete
  PROVE  SettleInv'
<1>1. /\ UNCHANGED <<db, base, objects_to_delete, aux_leftover, src, dst, diff, job>>
      /\ (pc' = "done" /\ diff # {}) \/ (pc' = "vlan" /\ diff = {})
  BY DEF ObjectNotCreated, SyncComplete, tables, process, locals
<1>2. CASE pc' = "done" /\ diff # {}
  BY <1>1, <1>2 DEF SettleInv, Ending
<1>3. CASE pc' = "vlan" /\ diff = {}
  <2> SUFFICES ASSUME Calm
               PROVE  /\ \A x \in src, r \in db : Key(r) = Key(x) => Agrees(x, r)
                      /\ job.safe => Keys(src) \subseteq Keys(db) /\ \A r \in db : Retires(r)
    BY <1>1, <1>3 DEF SettleInv, Calm, Running, Unfiltered, OneRowPer, Ending, Agrees, Retires
  <2>1. /\ \A x \in src : Comes(x)
        /\ \A x \in src, r \in db : Key(r) = Key(x) => WillAgree(x, r)
        /\ job.safe => \A r \in db : WillRetire(r)
    BY DEF SettleInv
  <2>2. \A x \in src, r \in db : Key(r) = Key(x) => Agrees(x, r)
    BY <1>3, <2>1 DEF WillAgree, Awaits, Agrees
  <2>3. Keys(src) \subseteq Keys(db)
    BY <1>3, <2>1 DEF Comes, Keys
  <2> QED BY <1>3, <2>1, <2>2, <2>3 DEF WillRetire
<1> QED BY <1>1, <1>2, <1>3

LEMMA DeleteGroupSettles ==
  ASSUME TypeOK, SafeInv, SettleInv, DeleteGroup
  PROVE  SettleInv'
<1>1. /\ pc \in {"vlan", "device", "location"} /\ pc' \in {"device", "location", "done"}
      /\ UNCHANGED <<base, safe_delete_mode, aux_leftover, src, dst, diff, job>>
      /\ db' \subseteq db /\ (safe_delete_mode => db' = db)
  BY DEF DeleteGroup, Cleanup, locals
<1> SUFFICES ASSUME Calm
             PROVE  /\ \A x \in src, r \in db' : Key(r) = Key(x) => Agrees(x, r)
                    /\ job.safe => Keys(src) \subseteq Keys(db') /\ \A r \in db' : Retires(r)
  BY <1>1 DEF SettleInv, Calm, Running, Unfiltered, OneRowPer, Agrees, Retires
<1>2. /\ \A x \in src, r \in db : Key(r) = Key(x) => Agrees(x, r)
      /\ job.safe => Keys(src) \subseteq Keys(db) /\ \A r \in db : Retires(r)
  BY <1>1 DEF SettleInv, Ending
<1>3. job.safe => safe_delete_mode
  BY <1>1 DEF SafeInv
<1> QED BY <1>1, <1>2, <1>3

LEMMA NextSettled ==
  TypeOK /\ SafeInv /\ ReferentialIntegrity /\ Inv /\ Inv' /\ Settled /\ [Next]_vars => Settled'
<1> SUFFICES ASSUME TypeOK, SafeInv, ReferentialIntegrity, Inv, Inv', Settled, [Next]_vars, Alone'
             PROVE  SettleInv'
  BY DEF Settled
<1>1. CASE StartJob \/ LoadSource \/ Ends
  <2>1. pc' \in {"idle", "source", "target"}
    BY <1>1 DEF Ends, StartJob, ClientNotReady, LoadSource, Raise, FinishJob, WorkerRestart, Forget
  <2> QED BY <2>1 DEF SettleInv, Calm, Running, Ending
<1>2. CASE UserDeletes \/ UserEdits \/ UserAdds
  <2>1. edits' = edits + 1 /\ aux_edits' = aux_edits /\ aux_edits \leq edits
    BY <1>2 DEF UserDeletes, UserEdits, UserAdds, locals, Inv, CoreInv, RowsFine
  <2>2. edits' # aux_edits'
    BY <2>1 DEF TypeOK
  <2> QED BY <2>2 DEF Alone
<1>3. ASSUME Running, UNCHANGED <<edits, aux_edits>> PROVE RowsInv /\ SettleInv
  BY <1>3 DEF Alone, Inv, Settled
<1>4. CASE LoadTarget
  <2>1. Running /\ UNCHANGED <<edits, aux_edits>> /\ pc' = "diff" /\ UNCHANGED <<base, job>>
    BY <1>4 DEF LoadTarget, Running, tables
  <2>2. RowsInv
    BY <1>3, <2>1
  <2>3. Unfiltered /\ OneRowPer(Uid, base) => \A l \in base : ToModel(l) \in dst'
    BY <1>4, <2>2, LoadTargetLoads
  <2> QED BY <2>1, <2>3 DEF SettleInv, Calm, Unfiltered, OneRowPer, Ending
<1>5. CASE CalculateDiff
  <2>1. Running /\ UNCHANGED <<edits, aux_edits>>
    BY <1>5 DEF CalculateDiff, Running
  <2> QED BY <1>3, <1>5, <2>1, CalculateDiffSettles
<1>6. CASE SyncElement
  <2>1. pc = "sync" /\ diff # {} /\ (ObjectNotCreated \/ Wrote \/ Raise)
    BY <1>6, SyncElementHandles DEF SyncElement, Handled
  <2>2. CASE ~ Raise
    <3>1. Running /\ UNCHANGED <<edits, aux_edits>>
      BY <2>1, <2>2 DEF Running, ObjectNotCreated, Wrote, locals
    <3>2. RowsInv /\ SettleInv /\ RowsInv'
      BY <1>3, <3>1 DEF Inv
    <3>3. CASE Calm
      <4>1. ObjectNotCreated \/ (Wrote /\ \E e \in diff : Reached(e) /\ Did(e) /\ Effect(e))
        BY <1>6, <2>2, <3>2, <3>3, ElementEffect
      <4> QED BY <2>1, <3>2, <4>1, SyncEndsSettles, ElementSettles
    <3>4. CASE ~ Calm
      <4>1. UNCHANGED <<base, job, aux_leftover>>
        BY <2>1, <2>2 DEF ObjectNotCreated, Wrote, tables, locals
      <4> QED BY <3>1, <3>4, <4>1 DEF SettleInv, Calm, Unfiltered, OneRowPer
    <3> QED BY <3>3, <3>4
  <2> QED BY <1>1, <2>2 DEF Ends
<1>7. CASE SyncComplete
  <2>1. pc = "sync" /\ Running /\ UNCHANGED <<edits, aux_edits>>
    BY <1>7 DEF SyncComplete, Running, locals
  <2> QED BY <1>3, <1>7, <2>1, SyncEndsSettles
<1>8. CASE DeleteGroup
  <2>1. Running /\ UNCHANGED <<edits, aux_edits>>
    BY <1>8 DEF DeleteGroup, Running, Cleanup, locals
  <2> QED BY <1>3, <1>8, <2>1, DeleteGroupSettles
<1>9. CASE UNCHANGED vars
  <2>1. UNCHANGED <<db, base, aux_leftover, src, dst, diff, job, pc, edits, aux_edits>>
    BY <1>9 DEF vars, tables, process, locals
  <2>2. SettleInv
    BY <2>1 DEF Alone, Running, Settled
  <2> QED BY <2>1, <2>2 DEF SettleInv, Calm, Running, Unfiltered, OneRowPer, Ending, Comes, Faithful,
             WillAgree, Awaits, Agrees, WillRetire, Retires
<1> QED
  BY <1>1, <1>2, <1>4, <1>5, <1>6, <1>7, <1>8, <1>9 DEF Next, JobStep, SourceFails, Ends

(* The diff of a Nautobot that agrees with the source, or mirrors it.      *)
LEMMA NothingRemains ==
  ASSUME TypeOK, ReferentialIntegrity, Fine(db), OneRowPer(Uid, db), Keys(src) \subseteq Keys(db),
         \A x \in src, r \in db : Key(r) = Key(x) => Agrees(x, r), NEW e \in Remaining
  PROVE  \/ e.action = "delete" /\ Key(e) \in Keys(db) /\ Key(e) \notin Keys(src)
         \/ e.action = "update" /\ e.attrs \subseteq {"model", "vendor", "vid"}
<1>1. PICK L \in Loads(db, FALSE, None) : e \in DiffFrom(src, {ToModel(r) : r \in L})
  BY DEF Remaining
<1> PICK D : D = db
  OBVIOUS
<1>2. /\ D \in SUBSET Row /\ HasSites(D) /\ Numbered(D) /\ OneRowPer(Uid, D)
      /\ L \in Loads(D, FALSE, None)
  BY <1>1 DEF TypeOK, ReferentialIntegrity, Fine, OneRowPer
<1>3. L = db
  BY <1>2, LoadsWhole
<1> DEFINE M == {ToModel(r) : r \in db}
<1>4. /\ e \in DiffFrom(src, M)
      /\ \A m \in M : \E r \in db : m = ToModel(r)
      /\ \A r \in db : ToModel(r) \in M
  BY <1>1, <1>3
<1>5. \A r : /\ Key(ToModel(r)) = Key(r) /\ ToModel(r).kind = r.kind
             /\ ToModel(r).data = r.data /\ ToModel(r).status = r.status
  BY DEF ToModel, Key
<1> HIDE DEF M
<1>6. ASSUME NEW x \in src, Key(x) \notin Keys(M) PROVE FALSE
  <2>1. PICK r \in db : Key(r) = Key(x)
    BY DEF Keys
  <2>2. ToModel(r) \in M /\ Key(ToModel(r)) = Key(x)
    BY <1>4, <1>5, <2>1
  <2> QED BY <1>6, <2>2 DEF Keys
<1>7. ASSUME NEW y \in M, Key(y) \notin Keys(src), e = ToElement(y, "delete", {})
      PROVE  e.action = "delete" /\ Key(e) \in Keys(db) /\ Key(e) \notin Keys(src)
  <2>1. PICK r \in db : y = ToModel(r)
    BY <1>4
  <2>2. Key(e) = Key(y) /\ Key(y) = Key(r) /\ e.action = "delete"
    BY <1>5, <1>7, <2>1 DEF ToElement, Key
  <2> QED BY <1>7, <2>2 DEF Keys
<1>8. ASSUME NEW p \in src \X M, Key(p[1]) = Key(p[2]),
             e = ToElement(p[1], "update", Changed(p[1], p[2]))
      PROVE  e.action = "update" /\ e.attrs \subseteq {"model", "vendor", "vid"}
  <2>1. PICK r \in db : p[2] = ToModel(r)
    BY <1>4
  <2>2. Agrees(p[1], r) /\ p[1].kind = r.kind
    BY <1>5, <1>8, <2>1, KindIs
  <2>3. p[1].kind \in Kinds
    BY <2>2 DEF TypeOK, Row
  <2>4. p[2].status = "Active" /\ (p[1].kind = "location" => p[1].data = p[2].data)
    BY <1>5, <2>1, <2>2 DEF Agrees
  <2>5. Changed(p[1], p[2]) \subseteq {"model", "vendor", "vid"}
    BY <2>3, <2>4 DEF Changed, Kinds
  <2> QED BY <1>8, <2>5 DEF ToElement
<1> QED BY <1>4, <1>6, <1>7, <1>8 DEF DiffFrom

(* Once a job without a filter got to its end, and no user has edited      *)
(* since it began, the same snapshot finds nothing to do but what is       *)
(* flagged and what update cannot write, where unique ids are unique: in   *)
(* safe delete mode too, where nothing that is gone leaves Nautobot.       *)
THEOREM JobsSettle == Spec => []RunSettles
<1>1. Init => Settled
  BY DEF Init, Settled, SettleInv, Calm, Running
<1>2. Spec => [](TypeOK /\ SafeInv /\ ReferentialIntegrity)
  BY InitTypeOK, NextTypeOK, InitSafeInv, NextSafeInv, ReferenceInit, ReferenceNext, PTL DEF Spec
<1>3. TypeOK /\ ReferentialIntegrity /\ Inv /\ Settled /\ UnsafeRunMirrors => RunSettles
  <2> SUFFICES ASSUME TypeOK, ReferentialIntegrity, Inv, Settled, UnsafeRunMirrors,
                      Alone, Completed, Unfiltered, aux_leftover = {},
                      OneRowPer(Uid, base), OneRowPer(Uid, db), NEW e \in Remaining
               PROVE  \/ e.action = "delete" /\ \A r \in db : Key(r) = Key(e) => job.safe /\ IsFlagged(r)
                      \/ e.action = "update" /\ e.attrs \subseteq {"model", "vendor", "vid"}
    BY DEF RunSettles
  <2>1. Calm /\ Ending /\ Fine(db)
    BY DEF Completed, Calm, Ending, Alone, Inv, CoreInv, RowsFine
  <2>2. /\ \A x \in src, r \in db : Key(r) = Key(x) => Agrees(x, r)
        /\ job.safe => Keys(src) \subseteq Keys(db) /\ \A r \in db : Retires(r)
    BY <2>1 DEF Settled, SettleInv
  <2>3. ~ job.safe => Keys(db) = Keys(src)
    BY DEF UnsafeRunMirrors
  <2>4. \/ e.action = "delete" /\ Key(e) \in Keys(db) /\ Key(e) \notin Keys(src)
        \/ e.action = "update" /\ e.attrs \subseteq {"model", "vendor", "vid"}
    BY <2>1, <2>2, <2>3, NothingRemains
  <2>5. CASE e.action = "delete" /\ Key(e) \in Keys(db) /\ Key(e) \notin Keys(src)
    BY <2>2, <2>3, <2>5 DEF Retires
  <2> QED BY <2>4, <2>5
<1> QED BY <1>1, <1>2, <1>3, RowsInvariant, UnsafeRunsMirror, NextSettled, PTL DEF Spec
=============================================================================
