------------------------- MODULE MCOverlappingJobs --------------------------
(***************************************************************************)
(* OverlappingJobs with two devices of different types of one manufacturer *)
(* in two sites, for two workers. The first device may change its site,    *)
(* the site go that it leaves, and the device be there with another serial *)
(* number, tagged by no sync.                                              *)
(***************************************************************************)
EXTENDS OverlappingJobs, TLC

CONSTANTS w1, w2

MCWorkers == {w1, w2}
MCTypeOf  == 1 :> "t1" @@ 2 :> "t2"
MCMakerOf == "t1" :> "m" @@ "t2" :> "m"

Site(s)          == [name |-> None, site |-> s, data |-> None]
Listed(n, s, x)  == [name |-> n, site |-> s, data |-> x]
Apart    == {Site(1), Site(2), Listed(1, 1, 1), Listed(2, 2, 1)}
Moved    == {Site(2), Listed(1, 2, 1)}
MCSnapshots == {Apart, Moved}

All        == [tagged_only |-> FALSE, site_filter |-> None]
TaggedOnly == [tagged_only |-> TRUE, site_filter |-> None]
MCOptions  == {All, TaggedOnly}

MCInitialRows == {{}, {SiteRow(1, FALSE), Device(0, 1, 1, 2)},
                  {Plain("maker", "m"), Plain("type", "t1"), Plain("type", "t2")}}
=============================================================================
