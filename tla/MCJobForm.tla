----------------------------- MODULE MCJobForm ------------------------------
(***************************************************************************)
(* JobForm with three snapshots, one of them locked, and every listing.    *)
(***************************************************************************)
EXTENDS JobForm

CONSTANTS s1, s2, s3

MCSnapshots == {s1, s2, s3}
MCLocked    == {s2}
(* Newest first: s3, s2, s1.                                               *)
MCListings  == {<<s1>>, <<s2>>, <<s2, s1>>, <<s3, s1>>, <<s3, s2>>, <<s3, s2, s1>>}
=============================================================================
