----------------------------- MODULE MCLookups ------------------------------
(***************************************************************************)
(* Lookups with two vendors and models whose slugs meet: with capitals as  *)
(* vendors write them, one that is the slug of another, and one that is    *)
(* its own slug and no other's.                                            *)
(***************************************************************************)
EXTENDS Lookups

MCModels  == {"C9300", "c9300", "MX-5", "MX 5", "mx-5", "fw"}
MCSlugify == [m \in MCModels |-> IF m \in {"C9300", "c9300"} THEN "c9300"
                                ELSE IF m = "fw" THEN "fw" ELSE "mx-5"]

Listed(v, m) == [vendor |-> v, model |-> m]
MCInventories ==
  {[n \in {1} |-> Listed(1, "C9300")],
   [n \in {1, 2} |-> IF n = 1 THEN Listed(2, "MX-5") ELSE Listed(1, "MX-5")],
   [n \in {1, 2} |-> IF n = 1 THEN Listed(1, "MX 5") ELSE Listed(2, "c9300")],
   [n \in {1, 2} |-> Listed(2, "fw")]}
=============================================================================
