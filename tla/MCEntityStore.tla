--------------------------- MODULE MCEntityStore ---------------------------
(***************************************************************************)
(* Instances of EntityStore.                                               *)
(***************************************************************************)
EXTENDS EntityStore, TLC

CONSTANTS o1, o2, i1, i2, c1, c2, r1, r2, NoEntity, NoLink, open, done

BothFilters == {{open, done}, {open}}

\* Orders are alike, and so are clients and readers; items are too.
Alike == Permutations({o1, o2}) \cup Permutations({c1, c2}) \cup Permutations({i1, i2})
            \cup Permutations({r1, r2})
=============================================================================
