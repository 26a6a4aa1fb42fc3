----------------------------- MODULE MCReconcile ----------------------------
(* Reconcile over three lines and two pricing tables.  Lines l1 and l2 are  *)
(* one response across midnight; no table has a rate at the time of l1, and *)
(* the second has another rate for l2.  The model of l3 is known only to    *)
(* the second.  l1 may be stored by an older schema.  One process runs at a *)
(* time, under any command; the watcher's refresher and its ingest path are *)
(* concurrent in it.                                                        *)
EXTENDS Reconcile, TLC

CONSTANTS l1, l2, l3, r1, k1, k2, m1, m2, p1

MCRespOf == l1 :> r1 @@ l2 :> r1 @@ l3 :> NoResp
MCKeyOf == l1 :> k1 @@ l2 :> k2 @@ l3 :> k1
MCOutputOf == l1 :> 1 @@ l2 :> 2 @@ l3 :> 1
MCModelOf == l1 :> m1 @@ l2 :> m1 @@ l3 :> m2
MCRank == l1 :> 2 @@ l2 :> 3 @@ l3 :> 1
MCKnown == 1 :> {m1} @@ 2 :> {m1, m2}
MCPrice == 1 :> (l1 :> NoPrice @@ l2 :> 1 @@ l3 :> NoPrice)
        @@ 2 :> (l1 :> NoPrice @@ l2 :> 2 @@ l3 :> 2)
MCCommands == p1 :> CommandNames
=============================================================================
