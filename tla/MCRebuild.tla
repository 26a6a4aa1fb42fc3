------------------------------ MODULE MCRebuild -----------------------------
(* Rebuild over two logs.  In log a, a response crosses midnight from day 1  *)
(* to day 2; log b, of a session that was resumed, has an older line that    *)
(* cannot be priced, then a copy of the last line of a, and, behind a line   *)
(* that is too long, one more; its own lines have no message ids.            *)
EXTENDS Rebuild, TLC

CONSTANTS l1, l2, l3, l4, l5, r1, k1, k2, a, b

MCRespOf == l1 :> r1 @@ l2 :> r1 @@ l3 :> r1 @@ l4 :> NoResp @@ l5 :> NoResp
MCKeyOf == l1 :> k1 @@ l2 :> k2 @@ l3 :> k2 @@ l4 :> k1 @@ l5 :> k2
MCOutputOf == l1 :> 1 @@ l2 :> 2 @@ l3 :> 2 @@ l4 :> 1 @@ l5 :> 1
MCPriceOf == l1 :> 1 @@ l2 :> 2 @@ l3 :> 2 @@ l4 :> NoPrice @@ l5 :> 1
MCLogOf == l1 :> a @@ l2 :> a @@ l3 :> b @@ l4 :> b @@ l5 :> b
MCPlace == l1 :> 1 @@ l2 :> 2 @@ l3 :> 2 @@ l4 :> 1 @@ l5 :> 3
MCDayOfKey == k1 :> 1 @@ k2 :> 2
=============================================================================
