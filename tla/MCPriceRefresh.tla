--------------------------- MODULE MCPriceRefresh ---------------------------
(* PriceRefresh over three releases.  The second adds a model; the third    *)
(* raises a rate so far that a process with the built-in table refuses it   *)
(* and one with the second does not.                                        *)
EXTENDS PriceRefresh, TLC

CONSTANTS m1, m2, w, c

MCDay == <<1, 2, 3>>
MCCarries == <<{m1}, {m1, m2}, {m1, m2}>>
MCRate == <<m1 :> 1 @@ m2 :> 1, m1 :> 5 @@ m2 :> 1, m1 :> 25 @@ m2 :> 1>>
MCCommands == w :> {"watch"} @@ c :> {"read", "refresh"}
=============================================================================
