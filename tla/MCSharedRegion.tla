--------------------------- MODULE MCSharedRegion ---------------------------
(* Loads on many machines, and passes over the regions some of them plan. *)
EXTENDS SharedRegion

Device(total) == [total |-> total, free |-> total]

MCPipelines ==
    {[pp |-> n, ids |-> <<>>, visible |-> v] : n \in 0 .. 6, v \in {1, 3}}
    \cup {[pp |-> 2, ids |-> ids, visible |-> 2] : ids \in {<<1, 0>>, <<0, 0>>, <<0, 2>>, <<1>>}}
MCDevices == {Device(total) : total \in {12, 23, 29, 40}} \cup {[total |-> 40, free |-> 30]}

\* Swept and routed windows, a pool the cap makes smaller than a layer, a
\* region without Warm, and the sweep off with a chunk of decode's cut.
DrivenConfigs ==
    [context : {1}, window : {0}, chunk : {3}, sweep : {TRUE}, blocks : {2}, cap : {0, 1},
     warm : {0, 14}, preload : BOOLEAN]
    \cup [context : {1}, window : {0}, chunk : {2}, sweep : {FALSE}, blocks : {2}, cap : {0},
          warm : {14}, preload : {TRUE}]
MCConfigs ==
    [context : {0, 1, 3, 6}, window : {0, 2}, chunk : {0, 3}, sweep : {TRUE}, blocks : {0, 2},
     cap : {0, 1, 4}, warm : {0, 13, 14, 23, 25, 44}, preload : {TRUE}]
    \cup DrivenConfigs

\* The loads whose passes are explored: at most two stages, that can all
\* sweep or all cannot.
Driven ==
    /\ budget \in DrivenConfigs
    /\ topology.pp <= 2 /\ topology.ids = <<>>
    /\ \A s, t \in DOMAIN reports : Feasible(s) <=> Feasible(t)
DrivenSpec == Init /\ [][Next /\ (pc = "loaded" => Driven)]_vars
=============================================================================
