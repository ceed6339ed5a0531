---------------------------- MODULE MCReserves -----------------------------
(* One pool of either family at a time: the two state spaces side by side.   *)
EXTENDS LBPool, V2Pool

VARIABLE family    \* the family of the pool this behaviour is about

Bins == -1..1
FeeParameters ==
    {[base |-> 10, control |-> 50, max |-> 20, reduction |-> 5, filter |-> 1, decay |-> 3],
     [base |-> 20, control |-> 30, max |-> 10, reduction |-> 8, filter |-> 2, decay |-> 3]}
PairReserves == {0, 1, 6, 15} \X {0, 90, 12600, 17001}

MCInit ==
    \/ family = "lb" /\ LBInit /\ v2 = NoPool /\ vault = NoPool /\ v2Calls = <<>>
    \/ /\ family = "v2" /\ V2Init
       /\ pair = NoPool /\ lb = NoPool /\ lbLogs = <<>> /\ clock = 0 /\ txs = 0
       /\ lbQuote = NoQuote

MCNext ==
    \/ family = "lb" /\ LBNext /\ UNCHANGED <<v2Vars, family>>
    \/ family = "v2" /\ V2Next /\ UNCHANGED <<lbVars, family>>

Spec == MCInit /\ [][MCNext]_<<lbVars, v2Vars, family>>
=============================================================================
