--------------------------- MODULE MCShardedTable ---------------------------
EXTENDS ShardedTable, TLC
CONSTANTS c1, k1, k2, v1, v2
MCShardOf == (k1 :> 0) @@ (k2 :> 1)
MCQueries == {{k1, k2}}
(* A full load, an update that brings a secret, and two that are refused. *)
Msg(clear_all, secret_, whole, records) ==
    [clear_all |-> clear_all, secret |-> secret_, whole |-> whole, records |-> records]
MCLoads == {Msg(TRUE, "none", TRUE, (k1 :> v1) @@ (k2 :> v1)),
            Msg(FALSE, "s1", TRUE, (k1 :> v2) @@ (k2 :> v2)),
            Msg(TRUE, "none", FALSE, (k1 :> v1)),
            Msg(TRUE, "too_large", TRUE, (k1 :> v2))}
=============================================================================
