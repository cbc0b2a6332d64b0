------------------------------ MODULE MCLevelDB ------------------------------
(* What is written to the database in the runs. *)
EXTENDS LevelDB

Calls(batches, syncs) == [batch : batches, sync : syncs]
Put(k) == [key |-> k, del |-> FALSE]
Del(k) == [key |-> k, del |-> TRUE]
Pairs   == Calls({<<Put(1)>>, <<Del(1), Put(2)>>}, BOOLEAN)
Singles == Calls({<<Put(1)>>, <<Put(2)>>}, {FALSE})
\* Tables that span a key they do not hold.
Spans   == Calls({<<Put(1), Put(3)>>, <<Del(1)>>, <<Put(2)>>}, {FALSE})
\* A call that fails takes the place of a reader.
Budget == reads + fails <= 2
=============================================================================
