----------------------------- MODULE MCBackends -----------------------------
(* Values for checking Backends: every transport, with its client injected   *)
(* or imported, and batches one of which has a record it cannot convert.     *)
EXTENDS Backends

ThreeBatches == <<[size |-> 3, bad |-> 0], [size |-> 1, bad |-> 0], [size |-> 2, bad |-> 2]>>
FourBatches == Append(ThreeBatches, [size |-> 1, bad |-> 0])

Configured(transports, batchLists) ==
    {s \in [transport : transports, injected : BOOLEAN, ensureSchema : BOOLEAN,
            batches : batchLists] :
        /\ s.injected \/ s.transport.lazy
        /\ s.ensureSchema => s.transport.sql}

Everything == Configured(Transports, {ThreeBatches})
                \cup Configured({NewRelicTransport, SQLiteTransport}, {FourBatches})
EnsuringPostgres == {s \in Configured({PostgresTransport}, {ThreeBatches}) : s.ensureSchema}

Delays == {1, 3}
Dates == {4}
=============================================================================
