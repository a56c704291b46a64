--------------------------- MODULE MCStackEvents ---------------------------
(* StackEvents on one store of every way of writing and reading.            *)
EXTENDS StackEvents

MCWatched == {s \in Stores : <<s.layer, s.store>> \in {
    <<"CORE", "IUT_READY">>,             \* append, remove, never renewed
    <<"BAP", "DISCOVERY_COMPLETED">>,    \* append, remove
    <<"BAP", "ASE_FOUND">>,              \* append, keep
    <<"GAP", "periodic_biginfo">>,       \* append, pop
    <<"GAP", "big_bis_stream_rx">>,      \* group, stream
    <<"GAP", "big_sync_established">>,   \* level, half
    <<"GAP", "passkey">>,                \* set, value
    <<"IAS", "alert_lvl">>,              \* set, latch
    <<"L2CAP", "data_rx">>,              \* group, latch; not cleaned up
    <<"MESH", "model_recv_ev_data">>,    \* set, take; not initialised anew
    <<"GATTC", "prim_svcs">>,            \* set, asked
    <<"RFCOMM", "rx_buffer">>,           \* append, drain
    <<"CCP", "CALL_STATES">>,            \* set, count
    <<"HAP", "PRESET_CHANGED">>}}        \* lost, remove

(* The threads are alike.                                                   *)
Alike == Permutations(LTs)

=============================================================================
