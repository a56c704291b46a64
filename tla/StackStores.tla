---------------------------- MODULE StackStores ----------------------------
(***************************************************************************)
(* Where the stack keeps the events of the IUT: for each store how the     *)
(* handler of its event (autopts/pybtp/btp/) writes it, and how the        *)
(* function that waits for it (autopts/ptsprojects/stack/layers/) reads it.*)
(*                                                                         *)
(* write  "append"  to a list                                              *)
(*        "set"     the newest event replaces the one before               *)
(*        "level"   set by one event, cleared by another                   *)
(*        "group"   to a list that goes with the group or channel it is of *)
(*        "lost"    the handler raises: it names a queue that is not there *)
(* read   "remove"  the first match of the list, which is taken out        *)
(*        "keep"    the first match of the list, which stays               *)
(*        "pop"     the head of a list that was seen not empty             *)
(*        "stream"  the head of the list of a stream that is known         *)
(*        "drain"   the whole list                                         *)
(*        "take"    the value, which is then cleared                       *)
(*        "half"    the value, cleared only if it had to be waited for     *)
(*        "latch"   the value, which stays                                 *)
(*        "value"   as "latch", and read once more after a timeout         *)
(*        "asked"   as "latch", cleared when the request is sent           *)
(*        "count"   the value, if it came after the wait began             *)
(* Stores that only the WID handlers look at have no row of the second     *)
(* kind, and the handles of sdp, lists in lists, have none of either.  A   *)
(* caller of wait_..._ev may pass another value for remove.                *)
(***************************************************************************)
EXTENDS Naturals

Handled(layer, write, stores) ==
    {[layer |-> layer, store |-> s, write |-> write] : s \in stores}
Awaited(layer, read, stores) ==
    {[layer |-> layer, store |-> s, read |-> read] : s \in stores}

(* Audio inputs.                                                            *)
AicsEvents ==
    Handled("AICS", "append", {"STATE", "GAIN_SETTING_PROP", "INPUT_TYPE",
                               "STATUS", "DESCRIPTION", "PROCEDURE"})
AicsWaits ==
    Awaited("AICS", "remove", {"STATE", "GAIN_SETTING_PROP", "INPUT_TYPE",
                               "STATUS", "DESCRIPTION", "PROCEDURE"})

(* Audio stream endpoints.                                                  *)
AscsEvents ==
    Handled("ASCS", "append", {"OPERATION_COMPLETED",
                               "CHARACTERISTIC_SUBSCRIBED",
                               "ASE_STATE_CHANGED", "CIS_CONNECTED",
                               "CIS_DISCONNECTED"})
AscsWaits ==
    Awaited("ASCS", "remove", {"OPERATION_COMPLETED",
                               "CHARACTERISTIC_SUBSCRIBED",
                               "ASE_STATE_CHANGED", "CIS_CONNECTED",
                               "CIS_DISCONNECTED"})

(* Unicast and broadcast streams.                                           *)
BapStreamsEvents ==
    Handled("BAP", "append", {"DISCOVERY_COMPLETED", "CODEC_CAP_FOUND",
                              "ASE_FOUND", "STREAM_RECEIVED", "BAA_FOUND",
                              "BIS_FOUND"})
(* Broadcast assistants.                                                    *)
BapAssistantEvents ==
    Handled("BAP", "append", {"BIS_SYNCED", "BIS_STREAM_RECEIVED",
                              "SCAN_DELEGATOR_FOUND",
                              "BROADCAST_RECEIVE_STATE", "PA_SYNC_REQ"})
BapWaits ==
         Awaited("BAP", "keep", {"CODEC_CAP_FOUND", "ASE_FOUND",
                                 "SCAN_DELEGATOR_FOUND",
                                 "BROADCAST_RECEIVE_STATE", "PA_SYNC_REQ"})
    \cup Awaited("BAP", "remove", {"DISCOVERY_COMPLETED", "STREAM_RECEIVED",
                                   "BAA_FOUND", "BIS_FOUND", "BIS_SYNCED",
                                   "BIS_STREAM_RECEIVED"})

(* Common audio.                                                            *)
CapEvents ==
    Handled("CAP", "append", {"DISCOVERY_COMPLETED",
                              "UNICAST_START_COMPLETED",
                              "UNICAST_STOP_COMPLETED"})
CapWaits ==
    Awaited("CAP", "remove", {"DISCOVERY_COMPLETED",
                              "UNICAST_START_COMPLETED",
                              "UNICAST_STOP_COMPLETED"})

(* Set coordinators.                                                        *)
CsipEvents == Handled("CSIP", "append", {"DISCOVERED", "SIRK", "LOCK"})
CsipWaits == Awaited("CSIP", "remove", {"DISCOVERED", "SIRK", "LOCK"})

(* Hearing aids.                                                            *)
HapEvents ==
         Handled("HAP", "append", {"IAC_DISCOVERY_COMPLETE",
                                   "HAUC_DISCOVERY_COMPLETE"})
    \cup Handled("HAP", "lost", {"PRESET_CHANGED"})
HapWaits ==
    Awaited("HAP", "remove", {"IAC_DISCOVERY_COMPLETE",
                              "HAUC_DISCOVERY_COMPLETE", "PRESET_CHANGED"})

(* Media control: tracks.                                                   *)
McpTracksEvents ==
    Handled("MCP", "append", {"DISCOVERED", "TRACK_DURATION",
                              "TRACK_POSITION", "PLAYBACK_SPEED",
                              "SEEKING_SPEED", "ICON_OBJ_ID"})
(* Media control: playing.                                                  *)
McpPlayingEvents ==
    Handled("MCP", "append", {"NEXT_TRACK_OBJ_ID", "PARENT_GROUP_OBJ_ID",
                              "CURRENT_GROUP_OBJ_ID", "PLAYING_ORDER",
                              "PLAYING_ORDERS_SUPPORTED", "MEDIA_STATE",
                              "OPCODES_SUPPORTED", "CONTENT_CONTROL_ID"})
(* Media control: control points.                                           *)
McpControlEvents ==
    Handled("MCP", "append", {"SEGMENTS_OBJ_ID", "CURRENT_TRACK_OBJ_ID",
                              "COMMAND", "SEARCH", "CMD_NTF", "SEARCH_NTF"})
McpWaits ==
    Awaited("MCP", "remove", {"DISCOVERED", "TRACK_DURATION",
                              "TRACK_POSITION", "PLAYBACK_SPEED",
                              "SEEKING_SPEED", "ICON_OBJ_ID",
                              "NEXT_TRACK_OBJ_ID", "PARENT_GROUP_OBJ_ID",
                              "CURRENT_GROUP_OBJ_ID", "PLAYING_ORDER",
                              "PLAYING_ORDERS_SUPPORTED", "MEDIA_STATE",
                              "OPCODES_SUPPORTED", "CONTENT_CONTROL_ID",
                              "SEGMENTS_OBJ_ID", "CURRENT_TRACK_OBJ_ID",
                              "COMMAND", "SEARCH", "CMD_NTF", "SEARCH_NTF"})

(* Microphone controllers.                                                  *)
MicpEvents == Handled("MICP", "append", {"DISCOVERED", "MUTE_STATE"})
MicpWaits == Awaited("MICP", "remove", {"DISCOVERED", "MUTE_STATE"})

(* Microphone control.                                                      *)
MicsEvents == Handled("MICS", "append", {"MUTE_STATE"})
MicsWaits == Awaited("MICS", "remove", {"MUTE_STATE"})

(* Audio capabilities.                                                      *)
PacsEvents == Handled("PACS", "append", {"CHARACTERISTIC_SUBSCRIBED"})
PacsWaits == Awaited("PACS", "remove", {"CHARACTERISTIC_SUBSCRIBED"})

(* Public broadcasts.                                                       *)
PbpEvents == Handled("PBP", "append", {"PUBLIC_BROADCAST_ANNOUNCEMENT_FOUND"})
PbpWaits == Awaited("PBP", "remove", {"PUBLIC_BROADCAST_ANNOUNCEMENT_FOUND"})

(* Telephony and media.                                                     *)
TmapEvents == Handled("TMAP", "append", {"DISCOVERY_COMPLETED"})
TmapWaits == Awaited("TMAP", "remove", {"DISCOVERY_COMPLETED"})

(* Volume controllers.                                                      *)
VcpEvents ==
    Handled("VCP", "append", {"DISCOVERED", "STATE", "FLAGS", "PROCEDURE"})
VcpWaits ==
    Awaited("VCP", "remove", {"DISCOVERED", "STATE", "FLAGS", "PROCEDURE"})

(* Volume offsets.                                                          *)
VocsEvents == Handled("VOCS", "append", {"OFFSET", "AUDIO_LOC", "PROCEDURE"})
VocsWaits == Awaited("VOCS", "remove", {"OFFSET", "AUDIO_LOC", "PROCEDURE"})

(* The core service; its object lives as long as the stack.                 *)
CoreEvents == Handled("CORE", "append", {"IUT_READY"})
CoreWaits == Awaited("CORE", "remove", {"IUT_READY"})

(* Call control: two events are counted, the others queued.                 *)
CcpEvents ==
         Handled("CCP", "set", {"DISCOVERED"})
    \cup Handled("CCP", "append", {"CHRC_HANDLES", "CHRC_VAL", "CHRC_STR",
                                   "CP", "CURRENT_CALLS"})
CcpStates == Handled("CCP", "set", {"CALL_STATES"})
CcpWaits ==
    Awaited("CCP", "remove", {"CHRC_VAL", "CHRC_STR", "CHRC_HANDLES", "CP",
                              "CURRENT_CALLS"})
CcpCounts == Awaited("CCP", "count", {"DISCOVERED", "CALL_STATES"})

(* Connections, pass keys, pairing; what gap.py keeps of each.              *)
GapLinkEvents ==
         Handled("GAP", "set", {"current_settings", "conn_params", "passkey"})
    \cup Handled("GAP", "append", {"found_devices"})
    \cup Handled("GAP", "level", {"connections"})
GapSyncEvents ==
         Handled("GAP", "set", {"sec_level", "pairing_failed_rcvd",
                                "bond_lost_ev_data",
                                "periodic_sync_established_rxed",
                                "periodic_report_rxed",
                                "periodic_transfer_received"})
    \cup Handled("GAP", "level", {"big_sync_established"})
GapStreamEvents ==
    Handled("GAP", "group", {"big_bis_data_path_setup", "big_bis_stream_rx"})
GapKeyEvents ==
         Handled("GAP", "set", {"passkey", "encryption_change_rcvd",
                                "peer_car", "subrate_change_received"})
    \cup Handled("GAP", "append", {"periodic_biginfo"})
(* A flag that is found set is left set; one that was waited for is cleared.*)
GapLinkWaits ==
         Awaited("GAP", "latch", {"connections", "peer_car"})
    \cup Awaited("GAP", "half", {"periodic_report_rxed",
                                 "periodic_sync_established_rxed",
                                 "big_sync_established"})
GapStreamWaits ==
         Awaited("GAP", "pop", {"periodic_biginfo"})
    \cup Awaited("GAP", "latch", {"big_bis_data_path_setup"})
    \cup Awaited("GAP", "stream", {"big_bis_stream_rx"})
    \cup Awaited("GAP", "half", {"periodic_transfer_received",
                                 "subrate_change_received"})
GapValues ==
    Awaited("GAP", "value", {"passkey", "pairing_failed_rcvd",
                             "encryption_change_rcvd", "bond_lost_ev_data",
                             "sec_level"})

(* The GATT server: values written, notifications.                          *)
GattEvents ==
         Handled("GATT", "set", {"has_changed", "notification_ev_received"})
    \cup Handled("GATT", "append", {"notification_events"})
GattWaits ==
         Awaited("GATT", "latch", {"has_changed"})
    \cup Awaited("GATT", "take", {"notification_ev_received"})

(* The GATT client: the answer to a discovery replaces the one before.      *)
GattClientServices == Handled("GATTC", "set", {"prim_svcs", "incl_svcs"})
GattClientCharacteristics == Handled("GATTC", "set", {"chrcs", "dscs"})
GattClientReads == Handled("GATTC", "append", {"verify_values"})
GattClientWrites ==
         Handled("GATTC", "append", {"verify_values", "notifications"})
    \cup Handled("GATTC", "set", {"write_status"})
GattClientExchange == Handled("GATTC", "set", {"mtu_exchanged"})
GattClientWaits ==
         Awaited("GATTC", "latch", {"mtu_exchanged", "verify_values",
                                    "notifications", "write_status"})
    \cup Awaited("GATTC", "asked", {"prim_svcs", "incl_svcs", "chrcs",
                                    "dscs"})

(* Alerts.                                                                  *)
IasEvents == Handled("IAS", "set", {"alert_lvl"})
IasWaits == Awaited("IAS", "latch", {"alert_lvl"})

(* L2CAP channels and what came in on them.                                 *)
L2capEvents ==
         Handled("L2CAP", "level", {"channels"})
    \cup Handled("L2CAP", "group", {"data_rx"})
L2capChannelWaits == Awaited("L2CAP", "latch", {"data_rx"})
L2capWaits == Awaited("L2CAP", "latch", {"channels"})

(* Mesh: provisioning, received messages, friends, low power nodes.         *)
MeshProvisioningEvents ==
    Handled("MESH", "set", {"oob_action", "oob_data", "is_provisioned",
                            "last_seen_prov_link_state"})
MeshNodeEvents ==
         Handled("MESH", "set", {"net_recv_ev_data",
                                 "prov_invalid_bearer_rcv",
                                 "incomp_timer_exp"})
    \cup Handled("MESH", "level", {"friendship", "lpn"})
MeshModelEvents ==
         Handled("MESH", "append", {"nodes_added"})
    \cup Handled("MESH", "set", {"model_recv_ev_data", "blob_lost_target"})
MeshModelWaits ==
         Awaited("MESH", "latch", {"nodes_added"})
    \cup Awaited("MESH", "take", {"model_recv_ev_data"})
MeshWaits ==
    Awaited("MESH", "latch", {"incomp_timer_exp",
                              "last_seen_prov_link_state", "lpn",
                              "blob_lost_target"})

(* RFCOMM channels; their data is read all at once.                         *)
RfcommEvents ==
         Handled("RFCOMM", "level", {"channels"})
    \cup Handled("RFCOMM", "append", {"rx_buffer"})
RfcommWaits ==
         Awaited("RFCOMM", "value", {"channels"})
    \cup Awaited("RFCOMM", "drain", {"rx_buffer"})

HandledStores == UNION {
    AicsEvents, AscsEvents, BapStreamsEvents, BapAssistantEvents, CapEvents,
    CsipEvents, HapEvents, McpTracksEvents, McpPlayingEvents,
    McpControlEvents, MicpEvents, MicsEvents, PacsEvents, PbpEvents,
    TmapEvents, VcpEvents, VocsEvents, CoreEvents, CcpEvents, CcpStates,
    GapLinkEvents, GapSyncEvents, GapStreamEvents, GapKeyEvents, GattEvents,
    GattClientServices, GattClientCharacteristics, GattClientReads,
    GattClientWrites, GattClientExchange, IasEvents, L2capEvents,
    MeshProvisioningEvents, MeshNodeEvents, MeshModelEvents, RfcommEvents }
AwaitedStores == UNION {
    AicsWaits, AscsWaits, BapWaits, CapWaits, CsipWaits, HapWaits, McpWaits,
    MicpWaits, MicsWaits, PacsWaits, PbpWaits, TmapWaits, VcpWaits,
    VocsWaits, CoreWaits, CcpWaits, CcpCounts, GapLinkWaits, GapStreamWaits,
    GapValues, GattWaits, GattClientWaits, IasWaits, L2capChannelWaits,
    L2capWaits, MeshModelWaits, MeshWaits, RfcommWaits }

(* A store that events write and waits read.                                *)
Stores ==
    {[layer |-> p[1].layer, store |-> p[1].store, write |-> p[1].write, read |-> p[2].read] :
        p \in {q \in HandledStores \X AwaitedStores :
                    q[1].layer = q[2].layer /\ q[1].store = q[2].store}}

=============================================================================
