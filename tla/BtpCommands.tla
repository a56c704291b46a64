---------------------------- MODULE BtpCommands ----------------------------
(***************************************************************************)
(* The commands of autopts/pybtp/btp/: for each the service and opcode it  *)
(* sends, when its response is read, and what of the response is compared. *)
(*                                                                         *)
(* style  "locked"  send_wait_rsp: the lock of the worker is kept until    *)
(*                  the response has been read                             *)
(*        "pair"    send, then read at once                                *)
(*        "split"   send; a function of its own reads later (the _rsp      *)
(*                  functions of gatt.py)                                  *)
(*        "unread"  send; no function reads the response                   *)
(* check  "op"      service and opcode of the response are compared        *)
(*        "svc"     the service only, and that it is no error status       *)
(*        "none"    nothing                                                *)
(*                                                                         *)
(* A row stands for every function that sends this command in this way.    *)
(* What a request carries and what is done with the data of its response   *)
(* is left out, as is a function's choice not to send (gap_set_conn of a   *)
(* connectable IUT, say): it then is no command.                           *)
(***************************************************************************)
EXTENDS FiniteSets

Commands(svc, ops, style, check) ==
    {[svc |-> svc, op |-> o, style |-> style, check |-> check] : o \in ops}

Locked(svc, ops)  == Commands(svc, ops, "locked", "op")
Pair(svc, ops)    == Commands(svc, ops, "pair", "svc")
PairOp(svc, ops)  == Commands(svc, ops, "pair", "op")
PairAny(svc, ops) == Commands(svc, ops, "pair", "none")

(* The functions that read the response to a command sent earlier.         *)
DiscoveryReaders == {"DISC_ALL_PRIM", "DISC_PRIM_UUID"}
AttributeReaders == {"FIND_INCLUDED", "DISC_ALL_CHRC", "DISC_CHRC_UUID",
                     "DISC_ALL_DESC"}
ValueReaders == {"READ", "READ_UUID", "READ_LONG", "READ_MULTIPLE",
                 "READ_MULTIPLE_VAR"}
WriteReaders == {"WRITE", "WRITE_LONG", "WRITE_RELIABLE"}
Readers == {"GATT"} \X
           (DiscoveryReaders \cup AttributeReaders \cup ValueReaders \cup WriteReaders)

Later(svc, ops) ==
    LET Read == {o \in ops : <<svc, o>> \in Readers}
    IN  Commands(svc, Read, "split", "op") \cup Commands(svc, ops \ Read, "unread", "none")

(* The core service.  Registering a service compares the whole frame.      *)
CoreRequests ==
    PairOp("CORE", {"READ_SUPPORTED_SERVICES", "READ_SUPPORTED_COMMANDS",
                    "REGISTER_SERVICE"})
CoreUnregister ==
    PairOp("CORE", {"UNREGISTER_SERVICE"}) \cup Locked("CORE", {"UNREGISTER_SERVICE"})
CoreLog == PairOp("CORE", {"LOG_MESSAGE"})
CoreCommands == CoreRequests \cup CoreUnregister \cup CoreLog

-----------------------------------------------------------------------------
(* Audio inputs: mute, gain.                                                *)
AicsControl ==
    Pair("AICS", {"MUTE", "UNMUTE", "AUTO_GAIN", "MAN_GAIN", "MAN_GAIN_ONLY",
                  "AUTO_GAIN_ONLY", "DESC_SET", "AICS_STATE", "STATUS",
                  "TYPE", "GAIN_SETTING_PROP", "SET_GAIN", "MUTE_DISABLE"})

(* Audio inputs: gain range, description.                                   *)
AicsState == Pair("AICS", {"DESCRIPTION"})

(* Audio stream endpoints.                                                  *)
AscsCommands ==
         Pair("ASCS", {"CONFIGURE_CODEC", "ADD_ASE_TO_CIS", "CONFIGURE_QOS",
                       "PRECONFIG_QOS"})
    \cup Locked("ASCS", {"ENABLE", "RECEIVER_START_READY",
                         "RECEIVER_STOP_READY", "DISABLE", "RELEASE",
                         "UPDATE_METADATA"})

(* Unicast and broadcast sources.                                           *)
BapSource ==
    Pair("BAP", {"DISCOVER", "SEND", "BROADCAST_SOURCE_SETUP",
                 "BROADCAST_SOURCE_SETUP_V2", "BROADCAST_SOURCE_RELEASE",
                 "BROADCAST_ADV_START", "BROADCAST_ADV_STOP",
                 "BROADCAST_SOURCE_START"})

(* Broadcast sinks, scan delegators.                                        *)
BapSink ==
    Pair("BAP", {"BROADCAST_SOURCE_STOP", "BROADCAST_SINK_SETUP",
                 "BROADCAST_SINK_RELEASE", "BROADCAST_SCAN_START",
                 "BROADCAST_SCAN_STOP", "BROADCAST_SINK_SYNC",
                 "BROADCAST_SINK_STOP", "BROADCAST_SINK_BIS_SYNC",
                 "SCAN_DELEGATOR_ADD_SRC", "DISCOVER_SCAN_DELEGATOR",
                 "BROADCAST_ASSISTANT_SCAN_START"})

(* Broadcast assistants.                                                    *)
BapAssistant ==
    Pair("BAP", {"BROADCAST_ASSISTANT_SCAN_STOP", "ADD_BROADCAST_SRC",
                 "REMOVE_BROADCAST_SRC", "MODIFY_BROADCAST_SRC",
                 "SET_BROADCAST_CODE", "SEND_PAST"})

(* Unicast audio.                                                           *)
CapUnicast ==
    Pair("CAP", {"DISCOVER", "UNICAST_AUDIO_START", "UNICAST_AUDIO_UPDATE",
                 "UNICAST_AUDIO_STOP", "UNICAST_SETUP_ASE",
                 "BROADCAST_SOURCE_SETUP_STREAM"})

(* Broadcast audio.                                                         *)
CapBroadcast ==
    Pair("CAP", {"BROADCAST_SOURCE_SETUP_SUBGROUP", "BROADCAST_SOURCE_SETUP",
                 "BROADCAST_SOURCE_RELEASE", "BROADCAST_ADV_START",
                 "BROADCAST_ADV_STOP", "BROADCAST_SOURCE_START",
                 "BROADCAST_SOURCE_STOP", "BROADCAST_SOURCE_UPDATE"})

(* Common audio service.                                                    *)
CasCommands ==
         Pair("CAS", {"SET_MEMBER_LOCK"})
    \cup Locked("CAS", {"GET_MEMBER_RSI"})

(* Calls and bearers.                                                       *)
CcpCalls ==
    Pair("CCP", {"DISCOVER_TBS", "ACCEPT_CALL", "TERMINATE_CALL",
                 "ORIGINATE_CALL", "READ_CALL_STATE", "READ_BEARER_NAME",
                 "READ_BEARER_UCI", "READ_BEARER_TECH", "READ_URI_LIST",
                 "READ_SIGNAL_STRENGTH", "READ_SIGNAL_INTERVAL",
                 "READ_CURRENT_CALLS"})

(* Call attributes, call control.                                           *)
CcpReads ==
    Pair("CCP", {"READ_CCID", "READ_CALL_URI", "READ_STATUS_FLAGS",
                 "READ_OPTIONAL_OPCODES", "READ_FRIENDLY_NAME",
                 "READ_REMOTE_URI", "SET_SIGNAL_INTERVAL", "HOLD_CALL",
                 "RETRIEVE_CALL", "JOIN_CALLS"})

(* Set coordinators.                                                        *)
CsipCommands ==
    Pair("CSIP", {"DISCOVER", "SET_COORDINATOR_LOCK",
                  "SET_COORDINATOR_RELEASE", "START_ORDERED_ACCESS"})

(* Set members.                                                             *)
CsisCommands ==
         Pair("CSIS", {"SET_MEMBER_LOCK", "SET_SIRK_TYPE", "SET_SIRK",
                       "SET_SET_SIZE"})
    \cup Locked("CSIS", {"GET_MEMBER_RSI"})

(* Advertising, connecting.                                                 *)
GapAdvertising ==
         PairOp("GAP", {"START_ADVERTISING", "STOP_ADVERTISING",
                        "START_DIRECT_ADV"})
    \cup Locked("GAP", {"CONNECT"})

(* Disconnecting, pairing.                                                  *)
GapPairing ==
         Pair("GAP", {"SET_FILTER_ACCEPT_LIST", "SET_IO_CAP", "PAIR",
                      "PAIR_V2"})
    \cup Locked("GAP", {"CONNECT", "DISCONNECT"})
    \cup PairOp("GAP", {"UNPAIR"})

(* Pass keys, connectable and discoverable modes.                           *)
GapVisibility ==
    Pair("GAP", {"PASSKEY_ENTRY", "PASSKEY_CONFIRM", "RESET",
                 "SET_CONNECTABLE", "SET_DISCOVERABLE", "SET_POWERED"})

(* Bonding, scanning, controller information.                               *)
GapDiscovery ==
         Pair("GAP", {"SET_BONDABLE", "START_DISCOVERY", "STOP_DISCOVERY"})
    \cup PairOp("GAP", {"READ_CONTROLLER_INFO"})

(* Connection parameters, out-of-band data, privacy.                        *)
GapParameters ==
         Pair("GAP", {"CONN_PARAM_UPDATE", "OOB_LEGACY_SET_DATA",
                      "OOB_SC_SET_REMOTE_DATA", "SET_MITM", "SET_PRIVACY",
                      "SET_SC_ONLY"})
    \cup PairOp("GAP", {"OOB_SC_GET_LOCAL_DATA"})

(* Secure connections, extended advertising.                                *)
GapModes ==
    Pair("GAP", {"SET_SC_ONLY", "SET_MIN_ENC_KEY_SIZE", "SET_SC",
                 "SET_EXTENDED_ADVERTISING"})

(* Encrypted data, periodic advertising.                                    *)
GapPeriodic ==
         PairOp("GAP", {"SET_EAD_KEY_MATERIAL", "DECRYPT_EAD_DATA",
                        "ENCRYPT_EAD_DATA", "PADV_CONFIGURE", "PADV_START"})
    \cup Pair("GAP", {"PADV_SET_DATA", "PADV_CREATE_SYNC"})

(* Sync transfer, broadcast isochronous groups.                             *)
GapIsochronous ==
    Pair("GAP", {"PADV_SYNC_TRANSFER_SET_INFO", "PADV_SYNC_TRANSFER_RECV",
                 "SUBRATE_REQUEST", "BIG_CREATE_SYNC", "CREATE_BIG"})

(* Data of a broadcast stream.                                              *)
GapBisData == Pair("GAP", {"BIS_BROADCAST"})

(* The GATT server: its database.                                           *)
GattServer ==
    Pair("GATT", {"ADD_SERVICE", "ADD_INCLUDED_SERVICE",
                  "ADD_CHARACTERISTIC", "SET_VALUE", "ADD_DESCRIPTOR",
                  "CHANGE_DATABASE"})

(* The GATT server: notifications, handles.                                 *)
GattServerValues ==
         Pair("GATT", {"NOTIFY_MULTIPLE", "START_SERVER",
                       "REMOVE_HANDLE_FROM_DB", "SET_ENC_KEY_SIZE"})
    \cup PairOp("GATT", {"GET_HANDLE_FROM_UUID"})

(* Attributes; the client: services.                                        *)
GattAttributes ==
         PairOp("GATT", {"GET_ATTRIBUTES", "GET_ATTRIBUTE_VALUE"})
    \cup Pair("GATT", {"EXCHANGE_MTU"})
    \cup Later("GATT", {"DISC_ALL_PRIM", "DISC_PRIM_UUID", "FIND_INCLUDED"})

(* The client: characteristics, descriptors.                                *)
GattDiscovery ==
    Later("GATT", {"DISC_ALL_CHRC", "DISC_CHRC_UUID", "DISC_ALL_DESC", "READ"})

(* The client: reads.                                                       *)
GattReads ==
         Later("GATT", {"READ_UUID", "READ_LONG", "READ_MULTIPLE",
                        "READ_MULTIPLE_VAR"})
    \cup Pair("GATT", {"WRITE_WITHOUT_RSP"})

(* The client: writes.                                                      *)
GattWrites ==
         Pair("GATT", {"SIGNED_WRITE_WITHOUT_RSP"})
    \cup Later("GATT", {"WRITE", "WRITE_LONG", "WRITE_RELIABLE"})

(* The client: notifications and indications.                               *)
GattConfiguration == PairOp("GATT", {"CFG_NOTIFY", "CFG_INDICATE"})

(* Enhanced ATT bearers.                                                    *)
EattConnect == Pair("GATT", {"EATT_CONNECT"})

(* The second GATT client: services, characteristics.                       *)
GattClientDiscovery ==
    Pair("GATT_CL", {"EXCHANGE_MTU", "DISC_ALL_PRIM", "DISC_PRIM_UUID",
                     "FIND_INCLUDED", "DISC_ALL_CHRC"})

(* The second GATT client: descriptors, reads.                              *)
GattClientFind ==
    Pair("GATT_CL", {"DISC_CHRC_UUID", "DISC_ALL_DESC", "READ", "READ_UUID"})

(* The second GATT client: long and multiple reads.                         *)
GattClientReads ==
    Pair("GATT_CL", {"READ_LONG", "READ_MULTIPLE", "READ_MULTIPLE_VAR",
                     "WRITE_WITHOUT_RSP"})

(* The second GATT client: writes.                                          *)
GattClientWrites ==
    Pair("GATT_CL", {"SIGNED_WRITE", "WRITE", "WRITE_LONG", "WRITE_RELIABLE"})

(* The second GATT client: notifications.                                   *)
GattClientConfiguration == Pair("GATT_CL", {"CFG_NOTIFY", "CFG_INDICATE"})

(* Media control service.                                                   *)
GmcsCommands ==
    Pair("GMCS", {"COMMAND_SEND", "CURRENT_TRACK_OBJ_ID_GET",
                  "NEXT_TRACK_OBJ_ID_GET", "INACTIVE_STATE_SET",
                  "PARENT_GROUP_SET"})

(* Hearing aids.                                                            *)
HapCommands ==
    Pair("HAP", {"READ_SUPPORTED_COMMANDS", "HA_INIT", "HARC_INIT",
                 "HAUC_INIT", "IAC_INIT", "IAC_DISCOVER", "IAC_SET_ALERT",
                 "HAUC_DISCOVER", "READ_PRESETS", "WRITE_PRESET_NAME",
                 "SET_ACTIVE_PRESET", "SET_NEXT_PRESET",
                 "SET_PREVIOUS_PRESET"})

(* Hearing access service.                                                  *)
HasCommands ==
    Pair("HAS", {"SET_ACTIVE_INDEX", "SET_PRESET_NAME", "REMOVE_PRESET",
                 "ADD_PRESET", "SET_PROPERTIES"})

(* Channels and their data.                                                 *)
L2capChannels ==
         PairOp("L2CAP", {"CONNECT", "CONNECT_V2", "DISCONNECT"})
    \cup Locked("L2CAP", {"SEND_DATA"})

(* Listeners and signals.                                                   *)
L2capListeners ==
    PairOp("L2CAP", {"LISTEN", "LISTEN_V2", "DISCONNECT_EATT_CHANS",
                     "RECONFIGURE", "CREDITS", "ECHO_REQ"})

(* Connectionless data.                                                     *)
L2capConnectionless == PairOp("L2CAP", {"CLS_SEND"})

(* Media control: tracks, objects.                                          *)
McpTrack ==
    Pair("MCP", {"DISCOVERY", "TRACK_DURATION_READ", "TRACK_POSITION_READ",
                 "TRACK_POSITION_SET", "PLAYBACK_SPEED_READ",
                 "PLAYBACK_SPEED_SET", "SEEKING_SPEED_READ",
                 "ICON_OBJ_ID_READ", "NEXT_TRACK_OBJ_ID_READ",
                 "NEXT_TRACK_OBJ_ID_SET", "PARENT_GROUP_OBJ_ID_READ",
                 "CURRENT_GROUP_OBJ_ID_READ", "CURRENT_GROUP_OBJ_ID_SET"})

(* Media control: order, control points.                                    *)
McpOrder ==
    Pair("MCP", {"PLAYING_ORDER_READ", "PLAYING_ORDER_SET",
                 "PLAYING_ORDERS_SUPPORTED_READ", "MEDIA_STATE_READ",
                 "CONTENT_CONTROL_ID_READ", "SEGMENTS_OBJ_ID_READ",
                 "CURRENT_TRACK_OBJ_ID_READ", "CURRENT_TRACK_OBJ_ID_SET",
                 "OPCODES_SUPPORTED_READ", "CMD_SEND", "SCP_SEND"})

(* Provisioning.                                                            *)
MeshProvisioning ==
    Locked("MESH", {"CONFIG_PROV", "PROV_NODE", "PROVISION_ADV", "INIT",
                    "START", "RESET", "INPUT_NUM", "INPUT_STR",
                    "IV_UPDATE_TEST_MODE"})

(* Messages, virtual addresses, faults.                                     *)
MeshMessages ==
         PairAny("MESH", {"IV_UPDATE_TOGGLE"})
    \cup Locked("MESH", {"NET_SEND", "VA_ADD", "VA_DEL",
                         "HEALTH_GENERATE_FAULTS", "MESH_CLEAR_FAULTS",
                         "LPN", "LPN_POLL", "MODEL_SEND"})

(* Low power nodes, segmentation.                                           *)
MeshLowPower ==
    Locked("MESH", {"LPN_SUBSCRIBE", "LPN_UNSUBSCRIBE", "RPL_CLEAR",
                    "PROXY_IDENTITY", "PROXY_PRIVATE_IDENTITY",
                    "SAR_TRANSMITTER_GET", "SAR_TRANSMITTER_SET",
                    "SAR_RECEIVER_GET", "SAR_RECEIVER_SET",
                    "LARGE_COMP_DATA_GET", "MODELS_METADATA_GET"})

(* Opcode aggregation.                                                      *)
MeshOpcodes ==
    Locked("MESH", {"OPCODES_AGGREGATOR_INIT", "OPCODES_AGGREGATOR_SEND"})

(* Configuration client: node states.                                       *)
MeshStates ==
    Locked("MESH", {"CFG_BEACON_GET", "CFG_BEACON_SET",
                    "COMPOSITION_DATA_GET", "CFG_KRP_GET", "CFG_KRP_SET",
                    "CFG_DEFAULT_TTL_GET", "CFG_DEFAULT_TTL_SET",
                    "CFG_GATT_PROXY_GET", "CFG_GATT_PROXY_SET",
                    "CFG_FRIEND_GET"})

(* Configuration client: publication, subscription.                         *)
MeshPublication ==
    Locked("MESH", {"CFG_FRIEND_SET", "CFG_RELAY_GET", "CFG_RELAY_SET",
                    "CFG_MODEL_PUB_GET", "CFG_MODEL_PUB_SET",
                    "CFG_MODEL_PUB_VA_SET", "CFG_MODEL_SUB_ADD",
                    "CFG_MODEL_SUB_DEL", "CFG_MODEL_SUB_OVW",
                    "CFG_MODEL_SUB_DEL_ALL"})

(* Configuration client: virtual addresses, keys.                           *)
MeshSubscription ==
    Locked("MESH", {"CFG_MODEL_SUB_GET", "CFG_MODEL_SUB_VND_GET",
                    "CFG_MODEL_SUB_VA_ADD", "CFG_MODEL_SUB_VA_DEL",
                    "CFG_MODEL_SUB_VA_OVW", "CFG_NETKEY_ADD",
                    "CFG_NETKEY_GET", "CFG_NETKEY_UPDATE", "CFG_NETKEY_DEL",
                    "CFG_APPKEY_ADD"})

(* Configuration client: keys and models.                                   *)
MeshBinding ==
    Locked("MESH", {"CFG_APPKEY_UPDATE", "CFG_APPKEY_DEL", "CFG_APPKEY_GET",
                    "CFG_MODEL_APP_BIND", "CFG_MODEL_APP_BIND_VND",
                    "CFG_MODEL_APP_UNBIND", "CFG_MODEL_APP_GET",
                    "CFG_MODEL_APP_VND_GET", "CFG_HEARTBEAT_PUB_SET",
                    "CFG_HEARTBEAT_PUB_GET"})

(* Configuration client: heartbeats, node identity.                         *)
MeshHeartbeat ==
    Locked("MESH", {"CFG_HEARTBEAT_SUB_SET", "CFG_HEARTBEAT_SUB_GET",
                    "CFG_NET_TRANSMIT_GET", "CFG_NET_TRANSMIT_SET",
                    "CFG_NODE_IDT_SET", "CFG_NODE_IDT_GET", "CFG_NODE_RESET",
                    "CFG_LPN_POLLTIMEOUT_GET", "HEALTH_FAULT_GET",
                    "HEALTH_FAULT_CLEAR"})

(* Health client, private beacons.                                          *)
MeshHealth ==
    Locked("MESH", {"HEALTH_FAULT_TEST", "HEALTH_PERIOD_GET",
                    "HEALTH_PERIOD_SET", "HEALTH_ATTENTION_GET",
                    "HEALTH_ATTENTION_SET", "PROXY_CONNECT",
                    "COMP_CHANGE_PREPARE", "PRIV_BEACON_GET",
                    "PRIV_BEACON_SET", "PRIV_GATT_PROXY_GET",
                    "PRIV_GATT_PROXY_SET", "PRIV_NODE_ID_GET"})

(* Remote provisioning, subnet bridges.                                     *)
MeshRemoteProvisioning ==
    Locked("MESH", {"PRIV_NODE_ID_SET", "RPR_SCAN_START",
                    "RPR_EXT_SCAN_START", "RPR_SCAN_CAPS_GET",
                    "RPR_SCAN_GET", "RPR_SCAN_STOP", "RPR_LINK_GET",
                    "RPR_LINK_CLOSE", "RPR_PROV_REMOTE", "RPR_REPROV_REMOTE",
                    "SUBNET_BRIDGE_GET", "SUBNET_BRIDGE_SET",
                    "BRIDGING_TABLE_ADD", "BRIDGING_TABLE_REMOVE"})

(* Bridged subnets, on-demand proxies.                                      *)
MeshBridge ==
    Locked("MESH", {"BRIDGED_SUBNETS_GET", "BRIDGING_TABLE_GET",
                    "BRIDGE_CAPABILITY_GET", "OD_PRIV_PROXY_GET",
                    "OD_PRIV_PROXY_SET", "SRPL_CLEAR", "PROXY_SOLICIT"})

(* Microphone controllers.                                                  *)
MicpCommands == Pair("MICP", {"DISCOVERY", "MUTE", "MUTE_STATE"})

(* Microphone control service.                                              *)
MicsCommands == Pair("MICS", {"MUTE_DISABLE", "MUTE_READ", "MUTE", "UNMUTE"})

(* Models: on/off, level, transition time.                                  *)
MmdlOnOffLevel ==
    Locked("MMDL", {"GEN_ONOFF_GET", "GEN_ONOFF_SET", "GEN_LVL_GET",
                    "GEN_LVL_SET", "GEN_LVL_DELTA_SET", "GEN_LVL_MOVE_SET",
                    "GEN_DTT_GET"})

(* Models: power.                                                           *)
MmdlPower ==
    Locked("MMDL", {"GEN_DTT_SET", "GEN_PONOFF_GET", "GEN_PONOFF_SET",
                    "GEN_PLVL_GET", "GEN_PLVL_SET", "GEN_PLVL_LAST_GET",
                    "GEN_PLVL_DFLT_GET", "GEN_PLVL_DFLT_SET",
                    "GEN_PLVL_RANGE_GET"})

(* Models: battery, location, properties.                                   *)
MmdlLocation ==
    Locked("MMDL", {"GEN_PLVL_RANGE_SET", "GEN_BATTERY_GET",
                    "GEN_LOC_GLOBAL_GET", "GEN_LOC_LOCAL_GET",
                    "GEN_LOC_GLOBAL_SET", "GEN_LOC_LOCAL_SET",
                    "GEN_PROPS_GET", "GEN_PROP_GET"})

(* Models: sensors.                                                         *)
MmdlSensors ==
    Locked("MMDL", {"GEN_PROP_SET", "SENSOR_DESC_GET", "SENSOR_GET",
                    "SENSOR_CADENCE_GET", "SENSOR_CADENCE_SET",
                    "SENSOR_SETTINGS_GET", "SENSOR_SETTING_GET"})

(* Models: sensor series, time.                                             *)
MmdlTime ==
    Locked("MMDL", {"SENSOR_SETTING_SET", "SENSOR_COLUMN_GET",
                    "SENSOR_SERIES_GET", "TIME_GET", "TIME_SET",
                    "TIME_ROLE_GET", "TIME_ROLE_SET", "TIME_ZONE_GET"})

(* Models: time zone, lightness.                                            *)
MmdlLightness ==
    Locked("MMDL", {"TIME_ZONE_SET", "TIME_TAI_UTC_DELTA_GET",
                    "TIME_TAI_UTC_DELTA_SET", "LIGHT_LIGHTNESS_GET",
                    "LIGHT_LIGHTNESS_SET", "LIGHT_LIGHTNESS_LINEAR_GET",
                    "LIGHT_LIGHTNESS_LINEAR_SET", "LIGHT_LIGHTNESS_LAST_GET"})

(* Models: lightness range, light control.                                  *)
MmdlLightControl ==
    Locked("MMDL", {"LIGHT_LIGHTNESS_DEFAULT_GET",
                    "LIGHT_LIGHTNESS_DEFAULT_SET",
                    "LIGHT_LIGHTNESS_RANGE_GET", "LIGHT_LIGHTNESS_RANGE_SET",
                    "LIGHT_LC_MODE_GET", "LIGHT_LC_MODE_SET",
                    "LIGHT_LC_OCCUPANCY_MODE_GET",
                    "LIGHT_LC_OCCUPANCY_MODE_SET",
                    "LIGHT_LC_LIGHT_ONOFF_MODE_GET"})

(* Models: light control properties, colour temperature.                    *)
MmdlLightStates ==
    Locked("MMDL", {"LIGHT_LC_LIGHT_ONOFF_MODE_SET", "LIGHT_LC_PROPERTY_GET",
                    "LIGHT_LC_PROPERTY_SET", "SENSOR_DATA_SET",
                    "LIGHT_CTL_STATES_GET", "LIGHT_CTL_STATES_SET",
                    "LIGHT_CTL_TEMPERATURE_GET"})

(* Models: temperature range, scenes.                                       *)
MmdlScenes ==
    Locked("MMDL", {"LIGHT_CTL_TEMPERATURE_SET", "LIGHT_CTL_DEFAULT_GET",
                    "LIGHT_CTL_DEFAULT_SET",
                    "LIGHT_CTL_TEMPERATURE_RANGE_GET",
                    "LIGHT_CTL_TEMPERATURE_RANGE_SET", "SCENE_STATE_GET",
                    "SCENE_REGISTER_GET", "SCENE_STORE_PROCEDURE"})

(* Models: xyL.                                                             *)
MmdlXyl ==
    Locked("MMDL", {"SCENE_RECALL", "LIGHT_XYL_GET", "LIGHT_XYL_SET",
                    "LIGHT_XYL_TARGET_GET", "LIGHT_XYL_DEFAULT_GET",
                    "LIGHT_XYL_DEFAULT_SET", "LIGHT_XYL_RANGE_GET",
                    "LIGHT_XYL_RANGE_SET", "LIGHT_HSL_GET"})

(* Models: HSL.                                                             *)
MmdlHsl ==
    Locked("MMDL", {"LIGHT_HSL_SET", "LIGHT_HSL_TARGET_GET",
                    "LIGHT_HSL_DEFAULT_GET", "LIGHT_HSL_DEFAULT_SET",
                    "LIGHT_HSL_RANGE_GET", "LIGHT_HSL_RANGE_SET",
                    "LIGHT_HSL_HUE_GET", "LIGHT_HSL_HUE_SET",
                    "LIGHT_HSL_SATURATION_GET"})

(* Models: scheduler, firmware check.                                       *)
MmdlScheduler ==
    Locked("MMDL", {"LIGHT_HSL_SATURATION_SET", "SCHEDULER_GET",
                    "SCHEDULER_ACTION_GET", "SCHEDULER_ACTION_SET",
                    "DFU_INF_GET", "BLOB_INFO_GET",
                    "DFU_UPDATE_FIRMWARE_CHECK", "DFU_UPDATE_FIRMWARE_GET",
                    "DFU_UPDATE_FIRMWARE_CANCEL"})

(* Models: firmware update, BLOB transfer.                                  *)
MmdlFirmware ==
    Locked("MMDL", {"DFU_UPDATE_FIRMWARE_START", "BLOB_SRV_RECV",
                    "BLOB_TRANSFER_START", "BLOB_TRANSFER_CANCEL",
                    "BLOB_TRANSFER_GET", "BLOB_SRV_CANCEL",
                    "DFU_UPDATE_FIRMWARE_APPLY", "DFU_SRV_APPLY"})

(* Object transfer.                                                         *)
OtsCommands == Pair("OTS", {"REGISTER_OBJECT"})

(* Published audio capabilities.                                            *)
PacsCommands ==
         Later("PACS", {"UPDATE_CHARACTERISTIC"})
    \cup Pair("PACS", {"SET_LOCATION", "SET_AVAILABLE_CONTEXTS",
                       "SET_SUPPORTED_CONTEXTS"})

(* Public broadcasts.                                                       *)
PbpCommands ==
    Pair("PBP", {"SET_PUBLIC_BROADCAST_ANNOUNCEMENT", "SET_BROADCAST_NAME",
                 "BROADCAST_SCAN_START", "BROADCAST_SCAN_STOP"})

(* RFCOMM.                                                                  *)
RfcommCommands ==
         Locked("RFCOMM", {"CONNECT", "DISCONNECT", "SEND_DATA", "LISTEN",
                           "SEND_RPN"})
    \cup PairOp("RFCOMM", {"GET_DLC_INFO"})

(* Service discovery.                                                       *)
SdpCommands == Locked("SDP", {"SEARCH_REQ", "ATTR_REQ", "SEARCH_ATTR_REQ"})

(* Telephone bearers: calls.                                                *)
TbsCalls ==
    Pair("TBS", {"REGISTER_BEARER", "REMOTE_INCOMING", "ORIGINATE_CALL",
                 "SET_BEARER_NAME", "SET_BEARER_TECHNOLOGY", "HOLD_CALL",
                 "REMOTE_HOLD_CALL"})

(* Telephone bearers: status.                                               *)
TbsStatus ==
    Pair("TBS", {"SIGNAL_STRENGTH", "SET_URI_SCHEME_LIST",
                 "SET_STATUS_FLAGS", "TERMINATE_CALL"})

(* Telephony and media.                                                     *)
TmapCommands == Pair("TMAP", {"READ_SUPPORTED_COMMANDS", "DISCOVER"})

(* Volume controllers.                                                      *)
VcpCommands ==
    Pair("VCP", {"DISCOVERY", "STATE_READ", "FLAGS_READ", "VOL_DOWN",
                 "VOL_UP", "UNMUTE_VOL_DOWN", "UNMUTE_VOL_UP", "SET_VOL",
                 "UNMUTE", "MUTE"})

(* Volume control service.                                                  *)
VcsCommands ==
    Pair("VCS", {"SET_VOL", "REGISTER", "MUTE", "UNMUTE", "VOL_DOWN",
                 "VOL_UP"})

(* Volume offsets.                                                          *)
VocsCommands ==
    Pair("VOCS", {"UPDATE_OUT_DESC", "UPDATE_AUDIO_LOC", "OFFSET_STATE_GET",
                  "OFFSET_STATE_SET", "AUDIO_LOC_GET"})

BtpCommands == UNION {
    AicsControl, AicsState, AscsCommands, BapSource, BapSink, BapAssistant,
    CapUnicast, CapBroadcast, CasCommands, CcpCalls, CcpReads, CsipCommands,
    CsisCommands, GapAdvertising, GapPairing, GapVisibility, GapDiscovery,
    GapParameters, GapModes, GapPeriodic, GapIsochronous, GapBisData,
    GattServer, GattServerValues, GattAttributes, GattDiscovery, GattReads,
    GattWrites, GattConfiguration, EattConnect, GattClientDiscovery,
    GattClientFind, GattClientReads, GattClientWrites,
    GattClientConfiguration, GmcsCommands, HapCommands, HasCommands,
    L2capChannels, L2capListeners, L2capConnectionless, McpTrack, McpOrder,
    MeshProvisioning, MeshMessages, MeshLowPower, MeshOpcodes, MeshStates,
    MeshPublication, MeshSubscription, MeshBinding, MeshHeartbeat,
    MeshHealth, MeshRemoteProvisioning, MeshBridge, MicpCommands,
    MicsCommands, MmdlOnOffLevel, MmdlPower, MmdlLocation, MmdlSensors,
    MmdlTime, MmdlLightness, MmdlLightControl, MmdlLightStates, MmdlScenes,
    MmdlXyl, MmdlHsl, MmdlScheduler, MmdlFirmware, OtsCommands,
    PacsCommands, PbpCommands, RfcommCommands, SdpCommands, TbsCalls,
    TbsStatus, TmapCommands, VcpCommands, VcsCommands, VocsCommands,
    CoreCommands }

=============================================================================
