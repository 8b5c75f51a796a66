------------------------------ MODULE LocTypes ------------------------------
(***************************************************************************)
(* The types of the Loc API as its interface files declare them (loc_api_  *)
(* common.h, loc_api.h, loc_api_cb.h; the arms of the unions are in        *)
(* loc_api_common.xdr): what the modem, which is built from the same       *)
(* interface, reads and writes.  LocXdr models the functions of the phone. *)
(*                                                                         *)
(* A type is the sequence of the primitive items it consists of: an item   *)
(* has a kind k and a size n in bytes.  c chooses the union members (event,*)
(* ioctl, ni, addr, assist, server, status), whether an optional part is   *)
(* there (data) and the length of the counted parts (n).                   *)
(***************************************************************************)
EXTENDS Integers, Sequences

Item(kind, bytes) == <<[k |-> kind, n |-> bytes]>>
Many(n, t) == [i \in 1..(n * Len(t)) |-> t[((i - 1) % Len(t)) + 1]]

bool_t == Item("bool", 4)
enum_t == Item("word", 4)
u_int == Item("word", 4)
u_long == Item("word", 4)
long == Item("word", 4)
float == Item("word", 4)
u_char == Item("u_char", 4)
u_short == Item("u_short", 4)
u_quad_t == Item("hyper", 8)
double == Item("hyper", 8)
Raw(n) == IF n = 0 THEN <<>> ELSE Item("bytes", n)
Blob(n) == u_int \o Raw(n)
Text(n) == u_int \o Raw(n)
Counted(n, t) == u_int \o Many(n, t)
Optional(there, t) == bool_t \o (IF there THEN t ELSE <<>>)

rpc_boolean == bool_t
rpc_uint32 == u_long
rpc_uint16 == u_short
rpc_uint8 == u_char
rpc_int32 == long
rpc_byte == u_char
rpc_uint64 == u_quad_t
rpc_loc_client_handle_type == rpc_int32
rpc_loc_event_mask_type == rpc_uint64
rpc_loc_position_valid_mask_type == rpc_uint64
rpc_loc_pos_technology_mask_type == rpc_uint32
rpc_loc_session_status_e_type == enum_t
rpc_loc_calendar_time_s_type == rpc_uint16 \o Many(6, u_char) \o rpc_uint16
rpc_loc_parsed_position_s_type ==
    rpc_loc_position_valid_mask_type \o rpc_loc_session_status_e_type
    \o rpc_loc_calendar_time_s_type \o rpc_uint64 \o rpc_uint8 \o float
    \o Many(2, double) \o Many(12, float) \o Many(2, u_char) \o float
    \o rpc_loc_pos_technology_mask_type
rpc_loc_sv_system_e_type == enum_t
rpc_loc_sv_status_e_type == enum_t
rpc_loc_sv_info_valid_mask_type == rpc_uint32
rpc_loc_sv_info_s_type ==
    rpc_loc_sv_info_valid_mask_type \o rpc_loc_sv_system_e_type
    \o Many(2, rpc_uint8) \o rpc_loc_sv_status_e_type \o Many(2, rpc_boolean)
    \o Many(3, float)
rpc_loc_gnss_info_valid_mask_type == rpc_uint32
rpc_loc_gnss_info_s_type(c) ==
    rpc_loc_gnss_info_valid_mask_type \o Many(3, float) \o rpc_boolean
    \o rpc_uint16 \o Counted(c.n, rpc_loc_sv_info_s_type)
rpc_loc_nmea_report_s_type == rpc_uint16 \o Raw(200)
rpc_loc_status_event_e_type == enum_t
rpc_loc_engine_state_e_type == enum_t
rpc_loc_fix_session_state_e_type == enum_t
rpc_loc_status_event_payload_u_type(c) ==
    rpc_loc_status_event_e_type \o (
      CASE c.status = "ENGINE_STATE" -> rpc_loc_engine_state_e_type
        [] c.status = "FIX_SESSION_STATE" -> rpc_loc_fix_session_state_e_type
        [] OTHER -> <<>>)
rpc_loc_status_event_s_type(c) ==
    rpc_loc_status_event_e_type \o rpc_loc_status_event_payload_u_type(c)
rpc_loc_server_addr_e_type == enum_t
rpc_loc_server_addr_ipv4_type == rpc_uint32 \o rpc_uint16
rpc_loc_server_addr_url_type == rpc_uint16 \o Raw(256)
rpc_loc_server_addr_u_type(c) ==
    rpc_loc_server_addr_e_type \o (
      CASE c.addr = "IPV4" -> rpc_loc_server_addr_ipv4_type
        [] c.addr = "URL" -> rpc_loc_server_addr_url_type
        [] OTHER -> <<>>)
rpc_loc_server_info_s_type(c) ==
    rpc_loc_server_addr_e_type \o rpc_loc_server_addr_u_type(c)
rpc_loc_ni_notify_verify_e_type == enum_t
rpc_loc_ni_event_e_type == enum_t
rpc_loc_ni_datacoding_scheme_e_type == enum_t
rpc_loc_ni_vx_requester_id_encoding_scheme_e_type == enum_t
rpc_loc_ni_vx_pos_mode_e_type == enum_t
rpc_loc_ni_vx_requester_id_s_type == u_char \o Raw(200)
rpc_loc_ni_vx_notify_verify_req_s_type ==
    rpc_loc_ni_notify_verify_e_type \o Many(2, u_char) \o Many(2, rpc_uint32)
    \o rpc_loc_ni_vx_pos_mode_e_type
    \o rpc_loc_ni_vx_requester_id_encoding_scheme_e_type
    \o rpc_loc_ni_vx_requester_id_s_type \o rpc_uint16
rpc_loc_ni_supl_pos_method_e_type == enum_t
rpc_loc_ni_supl_slp_session_id_s_type(c) ==
    u_char \o Raw(4) \o rpc_loc_server_info_s_type(c)
rpc_loc_ni_requestor_id_s_type == u_char \o Raw(200) \o u_char
rpc_loc_ni_supl_client_name_s_type == u_char \o Raw(64) \o u_char
rpc_loc_ni_supl_qop_s_type == Many(3, u_char) \o rpc_uint16 \o u_char
rpc_loc_ni_supl_notify_verify_req_s_type(c) ==
    rpc_loc_ni_notify_verify_e_type \o rpc_uint16
    \o rpc_loc_ni_supl_slp_session_id_s_type(c) \o Raw(8)
    \o rpc_loc_ni_datacoding_scheme_e_type \o rpc_loc_ni_supl_pos_method_e_type
    \o rpc_loc_ni_requestor_id_s_type \o rpc_loc_ni_supl_client_name_s_type
    \o rpc_loc_ni_supl_qop_s_type \o rpc_uint16
rpc_loc_ni_ext_client_address_s_type == u_char \o Raw(20)
rpc_loc_ni_location_type_e_type == enum_t
rpc_loc_ni_deferred_location_s_type == Many(2, u_char)
rpc_loc_ni_codeword_string_s_type == u_char \o Raw(20) \o u_char
rpc_loc_ni_service_type_id_s_type == u_char
rpc_loc_ni_umts_cp_notify_verify_req_s_type ==
    rpc_loc_ni_notify_verify_e_type \o u_char \o rpc_uint16 \o u_char
    \o Raw(64) \o rpc_loc_ni_datacoding_scheme_e_type
    \o rpc_loc_ni_ext_client_address_s_type \o rpc_loc_ni_location_type_e_type
    \o rpc_loc_ni_deferred_location_s_type \o rpc_loc_ni_requestor_id_s_type
    \o rpc_loc_ni_codeword_string_s_type \o rpc_loc_ni_service_type_id_s_type
    \o rpc_uint16
rpc_loc_ni_service_interaction_e_type == enum_t
rpc_loc_ni_vx_service_interaction_req_s_type ==
    rpc_loc_ni_vx_notify_verify_req_s_type
    \o rpc_loc_ni_service_interaction_e_type
rpc_loc_ni_event_payload_u_type(c) ==
    rpc_loc_ni_event_e_type \o (
      CASE c.ni = "VX_NOTIFY_VERIFY_REQ" ->
             rpc_loc_ni_vx_notify_verify_req_s_type
        [] c.ni = "SUPL_NOTIFY_VERIFY_REQ" ->
             rpc_loc_ni_supl_notify_verify_req_s_type(c)
        [] c.ni = "UMTS_CP_NOTIFY_VERIFY_REQ" ->
             rpc_loc_ni_umts_cp_notify_verify_req_s_type
        [] c.ni = "VX_SERVICE_INTERACTION_REQ" ->
             rpc_loc_ni_vx_service_interaction_req_s_type
        [] OTHER -> <<>>)
rpc_loc_ni_event_s_type(c) ==
    rpc_loc_ni_event_e_type \o rpc_loc_ni_event_payload_u_type(c)
rpc_loc_assist_data_request_e_type == enum_t
rpc_struct_loc_time_download_source_s_type_servers_ptr(c) == Text(c.n)
rpc_struct_loc_time_download_source_s_type_servers(c) ==
    Many(3, rpc_struct_loc_time_download_source_s_type_servers_ptr(c))
rpc_loc_time_download_source_s_type(c) ==
    rpc_uint32 \o rpc_struct_loc_time_download_source_s_type_servers(c)
rpc_struct_loc_predicted_orbits_data_source_s_type_servers_ptr(c) == Text(c.n)
rpc_struct_loc_predicted_orbits_data_source_s_type_servers(c) ==
    Many(3, rpc_struct_loc_predicted_orbits_data_source_s_type_servers_ptr(c))
rpc_loc_predicted_orbits_data_source_s_type(c) ==
    Many(2, rpc_uint32)
    \o rpc_struct_loc_predicted_orbits_data_source_s_type_servers(c)
rpc_loc_assist_data_request_payload_u_type(c) ==
    rpc_loc_assist_data_request_e_type \o (
      CASE c.assist = "TIME_REQ" -> rpc_loc_time_download_source_s_type(c)
        [] c.assist = "PREDICTED_ORBITS_REQ" ->
             rpc_loc_predicted_orbits_data_source_s_type(c)
        [] OTHER -> <<>>)
rpc_loc_assist_data_request_s_type(c) ==
    rpc_loc_assist_data_request_e_type
    \o rpc_loc_assist_data_request_payload_u_type(c)
rpc_loc_server_connection_handle == rpc_uint32
rpc_loc_server_protocol_e_type == enum_t
rpc_loc_server_request_e_type == enum_t
rpc_loc_server_open_req_s_type ==
    rpc_loc_server_connection_handle \o rpc_loc_server_protocol_e_type
rpc_loc_server_close_req_s_type == rpc_loc_server_connection_handle
rpc_loc_server_request_u_type(c) ==
    rpc_loc_server_request_e_type \o (
      CASE c.server = "OPEN" -> rpc_loc_server_open_req_s_type
        [] c.server = "CLOSE" -> rpc_loc_server_close_req_s_type
        [] OTHER -> <<>>)
rpc_loc_server_request_s_type(c) ==
    rpc_loc_server_request_e_type \o rpc_loc_server_request_u_type(c)
rpc_loc_qwip_request_e_type == enum_t
rpc_loc_qwip_request_s_type == rpc_loc_qwip_request_e_type \o rpc_uint16
rpc_loc_reserved_payload_s_type(c) == rpc_uint16 \o Blob(c.n)
rpc_loc_ioctl_e_type == enum_t
rpc_loc_api_version_s_type == Many(2, u_char)
rpc_loc_fix_recurrence_e_type == enum_t
rpc_loc_operation_mode_e_type == enum_t
rpc_loc_notify_e_type == enum_t
rpc_loc_fix_criteria_s_type ==
    rpc_uint32 \o rpc_loc_fix_recurrence_e_type
    \o rpc_loc_operation_mode_e_type \o Many(2, rpc_uint32) \o rpc_boolean
    \o rpc_loc_notify_e_type \o rpc_uint32 \o float \o rpc_uint32
rpc_loc_ni_user_resp_e_type == enum_t
rpc_loc_user_verify_s_type(c) ==
    rpc_loc_ni_user_resp_e_type \o rpc_loc_ni_event_s_type(c)
rpc_loc_predicted_orbits_data_format_e_type == enum_t
rpc_loc_predicted_orbits_data_s_type(c) ==
    rpc_loc_predicted_orbits_data_format_e_type \o rpc_uint32
    \o Many(2, rpc_uint8) \o rpc_uint16 \o Blob(c.n)
rpc_loc_predicted_orbits_data_validity_report_s_type ==
    rpc_uint64 \o rpc_uint16
rpc_loc_predicted_orbits_auto_download_config_s_type == rpc_boolean \o u_char
rpc_loc_assist_data_time_s_type == rpc_uint64 \o rpc_uint32
rpc_loc_assist_pos_valid_mask_type == rpc_uint64
rpc_loc_assist_data_pos_s_type ==
    rpc_loc_assist_pos_valid_mask_type \o rpc_uint64 \o Many(2, double)
    \o Many(4, float) \o Many(2, u_char) \o rpc_int32
rpc_loc_server_open_status_e_type == enum_t
rpc_loc_server_open_status_s_type ==
    rpc_loc_server_connection_handle \o rpc_loc_server_open_status_e_type
    \o Raw(100)
rpc_loc_server_close_status_e_type == enum_t
rpc_loc_server_close_status_s_type ==
    rpc_loc_server_connection_handle \o rpc_loc_server_close_status_e_type
rpc_loc_wiper_fix_time_s_type == rpc_uint32
rpc_loc_wiper_fix_pos_s_type ==
    Many(2, rpc_int32) \o rpc_uint16 \o Many(2, rpc_uint8)
rpc_loc_wiper_ap_info_s_type == Raw(6) \o rpc_int32 \o rpc_uint16 \o rpc_uint8
rpc_loc_wiper_ap_set_s_type ==
    rpc_uint8 \o Many(50, rpc_loc_wiper_ap_info_s_type)
rpc_loc_wiper_position_report_s_type ==
    rpc_uint8 \o rpc_loc_wiper_fix_time_s_type \o rpc_loc_wiper_fix_pos_s_type
    \o rpc_loc_wiper_ap_set_s_type
rpc_loc_wiper_status_e_type == enum_t
rpc_loc_fs_operation_e_type == enum_t
rpc_loc_efs_data_s_type(c) ==
    Raw(64) \o rpc_loc_fs_operation_e_type \o rpc_uint32 \o Blob(c.n)
    \o rpc_uint32 \o Many(2, rpc_uint8) \o rpc_uint32
rpc_loc_lock_e_type == enum_t
rpc_loc_nmea_sentence_type == rpc_uint32
rpc_loc_assist_data_type == rpc_uint32
rpc_loc_assist_data_delete_s_type ==
    rpc_loc_assist_data_type \o Many(8, rpc_uint32)
rpc_loc_ioctl_data_u_type(c) ==
    rpc_loc_ioctl_e_type \o (
      CASE c.ioctl = "SET_FIX_CRITERIA" -> rpc_loc_fix_criteria_s_type
        [] c.ioctl = "INFORM_NI_USER_RESPONSE" ->
             rpc_loc_user_verify_s_type(c)
        [] c.ioctl = "INJECT_PREDICTED_ORBITS_DATA" ->
             rpc_loc_predicted_orbits_data_s_type(c)
        [] c.ioctl = "SET_PREDICTED_ORBITS_DATA_AUTO_DOWNLOAD" ->
             rpc_loc_predicted_orbits_auto_download_config_s_type
        [] c.ioctl = "INJECT_UTC_TIME" -> rpc_loc_assist_data_time_s_type
        [] c.ioctl = "INJECT_POSITION" -> rpc_loc_assist_data_pos_s_type
        [] c.ioctl = "INFORM_SERVER_OPEN_STATUS" ->
             rpc_loc_server_open_status_s_type
        [] c.ioctl = "INFORM_SERVER_CLOSE_STATUS" ->
             rpc_loc_server_close_status_s_type
        [] c.ioctl = "SEND_WIPER_POSITION_REPORT" ->
             rpc_loc_wiper_position_report_s_type
        [] c.ioctl = "NOTIFY_WIPER_STATUS" -> rpc_loc_wiper_status_e_type
        [] c.ioctl = "SET_ENGINE_LOCK" -> rpc_loc_lock_e_type
        [] c.ioctl = "SET_SBAS_CONFIG" -> rpc_boolean
        [] c.ioctl = "SET_NMEA_TYPES" -> rpc_loc_nmea_sentence_type
        [] c.ioctl = "SET_ON_DEMAND_LPM" -> rpc_boolean
        [] c.ioctl \in {"SET_CDMA_PDE_SERVER_ADDR",
             "SET_CDMA_MPC_SERVER_ADDR", "SET_UMTS_SLP_SERVER_ADDR",
             "SET_CUSTOM_PDE_SERVER_ADDR"} -> rpc_loc_server_info_s_type(c)
        [] c.ioctl = "DELETE_ASSIST_DATA" -> rpc_loc_assist_data_delete_s_type
        [] c.ioctl = "ACCESS_EFS_DATA" -> rpc_loc_efs_data_s_type(c)
        [] OTHER -> <<>>)
rpc_loc_ioctl_callback_data_u_type(c) ==
    rpc_loc_ioctl_e_type \o (
      CASE c.ioctl = "GET_API_VERSION" -> rpc_loc_api_version_s_type
        [] c.ioctl = "GET_FIX_CRITERIA" -> rpc_loc_fix_criteria_s_type
        [] c.ioctl = "GET_ENGINE_LOCK" -> rpc_loc_lock_e_type
        [] c.ioctl = "GET_SBAS_CONFIG" -> rpc_boolean
        [] c.ioctl = "GET_NMEA_TYPES" -> rpc_loc_nmea_sentence_type
        [] c.ioctl = "GET_ON_DEMAND_LPM" -> rpc_boolean
        [] c.ioctl \in {"GET_CDMA_PDE_SERVER_ADDR",
             "GET_CDMA_MPC_SERVER_ADDR", "GET_UMTS_SLP_SERVER_ADDR",
             "GET_CUSTOM_PDE_SERVER_ADDR"} -> rpc_loc_server_info_s_type(c)
        [] c.ioctl = "QUERY_PREDICTED_ORBITS_DATA_SOURCE" ->
             rpc_loc_predicted_orbits_data_source_s_type(c)
        [] c.ioctl = "QUERY_PREDICTED_ORBITS_DATA_VALIDITY" ->
             rpc_loc_predicted_orbits_data_validity_report_s_type
        [] OTHER -> <<>>)
rpc_loc_ioctl_callback_s_type(c) ==
    rpc_loc_ioctl_e_type \o rpc_int32 \o rpc_loc_ioctl_callback_data_u_type(c)
rpc_loc_event_payload_u_type(c) ==
    u_quad_t \o (
      CASE c.event = "PARSED_POSITION_REPORT" ->
             rpc_loc_parsed_position_s_type
        [] c.event = "SATELLITE_REPORT" -> rpc_loc_gnss_info_s_type(c)
        [] c.event \in {"NMEA_POSITION_REPORT", "NMEA_1HZ_REPORT"} ->
             rpc_loc_nmea_report_s_type
        [] c.event = "NI_NOTIFY_VERIFY_REQUEST" -> rpc_loc_ni_event_s_type(c)
        [] c.event = "ASSISTANCE_DATA_REQUEST" ->
             rpc_loc_assist_data_request_s_type(c)
        [] c.event = "LOCATION_SERVER_REQUEST" ->
             rpc_loc_server_request_s_type(c)
        [] c.event = "IOCTL_REPORT" -> rpc_loc_ioctl_callback_s_type(c)
        [] c.event = "STATUS_REPORT" -> rpc_loc_status_event_s_type(c)
        [] c.event = "WPS_NEEDED_REQUEST" -> rpc_loc_qwip_request_s_type
        [] c.event = "RESERVED" -> rpc_loc_reserved_payload_s_type(c)
        [] OTHER -> <<>>)
rpc_loc_api_api_versions_return_type(c) == Counted(c.n, rpc_uint32)
rpc_loc_event_cb_f_type == rpc_uint32
rpc_loc_open_args == rpc_loc_event_mask_type \o rpc_loc_event_cb_f_type
rpc_loc_close_args == rpc_loc_client_handle_type
rpc_loc_start_fix_args == rpc_loc_client_handle_type
rpc_loc_stop_fix_args == rpc_loc_client_handle_type
rpc_loc_ioctl_args(c) ==
    rpc_loc_client_handle_type \o rpc_loc_ioctl_e_type
    \o Optional(c.data, rpc_loc_ioctl_data_u_type(c))
rpc_loc_api_api_version_s_args == rpc_boolean
rpc_loc_api_rpc_glue_code_info_remote_rets == Many(4, rpc_uint32)
rpc_loc_open_rets == rpc_loc_client_handle_type
rpc_loc_close_rets == rpc_int32
rpc_loc_start_fix_rets == rpc_int32
rpc_loc_stop_fix_rets == rpc_int32
rpc_loc_ioctl_rets == rpc_int32
rpc_loc_api_api_versions_rets(c) ==
    rpc_loc_api_api_versions_return_type(c) \o Optional(c.data, rpc_uint32)
rpc_loc_event_cb_f_type_args(c) ==
    rpc_uint32 \o rpc_loc_client_handle_type \o rpc_loc_event_mask_type
    \o Optional(c.data, rpc_loc_event_payload_u_type(c))
rpc_loc_event_cb_f_type_rets == rpc_int32
=============================================================================
