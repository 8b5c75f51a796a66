------------------------------- MODULE LocXdr -------------------------------
(***************************************************************************)
(* The wire format of the Loc API: the generated functions (gen-50000/     *)
(* loc_api_common_xdr.c, loc_api_xdr.c, loc_api_cb_xdr.c, loc_api_clnt.c,  *)
(* loc_api_cb_svc.c) over librpc (xdr.c, rpc.c, svc_clnt_common.c).        *)
(*                                                                         *)
(* A function is the sequence of items it sends or receives (LocTypes); it *)
(* reads its union arms and counts from c, as the structure or the message *)
(* it works on holds them.  One call of the phone or one event of the      *)
(* modem is carried through: encoded, decoded on the other side by the     *)
(* declared types, answered, and the answer decoded.                       *)
(***************************************************************************)
EXTENDS LocTypes
LOCAL INSTANCE SequencesExt

CONSTANTS
    RPCROUTER_MSGSIZE_MAX,      \* bytes of a message
    XdrLengths                  \* lengths of counted parts that are tried

ASSUME XdrAssumption ==
    /\ RPCROUTER_MSGSIZE_MAX \in Nat /\ RPCROUTER_MSGSIZE_MAX % 4 = 0
    /\ XdrLengths \subseteq Nat

VARIABLE xdr
xdrVars == <<xdr>>

-----------------------------------------------------------------------------
(* librpc/xdr.c: the primitives and the constructors.                      *)

LASTUNSIGNED == 2147483647
Fail == Item("fail", 0)

xdr_void == <<>>
xdr_u_int == Item("word", 4)
xdr_long == Item("word", 4)
xdr_u_long == Item("word", 4)
xdr_enum == Item("word", 4)
xdr_float == xdr_long
xdr_bool == Item("bool", 4)
xdr_u_char == Item("u_char", 4)
xdr_u_short == Item("u_short", 4)
xdr_u_hyper == Item("hyper", 8)
xdr_u_quad_t == xdr_u_hyper
xdr_double == Item("hyper", 8)                  \* the high word first
xdr_opaque(n) == IF n = 0 THEN <<>> ELSE Item("bytes", n)
xdr_bytes(n, maxsize) == xdr_u_int \o (IF n > maxsize THEN Fail ELSE xdr_opaque(n))
xdr_string(n, maxsize) == xdr_u_int \o (IF n > maxsize THEN Fail ELSE xdr_opaque(n))
xdr_vector(n, elem) == Many(n, elem)
xdr_array(n, maxsize, elem) == xdr_u_int \o (IF n > maxsize THEN Fail ELSE Many(n, elem))
xdr_reference(proc) == proc
xdr_pointer(there, proc) == xdr_bool \o (IF there THEN xdr_reference(proc) ELSE <<>>)

-----------------------------------------------------------------------------
(* librpc/svc_clnt_common.c: a message is a sequence of words.  A word     *)
(* holds a value, or is the j-th of the words the i-th item's bytes fill.  *)

Value(i, item) ==                       \* what the i-th member of a structure holds
    CASE item.k = "u_char" -> 255 - (i % 200)
      [] item.k = "u_short" -> 65535 - i
      [] item.k = "bool" -> i % 2
      [] item.k = "hyper" -> <<i, -i>>
      [] item.k = "bytes" -> <<item.n, [j \in 1..((item.n + 3) \div 4) |-> <<i, j>>]>>
      [] item.k = "word" -> IF i % 2 = 0 THEN -i ELSE 2^20 + i
Values(items) == [i \in DOMAIN items |-> Value(i, items[i])]

Plain(v) == [raw |-> FALSE, v |-> v]
xdr_std_send_uint32(m, v) ==
    IF m.next >= RPCROUTER_MSGSIZE_MAX - 3
      THEN [m EXCEPT !.ok = FALSE]
      ELSE [m EXCEPT !.next = @ + 4, !.words = Append(@, Plain(v))]
xdr_std_send_bytes(m, v) ==
    IF m.next + v[1] > RPCROUTER_MSGSIZE_MAX
      THEN [m EXCEPT !.ok = FALSE]
      ELSE [m EXCEPT !.next = @ + 4 * Len(v[2]),
                     !.words = @ \o [j \in DOMAIN v[2] |-> [raw |-> TRUE, v |-> v[2][j]]]]
Send(m, item, v) ==
    CASE item.k = "fail" -> [m EXCEPT !.ok = FALSE]
      [] item.k = "bytes" -> xdr_std_send_bytes(m, v)
      [] item.k = "hyper" -> xdr_std_send_uint32(xdr_std_send_uint32(m, v[1]), v[2])
      [] OTHER -> xdr_std_send_uint32(m, v)

Garbage == -4096
xdr_std_recv_uint32(m) ==
    IF m.next + 4 > 4 * Len(m.words)
      THEN [m EXCEPT !.ok = FALSE, !.last = Garbage]
      ELSE LET w == m.words[m.next \div 4 + 1]
           IN [m EXCEPT !.next = @ + 4,
                        !.last = IF m.next % 4 # 0 \/ w.raw THEN Garbage ELSE w.v]
\* The padding behind the bytes is not skipped.
UnpaddedBytes(m, n) ==
    IF m.next + n > 4 * Len(m.words)
      THEN [m EXCEPT !.ok = FALSE, !.last = <<0, <<>>>>]
      ELSE [m EXCEPT !.next = @ + n,
                     !.last = <<n, [j \in 1..((n + 3) \div 4) |->
                                      IF m.words[m.next \div 4 + j].raw
                                        THEN m.words[m.next \div 4 + j].v ELSE <<0, 0>>]>>]
xdr_std_recv_bytes(m, n) ==
    IF m.next + n > 4 * Len(m.words)
      THEN [m EXCEPT !.ok = FALSE, !.last = <<0, <<>>>>]
      ELSE [m EXCEPT !.next = 4 * ((@ + n + 3) \div 4),
                     !.last = <<n, [j \in 1..((n + 3) \div 4) |->
                                      IF m.words[m.next \div 4 + j].raw
                                        THEN m.words[m.next \div 4 + j].v ELSE <<0, 0>>]>>]
Received(m, v) == [m EXCEPT !.got = Append(@, v)]
Recv(m, item) ==
    LET w == xdr_std_recv_uint32(m)
    IN CASE item.k = "fail" -> [m EXCEPT !.ok = FALSE]
         [] item.k = "bytes" -> LET b == xdr_std_recv_bytes(m, item.n) IN Received(b, b.last)
         [] item.k = "hyper" -> LET x == xdr_std_recv_uint32(w)
                                IN Received(x, <<w.last, x.last>>)
         [] item.k = "u_char" -> Received(w, w.last % 256)
         [] item.k = "u_short" -> Received(w, w.last % 65536)
         [] item.k = "bool" -> Received(w, IF w.last = 0 THEN 0 ELSE 1)
         [] item.k = "word" -> Received(w, w.last)

xdr_std_msg_start == [ok |-> TRUE, next |-> 8, words |-> <<Plain(0), Plain(0)>>]
xdr_std_read(words) == [ok |-> TRUE, next |-> 8, words |-> words, last |-> 0, got |-> <<>>]
(* Items i to j, one after the other, to the first one that fails; in      *)
(* halves, so that the depth of the recursion stays small.                 *)
RECURSIVE SendSpan(_, _, _, _)
SendSpan(m, items, i, j) ==
    CASE ~m.ok \/ i > j -> m
      [] i = j -> Send(m, items[i], Value(i, items[i]))
      [] OTHER -> LET h == (i + j) \div 2
                  IN SendSpan(SendSpan(m, items, i, h), items, h + 1, j)
SendAll(items) == SendSpan(xdr_std_msg_start, items, 1, Len(items))

RECURSIVE RecvSpan(_, _, _, _)
RecvSpan(m, items, i, j) ==
    CASE ~m.ok \/ i > j -> m
      [] i = j -> Recv(m, items[i])
      [] OTHER -> LET h == (i + j) \div 2
                  IN RecvSpan(RecvSpan(m, items, i, h), items, h + 1, j)
RecvAll(m, items) == RecvSpan(m, items, 1, Len(items))

-----------------------------------------------------------------------------
(* librpc/rpc.c, clnt.c, svc.c: the headers.                               *)

xdr_send_auth == xdr_enum \o xdr_u_int                  \* AUTH_NONE, no bytes
xdr_recv_auth == xdr_enum \o xdr_u_int
xdr_call_msg_start == Many(4, xdr_u_long) \o Many(2, xdr_send_auth)
xdr_reply_msg_start == xdr_long \o xdr_send_auth \o xdr_long
xdr_send_reply_header(stat) ==
    xdr_enum \o (CASE stat \in {"GARBAGE_ARGS", "PROC_UNAVAIL", "SYSTEM_ERR"} ->
                        xdr_send_auth \o xdr_enum
                   [] stat = "PROG_MISMATCH" -> xdr_send_auth \o xdr_enum \o Many(2, xdr_u_long))
xdr_recv_reply_header(stat) ==
    xdr_enum \o (CASE stat \in {"SUCCESS", "GARBAGE_ARGS", "PROC_UNAVAIL", "SYSTEM_ERR"} ->
                        xdr_recv_auth \o xdr_enum
                   [] stat = "PROG_MISMATCH" -> xdr_recv_auth \o xdr_enum \o Many(2, xdr_u_long)
                   [] stat = "RPC_MISMATCH" -> xdr_enum \o Many(2, xdr_u_long)
                   [] stat = "AUTH_ERROR" -> xdr_enum \o xdr_enum)
DefaultCredentials == (6 + 4) * 4                       \* where svc_dispatch starts to decode

-----------------------------------------------------------------------------
(* The generated functions.                                                *)

xdr_rpc_boolean == xdr_bool
xdr_rpc_uint32 == xdr_u_long
xdr_rpc_uint16 == xdr_u_short
xdr_rpc_uint8 == xdr_u_char
xdr_rpc_int32 == xdr_long
xdr_rpc_byte == xdr_u_char
xdr_rpc_uint64 == xdr_u_quad_t
xdr_rpc_loc_client_handle_type == xdr_rpc_int32
xdr_rpc_loc_event_mask_type == xdr_rpc_uint64
xdr_rpc_loc_position_valid_mask_type == xdr_rpc_uint64
xdr_rpc_loc_pos_technology_mask_type == xdr_rpc_uint32
xdr_rpc_loc_session_status_e_type == xdr_enum
xdr_rpc_loc_calendar_time_s_type ==
    xdr_rpc_uint16 \o Many(6, xdr_u_char) \o xdr_rpc_uint16
xdr_rpc_loc_parsed_position_s_type ==
    xdr_rpc_loc_position_valid_mask_type \o xdr_rpc_loc_session_status_e_type
    \o xdr_rpc_loc_calendar_time_s_type \o xdr_rpc_uint64 \o xdr_rpc_uint8
    \o xdr_float \o Many(2, xdr_double) \o Many(12, xdr_float)
    \o Many(2, xdr_u_char) \o xdr_float \o xdr_rpc_loc_pos_technology_mask_type
xdr_rpc_loc_sv_system_e_type == xdr_enum
xdr_rpc_loc_sv_status_e_type == xdr_enum
xdr_rpc_loc_sv_info_valid_mask_type == xdr_rpc_uint32
xdr_rpc_loc_sv_info_s_type ==
    xdr_rpc_loc_sv_info_valid_mask_type \o xdr_rpc_loc_sv_system_e_type
    \o Many(2, xdr_rpc_uint8) \o xdr_rpc_loc_sv_status_e_type
    \o Many(2, xdr_rpc_boolean) \o Many(3, xdr_float)
xdr_rpc_loc_gnss_info_valid_mask_type == xdr_rpc_uint32
xdr_rpc_loc_gnss_info_s_type(c) ==
    xdr_rpc_loc_gnss_info_valid_mask_type \o Many(3, xdr_float)
    \o xdr_rpc_boolean \o xdr_rpc_uint16
    \o xdr_array(c.n, 80, xdr_rpc_loc_sv_info_s_type)
xdr_rpc_loc_nmea_report_s_type == xdr_rpc_uint16 \o xdr_opaque(1200)
xdr_rpc_loc_status_event_e_type == xdr_enum
xdr_rpc_loc_engine_state_e_type == xdr_enum
xdr_rpc_loc_fix_session_state_e_type == xdr_enum
xdr_rpc_loc_status_event_payload_u_type(c) ==
    xdr_rpc_loc_status_event_e_type \o (
      CASE c.status = "ENGINE_STATE" -> xdr_rpc_loc_engine_state_e_type
        [] c.status = "FIX_SESSION_STATE" ->
             xdr_rpc_loc_fix_session_state_e_type
        [] OTHER -> xdr_void)
xdr_rpc_loc_status_event_s_type(c) ==
    xdr_rpc_loc_status_event_e_type
    \o xdr_rpc_loc_status_event_payload_u_type(c)
xdr_rpc_loc_server_addr_e_type == xdr_enum
xdr_rpc_loc_server_addr_ipv4_type == xdr_rpc_uint32 \o xdr_rpc_uint16
xdr_rpc_loc_server_addr_url_type == xdr_rpc_uint16 \o xdr_opaque(256)
xdr_rpc_loc_server_addr_u_type(c) ==
    xdr_rpc_loc_server_addr_e_type \o (
      CASE c.addr = "IPV4" -> xdr_rpc_loc_server_addr_ipv4_type
        [] c.addr = "URL" -> xdr_rpc_loc_server_addr_url_type
        [] OTHER -> xdr_void)
xdr_rpc_loc_server_info_s_type(c) ==
    xdr_rpc_loc_server_addr_e_type \o xdr_rpc_loc_server_addr_u_type(c)
xdr_rpc_loc_ni_notify_verify_e_type == xdr_enum
xdr_rpc_loc_ni_event_e_type == xdr_enum
xdr_rpc_loc_ni_datacoding_scheme_e_type == xdr_enum
xdr_rpc_loc_ni_vx_requester_id_encoding_scheme_e_type == xdr_enum
xdr_rpc_loc_ni_vx_pos_mode_e_type == xdr_enum
xdr_rpc_loc_ni_vx_requester_id_s_type == xdr_u_char \o xdr_opaque(200)
xdr_rpc_loc_ni_vx_notify_verify_req_s_type ==
    xdr_rpc_loc_ni_notify_verify_e_type \o Many(2, xdr_u_char)
    \o Many(2, xdr_rpc_uint32) \o xdr_rpc_loc_ni_vx_pos_mode_e_type
    \o xdr_rpc_loc_ni_vx_requester_id_encoding_scheme_e_type
    \o xdr_rpc_loc_ni_vx_requester_id_s_type \o xdr_rpc_uint16
xdr_rpc_loc_ni_supl_pos_method_e_type == xdr_enum
xdr_rpc_loc_ni_supl_slp_session_id_s_type(c) ==
    xdr_u_char \o xdr_opaque(4) \o xdr_rpc_loc_server_info_s_type(c)
xdr_rpc_loc_ni_requestor_id_s_type ==
    xdr_u_char \o xdr_opaque(200) \o xdr_u_char
xdr_rpc_loc_ni_supl_client_name_s_type ==
    xdr_u_char \o xdr_opaque(64) \o xdr_u_char
xdr_rpc_loc_ni_supl_qop_s_type ==
    Many(3, xdr_u_char) \o xdr_rpc_uint16 \o xdr_u_char
xdr_rpc_loc_ni_supl_notify_verify_req_s_type(c) ==
    xdr_rpc_loc_ni_notify_verify_e_type \o xdr_rpc_uint16
    \o xdr_rpc_loc_ni_supl_slp_session_id_s_type(c) \o xdr_opaque(8)
    \o xdr_rpc_loc_ni_datacoding_scheme_e_type
    \o xdr_rpc_loc_ni_supl_pos_method_e_type
    \o xdr_rpc_loc_ni_requestor_id_s_type
    \o xdr_rpc_loc_ni_supl_client_name_s_type \o xdr_rpc_loc_ni_supl_qop_s_type
    \o xdr_rpc_uint16
xdr_rpc_loc_ni_ext_client_address_s_type == xdr_u_char \o xdr_opaque(20)
xdr_rpc_loc_ni_location_type_e_type == xdr_enum
xdr_rpc_loc_ni_deferred_location_s_type == Many(2, xdr_u_char)
xdr_rpc_loc_ni_codeword_string_s_type ==
    xdr_u_char \o xdr_opaque(20) \o xdr_u_char
xdr_rpc_loc_ni_service_type_id_s_type == xdr_u_char
xdr_rpc_loc_ni_umts_cp_notify_verify_req_s_type ==
    xdr_rpc_loc_ni_notify_verify_e_type \o xdr_u_char \o xdr_rpc_uint16
    \o xdr_u_char \o xdr_opaque(64) \o xdr_rpc_loc_ni_datacoding_scheme_e_type
    \o xdr_rpc_loc_ni_ext_client_address_s_type
    \o xdr_rpc_loc_ni_location_type_e_type
    \o xdr_rpc_loc_ni_deferred_location_s_type
    \o xdr_rpc_loc_ni_requestor_id_s_type
    \o xdr_rpc_loc_ni_codeword_string_s_type
    \o xdr_rpc_loc_ni_service_type_id_s_type \o xdr_rpc_uint16
xdr_rpc_loc_ni_service_interaction_e_type == xdr_enum
xdr_rpc_loc_ni_vx_service_interaction_req_s_type ==
    xdr_rpc_loc_ni_vx_notify_verify_req_s_type
    \o xdr_rpc_loc_ni_service_interaction_e_type
xdr_rpc_loc_ni_event_payload_u_type(c) ==
    xdr_rpc_loc_ni_event_e_type \o (
      CASE c.ni = "VX_NOTIFY_VERIFY_REQ" ->
             xdr_rpc_loc_ni_vx_notify_verify_req_s_type
        [] c.ni = "SUPL_NOTIFY_VERIFY_REQ" ->
             xdr_rpc_loc_ni_supl_notify_verify_req_s_type(c)
        [] c.ni = "UMTS_CP_NOTIFY_VERIFY_REQ" ->
             xdr_rpc_loc_ni_umts_cp_notify_verify_req_s_type
        [] c.ni = "VX_SERVICE_INTERACTION_REQ" ->
             xdr_rpc_loc_ni_vx_service_interaction_req_s_type
        [] OTHER -> xdr_void)
xdr_rpc_loc_ni_event_s_type(c) ==
    xdr_rpc_loc_ni_event_e_type \o xdr_rpc_loc_ni_event_payload_u_type(c)
xdr_rpc_loc_assist_data_request_e_type == xdr_enum
xdr_rpc_struct_loc_time_download_source_s_type_servers_ptr(c) ==
    xdr_string(c.n, 256)
xdr_rpc_struct_loc_time_download_source_s_type_servers(c) ==
    xdr_vector(3,
               xdr_rpc_struct_loc_time_download_source_s_type_servers_ptr(c))
xdr_rpc_loc_time_download_source_s_type(c) ==
    xdr_rpc_uint32
    \o xdr_rpc_struct_loc_time_download_source_s_type_servers(c)
xdr_rpc_struct_loc_predicted_orbits_data_source_s_type_servers_ptr(c) ==
    xdr_string(c.n, 256)
xdr_rpc_struct_loc_predicted_orbits_data_source_s_type_servers(c) ==
    xdr_vector(3,
               xdr_rpc_struct_loc_predicted_orbits_data_source_s_type_servers_ptr(c))
xdr_rpc_loc_predicted_orbits_data_source_s_type(c) ==
    Many(2, xdr_rpc_uint32)
    \o xdr_rpc_struct_loc_predicted_orbits_data_source_s_type_servers(c)
xdr_rpc_loc_assist_data_request_payload_u_type(c) ==
    xdr_rpc_loc_assist_data_request_e_type \o (
      CASE c.assist = "TIME_REQ" -> xdr_rpc_loc_time_download_source_s_type(c)
        [] c.assist = "PREDICTED_ORBITS_REQ" ->
             xdr_rpc_loc_predicted_orbits_data_source_s_type(c)
        [] OTHER -> xdr_void)
xdr_rpc_loc_assist_data_request_s_type(c) ==
    xdr_rpc_loc_assist_data_request_e_type
    \o xdr_rpc_loc_assist_data_request_payload_u_type(c)
xdr_rpc_loc_server_connection_handle == xdr_rpc_uint32
xdr_rpc_loc_server_protocol_e_type == xdr_enum
xdr_rpc_loc_server_request_e_type == xdr_enum
xdr_rpc_loc_server_open_req_s_type ==
    xdr_rpc_loc_server_connection_handle \o xdr_rpc_loc_server_protocol_e_type
xdr_rpc_loc_server_close_req_s_type == xdr_rpc_loc_server_connection_handle
xdr_rpc_loc_server_request_u_type(c) ==
    xdr_rpc_loc_server_request_e_type \o (
      CASE c.server = "OPEN" -> xdr_rpc_loc_server_open_req_s_type
        [] c.server = "CLOSE" -> xdr_rpc_loc_server_close_req_s_type
        [] OTHER -> xdr_void)
xdr_rpc_loc_server_request_s_type(c) ==
    xdr_rpc_loc_server_request_e_type \o xdr_rpc_loc_server_request_u_type(c)
xdr_rpc_loc_qwip_request_e_type == xdr_enum
xdr_rpc_loc_qwip_request_s_type ==
    xdr_rpc_loc_qwip_request_e_type \o xdr_rpc_uint16
xdr_rpc_loc_reserved_payload_s_type(c) ==
    xdr_rpc_uint16 \o xdr_bytes(c.n, LASTUNSIGNED)
xdr_rpc_loc_ioctl_e_type == xdr_enum
xdr_rpc_loc_api_version_s_type == Many(2, xdr_u_char)
xdr_rpc_loc_fix_recurrence_e_type == xdr_enum
xdr_rpc_loc_operation_mode_e_type == xdr_enum
xdr_rpc_loc_notify_e_type == xdr_enum
xdr_rpc_loc_fix_criteria_s_type ==
    xdr_rpc_uint32 \o xdr_rpc_loc_fix_recurrence_e_type
    \o xdr_rpc_loc_operation_mode_e_type \o Many(2, xdr_rpc_uint32)
    \o xdr_rpc_boolean \o xdr_rpc_loc_notify_e_type \o xdr_rpc_uint32
    \o xdr_float \o xdr_rpc_uint32
xdr_rpc_loc_ni_user_resp_e_type == xdr_enum
xdr_rpc_loc_user_verify_s_type(c) ==
    xdr_rpc_loc_ni_user_resp_e_type \o xdr_rpc_loc_ni_event_s_type(c)
xdr_rpc_loc_predicted_orbits_data_format_e_type == xdr_enum
xdr_rpc_loc_predicted_orbits_data_s_type(c) ==
    xdr_rpc_loc_predicted_orbits_data_format_e_type \o xdr_rpc_uint32
    \o Many(2, xdr_rpc_uint8) \o xdr_rpc_uint16 \o xdr_bytes(c.n, LASTUNSIGNED)
xdr_rpc_loc_predicted_orbits_data_validity_report_s_type ==
    xdr_rpc_uint64 \o xdr_rpc_uint16
xdr_rpc_loc_predicted_orbits_auto_download_config_s_type ==
    xdr_rpc_boolean \o xdr_u_char
xdr_rpc_loc_assist_data_time_s_type == xdr_rpc_uint64 \o xdr_rpc_uint32
xdr_rpc_loc_assist_pos_valid_mask_type == xdr_rpc_uint64
xdr_rpc_loc_assist_data_pos_s_type ==
    xdr_rpc_loc_assist_pos_valid_mask_type \o xdr_rpc_uint64
    \o Many(2, xdr_double) \o Many(4, xdr_float) \o Many(2, xdr_u_char)
    \o xdr_rpc_int32
xdr_rpc_loc_server_open_status_e_type == xdr_enum
xdr_rpc_loc_server_open_status_s_type ==
    xdr_rpc_loc_server_connection_handle
    \o xdr_rpc_loc_server_open_status_e_type \o xdr_opaque(100)
xdr_rpc_loc_server_close_status_e_type == xdr_enum
xdr_rpc_loc_server_close_status_s_type ==
    xdr_rpc_loc_server_connection_handle
    \o xdr_rpc_loc_server_close_status_e_type
xdr_rpc_loc_wiper_fix_time_s_type == xdr_rpc_uint32
xdr_rpc_loc_wiper_fix_pos_s_type ==
    Many(2, xdr_rpc_int32) \o xdr_rpc_uint16 \o Many(2, xdr_rpc_uint8)
xdr_rpc_loc_wiper_ap_info_s_type ==
    xdr_opaque(6) \o xdr_rpc_int32 \o xdr_rpc_uint16 \o xdr_rpc_uint8
xdr_rpc_loc_wiper_ap_set_s_type ==
    xdr_rpc_uint8 \o xdr_vector(50, xdr_rpc_loc_wiper_ap_info_s_type)
xdr_rpc_loc_wiper_position_report_s_type ==
    xdr_rpc_uint8 \o xdr_rpc_loc_wiper_fix_time_s_type
    \o xdr_rpc_loc_wiper_fix_pos_s_type \o xdr_rpc_loc_wiper_ap_set_s_type
xdr_rpc_loc_wiper_status_e_type == xdr_enum
xdr_rpc_loc_fs_operation_e_type == xdr_enum
xdr_rpc_loc_efs_data_s_type(c) ==
    xdr_opaque(64) \o xdr_rpc_loc_fs_operation_e_type \o xdr_rpc_uint32
    \o xdr_bytes(c.n, LASTUNSIGNED) \o xdr_rpc_uint32 \o Many(2, xdr_rpc_uint8)
    \o xdr_rpc_uint32
xdr_rpc_loc_lock_e_type == xdr_enum
xdr_rpc_loc_nmea_sentence_type == xdr_rpc_uint32
xdr_rpc_loc_assist_data_type == xdr_rpc_uint32
xdr_rpc_loc_assist_data_delete_s_type ==
    xdr_rpc_loc_assist_data_type \o xdr_vector(8, xdr_rpc_uint32)
xdr_rpc_loc_ioctl_data_u_type(c) ==
    xdr_rpc_loc_ioctl_e_type \o (
      CASE c.ioctl = "SET_FIX_CRITERIA" -> xdr_rpc_loc_fix_criteria_s_type
        [] c.ioctl = "INFORM_NI_USER_RESPONSE" ->
             xdr_rpc_loc_user_verify_s_type(c)
        [] c.ioctl = "INJECT_PREDICTED_ORBITS_DATA" ->
             xdr_rpc_loc_predicted_orbits_data_s_type(c)
        [] c.ioctl = "SET_PREDICTED_ORBITS_DATA_AUTO_DOWNLOAD" ->
             xdr_rpc_loc_predicted_orbits_auto_download_config_s_type
        [] c.ioctl = "INJECT_UTC_TIME" -> xdr_rpc_loc_assist_data_time_s_type
        [] c.ioctl = "INJECT_POSITION" -> xdr_rpc_loc_assist_data_pos_s_type
        [] c.ioctl = "INFORM_SERVER_OPEN_STATUS" ->
             xdr_rpc_loc_server_open_status_s_type
        [] c.ioctl = "INFORM_SERVER_CLOSE_STATUS" ->
             xdr_rpc_loc_server_close_status_s_type
        [] c.ioctl \in {"SEND_WIPER_POSITION_REPORT", "NMEA_1HZ_REPORT"} ->
             xdr_rpc_loc_wiper_position_report_s_type
        [] c.ioctl = "NOTIFY_WIPER_STATUS" -> xdr_rpc_loc_wiper_status_e_type
        [] c.ioctl = "SET_ENGINE_LOCK" -> xdr_rpc_loc_lock_e_type
        [] c.ioctl = "SET_SBAS_CONFIG" -> xdr_rpc_boolean
        [] c.ioctl = "SET_NMEA_TYPES" -> xdr_rpc_loc_nmea_sentence_type
        [] c.ioctl = "SET_ON_DEMAND_LPM" -> xdr_rpc_boolean
        [] c.ioctl \in {"SET_CDMA_PDE_SERVER_ADDR",
             "SET_CDMA_MPC_SERVER_ADDR", "SET_UMTS_SLP_SERVER_ADDR",
             "SET_CUSTOM_PDE_SERVER_ADDR"} ->
             xdr_rpc_loc_server_info_s_type(c)
        [] c.ioctl = "DELETE_ASSIST_DATA" ->
             xdr_rpc_loc_assist_data_delete_s_type
        [] c.ioctl = "ACCESS_EFS_DATA" -> xdr_rpc_loc_efs_data_s_type(c)
        [] OTHER -> xdr_void)
xdr_rpc_loc_ioctl_callback_data_u_type(c) ==
    xdr_rpc_loc_ioctl_e_type \o (
      CASE c.ioctl = "GET_API_VERSION" -> xdr_rpc_loc_api_version_s_type
        [] c.ioctl = "GET_FIX_CRITERIA" -> xdr_rpc_loc_fix_criteria_s_type
        [] c.ioctl = "GET_ENGINE_LOCK" -> xdr_rpc_loc_lock_e_type
        [] c.ioctl = "GET_SBAS_CONFIG" -> xdr_rpc_boolean
        [] c.ioctl = "GET_NMEA_TYPES" -> xdr_rpc_loc_nmea_sentence_type
        [] c.ioctl = "GET_ON_DEMAND_LPM" -> xdr_rpc_boolean
        [] c.ioctl \in {"GET_CDMA_PDE_SERVER_ADDR",
             "GET_CDMA_MPC_SERVER_ADDR", "GET_UMTS_SLP_SERVER_ADDR",
             "GET_CUSTOM_PDE_SERVER_ADDR"} ->
             xdr_rpc_loc_server_info_s_type(c)
        [] c.ioctl = "QUERY_PREDICTED_ORBITS_DATA_SOURCE" ->
             xdr_rpc_loc_predicted_orbits_data_source_s_type(c)
        [] c.ioctl = "QUERY_PREDICTED_ORBITS_DATA_VALIDITY" ->
             xdr_rpc_loc_predicted_orbits_data_validity_report_s_type
        [] OTHER -> xdr_void)
xdr_rpc_loc_ioctl_callback_s_type(c) ==
    xdr_rpc_loc_ioctl_e_type \o xdr_rpc_int32
    \o xdr_rpc_loc_ioctl_callback_data_u_type(c)
xdr_rpc_loc_event_payload_u_type(c) ==
    xdr_u_quad_t \o (
      CASE c.event = "PARSED_POSITION_REPORT" ->
             xdr_rpc_loc_parsed_position_s_type
        [] c.event = "SATELLITE_REPORT" -> xdr_rpc_loc_gnss_info_s_type(c)
        [] c.event = "NMEA_POSITION_REPORT" -> xdr_rpc_loc_nmea_report_s_type
        [] c.event = "NI_NOTIFY_VERIFY_REQUEST" ->
             xdr_rpc_loc_ni_event_s_type(c)
        [] c.event = "ASSISTANCE_DATA_REQUEST" ->
             xdr_rpc_loc_assist_data_request_s_type(c)
        [] c.event = "LOCATION_SERVER_REQUEST" ->
             xdr_rpc_loc_server_request_s_type(c)
        [] c.event = "IOCTL_REPORT" -> xdr_rpc_loc_ioctl_callback_s_type(c)
        [] c.event = "STATUS_REPORT" -> xdr_rpc_loc_status_event_s_type(c)
        [] c.event = "WPS_NEEDED_REQUEST" -> xdr_rpc_loc_qwip_request_s_type
        [] c.event = "RESERVED" -> xdr_rpc_loc_reserved_payload_s_type(c)
        [] OTHER -> xdr_void)
xdr_rpc_loc_api_api_versions_return_type(c) ==
    xdr_array(c.n, LASTUNSIGNED, xdr_rpc_uint32)
xdr_rpc_loc_event_cb_f_type == xdr_rpc_uint32
xdr_rpc_loc_open_args ==
    xdr_rpc_loc_event_mask_type \o xdr_rpc_loc_event_cb_f_type
xdr_rpc_loc_close_args == xdr_rpc_loc_client_handle_type
xdr_rpc_loc_start_fix_args == xdr_rpc_loc_client_handle_type
xdr_rpc_loc_stop_fix_args == xdr_rpc_loc_client_handle_type
xdr_rpc_loc_ioctl_args(c) ==
    xdr_rpc_loc_client_handle_type \o xdr_rpc_loc_ioctl_e_type
    \o xdr_pointer(c.data, xdr_rpc_loc_ioctl_data_u_type(c))
xdr_rpc_loc_api_api_version_s_args == xdr_rpc_boolean
xdr_rpc_loc_api_rpc_glue_code_info_remote_rets == Many(4, xdr_rpc_uint32)
xdr_rpc_loc_open_rets == xdr_rpc_loc_client_handle_type
xdr_rpc_loc_close_rets == xdr_rpc_int32
xdr_rpc_loc_start_fix_rets == xdr_rpc_int32
xdr_rpc_loc_stop_fix_rets == xdr_rpc_int32
xdr_rpc_loc_ioctl_rets == xdr_rpc_int32
xdr_rpc_loc_api_api_versions_rets(c) ==
    xdr_rpc_loc_api_api_versions_return_type(c)
    \o xdr_pointer(c.data, xdr_rpc_uint32)
xdr_rpc_loc_event_cb_f_type_args(c) ==
    xdr_rpc_uint32 \o xdr_rpc_loc_client_handle_type
    \o xdr_rpc_loc_event_mask_type
    \o xdr_pointer(c.data, xdr_rpc_loc_event_payload_u_type(c))
xdr_rpc_loc_event_cb_f_type_rets == xdr_rpc_int32

-----------------------------------------------------------------------------
(* The procedures (loc_api_clnt.c) and the choices a message can make.     *)

Procedures == {"null", "glue_code_info", "open", "close", "start_fix", "stop_fix",
               "ioctl", "api_versions"}
ArgsOf(p, c) ==
    CASE p = "open" -> xdr_rpc_loc_open_args
      [] p = "close" -> xdr_rpc_loc_close_args
      [] p = "start_fix" -> xdr_rpc_loc_start_fix_args
      [] p = "stop_fix" -> xdr_rpc_loc_stop_fix_args
      [] p = "ioctl" -> xdr_rpc_loc_ioctl_args(c)
      [] OTHER -> xdr_void
RetsOf(p, c) ==
    CASE p = "glue_code_info" -> xdr_rpc_loc_api_rpc_glue_code_info_remote_rets
      [] p = "open" -> xdr_rpc_loc_open_rets
      [] p = "close" -> xdr_rpc_loc_close_rets
      [] p = "start_fix" -> xdr_rpc_loc_start_fix_rets
      [] p = "stop_fix" -> xdr_rpc_loc_stop_fix_rets
      [] p = "ioctl" -> xdr_rpc_loc_ioctl_rets
      [] p = "api_versions" -> xdr_rpc_loc_api_api_versions_rets(c)
      [] OTHER -> xdr_void
DeclaredArgs(p, c) ==
    CASE p = "open" -> rpc_loc_open_args
      [] p = "close" -> rpc_loc_close_args
      [] p = "start_fix" -> rpc_loc_start_fix_args
      [] p = "stop_fix" -> rpc_loc_stop_fix_args
      [] p = "ioctl" -> rpc_loc_ioctl_args(c)
      [] OTHER -> <<>>
DeclaredRets(p, c) ==
    CASE p = "glue_code_info" -> rpc_loc_api_rpc_glue_code_info_remote_rets
      [] p = "open" -> rpc_loc_open_rets
      [] p = "close" -> rpc_loc_close_rets
      [] p = "start_fix" -> rpc_loc_start_fix_rets
      [] p = "stop_fix" -> rpc_loc_stop_fix_rets
      [] p = "ioctl" -> rpc_loc_ioctl_rets
      [] p = "api_versions" -> rpc_loc_api_api_versions_rets(c)
      [] OTHER -> <<>>

Plainly == [event |-> "none", ioctl |-> "none", ni |-> "none", addr |-> "none",
            assist |-> "none", server |-> "none", status |-> "none", n |-> 0, data |-> TRUE]
NiEvents == {"VX_NOTIFY_VERIFY_REQ", "SUPL_NOTIFY_VERIFY_REQ", "UMTS_CP_NOTIFY_VERIFY_REQ",
             "VX_SERVICE_INTERACTION_REQ"}
Addresses == {"IPV4", "URL"}
Short == {n \in XdrLengths : n <= 300}
SetIoctls == {"SET_FIX_CRITERIA", "SET_PREDICTED_ORBITS_DATA_AUTO_DOWNLOAD", "INJECT_UTC_TIME",
    "INJECT_RTC_VALUE", "INJECT_POSITION", "QUERY_ENGINE_STATE", "INFORM_SERVER_OPEN_STATUS",
    "INFORM_SERVER_CLOSE_STATUS", "SEND_WIPER_POSITION_REPORT", "NOTIFY_WIPER_STATUS",
    "SET_ENGINE_LOCK", "SET_SBAS_CONFIG", "SET_NMEA_TYPES", "SET_ON_DEMAND_LPM",
    "DELETE_ASSIST_DATA"}
GetIoctls == {"GET_API_VERSION", "GET_FIX_CRITERIA", "GET_ENGINE_LOCK", "GET_SBAS_CONFIG",
    "GET_NMEA_TYPES", "GET_ON_DEMAND_LPM", "QUERY_PREDICTED_ORBITS_DATA_VALIDITY"}
SetServers == {"SET_CDMA_PDE_SERVER_ADDR", "SET_CDMA_MPC_SERVER_ADDR", "SET_UMTS_SLP_SERVER_ADDR",
    "SET_CUSTOM_PDE_SERVER_ADDR"}
GetServers == {"GET_CDMA_PDE_SERVER_ADDR", "GET_CDMA_MPC_SERVER_ADDR", "GET_UMTS_SLP_SERVER_ADDR",
    "GET_CUSTOM_PDE_SERVER_ADDR"}
IoctlChoices ==
    {[Plainly EXCEPT !.ioctl = i, !.data = d] : i \in SetIoctls \cup GetIoctls \cup GetServers, d \in BOOLEAN}
      \cup {[Plainly EXCEPT !.ioctl = i, !.addr = a] : i \in SetServers, a \in Addresses}
      \cup {[Plainly EXCEPT !.ioctl = "INFORM_NI_USER_RESPONSE", !.ni = e, !.addr = a] :
              e \in NiEvents, a \in Addresses}
      \cup {[Plainly EXCEPT !.ioctl = i, !.n = n] :
              i \in {"INJECT_PREDICTED_ORBITS_DATA", "ACCESS_EFS_DATA"}, n \in XdrLengths}
EventChoices ==
    {[Plainly EXCEPT !.event = e, !.data = d] :
        e \in {"PARSED_POSITION_REPORT", "NMEA_POSITION_REPORT", "NMEA_1HZ_REPORT",
               "WPS_NEEDED_REQUEST", "none"}, d \in BOOLEAN}
      \cup {[Plainly EXCEPT !.event = e, !.n = n] : e \in {"SATELLITE_REPORT", "RESERVED"}, n \in Short}
      \cup {[Plainly EXCEPT !.event = "NI_NOTIFY_VERIFY_REQUEST", !.ni = e, !.addr = a] :
              e \in NiEvents, a \in Addresses}
      \cup {[Plainly EXCEPT !.event = "ASSISTANCE_DATA_REQUEST", !.assist = a, !.n = n] :
              a \in {"TIME_REQ", "PREDICTED_ORBITS_REQ"}, n \in Short}
      \cup {[Plainly EXCEPT !.event = "LOCATION_SERVER_REQUEST", !.server = s] : s \in {"OPEN", "CLOSE"}}
      \cup {[Plainly EXCEPT !.event = "STATUS_REPORT", !.status = s] :
              s \in {"ENGINE_STATE", "FIX_SESSION_STATE"}}
      \cup {[Plainly EXCEPT !.event = "IOCTL_REPORT", !.ioctl = i] : i \in SetIoctls \cup GetIoctls}
      \cup {[Plainly EXCEPT !.event = "IOCTL_REPORT", !.ioctl = i, !.addr = a] :
              i \in GetServers, a \in Addresses}
      \cup {[Plainly EXCEPT !.event = "IOCTL_REPORT", !.n = n,
                            !.ioctl = "QUERY_PREDICTED_ORBITS_DATA_SOURCE"] : n \in Short}

-----------------------------------------------------------------------------
(* One message: sent holds the values the sender's members have, got what  *)
(* the receiver's members are given.                                       *)

XdrInit == xdr = [phase |-> "idle", proc |-> "none", c |-> Plainly, words |-> <<>>,
                  sent |-> <<>>, got |-> <<>>]

\* clnt_call: the header and the arguments are encoded, or the call fails
\* with RPC_CANTENCODEARGS and nothing is sent.
clnt_call(p, c) ==
    LET items == xdr_call_msg_start \o ArgsOf(p, c)
        m == SendAll(items)
    IN /\ xdr.phase = "idle"
       /\ xdr' = IF m.ok
                   THEN [xdr EXCEPT !.phase = "called", !.proc = p, !.c = c, !.words = m.words,
                                    !.sent = Values(items)]
                   ELSE [xdr EXCEPT !.phase = "CANTENCODEARGS", !.proc = p, !.c = c]

\* The modem reads the call by the declared types and answers.
ModemServes ==
    LET m == RecvAll(xdr_std_read(xdr.words), xdr_call_msg_start \o DeclaredArgs(xdr.proc, xdr.c))
    IN /\ xdr.phase = "called"
       /\ xdr' = [xdr EXCEPT !.phase = "served", !.got = m.got]
ModemReplies ==
    LET c == [xdr.c EXCEPT !.data = TRUE]
        items == xdr_reply_msg_start \o DeclaredRets(xdr.proc, c)
        m == SendAll(items)
    IN /\ xdr.phase = "served"
       /\ xdr' = [xdr EXCEPT !.phase = "replied", !.c = c, !.words = m.words, !.sent = Values(items)]

\* The rest of clnt_call: the reply's header and the results are decoded.
clnt_decode ==
    LET m == RecvAll(xdr_std_read(xdr.words),
                     xdr_recv_reply_header("SUCCESS") \o RetsOf(xdr.proc, xdr.c))
    IN /\ xdr.phase = "replied"
       /\ xdr' = [xdr EXCEPT !.phase = IF m.ok THEN "returned" ELSE "CANTDECODERES", !.got = m.got]

\* The modem calls the phone back; it sends nothing the interface forbids.
ModemCalls(p, c) ==
    LET items == xdr_call_msg_start
                   \o (IF p = "event" THEN rpc_loc_event_cb_f_type_args(c) ELSE <<>>)
        m == SendAll(items)
    IN /\ xdr.phase = "idle"
       /\ c.event = "SATELLITE_REPORT" => c.n <= 80
       /\ c.event = "ASSISTANCE_DATA_REQUEST" => c.n <= 256
       /\ c.ioctl = "QUERY_PREDICTED_ORBITS_DATA_SOURCE" => c.n <= 256
       /\ m.ok
       /\ xdr' = [xdr EXCEPT !.phase = "calling back", !.proc = p, !.c = c, !.words = m.words,
                             !.sent = SubSeq(Values(items), 9, Len(items))]

\* svc_dispatch and loc_apicbprog_0x00050001: the arguments are decoded from
\* behind the default credentials; the answer is a result, or the error of
\* svcerr_decode or svcerr_noproc.
loc_apicbprog_0x00050001 ==
    LET m == RecvAll([xdr_std_read(xdr.words) EXCEPT !.next = DefaultCredentials],
                     IF xdr.proc = "event" THEN xdr_rpc_loc_event_cb_f_type_args(xdr.c) ELSE xdr_void)
    IN /\ xdr.phase = "calling back"
       /\ xdr' = [xdr EXCEPT !.phase = CASE xdr.proc = "other" -> "no such procedure"
                                         [] ~m.ok -> "refused"
                                         [] OTHER -> "handled",
                             !.got = m.got]
svc_sendreply ==
    LET items == CASE xdr.phase = "handled" /\ xdr.proc = "event" ->
                        xdr_reply_msg_start \o xdr_rpc_loc_event_cb_f_type_rets
                   [] xdr.phase = "handled" -> xdr_reply_msg_start
                   [] xdr.phase = "refused" -> xdr_send_reply_header("GARBAGE_ARGS")
                   [] OTHER -> xdr_send_reply_header("PROC_UNAVAIL")
    IN /\ xdr.phase \in {"handled", "refused", "no such procedure"}
       /\ xdr' = [xdr EXCEPT !.phase = IF xdr.phase = "handled" THEN "answered" ELSE "answered with an error",
                             !.words = SendAll(items).words, !.sent = Values(items)]
ModemHears ==
    LET ok == xdr.phase = "answered"
        m == RecvAll(xdr_std_read(xdr.words),
                     xdr_recv_reply_header(IF ok THEN "SUCCESS" ELSE "GARBAGE_ARGS")
                       \o (IF ok /\ xdr.proc = "event" THEN rpc_loc_event_cb_f_type_rets ELSE <<>>))
    IN /\ xdr.phase \in {"answered", "answered with an error"}
       /\ xdr' = [xdr EXCEPT !.phase = "acknowledged", !.got = m.got]

XdrNext ==
    \/ \E p \in Procedures \ {"ioctl", "api_versions"} : clnt_call(p, Plainly)
    \/ \E n \in Short : clnt_call("api_versions", [Plainly EXCEPT !.n = n])
    \/ \E c \in IoctlChoices : clnt_call("ioctl", c)
    \/ ModemServes \/ ModemReplies \/ clnt_decode
    \/ \E p \in {"NULLPROC", "other"} : ModemCalls(p, Plainly)
    \/ \E c \in EventChoices : ModemCalls("event", c)
    \/ loc_apicbprog_0x00050001 \/ svc_sendreply \/ ModemHears

XdrSpec == XdrInit /\ [][XdrNext]_xdrVars

-----------------------------------------------------------------------------
Size(items) == FoldLeft(LAMBDA s, i : s + 4 * ((i.n + 3) \div 4), 8, items)

\* What one side sends is what the other side gets, member by member: the
\* arguments and the results of every call, the event and its payload, and
\* the errors; a call is refused only when the message cannot hold it.  The
\* NMEA events are left out: EventDelivered shows what becomes of them.
PayloadIntact ==
    /\ xdr.phase \in {"served", "returned", "acknowledged"} => xdr.got = xdr.sent
    /\ xdr.phase = "CANTENCODEARGS" =>
         Size(xdr_call_msg_start \o DeclaredArgs(xdr.proc, xdr.c)) > RPCROUTER_MSGSIZE_MAX
    /\ xdr.phase # "CANTDECODERES"
    /\ (xdr.phase \in {"handled", "refused"}
          /\ xdr.c.event \notin {"NMEA_POSITION_REPORT", "NMEA_1HZ_REPORT"}) =>
         xdr.phase = "handled" /\ xdr.got = xdr.sent

\* Every event the interface declares reaches the phone with its payload:
\* loc_eng registers for NMEA_1HZ_REPORT and hands the sentences on.
EventDelivered == xdr.phase \in {"handled", "refused"} => xdr.phase = "handled" /\ xdr.got = xdr.sent
=============================================================================
