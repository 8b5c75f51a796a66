------------------------------- MODULE LocHal -------------------------------
(***************************************************************************)
(* The AGPS servers and the operation mode the framework passes to the     *)
(* modem through the location engine adapter (libloc_api/loc_eng.cpp).  A  *)
(* server may be named before loc_eng_init: then it is kept in a static    *)
(* buffer, which no later call clears or updates, and every                *)
(* loc_eng_agps_init sends what is in the buffer.  Servers are small       *)
(* numbers; an address may not resolve and an ioctl may fail, which the    *)
(* functions ignore.                                                       *)
(***************************************************************************)
EXTENDS Naturals

CONSTANT MaxHosts           \* server addresses set, numbered 1, 2, ...

AGpsType == {"SUPL", "C2K"}
Modes == {"STANDALONE", "MSB", "MSA"}
NoHost == 0

VARIABLES
    halInited,              \* loc_eng_inited
    agpsInited,             \* loc_eng_agps_init has been called since
    hostBuf,                \* supl_host_buf, c2k_host_buf; set if # NoHost
    modemHost,              \* the servers the modem uses
    operMode,               \* preferred_operation_mode at the modem
    lastHost, hosts,        \* the servers the framework set last, and count
    refused,                \* the last attempt to set it failed
    overtaken               \* an older server was sent from the buffer

halVars == <<halInited, agpsInited, hostBuf, modemHost, operMode, lastHost,
             hosts, refused, overtaken>>

HalInit ==
    /\ halInited = FALSE /\ agpsInited = FALSE
    /\ hosts = 0 /\ operMode = "STANDALONE"
    /\ hostBuf = [t \in AGpsType |-> NoHost]
    /\ modemHost = [t \in AGpsType |-> NoHost]
    /\ lastHost = [t \in AGpsType |-> NoHost]
    /\ refused = [t \in AGpsType |-> FALSE]
    /\ overtaken = [t \in AGpsType |-> FALSE]

(* loc_eng_set_server for the types in ts, each with its server in host.   *)
set_server(ts, host) ==
    \E ok \in SUBSET ts :
        /\ modemHost' = [t \in AGpsType |->
                           IF t \in ok THEN host[t] ELSE modemHost[t]]
        /\ refused' = [t \in AGpsType |->
                         IF t \in ts THEN t \notin ok ELSE refused[t]]

(* loc_eng_set_server_proxy: before init the address is only buffered,     *)
(* after it only passed on.                                                *)
loc_eng_set_server_proxy(t) ==
    /\ hosts < MaxHosts /\ hosts' = hosts + 1
    /\ lastHost' = [lastHost EXCEPT ![t] = hosts']
    /\ overtaken' = [overtaken EXCEPT ![t] = FALSE]
    /\ IF halInited
         THEN set_server({t}, lastHost') /\ UNCHANGED hostBuf
         ELSE /\ hostBuf' = [hostBuf EXCEPT ![t] = hosts']
              /\ UNCHANGED <<modemHost, refused>>
    /\ UNCHANGED <<halInited, agpsInited, operMode>>

HalStart ==
    /\ ~halInited /\ halInited' = TRUE
    /\ UNCHANGED <<agpsInited, hostBuf, modemHost, operMode, lastHost, hosts,
                   refused, overtaken>>

(* loc_eng_agps_init: "Set server addresses which came before init".       *)
SuplOnly == {t \in {"SUPL"} : hostBuf[t] # NoHost}      \* faulty
Buffered == {t \in AGpsType : hostBuf[t] # NoHost}
loc_eng_agps_init ==
    /\ halInited /\ ~agpsInited /\ agpsInited' = TRUE
    /\ set_server(Buffered, hostBuf)
    /\ overtaken' = [t \in AGpsType |-> hostBuf[t] \notin {NoHost, lastHost[t]}]
    /\ UNCHANGED <<halInited, hostBuf, operMode, lastHost, hosts>>

HalCleanup ==
    /\ halInited /\ halInited' = FALSE /\ agpsInited' = FALSE
    /\ UNCHANGED <<hostBuf, modemHost, operMode, lastHost, hosts, refused,
                   overtaken>>

(* loc_eng_set_position_mode: without a buffered server the mode is        *)
(* STANDALONE, whatever servers were passed on since.                      *)
OperationMode(mode) ==
    IF \E t \in AGpsType : hostBuf[t] # NoHost THEN mode ELSE "STANDALONE"
loc_eng_set_position_mode ==
    /\ halInited
    /\ \/ \E mode \in Modes : operMode' = OperationMode(mode)
       \/ UNCHANGED operMode
    /\ UNCHANGED <<halInited, agpsInited, hostBuf, modemHost, lastHost, hosts,
                   refused, overtaken>>

HalNext ==
    \/ \E t \in AGpsType : loc_eng_set_server_proxy(t)
    \/ HalStart \/ loc_eng_agps_init \/ HalCleanup
    \/ loc_eng_set_position_mode

HalSpec == HalInit /\ [][HalNext]_halVars

(* Once the AGPS interface is initialised the modem uses the servers the   *)
(* framework named last, over any order of naming them and of starting and *)
(* cleaning up the adapter, unless the modem refused one - or the last one *)
(* was named while the adapter ran, which its buffer never learns of, and  *)
(* a later loc_eng_agps_init sent the older one from the buffer.  And an   *)
(* assisted mode is in force only where the modem has been given a server. *)
ServerCurrent ==
    agpsInited =>
        /\ \A t \in AGpsType :
             modemHost[t] = lastHost[t] \/ refused[t] \/ overtaken[t]
        /\ operMode # "STANDALONE" =>
             \E t \in AGpsType : modemHost[t] # NoHost \/ refused[t]
=============================================================================
