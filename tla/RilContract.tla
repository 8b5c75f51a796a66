---------------------------- MODULE RilContract -----------------------------
(***************************************************************************)
(* The contract of the vendor interface (include/legacy/telephony/ril.h,   *)
(* ril_cdma_sms.h, ril_msim.h): the structures it exchanges and, for every *)
(* request and event, what "data" and "response" are.  RilCodec models     *)
(* what libril reads and writes instead; ContractKept says they agree.     *)
(*                                                                         *)
(* A structure is the sequence of its members: I an int or an enumeration, *)
(* C a char, S a string, D raw bytes; a buffer with its length is the text *)
(* or the bytes it stands for.                                             *)
(***************************************************************************)
EXTENDS RilCodec

C == "c"
Wide(s) == [i \in DOMAIN s |-> IF s[i] = C THEN I ELSE s[i]]    \* an int on the wire

RIL_UUS_Info == <<I, I, I, D>>
RIL_CDMA_SignalInfoRecord == <<C, C, C, C>>
RIL_Call == <<I, I, I, C, C, C, C, C, S, I, S, I>>          \* and the UUS info
RIL_Data_Call_Response_v4 == <<I, I, S, S, S>>
RIL_Data_Call_Response_v6 == <<I, I, I, I, S, S, S, S, S>>
RIL_IMS_SMS_Message == <<I, C, I>>                          \* and the message
RIL_SMS_Response == <<I, S, I>>
RIL_SMS_WriteArgs == <<I, S, S>>
RIL_Dial == <<S, I>>                                        \* and the UUS info
RIL_SIM_IO_v6 == <<I, I, S, I, I, I, S, S, S>>
RIL_SIM_IO_Response == <<I, I, S>>
RIL_CallForwardInfo == <<I, I, I, I, S, I>>
RIL_NeighboringCell == <<S, I>>
RIL_SuppSvcNotification == <<I, I, I, I, S>>
RIL_Depersonalization == <<I, S>>
RIL_AppStatus == <<I, I, I, S, S, I, I, I>>
RIL_CardStatus_v6 == <<I, I, I, I, I>>                      \* and its applications
RIL_SimRefreshResponse_v7 == <<I, I, S>>
RIL_CDMA_CallWaiting_v6 == <<S, I, S>> \o RIL_CDMA_SignalInfoRecord \o <<I, I>>
RIL_GSM_BroadcastSmsConfigInfo == <<I, I, I, I, C>>
RIL_CDMA_BroadcastSmsConfigInfo == <<I, I, C>>
RIL_SignalStrength(form) ==
    LET GW == <<I, I>>  CDMA == <<I, I>>  EVDO == <<I, I, I>>
        LTE == <<I, I, I, I, I>>  TD_SCDMA == <<I>>
    IN GW \o CDMA \o EVDO \o (IF form \in {"v6", "v7"} THEN LTE ELSE <<>>)
                          \o (IF form = "v7" THEN TD_SCDMA ELSE <<>>)
RIL_CDMA_NumberInfoRecord == <<S, C, C, C, C>>
RIL_CDMA_InformationRecord(form) ==
    <<I>> \o (CASE form = "display" -> <<S>>
                [] form = "extended display" -> <<I, D>>
                [] form = "number" -> RIL_CDMA_NumberInfoRecord
                [] form = "signal" -> RIL_CDMA_SignalInfoRecord
                [] form = "redirecting" -> RIL_CDMA_NumberInfoRecord \o <<I>>
                [] form = "line control" -> <<C, C, C, C>>
                [] form = "clir" -> <<C>>
                [] form = "audio control" -> <<C, C>>)
RIL_CfData(n) ==            \* numValidIndexes of cfInfo[NUM_SERVICE_CLASSES]
    List(AtMost(n, NUM_SERVICE_CLASSES), RIL_CallForwardInfo)
RIL_CDMA_InformationRecords(n, form) ==     \* numberOfInfoRecs of infoRec[]
    IF n = 0 THEN <<>>
    ELSE Times(AtMost(n, RIL_CDMA_MAX_NUMBER_OF_INFO_RECS),
               Wide(RIL_CDMA_InformationRecord(form)))
RIL_StkCcUnsolSsResponse(n, form) ==
    <<I, I, I, I, I>>
      \o (IF form = "CF query" THEN RIL_CfData(n) ELSE List(SS_INFO_MAX, <<I>>))
RIL_CDMA_SMS_Address(n) == <<I, I, I, I, C>> \o Times(AtMost(n, DigitsMax), <<C>>)
RIL_CDMA_SMS_Subaddress(n) == <<I, C, C>> \o Times(AtMost(n, DigitsMax), <<C>>)
RIL_CDMA_SMS_Message(n) ==
    <<I, C, I>> \o RIL_CDMA_SMS_Address(n) \o RIL_CDMA_SMS_Subaddress(n)
      \o <<I>> \o Times(AtMost(n, DigitsMax), <<C>>)
RIL_CDMA_SMS_Ack == <<I, I>>
RIL_CDMA_SMS_WriteArgs(n) == <<I>> \o RIL_CDMA_SMS_Message(n)
RIL_SelectUiccSub == <<I, I, I, I>>

-----------------------------------------------------------------------------
(* <<number, data, response>> of the requests in the board's build, in the *)
(* order of ril.h.                                                         *)
Each(numbers, data, response) == {<<c, data, response>> : c \in numbers}
SimPins ==
    {<<1, "void", "CardStatus">>} \cup Each(2..6, "strings", "ints")
CallsAndImsi ==
    {<<7, "strings", "ints">>, <<8, "Depersonalization", "ints">>,
     <<9, "void", "Calls">>, <<10, "Dial", "void">>, <<11, "strings", "string">>,
     <<12, "ints", "void">>, <<13, "void", "void">>}
CallSwitching == Each(14..17, "void", "void") \cup {<<18, "void", "ints">>}
Registration == {<<19, "void", "SignalStrength">>, <<20, "void", "strings">>}
RadioAndDtmf ==
    Each({21, 22}, "void", "strings")
      \cup {<<23, "ints", "void">>, <<24, "string", "void">>}
SmsAndDataSetup ==
    Each({25, 26}, "strings", "SMS_Response") \cup {<<27, "SetupDataCall", "DataCall">>}
SimIoAndUssd ==
    {<<28, "SIM_IO", "SIM_IO_Response">>, <<29, "string", "void">>,
     <<30, "void", "void">>, <<31, "void", "ints">>, <<32, "ints", "void">>,
     <<33, "CallForward", "CallForwards">>}
CallForwardAndWaiting ==
    {<<34, "CallForward", "void">>, <<35, "ints", "ints">>}
      \cup Each({36, 37}, "ints", "void") \cup Each({38, 39}, "void", "string")
FacilityLocks ==
    {<<40, "void", "void">>, <<41, "strings", "void">>}
      \cup Each({42, 43}, "strings", "ints")
NetworkSelection ==
    {<<44, "strings", "void">>, <<45, "void", "ints">>, <<46, "void", "void">>,
     <<47, "string", "void">>, <<48, "void", "strings">>}
DtmfTonesAndMute ==
    {<<49, "string", "void">>, <<50, "void", "void">>, <<51, "void", "string">>}
      \cup Each({52, 53}, "ints", "void") \cup Each({54, 55}, "void", "ints")
DataCallsAndOem ==
    {<<56, "void", "ints">>, <<57, "void", "DataCalls">>, <<58, "void", "void">>,
     <<59, "raw", "raw_or_NULL">>, <<60, "strings", "strings">>}
ScreenAndSmsStorage ==
    Each({61, 62, 64, 65}, "ints", "void") \cup {<<63, "SMS_WriteArgs", "ints">>}
BandModesAndStk ==
    {<<66, "void", "ints">>, <<67, "void", "string">>, <<69, "string", "string">>,
     <<71, "ints", "void">>} \cup Each({68, 70}, "string", "void")
NetworkType ==
    {<<72, "void", "void">>, <<74, "void", "ints">>, <<75, "void", "Cells">>}
      \cup Each({73, 76, 77}, "ints", "void")
CdmaPreferences ==
    Each({78, 80, 82}, "ints", "void") \cup Each({79, 81, 83}, "void", "ints")
CdmaSms ==
    Each({84, 86}, "string", "void")
      \cup {<<85, "strings", "void">>, <<87, "CDMA_SMS", "SMS_Response">>,
            <<88, "CDMA_SMS_Ack", "void">>, <<89, "void", "GSM_Broadcast">>,
            <<90, "GSM_Broadcast", "void">>}
Broadcast ==
    Each({91, 94, 97}, "ints", "void")
      \cup {<<92, "void", "CDMA_Broadcast">>, <<93, "CDMA_Broadcast", "void">>,
            <<95, "void", "strings">>, <<96, "CDMA_SMS_WriteArgs", "ints">>}
Device ==
    {<<98, "void", "strings">>, <<100, "void", "string">>,
     <<101, "string", "void">>, <<102, "ints", "void">>, <<104, "void", "ints">>}
      \cup Each({99, 103}, "void", "void")
StkAndIms ==
    {<<105, "string", "string">>, <<106, "strings", "void">>,
     <<107, "string", "SIM_IO_Response">>, <<110, "IMS_SMS", "SMS_Response">>}
      \cup Each({108, 109}, "void", "ints")
UiccSubscription == {<<118, "SelectUiccSub", "void">>}
Requests ==
    SimPins \cup CallsAndImsi \cup CallSwitching \cup Registration
      \cup RadioAndDtmf \cup SmsAndDataSetup \cup SimIoAndUssd
      \cup CallForwardAndWaiting \cup FacilityLocks \cup NetworkSelection
      \cup DtmfTonesAndMute \cup DataCallsAndOem \cup ScreenAndSmsStorage
      \cup BandModesAndStk \cup NetworkType \cup CdmaPreferences \cup CdmaSms
      \cup Broadcast \cup Device \cup StkAndIms \cup UiccSubscription

(* <<number, data>> of the events.                                         *)
Sent(numbers, data) == {<<e, data>> : e \in numbers}
StateEvents ==
    Sent(1000..1002, "void") \cup Sent({1003, 1004, 1008}, "string")
      \cup {<<1005, "ints">>, <<1006, "strings">>, <<1007, "void">>}
ServiceEvents ==
    {<<1009, "SignalStrength">>, <<1010, "DataCalls">>, <<1011, "SuppSvc">>,
     <<1015, "ints">>, <<1017, "SimRefresh">>}
      \cup Sent({1012, 1016}, "void") \cup Sent({1013, 1014}, "string")
CdmaEvents ==
    {<<1018, "CallRing">>, <<1020, "CDMA_SMS">>, <<1025, "CallWaiting">>,
     <<1027, "InfoRecords">>}
      \cup Sent({1019, 1022, 1024}, "void") \cup Sent({1021, 1028}, "raw_or_NULL")
      \cup Sent({1023, 1026, 1029}, "ints")
LateEvents ==
    Sent({1030, 1033, 1036}, "void") \cup Sent({1031, 1032, 1034, 1035}, "ints")
CardEvents == {<<1039, "SS">>, <<1040, "string">>, <<1041, "ints">>}
Unsolicited ==
    StateEvents \cup ServiceEvents \cup CdmaEvents \cup LateEvents \cup CardEvents

-----------------------------------------------------------------------------
(* What goes over the wire for a structure.  A char is an int there, but a *)
(* byte in the messages of ril_cdma_sms.h; the unused apn is left out; the *)
(* UUS information follows a flag, from version 3 on in a Dial; a vendor   *)
(* below version 4 gets no connection type; the cell's two members are     *)
(* exchanged.                                                              *)
Bytes(s) == [i \in DOMAIN s |-> IF s[i] = C THEN B ELSE s[i]]
Uus(form, v) == IF v >= 3 /\ form = "uus" THEN <<I>> \o RIL_UUS_Info ELSE <<I>>
DataCallImage(v) ==
    IF v >= 5 THEN RIL_Data_Call_Response_v6 ELSE RemoveAt(RIL_Data_Call_Response_v4, 4)
Image(type, n, form, v) ==
    CASE type = "void" -> <<>>
      [] type = "string" -> <<S>>
      [] type = "strings" -> List(n, <<S>>)
      [] type = "SetupDataCall" ->
           List(IF v < 4 THEN AtMost(n, numParamsRilV3) ELSE n, <<S>>)
      [] type = "ints" -> List(n, <<I>>)
      [] type = "raw" -> <<I, D>>
      [] type = "raw_or_NULL" -> IF n = 0 THEN <<I>> ELSE <<I, D>>
      [] type = "Depersonalization" -> RIL_Depersonalization
      [] type = "Dial" -> RIL_Dial \o (IF v < 3 THEN <<>> ELSE Uus(form, v))
      [] type = "SIM_IO" -> RIL_SIM_IO_v6
      [] type = "SIM_IO_Response" -> RIL_SIM_IO_Response
      [] type = "CallForward" -> RIL_CallForwardInfo
      [] type = "CallForwards" -> List(n, RIL_CallForwardInfo)
      [] type = "SMS_WriteArgs" -> RIL_SMS_WriteArgs
      [] type = "SMS_Response" -> RIL_SMS_Response
      [] type = "CDMA_SMS" -> Bytes(RIL_CDMA_SMS_Message(n))
      [] type = "CDMA_SMS_Ack" -> RIL_CDMA_SMS_Ack
      [] type = "CDMA_SMS_WriteArgs" -> Bytes(RIL_CDMA_SMS_WriteArgs(DigitsMax))
      [] type = "IMS_SMS" ->
           Bytes(RIL_IMS_SMS_Message)
             \o (IF form = "3GPP" THEN List(n, <<S>>) ELSE Bytes(RIL_CDMA_SMS_Message(n)))
      [] type = "GSM_Broadcast" -> List(n, Wide(RIL_GSM_BroadcastSmsConfigInfo))
      [] type = "CDMA_Broadcast" -> List(n, Wide(RIL_CDMA_BroadcastSmsConfigInfo))
      [] type = "SelectUiccSub" -> RIL_SelectUiccSub
      [] type = "CardStatus" -> RIL_CardStatus_v6 \o List(n, RIL_AppStatus)
      [] type = "Calls" -> List(n, Wide(RIL_Call) \o Uus(form, v))
      [] type = "SignalStrength" -> RIL_SignalStrength(form)
      [] type = "DataCall" ->
           IF v >= 5 THEN <<I>> \o List(n, DataCallImage(v)) ELSE <<I>> \o List(n, <<S>>)
      [] type = "DataCalls" -> <<I>> \o List(n, DataCallImage(v))
      [] type = "Cells" -> List(n, Reverse(RIL_NeighboringCell))
      [] type = "SuppSvc" -> RIL_SuppSvcNotification
      [] type = "SimRefresh" -> RIL_SimRefreshResponse_v7
      [] type = "CallRing" -> IF n = 0 THEN <<>> ELSE Wide(RIL_CDMA_SignalInfoRecord)
      [] type = "CallWaiting" -> Wide(RIL_CDMA_CallWaiting_v6)
      [] type = "InfoRecords" ->
           <<I>> \o RIL_CDMA_InformationRecords(n, form)
      [] type = "SS" -> RIL_StkCcUnsolSsResponse(n, form)

RequestOf(c) == CHOOSE t \in Requests : t[1] = c
EventOf(e) == CHOOSE t \in Unsolicited : ToClient(t[1]) = e

(* Between the two halves of libril nothing is misread: what it takes from *)
(* a client's parcel is what ril.h says the vendor is given, and what it   *)
(* writes for the vendor's answer or event is what ril.h says the vendor   *)
(* hands over, for every command, event and version.  The one command left *)
(* out is 47, whose data is "const char *" in ril.h and a list in libril.  *)
ContractKept ==
    /\ fate = "vendor" /\ command # 47 =>
         Items(Program(command, sent.n, sent.form, version)) =
           Image(RequestOf(command)[2], sent.n, sent.form, version)
    /\ fate = "done" /\ reply # Invalid =>
         reply = Image(RequestOf(command)[3], sent.n, sent.form, version)
    /\ fate = "event" =>
         reply = Image(EventOf(sent.id)[2], sent.n, sent.form, version)
=============================================================================
