------------------------------ MODULE RilCodec ------------------------------
(***************************************************************************)
(* Marshalling in libril (ril.cpp): the tables of commands, the dispatch   *)
(* functions that read a request out of a parcel, the response functions   *)
(* that write an answer into one, and the client's side of the wire as far *)
(* as it is in the tree (JSRQualcommRIL.java).                             *)
(*                                                                         *)
(* A parcel is the sequence of its items: I an int, B a byte, S a string,  *)
(* D raw bytes.  A dispatch function is the sequence of what it does: the  *)
(* items it reads, Status where it tests the status of its last number and *)
(* NotNull where it tests its last string; a test that fails ends in       *)
(* invalidCommandBlock.  A number read past the end of the parcel fails    *)
(* and leaves the position where it is, a string becomes NULL.  Values are *)
(* abstracted to the counts and forms that steer a function.               *)
(***************************************************************************)
EXTENDS Integers, Sequences, FiniteSets, SequencesExt

CONSTANTS
    Counts,                 \* list lengths a client or the vendor uses
    Versions,               \* RIL versions of the vendor library
    DigitsMax,              \* RIL_CDMA_SMS_*_MAX, scaled down
    CARD_MAX_APPS,          \* applications the client reads of a card
    NUM_SERVICE_CLASSES,    \* and what the arrays of ril.h hold, scaled down:
    RIL_CDMA_MAX_NUMBER_OF_INFO_RECS

ASSUME CodecAssumption ==
    /\ Counts \subseteq Nat /\ Versions \subseteq Nat
    /\ DigitsMax \in Nat /\ CARD_MAX_APPS \in Nat
    /\ NUM_SERVICE_CLASSES \in Nat
    /\ RIL_CDMA_MAX_NUMBER_OF_INFO_RECS \in Nat \ {0}

I == "i"
B == "b"
S == "s"
D == "d"
Status == "status?"
NotNull == "null?"
Reject == "reject"          \* gives up whatever the parcel holds
Tests == {Status, NotNull, Reject}
Invalid == <<"RIL_ERRNO_INVALID_RESPONSE">>

Times(n, s) ==
    IF n <= 0 THEN <<>>
    ELSE [k \in 1..(n * Len(s)) |-> s[((k - 1) % Len(s)) + 1]]
AtMost(n, max) == IF n < max THEN n ELSE max

-----------------------------------------------------------------------------
(* The dispatch functions; n is the count in the parcel, v the version of  *)
(* the vendor library, form what else the function branches on.            *)
dispatchVoid == <<>>
dispatchString == <<S>>
dispatchStrings(n) == <<I, Status>> \o Times(n, <<S>>)
dispatchInts(n) ==
    <<I, Status>> \o (IF n = 0 THEN <<Reject>> ELSE Times(n, <<I, Status>>))
dispatchSmsWrite == <<I, S, Status, NotNull, S>>
dispatchDial(form, v) ==
    <<S, I, Status, NotNull>> \o (IF v < 3 THEN <<>> ELSE <<I, Status>>)
      \o (IF v < 3 \/ form # "uus" THEN <<>> ELSE <<I, I, I, Status, D>>)
StatusInFront == <<I, I, Status, S, I, I, I, S, S, S>>              \* faulty variant
dispatchSIM_IO == <<I, I, S, I, I, I, S, S, S, Status>>
dispatchCallForward == <<I, I, I, I, S, I, Status>>
dispatchRaw == <<I, Status, D>>
constructCdmaSms(n) ==
    <<I, B, I, I, I, I, I, B>> \o Times(AtMost(n, DigitsMax), <<B>>)
      \o <<I, B, B>> \o Times(AtMost(n, DigitsMax), <<B>>)
      \o <<I>> \o Times(AtMost(n, DigitsMax), <<B>>) \o <<Status>>
dispatchCdmaSms(n) == constructCdmaSms(n)
dispatchImsGsmSms(n) == dispatchStrings(n)
dispatchImsCdmaSms(n) == constructCdmaSms(n)
dispatchImsSms(form, n) ==
    <<I, Status, B, Status, I, Status>>
      \o (CASE form = "3GPP" -> dispatchImsGsmSms(n)
            [] form = "3GPP2" -> dispatchImsCdmaSms(n)
            [] OTHER -> <<Reject>>)
dispatchCdmaSmsAck == <<I, I, Status>>
dispatchGsmBrSmsCnf(n) ==
    <<I, Status>> \o Times(n, <<I, I, I, I, I>>) \o <<Status>>
dispatchCdmaBrSmsCnf(n) ==
    <<I, Status>> \o Times(n, <<I, I, I>>) \o <<Status>>
dispatchRilCdmaSmsWriteArgs ==
    <<I, I, B, I, I, I, I, I, B>> \o Times(DigitsMax, <<B>>)
      \o <<I, B, B>> \o Times(DigitsMax, <<B>>)
      \o <<I>> \o Times(DigitsMax, <<B>>) \o <<Status>>
numParamsRilV3 == 6
dispatchDataCall(n, v) ==
    dispatchStrings(IF v < 4 /\ n > numParamsRilV3 THEN numParamsRilV3 ELSE n)
dispatchDepersonalization == <<I, S, Status>>
dispatchUiccSubscripton ==
    <<I, Status, I, Status, I, Status, I, Status>>

(* s_commands, by request number, as the board's configuration builds it   *)
(* (RIL_VARIANT_LEGACY): the numbers of the vendor interface, and for the  *)
(* last three the number the client uses (rilj.h).                         *)
Command(d) ==
    CASE d = "Strings" -> (2..7) \cup {11, 25, 26} \cup (41..44)
                            \cup {47, 60, 85, 106}
      [] d = "Ints" -> {12, 23, 32, 35, 36, 37, 52, 53, 61, 62, 64, 65, 71, 73,
                        76, 77, 78, 80, 82, 91, 94, 97, 102}
      [] d = "String" -> {24, 29, 49, 68, 69, 70, 84, 86, 101, 105, 107}
      [] d = "CallForward" -> {33, 34}
      [] d = "Depersonalization" -> {8}
      [] d = "Dial" -> {10}           [] d = "DataCall" -> {27}
      [] d = "SIM_IO" -> {28}         [] d = "Raw" -> {59}
      [] d = "SmsWrite" -> {63}       [] d = "CdmaSms" -> {87}
      [] d = "CdmaSmsAck" -> {88}     [] d = "GsmBrSmsCnf" -> {90}
      [] d = "CdmaBrSmsCnf" -> {93}   [] d = "RilCdmaSmsWriteArgs" -> {96}
      [] d = "RadioState" -> {104, 108}
      [] d = "ImsSms" -> {110}        [] d = "UiccSubscripton" -> {118}
Handlers == {"Strings", "Ints", "String", "CallForward", "Depersonalization",
             "Dial", "DataCall", "SIM_IO", "Raw", "SmsWrite", "CdmaSms",
             "CdmaSmsAck", "GsmBrSmsCnf", "CdmaBrSmsCnf",
             "RilCdmaSmsWriteArgs", "RadioState", "ImsSms", "UiccSubscripton"}
s_commands == (1..110) \cup {118}
reqNumRILJ == [c \in {109, 110, 118} |->
                 CASE c = 109 -> 112 [] c = 110 -> 113 [] c = 118 -> 122]
HandlerOf(c) ==
    IF \E d \in Handlers : c \in Command(d)
      THEN CHOOSE d \in Handlers : c \in Command(d) ELSE "Void"

Unsupported == 0
getCmdInfoByReqId(id) == IF id \in s_commands THEN id ELSE Unsupported
(* processCommandBuffer looks for the client's number first, then for the  *)
(* vendor's.                                                               *)
ByIndex(id) ==                                                      \* faulty variant
    IF id \in 1..110 THEN id ELSE IF id = 111 THEN 118 ELSE Unsupported
Translate(id) ==
    IF \E c \in DOMAIN reqNumRILJ : reqNumRILJ[c] = id
      THEN CHOOSE c \in DOMAIN reqNumRILJ : reqNumRILJ[c] = id
      ELSE getCmdInfoByReqId(id)

(* The two that look at the radio's state read nothing.  Whether they      *)
(* answer themselves, or also hand on, is in RilSession: the answer is an  *)
(* int list like the vendor's.                                             *)
Program(c, n, form, v) ==
    LET d == HandlerOf(c)
    IN CASE d \in {"Void", "RadioState"} -> dispatchVoid
         [] d = "String" -> dispatchString
         [] d = "Strings" -> dispatchStrings(n)
         [] d = "Ints" -> dispatchInts(n)
         [] d = "SmsWrite" -> dispatchSmsWrite
         [] d = "Dial" -> dispatchDial(form, v)
         [] d = "SIM_IO" -> dispatchSIM_IO
         [] d = "CallForward" -> dispatchCallForward
         [] d = "Raw" -> dispatchRaw
         [] d = "CdmaSms" -> dispatchCdmaSms(n)
         [] d = "ImsSms" -> dispatchImsSms(form, n)
         [] d = "CdmaSmsAck" -> dispatchCdmaSmsAck
         [] d = "GsmBrSmsCnf" -> dispatchGsmBrSmsCnf(n)
         [] d = "CdmaBrSmsCnf" -> dispatchCdmaBrSmsCnf(n)
         [] d = "RilCdmaSmsWriteArgs" -> dispatchRilCdmaSmsWriteArgs
         [] d = "DataCall" -> dispatchDataCall(n, v)
         [] d = "Depersonalization" -> dispatchDepersonalization
         [] d = "UiccSubscripton" -> dispatchUiccSubscripton

(* Running a program on a parcel that ends after its first k items.        *)
Position(p, j) == Cardinality({i \in 1..j : p[i] \notin Tests})
Items(p) ==
    [k \in 1..Position(p, Len(p)) |->
       p[CHOOSE i \in DOMAIN p : p[i] \notin Tests /\ Position(p, i) = k]]
LastRead(p, j, kinds) ==
    CHOOSE i \in 1..j : p[i] \in kinds
                        /\ \A m \in (i + 1)..j : p[m] \notin kinds
Passes(p, k) ==
    \A j \in DOMAIN p :
      /\ p[j] # Reject
      /\ p[j] = Status => Position(p, LastRead(p, j, {I, B})) <= k
      /\ p[j] = NotNull => Position(p, LastRead(p, j, {S})) <= k
Missing(p, k) == {i \in DOMAIN p : p[i] \notin Tests /\ Position(p, i) > k}

-----------------------------------------------------------------------------
(* The response functions: what they write for an answer of n records, or  *)
(* Invalid.  ragged: the length the vendor gave is not the record's size,  *)
(* or not a multiple of it; some functions do not test it.                 *)
List(n, record) == <<I>> \o Times(n, record)
Whole(ragged, items) == IF ragged THEN Invalid ELSE items
responseInts(n, ragged) == Whole(ragged, List(n, <<I>>))
responseStrings(n, ragged) == Whole(ragged, List(n, <<S>>))
responseString == <<S>>
responseVoid == <<>>
responseCallList(n, ragged, form, v) ==
    Whole(ragged,
      List(n, <<I, I, I, I, I, I, I, I, S, I, S, I, I>>
                \o (IF v < 3 \/ form # "uus" THEN <<>> ELSE <<I, I, I, D>>)))
responseSMS(ragged) == Whole(ragged, <<I, S, I>>)
responseDataCallListV4(n, ragged) == Whole(ragged, List(n, <<I, I, S, S>>))
responseDataCallList(n, ragged, v) ==
    Whole(ragged,
      <<I>> \o (IF v < 5 THEN responseDataCallListV4(n, ragged)
                 ELSE List(n, <<I, I, I, I, S, S, S, S, S>>)))
responseSetupDataCall(n, ragged, v) ==
    IF v < 5 THEN Whole(ragged, <<I>> \o responseStrings(n, ragged))
             ELSE responseDataCallList(n, ragged, v)
responseRaw(n) == IF n = 0 THEN <<I>> ELSE <<I, D>>     \* none: NULL, a length of -1
responseSIM_IO(ragged) == Whole(ragged, <<I, I, S>>)
CallForwardInfo == <<I, I, I, I, S, I>>
responseCallForwards(n, ragged) == Whole(ragged, List(n, CallForwardInfo))
CellInMemberOrder(n, ragged) == Whole(ragged, List(n, <<S, I>>))     \* faulty variant
responseCellList(n, ragged) == Whole(ragged, List(n, <<I, S>>))
responseRilSignalStrength(form) ==
    CASE form = "short" -> Invalid
      [] form = "v5" -> Times(7, <<I>>)
      [] form = "v6" -> Times(12, <<I>>)
      [] form = "v7" -> Times(13, <<I>>)
responseUiccSubscription == <<I, I, I, I>>
AppStatus == <<I, I, I, S, S, I, I, I>>
sendSimStatusAppInfo(n) == List(n, AppStatus)
responseSimStatus(n, ragged) ==      \* RIL_CardStatus_v5 sends -1 as fifth
    Whole(ragged, <<I, I, I, I, I>> \o sendSimStatusAppInfo(n))
responseGsmBrSmsCnf(n) == List(n, <<I, I, I, I, I>>)
responseCdmaBrSmsCnf(n) == List(n, <<I, I, I>>)
responseCdmaSms(n) ==
    <<I, B, I, I, I, I, I, B>> \o Times(AtMost(n, DigitsMax), <<B>>)
      \o <<I, B, B>> \o Times(AtMost(n, DigitsMax), <<B>>)
      \o <<I>> \o Times(AtMost(n, DigitsMax), <<B>>)

(* Of the events alone (ril_unsol_commands.h).                             *)
responseSsn(ragged) == Whole(ragged, <<I, I, I, I, S>>)
marshallSignalInfoRecord == <<I, I, I, I>>
responseCdmaSignalInfoRecord(ragged) == Whole(ragged, marshallSignalInfoRecord)
responseCallRing(n, ragged) ==
    IF n = 0 THEN responseVoid ELSE responseCdmaSignalInfoRecord(ragged)
responseCdmaCallWaiting == <<S, I, S>> \o marshallSignalInfoRecord \o <<I, I>>
responseSimRefresh == <<I, I, S>>   \* below version 7 two ints and a null string
isServiceTypeCFQuery(form) == form = "CF query"
SS_INFO_MAX == 4
responseSSData(n, ragged, form) ==
    Whole(ragged, <<I, I, I, I, I>>
                    \o (IF isServiceTypeCFQuery(form) THEN List(AtMost(n, NUM_SERVICE_CLASSES),
                                           CallForwardInfo)
                         ELSE List(SS_INFO_MAX, <<I>>)))
(* A record that is too long, a T53 release or an unknown one: the records *)
(* before it have been written, and the event is dropped.  Of more records *)
(* than the array holds the first are written.                             *)
InfoRec(form) ==
    CASE form = "extended display" -> <<I, I, D>>
      [] form = "display" -> <<I, S>>
      [] form = "number" -> <<I, S, I, I, I, I>>
      [] form = "signal" -> <<I>> \o marshallSignalInfoRecord
      [] form = "redirecting" -> <<I, S, I, I, I, I, I>>
      [] form = "line control" -> <<I, I, I, I, I>>
      [] form = "clir" -> <<I, I>>
      [] form = "audio control" -> <<I, I, I>>
InfoRecs == {"extended display", "display", "number", "signal", "redirecting",
             "line control", "clir", "audio control"}
responseCdmaInformationRecords(n, ragged, form) ==
    IF ragged \/ (n > 0 /\ form \notin InfoRecs) THEN Invalid
    ELSE <<I>> \o (IF n = 0 THEN <<>>
                   ELSE Times(AtMost(n, RIL_CDMA_MAX_NUMBER_OF_INFO_RECS),
                              InfoRec(form)))

(* s_unsolResponses: the events of the board's build.                      *)
Events == (1000..1036) \cup {1039, 1040, 1041}
UnsolResponse(e, n, ragged, form, v) ==
    CASE e \in {1003, 1004, 1008, 1013, 1014, 1040} -> responseString
      [] e \in {1005, 1015, 1023, 1026, 1029, 1031, 1032, 1034, 1035, 1041} ->
           responseInts(n, ragged)
      [] e = 1006 -> responseStrings(n, ragged)
      [] e = 1009 -> responseRilSignalStrength(form)
      [] e = 1010 -> responseDataCallList(n, ragged, v)
      [] e = 1011 -> responseSsn(ragged)
      [] e = 1017 -> responseSimRefresh
      [] e = 1018 -> responseCallRing(n, ragged)
      [] e = 1020 -> Whole(ragged, responseCdmaSms(n))
      [] e \in {1021, 1028} -> responseRaw(n)
      [] e = 1025 -> responseCdmaCallWaiting
      [] e = 1027 -> responseCdmaInformationRecords(n, ragged, form)
      [] e = 1039 -> responseSSData(n, ragged, form)
      [] OTHER -> responseVoid
(* The number an event has for the client.                                 *)
ToClient(e) ==
    CASE e = 1036 -> 1037 [] e = 1039 -> 1043 [] e = 1040 -> 1044
      [] e = 1041 -> 1038 [] OTHER -> e

Response(c, n, ragged, form, v) ==
    CASE c = 1 -> responseSimStatus(n, ragged)
      [] c = 9 -> responseCallList(n, ragged, form, v)
      [] c = 19 -> responseRilSignalStrength(form)
      [] c = 27 -> responseSetupDataCall(n, ragged, v)
      [] c = 33 -> responseCallForwards(n, ragged)
      [] c = 57 -> responseDataCallList(n, ragged, v)
      [] c = 59 -> responseRaw(n)
      [] c = 75 -> responseCellList(n, ragged)
      [] c = 89 -> responseGsmBrSmsCnf(n)
      [] c = 92 -> responseCdmaBrSmsCnf(n)
      [] c \in {25, 26, 87, 110} -> responseSMS(ragged)
      [] c \in {28, 107} -> responseSIM_IO(ragged)
      [] c \in {11, 38, 39, 51, 67, 69, 100, 105} -> responseString
      [] c \in {20, 21, 22, 48, 60, 95, 98} -> responseStrings(n, ragged)
      [] c \in (2..8) \cup {18, 31, 35, 42, 43, 45, 54, 55, 56, 63, 66, 74, 79,
                            81, 83, 96, 104, 108, 109} ->
           responseInts(n, ragged)
      [] OTHER -> responseVoid

-----------------------------------------------------------------------------
(* The client: JSRQualcommRIL.  Its requests that go out in a layout of    *)
(* its own, the ones it answers itself instead of sending, and the card    *)
(* status it reads with the board's ro.telephony.ril.v3 features.          *)
getIMSI == <<I, S>>
setNetworkSelectionModeManual == <<I, S, S>>
iccIO == <<I, I, S, I, I, I, S, S, S>>
NotSupported == {109, 110, 111}     \* getCellInfoList and its two companions
oldRilFeatures == {"skippinpukcount", "qcomdsds", "simactivation"}
pinPukCount ==
    IF "skippinpukcount" \in oldRilFeatures THEN <<>> ELSE <<I, I>>
responseIccCardStatus(n) ==
    <<I, I, I, I, I, I>>
      \o Times(AtMost(n, CARD_MAX_APPS),
               <<I, I, I, S, S, I, I>> \o pinPukCount \o <<I>> \o pinPukCount)
(* What the client's numbers mean (rilj.h), where they mean something to   *)
(* the vendor: the same command up to 108.                                 *)
Meaning(id) ==
    CASE id \in 1..108 -> id
      [] id = 112 -> 109 [] id = 113 -> 110 [] id = 122 -> 118
      [] OTHER -> Unsupported
ClientIds == (1..136) \cup {10119, 10120, 10121, 10122, 11114}

(* A client's number that no command has as its own is taken for the       *)
(* vendor's: 118, which the client calls 122, runs SET_UICC_SUBSCRIPTION.  *)
Misread == {118}

-----------------------------------------------------------------------------
VARIABLES
    version,    \* of the vendor library, s_callbacks[0].version
    sent,       \* the client's request
    fate,       \* "idle", "sent", "unsupported", "invalid", "vendor", "done",
                \* "event" or "dropped"
    command,    \* pCI of the request
    missing,    \* the items the vendor was given that the client did not send
    reply       \* what the response function wrote

codecVars == <<version, sent, fate, command, missing, reply>>

NoRequest == [id |-> Unsupported, n |-> 0, form |-> "plain", items |-> 0]
CodecInit ==
    /\ version \in Versions
    /\ sent = NoRequest /\ fate = "idle" /\ command = Unsupported
    /\ missing = {} /\ reply = <<>>

Forms(c) == CASE c = 10 -> {"plain", "uus"}
              [] c = 110 -> {"3GPP", "3GPP2", "other"}
              [] OTHER -> {"plain"}
CountsOf(c) ==
    IF HandlerOf(c) = "Strings" THEN Counts \cup {-1}  \* a null array
    ELSE IF HandlerOf(c) \in {"Ints", "CdmaSms", "ImsSms", "GsmBrSmsCnf",
                              "CdmaBrSmsCnf", "DataCall"} THEN Counts ELSE {0}

(* A client writes a request, or leaves its last items out, as a client of *)
(* an older version of the interface does.  What it means by a number that *)
(* is misread is not known: it writes up to what will be read.             *)
Written(id) == IF id \in Misread THEN id ELSE Meaning(id)
ClientSends ==
    /\ fate = "idle"
    /\ \E id \in ClientIds \ NotSupported :
       \E n \in CountsOf(Written(id)), form \in Forms(Written(id)) :
       \E k \in 0..Len(Items(Program(Written(id), n, form, version))) :
         sent' = [id |-> id, n |-> n, form |-> form, items |-> k]
    /\ fate' = "sent"
    /\ UNCHANGED <<version, command, missing, reply>>

(* processCommandBuffer: find the command and run its dispatch function.   *)
processCommandBuffer ==
    /\ fate = "sent" /\ command' = Translate(sent.id)
    /\ IF command' = Unsupported
         THEN fate' = "unsupported" /\ UNCHANGED missing
         ELSE LET p == Program(command', sent.n, sent.form, version)
              IN IF Passes(p, sent.items)
                   THEN /\ fate' = "vendor"
                        /\ missing' = {p[i] : i \in Missing(p, sent.items)}
                   ELSE fate' = "invalid" /\ UNCHANGED missing
    /\ UNCHANGED <<version, sent, reply>>

(* The vendor completes the request with an answer.                        *)
RIL_onRequestComplete ==
    /\ fate = "vendor"
    /\ \E n \in Counts, ragged \in BOOLEAN,
          form \in {"plain", "uus", "short", "v5", "v6", "v7"} :
         /\ (command = 19) <=> form \in {"short", "v5", "v6", "v7"}
         /\ reply' = Response(command, n, ragged, form, version)
         /\ sent' = [sent EXCEPT !.n = n, !.form = form]
    /\ fate' = "done"
    /\ UNCHANGED <<version, command, missing>>

EventForms(e) ==
    CASE e = 1009 -> {"short", "v5", "v6", "v7"}
      [] e = 1027 -> InfoRecs \cup {"unknown"}
      [] e = 1039 -> {"plain", "CF query"}
      [] OTHER -> {"plain"}
(* The vendor sends an event; one that does not fit its format is dropped. *)
RIL_onUnsolicitedResponse ==
    /\ fate = "idle"
    /\ \E e \in Events, n \in Counts, ragged \in BOOLEAN :
       \E form \in EventForms(e) :
         LET items == UnsolResponse(e, n, ragged, form, version)
         IN /\ fate' = IF items = Invalid THEN "dropped" ELSE "event"
            /\ reply' = items
            /\ sent' = [NoRequest EXCEPT !.id = ToClient(e), !.n = n, !.form = form]
    /\ UNCHANGED <<version, command, missing>>

CodecNext ==
    \/ ClientSends \/ processCommandBuffer
    \/ RIL_onRequestComplete \/ RIL_onUnsolicitedResponse

CodecSpec == CodecInit /\ [][CodecNext]_codecVars

(* A request that leaves trailing items out reaches the vendor library     *)
(* only if every number it is handed came from the client: testing the     *)
(* status of the last read alone is enough, in every function, for all     *)
(* the reads before it.  Strings and raw data may be missing, as NULL.     *)
NoMadeUpNumbers == missing \cap {I, B} = {}

(* The two ends agree on the wire.  A client's number reaches the command  *)
(* it means or is refused, 118 excepted, which runs a command the client   *)
(* has another number for; the client's own layouts are what libril reads; *)
(* it reads the whole card status libril wrote, and the records that       *)
(* travel both ways have one layout.                                       *)
WireAgrees ==
    /\ fate \in {"unsupported", "invalid", "vendor", "done"}
         /\ sent.id \notin Misread => command = Meaning(sent.id)
    /\ getIMSI = Items(Program(11, 1, "plain", version))
    /\ setNetworkSelectionModeManual = Items(Program(47, 2, "plain", version))
    /\ iccIO = Items(Program(28, 0, "plain", version))
    /\ fate = "done" /\ command = 1 /\ reply # Invalid =>
         /\ reply = responseIccCardStatus(sent.n)
    /\ fate = "done" /\ command \in {89, 92} =>
         reply = Items(Program(command + 1, sent.n, "plain", version))
    /\ fate = "done" /\ command = 33 /\ reply # Invalid /\ sent.n > 0 =>
         SubSeq(reply, 2, 7) = Items(Program(34, 0, "plain", version))
    /\ fate = "event" /\ sent.id = 1020 =>
         reply = Items(constructCdmaSms(sent.n))

(* No number is misread: "Translate RILJ req_id to RILC req_id".  118 is.  *)
NumbersMeant ==
    fate \in {"unsupported", "invalid", "vendor", "done"} =>
      command = Meaning(sent.id)
=============================================================================
