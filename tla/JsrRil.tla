------------------------------- MODULE JsrRil -------------------------------
(***************************************************************************)
(* The radio state and the card in JSRQualcommRIL.java: the radio states   *)
(* libril sends up (processRadioState in ril.cpp), the IccHandler each     *)
(* power-on starts, a looper thread with a message queue, and the card     *)
(* status it asks for.  The modem, and the requests and notifications of   *)
(* the super class, are external.                                          *)
(***************************************************************************)
EXTENDS Integers, Sequences

CONSTANTS MaxRadio,     \* changes of the radio state
          MaxCards      \* changes of the card

RADIO_STATE_OFF == 0
RADIO_STATE_UNAVAILABLE == 1
RADIO_STATE_ON == 10
IccHandlers == 1..MaxRadio

VARIABLES
    radio,      \* the vendor library's radio state
    changes,    \* how often it changed
    card,       \* changes of the card so far
    up,         \* radio states on their way to the client
    belief,     \* mState in the client: "OFF", "UNAVAILABLE", "ON", "DEAD"
    icc,        \* mIccHandler: the current one, or 0
    handlers,   \* how many IccHandlers have been started
    mRadioOn,   \* of each
    mail,       \* the message queue of each
    asks,       \* getIccCardStatus requests under way: handler and message
    seen        \* the card state in the last EVENT_GET_ICC_STATUS_DONE

jsrVars == <<radio, changes, card, up, belief, icc, handlers, mRadioOn, mail,
             asks, seen>>

JsrInit ==
    /\ radio = RADIO_STATE_UNAVAILABLE /\ changes = 0 /\ card = 0 /\ up = <<>>
    /\ belief = "UNAVAILABLE" /\ icc = 0 /\ handlers = 0
    /\ mRadioOn = [h \in IccHandlers |-> FALSE]
    /\ mail = [h \in IccHandlers |-> <<>>]
    /\ asks = {} /\ seen = 0

(* The states a vendor library of the old kind uses for a radio that is on *)
(* reach the client as RADIO_STATE_ON.                                     *)
PassThrough(s) == s                                                 \* faulty variant
processRadioState(s) ==
    IF s > RADIO_STATE_UNAVAILABLE /\ s < RADIO_STATE_ON
      THEN RADIO_STATE_ON ELSE s

IsOn == radio > RADIO_STATE_UNAVAILABLE
Started(h) == h <= handlers
Post(h, msg) == [mail EXCEPT ![h] = Append(@, msg)]

(* registerForIccStatusChanged is never undone: every handler ever started *)
(* is notified.                                                            *)
NotifyIcc ==
    mail' = [h \in IccHandlers |->
               IF Started(h) THEN Append(mail[h], [what |-> "ICC_STATUS_CHANGED",
                                                   card |-> 0])
                             ELSE mail[h]]

(* The modem: the radio changes state, the card changes while it is on.  A *)
(* modem that was unavailable reports its card anew.                       *)
ModemRadio ==
    /\ changes < MaxRadio /\ changes' = changes + 1
    /\ \E s \in {0, 1, 4, 9, 10} \ {radio} :
         /\ radio' = s /\ up' = Append(up, processRadioState(s))
         /\ IF radio = RADIO_STATE_UNAVAILABLE /\ s > radio
              THEN card' = card + 1 /\ NotifyIcc
              ELSE UNCHANGED <<card, mail>>
    /\ UNCHANGED <<belief, icc, handlers, mRadioOn, asks, seen>>
ModemCard ==
    /\ IsOn /\ card < MaxCards /\ card' = card + 1
    /\ NotifyIcc
    /\ UNCHANGED <<radio, changes, up, belief, icc, handlers, mRadioOn, asks,
                   seen>>

(* processUnsolicited, RADIO_STATE_CHANGED: setRadioStateFromRILInt.  A    *)
(* state it does not know is a RuntimeException in the receiver thread.    *)
StartIccHandler ==
    /\ handlers' = handlers + 1 /\ icc' = handlers + 1
    /\ asks' = asks \cup {[h |-> handlers + 1, what |-> "RADIO_ON"]}
setRadioStateFromRILInt(s) ==
    \/ s = RADIO_STATE_OFF /\ belief' = "OFF" /\ icc' = 0
       /\ UNCHANGED <<handlers, asks>>
    \/ s = RADIO_STATE_UNAVAILABLE /\ belief' = "UNAVAILABLE"
       /\ UNCHANGED <<icc, handlers, asks>>
    \/ /\ s \in {2, 10, 13} /\ belief' = "ON"
       /\ IF icc = 0 THEN StartIccHandler ELSE UNCHANGED <<icc, handlers, asks>>
    \/ s \notin {0, 1, 2, 10, 13} /\ belief' = "DEAD"
       /\ UNCHANGED <<icc, handlers, asks>>
processUnsolicited ==
    /\ up # <<>> /\ belief # "DEAD"
    /\ setRadioStateFromRILInt(Head(up)) /\ up' = Tail(up)
    /\ UNCHANGED <<radio, changes, card, mRadioOn, mail, seen>>

(* The modem answers: with the card while the radio is on, with an error   *)
(* otherwise.  The message goes to the handler either way.                 *)
Answered ==
    /\ \E a \in asks :
         /\ asks' = asks \ {a}
         /\ mail' = Post(a.h, [what |-> a.what, card |-> IF IsOn THEN card ELSE 0])
    /\ UNCHANGED <<radio, changes, card, up, belief, icc, handlers, mRadioOn,
                   seen>>

(* IccHandler.handleMessage.  Nothing posts EVENT_RADIO_OFF_OR_UNAVAILABLE,*)
(* so a handler's mRadioOn stays set.  A card whose application is ready   *)
(* or waits for a PIN makes the radio state ON; others change nothing.     *)
EVENT_RADIO_ON(h) == mRadioOn' = [mRadioOn EXCEPT ![h] = TRUE]
GET_ICC_STATUS_DONE(msg) ==
    IF msg.card = 0 THEN UNCHANGED <<belief, seen>>
    ELSE seen' = msg.card /\ belief' \in {belief, "ON"}
handleMessage(h) ==
    /\ mail[h] # <<>> /\ belief # "DEAD"
    /\ LET msg == Head(mail[h])
           rest == [mail EXCEPT ![h] = Tail(@)]
       IN \/ /\ msg.what = "RADIO_ON" /\ EVENT_RADIO_ON(h)
             /\ mail' = [rest EXCEPT ![h] = Append(@, [what |->
                           "ICC_STATUS_CHANGED", card |-> 0])]
             /\ UNCHANGED <<belief, seen, asks>>
          \/ /\ msg.what = "ICC_STATUS_CHANGED"
             /\ asks' = IF mRadioOn[h] THEN asks \cup {[h |-> h, what |-> "DONE"]}
                                       ELSE asks
             /\ mail' = rest /\ UNCHANGED <<belief, seen, mRadioOn>>
          \/ /\ msg.what = "DONE" /\ GET_ICC_STATUS_DONE(msg)
             /\ mail' = rest /\ UNCHANGED <<mRadioOn, asks>>
    /\ UNCHANGED <<radio, changes, card, up, icc, handlers>>

JsrNext ==
    \/ ModemRadio \/ ModemCard \/ processUnsolicited \/ Answered
    \/ \E h \in IccHandlers : handleMessage(h)

(* The receiver thread and the looper threads run, the modem answers.      *)
JsrFairness ==
    /\ WF_jsrVars(processUnsolicited) /\ WF_jsrVars(Answered)
    /\ \A h \in IccHandlers : WF_jsrVars(handleMessage(h))
JsrSpec == JsrInit /\ [][JsrNext]_jsrVars /\ JsrFairness

(* However power-ons, card changes, answers and messages interleave, while *)
(* the radio stays on the client ends up with the card as it is: a change  *)
(* before the handler is registered, or before its radio is on, is not     *)
(* lost, and no radio state stops the receiver thread.                     *)
CardSeen ==
    \A c \in 1..(MaxCards + MaxRadio) : (card >= c /\ []IsOn) ~> (seen >= c)

(* A handler asks for the card status only while the radio is on: "Received*)
(* EVENT_ICC_STATUS_CHANGED while radio is not ON. Ignoring".              *)
IgnoredWhenOff ==
    [][belief # "ON" => \A h \in IccHandlers :
         [h |-> h, what |-> "DONE"] \in asks' =>
         [h |-> h, what |-> "DONE"] \in asks]_jsrVars
=============================================================================
