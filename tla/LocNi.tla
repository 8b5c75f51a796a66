------------------------------- MODULE LocNi -------------------------------
(***************************************************************************)
(* Network-initiated location requests (libloc_api/loc_eng_ni.cpp): the    *)
(* modem asks whether the user agrees to be located; the request is shown, *)
(* a thread waits for the answer or for the timeout, and answers.          *)
(*                                                                         *)
(* Requests are numbered in the order they arrive and the number stands    *)
(* for the random notification id, and for the thread started for it.  A   *)
(* user's answer is three steps: two tests without a lock, and             *)
(* loc_ni_process_user_response under user_cb_data_mutex, which a thread   *)
(* holds except while it waits.  The framework may initialise the          *)
(* interface again at any time, also without a lock.                       *)
(***************************************************************************)
EXTENDS Naturals, Sequences

CONSTANTS
    MaxRequests,        \* requests the modem sends
    MaxInits            \* initialisations after the first

ASSUME LocNiAssumption == MaxRequests \in Nat /\ MaxInits \in Nat

Requests == 1..MaxRequests
Priv == {"NO_NOTIFY", "NOTIFY_ONLY", "VERIFY_ALLOW", "VERIFY_DENY",
         "OVERRIDE"}
Responses == {"ACCEPT", "DENY", "NORESP"}
NoRequest == 0

VARIABLES
    arrived,            \* requests received so far
    shown,              \* request -> notification flags given to the UI
    inProgress, current,\* notif_in_progress and current_notif_id
    saved,              \* loc_ni_request
    received, resp,     \* user_response_received and resp
    thread,             \* request -> its loc_ni_thread_proc
    user, passed,       \* answer on its way; both tests passed
    choice,             \* what the user chose for it
    answers,            \* what the modem was sent: request and response
    chosen,             \* request -> the user's answer
    override,           \* an override has muted the next session
    init, inits,        \* loc_eng_ni_init under way, and how many
    lost                \* requests excused from an answer, see NiServed

niVars == <<arrived, shown, inProgress, current, saved, received, resp, thread,
            user, passed, choice, answers, chosen, override, init, inits, lost>>
niData == <<inProgress, current, saved>>
userVars == <<user, passed, choice, chosen>>
initVars == <<init, inits>>

NiInit ==
    /\ arrived = 0 /\ shown = [r \in Requests |-> {}]
    /\ inProgress = FALSE /\ current = NoRequest /\ saved = NoRequest
    /\ received = FALSE /\ resp = "NORESP"
    /\ thread = [r \in Requests |-> "none"]
    /\ user = NoRequest /\ passed = FALSE /\ choice = "NORESP"
    /\ answers = <<>>
    /\ chosen = [r \in Requests |-> "none"] /\ override = FALSE
    /\ init = "done" /\ inits = 0 /\ lost = {}

(* loc_ni_fill_notif_verify_type *)
NotifyFlags(priv) ==
    CASE priv = "NOTIFY_ONLY" -> {"NOTIFY"}
      [] priv \in {"VERIFY_ALLOW", "VERIFY_DENY"} -> {"NOTIFY", "VERIFY"}
      [] priv = "OVERRIDE" -> {"OVERRIDE"}
      [] OTHER -> {}

(* loc_ni_request_handler: while a request is in progress another one is   *)
(* dropped without an answer; otherwise it is saved, the thread is started *)
(* and the notification goes to the UI, even if there is no thread.  After *)
(* an initialisation the thread of an earlier request may still be there,  *)
(* and the two share the request saved.                                    *)
Busy == inProgress
UnderWay == {r \in Requests : thread[r] \in {"start", "wait", "respond"}}
Notify(r, priv) ==
    /\ shown' = [shown EXCEPT ![r] = NotifyFlags(priv)]
    /\ override' = (override \/ priv = "OVERRIDE")
StartThread(r) ==
    \/ /\ thread' = [thread EXCEPT ![r] = "start"]
       /\ lost' = lost \cup UnderWay \cup (IF UnderWay = {} THEN {} ELSE {r})
    \/ lost' = lost \cup UnderWay \cup {r} /\ UNCHANGED thread
loc_ni_request_handler ==
    /\ arrived < MaxRequests /\ arrived' = arrived + 1
    /\ IF Busy
         THEN UNCHANGED <<shown, niData, thread, override, lost>>
         ELSE /\ saved' = arrived' /\ current' = arrived' /\ inProgress' = TRUE
              /\ \E priv \in Priv : Notify(arrived', priv)
              /\ StartThread(arrived')
    /\ UNCHANGED <<received, resp, userVars, answers, initVars>>

(* loc_eng_ni_respond: the UI answers a notification it was given.         *)
loc_eng_ni_respond(r, c) ==
    /\ user = NoRequest /\ shown[r] # {} /\ chosen[r] = "none"
    /\ chosen' = [chosen EXCEPT ![r] = c]
    /\ IF r = current THEN user' = r /\ choice' = c
                      ELSE UNCHANGED <<user, choice>>
    /\ UNCHANGED <<arrived, shown, niData, received, resp, thread, passed,
                   answers, override, initVars, lost>>

TestInProgress ==
    /\ user # NoRequest /\ ~passed
    /\ IF inProgress THEN passed' = TRUE /\ UNCHANGED user
                     ELSE user' = NoRequest /\ UNCHANGED passed
    /\ UNCHANGED <<arrived, shown, niData, received, resp, thread, choice,
                   chosen, answers, override, initVars, lost>>

(* loc_ni_process_user_response                                            *)
MutexFree == \A r \in Requests : thread[r] # "respond"
loc_ni_process_user_response ==
    /\ user # NoRequest /\ passed /\ MutexFree
    /\ resp' = choice /\ received' = TRUE
    /\ user' = NoRequest /\ passed' = FALSE /\ UNCHANGED <<choice, chosen>>
    /\ UNCHANGED <<arrived, shown, niData, thread, answers, override,
                   initVars, lost>>

(* loc_ni_thread_proc.  Under the mutex: wait unless an answer is there.   *)
To(r, state) == thread' = [thread EXCEPT ![r] = state]
ThreadWait(r) ==
    /\ thread[r] = "start" /\ MutexFree /\ ~received /\ To(r, "wait")
    /\ UNCHANGED <<arrived, shown, niData, received, resp, userVars, answers,
                   override, initVars, lost>>

ThreadAnswered(r) ==
    /\ thread[r] \in {"start", "wait"} /\ MutexFree /\ received
    /\ received' = FALSE /\ To(r, "respond")
    /\ UNCHANGED <<arrived, shown, niData, resp, userVars, answers, override,
                   initVars, lost>>

(* The timeout wins over an answer that came before the mutex was taken.   *)
NoTimeout(r) == FALSE
Expired(r) == thread[r] = "wait"
ThreadTimeout(r) ==
    /\ Expired(r) /\ MutexFree
    /\ resp' = "NORESP" /\ received' = FALSE /\ To(r, "respond")
    /\ UNCHANGED <<arrived, shown, niData, userVars, answers, override,
                   initVars, lost>>

(* loc_ni_respond, still under the mutex; the outcome of the ioctl is not  *)
(* looked at.                                                              *)
ThreadRespond(r) ==
    /\ thread[r] = "respond" /\ To(r, "clear")
    /\ \/ /\ answers' = Append(answers, [request |-> saved, resp |-> resp])
          /\ UNCHANGED lost
       \/ lost' = lost \cup {saved} /\ UNCHANGED answers
    /\ UNCHANGED <<arrived, shown, niData, received, resp, userVars, override,
                   initVars>>

ClearNotif == current' = NoRequest /\ inProgress' = FALSE
ThreadClear(r) ==
    /\ thread[r] = "clear" /\ To(r, "none") /\ ClearNotif
    /\ UNCHANGED <<arrived, shown, saved, received, resp, userVars, answers,
                   override, initVars, lost>>

(* loc_eng_ni_init once more: three assignments without a lock.            *)
loc_eng_ni_init ==
    /\ \/ /\ init = "done" /\ inits < MaxInits /\ inits' = inits + 1
          /\ init' = "current" /\ inProgress' = FALSE
          /\ UNCHANGED <<current, received>>
       \/ /\ init = "current" /\ init' = "received" /\ current' = NoRequest
          /\ UNCHANGED <<inProgress, received, inits>>
       \/ /\ init = "received" /\ init' = "done" /\ received' = FALSE
          /\ UNCHANGED <<inProgress, current, inits>>
    /\ UNCHANGED <<arrived, shown, saved, resp, thread, userVars, answers,
                   override, lost>>

NiThread(r) == ThreadWait(r) \/ ThreadAnswered(r) \/ ThreadTimeout(r)
               \/ ThreadRespond(r) \/ ThreadClear(r)
NiUser == TestInProgress \/ loc_ni_process_user_response
NiNext ==
    \/ loc_ni_request_handler
    \/ \E r \in Requests, c \in Responses : loc_eng_ni_respond(r, c)
    \/ NiUser
    \/ \E r \in Requests : NiThread(r)
    \/ loc_eng_ni_init

NiFairness == WF_niVars(NiUser) /\ \A r \in Requests : WF_niVars(NiThread(r))
NiSpec == NiInit /\ [][NiNext]_niVars /\ NiFairness

-----------------------------------------------------------------------------
NiTypeOK ==
    /\ arrived \in 0..MaxRequests
    /\ {inProgress, received, passed} \subseteq BOOLEAN
    /\ {current, saved, user} \subseteq Requests \cup {NoRequest}
    /\ {resp, choice} \subseteq Responses
    /\ thread \in [Requests -> {"none", "start", "wait", "respond", "clear"}]

(* Every request that is taken up is answered, whether the user answers,   *)
(* answers late or never does and whether or not the interface is          *)
(* initialised meanwhile, and the notification is then released so that    *)
(* the next request can come.  Three kinds of request are lost: one whose  *)
(* thread could not be created, one whose ioctl failed, which is tried     *)
(* once, and two whose threads run together because the interface was      *)
(* initialised in between.                                                 *)
Answered(r) == \E i \in DOMAIN answers : answers[i].request = r
NiServed ==
    \A r \in Requests :
        inProgress /\ saved = r ~> (Answered(r) /\ ~inProgress) \/ r \in lost

(* "Reset the user response flag for the next session": a request is       *)
(* accepted only if the user accepted that request.                        *)
ConsentIsOwn ==
    \A i \in DOMAIN answers :
        answers[i].resp = "ACCEPT" => chosen[answers[i].request] = "ACCEPT"
=============================================================================
