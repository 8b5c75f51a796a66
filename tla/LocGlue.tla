------------------------------ MODULE LocGlue ------------------------------
(***************************************************************************)
(* The Loc API glue (gen-50000/loc_api_rpc_glue.c): a table of callbacks,  *)
(* indexed by the low word of the callback id the modem echoes, in front   *)
(* of the one RPC client.  A client of the glue is its callback function   *)
(* and the handle it holds; the modem side is external.                    *)
(***************************************************************************)
EXTENDS Naturals

CONSTANTS
    GlueClients,            \* callback functions
    LOC_API_CB_MAX_CLIENTS, \* size of the table
    MaxHandles              \* handles the modem gives out

Index == 0..(LOC_API_CB_MAX_CLIENTS - 1)
NULL == "null"
NoHandle == 0               \* -1, and the error codes of loc_open

ASSUME GlueAssumption ==
    /\ NULL \notin GlueClients
    /\ LOC_API_CB_MAX_CLIENTS \in Nat \ {0} /\ MaxHandles \in Nat

VARIABLES
    clnt,                   \* loc_api_clnt # NULL
    table,                  \* loc_glue_callback_table
    held,                   \* the handle each client works with
    sessions,               \* open at the modem: handle, index and opener
    handles,                \* handles given out
    acted                   \* opener and client of events acted upon

glueVars == <<clnt, table, held, sessions, handles, acted>>

EmptyTable == [i \in Index |-> [cb |-> NULL, handle |-> NoHandle]]

GlueInit ==
    /\ clnt = FALSE /\ table = EmptyTable
    /\ held = [c \in GlueClients |-> NoHandle]
    /\ sessions = {} /\ handles = 0 /\ acted = {}

(* loc_api_glue_init: a fresh table with a new client.                     *)
loc_api_glue_init ==
    /\ ~clnt /\ clnt' \in BOOLEAN
    /\ table' = EmptyTable
    /\ UNCHANGED <<held, sessions, handles, acted>>

(* loc_open: the entry that has the callback already, else the first free  *)
(* one.  The RPC may fail before or after the modem opened the session;    *)
(* then the entry stays taken and keeps its old handle.                    *)
FirstWith(cb) ==
    IF \E i \in Index : table[i].cb = cb
      THEN CHOOSE i \in Index : table[i].cb = cb
                                /\ \A j \in Index : table[j].cb = cb => i <= j
      ELSE LOC_API_CB_MAX_CLIENTS
Slot(c) == IF FirstWith(c) \in Index THEN FirstWith(c) ELSE FirstWith(NULL)

loc_open(c) ==
    /\ clnt /\ Slot(c) \in Index
    /\ LET i == Slot(c) h == handles + 1 IN
       \/ /\ handles < MaxHandles /\ handles' = h
          /\ sessions' = sessions \cup {[handle |-> h, index |-> i, opener |-> c]}
          /\ \/ /\ table' = [table EXCEPT ![i] = [cb |-> c, handle |-> h]]
                /\ held' = [held EXCEPT ![c] = h]
             \/ /\ table' = [table EXCEPT ![i].cb = c]
                /\ held' = [held EXCEPT ![c] = NoHandle]
       \/ /\ table' = [table EXCEPT ![i].cb = c]
          /\ held' = [held EXCEPT ![c] = NoHandle]
          /\ UNCHANGED <<sessions, handles>>
    /\ UNCHANGED <<clnt, acted>>

TooManyClients(c) ==
    /\ clnt /\ Slot(c) \notin Index
    /\ held' = [held EXCEPT ![c] = NoHandle]
    /\ UNCHANGED <<clnt, table, sessions, handles, acted>>

(* loc_close: whatever the RPC did, the first entry with the handle is     *)
(* cleared; if the RPC succeeded the client is destroyed, for everyone.    *)
FirstHandle(h) ==
    CHOOSE i \in Index : table[i].handle = h
                         /\ \A j \in Index : table[j].handle = h => i <= j
loc_close(c) ==
    /\ clnt /\ held[c] # NoHandle
    /\ held' = [held EXCEPT ![c] = NoHandle]
    /\ table' = IF \E i \in Index : table[i].handle = held[c]
                  THEN [table EXCEPT ![FirstHandle(held[c])] =
                                       [cb |-> NULL, handle |-> NoHandle]]
                  ELSE table
    /\ \/ /\ sessions' = {s \in sessions : s.handle # held[c]}
          /\ clnt' = FALSE
       \/ sessions' = sessions /\ clnt' = TRUE
    /\ UNCHANGED <<handles, acted>>

(* rpc_loc_event_cb_f_type_svc finds the function by the index, and        *)
(* loc_event_cb compares the event's handle with its own.                  *)
HandleIgnored(c, h) == TRUE
HandleMatches(c, h) == h = held[c]
rpc_loc_event_cb_f_type_svc(s) ==
    /\ clnt /\ s \in sessions
    /\ LET c == table[s.index].cb IN
       /\ c # NULL
       /\ HandleMatches(c, s.handle)
       /\ acted' = acted \cup {[opener |-> s.opener, client |-> c]}
    /\ UNCHANGED <<clnt, table, held, sessions, handles>>

GlueNext ==
    \/ loc_api_glue_init
    \/ \E c \in GlueClients : loc_open(c) \/ TooManyClients(c) \/ loc_close(c)
    \/ \E s \in sessions : rpc_loc_event_cb_f_type_svc(s)

GlueSpec == GlueInit /\ [][GlueNext]_glueVars

(* No client ever acts on an event of a session that another opened, even  *)
(* though sessions outlive failed closes and the table is rebuilt, with    *)
(* other clients in the entries, while the modem keeps the old indices.    *)
NoForeignEvent == \A a \in acted : a.opener = a.client
=============================================================================
