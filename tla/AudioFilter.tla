---------------------------- MODULE AudioFilter ----------------------------
(***************************************************************************)
(* The acoustic filters of AudioHardware.cpp: AudioFilter.csv is parsed    *)
(* line by line when the HAL is made (get_audpp_filter and                 *)
(* check_and_set_audpp_parameters), and msm72xx_enable_postproc and        *)
(* msm72xx_enable_preproc load what was parsed into the driver.            *)
(*                                                                         *)
(* A line is its letter, its table number, whether it has all the fields   *)
(* its kind needs, and its flag; the parameters between are left out.      *)
(***************************************************************************)
EXTENDS Integers, FiniteSets

CONSTANTS MaxLines,     \* lines of AudioFilter.csv
          MaxFilterOps, \* bound: uses of the filters
          Devices,      \* 1 the speaker, 2 the handset, 3 the headset
          Rates         \* indices of sample rates, a subset of 1..9

ASSUME FilterAssumption == 1 \in Devices /\ Devices \subseteq 1..3 /\ Rates \subseteq 1..9

(* How a line of each table is read: whether its letter alone makes the    *)
(* table exist, whether its flag is read before the last of its fields,    *)
(* and whether a flag of 0 leaves an earlier one (the preprocessing mask). *)
RX_IIR == [exists |-> FALSE, flagEarly |-> TRUE, sticky |-> FALSE]
ADRC == [exists |-> TRUE, flagEarly |-> TRUE, sticky |-> FALSE]
EQ == [exists |-> FALSE, flagEarly |-> TRUE, sticky |-> FALSE]
MBADRC == [exists |-> TRUE, flagEarly |-> FALSE, sticky |-> FALSE]
TX_IIR == [exists |-> FALSE, flagEarly |-> FALSE, sticky |-> TRUE]
AGC == [exists |-> FALSE, flagEarly |-> FALSE, sticky |-> TRUE]
NS == [exists |-> FALSE, flagEarly |-> FALSE, sticky |-> TRUE]
PostKinds == {"A", "B", "C", "D"}    \* per device
PreKinds == {"E", "F", "G"}          \* per sample rate
Table == [A |-> RX_IIR, B |-> ADRC, C |-> EQ, D |-> MBADRC,
          E |-> TX_IIR, F |-> AGC, G |-> NS]
(* The playback thread, in write and standby, and a thread that routes.    *)
PostThreads == {"write", "route"}
Slots == (PostKinds \X Devices) \cup (PreKinds \X Rates)

VARIABLES
    lines,      \* lines parsed
    parsed,     \* slots whose line was complete
    exists,     \* adrc_filter_exists, mbadrc_filter_exists
    flag,       \* slots whose flag is not 0; for PreKinds: enable_preproc_mask
    inited,     \* "parsing", then audpp_filter_inited: "yes" or "no"
    audpp,      \* the driver's post-processing: device and enabled features
    audpre,     \* the driver's pre-processing: sample rate and features
    mask,       \* post_proc_feature_mask, which no lock protects
    post,       \* of each thread in msm72xx_enable_postproc: the device whose
                \* tables it has loaded, else 0
    overwritten,\* threads whose mask another has assigned since they filtered
    raw,        \* the driver was given such a mask last
    filterOps   \* uses of the filters so far

postVars == <<mask, post, overwritten, raw, filterOps>>
filterVars == <<lines, parsed, exists, flag, inited, audpp, audpre, postVars>>

Off == [of |-> 0, on |-> {}]
FilterInit ==
    /\ lines = 0 /\ parsed = {} /\ exists = {} /\ flag = {}
    /\ inited = "parsing" /\ audpp = Off /\ audpre = Off
    /\ mask = {} /\ post = [t \in PostThreads |-> 0] /\ overwritten = {} /\ raw = FALSE
    /\ filterOps = 0

(* One line; any failure ends the parsing.                                 *)
Flagged(slot, on) ==
    IF on THEN flag \cup {slot}
    ELSE IF Table[slot[1]].sticky THEN flag ELSE flag \ {slot}
Complete(slot, on) ==
    parsed' = parsed \cup {slot} /\ flag' = Flagged(slot, on) /\ inited' = inited
Interrupted(slot, on) ==
    /\ parsed' = parsed \ {slot}
    /\ flag' \in {flag} \cup (IF Table[slot[1]].flagEarly
                             THEN {Flagged(slot, on)} ELSE {})
Continued(slot, on) == Interrupted(slot, on) /\ UNCHANGED inited     \* faulty variant
Truncated(slot, on) == Interrupted(slot, on) /\ inited' = "no"
Exists(slot) == IF Table[slot[1]].exists THEN exists \cup {slot} ELSE exists
check_and_set_audpp_parameters(slot, whole, on) ==
    /\ exists' = Exists(slot)
    /\ IF whole THEN Complete(slot, on) ELSE Truncated(slot, on)
ParseLine ==
    /\ inited = "parsing" /\ lines < MaxLines /\ lines' = lines + 1
    /\ \/ \E slot \in Slots, whole \in BOOLEAN, on \in BOOLEAN :
            check_and_set_audpp_parameters(slot, whole, on)
       \/ UNCHANGED <<parsed, exists, flag, inited>>    \* not a table
       \/ inited' = "no" /\ UNCHANGED <<parsed, exists, flag>>
                                    \* a sample rate that is none of the nine
    /\ UNCHANGED <<audpp, audpre, postVars>>
(* The file could be opened and mapped, and its last line is done.         *)
get_audpp_filter ==
    /\ inited = "parsing"
    /\ \E ok \in (IF lines = 0 THEN BOOLEAN ELSE {TRUE}) :
         inited' = IF ok THEN "yes" ELSE "no"
    /\ UNCHANGED <<lines, parsed, exists, flag, audpp, audpre, postVars>>

(* What msm72xx_enable_postproc leaves of the mask: of MBADRC and ADRC the *)
(* first that exists is used; if neither does, the mask that is meant to   *)
(* disable both disables nothing.  Every sound device but the handset and  *)
(* the headset uses the tables of the speaker.                             *)
device_id(d) == IF d \in Devices THEN d ELSE 1
HasFlag(f, d) == <<f, d>> \in flag
Features(want, d) ==
    LET drc == IF <<"D", d>> \in exists
                 THEN {f \in {"D"} : HasFlag(f, d)}
               ELSE IF <<"B", d>> \in exists
                 THEN {f \in {"B"} : HasFlag(f, d)} ELSE {"B", "D"}
    IN want \cap (drc \cup {f \in {"A", "C"} : HasFlag(f, d)})

UsesFilters == filterOps < MaxFilterOps /\ filterOps' = filterOps + 1

(* doRouting and the write that starts the playback assign the shared mask *)
(* that is wanted: empty at first, every feature once a route was set.     *)
AssignMask(t) ==
    /\ inited # "parsing" /\ post[t] = 0 /\ UsesFilters
    /\ mask' \in {{}, PostKinds}
    /\ overwritten' = overwritten \cup {u \in PostThreads : post[u] # 0}
    /\ UNCHANGED <<lines, parsed, exists, flag, inited, audpp, raw, audpre, post>>

(* msm72xx_enable_postproc(true): features are taken from the mask and the *)
(* tables of the others loaded, ...                                        *)
LoadPost(t) ==
    /\ inited = "yes" /\ post[t] = 0 /\ UsesFilters
    /\ \E d \in {device_id(x) : x \in 1..4} :
         post' = [post EXCEPT ![t] = d] /\ mask' = Features(mask, d)
    /\ overwritten' = overwritten \ {t}
    /\ UNCHANGED <<lines, parsed, exists, flag, inited, audpp, raw, audpre>>

(* ... then the mask goes to the driver, as it is by then; it may refuse.  *)
EnablePost(t) ==
    /\ post[t] # 0 /\ post' = [post EXCEPT ![t] = 0]
    /\ \/ audpp' = [of |-> post[t], on |-> mask] /\ raw' = (t \in overwritten)
       \/ UNCHANGED <<audpp, raw>>
    /\ UNCHANGED <<lines, parsed, exists, flag, inited, audpre, mask, overwritten,
                   filterOps>>

(* msm72xx_enable_postproc(false), and the early returns: without          *)
(* audio.legacy.postproc, tables or a sound device the mask is emptied and *)
(* the driver stays as it is.                                              *)
LeavePost(t) ==
    /\ inited # "parsing" /\ post[t] = 0 /\ mask' = {} /\ UsesFilters
    /\ \/ UNCHANGED <<audpp, raw>>
       \/ inited = "yes" /\ audpp' = Off /\ raw' = FALSE
    /\ UNCHANGED <<lines, parsed, exists, flag, inited, audpre, post, overwritten>>

calculate_audpre_table_index == Rates
msm72xx_enable_preproc ==
    /\ inited # "parsing" /\ UsesFilters
    /\ \E state \in BOOLEAN, r \in calculate_audpre_table_index :
         audpre' = IF inited = "no" THEN audpre
                   ELSE [of |-> r,
                         on |-> IF state THEN {f \in PreKinds : <<f, r>> \in flag}
                                         ELSE {}]
    /\ UNCHANGED <<lines, parsed, exists, flag, inited, audpp, mask, post, overwritten, raw>>

FilterNext ==
    \/ ParseLine \/ get_audpp_filter \/ msm72xx_enable_preproc
    \/ \E t \in PostThreads :
         AssignMask(t) \/ LoadPost(t) \/ EnablePost(t) \/ LeavePost(t)

FilterSpec == FilterInit /\ [][FilterNext]_filterVars

(* A filter runs in the driver only with the parameters of a line that was *)
(* read to its end, whatever lines came before and after, for the device   *)
(* or the sample rate it runs for.  ADRC and MBADRC are left out where     *)
(* neither table exists: the code enables both then.  So is what the       *)
(* driver was given after another thread had assigned the mask between its *)
(* filtering and its use.                                                  *)
Parsed(f, d) ==
    f \in {"A", "C"} \/ <<f, d>> \in exists => <<f, d>> \in parsed
FiltersWhole ==
    /\ raw \/ \A f \in audpp.on : Parsed(f, audpp.of)
    /\ \A f \in audpre.on : <<f, audpre.of>> \in parsed

(* The mask that goes to the driver is always the filtered one.            *)
MaskFiltered == ~raw

(* With neither table both are off.                                        *)
NoDrcWithoutTable ==
    \A f \in audpp.on \cap {"B", "D"} : <<f, audpp.of>> \in parsed
=============================================================================
