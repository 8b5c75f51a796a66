------------------------------ MODULE LocXtra ------------------------------
(***************************************************************************)
(* XTRA injection (libloc_api/loc_eng_xtra.cpp): the buffered file goes to *)
(* the modem in parts of XTRA_BLOCK_SIZE bytes, numbered from 1 in a       *)
(* uint8, at an offset kept in a uint16; three attempts.  The sizes are    *)
(* scaled down; the limits of the integers are constants, in the order of  *)
(* the code's: the offset wraps before the part number does.  The code     *)
(* does not test the length.                                               *)
(***************************************************************************)
EXTENDS Naturals, Sequences

CONSTANTS
    XTRA_BLOCK_SIZE, UINT8, UINT16,     \* 1024, 256 and 65536
    XtraLengths,                        \* lengths of the file
    MaxParts                            \* bound on the parts of one attempt

ASSUME LocXtraAssumption ==
    /\ XTRA_BLOCK_SIZE \in Nat \ {0} /\ UINT8 \in Nat \ {0}
    /\ UINT16 \in Nat \ {0}
    /\ UINT16 = (UINT16 \div XTRA_BLOCK_SIZE) * XTRA_BLOCK_SIZE
    /\ UINT16 \div XTRA_BLOCK_SIZE < UINT8
    /\ XtraLengths \subseteq Nat \ {0} /\ MaxParts \in Nat

VARIABLES
    length,             \* xtra_data_len
    part, len_injected, \* the loop of qct_loc_eng_inject_xtra_data_one
    tries,              \* attempts of qct_loc_eng_inject_xtra_data
    parts,              \* accepted by the modem: first byte and length
    result              \* "running", "ok" or "EIO"

xtraVars == <<length, part, len_injected, tries, parts, result>>

PartsOffByOne == length \div XTRA_BLOCK_SIZE + 1
total_parts == (length - 1) \div XTRA_BLOCK_SIZE + 1
PartLen == IF XTRA_BLOCK_SIZE > length - len_injected
             THEN length - len_injected ELSE XTRA_BLOCK_SIZE

XtraInit ==
    /\ length \in XtraLengths /\ part = 1 /\ len_injected = 0
    /\ tries = 1 /\ parts = <<>> /\ result = "running"

(* A part before the last: loc_ioctl, without waiting for a callback.  A   *)
(* part number that cannot reach the last one starts again from 0.         *)
InjectPart ==
    /\ result = "running" /\ part < total_parts /\ Len(parts) < MaxParts
    /\ parts' = Append(parts, [first |-> len_injected, len |-> PartLen])
    /\ part' = (part + 1) % UINT8
    /\ len_injected' = (len_injected + PartLen) % UINT16
    /\ UNCHANGED <<length, tries, result>>

(* The last part: loc_eng_ioctl waits for the outcome.                     *)
InjectLast ==
    /\ result = "running" /\ part = total_parts
    /\ parts' = Append(parts, [first |-> len_injected, len |-> PartLen])
    /\ result' = "ok"
    /\ UNCHANGED <<length, part, len_injected, tries>>

(* A part failed: start again, three times in all.                         *)
InjectFails ==
    /\ result = "running"
    /\ IF tries < 3
         THEN /\ tries' = tries + 1 /\ part' = 1 /\ len_injected' = 0
              /\ parts' = <<>> /\ UNCHANGED result
         ELSE result' = "EIO" /\ UNCHANGED <<tries, part, len_injected, parts>>
    /\ UNCHANGED length

XtraNext == InjectPart \/ InjectLast \/ InjectFails

XtraSpec == XtraInit /\ [][XtraNext]_xtraVars

(* The parts are the file, whole and in order, none of them empty.         *)
Whole ==
    /\ \A i \in DOMAIN parts : /\ parts[i].len > 0
                               /\ parts[i].first = (i - 1) * XTRA_BLOCK_SIZE
    /\ parts[Len(parts)].first + parts[Len(parts)].len = length
    /\ Len(parts) * XTRA_BLOCK_SIZE < length + XTRA_BLOCK_SIZE

(* What an injection that succeeds has sent, whatever failed on the way:   *)
(* the file, whole, exactly if its length is at most the limit of the      *)
(* uint16 offset.  A longer one succeeds as well, having sent the file's   *)
(* beginning again where the offset wrapped; and one of more parts than    *)
(* the uint8 part number counts never succeeds: its loop does not end.     *)
XtraWhole ==
    result = "ok" => total_parts < UINT8 /\ (Whole <=> length <= UINT16)
=============================================================================
