--------------------------- MODULE HelperFunctions ----------------------------
(***************************************************************************)
(* The helper functions unit (hfu/BPF_Helper_Functions_Unit.vhd).  Its one *)
(* function is bpf_map_lookup_elem(map, key): a call is noticed in stage   *)
(* ID, and in stage MEM it reads the register of the map, waiting for the  *)
(* map unit's arbiter, and computes the address of the element.            *)
(***************************************************************************)
EXTENDS Integers

CONSTANTS
  KeyMod(_),      \* KeyMod(keysz): 2^8, 2^16, 2^32, 2^64 in the source
  PtrMod,         \* 2^15: element pointers and keys wrap at the shared memory's end
  Align,          \* 8: a base pointer counts words
  SharedBase      \* 0x9000

ASSUME LookupOK ==
  /\ \A keysz \in 0 .. 3 : KeyMod(keysz) \in Nat \ {0}
  /\ PtrMod \in Nat \ {0} /\ Align \in Nat /\ SharedBase \in Nat

VARIABLES hfu_state, map_info

hfuVars == <<hfu_state, map_info>>

HfuState == {"INIT_S", "ERROR_ID_S", "LOOKUP_EX_S", "LOOKUP_MEM_REQ_S", "LOOKUP_MEM_S"}

(* A map register: valid, max_entries, valsz, keysz and base_ptr.          *)
MapInfo == [valid : BOOLEAN, max_entries : Nat, valsz : 0 .. 3, keysz : 0 .. 3, base_ptr : Nat]
NoMap == [valid |-> FALSE, max_entries |-> 0, valsz |-> 0, keysz |-> 0, base_ptr |-> 0]

LOOKUP_FUNCTION == 0
num_params(function_id) == IF function_id = LOOKUP_FUNCTION THEN 2 ELSE 0

LOOKUP_id(p1) == p1 % 2
LOOKUP_key_masked(info, key) == key % KeyMod(info.keysz)
LOOKUP_error(info, key) == LOOKUP_key_masked(info, key) > info.max_entries \/ ~info.valid
LOOKUP_elem_ptr(info, key) ==
  (info.base_ptr * Align + (LOOKUP_key_masked(info, key) % PtrMod) * 2^info.valsz) % PtrMod

(* The sum with the base has one bit more than an element pointer.         *)
LOOKUP_bus(info, key) ==
  IF LOOKUP_error(info, key) THEN 0
  ELSE (SharedBase + LOOKUP_elem_ptr(info, key)) % (2 * PtrMod)

(* Fault: the unit holds stage MEM before the call is there.               *)
await_MEM_early == hfu_state \in {"LOOKUP_EX_S", "LOOKUP_MEM_REQ_S"}

await_MEM == hfu_state = "LOOKUP_MEM_REQ_S"
MAP_req == hfu_state = "LOOKUP_MEM_REQ_S"
error_function_id == hfu_state = "ERROR_ID_S"

may_dispatch == hfu_state \in {"INIT_S", "LOOKUP_MEM_S"}

HfuInit == hfu_state = "INIT_S" /\ map_info = NoMap

(* Fault: the unit goes idle after a lookup, though a call is in ID.       *)
Dispatch_idle(go_ID, function_id) ==
  /\ may_dispatch
  /\ hfu_state' = IF ~go_ID \/ hfu_state # "INIT_S" THEN "INIT_S"
                  ELSE IF function_id = LOOKUP_FUNCTION THEN "LOOKUP_EX_S" ELSE "ERROR_ID_S"
  /\ UNCHANGED map_info

Dispatch(go_ID, function_id) ==
  /\ may_dispatch
  /\ hfu_state' = IF ~go_ID THEN "INIT_S"
                  ELSE IF function_id = LOOKUP_FUNCTION THEN "LOOKUP_EX_S" ELSE "ERROR_ID_S"
  /\ UNCHANGED map_info

LookupEX(go_EX) ==
  /\ hfu_state = "LOOKUP_EX_S"
  /\ hfu_state' = IF go_EX THEN "LOOKUP_MEM_REQ_S" ELSE "LOOKUP_EX_S"
  /\ UNCHANGED map_info

(* output: what the map unit drives when it is granted.                    *)
LookupMEM(granted, output) ==
  /\ hfu_state = "LOOKUP_MEM_REQ_S"
  /\ IF granted THEN hfu_state' = "LOOKUP_MEM_S" /\ map_info' = output
                ELSE UNCHANGED hfuVars

(* Only a reset leaves the error state.                                    *)
ErrorID == hfu_state = "ERROR_ID_S" /\ UNCHANGED hfuVars

HfuStep(go_ID, go_EX, function_id, granted, output) ==
  \/ Dispatch(go_ID, function_id)
  \/ LookupEX(go_EX)
  \/ LookupMEM(granted, output)
  \/ ErrorID
=============================================================================
