----------------------------- MODULE MapAllocator -----------------------------
(***************************************************************************)
(* The map allocator of the driver library (ebpf_lib.h): it hands out the  *)
(* two maps of the map unit and the memory behind them, and looks elements *)
(* up for the host.  Sizes are in bits as in the source, and numbers wrap  *)
(* at the widths of the fields.                                            *)
(***************************************************************************)
EXTENDS Integers

CONSTANTS
  Sizes,          \* key and value sizes a caller may ask for
  Entries,        \* numbers of entries a caller may ask for
  PtrMod,         \* 2^12: values of base_ptr
  EntryMod,       \* 2^15: values of max_entries
  UIntMod,        \* 2^32: where an unsigned int wraps
  MaskMod,        \* [0 .. 3 -> 1 + the mask of a key size]
  BPF_MAP_MAX_SIZE

VARIABLES
  map_unit,       \* the registers of the two maps, as the host reads them
  next_ptr,       \* bpf_map_next_ptr_v
  alloc_state,    \* bpf_map_alloc_state_v
  owned,          \* history: how often a map is in the hands of a caller,
  asked           \* and the number of entries it was asked for

vars == <<map_unit, next_ptr, alloc_state, owned, asked>>

MapId == {0, 1}
MapState == {"HALF_TOP", "HALF_BOT", "FULL", "EMPTY"}
NULL == -1

MapEntry ==
  [base_ptr : 0 .. PtrMod - 1, key_size : 0 .. 3, val_size : 0 .. 3,
   max_entries : 0 .. EntryMod - 1, valid : {0, 1}]

(* An entry as the number its bit fields make, lowest field first.         *)
entry_value(e) ==
  e.base_ptr + PtrMod * (e.key_size + 4 * (e.val_size + 4 * (e.max_entries + EntryMod * e.valid)))

get_entry(id) == CHOOSE e \in MapEntry : entry_value(e) = map_unit[id]

(* The register of map 0 is written, with a value that is four times the   *)
(* number of the map too large.                                            *)
set_entry(e, id) ==
  map_unit' = [map_unit EXCEPT ![0] = (entry_value(e) + 4 * id) % (PtrMod * 32 * EntryMod)]

compact_size(sz) == CASE sz = 16 -> 1 [] sz = 32 -> 2 [] sz = 64 -> 3 [] OTHER -> 0
-----------------------------------------------------------------------------
Refuse == UNCHANGED vars

(* Where the memory of the next map would end.                             *)
aux_next_ptr(val_size, max_entries) ==
  (next_ptr + (((val_size * max_entries) % UIntMod) \div 8) * 8) % UIntMod

FirstState == IF next_ptr' = BPF_MAP_MAX_SIZE THEN "FULL" ELSE "HALF_TOP"

CreateMap(key_size, val_size, max_entries) ==
  IF aux_next_ptr(val_size, max_entries) > BPF_MAP_MAX_SIZE \/ alloc_state = "FULL" THEN Refuse
  ELSE LET id == IF alloc_state = "HALF_TOP" THEN 1 ELSE 0 IN
       /\ next_ptr' = aux_next_ptr(val_size, max_entries)
       /\ alloc_state' = IF alloc_state = "EMPTY" THEN FirstState ELSE "FULL"
       /\ set_entry([base_ptr |-> (next_ptr \div 8) % PtrMod,
                     key_size |-> compact_size(key_size), val_size |-> compact_size(val_size),
                     max_entries |-> max_entries % EntryMod, valid |-> 1], id)
       /\ owned' = [owned EXCEPT ![id] = @ + 1]
       /\ asked' = [asked EXCEPT ![id] = max_entries]

GivenBack(id) == owned' = [owned EXCEPT ![id] = 0] /\ UNCHANGED asked

(* The last map goes: what its register held is not read, and the fields   *)
(* other than valid are what memory held.                                  *)
DeleteLast(id) ==
  /\ alloc_state = IF id = 0 THEN "HALF_TOP" ELSE "HALF_BOT"
  /\ next_ptr' = 0 /\ alloc_state' = "EMPTY"
  /\ \E map_reg \in MapEntry : map_reg.valid = 0 /\ set_entry(map_reg, id)
  /\ GivenBack(id)

DeleteOne(id) ==
  /\ alloc_state = "FULL"
  /\ IF id = 1 THEN next_ptr' = get_entry(1).base_ptr * 8 /\ alloc_state' = "HALF_TOP"
               ELSE next_ptr' = 0 /\ alloc_state' = "HALF_BOT"
  /\ set_entry([get_entry(id) EXCEPT !.valid = 0], id)
  /\ GivenBack(id)

DeleteRefused(id) ==
  alloc_state \in {"EMPTY", IF id = 0 THEN "HALF_BOT" ELSE "HALF_TOP"} /\ Refuse

DeleteMap(id) == DeleteLast(id) \/ DeleteOne(id) \/ DeleteRefused(id)

(* The address of an element, relative to the peripheral.                  *)
lookup_elem(id, key) ==
  LET e == get_entry(id)
      key_masked == key % MaskMod[e.key_size]
  IN  IF e.valid = 0 \/ key_masked >= e.max_entries THEN NULL
      ELSE e.base_ptr * 8 + key_masked * 2^e.val_size
-----------------------------------------------------------------------------
(* The state the library starts in is the first of its enumeration.        *)
Init ==
  /\ map_unit = [id \in MapId |-> 0]
  /\ next_ptr = 0 /\ alloc_state = "HALF_TOP"
  /\ owned = [id \in MapId |-> 0] /\ asked = [id \in MapId |-> 0]

Next ==
  \/ \E key_size, val_size \in Sizes, max_entries \in Entries :
       CreateMap(key_size, val_size, max_entries)
  \/ \E id \in MapId : DeleteMap(id)

Spec == Init /\ [][Next]_vars
-----------------------------------------------------------------------------
(* A map that bpf_create_map has returned and nobody has deleted is found: *)
(* bpf_lookup_elem with the key 0 returns an address.                      *)
CreatedIsFound ==
  \A id \in MapId : owned[id] > 0 /\ asked[id] > 0 => lookup_elem(id, 0) # NULL

(* No two callers have the same map, in whatever order maps are created    *)
(* and deleted, the ones nobody has created included.                      *)
MapsNotShared == \A id \in MapId : owned[id] <= 1
=============================================================================
