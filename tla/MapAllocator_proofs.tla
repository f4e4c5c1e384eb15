-------------------------- MODULE MapAllocator_proofs --------------------------
(* No two callers of the allocator have the same map.                      *)
EXTENDS MapAllocator, TLAPS

(* The state of the allocator bounds which maps are in a caller's hands:   *)
(* the pointers, the sizes and the registers have no part in it.           *)
StateKnowsOwners ==
  /\ alloc_state \in MapState
  /\ owned \in [MapId -> {0, 1}]
  /\ alloc_state \in {"EMPTY", "HALF_BOT"} => owned[0] = 0
  /\ alloc_state \in {"EMPTY", "HALF_TOP"} => owned[1] = 0

(* A map that is created was in nobody's hands, and the state says who has *)
(* it.                                                                     *)
LEMMA CreateStep ==
  ASSUME StateKnowsOwners, NEW key_size, NEW val_size, NEW max_entries,
         CreateMap(key_size, val_size, max_entries)
  PROVE  StateKnowsOwners'
<1>1. CASE UNCHANGED vars
  BY <1>1 DEF StateKnowsOwners, vars
<1>2. CASE ~UNCHANGED vars
  <2> DEFINE id == IF alloc_state = "HALF_TOP" THEN 1 ELSE 0
  <2>1. /\ alloc_state # "FULL"
        /\ alloc_state' = IF alloc_state = "EMPTY" THEN FirstState ELSE "FULL"
        /\ owned' = [owned EXCEPT ![id] = @ + 1]
    BY <1>2 DEF CreateMap, Refuse
  <2>2. alloc_state' \in {"FULL", "HALF_TOP"} /\ (alloc_state # "EMPTY" => alloc_state' = "FULL")
    BY <2>1 DEF FirstState
  <2>3. id \in MapId /\ owned[id] = 0
    BY <2>1 DEF StateKnowsOwners, MapState, MapId
  <2>4. owned' = [owned EXCEPT ![id] = 1]
    BY <2>1, <2>3
  <2>5. CASE alloc_state = "EMPTY"
    BY <2>2, <2>4, <2>5 DEF StateKnowsOwners, MapState, MapId
  <2>6. CASE alloc_state # "EMPTY"
    BY <2>2, <2>3, <2>4, <2>6 DEF StateKnowsOwners, MapState, MapId
  <2> QED
    BY <2>5, <2>6
<1> QED
  BY <1>1, <1>2

(* A map that is deleted is in nobody's hands, and a refused delete        *)
(* changes nothing.                                                        *)
LEMMA DeleteStep ==
  ASSUME StateKnowsOwners, NEW id \in MapId, DeleteMap(id)
  PROVE  StateKnowsOwners'
<1>1. CASE DeleteLast(id)
  BY <1>1 DEF StateKnowsOwners, DeleteLast, GivenBack, MapState, MapId
<1>2. CASE DeleteOne(id)
  BY <1>2 DEF StateKnowsOwners, DeleteOne, GivenBack, MapState, MapId
<1>3. CASE DeleteRefused(id)
  BY <1>3 DEF StateKnowsOwners, DeleteRefused, Refuse, vars
<1> QED
  BY <1>1, <1>2, <1>3 DEF DeleteMap

(* In whatever order bpf_create_map and bpf_delete_map are called, and     *)
(* whatever a failed or a foreign delete did before, a map that a caller   *)
(* has is not given to another one.                                        *)
THEOREM MapsHaveOneOwner == Spec => []MapsNotShared
<1>1. Init => StateKnowsOwners
  BY DEF Init, StateKnowsOwners, MapState, MapId
<1>2. StateKnowsOwners /\ [Next]_vars => StateKnowsOwners'
  <2> SUFFICES ASSUME StateKnowsOwners, [Next]_vars PROVE StateKnowsOwners'
    OBVIOUS
  <2>1. CASE Next
    BY <2>1, CreateStep, DeleteStep DEF Next
  <2>2. CASE UNCHANGED vars
    BY <2>2 DEF StateKnowsOwners, vars
  <2> QED
    BY <2>1, <2>2
<1>3. StateKnowsOwners => MapsNotShared
  BY DEF StateKnowsOwners, MapsNotShared, MapId
<1> QED
  BY <1>1, <1>2, <1>3, PTL DEF Spec
=============================================================================
