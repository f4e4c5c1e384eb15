---------------------------- MODULE MCIoMemAccesses ----------------------------
EXTENDS MCIoMem

(* Two questions asked in one run: a behaviour is about stores or about    *)
(* accesses, and its host and its core issue the requests of that one.     *)
VARIABLE scenario

Scenario == {"stores", "accesses"}
HostOf == [s \in Scenario |-> IF s = "stores" THEN StoreHost ELSE AccessHost]
CoreOf == [s \in Scenario |-> IF s = "stores" THEN StoreCore ELSE AccessCore]
BothHost == HostOf["stores"] \union HostOf["accesses"]
BothCore == CoreOf["stores"] \union CoreOf["accesses"]

ScenarioInit == scenario \in Scenario /\ Init
ScenarioNext ==
  /\ Next /\ UNCHANGED scenario
  /\ axi' \in HostOf[scenario] \union {NoRequest, axi}
  /\ dmem' \in CoreOf[scenario] \union {NoDmem}
ScenarioSpec == ScenarioInit /\ [][ScenarioNext]_<<vars, scenario>>
=============================================================================
