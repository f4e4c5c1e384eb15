------------------------------ MODULE MemoryMap ------------------------------
(***************************************************************************)
(* The address space the BPF peripheral decodes, shared by the modules of  *)
(* the memory system.                                                      *)
(*                                                                         *)
(* A 64-bit memory word is a function from its two 32-bit halves to        *)
(* values.  A half stands for one of its byte lanes: byte lanes never      *)
(* mix, so one representative lane per half is enough to tell which access *)
(* a byte comes from.                                                      *)
(***************************************************************************)
EXTENDS Integers

CONSTANTS
  InstWords,      \* 64-bit words of the instruction memory, 0x0000-0x7FFF
  UnsharedWords,  \* words of the packet and stack memory, 0x8000-0x89FF
  SharedWords,    \* words of the shared memory, 0x9000-0xFFFF
  Val,            \* contents of a half of a word
  Zero            \* what every half holds at power-up

ASSUME WordsDisjoint ==
  /\ InstWords \cap UnsharedWords = {}
  /\ InstWords \cap SharedWords = {}
  /\ UnsharedWords \cap SharedWords = {}

ASSUME ZeroVal == Zero \in Val

Half == {0, 1}
Other(h) == 1 - h

Word == [Half -> Val]
ZeroWord == [h \in Half |-> Zero]

MemWords == InstWords \union UnsharedWords \union SharedWords

(* The three block memories, each with one port.                           *)
Bank == {"inst", "unshared", "shared"}

BankWords == [b \in Bank |-> IF b = "inst" THEN InstWords
                             ELSE IF b = "unshared" THEN UnsharedWords
                             ELSE SharedWords]

(* The 64-bit registers of the control page, 0x8A00-0x8BFF: the control    *)
(* register, the core's input, and the map unit (one map register per      *)
(* half: address bit 2 is the map identifier).                             *)
CtrlRegs == {"ctrl_reg", "ctrl_input", "map"}

(* What an access can fall in: a block memory, a control register, the     *)
(* flush address 0x8FF8-0x8FFF, or nothing at all.                         *)
AddressOf(mem, words) == [mem : {mem}, word : words, half : Half]

MemAddress  == UNION { AddressOf(b, BankWords[b]) : b \in Bank }
CtrlAddress == UNION { AddressOf(r, {r}) : r \in CtrlRegs }
FlushAddress == AddressOf("flush", {"flush"})
NoAddress == [mem |-> "none", word |-> "none", half |-> 0]

AxiAddress == MemAddress \union CtrlAddress \union FlushAddress \union {NoAddress}

(* A word after the halves in wea are overwritten with those of din.       *)
WriteWord(old, wea, din) == [h \in Half |-> IF h \in wea THEN din[h] ELSE old[h]]
=============================================================================
