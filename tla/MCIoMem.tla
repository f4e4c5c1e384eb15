------------------------------- MODULE MCIoMem -------------------------------
(***************************************************************************)
(* Instances of IoMem for TLC: which accesses host and core issue.  A half *)
(* is one bit; a word, read as lo + 2 * hi, has the four values 0..3.      *)
(***************************************************************************)
EXTENDS IoMem, TLC

W(lo, hi) == (0 :> lo) @@ (1 :> hi)
Number(v) == v[0] + 2 * v[1]

(* ADD carries from the low half into the high one; XCHG takes the operand.*)
MCALU(op, a, b) ==
  IF op = "ADD" THEN LET s == (Number(a) + Number(b)) % 4 IN W(s % 2, s \div 2) ELSE b

Addr(m, w, h) == [mem |-> m, word |-> w, half |-> h]

HostWrite(a, d, s) == [op |-> "write", addr |-> a, data |-> d, strb |-> s]
HostRead(a, s)     == [op |-> "read", addr |-> a, data |-> 0, strb |-> s]

CoreAccess(op, w, wea, input, token) ==
  [op |-> op, word |-> w, wea |-> wea, input |-> input, token |-> token]

Flush == HostWrite(Addr("flush", "flush", 0), 0, "full")

(* Stores: the host writes both halves of a word the core reads and adds   *)
(* to, in full and by byte, and one half of another word.                  *)
StoreHost ==
  {HostWrite(Addr("shared", "a", h), 1, "full") : h \in Half}
  \union {HostWrite(Addr("shared", "a", 0), 1, "byte"),
          HostWrite(Addr("shared", "b", 0), 1, "full"), Flush}
StoreCore == {CoreAccess("read", "a", {}, ZeroWord, ZeroWord),
              CoreAccess("ADD", "a", Half, W(1, 0), ZeroWord)}

(* Loads: the host reads both halves of the word the core writes and adds  *)
(* to, and one half of another word.                                       *)
LoadHost ==
  {HostRead(Addr("shared", "a", h), "full") : h \in Half}
  \union {HostRead(Addr("shared", "b", 0), "full"), HostRead(Addr("shared", "a", 0), "byte")}
LoadCore == {CoreAccess("write", "a", {1}, W(1, 0), ZeroWord),
             CoreAccess("read", "a", {}, ZeroWord, ZeroWord),
             CoreAccess("ADD", "a", Half, W(1, 0), ZeroWord)}

(* A host that keeps no order: with a store pending it asks for a map      *)
(* register, stores again, reads or flushes, while the helper unit looks   *)
(* up the other map and the core writes the same word.                     *)
RegionHost ==
  {HostWrite(Addr("shared", "a", 1), 0, "full"), HostRead(Addr("shared", "a", 1), "full"),
   Flush, HostWrite(Addr("map", "map", 1), 0, "full"),
   HostRead(Addr("map", "map", 1), "full")}
RegionCore == {CoreAccess("CMPXCHG", "a", Half, W(0, 1), ZeroWord)}
RegionHfu == {NoHfu, [req |-> TRUE, id |-> 0]}

(* A core that also steps out of its address space.                        *)
ErrorHost == {HostRead(Addr("shared", "a", 0), "full"), HostWrite(Addr("shared", "a", 1), 1, "full"),
              HostWrite(Addr("shared", "a", 0), 1, "byte")}
ErrorCore == {CoreAccess("read", "outside", {}, ZeroWord, ZeroWord),
              CoreAccess("CMPXCHG", "a", {1}, W(1, 1), W(0, 1)),
              CoreAccess("ADD", "u", {1}, W(1, 1), ZeroWord)}

(* Loads, byte stores, both memories and errors together.                  *)
AccessHost == LoadHost \union {HostWrite(Addr("shared", "a", 0), 1, "byte")}
AccessCore == ErrorCore \union {CoreAccess("write", "a", {1}, W(1, 0), ZeroWord)}

NoHfuRequests == {NoHfu}
=============================================================================
