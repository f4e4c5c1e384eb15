----------------------------- MODULE AtomicMemory -----------------------------
(***************************************************************************)
(* What the memory system promises its two users, with no clock, no bus    *)
(* and no arbiter: every access takes effect at one instant.  In           *)
(* particular an atomic operation of the core reads and writes the word in *)
(* one step, a pair of 32-bit stores of the host changes both halves of a  *)
(* shared word in one step, and a pair of loads returns two halves of one  *)
(* and the same value of the word.                                         *)
(*                                                                         *)
(* One step may hold an access of each user, the host's first: the memory  *)
(* passes through the value m.                                             *)
(***************************************************************************)
EXTENDS MemoryMap

CONSTANTS FetchOps, ALU(_, _, _)

VARIABLES
  mem,      \* the words
  pend,     \* {} or the half a host store left for its pair
  snap,     \* {} or the half a host load kept for its pair
  hostOut,  \* {} or what a host load returned and the host has not taken yet
  coreOut   \* {} during an atomic operation, or the word the core read last

vars == <<mem, pend, snap, hostOut, coreOut>>

OneHalf(w, h, d) == [word |-> w, half |-> h, val |-> d]

Store(m, w, wea, d) == [m EXCEPT ![w] = WriteWord(@, wea, d)]
Both(d) == [h \in Half |-> d]

(***************************************************************************)
(* The host, from mem to m.                                                *)
(***************************************************************************)
HostIdle(m) == m = mem /\ UNCHANGED <<pend, snap, hostOut>>

(* The first store of a pair waits; a half kept for a load is dropped.     *)
BufferStore(m) ==
  /\ pend = {} /\ m = mem
  /\ \E w \in SharedWords, h \in Half, d \in Val : pend' = {OneHalf(w, h, d)}
  /\ snap' = {} /\ UNCHANGED hostOut

(* Both halves of the word change at once.                                 *)
StorePair(m) ==
  /\ \E p \in pend, d \in Val :
       m = [mem EXCEPT ![p.word] = [h \in Half |-> IF h = p.half THEN p.val ELSE d]]
  /\ pend' = {} /\ UNCHANGED <<snap, hostOut>>

FlushStore(m) ==
  /\ \E p \in pend : m = Store(mem, p.word, {p.half}, Both(p.val))
  /\ pend' = {} /\ UNCHANGED <<snap, hostOut>>

(* A store that is not buffered, of any half of any word or of no byte.    *)
HostStore(m) ==
  /\ pend = {}
  /\ \/ m = mem
     \/ \E w \in MemWords, h \in Half, d \in Val : m = Store(mem, w, {h}, Both(d))
  /\ snap' = {} /\ UNCHANGED <<pend, hostOut>>

(* A load of a half; the other half may be kept for the next load.         *)
HostLoad(m) ==
  /\ pend = {} /\ m = mem
  /\ \E w \in MemWords, h \in Half :
       /\ hostOut' = {mem[w][h]}
       /\ snap' \in {{}, {OneHalf(w, Other(h), mem[w][Other(h)])}}
  /\ UNCHANGED pend

(* The load of the half that was kept returns what it was then.            *)
LoadPair(m) ==
  /\ m = mem
  /\ \E s \in snap : hostOut' = {s.val}
  /\ snap' = {} /\ UNCHANGED pend

(* An access to a register ends a pair of loads.                           *)
OtherAccess(m) ==
  /\ pend = {} /\ m = mem
  /\ snap' = {} /\ UNCHANGED <<pend, hostOut>>

TakeResponse(m) ==
  /\ hostOut # {} /\ hostOut' = {}
  /\ m = mem /\ UNCHANGED <<pend, snap>>

HostStep(m) ==
  \/ HostIdle(m) \/ BufferStore(m) \/ StorePair(m) \/ FlushStore(m) \/ HostStore(m)
  \/ HostLoad(m) \/ LoadPair(m) \/ OtherAccess(m) \/ TakeResponse(m)

(***************************************************************************)
(* The core, from m to mem'.                                               *)
(***************************************************************************)
CoreIdle(m) == mem' = m /\ UNCHANGED coreOut

CoreLoad(m) ==
  /\ coreOut # {} /\ mem' = m
  /\ \E w \in MemWords : coreOut' = {m[w]}

CoreStore(m) ==
  /\ coreOut # {} /\ UNCHANGED coreOut
  /\ \E w \in MemWords, wea \in SUBSET Half, d \in Word : mem' = Store(m, w, wea, d)

BeginAtomic(m) == coreOut # {} /\ coreOut' = {} /\ mem' = m

(* Read and written in one step: what is written is computed from the very *)
(* word it replaces.  A failed compare writes nothing.                     *)
Atomic(m) ==
  /\ coreOut = {}
  /\ \E w \in MemWords, wea \in SUBSET Half, d \in Word :
       /\ coreOut' = {m[w]}
       /\ \/ \E op \in FetchOps : mem' = Store(m, w, wea, ALU(op, m[w], d))
          \/ mem' = Store(m, w, wea, d)
          \/ mem' = m

CoreStep(m) == CoreIdle(m) \/ CoreLoad(m) \/ CoreStore(m) \/ BeginAtomic(m) \/ Atomic(m)

(* The values the host's access may give the memory.                       *)
HostResults ==
  {mem} \union {Store(mem, w, wea, d) : w \in MemWords, wea \in SUBSET Half, d \in Word}

Init ==
  /\ mem = [w \in MemWords |-> ZeroWord]
  /\ pend = {} /\ snap = {} /\ hostOut = {}
  /\ coreOut = {ZeroWord}

Next == \E m \in HostResults : HostStep(m) /\ CoreStep(m)

Spec == Init /\ [][Next]_vars
=============================================================================
