----------------------------- MODULE MCAssembler ------------------------------
(***************************************************************************)
(* Source files for Assembler: every mnemonic with every operand list, and *)
(* every layout of a few labels and instructions of both lengths.          *)
(***************************************************************************)
EXTENDS Toolchain

token(kind, v) == [kind |-> kind, v |-> v, colon |-> FALSE]
Op(m) == token("mnemonic", m)
R(r) == token("register", r)
V(v) == token("value", v)
N(name) == token("name", name)
L(name) == [N(name) EXCEPT !.colon = TRUE]

(* One instruction with operands of every kind, up to one too many.        *)
OperandTokens == {R(1), R(10), V(300), N("a")}
OneInstruction ==
  {<<L("a"), Op(m)>> \o ops : m \in Mnemonics, ops \in BoundedSeq({R(1), R(10), V(300)}, 3)}
    \union {<<Op(m)>> \o ops : m \in Mnemonics, ops \in BoundedSeq({R(2), V(-1)}, 3)}
    \union {<<L("a"), Op(m)>> \o ops : m \in {ExitOp} \union Wide, ops \in BoundedSeq(OperandTokens, 4)}

(* Lines that need a label, define one, or move those behind it.           *)
Ja == CHOOSE m \in Jumps : m.arg = 16
Jal == CHOOSE m \in Jumps : m.arg = 32
Jeq == Mnemonic("branch", "JMP", "JEQ", 0)
Ld64 == Mnemonic("ld64", "LD", "IMM", 64)
LdMapFd == Mnemonic("ldmapfd", "LD", "IMM", 64)

Lines ==
  {<<L("a")>>, <<L("b")>>, <<Op(Ja), N("a")>>, <<Op(Jal), N("b")>>, <<Op(Jeq), R(1), V(-1), N("b")>>,
   <<Op(Ld64), R(1), V(300)>>, <<Op(LdMapFd), R(1), V(-1)>>}
Layouts == {FlattenSeq(lines) : lines \in BoundedSeq(Lines, 5)}

(* Words the parser refuses or passes over, at every place.                *)
OddWords ==
  {token(k, "c") : k \in {"overflow", "reserved", "malformed"}}
    \union {[token(k, "c") EXCEPT !.colon = TRUE] : k \in {"overflow", "reserved", "malformed"}}
    \union {token("empty", ""), [token("empty", "") EXCEPT !.colon = TRUE]}
    \union {[R(1) EXCEPT !.colon = TRUE], [Op(Ja) EXCEPT !.colon = TRUE], N("c")}
OddFiles ==
  {InsertAt(<<L("a"), Op(Ja), N("a")>>, k, w) : k \in 1 .. 4, w \in OddWords}

(* A file for the run that ends in a violation: a constant above 32 bits.  *)
WideFiles == {<<Op(Ld64), R(1), V(300)>>}

AllFiles == OneInstruction \union Layouts \union OddFiles
=============================================================================
