------------------------------ MODULE Assembler -------------------------------
(***************************************************************************)
(* The assembler (ebpf-assembler): the parser reads a source file token by *)
(* token into a list of statements, resolves the labels, the type checker  *)
(* compares the operands with the mnemonic, and the code generator writes  *)
(* one or two instruction slots for every instruction.                     *)
(*                                                                         *)
(* A token is a whole word: its characters, positions and comments are     *)
(* abstracted, and a file ends in a newline.  One command assembles one    *)
(* file.                                                                   *)
(***************************************************************************)
EXTENDS ExceptionUnit, Sequences

CONSTANTS
  Files,          \* the files: sequences of tokens
  OffMod,         \* 2^16 in the source: values of the offset of an instruction
  MAX_INSNS       \* slots of the array prog of the code generator

ASSUME WidthsOK ==
  /\ OffMod \in Nat \ {0} /\ OffMod % 2 = 0 /\ MAX_INSNS \in Nat \ {0}
  /\ OffMod <= HalfMod /\ HalfMod > 64

VARIABLES
  expr,           \* tokens not read yet
  ast,            \* statements
  offset,         \* slots of the instructions read so far
  i, pc,          \* statement a pass is at, and the slots it has counted
  prog,           \* slots written
  at,             \* history: for each statement passed, the slot it begins at
  phase           \* "parse", "deduce", "check", "typecheck", "codegen"; "written", "error"

vars == <<expr, ast, offset, i, pc, prog, at, phase>>

(***************************************************************************)
(* Mnemonics, by family: the class, operation and size or offset that the  *)
(* name stands for.  sdiv is Mnemonic("alu", "ALU64", "DIV", 1), movsx8 is *)
(* Mnemonic("alu", "ALU64", "MOV", 8), addfx16 is                          *)
(* Mnemonic("atomic", "fetch", "ADD", 16).                                 *)
(***************************************************************************)
Mnemonic(family, class, op, arg) ==
  [family |-> family, class |-> class, op |-> op, arg |-> arg]

Arithmetic ==
  LET alu(classes, ops, args) == {Mnemonic("alu", c, op, n) : c \in classes, op \in ops, n \in args}
  IN  alu(AluClass, (RegularOps \ {"NEG"}) \union {"MOV"}, {0})
        \union alu(AluClass, SignedOps, {1})
        \union alu(AluClass, {"MOV"}, {8, 16}) \union alu({"ALU64"}, {"MOV"}, {32})

Unary ==
  {Mnemonic("neg", c, "NEG", 0) : c \in AluClass}
    \union {Mnemonic(f, "ALU", "END", n) : f \in {"le", "be"}, n \in {16, 32, 64}}
    \union {Mnemonic("bswap", "ALU64", "END", n) : n \in {16, 32, 64}}
    \union {Mnemonic("zext", "ALU", "MOV", 0)}

AtomicOps ==
  {Mnemonic("atomic", f, op, n) : f \in {"plain", "fetch"}, op \in SimpleAtomics, n \in {16, 32, 64}}
    \union {Mnemonic("atomic", "fetch", op, n) : op \in {"XCHG", "CMPXCHG"}, n \in {16, 32, 64}}
    \union {Mnemonic("stxx", "plain", "ADD", n) : n \in {8, 16, 32, 64}}

Sizes == {8, 16, 32, 64}
Transfers ==
  {Mnemonic("ldx", "LDX", "MEM", n) : n \in Sizes}
    \union {Mnemonic("ldxs", "LDX", "MEMSX", n) : n \in Sizes \ {64}}
    \union {Mnemonic("stx", "STX", "MEM", n) : n \in Sizes}
Stores == {Mnemonic("st", "ST", "MEM", n) : n \in Sizes}

Wide == {Mnemonic(f, "LD", "IMM", 64) : f \in {"ld64", "ldmapfd"}}
PacketLoads == {Mnemonic(f, "LD", f, n) : f \in {"ABS", "IND"}, n \in Sizes}

Branches == {Mnemonic("branch", c, op, 0) : c \in JumpClass, op \in BranchOps}
Jumps == {Mnemonic("ja", "JMP", "JA", 16), Mnemonic("jal", "JMP32", "JA", 32)}
Calls == {Mnemonic(f, "JMP", "JCALL", 0) : f \in {"call", "rel"}}
ExitOp == Mnemonic("exit", "JMP", "JEXIT", 0)

Mnemonics ==
  Arithmetic \union Unary \union AtomicOps \union Transfers \union Stores \union Wide
    \union PacketLoads \union Branches \union Jumps \union Calls \union {ExitOp}

(* Fault: one of the two long instructions counts for one slot.            *)
slots_ld64(m) == IF m.family = "ld64" THEN 2 ELSE 1

(* Slots an instruction takes.                                             *)
slots(m) == IF m.family \in {"ld64", "ldmapfd"} THEN 2 ELSE 1
-----------------------------------------------------------------------------
(* The parser.  A token is [kind, v, colon]; colon holds for a word that   *)
(* ends in a colon.  Kinds: a "mnemonic", a "register", a "value" (a number *)
(* that fits 64 bits) or an "overflow", a "name", a "reserved" word (a name *)
(* with a reserved symbol), a "malformed" one (a character that is not     *)
(* ASCII), and "empty".                                                    *)
NoName == ""
Name == STRING \ {NoName}

Token ==
  [kind : {"mnemonic"}, v : Mnemonics, colon : BOOLEAN]
    \union [kind : {"register"}, v : Regs, colon : BOOLEAN]
    \union [kind : {"value"}, v : Int, colon : BOOLEAN]
    \union [kind : {"overflow", "name", "reserved", "malformed"}, v : Name, colon : BOOLEAN]
    \union [kind : {"empty"}, v : {NoName}, colon : BOOLEAN]

ASSUME FilesOK == Files \subseteq Seq(Token)

Empty == [ty |-> "Empty"]
Operand(t) ==
  CASE t.kind = "register" -> [ty |-> "Register", reg |-> t.v]
    [] t.kind = "value" -> [ty |-> "Immediate", val |-> t.v, of |-> NoName]
    [] OTHER -> [ty |-> "Reference", id |-> t.v]

Statement(m) == [ty |-> "Instruction", ins |-> m, ops |-> <<Empty, Empty, Empty>>]
is_label(id) == \E j \in DOMAIN ast : ast[j].ty = "Label" /\ ast[j].id = id

Next_token == Head(expr)
Go(p) == phase' = p
Read == phase = "parse" /\ expr # <<>> /\ expr' = Tail(expr)
Fail == Go("error") /\ UNCHANGED <<ast, offset, i, pc, prog, at>>

ReadLabel ==
  /\ Read /\ Next_token.colon
  /\ IF Next_token.kind \notin {"name", "malformed"} \/ is_label(Next_token.v) THEN Fail
     ELSE /\ ast' = Append(ast, [ty |-> "Label", id |-> Next_token.v, off |-> offset])
          /\ UNCHANGED <<offset, i, pc, prog, at, phase>>

ReadMnemonic ==
  /\ Read /\ ~Next_token.colon /\ Next_token.kind = "mnemonic"
  /\ ast' = Append(ast, Statement(Next_token.v))
  /\ offset' = offset + slots(Next_token.v)
  /\ UNCHANGED <<i, pc, prog, at, phase>>

(* An operand belongs to the last statement, in its first free place.      *)
free_places(s) == {j \in 1 .. 3 : s.ops[j] = Empty}
ReadOperand ==
  /\ Read /\ ~Next_token.colon /\ Next_token.kind \in {"register", "value", "overflow", "name", "reserved"}
  /\ LET last == ast[Len(ast)]
         place == CHOOSE j \in free_places(last) : \A k \in free_places(last) : j <= k
     IN  IF \/ Next_token.kind \in {"reserved", "overflow"}
            \/ ast = <<>> \/ last.ty # "Instruction" \/ free_places(last) = {}
         THEN Fail
         ELSE /\ ast' = [ast EXCEPT ![Len(ast)].ops[place] = Operand(Next_token)]
              /\ UNCHANGED <<offset, i, pc, prog, at, phase>>

(* Blank and malformed words are passed over.                              *)
SkipWord ==
  /\ Read /\ ~Next_token.colon /\ Next_token.kind \in {"malformed", "empty"}
  /\ UNCHANGED <<ast, offset, i, pc, prog, at, phase>>

EndOfFile ==
  /\ phase = "parse" /\ expr = <<>>
  /\ Go("deduce")
  /\ UNCHANGED <<expr, ast, offset, i, pc, prog, at>>
-----------------------------------------------------------------------------
(* References become distances: from the slot behind the instruction to    *)
(* the slot the label was read at.  The name is kept as history.           *)
behind_one(s) == pc + 1      \* fault: every instruction counts for one slot
behind(s) == pc + slots(s.ins)
labelled(id) == {j \in DOMAIN ast : ast[j].ty = "Label" /\ ast[j].id = id}
resolved(op, s) ==
  IF op.ty # "Reference" THEN op
  ELSE [ty |-> "Immediate", of |-> op.id,
        val |-> ast[CHOOSE j \in labelled(op.id) : TRUE].off - behind(s)]

NextStatement == i' = i + 1
EndOfPass(p) == i > Len(ast) /\ Go(p) /\ i' = 1

Deduce ==
  /\ phase = "deduce"
  /\ \/ /\ i <= Len(ast) /\ ast[i].ty = "Label"
        /\ NextStatement /\ UNCHANGED <<ast, pc, phase>>
     \/ /\ i <= Len(ast) /\ ast[i].ty = "Instruction"
        /\ \A j \in 1 .. 3 : ast[i].ops[j].ty = "Reference" => labelled(ast[i].ops[j].id) # {}
        /\ ast' = [ast EXCEPT ![i].ops = [j \in 1 .. 3 |-> resolved(@[j], ast[i])]]
        /\ pc' = behind(ast[i])
        /\ NextStatement /\ UNCHANGED phase
     \/ EndOfPass("check") /\ UNCHANGED <<ast, pc>>
  /\ UNCHANGED <<expr, offset, prog, at>>

UndefinedIdentifier ==
  /\ phase = "deduce" /\ i <= Len(ast) /\ ast[i].ty = "Instruction"
  /\ \E j \in 1 .. 3 : ast[i].ops[j].ty = "Reference" /\ labelled(ast[i].ops[j].id) = {}
  /\ Fail /\ UNCHANGED expr

(* At least one instruction, and no more slots than the array has.         *)
check_off ==
  /\ phase = "check"
  /\ IF offset \in 1 .. MAX_INSNS THEN Go("typecheck") ELSE Go("error")
  /\ UNCHANGED <<expr, ast, offset, i, pc, prog, at>>
-----------------------------------------------------------------------------
(* The type checker: what each of the three operands may be.               *)
REG == {"Register"}
IMM == {"Immediate"}
NONE == {"Empty"}

operand_types(m) ==
  CASE m \in Arithmetic -> <<REG, REG \union IMM, NONE>>
    [] m \in Unary -> <<REG, NONE, NONE>>
    [] m \in Stores -> <<REG, IMM, IMM>>
    [] m \in Wide \/ m.op = "IND" -> <<REG, IMM, NONE>>
    [] m.op = "ABS" \/ m \in Jumps \union Calls -> <<IMM, NONE, NONE>>
    [] m \in Branches -> <<REG, REG \union IMM, IMM>>
    [] m \in AtomicOps \union Transfers -> <<REG, REG, IMM>>
    [] m = ExitOp -> <<NONE, NONE, NONE>>

(* Fault: the third operand is not looked at.                              *)
well_typed_two(s) ==
  s.ty = "Instruction" =>
    LET types == operand_types(s.ins) IN \A j \in 1 .. 2 : s.ops[j].ty \in types[j]

well_typed(s) ==
  s.ty = "Instruction" =>
    LET types == operand_types(s.ins) IN \A j \in 1 .. 3 : s.ops[j].ty \in types[j]

typechecker ==
  /\ phase = "typecheck"
  /\ IF \A j \in DOMAIN ast : well_typed(ast[j]) THEN Go("codegen") ELSE Go("error")
  /\ UNCHANGED <<expr, ast, offset, i, pc, prog, at>>
-----------------------------------------------------------------------------
(* The code generator.  Operands are a union of a register and a number:   *)
(* reading the wrong one gives a value that is in no range.                *)
cut(v, mod) == ((v + mod \div 2) % mod) - (mod \div 2)
reg_(s, j) == IF s.ops[j].ty = "Register" THEN s.ops[j].reg ELSE 16
val(s, j) == IF s.ops[j].ty = "Immediate" THEN s.ops[j].val % HalfMod ELSE HalfMod
val16(s, j) == IF s.ops[j].ty = "Immediate" THEN cut(s.ops[j].val, OffMod) ELSE HalfMod

insn(class, code) == [ZeroInsn EXCEPT !.class = class, !.code = code]
with_second(x, s) ==
  IF s.ops[2].ty = "Immediate" THEN [x EXCEPT !.imm = val(s, 2)]
  ELSE [x EXCEPT !.source = "REG", !.src = reg_(s, 2)]

(* A memory instruction; source is a bit of its size.                      *)
mem_insn(class, mode, size, dst, src, off) ==
  [insn(class, "none") EXCEPT !.mode = mode, !.size = size, !.dst = dst, !.src = src, !.offset = off]

(* BPF_SIZE keeps bits 4-3 of its argument.  The codes of the sizes are 0, *)
(* 8, 16 and 24: 8 and 16 are taken for each other where the code          *)
(* generator passes the number of bits and not a code.                     *)
coded_size(n) == CASE n = 8 -> "SIZE8" [] n = 16 -> "SIZE16" [] n = 32 -> "SIZE32" [] n = 64 -> "SIZE64"
literal_size(n) == CASE n = 8 -> "SIZE16" [] n = 16 -> "SIZE8" [] OTHER -> coded_size(n)

ArithmeticInsn(m, s) ==
  <<with_second([insn(m.class, m.op) EXCEPT !.dst = reg_(s, 1), !.offset = m.arg], s)>>

UnaryInsn(m, s) ==
  LET x == [insn(m.class, m.op) EXCEPT !.dst = reg_(s, 1), !.imm = m.arg]
  IN  <<CASE m.family = "be" -> [x EXCEPT !.source = "REG"]
          [] m.family = "zext" -> [x EXCEPT !.source = "REG", !.src = reg_(s, 1), !.imm = 1]
          [] OTHER -> x>>

(* Fault: an exchange does not ask for the old value.                      *)
AtomicInsn_plain(m, s) ==
  <<[mem_insn("STX", "ATOMIC", literal_size(m.arg), reg_(s, 1), reg_(s, 2), val16(s, 3))
       EXCEPT !.aop = m.op, !.fetch = (m.class = "fetch" /\ m.op # "XCHG")]>>

AtomicInsn(m, s) ==
  <<[mem_insn("STX", "ATOMIC", literal_size(m.arg), reg_(s, 1), reg_(s, 2), val16(s, 3))
       EXCEPT !.aop = m.op, !.fetch = (m.class = "fetch")]>>

TransferInsn(m, s) ==
  <<mem_insn(m.class, m.op, coded_size(m.arg), reg_(s, 1), reg_(s, 2), val16(s, 3))>>

StoreInsn(m, s) ==
  <<[mem_insn("ST", "MEM", coded_size(m.arg), reg_(s, 1), 0, val16(s, 2)) EXCEPT !.imm = val(s, 3)]>>

(* The second slot holds the upper half; of a map, the sign of the number. *)
WideInsn(m, s) ==
  LET v == IF m.family = "ld64" THEN s.ops[2].val ELSE cut(s.ops[2].val, HalfMod)
  IN  <<[mem_insn("LD", "IMM", "SIZE64", reg_(s, 1), IF m.family = "ld64" THEN 0 ELSE 1, 0)
           EXCEPT !.imm = val(s, 2)],
        [ZeroInsn EXCEPT !.imm = (v \div HalfMod) % HalfMod]>>

PacketLoadInsn(m, s) ==
  IF m.op = "ABS" THEN <<[mem_insn("LD", "ABS", literal_size(m.arg), 0, 0, 0) EXCEPT !.imm = val(s, 1)]>>
  ELSE <<[mem_insn("LD", "IND", literal_size(m.arg), 0, reg_(s, 1), 0) EXCEPT !.imm = val(s, 2)]>>

BranchInsn(m, s) ==
  <<with_second([insn(m.class, m.op) EXCEPT !.dst = reg_(s, 1), !.offset = val16(s, 3)], s)>>

JumpInsn(m, s) ==
  IF m.arg = 16 THEN <<[insn(m.class, m.op) EXCEPT !.offset = val16(s, 1)]>>
  ELSE <<[insn(m.class, m.op) EXCEPT !.imm = val(s, 1)]>>

CallInsn(m, s) ==
  <<[insn(m.class, m.op) EXCEPT !.imm = val(s, 1), !.src = IF m.family = "rel" THEN 1 ELSE 0]>>

written(s) ==
  LET m == s.ins
  IN  CASE m \in Arithmetic -> ArithmeticInsn(m, s)
        [] m \in Unary -> UnaryInsn(m, s)
        [] m \in AtomicOps -> AtomicInsn(m, s)
        [] m \in Transfers -> TransferInsn(m, s)
        [] m \in Stores -> StoreInsn(m, s)
        [] m \in Wide -> WideInsn(m, s)
        [] m \in PacketLoads -> PacketLoadInsn(m, s)
        [] m \in Branches -> BranchInsn(m, s)
        [] m \in Jumps -> JumpInsn(m, s)
        [] m \in Calls -> CallInsn(m, s)
        [] m = ExitOp -> <<insn(m.class, m.op)>>

codegen ==
  /\ phase = "codegen"
  /\ \/ /\ i <= Len(ast)
        /\ prog' = IF ast[i].ty = "Label" THEN prog ELSE prog \o written(ast[i])
        /\ at' = Append(at, Len(prog))
        /\ NextStatement /\ UNCHANGED phase
     \/ EndOfPass("written") /\ UNCHANGED <<prog, at>>
  /\ UNCHANGED <<expr, ast, offset, pc>>

Stop == phase \in {"written", "error"} /\ UNCHANGED vars

Init ==
  /\ expr \in Files /\ ast = <<>> /\ offset = 0 /\ i = 1 /\ pc = 0
  /\ prog = <<>> /\ at = <<>> /\ phase = "parse"

Next ==
  \/ ReadLabel \/ ReadMnemonic \/ ReadOperand \/ SkipWord \/ EndOfFile
  \/ Deduce \/ UndefinedIdentifier \/ check_off \/ typechecker \/ codegen \/ Stop

Spec == Init /\ [][Next]_vars
-----------------------------------------------------------------------------
(* Every branch and jump to a label is written with the distance to the    *)
(* first slot behind the label, if its field can hold that distance, over  *)
(* instructions of one and two slots, forwards and backwards.  The parser  *)
(* counts slots while it reads, the resolution counts them again, and the  *)
(* code generator a third time.                                            *)
target(k) ==
  LET x == prog[at[k] + 1]
  IN  at[k] + 1 + (IF x.class = "JMP32" /\ x.code = "JA" THEN cut(x.imm, HalfMod) ELSE x.offset)

reach(m) == IF m.family = "jal" THEN HalfMod \div 2 ELSE OffMod \div 2

LabelsReached ==
  phase = "written" =>
    \A k, l \in DOMAIN ast :
      /\ ast[l].ty = "Label"
      /\ ast[k].ty = "Instruction" /\ ast[k].ins \in Branches \union Jumps
      /\ \E j \in 1 .. 3 : ast[k].ops[j].ty = "Immediate" /\ ast[k].ops[j].of = ast[l].id
                             /\ (j = 3 \/ ast[k].ins \in Jumps)
      /\ at[l] - (at[k] + 1) \in -reach(ast[k].ins) .. reach(ast[k].ins) - 1
      => target(k) = at[l]

(* The code generator never writes behind its array, which it does not     *)
(* check: the parser's count has to be the number of slots written.        *)
ArrayHolds ==
  /\ phase \in {"codegen", "written"} => Len(prog) <= MAX_INSNS
  /\ phase = "written" => Len(prog) = offset

(* No field of an instruction comes from an operand of the wrong kind, nor *)
(* from one that is missing: the type checker knows what the code          *)
(* generator reads of each mnemonic.                                       *)
FieldsRead ==
  \A k \in DOMAIN prog :
    /\ prog[k].dst \in Regs /\ prog[k].src \in Regs
    /\ prog[k].imm \in Half32 /\ prog[k].offset < HalfMod

(* The core accepts what is written for every mnemonic that README.md of   *)
(* the assembler lists, but rel, stxx8 and stxx16, if it changes no r10.   *)
Unlisted == PacketLoads \union {m \in AtomicOps : m.family = "atomic" /\ m.arg = 16}
              \union {Mnemonic("ldmapfd", "LD", "IMM", 64)}
Rejected == {Mnemonic("rel", "JMP", "JCALL", 0)}
              \union {m \in AtomicOps : m.family = "stxx" /\ m.arg < 32}

changes_r10(x) ==
  \/ x.class \in AluClass \union {"LD", "LDX"} /\ x.dst = 10
  \/ x.class = "STX" /\ x.fetch /\ x.aop # "CMPXCHG" /\ x.src = 10

AcceptedByCore ==
  \A k \in DOMAIN at :
    LET x == prog[at[k] + 1]
    IN  ast[k].ty = "Instruction" =>
          (valid_instruction(x) <=> ~changes_r10(x) /\ ast[k].ins \notin Unlisted \union Rejected)
=============================================================================
