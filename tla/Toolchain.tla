------------------------------ MODULE Toolchain -------------------------------
(***************************************************************************)
(* The assembler with both of its outputs, and the disassembler: a source  *)
(* file is assembled, either printed as a C array or written as an object  *)
(* file, and an object file is disassembled and assembled again.           *)
(***************************************************************************)
EXTENDS MacroOutput, Disassembler

ToolInit == Init /\ objcode = <<>> /\ text = <<>>

ToolNext ==
  \/ Next /\ UNCHANGED disasVars
  \/ codegen_str /\ objcode = <<>> /\ UNCHANGED disasVars
  \/ ReadObject \/ PrintLine \/ Reassemble
  \/ phase = "printed" /\ UNCHANGED <<vars, disasVars>>

ToolSpec == ToolInit /\ [][ToolNext]_<<vars, disasVars>>
=============================================================================
