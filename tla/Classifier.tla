----------------------------- MODULE Classifier -----------------------------
(***************************************************************************)
(* The operation classifier of padloc_operations.{hpp,cpp}.               *)
(*                                                                         *)
(* OPERATION_CATEGORY is a C bit set; here it is the set of the names of  *)
(* the flags that are set, so that `oc & PLC_OP_X' is "X" \in oc and      *)
(* PLC_OTHER (= PLC_UNSUPPORTED = 0) is the empty set.                     *)
(*                                                                         *)
(* A decoded instruction is abstracted to what the classifier and the     *)
(* rewriter read of it: its opcode, split into the features that the     *)
(* 72 cases of the opcode switch spell out in their names (operation,    *)
(* VEX encoding, scalar or packed, precision, fused operand order), the  *)
(* EVEX prefix, and its operands in Intel order (ops[1] is the            *)
(* destination).  How the host decoder lists the sources is the constant  *)
(* ImplicitSrcLast (see HostSrcs).                                         *)
(***************************************************************************)
EXTENDS Naturals, Sequences, FiniteSets

CONSTANTS
    SimdRegs,        \* the vector registers XMM/YMM0.. of the model
    Gprs,            \* the general-purpose registers of the model
    Disps,           \* the displacements memory operands may carry
    Addrs,           \* the absolute addresses memory operands may carry
    NoReg,           \* DR_REG_NULL
    ImplicitSrcLast  \* the host decoder lists an implicit source last

ASSUME ConstantsAssumption ==
    /\ NoReg \notin SimdRegs \cup Gprs
    /\ SimdRegs \cap Gprs = {}
    /\ ImplicitSrcLast \in BOOLEAN

(* Mnemonic families of the opcode switch; "int" and "jmp" stand for every *)
(* opcode that falls to the `default' case.                                *)
ArithMn == {"add", "sub", "mul", "div"}
FusedMn == {"fmadd", "fmsub", "fnmadd", "fnmsub"}
OtherMn == {"int", "jmp"}

(* Only the fused opcodes (VFMADD132PD ...) carry an operand order.        *)
Opcode == {o \in [mn : ArithMn \cup FusedMn \cup OtherMn, vex : BOOLEAN,
                  packed : BOOLEAN, prec : {"s", "d"}, order : {0, 132, 213, 231}] :
             o.mn \in FusedMn <=> o.order # 0}

(* An operand: a register, a base+index+disp memory reference, or an      *)
(* absolute address; size is what opnd_size_in_bytes reports for it.      *)
Opnd == [kind : {"reg", "mem", "abs"}, reg : SimdRegs \cup Gprs \cup {NoReg},
         base : Gprs \cup {NoReg}, index : Gprs \cup {NoReg},
         disp : Disps, addr : Addrs \cup {NoReg}, size : {8, 16, 32, 64}]

Instr == [opc : Opcode, evex : BOOLEAN, ops : Seq(Opnd)]

IsFpInstr(ins) == ins.opc.mn \in ArithMn \cup FusedMn

(* The source list the host decoder gives the client (instr_get_src).     *)
(* Legacy SSE `op dst, src' reads dst implicitly, and FMA reads its first *)
(* operand implicitly: with ImplicitSrcLast that implicit source is put   *)
(* at the end of the list, otherwise it stays in place.                   *)
HostSrcs(ins) ==
    IF ins.opc.mn \in FusedMn
    THEN IF ImplicitSrcLast THEN <<ins.ops[2], ins.ops[3], ins.ops[1]>>
                            ELSE <<ins.ops[1], ins.ops[2], ins.ops[3]>>
    ELSE IF ins.opc.vex THEN <<ins.ops[2], ins.ops[3]>>
    ELSE IF ImplicitSrcLast THEN <<ins.ops[2], ins.ops[1]>>
                            ELSE <<ins.ops[1], ins.ops[2]>>

(* get_size_flag: the width flag of the widest source operand.            *)
get_size_flag(ins) ==
    LET srcs == HostSrcs(ins)
        max_size == CHOOSE s \in {srcs[i].size : i \in 1..Len(srcs)} :
                        \A i \in 1..Len(srcs) : srcs[i].size <= s
    IN  CASE max_size = 16 -> {"128"}
          [] max_size = 32 -> {"256"}
          [] max_size = 64 -> {"512"}
          [] OTHER         -> {}

(* The flags that the enum constant named in each case carries:          *)
(* PLC_{P}{ADD,SUB,MUL,DIV}{S,D}_{SSE,AVX}, PLC_{N}{A,S}{132,213,231}...   *)
BaseFlags(opc) ==
    {IF opc.prec = "d" THEN "DOUBLE" ELSE "FLOAT",
     IF opc.packed THEN "PACKED" ELSE "SCALAR",
     IF opc.vex THEN "AVX" ELSE "SSE"}
    \cup (CASE opc.mn = "add" -> {"ADD"}
            [] opc.mn = "sub" -> {"SUB"}
            [] opc.mn = "mul" -> {"MUL"}
            [] opc.mn = "div" -> {"DIV"}
            [] opc.mn \in {"fmadd", "fnmadd"} -> {"FMA"}
            [] opc.mn \in {"fmsub", "fnmsub"} -> {"FMS"})
    \cup (IF opc.mn \in FusedMn
          THEN {CASE opc.order = 132 -> "132"
                  [] opc.order = 213 -> "213"
                  [] opc.order = 231 -> "231"}
          ELSE {})
    \cup (IF opc.mn \in {"fnmadd", "fnmsub"} THEN {"NEG"} ELSE {})

PLC_OTHER == {}

(* Faulty variant: the EVEX prefix test at the top is missing, so a wide *)
(* encoding is classified like its VEX form.                               *)
plc_get_operation_categoryNoEvex(ins) ==
    IF ~IsFpInstr(ins) THEN PLC_OTHER
    ELSE IF ins.opc.mn \in FusedMn \/ (ins.opc.vex /\ ins.opc.packed)
         THEN BaseFlags(ins.opc) \cup get_size_flag(ins)
    ELSE IF ins.opc.packed THEN BaseFlags(ins.opc) \cup {"128"}
    ELSE BaseFlags(ins.opc)

(* plc_get_operation_category: an EVEX instruction is PLC_UNSUPPORTED;   *)
(* SSE scalar and AVX scalar categories carry no width flag, SSE packed  *)
(* ones carry PLC_OP_128, and AVX packed and all fused ones take theirs  *)
(* from get_size_flag.                                                    *)
plc_get_operation_category(ins) ==
    IF ins.evex \/ ~IsFpInstr(ins) THEN PLC_OTHER
    ELSE IF ins.opc.mn \in FusedMn \/ (ins.opc.vex /\ ins.opc.packed)
         THEN BaseFlags(ins.opc) \cup get_size_flag(ins)
    ELSE IF ins.opc.packed THEN BaseFlags(ins.opc) \cup {"128"}
    ELSE BaseFlags(ins.opc)

plc_is_instrumented(oc) == oc # PLC_OTHER
plc_is_fused(oc) == oc \cap {"FMA", "FMS"} # {}
plc_is_double(oc) == "DOUBLE" \in oc
=============================================================================
