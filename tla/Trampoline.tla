----------------------------- MODULE Trampoline -----------------------------
(***************************************************************************)
(* What the rewritten block does when it runs.  Each piece of the         *)
(* rewritten block (module Rewriter) is expanded into the meta-            *)
(* instructions its insert_* helper of padloc_client.cpp emits, and the   *)
(* block is executed on an x86-64 machine with the three thread-local     *)
(* buffers of thread_init (padloc.cpp): the GPR image (slot 0 the flags   *)
(* byte stored by lahf, slot i the register GPR_ORDER[i]), the SIMD image  *)
(* (one slot per vector register) and the result-pointer slot.  The       *)
(* backend call is padloc_backend{,_fused}<...>::apply.                    *)
(*                                                                         *)
(* Values are symbolic: a register of the application starts with a value *)
(* naming it, a backend result is the term of the operation applied to    *)
(* its operand values, and a value a callee leaves in a caller-saved      *)
(* register is Junk.  Running the original block natively on the same    *)
(* initial state (NatBlock) is the reference the rewritten run is         *)
(* compared with.                                                          *)
(***************************************************************************)
EXTENDS Rewriter, Integers, SequencesExt

CONSTANTS
    GPR_ORDER,   \* the order of the GPR image, from XAX (code index 1 on)
    NLanes       \* double lanes of the widest vector register (YMM: 4)

ASSUME TrampolineAssumption ==
    /\ GPR_ORDER \in Seq(Gprs) /\ Len(GPR_ORDER) >= 3
    /\ \A i, j \in 1..Len(GPR_ORDER) : GPR_ORDER[i] = GPR_ORDER[j] => i = j
    /\ Gprs = {GPR_ORDER[i] : i \in 1..Len(GPR_ORDER)}
    /\ GPR_ORDER[1] = "rax" /\ GPR_ORDER[2] = "rcx"
    /\ {"rdx", "rsp", "rsi", "rdi"} \subseteq Gprs
    /\ NLanes = 4

Lanes == 1..NLanes
NGpr  == Len(GPR_ORDER)

(* DR_REG_OP_{A,B,C}_ADDR and DR_SCRATCH_REG on x86-64 Linux.             *)
OP_A == "rdi"
OP_B == "rsi"
OP_C == "rdx"
SCRATCH == "rcx"

(* System V caller-saved registers: what the backend call may overwrite.  *)
CallerSaved == Gprs \cap {"rax", "rcx", "rdx", "rsi", "rdi", "r8", "r9", "r10", "r11"}

(* offset_of_gpr and offset_of_simd, as slots of the images.              *)
offset_of_gpr(r) == CHOOSE i \in 1..NGpr : GPR_ORDER[i] = r
offset_of_simd(r) == r

SimdSeq == SetToSeq(SimdRegs)

----------------------------------------------------------------------------
(* Symbolic values.  Every value is a record with a tag t.                *)
Junk == [t |-> "junk"]
Zero == [t |-> "zero"]
AppGpr(r) == [t |-> "app", r |-> r]
AppLane(r, l) == [t |-> "lane", r |-> r, l |-> l]
TlsBase(f) == [t |-> "buf", buf |-> f, slot |-> "base"]
SimdPtr(r) == [t |-> "buf", buf |-> "float", slot |-> r]
EA(b, i, d) == [t |-> "ea", b |-> b, i |-> i, d |-> d]
AbsEA(a) == [t |-> "abs", a |-> a]
Lahf(flags, rax) == [t |-> "ah", flags |-> flags, rest |-> rax]
Sub32(v) == [t |-> "sub32", v |-> v]

(* The lanes of application memory at an effective address.              *)
MemLanes(ea) == [l \in Lanes |-> [t |-> "mem", ea |-> ea, l |-> l]]

----------------------------------------------------------------------------
(* Meta-instructions.                                                      *)
SaveReg(r)          == [u |-> "spill", r |-> r]             \* dr_save_reg
RestoreReg(r)       == [u |-> "unspill", r |-> r]           \* dr_restore_reg
ReadTls(f, r)       == [u |-> "readtls", f |-> f, r |-> r]  \* drmgr_insert_read_tls_field
Store(b, s, r)      == [u |-> "store", b |-> b, s |-> s, r |-> r]
Load(r, b, s)       == [u |-> "load", b |-> b, s |-> s, r |-> r]
Lea(r, b, s)        == [u |-> "lea", b |-> b, s |-> s, r |-> r]
LeaEA(r, b, i, d)   == [u |-> "leaea", r |-> r, b |-> b, i |-> i, d |-> d]
LoadInt(r, a)       == [u |-> "loadint", r |-> r, a |-> a]
LAHF                == [u |-> "lahf"]
SAHF                == [u |-> "sahf"]
VStore(b, s, v)     == [u |-> "vstore", b |-> b, s |-> s, v |-> v] \* movupd/vmovupd
VLoad(v, b, s)      == [u |-> "vload", b |-> b, s |-> s, v |-> v]
SubRsp32            == [u |-> "sub32"]
Call(f, isa, simd, n) == [u |-> "call", f |-> f, isa |-> isa, simd |-> simd, n |-> n]

insert_save_gpr_and_flags ==
    <<SaveReg("rcx"), ReadTls("gpr", "rcx"), Store("rcx", 1, "rax"), LAHF,
      Store("rcx", 0, "rax"), RestoreReg("rax"), Store("rcx", 2, "rax")>>
    \o [i \in 1..NGpr - 2 |-> Store("rcx", offset_of_gpr(GPR_ORDER[i + 2]), GPR_ORDER[i + 2])]

(* Faulty variant: the restore loop counts up, so RCX, the base of the    *)
(* image, is restored before the registers above it.                     *)
restore_gpr_ascending ==
    <<ReadTls("gpr", "rcx"), Load("rax", "rcx", 0), SAHF, Load("rax", "rcx", 1)>>
    \o [j \in 1..NGpr - 1 |-> Load(GPR_ORDER[j + 1], "rcx", offset_of_gpr(GPR_ORDER[j + 1]))]

(* The loop runs from NUM_GPR_SLOTS-1 down to 2 (RCX last).               *)
insert_restore_gpr_and_flags ==
    <<ReadTls("gpr", "rcx"), Load("rax", "rcx", 0), SAHF, Load("rax", "rcx", 1)>>
    \o [j \in 1..NGpr - 1 |-> Load(GPR_ORDER[NGpr + 1 - j], "rcx", offset_of_gpr(GPR_ORDER[NGpr + 1 - j]))]

insert_save_simd_registers ==
    <<ReadTls("float", SCRATCH)>>
    \o [i \in 1..Len(SimdSeq) |-> VStore(SCRATCH, offset_of_simd(SimdSeq[i]), SimdSeq[i])]

insert_restore_simd_registers ==
    <<ReadTls("float", SCRATCH)>>
    \o [i \in 1..Len(SimdSeq) |-> VLoad(SimdSeq[i], SCRATCH, offset_of_simd(SimdSeq[i]))]

(* Faulty variant: the result pointer is stored through OP_B, the base of *)
(* the SIMD image, instead of OP_A, the result TLS slot.                   *)
set_destination_through_op_b(dst) ==
    <<ReadTls("result", OP_A), ReadTls("float", OP_B),
      Lea(OP_C, OP_B, offset_of_simd(dst)), Store(OP_B, 0, OP_C)>>

insert_set_destination_tls(dst) ==
    <<ReadTls("result", OP_A), ReadTls("float", OP_B),
      Lea(OP_C, OP_B, offset_of_simd(dst)), Store(OP_A, 0, OP_C)>>

insert_restore_rsp ==
    <<ReadTls("gpr", "rsp"), Load("rsp", "rsp", offset_of_gpr("rsp"))>>

(* insert_set_operands_base_disp: the effective address is computed from  *)
(* the GPR image, the index through a temporary register.                 *)
insert_set_operands_base_disp(op, dest, tmp) ==
    <<ReadTls("gpr", dest)>>
    \o (IF op.index # NoReg THEN <<Load(tmp, dest, offset_of_gpr(op.index))>> ELSE <<>>)
    \o (IF op.base # NoReg THEN <<Load(dest, dest, offset_of_gpr(op.base))>> ELSE <<>>)
    \o <<LeaEA(dest, IF op.base # NoReg THEN dest ELSE NoReg,
                     IF op.index # NoReg THEN tmp ELSE NoReg, op.disp)>>

insert_set_operands_addr(addr, dest) == <<LoadInt(dest, addr)>>

(* insert_set_operands_all_registers: out_regs[k] gets the address of    *)
(* the k-th source; the last one is first loaded with the base of the    *)
(* of the SIMD image first.                                                *)
insert_set_operands_all_registers(srcs, n, out_regs) ==
    <<ReadTls("float", out_regs[n])>>
    \o [k \in 1..n |-> Lea(out_regs[k], out_regs[n], offset_of_simd(srcs[k].reg))]

(* insert_set_operands_mem_reference (code index = k - 1).               *)
insert_set_operands_mem_reference(srcs, n, k, out_regs) ==
    LET last0 == n
        last  == IF k = last0 THEN last0 - 1 ELSE last0
        others == SelectSeq([i \in 1..n |-> i], LAMBDA i : i # k)
    IN  (IF srcs[k].kind = "mem"
         THEN insert_set_operands_base_disp(srcs[k], out_regs[k], out_regs[IF k = 1 THEN 2 ELSE 1])
         ELSE insert_set_operands_addr(srcs[k].addr, out_regs[k]))
        \o <<ReadTls("float", out_regs[last])>>
        \o [j \in 1..Len(others) |->
               Lea(out_regs[others[j]], out_regs[last], offset_of_simd(srcs[others[j]].reg))]

(* analyse_symbol_test_sse_src on test_sse_src_order (analyse.cpp): the  *)
(* first sources of `divpd xmm0, xmm1' and `vdivpd xmm0, xmm0, xmm1' as   *)
(* the host decoder lists them differ exactly when it puts the implicit   *)
(* source last.                                                           *)
RegOpnd(r) == [kind |-> "reg", reg |-> r, base |-> NoReg, index |-> NoReg,
               disp |-> CHOOSE d \in Disps : TRUE, addr |-> NoReg, size |-> 16]
TestDivpd(vex) ==
    [opc |-> [mn |-> "div", vex |-> vex, packed |-> TRUE, prec |-> "d", order |-> 0],
     evex |-> FALSE,
     ops |-> IF vex THEN <<RegOpnd("xmm0"), RegOpnd("xmm0"), RegOpnd("xmm1")>>
                    ELSE <<RegOpnd("xmm0"), RegOpnd("xmm1")>>]
(* Faulty variant: the self-test's comparison is inverted.                *)
need_sse_inverse_flipped == HostSrcs(TestDivpd(FALSE))[1].reg = HostSrcs(TestDivpd(TRUE))[1].reg
need_sse_inverse == HostSrcs(TestDivpd(FALSE))[1].reg # HostSrcs(TestDivpd(TRUE))[1].reg

INSTR_IS_ANY_SSE(ins) == ~ins.opc.vex

insert_set_operands(ins) ==
    LET cat   == plc_get_operation_category(ins)
        fused == plc_is_fused(cat)
        n     == IF fused THEN 3 ELSE 2
        srcs  == HostSrcs(ins)
        reg_op_addr ==
            IF fused
            THEN CASE "213" \in cat -> <<OP_B, OP_C, OP_A>>
                   [] "231" \in cat -> <<OP_B, OP_A, OP_C>>
                   [] "132" \in cat -> <<OP_C, OP_A, OP_B>>
            ELSE IF need_sse_inverse /\ INSTR_IS_ANY_SSE(ins)
                 THEN <<OP_B, OP_A>> ELSE <<OP_A, OP_B>>
        mems  == {i \in 1..n : srcs[i].kind \in {"mem", "abs"}}
        mem_src == CHOOSE i \in mems : \A j \in mems : i <= j
    IN  IF mems = {}
        THEN insert_set_operands_all_registers(srcs, n, reg_op_addr)
        ELSE insert_set_operands_mem_reference(srcs, n, mem_src, reg_op_addr)

(* insert_call and insert_corresponding_vect_call{,_fused}: the backend   *)
(* function, and the INSTR_CATEGORY and SIMD_TYPE of the specialisation.  *)
(* A non-fused category whose operation bits are not exactly one of add, *)
(* sub, mul, div prints an error and inserts no call.                     *)
BackendFn(cat) ==
    LET ops == cat \cap {"ADD", "SUB", "MUL", "DIV", "FMA", "FMS", "132", "213", "231", "NEG"}
    IN  IF plc_is_fused(cat)
        THEN IF "FMA" \in cat THEN IF "NEG" \notin cat THEN "fmadd" ELSE "nfmadd"
             ELSE IF "NEG" \notin cat THEN "fmsub" ELSE "nfmsub"
        ELSE CASE ops = {"ADD"} -> "add"
               [] ops = {"SUB"} -> "sub"
               [] ops = {"MUL"} -> "mul"
               [] ops = {"DIV"} -> "div"
               [] OTHER         -> "none"

SimdType(cat) ==
    LET w == cat \cap {"128", "256", "512"}
    IN  CASE w = {"128"} -> "128" [] w = {"256"} -> "256" [] w = {"512"} -> "512"
          [] OTHER -> "scalar"

InstrCategory(cat) ==
    IF SimdType(cat) \in {"256", "512"} \/ "SSE" \notin cat THEN "AVX" ELSE "SSE"

insert_call(ins) ==
    LET cat == plc_get_operation_category(ins)
    IN  IF BackendFn(cat) = "none" THEN <<>>
        ELSE <<Call(BackendFn(cat), InstrCategory(cat), SimdType(cat),
                    IF plc_is_fused(cat) THEN 3 ELSE 2)>>

(* The meta-instructions of one piece of the rewritten block.             *)
Expand(c) ==
    CASE c.k = "save_gpr"     -> insert_save_gpr_and_flags
      [] c.k = "save_simd"    -> insert_save_simd_registers
      [] c.k = "set_dest"     -> insert_set_destination_tls(c.ins.ops[1].reg)
      [] c.k = "set_operands" -> insert_set_operands(c.ins)
      [] c.k = "restore_rsp"  -> insert_restore_rsp
      [] c.k = "sub_rsp"      -> <<SubRsp32>>
      [] c.k = "call"         -> insert_call(c.ins)
      [] c.k = "restore_simd" -> insert_restore_simd_registers
      [] c.k = "restore_gpr"  -> insert_restore_gpr_and_flags

----------------------------------------------------------------------------
(* The machine: registers, flags (the arithmetic flags lahf/sahf move and *)
(* OF), the DR spill slot, the three buffers, the stack slots below the   *)
(* application's RSP overwritten so far (as displacements from it), and   *)
(* whether an access went through a pointer that is not a buffer.          *)
M0 == [gpr   |-> [g \in Gprs |-> AppGpr(g)],
       flags |-> [arith |-> [t |-> "arith0"], of |-> [t |-> "of0"]],
       simd  |-> [r \in SimdRegs |-> [l \in Lanes |-> AppLane(r, l)]],
       spill |-> Junk,
       gbuf  |-> [i \in 0..NGpr |-> Junk],
       fbuf  |-> [r \in SimdRegs |-> [l \in Lanes |-> Junk]],
       rbuf  |-> Junk,
       stack |-> {},
       wild  |-> FALSE]

RegOrNone(s, r) == IF r = NoReg THEN NoReg ELSE s.gpr[r]

(* Application memory, where the callee's frame has overwritten the slots *)
(* below the application's stack pointer.                                  *)
MemAt(s, ea) ==
    IF ea.t = "ea" /\ ea.b = AppGpr("rsp") /\ ea.i = NoReg /\ ea.d \in s.stack
    THEN [l \in Lanes |-> Junk] ELSE MemLanes(ea)

IsSimdPtr(p) == p.t = "buf" /\ p.buf = "float" /\ p.slot \in SimdRegs
LanesAt(s, p) ==
    CASE IsSimdPtr(p)            -> s.fbuf[p.slot]
      [] p.t \in {"ea", "abs"}   -> MemAt(s, p)
      [] OTHER                   -> [l \in Lanes |-> Junk]

StoreAt(s, p, sl, v) ==
    CASE p = TlsBase("gpr")                -> [s EXCEPT !.gbuf[sl] = v]
      [] p = TlsBase("result") /\ sl = 0   -> [s EXCEPT !.rbuf = v]
      [] OTHER                             -> [s EXCEPT !.wild = TRUE]

LoadAt(s, r, p, sl) ==
    CASE p = TlsBase("gpr")                -> [s EXCEPT !.gpr[r] = s.gbuf[sl]]
      [] p = TlsBase("result") /\ sl = 0   -> [s EXCEPT !.gpr[r] = s.rbuf]
      [] OTHER                             -> [s EXCEPT !.gpr[r] = Junk, !.wild = TRUE]

Offset(p, sl) == IF p.t = "buf" /\ p.slot = "base" THEN [p EXCEPT !.slot = sl] ELSE Junk

BinTerm(f, a, b) == [t |-> "bop", f |-> f, a |-> a, b |-> b]
FusedTerm(f, a, b, c) == [t |-> "fop", f |-> f, prod |-> {a, b}, c |-> c]

(* The stack pointer at the call, as a displacement from the              *)
(* application's; the return address and the callee's frame go below it.  *)
SpOffset(v) == CASE v = AppGpr("rsp")        -> 0
                 [] v = Sub32(AppGpr("rsp")) -> -32
                 [] OTHER                    -> 1

(* The call made by dr_insert_call, on the application's stack: the     *)
(* return address and the callee's frame are written below the stack    *)
(* pointer before padloc_backend{,_fused}<FTYPE, F, INSTR_CATEGORY,      *)
(* SIMD_TYPE>::apply (double) reads its operands; then the callee's      *)
(* clobbers of the caller-saved state.                                    *)
CallBackend(s, u) ==
    LET off    == SpOffset(s.gpr["rsp"])
        s0     == [s EXCEPT !.stack = @ \cup {d \in Disps : d < off}]
        tgt    == s.rbuf
        args   == <<LanesAt(s0, s.gpr[OP_A]), LanesAt(s0, s.gpr[OP_B]), LanesAt(s0, s.gpr[OP_C])>>
        nb     == CASE u.simd = "128" -> 2 [] u.simd = "256" -> 4
                    [] u.simd = "512" -> 8 [] OTHER -> 1
        maxnb  == IF u.isa = "SSE" THEN 2 ELSE 4
        lo     == IF nb > 2 THEN nb ELSE 2
        lane(l) == IF u.n = 2 THEN BinTerm(u.f, args[1][l], args[2][l])
                   ELSE FusedTerm(u.f, args[1][l], args[2][l], args[3][l])
        argsOk == \A k \in 1..u.n : IsSimdPtr(s.gpr[<<OP_A, OP_B, OP_C>>[k]])
                                    \/ s.gpr[<<OP_A, OP_B, OP_C>>[k]].t \in {"ea", "abs"}
        s1     == IF IsSimdPtr(tgt)
                  THEN [s0 EXCEPT !.fbuf[tgt.slot] =
                          [l \in Lanes |-> IF l <= nb THEN lane(l)
                                           ELSE IF u.isa = "AVX" /\ lo < l /\ l <= maxnb
                                                THEN Zero ELSE @[l]]]
                  ELSE s0
    IN  [s1 EXCEPT !.gpr   = [g \in Gprs |-> IF g \in CallerSaved THEN Junk ELSE @[g]],
                   !.simd  = [r \in SimdRegs |-> [l \in Lanes |-> Junk]],
                   !.flags = [arith |-> Junk, of |-> Junk],
                   !.wild  = @ \/ ~IsSimdPtr(tgt) \/ ~argsOk \/ off > 0]

(* One meta-instruction.                                                   *)
Exec(s, u) ==
    CASE u.u = "spill"   -> [s EXCEPT !.spill = s.gpr[u.r]]
      [] u.u = "unspill" -> [s EXCEPT !.gpr[u.r] = s.spill]
      [] u.u = "readtls" -> [s EXCEPT !.gpr[u.r] = TlsBase(u.f)]
      [] u.u = "store"   -> StoreAt(s, s.gpr[u.b], u.s, s.gpr[u.r])
      [] u.u = "load"    -> LoadAt(s, u.r, s.gpr[u.b], u.s)
      [] u.u = "lea"     -> [s EXCEPT !.gpr[u.r] = Offset(s.gpr[u.b], u.s)]
      [] u.u = "leaea"   -> [s EXCEPT !.gpr[u.r] = EA(RegOrNone(s, u.b), RegOrNone(s, u.i), u.d)]
      [] u.u = "loadint" -> [s EXCEPT !.gpr[u.r] = AbsEA(u.a)]
      [] u.u = "lahf"    -> [s EXCEPT !.gpr["rax"] = Lahf(s.flags.arith, @)]
      [] u.u = "sahf"    -> [s EXCEPT !.flags.arith = IF s.gpr["rax"].t = "ah"
                                                      THEN s.gpr["rax"].flags ELSE Junk]
      [] u.u = "vstore"  -> IF s.gpr[u.b] = TlsBase("float")
                            THEN [s EXCEPT !.fbuf[u.s] = s.simd[u.v]]
                            ELSE [s EXCEPT !.wild = TRUE]
      [] u.u = "vload"   -> IF s.gpr[u.b] = TlsBase("float")
                            THEN [s EXCEPT !.simd[u.v] = s.fbuf[u.s]]
                            ELSE [s EXCEPT !.simd[u.v] = [l \in Lanes |-> Junk], !.wild = TRUE]
      [] u.u = "sub32"   -> [s EXCEPT !.gpr["rsp"] = Sub32(@),
                                      !.flags = [arith |-> Junk, of |-> Junk]]
      [] u.u = "call"    -> CallBackend(s, u)

----------------------------------------------------------------------------
(* The reference: the original instruction executed by the processor     *)
(* (Intel SDM).  Legacy SSE leaves the bits of the destination above the  *)
(* operation untouched; a VEX instruction takes bits 127:64 of a scalar   *)
(* result from its first source (FMA: the destination) and zeroes the     *)
(* bits above 127 of a 128-bit result.                                    *)
NatFn(mn) == CASE mn = "fnmadd" -> "nfmadd" [] mn = "fnmsub" -> "nfmsub" [] OTHER -> mn

NatEA(s, o) == IF o.kind = "abs" THEN AbsEA(o.addr)
               ELSE EA(RegOrNone(s, o.base), RegOrNone(s, o.index), o.disp)

OpVal(s, o) == IF o.kind = "reg" THEN s.simd[o.reg] ELSE MemAt(s, NatEA(s, o))

NatFp(s, ins) ==
    LET o     == [k \in 1..Len(ins.ops) |-> OpVal(s, ins.ops[k])]
        fused == ins.opc.mn \in FusedMn
        f     == NatFn(ins.opc.mn)
        n     == IF ins.opc.packed
                 THEN (CHOOSE z \in {ins.ops[k].size : k \in 1..Len(ins.ops)} :
                         \A k \in 1..Len(ins.ops) : ins.ops[k].size <= z) \div 8
                 ELSE 1
        val(l) == IF fused
                  THEN CASE ins.opc.order = 132 -> FusedTerm(f, o[1][l], o[3][l], o[2][l])
                         [] ins.opc.order = 213 -> FusedTerm(f, o[2][l], o[1][l], o[3][l])
                         [] ins.opc.order = 231 -> FusedTerm(f, o[2][l], o[3][l], o[1][l])
                  ELSE IF ins.opc.vex THEN BinTerm(f, o[2][l], o[3][l])
                  ELSE BinTerm(f, o[1][l], o[2][l])
        keep(l) == IF ~ins.opc.vex THEN o[1][l]
                   ELSE IF l <= 2 THEN (IF fused THEN o[1][l] ELSE o[2][l])
                   ELSE Zero
    IN  [s EXCEPT !.simd[ins.ops[1].reg] = [l \in Lanes |-> IF l <= n THEN val(l) ELSE keep(l)]]

(* A general-purpose instruction (`add reg, imm'): writes its register    *)
(* and every flag.  A branch changes nothing the model observes.           *)
NatInt(s, ins) ==
    [s EXCEPT !.gpr[ins.ops[1].reg] = [t |-> "int", v |-> @],
              !.flags = [arith |-> [t |-> "int", v |-> @.arith], of |-> [t |-> "int", v |-> @.of]]]

NatStep(s, ins) ==
    CASE IsFpInstr(ins)      -> NatFp(s, ins)
      [] ins.opc.mn = "int"  -> NatInt(s, ins)
      [] OTHER               -> s

NatBlock == FoldLeft(NatStep, M0, bb)

(* One piece of the rewritten block: a kept instruction runs natively, an *)
(* inserted piece runs its meta-instructions in order.                    *)
RunPiece(s, c) == IF c.k = "app" THEN NatStep(s, c.ins) ELSE FoldLeft(Exec, s, Expand(c))

----------------------------------------------------------------------------
VARIABLES
    m,     \* the machine running the rewritten block
    xpc    \* the index in `out' of the next piece to run

vars == <<rvars, m, xpc>>

TInit == Init /\ m = M0 /\ xpc = 1

(* The steps of the handler app2app_bb_event (module Rewriter) leave the *)
(* machine alone: the block runs once the handler has returned.          *)
Frozen == UNCHANGED <<m, xpc>>

(* The code cache runs the rewritten block, one piece at a time.         *)
RunNext ==
    /\ pc = "done"
    /\ xpc <= Len(out)
    /\ m' = RunPiece(m, out[xpc])
    /\ xpc' = xpc + 1
    /\ UNCHANGED rvars

Next ==
    \/ SkipBlock /\ Frozen
    \/ StartBlock /\ Frozen
    \/ OuterIter /\ Frozen
    \/ OuterEnd /\ Frozen
    \/ KeepInstr /\ Frozen
    \/ Instrument /\ Frozen
    \/ RunNext

Spec == TInit /\ [][Next]_vars /\ WF_vars(Next)

Finished == pc = "done" /\ xpc > Len(out)

----------------------------------------------------------------------------
(* The saved state and the backend call leave the application's general   *)
(* registers and the arithmetic flags (the byte lahf/sahf carry) as the   *)
(* original block leaves them: insert_save_gpr_and_flags,                 *)
(* insert_restore_gpr_and_flags, insert_restore_rsp and the operand       *)
(* setup never lose a register value, whatever block and runs they meet.  *)
AppStatePreserved ==
    Finished => /\ m.gpr = NatBlock.gpr
                /\ m.flags.arith = NatBlock.flags.arith

(* The rewritten block leaves every vector register as the original block *)
(* does: each backend call reads the operands the instruction reads (from *)
(* the SIMD image or application memory), in the order its operation     *)
(* takes them, and its result lands in the destination's image lanes.    *)
SimdMatchesNative == Finished => m.simd = NatBlock.simd

(* The rewritten code never dereferences a pointer that is neither one of *)
(* the thread's buffers nor an application operand address.               *)
NoWildAccess == ~m.wild

(* All of RFLAGS the application can test, OF included, is as the         *)
(* original block leaves it (spec 4.4: the rewriter preserves "full       *)
(* application-register and flag state"); lahf/sahf carry SF ZF AF PF CF *)
(* only, and the backend call and `sub rsp, 32' overwrite OF.             *)
FlagsPreserved == Finished => m.flags = NatBlock.flags
=============================================================================
