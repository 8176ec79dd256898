---------------------------- MODULE MCTrampoline ----------------------------
(***************************************************************************)
(* A small instance of Trampoline: three vector registers, eight general   *)
(* registers in the GPR_ORDER order of padloc_client.cpp, and blocks of    *)
(* up to MaxInstrs instructions drawn from one instruction of each shape   *)
(* the rewriter distinguishes, each block ending with a branch as host     *)
(* basic blocks do.                                                        *)
(***************************************************************************)
EXTENDS Trampoline

MaxInstrs == 3

MCGprOrder == <<"rax", "rcx", "rdx", "rbx", "rsp", "rsi", "rdi", "r8">>
MCGprs == {MCGprOrder[i] : i \in 1..Len(MCGprOrder)}
MCSimdRegs == {"xmm0", "xmm1", "xmm2"}
MCDisps == {8, -8}
MCAddrs == {"g"}

R(r, sz) == [kind |-> "reg", reg |-> r, base |-> "noreg", index |-> "noreg",
             disp |-> 8, addr |-> "noreg", size |-> sz]
M(b, i, d, sz) == [kind |-> "mem", reg |-> "noreg", base |-> b, index |-> i,
                   disp |-> d, addr |-> "noreg", size |-> sz]
A(a, sz) == [kind |-> "abs", reg |-> "noreg", base |-> "noreg", index |-> "noreg",
             disp |-> 8, addr |-> a, size |-> sz]
Op(mn, vex, packed, order) == [mn |-> mn, vex |-> vex, packed |-> packed, prec |-> "d", order |-> order]
I(opc, ops) == [opc |-> opc, evex |-> FALSE, ops |-> ops]

\* subsd xmm0, xmm1
SubSd   == I(Op("sub", FALSE, FALSE, 0), <<R("xmm0", 8), R("xmm1", 8)>>)
\* subpd xmm1, [rbx + rdi + 8]
SubPdM  == I(Op("sub", FALSE, TRUE, 0), <<R("xmm1", 16), M("rbx", "rdi", 8, 16)>>)
\* vsubsd xmm2, xmm2, xmm0
VSubSd  == I(Op("sub", TRUE, FALSE, 0), <<R("xmm2", 8), R("xmm2", 8), R("xmm0", 8)>>)
\* vdivpd ymm0, ymm1, [rsi - 8]
VDivPdM == I(Op("div", TRUE, TRUE, 0), <<R("xmm0", 32), R("xmm1", 32), M("rsi", "noreg", -8, 32)>>)
\* vfmsub231sd xmm0, xmm1, xmm2
Fms231  == I(Op("fmsub", TRUE, FALSE, 231), <<R("xmm0", 8), R("xmm1", 8), R("xmm2", 8)>>)
\* vfnmadd132pd ymm1, ymm2, [rsp - 8]
Fnma132 == I(Op("fnmadd", TRUE, TRUE, 132), <<R("xmm1", 32), R("xmm2", 32), M("rsp", "noreg", -8, 32)>>)
\* vfmadd213pd xmm2, xmm0, [g]
Fma213  == I(Op("fmadd", TRUE, TRUE, 213), <<R("xmm2", 16), R("xmm0", 16), A("g", 16)>>)
\* add rbx, 8
AddRbx  == I(Op("int", FALSE, FALSE, 0), <<R("rbx", 8)>>)
\* vaddpd xmm0, xmm1, xmm2 with an EVEX prefix
EvexAdd == [I(Op("add", TRUE, TRUE, 0), <<R("xmm0", 16), R("xmm1", 16), R("xmm2", 16)>>)
            EXCEPT !.evex = TRUE]
\* jmp
Jmp     == I(Op("jmp", FALSE, FALSE, 0), <<>>)

MCInstrs == {SubSd, SubPdM, VSubSd, VDivPdM, Fms231, Fnma132, Fma213, AddRbx, EvexAdd}

MCBlocks == UNION {{s \o <<Jmp>> : s \in [1..n -> MCInstrs]} : n \in 1..MaxInstrs}

(* Blocks the host truncates (instruction limit, page end) may end with   *)
(* a floating-point instruction instead of a branch.                      *)
MCTruncatedBlocks == UNION {[1..n -> MCInstrs] : n \in 1..2}

\* vsubsd xmm2, xmm1, xmm0: a three-operand AVX scalar with dst # src1
VSubSd3 == I(Op("sub", TRUE, FALSE, 0), <<R("xmm2", 8), R("xmm1", 8), R("xmm0", 8)>>)
MCMergeBlocks == {<<VSubSd3, Jmp>>, <<SubSd, VSubSd3, Jmp>>}

\* vfnmadd132pd ymm1, ymm2, [rsp - 40]: an operand in the System V red zone
Fnma132Rz == I(Op("fnmadd", TRUE, TRUE, 132), <<R("xmm1", 32), R("xmm2", 32), M("rsp", "noreg", -40, 32)>>)
MCRedZoneDisps == {8, -8, -40}
MCRedZoneBlocks == {<<Fnma132Rz, Jmp>>, <<SubSd, Fnma132Rz, Jmp>>, <<SubSd, AddRbx, Fnma132Rz, Jmp>>}
=============================================================================
