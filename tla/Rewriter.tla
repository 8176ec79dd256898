------------------------------ MODULE Rewriter ------------------------------
(***************************************************************************)
(* The block rewriter app2app_bb_event of padloc.cpp: one call of the     *)
(* handler on one basic block.  The handler walks the application         *)
(* instructions of the block; before each instrumented instruction it     *)
(* inserts the pieces of the trampoline (the insert_* helpers of          *)
(* padloc_client.cpp) and removes the instruction.  A run of consecutive   *)
(* instrumented instructions shares one save of the registers (before its *)
(* first instruction) and one restore (after its last).                    *)
(*                                                                         *)
(* The rewritten block is `out', the sequence of inserted pieces and kept  *)
(* application instructions in block order.  A piece is named after the   *)
(* helper that emits it and remembers the instruction it is emitted for;  *)
(* what each piece does on the machine is the module Trampoline.          *)
(***************************************************************************)
EXTENDS Classifier

CONSTANTS
    Blocks    \* the basic blocks the host may hand to the handler

ASSUME BlocksAssumption == Blocks \subseteq Seq(Instr)

VARIABLES
    bb,               \* the block being rewritten (instrlist_t *bb)
    needs,            \* needs_to_instrument(bb), the filter's decision
    pos,              \* index in bb of `instr'; Len(bb) + 1 is NULL
    oc,               \* the OPERATION_CATEGORY local
    registers_saved,  \* the registers_saved local
    should_continue,  \* the should_continue local
    out,              \* the rewritten block
    pc                \* "start", "outer" (for header), "body" (do-while
                      \* body), "done" (returned), "crashed"

rvars == <<bb, needs, pos, oc, registers_saved, should_continue, out, pc>>

Kinds == {"save_gpr", "save_simd", "set_dest", "set_operands", "restore_rsp",
          "sub_rsp", "call", "restore_simd", "restore_gpr", "app"}

Chunk(k, ins) == [k |-> k, ins |-> ins]

Chunks == [k : Kinds, ins : Instr]

(* Faulty variant: the save is inserted before every instrumented        *)
(* instruction, whatever registers_saved says.                            *)
PrologueAlwaysSaves(ins, saved) ==
    <<Chunk("save_gpr", ins), Chunk("save_simd", ins),
      Chunk("set_dest", ins), Chunk("set_operands", ins),
      Chunk("restore_rsp", ins), Chunk("sub_rsp", ins), Chunk("call", ins)>>

(* What the instrumented branch inserts before `instr' up to the call,   *)
(* in the order of the code: the save (first instruction of a run only),  *)
(* insert_set_destination_tls, insert_set_operands, the stack setup       *)
(* (first instruction only), insert_call.                                 *)
Prologue(ins, saved) ==
    (IF saved THEN <<>> ELSE <<Chunk("save_gpr", ins), Chunk("save_simd", ins)>>)
    \o <<Chunk("set_dest", ins), Chunk("set_operands", ins)>>
    \o (IF saved THEN <<>> ELSE <<Chunk("restore_rsp", ins), Chunk("sub_rsp", ins)>>)
    \o <<Chunk("call", ins)>>

(* The restore inserted after the last instruction of a run.              *)
Epilogue(ins, cont) ==
    IF cont THEN <<>> ELSE <<Chunk("restore_simd", ins), Chunk("restore_gpr", ins)>>

Init ==
    /\ bb \in Blocks
    /\ needs \in BOOLEAN
    /\ pos = 1
    /\ oc = PLC_OTHER
    /\ registers_saved = FALSE
    /\ should_continue = FALSE
    /\ out = <<>>
    /\ pc = "start"

(* The filter rejects the block: return DR_EMIT_DEFAULT, block unchanged. *)
SkipBlock ==
    /\ pc = "start"
    /\ ~needs
    /\ out' = [i \in 1..Len(bb) |-> Chunk("app", bb[i])]
    /\ pc' = "done"
    /\ UNCHANGED <<bb, needs, pos, oc, registers_saved, should_continue>>

StartBlock ==
    /\ pc = "start"
    /\ needs
    /\ pc' = "outer"
    /\ UNCHANGED <<bb, needs, pos, oc, registers_saved, should_continue, out>>

(* Faulty variant of OuterIter: registers_saved is not reset at the head *)
(* of the for loop.                                                       *)
OuterIterKeepsSaved ==
    /\ pc = "outer"
    /\ pos <= Len(bb)
    /\ oc' = plc_get_operation_category(bb[pos])
    /\ should_continue' = FALSE
    /\ pc' = "body"
    /\ UNCHANGED <<bb, needs, pos, out, registers_saved>>

(* Head of the for loop: classify `instr' and reset the run's locals.     *)
OuterIter ==
    /\ pc = "outer"
    /\ pos <= Len(bb)
    /\ oc' = plc_get_operation_category(bb[pos])
    /\ registers_saved' = FALSE
    /\ should_continue' = FALSE
    /\ pc' = "body"
    /\ UNCHANGED <<bb, needs, pos, out>>

OuterEnd ==
    /\ pc = "outer"
    /\ pos > Len(bb)
    /\ pc' = "done"
    /\ UNCHANGED <<bb, needs, pos, oc, registers_saved, should_continue, out>>

(* Faulty variants of KeepInstr: `instr' advanced twice; the do-while     *)
(* loop continued on a kept instruction.                                  *)
KeepInstrSkipsNext ==
    /\ pc = "body"
    /\ ~plc_is_instrumented(oc)
    /\ out' = Append(out, Chunk("app", bb[pos]))
    /\ pos' = pos + 2
    /\ pc' = IF should_continue THEN "body" ELSE "outer"
    /\ UNCHANGED <<bb, needs, oc, registers_saved, should_continue>>

KeepInstrLoops ==
    /\ pc = "body"
    /\ ~plc_is_instrumented(oc)
    /\ out' = Append(out, Chunk("app", bb[pos]))
    /\ pos' = pos + 1
    /\ pc' = "body"
    /\ UNCHANGED <<bb, needs, oc, registers_saved, should_continue>>

(* One pass of the do-while body on an instruction that is not            *)
(* instrumented: it stays in the block.                                   *)
KeepInstr ==
    /\ pc = "body"
    /\ ~plc_is_instrumented(oc)
    /\ out' = Append(out, Chunk("app", bb[pos]))
    /\ pos' = pos + 1
    /\ pc' = IF should_continue THEN "body" ELSE "outer"
    /\ UNCHANGED <<bb, needs, oc, registers_saved, should_continue>>

(* One pass of the do-while body on an instrumented instruction: insert  *)
(* the prologue, classify next_instr, insert the epilogue when the run    *)
(* ends, remove the instruction.  plc_get_operation_category(next_instr)  *)
(* is called before next_instr is compared with nullptr: when `instr' is  *)
(* the last instruction of the block it dereferences NULL.                *)
Instrument ==
    /\ pc = "body"
    /\ plc_is_instrumented(oc)
    /\ LET ins == bb[pos]
           pro == Prologue(ins, registers_saved)
       IN  IF pos = Len(bb)
           THEN /\ out' = out \o pro
                /\ pc' = "crashed"
                /\ UNCHANGED <<bb, needs, pos, oc, registers_saved, should_continue>>
           ELSE LET noc  == plc_get_operation_category(bb[pos + 1])
                    cont == plc_is_instrumented(noc)
                IN  /\ oc' = noc
                    /\ should_continue' = cont
                    /\ out' = out \o pro \o Epilogue(ins, cont)
                    /\ registers_saved' = TRUE
                    /\ pos' = pos + 1
                    /\ pc' = IF cont THEN "body" ELSE "outer"
                    /\ UNCHANGED <<bb, needs>>

RNext == SkipBlock \/ StartBlock \/ OuterIter \/ OuterEnd \/ KeepInstr \/ Instrument

RSpec == Init /\ [][RNext]_rvars

----------------------------------------------------------------------------
(* The flags PLC_OP_* of padloc_operations.hpp that a category may carry. *)
OcFlags == {"DOUBLE", "FLOAT", "PACKED", "SCALAR", "ADD", "SUB", "MUL", "DIV",
            "FMA", "FMS", "132", "213", "231", "NEG", "128", "256", "512",
            "SSE", "AVX"}

(* The type of the handler's locals and of the rewritten block.           *)
TypeOK ==
    /\ bb \in Seq(Instr)
    /\ needs \in BOOLEAN
    /\ pos \in 1..Len(bb) + 1
    /\ oc \subseteq OcFlags
    /\ registers_saved \in BOOLEAN
    /\ should_continue \in BOOLEAN
    /\ out \in Seq(Chunks)
    /\ pc \in {"start", "outer", "body", "done", "crashed"}

(* The loop invariant of the handler: the do-while body is only entered  *)
(* on an instruction of the block, and should_continue is only set when   *)
(* `oc', the category of that next instruction, is instrumented (so the   *)
(* loop `while (should_continue)' never runs past the block's end).       *)
LoopInv ==
    /\ TypeOK
    /\ pc = "body" => pos <= Len(bb)
    /\ should_continue => plc_is_instrumented(oc)

(* Position idx of seq runs with the registers saved: a save_gpr comes    *)
(* before it with no restore_gpr in between.                              *)
Inside(seq, idx) ==
    \E j \in 1..(idx - 1) : seq[j].k = "save_gpr" /\ \A l \in j..(idx - 1) : seq[l].k # "restore_gpr"

SavedKinds == Kinds \ {"app", "save_gpr"}

(* The save/restore bracketing of app2app_bb_event (registers_saved,      *)
(* should_continue): every piece that uses or restores the saved state    *)
(* (operand setup, stack setup, backend call, restores) runs while the    *)
(* registers are saved, no application instruction and no second save    *)
(* runs while they are, and a finished block leaves them restored.        *)
RunBracketing ==
    /\ \A i \in 1..Len(out) : out[i].k \in SavedKinds <=> Inside(out, i)
    /\ pc = "done" => ~Inside(out, Len(out) + 1)

(* The pieces of the rewritten block that stand for an instruction of   *)
(* the original: its kept instructions and the backend calls, in order.  *)
(* The j-th of them is the piece of rank j among them.                   *)
KeptKinds == {"app", "call"}
KeptIdx(s) == {i \in 1..Len(s) : s[i].k \in KeptKinds}
KeptRank(s, i) == Cardinality({l \in KeptIdx(s) : l <= i})
Kept(s) ==
    [j \in 1..Cardinality(KeptIdx(s)) |->
        s[CHOOSE i \in KeptIdx(s) : KeptRank(s, i) = j]]

(* The inductive form of RunBracketing: the registers are saved at the   *)
(* end of the rewritten block exactly when the do-while loop is in a run  *)
(* (registers_saved), which is exactly when it continues the run          *)
(* (should_continue), and never between runs.                             *)
SavedAtEnd == Inside(out, Len(out) + 1)

BracketInv ==
    /\ LoopInv
    /\ \A i \in 1..Len(out) : out[i].k \in SavedKinds <=> Inside(out, i)
    /\ pc = "start" => out = <<>>
    /\ pc \in {"start", "outer", "done"} => ~SavedAtEnd
    /\ pc = "body" => (SavedAtEnd <=> registers_saved)
    /\ pc = "body" => (registers_saved <=> should_continue)

(* The instructions the spec says are replaced by a backend call: the    *)
(* add/sub/mul/div/fma family, except the wide (EVEX) encodings, which    *)
(* are seen but skipped (spec, sections 1 and 3).                         *)
SpecReplaceable(ins) == IsFpInstr(ins) /\ ~ins.evex

Sub == INSTANCE BlockSubstitution
         WITH blk <- bb, filt <- needs, res <- Kept(out),
              stage <- IF pc = "done" THEN "closed" ELSE "open",
              Replaceable <- SpecReplaceable

(* app2app_bb_event implements the block substitution the spec promises: *)
(* the backend calls and the kept application instructions of the block   *)
(* it returns are, in block order, one per instruction of the original,   *)
(* a call exactly for the replaceable ones of a block the filter accepts; *)
(* the saves, restores and operand setup around them are invisible.       *)
SubstRefinement == Sub!Spec

(* The inductive invariant behind SubstRefinement: in the loop the kept  *)
(* pieces built so far translate the instructions before `instr', `oc'    *)
(* is the category of `instr' in the do-while body, and only a block the  *)
(* filter accepted gets there.                                            *)
SubstInv ==
    /\ LoopInv
    /\ pc = "start" => out = <<>> /\ pos = 1
    /\ pc \in {"outer", "body", "crashed"} => needs
    /\ pc = "body" => oc = plc_get_operation_category(bb[pos])
    /\ pc \in {"outer", "body"} => Kept(out) = Sub!Translation(SubSeq(bb, 1, pos - 1))
    /\ pc = "crashed" => Kept(out) = Sub!Translation(bb)
    /\ pc = "done" => Kept(out) = IF needs THEN Sub!Translation(bb) ELSE Sub!Untouched(bb)

(* app2app_bb_event never dereferences a NULL next_instr: every block it  *)
(* is handed is rewritten to the end.                                     *)
NoNullDeref == pc # "crashed"
=============================================================================
