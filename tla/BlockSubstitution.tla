-------------------------- MODULE BlockSubstitution --------------------------
(***************************************************************************)
(* What the rewriter promises for one basic block (spec, sections 1 and  *)
(* 4: "each hardware add/sub/mul/div/fma is replaced ... with a call into *)
(* a pluggable floating-point backend"; unsupported wide encodings are   *)
(* seen but skipped).  The block is translated instruction by instruction *)
(* in block order: an instruction the spec calls replaceable becomes one  *)
(* backend call for it, any other stays as it is; a block the filter      *)
(* rejects is left whole.  How the calls are bracketed by saves and       *)
(* restores is the business of the detailed module Rewriter.              *)
(***************************************************************************)
EXTENDS Naturals, Sequences

CONSTANTS
    Blocks,           \* the basic blocks the host may hand over
    Replaceable(_)    \* the instructions the spec says are replaced

VARIABLES
    blk,      \* the block
    filt,     \* the filter's decision for it
    res,      \* what the block has become so far, one entry per instruction
    stage     \* "open" while it is being translated, "closed" once returned

subst_vars == <<blk, filt, res, stage>>

(* The translation of one instruction.                                    *)
Piece(ins) == [k |-> IF Replaceable(ins) THEN "call" ELSE "app", ins |-> ins]

(* The translation of a whole accepted block, and a rejected one.        *)
Translation(s) == [i \in 1..Len(s) |-> Piece(s[i])]
Untouched(s) == [i \in 1..Len(s) |-> [k |-> "app", ins |-> s[i]]]

Init ==
    /\ blk \in Blocks
    /\ filt \in BOOLEAN
    /\ res = <<>>
    /\ stage = "open"

(* The filter rejects the block: it is returned unchanged.               *)
Keep ==
    /\ stage = "open" /\ ~filt /\ res = <<>>
    /\ res' = Untouched(blk)
    /\ stage' = "closed"
    /\ UNCHANGED <<blk, filt>>

(* The next instruction of an accepted block is translated.              *)
Translate ==
    /\ stage = "open" /\ filt /\ Len(res) < Len(blk)
    /\ res' = Append(res, Piece(blk[Len(res) + 1]))
    /\ UNCHANGED <<blk, filt, stage>>

(* Every instruction is translated: the block is returned.               *)
Close ==
    /\ stage = "open" /\ filt /\ Len(res) = Len(blk)
    /\ stage' = "closed"
    /\ UNCHANGED <<blk, filt, res>>

Next == Keep \/ Translate \/ Close

Spec == Init /\ [][Next]_subst_vars
=============================================================================
