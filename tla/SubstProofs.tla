----------------------------- MODULE SubstProofs -----------------------------
(***************************************************************************)
(* Proof that app2app_bb_event implements the block substitution the     *)
(* spec promises (module BlockSubstitution, property SubstRefinement of   *)
(* Rewriter), for every set of blocks: the backend calls and the kept     *)
(* instructions of the block it returns are, in block order, one per      *)
(* instruction of the original, a call exactly for those the spec says   *)
(* are replaced.  The refinement mapping is Kept(out) for the abstract    *)
(* block, and "closed" once the handler has returned.                     *)
(***************************************************************************)
EXTENDS ReplayProofs

(* The classifier instruments exactly the instructions the spec says are *)
(* replaced: the arithmetic and fused families, EVEX encodings excluded.  *)
LEMMA CategoryReplaceable ==
    ASSUME NEW ins \in Instr
    PROVE  plc_is_instrumented(plc_get_operation_category(ins)) <=> SpecReplaceable(ins)
<1>1. CASE ins.evex \/ ~IsFpInstr(ins)
  BY <1>1 DEF plc_get_operation_category, plc_is_instrumented, PLC_OTHER, SpecReplaceable
<1>2. CASE ~ins.evex /\ IsFpInstr(ins)
  <2>. DEFINE pr == IF ins.opc.prec = "d" THEN "DOUBLE" ELSE "FLOAT"
  <2>1. pr \in BaseFlags(ins.opc)
    BY DEF BaseFlags
  <2>2. pr \in plc_get_operation_category(ins)
    BY <1>2, <2>1 DEF plc_get_operation_category
  <2>. QED  BY <1>2, <2>2 DEF plc_is_instrumented, PLC_OTHER, SpecReplaceable
<1>. QED  BY <1>1, <1>2

(* The abstract translation of one instruction is the piece the rewriter *)
(* keeps for it: a backend call or the instruction itself.                *)
LEMMA PieceIsChunk ==
    ASSUME NEW ins \in Instr
    PROVE  Sub!Piece(ins) = Chunk(IF SpecReplaceable(ins) THEN "call" ELSE "app", ins)
BY DEF Sub!Piece, Chunk

(* One more instruction translated: the translation of the prefix grows  *)
(* by the translation of bb[p].                                           *)
LEMMA TranslationExtend ==
    ASSUME NEW bq \in Seq(Instr), NEW p \in 1..Len(bq)
    PROVE  Append(Sub!Translation(SubSeq(bq, 1, p - 1)), Sub!Piece(bq[p]))
             = Sub!Translation(SubSeq(bq, 1, p))
BY DEF Sub!Translation

(* The translation of the whole block is that of its longest prefix, and *)
(* the translation of the empty prefix is empty.                          *)
LEMMA TranslationBounds ==
    ASSUME NEW bq \in Seq(Instr)
    PROVE  /\ Sub!Translation(SubSeq(bq, 1, Len(bq))) = Sub!Translation(bq)
           /\ Sub!Translation(SubSeq(bq, 1, 0)) = <<>>
           /\ \A p \in 0..Len(bq) : Len(Sub!Translation(SubSeq(bq, 1, p))) = p
BY DEF Sub!Translation

-----------------------------------------------------------------------------
(* The handler starts in a state of SubstInv.                             *)
LEMMA SubstInvInit == Init => SubstInv
<1>. SUFFICES ASSUME Init PROVE SubstInv
  OBVIOUS
<1>1. LoopInv
  BY LoopInvInit
<1>. QED  BY <1>1 DEF Init, SubstInv

(* Every step of the handler keeps SubstInv.                              *)
LEMMA SubstInvStep == SubstInv /\ [RNext]_rvars => SubstInv'
<1>. SUFFICES ASSUME SubstInv, [RNext]_rvars PROVE SubstInv'
  OBVIOUS
<1>0. /\ LoopInv'
      /\ bb \in Seq(Instr) /\ pos \in 1..Len(bb) + 1 /\ out \in Seq(Chunks)
      /\ registers_saved \in BOOLEAN
      /\ pc = "body" => pos <= Len(bb)
      /\ should_continue => plc_is_instrumented(oc)
  BY LoopInvStep DEF SubstInv, LoopInv, TypeOK
<1>1. CASE SkipBlock
  <2>1. /\ out' = [i \in 1..Len(bb) |-> Chunk("app", bb[i])]
        /\ ~needs' /\ pc' = "done" /\ bb' = bb
    BY <1>1 DEF SkipBlock
  <2>2. Kept(out') = [i \in 1..Len(bb) |-> Chunk("app", bb[i])]
    BY <1>0, <2>1, KeptAllApp
  <2>3. Kept(out') = Sub!Untouched(bb')
    BY <2>1, <2>2 DEF Sub!Untouched, Chunk
  <2>. QED  BY <1>0, <2>1, <2>3 DEF SubstInv
<1>2. CASE StartBlock
  <2>1. out = <<>> /\ pos = 1
    BY <1>2 DEF StartBlock, SubstInv
  <2>2. /\ out' = <<>> /\ pos' = 1 /\ bb' = bb /\ needs' /\ pc' = "outer"
    BY <1>2, <2>1 DEF StartBlock
  <2>3. Kept(out') = Kept(<<>>)
    BY <2>2
  <2>4. Sub!Translation(SubSeq(bb', 1, pos' - 1)) = Sub!Translation(SubSeq(bb, 1, 0))
    BY <2>2
  <2>5. Kept(out') = Sub!Translation(SubSeq(bb', 1, pos' - 1))
    BY <1>0, <2>3, <2>4, KeptEmpty, TranslationBounds
  <2>. QED  BY <1>0, <2>2, <2>5 DEF SubstInv
<1>3. CASE OuterIter
  BY <1>0, <1>3 DEF OuterIter, SubstInv
<1>4. CASE OuterEnd
  <2>1. pos = Len(bb) + 1
    BY <1>0, <1>4 DEF OuterEnd
  <2>2. Sub!Translation(SubSeq(bb, 1, pos - 1)) = Sub!Translation(bb)
    BY <1>0, <2>1, TranslationBounds
  <2>. QED  BY <1>0, <1>4, <2>2 DEF OuterEnd, SubstInv
<1>5. CASE KeepInstr
  <2>1. /\ pc = "body" /\ pos \in 1..Len(bb) /\ needs
        /\ oc = plc_get_operation_category(bb[pos])
        /\ Kept(out) = Sub!Translation(SubSeq(bb, 1, pos - 1))
    BY <1>0, <1>5 DEF KeepInstr, SubstInv
  <2>2. ~SpecReplaceable(bb[pos])
    BY <1>0, <1>5, <2>1, CategoryReplaceable DEF KeepInstr
  <2>3. Sub!Piece(bb[pos]) = Chunk("app", bb[pos])
    BY <1>0, <2>1, <2>2, PieceIsChunk
  <2>4. Chunk("app", bb[pos]) \in Chunks /\ Chunk("app", bb[pos]).k \in KeptKinds
    BY <1>0, <2>1 DEF Chunk, Chunks, Kinds, KeptKinds
  <2>5. Kept(Append(out, Chunk("app", bb[pos]))) = Append(Kept(out), Chunk("app", bb[pos]))
    BY <1>0, <2>4, KeptAppendKept
  <2>6. /\ out' = Append(out, Chunk("app", bb[pos]))
        /\ pos' = pos + 1 /\ bb' = bb /\ needs' = needs /\ pc' = "outer"
    BY <1>0, <1>5, <2>1 DEF KeepInstr
  <2>7. Kept(out') = Sub!Translation(SubSeq(bb, 1, pos))
    BY <1>0, <2>1, <2>3, <2>5, <2>6, TranslationExtend
  <2>8. SubSeq(bb', 1, pos' - 1) = SubSeq(bb, 1, pos)
    BY <1>0, <2>6
  <2>. QED  BY <1>0, <2>1, <2>6, <2>7, <2>8 DEF SubstInv
<1>6. CASE Instrument
  <2>1. /\ pc = "body" /\ pos \in 1..Len(bb) /\ needs
        /\ oc = plc_get_operation_category(bb[pos])
        /\ Kept(out) = Sub!Translation(SubSeq(bb, 1, pos - 1))
    BY <1>0, <1>6 DEF Instrument, SubstInv
  <2>2. SpecReplaceable(bb[pos])
    BY <1>0, <1>6, <2>1, CategoryReplaceable DEF Instrument
  <2>3. Sub!Piece(bb[pos]) = Chunk("call", bb[pos])
    BY <1>0, <2>1, <2>2, PieceIsChunk
  <2>4. \A cont \in BOOLEAN :
          Kept(out \o Prologue(bb[pos], registers_saved) \o Epilogue(bb[pos], cont))
            = Sub!Translation(SubSeq(bb, 1, pos))
    <3>. SUFFICES ASSUME NEW cont \in BOOLEAN
                  PROVE  Kept(out \o Prologue(bb[pos], registers_saved) \o Epilogue(bb[pos], cont))
                           = Sub!Translation(SubSeq(bb, 1, pos))
      OBVIOUS
    <3>1. Kept(out \o Prologue(bb[pos], registers_saved) \o Epilogue(bb[pos], cont))
            = Append(Kept(out), Chunk("call", bb[pos]))
      BY <1>0, <2>1, KeptInstrument
    <3>. QED  BY <1>0, <2>1, <2>3, <3>1, TranslationExtend
  <2>5. CASE pos = Len(bb)
    <3>1. /\ out' = out \o Prologue(bb[pos], registers_saved)
          /\ pc' = "crashed" /\ bb' = bb /\ needs' = needs
      BY <1>6, <2>5 DEF Instrument
    <3>2. out \o Prologue(bb[pos], registers_saved)
            = out \o Prologue(bb[pos], registers_saved) \o Epilogue(bb[pos], TRUE)
      BY DEF Epilogue
    <3>3. Kept(out') = Sub!Translation(bb)
      BY <1>0, <2>4, <2>5, <3>1, <3>2, TranslationBounds
    <3>. QED  BY <1>0, <2>1, <3>1, <3>3 DEF SubstInv
  <2>6. CASE pos # Len(bb)
    <3> DEFINE noc  == plc_get_operation_category(bb[pos + 1])
               cont == plc_is_instrumented(noc)
    <3>1. /\ out' = out \o Prologue(bb[pos], registers_saved) \o Epilogue(bb[pos], cont)
          /\ pos' = pos + 1 /\ oc' = noc
          /\ pc' \in {"outer", "body"}
          /\ bb' = bb /\ needs' = needs
      BY <1>6, <2>6 DEF Instrument
    <3>2. cont \in BOOLEAN
      BY DEF plc_is_instrumented
    <3>3. Kept(out') = Sub!Translation(SubSeq(bb, 1, pos))
      BY <2>4, <3>1, <3>2
    <3>4. SubSeq(bb', 1, pos' - 1) = SubSeq(bb, 1, pos)
      BY <1>0, <3>1
    <3>5. oc' = plc_get_operation_category(bb'[pos'])
      BY <3>1
    <3>. QED  BY <1>0, <2>1, <3>1, <3>3, <3>4, <3>5 DEF SubstInv
  <2>. QED  BY <2>5, <2>6
<1>7. CASE UNCHANGED rvars
  BY <1>0, <1>7 DEF rvars, SubstInv
<1>. QED  BY <1>1, <1>2, <1>3, <1>4, <1>5, <1>6, <1>7 DEF RNext

(* THEOREM: SubstInv holds in every state of app2app_bb_event, for every *)
(* set of blocks: in the loop the kept pieces so far translate the        *)
(* instructions before `instr', and `oc' is the category of `instr'.      *)
THEOREM SubstInvariant == RSpec => []SubstInv
BY SubstInvInit, SubstInvStep, PTL DEF RSpec

(* Every step of the handler between two states of SubstInv is a step of *)
(* the block substitution or leaves its state as it is: SkipBlock is Keep,*)
(* KeepInstr and Instrument are Translate, OuterEnd is Close, and the     *)
(* other steps only move the handler's locals.                            *)
LEMMA SubstStep ==
    SubstInv /\ SubstInv' /\ [RNext]_rvars => [Sub!Next]_Sub!subst_vars
<1>. SUFFICES ASSUME SubstInv, SubstInv', [RNext]_rvars
              PROVE  [Sub!Next]_Sub!subst_vars
  OBVIOUS
<1>0. /\ bb \in Seq(Instr) /\ pos \in 1..Len(bb) + 1 /\ out \in Seq(Chunks)
      /\ pc = "body" => pos <= Len(bb)
  BY DEF SubstInv, LoopInv, TypeOK
<1>1. CASE SkipBlock
  <2>1. /\ pc = "start" /\ ~needs /\ out = <<>>
        /\ pc' = "done" /\ bb' = bb /\ needs' = needs
    BY <1>1 DEF SkipBlock, SubstInv
  <2>2. Kept(out) = <<>>
    BY <2>1, KeptEmpty
  <2>3. Kept(out') = Sub!Untouched(bb)
    BY <2>1 DEF SubstInv
  <2>. QED  BY <2>1, <2>2, <2>3 DEF Sub!Next, Sub!Keep
<1>2. CASE StartBlock \/ OuterIter
  BY <1>2 DEF StartBlock, OuterIter, Sub!subst_vars
<1>3. CASE OuterEnd
  <2>1. /\ pc = "outer" /\ pos = Len(bb) + 1 /\ needs
        /\ pc' = "done" /\ UNCHANGED <<bb, needs, out>>
    BY <1>0, <1>3 DEF OuterEnd, SubstInv
  <2>2. Kept(out) = Sub!Translation(bb)
    BY <1>0, <2>1, TranslationBounds DEF SubstInv
  <2>3. Len(Kept(out)) = Len(bb)
    BY <1>0, <2>2 DEF Sub!Translation
  <2>. QED  BY <2>1, <2>3 DEF Sub!Next, Sub!Close
<1>4. CASE KeepInstr \/ Instrument
  <2>1. /\ pc = "body" /\ pos \in 1..Len(bb) /\ needs
        /\ Kept(out) = Sub!Translation(SubSeq(bb, 1, pos - 1))
        /\ pc' \in {"outer", "body", "crashed"}
        /\ pos' \in {pos, pos + 1} /\ (pc' # "crashed" => pos' = pos + 1)
        /\ (pc' = "crashed" => pos = Len(bb))
        /\ bb' = bb /\ needs' = needs
    BY <1>0, <1>4 DEF KeepInstr, Instrument, SubstInv
  <2>2. Kept(out') = Sub!Translation(SubSeq(bb, 1, pos))
    <3>1. CASE pc' = "crashed"
      BY <1>0, <2>1, <3>1, TranslationBounds DEF SubstInv
    <3>2. CASE pc' # "crashed"
      <4>1. SubSeq(bb', 1, pos' - 1) = SubSeq(bb, 1, pos)
        BY <1>0, <2>1, <3>2
      <4>. QED  BY <2>1, <3>2, <4>1 DEF SubstInv
    <3>. QED  BY <3>1, <3>2
  <2>3. Len(Kept(out)) = pos - 1
    BY <1>0, <2>1, TranslationBounds
  <2>4. Kept(out') = Append(Kept(out), Sub!Piece(bb[Len(Kept(out)) + 1]))
    <3>1. Append(Sub!Translation(SubSeq(bb, 1, pos - 1)), Sub!Piece(bb[pos]))
            = Sub!Translation(SubSeq(bb, 1, pos))
      BY <1>0, <2>1, TranslationExtend
    <3>2. bb[Len(Kept(out)) + 1] = bb[pos]
      BY <1>0, <2>1, <2>3
    <3>. QED  BY <2>1, <2>2, <3>1, <3>2
  <2>5. Len(Kept(out)) < Len(bb)
    BY <1>0, <2>1, <2>3
  <2>. QED  BY <2>1, <2>4, <2>5 DEF Sub!Next, Sub!Translate
<1>5. CASE UNCHANGED rvars
  BY <1>5 DEF rvars, Sub!subst_vars
<1>. QED  BY <1>1, <1>2, <1>3, <1>4, <1>5 DEF RNext

(* THEOREM: for every set of blocks, app2app_bb_event implements the      *)
(* block substitution of the spec (SubstRefinement): the backend calls   *)
(* and kept instructions of the block it builds are, at every step and in *)
(* block order, one per instruction handled so far, a backend call       *)
(* exactly for the add/sub/mul/div/fma instructions without an EVEX       *)
(* prefix of a block the filter accepts, and the block is only returned  *)
(* once all its instructions are translated (or left whole when the       *)
(* filter rejects it).                                                    *)
THEOREM SubstRefinementCorrect == RSpec => SubstRefinement
<1>1. Init => Sub!Init
  BY KeptEmpty DEF Init, Sub!Init
<1>. QED  BY <1>1, SubstStep, SubstInvariant, PTL
          DEF RSpec, SubstRefinement, Sub!Spec
=============================================================================
