--------------------------- MODULE RewriterProofs ---------------------------
(***************************************************************************)
(* Proofs about the block rewriter app2app_bb_event (module Rewriter) for *)
(* every set of blocks the host may hand it.                               *)
(***************************************************************************)
EXTENDS Rewriter, TLAPS

(* The flags of the enum constant of an FP opcode are PLC_OP_* flags.     *)
LEMMA BaseFlagsType ==
    ASSUME NEW opc \in Opcode, opc.mn \in ArithMn \cup FusedMn
    PROVE  BaseFlags(opc) \subseteq OcFlags
<1>1. (CASE opc.mn = "add" -> {"ADD"} [] opc.mn = "sub" -> {"SUB"}
         [] opc.mn = "mul" -> {"MUL"} [] opc.mn = "div" -> {"DIV"}
         [] opc.mn \in {"fmadd", "fnmadd"} -> {"FMA"}
         [] opc.mn \in {"fmsub", "fnmsub"} -> {"FMS"}) \subseteq OcFlags
  BY DEF ArithMn, FusedMn, OcFlags
<1>2. opc.mn \in FusedMn => opc.order \in {132, 213, 231}
  BY DEF Opcode
<1>3. QED
  BY <1>1, <1>2 DEF BaseFlags, OcFlags

(* get_size_flag sets at most one of the width flags.                      *)
LEMMA SizeFlagType ==
    ASSUME NEW ins \in Instr
    PROVE  get_size_flag(ins) \subseteq OcFlags
BY DEF get_size_flag, OcFlags

(* plc_get_operation_category only ever sets PLC_OP_* flags.               *)
LEMMA CategoryType ==
    ASSUME NEW ins \in Instr
    PROVE  plc_get_operation_category(ins) \subseteq OcFlags
<1>1. CASE ins.evex \/ ~IsFpInstr(ins)
  BY <1>1 DEF plc_get_operation_category, PLC_OTHER
<1>2. CASE ~ins.evex /\ IsFpInstr(ins)
  <2>1. ins.opc \in Opcode /\ ins.opc.mn \in ArithMn \cup FusedMn
    BY <1>2 DEF Instr, IsFpInstr
  <2>2. BaseFlags(ins.opc) \subseteq OcFlags
    BY <2>1, BaseFlagsType
  <2>3. get_size_flag(ins) \subseteq OcFlags
    BY SizeFlagType
  <2>4. QED
    BY <1>2, <2>2, <2>3 DEF plc_get_operation_category, OcFlags
<1>3. QED
  BY <1>1, <1>2

(* The pieces the instrumented branch inserts are pieces of a block.       *)
LEMMA PrologueType ==
    ASSUME NEW ins \in Instr, NEW saved \in BOOLEAN
    PROVE  Prologue(ins, saved) \in Seq(Chunks)
<1>1. \A k \in Kinds : Chunk(k, ins) \in Chunks
  BY DEF Chunk, Chunks
<1>2. /\ <<Chunk("save_gpr", ins), Chunk("save_simd", ins)>> \in Seq(Chunks)
      /\ <<Chunk("set_dest", ins), Chunk("set_operands", ins)>> \in Seq(Chunks)
      /\ <<Chunk("restore_rsp", ins), Chunk("sub_rsp", ins)>> \in Seq(Chunks)
      /\ <<Chunk("call", ins)>> \in Seq(Chunks)
  BY <1>1 DEF Kinds
<1>3. QED
  BY <1>2 DEF Prologue

(* The same holds of the restore inserted after a run.                     *)
LEMMA EpilogueType ==
    ASSUME NEW ins \in Instr, NEW cont \in BOOLEAN
    PROVE  Epilogue(ins, cont) \in Seq(Chunks)
<1>1. <<Chunk("restore_simd", ins), Chunk("restore_gpr", ins)>> \in Seq(Chunks)
  BY DEF Chunk, Chunks, Kinds
<1>2. QED
  BY <1>1 DEF Epilogue

(* Inside unfolded, for a position given by any natural number.           *)
LEMMA InsideDef ==
    ASSUME NEW seq, NEW idx \in Nat
    PROVE  Inside(seq, idx) <=> \E j \in 1..(idx - 1) :
                                  /\ seq[j].k = "save_gpr"
                                  /\ \A l \in j..(idx - 1) : seq[l].k # "restore_gpr"
BY DEF Inside

(* The same, for a position past a prefix s of the sequence.              *)
LEMMA InsideConcat ==
    ASSUME NEW s \in Seq(Chunks), NEW t \in Seq(Chunks), NEW n \in Nat
    PROVE  Inside(s \o t, Len(s) + n)
           <=> \E j \in 1..((Len(s) + n) - 1) :
                 /\ (s \o t)[j].k = "save_gpr"
                 /\ \A l \in j..((Len(s) + n) - 1) : (s \o t)[l].k # "restore_gpr"
<1> DEFINE u == s \o t
           a == Len(s) + n
<1>1. a \in Nat
  OBVIOUS
<1>2. Inside(u, a) <=> \E j \in 1..(a - 1) :
                         /\ u[j].k = "save_gpr"
                         /\ \A l \in j..(a - 1) : u[l].k # "restore_gpr"
  BY <1>1, InsideDef
<1>3. QED
  BY <1>2

(* Position n of s \o t, within s, is inside a run exactly when it is in s. *)
LEMMA InsidePrefix ==
    ASSUME NEW s \in Seq(Chunks), NEW t \in Seq(Chunks), NEW n \in 1..Len(s) + 1
    PROVE  Inside(s \o t, n) <=> Inside(s, n)
<1>1. \A j \in 1..(n - 1) : (s \o t)[j] = s[j]
  OBVIOUS
<1>2. QED
  BY <1>1 DEF Inside

(* A run open at position Len(s) + n of s \o t was opened in t, or in s    *)
(* and not closed in t before n.                                           *)
LEMMA InsideSuffixOnlyIf ==
    ASSUME NEW s \in Seq(Chunks), NEW t \in Seq(Chunks), NEW n \in 1..Len(t) + 1,
           Inside(s \o t, Len(s) + n)
    PROVE  \/ Inside(t, n)
           \/ /\ Inside(s, Len(s) + 1)
              /\ \A l \in 1..(n - 1) : t[l].k # "restore_gpr"
<1>1. /\ \A j \in 1..Len(s) : (s \o t)[j] = s[j]
      /\ \A j \in 1..Len(t) : (s \o t)[Len(s) + j] = t[j]
  OBVIOUS
<1>2. PICK j \in 1..(Len(s) + n - 1) :
         (s \o t)[j].k = "save_gpr"
         /\ \A l \in j..(Len(s) + n - 1) : (s \o t)[l].k # "restore_gpr"
  BY DEF Inside
<1>3. CASE j > Len(s)
  <2>1. j - Len(s) \in 1..(n - 1) /\ t[j - Len(s)].k = "save_gpr"
    BY <1>1, <1>2, <1>3
  <2>2. \A l \in (j - Len(s))..(n - 1) : t[l].k # "restore_gpr"
    <3> TAKE l \in (j - Len(s))..(n - 1)
    <3>1. Len(s) + l \in j..(Len(s) + n - 1) /\ (s \o t)[Len(s) + l] = t[l]
      BY <1>1, <1>3
    <3>2. QED
      BY <1>2, <3>1
  <2>3. QED
    BY <2>1, <2>2 DEF Inside
<1>4. CASE j <= Len(s)
  <2>1. s[j].k = "save_gpr" /\ \A l \in j..Len(s) : s[l].k # "restore_gpr"
    BY <1>1, <1>2, <1>4
  <2>2. \A l \in 1..(n - 1) : t[l].k # "restore_gpr"
    <3> TAKE l \in 1..(n - 1)
    <3>1. Len(s) + l \in j..(Len(s) + n - 1) /\ (s \o t)[Len(s) + l] = t[l]
      BY <1>1, <1>4
    <3>2. QED
      BY <1>2, <3>1
  <2>3. QED
    BY <1>4, <2>1, <2>2 DEF Inside
<1>5. QED
  BY <1>3, <1>4

(* A run opened in t is open in s \o t.                                    *)
LEMMA InsideSuffixFromT ==
    ASSUME NEW s \in Seq(Chunks), NEW t \in Seq(Chunks), NEW n \in 1..Len(t) + 1,
           Inside(t, n)
    PROVE  Inside(s \o t, Len(s) + n)
<1>1. \A m \in 1..Len(t) : (s \o t)[Len(s) + m] = t[m]
  OBVIOUS
<1>2. PICK m \in 1..(n - 1) :
         t[m].k = "save_gpr" /\ \A l \in m..(n - 1) : t[l].k # "restore_gpr"
  BY DEF Inside
<1>3. \A l \in (Len(s) + m)..(Len(s) + n - 1) : (s \o t)[l].k # "restore_gpr"
  <2> TAKE l \in (Len(s) + m)..(Len(s) + n - 1)
  <2>1. l - Len(s) \in m..(n - 1) /\ (s \o t)[l] = t[l - Len(s)]
    BY <1>1
  <2>2. QED
    BY <1>2, <2>1
<1>4. (s \o t)[Len(s) + m] = t[m]
  BY <1>1
<1>5. QED
  <2>0. n \in Nat /\ Len(s) + n \in Nat
    OBVIOUS
  <2>1. Inside(s \o t, Len(s) + n) <=> \E j \in 1..((Len(s) + n) - 1) :
                     /\ (s \o t)[j].k = "save_gpr"
                     /\ \A l \in j..((Len(s) + n) - 1) : (s \o t)[l].k # "restore_gpr"
    BY <2>0, InsideConcat
  <2>2. SUFFICES \E j \in 1..((Len(s) + n) - 1) :
                   /\ (s \o t)[j].k = "save_gpr"
                   /\ \A l \in j..((Len(s) + n) - 1) : (s \o t)[l].k # "restore_gpr"
    BY <2>1
  <2>3. WITNESS Len(s) + m \in 1..(Len(s) + n - 1)
  <2>4. QED
    BY <1>2, <1>3, <1>4

(* A run open at the end of s and not closed in t before n is open at     *)
(* position Len(s) + n of s \o t.                                         *)
LEMMA InsideSuffixFromS ==
    ASSUME NEW s \in Seq(Chunks), NEW t \in Seq(Chunks), NEW n \in 1..Len(t) + 1,
           Inside(s, Len(s) + 1),
           \A l \in 1..(n - 1) : t[l].k # "restore_gpr"
    PROVE  Inside(s \o t, Len(s) + n)
<1>1. /\ \A m \in 1..Len(s) : (s \o t)[m] = s[m]
      /\ \A m \in 1..Len(t) : (s \o t)[Len(s) + m] = t[m]
  OBVIOUS
<1>2. PICK m \in 1..Len(s) :
         s[m].k = "save_gpr" /\ \A l \in m..Len(s) : s[l].k # "restore_gpr"
  BY DEF Inside
<1>3. \A l \in m..(Len(s) + n - 1) : (s \o t)[l].k # "restore_gpr"
  <2> TAKE l \in m..(Len(s) + n - 1)
  <2>1. CASE l <= Len(s)
    BY <1>1, <1>2, <2>1
  <2>2. CASE l > Len(s)
    <3>1. l - Len(s) \in 1..(n - 1) /\ (s \o t)[l] = t[l - Len(s)]
      BY <1>1, <2>2
    <3>2. QED
      BY <3>1
  <2>3. QED
    BY <2>1, <2>2
<1>4. QED
  <2>0. n \in Nat /\ Len(s) + n \in Nat
    OBVIOUS
  <2>1. Inside(s \o t, Len(s) + n) <=> \E j \in 1..((Len(s) + n) - 1) :
                     /\ (s \o t)[j].k = "save_gpr"
                     /\ \A l \in j..((Len(s) + n) - 1) : (s \o t)[l].k # "restore_gpr"
    BY <2>0, InsideConcat
  <2>2. SUFFICES \E j \in 1..((Len(s) + n) - 1) :
                   /\ (s \o t)[j].k = "save_gpr"
                   /\ \A l \in j..((Len(s) + n) - 1) : (s \o t)[l].k # "restore_gpr"
    BY <2>1
  <2>3. WITNESS m \in 1..(Len(s) + n - 1)
  <2>4. QED
    BY <1>1, <1>2, <1>3

(* Together: the open run at position Len(s) + n of s \o t.                *)
LEMMA InsideSuffix ==
    ASSUME NEW s \in Seq(Chunks), NEW t \in Seq(Chunks), NEW n \in 1..Len(t) + 1
    PROVE  Inside(s \o t, Len(s) + n)
           <=> \/ Inside(t, n)
               \/ /\ Inside(s, Len(s) + 1)
                  /\ \A l \in 1..(n - 1) : t[l].k # "restore_gpr"
BY InsideSuffixOnlyIf, InsideSuffixFromT, InsideSuffixFromS

(* A sequence with no save_gpr before idx has no open run at idx.         *)
LEMMA NoSaveNotInside ==
    ASSUME NEW seq, NEW idx \in Nat,
           \A x \in 1..(idx - 1) : seq[x].k # "save_gpr"
    PROVE  ~Inside(seq, idx)
BY InsideDef

(* Every piece of s is in a run exactly when its kind needs the saved     *)
(* registers, and whether a run is open at the end of s.                  *)
Bracketed(s) == \A i \in 1..Len(s) : s[i].k \in SavedKinds <=> Inside(s, i)
Open(s) == Inside(s, Len(s) + 1)

(* Appending one piece to a bracketed sequence keeps it bracketed when   *)
(* the piece needs the saved registers exactly when a run is open; the    *)
(* piece opens a run if it is a save_gpr and closes it if a restore_gpr.  *)
LEMMA AppendBracketed ==
    ASSUME NEW s \in Seq(Chunks), NEW c \in Chunks,
           Bracketed(s),
           c.k \in SavedKinds <=> Open(s)
    PROVE  /\ Bracketed(s \o <<c>>)
           /\ Open(s \o <<c>>) <=> \/ c.k = "save_gpr"
                                  \/ (Open(s) /\ c.k # "restore_gpr")
<1>1. <<c>> \in Seq(Chunks) /\ Len(s \o <<c>>) = Len(s) + 1
  OBVIOUS
<1>2. \A i \in 1..Len(s) + 1 : Inside(s \o <<c>>, i) <=> Inside(s, i)
  BY <1>1, InsidePrefix
<1>3. Bracketed(s \o <<c>>)
  <2> SUFFICES ASSUME NEW i \in 1..Len(s) + 1
               PROVE  (s \o <<c>>)[i].k \in SavedKinds <=> Inside(s \o <<c>>, i)
    BY <1>1 DEF Bracketed
  <2>1. CASE i <= Len(s)
    <3>1. (s \o <<c>>)[i] = s[i]
      BY <2>1
    <3>2. QED
      BY <1>2, <2>1, <3>1 DEF Bracketed
  <2>2. CASE i = Len(s) + 1
    <3>1. (s \o <<c>>)[i] = c
      BY <2>2
    <3>2. QED
      BY <1>2, <2>2, <3>1 DEF Open
  <2>3. QED
    BY <2>1, <2>2
<1>4. Inside(<<c>>, 2) <=> c.k = "save_gpr"
  <2>1. Inside(<<c>>, 2) <=> \E j \in 1..(2 - 1) :
                               /\ <<c>>[j].k = "save_gpr"
                               /\ \A l \in j..(2 - 1) : <<c>>[l].k # "restore_gpr"
    BY InsideDef
  <2>2. QED
    BY <2>1
<1>5. Open(s \o <<c>>) <=> \/ Inside(<<c>>, 2)
                           \/ (Open(s) /\ \A l \in 1..(2 - 1) : <<c>>[l].k # "restore_gpr")
  <2>1. Inside(s \o <<c>>, Len(s) + 2)
        <=> \/ Inside(<<c>>, 2)
            \/ /\ Inside(s, Len(s) + 1)
               /\ \A l \in 1..(2 - 1) : <<c>>[l].k # "restore_gpr"
    <3>1. 2 \in 1..Len(<<c>>) + 1
      OBVIOUS
    <3>2. QED
      BY <1>1, <3>1, InsideSuffix, Zenon
  <2>2. QED
    BY <1>1, <2>1 DEF Open
<1>6. QED
  BY <1>3, <1>4, <1>5

(* The four kinds of piece: one that uses the saved registers inside a   *)
(* run, the save that opens a run, the restore that closes it, and an     *)
(* application instruction between runs.                                  *)
LEMMA AppendInRun ==
    ASSUME NEW s \in Seq(Chunks), NEW ins \in Instr,
           NEW k \in SavedKinds \ {"restore_gpr"},
           Bracketed(s), Open(s)
    PROVE  Bracketed(s \o <<Chunk(k, ins)>>) /\ Open(s \o <<Chunk(k, ins)>>)
<1>1. Chunk(k, ins) \in Chunks /\ Chunk(k, ins).k = k
  BY DEF Chunk, Chunks, SavedKinds
<1>2. QED
  BY <1>1, AppendBracketed

LEMMA AppendSave ==
    ASSUME NEW s \in Seq(Chunks), NEW ins \in Instr, Bracketed(s), ~Open(s)
    PROVE  Bracketed(s \o <<Chunk("save_gpr", ins)>>)
           /\ Open(s \o <<Chunk("save_gpr", ins)>>)
<1>1. Chunk("save_gpr", ins) \in Chunks /\ Chunk("save_gpr", ins).k = "save_gpr"
  BY DEF Chunk, Chunks, Kinds
<1>2. "save_gpr" \notin SavedKinds
  BY DEF SavedKinds
<1>3. QED
  BY <1>1, <1>2, AppendBracketed

LEMMA AppendRestore ==
    ASSUME NEW s \in Seq(Chunks), NEW ins \in Instr, Bracketed(s), Open(s)
    PROVE  Bracketed(s \o <<Chunk("restore_gpr", ins)>>)
           /\ ~Open(s \o <<Chunk("restore_gpr", ins)>>)
<1>1. Chunk("restore_gpr", ins) \in Chunks
      /\ Chunk("restore_gpr", ins).k = "restore_gpr"
  BY DEF Chunk, Chunks, Kinds
<1>2. "restore_gpr" \in SavedKinds
  BY DEF SavedKinds, Kinds
<1>3. QED
  BY <1>1, <1>2, AppendBracketed

LEMMA AppendApp ==
    ASSUME NEW s \in Seq(Chunks), NEW ins \in Instr, Bracketed(s), ~Open(s)
    PROVE  Bracketed(s \o <<Chunk("app", ins)>>) /\ ~Open(s \o <<Chunk("app", ins)>>)
<1>1. Chunk("app", ins) \in Chunks /\ Chunk("app", ins).k = "app"
  BY DEF Chunk, Chunks, Kinds
<1>2. "app" \notin SavedKinds
  BY DEF SavedKinds
<1>3. QED
  BY <1>1, <1>2, AppendBracketed

(* The prologue of an instrumented instruction leaves a run open: it     *)
(* opens one when the registers are not yet saved, and only uses the      *)
(* saved state when they are.                                             *)
LEMMA PrologueBracketed ==
    ASSUME NEW s \in Seq(Chunks), NEW ins \in Instr, NEW saved \in BOOLEAN,
           Bracketed(s), Open(s) <=> saved
    PROVE  /\ Bracketed(s \o Prologue(ins, saved))
           /\ Open(s \o Prologue(ins, saved))
<1> DEFINE C(k) == <<Chunk(k, ins)>>
<1>1. \A k \in Kinds : C(k) \in Seq(Chunks)
  BY DEF Chunk, Chunks
<1>0. \A u \in Seq(Chunks), k \in Kinds : u \o C(k) \in Seq(Chunks)
  BY <1>1
<1>2. CASE saved
  <2> DEFINE s1 == s \o C("set_dest")
             s2 == s1 \o C("set_operands")
             s3 == s2 \o C("call")
  <2>1. s \o Prologue(ins, saved) = s3
    BY <1>1, <1>2 DEF Prologue, Kinds
  <2>2. s1 \in Seq(Chunks) /\ Bracketed(s1) /\ Open(s1)
    BY <1>0, <1>1, <1>2, AppendInRun DEF SavedKinds, Kinds, s1, C
  <2>3. s2 \in Seq(Chunks) /\ Bracketed(s2) /\ Open(s2)
    BY <1>0, <1>1, <2>2, AppendInRun DEF SavedKinds, Kinds, s2, C
  <2>4. Bracketed(s3) /\ Open(s3)
    BY <1>0, <1>1, <2>3, AppendInRun DEF SavedKinds, Kinds, s3, C
  <2>5. QED
    BY <2>1, <2>4
<1>3. CASE ~saved
  <2> DEFINE s1 == s \o C("save_gpr")
             s2 == s1 \o C("save_simd")
             s3 == s2 \o C("set_dest")
             s4 == s3 \o C("set_operands")
             s5 == s4 \o C("restore_rsp")
             s6 == s5 \o C("sub_rsp")
             s7 == s6 \o C("call")
  <2>1. s \o Prologue(ins, saved) = s7
    <3> DEFINE P1 == <<Chunk("save_gpr", ins), Chunk("save_simd", ins)>>
               P2 == <<Chunk("set_dest", ins), Chunk("set_operands", ins)>>
               P3 == <<Chunk("restore_rsp", ins), Chunk("sub_rsp", ins)>>
               P4 == <<Chunk("call", ins)>>
    <3>1. Prologue(ins, saved) = P1 \o P2 \o P3 \o P4
      BY <1>3 DEF Prologue
    <3>2. \A k \in Kinds : C(k) \in Seq(Chunks)
      BY <1>1 DEF C
    <3>3. s2 = s \o P1
      BY SMTT(15), <1>1, <3>2 DEF Kinds, s1, s2, C
    <3>4. s4 = s \o P1 \o P2
      BY SMTT(15), <1>1, <3>2, <3>3 DEF Kinds, s3, s4, C
    <3>5. s6 = s \o P1 \o P2 \o P3
      BY SMTT(15), <1>1, <3>2, <3>4 DEF Kinds, s5, s6, C
    <3>6. s7 = s \o (P1 \o P2 \o P3 \o P4)
      BY SMTT(15), <1>1, <3>2, <3>5 DEF Kinds, s7, C
    <3>. QED  BY <3>1, <3>6
  <2>2. s1 \in Seq(Chunks) /\ Bracketed(s1) /\ Open(s1)
    BY <1>0, <1>1, <1>3, AppendSave DEF Kinds, s1, C
  <2>3. s2 \in Seq(Chunks) /\ Bracketed(s2) /\ Open(s2)
    BY <1>0, <1>1, <2>2, AppendInRun DEF SavedKinds, Kinds, s2, C
  <2>4. s3 \in Seq(Chunks) /\ Bracketed(s3) /\ Open(s3)
    BY <1>0, <1>1, <2>3, AppendInRun DEF SavedKinds, Kinds, s3, C
  <2>5. s4 \in Seq(Chunks) /\ Bracketed(s4) /\ Open(s4)
    BY <1>0, <1>1, <2>4, AppendInRun DEF SavedKinds, Kinds, s4, C
  <2>6. s5 \in Seq(Chunks) /\ Bracketed(s5) /\ Open(s5)
    BY <1>0, <1>1, <2>5, AppendInRun DEF SavedKinds, Kinds, s5, C
  <2>7. s6 \in Seq(Chunks) /\ Bracketed(s6) /\ Open(s6)
    BY <1>0, <1>1, <2>6, AppendInRun DEF SavedKinds, Kinds, s6, C
  <2>8. Bracketed(s7) /\ Open(s7)
    BY <1>0, <1>1, <2>7, AppendInRun DEF SavedKinds, Kinds, s7, C
  <2>9. QED
    BY <2>1, <2>8
<1>4. QED
  BY <1>2, <1>3

(* The epilogue closes the open run when the run ends and leaves it open *)
(* when the next instruction continues it.                                *)
LEMMA EpilogueBracketed ==
    ASSUME NEW s \in Seq(Chunks), NEW ins \in Instr, NEW cont \in BOOLEAN,
           Bracketed(s), Open(s)
    PROVE  /\ Bracketed(s \o Epilogue(ins, cont))
           /\ Open(s \o Epilogue(ins, cont)) <=> cont
<1> DEFINE C(k) == <<Chunk(k, ins)>>
<1>1. \A k \in Kinds : C(k) \in Seq(Chunks)
  BY DEF Chunk, Chunks
<1>2. CASE cont
  <2>1. s \o Epilogue(ins, cont) = s
    BY <1>2 DEF Epilogue
  <2>2. QED
    BY <1>2, <2>1
<1>3. CASE ~cont
  <2> DEFINE s1 == s \o C("restore_simd")
             s2 == s1 \o C("restore_gpr")
  <2>1. s \o Epilogue(ins, cont) = s2
    BY <1>1, <1>3 DEF Epilogue, Kinds
  <2>2. s1 \in Seq(Chunks)
    BY <1>1 DEF Kinds
  <2>3. Bracketed(s1) /\ Open(s1)
    BY AppendInRun DEF SavedKinds, Kinds, s1, C
  <2>4. Bracketed(s2) /\ ~Open(s2)
    BY <2>2, <2>3, AppendRestore DEF s2, C
  <2>5. QED
    BY <1>3, <2>1, <2>4
<1>4. QED
  BY <1>2, <1>3

(* The handler starts in a state of the loop invariant.                  *)
LEMMA LoopInvInit == Init => LoopInv
  <2> SUFFICES ASSUME Init PROVE LoopInv
    OBVIOUS
  <2>1. bb \in Seq(Instr)
    BY BlocksAssumption DEF Init
  <2>2. pos \in 1..Len(bb) + 1
    BY <2>1 DEF Init
  <2>3. out \in Seq(Chunks)
    BY DEF Init
  <2>4. oc \subseteq OcFlags
    BY DEF Init, PLC_OTHER
  <2>5. QED
    BY <2>1, <2>2, <2>3, <2>4 DEF Init, LoopInv, TypeOK

(* Every step of the handler keeps the loop invariant.                    *)
LEMMA LoopInvStep == LoopInv /\ [RNext]_rvars => LoopInv'
  <2> SUFFICES ASSUME LoopInv, [RNext]_rvars PROVE LoopInv'
    OBVIOUS
  <2> USE DEF LoopInv
  <2>1. CASE SkipBlock
    <3>1. \A i \in 1..Len(bb) : Chunk("app", bb[i]) \in Chunks
      BY DEF TypeOK, Chunk, Chunks, Kinds
    <3>2. QED
      BY <2>1, <3>1 DEF SkipBlock, TypeOK
  <2>2. CASE StartBlock
    BY <2>2 DEF StartBlock, TypeOK
  <2>3. CASE OuterIter
    <3>1. bb[pos] \in Instr
      BY <2>3 DEF OuterIter, TypeOK
    <3>2. plc_get_operation_category(bb[pos]) \subseteq OcFlags
      BY <3>1, CategoryType
    <3>3. QED
      BY <2>3, <3>2 DEF OuterIter, TypeOK
  <2>4. CASE OuterEnd
    BY <2>4 DEF OuterEnd, TypeOK
  <2>5. CASE KeepInstr
    <3>1. ~should_continue
      BY <2>5 DEF KeepInstr
    <3>2. QED
      BY <2>5, <3>1 DEF KeepInstr, TypeOK, Chunk, Chunks, Kinds
  <2>6. CASE Instrument
    <3>1. bb[pos] \in Instr /\ pos \in 1..Len(bb)
      BY <2>6 DEF Instrument, TypeOK
    <3>2. Prologue(bb[pos], registers_saved) \in Seq(Chunks)
      BY <3>1, PrologueType DEF TypeOK
    <3>3. CASE pos = Len(bb)
      <4>1. /\ out' = out \o Prologue(bb[pos], registers_saved)
            /\ pc' = "crashed"
            /\ UNCHANGED <<bb, needs, pos, oc, registers_saved, should_continue>>
        BY <2>6, <3>3 DEF Instrument
      <4>2. QED
        BY <3>2, <4>1 DEF TypeOK
    <3>4. CASE pos # Len(bb)
      <4>1. bb[pos + 1] \in Instr /\ pos + 1 <= Len(bb)
        BY <3>1, <3>4 DEF TypeOK
      <4>2. plc_get_operation_category(bb[pos + 1]) \subseteq OcFlags
        BY <4>1, CategoryType
      <4>3. \A cont \in BOOLEAN : Epilogue(bb[pos], cont) \in Seq(Chunks)
        BY <3>1, EpilogueType
      <4> DEFINE noc == plc_get_operation_category(bb[pos + 1])
                 cont == plc_is_instrumented(noc)
      <4>4. /\ oc' = noc
            /\ should_continue' = cont
            /\ out' = out \o Prologue(bb[pos], registers_saved) \o Epilogue(bb[pos], cont)
            /\ registers_saved' = TRUE
            /\ pos' = pos + 1
            /\ pc' = IF cont THEN "body" ELSE "outer"
            /\ UNCHANGED <<bb, needs>>
        BY <2>6, <3>4 DEF Instrument
      <4>5. out' \in Seq(Chunks)
        <5>1. cont \in BOOLEAN
          BY DEF plc_is_instrumented
        <5>2. Epilogue(bb[pos], cont) \in Seq(Chunks)
          BY <4>3, <5>1
        <5>3. out \o Prologue(bb[pos], registers_saved) \in Seq(Chunks)
          BY <3>2 DEF TypeOK
        <5>4. QED
          BY <4>4, <5>2, <5>3
      <4>6. TypeOK'
        <5>1. cont \in BOOLEAN
          BY DEF plc_is_instrumented
        <5>2. pos' \in 1..Len(bb') + 1
          BY <3>1, <4>1, <4>4 DEF TypeOK
        <5>3. QED
          BY <4>2, <4>4, <4>5, <5>1, <5>2 DEF TypeOK
      <4>7. pc' = "body" => pos' <= Len(bb')
        BY <4>1, <4>4
      <4>8. should_continue' => plc_is_instrumented(oc')
        BY <4>4
      <4>9. QED
        BY <4>6, <4>7, <4>8
    <3>5. QED
      BY <3>3, <3>4
  <2>7. CASE UNCHANGED rvars
    BY <2>7 DEF rvars, TypeOK
  <2>8. QED
    BY <2>1, <2>2, <2>3, <2>4, <2>5, <2>6, <2>7 DEF RNext

(* The loop invariant of app2app_bb_event, which contains the type        *)
(* invariant, holds in every state: the do-while body never indexes past *)
(* the end of the block.                                                  *)
THEOREM LoopInvariant == RSpec => []LoopInv
BY LoopInvInit, LoopInvStep, PTL DEF RSpec

(* Type correctness: the handler's locals and the rewritten block keep    *)
(* their types through every step of app2app_bb_event.                    *)
THEOREM TypeCorrect == RSpec => []TypeOK
BY LoopInvariant, PTL DEF LoopInv
(* The save/restore bracketing of app2app_bb_event holds in every state:   *)
(* registers_saved and should_continue track exactly whether the          *)
(* rewritten block ends inside a run, so every prologue finds the         *)
(* registers saved exactly when it skips the save, and every run is       *)
(* closed by the epilogue of its last instruction.                        *)
THEOREM BracketInvariant == RSpec => []BracketInv
<1> DEFINE Bodies == /\ pc = "start" => out = <<>>
                     /\ pc \in {"start", "outer", "done"} => ~Open(out)
                     /\ pc = "body" => (Open(out) <=> registers_saved)
                     /\ pc = "body" => (registers_saved <=> should_continue)
<1>0. BracketInv <=> LoopInv /\ Bracketed(out) /\ Bodies
  BY DEF BracketInv, Bracketed, Open, SavedAtEnd
<1>1. Init => BracketInv
  <2> SUFFICES ASSUME Init PROVE LoopInv /\ Bracketed(out) /\ Bodies
    BY <1>0
  <2>1. ~Open(<<>>)
    BY NoSaveNotInside DEF Open
  <2>2. QED
    BY <2>1, LoopInvInit DEF Init, Bracketed
<1>2. BracketInv /\ [RNext]_rvars => BracketInv'
  <2> SUFFICES ASSUME LoopInv, Bracketed(out), Bodies, [RNext]_rvars
               PROVE  LoopInv' /\ Bracketed(out') /\ Bodies'
    BY DEF BracketInv, Bracketed, Open, SavedAtEnd, Bodies
  <2>0. LoopInv'
    BY LoopInvStep
  <2> USE DEF LoopInv, TypeOK
  <2>1. CASE SkipBlock
    <3>1. /\ out' = [i \in 1..Len(bb) |-> Chunk("app", bb[i])]
          /\ pc' = "done"
      BY <2>1 DEF SkipBlock
    <3>2. \A x \in 1..Len(out') : out'[x].k = "app"
      BY <3>1 DEF Chunk
    <3>3. \A i \in 1..Len(out') + 1 : ~Inside(out', i)
      BY <3>2, NoSaveNotInside
    <3>4. Bracketed(out')
      BY <3>2, <3>3 DEF Bracketed, SavedKinds
    <3>5. QED
      BY <2>0, <3>1, <3>3, <3>4 DEF Open
  <2>2. CASE StartBlock
    <3>1. ~Open(<<>>)
      BY NoSaveNotInside DEF Open
    <3>2. QED
      BY <2>0, <2>2, <3>1 DEF StartBlock
  <2>3. CASE OuterIter
    BY <2>0, <2>3 DEF OuterIter
  <2>4. CASE OuterEnd
    BY <2>0, <2>4 DEF OuterEnd
  <2>5. CASE KeepInstr
    <3>1. ~Open(out)
      BY <2>5 DEF KeepInstr
    <3>2. /\ out' = out \o <<Chunk("app", bb[pos])>>
          /\ pc' = "outer"
      BY <2>5 DEF KeepInstr
    <3>3. bb[pos] \in Instr
      BY <2>5 DEF KeepInstr
    <3>4. Bracketed(out') /\ ~Open(out')
      BY <3>1, <3>2, <3>3, AppendApp
    <3>5. QED
      BY <2>0, <3>2, <3>4
  <2>6. CASE Instrument
    <3> DEFINE ins == bb[pos]
               pro == Prologue(ins, registers_saved)
    <3>1. ins \in Instr /\ pos \in 1..Len(bb)
      BY <2>6 DEF Instrument
    <3>2. /\ pro \in Seq(Chunks)
          /\ Bracketed(out \o pro)
          /\ Open(out \o pro)
      BY <2>6, <3>1, PrologueType, PrologueBracketed DEF Instrument
    <3>3. CASE pos = Len(bb)
      <4>1. out' = out \o pro /\ pc' = "crashed"
        BY <2>6, <3>3 DEF Instrument
      <4>2. QED
        BY <2>0, <3>2, <4>1
    <3>4. CASE pos # Len(bb)
      <4> DEFINE noc  == plc_get_operation_category(bb[pos + 1])
                 cont == plc_is_instrumented(noc)
      <4>1. /\ should_continue' = cont
            /\ out' = out \o pro \o Epilogue(ins, cont)
            /\ registers_saved' = TRUE
            /\ pc' = IF cont THEN "body" ELSE "outer"
        BY <2>6, <3>4 DEF Instrument
      <4>2. cont \in BOOLEAN
        BY DEF plc_is_instrumented
      <4>3. out \o pro \in Seq(Chunks)
        BY <3>2
      <4>4. /\ Bracketed(out \o pro \o Epilogue(ins, cont))
            /\ Open(out \o pro \o Epilogue(ins, cont)) <=> cont
        BY <3>1, <3>2, <4>2, <4>3, EpilogueBracketed
      <4>5. Bracketed(out') /\ (Open(out') <=> cont)
        BY <4>1, <4>4
      <4>6. QED
        BY <2>0, <4>1, <4>5
    <3>5. QED
      BY <3>3, <3>4
  <2>7. CASE UNCHANGED rvars
    BY <2>0, <2>7 DEF rvars, Bracketed, Open
  <2>8. QED
    BY <2>1, <2>2, <2>3, <2>4, <2>5, <2>6, <2>7 DEF RNext
<1>3. QED
  BY <1>1, <1>2, PTL DEF RSpec

(* Consequently the rewritten block is bracketed in every state, and a    *)
(* block the handler returns leaves the registers restored.               *)
THEOREM BracketingCorrect == RSpec => []RunBracketing
<1>1. BracketInv => RunBracketing
  BY DEF BracketInv, RunBracketing, SavedAtEnd
<1>2. QED
  BY BracketInvariant, <1>1, PTL
=============================================================================
