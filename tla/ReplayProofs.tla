---------------------------- MODULE ReplayProofs ----------------------------
(***************************************************************************)
(* Lemmas about Kept, the pieces of a rewritten block that stand for an  *)
(* instruction of the original (kept instructions and backend calls), in  *)
(* order.  Kept is determined by the ranks of these pieces, so appending  *)
(* a kept piece appends it and appending pieces that are not kept (saves, *)
(* operand setup, restores) changes nothing.  SubstProofs builds the     *)
(* refinement of BlockSubstitution on them.                               *)
(***************************************************************************)
EXTENDS RewriterProofs, FiniteSetTheorems

(* The kept positions of a sequence of pieces form a finite set of        *)
(* indices of the sequence.                                                *)
LEMMA KeptFinite ==
    ASSUME NEW sq \in Seq(Chunks)
    PROVE  /\ KeptIdx(sq) \subseteq 1..Len(sq)
           /\ IsFiniteSet(KeptIdx(sq))
           /\ Cardinality(KeptIdx(sq)) \in Nat
  <1>1. KeptIdx(sq) \subseteq 1..Len(sq)
    BY DEF KeptIdx
  <1>2. IsFiniteSet(1..Len(sq))
    BY FS_Interval
  <1>3. IsFiniteSet(KeptIdx(sq))
    BY <1>1, <1>2, FS_Subset
  <1>. QED  BY <1>1, <1>3, FS_CardinalityType

(* The rank of a kept position is between 1 and the number of kept        *)
(* positions, and it grows strictly with the position.                    *)
LEMMA RankRange ==
    ASSUME NEW sq \in Seq(Chunks), NEW ix \in KeptIdx(sq)
    PROVE  KeptRank(sq, ix) \in 1..Cardinality(KeptIdx(sq))
  <1> DEFINE K == KeptIdx(sq)
             L == {l \in K : l <= ix}
  <1>1. IsFiniteSet(K) /\ Cardinality(K) \in Nat
    BY KeptFinite
  <1>2. L \subseteq K /\ ix \in L
    BY KeptFinite
  <1>3. IsFiniteSet(L) /\ Cardinality(L) <= Cardinality(K)
    BY <1>1, <1>2, FS_Subset
  <1>4. Cardinality(L) \in Nat /\ Cardinality(L) # 0
    BY <1>2, <1>3, FS_EmptySet, FS_CardinalityType
  <1>. QED  BY <1>1, <1>3, <1>4 DEF KeptRank

LEMMA RankMono ==
    ASSUME NEW sq \in Seq(Chunks), NEW ix \in KeptIdx(sq), NEW iy \in KeptIdx(sq),
           ix < iy
    PROVE  KeptRank(sq, ix) < KeptRank(sq, iy)
  <1> DEFINE K == KeptIdx(sq)
             Lx == {l \in K : l <= ix}
             Ly == {l \in K : l <= iy}
  <1>1. IsFiniteSet(K)
    BY KeptFinite
  <1>2. Lx \subseteq Ly /\ Ly \subseteq K /\ iy \in Ly /\ iy \notin Lx
    BY KeptFinite
  <1>3. IsFiniteSet(Ly) /\ Cardinality(Ly) \in Nat
    BY <1>1, <1>2, FS_Subset, FS_CardinalityType
  <1>4. Cardinality(Lx) <= Cardinality(Ly) /\ (Cardinality(Ly) = Cardinality(Lx) => Ly = Lx)
    BY <1>2, <1>3, FS_Subset
  <1>5. IsFiniteSet(Lx) /\ Cardinality(Lx) \in Nat
    BY <1>2, <1>3, FS_Subset, FS_CardinalityType
  <1>. QED  BY <1>2, <1>4, <1>5, <1>3 DEF KeptRank

(* Every rank is the rank of some kept position.                          *)
LEMMA RankOnto ==
    ASSUME NEW sq \in Seq(Chunks), NEW jx \in 1..Cardinality(KeptIdx(sq))
    PROVE  \E ix \in KeptIdx(sq) : KeptRank(sq, ix) = jx
  <1> DEFINE K == KeptIdx(sq)
             N == Cardinality(K)
             f == [ix \in K |-> KeptRank(sq, ix)]
  <1>1. IsFiniteSet(K) /\ N \in Nat
    BY KeptFinite
  <1>2. f \in [K -> 1..N]
    BY RankRange
  <1>3. \A a, b \in K : f[a] = f[b] => a = b
    <2>. SUFFICES ASSUME NEW a \in K, NEW b \in K, f[a] = f[b] PROVE a = b
      OBVIOUS
    <2>1. a \in Nat /\ b \in Nat
      BY KeptFinite
    <2>2. KeptRank(sq, a) = KeptRank(sq, b)
      BY DEF f
    <2>3. a \in KeptIdx(sq) /\ b \in KeptIdx(sq)
      BY DEF K
    <2>4. /\ a < b => KeptRank(sq, a) < KeptRank(sq, b)
          /\ b < a => KeptRank(sq, b) < KeptRank(sq, a)
      BY <2>3, RankMono
    <2>5. KeptRank(sq, a) \in Nat
      BY <2>3, RankRange, KeptFinite
    <2>. QED  BY <2>1, <2>2, <2>4, <2>5
  <1>4. f \in Injection(K, 1..N)
    BY <1>2, <1>3 DEF Injection, IsInjective
  <1>5. IsFiniteSet(1..N) /\ Cardinality(1..N) = N
    BY <1>1, FS_Interval
  <1>6. f \in Surjection(K, 1..N)
    BY <1>1, <1>4, <1>5, FS_Injection
  <1>. QED  BY <1>6 DEF Surjection

(* Kept gives, at the rank of a kept position, the piece at that          *)
(* position.                                                              *)
LEMMA KeptAt ==
    ASSUME NEW sq \in Seq(Chunks), NEW ix \in KeptIdx(sq)
    PROVE  Kept(sq)[KeptRank(sq, ix)] = sq[ix]
  <1> DEFINE jr == KeptRank(sq, ix)
             ch == CHOOSE i \in KeptIdx(sq) : KeptRank(sq, i) = jr
  <1>1. jr \in 1..Cardinality(KeptIdx(sq))
    BY RankRange
  <1>2. ch \in KeptIdx(sq) /\ KeptRank(sq, ch) = jr
    OBVIOUS
  <1>3. ch \in Nat /\ ix \in Nat
    BY <1>2, KeptFinite
  <1>4. /\ ch < ix => KeptRank(sq, ch) < KeptRank(sq, ix)
        /\ ix < ch => KeptRank(sq, ix) < KeptRank(sq, ch)
    BY <1>2, RankMono
  <1>5. jr \in Nat
    BY <1>1, KeptFinite
  <1>6. ch = ix
    BY <1>2, <1>3, <1>4, <1>5
  <1>7. Kept(sq)[jr] = sq[ch]
    BY <1>1 DEF Kept
  <1>. QED  BY <1>6, <1>7

(* Kept is a sequence of pieces, one per kept position.                   *)
LEMMA KeptType ==
    ASSUME NEW sq \in Seq(Chunks)
    PROVE  /\ Kept(sq) \in Seq(Chunks)
           /\ Len(Kept(sq)) = Cardinality(KeptIdx(sq))
  <1> DEFINE N == Cardinality(KeptIdx(sq))
  <1>1. N \in Nat
    BY KeptFinite
  <1>2. \A jx \in 1..N : Kept(sq)[jx] \in Chunks
    <2>. SUFFICES ASSUME NEW jx \in 1..N PROVE Kept(sq)[jx] \in Chunks
      OBVIOUS
    <2>1. PICK ix \in KeptIdx(sq) : KeptRank(sq, ix) = jx
      BY RankOnto
    <2>2. Kept(sq)[jx] = sq[ix]
      BY <2>1, KeptAt
    <2>3. sq[ix] \in Chunks
      BY KeptFinite
    <2>. QED  BY <2>2, <2>3
  <1>3. Kept(sq) \in [1..N -> Chunks]
    BY <1>2 DEF Kept
  <1>. QED  BY <1>1, <1>3 DEF N

(* Two sequences that agree at the rank of every kept position, and have  *)
(* one element per kept position, are equal: Kept is determined by the    *)
(* kept pieces and their ranks.                                           *)
LEMMA KeptEq ==
    ASSUME NEW sq \in Seq(Chunks), NEW rs \in Seq(Chunks),
           Len(rs) = Cardinality(KeptIdx(sq)),
           \A ix \in KeptIdx(sq) : rs[KeptRank(sq, ix)] = sq[ix]
    PROVE  Kept(sq) = rs
  <1> DEFINE N == Cardinality(KeptIdx(sq))
  <1>1. Kept(sq) \in Seq(Chunks) /\ Len(Kept(sq)) = N
    BY KeptType
  <1>2. \A jx \in 1..N : Kept(sq)[jx] = rs[jx]
    <2>. SUFFICES ASSUME NEW jx \in 1..N PROVE Kept(sq)[jx] = rs[jx]
      OBVIOUS
    <2>1. PICK ix \in KeptIdx(sq) : KeptRank(sq, ix) = jx
      BY RankOnto
    <2>. QED  BY <2>1, KeptAt
  <1>. QED  BY <1>1, <1>2

(* Appending a kept piece (an application instruction or a backend call)  *)
(* appends it to the kept pieces.                                         *)
LEMMA KeptAppendKept ==
    ASSUME NEW sq \in Seq(Chunks), NEW cc \in Chunks, cc.k \in KeptKinds
    PROVE  Kept(Append(sq, cc)) = Append(Kept(sq), cc)
  <1> DEFINE u == Append(sq, cc)
             n == Len(sq)
             K == KeptIdx(sq)
             rs == Append(Kept(sq), cc)
  <1>1. u \in Seq(Chunks) /\ Len(u) = n + 1 /\ n \in Nat
    BY DEF u, n
  <1>2. KeptIdx(u) = K \cup {n + 1}
    BY <1>1 DEF KeptIdx, u, n, K
  <1>3. n + 1 \notin K /\ K \subseteq 1..n /\ IsFiniteSet(K) /\ Cardinality(K) \in Nat
    BY KeptFinite DEF K, n
  <1>4. Cardinality(KeptIdx(u)) = Cardinality(K) + 1
    BY <1>2, <1>3, FS_AddElement
  <1>5. \A ix \in K : KeptRank(u, ix) = KeptRank(sq, ix)
    <2>. SUFFICES ASSUME NEW ix \in K PROVE KeptRank(u, ix) = KeptRank(sq, ix)
      OBVIOUS
    <2>1. {l \in KeptIdx(u) : l <= ix} = {l \in K : l <= ix}
      BY <1>2, <1>3
    <2>. QED  BY <2>1 DEF KeptRank, K
  <1>6. KeptRank(u, n + 1) = Cardinality(KeptIdx(u))
    <2>1. {l \in KeptIdx(u) : l <= n + 1} = KeptIdx(u)
      BY <1>2, <1>3
    <2>. QED  BY <2>1 DEF KeptRank
  <1>7. rs \in Seq(Chunks) /\ Len(rs) = Cardinality(K) + 1
    <2>1. Kept(sq) \in Seq(Chunks) /\ Len(Kept(sq)) = Cardinality(K)
      BY KeptType DEF K
    <2>2. cc \in Chunks
      OBVIOUS
    <2>. QED  BY <2>1, <2>2 DEF rs
  <1>8. \A ix \in KeptIdx(u) : rs[KeptRank(u, ix)] = u[ix]
    <2>. SUFFICES ASSUME NEW ix \in KeptIdx(u) PROVE rs[KeptRank(u, ix)] = u[ix]
      OBVIOUS
    <2>1. CASE ix \in K
      <3>1. KeptRank(u, ix) = KeptRank(sq, ix)
        BY <1>5, <2>1
      <3>2. KeptRank(sq, ix) \in 1..Cardinality(K)
        BY <2>1, RankRange DEF K
      <3>3. Kept(sq)[KeptRank(sq, ix)] = sq[ix]
        BY <2>1, KeptAt DEF K
      <3>4. Kept(sq) \in Seq(Chunks) /\ Len(Kept(sq)) = Cardinality(K)
        BY KeptType DEF K
      <3>5. rs[KeptRank(sq, ix)] = Kept(sq)[KeptRank(sq, ix)]
        BY <3>2, <3>4 DEF rs
      <3>6. u[ix] = sq[ix]
        BY <1>3, <2>1 DEF u
      <3>. QED  BY <3>1, <3>3, <3>5, <3>6
    <2>2. CASE ix = n + 1
      <3>1. rs[Cardinality(K) + 1] = cc
        BY <1>7, KeptType DEF rs, K
      <3>2. u[n + 1] = cc
        BY <1>1 DEF u, n
      <3>. QED  BY <1>4, <1>6, <2>2, <3>1, <3>2
    <2>. QED  BY <1>2, <2>1, <2>2
  <1>. QED  BY <1>1, <1>4, <1>7, <1>8, KeptEq DEF u, rs

(* Appending pieces none of which is kept (saves, operand and stack       *)
(* setup, restores) changes nothing of the kept pieces.                   *)
LEMMA KeptConcatUnkept ==
    ASSUME NEW sq \in Seq(Chunks), NEW tq \in Seq(Chunks),
           \A m \in 1..Len(tq) : tq[m].k \notin KeptKinds
    PROVE  Kept(sq \o tq) = Kept(sq)
  <1> DEFINE u == sq \o tq
             K == KeptIdx(sq)
  <1>1. u \in Seq(Chunks) /\ Len(u) = Len(sq) + Len(tq)
    BY DEF u
  <1>2. \A ix \in 1..Len(sq) : u[ix] = sq[ix]
    BY DEF u
  <1>3. \A m \in 1..Len(tq) : u[Len(sq) + m] = tq[m]
    BY DEF u
  <1>4. KeptIdx(u) = K
    <2>1. \A ix \in Len(sq) + 1 .. Len(u) : u[ix].k \notin KeptKinds
      <3>. SUFFICES ASSUME NEW ix \in Len(sq) + 1 .. Len(u) PROVE u[ix].k \notin KeptKinds
        OBVIOUS
      <3>1. ix - Len(sq) \in 1..Len(tq) /\ ix = Len(sq) + (ix - Len(sq))
        BY <1>1
      <3>. QED  BY <3>1, <1>3
    <2>. QED  BY <1>1, <1>2, <2>1 DEF KeptIdx, K
  <1>5. \A ix \in KeptIdx(u) : Kept(sq)[KeptRank(u, ix)] = u[ix]
    <2>. SUFFICES ASSUME NEW ix \in K PROVE Kept(sq)[KeptRank(u, ix)] = u[ix]
      BY <1>4
    <2>1. KeptRank(u, ix) = KeptRank(sq, ix)
      BY <1>4 DEF KeptRank, K
    <2>2. u[ix] = sq[ix]
      BY <1>2, KeptFinite DEF K
    <2>. QED  BY <2>1, <2>2, KeptAt DEF K
  <1>6. Kept(sq) \in Seq(Chunks) /\ Len(Kept(sq)) = Cardinality(KeptIdx(u))
    BY <1>4, KeptType DEF K
  <1>. QED  BY <1>1, <1>5, <1>6, KeptEq DEF u

(* The empty sequence keeps nothing.                                      *)
LEMMA KeptEmpty == Kept(<<>>) = <<>>
  <1>1. KeptIdx(<<>>) = {}
    BY DEF KeptIdx
  <1>2. <<>> \in Seq(Chunks) /\ Len(<<>>) = Cardinality(KeptIdx(<<>>))
    BY <1>1, FS_EmptySet
  <1>. QED  BY <1>1, <1>2, KeptEq

(* In a block left as it is (the filter rejected it) every piece is kept. *)
LEMMA KeptAllApp ==
    ASSUME NEW bq \in Seq(Instr)
    PROVE  Kept([i \in 1..Len(bq) |-> Chunk("app", bq[i])]) = [i \in 1..Len(bq) |-> Chunk("app", bq[i])]
  <1> DEFINE u == [i \in 1..Len(bq) |-> Chunk("app", bq[i])]
  <1>1. u \in Seq(Chunks) /\ Len(u) = Len(bq)
    BY DEF u, Chunk, Chunks, Kinds
  <1>2. KeptIdx(u) = 1..Len(bq)
    BY DEF KeptIdx, u, Chunk, KeptKinds
  <1>3. Cardinality(KeptIdx(u)) = Len(bq)
    BY <1>2, FS_Interval
  <1>4. \A ix \in KeptIdx(u) : u[KeptRank(u, ix)] = u[ix]
    <2>. SUFFICES ASSUME NEW ix \in 1..Len(bq) PROVE u[KeptRank(u, ix)] = u[ix]
      BY <1>2
    <2>1. {l \in KeptIdx(u) : l <= ix} = 1..ix
      BY <1>2
    <2>2. Cardinality(1..ix) = ix
      BY FS_Interval
    <2>3. KeptRank(u, ix) = ix
      BY <2>1, <2>2 DEF KeptRank
    <2>. QED  BY <2>3
  <1>. QED  BY <1>1, <1>3, <1>4, KeptEq DEF u

(* The pieces that are not kept.                                          *)
UnkeptChunks == [k : Kinds \ KeptKinds, ins : Instr]

(* What the instrumented branch of the do-while body inserts for an       *)
(* instruction (prologue, backend call, epilogue) keeps exactly one       *)
(* piece: the backend call for it, whether or not the registers are       *)
(* already saved and whether or not the run continues.                    *)
LEMMA KeptInstrument ==
    ASSUME NEW sq \in Seq(Chunks), NEW iq \in Instr,
           NEW saved \in BOOLEAN, NEW cont \in BOOLEAN
    PROVE  Kept(sq \o Prologue(iq, saved) \o Epilogue(iq, cont))
             = Append(Kept(sq), Chunk("call", iq))
  <1> DEFINE pre == IF saved
                    THEN <<Chunk("set_dest", iq), Chunk("set_operands", iq)>>
                    ELSE <<Chunk("save_gpr", iq), Chunk("save_simd", iq),
                           Chunk("set_dest", iq), Chunk("set_operands", iq),
                           Chunk("restore_rsp", iq), Chunk("sub_rsp", iq)>>
             cl == Chunk("call", iq)
  <1>0. UnkeptChunks \subseteq Chunks
    BY DEF UnkeptChunks, Chunks, Kinds
  <1>1. pre \in Seq(Chunks) /\ \A m \in 1..Len(pre) : pre[m].k \notin KeptKinds
    <2>0. \A kd \in {"save_gpr", "save_simd", "set_dest", "set_operands",
                     "restore_rsp", "sub_rsp"} : Chunk(kd, iq) \in UnkeptChunks
      BY DEF Chunk, UnkeptChunks, Kinds, KeptKinds
    <2>1. pre \in Seq(UnkeptChunks)
      BY <2>0 DEF pre
    <2>2. \A m \in 1..Len(pre) : pre[m] \in UnkeptChunks
      BY <2>1
    <2>. QED  BY <1>0, <2>1, <2>2 DEF UnkeptChunks
  <1>2. Prologue(iq, saved) = pre \o <<cl>>
    BY DEF Prologue, pre, cl
  <1>3. Epilogue(iq, cont) \in Seq(Chunks)
        /\ \A m \in 1..Len(Epilogue(iq, cont)) : Epilogue(iq, cont)[m].k \notin KeptKinds
    <2>1. CASE cont
      BY <2>1 DEF Epilogue
    <2>2. CASE ~cont
      <3>1. Epilogue(iq, cont) = <<Chunk("restore_simd", iq), Chunk("restore_gpr", iq)>>
        BY <2>2 DEF Epilogue
      <3>. QED  BY <3>1 DEF Chunk, Chunks, Kinds, KeptKinds
    <2>. QED  BY <2>1, <2>2
  <1>4. cl \in Chunks /\ cl.k \in KeptKinds /\ cl.ins = iq
    BY DEF cl, Chunk, Chunks, Kinds, KeptKinds
  <1>5. sq \o Prologue(iq, saved) = Append(sq \o pre, cl)
    BY <1>1, <1>2, <1>4
  <1>6. Kept(sq \o pre) = Kept(sq)
    BY <1>1, KeptConcatUnkept
  <1>7. Kept(Append(sq \o pre, cl)) = Append(Kept(sq \o pre), cl)
    <2>1. sq \o pre \in Seq(Chunks)
      BY <1>1
    <2>. QED  BY <1>4, <2>1, KeptAppendKept
  <1>8. sq \o Prologue(iq, saved) \in Seq(Chunks)
    BY <1>1, <1>4, <1>5
  <1>9. Kept(sq \o Prologue(iq, saved) \o Epilogue(iq, cont))
          = Kept(sq \o Prologue(iq, saved))
    BY <1>3, <1>8, KeptConcatUnkept
  <1>. QED  BY <1>5, <1>6, <1>7, <1>9
=============================================================================
