---------------------------- MODULE FilterProofs ----------------------------
(***************************************************************************)
(* Proofs about SymbolFilter: the catalog that log_symbol builds in       *)
(* generate mode holds each seen (module, symbol) pair exactly once, for  *)
(* every set of modules, symbols, layouts and command lines.              *)
(***************************************************************************)
EXTENDS SymbolFilter, TLAPS

(* vec_idx_of on a vector without duplicates returns the index of elem,   *)
(* Len + 1 when it is absent.                                             *)
LEMMA VecIdx ==
    ASSUME NEW S, NEW v \in Seq(S), NEW x,
           \A k, l \in 1..Len(v) : k # l => v[k] # v[l]
    PROVE  /\ vec_idx_of(v, x) \in 1..Len(v) + 1
           /\ vec_idx_of(v, x) = Len(v) + 1 <=> \A i \in 1..Len(v) : v[i] # x
           /\ vec_idx_of(v, x) <= Len(v) => v[vec_idx_of(v, x)] = x
<1>. DEFINE I == {i \in 1..Len(v) : v[i] = x}
<1>1. CASE I = {}
  BY <1>1 DEF vec_idx_of
<1>2. CASE I # {}
  <2>1. PICK m \in I : TRUE
    BY <1>2
  <2>2. I = {m}
    BY <2>1
  <2>3. vec_idx_of(v, x) = m
    BY <2>2 DEF vec_idx_of
  <2>. QED  BY <2>1, <2>3
<1>. QED  BY <1>1, <1>2

(* ModIdx on a modules_vector without two entries of a name returns the   *)
(* index of the entry named n, Len + 1 when there is none.                *)
LEMMA ModIdxSpec ==
    ASSUME NEW S, NEW mv \in Seq(S), NEW n, NamesDistinct(mv)
    PROVE  /\ ModIdx(mv, n) \in 1..Len(mv) + 1
           /\ ModIdx(mv, n) = Len(mv) + 1 <=> \A i \in 1..Len(mv) : mv[i].name # n
           /\ ModIdx(mv, n) <= Len(mv) => mv[ModIdx(mv, n)].name = n
<1>. DEFINE I == {i \in 1..Len(mv) : mv[i].name = n}
<1>1. CASE I = {}
  BY <1>1 DEF ModIdx
<1>2. CASE I # {}
  <2>1. PICK m \in I : TRUE
    BY <1>2
  <2>2. I = {m}
    BY <2>1 DEF NamesDistinct
  <2>3. ModIdx(mv, n) = m
    BY <2>2 DEF ModIdx
  <2>. QED  BY <2>1, <2>3
<1>. QED  BY <1>1, <1>2

(* The types of an entry of modules_vector and of its updates.           *)
LEMMA ElemOfSeq ==
    ASSUME NEW S, NEW v \in Seq(S), NEW p \in 1..Len(v)
    PROVE  v[p] \in S
OBVIOUS

LEMMA EntrySyms ==
    ASSUME NEW e \in ModuleEntries
    PROVE  e.syms \in Seq(SymNames) /\ e.name \in ModNames
BY DEF ModuleEntries

LEMMA EntryAppendSym ==
    ASSUME NEW e \in ModuleEntries, NEW s \in SymNames
    PROVE  /\ [e EXCEPT !.syms = Append(e.syms, s)] \in ModuleEntries
           /\ [e EXCEPT !.syms = Append(e.syms, s)].name = e.name
           /\ [e EXCEPT !.syms = Append(e.syms, s)].syms = Append(e.syms, s)
<1>1. Append(e.syms, s) \in Seq(SymNames)
  BY EntrySyms
<1>. QED  BY <1>1 DEF ModuleEntries

(* Replacing element p of a sequence.                                    *)
LEMMA ExceptSeq ==
    ASSUME NEW S, NEW v \in Seq(S), NEW p \in 1..Len(v), NEW r \in S
    PROVE  /\ [v EXCEPT ![p] = r] \in Seq(S)
           /\ Len([v EXCEPT ![p] = r]) = Len(v)
           /\ \A i \in 1..Len(v) : [v EXCEPT ![p] = r][i] = IF i = p THEN r ELSE v[i]
OBVIOUS

(* The catalog of mv with the pair (n, s) added.  Kept as an operator of  *)
(* its own: the provers instantiate a lemma whose conclusion equates two  *)
(* operator applications, not one that equates a set with a union.       *)
CatPlus(mv, n, s) == Catalogued(mv) \cup {<<n, s>>}

(* Appending a symbol absent from entry p adds one pair to the catalog    *)
(* and keeps names and symbols distinct.                                  *)
LEMMA AppendSym ==
    ASSUME NEW mv \in Seq(ModuleEntries), NamesDistinct(mv), SymsDistinct(mv),
           NEW p \in 1..Len(mv), NEW s \in SymNames,
           \A k \in 1..Len(mv[p].syms) : mv[p].syms[k] # s,
           NEW mv2, mv2 = [mv EXCEPT ![p].syms = Append(@, s)]
    PROVE  /\ mv2 \in Seq(ModuleEntries)
           /\ Len(mv2) = Len(mv)
           /\ NamesDistinct(mv2) /\ SymsDistinct(mv2)
           /\ Catalogued(mv2) = CatPlus(mv, mv[p].name, s)
<1>. DEFINE t == mv[p].syms
            r == [mv[p] EXCEPT !.syms = Append(t, s)]
<1>. USE DEF t, r
<1>0. mv2 = [mv EXCEPT ![p] = r]
  OBVIOUS
<1>a. mv[p] \in ModuleEntries
  BY ElemOfSeq
<1>b. r \in ModuleEntries /\ r.name = mv[p].name /\ r.syms = Append(t, s)
  BY <1>a, EntryAppendSym
<1>c. /\ mv2 \in Seq(ModuleEntries)
      /\ Len(mv2) = Len(mv)
      /\ \A i \in 1..Len(mv) : mv2[i] = IF i = p THEN r ELSE mv[i]
  BY <1>0, <1>b, ExceptSeq
<1>1. /\ mv2 \in Seq(ModuleEntries)
      /\ Len(mv2) = Len(mv)
      /\ \A i \in 1..Len(mv) : mv2[i].name = mv[i].name
      /\ \A i \in 1..Len(mv) \ {p} : mv2[i].syms = mv[i].syms
      /\ mv2[p].syms = Append(mv[p].syms, s)
  BY <1>b, <1>c
<1>2. NamesDistinct(mv2)
  BY <1>1 DEF NamesDistinct
<1>3. SymsDistinct(mv2)
  <2>1. SUFFICES ASSUME NEW i \in 1..Len(mv2), NEW k \in 1..Len(mv2[i].syms),
                        NEW l \in 1..Len(mv2[i].syms), k # l
                 PROVE  mv2[i].syms[k] # mv2[i].syms[l]
    BY DEF SymsDistinct
  <2>2. CASE i # p
    <3>1. i \in 1..Len(mv) /\ mv2[i].syms = mv[i].syms
      BY <2>2, <1>1
    <3>2. \A a, b \in 1..Len(mv[i].syms) : a # b => mv[i].syms[a] # mv[i].syms[b]
      BY <3>1 DEF SymsDistinct
    <3>. QED  BY <2>1, <3>1, <3>2
  <2>3. CASE i = p
    <3>1. t \in Seq(SymNames) /\ \A a, b \in 1..Len(t) : a # b => t[a] # t[b]
      BY <1>a, EntrySyms DEF SymsDistinct
    <3>2. /\ Len(mv2[i].syms) = Len(t) + 1
          /\ \A a \in 1..Len(t) : mv2[i].syms[a] = t[a]
          /\ mv2[i].syms[Len(t) + 1] = s
      BY <2>3, <1>1, <3>1
    <3>3. k \in 1..Len(t) + 1 /\ l \in 1..Len(t) + 1
      BY <2>1, <3>1, <3>2
    <3>4. \A a \in 1..Len(t) : t[a] # s
      OBVIOUS
    <3>5. CASE k <= Len(t) /\ l <= Len(t)
      <4>1. mv2[i].syms[k] = t[k] /\ mv2[i].syms[l] = t[l]
        BY <3>2, <3>3, <3>5
      <4>2. t[k] # t[l]
        BY <2>1, <3>1, <3>3, <3>5
      <4>. QED  BY <4>1, <4>2
    <3>6. CASE k = Len(t) + 1 /\ l <= Len(t)
      <4>1. mv2[i].syms[k] = s /\ mv2[i].syms[l] = t[l] /\ l \in 1..Len(t)
        BY <3>2, <3>3, <3>6
      <4>. QED  BY <4>1, <3>4
    <3>7. CASE l = Len(t) + 1 /\ k <= Len(t)
      <4>1. mv2[i].syms[l] = s /\ mv2[i].syms[k] = t[k] /\ k \in 1..Len(t)
        BY <3>2, <3>3, <3>7
      <4>. QED  BY <4>1, <3>4
    <3>. QED  BY <2>1, <3>1, <3>3, <3>5, <3>6, <3>7
  <2>. QED  BY <2>2, <2>3
<1>4. Catalogued(mv2) = CatPlus(mv, mv[p].name, s)
  <2>1. ASSUME NEW x \in Catalogued(mv2)
        PROVE  x \in Catalogued(mv) \cup {<<mv[p].name, s>>}
    <3>1. PICK i \in 1..Len(mv2) : \E k \in 1..Len(mv2[i].syms) :
                 x = <<mv2[i].name, mv2[i].syms[k]>>
      BY <2>1 DEF Catalogued
    <3>2. PICK k \in 1..Len(mv2[i].syms) : x = <<mv2[i].name, mv2[i].syms[k]>>
      BY <3>1
    <3>3. CASE i = p /\ k = Len(mv2[i].syms)
      BY <3>2, <3>3, <1>1 DEF ModuleEntries
    <3>4. CASE ~(i = p /\ k = Len(mv2[i].syms))
      <4>1. k \in 1..Len(mv[i].syms) /\ mv2[i].syms[k] = mv[i].syms[k]
        BY <3>2, <3>4, <1>1 DEF ModuleEntries
      <4>2. x = <<mv[i].name, mv[i].syms[k]>>
        BY <3>2, <4>1, <1>1
      <4>. QED  BY <4>1, <4>2 DEF Catalogued
    <3>. QED  BY <3>3, <3>4
  <2>2. ASSUME NEW x \in Catalogued(mv) \cup {<<mv[p].name, s>>}
        PROVE  x \in Catalogued(mv2)
    <3>1. CASE x = <<mv[p].name, s>>
      <4>1. /\ Len(mv2[p].syms) \in 1..Len(mv2[p].syms)
            /\ mv2[p].syms[Len(mv2[p].syms)] = s
        BY <1>1 DEF ModuleEntries
      <4>. QED  BY <3>1, <4>1, <1>1 DEF Catalogued
    <3>2. CASE x \in Catalogued(mv)
      <4>1. PICK i \in 1..Len(mv) : \E k \in 1..Len(mv[i].syms) :
                   x = <<mv[i].name, mv[i].syms[k]>>
        BY <3>2 DEF Catalogued
      <4>2. PICK k \in 1..Len(mv[i].syms) : x = <<mv[i].name, mv[i].syms[k]>>
        BY <4>1
      <4>3. k \in 1..Len(mv2[i].syms) /\ mv2[i].syms[k] = mv[i].syms[k]
        BY <4>2, <1>1 DEF ModuleEntries
      <4>. QED  BY <4>2, <4>3, <1>1 DEF Catalogued
    <3>. QED  BY <3>1, <3>2, <2>2
  <2>. QED  BY <2>1, <2>2 DEF CatPlus
<1>. QED  BY <1>1, <1>2, <1>3, <1>4

(* Appending an entry for a new module name, with no symbol, leaves the   *)
(* catalog as it is and keeps names and symbols distinct.                 *)
LEMMA AppendEntry ==
    ASSUME NEW mv \in Seq(ModuleEntries), NamesDistinct(mv), SymsDistinct(mv),
           NEW n \in ModNames, \A i \in 1..Len(mv) : mv[i].name # n,
           NEW mv2, mv2 = Append(mv, [name |-> n, all |-> FALSE, syms |-> <<>>])
    PROVE  /\ mv2 \in Seq(ModuleEntries)
           /\ Len(mv2) = Len(mv) + 1
           /\ mv2[Len(mv) + 1].name = n /\ mv2[Len(mv) + 1].syms = <<>>
           /\ NamesDistinct(mv2) /\ SymsDistinct(mv2)
           /\ Catalogued(mv2) = Catalogued(mv)
<1>. DEFINE e == [name |-> n, all |-> FALSE, syms |-> <<>>]
<1>. USE DEF e
<1>1. /\ e \in ModuleEntries
      /\ mv2 \in Seq(ModuleEntries)
      /\ Len(mv2) = Len(mv) + 1
      /\ mv2[Len(mv) + 1] = e
      /\ \A i \in 1..Len(mv) : mv2[i] = mv[i]
  BY DEF ModuleEntries
<1>2. NamesDistinct(mv2)
  BY <1>1 DEF NamesDistinct
<1>3. SymsDistinct(mv2)
  BY <1>1 DEF SymsDistinct
<1>4. Catalogued(mv2) = Catalogued(mv)
  <2>1. ASSUME NEW x \in Catalogued(mv2) PROVE x \in Catalogued(mv)
    <3>1. \E i \in 1..Len(mv2) : \E k \in 1..Len(mv2[i].syms) :
             x = <<mv2[i].name, mv2[i].syms[k]>>
      BY <2>1 DEF Catalogued
    <3>2. PICK i \in 1..Len(mv) : \E k \in 1..Len(mv[i].syms) :
                 x = <<mv[i].name, mv[i].syms[k]>>
      BY <3>1, <1>1
    <3>. QED  BY <3>2 DEF Catalogued
  <2>2. ASSUME NEW x \in Catalogued(mv) PROVE x \in Catalogued(mv2)
    <3>1. PICK i \in 1..Len(mv) : \E k \in 1..Len(mv[i].syms) :
                 x = <<mv[i].name, mv[i].syms[k]>>
      BY <2>2 DEF Catalogued
    <3>2. i \in 1..Len(mv2) /\ mv2[i] = mv[i]
      BY <1>1
    <3>3. \E k \in 1..Len(mv2[i].syms) : x = <<mv2[i].name, mv2[i].syms[k]>>
      BY <3>1, <3>2
    <3>. QED  BY <3>2, <3>3 DEF Catalogued
  <2>. QED  BY <2>1, <2>2
<1>. QED  BY <1>1, <1>2, <1>3, <1>4
(* The path of log_symbol for the module of its previous call (lines     *)
(* 243-254) adds the pair (n, s) to the catalog, whichever of its tests   *)
(* decides, and keeps the statics in bounds.                              *)
LEMMA LogSameModuleStep ==
    ASSUME NEW n, NEW s \in SymNames,
           GenOK(modules_vector, oldModule, oldPos),
           Len(modules_vector) > oldModule,
           modules_vector[oldModule + 1].name = n,
           LogSameModule(s), oldModule' = oldModule
    PROVE  /\ GenOK(modules_vector', oldModule', oldPos')
           /\ Catalogued(modules_vector') = CatPlus(modules_vector, n, s)
<1>. DEFINE V == modules_vector
            q == oldModule + 1
            t == V[q].syms
<1>1. /\ V \in Seq(ModuleEntries) /\ NamesDistinct(V) /\ SymsDistinct(V)
      /\ oldModule \in Nat /\ oldPos \in Nat
  BY DEF GenOK
<1>2. q \in 1..Len(V)
  BY <1>1
<1>3. t \in Seq(SymNames) /\ \A a, b \in 1..Len(t) : a # b => t[a] # t[b]
  BY <1>1, <1>2, ElemOfSeq, EntrySyms DEF SymsDistinct
<1>4. /\ vec_idx_of(t, s) \in 1..Len(t) + 1
      /\ vec_idx_of(t, s) = Len(t) + 1 <=> \A i \in 1..Len(t) : t[i] # s
      /\ vec_idx_of(t, s) <= Len(t) => t[vec_idx_of(t, s)] = s
  BY <1>3, VecIdx
<1>5. CASE /\ (Len(t) <= oldPos \/ t[oldPos + 1] # s)
           /\ vec_idx_of(t, s) = Len(t) + 1
  <2>1. V' = [V EXCEPT ![q].syms = Append(@, s)] /\ oldPos' = Len(t)
    BY <1>5 DEF LogSameModule
  <2>2. \A k \in 1..Len(V[q].syms) : V[q].syms[k] # s
    BY <1>4, <1>5
  <2>3. PICK pp \in 1..Len(V) : pp = q
    BY <1>2
  <2>4. /\ V' \in Seq(ModuleEntries)
        /\ Len(V') = Len(V)
        /\ NamesDistinct(V') /\ SymsDistinct(V')
        /\ Catalogued(V') = CatPlus(V, V[pp].name, s)
    <3>1. V' = [V EXCEPT ![pp].syms = Append(@, s)]
      BY <2>1, <2>3
    <3>2. \A k \in 1..Len(V[pp].syms) : V[pp].syms[k] # s
      BY <2>2, <2>3
    <3>3. \A mv2 : mv2 = [V EXCEPT ![pp].syms = Append(@, s)] =>
             /\ mv2 \in Seq(ModuleEntries)
             /\ Len(mv2) = Len(V)
             /\ NamesDistinct(mv2) /\ SymsDistinct(mv2)
             /\ Catalogued(mv2) = CatPlus(V, V[pp].name, s)
      BY Zenon, <1>1, <3>2, AppendSym
    <3>. QED  BY Zenon, <3>1, <3>3
  <2>5. oldPos' \in Nat /\ oldModule' \in Nat /\ oldModule' < Len(V')
    BY <1>1, <1>3, <2>1, <2>4
  <2>6. V[pp].name = n
    BY <2>3
  <2>. QED  BY <2>4, <2>5, <2>6 DEF GenOK
<1>6. CASE ~(/\ (Len(t) <= oldPos \/ t[oldPos + 1] # s)
             /\ vec_idx_of(t, s) = Len(t) + 1)
  <2>1. V' = V /\ oldPos' = oldPos
    BY <1>6 DEF LogSameModule
  <2>2. PICK k \in 1..Len(t) : t[k] = s
    <3>1. CASE oldPos < Len(t) /\ t[oldPos + 1] = s
      BY <1>1, <1>3, <3>1
    <3>2. CASE ~(oldPos < Len(t) /\ t[oldPos + 1] = s)
      BY <1>1, <1>3, <1>4, <1>6, <3>2
    <3>. QED  BY <3>1, <3>2
  <2>3. <<n, s>> \in Catalogued(V)
    BY <1>2, <2>2 DEF Catalogued
  <2>4. Catalogued(V) = CatPlus(V, n, s)
    BY <2>3 DEF CatPlus
  <2>. QED  BY <2>1, <2>4
<1>. QED  BY <1>5, <1>6

(* The search path of log_symbol (lines 255-277): a module not yet in    *)
(* modules_vector gets an entry, then the symbol is appended unless that  *)
(* entry holds it; oldPos is read from modules_vector[oldModule], an      *)
(* index that stays valid.                                                 *)
LEMMA LogSearchStep ==
    ASSUME NEW n \in ModNames, NEW s \in SymNames,
           GenOK(modules_vector, oldModule, oldPos),
           LogSearch(n, s)
    PROVE  /\ GenOK(modules_vector', oldModule', oldPos')
           /\ Catalogued(modules_vector') = CatPlus(modules_vector, n, s)
<1>. DEFINE V == modules_vector
<1>1. /\ V \in Seq(ModuleEntries) /\ NamesDistinct(V) /\ SymsDistinct(V)
      /\ oldModule \in Nat /\ oldPos \in Nat
      /\ V = <<>> \/ oldModule < Len(V)
  BY DEF GenOK
<1>a. PICK q : q = ModIdx(V, n)
  OBVIOUS
<1>b. PICK W : W = IF q = Len(V) + 1
                   THEN Append(V, [name |-> n, all |-> FALSE, syms |-> <<>>])
                   ELSE V
  OBVIOUS
<1>c. PICK om : /\ om = IF q = Len(V) + 1 THEN q - 1 ELSE oldModule
                /\ oldModule' = om
                /\ IF vec_idx_of(W[q].syms, s) = Len(W[q].syms) + 1
                   THEN /\ oldPos' = Len(W[om + 1].syms)
                        /\ V' = [W EXCEPT ![q].syms = Append(@, s)]
                   ELSE /\ V' = W
                        /\ oldPos' = oldPos
  BY <1>a, <1>b DEF LogSearch
<1>2. /\ q \in 1..Len(V) + 1
      /\ q = Len(V) + 1 <=> \A i \in 1..Len(V) : V[i].name # n
      /\ q <= Len(V) => V[q].name = n
  BY <1>1, <1>a, ModIdxSpec
<1>3. CASE q = Len(V) + 1
  <2>1. /\ W \in Seq(ModuleEntries)
        /\ Len(W) = Len(V) + 1
        /\ W[Len(V) + 1].name = n /\ W[Len(V) + 1].syms = <<>>
        /\ NamesDistinct(W) /\ SymsDistinct(W)
        /\ Catalogued(W) = Catalogued(V)
    <3>1. W = Append(V, [name |-> n, all |-> FALSE, syms |-> <<>>])
      BY <1>3, <1>b
    <3>2. \A i \in 1..Len(V) : V[i].name # n
      BY <1>2, <1>3
    <3>3. \A mv2 : mv2 = Append(V, [name |-> n, all |-> FALSE, syms |-> <<>>]) =>
             /\ mv2 \in Seq(ModuleEntries)
             /\ Len(mv2) = Len(V) + 1
             /\ mv2[Len(V) + 1].name = n /\ mv2[Len(V) + 1].syms = <<>>
             /\ NamesDistinct(mv2) /\ SymsDistinct(mv2)
             /\ Catalogued(mv2) = Catalogued(V)
      BY Zenon, <1>1, <3>2, AppendEntry
    <3>. QED  BY Zenon, <3>1, <3>3
  <2>2. W[q].syms = <<>> /\ W[q].name = n /\ om = Len(V) /\ q \in 1..Len(W)
    BY <1>1, <1>3, <1>c, <2>1
  <2>3. vec_idx_of(W[q].syms, s) = Len(W[q].syms) + 1
    BY <2>2 DEF vec_idx_of
  <2>4. /\ oldModule' = om
        /\ oldPos' = Len(W[om + 1].syms)
        /\ V' = [W EXCEPT ![q].syms = Append(@, s)]
    BY <1>c, <2>3
  <2>5. W[om + 1].syms = <<>>
    BY <1>1, <1>3, <2>2
  <2>6. \A k \in 1..Len(W[q].syms) : W[q].syms[k] # s
    BY <2>2
  <2>7. /\ V' \in Seq(ModuleEntries)
        /\ Len(V') = Len(W)
        /\ NamesDistinct(V') /\ SymsDistinct(V')
        /\ Catalogued(V') = CatPlus(W, W[q].name, s)
    <3>1. \A mv2 : mv2 = [W EXCEPT ![q].syms = Append(@, s)] =>
             /\ mv2 \in Seq(ModuleEntries)
             /\ Len(mv2) = Len(W)
             /\ NamesDistinct(mv2) /\ SymsDistinct(mv2)
             /\ Catalogued(mv2) = CatPlus(W, W[q].name, s)
      BY Zenon, <2>1, <2>2, <2>6, AppendSym
    <3>. QED  BY Zenon, <2>4, <3>1
  <2>8. CatPlus(W, W[q].name, s) = CatPlus(V, n, s)
    BY <2>1, <2>2 DEF CatPlus
  <2>9. oldModule' \in Nat /\ oldPos' \in Nat /\ oldModule' < Len(V')
    BY <1>1, <2>1, <2>2, <2>4, <2>5, <2>7
  <2>. QED  BY <2>7, <2>8, <2>9 DEF GenOK
<1>4. CASE q <= Len(V)
  <2>1. /\ q \in 1..Len(V) /\ V[q].name = n /\ oldModule + 1 \in 1..Len(V)
        /\ W = V /\ om = oldModule
    BY <1>1, <1>2, <1>4, <1>b, <1>c
  <2>. DEFINE t == V[q].syms
  <2>2. t \in Seq(SymNames) /\ \A a, b \in 1..Len(t) : a # b => t[a] # t[b]
    BY <1>1, <2>1, ElemOfSeq, EntrySyms DEF SymsDistinct
  <2>3. /\ vec_idx_of(t, s) \in 1..Len(t) + 1
        /\ vec_idx_of(t, s) = Len(t) + 1 <=> \A i \in 1..Len(t) : t[i] # s
        /\ vec_idx_of(t, s) <= Len(t) => t[vec_idx_of(t, s)] = s
    BY <2>2, VecIdx
  <2>4. Len(V[oldModule + 1].syms) \in Nat
    BY <1>1, <2>1, ElemOfSeq, EntrySyms
  <2>5. CASE vec_idx_of(t, s) = Len(t) + 1
    <3>1. /\ oldModule' = oldModule
          /\ oldPos' = Len(V[oldModule + 1].syms)
          /\ V' = [V EXCEPT ![q].syms = Append(@, s)]
      BY <1>c, <2>1, <2>5
    <3>2. /\ V' \in Seq(ModuleEntries)
          /\ Len(V') = Len(V)
          /\ NamesDistinct(V') /\ SymsDistinct(V')
          /\ Catalogued(V') = CatPlus(V, V[q].name, s)
      <4>1. \A k \in 1..Len(V[q].syms) : V[q].syms[k] # s
        BY <2>3, <2>5
      <4>2. q \in 1..Len(V) /\ s \in SymNames
        BY <2>1
      <4>3. \A mv2 : mv2 = [V EXCEPT ![q].syms = Append(@, s)] =>
               /\ mv2 \in Seq(ModuleEntries)
               /\ Len(mv2) = Len(V)
               /\ NamesDistinct(mv2) /\ SymsDistinct(mv2)
               /\ Catalogued(mv2) = CatPlus(V, V[q].name, s)
        BY Zenon, <1>1, <4>1, <4>2, AppendSym
      <4>. QED
        BY Zenon, <3>1, <4>3
    <3>3. oldModule' \in Nat /\ oldPos' \in Nat /\ oldModule' < Len(V')
      BY <1>1, <2>1, <2>4, <3>1, <3>2
    <3>. QED  BY <2>1, <3>2, <3>3 DEF GenOK
  <2>6. CASE vec_idx_of(t, s) # Len(t) + 1
    <3>1. V' = V /\ oldModule' = oldModule /\ oldPos' = oldPos
      BY <1>c, <2>1, <2>6
    <3>2. <<n, s>> \in Catalogued(V)
      <4>1. vec_idx_of(t, s) \in 1..Len(t) /\ t[vec_idx_of(t, s)] = s
        BY <2>2, <2>3, <2>6
      <4>. QED  BY <2>1, <4>1 DEF Catalogued
    <3>3. Catalogued(V) = CatPlus(V, n, s)
      BY <3>2 DEF CatPlus
    <3>. QED  BY <3>1, <3>3
  <2>. QED  BY <2>5, <2>6
<1>. QED  BY <1>2, <1>3, <1>4

(* An empty modules_vector: nothing catalogued, the statics in bounds.    *)
LEMMA EmptyVector ==
    ASSUME NEW om \in Nat, NEW op \in Nat
    PROVE  GenOK(<<>>, om, op) /\ Catalogued(<<>>) = {}
BY DEF GenOK, NamesDistinct, SymsDistinct, Catalogued, ModuleEntries

(* A block of a mapped module is at an address of one of its segments:    *)
(* drsym gives it a symbol name or none.                                  *)
LEMMA SymAtType ==
    ASSUME NEW r \in [name : ModNames, start : Nat, flag : Flags],
           NEW pc \in SegAddrs(AsModule(r))
    PROVE  SymAt(AsModule(r), pc) \in SymNames \cup {NoSym}
<1>. DEFINE lay == Layout[r.name]
<1>1. lay \in Seq(SymNames \cup {NoSym, Gap})
  BY FilterConstantsAssumption
<1>2. PICK o \in 1..Len(lay) : lay[o] # Gap /\ pc = r.start + o - 1
  BY DEF SegAddrs, AsModule
<1>3. SymAt(AsModule(r), pc) = lay[o]
  BY <1>1, <1>2 DEF SymAt, AsModule
<1>. QED  BY <1>1, <1>2, <1>3

(* symbol_lookup_event logs the block's (module, symbol) pair, and the     *)
(* catalog gains exactly that pair.                                        *)
LEMMA LookupStep ==
    ASSUME CatalogInv, NEW r \in mapped, NEW pc \in SegAddrs(AsModule(r)),
           SymbolLookupEvent(r, pc)
    PROVE  CatalogInv'
<1>. DEFINE sym == SymAt(AsModule(r), pc)
<1>1. /\ mode = "GENERATE" /\ phase = "run" /\ GenOK(modules_vector, oldModule, oldPos)
      /\ Catalogued(modules_vector) = seen
      /\ r \in [name : ModNames, start : Nat, flag : Flags]
  BY DEF SymbolLookupEvent, CatalogInv, CatalogExact
<1>2. sym \in SymNames \cup {NoSym}
  BY <1>1, SymAtType
<1>3. /\ log_symbol(r.name, sym)
      /\ seen' = IF sym = NoSym THEN seen ELSE seen \cup {<<r.name, sym>>}
      /\ UNCHANGED <<mode, phase, mapped>>
  BY DEF SymbolLookupEvent
<1>4. /\ GenOK(modules_vector', oldModule', oldPos')
      /\ Catalogued(modules_vector') = seen'
  <2>1. CASE sym = NoSym
    BY <1>1, <1>3, <2>1 DEF log_symbol
  <2>0. r.name \in ModNames /\ (sym # NoSym => sym \in SymNames)
    BY <1>1, <1>2
  <2>a. sym # NoSym => CatPlus(modules_vector, r.name, sym) = seen'
    BY <1>1, <1>3 DEF CatPlus
  <2>2. CASE sym # NoSym /\ Len(modules_vector) > oldModule
                        /\ modules_vector[oldModule + 1].name = r.name
    <3>1. LogSameModule(sym) /\ oldModule' = oldModule
      BY <1>3, <2>2 DEF log_symbol
    <3>2. /\ GenOK(modules_vector', oldModule', oldPos')
          /\ Catalogued(modules_vector') = CatPlus(modules_vector, r.name, sym)
      BY ZenonT(60), <1>1, <2>0, <2>2, <3>1, LogSameModuleStep
    <3>. QED  BY <2>a, <2>2, <3>2
  <2>3. CASE sym # NoSym /\ ~(Len(modules_vector) > oldModule
                           /\ modules_vector[oldModule + 1].name = r.name)
    <3>1. LogSearch(r.name, sym)
      BY <1>3, <2>3 DEF log_symbol
    <3>2. /\ GenOK(modules_vector', oldModule', oldPos')
          /\ Catalogued(modules_vector') = CatPlus(modules_vector, r.name, sym)
      BY ZenonT(60), <1>1, <2>0, <2>3, <3>1, LogSearchStep
    <3>. QED  BY <2>a, <2>3, <3>2
  <2>. QED  BY <2>1, <2>2, <2>3
<1>5. /\ mode' = "GENERATE" /\ phase' = "run"
      /\ mapped' \subseteq [name : ModNames, start : Nat, flag : Flags]
  BY <1>1, <1>3 DEF CatalogInv
<1>. QED  BY <1>4, <1>5 DEF CatalogInv, CatalogExact, GenOK, Modes

(* At startup (no options parsed, nothing mapped yet) the invariant of  *)
(* the catalog holds.                                                    *)
LEMMA CatalogInvInit == Init => CatalogInv
<1>. SUFFICES ASSUME Init PROVE CatalogInv
  OBVIOUS
<1>1. mapped \subseteq [name : ModNames, start : Nat, flag : Flags]
  BY SymbolFilterAssumption DEF Init, Loaded, Flags
<1>. QED  BY <1>1 DEF Init, CatalogInv, CatalogExact, Modes

(* Every step of the client (option parsing, the mode manager, module    *)
(* loads and unloads, block events) preserves the invariant.             *)
LEMMA CatalogInvStep == CatalogInv /\ [Next]_vars => CatalogInv'
<1>. SUFFICES ASSUME CatalogInv, [Next]_vars PROVE CatalogInv'
  OBVIOUS
<1>0. /\ oldModule \in Nat /\ oldPos \in Nat
      /\ phase \in {"args", "lists"} => modules_vector = <<>> /\ seen = {}
  BY DEF CatalogInv
<1>1. CASE ParseArg
  <2>1. /\ phase = "args" /\ phase' \in {"args", "aborted"} /\ mode' \in Modes
        /\ UNCHANGED <<modules_vector, seen, oldModule, oldPos, mapped>>
    BY <1>1 DEF ParseArg, WithFile, Abort, Modes, CatalogInv
  <2>2. GenOK(<<>>, oldModule, oldPos) /\ Catalogued(<<>>) = {}
    BY <1>0, EmptyVector
  <2>3. modules_vector' = <<>> /\ seen' = {}
    BY <1>0, <2>1
  <2>4. mapped' \subseteq [name : ModNames, start : Nat, flag : Flags]
    BY <2>1 DEF CatalogInv
  <2>. QED  BY <1>0, <2>1, <2>2, <2>3, <2>4 DEF CatalogInv, CatalogExact, GenOK
<1>2. CASE ArgsEnd
  BY <1>2 DEF ArgsEnd, CatalogInv, CatalogExact
<1>3. CASE ModeManager
  <2>1. /\ phase = "lists" /\ phase' \in {"run", "aborted"}
        /\ UNCHANGED <<mode, seen, oldModule, oldPos, mapped>>
    BY <1>3 DEF ModeManager
  <2>2. CASE mode = "GENERATE"
    <3>1. modules_vector' = <<>>
      BY <1>0, <1>3, <2>1, <2>2 DEF ModeManager, ListModes
    <3>. QED  BY <1>0, <2>1, <3>1, EmptyVector DEF CatalogInv, CatalogExact
  <2>3. CASE mode # "GENERATE"
    BY <2>1, <2>3 DEF CatalogInv, CatalogExact
  <2>. QED  BY <2>2, <2>3
<1>4. CASE \E r \in mapped : StartupModuleLoad(r)
  <2>1. PICK r \in mapped : StartupModuleLoad(r)
    BY <1>4
  <2>2. LoadFlag(AsModule(r)) \in Flags
    BY DEF LoadFlag, Flag, Flags
  <2>3. r \in [name : ModNames, start : Nat, flag : Flags]
    BY DEF CatalogInv
  <2>4. [r EXCEPT !.flag = LoadFlag(AsModule(r))] \in [name : ModNames, start : Nat, flag : Flags]
    BY <2>2, <2>3
  <2>. QED  BY <2>1, <2>4 DEF StartupModuleLoad, CatalogInv, CatalogExact
<1>5. CASE \E m \in ModNames, a \in 1..NAddr : ModuleLoad([name |-> m, start |-> a])
  <2>1. PICK m \in ModNames, a \in 1..NAddr : ModuleLoad([name |-> m, start |-> a])
    BY <1>5
  <2>2. LoadFlag([name |-> m, start |-> a]) \in Flags
    BY DEF LoadFlag, Flag, Flags
  <2>. QED  BY <2>1, <2>2, SymbolFilterAssumption DEF ModuleLoad, CatalogInv, CatalogExact
<1>6. CASE \E r \in mapped : ModuleUnload(r)
  BY <1>6 DEF ModuleUnload, CatalogInv, CatalogExact
<1>7. CASE \E r \in mapped : \E pc \in SegAddrs(AsModule(r)) : BlockEvent(r, pc)
  BY <1>7 DEF BlockEvent, CatalogInv, CatalogExact
<1>8. CASE \E r \in mapped : \E pc \in SegAddrs(AsModule(r)) : SymbolLookupEvent(r, pc)
  BY <1>8, LookupStep
<1>9. CASE UNCHANGED vars
  BY <1>9 DEF vars, CatalogInv, CatalogExact, GenOK
<1>. QED  BY <1>1, <1>2, <1>3, <1>4, <1>5, <1>6, <1>7, <1>8, <1>9 DEF Next

(* THEOREM: whatever the modules, symbols, layouts and command line,     *)
(* nothing is catalogued before the lists are read or outside generate   *)
(* mode, and in generate mode the statics of log_symbol stay within      *)
(* modules_vector and its catalog is exact (CatalogExact).               *)
THEOREM CatalogInvariant == Spec => []CatalogInv
BY CatalogInvInit, CatalogInvStep, PTL DEF Spec

(* THEOREM: in generate mode, whatever the modules, symbols, layouts and  *)
(* command line, the catalog log_symbol builds in modules_vector (and     *)
(* write_symbols_to_file prints at exit) lists every (module, symbol)     *)
(* pair of the logged blocks, once each and nothing else.                 *)
THEOREM CatalogExactInvariant == Spec => []CatalogExact
<1>1. CatalogInv => CatalogExact
  BY DEF CatalogInv
<1>. QED  BY <1>1, CatalogInvariant, PTL

(* A symbol drsym finds for a block of a mapped module is one of that     *)
(* module's own symbols.                                                  *)
LEMMA SymAtSyms ==
    ASSUME NEW r \in [name : ModNames, start : Nat, flag : Flags],
           NEW pc \in SegAddrs(AsModule(r)),
           SymAt(AsModule(r), pc) # NoSym
    PROVE  SymAt(AsModule(r), pc) \in SymsOf(r.name)
<1>. DEFINE lay == Layout[r.name]
<1>1. lay \in Seq(SymNames \cup {NoSym, Gap})
  BY FilterConstantsAssumption
<1>2. PICK o \in 1..Len(lay) : lay[o] # Gap /\ pc = r.start + o - 1
  BY DEF SegAddrs, AsModule
<1>3. SymAt(AsModule(r), pc) = lay[o]
  BY <1>1, <1>2 DEF SymAt, AsModule
<1>4. SymAt(AsModule(r), pc) \in SymNames
  BY SymAtType
<1>. QED  BY <1>2, <1>3, <1>4 DEF SymsOf

(* Under the invariant the refinement mapping is the set of seen pairs:   *)
(* in generate mode by CatalogExact, in the other modes both are empty.   *)
LEMMA ViewIsSeen == CatalogInv => CatalogView = seen
BY DEF CatalogInv, CatalogExact, CatalogView

(* Every step of the client either leaves the abstract catalog as it is   *)
(* or is one Log step of the abstract specification.                      *)
LEMMA RefinementStep ==
    CatalogInv /\ CatalogInv' /\ [Next]_vars => [Abs!Next]_CatalogView
<1>. SUFFICES ASSUME CatalogInv, CatalogInv', [Next]_vars
              PROVE  [Abs!Next]_CatalogView
  OBVIOUS
<1>1. CatalogView = seen /\ CatalogView' = seen'
  BY DEF CatalogInv, CatalogExact, CatalogView
<1>2. CASE \E r \in mapped : \E pc \in SegAddrs(AsModule(r)) : SymbolLookupEvent(r, pc)
  <2>0. PICK r \in mapped : \E pc \in SegAddrs(AsModule(r)) : SymbolLookupEvent(r, pc)
    BY <1>2
  <2>1. PICK pc \in SegAddrs(AsModule(r)) : SymbolLookupEvent(r, pc)
    BY <2>0
  <2>. DEFINE sym == SymAt(AsModule(r), pc)
  <2>2. seen' = IF sym = NoSym THEN seen ELSE seen \cup {<<r.name, sym>>}
    BY <2>1 DEF SymbolLookupEvent
  <2>3. r \in [name : ModNames, start : Nat, flag : Flags]
    BY DEF CatalogInv
  <2>4. CASE sym = NoSym
    BY <1>1, <2>2, <2>4
  <2>5. CASE sym # NoSym
    <3>1. sym \in SymsOf(r.name) /\ r.name \in ModNames
      BY <2>3, <2>5, SymAtSyms
    <3>2. CatalogView' = CatalogView \cup {<<r.name, sym>>}
      BY <1>1, <2>2, <2>5
    <3>3. sym \in [m \in ModNames |-> SymsOf(m)][r.name]
      BY <3>1
    <3>. QED  BY <3>1, <3>2, <3>3 DEF Abs!Next, Abs!Log
  <2>. QED  BY <2>4, <2>5
<1>3. CASE ~\E r \in mapped : \E pc \in SegAddrs(AsModule(r)) : SymbolLookupEvent(r, pc)
  <2>1. seen' = seen
    <3>1. CASE ParseArg
      BY <3>1 DEF ParseArg
    <3>2. CASE ArgsEnd
      BY <3>2 DEF ArgsEnd
    <3>3. CASE ModeManager
      BY <3>3 DEF ModeManager
    <3>4. CASE \E r \in mapped : StartupModuleLoad(r)
      BY <3>4 DEF StartupModuleLoad
    <3>5. CASE \E m \in ModNames, a \in 1..NAddr : ModuleLoad([name |-> m, start |-> a])
      BY <3>5 DEF ModuleLoad
    <3>6. CASE \E r \in mapped : ModuleUnload(r)
      BY <3>6 DEF ModuleUnload
    <3>7. CASE \E r \in mapped : \E pc \in SegAddrs(AsModule(r)) : BlockEvent(r, pc)
      BY <3>7 DEF BlockEvent
    <3>8. CASE UNCHANGED vars
      BY <3>8 DEF vars
    <3>. QED  BY <1>3, <3>1, <3>2, <3>3, <3>4, <3>5, <3>6, <3>7, <3>8 DEF Next
  <2>. QED  BY <1>1, <2>1
<1>. QED  BY <1>2, <1>3

(* THEOREM: the catalog log_symbol keeps in modules_vector implements the *)
(* abstract catalog of generate mode (CatalogRefinement): it is empty at  *)
(* startup and each step of the client adds at most one pair, of a mapped *)
(* module and one of its own symbols, for every modules, symbols,         *)
(* layouts and command line.                                              *)
THEOREM CatalogRefinementCorrect == Spec => CatalogRefinement
<1>1. Init => Abs!Init
  BY DEF Init, Abs!Init, CatalogView
<1>. QED  BY <1>1, RefinementStep, CatalogInvariant, PTL
          DEF Spec, CatalogRefinement, Abs!Spec

(* Once the client runs outside generate mode no step of it, option      *)
(* parsing and the mode manager being over, changes modules_vector.       *)
LEMMA FrozenStep ==
    [Next]_vars => (phase = "run" /\ mode # "GENERATE" => modules_vector' = modules_vector)
<1>. SUFFICES ASSUME [Next]_vars, phase = "run", mode # "GENERATE"
              PROVE  modules_vector' = modules_vector
  OBVIOUS
<1>1. CASE ParseArg
  BY <1>1 DEF ParseArg
<1>2. CASE ArgsEnd
  BY <1>2 DEF ArgsEnd
<1>3. CASE ModeManager
  BY <1>3 DEF ModeManager
<1>4. CASE \E r \in mapped : StartupModuleLoad(r)
  BY <1>4 DEF StartupModuleLoad
<1>5. CASE \E m \in ModNames, a \in 1..NAddr : ModuleLoad([name |-> m, start |-> a])
  BY <1>5 DEF ModuleLoad
<1>6. CASE \E r \in mapped : ModuleUnload(r)
  BY <1>6 DEF ModuleUnload
<1>7. CASE \E r \in mapped : \E pc \in SegAddrs(AsModule(r)) : BlockEvent(r, pc)
  BY <1>7 DEF BlockEvent
<1>8. CASE \E r \in mapped : \E pc \in SegAddrs(AsModule(r)) : SymbolLookupEvent(r, pc)
  BY <1>8 DEF SymbolLookupEvent
<1>9. CASE UNCHANGED vars
  BY <1>9 DEF vars
<1>. QED  BY <1>1, <1>2, <1>3, <1>4, <1>5, <1>6, <1>7, <1>8, <1>9 DEF Next

(* THEOREM: outside generate mode the lists parsed at startup are never   *)
(* changed once the client runs (ListsFrozenAfterStartup), whatever the   *)
(* loads, unloads and block events that follow.                            *)
THEOREM ListsFrozen == Spec => ListsFrozenAfterStartup
BY FrozenStep, PTL DEF Spec, ListsFrozenAfterStartup
=============================================================================
