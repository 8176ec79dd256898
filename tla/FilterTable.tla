----------------------------- MODULE FilterTable -----------------------------
(***************************************************************************)
(* The data of the symbol and module filter of symbol_config.{hpp,cpp}:   *)
(* the modules_vector built from the whitelist and the blacklist, and the *)
(* lookup_vector of address ranges built from it when a module is loaded. *)
(*                                                                         *)
(* Names of modules and symbols are model values.  A list line is already *)
(* stripped of its comment and blanks: Blank stands for a line that is    *)
(* empty after that, [mod |-> m, sym |-> Whole] for "m", and              *)
(* [mod |-> m, sym |-> s] for "m!s".  C indices (0-based, `size' for "not *)
(* found") become 1-based, Len + 1 for "not found".                       *)
(*                                                                         *)
(* A module image is Layout[m], one element per address: the name of the  *)
(* symbol the byte belongs to, NoSym for code of no symbol, or Gap for a  *)
(* hole between two segments (a non-contiguous module).  A module loaded  *)
(* at address `start' is the record [name, start].                        *)
(*                                                                         *)
(* Recursion is written as recursive functions so that the module can be  *)
(* reasoned about with TLAPS.                                             *)
(***************************************************************************)
EXTENDS Naturals, Sequences, FiniteSets

CONSTANTS
    ModNames,   \* names of the modules of the process
    SymNames,   \* names of the symbols
    Whole,      \* the symbol part of a whole-module line
    Blank,      \* a line that is empty once comment and blanks are gone
    NoSym,      \* an address that belongs to no symbol
    Gap,        \* an address between two segments of a module
    Layout      \* Layout[m]: the image of module m

ASSUME FilterConstantsAssumption ==
    /\ {Whole, Blank, NoSym, Gap} \cap (ModNames \cup SymNames) = {}
    /\ Whole # Blank /\ NoSym # Gap
    /\ Layout \in [ModNames -> Seq(SymNames \cup {NoSym, Gap})]

(* get_symbol_mode(): the values of plc_symbol_mode_t (utils.hpp).        *)
Modes == {"NOLOOKUP", "GENERATE", "BL_ONLY", "WL_ONLY", "BL_WL", "HELP"}

Lines == {Blank} \cup [mod : ModNames, sym : SymNames \cup {Whole}]

(* struct module_entry: module_name, all_symbols, symbols.                 *)
ModuleEntries == [name : ModNames, all : BOOLEAN, syms : Seq(SymNames)]

(* vec_idx_of, for a vector of strings and for modules_vector (where      *)
(* module_entry::operator== compares the names only).                     *)
vec_idx_of(vec, elem) ==
    LET I == {i \in 1..Len(vec) : vec[i] = elem}
    IN  IF I = {} THEN Len(vec) + 1 ELSE CHOOSE i \in I : \A j \in I : i <= j

ModIdx(mv, name) ==
    LET I == {i \in 1..Len(mv) : mv[i].name = name}
    IN  IF I = {} THEN Len(mv) + 1 ELSE CHOOSE i \in I : \A j \in I : i <= j

(* vector::erase(begin() + i).                                             *)
EraseAt(s, i) == [j \in 1..Len(s) - 1 |-> IF j < i THEN s[j] ELSE s[j + 1]]

(* parse_line(line, parsing_whitelist) once the line is trimmed: its      *)
(* effect on modules_vector.                                               *)
parse_line(mv, line, parsing_whitelist, mode) ==
  IF line = Blank THEN mv
  ELSE
  LET whole  == line.sym = Whole
      pos    == ModIdx(mv, line.mod)
      exists == pos <= Len(mv)
  IN
  IF parsing_whitelist \/ mode = "BL_ONLY"
  THEN IF exists
       THEN IF whole
            THEN [mv EXCEPT ![pos].syms = <<>>, ![pos].all = TRUE]
            ELSE IF ~mv[pos].all /\ vec_idx_of(mv[pos].syms, line.sym) = Len(mv[pos].syms) + 1
                 THEN [mv EXCEPT ![pos].syms = Append(@, line.sym)]
                 ELSE mv
       ELSE Append(mv, [name |-> line.mod, all |-> whole,
                        syms |-> IF whole THEN <<>> ELSE <<line.sym>>])
  ELSE \* the blacklist in BL_WL mode
       IF ~exists THEN mv
       ELSE IF whole THEN EraseAt(mv, pos)
       ELSE IF mv[pos].all THEN [mv EXCEPT ![pos].syms = Append(@, line.sym)]
       ELSE LET sympos == vec_idx_of(mv[pos].syms, line.sym)
            IN  IF sympos <= Len(mv[pos].syms)
                THEN [mv EXCEPT ![pos].syms = EraseAt(@, sympos)]
                ELSE mv

(* The getline loop over a file: parse_line on each line in turn.          *)
ParseFile(mv, file, parsing_whitelist, mode) ==
    LET f[n \in 0..Len(file)] ==
            IF n = 0 THEN mv ELSE parse_line(f[n - 1], file[n], parsing_whitelist, mode)
    IN  f[Len(file)]

(* remove_if(need_cleanup_module) then erase: entries of no symbol that   *)
(* are not whole are dropped, and outside BL_WL a whole entry loses its   *)
(* symbols.                                                                *)
need_cleanup_module(e) == ~e.all /\ e.syms = <<>>
(* Mutant: the symbols of a whole entry are cleared in BL_WL mode too,    *)
(* losing the blacklisted exceptions.                                     *)
CleanedEntryAlways(e, mode) == IF e.all THEN [e EXCEPT !.syms = <<>>] ELSE e
CleanedEntry(e, mode) ==
    IF e.all /\ mode # "BL_WL" THEN [e EXCEPT !.syms = <<>>] ELSE e
Cleanup(mv, mode) ==
    LET kept == SelectSeq(mv, LAMBDA e : ~need_cleanup_module(e))
    IN  [i \in 1..Len(kept) |-> CleanedEntry(kept[i], mode)]

(* generate_blacklist_from_file and generate_whitelist_from_files, from   *)
(* an empty modules_vector.                                                *)
generate_blacklist_from_file(bl, mode) == Cleanup(ParseFile(<<>>, bl, FALSE, mode), mode)
generate_whitelist_from_files(wl, bl, mode) ==
    Cleanup(ParseFile(ParseFile(<<>>, wl, TRUE, mode), bl, FALSE, mode), mode)

-----------------------------------------------------------------------------
(* A loaded module: module_data_t start, end, contiguous and segments.    *)
ModEnd(mod) == mod.start + Len(Layout[mod.name])
Contiguous(name) == \A o \in 1..Len(Layout[name]) : Layout[name][o] # Gap
SegAddrs(mod) == {mod.start + o - 1 : o \in {o \in 1..Len(Layout[mod.name]) :
                                              Layout[mod.name][o] # Gap}}
SymsOf(name) == {Layout[name][o] : o \in 1..Len(Layout[name])} \cap SymNames

(* What drsym_lookup_address returns for an address of a loaded module:   *)
(* the name of its symbol, or NoSym (get_symbol_name's "").               *)
SymAt(mod, pc) == Layout[mod.name][pc - mod.start + 1]

(* drsym_lookup_symbol then drsym_lookup_address: the range              *)
(* [start_offs, end_offs[ of symbol s, relocated at the module start.     *)
SymRange(mod, s) ==
    LET O == {o \in 1..Len(Layout[mod.name]) : Layout[mod.name][o] = s}
        lo == CHOOSE o \in O : \A p \in O : o <= p
        hi == CHOOSE o \in O : \A p \in O : p <= o
    IN  [name |-> s, start |-> mod.start + lo - 1, end |-> mod.start + hi]

(* lookup_or_load_module, lines 311-352: the lookup_entry_t of a module    *)
(* of the list.  Symbols drsym cannot find are skipped.                   *)
NewEntry(mod, mentry, mode) ==
    LET found == SelectSeq(mentry.syms, LAMBDA s : s \in SymsOf(mod.name))
    IN  [name |-> mod.name, start |-> mod.start, end |-> ModEnd(mod),
         total |-> mentry.all, contiguous |-> Contiguous(mod.name),
         segments |-> IF Contiguous(mod.name) THEN {} ELSE SegAddrs(mod),
         syms |-> IF ~mentry.all \/ mode = "BL_WL"
                  THEN [i \in 1..Len(found) |-> SymRange(mod, found[i])]
                  ELSE <<>>]

InRange(r, pc) == r.start <= pc /\ pc < r.end

(* lookup_entry_t::contains(pc, lookup), Linux branch; isModule is        *)
(* PLC_LOOKUP_MODULE.                                                      *)
contains(e, pc, isModule) ==
    IF isModule \/ (e.total /\ e.syms = <<>>)
    THEN IF e.contiguous THEN InRange(e, pc) ELSE pc \in e.segments
    ELSE /\ InRange(e, pc)
         /\ IF \E i \in 1..Len(e.syms) : InRange(e.syms[i], pc)
            THEN ~e.total ELSE e.total

(* lookup_find: the first entry that contains pc, 0 for nullptr.          *)
lookup_find(lv, pc, isModule) ==
    LET I == {i \in 1..Len(lv) : contains(lv[i], pc, isModule)}
    IN  IF I = {} THEN 0 ELSE CHOOSE i \in I : \A j \in I : i <= j

(* lookup_or_load_module(module): lookup_vector once it is called.        *)
lookup_or_load_module(lv, mv, mod, mode) ==
    LET pos == ModIdx(mv, mod.name)
    IN  IF lookup_find(lv, mod.start, TRUE) # 0 \/ pos > Len(mv) THEN lv
        ELSE Append(lv, NewEntry(mod, mv[pos], mode))

(* should_instrument_module(module), on lookup_vector as left by its call *)
(* of lookup_or_load_module.                                               *)
should_instrument_module(lv, mod, mode) ==
    LET f == lookup_find(lv, mod.start, TRUE)
    IN  IF f # 0
        THEN (mode = "BL_ONLY" /\ ~lv[f].total) \/ mode \in {"WL_ONLY", "BL_WL"}
        ELSE mode \in {"BL_ONLY", "NOLOOKUP"}

(* needs_to_instrument(ilist) for a block starting at pc # 0.             *)
needs_to_instrument(lv, pc, mode) ==
    CASE mode = "NOLOOKUP"             -> TRUE
      [] mode \in {"GENERATE", "HELP"} -> FALSE
      [] OTHER -> (lookup_find(lv, pc, FALSE) # 0) # (mode = "BL_ONLY")

=============================================================================
