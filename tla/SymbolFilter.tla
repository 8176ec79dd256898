---------------------------- MODULE SymbolFilter ----------------------------
(***************************************************************************)
(* The symbol and module filter of PADLOC in its process:                 *)
(*   - the command line, read option by option by symbol_argument_parser *)
(*     (arguments_parser itself, in utils.cpp, is modelled from the spec); *)
(*   - symbol_client_mode_manager, which parses the lists into            *)
(*     modules_vector and turns the entries of the modules already loaded *)
(*     into lookup entries;                                                *)
(*   - then, while the application runs: module loads and unloads by the  *)
(*     host (module_load_handler, which sets the module's                  *)
(*     dr_module_set_should_instrument flag), the basic blocks given to   *)
(*     app2app_bb_event (needs_to_instrument) and, in generate mode, to   *)
(*     symbol_lookup_event (log_symbol).                                  *)
(* Block events are serialized by the host; a block is one address.       *)
(***************************************************************************)
EXTENDS FilterTable

CONSTANTS
    Argvs,            \* the command lines (sequences of Tokens) to try
    WLFiles,          \* the whitelist files to try
    BLFiles,          \* the blacklist files to try
    InitMapped,       \* the modules loaded before the client starts
    NAddr,            \* the addresses are 1..NAddr
    MaxLoads,         \* bound on the module loads after startup
    ReuseAddrs,       \* the host may map a module where one was unmapped
    ReloadStartup,    \* a module loaded at startup may be loaded again
    InGap             \* the host may map a module in the hole of another

(* "f" is a word that is no option: a file name after -w, -b or -g.       *)
Tokens == {"-n", "-w", "-b", "-g", "-ar", "f"}
Loaded == [name : ModNames, start : 1..NAddr]

ASSUME SymbolFilterAssumption ==
    /\ Argvs \subseteq Seq(Tokens)
    /\ WLFiles \subseteq Seq(Lines) /\ BLFiles \subseteq Seq(Lines)
    /\ NAddr \in Nat /\ MaxLoads \in Nat
    /\ {ReuseAddrs, ReloadStartup, InGap} \subseteq BOOLEAN
    /\ InitMapped \subseteq Loaded

VARIABLES
    argv, argi, arg_error,  \* the command line, the next option, inc_error
    mode,                   \* get_symbol_mode()
    phase,                  \* "args", "lists", "run" or "aborted"
    wl, bl,                 \* the contents of the whitelist and blacklist
    modules_vector, lookup_vector,
    mapped,                 \* the modules the host has mapped, with their flag
    used,                   \* the addresses ever mapped
    loads,                  \* module loads since startup
    last,                   \* the last block decision of app2app_bb_event
    oldModule, oldPos,      \* the statics of log_symbol
    seen                    \* the (module, symbol) pairs of the logged blocks

vars == <<argv, argi, arg_error, mode, phase, wl, bl, modules_vector,
          lookup_vector, mapped, used, loads, last, oldModule, oldPos, seen>>

NoBlock == [mod |-> Gap, sym |-> Gap, instr |-> FALSE]
Flags == {"pending", "yes", "no"}

Span(mod) == mod.start..(ModEnd(mod) - 1)
AsModule(r) == [name |-> r.name, start |-> r.start]
MappedNamed(n) == {r \in mapped : r.name = n}
Flag(b) == IF b THEN "yes" ELSE "no"

(* The host delivers the load events of the modules mapped at startup    *)
(* before any application code runs.                                     *)
Started == \A r \in mapped : r.flag # "pending"

TypeOK ==
    /\ argv \in Seq(Tokens) /\ argi \in Nat /\ arg_error \in BOOLEAN
    /\ mode \in Modes /\ phase \in {"args", "lists", "run", "aborted"}
    /\ modules_vector \in Seq(ModuleEntries)
    /\ \A i \in 1..Len(lookup_vector) : lookup_vector[i].name \in ModNames
    /\ mapped \subseteq [name : ModNames, start : 1..NAddr, flag : Flags]
    /\ used \subseteq 1..NAddr /\ loads \in 0..MaxLoads
    /\ last \in [mod : ModNames \cup {Gap}, sym : SymNames \cup {NoSym, Gap}, instr : BOOLEAN]
    /\ oldModule \in Nat /\ oldPos \in Nat
    /\ seen \subseteq ModNames \X SymNames

Init ==
    /\ argv \in Argvs /\ argi = 1 /\ arg_error = FALSE
    /\ mode = "NOLOOKUP"
    /\ phase = "args"
    /\ wl \in WLFiles /\ bl \in BLFiles
    /\ modules_vector = <<>> /\ lookup_vector = <<>>
    /\ mapped = {[name |-> m.name, start |-> m.start, flag |-> "pending"] : m \in InitMapped}
    /\ used = UNION {Span(m) : m \in InitMapped}
    /\ loads = 0
    /\ last = NoBlock
    /\ oldModule = 0 /\ oldPos = 0
    /\ seen = {}

-----------------------------------------------------------------------------
(* symbol_argument_parser on argv[argi].  An option that takes a file     *)
(* consumes the next word; when there is none, or when the file of -g     *)
(* cannot be opened, the mode becomes HELP and the parser asks to stop,   *)
(* which aborts the client.  In GENERATE mode the parser ignores every    *)
(* option.  A word no parser knows (symbol_argument_parser calls          *)
(* inc_error, and so does analyse's parser for everything but its own     *)
(* -ar) makes arguments_parser fail once the line is read.               *)
Abort == /\ mode' = "HELP" /\ phase' = "aborted"
         /\ UNCHANGED <<argi, arg_error>>

WithFile(m) ==
    IF argi + 1 <= Len(argv)
    THEN /\ mode' = m /\ argi' = argi + 2
         /\ UNCHANGED <<phase, arg_error>>
    ELSE Abort

ParseArg ==
    /\ phase = "args" /\ argi <= Len(argv)
    /\ LET tok == argv[argi] IN
       IF mode = "GENERATE"
       THEN /\ argi' = argi + 1 /\ UNCHANGED <<mode, phase, arg_error>>
       ELSE CASE tok = "-n" -> /\ mode' = "NOLOOKUP" /\ argi' = argi + 1
                               /\ UNCHANGED <<phase, arg_error>>
              [] tok = "-w" -> WithFile(IF mode \in {"BL_ONLY", "BL_WL"} THEN "BL_WL" ELSE "WL_ONLY")
              [] tok = "-b" -> WithFile(IF mode \in {"WL_ONLY", "BL_WL"} THEN "BL_WL" ELSE "BL_ONLY")
              [] tok = "-g" -> \/ WithFile("GENERATE")
                               \/ Abort       \* symbol_file.open fails
              [] OTHER      -> /\ argi' = argi + 1
                               /\ arg_error' = (arg_error \/ tok = "f")
                               /\ UNCHANGED <<mode, phase>>
    /\ UNCHANGED <<argv, wl, bl, modules_vector, lookup_vector, mapped, used,
                   loads, last, oldModule, oldPos, seen>>

ArgsEnd ==
    /\ phase = "args" /\ argi > Len(argv)
    /\ phase' = IF arg_error THEN "aborted" ELSE "lists"
    /\ UNCHANGED <<argv, argi, arg_error, mode, wl, bl, modules_vector,
                   lookup_vector, mapped, used, loads, last, oldModule, oldPos, seen>>

-----------------------------------------------------------------------------
(* symbol_client_mode_manager.  In the three list modes the list files  *)
(* are opened (DR_ASSERT_MSG aborts the client when one fails), parsed by *)
(* generate_blacklist_from_file or generate_whitelist_from_files, then    *)
(* load_lookup_from_modules_vector gives a lookup entry to each listed    *)
(* module the host has already mapped, in the order of modules_vector,    *)
(* and erases those entries from modules_vector.  In the other modes     *)
(* (the default of the switch) nothing is done.                           *)
ListModes == {"BL_ONLY", "WL_ONLY", "BL_WL"}

ListedTable ==
    CASE mode = "BL_ONLY" -> generate_blacklist_from_file(bl, mode)
      [] mode = "WL_ONLY" -> generate_whitelist_from_files(wl, <<>>, mode)
      [] mode = "BL_WL"   -> generate_whitelist_from_files(wl, bl, mode)

load_lookup_from_modules_vector(mv) ==
    LET f[n \in 0..Len(mv)] ==
            IF n = 0 THEN lookup_vector
            ELSE IF MappedNamed(mv[n].name) = {} THEN f[n - 1]
            ELSE lookup_or_load_module(f[n - 1], mv,
                     AsModule(CHOOSE r \in MappedNamed(mv[n].name) : TRUE), mode)
    IN  f[Len(mv)]

ModeManager ==
    /\ phase = "lists"
    /\ \/ /\ mode \in ListModes      \* a list fails to open
          /\ phase' = "aborted"
          /\ UNCHANGED <<modules_vector, lookup_vector>>
       \/ /\ mode \in ListModes
          /\ LET mv == ListedTable IN
             /\ lookup_vector' = load_lookup_from_modules_vector(mv)
             /\ modules_vector' = SelectSeq(mv, LAMBDA e : MappedNamed(e.name) = {})
          /\ phase' = "run"
       \/ /\ mode \notin ListModes
          /\ phase' = "run"
          /\ UNCHANGED <<modules_vector, lookup_vector>>
    /\ UNCHANGED <<argv, argi, arg_error, mode, wl, bl, mapped, used, loads,
                   last, oldModule, oldPos, seen>>

-----------------------------------------------------------------------------
(* module_load_handler: should_instrument_module, whose first step        *)
(* lookup_or_load_module may append a lookup entry, gives the module its  *)
(* flag.  It is registered in every mode but GENERATE.                    *)
HandleLoad(mod) ==
    lookup_vector' = IF mode = "GENERATE" THEN lookup_vector
                     ELSE lookup_or_load_module(lookup_vector, modules_vector, mod, mode)

LoadFlag(mod) ==
    IF mode = "GENERATE" THEN "yes"
    ELSE Flag(should_instrument_module(
             lookup_or_load_module(lookup_vector, modules_vector, mod, mode), mod, mode))

(* The host's load event of a module mapped before the client started.    *)
StartupModuleLoad(r) ==
    /\ phase = "run" /\ r.flag = "pending"
    /\ HandleLoad(AsModule(r))
    /\ mapped' = (mapped \ {r}) \cup {[r EXCEPT !.flag = LoadFlag(AsModule(r))]}
    /\ UNCHANGED <<argv, argi, arg_error, mode, phase, wl, bl, modules_vector,
                   used, loads, last, oldModule, oldPos, seen>>

(* Where the host may map a module: inside the address space, on no       *)
(* segment of another module, and, depending on the host constants, not  *)
(* over the span of another module, or over addresses used before other  *)
(* than the holes of the modules still mapped.                            *)
Holes == UNION {Span(AsModule(r)) \ SegAddrs(AsModule(r)) : r \in mapped}

Placeable(mod) ==
    /\ ModEnd(mod) - 1 <= NAddr
    /\ \A r \in mapped : SegAddrs(mod) \cap SegAddrs(AsModule(r)) = {}
    /\ ~InGap => \A r \in mapped : Span(mod) \cap Span(AsModule(r)) = {}
    /\ ~ReuseAddrs => Span(mod) \cap (used \ Holes) = {}
    /\ ~ReloadStartup => mod.name \notin {m.name : m \in InitMapped}

ModuleLoad(mod) ==
    /\ phase = "run" /\ Started /\ loads < MaxLoads
    /\ MappedNamed(mod.name) = {} /\ Placeable(mod)
    /\ HandleLoad(mod)
    /\ mapped' = mapped \cup {[name |-> mod.name, start |-> mod.start, flag |-> LoadFlag(mod)]}
    /\ used' = used \cup Span(mod)
    /\ loads' = loads + 1
    /\ UNCHANGED <<argv, argi, arg_error, mode, phase, wl, bl, modules_vector,
                   last, oldModule, oldPos, seen>>

(* The host unmaps a module; the client registers no unload event.        *)
ModuleUnload(r) ==
    /\ phase = "run" /\ Started
    /\ mapped' = mapped \ {r}
    /\ UNCHANGED <<argv, argi, arg_error, mode, phase, wl, bl, modules_vector,
                   lookup_vector, used, loads, last, oldModule, oldPos, seen>>

-----------------------------------------------------------------------------
(* app2app_bb_event on a block at pc of a loaded module.  The host calls  *)
(* it only for modules whose flag is set: for the others the block is     *)
(* left as it is.                                                          *)
BlockEvent(r, pc) ==
    /\ phase = "run" /\ Started /\ mode # "GENERATE"
    /\ last' = [mod |-> r.name, sym |-> SymAt(AsModule(r), pc),
                instr |-> r.flag = "yes" /\ needs_to_instrument(lookup_vector, pc, mode)]
    /\ UNCHANGED <<argv, argi, arg_error, mode, phase, wl, bl, modules_vector,
                   lookup_vector, mapped, used, loads, oldModule, oldPos, seen>>

(* log_symbol, called by symbol_lookup_event for a block that holds a     *)
(* floating-point instruction.  oldModule and oldPos keep their C values  *)
(* (0-based).  Lines 243-254 are the path of the module of the previous   *)
(* call; lines 256-276 the full search (both else branches are the same). *)
(* Mutant: on the module of the previous call, only the previous symbol  *)
(* is compared, not the whole list.                                       *)
LogSameModuleNoSearch(sym) ==
    LET syms == modules_vector[oldModule + 1].syms IN
    IF Len(syms) <= oldPos \/ syms[oldPos + 1] # sym
    THEN /\ modules_vector' = [modules_vector EXCEPT ![oldModule + 1].syms = Append(@, sym)]
         /\ oldPos' = Len(syms)
    ELSE UNCHANGED <<modules_vector, oldPos>>

LogSameModule(sym) ==
    LET syms == modules_vector[oldModule + 1].syms IN
    IF /\ (Len(syms) <= oldPos \/ syms[oldPos + 1] # sym)
       /\ vec_idx_of(syms, sym) = Len(syms) + 1
    THEN /\ modules_vector' = [modules_vector EXCEPT ![oldModule + 1].syms = Append(@, sym)]
         /\ oldPos' = Len(syms)
    ELSE UNCHANGED <<modules_vector, oldPos>>

(* Mutant: a new entry's index taken as oldModule off by one (the size  *)
(* after the push_back instead of before it); oldPos is read from the new *)
(* entry, as the out-of-bounds read would otherwise stop TLC.            *)
LogSearchOldModuleOff(name, sym) ==
    LET pos == ModIdx(modules_vector, name)
        new == pos = Len(modules_vector) + 1
        mv  == IF new THEN Append(modules_vector, [name |-> name, all |-> FALSE, syms |-> <<>>])
               ELSE modules_vector
        om  == IF new THEN pos ELSE oldModule
    IN  /\ oldModule' = om
        /\ IF vec_idx_of(mv[pos].syms, sym) = Len(mv[pos].syms) + 1
           THEN /\ oldPos' = Len(mv[pos].syms)
                /\ modules_vector' = [mv EXCEPT ![pos].syms = Append(@, sym)]
           ELSE /\ modules_vector' = mv
                /\ UNCHANGED oldPos

(* Mutant: oldPos set to size() - 1, as on the path above, before the  *)
(* push_back: it underflows on an entry with no symbol yet.               *)
LogSearchPosMinusOne(name, sym) ==
    LET pos == ModIdx(modules_vector, name)
        new == pos = Len(modules_vector) + 1
        mv  == IF new THEN Append(modules_vector, [name |-> name, all |-> FALSE, syms |-> <<>>])
               ELSE modules_vector
        om  == IF new THEN pos - 1 ELSE oldModule
    IN  /\ oldModule' = om
        /\ IF vec_idx_of(mv[pos].syms, sym) = Len(mv[pos].syms) + 1
           THEN /\ oldPos' = Len(mv[om + 1].syms) - 1
                /\ modules_vector' = [mv EXCEPT ![pos].syms = Append(@, sym)]
           ELSE /\ modules_vector' = mv
                /\ UNCHANGED oldPos

LogSearch(name, sym) ==
    LET pos == ModIdx(modules_vector, name)
        new == pos = Len(modules_vector) + 1
        mv  == IF new THEN Append(modules_vector, [name |-> name, all |-> FALSE, syms |-> <<>>])
               ELSE modules_vector
        om  == IF new THEN pos - 1 ELSE oldModule
    IN  /\ oldModule' = om
        /\ IF vec_idx_of(mv[pos].syms, sym) = Len(mv[pos].syms) + 1
           THEN /\ oldPos' = Len(mv[om + 1].syms)
                /\ modules_vector' = [mv EXCEPT ![pos].syms = Append(@, sym)]
           ELSE /\ modules_vector' = mv
                /\ UNCHANGED oldPos

(* Mutant: the test of an empty symbol name is dropped, so a block of    *)
(* code outside every symbol is logged under the name "".                 *)
log_symbolLogsEmpty(name, sym) ==
    IF Len(modules_vector) > oldModule /\ modules_vector[oldModule + 1].name = name
    THEN LogSameModule(sym) /\ UNCHANGED oldModule
    ELSE LogSearch(name, sym)

log_symbol(name, sym) ==
    IF sym = NoSym THEN UNCHANGED <<modules_vector, oldModule, oldPos>>
    ELSE IF Len(modules_vector) > oldModule /\ modules_vector[oldModule + 1].name = name
    THEN LogSameModule(sym) /\ UNCHANGED oldModule
    ELSE LogSearch(name, sym)

(* Mutant: api_register registers symbol_lookup_event in every mode.     *)
SymbolLookupEventAnyMode(r, pc) ==
    /\ phase = "run" /\ Started
    /\ LET sym == SymAt(AsModule(r), pc) IN
       /\ log_symbol(r.name, sym)
       /\ seen' = IF sym = NoSym THEN seen ELSE seen \cup {<<r.name, sym>>}
    /\ UNCHANGED <<argv, argi, arg_error, mode, phase, wl, bl, lookup_vector,
                   mapped, used, loads, last>>

SymbolLookupEvent(r, pc) ==
    /\ phase = "run" /\ Started /\ mode = "GENERATE"
    /\ LET sym == SymAt(AsModule(r), pc) IN
       /\ log_symbol(r.name, sym)
       /\ seen' = IF sym = NoSym THEN seen ELSE seen \cup {<<r.name, sym>>}
    /\ UNCHANGED <<argv, argi, arg_error, mode, phase, wl, bl, lookup_vector,
                   mapped, used, loads, last>>

Next ==
    \/ ParseArg
    \/ ArgsEnd
    \/ ModeManager
    \/ \E r \in mapped : StartupModuleLoad(r)
    \/ \E m \in ModNames, a \in 1..NAddr : ModuleLoad([name |-> m, start |-> a])
    \/ \E r \in mapped : ModuleUnload(r)
    \/ \E r \in mapped : \E pc \in SegAddrs(AsModule(r)) : BlockEvent(r, pc)
    \/ \E r \in mapped : \E pc \in SegAddrs(AsModule(r)) : SymbolLookupEvent(r, pc)

Spec == Init /\ [][Next]_vars

-----------------------------------------------------------------------------
(* What the lists mean (spec, section 4.5, and the header comment of      *)
(* symbol_config.cpp): a code address of module m and symbol s is         *)
(* instrumented in NOLOOKUP mode; with a whitelist only when "m" or "m!s" *)
(* is listed in it; with a blacklist only when neither is listed in it;   *)
(* with both, when listed in the whitelist and not in the blacklist.      *)
Listed(file, m, s) ==
    \E i \in 1..Len(file) : file[i] # Blank /\ file[i].mod = m /\ file[i].sym \in {Whole, s}

Intended(m, s) ==
    CASE mode = "NOLOOKUP" -> TRUE
      [] mode = "WL_ONLY"  -> Listed(wl, m, s)
      [] mode = "BL_ONLY"  -> ~Listed(bl, m, s)
      [] mode = "BL_WL"    -> Listed(wl, m, s) /\ ~Listed(bl, m, s)
      [] OTHER             -> FALSE

(* Every block app2app_bb_event sees is rewritten exactly when the lists  *)
(* ask for it: the module flag set by should_instrument_module at load    *)
(* time and needs_to_instrument on the lookup table together decide what  *)
(* the lists say of the block's module and symbol, whatever modules were  *)
(* loaded, unloaded and reloaded before.                                   *)
FilterDecisionCorrect ==
    last # NoBlock => last.instr = Intended(last.mod, last.sym)

NamesDistinct(mv) ==
    \A i, j \in 1..Len(mv) : i # j => mv[i].name # mv[j].name
SymsDistinct(mv) ==
    \A i \in 1..Len(mv) : \A k, l \in 1..Len(mv[i].syms) :
        k # l => mv[i].syms[k] # mv[i].syms[l]
Catalogued(mv) ==
    UNION {{<<mv[i].name, mv[i].syms[k]>> : k \in 1..Len(mv[i].syms)} : i \in 1..Len(mv)}

(* In generate mode the catalog log_symbol builds holds every (module,    *)
(* symbol) pair of a logged block exactly once: no module twice, no       *)
(* symbol twice in a module, and nothing that was not seen, whatever the  *)
(* order of the blocks and the last-seen shortcut.                        *)
CatalogExact ==
    mode = "GENERATE" =>
      /\ NamesDistinct(modules_vector)
      /\ SymsDistinct(modules_vector)
      /\ Catalogued(modules_vector) = seen

(* The statics of log_symbol in generate mode: modules_vector, with its  *)
(* names and symbols distinct, and oldModule an index of it once it has  *)
(* an entry, so that modules_vector[oldModule] is always a valid read.   *)
GenOK(mv, om, op) ==
    /\ mv \in Seq(ModuleEntries)
    /\ NamesDistinct(mv) /\ SymsDistinct(mv)
    /\ om \in Nat /\ op \in Nat
    /\ mv = <<>> \/ om < Len(mv)

(* CatalogExact strengthened to an inductive invariant: before the lists  *)
(* are read nothing is catalogued, outside generate mode nothing is ever *)
(* logged, and in generate mode the statics of log_symbol stay in the    *)
(* bounds of modules_vector (the search path reads                        *)
(* modules_vector[oldModule] for oldPos, for a module other than the one *)
(* it logs into).                                                          *)
CatalogInv ==
    /\ mode \in Modes
    /\ phase \in {"args", "lists", "run", "aborted"}
    /\ oldModule \in Nat /\ oldPos \in Nat
    /\ mapped \subseteq [name : ModNames, start : Nat, flag : Flags]
    /\ phase \in {"args", "lists"} => modules_vector = <<>> /\ seen = {}
    /\ mode # "GENERATE" => seen = {}
    /\ mode = "GENERATE" => GenOK(modules_vector, oldModule, oldPos)
    /\ CatalogExact

(* The catalog as the spec sees it: the pairs modules_vector lists in    *)
(* generate mode; in the other modes modules_vector holds the parsed      *)
(* lists and there is no catalog.                                          *)
CatalogView == IF mode = "GENERATE" THEN Catalogued(modules_vector) ELSE {}

Abs == INSTANCE Catalog WITH catalog <- CatalogView,
                             Symbols <- [m \in ModNames |-> SymsOf(m)]

(* The catalog log_symbol keeps in modules_vector implements the abstract *)
(* catalog: it starts empty and every step of the client (option parsing, *)
(* the mode manager, module loads, block events) leaves it as it is or    *)
(* adds one pair of a module and one of that module's own symbols.        *)
CatalogRefinement == Abs!Spec

(* Outside generate mode, once the client runs, no step changes the      *)
(* parsed lists: module_load_handler and app2app_bb_event, which run on  *)
(* any thread, only read modules_vector, so they need no lock on it.      *)
ListsFrozenAfterStartup ==
    [][phase = "run" /\ mode # "GENERATE" => modules_vector' = modules_vector]_vars

(* The spec (section 5) holds the lookup table immutable once the         *)
(* single-threaded startup is over, so that the block events of several   *)
(* threads may read it without a lock: no step of the running process    *)
(* (module_load_handler included) changes lookup_vector.                  *)
LookupFrozenAfterStartup ==
    [][phase = "run" => lookup_vector' = lookup_vector]_vars
=============================================================================
