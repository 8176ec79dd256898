------------------------------- MODULE Catalog -------------------------------
(***************************************************************************)
(* What the symbol catalog of generate mode promises (spec, section 4.5,  *)
(* "-g <file>": the symbols that contain floating-point instructions, per *)
(* module): a set of (module, symbol) pairs, empty at startup, that only  *)
(* grows, one pair at a time, and holds nothing but symbols of the        *)
(* module they are listed under.  How it is stored (modules_vector, its   *)
(* entries and the statics of log_symbol) is SymbolFilter's business.     *)
(***************************************************************************)
CONSTANTS
    ModNames,   \* the modules
    Symbols     \* Symbols[m]: the symbols of module m

VARIABLE catalog

Init == catalog = {}

(* A block of module m whose first instruction lies in symbol s is seen.  *)
Log(m, s) == catalog' = catalog \cup {<<m, s>>}

Next == \E m \in ModNames : \E s \in Symbols[m] : Log(m, s)

Spec == Init /\ [][Next]_catalog
=============================================================================
