--------------------------- MODULE MCSymbolFilter ---------------------------
(***************************************************************************)
(* A process with two modules and two symbol names.  Module A is not      *)
(* contiguous: its symbol f, code of no symbol, a hole of two addresses,  *)
(* then its symbol g.  Module B is two addresses, f then g.  A is loaded  *)
(* before the client starts; B is loaded (and unloaded, and reloaded) by  *)
(* the application.                                                        *)
(***************************************************************************)
EXTENDS SymbolFilter, TLC

CONSTANTS A, B, f, g

MCModNames == {A, B}
MCSymNames == {f, g}
MCLayout == (A :> <<f, NoSym, Gap, Gap, g>>) @@ (B :> <<f, g>>)

L(m, s) == [mod |-> m, sym |-> s]

(* Command lines reaching every mode, each abort and the -ar option of    *)
(* the analyser's parser.                                                  *)
MCArgvs == {<<>>, <<"-n">>, <<"-w", "f">>, <<"-b", "f">>,
            <<"-w", "f", "-b", "f">>, <<"-b", "f", "-w", "f", "-ar">>,
            <<"-g", "f", "-w">>, <<"-w", "f", "-n">>, <<"-b">>, <<"f">>}

(* Lists that make whole-module and symbol entries meet in each mode.     *)
MCWLFiles == {<<L(A, f), L(B, g), Blank>>,
              <<L(A, Whole), L(B, f), L(A, g)>>}
MCBLFiles == {<<L(A, g), L(B, Whole)>>,
              <<L(B, f), L(A, f), L(A, Whole)>>}

(* A whole-module whitelist entry with a blacklisted exception, and a    *)
(* module whitelisted by symbol.                                           *)
MCArgvsHole == {<<"-w", "f", "-b", "f">>}
MCWLFilesHole == {<<L(A, Whole), L(B, f)>>}
MCBLFilesHole == {<<L(A, g)>>}

MCInitMapped == {[name |-> A, start |-> 1]}
=============================================================================
