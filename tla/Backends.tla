------------------------------ MODULE Backends ------------------------------
(***************************************************************************)
(* The two chunk parsers, what each of them supports, and the choice       *)
(* between them (src/parser/simd/mod.rs and src/parser/dfa/mod.rs,         *)
(* supports; src/scheduler/resolve.rs, resolve_parser_backend).            *)
(*                                                                         *)
(* A configuration is a dialect of Dfa with trim, flexible, parser_backend *)
(* and field_count, which outside 1..FixedMaxArity may be anything.        *)
(***************************************************************************)
EXTENDS Dfa, Naturals

ChunkParsers == {"Dfa", "Simd"}
ParserBackends == ChunkParsers \cup {"Auto"}

FixedMaxArity == 63

(* The dialects the SIMD parser takes.                                     *)
SimdSupports(c) ==
  /\ c.field_count \in 1..FixedMaxArity
  /\ ~c.trim /\ ~c.flexible
  /\ c.comment = NoByte
  /\ c.quote_handling = "Toggle"
  /\ c.quote # NoByte => c.escape \in {c.quote, NoByte}

(* The DFA parser takes them all.                                          *)
Supports(parser, c) == parser = "Simd" => SimdSupports(c)

(* A variant: Auto asks as if a count of fields were still to be given.    *)
UnlessTooWide(c) ==
  IF c.parser_backend # "Auto" THEN c.parser_backend
  ELSE IF SimdSupports([c EXCEPT !.field_count = 1]) THEN "Simd" ELSE "Dfa"

(* Auto takes the SIMD parser where it can; who names a parser gets it, or *)
(* is refused.                                                             *)
Chosen(c) ==
  IF c.parser_backend # "Auto" THEN c.parser_backend
  ELSE IF SimdSupports(c) THEN "Simd" ELSE "Dfa"

=============================================================================
