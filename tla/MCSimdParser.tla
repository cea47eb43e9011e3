--------------------------- MODULE MCSimdParser -----------------------------
(***************************************************************************)
(* SimdParser over every small input in the dialects the SIMD parser       *)
(* supports: with quotes that can be doubled, with quotes that cannot, and *)
(* without quotes, which is the other stepper.                             *)
(***************************************************************************)
EXTENDS SimdParser

CONSTANT MaxSize

Doubling == [delimiter |-> ",", terminator |-> "n", quote |-> "q", escape |-> "q",
             comment |-> "none", quote_handling |-> "Toggle", field_count |-> 2,
             trim |-> FALSE, flexible |-> FALSE]
Undoubled == [Doubling EXCEPT !.escape = "none"]
Unquoted  == [Undoubled EXCEPT !.quote = "none"]

OneColumn(c) == [c EXCEPT !.field_count = 1]
CrLf(c)      == [c EXCEPT !.terminator = "CRLF"]

(* The parser starts behind the blank lines that the driver has skipped.   *)
Inputs(c, alphabet, max) ==
  {bytes \in UNION {[1..n -> alphabet] : n \in 0..max} :
     bytes # <<>> => bytes[1] \notin P!Terminators(c)}
JobsOf(c, alphabet, max) ==
  {j \in [config : {c}, bytes : Inputs(c, alphabet, max), limit : 0..max] :
     j.limit <= Len(j.bytes)}

(* A record with "!" or "?" in it is one the callback rejects.             *)
MCJobs ==
  JobsOf(Doubling, {"!", ",", "q", "n"}, MaxSize)
  \cup JobsOf(Undoubled, {"?", ",", "q", "n"}, MaxSize)
  \cup JobsOf(Unquoted, {"!", ",", "n"}, MaxSize + 1)
  \cup JobsOf(OneColumn(Doubling), {"x", "q", "n"}, MaxSize + 1)
  \cup JobsOf(OneColumn(Undoubled), {"x", "q", "n"}, MaxSize + 1)
  \cup JobsOf(CrLf(OneColumn(Doubling)), {"x", "q", "n", "r"}, MaxSize)
  \cup JobsOf(CrLf(OneColumn(Unquoted)), {"x", "n", "r"}, MaxSize + 1)
=============================================================================
