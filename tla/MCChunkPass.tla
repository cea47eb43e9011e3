---------------------------- MODULE MCChunkPass -----------------------------
(* Bounded passes: every file over an alphabet up to a length, every chunk  *)
(* boundary, a family of dialects, and every search a pass may begin with.  *)
EXTENDS ChunkPass

CONSTANTS MaxSize

Rfc4180 == [delimiter |-> ",", terminator |-> "n", quote |-> "q", escape |-> "q",
            comment |-> NoByte, quote_handling |-> "Toggle", field_count |-> 0,
            trim |-> FALSE, text |-> FALSE]
Text    == [Rfc4180 EXCEPT !.text = TRUE]
Trim    == [Rfc4180 EXCEPT !.trim = TRUE]
Escaped == [Rfc4180 EXCEPT !.escape = "e", !.quote_handling = "Strict"]
Columns == [Rfc4180 EXCEPT !.comment = "#", !.terminator = "CRLF", !.field_count = 2]

Files(alphabet, max) == UNION {[1..n -> alphabet] : n \in 1..max}
JobsOf(c, searches, alphabet, max) ==
  {j \in [config : {c}, bytes : Files(alphabet, max), limit : 1..max,
          find : {"No", "SkipHeaders", "Strict", "Lenient"},
          assumption : {"OutOfQuotes", "InQuotes", "InQuotesAfterEscape"},
          backend : {"DFA", "SIMD"}] :
     j.limit <= Len(j.bytes) /\ <<j.find, j.assumption, j.backend>> \in searches}

Start  == {<<"No", "OutOfQuotes", "DFA">>}
Header == {<<"SkipHeaders", "OutOfQuotes", "DFA">>}
Headers == Header \cup {<<"SkipHeaders", "OutOfQuotes", "SIMD">>}
Guesses == {"Strict", "Lenient"} \X {"OutOfQuotes", "InQuotes"} \X {"DFA"}
EscapedGuess == {<<"Strict", "InQuotesAfterEscape", "DFA">>}

MCJobs ==
  JobsOf(Rfc4180, Start, {"x", ",", "q", "n"}, MaxSize)
  \cup JobsOf(Rfc4180, Headers \cup Guesses, {"x", "q", "n"}, MaxSize + 1)
  \cup JobsOf(Rfc4180, Start, {",", "q", "n"}, MaxSize + 1)
  \cup JobsOf(Text, Start, {"h", "t", "q", "n"}, MaxSize)
  \cup JobsOf(Text, Guesses, {"h", "t", "n"}, MaxSize)
  \cup JobsOf(Text, Start, {"h", "t", "q"}, MaxSize + 1)
  \cup JobsOf(Trim, Start, {"x", " ", "q", ","}, MaxSize)
  \cup JobsOf(Escaped, Start, {"!", "e", "q", "n"}, MaxSize)
  \cup JobsOf(Escaped, Header \cup EscapedGuess, {"x", "e", "q", "n"}, MaxSize)
  \cup JobsOf(Columns, Start \cup Header, {"x", ",", "#", "n"}, MaxSize)

=============================================================================
