------------------------------ MODULE MCMerge -------------------------------
(***************************************************************************)
(* Bounded inputs for the merge phase.  A run takes every file over a      *)
(* small alphabet up to a length, every chunk size of ChunkSizes, and a    *)
(* family of dialects.                                                     *)
(***************************************************************************)
EXTENDS Merge

CONSTANTS MaxSize,    \* the longest file
          ChunkSizes  \* the chunk sizes each file is cut into

Files(alphabet, max) == UNION {[1..n -> alphabet] : n \in 1..max}

JobsOf(configs, files, bads) ==
  [config : configs, file : files, chunk_size : ChunkSizes, bad : bads]
Readable == {NoOffset}

(* RFC 4180, no headers, any number of fields: the other dialects are       *)
(* variations of it.                                                        *)
Rfc4180 == [delimiter |-> ",", terminator |-> "n", quote |-> "q", escape |-> "q",
            comment |-> NoByte, has_headers |-> FALSE,
            quote_handling |-> "Strict", field_count |-> 0]

Handling(handlings) == {[Rfc4180 EXCEPT !.quote_handling = h] : h \in handlings}
Columns   == [Rfc4180 EXCEPT !.field_count = 2]
Crlf      == [Rfc4180 EXCEPT !.terminator = "CRLF"]
Unquoted  == [Rfc4180 EXCEPT !.quote = NoByte, !.escape = NoByte]
Commented == [Rfc4180 EXCEPT !.comment = "#"]
Escaped   == [Rfc4180 EXCEPT !.escape = "e"]
Headed    == [Rfc4180 EXCEPT !.has_headers = TRUE]

-----------------------------------------------------------------------------
(* Dialects that reject a quote in the middle of a field, and so reject    *)
(* what a wrong guess makes of a chunk sooner or later; and input with one *)
(* byte that cannot be read.                                               *)
StrictJobs ==
  JobsOf({Rfc4180}, Files({"x", "q", "n"}, MaxSize), Readable)
  \cup JobsOf({Rfc4180}, Files({"x", "q", "n"}, MaxSize - 1), 0..(MaxSize - 1))
  \cup JobsOf({Columns}, Files({"x", ",", "q", "n"}, MaxSize - 1), Readable)
  \cup JobsOf({Crlf}, Files({"x", "q", "r", "n"}, MaxSize - 1), Readable)
  \cup {j \in JobsOf({Commented}, Files({"!", "q", "#", "n"}, MaxSize - 1), Readable) :
          PlainComments(j)}
  \cup JobsOf({Escaped}, Files({"x", "q", "e", "n"}, MaxSize - 1), Readable)
  \cup JobsOf({Unquoted}, Files({"!", ",", "n"}, MaxSize - 1), Readable)
  \cup {j \in JobsOf({Headed}, Files({"x", "q", "n"}, MaxSize), Readable) : HeaderFits(j)}

(* Dialects that accept any quote, over input with and without one byte    *)
(* that cannot be read, and over input the callback rejects with an error  *)
(* of the crate.                                                           *)
LenientJobs ==
  JobsOf(Handling({"Toggle", "Literal"}), Files({"x", "q", "n"}, MaxSize), {NoOffset, 3})
  \cup JobsOf({[Escaped EXCEPT !.quote_handling = h] : h \in {"Toggle", "Literal"}},
              Files({"x", "q", "e", "n"}, MaxSize - 1), Readable)
  \cup JobsOf(Handling({"Toggle"}), Files({"x", "?", "q", "n"}, MaxSize - 1), Readable)

-----------------------------------------------------------------------------
(* The inputs on which the code and its documentation part.                *)

(* A file whose last chunk opens in something that has quotes in it which  *)
(* do not quote: a comment, or an unquoted field of a Toggle dialect.      *)
LostRecordJobs ==
  JobsOf({Commented},
         {<<"#", "x", "x", "x", "x">> \o tail : tail \in Files({"x", "q", "n"}, MaxSize)},
         Readable)
  \cup JobsOf(Handling({"Toggle"}),
              {<<"x", "x", "x", "x", "x", "q", "q">> \o tail :
                 tail \in Files({"x", "q", "n"}, MaxSize - 2)}, Readable)

(* A header row with a misplaced quote, or with a byte that cannot be read.*)
BrokenHeaderJobs ==
  {j \in JobsOf({Headed}, Files({"x", "q", "n"}, MaxSize), {NoOffset, 0, 1}) :
     HeaderScan(j).state \in {"Error", "IoError"}}

(* Records ended by a byte other than a line feed, and a comment, which a  *)
(* line feed ends.                                                         *)
CommentToEofJobs ==
  JobsOf({[Commented EXCEPT !.terminator = "r"]}, Files({"x", "#", "r"}, MaxSize), Readable)

=============================================================================
