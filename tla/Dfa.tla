-------------------------------- MODULE Dfa --------------------------------
(***************************************************************************)
(* The transition table of the DFA chunk parser (src/parser/dfa/table.rs). *)
(*                                                                         *)
(* A byte is a one-letter string; what tells bytes apart is their role in  *)
(* a dialect.  A dialect is a record with the fields of `Config` the table *)
(* reads: quote, escape, delimiter, comment (a byte or NoByte), terminator *)
(* ("CRLF" or a byte) and quote_handling.                                  *)
(***************************************************************************)

NoByte == "none"

InteriorStates == {"InField", "InQuotedField", "RecordStart", "FieldStart",
                   "AfterClosingQuote", "InEscapedQuote", "InComment"}
ActionStates == {"FieldEnd", "RecordEnd", "Error"}

QuoteHandlings == {"Toggle", "Literal", "Strict"}

(* RecordTerminator::bytes: CRLF ends a record at either byte.             *)
Terminators(c) == IF c.terminator = "CRLF" THEN {"n", "r"} ELSE {c.terminator}

(* A comment ends at a line feed whatever the record terminator is.        *)
CommentEnds(c) == {"n"} \cup (IF c.terminator = "CRLF" THEN {"r"} ELSE {})

DoubledQuotes(c) == c.quote # NoByte /\ c.quote = c.escape

(* Config::validate: the control bytes are distinct, but for a quote that  *)
(* escapes itself, and only a quote can be escaped.                        *)
ValidDialect(c) ==
  /\ c.quote_handling \in QuoteHandlings
  /\ ({c.delimiter, c.quote, c.escape, c.comment} \ {NoByte}) \cap Terminators(c) = {}
  /\ c.delimiter \notin {c.quote, c.escape, c.comment}
  /\ c.comment # NoByte => c.comment \notin {c.quote, c.escape}
  /\ c.escape # NoByte => c.quote # NoByte

(***************************************************************************)
(* One cell: the next state, whether the byte belongs to the field, and    *)
(* whether the strict probe of find_record_start rejects it.               *)
(***************************************************************************)
Cell(next, out, strict) == [next |-> next, out |-> out, strict |-> strict]
Consume(next) == Cell(next, FALSE, FALSE)
Emit(next)    == Cell(next, TRUE, FALSE)

FieldStartCell(c, b) ==
  CASE b = c.quote           -> Consume("InQuotedField")
    [] b = c.delimiter       -> Consume("FieldEnd")
    [] b \in Terminators(c)  -> Consume("RecordEnd")
    [] OTHER                 -> Emit("InField")

(* A quote inside an unquoted field: the dialects differ, and the two that *)
(* accept it tag the cell for the strict probe.                            *)
MidFieldQuoteCell(c) ==
  CASE c.quote_handling = "Toggle"  -> Cell("InQuotedField", FALSE, TRUE)
    [] c.quote_handling = "Literal" -> Cell("InField", TRUE, TRUE)
    [] c.quote_handling = "Strict"  -> Consume("Error")

InFieldCell(c, b) ==
  CASE b = c.delimiter       -> Consume("FieldEnd")
    [] b \in Terminators(c)  -> Consume("RecordEnd")
    [] b = c.quote           -> MidFieldQuoteCell(c)
    [] OTHER                 -> Emit("InField")

InQuotedFieldCell(c, b) ==
  CASE b = c.escape /\ ~DoubledQuotes(c) -> Consume("InEscapedQuote")
    [] b = c.quote                       -> Consume("AfterClosingQuote")
    [] OTHER                             -> Emit("InQuotedField")

AfterClosingQuoteCell(c, b) ==
  CASE b = c.quote /\ DoubledQuotes(c) -> Emit("InQuotedField")
    [] b = c.delimiter                 -> Consume("FieldEnd")
    [] b \in Terminators(c)            -> Consume("RecordEnd")
    [] OTHER ->
         CASE c.quote_handling = "Strict" -> Consume("Error")
           [] c.quote_handling = "Toggle" /\ b = c.quote ->
                Cell("InQuotedField", FALSE, TRUE)
           [] OTHER -> Cell("InField", TRUE, TRUE)

(* RecordStart replays FieldStart, except on an empty line or a comment.   *)
RecordStartCell(c, b) ==
  CASE b \in Terminators(c) -> Consume("RecordStart")
    [] b = c.comment        -> Consume("InComment")
    [] OTHER                -> FieldStartCell(c, b)

InCommentCell(c, b) ==
  Consume(IF b \in CommentEnds(c) THEN "RecordStart" ELSE "InComment")

(* Dfa::transition.  Action states are never stored, so never looked up.   *)
Transition(c, state, b) ==
  CASE state = "FieldStart"        -> FieldStartCell(c, b)
    [] state = "InField"           -> InFieldCell(c, b)
    [] state = "InQuotedField"     -> InQuotedFieldCell(c, b)
    [] state = "AfterClosingQuote" -> AfterClosingQuoteCell(c, b)
    [] state = "InEscapedQuote"    -> Emit("InQuotedField")
    [] state = "InComment"         -> InCommentCell(c, b)
    [] state = "RecordStart"       -> RecordStartCell(c, b)

=============================================================================
