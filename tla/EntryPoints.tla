---------------------------- MODULE EntryPoints -----------------------------
(***************************************************************************)
(* The builder, the parser it builds, and the three ways to run it         *)
(* (src/builder.rs, src/parser/api.rs, and the dispatch in                 *)
(* src/scheduler/mod.rs).  The types ParserBuilder<Mode, Encoding> and     *)
(* Parser<Mode, Encoding> decide which methods there are; here they are    *)
(* the variables mode and encoding, and guards.                            *)
(*                                                                         *)
(* A parse is seen as far as the callback's arity goes: its records are    *)
(* numbers of fields.  What a parse makes of bytes is the subject of the   *)
(* other modules, and sizes of chunks, threads and buffers that of         *)
(* Resolve.  A panic is an answer that no call should give.                *)
(***************************************************************************)
EXTENDS Backends, Integers, FiniteSets

CONSTANTS
  Choices,      \* for each setter the values it is called with
  NonAscii,     \* the bytes among them that are not ASCII
  Arities,      \* how many fields a closure may take
  Widths,       \* how many fields a record may have
  MaxSettings,  \* bounds on the calls of setters ...
  MaxParses     \* ... and of parses

NoCount == -1
NoLimit == -1

(* Config::default, as far as this module reads it.                        *)
Default ==
  [delimiter |-> ",", terminator |-> "CRLF", quote |-> "q", escape |-> "q",
   comment |-> NoByte, quote_handling |-> "Toggle",
   trim |-> FALSE, flexible |-> FALSE, field_count |-> NoCount,
   parser_backend |-> "Auto", io_backend |-> "Auto",
   buffer_size |-> 0, buffer_limit |-> 0, io_buffer_limit |-> 0]

Modes == {"Arity", "Variadic"}
Encodings == {"Text", "Bytes"}
Entries == {"parse", "parse_slice", "parse_stream"}
IoBackends == {"InMemory", "Mmap", "RingBuf"}

ASSUME EntryPointsAssumption ==
  /\ DOMAIN Choices \subseteq DOMAIN Default \ {"flexible", "field_count"}
  /\ Choices.parser_backend \subseteq ParserBackends
  /\ Choices.io_backend \subseteq IoBackends \cup {"Auto"}
  /\ Choices.quote_handling \subseteq QuoteHandlings
  /\ Arities \subseteq Nat /\ Widths \subseteq Nat \ {0}
  /\ MaxSettings \in Nat /\ MaxParses \in Nat

VARIABLES
  stage,     \* "building", "built", "running", or "refused"
  mode, encoding, config,
  settings, parses,
  run,       \* the last parse: its entry point, arity, configuration, back ends
  handed,    \* the widths of the records its callback was handed
  answer     \* what the last call answered

built_as == <<mode, encoding, config>>
vars == <<stage, built_as, settings, parses, run, handed, answer>>

NotRun == [entry |-> "none", arity |-> NoCount, config |-> Default,
           parser |-> "Auto", io |-> "Auto"]

Init ==
  /\ stage = "building"
  /\ mode = "Arity" /\ encoding = "Text" /\ config = Default
  /\ settings = 0 /\ parses = 0
  /\ run = NotRun /\ handed = {} /\ answer = "none"

-----------------------------------------------------------------------------
(* The builder.  A setter overwrites one field, whatever was set before.   *)
Builds ==
  stage = "building" /\ UNCHANGED <<stage, parses, run, handed, answer>>

Set ==
  /\ Builds /\ settings < MaxSettings
  /\ \E f \in DOMAIN Choices : \E v \in Choices[f] : config' = [config EXCEPT ![f] = v]
  /\ settings' = settings + 1
  /\ UNCHANGED <<mode, encoding>>

Variadic ==
  /\ Builds /\ mode = "Arity"
  /\ mode' = "Variadic"
  /\ UNCHANGED <<encoding, config, settings>>

(* A variant: the callback still takes an array.                           *)
FlexibleArity ==
  /\ Builds /\ mode = "Arity"
  /\ config' = [config EXCEPT !.flexible = TRUE]
  /\ UNCHANGED <<mode, encoding, settings>>

Flexible ==
  /\ Builds /\ mode = "Arity"
  /\ mode' = "Variadic" /\ config' = [config EXCEPT !.flexible = TRUE]
  /\ UNCHANGED <<encoding, settings>>

Bytes ==
  /\ Builds /\ encoding = "Text"
  /\ encoding' = "Bytes"
  /\ UNCHANGED <<mode, config, settings>>

(* supports_backend: the count of fields is not known yet, and one is      *)
(* taken for granted.                                                      *)
SupportsBackend(backend, c) == Supports(backend, [c EXCEPT !.field_count = 1])

(* Config::validate; the ring buffer's own settings are only looked at     *)
(* when that back end is named.                                            *)
Validated(c) ==
  /\ ValidDialect(c)
  /\ c.io_backend = "RingBuf" =>
       \A limit \in {c.buffer_limit, c.io_buffer_limit} \ {NoLimit, 0} :
         c.buffer_size <= limit

ControlBytes(c) ==
  ({c.delimiter, c.quote, c.escape, c.comment} \ {NoByte}) \cup Terminators(c)

(* A variant: the terminator may cut a character.                          *)
BuildableButForTerminator(c, enc) ==
  Validated(c) /\ (enc = "Text" => {c.delimiter, c.quote, c.escape, c.comment} \cap NonAscii = {})

IsBuildable(c, enc) ==
  Validated(c) /\ (enc = "Text" => ControlBytes(c) \cap NonAscii = {})

TryBuild ==
  /\ stage = "building"
  /\ IsBuildable(config, encoding)
  /\ stage' = "built" /\ answer' = "Ok"
  /\ UNCHANGED <<built_as, settings, parses, run, handed>>

TryBuildRefuses ==
  /\ stage = "building"
  /\ ~IsBuildable(config, encoding)
  /\ stage' = "refused" /\ answer' = "InvalidConfig"
  /\ UNCHANGED <<built_as, settings, parses, run, handed>>

-----------------------------------------------------------------------------
(* The parser, which can be run again and again.                           *)
(* arity_config: a copy with the closure's number of fields.               *)
ArityConfig(c, arity) == [c EXCEPT !.field_count = arity]

(* A variant: an entry point that forgets to.                              *)
UnpinnedConfig(arity) == config

PinnedConfig(arity) == IF mode = "Arity" THEN ArityConfig(config, arity) ELSE config
ArityOf == IF mode = "Arity" THEN Arities ELSE {NoCount}

(* Where the bytes come from.  Auto goes by the size of the file, which is *)
(* any; a slice and a stream always go through a ring buffer.              *)
ResolvedIo(entry, c) ==
  IF entry # "parse" THEN {"RingBuf"}
  ELSE IF c.io_backend # "Auto" THEN {c.io_backend} ELSE {"InMemory", "RingBuf"}

(* assumptions_for_config takes an escape without a quote for impossible,  *)
(* the two dispatches an Auto that is left, and run_slice anything but a   *)
(* ring buffer.  A stream makes no assumptions.                            *)
IsUnreachable(r) ==
  \/ "Auto" \in {r.parser, r.io}
  \/ r.entry = "parse_slice" /\ r.io # "RingBuf"
  \/ r.entry # "parse_stream" /\ r.config.quote = NoByte /\ r.config.escape # NoByte

Calls(entry, arity, c, parser, io) ==
  run' = [entry |-> entry, arity |-> arity, config |-> c, parser |-> parser, io |-> io]

Called ==
  /\ stage = "built" /\ parses < MaxParses
  /\ parses' = parses + 1 /\ handed' = {}
  /\ UNCHANGED <<built_as, settings>>

Answer(a) == answer' = a /\ UNCHANGED <<stage>>

(* The parser that was chosen does not support the configuration.          *)
ParseRefuses ==
  /\ Called
  /\ \E entry \in Entries, arity \in ArityOf :
       LET c == PinnedConfig(arity) IN
       /\ ~Supports(Chosen(c), c)
       /\ Calls(entry, arity, c, Chosen(c), "Auto")
  /\ Answer("InvalidConfig")

(* The file has no metadata, which is asked for before anything else.      *)
NoSuchFile ==
  /\ Called
  /\ \E arity \in ArityOf : Calls("parse", arity, PinnedConfig(arity), "Auto", "Auto")
  /\ Answer("IO")

(* An input without a byte has no chunks: merge gets no states.            *)
NothingToParse ==
  /\ Called
  /\ \E entry \in Entries \ {"parse_stream"}, arity \in ArityOf :
       LET c == PinnedConfig(arity) IN
       Supports(Chosen(c), c) /\ Calls(entry, arity, c, Chosen(c), "Auto")
  /\ Answer("Ok")

Dispatch ==
  /\ Called
  /\ \E entry \in Entries, arity \in ArityOf :
       LET c == PinnedConfig(arity) IN
       /\ Supports(Chosen(c), c)
       /\ \E io \in ResolvedIo(entry, c) : Calls(entry, arity, c, Chosen(c), io)
  /\ IF IsUnreachable(run') THEN Answer("unreachable")
     ELSE stage' = "running" /\ answer' = "none"

-----------------------------------------------------------------------------
Running == stage = "running" /\ UNCHANGED <<built_as, settings, parses, run>>

Return(a) == stage' = "built" /\ answer' = a /\ UNCHANGED handed

(* A variant: a record with too many fields passes.                        *)
HasEnoughFields(c, width) == c.field_count <= width

(* check_arity of the DFA stepper, verify of the SIMD steppers.            *)
HasTheFields(c, width) == c.field_count \in {NoCount, width}

(* fields_as_array: the closure takes an array of its own length.          *)
FieldsAsArray(width) == mode = "Arity" => run.arity = width

HandOut ==
  /\ Running
  /\ \E width \in Widths :
       /\ HasTheFields(run.config, width)
       /\ IF FieldsAsArray(width)
          THEN handed' = handed \cup {width} /\ UNCHANGED <<stage, answer>>
          ELSE Return("assertion")

RejectRecord ==
  /\ Running
  /\ \E width \in Widths : ~HasTheFields(run.config, width)
  /\ Return("NumberOfFields")

(* A context that does not open, a read that fails, text that is none, a   *)
(* misplaced quote, an error of the callback's.                            *)
Fail ==
  /\ Running
  /\ \E a \in {"IO", "Malformed", "User"} : Return(a)

Complete == Running /\ Return("Ok")

Next == Set \/ Variadic \/ Flexible \/ Bytes \/ TryBuild \/ TryBuildRefuses
        \/ ParseRefuses \/ NoSuchFile \/ NothingToParse \/ Dispatch
        \/ HandOut \/ RejectRecord \/ Fail \/ Complete

Spec == Init /\ [][Next]_vars

-----------------------------------------------------------------------------
Answers == {"none", "Ok", "InvalidConfig", "IO", "Malformed", "User",
            "NumberOfFields", "unreachable", "assertion"}

(* A configuration carries no count of its own: it is the copy of one      *)
(* parse that does, and only the variadic types permit a varying count.    *)
TypeOK ==
  /\ stage \in {"building", "built", "running", "refused"}
  /\ mode \in Modes /\ encoding \in Encodings
  /\ config.field_count = NoCount /\ (config.flexible => mode = "Variadic")
  /\ run.entry \in Entries \cup {"none"}
  /\ run.parser \in ParserBackends /\ run.io \in IoBackends \cup {"Auto"}
  /\ settings \in 0..MaxSettings /\ parses \in 0..MaxParses
  /\ handed \subseteq Widths
  /\ answer \in Answers

(* No sequence of calls ends in a panic of the crate's own: what           *)
(* try_build lets through never reaches an `unreachable!` of the dispatch  *)
(* (scheduler/mod.rs:122, 188, 211) or of assumptions_for_config           *)
(* (chunk.rs:27), and the closure's array always has the length of the     *)
(* record (api.rs:478, "record arity not verified by the parser").         *)
NeverPanics == answer \notin {"unreachable", "assertion"}

(* What a parse that runs may rely on, wherever in the builder it was      *)
(* decided: the dialect is consistent, in text mode no control byte can    *)
(* cut a character in two (output.rs:24), and the parser that was chosen   *)
(* models the dialect, with the count of fields this closure asks for.     *)
RunsWhatItSupports ==
  stage = "running" =>
    /\ Validated(run.config)
    /\ encoding = "Text" => ControlBytes(run.config) \cap NonAscii = {}
    /\ Supports(run.parser, run.config)
    /\ run.config.field_count = run.arity

(* "Use `Auto` to fall back to the DFA parser silently"                    *)
(* (builder.rs:233): a parser that was built is refused its configuration  *)
(* only if the caller named the SIMD parser.                               *)
AutoNeverRefuses ==
  answer = "InvalidConfig" => stage = "refused" \/ config.parser_backend = "Simd"

(* A closure of a count of fields that a parser can have is not refused by *)
(* the parser supports_backend answered for, although it answered before   *)
(* the count was known.                                                    *)
ProbeAgrees ==
  mode = "Arity" /\ answer = "InvalidConfig" /\ stage = "built" =>
    ~SupportsBackend(config.parser_backend, config) \/ run.arity \notin 1..FixedMaxArity

=============================================================================
